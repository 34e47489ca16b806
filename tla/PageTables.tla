----------------------------- MODULE PageTables -----------------------------
(***************************************************************************)
(* ptgen.py: the page tables of a program, made from the sections it is to *)
(* map, each a first page and a number of pages.  A virtual page is mapped *)
(* to the physical page of the same number.                                *)
(***************************************************************************)
EXTENDS Integers, Sequences, FiniteSetsExt, SequencesExt, Functions

CONSTANTS
  PtFanout,    \* page_pte_num: entries of a table
  PtRoot,      \* root_table_ppn
  PtSections,  \* section lists: sequences of [start |-> vpn, size |-> pages]
  PtOthers     \* page tables made otherwise: functions from ppn to table

ASSUME PtAssumption == PtFanout \in Nat \ {0} /\ PtRoot \in Nat

Depth == 3   \* pt_depth: 27 bits of page number in steps of 9
Levels == 0 .. Depth - 1

VARIABLES
  ptPc,      \* off, vpns, roots, fill, failed, done
  ptSecs,    \* as_start_vpn, as_size
  ptLevel,   \* level
  ptVpns,    \* table_vpns: first page of each table of a level
  ptRoots,   \* pt_roots: page that holds each table of a level
  ptMem      \* page_table, where it will be in memory: page -> entry -> PTE

ptVars == <<ptPc, ptSecs, ptLevel, ptVpns, ptRoots, ptMem>>

(* The fanout to the power of n, as a product.                             *)
Low(n) ==
  CASE n = 0 -> 1
    [] n = 1 -> PtFanout
    [] n = 2 -> PtFanout * PtFanout

(* How many pages an entry of a table of a level maps; level 0 is the root.*)
Span(level) == Low(Depth - 1 - level)

Pte(v, xwr, u, a, d, ppn) ==
  [v |-> v, x |-> "x" \in xwr, w |-> "w" \in xwr, r |-> "r" \in xwr,
   u |-> u, a |-> a, d |-> d, ppn |-> ppn]
NoPte == Pte(FALSE, {}, FALSE, FALSE, FALSE, 0)

Ptes == [v : BOOLEAN, x : BOOLEAN, w : BOOLEAN, r : BOOLEAN, u : BOOLEAN, a : BOOLEAN,
         d : BOOLEAN, ppn : Nat]
ASSUME OthersAssumption ==
  \A mem \in PtOthers : \A page \in DOMAIN mem : mem[page] \in [0 .. PtFanout - 1 -> Ptes]

(* Sections lie in a virtual address space of three digits of page number. *)
ASSUME SectionsAssumption ==
  \A secs \in PtSections :
    /\ secs \in Seq(ToSet(secs))
    /\ \A i \in DOMAIN secs :
         /\ secs[i].start \in Nat /\ secs[i].size \in Nat \ {0}
         /\ secs[i].start + secs[i].size <= PtFanout * Low(2)

----------------------------------------------------------------------------
(* Mutated form of Touches: a section is a page longer than it is.         *)
TouchesOneMore(vpn, level) ==
  \E i \in DOMAIN ptSecs :
    /\ ptSecs[i].start <= vpn + Span(level) - 1
    /\ ptSecs[i].start + ptSecs[i].size >= vpn

(* checkAddr: does some section reach into the pages of an entry?          *)
Touches(vpn, level) ==
  \E i \in DOMAIN ptSecs :
    /\ ptSecs[i].start <= vpn + Span(level) - 1
    /\ ptSecs[i].start + ptSecs[i].size - 1 >= vpn

(* The first page of the table that maps the start of a section.           *)
TableVpn(i, level) == ptSecs[i].start - (ptSecs[i].start % Span(level - 1))

(* A table for each section, unless it starts in the table of the section  *)
(* before it.                                                              *)
FindTables ==
  LET own == {i \in DOMAIN ptSecs : i = 1 \/ TableVpn(i, ptLevel) # TableVpn(i - 1, ptLevel)}
      nth(i) == Cardinality({j \in own : j <= i})
  IN /\ ptPc = "vpns"
     /\ ptVpns' = [ptVpns EXCEPT ![ptLevel] =
          [n \in 1 .. Cardinality(own) |->
             TableVpn(CHOOSE i \in own : nth(i) = n, ptLevel)]]
     /\ IF ptLevel = Depth - 1
        THEN ptPc' = "roots" /\ ptLevel' = 0
        ELSE ptLevel' = ptLevel + 1 /\ UNCHANGED ptPc
     /\ UNCHANGED <<ptSecs, ptRoots, ptMem>>

(* The tables lie one after the other, level by level.                     *)
PlaceTables ==
  LET before == <<0, Len(ptVpns[0]), Len(ptVpns[0]) + Len(ptVpns[1])>>
  IN /\ ptPc = "roots"
     /\ ptRoots' = [level \in Levels |->
          [n \in DOMAIN ptVpns[level] |-> PtRoot + before[level + 1] + n - 1]]
     /\ ptPc' = "fill"
     /\ UNCHANGED <<ptSecs, ptLevel, ptVpns, ptMem>>

(* The entries of a table that are valid, and which of them an entry is:   *)
(* target_tableNum counts from the first table for every table anew.       *)
EntryVpn(level, n, k) == ptVpns[level][n] + k * Span(level)
Used(level, n) == {k \in 0 .. PtFanout - 1 : Touches(EntryVpn(level, n, k), level)}
Target(level, n, k) == Cardinality({j \in Used(level, n) : j <= k})

Entry(level, n, k) ==
  IF k \notin Used(level, n) THEN NoPte
  ELSE IF level = Depth - 1
       THEN Pte(TRUE, {"x", "w", "r"}, FALSE, TRUE, TRUE, EntryVpn(level, n, k))
       ELSE Pte(TRUE, {}, FALSE, TRUE, TRUE, ptRoots[level + 1][Target(level, n, k)])

(* More entries than tables to point to: the script ends with an error.    *)
IndexError(level) ==
  level # Depth - 1 /\ \E n \in DOMAIN ptVpns[level] :
    Cardinality(Used(level, n)) > Len(ptRoots[level + 1])

FillLevel ==
  /\ ptPc = "fill"
  /\ IF IndexError(ptLevel)
     THEN ptPc' = "failed" /\ UNCHANGED <<ptLevel, ptMem>>
     ELSE /\ ptMem' = [page \in DOMAIN ptMem \cup ToSet(ptRoots[ptLevel]) |->
               IF page \in DOMAIN ptMem THEN ptMem[page]
               ELSE LET n == CHOOSE n \in DOMAIN ptRoots[ptLevel] : ptRoots[ptLevel][n] = page
                    IN [k \in 0 .. PtFanout - 1 |-> Entry(ptLevel, n, k)]]
          /\ IF ptLevel = Depth - 1
             THEN ptPc' = "done" /\ UNCHANGED ptLevel
             ELSE ptLevel' = ptLevel + 1 /\ UNCHANGED ptPc
  /\ UNCHANGED <<ptSecs, ptVpns, ptRoots>>

----------------------------------------------------------------------------
PtState(pc) ==
  /\ ptPc = pc /\ ptLevel = 1
  /\ ptVpns = [level \in Levels |-> IF level = 0 THEN <<0>> ELSE <<>>]
  /\ ptRoots = <<>>

PtOff == PtState("off") /\ ptSecs = <<>> /\ ptMem = <<>>

PtInit ==
  \/ PtState("vpns") /\ ptSecs \in PtSections /\ ptMem = <<>>
  \/ PtState("done") /\ ptSecs = <<>> /\ ptMem \in PtOthers

PtNext == FindTables \/ PlaceTables \/ FillLevel
=============================================================================
