----------------------------- MODULE PcHistogram -----------------------------
(***************************************************************************)
(* pc_histogram.py: from the trace of the core profiler, a row per cycle,  *)
(* it makes tables of the blocks of adjacent instructions that were        *)
(* executed equally often, one for each tile and one for all.              *)
(***************************************************************************)
EXTENDS Integers, SequencesExt, FiniteSetsExt

CONSTANT PhTraces  \* sequences of rows [cycle, x, y, pc, op]

ASSUME PhAssumption ==
  \A trace \in PhTraces :
    /\ trace \in Seq(ToSet(trace))
    /\ \A row \in ToSet(trace) : row.x \in Nat /\ row.y \in Nat /\ row.pc \in Nat

VARIABLES
  phPc,      \* off, parse, count, tiles, total, done, failed
  phTrace,   \* traces
  phDim,     \* bp_dim_y and bp_dim_x
  phCnt,     \* tile_pc_cnt: tile -> pc -> count, of the pcs counted
  phRow,     \* rows counted
  phHist,    \* tile_pc_histogram: tile -> (first pc, last pc) -> count
  phAt,      \* y and x of the tile to be added
  phSum,     \* bp_pc_cnt: pc -> count of the tiles added
  phTotal    \* bp_pc_histogram

phVars == <<phPc, phTrace, phDim, phCnt, phRow, phHist, phAt, phSum, phTotal>>

PcStep == 4  \* _BSG_PC_ADDR_STEP

Tiles == (0 .. phDim.y - 1) \X (0 .. phDim.x - 1)

----------------------------------------------------------------------------
(* Mutated form of LexMax: the second coordinate is not compared.          *)
LexMaxOfY(S) == CHOOSE m \in S : \A s \in S : s[1] <= m[1]

(* __parse_traces: the largest pair (y, x), a pair of coordinates being    *)
(* compared like a word, by y first.                                       *)
LexMax(S) ==
  CHOOSE m \in S : \A s \in S : s[1] < m[1] \/ (s[1] = m[1] /\ s[2] <= m[2])

ParseTraces ==
  LET max == LexMax({<<0, 0>>} \cup {<<row.y, row.x>> : row \in ToSet(phTrace)})
      dim == [y |-> max[1] + 1, x |-> max[2] + 1]
  IN /\ phPc = "parse"
     /\ phDim' = dim
     /\ phCnt' = [t \in (0 .. dim.y - 1) \X (0 .. dim.x - 1) |-> <<>>]
     /\ phPc' = "count"
     /\ UNCHANGED <<phTrace, phRow, phHist, phAt, phSum, phTotal>>

(* The operations that are not counted: names that begin with stall_ (one  *)
(* stands for them), those that end with _miss, and bubble.                *)
NotCounted ==
  {"stall_depend", "itlb_miss", "icache_miss", "dtlb_miss", "dcache_miss", "bubble"}

Increment(cnt, pc) ==
  [p \in DOMAIN cnt \cup {pc} |->
     (IF p \in DOMAIN cnt THEN cnt[p] ELSE 0) + (IF p = pc THEN 1 ELSE 0)]

(* __generate_tile_pc_cnt; a tile outside the dimensions ends the script.  *)
CountRow ==
  LET row == phTrace[phRow + 1]  tile == <<row.y, row.x>> IN
  /\ phPc = "count" /\ phRow < Len(phTrace)
  /\ CASE row.op \in NotCounted -> UNCHANGED <<phCnt, phPc>>
       [] row.op \notin NotCounted /\ tile \in Tiles ->
            phCnt' = [phCnt EXCEPT ![tile] = Increment(@, row.pc)] /\ UNCHANGED phPc
       [] OTHER -> phPc' = "failed" /\ UNCHANGED phCnt
  /\ phRow' = phRow + 1
  /\ UNCHANGED <<phTrace, phDim, phHist, phAt, phSum, phTotal>>

CountEnd ==
  /\ phPc = "count" /\ phRow = Len(phTrace)
  /\ phPc' = "tiles"
  /\ UNCHANGED <<phTrace, phDim, phCnt, phRow, phHist, phAt, phSum, phTotal>>

----------------------------------------------------------------------------
(* Mutated form of SameBlock: a gap between two pcs does not end a block.  *)
SameBlockAcrossGaps(cnt, first, prev, pc) == cnt[first] = cnt[pc]

SameBlock(cnt, first, prev, pc) == cnt[first] = cnt[pc] /\ pc - prev = PcStep

(* __generate_pc_histogram goes over the pcs in ascending order.  The      *)
(* window a pc is in begins where that of the pc before does, or at the pc *)
(* when that one had to be closed.                                         *)
Window(cnt) ==
  LET start[pc \in DOMAIN cnt] ==
        LET before == {p \in DOMAIN cnt : p < pc}
            prev   == Max(before)
        IN IF before # {} /\ SameBlock(cnt, start[prev], prev, pc) THEN start[prev] ELSE pc
  IN start

(* A block for every window, from its start to the last pc in it.          *)
Histogram(cnt) ==
  LET start == Window(cnt)
      ends  == {pc \in DOMAIN cnt : \A p \in DOMAIN cnt : start[p] = start[pc] => p <= pc}
  IN {[start |-> start[pc], end |-> pc, cnt |-> cnt[start[pc]]] : pc \in ends}

(* A tile that executed nothing has no first pc: the script ends with an   *)
(* error.                                                                  *)
TileHistograms ==
  /\ phPc = "tiles"
  /\ IF \E t \in Tiles : DOMAIN phCnt[t] = {}
     THEN phPc' = "failed" /\ UNCHANGED phHist
     ELSE phHist' = [t \in Tiles |-> Histogram(phCnt[t])] /\ phPc' = "total"
  /\ UNCHANGED <<phTrace, phDim, phCnt, phRow, phAt, phSum, phTotal>>

(* __generate_bp_pc_cnt adds the counts of the tiles, row by row.          *)
Plus(cnt, other) ==
  [pc \in DOMAIN cnt \cup DOMAIN other |->
     (IF pc \in DOMAIN cnt THEN cnt[pc] ELSE 0) + (IF pc \in DOMAIN other THEN other[pc] ELSE 0)]

AddTile ==
  /\ phPc = "total" /\ phAt.y < phDim.y
  /\ phSum' = Plus(phSum, phCnt[<<phAt.y, phAt.x>>])
  /\ phAt' = IF phAt.x + 1 < phDim.x THEN [phAt EXCEPT !.x = @ + 1]
                                     ELSE [y |-> phAt.y + 1, x |-> 0]
  /\ UNCHANGED <<phPc, phTrace, phDim, phCnt, phRow, phHist, phTotal>>

TotalHistogram ==
  /\ phPc = "total" /\ phAt.y = phDim.y
  /\ phTotal' = Histogram(phSum)
  /\ phPc' = "done"
  /\ UNCHANGED <<phTrace, phDim, phCnt, phRow, phHist, phAt, phSum>>

(* __print_pc_histogram: the lines of a table.                             *)
Printed(hist) ==
  {[block |-> <<b.start, b.end>>, cnt |-> b.cnt,
    size |-> (b.end - b.start) \div PcStep + 1,
    exe |-> b.cnt * ((b.end - b.start) \div PcStep + 1)] : b \in hist}

----------------------------------------------------------------------------
PhState(pc) ==
  /\ phPc = pc /\ phDim = [y |-> 0, x |-> 0] /\ phCnt = <<>> /\ phRow = 0
  /\ phHist = <<>> /\ phAt = [y |-> 0, x |-> 0] /\ phSum = <<>> /\ phTotal = {}

PhOff == PhState("off") /\ phTrace = <<>>

PhInit == PhState("parse") /\ phTrace \in PhTraces

PhNext == ParseTraces \/ CountRow \/ CountEnd \/ TileHistograms \/ AddTile
          \/ TotalHistogram

----------------------------------------------------------------------------
Executed(tiles) ==
  {i \in DOMAIN phTrace : /\ phTrace[i].op \notin NotCounted
                          /\ <<phTrace[i].y, phTrace[i].x>> \in tiles}

(* What a table has to say of the executed rows of some tiles: every row   *)
(* is in one block, every instruction of a block was executed as often as  *)
(* the block says, no two blocks next to each other could be one, and the  *)
(* last column is the number of rows in the block.                         *)
Describes(hist, tiles) ==
  LET rows == Executed(tiles)
      in(pcs) == {i \in rows : phTrace[i].pc \in pcs}
  IN /\ \A i \in rows : \E b \in hist : phTrace[i].pc \in b.start .. b.end
     /\ \A b \in hist : \A pc \in {p \in b.start .. b.end : (p - b.start) % PcStep = 0} :
          Cardinality(in({pc})) = b.cnt
     /\ \A b, c \in hist : b # c =>
          /\ b.end < c.start \/ c.end < b.start
          /\ c.start = b.end + PcStep /\ in(b.end + 1 .. c.start - 1) = {} => b.cnt # c.cnt
     /\ \A line \in Printed(hist) :
          line.exe = Cardinality(in(line.block[1] .. line.block[2]))

(* Every table describes the rows of its tile, the last one all rows.      *)
HistogramsExact ==
  phPc = "done" =>
    /\ \A t \in Tiles : Describes(phHist[t], {t})
    /\ Describes(phTotal, Tiles) /\ Executed(Tiles) = Executed(Int \X Int)

(* Every tile up to the largest coordinates executed something.            *)
Complete(trace) ==
  \E y, x \in 0 .. Len(trace) :
    /\ \A row \in ToSet(trace) : row.y <= y /\ row.x <= x
    /\ \A t \in (0 .. y) \X (0 .. x) :
         \E row \in ToSet(trace) : <<row.y, row.x>> = t /\ row.op \notin NotCounted

(* The script gets to the end on every trace in which each tile of the     *)
(* network executed something.                                             *)
HistogramsMade == phPc = "failed" => ~Complete(phTrace)
=============================================================================
