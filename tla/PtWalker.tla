------------------------------ MODULE PtWalker ------------------------------
(***************************************************************************)
(* The hardware that walks the page tables on a TLB miss (bp_be_ptw.v).    *)
(* It reads an entry per level through the data cache, and repeats a read  *)
(* the cache misses.  Here level_cntr counts down: 0 is the last level.    *)
(***************************************************************************)
EXTENDS PageTables

CONSTANTS
  PtMisses,   \* bound on the reads the cache misses
  PtRequests  \* TLB misses: vpn, kind (instr, load, store), mode, sum, mxr

ASSUME RequestsAssumption ==
  /\ PtRequests \subseteq [vpn : Nat, kind : {"instr", "load", "store"}, mode : {"S", "U"},
                           sum : BOOLEAN, mxr : BOOLEAN]
  /\ \A req \in PtRequests : req.vpn < PtFanout * Low(2)

VARIABLES
  wkState,   \* state_r
  wkReq,     \* the miss being served
  wkLevel,   \* level_cntr
  wkPpn,     \* ppn_r
  wkWord,    \* dcache_data_i: the word in the TV stage of the cache
  wkData,    \* dcache_data_r, which takes that word in every cycle
  wkHit,     \* dcache_v_r
  wkMisses,  \* misses so far
  wkFill     \* ptw_fill_pkt_o: nothing, a page fault, or an entry of a TLB

wkVars == <<wkState, wkReq, wkLevel, wkPpn, wkWord, wkData, wkHit, wkMisses, wkFill>>

(* An entry of a TLB: the page and, of the entry found, the rights.        *)
Rights(pte) ==
  [a |-> pte.a, d |-> pte.d, u |-> pte.u, x |-> pte.x, w |-> pte.w, r |-> pte.r]
Fill(result, ppn, rights) == [result |-> result, ppn |-> ppn, rights |-> rights]
NoFill      == Fill("none", 0, Rights(NoPte))
PageFault   == Fill("fault", 0, Rights(NoPte))
IsLeaf(pte) == pte.x \/ pte.w \/ pte.r

(* writeback_ppn: of a page above the last level, the low parts of the     *)
(* number come from the virtual page.                                      *)
Merged(ppn, vpn, level) ==
  ppn - (ppn % Low(level)) + (vpn % Low(level))

(* partial_vpn[level_cntr] selects the entry of a table; elsewhere memory  *)
(* holds nothing valid.                                                    *)
Part(vpn, level) == (vpn \div Low(level)) % PtFanout
PteAt(page, vpn, level) ==
  IF page \in DOMAIN ptMem THEN ptMem[page][Part(vpn, level)] ELSE NoPte

(* pte_invalid, leaf_not_found, priv_fault, misaligned_superpage, ad_fault *)
CommonFaults(pte) ==
  \/ ~pte.v \/ (~pte.r /\ pte.w)
  \/ wkLevel = 0 /\ ~IsLeaf(pte)
  \/ IsLeaf(pte) /\ (\/ pte.u /\ wkReq.mode = "S" /\ (wkReq.kind = "instr" \/ ~wkReq.sum)
                     \/ ~pte.u /\ wkReq.mode = "U"
                     \/ pte.ppn % Low(wkLevel) # 0
                     \/ ~pte.a
                     \/ wkReq.kind = "store" /\ ~pte.d)

(* instr_page_fault_v, load_page_fault_v, store_page_fault_v               *)
Faults(pte) ==
  \/ CommonFaults(pte)
  \/ IsLeaf(pte) /\ CASE wkReq.kind = "instr" -> ~pte.x
                      [] wkReq.kind = "load"  -> ~(pte.r \/ (pte.x /\ wkReq.mxr))
                      [] wkReq.kind = "store" -> ~pte.w

----------------------------------------------------------------------------
(* A miss of a TLB starts a walk at base_ppn_i.                            *)
Start(req) ==
  /\ ptPc = "done" /\ wkState = "idle" /\ wkReq = <<>>
  /\ wkReq' = req
  /\ wkLevel' = Depth - 1 /\ wkPpn' = PtRoot
  /\ wkState' = "send" /\ wkData' = wkWord
  /\ UNCHANGED <<wkWord, wkHit, wkMisses, wkFill, ptVars>>

(* The cache takes the load when it is ready, and answers in the next      *)
(* cycle, with the data or not at all.  The word then stays in TV until a  *)
(* next load, since the walker keeps all others from the cache.            *)
ReadPte ==
  /\ wkState = "send"
  /\ wkState' = "wait" /\ wkData' = wkWord
  /\ UNCHANGED <<wkReq, wkLevel, wkPpn, wkWord, wkHit, wkMisses, wkFill, ptVars>>

WaitHit ==
  /\ wkState = "wait"
  /\ wkHit' = TRUE
  /\ wkWord' = PteAt(wkPpn, wkReq.vpn, wkLevel) /\ wkData' = wkWord'
  /\ wkState' = "recv"
  /\ UNCHANGED <<wkReq, wkLevel, wkPpn, wkMisses, wkFill, ptVars>>

WaitMiss ==
  /\ wkState = "wait" /\ wkMisses < PtMisses
  /\ wkHit' = FALSE
  /\ wkWord' = NoPte /\ wkData' = wkWord'
  /\ wkMisses' = wkMisses + 1
  /\ wkState' = "recv"
  /\ UNCHANGED <<wkReq, wkLevel, wkPpn, wkFill, ptVars>>

(* Mutated form of RecvRetry: the read is not repeated at the same place.  *)
RecvRetryNext ==
  /\ wkState = "recv" /\ ~wkHit
  /\ wkPpn' = wkData.ppn
  /\ wkState' = "send" /\ wkData' = wkWord
  /\ UNCHANGED <<wkReq, wkLevel, wkWord, wkHit, wkMisses, wkFill, ptVars>>

RecvRetry ==
  /\ wkState = "recv" /\ ~wkHit
  /\ wkState' = "send" /\ wkData' = wkWord
  /\ UNCHANGED <<wkReq, wkLevel, wkPpn, wkWord, wkHit, wkMisses, wkFill, ptVars>>

(* ppn_r follows the entry in any case, level_cntr unless it is a leaf.    *)
RecvPte ==
  /\ wkState = "recv" /\ wkHit
  /\ wkPpn' = wkData.ppn /\ wkData' = wkWord
  /\ wkHit' = FALSE
  /\ wkLevel' = IF IsLeaf(wkData) THEN wkLevel ELSE (wkLevel - 1) % 4
  /\ IF Faults(wkData)
     THEN wkState' = "idle" /\ wkFill' = PageFault
     ELSE /\ wkState' = IF IsLeaf(wkData) THEN "writeback" ELSE "send"
          /\ UNCHANGED wkFill
  /\ UNCHANGED <<wkReq, wkWord, wkMisses, ptVars>>

(* The page is of the entry received, the rights of what dcache_data_r     *)
(* holds a cycle later.                                                    *)
WriteBack ==
  /\ wkState = "writeback"
  /\ wkFill' = Fill("page", Merged(wkPpn, wkReq.vpn, wkLevel), Rights(wkData))
  /\ wkState' = "idle" /\ wkData' = wkWord
  /\ UNCHANGED <<wkReq, wkLevel, wkPpn, wkWord, wkHit, wkMisses, ptVars>>

----------------------------------------------------------------------------
WkInit ==
  /\ wkState = "idle" /\ wkReq = <<>> /\ wkLevel = 0 /\ wkPpn = 0
  /\ wkWord = NoPte /\ wkData = NoPte /\ wkHit = FALSE /\ wkMisses = 0 /\ wkFill = NoFill

WkNext ==
  \/ \E req \in PtRequests : Start(req)
  \/ ReadPte \/ WaitHit \/ WaitMiss \/ RecvRetry \/ RecvPte \/ WriteBack

(* The walker alone, on page tables of any origin.                         *)
WalkSpec ==
  ptPc = "done" /\ ptMem \in PtOthers /\ WkInit /\ [][WkNext]_<<ptVars, wkVars>>

(* The tables of ptgen.py, or others, and the walker on them.              *)
PagingNext == (PtNext /\ UNCHANGED wkVars) \/ WkNext
PagingSpec == PtInit /\ WkInit /\ [][PagingNext]_<<ptVars, wkVars>>

----------------------------------------------------------------------------
(* What an entry allows, by kind of access and mode.                       *)
Allows(pte, req) ==
  /\ pte.a /\ (req.kind = "store" => pte.d)
  /\ CASE req.kind = "instr" -> pte.x
       [] req.kind = "load"  -> pte.r \/ (pte.x /\ req.mxr)
       [] req.kind = "store" -> pte.w
  /\ IF pte.u THEN req.mode = "U" \/ (req.kind # "instr" /\ req.sum) ELSE req.mode = "S"

(* The way of a page through the tables ends at the first entry that does  *)
(* not lead to another table.                                              *)
LeadsOn(pte) == pte.v /\ ~IsLeaf(pte)
Entry2(vpn) == PteAt(PtRoot, vpn, 2)
Entry1(vpn) == PteAt(Entry2(vpn).ppn, vpn, 1)
Entry0(vpn) == PteAt(Entry1(vpn).ppn, vpn, 0)
EndLevel(vpn) == IF ~LeadsOn(Entry2(vpn)) THEN 2 ELSE IF ~LeadsOn(Entry1(vpn)) THEN 1 ELSE 0
EndPte(vpn) ==
  IF ~LeadsOn(Entry2(vpn)) THEN Entry2(vpn)
  ELSE IF ~LeadsOn(Entry1(vpn)) THEN Entry1(vpn) ELSE Entry0(vpn)

Translation(req) ==
  LET pte == EndPte(req.vpn)  low == Low(EndLevel(req.vpn)) IN
  IF pte.v /\ IsLeaf(pte) /\ (pte.w => pte.r) /\ pte.ppn % low = 0 /\ Allows(pte, req)
  THEN Fill("page", pte.ppn + (req.vpn % low), Rights(pte)) ELSE PageFault

(* A walk, however often the cache misses, ends with the page its leaf     *)
(* maps to and the rights of that leaf, if it allows the access and is     *)
(* aligned for its level, and with a page fault if there is no such leaf.  *)
WalksTranslate == wkFill # NoFill => wkFill = Translation(wkReq)

(* What ptgen.py can be asked for: sections in ascending order, each in    *)
(* one table of the last level, all in one table of the level above.       *)
Supported ==
  /\ \A i, j \in DOMAIN ptSecs : i < j => ptSecs[i].start + ptSecs[i].size <= ptSecs[j].start
  /\ \A i \in DOMAIN ptSecs :
       /\ ptSecs[i].start \div PtFanout = (ptSecs[i].start + ptSecs[i].size - 1) \div PtFanout
       /\ ptSecs[i].start \div Low(2) = ptSecs[1].start \div Low(2)

Mapped(vpn) ==
  \E i \in DOMAIN ptSecs : vpn \in ptSecs[i].start .. ptSecs[i].start + ptSecs[i].size - 1

(* Every section may be read, written and run by the supervisor, and has   *)
(* been already, as the entries say.                                       *)
SectionRights ==
  [a |-> TRUE, d |-> TRUE, u |-> FALSE, x |-> TRUE, w |-> TRUE, r |-> TRUE]

(* The hardware finds in the tables of ptgen.py every page of every section*)
(* at its own number, with all rights, for any supervisor access and no    *)
(* user access, and no other page.                                         *)
SectionsMapped ==
  ptSecs # <<>> /\ Supported =>
    /\ ptPc # "failed"
    /\ wkFill # NoFill =>
         wkFill = IF Mapped(wkReq.vpn) /\ wkReq.mode = "S"
                  THEN Fill("page", wkReq.vpn, SectionRights) ELSE PageFault
=============================================================================
