--------------------------- MODULE BedRockSystem ---------------------------
(***************************************************************************)
(* The whole coherence system: the engines of CceFsm and LceFsm composed   *)
(* over the shared networks, and the properties it owes the cores.         *)
(***************************************************************************)
EXTENDS CceFsm, LceFsm, FiniteSetsExt

Init ==
  /\ CceInit /\ LceInit
  /\ \E x \in Line : dir = [l \in LCE |-> [f \in Frame |-> x]]
  /\ reqNet = [p \in LCE \X CCE |-> <<>>]
  /\ cmdNet = {} /\ respNet = {}
  /\ mem = [a \in Addr |-> InitData]
  /\ latest = [b \in Block |-> InitData]

Next == (\E c \in CCE : CceStep(c)) \/ (\E l \in LCE : LceStep(l))

Spec == Init /\ [][Next]_vars

(* Every engine is clocked and its ports are granted in the end: bp_lce    *)
(* keeps the core out after timeout_max_limit_p refused cycles, and the    *)
(* networks arbitrate round robin, so no request waits for ever.  Nothing  *)
(* makes a core start an access.                                           *)
Fairness ==
  /\ \A c \in CCE : /\ WF_vars(CceFsmStep(c))
                    /\ WF_vars(MemRespStep(c))
                    /\ WF_vars(CohAck(c))
                    /\ WF_vars(ConfigNormal(c))
  /\ \A c \in CCE, l \in LCE : /\ SF_vars(CceReady(c, l))
                               /\ WF_vars(CceSendSync(c, l))
  /\ \A l \in LCE : /\ WF_vars(LceCmdStep(l))
                    /\ WF_vars(LceSendReq(l))
                    /\ WF_vars(CoreReplay(l))

FairSpec == Spec /\ Fairness

----------------------------------------------------------------------------
(* Coherence, as the cores see it.                                         *)

(* A cache that may write a block is the only one that may read it: no     *)
(* interleaving of fills, upgrades, invalidations and evictions leaves two *)
(* caches with incompatible rights (Murphi invariants of mesi.m).          *)
SingleWriter ==
  \A b \in Block, l, k \in LCE :
    l # k /\ Permits(l, b, Owned) => ~Permits(k, b, Valid)

(* The way group is at rest: its pending bits are zero at a CCE in service.*)
InService(c) ==
  cceState[c] \notin {"reset", "clear_dir", "uncached_only", "send_sync",
                      "sync_ack", "error"}
AtRest(s) == InService(HomeOf[s]) /\ pending[s] = 0

(* When no cache owns a block and its way group is at rest, memory holds   *)
(* the last value stored: no write-back was lost, skipped or overtaken.    *)
MemoryCurrent ==
  \A b \in Block :
    AtRest(SetOf[b]) /\ (\A l \in LCE : ~Permits(l, b, Owned))
      => mem[b] = latest[b]

(* A line that a fill is still being written to is not yet a copy.         *)
Filling(l, f) ==
  lceState[l] = "ready" /\ Holds(l, {"data"}) /\ CmdFrame(l) = f
Readable(l, b, w, sts) == Hit(l, b, w, sts) /\ ~Filling(l, FrameOf(b, w))
View(l, b) ==
  IF \E w \in Way : Readable(l, b, w, Valid)
  THEN line[l][FrameOf(b, CHOOSE w \in Way : Readable(l, b, w, Valid))]
  ELSE None

(* The two engines, the networks and the memory implement one atomic       *)
(* location per block.                                                     *)
Memory == INSTANCE CoherentMemory WITH
  Core   <- LCE,
  value  <- latest,
  copy   <- [l \in LCE |-> [b \in Block |-> View(l, b)]],
  writer <- [l \in LCE |->
               {b \in Block : \E w \in Way : Readable(l, b, w, Owned)}]
ImplementsCoherentMemory == Memory!Spec

(* Memory is only ever written with the last value stored to the block: no *)
(* late or repeated write-back replaces a newer value.                     *)
WritebackIsLatest ==
  [][\A b \in Block : mem'[b] # mem[b] => mem'[b] = latest[b]]_vars

----------------------------------------------------------------------------
(* The directory and the pending bits.                                     *)

(* The directory at rest is exactly what the caches hold: every silent     *)
(* eviction, refused invalidation or fill into another way shows here.     *)
DirectoryExact ==
  \A s \in Set, l \in LCE, w \in Way :
    LET t == tag[l][<<s, w>>]  e == dir[l][<<s, w>>] IN
      AtRest(s) /\ (t.st # "I" \/ e.st # "I") => t = e

(* The caches whose request the CCE has taken and that still wait.         *)
Open(s) ==
  {l \in LCE : /\ miss[l].phase = "sent" /\ miss[l].op # "uc_rd"
               /\ SetOf[miss[l].addr] = s
               /\ \A r \in Range(reqNet[<<l, HomeOf[s]>>]) : r.op \notin CacheOp}
AcksFor(s) == {m \in respNet : m.type = "coh_ack" /\ SetOf[m.addr] = s}
MemOpsFor(s) ==
  {i \in DOMAIN memResp[HomeOf[s]] :
     LET r == memResp[HomeOf[s]][i] IN
       r.type \in {"rd", "wr"} /\ SetOf[r.addr] = s}

(* The pending bits count the open transaction, its speculative read and   *)
(* its write-backs: none is counted twice or forgotten, so the group opens *)
(* again exactly when all are done, and the 3-bit counter cannot wrap.     *)
PendingExact ==
  \A s \in Set :
    InService(HomeOf[s]) =>
      pending[s] = Cardinality(Open(s)) + Cardinality(AcksFor(s))
                     + Cardinality(MemOpsFor(s))

(* At most one transaction of a way group is under way in the whole system.*)
WayGroupSerialized ==
  \A s \in Set : Cardinality(Open(s)) + Cardinality(AcksFor(s)) <= 1

----------------------------------------------------------------------------
(* Messages in flight.                                                     *)

(* Everything that will bring a block to cache l: a data command, a        *)
(* transfer command that names l as its target and is not yet executed,    *)
(* and a read of memory that has been resolved in its favour.              *)
Transfers(l) ==
  {m \in cmdNet : m.type \in {"st_tr", "st_tr_wb"} /\ m.target = l}
HeldTransfers(l) ==
  {k \in LCE : /\ Holds(k, {"st_tr", "st_tr_wb"}) /\ lceCmd[k].target = l
               /\ lceState[k] \in {"ready", "tr"}}
DataCommands(l) == {m \in cmdNet : m.type = "data" /\ m.dst = l}
HeldData(l) == {k \in {l} : Holds(l, {"data"})}
Fills(l) ==
  {p \in CCE \X (1 .. MemCredits) :
     /\ p[2] \in DOMAIN memResp[p[1]]
     /\ LET r == memResp[p[1]][p[2]] IN
          /\ r.type = "rd" /\ r.lce = l
          /\ ~specBits[SetOf[r.addr]].spec /\ ~specBits[SetOf[r.addr]].squash}

(* A cache gets a block from one source only, and only while it waits for  *)
(* that block: a speculative fill and a transfer never both reach it.      *)
OneSource ==
  \A l \in LCE :
    LET n == Cardinality(Transfers(l)) + Cardinality(HeldTransfers(l))
               + Cardinality(DataCommands(l)) + Cardinality(HeldData(l))
               + Cardinality(Fills(l))
    IN  n <= 1 /\ (n = 1 => miss[l].phase = "sent")

(* cnt is the number of invalidations whose acknowledgement the CCE has    *)
(* not yet taken, so it neither leaves early nor waits for ever.           *)
InvsOf(c) ==
  {m \in cmdNet : m.type = "inv" /\ m.src = c}
    \cup {m \in respNet : m.type = "inv_ack" /\ m.dst = c}
HeldInvs(c) == {l \in LCE : Holds(l, {"inv"}) /\ lceCmd[l].src = c}
AcksCounted ==
  \A c \in CCE :
    LET n == Cardinality(InvsOf(c)) + Cardinality(HeldInvs(c)) IN
      n = IF cceState[c] \in {"inv_cmd", "inv_ack"} THEN cnt[c] ELSE 0

(* A CCE takes its responses in order of arrival, so one it does not       *)
(* expect would block all behind it: none but coherence acknowledgements,  *)
(* which are always taken, arrives outside the state that waits for it.    *)
ResponsesExpected ==
  \A m \in respNet :
    CASE m.type = "sync_ack"          -> cceState[m.dst] = "sync_ack"
      [] m.type = "inv_ack"           -> cceState[m.dst] \in {"inv_cmd", "inv_ack"}
      [] m.type \in {"wb", "null_wb"} ->
           cceState[m.dst] \in {"replacement_wb_resp", "transfer_wb_resp"}
      [] OTHER                        -> TRUE

(* The FSM enters e_inv_cmd only with somebody to invalidate: the flags it *)
(* decides by and the vector it sends from agree.                          *)
InvalidatesSomeone ==
  \A c \in CCE : cceState[c] = "inv_cmd" => toInv[c] # {}

(* A request credit is held by exactly one thing: a miss in flight or an   *)
(* uncached store somewhere between the core and its acknowledgement.      *)
UcRequests(l) ==
  UNION {{c} \X {i \in DOMAIN reqNet[<<l, c>>] : reqNet[<<l, c>>][i].op = "uc_wr"} :
         c \in CCE}
UcResponses(l) ==
  UNION {{c} \X {i \in DOMAIN memResp[c] :
                   memResp[c][i].type = "uc_wr" /\ memResp[c][i].lce = l} :
         c \in CCE}
UcDones(l) == {m \in cmdNet : m.type = "uc_st_done" /\ m.dst = l}
HeldDone(l) == {k \in {l} : Holds(l, {"uc_st_done"})}
UcStores(l) ==
  Cardinality(UcRequests(l)) + Cardinality(UcResponses(l))
    + Cardinality(UcDones(l)) + Cardinality(HeldDone(l))
CreditsExact ==
  \A l \in LCE :
    credit[l] = UcStores(l) + IF miss[l].phase = "sent" THEN 1 ELSE 0

(* No CCE serves cached requests before every cache has been cleared: what *)
(* the synchronisation is for.                                             *)
StartupOrder ==
  \A c \in CCE, l \in LCE : InService(c) => lceState[l] \notin {"reset", "clear"}

----------------------------------------------------------------------------
(* Progress.                                                               *)

(* Every miss, cached or uncached, is completed and tried again.           *)
MissCompletes ==
  \A l \in LCE : miss[l].phase = "send" ~> miss[l].phase = "idle"

(* A way group never stays busy: its acknowledgement, squashed or          *)
(* forwarded fill and write-backs all arrive.                              *)
PendingDrains == \A s \in Set : pending[s] # 0 ~> pending[s] = 0

=============================================================================
