-------------------------- MODULE BedRockProofs ---------------------------
(***************************************************************************)
(* The state of the coherence system is well formed for every number of    *)
(* caches, engines, blocks, sets, ways and credits. TypeOK alone is not    *)
(* inductive: an action that puts the address, the way or the owner of a   *)
(* register into a message needs to know that the register is loaded,      *)
(* which depends on the state the finite state machine is in.              *)
(***************************************************************************)
EXTENDS BedRockSystem, TLAPS

(* The states in which the MSHR holds a cached request.                    *)
Cached ==
  {"read_pending", "deq_lce_req", "read_mem_spec", "read_dir",
   "write_next_state", "inv_cmd", "inv_ack", "replacement",
   "replacement_wb_resp", "upgrade_stw_cmd", "transfer", "transfer_wb_resp",
   "resolve_speculation"}

(* The states after e_read_dir: the directory has answered.                *)
Decided ==
  {"write_next_state", "inv_cmd", "inv_ack", "replacement",
   "replacement_wb_resp", "upgrade_stw_cmd", "transfer", "transfer_wb_resp",
   "resolve_speculation"}

(* The states in which the request is still at the head of its channel.    *)
Taking == {"uc_req", "read_pending", "deq_lce_req"}

(* What e_ready, e_read_dir and e_write_next_state have loaded when the    *)
(* later states send it: the requester and its block, the victim of the    *)
(* way the LRU chose, the way to upgrade, the owner and its way.           *)
MshrWF ==
  \A c \in CCE :
    /\ cceState[c] \in Cached =>
         mshr[c].lce \in LCE /\ mshr[c].addr \in Block /\ mshr[c].lru \in Way
    /\ cceState[c] \in Decided =>
         /\ mshr[c].lruBlk \in Block
         /\ mshr[c].uf => mshr[c].way \in Way
         /\ mshr[c].xf => mshr[c].owner \in LCE /\ mshr[c].ownerWay \in Way
    /\ cceState[c] = "upgrade_stw_cmd" => mshr[c].uf
    /\ cceState[c] = "transfer" => mshr[c].xf

(* Every cache that e_inv_cmd has still to invalidate has a way.           *)
InvWF ==
  \A c \in CCE : cceState[c] = "inv_cmd" =>
    \A l \in toInv[c] : sharers[c][l] \in Way

(* The request being taken is still in its channel: e_ready remembers the  *)
(* requester only, and the states that dequeue read the channel again.     *)
ReqWF ==
  \A c \in CCE :
    /\ cceState[c] \in Taking =>
         mshr[c].lce \in LCE /\ reqNet[<<mshr[c].lce, c>>] # <<>>
    /\ cceState[c] = "uc_req" => Head(reqNet[<<mshr[c].lce, c>>]).op \in UcOp

(* A channel carries the requests of its own cache.                        *)
RequestsOf(l) == {r \in Request : r.src = l}
SrcWF ==
  \A l \in LCE, c \in CCE : reqNet[<<l, c>>] \in Seq(RequestsOf(l))

(* The multi-cycle states of the LCE hold the command that led there.      *)
CmdWF ==
  \A l \in LCE :
    /\ lceState[l] = "tr" => Holds(l, {"st_tr", "st_tr_wb"})
    /\ lceState[l] \in {"wb_stat_rd", "wb", "wb_dirty_rd", "wb_dirty_send"} =>
         Holds(l, {"st_wb", "st_tr_wb"})
    /\ lceState[l] = "coh_ack" => Holds(l, {"data", "st_wakeup"})

(* A miss that has not been sent carries an address of its own kind.       *)
MissWF ==
  \A l \in LCE : miss[l].phase = "send" =>
    \/ miss[l].op = "uc_rd" /\ miss[l].addr \in IoBlock
    \/ /\ miss[l].op \in CoreOps \cup {"rd"}
       /\ miss[l].addr \in Block /\ miss[l].lru \in Way

LatestOK == latest \in [Block -> Data]
CceOK  == CceTypeOK /\ MshrWF /\ InvWF
LceOK  == LceTypeOK /\ CmdWF
CoreOK == CoreTypeOK /\ MissWF

(* The inductive invariant, one named part per group of variables, so that *)
(* an action says nothing of the groups it leaves alone.                   *)
IInv ==
  /\ CceOK /\ DirTypeOK /\ MemTypeOK /\ CacheTypeOK /\ LceOK /\ CoreOK
  /\ NetTypeOK /\ SrcWF /\ ReqWF /\ LatestOK

(* The fields a command has, by its type.                                  *)
LEMMA CommandFields ==
  ASSUME NEW m \in Command
  PROVE  /\ m.dst \in LCE
         /\ m.type \in {"inv", "st_wb", "st_wakeup", "st_tr", "st_tr_wb",
                         "data"} =>
              m.addr \in Block /\ m.way \in Way
         /\ m.src \in CCE
         /\ m.type \in {"st_wb", "st_wakeup", "st_tr", "st_tr_wb", "data"} =>
              m.st \in CohState
         /\ m.type \in {"st_tr", "st_tr_wb"} =>
              /\ m.target \in LCE /\ m.targetWay \in Way
              /\ m.targetSt \in CohState
         /\ m.type = "data" => m.data \in Data
BY DEF Command

(* The fields a request has, by its operation.                             *)
LEMMA RequestFields ==
  ASSUME NEW r \in Request
  PROVE  /\ r.src \in LCE /\ r.op \in CacheOp \cup UcOp
         /\ r.op \in CacheOp =>
              r.addr \in Block /\ r.lru \in Way /\ r.nonExcl \in BOOLEAN
         /\ r.op \in UcOp => r.addr \in IoBlock /\ r.data \in Data
BY DEF Request, CacheOp, UcOp

(* The fields a memory response has, by its type.                          *)
LEMMA MemResponseFields ==
  ASSUME NEW r \in MemResponse
  PROVE  /\ r.addr \in Addr /\ r.type \in {"rd", "wr", "uc_rd", "uc_wr"}
         /\ r.type = "rd" =>
              /\ r.addr \in Block /\ r.lce \in LCE /\ r.way \in Way
              /\ r.data \in Data
         /\ r.type = "uc_rd" =>
              r.addr \in IoBlock /\ r.lce \in LCE /\ r.data \in Data
         /\ r.type = "uc_wr" => r.addr \in IoBlock /\ r.lce \in LCE
BY DEF MemResponse, Addr

(* The fields an LCE response has, by its type.                            *)
LEMMA ResponseFields ==
  ASSUME NEW m \in Response
  PROVE  /\ m.src \in LCE /\ m.dst \in CCE
         /\ m.type # "sync_ack" => m.addr \in Block
         /\ m.type = "wb" => m.data \in Data
BY DEF Response

(* A block and a way name a frame of the tag memories.                     *)
LEMMA FrameIn ==
  ASSUME NEW b \in Block, NEW w \in Way
  PROVE  FrameOf(b, w) \in Frame
BY ConstantsAssumption DEF FrameOf, Frame

(* A block that the directory knows in a cache has a way there.            *)
LEMMA HitWayIn ==
  ASSUME NEW d, NEW l, NEW b, StateIn(d, l, b) # "I"
  PROVE  HitWay(d, l, b) \in Way
BY DEF StateIn, HitWay, HitWays

(* The directory names an owner, and its way, when there is one.           *)
LEMMA OwnerIn ==
  ASSUME NEW d, NEW b, NEW l, CachedOwned(d, l, b)
  PROVE  Owner(d, b) \in LCE /\ HitWay(d, Owner(d, b), b) \in Way
<1>1. CachedIn(d, b, Owned) # {}
  BY DEF CachedOwned
<1>2. Owner(d, b) \in CachedIn(d, b, Owned)
  BY <1>1 DEF Owner
<1>3. QED
  BY <1>2, HitWayIn DEF CachedIn, Owned

(* The four ways of building a memory response.                            *)
LEMMA MemResponseOf ==
  ASSUME NEW l \in LCE
  PROVE  /\ \A b \in Block, w \in Way, d \in Data :
              [type |-> "rd", addr |-> b, lce |-> l, way |-> w, data |-> d]
                \in MemResponse
         /\ \A b \in Block : [type |-> "wr", addr |-> b] \in MemResponse
         /\ \A a \in IoBlock :
              /\ [type |-> "uc_wr", addr |-> a, lce |-> l] \in MemResponse
              /\ \A d \in Data :
                   [type |-> "uc_rd", addr |-> a, lce |-> l, data |-> d]
                     \in MemResponse
BY DEF MemResponse

(* Taking the head of a channel leaves a channel of requests.              *)
LEMMA ReqHead ==
  ASSUME NetTypeOK, NEW l \in LCE, NEW c \in CCE, reqNet[<<l, c>>] # <<>>
  PROVE  /\ Head(reqNet[<<l, c>>]) \in Request
         /\ Tail(reqNet[<<l, c>>]) \in Seq(Request)
BY DEF NetTypeOK

(* The request at the head of a channel is from that channel's cache.      *)
LEMMA ReqHeadSrc ==
  ASSUME SrcWF, NEW l \in LCE, NEW c \in CCE, reqNet[<<l, c>>] # <<>>
  PROVE  Head(reqNet[<<l, c>>]).src = l
<1>1. reqNet[<<l, c>>] \in Seq(RequestsOf(l))
  BY DEF SrcWF
<1>2. Head(reqNet[<<l, c>>]) \in RequestsOf(l)
  BY <1>1
<1>3. QED
  BY <1>2 DEF RequestsOf

(* Taking the oldest memory response leaves a queue of them.               *)
LEMMA RespHeadOK ==
  ASSUME MemTypeOK, NEW c \in CCE, memResp[c] # <<>>
  PROVE  RespHead(c) \in MemResponse /\ Tail(memResp[c]) \in Seq(MemResponse)
BY DEF MemTypeOK, RespHead

(* Issuing a memory command keeps credits and responses typed.             *)
LEMMA MemCommandOK ==
  ASSUME MemTypeOK, NEW c \in CCE, NEW r \in MemResponse, MemCommand(c, r)
  PROVE  /\ memCredit' \in [CCE -> Int]
         /\ memResp' \in [CCE -> Seq(MemResponse)]
BY DEF MemTypeOK, MemCommand

(* An uncached access keeps the memory side typed.                         *)
LEMMA UncachedOK ==
  ASSUME MemTypeOK, NEW c \in CCE, NEW r \in Request, r.op \in UcOp,
         UncachedAccess(c, r)
  PROVE  MemTypeOK'
<1>1. r.addr \in IoBlock /\ r.data \in Data /\ r.src \in LCE
  BY RequestFields
<1>2. CASE r.op = "uc_wr"
  BY <1>1, <1>2, MemResponseOf, MemCommandOK DEF UncachedAccess, MemTypeOK
<1>3. CASE r.op # "uc_wr"
  <2>1. mem[r.addr] \in Data
    BY <1>1 DEF MemTypeOK, Addr
  <2>2. QED
    BY <1>1, <2>1, MemResponseOf, MemCommandOK DEF UncachedAccess, MemTypeOK
<1>4. QED
  BY <1>2, <1>3

(* Consuming a memory response keeps the memory side typed.                *)
LEMMA MemDequeueOK ==
  ASSUME MemTypeOK, NEW c \in CCE, memResp[c] # <<>>, MemDequeue(c)
  PROVE  MemTypeOK'
BY DEF MemTypeOK, MemDequeue

(* The pending counter of a way group stays in its three bits.             *)
LEMMA PendingOK ==
  ASSUME DirTypeOK, NEW s \in Set, PendingInc(s) \/ PendingDec(s)
  PROVE  pending' \in [Set -> 0 .. 7]
BY DEF DirTypeOK, PendingInc, PendingDec

(* The set of the MSHR's block is a set.                                   *)
LEMMA ReqSetIn ==
  ASSUME NEW c \in CCE, mshr[c].addr \in Block
  PROVE  ReqSet(c) \in Set
BY ConstantsAssumption DEF ReqSet

(* The set of a memory response's address is a set.                        *)
LEMMA RespHeadAddr ==
  ASSUME NEW c \in CCE, RespHead(c) \in MemResponse
  PROVE  SetOf[RespHead(c).addr] \in Set
BY MemResponseFields, ConstantsAssumption DEF Addr

(* A tag entry keeps its shape when its state changes.                     *)
LEMMA LineOf ==
  ASSUME NEW e \in Line, NEW st \in CohState
  PROVE  [e EXCEPT !.st = st] \in Line
BY DEF Line

(* Both writes of the directory keep it a directory.                       *)
LEMMA WritesOK ==
  ASSUME DirTypeOK, NEW l \in LCE, NEW b \in Block, NEW w \in Way,
         NEW st \in CohState
  PROVE  /\ WriteState(dir, l, b, w, st) \in [LCE -> [Frame -> Line]]
         /\ WriteEntry(dir, l, b, w, st) \in [LCE -> [Frame -> Line]]
<1> DEFINE f == FrameOf(b, w)
<1>1. f \in Frame
  BY FrameIn
<1>2. dir[l] \in [Frame -> Line] /\ dir[l][f] \in Line
  BY <1>1 DEF DirTypeOK
<1>3. [dir[l][f] EXCEPT !.st = st] \in Line /\ [blk |-> b, st |-> st] \in Line
  BY <1>2 DEF Line
<1> HIDE DEF f
<1>4. \A e \in Line :
        [dir EXCEPT ![l] = [dir[l] EXCEPT ![f] = e]]
          \in [LCE -> [Frame -> Line]]
  BY DEF DirTypeOK
<1>5. QED
  BY <1>3, <1>4 DEF WriteState, WriteEntry, f

(* The tag write of an LCE command keeps the tags typed.                   *)
LEMMA SetStateOK ==
  ASSUME CacheTypeOK, NEW l \in LCE, CmdFrame(l) \in Frame,
         NEW st \in CohState, SetState(l, st)
  PROVE  tag' \in [LCE -> [Frame -> Line]]
<1>1. tag[l] \in [Frame -> Line] /\ tag[l][CmdFrame(l)] \in Line
  BY DEF CacheTypeOK
<1>2. [tag[l][CmdFrame(l)] EXCEPT !.st = st] \in Line
  BY <1>1, LineOf
<1>3. \A e \in Line :
        [tag EXCEPT ![l] = [tag[l] EXCEPT ![CmdFrame(l)] = e]]
          \in [LCE -> [Frame -> Line]]
  BY DEF CacheTypeOK
<1>4. QED
  BY <1>2, <1>3 DEF SetState

(* Sending a request appends to one channel, so the request an engine is   *)
(* taking from the head stays where it is.                                 *)
LEMMA SendReqOK ==
  ASSUME NetTypeOK, CceOK, SrcWF, ReqWF, NEW l \in LCE, NEW r \in Request,
         r.src = l, SendReq(l, r),
         UNCHANGED <<cceState, mshr, cmdNet, respNet>>
  PROVE  NetTypeOK' /\ SrcWF' /\ ReqWF'
<1> DEFINE p == <<l, Home(r.addr)>>
<1>1. p \in LCE \X CCE
  BY RequestFields, ConstantsAssumption DEF Home
<1>2. reqNet' = [reqNet EXCEPT ![p] = Append(reqNet[p], r)]
  BY DEF SendReq
<1> HIDE DEF p
<1>3. NetTypeOK'
  BY <1>1, <1>2 DEF NetTypeOK
<1>4. \A q \in LCE \X CCE :
        reqNet[q] # <<>> =>
          reqNet'[q] # <<>> /\ Head(reqNet'[q]) = Head(reqNet[q])
  <2> SUFFICES ASSUME NEW q \in LCE \X CCE, reqNet[q] # <<>>
               PROVE  reqNet'[q] # <<>> /\ Head(reqNet'[q]) = Head(reqNet[q])
    OBVIOUS
  <2>1. reqNet[q] \in Seq(Request) /\ Len(reqNet[q]) > 0
    BY DEF NetTypeOK
  <2>2. /\ Append(reqNet[q], r) # <<>>
        /\ Head(Append(reqNet[q], r)) = Head(reqNet[q])
    OBVIOUS
  <2>3. QED
    BY <1>2
<1>5. ReqWF'
  BY <1>4 DEF ReqWF, Taking
<1>6. SrcWF'
  <2> SUFFICES ASSUME NEW k \in LCE, NEW c \in CCE
               PROVE  reqNet'[<<k, c>>] \in Seq(RequestsOf(k))
    BY DEF SrcWF
  <2>1. reqNet[<<k, c>>] \in Seq(RequestsOf(k))
    BY DEF SrcWF
  <2>2. CASE <<k, c>> = p
    <3>1. r \in RequestsOf(k)
      BY <2>2 DEF p, RequestsOf
    <3>2. Append(reqNet[<<k, c>>], r) \in Seq(RequestsOf(k))
      BY <2>1, <3>1
    <3>3. reqNet'[<<k, c>>] = Append(reqNet[<<k, c>>], r)
      BY <1>2, <2>2 DEF NetTypeOK
    <3>4. QED
      BY <3>2, <3>3
  <2>3. CASE <<k, c>> # p
    BY <1>2, <2>1, <2>3
  <2>4. QED
    BY <2>2, <2>3
<1>7. QED
  BY <1>3, <1>5, <1>6

(* An engine that has taken the head of a channel and left the taking      *)
(* states leaves well formed channels.                                     *)
LEMMA TailOK ==
  ASSUME NetTypeOK, SrcWF, NEW l \in LCE, NEW c \in CCE,
         reqNet[<<l, c>>] # <<>>,
         reqNet' = [reqNet EXCEPT ![<<l, c>>] = Tail(reqNet[<<l, c>>])]
  PROVE  SrcWF'
<1> SUFFICES ASSUME NEW k \in LCE, NEW d \in CCE
             PROVE  reqNet'[<<k, d>>] \in Seq(RequestsOf(k))
  BY DEF SrcWF
<1>1. /\ reqNet[<<k, d>>] \in Seq(RequestsOf(k))
      /\ reqNet[<<l, c>>] \in Seq(RequestsOf(l))
  BY DEF SrcWF
<1>2. Tail(reqNet[<<l, c>>]) \in Seq(RequestsOf(l))
  BY <1>1
<1>3. CASE <<k, d>> = <<l, c>>
  BY <1>2, <1>3
<1>4. CASE <<k, d>> # <<l, c>>
  BY <1>1
<1>5. QED
  BY <1>3, <1>4

(* Resolving a speculative read keeps the speculation bits typed.          *)
LEMMA ResolvedOK ==
  ASSUME NEW m, NEW bits \in SpecBits
  PROVE  Resolved(m, bits) \in SpecBits
BY DEF Resolved, SpecBits, CohState

(* A command with a block and a way names a frame.                         *)
LEMMA CmdFrameIn ==
  ASSUME NEW l \in LCE, lceCmd[l] \in Command,
         Holds(l, {"inv", "st_wb", "st_wakeup", "st_tr", "st_tr_wb", "data"})
  PROVE  CmdFrame(l) \in Frame
BY CommandFields, FrameIn DEF CmdFrame, Holds

(* A directory lookup gives a way or nothing.                              *)
LEMMA HitWayType ==
  ASSUME NEW d, NEW l, NEW b
  PROVE  HitWay(d, l, b) \in Way \cup {None}
BY DEF HitWay, HitWays

(* The owner of a block is a cache or nobody.                              *)
LEMMA OwnerType ==
  ASSUME NEW d, NEW b
  PROVE  Owner(d, b) \in LCE \cup {None}
BY DEF Owner, CachedIn

(* The MSHR e_ready loads from a request.                                  *)
LEMMA MshrOfOK ==
  ASSUME NEW r \in Request
  PROVE  /\ MshrOf(r) \in Mshr /\ MshrOf(r).lce = r.src
         /\ r.op \in CacheOp =>
              MshrOf(r).addr \in Block /\ MshrOf(r).lru \in Way
BY DEF MshrOf, NoMshr, Mshr, Request, CacheOp, UcOp, Addr, CohState

(* A way, or none found.                                                   *)
OptWay == Way \cup {None}

(* A cache, or none found.                                                 *)
OptLCE == LCE \cup {None}

(* What the directory lookup tells of the requester keeps the MSHR typed.  *)
LEMMA MshrWay ==
  ASSUME NEW m \in Mshr, NEW way \in OptWay, NEW blk \in Block,
         NEW rf \in BOOLEAN
  PROVE  [m EXCEPT !.way = way, !.lruBlk = blk, !.rf = rf] \in Mshr
BY DEF Mshr, OptWay

(* So does what it tells of the owner.                                     *)
LEMMA MshrOwner ==
  ASSUME NEW m \in Mshr, NEW o \in OptLCE, NEW ow \in OptWay,
         NEW st \in CohState
  PROVE  [m EXCEPT !.owner = o, !.ownerWay = ow, !.next = st] \in Mshr
BY DEF Mshr, OptWay, OptLCE

(* So do the flags derived from it.                                        *)
LEMMA MshrFlags ==
  ASSUME NEW m \in Mshr, NEW uf \in BOOLEAN, NEW csf \in BOOLEAN,
         NEW xf \in BOOLEAN
  PROVE  [m EXCEPT !.uf = uf, !.csf = csf, !.xf = xf] \in Mshr
BY DEF Mshr

(* The MSHR e_read_dir writes, named by what it takes from the directory.  *)
MshrRead(m, way, blk, rf, uf, csf, xf, o, ow, st) ==
  [m EXCEPT !.way = way, !.lruBlk = blk, !.rf = rf, !.uf = uf, !.csf = csf,
            !.xf = xf, !.owner = o, !.ownerWay = ow, !.next = st]

(* Clearing the replacement flag keeps the rest of the MSHR.               *)
LEMMA NotReplacing ==
  ASSUME NEW m \in Mshr
  PROVE  LET n == [m EXCEPT !.rf = FALSE] IN
           /\ n \in Mshr /\ n.lce = m.lce /\ n.addr = m.addr /\ n.lru = m.lru
           /\ n.way = m.way /\ n.lruBlk = m.lruBlk /\ n.owner = m.owner
           /\ n.ownerWay = m.ownerWay /\ n.uf = m.uf /\ n.xf = m.xf
<1>1. [m EXCEPT !.rf = FALSE] \in Mshr
  BY DEF Mshr
<1>2. LET n == [m EXCEPT !.rf = FALSE] IN
        /\ n.lce = m.lce /\ n.addr = m.addr /\ n.lru = m.lru
        /\ n.way = m.way /\ n.lruBlk = m.lruBlk /\ n.owner = m.owner
        /\ n.ownerWay = m.ownerWay /\ n.uf = m.uf /\ n.xf = m.xf
  OBVIOUS
<1>3. QED
  BY <1>1, <1>2, Zenon

(* The branch after the directory write or the replacement, to             *)
(* invalidation, upgrade, transfer or resolution, finds what it needs in   *)
(* the MSHR.                                                               *)
LEMMA StartInvOrFillOK ==
  ASSUME CceTypeOK, NEW c \in CCE, StartInvOrFill(c)
  PROVE  /\ cceState' \in [CCE -> CceStates]
         /\ cceState' = [cceState EXCEPT ![c] = cceState'[c]]
         /\ cceState'[c] \in {"inv_cmd", "upgrade_stw_cmd", "transfer",
                              "resolve_speculation"}
         /\ cceState'[c] = "upgrade_stw_cmd" => mshr[c].uf
         /\ cceState'[c] = "transfer" => mshr[c].xf
         /\ toInv' \in [CCE -> SUBSET LCE] /\ cnt' \in [CCE -> Int]
         /\ \A d \in CCE \ {c} : toInv'[d] = toInv[d]
         /\ cceState'[c] = "inv_cmd" =>
              \A l \in toInv'[c] : sharers[c][l] # None
<1>1. CASE Invalidate(mshr[c])
  <2>1. Invalidated(c) \subseteq {l \in LCE : sharers[c][l] # None}
    BY DEF Invalidated
  <2>2. /\ cceState' = [cceState EXCEPT ![c] = "inv_cmd"]
        /\ toInv' = [toInv EXCEPT ![c] = Invalidated(c)]
        /\ cnt' = [cnt EXCEPT ![c] = 0]
    BY <1>1 DEF StartInvOrFill, Goto
  <2>3. QED
    BY <2>1, <2>2 DEF CceTypeOK, CceStates
<1>2. CASE ~Invalidate(mshr[c])
  <2>1. /\ cceState' = [cceState EXCEPT ![c] = FillStep(mshr[c])]
        /\ UNCHANGED <<toInv, cnt>>
    BY <1>2 DEF StartInvOrFill, Goto
  <2>2. QED
    BY <2>1 DEF CceTypeOK, CceStates, FillStep
<1>3. QED
  BY <1>1, <1>2

(* A store writes one line and the value last stored.                      *)
LEMMA StoreOK ==
  ASSUME CacheTypeOK, LatestOK, NEW l \in LCE, NEW b, NEW w, NEW d \in Data,
         Store(l, b, w, d), UNCHANGED tag
  PROVE  CacheTypeOK' /\ LatestOK'
<1>1. line' \in [LCE -> [Frame -> Data]]
  BY DEF CacheTypeOK, Store
<1>2. dirty' \in [LCE -> [Frame -> BOOLEAN]]
  BY DEF CacheTypeOK, Store
<1>3. QED
  BY DEF CacheTypeOK, LatestOK, Store

(* Each part of the invariant depends on its own variables only.           *)
LEMMA Unchanged ==
  ASSUME IInv
  PROVE  /\ UNCHANGED cceVars => CceOK'
         /\ UNCHANGED dirVars => DirTypeOK'
         /\ UNCHANGED memVars => MemTypeOK'
         /\ UNCHANGED cacheVars => CacheTypeOK'
         /\ UNCHANGED lceVars => LceOK'
         /\ UNCHANGED coreVars => CoreOK'
         /\ UNCHANGED netVars => NetTypeOK'
         /\ UNCHANGED reqNet => SrcWF'
         /\ UNCHANGED <<cceState, mshr, reqNet>> => ReqWF'
         /\ UNCHANGED latest => LatestOK'
<1>1. UNCHANGED cceVars => CceOK'
  BY DEF IInv, cceVars, CceOK, CceTypeOK, MshrWF, InvWF
<1>2. UNCHANGED dirVars => DirTypeOK'
  BY DEF IInv, dirVars, DirTypeOK
<1>3. UNCHANGED memVars => MemTypeOK'
  BY DEF IInv, memVars, MemTypeOK
<1>4. UNCHANGED cacheVars => CacheTypeOK'
  BY DEF IInv, cacheVars, CacheTypeOK
<1>5. UNCHANGED lceVars => LceOK'
  BY DEF IInv, lceVars, LceOK, LceTypeOK, CmdWF, Holds
<1>6. UNCHANGED coreVars => CoreOK'
  BY DEF IInv, coreVars, CoreOK, CoreTypeOK, MissWF
<1>7. UNCHANGED netVars => NetTypeOK'
  BY DEF IInv, netVars, NetTypeOK
<1>8. UNCHANGED <<cceState, mshr, reqNet>> => ReqWF'
  BY DEF IInv, ReqWF
<1>9. UNCHANGED latest => LatestOK'
  BY DEF IInv, LatestOK
<1>10. UNCHANGED reqNet => SrcWF'
  BY DEF IInv, SrcWF
<1>11. QED
  BY <1>10, <1>1, <1>2, <1>3, <1>4, <1>5, <1>6, <1>7, <1>8, <1>9

(* CceReset keeps the invariant.                                           *)
LEMMA CceResetStep ==
  ASSUME IInv, NEW c \in CCE, CceReset(c)
  PROVE  IInv'
<1>1. /\ DirTypeOK' /\ MemTypeOK' /\ CacheTypeOK' /\ LceOK' /\ CoreOK'
      /\ NetTypeOK' /\ SrcWF' /\ LatestOK'
  BY Unchanged DEF CceReset, netVars
<1>2. CceOK'
  BY DEF CceReset, IInv, CceOK, CceTypeOK, MshrWF, InvWF, Cached, Decided,
    CceStates, Goto
<1>3. ReqWF'
  BY DEF CceReset, IInv, ReqWF, Taking, Goto, netVars
<1>4. QED
  BY <1>1, <1>2, <1>3 DEF IInv

(* CceClearDir keeps the invariant.                                        *)
LEMMA CceClearDirStep ==
  ASSUME IInv, NEW c \in CCE, CceClearDir(c)
  PROVE  IInv'
<1>1. /\ MemTypeOK' /\ CacheTypeOK' /\ LceOK' /\ CoreOK' /\ NetTypeOK'
      /\ SrcWF' /\ LatestOK'
  BY Unchanged DEF CceClearDir, netVars
<1>2. CceOK'
  BY DEF CceClearDir, IInv, CceOK, CceTypeOK, MshrWF, InvWF, Cached, Decided,
    CceStates, Goto
<1>3. DirTypeOK'
  BY DEF CceClearDir, IInv, DirTypeOK, Line, CohState
<1>4. ReqWF'
  BY DEF CceClearDir, IInv, ReqWF, Taking, Goto, netVars
<1>5. QED
  BY <1>1, <1>2, <1>3, <1>4 DEF IInv

(* ConfigNormal keeps the invariant.                                       *)
LEMMA ConfigNormalStep ==
  ASSUME IInv, NEW c \in CCE, ConfigNormal(c)
  PROVE  IInv'
<1>1. /\ DirTypeOK' /\ MemTypeOK' /\ CacheTypeOK' /\ LceOK' /\ CoreOK'
      /\ NetTypeOK' /\ SrcWF' /\ LatestOK'
  BY Unchanged DEF ConfigNormal, netVars
<1>2. CceOK'
  BY DEF ConfigNormal, IInv, CceOK, CceTypeOK, MshrWF, InvWF
<1>3. ReqWF'
  BY DEF ConfigNormal, IInv, ReqWF, netVars
<1>4. QED
  BY <1>1, <1>2, <1>3 DEF IInv

(* CceLeaveUncached keeps the invariant.                                   *)
LEMMA CceLeaveUncachedStep ==
  ASSUME IInv, NEW c \in CCE, CceLeaveUncached(c)
  PROVE  IInv'
<1>1. /\ DirTypeOK' /\ MemTypeOK' /\ CacheTypeOK' /\ LceOK' /\ CoreOK'
      /\ NetTypeOK' /\ SrcWF' /\ LatestOK'
  BY Unchanged DEF CceLeaveUncached, netVars
<1>2. CceOK'
  BY DEF CceLeaveUncached, IInv, CceOK, CceTypeOK, MshrWF, InvWF, Cached,
    Decided, CceStates, Goto
<1>3. ReqWF'
  BY DEF CceLeaveUncached, IInv, ReqWF, Taking, Goto, netVars
<1>4. QED
  BY <1>1, <1>2, <1>3 DEF IInv

(* CceSyncAck keeps the invariant.                                         *)
LEMMA CceSyncAckStep ==
  ASSUME IInv, NEW c \in CCE, CceSyncAck(c)
  PROVE  IInv'
<1>1. /\ DirTypeOK' /\ MemTypeOK' /\ CacheTypeOK' /\ LceOK' /\ CoreOK'
      /\ SrcWF' /\ LatestOK'
  BY Unchanged DEF CceSyncAck
<1>2. CceOK'
  BY DEF CceSyncAck, IInv, CceOK, CceTypeOK, MshrWF, InvWF, Cached, Decided,
    CceStates, Goto
<1>3. NetTypeOK'
  BY DEF CceSyncAck, IInv, NetTypeOK, TakeResp
<1>4. ReqWF'
  BY DEF CceSyncAck, IInv, ReqWF, Taking, Goto
<1>5. QED
  BY <1>1, <1>2, <1>3, <1>4 DEF IInv

(* CceUcReq keeps the invariant.                                           *)
LEMMA CceUcReqStep ==
  ASSUME IInv, NEW c \in CCE, CceUcReq(c)
  PROVE  IInv'
<1>1. DirTypeOK' /\ CacheTypeOK' /\ LceOK' /\ CoreOK' /\ LatestOK'
  BY Unchanged DEF CceUcReq
<1>2. CceOK'
  BY DEF CceUcReq, IInv, CceOK, CceTypeOK, MshrWF, InvWF, Cached, Decided,
    CceStates, Goto, NoMshr, Mshr, CohState
<1>3. MemTypeOK'
  BY ReqHead, UncachedOK DEF CceUcReq, IInv, ReqWF, MshrReq, Taking
<1>4. NetTypeOK'
  BY DEF CceUcReq, IInv, NetTypeOK, DequeueReq, ReqWF, Taking
<1>5. SrcWF'
  BY TailOK DEF CceUcReq, IInv, ReqWF, Taking, DequeueReq
<1>6. ReqWF'
  BY DEF CceUcReq, IInv, ReqWF, Taking, CceOK, CceTypeOK, Goto, DequeueReq
<1>7. QED
  BY <1>1, <1>2, <1>3, <1>4, <1>5, <1>6 DEF IInv

(* CceReadPending keeps the invariant.                                     *)
LEMMA CceReadPendingStep ==
  ASSUME IInv, NEW c \in CCE, CceReadPending(c)
  PROVE  IInv'
<1>1. /\ DirTypeOK' /\ MemTypeOK' /\ CacheTypeOK' /\ LceOK' /\ CoreOK'
      /\ NetTypeOK' /\ SrcWF' /\ LatestOK'
  BY Unchanged DEF CceReadPending, netVars
<1>2. CceOK'
  BY DEF CceReadPending, IInv, CceOK, CceTypeOK, MshrWF, InvWF, Cached,
    Decided, CceStates, Goto
<1>3. ReqWF'
  BY DEF CceReadPending, IInv, ReqWF, Taking, Goto, netVars
<1>4. QED
  BY <1>1, <1>2, <1>3 DEF IInv

(* CceDeqReq keeps the invariant.                                          *)
LEMMA CceDeqReqStep ==
  ASSUME IInv, NEW c \in CCE, CceDeqReq(c)
  PROVE  IInv'
<1>1. MemTypeOK' /\ CacheTypeOK' /\ LceOK' /\ CoreOK' /\ LatestOK'
  BY Unchanged DEF CceDeqReq
<1>2. CceOK'
  BY DEF CceDeqReq, IInv, CceOK, CceTypeOK, MshrWF, InvWF, Cached, Decided,
    CceStates, Goto
<1>3. DirTypeOK'
  BY PendingOK, ReqSetIn
  DEF CceDeqReq, IInv, DirTypeOK, CceOK, MshrWF, Cached
<1>4. NetTypeOK'
  BY DEF CceDeqReq, IInv, NetTypeOK, DequeueReq, ReqWF, Taking
<1>5. SrcWF'
  BY TailOK DEF CceDeqReq, IInv, ReqWF, Taking, DequeueReq
<1>6. ReqWF'
  BY DEF CceDeqReq, IInv, ReqWF, Taking, CceOK, CceTypeOK, Goto, DequeueReq
<1>7. QED
  BY <1>1, <1>2, <1>3, <1>4, <1>5, <1>6 DEF IInv

(* CceReadMemSpec keeps the invariant.                                     *)
LEMMA CceReadMemSpecStep ==
  ASSUME IInv, NEW c \in CCE, CceReadMemSpec(c)
  PROVE  IInv'
<1>1. CacheTypeOK' /\ LceOK' /\ CoreOK' /\ NetTypeOK' /\ SrcWF' /\ LatestOK'
  BY Unchanged DEF CceReadMemSpec, netVars
<1>2. CceOK'
  BY DEF CceReadMemSpec, IInv, CceOK, CceTypeOK, MshrWF, InvWF, Cached,
    Decided, CceStates, Goto
<1>3. DirTypeOK'
  BY PendingOK, ReqSetIn
  DEF CceReadMemSpec, IInv, DirTypeOK, NoSpec, SpecBits, CohState, CceOK,
    MshrWF, Cached
<1>4. MemTypeOK'
  BY MemResponseOf, MemCommandOK
  DEF CceReadMemSpec, IInv, MemTypeOK, CceOK, MshrWF, Cached, Addr
<1>5. ReqWF'
  BY DEF CceReadMemSpec, IInv, ReqWF, Taking, Goto, netVars
<1>6. QED
  BY <1>1, <1>2, <1>3, <1>4, <1>5 DEF IInv

(* CceReadDir keeps the invariant.                                         *)
LEMMA CceReadDirStep ==
  ASSUME IInv, NEW c \in CCE, CceReadDir(c)
  PROVE  IInv'
<1>1. /\ DirTypeOK' /\ MemTypeOK' /\ CacheTypeOK' /\ LceOK' /\ CoreOK'
      /\ NetTypeOK' /\ SrcWF' /\ LatestOK'
  BY Unchanged DEF CceReadDir, netVars
<1>2. CceOK'
  <2> DEFINE m == mshr[c]  l == m.lce  b == m.addr  o == Owner(dir, b)
             ow == IF o = None THEN None ELSE HitWay(dir, o, b)
             n == MshrRead(m, HitWay(dir, l, b), dir[l][FrameOf(b, m.lru)].blk,
                           Replace(dir, l, b, m.write, m.lru),
                           Upgrade(dir, l, b, m.write),
                           CachedShared(dir, l, b), CachedOwned(dir, l, b),
                           o, ow, NextState(dir, l, b, m.write, m.nonExcl))
  <2>1. m \in Mshr /\ l \in LCE /\ b \in Block /\ m.lru \in Way
    BY DEF CceReadDir, IInv, CceOK, CceTypeOK, MshrWF, Cached
  <2>2. HitWay(dir, l, b) \in OptWay /\ o \in OptLCE /\ ow \in OptWay
    BY HitWayType, OwnerType DEF OptWay, OptLCE
  <2>3. dir[l][FrameOf(b, m.lru)].blk \in Block
    BY <2>1, FrameIn DEF IInv, DirTypeOK, Line
  <2>4. /\ Replace(dir, l, b, m.write, m.lru) \in BOOLEAN
        /\ Upgrade(dir, l, b, m.write) \in BOOLEAN
        /\ CachedShared(dir, l, b) \in BOOLEAN
        /\ CachedOwned(dir, l, b) \in BOOLEAN
        /\ NextState(dir, l, b, m.write, m.nonExcl) \in CohState
    BY DEF Replace, Upgrade, CachedShared, CachedOwned, NextState, CohState
  <2>5. /\ n \in Mshr /\ n.lce = l /\ n.addr = b /\ n.lru = m.lru
        /\ n.way = HitWay(dir, l, b)
        /\ n.lruBlk = dir[l][FrameOf(b, m.lru)].blk
        /\ n.owner = o /\ n.ownerWay = ow
        /\ n.uf = Upgrade(dir, l, b, m.write) /\ n.xf = CachedOwned(dir, l, b)
    <3>1. PICK rf \in BOOLEAN, uf \in BOOLEAN, csf \in BOOLEAN, xf \in BOOLEAN,
               st \in CohState :
            /\ rf = Replace(dir, l, b, m.write, m.lru)
            /\ uf = Upgrade(dir, l, b, m.write)
            /\ csf = CachedShared(dir, l, b) /\ xf = CachedOwned(dir, l, b)
            /\ st = NextState(dir, l, b, m.write, m.nonExcl)
      BY <2>4
    <3>2. PICK way \in OptWay, blk \in Block :
            way = HitWay(dir, l, b) /\ blk = dir[l][FrameOf(b, m.lru)].blk
      BY <2>2, <2>3
    <3>3. n = MshrRead(m, way, blk, rf, uf, csf, xf, o, ow, st)
      BY <3>1, <3>2
    <3>4. l = m.lce /\ b = m.addr
      OBVIOUS
    <3>5. m \in Mshr /\ o \in OptLCE /\ ow \in OptWay
      BY <2>1, <2>2
    <3> HIDE DEF m, l, b, o, ow, n
    <3>6. /\ n \in Mshr
          /\ n.lce = m.lce /\ n.addr = m.addr /\ n.lru = m.lru
          /\ n.way = way /\ n.lruBlk = blk /\ n.owner = o /\ n.ownerWay = ow
          /\ n.uf = uf /\ n.xf = xf
      <4>1. [m EXCEPT !.way = way, !.lruBlk = blk, !.rf = rf] \in Mshr
        BY <3>5, MshrWay
      <4>2. \A a \in Mshr :
              [a EXCEPT !.uf = uf, !.csf = csf, !.xf = xf] \in Mshr
        BY MshrFlags
      <4>3. \A a \in Mshr :
              [a EXCEPT !.owner = o, !.ownerWay = ow, !.next = st] \in Mshr
        BY <3>5, MshrOwner
      <4>4. n \in Mshr
        BY <3>3, <4>1, <4>2, <4>3, Zenon DEF MshrRead
      <4>5. /\ n.lce = m.lce /\ n.addr = m.addr /\ n.lru = m.lru
            /\ n.way = way /\ n.lruBlk = blk /\ n.owner = o /\ n.ownerWay = ow
            /\ n.uf = uf /\ n.xf = xf
        BY <3>3 DEF MshrRead
      <4>6. QED
        BY <4>4, <4>5
    <3>7. QED
      BY <3>1, <3>2, <3>4, <3>6
  <2>6. n.uf => n.way \in Way
    <3>1. Upgrade(dir, l, b, m.write) => StateIn(dir, l, b) # "I"
      BY DEF Upgrade
    <3> HIDE DEF m, l, b, o, ow, n
    <3>2. QED
      BY <2>5, <3>1, HitWayIn
  <2>7. n.xf => n.owner \in LCE /\ n.ownerWay \in Way
    <3>1. LCE # {} /\ None \notin LCE
      BY ConstantsAssumption, FiniteAssumption
    <3>2. o # None => ow = HitWay(dir, o, b)
      OBVIOUS
    <3>3. CachedOwned(dir, l, b) => o \in LCE /\ HitWay(dir, o, b) \in Way
      BY OwnerIn
    <3> HIDE DEF m, l, b, o, ow, n
    <3>4. QED
      BY <2>5, <3>1, <3>2, <3>3
  <2>8. /\ mshr' = [mshr EXCEPT ![c] = n]
        /\ sharers' = [sharers EXCEPT ![c] = [k \in LCE |-> HitWay(dir, k, b)]]
        /\ cceState[c] = "read_dir"
        /\ cceState' = [cceState EXCEPT ![c] = "write_next_state"]
        /\ UNCHANGED <<cceNormal, toInv, cnt, synced>>
    BY Zenon DEF CceReadDir, Goto, MshrRead
  <2> HIDE DEF n
  <2>9. CceTypeOK'
    BY <2>5, <2>8, HitWayType DEF IInv, CceOK, CceTypeOK, CceStates
  <2>10. MshrWF'
    BY <2>1, <2>3, <2>5, <2>6, <2>7, <2>8 DEF IInv, CceOK, CceTypeOK, MshrWF
  <2>11. InvWF'
    BY <2>8 DEF IInv, CceOK, InvWF
  <2>12. QED
    BY <2>9, <2>10, <2>11 DEF CceOK
<1>3. ReqWF'
  BY DEF CceReadDir, IInv, ReqWF, Taking, Goto, netVars
<1>4. QED
  BY <1>1, <1>2, <1>3 DEF IInv

(* CceWriteNextState keeps the invariant.                                  *)
LEMMA CceWriteNextStateStep ==
  ASSUME IInv, NEW c \in CCE, CceWriteNextState(c)
  PROVE  IInv'
<1>1. /\ MemTypeOK' /\ CacheTypeOK' /\ LceOK' /\ CoreOK' /\ NetTypeOK'
      /\ SrcWF' /\ LatestOK'
  BY Unchanged DEF CceWriteNextState, netVars
<1>2. CceOK'
  <2>1. CASE mshr[c].rf
    BY <2>1
    DEF CceWriteNextState, IInv, CceOK, CceTypeOK, MshrWF, InvWF, Cached,
      Decided, CceStates, Goto
  <2>2. CASE ~mshr[c].rf
    <3>1. StartInvOrFill(c)
      BY <2>2 DEF CceWriteNextState
    <3>2. CceTypeOK'
      BY <3>1, StartInvOrFillOK
      DEF CceWriteNextState, IInv, CceOK, CceTypeOK
    <3>3. MshrWF'
      BY <3>1, StartInvOrFillOK
      DEF CceWriteNextState, IInv, CceOK, MshrWF, Cached, Decided
    <3>4. InvWF'
      BY <3>1, <3>2, StartInvOrFillOK
      DEF CceWriteNextState, IInv, CceOK, CceTypeOK, InvWF
    <3>5. QED
      BY <3>2, <3>3, <3>4 DEF CceOK
  <2>3. QED
    BY <2>1, <2>2
<1>3. DirTypeOK'
  BY WritesOK
  DEF CceWriteNextState, IInv, DirTypeOK, CceOK, MshrWF, Cached, Decided,
    CceTypeOK, Mshr
<1>4. ReqWF'
  BY DEF CceWriteNextState, IInv, ReqWF, Taking, CceOK, CceTypeOK, Goto,
    StartInvOrFill, FillStep, netVars
<1>5. QED
  BY <1>1, <1>2, <1>3, <1>4 DEF IInv

(* CceReplacement keeps the invariant.                                     *)
LEMMA CceReplacementStep ==
  ASSUME IInv, NEW c \in CCE, CceReplacement(c)
  PROVE  IInv'
<1>1. /\ DirTypeOK' /\ MemTypeOK' /\ CacheTypeOK' /\ LceOK' /\ CoreOK'
      /\ SrcWF' /\ LatestOK'
  BY Unchanged DEF CceReplacement
<1>2. CceOK'
  BY DEF CceReplacement, IInv, CceOK, CceTypeOK, MshrWF, InvWF, Cached,
    Decided, CceStates, Goto
<1>3. NetTypeOK'
  <2>1. [type |-> "st_wb", src |-> c, dst |-> mshr[c].lce,
        addr |-> mshr[c].lruBlk, way |-> mshr[c].lru, st |-> "I"] \in Command
    BY DEF CceReplacement, IInv, Command, CceOK, MshrWF, Cached, Decided,
      CohState
  <2>2. QED
    BY <2>1 DEF CceReplacement, IInv, NetTypeOK, SendCmd
<1>4. ReqWF'
  BY DEF CceReplacement, IInv, ReqWF, Taking, Goto
<1>5. QED
  BY <1>1, <1>2, <1>3, <1>4 DEF IInv

(* CceReplacementWbResp keeps the invariant.                               *)
LEMMA CceReplacementWbRespStep ==
  ASSUME IInv, NEW c \in CCE, CceReplacementWbResp(c)
  PROVE  IInv'
<1>1. CacheTypeOK' /\ LceOK' /\ CoreOK' /\ SrcWF' /\ LatestOK'
  BY Unchanged DEF CceReplacementWbResp
<1>2. CceOK'
  <2>1. StartInvOrFill(c)
    BY DEF CceReplacementWbResp
  <2>2. PICK n \in Mshr :
          /\ mshr' = [mshr EXCEPT ![c] = n]
          /\ n.lce = mshr[c].lce /\ n.addr = mshr[c].addr
          /\ n.lru = mshr[c].lru /\ n.way = mshr[c].way
          /\ n.lruBlk = mshr[c].lruBlk /\ n.owner = mshr[c].owner
          /\ n.ownerWay = mshr[c].ownerWay
          /\ n.uf = mshr[c].uf /\ n.xf = mshr[c].xf
    BY NotReplacing DEF CceReplacementWbResp, IInv, CceOK, CceTypeOK
  <2>3. CceTypeOK'
    <3>1. mshr' \in [CCE -> Mshr]
      BY <2>2 DEF IInv, CceOK, CceTypeOK
    <3>2. UNCHANGED <<cceNormal, sharers, synced>>
      BY DEF CceReplacementWbResp
    <3>3. QED
      BY <2>1, <3>1, <3>2, StartInvOrFillOK DEF IInv, CceOK, CceTypeOK
  <2>4. MshrWF'
    BY StartInvOrFillOK
    DEF CceReplacementWbResp, IInv, CceOK, MshrWF, Cached, Decided
  <2>5. InvWF'
    <3>1. UNCHANGED sharers
      BY DEF CceReplacementWbResp
    <3>2. QED
      BY <2>1, <3>1, StartInvOrFillOK DEF IInv, CceOK, CceTypeOK, InvWF
  <2>6. QED
    BY <2>3, <2>4, <2>5 DEF CceOK
<1>3. DirTypeOK'
  BY ResponseFields, PendingOK, ConstantsAssumption
  DEF CceReplacementWbResp, IInv, DirTypeOK, WritebackResp, NetTypeOK
<1>4. MemTypeOK'
  BY ResponseFields, MemCommandOK, MemResponseOf
  DEF CceReplacementWbResp, IInv, MemTypeOK, WritebackResp, NetTypeOK, memVars
<1>5. NetTypeOK'
  BY DEF CceReplacementWbResp, IInv, NetTypeOK, WritebackResp, TakeResp
<1>6. ReqWF'
  BY DEF CceReplacementWbResp, IInv, ReqWF, Taking, CceOK, CceTypeOK, Goto,
    StartInvOrFill, FillStep
<1>7. QED
  BY <1>1, <1>2, <1>3, <1>4, <1>5, <1>6 DEF IInv

(* CceInvCmd keeps the invariant.                                          *)
LEMMA CceInvCmdStep ==
  ASSUME IInv, NEW c \in CCE, CceInvCmd(c)
  PROVE  IInv'
<1>1. MemTypeOK' /\ CacheTypeOK' /\ LceOK' /\ CoreOK' /\ SrcWF' /\ LatestOK'
  BY Unchanged DEF CceInvCmd
<1>2. CceOK'
  BY DEF CceInvCmd, IInv, CceOK, CceTypeOK, MshrWF, InvWF, Cached, Decided,
    CceStates, Goto
<1>3. DirTypeOK'
  <2>1. \A l \in toInv[c] :
          WriteState(dir, l, mshr[c].addr, sharers[c][l], "I")
            \in [LCE -> [Frame -> Line]]
    BY WritesOK
    DEF InvWF, CceInvCmd, IInv, CceOK, CceTypeOK, MshrWF, Cached, CohState
  <2>2. QED
    BY <2>1 DEF CceInvCmd, IInv, DirTypeOK
<1>4. NetTypeOK'
  <2>1. \A l \in toInv[c] :
          [type |-> "inv", src |-> c, dst |-> l, addr |-> mshr[c].addr,
           way |-> sharers[c][l]] \in Command
    BY DEF InvWF, CceInvCmd, IInv, Command, CceOK, CceTypeOK, MshrWF, Cached
  <2>2. QED
    BY <2>1 DEF CceInvCmd, IInv, NetTypeOK, SendCmd
<1>5. ReqWF'
  BY DEF CceInvCmd, IInv, ReqWF, Taking, Goto
<1>6. QED
  BY <1>1, <1>2, <1>3, <1>4, <1>5 DEF IInv

(* CceInvAck keeps the invariant.                                          *)
LEMMA CceInvAckStep ==
  ASSUME IInv, NEW c \in CCE, CceInvAck(c)
  PROVE  IInv'
<1>1. /\ DirTypeOK' /\ MemTypeOK' /\ CacheTypeOK' /\ LceOK' /\ CoreOK'
      /\ SrcWF' /\ LatestOK'
  BY Unchanged DEF CceInvAck
<1>2. CceOK'
  BY DEF CceInvAck, IInv, CceOK, CceTypeOK, MshrWF, InvWF, Cached, Decided,
    CceStates, Goto, AfterInvAck, FillStep
<1>3. NetTypeOK'
  BY DEF CceInvAck, IInv, NetTypeOK, TakeResp
<1>4. ReqWF'
  BY DEF CceInvAck, IInv, ReqWF, Taking, Goto, AfterInvAck, FillStep
<1>5. QED
  BY <1>1, <1>2, <1>3, <1>4 DEF IInv

(* CceUpgrade keeps the invariant.                                         *)
LEMMA CceUpgradeStep ==
  ASSUME IInv, NEW c \in CCE, CceUpgrade(c)
  PROVE  IInv'
<1>1. /\ DirTypeOK' /\ MemTypeOK' /\ CacheTypeOK' /\ LceOK' /\ CoreOK'
      /\ SrcWF' /\ LatestOK'
  BY Unchanged DEF CceUpgrade
<1>2. CceOK'
  BY DEF CceUpgrade, IInv, CceOK, CceTypeOK, MshrWF, InvWF, Cached, Decided,
    CceStates, Goto
<1>3. NetTypeOK'
  <2>1. [type |-> "st_wakeup", src |-> c, dst |-> mshr[c].lce,
        addr |-> mshr[c].addr, way |-> mshr[c].way, st |-> mshr[c].next]
         \in Command
    BY DEF CceUpgrade, IInv, Command, CceOK, CceTypeOK, MshrWF, Cached,
      Decided, Mshr
  <2>2. QED
    BY <2>1 DEF CceUpgrade, IInv, NetTypeOK, SendCmd
<1>4. ReqWF'
  BY DEF CceUpgrade, IInv, ReqWF, Taking, Goto
<1>5. QED
  BY <1>1, <1>2, <1>3, <1>4 DEF IInv

(* CceTransfer keeps the invariant.                                        *)
LEMMA CceTransferStep ==
  ASSUME IInv, NEW c \in CCE, CceTransfer(c)
  PROVE  IInv'
<1>1. MemTypeOK' /\ CacheTypeOK' /\ LceOK' /\ CoreOK' /\ SrcWF' /\ LatestOK'
  BY Unchanged DEF CceTransfer
<1>2. CceOK'
  BY DEF CceTransfer, IInv, CceOK, CceTypeOK, MshrWF, InvWF, Cached, Decided,
    CceStates, Goto
<1>3. DirTypeOK'
  BY WritesOK
  DEF CceTransfer, IInv, DirTypeOK, CceOK, MshrWF, Cached, Decided, CohState
<1>4. NetTypeOK'
  <2>1. \A t \in {"st_tr", "st_tr_wb"}, st \in CohState :
          [type |-> t, src |-> c, dst |-> mshr[c].owner, addr |-> mshr[c].addr,
           way |-> mshr[c].ownerWay, st |-> st, target |-> mshr[c].lce,
           targetWay |-> mshr[c].lru, targetSt |-> mshr[c].next] \in Command
    BY DEF CceTransfer, IInv, Command, CceOK, CceTypeOK, MshrWF, Cached,
      Decided, Mshr
  <2>2. QED
    BY <2>1 DEF CceTransfer, IInv, NetTypeOK, SendCmd, CohState
<1>5. ReqWF'
  BY DEF CceTransfer, IInv, ReqWF, Taking, Goto
<1>6. QED
  BY <1>1, <1>2, <1>3, <1>4, <1>5 DEF IInv

(* CceTransferWbResp keeps the invariant.                                  *)
LEMMA CceTransferWbRespStep ==
  ASSUME IInv, NEW c \in CCE, CceTransferWbResp(c)
  PROVE  IInv'
<1>1. CacheTypeOK' /\ LceOK' /\ CoreOK' /\ SrcWF' /\ LatestOK'
  BY Unchanged DEF CceTransferWbResp
<1>2. CceOK'
  BY DEF CceTransferWbResp, IInv, CceOK, CceTypeOK, MshrWF, InvWF, Cached,
    Decided, CceStates, Goto
<1>3. DirTypeOK'
  BY ResponseFields, PendingOK, ConstantsAssumption
  DEF CceTransferWbResp, IInv, DirTypeOK, WritebackResp, NetTypeOK
<1>4. MemTypeOK'
  BY ResponseFields, MemCommandOK, MemResponseOf
  DEF CceTransferWbResp, IInv, MemTypeOK, WritebackResp, NetTypeOK, memVars
<1>5. NetTypeOK'
  BY DEF CceTransferWbResp, IInv, NetTypeOK, WritebackResp, TakeResp
<1>6. ReqWF'
  BY DEF CceTransferWbResp, IInv, ReqWF, Taking, Goto
<1>7. QED
  BY <1>1, <1>2, <1>3, <1>4, <1>5, <1>6 DEF IInv

(* CceResolve keeps the invariant.                                         *)
LEMMA CceResolveStep ==
  ASSUME IInv, NEW c \in CCE, CceResolve(c)
  PROVE  IInv'
<1>1. /\ MemTypeOK' /\ CacheTypeOK' /\ LceOK' /\ CoreOK' /\ NetTypeOK'
      /\ SrcWF' /\ LatestOK'
  BY Unchanged DEF CceResolve, netVars
<1>2. CceOK'
  BY DEF CceResolve, IInv, CceOK, CceTypeOK, MshrWF, InvWF, Cached, Decided,
    CceStates, Goto, NoMshr, Mshr, CohState
<1>3. DirTypeOK'
  BY ResolvedOK DEF CceResolve, IInv, DirTypeOK
<1>4. ReqWF'
  BY DEF CceResolve, IInv, ReqWF, Taking, Goto, netVars
<1>5. QED
  BY <1>1, <1>2, <1>3, <1>4 DEF IInv

(* MemRespSquash keeps the invariant.                                      *)
LEMMA MemRespSquashStep ==
  ASSUME IInv, NEW c \in CCE, MemRespSquash(c)
  PROVE  IInv'
<1>1. /\ CceOK' /\ CacheTypeOK' /\ LceOK' /\ CoreOK' /\ NetTypeOK' /\ SrcWF'
      /\ ReqWF' /\ LatestOK'
  BY Unchanged DEF MemRespSquash, cceVars, netVars
<1>2. DirTypeOK'
  BY RespHeadOK, RespHeadAddr, PendingOK DEF MemRespSquash, IInv, DirTypeOK
<1>3. MemTypeOK'
  BY MemDequeueOK DEF MemRespSquash, IInv
<1>4. QED
  BY <1>1, <1>2, <1>3 DEF IInv

(* MemRespFill keeps the invariant.                                        *)
LEMMA MemRespFillStep ==
  ASSUME IInv, NEW c \in CCE, MemRespFill(c)
  PROVE  IInv'
<1>1. /\ CceOK' /\ CacheTypeOK' /\ LceOK' /\ CoreOK' /\ SrcWF' /\ ReqWF'
      /\ LatestOK'
  BY Unchanged DEF MemRespFill, cceVars
<1>2. DirTypeOK'
  BY RespHeadOK, RespHeadAddr, PendingOK DEF MemRespFill, IInv, DirTypeOK
<1>3. MemTypeOK'
  BY MemDequeueOK DEF MemRespFill, IInv
<1>4. NetTypeOK'
  <2>1. FillCmd(c, RespHead(c),
          IF specBits[SetOf[RespHead(c).addr]].fwdMod
          THEN specBits[SetOf[RespHead(c).addr]].st ELSE "E") \in Command
    BY RespHeadOK, RespHeadAddr, MemResponseFields
    DEF MemRespFill, FillCmd, IsSpeculative, IInv, Command, DirTypeOK,
      SpecBits, CohState
  <2>2. QED
    BY <2>1, SMTT(40) DEF MemRespFill, IInv, NetTypeOK, SendCmd
<1>5. QED
  BY <1>1, <1>2, <1>3, <1>4 DEF IInv

(* MemRespWriteback keeps the invariant.                                   *)
LEMMA MemRespWritebackStep ==
  ASSUME IInv, NEW c \in CCE, MemRespWriteback(c)
  PROVE  IInv'
<1>1. /\ CceOK' /\ CacheTypeOK' /\ LceOK' /\ CoreOK' /\ NetTypeOK' /\ SrcWF'
      /\ ReqWF' /\ LatestOK'
  BY Unchanged DEF MemRespWriteback, cceVars, netVars
<1>2. DirTypeOK'
  BY RespHeadOK, RespHeadAddr, PendingOK
  DEF MemRespWriteback, IInv, DirTypeOK
<1>3. MemTypeOK'
  BY MemDequeueOK DEF MemRespWriteback, IInv
<1>4. QED
  BY <1>1, <1>2, <1>3 DEF IInv

(* MemRespUncached keeps the invariant.                                    *)
LEMMA MemRespUncachedStep ==
  ASSUME IInv, NEW c \in CCE, MemRespUncached(c)
  PROVE  IInv'
<1>1. /\ CceOK' /\ DirTypeOK' /\ CacheTypeOK' /\ LceOK' /\ CoreOK' /\ SrcWF'
      /\ ReqWF' /\ LatestOK'
  BY Unchanged DEF MemRespUncached, cceVars
<1>2. MemTypeOK'
  BY MemDequeueOK DEF MemRespUncached, IInv
<1>3. NetTypeOK'
  <2> DEFINE r == RespHead(c)
  <2>1. r \in MemResponse /\ r.type \in UcOp
    BY RespHeadOK DEF MemRespUncached, IInv
  <2>2. CASE r.type = "uc_rd"
    <3>1. [type |-> "uc_data", src |-> c, dst |-> r.lce, addr |-> r.addr,
           data |-> r.data] \in Command
      BY <2>1, <2>2, MemResponseFields DEF Command
    <3>2. QED
      BY <2>2, <3>1 DEF MemRespUncached, IInv, NetTypeOK, SendCmd
  <2>3. CASE r.type = "uc_wr"
    <3>1. [type |-> "uc_st_done", src |-> c, dst |-> r.lce, addr |-> r.addr]
            \in Command
      BY <2>1, <2>3, MemResponseFields DEF Command
    <3>2. QED
      BY <2>3, <3>1 DEF MemRespUncached, IInv, NetTypeOK, SendCmd
  <2>4. QED
    BY <2>1, <2>2, <2>3 DEF UcOp
<1>4. QED
  BY <1>1, <1>2, <1>3 DEF IInv

(* CohAck keeps the invariant.                                             *)
LEMMA CohAckStep ==
  ASSUME IInv, NEW c \in CCE, CohAck(c)
  PROVE  IInv'
<1>1. /\ CceOK' /\ MemTypeOK' /\ CacheTypeOK' /\ LceOK' /\ CoreOK' /\ SrcWF'
      /\ ReqWF' /\ LatestOK'
  BY Unchanged DEF CohAck, cceVars
<1>2. DirTypeOK'
  BY ResponseFields, PendingOK, ConstantsAssumption
  DEF CohAck, IInv, DirTypeOK, NetTypeOK
<1>3. NetTypeOK'
  BY DEF CohAck, IInv, NetTypeOK, TakeResp
<1>4. QED
  BY <1>1, <1>2, <1>3 DEF IInv

(* CceReady keeps the invariant.                                           *)
LEMMA CceReadyStep ==
  ASSUME IInv, NEW c \in CCE, NEW l \in LCE, CceReady(c, l)
  PROVE  IInv'
<1>1. /\ DirTypeOK' /\ MemTypeOK' /\ CacheTypeOK' /\ LceOK' /\ CoreOK'
      /\ NetTypeOK' /\ SrcWF' /\ LatestOK'
  BY Unchanged DEF CceReady, netVars
<1>2. CceOK'
  <2> DEFINE r == Head(reqNet[<<l, c>>])
             st == IF r.op \in CacheOp THEN "read_pending" ELSE "uc_req"
  <2>1. r \in Request
    BY ReqHead DEF CceReady, IInv
  <2>2. /\ mshr' = [mshr EXCEPT ![c] = MshrOf(r)]
        /\ cceState' = [cceState EXCEPT ![c] = st]
    BY DEF CceReady, Goto
  <2>3. /\ MshrOf(r) \in Mshr /\ MshrOf(r).lce \in LCE
        /\ st = "read_pending" =>
             MshrOf(r).addr \in Block /\ MshrOf(r).lru \in Way
    BY <2>1, MshrOfOK, RequestFields
  <2>4. st \in {"read_pending", "uc_req"}
    OBVIOUS
  <2> HIDE DEF r, st
  <2>5. CceTypeOK'
    BY <2>2, <2>3, <2>4 DEF CceReady, IInv, CceOK, CceTypeOK, CceStates
  <2>6. MshrWF'
    BY <2>2, <2>3, <2>4 DEF IInv, CceOK, CceTypeOK, MshrWF, Cached, Decided
  <2>7. InvWF'
    BY <2>2, <2>4 DEF CceReady, IInv, CceOK, InvWF
  <2>8. QED
    BY <2>5, <2>6, <2>7 DEF CceOK
<1>3. ReqWF'
  <2> DEFINE r == Head(reqNet[<<l, c>>])
  <2>1. r \in Request /\ reqNet[<<l, c>>] # <<>> /\ r.src = l
    BY ReqHead, ReqHeadSrc DEF CceReady, IInv
  <2>2. mshr' = [mshr EXCEPT ![c] = MshrOf(r)] /\ MshrOf(r).lce = r.src
    BY <2>1, MshrOfOK DEF CceReady
  <2>3. r.op \notin CacheOp => r.op \in UcOp
    BY <2>1, RequestFields
  <2>4. QED
    BY <2>1, <2>2, <2>3
    DEF CceReady, Goto, IInv, CceOK, CceTypeOK, ReqWF, netVars
<1>4. QED
  BY <1>1, <1>2, <1>3 DEF IInv

(* CceUncachedOnly keeps the invariant.                                    *)
LEMMA CceUncachedOnlyStep ==
  ASSUME IInv, NEW c \in CCE, NEW l \in LCE, CceUncachedOnly(c, l)
  PROVE  IInv'
<1>1. CceOK' /\ DirTypeOK' /\ CacheTypeOK' /\ LceOK' /\ CoreOK' /\ LatestOK'
  BY Unchanged DEF CceUncachedOnly
<1>2. MemTypeOK'
  BY ReqHead, UncachedOK DEF CceUncachedOnly, IInv
<1>3. NetTypeOK'
  BY DEF CceUncachedOnly, IInv, NetTypeOK
<1>4. SrcWF'
  BY TailOK DEF CceUncachedOnly, IInv
<1>5. ReqWF'
  BY DEF CceUncachedOnly, IInv, ReqWF, Taking, cceVars
<1>6. QED
  BY <1>1, <1>2, <1>3, <1>4, <1>5 DEF IInv

(* CceSendSync keeps the invariant.                                        *)
LEMMA CceSendSyncStep ==
  ASSUME IInv, NEW c \in CCE, NEW l \in LCE, CceSendSync(c, l)
  PROVE  IInv'
<1>1. /\ DirTypeOK' /\ MemTypeOK' /\ CacheTypeOK' /\ LceOK' /\ CoreOK'
      /\ SrcWF' /\ LatestOK'
  BY Unchanged DEF CceSendSync
<1>2. CceOK'
  BY DEF CceSendSync, IInv, CceOK, CceTypeOK, MshrWF, InvWF, Cached, Decided,
    CceStates, Goto
<1>3. NetTypeOK'
  <2>1. [type |-> "sync", src |-> c, dst |-> l] \in Command
    BY DEF Command
  <2>2. QED
    BY <2>1 DEF CceSendSync, IInv, NetTypeOK, SendCmd
<1>4. ReqWF'
  BY DEF CceSendSync, IInv, ReqWF, Taking, Goto
<1>5. QED
  BY <1>1, <1>2, <1>3, <1>4 DEF IInv

(* LceReset keeps the invariant.                                           *)
LEMMA LceResetStep ==
  ASSUME IInv, NEW l \in LCE, LceReset(l)
  PROVE  IInv'
<1>1. /\ CceOK' /\ DirTypeOK' /\ MemTypeOK' /\ CacheTypeOK' /\ CoreOK'
      /\ NetTypeOK' /\ SrcWF' /\ ReqWF' /\ LatestOK'
  BY Unchanged DEF LceReset, cceVars, netVars
<1>2. LceOK'
  BY DEF LceReset, IInv, LceOK, LceTypeOK, CmdWF, LceCmdStates, Holds, LceGoto
<1>3. QED
  BY <1>1, <1>2 DEF IInv

(* LceClear keeps the invariant.                                           *)
LEMMA LceClearStep ==
  ASSUME IInv, NEW l \in LCE, LceClear(l)
  PROVE  IInv'
<1>1. /\ CceOK' /\ DirTypeOK' /\ MemTypeOK' /\ CoreOK' /\ NetTypeOK' /\ SrcWF'
      /\ ReqWF' /\ LatestOK'
  BY Unchanged DEF LceClear, cceVars, netVars
<1>2. LceOK'
  BY DEF LceClear, IInv, LceOK, LceTypeOK, CmdWF, LceCmdStates, Holds, LceGoto
<1>3. CacheTypeOK'
  BY DEF LceClear, IInv, CacheTypeOK, Line, CohState
<1>4. QED
  BY <1>1, <1>2, <1>3 DEF IInv

(* LceHead keeps the invariant.                                            *)
LEMMA LceHeadStep ==
  ASSUME IInv, NEW l \in LCE, LceHead(l)
  PROVE  IInv'
<1>1. /\ CceOK' /\ DirTypeOK' /\ MemTypeOK' /\ CacheTypeOK' /\ CoreOK'
      /\ SrcWF' /\ ReqWF' /\ LatestOK'
  BY Unchanged DEF LceHead, cceVars
<1>2. LceOK'
  <2>1. PICK m \in cmdNet : lceCmd' = [lceCmd EXCEPT ![l] = m]
    BY DEF LceHead
  <2>2. m \in Command
    BY DEF IInv, NetTypeOK
  <2>3. LceTypeOK'
    BY <2>1, <2>2 DEF LceHead, IInv, LceOK, LceTypeOK
  <2>4. CmdWF'
    BY DEF LceHead, IInv, LceOK, CmdWF, Holds
  <2>5. QED
    BY <2>3, <2>4 DEF LceOK
<1>3. NetTypeOK'
  BY DEF LceHead, IInv, NetTypeOK
<1>4. QED
  BY <1>1, <1>2, <1>3 DEF IInv

(* LceSync keeps the invariant.                                            *)
LEMMA LceSyncStep ==
  ASSUME IInv, NEW l \in LCE, LceSync(l)
  PROVE  IInv'
<1>1. /\ CceOK' /\ DirTypeOK' /\ MemTypeOK' /\ CacheTypeOK' /\ CoreOK'
      /\ SrcWF' /\ ReqWF' /\ LatestOK'
  BY Unchanged DEF LceSync, cceVars
<1>2. LceOK'
  BY DEF LceSync, IInv, LceOK, LceTypeOK, CmdWF, Holds, Dequeue
<1>3. NetTypeOK'
  BY CommandFields
  DEF LceSync, IInv, NetTypeOK, Respond, Response, LceOK, LceTypeOK, Holds
<1>4. QED
  BY <1>1, <1>2, <1>3 DEF IInv

(* LceInv keeps the invariant.                                             *)
LEMMA LceInvStep ==
  ASSUME IInv, NEW l \in LCE, LceInv(l)
  PROVE  IInv'
<1>1. /\ CceOK' /\ DirTypeOK' /\ MemTypeOK' /\ CoreOK' /\ SrcWF' /\ ReqWF'
      /\ LatestOK'
  BY Unchanged DEF LceInv, cceVars
<1>2. CacheTypeOK'
  <2>1. lceCmd[l] \in Command /\ CmdFrame(l) \in Frame
    BY CmdFrameIn DEF LceInv, IInv, LceOK, LceTypeOK, Executes, Holds
  <2>2. tag' \in [LCE -> [Frame -> Line]]
    BY <2>1, SetStateOK DEF LceInv, IInv, CohState
  <2>3. QED
    BY <2>2 DEF LceInv, IInv, CacheTypeOK
<1>3. LceOK'
  BY DEF LceInv, IInv, LceOK, LceTypeOK, CmdWF, Holds, Dequeue, Executes
<1>4. NetTypeOK'
  BY CommandFields
  DEF LceInv, IInv, NetTypeOK, Respond, CmdResp, Response, LceOK, LceTypeOK,
    Holds, Executes
<1>5. QED
  BY <1>1, <1>2, <1>3, <1>4 DEF IInv

(* LceData keeps the invariant.                                            *)
LEMMA LceDataStep ==
  ASSUME IInv, NEW l \in LCE, LceData(l)
  PROVE  IInv'
<1>1. /\ CceOK' /\ DirTypeOK' /\ MemTypeOK' /\ CoreOK' /\ NetTypeOK' /\ SrcWF'
      /\ ReqWF' /\ LatestOK'
  BY Unchanged DEF LceData, cceVars, netVars
<1>2. CacheTypeOK'
  BY CommandFields
  DEF LceData, IInv, CacheTypeOK, Executes, LceOK, LceTypeOK, Holds, SetTag,
    WriteData, Line
<1>3. LceOK'
  BY DEF LceData, IInv, LceOK, LceTypeOK, CmdWF, LceCmdStates, Holds, LceGoto,
    Executes
<1>4. QED
  BY <1>1, <1>2, <1>3 DEF IInv

(* LceStWakeup keeps the invariant.                                        *)
LEMMA LceStWakeupStep ==
  ASSUME IInv, NEW l \in LCE, LceStWakeup(l)
  PROVE  IInv'
<1>1. /\ CceOK' /\ DirTypeOK' /\ MemTypeOK' /\ CoreOK' /\ NetTypeOK' /\ SrcWF'
      /\ ReqWF' /\ LatestOK'
  BY Unchanged DEF LceStWakeup, cceVars, netVars
<1>2. CacheTypeOK'
  <2>1. lceCmd[l] \in Command /\ CmdFrame(l) \in Frame
    BY CmdFrameIn DEF LceStWakeup, IInv, LceOK, LceTypeOK, Executes, Holds
  <2>2. tag' \in [LCE -> [Frame -> Line]]
    BY <2>1, SetStateOK, CommandFields
    DEF LceStWakeup, IInv, Executes, Holds
  <2>3. QED
    BY <2>2 DEF LceStWakeup, IInv, CacheTypeOK
<1>3. LceOK'
  BY DEF LceStWakeup, IInv, LceOK, LceTypeOK, CmdWF, LceCmdStates, Holds,
    LceGoto, Executes
<1>4. QED
  BY <1>1, <1>2, <1>3 DEF IInv

(* LceStWb keeps the invariant.                                            *)
LEMMA LceStWbStep ==
  ASSUME IInv, NEW l \in LCE, LceStWb(l)
  PROVE  IInv'
<1>1. /\ CceOK' /\ DirTypeOK' /\ MemTypeOK' /\ CoreOK' /\ NetTypeOK' /\ SrcWF'
      /\ ReqWF' /\ LatestOK'
  BY Unchanged DEF LceStWb, cceVars, netVars
<1>2. CacheTypeOK'
  <2>1. lceCmd[l] \in Command /\ CmdFrame(l) \in Frame
    BY CmdFrameIn DEF LceStWb, IInv, LceOK, LceTypeOK, Executes, Holds
  <2>2. tag' \in [LCE -> [Frame -> Line]]
    BY <2>1, SetStateOK, CommandFields DEF LceStWb, IInv, Executes, Holds
  <2>3. QED
    BY <2>2 DEF LceStWb, IInv, CacheTypeOK
<1>3. LceOK'
  BY DEF LceStWb, IInv, LceOK, LceTypeOK, CmdWF, LceCmdStates, Holds, LceGoto,
    Executes
<1>4. QED
  BY <1>1, <1>2, <1>3 DEF IInv

(* LceStTr keeps the invariant.                                            *)
LEMMA LceStTrStep ==
  ASSUME IInv, NEW l \in LCE, LceStTr(l)
  PROVE  IInv'
<1>1. /\ CceOK' /\ DirTypeOK' /\ MemTypeOK' /\ CoreOK' /\ NetTypeOK' /\ SrcWF'
      /\ ReqWF' /\ LatestOK'
  BY Unchanged DEF LceStTr, cceVars, netVars
<1>2. CacheTypeOK'
  <2>1. lceCmd[l] \in Command /\ CmdFrame(l) \in Frame
    BY CmdFrameIn DEF LceStTr, IInv, LceOK, LceTypeOK, Executes, Holds
  <2>2. tag' \in [LCE -> [Frame -> Line]]
    BY <2>1, SetStateOK, CommandFields DEF LceStTr, IInv, Executes, Holds
  <2>3. ClearDirty(l) \/ UNCHANGED dirty
    BY DEF LceStTr
  <2>4. dirty' \in [LCE -> [Frame -> BOOLEAN]]
    <3>1. CASE ClearDirty(l)
      BY <3>1 DEF IInv, CacheTypeOK, ClearDirty
    <3>2. CASE UNCHANGED dirty
      BY <3>2 DEF IInv, CacheTypeOK
    <3>3. QED
      BY <2>3, <3>1, <3>2
  <2>5. QED
    BY <2>2, <2>4 DEF LceStTr, IInv, CacheTypeOK
<1>3. LceOK'
  BY CmdFrameIn
  DEF LceStTr, IInv, LceOK, LceTypeOK, CmdWF, LceCmdStates, Holds, LceGoto,
    Executes, ReadData, CacheTypeOK
<1>4. QED
  BY <1>1, <1>2, <1>3 DEF IInv

(* LceUcStDone keeps the invariant.                                        *)
LEMMA LceUcStDoneStep ==
  ASSUME IInv, NEW l \in LCE, LceUcStDone(l)
  PROVE  IInv'
<1>1. /\ CceOK' /\ DirTypeOK' /\ MemTypeOK' /\ CacheTypeOK' /\ NetTypeOK'
      /\ SrcWF' /\ ReqWF' /\ LatestOK'
  BY Unchanged DEF LceUcStDone, cceVars, netVars
<1>2. LceOK'
  BY DEF LceUcStDone, IInv, LceOK, LceTypeOK, CmdWF, Holds, Dequeue
<1>3. CoreOK'
  BY DEF LceUcStDone, IInv, CoreOK, CoreTypeOK, MissWF
<1>4. QED
  BY <1>1, <1>2, <1>3 DEF IInv

(* LceUcData keeps the invariant.                                          *)
LEMMA LceUcDataStep ==
  ASSUME IInv, NEW l \in LCE, LceUcData(l)
  PROVE  IInv'
<1>1. /\ CceOK' /\ DirTypeOK' /\ MemTypeOK' /\ CacheTypeOK' /\ NetTypeOK'
      /\ SrcWF' /\ ReqWF' /\ LatestOK'
  BY Unchanged DEF LceUcData, cceVars, netVars
<1>2. LceOK'
  BY DEF LceUcData, IInv, LceOK, LceTypeOK, CmdWF, Holds, Dequeue, Executes
<1>3. CoreOK'
  BY DEF LceUcData, IInv, CoreOK, CoreTypeOK, MissWF, Complete, Miss, NoMiss
<1>4. QED
  BY <1>1, <1>2, <1>3 DEF IInv

(* LceCohAck keeps the invariant.                                          *)
LEMMA LceCohAckStep ==
  ASSUME IInv, NEW l \in LCE, LceCohAck(l)
  PROVE  IInv'
<1>1. /\ CceOK' /\ DirTypeOK' /\ MemTypeOK' /\ CacheTypeOK' /\ SrcWF'
      /\ ReqWF' /\ LatestOK'
  BY Unchanged DEF LceCohAck, cceVars
<1>2. LceOK'
  BY DEF LceCohAck, IInv, LceOK, LceTypeOK, CmdWF, LceCmdStates, Holds,
    LceGoto, Dequeue
<1>3. CoreOK'
  BY DEF LceCohAck, IInv, CoreOK, CoreTypeOK, MissWF, Complete, Miss, NoMiss
<1>4. NetTypeOK'
  BY CommandFields
  DEF LceCohAck, IInv, NetTypeOK, Respond, CmdResp, Response, LceOK,
    LceTypeOK, CmdWF, Holds
<1>5. QED
  BY <1>1, <1>2, <1>3, <1>4 DEF IInv

(* LceTr keeps the invariant.                                              *)
LEMMA LceTrStep ==
  ASSUME IInv, NEW l \in LCE, LceTr(l)
  PROVE  IInv'
<1>1. /\ CceOK' /\ DirTypeOK' /\ MemTypeOK' /\ CacheTypeOK' /\ CoreOK'
      /\ SrcWF' /\ ReqWF' /\ LatestOK'
  BY Unchanged DEF LceTr, cceVars
<1>2. LceOK'
  BY DEF LceTr, IInv, LceOK, LceTypeOK, CmdWF, LceCmdStates, Holds, LceGoto,
    Dequeue
<1>3. NetTypeOK'
  <2>1. [type |-> "data", src |-> lceCmd[l].src, dst |-> lceCmd[l].target,
        addr |-> lceCmd[l].addr, way |-> lceCmd[l].targetWay,
        st |-> lceCmd[l].targetSt, data |-> dataBuf[l]] \in Command
    BY DEF LceTr, IInv, Command, LceOK, LceTypeOK, CmdWF, Holds
  <2>2. QED
    BY <2>1 DEF LceTr, IInv, NetTypeOK
<1>4. QED
  BY <1>1, <1>2, <1>3 DEF IInv

(* LceWbStatRd keeps the invariant.                                        *)
LEMMA LceWbStatRdStep ==
  ASSUME IInv, NEW l \in LCE, LceWbStatRd(l)
  PROVE  IInv'
<1>1. /\ CceOK' /\ DirTypeOK' /\ MemTypeOK' /\ CacheTypeOK' /\ CoreOK'
      /\ NetTypeOK' /\ SrcWF' /\ ReqWF' /\ LatestOK'
  BY Unchanged DEF LceWbStatRd, cceVars, netVars
<1>2. LceOK'
  BY DEF LceWbStatRd, IInv, LceOK, LceTypeOK, CmdWF, LceCmdStates, Holds,
    LceGoto
<1>3. QED
  BY <1>1, <1>2 DEF IInv

(* LceWb keeps the invariant.                                              *)
LEMMA LceWbStep ==
  ASSUME IInv, NEW l \in LCE, LceWb(l)
  PROVE  IInv'
<1>1. /\ CceOK' /\ DirTypeOK' /\ MemTypeOK' /\ CacheTypeOK' /\ CoreOK'
      /\ SrcWF' /\ ReqWF' /\ LatestOK'
  BY Unchanged DEF LceWb, cceVars
<1>2. LceOK'
  BY DEF LceWb, IInv, LceOK, LceTypeOK, CmdWF, LceCmdStates, Holds, LceGoto,
    Dequeue
<1>3. NetTypeOK'
  BY CommandFields
  DEF LceWb, IInv, NetTypeOK, Respond, CmdResp, Response, LceOK, LceTypeOK,
    CmdWF, Holds
<1>4. QED
  BY <1>1, <1>2, <1>3 DEF IInv

(* LceWbDirtyRd keeps the invariant.                                       *)
LEMMA LceWbDirtyRdStep ==
  ASSUME IInv, NEW l \in LCE, LceWbDirtyRd(l)
  PROVE  IInv'
<1>1. /\ CceOK' /\ DirTypeOK' /\ MemTypeOK' /\ CoreOK' /\ NetTypeOK' /\ SrcWF'
      /\ ReqWF' /\ LatestOK'
  BY Unchanged DEF LceWbDirtyRd, cceVars, netVars
<1>2. CacheTypeOK'
  BY DEF LceWbDirtyRd, IInv, CacheTypeOK, ClearDirty
<1>3. LceOK'
  BY CmdFrameIn
  DEF LceWbDirtyRd, IInv, LceOK, LceTypeOK, CmdWF, LceCmdStates, Holds,
    LceGoto, ReadData, CacheTypeOK
<1>4. QED
  BY <1>1, <1>2, <1>3 DEF IInv

(* LceWbDirtySend keeps the invariant.                                     *)
LEMMA LceWbDirtySendStep ==
  ASSUME IInv, NEW l \in LCE, LceWbDirtySend(l)
  PROVE  IInv'
<1>1. /\ CceOK' /\ DirTypeOK' /\ MemTypeOK' /\ CacheTypeOK' /\ CoreOK'
      /\ SrcWF' /\ ReqWF' /\ LatestOK'
  BY Unchanged DEF LceWbDirtySend, cceVars
<1>2. LceOK'
  BY DEF LceWbDirtySend, IInv, LceOK, LceTypeOK, CmdWF, LceCmdStates, Holds,
    LceGoto, Dequeue
<1>3. NetTypeOK'
  BY CommandFields
  DEF LceWbDirtySend, IInv, NetTypeOK, Respond, Response, LceOK, LceTypeOK,
    CmdWF, Holds
<1>4. QED
  BY <1>1, <1>2, <1>3 DEF IInv

(* LceTagOnly keeps the invariant.                                         *)
LEMMA LceTagOnlyStep ==
  ASSUME IInv, NEW l \in LCE, LceTagOnly(l)
  PROVE  IInv'
<1>1. /\ CceOK' /\ DirTypeOK' /\ MemTypeOK' /\ LceOK' /\ CoreOK' /\ NetTypeOK'
      /\ SrcWF' /\ ReqWF' /\ LatestOK'
  BY Unchanged DEF LceTagOnly, cceVars, netVars
<1>2. CacheTypeOK'
  <2>1. lceCmd[l] \in Command /\ CmdFrame(l) \in Frame
    BY CmdFrameIn DEF LceTagOnly, IInv, LceOK, LceTypeOK, Executes, Holds
  <2>2. CASE Executes(l, {"data"}) /\ SetTag(l)
    BY <2>1, <2>2, CommandFields
    DEF LceTagOnly, IInv, CacheTypeOK, SetTag, Line, Executes, Holds
  <2>3. CASE \/ Executes(l, {"inv"}) /\ SetState(l, "I")
             \/ /\ Executes(l, {"st_wb", "st_tr", "st_tr_wb"})
                /\ SetState(l, lceCmd[l].st)
    <3>1. tag' \in [LCE -> [Frame -> Line]]
      BY <2>1, <2>3, SetStateOK, CommandFields
      DEF IInv, Executes, Holds, CohState
    <3>2. QED
      BY <3>1 DEF LceTagOnly, IInv, CacheTypeOK
  <2>4. QED
    BY <2>2, <2>3 DEF LceTagOnly
<1>3. QED
  BY <1>1, <1>2 DEF IInv

(* LceDataOnly keeps the invariant.                                        *)
LEMMA LceDataOnlyStep ==
  ASSUME IInv, NEW l \in LCE, LceDataOnly(l)
  PROVE  IInv'
<1>1. /\ CceOK' /\ DirTypeOK' /\ MemTypeOK' /\ LceOK' /\ CoreOK' /\ NetTypeOK'
      /\ SrcWF' /\ ReqWF' /\ LatestOK'
  BY Unchanged DEF LceDataOnly, cceVars, netVars
<1>2. CacheTypeOK'
  BY CommandFields
  DEF LceDataOnly, IInv, CacheTypeOK, Executes, LceOK, LceTypeOK, Holds,
    WriteData
<1>3. QED
  BY <1>1, <1>2 DEF IInv

(* LceStatOnly keeps the invariant.                                        *)
LEMMA LceStatOnlyStep ==
  ASSUME IInv, NEW l \in LCE, LceStatOnly(l)
  PROVE  IInv'
<1>1. /\ CceOK' /\ DirTypeOK' /\ MemTypeOK' /\ LceOK' /\ CoreOK' /\ NetTypeOK'
      /\ SrcWF' /\ ReqWF' /\ LatestOK'
  BY Unchanged DEF LceStatOnly, cceVars, netVars
<1>2. CacheTypeOK'
  BY DEF LceStatOnly, IInv, CacheTypeOK, ClearDirty
<1>3. QED
  BY <1>1, <1>2 DEF IInv

(* LceSendReq keeps the invariant.                                         *)
LEMMA LceSendReqStep ==
  ASSUME IInv, NEW l \in LCE, LceSendReq(l)
  PROVE  IInv'
<1>1. /\ CceOK' /\ DirTypeOK' /\ MemTypeOK' /\ CacheTypeOK' /\ LceOK'
      /\ LatestOK'
  BY Unchanged DEF LceSendReq
<1>2. CoreOK'
  BY DEF LceSendReq, IInv, CoreOK, CoreTypeOK, MissWF, SendReq, Miss
<1>3. NetTypeOK' /\ SrcWF' /\ ReqWF'
  <2> DEFINE m == miss[l]
             uc == [op |-> m.op, src |-> l, addr |-> m.addr, data |-> InitData]
             ca == [op |-> IF m.op = "rd" THEN "rd" ELSE "wr", src |-> l,
                    addr |-> m.addr, lru |-> m.lru,
                    nonExcl |-> m.op = "rd" /\ l \in ReadOnlyLCE]
  <2>1. SendReq(l, IF m.op = "uc_rd" THEN uc ELSE ca)
    BY DEF LceSendReq
  <2>2. m.op = "uc_rd" => uc \in Request /\ uc.src = l
    BY ConstantsAssumption
    DEF LceSendReq, IInv, CoreOK, MissWF, Request, UcOp
  <2>3. m.op # "uc_rd" => ca \in Request /\ ca.src = l
    BY DEF LceSendReq, IInv, CoreOK, MissWF, Request, CacheOp
  <2> HIDE DEF uc, ca
  <2>4. \E r \in Request : r.src = l /\ SendReq(l, r)
    BY <2>1, <2>2, <2>3
  <2>5. QED
    BY <2>4, SendReqOK DEF LceSendReq, IInv, cceVars
<1>4. QED
  BY <1>1, <1>2, <1>3 DEF IInv

(* CoreReplay keeps the invariant.                                         *)
LEMMA CoreReplayStep ==
  ASSUME IInv, NEW l \in LCE, CoreReplay(l)
  PROVE  IInv'
<1>1. /\ CceOK' /\ DirTypeOK' /\ MemTypeOK' /\ LceOK' /\ NetTypeOK' /\ SrcWF'
      /\ ReqWF'
  BY Unchanged DEF CoreReplay, cceVars, netVars
<1>2. CacheTypeOK' /\ LatestOK'
  <2>1. CASE miss[l].op = "wr"
    BY <2>1, StoreOK DEF CoreReplay, IInv
  <2>2. CASE miss[l].op # "wr"
    BY <2>2 DEF CoreReplay, IInv, CacheTypeOK, LatestOK
  <2>3. QED
    BY <2>1, <2>2
<1>3. CoreOK'
  BY DEF CoreReplay, IInv, CoreOK, CoreTypeOK, MissWF, Miss, NoMiss
<1>4. QED
  BY <1>1, <1>2, <1>3 DEF IInv

(* LockExpire keeps the invariant.                                         *)
LEMMA LockExpireStep ==
  ASSUME IInv, NEW l \in LCE, LockExpire(l)
  PROVE  IInv'
<1>1. /\ CceOK' /\ DirTypeOK' /\ MemTypeOK' /\ CacheTypeOK' /\ LceOK'
      /\ NetTypeOK' /\ SrcWF' /\ ReqWF' /\ LatestOK'
  BY Unchanged DEF LockExpire, cceVars, netVars
<1>2. CoreOK'
  BY DEF LockExpire, IInv, CoreOK, CoreTypeOK, MissWF, Miss, NoMiss
<1>3. QED
  BY <1>1, <1>2 DEF IInv

(* CoreStore keeps the invariant.                                          *)
LEMMA CoreStoreStep ==
  ASSUME IInv, NEW l \in LCE, NEW b \in Block, NEW w \in Way, NEW d \in Data,
         CoreStore(l, b, w, d)
  PROVE  IInv'
<1>1. /\ CceOK' /\ DirTypeOK' /\ MemTypeOK' /\ LceOK' /\ CoreOK' /\ NetTypeOK'
      /\ SrcWF' /\ ReqWF'
  BY Unchanged DEF CoreStore, cceVars, netVars
<1>2. CacheTypeOK' /\ LatestOK'
  BY StoreOK DEF CoreStore, IInv
<1>3. QED
  BY <1>1, <1>2 DEF IInv

(* CoreMiss keeps the invariant.                                           *)
LEMMA CoreMissStep ==
  ASSUME IInv, NEW l \in LCE, NEW b \in Block, NEW w \in Way,
         NEW op \in CoreOps, CoreMiss(l, b, op, w)
  PROVE  IInv'
<1>1. /\ CceOK' /\ DirTypeOK' /\ MemTypeOK' /\ CacheTypeOK' /\ LceOK'
      /\ NetTypeOK' /\ SrcWF' /\ ReqWF' /\ LatestOK'
  BY Unchanged DEF CoreMiss, cceVars, netVars
<1>2. MissOp(l, b, op) \in CoreOps \cup {"rd"}
  BY DEF MissOp
<1>3. CoreOK'
  BY <1>2 DEF CoreMiss, IInv, CoreOK, CoreTypeOK, MissWF, Miss, Addr
<1>4. QED
  BY <1>1, <1>3 DEF IInv

(* CoreUcLoad keeps the invariant.                                         *)
LEMMA CoreUcLoadStep ==
  ASSUME IInv, NEW l \in LCE, NEW a \in IoBlock, CoreUcLoad(l, a)
  PROVE  IInv'
<1>1. /\ CceOK' /\ DirTypeOK' /\ MemTypeOK' /\ CacheTypeOK' /\ LceOK'
      /\ NetTypeOK' /\ SrcWF' /\ ReqWF' /\ LatestOK'
  BY Unchanged DEF CoreUcLoad, cceVars, netVars
<1>2. CoreOK'
  BY DEF CoreUcLoad, IInv, CoreOK, CoreTypeOK, MissWF, Miss, NoMiss, Addr
<1>3. QED
  BY <1>1, <1>2 DEF IInv

(* CoreUcStore keeps the invariant.                                        *)
LEMMA CoreUcStoreStep ==
  ASSUME IInv, NEW l \in LCE, NEW a \in IoBlock, NEW d \in Data,
         CoreUcStore(l, a, d)
  PROVE  IInv'
<1>1. /\ CceOK' /\ DirTypeOK' /\ MemTypeOK' /\ CacheTypeOK' /\ LceOK'
      /\ LatestOK'
  BY Unchanged DEF CoreUcStore
<1>2. CoreOK'
  BY DEF CoreUcStore, IInv, CoreOK, CoreTypeOK, MissWF, SendReq
<1>3. NetTypeOK' /\ SrcWF' /\ ReqWF'
  <2>1. [op |-> "uc_wr", src |-> l, addr |-> a, data |-> d] \in Request
    BY DEF Request, UcOp
  <2>2. QED
    BY <2>1, SendReqOK DEF CoreUcStore, IInv, cceVars
<1>4. QED
  BY <1>1, <1>2, <1>3 DEF IInv

(* The reset state satisfies the invariant.                                *)
LEMMA InitOK == Init => IInv
<1> SUFFICES ASSUME Init
             PROVE  IInv
  OBVIOUS
<1>1. CceOK /\ ReqWF
  BY DEF Init, CceInit, CceOK, CceTypeOK, MshrWF, InvWF, ReqWF, Cached,
    Decided, Taking, CceStates, NoMshr, Mshr, CohState
<1>2. DirTypeOK
  <2>1. NoSpec \in SpecBits
    BY DEF NoSpec, SpecBits, CohState
  <2>2. QED
    BY <2>1 DEF Init, CceInit, DirTypeOK
<1>3. MemTypeOK /\ LatestOK
  BY ConstantsAssumption DEF Init, CceInit, MemTypeOK, LatestOK
<1>4. CacheTypeOK
  BY ConstantsAssumption DEF Init, LceInit, CacheTypeOK
<1>5. LceOK
  BY ConstantsAssumption
  DEF Init, LceInit, LceOK, LceTypeOK, CmdWF, LceCmdStates
<1>6. CoreOK
  BY DEF Init, LceInit, CoreOK, CoreTypeOK, MissWF, Miss, NoMiss
<1>7. NetTypeOK /\ SrcWF
  BY DEF Init, NetTypeOK, SrcWF
<1>8. QED
  BY <1>1, <1>2, <1>3, <1>4, <1>5, <1>6, <1>7 DEF IInv

(* A step that changes nothing keeps it.                                   *)
LEMMA StutterOK == ASSUME IInv, UNCHANGED vars PROVE IInv'
BY Unchanged DEF vars, cceVars, netVars, IInv

(* Every step of an engine keeps it.                                       *)
LEMMA CceStepOK == ASSUME IInv, NEW c \in CCE, CceStep(c) PROVE IInv'
<1>1. CASE CceFsmStep(c)
  BY <1>1, CceResetStep, CceClearDirStep, CceLeaveUncachedStep,
    CceSyncAckStep, CceUcReqStep, CceReadPendingStep, CceDeqReqStep,
    CceReadMemSpecStep, CceReadDirStep, CceWriteNextStateStep,
    CceReplacementStep, CceReplacementWbRespStep, CceInvCmdStep,
    CceInvAckStep, CceUpgradeStep, CceTransferStep, CceTransferWbRespStep,
    CceResolveStep DEF CceFsmStep
<1>2. CASE MemRespStep(c)
  BY <1>2, MemRespSquashStep, MemRespFillStep, MemRespWritebackStep,
    MemRespUncachedStep DEF MemRespStep
<1>3. QED
  BY <1>1, <1>2, CohAckStep, ConfigNormalStep, CceReadyStep,
    CceUncachedOnlyStep, CceSendSyncStep DEF CceStep

(* Every step of a cache and its core keeps it.                            *)
LEMMA LceStepOK == ASSUME IInv, NEW l \in LCE, LceStep(l) PROVE IInv'
<1>1. CASE LceCmdStep(l)
  BY <1>1, LceResetStep, LceClearStep, LceHeadStep, LceSyncStep, LceInvStep,
    LceDataStep, LceStWakeupStep, LceStWbStep, LceStTrStep, LceUcStDoneStep,
    LceUcDataStep, LceCohAckStep, LceTrStep, LceWbStatRdStep, LceWbStep,
    LceWbDirtyRdStep, LceWbDirtySendStep DEF LceCmdStep
<1>2. CASE LcePartialStep(l)
  BY <1>2, LceTagOnlyStep, LceDataOnlyStep, LceStatOnlyStep
  DEF LcePartialStep
<1>3. CASE CoreStep(l)
  BY <1>3, CoreStoreStep, CoreMissStep, CoreUcLoadStep, CoreUcStoreStep
  DEF CoreStep
<1>4. QED
  BY <1>1, <1>2, <1>3, LceSendReqStep, CoreReplayStep, LockExpireStep
  DEF LceStep

(* The strengthened type invariant always holds: every register the two    *)
(* engines read has been loaded by the path that leads to the read.        *)
THEOREM TypesInvariant == Spec => []IInv
<1>1. Init => IInv
  BY InitOK
<1>2. IInv /\ [Next]_vars => IInv'
  BY CceStepOK, LceStepOK, StutterOK DEF Next
<1>3. QED
  BY <1>1, <1>2, PTL DEF Spec

(* Type correctness of the whole system, for every configuration: all that *)
(* the engines, caches, channels and memory hold is of its kind, and the   *)
(* pending counters stay within three bits.                                *)
THEOREM TypeCorrect == Spec => []TypeOK
<1>1. IInv => TypeOK
  BY DEF IInv, TypeOK, CceOK, LceOK, CoreOK, LatestOK
<1>2. QED
  BY <1>1, TypesInvariant, PTL

----------------------------------------------------------------------------
(* No engine serves cached requests before every cache has cleared itself, *)
(* for every number of caches and engines. The synchronisation is a        *)
(* conversation of one engine with all caches, one at a time: the          *)
(* invariant follows the single sync message through its three forms (in   *)
(* the network, held by the cache, acknowledged).                          *)

(* Cache l has left its start-up states.                                   *)
Past(l) == lceState[l] \notin {"reset", "clear"}

(* The sync command of engine c to cache l is in the network.              *)
SyncSent(c, l) == [type |-> "sync", src |-> c, dst |-> l] \in cmdNet

(* Cache l has it at the head of its command queue.                        *)
SyncHeld(c, l) == Holds(l, {"sync"}) /\ lceCmd[l].src = c

(* Its acknowledgement is on the way back to the engine.                   *)
SyncDone(c, l) == [type |-> "sync_ack", src |-> l, dst |-> c] \in respNet

(* Engine c waits for cache l.                                             *)
UnderWay(c, l) == SyncSent(c, l) \/ SyncHeld(c, l) \/ SyncDone(c, l)

(* At most one conversation per engine is under way, in one form at a      *)
(* time, and only while the engine waits for it; a cache that has read its *)
(* sync is past its start-up; the caches an engine has counted are past    *)
(* theirs or are the one it waits for; so that an engine in service has    *)
(* seen them all.                                                          *)
SyncInv ==
  /\ \A c \in CCE, l \in LCE :
       /\ SyncHeld(c, l) \/ SyncDone(c, l) => Past(l)
       /\ ~(SyncSent(c, l) /\ SyncHeld(c, l))
       /\ ~(SyncSent(c, l) /\ SyncDone(c, l))
       /\ ~(SyncHeld(c, l) /\ SyncDone(c, l))
       /\ UnderWay(c, l) => cceState[c] \in {"sync_ack", "error"}
  /\ \A c \in CCE, l, k \in LCE : UnderWay(c, l) /\ UnderWay(c, k) => l = k
  /\ \A c \in CCE :
       /\ cceState[c] \in {"clear_dir", "uncached_only"} => synced[c] = {}
       /\ cceState[c] \in {"send_sync", "sync_ack"} =>
            \A l \in LCE : l \in synced[c] => Past(l) \/ UnderWay(c, l)
       /\ InService(c) => \A l \in LCE : Past(l)

(* A step that is no part of the synchronisation: engines stay where they  *)
(* are or move within their service states, and no sync or acknowledgement *)
(* moves.                                                                  *)
Ordinary ==
  /\ \A c \in CCE :
       cceState'[c] = cceState[c] \/ (InService(c) /\ InService(c)')
  /\ synced' = synced
  /\ \A c \in CCE, l \in LCE :
       /\ SyncSent(c, l)' <=> SyncSent(c, l)
       /\ SyncHeld(c, l)' <=> SyncHeld(c, l)
       /\ SyncDone(c, l)' <=> SyncDone(c, l)
  /\ \A l \in LCE : Past(l) => Past(l)'

(* Ordinary steps keep the invariant.                                      *)
LEMMA OrdinaryOK == ASSUME SyncInv, Ordinary PROVE SyncInv'
<1>1. \A c \in CCE, l \in LCE : UnderWay(c, l)' <=> UnderWay(c, l)
  BY DEF Ordinary, UnderWay
<1>2. \A c \in CCE : InService(c) =>
        InService(c)' \/ cceState'[c] = cceState[c]
  BY DEF Ordinary
<1>3. \A c \in CCE, l \in LCE :
       /\ (SyncHeld(c, l) \/ SyncDone(c, l) => Past(l))'
       /\ ~(SyncSent(c, l) /\ SyncHeld(c, l))'
       /\ ~(SyncSent(c, l) /\ SyncDone(c, l))'
       /\ ~(SyncHeld(c, l) /\ SyncDone(c, l))'
       /\ (UnderWay(c, l) => cceState[c] \in {"sync_ack", "error"})'
  BY <1>1 DEF Ordinary, SyncInv, InService
<1>4. \A c \in CCE, l, k \in LCE : (UnderWay(c, l) /\ UnderWay(c, k))' => l = k
  BY <1>1 DEF SyncInv
<1>5. \A c \in CCE :
       /\ (cceState[c] \in {"clear_dir", "uncached_only"} => synced[c] = {})'
       /\ (cceState[c] \in {"send_sync", "sync_ack"} =>
            \A l \in LCE : l \in synced[c] => Past(l) \/ UnderWay(c, l))'
       /\ (InService(c) => \A l \in LCE : Past(l))'
  BY <1>1 DEF Ordinary, SyncInv, InService
<1>6. QED
  BY <1>3, <1>4, <1>5 DEF SyncInv

(* The steps of an engine that serve requests are ordinary.                *)
LEMMA CceOrdinary ==
  ASSUME IInv, NEW c \in CCE,
         \/ ConfigNormal(c) \/ CceUcReq(c) \/ CceReadPending(c)
         \/ CceDeqReq(c) \/ CceReadMemSpec(c) \/ CceReadDir(c)
         \/ CceWriteNextState(c) \/ CceReplacement(c)
         \/ CceReplacementWbResp(c) \/ CceInvCmd(c) \/ CceInvAck(c)
         \/ CceUpgrade(c) \/ CceTransfer(c) \/ CceTransferWbResp(c)
         \/ CceResolve(c) \/ MemRespStep(c) \/ CohAck(c)
         \/ \E l \in LCE : CceReady(c, l) \/ CceUncachedOnly(c, l)
  PROVE  Ordinary
<1>1. CASE ConfigNormal(c)
  BY <1>1
  DEF ConfigNormal, Ordinary, SyncSent, SyncHeld, SyncDone, Past, Holds,
    lceVars, netVars
<1>2. CASE CceUcReq(c)
  BY <1>2
  DEF CceUcReq, Goto, Ordinary, InService, SyncSent, SyncHeld, SyncDone, Past,
    Holds, lceVars
<1>3. CASE CceReadPending(c)
  BY <1>3
  DEF CceReadPending, Goto, Ordinary, InService, SyncSent, SyncHeld, SyncDone,
    Past, Holds, lceVars, netVars
<1>4. CASE CceDeqReq(c)
  BY <1>4
  DEF CceDeqReq, Goto, Ordinary, InService, SyncSent, SyncHeld, SyncDone,
    Past, Holds, lceVars
<1>5. CASE CceReadMemSpec(c)
  BY <1>5
  DEF CceReadMemSpec, Goto, Ordinary, InService, SyncSent, SyncHeld, SyncDone,
    Past, Holds, lceVars, netVars
<1>6. CASE CceReadDir(c)
  BY <1>6
  DEF CceReadDir, Goto, Ordinary, InService, SyncSent, SyncHeld, SyncDone,
    Past, Holds, lceVars, netVars
<1>7. CASE CceWriteNextState(c)
  BY <1>7
  DEF CceWriteNextState, Goto, StartInvOrFill, FillStep, Ordinary, InService,
    SyncSent, SyncHeld, SyncDone, Past, Holds, IInv, CceOK, CceTypeOK,
    lceVars, netVars
<1>8. CASE CceReplacement(c)
  BY <1>8
  DEF CceReplacement, Goto, SendCmd, Ordinary, InService, SyncSent, SyncHeld,
    SyncDone, Past, Holds, lceVars
<1>9. CASE CceReplacementWbResp(c)
  BY <1>9
  DEF CceReplacementWbResp, Goto, StartInvOrFill, FillStep, WritebackResp,
    TakeResp, Ordinary, InService, SyncSent, SyncHeld, SyncDone, Past, Holds,
    IInv, CceOK, CceTypeOK, lceVars
<1>10. CASE CceInvCmd(c)
  BY <1>10
  DEF CceInvCmd, Goto, SendCmd, Ordinary, InService, SyncSent, SyncHeld,
    SyncDone, Past, Holds, lceVars
<1>11. CASE CceInvAck(c)
  BY <1>11
  DEF CceInvAck, Goto, AfterInvAck, FillStep, TakeResp, Ordinary, InService,
    SyncSent, SyncHeld, SyncDone, Past, Holds, lceVars
<1>12. CASE CceUpgrade(c)
  BY <1>12
  DEF CceUpgrade, Goto, SendCmd, Ordinary, InService, SyncSent, SyncHeld,
    SyncDone, Past, Holds, lceVars
<1>13. CASE CceTransfer(c)
  BY <1>13
  DEF CceTransfer, Goto, SendCmd, Ordinary, InService, SyncSent, SyncHeld,
    SyncDone, Past, Holds, lceVars
<1>14. CASE CceTransferWbResp(c)
  BY <1>14
  DEF CceTransferWbResp, Goto, WritebackResp, TakeResp, Ordinary, InService,
    SyncSent, SyncHeld, SyncDone, Past, Holds, lceVars
<1>15. CASE CceResolve(c)
  BY <1>15
  DEF CceResolve, Goto, Ordinary, InService, SyncSent, SyncHeld, SyncDone,
    Past, Holds, lceVars, netVars
<1>16. CASE MemRespSquash(c)
  BY <1>16
  DEF MemRespSquash, Ordinary, SyncSent, SyncHeld, SyncDone, Past, Holds,
    lceVars, cceVars, netVars
<1>17. CASE MemRespFill(c)
  BY <1>17
  DEF MemRespFill, SendCmd, FillCmd, Ordinary, SyncSent, SyncHeld, SyncDone,
    Past, Holds, lceVars, cceVars
<1>18. CASE MemRespWriteback(c)
  BY <1>18
  DEF MemRespWriteback, Ordinary, SyncSent, SyncHeld, SyncDone, Past, Holds,
    lceVars, cceVars, netVars
<1>19. CASE MemRespUncached(c)
  BY <1>19
  DEF MemRespUncached, SendCmd, Ordinary, SyncSent, SyncHeld, SyncDone, Past,
    Holds, lceVars, cceVars
<1>20. CASE CohAck(c)
  BY <1>20
  DEF CohAck, TakeResp, Ordinary, SyncSent, SyncHeld, SyncDone, Past, Holds,
    lceVars, cceVars
<1>21. CASE \E l \in LCE : CceReady(c, l)
  BY <1>21
  DEF CceReady, Goto, Ordinary, InService, SyncSent, SyncHeld, SyncDone, Past,
    Holds, lceVars, netVars
<1>22. CASE \E l \in LCE : CceUncachedOnly(c, l)
  BY <1>22
  DEF CceUncachedOnly, Ordinary, SyncSent, SyncHeld, SyncDone, Past, Holds,
    lceVars, cceVars
<1>23. QED
  BY <1>1, <1>2, <1>3, <1>4, <1>5, <1>6, <1>7, <1>8, <1>9, <1>10, <1>11,
    <1>12, <1>13, <1>14, <1>15, <1>16, <1>17, <1>18, <1>19, <1>20, <1>21,
    <1>22 DEF MemRespStep

(* All steps of a cache but reading a command and answering a sync are     *)
(* ordinary: no other command is answered with a sync_ack.                 *)
LEMMA LceOrdinary ==
  ASSUME IInv, NEW l \in LCE,
         \/ LceReset(l) \/ LceClear(l) \/ LceInv(l) \/ LceData(l)
         \/ LceStWakeup(l) \/ LceStWb(l) \/ LceStTr(l) \/ LceUcStDone(l)
         \/ LceUcData(l) \/ LceCohAck(l) \/ LceTr(l) \/ LceWbStatRd(l)
         \/ LceWb(l) \/ LceWbDirtyRd(l) \/ LceWbDirtySend(l)
         \/ LcePartialStep(l)
         \/ LceSendReq(l) \/ CoreReplay(l) \/ LockExpire(l) \/ CoreStep(l)
  PROVE  Ordinary
<1>1. CASE LceReset(l)
  BY <1>1
  DEF LceReset, LceGoto, Ordinary, SyncSent, SyncHeld, SyncDone, Past, Holds,
    cceVars, netVars
<1>2. CASE LceClear(l)
  BY <1>2
  DEF LceClear, LceGoto, Ordinary, SyncSent, SyncHeld, SyncDone, Past, Holds,
    cceVars, netVars
<1>3. CASE LceInv(l)
  BY <1>3
  DEF LceInv, Executes, Respond, CmdResp, Dequeue, Ordinary, SyncSent,
    SyncHeld, SyncDone, Past, Holds, cceVars
<1>4. CASE LceData(l)
  BY <1>4
  DEF LceData, LceGoto, Ordinary, SyncSent, SyncHeld, SyncDone, Past, Holds,
    cceVars, netVars
<1>5. CASE LceStWakeup(l)
  BY <1>5
  DEF LceStWakeup, LceGoto, Ordinary, SyncSent, SyncHeld, SyncDone, Past,
    Holds, cceVars, netVars
<1>6. CASE LceStWb(l)
  BY <1>6
  DEF LceStWb, LceGoto, Ordinary, SyncSent, SyncHeld, SyncDone, Past, Holds,
    cceVars, netVars
<1>7. CASE LceStTr(l)
  BY <1>7
  DEF LceStTr, LceGoto, Ordinary, SyncSent, SyncHeld, SyncDone, Past, Holds,
    cceVars, netVars
<1>8. CASE LceUcStDone(l)
  BY <1>8
  DEF LceUcStDone, Dequeue, Ordinary, SyncSent, SyncHeld, SyncDone, Past,
    Holds, cceVars, netVars
<1>9. CASE LceUcData(l)
  BY <1>9
  DEF LceUcData, Dequeue, Executes, Ordinary, SyncSent, SyncHeld, SyncDone,
    Past, Holds, cceVars, netVars
<1>10. CASE LceCohAck(l)
  BY <1>10
  DEF LceCohAck, LceGoto, Dequeue, Respond, CmdResp, Ordinary, SyncSent,
    SyncHeld, SyncDone, Past, Holds, IInv, LceOK, CmdWF, cceVars
<1>11. CASE LceTr(l)
  BY <1>11
  DEF LceTr, LceGoto, Dequeue, Ordinary, SyncSent, SyncHeld, SyncDone, Past,
    Holds, IInv, LceOK, LceTypeOK, CmdWF, cceVars
<1>12. CASE LceWbStatRd(l)
  BY <1>12
  DEF LceWbStatRd, LceGoto, Ordinary, SyncSent, SyncHeld, SyncDone, Past,
    Holds, cceVars, netVars
<1>13. CASE LceWb(l)
  BY <1>13
  DEF LceWb, LceGoto, Dequeue, Respond, CmdResp, Ordinary, SyncSent, SyncHeld,
    SyncDone, Past, Holds, IInv, LceOK, LceTypeOK, CmdWF, cceVars
<1>14. CASE LceWbDirtyRd(l)
  BY <1>14
  DEF LceWbDirtyRd, LceGoto, Ordinary, SyncSent, SyncHeld, SyncDone, Past,
    Holds, cceVars, netVars
<1>15. CASE LceWbDirtySend(l)
  BY <1>15
  DEF LceWbDirtySend, LceGoto, Dequeue, Respond, Ordinary, SyncSent, SyncHeld,
    SyncDone, Past, Holds, IInv, LceOK, CmdWF, cceVars
<1>16. CASE LcePartialStep(l)
  BY <1>16
  DEF LcePartialStep, LceTagOnly, LceDataOnly, LceStatOnly, Ordinary,
    SyncSent, SyncHeld, SyncDone, Past, Holds, cceVars, netVars, lceVars
<1>17. CASE LceSendReq(l)
  BY <1>17
  DEF LceSendReq, Ordinary, SyncSent, SyncHeld, SyncDone, Past, Holds,
    cceVars, lceVars
<1>18. CASE CoreReplay(l)
  BY <1>18
  DEF CoreReplay, Ordinary, SyncSent, SyncHeld, SyncDone, Past, Holds,
    cceVars, netVars, lceVars
<1>19. CASE LockExpire(l)
  BY <1>19
  DEF LockExpire, Ordinary, SyncSent, SyncHeld, SyncDone, Past, Holds,
    cceVars, netVars, lceVars
<1>20. CASE CoreStep(l)
  BY <1>20
  DEF CoreStep, CoreStore, CoreMiss, CoreUcLoad, CoreUcStore, Ordinary,
    SyncSent, SyncHeld, SyncDone, Past, Holds, cceVars, netVars, lceVars
<1>21. QED
  BY <1>1, <1>2, <1>3, <1>4, <1>5, <1>6, <1>7, <1>8, <1>9, <1>10, <1>11,
    <1>12, <1>13, <1>14, <1>15, <1>16, <1>17, <1>18, <1>19, <1>20

(* Reset, clearing the directory and leaving uncached mode: no             *)
(* conversation is under way and no cache has been counted.                *)
LEMMA SyncResetStep ==
  ASSUME IInv, SyncInv, NEW c \in CCE,
         CceReset(c) \/ CceClearDir(c) \/ CceLeaveUncached(c)
  PROVE  SyncInv'
<1>1. PICK st \in {"clear_dir", "uncached_only", "send_sync"} :
        /\ cceState[c] \in {"reset", "clear_dir", "uncached_only"}
        /\ cceState' = [cceState EXCEPT ![c] = st]
        /\ st = "clear_dir" => synced' = [synced EXCEPT ![c] = {}]
        /\ st # "clear_dir" =>
             cceState[c] \in {"clear_dir", "uncached_only"} /\ synced' = synced
  BY DEF CceReset, CceClearDir, CceLeaveUncached, Goto
<1>2. UNCHANGED <<lceState, lceCmd, cmdNet, respNet>>
  BY DEF CceReset, CceClearDir, CceLeaveUncached, lceVars, netVars
<1>3. \A d \in CCE, k \in LCE :
        /\ SyncSent(d, k)' <=> SyncSent(d, k)
        /\ SyncHeld(d, k)' <=> SyncHeld(d, k)
        /\ SyncDone(d, k)' <=> SyncDone(d, k)
        /\ Past(k)' <=> Past(k)
        /\ UnderWay(d, k)' <=> UnderWay(d, k)
  BY <1>2 DEF SyncSent, SyncHeld, SyncDone, Past, Holds, UnderWay
<1>4. synced'[c] = {} /\ \A k \in LCE : ~UnderWay(c, k)
  BY <1>1 DEF SyncInv, IInv, CceOK, CceTypeOK
<1>5. cceState'[c] = st /\ \A d \in CCE :
         d # c => cceState'[d] = cceState[d] /\ synced'[d] = synced[d]
  BY <1>1 DEF IInv, CceOK, CceTypeOK
<1>6. \A d \in CCE, k \in LCE :
       /\ (SyncHeld(d, k) \/ SyncDone(d, k) => Past(k))'
       /\ ~(SyncSent(d, k) /\ SyncHeld(d, k))'
       /\ ~(SyncSent(d, k) /\ SyncDone(d, k))'
       /\ ~(SyncHeld(d, k) /\ SyncDone(d, k))'
       /\ (UnderWay(d, k) => cceState[d] \in {"sync_ack", "error"})'
  BY <1>3, <1>4, <1>5 DEF SyncInv
<1>7. \A d \in CCE, k, j \in LCE : (UnderWay(d, k) /\ UnderWay(d, j))' => k = j
  BY <1>3 DEF SyncInv
<1>8. \A d \in CCE :
       /\ (cceState[d] \in {"clear_dir", "uncached_only"} => synced[d] = {})'
       /\ (cceState[d] \in {"send_sync", "sync_ack"} =>
             \A k \in LCE : k \in synced[d] => Past(k) \/ UnderWay(d, k))'
       /\ (InService(d) => \A k \in LCE : Past(k))'
  BY <1>3, <1>4, <1>5 DEF SyncInv, InService
<1>9. QED
  BY <1>6, <1>7, <1>8 DEF SyncInv

(* e_send_sync opens the one conversation.                                 *)
LEMMA SyncSendStep ==
  ASSUME IInv, SyncInv, NEW c \in CCE, NEW l \in LCE, CceSendSync(c, l)
  PROVE  SyncInv'
<1>1. /\ cceState[c] = "send_sync"
      /\ cceState' = [cceState EXCEPT ![c] = "sync_ack"]
      /\ synced' = [synced EXCEPT ![c] = synced[c] \cup {l}]
      /\ \A d \in CCE, k \in LCE :
           /\ SyncSent(d, k)' <=> SyncSent(d, k) \/ (d = c /\ k = l)
           /\ SyncHeld(d, k)' <=> SyncHeld(d, k)
           /\ SyncDone(d, k)' <=> SyncDone(d, k)
           /\ Past(k)' <=> Past(k)
  BY DEF CceSendSync, SendCmd, Goto, SyncSent, SyncHeld, SyncDone, Past,
    Holds, lceVars
<1>2. \A k \in LCE : ~UnderWay(c, k)
  BY <1>1 DEF SyncInv
<1>3. \A d \in CCE, k \in LCE :
        UnderWay(d, k)' <=> UnderWay(d, k) \/ (d = c /\ k = l)
  BY <1>1 DEF UnderWay
<1>4. QED
  BY <1>1, <1>2 DEF SyncInv, InService, UnderWay, IInv, CceOK, CceTypeOK

(* e_sync_ack closes it: the cache that answered is past its start-up, so  *)
(* when all have been counted all are.                                     *)
LEMMA SyncAckStep ==
  ASSUME IInv, SyncInv, NEW c \in CCE, CceSyncAck(c)
  PROVE  SyncInv'
<1>1. PICK m \in respNet :
        /\ m.dst = c /\ respNet' = respNet \ {m}
        /\ cceState[c] = "sync_ack"
        /\ cceState' = [cceState EXCEPT ![c] =
             IF m.type # "sync_ack" THEN "error"
             ELSE IF synced[c] = LCE THEN "ready" ELSE "send_sync"]
        /\ synced' = [synced EXCEPT ![c] = IF @ = LCE THEN {} ELSE @]
        /\ UNCHANGED <<lceState, lceCmd, cmdNet>>
  BY DEF CceSyncAck, TakeResp, Goto, lceVars
<1>2. m \in Response
  BY DEF IInv, NetTypeOK
<1>3. CASE m.type # "sync_ack"
  <2>1. \A d \in CCE, k \in LCE :
           /\ SyncSent(d, k)' <=> SyncSent(d, k)
           /\ SyncHeld(d, k)' <=> SyncHeld(d, k)
           /\ SyncDone(d, k)' <=> SyncDone(d, k)
           /\ Past(k)' <=> Past(k)
           /\ UnderWay(d, k)' <=> UnderWay(d, k)
    BY <1>1, <1>3 DEF SyncSent, SyncHeld, SyncDone, Past, Holds, UnderWay
  <2>2. QED
    BY <1>1, <1>3, <2>1 DEF SyncInv, InService
<1>4. CASE m.type = "sync_ack"
  <2> DEFINE l == m.src
  <2>1. m = [type |-> "sync_ack", src |-> l, dst |-> c] /\ l \in LCE
    BY <1>1, <1>2, <1>4 DEF Response
  <2> HIDE DEF l
  <2>2. SyncDone(c, l)
    BY <2>1 DEF SyncDone
  <2>3. \A d \in CCE, k \in LCE :
           /\ SyncSent(d, k)' <=> SyncSent(d, k)
           /\ SyncHeld(d, k)' <=> SyncHeld(d, k)
           /\ SyncDone(d, k)' <=> SyncDone(d, k) /\ (d # c \/ k # l)
           /\ Past(k)' <=> Past(k)
    BY <1>1, <2>1 DEF SyncSent, SyncHeld, SyncDone, Past, Holds
  <2>4. \A k \in LCE : UnderWay(c, k) => k = l
    BY <2>1, <2>2 DEF SyncInv, UnderWay
  <2>5. \A k \in LCE : ~UnderWay(c, k)'
    BY <2>2, <2>3, <2>4 DEF SyncInv, UnderWay
  <2>6. \A d \in CCE, k \in LCE : UnderWay(d, k)' => UnderWay(d, k)
    BY <2>3 DEF UnderWay
  <2>7. \A d \in CCE, k \in LCE : d # c => (UnderWay(d, k)' <=> UnderWay(d, k))
    BY <2>3 DEF UnderWay
  <2>8. \A k \in LCE : k \in synced[c] => Past(k)
    BY <1>1, <2>2, <2>4 DEF SyncInv
  <2>9. QED
    BY <1>1, <2>3, <2>5, <2>7, <2>8 DEF SyncInv, InService
<1>5. QED
  BY <1>3, <1>4

(* A cache reads a command only when it is ready, past its start-up.       *)
LEMMA SyncHeadStep ==
  ASSUME IInv, SyncInv, NEW l \in LCE, LceHead(l)
  PROVE  SyncInv'
<1>1. PICK m \in cmdNet :
        /\ m.dst = l /\ lceState[l] = "ready" /\ lceCmd[l] = None
        /\ lceCmd' = [lceCmd EXCEPT ![l] = m]
        /\ cmdNet' = cmdNet \ {m}
        /\ UNCHANGED <<cceState, synced, lceState, respNet>>
  BY DEF LceHead, cceVars
<1>2. m \in Command
  BY DEF IInv, NetTypeOK
<1>3. lceCmd'[l] = m /\ \A k \in LCE : k # l => lceCmd'[k] = lceCmd[k]
  BY <1>1 DEF IInv, LceOK, LceTypeOK
<1>4. \A d \in CCE, k \in LCE :
        /\ ~SyncHeld(d, l)
        /\ SyncDone(d, k)' <=> SyncDone(d, k)
        /\ Past(k)' <=> Past(k)
        /\ k # l => (SyncHeld(d, k)' <=> SyncHeld(d, k))
  BY <1>1 DEF SyncHeld, Holds, SyncDone, Past
<1>5. Past(l)
  BY <1>1 DEF Past
<1>6. CASE m.type # "sync"
  <2>1. \A d \in CCE, k \in LCE : SyncSent(d, k)' <=> SyncSent(d, k)
    BY <1>1, <1>6 DEF SyncSent
  <2>2. \A d \in CCE : ~SyncHeld(d, l)'
    BY <1>3, <1>6 DEF SyncHeld, Holds
  <2>3. \A d \in CCE, k \in LCE : SyncHeld(d, k)' <=> SyncHeld(d, k)
    <3> TAKE d \in CCE, k \in LCE
    <3>1. CASE k = l
      BY <1>4, <2>2
    <3>2. CASE k # l
      BY <1>4, <3>2
    <3>3. QED
      BY <3>1, <3>2
  <2>5. Ordinary
    <3>1. \A d \in CCE : cceState'[d] = cceState[d]
      BY <1>1
    <3>2. synced' = synced
      BY <1>1
    <3>3. \A d \in CCE, k \in LCE : SyncDone(d, k)' <=> SyncDone(d, k)
      BY <1>4
    <3>4. \A k \in LCE : Past(k) => Past(k)'
      BY <1>1 DEF Past
    <3>5. QED
      BY <2>1, <2>3, <3>1, <3>2, <3>3, <3>4 DEF Ordinary
  <2>6. QED
    BY <2>5, OrdinaryOK
<1>7. CASE m.type = "sync"
  <2> DEFINE c == m.src
  <2>1. m = [type |-> "sync", src |-> c, dst |-> l] /\ c \in CCE
    BY <1>1, <1>2, <1>7 DEF Command
  <2> HIDE DEF c
  <2>2. SyncSent(c, l)
    BY <2>1 DEF SyncSent
  <2>3. \A d \in CCE, k \in LCE :
           SyncSent(d, k)' <=> SyncSent(d, k) /\ (d # c \/ k # l)
    BY <1>1, <2>1 DEF SyncSent
  <2>4. \A d \in CCE : SyncHeld(d, l)' => d = c
    BY <1>3, <2>1 DEF SyncHeld
  <2>5. \A d \in CCE, k \in LCE :
           /\ UnderWay(d, k)' => UnderWay(d, k)
           /\ UnderWay(d, k) => UnderWay(d, k)' \/ k = l
    BY <1>4, <2>2, <2>3, <2>4 DEF UnderWay
  <2>6. \A d \in CCE, k \in LCE :
       /\ (SyncHeld(d, k) \/ SyncDone(d, k) => Past(k))'
       /\ ~(SyncSent(d, k) /\ SyncHeld(d, k))'
       /\ ~(SyncSent(d, k) /\ SyncDone(d, k))'
       /\ ~(SyncHeld(d, k) /\ SyncDone(d, k))'
    BY <1>4, <1>5, <2>2, <2>3, <2>4 DEF SyncInv
  <2>7. \A d \in CCE, k \in LCE :
           (UnderWay(d, k) => cceState[d] \in {"sync_ack", "error"})'
    BY <1>1, <2>5 DEF SyncInv
  <2>8. \A d \in CCE, k, j \in LCE :
          (UnderWay(d, k) /\ UnderWay(d, j))' => k = j
    BY <2>5 DEF SyncInv
  <2>9. \A d \in CCE :
       /\ (cceState[d] \in {"clear_dir", "uncached_only"} => synced[d] = {})'
       /\ (cceState[d] \in {"send_sync", "sync_ack"} =>
             \A k \in LCE : k \in synced[d] => Past(k) \/ UnderWay(d, k))'
       /\ (InService(d) => \A k \in LCE : Past(k))'
    BY <1>1, <1>4, <1>5, <2>5 DEF SyncInv, InService
  <2>10. QED
    BY <2>6, <2>7, <2>8, <2>9 DEF SyncInv
<1>8. QED
  BY <1>6, <1>7

(* The cache answers the sync: the conversation changes form.              *)
LEMMA SyncSyncStep ==
  ASSUME IInv, SyncInv, NEW l \in LCE, LceSync(l)
  PROVE  SyncInv'
<1> DEFINE c == lceCmd[l].src
<1>1. /\ lceState[l] = "ready" /\ Holds(l, {"sync"})
      /\ respNet' = respNet \cup {[type |-> "sync_ack", src |-> l, dst |-> c]}
      /\ lceCmd' = [lceCmd EXCEPT ![l] = None]
      /\ UNCHANGED <<cceState, synced, lceState, cmdNet>>
  BY DEF LceSync, Respond, Dequeue, cceVars
<1>2. c \in CCE
  BY <1>1, CommandFields DEF Holds, IInv, LceOK, LceTypeOK
<1>3. lceCmd'[l] = None /\ \A k \in LCE : k # l => lceCmd'[k] = lceCmd[k]
  BY <1>1 DEF IInv, LceOK, LceTypeOK
<1>4. SyncHeld(c, l)
  BY <1>1 DEF SyncHeld
<1> HIDE DEF c
<1>5. \A d \in CCE, k \in LCE :
        /\ Past(k)' <=> Past(k)
        /\ SyncSent(d, k)' <=> SyncSent(d, k)
        /\ SyncDone(d, k)' <=> SyncDone(d, k) \/ (d = c /\ k = l)
        /\ k # l => (SyncHeld(d, k)' <=> SyncHeld(d, k))
        /\ ~SyncHeld(d, l)'
  BY <1>1, <1>3 DEF SyncHeld, Holds, SyncSent, SyncDone, Past
<1>6. Past(l)
  BY <1>1 DEF Past
<1>7. \A d \in CCE : SyncHeld(d, l) => d = c
  BY DEF SyncHeld, c
<1>8. \A d \in CCE, k \in LCE : UnderWay(d, k)' <=> UnderWay(d, k)
  BY <1>4, <1>5, <1>7 DEF UnderWay
<1>9. \A d \in CCE, k \in LCE :
       /\ (SyncHeld(d, k) \/ SyncDone(d, k) => Past(k))'
       /\ ~(SyncSent(d, k) /\ SyncHeld(d, k))'
       /\ ~(SyncSent(d, k) /\ SyncDone(d, k))'
       /\ ~(SyncHeld(d, k) /\ SyncDone(d, k))'
  BY <1>4, <1>5 DEF SyncInv
<1>10. \A d \in CCE, k \in LCE :
           (UnderWay(d, k) => cceState[d] \in {"sync_ack", "error"})'
  BY <1>1, <1>8 DEF SyncInv
<1>11. \A d \in CCE, k, j \in LCE :
         (UnderWay(d, k) /\ UnderWay(d, j))' => k = j
  BY <1>8 DEF SyncInv
<1>12. \A d \in CCE :
       /\ (cceState[d] \in {"clear_dir", "uncached_only"} => synced[d] = {})'
       /\ (cceState[d] \in {"send_sync", "sync_ack"} =>
             \A k \in LCE : k \in synced[d] => Past(k) \/ UnderWay(d, k))'
       /\ (InService(d) => \A k \in LCE : Past(k))'
  BY <1>1, <1>5, <1>8 DEF SyncInv, InService
<1>13. QED
  BY <1>9, <1>10, <1>11, <1>12 DEF SyncInv

(* Initially nothing is under way.                                         *)
LEMMA SyncInit == Init => SyncInv
<1> SUFFICES ASSUME Init
             PROVE  SyncInv
  OBVIOUS
<1>1. /\ cmdNet = {} /\ respNet = {}
      /\ \A l \in LCE : lceCmd[l] = None
      /\ \A c \in CCE : cceState[c] = "reset"
  BY DEF Init, CceInit, LceInit
<1>2. \A c \in CCE, l \in LCE :
        /\ ~SyncSent(c, l) /\ ~SyncHeld(c, l)
        /\ ~SyncDone(c, l) /\ ~UnderWay(c, l)
  BY <1>1 DEF SyncSent, SyncHeld, SyncDone, UnderWay, Holds
<1>3. QED
  BY <1>1, <1>2 DEF SyncInv, InService

(* A step that changes nothing keeps the invariant.                        *)
LEMMA SyncStutter == ASSUME SyncInv, UNCHANGED vars PROVE SyncInv'
<1>1. Ordinary
  BY DEF vars, cceVars, lceVars, netVars, Ordinary, SyncSent, SyncHeld,
    SyncDone, Past, Holds
<1>2. QED
  BY <1>1, OrdinaryOK

(* Every step of an engine keeps it.                                       *)
LEMMA SyncCce ==
  ASSUME IInv, SyncInv, NEW c \in CCE, CceStep(c)
  PROVE  SyncInv'
<1>1. CASE CceReset(c) \/ CceClearDir(c) \/ CceLeaveUncached(c)
  BY <1>1, SyncResetStep
<1>2. CASE CceSyncAck(c)
  BY <1>2, SyncAckStep
<1>3. CASE \E l \in LCE : CceSendSync(c, l)
  BY <1>3, SyncSendStep
<1>4. CASE \/ ConfigNormal(c) \/ CceUcReq(c) \/ CceReadPending(c)
           \/ CceDeqReq(c) \/ CceReadMemSpec(c) \/ CceReadDir(c)
           \/ CceWriteNextState(c) \/ CceReplacement(c)
           \/ CceReplacementWbResp(c) \/ CceInvCmd(c) \/ CceInvAck(c)
           \/ CceUpgrade(c) \/ CceTransfer(c) \/ CceTransferWbResp(c)
           \/ CceResolve(c) \/ MemRespStep(c) \/ CohAck(c)
           \/ \E l \in LCE : CceReady(c, l) \/ CceUncachedOnly(c, l)
  <2>1. Ordinary
    BY <1>4, CceOrdinary
  <2>2. QED
    BY <2>1, OrdinaryOK
<1>5. QED
  BY <1>1, <1>2, <1>3, <1>4 DEF CceStep, CceFsmStep

(* Every step of a cache and its core keeps it.                            *)
LEMMA SyncLce ==
  ASSUME IInv, SyncInv, NEW l \in LCE, LceStep(l)
  PROVE  SyncInv'
<1>1. CASE LceHead(l)
  BY <1>1, SyncHeadStep
<1>2. CASE LceSync(l)
  BY <1>2, SyncSyncStep
<1>3. CASE ~LceHead(l) /\ ~LceSync(l)
  <2>1. Ordinary
    BY <1>3, LceOrdinary DEF LceStep, LceCmdStep
  <2>2. QED
    BY <2>1, OrdinaryOK
<1>4. QED
  BY <1>1, <1>2, <1>3

(* The conversations stay in order in every configuration.                 *)
THEOREM SyncInvariant == Spec => []SyncInv
<1>1. Init => SyncInv
  BY SyncInit
<1>2. IInv /\ SyncInv /\ [Next]_vars => SyncInv'
  BY SyncCce, SyncLce, SyncStutter DEF Next
<1>3. QED
  BY <1>1, <1>2, TypesInvariant, PTL DEF Spec

(* The synchronisation does what it is for: no engine serves a cached      *)
(* request before every cache has cleared its tags, whatever the order in  *)
(* which engines and caches leave reset.                                   *)
THEOREM StartupCorrect == Spec => []StartupOrder
<1>1. SyncInv => StartupOrder
  BY DEF SyncInv, StartupOrder, Past
<1>2. QED
  BY <1>1, SyncInvariant, PTL
=============================================================================
