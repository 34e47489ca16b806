------------------------------- MODULE LceFsm -------------------------------
(***************************************************************************)
(* The local cache engine with the cache it serves: the commands           *)
(* bp_lce_cmd.v executes on the tag, data and stat memories, the requests  *)
(* bp_lce_req.v sends, and the loads and stores that hit in the cache.     *)
(*                                                                         *)
(* The head of lce_cmd_i is dequeued when its command is done; the model   *)
(* moves it from the network into lceCmd when it becomes the head.         *)
(***************************************************************************)
EXTENDS BedRock

LceGoto(l, s) == lceState' = [lceState EXCEPT ![l] = s]
Holds(l, types) == lceCmd[l] # None /\ lceCmd[l].type \in types
Dequeue(l) == lceCmd' = [lceCmd EXCEPT ![l] = None]

Respond(m) == m \notin respNet /\ respNet' = respNet \cup {m}
CmdResp(l, type) ==
  [type |-> type, src |-> l, dst |-> lceCmd[l].src, addr |-> lceCmd[l].addr]

(* Mutated form of CmdFrame: the way of the payload is ignored.            *)
CmdFrameAnyWay(l) == FrameOf(lceCmd[l].addr, CHOOSE w \in Way : TRUE)

CmdFrame(l) == FrameOf(lceCmd[l].addr, lceCmd[l].way)

SetState(l, st)  == tag' = [tag EXCEPT ![l][CmdFrame(l)].st = st]
SetTag(l) ==
  tag' = [tag EXCEPT ![l][CmdFrame(l)] =
            [blk |-> lceCmd[l].addr, st |-> lceCmd[l].st]]
WriteData(l)  == line' = [line EXCEPT ![l][CmdFrame(l)] = lceCmd[l].data]
ReadData(l)   == dataBuf' = [dataBuf EXCEPT ![l] = line[l][CmdFrame(l)]]
ClearDirty(l) == dirty' = [dirty EXCEPT ![l][CmdFrame(l)] = FALSE]

(* Mutated form of Complete: an uncached load is to be tried again too.    *)
CompleteToReplay(l) ==
  /\ miss' = [miss EXCEPT ![l].phase = "replay"]
  /\ credit' = [credit EXCEPT ![l] = @ - 1]

(* cache_req_complete_o: the cache stops waiting, a credit comes back.     *)
Complete(l) ==
  /\ miss' = [miss EXCEPT ![l] = IF @.op = "uc_rd" THEN NoMiss
                                 ELSE [@ EXCEPT !.phase = "replay"]]
  /\ credit' = [credit EXCEPT ![l] = @ - 1]

(* cache_lock holds the engine off the memories until the access that      *)
(* missed has been tried again.                                            *)
Executes(l, types) ==
  lceState[l] = "ready" /\ Holds(l, types) /\ miss[l].phase # "replay"

----------------------------------------------------------------------------
(* Initialisation of the cache; the loop over the sets is one step.        *)

LceReset(l) ==
  /\ lceState[l] = "reset" /\ LceGoto(l, "clear")
  /\ UNCHANGED <<cceVars, dirVars, memVars, cacheVars, lceCmd, dataBuf, coreVars,
                 netVars, latest>>

LceClear(l) ==
  /\ lceState[l] = "clear" /\ LceGoto(l, "ready")
  /\ tag' = [tag EXCEPT ![l] = [f \in Frame |-> [blk |-> @[f].blk, st |-> "I"]]]
  /\ dirty' = [dirty EXCEPT ![l] = [f \in Frame |-> FALSE]]
  /\ UNCHANGED <<cceVars, dirVars, memVars, line, lceCmd, dataBuf, coreVars,
                 netVars, latest>>

LceHead(l) ==
  /\ lceState[l] = "ready" /\ lceCmd[l] = None
  /\ \E m \in cmdNet : /\ m.dst = l
                       /\ lceCmd' = [lceCmd EXCEPT ![l] = m]
                       /\ cmdNet' = cmdNet \ {m}
  /\ UNCHANGED <<cceVars, dirVars, memVars, cacheVars, lceState, dataBuf,
                 coreVars, reqNet, respNet, latest>>

----------------------------------------------------------------------------
(* Commands, as e_ready of bp_lce_cmd handles them.                        *)

LceSync(l) ==
  /\ lceState[l] = "ready" /\ Holds(l, {"sync"})
  /\ Respond([type |-> "sync_ack", src |-> l, dst |-> lceCmd[l].src])
  /\ Dequeue(l)
  /\ UNCHANGED <<cceVars, dirVars, memVars, cacheVars, lceState, dataBuf,
                 coreVars, reqNet, cmdNet, latest>>

LceInv(l) ==
  /\ Executes(l, {"inv"})
  /\ SetState(l, "I")
  /\ Respond(CmdResp(l, "inv_ack"))
  /\ Dequeue(l)
  /\ UNCHANGED <<cceVars, dirVars, memVars, line, dirty, lceState, dataBuf,
                 coreVars, reqNet, cmdNet, latest>>

LceData(l) ==
  /\ Executes(l, {"data"})
  /\ SetTag(l) /\ WriteData(l)
  /\ LceGoto(l, "coh_ack")
  /\ UNCHANGED <<cceVars, dirVars, memVars, dirty, lceCmd, dataBuf, coreVars,
                 netVars, latest>>

LceStWakeup(l) ==
  /\ Executes(l, {"st_wakeup"})
  /\ SetState(l, lceCmd[l].st)
  /\ LceGoto(l, "coh_ack")
  /\ UNCHANGED <<cceVars, dirVars, memVars, line, dirty, lceCmd, dataBuf,
                 coreVars, netVars, latest>>

(* The dirty bit is read with the state written, the data only later.      *)
LceStWb(l) ==
  /\ Executes(l, {"st_wb"})
  /\ SetState(l, lceCmd[l].st)
  /\ LceGoto(l, "wb")
  /\ UNCHANGED <<cceVars, dirVars, memVars, line, dirty, lceCmd, dataBuf,
                 coreVars, netVars, latest>>

(* The stat memory may refuse the clearing of the dirty bit while an       *)
(* access of the core is in its last stage; the engine does not wait.      *)
LceStTr(l) ==
  /\ Executes(l, {"st_tr", "st_tr_wb"})
  /\ SetState(l, lceCmd[l].st)
  /\ ReadData(l)
  /\ \/ lceCmd[l].type = "st_tr" /\ lceCmd[l].st = "I" /\ ClearDirty(l)
     \/ UNCHANGED dirty
  /\ LceGoto(l, "tr")
  /\ UNCHANGED <<cceVars, dirVars, memVars, line, lceCmd, coreVars, netVars,
                 latest>>

(* The memories grant their ports one by one: a command that needs several *)
(* is repeated until all are granted together, but each grant takes effect.*)
LceTagOnly(l) ==
  /\ \/ Executes(l, {"inv"}) /\ SetState(l, "I")
     \/ Executes(l, {"st_wb", "st_tr", "st_tr_wb"}) /\ SetState(l, lceCmd[l].st)
     \/ Executes(l, {"data"}) /\ SetTag(l)
  /\ UNCHANGED <<cceVars, dirVars, memVars, line, dirty, lceVars, coreVars,
                 netVars, latest>>

LceDataOnly(l) ==
  /\ Executes(l, {"data"})
  /\ WriteData(l)
  /\ UNCHANGED <<cceVars, dirVars, memVars, tag, dirty, lceVars, coreVars,
                 netVars, latest>>

LceStatOnly(l) ==
  /\ Executes(l, {"st_tr"}) /\ lceCmd[l].st = "I"
  /\ ClearDirty(l)
  /\ UNCHANGED <<cceVars, dirVars, memVars, tag, line, lceVars, coreVars,
                 netVars, latest>>

(* Mutated form of LceUcStDone: the credit is not returned.                *)
LceUcStDoneNoCredit(l) ==
  /\ lceState[l] = "ready" /\ Holds(l, {"uc_st_done"})
  /\ Dequeue(l)
  /\ UNCHANGED <<cceVars, dirVars, memVars, cacheVars, lceState, dataBuf,
                 coreVars, netVars, latest>>

LceUcStDone(l) ==
  /\ lceState[l] = "ready" /\ Holds(l, {"uc_st_done"})
  /\ Dequeue(l)
  /\ credit' = [credit EXCEPT ![l] = @ - 1]
  /\ UNCHANGED <<cceVars, dirVars, memVars, cacheVars, lceState, dataBuf, miss,
                 netVars, latest>>

LceUcData(l) ==
  /\ Executes(l, {"uc_data"})
  /\ Dequeue(l) /\ Complete(l)
  /\ UNCHANGED <<cceVars, dirVars, memVars, cacheVars, lceState, dataBuf,
                 netVars, latest>>

----------------------------------------------------------------------------
(* The later states of bp_lce_cmd.                                         *)

LceCohAck(l) ==
  /\ lceState[l] = "coh_ack"
  /\ Respond(CmdResp(l, "coh_ack"))
  /\ Dequeue(l) /\ Complete(l)
  /\ LceGoto(l, "ready")
  /\ UNCHANGED <<cceVars, dirVars, memVars, cacheVars, dataBuf, reqNet, cmdNet,
                 latest>>

(* The block goes straight to the cache that asked for it, which will      *)
(* acknowledge to the CCE the transfer command came from.                  *)
LceTr(l) ==
  /\ lceState[l] = "tr"
  /\ LET c == lceCmd[l]
         m == [type |-> "data", src |-> c.src, dst |-> c.target,
               addr |-> c.addr, way |-> c.targetWay, st |-> c.targetSt,
               data |-> dataBuf[l]]
     IN  /\ m \notin cmdNet /\ cmdNet' = cmdNet \cup {m}
         /\ IF c.type = "st_tr_wb"
            THEN LceGoto(l, "wb_stat_rd") /\ UNCHANGED lceCmd
            ELSE LceGoto(l, "ready") /\ Dequeue(l)
  /\ UNCHANGED <<cceVars, dirVars, memVars, cacheVars, dataBuf, coreVars, reqNet,
                 respNet, latest>>

(* e_wb_stat_rd reads the dirty bit, e_wb acts on the copy it reads.  The  *)
(* frame is no longer writable by then, so the bit cannot change between.  *)
LceWbStatRd(l) ==
  /\ lceState[l] = "wb_stat_rd" /\ LceGoto(l, "wb")
  /\ UNCHANGED <<cceVars, dirVars, memVars, cacheVars, lceCmd, dataBuf, coreVars,
                 netVars, latest>>

LceWb(l) ==
  /\ lceState[l] = "wb"
  /\ IF dirty[l][CmdFrame(l)]
     THEN LceGoto(l, "wb_dirty_rd") /\ UNCHANGED <<lceCmd, respNet>>
     ELSE /\ Respond(CmdResp(l, "null_wb"))
          /\ LceGoto(l, "ready") /\ Dequeue(l)
  /\ UNCHANGED <<cceVars, dirVars, memVars, cacheVars, dataBuf, coreVars, reqNet,
                 cmdNet, latest>>

(* Mutated form of LceWbDirtyRd: the buffer keeps what a transfer left.    *)
LceWbDirtyRdReuse(l) ==
  /\ lceState[l] = "wb_dirty_rd"
  /\ ClearDirty(l)
  /\ LceGoto(l, "wb_dirty_send")
  /\ UNCHANGED <<cceVars, dirVars, memVars, tag, line, lceCmd, dataBuf, coreVars,
                 netVars, latest>>

LceWbDirtyRd(l) ==
  /\ lceState[l] = "wb_dirty_rd"
  /\ ReadData(l) /\ ClearDirty(l)
  /\ LceGoto(l, "wb_dirty_send")
  /\ UNCHANGED <<cceVars, dirVars, memVars, tag, line, lceCmd, coreVars, netVars,
                 latest>>

LceWbDirtySend(l) ==
  /\ lceState[l] = "wb_dirty_send"
  /\ Respond([type |-> "wb", src |-> l, dst |-> lceCmd[l].src,
              addr |-> lceCmd[l].addr, data |-> dataBuf[l]])
  /\ LceGoto(l, "ready") /\ Dequeue(l)
  /\ UNCHANGED <<cceVars, dirVars, memVars, cacheVars, dataBuf, coreVars, reqNet,
                 cmdNet, latest>>

----------------------------------------------------------------------------
(* The core's accesses and the requests of bp_lce_req.                     *)

(* cache_req_ready_o and ready_o of the cache, which blocks on a miss.     *)
CacheReady(l) ==
  /\ lceState[l] \notin {"reset", "clear"}
  /\ miss[l].phase = "idle" /\ credit[l] < LceCredits

Hit(l, b, w, sts) ==
  /\ lceState[l] \notin {"reset", "clear"}
  /\ tag[l][FrameOf(b, w)].blk = b /\ tag[l][FrameOf(b, w)].st \in sts

Permits(l, b, sts) == \E w \in Way : Hit(l, b, w, sts)

(* A load-reserved asks for the block as a store does (lr_miss_tv).        *)
Needs(op) == IF op = "rd" THEN Valid ELSE Owned

(* A store hits in E as in M and leaves the state alone: only the dirty    *)
(* bit tells.                                                              *)
Store(l, b, w, d) ==
  /\ Hit(l, b, w, Owned)
  /\ line' = [line EXCEPT ![l][FrameOf(b, w)] = d]
  /\ dirty' = [dirty EXCEPT ![l][FrameOf(b, w)] = TRUE]
  /\ latest' = [latest EXCEPT ![b] = d]

CoreStore(l, b, w, d) ==
  /\ CacheReady(l) /\ l \notin ReadOnlyLCE /\ "wr" \in CoreOps
  /\ Store(l, b, w, d)
  /\ UNCHANGED <<cceVars, dirVars, memVars, tag, lceVars, coreVars, netVars>>

(* The access that missed hits; only a store changes the cache.            *)
CoreReplay(l) ==
  /\ miss[l].phase = "replay"
  /\ \E w \in Way :
       IF miss[l].op = "wr"
       THEN \E d \in Data : Store(l, miss[l].addr, w, d)
       ELSE /\ Hit(l, miss[l].addr, w, Needs(miss[l].op))
            /\ UNCHANGED <<line, dirty, latest>>
  /\ miss' = [miss EXCEPT ![l] = NoMiss]
  /\ UNCHANGED <<cceVars, dirVars, memVars, tag, lceVars, credit, netVars>>

(* The lock ends after lock_max_limit_p cycles, replayed or not: the core  *)
(* may have taken an interrupt instead.                                    *)
LockExpire(l) ==
  /\ LockMayExpire /\ miss[l].phase = "replay"
  /\ miss' = [miss EXCEPT ![l] = NoMiss]
  /\ UNCHANGED <<cceVars, dirVars, memVars, cacheVars, lceVars, credit, netVars,
                 latest>>

(* A load-reserved without any copy is a load miss: it asks to read.       *)
MissOp(l, b, op) ==
  IF op = "lr" /\ ~Permits(l, b, Needs("rd")) THEN "rd" ELSE op

(* The victim is any way.  The cache prefers an invalid one, but names it  *)
(* a cycle after the miss, from the tags of the access that came behind.   *)
CoreMiss(l, b, op, w) ==
  /\ CacheReady(l) /\ (op # "rd" => l \notin ReadOnlyLCE)
  /\ ~Permits(l, b, Needs(op))
  /\ miss' = [miss EXCEPT ![l] = [phase |-> "send", op |-> MissOp(l, b, op),
                                  addr |-> b, lru |-> w]]
  /\ UNCHANGED <<cceVars, dirVars, memVars, cacheVars, lceVars, credit, netVars,
                 latest>>

CoreUcLoad(l, a) ==
  /\ CacheReady(l)
  /\ miss' = [miss EXCEPT ![l] = [NoMiss EXCEPT !.phase = "send",
                                                !.op = "uc_rd", !.addr = a]]
  /\ UNCHANGED <<cceVars, dirVars, memVars, cacheVars, lceVars, credit, netVars,
                 latest>>

SendReq(l, r) ==
  /\ reqNet' = [reqNet EXCEPT ![<<l, Home(r.addr)>>] = Append(@, r)]
  /\ credit' = [credit EXCEPT ![l] = @ + 1]

(* An uncached store is sent at once and the core goes on.                 *)
CoreUcStore(l, a, d) ==
  /\ CacheReady(l) /\ l \notin ReadOnlyLCE
  /\ SendReq(l, [op |-> "uc_wr", src |-> l, addr |-> a, data |-> d])
  /\ UNCHANGED <<cceVars, dirVars, memVars, cacheVars, lceVars, miss, cmdNet,
                 respNet, latest>>

LceSendReq(l) ==
  /\ miss[l].phase = "send"
  /\ LET m == miss[l] IN
       SendReq(l, IF m.op = "uc_rd"
                  THEN [op |-> m.op, src |-> l, addr |-> m.addr,
                        data |-> InitData]
                  ELSE [op |-> IF m.op = "rd" THEN "rd" ELSE "wr", src |-> l,
                        addr |-> m.addr, lru |-> m.lru,
                        nonExcl |-> m.op = "rd" /\ l \in ReadOnlyLCE])
  /\ miss' = [miss EXCEPT ![l].phase = "sent"]
  /\ UNCHANGED <<cceVars, dirVars, memVars, cacheVars, lceVars, cmdNet, respNet,
                 latest>>

----------------------------------------------------------------------------
(* An array powers up with one arbitrary content in all its entries.       *)
LceInit ==
  /\ lceState = [l \in LCE |-> "reset"]
  /\ lceCmd = [l \in LCE |-> None]
  /\ dataBuf = [l \in LCE |-> InitData]
  /\ miss = [l \in LCE |-> NoMiss]
  /\ credit = [l \in LCE |-> 0]
  /\ \E x \in Line : tag = [l \in LCE |-> [f \in Frame |-> x]]
  /\ line = [l \in LCE |-> [f \in Frame |-> InitData]]
  /\ \E x \in BOOLEAN : dirty = [l \in LCE |-> [f \in Frame |-> x]]

LceCmdStep(l) ==
  \/ LceReset(l) \/ LceClear(l) \/ LceHead(l) \/ LceSync(l) \/ LceInv(l)
  \/ LceData(l) \/ LceStWakeup(l) \/ LceStWb(l) \/ LceStTr(l)
  \/ LceUcStDone(l) \/ LceUcData(l) \/ LceCohAck(l) \/ LceTr(l)
  \/ LceWbStatRd(l) \/ LceWb(l) \/ LceWbDirtyRd(l) \/ LceWbDirtySend(l)

LcePartialStep(l) == LceTagOnly(l) \/ LceDataOnly(l) \/ LceStatOnly(l)

CoreStep(l) ==
  \/ \E b \in Block, w \in Way :
       \/ \E d \in Data : CoreStore(l, b, w, d)
       \/ \E op \in CoreOps : CoreMiss(l, b, op, w)
  \/ \E a \in IoBlock : CoreUcLoad(l, a) \/ \E d \in Data : CoreUcStore(l, a, d)

LceStep(l) ==
  \/ LceCmdStep(l) \/ LcePartialStep(l) \/ LceSendReq(l)
  \/ CoreStep(l) \/ CoreReplay(l) \/ LockExpire(l)
=============================================================================
