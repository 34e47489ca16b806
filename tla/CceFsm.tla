------------------------------- MODULE CceFsm -------------------------------
(***************************************************************************)
(* The fixed-function coherence engine, bp_cce_fsm.v: one action per state *)
(* of its FSM, and the logic that forwards memory responses and retires    *)
(* coherence acknowledgements beside it.  When both want the command port  *)
(* or the pending bits in one cycle the FSM stalls; here it goes second.   *)
(***************************************************************************)
EXTENDS CceDirectory

Goto(c, s) == cceState' = [cceState EXCEPT ![c] = s]

(* Mutated form of PendingDec: the port was busy and the write got lost.   *)
PendingDecLost(s) == UNCHANGED pending

(* bp_cce_pending_bits: 3-bit counters that wrap.                          *)
PendingInc(s) == pending' = [pending EXCEPT ![s] = (@ + 1) % 8]
PendingDec(s) == pending' = [pending EXCEPT ![s] = (@ - 1) % 8]

(* Mutated form of TakeResp: the response is not dequeued.                 *)
TakeRespTwice(m) == m \in respNet /\ UNCHANGED respNet

(* A network that already holds an equal message is not ready for another. *)
SendCmd(m)  == m \notin cmdNet /\ cmdNet' = cmdNet \cup {m}
TakeResp(m) == respNet' = respNet \ {m}

(* A memory command takes a credit.  The memory serves one CCE in order,   *)
(* so the model serves a command when it is sent and queues its response.  *)
MemCommand(c, resp) ==
  /\ memCredit[c] < MemCredits
  /\ memCredit' = [memCredit EXCEPT ![c] = @ + 1]
  /\ memResp' = [memResp EXCEPT ![c] = Append(@, resp)]

MemDequeue(c) ==
  /\ memResp' = [memResp EXCEPT ![c] = Tail(@)]
  /\ memCredit' = [memCredit EXCEPT ![c] = @ - 1]
  /\ UNCHANGED mem

UncachedAccess(c, r) ==
  IF r.op = "uc_wr"
  THEN /\ MemCommand(c, [type |-> "uc_wr", addr |-> r.addr, lce |-> r.src])
       /\ mem' = [mem EXCEPT ![r.addr] = r.data]
  ELSE /\ MemCommand(c, [type |-> "uc_rd", addr |-> r.addr, lce |-> r.src,
                         data |-> mem[r.addr]])
       /\ UNCHANGED mem

----------------------------------------------------------------------------
(* Memory responses, forwarded whatever the FSM does.                      *)

IsSpeculative(r) == r.type = "rd"      \* the FSM reads only speculatively
RespHead(c)      == Head(memResp[c])

FillCmd(c, r, st) ==
  [type |-> "data", src |-> c, dst |-> r.lce, addr |-> r.addr,
   way |-> r.way, st |-> st, data |-> r.data]

MemRespSquash(c) ==
  /\ memResp[c] # <<>> /\ IsSpeculative(RespHead(c))
  /\ LET s == SetOf[RespHead(c).addr] IN
       /\ ~specBits[s].spec /\ specBits[s].squash
       /\ PendingDec(s)
  /\ MemDequeue(c)
  /\ UNCHANGED <<cceVars, dir, specBits, cacheVars, lceVars, coreVars, netVars,
                 latest>>

MemRespFill(c) ==
  /\ memResp[c] # <<>> /\ IsSpeculative(RespHead(c))
  /\ LET r == RespHead(c)  s == SetOf[r.addr] IN
       /\ ~specBits[s].spec /\ ~specBits[s].squash
       /\ SendCmd(FillCmd(c, r, IF specBits[s].fwdMod THEN specBits[s].st
                                                      ELSE "E"))
       /\ PendingDec(s)
  /\ MemDequeue(c)
  /\ UNCHANGED <<cceVars, dir, specBits, cacheVars, lceVars, coreVars, reqNet,
                 respNet, latest>>

MemRespWriteback(c) ==
  /\ memResp[c] # <<>> /\ RespHead(c).type = "wr"
  /\ PendingDec(SetOf[RespHead(c).addr])
  /\ MemDequeue(c)
  /\ UNCHANGED <<cceVars, dir, specBits, cacheVars, lceVars, coreVars, netVars,
                 latest>>

MemRespUncached(c) ==
  /\ memResp[c] # <<>> /\ RespHead(c).type \in UcOp
  /\ LET r == RespHead(c) IN
       IF r.type = "uc_rd"
       THEN SendCmd([type |-> "uc_data", src |-> c, dst |-> r.lce,
                     addr |-> r.addr, data |-> r.data])
       ELSE SendCmd([type |-> "uc_st_done", src |-> c, dst |-> r.lce,
                     addr |-> r.addr])
  /\ MemDequeue(c)
  /\ UNCHANGED <<cceVars, dirVars, cacheVars, lceVars, coreVars, reqNet,
                 respNet, latest>>

CohAck(c) ==
  /\ \E m \in respNet :
       /\ m.dst = c /\ m.type = "coh_ack"
       /\ TakeResp(m)
       /\ PendingDec(SetOf[m.addr])
  /\ UNCHANGED <<cceVars, dir, specBits, memVars, cacheVars, lceVars, coreVars,
                 reqNet, cmdNet, latest>>

----------------------------------------------------------------------------
(* Reset, uncached-only mode and the synchronisation with the LCEs.        *)

CceReset(c) ==
  /\ cceState[c] = "reset" /\ Goto(c, "clear_dir")
  /\ synced' = [synced EXCEPT ![c] = {}]
  /\ UNCHANGED <<cceNormal, mshr, sharers, toInv, cnt, dirVars, memVars,
                 cacheVars, lceVars, coreVars, netVars, latest>>

(* The two nested counter loops over tag sets and LCEs, as one step.       *)
CceClearDir(c) ==
  /\ cceState[c] = "clear_dir"
  /\ Goto(c, IF cceNormal[c] THEN "send_sync" ELSE "uncached_only")
  /\ dir' = [l \in LCE |-> [f \in Frame |->
               IF HomeOf[f[1]] = c THEN [blk |-> dir[l][f].blk, st |-> "I"]
                                   ELSE dir[l][f]]]
  /\ UNCHANGED <<cceNormal, mshr, sharers, toInv, cnt, synced, pending,
                 specBits, memVars, cacheVars, lceVars, coreVars, netVars,
                 latest>>

(* External: software sets the mode of the CCE through the config bus.     *)
ConfigNormal(c) ==
  /\ ~cceNormal[c] /\ cceNormal' = [cceNormal EXCEPT ![c] = TRUE]
  /\ UNCHANGED <<cceState, mshr, sharers, toInv, cnt, synced, dirVars, memVars,
                 cacheVars, lceVars, coreVars, netVars, latest>>

(* Mutated form of CceLeaveUncached: no synchronisation with the LCEs.     *)
CceLeaveUncachedNoSync(c) ==
  /\ cceState[c] = "uncached_only" /\ cceNormal[c] /\ Goto(c, "ready")
  /\ UNCHANGED <<cceNormal, mshr, sharers, toInv, cnt, synced, dirVars, memVars,
                 cacheVars, lceVars, coreVars, netVars, latest>>

CceLeaveUncached(c) ==
  /\ cceState[c] = "uncached_only" /\ cceNormal[c] /\ Goto(c, "send_sync")
  /\ UNCHANGED <<cceNormal, mshr, sharers, toInv, cnt, synced, dirVars, memVars,
                 cacheVars, lceVars, coreVars, netVars, latest>>

(* Cached requests stall at the port until the CCE is in normal mode.      *)
CceUncachedOnly(c, l) ==
  /\ cceState[c] = "uncached_only" /\ ~cceNormal[c]
  /\ reqNet[<<l, c>>] # <<>> /\ Head(reqNet[<<l, c>>]).op \in UcOp
  /\ UncachedAccess(c, Head(reqNet[<<l, c>>]))
  /\ reqNet' = [reqNet EXCEPT ![<<l, c>>] = Tail(@)]
  /\ UNCHANGED <<cceVars, dirVars, cacheVars, lceVars, coreVars, cmdNet,
                 respNet, latest>>

CceSendSync(c, l) ==
  /\ cceState[c] = "send_sync" /\ l \notin synced[c] /\ memCredit[c] = 0
  /\ SendCmd([type |-> "sync", src |-> c, dst |-> l])
  /\ synced' = [synced EXCEPT ![c] = @ \cup {l}]
  /\ Goto(c, "sync_ack")
  /\ UNCHANGED <<cceNormal, mshr, sharers, toInv, cnt, dirVars, memVars,
                 cacheVars, lceVars, coreVars, reqNet, respNet, latest>>

CceSyncAck(c) ==
  /\ cceState[c] = "sync_ack"
  /\ \E m \in respNet :
       /\ m.dst = c /\ m.type # "coh_ack"
       /\ TakeResp(m)
       /\ Goto(c, IF m.type # "sync_ack" THEN "error"
                  ELSE IF synced[c] = LCE THEN "ready" ELSE "send_sync")
  /\ synced' = [synced EXCEPT ![c] = IF @ = LCE THEN {} ELSE @]
  /\ UNCHANGED <<cceNormal, mshr, sharers, toInv, cnt, dirVars, memVars,
                 cacheVars, lceVars, coreVars, reqNet, cmdNet, latest>>

----------------------------------------------------------------------------
(* Accepting a request.  e_ready clears the MSHR while it waits; here the  *)
(* step that enters "ready" does, and the sharers vectors, not read before *)
(* the next directory read, are cleared with it.                           *)

MshrOf(r) ==
  IF r.op \in CacheOp
  THEN [NoMshr EXCEPT !.lce = r.src, !.addr = r.addr, !.lru = r.lru,
                      !.write = r.op = "wr", !.nonExcl = r.nonExcl]
  ELSE [NoMshr EXCEPT !.lce = r.src, !.addr = r.addr, !.write = r.op = "uc_wr"]

CceReady(c, l) ==
  /\ cceState[c] = "ready" /\ reqNet[<<l, c>>] # <<>>
  /\ LET r == Head(reqNet[<<l, c>>]) IN
       /\ mshr' = [mshr EXCEPT ![c] = MshrOf(r)]
       /\ Goto(c, IF r.op \in CacheOp THEN "read_pending" ELSE "uc_req")
  /\ cnt' = [cnt EXCEPT ![c] = 0]
  /\ UNCHANGED <<cceNormal, sharers, toInv, synced, dirVars, memVars,
                 cacheVars, lceVars, coreVars, netVars, latest>>

MshrReq(c) == reqNet[<<mshr[c].lce, c>>]
DequeueReq(c) == reqNet' = [reqNet EXCEPT ![<<mshr[c].lce, c>>] = Tail(@)]

CceUcReq(c) ==
  /\ cceState[c] = "uc_req"
  /\ UncachedAccess(c, Head(MshrReq(c)))
  /\ DequeueReq(c)
  /\ Goto(c, "ready") /\ mshr' = [mshr EXCEPT ![c] = NoMshr]
  /\ UNCHANGED <<cceNormal, sharers, toInv, cnt, synced, dirVars, cacheVars,
                 lceVars, coreVars, cmdNet, respNet, latest>>

ReqSet(c) == SetOf[mshr[c].addr]

(* Mutated form of CceReadPending: the pending bits are not looked at.     *)
CceReadPendingAny(c) ==
  /\ cceState[c] = "read_pending"
  /\ Goto(c, "deq_lce_req")
  /\ UNCHANGED <<cceNormal, mshr, sharers, toInv, cnt, synced, dirVars, memVars,
                 cacheVars, lceVars, coreVars, netVars, latest>>

CceReadPending(c) ==
  /\ cceState[c] = "read_pending" /\ pending[ReqSet(c)] = 0
  /\ Goto(c, "deq_lce_req")
  /\ UNCHANGED <<cceNormal, mshr, sharers, toInv, cnt, synced, dirVars, memVars,
                 cacheVars, lceVars, coreVars, netVars, latest>>

CceDeqReq(c) ==
  /\ cceState[c] = "deq_lce_req"
  /\ DequeueReq(c)
  /\ PendingInc(ReqSet(c))
  /\ Goto(c, "read_mem_spec")
  /\ UNCHANGED <<cceNormal, mshr, sharers, toInv, cnt, synced, dir, specBits,
                 memVars, cacheVars, lceVars, coreVars, cmdNet, respNet, latest>>

(* The block is read from memory before the directory is consulted.        *)
CceReadMemSpec(c) ==
  /\ cceState[c] = "read_mem_spec"
  /\ MemCommand(c, [type |-> "rd", addr |-> mshr[c].addr, lce |-> mshr[c].lce,
                    way |-> mshr[c].lru, data |-> mem[mshr[c].addr]])
  /\ specBits' = [specBits EXCEPT ![ReqSet(c)] = [NoSpec EXCEPT !.spec = TRUE]]
  /\ PendingInc(ReqSet(c))
  /\ Goto(c, "read_dir")
  /\ UNCHANGED <<cceNormal, mshr, sharers, toInv, cnt, synced, dir, mem,
                 cacheVars, lceVars, coreVars, netVars, latest>>

----------------------------------------------------------------------------
(* e_read_dir and e_wait_dir_gad: only this CCE accesses its directory, so *)
(* the cycles the read takes are one step.                                 *)
CceReadDir(c) ==
  /\ cceState[c] = "read_dir"
  /\ LET m == mshr[c]  l == m.lce  b == m.addr  o == Owner(dir, b) IN
       /\ mshr' = [mshr EXCEPT ![c] =
            [m EXCEPT
               !.way      = HitWay(dir, l, b),
               !.lruBlk   = dir[l][FrameOf(b, m.lru)].blk,
               !.rf       = Replace(dir, l, b, m.write, m.lru),
               !.uf       = Upgrade(dir, l, b, m.write),
               !.csf      = CachedShared(dir, l, b),
               !.xf       = CachedOwned(dir, l, b),
               !.owner    = o,
               !.ownerWay = IF o = None THEN None ELSE HitWay(dir, o, b),
               !.next     = NextState(dir, l, b, m.write, m.nonExcl)]]
       /\ sharers' = [sharers EXCEPT ![c] = [k \in LCE |-> HitWay(dir, k, b)]]
  /\ Goto(c, "write_next_state")
  /\ UNCHANGED <<cceNormal, toInv, cnt, synced, dirVars, memVars, cacheVars,
                 lceVars, coreVars, netVars, latest>>

(* Mutated form of Invalidate: an upgrade invalidates nobody.              *)
InvalidateNoUpgrade(m) == m.write /\ m.csf /\ ~m.uf

Invalidate(m) == m.write /\ m.csf

(* pe_sharers_n: neither the requester nor, on a transfer, the owner.      *)
Invalidated(c) ==
  {l \in LCE : sharers[c][l] # None}
    \ ({mshr[c].lce} \cup IF mshr[c].xf THEN {mshr[c].owner} ELSE {})

FillStep(m) == IF m.uf THEN "upgrade_stw_cmd"
               ELSE IF m.xf THEN "transfer" ELSE "resolve_speculation"

(* The way out of e_write_next_state and of a finished replacement.        *)
StartInvOrFill(c) ==
  IF Invalidate(mshr[c])
  THEN /\ Goto(c, "inv_cmd")
       /\ toInv' = [toInv EXCEPT ![c] = Invalidated(c)]
       /\ cnt' = [cnt EXCEPT ![c] = 0]
  ELSE Goto(c, FillStep(mshr[c])) /\ UNCHANGED <<toInv, cnt>>

CceWriteNextState(c) ==
  /\ cceState[c] = "write_next_state"
  /\ LET m == mshr[c] IN
       /\ dir' = IF m.uf THEN WriteState(dir, m.lce, m.addr, m.way, m.next)
                         ELSE WriteEntry(dir, m.lce, m.addr, m.lru, m.next)
       /\ IF m.rf THEN Goto(c, "replacement") /\ UNCHANGED <<toInv, cnt>>
                  ELSE StartInvOrFill(c)
  /\ UNCHANGED <<cceNormal, mshr, sharers, synced, pending, specBits, memVars,
                 cacheVars, lceVars, coreVars, netVars, latest>>

----------------------------------------------------------------------------
(* Replacement: the requester writes its victim back.                      *)

CceReplacement(c) ==
  /\ cceState[c] = "replacement"
  /\ SendCmd([type |-> "st_wb", src |-> c, dst |-> mshr[c].lce,
              addr |-> mshr[c].lruBlk, way |-> mshr[c].lru, st |-> "I"])
  /\ Goto(c, "replacement_wb_resp")
  /\ UNCHANGED <<cceNormal, mshr, sharers, toInv, cnt, synced, dirVars, memVars,
                 cacheVars, lceVars, coreVars, reqNet, respNet, latest>>

(* Mutated form of WritebackResp: the way group does not wait.             *)
WritebackRespNoWait(c, m) ==
  /\ m.dst = c /\ TakeResp(m)
  /\ \/ m.type = "null_wb" /\ UNCHANGED <<pending, memVars>>
     \/ /\ m.type = "wb"
        /\ MemCommand(c, [type |-> "wr", addr |-> m.addr])
        /\ mem' = [mem EXCEPT ![m.addr] = m.data]
        /\ UNCHANGED pending

(* A dirty victim goes to memory, which makes the way group wait for it.   *)
WritebackResp(c, m) ==
  /\ m.dst = c /\ TakeResp(m)
  /\ \/ m.type = "null_wb" /\ UNCHANGED <<pending, memVars>>
     \/ /\ m.type = "wb"
        /\ MemCommand(c, [type |-> "wr", addr |-> m.addr])
        /\ mem' = [mem EXCEPT ![m.addr] = m.data]
        /\ PendingInc(SetOf[m.addr])

CceReplacementWbResp(c) ==
  /\ cceState[c] = "replacement_wb_resp"
  /\ \E m \in respNet : WritebackResp(c, m)
  /\ mshr' = [mshr EXCEPT ![c].rf = FALSE]
  /\ StartInvOrFill(c)
  /\ UNCHANGED <<cceNormal, sharers, synced, dir, specBits, cacheVars, lceVars,
                 coreVars, reqNet, cmdNet, latest>>

----------------------------------------------------------------------------
(* Invalidation of the sharers, lowest identifier first in the code.       *)

CceInvCmd(c) ==
  /\ cceState[c] = "inv_cmd"
  /\ \E l \in toInv[c] :
       /\ SendCmd([type |-> "inv", src |-> c, dst |-> l, addr |-> mshr[c].addr,
                   way |-> sharers[c][l]])
       /\ dir' = WriteState(dir, l, mshr[c].addr, sharers[c][l], "I")
       /\ toInv' = [toInv EXCEPT ![c] = @ \ {l}]
       /\ Goto(c, IF toInv[c] = {l} THEN "inv_ack" ELSE "inv_cmd")
  /\ cnt' = [cnt EXCEPT ![c] = @ + 1]
  /\ UNCHANGED <<cceNormal, mshr, sharers, synced, pending, specBits, memVars,
                 cacheVars, lceVars, coreVars, reqNet, respNet, latest>>

(* Mutated form of AfterInvAck: the first acknowledgement ends the wait.   *)
AfterInvAckAny(c) ==
  IF cceState[c] = "inv_cmd" THEN "inv_cmd" ELSE FillStep(mshr[c])

(* In e_inv_ack the last acknowledgement ends the wait.                    *)
AfterInvAck(c) ==
  IF cceState[c] = "inv_cmd" \/ cnt[c] # 1 THEN cceState[c]
  ELSE IF mshr[c].rf /\ ~mshr[c].uf THEN "replacement"
  ELSE FillStep(mshr[c])

(* Taken in both states.  e_inv_ack also leaves when it finds cnt at zero, *)
(* which cannot be: the last invalidation was sent as it was entered.      *)
CceInvAck(c) ==
  /\ cceState[c] \in {"inv_cmd", "inv_ack"}
  /\ \E m \in respNet : m.dst = c /\ m.type = "inv_ack" /\ TakeResp(m)
  /\ cnt' = [cnt EXCEPT ![c] = @ - 1]
  /\ Goto(c, AfterInvAck(c))
  /\ UNCHANGED <<cceNormal, mshr, sharers, toInv, synced, dirVars, memVars,
                 cacheVars, lceVars, coreVars, reqNet, cmdNet, latest>>

----------------------------------------------------------------------------
(* Sourcing the block: upgrade, transfer from the owner, or memory.        *)

CceUpgrade(c) ==
  /\ cceState[c] = "upgrade_stw_cmd"
  /\ SendCmd([type |-> "st_wakeup", src |-> c, dst |-> mshr[c].lce,
              addr |-> mshr[c].addr, way |-> mshr[c].way, st |-> mshr[c].next])
  /\ Goto(c, "resolve_speculation")
  /\ UNCHANGED <<cceNormal, mshr, sharers, toInv, cnt, synced, dirVars, memVars,
                 cacheVars, lceVars, coreVars, reqNet, respNet, latest>>

(* A write takes the block from its owner; a read leaves the owner a       *)
(* shared copy and asks it to write the block back.                        *)
CceTransfer(c) ==
  /\ cceState[c] = "transfer"
  /\ LET m == mshr[c]  st == IF m.write THEN "I" ELSE "S" IN
       /\ SendCmd([type |-> IF m.write THEN "st_tr" ELSE "st_tr_wb",
                   src |-> c, dst |-> m.owner, addr |-> m.addr,
                   way |-> m.ownerWay, st |-> st, target |-> m.lce,
                   targetWay |-> m.lru, targetSt |-> m.next])
       /\ dir' = WriteState(dir, m.owner, m.addr, m.ownerWay, st)
       /\ Goto(c, IF m.write THEN "resolve_speculation"
                             ELSE "transfer_wb_resp")
  /\ UNCHANGED <<cceNormal, mshr, sharers, toInv, cnt, synced, pending, specBits,
                 memVars, cacheVars, lceVars, coreVars, reqNet, respNet, latest>>

CceTransferWbResp(c) ==
  /\ cceState[c] = "transfer_wb_resp"
  /\ \E m \in respNet : WritebackResp(c, m)
  /\ Goto(c, "resolve_speculation")
  /\ UNCHANGED <<cceNormal, mshr, sharers, toInv, cnt, synced, dir, specBits,
                 cacheVars, lceVars, coreVars, reqNet, cmdNet, latest>>

(* Mutated forms of Resolved: a fill is not squashed when the block comes  *)
(* from its owner, or when an upgrade needs none; an unmodified fill is    *)
(* never released.                                                         *)
ResolvedSquashing(m, bits, squash) ==
  [bits EXCEPT !.spec = FALSE, !.squash = squash, !.fwdMod = ~squash,
               !.st = IF m.write THEN "M" ELSE "S"]
ResolvedNoTransfer(m, bits) == ResolvedSquashing(m, bits, m.uf)
ResolvedNoUpgrade(m, bits)  == ResolvedSquashing(m, bits, m.xf)
ResolvedNotReleased(m, bits) ==
  IF m.xf \/ m.uf \/ m.write \/ m.csf \/ m.nonExcl
  THEN ResolvedSquashing(m, bits, m.xf \/ m.uf) ELSE bits

Resolved(m, bits) ==
  IF m.xf \/ m.uf THEN [bits EXCEPT !.spec = FALSE, !.squash = TRUE]
  ELSE IF m.write THEN [bits EXCEPT !.spec = FALSE, !.fwdMod = TRUE, !.st = "M"]
  ELSE IF m.csf \/ m.nonExcl
  THEN [bits EXCEPT !.spec = FALSE, !.fwdMod = TRUE, !.st = "S"]
  ELSE [bits EXCEPT !.spec = FALSE]

CceResolve(c) ==
  /\ cceState[c] = "resolve_speculation"
  /\ specBits' = [specBits EXCEPT ![ReqSet(c)] =
                    Resolved(mshr[c], @)]
  /\ Goto(c, "ready")
  /\ mshr' = [mshr EXCEPT ![c] = NoMshr]
  /\ sharers' = [sharers EXCEPT ![c] = [l \in LCE |-> None]]
  /\ UNCHANGED <<cceNormal, toInv, cnt, synced, dir, pending, memVars, cacheVars,
                 lceVars, coreVars, netVars, latest>>

----------------------------------------------------------------------------
CceInit ==
  /\ cceState = [c \in CCE |-> "reset"]
  /\ cceNormal = [c \in CCE |-> FALSE]
  /\ mshr = [c \in CCE |-> NoMshr]
  /\ sharers = [c \in CCE |-> [l \in LCE |-> None]]
  /\ toInv = [c \in CCE |-> {}]
  /\ cnt = [c \in CCE |-> 0]
  /\ synced = [c \in CCE |-> {}]
  /\ memCredit = [c \in CCE |-> 0]
  /\ memResp = [c \in CCE |-> <<>>]
  /\ pending = [s \in Set |-> 0]
  /\ specBits = [s \in Set |-> NoSpec]

(* The states of the FSM that depend on nothing but the CCE.               *)
CceFsmStep(c) ==
  \/ CceReset(c) \/ CceClearDir(c) \/ CceLeaveUncached(c) \/ CceSyncAck(c)
  \/ CceUcReq(c) \/ CceReadPending(c) \/ CceDeqReq(c) \/ CceReadMemSpec(c)
  \/ CceReadDir(c) \/ CceWriteNextState(c)
  \/ CceReplacement(c) \/ CceReplacementWbResp(c)
  \/ CceInvCmd(c) \/ CceInvAck(c)
  \/ CceUpgrade(c) \/ CceTransfer(c) \/ CceTransferWbResp(c) \/ CceResolve(c)

MemRespStep(c) ==
  MemRespSquash(c) \/ MemRespFill(c) \/ MemRespWriteback(c)
    \/ MemRespUncached(c)

CceStep(c) ==
  \/ CceFsmStep(c) \/ MemRespStep(c) \/ CohAck(c) \/ ConfigNormal(c)
  \/ \E l \in LCE : CceReady(c, l) \/ CceUncachedOnly(c, l) \/ CceSendSync(c, l)
=============================================================================
