----------------------- MODULE BedRockRightsProofs ------------------------
(***************************************************************************)
(* Who may write a block while it moves, and where: a cache has a block in *)
(* one way, what is invalidated or evicted can no longer be written by the *)
(* cache that loses it, a fill finds its frame given up, and a store keeps *)
(* the right to write from its acknowledgement to its replay. RightsInv of *)
(* BedRockInvariant is an invariant of the coherence system. Credits are   *)
(* counted exactly.                                                        *)
(***************************************************************************)
EXTENDS BedRockCoherenceProofs

----------------------------------------------------------------------------
(* What follows from the invariants proved so far.                         *)

(* What has been proved of the system already.                             *)
Sound == Base /\ CohInv

(* The parts of the invariants proved so far.                              *)
LEMMA SoundParts ==
  ASSUME Sound
  PROVE  /\ Base /\ StartInv /\ PendStart /\ DirInv /\ GrantInv /\ TakeInv /\ TagInv /\ MissBlock
         /\ Lacks /\ Acked /\ TagSet /\ TagOwner
BY DEF Sound, CohInv, StartInv

(* The types of what a cache keeps.                                        *)
LEMMA Lces ==
  ASSUME Sound, NEW l \in LCE
  PROVE  /\ lceState[l] \in LceCmdStates /\ lceCmd[l] \in Command \cup {None}
         /\ tag[l] \in [Frame -> Line] /\ line[l] \in [Frame -> Data] /\ dirty[l] \in [Frame -> BOOLEAN]
         /\ lceCmd[l] # None => lceCmd[l] \in Command /\ lceCmd[l].dst = l
BY DEF Sound, Base, IInv, LceOK, LceTypeOK, CacheTypeOK, SerialInv, HeldDst

(* What is present is a command.                                           *)
LEMMA PresentIn ==
  ASSUME Sound, NEW m, Present(m)
  PROVE  m \in Command
<1>1. cmdNet \subseteq Command
  BY DEF Sound, Base, IInv, NetTypeOK
<1>2. QED
  BY <1>1, Lces DEF Present

(* So is what is ready, which takes and grants what the directory says.    *)
LEMMA ReadyIn ==
  ASSUME Sound, NEW m, Ready(m)
  PROVE  m \in Command /\ Present(m) /\ Takes(m) /\ Grants(m)
<1>1. Present(m)
  BY DEF Ready, Present
<1>2. CASE m \in cmdNet
  BY <1>1, <1>2, PresentIn, SoundParts DEF TakeInv, TakeCmd, GrantInv, GrantCmd
<1>3. CASE m \notin cmdNet
  <2>1. PICK l \in LCE : m = lceCmd[l] /\ m # None /\ lceState[l] \in {"reset", "clear", "ready"}
    BY <1>3 DEF Ready
  <2>2. lceState[l] \notin Passed
    BY <2>1 DEF Passed
  <2>3. QED
    BY <1>1, <2>1, <2>2, PresentIn, SoundParts DEF TakeInv, TakeHeld, GrantInv, GrantHeld
<1>4. QED
  BY <1>2, <1>3

(* Who asked for a write-back still waits for it.                          *)
LEMMA PresentWb ==
  ASSUME Sound, NEW m, Present(m), m.type \in {"st_wb", "st_tr_wb"}
  PROVE  \E c \in CCE :
           /\ c = m.src /\ m.addr = WbAddr(c) /\ m.type = WbType(c)
           /\ cceState[c] \in {"replacement_wb_resp", "transfer_wb_resp"}
           /\ SetOf[m.addr] = ReqSet(c) /\ ReqSet(c) \in Set /\ HomeOf[ReqSet(c)] = c
           /\ m.addr \in Block /\ m.way \in Way
<1>1. m \in Command
  BY PresentIn
<1>2. PICK c \in CCE : c = m.src
  BY <1>1, CommandFields
<1>3. WbInv /\ MshrInv /\ DirSetInv /\ CceOK
  BY DEF Sound, Base, SerialInv, IInv
<1>4. /\ m.addr = WbAddr(c) /\ m.type = WbType(c)
      /\ cceState[c] \in {"replacement_wb_resp", "transfer_wb_resp"}
  <2>1. CASE m \in cmdNet
    <3>1. WbCmd(c, m) /\ WbTok(c, "cmd", m)
      BY <1>2, <2>1 DEF WbCmd, WbTok
    <3>2. QED
      BY <1>3, <3>1 DEF WbInv, WbWaits, WbAsked
  <2>2. CASE m \notin cmdNet
    <3>1. PICK l \in LCE : m = lceCmd[l] /\ m # None
      BY <2>2 DEF Present
    <3>2. WbLce(c, l) /\ WbTok(c, "lce", l)
      BY <1>2, <3>1 DEF WbLce, WbTok, Holds
    <3>3. QED
      BY <1>3, <3>1, <3>2 DEF WbInv, WbWaits, WbAsked
  <2>3. QED
    BY <2>1, <2>2
<1>5. /\ mshr[c].addr \in Block /\ HomeOf[ReqSet(c)] = c /\ mshr[c].lruBlk \in Block
  BY <1>3, <1>4 DEF CceOK, MshrWF, MshrInv, MshrHome, Home, ReqSet, Cached, Decided
<1>6. cceState[c] = "replacement_wb_resp" => SetOf[mshr[c].lruBlk] = ReqSet(c)
  BY <1>3 DEF MshrInv, MshrFlagsOK, DirSetInv, VictimSet, Decided
<1>7. ReqSet(c) \in Set
  BY <1>5, ReqSetIn
<1>8. m.addr \in Block /\ m.way \in Way
  BY <1>1, CommandFields
<1>9. SetOf[m.addr] = ReqSet(c)
  BY <1>4, <1>6 DEF WbAddr, ReqSet
<1>10. QED
  BY <1>2, <1>4, <1>5, <1>7, <1>8, <1>9

(* A victim is asked for by an engine that evicts it.                      *)
LEMMA PresentVictim ==
  ASSUME Sound, NEW m, Present(m), m.type = "st_wb"
  PROVE  \E c \in CCE :
           /\ c = m.src /\ m.addr = mshr[c].lruBlk /\ cceState[c] = "replacement_wb_resp"
           /\ SetOf[m.addr] = ReqSet(c) /\ ReqSet(c) \in Set /\ HomeOf[ReqSet(c)] = c
           /\ m.addr \in Block /\ m.way \in Way /\ AtFsm(c) /\ Evicting(c)
<1>1. PICK c \in CCE :
        /\ c = m.src /\ m.addr = WbAddr(c) /\ m.type = WbType(c)
        /\ cceState[c] \in {"replacement_wb_resp", "transfer_wb_resp"}
        /\ SetOf[m.addr] = ReqSet(c) /\ ReqSet(c) \in Set /\ HomeOf[ReqSet(c)] = c
        /\ m.addr \in Block /\ m.way \in Way
  BY PresentWb
<1>2. cceState[c] = "replacement_wb_resp" /\ m.addr = mshr[c].lruBlk
  BY <1>1 DEF WbType, WbAddr
<1>3. AtFsm(c) /\ Evicting(c)
  BY <1>2 DEF AtFsm, Unsourced, Working, Cached, Evicting
<1>4. QED
  BY <1>1, <1>2, <1>3

(* What a cache does is for the transaction of its way group.              *)
DoneFor(k, m, s, w) ==
  /\ s \in Set /\ w \in Way /\ HomeOf[s] \in CCE /\ m \in Command /\ Takes(m) /\ Grants(m)
  /\ m.type \in Gives => Tok("lce", k, 0, Target(m), m.addr, "cached") /\ Target(m) \in LCE
  /\ m.type = "inv" => /\ Invalidating(HomeOf[s]) /\ AtFsm(HomeOf[s]) /\ ReqSet(HomeOf[s]) = s
                       /\ dir[k][<<s, w>>].st = "I"
  /\ m.type = "st_wb" =>
       /\ cceState[HomeOf[s]] = "replacement_wb_resp" /\ AtFsm(HomeOf[s]) /\ ReqSet(HomeOf[s]) = s
       /\ k = mshr[HomeOf[s]].lce /\ w = mshr[HomeOf[s]].lru /\ m.addr = mshr[HomeOf[s]].lruBlk
       /\ m.st = "I"
(* A command is executed for an engine, or for the request that waits for  *)
(* it.                                                                     *)
LEMMA DoingFor ==
  ASSUME Sound, NEW k \in LCE, NEW m, NEW s, NEW w, Doing(k, m, s, w)
  PROVE  DoneFor(k, m, s, w)
<1>1. /\ m \in Command /\ s \in Set /\ w \in Way /\ s = SetOf[m.addr] /\ m.addr \in Block
      /\ m = lceCmd[k] /\ m # None /\ lceState[k] = "ready" /\ m.dst = k /\ w = m.way
  BY DEF Doing
<1>2. Ready(m)
  BY <1>1 DEF Ready
<1>3. Takes(m) /\ Grants(m) /\ Present(m)
  BY <1>2, ReadyIn
<1>4. HomeOf[s] \in CCE
  BY <1>1, ConstantsAssumption
<1>5. ASSUME m.type \in Gives
      PROVE  Tok("lce", k, 0, Target(m), m.addr, "cached") /\ Target(m) \in LCE
  <2>1. lceState[k] \notin Passed
    BY <1>1 DEF Passed
  <2>2. QED
    BY <1>1, <1>5, <2>1, GiveTok, SoundParts
<1>6. ASSUME m.type = "inv"
      PROVE  /\ Invalidating(HomeOf[s]) /\ AtFsm(HomeOf[s]) /\ ReqSet(HomeOf[s]) = s
             /\ dir[k][<<s, w>>].st = "I"
  <2>1. Coming(k, {"inv"}, <<s, w>>)
    BY <1>1, <1>6 DEF Coming, Arrives, FrameOf
  <2>2. Invalidating(HomeOf[s]) /\ ReqSet(HomeOf[s]) = s
    BY <2>1, InvToken, SoundParts
  <2>3. AtFsm(HomeOf[s])
    BY <2>2 DEF Invalidating, AtFsm, Unsourced, Working, Cached
  <2>4. dir[k][<<s, w>>].st = "I"
    BY <1>1, <1>3, <1>6, SMTT(40) DEF Takes, FrameOf
  <2>5. QED
    BY <2>2, <2>3, <2>4
<1>7. ASSUME m.type = "st_wb"
      PROVE  /\ cceState[HomeOf[s]] = "replacement_wb_resp" /\ AtFsm(HomeOf[s])
             /\ ReqSet(HomeOf[s]) = s
             /\ k = mshr[HomeOf[s]].lce /\ w = mshr[HomeOf[s]].lru
             /\ m.addr = mshr[HomeOf[s]].lruBlk /\ m.st = "I"
  <2>1. PICK c \in CCE :
          /\ c = m.src /\ m.addr = mshr[c].lruBlk /\ cceState[c] = "replacement_wb_resp"
          /\ SetOf[m.addr] = ReqSet(c) /\ ReqSet(c) \in Set /\ HomeOf[ReqSet(c)] = c
          /\ m.addr \in Block /\ m.way \in Way /\ AtFsm(c) /\ Evicting(c)
    BY <1>3, <1>7, PresentVictim
  <2>2. m.dst = mshr[m.src].lce /\ m.way = mshr[m.src].lru /\ m.st = "I"
    BY <1>3, <1>7 DEF Takes
  <2>3. c = HomeOf[s]
    BY <1>1, <2>1
  <2>4. QED
    BY <1>1, <2>1, <2>2, <2>3
<1>8. QED
  BY <1>1, <1>3, <1>4, <1>5, <1>6, <1>7 DEF DoneFor

----------------------------------------------------------------------------
(* What a cache writes in its tags.                                        *)

(* A step of a cache changes a tag by the command it executes, or clears   *)
(* it.                                                                     *)
LEMMA TagChange ==
  ASSUME Sound, NEW k \in LCE, LceStep(k), NEW l \in LCE, NEW s \in Set, NEW w \in Way
  PROVE  \/ tag'[l][<<s, w>>].st = tag[l][<<s, w>>].st /\ tag'[l][<<s, w>>].blk = tag[l][<<s, w>>].blk
         \/ /\ l = k /\ ~Past(k)
            /\ tag'[l][<<s, w>>].st = "I" /\ tag'[l][<<s, w>>].blk = tag[l][<<s, w>>].blk
         \/ /\ l = k
            /\ \E m : /\ Doing(k, m, s, w) /\ DoneFor(k, m, s, w)
                      /\ Outcome(k, m, s, w, tag'[k][<<s, w>>].blk, tag'[k][<<s, w>>].st)
<1>1. TagMove(k)
  BY TagMoves, SoundParts
<1>2. CASE l # k
  <2>1. tag'[l] = tag[l]
    BY <1>2, LceOthers, SoundParts
  <2>2. QED
    BY <2>1
<1>3. CASE tag' = tag
  BY <1>3
<1>4. CASE l = k /\ LceClear(k) /\ TagCleared(k)
  BY <1>4 DEF LceClear, TagCleared, Past
<1>5. CASE l = k /\ \E m, t, v, blk, st : Doing(k, m, t, v) /\ Outcome(k, m, t, v, blk, st)
  <2>1. PICK m, t, v, blk, st : Doing(k, m, t, v) /\ Outcome(k, m, t, v, blk, st)
    BY <1>5
  <2>2. TagPut(k, t, v, blk, st)
    BY <2>1 DEF Outcome
  <2>3. CASE t = s /\ v = w
    <3>1. tag'[k][<<s, w>>].blk = blk /\ tag'[k][<<s, w>>].st = st
      BY <2>2, <2>3 DEF TagPut
    <3>2. Doing(k, m, s, w) /\ Outcome(k, m, s, w, blk, st)
      BY <2>1, <2>3
    <3>3. DoneFor(k, m, s, w)
      BY <3>2, DoingFor
    <3>4. QED
      BY <1>5, <3>1, <3>2, <3>3
  <2>4. CASE ~(t = s /\ v = w)
    <3>1. tag'[k][<<s, w>>] = tag[k][<<s, w>>]
      BY <2>2, <2>4 DEF TagPut
    <3>2. QED
      BY <1>5, <3>1
  <2>5. QED
    BY <2>3, <2>4
<1>6. QED
  BY <1>1, <1>2, <1>3, <1>4, <1>5 DEF TagMove

(* A right to write comes with a fill or an upgrade of the only miss.      *)
Brought(k, s, w) ==
  \E m : /\ Doing(k, m, s, w) /\ m.type \in Fresher /\ m.addr \in Block /\ s = SetOf[m.addr]
         /\ Tok("lce", k, 0, k, m.addr, "cached") /\ k \in Open(s) /\ miss[k].addr = m.addr
         /\ tag'[k][<<s, w>>].blk = m.addr /\ tag'[k][<<s, w>>].st # "I"
         /\ tag'[k][<<s, w>>].st = dir[k][<<s, w>>].st /\ Copy(k, s, w, m.addr)
(* A tag is valid after a step of a cache if it was so before, or the      *)
(* block is brought.                                                       *)
LEMMA TagNew ==
  ASSUME Sound, NEW k \in LCE, LceStep(k), NEW l \in LCE, NEW s \in Set, NEW w \in Way,
         tag'[l][<<s, w>>].st # "I"
  PROVE  \/ tag'[l][<<s, w>>].st = tag[l][<<s, w>>].st /\ tag'[l][<<s, w>>].blk = tag[l][<<s, w>>].blk
         \/ /\ tag'[l][<<s, w>>].st = "S" /\ tag[l][<<s, w>>].st # "I"
            /\ tag'[l][<<s, w>>].blk = tag[l][<<s, w>>].blk
         \/ l = k /\ Brought(k, s, w)
<1> SUFFICES ASSUME ~(/\ tag'[l][<<s, w>>].st = tag[l][<<s, w>>].st
                      /\ tag'[l][<<s, w>>].blk = tag[l][<<s, w>>].blk)
             PROVE  \/ /\ tag'[l][<<s, w>>].st = "S" /\ tag[l][<<s, w>>].st # "I"
                       /\ tag'[l][<<s, w>>].blk = tag[l][<<s, w>>].blk
                    \/ l = k /\ Brought(k, s, w)
  OBVIOUS
<1>1. PICK m : /\ l = k /\ Doing(k, m, s, w)
               /\ Outcome(k, m, s, w, tag'[k][<<s, w>>].blk, tag'[k][<<s, w>>].st)
  BY TagChange
<1>2. CASE m.type \in Fresher
  <2>1. Tok("lce", k, 0, k, m.addr, "cached") /\ k \in Open(s) /\ miss[k].addr = m.addr
    BY <1>1, <1>2, DoingOpen, SoundParts DEF Fresher
  <2>2. m.addr \in Block /\ s = SetOf[m.addr]
    BY <1>1 DEF Doing
  <2>3. /\ tag'[k][<<s, w>>].blk = m.addr /\ tag'[k][<<s, w>>].st = dir[k][<<s, w>>].st
        /\ Copy(k, s, w, m.addr)
    BY <1>1, <1>2 DEF Outcome, Fresher, Copy
  <2>4. QED
    BY <1>1, <1>2, <2>1, <2>2, <2>3 DEF Brought
<1>3. CASE m.type \notin Fresher
  BY <1>1, <1>3 DEF Outcome, Fresher
<1>4. QED
  BY <1>2, <1>3

(* No block is brought while the engine of its set still works for the     *)
(* request.                                                                *)
LEMMA NoneBrought ==
  ASSUME Sound, NEW c \in CCE, AtFsm(c), NEW k \in LCE, NEW w
  PROVE  ~Brought(k, ReqSet(c), w)
BY FsmNot, SoundParts DEF Brought

(* While the engine works for a set, no cache gains the right to write.    *)
LEMMA FsmStill ==
  ASSUME Sound, NEW c \in CCE, AtFsm(c), NEW k \in LCE, LceStep(k), NEW l \in LCE, NEW w \in Way
  PROVE  LET f == <<ReqSet(c), w>> IN
         /\ tag[l][f].st \notin Owned => tag'[l][f].st \notin Owned
         /\ tag[l][f].st = "I" => tag'[l][f].st = "I"
         /\ tag'[l][f].blk = tag[l][f].blk
<1>1. PICK s \in Set : s = ReqSet(c)
  BY FsmHas, SoundParts
<1>2. tag'[l][<<s, w>>].st # "I" =>
        \/ tag'[l][<<s, w>>].st = tag[l][<<s, w>>].st
        \/ tag'[l][<<s, w>>].st = "S" /\ tag[l][<<s, w>>].st # "I"
  BY <1>1, TagNew, NoneBrought
<1>3. tag'[l][<<s, w>>].blk = tag[l][<<s, w>>].blk
  <2>1. ~FillsNow(k, s)
    BY <1>1, FsmNot, SoundParts DEF FillsNow
  <2>2. QED
    BY <2>1, BlkStays, SoundParts
<1>4. QED
  BY <1>1, <1>2, <1>3 DEF Owned

(* A cache in the middle of a command leaves its tags alone.               *)
LEMMA BusyStill ==
  ASSUME NEW k \in LCE, LceStep(k), lceState[k] \notin {"clear", "ready"}
  PROVE  tag' = tag
BY TagBy DEF LceClear, LceInv, LceData, LceStWakeup, LceStWb, LceStTr, LceTagOnly, Executes

(* A cache begins to give a block when it has changed its tag.             *)
LEMMA BegunFrom ==
  ASSUME Sound, NEW k \in LCE, LceStep(k), lceState'[k] \in Begun
  PROVE  /\ lceCmd'[k] = lceCmd[k]
         /\ lceState[k] \in Begun \/ LceStWb(k) \/ LceStTr(k)
<1>1. lceState[k] \in LceCmdStates /\ lceState \in [LCE -> LceCmdStates]
  BY DEF Sound, Base, IInv, LceOK, LceTypeOK
<1>2. lceState[k] \in Begun \/ LceStWb(k) \/ LceStTr(k)
  BY <1>1, LceStateBy
  DEF LceReset, LceClear, LceData, LceStWakeup, LceStWb, LceStTr, LceCohAck, LceTr,
    LceWbStatRd, LceWb, LceWbDirtyRd, LceWbDirtySend, LceGoto, Begun, Passed
<1>3. lceCmd'[k] = lceCmd[k]
  <2>1. CASE LceStWb(k) \/ LceStTr(k)
    BY <2>1 DEF LceStWb, LceStTr
  <2>2. CASE lceState[k] \in Begun
    BY <1>1, <2>2, LceCmdBy
    DEF LceHead, LceSync, LceInv, LceUcStDone, LceUcData, LceCohAck, LceTr, LceWb, LceWbDirtySend,
      Executes, LceGoto, Begun, Passed
  <2>3. QED
    BY <1>2, <2>1, <2>2
<1>4. QED
  BY <1>2, <1>3

----------------------------------------------------------------------------
(* Where commands come from.                                               *)

(* Where commands come from.                                               *)
TrSent(k, m) ==
  /\ LceTr(k) /\ Holds(k, Transfer) /\ m.type = "data" /\ m.src = lceCmd[k].src
  /\ m.dst = lceCmd[k].target /\ m.addr = lceCmd[k].addr /\ m.way = lceCmd[k].targetWay
  /\ m.st = lceCmd[k].targetSt /\ m.data = dataBuf[k] /\ m \in cmdNet'
(* What a step of a cache puts on the network is the block it was told to  *)
(* send.                                                                   *)
LEMMA NetFrom ==
  ASSUME Sound, NEW k \in LCE, LceStep(k), NEW m \in cmdNet'
  PROVE  m \in cmdNet \/ TrSent(k, m)
<1>1. CASE cmdNet' = cmdNet \/ LceHead(k)
  BY <1>1 DEF LceHead
<1>2. CASE LceTr(k)
  <2>1. Holds(k, Transfer)
    BY <1>2 DEF LceTr, Sound, Base, IInv, LceOK, CmdWF, Transfer
  <2>2. QED
    BY <1>2, <2>1 DEF LceTr, TrSent
<1>3. QED
  BY <1>1, <1>2, LceNetBy

(* So is what becomes ready.                                               *)
LEMMA ReadyFrom ==
  ASSUME Sound, NEW k \in LCE, LceStep(k), NEW m, Ready(m)'
  PROVE  Ready(m) \/ TrSent(k, m)
<1>1. CASE m \in cmdNet'
  BY <1>1, NetFrom DEF Ready
<1>2. CASE m \notin cmdNet'
  <2>1. PICK l \in LCE : m = lceCmd'[l] /\ m # None /\ lceState'[l] \in {"reset", "clear", "ready"}
    BY <1>2 DEF Ready
  <2>2. QED
    BY <2>1, HeldFrom, SoundParts DEF Ready
<1>3. QED
  BY <1>1, <1>2

(* And what becomes present.                                               *)
LEMMA PresentFrom ==
  ASSUME Sound, NEW k \in LCE, LceStep(k), NEW m, Present(m)'
  PROVE  Present(m) \/ TrSent(k, m)
<1>1. CASE m \in cmdNet'
  BY <1>1, NetFrom DEF Present
<1>2. CASE m \notin cmdNet'
  <2>1. PICK l \in LCE : m = lceCmd'[l] /\ m # None
    BY <1>2 DEF Present
  <2>2. QED
    BY <2>1, HeldFrom, SoundParts DEF Present
<1>3. QED
  BY <1>1, <1>2

(* The commands an engine sends, each from the step that sends it.         *)
CmdNew(c, m) ==
  \/ /\ CceReplacement(c) /\ cceState[c] = "replacement" /\ m.type = "st_wb" /\ m.src = c
     /\ m.dst = mshr[c].lce /\ m.addr = mshr[c].lruBlk /\ m.way = mshr[c].lru /\ m.st = "I"
  \/ /\ CceInvCmd(c) /\ m.type = "inv" /\ m.src = c /\ m.addr = mshr[c].addr
     /\ InvSent(c, m.dst, m.way)
  \/ /\ CceUpgrade(c) /\ cceState[c] = "upgrade_stw_cmd" /\ m.type = "st_wakeup"
     /\ m.dst = mshr[c].lce /\ m.addr = mshr[c].addr /\ m.way = mshr[c].way
  \/ CceTransfer(c) /\ cceState[c] = "transfer" /\ Given(c, m)
  \/ /\ MemRespFill(c) /\ m.type = "data" /\ m.dst = RespHead(c).lce /\ m.addr = RespHead(c).addr
     /\ m.data = RespHead(c).data /\ m.way = RespHead(c).way
  \/ m.type \in {"sync", "uc_data", "uc_st_done"}
(* What an engine puts on the network.                                     *)
LEMMA NetNew ==
  ASSUME Sound, NEW c \in CCE, CceStep(c), NEW m, m \in cmdNet', m \notin cmdNet
  PROVE  CmdNew(c, m)
<1>1. CASE CceReplacement(c)
  BY <1>1 DEF CceReplacement, SendCmd, CmdNew
<1>2. CASE CceInvCmd(c)
  <2>1. PICK l, w : InvSent(c, l, w)
    BY <1>2, InvStep, SoundParts
  <2>2. m = [type |-> "inv", src |-> c, dst |-> l, addr |-> mshr[c].addr, way |-> w]
    BY <2>1 DEF InvSent
  <2>3. m.type = "inv" /\ m.src = c /\ m.dst = l /\ m.addr = mshr[c].addr /\ m.way = w
    BY <2>2
  <2>4. QED
    BY <1>2, <2>1, <2>3 DEF CmdNew
<1>3. CASE CceUpgrade(c)
  BY <1>3 DEF CceUpgrade, SendCmd, CmdNew
<1>4. CASE CceTransfer(c)
  <2>1. \E n : Given(c, n) /\ cmdNet' = cmdNet \cup {n}
    BY <1>4, TransferStep, SoundParts
  <2>2. QED
    BY <1>4, <2>1 DEF CmdNew, CceTransfer
<1>5. CASE MemRespFill(c)
  BY <1>5 DEF MemRespFill, SendCmd, FillCmd, CmdNew
<1>6. CASE MemRespUncached(c)
  BY <1>6 DEF MemRespUncached, SendCmd, CmdNew
<1>7. CASE \E l \in LCE : CceSendSync(c, l)
  BY <1>7 DEF CceSendSync, SendCmd, CmdNew
<1>8. QED
  BY <1>1, <1>2, <1>3, <1>4, <1>5, <1>6, <1>7, CmdBy

(* What becomes ready by a step of an engine.                              *)
LEMMA ReadyNew ==
  ASSUME Sound, NEW c \in CCE, CceStep(c), NEW m, Ready(m)'
  PROVE  Ready(m) \/ (m \in cmdNet' /\ m \notin cmdNet /\ CmdNew(c, m))
<1>1. lceCmd' = lceCmd /\ lceState' = lceState
  BY CceLeaves
<1>2. QED
  BY <1>1, NetNew DEF Ready

(* What becomes present by a step of an engine.                            *)
LEMMA PresentNew ==
  ASSUME Sound, NEW c \in CCE, CceStep(c), NEW m, Present(m)'
  PROVE  Present(m) \/ (m \in cmdNet' /\ m \notin cmdNet /\ CmdNew(c, m))
<1>1. lceCmd' = lceCmd
  BY CceLeaves
<1>2. QED
  BY <1>1, NetNew DEF Present

----------------------------------------------------------------------------
(* Who may send a block.                                                   *)

(* What the commands say of the engine and of the transaction.             *)
LEMMA ReadyInv ==
  ASSUME Sound, NEW m, Ready(m), m.type = "inv"
  PROVE  \E c \in CCE :
           /\ c = m.src /\ Invalidating(c) /\ AtFsm(c) /\ ReqSet(c) = SetOf[m.addr]
           /\ m.dst \in LCE /\ m.way \in Way /\ m.addr \in Block
           /\ dir[m.dst][<<ReqSet(c), m.way>>].st = "I"
<1>1. m \in Command /\ Takes(m)
  BY ReadyIn
<1>2. PICK c \in CCE : c = m.src
  BY <1>1, CommandFields
<1>3. m.dst \in LCE /\ m.way \in Way /\ m.addr \in Block
  BY <1>1, CommandFields
<1>4. Invalidating(c)
  <2>1. CASE m \in cmdNet
    <3>1. m \in InvsOf(c)
      BY <1>2, <2>1 DEF InvsOf
    <3>2. QED
      BY <3>1, NoInvs DEF Sound, Base, CountInv
  <2>2. CASE m \notin cmdNet
    <3>1. PICK l \in LCE : m = lceCmd[l] /\ m # None
      BY <2>2 DEF Ready
    <3>2. l \in HeldInvs(c)
      BY <1>2, <3>1 DEF HeldInvs, Holds
    <3>3. QED
      BY <3>2, NoInvs DEF Sound, Base, CountInv
  <2>3. QED
    BY <2>1, <2>2
<1>5. AtFsm(c)
  BY <1>4 DEF Invalidating, AtFsm, Unsourced, Working, Cached
<1>6. ReqSet(c) = SetOf[m.addr] /\ dir[m.dst][<<ReqSet(c), m.way>>].st = "I"
  BY <1>1, <1>2 DEF Takes, FrameOf
<1>7. QED
  BY <1>2, <1>3, <1>4, <1>5, <1>6

(* Command m holds the right to send its block.                            *)
HasTok(m) ==
  /\ m \in Command /\ Target(m) \in LCE /\ m.dst \in LCE /\ m.addr \in Block /\ m.way \in Way
  /\ SetOf[m.addr] \in Set
  /\ \E a \in {"cmd", "lce"} : \E x :
       /\ Tok(a, x, 0, Target(m), m.addr, "cached")
       /\ a = "cmd" => x = m /\ m \in cmdNet
       /\ a = "lce" => x \in LCE /\ m = lceCmd[x] /\ m # None /\ lceState[x] \notin Passed
(* A command that brings a block has the right to, until it has been       *)
(* passed on.                                                              *)
LEMMA HasTokIs ==
  ASSUME Sound, NEW m, Present(m), m.type \in Gives,
         \A l \in LCE : m = lceCmd[l] => lceState[l] \notin Passed
  PROVE  HasTok(m)
<1>1. m \in Command
  BY PresentIn
<1>2. /\ Target(m) \in LCE /\ m.addr \in Block /\ SetOf[m.addr] \in Set
      /\ m \in cmdNet => Tok("cmd", m, 0, Target(m), m.addr, "cached")
      /\ \A l \in LCE : lceCmd[l] = m /\ m # None /\ lceState[l] \notin Passed =>
           Tok("lce", l, 0, Target(m), m.addr, "cached")
  BY <1>1, GiveTok, SoundParts
<1>3. m.dst \in LCE /\ m.way \in Way
  BY <1>1, CommandFields DEF Gives
<1>4. CASE m \in cmdNet
  BY <1>1, <1>2, <1>3, <1>4 DEF HasTok
<1>5. CASE m \notin cmdNet
  <2>1. PICK l \in LCE : m = lceCmd[l] /\ m # None
    BY <1>5 DEF Present
  <2>2. Tok("lce", l, 0, Target(m), m.addr, "cached") /\ lceState[l] \notin Passed
    BY <1>2, <2>1
  <2>3. QED
    BY <1>1, <1>2, <1>3, <2>1, <2>2 DEF HasTok
<1>6. QED
  BY <1>4, <1>5

(* A ready one has it.                                                     *)
LEMMA ReadyTok ==
  ASSUME Sound, NEW m, Ready(m), m.type \in Gives
  PROVE  HasTok(m)
<1>1. Present(m) /\ m \in Command
  BY ReadyIn
<1>2. CASE m \in cmdNet
  <2>1. /\ Target(m) \in LCE /\ m.addr \in Block /\ SetOf[m.addr] \in Set
        /\ Tok("cmd", m, 0, Target(m), m.addr, "cached")
    BY <1>1, <1>2, GiveTok, SoundParts
  <2>2. m.dst \in LCE /\ m.way \in Way
    BY <1>1, CommandFields DEF Gives
  <2>3. QED
    BY <1>1, <1>2, <2>1, <2>2 DEF HasTok
<1>3. CASE m \notin cmdNet
  <2>1. PICK l \in LCE : m = lceCmd[l] /\ m # None /\ lceState[l] \in {"reset", "clear", "ready"}
    BY <1>3 DEF Ready
  <2>2. \A j \in LCE : m = lceCmd[j] => lceState[j] \notin Passed
    BY <2>1, Lces DEF Passed
  <2>3. QED
    BY <1>1, <2>2, HasTokIs
<1>4. QED
  BY <1>2, <1>3

(* A transfer not yet begun or executed carries the right to the block;    *)
(* after that its giver may still owe a write-back.                        *)
LEMMA PresentTr ==
  ASSUME Sound, NEW m, Present(m), m.type \in Transfer
  PROVE  HasTok(m) \/ (m.type = "st_tr_wb" /\ \E l \in LCE : m = lceCmd[l] /\ m # None /\ m.dst = l
                                                              /\ lceState[l] \in Passed)
<1>1. CASE \A l \in LCE : m = lceCmd[l] => lceState[l] \notin Passed
  BY <1>1, HasTokIs DEF Transfer, Gives
<1>2. CASE \E l \in LCE : m = lceCmd[l] /\ lceState[l] \in Passed
  <2>1. PICK l \in LCE : m = lceCmd[l] /\ lceState[l] \in Passed
    BY <1>2
  <2>2. Holds(l, {"st_wb", "st_tr_wb"})
    BY <2>1 DEF Sound, Base, IInv, LceOK, CmdWF, Passed
  <2>3. m # None /\ m.type \in {"st_wb", "st_tr_wb"}
    BY <2>1, <2>2 DEF Holds
  <2>4. m.type = "st_tr_wb" /\ m.dst = l
    BY <2>1, <2>3, Lces DEF Transfer
  <2>5. QED
    BY <2>1, <2>3, <2>4
<1>3. QED
  BY <1>1, <1>2

(* Whoever has the right to send a block of a set is alone in that set.    *)
LEMMA TokAlone ==
  ASSUME Sound, NEW m, HasTok(m)
  PROVE  /\ \A c \in CCE : AtFsm(c) => ReqSet(c) # SetOf[m.addr]
         /\ \A k \in LCE, l \in LCE : \A b \in Block :
              Tok("lce", k, 0, l, b, "cached") /\ SetOf[b] = SetOf[m.addr] =>
                /\ m = lceCmd[k] /\ m \notin cmdNet /\ lceState[k] \notin Passed
                /\ l = Target(m) /\ b = m.addr
         /\ \A c \in CCE, i \in Nat, l \in LCE : \A b \in Block :
              Tok("mem", c, i, l, b, "cached") => SetOf[b] # SetOf[m.addr]
         /\ Target(m) \in Open(SetOf[m.addr]) /\ miss[Target(m)].addr = m.addr
         /\ \A n : HasTok(n) /\ SetOf[n.addr] = SetOf[m.addr] => n = m
<1>1. PICK a, x :
        /\ a \in {"cmd", "lce"}
        /\ Tok(a, x, 0, Target(m), m.addr, "cached")
        /\ a = "cmd" => x = m /\ m \in cmdNet
        /\ a = "lce" => x \in LCE /\ m = lceCmd[x] /\ m # None /\ lceState[x] \notin Passed
  BY DEF HasTok
<1>2. m \in Command /\ Target(m) \in LCE /\ m.addr \in Block /\ a # "req" /\ a # "fsm" /\ a # "mem"
  BY <1>1 DEF HasTok
<1>3. \A c \in CCE : AtFsm(c) => ReqSet(c) # SetOf[m.addr]
  BY <1>1, <1>2, FsmNot, SoundParts
<1>4. Target(m) \in Open(SetOf[m.addr]) /\ miss[Target(m)].addr = m.addr
  BY <1>1, <1>2, TokOpen, SoundParts
<1>5. ASSUME NEW aa \in {"cmd", "lce", "mem"}, NEW xx, NEW j \in Nat, NEW l \in LCE, NEW b \in Block,
             Tok(aa, xx, j, l, b, "cached"), SetOf[b] = SetOf[m.addr]
      PROVE  aa = a /\ xx = x /\ l = Target(m) /\ b = m.addr
  BY <1>1, <1>2, <1>5, OnePlace, SoundParts
<1>6. ASSUME NEW k \in LCE, NEW l \in LCE, NEW b \in Block, Tok("lce", k, 0, l, b, "cached"),
             SetOf[b] = SetOf[m.addr]
      PROVE  /\ m = lceCmd[k] /\ m \notin cmdNet /\ lceState[k] \notin Passed
             /\ l = Target(m) /\ b = m.addr
  <2>1. a = "lce" /\ x = k /\ l = Target(m) /\ b = m.addr
    BY <1>5, <1>6
  <2>2. m \notin cmdNet
    <3>1. m \in cmdNet => Tok("cmd", m, 0, Target(m), m.addr, "cached")
      BY <1>1, <1>2, <2>1 DEF Tok, CmdTok, LceTok
    <3>2. m \in cmdNet => "cmd" = a
      BY <1>2, <1>5, <3>1
    <3>3. QED
      BY <2>1, <3>2
  <2>3. QED
    BY <1>1, <2>1, <2>2
<1>7. ASSUME NEW c \in CCE, NEW i \in Nat, NEW l \in LCE, NEW b \in Block,
             Tok("mem", c, i, l, b, "cached")
      PROVE  SetOf[b] # SetOf[m.addr]
  BY <1>2, <1>5, <1>7
<1>8. ASSUME NEW n, HasTok(n), SetOf[n.addr] = SetOf[m.addr]
      PROVE  n = m
  <2>1. PICK aa, xx :
          /\ aa \in {"cmd", "lce"}
          /\ Tok(aa, xx, 0, Target(n), n.addr, "cached")
          /\ aa = "cmd" => xx = n
          /\ aa = "lce" => n = lceCmd[xx]
    BY <1>8 DEF HasTok
  <2>2. aa = a /\ xx = x
    BY <1>5, <1>8, <2>1 DEF HasTok
  <2>3. QED
    BY <1>1, <2>1, <2>2
<1>9. QED
  BY <1>3, <1>4, <1>6, <1>7, <1>8

(* An open request was open before a step of a cache.                      *)
LEMMA OpenBack ==
  ASSUME Sound, NEW k \in LCE, LceStep(k), NEW s \in Set, NEW l, l \in Open(s)'
  PROVE  l \in Open(s) /\ miss'[l] = miss[l]
<1>1. CASE ~LceCohAck(k)
  <2>1. l \in Open(s)
    BY <1>1, OpenLce DEF Sound, Base
  <2>2. l \in LCE
    BY <2>1 DEF Open
  <2>3. QED
    BY <1>1, <2>1, <2>2, OpenStays, SoundParts
<1>2. CASE LceCohAck(k)
  <2>1. l \in Open(s)
    BY <1>2, OpenAck DEF Sound, Base
  <2>2. l \in LCE /\ miss'[l].phase = "sent"
    BY <2>1 DEF Open
  <2>3. miss'[k].phase # "sent"
    BY <1>2 DEF LceCohAck, Complete, NoMiss, Sound, Base, IInv, CoreOK, CoreTypeOK, Miss
  <2>4. l # k
    BY <2>2, <2>3
  <2>5. QED
    BY <2>1, <2>2, <2>4, LceOthers, SoundParts
<1>3. QED
  BY <1>1, <1>2

----------------------------------------------------------------------------
(* The rights of the caches, step of a cache.                              *)

(* What the proof of RightsInv may use.                                    *)
Rights == Sound /\ RightsInv
(* The parts of RightsInv.                                                 *)
LEMMA RightsParts ==
  ASSUME Rights
  PROVE  /\ Sound /\ TagOne /\ InvShared /\ WakeFsm /\ WakeCmd /\ KnownVictim /\ FreeFrame
         /\ VictimAlone /\ VictimTag /\ VictimFreed /\ GrantsWrite /\ ReplayOwns /\ MovesWrite
         /\ SharedLeft /\ LeftCopies /\ SharedSent /\ VictimCmd /\ GiveTag /\ GiveBegun
BY DEF Rights, RightsInv

(* What RightsInv says of engines and the directory, step of a cache.      *)
LEMMA EngineLce ==
  ASSUME Rights, NEW k \in LCE, LceStep(k)
  PROVE  VictimAlone' /\ SharedLeft' /\ LeftCopies' /\ SharedSent' /\ KnownVictim' /\ VictimCmd'
<1>1. dir' = dir /\ cceState' = cceState /\ mshr' = mshr /\ sharers' = sharers /\ toInv' = toInv
  BY LceLeaves
<1>2. VictimAlone'
  BY <1>1, RightsParts DEF VictimAlone, Evicting, Copy, ReqSet
<1>3. SharedLeft'
  BY <1>1, RightsParts DEF SharedLeft, OtherCopy, Copy, ReqSet
<1>4. SharedSent'
  BY <1>1, RightsParts DEF SharedSent, Copy, ReqSet
<1>5. KnownVictim'
  BY <1>1, RightsParts DEF KnownVictim, ReqSet
<1>6. VictimCmd'
  BY <1>1, PresentFrom, RightsParts DEF VictimCmd, TrSent
<1>7. LeftCopies'
  BY <1>1, RightsParts DEF LeftCopies, OtherCopy, Copy, ReqSet
<1>8. QED
  BY <1>2, <1>3, <1>4, <1>5, <1>6, <1>7

(* An engine that evicts works for its request.                            *)
LEMMA EvictingFsm ==
  ASSUME Sound, NEW c \in CCE, Evicting(c)
  PROVE  /\ AtFsm(c) /\ mshr[c].lce \in LCE /\ mshr[c].lru \in Way /\ ReqSet(c) \in Set
         /\ HomeOf[ReqSet(c)] = c
<1>1. AtFsm(c)
  BY DEF Evicting, AtFsm, Unsourced, Working, Cached
<1>2. QED
  BY <1>1, FsmHas, SoundParts

(* VictimTag, step of a cache.                                             *)
LEMMA VictimTagLce ==
  ASSUME Rights, NEW k \in LCE, LceStep(k)
  PROVE  VictimTag'
<1> SUFFICES ASSUME NEW c \in CCE, Evicting(c)'
             PROVE  tag'[mshr'[c].lce][<<ReqSet(c)', mshr'[c].lru>>].blk = mshr'[c].lruBlk
  BY DEF VictimTag
<1>1. mshr' = mshr /\ cceState' = cceState
  BY LceLeaves
<1>2. Evicting(c) /\ ReqSet(c)' = ReqSet(c)
  BY <1>1 DEF Evicting, ReqSet
<1>3. AtFsm(c) /\ mshr[c].lce \in LCE /\ mshr[c].lru \in Way
  BY <1>2, EvictingFsm, RightsParts
<1>4. tag[mshr[c].lce][<<ReqSet(c), mshr[c].lru>>].blk = mshr[c].lruBlk
  BY <1>2, RightsParts DEF VictimTag
<1>5. tag'[mshr[c].lce][<<ReqSet(c), mshr[c].lru>>].blk = tag[mshr[c].lce][<<ReqSet(c), mshr[c].lru>>].blk
  BY <1>3, FsmStill, RightsParts
<1>6. QED
  BY <1>1, <1>2, <1>4, <1>5

(* InvShared, step of a cache.                                             *)
LEMMA InvSharedLce ==
  ASSUME Rights, NEW k \in LCE, LceStep(k)
  PROVE  InvShared'
<1> SUFFICES ASSUME NEW m, Ready(m)', m.type = "inv"
             PROVE  tag'[m.dst][FrameOf(m.addr, m.way)].st \notin Owned
  BY DEF InvShared
<1>1. Ready(m)
  BY ReadyFrom, RightsParts DEF TrSent
<1>2. PICK c \in CCE :
        /\ c = m.src /\ Invalidating(c) /\ AtFsm(c) /\ ReqSet(c) = SetOf[m.addr]
        /\ m.dst \in LCE /\ m.way \in Way /\ m.addr \in Block
        /\ dir[m.dst][<<ReqSet(c), m.way>>].st = "I"
  BY <1>1, ReadyInv, RightsParts
<1>3. tag[m.dst][<<ReqSet(c), m.way>>].st \notin Owned
  BY <1>1, <1>2, RightsParts DEF InvShared, FrameOf
<1>4. tag'[m.dst][<<ReqSet(c), m.way>>].st \notin Owned
  BY <1>2, <1>3, FsmStill, RightsParts
<1>5. QED
  BY <1>2, <1>4 DEF FrameOf

(* While a request is open every cache is past its reset.                  *)
LEMMA OpenPast ==
  ASSUME Sound, NEW s \in Set, NEW l \in Open(s), NEW k \in LCE
  PROVE  Past(k) /\ InService(HomeOf[s]) /\ Cleared(HomeOf[s]) /\ HomeOf[s] \in CCE
BY OpenServed, SoundParts

(* WakeFsm, step of a cache.                                               *)
LEMMA WakeFsmLce ==
  ASSUME Rights, NEW k \in LCE, LceStep(k)
  PROVE  WakeFsm'
<1> SUFFICES ASSUME NEW c \in CCE, Granting(c)', mshr'[c].uf
             PROVE  tag'[mshr'[c].lce][<<ReqSet(c)', mshr'[c].way>>].st = "S"
  BY DEF WakeFsm
<1>1. mshr' = mshr /\ cceState' = cceState /\ dir' = dir
  BY LceLeaves
<1>2. Granting(c) /\ ReqSet(c)' = ReqSet(c) /\ mshr[c].uf
  BY <1>1 DEF Granting, ReqSet
<1>3. AtFsm(c)
  BY <1>2 DEF Granting, AtFsm, Unsourced, Working, Cached
<1>4. PICK l \in LCE, s \in Set :
        l = mshr[c].lce /\ s = ReqSet(c) /\ HomeOf[s] = c /\ l \in Open(s)
  BY <1>3, FsmHas, RightsParts, SoundParts
<1>5. PICK w \in Way : w = mshr[c].way
  BY <1>2, MshrKnown, RightsParts, SoundParts DEF Base, Decided, Granting
<1>6. tag[l][<<s, w>>].st = "S"
  BY <1>2, <1>4, <1>5, RightsParts DEF WakeFsm
<1>7. ASSUME NEW m, Doing(k, m, s, w), DoneFor(k, m, s, w), l = k
      PROVE  FALSE
  <2>1. CASE m.type \in Gives
    <3>1. Tok("lce", k, 0, Target(m), m.addr, "cached") /\ m.addr \in Block /\ SetOf[m.addr] = s
          /\ Target(m) \in LCE
      BY <1>7, <2>1 DEF DoneFor, Doing
    <3>2. ReqSet(c) # SetOf[m.addr]
      BY <1>3, <3>1, FsmNot, RightsParts, SoundParts
    <3>3. QED
      BY <1>4, <3>1, <3>2
  <2>2. CASE m.type = "inv"
    <3>1. dir[k][<<s, w>>].st = "I"
      BY <1>7, <2>2 DEF DoneFor
    <3>2. Granted(mshr[c].lce, mshr[c].addr, GrantWay(c), mshr[c].next)
      BY <1>2, RightsParts, SoundParts DEF GrantInv, GrantFsm
    <3>3. GrantWay(c) = w
      BY <1>2, <1>5 DEF GrantWay
    <3>4. QED
      BY <1>4, <1>7, <3>1, <3>2, <3>3 DEF Granted, Entered, FrameOf, ReqSet
  <2>3. CASE m.type = "st_wb"
    <3>1. cceState[c] = "replacement_wb_resp"
      BY <1>4, <1>7, <2>3 DEF DoneFor
    <3>2. mshr[c].rf
      BY <3>1, RightsParts, SoundParts DEF Base, SerialInv, MshrInv, MshrFlagsOK
    <3>3. ~mshr[c].uf
      BY <3>1, <3>2, RightsParts, SoundParts DEF DirInv, KnownInv, KnownFlags, Decided
    <3>4. QED
      BY <1>2, <3>3
  <2>4. QED
    BY <1>7, <2>1, <2>2, <2>3 DEF Doing, Gives
<1>8. Past(k)
  BY <1>4, OpenPast, RightsParts
<1>9. tag'[l][<<s, w>>].st = "S"
  BY <1>6, <1>7, <1>8, TagChange, RightsParts
<1>10. QED
  BY <1>1, <1>2, <1>4, <1>5, <1>9

(* WakeCmd, step of a cache.                                               *)
LEMMA WakeCmdLce ==
  ASSUME Rights, NEW k \in LCE, LceStep(k)
  PROVE  WakeCmd'
<1> SUFFICES ASSUME NEW m, Ready(m)', m.type = "st_wakeup"
             PROVE  tag'[m.dst][FrameOf(m.addr, m.way)].st = "S"
  BY DEF WakeCmd
<1>1. Ready(m)
  BY ReadyFrom, RightsParts DEF TrSent
<1>2. HasTok(m) /\ Target(m) = m.dst
  BY <1>1, ReadyTok, RightsParts DEF Gives, Target
<1>3. PICK l \in LCE, s \in Set, w \in Way : l = m.dst /\ s = SetOf[m.addr] /\ w = m.way
  BY <1>2 DEF HasTok
<1>4. tag[l][<<s, w>>].st = "S"
  BY <1>1, <1>3, RightsParts DEF WakeCmd, FrameOf
<1>5. l \in Open(s)
  BY <1>2, <1>3, TokAlone, RightsParts
<1>6. Past(k)
  BY <1>5, OpenPast, RightsParts
<1>7. ASSUME NEW n, Doing(k, n, s, w), DoneFor(k, n, s, w)
      PROVE  tag'[l][<<s, w>>].st = "S"
  <2>1. CASE n.type \in Gives
    <3>1. Tok("lce", k, 0, Target(n), n.addr, "cached") /\ n.addr \in Block /\ SetOf[n.addr] = s
          /\ Target(n) \in LCE
      BY <1>7, <2>1 DEF DoneFor, Doing
    <3>2. m = lceCmd[k] /\ m \notin cmdNet
      BY <1>2, <1>3, <3>1, TokAlone, RightsParts
    <3>3. lceState[k] = "ready" /\ m.dst = k
      BY <1>7, <3>2 DEF Doing
    <3>4. tag' = tag \/ LceStWakeup(k)
      BY <3>2, <3>3, TagBy DEF LceClear, LceInv, LceData, LceStWb, LceStTr, LceTagOnly, Executes, Holds
    <3>5. CASE tag' = tag
      BY <1>3, <1>4, <3>5
    <3>6. CASE LceStWakeup(k)
      <4>0. lceState \in [LCE -> LceCmdStates]
        BY RightsParts DEF Sound, Base, IInv, LceOK, LceTypeOK
      <4>1. lceState'[k] = "coh_ack" /\ lceCmd' = lceCmd /\ cmdNet' = cmdNet
        BY <3>6, <4>0 DEF LceStWakeup, LceGoto, netVars
      <4>2. PICK j \in LCE : m = lceCmd[j] /\ m # None /\ lceState'[j] \in {"reset", "clear", "ready"}
        BY <3>2, <4>1 DEF Ready
      <4>3. j = k
        BY <3>3, <4>2, Lces, RightsParts
      <4>4. QED
        BY <4>1, <4>2, <4>3, SMTT(40)
    <3>7. QED
      BY <3>4, <3>5, <3>6
  <2>2. CASE n.type \in {"inv", "st_wb"}
    <3>1. AtFsm(HomeOf[s]) /\ ReqSet(HomeOf[s]) = s /\ HomeOf[s] \in CCE
      BY <1>7, <2>2 DEF DoneFor
    <3>2. QED
      BY <1>2, <1>3, <3>1, TokAlone, RightsParts
  <2>3. QED
    BY <1>7, <2>1, <2>2 DEF Doing, Gives
<1>8. tag'[l][<<s, w>>].st = "S"
  BY <1>4, <1>6, <1>7, TagChange, RightsParts
<1>9. QED
  BY <1>3, <1>8 DEF FrameOf

(* The miss that a command is for goes on waiting.                         *)
LEMMA TokMissStays ==
  ASSUME Sound, NEW k \in LCE, LceStep(k), NEW m, HasTok(m), m.type \in Transfer
  PROVE  miss'[m.target] = miss[m.target]
<1>1. Target(m) = m.target
  BY DEF Target, Transfer
<1>2. PICK a, x :
        /\ a \in {"cmd", "lce"}
        /\ Tok(a, x, 0, m.target, m.addr, "cached")
        /\ a = "lce" => x \in LCE /\ m = lceCmd[x]
  BY <1>1 DEF HasTok
<1>3. m.target \in LCE /\ m.addr \in Block
  BY <1>1 DEF HasTok
<1>4. miss'[m.target] = miss[m.target] \/ (k = m.target /\ LceCohAck(k) /\ a = "lce" /\ x = m.target)
  BY <1>2, <1>3, TokMiss, SoundParts
<1>5. ASSUME LceCohAck(k), a = "lce", x = k
      PROVE  FALSE
  <2>1. lceCmd[k].type \in {"data", "st_wakeup"}
    BY <1>5, AckToken, SoundParts DEF LceCohAck
  <2>2. QED
    BY <1>2, <1>5, <2>1 DEF Transfer
<1>6. QED
  BY <1>4, <1>5

(* MovesWrite, step of a cache.                                            *)
LEMMA MovesWriteLce ==
  ASSUME Rights, NEW k \in LCE, LceStep(k)
  PROVE  MovesWrite'
<1> SUFFICES ASSUME NEW m, Present(m)', m.type = "st_tr"
             PROVE  miss'[m.target].op # "rd"
  BY DEF MovesWrite
<1>1. Present(m)
  BY PresentFrom, RightsParts DEF TrSent
<1>2. HasTok(m)
  BY <1>1, PresentTr, RightsParts DEF Transfer
<1>3. miss'[m.target] = miss[m.target]
  BY <1>2, TokMissStays, RightsParts DEF Transfer
<1>4. QED
  BY <1>1, <1>3, RightsParts DEF MovesWrite

(* GiveTag, step of a cache.                                               *)
LEMMA GiveTagLce ==
  ASSUME Rights, NEW k \in LCE, LceStep(k)
  PROVE  GiveTag'
<1> SUFFICES ASSUME NEW m, Present(m)', m.type \in Giving
             PROVE  tag'[m.dst][FrameOf(m.addr, m.way)].blk = m.addr
  BY DEF GiveTag
<1>1. Present(m)
  BY PresentFrom, RightsParts DEF TrSent, Giving
<1>2. m \in Command
  BY <1>1, PresentIn, RightsParts
<1>3. PICK l \in LCE, s \in Set, w \in Way : l = m.dst /\ s = SetOf[m.addr] /\ w = m.way
  BY <1>2, CommandFields, ConstantsAssumption DEF Giving
<1>4. tag[l][<<s, w>>].blk = m.addr
  BY <1>1, <1>3, RightsParts DEF GiveTag, FrameOf
<1>5. ASSUME l = k, FillsNow(k, s)
      PROVE  FALSE
  <2>1. /\ Tok("lce", k, 0, k, lceCmd[k].addr, "cached") /\ SetOf[lceCmd[k].addr] = s
        /\ lceCmd[k].addr \in Block /\ lceCmd[k].type = "data"
    BY <1>5 DEF FillsNow, Holds
  <2>2. CASE m.type = "st_wb"
    <3>1. PICK c \in CCE : AtFsm(c) /\ SetOf[m.addr] = ReqSet(c)
      BY <1>1, <2>2, PresentVictim, RightsParts
    <3>2. QED
      BY <1>3, <2>1, <3>1, FsmNot, RightsParts, SoundParts
  <2>3. CASE HasTok(m) /\ m.type \in Transfer
    <3>1. m = lceCmd[k]
      BY <1>3, <2>1, <2>3, TokAlone, RightsParts
    <3>2. QED
      BY <2>1, <2>3, <3>1 DEF Transfer
  <2>4. CASE ~HasTok(m) /\ m.type \in Transfer
    <3>1. PICK j \in LCE : m = lceCmd[j] /\ m.dst = j
      BY <1>1, <2>4, PresentTr, RightsParts
    <3>2. QED
      BY <1>3, <1>5, <2>1, <2>4, <3>1 DEF Transfer
  <2>5. QED
    BY <2>2, <2>3, <2>4 DEF Giving, Transfer
<1>6. tag'[l][<<s, w>>].blk = m.addr
  BY <1>4, <1>5, BlkStays, RightsParts, SoundParts
<1>7. QED
  BY <1>3, <1>6 DEF FrameOf

(* GiveBegun, step of a cache.                                             *)
LEMMA GiveBegunLce ==
  ASSUME Rights, NEW k \in LCE, LceStep(k)
  PROVE  GiveBegun'
<1> SUFFICES ASSUME NEW l \in LCE, lceState'[l] \in Begun
             PROVE  tag'[l][CmdFrame(l)'].st \notin Owned
  BY DEF GiveBegun
<1>1. CASE l # k
  <2>1. lceState'[l] = lceState[l] /\ lceCmd'[l] = lceCmd[l] /\ tag'[l] = tag[l]
    BY <1>1, LceOthers, RightsParts, SoundParts
  <2>2. QED
    BY <2>1, RightsParts DEF GiveBegun, CmdFrame
<1>2. CASE l = k
  <2>1. lceCmd'[k] = lceCmd[k] /\ (lceState[k] \in Begun \/ LceStWb(k) \/ LceStTr(k))
    BY <1>2, BegunFrom, RightsParts
  <2>2. CASE lceState[k] \in Begun
    <3>1. tag' = tag
      BY <2>2, BusyStill DEF Begun, Passed
    <3>2. QED
      BY <1>2, <2>1, <2>2, <3>1, RightsParts DEF GiveBegun, CmdFrame
  <2>3. CASE LceStWb(k) \/ LceStTr(k)
    <3>1. /\ Executes(k, {"inv", "st_wb", "st_tr", "st_tr_wb", "st_wakeup", "data"})
          /\ SetState(k, lceCmd[k].st) /\ lceCmd[k].type \in Giving /\ lceState[k] = "ready"
          /\ lceCmd[k] # None
      BY <2>3 DEF LceStWb, LceStTr, Executes, Holds, Giving
    <3>2. PICK m, s, w : Doing(k, m, s, w) /\ m = lceCmd[k] /\ CmdFrame(k) = <<s, w>>
      BY <3>1, ExecutesDoing, RightsParts, SoundParts
    <3>3. TagPut(k, s, w, tag[k][<<s, w>>].blk, m.st)
      BY <3>1, <3>2, SetIs, RightsParts, SoundParts DEF Doing
    <3>4. Takes(m)
      BY <3>2, DoingFor, RightsParts DEF DoneFor
    <3>5. m.st \notin Owned
      BY <3>1, <3>2, <3>4 DEF Takes, Giving, Owned
    <3>6. CmdFrame(k)' = <<s, w>>
      BY <2>1, <3>2 DEF CmdFrame
    <3>7. s \in Set /\ w \in Way
      BY <3>2 DEF Doing
    <3>8. tag'[k][<<s, w>>].st = m.st
      BY <3>3, <3>7 DEF TagPut
    <3>9. QED
      BY <1>2, <3>5, <3>6, <3>8
  <2>4. QED
    BY <2>1, <2>2, <2>3
<1>3. QED
  BY <1>1, <1>2

(* A cache that answers a write-back names it.                             *)
LEMMA Answers ==
  ASSUME Sound, NEW k \in LCE, LceStep(k), NEW c \in CCE, NEW m, WbResp(c, m)', ~WbResp(c, m)
  PROVE  /\ LceWb(k) \/ LceWbDirtySend(k)
         /\ lceState[k] \in Passed /\ lceCmd[k] # None /\ lceCmd[k].src = c
         /\ m.addr = lceCmd[k].addr /\ lceCmd[k].type \in {"st_wb", "st_tr_wb"}
         /\ LceWb(k) => m.type = "null_wb" /\ ~dirty[k][CmdFrame(k)]
         /\ LceWbDirtySend(k) => m.type = "wb" /\ m.data = dataBuf[k]
<1>1. respNet' # respNet
  BY DEF WbResp
<1>2. LceWb(k) \/ LceWbDirtySend(k)
  <2>1. m \in respNet' /\ m \notin respNet /\ m.type \in {"wb", "null_wb"}
    BY DEF WbResp
  <2>2. ~LceSync(k)
    BY <2>1 DEF LceSync, Respond
  <2>3. ~LceInv(k)
    BY <2>1 DEF LceInv, Respond, CmdResp
  <2>4. ~LceCohAck(k)
    BY <2>1 DEF LceCohAck, Respond, CmdResp
  <2>5. QED
    BY <1>1, <2>2, <2>3, <2>4, LceRespBy
<1>3. lceState[k] \in Passed
  BY <1>2 DEF LceWb, LceWbDirtySend, Passed
<1>4. lceCmd[k] # None /\ lceCmd[k].type \in {"st_wb", "st_tr_wb"}
  BY <1>3 DEF Sound, Base, IInv, LceOK, CmdWF, Passed, Holds
<1>5. CASE LceWb(k)
  <2>1. m = CmdResp(k, "null_wb") /\ ~dirty[k][CmdFrame(k)]
    BY <1>1, <1>5 DEF LceWb, Respond, WbResp
  <2>2. ~LceWbDirtySend(k)
    BY <1>5 DEF LceWb, LceWbDirtySend
  <2>3. QED
    BY <1>2, <1>3, <1>4, <2>1, <2>2 DEF CmdResp, WbResp
<1>6. CASE LceWbDirtySend(k)
  <2>1. m = [type |-> "wb", src |-> k, dst |-> lceCmd[k].src, addr |-> lceCmd[k].addr,
             data |-> dataBuf[k]]
    BY <1>6 DEF LceWbDirtySend, Respond, WbResp
  <2>2. ~LceWb(k)
    BY <1>6 DEF LceWb, LceWbDirtySend
  <2>3. QED
    BY <1>2, <1>3, <1>4, <2>1, <2>2 DEF WbResp
<1>7. QED
  BY <1>2, <1>5, <1>6

(* VictimFreed, step of a cache.                                           *)
LEMMA VictimFreedLce ==
  ASSUME Rights, NEW k \in LCE, LceStep(k)
  PROVE  VictimFreed'
<1> SUFFICES ASSUME NEW c \in CCE, NEW m, WbResp(c, m)', cceState'[c] = "replacement_wb_resp"
             PROVE  tag'[mshr'[c].lce][<<ReqSet(c)', mshr'[c].lru>>].st \notin Owned
  BY DEF VictimFreed
<1>1. mshr' = mshr /\ cceState' = cceState
  BY LceLeaves
<1>2. Evicting(c) /\ ReqSet(c)' = ReqSet(c) /\ cceState[c] = "replacement_wb_resp"
  BY <1>1 DEF Evicting, ReqSet
<1>3. AtFsm(c) /\ mshr[c].lce \in LCE /\ mshr[c].lru \in Way
  BY <1>2, EvictingFsm, RightsParts
<1>4. CASE WbResp(c, m)
  <2>1. tag[mshr[c].lce][<<ReqSet(c), mshr[c].lru>>].st \notin Owned
    BY <1>2, <1>4, RightsParts DEF VictimFreed
  <2>2. tag'[mshr[c].lce][<<ReqSet(c), mshr[c].lru>>].st \notin Owned
    BY <1>3, <2>1, FsmStill, RightsParts
  <2>3. QED
    BY <1>1, <1>2, <2>2
<1>5. CASE ~WbResp(c, m)
  <2>1. /\ lceState[k] \in Passed /\ lceCmd[k] # None /\ lceCmd[k].src = c
        /\ lceCmd[k].type \in {"st_wb", "st_tr_wb"}
    BY <1>5, Answers, RightsParts
  <2>2. PICK n : n = lceCmd[k]
    OBVIOUS
  <2>3. Present(n)
    BY <2>1, <2>2 DEF Present
  <2>4. n.type = WbType(c) /\ SetOf[n.addr] = ReqSet(c)
    BY <2>1, <2>2, <2>3, PresentWb, RightsParts
  <2>5. n.type = "st_wb"
    BY <1>2, <2>4 DEF WbType
  <2>6. n.dst = mshr[c].lce /\ n.way = mshr[c].lru
    BY <2>1, <2>2, <2>3, <2>5, RightsParts DEF VictimCmd
  <2>7. n.dst = k
    BY <2>1, <2>2, Lces, RightsParts
  <2>8. CmdFrame(k) = <<ReqSet(c), mshr[c].lru>>
    BY <2>2, <2>4, <2>6 DEF CmdFrame, FrameOf
  <2>9. tag[k][CmdFrame(k)].st \notin Owned
    BY <2>1, RightsParts DEF GiveBegun, Begun
  <2>10. tag' = tag
    BY <2>1, BusyStill DEF Passed
  <2>11. QED
    BY <1>1, <1>2, <2>6, <2>7, <2>8, <2>9, <2>10
<1>6. QED
  BY <1>4, <1>5

(* FreeFrame, step of a cache.                                             *)
LEMMA FreeFrameLce ==
  ASSUME Rights, NEW k \in LCE, LceStep(k)
  PROVE  FreeFrame'
<1> SUFFICES ASSUME NEW s \in Set, NEW l \in LCE, NEW w \in Way, NEW b,
                    l \in Open(s)', ~Early(s)', ~(Serving(s) /\ Evicting(HomeOf[s]))',
                    w = miss'[l].lru, b = miss'[l].addr, Copy(l, s, w, b)',
                    tag'[l][<<s, w>>].st \in Owned
             PROVE  tag'[l][<<s, w>>].blk = b
  BY DEF FreeFrame
<1>1. mshr' = mshr /\ cceState' = cceState /\ dir' = dir
  BY LceLeaves
<1>2. l \in Open(s) /\ miss'[l] = miss[l]
  BY OpenBack, RightsParts
<1>3. ~Early(s)
  BY EarlyLce
<1>4. ~(Serving(s) /\ Evicting(HomeOf[s]))
  BY <1>1 DEF Serving, Evicting, ReqSet
<1>5. Copy(l, s, w, b)
  BY <1>1 DEF Copy
<1>6. tag[l][<<s, w>>].st \notin Owned \/ tag[l][<<s, w>>].blk = b
  BY <1>2, <1>3, <1>4, <1>5, RightsParts DEF FreeFrame
<1>7. CASE l = k /\ Brought(k, s, w)
  BY <1>2, <1>7 DEF Brought
<1>8. CASE ~(l = k /\ Brought(k, s, w))
  <2>1. /\ tag'[l][<<s, w>>].st = tag[l][<<s, w>>].st
        /\ tag'[l][<<s, w>>].blk = tag[l][<<s, w>>].blk
    BY <1>8, TagNew, RightsParts DEF Owned
  <2>2. QED
    BY <1>6, <2>1
<1>9. QED
  BY <1>7, <1>8

(* GrantsWrite, step of a cache.                                           *)
LEMMA GrantsWriteLce ==
  ASSUME Rights, NEW k \in LCE, LceStep(k)
  PROVE  GrantsWrite'
<1> SUFFICES ASSUME NEW s \in Set, NEW l \in LCE, NEW w \in Way, NEW b, l \in Open(s)', ~Early(s)',
                    miss'[l].op # "rd", b = miss'[l].addr, Copy(l, s, w, b)'
             PROVE  dir'[l][<<s, w>>].st = "M"
  BY DEF GrantsWrite, Copy
<1>1. dir' = dir
  BY LceLeaves
<1>2. l \in Open(s) /\ miss'[l] = miss[l]
  BY OpenBack, RightsParts
<1>3. ~Early(s)
  BY EarlyLce
<1>4. Copy(l, s, w, b) /\ b = miss[l].addr
  BY <1>1, <1>2 DEF Copy
<1>5. QED
  BY <1>1, <1>2, <1>3, <1>4, RightsParts DEF GrantsWrite

(* A cache whose core still has to try again leaves its tags alone.        *)
LEMMA ReplayStill ==
  ASSUME Sound, NEW k \in LCE, LceStep(k), miss[k].phase = "replay", Past(k)
  PROVE  tag' = tag /\ Past(k)'
<1>1. tag' = tag
  BY TagBy DEF LceClear, LceInv, LceData, LceStWakeup, LceStWb, LceStTr, LceTagOnly, Executes, Past
<1>2. lceState \in [LCE -> LceCmdStates]
  BY DEF Sound, Base, IInv, LceOK, LceTypeOK
<1>3. Past(k)'
  BY <1>2, LceStateBy
  DEF LceReset, LceClear, LceData, LceStWakeup, LceStWb, LceStTr, LceCohAck, LceTr,
    LceWbStatRd, LceWb, LceWbDirtyRd, LceWbDirtySend, LceGoto, Past
<1>4. QED
  BY <1>1, <1>3

(* A store that was granted its block owns it when it is tried again.      *)
LEMMA AckOwns ==
  ASSUME Rights, NEW k \in LCE, LceCohAck(k), miss[k].op # "rd"
  PROVE  \E w \in Way : Hit(k, miss[k].addr, w, Owned)
<1>1. lceState[k] = "coh_ack"
  BY DEF LceCohAck
<1>2. PICK b \in Block, w \in Way :
        /\ b = lceCmd[k].addr /\ w = lceCmd[k].way /\ CmdFrame(k) = <<SetOf[b], w>>
        /\ lceCmd[k] \in Command /\ lceCmd[k] # None /\ lceCmd[k].dst = k
        /\ lceCmd[k].type \in {"data", "st_wakeup"}
        /\ Tok("lce", k, 0, k, b, "cached")
  BY <1>1, AckToken, RightsParts, SoundParts
<1>3. PICK s \in Set : s = SetOf[b]
  BY <1>2, ConstantsAssumption
<1>4. k \in Open(s) /\ miss[k].addr = b
  BY <1>2, <1>3, TokOpen, RightsParts, SoundParts
<1>5. ~Early(s)
  <2>1. Early(s) => AtFsm(HomeOf[s]) /\ ReqSet(HomeOf[s]) = s
    BY DEF Early, Serving, AtFsm, Unsourced, Working, Cached
  <2>2. HomeOf[s] \in CCE
    BY <1>4, OpenPast, RightsParts
  <2>3. QED
    BY <1>2, <1>3, <2>1, <2>2, FsmNot, RightsParts, SoundParts
<1>6. Grants(lceCmd[k])
  BY <1>1, <1>2, RightsParts, SoundParts DEF GrantInv, GrantHeld, Passed
<1>7. Copy(k, s, w, b)
  BY <1>2, <1>3, <1>6 DEF Grants, Granted, Entered, Copy, FrameOf
<1>8. dir[k][<<s, w>>].st = "M"
  BY <1>4, <1>5, <1>7, RightsParts DEF GrantsWrite
<1>9. tag[k][<<s, w>>].st = "M" /\ tag[k][<<s, w>>].blk = b
  BY <1>1, <1>2, <1>3, <1>7, <1>8, RightsParts, SoundParts DEF Acked, Copy
<1>10. Hit(k, b, w, Owned)
  BY <1>1, <1>3, <1>9 DEF Hit, FrameOf, Owned
<1>11. QED
  BY <1>4, <1>10

(* ReplayOwns, step of a cache.                                            *)
LEMMA ReplayOwnsLce ==
  ASSUME Rights, NEW k \in LCE, LceStep(k)
  PROVE  ReplayOwns'
<1> SUFFICES ASSUME NEW l \in LCE, NEW b, b = miss'[l].addr, miss'[l].phase = "replay",
                    miss'[l].op # "rd"
             PROVE  \E w \in Way : Hit(l, b, w, Owned)'
  BY DEF ReplayOwns, Hit
<1>1. CASE l # k
  <2>1. miss'[l] = miss[l] /\ tag'[l] = tag[l] /\ lceState'[l] = lceState[l]
    BY <1>1, LceOthers, RightsParts, SoundParts
  <2>2. PICK w \in Way : Hit(l, b, w, Owned)
    BY <2>1, RightsParts DEF ReplayOwns
  <2>3. Hit(l, b, w, Owned)'
    BY <2>1, <2>2 DEF Hit
  <2>4. QED
    BY <2>3
<1>2. CASE l = k /\ miss' = miss
  <2>1. PICK w \in Way : Hit(k, b, w, Owned)
    BY <1>2, RightsParts DEF ReplayOwns
  <2>2. tag' = tag /\ Past(k)'
    BY <1>2, <2>1, ReplayStill, RightsParts DEF Hit, Past
  <2>3. Hit(k, b, w, Owned)'
    BY <2>1, <2>2 DEF Hit, Past
  <2>4. QED
    BY <1>2, <2>3
<1>3. CASE l = k /\ miss' # miss
  <2>1. miss \in [LCE -> Miss]
    BY RightsParts DEF Sound, Base, IInv, CoreOK, CoreTypeOK
  <2>2. LceUcData(k) \/ LceCohAck(k)
    <3>1. ASSUME LceSendReq(k)
          PROVE  FALSE
      <4>1. miss' = [miss EXCEPT ![k].phase = "sent"]
        BY <3>1 DEF LceSendReq
      <4>2. QED
        BY <1>3, <2>1, <4>1 DEF Miss
    <3>2. ~CoreReplay(k) /\ ~LockExpire(k)
      BY <1>3, <2>1 DEF CoreReplay, LockExpire, NoMiss
    <3>3. ASSUME NEW a \in Block, NEW op \in CoreOps, NEW w \in Way, CoreMiss(k, a, op, w)
          PROVE  FALSE
      BY <1>3, <2>1, <3>3 DEF CoreMiss
    <3>4. ASSUME NEW a \in IoBlock, CoreUcLoad(k, a)
          PROVE  FALSE
      BY <1>3, <2>1, <3>4 DEF CoreUcLoad, NoMiss
    <3>5. QED
      BY <1>3, <3>1, <3>2, <3>3, <3>4, MissBy
  <2>3. CASE LceUcData(k)
    <3>1. Waits(k, lceCmd[k].addr, Kind(lceCmd[k].type = "uc_data")) /\ lceCmd[k].type = "uc_data"
      BY <2>3, MissEnds, RightsParts DEF Sound, Base, LceUcData, Executes, Holds
    <3>2. miss[k].op = "uc_rd"
      BY <3>1 DEF Waits, Kind
    <3>3. miss'[k] = NoMiss
      BY <2>1, <2>3, <3>2 DEF LceUcData, Complete
    <3>4. QED
      BY <1>3, <3>3 DEF NoMiss
  <2>4. CASE LceCohAck(k)
    <3>1. miss'[k].op = miss[k].op /\ b = miss[k].addr
      BY <1>3, <2>1, <2>4 DEF LceCohAck, Complete, NoMiss, Miss
    <3>2. PICK w \in Way : Hit(k, b, w, Owned)
      BY <1>3, <2>4, <3>1, AckOwns
    <3>3. tag' = tag
      BY <2>4, BusyStill DEF LceCohAck
    <3>4. lceState \in [LCE -> LceCmdStates]
      BY RightsParts DEF Sound, Base, IInv, LceOK, LceTypeOK
    <3>5. lceState'[k] = "ready"
      BY <2>4, <3>4 DEF LceCohAck, LceGoto
    <3>6. Hit(k, b, w, Owned)'
      BY <3>2, <3>3, <3>5 DEF Hit
    <3>7. QED
      BY <1>3, <3>6
  <2>5. QED
    BY <2>2, <2>3, <2>4
<1>4. QED
  BY <1>1, <1>2, <1>3

(* A block comes to the way it had or to a cache that has it in no way.    *)
LEMMA BroughtAlone ==
  ASSUME Sound, NEW k \in LCE, NEW s \in Set, NEW w \in Way, Brought(k, s, w),
         NEW v \in Way, Tagged(k, s, v, tag'[k][<<s, w>>].blk)
  PROVE  w = v
<1> SUFFICES ASSUME w # v
             PROVE  FALSE
  OBVIOUS
<1>1. PICK m :
        /\ Doing(k, m, s, w) /\ m.addr \in Block /\ s = SetOf[m.addr]
        /\ Tok("lce", k, 0, k, m.addr, "cached") /\ k \in Open(s) /\ miss[k].addr = m.addr
        /\ tag'[k][<<s, w>>].blk = m.addr /\ Copy(k, s, w, m.addr)
  BY DEF Brought
<1>2. InService(HomeOf[s]) /\ Cleared(HomeOf[s])
  BY <1>1, OpenPast
<1>3. Tagged(k, s, v, m.addr)
  BY <1>1
<1>4. ASSUME Copy(k, s, v, m.addr)
      PROVE  FALSE
  BY <1>1, <1>2, <1>4, SoundParts DEF DirInv, DirOne
<1>5. CASE Same(k, s, v)
  BY <1>3, <1>4, <1>5 DEF Same, Tagged, Copy
<1>6. CASE ToUpgrade(k, s, v)
  BY <1>1, <1>4, <1>6 DEF ToUpgrade, Copy
<1>7. CASE ToFill(k, s, v)
  BY <1>1, <1>3, <1>7 DEF ToFill
<1>8. CASE Invalidating(HomeOf[s]) /\ ReqSet(HomeOf[s]) = s /\ HomeOf[s] \in CCE
  BY <1>8, NoneBrought DEF AtFsm, Invalidating, Unsourced, Working, Cached
<1>9. CASE HasGiver(k, s)
  <2>1. PICK a \in {"cmd", "lce"}, j \in LCE, b \in Block : \E x :
          Tok(a, x, 0, j, b, "cached") /\ SetOf[b] = s /\ j # k
    BY <1>9 DEF HasGiver
  <2>2. PICK x : Tok(a, x, 0, j, b, "cached")
    BY <2>1
  <2>3. a # "req" /\ 0 \in Nat
    OBVIOUS
  <2>4. j = k
    BY <1>1, <2>1, <2>2, <2>3, OnePlace, SoundParts
  <2>5. QED
    BY <2>1, <2>4
<1>10. QED
  BY <1>2, <1>5, <1>6, <1>7, <1>8, <1>9, Differs, SoundParts

(* TagOne, step of a cache.                                                *)
LEMMA TagOneLce ==
  ASSUME Rights, NEW k \in LCE, LceStep(k)
  PROVE  TagOne'
<1> SUFFICES ASSUME NEW s \in Set, NEW l \in LCE, NEW w \in Way, NEW v \in Way, NEW b,
                    Past(l)', Tagged(l, s, w, b)', Tagged(l, s, v, b)'
             PROVE  w = v
  BY DEF TagOne
<1>1. Sound
  BY RightsParts
<1>2. CASE l # k
  <2>1. tag'[l] = tag[l] /\ lceState'[l] = lceState[l]
    BY <1>2, <1>1, LceOthers, SoundParts
  <2>2. Past(l) /\ Tagged(l, s, w, b) /\ Tagged(l, s, v, b)
    BY <2>1 DEF Past, Tagged
  <2>3. QED
    BY <2>2, RightsParts DEF TagOne
<1>3. CASE l = k /\ ~Past(k)
  <2>1. TagCleared(k)
    BY <1>3, <1>1, PastStep, SoundParts
  <2>2. QED
    BY <1>3, <2>1 DEF TagCleared, Tagged
<1>4. CASE l = k /\ Past(k)
  <2>1. ASSUME NEW u \in Way, Tagged(l, s, u, b)'
        PROVE  Tagged(k, s, u, b) \/ Brought(k, s, u)
    <3>1. tag'[k][<<s, u>>].st # "I" /\ tag'[k][<<s, u>>].blk = b
      BY <1>4, <2>1 DEF Tagged
    <3>2. QED
      BY <1>1, <3>1, TagNew DEF Tagged
  <2>2. CASE Tagged(k, s, w, b) /\ Tagged(k, s, v, b)
    BY <1>4, <2>2, RightsParts DEF TagOne
  <2>3. CASE Brought(k, s, w) /\ Tagged(k, s, v, b)
    <3>1. tag'[k][<<s, w>>].blk = b
      BY <1>4 DEF Tagged
    <3>2. QED
      BY <1>1, <2>3, <3>1, BroughtAlone
  <2>4. CASE Brought(k, s, v) /\ Tagged(k, s, w, b)
    <3>1. tag'[k][<<s, v>>].blk = b
      BY <1>4 DEF Tagged
    <3>2. v = w
      BY <1>1, <2>4, <3>1, BroughtAlone
    <3>3. QED
      BY <3>2
  <2>5. CASE Brought(k, s, w) /\ Brought(k, s, v)
    BY <2>5 DEF Brought, Doing
  <2>6. QED
    BY <2>1, <2>2, <2>3, <2>4, <2>5
<1>5. QED
  BY <1>2, <1>3, <1>4

(* RightsInv, step of a cache.                                             *)
LEMMA RightsLce ==
  ASSUME Rights, NEW k \in LCE, LceStep(k)
  PROVE  RightsInv'
<1>1. TagOne' /\ InvShared' /\ WakeFsm' /\ WakeCmd' /\ FreeFrame'
  BY TagOneLce, InvSharedLce, WakeFsmLce, WakeCmdLce, FreeFrameLce
<1>2. VictimAlone' /\ SharedLeft' /\ LeftCopies' /\ SharedSent' /\ KnownVictim' /\ VictimCmd'
  BY EngineLce
<1>3. VictimTag' /\ VictimFreed' /\ GrantsWrite' /\ ReplayOwns' /\ MovesWrite'
  BY VictimTagLce, VictimFreedLce, GrantsWriteLce, ReplayOwnsLce, MovesWriteLce
<1>4. GiveTag' /\ GiveBegun'
  BY GiveTagLce, GiveBegunLce
<1>5. QED
  BY <1>1, <1>2, <1>3, <1>4 DEF RightsInv

----------------------------------------------------------------------------
(* The rights of the caches, step of an engine.                            *)

(* What RightsInv says of the caches alone, step of an engine.             *)
LEMMA StillCce ==
  ASSUME Rights, NEW c \in CCE, CceStep(c)
  PROVE  TagOne' /\ GiveBegun' /\ ReplayOwns'
<1>1. tag' = tag /\ lceState' = lceState /\ lceCmd' = lceCmd /\ miss' = miss
  BY CceLeaves
<1>2. TagOne'
  BY <1>1, RightsParts DEF TagOne, Past, Tagged
<1>3. GiveBegun'
  BY <1>1, RightsParts DEF GiveBegun, CmdFrame
<1>5. ReplayOwns'
  BY <1>1, RightsParts DEF ReplayOwns, Hit
<1>6. QED
  BY <1>2, <1>3, <1>5

(* The engine works on: nothing moves in its sets but what its state does. *)
LEMMA DirHeld ==
  ASSUME Sound, NEW c \in CCE, CceStep(c), cceState[c] \in Cached,
         ~CceWriteNextState(c), ~CceInvCmd(c), ~CceTransfer(c)
  PROVE  \A k \in LCE, w \in Way : dir'[k][<<ReqSet(c), w>>] = dir[k][<<ReqSet(c), w>>]
<1>1. ReqSet(c) \in Set /\ HomeOf[ReqSet(c)] = c
  BY WorksHome, SoundParts DEF Base
<1>2. ~CceClearDir(c)
  BY DEF CceClearDir, Cached
<1>3. DirSame(ReqSet(c))
  BY <1>1, <1>2, DirStep, SoundParts
<1>4. QED
  BY <1>3 DEF DirSame

(* What an engine has decided stays until its request is done.             *)
LEMMA DecidedStill ==
  ASSUME Sound, NEW c \in CCE, CceStep(c), cceState'[c] \in Decided, ~CceReadDir(c)
  PROVE  /\ cceState[c] \in Decided /\ SameAnswer(c) /\ ReqSet(c)' = ReqSet(c)
         /\ StateMove(cceState[c], cceState'[c])
<1>1. cceState[c] \in Decided /\ SameAnswer(c) /\ StateMove(cceState[c], cceState'[c])
  BY DecidedMove, StateMoves, SoundParts DEF Base
<1>2. QED
  BY <1>1 DEF SameAnswer, SameRequest, ReqSet

(* KnownVictim, step of an engine.                                         *)
LEMMA KnownVictimCce ==
  ASSUME Rights, NEW c \in CCE, CceStep(c)
  PROVE  KnownVictim'
<1> SUFFICES ASSUME NEW d \in CCE, cceState'[d] = "write_next_state", ~mshr'[d].uf
             PROVE  /\ mshr'[d].rf <=> dir'[mshr'[d].lce][<<ReqSet(d)', mshr'[d].lru>>].st \in Owned
                    /\ mshr'[d].rf => dir'[mshr'[d].lce][<<ReqSet(d)', mshr'[d].lru>>].blk = mshr'[d].lruBlk
  BY DEF KnownVictim
<1>1. CASE d # c
  <2>1. /\ cceState'[d] = cceState[d] /\ mshr'[d] = mshr[d] /\ ReqSet(d)' = ReqSet(d)
        /\ cceState[d] \in Cached =>
              \A k \in LCE, w \in Way : dir'[k][<<ReqSet(d), w>>] = dir[k][<<ReqSet(d), w>>]
    BY <1>1, Elsewhere, RightsParts, SoundParts
  <2>2. AtFsm(d)
    BY <2>1 DEF AtFsm, Unsourced, Working, Cached
  <2>3. mshr[d].lce \in LCE /\ mshr[d].lru \in Way
    BY <2>2, FsmHas, RightsParts, SoundParts
  <2>4. dir'[mshr[d].lce][<<ReqSet(d), mshr[d].lru>>] = dir[mshr[d].lce][<<ReqSet(d), mshr[d].lru>>]
    BY <2>1, <2>3 DEF Cached
  <2>5. QED
    BY <2>1, <2>4, RightsParts DEF KnownVictim
<1>2. CASE d = c /\ CceReadDir(c)
  <2>1. /\ mshr'[c].lce = mshr[c].lce /\ mshr'[c].addr = mshr[c].addr /\ mshr'[c].lru = mshr[c].lru
        /\ mshr'[c].lruBlk = dir[mshr[c].lce][FrameOf(mshr[c].addr, mshr[c].lru)].blk
        /\ mshr'[c].rf = Replace(dir, mshr[c].lce, mshr[c].addr, mshr[c].write, mshr[c].lru)
        /\ mshr'[c].uf = Upgrade(dir, mshr[c].lce, mshr[c].addr, mshr[c].write)
    BY <1>2, ReadDirMshr, RightsParts, SoundParts DEF Base
  <2>2. dir' = dir
    BY <1>2 DEF CceReadDir, dirVars
  <2>3. ReqSet(c)' = SetOf[mshr[c].addr]
    BY <2>1 DEF ReqSet
  <2>4. QED
    BY <1>2, <2>1, <2>2, <2>3 DEF Replace, FrameOf
<1>3. CASE d = c /\ ~CceReadDir(c)
  <2>1. cceState[c] = "write_next_state"
    BY <1>3, DecidedStill, RightsParts DEF Decided, StateMove, Moves1, After, Cached
  <2>2. ~CceWriteNextState(c)
    BY <1>3, WriteStep, RightsParts, SoundParts, SMTT(40) DEF Filled, FillStep
  <2>3. UNCHANGED <<cceState, mshr>>
    BY <2>1, <2>2, FsmBy DEF CceReset, CceClearDir, CceLeaveUncached, CceSyncAck,
         CceUcReq, CceReadPending, CceDeqReq, CceReadMemSpec, CceReadDir, CceReplacement,
         CceReplacementWbResp, CceInvCmd, CceInvAck, CceUpgrade, CceTransfer, CceTransferWbResp,
         CceResolve, CceReady, CceSendSync
  <2>4. dir' = dir
    BY <2>1, <2>2, DirBy DEF CceClearDir, CceInvCmd, CceTransfer
  <2>5. QED
    BY <1>3, <2>1, <2>3, <2>4, RightsParts DEF KnownVictim, ReqSet
<1>4. QED
  BY <1>1, <1>2, <1>3

(* An engine evicts when it has written the next state.                    *)
LEMMA EvictingFrom ==
  ASSUME Sound, NEW c \in CCE, CceStep(c), Evicting(c)'
  PROVE  \/ /\ Evicting(c) /\ SameAnswer(c) /\ ReqSet(c)' = ReqSet(c)
            /\ \A k \in LCE, w \in Way : dir'[k][<<ReqSet(c), w>>] = dir[k][<<ReqSet(c), w>>]
         \/ CceWriteNextState(c) /\ mshr[c].rf /\ ~mshr[c].uf
<1>1. ~CceReadDir(c)
  BY SoundParts DEF Base, CceReadDir, Goto, Evicting, IInv, CceOK, CceTypeOK
<1>2. /\ cceState[c] \in Decided /\ SameAnswer(c) /\ ReqSet(c)' = ReqSet(c)
      /\ StateMove(cceState[c], cceState'[c])
  BY <1>1, DecidedStill DEF Evicting, Decided
<1>3. cceState[c] = "write_next_state" \/ Evicting(c)
  BY <1>2 DEF Evicting, StateMove, Moves1, After, Cached, Decided
<1>4. CASE Evicting(c)
  <2>1. ~CceWriteNextState(c) /\ ~CceInvCmd(c) /\ ~CceTransfer(c) /\ cceState[c] \in Cached
    BY <1>4 DEF CceWriteNextState, CceInvCmd, CceTransfer, Evicting, Cached
  <2>2. QED
    BY <1>2, <1>4, <2>1, DirHeld
<1>5. CASE cceState[c] = "write_next_state"
  <2>1. cceState'[c] # cceState[c]
    BY <1>5, SMTT(40) DEF Evicting
  <2>2. CceWriteNextState(c)
    BY <1>5, <2>1, FsmBy DEF CceReset, CceClearDir, CceLeaveUncached, CceSyncAck,
         CceUcReq, CceReadPending, CceDeqReq, CceReadMemSpec, CceReadDir, CceReplacement,
         CceReplacementWbResp, CceInvCmd, CceInvAck, CceUpgrade, CceTransfer, CceTransferWbResp,
         CceResolve, CceReady, CceSendSync
  <2>3. mshr[c].rf
    BY <2>2, WriteStep, SoundParts DEF Filled, FillStep, Evicting
  <2>4. ~mshr[c].uf
    BY <1>5, <2>3, SoundParts DEF DirInv, KnownInv, KnownFlags, Decided
  <2>5. QED
    BY <2>2, <2>3, <2>4
<1>6. QED
  BY <1>3, <1>4, <1>5

(* VictimAlone, step of an engine.                                         *)
LEMMA VictimAloneCce ==
  ASSUME Rights, NEW c \in CCE, CceStep(c)
  PROVE  VictimAlone'
<1> SUFFICES ASSUME NEW d \in CCE, Evicting(d)', NEW k \in LCE, NEW v \in Way,
                    dir'[k][<<ReqSet(d)', v>>].blk = mshr'[d].lruBlk,
                    dir'[k][<<ReqSet(d)', v>>].st # "I"
             PROVE  FALSE
  BY DEF VictimAlone, Copy
<1>1. CASE d # c
  <2>1. /\ cceState'[d] = cceState[d] /\ mshr'[d] = mshr[d] /\ ReqSet(d)' = ReqSet(d)
        /\ cceState[d] \in Cached =>
              \A i \in LCE, w \in Way : dir'[i][<<ReqSet(d), w>>] = dir[i][<<ReqSet(d), w>>]
    BY <1>1, Elsewhere, RightsParts, SoundParts
  <2>2. Evicting(d) /\ cceState[d] \in Cached
    BY <2>1 DEF Evicting, Cached
  <2>3. QED
    BY <2>1, <2>2, RightsParts DEF VictimAlone, Copy
<1>2. CASE d = c /\ Evicting(c) /\ SameAnswer(c) /\ ReqSet(c)' = ReqSet(c)
           /\ \A i \in LCE, w \in Way : dir'[i][<<ReqSet(c), w>>] = dir[i][<<ReqSet(c), w>>]
  BY <1>2, RightsParts DEF VictimAlone, Copy, SameAnswer
<1>3. CASE d = c /\ CceWriteNextState(c) /\ mshr[c].rf /\ ~mshr[c].uf
  <2>1. /\ cceState[c] = "write_next_state" /\ mshr' = mshr
        /\ DirPut(ReqSet(c), mshr[c].lce, mshr[c].lru, mshr[c].addr, mshr[c].next)
    BY <1>3, WriteStep, RightsParts, SoundParts DEF GrantWay
  <2>2. AtFsm(c)
    BY <2>1 DEF AtFsm, Unsourced, Working, Cached
  <2>3. PICK l \in LCE, s \in Set, w \in Way :
          /\ l = mshr[c].lce /\ s = ReqSet(c) /\ w = mshr[c].lru /\ HomeOf[s] = c
    BY <2>2, FsmHas, RightsParts, SoundParts
  <2>4. Cleared(c) /\ ~Fresh(s, l, w) /\ ~Fresh(s, k, v)
    BY <2>1, <2>3 DEF Cleared, Fresh
  <2>5. PICK b : b = mshr[c].lruBlk
    OBVIOUS
  <2>6. Copy(l, s, w, b) /\ dir[l][<<s, w>>].st \in Owned
    BY <1>3, <2>1, <2>3, <2>5, RightsParts DEF KnownVictim, Copy, Owned
  <2>7. \A u \in Way : ~Copy(l, s, u, mshr[c].addr)
    BY <1>3, <2>1, <2>3, RightsParts, SoundParts DEF DirInv, KnownInv, KnownMine
  <2>8. b # mshr[c].addr
    BY <2>6, <2>7
  <2>9. ReqSet(c)' = s
    BY <2>1, <2>3 DEF ReqSet
  <2>10. Copy(k, s, v, b) /\ ~(k = l /\ v = w)
    BY <1>3, <2>1, <2>3, <2>5, <2>8, <2>9 DEF DirPut, Copy
  <2>11. l = k
    BY <2>3, <2>4, <2>6, <2>10, RightsParts, SoundParts DEF DirInv, DirOwner
  <2>12. v = w
    BY <2>3, <2>4, <2>6, <2>10, <2>11, RightsParts, SoundParts DEF DirInv, DirOne
  <2>13. QED
    BY <2>10, <2>11, <2>12
<1>4. QED
  BY <1>1, <1>2, <1>3, EvictingFrom, RightsParts

(* VictimTag, step of an engine.                                           *)
LEMMA VictimTagCce ==
  ASSUME Rights, NEW c \in CCE, CceStep(c)
  PROVE  VictimTag'
<1> SUFFICES ASSUME NEW d \in CCE, Evicting(d)'
             PROVE  tag'[mshr'[d].lce][<<ReqSet(d)', mshr'[d].lru>>].blk = mshr'[d].lruBlk
  BY DEF VictimTag
<1>1. tag' = tag
  BY CceLeaves
<1>2. CASE d # c
  <2>1. cceState'[d] = cceState[d] /\ mshr'[d] = mshr[d] /\ ReqSet(d)' = ReqSet(d)
    BY <1>2, Elsewhere, RightsParts, SoundParts
  <2>2. QED
    BY <1>1, <2>1, RightsParts DEF VictimTag, Evicting
<1>3. CASE d = c /\ Evicting(c) /\ SameAnswer(c) /\ ReqSet(c)' = ReqSet(c)
  BY <1>1, <1>3, RightsParts DEF VictimTag, SameAnswer, SameRequest
<1>4. CASE d = c /\ CceWriteNextState(c) /\ mshr[c].rf /\ ~mshr[c].uf
  <2>1. cceState[c] = "write_next_state" /\ mshr' = mshr
    BY <1>4, WriteStep, RightsParts, SoundParts
  <2>2. AtFsm(c) /\ ~Invalidating(c)
    BY <2>1 DEF AtFsm, Unsourced, Working, Cached, Invalidating
  <2>3. PICK l \in LCE, s \in Set, w \in Way :
          /\ l = mshr[c].lce /\ s = ReqSet(c) /\ w = mshr[c].lru /\ HomeOf[s] = c
    BY <2>2, FsmHas, RightsParts, SoundParts
  <2>4. dir[l][<<s, w>>].st \in Owned /\ dir[l][<<s, w>>].blk = mshr[c].lruBlk
    BY <1>4, <2>1, <2>3, RightsParts DEF KnownVictim
  <2>5. Early(s)
    BY <2>1, <2>3 DEF Early, Serving, Working, Cached
  <2>6. Same(l, s, w)
    BY <2>2, <2>3, <2>5, FsmSettled, RightsParts, SoundParts DEF ToFill, ToUpgrade
  <2>7. tag[l][<<s, w>>].blk = mshr[c].lruBlk
    BY <2>4, <2>6 DEF Same, Owned
  <2>8. ReqSet(c)' = s
    BY <2>1, <2>3 DEF ReqSet
  <2>9. QED
    BY <1>1, <1>4, <2>1, <2>3, <2>7, <2>8
<1>5. QED
  BY <1>2, <1>3, <1>4, EvictingFrom, RightsParts

(* InvShared, step of an engine.                                           *)
LEMMA InvSharedCce ==
  ASSUME Rights, NEW c \in CCE, CceStep(c)
  PROVE  InvShared'
<1> SUFFICES ASSUME NEW m, Ready(m)', m.type = "inv"
             PROVE  tag'[m.dst][FrameOf(m.addr, m.way)].st \notin Owned
  BY DEF InvShared
<1>1. tag' = tag
  BY CceLeaves
<1>2. CASE Ready(m)
  BY <1>1, <1>2, RightsParts DEF InvShared
<1>3. CASE CmdNew(c, m)
  <2>1. CceInvCmd(c) /\ m.addr = mshr[c].addr /\ InvSent(c, m.dst, m.way)
    BY <1>3 DEF CmdNew, Given
  <2>2. cceState[c] = "inv_cmd"
    BY <2>1, InvStep, RightsParts, SoundParts
  <2>3. AtFsm(c)
    BY <2>2 DEF AtFsm, Unsourced, Working, Cached
  <2>4. PICK l \in LCE, s \in Set, w \in Way :
          /\ l = m.dst /\ s = ReqSet(c) /\ w = m.way /\ HomeOf[s] = c
          /\ l \in toInv[c] /\ sharers[c][l] = w /\ mshr[c].lce \in Open(s)
    BY <2>1, <2>3, FsmHas, RightsParts, SoundParts DEF InvSent
  <2>5. OtherCopy(c, l, w)
    BY <2>2, <2>4, RightsParts DEF LeftCopies
  <2>6. dir[l][<<s, w>>].st = "S"
    BY <2>2, <2>4, <2>5, RightsParts DEF SharedLeft
  <2>7. l \notin Open(s) /\ InService(HomeOf[s])
    BY <2>4, <2>5, OpenOne, OpenPast, RightsParts, SoundParts DEF OtherCopy
  <2>8. ~HasGiver(l, s)
    <3>1. ASSUME NEW a \in {"cmd", "lce"}, NEW j \in LCE, NEW b \in Block, NEW x,
                 Tok(a, x, 0, j, b, "cached"), SetOf[b] = s
          PROVE  FALSE
      <4>1. a \notin {"req", "fsm"} /\ 0 \in Nat
        OBVIOUS
      <4>2. ReqSet(c) # SetOf[b]
        BY <2>3, <3>1, <4>1, FsmNot, RightsParts, SoundParts
      <4>3. QED
        BY <2>4, <3>1, <4>2
    <3>2. QED
      BY <3>1 DEF HasGiver
  <2>9. Same(l, s, w)
    BY <2>6, <2>7, <2>8, Differs, RightsParts, SoundParts DEF ToFill, ToUpgrade
  <2>10. QED
    BY <1>1, <2>1, <2>4, <2>6, <2>9 DEF Same, FrameOf, ReqSet, Owned
<1>4. QED
  BY <1>2, <1>3, ReadyNew, RightsParts

(* WakeFsm, step of an engine.                                             *)
LEMMA WakeFsmCce ==
  ASSUME Rights, Sound', NEW c \in CCE, CceStep(c)
  PROVE  WakeFsm'
<1> SUFFICES ASSUME NEW d \in CCE, Granting(d)', mshr'[d].uf
             PROVE  tag'[mshr'[d].lce][<<ReqSet(d)', mshr'[d].way>>].st = "S"
  BY DEF WakeFsm
<1>1. tag' = tag
  BY CceLeaves
<1>2. CASE d # c
  <2>1. cceState'[d] = cceState[d] /\ mshr'[d] = mshr[d] /\ ReqSet(d)' = ReqSet(d)
    BY <1>2, Elsewhere, RightsParts, SoundParts
  <2>2. Granting(d)
    BY <2>1 DEF Granting
  <2>3. QED
    BY <1>1, <2>1, <2>2, RightsParts DEF WakeFsm
<1>3. CASE d = c /\ ~CceWriteNextState(c)
  <2>1. Base'
    BY DEF Sound
  <2>2. Granting(c) /\ SameAnswer(c) /\ ReqSet(c)' = ReqSet(c)
    BY <1>3, <2>1, GrantKept, RightsParts, SoundParts
  <2>3. QED
    BY <1>1, <1>3, <2>2, RightsParts DEF WakeFsm, SameAnswer, SameRequest
<1>4. CASE d = c /\ CceWriteNextState(c)
  <2>1. cceState[c] = "write_next_state" /\ mshr' = mshr
    BY <1>4, WriteStep, RightsParts, SoundParts
  <2>2. AtFsm(c) /\ ~Invalidating(c)
    BY <2>1 DEF AtFsm, Unsourced, Working, Cached, Invalidating
  <2>3. PICK l \in LCE, s \in Set :
          l = mshr[c].lce /\ s = ReqSet(c) /\ HomeOf[s] = c
    BY <2>2, FsmHas, RightsParts, SoundParts
  <2>4. PICK w \in Way : w = mshr[c].way
    BY <1>4, <2>1, MshrKnown, RightsParts, SoundParts DEF Base, Decided
  <2>5. dir[l][<<s, w>>].st = "S"
    BY <1>4, <2>1, <2>3, <2>4, RightsParts, SoundParts DEF DirInv, KnownInv, KnownMine
  <2>6. Early(s)
    BY <2>1, <2>3 DEF Early, Serving, Working, Cached
  <2>7. Same(l, s, w)
    BY <2>2, <2>3, <2>6, FsmSettled, RightsParts, SoundParts DEF ToFill, ToUpgrade
  <2>8. ReqSet(c)' = s
    BY <2>1, <2>3 DEF ReqSet
  <2>9. QED
    BY <1>1, <1>4, <2>1, <2>3, <2>4, <2>5, <2>7, <2>8 DEF Same
<1>5. QED
  BY <1>2, <1>3, <1>4

(* WakeCmd, step of an engine.                                             *)
LEMMA WakeCmdCce ==
  ASSUME Rights, NEW c \in CCE, CceStep(c)
  PROVE  WakeCmd'
<1> SUFFICES ASSUME NEW m, Ready(m)', m.type = "st_wakeup"
             PROVE  tag'[m.dst][FrameOf(m.addr, m.way)].st = "S"
  BY DEF WakeCmd
<1>1. tag' = tag
  BY CceLeaves
<1>2. CASE Ready(m)
  BY <1>1, <1>2, RightsParts DEF WakeCmd
<1>3. CASE CmdNew(c, m)
  <2>1. cceState[c] = "upgrade_stw_cmd" /\ m.dst = mshr[c].lce /\ m.addr = mshr[c].addr /\ m.way = mshr[c].way
    BY <1>3 DEF CmdNew, Given
  <2>2. mshr[c].uf
    BY <2>1, RightsParts, SoundParts DEF Base, IInv, CceOK, MshrWF
  <2>3. tag[mshr[c].lce][<<ReqSet(c), mshr[c].way>>].st = "S"
    BY <2>1, <2>2, RightsParts DEF WakeFsm, Granting
  <2>4. QED
    BY <1>1, <2>1, <2>3 DEF FrameOf, ReqSet
<1>4. QED
  BY <1>2, <1>3, ReadyNew, RightsParts

(* MovesWrite, step of an engine.                                          *)
LEMMA MovesWriteCce ==
  ASSUME Rights, NEW c \in CCE, CceStep(c)
  PROVE  MovesWrite'
<1> SUFFICES ASSUME NEW m, Present(m)', m.type = "st_tr"
             PROVE  miss'[m.target].op # "rd"
  BY DEF MovesWrite
<1>1. miss' = miss
  BY CceLeaves
<1>2. CASE Present(m)
  BY <1>1, <1>2, RightsParts DEF MovesWrite
<1>3. CASE CmdNew(c, m)
  <2>1. cceState[c] = "transfer" /\ mshr[c].write /\ m.target = mshr[c].lce
    BY <1>3 DEF CmdNew, Given
  <2>2. AtFsm(c)
    BY <2>1 DEF AtFsm, Unsourced, Working, Cached
  <2>3. QED
    BY <1>1, <2>1, <2>2, RightsParts, SoundParts DEF DirInv, KnownInv, Asked
<1>4. QED
  BY <1>2, <1>3, PresentNew, RightsParts

(* VictimCmd, step of an engine.                                           *)
LEMMA VictimCmdCce ==
  ASSUME Rights, NEW c \in CCE, CceStep(c)
  PROVE  VictimCmd'
<1> SUFFICES ASSUME NEW m, Present(m)', m.type = "st_wb"
             PROVE  m.dst = mshr'[m.src].lce /\ m.way = mshr'[m.src].lru
  BY DEF VictimCmd
<1>1. CASE Present(m)
  <2>1. PICK d \in CCE : d = m.src /\ cceState[d] = "replacement_wb_resp"
    BY <1>1, PresentVictim, RightsParts
  <2>2. m.dst = mshr[d].lce /\ m.way = mshr[d].lru
    BY <1>1, <2>1, RightsParts DEF VictimCmd
  <2>3. CASE d # c
    BY <2>1, <2>2, <2>3, Elsewhere, RightsParts, SoundParts
  <2>4. CASE d = c
    <3>1. SameRequest(c)
      BY <2>1, <2>4, FsmStays, RightsParts, SoundParts DEF Base, CceReady, CceUcReq, CceResolve
    <3>2. QED
      BY <2>1, <2>2, <2>4, <3>1 DEF SameRequest
  <2>5. QED
    BY <2>3, <2>4
<1>2. CASE CmdNew(c, m)
  <2>1. CceReplacement(c) /\ m.src = c /\ m.dst = mshr[c].lce /\ m.way = mshr[c].lru
    BY <1>2 DEF CmdNew, Given
  <2>2. mshr' = mshr
    BY <2>1 DEF CceReplacement
  <2>3. QED
    BY <2>1, <2>2
<1>3. QED
  BY <1>1, <1>2, PresentNew, RightsParts

(* GiveTag, step of an engine.                                             *)
LEMMA GiveTagCce ==
  ASSUME Rights, NEW c \in CCE, CceStep(c)
  PROVE  GiveTag'
<1> SUFFICES ASSUME NEW m, Present(m)', m.type \in Giving
             PROVE  tag'[m.dst][FrameOf(m.addr, m.way)].blk = m.addr
  BY DEF GiveTag
<1>1. tag' = tag
  BY CceLeaves
<1>2. CASE Present(m)
  BY <1>1, <1>2, RightsParts DEF GiveTag
<1>3. CASE CmdNew(c, m) /\ m.type = "st_wb"
  <2>1. /\ cceState[c] = "replacement" /\ m.dst = mshr[c].lce /\ m.addr = mshr[c].lruBlk
        /\ m.way = mshr[c].lru
    BY <1>3 DEF CmdNew, Given
  <2>2. mshr[c].rf
    BY <2>1, RightsParts, SoundParts DEF Base, SerialInv, MshrInv, MshrFlagsOK
  <2>3. SetOf[mshr[c].lruBlk] = ReqSet(c)
    BY <2>1, <2>2, RightsParts, SoundParts DEF Base, SerialInv, DirSetInv, VictimSet, Decided
  <2>4. QED
    BY <1>1, <2>1, <2>3, RightsParts DEF VictimTag, Evicting, FrameOf
<1>4. CASE CmdNew(c, m) /\ m.type # "st_wb"
  <2>1. CceTransfer(c) /\ cceState[c] = "transfer" /\ Given(c, m)
    BY <1>4 DEF CmdNew, Giving
  <2>2. mshr[c].xf /\ mshr[c].owner \in LCE /\ mshr[c].ownerWay \in Way
    BY <2>1, TransferStep, RightsParts, SoundParts
  <2>3. AtFsm(c) /\ ~Invalidating(c)
    BY <2>1 DEF AtFsm, Unsourced, Working, Cached, Invalidating
  <2>4. PICK l \in LCE, s \in Set, w \in Way :
          /\ l = mshr[c].owner /\ s = ReqSet(c) /\ w = mshr[c].ownerWay /\ HomeOf[s] = c
          /\ mshr[c].lce \in Open(s)
    BY <2>2, <2>3, FsmHas, RightsParts, SoundParts
  <2>5. dir[l][<<s, w>>].st \in Owned /\ l # mshr[c].lce
    BY <2>1, <2>2, <2>4, RightsParts, SoundParts DEF DirInv, KnownInv, KnownOwner
  <2>6. dir[l][<<s, w>>].blk = mshr[c].addr
    BY <2>1, <2>2, <2>4, RightsParts, SoundParts DEF Base, SerialInv, DirSetInv, FoundBlk, Decided, FrameOf, ReqSet
  <2>7. l \notin Open(s)
    BY <2>4, <2>5, OpenOne, RightsParts, SoundParts
  <2>8. Same(l, s, w)
    BY <2>3, <2>4, <2>7, FsmSettled, RightsParts, SoundParts DEF ToFill, ToUpgrade
  <2>9. tag[l][<<s, w>>].blk = mshr[c].addr
    BY <2>5, <2>6, <2>8 DEF Same, Owned
  <2>10. QED
    BY <1>1, <2>1, <2>4, <2>9 DEF Given, FrameOf, ReqSet
<1>5. QED
  BY <1>2, <1>3, <1>4, PresentNew, RightsParts

(* Between two steps of an invalidation the other copies only get fewer.   *)
LEMMA InvKept ==
  ASSUME Sound, NEW c \in CCE, CceStep(c), cceState[c] = "inv_cmd", cceState'[c] = "inv_cmd"
  PROVE  /\ SameAnswer(c) /\ ReqSet(c)' = ReqSet(c) /\ sharers' = sharers
         /\ \/ /\ toInv'[c] = toInv[c]
               /\ \A k \in LCE, w \in Way : dir'[k][<<ReqSet(c), w>>] = dir[k][<<ReqSet(c), w>>]
            \/ \E l, w : InvSent(c, l, w)
<1>1. ~CceReadDir(c) /\ ~CceWriteNextState(c) /\ ~CceTransfer(c) /\ ~CceReplacementWbResp(c)
      /\ ~CceResolve(c) /\ \A l \in LCE : ~CceReady(c, l)
  BY DEF CceReadDir, CceWriteNextState, CceTransfer, CceReplacementWbResp, CceResolve, CceReady
<1>2. SameAnswer(c) /\ ReqSet(c)' = ReqSet(c)
  BY <1>1, DecidedStill DEF Decided
<1>3. CASE CceInvCmd(c)
  BY <1>2, <1>3, InvStep, SoundParts
<1>4. CASE ~CceInvCmd(c)
  <2>1. \A k \in LCE, w \in Way : dir'[k][<<ReqSet(c), w>>] = dir[k][<<ReqSet(c), w>>]
    BY <1>1, <1>4, DirHeld DEF Cached
  <2>2. toInv' = toInv /\ sharers' = sharers
    <3>1. UNCHANGED <<cnt, toInv, sharers>> \/ CceInvAck(c)
      BY <1>1, <1>4, CntBy
    <3>2. QED
      BY <3>1 DEF CceInvAck
  <2>3. QED
    BY <1>2, <2>1, <2>2
<1>5. QED
  BY <1>3, <1>4

(* What holds when it begins to.                                           *)
LEMMA InvStarts ==
  ASSUME Sound, Sound', NEW c \in CCE, CceStep(c), cceState[c] # "inv_cmd", cceState'[c] = "inv_cmd"
  PROVE  /\ cceState[c] \in Deciding /\ ~mshr[c].xf /\ toInv'[c] = Invalidated(c)
         /\ sharers'[c] = sharers[c] /\ ReqSet(c)' = ReqSet(c)
         /\ mshr'[c].lce = mshr[c].lce /\ mshr'[c].addr = mshr[c].addr
         /\ \A k \in LCE, w \in Way : OtherCopy(c, k, w)' <=> OtherCopy(c, k, w)
         /\ \A k \in LCE, w \in Way : k # mshr[c].lce =>
              dir'[k][<<ReqSet(c), w>>] = dir[k][<<ReqSet(c), w>>]
<1>1. Base'
  BY DEF Sound
<1>2. /\ CceWriteNextState(c) \/ CceReplacementWbResp(c)
      /\ Invalidate(mshr[c]) /\ toInv'[c] = Invalidated(c) /\ cceState[c] \in Deciding
  BY <1>1, InvEntered, SoundParts
<1>3. mshr[c].csf
  BY <1>2 DEF Invalidate
<1>4. ~mshr[c].xf
  BY <1>2, <1>3, SoundParts DEF DirInv, KnownInv, KnownFlags, Deciding, Decided
<1>5. sharers' = sharers
  BY <1>2, WriteStep, EvictStep, SoundParts, SMTT(40)
<1>6. SameAnswer(c) /\ ReqSet(c)' = ReqSet(c)
  BY <1>2, DecidedStill DEF Decided, CceReadDir, CceWriteNextState, CceReplacementWbResp
<1>7. mshr'[c].lce = mshr[c].lce /\ mshr'[c].addr = mshr[c].addr
  BY <1>6 DEF SameAnswer, SameRequest
<1>8. \A k \in LCE, w \in Way : k # mshr[c].lce =>
        dir'[k][<<ReqSet(c), w>>] = dir[k][<<ReqSet(c), w>>]
  <2>1. CASE CceWriteNextState(c)
    <3>1. DirPut(ReqSet(c), mshr[c].lce, GrantWay(c), mshr[c].addr, mshr[c].next)
      BY <2>1, WriteStep, SoundParts
    <3>2. QED
      BY <3>1 DEF DirPut
  <2>2. CASE CceReplacementWbResp(c)
    BY <2>2, EvictStep, SoundParts
  <2>3. QED
    BY <1>2, <2>1, <2>2
<1>9. \A k \in LCE, w \in Way : OtherCopy(c, k, w)' <=> OtherCopy(c, k, w)
  BY <1>6, <1>7, <1>8 DEF OtherCopy, Copy
<1>10. QED
  BY <1>2, <1>4, <1>5, <1>6, <1>7, <1>8, <1>9

(* SharedLeft, step of an engine.                                          *)
LEMMA SharedLeftCce ==
  ASSUME Rights, Sound', NEW c \in CCE, CceStep(c)
  PROVE  SharedLeft'
<1> SUFFICES ASSUME NEW d \in CCE, cceState'[d] = "inv_cmd", NEW k \in LCE, NEW w \in Way,
                    OtherCopy(d, k, w)'
             PROVE  dir'[k][<<ReqSet(d)', w>>].st = "S"
  BY DEF SharedLeft
<1>1. CASE d # c
  <2>1. /\ cceState'[d] = cceState[d] /\ ReqSet(d)' = ReqSet(d)
        /\ cceState[d] \in Cached =>
              \A i \in LCE, v \in Way : dir'[i][<<ReqSet(d), v>>] = dir[i][<<ReqSet(d), v>>]
    BY <1>1, Elsewhere, RightsParts, SoundParts
  <2>2. OtherCopy(d, k, w)
    BY <1>1, <2>1, OthersElsewhere, RightsParts, SoundParts DEF Cached
  <2>3. dir[k][<<ReqSet(d), w>>].st = "S"
    BY <2>1, <2>2, RightsParts DEF SharedLeft
  <2>4. QED
    BY <2>1, <2>3 DEF Cached
<1>2. CASE d = c /\ cceState[c] # "inv_cmd"
  <2>1. /\ cceState[c] \in Deciding /\ ~mshr[c].xf /\ ReqSet(c)' = ReqSet(c) /\ OtherCopy(c, k, w)
        /\ \A i \in LCE, v \in Way : i # mshr[c].lce =>
              dir'[i][<<ReqSet(c), v>>] = dir[i][<<ReqSet(c), v>>]
    BY <1>2, InvStarts, RightsParts
  <2>2. dir[k][<<ReqSet(c), w>>].st = "S"
    BY <2>1, RightsParts, SoundParts DEF DirInv, KnownInv, KnownNoOwner
  <2>3. QED
    BY <1>2, <2>1, <2>2 DEF OtherCopy
<1>3. CASE d = c /\ cceState[c] = "inv_cmd"
  <2>1. /\ SameAnswer(c) /\ ReqSet(c)' = ReqSet(c)
        /\ \/ \A i \in LCE, v \in Way : dir'[i][<<ReqSet(c), v>>] = dir[i][<<ReqSet(c), v>>]
           \/ \E l, v : InvSent(c, l, v)
    BY <1>3, InvKept, RightsParts
  <2>2. dir'[k][<<ReqSet(c), w>>] = dir[k][<<ReqSet(c), w>>]
    <3>1. ASSUME NEW l, NEW v, InvSent(c, l, v)
          PROVE  dir'[k][<<ReqSet(c), w>>] = dir[k][<<ReqSet(c), w>>]
      BY <1>3, <2>1, <3>1 DEF InvSent, DirPut, OtherCopy, Copy
    <3>2. QED
      BY <2>1, <3>1
  <2>3. OtherCopy(c, k, w)
    BY <1>3, <2>1, <2>2 DEF OtherCopy, Copy, SameAnswer, SameRequest
  <2>4. QED
    BY <1>3, <2>1, <2>2, <2>3, RightsParts DEF SharedLeft
<1>4. QED
  BY <1>1, <1>2, <1>3

(* LeftCopies, step of an engine.                                          *)
LEMMA LeftCopiesCce ==
  ASSUME Rights, Sound', NEW c \in CCE, CceStep(c)
  PROVE  LeftCopies'
<1> SUFFICES ASSUME NEW d \in CCE, cceState'[d] = "inv_cmd", NEW k \in toInv'[d], NEW w \in Way,
                    sharers'[d][k] = w
             PROVE  OtherCopy(d, k, w)'
  BY DEF LeftCopies
<1>0. k \in LCE
  BY DEF Sound, Base, IInv, CceOK, CceTypeOK
<1>1. CASE d # c
  <2>1. /\ cceState'[d] = cceState[d] /\ toInv'[d] = toInv[d] /\ sharers'[d] = sharers[d]
    BY <1>1, Elsewhere, RightsParts, SoundParts
  <2>2. OtherCopy(d, k, w)
    BY <2>1, RightsParts DEF LeftCopies
  <2>3. QED
    BY <1>0, <1>1, <2>1, <2>2, OthersElsewhere, RightsParts, SoundParts DEF Cached
<1>2. CASE d = c /\ cceState[c] # "inv_cmd"
  <2>1. /\ cceState[c] \in Deciding /\ ~mshr[c].xf /\ toInv'[c] = Invalidated(c)
        /\ sharers'[c] = sharers[c]
        /\ OtherCopy(c, k, w)' <=> OtherCopy(c, k, w)
    BY <1>0, <1>2, InvStarts, RightsParts
  <2>2. k # mshr[c].lce
    BY <1>2, <2>1 DEF Invalidated
  <2>3. QED
    BY <1>0, <1>2, <2>1, <2>2, RightsParts, SoundParts DEF DirInv, KnownInv, KnownSharers
<1>3. CASE d = c /\ cceState[c] = "inv_cmd"
  <2>1. /\ SameAnswer(c) /\ ReqSet(c)' = ReqSet(c) /\ sharers' = sharers
        /\ \/ /\ toInv'[c] = toInv[c]
              /\ \A i \in LCE, v \in Way : dir'[i][<<ReqSet(c), v>>] = dir[i][<<ReqSet(c), v>>]
           \/ \E l, v : InvSent(c, l, v)
    BY <1>3, InvKept, RightsParts
  <2>2. k \in toInv[c] /\ dir'[k][<<ReqSet(c), w>>] = dir[k][<<ReqSet(c), w>>]
    <3>1. ASSUME NEW l, NEW v, InvSent(c, l, v)
          PROVE  k \in toInv[c] /\ dir'[k][<<ReqSet(c), w>>] = dir[k][<<ReqSet(c), w>>]
      BY <1>0, <1>3, <3>1 DEF InvSent, DirPut
    <3>2. QED
      BY <1>0, <1>3, <2>1, <3>1
  <2>3. OtherCopy(c, k, w)
    BY <1>3, <2>1, <2>2, RightsParts DEF LeftCopies
  <2>4. QED
    BY <1>3, <2>1, <2>2, <2>3 DEF OtherCopy, Copy, SameAnswer, SameRequest
<1>4. QED
  BY <1>1, <1>2, <1>3

(* SharedSent, step of an engine.                                          *)
LEMMA SharedSentCce ==
  ASSUME Rights, NEW c \in CCE, CceStep(c)
  PROVE  SharedSent'
<1> SUFFICES ASSUME NEW d \in CCE, cceState'[d] = "transfer_wb_resp", NEW k \in LCE, NEW w \in Way,
                    dir'[k][<<ReqSet(d)', w>>].blk = mshr'[d].addr,
                    dir'[k][<<ReqSet(d)', w>>].st # "I"
             PROVE  dir'[k][<<ReqSet(d)', w>>].st = "S"
  BY DEF SharedSent, Copy
<1>1. CASE d # c
  <2>1. /\ cceState'[d] = cceState[d] /\ mshr'[d] = mshr[d] /\ ReqSet(d)' = ReqSet(d)
        /\ cceState[d] \in Cached =>
              \A i \in LCE, v \in Way : dir'[i][<<ReqSet(d), v>>] = dir[i][<<ReqSet(d), v>>]
    BY <1>1, Elsewhere, RightsParts, SoundParts
  <2>2. dir'[k][<<ReqSet(d), w>>] = dir[k][<<ReqSet(d), w>>]
    BY <2>1 DEF Cached
  <2>3. QED
    BY <2>1, <2>2, RightsParts DEF SharedSent, Copy
<1>2. CASE d = c
  <2>1. ~CceReadDir(c)
    BY <1>2, RightsParts, SoundParts DEF Base, CceReadDir, Goto, IInv, CceOK, CceTypeOK
  <2>2. /\ cceState[c] \in Decided /\ SameAnswer(c) /\ ReqSet(c)' = ReqSet(c)
        /\ StateMove(cceState[c], cceState'[c])
    BY <1>2, <2>1, DecidedStill, RightsParts DEF Decided
  <2>3. cceState[c] \in {"transfer", "transfer_wb_resp"}
    BY <1>2, <2>2 DEF StateMove, Moves1, After, Cached, Decided
  <2>4. CASE cceState[c] = "transfer_wb_resp"
    <3>1. dir'[k][<<ReqSet(c), w>>] = dir[k][<<ReqSet(c), w>>]
      BY <2>4, DirHeld, RightsParts DEF CceWriteNextState, CceInvCmd, CceTransfer, Cached
    <3>2. QED
      BY <1>2, <2>2, <2>4, <3>1, RightsParts DEF SharedSent, Copy, SameAnswer, SameRequest
  <2>5. CASE cceState[c] = "transfer"
    <3>1. CceTransfer(c)
      BY <1>2, <2>5, FsmBy DEF CceReset, CceClearDir, CceLeaveUncached, CceSyncAck,
         CceUcReq, CceReadPending, CceDeqReq, CceReadMemSpec, CceReadDir, CceWriteNextState, CceReplacement,
         CceReplacementWbResp, CceInvCmd, CceInvAck, CceUpgrade, CceTransferWbResp,
         CceResolve, CceReady, CceSendSync
    <3>2. ~mshr[c].write
      <4>1. cceState \in [CCE -> CceStates]
        BY RightsParts, SoundParts DEF Base, IInv, CceOK, CceTypeOK
      <4>2. cceState'[c] = IF mshr[c].write THEN "resolve_speculation" ELSE "transfer_wb_resp"
        BY <3>1, <4>1 DEF CceTransfer, Goto
      <4>3. QED
        BY <1>2, <4>2
    <3>3. /\ mshr[c].xf /\ mshr' = mshr /\ mshr[c].owner \in LCE /\ mshr[c].ownerWay \in Way
          /\ DirPut(ReqSet(c), mshr[c].owner, mshr[c].ownerWay, mshr[c].addr, "S")
      BY <3>1, <3>2, TransferStep, RightsParts, SoundParts DEF Given
    <3>4. CASE k = mshr[c].owner /\ w = mshr[c].ownerWay
      BY <1>2, <2>2, <3>3, <3>4 DEF DirPut
    <3>5. CASE ~(k = mshr[c].owner /\ w = mshr[c].ownerWay)
      <4>1. dir'[k][<<ReqSet(c), w>>] = dir[k][<<ReqSet(c), w>>]
        BY <3>3, <3>5 DEF DirPut
      <4>2. Copy(k, ReqSet(c), w, mshr[c].addr)
        BY <1>2, <2>2, <3>3, <4>1 DEF Copy
      <4>3. AtFsm(c)
        BY <2>5 DEF AtFsm, Unsourced, Working, Cached
      <4>4. PICK s \in Set : s = ReqSet(c) /\ HomeOf[s] = c
        BY <4>3, FsmHas, RightsParts, SoundParts
      <4>5. CASE k = mshr[c].lce
        <5>1. dir[k][<<ReqSet(c), w>>].st = mshr[c].next
          BY <2>5, <4>2, <4>5, GrantedCopy, RightsParts, SoundParts DEF Granting
        <5>2. mshr[c].next = "S"
          BY <2>5, <3>2, <3>3, RightsParts, SoundParts DEF DirInv, KnownInv, KnownFlags, Decided
        <5>3. QED
          BY <1>2, <2>2, <4>1, <5>1, <5>2
      <4>6. CASE k # mshr[c].lce
        <5>1. OtherCopy(c, k, w)
          BY <4>2, <4>6 DEF OtherCopy
        <5>2. k = mshr[c].owner /\ dir[k][<<ReqSet(c), mshr[c].ownerWay>>].st \in Owned
          BY <2>5, <3>3, <5>1, RightsParts, SoundParts DEF DirInv, KnownInv, KnownOwner
        <5>3. dir[k][<<ReqSet(c), mshr[c].ownerWay>>].blk = mshr[c].addr
          BY <2>5, <3>3, <5>2, RightsParts, SoundParts DEF Base, SerialInv, DirSetInv, FoundBlk, Decided, FrameOf, ReqSet
        <5>4. Copy(k, s, mshr[c].ownerWay, mshr[c].addr) /\ Copy(k, s, w, mshr[c].addr) /\ Cleared(HomeOf[s])
          BY <2>5, <4>2, <4>4, <5>2, <5>3 DEF Copy, Owned, Cleared
        <5>5. w = mshr[c].ownerWay
          BY <3>3, <5>4, RightsParts, SoundParts DEF DirInv, DirOne
        <5>6. QED
          BY <3>5, <5>2, <5>5
      <4>7. QED
        BY <4>5, <4>6
    <3>6. QED
      BY <3>4, <3>5
  <2>6. QED
    BY <2>3, <2>4, <2>5
<1>3. QED
  BY <1>1, <1>2

(* VictimFreed, step of an engine.                                         *)
LEMMA VictimFreedCce ==
  ASSUME Rights, NEW c \in CCE, CceStep(c)
  PROVE  VictimFreed'
<1> SUFFICES ASSUME NEW d \in CCE, NEW m, WbResp(d, m)', cceState'[d] = "replacement_wb_resp"
             PROVE  tag'[mshr'[d].lce][<<ReqSet(d)', mshr'[d].lru>>].st \notin Owned
  BY DEF VictimFreed
<1>1. tag' = tag
  BY CceLeaves
<1>2. WbResp(d, m)
  BY RespFewer DEF WbResp
<1>3. cceState[d] \in {"replacement_wb_resp", "transfer_wb_resp"}
  BY <1>2, WbMine, RightsParts, SoundParts DEF Base, WbResp
<1>4. CASE d # c
  <2>1. cceState'[d] = cceState[d] /\ mshr'[d] = mshr[d] /\ ReqSet(d)' = ReqSet(d)
    BY <1>4, Elsewhere, RightsParts, SoundParts
  <2>2. QED
    BY <1>1, <1>2, <2>1, RightsParts DEF VictimFreed
<1>5. CASE d = c
  <2>1. ~CceReplacementWbResp(c)
    BY <1>5, EvictStep, RightsParts, SoundParts DEF Filled, FillStep
  <2>2. ~CceTransferWbResp(c)
    BY <1>5, RightsParts, SoundParts DEF CceTransferWbResp, Goto, Base, IInv, CceOK, CceTypeOK
  <2>3. cceState' = cceState /\ mshr' = mshr
    BY <1>3, <1>5, <2>1, <2>2, WbKept DEF WbWaiting
  <2>4. QED
    BY <1>1, <1>2, <2>3, RightsParts DEF VictimFreed, ReqSet
<1>6. QED
  BY <1>4, <1>5

(* The entry of a request is written: how its transaction stops being early.*)
LEMMA EarlyEnds ==
  ASSUME Sound, Sound', NEW c \in CCE, CceStep(c), NEW s \in Set, NEW l \in LCE, l \in Open(s)', ~Early(s)'
  PROVE  /\ l \in Open(s) /\ Cleared(HomeOf[s])
         /\ \/ ~Early(s) /\ ~(HomeOf[s] = c /\ CceWriteNextState(c) /\ s = ReqSet(c))
            \/ /\ CceWriteNextState(c) /\ HomeOf[s] = c /\ s = ReqSet(c) /\ l = mshr[c].lce
               /\ cceState[c] = "write_next_state" /\ AtFsm(c) /\ ~Invalidating(c)
               /\ Early(s) /\ Serving(s)' /\ (cceState'[c] = "replacement" <=> mshr[c].rf)
<1>1. \/ Open(s)' = Open(s)
      \/ CceDeqReq(c) /\ s = ReqSet(c)
  BY OpenDeq, OpenCce, SoundParts DEF Base
<1>2. ~(CceDeqReq(c) /\ s = ReqSet(c))
  <2> SUFFICES ASSUME CceDeqReq(c), s = ReqSet(c)
               PROVE  FALSE
    OBVIOUS
  <2>1. cceState[c] = "deq_lce_req" /\ mshr' = mshr
    BY DEF CceDeqReq
  <2>2. HomeOf[s] = c
    BY <2>1, WorksHome, SoundParts DEF Base, Cached
  <2>3. cceState'[c] = "read_mem_spec"
    BY SoundParts DEF Base, CceDeqReq, Goto, IInv, CceOK, CceTypeOK
  <2>4. ReqSet(c)' = s
    BY <2>1 DEF ReqSet
  <2>5. Early(s)'
    BY <2>2, <2>3, <2>4 DEF Early, Serving, Working, Cached
  <2>6. QED
    BY <2>5
<1>3. l \in Open(s)
  BY <1>1, <1>2
<1>4. Cleared(HomeOf[s]) /\ HomeOf[s] \in CCE
  BY <1>3, OpenPast
<1>5. CASE HomeOf[s] = c /\ CceWriteNextState(c) /\ s = ReqSet(c)
  <2>1. /\ cceState[c] = "write_next_state" /\ mshr' = mshr
        /\ mshr[c].rf => cceState'[c] = "replacement"
        /\ ~mshr[c].rf => cceState'[c] \in After
    BY <1>5, WriteStep, SoundParts DEF Filled, FillStep, After
  <2>2. AtFsm(c) /\ ~Invalidating(c) /\ Early(s)
    BY <1>5, <2>1 DEF AtFsm, Unsourced, Working, Cached, Invalidating, Early, Serving
  <2>3. mshr[c].lce \in Open(s)
    BY <1>5, <2>2, FsmHas, SoundParts
  <2>4. l = mshr[c].lce
    BY <1>3, <2>3, OpenOne, SoundParts
  <2>5. Serving(s)' /\ (cceState'[c] = "replacement" <=> mshr[c].rf)
    BY <1>5, <2>1 DEF Serving, Working, Cached, After, ReqSet
  <2>6. QED
    BY <1>3, <1>4, <1>5, <2>1, <2>2, <2>4, <2>5
<1>6. CASE ~(HomeOf[s] = c /\ CceWriteNextState(c) /\ s = ReqSet(c))
  <2> SUFFICES ASSUME Early(s)
               PROVE  FALSE
    BY <1>3, <1>4, <1>6
  <2>1. PICK h \in CCE : h = HomeOf[s]
    BY <1>4
  <2>2. cceState[h] \in {"read_mem_spec", "read_dir", "write_next_state"} /\ s = ReqSet(h)
    BY <2>1 DEF Early, Serving
  <2>3. CASE h # c
    <3>1. cceState'[h] = cceState[h] /\ ReqSet(h)' = ReqSet(h)
      BY <2>3, Elsewhere, SoundParts
    <3>2. QED
      BY <2>1, <2>2, <3>1 DEF Early, Serving
  <2>4. CASE h = c
    <3>1. SameRequest(c)
      BY <2>2, <2>4, FsmStays, SoundParts DEF Base, CceReady, CceUcReq, CceResolve
    <3>2. ReqSet(c)' = s
      BY <2>2, <2>4, <3>1 DEF SameRequest, ReqSet
    <3>3. ~CceWriteNextState(c)
      BY <1>6, <2>1, <2>2, <2>4
    <3>4. cceState'[c] \in {"read_mem_spec", "read_dir", "write_next_state"}
      <4>1. CASE cceState[c] = "write_next_state"
        <5>1. cceState' = cceState
          BY <3>3, <4>1, FsmBy DEF CceReset, CceClearDir, CceLeaveUncached, CceSyncAck,
             CceUcReq, CceReadPending, CceDeqReq, CceReadMemSpec, CceReadDir, CceReplacement,
             CceReplacementWbResp, CceInvCmd, CceInvAck, CceUpgrade, CceTransfer, CceTransferWbResp,
             CceResolve, CceReady, CceSendSync
        <5>2. QED
          BY <4>1, <5>1, SMTT(40)
      <4>2. CASE cceState[c] # "write_next_state"
        <5>1. StateMove(cceState[c], cceState'[c])
          BY StateMoves, SoundParts DEF Base
        <5>2. QED
          BY <2>2, <2>4, <4>2, <5>1 DEF StateMove, Moves1, After, Cached
      <4>3. QED
        BY <4>1, <4>2
    <3>5. QED
      BY <2>1, <2>4, <3>2, <3>4 DEF Early, Serving, Working, Cached
  <2>5. QED
    BY <2>3, <2>4
<1>7. QED
  BY <1>5, <1>6

(* The entry is written, and the frame it names is in one way.             *)
LEMMA WrittenWay ==
  ASSUME Sound, Sound', NEW c \in CCE, CceStep(c), NEW s \in Set, NEW l \in LCE, NEW w \in Way,
         CceWriteNextState(c), HomeOf[s] = c, s = ReqSet(c), l = mshr[c].lce,
         Serving(s)', Copy(l, s, w, mshr[c].addr)'
  PROVE  w = GrantWay(c) /\ dir'[l][<<s, w>>].st = mshr[c].next
<1>1. /\ DirPut(s, l, GrantWay(c), mshr[c].addr, mshr[c].next)
      /\ cceState[c] = "write_next_state"
  BY WriteStep, SoundParts
<1>2. GrantWay(c) \in Way
  BY <1>1, MshrKnown, SoundParts DEF Base, GrantWay, Decided
<1>3. dir'[l][<<s, GrantWay(c)>>].blk = mshr[c].addr /\ dir'[l][<<s, GrantWay(c)>>].st = mshr[c].next
  BY <1>1, <1>2 DEF DirPut
<1>4. mshr[c].next # "I"
  BY <1>1, SoundParts DEF DirInv, KnownInv, KnownFlags, Decided
<1>6. Cleared(HomeOf[s])'
  BY DEF Serving, Cleared, Working, Cached
<1>7. DirOne'
  BY DEF Sound, CohInv, DirInv
<1>8. w = GrantWay(c)
  <2>1. PICK v \in Way : v = GrantWay(c)
    BY <1>2
  <2>2. PICK b : b = mshr[c].addr
    OBVIOUS
  <2>3. Copy(l, s, v, b)' /\ Copy(l, s, w, b)'
    <3>1. dir'[l][<<s, v>>].blk = b /\ dir'[l][<<s, v>>].st # "I"
      BY <1>3, <1>4, <2>1, <2>2
    <3>2. mshr' = mshr
      BY DEF CceWriteNextState
    <3>3. dir'[l][<<s, w>>].blk = b /\ dir'[l][<<s, w>>].st # "I"
      BY <2>2, <3>2 DEF Copy
    <3>4. QED
      BY <3>1, <3>3 DEF Copy
  <2>4. QED
    BY <1>6, <1>7, <2>1, <2>3 DEF DirOne
<1>9. QED
  BY <1>3, <1>8

(* FreeFrame, step of an engine.                                           *)
LEMMA FreeFrameCce ==
  ASSUME Rights, Sound', NEW c \in CCE, CceStep(c)
  PROVE  FreeFrame'
<1> SUFFICES ASSUME NEW s \in Set, NEW l \in LCE, NEW w \in Way, NEW b,
                    l \in Open(s)', ~Early(s)', ~(Serving(s) /\ Evicting(HomeOf[s]))',
                    w = miss'[l].lru, b = miss'[l].addr, Copy(l, s, w, b)'
             PROVE  tag'[l][<<s, w>>].st \notin Owned \/ tag'[l][<<s, w>>].blk = b
  BY DEF FreeFrame
<1>1. tag' = tag /\ miss' = miss
  BY CceLeaves
<1>2. l \in Open(s) /\ Cleared(HomeOf[s]) /\ HomeOf[s] \in CCE
  BY EarlyEnds, RightsParts, OpenPast
<1>3. CASE ~Early(s) /\ ~(HomeOf[s] = c /\ CceWriteNextState(c) /\ s = ReqSet(c))
  <2>1. ~(HomeOf[s] = c /\ CceClearDir(c))
    BY <1>2 DEF Cleared, CceClearDir
  <2>2. Copy(l, s, w, b)
    BY <1>3, <2>1, CopyMove, RightsParts, SoundParts DEF OldCopy, Wrote
  <2>3. CASE ~(Serving(s) /\ Evicting(HomeOf[s]))
    BY <1>1, <1>2, <1>3, <2>2, <2>3, RightsParts DEF FreeFrame
  <2>4. CASE Serving(s) /\ Evicting(HomeOf[s])
    <3>1. PICK h \in CCE : h = HomeOf[s]
      BY <1>2
    <3>2. /\ AtFsm(h) /\ Evicting(h) /\ s = ReqSet(h)
          /\ mshr[h].lce \in Open(s)
      BY <2>4, <3>1, EvictingFsm, FsmHas, RightsParts, SoundParts DEF Serving
    <3>3. l = mshr[h].lce
      BY <1>2, <3>2, OpenOne, RightsParts, SoundParts
    <3>4. w = mshr[h].lru
      BY <1>1, <3>2, <3>3, RightsParts, SoundParts DEF DirInv, KnownInv, Asked
    <3>5. h = c
      <4> SUFFICES ASSUME h # c
                   PROVE  FALSE
        OBVIOUS
      <4>1. cceState'[h] = cceState[h] /\ ReqSet(h)' = ReqSet(h)
        BY Elsewhere, RightsParts, SoundParts
      <4>2. QED
        BY <2>4, <3>1, <3>2, <4>1 DEF Serving, Evicting
    <3>6. CceReplacementWbResp(c)
      <4> SUFFICES ASSUME ~CceReplacementWbResp(c)
                   PROVE  FALSE
        OBVIOUS
      <4>1. CASE cceState[c] = "replacement_wb_resp"
        <5>1. ~CceTransferWbResp(c)
          BY <4>1 DEF CceTransferWbResp
        <5>2. cceState' = cceState /\ mshr' = mshr
          BY <4>1, <5>1, WbKept DEF WbWaiting
        <5>3. QED
          BY <2>4, <3>1, <3>2, <3>5, <5>2 DEF Serving, Evicting, ReqSet
      <4>2. CASE cceState[c] = "replacement"
        <5>1. \/ cceState' = cceState /\ mshr' = mshr
              \/ CceReplacement(c)
          BY <4>2, FsmBy DEF CceReset, CceClearDir, CceLeaveUncached, CceSyncAck,
             CceUcReq, CceReadPending, CceDeqReq, CceReadMemSpec, CceReadDir, CceWriteNextState,
             CceReplacementWbResp, CceInvCmd, CceInvAck, CceUpgrade, CceTransfer, CceTransferWbResp,
             CceResolve, CceReady, CceSendSync
        <5>2. CASE CceReplacement(c)
          <6>1. cceState \in [CCE -> CceStates]
            BY RightsParts, SoundParts DEF Base, IInv, CceOK, CceTypeOK
          <6>2. cceState'[c] = "replacement_wb_resp" /\ mshr' = mshr
            BY <5>2, <6>1 DEF CceReplacement, Goto
          <6>3. QED
            BY <2>4, <3>1, <3>2, <3>5, <6>2 DEF Serving, Evicting, ReqSet, Working, Cached
        <5>3. QED
          BY <2>4, <3>1, <3>2, <3>5, <5>1, <5>2, SMTT(40) DEF Serving, Evicting, ReqSet
      <4>3. QED
        BY <3>2, <3>5, <4>1, <4>2 DEF Evicting
    <3>7. PICK m \in respNet : WritebackResp(c, m)
      BY <3>6 DEF CceReplacementWbResp
    <3>8. WbResp(c, m) /\ cceState[c] = "replacement_wb_resp"
      BY <3>6, <3>7 DEF WritebackResp, WbResp, CceReplacementWbResp
    <3>9. tag[l][<<s, w>>].st \notin Owned
      BY <3>2, <3>3, <3>4, <3>5, <3>8, RightsParts DEF VictimFreed
    <3>10. QED
      BY <1>1, <3>9
  <2>5. QED
    BY <2>3, <2>4
<1>4. CASE CceWriteNextState(c) /\ HomeOf[s] = c /\ s = ReqSet(c) /\ l = mshr[c].lce
           /\ cceState[c] = "write_next_state" /\ AtFsm(c) /\ ~Invalidating(c)
           /\ Early(s) /\ Serving(s)' /\ (cceState'[c] = "replacement" <=> mshr[c].rf)
  <2>1. ~mshr[c].rf
    BY <1>4 DEF Evicting
  <2>2. w = mshr[c].lru /\ b = mshr[c].addr
    BY <1>1, <1>4, FsmHas, RightsParts, SoundParts DEF DirInv, KnownInv, Asked
  <2>3. CASE mshr[c].uf
    <3>1. w = GrantWay(c)
      <4>1. Copy(l, s, w, mshr[c].addr)'
        <5>1. mshr' = mshr
          BY <1>4 DEF CceWriteNextState
        <5>2. QED
          BY <2>2, <5>1 DEF Copy
      <4>2. QED
        BY <1>4, <4>1, WrittenWay, RightsParts
    <3>2. tag[l][<<s, w>>].blk = b
      BY <1>4, <2>2, <2>3, <3>1, UpgradeTagged, RightsParts, SoundParts DEF GrantWay
    <3>3. QED
      BY <1>1, <3>2
  <2>4. CASE ~mshr[c].uf
    <3>1. dir[l][<<s, w>>].st \notin Owned
      BY <1>4, <2>1, <2>2, <2>4, RightsParts DEF KnownVictim
    <3>2. Same(l, s, w)
      BY <1>4, FsmSettled, RightsParts, SoundParts DEF ToFill, ToUpgrade
    <3>3. QED
      BY <1>1, <3>1, <3>2 DEF Same
  <2>5. QED
    BY <2>3, <2>4
<1>5. QED
  BY <1>3, <1>4, EarlyEnds, RightsParts

(* GrantsWrite, step of an engine.                                         *)
LEMMA GrantsWriteCce ==
  ASSUME Rights, Sound', NEW c \in CCE, CceStep(c)
  PROVE  GrantsWrite'
<1> SUFFICES ASSUME NEW s \in Set, NEW l \in LCE, NEW w \in Way,
                    l \in Open(s)', ~Early(s)', miss'[l].op # "rd",
                    Copy(l, s, w, miss[l].addr)'
             PROVE  dir'[l][<<s, w>>].st = "M"
  BY DEF GrantsWrite
<1>1. miss' = miss
  BY CceLeaves
<1>2. l \in Open(s) /\ Cleared(HomeOf[s]) /\ HomeOf[s] \in CCE
  BY EarlyEnds, RightsParts, OpenPast
<1>3. PICK b : b = miss[l].addr
  OBVIOUS
<1>4. Copy(l, s, w, b)'
  BY <1>1, <1>3 DEF Copy
<1>5. CASE ~Early(s) /\ ~(HomeOf[s] = c /\ CceWriteNextState(c) /\ s = ReqSet(c))
  <2>1. ~(HomeOf[s] = c /\ CceClearDir(c))
    BY <1>2 DEF Cleared, CceClearDir
  <2>2. Copy(l, s, w, b)
    BY <1>4, <1>5, <2>1, CopyMove, RightsParts, SoundParts DEF OldCopy, Wrote
  <2>3. dir[l][<<s, w>>].st = "M"
    BY <1>1, <1>2, <1>3, <1>5, <2>2, RightsParts DEF GrantsWrite
  <2>4. dir'[l][<<s, w>>] = dir[l][<<s, w>>]
    <3>1. CASE DirSame(s)
      BY <3>1 DEF DirSame
    <3>2. CASE HomeOf[s] = c /\ s = ReqSet(c) /\ CceInvCmd(c)
      <4>1. PICK k, v : InvSent(c, k, v)
        BY <3>2, InvStep, RightsParts, SoundParts
      <4>2. dir'[l][<<s, w>>].st # "I"
        BY <1>4 DEF Copy
      <4>3. QED
        BY <3>2, <4>1, <4>2 DEF InvSent, DirPut
    <3>3. CASE HomeOf[s] = c /\ s = ReqSet(c) /\ CceTransfer(c)
      <4>1. cceState[c] = "transfer" /\ mshr[c].xf
        BY <3>3, TransferStep, RightsParts, SoundParts
      <4>2. AtFsm(c)
        BY <4>1 DEF AtFsm, Unsourced, Working, Cached
      <4>3. mshr[c].lce \in Open(s)
        BY <3>3, <4>2, FsmHas, RightsParts, SoundParts
      <4>4. l = mshr[c].lce
        BY <1>2, <4>3, OpenOne, RightsParts, SoundParts
      <4>5. mshr[c].owner # l
        BY <4>1, <4>4, RightsParts, SoundParts DEF DirInv, KnownInv, KnownOwner
      <4>6. PICK m : DirPut(s, mshr[c].owner, mshr[c].ownerWay, mshr[c].addr, m.st)
        BY <3>3, TransferStep, RightsParts, SoundParts
      <4>7. QED
        BY <4>5, <4>6 DEF DirPut
    <3>4. QED
      BY <1>5, <2>1, <3>1, <3>2, <3>3, DirStep, RightsParts, SoundParts
  <2>5. QED
    BY <2>3, <2>4
<1>6. CASE CceWriteNextState(c) /\ HomeOf[s] = c /\ s = ReqSet(c) /\ l = mshr[c].lce
           /\ cceState[c] = "write_next_state" /\ AtFsm(c) /\ ~Invalidating(c)
           /\ Early(s) /\ Serving(s)' /\ (cceState'[c] = "replacement" <=> mshr[c].rf)
  <2>1. b = mshr[c].addr /\ mshr[c].write
    BY <1>1, <1>3, <1>6, FsmHas, RightsParts, SoundParts DEF DirInv, KnownInv, Asked
  <2>2. Copy(l, s, w, mshr[c].addr)'
    <3>1. mshr' = mshr
      BY <1>6 DEF CceWriteNextState
    <3>2. QED
      BY <1>4, <2>1, <3>1 DEF Copy
  <2>3. dir'[l][<<s, w>>].st = mshr[c].next
    BY <1>6, <2>2, WrittenWay, RightsParts
  <2>4. mshr[c].next = "M"
    BY <1>6, <2>1, RightsParts, SoundParts DEF DirInv, KnownInv, KnownFlags, Decided
  <2>5. QED
    BY <2>3, <2>4
<1>7. QED
  BY <1>5, <1>6, EarlyEnds, RightsParts

----------------------------------------------------------------------------
(* The invariant.                                                          *)

(* RightsInv, step of an engine.                                           *)
LEMMA RightsCce ==
  ASSUME Rights, Sound', NEW c \in CCE, CceStep(c)
  PROVE  RightsInv'
<1>1. TagOne' /\ GiveBegun' /\ ReplayOwns'
  BY StillCce
<1>2. InvShared' /\ WakeFsm' /\ WakeCmd' /\ KnownVictim'
  BY InvSharedCce, WakeFsmCce, WakeCmdCce, KnownVictimCce
<1>3. FreeFrame' /\ VictimAlone' /\ VictimTag' /\ VictimFreed'
  BY FreeFrameCce, VictimAloneCce, VictimTagCce, VictimFreedCce
<1>4. GrantsWrite' /\ MovesWrite' /\ SharedLeft' /\ LeftCopies'
  BY GrantsWriteCce, MovesWriteCce, SharedLeftCce, LeftCopiesCce
<1>5. SharedSent' /\ VictimCmd' /\ GiveTag'
  BY SharedSentCce, VictimCmdCce, GiveTagCce
<1>6. QED
  BY <1>1, <1>2, <1>3, <1>4, <1>5 DEF RightsInv

(* RightsInv holds at reset.                                               *)
LEMMA RightsInit ==
  ASSUME Init
  PROVE  RightsInv
<1>1. /\ \A l \in LCE : lceState[l] = "reset" /\ lceCmd[l] = None /\ miss[l].phase = "idle"
      /\ \A c \in CCE : cceState[c] = "reset"
      /\ cmdNet = {} /\ respNet = {}
  BY DEF Init, CceInit, LceInit, NoMiss
<1>2. \A l \in LCE : ~Past(l)
  BY <1>1 DEF Past
<1>3. \A m : ~Ready(m) /\ ~Present(m)
  BY <1>1 DEF Ready, Present
<1>4. \A s : Open(s) = {}
  BY <1>1 DEF Open
<1>5. TagOne /\ InvShared /\ WakeCmd /\ FreeFrame /\ GrantsWrite /\ ReplayOwns /\ MovesWrite
      /\ VictimCmd /\ GiveTag
  BY <1>1, <1>2, <1>3, <1>4 DEF TagOne, InvShared, WakeCmd, FreeFrame, GrantsWrite, ReplayOwns,
     MovesWrite, VictimCmd, GiveTag
<1>6. WakeFsm /\ KnownVictim /\ VictimAlone /\ VictimTag /\ VictimFreed /\ SharedLeft /\ LeftCopies
      /\ SharedSent
  BY <1>1 DEF WakeFsm, Granting, KnownVictim, VictimAlone, VictimTag, VictimFreed, SharedLeft,
     LeftCopies, SharedSent, Evicting
<1>7. GiveBegun
  BY <1>1 DEF GiveBegun, Begun, Passed
<1>8. QED
  BY <1>5, <1>6, <1>7 DEF RightsInv

(* RightsInv, when nothing changes.                                        *)
LEMMA RightsStutter ==
  ASSUME RightsInv, UNCHANGED vars
  PROVE  RightsInv'
<1>1. UNCHANGED <<cceState, mshr, sharers, toInv, dir, lceState, lceCmd, miss, tag, reqNet, cmdNet,
                  respNet>>
  BY DEF vars, cceVars, dirVars, cacheVars, lceVars, coreVars, netVars
<1>2. TagOne' /\ InvShared' /\ WakeFsm' /\ WakeCmd' /\ KnownVictim'
  BY <1>1, SMTT(40) DEF RightsInv, TagOne, InvShared, WakeFsm, WakeCmd, KnownVictim, Past,
    Tagged, Ready,
     Granting, ReqSet
<1>3. FreeFrame'
  BY <1>1 DEF RightsInv, FreeFrame, Open, Early, Serving, Evicting, ReqSet, Copy
<1>4. VictimAlone' /\ VictimTag' /\ VictimFreed'
  BY <1>1 DEF RightsInv, VictimAlone, VictimTag, VictimFreed, Evicting, ReqSet, Copy, WbResp
<1>5. GrantsWrite'
  BY <1>1 DEF RightsInv, GrantsWrite, Open, Early, Serving, ReqSet, Copy
<1>6. ReplayOwns' /\ MovesWrite' /\ SharedLeft' /\ LeftCopies' /\ SharedSent'
  BY <1>1 DEF RightsInv, ReplayOwns, MovesWrite, SharedLeft, LeftCopies, SharedSent, Hit, Present,
     OtherCopy, ReqSet, Copy
<1>7. VictimCmd' /\ GiveTag' /\ GiveBegun'
  BY <1>1 DEF RightsInv, VictimCmd, GiveTag, GiveBegun, Present, CmdFrame
<1>8. QED
  BY <1>2, <1>3, <1>4, <1>5, <1>6, <1>7 DEF RightsInv

(* RightsInv with all it rests on: a cache has a block in one way, what is *)
(* invalidated or evicted can no longer be written by whoever loses it, a  *)
(* fill finds its frame given up, and a store keeps the right to write     *)
(* from the acknowledgement to its replay (bp_lce_cmd, bp_cce_fsm).        *)
THEOREM RightsHeld == Spec => [](Sound /\ RightsInv)
<1>1. Init => RightsInv
  BY RightsInit
<1>2. Sound /\ Sound' /\ RightsInv /\ [Next]_vars => RightsInv'
  <2> SUFFICES ASSUME Sound, Sound', RightsInv, [Next]_vars
               PROVE  RightsInv'
    OBVIOUS
  <2>1. CASE \E c \in CCE : CceStep(c)
    BY <2>1, RightsCce DEF Rights
  <2>2. CASE \E l \in LCE : LceStep(l)
    BY <2>2, RightsLce DEF Rights
  <2>3. CASE UNCHANGED vars
    BY <2>3, RightsStutter
  <2>4. QED
    BY <2>1, <2>2, <2>3 DEF Next
<1>3. Spec => []Sound
  BY Coherent DEF Sound
<1>4. QED
  BY <1>1, <1>2, <1>3, PTL DEF Spec

----------------------------------------------------------------------------
(* Request credits: the uncached stores of a cache, place by place.        *)

(* How many places of a family of queues are in a set, once the head of    *)
(* one queue is taken.                                                     *)
LEMMA PlacesTaken ==
  ASSUME NEW C, NEW c \in C, NEW P, IsFiniteSet(P), P \subseteq C \X Nat,
         NEW T, T \subseteq C \X Nat,
         \A d \in C, i \in Nat : d # c => (<<d, i>> \in T <=> <<d, i>> \in P),
         \A i \in Nat : <<c, i>> \in T <=> i # 0 /\ <<c, i + 1>> \in P,
         <<c, 0>> \notin P
  PROVE  /\ IsFiniteSet(T)
         /\ <<c, 1>> \in P => Cardinality(T) = Cardinality(P) - 1
         /\ <<c, 1>> \notin P => Cardinality(T) = Cardinality(P)
<1>1. PICK U : U = P \ {<<c, 1>>}
  OBVIOUS
<1>2. /\ IsFiniteSet(U)
      /\ <<c, 1>> \in P => Cardinality(U) = Cardinality(P) - 1
      /\ <<c, 1>> \notin P => Cardinality(U) = Cardinality(P)
  <2>1. CASE <<c, 1>> \in P
    BY <1>1, <2>1, MinusOne
  <2>2. CASE <<c, 1>> \notin P
    <3>1. U = P
      BY <1>1, <2>2
    <3>2. QED
      BY <2>2, <3>1
  <2>3. QED
    BY <2>1, <2>2
<1>3. ExistsBijection(U, T)
  <2> DEFINE g(p) == IF p[1] = c THEN <<c, p[2] - 1>> ELSE p
             f == [p \in U |-> g(p)]
  <2>1. ASSUME NEW p \in U
        PROVE  /\ p[1] \in C /\ p[2] \in Nat /\ p = <<p[1], p[2]>>
               /\ p[1] = c => p[2] # 0 /\ p[2] # 1
    <3>1. p \in P /\ p # <<c, 1>> /\ p # <<c, 0>>
      BY <1>1
    <3>2. QED
      BY <3>1
  <2>2. ASSUME NEW p \in U
        PROVE  g(p) \in T
    <3>1. CASE p[1] = c
      <4>1. p[2] - 1 \in Nat /\ p[2] - 1 # 0 /\ (p[2] - 1) + 1 = p[2]
        BY <2>1, <3>1
      <4>2. <<c, (p[2] - 1) + 1>> \in P
        BY <1>1, <2>1, <3>1, <4>1
      <4>3. <<c, p[2] - 1>> \in T
        BY <4>1, <4>2
      <4>4. QED
        BY <3>1, <4>3
    <3>2. CASE p[1] # c
      BY <1>1, <2>1, <3>2
    <3>3. QED
      BY <3>1, <3>2
  <2>3. ASSUME NEW p \in U, NEW q \in U, g(p) = g(q)
        PROVE  p = q
    BY <2>1, <2>3
  <2>4. ASSUME NEW t \in T
        PROVE  \E p \in U : g(p) = t
    <3>1. t[1] \in C /\ t[2] \in Nat /\ t = <<t[1], t[2]>>
      OBVIOUS
    <3>2. CASE t[1] = c
      <4>1. t[2] # 0 /\ <<c, t[2] + 1>> \in P
        BY <3>1, <3>2
      <4>2. <<c, t[2] + 1>> \in U
        BY <1>1, <3>1, <4>1
      <4>3. g(<<c, t[2] + 1>>) = t
        BY <3>1, <3>2
      <4>4. QED
        BY <4>2, <4>3
    <3>3. CASE t[1] # c
      <4>1. t \in U /\ g(t) = t
        BY <1>1, <3>1, <3>3
      <4>2. QED
        BY <4>1
    <3>4. QED
      BY <3>2, <3>3
  <2> HIDE DEF g
  <2>5. f \in Injection(U, T)
    BY <2>2, <2>3 DEF Injection, IsInjective
  <2>6. f \in Surjection(U, T)
    <3>1. f \in [U -> T]
      BY <2>2
    <3>2. \A t \in T : \E p \in U : f[p] = t
      BY <2>4
    <3>3. QED
      BY <3>1, <3>2 DEF Surjection
  <2>7. QED
    BY <2>5, <2>6 DEF Bijection, ExistsBijection
<1>4. QED
  BY <1>2, <1>3, FS_Bijection

(* A family of sets of numbers as a set of pairs.                          *)
LEMMA PairsIn ==
  ASSUME NEW C, NEW F, \A c \in C : F[c] \subseteq Nat,
         NEW U, U = UNION {{c} \X F[c] : c \in C}
  PROVE  /\ U \subseteq C \X Nat
         /\ \A c \in C, i \in Nat : <<c, i>> \in U <=> i \in F[c]
<1>1. ASSUME NEW p \in U
      PROVE  \E c \in C : p \in {c} \X F[c]
  BY Zenon
<1>2. U \subseteq C \X Nat
  BY <1>1
<1>3. ASSUME NEW c \in C, NEW i \in F[c]
      PROVE  <<c, i>> \in U
  <2>1. <<c, i>> \in {c} \X F[c]
    OBVIOUS
  <2>2. QED
    BY <2>1, Zenon
<1>4. ASSUME NEW c \in C, NEW i \in Nat, <<c, i>> \in U
      PROVE  i \in F[c]
  BY <1>1, <1>4
<1>5. QED
  BY <1>2, <1>3, <1>4

(* Where the uncached stores of a cache are, place by place.               *)
LEMMA RequestPlaces ==
  ASSUME IInv, NEW l \in LCE
  PROVE  /\ UcRequests(l) \subseteq CCE \X Nat
         /\ \A c \in CCE, i \in Nat :
              <<c, i>> \in UcRequests(l) <=>
                i \in DOMAIN reqNet[<<l, c>>] /\ reqNet[<<l, c>>][i].op = "uc_wr"
<1> DEFINE G(c) == {i \in DOMAIN reqNet[<<l, c>>] : reqNet[<<l, c>>][i].op = "uc_wr"}
<1>1. PICK F : F = [c \in CCE |-> G(c)]
  OBVIOUS
<1>2. \A c \in CCE : F[c] = G(c)
  BY <1>1
<1>3. \A c \in CCE : reqNet[<<l, c>>] \in Seq(Request)
  BY DEF IInv, NetTypeOK
<1>4. \A c \in CCE : DOMAIN reqNet[<<l, c>>] \subseteq Nat
  BY <1>3
<1>5. \A c \in CCE : F[c] \subseteq Nat
  BY <1>2, <1>4
<1>6. UcRequests(l) = UNION {{c} \X F[c] : c \in CCE}
  <2>1. UcRequests(l) = UNION {{c} \X G(c) : c \in CCE}
    BY DEF UcRequests
  <2>2. {{c} \X G(c) : c \in CCE} = {{c} \X F[c] : c \in CCE}
    BY <1>2
  <2>3. QED
    BY <2>1, <2>2
<1>7. /\ UcRequests(l) \subseteq CCE \X Nat
      /\ \A c \in CCE, i \in Nat : <<c, i>> \in UcRequests(l) <=> i \in F[c]
  BY <1>5, <1>6, PairsIn
<1>8. QED
  BY <1>2, <1>7

(* The same in the next state.                                             *)
LEMMA RequestPlacesNext ==
  ASSUME IInv', NEW l \in LCE
  PROVE  /\ UcRequests(l)' \subseteq CCE \X Nat
         /\ \A c \in CCE, i \in Nat :
              <<c, i>> \in UcRequests(l)' <=>
                i \in DOMAIN reqNet'[<<l, c>>] /\ reqNet'[<<l, c>>][i].op = "uc_wr"
<1> DEFINE G(c) == {i \in DOMAIN reqNet'[<<l, c>>] : reqNet'[<<l, c>>][i].op = "uc_wr"}
<1>1. PICK F : F = [c \in CCE |-> G(c)]
  OBVIOUS
<1>2. \A c \in CCE : F[c] = G(c)
  BY <1>1
<1>3. \A c \in CCE : reqNet'[<<l, c>>] \in Seq(Request)
  BY DEF IInv, NetTypeOK
<1>4. \A c \in CCE : DOMAIN reqNet'[<<l, c>>] \subseteq Nat
  BY <1>3
<1>5. \A c \in CCE : F[c] \subseteq Nat
  BY <1>2, <1>4
<1>6. UcRequests(l)' = UNION {{c} \X F[c] : c \in CCE}
  <2>1. UcRequests(l)' = UNION {{c} \X G(c) : c \in CCE}
    BY DEF UcRequests
  <2>2. {{c} \X G(c) : c \in CCE} = {{c} \X F[c] : c \in CCE}
    BY <1>2
  <2>3. QED
    BY <2>1, <2>2
<1>7. /\ UcRequests(l)' \subseteq CCE \X Nat
      /\ \A c \in CCE, i \in Nat : <<c, i>> \in UcRequests(l)' <=> i \in F[c]
  BY <1>5, <1>6, PairsIn
<1>8. QED
  BY <1>2, <1>7

(* And in the responses of memory.                                         *)
LEMMA ResponsePlaces ==
  ASSUME IInv, NEW l \in LCE
  PROVE  /\ UcResponses(l) \subseteq CCE \X Nat
         /\ \A c \in CCE, i \in Nat :
              <<c, i>> \in UcResponses(l) <=>
                i \in DOMAIN memResp[c] /\ memResp[c][i].type = "uc_wr" /\ memResp[c][i].lce = l
<1> DEFINE G(c) == {i \in DOMAIN memResp[c] : memResp[c][i].type = "uc_wr" /\ memResp[c][i].lce = l}
<1>1. PICK F : F = [c \in CCE |-> G(c)]
  OBVIOUS
<1>2. \A c \in CCE : F[c] = G(c)
  BY <1>1
<1>3. \A c \in CCE : memResp[c] \in Seq(MemResponse)
  BY DEF IInv, MemTypeOK
<1>4. \A c \in CCE : DOMAIN memResp[c] \subseteq Nat
  BY <1>3
<1>5. \A c \in CCE : F[c] \subseteq Nat
  BY <1>2, <1>4
<1>6. UcResponses(l) = UNION {{c} \X F[c] : c \in CCE}
  <2>1. UcResponses(l) = UNION {{c} \X G(c) : c \in CCE}
    BY DEF UcResponses
  <2>2. {{c} \X G(c) : c \in CCE} = {{c} \X F[c] : c \in CCE}
    BY <1>2
  <2>3. QED
    BY <2>1, <2>2
<1>7. /\ UcResponses(l) \subseteq CCE \X Nat
      /\ \A c \in CCE, i \in Nat : <<c, i>> \in UcResponses(l) <=> i \in F[c]
  BY <1>5, <1>6, PairsIn
<1>8. QED
  BY <1>2, <1>7

(* The same in the next state.                                             *)
LEMMA ResponsePlacesNext ==
  ASSUME IInv', NEW l \in LCE
  PROVE  /\ UcResponses(l)' \subseteq CCE \X Nat
         /\ \A c \in CCE, i \in Nat :
              <<c, i>> \in UcResponses(l)' <=>
                i \in DOMAIN memResp'[c] /\ memResp'[c][i].type = "uc_wr" /\ memResp'[c][i].lce = l
<1> DEFINE G(c) == {i \in DOMAIN memResp'[c] : memResp'[c][i].type = "uc_wr" /\ memResp'[c][i].lce = l}
<1>1. PICK F : F = [c \in CCE |-> G(c)]
  OBVIOUS
<1>2. \A c \in CCE : F[c] = G(c)
  BY <1>1
<1>3. \A c \in CCE : memResp'[c] \in Seq(MemResponse)
  BY DEF IInv, MemTypeOK
<1>4. \A c \in CCE : DOMAIN memResp'[c] \subseteq Nat
  BY <1>3
<1>5. \A c \in CCE : F[c] \subseteq Nat
  BY <1>2, <1>4
<1>6. UcResponses(l)' = UNION {{c} \X F[c] : c \in CCE}
  <2>1. UcResponses(l)' = UNION {{c} \X G(c) : c \in CCE}
    BY DEF UcResponses
  <2>2. {{c} \X G(c) : c \in CCE} = {{c} \X F[c] : c \in CCE}
    BY <1>2
  <2>3. QED
    BY <2>1, <2>2
<1>7. /\ UcResponses(l)' \subseteq CCE \X Nat
      /\ \A c \in CCE, i \in Nat : <<c, i>> \in UcResponses(l)' <=> i \in F[c]
  BY <1>5, <1>6, PairsIn
<1>8. QED
  BY <1>2, <1>7

(* A channel left alone.                                                   *)
LEMMA RequestsKept ==
  ASSUME NEW l, \A c \in CCE : reqNet'[<<l, c>>] = reqNet[<<l, c>>]
  PROVE  UcRequests(l)' = UcRequests(l)
<1> DEFINE G(c) == {i \in DOMAIN reqNet[<<l, c>>] : reqNet[<<l, c>>][i].op = "uc_wr"}
           H(c) == {i \in DOMAIN reqNet'[<<l, c>>] : reqNet'[<<l, c>>][i].op = "uc_wr"}
<1>1. \A c \in CCE : H(c) = G(c)
  OBVIOUS
<1>2. /\ UcRequests(l) = UNION {{c} \X G(c) : c \in CCE}
      /\ UcRequests(l)' = UNION {{c} \X H(c) : c \in CCE}
  BY DEF UcRequests
<1> HIDE DEF G, H
<1>3. {{c} \X H(c) : c \in CCE} = {{c} \X G(c) : c \in CCE}
  BY <1>1
<1>4. QED
  BY <1>2, <1>3

(* An engine takes a request: a place less, if it is a store.              *)
LEMMA RequestsTaken ==
  ASSUME IInv, IInv', NEW l \in LCE, NEW c \in CCE, Taken(l, c),
         IsFiniteSet(UcRequests(l))
  PROVE  /\ IsFiniteSet(UcRequests(l)')
         /\ Head(reqNet[<<l, c>>]).op = "uc_wr" =>
              Cardinality(UcRequests(l)') = Cardinality(UcRequests(l)) - 1
         /\ Head(reqNet[<<l, c>>]).op # "uc_wr" =>
              Cardinality(UcRequests(l)') = Cardinality(UcRequests(l))
         /\ \A k \in LCE : k # l => UcRequests(k)' = UcRequests(k)
<1>1. PICK P, T : P = UcRequests(l) /\ T = UcRequests(l)'
  OBVIOUS
<1>2. /\ \A k \in LCE, d \in CCE : <<k, d>> # <<l, c>> =>
              reqNet'[<<k, d>>] = reqNet[<<k, d>>]
      /\ 1 \in DOMAIN reqNet[<<l, c>>]
      /\ Head(reqNet[<<l, c>>]) = reqNet[<<l, c>>][1]
      /\ \A i \in DOMAIN reqNet'[<<l, c>>] :
              /\ i + 1 \in DOMAIN reqNet[<<l, c>>] /\ i \in Nat /\ i # 0
              /\ reqNet'[<<l, c>>][i] = reqNet[<<l, c>>][i + 1]
      /\ \A i \in DOMAIN reqNet[<<l, c>>] : i # 1 =>
              /\ i - 1 \in DOMAIN reqNet'[<<l, c>>] /\ i \in Nat
              /\ reqNet'[<<l, c>>][i - 1] = reqNet[<<l, c>>][i]
  BY TakenFacts
<1>3. /\ P \subseteq CCE \X Nat /\ T \subseteq CCE \X Nat
      /\ \A d \in CCE, i \in Nat :
           <<d, i>> \in P <=>
             i \in DOMAIN reqNet[<<l, d>>] /\ reqNet[<<l, d>>][i].op = "uc_wr"
      /\ \A d \in CCE, i \in Nat :
           <<d, i>> \in T <=>
             i \in DOMAIN reqNet'[<<l, d>>] /\ reqNet'[<<l, d>>][i].op = "uc_wr"
  BY <1>1, RequestPlaces, RequestPlacesNext
<1>4. \A d \in CCE, i \in Nat : d # c => (<<d, i>> \in T <=> <<d, i>> \in P)
  <2> SUFFICES ASSUME NEW d \in CCE, NEW i \in Nat, d # c
               PROVE  <<d, i>> \in T <=> <<d, i>> \in P
    OBVIOUS
  <2>1. reqNet'[<<l, d>>] = reqNet[<<l, d>>]
    BY <1>2
  <2>2. QED
    BY <1>3, <2>1
<1>5. \A i \in Nat : <<c, i>> \in T <=> i # 0 /\ <<c, i + 1>> \in P
  <2> SUFFICES ASSUME NEW i \in Nat
               PROVE  <<c, i>> \in T <=> i # 0 /\ <<c, i + 1>> \in P
    OBVIOUS
  <2>1. i \in DOMAIN reqNet'[<<l, c>>] <=> i # 0 /\ i + 1 \in DOMAIN reqNet[<<l, c>>]
    <3>1. i + 1 \in Nat /\ (i + 1) - 1 = i /\ (i # 0 => i + 1 # 1)
      OBVIOUS
    <3>2. QED
      BY <1>2, <3>1
  <2>2. QED
    BY <1>2, <1>3, <2>1
<1>6. <<c, 0>> \notin P
  <2>1. 0 \notin DOMAIN reqNet[<<l, c>>]
    BY Channel
  <2>2. QED
    BY <1>3, <2>1
<1>7. <<c, 1>> \in P <=> Head(reqNet[<<l, c>>]).op = "uc_wr"
  BY <1>2, <1>3
<1>8. /\ IsFiniteSet(T)
      /\ <<c, 1>> \in P => Cardinality(T) = Cardinality(P) - 1
      /\ <<c, 1>> \notin P => Cardinality(T) = Cardinality(P)
  <2>1. IsFiniteSet(P)
    BY <1>1
  <2>2. QED
    BY <1>3, <1>4, <1>5, <1>6, <2>1, PlacesTaken
<1>9. ASSUME NEW k \in LCE, k # l
      PROVE  UcRequests(k)' = UcRequests(k)
  <2>1. \A d \in CCE : reqNet'[<<k, d>>] = reqNet[<<k, d>>]
    BY <1>2, <1>9
  <2>2. QED
    BY <2>1, RequestsKept
<1>10. QED
  BY <1>1, <1>7, <1>8, <1>9

(* A cache sends one.                                                      *)
LEMMA RequestsSent ==
  ASSUME IInv, IInv', NEW l \in LCE, NEW c \in CCE, NEW r \in Request, Sent(l, c, r),
         IsFiniteSet(UcRequests(l))
  PROVE  /\ IsFiniteSet(UcRequests(l)')
         /\ r.op = "uc_wr" =>
              Cardinality(UcRequests(l)') = Cardinality(UcRequests(l)) + 1
         /\ r.op # "uc_wr" => UcRequests(l)' = UcRequests(l)
         /\ \A k \in LCE : k # l => UcRequests(k)' = UcRequests(k)
<1>1. PICK P, T : P = UcRequests(l) /\ T = UcRequests(l)'
  OBVIOUS
<1>2. \A k \in LCE, d \in CCE : <<k, d>> # <<l, c>> =>
         reqNet'[<<k, d>>] = reqNet[<<k, d>>]
  BY SentFacts
<1>3. PICK n \in Nat :
         /\ n \notin DOMAIN reqNet[<<l, c>>]
         /\ DOMAIN reqNet'[<<l, c>>] = DOMAIN reqNet[<<l, c>>] \cup {n}
         /\ reqNet'[<<l, c>>][n] = r
         /\ \A i \in DOMAIN reqNet[<<l, c>>] :
              reqNet'[<<l, c>>][i] = reqNet[<<l, c>>][i]
  BY SentFacts
<1>4. /\ P \subseteq CCE \X Nat /\ T \subseteq CCE \X Nat
      /\ \A d \in CCE, i \in Nat :
           <<d, i>> \in P <=>
             i \in DOMAIN reqNet[<<l, d>>] /\ reqNet[<<l, d>>][i].op = "uc_wr"
      /\ \A d \in CCE, i \in Nat :
           <<d, i>> \in T <=>
             i \in DOMAIN reqNet'[<<l, d>>] /\ reqNet'[<<l, d>>][i].op = "uc_wr"
  BY <1>1, RequestPlaces, RequestPlacesNext
<1>5. \A d \in CCE, i \in Nat :
         <<d, i>> \in T <=> <<d, i>> \in P \/ (d = c /\ i = n /\ r.op = "uc_wr")
  <2> SUFFICES ASSUME NEW d \in CCE, NEW i \in Nat
               PROVE  <<d, i>> \in T <=>
                        <<d, i>> \in P \/ (d = c /\ i = n /\ r.op = "uc_wr")
    OBVIOUS
  <2>1. CASE d # c
    <3>1. reqNet'[<<l, d>>] = reqNet[<<l, d>>]
      BY <1>2, <2>1
    <3>2. QED
      BY <1>4, <2>1, <3>1
  <2>2. CASE d = c
    BY <1>3, <1>4, <2>2
  <2>3. QED
    BY <2>1, <2>2
<1>6. T = IF r.op = "uc_wr" THEN P \cup {<<c, n>>} ELSE P
  BY <1>4, <1>5
<1>7. <<c, n>> \notin P
  BY <1>3, <1>4
<1>8. IsFiniteSet(T) /\ (r.op = "uc_wr" => Cardinality(T) = Cardinality(P) + 1)
  <2>1. IsFiniteSet(P)
    BY <1>1
  <2>2. CASE r.op = "uc_wr"
    BY <1>6, <1>7, <2>1, <2>2, PlusOne
  <2>3. CASE r.op # "uc_wr"
    <3>1. T = P
      BY <1>6, <2>3
    <3>2. QED
      BY <2>1, <2>3, <3>1
  <2>4. QED
    BY <2>2, <2>3
<1>9. ASSUME NEW k \in LCE, k # l
      PROVE  UcRequests(k)' = UcRequests(k)
  <2>1. \A d \in CCE : reqNet'[<<k, d>>] = reqNet[<<k, d>>]
    BY <1>2, <1>9
  <2>2. QED
    BY <2>1, RequestsKept
<1>10. QED
  BY <1>1, <1>6, <1>8, <1>9

(* A response that acknowledges a store of cache l.                         *)
StoreOf(r, l) == r.type = "uc_wr" /\ r.lce = l

(* The engine takes a response from memory.                                *)
LEMMA ResponsesTaken ==
  ASSUME IInv, IInv', NEW c \in CCE, MemTaken(c), NEW l \in LCE,
         IsFiniteSet(UcResponses(l))
  PROVE  /\ IsFiniteSet(UcResponses(l)')
         /\ StoreOf(RespHead(c), l) => Cardinality(UcResponses(l)') = Cardinality(UcResponses(l)) - 1
         /\ ~StoreOf(RespHead(c), l) => Cardinality(UcResponses(l)') = Cardinality(UcResponses(l))
<1>1. PICK P, T : P = UcResponses(l) /\ T = UcResponses(l)'
  OBVIOUS
<1>2. /\ \A d \in CCE : d # c => memResp'[d] = memResp[d]
      /\ 1 \in DOMAIN memResp[c]
      /\ RespHead(c) = memResp[c][1]
      /\ \A i \in DOMAIN memResp'[c] :
           /\ i + 1 \in DOMAIN memResp[c] /\ i \in Nat /\ i # 0
           /\ memResp'[c][i] = memResp[c][i + 1]
      /\ \A i \in DOMAIN memResp[c] : i # 1 =>
           /\ i - 1 \in DOMAIN memResp'[c] /\ i \in Nat
           /\ memResp'[c][i - 1] = memResp[c][i]
  BY MemTakenFacts
<1>3. /\ P \subseteq CCE \X Nat /\ T \subseteq CCE \X Nat
      /\ \A d \in CCE, i \in Nat :
           <<d, i>> \in P <=>
             /\ i \in DOMAIN memResp[d] /\ memResp[d][i].type = "uc_wr"
             /\ memResp[d][i].lce = l
      /\ \A d \in CCE, i \in Nat :
           <<d, i>> \in T <=>
             /\ i \in DOMAIN memResp'[d] /\ memResp'[d][i].type = "uc_wr"
             /\ memResp'[d][i].lce = l
  BY <1>1, ResponsePlaces, ResponsePlacesNext
<1>4. \A d \in CCE, i \in Nat : d # c => (<<d, i>> \in T <=> <<d, i>> \in P)
  BY <1>2, <1>3
<1>5. \A i \in Nat : <<c, i>> \in T <=> i # 0 /\ <<c, i + 1>> \in P
  <2> SUFFICES ASSUME NEW i \in Nat
               PROVE  <<c, i>> \in T <=> i # 0 /\ <<c, i + 1>> \in P
    OBVIOUS
  <2>1. i \in DOMAIN memResp'[c] <=> i # 0 /\ i + 1 \in DOMAIN memResp[c]
    <3>1. i + 1 \in Nat /\ (i + 1) - 1 = i /\ (i # 0 => i + 1 # 1)
      OBVIOUS
    <3>2. QED
      BY <1>2, <3>1
  <2>2. QED
    BY <1>2, <1>3, <2>1
<1>6. <<c, 0>> \notin P
  <2>1. memResp[c] \in Seq(MemResponse)
    BY DEF IInv, MemTypeOK
  <2>2. 0 \notin DOMAIN memResp[c]
    BY <2>1
  <2>3. QED
    BY <1>3, <2>2
<1>7. <<c, 1>> \in P <=> StoreOf(RespHead(c), l)
  BY <1>2, <1>3 DEF StoreOf
<1>8. /\ IsFiniteSet(T)
      /\ <<c, 1>> \in P => Cardinality(T) = Cardinality(P) - 1
      /\ <<c, 1>> \notin P => Cardinality(T) = Cardinality(P)
  <2>1. IsFiniteSet(P)
    BY <1>1
  <2>2. QED
    BY <1>3, <1>4, <1>5, <1>6, <2>1, PlacesTaken
<1>9. QED
  BY <1>1, <1>7, <1>8

(* Memory has one more.                                                    *)
LEMMA ResponsesAdded ==
  ASSUME IInv, IInv', NEW c \in CCE, NEW r, MemAdded(c, r), NEW l \in LCE,
         IsFiniteSet(UcResponses(l))
  PROVE  /\ IsFiniteSet(UcResponses(l)')
         /\ StoreOf(r, l) => Cardinality(UcResponses(l)') = Cardinality(UcResponses(l)) + 1
         /\ ~StoreOf(r, l) => UcResponses(l)' = UcResponses(l)
<1>1. PICK P, T : P = UcResponses(l) /\ T = UcResponses(l)'
  OBVIOUS
<1>2. \A d \in CCE : d # c => memResp'[d] = memResp[d]
  BY MemAddedFacts
<1>3. PICK n \in Nat :
         /\ n \notin DOMAIN memResp[c]
         /\ DOMAIN memResp'[c] = DOMAIN memResp[c] \cup {n}
         /\ memResp'[c][n] = r
         /\ \A i \in DOMAIN memResp[c] : memResp'[c][i] = memResp[c][i]
  BY MemAddedFacts
<1>4. /\ P \subseteq CCE \X Nat /\ T \subseteq CCE \X Nat
      /\ \A d \in CCE, i \in Nat :
           <<d, i>> \in P <=>
             /\ i \in DOMAIN memResp[d] /\ memResp[d][i].type = "uc_wr"
             /\ memResp[d][i].lce = l
      /\ \A d \in CCE, i \in Nat :
           <<d, i>> \in T <=>
             /\ i \in DOMAIN memResp'[d] /\ memResp'[d][i].type = "uc_wr"
             /\ memResp'[d][i].lce = l
  BY <1>1, ResponsePlaces, ResponsePlacesNext
<1>5. \A d \in CCE, i \in Nat :
         <<d, i>> \in T <=> <<d, i>> \in P \/ (d = c /\ i = n /\ StoreOf(r, l))
  <2> SUFFICES ASSUME NEW d \in CCE, NEW i \in Nat
               PROVE  <<d, i>> \in T <=> <<d, i>> \in P \/ (d = c /\ i = n /\ StoreOf(r, l))
    OBVIOUS
  <2>1. CASE d # c
    BY <1>2, <1>4, <2>1
  <2>2. CASE d = c
    BY <1>3, <1>4, <2>2 DEF StoreOf
  <2>3. QED
    BY <2>1, <2>2
<1>6. /\ StoreOf(r, l) => T = P \cup {<<c, n>>}
      /\ ~StoreOf(r, l) => T = P
  <2>1. CASE StoreOf(r, l)
    BY <1>4, <1>5, <2>1
  <2>2. CASE ~StoreOf(r, l)
    <3>1. \A d \in CCE, i \in Nat : <<d, i>> \in T <=> <<d, i>> \in P
      BY <1>5, <2>2
    <3>2. P \subseteq CCE \X Nat /\ T \subseteq CCE \X Nat
      BY <1>4
    <3>3. T = P
      BY <3>1, <3>2
    <3>4. QED
      BY <2>2, <3>3
  <2>3. QED
    BY <2>1, <2>2
<1>7. <<c, n>> \notin P
  BY <1>3, <1>4
<1>8. IsFiniteSet(T) /\ (StoreOf(r, l) => Cardinality(T) = Cardinality(P) + 1)
  <2>1. IsFiniteSet(P)
    BY <1>1
  <2>2. CASE StoreOf(r, l)
    BY <1>6, <1>7, <2>1, <2>2, PlusOne
  <2>3. CASE ~StoreOf(r, l)
    <3>1. T = P
      BY <1>6, <2>3
    <3>2. QED
      BY <2>1, <2>3, <3>1
  <2>4. QED
    BY <2>2, <2>3
<1>9. QED
  BY <1>1, <1>6, <1>8

----------------------------------------------------------------------------
(* Every credit is accounted for.                                          *)

(* Every credit is accounted for, and the places are finitely many.        *)
StoresFinite ==
  \A l \in LCE : /\ IsFiniteSet(UcRequests(l)) /\ IsFiniteSet(UcResponses(l))
                 /\ IsFiniteSet(UcDones(l))
CreditInv == CreditsExact /\ StoresFinite

SentMiss(l) == IF miss[l].phase = "sent" THEN 1 ELSE 0

(* What CreditInv says of one cache, and of one cache after a step.        *)
LEMMA CreditParts ==
  ASSUME CreditInv, NEW l \in LCE
  PROVE  /\ credit[l] = Cardinality(UcRequests(l)) + Cardinality(UcResponses(l))
                          + Cardinality(UcDones(l)) + Cardinality(HeldDone(l)) + SentMiss(l)
         /\ IsFiniteSet(UcRequests(l)) /\ IsFiniteSet(UcResponses(l))
         /\ IsFiniteSet(UcDones(l)) /\ IsFiniteSet(HeldDone(l))
         /\ Cardinality(UcRequests(l)) \in Nat /\ Cardinality(UcResponses(l)) \in Nat
         /\ Cardinality(UcDones(l)) \in Nat /\ Cardinality(HeldDone(l)) \in Nat
         /\ SentMiss(l) \in {0, 1}
<1>1. /\ IsFiniteSet(UcRequests(l)) /\ IsFiniteSet(UcResponses(l))
      /\ IsFiniteSet(UcDones(l))
  BY DEF CreditInv, StoresFinite
<1>2. IsFiniteSet(HeldDone(l))
  <2>1. HeldDone(l) \subseteq {l}
    BY DEF HeldDone
  <2>2. QED
    BY <2>1, FS_Singleton, FS_Subset
<1>3. /\ Cardinality(UcRequests(l)) \in Nat /\ Cardinality(UcResponses(l)) \in Nat
      /\ Cardinality(UcDones(l)) \in Nat /\ Cardinality(HeldDone(l)) \in Nat
  BY <1>1, <1>2, FS_CardinalityType
<1>4. credit[l] = UcStores(l) + SentMiss(l) /\ SentMiss(l) \in {0, 1}
  BY DEF CreditInv, CreditsExact, SentMiss
<1>5. QED
  BY <1>1, <1>2, <1>3, <1>4 DEF UcStores

(* The command a cache holds is one place or none.                         *)
LEMMA HeldPlaces ==
  ASSUME NEW l
  PROVE  /\ Holds(l, {"uc_st_done"}) => Cardinality(HeldDone(l)) = 1
         /\ ~Holds(l, {"uc_st_done"}) => Cardinality(HeldDone(l)) = 0
<1>1. CASE Holds(l, {"uc_st_done"})
  <2>1. HeldDone(l) = {l}
    BY <1>1 DEF HeldDone
  <2>2. QED
    BY <1>1, <2>1, FS_Singleton
<1>2. CASE ~Holds(l, {"uc_st_done"})
  <2>1. HeldDone(l) = {}
    BY <1>2 DEF HeldDone
  <2>2. QED
    BY <1>2, <2>1, FS_EmptySet
<1>3. QED
  BY <1>1, <1>2

(* The same in the next state.                                             *)
LEMMA HeldPlacesNext ==
  ASSUME NEW l
  PROVE  /\ Holds(l, {"uc_st_done"})' => Cardinality(HeldDone(l)') = 1
         /\ ~Holds(l, {"uc_st_done"})' => Cardinality(HeldDone(l)') = 0
<1>1. CASE Holds(l, {"uc_st_done"})'
  <2>1. HeldDone(l)' = {l}
    BY <1>1 DEF HeldDone
  <2>2. QED
    BY <1>1, <2>1, FS_Singleton
<1>2. CASE ~Holds(l, {"uc_st_done"})'
  <2>1. HeldDone(l)' = {}
    BY <1>2 DEF HeldDone
  <2>2. QED
    BY <1>2, <2>1, FS_EmptySet
<1>3. QED
  BY <1>1, <1>2

(* What a step leaves alone of a cache's places.                           *)
SameRequests(l) ==
  IsFiniteSet(UcRequests(l)') /\ Cardinality(UcRequests(l)') = Cardinality(UcRequests(l))
SameResponses(l) ==
  IsFiniteSet(UcResponses(l)') /\ Cardinality(UcResponses(l)') = Cardinality(UcResponses(l))
SameDones(l) ==
  IsFiniteSet(UcDones(l)') /\ Cardinality(UcDones(l)') = Cardinality(UcDones(l))
SameHeld(l) == Cardinality(HeldDone(l)') = Cardinality(HeldDone(l))
SameCredit(l) == credit'[l] = credit[l] /\ SentMiss(l)' = SentMiss(l)

(* The invariant for one cache after a step.                               *)
CreditNext(l) ==
  /\ IsFiniteSet(UcRequests(l)') /\ IsFiniteSet(UcResponses(l)') /\ IsFiniteSet(UcDones(l)')
  /\ credit'[l] = Cardinality(UcRequests(l)') + Cardinality(UcResponses(l)')
                    + Cardinality(UcDones(l)') + Cardinality(HeldDone(l)') + SentMiss(l)'

(* It is CreditInv of the next state.                                      *)
LEMMA CreditFrom ==
  ASSUME \A l \in LCE : CreditNext(l)
  PROVE  CreditInv'
BY DEF CreditNext, CreditInv, CreditsExact, StoresFinite, UcStores, SentMiss

(* It holds where nothing moves.                                           *)
LEMMA CreditSame ==
  ASSUME CreditInv, NEW l \in LCE, SameRequests(l), SameResponses(l), SameDones(l),
         SameHeld(l), SameCredit(l)
  PROVE  CreditNext(l)
BY CreditParts DEF CreditNext, SameRequests, SameResponses, SameDones, SameHeld, SameCredit

(* Nothing moves where the variables are unchanged.                        *)
LEMMA SameFrom ==
  ASSUME CreditInv, NEW l \in LCE
  PROVE  /\ reqNet' = reqNet => SameRequests(l)
         /\ memResp' = memResp => SameResponses(l)
         /\ UcRequests(l)' = UcRequests(l) => SameRequests(l)
         /\ UcDones(l)' = UcDones(l) => SameDones(l)
         /\ cmdNet' = cmdNet => SameDones(l)
         /\ lceCmd'[l] = lceCmd[l] => SameHeld(l)
         /\ credit'[l] = credit[l] /\ miss'[l] = miss[l] => SameCredit(l)
<1>1. /\ IsFiniteSet(UcRequests(l)) /\ IsFiniteSet(UcResponses(l))
      /\ IsFiniteSet(UcDones(l))
  BY CreditParts
<1>2. UcRequests(l)' = UcRequests(l) => SameRequests(l)
  BY <1>1 DEF SameRequests
<1>3. UcDones(l)' = UcDones(l) => SameDones(l)
  BY <1>1 DEF SameDones
<1>4. reqNet' = reqNet => UcRequests(l)' = UcRequests(l)
  BY DEF UcRequests
<1>5. ASSUME memResp' = memResp PROVE SameResponses(l)
  <2>1. UcResponses(l)' = UcResponses(l)
    BY <1>5 DEF UcResponses
  <2>2. QED
    BY <1>1, <2>1 DEF SameResponses
<1>6. cmdNet' = cmdNet => UcDones(l)' = UcDones(l)
  BY DEF UcDones
<1>7. ASSUME lceCmd'[l] = lceCmd[l] PROVE SameHeld(l)
  <2>1. Holds(l, {"uc_st_done"})' <=> Holds(l, {"uc_st_done"})
    BY <1>7 DEF Holds
  <2>2. QED
    BY <2>1, HeldPlaces, HeldPlacesNext DEF SameHeld
<1>8. credit'[l] = credit[l] /\ miss'[l] = miss[l] => SameCredit(l)
  BY DEF SameCredit, SentMiss
<1>9. QED
  BY <1>2, <1>3, <1>4, <1>5, <1>6, <1>7, <1>8

(* The acknowledgements in flight change only when memory answers a store. *)
LEMMA DonesCce ==
  ASSUME IInv, CreditInv, NEW c \in CCE, CceStep(c), ~MemRespUncached(c), NEW l \in LCE
  PROVE  SameDones(l)
<1>1. CASE cmdNet' = cmdNet
  BY <1>1, SameFrom
<1>2. ASSUME NEW m, cmdNet' = cmdNet \cup {m}, m.type # "uc_st_done"
      PROVE  SameDones(l)
  <2>1. UcDones(l)' = UcDones(l)
    BY <1>2 DEF UcDones
  <2>2. QED
    BY <2>1, SameFrom
<1>3. CASE CceReplacement(c)
  <2>1. PICK m : cmdNet' = cmdNet \cup {m} /\ m.type # "uc_st_done"
    BY <1>3 DEF CceReplacement, SendCmd
  <2>2. QED
    BY <1>2, <2>1
<1>4. CASE CceInvCmd(c)
  <2>1. PICK m : cmdNet' = cmdNet \cup {m} /\ m.type # "uc_st_done"
    BY <1>4 DEF CceInvCmd, SendCmd
  <2>2. QED
    BY <1>2, <2>1
<1>5. CASE CceUpgrade(c)
  <2>1. PICK m : cmdNet' = cmdNet \cup {m} /\ m.type # "uc_st_done"
    BY <1>5 DEF CceUpgrade, SendCmd
  <2>2. QED
    BY <1>2, <2>1
<1>6. CASE CceTransfer(c)
  <2>1. PICK m : cmdNet' = cmdNet \cup {m} /\ m.type # "uc_st_done"
    BY <1>6 DEF CceTransfer, SendCmd
  <2>2. QED
    BY <1>2, <2>1
<1>7. CASE MemRespFill(c)
  <2>1. PICK m : cmdNet' = cmdNet \cup {m} /\ m.type # "uc_st_done"
    BY <1>7 DEF MemRespFill, SendCmd, FillCmd
  <2>2. QED
    BY <1>2, <2>1
<1>8. CASE \E k \in LCE : CceSendSync(c, k)
  <2>1. PICK m : cmdNet' = cmdNet \cup {m} /\ m.type # "uc_st_done"
    BY <1>8 DEF CceSendSync, SendCmd
  <2>2. QED
    BY <1>2, <2>1
<1>9. QED
  BY <1>1, <1>3, <1>4, <1>5, <1>6, <1>7, <1>8, CmdBy

(* An engine takes an uncached request: a store goes on to memory.         *)
LEMMA CreditUncached ==
  ASSUME IInv, IInv', CreditInv, NEW c \in CCE, CceStep(c),
         CceUcReq(c) \/ \E l \in LCE : CceUncachedOnly(c, l), NEW l \in LCE
  PROVE  CreditNext(l)
<1>1. PICK k, r : /\ k \in LCE /\ Taken(k, c) /\ r = Head(reqNet[<<k, c>>]) /\ r.op \in UcOp
                  /\ UncachedAccess(c, r)
  <2>1. CASE CceUcReq(c)
    <3>1. /\ mshr[c].lce \in LCE /\ reqNet[<<mshr[c].lce, c>>] # <<>>
          /\ Head(reqNet[<<mshr[c].lce, c>>]).op \in UcOp
      BY <2>1 DEF CceUcReq, IInv, ReqWF, Taking
    <3>2. Taken(mshr[c].lce, c) /\ UncachedAccess(c, Head(reqNet[<<mshr[c].lce, c>>]))
      BY <2>1, <3>1 DEF CceUcReq, DequeueReq, MshrReq, Taken
    <3>3. QED
      BY <3>1, <3>2
  <2>2. CASE \E j \in LCE : CceUncachedOnly(c, j)
    BY <2>2 DEF CceUncachedOnly, Taken
  <2>3. QED
    BY <2>1, <2>2
<1>2. r.src = k
  BY <1>1, ReqHeadSrc DEF Taken, IInv
<1>3. PICK n : /\ MemAdded(c, n) /\ n.lce = k
               /\ n.type = "uc_wr" <=> r.op = "uc_wr"
  <2>1. CASE r.op = "uc_wr"
    <3>1. PICK n : MemCommand(c, n) /\ n.type = "uc_wr" /\ n.lce = r.src
      BY <1>1, <2>1 DEF UncachedAccess
    <3>2. QED
      BY <1>2, <2>1, <3>1 DEF MemCommand, MemAdded
  <2>2. CASE r.op # "uc_wr"
    <3>1. PICK n : MemCommand(c, n) /\ n.type = "uc_rd" /\ n.lce = r.src
      BY <1>1, <2>2 DEF UncachedAccess
    <3>2. QED
      BY <1>2, <2>2, <3>1 DEF MemCommand, MemAdded
  <2>3. QED
    BY <2>1, <2>2
<1>4. SameDones(l) /\ SameHeld(l) /\ SameCredit(l)
  <2>1. cmdNet' = cmdNet
    BY DEF CceUcReq, CceUncachedOnly
  <2>2. lceCmd' = lceCmd /\ credit' = credit /\ miss' = miss
    BY CceLeaves
  <2>3. QED
    BY <2>1, <2>2, SameFrom
<1>5. /\ IsFiniteSet(UcRequests(k)) /\ IsFiniteSet(UcRequests(l)) /\ IsFiniteSet(UcResponses(l))
      /\ Cardinality(UcRequests(l)) \in Nat /\ Cardinality(UcResponses(l)) \in Nat
      /\ Cardinality(UcDones(l)) \in Nat /\ Cardinality(HeldDone(l)) \in Nat
  BY <1>1, CreditParts
<1>6. /\ IsFiniteSet(UcRequests(k)')
      /\ r.op = "uc_wr" =>
           Cardinality(UcRequests(k)') = Cardinality(UcRequests(k)) - 1
      /\ r.op # "uc_wr" =>
           Cardinality(UcRequests(k)') = Cardinality(UcRequests(k))
      /\ \A j \in LCE : j # k => UcRequests(j)' = UcRequests(j)
  BY <1>1, <1>5, RequestsTaken
<1>7. /\ IsFiniteSet(UcResponses(l)')
      /\ StoreOf(n, l) => Cardinality(UcResponses(l)') = Cardinality(UcResponses(l)) + 1
      /\ ~StoreOf(n, l) => UcResponses(l)' = UcResponses(l)
  BY <1>3, <1>5, ResponsesAdded
<1>8. CASE l = k /\ r.op = "uc_wr"
  <2>1. StoreOf(n, l)
    BY <1>3, <1>8 DEF StoreOf
  <2>2. /\ IsFiniteSet(UcRequests(l)') /\ IsFiniteSet(UcResponses(l)')
        /\ Cardinality(UcRequests(l)') = Cardinality(UcRequests(l)) - 1
        /\ Cardinality(UcResponses(l)') = Cardinality(UcResponses(l)) + 1
    BY <1>6, <1>7, <1>8, <2>1
  <2>3. QED
    BY <1>4, <1>5, <2>2, CreditParts DEF CreditNext, SameDones, SameHeld, SameCredit
<1>9. CASE l # k \/ r.op # "uc_wr"
  <2>1. ~StoreOf(n, l)
    BY <1>3, <1>9 DEF StoreOf
  <2>2. SameResponses(l)
    BY <1>7, <2>1 DEF SameResponses
  <2>3. SameRequests(l)
    <3>1. CASE l = k
      BY <1>6, <1>9, <3>1 DEF SameRequests
    <3>2. CASE l # k
      BY <1>6, <3>2, SameFrom
    <3>3. QED
      BY <3>1, <3>2
  <2>4. QED
    BY <1>4, <2>2, <2>3, CreditSame
<1>10. QED
  BY <1>8, <1>9

(* Memory answers a store: its acknowledgement is on its way.              *)
LEMMA CreditAnswer ==
  ASSUME IInv, IInv', CreditInv, NEW c \in CCE, CceStep(c), MemRespUncached(c), NEW l \in LCE
  PROVE  CreditNext(l)
<1>1. /\ MemTaken(c) /\ reqNet' = reqNet
      /\ RespHead(c).type \in UcOp
  BY DEF MemRespUncached, MemDequeue, MemTaken
<1>2. SameRequests(l) /\ SameHeld(l) /\ SameCredit(l)
  <2>1. lceCmd' = lceCmd /\ credit' = credit /\ miss' = miss
    BY CceLeaves
  <2>2. QED
    BY <1>1, <2>1, SameFrom
<1>3. /\ IsFiniteSet(UcResponses(l)) /\ IsFiniteSet(UcDones(l))
      /\ Cardinality(UcRequests(l)) \in Nat /\ Cardinality(UcResponses(l)) \in Nat
      /\ Cardinality(UcDones(l)) \in Nat /\ Cardinality(HeldDone(l)) \in Nat
  BY CreditParts
<1>4. /\ IsFiniteSet(UcResponses(l)')
      /\ StoreOf(RespHead(c), l) =>
           Cardinality(UcResponses(l)') = Cardinality(UcResponses(l)) - 1
      /\ ~StoreOf(RespHead(c), l) =>
           Cardinality(UcResponses(l)') = Cardinality(UcResponses(l))
  BY <1>1, <1>3, ResponsesTaken
<1>5. PICK m : /\ m \notin cmdNet /\ cmdNet' = cmdNet \cup {m}
               /\ (m.type = "uc_st_done" /\ m.dst = l) <=> StoreOf(RespHead(c), l)
  <2>1. CASE RespHead(c).type = "uc_rd"
    <3>1. PICK m : m \notin cmdNet /\ cmdNet' = cmdNet \cup {m} /\ m.type = "uc_data"
      BY <2>1 DEF MemRespUncached, SendCmd
    <3>2. QED
      BY <2>1, <3>1 DEF StoreOf
  <2>2. CASE RespHead(c).type # "uc_rd"
    <3>1. PICK m : /\ m \notin cmdNet /\ cmdNet' = cmdNet \cup {m}
                   /\ m.type = "uc_st_done" /\ m.dst = RespHead(c).lce
      BY <2>2 DEF MemRespUncached, SendCmd
    <3>2. RespHead(c).type = "uc_wr"
      BY <1>1, <2>2 DEF UcOp
    <3>3. QED
      BY <3>1, <3>2 DEF StoreOf
  <2>3. QED
    BY <2>1, <2>2
<1>6. CASE StoreOf(RespHead(c), l)
  <2>1. m \notin UcDones(l) /\ UcDones(l)' = UcDones(l) \cup {m}
    BY <1>5, <1>6 DEF UcDones
  <2>2. IsFiniteSet(UcDones(l)') /\ Cardinality(UcDones(l)') = Cardinality(UcDones(l)) + 1
    <3>1. PICK D, E : D = UcDones(l) /\ E = UcDones(l)'
      OBVIOUS
    <3>2. IsFiniteSet(D) /\ m \notin D /\ E = D \cup {m}
      BY <1>3, <2>1, <3>1
    <3>3. IsFiniteSet(E) /\ Cardinality(E) = Cardinality(D) + 1
      BY <3>2, PlusOne
    <3>4. QED
      BY <3>1, <3>3
  <2>3. QED
    BY <1>2, <1>3, <1>4, <1>6, <2>2, CreditParts DEF CreditNext, SameRequests, SameHeld, SameCredit
<1>7. CASE ~StoreOf(RespHead(c), l)
  <2>1. UcDones(l)' = UcDones(l)
    BY <1>5, <1>7 DEF UcDones
  <2>2. SameDones(l) /\ SameResponses(l)
    BY <1>4, <1>7, <2>1, SameFrom DEF SameResponses
  <2>3. QED
    BY <1>2, <2>2, CreditSame
<1>8. QED
  BY <1>6, <1>7

(* The other responses are no stores, and the other requests neither.      *)
LEMMA CreditOther ==
  ASSUME IInv, IInv', SerialInv, CreditInv, NEW c \in CCE, CceStep(c), ~MemRespUncached(c),
         ~CceUcReq(c), \A l \in LCE : ~CceUncachedOnly(c, l), NEW l \in LCE
  PROVE  CreditNext(l)
<1>1. SameDones(l)
  BY DonesCce
<1>2. SameHeld(l) /\ SameCredit(l)
  <2>1. lceCmd' = lceCmd /\ credit' = credit /\ miss' = miss
    BY CceLeaves
  <2>2. QED
    BY <2>1, SameFrom
<1>3. IsFiniteSet(UcResponses(l)) /\ \A k \in LCE : IsFiniteSet(UcRequests(k))
  BY CreditParts
<1>4. SameResponses(l)
  <2>1. CASE memResp' = memResp
    BY <2>1, SameFrom
  <2>2. CASE MemTaken(c) /\ MemRespStep(c)
    <3>1. RespHead(c).type \in {"rd", "wr"}
      BY <2>2 DEF MemRespStep, MemRespSquash, MemRespFill, MemRespWriteback, IsSpeculative
    <3>2. ~StoreOf(RespHead(c), l)
      BY <3>1 DEF StoreOf
    <3>3. QED
      BY <1>3, <2>2, <3>2, ResponsesTaken DEF SameResponses
  <2>3. ASSUME NEW r, MemAdded(c, r), r.type # "uc_wr"
        PROVE  SameResponses(l)
    <3>1. ~StoreOf(r, l)
      BY <2>3 DEF StoreOf
    <3>2. QED
      BY <1>3, <2>3, <3>1, ResponsesAdded DEF SameResponses
  <2>4. ASSUME NEW r, MemAdded(c, r), ReadNew(c, r) \/ WriteNew(c, r)
        PROVE  SameResponses(l)
    <3>1. r.type # "uc_wr"
      BY <2>4 DEF ReadNew, WriteNew
    <3>2. QED
      BY <2>3, <2>4, <3>1
  <2>5. QED
    BY <2>1, <2>2, <2>4, MemMoves
<1>5. SameRequests(l)
  <2>1. CASE reqNet' = reqNet
    BY <2>1, SameFrom
  <2>2. CASE CceDeqReq(c)
    <3>1. PICK k : k = mshr[c].lce
      OBVIOUS
    <3>2. cceState[c] = "deq_lce_req"
      BY <2>2 DEF CceDeqReq
    <3>3. /\ k \in LCE /\ reqNet[<<k, c>>] # <<>> /\ Taken(k, c)
      BY <2>2, <3>1, <3>2 DEF CceDeqReq, DequeueReq, Taken, IInv, ReqWF, Taking
    <3>4. Head(reqNet[<<k, c>>]).op # "uc_wr"
      BY <3>1, <3>2 DEF SerialInv, MshrInv, MshrTaking, Loaded, CacheOp
    <3>5. /\ IsFiniteSet(UcRequests(k)')
          /\ Cardinality(UcRequests(k)') = Cardinality(UcRequests(k))
          /\ \A j \in LCE : j # k => UcRequests(j)' = UcRequests(j)
      BY <1>3, <3>3, <3>4, RequestsTaken
    <3>6. CASE l = k
      BY <3>5, <3>6 DEF SameRequests
    <3>7. CASE l # k
      BY <3>5, <3>7, SameFrom
    <3>8. QED
      BY <3>6, <3>7
  <2>3. QED
    BY <2>1, <2>2, ReqBy
<1>6. QED
  BY <1>1, <1>2, <1>4, <1>5, CreditSame

(* CreditInv, step of an engine.                                           *)
LEMMA CreditCce ==
  ASSUME IInv, IInv', SerialInv, CreditInv, NEW c \in CCE, CceStep(c)
  PROVE  CreditInv'
<1>1. ASSUME NEW l \in LCE
      PROVE  CreditNext(l)
  BY CreditUncached, CreditAnswer, CreditOther
<1>2. QED
  BY <1>1, CreditFrom

(* A step of cache k, seen by another: its places are where they were.     *)
LEMMA DonesLce ==
  ASSUME IInv, CreditInv, NEW k \in LCE, LceStep(k), ~LceHead(k), NEW l \in LCE
  PROVE  SameDones(l)
<1>1. CASE cmdNet' = cmdNet
  BY <1>1, SameFrom
<1>2. CASE LceTr(k)
  <2>1. PICK m : cmdNet' = cmdNet \cup {m} /\ m.type = "data"
    BY <1>2 DEF LceTr
  <2>2. UcDones(l)' = UcDones(l)
    BY <2>1 DEF UcDones
  <2>3. QED
    BY <2>2, SameFrom
<1>3. QED
  BY <1>1, <1>2, LceNetBy

(* A cache drops a command that acknowledges no store, or takes another.   *)
LEMMA HeldDoneLce ==
  ASSUME IInv, CreditInv, NEW k \in LCE, LceStep(k), ~LceHead(k), ~LceUcStDone(k),
         NEW l \in LCE
  PROVE  SameHeld(l)
<1>1. CASE lceCmd' = lceCmd
  BY <1>1, SameFrom
<1>2. CASE \/ LceSync(k) \/ LceInv(k) \/ LceUcData(k) \/ LceCohAck(k) \/ LceTr(k) \/ LceWb(k)
           \/ LceWbDirtySend(k)
  <2>1. CASE l # k
    <3>1. lceCmd'[l] = lceCmd[l]
      BY <1>2, <2>1 DEF LceSync, LceInv, LceUcData, LceCohAck, LceTr, LceWb, LceWbDirtySend,
        Dequeue, IInv, LceOK, LceTypeOK
    <3>2. QED
      BY <3>1, SameFrom
  <2>2. CASE l = k
    <3>1. ~Holds(k, {"uc_st_done"})
      BY <1>2 DEF LceSync, LceInv, LceUcData, LceCohAck, LceTr, LceWb, LceWbDirtySend,
        Executes, Holds, IInv, LceOK, CmdWF
    <3>2. lceCmd'[k] = None \/ lceCmd'[k] = lceCmd[k]
      BY <1>2 DEF LceSync, LceInv, LceUcData, LceCohAck, LceTr, LceWb, LceWbDirtySend,
        Dequeue, IInv, LceOK, LceTypeOK
    <3>3. ~Holds(k, {"uc_st_done"})'
      BY <3>1, <3>2 DEF Holds
    <3>4. QED
      BY <2>2, <3>1, <3>3, HeldPlaces, HeldPlacesNext DEF SameHeld
  <2>3. QED
    BY <2>1, <2>2
<1>3. QED
  BY <1>1, <1>2, LceCmdBy

(* The acknowledgement of a store comes to the head of the port.           *)
LEMMA CreditHead ==
  ASSUME IInv, CreditInv, NEW k \in LCE, LceHead(k), NEW l \in LCE
  PROVE  CreditNext(l)
<1>1. PICK m \in cmdNet : /\ m.dst = k /\ cmdNet' = cmdNet \ {m}
                          /\ lceCmd' = [lceCmd EXCEPT ![k] = m]
  BY DEF LceHead
<1>2. /\ lceCmd[k] = None /\ lceCmd'[k] = m /\ m # None
      /\ l # k => lceCmd'[l] = lceCmd[l]
  BY <1>1, NoneAssumption DEF LceHead, IInv, LceOK, LceTypeOK, NetTypeOK
<1>3. SameRequests(l) /\ SameResponses(l) /\ SameCredit(l)
  <2>1. reqNet' = reqNet /\ memResp' = memResp /\ credit' = credit /\ miss' = miss
    BY DEF LceHead, memVars, coreVars
  <2>2. QED
    BY <2>1, SameFrom
<1>4. CASE l = k /\ m.type = "uc_st_done"
  <2>1. m \in UcDones(l) /\ UcDones(l)' = UcDones(l) \ {m}
    BY <1>1, <1>4 DEF UcDones
  <2>2. IsFiniteSet(UcDones(l)') /\ Cardinality(UcDones(l)') = Cardinality(UcDones(l)) - 1
    <3>1. PICK D, E : D = UcDones(l) /\ E = UcDones(l)'
      OBVIOUS
    <3>2. IsFiniteSet(D) /\ m \in D /\ E = D \ {m}
      BY <2>1, <3>1, CreditParts
    <3>3. IsFiniteSet(E) /\ Cardinality(E) = Cardinality(D) - 1
      BY <3>2, MinusOne
    <3>4. QED
      BY <3>1, <3>3
  <2>3. Cardinality(HeldDone(l)) = 0 /\ Cardinality(HeldDone(l)') = 1
    <3>1. ~Holds(l, {"uc_st_done"}) /\ Holds(l, {"uc_st_done"})'
      BY <1>2, <1>4 DEF Holds
    <3>2. QED
      BY <3>1, HeldPlaces, HeldPlacesNext
  <2>4. QED
    BY <1>3, <2>2, <2>3, CreditParts DEF CreditNext, SameRequests, SameResponses, SameCredit
<1>5. CASE l # k \/ m.type # "uc_st_done"
  <2>1. UcDones(l)' = UcDones(l)
    BY <1>1, <1>5 DEF UcDones
  <2>2. SameHeld(l)
    <3>1. CASE l = k
      <4>1. ~Holds(l, {"uc_st_done"}) /\ ~Holds(l, {"uc_st_done"})'
        BY <1>2, <1>5, <3>1 DEF Holds
      <4>2. QED
        BY <4>1, HeldPlaces, HeldPlacesNext DEF SameHeld
    <3>2. CASE l # k
      BY <1>2, <3>2, SameFrom
    <3>3. QED
      BY <3>1, <3>2
  <2>3. QED
    BY <1>3, <2>1, <2>2, SameFrom, CreditSame
<1>6. QED
  BY <1>4, <1>5

(* It returns its credit.                                                  *)
LEMMA CreditStDone ==
  ASSUME IInv, CreditInv, NEW k \in LCE, LceStep(k), LceUcStDone(k), NEW l \in LCE
  PROVE  CreditNext(l)
<1>1. /\ Holds(k, {"uc_st_done"}) /\ lceCmd'[k] = None
      /\ credit'[k] = credit[k] - 1 /\ miss' = miss
      /\ l # k => lceCmd'[l] = lceCmd[l] /\ credit'[l] = credit[l]
      /\ UNCHANGED <<reqNet, memResp, cmdNet>>
  BY DEF LceUcStDone, Dequeue, IInv, LceOK, LceTypeOK, CoreOK, CoreTypeOK, memVars, netVars
<1>2. SameRequests(l) /\ SameResponses(l) /\ SameDones(l)
  BY <1>1, SameFrom
<1>3. CASE l # k
  <2>1. SameHeld(l) /\ SameCredit(l)
    BY <1>1, <1>3, SameFrom
  <2>2. QED
    BY <1>2, <2>1, CreditSame
<1>4. CASE l = k
  <2>1. Cardinality(HeldDone(l)) = 1 /\ Cardinality(HeldDone(l)') = 0
    <3>1. Holds(l, {"uc_st_done"}) /\ ~Holds(l, {"uc_st_done"})'
      BY <1>1, <1>4 DEF Holds
    <3>2. QED
      BY <3>1, HeldPlaces, HeldPlacesNext
  <2>2. SentMiss(l)' = SentMiss(l)
    BY <1>1 DEF SentMiss
  <2>3. QED
    BY <1>1, <1>2, <1>4, <2>1, <2>2, CreditParts
      DEF CreditNext, SameRequests, SameResponses, SameDones
<1>5. QED
  BY <1>3, <1>4

(* A miss ends and returns its credit.                                     *)
LEMMA CreditMissEnds ==
  ASSUME IInv, SerialInv, CreditInv, NEW k \in LCE, LceStep(k), LceCohAck(k) \/ LceUcData(k),
         NEW l \in LCE
  PROVE  CreditNext(l)
<1>1. miss[k].phase = "sent"
  BY MissEnds DEF Waits
<1>2. /\ credit'[k] = credit[k] - 1 /\ miss'[k].phase # "sent"
      /\ l # k => miss'[l] = miss[l] /\ credit'[l] = credit[l]
      /\ UNCHANGED <<reqNet, memResp, cmdNet>>
  BY DEF LceCohAck, LceUcData, Complete, NoMiss, IInv, CoreOK, CoreTypeOK, memVars, netVars, Miss
<1>3. SameRequests(l) /\ SameResponses(l) /\ SameDones(l)
  BY <1>2, SameFrom
<1>4. SameHeld(l)
  <2>1. ~LceHead(k) /\ ~LceUcStDone(k)
    BY DEF LceCohAck, LceUcData, LceHead, LceUcStDone, Executes, Holds
  <2>2. QED
    BY <2>1, HeldDoneLce
<1>5. CASE l # k
  <2>1. SameCredit(l)
    BY <1>2, <1>5, SameFrom
  <2>2. QED
    BY <1>3, <1>4, <2>1, CreditSame
<1>6. CASE l = k
  <2>1. SentMiss(l) = 1 /\ SentMiss(l)' = 0
    BY <1>1, <1>2, <1>6 DEF SentMiss
  <2>2. QED
    BY <1>2, <1>3, <1>4, <1>6, <2>1, CreditParts
      DEF CreditNext, SameRequests, SameResponses, SameDones, SameHeld
<1>7. QED
  BY <1>5, <1>6

(* A cache sends a request and takes a credit.                             *)
LEMMA CreditRequest ==
  ASSUME IInv, IInv', SerialInv, CreditInv, NEW k \in LCE, LceStep(k),
         LceSendReq(k) \/ \E a \in IoBlock, d \in Data : CoreUcStore(k, a, d), NEW l \in LCE
  PROVE  CreditNext(l)
<1>1. /\ credit'[k] = credit[k] + 1
      /\ l # k => credit'[l] = credit[l] /\ miss'[l] = miss[l]
      /\ UNCHANGED <<memResp, cmdNet, lceCmd>>
  BY DEF LceSendReq, CoreUcStore, SendReq, IInv, CoreOK, CoreTypeOK, memVars, lceVars
<1>2. SameResponses(l) /\ SameDones(l) /\ SameHeld(l)
  BY <1>1, SameFrom
<1>3. PICK c \in CCE, r \in Request :
        /\ Sent(k, c, r)
        /\ \/ r.op # "uc_wr" /\ SentMiss(k) = 0 /\ SentMiss(k)' = 1
           \/ r.op = "uc_wr" /\ SentMiss(k)' = SentMiss(k)
  <2>1. CASE LceSendReq(k)
    <3>1. PICK c \in CCE, r \in Request : Sent(k, c, r) /\ r.op # "uc_wr"
      BY <2>1, ReqMiss DEF SerialInv
    <3>2. SentMiss(k) = 0 /\ SentMiss(k)' = 1
      BY <2>1 DEF LceSendReq, SentMiss, IInv, CoreOK, CoreTypeOK, Miss
    <3>3. QED
      BY <3>1, <3>2
  <2>2. CASE \E a \in IoBlock, d \in Data : CoreUcStore(k, a, d)
    <3>1. PICK a \in IoBlock, d \in Data : CoreUcStore(k, a, d)
      BY <2>2
    <3> DEFINE r == [op |-> "uc_wr", src |-> k, addr |-> a, data |-> d]
    <3>2. r \in Request /\ r.op = "uc_wr" /\ r.addr = a
      BY DEF Request, UcOp
    <3>3. Home(a) \in CCE
      BY ConstantsAssumption DEF Home
    <3>4. Sent(k, Home(a), r)
      BY <3>1 DEF CoreUcStore, SendReq, Sent
    <3>5. SentMiss(k)' = SentMiss(k)
      BY <3>1 DEF CoreUcStore, SentMiss
    <3> HIDE DEF r
    <3>6. QED
      BY <3>2, <3>3, <3>4, <3>5
  <2>3. QED
    BY <2>1, <2>2
<1>4. /\ IsFiniteSet(UcRequests(k)')
      /\ r.op = "uc_wr" =>
           Cardinality(UcRequests(k)') = Cardinality(UcRequests(k)) + 1
      /\ r.op # "uc_wr" => UcRequests(k)' = UcRequests(k)
      /\ \A j \in LCE : j # k => UcRequests(j)' = UcRequests(j)
  BY <1>3, RequestsSent, CreditParts
<1>5. CASE l # k
  <2>1. SameRequests(l) /\ SameCredit(l)
    BY <1>1, <1>4, <1>5, SameFrom
  <2>2. QED
    BY <1>2, <2>1, CreditSame
<1>6. CASE l = k
  <2>1. Cardinality(UcRequests(l)') + SentMiss(l)' = Cardinality(UcRequests(l)) + SentMiss(l) + 1
        /\ Cardinality(UcRequests(l)') \in Nat /\ SentMiss(l)' \in {0, 1}
    <3>1. SentMiss(l) \in {0, 1} /\ Cardinality(UcRequests(l)) \in Nat
      BY CreditParts
    <3>2. CASE r.op = "uc_wr"
      BY <1>3, <1>4, <1>6, <3>1, <3>2
    <3>3. CASE r.op # "uc_wr"
      BY <1>3, <1>4, <1>6, <3>1, <3>3
    <3>4. QED
      BY <3>2, <3>3
  <2>2. QED
    BY <1>1, <1>2, <1>4, <1>6, <2>1, CreditParts
      DEF CreditNext, SameResponses, SameDones, SameHeld
<1>7. QED
  BY <1>5, <1>6

(* Every other step leaves the credits alone.                              *)
LEMMA CreditQuiet ==
  ASSUME IInv, CreditInv, NEW k \in LCE, LceStep(k), ~LceHead(k), ~LceUcStDone(k),
         ~LceCohAck(k), ~LceUcData(k), ~LceSendReq(k),
         \A a \in IoBlock, d \in Data : ~CoreUcStore(k, a, d), NEW l \in LCE
  PROVE  CreditNext(l)
<1>1. SameDones(l) /\ SameHeld(l)
  BY DonesLce, HeldDoneLce
<1>2. SameRequests(l)
  BY LceReqBy, SameFrom
<1>3. SameResponses(l)
  BY LceLeaves, SameFrom
<1>4. credit' = credit
  BY DEF LceStep, LceCmdStep, LcePartialStep, CoreStep, LceReset, LceClear, LceSync, LceInv,
    LceData, LceStWakeup, LceStWb, LceStTr, LceTr, LceWbStatRd, LceWb, LceWbDirtyRd,
    LceWbDirtySend, LceTagOnly, LceDataOnly, LceStatOnly, CoreStore, CoreMiss, CoreUcLoad,
    CoreReplay, LockExpire, coreVars
<1>5. SentMiss(l)' = SentMiss(l)
  <2>1. CASE miss' = miss
    BY <2>1 DEF SentMiss
  <2>2. CASE CoreReplay(k) \/ LockExpire(k)
    BY <2>2 DEF CoreReplay, LockExpire, SentMiss, NoMiss, IInv, CoreOK, CoreTypeOK
  <2>3. CASE \E b \in Block, op \in CoreOps, w \in Way : CoreMiss(k, b, op, w)
    BY <2>3 DEF CoreMiss, CacheReady, SentMiss, IInv, CoreOK, CoreTypeOK
  <2>4. CASE \E a \in IoBlock : CoreUcLoad(k, a)
    BY <2>4 DEF CoreUcLoad, CacheReady, SentMiss, NoMiss, IInv, CoreOK, CoreTypeOK
  <2>5. QED
    BY <2>1, <2>2, <2>3, <2>4, MissBy
<1>6. QED
  BY <1>1, <1>2, <1>3, <1>4, <1>5, CreditSame DEF SameCredit

(* CreditInv, step of a cache.                                             *)
LEMMA CreditLce ==
  ASSUME IInv, IInv', SerialInv, CreditInv, NEW k \in LCE, LceStep(k)
  PROVE  CreditInv'
<1>1. ASSUME NEW l \in LCE
      PROVE  CreditNext(l)
  BY CreditHead, CreditStDone, CreditMissEnds, CreditRequest, CreditQuiet
<1>2. QED
  BY <1>1, CreditFrom

(* CreditInv, no step.                                                     *)
LEMMA CreditStutter == ASSUME CreditInv, UNCHANGED vars PROVE CreditInv'
<1>1. ASSUME NEW l \in LCE
      PROVE  CreditNext(l)
  <2>1. /\ reqNet' = reqNet /\ memResp' = memResp /\ cmdNet' = cmdNet
        /\ lceCmd' = lceCmd /\ credit' = credit /\ miss' = miss
    BY DEF vars, netVars, memVars, lceVars, coreVars
  <2>2. QED
    BY <2>1, SameFrom, CreditSame
<1>2. QED
  BY <1>1, CreditFrom

(* CreditInv in the initial states.                                        *)
LEMMA CreditInit == ASSUME Init PROVE CreditInv
<1>1. ASSUME NEW l \in LCE
      PROVE  /\ IsFiniteSet(UcRequests(l)) /\ IsFiniteSet(UcResponses(l))
             /\ IsFiniteSet(UcDones(l))
             /\ credit[l] = UcStores(l) + IF miss[l].phase = "sent" THEN 1 ELSE 0
  <2>1. /\ \A c \in CCE : reqNet[<<l, c>>] = <<>> /\ memResp[c] = <<>>
        /\ cmdNet = {} /\ lceCmd[l] = None /\ credit[l] = 0 /\ miss[l].phase = "idle"
    BY DEF Init, LceInit, CceInit, NoMiss
  <2>2. /\ UcRequests(l) = {} /\ UcResponses(l) = {} /\ UcDones(l) = {} /\ HeldDone(l) = {}
    <3>1. UcRequests(l) = {}
      <4>1. \A c \in CCE : {i \in DOMAIN reqNet[<<l, c>>] : reqNet[<<l, c>>][i].op = "uc_wr"} = {}
        BY <2>1
      <4>2. QED
        BY <4>1 DEF UcRequests
    <3>2. UcResponses(l) = {}
      <4>1. \A c \in CCE : {i \in DOMAIN memResp[c] :
                                memResp[c][i].type = "uc_wr" /\ memResp[c][i].lce = l} = {}
        <5> SUFFICES ASSUME NEW c \in CCE, NEW i \in DOMAIN memResp[c] PROVE FALSE
          OBVIOUS
        <5>1. memResp[c] = <<>>
          BY <2>1
        <5>2. QED
          BY <5>1
      <4>2. QED
        BY <4>1 DEF UcResponses
    <3>3. UcDones(l) = {} /\ HeldDone(l) = {}
      BY <2>1 DEF UcDones, HeldDone, Holds
    <3>4. QED
      BY <3>1, <3>2, <3>3
  <2>3. QED
    BY <2>1, <2>2, FS_EmptySet DEF UcStores
<1>2. QED
  BY <1>1 DEF CreditInv, CreditsExact, StoresFinite

(* No credit is lost or returned twice (bp_lce_req counts a miss and the   *)
(* posted stores with one counter that two signals count down): the        *)
(* credits taken are those of the miss in flight and of the uncached       *)
(* stores between the core and their acknowledgements.                     *)
THEOREM CreditsAreExact == Spec => []CreditsExact
<1>1. Init => CreditInv
  BY CreditInit
<1>2. IInv /\ IInv' /\ SerialInv /\ CreditInv /\ [Next]_vars => CreditInv'
  BY CreditCce, CreditLce, CreditStutter DEF Next
<1>3. CreditInv => CreditsExact
  BY DEF CreditInv
<1>4. QED
  BY <1>1, <1>2, <1>3, Serial, PTL DEF Spec
=============================================================================
