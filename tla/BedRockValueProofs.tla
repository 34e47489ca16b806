------------------------ MODULE BedRockValueProofs ------------------------
(***************************************************************************)
(* The values of the coherence system: ValueInv of BedRockInvariant is an  *)
(* invariant of it if every miss that asks to write is followed by its     *)
(* store. So memory is current when nobody owns a block, is written only   *)
(* with the last value stored, and engines, caches, networks and memory    *)
(* implement CoherentMemory.                                               *)
(***************************************************************************)
EXTENDS BedRockRightsProofs

----------------------------------------------------------------------------
(* A copy that a store may write.                                          *)

(* Cache k may write block b now: it has it in way w and waits for nothing. *)
Stored(k, s, w, b) ==
  /\ k \in LCE /\ s \in Set /\ w \in Way /\ b \in Block /\ s = SetOf[b]
  /\ Past(k) /\ Tagged(k, s, w, b) /\ tag[k][<<s, w>>].st \in Owned
  /\ miss[k].phase # "sent"
(* The directory has it as owned.                                          *)
OwnedCopy(k, s, w, b) == Copy(k, s, w, b) /\ dir[k][<<s, w>>].st \in Owned
(* Message m is the transfer that will take it, and it has not begun.      *)
GivenAway(k, s, w, b, m) ==
  /\ Arrives(m, k) /\ Ready(m) /\ HasTok(m) /\ m.dst = k /\ m.type \in Transfer
  /\ m.addr = b /\ m.way = w

(* A copy a store may write is in the directory as owned, or a transfer    *)
(* that takes it away is on its way.                                       *)
LEMMA StoredWhere ==
  ASSUME Rights, NEW k, NEW s, NEW w, NEW b, Stored(k, s, w, b)
  PROVE  /\ InService(HomeOf[s]) /\ HomeOf[s] \in CCE /\ Cleared(HomeOf[s])
         /\ OwnedCopy(k, s, w, b) \/ \E m : GivenAway(k, s, w, b, m)
<1>1. k \in LCE /\ s \in Set /\ w \in Way /\ b \in Block /\ tag[k][<<s, w>>].st \in Owned
      /\ tag[k][<<s, w>>].blk = b /\ Past(k)
  BY DEF Stored, Tagged
<1>2. HomeOf[s] \in CCE
  BY <1>1, ConstantsAssumption
<1>3. InService(HomeOf[s])
  BY <1>1, RightsParts, SoundParts DEF StartInv, StartTag, Owned
<1>4. Cleared(HomeOf[s])
  BY <1>3 DEF InService, Cleared
<1>5. CASE Same(k, s, w)
  BY <1>1, <1>2, <1>3, <1>4, <1>5 DEF Same, OwnedCopy, Copy, Owned
<1>6. ~ToFill(k, s, w)
  BY DEF ToFill, Open, Stored
<1>7. ~ToUpgrade(k, s, w)
  BY <1>1 DEF ToUpgrade, Owned
<1>8. ~ToInvalidate(k, s, w)
  <2> SUFFICES ASSUME ToInvalidate(k, s, w)
               PROVE  FALSE
    OBVIOUS
  <2>1. PICK m : Arrives(m, k) /\ m.dst = k /\ m.type = "inv" /\ FrameOf(m.addr, m.way) = <<s, w>>
    BY DEF ToInvalidate, Coming
  <2>2. Ready(m)
    BY <1>1, <2>1 DEF Arrives, Ready
  <2>3. QED
    BY <1>1, <2>1, <2>2, RightsParts DEF InvShared
<1>9. CASE ToGive(k, s, w)
  <2>1. PICK m : Arrives(m, k) /\ m.dst = k /\ m.type \in Transfer /\ FrameOf(m.addr, m.way) = <<s, w>>
    BY <1>9 DEF ToGive, Coming, Transfer
  <2>2. Ready(m) /\ Present(m)
    BY <1>1, <2>1 DEF Arrives, Ready, Present
  <2>3. HasTok(m)
    BY <2>1, <2>2, ReadyTok, RightsParts DEF Transfer, Gives
  <2>4. m.addr = b
    BY <1>1, <2>1, <2>2, RightsParts DEF GiveTag, Giving, Transfer
  <2>5. m.way = w
    BY <2>1 DEF FrameOf
  <2>6. GivenAway(k, s, w, b, m)
    BY <2>1, <2>2, <2>3, <2>4, <2>5 DEF GivenAway
  <2>7. QED
    BY <1>2, <1>3, <1>4, <2>6
<1>10. QED
  BY <1>1, <1>3, <1>5, <1>6, <1>7, <1>8, <1>9, RightsParts, SoundParts DEF TagInv

(* Nobody else has a copy of its block, and its cache has it nowhere else. *)
LEMMA StoredAlone ==
  ASSUME Rights, NEW k, NEW s, NEW w, NEW b, Stored(k, s, w, b),
         NEW l \in LCE, NEW t \in Set, NEW v \in Way, Past(l), Tagged(l, t, v, b)
  PROVE  l = k /\ t = s /\ v = w
<1>1. k \in LCE /\ s \in Set /\ w \in Way /\ b \in Block /\ tag[k][<<s, w>>].st \in Owned
      /\ Past(k) /\ Tagged(k, s, w, b) /\ s = SetOf[b]
  BY DEF Stored
<1>2. t = s
  BY <1>1, RightsParts, SoundParts DEF TagSet, Tagged
<1>3. l = k
  BY <1>1, <1>2, RightsParts, SoundParts DEF TagOwner
<1>4. v = w
  BY <1>1, <1>2, <1>3, RightsParts DEF TagOne
<1>5. QED
  BY <1>2, <1>3, <1>4

(* What brings a block is for a cache that waits for it, and the directory *)
(* has it there.                                                           *)
LEMMA TokGrant ==
  ASSUME Sound, NEW n, HasTok(n)
  PROVE  /\ n.type \in Gives /\ Target(n) \in LCE /\ miss[Target(n)].phase = "sent"
         /\ \E v \in Way : Copy(Target(n), SetOf[n.addr], v, n.addr)
<1>1. PICK a, x :
        /\ a \in {"cmd", "lce"}
        /\ Tok(a, x, 0, Target(n), n.addr, "cached")
        /\ a = "cmd" => x = n /\ n \in cmdNet
        /\ a = "lce" => x \in LCE /\ n = lceCmd[x] /\ n # None /\ lceState[x] \notin Passed
  BY DEF HasTok
<1>2. Carries(n, Target(n), n.addr, "cached")
  BY <1>1 DEF Tok, CmdTok, LceTok
<1>3. n.type \in Gives
  BY <1>2 DEF Carries, Sources, Gives, Kind
<1>4. Grants(n)
  BY <1>1, SoundParts DEF GrantInv, GrantCmd, GrantHeld
<1>5. n \in Command /\ n.addr \in Block /\ Target(n) \in LCE /\ n.way \in Way
  BY DEF HasTok
<1>6. n.type \in Transfer => n.targetWay \in Way
  BY <1>5, CommandFields DEF Transfer
<1>7. \E v \in Way : Copy(Target(n), SetOf[n.addr], v, n.addr)
  <2>1. CASE n.type \in Transfer
    <3>1. Granted(n.target, n.addr, n.targetWay, n.targetSt) /\ Target(n) = n.target
      BY <1>4, <2>1 DEF Grants, Transfer, Target
    <3>2. QED
      BY <1>6, <2>1, <3>1 DEF Granted, Entered, Copy, FrameOf
  <2>2. CASE n.type \in {"data", "st_wakeup"}
    <3>1. Granted(n.dst, n.addr, n.way, n.st) /\ Target(n) = n.dst
      BY <1>4, <2>2 DEF Grants, Target
    <3>2. QED
      BY <1>5, <3>1 DEF Granted, Entered, Copy, FrameOf
  <2>3. QED
    BY <1>3, <2>1, <2>2 DEF Gives, Transfer
<1>8. miss[Target(n)].phase = "sent"
  BY <1>1, <1>5, TokOpen, SoundParts
<1>9. QED
  BY <1>3, <1>5, <1>7, <1>8

(* No entry of a set is fresh while no engine works for it.                *)
LEMMA NotFresh ==
  ASSUME Sound, NEW s, \A c \in CCE : AtFsm(c) => ReqSet(c) # s, HomeOf[s] \in CCE, NEW l, NEW w
  PROVE  ~Fresh(s, l, w)
BY DEF Fresh, Serving, AtFsm, Unsourced, Working, Cached

(* The only message that gives the block of such a copy is the transfer    *)
(* that takes that copy.                                                   *)
LEMMA StoredGiver ==
  ASSUME Rights, NEW k, NEW s, NEW w, NEW b, Stored(k, s, w, b), NEW n, HasTok(n), n.addr = b
  PROVE  n.type \in Transfer /\ n.dst = k /\ n.way = w
<1>1. s = SetOf[b] /\ k \in LCE /\ s \in Set /\ w \in Way /\ miss[k].phase # "sent"
  BY DEF Stored
<1>2. PICK l \in LCE, v \in Way : l = Target(n) /\ Copy(l, s, v, b) /\ l # k
  BY <1>1, TokGrant, RightsParts
<1>3. ~OwnedCopy(k, s, w, b)
  <2> SUFFICES ASSUME OwnedCopy(k, s, w, b)
               PROVE  FALSE
    OBVIOUS
  <2>1. Cleared(HomeOf[s]) /\ HomeOf[s] \in CCE
    BY StoredWhere
  <2>2. \A c \in CCE : AtFsm(c) => ReqSet(c) # s
    BY <1>1, TokAlone, RightsParts
  <2>3. ~Fresh(s, k, w) /\ ~Fresh(s, l, v)
    BY <2>1, <2>2, NotFresh, RightsParts
  <2>4. QED
    BY <1>1, <1>2, <2>1, <2>3, RightsParts, SoundParts DEF DirInv, DirOwner, OwnedCopy
<1>4. PICK m : GivenAway(k, s, w, b, m)
  BY <1>3, StoredWhere
<1>5. HasTok(m) /\ SetOf[m.addr] = SetOf[n.addr]
  BY <1>4 DEF GivenAway
<1>6. n = m
  BY <1>5, TokAlone, RightsParts
<1>7. QED
  BY <1>4, <1>6 DEF GivenAway

(* While an engine works for the set, the copy is in the directory, at     *)
(* another cache than the requester.                                       *)
LEMMA StoredFsm ==
  ASSUME Rights, NEW k, NEW s, NEW w, NEW b, Stored(k, s, w, b), NEW c \in CCE, AtFsm(c), ReqSet(c) = s
  PROVE  OwnedCopy(k, s, w, b) /\ k # mshr[c].lce
<1>1. s = SetOf[b] /\ miss[k].phase # "sent"
  BY DEF Stored
<1>2. k # mshr[c].lce
  BY <1>1, FsmHas, RightsParts, SoundParts
<1>3. \A m : ~GivenAway(k, s, w, b, m)
  BY <1>1, TokAlone, RightsParts DEF GivenAway
<1>4. QED
  BY <1>2, <1>3, StoredWhere

(* It is not the block that is being evicted.                              *)
LEMMA StoredVictim ==
  ASSUME Rights, NEW k, NEW s, NEW w, NEW b, Stored(k, s, w, b), NEW c \in CCE, Evicting(c)
  PROVE  mshr[c].lruBlk # b
<1> SUFFICES ASSUME mshr[c].lruBlk = b
             PROVE  FALSE
  OBVIOUS
<1>1. s = SetOf[b] /\ k \in LCE /\ w \in Way
  BY DEF Stored
<1>2. AtFsm(c)
  BY EvictingFsm, RightsParts
<1>3. ReqSet(c) = s
  BY <1>1, RightsParts, SoundParts DEF Base, SerialInv, DirSetInv, VictimSet, MshrInv, MshrFlagsOK,
     Evicting, Decided
<1>4. Copy(k, s, w, b)
  BY <1>2, <1>3, StoredFsm DEF OwnedCopy
<1>5. QED
  BY <1>1, <1>3, <1>4, RightsParts DEF VictimAlone

(* While the engine waits for a transfer with write-back, the command is   *)
(* still on its way.                                                       *)
LEMMA StoredSent ==
  ASSUME Rights, NEW k, NEW s, NEW w, NEW b, Stored(k, s, w, b), NEW c \in CCE,
         cceState[c] = "transfer_wb_resp", mshr[c].addr = b
  PROVE  \E m : GivenAway(k, s, w, b, m) /\ m.type = "st_tr_wb" /\ m.src = c
<1>1. s = SetOf[b] /\ k \in LCE /\ s \in Set /\ w \in Way /\ miss[k].phase # "sent"
  BY DEF Stored
<1>2. ReqSet(c) = s /\ HomeOf[s] = c
  BY <1>1, WorksHome, RightsParts, SoundParts DEF Base, Cached, ReqSet
<1>3. ~OwnedCopy(k, s, w, b)
  BY <1>1, <1>2, RightsParts DEF SharedSent, OwnedCopy, Owned
<1>4. PICK m : GivenAway(k, s, w, b, m)
  BY <1>3, StoredWhere
<1>5. Present(m) /\ m.type \in Transfer /\ m.addr = b /\ HasTok(m)
  BY <1>4 DEF GivenAway, Ready, Present
<1>6. m.type # "st_tr"
  <2> SUFFICES ASSUME m.type = "st_tr"
               PROVE  FALSE
    OBVIOUS
  <2>1. miss[m.target].op # "rd"
    BY <1>5, RightsParts DEF MovesWrite
  <2>2. PICK l \in LCE, v \in Way : l = Target(m) /\ Copy(l, s, v, b)
    BY <1>1, <1>5, TokGrant, RightsParts
  <2>3. l = m.target /\ l \in Open(s) /\ miss[l].addr = b
    BY <1>1, <1>5, <2>2, TokAlone, RightsParts DEF Target
  <2>4. ~Early(s)
    BY <1>2 DEF Early
  <2>5. dir[l][<<s, v>>].st = "M"
    BY <1>1, <2>1, <2>2, <2>3, <2>4, RightsParts DEF GrantsWrite
  <2>6. QED
    BY <1>2, <2>2, <2>5, RightsParts DEF SharedSent
<1>7. m.type = "st_tr_wb"
  BY <1>5, <1>6 DEF Transfer
<1>8. m.src = c
  BY <1>1, <1>2, <1>5, <1>7, PresentWb, RightsParts
<1>9. QED
  BY <1>4, <1>7, <1>8

(* What the proof of ValueInv may use.                                     *)
Full == Rights /\ StoresFollow /\ ValueInv

(* The parts of all that holds.                                            *)
LEMMA FullParts ==
  ASSUME Full
  PROVE  /\ Rights /\ Sound /\ Base /\ IInv /\ StoresFollow
         /\ CopyLatest /\ VictimLine /\ GiveLine /\ BufLatest /\ WbLatest /\ DataLatest
         /\ MemLatest /\ SpecLatest /\ MemOwed /\ ReadWaits /\ MissKnown
BY DEF Full, ValueInv, Rights, Sound, Base

(* The commands that give the block of a copy a store may write.           *)
LEMMA StoredGives ==
  ASSUME Rights, NEW k, NEW s, NEW w, NEW b, Stored(k, s, w, b), NEW n, Present(n),
         n.type \in Giving, n.addr = b
  PROVE  n.type \in Transfer /\ n.dst = k /\ n.way = w /\ HasTok(n)
<1>1. n.type # "st_wb"
  <2> SUFFICES ASSUME n.type = "st_wb"
               PROVE  FALSE
    OBVIOUS
  <2>1. PICK c \in CCE : n.addr = mshr[c].lruBlk /\ Evicting(c)
    BY PresentVictim, RightsParts
  <2>2. QED
    BY <2>1, StoredVictim
<1>2. n.type \in Transfer
  BY <1>1 DEF Giving, Transfer
<1>3. ~(n.type = "st_tr_wb" /\ \E l \in LCE : n = lceCmd[l] /\ n # None /\ n.dst = l
                                               /\ lceState[l] \in Passed)
  <2> SUFFICES ASSUME n.type = "st_tr_wb", NEW l \in LCE, n = lceCmd[l], n # None, lceState[l] \in Passed
               PROVE  FALSE
    OBVIOUS
  <2>1. PICK c \in CCE : c = n.src /\ n.addr = WbAddr(c) /\ n.type = WbType(c)
                         /\ cceState[c] \in {"replacement_wb_resp", "transfer_wb_resp"}
    BY PresentWb, RightsParts
  <2>2. cceState[c] = "transfer_wb_resp" /\ mshr[c].addr = b
    BY <2>1 DEF WbAddr, WbType
  <2>3. PICK m : GivenAway(k, s, w, b, m) /\ m.type = "st_tr_wb" /\ m.src = c
    BY <2>2, StoredSent
  <2>4. WbTok(c, "lce", l)
    BY <2>1 DEF WbTok, WbLce, Holds
  <2>5. m \in cmdNet \/ (m = lceCmd[k] /\ m # None /\ lceState[k] = "ready")
    BY <2>3 DEF GivenAway, Arrives
  <2>6. k \in LCE
    BY DEF Stored
  <2>7. CASE m \in cmdNet
    <3>1. WbTok(c, "cmd", m)
      BY <2>3, <2>7 DEF WbTok, WbCmd
    <3>2. QED
      BY <2>4, <3>1, RightsParts, SoundParts DEF Base, SerialInv, WbInv, WbOne
  <2>8. CASE m = lceCmd[k] /\ m # None /\ lceState[k] = "ready"
    <3>1. WbTok(c, "lce", k)
      BY <2>3, <2>6, <2>8 DEF WbTok, WbLce, Holds
    <3>2. k = l
      BY <2>4, <3>1, RightsParts, SoundParts DEF Base, SerialInv, WbInv, WbOne
    <3>3. QED
      BY <2>8, <3>2 DEF Passed
  <2>9. QED
    BY <2>5, <2>7, <2>8
<1>4. HasTok(n)
  BY <1>2, <1>3, PresentTr, RightsParts
<1>5. QED
  BY <1>2, <1>4, StoredGiver

(* No cache has begun to give it.                                          *)
LEMMA StoredIdle ==
  ASSUME Rights, NEW k, NEW s, NEW w, NEW b, Stored(k, s, w, b), NEW l \in LCE, lceState[l] \in Begun
  PROVE  lceCmd[l].addr # b
<1> SUFFICES ASSUME lceCmd[l].addr = b
             PROVE  FALSE
  OBVIOUS
<1> DEFINE n == lceCmd[l]
<1>1. n # None /\ n.type \in Giving
  BY RightsParts, SoundParts DEF Base, IInv, LceOK, CmdWF, Holds, Begun, Passed, Giving
<1>2. Present(n)
  BY <1>1 DEF Present
<1>3. n.dst = k /\ n.way = w
  BY <1>1, <1>2, StoredGives
<1>4. n.dst = l
  BY <1>1, Lces, RightsParts
<1>5. CmdFrame(l) = <<s, w>>
  BY <1>3 DEF CmdFrame, FrameOf, Stored
<1>6. QED
  BY <1>3, <1>4, <1>5, RightsParts DEF GiveBegun, Stored

(* No write-back of it is in flight.                                       *)
LEMMA StoredWb ==
  ASSUME Rights, NEW k, NEW s, NEW w, NEW b, Stored(k, s, w, b), NEW m \in respNet, m.type = "wb"
  PROVE  m.addr # b
<1> SUFFICES ASSUME m.addr = b
             PROVE  FALSE
  OBVIOUS
<1>1. PICK c \in CCE : c = m.dst
  BY RightsParts, SoundParts DEF Base, IInv, NetTypeOK, Response
<1>2. WbResp(c, m)
  BY <1>1 DEF WbResp
<1>3. cceState[c] \in {"replacement_wb_resp", "transfer_wb_resp"} /\ m.addr = WbAddr(c)
  BY <1>2, WbMine, RightsParts, SoundParts DEF Base
<1>4. cceState[c] # "replacement_wb_resp"
  BY <1>3, StoredVictim DEF Evicting, WbAddr
<1>5. PICK n : GivenAway(k, s, w, b, n) /\ n.type = "st_tr_wb" /\ n.src = c
  BY <1>3, <1>4, StoredSent DEF WbAddr
<1>6. k \in LCE
  BY DEF Stored
<1>7. \/ WbTok(c, "cmd", n)
      \/ WbTok(c, "lce", k)
  BY <1>5, <1>6 DEF GivenAway, Arrives, WbTok, WbCmd, WbLce, Holds
<1>8. WbTok(c, "resp", m)
  BY <1>2 DEF WbTok
<1>9. QED
  BY <1>7, <1>8, RightsParts, SoundParts DEF Base, SerialInv, WbInv, WbOne

(* No data command with it is ready.                                       *)
LEMMA StoredData ==
  ASSUME Rights, NEW k, NEW s, NEW w, NEW b, Stored(k, s, w, b), NEW n, Ready(n), n.type = "data"
  PROVE  n.addr # b
<1>1. HasTok(n)
  BY ReadyTok, RightsParts DEF Gives
<1>2. QED
  BY <1>1, StoredGiver DEF Transfer

(* A resolved read is of its set, and the only one.                        *)
LEMMA MemTokIs ==
  ASSUME Sound, NEW c \in CCE, NEW i \in Nat, NEW l, NEW b, MemTok(c, i, l, b, "cached")
  PROVE  /\ l \in LCE /\ b \in Block /\ memResp[c][i].type = "rd" /\ memResp[c][i].way \in Way
         /\ SetOf[b] \in Set /\ HomeOf[SetOf[b]] = c /\ ReadOf(SetOf[b], i)
<1>1. i \in DOMAIN memResp[c] /\ memResp[c][i].type \in {"rd", "uc_rd"}
      /\ l = memResp[c][i].lce /\ b = memResp[c][i].addr
      /\ "cached" = Kind(memResp[c][i].type = "uc_rd")
  BY DEF MemTok
<1>2. memResp[c] \in Seq(MemResponse)
  BY SoundParts DEF Base, IInv, MemTypeOK
<1>3. memResp[c][i] \in MemResponse
  BY <1>1, <1>2
<1>4. memResp[c][i].type = "rd"
  BY <1>1 DEF Kind
<1>5. l \in LCE /\ b \in Block /\ memResp[c][i].way \in Way
  BY <1>1, <1>3, <1>4 DEF MemResponse
<1>6. SetOf[b] \in Set
  BY <1>5, ConstantsAssumption
<1>7. HomeOf[SetOf[b]] = c
  BY <1>1, <1>4, SoundParts DEF Base, SerialInv, HomeInv, Home
<1>8. ReadOf(SetOf[b], i)
  BY <1>1, <1>4, <1>7 DEF ReadOf
<1>9. QED
  BY <1>4, <1>5, <1>6, <1>7, <1>8

(* No resolved read of it is in the memory queue.                          *)
LEMMA StoredMem ==
  ASSUME Rights, NEW k, NEW s, NEW w, NEW b, Stored(k, s, w, b), NEW c \in CCE, NEW i \in Nat, NEW l,
         MemTok(c, i, l, b, "cached")
  PROVE  FALSE
<1>1. s = SetOf[b] /\ k \in LCE /\ s \in Set /\ w \in Way /\ b \in Block /\ miss[k].phase # "sent"
  BY DEF Stored
<1>2. l \in LCE /\ memResp[c][i].way \in Way
  BY MemTokIs, RightsParts
<1>3. Tok("mem", c, i, l, b, "cached")
  BY DEF Tok
<1>4. \A m : ~GivenAway(k, s, w, b, m)
  BY <1>1, <1>2, <1>3, TokAlone, RightsParts DEF GivenAway
<1>5. OwnedCopy(k, s, w, b) /\ Cleared(HomeOf[s]) /\ HomeOf[s] \in CCE
  BY <1>4, StoredWhere
<1>6. miss[l].phase = "sent"
  BY <1>1, <1>2, <1>3, TokOpen, RightsParts, SoundParts
<1>7. PICK v \in Way : Copy(l, s, v, b)
  <2>1. Granted(l, b, memResp[c][i].way, MemState(SetOf[b]))
    BY RightsParts, SoundParts DEF GrantInv, GrantMem
  <2>2. QED
    BY <1>1, <1>2, <2>1 DEF Granted, Entered, Copy, FrameOf
<1>8. \A d \in CCE : AtFsm(d) => ReqSet(d) # s
  BY <1>1, <1>2, <1>3, FsmNot, RightsParts, SoundParts
<1>9. ~Fresh(s, k, w) /\ ~Fresh(s, l, v)
  BY <1>5, <1>8, NotFresh, RightsParts
<1>10. k = l
  BY <1>1, <1>2, <1>5, <1>7, <1>9, RightsParts, SoundParts DEF DirInv, DirOwner, OwnedCopy
<1>11. QED
  BY <1>1, <1>6, <1>10

(* An engine that has read its entry knows that the speculative read will  *)
(* be squashed.                                                            *)
LEMMA StoredSpec ==
  ASSUME Rights, NEW k, NEW s, NEW w, NEW b, Stored(k, s, w, b), NEW c \in CCE,
         cceState[c] \in Working \ {"read_mem_spec", "read_dir"}, mshr[c].addr = b
  PROVE  mshr[c].xf \/ mshr[c].uf
<1> SUFFICES ASSUME ~mshr[c].xf, ~mshr[c].uf
             PROVE  FALSE
  OBVIOUS
<1>1. s = SetOf[b] /\ k \in LCE /\ s \in Set /\ w \in Way /\ ReqSet(c) = s /\ HomeOf[s] = c
  BY WorksHome, RightsParts, SoundParts DEF Stored, ReqSet, Working, Base
<1>2. cceState[c] \notin {"upgrade_stw_cmd", "transfer", "transfer_wb_resp"}
  BY RightsParts, SoundParts DEF Base, IInv, CceOK, MshrWF, SerialInv, MshrInv, MshrFlagsOK
<1>3. AtFsm(c)
  BY <1>2 DEF AtFsm, Unsourced, Working
<1>4. OwnedCopy(k, s, w, b) /\ k # mshr[c].lce
  BY <1>1, <1>3, StoredFsm
<1>5. OtherCopy(c, k, w) /\ dir[k][<<s, w>>].st # "S"
  BY <1>1, <1>4 DEF OwnedCopy, OtherCopy, Owned
<1>6. cceState[c] \notin Deciding
  BY <1>1, <1>5, RightsParts, SoundParts DEF DirInv, KnownInv, KnownNoOwner
<1>7. cceState[c] # "inv_cmd"
  BY <1>1, <1>5, RightsParts DEF SharedLeft
<1>8. cceState[c] \in {"inv_ack", "resolve_speculation"}
  BY <1>2, <1>6, <1>7 DEF Working, Cached, Deciding
<1>9. mshr[c].lce \in LCE /\ mshr[c].lru \in Way
  BY <1>3, FsmHas, RightsParts, SoundParts
<1>10. PICK v \in Way : Copy(mshr[c].lce, s, v, b)
  <2>1. Granting(c)
    BY <1>8 DEF Granting
  <2>2. Granted(mshr[c].lce, mshr[c].addr, GrantWay(c), mshr[c].next) /\ GrantWay(c) \in Way
    BY <1>9, <2>1, RightsParts, SoundParts DEF GrantInv, GrantFsm, GrantWay
  <2>3. QED
    BY <1>1, <2>2 DEF Granted, Entered, Copy, FrameOf
<1>11. ~Fresh(s, k, w) /\ ~Fresh(s, mshr[c].lce, v)
  BY <1>1, <1>8 DEF Fresh
<1>12. k = mshr[c].lce
  BY <1>1, <1>4, <1>9, <1>10, <1>11, StoredWhere, RightsParts, SoundParts DEF DirInv, DirOwner, OwnedCopy
<1>13. QED
  BY <1>4, <1>12

----------------------------------------------------------------------------
(* The steps of a store.                                                   *)

(* A store: the core's own, or the replay of one that missed.              *)
StoreStep(k, s, w, b, d) ==
  /\ Stored(k, s, w, b) /\ d \in Data
  /\ line' = [line EXCEPT ![k][<<s, w>>] = d]
  /\ dirty' = [dirty EXCEPT ![k][<<s, w>>] = TRUE]
  /\ latest' = [latest EXCEPT ![b] = d]
  /\ UNCHANGED <<cceVars, dirVars, memVars, tag, lceVars, credit, netVars>>
  /\ \/ miss' = miss
     \/ miss[k].phase = "replay" /\ miss[k].addr = b /\ miss' = [miss EXCEPT ![k] = NoMiss]

(* A store to a copy is a StoreStep.                                       *)
LEMMA StoreIs ==
  ASSUME Full, NEW k \in LCE, NEW b \in Block, NEW w \in Way, NEW d \in Data, Store(k, b, w, d),
         UNCHANGED <<cceVars, dirVars, memVars, tag, lceVars, credit, netVars>>,
         \/ miss' = miss /\ miss[k].phase = "idle"
         \/ miss[k].phase = "replay" /\ miss[k].addr = b /\ miss' = [miss EXCEPT ![k] = NoMiss]
  PROVE  StoreStep(k, SetOf[b], w, b, d)
<1>1. SetOf[b] \in Set
  BY ConstantsAssumption
<1>2. Stored(k, SetOf[b], w, b)
  BY <1>1 DEF Stored, Past, Tagged, Store, Hit, FrameOf, Owned
<1>3. /\ line' = [line EXCEPT ![k][<<SetOf[b], w>>] = d]
      /\ dirty' = [dirty EXCEPT ![k][<<SetOf[b], w>>] = TRUE]
      /\ latest' = [latest EXCEPT ![b] = d]
  BY DEF Store, FrameOf
<1>4. QED
  BY <1>2, <1>3 DEF StoreStep

(* So is a store that hits.                                                *)
LEMMA CoreStoreIs ==
  ASSUME Full, NEW k \in LCE, NEW b \in Block, NEW w \in Way, NEW d \in Data, CoreStore(k, b, w, d)
  PROVE  StoreStep(k, SetOf[b], w, b, d)
BY StoreIs DEF CoreStore, CacheReady, coreVars

(* So is the replay of a store that missed.                                *)
LEMMA ReplayIs ==
  ASSUME Full, NEW k \in LCE, CoreReplay(k), miss[k].op = "wr"
  PROVE  \E s, w, b, d : StoreStep(k, s, w, b, d)
<1>1. miss[k].phase = "replay" /\ miss' = [miss EXCEPT ![k] = NoMiss]
      /\ UNCHANGED <<cceVars, dirVars, memVars, tag, lceVars, credit, netVars>>
  BY DEF CoreReplay
<1>2. miss[k].addr \in Block
  BY <1>1, FullParts DEF MissKnown
<1>3. PICK w \in Way, d \in Data : Store(k, miss[k].addr, w, d)
  BY DEF CoreReplay
<1>4. StoreStep(k, SetOf[miss[k].addr], w, miss[k].addr, d)
  BY <1>1, <1>2, <1>3, StoreIs
<1>5. QED
  BY <1>4

(* What it stores to.                                                      *)
StoreKnows(k, s, w, b) == k \in LCE /\ s \in Set /\ w \in Way /\ b \in Block /\ s = SetOf[b]
(* What it writes.                                                         *)
StoreWrites(k, s, w, b, d) == line'[k][<<s, w>>] = d /\ dirty'[k][<<s, w>>] /\ latest'[b] = d
(* What it leaves.                                                         *)
StoreLeaves(k, s, w, b) ==
  /\ \A l \in LCE, t \in Set, v \in Way :
       ~(l = k /\ t = s /\ v = w) => line'[l][<<t, v>>] = line[l][<<t, v>>]
  /\ \A a \in Block : a # b => latest'[a] = latest[a]
(* No dirty bit is cleared.                                                *)
DirtyGrows == \A l \in LCE, f \in Frame : dirty[l][f] => dirty'[l][f]

(* What a store writes and what it leaves.                                 *)
LEMMA StoreFacts ==
  ASSUME Full, NEW k, NEW s, NEW w, NEW b, NEW d, StoreStep(k, s, w, b, d)
  PROVE  StoreKnows(k, s, w, b) /\ StoreWrites(k, s, w, b, d) /\ StoreLeaves(k, s, w, b) /\ DirtyGrows
<1>1. /\ Stored(k, s, w, b) /\ d \in Data
      /\ line' = [line EXCEPT ![k][<<s, w>>] = d]
      /\ dirty' = [dirty EXCEPT ![k][<<s, w>>] = TRUE]
      /\ latest' = [latest EXCEPT ![b] = d]
  BY DEF StoreStep
<1>2. k \in LCE /\ s \in Set /\ w \in Way /\ b \in Block /\ s = SetOf[b] /\ <<s, w>> \in Frame
  BY <1>1 DEF Stored, Frame
<1>3. /\ line \in [LCE -> [Frame -> Data]] /\ dirty \in [LCE -> [Frame -> BOOLEAN]]
      /\ latest \in [Block -> Data]
  BY FullParts DEF IInv, CacheTypeOK, LatestOK
<1>4. line'[k][<<s, w>>] = d /\ latest'[b] = d
  BY <1>1, <1>2, <1>3
<1>5. dirty'[k][<<s, w>>]
  BY <1>1, <1>2, <1>3
<1>6. \A l \in LCE, t \in Set, v \in Way :
        ~(l = k /\ t = s /\ v = w) => line'[l][<<t, v>>] = line[l][<<t, v>>]
  BY <1>1, <1>2, <1>3 DEF Frame
<1>7. \A l \in LCE, f \in Frame : dirty[l][f] => dirty'[l][f]
  BY <1>1, <1>2, <1>3
<1>8. \A a \in Block : a # b => latest'[a] = latest[a]
  BY <1>1, <1>2, <1>3
<1>9. QED
  BY <1>2, <1>4, <1>5, <1>6, <1>7, <1>8 DEF StoreKnows, StoreWrites, StoreLeaves, DirtyGrows

(* What a store does not touch.                                            *)
LEMMA StoreFrame ==
  ASSUME NEW k, NEW s, NEW w, NEW b, NEW d, StoreStep(k, s, w, b, d)
  PROVE  /\ Stored(k, s, w, b)
         /\ UNCHANGED <<tag, lceState, lceCmd, dataBuf, cceState, mshr, dir, specBits, memResp, mem,
                        cmdNet, respNet, reqNet>>
BY DEF StoreStep, cceVars, dirVars, memVars, lceVars, netVars

(* CopyLatest, when a core stores.                                         *)
LEMMA CopyLatestStore ==
  ASSUME Full, NEW k, NEW s, NEW w, NEW b, NEW d, StoreStep(k, s, w, b, d)
  PROVE  CopyLatest'
<1>0. StoreKnows(k, s, w, b) /\ StoreWrites(k, s, w, b, d) /\ StoreLeaves(k, s, w, b)
  BY StoreFacts
<1> SUFFICES ASSUME NEW t \in Set, NEW l \in LCE, NEW v \in Way, NEW a,
                    Past(l)', Tagged(l, t, v, a)', ~Filling(l, <<t, v>>)'
             PROVE  line'[l][<<t, v>>] = latest'[a]
  BY DEF CopyLatest
<1>1. Past(l) /\ Tagged(l, t, v, a) /\ ~Filling(l, <<t, v>>)
  BY StoreFrame DEF Past, Tagged, Filling, Holds, CmdFrame
<1>2. line[l][<<t, v>>] = latest[a]
  BY <1>1, FullParts DEF CopyLatest
<1>3. a \in Block
  BY <1>1, FullParts, Lces DEF Tagged, Frame, Line
<1>4. CASE a = b
  BY <1>1, <1>4, StoreFrame, <1>0, StoredAlone, FullParts DEF StoreKnows, StoreWrites, StoreLeaves
<1>5. CASE a # b
  <2>1. Tagged(k, s, w, b)
    BY StoreFrame DEF Stored
  <2>2. ~(l = k /\ t = s /\ v = w)
    BY <1>1, <1>5, <2>1 DEF Tagged
  <2>3. QED
    BY <1>2, <1>3, <1>5, <2>2, <1>0 DEF StoreKnows, StoreWrites, StoreLeaves
<1>6. QED
  BY <1>4, <1>5

(* VictimLine, when a core stores.                                         *)
LEMMA VictimLineStore ==
  ASSUME Full, NEW k, NEW s, NEW w, NEW b, NEW d, StoreStep(k, s, w, b, d)
  PROVE  VictimLine'
<1>0. StoreKnows(k, s, w, b) /\ StoreWrites(k, s, w, b, d) /\ StoreLeaves(k, s, w, b)
  BY StoreFacts
<1> SUFFICES ASSUME NEW c \in CCE, Evicting(c)'
             PROVE  line'[mshr[c].lce][<<ReqSet(c), mshr[c].lru>>] = latest'[mshr[c].lruBlk]
  BY StoreFrame DEF VictimLine, ReqSet
<1>1. Evicting(c)
  BY StoreFrame DEF Evicting
<1>2. AtFsm(c) /\ mshr[c].lce \in LCE /\ mshr[c].lru \in Way /\ ReqSet(c) \in Set
  BY <1>1, EvictingFsm, FullParts
<1>3. mshr[c].lce # k
  BY <1>2, FsmHas, FullParts, StoreFrame DEF Stored
<1>4. mshr[c].lruBlk # b /\ mshr[c].lruBlk \in Block
  BY <1>1, StoredVictim, StoreFrame, FullParts DEF IInv, CceOK, MshrWF, Evicting, Decided
<1>5. QED
  BY <1>1, <1>2, <1>3, <1>4, <1>0, FullParts DEF VictimLine, StoreKnows, StoreWrites, StoreLeaves

(* GiveLine, when a core stores.                                           *)
LEMMA GiveLineStore ==
  ASSUME Full, NEW k, NEW s, NEW w, NEW b, NEW d, StoreStep(k, s, w, b, d)
  PROVE  GiveLine'
<1>0. StoreKnows(k, s, w, b) /\ StoreWrites(k, s, w, b, d) /\ StoreLeaves(k, s, w, b)
  BY StoreFacts
<1> SUFFICES ASSUME NEW m, Present(m)', m.type \in Giving
             PROVE  line'[m.dst][FrameOf(m.addr, m.way)] = latest'[m.addr]
  BY DEF GiveLine
<1>1. Present(m)
  BY StoreFrame DEF Present
<1>2. m.dst \in LCE /\ m.addr \in Block /\ m.way \in Way
  BY <1>1, PresentIn, CommandFields, FullParts DEF Giving
<1>3. SetOf[m.addr] \in Set /\ FrameOf(m.addr, m.way) = <<SetOf[m.addr], m.way>>
  BY <1>2, ConstantsAssumption DEF FrameOf
<1>4. CASE m.addr = b
  <2>1. m.dst = k /\ m.way = w
    BY <1>1, <1>4, StoredGives, StoreFrame, FullParts
  <2>2. QED
    BY <1>3, <1>4, <2>1, <1>0 DEF StoreKnows, StoreWrites, StoreLeaves
<1>5. CASE m.addr # b
  <2>1. tag[m.dst][FrameOf(m.addr, m.way)].blk = m.addr
    BY <1>1, RightsParts, FullParts DEF GiveTag
  <2>2. tag[k][<<s, w>>].blk = b
    BY StoreFrame DEF Stored, Tagged
  <2>3. ~(m.dst = k /\ SetOf[m.addr] = s /\ m.way = w)
    BY <1>3, <1>5, <2>1, <2>2
  <2>4. line[m.dst][FrameOf(m.addr, m.way)] = latest[m.addr]
    BY <1>1, FullParts DEF GiveLine
  <2>5. QED
    BY <1>2, <1>3, <1>5, <2>3, <2>4, <1>0 DEF StoreKnows, StoreWrites, StoreLeaves
<1>6. QED
  BY <1>4, <1>5

(* What is buffered or in flight, when a core stores.                      *)
LEMMA FlightStore ==
  ASSUME Full, NEW k, NEW s, NEW w, NEW b, NEW d, StoreStep(k, s, w, b, d)
  PROVE  BufLatest' /\ WbLatest' /\ DataLatest' /\ MemLatest'
<1>0. StoreKnows(k, s, w, b) /\ StoreWrites(k, s, w, b, d) /\ StoreLeaves(k, s, w, b)
  BY StoreFacts
<1>1. BufLatest'
  <2> SUFFICES ASSUME NEW l \in LCE, lceState'[l] \in {"tr", "wb_dirty_send"}
               PROVE  dataBuf'[l] = latest'[lceCmd[l].addr]
    BY StoreFrame DEF BufLatest
  <2>1. lceState[l] \in {"tr", "wb_dirty_send"}
    BY StoreFrame
  <2>2. lceCmd[l].addr # b
    BY <2>1, StoredIdle, StoreFrame, FullParts DEF Begun, Passed
  <2>3. lceCmd[l] # None /\ lceCmd[l].type \in Giving
    BY <2>1, FullParts DEF IInv, LceOK, CmdWF, Holds, Giving
  <2>4. lceCmd[l].addr \in Block
    BY <2>3, Lces, FullParts, CommandFields DEF Giving
  <2>5. dataBuf[l] = latest[lceCmd[l].addr]
    BY <2>1, FullParts DEF BufLatest
  <2>6. QED
    BY <2>2, <2>4, <2>5, <1>0, StoreFrame DEF StoreKnows, StoreWrites, StoreLeaves
<1>2. WbLatest'
  <2> SUFFICES ASSUME NEW m \in respNet, m.type = "wb"
               PROVE  m.data = latest'[m.addr]
    BY StoreFrame DEF WbLatest
  <2>1. m.addr \in Block
    BY FullParts DEF IInv, NetTypeOK, Response
  <2>2. m.addr # b
    BY StoredWb, StoreFrame, FullParts
  <2>3. m.data = latest[m.addr]
    BY FullParts DEF WbLatest
  <2>4. QED
    BY <2>1, <2>2, <2>3, <1>0 DEF StoreKnows, StoreWrites, StoreLeaves
<1>3. DataLatest'
  <2> SUFFICES ASSUME NEW m, Ready(m)', m.type = "data"
               PROVE  m.data = latest'[m.addr]
    BY DEF DataLatest
  <2>1. Ready(m)
    BY StoreFrame DEF Ready
  <2>2. m.addr \in Block
    BY <2>1, ReadyIn, CommandFields, FullParts
  <2>3. m.addr # b
    BY <2>1, StoredData, StoreFrame, FullParts
  <2>4. m.data = latest[m.addr]
    BY <2>1, FullParts DEF DataLatest
  <2>5. QED
    BY <2>2, <2>3, <2>4, <1>0 DEF StoreKnows, StoreWrites, StoreLeaves
<1>4. MemLatest'
  <2> SUFFICES ASSUME NEW c \in CCE, NEW i \in Nat, NEW l, NEW a, MemTok(c, i, l, a, "cached")'
               PROVE  memResp'[c][i].data = latest'[a]
    BY DEF MemLatest
  <2>1. MemTok(c, i, l, a, "cached")
    BY StoreFrame DEF MemTok, Released
  <2>2. a \in Block
    BY <2>1, MemTokIs, FullParts
  <2>3. a # b
    BY <2>1, StoredMem, StoreFrame, FullParts
  <2>4. memResp[c][i].data = latest[a]
    BY <2>1, FullParts DEF MemLatest
  <2>5. QED
    BY <2>2, <2>3, <2>4, <1>0, StoreFrame DEF StoreKnows, StoreWrites, StoreLeaves
<1>5. QED
  BY <1>1, <1>2, <1>3, <1>4

(* SpecLatest, when a core stores.                                         *)
LEMMA SpecLatestStore ==
  ASSUME Full, NEW k, NEW s, NEW w, NEW b, NEW d, StoreStep(k, s, w, b, d)
  PROVE  SpecLatest'
<1>0. StoreKnows(k, s, w, b) /\ StoreWrites(k, s, w, b, d) /\ StoreLeaves(k, s, w, b)
  BY StoreFacts
<1> SUFFICES ASSUME NEW t \in Set, NEW i \in Nat, Serving(t), ReadOf(t, i), NEW c, c = HomeOf[t]
             PROVE  /\ cceState[c] = "read_dir" =>
                         \/ (\E l \in LCE, v \in Way : OtherCopy(c, l, v) /\ dir[l][<<t, v>>].st \in Owned)
                         \/ memResp[c][i].data = latest'[mshr[c].addr]
                    /\ cceState[c] # "read_dir" =>
                         mshr[c].xf \/ mshr[c].uf \/ memResp[c][i].data = latest'[mshr[c].addr]
  <2>1. UNCHANGED <<cceState, mshr, dir, memResp>>
    BY StoreFrame
  <2>2. \A c \in CCE : ReqSet(c)' = ReqSet(c)
    BY <2>1 DEF ReqSet
  <2>3. \A t, i : (Serving(t)' <=> Serving(t)) /\ (ReadOf(t, i)' <=> ReadOf(t, i))
    BY <2>1 DEF Serving, ReadOf, ReqSet
  <2>4. \A c, l, v : OtherCopy(c, l, v)' <=> OtherCopy(c, l, v)
    BY <2>1 DEF OtherCopy, Copy, ReqSet
  <2>5. QED
    BY <2>1, <2>3, <2>4 DEF SpecLatest
<1>1. c \in CCE /\ cceState[c] \in Working /\ ReqSet(c) = t /\ mshr[c].addr \in Block
  BY ConstantsAssumption, FullParts DEF Serving, Working, IInv, CceOK, MshrWF
<1>2. CASE mshr[c].addr # b
  <2>1. latest'[mshr[c].addr] = latest[mshr[c].addr]
    BY <1>0, <1>1, <1>2 DEF StoreLeaves
  <2>2. QED
    BY <2>1, FullParts DEF SpecLatest
<1>3. CASE mshr[c].addr = b /\ cceState[c] = "read_dir"
  <2>1. AtFsm(c) /\ ReqSet(c) = s /\ t = s
    BY <1>0, <1>1, <1>3 DEF AtFsm, Unsourced, ReqSet, StoreKnows
  <2>2. OwnedCopy(k, s, w, b) /\ k # mshr[c].lce
    BY <1>1, <2>1, StoredFsm, StoreFrame, FullParts
  <2>3. OtherCopy(c, k, w) /\ dir[k][<<t, w>>].st \in Owned
    BY <1>3, <2>1, <2>2 DEF OwnedCopy, OtherCopy
  <2>4. k \in LCE /\ w \in Way
    BY <1>0 DEF StoreKnows
  <2>5. QED
    BY <1>3, <2>3, <2>4
<1>4. CASE mshr[c].addr = b /\ cceState[c] # "read_dir"
  <2>1. cceState[c] # "read_mem_spec"
    BY FullParts, SoundParts DEF Base, SerialInv, SpecInv, ReadFor
  <2>2. mshr[c].xf \/ mshr[c].uf
    BY <1>1, <1>4, <2>1, StoredSpec, StoreFrame, FullParts
  <2>3. QED
    BY <1>4, <2>2
<1>5. QED
  BY <1>2, <1>3, <1>4

(* MemOwed, when a core stores.                                            *)
LEMMA MemOwedStore ==
  ASSUME Full, NEW k, NEW s, NEW w, NEW b, NEW d, StoreStep(k, s, w, b, d)
  PROVE  MemOwed'
<1>0. StoreKnows(k, s, w, b) /\ StoreWrites(k, s, w, b, d) /\ StoreLeaves(k, s, w, b) /\ DirtyGrows
  BY StoreFacts
<1> SUFFICES ASSUME NEW a \in Block, mem'[a] # latest'[a]
             PROVE  (DirtyCopy(a) \/ WbOwed(a) \/ WbFlying(a) \/ Moving(a))'
  BY DEF MemOwed
<1>1. CASE a = b
  <2>1. Hit(k, b, w, Owned)'
    BY <1>0, StoreFrame DEF Stored, Tagged, Past, Hit, FrameOf, StoreKnows
  <2>2. dirty'[k][FrameOf(b, w)]
    BY <1>0 DEF StoreWrites, StoreKnows, FrameOf
  <2>3. QED
    BY <1>0, <1>1, <2>1, <2>2 DEF DirtyCopy, StoreKnows
<1>2. CASE a # b
  <2>1. mem[a] # latest[a]
    BY <1>0, <1>2, StoreFrame DEF StoreLeaves
  <2>2. DirtyCopy(a) \/ WbOwed(a) \/ WbFlying(a) \/ Moving(a)
    BY <2>1, FullParts DEF MemOwed
  <2>3. CASE DirtyCopy(a)
    <3>1. PICK l, v : /\ l \in LCE /\ v \in Way
                      /\ Hit(l, a, v, Owned) /\ dirty[l][FrameOf(a, v)]
      BY <2>3 DEF DirtyCopy
    <3>2. FrameOf(a, v) \in Frame
      BY <3>1, ConstantsAssumption DEF FrameOf, Frame
    <3>3. Hit(l, a, v, Owned)' /\ dirty'[l][FrameOf(a, v)]
      BY <1>0, <3>1, <3>2, StoreFrame DEF Hit, DirtyGrows
    <3>4. QED
      BY <3>1, <3>3 DEF DirtyCopy
  <2>4. CASE WbOwed(a)
    <3>1. PICK l : /\ l \in LCE /\ Holds(l, {"st_wb", "st_tr_wb"}) /\ lceCmd[l].addr = a
                   /\ lceState[l] \in {"wb_dirty_rd", "wb_dirty_send"} \/ dirty[l][CmdFrame(l)]
      BY <2>4 DEF WbOwed
    <3>2. lceCmd[l].way \in Way
      BY <3>1, Lces, CommandFields, FullParts DEF Holds
    <3>3. CmdFrame(l) \in Frame
      BY <3>1, <3>2, ConstantsAssumption DEF CmdFrame, FrameOf, Frame
    <3>4. dirty[l][CmdFrame(l)] => dirty'[l][CmdFrame(l)]
      BY <1>0, <3>1, <3>3 DEF DirtyGrows
    <3>5. /\ Holds(l, {"st_wb", "st_tr_wb"})' /\ lceCmd'[l].addr = a
          /\ lceState'[l] \in {"wb_dirty_rd", "wb_dirty_send"} \/ (dirty[l][CmdFrame(l)])'
      BY <3>1, <3>4, StoreFrame DEF Holds, CmdFrame
    <3>6. QED
      BY <3>1, <3>5 DEF WbOwed
  <2>5. CASE WbFlying(a)
    BY <2>5, StoreFrame DEF WbFlying
  <2>6. CASE Moving(a)
    <3>1. PICK l : /\ l \in LCE /\ miss[l].op = "wr" /\ miss[l].addr = a
                   /\ \/ miss[l].phase = "replay"
                      \/ \E p \in {"cmd", "lce"} : \E x : Tok(p, x, 0, l, a, "cached")
      BY <2>6 DEF Moving
    <3>2. miss'[l] = miss[l]
      <4>1. miss \in [LCE -> Miss] /\ k \in LCE
        BY <1>0, FullParts DEF IInv, CoreOK, CoreTypeOK, StoreKnows
      <4>2. miss' = miss \/ (miss[k].addr = b /\ miss' = [miss EXCEPT ![k] = NoMiss])
        BY DEF StoreStep
      <4>3. QED
        BY <1>2, <3>1, <4>1, <4>2
    <3>3. ASSUME NEW p \in {"cmd", "lce"}, NEW x, Tok(p, x, 0, l, a, "cached")
          PROVE  Tok(p, x, 0, l, a, "cached")'
      BY <3>3, StoreFrame DEF Tok, CmdTok, LceTok, Carries
    <3>4. /\ miss'[l].op = "wr" /\ miss'[l].addr = a
          /\ \/ miss'[l].phase = "replay"
             \/ \E p \in {"cmd", "lce"} : \E x : Tok(p, x, 0, l, a, "cached")'
      BY <3>1, <3>2, <3>3
    <3>5. QED
      BY <3>1, <3>4 DEF Moving
  <2>7. QED
    BY <2>2, <2>3, <2>4, <2>5, <2>6
<1>3. QED
  BY <1>1, <1>2

(* A store keeps ValueInv.                                                 *)
LEMMA StoreKeeps ==
  ASSUME Full, NEW k, NEW s, NEW w, NEW b, NEW d, StoreStep(k, s, w, b, d)
  PROVE  ValueInv'
<1>1. ReadWaits'
  BY StoreFrame, FullParts DEF ReadWaits, Serving, ReqSet, ReadOf
<1>2. MissKnown'
  <2> SUFFICES ASSUME NEW l \in LCE, miss'[l].phase # "idle"
               PROVE  \/ miss'[l].op = "uc_rd"
                      \/ miss'[l].op \in CoreOps \cup {"rd"} /\ miss'[l].addr \in Block
    BY DEF MissKnown
  <2>1. miss \in [LCE -> Miss]
    BY FullParts DEF IInv, CoreOK, CoreTypeOK
  <2>2. miss' = miss \/ miss' = [miss EXCEPT ![k] = NoMiss]
    BY DEF StoreStep
  <2>3. miss'[l] = miss[l] \/ miss'[l] = NoMiss
    BY <2>1, <2>2
  <2>4. miss'[l] = miss[l]
    BY <2>3 DEF NoMiss
  <2>5. QED
    BY <2>4, FullParts DEF MissKnown
<1>3. QED
  BY <1>1, <1>2, CopyLatestStore, VictimLineStore, GiveLineStore, FlightStore, SpecLatestStore,
     MemOwedStore DEF ValueInv

----------------------------------------------------------------------------
(* The other steps of a cache.                                             *)

(* Only stores and replays change the last value stored.                   *)
LEMMA LatestBy ==
  ASSUME NEW l \in LCE, LceStep(l)
  PROVE  \/ latest' = latest
         \/ CoreReplay(l)
         \/ (\E b \in Block, w \in Way, d \in Data : CoreStore(l, b, w, d))
<1>1. CASE \/ LceReset(l) \/ LceClear(l) \/ LceHead(l) \/ LceSync(l) \/ LceInv(l)
            \/ LceData(l) \/ LceStWakeup(l) \/ LceStWb(l)
  BY <1>1 DEF LceReset, LceClear, LceHead, LceSync, LceInv, LceData, LceStWakeup, LceStWb
<1>2. CASE \/ LceStTr(l) \/ LceUcStDone(l) \/ LceUcData(l) \/ LceCohAck(l)
            \/ LceTr(l) \/ LceWbStatRd(l) \/ LceWb(l)
  BY <1>2 DEF LceStTr, LceUcStDone, LceUcData, LceCohAck, LceTr, LceWbStatRd, LceWb
<1>3. CASE \/ LceWbDirtyRd(l) \/ LceWbDirtySend(l) \/ LceTagOnly(l) \/ LceDataOnly(l) \/ LceStatOnly(l)
            \/ LceSendReq(l)
            \/ (\E b \in Block, op \in CoreOps, w \in Way : CoreMiss(l, b, op, w))
            \/ (\E a \in IoBlock : CoreUcLoad(l, a))
  BY <1>3 DEF LceWbDirtyRd, LceWbDirtySend, LceTagOnly, LceDataOnly, LceStatOnly, LceSendReq,
    CoreMiss, CoreUcLoad
<1>4. CASE \/ LockExpire(l) \/ (\E a \in IoBlock, d \in Data : CoreUcStore(l, a, d))
  BY <1>4 DEF CoreUcStore, LockExpire
<1>5. QED
  BY <1>1, <1>2, <1>3, <1>4 DEF LceStep, LceCmdStep, LcePartialStep, CoreStep

(* A step of a cache that stores nothing.                                  *)
PlainStep(k) ==
  /\ LceStep(k) /\ latest' = latest
  /\ line' = line \/ LceData(k) \/ LceDataOnly(k)
  /\ dirty' = dirty \/ LceClear(k) \/ LceStTr(k) \/ LceWbDirtyRd(k) \/ LceStatOnly(k)
  /\ CoreReplay(k) => miss[k].op # "wr"

(* A step of a cache stores, or is plain.                                  *)
LEMMA LceKinds ==
  ASSUME Full, NEW k \in LCE, LceStep(k)
  PROVE  PlainStep(k) \/ \E s, w, b, d : StoreStep(k, s, w, b, d)
<1>1. CASE \E b \in Block, w \in Way, d \in Data : CoreStore(k, b, w, d)
  BY <1>1, CoreStoreIs
<1>2. CASE CoreReplay(k) /\ miss[k].op = "wr"
  BY <1>2, ReplayIs
<1>3. CASE CoreReplay(k) /\ miss[k].op # "wr"
  BY <1>3 DEF CoreReplay, PlainStep
<1>4. CASE ~CoreReplay(k) /\ ~(\E b \in Block, w \in Way, d \in Data : CoreStore(k, b, w, d))
  BY <1>4, LatestBy, LineBy, DirtyBy DEF PlainStep
<1>5. QED
  BY <1>1, <1>2, <1>3, <1>4

(* A plain step writes a line only with the data of a fill, which are the  *)
(* latest.                                                                 *)
LEMMA LineChange ==
  ASSUME Full, NEW k \in LCE, PlainStep(k), NEW l \in LCE, NEW s \in Set, NEW w \in Way
  PROVE  \/ line'[l][<<s, w>>] = line[l][<<s, w>>]
         \/ /\ l = k /\ (LceData(k) \/ LceDataOnly(k))
            /\ Doing(k, lceCmd[k], s, w) /\ CmdFrame(k) = <<s, w>> /\ lceCmd[k].type = "data"
            /\ line'[k][<<s, w>>] = lceCmd[k].data
            /\ line'[k][<<s, w>>] = latest[lceCmd[k].addr]
<1>1. CASE line' = line
  BY <1>1
<1>2. CASE LceData(k) \/ LceDataOnly(k)
  <2>1. line' = [line EXCEPT ![k][CmdFrame(k)] = lceCmd[k].data] /\ Executes(k, {"data"})
    BY <1>2 DEF LceData, LceDataOnly, WriteData
  <2>2. line \in [LCE -> [Frame -> Data]]
    BY FullParts DEF IInv, CacheTypeOK
  <2>3. PICK m, t, v : Doing(k, m, t, v) /\ m = lceCmd[k] /\ CmdFrame(k) = <<t, v>>
    BY <2>1, ExecutesDoing, FullParts DEF Executes, Holds
  <2>4. t \in Set /\ v \in Way /\ <<t, v>> \in Frame
    BY <2>3 DEF Doing, Frame
  <2>5. CASE l = k /\ <<t, v>> = <<s, w>>
    <3>1. line'[k][<<s, w>>] = lceCmd[k].data
      BY <2>1, <2>2, <2>3, <2>4, <2>5
    <3>2. m.type = "data" /\ Ready(m)
      BY <2>1, <2>3 DEF Executes, Holds, Ready, Doing
    <3>3. m.data = latest[m.addr]
      BY <3>2, FullParts DEF DataLatest
    <3>4. t = s /\ v = w
      BY <2>5
    <3>5. QED
      BY <1>2, <2>3, <2>5, <3>1, <3>2, <3>3, <3>4
  <2>6. CASE ~(l = k /\ <<t, v>> = <<s, w>>)
    <3>1. line'[l][<<s, w>>] = line[l][<<s, w>>]
      BY <2>1, <2>2, <2>3, <2>4, <2>6 DEF Frame
    <3>2. QED
      BY <3>1
  <2>7. QED
    BY <2>5, <2>6
<1>3. QED
  BY <1>1, <1>2 DEF PlainStep

(* A fill ends when its command is done.                                   *)
LEMMA FillEnds ==
  ASSUME Sound, NEW k \in LCE, LceStep(k), NEW l \in LCE, NEW f, Filling(l, f), ~Filling(l, f)'
  PROVE  l = k /\ LceData(k) /\ CmdFrame(k) = f
<1>1. lceState[l] = "ready" /\ Holds(l, {"data"}) /\ CmdFrame(l) = f
  BY DEF Filling
<1>2. lceState'[l] # lceState[l] \/ lceCmd'[l] # lceCmd[l]
  BY DEF Filling, Holds, CmdFrame
<1>3. l = k
  BY <1>2, LceOthers, SoundParts
<1>4. lceState' # lceState \/ lceCmd' # lceCmd
  BY <1>2
<1>5. ~LceStWakeup(k) /\ ~LceStWb(k) /\ ~LceStTr(k) /\ ~LceInv(k) /\ ~LceUcData(k) /\ ~LceUcStDone(k)
      /\ ~LceSync(k) /\ ~LceHead(k)
  BY <1>1, <1>3 DEF LceStWakeup, LceStWb, LceStTr, LceInv, LceUcData, LceUcStDone, LceSync, LceHead,
    Executes, Holds
<1>6. ~LceReset(k) /\ ~LceClear(k) /\ ~LceCohAck(k) /\ ~LceTr(k) /\ ~LceWbStatRd(k) /\ ~LceWb(k)
      /\ ~LceWbDirtyRd(k) /\ ~LceWbDirtySend(k)
  BY <1>1, <1>3 DEF LceReset, LceClear, LceCohAck, LceTr, LceWbStatRd, LceWb, LceWbDirtyRd, LceWbDirtySend
<1>7. LceData(k)
  BY <1>4, <1>5, <1>6, LceStateBy, LceCmdBy
<1>8. QED
  BY <1>1, <1>3, <1>7

(* CopyLatest, other steps of a cache.                                     *)
LEMMA CopyLatestPlain ==
  ASSUME Full, NEW k \in LCE, PlainStep(k)
  PROVE  CopyLatest'
<1> SUFFICES ASSUME NEW s \in Set, NEW l \in LCE, NEW w \in Way, NEW b,
                    Past(l)', Tagged(l, s, w, b)', ~Filling(l, <<s, w>>)'
             PROVE  line'[l][<<s, w>>] = latest[b]
  BY DEF CopyLatest, PlainStep
<1>1. LceStep(k)
  BY DEF PlainStep
<1>2. tag'[l][<<s, w>>].blk = b /\ tag'[l][<<s, w>>].st # "I"
  BY DEF Tagged
<1>3. CASE l = k /\ LceData(k) /\ CmdFrame(k) = <<s, w>>
  <2>1. Executes(k, {"data"}) /\ SetTag(k) /\ WriteData(k)
    BY <1>3 DEF LceData
  <2>2. line \in [LCE -> [Frame -> Data]] /\ tag \in [LCE -> [Frame -> Line]]
    BY FullParts DEF IInv, CacheTypeOK
  <2>3. <<s, w>> \in Frame
    BY DEF Frame
  <2>4. line'[k][<<s, w>>] = lceCmd[k].data
    BY <1>3, <2>1, <2>2, <2>3 DEF WriteData
  <2>5. tag'[k][<<s, w>>].blk = lceCmd[k].addr
    BY <1>3, <2>1, <2>2, <2>3 DEF SetTag
  <2>6. Ready(lceCmd[k]) /\ lceCmd[k].type = "data"
    BY <2>1 DEF Executes, Holds, Ready
  <2>7. lceCmd[k].data = latest[lceCmd[k].addr]
    BY <2>6, FullParts DEF DataLatest
  <2>8. QED
    BY <1>2, <1>3, <2>4, <2>5, <2>7
<1>4. CASE ~(l = k /\ LceData(k) /\ CmdFrame(k) = <<s, w>>)
  <2>1. ~Filling(l, <<s, w>>)
    BY <1>1, <1>4, FillEnds, FullParts
  <2>2. line'[l][<<s, w>>] = line[l][<<s, w>>]
    <3> SUFFICES ASSUME line'[l][<<s, w>>] # line[l][<<s, w>>]
                 PROVE  FALSE
      OBVIOUS
    <3>1. /\ l = k /\ Doing(k, lceCmd[k], s, w) /\ CmdFrame(k) = <<s, w>>
          /\ lceCmd[k].type = "data"
      BY LineChange
    <3>2. Filling(l, <<s, w>>)
      BY <3>1 DEF Doing, Filling, Holds
    <3>3. QED
      BY <2>1, <3>2
  <2>3. Past(l)
    <3> SUFFICES ASSUME ~Past(l)
                 PROVE  FALSE
      OBVIOUS
    <3>1. l = k
      BY <1>1, LceOthers, FullParts, SoundParts DEF Past
    <3>2. TagCleared(k)
      BY <1>1, <3>1, PastStep, FullParts, SoundParts
    <3>3. QED
      BY <1>2, <3>1, <3>2 DEF TagCleared
  <2>4. Tagged(l, s, w, b)
    <3>1. CASE tag'[l][<<s, w>>].st = tag[l][<<s, w>>].st /\ tag'[l][<<s, w>>].blk = tag[l][<<s, w>>].blk
      BY <1>2, <3>1 DEF Tagged
    <3>2. CASE tag[l][<<s, w>>].st # "I" /\ tag'[l][<<s, w>>].blk = tag[l][<<s, w>>].blk
      BY <1>2, <3>2 DEF Tagged
    <3>3. CASE l = k /\ Brought(k, s, w)
      <4>1. PICK m : Doing(k, m, s, w) /\ m.type \in Fresher /\ tag'[k][<<s, w>>].blk = m.addr
        BY <3>3 DEF Brought
      <4>2. lceState[k] = "ready" /\ m = lceCmd[k] /\ m # None /\ m.dst = k /\ CmdFrame(k) = <<s, w>>
        BY <4>1 DEF Doing, CmdFrame, FrameOf
      <4>3. m.type # "data"
        BY <2>1, <3>3, <4>2 DEF Filling, Holds
      <4>4. Ready(m) /\ m.type = "st_wakeup"
        BY <4>1, <4>2, <4>3 DEF Ready, Fresher
      <4>5. tag[m.dst][FrameOf(m.addr, m.way)].st = "S"
        BY <4>4, FullParts, RightsParts DEF WakeCmd
      <4>6. tag[m.dst][FrameOf(m.addr, m.way)].blk = m.addr
        BY <4>4, ReadyIn, FullParts DEF Grants
      <4>7. FrameOf(m.addr, m.way) = <<s, w>>
        BY <4>2 DEF CmdFrame
      <4>8. QED
        BY <1>2, <3>3, <4>1, <4>2, <4>5, <4>6, <4>7 DEF Tagged
    <3>4. QED
      BY <1>1, <1>2, <3>1, <3>2, <3>3, TagNew, FullParts
  <2>5. QED
    BY <2>1, <2>2, <2>3, <2>4, FullParts DEF CopyLatest
<1>5. QED
  BY <1>3, <1>4

(* A line that is written is that of the block its cache waits for.        *)
LEMMA Pours ==
  ASSUME Full, NEW k \in LCE, PlainStep(k), NEW l \in LCE, NEW s \in Set, NEW w \in Way,
         line'[l][<<s, w>>] # line[l][<<s, w>>]
  PROVE  /\ l = k /\ lceState[k] = "ready" /\ lceCmd[k] # None /\ lceCmd[k].type = "data"
         /\ lceCmd[k].addr \in Block /\ s = SetOf[lceCmd[k].addr]
         /\ Tok("lce", k, 0, k, lceCmd[k].addr, "cached")
<1>1. l = k /\ Doing(k, lceCmd[k], s, w) /\ lceCmd[k].type = "data"
  BY LineChange
<1>2. Tok("lce", k, 0, k, lceCmd[k].addr, "cached")
  BY <1>1, DoingOpen, FullParts, SoundParts
<1>3. QED
  BY <1>1, <1>2 DEF Doing

(* VictimLine, other steps of a cache.                                     *)
LEMMA VictimLinePlain ==
  ASSUME Full, NEW k \in LCE, PlainStep(k)
  PROVE  VictimLine'
<1>1. LceStep(k) /\ latest' = latest
  BY DEF PlainStep
<1>2. UNCHANGED <<cceState, mshr>>
  BY <1>1, LceLeaves
<1> SUFFICES ASSUME NEW c \in CCE, Evicting(c)
             PROVE  line'[mshr[c].lce][<<ReqSet(c), mshr[c].lru>>] = latest[mshr[c].lruBlk]
  BY <1>1, <1>2 DEF VictimLine, ReqSet, Evicting
<1>3. AtFsm(c) /\ mshr[c].lce \in LCE /\ mshr[c].lru \in Way /\ ReqSet(c) \in Set
  BY EvictingFsm, FullParts
<1>4. line'[mshr[c].lce][<<ReqSet(c), mshr[c].lru>>] = line[mshr[c].lce][<<ReqSet(c), mshr[c].lru>>]
  <2> SUFFICES ASSUME line'[mshr[c].lce][<<ReqSet(c), mshr[c].lru>>]
                        # line[mshr[c].lce][<<ReqSet(c), mshr[c].lru>>]
               PROVE  FALSE
    OBVIOUS
  <2>1. /\ lceCmd[k].addr \in Block /\ ReqSet(c) = SetOf[lceCmd[k].addr]
        /\ Tok("lce", k, 0, k, lceCmd[k].addr, "cached")
    BY <1>3, Pours
  <2>2. QED
    BY <1>3, <2>1, FsmNot, FullParts, SoundParts
<1>5. QED
  BY <1>4, FullParts DEF VictimLine

(* GiveLine, other steps of a cache.                                       *)
LEMMA GiveLinePlain ==
  ASSUME Full, NEW k \in LCE, PlainStep(k)
  PROVE  GiveLine'
<1>1. LceStep(k) /\ latest' = latest
  BY DEF PlainStep
<1> SUFFICES ASSUME NEW m, Present(m)', m.type \in Giving
             PROVE  line'[m.dst][FrameOf(m.addr, m.way)] = latest[m.addr]
  BY <1>1 DEF GiveLine
<1>2. Present(m)
  BY <1>1, PresentFrom, FullParts DEF TrSent, Giving
<1>3. m.dst \in LCE /\ m.addr \in Block /\ m.way \in Way
  BY <1>2, PresentIn, CommandFields, FullParts DEF Giving
<1>4. SetOf[m.addr] \in Set /\ FrameOf(m.addr, m.way) = <<SetOf[m.addr], m.way>>
  BY <1>3, ConstantsAssumption DEF FrameOf
<1>5. line'[m.dst][<<SetOf[m.addr], m.way>>] = line[m.dst][<<SetOf[m.addr], m.way>>]
  <2> SUFFICES ASSUME line'[m.dst][<<SetOf[m.addr], m.way>>] # line[m.dst][<<SetOf[m.addr], m.way>>]
               PROVE  FALSE
    OBVIOUS
  <2>1. /\ m.dst = k /\ lceState[k] = "ready" /\ lceCmd[k] # None /\ lceCmd[k].type = "data"
        /\ lceCmd[k].addr \in Block /\ SetOf[m.addr] = SetOf[lceCmd[k].addr]
        /\ Tok("lce", k, 0, k, lceCmd[k].addr, "cached")
    BY <1>3, <1>4, Pours
  <2>2. CASE m.type = "st_wb"
    <3>1. PICK c \in CCE : AtFsm(c) /\ SetOf[m.addr] = ReqSet(c)
      BY <1>2, <2>2, PresentVictim, FullParts
    <3>2. Base
      BY FullParts
    <3>3. PICK b \in Block : b = lceCmd[k].addr /\ Tok("lce", k, 0, k, b, "cached")
      BY <2>1
    <3>4. ReqSet(c) # SetOf[b]
      BY <3>1, <3>2, <3>3, FsmNot
    <3>5. QED
      BY <2>1, <3>1, <3>3, <3>4
  <2>3. CASE HasTok(m) /\ m.type # "data"
    <3>1. m = lceCmd[k]
      BY <2>1, <2>3, TokAlone, FullParts
    <3>2. QED
      BY <2>1, <2>3, <3>1
  <2>4. CASE \E j \in LCE : m = lceCmd[j] /\ m # None /\ m.dst = j /\ lceState[j] \in Passed
    BY <2>1, <2>4 DEF Passed
  <2>5. QED
    BY <1>2, <2>2, <2>3, <2>4, PresentTr, FullParts DEF Giving, Transfer
<1>6. QED
  BY <1>2, <1>4, <1>5, FullParts DEF GiveLine

(* The buffer of a cache is loaded from the frame of the block it gives.   *)
BufLoaded(k) ==
  /\ lceCmd'[k] = lceCmd[k] /\ Holds(k, Giving)
  /\ dataBuf'[k] = line[k][CmdFrame(k)]
(* What is buffered was so before or is loaded from the line of the        *)
(* command.                                                                *)
LEMMA BufFrom ==
  ASSUME Full, NEW k \in LCE, LceStep(k), NEW l \in LCE, lceState'[l] \in {"tr", "wb_dirty_send"}
  PROVE  \/ /\ lceState[l] \in {"tr", "wb_dirty_send"} /\ dataBuf'[l] = dataBuf[l]
            /\ lceCmd'[l] = lceCmd[l]
         \/ l = k /\ BufLoaded(k)
<1>1. dataBuf' = dataBuf \/ LceStTr(k) \/ LceWbDirtyRd(k)
  <2>1. CASE \/ LceReset(k) \/ LceClear(k) \/ LceHead(k) \/ LceSync(k) \/ LceInv(k)
             \/ LceData(k) \/ LceStWakeup(k) \/ LceStWb(k)
    BY <2>1 DEF LceReset, LceClear, LceHead, LceSync, LceInv, LceData, LceStWakeup, LceStWb
  <2>2. CASE \/ LceUcStDone(k) \/ LceUcData(k) \/ LceCohAck(k)
             \/ LceTr(k) \/ LceWbStatRd(k) \/ LceWb(k)
    BY <2>2 DEF LceUcStDone, LceUcData, LceCohAck, LceTr, LceWbStatRd, LceWb
  <2>3. CASE \/ LceWbDirtySend(k) \/ LceTagOnly(k) \/ LceDataOnly(k) \/ LceStatOnly(k)
             \/ LceSendReq(k)
             \/ (\E b \in Block, op \in CoreOps, w \in Way : CoreMiss(k, b, op, w))
             \/ (\E a \in IoBlock : CoreUcLoad(k, a))
    BY <2>3 DEF LceWbDirtySend, LceTagOnly, LceDataOnly, LceStatOnly, LceSendReq,
      CoreMiss, CoreUcLoad, lceVars
  <2>4. CASE \/ LockExpire(k) \/ CoreReplay(k) \/ (\E a \in IoBlock, d \in Data : CoreUcStore(k, a, d))
             \/ (\E b \in Block, w \in Way, d \in Data : CoreStore(k, b, w, d))
    BY <2>4 DEF CoreUcStore, LockExpire, CoreReplay, CoreStore, lceVars
  <2>5. QED
    BY <2>1, <2>2, <2>3, <2>4 DEF LceStep, LceCmdStep, LcePartialStep, CoreStep
<1>2. /\ lceState \in [LCE -> LceCmdStates] /\ dataBuf \in [LCE -> Data]
      /\ CmdWF
  BY FullParts DEF IInv, LceOK, LceTypeOK
<1>3. CASE LceStTr(k) \/ LceWbDirtyRd(k)
  <2>1. lceCmd' = lceCmd /\ dataBuf' = [dataBuf EXCEPT ![k] = line[k][CmdFrame(k)]]
        /\ Holds(k, Giving)
    BY <1>2, <1>3 DEF LceStTr, LceWbDirtyRd, ReadData, Executes, Holds, Giving, CmdWF
  <2>2. CASE l = k
    BY <1>2, <2>1, <2>2 DEF BufLoaded
  <2>3. CASE l # k
    BY <1>2, <2>1, <2>3, LceOthers, FullParts, SoundParts
  <2>4. QED
    BY <2>2, <2>3
<1>4. CASE ~LceStTr(k) /\ ~LceWbDirtyRd(k)
  <2>1. dataBuf'[l] = dataBuf[l]
    BY <1>1, <1>4
  <2>2. CASE l # k
    BY <2>1, <2>2, LceOthers, FullParts, SoundParts
  <2>3. CASE l = k
    <3>1. lceState'[k] \in Begun
      BY <2>3 DEF Begun, Passed
    <3>2. lceCmd'[k] = lceCmd[k]
      BY <3>1, BegunFrom, FullParts
    <3>3. lceState[k] \in {"tr", "wb_dirty_send"}
      BY <1>2, <1>4, <2>3, LceStateBy DEF LceReset, LceClear, LceData, LceStWakeup, LceStWb,
        LceCohAck, LceTr, LceWbStatRd, LceWb, LceWbDirtySend, LceGoto
    <3>4. QED
      BY <2>1, <2>3, <3>2, <3>3
  <2>4. QED
    BY <2>2, <2>3
<1>5. QED
  BY <1>3, <1>4

(* BufLatest, other steps of a cache.                                      *)
LEMMA BufLatestPlain ==
  ASSUME Full, NEW k \in LCE, PlainStep(k)
  PROVE  BufLatest'
<1>1. LceStep(k) /\ latest' = latest
  BY DEF PlainStep
<1> SUFFICES ASSUME NEW l \in LCE, lceState'[l] \in {"tr", "wb_dirty_send"}
             PROVE  dataBuf'[l] = latest[lceCmd'[l].addr]
  BY <1>1 DEF BufLatest
<1>2. CASE /\ lceState[l] \in {"tr", "wb_dirty_send"} /\ dataBuf'[l] = dataBuf[l]
           /\ lceCmd'[l] = lceCmd[l]
  <2>1. dataBuf[l] = latest[lceCmd[l].addr]
    BY <1>2, FullParts DEF BufLatest
  <2>2. QED
    BY <1>2, <2>1
<1>3. CASE l = k /\ BufLoaded(k)
  <2>1. PICK m : m = lceCmd[k]
    OBVIOUS
  <2>2. Present(m) /\ m.type \in Giving /\ m # None /\ lceCmd'[k] = m
        /\ dataBuf'[k] = line[k][CmdFrame(k)]
    BY <1>3, <2>1 DEF BufLoaded, Holds, Present
  <2>3. m.dst = k /\ CmdFrame(k) = FrameOf(m.addr, m.way)
    BY <2>1, <2>2, Lces, FullParts DEF CmdFrame
  <2>4. line[m.dst][FrameOf(m.addr, m.way)] = latest[m.addr]
    BY <2>2, FullParts DEF GiveLine
  <2>5. QED
    BY <1>3, <2>2, <2>3, <2>4
<1>4. QED
  BY <1>1, <1>2, <1>3, BufFrom

(* What is in flight, other steps of a cache.                              *)
LEMMA FlightPlain ==
  ASSUME Full, NEW k \in LCE, PlainStep(k)
  PROVE  WbLatest' /\ DataLatest' /\ MemLatest' /\ SpecLatest' /\ ReadWaits'
<1>1. LceStep(k) /\ latest' = latest
  BY DEF PlainStep
<1>2. UNCHANGED <<cceState, mshr, dir, specBits, memResp>>
  BY <1>1, LceLeaves
<1>3. WbLatest'
  <2> SUFFICES ASSUME NEW m \in respNet', m.type = "wb"
               PROVE  m.data = latest[m.addr]
    BY <1>1 DEF WbLatest
  <2>1. CASE m \in respNet
    BY <2>1, FullParts DEF WbLatest
  <2>2. CASE m \notin respNet
    <3>1. respNet' # respNet
      BY <2>2
    <3>2. ~LceSync(k) /\ ~LceInv(k) /\ ~LceCohAck(k) /\ ~LceWb(k)
      BY <2>2 DEF LceSync, LceInv, LceCohAck, LceWb, Respond, CmdResp
    <3>3. LceWbDirtySend(k)
      BY <1>1, <3>1, <3>2, LceRespBy
    <3>4. m.data = dataBuf[k] /\ m.addr = lceCmd[k].addr /\ lceState[k] = "wb_dirty_send"
      BY <2>2, <3>3 DEF LceWbDirtySend, Respond
    <3>5. dataBuf[k] = latest[lceCmd[k].addr]
      BY <3>4, FullParts DEF BufLatest
    <3>6. QED
      BY <3>4, <3>5
  <2>3. QED
    BY <2>1, <2>2
<1>4. DataLatest'
  <2> SUFFICES ASSUME NEW m, Ready(m)', m.type = "data"
               PROVE  m.data = latest[m.addr]
    BY <1>1 DEF DataLatest
  <2>1. CASE Ready(m)
    BY <2>1, FullParts DEF DataLatest
  <2>2. CASE TrSent(k, m)
    <3>1. m.data = dataBuf[k] /\ m.addr = lceCmd[k].addr /\ lceState[k] = "tr"
      BY <2>2 DEF TrSent, LceTr
    <3>2. dataBuf[k] = latest[lceCmd[k].addr]
      BY <3>1, FullParts DEF BufLatest
    <3>3. QED
      BY <3>1, <3>2
  <2>3. QED
    BY <1>1, <2>1, <2>2, ReadyFrom, FullParts
<1>5. MemLatest'
  BY <1>1, <1>2, FullParts DEF MemLatest, MemTok, Released
<1>6. SpecLatest'
  BY <1>1, <1>2, FullParts DEF SpecLatest, Serving, ReadOf, ReqSet, OtherCopy, Copy
<1>7. ReadWaits'
  BY <1>2, FullParts DEF ReadWaits, Serving, ReadOf, ReqSet
<1>8. QED
  BY <1>3, <1>4, <1>5, <1>6, <1>7

(* MissKnown, step of a cache.                                             *)
LEMMA MissKnownPlain ==
  ASSUME Full, NEW k \in LCE, LceStep(k)
  PROVE  MissKnown'
<1> SUFFICES ASSUME NEW l \in LCE, miss'[l].phase # "idle"
             PROVE  \/ miss'[l].op = "uc_rd"
                    \/ miss'[l].op \in CoreOps \cup {"rd"} /\ miss'[l].addr \in Block
  BY DEF MissKnown
<1>1. miss \in [LCE -> Miss]
  BY FullParts DEF IInv, CoreOK, CoreTypeOK
<1>2. CASE miss'[l] = miss[l]
  BY <1>2, FullParts DEF MissKnown
<1>3. CASE miss'[l] # miss[l]
  <2>1. l = k /\ miss' # miss
    BY <1>3, LceOthers, FullParts, SoundParts
  <2>2. CASE LceUcData(k) \/ LceCohAck(k)
    <3>1. miss'[k] = NoMiss \/ miss'[k] = [miss[k] EXCEPT !.phase = "replay"]
      BY <1>1, <2>2 DEF LceUcData, LceCohAck, Complete
    <3>2. miss[k].phase # "idle"
      <4>1. PICK n : n = lceCmd[k]
        OBVIOUS
      <4>2. Waits(k, n.addr, Kind(n.type = "uc_data"))
        BY <2>2, <4>1, MissEnds, FullParts, SoundParts DEF Base
      <4>3. QED
        BY <4>2 DEF Waits
    <3>3. miss'[k].op = miss[k].op /\ miss'[k].addr = miss[k].addr
      BY <1>1, <2>1, <3>1 DEF NoMiss, Miss
    <3>4. QED
      BY <2>1, <3>2, <3>3, FullParts DEF MissKnown
  <2>3. CASE LceSendReq(k)
    <3>1. miss'[k] = [miss[k] EXCEPT !.phase = "sent"] /\ miss[k].phase = "send"
      BY <1>1, <2>3 DEF LceSendReq
    <3>2. miss'[k].op = miss[k].op /\ miss'[k].addr = miss[k].addr
      BY <1>1, <3>1 DEF Miss
    <3>3. QED
      BY <2>1, <3>1, <3>2, FullParts DEF MissKnown
  <2>4. CASE CoreReplay(k) \/ LockExpire(k)
    BY <1>1, <2>1, <2>4 DEF CoreReplay, LockExpire, NoMiss
  <2>5. CASE \E b \in Block, op \in CoreOps, w \in Way : CoreMiss(k, b, op, w)
    BY <1>1, <2>1, <2>5 DEF CoreMiss, MissOp
  <2>6. CASE \E a \in IoBlock : CoreUcLoad(k, a)
    BY <1>1, <2>1, <2>6 DEF CoreUcLoad, NoMiss
  <2>7. QED
    BY <2>1, <2>2, <2>3, <2>4, <2>5, <2>6, MissBy
<1>4. QED
  BY <1>2, <1>3

----------------------------------------------------------------------------
(* What memory is owed, other steps of a cache.                            *)

(* A cache that is asked for a block has been cleared.                     *)
LEMMA AskedPast ==
  ASSUME Sound, NEW l \in LCE, Holds(l, {"st_wb", "st_tr_wb"})
  PROVE  Past(l)
<1> DEFINE m == lceCmd[l]
<1>1. Present(m) /\ m.type \in {"st_wb", "st_tr_wb"}
  BY DEF Holds, Present
<1>2. PICK c \in CCE : cceState[c] \in {"replacement_wb_resp", "transfer_wb_resp"}
  BY <1>1, PresentWb
<1>3. InService(c)
  BY <1>2 DEF InService
<1>4. QED
  BY <1>3, SoundParts DEF Base, SyncInv

(* A dirty bit is cleared at reset, or by a cache that gives the block     *)
(* away for good or has read it for its write-back.                        *)
Cleans(k, f) ==
  /\ CmdFrame(k) = f
  /\ \/ LceStTr(k) /\ Executes(k, {"st_tr"}) /\ lceCmd[k].st = "I"
     \/ LceStatOnly(k)
     \/ LceWbDirtyRd(k)
(* Which steps clear a dirty bit.                                          *)
LEMMA DirtyStays ==
  ASSUME Full, NEW k \in LCE, PlainStep(k), NEW l \in LCE, NEW f \in Frame, dirty[l][f]
  PROVE  dirty'[l][f] \/ (l = k /\ (LceClear(k) \/ Cleans(k, f)))
<1>1. dirty \in [LCE -> [Frame -> BOOLEAN]]
  BY FullParts DEF IInv, CacheTypeOK
<1>2. CASE dirty' = dirty
  BY <1>2
<1>3. CASE LceClear(k)
  BY <1>1, <1>3 DEF LceClear
<1>4. CASE dirty' # dirty /\ ~LceClear(k)
  <2>1. LceStTr(k) \/ LceWbDirtyRd(k) \/ LceStatOnly(k)
    BY <1>4 DEF PlainStep
  <2>2. ClearDirty(k)
    BY <1>4, <2>1 DEF LceStTr, LceWbDirtyRd, LceStatOnly
  <2>3. LceStTr(k) => Executes(k, {"st_tr"}) /\ lceCmd[k].st = "I"
    BY <1>4 DEF LceStTr, Executes, Holds
  <2>4. CASE l = k /\ CmdFrame(k) = f
    BY <2>1, <2>3, <2>4 DEF Cleans
  <2>5. CASE ~(l = k /\ CmdFrame(k) = f)
    BY <1>1, <2>2, <2>5 DEF ClearDirty
  <2>6. QED
    BY <2>4, <2>5
<1>5. QED
  BY <1>2, <1>3, <1>4

(* A write-back that is on its way stays on its way.                       *)
LEMMA FlyingPlain ==
  ASSUME NEW k \in LCE, LceStep(k), NEW b, WbFlying(b)
  PROVE  WbFlying(b)'
<1>1. PICK m \in respNet : m.type = "wb" /\ m.addr = b
  BY DEF WbFlying
<1>2. m \in respNet'
  BY LceRespBy DEF LceSync, LceInv, LceCohAck, LceWb, LceWbDirtySend, Respond
<1>3. QED
  BY <1>1, <1>2 DEF WbFlying

(* Cache l owes the write-back of b.                                       *)
WbHeld(l, b) ==
  /\ Holds(l, {"st_wb", "st_tr_wb"}) /\ lceCmd[l].addr = b
  /\ (lceState[l] \in {"wb_dirty_rd", "wb_dirty_send"} \/ dirty[l][CmdFrame(l)])

(* A cache that owes a write-back keeps its command until it has sent it.  *)
LEMMA HeldWbPlain ==
  ASSUME Full, NEW k \in LCE, PlainStep(k), Holds(k, {"st_wb", "st_tr_wb"}),
         lceState[k] \in {"wb_dirty_rd", "wb_dirty_send"} \/ dirty[k][CmdFrame(k)]
  PROVE  LceWbDirtySend(k) \/ lceCmd'[k] = lceCmd[k]
<1>1. LceStep(k) /\ CmdWF
  BY FullParts DEF PlainStep, IInv, LceOK
<1>2. ~LceHead(k) /\ ~LceSync(k) /\ ~LceInv(k) /\ ~LceUcStDone(k) /\ ~LceUcData(k)
  BY DEF LceHead, LceSync, LceInv, LceUcStDone, LceUcData, Executes, Holds
<1>3. ~LceCohAck(k)
  BY <1>1 DEF LceCohAck, CmdWF, Holds
<1>4. LceTr(k) => lceCmd'[k] = lceCmd[k]
  BY <1>1 DEF LceTr, CmdWF, Holds
<1>5. LceWb(k) => lceCmd'[k] = lceCmd[k]
  BY DEF LceWb
<1>6. QED
  BY <1>1, <1>2, <1>3, <1>4, <1>5, LceCmdBy

(* What it owes it goes on owing, or it is in flight.                      *)
LEMMA WbHeldPlain ==
  ASSUME Full, NEW k \in LCE, PlainStep(k), NEW l \in LCE, NEW b \in Block, WbHeld(l, b)
  PROVE  WbHeld(l, b)' \/ WbFlying(b)'
<1>1. LceStep(k) /\ CmdWF /\ lceState \in [LCE -> LceCmdStates]
  BY FullParts DEF PlainStep, IInv, LceOK, LceTypeOK
<1>2. Past(l)
  BY AskedPast, FullParts DEF WbHeld
<1>3. CmdFrame(l) \in Frame
  <2>1. lceCmd[l] \in Command /\ lceCmd[l].type \in {"st_wb", "st_tr_wb"}
    BY Lces, FullParts DEF WbHeld, Holds
  <2>2. lceCmd[l].addr \in Block /\ lceCmd[l].way \in Way
    BY <2>1, CommandFields
  <2>3. QED
    BY <2>2, ConstantsAssumption DEF CmdFrame, FrameOf, Frame
<1>4. CASE l # k
  <2>1. lceState'[l] = lceState[l] /\ lceCmd'[l] = lceCmd[l]
    BY <1>1, <1>4, LceOthers, FullParts, SoundParts
  <2>2. dirty[l][CmdFrame(l)] => dirty'[l][CmdFrame(l)]
    BY <1>3, <1>4, DirtyStays
  <2>3. CmdFrame(l)' = CmdFrame(l)
    BY <2>1 DEF CmdFrame
  <2>4. WbHeld(l, b)'
    BY <2>1, <2>2, <2>3 DEF WbHeld, Holds
  <2>5. QED
    BY <2>4
<1>5. CASE l = k /\ LceWbDirtySend(k)
  <2>1. \E m \in respNet' : m.type = "wb" /\ m.addr = lceCmd[k].addr
    BY <1>5 DEF LceWbDirtySend, Respond
  <2>2. QED
    BY <1>5, <2>1 DEF WbFlying, WbHeld
<1>6. CASE l = k /\ ~LceWbDirtySend(k)
  <2>1. lceCmd'[k] = lceCmd[k] /\ CmdFrame(k)' = CmdFrame(k)
    BY <1>6, HeldWbPlain DEF WbHeld, CmdFrame
  <2>2. CASE LceWbDirtyRd(k)
    <3>1. lceState'[k] = "wb_dirty_send"
      BY <1>1, <2>2 DEF LceWbDirtyRd, LceGoto
    <3>2. QED
      BY <1>6, <2>1, <3>1 DEF WbHeld, Holds
  <2>3. CASE ~LceWbDirtyRd(k) /\ lceState[k] \in {"wb_dirty_rd", "wb_dirty_send"}
    <3>1. lceState'[k] = lceState[k]
      BY <1>1, <1>6, <2>3, LceStateBy DEF LceReset, LceClear, LceData, LceStWakeup, LceStWb,
        LceStTr, LceCohAck, LceTr, LceWbStatRd, LceWb, Executes
    <3>2. QED
      BY <1>6, <2>1, <2>3, <3>1 DEF WbHeld, Holds
  <2>4. CASE ~LceWbDirtyRd(k) /\ lceState[k] \notin {"wb_dirty_rd", "wb_dirty_send"}
    <3>1. dirty[k][CmdFrame(k)]
      BY <1>6, <2>4 DEF WbHeld
    <3>2. ~LceClear(k)
      BY <1>2, <1>6 DEF LceClear, Past
    <3>3. ~Cleans(k, CmdFrame(k))
      BY <1>6, <2>4 DEF WbHeld, Cleans, Holds, Executes, LceStatOnly
    <3>4. dirty'[k][CmdFrame(k)]
      BY <1>3, <1>6, <3>1, <3>2, <3>3, DirtyStays
    <3>5. QED
      BY <1>6, <2>1, <3>4 DEF WbHeld, Holds
  <2>5. QED
    BY <2>2, <2>3, <2>4
<1>7. QED
  BY <1>4, <1>5, <1>6

(* The same, whichever cache owes it.                                      *)
LEMMA OwedPlain ==
  ASSUME Full, NEW k \in LCE, PlainStep(k), NEW b \in Block, WbOwed(b)
  PROVE  WbOwed(b)' \/ WbFlying(b)'
<1>1. PICK l \in LCE : WbHeld(l, b)
  BY DEF WbOwed, WbHeld
<1>2. WbHeld(l, b)' \/ WbFlying(b)'
  BY <1>1, WbHeldPlain
<1>3. WbHeld(l, b)' => WbOwed(b)'
  BY DEF WbHeld, WbOwed
<1>4. QED
  BY <1>2, <1>3

(* A store that missed has the right to send its block on the way to it,   *)
(* or is about to be tried again.                                          *)
MovingTo(l, b) ==
  /\ miss[l].op = "wr" /\ miss[l].addr = b
  /\ \/ miss[l].phase = "replay"
     \/ \E a \in {"cmd", "lce"} : \E x : Tok(a, x, 0, l, b, "cached")

(* A store to be replayed waits until it is.                               *)
LEMMA ReplayPlain ==
  ASSUME Full, NEW k \in LCE, PlainStep(k), NEW l \in LCE, miss[l].op = "wr", miss[l].phase = "replay"
  PROVE  miss'[l] = miss[l]
<1>1. LceStep(k) /\ ~LockExpire(k)
  BY FullParts DEF PlainStep, StoresFollow, LockExpire
<1>2. CASE l # k
  BY <1>1, <1>2, LceOthers, FullParts, SoundParts
<1>3. CASE l = k
  <2>1. ~CoreReplay(k) /\ ~LceSendReq(k)
    BY <1>3 DEF PlainStep, LceSendReq
  <2>2. \A b \in Block, op \in CoreOps, w \in Way : ~CoreMiss(k, b, op, w)
    BY <1>3 DEF CoreMiss, CacheReady
  <2>3. \A a \in IoBlock : ~CoreUcLoad(k, a)
    BY <1>3 DEF CoreUcLoad, CacheReady
  <2>4. ~LceUcData(k)
    BY <1>3 DEF LceUcData, Executes
  <2>5. ~LceCohAck(k)
    <3> SUFFICES ASSUME LceCohAck(k)
                 PROVE  FALSE
      OBVIOUS
    <3>1. PICK b \in Block : Tok("lce", k, 0, k, b, "cached")
      BY AckToken, FullParts, SoundParts DEF LceCohAck
    <3>2. miss[k].phase = "sent"
      BY <3>1, TokOpen, FullParts, SoundParts
    <3>3. QED
      BY <1>3, <3>2
  <2>6. QED
    BY <1>1, <1>3, <2>1, <2>2, <2>3, <2>4, <2>5, MissBy
<1>4. QED
  BY <1>2, <1>3

(* The right to send a block passes from the network to the cache at its   *)
(* other end, from one that gives it away to the network.                  *)
LEMMA CmdTokMoves ==
  ASSUME Full, NEW k \in LCE, LceStep(k), NEW x, NEW l \in LCE, NEW b \in Block,
         Tok("cmd", x, 0, l, b, "cached")
  PROVE  \E a \in {"cmd", "lce"} : \E y : Tok(a, y, 0, l, b, "cached")'
<1>1. x \in cmdNet /\ Carries(x, l, b, "cached")
  BY DEF Tok, CmdTok
<1>2. CASE x \in cmdNet'
  <2>1. Tok("cmd", x, 0, l, b, "cached")'
    BY <1>1, <1>2 DEF Tok, CmdTok, Carries
  <2>2. QED
    BY <2>1
<1>3. CASE x \notin cmdNet'
  <2>1. LceHead(k)
    BY <1>1, <1>3, LceNetBy DEF LceTr
  <2>2. lceCmd \in [LCE -> Command \cup {None}] /\ lceState[k] = "ready" /\ lceState' = lceState
    BY <2>1, FullParts DEF IInv, LceOK, LceTypeOK, LceHead
  <2>3. lceCmd'[k] = x
    BY <1>1, <1>3, <2>1, <2>2 DEF LceHead
  <2>4. x # None
    BY <1>1, FullParts, NoneAssumption DEF IInv, NetTypeOK
  <2>5. LceTok(k, l, b, "cached")'
    BY <1>1, <2>2, <2>3, <2>4 DEF LceTok, Carries, Passed
  <2>6. Tok("lce", k, 0, l, b, "cached")'
    BY <2>5 DEF Tok
  <2>7. QED
    BY <2>6
<1>4. QED
  BY <1>2, <1>3

(* A block at a cache stays there, is sent on, or is acknowledged.         *)
LEMMA LceTokMoves ==
  ASSUME Full, NEW k \in LCE, LceStep(k), NEW x, NEW l \in LCE, NEW b \in Block,
         ~(x = k /\ LceCohAck(k)), Tok("lce", x, 0, l, b, "cached")
  PROVE  \E a \in {"cmd", "lce"} : \E y : Tok(a, y, 0, l, b, "cached")'
<1>1. x \in LCE /\ LceTok(x, l, b, "cached")
  BY DEF Tok
<1>2. lceCmd[x] # None /\ lceState[x] \notin Passed /\ Carries(lceCmd[x], l, b, "cached")
  BY <1>1 DEF LceTok
<1>3. lceCmd[x].type \in Sources \ {"uc_data"}
  BY <1>2 DEF Carries, Kind
<1>4. CASE x = k /\ LceTr(k)
  <2>1. Holds(k, Transfer)
    BY <1>4, FullParts DEF LceTr, IInv, LceOK, CmdWF, Transfer
  <2>2. lceCmd[k].type \in Transfer
    BY <2>1 DEF Holds
  <2>3. PICK m \in cmdNet' : m.type = "data" /\ m.dst = lceCmd[k].target /\ m.addr = lceCmd[k].addr
    BY <1>4 DEF LceTr
  <2>4. CmdTok(m, l, b, "cached")'
    BY <1>2, <1>4, <2>2, <2>3 DEF CmdTok, Carries, Target, Sources, Kind, Transfer
  <2>5. Tok("cmd", m, 0, l, b, "cached")'
    BY <2>4 DEF Tok
  <2>6. QED
    BY <2>5
<1>5. CASE ~(x = k /\ LceTr(k))
  <2>1. lceCmd'[x] = lceCmd[x] /\ lceState'[x] \notin Passed
    <3>1. CASE x # k
      BY <1>1, <1>2, <3>1, LceOthers, FullParts, SoundParts
    <3>2. CASE x = k
      <4>1. lceState \in [LCE -> LceCmdStates] /\ CmdWF
        BY FullParts DEF IInv, LceOK, LceTypeOK
      <4>2. ~LceHead(k) /\ ~LceSync(k) /\ ~LceInv(k) /\ ~LceUcStDone(k) /\ ~LceUcData(k)
            /\ ~LceStWb(k)
        BY <1>2, <1>3, <3>2 DEF LceHead, LceSync, LceInv, LceUcStDone, LceUcData, LceStWb, Executes,
          Holds, Sources
      <4>3. ~LceWb(k) /\ ~LceWbDirtySend(k) /\ ~LceWbStatRd(k) /\ ~LceWbDirtyRd(k)
        BY <1>2, <3>2 DEF LceWb, LceWbDirtySend, LceWbStatRd, LceWbDirtyRd, Passed
      <4>4. lceCmd'[k] = lceCmd[k]
        BY <1>5, <3>2, <4>2, <4>3, LceCmdBy
      <4>5. lceState'[k] = lceState[k] \/ lceState'[k] \in {"clear", "ready", "coh_ack", "tr"}
        BY <1>5, <3>2, <4>1, <4>2, <4>3, LceStateBy DEF LceReset, LceClear, LceData, LceStWakeup,
          LceStTr, LceGoto
      <4>6. QED
        BY <1>2, <3>2, <4>4, <4>5 DEF Passed
    <3>3. QED
      BY <3>1, <3>2
  <2>2. LceTok(x, l, b, "cached")'
    BY <1>2, <2>1 DEF LceTok, Carries
  <2>3. Tok("lce", x, 0, l, b, "cached")'
    BY <1>1, <2>2 DEF Tok
  <2>4. QED
    BY <2>3
<1>6. QED
  BY <1>4, <1>5

(* A block that moves to a store moves on, or its store is about to be     *)
(* replayed.                                                               *)
LEMMA MovingToPlain ==
  ASSUME Full, NEW k \in LCE, PlainStep(k), NEW l \in LCE, NEW b \in Block, MovingTo(l, b)
  PROVE  MovingTo(l, b)'
<1>1. LceStep(k)
  BY DEF PlainStep
<1>2. miss[l].op = "wr" /\ miss[l].addr = b
  BY DEF MovingTo
<1>3. CASE miss[l].phase = "replay"
  BY <1>2, <1>3, ReplayPlain DEF MovingTo
<1>4. CASE miss[l].phase # "replay"
  <2>1. PICK a \in {"cmd", "lce"} : \E x : Tok(a, x, 0, l, b, "cached")
    BY <1>4 DEF MovingTo
  <2>2. PICK x : Tok(a, x, 0, l, b, "cached")
    BY <2>1
  <2>3. miss[l].phase = "sent"
    BY <2>2, TokOpen, FullParts, SoundParts
  <2>4. CASE k = l /\ LceCohAck(l)
    <3>1. miss \in [LCE -> Miss]
      BY FullParts DEF IInv, CoreOK, CoreTypeOK
    <3>2. miss'[l] = [miss[l] EXCEPT !.phase = "replay"]
      BY <1>2, <2>4, <3>1 DEF LceCohAck, Complete
    <3>3. miss'[l].op = "wr" /\ miss'[l].addr = b /\ miss'[l].phase = "replay"
      BY <1>2, <3>1, <3>2 DEF Miss
    <3>4. QED
      BY <3>3 DEF MovingTo
  <2>5. CASE ~(k = l /\ LceCohAck(l))
    <3>1. miss'[l] = miss[l]
      BY <1>1, <1>2, <2>3, <2>5, MissKept, FullParts, SoundParts
    <3>2. a = "cmd" \/ ~(x = k /\ LceCohAck(k))
      <4> SUFFICES ASSUME LceCohAck(k), a = "lce", x = k
                   PROVE  k = l
        BY <2>1, <2>5
      <4>1. PICK bb \in Block : Tok("lce", k, 0, k, bb, "cached")
        BY AckToken, FullParts, SoundParts DEF LceCohAck
      <4>2. PICK m : m = lceCmd[k] /\ m.type \in Fresher
        BY AckToken, FullParts, SoundParts DEF LceCohAck, Fresher
      <4>3. LceTok(k, l, b, "cached") /\ LceTok(k, k, bb, "cached")
        BY <2>2, <4>1 DEF Tok
      <4>4. QED
        BY <4>2, <4>3 DEF LceTok, Carries, Target, Fresher
    <3>3. \E aa \in {"cmd", "lce"} : \E y : Tok(aa, y, 0, l, b, "cached")'
      BY <1>1, <2>1, <2>2, <3>2, CmdTokMoves, LceTokMoves
    <3>4. QED
      BY <1>2, <3>1, <3>3 DEF MovingTo
  <2>6. QED
    BY <2>4, <2>5
<1>5. QED
  BY <1>3, <1>4

(* The same, whichever cache it moves to.                                  *)
LEMMA MovingPlain ==
  ASSUME Full, NEW k \in LCE, PlainStep(k), NEW b \in Block, Moving(b)
  PROVE  Moving(b)'
<1>1. PICK l \in LCE : MovingTo(l, b)
  BY DEF Moving, MovingTo
<1>2. MovingTo(l, b)'
  BY <1>1, MovingToPlain
<1>3. QED
  BY <1>2 DEF Moving, MovingTo

(* A cache owns a block and has written it.                                *)
Holder(l, s, w, b) ==
  /\ l \in LCE /\ b \in Block /\ s \in Set /\ s = SetOf[b] /\ w \in Way
  /\ Past(l) /\ Tagged(l, s, w, b) /\ tag[l][<<s, w>>].st \in Owned /\ dirty[l][<<s, w>>]

(* A dirty copy is one that somebody holds.                                *)
LEMMA HolderIs ==
  ASSUME NEW b \in Block
  PROVE  DirtyCopy(b) <=> \E l, s, w : Holder(l, s, w, b)
<1>1. SetOf[b] \in Set
  BY ConstantsAssumption
<1>2. ASSUME DirtyCopy(b)
      PROVE  \E l, s, w : Holder(l, s, w, b)
  <2>1. PICK l \in LCE, w \in Way : Hit(l, b, w, Owned) /\ dirty[l][FrameOf(b, w)]
    BY <1>2 DEF DirtyCopy
  <2>2. Holder(l, SetOf[b], w, b)
    BY <1>1, <2>1 DEF Holder, Hit, FrameOf, Past, Tagged, Owned
  <2>3. QED
    BY <2>2
<1>3. ASSUME NEW l, NEW s, NEW w, Holder(l, s, w, b)
      PROVE  DirtyCopy(b)
  <2>1. l \in LCE /\ w \in Way
    BY <1>3 DEF Holder
  <2>2. Hit(l, b, w, Owned) /\ dirty[l][FrameOf(b, w)]
    BY <1>3 DEF Holder, Hit, FrameOf, Past, Tagged
  <2>3. QED
    BY <2>1, <2>2 DEF DirtyCopy
<1>4. QED
  BY <1>2, <1>3

(* A cache does not reset again.                                           *)
LEMMA PastStays ==
  ASSUME Sound, NEW k \in LCE, LceStep(k), NEW l \in LCE, Past(l)
  PROVE  Past(l)'
<1>1. CASE l # k
  BY <1>1, LceOthers, SoundParts DEF Past
<1>2. CASE l = k
  <2>1. lceState \in [LCE -> LceCmdStates]
    BY SoundParts DEF Base, IInv, LceOK, LceTypeOK
  <2>2. QED
    BY <1>2, <2>1, LceStateBy DEF Past, LceReset, LceClear, LceData, LceStWakeup, LceStWb,
      LceStTr, LceCohAck, LceTr, LceWbStatRd, LceWb, LceWbDirtyRd, LceWbDirtySend, LceGoto
<1>3. QED
  BY <1>1, <1>2

(* A copy whose tag stays is dirty still, or gives its block away for good.*)
LEMMA MovesAway ==
  ASSUME Full, NEW k \in LCE, NEW m, m = lceCmd[k], m # None, m.type = "st_tr", m.addr \in Block,
         lceState[k] = "ready", lceState'[k] \in {"ready", "tr"}, lceCmd'[k] = m, miss' = miss
  PROVE  Moving(m.addr)'
<1>1. Present(m)
  BY DEF Present
<1>2. HasTok(m)
  BY <1>1, PresentTr, FullParts DEF Transfer
<1>3. Target(m) = m.target /\ m.target \in LCE
  BY <1>2 DEF Target, HasTok
<1>4. miss[m.target].op # "rd"
  BY <1>1, FullParts, RightsParts DEF MovesWrite
<1>5. miss[m.target].phase = "sent" /\ miss[m.target].addr = m.addr
  BY <1>2, <1>3, TokGrant, TokAlone, FullParts
<1>6. miss[m.target].op # "uc_rd"
  <2>1. PICK a, x : Tok(a, x, 0, m.target, m.addr, "cached") /\ a \in {"cmd", "lce"}
    BY <1>2, <1>3 DEF HasTok
  <2>2. QED
    BY <1>3, <2>1, TokOpen, FullParts, SoundParts
<1>7. miss[m.target].op = "wr"
  <2>1. miss[m.target].op \in CoreOps \cup {"rd"}
    BY <1>3, <1>5, <1>6, FullParts DEF MissKnown
  <2>2. QED
    BY <1>4, <2>1, ConstantsAssumption, FullParts DEF StoresFollow
<1>8. LceTok(k, m.target, m.addr, "cached")'
  BY <1>3, NoneAssumption DEF LceTok, Carries, Sources, Kind, Passed
<1>9. Tok("lce", k, 0, m.target, m.addr, "cached")'
  BY <1>8 DEF Tok
<1>10. QED
  BY <1>3, <1>5, <1>7, <1>9 DEF Moving

(* A copy that stays owned stays dirty, or its block moves.                *)
LEMMA CopyKept ==
  ASSUME Full, NEW k \in LCE, PlainStep(k), NEW s, NEW w, NEW b, Holder(k, s, w, b),
         tag'[k][<<s, w>>].st \in Owned, tag'[k][<<s, w>>].blk = b
  PROVE  Holder(k, s, w, b)' \/ Moving(b)'
<1>1. LceStep(k)
  BY DEF PlainStep
<1>2. s \in Set /\ w \in Way /\ <<s, w>> \in Frame
  BY DEF Holder, Frame
<1>3. Past(k)'
  BY <1>1, PastStays, FullParts DEF Holder
<1>4. CASE dirty'[k][<<s, w>>]
  BY <1>3, <1>4 DEF Holder, Tagged, Owned
<1>5. CASE ~dirty'[k][<<s, w>>]
  <2>1. LceClear(k) \/ Cleans(k, <<s, w>>)
    BY <1>2, <1>5, DirtyStays DEF Holder
  <2>2. Cleans(k, <<s, w>>)
    BY <2>1 DEF LceClear, Holder, Past
  <2>3. ~LceWbDirtyRd(k)
    <3> SUFFICES ASSUME LceWbDirtyRd(k)
                 PROVE  FALSE
      OBVIOUS
    <3>1. lceState[k] \in Begun /\ CmdFrame(k) = <<s, w>>
      BY <2>2 DEF LceWbDirtyRd, Begun, Passed, Cleans
    <3>2. QED
      BY <3>1, FullParts, RightsParts DEF GiveBegun, Holder
  <2>4. CASE LceStTr(k)
    <3>1. /\ Executes(k, {"inv", "st_wb", "st_tr", "st_tr_wb", "st_wakeup", "data"})
          /\ SetState(k, lceCmd[k].st) /\ CmdFrame(k) = <<s, w>>
      BY <2>2, <2>4 DEF LceStTr, Executes, Holds, Cleans
    <3>2. lceCmd[k].st = "I"
      BY <2>2, <2>3, <2>4 DEF Cleans, LceStatOnly
    <3>3. tag'[k][<<s, w>>].st = "I"
      BY <1>2, <3>1, <3>2, SetIs, FullParts, SoundParts DEF TagPut
    <3>4. QED
      BY <3>3 DEF Owned
  <2>5. CASE LceStatOnly(k)
    <3>1. /\ lceCmd' = lceCmd /\ lceState' = lceState /\ miss' = miss /\ Executes(k, {"st_tr"})
          /\ CmdFrame(k) = <<s, w>>
      BY <2>2, <2>5 DEF LceStatOnly, lceVars, coreVars, Cleans
    <3>2. PICK m : m = lceCmd[k]
      OBVIOUS
    <3>3. m # None /\ m.type = "st_tr" /\ lceState[k] = "ready" /\ Present(m)
      BY <3>1, <3>2 DEF Executes, Holds, Present
    <3>4. m.dst = k /\ m \in Command /\ FrameOf(m.addr, m.way) = <<s, w>>
      BY <3>1, <3>2, <3>3, Lces, FullParts DEF CmdFrame
    <3>5. m.addr = b
      BY <3>3, <3>4, FullParts, RightsParts DEF GiveTag, Giving, Holder, Tagged
    <3>6. m.addr \in Block
      BY <3>5 DEF Holder
    <3>7. QED
      BY <3>1, <3>2, <3>3, <3>5, <3>6, MovesAway
  <2>6. QED
    BY <2>2, <2>3, <2>4, <2>5 DEF Cleans
<1>6. QED
  BY <1>4, <1>5

(* The engine's command takes a copy that is dirty.                        *)
LEMMA TakenWb ==
  ASSUME Full, NEW k \in LCE, PlainStep(k), NEW m, NEW s, NEW w, NEW b, Holder(k, s, w, b),
         Doing(k, m, s, w), m.type \in {"st_wb", "st_tr_wb"}, tag' # tag
  PROVE  WbOwed(b)'
<1>1. LceStep(k)
  BY DEF PlainStep
<1>2. lceCmd[k] # None /\ m = lceCmd[k] /\ lceState[k] = "ready" /\ k \in LCE
  BY DEF Doing
<1>3. LceStWb(k) \/ LceStTr(k) \/ LceTagOnly(k)
  BY <1>1, <1>2, TagBy DEF LceClear, LceInv, LceData, LceStWakeup, Executes, Holds
<1>4. lceCmd' = lceCmd /\ dirty' = dirty
  BY <1>2, <1>3 DEF LceStWb, LceStTr, LceTagOnly, lceVars
<1>5. m.dst = k /\ FrameOf(m.addr, m.way) = <<s, w>> /\ CmdFrame(k) = <<s, w>>
  BY <1>2 DEF Doing, FrameOf, CmdFrame
<1>6. m.addr = b
  <2>1. Present(m)
    BY <1>2 DEF Present
  <2>2. QED
    BY <1>5, <2>1, FullParts, RightsParts DEF GiveTag, Giving, Holder, Tagged
<1>7. dirty'[k][CmdFrame(k)'] /\ lceCmd'[k] = m
  BY <1>2, <1>4, <1>5 DEF CmdFrame, Holder
<1>8. QED
  BY <1>2, <1>6, <1>7 DEF WbOwed, Holds

(* A dirty copy taken by a transfer without write-back moves.              *)
LEMMA TakenTr ==
  ASSUME Full, NEW k \in LCE, PlainStep(k), NEW m, NEW s, NEW w, NEW b, Holder(k, s, w, b),
         Doing(k, m, s, w), m.type = "st_tr", tag' # tag
  PROVE  Moving(b)'
<1>1. LceStep(k) /\ lceState \in [LCE -> LceCmdStates]
  BY FullParts DEF PlainStep, IInv, LceOK, LceTypeOK
<1>2. m # None /\ m = lceCmd[k] /\ lceState[k] = "ready" /\ m.addr \in Block
  BY DEF Doing
<1>3. LceStTr(k) \/ LceTagOnly(k)
  BY <1>1, <1>2, TagBy DEF LceClear, LceInv, LceData, LceStWakeup, LceStWb, Executes, Holds
<1>4. lceCmd' = lceCmd /\ miss' = miss
  BY <1>3 DEF LceStTr, LceTagOnly, lceVars, coreVars
<1>5. lceState'[k] \in {"ready", "tr"}
  BY <1>1, <1>2, <1>3 DEF LceStTr, LceTagOnly, lceVars, LceGoto
<1>6. m.dst = k /\ FrameOf(m.addr, m.way) = <<s, w>>
  BY <1>2 DEF Doing, FrameOf
<1>7. m.addr = b
  <2>1. Present(m)
    BY <1>2 DEF Present
  <2>2. QED
    BY <1>6, <2>1, FullParts, RightsParts DEF GiveTag, Giving, Holder, Tagged
<1>8. Moving(m.addr)'
  BY <1>2, <1>4, <1>5, MovesAway
<1>9. QED
  BY <1>7, <1>8

(* A fill finds the copy of another block that may be written nowhere near.*)
LEMMA TakenData ==
  ASSUME Full, NEW k \in LCE, NEW m, NEW s, NEW w, NEW b, Holder(k, s, w, b),
         Doing(k, m, s, w), m.type = "data"
  PROVE  m.addr = b /\ dir[k][<<s, w>>].st \in Owned
<1>1. Tok("lce", k, 0, k, m.addr, "cached") /\ k \in Open(s) /\ miss[k].addr = m.addr
  BY DoingOpen, FullParts, SoundParts
<1>2. /\ k \in LCE /\ s \in Set /\ w \in Way /\ m.addr \in Block /\ s = SetOf[m.addr]
      /\ m = lceCmd[k] /\ m # None /\ lceState[k] = "ready" /\ m.dst = k /\ w = m.way
  BY DEF Doing
<1>3. Grants(m)
  BY DoingFor, FullParts DEF DoneFor
<1>4. w = miss[k].lru /\ Copy(k, s, w, miss[k].addr)
  BY <1>1, <1>2, <1>3 DEF Grants, Granted, Entered, Copy, FrameOf
<1>5. HomeOf[s] \in CCE /\ InService(HomeOf[s])
  BY <1>1, <1>2, OpenPast, FullParts
<1>6. ~(AtFsm(HomeOf[s]) /\ ReqSet(HomeOf[s]) = s)
  <2>1. PICK a \in Block : a = m.addr /\ Tok("lce", k, 0, k, a, "cached")
    BY <1>1, <1>2
  <2>2. AtFsm(HomeOf[s]) => ReqSet(HomeOf[s]) # SetOf[a]
    BY <1>5, <2>1, FsmNot, FullParts
  <2>3. QED
    BY <1>2, <2>1, <2>2
<1>7. ~Early(s) /\ ~(Serving(s) /\ Evicting(HomeOf[s]))
  BY <1>6 DEF Early, Serving, Evicting, AtFsm, Unsourced, Working, Cached
<1>8. tag[k][<<s, w>>].st \notin Owned \/ tag[k][<<s, w>>].blk = m.addr
  BY <1>1, <1>2, <1>4, <1>7, FullParts, RightsParts DEF FreeFrame
<1>9. m.addr = b
  BY <1>8 DEF Holder, Tagged
<1>10. Same(k, s, w)
  <2> SUFFICES ASSUME ~Same(k, s, w)
               PROVE  FALSE
    OBVIOUS
  <2>1. ~ToFill(k, s, w) /\ ~ToUpgrade(k, s, w)
    BY <1>1, <1>9 DEF Holder, Tagged, ToFill, ToUpgrade, Owned
  <2>2. ~(Invalidating(HomeOf[s]) /\ ReqSet(HomeOf[s]) = s)
    BY <1>6 DEF Invalidating, AtFsm, Unsourced, Working, Cached
  <2>3. ~HasGiver(k, s)
    <3> SUFFICES ASSUME HasGiver(k, s)
                 PROVE  FALSE
      OBVIOUS
    <3>1. PICK a \in {"cmd", "lce"}, j \in LCE, e \in Block : \E x :
            Tok(a, x, 0, j, e, "cached") /\ SetOf[e] = s /\ j # k
      BY DEF HasGiver
    <3>2. PICK x : Tok(a, x, 0, j, e, "cached")
      BY <3>1
    <3>3. Base
      BY FullParts
    <3>4. j = k
      BY <1>1, <1>2, <3>1, <3>2, <3>3, OnePlace
    <3>5. QED
      BY <3>1, <3>4
  <2>4. QED
    BY <1>2, <1>5, <2>1, <2>2, <2>3, Differs, FullParts, SoundParts
<1>11. QED
  BY <1>9, <1>10 DEF Same, Holder

(* A dirty copy stays, moves, or is owed.                                  *)
LEMMA HolderPlain ==
  ASSUME Full, NEW k \in LCE, PlainStep(k), NEW l, NEW s, NEW w, NEW b, Holder(l, s, w, b)
  PROVE  Holder(l, s, w, b)' \/ Moving(b)' \/ WbOwed(b)'
<1>1. LceStep(k)
  BY DEF PlainStep
<1>2. /\ l \in LCE /\ s \in Set /\ w \in Way /\ <<s, w>> \in Frame /\ Past(l) /\ b \in Block
      /\ tag[l][<<s, w>>].st \in Owned /\ tag[l][<<s, w>>].blk = b /\ dirty[l][<<s, w>>]
  BY DEF Holder, Frame, Tagged
<1>3. CASE l # k
  <2>1. tag'[l] = tag[l] /\ Past(l)'
    BY <1>1, <1>2, <1>3, LceOthers, PastStays, FullParts, SoundParts
  <2>2. dirty'[l][<<s, w>>]
    BY <1>2, <1>3, DirtyStays
  <2>3. QED
    BY <2>1, <2>2 DEF Holder, Tagged
<1>4. CASE l = k /\ tag'[k][<<s, w>>].st \in Owned /\ tag'[k][<<s, w>>].blk = b
  BY <1>4, CopyKept
<1>5. CASE l = k /\ ~(tag'[k][<<s, w>>].st \in Owned /\ tag'[k][<<s, w>>].blk = b)
  <2>1. tag' # tag
    BY <1>2, <1>5
  <2>2. PICK m : /\ Doing(k, m, s, w)
                 /\ Outcome(k, m, s, w, tag'[k][<<s, w>>].blk, tag'[k][<<s, w>>].st)
    BY <1>1, <1>2, <1>5, TagChange, FullParts
  <2>3. Ready(m) /\ m.dst = k /\ FrameOf(m.addr, m.way) = <<s, w>>
    BY <2>2 DEF Ready, Doing, FrameOf
  <2>4. m.type # "inv"
    BY <1>2, <1>5, <2>3, FullParts, RightsParts DEF InvShared
  <2>5. m.type # "st_wakeup"
    BY <1>2, <1>5, <2>3, FullParts, RightsParts DEF WakeCmd, Owned
  <2>6. m.type # "data"
    <3> SUFFICES ASSUME m.type = "data"
                 PROVE  FALSE
      OBVIOUS
    <3>1. m.addr = b /\ dir[k][<<s, w>>].st \in Owned
      BY <1>5, <2>2, TakenData
    <3>2. tag'[k][<<s, w>>].st = dir[k][<<s, w>>].st /\ tag'[k][<<s, w>>].blk = m.addr
      BY <2>2, <3>1 DEF Outcome, Owned
    <3>3. QED
      BY <1>5, <3>1, <3>2
  <2>7. m.type \in {"st_wb", "st_tr", "st_tr_wb"}
    BY <2>2, <2>4, <2>5, <2>6 DEF Doing
  <2>8. QED
    BY <1>5, <2>1, <2>2, <2>7, TakenWb, TakenTr
<1>6. QED
  BY <1>3, <1>4, <1>5

(* MemOwed, other steps of a cache.                                        *)
LEMMA MemOwedPlain ==
  ASSUME Full, NEW k \in LCE, PlainStep(k)
  PROVE  MemOwed'
<1>1. LceStep(k) /\ latest' = latest
  BY DEF PlainStep
<1>2. mem' = mem
  BY <1>1, LceLeaves
<1> SUFFICES ASSUME NEW b \in Block, mem[b] # latest[b]
             PROVE  DirtyCopy(b)' \/ WbOwed(b)' \/ WbFlying(b)' \/ Moving(b)'
  BY <1>1, <1>2 DEF MemOwed
<1>3. CASE DirtyCopy(b)
  <2>1. PICK l, s, w : Holder(l, s, w, b)
    BY <1>3, HolderIs
  <2>2. Holder(l, s, w, b)' \/ Moving(b)' \/ WbOwed(b)'
    BY <2>1, HolderPlain
  <2>3. Holder(l, s, w, b)' => DirtyCopy(b)'
    <3> SUFFICES ASSUME Holder(l, s, w, b)'
                 PROVE  DirtyCopy(b)'
      OBVIOUS
    <3>1. l \in LCE /\ w \in Way
      BY DEF Holder
    <3>2. Hit(l, b, w, Owned)' /\ (dirty[l][FrameOf(b, w)])'
      BY DEF Holder, Hit, FrameOf, Past, Tagged
    <3>3. QED
      BY <3>1, <3>2 DEF DirtyCopy
  <2>4. QED
    BY <2>2, <2>3
<1>4. CASE WbOwed(b)
  BY <1>4, OwedPlain
<1>5. CASE WbFlying(b)
  BY <1>1, <1>5, FlyingPlain
<1>6. CASE Moving(b)
  BY <1>6, MovingPlain
<1>7. QED
  BY <1>3, <1>4, <1>5, <1>6, FullParts DEF MemOwed

(* ValueInv, step of a cache.                                              *)
LEMMA ValueLce ==
  ASSUME Full, NEW k \in LCE, LceStep(k)
  PROVE  ValueInv'
<1>1. CASE PlainStep(k)
  <2>1. CopyLatest' /\ VictimLine' /\ GiveLine' /\ BufLatest' /\ MemOwed' /\ MissKnown'
    BY <1>1, CopyLatestPlain, VictimLinePlain, GiveLinePlain, BufLatestPlain, MemOwedPlain,
      MissKnownPlain
  <2>2. WbLatest' /\ DataLatest' /\ MemLatest' /\ SpecLatest' /\ ReadWaits'
    BY <1>1, FlightPlain
  <2>3. QED
    BY <2>1, <2>2 DEF ValueInv
<1>2. ASSUME NEW s, NEW w, NEW b, NEW d, StoreStep(k, s, w, b, d)
      PROVE  ValueInv'
  BY <1>2, StoreKeeps
<1>3. QED
  BY <1>1, <1>2, LceKinds

----------------------------------------------------------------------------
(* The steps of an engine.                                                 *)

(* What ValueInv says of the caches alone, step of an engine.              *)
LEMMA QuietCce ==
  ASSUME Full, NEW c \in CCE, CceStep(c)
  PROVE  CopyLatest' /\ BufLatest' /\ WbLatest' /\ MissKnown'
<1>1. UNCHANGED <<tag, line, lceState, lceCmd, dataBuf, miss, latest>>
  BY CceLeaves
<1>2. CopyLatest'
  BY <1>1, FullParts DEF CopyLatest, Past, Tagged, Filling, Holds, CmdFrame
<1>3. BufLatest'
  BY <1>1, FullParts DEF BufLatest
<1>4. WbLatest'
  BY <1>1, RespFewer, FullParts DEF WbLatest
<1>5. MissKnown'
  BY <1>1, FullParts DEF MissKnown
<1>6. QED
  BY <1>2, <1>3, <1>4, <1>5

(* A copy that the directory knows and that no command changes is current. *)
LEMMA SettledLine ==
  ASSUME Full, NEW c \in CCE, AtFsm(c), NEW l \in LCE, NEW s \in Set, s = ReqSet(c), NEW w \in Way,
         NEW b \in Block, SetOf[b] = s, Tagged(l, s, w, b)
  PROVE  line[l][<<s, w>>] = latest[b]
<1>1. mshr[c].lce \in Open(s)
  BY FsmHas, FullParts, RightsParts, SoundParts
<1>2. Past(l)
  BY <1>1, OpenPast, FullParts
<1>3. ~Filling(l, <<s, w>>)
  <2> SUFFICES ASSUME Filling(l, <<s, w>>)
               PROVE  FALSE
    OBVIOUS
  <2>1. Holds(l, {"data"}) /\ lceState[l] = "ready" /\ CmdFrame(l) = <<s, w>>
    BY DEF Filling
  <2>2. PICK m : m = lceCmd[l] /\ m # None /\ m.type = "data" /\ Ready(m)
    BY <2>1 DEF Holds, Ready
  <2>3. HasTok(m)
    BY <2>2, ReadyTok, FullParts, RightsParts DEF Gives
  <2>4. SetOf[m.addr] = s
    BY <2>1, <2>2 DEF CmdFrame, FrameOf
  <2>5. QED
    BY <2>3, <2>4, TokAlone, FullParts, RightsParts
<1>4. QED
  BY <1>2, <1>3, FullParts DEF CopyLatest

(* VictimLine, step of an engine.                                          *)
LEMMA VictimLineCce ==
  ASSUME Full, NEW c \in CCE, CceStep(c)
  PROVE  VictimLine'
<1> SUFFICES ASSUME NEW d \in CCE, Evicting(d)'
             PROVE  line'[mshr'[d].lce][<<ReqSet(d)', mshr'[d].lru>>] = latest'[mshr'[d].lruBlk]
  BY DEF VictimLine
<1>1. line' = line /\ latest' = latest
  BY CceLeaves
<1>2. CASE d # c
  <2>1. cceState'[d] = cceState[d] /\ mshr'[d] = mshr[d] /\ ReqSet(d)' = ReqSet(d)
    BY <1>2, Elsewhere, FullParts
  <2>2. QED
    BY <1>1, <2>1, FullParts DEF VictimLine, Evicting
<1>3. CASE d = c /\ Evicting(c) /\ SameAnswer(c) /\ ReqSet(c)' = ReqSet(c)
  BY <1>1, <1>3, FullParts DEF VictimLine, SameAnswer, SameRequest
<1>4. CASE d = c /\ CceWriteNextState(c) /\ mshr[c].rf /\ ~mshr[c].uf
  <2>1. cceState[c] = "write_next_state" /\ mshr' = mshr
    BY <1>4, WriteStep, FullParts
  <2>2. AtFsm(c) /\ ~Invalidating(c)
    BY <2>1 DEF AtFsm, Unsourced, Working, Cached, Invalidating
  <2>3. PICK l \in LCE, s \in Set, w \in Way :
          /\ l = mshr[c].lce /\ s = ReqSet(c) /\ w = mshr[c].lru /\ HomeOf[s] = c
    BY <2>2, FsmHas, FullParts
  <2>4. dir[l][<<s, w>>].st \in Owned /\ dir[l][<<s, w>>].blk = mshr[c].lruBlk
    BY <1>4, <2>1, <2>3, FullParts, RightsParts DEF KnownVictim
  <2>5. Early(s)
    BY <2>1, <2>3 DEF Early, Serving, Working, Cached
  <2>6. Same(l, s, w)
    BY <2>2, <2>3, <2>5, FsmSettled, FullParts, RightsParts, SoundParts DEF ToFill, ToUpgrade
  <2>7. PICK b : b = mshr[c].lruBlk
    OBVIOUS
  <2>8. Tagged(l, s, w, b)
    BY <2>4, <2>6, <2>7 DEF Same, Owned, Tagged
  <2>9. tag[l] \in [Frame -> Line] /\ <<s, w>> \in Frame
    BY <2>3, Lces, FullParts, RightsParts DEF Frame
  <2>10. b \in Block
    BY <2>8, <2>9 DEF Tagged, Line
  <2>11. SetOf[b] = s
    BY <1>4, <2>1, <2>3, <2>7, FullParts DEF Base, SerialInv, DirSetInv, VictimSet, Decided
  <2>12. line[l][<<s, w>>] = latest[b]
    BY <2>2, <2>3, <2>8, <2>10, <2>11, SettledLine
  <2>13. ReqSet(c)' = s
    BY <2>1, <2>3 DEF ReqSet
  <2>14. QED
    BY <1>1, <1>4, <2>1, <2>3, <2>7, <2>12, <2>13
<1>5. QED
  BY <1>2, <1>3, <1>4, EvictingFrom, FullParts

(* GiveLine, step of an engine.                                            *)
LEMMA GiveLineCce ==
  ASSUME Full, NEW c \in CCE, CceStep(c)
  PROVE  GiveLine'
<1> SUFFICES ASSUME NEW m, Present(m)', m.type \in Giving
             PROVE  line'[m.dst][FrameOf(m.addr, m.way)] = latest'[m.addr]
  BY DEF GiveLine
<1>1. line' = line /\ latest' = latest
  BY CceLeaves
<1>2. CASE Present(m)
  BY <1>1, <1>2, FullParts DEF GiveLine
<1>3. CASE CmdNew(c, m) /\ m.type = "st_wb"
  <2>1. /\ cceState[c] = "replacement" /\ m.dst = mshr[c].lce /\ m.addr = mshr[c].lruBlk
        /\ m.way = mshr[c].lru
    BY <1>3 DEF CmdNew, Given
  <2>2. mshr[c].rf
    BY <2>1, FullParts DEF Base, SerialInv, MshrInv, MshrFlagsOK
  <2>3. SetOf[mshr[c].lruBlk] = ReqSet(c)
    BY <2>1, <2>2, FullParts DEF Base, SerialInv, DirSetInv, VictimSet, Decided
  <2>4. QED
    BY <1>1, <2>1, <2>3, FullParts DEF VictimLine, Evicting, FrameOf
<1>4. CASE CmdNew(c, m) /\ m.type # "st_wb"
  <2>1. CceTransfer(c) /\ cceState[c] = "transfer" /\ Given(c, m)
    BY <1>4 DEF CmdNew, Giving
  <2>2. mshr[c].xf /\ mshr[c].owner \in LCE /\ mshr[c].ownerWay \in Way
    BY <2>1, TransferStep, FullParts
  <2>3. AtFsm(c) /\ ~Invalidating(c)
    BY <2>1 DEF AtFsm, Unsourced, Working, Cached, Invalidating
  <2>4. PICK l \in LCE, s \in Set, w \in Way, b \in Block :
          /\ l = mshr[c].owner /\ s = ReqSet(c) /\ w = mshr[c].ownerWay /\ HomeOf[s] = c
          /\ b = mshr[c].addr /\ mshr[c].lce \in Open(s)
    BY <2>2, <2>3, FsmHas, FullParts
  <2>5. dir[l][<<s, w>>].st \in Owned /\ l # mshr[c].lce
    BY <2>1, <2>2, <2>4, FullParts, RightsParts, SoundParts DEF DirInv, KnownInv, KnownOwner
  <2>6. dir[l][<<s, w>>].blk = b
    BY <2>1, <2>2, <2>4, FullParts DEF Base, SerialInv, DirSetInv, FoundBlk, Decided, FrameOf, ReqSet
  <2>7. l \notin Open(s)
    BY <2>4, <2>5, OpenOne, FullParts
  <2>8. Same(l, s, w)
    BY <2>3, <2>4, <2>7, FsmSettled, FullParts, RightsParts, SoundParts DEF ToFill, ToUpgrade
  <2>9. Tagged(l, s, w, b) /\ SetOf[b] = s
    BY <2>4, <2>5, <2>6, <2>8 DEF Same, Owned, Tagged, ReqSet
  <2>10. line[l][<<s, w>>] = latest[b]
    BY <2>3, <2>4, <2>9, SettledLine
  <2>11. QED
    BY <1>1, <2>1, <2>4, <2>9, <2>10 DEF Given, FrameOf
<1>5. QED
  BY <1>2, <1>3, <1>4, PresentNew, FullParts, RightsParts

(* DataLatest, step of an engine.                                          *)
LEMMA DataLatestCce ==
  ASSUME Full, NEW c \in CCE, CceStep(c)
  PROVE  DataLatest'
<1> SUFFICES ASSUME NEW m, Ready(m)', m.type = "data"
             PROVE  m.data = latest'[m.addr]
  BY DEF DataLatest
<1>1. latest' = latest
  BY CceLeaves
<1>2. CASE Ready(m)
  BY <1>1, <1>2, FullParts DEF DataLatest
<1>3. CASE CmdNew(c, m)
  <2>1. MemRespFill(c) /\ m.addr = RespHead(c).addr /\ m.data = RespHead(c).data
    BY <1>3 DEF CmdNew, Given
  <2>2. memResp[c] # <<>> /\ memResp[c] \in Seq(MemResponse)
    BY <2>1, FullParts DEF MemRespFill, IInv, MemTypeOK
  <2>3. 1 \in DOMAIN memResp[c] /\ RespHead(c) = memResp[c][1]
    BY <2>2 DEF RespHead
  <2>4. RespHead(c).type = "rd" /\ Released(SetOf[RespHead(c).addr])
    BY <2>1 DEF MemRespFill, IsSpeculative, Released
  <2>5. MemTok(c, 1, RespHead(c).lce, RespHead(c).addr, "cached")
    BY <2>3, <2>4 DEF MemTok, Kind
  <2>6. memResp[c][1].data = latest[RespHead(c).addr]
    BY <2>5, FullParts DEF MemLatest
  <2>7. QED
    BY <1>1, <2>1, <2>3, <2>6
<1>4. QED
  BY <1>2, <1>3, ReadyNew, FullParts, RightsParts

(* MemLatest, step of an engine.                                           *)
LEMMA MemLatestCce ==
  ASSUME Full, Base', NEW c \in CCE, CceStep(c)
  PROVE  MemLatest'
<1> SUFFICES ASSUME NEW d \in CCE, NEW i \in Nat, NEW l, NEW b, MemTok(d, i, l, b, "cached")'
             PROVE  memResp'[d][i].data = latest'[b]
  BY DEF MemLatest
<1>1. latest' = latest
  BY CceLeaves
<1>2. b \in Block /\ SetOf[b] \in Set /\ HomeOf[SetOf[b]] = d
  BY MemTokFrom, FullParts
<1>3. PICK j \in Nat :
        /\ ReadOf(SetOf[b], j) /\ memResp'[d][i] = memResp[d][j] /\ memResp[d][j].addr = b
        /\ \/ MemTok(d, j, l, b, "cached")
           \/ /\ CceResolve(c) /\ SetOf[b] = ReqSet(c) /\ d = c /\ Released(SetOf[b])'
              /\ specBits'[SetOf[b]] = Resolved(mshr[c], specBits[SetOf[b]])
  BY MemTokFrom, FullParts
<1>4. CASE MemTok(d, j, l, b, "cached")
  BY <1>1, <1>3, <1>4, FullParts DEF MemLatest
<1>5. CASE CceResolve(c) /\ SetOf[b] = ReqSet(c) /\ d = c /\ Released(SetOf[b])'
           /\ specBits'[SetOf[b]] = Resolved(mshr[c], specBits[SetOf[b]])
  <2>1. cceState[c] = "resolve_speculation"
    BY <1>5 DEF CceResolve
  <2>2. Serving(SetOf[b])
    BY <1>2, <1>5, <2>1 DEF Serving, Working, Cached
  <2>3. specBits[SetOf[b]].spec
    BY <1>2, <1>5, <2>1, <2>2, FullParts DEF Base, SerialInv, SpecInv, ReadHeld
  <2>4. specBits[SetOf[b]] = [NoSpec EXCEPT !.spec = TRUE]
    BY <1>2, <2>3, FullParts DEF Base, SerialInv, SpecInv, ReadClean
  <2>5. mshr[c] \in Mshr /\ specBits[SetOf[b]] \in SpecBits
    BY <1>2, FullParts DEF IInv, CceOK, CceTypeOK, DirTypeOK
  <2>6. ~Resolved(mshr[c], specBits[SetOf[b]]).squash
    BY <1>5 DEF Released
  <2>7. ~mshr[c].xf /\ ~mshr[c].uf
    BY <2>4, <2>5, <2>6, ResolvedState
  <2>8. memResp[c][j].data = latest[mshr[c].addr]
    BY <1>2, <1>3, <1>5, <2>1, <2>2, <2>7, FullParts DEF SpecLatest
  <2>9. memResp[c][j].addr = mshr[c].addr
    BY <1>2, <1>3, <1>5, <2>2, FullParts DEF Base, SerialInv, SpecInv, ReadFor
  <2>10. QED
    BY <1>1, <1>3, <1>5, <2>8, <2>9
<1>6. QED
  BY <1>3, <1>4, <1>5

(* What the speculative read misses is owned by another cache.             *)
LEMMA ReadOwned ==
  ASSUME Full, NEW c \in CCE, cceState[c] = "read_mem_spec", NEW l \in LCE, NEW w \in Way,
         Hit(l, mshr[c].addr, w, Owned)
  PROVE  OtherCopy(c, l, w) /\ dir[l][<<ReqSet(c), w>>].st \in Owned
<1>1. AtFsm(c) /\ ~Invalidating(c)
  BY DEF AtFsm, Unsourced, Working, Cached, Invalidating
<1>2. PICK j \in LCE, b \in Block, s \in Set :
        /\ j = mshr[c].lce /\ b = mshr[c].addr /\ s = ReqSet(c) /\ s = SetOf[b] /\ HomeOf[s] = c
        /\ j \in Open(s) /\ miss[j].addr = b /\ miss[j].phase = "sent" /\ miss[j].op # "uc_rd"
  BY <1>1, FsmHas, FullParts DEF ReqSet
<1>3. l # j
  <2> SUFFICES ASSUME l = j
               PROVE  FALSE
    OBVIOUS
  <2>1. ~Holds(j, {"data", "st_wakeup"}) \/ lceState[j] \in Passed
    <3> SUFFICES ASSUME Holds(j, {"data", "st_wakeup"}), lceState[j] \notin Passed
                 PROVE  FALSE
      OBVIOUS
    <3>1. PICK m : m = lceCmd[j] /\ m # None /\ m.type \in {"data", "st_wakeup"} /\ Present(m)
      BY DEF Holds, Present
    <3>2. m \in Command /\ m.dst = j
      BY <3>1, Lces, FullParts, RightsParts
    <3>3. m.addr \in Block
      BY <3>1, <3>2, CommandFields
    <3>4. LceTok(j, j, m.addr, "cached")
      BY <3>1, <3>2 DEF LceTok, Carries, Sources, Target, Kind
    <3>5. Tok("lce", j, 0, j, m.addr, "cached")
      BY <3>4 DEF Tok
    <3>6. miss[j].addr = m.addr
      BY <3>3, <3>5, TokOpen, FullParts
    <3>7. SetOf[m.addr] # ReqSet(c)
      BY <1>1, <3>3, <3>5, FsmNot, FullParts
    <3>8. QED
      BY <1>2, <3>6, <3>7
  <2>2. ~Holds(j, {"data", "st_wakeup"})
    <3>1. lceState[j] \in Passed => Holds(j, {"st_wb", "st_tr_wb"})
      BY FullParts DEF IInv, LceOK, CmdWF, Passed
    <3>2. QED
      BY <2>1, <3>1 DEF Holds
  <2>3. ~Hit(j, b, w, Needs(miss[j].op))
    BY <1>2, <2>2, FullParts, RightsParts, SoundParts DEF Lacks
  <2>4. QED
    BY <1>2, <2>3 DEF Hit, Needs, Owned, Valid
<1>4. tag[l][<<s, w>>].blk = b /\ tag[l][<<s, w>>].st \in Owned
  BY <1>2 DEF Hit, FrameOf
<1>5. Early(s)
  BY <1>2 DEF Early, Serving, Working, Cached
<1>6. Same(l, s, w)
  BY <1>1, <1>2, <1>5, FsmSettled, FullParts, RightsParts, SoundParts DEF ToFill, ToUpgrade
<1>7. dir[l][<<s, w>>].blk = b /\ dir[l][<<s, w>>].st \in Owned /\ dir[l][<<s, w>>].st # "I"
  BY <1>4, <1>6 DEF Same, Owned
<1>8. QED
  BY <1>2, <1>3, <1>7 DEF OtherCopy, Copy

(* Memory that is not current when it is read has an owner in the          *)
(* directory.                                                              *)
LEMMA ReadMissed ==
  ASSUME Full, NEW c \in CCE, cceState[c] = "read_mem_spec", mem[mshr[c].addr] # latest[mshr[c].addr]
  PROVE  \E k \in LCE, w \in Way : OtherCopy(c, k, w) /\ dir[k][<<ReqSet(c), w>>].st \in Owned
<1> DEFINE Found == \E k \in LCE, w \in Way : OtherCopy(c, k, w) /\ dir[k][<<ReqSet(c), w>>].st \in Owned
<1>1. AtFsm(c)
  BY DEF AtFsm, Unsourced, Working, Cached
<1>2. PICK b \in Block : b = mshr[c].addr /\ ReqSet(c) = SetOf[b] /\ HomeOf[SetOf[b]] = c
  BY <1>1, FsmHas, FullParts DEF ReqSet
<1>3. ASSUME NEW l \in LCE, NEW w \in Way, Hit(l, b, w, Owned)
      PROVE  Found
  <2>1. OtherCopy(c, l, w) /\ dir[l][<<ReqSet(c), w>>].st \in Owned
    BY <1>2, <1>3, ReadOwned
  <2>2. QED
    BY <2>1
<1>4. CASE DirtyCopy(b)
  BY <1>3, <1>4 DEF DirtyCopy
<1>5. ~WbOwed(b)
  <2> SUFFICES ASSUME WbOwed(b)
               PROVE  FALSE
    OBVIOUS
  <2>1. PICK l \in LCE : Holds(l, {"st_wb", "st_tr_wb"}) /\ lceCmd[l].addr = b
    BY DEF WbOwed
  <2>2. PICK m : m = lceCmd[l] /\ Present(m) /\ m.type \in {"st_wb", "st_tr_wb"} /\ m.addr = b
    BY <2>1 DEF Holds, Present
  <2>3. PICK d \in CCE : /\ cceState[d] \in {"replacement_wb_resp", "transfer_wb_resp"}
                         /\ SetOf[m.addr] = ReqSet(d) /\ HomeOf[ReqSet(d)] = d
    BY <2>2, PresentWb, FullParts, RightsParts
  <2>4. QED
    BY <1>2, <2>2, <2>3
<1>6. ~WbFlying(b)
  <2> SUFFICES ASSUME WbFlying(b)
               PROVE  FALSE
    OBVIOUS
  <2>1. PICK m \in respNet : m.type = "wb" /\ m.addr = b
    BY DEF WbFlying
  <2>2. PICK d \in CCE : d = m.dst
    BY FullParts DEF IInv, NetTypeOK, Response
  <2>3. WbResp(d, m)
    BY <2>1, <2>2 DEF WbResp
  <2>4. cceState[d] \in {"replacement_wb_resp", "transfer_wb_resp"} /\ SetOf[m.addr] = ReqSet(d)
        /\ HomeOf[ReqSet(d)] = d
    BY <2>3, WbMine, FullParts DEF Base
  <2>5. QED
    BY <1>2, <2>1, <2>4
<1>7. CASE Moving(b)
  <2>1. PICK l \in LCE :
          /\ miss[l].op = "wr" /\ miss[l].addr = b
          /\ \/ miss[l].phase = "replay"
             \/ \E a \in {"cmd", "lce"} : \E x : Tok(a, x, 0, l, b, "cached")
    BY <1>7 DEF Moving
  <2>2. ~\E a \in {"cmd", "lce"} : \E x : Tok(a, x, 0, l, b, "cached")
    BY <1>1, <1>2, FsmNot, FullParts
  <2>3. PICK w \in Way : Hit(l, b, w, Owned)
    BY <2>1, <2>2, FullParts, RightsParts DEF ReplayOwns
  <2>4. QED
    BY <1>3, <2>3
<1>8. QED
  BY <1>2, <1>4, <1>5, <1>6, <1>7, FullParts DEF MemOwed

(* Another cache owns the block the engine works for.                      *)
OwnedElsewhere(c) ==
  \E k \in LCE, w \in Way : OtherCopy(c, k, w) /\ dir[k][<<ReqSet(c), w>>].st \in Owned

(* SpecLatest, of one read.                                                *)
LEMMA SpecIs ==
  ASSUME SpecLatest, NEW s \in Set, NEW i \in Nat, Serving(s), ReadOf(s, i), NEW c, c = HomeOf[s]
  PROVE  /\ cceState[c] = "read_dir" =>
              OwnedElsewhere(c) \/ memResp[c][i].data = latest[mshr[c].addr]
         /\ cceState[c] # "read_dir" =>
              mshr[c].xf \/ mshr[c].uf \/ memResp[c][i].data = latest[mshr[c].addr]
<1>1. ReqSet(c) = s
  BY DEF Serving
<1>2. /\ cceState[c] = "read_dir" =>
           \/ (\E k \in LCE, w \in Way : OtherCopy(c, k, w) /\ dir[k][<<s, w>>].st \in Owned)
           \/ memResp[c][i].data = latest[mshr[c].addr]
      /\ cceState[c] # "read_dir" =>
           mshr[c].xf \/ mshr[c].uf \/ memResp[c][i].data = latest[mshr[c].addr]
  BY DEF SpecLatest
<1>3. QED
  BY <1>1, <1>2 DEF OwnedElsewhere

(* SpecLatest, of the reads of other engines.                              *)
LEMMA SpecOther ==
  ASSUME Full, NEW c \in CCE, CceStep(c), NEW s \in Set, NEW d \in CCE, d = HomeOf[s], d # c,
         Serving(s)', NEW i \in Nat, ReadOf(s, i)'
  PROVE  /\ cceState'[d] = "read_dir" =>
              OwnedElsewhere(d)' \/ memResp'[d][i].data = latest'[mshr'[d].addr]
         /\ cceState'[d] # "read_dir" =>
              mshr'[d].xf \/ mshr'[d].uf \/ memResp'[d][i].data = latest'[mshr'[d].addr]
<1>1. /\ cceState'[d] = cceState[d] /\ mshr'[d] = mshr[d] /\ ReqSet(d)' = ReqSet(d)
      /\ cceState[d] \in Cached =>
            \A k \in LCE, w \in Way : dir'[k][<<ReqSet(d), w>>] = dir[k][<<ReqSet(d), w>>]
  BY Elsewhere, FullParts
<1>2. memResp'[d] = memResp[d] /\ latest' = latest
  BY CceOthers, CceLeaves, FullParts
<1>3. Serving(s) /\ ReadOf(s, i) /\ cceState[d] \in Cached
  BY <1>1, <1>2 DEF Serving, ReadOf, Working
<1>4. OwnedElsewhere(d) => OwnedElsewhere(d)'
  <2> SUFFICES ASSUME NEW k \in LCE, NEW w \in Way, OtherCopy(d, k, w),
                      dir[k][<<ReqSet(d), w>>].st \in Owned
               PROVE  OwnedElsewhere(d)'
    BY DEF OwnedElsewhere
  <2>1. OtherCopy(d, k, w)' /\ dir'[k][<<ReqSet(d)', w>>].st \in Owned
    BY <1>1, <1>3, OthersElsewhere, FullParts
  <2>2. QED
    BY <2>1 DEF OwnedElsewhere
<1>5. /\ cceState[d] = "read_dir" =>
           OwnedElsewhere(d) \/ memResp[d][i].data = latest[mshr[d].addr]
      /\ cceState[d] # "read_dir" =>
           mshr[d].xf \/ mshr[d].uf \/ memResp[d][i].data = latest[mshr[d].addr]
  BY <1>3, SpecIs, FullParts
<1>6. QED
  BY <1>1, <1>2, <1>4, <1>5

(* A read of the engine that steps was there before.                       *)
LEMMA SpecMine ==
  ASSUME Full, Base', NEW c \in CCE, CceStep(c), NEW s \in Set, c = HomeOf[s],
         Serving(s)', NEW i \in Nat, ReadOf(s, i)', ~CceReadMemSpec(c)
  PROVE  /\ Held(cceState[c]) /\ SameRequest(c) /\ Serving(s) /\ s = ReqSet(c) /\ ReqSet(c)' = s
         /\ cceState'[c] \in Working
         /\ \E j \in Nat : ReadOf(s, j) /\ memResp'[c][i] = memResp[c][j]
<1>1. ReqSet(c)' = s /\ cceState'[c] \in Working
  BY DEF Serving
<1>2. cceState'[c] # "read_mem_spec"
  BY DEF Base, SerialInv, SpecInv, ReadFor
<1>3. ~CceResolve(c)
  <2> SUFFICES ASSUME CceResolve(c)
               PROVE  FALSE
    OBVIOUS
  <2>1. cceState'[c] = "ready"
    BY FullParts DEF CceResolve, Goto, IInv, CceOK, CceTypeOK
  <2>2. QED
    BY <1>1, <2>1 DEF Working, Cached
<1>4. Held(cceState[c]) /\ SameRequest(c)
  BY <1>1, <1>2, <1>3, HeldMove, FullParts DEF Held, Base
<1>5. s = ReqSet(c) /\ Serving(s)
  BY <1>1, <1>4 DEF ReqSet, SameRequest, Serving, Held
<1>6. \E j \in Nat : ReadOf(s, j) /\ memResp'[c][i] = memResp[c][j]
  <2>1. ReadsFrom(c, s)
    BY ReadMoves, FullParts DEF Base
  <2>2. PICK k \in {0, 1} : i + k \in Nat /\ ReadOf(s, i + k) /\ memResp'[c][i] = memResp[c][i + k]
    BY <2>1 DEF ReadsFrom
  <2>3. QED
    BY <2>2
<1>7. QED
  BY <1>1, <1>4, <1>5, <1>6

(* SpecLatest, of that read.                                               *)
LEMMA SpecHeld ==
  ASSUME Full, Base', NEW c \in CCE, CceStep(c), NEW s \in Set, c = HomeOf[s],
         Serving(s)', NEW i \in Nat, ReadOf(s, i)', ~CceReadMemSpec(c)
  PROVE  /\ cceState'[c] = "read_dir" =>
              OwnedElsewhere(c)' \/ memResp'[c][i].data = latest'[mshr'[c].addr]
         /\ cceState'[c] # "read_dir" =>
              mshr'[c].xf \/ mshr'[c].uf \/ memResp'[c][i].data = latest'[mshr'[c].addr]
<1>1. /\ Held(cceState[c]) /\ SameRequest(c) /\ Serving(s) /\ s = ReqSet(c) /\ ReqSet(c)' = s
      /\ cceState'[c] \in Working
  BY SpecMine
<1>2. PICK j \in Nat : ReadOf(s, j) /\ memResp'[c][i] = memResp[c][j]
  BY SpecMine
<1>3. latest' = latest /\ mshr'[c].addr = mshr[c].addr /\ mshr'[c].lce = mshr[c].lce
  BY <1>1, CceLeaves DEF SameRequest
<1>4. /\ cceState[c] = "read_dir" =>
           OwnedElsewhere(c) \/ memResp[c][j].data = latest[mshr[c].addr]
      /\ cceState[c] # "read_dir" =>
           mshr[c].xf \/ mshr[c].uf \/ memResp[c][j].data = latest[mshr[c].addr]
  BY <1>1, <1>2, SpecIs, FullParts
<1>5. cceState[c] \in Cached /\ cceState[c] # "read_mem_spec"
  BY <1>1 DEF Held, Working
<1>6. StateMove(cceState[c], cceState'[c])
  BY StateMoves, FullParts DEF Base
<1>7. CASE cceState'[c] = "read_dir"
  <2>1. cceState[c] = "read_dir"
    BY <1>1, <1>6, <1>7 DEF StateMove, Moves1, After, Held, Working, Cached
  <2>2. ~CceWriteNextState(c) /\ ~CceInvCmd(c) /\ ~CceTransfer(c)
    BY <2>1 DEF CceWriteNextState, CceInvCmd, CceTransfer
  <2>3. \A k \in LCE, w \in Way : dir'[k][<<s, w>>] = dir[k][<<s, w>>]
    BY <1>1, <1>5, <2>2, DirHeld, FullParts, RightsParts
  <2>4. OwnedElsewhere(c) => OwnedElsewhere(c)'
    BY <1>1, <1>3, <2>3 DEF OwnedElsewhere, OtherCopy, Copy
  <2>5. QED
    BY <1>2, <1>3, <1>4, <1>7, <2>1, <2>4
<1>8. CASE cceState'[c] # "read_dir" /\ cceState[c] = "read_dir"
  <2>1. CceReadDir(c)
    BY <1>8, FsmBy DEF CceReset, CceClearDir, CceLeaveUncached, CceSyncAck,
         CceUcReq, CceReadPending, CceDeqReq, CceReadMemSpec, CceWriteNextState, CceReplacement,
         CceReplacementWbResp, CceInvCmd, CceInvAck, CceUpgrade, CceTransfer, CceTransferWbResp,
         CceResolve, CceReady, CceSendSync
  <2>2. PICK q \in LCE, b \in Block :
          q = mshr[c].lce /\ b = mshr[c].addr /\ ReadIs(c, q, b, s)
    BY <1>1, <2>1, ReadResult, FullParts, RightsParts, SoundParts
  <2>3. OwnedElsewhere(c) => mshr'[c].xf
    <3> SUFFICES ASSUME NEW k \in LCE, NEW w \in Way, OtherCopy(c, k, w),
                        dir[k][<<s, w>>].st \in Owned
                 PROVE  mshr'[c].xf
      BY <1>1 DEF OwnedElsewhere
    <3>1. k # q /\ Copy(k, s, w, b) /\ dir[k][<<s, w>>].st # "S"
      BY <1>1, <2>2 DEF OtherCopy, Owned
    <3>2. QED
      BY <2>2, <3>1 DEF ReadIs
  <2>4. QED
    BY <1>2, <1>3, <1>4, <1>8, <2>3
<1>9. CASE cceState'[c] # "read_dir" /\ cceState[c] # "read_dir"
  <2>1. cceState'[c] \in Decided
    BY <1>1, <1>5, <1>6, <1>9 DEF StateMove, Moves1, After, Held, Working, Cached, Decided
  <2>2. ~CceReadDir(c)
    BY <1>9 DEF CceReadDir
  <2>3. SameAnswer(c)
    BY <2>1, <2>2, DecidedStill, FullParts, RightsParts
  <2>4. QED
    BY <1>2, <1>3, <1>4, <1>9, <2>3 DEF SameAnswer
<1>10. QED
  BY <1>7, <1>8, <1>9

(* SpecLatest, step of an engine.                                          *)
LEMMA SpecLatestCce ==
  ASSUME Full, Base', NEW c \in CCE, CceStep(c)
  PROVE  SpecLatest'
<1> SUFFICES ASSUME NEW s \in Set, NEW i \in Nat, Serving(s)', ReadOf(s, i)',
                    NEW d \in CCE, d = HomeOf[s]
             PROVE  /\ cceState'[d] = "read_dir" =>
                         OwnedElsewhere(d)' \/ memResp'[d][i].data = latest'[mshr'[d].addr]
                    /\ cceState'[d] # "read_dir" =>
                         mshr'[d].xf \/ mshr'[d].uf \/ memResp'[d][i].data = latest'[mshr'[d].addr]
  <2>1. ASSUME NEW s \in Set, NEW i \in Nat, Serving(s)', ReadOf(s, i)'
        PROVE  /\ cceState'[HomeOf[s]] = "read_dir" =>
                    \/ (\E k \in LCE, w \in Way :
                          OtherCopy(HomeOf[s], k, w)' /\ dir'[k][<<s, w>>].st \in Owned)
                    \/ memResp'[HomeOf[s]][i].data = latest'[mshr'[HomeOf[s]].addr]
               /\ cceState'[HomeOf[s]] # "read_dir" =>
                    \/ mshr'[HomeOf[s]].xf \/ mshr'[HomeOf[s]].uf
                    \/ memResp'[HomeOf[s]][i].data = latest'[mshr'[HomeOf[s]].addr]
    <3>1. PICK d \in CCE : d = HomeOf[s]
      BY ConstantsAssumption
    <3>2. ReqSet(d)' = s
      BY <2>1, <3>1 DEF Serving
    <3>3. OwnedElsewhere(d)' =>
            \E k \in LCE, w \in Way : OtherCopy(d, k, w)' /\ dir'[k][<<s, w>>].st \in Owned
      BY <3>2 DEF OwnedElsewhere
    <3>4. QED
      BY <2>1, <3>1, <3>3
  <2>2. QED
    BY <2>1 DEF SpecLatest
<1>1. CASE d # c
  BY <1>1, SpecOther
<1>2. CASE d = c /\ ~CceReadMemSpec(c)
  BY <1>2, SpecHeld
<1>3. CASE d = c /\ CceReadMemSpec(c)
  <2>1. /\ cceState[c] = "read_mem_spec" /\ cceState'[c] = "read_dir"
        /\ mshr' = mshr /\ dir' = dir /\ latest' = latest
    BY <1>3, FullParts DEF CceReadMemSpec, Goto, IInv, CceOK, CceTypeOK
  <2>2. ReqSet(c)' = s /\ ReqSet(c) = s /\ Serving(s)
    BY <1>3, <2>1 DEF Serving, ReqSet, Working, Cached
  <2>3. \A j \in Nat : ~ReadOf(s, j)
    <3>1. ReadFor
      BY FullParts DEF Base, SerialInv, SpecInv
    <3>2. cceState[HomeOf[s]] = "read_mem_spec"
      BY <1>3, <2>1
    <3>3. QED
      BY <2>2, <3>1, <3>2 DEF ReadFor
  <2>4. ReadsFrom(c, s)
    BY ReadMoves, FullParts DEF Base
  <2>5. PICK n, r : ReadNew(c, r) /\ i = n /\ memResp'[c][i] = r
    <3>1. ~\E k \in {0, 1} : \A e \in Nat : ReadOf(s, e)' =>
             /\ e + k \in Nat /\ ReadOf(s, e + k)
             /\ memResp'[HomeOf[s]][e] = memResp[HomeOf[s]][e + k]
      BY <2>3
    <3>2. QED
      BY <1>3, <2>4, <3>1 DEF ReadsFrom
  <2>6. memResp'[c][i].data = mem[mshr[c].addr]
    BY <2>5 DEF ReadNew
  <2>7. CASE mem[mshr[c].addr] = latest[mshr[c].addr]
    BY <1>3, <2>1, <2>6, <2>7
  <2>8. CASE mem[mshr[c].addr] # latest[mshr[c].addr]
    <3>1. OwnedElsewhere(c)
      BY <2>1, <2>8, ReadMissed DEF OwnedElsewhere
    <3>2. OwnedElsewhere(c)'
      BY <2>1, <2>2, <3>1 DEF OwnedElsewhere, OtherCopy, Copy
    <3>3. QED
      BY <1>3, <2>1, <3>2
  <2>9. QED
    BY <2>7, <2>8
<1>4. QED
  BY <1>1, <1>2, <1>3

(* ReadWaits, step of an engine.                                           *)
LEMMA ReadWaitsCce ==
  ASSUME Full, Base', NEW c \in CCE, CceStep(c)
  PROVE  ReadWaits'
<1> SUFFICES ASSUME NEW s \in Set, Serving(s)', cceState'[HomeOf[s]] # "read_mem_spec"
             PROVE  \E i \in Nat : ReadOf(s, i)'
  BY DEF ReadWaits
<1>1. PICK d \in CCE : d = HomeOf[s]
  BY ConstantsAssumption
<1>2. ReqSet(d)' = s /\ cceState'[d] \in Working
  BY <1>1 DEF Serving
<1>3. CASE d # c
  <2>1. cceState'[d] = cceState[d] /\ ReqSet(d)' = ReqSet(d) /\ memResp'[d] = memResp[d]
    BY <1>3, Elsewhere, CceOthers, FullParts
  <2>2. PICK i \in Nat : ReadOf(s, i)
    BY <1>1, <1>2, <2>1, FullParts DEF ReadWaits, Serving
  <2>3. ReadOf(s, i)'
    BY <1>1, <2>1, <2>2 DEF ReadOf
  <2>4. QED
    BY <2>3
<1>4. CASE d = c /\ CceReadMemSpec(c)
  <2>1. PICK r : MemAdded(c, r) /\ r.type = "rd" /\ r.addr = mshr[c].addr
    <3> DEFINE q == [type |-> "rd", addr |-> mshr[c].addr, lce |-> mshr[c].lce,
                     way |-> mshr[c].lru, data |-> mem[mshr[c].addr]]
    <3>1. MemAdded(c, q)
      BY <1>4 DEF CceReadMemSpec, MemCommand, MemAdded
    <3>2. q.type = "rd" /\ q.addr = mshr[c].addr
      OBVIOUS
    <3>3. QED
      BY <3>1, <3>2
  <2>2. mshr' = mshr
    BY <1>4 DEF CceReadMemSpec
  <2>3. PICK n \in Nat : n \in DOMAIN memResp'[c] /\ memResp'[c][n] = r
    BY <2>1, MemAddedFacts, FullParts
  <2>4. SetOf[r.addr] = s
    BY <1>2, <1>4, <2>1, <2>2 DEF ReqSet
  <2>5. ReadOf(s, n)'
    BY <1>1, <1>4, <2>1, <2>3, <2>4 DEF ReadOf
  <2>6. QED
    BY <2>5
<1>5. CASE d = c /\ ~CceReadMemSpec(c)
  <2>1. ~CceResolve(c)
    <3> SUFFICES ASSUME CceResolve(c)
                 PROVE  FALSE
      OBVIOUS
    <3>1. cceState'[c] = "ready"
      BY FullParts DEF CceResolve, Goto, IInv, CceOK, CceTypeOK
    <3>2. QED
      BY <1>2, <1>5, <3>1 DEF Working, Cached
  <2>2. Held(cceState[c]) /\ SameRequest(c)
    BY <1>1, <1>2, <1>5, <2>1, HeldMove, FullParts DEF Held, Base
  <2>3. s = ReqSet(c) /\ Serving(s) /\ cceState[c] # "read_mem_spec"
    BY <1>1, <1>2, <1>5, <2>2 DEF ReqSet, SameRequest, Serving, Held
  <2>4. PICK i \in Nat : ReadOf(s, i)
    BY <1>1, <1>5, <2>3, FullParts DEF ReadWaits
  <2>5. i \in DOMAIN memResp[c] /\ memResp[c][i].type = "rd" /\ SetOf[memResp[c][i].addr] = s
    BY <1>1, <1>5, <2>4 DEF ReadOf
  <2>6. specBits[s].spec
    BY <1>1, <1>5, <2>3, FullParts DEF Base, SerialInv, SpecInv, ReadHeld
  <2>7. CASE memResp' = memResp
    <3>1. ReadOf(s, i)'
      BY <2>4, <2>7 DEF ReadOf
    <3>2. QED
      BY <3>1
  <2>8. CASE MemTaken(c) /\ MemRespStep(c)
    <3>1. RespHead(c) = memResp[c][1]
      BY <2>8, MemTakenFacts, FullParts
    <3>2. i # 1
      <4> SUFFICES ASSUME i = 1
                   PROVE  FALSE
        OBVIOUS
      <4>1. RespHead(c).type = "rd" /\ SetOf[RespHead(c).addr] = s
        BY <2>5, <3>1
      <4>2. ~MemRespSquash(c) /\ ~MemRespFill(c)
        BY <2>6, <4>1 DEF MemRespSquash, MemRespFill
      <4>3. ~MemRespWriteback(c) /\ ~MemRespUncached(c)
        BY <4>1 DEF MemRespWriteback, MemRespUncached, UcOp
      <4>4. QED
        BY <2>8, <4>2, <4>3 DEF MemRespStep
    <3>3. i - 1 \in DOMAIN memResp'[c] /\ memResp'[c][i - 1] = memResp[c][i]
      BY <2>5, <2>8, <3>2, MemTakenFacts, FullParts
    <3>4. i # 0
      <4>1. memResp[c] \in Seq(MemResponse)
        BY FullParts DEF IInv, MemTypeOK
      <4>2. QED
        BY <2>5, <4>1
    <3>5. PICK j \in Nat : j = i - 1
      BY <3>4
    <3>6. ReadOf(s, j)'
      BY <1>1, <1>5, <2>5, <3>3, <3>5 DEF ReadOf
    <3>7. QED
      BY <3>6
  <2>9. CASE \E r : MemAdded(c, r)
    <3>1. i \in DOMAIN memResp'[c] /\ memResp'[c][i] = memResp[c][i]
      BY <2>5, <2>9, MemAddedFacts, FullParts
    <3>2. ReadOf(s, i)'
      BY <1>1, <1>5, <2>5, <3>1 DEF ReadOf
    <3>3. QED
      BY <3>2
  <2>10. QED
    BY <2>7, <2>8, <2>9, MemMoves, FullParts DEF Base
<1>6. QED
  BY <1>3, <1>4, <1>5

(* What an uncached access writes is no block.                             *)
LEMMA UncachedWrites ==
  ASSUME IInv, NEW c \in CCE, NEW r \in Request, UncachedAccess(c, r), NEW b \in Block
  PROVE  mem'[b] = mem[b]
<1>1. CASE r.op = "uc_wr"
  <2>1. mem' = [mem EXCEPT ![r.addr] = r.data]
    BY <1>1 DEF UncachedAccess
  <2>2. r.addr \in IoBlock
    BY <1>1, RequestFields DEF UcOp
  <2>3. r.addr # b /\ b \in Addr
    BY <2>2, ConstantsAssumption DEF Addr
  <2>4. QED
    BY <2>1, <2>3 DEF IInv, MemTypeOK
<1>2. CASE r.op # "uc_wr"
  BY <1>2 DEF UncachedAccess
<1>3. QED
  BY <1>1, <1>2

(* Memory takes the value of a write-back, or keeps its own.               *)
WrittenBack(c, m) ==
  /\ m \in respNet /\ m.type = "wb" /\ m.addr \in Block
  /\ mem' = [mem EXCEPT ![m.addr] = m.data]

(* Memory is written only by a write-back.                                 *)
LEMMA MemWritten ==
  ASSUME Base, NEW c \in CCE, CceStep(c), NEW b \in Block
  PROVE  mem'[b] = mem[b] \/ \E m : WrittenBack(c, m) /\ m.addr = b /\ mem'[b] = m.data
<1>1. CASE mem' = mem
  BY <1>1
<1>2. CASE CceUcReq(c) \/ \E l \in LCE : CceUncachedOnly(c, l)
  <2>1. PICK l \in LCE : /\ reqNet[<<l, c>>] # <<>>
                         /\ UncachedAccess(c, Head(reqNet[<<l, c>>]))
    BY <1>2 DEF CceUcReq, CceUncachedOnly, MshrReq, Base, IInv, ReqWF, Taking
  <2>2. reqNet[<<l, c>>] \in Seq(Request)
    BY DEF Base, IInv, NetTypeOK
  <2>3. Head(reqNet[<<l, c>>]) \in Request
    BY <2>1, <2>2
  <2>4. QED
    BY <2>1, <2>3, UncachedWrites DEF Base
<1>3. CASE \E m \in respNet : WritebackResp(c, m)
  <2>1. PICK m \in respNet : WritebackResp(c, m)
    BY <1>3
  <2>2. CASE m.type = "wb"
    <3>1. mem' = [mem EXCEPT ![m.addr] = m.data]
      BY <2>1, <2>2 DEF WritebackResp
    <3>2. m.addr \in Block
      BY <2>2, ResponseFields DEF Base, IInv, NetTypeOK
    <3>3. WrittenBack(c, m) /\ mem \in [Addr -> Data] /\ b \in Addr
      BY <2>2, <3>1, <3>2 DEF WrittenBack, Base, IInv, MemTypeOK, Addr
    <3>4. CASE m.addr = b
      BY <3>1, <3>3, <3>4
    <3>5. CASE m.addr # b
      BY <3>1, <3>3, <3>5
    <3>6. QED
      BY <3>4, <3>5
  <2>3. CASE m.type # "wb"
    BY <2>1, <2>3 DEF WritebackResp, memVars
  <2>4. QED
    BY <2>2, <2>3
<1>4. mem' = mem \/ CceUcReq(c) \/ (\E l \in LCE : CceUncachedOnly(c, l))
      \/ \E m \in respNet : WritebackResp(c, m)
  BY DEF CceStep, CceFsmStep, MemRespStep, MemDequeue, MemRespSquash, MemRespFill, MemRespWriteback,
       MemRespUncached, CohAck, CceReset, CceClearDir, ConfigNormal, CceLeaveUncached, CceSendSync,
       CceSyncAck, CceReady, CceReadPending, CceDeqReq, CceReadMemSpec, CceReadDir,
       CceWriteNextState, CceReplacement, CceReplacementWbResp, CceInvCmd, CceInvAck, CceUpgrade,
       CceTransfer, CceTransferWbResp, CceResolve, memVars
<1>5. QED
  BY <1>1, <1>2, <1>3, <1>4

(* A write-back leaves the network for memory only.                        *)
LEMMA WbTaken ==
  ASSUME Base, NEW c \in CCE, CceStep(c), NEW m \in respNet, m.type = "wb", m \notin respNet'
  PROVE  mem'[m.addr] = m.data
<1>1. ~CohAck(c) /\ ~CceInvAck(c)
  BY DEF CohAck, CceInvAck, TakeResp
<1>2. ~CceSyncAck(c)
  <2> SUFFICES ASSUME CceSyncAck(c)
               PROVE  FALSE
    OBVIOUS
  <2>1. cceState[c] = "sync_ack" /\ m.dst = c
    BY DEF CceSyncAck, TakeResp
  <2>2. QED
    BY <2>1, WbExpected DEF Base
<1>3. PICK n \in respNet : WritebackResp(c, n)
  BY <1>1, <1>2, RespBy DEF CceReplacementWbResp, CceTransferWbResp
<1>4. n = m
  BY <1>3 DEF WritebackResp, TakeResp
<1>5. mem' = [mem EXCEPT ![m.addr] = m.data]
  BY <1>3, <1>4 DEF WritebackResp
<1>6. m.addr \in Block
  BY ResponseFields DEF Base, IInv, NetTypeOK
<1>7. QED
  BY <1>5, <1>6 DEF Base, IInv, MemTypeOK, Addr

(* MemOwed, step of an engine.                                             *)
LEMMA MemOwedCce ==
  ASSUME Full, NEW c \in CCE, CceStep(c)
  PROVE  MemOwed'
<1> SUFFICES ASSUME NEW b \in Block, mem'[b] # latest'[b]
             PROVE  DirtyCopy(b)' \/ WbOwed(b)' \/ WbFlying(b)' \/ Moving(b)'
  BY DEF MemOwed
<1>1. UNCHANGED <<tag, line, dirty, lceState, lceCmd, miss, latest>>
  BY CceLeaves
<1>2. mem[b] # latest[b]
  <2>1. CASE mem'[b] = mem[b]
    BY <1>1, <2>1
  <2>2. ASSUME NEW m, WrittenBack(c, m), m.addr = b, mem'[b] = m.data
        PROVE  FALSE
    BY <1>1, <2>2, FullParts DEF WrittenBack, WbLatest
  <2>3. QED
    BY <2>1, <2>2, MemWritten, FullParts
<1>3. CASE DirtyCopy(b)
  BY <1>1, <1>3 DEF DirtyCopy, Hit
<1>4. CASE WbOwed(b)
  BY <1>1, <1>4 DEF WbOwed, Holds, CmdFrame
<1>5. CASE WbFlying(b)
  <2>1. PICK m \in respNet : m.type = "wb" /\ m.addr = b
    BY <1>5 DEF WbFlying
  <2>2. m \in respNet'
    <3> SUFFICES ASSUME m \notin respNet'
                 PROVE  FALSE
      OBVIOUS
    <3>1. mem'[b] = m.data
      BY <2>1, WbTaken, FullParts
    <3>2. m.data = latest[b]
      BY <2>1, FullParts DEF WbLatest
    <3>3. QED
      BY <1>1, <3>1, <3>2
  <2>3. QED
    BY <2>1, <2>2 DEF WbFlying
<1>6. CASE Moving(b)
  <2>1. PICK l \in LCE :
          /\ miss[l].op = "wr" /\ miss[l].addr = b
          /\ \/ miss[l].phase = "replay"
             \/ \E a \in {"cmd", "lce"} : \E x : Tok(a, x, 0, l, b, "cached")
    BY <1>6 DEF Moving
  <2>2. ASSUME NEW a \in {"cmd", "lce"}, NEW x, Tok(a, x, 0, l, b, "cached")
        PROVE  Tok(a, x, 0, l, b, "cached")'
    <3>1. CASE a = "cmd"
      <4>1. CmdTok(x, l, b, "cached")
        BY <2>2, <3>1 DEF Tok
      <4>2. CmdTok(x, l, b, "cached")'
        BY <4>1, CmdGrows DEF CmdTok, Carries, Target
      <4>3. QED
        BY <3>1, <4>2 DEF Tok
    <3>2. CASE a = "lce"
      <4>1. x \in LCE /\ LceTok(x, l, b, "cached")
        BY <2>2, <3>2 DEF Tok
      <4>2. LceTok(x, l, b, "cached")'
        BY <1>1, <4>1 DEF LceTok, Carries, Target
      <4>3. QED
        BY <3>2, <4>1, <4>2 DEF Tok
    <3>3. QED
      BY <3>1, <3>2
  <2>3. MovingTo(l, b)'
    BY <1>1, <2>1, <2>2 DEF MovingTo
  <2>4. QED
    BY <2>3 DEF Moving, MovingTo
<1>7. QED
  BY <1>2, <1>3, <1>4, <1>5, <1>6, FullParts DEF MemOwed

(* ValueInv, step of an engine.                                            *)
LEMMA ValueCce ==
  ASSUME Full, Base', NEW c \in CCE, CceStep(c)
  PROVE  ValueInv'
<1>1. CopyLatest' /\ BufLatest' /\ WbLatest' /\ MissKnown'
  BY QuietCce
<1>2. VictimLine' /\ GiveLine' /\ DataLatest'
  BY VictimLineCce, GiveLineCce, DataLatestCce
<1>3. MemLatest' /\ SpecLatest' /\ ReadWaits' /\ MemOwed'
  BY MemLatestCce, SpecLatestCce, ReadWaitsCce, MemOwedCce
<1>4. QED
  BY <1>1, <1>2, <1>3 DEF ValueInv

----------------------------------------------------------------------------
(* The invariant.                                                          *)

(* ValueInv holds at reset.                                                *)
LEMMA ValueInit ==
  ASSUME Init
  PROVE  ValueInv
<1>1. /\ \A l \in LCE : lceState[l] = "reset" /\ lceCmd[l] = None /\ miss[l].phase = "idle"
      /\ \A c \in CCE : cceState[c] = "reset" /\ memResp[c] = <<>>
      /\ cmdNet = {} /\ respNet = {}
  BY DEF Init, CceInit, LceInit, NoMiss
<1>2. \A l \in LCE : ~Past(l)
  BY <1>1 DEF Past
<1>3. \A m : ~Ready(m) /\ ~Present(m)
  BY <1>1 DEF Ready, Present
<1>4. CopyLatest /\ GiveLine /\ DataLatest
  BY <1>2, <1>3 DEF CopyLatest, GiveLine, DataLatest
<1>5. VictimLine /\ BufLatest /\ WbLatest /\ MissKnown
  BY <1>1 DEF VictimLine, Evicting, BufLatest, WbLatest, MissKnown
<1>6. MemLatest
  BY <1>1 DEF MemLatest, MemTok
<1>7. \A s \in Set : ~Serving(s)
  BY <1>1, ConstantsAssumption DEF Serving, Working, Cached
<1>8. SpecLatest /\ ReadWaits
  BY <1>7 DEF SpecLatest, ReadWaits
<1>9. MemOwed
  <2>1. \A b \in Block : mem[b] = InitData /\ latest[b] = InitData
    BY DEF Init, Addr
  <2>2. QED
    BY <2>1 DEF MemOwed
<1>10. QED
  BY <1>4, <1>5, <1>6, <1>8, <1>9 DEF ValueInv

(* ValueInv, when nothing changes.                                         *)
LEMMA ValueStutter ==
  ASSUME ValueInv, UNCHANGED vars
  PROVE  ValueInv'
<1>1. UNCHANGED <<cceState, mshr, dir, specBits, memResp, mem, lceState, lceCmd, dataBuf, miss,
                  tag, line, dirty, reqNet, cmdNet, respNet, latest>>
  BY DEF vars, cceVars, dirVars, memVars, cacheVars, lceVars, coreVars, netVars
<1>2. CopyLatest' /\ VictimLine' /\ GiveLine'
  BY <1>1, SMTT(40) DEF ValueInv, CopyLatest, VictimLine, GiveLine, Past, Tagged, Filling, Holds, CmdFrame,
     Evicting, ReqSet, Present
<1>3. BufLatest' /\ WbLatest' /\ DataLatest' /\ MissKnown'
  BY <1>1 DEF ValueInv, BufLatest, WbLatest, DataLatest, Ready, MissKnown
<1>4. MemLatest'
  BY <1>1 DEF ValueInv, MemLatest, MemTok, Released, Kind
<1>5. ReadWaits'
  BY <1>1 DEF ValueInv, ReadWaits, Serving, ReqSet, ReadOf
<1>6. SpecLatest'
  BY <1>1 DEF ValueInv, SpecLatest, Serving, ReqSet, ReadOf, OtherCopy, Copy
<1>7. \A b : /\ DirtyCopy(b) => DirtyCopy(b)'
             /\ WbOwed(b) => WbOwed(b)'
             /\ WbFlying(b) => WbFlying(b)'
  BY <1>1 DEF DirtyCopy, Hit, WbOwed, WbFlying, Holds, CmdFrame
<1>8. \A b : Moving(b) => Moving(b)'
  BY <1>1 DEF Moving, Tok, ReqTok, FsmTok, MemTok, CmdTok, LceTok
<1>9. MemOwed'
  BY <1>1, <1>7, <1>8 DEF ValueInv, MemOwed
<1>10. QED
  BY <1>2, <1>3, <1>4, <1>5, <1>6, <1>9 DEF ValueInv

(* ValueInv with all it rests on: every copy, victim, buffered line,       *)
(* write-back, fill and unsquashed read is the value stored last, and      *)
(* memory lacks it only while a cache owes it (bp_lce_cmd, bp_cce_fsm).    *)
THEOREM LatestHeld ==
  ASSUME StoresFollow
  PROVE  Spec => [](Sound /\ RightsInv /\ ValueInv)
<1>1. Init => ValueInv
  BY ValueInit
<1>2. /\ Sound /\ RightsInv /\ ValueInv
      /\ Sound' /\ RightsInv' /\ [Next]_vars
      => ValueInv'
  <2> SUFFICES ASSUME Sound, RightsInv, ValueInv, Sound', RightsInv', [Next]_vars
               PROVE  ValueInv'
    OBVIOUS
  <2>1. Full
    BY DEF Full, Rights
  <2>2. Base'
    BY DEF Sound
  <2>3. CASE \E c \in CCE : CceStep(c)
    BY <2>1, <2>2, <2>3, ValueCce
  <2>4. CASE \E l \in LCE : LceStep(l)
    BY <2>1, <2>4, ValueLce
  <2>5. CASE UNCHANGED vars
    BY <2>5, ValueStutter
  <2>6. QED
    BY <2>3, <2>4, <2>5 DEF Next
<1>3. Spec => [](Sound /\ RightsInv)
  BY RightsHeld
<1>4. QED
  BY <1>1, <1>2, <1>3, PTL DEF Spec

(* Memory is written only by a write-back, whose data are the last stored. *)
LEMMA WritesLatest ==
  ASSUME Full, [Next]_vars, NEW b \in Block, mem'[b] # mem[b]
  PROVE  mem'[b] = latest[b]
<1>1. PICK c \in CCE : CceStep(c)
  <2>1. \A l \in LCE : ~LceStep(l)
    BY LceLeaves
  <2>2. ~UNCHANGED vars
    BY DEF vars, memVars
  <2>3. QED
    BY <2>1, <2>2 DEF Next
<1>2. PICK m : WrittenBack(c, m) /\ m.addr = b /\ mem'[b] = m.data
  BY <1>1, FullParts, MemWritten
<1>3. QED
  BY <1>2, FullParts DEF WrittenBack, WbLatest

(* No late or repeated write-back overwrites a newer value: what the       *)
(* engine writes to memory is always the last value stored                 *)
(* (e_replacement_wb_resp and e_transfer_wb_resp of bp_cce_fsm).           *)
THEOREM WritesBackLatest ==
  ASSUME StoresFollow
  PROVE  Spec => WritebackIsLatest
<1>1. Sound /\ RightsInv /\ ValueInv /\ [Next]_vars
        => [\A b \in Block : mem'[b] # mem[b] => mem'[b] = latest[b]]_vars
  <2> SUFFICES ASSUME Sound, RightsInv, ValueInv, [Next]_vars, NEW b \in Block, mem'[b] # mem[b]
               PROVE  mem'[b] = latest[b]
    OBVIOUS
  <2>1. Full
    BY DEF Full, Rights
  <2>2. QED
    BY <2>1, WritesLatest
<1>2. QED
  BY <1>1, LatestHeld, PTL DEF Spec, WritebackIsLatest

----------------------------------------------------------------------------
(* Memory is current.                                                      *)

(* An engine that waits for a write-back has its set pending.              *)
LEMMA ServedPending ==
  ASSUME Full, NEW s \in Set, NEW c \in CCE, c = HomeOf[s], ReqSet(c) = s,
         cceState[c] \in {"replacement_wb_resp", "transfer_wb_resp"}
  PROVE  pending[s] # 0
<1>1. Serving(s)
  BY DEF Serving, Working, Cached
<1>2. PICK i \in Nat : ReadOf(s, i)
  BY <1>1, FullParts DEF ReadWaits
<1>3. QED
  BY <1>2, FullParts, ReadIsOp DEF Base

(* A set at rest owes memory nothing that no cache owns.                   *)
LEMMA NothingOwed ==
  ASSUME Full, NEW b \in Block, AtRest(SetOf[b]), \A l \in LCE : ~Permits(l, b, Owned)
  PROVE  mem[b] = latest[b]
<1> SUFFICES ASSUME mem[b] # latest[b]
             PROVE  FALSE
  OBVIOUS
<1>1. SetOf[b] \in Set /\ pending[SetOf[b]] = 0
  BY ConstantsAssumption DEF AtRest
<1>2. DirtyCopy(b) \/ WbOwed(b) \/ WbFlying(b) \/ Moving(b)
  BY FullParts DEF MemOwed
<1>3. CASE DirtyCopy(b)
  BY <1>3 DEF DirtyCopy, Permits
<1>4. CASE WbOwed(b)
  <2>1. PICK l \in LCE : Holds(l, {"st_wb", "st_tr_wb"}) /\ lceCmd[l].addr = b
    BY <1>4 DEF WbOwed
  <2>2. PICK m : m = lceCmd[l]
    OBVIOUS
  <2>3. Present(m) /\ m.type \in {"st_wb", "st_tr_wb"} /\ m.addr = b
    BY <2>1, <2>2 DEF Present, Holds
  <2>4. \E c \in CCE :
          /\ cceState[c] \in {"replacement_wb_resp", "transfer_wb_resp"}
          /\ SetOf[b] = ReqSet(c) /\ HomeOf[ReqSet(c)] = c
    BY <2>3, FullParts, PresentWb
  <2>5. QED
    BY <1>1, <2>4, ServedPending
<1>5. CASE WbFlying(b)
  <2>1. PICK m \in respNet : m.type = "wb" /\ m.addr = b
    BY <1>5 DEF WbFlying
  <2>2. m \in Response
    BY <2>1, FullParts DEF IInv, TypeOK, NetTypeOK
  <2>3. PICK c \in CCE : WbResp(c, m)
    BY <2>1, <2>2 DEF Response, WbResp
  <2>4. /\ cceState[c] \in {"replacement_wb_resp", "transfer_wb_resp"}
        /\ SetOf[b] = ReqSet(c) /\ HomeOf[ReqSet(c)] = c
    BY <2>1, <2>3, FullParts, WbMine DEF Base
  <2>5. QED
    BY <1>1, <2>4, ServedPending
<1>6. CASE Moving(b)
  <2>1. PICK l \in LCE :
          /\ miss[l].op = "wr" /\ miss[l].addr = b
          /\ \/ miss[l].phase = "replay"
             \/ \E a \in {"cmd", "lce"} : \E x : Tok(a, x, 0, l, b, "cached")
    BY <1>6 DEF Moving
  <2>2. CASE miss[l].phase = "replay"
    BY <2>1, <2>2, FullParts, RightsParts DEF ReplayOwns, Permits
  <2>3. CASE \E a \in {"cmd", "lce"} : \E x : Tok(a, x, 0, l, b, "cached")
    <3>1. l \in Open(SetOf[b])
      BY <2>3, FullParts, TokOpen
    <3>2. QED
      BY <1>1, <3>1, FullParts, Quiet DEF Base
  <2>4. QED
    BY <2>1, <2>2, <2>3
<1>7. QED
  BY <1>2, <1>3, <1>4, <1>5, <1>6

(* When a way group is at rest and nobody owns a block, memory holds the   *)
(* last value stored: no write-back was lost, skipped or overtaken         *)
(* (bp_cce_fsm, bp_lce_cmd).                                               *)
THEOREM MemoryIsCurrent ==
  ASSUME StoresFollow
  PROVE  Spec => []MemoryCurrent
<1>1. Sound /\ RightsInv /\ ValueInv => MemoryCurrent
  <2> SUFFICES ASSUME Sound, RightsInv, ValueInv
               PROVE  MemoryCurrent
    OBVIOUS
  <2>1. Full
    BY DEF Full, Rights
  <2>2. QED
    BY <2>1, NothingOwed DEF MemoryCurrent
<1>2. QED
  BY <1>1, LatestHeld, PTL

----------------------------------------------------------------------------
(* What the caches see of a block.                                         *)

(* What a cache sees of a block, and whether it may write it, frame by     *)
(* frame and over all the ways of its set.                                 *)
Seen(l, s, w, b) == Past(l) /\ Tagged(l, s, w, b) /\ ~Filling(l, <<s, w>>)
Owns(l, s, w, b) == Seen(l, s, w, b) /\ tag[l][<<s, w>>].st \in Owned
Sees(l, b) == \E w \in Way : Seen(l, SetOf[b], w, b)
Writes(l, b) == \E w \in Way : Owns(l, SetOf[b], w, b)
SameFrame(l, s, w) ==
  \A b : (Seen(l, s, w, b)' <=> Seen(l, s, w, b)) /\ (Owns(l, s, w, b)' <=> Owns(l, s, w, b))

(* A frame begins to be filled when the command reaches the cache.         *)
LEMMA FillBegins ==
  ASSUME Sound, NEW k \in LCE, LceStep(k), NEW l \in LCE, Past(l), NEW f, ~Filling(l, f), Filling(l, f)'
  PROVE  l = k /\ LceHead(k) /\ CmdFrame(k)' = f
<1>1. lceState'[l] = "ready" /\ Holds(l, {"data"})' /\ CmdFrame(l)' = f
  BY DEF Filling
<1>2. lceState'[l] # lceState[l] \/ lceCmd'[l] # lceCmd[l]
  BY DEF Filling, Holds, CmdFrame
<1>3. l = k
  BY <1>2, LceOthers, SoundParts
<1>4. lceState \in [LCE -> LceCmdStates] /\ lceCmd \in [LCE -> Command \cup {None}]
  BY SoundParts DEF Base, IInv, LceOK, LceTypeOK
<1>5. lceCmd'[k] # None
  BY <1>1, <1>3 DEF Holds
<1>6. ~LceSync(k) /\ ~LceInv(k) /\ ~LceUcStDone(k) /\ ~LceUcData(k) /\ ~LceCohAck(k) /\ ~LceWbDirtySend(k)
  BY <1>4, <1>5 DEF LceSync, LceInv, LceUcStDone, LceUcData, LceCohAck, LceWbDirtySend, Dequeue
<1>7. ~LceData(k) /\ ~LceStWakeup(k) /\ ~LceStWb(k) /\ ~LceStTr(k) /\ ~LceWbStatRd(k) /\ ~LceWbDirtyRd(k)
  BY <1>1, <1>3, <1>4 DEF LceData, LceStWakeup, LceStWb, LceStTr, LceWbStatRd, LceWbDirtyRd, LceGoto
<1>8. ~LceReset(k) /\ ~LceClear(k)
  BY <1>3 DEF LceReset, LceClear, Past
<1>9. ~LceTr(k)
  <2> SUFFICES ASSUME LceTr(k)
               PROVE  FALSE
    OBVIOUS
  <2>1. LceGoto(k, "wb_stat_rd") \/ Dequeue(k)
    BY DEF LceTr
  <2>2. QED
    BY <2>1, <1>1, <1>3, <1>4, <1>5 DEF LceGoto, Dequeue
<1>10. ~LceWb(k)
  <2> SUFFICES ASSUME LceWb(k)
               PROVE  FALSE
    OBVIOUS
  <2>1. LceGoto(k, "wb_dirty_rd") \/ Dequeue(k)
    BY DEF LceWb
  <2>2. QED
    BY <2>1, <1>1, <1>3, <1>4, <1>5 DEF LceGoto, Dequeue
<1>11. LceHead(k)
  BY <1>2, <1>3, <1>6, <1>7, <1>8, <1>9, <1>10, LceStateBy, LceCmdBy
<1>12. QED
  BY <1>1, <1>3, <1>11

(* The frame an engine works on in its step.                               *)
Works(k, f) ==
  Past(k) /\ (LceHead(k) => CmdFrame(k)' = f) /\ (~LceHead(k) => CmdFrame(k) = f)

(* A step changes what is seen in one frame at most.                       *)
LEMMA SeenMoves ==
  ASSUME Full, NEW k \in LCE, LceStep(k), NEW l \in LCE, NEW s \in Set, NEW w \in Way
  PROVE  SameFrame(l, s, w) \/ (l = k /\ Works(k, <<s, w>>))
<1>1. CASE ~Past(l)
  <2>1. ~Past(l)' \/ tag'[l][<<s, w>>].st = "I"
    <3> SUFFICES ASSUME Past(l)'
                 PROVE  tag'[l][<<s, w>>].st = "I"
      OBVIOUS
    <3>1. LceClear(k) /\ l = k
      <4>1. lceState'[l] # lceState[l]
        BY <1>1 DEF Past
      <4>2. l = k
        BY <4>1, LceOthers, FullParts DEF Base
      <4>3. ~LceReset(k)
        BY <4>2, FullParts DEF LceReset, Past, LceGoto, IInv, LceOK, LceTypeOK
      <4>4. QED
        BY <4>1, <4>2, <4>3, <1>1, LceStateBy DEF Past, LceClear, LceData, LceStWakeup, LceStWb,
          LceStTr, LceCohAck, LceTr, LceWbStatRd, LceWb, LceWbDirtyRd, LceWbDirtySend, Executes
    <3>2. tag \in [LCE -> [Frame -> Line]] /\ <<s, w>> \in Frame
      BY FullParts DEF IInv, CacheTypeOK, Frame
    <3>3. QED
      BY <3>1, <3>2 DEF LceClear
  <2>2. QED
    BY <1>1, <2>1 DEF SameFrame, Seen, Owns, Tagged
<1>2. CASE Past(l)
  <2>1. Past(l)'
    BY <1>2, PastStays, FullParts
  <2>2. CASE Filling(l, <<s, w>>) /\ ~Filling(l, <<s, w>>)'
    <3>1. l = k /\ LceData(k) /\ CmdFrame(k) = <<s, w>>
      BY <2>2, FillEnds, FullParts
    <3>2. ~LceHead(k)
      BY <3>1 DEF LceData, LceHead, Executes, Holds
    <3>3. QED
      BY <1>2, <3>1, <3>2 DEF Works
  <2>3. CASE ~Filling(l, <<s, w>>) /\ Filling(l, <<s, w>>)'
    BY <1>2, <2>3, FillBegins, FullParts DEF Works
  <2>4. CASE Filling(l, <<s, w>>) <=> Filling(l, <<s, w>>)'
    <3>1. CASE tag'[l][<<s, w>>].st = tag[l][<<s, w>>].st /\ tag'[l][<<s, w>>].blk = tag[l][<<s, w>>].blk
      BY <1>2, <2>1, <2>4, <3>1 DEF SameFrame, Seen, Owns, Tagged
    <3>2. ASSUME l = k, NEW m, Doing(k, m, s, w)
          PROVE  Works(k, <<s, w>>)
      <4>1. CmdFrame(k) = <<s, w>>
        BY <3>2 DEF Doing, CmdFrame, FrameOf
      <4>2. ~LceHead(k)
        BY <3>2 DEF Doing, LceHead
      <4>3. QED
        BY <4>1, <4>2, <3>2, <1>2 DEF Works
    <3>3. QED
      BY <1>2, <3>1, <3>2, TagChange, FullParts
  <2>5. QED
    BY <2>2, <2>3, <2>4
<1>3. QED
  BY <1>1, <1>2

(* An engine does not replace the copy of one block by that of another in  *)
(* one step: while a fill is held its frame holds no copy.                 *)
LEMMA SeenSame ==
  ASSUME Full, NEW k \in LCE, LceStep(k), NEW s \in Set, NEW w \in Way, NEW a, NEW b,
         Seen(k, s, w, a), Seen(k, s, w, b)'
  PROVE  a = b
<1>1. Past(k) /\ Tagged(k, s, w, a) /\ ~Filling(k, <<s, w>>)
  BY DEF Seen
<1>2. tag'[k][<<s, w>>].blk = b
  BY DEF Seen, Tagged
<1>3. CASE tag'[k][<<s, w>>].blk = tag[k][<<s, w>>].blk
  BY <1>1, <1>2, <1>3 DEF Tagged
<1>4. ASSUME NEW m, Doing(k, m, s, w),
             Outcome(k, m, s, w, tag'[k][<<s, w>>].blk, tag'[k][<<s, w>>].st)
      PROVE  a = b
  <2>1. m.type # "data"
    BY <1>1, <1>4 DEF Doing, Filling, Holds, CmdFrame, FrameOf
  <2>2. tag'[k][<<s, w>>].blk = tag[k][<<s, w>>].blk
    BY <1>4, <2>1 DEF Outcome
  <2>3. QED
    BY <2>2, <1>3
<1>5. QED
  BY <1>3, <1>4, TagChange, FullParts

(* Cache l sees of block a what it saw.                                    *)
SameBlock(l, a) == (Sees(l, a)' <=> Sees(l, a)) /\ (Writes(l, a)' <=> Writes(l, a))

(* What is seen of a block changes only in a frame.                        *)
LEMMA FramesBlock ==
  ASSUME NEW l, NEW a, \A w \in Way : SameFrame(l, SetOf[a], w)
  PROVE  SameBlock(l, a)
BY DEF SameBlock, Sees, Writes, SameFrame

(* A step of a cache changes nothing other caches see.                     *)
LEMMA OthersSame ==
  ASSUME Full, NEW k \in LCE, LceStep(k), NEW l \in LCE, l # k, NEW a \in Block
  PROVE  SameBlock(l, a)
<1>1. SetOf[a] \in Set
  BY ConstantsAssumption
<1>2. QED
  BY <1>1, SeenMoves, FramesBlock

(* Nor what it sees itself of more than one block.                         *)
LEMMA OneBlock ==
  ASSUME Full, Base', NEW k \in LCE, LceStep(k)
  PROVE  \/ \A a \in Block : SameBlock(k, a)
         \/ \E b \in Block : \A a \in Block : a # b => SameBlock(k, a)
<1>0. \A a \in Block : SetOf[a] \in Set
  BY ConstantsAssumption
<1>1. CASE \A s \in Set, w \in Way : SameFrame(k, s, w)
  BY <1>0, <1>1, FramesBlock
<1>2. ASSUME NEW s \in Set, NEW w \in Way, ~SameFrame(k, s, w)
      PROVE  \E b \in Block : \A a \in Block : a # b => SameBlock(k, a)
  <2>1. \A t \in Set, v \in Way : ~(t = s /\ v = w) => SameFrame(k, t, v)
    BY <1>2, SeenMoves DEF Works
  <2>2. PICK b : Seen(k, s, w, b) \/ Seen(k, s, w, b)'
    BY <1>2 DEF SameFrame, Owns
  <2>3. b \in Block
    <3>1. <<s, w>> \in Frame /\ tag \in [LCE -> [Frame -> Line]] /\ tag' \in [LCE -> [Frame -> Line]]
      BY FullParts DEF Base, IInv, CacheTypeOK, Frame
    <3>2. tag[k][<<s, w>>].blk \in Block /\ tag'[k][<<s, w>>].blk \in Block
      BY <3>1 DEF Line
    <3>3. QED
      BY <2>2, <3>2 DEF Seen, Tagged
  <2>4. ASSUME NEW a \in Block, a # b
        PROVE  SameBlock(k, a)
    <3>1. ~Seen(k, s, w, a) /\ ~Seen(k, s, w, a)'
      <4>1. CASE Seen(k, s, w, b)
        <5>1. ~Seen(k, s, w, a)
          BY <2>4, <4>1 DEF Seen, Tagged
        <5>2. ~Seen(k, s, w, a)'
          BY <2>4, <4>1, SeenSame
        <5>3. QED
          BY <5>1, <5>2
      <4>2. CASE Seen(k, s, w, b)'
        <5>1. ~Seen(k, s, w, a)'
          BY <2>4, <4>2 DEF Seen, Tagged
        <5>2. ~Seen(k, s, w, a)
          BY <2>4, <4>2, SeenSame
        <5>3. QED
          BY <5>1, <5>2
      <4>3. QED
        BY <2>2, <4>1, <4>2
    <3>2. \A v \in Way :
            /\ Seen(k, SetOf[a], v, a)' <=> Seen(k, SetOf[a], v, a)
            /\ Owns(k, SetOf[a], v, a)' <=> Owns(k, SetOf[a], v, a)
      BY <1>0, <2>1, <3>1 DEF SameFrame, Owns
    <3>3. QED
      BY <3>2 DEF SameBlock, Sees, Writes
  <2>5. QED
    BY <2>3, <2>4
<1>3. QED
  BY <1>1, <1>2

(* The abstract memory's variables, in terms of what the caches see.       *)
ViewsLatest ==
  \A l \in LCE, b \in Block : View(l, b) = IF Sees(l, b) THEN latest[b] ELSE None
WritersOwn ==
  \A l \in LCE, b \in Block : (\E w \in Way : Readable(l, b, w, Owned)) <=> Writes(l, b)
WritersAlone ==
  \A l, k \in LCE, b \in Block : Writes(l, b) => Sees(l, b) /\ (Sees(k, b) => k = l)
Mapped == ViewsLatest /\ WritersOwn /\ WritersAlone /\ latest \in [Block -> Data]

(* What the abstract memory is shown, in these terms.                      *)
LEMMA ReadableIs ==
  ASSUME Full, NEW l \in LCE, NEW b \in Block, NEW w \in Way
  PROVE  /\ Readable(l, b, w, Valid) <=> Seen(l, SetOf[b], w, b)
         /\ Readable(l, b, w, Owned) <=> Owns(l, SetOf[b], w, b)
<1>1. <<SetOf[b], w>> \in Frame /\ tag \in [LCE -> [Frame -> Line]]
  BY ConstantsAssumption, FullParts DEF IInv, CacheTypeOK, Frame
<1>2. tag[l][<<SetOf[b], w>>].st \in CohState
  BY <1>1 DEF Line
<1>3. tag[l][<<SetOf[b], w>>].st \in Valid <=> tag[l][<<SetOf[b], w>>].st # "I"
  BY <1>2 DEF CohState, Valid
<1>4. tag[l][<<SetOf[b], w>>].st \in Owned => tag[l][<<SetOf[b], w>>].st # "I"
  BY DEF Owned
<1>5. QED
  BY <1>3, <1>4 DEF Readable, Hit, Seen, Owns, Past, Tagged, FrameOf

(* Mapped follows from the invariants.                                     *)
LEMMA MappedHolds ==
  ASSUME Full
  PROVE  Mapped
<1>1. ViewsLatest
  <2> SUFFICES ASSUME NEW l \in LCE, NEW b \in Block
               PROVE  View(l, b) = IF Sees(l, b) THEN latest[b] ELSE None
    BY DEF ViewsLatest
  <2>1. Sees(l, b) <=> \E w \in Way : Readable(l, b, w, Valid)
    BY ReadableIs DEF Sees
  <2>2. CASE Sees(l, b)
    <3>1. PICK w \in Way : w = CHOOSE v \in Way : Readable(l, b, v, Valid)
      BY <2>1, <2>2
    <3>2. Readable(l, b, w, Valid)
      BY <2>1, <2>2, <3>1
    <3>3. Seen(l, SetOf[b], w, b)
      BY <3>2, ReadableIs
    <3>4. line[l][<<SetOf[b], w>>] = latest[b]
      BY <3>3, FullParts, ConstantsAssumption DEF Seen, CopyLatest
    <3>5. QED
      BY <2>1, <2>2, <3>1, <3>4 DEF View, FrameOf
  <2>3. CASE ~Sees(l, b)
    BY <2>1, <2>3 DEF View
  <2>4. QED
    BY <2>2, <2>3
<1>2. WritersOwn
  BY ReadableIs DEF WritersOwn, Writes
<1>3. WritersAlone
  <2>1. \A b \in Block : SetOf[b] \in Set
    BY ConstantsAssumption
  <2>2. QED
    BY <2>1, FullParts, SoundParts DEF WritersAlone, Writes, Sees, Owns, Seen, TagOwner
<1>4. QED
  BY <1>1, <1>2, <1>3, FullParts DEF Mapped, IInv, LatestOK

----------------------------------------------------------------------------
(* The abstract memory.                                                    *)

(* The values the refinement gives the abstract memory's variables.        *)
Copies == [l \in LCE |-> [b \in Block |-> View(l, b)]]
Writers == [l \in LCE |-> {b \in Block : \E w \in Way : Readable(l, b, w, Owned)}]
Kept(k, b) == \A l \in LCE, a \in Block : l # k \/ a # b => SameBlock(l, a)

(* The abstract copies and writers, of one cache and block.                *)
LEMMA CopiesAre ==
  ASSUME Mapped, Mapped', NEW l \in LCE, NEW b \in Block
  PROVE  /\ Copies[l][b] = IF Sees(l, b) THEN latest[b] ELSE None
         /\ Copies'[l][b] = IF Sees(l, b)' THEN latest'[b] ELSE None
         /\ b \in Writers[l] <=> Writes(l, b)
         /\ b \in Writers'[l] <=> Writes(l, b)'
<1>1. /\ View(l, b) = IF Sees(l, b) THEN latest[b] ELSE None
      /\ View(l, b)' = IF Sees(l, b)' THEN latest'[b] ELSE None
  BY DEF Mapped, ViewsLatest
<1>2. /\ (\E w \in Way : Readable(l, b, w, Owned)) <=> Writes(l, b)
      /\ (\E w \in Way : Readable(l, b, w, Owned)') <=> Writes(l, b)'
  BY DEF Mapped, WritersOwn
<1>3. QED
  BY <1>1, <1>2 DEF Copies, Writers

(* They stay where nothing is seen to change.                              *)
LEMMA CopiesKept ==
  ASSUME Mapped, Mapped', latest' = latest, NEW l \in LCE, NEW b \in Block, SameBlock(l, b)
  PROVE  Copies'[l][b] = Copies[l][b] /\ (b \in Writers'[l] <=> b \in Writers[l])
BY CopiesAre DEF SameBlock

(* They are functions.                                                     *)
LEMMA CopiesForm ==
  /\ Copies = [l \in LCE |-> [b \in Block |-> Copies[l][b]]]
  /\ Copies' = [l \in LCE |-> [b \in Block |-> Copies'[l][b]]]
  /\ Writers = [l \in LCE |-> Writers[l]] /\ \A l \in LCE : Writers[l] \subseteq Block
  /\ Writers' = [l \in LCE |-> Writers'[l]] /\ \A l \in LCE : Writers'[l] \subseteq Block
BY DEF Copies, Writers

(* Only what cache k sees of block b changes.                              *)
LEMMA CopiesChange ==
  ASSUME Mapped, Mapped', latest' = latest, NEW k \in LCE, NEW b \in Block, Kept(k, b)
  PROVE  /\ \A x : Copies'[k][b] = x => Copies' = [Copies EXCEPT ![k][b] = x]
         /\ Copies'[k][b] = Copies[k][b] => Copies' = Copies
         /\ b \in Writers'[k] => Writers' = [Writers EXCEPT ![k] = @ \cup {b}]
         /\ b \notin Writers'[k] => Writers' = [Writers EXCEPT ![k] = @ \ {b}]
         /\ (b \in Writers'[k] <=> b \in Writers[k]) => Writers' = Writers
<1>1. \A l \in LCE, a \in Block : l # k \/ a # b =>
        Copies'[l][a] = Copies[l][a] /\ (a \in Writers'[l] <=> a \in Writers[l])
  BY CopiesKept DEF Kept
<1>2. \A x : Copies'[k][b] = x => Copies' = [Copies EXCEPT ![k][b] = x]
  BY <1>1, CopiesForm
<1>3. Copies'[k][b] = Copies[k][b] => Copies' = Copies
  BY <1>1, CopiesForm
<1>4. \A l \in LCE : l # k => Writers'[l] = Writers[l]
  BY <1>1, CopiesForm
<1>5. b \in Writers'[k] => Writers'[k] = Writers[k] \cup {b}
  BY <1>1, CopiesForm
<1>6. b \notin Writers'[k] => Writers'[k] = Writers[k] \ {b}
  BY <1>1, CopiesForm
<1>7. (b \in Writers'[k] <=> b \in Writers[k]) => Writers'[k] = Writers[k]
  <2> SUFFICES ASSUME b \in Writers'[k] <=> b \in Writers[k]
               PROVE  Writers'[k] = Writers[k]
    OBVIOUS
  <2>1. \A a \in Block : a \in Writers'[k] <=> a \in Writers[k]
    BY <1>1
  <2>2. Writers[k] \subseteq Block /\ Writers'[k] \subseteq Block
    BY CopiesForm
  <2>3. QED
    BY <2>1, <2>2
<1>8. QED
  BY <1>2, <1>3, <1>4, <1>5, <1>6, <1>7, CopiesForm

(* A step after which the cache sees the block, and has lost no right, is  *)
(* a Grant.                                                                *)
LEMMA StepGrant ==
  ASSUME Mapped, Mapped', latest' = latest, NEW k \in LCE, NEW b \in Block, Kept(k, b),
         Sees(k, b)', Writes(k, b) => Writes(k, b)'
  PROVE  Memory!Grant(k, b)
<1>1. Copies' = [Copies EXCEPT ![k][b] = latest[b]]
  BY CopiesAre, CopiesChange
<1>2. \A l \in LCE : l # k => SameBlock(l, b)
  BY DEF Kept
<1>3. \A l \in LCE \ {k} : b \notin Writers[l]
  BY <1>2, CopiesAre DEF SameBlock, Mapped, WritersAlone
<1>4. \/ Writers' = Writers
      \/ /\ \A l \in LCE \ {k} : Copies[l][b] = None
         /\ Writers' = [Writers EXCEPT ![k] = @ \cup {b}]
  <2>1. CASE Writes(k, b)' <=> Writes(k, b)
    BY <2>1, CopiesAre, CopiesChange
  <2>2. CASE Writes(k, b)' /\ ~Writes(k, b)
    <3>1. \A l \in LCE \ {k} : ~Sees(l, b)
      BY <1>2, <2>2 DEF SameBlock, Mapped, WritersAlone
    <3>2. QED
      BY <2>2, <3>1, CopiesAre, CopiesChange
  <2>3. QED
    BY <2>1, <2>2
<1>5. QED
  BY <1>1, <1>3, <1>4 DEF Memory!Grant, Copies, Writers

(* A step that takes a copy, or the right to write it, is a Revoke.        *)
LEMMA StepRevoke ==
  ASSUME Mapped, Mapped', latest' = latest, NEW k \in LCE, NEW b \in Block, Kept(k, b),
         ~Writes(k, b)', Sees(k, b)' => Sees(k, b)
  PROVE  Memory!Revoke(k, b)
<1>1. Copies' \in {Copies, [Copies EXCEPT ![k][b] = None]}
  <2>1. CASE Sees(k, b)' <=> Sees(k, b)
    BY <2>1, CopiesAre, CopiesChange
  <2>2. CASE ~Sees(k, b)'
    BY <2>2, CopiesAre, CopiesChange
  <2>3. QED
    BY <2>1, <2>2
<1>2. Writers' = [Writers EXCEPT ![k] = @ \ {b}]
  BY CopiesAre, CopiesChange
<1>3. QED
  BY <1>1, <1>2 DEF Memory!Revoke, Copies, Writers

(* A step after which every cache sees the same is none of the abstract    *)
(* memory.                                                                 *)
LEMMA StepStutter ==
  ASSUME Mapped, Mapped', latest' = latest, \A l \in LCE, a \in Block : SameBlock(l, a)
  PROVE  UNCHANGED Memory!vars
<1>1. Copies' = Copies /\ Writers' = Writers
  BY CopiesKept, CopiesForm
<1>2. QED
  BY <1>1 DEF Memory!vars, Copies, Writers

(* A store is a Write.                                                     *)
LEMMA StepWrite ==
  ASSUME Full, Mapped, Mapped', NEW k, NEW s, NEW w, NEW b, NEW d, StoreStep(k, s, w, b, d)
  PROVE  Memory!Write(k, b, d) /\ k \in LCE /\ b \in Block /\ d \in Data
<1>1. /\ Stored(k, s, w, b) /\ d \in Data /\ latest' = [latest EXCEPT ![b] = d]
      /\ UNCHANGED <<tag, lceState, lceCmd>>
  BY StoreFrame DEF StoreStep
<1>2. k \in LCE /\ b \in Block /\ w \in Way /\ s = SetOf[b]
  BY <1>1 DEF Stored
<1>3. \A l \in LCE, a \in Block : SameBlock(l, a)
  BY <1>1 DEF SameBlock, Sees, Writes, Owns, Seen, Past, Tagged, Filling, Holds, CmdFrame
<1>4. ~Filling(k, <<s, w>>)
  <2> SUFFICES ASSUME Filling(k, <<s, w>>)
               PROVE  FALSE
    OBVIOUS
  <2>1. lceState[k] = "ready" /\ Holds(k, {"data"})
    BY DEF Filling
  <2>2. lceCmd[k] \in Command /\ lceCmd[k].type = "data" /\ lceCmd[k].dst = k
    BY <1>2, <2>1, Lces, FullParts DEF Holds
  <2>3. lceCmd[k].addr \in Block
    BY <2>2, CommandFields
  <2>4. Tok("lce", k, 0, k, lceCmd[k].addr, "cached")
    BY <1>2, <2>1, <2>2 DEF Tok, LceTok, Carries, Holds, Sources, Passed, Target, Kind
  <2>5. miss[k].phase = "sent"
    BY <1>2, <2>3, <2>4, TokOpen, FullParts
  <2>6. QED
    BY <1>1, <2>5 DEF Stored
<1>5. Writes(k, b)
  BY <1>1, <1>2, <1>4 DEF Writes, Owns, Seen, Stored
<1>6. Sees(k, b) /\ \A l \in LCE \ {k} : ~Sees(l, b)
  BY <1>2, <1>5 DEF Mapped, WritersAlone
<1>7. b \in Writers[k] /\ \A l \in LCE \ {k} : Copies[l][b] = None
  BY <1>2, <1>5, <1>6, CopiesAre
<1>8. Writers' = Writers
  <2>1. \A l \in LCE : \A a \in Block : a \in Writers'[l] <=> a \in Writers[l]
    BY <1>3, CopiesAre DEF SameBlock
  <2>2. \A l \in LCE : Writers'[l] = Writers[l]
    BY <2>1, CopiesForm
  <2>3. QED
    BY <2>2, CopiesForm
<1>9. Copies' = [Copies EXCEPT ![k][b] = d]
  <2>1. latest'[b] = d /\ \A a \in Block : a # b => latest'[a] = latest[a]
    BY <1>1, <1>2 DEF Mapped
  <2>2. Copies'[k][b] = d
    BY <1>2, <1>3, <1>6, <2>1, CopiesAre DEF SameBlock
  <2>3. \A l \in LCE, a \in Block : l # k \/ a # b => Copies'[l][a] = Copies[l][a]
    <3> SUFFICES ASSUME NEW l \in LCE, NEW a \in Block, l # k \/ a # b
                 PROVE  Copies'[l][a] = Copies[l][a]
      OBVIOUS
    <3>1. CASE a # b
      BY <3>1, <1>3, <2>1, CopiesAre DEF SameBlock
    <3>2. CASE a = b /\ l # k
      BY <3>2, <1>3, <1>6, CopiesAre DEF SameBlock
    <3>3. QED
      BY <3>1, <3>2
  <2>4. QED
    BY <1>2, <2>2, <2>3, CopiesForm
<1>10. QED
  BY <1>1, <1>2, <1>7, <1>8, <1>9 DEF Memory!Write, Copies, Writers

(* Every other step of a cache grants, revokes, or stutters.               *)
LEMMA StepPlain ==
  ASSUME Full, Base', Mapped, Mapped', NEW k \in LCE, PlainStep(k)
  PROVE  (\E b \in Block : Memory!Grant(k, b) \/ Memory!Revoke(k, b)) \/ UNCHANGED Memory!vars
<1>1. LceStep(k) /\ latest' = latest
  BY DEF PlainStep
<1>2. CASE \A a \in Block : SameBlock(k, a)
  BY <1>1, <1>2, OthersSame, StepStutter
<1>3. ASSUME NEW b \in Block, \A a \in Block : a # b => SameBlock(k, a)
      PROVE  Memory!Grant(k, b) \/ Memory!Revoke(k, b)
  <2>1. Kept(k, b)
    BY <1>1, <1>3, OthersSame DEF Kept
  <2>2. (Writes(k, b) => Sees(k, b)) /\ (Writes(k, b)' => Sees(k, b)')
    BY DEF Mapped, WritersAlone
  <2>3. CASE Sees(k, b)' /\ (Writes(k, b) => Writes(k, b)')
    BY <1>1, <2>1, <2>3, StepGrant
  <2>4. CASE ~(Sees(k, b)' /\ (Writes(k, b) => Writes(k, b)'))
    BY <1>1, <2>1, <2>2, <2>4, StepRevoke
  <2>5. QED
    BY <2>3, <2>4
<1>4. QED
  BY <1>1, <1>2, <1>3, OneBlock

(* Nothing changes while the tags, the lines and the states of the caches  *)
(* stay.                                                                   *)
LEMMA StepQuiet ==
  ASSUME Mapped, Mapped', UNCHANGED <<tag, lceState, lceCmd, latest>>
  PROVE  UNCHANGED Memory!vars
<1>1. \A l \in LCE, a \in Block : SameBlock(l, a)
  BY DEF SameBlock, Sees, Writes, Owns, Seen, Past, Tagged, Filling, Holds, CmdFrame
<1>2. QED
  BY <1>1, StepStutter

(* Every step of the system is one of the abstract memory, or none.        *)
LEMMA StepMaps ==
  ASSUME Full, Base', Mapped, Mapped', [Next]_vars
  PROVE  Memory!Next \/ UNCHANGED Memory!vars
<1>1. ASSUME NEW k \in LCE, LceStep(k)
      PROVE  Memory!Next \/ UNCHANGED Memory!vars
  <2>1. CASE PlainStep(k)
    BY <1>1, <2>1, StepPlain DEF Memory!Next
  <2>2. CASE \E s, w, b, d : StoreStep(k, s, w, b, d)
    BY <2>2, StepWrite DEF Memory!Next
  <2>3. QED
    BY <1>1, <2>1, <2>2, LceKinds
<1>2. ASSUME NEW c \in CCE, CceStep(c)
      PROVE  UNCHANGED Memory!vars
  BY <1>2, CceLeaves, StepQuiet
<1>3. CASE UNCHANGED vars
  BY <1>3, StepQuiet DEF vars, cacheVars, lceVars
<1>4. QED
  BY <1>1, <1>2, <1>3 DEF Next

(* The system starts as the abstract memory does.                          *)
LEMMA InitMaps ==
  ASSUME Init
  PROVE  Memory!Init
<1>1. \A l \in LCE : lceState[l] = "reset"
  BY DEF Init, LceInit
<1>2. \A l \in LCE, b \in Block, w \in Way : ~Readable(l, b, w, Valid) /\ ~Readable(l, b, w, Owned)
  BY <1>1 DEF Readable, Hit
<1>3. \A l \in LCE, b \in Block : View(l, b) = None
  BY <1>2 DEF View
<1>4. latest = [b \in Block |-> InitData]
  BY DEF Init
<1>5. QED
  BY <1>2, <1>3, <1>4 DEF Memory!Init

(* The engines, the caches, the networks and the memory implement one      *)
(* atomic location per block: every fill is a Grant of the last value,     *)
(* every command that takes a copy a Revoke, every store a Write by the    *)
(* only holder (bp_lce_cmd, bp_cce_fsm, bp_be_dcache).                     *)
THEOREM CoherentMemoryImplemented ==
  ASSUME StoresFollow
  PROVE  Spec => ImplementsCoherentMemory
<1>1. Init => Memory!Init
  BY InitMaps
<1>2. Sound /\ RightsInv /\ ValueInv => Mapped
  BY MappedHolds DEF Full, Rights
<1>3. /\ Sound /\ RightsInv /\ ValueInv /\ Mapped
      /\ Sound' /\ Mapped' /\ [Next]_vars
      => [Memory!Next]_Memory!vars
  BY StepMaps DEF Full, Rights, Sound
<1>4. QED
  BY <1>1, <1>2, <1>3, LatestHeld, PTL DEF Spec, ImplementsCoherentMemory, Memory!Spec
=============================================================================
