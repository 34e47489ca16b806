---------------------- MODULE BedRockCoherenceProofs ----------------------
(***************************************************************************)
(* The caches stay coherent: at most one cache may write a block, and no   *)
(* other may read it then. CountInv of BedRockInvariant, that              *)
(* invalidations are counted exactly and every response is one its engine  *)
(* waits for, and CohInv, that the directory and the tags of the caches    *)
(* differ only by the commands under way, are invariants of the coherence  *)
(* system, for every number of caches, engines, blocks, sets, ways and     *)
(* credits.                                                                *)
(***************************************************************************)
EXTENDS BedRockSerialProofs

----------------------------------------------------------------------------
(* Invalidations and their acknowledgements.                               *)

BalSame(d) == InvsOf(d)' = InvsOf(d) /\ HeldInvs(d)' = HeldInvs(d)
BalSent(d) ==
  /\ HeldInvs(d)' = HeldInvs(d)
  /\ \E m : m \notin InvsOf(d) /\ InvsOf(d)' = InvsOf(d) \cup {m}
BalDone(d) ==
  /\ HeldInvs(d)' = HeldInvs(d)
  /\ \E m : m \in InvsOf(d) /\ InvsOf(d)' = InvsOf(d) \ {m}
BalTaken(l, d) ==
  /\ l \notin HeldInvs(d) /\ HeldInvs(d)' = HeldInvs(d) \cup {l}
  /\ \E m : m \in InvsOf(d) /\ InvsOf(d)' = InvsOf(d) \ {m}
BalAcked(l, d) ==
  /\ l \in HeldInvs(d) /\ HeldInvs(d)' = HeldInvs(d) \ {l}
  /\ \E m : m \notin InvsOf(d) /\ InvsOf(d)' = InvsOf(d) \cup {m}

(* Outside the two states that wait for acknowledgements there are none,   *)
(* and no invalidation under way.                                          *)
LEMMA NoInvs ==
  ASSUME InvBalance, NEW c \in CCE, ~Invalidating(c)
  PROVE  InvsOf(c) = {} /\ HeldInvs(c) = {}
<1>1. IsFiniteSet(InvsOf(c)) /\ IsFiniteSet(HeldInvs(c))
  BY FiniteAssumption, FS_Subset DEF InvBalance, HeldInvs
<1>2. Cardinality(InvsOf(c)) \in Nat /\ Cardinality(HeldInvs(c)) \in Nat
  BY <1>1, FS_CardinalityType
<1>3. Cardinality(InvsOf(c)) + Cardinality(HeldInvs(c)) = 0
  BY DEF InvBalance
<1>4. Cardinality(InvsOf(c)) = 0 /\ Cardinality(HeldInvs(c)) = 0
  BY <1>2, <1>3
<1>5. QED
  BY <1>1, <1>4, FS_EmptySet

(* A command that invalidates nobody, and a response that acknowledges no  *)
(* invalidation, change nothing.                                           *)
LEMMA BalFrame ==
  ASSUME \A m : m.type = "inv" => (m \in cmdNet' <=> m \in cmdNet),
         \A m : m.type = "inv_ack" => (m \in respNet' <=> m \in respNet),
         \A k \in LCE : \/ lceCmd'[k] = lceCmd[k]
                        \/ ~Holds(k, {"inv"}) /\ ~Holds(k, {"inv"})',
         NEW d
  PROVE  BalSame(d)
<1>1. InvsOf(d)' = InvsOf(d)
  BY DEF InvsOf
<1>2. HeldInvs(d)' = HeldInvs(d)
  BY DEF HeldInvs, Holds
<1>3. QED
  BY <1>1, <1>2 DEF BalSame

(* Which invalidations an engine adds or takes.                            *)
LEMMA BalCce ==
  ASSUME IInv, SerialInv, InvBalance, NEW c \in CCE, CceStep(c), NEW d \in CCE
  PROVE  IF d = c /\ CceInvCmd(c) THEN BalSent(d)
         ELSE IF d = c /\ CceInvAck(c) THEN BalDone(d) ELSE BalSame(d)
<1>1. lceCmd' = lceCmd
  BY CceLeaves
<1>2. HeldInvs(d)' = HeldInvs(d)
  BY <1>1 DEF HeldInvs, Holds
<1>3. CASE CceInvCmd(c)
  <2>1. PICK m : /\ m.type = "inv" /\ m.src = c /\ m \notin cmdNet
                 /\ cmdNet' = cmdNet \cup {m} /\ respNet' = respNet
    <3>1. PICK l : SendCmd([type |-> "inv", src |-> c, dst |-> l, addr |-> mshr[c].addr,
                            way |-> sharers[c][l]]) /\ respNet' = respNet
      BY <1>3 DEF CceInvCmd
    <3>2. QED
      BY <3>1 DEF SendCmd
  <2>3. CASE d = c
    <3>1. InvsOf(d)' = InvsOf(d) \cup {m}
      BY <2>1, <2>3 DEF InvsOf
    <3>2. m \notin InvsOf(d)
      BY <2>1 DEF InvsOf
    <3>3. QED
      BY <1>2, <1>3, <2>3, <3>1, <3>2 DEF BalSent
  <2>4. CASE d # c
    <3>1. InvsOf(d)' = InvsOf(d)
      BY <2>1, <2>4 DEF InvsOf
    <3>2. QED
      BY <1>2, <2>4, <3>1 DEF BalSame
  <2>5. QED
    BY <2>3, <2>4
<1>4. CASE CceInvAck(c) /\ ~CceInvCmd(c)
  <2>1. PICK m \in respNet : /\ m.dst = c /\ m.type = "inv_ack" /\ respNet' = respNet \ {m}
                             /\ cmdNet' = cmdNet
    BY <1>4 DEF CceInvAck, TakeResp
  <2>2. CASE d = c
    <3>1. InvsOf(d)' = InvsOf(d) \ {m} /\ m \in InvsOf(d)
      BY <2>1, <2>2 DEF InvsOf
    <3>2. QED
      BY <1>2, <1>4, <2>2, <3>1 DEF BalDone
  <2>3. CASE d # c
    <3>1. InvsOf(d)' = InvsOf(d)
      BY <2>1, <2>3 DEF InvsOf
    <3>2. QED
      BY <1>2, <2>3, <3>1 DEF BalSame
  <2>4. QED
    BY <2>2, <2>3
<1>5. CASE ~CceInvAck(c) /\ ~CceInvCmd(c)
  <2>1. \A m : m.type = "inv" => (m \in cmdNet' <=> m \in cmdNet)
    <3>1. CASE MemRespFill(c)
      BY <3>1 DEF MemRespFill, SendCmd, FillCmd
    <3>2. CASE MemRespUncached(c)
      BY <3>2 DEF MemRespUncached, SendCmd
    <3>3. CASE CceReplacement(c)
      BY <3>3 DEF CceReplacement, SendCmd
    <3>4. CASE CceUpgrade(c)
      BY <3>4 DEF CceUpgrade, SendCmd
    <3>5. CASE CceTransfer(c)
      <4>1. PICK m : m.type \in {"st_tr", "st_tr_wb"} /\ cmdNet' = cmdNet \cup {m}
        BY <3>5 DEF CceTransfer, SendCmd
      <4>2. QED
        BY <4>1
    <3>6. CASE \E l \in LCE : CceSendSync(c, l)
      BY <3>6 DEF CceSendSync, SendCmd
    <3>7. QED
      BY <1>5, <3>1, <3>2, <3>3, <3>4, <3>5, <3>6, CmdBy
  <2>2. \A m : m.type = "inv_ack" => (m \in respNet' <=> m \in respNet)
    <3>1. CASE CceSyncAck(c)
      <4>1. PICK m \in respNet : m.dst = c /\ m.type # "coh_ack" /\ respNet' = respNet \ {m}
        BY <3>1 DEF CceSyncAck, TakeResp
      <4>2. ~Invalidating(c)
        BY <3>1 DEF CceSyncAck, Invalidating
      <4>3. m.type # "inv_ack"
        <5> SUFFICES ASSUME m.type = "inv_ack" PROVE FALSE
          OBVIOUS
        <5>1. m \in InvsOf(c)
          BY <4>1 DEF InvsOf
        <5>2. QED
          BY <4>2, <5>1, NoInvs
      <4>4. QED
        BY <4>1, <4>3
    <3>2. CASE CceReplacementWbResp(c) \/ CceTransferWbResp(c)
      <4>1. PICK m \in respNet : m.type \in {"wb", "null_wb"} /\ respNet' = respNet \ {m}
        BY <3>2 DEF CceReplacementWbResp, CceTransferWbResp, WritebackResp, TakeResp
      <4>2. QED
        BY <4>1
    <3>3. CASE CohAck(c)
      <4>1. PICK m \in respNet : m.type = "coh_ack" /\ respNet' = respNet \ {m}
        BY <3>3 DEF CohAck, TakeResp
      <4>2. QED
        BY <4>1
    <3>4. QED
      BY <1>5, <3>1, <3>2, <3>3, RespBy
  <2>3. QED
    BY <1>1, <1>5, <2>1, <2>2, BalFrame
<1>6. QED
  BY <1>3, <1>4, <1>5
(* Which of them a cache takes or acknowledges.                            *)
LEMMA BalLce ==
  ASSUME IInv, SerialInv, NEW l \in LCE, LceStep(l), NEW d \in CCE
  PROVE  BalSame(d) \/ BalTaken(l, d) \/ BalAcked(l, d)
<1>1. CASE LceHead(l)
  <2>1. PICK m \in cmdNet : /\ m.dst = l /\ lceCmd' = [lceCmd EXCEPT ![l] = m]
                            /\ cmdNet' = cmdNet \ {m} /\ respNet' = respNet
                            /\ lceCmd[l] = None
    BY <1>1 DEF LceHead
  <2>2. m # None /\ lceCmd'[l] = m /\ \A k \in LCE \ {l} : lceCmd'[k] = lceCmd[k]
    BY <2>1, NoneAssumption DEF IInv, NetTypeOK, LceOK, LceTypeOK
  <2>3. CASE m.type = "inv" /\ m.src = d
    <3>1. m \in InvsOf(d) /\ InvsOf(d)' = InvsOf(d) \ {m}
      BY <2>1, <2>3 DEF InvsOf
    <3>2. l \notin HeldInvs(d) /\ HeldInvs(d)' = HeldInvs(d) \cup {l}
      BY <2>1, <2>2, <2>3 DEF HeldInvs, Holds
    <3>3. QED
      BY <3>1, <3>2 DEF BalTaken
  <2>4. CASE ~(m.type = "inv" /\ m.src = d)
    <3>1. InvsOf(d)' = InvsOf(d)
      BY <2>1, <2>4 DEF InvsOf
    <3>2. HeldInvs(d)' = HeldInvs(d)
      BY <2>1, <2>2, <2>4 DEF HeldInvs, Holds
    <3>3. QED
      BY <3>1, <3>2 DEF BalSame
  <2>5. QED
    BY <2>3, <2>4
<1>2. CASE LceInv(l)
  <2>1. PICK m : m = CmdResp(l, "inv_ack")
    OBVIOUS
  <2>2. /\ m \notin respNet /\ respNet' = respNet \cup {m} /\ cmdNet' = cmdNet
        /\ Holds(l, {"inv"}) /\ lceCmd' = [lceCmd EXCEPT ![l] = None]
    BY <1>2, <2>1 DEF LceInv, Respond, Dequeue, Executes
  <2>3. m.type = "inv_ack" /\ m.dst = lceCmd[l].src
    BY <2>1 DEF CmdResp
  <2>4. lceCmd'[l] = None /\ \A k \in LCE \ {l} : lceCmd'[k] = lceCmd[k]
    BY <2>2 DEF IInv, LceOK, LceTypeOK
  <2>5. CASE lceCmd[l].src = d
    <3>1. m \notin InvsOf(d) /\ InvsOf(d)' = InvsOf(d) \cup {m}
      <4>1. m \notin InvsOf(d)
        BY <2>2, <2>3 DEF InvsOf
      <4>2. QED
        BY <4>1, <2>2, <2>3, <2>5 DEF InvsOf
    <3>2. l \in HeldInvs(d) /\ HeldInvs(d)' = HeldInvs(d) \ {l}
      BY <2>2, <2>4, <2>5 DEF HeldInvs, Holds
    <3>3. QED
      BY <3>1, <3>2 DEF BalAcked
  <2>6. CASE lceCmd[l].src # d
    <3>1. InvsOf(d)' = InvsOf(d)
      BY <2>2, <2>3, <2>6 DEF InvsOf
    <3>2. HeldInvs(d)' = HeldInvs(d)
      BY <2>2, <2>4, <2>6 DEF HeldInvs, Holds
    <3>3. QED
      BY <3>1, <3>2 DEF BalSame
  <2>7. QED
    BY <2>5, <2>6
<1>3. CASE ~LceHead(l) /\ ~LceInv(l)
  <2>1. \A m : m.type = "inv" => (m \in cmdNet' <=> m \in cmdNet)
    <3>1. CASE LceTr(l)
      <4>1. PICK m : m.type = "data" /\ cmdNet' = cmdNet \cup {m}
        BY <3>1 DEF LceTr
      <4>2. QED
        BY <4>1
    <3>2. QED
      BY <1>3, <3>1, LceNetBy
  <2>2. \A m : m.type = "inv_ack" => (m \in respNet' <=> m \in respNet)
    <3>1. CASE LceSync(l)
      BY <3>1 DEF LceSync, Respond
    <3>2. CASE LceCohAck(l)
      BY <3>2 DEF LceCohAck, Respond, CmdResp
    <3>3. CASE LceWb(l)
      BY <3>3 DEF LceWb, Respond, CmdResp
    <3>4. CASE LceWbDirtySend(l)
      BY <3>4 DEF LceWbDirtySend, Respond
    <3>5. QED
      BY <1>3, <3>1, <3>2, <3>3, <3>4, LceRespBy
  <2>3. \A k \in LCE : \/ lceCmd'[k] = lceCmd[k]
                       \/ ~Holds(k, {"inv"}) /\ ~Holds(k, {"inv"})'
    <3>1. CASE LceSync(l) \/ LceUcStDone(l) \/ LceUcData(l)
      BY <3>1 DEF LceSync, LceUcStDone, LceUcData, Dequeue, Holds, Executes, IInv, LceOK, LceTypeOK
    <3>2. CASE LceCohAck(l) \/ LceTr(l) \/ LceWb(l) \/ LceWbDirtySend(l)
      <4>1. ~Holds(l, {"inv"})
        BY <3>2 DEF LceCohAck, LceTr, LceWb, LceWbDirtySend, Holds, IInv, LceOK, CmdWF
      <4>2. lceCmd' = lceCmd \/ lceCmd' = [lceCmd EXCEPT ![l] = None]
        BY <3>2 DEF LceCohAck, LceTr, LceWb, LceWbDirtySend, Dequeue
      <4>3. QED
        BY <4>1, <4>2 DEF Holds, IInv, LceOK, LceTypeOK
    <3>3. QED
      BY <1>3, <3>1, <3>2, LceCmdBy
  <2>4. QED
    BY <2>1, <2>2, <2>3, BalFrame
<1>4. QED
  BY <1>1, <1>2, <1>3

(* What a step that neither invalidates nor is acknowledged does to the    *)
(* two states that count, and how they are entered.                        *)
LEMMA CountMove ==
  ASSUME IInv, SerialInv, NEW c \in CCE, CceStep(c), ~CceInvCmd(c), ~CceInvAck(c)
  PROVE  /\ Invalidating(c) =>
              /\ cceState'[c] = cceState[c] /\ cnt'[c] = cnt[c] /\ toInv'[c] = toInv[c]
         /\ ~Invalidating(c) /\ Invalidating(c)' =>
              /\ cceState[c] \in Deciding /\ mshr[c].csf
              /\ cceState'[c] = "inv_cmd" /\ cnt'[c] = 0 /\ toInv'[c] = Invalidated(c)
<1> USE DEF Goto, IInv, CceOK, CceTypeOK, Invalidating
<1>1. CASE CceWriteNextState(c)
  BY <1>1 DEF CceWriteNextState, StartInvOrFill, FillStep, Deciding, Invalidate
<1>2. CASE CceReplacementWbResp(c)
  BY <1>2 DEF CceReplacementWbResp, StartInvOrFill, FillStep, Deciding, Invalidate
<1>3. CASE \/ CceReadDir(c) \/ CceResolve(c) \/ \E l \in LCE : CceReady(c, l)
  BY <1>3 DEF CceReadDir, CceResolve, CceReady
<1>4. CASE UNCHANGED <<cnt, toInv, sharers>> /\ ~UNCHANGED <<cceState, mshr>>
  <2>1. cnt'[c] = cnt[c] /\ toInv'[c] = toInv[c]
    BY <1>4
  <2>2. CASE \/ CceReset(c) \/ CceClearDir(c) \/ CceLeaveUncached(c) \/ CceSyncAck(c)
             \/ CceUcReq(c) \/ CceReadPending(c) \/ CceDeqReq(c) \/ CceReadMemSpec(c)
    BY <2>2 DEF CceReset, CceClearDir, CceLeaveUncached, CceSyncAck, CceUcReq, CceReadPending,
      CceDeqReq, CceReadMemSpec
  <2>3. CASE \/ CceReplacement(c) \/ CceUpgrade(c) \/ CceTransfer(c) \/ CceTransferWbResp(c)
             \/ \E l \in LCE : CceSendSync(c, l)
    BY <2>3 DEF CceReplacement, CceUpgrade, CceTransfer, CceTransferWbResp, CceSendSync
  <2>4. QED
    BY <1>1, <1>2, <1>3, <1>4, <2>1, <2>2, <2>3, FsmBy
<1>5. CASE UNCHANGED <<cnt, toInv, sharers, cceState, mshr>>
  BY <1>5
<1>6. QED
  BY <1>1, <1>2, <1>3, <1>4, <1>5, CntBy

(* The balance of one engine: n invalidations are not acknowledged.        *)
Balance(d, n) ==
  /\ IsFiniteSet(InvsOf(d))
  /\ Cardinality(InvsOf(d)) + Cardinality(HeldInvs(d)) = n

(* The invalidations the caches hold are finitely many.                    *)
LEMMA HeldInvsFinite ==
  ASSUME NEW d
  PROVE  IsFiniteSet(HeldInvs(d)) /\ Cardinality(HeldInvs(d)) \in Nat
BY FiniteAssumption, FS_Subset, FS_CardinalityType DEF HeldInvs

(* How the balance of an engine moves with a message of its own.           *)
LEMMA BalanceMoves ==
  ASSUME NEW d \in CCE, NEW n \in Int, Balance(d, n)
  PROVE  /\ BalSame(d) => Balance(d, n)'
         /\ BalSent(d) => Balance(d, n + 1)'
         /\ BalDone(d) => Balance(d, n - 1)'
         /\ \A l : BalTaken(l, d) \/ BalAcked(l, d) => Balance(d, n)'
<1>1. /\ IsFiniteSet(InvsOf(d)) /\ Cardinality(InvsOf(d)) \in Nat
      /\ IsFiniteSet(HeldInvs(d)) /\ Cardinality(HeldInvs(d)) \in Nat
      /\ Cardinality(InvsOf(d)) + Cardinality(HeldInvs(d)) = n
  BY HeldInvsFinite, FS_CardinalityType DEF Balance
<1>2. ASSUME BalSame(d) PROVE Balance(d, n)'
  BY <1>1, <1>2, Zenon DEF BalSame, Balance
<1>3. ASSUME BalSent(d) PROVE Balance(d, n + 1)'
  <2>1. /\ IsFiniteSet(InvsOf(d)') /\ Cardinality(InvsOf(d)') = Cardinality(InvsOf(d)) + 1
    BY <1>1, <1>3, PlusOne DEF BalSent
  <2>2. Cardinality(HeldInvs(d)') = Cardinality(HeldInvs(d))
    BY <1>3, Zenon DEF BalSent
  <2>3. QED
    BY <1>1, <2>1, <2>2 DEF Balance
<1>4. ASSUME BalDone(d) PROVE Balance(d, n - 1)'
  <2>1. /\ IsFiniteSet(InvsOf(d)') /\ Cardinality(InvsOf(d)') = Cardinality(InvsOf(d)) - 1
    BY <1>1, <1>4, MinusOne DEF BalDone
  <2>2. Cardinality(HeldInvs(d)') = Cardinality(HeldInvs(d))
    BY <1>4, Zenon DEF BalDone
  <2>3. QED
    BY <1>1, <2>1, <2>2 DEF Balance
<1>5. ASSUME NEW l, BalTaken(l, d) PROVE Balance(d, n)'
  <2>1. /\ IsFiniteSet(InvsOf(d)') /\ Cardinality(InvsOf(d)') = Cardinality(InvsOf(d)) - 1
    BY <1>1, <1>5, MinusOne DEF BalTaken
  <2>2. Cardinality(HeldInvs(d)') = Cardinality(HeldInvs(d)) + 1
    BY <1>1, <1>5, PlusOne DEF BalTaken
  <2>3. QED
    BY <1>1, <2>1, <2>2 DEF Balance
<1>6. ASSUME NEW l, BalAcked(l, d) PROVE Balance(d, n)'
  <2>1. /\ IsFiniteSet(InvsOf(d)') /\ Cardinality(InvsOf(d)') = Cardinality(InvsOf(d)) + 1
    BY <1>1, <1>6, PlusOne DEF BalAcked
  <2>2. Cardinality(HeldInvs(d)') = Cardinality(HeldInvs(d)) - 1
    BY <1>1, <1>6, MinusOne DEF BalAcked
  <2>3. QED
    BY <1>1, <2>1, <2>2 DEF Balance
<1>7. QED
  BY <1>2, <1>3, <1>4, <1>5, <1>6

(* InvBalance, engine by engine.                                           *)
Expected(d, n) ==
  /\ Invalidating(d) => n = cnt[d]
  /\ ~Invalidating(d) => n = 0
(* InvBalance, without the conditional.                                    *)
LEMMA BalanceIs ==
  InvBalance <=> \A d \in CCE : \A n : Expected(d, n) => Balance(d, n)
BY DEF InvBalance, Balance, Expected

(* The same in the next state.                                             *)
LEMMA BalanceNext ==
  ASSUME \A d \in CCE : \A n : Expected(d, n)' => Balance(d, n)'
  PROVE  InvBalance'
BY DEF InvBalance, Balance, Expected

(* InvBalance, step of a cache: an invalidation becomes its                *)
(* acknowledgement.                                                        *)
LEMMA BalanceLce ==
  ASSUME IInv, SerialInv, InvBalance, NEW l \in LCE, LceStep(l)
  PROVE  InvBalance'
<1>1. UNCHANGED <<cceState, cnt>>
  BY LceLeaves
<1>2. SUFFICES ASSUME NEW d \in CCE, NEW n, Expected(d, n)' PROVE Balance(d, n)'
  BY BalanceNext
<1>3. Expected(d, n) /\ n \in Int
  BY <1>1, <1>2 DEF Expected, Invalidating, IInv, CceOK, CceTypeOK
<1>4. Balance(d, n)
  BY <1>3, BalanceIs
<1>5. QED
  BY <1>3, <1>4, BalLce, BalanceMoves
(* InvBalance, step of an engine: cnt follows what it sends and takes.     *)
LEMMA BalanceCce ==
  ASSUME IInv, SerialInv, InvBalance, NEW c \in CCE, CceStep(c)
  PROVE  InvBalance'
<1>1. SUFFICES ASSUME NEW d \in CCE, NEW n, Expected(d, n)' PROVE Balance(d, n)'
  BY BalanceNext
<1>2. cnt[d] \in Int
  BY DEF IInv, CceOK, CceTypeOK
<1>3. CASE d # c
  <2>1. Expected(d, n) /\ n \in Int
    BY <1>1, <1>2, <1>3, CceOthers DEF Expected, Invalidating
  <2>2. Balance(d, n) /\ BalSame(d)
    BY <1>3, <2>1, BalanceIs, BalCce
  <2>3. QED
    BY <2>1, <2>2, BalanceMoves
<1>4. CASE d = c /\ CceInvCmd(c)
  <2>1. Invalidating(d) /\ Invalidating(d)' /\ cnt'[d] = cnt[d] + 1
    BY <1>4 DEF CceInvCmd, Goto, Invalidating, IInv, CceOK, CceTypeOK
  <2>2. Balance(d, cnt[d]) /\ BalSent(d) /\ n = cnt[d] + 1
    BY <1>1, <1>4, <2>1, BalanceIs, BalCce DEF Expected
  <2>3. QED
    BY <1>2, <2>2, BalanceMoves
<1>5. CASE d = c /\ CceInvAck(c) /\ ~CceInvCmd(c)
  <2>1. Invalidating(d) /\ cnt'[d] = cnt[d] - 1
    BY <1>5 DEF CceInvAck, Invalidating, IInv, CceOK, CceTypeOK
  <2>2. Balance(d, cnt[d]) /\ BalDone(d)
    BY <1>5, <2>1, BalanceIs, BalCce DEF Expected
  <2>3. n = cnt[d] - 1
    <3>1. CASE Invalidating(d)'
      BY <1>1, <2>1, <3>1 DEF Expected
    <3>2. CASE ~Invalidating(d)'
      <4>1. cnt[d] = 1
        BY <1>5, <2>1, <3>2 DEF CceInvAck, AfterInvAck, Goto, Invalidating, IInv, CceOK, CceTypeOK
      <4>2. QED
        BY <1>1, <3>2, <4>1 DEF Expected
    <3>3. QED
      BY <3>1, <3>2
  <2>4. QED
    BY <1>2, <2>2, <2>3, BalanceMoves
<1>6. CASE d = c /\ ~CceInvAck(c) /\ ~CceInvCmd(c)
  <2>1. Expected(d, n)
    BY <1>1, <1>6, CountMove DEF Expected, Invalidating
  <2>2. n \in Int
    BY <1>2, <2>1 DEF Expected
  <2>3. Balance(d, n) /\ BalSame(d)
    BY <1>6, <2>1, BalanceIs, BalCce
  <2>4. QED
    BY <2>2, <2>3, BalanceMoves
<1>7. QED
  BY <1>3, <1>4, <1>5, <1>6

----------------------------------------------------------------------------
(* The flags and the vector of sharers.                                    *)

(* A directory read that finds another sharer puts it in the vector that   *)
(* e_inv_cmd sends from.                                                   *)
LEMMA ReadDirSharers ==
  ASSUME IInv, NEW c \in CCE, CceReadDir(c), mshr'[c].csf
  PROVE  Invalidated(c)' # {}
<1>1. PICK m : m = mshr[c]
  OBVIOUS
<1>2. /\ mshr'[c].lce = m.lce /\ mshr'[c].csf = CachedShared(dir, m.lce, m.addr)
      /\ mshr'[c].xf = CachedOwned(dir, m.lce, m.addr)
      /\ mshr'[c].owner = Owner(dir, m.addr)
  BY <1>1, ReadDirMshr
<1>3. sharers'[c] = [k \in LCE |-> HitWay(dir, k, m.addr)]
  BY <1>1 DEF CceReadDir, IInv, CceOK, CceTypeOK
<1>4. PICK k \in CachedIn(dir, m.addr, {"S"}) \ {m.lce} : TRUE
  BY <1>2 DEF CachedShared
<1>5. k \in LCE /\ k # m.lce /\ StateIn(dir, k, m.addr) = "S"
  BY <1>4 DEF CachedIn
<1>6. sharers'[c][k] \in Way /\ sharers'[c][k] # None
  <2>1. HitWay(dir, k, m.addr) \in Way
    BY <1>5, HitWayIn
  <2>2. QED
    BY <1>3, <1>5, <2>1, ConstantsAssumption
<1>7. mshr'[c].xf => mshr'[c].owner # k
  <2>1. SUFFICES ASSUME CachedOwned(dir, m.lce, m.addr) PROVE Owner(dir, m.addr) # k
    BY <1>2
  <2>2. CachedIn(dir, m.addr, Owned) # {}
    BY <2>1 DEF CachedOwned
  <2>3. Owner(dir, m.addr) \in CachedIn(dir, m.addr, Owned)
    BY <2>2 DEF Owner
  <2>4. QED
    BY <1>5, <2>3 DEF CachedIn, Owned
<1>8. QED
  BY <1>2, <1>5, <1>6, <1>7 DEF Invalidated

(* SharersKnown, step of an engine: the flag and the vector come from one  *)
(* read of the directory.                                                  *)
LEMMA SharersCce ==
  ASSUME IInv, SerialInv, SharersKnown, NEW c \in CCE, CceStep(c)
  PROVE  SharersKnown'
<1>1. SUFFICES ASSUME NEW d \in CCE, cceState'[d] \in Deciding, mshr'[d].csf
               PROVE  Invalidated(d)' # {}
  BY DEF SharersKnown
<1>2. CASE d # c
  <2>1. cceState[d] \in Deciding /\ mshr'[d] = mshr[d] /\ sharers'[d] = sharers[d]
    BY <1>1, <1>2, CceOthers
  <2>2. QED
    BY <1>1, <2>1 DEF SharersKnown, Invalidated
<1>3. CASE d = c /\ CceReadDir(c)
  BY <1>1, <1>3, ReadDirSharers
<1>4. CASE d = c /\ ~CceReadDir(c)
  <2>1. cceState'[c] \in Decided
    BY <1>1, <1>4 DEF Deciding, Decided
  <2>2. cceState[c] \in Decided /\ SameAnswer(c)
    BY <1>4, <2>1, DecidedMove
  <2>3. cceState[c] \in Deciding
    BY <1>1, <1>4, <2>2, StateMoves
       DEF StateMove, Moves1, After, Deciding, Decided, Cached
  <2>4. sharers'[c] = sharers[c]
    <3>1. cceState[c] # "resolve_speculation" /\ cceState[c] # "ready" /\ cceState[c] # "read_dir"
      BY <2>3 DEF Deciding
    <3>2. ~CceResolve(c) /\ ~CceReadDir(c) /\ \A l \in LCE : ~CceReady(c, l)
      BY <3>1 DEF CceResolve, CceReadDir, CceReady
    <3>3. QED
      BY <3>2, CntBy DEF CceWriteNextState, CceReplacementWbResp, CceInvCmd, CceInvAck
  <2>5. QED
    BY <1>1, <1>4, <2>2, <2>3, <2>4 DEF SharersKnown, Invalidated, SameAnswer, SameRequest
<1>5. QED
  BY <1>2, <1>3, <1>4

(* SomeoneLeft, step of an engine: e_inv_cmd is left with the last sharer. *)
LEMMA SomeoneCce ==
  ASSUME IInv, SerialInv, SharersKnown, SomeoneLeft, NEW c \in CCE, CceStep(c)
  PROVE  SomeoneLeft'
<1>1. SUFFICES ASSUME NEW d \in CCE, cceState'[d] = "inv_cmd" PROVE toInv'[d] # {}
  BY DEF SomeoneLeft
<1>2. CASE d # c
  BY <1>1, <1>2, CceOthers DEF SomeoneLeft
<1>3. CASE d = c /\ CceInvCmd(c)
  BY <1>1, <1>3 DEF CceInvCmd, Goto, IInv, CceOK, CceTypeOK
<1>4. CASE d = c /\ CceInvAck(c)
  <2>1. cceState[c] = "inv_cmd"
    BY <1>1, <1>4 DEF CceInvAck, AfterInvAck, FillStep, Goto, IInv, CceOK, CceTypeOK
  <2>2. QED
    BY <1>4, <2>1 DEF CceInvAck, SomeoneLeft
<1>5. CASE d = c /\ ~CceInvCmd(c) /\ ~CceInvAck(c)
  BY <1>1, <1>5, CountMove DEF SomeoneLeft, SharersKnown, Invalidating
<1>6. QED
  BY <1>2, <1>3, <1>4, <1>5

(* Nothing but the acknowledgement of its sync command reaches an engine   *)
(* that waits for it.                                                      *)
LEMMA NoErrorCce ==
  ASSUME IInv, SerialInv, InvBalance, NoError, NEW c \in CCE, CceStep(c)
  PROVE  NoError'
<1>1. CASE CceSyncAck(c)
  <2>1. PICK m \in respNet :
          /\ m.dst = c /\ m.type # "coh_ack"
          /\ cceState' = [cceState EXCEPT ![c] =
               IF m.type # "sync_ack" THEN "error"
               ELSE IF synced[c] = LCE THEN "ready" ELSE "send_sync"]
    BY <1>1 DEF CceSyncAck, Goto
  <2>2. cceState[c] = "sync_ack"
    BY <1>1 DEF CceSyncAck
  <2>3. m.type # "inv_ack"
    BY <2>1, <2>2, NoInvs DEF Invalidating, InvsOf
  <2>4. m.type \notin {"wb", "null_wb"}
    <3> SUFFICES ASSUME m.type \in {"wb", "null_wb"} PROVE FALSE
      OBVIOUS
    <3>1. WbTok(c, "resp", m)
      BY <2>1 DEF WbTok, WbResp
    <3>2. WbWaits
      BY DEF SerialInv, WbInv
    <3>3. QED
      BY <2>2, <3>1, <3>2 DEF WbWaits
  <2>5. m.type \in {"sync_ack", "inv_ack", "coh_ack", "null_wb", "wb"}
    BY DEF IInv, NetTypeOK, Response
  <2>6. m.type = "sync_ack"
    BY <2>1, <2>3, <2>4, <2>5
  <2>7. QED
    BY <2>1, <2>6 DEF NoError, IInv, CceOK, CceTypeOK
<1>2. CASE ~CceSyncAck(c)
  <2>1. SUFFICES ASSUME NEW d \in CCE PROVE cceState'[d] # "error"
    BY DEF NoError
  <2>2. CASE d # c
    BY <2>2, CceOthers DEF NoError
  <2>3. CASE cceState' = cceState
    BY <2>3 DEF NoError
  <2>4. CASE d = c /\ cceState[c] \in Cached \cup {"ready", "uc_req"}
    <3>1. cceState'[c] \in Cached \cup {"ready", "uc_req"}
      BY <2>4, StateMoves DEF StateMove, Moves1, After, Cached
    <3>2. QED
      BY <2>4, <3>1 DEF Cached
  <2>5. CASE /\ d = c /\ cceState[c] \notin Cached \cup {"ready", "uc_req"}
             /\ cceState' # cceState
    <3>1. \/ CceReset(c) \/ CceClearDir(c) \/ CceLeaveUncached(c)
          \/ \E l \in LCE : CceSendSync(c, l)
      BY <1>2, <2>5, FsmBy
         DEF CceUcReq, CceReadPending, CceDeqReq, CceReadMemSpec, CceReadDir,
             CceWriteNextState, CceReplacement, CceReplacementWbResp, CceInvCmd, CceInvAck,
             CceUpgrade, CceTransfer, CceTransferWbResp, CceResolve, CceReady, Cached
    <3>2. QED
      BY <2>5, <3>1 DEF CceReset, CceClearDir, CceLeaveUncached, CceSendSync, Goto, IInv,
        CceOK, CceTypeOK
  <2>6. QED
    BY <2>2, <2>3, <2>4, <2>5
<1>3. QED
  BY <1>1, <1>2

(* CountInv, step of an engine.                                            *)
LEMMA CountInvCce ==
  ASSUME IInv, SerialInv, CountInv, NEW c \in CCE, CceStep(c)
  PROVE  CountInv'
<1>1. InvBalance /\ SharersKnown /\ SomeoneLeft /\ NoError
  BY DEF CountInv
<1>2. InvBalance'
  BY <1>1, BalanceCce
<1>3. SharersKnown'
  BY <1>1, SharersCce
<1>4. SomeoneLeft'
  BY <1>1, SomeoneCce
<1>5. NoError'
  BY <1>1, NoErrorCce
<1>6. QED
  BY <1>2, <1>3, <1>4, <1>5 DEF CountInv

(* CountInv, step of a cache.                                              *)
LEMMA CountInvLce ==
  ASSUME IInv, SerialInv, CountInv, NEW l \in LCE, LceStep(l)
  PROVE  CountInv'
<1>1. UNCHANGED <<cceState, mshr, sharers, toInv>>
  BY LceLeaves
<1>2. SharersKnown' /\ SomeoneLeft' /\ NoError'
  BY <1>1 DEF CountInv, SharersKnown, SomeoneLeft, NoError, Invalidated
<1>3. QED
  BY <1>2, BalanceLce DEF CountInv

(* CountInv, when nothing changes.                                         *)
LEMMA CountInvStutter ==
  ASSUME CountInv, UNCHANGED vars
  PROVE  CountInv'
<1>1. UNCHANGED <<cceState, mshr, sharers, toInv, cnt, cmdNet, respNet, lceCmd>>
  BY DEF vars, cceVars, netVars, lceVars
<1>2. \A c \in CCE : InvsOf(c)' = InvsOf(c) /\ HeldInvs(c)' = HeldInvs(c)
  BY <1>1 DEF InvsOf, HeldInvs, Holds
<1>3. InvBalance'
  BY <1>1, <1>2 DEF CountInv, InvBalance, Invalidating
<1>4. QED
  BY <1>1, <1>3 DEF CountInv, SharersKnown, SomeoneLeft, NoError, Invalidated

(* CountInv holds at reset.                                                *)
LEMMA CountInvInit ==
  ASSUME Init
  PROVE  CountInv
<1>1. /\ cceState = [c \in CCE |-> "reset"] /\ cmdNet = {} /\ respNet = {}
      /\ lceCmd = [l \in LCE |-> None]
  BY DEF Init, CceInit, LceInit
<1>2. \A c \in CCE : InvsOf(c) = {} /\ HeldInvs(c) = {}
  BY <1>1 DEF InvsOf, HeldInvs, Holds
<1>3. Cardinality({}) = 0 /\ IsFiniteSet({})
  BY FS_EmptySet
<1>4. InvBalance
  BY <1>1, <1>2, <1>3 DEF InvBalance, Invalidating
<1>5. QED
  BY <1>1, <1>4 DEF CountInv, SharersKnown, SomeoneLeft, NoError, Deciding

(* The three invariants together are an invariant of the system.           *)
THEOREM InvCount == Spec => [](IInv /\ SerialInv /\ CountInv)
<1>1. Init => CountInv
  BY CountInvInit
<1>2. IInv /\ SerialInv /\ CountInv /\ [Next]_vars => CountInv'
  <2> SUFFICES ASSUME IInv, SerialInv, CountInv, [Next]_vars PROVE CountInv'
    OBVIOUS
  <2>1. CASE \E c \in CCE : CceStep(c)
    BY <2>1, CountInvCce
  <2>2. CASE \E l \in LCE : LceStep(l)
    BY <2>2, CountInvLce
  <2>3. CASE UNCHANGED vars
    BY <2>3, CountInvStutter
  <2>4. QED
    BY <2>1, <2>2, <2>3 DEF Next
<1>3. QED
  BY <1>1, <1>2, Serial, PTL DEF Spec

(* cnt never loses an acknowledgement and never waits for one too many.    *)
THEOREM AcksAreCounted == Spec => []AcksCounted
<1>1. CountInv => AcksCounted
  BY DEF CountInv, InvBalance, AcksCounted, Invalidating
<1>2. QED
  BY <1>1, InvCount, PTL

(* InvalidatesSomeone: the FSM enters e_inv_cmd only with a sharer to      *)
(* invalidate, so the flag it decides by and the vector it sends from      *)
(* agree.                                                                  *)
THEOREM SomeoneInvalidated == Spec => []InvalidatesSomeone
<1>1. CountInv => InvalidatesSomeone
  BY DEF CountInv, SomeoneLeft, InvalidatesSomeone
<1>2. QED
  BY <1>1, InvCount, PTL

----------------------------------------------------------------------------
(* Responses.                                                              *)

(* Where the four kinds of response can be, one lemma each.                *)
LEMMA SyncAckExpected ==
  ASSUME IInv, SyncInv, NoError, NEW m \in respNet, m.type = "sync_ack"
  PROVE  cceState[m.dst] = "sync_ack"
<1>1. PICK l, c : m = [type |-> "sync_ack", src |-> l, dst |-> c] /\ l \in LCE /\ c \in CCE
  BY DEF IInv, NetTypeOK, Response
<1>2. m.dst = c
  BY <1>1
<1>3. UnderWay(c, l)
  BY <1>1 DEF UnderWay, SyncDone
<1>4. cceState[c] \in {"sync_ack", "error"}
  BY <1>1, <1>3 DEF SyncInv
<1>5. QED
  BY <1>1, <1>2, <1>4 DEF NoError

(* An acknowledgement of an invalidation is one of those the engine        *)
(* counts.                                                                 *)
LEMMA InvAckExpected ==
  ASSUME IInv, InvBalance, NEW m \in respNet, m.type = "inv_ack"
  PROVE  cceState[m.dst] \in {"inv_cmd", "inv_ack"}
<1>1. m.dst \in CCE
  BY DEF IInv, NetTypeOK, Response
<1>2. PICK c \in CCE : c = m.dst
  BY <1>1
<1>3. m \in InvsOf(c)
  BY <1>2 DEF InvsOf
<1>4. Invalidating(c)
  BY <1>3, NoInvs
<1>5. QED
  BY <1>2, <1>4 DEF Invalidating

(* A write-back is the one the engine waits for.                           *)
LEMMA WbExpected ==
  ASSUME IInv, SerialInv, NEW m \in respNet, m.type \in {"wb", "null_wb"}
  PROVE  cceState[m.dst] \in {"replacement_wb_resp", "transfer_wb_resp"}
<1>1. m.dst \in CCE
  BY DEF IInv, NetTypeOK, Response
<1>2. PICK c \in CCE : c = m.dst
  BY <1>1
<1>3. WbTok(c, "resp", m)
  BY <1>2 DEF WbTok, WbResp
<1>4. WbWaits
  BY DEF SerialInv, WbInv
<1>5. QED
  BY <1>2, <1>3, <1>4 DEF WbWaits

(* No response waits at the head of an engine's queue that the engine does *)
(* not expect there.                                                       *)
THEOREM ResponsesAreExpected == Spec => []ResponsesExpected
<1>1. IInv /\ SerialInv /\ CountInv /\ SyncInv => ResponsesExpected
  <2> SUFFICES ASSUME IInv, SerialInv, CountInv, SyncInv, NEW m \in respNet
               PROVE  CASE m.type = "sync_ack" -> cceState[m.dst] = "sync_ack"
                        [] m.type = "inv_ack" -> cceState[m.dst] \in {"inv_cmd", "inv_ack"}
                        [] m.type \in {"wb", "null_wb"} ->
                             cceState[m.dst] \in {"replacement_wb_resp", "transfer_wb_resp"}
                        [] OTHER -> TRUE
    BY DEF ResponsesExpected
  <2>1. m.type = "sync_ack" => cceState[m.dst] = "sync_ack"
    BY SyncAckExpected DEF CountInv
  <2>2. m.type = "inv_ack" => cceState[m.dst] \in {"inv_cmd", "inv_ack"}
    BY InvAckExpected DEF CountInv
  <2>3. m.type \in {"wb", "null_wb"} =>
          cceState[m.dst] \in {"replacement_wb_resp", "transfer_wb_resp"}
    BY WbExpected
  <2>4. QED
    BY <2>1, <2>2, <2>3
<1>2. QED
  BY <1>1, InvCount, SyncInvariant, PTL

----------------------------------------------------------------------------
(* The one open request of a set.                                          *)

(* The invariants that are proved already.                                 *)
Base == IInv /\ SerialInv /\ CountInv /\ SyncInv

(* A miss that is past its channel has the way group of its block open.    *)
LEMMA TokOpen ==
  ASSUME Base, NEW a, NEW x, NEW i \in Nat, NEW l \in LCE, NEW b \in Block,
         Tok(a, x, i, l, b, "cached"), a # "req"
  PROVE  /\ miss[l].phase = "sent" /\ miss[l].op # "uc_rd" /\ miss[l].addr = b
         /\ l \in Open(SetOf[b])
<1>1. Waits(l, b, "cached")
  BY DEF Base, SerialInv, TokInv, TokWaits
<1>2. miss[l].phase = "sent" /\ miss[l].op # "uc_rd" /\ miss[l].addr = b
  BY <1>1 DEF Waits, Kind
<1>3. ASSUME NEW c \in CCE, Pends(l, c)
      PROVE  FALSE
  <2>1. PICK j \in DOMAIN reqNet[<<l, c>>] : reqNet[<<l, c>>][j].op \in CacheOp
    BY <1>3 DEF Pends
  <2>2. j \in Nat /\ Blocking(l, c, j)
    BY <1>3, <2>1, Channel DEF Blocking, CacheOp, Base
  <2>3. PICK bb, u : ReqTok(c, j, l, bb, u)
    BY <2>2 DEF ReqTok
  <2>4. Tok("req", c, j, l, bb, u)
    BY <2>2, <2>3 DEF Tok
  <2>5. TokOne
    BY DEF Base, SerialInv, TokInv
  <2>6. QED
    BY <2>2, <2>4, <2>5 DEF TokOne
<1>4. WaitsIn(l, SetOf[b])
  BY <1>2 DEF WaitsIn
<1>5. ~Pends(l, HomeOf[SetOf[b]])
  BY <1>3, ConstantsAssumption DEF Addr
<1>6. QED
  BY <1>2, <1>4, <1>5, OpenIs

(* A way group has one transaction, which is in one place.                 *)
LEMMA OpenOne ==
  ASSUME Base, NEW s \in Set, NEW l \in Open(s)
  PROVE  /\ \A k \in Open(s) : k = l
         /\ AcksFor(s) = {} /\ pending[s] # 0
<1>1. /\ IsFiniteSet(Open(s)) /\ Cardinality(Open(s)) \in Nat
      /\ IsFiniteSet(AcksFor(s)) /\ Cardinality(AcksFor(s)) \in Nat
      /\ Cardinality(Open(s)) + Cardinality(AcksFor(s)) <= 1
      /\ Cardinality(MemOpsFor(s)) \in Nat
      /\ pending[s] = Cardinality(Open(s)) + Cardinality(AcksFor(s)) + Cardinality(MemOpsFor(s))
  BY Counts DEF Base
<1>2. Cardinality(Open(s)) # 0 /\ (Cardinality(AcksFor(s)) = 0 => AcksFor(s) = {})
  BY <1>1, FS_EmptySet
<1>3. Cardinality(Open(s)) = 1 /\ Cardinality(AcksFor(s)) = 0
  BY <1>1, <1>2
<1>4. \E k : Open(s) = {k}
  BY <1>1, <1>3, FS_Singleton
<1>5. pending[s] # 0
  BY <1>1, <1>3
<1>6. QED
  BY <1>2, <1>3, <1>4, <1>5

(* Two places after the request channel in the same set are the same       *)
(* place: at most one block of a set is on its way.                        *)
LEMMA OnePlace ==
  ASSUME Base, NEW a, NEW x, NEW i \in Nat, NEW l \in LCE, NEW b \in Block,
         NEW aa, NEW xx, NEW j \in Nat, NEW k \in LCE, NEW bb \in Block,
         Tok(a, x, i, l, b, "cached"), Tok(aa, xx, j, k, bb, "cached"), a # "req", aa # "req",
         SetOf[b] = SetOf[bb]
  PROVE  l = k /\ b = bb /\ a = aa /\ x = xx /\ i = j
<1>1. l \in Open(SetOf[b]) /\ miss[l].addr = b
  BY TokOpen
<1>2. k \in Open(SetOf[b]) /\ miss[k].addr = bb
  BY TokOpen
<1>3. SetOf[b] \in Set
  BY ConstantsAssumption
<1>4. l = k
  BY <1>1, <1>2, <1>3, OpenOne
<1>5. TokOne
  BY DEF Base, SerialInv, TokInv
<1>6. QED
  BY <1>1, <1>2, <1>4, <1>5 DEF TokOne

(* A way group that is open is served, and its caches are cleared.         *)
LEMMA OpenServed ==
  ASSUME Base, PendStart, NEW s \in Set, Open(s) # {}
  PROVE  InService(HomeOf[s]) /\ Cleared(HomeOf[s]) /\ HomeOf[s] \in CCE /\ \A k \in LCE : Past(k)
<1>1. pending[s] # 0
  BY OpenOne
<1>2. InService(HomeOf[s]) /\ HomeOf[s] \in CCE
  BY <1>1, ConstantsAssumption DEF PendStart
<1>3. \A k \in LCE : Past(k)
  BY <1>2 DEF Base, SyncInv
<1>4. QED
  BY <1>2, <1>3 DEF InService, Cleared

(* The request an engine works for, in its hands.                          *)
LEMMA FsmHas ==
  ASSUME Base, NEW c \in CCE, AtFsm(c)
  PROVE  /\ mshr[c].lce \in LCE /\ mshr[c].addr \in Block /\ mshr[c].lru \in Way
         /\ Tok("fsm", c, 0, mshr[c].lce, mshr[c].addr, "cached")
         /\ ReqSet(c) \in Set /\ HomeOf[ReqSet(c)] = c
         /\ mshr[c].lce \in Open(ReqSet(c)) /\ miss[mshr[c].lce].addr = mshr[c].addr
         /\ miss[mshr[c].lce].phase = "sent" /\ miss[mshr[c].lce].op # "uc_rd"
<1>1. cceState[c] \in Cached
  BY DEF AtFsm, Unsourced, Working, Cached
<1>2. mshr[c].lce \in LCE /\ mshr[c].addr \in Block /\ mshr[c].lru \in Way
  BY <1>1 DEF Base, IInv, CceOK, MshrWF
<1>3. ReqSet(c) \in Set /\ HomeOf[ReqSet(c)] = c
  BY <1>1, WorksHome DEF Base
<1>4. Tok("fsm", c, 0, mshr[c].lce, mshr[c].addr, "cached")
  BY DEF Tok, FsmTok
<1>5. PICK l \in LCE, b \in Block : l = mshr[c].lce /\ b = mshr[c].addr
  BY <1>2
<1>6. /\ miss[l].phase = "sent" /\ miss[l].op # "uc_rd" /\ miss[l].addr = b
      /\ l \in Open(SetOf[b])
  BY <1>4, <1>5, TokOpen
<1>7. QED
  BY <1>2, <1>3, <1>4, <1>5, <1>6 DEF ReqSet

(* Two engines that work have different sets; an engine that works for a   *)
(* set has its transaction.                                                *)
LEMMA FsmNot ==
  ASSUME Base, NEW a, NEW x, NEW i \in Nat, NEW l \in LCE, NEW b \in Block,
         Tok(a, x, i, l, b, "cached"), a \notin {"req", "fsm"}, NEW c \in CCE, AtFsm(c)
  PROVE  ReqSet(c) # SetOf[b]
<1>1. PICK k \in LCE, bb \in Block : k = mshr[c].lce /\ bb = mshr[c].addr
  BY FsmHas
<1>2. Tok("fsm", c, 0, k, bb, "cached")
  BY <1>1, FsmHas
<1>3. SetOf[b] # SetOf[bb]
  BY <1>2, OnePlace
<1>4. QED
  BY <1>1, <1>3 DEF ReqSet

----------------------------------------------------------------------------
(* What an engine writes in the directory.                                 *)

(* What a step does to the entries of set s.                               *)
DirSame(s) == \A k \in LCE, v \in Way : dir'[k][<<s, v>>] = dir[k][<<s, v>>]
(* Entry (l, w) of set s is written, the other entries of the set stay.    *)
DirPut(s, l, w, blk, st) ==
  \A k \in LCE, v \in Way :
    \/ /\ ~(k = l /\ v = w) /\ dir'[k][<<s, v>>] = dir[k][<<s, v>>]
    \/ /\ k = l /\ v = w
       /\ dir'[k][<<s, v>>].blk = blk /\ dir'[k][<<s, v>>].st = st

(* What a write of an entry of the directory does to the entries of a set. *)
LEMMA PutIs ==
  ASSUME NEW l, NEW b, NEW w, NEW blk, NEW st, DirEntry(l, b, w, blk, st), NEW s \in Set
  PROVE  /\ s = SetOf[b] => DirPut(s, l, w, blk, st)
         /\ s # SetOf[b] => DirSame(s)
<1>1. \A v \in Way : <<s, v>> \in Frame
  BY DEF Frame
<1>2. \A v \in Way : <<s, v>> = FrameOf(b, w) <=> s = SetOf[b] /\ v = w
  BY DEF FrameOf
<1>3. \A k \in LCE, v \in Way :
        \/ dir'[k][<<s, v>>] = dir[k][<<s, v>>] /\ ~(k = l /\ <<s, v>> = FrameOf(b, w))
        \/ /\ k = l /\ <<s, v>> = FrameOf(b, w)
           /\ dir'[k][<<s, v>>].blk = blk /\ dir'[k][<<s, v>>].st = st
  BY <1>1 DEF DirEntry
<1>4. QED
  BY <1>2, <1>3 DEF DirPut, DirSame

(* Where the engine goes when it need not replace, or no longer.           *)
Filled(c) ==
  /\ Invalidate(mshr[c]) => cceState'[c] = "inv_cmd" /\ toInv'[c] = Invalidated(c)
  /\ ~Invalidate(mshr[c]) => cceState'[c] = FillStep(mshr[c])

(* The steps that write the directory, and the end of a replacement.       *)
LEMMA WriteStep ==
  ASSUME Base, NEW c \in CCE, CceWriteNextState(c)
  PROVE  /\ cceState[c] = "write_next_state"
         /\ DirPut(ReqSet(c), mshr[c].lce, GrantWay(c), mshr[c].addr, mshr[c].next)
         /\ mshr' = mshr /\ sharers' = sharers /\ cmdNet' = cmdNet
         /\ mshr[c].rf => cceState'[c] = "replacement"
         /\ ~mshr[c].rf => Filled(c)
<1>1. cceState[c] = "write_next_state" /\ mshr' = mshr /\ sharers' = sharers /\ cmdNet' = cmdNet
  BY DEF CceWriteNextState, netVars
<1>2. /\ mshr[c].lce \in LCE /\ mshr[c].addr \in Block /\ mshr[c].lru \in Way
      /\ mshr[c].uf => mshr[c].way \in Way
  BY <1>1, MshrKnown DEF Base, Decided
<1>3. PICK l \in LCE, b \in Block : l = mshr[c].lce /\ b = mshr[c].addr
  BY <1>2
<1>4. ReqSet(c) \in Set /\ ReqSet(c) = SetOf[b]
  BY <1>1, <1>3, WorksHome DEF Base, Cached, ReqSet
<1>7. DirPut(ReqSet(c), mshr[c].lce, GrantWay(c), mshr[c].addr, mshr[c].next)
  <2>1. CASE mshr[c].uf
    <3>1. PICK w \in Way : w = mshr[c].way
      BY <1>2, <2>1
    <3>2. dir' = WriteState(dir, l, b, w, mshr[c].next)
      BY <1>3, <2>1, <3>1 DEF CceWriteNextState
    <3>3. DirEntry(l, b, w, dir[l][FrameOf(b, w)].blk, mshr[c].next)
      BY <3>2, StateWritten DEF Base
    <3>4. dir[l][FrameOf(b, w)].blk = b
      BY <1>1, <1>3, <2>1, <3>1 DEF Base, SerialInv, DirSetInv, FoundBlk, Decided
    <3>5. QED
      BY <1>3, <1>4, <2>1, <3>1, <3>3, <3>4, PutIs DEF GrantWay
  <2>2. CASE ~mshr[c].uf
    <3>1. PICK w \in Way : w = mshr[c].lru
      BY <1>2
    <3>2. dir' = WriteEntry(dir, l, b, w, mshr[c].next)
      BY <1>3, <2>2, <3>1 DEF CceWriteNextState
    <3>3. DirEntry(l, b, w, b, mshr[c].next)
      BY <3>2, EntryWritten DEF Base
    <3>4. QED
      BY <1>3, <1>4, <2>2, <3>1, <3>3, PutIs DEF GrantWay
  <2>3. QED
    BY <2>1, <2>2
<1>8. cceState \in [CCE -> CceStates] /\ toInv \in [CCE -> SUBSET LCE]
  BY DEF Base, IInv, CceOK, CceTypeOK
<1>9. mshr[c].rf => cceState'[c] = "replacement"
  BY <1>8 DEF CceWriteNextState, Goto
<1>10. ~mshr[c].rf => Filled(c)
  BY <1>8 DEF CceWriteNextState, StartInvOrFill, Filled, Goto
<1>11. QED
  BY <1>1, <1>7, <1>9, <1>10

(* What the write-back of a victim changes.                                *)
LEMMA EvictStep ==
  ASSUME Base, NEW c \in CCE, CceReplacementWbResp(c)
  PROVE  /\ cceState[c] = "replacement_wb_resp" /\ Filled(c)
         /\ dir' = dir /\ sharers' = sharers /\ cmdNet' = cmdNet
<1>1. cceState \in [CCE -> CceStates] /\ toInv \in [CCE -> SUBSET LCE]
  BY DEF Base, IInv, CceOK, CceTypeOK
<1>2. Filled(c)
  BY <1>1 DEF CceReplacementWbResp, StartInvOrFill, Filled, Goto
<1>3. QED
  BY <1>2 DEF CceReplacementWbResp

(* The engine invalidates way w of cache l.                                *)
InvSent(c, l, w) ==
  /\ l \in LCE /\ w \in Way /\ l \in toInv[c] /\ w = sharers[c][l]
  /\ DirPut(ReqSet(c), l, w, dir[l][<<ReqSet(c), w>>].blk, "I")
  /\ cmdNet' = cmdNet \cup {[type |-> "inv", src |-> c, dst |-> l, addr |-> mshr[c].addr,
                             way |-> w]}
  /\ toInv'[c] = toInv[c] \ {l}
  /\ toInv[c] = {l} => cceState'[c] = "inv_ack"
  /\ toInv[c] # {l} => cceState'[c] = "inv_cmd"

(* What sending an invalidation changes.                                   *)
LEMMA InvStep ==
  ASSUME Base, NEW c \in CCE, CceInvCmd(c)
  PROVE  /\ cceState[c] = "inv_cmd" /\ mshr' = mshr /\ sharers' = sharers
         /\ \E l, w : InvSent(c, l, w)
<1>1. cceState[c] = "inv_cmd" /\ mshr' = mshr /\ sharers' = sharers
  BY DEF CceInvCmd
<1>2. PICK l \in toInv[c] :
        /\ SendCmd([type |-> "inv", src |-> c, dst |-> l, addr |-> mshr[c].addr,
                    way |-> sharers[c][l]])
        /\ dir' = WriteState(dir, l, mshr[c].addr, sharers[c][l], "I")
        /\ toInv' = [toInv EXCEPT ![c] = @ \ {l}]
        /\ Goto(c, IF toInv[c] = {l} THEN "inv_ack" ELSE "inv_cmd")
  BY DEF CceInvCmd
<1>3. cceState \in [CCE -> CceStates] /\ toInv \in [CCE -> SUBSET LCE]
  BY DEF Base, IInv, CceOK, CceTypeOK
<1>4. l \in LCE /\ sharers[c][l] \in Way
  BY <1>1, <1>3 DEF Base, IInv, CceOK, InvWF
<1>5. PICK w \in Way : w = sharers[c][l]
  BY <1>4
<1>6. PICK b \in Block : b = mshr[c].addr
  BY <1>1, MshrKnown DEF Base, Decided
<1>7. ReqSet(c) \in Set /\ ReqSet(c) = SetOf[b]
  BY <1>1, <1>6, WorksHome DEF Base, Cached, ReqSet
<1>8. DirEntry(l, b, w, dir[l][FrameOf(b, w)].blk, "I")
  BY <1>2, <1>4, <1>5, <1>6, StateWritten DEF Base
<1>9. DirPut(ReqSet(c), l, w, dir[l][<<ReqSet(c), w>>].blk, "I")
  BY <1>7, <1>8, PutIs DEF FrameOf
<1>10. toInv'[c] = toInv[c] \ {l}
  BY <1>2, <1>3
<1>11. /\ toInv[c] = {l} => cceState'[c] = "inv_ack"
       /\ toInv[c] # {l} => cceState'[c] = "inv_cmd"
  BY <1>2, <1>3 DEF Goto
<1>12. cmdNet' = cmdNet \cup {[type |-> "inv", src |-> c, dst |-> l, addr |-> mshr[c].addr,
                               way |-> w]}
  BY <1>2, <1>5 DEF SendCmd
<1>13. InvSent(c, l, w)
  BY <1>4, <1>5, <1>9, <1>10, <1>11, <1>12 DEF InvSent
<1>14. QED
  BY <1>1, <1>13

(* The command that makes the owner give the block to the target.          *)
Given(c, m) ==
  /\ m.type = IF mshr[c].write THEN "st_tr" ELSE "st_tr_wb"
  /\ m.src = c /\ m.dst = mshr[c].owner /\ m.addr = mshr[c].addr /\ m.way = mshr[c].ownerWay
  /\ m.st = IF mshr[c].write THEN "I" ELSE "S"
  /\ m.target = mshr[c].lce /\ m.targetWay = mshr[c].lru /\ m.targetSt = mshr[c].next

(* What sending a transfer to the owner changes.                           *)
LEMMA TransferStep ==
  ASSUME Base, NEW c \in CCE, CceTransfer(c)
  PROVE  /\ cceState[c] = "transfer" /\ mshr[c].xf /\ mshr' = mshr /\ sharers' = sharers
         /\ mshr[c].owner \in LCE /\ mshr[c].ownerWay \in Way
         /\ cceState'[c] \in {"resolve_speculation", "transfer_wb_resp"}
         /\ \E m : /\ Given(c, m) /\ cmdNet' = cmdNet \cup {m}
                   /\ DirPut(ReqSet(c), mshr[c].owner, mshr[c].ownerWay, mshr[c].addr, m.st)
<1>1. cceState[c] = "transfer" /\ mshr' = mshr /\ sharers' = sharers
  BY DEF CceTransfer
<1>2. mshr[c].xf
  BY <1>1 DEF Base, IInv, CceOK, MshrWF
<1>3. PICK m : m = [type |-> IF mshr[c].write THEN "st_tr" ELSE "st_tr_wb",
                    src |-> c, dst |-> mshr[c].owner, addr |-> mshr[c].addr,
                    way |-> mshr[c].ownerWay, st |-> IF mshr[c].write THEN "I" ELSE "S",
                    target |-> mshr[c].lce, targetWay |-> mshr[c].lru, targetSt |-> mshr[c].next]
  OBVIOUS
<1>4. Given(c, m)
  BY <1>3 DEF Given
<1>5. cmdNet' = cmdNet \cup {m} /\ dir' = WriteState(dir, mshr[c].owner, mshr[c].addr, mshr[c].ownerWay, m.st)
  BY <1>3 DEF CceTransfer, SendCmd
<1>6. PICK l \in LCE, w \in Way, b \in Block :
        l = mshr[c].owner /\ w = mshr[c].ownerWay /\ b = mshr[c].addr
  BY <1>1, <1>2, MshrKnown DEF Base, Decided
<1>7. ReqSet(c) \in Set /\ ReqSet(c) = SetOf[b]
  BY <1>1, <1>6, WorksHome DEF Base, Cached, ReqSet
<1>8. DirEntry(l, b, w, dir[l][FrameOf(b, w)].blk, m.st)
  BY <1>5, <1>6, StateWritten DEF Base
<1>9. dir[l][FrameOf(b, w)].blk = b
  BY <1>1, <1>2, <1>6 DEF Base, SerialInv, DirSetInv, FoundBlk, Decided
<1>10. DirPut(ReqSet(c), l, w, b, m.st)
  BY <1>7, <1>8, <1>9, PutIs
<1>11. cceState \in [CCE -> CceStates]
  BY DEF Base, IInv, CceOK, CceTypeOK
<1>12. cceState'[c] \in {"resolve_speculation", "transfer_wb_resp"}
  BY <1>11 DEF CceTransfer, Goto
<1>13. QED
  BY <1>1, <1>2, <1>4, <1>5, <1>6, <1>10, <1>12

----------------------------------------------------------------------------
(* What the other engines leave alone.                                     *)

(* An engine in service stays there; it gets there by the last             *)
(* acknowledgement of its synchronisation.                                 *)
LEMMA ServiceKept ==
  ASSUME Base, Base', NEW c \in CCE, CceStep(c), NEW d \in CCE, InService(d)
  PROVE  InService(d)'
<1>1. CASE d # c
  <2>1. cceState'[d] = cceState[d]
    BY <1>1, CceOthers DEF Base
  <2>2. QED
    BY <2>1 DEF InService
<1>2. CASE d = c
  <2>1. StateMove(cceState[c], cceState'[c])
    BY StateMoves DEF Base
  <2>2. cceState'[c] # "error" /\ cceState'[c] \in CceStates /\ cceState[c] \in CceStates
    BY DEF Base, CountInv, NoError, IInv, CceOK, CceTypeOK
  <2>3. QED
    BY <1>2, <2>1, <2>2 DEF StateMove, Moves1, After, Cached, InService, CceStates
<1>3. QED
  BY <1>1, <1>2

(* An engine comes into service with the last acknowledgement of its sync. *)
LEMMA ServiceStarts ==
  ASSUME Base, NEW c \in CCE, CceStep(c), NEW d \in CCE, ~InService(d), InService(d)'
  PROVE  d = c /\ CceSyncAck(c)
<1>1. d = c
  <2>1. d # c => cceState'[d] = cceState[d]
    BY CceOthers DEF Base
  <2>2. QED
    BY <2>1 DEF InService
<1>2. cceState[c] \notin Cached \cup {"ready", "uc_req"}
  BY <1>1 DEF InService, Cached
<1>3. cceState \in [CCE -> CceStates]
  BY DEF Base, IInv, CceOK, CceTypeOK
<1>4. cceState'[c] # cceState[c]
  BY <1>1 DEF InService
<1>5. ~CceReset(c)
  BY <1>1, <1>3 DEF CceReset, Goto, InService
<1>6. ~CceClearDir(c)
  BY <1>1, <1>3 DEF CceClearDir, Goto, InService
<1>7. ~CceLeaveUncached(c)
  BY <1>1, <1>3 DEF CceLeaveUncached, Goto, InService
<1>8. \A l \in LCE : ~CceSendSync(c, l)
  BY <1>1, <1>3 DEF CceSendSync, Goto, InService
<1>9. /\ ~CceUcReq(c) /\ ~CceReadPending(c) /\ ~CceDeqReq(c) /\ ~CceReadMemSpec(c)
      /\ ~CceReadDir(c) /\ ~CceWriteNextState(c) /\ ~CceReplacement(c)
      /\ ~CceReplacementWbResp(c) /\ ~CceInvCmd(c) /\ ~CceInvAck(c) /\ ~CceUpgrade(c)
      /\ ~CceTransfer(c) /\ ~CceTransferWbResp(c) /\ ~CceResolve(c)
      /\ \A l \in LCE : ~CceReady(c, l)
  BY <1>2 DEF Cached, CceUcReq, CceReadPending, CceDeqReq, CceReadMemSpec, CceReadDir,
    CceWriteNextState, CceReplacement, CceReplacementWbResp, CceInvCmd, CceInvAck, CceUpgrade,
    CceTransfer, CceTransferWbResp, CceResolve, CceReady
<1>10. QED
  BY <1>1, <1>4, <1>5, <1>6, <1>7, <1>8, <1>9, FsmBy

(* Which step changes the directory entries of a set.                      *)
LEMMA DirStep ==
  ASSUME Base, NEW c \in CCE, CceStep(c), NEW s \in Set
  PROVE  \/ DirSame(s)
         \/ HomeOf[s] = c /\ CceClearDir(c)
         \/ /\ HomeOf[s] = c /\ s = ReqSet(c)
            /\ CceWriteNextState(c) \/ CceInvCmd(c) \/ CceTransfer(c)
<1>1. CASE HomeOf[s] # c
  BY <1>1, DirOthers DEF Base, DirSame
<1>2. CASE dir' = dir
  BY <1>2 DEF DirSame
<1>3. CASE HomeOf[s] = c /\ s # ReqSet(c) /\ dir' # dir /\ ~CceClearDir(c)
  <2>1. PICK b : b = mshr[c].addr
    OBVIOUS
  <2>2. PICK k, v, blk, st : DirEntry(k, b, v, blk, st)
    BY <1>3, <2>1, DirMoves DEF DirMove, Base
  <2>3. s # SetOf[b]
    BY <1>3, <2>1 DEF ReqSet
  <2>4. QED
    BY <2>2, <2>3, PutIs
<1>4. CASE HomeOf[s] = c /\ s = ReqSet(c) /\ dir' # dir /\ ~CceClearDir(c)
  <2>1. CceWriteNextState(c) \/ CceInvCmd(c) \/ CceTransfer(c)
    BY <1>4, DirBy
  <2>2. QED
    BY <1>4, <2>1
<1>5. CASE HomeOf[s] = c /\ CceClearDir(c)
  BY <1>5
<1>6. QED
  BY <1>1, <1>2, <1>3, <1>4, <1>5

(* The engine leaves a way group alone whose block is on its way.          *)
LEMMA DirQuiet ==
  ASSUME Base, PendStart, NEW a, NEW x, NEW i \in Nat, NEW l \in LCE, NEW b \in Block,
         Tok(a, x, i, l, b, "cached"), a \notin {"req", "fsm"}, NEW c \in CCE, CceStep(c)
  PROVE  DirSame(SetOf[b])
<1>1. PICK s \in Set : s = SetOf[b]
  BY ConstantsAssumption
<1>2. l \in Open(s)
  BY <1>1, TokOpen
<1>3. InService(HomeOf[s])
  BY <1>2, OpenServed
<1>4. AtFsm(c) => ReqSet(c) # s
  BY <1>1, FsmNot
<1>5. ~(HomeOf[s] = c /\ CceClearDir(c))
  BY <1>3 DEF CceClearDir, InService
<1>6. CceWriteNextState(c) \/ CceInvCmd(c) \/ CceTransfer(c) => AtFsm(c)
  BY DEF CceWriteNextState, CceInvCmd, CceTransfer, AtFsm, Unsourced, Working, Cached
<1>7. QED
  BY <1>1, <1>4, <1>5, <1>6, DirStep

(* An engine that works for a set whose transaction is open does not start *)
(* on it again.                                                            *)
LEMMA EarlyKept ==
  ASSUME Base, NEW c \in CCE, CceStep(c), NEW s \in Set, Open(s) # {}, Early(s)'
  PROVE  Early(s)
<1>1. CASE HomeOf[s] # c
  <2>1. HomeOf[s] \in CCE
    BY ConstantsAssumption
  <2>2. cceState'[HomeOf[s]] = cceState[HomeOf[s]] /\ mshr'[HomeOf[s]] = mshr[HomeOf[s]]
    BY <1>1, <2>1, CceOthers DEF Base
  <2>3. QED
    BY <2>2 DEF Early, Serving, ReqSet
<1>2. CASE HomeOf[s] = c
  <2>1. cceState'[c] \in {"read_mem_spec", "read_dir", "write_next_state"} /\ ReqSet(c)' = s
    BY <1>2 DEF Early, Serving
  <2>2. StateMove(cceState[c], cceState'[c])
    BY StateMoves DEF Base
  <2>3. cceState[c] \in {"deq_lce_req", "read_mem_spec", "read_dir", "write_next_state"}
    BY <2>1, <2>2 DEF StateMove, Moves1, After, Cached
  <2>4. SameRequest(c)
    <3>1. ~CceUcReq(c) /\ ~CceResolve(c) /\ \A l \in LCE : ~CceReady(c, l)
      BY <2>3 DEF CceUcReq, CceResolve, CceReady
    <3>2. QED
      BY <3>1, FsmStays DEF Base
  <2>5. ReqSet(c) = s
    BY <2>1, <2>4 DEF SameRequest, ReqSet
  <2>6. cceState[c] # "deq_lce_req"
    <3>1. cceState[c] = "deq_lce_req" => pending[ReqSet(c)] = 0
      BY DEF Base, SerialInv, FreeInv
    <3>2. pending[s] # 0
      BY OpenOne
    <3>3. QED
      BY <2>5, <3>1, <3>2
  <2>7. QED
    BY <1>2, <2>3, <2>5, <2>6 DEF Early, Serving, Working, Cached
<1>3. QED
  BY <1>1, <1>2

----------------------------------------------------------------------------
(* Commands on their way.                                                  *)

(* A command on its way to a cache, or there.                              *)
LEMMA ArrivesIn ==
  ASSUME Base, TakeInv, GrantInv, NEW l \in LCE, NEW m, Arrives(m, l)
  PROVE  m \in Command /\ Takes(m) /\ Grants(m)
<1>1. CASE m \in cmdNet
  BY <1>1 DEF Base, IInv, NetTypeOK, TakeInv, TakeCmd, GrantInv, GrantCmd
<1>2. CASE m = lceCmd[l] /\ m # None /\ lceState[l] = "ready"
  <2>1. lceCmd[l] \in Command \cup {None}
    BY DEF Base, IInv, LceOK, LceTypeOK
  <2>2. Takes(m) /\ Grants(m)
    BY <1>2 DEF TakeInv, TakeHeld, GrantInv, GrantHeld, Passed
  <2>3. QED
    BY <1>2, <2>1, <2>2
<1>3. QED
  BY <1>1, <1>2 DEF Arrives

(* The commands that make an owner send its block to another cache.        *)
Transfer == {"st_tr", "st_tr_wb"}
(* Another cache waits for the block cache l is told to send.              *)
HasGiver(l, s) ==
  \E a \in {"cmd", "lce"}, k \in LCE, b \in Block : \E x :
    /\ Tok(a, x, 0, k, b, "cached") /\ SetOf[b] = s /\ k # l
    /\ a = "cmd" => x.type \in Transfer
    /\ a = "lce" => x = l /\ Holds(l, Transfer)

(* A transfer on its way to a cache is the place of the one miss of its    *)
(* set.                                                                    *)
LEMMA GiveToken ==
  ASSUME Base, TakeInv, GrantInv, NEW l \in LCE, NEW s, NEW w,
         Coming(l, {"st_tr", "st_tr_wb"}, <<s, w>>)
  PROVE  HasGiver(l, s)
<1>1. PICK m : /\ Arrives(m, l) /\ m.dst = l /\ m.type \in Transfer
               /\ FrameOf(m.addr, m.way) = <<s, w>>
  BY DEF Coming, Transfer
<1>2. m \in Command /\ Takes(m)
  BY <1>1, ArrivesIn
<1>3. PICK k \in LCE, b \in Block : k = m.target /\ b = m.addr
  BY <1>1, <1>2, CommandFields DEF Transfer
<1>4. k # l
  BY <1>1, <1>2, <1>3 DEF Takes, Transfer
<1>5. SetOf[b] = s
  BY <1>1, <1>3 DEF FrameOf
<1>6. Carries(m, k, b, "cached")
  BY <1>1, <1>3 DEF Carries, Sources, Target, Kind, Transfer
<1>7. CASE m \in cmdNet
  <2>1. Tok("cmd", m, 0, k, b, "cached")
    BY <1>6, <1>7 DEF Tok, CmdTok
  <2>2. QED
    BY <1>1, <1>4, <1>5, <2>1 DEF HasGiver
<1>8. CASE m = lceCmd[l] /\ m # None /\ lceState[l] = "ready"
  <2>1. LceTok(l, k, b, "cached")
    BY <1>6, <1>8 DEF LceTok, Passed
  <2>2. Tok("lce", l, 0, k, b, "cached")
    BY <2>1 DEF Tok
  <2>3. Holds(l, Transfer)
    BY <1>1, <1>8 DEF Holds
  <2>4. QED
    BY <1>4, <1>5, <2>2, <2>3 DEF HasGiver
<1>9. QED
  BY <1>1, <1>7, <1>8 DEF Arrives

(* An invalidation on its way to a cache finds its engine waiting for the  *)
(* acknowledgement.                                                        *)
LEMMA InvToken ==
  ASSUME Base, TakeInv, GrantInv, NEW l \in LCE, NEW s, NEW w, Coming(l, {"inv"}, <<s, w>>)
  PROVE  HomeOf[s] \in CCE /\ Invalidating(HomeOf[s]) /\ ReqSet(HomeOf[s]) = s
<1>1. PICK m : /\ Arrives(m, l) /\ m.dst = l /\ m.type = "inv"
               /\ FrameOf(m.addr, m.way) = <<s, w>>
  BY DEF Coming
<1>2. m \in Command /\ Takes(m)
  BY <1>1, ArrivesIn
<1>3. PICK d \in CCE : d = m.src
  BY <1>2, CommandFields
<1>4. SetOf[m.addr] = s
  BY <1>1 DEF FrameOf
<1>5. ReqSet(d) = s /\ HomeOf[s] = d
  BY <1>1, <1>2, <1>3, <1>4 DEF Takes
<1>6. Invalidating(d)
  <2>1. CASE m \in cmdNet
    <3>1. m \in InvsOf(d)
      BY <1>1, <1>3, <2>1 DEF InvsOf
    <3>2. QED
      BY <3>1, NoInvs DEF Base, CountInv
  <2>2. CASE m = lceCmd[l] /\ m # None
    <3>1. l \in HeldInvs(d)
      BY <1>1, <1>3, <2>2 DEF HeldInvs, Holds
    <3>2. QED
      BY <3>1, NoInvs DEF Base, CountInv
  <2>3. QED
    BY <1>1, <2>1, <2>2 DEF Arrives
<1>7. QED
  BY <1>3, <1>5, <1>6

(* Why a tag may differ from its entry.                                    *)
LEMMA Differs ==
  ASSUME Base, TakeInv, GrantInv, TagInv, NEW s \in Set, NEW l \in LCE, NEW w \in Way,
         InService(HomeOf[s]), ~Same(l, s, w)
  PROVE  \/ ToFill(l, s, w) \/ ToUpgrade(l, s, w)
         \/ /\ Invalidating(HomeOf[s]) /\ ReqSet(HomeOf[s]) = s /\ HomeOf[s] \in CCE
            /\ dir[l][<<s, w>>].st = "I"
         \/ /\ HasGiver(l, s)
            /\ tag[l][<<s, w>>].blk = dir[l][<<s, w>>].blk /\ tag[l][<<s, w>>].st \in Owned
<1>1. ToInvalidate(l, s, w) =>
        /\ Invalidating(HomeOf[s]) /\ ReqSet(HomeOf[s]) = s /\ HomeOf[s] \in CCE
        /\ dir[l][<<s, w>>].st = "I"
  BY InvToken DEF ToInvalidate
<1>2. ToGive(l, s, w) =>
        /\ HasGiver(l, s)
        /\ tag[l][<<s, w>>].blk = dir[l][<<s, w>>].blk /\ tag[l][<<s, w>>].st \in Owned
  BY GiveToken DEF ToGive
<1>3. QED
  BY <1>1, <1>2 DEF TagInv

(* While the engine has the request and asks nobody to give a copy up.     *)
LEMMA FsmSettled ==
  ASSUME Base, TakeInv, GrantInv, TagInv, NEW c \in CCE, AtFsm(c), ~Invalidating(c),
         NEW s \in Set, s = ReqSet(c), NEW l \in LCE, NEW w \in Way
  PROVE  Same(l, s, w) \/ ToFill(l, s, w) \/ ToUpgrade(l, s, w)
<1>1. HomeOf[s] = c
  BY FsmHas
<1>2. InService(c)
  BY DEF AtFsm, Unsourced, Working, Cached, InService
<1>3. ~HasGiver(l, s)
  <2> SUFFICES ASSUME NEW a \in {"cmd", "lce"}, NEW k \in LCE, NEW b \in Block, NEW x,
                      Tok(a, x, 0, k, b, "cached"), SetOf[b] = s
               PROVE  FALSE
    BY DEF HasGiver
  <2>1. QED
    BY FsmNot
<1>4. QED
  BY <1>1, <1>2, <1>3, Differs

(* While a cache holds the block it waits for, the other caches agree with *)
(* the directory.                                                          *)
LEMMA TagsSettled ==
  ASSUME Base, StartInv, TakeInv, GrantInv, TagInv, NEW k \in LCE,
         Holds(k, {"data", "st_wakeup"}), lceState[k] \notin Passed,
         NEW s \in Set, s = SetOf[lceCmd[k].addr], NEW l \in LCE, l # k, NEW w \in Way
  PROVE  Same(l, s, w)
<1>1. lceCmd[k] \in Command
  BY DEF Base, IInv, LceOK, LceTypeOK, Holds
<1>2. PICK b \in Block : b = lceCmd[k].addr
  BY <1>1, CommandFields DEF Holds
<1>3. lceCmd[k].dst = k
  BY DEF Base, SerialInv, HeldDst, Holds
<1>4. LceTok(k, k, b, "cached")
  BY <1>2, <1>3 DEF LceTok, Carries, Sources, Target, Kind, Holds
<1>5. Tok("lce", k, 0, k, b, "cached")
  BY <1>4 DEF Tok
<1>6. k \in Open(s)
  BY <1>2, <1>5, TokOpen
<1>7. InService(HomeOf[s])
  BY <1>6, OpenServed DEF StartInv
<1>8. ~ToFill(l, s, w) /\ ~ToUpgrade(l, s, w)
  BY <1>6, OpenOne DEF ToFill, ToUpgrade
<1>9. ~(HomeOf[s] \in CCE /\ Invalidating(HomeOf[s]) /\ ReqSet(HomeOf[s]) = s)
  <2> SUFFICES ASSUME NEW d \in CCE, Invalidating(d), ReqSet(d) = s PROVE FALSE
    OBVIOUS
  <2>1. AtFsm(d)
    BY DEF Invalidating, AtFsm, Unsourced, Working, Cached
  <2>2. QED
    BY <1>2, <1>5, <2>1, FsmNot
<1>10. ~HasGiver(l, s)
  <2> SUFFICES ASSUME NEW a \in {"cmd", "lce"}, NEW j \in LCE, NEW bb \in Block, NEW x,
                      Tok(a, x, 0, j, bb, "cached"), SetOf[bb] = s,
                      a = "lce" => x = l
               PROVE  FALSE
    BY DEF HasGiver
  <2>1. a = "lce" /\ x = k
    BY <1>2, <1>5, OnePlace
  <2>2. QED
    BY <2>1
<1>11. QED
  BY <1>7, <1>8, <1>9, <1>10, Differs

(* When its way group has no transaction, so does the cache.               *)
LEMMA RestSettled ==
  ASSUME Base, TakeInv, GrantInv, TagInv, NEW s \in Set, InService(HomeOf[s]), Open(s) = {},
         NEW l \in LCE, NEW w \in Way
  PROVE  Same(l, s, w)
<1>1. ~ToFill(l, s, w) /\ ~ToUpgrade(l, s, w)
  BY DEF ToFill, ToUpgrade
<1>2. ~(HomeOf[s] \in CCE /\ Invalidating(HomeOf[s]) /\ ReqSet(HomeOf[s]) = s)
  <2> SUFFICES ASSUME NEW d \in CCE, Invalidating(d), ReqSet(d) = s PROVE FALSE
    OBVIOUS
  <2>1. AtFsm(d)
    BY DEF Invalidating, AtFsm, Unsourced, Working, Cached
  <2>2. QED
    BY <2>1, FsmHas
<1>3. ~HasGiver(l, s)
  <2> SUFFICES ASSUME NEW a \in {"cmd", "lce"}, NEW j \in LCE, NEW bb \in Block, NEW x,
                      Tok(a, x, 0, j, bb, "cached"), SetOf[bb] = s
               PROVE  FALSE
    BY DEF HasGiver
  <2>1. QED
    BY TokOpen
<1>4. QED
  BY <1>1, <1>2, <1>3, Differs

----------------------------------------------------------------------------
(* Reset, the directory and the pending bits.                              *)

(* PendStart, step of an engine.                                           *)
LEMMA PendStartCce ==
  ASSUME Base, Base', PendStart, NEW c \in CCE, CceStep(c)
  PROVE  PendStart'
<1> SUFFICES ASSUME NEW s \in Set, ~InService(HomeOf[s])' PROVE pending'[s] = 0
  BY DEF PendStart
<1>1. HomeOf[s] \in CCE
  BY ConstantsAssumption
<1>2. ~InService(HomeOf[s])
  BY <1>1, ServiceKept
<1>3. pending[s] = 0
  BY <1>2 DEF PendStart
<1>4. Open(s) = {} /\ AcksFor(s) = {} /\ MemOpsFor(s) = {}
  BY <1>3, Quiet DEF Base
<1>5. ~CountOpen(c, s)
  <2>1. CceDeqReq(c) => cceState[c] \in Cached
    BY DEF CceDeqReq, Cached
  <2>2. CceDeqReq(c) => HomeOf[ReqSet(c)] = c
    BY <2>1, WorksHome DEF Base
  <2>3. CceDeqReq(c) => InService(c)
    BY DEF CceDeqReq, InService
  <2>4. QED
    BY <1>2, <2>2, <2>3 DEF CountOpen
<1>6. ~CountAck(c, s)
  BY <1>4 DEF CountAck
<1>7. ~CountDone(c, s)
  <2>1. Cardinality(MemOpsFor(s)) = 0
    BY <1>4, FS_EmptySet
  <2>2. Cardinality(MemOpsFor(s)') \in Nat
    BY OpsNextIs DEF Base
  <2>3. QED
    BY <2>1, <2>2 DEF CountDone
<1>8. ~CountAdd(c, s)
  <2>1. \A r : ReadNew(c, r) \/ WriteNew(c, r) => InService(c)
    BY DEF ReadNew, WriteNew, InService
  <2>2. QED
    BY <1>2, <2>1 DEF CountAdd
<1>9. CountSame(s)
  BY <1>5, <1>6, <1>7, <1>8, CountCce DEF Base
<1>10. QED
  BY <1>3, <1>9 DEF CountSame

(* StartDir, step of an engine.                                            *)
LEMMA StartDirCce ==
  ASSUME Base, Base', StartDir, NEW c \in CCE, CceStep(c)
  PROVE  StartDir'
<1> SUFFICES ASSUME NEW s \in Set, Cleared(HomeOf[s])', ~InService(HomeOf[s])',
                    NEW l \in LCE, NEW w \in Way
             PROVE  dir'[l][<<s, w>>].st = "I"
  BY DEF StartDir
<1>1. HomeOf[s] \in CCE
  BY ConstantsAssumption
<1>2. ~InService(HomeOf[s])
  BY <1>1, ServiceKept
<1>3. CASE HomeOf[s] = c /\ CceClearDir(c)
  BY <1>3, ClearedEntry
<1>4. CASE ~(HomeOf[s] = c /\ CceClearDir(c))
  <2>1. Cleared(HomeOf[s])
    BY <1>1, <1>4, ClearedKept DEF Base
  <2>2. ~(HomeOf[s] = c /\ (CceWriteNextState(c) \/ CceInvCmd(c) \/ CceTransfer(c)))
    BY <1>2 DEF CceWriteNextState, CceInvCmd, CceTransfer, InService
  <2>3. DirSame(s)
    BY <1>4, <2>2, DirStep
  <2>4. QED
    BY <1>2, <2>1, <2>3 DEF StartDir, DirSame
<1>5. QED
  BY <1>3, <1>4

(* StartTag, step of an engine: it comes into service after every cache    *)
(* has cleared its tags.                                                   *)
LEMMA StartTagCce ==
  ASSUME Base, Base', StartTag, NEW c \in CCE, CceStep(c)
  PROVE  StartTag'
<1> SUFFICES ASSUME NEW s \in Set, NEW l \in LCE, ~InService(HomeOf[s])', Past(l)', NEW w \in Way
             PROVE  tag'[l][<<s, w>>].st = "I"
  BY DEF StartTag
<1>1. HomeOf[s] \in CCE
  BY ConstantsAssumption
<1>2. ~InService(HomeOf[s])
  BY <1>1, ServiceKept
<1>3. tag' = tag /\ lceState' = lceState
  BY CceLeaves
<1>4. Past(l)
  BY <1>3 DEF Past
<1>5. QED
  BY <1>2, <1>3, <1>4 DEF StartTag

(* StartInv, step of an engine.                                            *)
LEMMA StartCce ==
  ASSUME Base, Base', StartInv, NEW c \in CCE, CceStep(c)
  PROVE  StartInv'
BY PendStartCce, StartDirCce, StartTagCce DEF StartInv

----------------------------------------------------------------------------
(* What a cache writes in its tags.                                        *)

(* A cache does nothing to the others.                                     *)
LEMMA LceOthers ==
  ASSUME Base, NEW k \in LCE, LceStep(k), NEW l \in LCE, l # k
  PROVE  /\ lceState'[l] = lceState[l] /\ lceCmd'[l] = lceCmd[l] /\ miss'[l] = miss[l]
         /\ tag'[l] = tag[l]
<1>1. lceState'[l] = lceState[l]
  BY LceStateBy DEF LceReset, LceClear, LceData, LceStWakeup, LceStWb, LceStTr, LceCohAck, LceTr,
    LceWbStatRd, LceWb, LceWbDirtyRd, LceWbDirtySend, LceGoto, Base, IInv, LceOK, LceTypeOK
<1>2. lceCmd'[l] = lceCmd[l]
  BY LceCmdBy DEF LceHead, LceSync, LceInv, LceUcStDone, LceUcData, LceCohAck, LceTr, LceWb,
    LceWbDirtySend, Dequeue, Base, IInv, LceOK, LceTypeOK
<1>3. miss'[l] = miss[l]
  BY MissBy DEF LceUcData, LceCohAck, LceSendReq, CoreReplay, LockExpire, CoreMiss, CoreUcLoad,
    Complete, Base, IInv, CoreOK, CoreTypeOK
<1>4. tag'[l] = tag[l]
  BY TagBy DEF LceClear, LceInv, LceData, LceStWakeup, LceStWb, LceStTr, LceTagOnly, SetState,
    SetTag, Base, IInv, CacheTypeOK
<1>5. QED
  BY <1>1, <1>2, <1>3, <1>4

(* What it does to its tags: it clears them, or executes a command.        *)
TagPut(k, s, w, blk, st) ==
  \A t \in Set, v \in Way :
    \/ ~(t = s /\ v = w) /\ tag'[k][<<t, v>>] = tag[k][<<t, v>>]
    \/ t = s /\ v = w /\ tag'[k][<<t, v>>].blk = blk /\ tag'[k][<<t, v>>].st = st
(* Every tag of the cache becomes invalid.                                 *)
TagCleared(k) ==
  \A t \in Set, v \in Way :
    tag'[k][<<t, v>>].st = "I" /\ tag'[k][<<t, v>>].blk = tag[k][<<t, v>>].blk
(* Cache k has command m, for way w of set s, and may execute it.          *)
Doing(k, m, s, w) ==
  /\ lceState[k] = "ready" /\ m = lceCmd[k] /\ m # None /\ miss[k].phase # "replay"
  /\ m \in Command /\ m.dst = k /\ m.addr \in Block /\ m.way \in Way
  /\ s \in Set /\ s = SetOf[m.addr] /\ w \in Way /\ w = m.way
  /\ m.type \in {"inv", "st_wb", "st_tr", "st_tr_wb", "st_wakeup", "data"}
(* What each command writes in the tags.                                   *)
Does(k, m, s, w) ==
  /\ m.type = "inv" => TagPut(k, s, w, tag[k][<<s, w>>].blk, "I")
  /\ m.type \in {"st_wb", "st_tr", "st_tr_wb", "st_wakeup"} =>
       TagPut(k, s, w, tag[k][<<s, w>>].blk, m.st)
  /\ m.type = "data" => TagPut(k, s, w, m.addr, m.st)

(* A command a cache executes names a set and a way of the cache.          *)
LEMMA ExecutesDoing ==
  ASSUME Base, NEW k \in LCE,
         Executes(k, {"inv", "st_wb", "st_tr", "st_tr_wb", "st_wakeup", "data"})
  PROVE  \E m, s, w : Doing(k, m, s, w) /\ m = lceCmd[k] /\ CmdFrame(k) = <<s, w>>
<1>1. lceState[k] = "ready" /\ lceCmd[k] # None /\ miss[k].phase # "replay"
      /\ lceCmd[k].type \in {"inv", "st_wb", "st_tr", "st_tr_wb", "st_wakeup", "data"}
  BY DEF Executes, Holds
<1>2. lceCmd[k] \in Command
  BY <1>1 DEF Base, IInv, LceOK, LceTypeOK
<1>3. lceCmd[k].dst = k
  BY <1>1 DEF Base, SerialInv, HeldDst
<1>4. PICK m \in Command : m = lceCmd[k]
  BY <1>2
<1>5. m.addr \in Block /\ m.way \in Way
  BY <1>1, <1>4, CommandFields
<1>6. PICK s \in Set, w \in Way : s = SetOf[m.addr] /\ w = m.way
  BY <1>5, ConstantsAssumption
<1>7. CmdFrame(k) = <<s, w>>
  BY <1>4, <1>6 DEF CmdFrame, FrameOf
<1>8. Doing(k, m, s, w)
  BY <1>1, <1>3, <1>4, <1>5, <1>6 DEF Doing
<1>9. QED
  BY <1>4, <1>7, <1>8

(* What writing a state does to the tags of a cache.                       *)
LEMMA SetIs ==
  ASSUME Base, NEW k \in LCE, NEW s \in Set, NEW w \in Way, CmdFrame(k) = <<s, w>>, NEW st,
         SetState(k, st)
  PROVE  TagPut(k, s, w, tag[k][<<s, w>>].blk, st)
<1>1. PICK f : f = <<s, w>>
  OBVIOUS
<1>2. f \in Frame /\ \A t \in Set, v \in Way : <<t, v>> \in Frame /\ (<<t, v>> = f <=> t = s /\ v = w)
  BY <1>1 DEF Frame
<1>3. tag \in [LCE -> [Frame -> Line]]
  BY DEF Base, IInv, CacheTypeOK
<1>4. tag' = [tag EXCEPT ![k] = [tag[k] EXCEPT ![f] = [tag[k][f] EXCEPT !.st = st]]]
  BY <1>1, <1>3 DEF SetState
<1>5. tag[k][f] \in Line
  BY <1>2, <1>3
<1>6. /\ \A g \in Frame : g # f => tag'[k][g] = tag[k][g]
      /\ tag'[k][f] = [tag[k][f] EXCEPT !.st = st]
  BY <1>2, <1>3, <1>4
<1>7. tag'[k][f].blk = tag[k][f].blk /\ tag'[k][f].st = st
  BY <1>5, <1>6 DEF Line
<1>8. \A t \in Set, v \in Way : ~(t = s /\ v = w) => tag'[k][<<t, v>>] = tag[k][<<t, v>>]
  BY <1>2, <1>6
<1>9. QED
  BY <1>1, <1>7, <1>8 DEF TagPut

(* What writing a block and its state does to the tags of a cache.         *)
LEMMA PutTagIs ==
  ASSUME Base, NEW k \in LCE, NEW s \in Set, NEW w \in Way, CmdFrame(k) = <<s, w>>, SetTag(k)
  PROVE  TagPut(k, s, w, lceCmd[k].addr, lceCmd[k].st)
<1>1. PICK f : f = <<s, w>>
  OBVIOUS
<1>2. f \in Frame /\ \A t \in Set, v \in Way : <<t, v>> \in Frame /\ (<<t, v>> = f <=> t = s /\ v = w)
  BY <1>1 DEF Frame
<1>3. tag \in [LCE -> [Frame -> Line]]
  BY DEF Base, IInv, CacheTypeOK
<1>4. PICK b, st : b = lceCmd[k].addr /\ st = lceCmd[k].st
  OBVIOUS
<1>5. tag' = [tag EXCEPT ![k] = [tag[k] EXCEPT ![f] = [blk |-> b, st |-> st]]]
  BY <1>1, <1>3, <1>4 DEF SetTag
<1>6. /\ \A g \in Frame : g # f => tag'[k][g] = tag[k][g]
      /\ tag'[k][f] = [blk |-> b, st |-> st]
  BY <1>2, <1>3, <1>5
<1>7. tag'[k][f].blk = b /\ tag'[k][f].st = st
  BY <1>6
<1>8. \A t \in Set, v \in Way : ~(t = s /\ v = w) => tag'[k][<<t, v>>] = tag[k][<<t, v>>]
  BY <1>2, <1>6
<1>9. QED
  BY <1>1, <1>4, <1>7, <1>8 DEF TagPut

(* A step of a cache leaves the tags, clears them, or executes a command.  *)
LEMMA TagStep ==
  ASSUME Base, NEW k \in LCE, LceStep(k)
  PROVE  \/ tag' = tag
         \/ LceClear(k) /\ TagCleared(k)
         \/ \E m, s, w : Doing(k, m, s, w) /\ Does(k, m, s, w)
<1>1. CASE LceClear(k)
  <2>1. \A t \in Set, v \in Way : <<t, v>> \in Frame
    BY DEF Frame
  <2>2. \A f \in Frame : tag'[k][f] = [blk |-> tag[k][f].blk, st |-> "I"]
    BY <1>1 DEF LceClear, Base, IInv, CacheTypeOK
  <2>3. \A f \in Frame : tag'[k][f].st = "I" /\ tag'[k][f].blk = tag[k][f].blk
    <3> SUFFICES ASSUME NEW f \in Frame, NEW b, b = tag[k][f].blk
                 PROVE  tag'[k][f].st = "I" /\ tag'[k][f].blk = b
      OBVIOUS
    <3>1. tag'[k][f] = [blk |-> b, st |-> "I"]
      BY <2>2
    <3>2. QED
      BY <3>1
  <2>4. TagCleared(k)
    BY <2>1, <2>3 DEF TagCleared
  <2>5. QED
    BY <1>1, <2>4
<1>2. ASSUME NEW types, Executes(k, types),
             types \subseteq {"inv", "st_wb", "st_tr", "st_tr_wb", "st_wakeup", "data"},
             \/ types = {"inv"} /\ SetState(k, "I")
             \/ /\ types \subseteq {"st_wb", "st_tr", "st_tr_wb", "st_wakeup"}
                /\ SetState(k, lceCmd[k].st)
             \/ types = {"data"} /\ SetTag(k)
      PROVE  \E m, s, w : Doing(k, m, s, w) /\ Does(k, m, s, w)
  <2>1. Executes(k, {"inv", "st_wb", "st_tr", "st_tr_wb", "st_wakeup", "data"})
    BY <1>2 DEF Executes, Holds
  <2>2. PICK m, s, w : Doing(k, m, s, w) /\ m = lceCmd[k] /\ CmdFrame(k) = <<s, w>>
    BY <2>1, ExecutesDoing
  <2>3. m.type \in types /\ s \in Set /\ w \in Way
    BY <1>2, <2>2 DEF Executes, Holds, Doing
  <2>4. CASE types = {"inv"} /\ SetState(k, "I")
    <3>1. TagPut(k, s, w, tag[k][<<s, w>>].blk, "I")
      BY <2>2, <2>3, <2>4, SetIs
    <3>2. QED
      BY <2>2, <2>3, <2>4, <3>1 DEF Does
  <2>5. CASE types \subseteq {"st_wb", "st_tr", "st_tr_wb", "st_wakeup"} /\ SetState(k, lceCmd[k].st)
    <3>1. TagPut(k, s, w, tag[k][<<s, w>>].blk, m.st)
      BY <2>2, <2>3, <2>5, SetIs
    <3>2. m.type \in {"st_wb", "st_tr", "st_tr_wb", "st_wakeup"}
      BY <2>3, <2>5
    <3>3. QED
      BY <2>2, <3>1, <3>2 DEF Does
  <2>6. CASE types = {"data"} /\ SetTag(k)
    <3>1. TagPut(k, s, w, m.addr, m.st)
      BY <2>2, <2>3, <2>6, PutTagIs
    <3>2. QED
      BY <2>2, <2>3, <2>6, <3>1 DEF Does
  <2>7. QED
    BY <1>2, <2>4, <2>5, <2>6
<1>3. CASE LceInv(k)
  BY <1>2, <1>3 DEF LceInv
<1>4. CASE LceData(k)
  BY <1>2, <1>4 DEF LceData
<1>5. CASE LceStWakeup(k)
  BY <1>2, <1>5 DEF LceStWakeup
<1>6. CASE LceStWb(k)
  BY <1>2, <1>6 DEF LceStWb
<1>7. CASE LceStTr(k)
  BY <1>2, <1>7 DEF LceStTr
<1>8. CASE LceTagOnly(k)
  BY <1>2, <1>8 DEF LceTagOnly
<1>9. QED
  BY <1>1, <1>3, <1>4, <1>5, <1>6, <1>7, <1>8, TagBy

(* A cache that gives a block away and keeps a shared copy had the block.  *)
LEMMA GiveKeeps ==
  ASSUME Base, StartInv, TakeInv, GrantInv, TagInv, NEW k \in LCE, NEW m, NEW s, NEW w,
         Doing(k, m, s, w), m.type \in {"st_tr", "st_tr_wb"}, m.st = "S"
  PROVE  tag[k][<<s, w>>].st # "I" /\ tag[k][<<s, w>>].blk = m.addr
<1>1. s \in Set /\ w \in Way /\ m \in Command /\ m.addr \in Block /\ FrameOf(m.addr, m.way) = <<s, w>>
  BY DEF Doing, FrameOf
<1>2. Takes(m)
  BY DEF Doing, TakeInv, TakeHeld
<1>3. dir[k][<<s, w>>].blk = m.addr /\ dir[k][<<s, w>>].st = "S" /\ m.target # k
  BY <1>1, <1>2 DEF Takes, Entered, Doing
<1>4. PICK j \in LCE, b \in Block : j = m.target /\ b = m.addr
  BY <1>1, CommandFields
<1>5. LceTok(k, j, b, "cached")
  BY <1>4 DEF LceTok, Carries, Sources, Target, Kind, Doing, Passed
<1>6. Tok("lce", k, 0, j, b, "cached")
  BY <1>5 DEF Tok
<1>7. j \in Open(s)
  BY <1>4, <1>6, TokOpen DEF Doing
<1>8. InService(HomeOf[s])
  BY <1>1, <1>7, OpenServed DEF StartInv
<1>9. ~ToFill(k, s, w) /\ ~ToUpgrade(k, s, w)
  BY <1>1, <1>3, <1>4, <1>7, OpenOne DEF ToFill, ToUpgrade
<1>10. Same(k, s, w) \/ (tag[k][<<s, w>>].blk = dir[k][<<s, w>>].blk /\ tag[k][<<s, w>>].st \in Owned)
  BY <1>1, <1>3, <1>8, <1>9, Differs
<1>11. QED
  BY <1>3, <1>10 DEF Same, Owned

(* A command leaves the tag as the directory has it; a write-back takes    *)
(* the victim away; only a fill or an upgrade gives a right.               *)
Outcome(k, m, s, w, blk, st) ==
  /\ TagPut(k, s, w, blk, st)
  /\ m.type # "st_wb" =>
       st = dir[k][<<s, w>>].st /\ (st # "I" => blk = dir[k][<<s, w>>].blk)
  /\ m.type = "st_wb" => st = "I"
  /\ st # "I" => blk = m.addr
  /\ m.type # "data" => blk = tag[k][<<s, w>>].blk
  /\ st # "I" /\ m.type \notin {"data", "st_wakeup"} =>
       st = "S" /\ tag[k][<<s, w>>].st # "I"
  /\ m.type \in {"data", "st_wakeup"} => st # "I"

(* What a command leaves in its frame is what the directory has there,     *)
(* except for the victim of a write-back.                                  *)
LEMMA TagOutcome ==
  ASSUME Base, StartInv, TakeInv, GrantInv, TagInv, NEW k \in LCE, NEW m, NEW s, NEW w,
         Doing(k, m, s, w), Does(k, m, s, w)
  PROVE  \E blk, st : Outcome(k, m, s, w, blk, st)
<1>1. Takes(m) /\ Grants(m)
  BY DEF Doing, TakeInv, TakeHeld, GrantInv, GrantHeld, Passed
<1>2. FrameOf(m.addr, m.way) = <<s, w>> /\ m.dst = k
  BY DEF Doing, FrameOf
<1>3. CASE m.type = "inv"
  <2>1. dir[k][<<s, w>>].st = "I"
    BY <1>1, <1>2, <1>3 DEF Takes
  <2>2. TagPut(k, s, w, tag[k][<<s, w>>].blk, "I")
    BY <1>3 DEF Does
  <2>3. Outcome(k, m, s, w, tag[k][<<s, w>>].blk, "I")
    BY <1>3, <2>1, <2>2 DEF Outcome
  <2>4. QED
    BY <2>3
<1>4. CASE m.type = "st_wb"
  <2>1. m.st = "I"
    BY <1>1, <1>4 DEF Takes
  <2>2. TagPut(k, s, w, tag[k][<<s, w>>].blk, "I")
    BY <1>4, <2>1 DEF Does
  <2>3. Outcome(k, m, s, w, tag[k][<<s, w>>].blk, "I")
    BY <1>4, <2>2 DEF Outcome
  <2>4. QED
    BY <2>3
<1>5. CASE m.type \in {"st_tr", "st_tr_wb"}
  <2>1. m.st \in {"I", "S"} /\ dir[k][<<s, w>>].blk = m.addr /\ dir[k][<<s, w>>].st = m.st
    BY <1>1, <1>2, <1>5 DEF Takes, Entered
  <2>2. TagPut(k, s, w, tag[k][<<s, w>>].blk, m.st)
    BY <1>5 DEF Does
  <2>3. m.st = "S" => tag[k][<<s, w>>].st # "I" /\ tag[k][<<s, w>>].blk = m.addr
    BY <1>5, GiveKeeps
  <2>4. Outcome(k, m, s, w, tag[k][<<s, w>>].blk, m.st)
    BY <1>5, <2>1, <2>2, <2>3 DEF Outcome
  <2>5. QED
    BY <2>4
<1>6. CASE m.type = "st_wakeup"
  <2>1. /\ m.st # "I" /\ dir[k][<<s, w>>].blk = m.addr /\ dir[k][<<s, w>>].st = m.st
        /\ tag[k][<<s, w>>].blk = m.addr
    BY <1>1, <1>2, <1>6 DEF Grants, Granted, Entered
  <2>2. TagPut(k, s, w, tag[k][<<s, w>>].blk, m.st)
    BY <1>6 DEF Does
  <2>3. Outcome(k, m, s, w, tag[k][<<s, w>>].blk, m.st)
    BY <1>6, <2>1, <2>2 DEF Outcome
  <2>4. QED
    BY <2>3
<1>7. CASE m.type = "data"
  <2>1. m.st # "I" /\ dir[k][<<s, w>>].blk = m.addr /\ dir[k][<<s, w>>].st = m.st
    BY <1>1, <1>2, <1>7 DEF Grants, Granted, Entered
  <2>2. TagPut(k, s, w, m.addr, m.st)
    BY <1>7 DEF Does
  <2>3. Outcome(k, m, s, w, m.addr, m.st)
    BY <1>7, <2>1, <2>2 DEF Outcome
  <2>4. QED
    BY <2>3
<1>8. QED
  BY <1>3, <1>4, <1>5, <1>6, <1>7 DEF Doing

(* What a step of cache k does to its tags.                                *)
TagMove(k) ==
  \/ tag' = tag
  \/ LceClear(k) /\ TagCleared(k)
  \/ \E m, s, w, blk, st : Doing(k, m, s, w) /\ Outcome(k, m, s, w, blk, st)

(* A step of a cache leaves the tags, clears them, or makes one frame      *)
(* agree with the directory.                                               *)
LEMMA TagMoves ==
  ASSUME Base, StartInv, TakeInv, GrantInv, TagInv, NEW k \in LCE, LceStep(k)
  PROVE  TagMove(k)
<1>1. CASE \E m, s, w : Doing(k, m, s, w) /\ Does(k, m, s, w)
  <2>1. PICK m, s, w : Doing(k, m, s, w) /\ Does(k, m, s, w)
    BY <1>1
  <2>2. \E blk, st : Outcome(k, m, s, w, blk, st)
    BY <2>1, TagOutcome
  <2>3. QED
    BY <2>1, <2>2 DEF TagMove
<1>2. QED
  BY <1>1, TagStep DEF TagMove

(* A cache that executes a command of its transaction has its set open.    *)
LEMMA DoingOpen ==
  ASSUME Base, NEW k \in LCE, NEW m, NEW s, NEW w, Doing(k, m, s, w),
         m.type \in {"data", "st_wakeup"}
  PROVE  /\ Tok("lce", k, 0, k, m.addr, "cached") /\ k \in Open(s)
         /\ miss[k].addr = m.addr /\ miss[k].phase = "sent"
<1>1. PICK b \in Block : b = m.addr
  BY DEF Doing
<1>2. LceTok(k, k, b, "cached")
  BY <1>1 DEF LceTok, Carries, Sources, Target, Kind, Doing, Passed
<1>3. Tok("lce", k, 0, k, b, "cached")
  BY <1>2 DEF Tok
<1>4. QED
  BY <1>1, <1>3, TokOpen DEF Doing

----------------------------------------------------------------------------
(* Reset, step of a cache.                                                 *)

(* A cache is past its initialisation when it has cleared its tags.        *)
LEMMA PastStep ==
  ASSUME Base, NEW k \in LCE, LceStep(k), Past(k)', ~Past(k)
  PROVE  LceClear(k) /\ TagCleared(k)
<1>1. lceState \in [LCE -> LceCmdStates] /\ tag \in [LCE -> [Frame -> Line]]
  BY DEF Base, IInv, LceOK, LceTypeOK, CacheTypeOK
<1>2. ~LceReset(k)
  BY <1>1 DEF LceReset, LceGoto, Past
<1>3. LceClear(k)
  BY <1>1, <1>2, LceStateBy
  DEF Past, LceData, LceStWakeup, LceStWb, LceStTr, LceCohAck, LceTr, LceWbStatRd, LceWb,
    LceWbDirtyRd, LceWbDirtySend, Executes
<1>4. tag' = [tag EXCEPT ![k] = [f \in Frame |-> [blk |-> @[f].blk, st |-> "I"]]]
  BY <1>3 DEF LceClear
<1>5. tag'[k] = [f \in Frame |-> [blk |-> tag[k][f].blk, st |-> "I"]]
  BY <1>1, <1>4
<1>6. TagCleared(k)
  BY <1>5 DEF TagCleared, Frame
<1>7. QED
  BY <1>3, <1>6

(* StartInv, step of a cache.                                              *)
LEMMA StartLce ==
  ASSUME Base, StartInv, TakeInv, GrantInv, TagInv, NEW k \in LCE, LceStep(k)
  PROVE  StartInv'
<1>1. UNCHANGED <<cceState, pending, dir>>
  BY LceLeaves
<1>2. PendStart' /\ StartDir'
  BY <1>1 DEF StartInv, PendStart, StartDir, InService, Cleared
<1>3. StartTag'
  <2> SUFFICES ASSUME NEW s \in Set, NEW l \in LCE, ~InService(HomeOf[s])', Past(l)', NEW w \in Way
               PROVE  tag'[l][<<s, w>>].st = "I"
    BY DEF StartTag
  <2>1. ~InService(HomeOf[s])
    BY <1>1 DEF InService
  <2>2. Past(l) => tag[l][<<s, w>>].st = "I"
    BY <2>1 DEF StartInv, StartTag
  <2>3. CASE l # k
    BY <2>2, <2>3, LceOthers DEF Past
  <2>4. CASE l = k /\ ~Past(k)
    BY <2>4, PastStep DEF TagCleared
  <2>5. CASE l = k /\ Past(k)
    <3>1. CASE tag' = tag
      BY <2>2, <2>5, <3>1
    <3>2. CASE TagCleared(k)
      BY <2>5, <3>2 DEF TagCleared
    <3>3. CASE \E m, t, v, blk, st : Doing(k, m, t, v) /\ Outcome(k, m, t, v, blk, st)
      <4>1. PICK m, t, v, blk, st : Doing(k, m, t, v) /\ Outcome(k, m, t, v, blk, st)
        BY <3>3
      <4>2. CASE ~(s = t /\ w = v)
        BY <2>2, <2>5, <4>1, <4>2 DEF Outcome, TagPut
      <4>3. CASE s = t /\ w = v
        <5>1. m.type \notin {"data", "st_wakeup"}
          <6>1. m.type \in {"data", "st_wakeup"} => k \in Open(s)
            BY <4>1, <4>3, DoingOpen
          <6>2. QED
            BY <2>1, <6>1, OpenServed DEF StartInv
        <5>2. st = "I"
          BY <2>2, <2>5, <4>1, <4>3, <5>1 DEF Outcome
        <5>3. QED
          BY <2>5, <4>1, <4>3, <5>2 DEF Outcome, TagPut
      <4>4. QED
        BY <4>2, <4>3
    <3>4. QED
      BY <3>1, <3>2, <3>3, TagMoves DEF TagMove
  <2>6. QED
    BY <2>3, <2>4, <2>5
<1>4. QED
  BY <1>2, <1>3 DEF StartInv

(* A copy in the directory was there before, or is being granted.          *)
Wrote(c, l, s, w) ==
  /\ CceWriteNextState(c) /\ HomeOf[s] = c /\ s = ReqSet(c)
  /\ l = mshr[c].lce /\ w = GrantWay(c)
(* The copy was there before, and owned if it is owned.                    *)
OldCopy(l, s, w, b) ==
  Copy(l, s, w, b) /\ (dir'[l][<<s, w>>].st \in Owned => dir[l][<<s, w>>].st \in Owned)

(* A copy the directory has after a step of an engine was there before, or *)
(* is the one the engine grants.                                           *)
LEMMA CopyMove ==
  ASSUME Base, DirInv, NEW c \in CCE, CceStep(c), NEW s \in Set, ~(HomeOf[s] = c /\ CceClearDir(c)),
         NEW l \in LCE, NEW w \in Way, NEW b, Copy(l, s, w, b)'
  PROVE  \/ OldCopy(l, s, w, b) /\ ~Wrote(c, l, s, w)
         \/ Wrote(c, l, s, w) /\ b = mshr[c].addr /\ dir'[l][<<s, w>>].st = mshr[c].next
<1>1. CASE DirSame(s) /\ ~CceWriteNextState(c)
  BY <1>1 DEF DirSame, Copy, OldCopy, Wrote
<1>2. CASE HomeOf[s] = c /\ s = ReqSet(c) /\ CceWriteNextState(c)
  <2>1. DirPut(s, mshr[c].lce, GrantWay(c), mshr[c].addr, mshr[c].next)
    BY <1>2, WriteStep
  <2>2. CASE l = mshr[c].lce /\ w = GrantWay(c)
    BY <1>2, <2>1, <2>2 DEF DirPut, Wrote, Copy
  <2>3. CASE ~(l = mshr[c].lce /\ w = GrantWay(c))
    BY <2>1, <2>3 DEF DirPut, Wrote, Copy, OldCopy
  <2>4. QED
    BY <2>2, <2>3
<1>3. CASE HomeOf[s] = c /\ s = ReqSet(c) /\ CceInvCmd(c)
  <2>1. PICK j, v : InvSent(c, j, v)
    BY <1>3, InvStep
  <2>2. DirPut(s, j, v, dir[j][<<s, v>>].blk, "I")
    BY <1>3, <2>1 DEF InvSent
  <2>3. ~CceWriteNextState(c)
    BY <1>3 DEF CceWriteNextState, CceInvCmd
  <2>4. QED
    BY <2>2, <2>3 DEF DirPut, Wrote, Copy, OldCopy
<1>4. CASE HomeOf[s] = c /\ s = ReqSet(c) /\ CceTransfer(c)
  <2>1. PICK m : /\ Given(c, m)
                 /\ DirPut(ReqSet(c), mshr[c].owner, mshr[c].ownerWay, mshr[c].addr, m.st)
    BY <1>4, TransferStep
  <2>2. cceState[c] = "transfer" /\ mshr[c].xf /\ m.st \in {"I", "S"}
    BY <1>4, <2>1, TransferStep DEF Given
  <2>3. dir[mshr[c].owner][<<s, mshr[c].ownerWay>>].st \in Owned
    BY <1>4, <2>2 DEF DirInv, KnownInv, KnownOwner
  <2>4. dir[mshr[c].owner][<<s, mshr[c].ownerWay>>].blk = mshr[c].addr
    BY <1>4, <2>2 DEF Base, SerialInv, DirSetInv, FoundBlk, Decided, FrameOf, ReqSet
  <2>5. ~CceWriteNextState(c)
    BY <1>4 DEF CceWriteNextState, CceTransfer
  <2>6. QED
    BY <1>4, <2>1, <2>2, <2>3, <2>4, <2>5 DEF DirPut, Wrote, Copy, OldCopy, Owned
<1>5. CASE DirSame(s) /\ CceWriteNextState(c) /\ ~(HomeOf[s] = c /\ s = ReqSet(c))
  BY <1>5 DEF DirSame, Copy, OldCopy, Wrote
<1>6. QED
  BY <1>1, <1>2, <1>3, <1>4, <1>5, DirStep

(* DirOne, step of an engine: a grant of a new way finds no other copy in  *)
(* the same cache.                                                         *)
LEMMA DirOneCce ==
  ASSUME Base, DirInv, NEW c \in CCE, CceStep(c)
  PROVE  DirOne'
<1> SUFFICES ASSUME NEW s \in Set, NEW l \in LCE, NEW w \in Way, NEW v \in Way, NEW b,
                    Cleared(HomeOf[s])', Copy(l, s, w, b)', Copy(l, s, v, b)'
             PROVE  w = v
  BY DEF DirOne
<1>1. HomeOf[s] \in CCE
  BY ConstantsAssumption
<1>2. CASE HomeOf[s] = c /\ CceClearDir(c)
  BY <1>2, ClearedEntry DEF Copy
<1>3. CASE ~(HomeOf[s] = c /\ CceClearDir(c))
  <2>1. Cleared(HomeOf[s])
    BY <1>1, <1>3, ClearedKept DEF Base
  <2>2. \A x \in Way : Copy(l, s, x, b)' =>
          OldCopy(l, s, x, b) \/ (Wrote(c, l, s, x) /\ b = mshr[c].addr)
    BY <1>3, CopyMove DEF Copy
  <2>3. Wrote(c, l, s, w) \/ Wrote(c, l, s, v) =>
          /\ mshr[c].uf => Copy(l, s, GrantWay(c), mshr[c].addr)
          /\ ~mshr[c].uf => \A x \in Way : ~Copy(l, s, x, mshr[c].addr)
    <3>1. CASE CceWriteNextState(c)
      <4>1. cceState[c] = "write_next_state"
        BY <3>1 DEF CceWriteNextState
      <4>2. QED
        BY <4>1 DEF DirInv, KnownInv, KnownMine, Wrote, GrantWay
    <3>2. QED
      BY <3>1 DEF Wrote
  <2>4. \A x, y \in Way : Copy(l, s, x, b) /\ Copy(l, s, y, b) => x = y
    BY <2>1 DEF DirInv, DirOne
  <2>5. QED
    BY <2>2, <2>3, <2>4 DEF OldCopy, Wrote
<1>4. QED
  BY <1>2, <1>3

----------------------------------------------------------------------------
(* The directory: one owner.                                               *)

(* The states between the write of the grant and the last invalidation or  *)
(* transfer.                                                               *)
FreshStates == {"replacement", "replacement_wb_resp", "inv_cmd", "transfer"}

(* What the requester has of the block it is granted.                      *)
LEMMA GrantedCopy ==
  ASSUME Base, DirInv, GrantInv, NEW c \in CCE, Granting(c), NEW w \in Way,
         Copy(mshr[c].lce, ReqSet(c), w, mshr[c].addr)
  PROVE  w = GrantWay(c) /\ dir[mshr[c].lce][<<ReqSet(c), w>>].st = mshr[c].next
<1>1. AtFsm(c) /\ cceState[c] \in Cached /\ cceState[c] \in Decided
  BY DEF Granting, AtFsm, Unsourced, Working, Cached, Decided
<1>2. /\ mshr[c].lce \in LCE /\ mshr[c].addr \in Block /\ mshr[c].lru \in Way
      /\ mshr[c].uf => mshr[c].way \in Way
  BY <1>1, MshrKnown DEF Base
<1>3. HomeOf[ReqSet(c)] = c /\ ReqSet(c) \in Set
  BY <1>1, WorksHome DEF Base
<1>4. PICK v \in Way : v = GrantWay(c)
  BY <1>2 DEF GrantWay
<1>5. /\ dir[mshr[c].lce][<<ReqSet(c), v>>].blk = mshr[c].addr
      /\ dir[mshr[c].lce][<<ReqSet(c), v>>].st = mshr[c].next
      /\ dir[mshr[c].lce][<<ReqSet(c), v>>].st # "I"
  BY <1>4 DEF GrantInv, GrantFsm, Granted, Entered, FrameOf, ReqSet
<1>6. Cleared(c)
  BY <1>1 DEF Cleared, Cached
<1>7. w = v
  BY <1>2, <1>3, <1>4, <1>5, <1>6 DEF DirInv, DirOne, Copy
<1>8. QED
  BY <1>4, <1>5, <1>7

(* A step that ends the wait for the other copies leaves none of them      *)
(* behind, or only shared ones.                                            *)
NoOthers(c, s) ==
  \A k \in LCE, v \in Way : k # mshr[c].lce =>
    ~(dir'[k][<<s, v>>].blk = mshr[c].addr /\ dir'[k][<<s, v>>].st # "I")
(* No cache has the requested block in an owned state.                     *)
AllShared(c, s) ==
  \A k \in LCE, v \in Way :
    dir'[k][<<s, v>>].blk = mshr[c].addr => dir'[k][<<s, v>>].st \notin Owned

(* Without another owner, the engine grants a right that the sharers may   *)
(* keep, or invalidates them.                                              *)
LEMMA NoOwnerLeft ==
  ASSUME Base, DirInv, NEW c \in CCE, cceState[c] \in Deciding, ~mshr[c].xf, ~Invalidate(mshr[c])
  PROVE  \/ \A k \in LCE, w \in Way : ~OtherCopy(c, k, w)
         \/ /\ mshr[c].next = "S"
            /\ \A k \in LCE, w \in Way : OtherCopy(c, k, w) => dir[k][<<ReqSet(c), w>>].st = "S"
<1>1. \A k \in LCE, w \in Way : OtherCopy(c, k, w) =>
        mshr[c].csf /\ dir[k][<<ReqSet(c), w>>].st = "S"
  BY DEF DirInv, KnownInv, KnownNoOwner
<1>2. mshr[c].next = IF mshr[c].write THEN "M"
                      ELSE IF mshr[c].nonExcl \/ mshr[c].csf \/ mshr[c].xf THEN "S" ELSE "E"
  BY DEF DirInv, KnownInv, KnownFlags, Deciding, Decided
<1>3. CASE mshr[c].csf
  <2>1. ~mshr[c].write
    BY <1>3 DEF Invalidate
  <2>2. QED
    BY <1>1, <1>2, <1>3, <2>1
<1>4. CASE ~mshr[c].csf
  BY <1>1, <1>4
<1>5. QED
  BY <1>3, <1>4

(* ... when it has written the entry of the requester.                     *)
LEMMA GrantedAlone ==
  ASSUME Base, DirInv, GrantInv, NEW c \in CCE, CceStep(c),
         CceWriteNextState(c) \/ CceReplacementWbResp(c),
         cceState'[c] \notin FreshStates
  PROVE  NoOthers(c, ReqSet(c)) \/ AllShared(c, ReqSet(c))
<1>1. cceState[c] \in Deciding /\ cceState[c] \in Decided /\ cceState[c] \in Cached
  BY DEF CceWriteNextState, CceReplacementWbResp, Deciding, Decided, Cached
<1>2. Filled(c)
  BY WriteStep, EvictStep DEF FreshStates
<1>3. ~Invalidate(mshr[c]) /\ ~mshr[c].xf
  <2>1. ~Invalidate(mshr[c])
    BY <1>2 DEF Filled, FreshStates
  <2>2. mshr[c].xf => ~mshr[c].uf
    BY <1>1 DEF DirInv, KnownInv, KnownFlags
  <2>3. QED
    BY <1>2, <2>1, <2>2 DEF Filled, FillStep, FreshStates
<1>4. /\ HomeOf[ReqSet(c)] = c /\ ReqSet(c) \in Set
      /\ mshr[c].lce \in LCE /\ mshr[c].addr \in Block /\ mshr[c].next \in CohState
  <2>1. mshr \in [CCE -> Mshr]
    BY DEF Base, IInv, CceOK, CceTypeOK
  <2>2. mshr[c].next \in CohState
    BY <2>1 DEF Mshr
  <2>3. QED
    BY <1>1, <2>2, WorksHome, MshrKnown DEF Base
<1>5. PICK s \in Set, b \in Block, j \in LCE, n \in CohState :
        s = ReqSet(c) /\ b = mshr[c].addr /\ j = mshr[c].lce /\ n = mshr[c].next
  BY <1>4
<1>6. \A k \in LCE, v \in Way : k # j => dir'[k][<<s, v>>] = dir[k][<<s, v>>]
  <2>1. CASE CceWriteNextState(c)
    <3>1. DirPut(s, j, GrantWay(c), b, n)
      BY <1>5, <2>1, WriteStep
    <3>2. QED
      BY <3>1 DEF DirPut
  <2>2. CASE CceReplacementWbResp(c)
    BY <2>2, EvictStep
  <2>3. QED
    BY <2>1, <2>2
<1>7. n = "S" => \A v \in Way : dir'[j][<<s, v>>].blk = b => dir'[j][<<s, v>>].st \notin Owned
  <2> SUFFICES ASSUME n = "S", NEW v \in Way, dir'[j][<<s, v>>].blk = b
               PROVE  dir'[j][<<s, v>>].st \notin Owned
    OBVIOUS
  <2>1. CASE CceWriteNextState(c)
    <3>1. DirPut(s, j, GrantWay(c), b, n)
      BY <1>5, <2>1, WriteStep
    <3>2. CASE v = GrantWay(c)
      BY <3>1, <3>2 DEF DirPut, Owned
    <3>3. CASE v # GrantWay(c)
      <4>1. dir'[j][<<s, v>>] = dir[j][<<s, v>>]
        BY <3>1, <3>3 DEF DirPut
      <4>2. CASE mshr[c].uf
        <5>1. mshr[c].write
          BY <1>1, <4>2 DEF DirInv, KnownInv, KnownFlags
        <5>2. n = "M"
          BY <1>1, <1>5, <5>1 DEF DirInv, KnownInv, KnownFlags
        <5>3. QED
          BY <5>2
      <4>3. CASE ~mshr[c].uf
        <5>1. ~Copy(j, s, v, b)
          BY <1>5, <2>1, <4>3 DEF DirInv, KnownInv, KnownMine, CceWriteNextState
        <5>2. QED
          BY <4>1, <5>1 DEF Copy, Owned
      <4>4. QED
        BY <4>2, <4>3
    <3>4. QED
      BY <3>2, <3>3
  <2>2. CASE CceReplacementWbResp(c)
    <3>1. dir' = dir /\ cceState[c] = "replacement_wb_resp"
      BY <2>2, EvictStep
    <3>2. Granting(c)
      BY <3>1 DEF Granting
    <3>3. Copy(j, s, v, b) => dir[j][<<s, v>>].st = n
      BY <1>5, <3>2, GrantedCopy
    <3>4. QED
      BY <3>1, <3>3 DEF Copy, Owned
  <2>3. QED
    BY <2>1, <2>2
<1>8. CASE \A k \in LCE, w \in Way : ~OtherCopy(c, k, w)
  <2>1. NoOthers(c, s)
    BY <1>5, <1>6, <1>8 DEF NoOthers, OtherCopy, Copy
  <2>2. QED
    BY <1>5, <2>1
<1>9. CASE /\ n = "S"
           /\ \A k \in LCE, w \in Way : OtherCopy(c, k, w) => dir[k][<<ReqSet(c), w>>].st = "S"
  <2>1. \A k \in LCE, v \in Way : k # j /\ dir'[k][<<s, v>>].blk = b => dir'[k][<<s, v>>].st \notin Owned
    BY <1>5, <1>6, <1>9 DEF OtherCopy, Copy, Owned
  <2>2. AllShared(c, s)
    BY <1>5, <1>7, <1>9, <2>1 DEF AllShared
  <2>3. QED
    BY <1>5, <2>2
<1>10. QED
  BY <1>1, <1>3, <1>5, <1>8, <1>9, NoOwnerLeft

(* ... when the last copy has been invalidated.                            *)
LEMMA InvalidatedAlone ==
  ASSUME Base, DirInv, NEW c \in CCE, CceStep(c), CceInvCmd(c), cceState'[c] \notin FreshStates
  PROVE  NoOthers(c, ReqSet(c))
<1>1. PICK l, w : InvSent(c, l, w)
  BY InvStep
<1>2. cceState[c] = "inv_cmd"
  BY DEF CceInvCmd
<1>3. toInv[c] = {l} /\ l \in LCE /\ w \in Way /\ w = sharers[c][l]
  BY <1>1 DEF InvSent, FreshStates
<1>4. \A k \in LCE, v \in Way : OtherCopy(c, k, v) => k = l /\ v = w
  BY <1>2, <1>3 DEF DirInv, KnownInv, KnownLeft
<1>5. DirPut(ReqSet(c), l, w, dir[l][<<ReqSet(c), w>>].blk, "I")
  BY <1>1 DEF InvSent
<1>6. QED
  BY <1>4, <1>5 DEF NoOthers, DirPut, OtherCopy, Copy

(* ... when the owner has been told to give the block away.                *)
LEMMA TransferredAlone ==
  ASSUME Base, DirInv, GrantInv, NEW c \in CCE, CceStep(c), CceTransfer(c)
  PROVE  NoOthers(c, ReqSet(c)) \/ AllShared(c, ReqSet(c))
<1>1. /\ cceState[c] = "transfer" /\ mshr[c].xf
      /\ mshr[c].owner \in LCE /\ mshr[c].ownerWay \in Way
  BY TransferStep
<1>2. PICK m : Given(c, m) /\ DirPut(ReqSet(c), mshr[c].owner, mshr[c].ownerWay, mshr[c].addr, m.st)
  BY TransferStep
<1>3. PICK o \in LCE, v \in Way, b \in Block, s \in Set :
        o = mshr[c].owner /\ v = mshr[c].ownerWay /\ b = mshr[c].addr /\ s = ReqSet(c)
  BY <1>1, WorksHome, MshrKnown DEF Base, Cached, Decided
<1>4. HomeOf[s] = c /\ Cleared(c)
  BY <1>1, <1>3, WorksHome DEF Base, Cached, Cleared
<1>5. /\ o # mshr[c].lce /\ dir[o][<<s, v>>].st \in Owned
      /\ \A k \in LCE, w \in Way : OtherCopy(c, k, w) => k = o
  BY <1>1, <1>3 DEF DirInv, KnownInv, KnownOwner
<1>6. dir[o][<<s, v>>].blk = b
  BY <1>1, <1>3 DEF Base, SerialInv, DirSetInv, FoundBlk, Decided, FrameOf, ReqSet
<1>7. \A k \in LCE, w \in Way : OtherCopy(c, k, w) => k = o /\ w = v
  <2> SUFFICES ASSUME NEW w \in Way, OtherCopy(c, o, w) PROVE w = v
    BY <1>5
  <2>1. Copy(o, s, w, b) /\ Copy(o, s, v, b)
    BY <1>3, <1>5, <1>6 DEF OtherCopy, Copy, Owned
  <2>2. QED
    BY <1>4, <2>1 DEF DirInv, DirOne
<1>8. DirPut(s, o, v, b, m.st)
  BY <1>2, <1>3
<1>9. CASE mshr[c].write
  <2>1. m.st = "I"
    BY <1>2, <1>9 DEF Given
  <2>2. NoOthers(c, s)
    BY <1>3, <1>7, <1>8, <2>1 DEF NoOthers, DirPut, OtherCopy, Copy
  <2>3. QED
    BY <1>3, <2>2
<1>10. CASE ~mshr[c].write
  <2>1. m.st = "S"
    BY <1>2, <1>10 DEF Given
  <2>2. mshr[c].next = "S"
    BY <1>1, <1>10 DEF DirInv, KnownInv, KnownFlags, Decided
  <2>3. Granting(c)
    BY <1>1 DEF Granting
  <2>4. \A w \in Way : Copy(mshr[c].lce, s, w, b) => dir[mshr[c].lce][<<s, w>>].st = "S"
    BY <1>3, <2>2, <2>3, GrantedCopy
  <2>5. \A k \in LCE, w \in Way : Copy(k, s, w, b) => dir[k][<<s, w>>].st = "S" \/ (k = o /\ w = v)
    BY <1>3, <1>7, <2>4 DEF OtherCopy
  <2>6. AllShared(c, s)
    BY <1>3, <1>8, <2>1, <2>5 DEF AllShared, DirPut, Copy, Owned
  <2>7. QED
    BY <1>3, <2>6
<1>11. QED
  BY <1>9, <1>10

(* Fresh, spelled out by the state of the engine.                          *)
LEMMA FreshIs ==
  ASSUME NEW s, NEW l, NEW w
  PROVE  Fresh(s, l, w) <=> /\ cceState[HomeOf[s]] \in FreshStates /\ ReqSet(HomeOf[s]) = s
                            /\ l = mshr[HomeOf[s]].lce /\ w = GrantWay(HomeOf[s])
BY DEF Fresh, FreshStates, Serving, Working, Cached

(* An engine that still waits for other copies grants what it granted.     *)
LEMMA FreshKept ==
  ASSUME Base, Base', DirInv, NEW c \in CCE, CceStep(c), cceState'[c] \in FreshStates
  PROVE  /\ cceState[c] \in FreshStates \/ CceWriteNextState(c)
         /\ ReqSet(c)' = ReqSet(c) /\ mshr'[c].lce = mshr[c].lce /\ mshr'[c].addr = mshr[c].addr
         /\ GrantWay(c)' = GrantWay(c) /\ mshr'[c].next = mshr[c].next
         /\ mshr'[c].uf = mshr[c].uf /\ mshr'[c].way = mshr[c].way
<1>1. cceState'[c] \in Decided
  BY DEF FreshStates, Decided
<1>2. ~CceReadDir(c)
  <2>1. cceState \in [CCE -> CceStates]
    BY DEF Base, IInv, CceOK, CceTypeOK
  <2>2. QED
    BY <2>1 DEF CceReadDir, Goto, FreshStates
<1>3. SameAnswer(c)
  BY <1>1, <1>2, DecidedMove DEF Base
<1>4. StateMove(cceState[c], cceState'[c])
  BY StateMoves DEF Base
<1>5. cceState[c] \in FreshStates \cup {"write_next_state"}
  <2>1. cceState[c] = "inv_ack" => ~mshr[c].xf
    BY DEF DirInv, KnownInv, KnownFlags, Decided
  <2>2. cceState'[c] = "transfer" => mshr'[c].xf
    BY DEF Base, IInv, CceOK, MshrWF
  <2>3. cceState[c] = "inv_ack" => cceState'[c] # "transfer"
    BY <1>3, <2>1, <2>2, SMTT(40) DEF SameAnswer
  <2>4. QED
    BY <1>4, <2>3 DEF StateMove, Moves1, After, Cached, FreshStates
<1>6. cceState[c] = "write_next_state" => CceWriteNextState(c)
  <2>1. cceState[c] = "write_next_state" => cceState' # cceState
    BY SMTT(40) DEF FreshStates
  <2>2. QED
    BY <2>1, FsmBy
    DEF CceReset, CceClearDir, CceLeaveUncached, CceSyncAck, CceUcReq, CceReadPending, CceDeqReq,
      CceReadMemSpec, CceReadDir, CceReplacement, CceReplacementWbResp, CceInvCmd, CceInvAck,
      CceUpgrade, CceTransfer, CceTransferWbResp, CceResolve, CceReady, CceSendSync
<1>7. QED
  BY <1>3, <1>5, <1>6 DEF SameAnswer, SameRequest, GrantWay, ReqSet

(* It stops to wait in one of four ways.                                   *)
LEMMA FreshEnds ==
  ASSUME Base, NEW c \in CCE, CceStep(c), cceState[c] \in FreshStates, cceState'[c] \notin FreshStates
  PROVE  CceReplacementWbResp(c) \/ CceInvCmd(c) \/ CceTransfer(c)
<1>1. cceState \in [CCE -> CceStates]
  BY DEF Base, IInv, CceOK, CceTypeOK
<1>2. ~CceReplacement(c)
  BY <1>1 DEF CceReplacement, Goto, FreshStates
<1>3. ~CceInvAck(c)
  BY <1>1 DEF CceInvAck, AfterInvAck, Goto, FreshStates
<1>4. QED
  BY <1>2, <1>3, FsmBy
  DEF FreshStates, CceReset, CceClearDir, CceLeaveUncached, CceSyncAck, CceUcReq, CceReadPending, CceDeqReq,
    CceReadMemSpec, CceReadDir, CceWriteNextState, CceUpgrade, CceTransferWbResp, CceResolve, CceReady,
    CceSendSync

(* DirOwner, step of an engine: when the granted entry stops being fresh,  *)
(* the other copies are gone or shared.                                    *)
LEMMA DirOwnerCce ==
  ASSUME Base, Base', DirInv, GrantInv, NEW c \in CCE, CceStep(c)
  PROVE  DirOwner'
<1> SUFFICES ASSUME NEW s \in Set, NEW l \in LCE, NEW k \in LCE, NEW w \in Way, NEW v \in Way, NEW b,
                    Cleared(HomeOf[s])', ~Fresh(s, l, w)', ~Fresh(s, k, v)',
                    Copy(l, s, w, b)', Copy(k, s, v, b)', dir'[l][<<s, w>>].st \in Owned
             PROVE  l = k
  BY DEF DirOwner
<1>1. PICK h \in CCE : h = HomeOf[s]
  BY ConstantsAssumption
<1>2. CASE h = c /\ CceClearDir(c)
  BY <1>1, <1>2, ClearedEntry DEF Copy
<1>3. CASE ~(h = c /\ CceClearDir(c))
  <2>1. Cleared(h)
    BY <1>1, <1>3, ClearedKept DEF Base
  <2>2. /\ OldCopy(l, s, w, b) /\ ~Fresh(s, l, w)
        /\ OldCopy(k, s, v, b) /\ ~Fresh(s, k, v)
        => l = k
    BY <1>1, <2>1 DEF OldCopy, DirInv, DirOwner
  <2>3. \A j \in LCE, x \in Way : Copy(j, s, x, b)' =>
          \/ OldCopy(j, s, x, b) /\ ~Wrote(c, j, s, x)
          \/ Wrote(c, j, s, x) /\ b = mshr[c].addr
    BY <1>1, <1>3, CopyMove DEF Copy
  <2>4. CASE h # c \/ s # ReqSet(c)
    <3>1. \A j, x : ~Wrote(c, j, s, x)
      BY <1>1, <2>4 DEF Wrote
    <3>2. h # c => cceState'[h] = cceState[h] /\ mshr'[h] = mshr[h]
      BY CceOthers DEF Base
    <3>3. ~Fresh(s, l, w) /\ ~Fresh(s, k, v)
      BY <1>1, <2>4, <3>2 DEF Fresh, Serving, ReqSet, GrantWay
    <3>4. QED
      BY <2>2, <2>3, <3>1, <3>3
  <2>5. CASE h = c /\ s = ReqSet(c) /\ cceState'[c] \in FreshStates
    <3>1. /\ ReqSet(c)' = ReqSet(c) /\ mshr'[c].lce = mshr[c].lce
          /\ GrantWay(c)' = GrantWay(c)
      BY <2>5, FreshKept
    <3>2. \A j, x : Fresh(s, j, x)' <=> j = mshr[c].lce /\ x = GrantWay(c)
      BY <1>1, <2>5, <3>1 DEF Fresh, FreshStates, Serving, Working, Cached
    <3>3. \A j, x : Fresh(s, j, x) \/ Wrote(c, j, s, x) => j = mshr[c].lce /\ x = GrantWay(c)
      BY <1>1, <2>5 DEF Fresh, Wrote
    <3>4. /\ ~(l = mshr[c].lce /\ w = GrantWay(c))
          /\ ~(k = mshr[c].lce /\ v = GrantWay(c))
      BY <1>1, <2>5, <3>1 DEF Fresh, FreshStates, Serving, Working, Cached
    <3>5. QED
      BY <2>2, <2>3, <3>3, <3>4
  <2>6. CASE /\ h = c /\ s = ReqSet(c) /\ cceState'[c] \notin FreshStates
             /\ CceWriteNextState(c) \/ CceReplacementWbResp(c) \/ CceInvCmd(c) \/ CceTransfer(c)
    <3>1. NoOthers(c, s) \/ AllShared(c, s)
      BY <2>6, GrantedAlone, InvalidatedAlone, TransferredAlone
    <3>2. CASE b = mshr[c].addr
      BY <3>1, <3>2 DEF NoOthers, AllShared, Copy
    <3>3. CASE b # mshr[c].addr
      <4>1. \A j, x : Fresh(s, j, x) => dir[j][<<s, x>>].blk = mshr[c].addr
        <5> SUFFICES ASSUME NEW j, NEW x, Fresh(s, j, x) PROVE dir[j][<<s, x>>].blk = mshr[c].addr
          OBVIOUS
        <5>1. Granting(c) /\ j = mshr[c].lce /\ x = GrantWay(c)
          BY <1>1, <2>6 DEF Fresh, Granting
        <5>2. QED
          BY <2>6, <5>1 DEF GrantInv, GrantFsm, Granted, Entered, FrameOf, ReqSet
      <4>2. OldCopy(l, s, w, b) /\ OldCopy(k, s, v, b)
        BY <2>3, <3>3
      <4>3. QED
        BY <2>2, <3>3, <4>1, <4>2 DEF OldCopy, Copy
    <3>4. QED
      BY <3>2, <3>3
  <2>7. CASE /\ h = c /\ s = ReqSet(c) /\ cceState'[c] \notin FreshStates
             /\ ~(CceWriteNextState(c) \/ CceReplacementWbResp(c) \/ CceInvCmd(c) \/ CceTransfer(c))
    <3>1. cceState[c] \notin FreshStates
      BY <2>7, FreshEnds
    <3>2. \A j, x : ~Fresh(s, j, x) /\ ~Wrote(c, j, s, x)
      BY <1>1, <2>7, <3>1 DEF Fresh, FreshStates, Wrote
    <3>3. QED
      BY <2>2, <2>3, <3>2
  <2>8. QED
    BY <2>4, <2>5, <2>6, <2>7
<1>4. QED
  BY <1>2, <1>3

----------------------------------------------------------------------------
(* The directory: what the engine knows of the other caches.               *)

(* The tag checker finds the one copy of a cache.                          *)
LEMMA HitIs ==
  ASSUME Base, DirInv, NEW b \in Block, NEW s \in Set, s = SetOf[b], Cleared(HomeOf[s]), NEW k \in LCE
  PROVE  /\ \A w \in Way : HitWay(dir, k, b) = w <=> Copy(k, s, w, b)
         /\ \A w \in Way : Copy(k, s, w, b) => StateIn(dir, k, b) = dir[k][<<s, w>>].st
         /\ StateIn(dir, k, b) # "I" =>
              \E w \in Way : /\ Copy(k, s, w, b) /\ HitWay(dir, k, b) = w
                             /\ StateIn(dir, k, b) = dir[k][<<s, w>>].st
<1>1. \A w \in Way : w \in HitWays(dir, k, b) <=> Copy(k, s, w, b)
  BY DEF HitWays, Copy, FrameOf
<1>2. \A w, v \in Way : Copy(k, s, w, b) /\ Copy(k, s, v, b) => w = v
  BY DEF DirInv, DirOne
<1>3. HitWays(dir, k, b) \subseteq Way /\ None \notin Way
  BY ConstantsAssumption DEF HitWays
<1>4. CASE HitWays(dir, k, b) = {}
  BY <1>1, <1>3, <1>4 DEF HitWay, StateIn
<1>5. CASE HitWays(dir, k, b) # {}
  <2>1. PICK w \in Way : w = HitWay(dir, k, b) /\ w \in HitWays(dir, k, b)
    BY <1>3, <1>5 DEF HitWay
  <2>2. Copy(k, s, w, b) /\ StateIn(dir, k, b) = dir[k][<<s, w>>].st
    BY <1>1, <1>5, <2>1 DEF StateIn, FrameOf
  <2>3. \A v \in Way : Copy(k, s, v, b) <=> v = w
    BY <1>2, <2>2
  <2>4. QED
    BY <2>1, <2>2, <2>3
<1>6. QED
  BY <1>4, <1>5

(* When the directory is read nothing is being granted.                    *)
LEMMA ReadSettled ==
  ASSUME Base, DirInv, NEW c \in CCE, cceState[c] = "read_dir"
  PROVE  /\ ReqSet(c) \in Set /\ HomeOf[ReqSet(c)] = c /\ Cleared(c)
         /\ mshr[c].lce \in LCE /\ mshr[c].addr \in Block /\ ReqSet(c) = SetOf[mshr[c].addr]
         /\ \A l, k \in LCE, w, v \in Way :
              Copy(l, ReqSet(c), w, mshr[c].addr) /\ Copy(k, ReqSet(c), v, mshr[c].addr)
              /\ dir[l][<<ReqSet(c), w>>].st \in Owned => l = k
<1>1. AtFsm(c) /\ Cleared(c)
  BY DEF AtFsm, Unsourced, Working, Cached, Cleared
<1>2. /\ mshr[c].lce \in LCE /\ mshr[c].addr \in Block
      /\ ReqSet(c) \in Set /\ HomeOf[ReqSet(c)] = c
  BY <1>1, FsmHas
<1>3. PICK s \in Set : s = ReqSet(c)
  BY <1>2
<1>4. \A l, w : ~Fresh(s, l, w)
  BY <1>2, <1>3 DEF Fresh
<1>5. HomeOf[s] = c
  BY <1>2, <1>3
<1>6. \A l, k \in LCE, w, v \in Way :
        Copy(l, s, w, mshr[c].addr) /\ Copy(k, s, v, mshr[c].addr) /\ dir[l][<<s, w>>].st \in Owned => l = k
  BY <1>1, <1>4, <1>5 DEF DirInv, DirOwner
<1>7. QED
  BY <1>1, <1>2, <1>3, <1>6 DEF ReqSet

(* What the flags mean.                                                    *)
LEMMA FlagsMean ==
  ASSUME Base, DirInv, NEW c \in CCE, cceState[c] = "read_dir",
         NEW j \in LCE, j = mshr[c].lce, NEW b \in Block, b = mshr[c].addr, NEW s \in Set, s = ReqSet(c)
  PROVE  /\ CachedOwned(dir, j, b) =>
              /\ Owner(dir, b) \in LCE /\ Owner(dir, b) # j
              /\ HitWay(dir, Owner(dir, b), b) \in Way
              /\ Copy(Owner(dir, b), s, HitWay(dir, Owner(dir, b), b), b)
              /\ dir[Owner(dir, b)][<<s, HitWay(dir, Owner(dir, b), b)>>].st \in Owned
              /\ \A k \in LCE, w \in Way : Copy(k, s, w, b) => k = Owner(dir, b)
              /\ ~CachedShared(dir, j, b) /\ StateIn(dir, j, b) = "I"
         /\ ~CachedOwned(dir, j, b) =>
              \A k \in LCE, w \in Way : k # j /\ Copy(k, s, w, b) =>
                CachedShared(dir, j, b) /\ dir[k][<<s, w>>].st = "S"
<1>1. /\ s = SetOf[b] /\ Cleared(HomeOf[s])
      /\ \A l, k \in LCE, w, v \in Way :
           Copy(l, s, w, b) /\ Copy(k, s, v, b) /\ dir[l][<<s, w>>].st \in Owned => l = k
  BY ReadSettled
<1>2. CASE CachedOwned(dir, j, b)
  <2>1. PICK o \in LCE : o = Owner(dir, b) /\ StateIn(dir, o, b) \in Owned
    BY <1>2 DEF CachedOwned, Owner, CachedIn
  <2>2. PICK i \in LCE : i # j /\ StateIn(dir, i, b) \in Owned
    BY <1>2 DEF CachedOwned, CachedIn
  <2>3. PICK w \in Way : Copy(o, s, w, b) /\ HitWay(dir, o, b) = w /\ dir[o][<<s, w>>].st \in Owned
    <3>1. StateIn(dir, o, b) # "I" =>
            \E w \in Way : /\ Copy(o, s, w, b) /\ HitWay(dir, o, b) = w
                           /\ StateIn(dir, o, b) = dir[o][<<s, w>>].st
      BY <1>1, HitIs
    <3>2. QED
      BY <2>1, <3>1 DEF Owned
  <2>4. PICK v \in Way : Copy(i, s, v, b)
    BY <1>1, <2>2, HitIs DEF Owned
  <2>5. \A k \in LCE, x \in Way : Copy(k, s, x, b) => k = o
    BY <1>1, <2>3
  <2>6. o # j
    BY <2>2, <2>4, <2>5
  <2>7. \A k \in LCE : k # o => StateIn(dir, k, b) = "I"
    BY <1>1, <2>5, HitIs
  <2>8. ~CachedShared(dir, j, b)
    <3>1. CachedIn(dir, b, {"S"}) = {}
      BY <2>1, <2>7 DEF CachedIn, Owned
    <3>2. QED
      BY <3>1 DEF CachedShared
  <2>9. QED
    BY <1>2, <2>1, <2>3, <2>5, <2>6, <2>7, <2>8
<1>3. CASE ~CachedOwned(dir, j, b)
  <2> SUFFICES ASSUME NEW k \in LCE, NEW w \in Way, k # j, Copy(k, s, w, b)
               PROVE  CachedShared(dir, j, b) /\ dir[k][<<s, w>>].st = "S"
    BY <1>3
  <2>1. StateIn(dir, k, b) = dir[k][<<s, w>>].st
    BY <1>1, HitIs
  <2>2. StateIn(dir, k, b) \notin Owned
    BY <1>3 DEF CachedOwned, CachedIn
  <2>3. dir[k][<<s, w>>].st \in CohState /\ dir[k][<<s, w>>].st # "I"
    BY DEF Base, IInv, DirTypeOK, Line, Frame, Copy
  <2>4. StateIn(dir, k, b) = "S"
    BY <2>1, <2>2, <2>3 DEF CohState, Owned
  <2>5. CachedShared(dir, j, b)
    BY <2>4 DEF CachedShared, CachedIn
  <2>6. QED
    BY <2>1, <2>4, <2>5
<1>4. QED
  BY <1>2, <1>3

(* A requester that is not granted an upgrade has no copy at all.          *)
LEMMA MineKnown ==
  ASSUME Base, DirInv, TakeInv, GrantInv, TagInv, Lacks, NEW c \in CCE, cceState[c] = "read_dir",
         NEW j \in LCE, j = mshr[c].lce, NEW b \in Block, b = mshr[c].addr, NEW s \in Set, s = ReqSet(c),
         ~Upgrade(dir, j, b, mshr[c].write), NEW w \in Way
  PROVE  ~Copy(j, s, w, b)
<1> SUFFICES ASSUME Copy(j, s, w, b) PROVE FALSE
  OBVIOUS
<1>1. AtFsm(c) /\ ~Invalidating(c)
  BY DEF AtFsm, Unsourced, Working, Cached, Invalidating
<1>2. /\ Tok("fsm", c, 0, j, b, "cached") /\ HomeOf[s] = c
      /\ miss[j].phase = "sent" /\ miss[j].op # "uc_rd" /\ miss[j].addr = b
  BY <1>1, FsmHas
<1>3. Early(s)
  BY <1>2 DEF Early, Serving, Working, Cached
<1>4. Same(j, s, w)
  BY <1>1, <1>3, FsmSettled DEF ToFill, ToUpgrade
<1>5. tag[j][<<s, w>>].blk = b /\ tag[j][<<s, w>>].st = dir[j][<<s, w>>].st /\ dir[j][<<s, w>>].st # "I"
  BY <1>4 DEF Same, Copy
<1>6. s = SetOf[b]
  BY DEF ReqSet
<1>7. Past(j)
  <2>1. InService(c)
    BY DEF InService
  <2>2. QED
    BY <2>1 DEF Base, SyncInv
<1>8. ~Holds(j, {"data", "st_wakeup"})
  <2> SUFFICES ASSUME Holds(j, {"data", "st_wakeup"}) PROVE FALSE
    OBVIOUS
  <2>1. lceState[j] \notin Passed
    BY DEF Base, IInv, LceOK, CmdWF, Holds, Passed
  <2>2. lceCmd[j] \in Command /\ lceCmd[j].dst = j
    BY DEF Base, IInv, LceOK, LceTypeOK, SerialInv, HeldDst, Holds
  <2>3. PICK bb \in Block : bb = lceCmd[j].addr
    BY <2>2, CommandFields DEF Holds
  <2>4. LceTok(j, j, bb, "cached")
    BY <2>1, <2>2, <2>3 DEF LceTok, Carries, Sources, Target, Kind, Holds
  <2>5. Tok("lce", j, 0, j, bb, "cached")
    BY <2>4 DEF Tok
  <2>6. QED
    BY <1>2, <2>5 DEF Base, SerialInv, TokInv, TokOne
<1>9. dir[j][<<s, w>>].st \in CohState
  BY DEF Base, IInv, DirTypeOK, Line, Frame
<1>10. ~Hit(j, b, w, Needs(miss[j].op))
  BY <1>2, <1>8 DEF Lacks
<1>11. dir[j][<<s, w>>].st \notin Needs(miss[j].op)
  BY <1>5, <1>6, <1>7, <1>10 DEF Hit, Past, FrameOf
<1>12. miss[j].op # "rd" /\ dir[j][<<s, w>>].st = "S"
  BY <1>5, <1>9, <1>11 DEF Needs, CohState, Valid, Owned
<1>13. mshr[c].write
  BY <1>1, <1>12 DEF DirInv, KnownInv, Asked
<1>14. StateIn(dir, j, b) = "S"
  <2>1. Cleared(HomeOf[s])
    BY <1>2 DEF Cleared
  <2>2. StateIn(dir, j, b) = dir[j][<<s, w>>].st
    BY <1>6, <2>1, HitIs
  <2>3. QED
    BY <1>12, <2>2
<1>15. QED
  BY <1>13, <1>14 DEF Upgrade

(* What the directory says of the block that engine c has just looked up.  *)
ReadIs(c, j, b, s) ==
  /\ mshr'[c].lce = j /\ mshr'[c].addr = b /\ dir' = dir /\ cceState'[c] = "write_next_state"
  /\ \A k \in LCE, w \in Way : sharers'[c][k] = w <=> Copy(k, s, w, b)
  /\ mshr'[c].xf =>
       /\ mshr'[c].owner # j /\ dir[mshr'[c].owner][<<s, mshr'[c].ownerWay>>].st \in Owned
       /\ \A k \in LCE, w \in Way : Copy(k, s, w, b) => k = mshr'[c].owner
       /\ ~mshr'[c].csf /\ ~mshr'[c].uf
  /\ ~mshr'[c].xf => \A k \in LCE, w \in Way : k # j /\ Copy(k, s, w, b) =>
       mshr'[c].csf /\ dir[k][<<s, w>>].st = "S"
  /\ mshr'[c].next = IF mshr'[c].write THEN "M"
                      ELSE IF mshr'[c].nonExcl \/ mshr'[c].csf \/ mshr'[c].xf THEN "S" ELSE "E"
  /\ mshr'[c].uf => mshr'[c].write /\ Copy(j, s, mshr'[c].way, b)
                    /\ dir[j][<<s, mshr'[c].way>>].st = "S"
  /\ mshr'[c].rf => ~mshr'[c].uf
  /\ ~mshr'[c].uf => \A w \in Way : ~Copy(j, s, w, b)

(* What the engine reads from the directory is what the directory holds.   *)
LEMMA ReadKnown ==
  ASSUME Base, DirInv, TakeInv, GrantInv, TagInv, Lacks, NEW c \in CCE, CceReadDir(c),
         NEW j \in LCE, j = mshr[c].lce, NEW b \in Block, b = mshr[c].addr, NEW s \in Set, s = ReqSet(c)
  PROVE  ReadIs(c, j, b, s)
<1>1. cceState[c] = "read_dir"
  BY DEF CceReadDir
<1>2. /\ mshr'[c].lce = j /\ mshr'[c].addr = b
      /\ mshr'[c].write = mshr[c].write /\ mshr'[c].nonExcl = mshr[c].nonExcl
      /\ mshr'[c].way = HitWay(dir, j, b)
      /\ mshr'[c].rf = Replace(dir, j, b, mshr[c].write, mshr[c].lru)
      /\ mshr'[c].uf = Upgrade(dir, j, b, mshr[c].write)
      /\ mshr'[c].csf = CachedShared(dir, j, b) /\ mshr'[c].xf = CachedOwned(dir, j, b)
      /\ mshr'[c].owner = Owner(dir, b)
      /\ mshr'[c].ownerWay = IF Owner(dir, b) = None THEN None ELSE HitWay(dir, Owner(dir, b), b)
      /\ mshr'[c].next = NextState(dir, j, b, mshr[c].write, mshr[c].nonExcl)
  BY ReadDirMshr DEF Base
<1>3. dir' = dir /\ cceState'[c] = "write_next_state"
  <2>1. cceState \in [CCE -> CceStates]
    BY DEF Base, IInv, CceOK, CceTypeOK
  <2>2. QED
    BY <2>1 DEF CceReadDir, Goto, dirVars
<1>4. s = SetOf[b] /\ Cleared(HomeOf[s])
  BY <1>1, ReadSettled
<1>5. \A k \in LCE : sharers'[c][k] = HitWay(dir, k, b)
  <2>1. sharers \in [CCE -> [LCE -> Way \cup {None}]]
    BY DEF Base, IInv, CceOK, CceTypeOK
  <2>2. sharers' = [sharers EXCEPT ![c] = [k \in LCE |-> HitWay(dir, k, b)]]
    BY DEF CceReadDir
  <2>3. QED
    BY <2>1, <2>2
<1>6. \A k \in LCE, w \in Way : sharers'[c][k] = w <=> Copy(k, s, w, b)
  BY <1>4, <1>5, HitIs
<1>7. mshr'[c].xf =>
        /\ mshr'[c].owner # j /\ dir[mshr'[c].owner][<<s, mshr'[c].ownerWay>>].st \in Owned
        /\ \A k \in LCE, w \in Way : Copy(k, s, w, b) => k = mshr'[c].owner
        /\ ~mshr'[c].csf /\ ~mshr'[c].uf
  <2> SUFFICES ASSUME CachedOwned(dir, j, b)
               PROVE  /\ mshr'[c].owner # j /\ dir[mshr'[c].owner][<<s, mshr'[c].ownerWay>>].st \in Owned
                      /\ \A k \in LCE, w \in Way : Copy(k, s, w, b) => k = mshr'[c].owner
                      /\ ~mshr'[c].csf /\ ~mshr'[c].uf
    BY <1>2
  <2>1. PICK o \in LCE : o = Owner(dir, b)
    BY OwnerIn
  <2>2. /\ o # j /\ dir[o][<<s, HitWay(dir, o, b)>>].st \in Owned
        /\ \A k \in LCE, w \in Way : Copy(k, s, w, b) => k = o
        /\ ~CachedShared(dir, j, b) /\ StateIn(dir, j, b) = "I"
    BY <1>1, <2>1, FlagsMean
  <2>3. o # None
    BY ConstantsAssumption
  <2>4. mshr'[c].owner = o /\ mshr'[c].ownerWay = HitWay(dir, o, b)
    BY <1>2, <2>1, <2>3
  <2>5. ~Upgrade(dir, j, b, mshr[c].write)
    BY <2>2 DEF Upgrade
  <2>6. QED
    BY <1>2, <2>2, <2>4, <2>5
<1>8. ~mshr'[c].xf => \A k \in LCE, w \in Way : k # j /\ Copy(k, s, w, b) =>
        mshr'[c].csf /\ dir[k][<<s, w>>].st = "S"
  BY <1>1, <1>2, FlagsMean
<1>9. mshr'[c].next = IF mshr'[c].write THEN "M"
                       ELSE IF mshr'[c].nonExcl \/ mshr'[c].csf \/ mshr'[c].xf THEN "S" ELSE "E"
  BY <1>2 DEF NextState
<1>10. mshr'[c].uf => mshr'[c].write /\ Copy(j, s, mshr'[c].way, b) /\ dir[j][<<s, mshr'[c].way>>].st = "S"
  <2> SUFFICES ASSUME Upgrade(dir, j, b, mshr[c].write)
               PROVE  mshr'[c].write /\ Copy(j, s, mshr'[c].way, b) /\ dir[j][<<s, mshr'[c].way>>].st = "S"
    BY <1>2
  <2>1. mshr[c].write /\ StateIn(dir, j, b) = "S"
    BY DEF Upgrade
  <2>2. StateIn(dir, j, b) # "I" =>
          \E w \in Way : /\ Copy(j, s, w, b) /\ HitWay(dir, j, b) = w
                         /\ StateIn(dir, j, b) = dir[j][<<s, w>>].st
    BY <1>4, HitIs
  <2>3. PICK w \in Way : /\ Copy(j, s, w, b) /\ HitWay(dir, j, b) = w
                         /\ StateIn(dir, j, b) = dir[j][<<s, w>>].st
    BY <2>1, <2>2
  <2>4. mshr'[c].way = w
    BY <1>2, <2>3
  <2>5. QED
    BY <1>2, <2>1, <2>3, <2>4
<1>11. mshr'[c].rf => ~mshr'[c].uf
  BY <1>2 DEF Replace
<1>12. ~mshr'[c].uf => \A w \in Way : ~Copy(j, s, w, b)
  BY <1>1, <1>2, MineKnown
<1>13. QED
  BY <1>2, <1>3, <1>6, <1>7, <1>8, <1>9, <1>10, <1>11, <1>12 DEF ReadIs

(* What another engine knows stays as it is.                               *)
LEMMA Elsewhere ==
  ASSUME Base, NEW c \in CCE, CceStep(c), NEW d \in CCE, d # c
  PROVE  /\ cceState'[d] = cceState[d] /\ mshr'[d] = mshr[d]
         /\ toInv'[d] = toInv[d] /\ sharers'[d] = sharers[d] /\ ReqSet(d)' = ReqSet(d)
         /\ cceState[d] \in Cached =>
              \A k \in LCE, w \in Way : dir'[k][<<ReqSet(d), w>>] = dir[k][<<ReqSet(d), w>>]
<1>1. /\ cceState'[d] = cceState[d] /\ mshr'[d] = mshr[d]
      /\ toInv'[d] = toInv[d] /\ sharers'[d] = sharers[d]
  BY CceOthers DEF Base
<1>2. ReqSet(d)' = ReqSet(d)
  BY <1>1 DEF ReqSet
<1>3. cceState[d] \in Cached =>
        \A k \in LCE, w \in Way : dir'[k][<<ReqSet(d), w>>] = dir[k][<<ReqSet(d), w>>]
  <2> SUFFICES ASSUME cceState[d] \in Cached
               PROVE  \A k \in LCE, w \in Way : dir'[k][<<ReqSet(d), w>>] = dir[k][<<ReqSet(d), w>>]
    OBVIOUS
  <2>1. PICK s \in Set : s = ReqSet(d) /\ HomeOf[s] # c
    BY WorksHome DEF Base
  <2>2. QED
    BY <2>1, DirOthers DEF Base
<1>4. QED
  BY <1>1, <1>2, <1>3

(* An engine that is deciding keeps what it has read.                      *)
LEMMA DecidingKept ==
  ASSUME Base, Base', DirInv, NEW c \in CCE, CceStep(c), ~CceReadDir(c),
         cceState'[c] \in Deciding \cup {"transfer"}
  PROVE  /\ cceState[c] \in Deciding \cup {"transfer"}
         /\ cceState'[c] \in Deciding => cceState[c] \in Deciding
         /\ SameAnswer(c) /\ ReqSet(c)' = ReqSet(c) /\ sharers'[c] = sharers[c]
         /\ \A k \in LCE, w \in Way : k # mshr[c].lce =>
              dir'[k][<<ReqSet(c), w>>] = dir[k][<<ReqSet(c), w>>]
         /\ cceState'[c] = "write_next_state" => dir' = dir /\ cceState' = cceState
<1>1. cceState[c] \in Decided /\ SameAnswer(c) /\ cceState[c] \in Cached
  BY DecidedMove DEF Base, Deciding, Decided, Cached
<1>2. ReqSet(c)' = ReqSet(c)
  BY <1>1 DEF SameAnswer, SameRequest, ReqSet
<1>3. StateMove(cceState[c], cceState'[c])
  BY StateMoves DEF Base
<1>4. cceState[c] = "inv_ack" => cceState'[c] # "transfer"
  <2>1. cceState[c] = "inv_ack" => ~mshr[c].xf
    BY DEF DirInv, KnownInv, KnownFlags, Decided
  <2>2. cceState'[c] = "transfer" => mshr'[c].xf
    BY DEF Base, IInv, CceOK, MshrWF
  <2>3. QED
    BY <1>1, <2>1, <2>2 DEF SameAnswer
<1>5. cceState[c] # "inv_cmd"
  BY <1>3 DEF StateMove, Moves1, After, Cached, Deciding
<1>6. /\ cceState[c] \in Deciding \cup {"transfer"}
      /\ cceState'[c] \in Deciding => cceState[c] \in Deciding
      /\ cceState'[c] = "write_next_state" => cceState[c] = "write_next_state"
  BY <1>1, <1>3, <1>4 DEF StateMove, Moves1, After, Cached, Deciding, Decided
<1>7. sharers'[c] = sharers[c]
  <2>1. ~CceResolve(c) /\ \A l \in LCE : ~CceReady(c, l)
    BY <1>6 DEF CceResolve, CceReady, Deciding
  <2>2. QED
    BY <2>1, CntBy DEF CceWriteNextState, CceReplacementWbResp, CceInvCmd, CceInvAck
<1>8. ~CceTransfer(c) /\ ~CceInvCmd(c) /\ ~CceClearDir(c)
  <2>1. ~CceTransfer(c)
    <3>1. CceTransfer(c) => cceState'[c] \in {"resolve_speculation", "transfer_wb_resp"}
      BY TransferStep
    <3>2. QED
      BY <3>1 DEF Deciding
  <2>2. QED
    BY <1>5, <1>6, <2>1 DEF CceInvCmd, CceClearDir, Deciding
<1>9. \A k \in LCE, w \in Way : k # mshr[c].lce =>
        dir'[k][<<ReqSet(c), w>>] = dir[k][<<ReqSet(c), w>>]
  <2>1. PICK s \in Set : s = ReqSet(c)
    BY <1>1, WorksHome DEF Base
  <2>2. CASE CceWriteNextState(c)
    <3>1. DirPut(s, mshr[c].lce, GrantWay(c), mshr[c].addr, mshr[c].next)
      BY <2>1, <2>2, WriteStep
    <3>2. QED
      BY <2>1, <3>1 DEF DirPut
  <2>3. CASE ~CceWriteNextState(c)
    <3>1. DirSame(s)
      BY <1>8, <2>3, DirStep
    <3>2. QED
      BY <2>1, <3>1 DEF DirSame
  <2>4. QED
    BY <2>2, <2>3
<1>10. cceState'[c] = "write_next_state" => dir' = dir /\ cceState' = cceState
  <2> SUFFICES ASSUME cceState'[c] = "write_next_state" PROVE dir' = dir /\ cceState' = cceState
    OBVIOUS
  <2>1. ~CceWriteNextState(c)
    <3>1. CceWriteNextState(c) => mshr[c].rf \/ Filled(c)
      BY WriteStep
    <3>2. CceWriteNextState(c) /\ mshr[c].rf => cceState'[c] = "replacement"
      BY WriteStep
    <3>3. QED
      BY <3>1, <3>2 DEF Filled, FillStep
  <2>2. dir' = dir
    BY <1>8, <2>1, DirBy, SMTT(40)
  <2>3. cceState' = cceState
    BY <1>6, <2>1, FsmBy
    DEF CceReset, CceClearDir, CceLeaveUncached, CceSyncAck, CceUcReq, CceReadPending, CceDeqReq,
      CceReadMemSpec, CceReadDir, CceReplacement, CceReplacementWbResp, CceInvCmd, CceInvAck,
      CceUpgrade, CceTransfer, CceTransferWbResp, CceResolve, CceReady, CceSendSync
  <2>4. QED
    BY <2>2, <2>3
<1>11. QED
  BY <1>1, <1>2, <1>6, <1>7, <1>9, <1>10

(* Copies of the other caches, before and after.                           *)
LEMMA OthersKept ==
  ASSUME Base, Base', DirInv, NEW c \in CCE, CceStep(c), ~CceReadDir(c),
         cceState'[c] \in Deciding \cup {"transfer"}, NEW k \in LCE, NEW w \in Way
  PROVE  OtherCopy(c, k, w)' <=> OtherCopy(c, k, w)
<1>1. /\ SameAnswer(c) /\ ReqSet(c)' = ReqSet(c)
      /\ k # mshr[c].lce => dir'[k][<<ReqSet(c), w>>] = dir[k][<<ReqSet(c), w>>]
  BY DecidingKept
<1>2. mshr'[c].lce = mshr[c].lce /\ mshr'[c].addr = mshr[c].addr
  BY <1>1 DEF SameAnswer, SameRequest
<1>3. QED
  BY <1>1, <1>2 DEF OtherCopy, Copy

(* A step of one engine leaves what the directory has of the request of    *)
(* another.                                                                *)
LEMMA OthersElsewhere ==
  ASSUME Base, NEW c \in CCE, CceStep(c), NEW d \in CCE, d # c, cceState[d] \in Cached,
         NEW k \in LCE, NEW w \in Way
  PROVE  OtherCopy(d, k, w)' <=> OtherCopy(d, k, w)
BY Elsewhere DEF OtherCopy, Copy

(* KnownSharers, step of an engine.                                        *)
LEMMA KnownSharersCce ==
  ASSUME Base, Base', DirInv, TakeInv, GrantInv, TagInv, Lacks, NEW c \in CCE, CceStep(c)
  PROVE  KnownSharers'
<1> SUFFICES ASSUME NEW d \in CCE, cceState'[d] \in Deciding, NEW k \in LCE, NEW w \in Way,
                    k # mshr'[d].lce
             PROVE  OtherCopy(d, k, w)' <=> sharers'[d][k] = w
  BY DEF KnownSharers
<1>1. CASE d # c
  <2>1. cceState[d] \in Deciding /\ cceState[d] \in Cached /\ mshr'[d] = mshr[d] /\ sharers'[d] = sharers[d]
    BY <1>1, Elsewhere DEF Deciding, Cached
  <2>2. OtherCopy(d, k, w)' <=> OtherCopy(d, k, w)
    BY <1>1, <2>1, OthersElsewhere DEF OtherCopy, Copy
  <2>3. OtherCopy(d, k, w) <=> sharers[d][k] = w
    BY <2>1 DEF DirInv, KnownInv, KnownSharers
  <2>4. QED
    BY <2>1, <2>2, <2>3
<1>2. CASE d = c /\ ~CceReadDir(c)
  <2>1. cceState[c] \in Deciding /\ SameAnswer(c) /\ sharers'[c] = sharers[c]
    BY <1>2, DecidingKept
  <2>2. OtherCopy(c, k, w)' <=> OtherCopy(c, k, w)
    BY <1>2, OthersKept DEF OtherCopy, Copy
  <2>3. mshr'[c].lce = mshr[c].lce
    BY <2>1 DEF SameAnswer, SameRequest
  <2>4. OtherCopy(c, k, w) <=> sharers[c][k] = w
    BY <1>2, <2>1, <2>3 DEF DirInv, KnownInv, KnownSharers
  <2>5. QED
    BY <1>2, <2>1, <2>2, <2>4
<1>3. CASE d = c /\ CceReadDir(c)
  <2>1. PICK j \in LCE, b \in Block, s \in Set : j = mshr[c].lce /\ b = mshr[c].addr /\ s = ReqSet(c)
    BY <1>3, ReadSettled DEF CceReadDir
  <2>a. CceReadDir(c)
    BY <1>3
  <2>b. ReadIs(c, j, b, s)
    BY <2>a, <2>1, ReadKnown
  <2>2. /\ mshr'[c].lce = j /\ mshr'[c].addr = b /\ dir' = dir
        /\ (sharers'[c][k] = w <=> Copy(k, s, w, b))
    BY <2>b DEF ReadIs
  <2>3. ReqSet(c)' = s
    BY <2>1, <2>2 DEF ReqSet
  <2>4. QED
    BY <1>3, <2>2, <2>3 DEF OtherCopy, Copy
<1>4. QED
  BY <1>1, <1>2, <1>3

(* What an engine finds when it reads the directory.                       *)
LEMMA ReadResult ==
  ASSUME Base, DirInv, TakeInv, GrantInv, TagInv, Lacks, NEW c \in CCE, CceReadDir(c)
  PROVE  \E j \in LCE, b \in Block, s \in Set :
           /\ j = mshr[c].lce /\ b = mshr[c].addr /\ s = ReqSet(c) /\ ReqSet(c)' = s
           /\ mshr'[c].lce = j /\ mshr'[c].addr = b /\ ReadIs(c, j, b, s)
<1>1. cceState[c] = "read_dir"
  BY DEF CceReadDir
<1>2. PICK j \in LCE, b \in Block, s \in Set : j = mshr[c].lce /\ b = mshr[c].addr /\ s = ReqSet(c)
  BY <1>1, ReadSettled
<1>3. ReadIs(c, j, b, s)
  BY <1>2, ReadKnown
<1>4. mshr'[c].lce = j /\ mshr'[c].addr = b
  BY <1>3 DEF ReadIs
<1>5. ReqSet(c)' = s
  BY <1>2, <1>4 DEF ReqSet
<1>6. QED
  BY <1>2, <1>3, <1>4, <1>5

(* The owner a transfer takes the block from is the only other cache that  *)
(* has it.                                                                 *)
LEMMA KnownOwnerCce ==
  ASSUME Base, Base', DirInv, TakeInv, GrantInv, TagInv, Lacks, NEW c \in CCE, CceStep(c)
  PROVE  KnownOwner'
<1> SUFFICES ASSUME NEW d \in CCE, cceState'[d] \in Deciding \cup {"transfer"}, mshr'[d].xf
             PROVE  /\ mshr'[d].owner # mshr'[d].lce
                    /\ dir'[mshr'[d].owner][<<ReqSet(d)', mshr'[d].ownerWay>>].st \in Owned
                    /\ \A k \in LCE, w \in Way : OtherCopy(d, k, w)' => k = mshr'[d].owner
  BY DEF KnownOwner
<1>1. CASE d # c
  <2>1. /\ cceState'[d] = cceState[d] /\ mshr'[d] = mshr[d] /\ ReqSet(d)' = ReqSet(d)
        /\ cceState[d] \in Cached =>
             \A k \in LCE, w \in Way : dir'[k][<<ReqSet(d), w>>] = dir[k][<<ReqSet(d), w>>]
    BY <1>1, Elsewhere
  <2>2. cceState[d] \in Deciding \cup {"transfer"} /\ cceState[d] \in Cached
        /\ cceState[d] \in Decided /\ mshr[d].xf
    BY <2>1 DEF Deciding, Cached, Decided
  <2>3. mshr[d].owner \in LCE /\ mshr[d].ownerWay \in Way
    BY <2>2, MshrKnown DEF Base
  <2>4. /\ mshr[d].owner # mshr[d].lce
        /\ dir[mshr[d].owner][<<ReqSet(d), mshr[d].ownerWay>>].st \in Owned
        /\ \A k \in LCE, w \in Way : OtherCopy(d, k, w) => k = mshr[d].owner
    BY <2>2 DEF DirInv, KnownInv, KnownOwner
  <2>5. \A k \in LCE, w \in Way : OtherCopy(d, k, w)' => OtherCopy(d, k, w)
    BY <1>1, <2>2, OthersElsewhere DEF OtherCopy, Copy
  <2>6. QED
    BY <2>1, <2>2, <2>3, <2>4, <2>5
<1>2. CASE d = c /\ ~CceReadDir(c)
  <2>1. /\ cceState[c] \in Deciding \cup {"transfer"} /\ SameAnswer(c) /\ ReqSet(c)' = ReqSet(c)
        /\ \A k \in LCE, w \in Way : k # mshr[c].lce =>
             dir'[k][<<ReqSet(c), w>>] = dir[k][<<ReqSet(c), w>>]
    BY <1>2, DecidingKept
  <2>2. cceState[c] \in Decided /\ mshr[c].xf
    BY <1>2, <2>1 DEF Deciding, Decided, SameAnswer
  <2>3. mshr[c].owner \in LCE /\ mshr[c].ownerWay \in Way
    BY <2>2, MshrKnown DEF Base
  <2>4. /\ mshr[c].owner # mshr[c].lce
        /\ dir[mshr[c].owner][<<ReqSet(c), mshr[c].ownerWay>>].st \in Owned
        /\ \A k \in LCE, w \in Way : OtherCopy(c, k, w) => k = mshr[c].owner
    BY <2>1, <2>2 DEF DirInv, KnownInv, KnownOwner
  <2>5. \A k \in LCE, w \in Way : OtherCopy(c, k, w)' => OtherCopy(c, k, w)
    BY <1>2, OthersKept DEF OtherCopy, Copy
  <2>6. mshr'[c].owner = mshr[c].owner /\ mshr'[c].ownerWay = mshr[c].ownerWay
        /\ mshr'[c].lce = mshr[c].lce
    BY <2>1 DEF SameAnswer, SameRequest
  <2>7. QED
    BY <1>2, <2>1, <2>3, <2>4, <2>5, <2>6
<1>3. CASE d = c /\ CceReadDir(c)
  <2>1. CceReadDir(c)
    BY <1>3
  <2>2. PICK j \in LCE, b \in Block, s \in Set :
          /\ j = mshr[c].lce /\ b = mshr[c].addr /\ s = ReqSet(c) /\ ReqSet(c)' = s
          /\ mshr'[c].lce = j /\ mshr'[c].addr = b /\ ReadIs(c, j, b, s)
    BY <2>1, ReadResult
  <2>3. /\ mshr'[c].owner # j /\ dir[mshr'[c].owner][<<s, mshr'[c].ownerWay>>].st \in Owned
        /\ \A k \in LCE, w \in Way : Copy(k, s, w, b) => k = mshr'[c].owner
        /\ dir' = dir
    BY <1>3, <2>2 DEF ReadIs
  <2>4. \A k \in LCE, w \in Way : OtherCopy(c, k, w)' => k = mshr'[c].owner
    BY <2>2, <2>3 DEF OtherCopy, Copy
  <2>5. QED
    BY <1>3, <2>2, <2>3, <2>4
<1>4. QED
  BY <1>1, <1>2, <1>3

(* Without an owner, the other caches have the block shared, or not at all.*)
LEMMA KnownNoOwnerCce ==
  ASSUME Base, Base', DirInv, TakeInv, GrantInv, TagInv, Lacks, NEW c \in CCE, CceStep(c)
  PROVE  KnownNoOwner'
<1> SUFFICES ASSUME NEW d \in CCE, cceState'[d] \in Deciding, ~mshr'[d].xf, NEW k \in LCE, NEW w \in Way,
                    OtherCopy(d, k, w)'
             PROVE  mshr'[d].csf /\ dir'[k][<<ReqSet(d)', w>>].st = "S"
  BY DEF KnownNoOwner
<1>1. CASE d # c
  <2>1. /\ cceState'[d] = cceState[d] /\ mshr'[d] = mshr[d] /\ ReqSet(d)' = ReqSet(d)
        /\ cceState[d] \in Cached =>
             \A kk \in LCE, ww \in Way : dir'[kk][<<ReqSet(d), ww>>] = dir[kk][<<ReqSet(d), ww>>]
    BY <1>1, Elsewhere
  <2>2. cceState[d] \in Deciding /\ cceState[d] \in Cached /\ ~mshr[d].xf
    BY <2>1 DEF Deciding, Cached
  <2>3. OtherCopy(d, k, w)
    BY <1>1, <2>2, OthersElsewhere DEF OtherCopy, Copy
  <2>4. mshr[d].csf /\ dir[k][<<ReqSet(d), w>>].st = "S"
    BY <2>2, <2>3 DEF DirInv, KnownInv, KnownNoOwner
  <2>5. QED
    BY <2>1, <2>2, <2>4
<1>2. CASE d = c /\ ~CceReadDir(c)
  <2>1. /\ cceState[c] \in Deciding /\ SameAnswer(c) /\ ReqSet(c)' = ReqSet(c)
        /\ \A kk \in LCE, ww \in Way : kk # mshr[c].lce =>
             dir'[kk][<<ReqSet(c), ww>>] = dir[kk][<<ReqSet(c), ww>>]
    BY <1>2, DecidingKept
  <2>2. OtherCopy(c, k, w)
    BY <1>2, OthersKept DEF OtherCopy, Copy
  <2>3. ~mshr[c].xf /\ mshr'[c].csf = mshr[c].csf
    BY <1>2, <2>1 DEF SameAnswer
  <2>4. mshr[c].csf /\ dir[k][<<ReqSet(c), w>>].st = "S" /\ k # mshr[c].lce
    BY <2>1, <2>2, <2>3 DEF DirInv, KnownInv, KnownNoOwner, OtherCopy
  <2>5. QED
    BY <1>2, <2>1, <2>3, <2>4
<1>3. CASE d = c /\ CceReadDir(c)
  <2>1. CceReadDir(c)
    BY <1>3
  <2>2. PICK j \in LCE, b \in Block, s \in Set :
          /\ j = mshr[c].lce /\ b = mshr[c].addr /\ s = ReqSet(c) /\ ReqSet(c)' = s
          /\ mshr'[c].lce = j /\ mshr'[c].addr = b /\ ReadIs(c, j, b, s)
    BY <2>1, ReadResult
  <2>3. /\ \A kk \in LCE, ww \in Way : kk # j /\ Copy(kk, s, ww, b) =>
             mshr'[c].csf /\ dir[kk][<<s, ww>>].st = "S"
        /\ dir' = dir
    BY <1>3, <2>2 DEF ReadIs
  <2>4. k # j /\ Copy(k, s, w, b)
    BY <1>3, <2>2, <2>3 DEF OtherCopy, Copy
  <2>5. QED
    BY <1>3, <2>2, <2>3, <2>4
<1>4. QED
  BY <1>1, <1>2, <1>3

(* What the requester has of the block is as it was read.                  *)
LEMMA KnownMineCce ==
  ASSUME Base, Base', DirInv, TakeInv, GrantInv, TagInv, Lacks, NEW c \in CCE, CceStep(c)
  PROVE  KnownMine'
<1> SUFFICES ASSUME NEW d \in CCE, cceState'[d] = "write_next_state"
             PROVE  /\ mshr'[d].uf =>
                         /\ Copy(mshr[d].lce, ReqSet(d), mshr[d].way, mshr[d].addr)'
                         /\ dir'[mshr'[d].lce][<<ReqSet(d)', mshr'[d].way>>].st = "S"
                    /\ ~mshr'[d].uf => \A w \in Way : ~Copy(mshr[d].lce, ReqSet(d), w, mshr[d].addr)'
  BY DEF KnownMine, Copy
<1>1. CASE d # c
  <2>1. /\ cceState'[d] = cceState[d] /\ mshr'[d] = mshr[d] /\ ReqSet(d)' = ReqSet(d)
        /\ cceState[d] \in Cached =>
             \A k \in LCE, w \in Way : dir'[k][<<ReqSet(d), w>>] = dir[k][<<ReqSet(d), w>>]
    BY <1>1, Elsewhere
  <2>2. cceState[d] = "write_next_state" /\ cceState[d] \in Cached /\ cceState[d] \in Decided
    BY <2>1 DEF Cached, Decided
  <2>3. mshr[d].lce \in LCE /\ (mshr[d].uf => mshr[d].way \in Way)
    BY <2>2, MshrKnown DEF Base
  <2>4. /\ mshr[d].uf => /\ Copy(mshr[d].lce, ReqSet(d), mshr[d].way, mshr[d].addr)
                         /\ dir[mshr[d].lce][<<ReqSet(d), mshr[d].way>>].st = "S"
        /\ ~mshr[d].uf => \A w \in Way : ~Copy(mshr[d].lce, ReqSet(d), w, mshr[d].addr)
    BY <2>2 DEF DirInv, KnownInv, KnownMine
  <2>5. QED
    BY <2>1, <2>2, <2>3, <2>4 DEF Copy
<1>2. CASE d = c /\ ~CceReadDir(c)
  <2>1. SameAnswer(c) /\ ReqSet(c)' = ReqSet(c) /\ dir' = dir /\ cceState' = cceState
    BY <1>2, DecidingKept DEF Deciding
  <2>2. /\ mshr[c].uf => /\ Copy(mshr[c].lce, ReqSet(c), mshr[c].way, mshr[c].addr)
                         /\ dir[mshr[c].lce][<<ReqSet(c), mshr[c].way>>].st = "S"
        /\ ~mshr[c].uf => \A w \in Way : ~Copy(mshr[c].lce, ReqSet(c), w, mshr[c].addr)
    BY <1>2, <2>1 DEF DirInv, KnownInv, KnownMine
  <2>3. QED
    BY <1>2, <2>1, <2>2 DEF Copy, SameAnswer, SameRequest
<1>3. CASE d = c /\ CceReadDir(c)
  <2>1. CceReadDir(c)
    BY <1>3
  <2>2. PICK j \in LCE, b \in Block, s \in Set :
          /\ j = mshr[c].lce /\ b = mshr[c].addr /\ s = ReqSet(c) /\ ReqSet(c)' = s
          /\ mshr'[c].lce = j /\ mshr'[c].addr = b /\ ReadIs(c, j, b, s)
    BY <2>1, ReadResult
  <2>3. /\ mshr'[c].uf => Copy(j, s, mshr'[c].way, b) /\ dir[j][<<s, mshr'[c].way>>].st = "S"
        /\ ~mshr'[c].uf => \A w \in Way : ~Copy(j, s, w, b)
        /\ dir' = dir
    BY <2>2 DEF ReadIs
  <2>4. QED
    BY <1>3, <2>2, <2>3 DEF Copy
<1>4. QED
  BY <1>1, <1>2, <1>3

(* How an engine comes to invalidate.                                      *)
LEMMA InvEntered ==
  ASSUME Base, Base', DirInv, NEW c \in CCE, CceStep(c), cceState'[c] = "inv_cmd", cceState[c] # "inv_cmd"
  PROVE  /\ CceWriteNextState(c) \/ CceReplacementWbResp(c)
         /\ Invalidate(mshr[c]) /\ toInv'[c] = Invalidated(c)
         /\ cceState[c] \in Deciding
<1>1. CceWriteNextState(c) \/ CceReplacementWbResp(c)
  <2>1. cceState \in [CCE -> CceStates]
    BY DEF Base, IInv, CceOK, CceTypeOK
  <2>2. QED
    BY <2>1, FsmBy
    DEF CceReset, CceClearDir, CceLeaveUncached, CceSyncAck, CceUcReq, CceReadPending, CceDeqReq,
      CceReadMemSpec, CceReadDir, CceReplacement, CceInvCmd, CceInvAck, AfterInvAck, FillStep,
      CceUpgrade, CceTransfer, CceTransferWbResp, CceResolve, CceReady, CceSendSync, Goto
<1>2. Filled(c)
  BY <1>1, WriteStep, EvictStep
<1>3. Invalidate(mshr[c]) /\ toInv'[c] = Invalidated(c)
  BY <1>2 DEF Filled, FillStep
<1>4. cceState[c] \in Deciding
  BY <1>1, WriteStep, EvictStep DEF Deciding
<1>5. QED
  BY <1>1, <1>3, <1>4, SMTT(40)

(* The flags of the MSHR are those of one lookup.                          *)
LEMMA KnownFlagsCce ==
  ASSUME Base, Base', DirInv, TakeInv, GrantInv, TagInv, Lacks, NEW c \in CCE, CceStep(c)
  PROVE  KnownFlags'
<1> DEFINE Flags(m) ==
      /\ m.next = IF m.write THEN "M" ELSE IF m.nonExcl \/ m.csf \/ m.xf THEN "S" ELSE "E"
      /\ m.uf => m.write
      /\ m.xf => ~m.csf /\ ~m.uf
      /\ m.rf => ~m.uf
<1>1. ASSUME NEW d \in CCE, cceState[d] \in Decided
      PROVE  /\ Flags(mshr[d])
             /\ cceState[d] \in {"inv_cmd", "inv_ack"} => mshr[d].csf /\ mshr[d].write
  BY <1>1 DEF DirInv, KnownInv, KnownFlags
<1>2. ASSUME NEW d \in CCE, cceState'[d] \in Decided
      PROVE  /\ Flags(mshr'[d])
             /\ cceState'[d] \in {"inv_cmd", "inv_ack"} => mshr'[d].csf /\ mshr'[d].write
  <2>1. CASE d # c
    <3>1. cceState'[d] = cceState[d] /\ mshr'[d] = mshr[d]
      BY <2>1, Elsewhere
    <3>2. QED
      BY <1>1, <1>2, <3>1
  <2>2. CASE d = c /\ ~CceReadDir(c)
    <3>1. cceState[c] \in Decided /\ SameAnswer(c)
      BY <1>2, <2>2, DecidedMove DEF Base
    <3>2. Flags(mshr[c])
      BY <1>1, <3>1
    <3>3. Flags(mshr'[c])
      BY <3>1, <3>2 DEF SameAnswer, SameRequest
    <3>4. ASSUME cceState'[c] \in {"inv_cmd", "inv_ack"} PROVE mshr[c].csf /\ mshr[c].write
      <4>1. CASE cceState[c] \in {"inv_cmd", "inv_ack"}
        BY <1>1, <3>1, <4>1
      <4>2. CASE cceState[c] \notin {"inv_cmd", "inv_ack"}
        <5>1. StateMove(cceState[c], cceState'[c])
          BY StateMoves DEF Base
        <5>2. cceState'[c] = "inv_cmd"
          BY <3>1, <3>4, <4>2, <5>1 DEF StateMove, Moves1, After, Cached, Decided
        <5>3. Invalidate(mshr[c])
          BY <4>2, <5>2, InvEntered
        <5>4. QED
          BY <5>3 DEF Invalidate
      <4>3. QED
        BY <4>1, <4>2
    <3>5. QED
      BY <2>2, <3>1, <3>3, <3>4 DEF SameAnswer, SameRequest
  <2>3. CASE d = c /\ CceReadDir(c)
    <3>1. CceReadDir(c)
      BY <2>3
    <3>2. PICK j \in LCE, b \in Block, s \in Set :
            /\ j = mshr[c].lce /\ b = mshr[c].addr /\ s = ReqSet(c) /\ ReqSet(c)' = s
            /\ mshr'[c].lce = j /\ mshr'[c].addr = b /\ ReadIs(c, j, b, s)
      BY <3>1, ReadResult
    <3>3. Flags(mshr'[c])
      BY <3>2 DEF ReadIs
    <3>4. cceState'[c] = "write_next_state"
      BY <3>2 DEF ReadIs
    <3>5. QED
      BY <2>3, <3>3, <3>4
  <2>4. QED
    BY <2>1, <2>2, <2>3
<1>3. QED
  BY <1>2 DEF KnownFlags

(* The copies left are those of the caches still to invalidate.            *)
LEMMA KnownLeftCce ==
  ASSUME Base, Base', DirInv, NEW c \in CCE, CceStep(c)
  PROVE  KnownLeft'
<1> SUFFICES ASSUME NEW d \in CCE, cceState'[d] = "inv_cmd"
             PROVE  /\ mshr'[d].lce \notin toInv'[d]
                    /\ \A k \in LCE, w \in Way : OtherCopy(d, k, w)' =>
                         k \in toInv'[d] /\ sharers'[d][k] = w
  BY DEF KnownLeft
<1>1. CASE d # c
  <2>1. /\ cceState'[d] = cceState[d] /\ mshr'[d] = mshr[d] /\ toInv'[d] = toInv[d]
        /\ sharers'[d] = sharers[d]
    BY <1>1, Elsewhere
  <2>2. cceState[d] = "inv_cmd" /\ cceState[d] \in Cached
    BY <2>1 DEF Cached
  <2>3. \A k \in LCE, w \in Way : OtherCopy(d, k, w)' => OtherCopy(d, k, w)
    BY <1>1, <2>2, OthersElsewhere DEF OtherCopy, Copy
  <2>4. /\ mshr[d].lce \notin toInv[d]
        /\ \A k \in LCE, w \in Way : OtherCopy(d, k, w) => k \in toInv[d] /\ sharers[d][k] = w
    BY <2>2 DEF DirInv, KnownInv, KnownLeft
  <2>5. QED
    BY <2>1, <2>3, <2>4
<1>2. CASE d = c /\ cceState[c] # "inv_cmd"
  <2>1. /\ CceWriteNextState(c) \/ CceReplacementWbResp(c)
        /\ Invalidate(mshr[c]) /\ toInv'[c] = Invalidated(c)
        /\ cceState[c] \in Deciding
    BY <1>2, InvEntered
  <2>2. PICK s \in Set : s = ReqSet(c)
    BY <2>1, WorksHome DEF Base, Deciding, Cached
  <2>3. /\ sharers' = sharers
        /\ \A k \in LCE, w \in Way : k # mshr[c].lce => dir'[k][<<s, w>>] = dir[k][<<s, w>>]
    BY <2>1, <2>2, WriteStep, EvictStep DEF DirPut
  <2>4. cceState[c] \in Decided /\ cceState'[c] \in Decided /\ ~CceReadDir(c)
    BY <1>2, <2>1 DEF Deciding, Decided, CceReadDir
  <2>5. mshr'[c].lce = mshr[c].lce /\ mshr'[c].addr = mshr[c].addr
    BY <2>4, DecidedMove DEF Base, SameAnswer, SameRequest
  <2>6. ReqSet(c)' = s
    BY <2>2, <2>5 DEF ReqSet
  <2>7. ~mshr[c].xf
    BY <2>1, <2>4 DEF DirInv, KnownInv, KnownFlags, Invalidate
  <2>8. toInv'[c] = {l \in LCE : sharers[c][l] # None} \ {mshr[c].lce}
    BY <2>1, <2>7 DEF Invalidated
  <2>9. \A k \in LCE, w \in Way : OtherCopy(c, k, w)' => OtherCopy(c, k, w)
    BY <2>2, <2>3, <2>5, <2>6 DEF OtherCopy, Copy
  <2>10. \A k \in LCE, w \in Way : OtherCopy(c, k, w) => k # mshr[c].lce /\ sharers[c][k] = w
    BY <2>1 DEF DirInv, KnownInv, KnownSharers, OtherCopy
  <2>11. \A w \in Way : w # None
    BY ConstantsAssumption
  <2>12. QED
    BY <1>2, <2>3, <2>5, <2>8, <2>9, <2>10, <2>11
<1>3. CASE d = c /\ cceState[c] = "inv_cmd"
  <2>1. PICK s \in Set : s = ReqSet(c)
    BY <1>3, WorksHome DEF Base, Cached
  <2>2. cceState[c] \in Decided /\ cceState'[c] \in Decided /\ ~CceReadDir(c)
    BY <1>3 DEF Decided, CceReadDir
  <2>3. mshr'[c].lce = mshr[c].lce /\ mshr'[c].addr = mshr[c].addr
    BY <2>2, DecidedMove DEF Base, SameAnswer, SameRequest
  <2>4. ReqSet(c)' = s
    BY <2>1, <2>3 DEF ReqSet
  <2>5. /\ mshr[c].lce \notin toInv[c]
        /\ \A k \in LCE, w \in Way : OtherCopy(c, k, w) => k \in toInv[c] /\ sharers[c][k] = w
    BY <1>3 DEF DirInv, KnownInv, KnownLeft
  <2>6. CASE CceInvCmd(c)
    <3>1. sharers' = sharers /\ \E l, w : InvSent(c, l, w)
      BY <2>6, InvStep
    <3>2. PICK l, v : InvSent(c, l, v)
      BY <3>1
    <3>3. /\ l \in LCE /\ v \in Way /\ v = sharers[c][l] /\ toInv'[c] = toInv[c] \ {l}
          /\ DirPut(s, l, v, dir[l][<<s, v>>].blk, "I")
      BY <2>1, <3>2 DEF InvSent
    <3>4. \A k \in LCE, w \in Way : OtherCopy(c, k, w)' => OtherCopy(c, k, w) /\ ~(k = l /\ w = v)
      BY <2>1, <2>3, <2>4, <3>3 DEF OtherCopy, Copy, DirPut
    <3>5. QED
      BY <1>3, <2>3, <2>5, <3>1, <3>3, <3>4
  <2>7. CASE ~CceInvCmd(c)
    <3>1. toInv'[c] = toInv[c] /\ sharers'[c] = sharers[c]
      <4>1. CASE CceInvAck(c)
        BY <4>1 DEF CceInvAck
      <4>2. CASE ~CceInvAck(c)
        <5>1. toInv'[c] = toInv[c]
          BY <1>3, <2>7, <4>2, CountMove DEF Base, Invalidating
        <5>2. QED
          BY <1>3, <2>7, <4>2, <5>1, CntBy
          DEF CceWriteNextState, CceReplacementWbResp, CceReadDir, CceReady, CceResolve
      <4>3. QED
        BY <4>1, <4>2
    <3>2. DirSame(s)
      BY <1>3, <2>7, DirStep DEF CceClearDir, CceWriteNextState, CceTransfer
    <3>3. \A k \in LCE, w \in Way : OtherCopy(c, k, w)' => OtherCopy(c, k, w)
      BY <2>1, <2>3, <2>4, <3>2 DEF OtherCopy, Copy, DirSame
    <3>4. QED
      BY <1>3, <2>3, <2>5, <3>1, <3>3
  <2>8. QED
    BY <2>6, <2>7
<1>4. QED
  BY <1>1, <1>2, <1>3

(* The request of an engine is the miss of its cache.                      *)
LEMMA AskedCce ==
  ASSUME Base, Base', DirInv, NEW c \in CCE, CceStep(c)
  PROVE  Asked'
<1>1. miss' = miss
  BY CceLeaves
<1> SUFFICES ASSUME NEW d \in CCE, AtFsm(d)'
             PROVE  /\ mshr'[d].lru = miss[mshr'[d].lce].lru
                    /\ mshr'[d].write <=> miss[mshr'[d].lce].op # "rd"
  BY <1>1 DEF Asked
<1>2. CASE AtFsm(d) /\ mshr'[d].lce = mshr[d].lce /\ mshr'[d].lru = mshr[d].lru
           /\ mshr'[d].write = mshr[d].write
  BY <1>2 DEF DirInv, KnownInv, Asked
<1>3. CASE d # c
  <2>1. cceState'[d] = cceState[d] /\ mshr'[d] = mshr[d]
    BY <1>3, Elsewhere
  <2>2. AtFsm(d)
    BY <2>1 DEF AtFsm
  <2>3. QED
    BY <1>2, <2>1, <2>2
<1>4. CASE d = c /\ ~CceDeqReq(c)
  <2>1. StateMove(cceState[c], cceState'[c])
    BY StateMoves, SMTT(40) DEF Base
  <2>2. cceState[c] = "deq_lce_req" => cceState'[c] = "deq_lce_req"
    BY <1>4, FsmBy
    DEF CceReset, CceClearDir, CceLeaveUncached, CceSyncAck, CceUcReq, CceReadPending,
      CceReadMemSpec, CceReadDir, CceWriteNextState, CceReplacement, CceReplacementWbResp, CceInvCmd,
      CceInvAck, CceUpgrade, CceTransfer, CceTransferWbResp, CceResolve, CceReady, CceSendSync
  <2>3. cceState[c] \in Working /\ cceState'[c] \in Working
    BY <1>4, <2>1, <2>2 DEF AtFsm, Unsourced, StateMove, Moves1, After, Working, Cached
  <2>4. SameRequest(c)
    <3>1. \A l \in LCE : ~CceReady(c, l)
      BY <2>3 DEF CceReady, Working, Cached
    <3>2. ~CceUcReq(c)
      BY <2>3 DEF CceUcReq, Working, Cached
    <3>3. ~CceResolve(c)
      <4>1. CceResolve(c) => cceState'[c] = "ready"
        BY DEF CceResolve, Goto, Base, IInv, CceOK, CceTypeOK
      <4>2. QED
        BY <2>3, <4>1 DEF Working, Cached
    <3>4. QED
      BY <3>1, <3>2, <3>3, FsmStays DEF Base
  <2>5. AtFsm(c)
    <3>1. cceState'[c] = "resolve_speculation" => ~mshr'[c].uf /\ ~mshr'[c].xf
      BY <1>4 DEF AtFsm, Unsourced
    <3>2. cceState[c] = "resolve_speculation" =>
            cceState'[c] = "resolve_speculation" /\ SameAnswer(c)
      <4> SUFFICES ASSUME cceState[c] = "resolve_speculation"
                   PROVE  cceState'[c] = "resolve_speculation" /\ SameAnswer(c)
        OBVIOUS
      <4>1. cceState'[c] = "resolve_speculation"
        BY <2>1, <2>3 DEF StateMove, Moves1, After, Working, Cached
      <4>2. cceState'[c] \in Decided /\ ~CceReadDir(c)
        BY <4>1 DEF Decided, CceReadDir
      <4>3. QED
        BY <4>1, <4>2, DecidedMove DEF Base
    <3>3. cceState[c] # "transfer_wb_resp"
      <4> SUFFICES ASSUME cceState[c] = "transfer_wb_resp" PROVE FALSE
        OBVIOUS
      <4>1. cceState'[c] = "resolve_speculation"
        BY <1>4, <2>1, <2>3 DEF StateMove, Moves1, After, Working, Cached, AtFsm, Unsourced
      <4>2. cceState'[c] \in Decided /\ ~CceReadDir(c)
        BY <4>1 DEF Decided, CceReadDir
      <4>3. mshr'[c].xf = mshr[c].xf
        BY <4>2, DecidedMove DEF Base, SameAnswer
      <4>4. mshr[c].xf
        BY DEF Base, SerialInv, MshrInv, MshrFlagsOK
      <4>5. QED
        BY <3>1, <4>1, <4>3, <4>4
    <3>4. QED
      BY <2>3, <3>1, <3>2, <3>3 DEF AtFsm, Unsourced, Working, SameAnswer
  <2>6. QED
    BY <1>2, <1>4, <2>4, <2>5 DEF SameRequest
<1>5. CASE d = c /\ CceDeqReq(c)
  <2>1. cceState[c] = "deq_lce_req" /\ mshr' = mshr
    BY <1>5 DEF CceDeqReq
  <2>2. mshr[c].lce \in LCE /\ reqNet[<<mshr[c].lce, c>>] # <<>>
    BY <2>1 DEF Base, IInv, ReqWF, Taking
  <2>3. PICK l \in LCE : l = mshr[c].lce
    BY <2>2
  <2>4. PICK r : r = Head(reqNet[<<l, c>>])
    OBVIOUS
  <2>5. r \in Request /\ 1 \in DOMAIN reqNet[<<l, c>>] /\ reqNet[<<l, c>>][1] = r
    BY <2>2, <2>3, <2>4, ReqHead DEF Base, IInv, NetTypeOK
  <2>6. MshrTaking
    BY DEF Base, SerialInv, MshrInv
  <2>7. Loaded(c, r)
    BY <2>1, <2>3, <2>4, <2>6 DEF MshrTaking
  <2>8. Blocking(l, c, 1)
    BY <2>5, <2>7 DEF Blocking, Loaded, CacheOp
  <2>9. ReqAsks
    BY DEF Base, SerialInv, ReqInv
  <2>10. Asks(l, r)
    BY <2>5, <2>8, <2>9 DEF ReqAsks
  <2>11. QED
    BY <1>5, <2>1, <2>3, <2>7, <2>10 DEF Asks, Loaded, CacheOp
<1>6. QED
  BY <1>3, <1>4, <1>5

(* The directory, and what the engines know of it, after any step of one.  *)
LEMMA DirCce ==
  ASSUME Base, Base', DirInv, TakeInv, GrantInv, TagInv, Lacks, NEW c \in CCE, CceStep(c)
  PROVE  DirInv'
<1>1. DirOne'
  BY DirOneCce
<1>2. DirOwner'
  BY DirOwnerCce
<1>3. KnownSharers'
  BY KnownSharersCce
<1>4. KnownOwner'
  BY KnownOwnerCce
<1>5. KnownNoOwner'
  BY KnownNoOwnerCce
<1>6. KnownLeft'
  BY KnownLeftCce
<1>7. KnownFlags'
  BY KnownFlagsCce
<1>8. KnownMine'
  BY KnownMineCce
<1>9. Asked'
  BY AskedCce
<1>10. KnownInv'
  BY <1>3, <1>4, <1>5, <1>6, <1>7, <1>8, <1>9 DEF KnownInv
<1>11. QED
  BY <1>1, <1>2, <1>10 DEF DirInv

----------------------------------------------------------------------------
(* The directory and the steps of a cache.                                 *)

(* The command a cache is about to acknowledge gave it the block.          *)
LEMMA AckToken ==
  ASSUME Base, NEW l \in LCE, lceState[l] = "coh_ack"
  PROVE  \E b \in Block, w \in Way :
           /\ b = lceCmd[l].addr /\ w = lceCmd[l].way /\ CmdFrame(l) = <<SetOf[b], w>>
           /\ lceCmd[l] \in Command /\ lceCmd[l] # None /\ lceCmd[l].dst = l
           /\ lceCmd[l].type \in {"data", "st_wakeup"}
           /\ Tok("lce", l, 0, l, b, "cached")
<1>1. lceCmd[l] # None /\ lceCmd[l].type \in {"data", "st_wakeup"} /\ lceCmd[l] \in Command
  BY DEF Base, IInv, LceOK, LceTypeOK, CmdWF, Holds
<1>2. lceCmd[l].dst = l
  BY <1>1 DEF Base, SerialInv, HeldDst
<1>3. PICK m \in Command : m = lceCmd[l]
  BY <1>1
<1>4. m.addr \in Block /\ m.way \in Way
  BY <1>1, <1>3, CommandFields
<1>5. Tok("lce", l, 0, l, m.addr, "cached")
  BY <1>1, <1>2, <1>3 DEF Tok, LceTok, Passed, Carries, Sources, Target, Kind
<1>6. CmdFrame(l) = <<SetOf[m.addr], m.way>>
  BY <1>3 DEF CmdFrame, FrameOf
<1>7. QED
  BY <1>1, <1>2, <1>3, <1>4, <1>5, <1>6

(* A miss that was sent stays as it is until it is acknowledged.           *)
LEMMA MissKept ==
  ASSUME Base, NEW k \in LCE, LceStep(k), NEW l \in LCE, miss[l].phase = "sent",
         miss[l].op # "uc_rd"
  PROVE  miss'[l] = miss[l] \/ (k = l /\ LceCohAck(l))
<1>1. CASE k # l
  BY <1>1, LceOthers
<1>2. CASE k = l
  <2>1. ~LceUcData(l)
    <3> SUFFICES ASSUME LceUcData(l) PROVE FALSE
      OBVIOUS
    <3>1. Waits(l, lceCmd[l].addr, Kind(lceCmd[l].type = "uc_data"))
      BY MissEnds DEF Base
    <3>2. lceCmd[l].type = "uc_data"
      BY DEF LceUcData, Executes, Holds
    <3>3. QED
      BY <3>1, <3>2 DEF Waits, Kind
  <2>2. ~LceSendReq(l) /\ ~CoreReplay(l) /\ ~LockExpire(l)
    BY DEF LceSendReq, CoreReplay, LockExpire
  <2>3. /\ \A b \in Block, op \in CoreOps, w \in Way : ~CoreMiss(l, b, op, w)
        /\ \A a \in IoBlock : ~CoreUcLoad(l, a)
    BY DEF CoreMiss, CoreUcLoad, CacheReady
  <2>4. QED
    BY <1>2, <2>1, <2>2, <2>3, MissBy
<1>3. QED
  BY <1>1, <1>2

(* The miss that has a place is not changed before its acknowledgement.    *)
LEMMA TokMiss ==
  ASSUME Base, NEW k \in LCE, LceStep(k), NEW a, NEW x, NEW i \in Nat, NEW l \in LCE, NEW b \in Block,
         Tok(a, x, i, l, b, "cached"), a # "req"
  PROVE  miss'[l] = miss[l] \/ (k = l /\ LceCohAck(l) /\ a = "lce" /\ x = l)
<1>1. miss[l].phase = "sent" /\ miss[l].op # "uc_rd"
  BY TokOpen
<1>2. miss'[l] = miss[l] \/ (k = l /\ LceCohAck(l))
  BY <1>1, MissKept
<1>3. ASSUME LceCohAck(l) PROVE a = "lce" /\ x = l
  <2>1. lceState[l] = "coh_ack"
    BY <1>3 DEF LceCohAck
  <2>2. PICK bb \in Block : Tok("lce", l, 0, l, bb, "cached")
    BY <2>1, AckToken
  <2>3. TokOne
    BY DEF Base, SerialInv, TokInv
  <2>4. QED
    BY <2>2, <2>3 DEF TokOne
<1>4. QED
  BY <1>2, <1>3

(* A step of a cache does not disturb what an engine knows.                *)
LEMMA AskedLce ==
  ASSUME Base, DirInv, NEW k \in LCE, LceStep(k)
  PROVE  Asked'
<1>1. cceState' = cceState /\ mshr' = mshr
  BY LceLeaves
<1>2. ASSUME NEW c \in CCE, AtFsm(c)
      PROVE  /\ mshr[c].lru = miss'[mshr[c].lce].lru
             /\ mshr[c].write <=> miss'[mshr[c].lce].op # "rd"
  <2>1. PICK l \in LCE, b \in Block : l = mshr[c].lce /\ Tok("fsm", c, 0, l, b, "cached")
    BY <1>2, FsmHas
  <2>2. miss'[l] = miss[l]
    BY <2>1, TokMiss
  <2>3. QED
    BY <1>2, <2>1, <2>2 DEF DirInv, KnownInv, Asked
<1>3. QED
  BY <1>1, <1>2 DEF Asked, AtFsm

(* DirInv, step of a cache.                                                *)
LEMMA DirLce ==
  ASSUME Base, DirInv, NEW k \in LCE, LceStep(k)
  PROVE  DirInv'
<1>1. UNCHANGED <<cceState, mshr, sharers, toInv, dir>>
  BY LceLeaves
<1>2. DirOne' /\ DirOwner'
  BY <1>1 DEF DirInv, DirOne, DirOwner, Copy, Cleared, Fresh, Serving, ReqSet, GrantWay
<1>3. KnownSharers' /\ KnownOwner' /\ KnownNoOwner'
  BY <1>1, SMTT(40) DEF DirInv, KnownInv, KnownSharers, KnownOwner, KnownNoOwner, OtherCopy,
    Copy, ReqSet
<1>4. KnownLeft' /\ KnownFlags' /\ KnownMine'
  BY <1>1 DEF DirInv, KnownInv, KnownLeft, KnownFlags, KnownMine, OtherCopy, Copy, ReqSet
<1>5. Asked'
  BY AskedLce
<1>6. QED
  BY <1>2, <1>3, <1>4, <1>5 DEF DirInv, KnownInv

----------------------------------------------------------------------------
(* What is granted is in the directory.                                    *)

(* The frame an engine has granted stays granted until it has sent the     *)
(* block.                                                                  *)
LEMMA GrantKept ==
  ASSUME Base, Base', DirInv, NEW c \in CCE, CceStep(c), Granting(c)', ~CceWriteNextState(c)
  PROVE  /\ Granting(c) /\ SameAnswer(c) /\ ReqSet(c)' = ReqSet(c) /\ GrantWay(c)' = GrantWay(c)
         /\ \A w \in Way : dir'[mshr[c].lce][<<ReqSet(c), w>>] = dir[mshr[c].lce][<<ReqSet(c), w>>]
<1>1. cceState'[c] \in Decided /\ cceState'[c] # "write_next_state"
  BY DEF Granting, Decided
<1>2. ~CceReadDir(c)
  <2>1. CceReadDir(c) => cceState'[c] = "write_next_state"
    BY DEF CceReadDir, Goto, Base, IInv, CceOK, CceTypeOK
  <2>2. QED
    BY <1>1, <2>1
<1>3. cceState[c] \in Decided /\ SameAnswer(c)
  BY <1>1, <1>2, DecidedMove DEF Base
<1>4. StateMove(cceState[c], cceState'[c])
  BY StateMoves DEF Base
<1>5. cceState[c] # "write_next_state"
  <2>1. cceState[c] = "write_next_state" => cceState'[c] = cceState[c]
    BY FsmBy
    DEF CceReset, CceClearDir, CceLeaveUncached, CceSyncAck, CceUcReq, CceReadPending, CceDeqReq,
      CceReadMemSpec, CceReadDir, CceReplacement, CceReplacementWbResp, CceInvCmd, CceInvAck,
      CceUpgrade, CceTransfer, CceTransferWbResp, CceResolve, CceReady, CceSendSync
  <2>2. QED
    BY <1>1, <2>1, SMTT(40)
<1>6. cceState[c] # "transfer_wb_resp"
  <2> SUFFICES ASSUME cceState[c] = "transfer_wb_resp" PROVE FALSE
    OBVIOUS
  <2>1. mshr[c].xf
    BY DEF Base, SerialInv, MshrInv, MshrFlagsOK
  <2>2. mshr'[c].xf
    BY <1>3, <2>1 DEF SameAnswer
  <2>3. cceState'[c] \in {"transfer_wb_resp", "resolve_speculation"}
    BY <1>1, <1>4 DEF StateMove, Moves1, After, Cached, Decided
  <2>4. QED
    BY <2>2, <2>3 DEF Granting
<1>7. Granting(c)
  <2>1. cceState[c] = "resolve_speculation" => cceState'[c] = "resolve_speculation"
    BY <1>1, <1>4 DEF StateMove, Moves1, After, Cached, Decided
  <2>2. QED
    BY <1>3, <1>5, <1>6, <2>1 DEF Granting, Decided, SameAnswer
<1>8. ReqSet(c)' = ReqSet(c) /\ GrantWay(c)' = GrantWay(c)
  BY <1>3 DEF SameAnswer, SameRequest, ReqSet, GrantWay
<1>9. \A w \in Way : dir'[mshr[c].lce][<<ReqSet(c), w>>] = dir[mshr[c].lce][<<ReqSet(c), w>>]
  <2>1. PICK s \in Set, j \in LCE : s = ReqSet(c) /\ j = mshr[c].lce
    BY <1>3, WorksHome, MshrKnown DEF Base, Decided, Cached
  <2>2. CASE CceInvCmd(c)
    <3>1. cceState[c] = "inv_cmd" /\ \E l, w : InvSent(c, l, w)
      BY <2>2, InvStep
    <3>2. PICK l, v : InvSent(c, l, v)
      BY <3>1
    <3>3. mshr[c].lce \notin toInv[c]
      BY <3>1 DEF DirInv, KnownInv, KnownLeft
    <3>4. l # j /\ DirPut(s, l, v, dir[l][<<s, v>>].blk, "I")
      BY <2>1, <3>2, <3>3 DEF InvSent
    <3>5. QED
      BY <2>1, <3>4 DEF DirPut
  <2>3. CASE CceTransfer(c)
    <3>1. cceState[c] = "transfer" /\ mshr[c].xf
      BY <2>3, TransferStep
    <3>2. mshr[c].owner # j
      BY <2>1, <3>1 DEF DirInv, KnownInv, KnownOwner
    <3>3. \E m : DirPut(s, mshr[c].owner, mshr[c].ownerWay, mshr[c].addr, m.st)
      BY <2>1, <2>3, TransferStep
    <3>4. PICK m : DirPut(s, mshr[c].owner, mshr[c].ownerWay, mshr[c].addr, m.st)
      BY <3>3
    <3>5. QED
      BY <2>1, <3>2, <3>4 DEF DirPut
  <2>4. CASE ~CceInvCmd(c) /\ ~CceTransfer(c)
    <3>1. ~CceClearDir(c)
      BY <1>3 DEF CceClearDir, Decided
    <3>2. DirSame(s)
      BY <2>4, <3>1, DirStep
    <3>3. QED
      BY <2>1, <3>2 DEF DirSame
  <2>5. QED
    BY <2>2, <2>3, <2>4
<1>10. QED
  BY <1>3, <1>7, <1>8, <1>9

(* The tag that an upgrade keeps has the block.                            *)
LEMMA UpgradeTagged ==
  ASSUME Base, DirInv, TakeInv, GrantInv, TagInv, NEW c \in CCE, cceState[c] = "write_next_state",
         mshr[c].uf
  PROVE  tag[mshr[c].lce][<<ReqSet(c), mshr[c].way>>].blk = mshr[c].addr
<1>1. AtFsm(c) /\ ~Invalidating(c)
  BY DEF AtFsm, Unsourced, Working, Cached, Invalidating
<1>2. mshr[c].lce \in LCE /\ mshr[c].way \in Way
  BY MshrKnown DEF Base, Decided
<1>3. PICK s \in Set, l \in LCE, w \in Way : s = ReqSet(c) /\ l = mshr[c].lce /\ w = mshr[c].way
  BY <1>1, <1>2, FsmHas
<1>4. HomeOf[s] = c
  BY <1>1, <1>3, FsmHas
<1>5. Early(s)
  BY <1>3, <1>4 DEF Early, Serving, Working, Cached
<1>6. Same(l, s, w) \/ ToFill(l, s, w) \/ ToUpgrade(l, s, w)
  BY <1>1, <1>3, FsmSettled
<1>7. Same(l, s, w)
  BY <1>5, <1>6 DEF ToFill, ToUpgrade
<1>8. Copy(l, s, w, mshr[c].addr)
  BY <1>3 DEF DirInv, KnownInv, KnownMine
<1>9. QED
  BY <1>3, <1>7, <1>8 DEF Same, Copy

(* GrantFsm, step of an engine.                                            *)
LEMMA GrantFsmCce ==
  ASSUME Base, Base', DirInv, TakeInv, GrantInv, TagInv, NEW c \in CCE, CceStep(c)
  PROVE  GrantFsm'
<1>1. tag' = tag
  BY CceLeaves
<1> SUFFICES ASSUME NEW d \in CCE, Granting(d)'
             PROVE  /\ dir'[mshr'[d].lce][<<ReqSet(d)', GrantWay(d)'>>].blk = mshr'[d].addr
                    /\ dir'[mshr'[d].lce][<<ReqSet(d)', GrantWay(d)'>>].st = mshr'[d].next
                    /\ mshr'[d].next # "I"
                    /\ mshr'[d].uf => tag[mshr'[d].lce][<<ReqSet(d)', mshr'[d].way>>].blk = mshr'[d].addr
  BY <1>1 DEF GrantFsm, Granted, Entered, FrameOf, ReqSet
<1>2. ASSUME NEW e \in CCE, Granting(e)
      PROVE  /\ dir[mshr[e].lce][<<ReqSet(e), GrantWay(e)>>].blk = mshr[e].addr
             /\ dir[mshr[e].lce][<<ReqSet(e), GrantWay(e)>>].st = mshr[e].next
             /\ mshr[e].next # "I"
             /\ mshr[e].uf => tag[mshr[e].lce][<<ReqSet(e), mshr[e].way>>].blk = mshr[e].addr
             /\ mshr[e].lce \in LCE /\ GrantWay(e) \in Way
  <2>1. mshr[e].lce \in LCE /\ GrantWay(e) \in Way
    BY <1>2, MshrKnown DEF Base, Granting, Decided, GrantWay
  <2>2. QED
    BY <1>2, <2>1 DEF GrantInv, GrantFsm, Granted, Entered, FrameOf, ReqSet
<1>3. CASE d # c
  <2>1. /\ cceState'[d] = cceState[d] /\ mshr'[d] = mshr[d] /\ ReqSet(d)' = ReqSet(d)
        /\ cceState[d] \in Cached =>
             \A k \in LCE, w \in Way : dir'[k][<<ReqSet(d), w>>] = dir[k][<<ReqSet(d), w>>]
    BY <1>3, Elsewhere
  <2>2. Granting(d) /\ cceState[d] \in Cached /\ GrantWay(d)' = GrantWay(d)
    BY <2>1 DEF Granting, Cached, GrantWay
  <2>3. QED
    BY <1>2, <2>1, <2>2
<1>4. CASE d = c /\ ~CceWriteNextState(c)
  <2>1. /\ Granting(c) /\ SameAnswer(c) /\ ReqSet(c)' = ReqSet(c) /\ GrantWay(c)' = GrantWay(c)
        /\ \A w \in Way : dir'[mshr[c].lce][<<ReqSet(c), w>>] = dir[mshr[c].lce][<<ReqSet(c), w>>]
    BY <1>4, GrantKept
  <2>2. QED
    BY <1>2, <1>4, <2>1 DEF SameAnswer, SameRequest
<1>5. CASE d = c /\ CceWriteNextState(c)
  <2>1. /\ cceState[c] = "write_next_state"
        /\ DirPut(ReqSet(c), mshr[c].lce, GrantWay(c), mshr[c].addr, mshr[c].next)
        /\ mshr' = mshr
    BY <1>5, WriteStep
  <2>2. ReqSet(c)' = ReqSet(c) /\ GrantWay(c)' = GrantWay(c)
    BY <2>1 DEF ReqSet, GrantWay
  <2>3. mshr[c].lce \in LCE /\ GrantWay(c) \in Way
    BY <2>1, MshrKnown DEF Base, Decided, GrantWay
  <2>4. mshr[c].next # "I"
    BY <2>1 DEF DirInv, KnownInv, KnownFlags, Decided
  <2>5. mshr[c].uf => tag[mshr[c].lce][<<ReqSet(c), mshr[c].way>>].blk = mshr[c].addr
    BY <2>1, UpgradeTagged
  <2>6. QED
    BY <1>5, <2>1, <2>2, <2>3, <2>4, <2>5 DEF DirPut
<1>6. QED
  BY <1>3, <1>4, <1>5

(* A read that has just been set aside is held back.                       *)
LEMMA SpecStep ==
  ASSUME Base, NEW c \in CCE, CceStep(c), NEW s \in Set, Released(s)'
  PROVE  \/ specBits'[s] = specBits[s]
         \/ /\ CceResolve(c) /\ s = ReqSet(c) /\ HomeOf[s] = c
            /\ specBits'[s] = Resolved(mshr[c], specBits[s])
<1>0. specBits \in [Set -> SpecBits]
  BY DEF Base, IInv, DirTypeOK
<1>1. CASE specBits' = specBits
  BY <1>1
<1>2. CASE CceReadMemSpec(c)
  <2>1. cceState[c] = "read_mem_spec" /\
        specBits' = [specBits EXCEPT ![ReqSet(c)] = [NoSpec EXCEPT !.spec = TRUE]]
    BY <1>2 DEF CceReadMemSpec
  <2>2. s = ReqSet(c) => specBits'[s].spec
    BY <1>0, <2>1 DEF NoSpec
  <2>3. s # ReqSet(c)
    BY <2>2 DEF Released
  <2>4. QED
    BY <1>0, <2>1, <2>3
<1>3. CASE CceResolve(c)
  <2>1. cceState[c] = "resolve_speculation" /\
        specBits' = [specBits EXCEPT ![ReqSet(c)] = Resolved(mshr[c], specBits[ReqSet(c)])]
    BY <1>3 DEF CceResolve
  <2>2. HomeOf[ReqSet(c)] = c
    BY <2>1, WorksHome DEF Base, Cached
  <2>3. QED
    BY <1>0, <1>3, <2>1, <2>2
<1>4. QED
  BY <1>1, <1>2, <1>3, SpecBy

(* Where a read that is released comes from.                               *)
LEMMA MemTokFrom ==
  ASSUME Base, Base', NEW c \in CCE, CceStep(c), NEW d \in CCE, NEW i \in Nat, NEW l, NEW b,
         MemTok(d, i, l, b, "cached")'
  PROVE  /\ l \in LCE /\ b \in Block /\ SetOf[b] \in Set /\ HomeOf[SetOf[b]] = d
         /\ \E j \in Nat :
              /\ ReadOf(SetOf[b], j) /\ memResp'[d][i] = memResp[d][j]
              /\ memResp[d][j].lce = l /\ memResp[d][j].addr = b /\ memResp[d][j].way \in Way
              /\ \/ specBits'[SetOf[b]] = specBits[SetOf[b]] /\ MemTok(d, j, l, b, "cached")
                 \/ /\ CceResolve(c) /\ SetOf[b] = ReqSet(c) /\ d = c
                    /\ Released(SetOf[b])'
                    /\ specBits'[SetOf[b]] = Resolved(mshr[c], specBits[SetOf[b]])
<1>1. PICK r : r = memResp'[d][i]
  OBVIOUS
<1>2. /\ i \in DOMAIN memResp'[d] /\ r.type = "rd" /\ r.lce = l /\ r.addr = b
      /\ Released(SetOf[b])'
  BY <1>1 DEF MemTok, Kind
<1>3. r \in MemResponse
  <2>1. memResp' \in [CCE -> Seq(MemResponse)]
    BY DEF Base, IInv, MemTypeOK
  <2>2. QED
    BY <1>1, <1>2, <2>1
<1>4. l \in LCE /\ b \in Block /\ r.way \in Way
  BY <1>2, <1>3, MemResponseFields
<1>5. PICK s \in Set : s = SetOf[b]
  BY <1>4, ConstantsAssumption
<1>6. HomeOf[s] = d
  <2>1. HomeInv'
    BY DEF Base, SerialInv
  <2>2. QED
    BY <1>1, <1>2, <1>5, <2>1 DEF HomeInv, Home
<1>7. ReadOf(s, i)'
  BY <1>1, <1>2, <1>5, <1>6 DEF ReadOf
<1>8. ReadsFrom(c, s)
  BY ReadMoves DEF Base
<1>9. ~(CceReadMemSpec(c) /\ s = ReqSet(c))
  <2>1. specBits \in [Set -> SpecBits]
    BY DEF Base, IInv, DirTypeOK
  <2>2. CceReadMemSpec(c) => specBits' = [specBits EXCEPT ![ReqSet(c)] = [NoSpec EXCEPT !.spec = TRUE]]
    BY DEF CceReadMemSpec
  <2>3. CceReadMemSpec(c) /\ s = ReqSet(c) => specBits'[s].spec
    BY <2>1, <2>2 DEF NoSpec
  <2>4. QED
    BY <1>2, <1>5, <2>3 DEF Released
<1>10. \E j \in Nat : ReadOf(s, j) /\ memResp'[d][i] = memResp[d][j]
  BY <1>6, <1>7, <1>8, <1>9 DEF ReadsFrom
<1>11. PICK j \in Nat : ReadOf(s, j) /\ memResp'[d][i] = memResp[d][j]
  BY <1>10
<1>12. \/ specBits'[s] = specBits[s]
       \/ /\ CceResolve(c) /\ s = ReqSet(c) /\ HomeOf[s] = c
          /\ specBits'[s] = Resolved(mshr[c], specBits[s])
  BY <1>2, <1>5, SpecStep
<1>13. specBits'[s] = specBits[s] => MemTok(d, j, l, b, "cached")
  BY <1>1, <1>2, <1>5, <1>6, <1>11 DEF MemTok, ReadOf, Released, Kind
<1>14. memResp[d][j].lce = l /\ memResp[d][j].addr = b /\ memResp[d][j].way \in Way
  BY <1>1, <1>2, <1>4, <1>11
<1>15. QED
  BY <1>2, <1>4, <1>5, <1>6, <1>11, <1>12, <1>13, <1>14

(* The bits that resolve a read give the state the engine has granted.     *)
LEMMA ResolvedState ==
  ASSUME NEW m \in Mshr, NEW bits \in SpecBits, bits = [NoSpec EXCEPT !.spec = TRUE],
         ~Resolved(m, bits).squash
  PROVE  /\ ~m.xf /\ ~m.uf
         /\ (IF Resolved(m, bits).fwdMod THEN Resolved(m, bits).st ELSE "E")
              = IF m.write THEN "M" ELSE IF m.csf \/ m.nonExcl THEN "S" ELSE "E"
<1>0. /\ m.xf \in BOOLEAN /\ m.uf \in BOOLEAN /\ m.write \in BOOLEAN
      /\ m.csf \in BOOLEAN /\ m.nonExcl \in BOOLEAN
  BY DEF Mshr
<1>1. bits = [spec |-> TRUE, squash |-> FALSE, fwdMod |-> FALSE, st |-> "I"]
  BY DEF NoSpec
<1>2. ~(m.xf \/ m.uf)
  <2>1. m.xf \/ m.uf => Resolved(m, bits) = [bits EXCEPT !.spec = FALSE, !.squash = TRUE]
    BY <1>0 DEF Resolved
  <2>2. m.xf \/ m.uf => Resolved(m, bits).squash = TRUE
    BY <1>1, <2>1
  <2>3. QED
    BY <2>2
<1>3. CASE m.write
  <2>1. Resolved(m, bits) = [bits EXCEPT !.spec = FALSE, !.fwdMod = TRUE, !.st = "M"]
    BY <1>0, <1>2, <1>3 DEF Resolved
  <2>2. Resolved(m, bits).fwdMod = TRUE /\ Resolved(m, bits).st = "M"
    BY <1>1, <2>1
  <2>3. QED
    BY <1>2, <1>3, <2>2
<1>4. CASE ~m.write /\ (m.csf \/ m.nonExcl)
  <2>1. Resolved(m, bits) = [bits EXCEPT !.spec = FALSE, !.fwdMod = TRUE, !.st = "S"]
    BY <1>0, <1>2, <1>4 DEF Resolved
  <2>2. Resolved(m, bits).fwdMod = TRUE /\ Resolved(m, bits).st = "S"
    BY <1>1, <2>1
  <2>3. QED
    BY <1>2, <1>4, <2>2
<1>5. CASE ~m.write /\ ~(m.csf \/ m.nonExcl)
  <2>1. Resolved(m, bits) = [bits EXCEPT !.spec = FALSE]
    BY <1>0, <1>2, <1>5 DEF Resolved
  <2>2. bits.fwdMod = FALSE
    BY <1>1
  <2>3. Resolved(m, bits).fwdMod = bits.fwdMod
    BY <2>1 DEF SpecBits
  <2>4. QED
    BY <1>2, <1>5, <2>2, <2>3
<1>6. QED
  BY <1>3, <1>4, <1>5

(* GrantMem, step of an engine: the speculative fill is released with the  *)
(* state the directory was given.                                          *)
LEMMA GrantMemCce ==
  ASSUME Base, Base', StartInv, DirInv, GrantInv, NEW c \in CCE, CceStep(c)
  PROVE  GrantMem'
<1>1. miss' = miss
  BY CceLeaves
<1> SUFFICES ASSUME NEW d \in CCE, NEW i \in Nat, NEW l, NEW b, MemTok(d, i, l, b, "cached")'
             PROVE  /\ Granted(l, b, memResp[d][i].way, MemState(SetOf[b]))'
                    /\ memResp'[d][i].way = miss[l].lru
  BY <1>1 DEF GrantMem
<1>2. /\ l \in LCE /\ b \in Block /\ SetOf[b] \in Set /\ HomeOf[SetOf[b]] = d
      /\ \E j \in Nat :
           /\ ReadOf(SetOf[b], j) /\ memResp'[d][i] = memResp[d][j]
           /\ memResp[d][j].lce = l /\ memResp[d][j].addr = b /\ memResp[d][j].way \in Way
           /\ \/ specBits'[SetOf[b]] = specBits[SetOf[b]] /\ MemTok(d, j, l, b, "cached")
              \/ /\ CceResolve(c) /\ SetOf[b] = ReqSet(c) /\ d = c
                 /\ Released(SetOf[b])'
                 /\ specBits'[SetOf[b]] = Resolved(mshr[c], specBits[SetOf[b]])
  BY MemTokFrom
<1>3. PICK s \in Set : s = SetOf[b] /\ HomeOf[s] = d
  BY <1>2
<1>4. PICK j \in Nat :
        /\ ReadOf(s, j) /\ memResp'[d][i] = memResp[d][j]
        /\ memResp[d][j].lce = l /\ memResp[d][j].addr = b /\ memResp[d][j].way \in Way
        /\ \/ specBits'[s] = specBits[s] /\ MemTok(d, j, l, b, "cached")
           \/ /\ CceResolve(c) /\ s = ReqSet(c) /\ d = c
              /\ Released(s)' /\ specBits'[s] = Resolved(mshr[c], specBits[s])
  BY <1>2, <1>3
<1>5. PICK w \in Way : w = memResp[d][j].way
  BY <1>4
<1>6. CASE specBits'[s] = specBits[s] /\ MemTok(d, j, l, b, "cached")
  <2>1. Granted(l, b, w, MemState(s)) /\ w = miss[l].lru
    BY <1>3, <1>5, <1>6 DEF GrantInv, GrantMem
  <2>2. Tok("mem", d, j, l, b, "cached")
    BY <1>6 DEF Tok
  <2>3. DirSame(s)
    BY <1>2, <1>3, <2>2, DirQuiet DEF StartInv
  <2>4. QED
    BY <1>2, <1>3, <1>4, <1>5, <1>6, <2>1, <2>3 DEF Granted, Entered, MemState, DirSame, FrameOf
<1>7. CASE /\ CceResolve(c) /\ s = ReqSet(c) /\ d = c
           /\ Released(s)' /\ specBits'[s] = Resolved(mshr[c], specBits[s])
  <2>1. cceState[c] = "resolve_speculation" /\ dir' = dir
    BY <1>7 DEF CceResolve
  <2>2. Serving(s)
    BY <1>3, <1>7, <2>1 DEF Serving, Working, Cached
  <2>3. b = mshr[c].addr /\ l = mshr[c].lce /\ w = mshr[c].lru
    <3>1. ReadFor
      BY DEF Base, SerialInv, SpecInv
    <3>2. QED
      BY <1>3, <1>4, <1>5, <1>7, <2>2, <3>1 DEF ReadFor
  <2>4. specBits[s] = [NoSpec EXCEPT !.spec = TRUE]
    <3>1. ReadHeld /\ ReadClean
      BY DEF Base, SerialInv, SpecInv
    <3>2. QED
      BY <1>3, <1>7, <2>1, <2>2, <3>1 DEF ReadHeld, ReadClean
  <2>5. mshr[c] \in Mshr /\ specBits[s] \in SpecBits
    BY DEF Base, IInv, CceOK, CceTypeOK, DirTypeOK
  <2>6. ~Resolved(mshr[c], specBits[s]).squash
    BY <1>7 DEF Released
  <2>7. /\ ~mshr[c].xf /\ ~mshr[c].uf
        /\ (IF Resolved(mshr[c], specBits[s]).fwdMod THEN Resolved(mshr[c], specBits[s]).st ELSE "E")
             = IF mshr[c].write THEN "M" ELSE IF mshr[c].csf \/ mshr[c].nonExcl THEN "S" ELSE "E"
    BY <2>4, <2>5, <2>6, ResolvedState
  <2>8. mshr[c].next = IF mshr[c].write THEN "M" ELSE IF mshr[c].csf \/ mshr[c].nonExcl THEN "S" ELSE "E"
    <3>1. mshr[c].next = IF mshr[c].write THEN "M"
                         ELSE IF mshr[c].nonExcl \/ mshr[c].csf \/ mshr[c].xf THEN "S" ELSE "E"
      BY <2>1 DEF DirInv, KnownInv, KnownFlags, Decided
    <3>2. QED
      BY <2>7, <3>1
  <2>9. MemState(s)' = mshr[c].next
    BY <1>7, <2>7, <2>8 DEF MemState
  <2>10. Granting(c) /\ GrantWay(c) = w
    BY <2>1, <2>3, <2>7 DEF Granting, GrantWay
  <2>11. Granted(l, b, w, mshr[c].next)
    BY <2>3, <2>10 DEF GrantInv, GrantFsm
  <2>12. w = miss[l].lru
    <3>1. AtFsm(c)
      BY <2>1, <2>7 DEF AtFsm
    <3>2. QED
      BY <2>3, <3>1 DEF DirInv, KnownInv, Asked
  <2>13. QED
    BY <1>3, <1>4, <1>5, <1>7, <2>1, <2>9, <2>11, <2>12 DEF Granted, Entered, FrameOf, MemState
<1>8. QED
  BY <1>4, <1>6, <1>7

(* The commands that bring a block to the cache that asked for it.         *)
Gives == {"data", "st_wakeup", "st_tr", "st_tr_wb"}

(* A command that gives a block is a place of its transaction.             *)
LEMMA GiveTok ==
  ASSUME Base, NEW m \in Command, m.type \in Gives
  PROVE  /\ Target(m) \in LCE /\ m.addr \in Block /\ SetOf[m.addr] \in Set
         /\ m \in cmdNet => Tok("cmd", m, 0, Target(m), m.addr, "cached")
         /\ \A l \in LCE : lceCmd[l] = m /\ m # None /\ lceState[l] \notin Passed =>
              Tok("lce", l, 0, Target(m), m.addr, "cached")
<1>1. m.dst \in LCE /\ m.addr \in Block /\ (m.type \in {"st_tr", "st_tr_wb"} => m.target \in LCE)
  BY CommandFields DEF Gives
<1>2. Carries(m, Target(m), m.addr, "cached")
  BY DEF Carries, Gives, Sources, Kind
<1>3. QED
  BY <1>1, <1>2, ConstantsAssumption DEF Tok, CmdTok, LceTok, Target

(* What a command grants stays when its set of the directory, its miss and *)
(* its frame do.                                                           *)
LEMMA GrantsKept ==
  ASSUME Base, NEW m \in Command, Grants(m),
         m.type \in Gives => DirSame(SetOf[m.addr]) /\ miss'[Target(m)] = miss[Target(m)],
         m.type = "st_wakeup" =>
           tag'[m.dst][FrameOf(m.addr, m.way)].blk = tag[m.dst][FrameOf(m.addr, m.way)].blk
  PROVE  Grants(m)'
<1>1. m.type \in Gives => /\ m.dst \in LCE /\ m.way \in Way
                          /\ m.type \in {"st_tr", "st_tr_wb"} => m.target \in LCE /\ m.targetWay \in Way
  BY CommandFields DEF Gives
<1>2. CASE m.type \in {"data", "st_wakeup"}
  <2>1. DirSame(SetOf[m.addr]) /\ miss'[m.dst] = miss[m.dst] /\ m.dst \in LCE /\ m.way \in Way
    BY <1>1, <1>2 DEF Gives, Target
  <2>2. dir'[m.dst][FrameOf(m.addr, m.way)] = dir[m.dst][FrameOf(m.addr, m.way)]
    BY <2>1 DEF DirSame, FrameOf
  <2>3. QED
    BY <1>2, <2>1, <2>2 DEF Grants, Granted, Entered
<1>3. CASE m.type \in {"st_tr", "st_tr_wb"}
  <2>1. DirSame(SetOf[m.addr]) /\ miss'[m.target] = miss[m.target] /\ m.target \in LCE
        /\ m.targetWay \in Way
    BY <1>1, <1>3 DEF Gives, Target
  <2>2. dir'[m.target][FrameOf(m.addr, m.targetWay)] = dir[m.target][FrameOf(m.addr, m.targetWay)]
    BY <2>1 DEF DirSame, FrameOf
  <2>3. QED
    BY <1>3, <2>1, <2>2 DEF Grants, Granted, Entered
<1>4. QED
  BY <1>2, <1>3 DEF Grants

(* What an engine sends.                                                   *)
LEMMA UpgradeGrants ==
  ASSUME Base, Base', DirInv, GrantInv, NEW c \in CCE, CceUpgrade(c), CceStep(c), NEW m,
         m \in cmdNet', m \notin cmdNet
  PROVE  Grants(m)'
<1>1. /\ cceState[c] = "upgrade_stw_cmd" /\ dir' = dir
      /\ cmdNet' = cmdNet \cup {[type |-> "st_wakeup", src |-> c, dst |-> mshr[c].lce,
                                 addr |-> mshr[c].addr, way |-> mshr[c].way, st |-> mshr[c].next]}
  BY DEF CceUpgrade, SendCmd, dirVars
<1>2. /\ m.type = "st_wakeup" /\ m.dst = mshr[c].lce /\ m.addr = mshr[c].addr
      /\ m.way = mshr[c].way /\ m.st = mshr[c].next
  BY <1>1
<1>3. mshr[c].uf
  BY <1>1 DEF Base, IInv, CceOK, MshrWF
<1>4. Granting(c) /\ GrantWay(c) = mshr[c].way
  BY <1>1, <1>3 DEF Granting, GrantWay
<1>5. /\ Granted(mshr[c].lce, mshr[c].addr, mshr[c].way, mshr[c].next)
      /\ tag[mshr[c].lce][<<ReqSet(c), mshr[c].way>>].blk = mshr[c].addr
  BY <1>3, <1>4 DEF GrantInv, GrantFsm
<1>6. tag' = tag
  BY CceLeaves
<1>7. QED
  BY <1>1, <1>2, <1>5, <1>6 DEF Grants, Granted, Entered, FrameOf, ReqSet

(* A transfer grants its target what the engine wrote in the directory.    *)
LEMMA TransferGrants ==
  ASSUME Base, Base', DirInv, GrantInv, NEW c \in CCE, CceTransfer(c), CceStep(c), NEW m,
         m \in cmdNet', m \notin cmdNet
  PROVE  Grants(m)'
<1>1. /\ cceState[c] = "transfer" /\ mshr[c].xf
      /\ mshr[c].owner \in LCE /\ mshr[c].ownerWay \in Way
      /\ \E mm : /\ Given(c, mm) /\ cmdNet' = cmdNet \cup {mm}
                 /\ DirPut(ReqSet(c), mshr[c].owner, mshr[c].ownerWay, mshr[c].addr, mm.st)
  BY TransferStep
<1>2. /\ Given(c, m) /\ DirPut(ReqSet(c), mshr[c].owner, mshr[c].ownerWay, mshr[c].addr, m.st)
  BY <1>1
<1>3. Granting(c) /\ AtFsm(c) /\ ~mshr[c].uf /\ mshr[c].owner # mshr[c].lce
  <2>1. ~mshr[c].uf
    BY <1>1 DEF DirInv, KnownInv, KnownFlags, Decided
  <2>2. mshr[c].owner # mshr[c].lce
    BY <1>1 DEF DirInv, KnownInv, KnownOwner
  <2>3. QED
    BY <1>1, <2>1, <2>2 DEF Granting, AtFsm, Unsourced, Working, Cached
<1>4. GrantWay(c) = mshr[c].lru
  BY <1>3 DEF GrantWay
<1>5. Granted(mshr[c].lce, mshr[c].addr, mshr[c].lru, mshr[c].next)
  BY <1>3, <1>4 DEF GrantInv, GrantFsm
<1>6. mshr[c].lru = miss[mshr[c].lce].lru /\ miss' = miss
  BY <1>3, CceLeaves DEF DirInv, KnownInv, Asked
<1>7. mshr[c].lce \in LCE /\ mshr[c].lru \in Way
  BY <1>3, FsmHas
<1>8. dir'[mshr[c].lce][<<ReqSet(c), mshr[c].lru>>] = dir[mshr[c].lce][<<ReqSet(c), mshr[c].lru>>]
  BY <1>2, <1>3, <1>7 DEF DirPut
<1>9. /\ m.type \in {"st_tr", "st_tr_wb"} /\ m.addr = mshr[c].addr
      /\ m.target = mshr[c].lce /\ m.targetWay = mshr[c].lru /\ m.targetSt = mshr[c].next
  BY <1>2 DEF Given
<1>10. QED
  BY <1>5, <1>6, <1>8, <1>9 DEF Grants, Granted, Entered, FrameOf, ReqSet

(* A fill grants its cache what the memory response does.                  *)
LEMMA FillGrants ==
  ASSUME Base, GrantInv, NEW c \in CCE, MemRespFill(c), CceStep(c), NEW m,
         m \in cmdNet', m \notin cmdNet
  PROVE  Grants(m)'
<1>1. PICK r : r = RespHead(c)
  OBVIOUS
<1>2. PICK s : s = SetOf[r.addr]
  OBVIOUS
<1>3. /\ memResp[c] # <<>> /\ r.type = "rd" /\ ~specBits[s].spec /\ ~specBits[s].squash
      /\ cmdNet' = cmdNet \cup {FillCmd(c, r, MemState(s))}
      /\ dir' = dir
  BY <1>1, <1>2 DEF MemRespFill, IsSpeculative, SendCmd, MemState
<1>4. MemTaken(c)
  BY <1>3 DEF MemRespFill, MemDequeue, MemTaken
<1>5. 1 \in DOMAIN memResp[c] /\ memResp[c][1] = r
  BY <1>1, <1>4, MemTakenFacts DEF Base
<1>6. MemTok(c, 1, r.lce, r.addr, "cached")
  BY <1>2, <1>3, <1>5 DEF MemTok, Released, Kind
<1>7. Granted(r.lce, r.addr, r.way, MemState(s)) /\ r.way = miss[r.lce].lru
  BY <1>2, <1>5, <1>6 DEF GrantInv, GrantMem
<1>8. m = FillCmd(c, r, MemState(s))
  BY <1>3
<1>9. m.type = "data" /\ m.dst = r.lce /\ m.addr = r.addr /\ m.way = r.way /\ m.st = MemState(s)
  BY <1>8 DEF FillCmd
<1>10. miss' = miss
  BY CceLeaves
<1>11. QED
  BY <1>3, <1>7, <1>9, <1>10 DEF Grants, Granted, Entered

(* GrantCmd, step of an engine.                                            *)
LEMMA GrantCmdCce ==
  ASSUME Base, Base', StartInv, DirInv, GrantInv, NEW c \in CCE, CceStep(c)
  PROVE  GrantCmd'
<1> SUFFICES ASSUME NEW m, m \in cmdNet' PROVE Grants(m)'
  BY DEF GrantCmd
<1>1. miss' = miss /\ tag' = tag
  BY CceLeaves
<1>2. CASE m \in cmdNet
  <2>1. m \in Command /\ Grants(m)
    BY <1>2 DEF Base, IInv, NetTypeOK, GrantInv, GrantCmd
  <2>2. m.type \in Gives => DirSame(SetOf[m.addr])
    <3> SUFFICES ASSUME m.type \in Gives PROVE DirSame(SetOf[m.addr])
      OBVIOUS
    <3>1. Target(m) \in LCE /\ m.addr \in Block /\ Tok("cmd", m, 0, Target(m), m.addr, "cached")
      BY <1>2, <2>1, GiveTok
    <3>2. QED
      BY <3>1, DirQuiet DEF StartInv
  <2>3. QED
    BY <1>1, <2>1, <2>2, GrantsKept
<1>3. CASE m \notin cmdNet
  <2>1. CASE CceReplacement(c)
    <3>1. m = [type |-> "st_wb", src |-> c, dst |-> mshr[c].lce,
               addr |-> mshr[c].lruBlk, way |-> mshr[c].lru, st |-> "I"]
      BY <1>3, <2>1 DEF CceReplacement, SendCmd
    <3>2. m.type = "st_wb"
      BY <3>1
    <3>3. QED
      BY <3>2 DEF Grants
  <2>2. CASE CceInvCmd(c)
    <3>1. m.type = "inv"
      BY <1>3, <2>2 DEF CceInvCmd, SendCmd
    <3>2. QED
      BY <3>1 DEF Grants
  <2>3. CASE CceUpgrade(c)
    BY <1>3, <2>3, UpgradeGrants
  <2>4. CASE CceTransfer(c)
    BY <1>3, <2>4, TransferGrants
  <2>5. CASE MemRespFill(c)
    BY <1>3, <2>5, FillGrants
  <2>6. CASE MemRespUncached(c)
    <3>1. m.type \in {"uc_data", "uc_st_done"}
      BY <1>3, <2>6 DEF MemRespUncached, SendCmd
    <3>2. QED
      BY <3>1 DEF Grants
  <2>7. CASE \E l \in LCE : CceSendSync(c, l)
    <3>1. m.type = "sync"
      BY <1>3, <2>7 DEF CceSendSync, SendCmd
    <3>2. QED
      BY <3>1 DEF Grants
  <2>8. QED
    BY <1>3, <2>1, <2>2, <2>3, <2>4, <2>5, <2>6, <2>7, CmdBy
<1>4. QED
  BY <1>2, <1>3

(* GrantHeld, step of an engine.                                           *)
LEMMA GrantHeldCce ==
  ASSUME Base, StartInv, GrantInv, NEW c \in CCE, CceStep(c)
  PROVE  GrantHeld'
<1>1. lceCmd' = lceCmd /\ lceState' = lceState /\ miss' = miss /\ tag' = tag
  BY CceLeaves
<1> SUFFICES ASSUME NEW l \in LCE, lceCmd[l] # None, lceState[l] \notin Passed
             PROVE  Grants(lceCmd[l])'
  BY <1>1 DEF GrantHeld
<1>2. PICK m \in Command : m = lceCmd[l]
  BY DEF Base, IInv, LceOK, LceTypeOK
<1>3. Grants(m)
  BY <1>2 DEF GrantInv, GrantHeld
<1>4. m.type \in Gives => DirSame(SetOf[m.addr])
  <2> SUFFICES ASSUME m.type \in Gives PROVE DirSame(SetOf[m.addr])
    OBVIOUS
  <2>1. Target(m) \in LCE /\ m.addr \in Block /\ Tok("lce", l, 0, Target(m), m.addr, "cached")
    BY <1>2, GiveTok
  <2>2. QED
    BY <2>1, DirQuiet DEF StartInv
<1>5. Grants(m)'
  BY <1>1, <1>3, <1>4, GrantsKept
<1>6. lceCmd'[l] = m
  BY <1>1, <1>2
<1>7. QED
  BY <1>5, <1>6 DEF Grants, Granted, Entered

(* Only the block a miss brings in changes what frame a tag names.         *)
FillsNow(k, s) ==
  /\ lceState[k] = "ready" /\ Holds(k, {"data"}) /\ lceCmd[k].addr \in Block
  /\ SetOf[lceCmd[k].addr] = s /\ Tok("lce", k, 0, k, lceCmd[k].addr, "cached")

(* A step of a cache keeps the block of every frame, except when it fills  *)
(* one.                                                                    *)
LEMMA BlkStays ==
  ASSUME Base, StartInv, TakeInv, GrantInv, TagInv, NEW k \in LCE, LceStep(k),
         NEW l \in LCE, NEW s \in Set, NEW w \in Way
  PROVE  tag'[l][<<s, w>>].blk = tag[l][<<s, w>>].blk \/ (l = k /\ FillsNow(k, s))
<1>1. CASE l # k
  BY <1>1, LceOthers
<1>2. CASE tag' = tag
  BY <1>2
<1>3. CASE l = k /\ TagCleared(k)
  BY <1>3 DEF TagCleared
<1>4. CASE l = k /\ \E m, t, v, blk, st : Doing(k, m, t, v) /\ Outcome(k, m, t, v, blk, st)
  <2>1. PICK m, t, v, blk, st : Doing(k, m, t, v) /\ Outcome(k, m, t, v, blk, st)
    BY <1>4
  <2>2. /\ TagPut(k, t, v, blk, st) /\ (m.type # "data" => blk = tag[k][<<t, v>>].blk)
        /\ t \in Set /\ v \in Way
    BY <2>1 DEF Doing, Outcome
  <2>3. CASE m.type = "data" /\ s = t
    <3>1. Tok("lce", k, 0, k, m.addr, "cached")
      BY <2>1, <2>3, DoingOpen
    <3>2. QED
      BY <1>4, <2>1, <2>3, <3>1 DEF Doing, FillsNow, Holds
  <2>4. CASE ~(m.type = "data" /\ s = t)
    BY <1>4, <2>2, <2>4 DEF TagPut
  <2>5. QED
    BY <2>3, <2>4
<1>5. QED
  BY <1>1, <1>2, <1>3, <1>4, TagMoves DEF TagMove

(* GrantFsm, step of a cache.                                              *)
LEMMA GrantFsmLce ==
  ASSUME Base, StartInv, TakeInv, GrantInv, TagInv, NEW k \in LCE, LceStep(k)
  PROVE  GrantFsm'
<1>1. UNCHANGED <<cceState, mshr, dir>>
  BY LceLeaves
<1> SUFFICES ASSUME NEW c \in CCE, Granting(c)
             PROVE  /\ Granted(mshr[c].lce, mshr[c].addr, GrantWay(c), mshr[c].next)
                    /\ mshr[c].uf => tag'[mshr[c].lce][<<ReqSet(c), mshr[c].way>>].blk = mshr[c].addr
  BY <1>1 DEF GrantFsm, Granting, Granted, Entered, GrantWay, ReqSet
<1>2. /\ Granted(mshr[c].lce, mshr[c].addr, GrantWay(c), mshr[c].next)
      /\ mshr[c].uf => tag[mshr[c].lce][<<ReqSet(c), mshr[c].way>>].blk = mshr[c].addr
  BY DEF GrantInv, GrantFsm
<1>3. ASSUME mshr[c].uf
      PROVE  tag'[mshr[c].lce][<<ReqSet(c), mshr[c].way>>].blk = mshr[c].addr
  <2>1. AtFsm(c)
    BY <1>3 DEF Granting, AtFsm, Unsourced, Working, Cached
  <2>2. PICK l \in LCE, s \in Set : l = mshr[c].lce /\ s = ReqSet(c)
    BY <2>1, FsmHas
  <2>3. PICK w \in Way : w = mshr[c].way
    BY <1>3, MshrKnown DEF Base, Granting, Decided
  <2>4. ~FillsNow(k, s)
    <3>1. FillsNow(k, s) => ReqSet(c) # s
      BY <2>1, FsmNot DEF FillsNow
    <3>2. QED
      BY <2>2, <3>1
  <2>5. tag'[l][<<s, w>>].blk = tag[l][<<s, w>>].blk
    BY <2>4, BlkStays
  <2>6. QED
    BY <1>2, <1>3, <2>2, <2>3, <2>5
<1>4. QED
  BY <1>2, <1>3

(* GrantMem, step of a cache.                                              *)
LEMMA GrantMemLce ==
  ASSUME Base, GrantInv, NEW k \in LCE, LceStep(k)
  PROVE  GrantMem'
<1>1. UNCHANGED <<memResp, specBits, dir>>
  BY LceLeaves, SMTT(40)
<1> SUFFICES ASSUME NEW d \in CCE, NEW i \in Nat, NEW l, NEW b, MemTok(d, i, l, b, "cached")
             PROVE  /\ Granted(l, b, memResp[d][i].way, MemState(SetOf[b]))
                    /\ memResp[d][i].way = miss'[l].lru
  BY <1>1 DEF GrantMem, MemTok, Released, Granted, Entered, MemState
<1>2. /\ Granted(l, b, memResp[d][i].way, MemState(SetOf[b]))
      /\ memResp[d][i].way = miss[l].lru
  BY DEF GrantInv, GrantMem
<1>3. l \in LCE /\ b \in Block
  <2>1. memResp[d][i] \in MemResponse
    <3>1. memResp \in [CCE -> Seq(MemResponse)]
      BY DEF Base, IInv, MemTypeOK
    <3>2. i \in DOMAIN memResp[d]
      BY DEF MemTok
    <3>3. QED
      BY <3>1, <3>2
  <2>2. QED
    BY <2>1, MemResponseFields DEF MemTok, Kind
<1>4. Tok("mem", d, i, l, b, "cached")
  BY DEF Tok
<1>5. miss'[l] = miss[l]
  BY <1>3, <1>4, TokMiss
<1>6. QED
  BY <1>2, <1>5

(* What a command grants is not disturbed by any cache.                    *)
LEMMA TokGrants ==
  ASSUME Base, StartInv, TakeInv, GrantInv, TagInv, NEW k \in LCE, LceStep(k),
         NEW m \in Command, Grants(m), NEW a, NEW x,
         m.type \in Gives => Tok(a, x, 0, Target(m), m.addr, "cached") /\ a \in {"cmd", "lce"},
         a = "lce" => x \in LCE /\ m = lceCmd[x] /\ (x = k => ~LceCohAck(k))
  PROVE  Grants(m)'
<1>1. dir' = dir
  BY LceLeaves
<1>2. ASSUME m.type \in Gives
      PROVE  miss'[Target(m)] = miss[Target(m)]
  <2>1. PICK l \in LCE, b \in Block : l = Target(m) /\ b = m.addr
    BY <1>2, GiveTok
  <2>2. Tok(a, x, 0, l, b, "cached") /\ a \in {"cmd", "lce"}
    BY <1>2, <2>1
  <2>3. miss'[l] = miss[l] \/ (k = l /\ LceCohAck(l) /\ a = "lce" /\ x = l)
    BY <2>2, TokMiss
  <2>4. QED
    BY <2>1, <2>3
<1>3. ASSUME m.type = "st_wakeup"
      PROVE  tag'[m.dst][FrameOf(m.addr, m.way)].blk = tag[m.dst][FrameOf(m.addr, m.way)].blk
  <2>1. m.dst \in LCE /\ m.addr \in Block /\ m.way \in Way
    BY <1>3, CommandFields
  <2>2. PICK s \in Set, l \in LCE, w \in Way, b \in Block :
          s = SetOf[m.addr] /\ l = m.dst /\ w = m.way /\ b = m.addr
    BY <2>1, ConstantsAssumption
  <2>3. Tok(a, x, 0, l, b, "cached") /\ a \in {"cmd", "lce"}
    BY <1>3, <2>2 DEF Gives, Target
  <2>4. ~FillsNow(k, s)
    <3> SUFFICES ASSUME FillsNow(k, s) PROVE FALSE
      OBVIOUS
    <3>1. PICK bb \in Block : bb = lceCmd[k].addr /\ SetOf[bb] = s
      BY DEF FillsNow
    <3>2. Tok("lce", k, 0, k, bb, "cached")
      BY <3>1 DEF FillsNow
    <3>3. a = "lce" /\ x = k
      BY <2>2, <2>3, <3>1, <3>2, OnePlace
    <3>4. QED
      BY <1>3, <3>3 DEF FillsNow, Holds
  <2>5. tag'[l][<<s, w>>].blk = tag[l][<<s, w>>].blk
    BY <2>4, BlkStays
  <2>6. QED
    BY <2>2, <2>5 DEF FrameOf
<1>4. m.type \in Gives => DirSame(SetOf[m.addr])
  BY <1>1 DEF DirSame
<1>5. QED
  BY <1>2, <1>3, <1>4, GrantsKept

(* The commands in the network grant what they did, step of a cache.       *)
LEMMA NetGrants ==
  ASSUME Base, StartInv, TakeInv, GrantInv, TagInv, NEW k \in LCE, LceStep(k), NEW m \in cmdNet
  PROVE  Grants(m)'
<1>1. m \in Command /\ Grants(m)
  BY DEF Base, IInv, NetTypeOK, GrantInv, GrantCmd
<1>2. PICK a, x : a = "cmd" /\ x = m
  OBVIOUS
<1>3. m.type \in Gives => Tok(a, x, 0, Target(m), m.addr, "cached") /\ a \in {"cmd", "lce"}
  BY <1>1, <1>2, GiveTok
<1>4. a = "lce" => x \in LCE /\ m = lceCmd[x] /\ (x = k => ~LceCohAck(k))
  BY <1>2
<1>5. QED
  BY <1>1, <1>3, <1>4, TokGrants

(* GrantCmd, step of a cache: an owner forwards the state the engine       *)
(* granted.                                                                *)
LEMMA GrantCmdLce ==
  ASSUME Base, StartInv, TakeInv, GrantInv, TagInv, NEW k \in LCE, LceStep(k)
  PROVE  GrantCmd'
<1> SUFFICES ASSUME NEW m, m \in cmdNet' PROVE Grants(m)'
  BY DEF GrantCmd
<1>1. CASE m \in cmdNet
  BY <1>1, NetGrants
<1>2. CASE m \notin cmdNet
  <2>1. LceTr(k)
    BY <1>2, LceNetBy DEF LceHead
  <2>2. PICK g : g = lceCmd[k]
    OBVIOUS
  <2>3. /\ lceState[k] = "tr"
        /\ cmdNet' = cmdNet \cup {[type |-> "data", src |-> g.src, dst |-> g.target,
                                   addr |-> g.addr, way |-> g.targetWay, st |-> g.targetSt,
                                   data |-> dataBuf[k]]}
        /\ miss' = miss
    BY <2>1, <2>2 DEF LceTr, coreVars
  <2>4. /\ m.type = "data" /\ m.dst = g.target /\ m.addr = g.addr /\ m.way = g.targetWay
        /\ m.st = g.targetSt
    BY <1>2, <2>3
  <2>5. lceCmd[k] # None /\ g.type \in {"st_tr", "st_tr_wb"}
    BY <2>2, <2>3 DEF Base, IInv, LceOK, CmdWF, Holds
  <2>6. Grants(g)
    BY <2>2, <2>3, <2>5 DEF GrantInv, GrantHeld, Passed
  <2>7. dir' = dir
    BY LceLeaves
  <2>8. QED
    BY <2>3, <2>4, <2>5, <2>6, <2>7 DEF Grants, Granted, Entered
<1>3. QED
  BY <1>1, <1>2

(* The command a cache holds.                                              *)
LEMMA HeldFrom ==
  ASSUME Base, NEW k \in LCE, LceStep(k), NEW l \in LCE, lceCmd'[l] # None
  PROVE  \/ /\ l = k /\ LceHead(k) /\ lceCmd'[l] \in cmdNet /\ lceCmd'[l].dst = k
            /\ lceState' = lceState /\ lceState[k] = "ready" /\ cmdNet' = cmdNet \ {lceCmd'[l]}
         \/ /\ lceCmd'[l] = lceCmd[l]
            /\ lceState'[l] \notin Passed => lceState[l] \notin Passed
            /\ lceState'[l] \in {"reset", "clear", "ready"} => lceState[l] \in {"reset", "clear", "ready"}
            /\ ~(l = k /\ LceCohAck(k))
<1>1. lceCmd \in [LCE -> Command \cup {None}] /\ lceState \in [LCE -> LceCmdStates]
  BY DEF Base, IInv, LceOK, LceTypeOK
<1>2. CASE l # k
  BY <1>2, LceOthers
<1>3. CASE l = k /\ LceHead(k)
  <2>1. PICK m \in cmdNet : m.dst = k /\ lceCmd' = [lceCmd EXCEPT ![k] = m] /\ cmdNet' = cmdNet \ {m}
    BY <1>3 DEF LceHead
  <2>2. lceState' = lceState /\ lceState[k] = "ready"
    BY <1>3 DEF LceHead
  <2>3. QED
    BY <1>1, <1>3, <2>1, <2>2
<1>4. CASE l = k /\ ~LceHead(k)
  <2>1. ~LceSync(k) /\ ~LceInv(k) /\ ~LceUcStDone(k) /\ ~LceUcData(k)
        /\ ~LceCohAck(k) /\ ~LceWbDirtySend(k)
    BY <1>1, <1>4 DEF LceSync, LceInv, LceUcStDone, LceUcData, LceCohAck, LceWbDirtySend, Dequeue
  <2>2. CASE LceTr(k)
    <3>1. \/ lceCmd' = lceCmd /\ lceState' = [lceState EXCEPT ![k] = "wb_stat_rd"]
          \/ lceCmd' = [lceCmd EXCEPT ![k] = None]
      BY <2>2 DEF LceTr, Dequeue, LceGoto
    <3>2. lceState[k] = "tr"
      BY <2>2 DEF LceTr
    <3>3. lceCmd' = lceCmd /\ lceState'[k] = "wb_stat_rd"
      BY <1>1, <1>4, <3>1
    <3>4. QED
      BY <1>4, <2>1, <3>2, <3>3 DEF Passed
  <2>3. CASE LceWb(k)
    <3>1. \/ lceCmd' = lceCmd /\ lceState' = [lceState EXCEPT ![k] = "wb_dirty_rd"]
          \/ lceCmd' = [lceCmd EXCEPT ![k] = None]
      BY <2>3 DEF LceWb, Dequeue, LceGoto
    <3>2. lceState[k] = "wb"
      BY <2>3 DEF LceWb
    <3>3. lceCmd' = lceCmd /\ lceState'[k] = "wb_dirty_rd"
      BY <1>1, <1>4, <3>1
    <3>4. QED
      BY <1>4, <2>1, <3>2, <3>3 DEF Passed
  <2>4. CASE ~LceTr(k) /\ ~LceWb(k)
    <3>1. lceCmd' = lceCmd
      BY <1>4, <2>1, <2>4, LceCmdBy
    <3>2. CASE lceState' = lceState
      BY <1>4, <2>1, <3>1, <3>2
    <3>3. CASE \/ LceReset(k) \/ LceClear(k) \/ LceData(k) \/ LceStWakeup(k) \/ LceStWb(k)
               \/ LceStTr(k) \/ LceWbStatRd(k) \/ LceWbDirtyRd(k)
      BY <1>1, <1>4, <2>1, <3>1, <3>3
      DEF LceReset, LceClear, LceData, LceStWakeup, LceStWb, LceStTr, LceWbStatRd,
        LceWbDirtyRd, LceGoto, Passed, Executes
    <3>4. QED
      BY <2>1, <2>4, <3>2, <3>3, LceStateBy
  <2>5. QED
    BY <2>2, <2>3, <2>4
<1>5. QED
  BY <1>2, <1>3, <1>4

(* GrantHeld, step of a cache.                                             *)
LEMMA GrantHeldLce ==
  ASSUME Base, StartInv, TakeInv, GrantInv, TagInv, NEW k \in LCE, LceStep(k)
  PROVE  GrantHeld'
<1> SUFFICES ASSUME NEW l \in LCE, lceCmd'[l] # None, lceState'[l] \notin Passed, NEW m, m = lceCmd'[l]
             PROVE  Grants(m)'
  BY DEF GrantHeld, Grants, Granted, Entered
<1>1. CASE lceCmd'[l] = lceCmd[l] /\ lceState[l] \notin Passed /\ ~(l = k /\ LceCohAck(k))
  <2>1. m \in Command /\ m = lceCmd[l] /\ m # None
    BY <1>1 DEF Base, IInv, LceOK, LceTypeOK
  <2>2. Grants(m)
    BY <1>1, <2>1 DEF GrantInv, GrantHeld
  <2>3. m.type \in Gives => Tok("lce", l, 0, Target(m), m.addr, "cached")
    BY <1>1, <2>1, GiveTok
  <2>4. QED
    BY <1>1, <2>1, <2>2, <2>3, TokGrants
<1>2. CASE l = k /\ m \in cmdNet
  BY <1>2, NetGrants
<1>3. QED
  BY <1>1, <1>2, HeldFrom

----------------------------------------------------------------------------
(* What is taken away has left the directory.                              *)

(* GrantInv, step of an engine.                                            *)
LEMMA GrantCce ==
  ASSUME Base, Base', StartInv, DirInv, TakeInv, GrantInv, TagInv, NEW c \in CCE, CceStep(c)
  PROVE  GrantInv'
BY GrantFsmCce, GrantMemCce, GrantCmdCce, GrantHeldCce DEF GrantInv

(* GrantInv, step of a cache.                                              *)
LEMMA GrantLce ==
  ASSUME Base, StartInv, TakeInv, GrantInv, TagInv, NEW k \in LCE, LceStep(k)
  PROVE  GrantInv'
BY GrantFsmLce, GrantMemLce, GrantCmdLce, GrantHeldLce DEF GrantInv

(* A command on its way, or held and not yet executed.                     *)
Pends1(m) ==
  \/ m \in cmdNet
  \/ \E l \in LCE : m = lceCmd[l] /\ m # None /\ lceState[l] \in {"reset", "clear", "ready"}

(* The command that takes a copy away still finds the directory changed    *)
(* after a step of an engine.                                              *)
LEMMA TakesKept ==
  ASSUME Base, StartInv, NEW c \in CCE, CceStep(c), NEW m \in Command, Takes(m), Pends1(m)
  PROVE  Takes(m)'
<1>1. ASSUME m.type \in {"st_tr", "st_tr_wb"}
      PROVE  Entered(m.dst, m.addr, m.way, m.st)'
  <2>1. PICK l \in LCE, b \in Block, w \in Way, s \in Set :
          l = m.dst /\ b = m.addr /\ w = m.way /\ s = SetOf[b]
    BY <1>1, CommandFields, ConstantsAssumption
  <2>2. Target(m) \in LCE
    BY <1>1, GiveTok DEF Gives
  <2>3. \E a \in {"cmd", "lce"} : \E x : Tok(a, x, 0, Target(m), b, "cached")
    <3>1. CASE m \in cmdNet
      BY <1>1, <2>1, <3>1, GiveTok DEF Gives
    <3>2. CASE \E k \in LCE : m = lceCmd[k] /\ m # None /\ lceState[k] \in {"reset", "clear", "ready"}
      <4>1. PICK k \in LCE : m = lceCmd[k] /\ m # None /\ lceState[k] \in {"reset", "clear", "ready"}
        BY <3>2
      <4>2. lceState[k] \notin Passed
        BY <4>1 DEF Passed
      <4>3. Tok("lce", k, 0, Target(m), m.addr, "cached")
        BY <1>1, <4>1, <4>2, GiveTok DEF Gives
      <4>4. QED
        BY <2>1, <4>3
    <3>3. QED
      BY <3>1, <3>2 DEF Pends1
  <2>4. DirSame(s)
    BY <2>1, <2>2, <2>3, DirQuiet DEF StartInv
  <2>5. dir'[l][<<s, w>>] = dir[l][<<s, w>>]
    BY <2>4 DEF DirSame
  <2>6. QED
    BY <1>1, <2>1, <2>5 DEF Takes, Entered, FrameOf
<1>2. ASSUME m.type = "inv"
      PROVE  /\ ReqSet(m.src)' = SetOf[m.addr]
             /\ dir'[m.dst][FrameOf(m.addr, m.way)].st = "I"
  <2>1. PICK l \in LCE, b \in Block, w \in Way, s \in Set, d \in CCE :
          l = m.dst /\ b = m.addr /\ w = m.way /\ s = SetOf[b] /\ d = m.src
    BY <1>2, CommandFields, ConstantsAssumption
  <2>2. ReqSet(d) = s /\ HomeOf[s] = d /\ dir[l][<<s, w>>].st = "I"
    BY <1>2, <2>1 DEF Takes, FrameOf
  <2>3. Invalidating(d)
    <3>1. m \in InvsOf(d) \/ HeldInvs(d) # {}
      BY <1>2, <2>1 DEF Pends1, InvsOf, HeldInvs, Holds
    <3>2. QED
      BY <3>1, NoInvs DEF Base, CountInv
  <2>4. mshr'[d].addr = mshr[d].addr
    <3>1. CASE d = c
      BY <2>3, <3>1, FsmStays DEF SameRequest, Invalidating, CceReady, CceUcReq, CceResolve, Base
    <3>2. CASE d # c
      BY <3>2, CceOthers DEF Base
    <3>3. QED
      BY <3>1, <3>2
  <2>5. dir'[l][<<s, w>>].st = "I"
    <3>1. CASE DirSame(s)
      BY <2>2, <3>1 DEF DirSame
    <3>2. CASE HomeOf[s] = c /\ CceClearDir(c)
      BY <2>2, <2>3, <3>2 DEF CceClearDir, Invalidating
    <3>3. CASE HomeOf[s] = c /\ s = ReqSet(c) /\ (CceWriteNextState(c) \/ CceInvCmd(c) \/ CceTransfer(c))
      <4>1. CceInvCmd(c)
        BY <2>2, <2>3, <3>3 DEF CceWriteNextState, CceTransfer, Invalidating
      <4>2. PICK k, v : InvSent(c, k, v)
        BY <4>1, InvStep
      <4>3. DirPut(s, k, v, dir[k][<<s, v>>].blk, "I")
        BY <3>3, <4>2 DEF InvSent
      <4>4. QED
        BY <2>2, <4>3 DEF DirPut
    <3>4. QED
      BY <3>1, <3>2, <3>3, DirStep
  <2>6. QED
    BY <2>1, <2>2, <2>4, <2>5 DEF ReqSet, FrameOf
<1>3. ASSUME m.type = "st_wb"
      PROVE  m.dst = mshr'[m.src].lce /\ m.way = mshr'[m.src].lru
  <2>1. PICK d \in CCE : d = m.src
    BY <1>3, CommandFields
  <2>2. \E a, x : WbTok(d, a, x)
    <3>1. CASE m \in cmdNet
      <4>1. WbTok(d, "cmd", m)
        BY <1>3, <2>1, <3>1 DEF WbTok, WbCmd
      <4>2. QED
        BY <4>1
    <3>2. CASE \E l \in LCE : m = lceCmd[l] /\ m # None
      <4>1. PICK l \in LCE : m = lceCmd[l] /\ m # None
        BY <3>2
      <4>2. WbTok(d, "lce", l)
        BY <1>3, <2>1, <4>1 DEF WbTok, WbLce, Holds
      <4>3. QED
        BY <4>2
    <3>3. QED
      BY <3>1, <3>2 DEF Pends1
  <2>3. cceState[d] \in {"replacement_wb_resp", "transfer_wb_resp"}
    <3>1. WbWaits
      BY DEF Base, SerialInv, WbInv
    <3>2. QED
      BY <2>2, <3>1 DEF WbWaits
  <2>4. mshr'[d].lce = mshr[d].lce /\ mshr'[d].lru = mshr[d].lru
    <3>1. CASE d = c
      BY <2>3, <3>1, FsmStays DEF SameRequest, CceReady, CceUcReq, CceResolve, Base
    <3>2. CASE d # c
      BY <3>2, CceOthers DEF Base
    <3>3. QED
      BY <3>1, <3>2
  <2>5. QED
    BY <1>3, <2>1, <2>4 DEF Takes
<1>4. QED
  BY <1>1, <1>2, <1>3 DEF Takes, Entered

(* TakeCmd, step of an engine: the directory changes with the command it   *)
(* sends.                                                                  *)
LEMMA TakeCmdCce ==
  ASSUME Base, Base', StartInv, DirInv, TakeInv, NEW c \in CCE, CceStep(c)
  PROVE  TakeCmd'
<1> SUFFICES ASSUME NEW m, m \in cmdNet' PROVE Takes(m)'
  BY DEF TakeCmd
<1>2. CASE m \in cmdNet
  <2>1. m \in Command /\ Takes(m)
    BY <1>2 DEF Base, IInv, NetTypeOK, TakeInv, TakeCmd
  <2>2. Pends1(m)
    BY <1>2 DEF Pends1
  <2>3. QED
    BY <2>1, <2>2, TakesKept
<1>3. CASE m \notin cmdNet
  <2>1. CASE CceReplacement(c)
    <3>1. m = [type |-> "st_wb", src |-> c, dst |-> mshr[c].lce,
               addr |-> mshr[c].lruBlk, way |-> mshr[c].lru, st |-> "I"]
      BY <1>3, <2>1 DEF CceReplacement, SendCmd
    <3>2. m.type = "st_wb" /\ m.src = c /\ m.dst = mshr[c].lce /\ m.way = mshr[c].lru /\ m.st = "I"
      BY <3>1
    <3>3. mshr' = mshr
      BY <2>1 DEF CceReplacement
    <3>4. QED
      BY <3>2, <3>3 DEF Takes
  <2>2. CASE CceInvCmd(c)
    <3>1. PICK l, w : InvSent(c, l, w)
      BY <2>2, InvStep
    <3>2. m = [type |-> "inv", src |-> c, dst |-> l, addr |-> mshr[c].addr, way |-> w]
      BY <1>3, <3>1 DEF InvSent
    <3>3. m.type = "inv" /\ m.src = c /\ m.dst = l /\ m.addr = mshr[c].addr /\ m.way = w
      BY <3>2
    <3>4. l \in LCE /\ w \in Way /\ DirPut(ReqSet(c), l, w, dir[l][<<ReqSet(c), w>>].blk, "I")
      BY <3>1 DEF InvSent
    <3>5. dir'[l][<<ReqSet(c), w>>].st = "I"
      BY <3>4 DEF DirPut
    <3>6. mshr' = mshr /\ cceState[c] = "inv_cmd"
      BY <2>2, InvStep
    <3>7. HomeOf[ReqSet(c)] = c
      BY <3>6, WorksHome DEF Cached, Base
    <3>8. QED
      BY <3>3, <3>5, <3>6, <3>7 DEF Takes, FrameOf, ReqSet
  <2>3. CASE CceUpgrade(c)
    <3>1. m.type = "st_wakeup"
      BY <1>3, <2>3 DEF CceUpgrade, SendCmd
    <3>2. QED
      BY <3>1 DEF Takes
  <2>4. CASE CceTransfer(c)
    <3>1. /\ cceState[c] = "transfer" /\ mshr[c].xf
          /\ mshr[c].owner \in LCE /\ mshr[c].ownerWay \in Way
          /\ \E mm : /\ Given(c, mm) /\ cmdNet' = cmdNet \cup {mm}
                     /\ DirPut(ReqSet(c), mshr[c].owner, mshr[c].ownerWay, mshr[c].addr, mm.st)
      BY <2>4, TransferStep
    <3>2. Given(c, m) /\ DirPut(ReqSet(c), mshr[c].owner, mshr[c].ownerWay, mshr[c].addr, m.st)
      BY <1>3, <3>1
    <3>3. mshr[c].owner # mshr[c].lce
      BY <3>1 DEF DirInv, KnownInv, KnownOwner
    <3>4. /\ dir'[mshr[c].owner][<<ReqSet(c), mshr[c].ownerWay>>].blk = mshr[c].addr
          /\ dir'[mshr[c].owner][<<ReqSet(c), mshr[c].ownerWay>>].st = m.st
      BY <3>1, <3>2 DEF DirPut
    <3>5. /\ m.type \in {"st_tr", "st_tr_wb"} /\ m.dst = mshr[c].owner /\ m.addr = mshr[c].addr
          /\ m.way = mshr[c].ownerWay /\ m.target = mshr[c].lce /\ m.st \in {"I", "S"}
      BY <3>2 DEF Given
    <3>6. QED
      BY <3>3, <3>4, <3>5 DEF Takes, Entered, FrameOf, ReqSet
  <2>5. CASE MemRespFill(c)
    <3>1. m.type = "data"
      BY <1>3, <2>5 DEF MemRespFill, SendCmd, FillCmd
    <3>2. QED
      BY <3>1 DEF Takes
  <2>6. CASE MemRespUncached(c)
    <3>1. m.type \in {"uc_data", "uc_st_done"}
      BY <1>3, <2>6 DEF MemRespUncached, SendCmd
    <3>2. QED
      BY <3>1 DEF Takes
  <2>7. CASE \E l \in LCE : CceSendSync(c, l)
    <3>1. m.type = "sync"
      BY <1>3, <2>7 DEF CceSendSync, SendCmd
    <3>2. QED
      BY <3>1 DEF Takes
  <2>8. QED
    BY <1>3, <2>1, <2>2, <2>3, <2>4, <2>5, <2>6, <2>7, CmdBy
<1>4. QED
  BY <1>2, <1>3

(* TakeHeld, step of an engine.                                            *)
LEMMA TakeHeldCce ==
  ASSUME Base, StartInv, TakeInv, NEW c \in CCE, CceStep(c)
  PROVE  TakeHeld'
<1>1. lceCmd' = lceCmd /\ lceState' = lceState
  BY CceLeaves
<1> SUFFICES ASSUME NEW l \in LCE, lceCmd[l] # None, lceState[l] \in {"reset", "clear", "ready"}
             PROVE  Takes(lceCmd[l])'
  BY <1>1 DEF TakeHeld
<1>2. PICK m \in Command : m = lceCmd[l]
  BY DEF Base, IInv, LceOK, LceTypeOK
<1>3. Takes(m)
  BY <1>2 DEF TakeInv, TakeHeld
<1>4. Pends1(m)
  BY <1>2 DEF Pends1
<1>5. Takes(m)'
  BY <1>3, <1>4, TakesKept
<1>6. lceCmd'[l] = m
  BY <1>1, <1>2
<1>7. QED
  BY <1>5, <1>6 DEF Takes, Entered

(* TakeInv, step of an engine.                                             *)
LEMMA TakeCce ==
  ASSUME Base, Base', StartInv, DirInv, TakeInv, NEW c \in CCE, CceStep(c)
  PROVE  TakeInv'
BY TakeCmdCce, TakeHeldCce DEF TakeInv

(* TakeInv, step of a cache.                                               *)
LEMMA TakeLce ==
  ASSUME Base, TakeInv, NEW k \in LCE, LceStep(k)
  PROVE  TakeInv'
<1>1. mshr' = mshr /\ dir' = dir
  BY LceLeaves
<1>2. ASSUME NEW m, Takes(m)
      PROVE  Takes(m)'
  BY <1>1, <1>2 DEF Takes, Entered, ReqSet
<1>3. ASSUME NEW m, m \in cmdNet'
      PROVE  Takes(m)'
  <2>1. CASE m \in cmdNet
    BY <1>2, <2>1 DEF TakeInv, TakeCmd
  <2>2. CASE m \notin cmdNet
    <3>1. LceTr(k)
      BY <1>3, <2>2, LceNetBy DEF LceHead
    <3>2. m.type = "data"
      BY <1>3, <2>2, <3>1 DEF LceTr
    <3>3. QED
      BY <3>2 DEF Takes
  <2>3. QED
    BY <2>1, <2>2
<1>4. TakeHeld'
  <2> SUFFICES ASSUME NEW l \in LCE, lceCmd'[l] # None, lceState'[l] \in {"reset", "clear", "ready"},
                      NEW m, m = lceCmd'[l]
               PROVE  Takes(m)'
    BY DEF TakeHeld, Takes, Entered, ReqSet
  <2>1. Takes(m)
    <3>1. CASE m \in cmdNet
      BY <3>1 DEF TakeInv, TakeCmd
    <3>2. CASE m = lceCmd[l] /\ lceState[l] \in {"reset", "clear", "ready"}
      BY <3>2 DEF TakeInv, TakeHeld
    <3>3. QED
      BY <3>1, <3>2, HeldFrom
  <2>2. QED
    BY <1>2, <2>1
<1>5. QED
  <2>1. TakeCmd'
    BY <1>3 DEF TakeCmd
  <2>2. QED
    BY <1>4, <2>1 DEF TakeInv

----------------------------------------------------------------------------
(* The tags and the directory, step of an engine.                          *)

(* One of the reasons TagInv allows.                                       *)
Explained(l, s, w) ==
  \/ Same(l, s, w) \/ ToFill(l, s, w) \/ ToUpgrade(l, s, w)
  \/ ToInvalidate(l, s, w) \/ ToGive(l, s, w)

(* A step of an engine closes no request.                                  *)
LEMMA OpenGrows ==
  ASSUME Base, NEW c \in CCE, CceStep(c), NEW s \in Set, NEW l \in Open(s)
  PROVE  l \in Open(s)'
BY OpenCce, OpenDeq DEF Base

(* A step of an engine takes no command from the network.                  *)
LEMMA CmdGrows ==
  ASSUME NEW c \in CCE, CceStep(c), NEW m \in cmdNet
  PROVE  m \in cmdNet'
<1>1. CASE \/ CceReplacement(c) \/ CceInvCmd(c) \/ CceUpgrade(c) \/ CceTransfer(c) \/ MemRespFill(c)
           \/ \E l \in LCE : CceSendSync(c, l)
  BY <1>1 DEF CceReplacement, CceInvCmd, CceUpgrade, CceTransfer, MemRespFill, CceSendSync, SendCmd
<1>2. CASE MemRespUncached(c)
  BY <1>2 DEF MemRespUncached, SendCmd
<1>3. QED
  BY <1>1, <1>2, CmdBy

(* A command on its way stays so when an engine steps.                     *)
LEMMA ComingKept ==
  ASSUME NEW c \in CCE, CceStep(c), NEW l, NEW types, NEW f, Coming(l, types, f)
  PROVE  Coming(l, types, f)'
<1>1. lceCmd' = lceCmd /\ lceState' = lceState
  BY CceLeaves
<1>2. PICK m : Arrives(m, l) /\ m.dst = l /\ m.type \in types /\ FrameOf(m.addr, m.way) = f
  BY DEF Coming
<1>3. Arrives(m, l)'
  BY <1>1, <1>2, CmdGrows DEF Arrives
<1>4. QED
  BY <1>2, <1>3 DEF Coming

(* A difference stays explained while its entry of the directory does not  *)
(* change.                                                                 *)
LEMMA EntryKept ==
  ASSUME Base, NEW c \in CCE, CceStep(c), NEW s \in Set, NEW l \in LCE, NEW w \in Way,
         Explained(l, s, w), dir'[l][<<s, w>>] = dir[l][<<s, w>>]
  PROVE  Explained(l, s, w)'
<1>1. tag' = tag /\ lceCmd' = lceCmd /\ lceState' = lceState /\ miss' = miss
  BY CceLeaves
<1>2. CASE Same(l, s, w)
  BY <1>1, <1>2 DEF Explained, Same
<1>3. CASE ToFill(l, s, w)
  <2>1. l \in Open(s) /\ ~Early(s)
    BY <1>3 DEF ToFill
  <2>2. l \in Open(s)' /\ ~Early(s)'
    BY <2>1, OpenGrows, EarlyKept
  <2>3. ToFill(l, s, w)'
    BY <1>1, <1>3, <2>2 DEF ToFill, Copy, Tagged
  <2>4. QED
    BY <2>3 DEF Explained
<1>4. CASE ToUpgrade(l, s, w)
  <2>1. l \in Open(s) /\ ~Early(s)
    BY <1>4 DEF ToUpgrade
  <2>2. l \in Open(s)' /\ ~Early(s)'
    BY <2>1, OpenGrows, EarlyKept
  <2>3. ToUpgrade(l, s, w)'
    BY <1>1, <1>4, <2>2 DEF ToUpgrade
  <2>4. QED
    BY <2>3 DEF Explained
<1>5. CASE ToInvalidate(l, s, w)
  <2>1. Coming(l, {"inv"}, <<s, w>>)'
    BY <1>5, ComingKept DEF ToInvalidate
  <2>2. ToInvalidate(l, s, w)'
    BY <1>5, <2>1 DEF ToInvalidate
  <2>3. QED
    BY <2>2 DEF Explained
<1>6. CASE ToGive(l, s, w)
  <2>1. Coming(l, {"st_tr", "st_tr_wb"}, <<s, w>>)'
    BY <1>6, ComingKept DEF ToGive
  <2>2. ToGive(l, s, w)'
    BY <1>1, <1>6, <2>1 DEF ToGive
  <2>3. QED
    BY <2>2 DEF Explained
<1>7. QED
  BY <1>2, <1>3, <1>4, <1>5, <1>6 DEF Explained

(* The entry an engine grants differs from its tag by a fill or an upgrade *)
(* to come.                                                                *)
LEMMA TagWrite ==
  ASSUME Base, DirInv, TakeInv, GrantInv, TagInv, NEW c \in CCE, CceWriteNextState(c), CceStep(c),
         NEW s \in Set, s = ReqSet(c), HomeOf[s] = c, NEW l \in LCE, NEW w \in Way,
         l = mshr[c].lce, w = GrantWay(c)
  PROVE  Explained(l, s, w)'
<1>1. /\ cceState[c] = "write_next_state"
      /\ DirPut(s, l, w, mshr[c].addr, mshr[c].next)
      /\ mshr' = mshr
      /\ mshr[c].rf => cceState'[c] = "replacement"
      /\ ~mshr[c].rf => Filled(c)
  BY WriteStep
<1>2. AtFsm(c) /\ ~Invalidating(c) /\ Early(s)
  BY <1>1 DEF AtFsm, Unsourced, Working, Cached, Invalidating, Early, Serving
<1>3. Same(l, s, w)
  BY <1>2, FsmSettled DEF ToFill, ToUpgrade
<1>4. tag' = tag /\ miss' = miss
  BY CceLeaves
<1>5. ~Early(s)'
  <2>1. cceState'[c] \in {"replacement", "inv_cmd", "upgrade_stw_cmd", "transfer", "resolve_speculation"}
    BY <1>1 DEF Filled, FillStep
  <2>2. QED
    BY <2>1 DEF Early
<1>6. PICK b \in Block : b = mshr[c].addr /\ l \in Open(s) /\ miss[l].addr = b
  BY <1>2, FsmHas
<1>7. l \in Open(s)'
  BY <1>6, OpenGrows
<1>8. dir'[l][<<s, w>>].blk = b /\ dir'[l][<<s, w>>].st = mshr[c].next
  BY <1>1, <1>6 DEF DirPut
<1>9. /\ mshr[c].next = IF mshr[c].write THEN "M"
                      ELSE IF mshr[c].nonExcl \/ mshr[c].csf \/ mshr[c].xf THEN "S" ELSE "E"
      /\ mshr[c].uf => mshr[c].write
  <2>1. KnownFlags
    BY DEF DirInv, KnownInv
  <2>2. QED
    BY <1>1, <2>1 DEF KnownFlags, Decided
<1>10. KnownMine
  BY DEF DirInv, KnownInv
<1>11. CASE mshr[c].uf
  <2>1. w = mshr[c].way /\ mshr[c].next = "M"
    BY <1>9, <1>11 DEF GrantWay
  <2>2. Copy(l, s, w, b) /\ dir[l][<<s, w>>].st = "S"
    BY <1>1, <1>6, <1>10, <1>11, <2>1 DEF KnownMine
  <2>3. tag[l][<<s, w>>].st = "S" /\ tag[l][<<s, w>>].blk = b
    BY <1>3, <2>2 DEF Same, Copy
  <2>4. ToUpgrade(l, s, w)'
    BY <1>4, <1>5, <1>6, <1>7, <1>8, <2>1, <2>3 DEF ToUpgrade
  <2>5. QED
    BY <2>4 DEF Explained
<1>12. CASE ~mshr[c].uf
  <2>1. w = mshr[c].lru /\ mshr[c].next # "I"
    BY <1>9, <1>12 DEF GrantWay
  <2>2. ~Copy(l, s, w, b)
    BY <1>1, <1>6, <1>10, <1>12 DEF KnownMine
  <2>3. ~Tagged(l, s, w, b)
    BY <1>3, <2>2 DEF Same, Copy, Tagged
  <2>4. w = miss[l].lru
    <3>1. Asked
      BY DEF DirInv, KnownInv
    <3>2. QED
      BY <1>2, <2>1, <3>1 DEF Asked
  <2>5. ToFill(l, s, w)'
    BY <1>4, <1>5, <1>6, <1>7, <1>8, <2>1, <2>3, <2>4 DEF ToFill, Copy, Tagged
  <2>6. QED
    BY <2>5 DEF Explained
<1>13. QED
  BY <1>11, <1>12

(* The entry an engine invalidates differs from its tag by the             *)
(* invalidation it sends.                                                  *)
LEMMA TagInvalidate ==
  ASSUME Base, NEW c \in CCE, CceInvCmd(c), CceStep(c),
         NEW s \in Set, s = ReqSet(c), NEW l \in LCE, NEW w \in Way, InvSent(c, l, w)
  PROVE  Explained(l, s, w)'
<1>1. dir'[l][<<s, w>>].st = "I"
  BY DEF InvSent, DirPut
<1>2. PICK m : m = [type |-> "inv", src |-> c, dst |-> l, addr |-> mshr[c].addr, way |-> w]
  OBVIOUS
<1>3. m \in cmdNet'
  BY <1>2 DEF InvSent
<1>4. m.dst = l /\ m.type = "inv" /\ m.addr = mshr[c].addr /\ m.way = w
  BY <1>2
<1>5. FrameOf(m.addr, m.way) = <<s, w>>
  BY <1>4 DEF FrameOf, ReqSet
<1>6. Coming(l, {"inv"}, <<s, w>>)'
  BY <1>3, <1>4, <1>5 DEF Coming, Arrives
<1>7. QED
  BY <1>1, <1>6 DEF Explained, ToInvalidate

(* The entry of the owner differs from its tag by the transfer the engine  *)
(* sends.                                                                  *)
LEMMA TagTransfer ==
  ASSUME Base, DirInv, TakeInv, GrantInv, TagInv, NEW c \in CCE, CceTransfer(c), CceStep(c),
         NEW s \in Set, s = ReqSet(c), NEW l \in LCE, NEW w \in Way,
         l = mshr[c].owner, w = mshr[c].ownerWay
  PROVE  Explained(l, s, w)'
<1>1. /\ cceState[c] = "transfer" /\ mshr[c].xf
      /\ \E m : Given(c, m) /\ cmdNet' = cmdNet \cup {m} /\ DirPut(s, l, w, mshr[c].addr, m.st)
  BY TransferStep
<1>2. PICK m : Given(c, m) /\ cmdNet' = cmdNet \cup {m} /\ DirPut(s, l, w, mshr[c].addr, m.st)
  BY <1>1
<1>3. AtFsm(c) /\ ~Invalidating(c)
  BY <1>1 DEF AtFsm, Unsourced, Working, Cached, Invalidating
<1>4. l # mshr[c].lce /\ dir[l][<<s, w>>].st \in Owned
  BY <1>1 DEF DirInv, KnownInv, KnownOwner
<1>5. l \notin Open(s)
  <2>1. mshr[c].lce \in Open(s)
    BY <1>3, FsmHas
  <2>2. QED
    BY <1>4, <2>1, OpenOne
<1>6. Same(l, s, w)
  BY <1>3, <1>5, FsmSettled DEF ToFill, ToUpgrade
<1>7. dir[l][<<s, w>>].blk = mshr[c].addr
  <2>1. FoundBlk
    BY DEF Base, SerialInv, DirSetInv
  <2>2. QED
    BY <1>1, <2>1 DEF FoundBlk, Decided, FrameOf, ReqSet
<1>8. tag[l][<<s, w>>].st \in Owned /\ tag[l][<<s, w>>].blk = mshr[c].addr
  BY <1>4, <1>6, <1>7 DEF Same, Owned
<1>9. dir'[l][<<s, w>>].blk = mshr[c].addr
  BY <1>2 DEF DirPut
<1>10. m.type \in {"st_tr", "st_tr_wb"} /\ m.dst = l /\ FrameOf(m.addr, m.way) = <<s, w>>
  BY <1>2 DEF Given, FrameOf, ReqSet
<1>11. Coming(l, {"st_tr", "st_tr_wb"}, <<s, w>>)'
  BY <1>2, <1>10 DEF Coming, Arrives
<1>12. tag' = tag
  BY CceLeaves
<1>13. QED
  BY <1>8, <1>9, <1>11, <1>12 DEF Explained, ToGive

(* TagInv, step of an engine.                                              *)
LEMMA TagCce ==
  ASSUME Base, Base', StartInv, DirInv, TakeInv, GrantInv, TagInv, NEW c \in CCE, CceStep(c)
  PROVE  TagInv'
<1> SUFFICES ASSUME NEW s \in Set, NEW l \in LCE, NEW w \in Way, InService(HomeOf[s])'
             PROVE  Explained(l, s, w)'
  BY DEF TagInv, Explained
<1>1. HomeOf[s] \in CCE
  BY ConstantsAssumption
<1>2. CASE ~InService(HomeOf[s])
  <2>1. HomeOf[s] = c /\ CceSyncAck(c)
    BY <1>1, <1>2, ServiceStarts
  <2>2. dir' = dir /\ tag' = tag /\ lceState' = lceState /\ Cleared(c)
    BY <2>1, CceLeaves DEF CceSyncAck, dirVars, Cleared
  <2>3. Past(l)
    <3>1. Past(l)'
      BY <1>1 DEF Base, SyncInv
    <3>2. QED
      BY <2>2, <3>1 DEF Past
  <2>4. dir[l][<<s, w>>].st = "I" /\ tag[l][<<s, w>>].st = "I"
    BY <1>2, <2>1, <2>2, <2>3 DEF StartInv, StartDir, StartTag
  <2>5. Same(l, s, w)'
    BY <2>2, <2>4 DEF Same
  <2>6. QED
    BY <2>5 DEF Explained
<1>3. CASE InService(HomeOf[s])
  <2>1. Explained(l, s, w)
    BY <1>3 DEF TagInv, Explained
  <2>2. CASE dir'[l][<<s, w>>] = dir[l][<<s, w>>]
    BY <2>1, <2>2, EntryKept
  <2>3. CASE dir'[l][<<s, w>>] # dir[l][<<s, w>>]
    <3>1. ~DirSame(s)
      BY <2>3 DEF DirSame
    <3>2. ~(HomeOf[s] = c /\ CceClearDir(c))
      BY <1>3 DEF CceClearDir, InService
    <3>3. HomeOf[s] = c /\ s = ReqSet(c) /\ (CceWriteNextState(c) \/ CceInvCmd(c) \/ CceTransfer(c))
      BY <3>1, <3>2, DirStep
    <3>4. CASE CceWriteNextState(c)
      <4>1. DirPut(s, mshr[c].lce, GrantWay(c), mshr[c].addr, mshr[c].next)
        BY <3>3, <3>4, WriteStep
      <4>2. l = mshr[c].lce /\ w = GrantWay(c)
        BY <2>3, <4>1 DEF DirPut
      <4>3. QED
        BY <3>3, <3>4, <4>2, TagWrite
    <3>5. CASE CceInvCmd(c)
      <4>1. PICK k, v : InvSent(c, k, v)
        BY <3>5, InvStep
      <4>2. DirPut(s, k, v, dir[k][<<s, v>>].blk, "I")
        BY <3>3, <4>1 DEF InvSent
      <4>3. l = k /\ w = v
        BY <2>3, <4>2 DEF DirPut
      <4>4. QED
        BY <3>3, <3>5, <4>1, <4>3, TagInvalidate
    <3>6. CASE CceTransfer(c)
      <4>1. \E m : DirPut(s, mshr[c].owner, mshr[c].ownerWay, mshr[c].addr, m.st)
        BY <3>3, <3>6, TransferStep
      <4>2. PICK m : DirPut(s, mshr[c].owner, mshr[c].ownerWay, mshr[c].addr, m.st)
        BY <4>1
      <4>3. l = mshr[c].owner /\ w = mshr[c].ownerWay
        BY <2>3, <4>2 DEF DirPut
      <4>4. QED
        BY <3>3, <3>6, <4>3, TagTransfer
    <3>7. QED
      BY <3>3, <3>4, <3>5, <3>6
  <2>4. QED
    BY <2>2, <2>3
<1>4. QED
  BY <1>2, <1>3

----------------------------------------------------------------------------
(* The tags and the directory, step of a cache.                            *)

(* The frame of a command a cache has executed agrees with the directory.  *)
LEMMA Performed ==
  ASSUME Base, StartInv, TakeInv, GrantInv, TagInv, NEW k \in LCE, NEW m, NEW s, NEW w, NEW blk, NEW st,
         Doing(k, m, s, w), Outcome(k, m, s, w, blk, st), m.type # "st_wb",
         dir' = dir
  PROVE  Same(k, s, w)'
<1>1. s \in Set /\ w \in Way
  BY DEF Doing
<1>2. tag'[k][<<s, w>>].blk = blk /\ tag'[k][<<s, w>>].st = st
  BY <1>1 DEF Outcome, TagPut
<1>3. st = dir[k][<<s, w>>].st /\ (st # "I" => blk = dir[k][<<s, w>>].blk)
  BY DEF Outcome
<1>4. QED
  BY <1>2, <1>3 DEF Same

(* A command on its way stays so until its cache executes it, and then the *)
(* frame agrees with the directory.                                        *)
LEMMA ComingLce ==
  ASSUME Base, StartInv, TakeInv, GrantInv, TagInv, NEW k \in LCE, LceStep(k), NEW l \in LCE,
         NEW types \in {{"inv"}, {"st_tr", "st_tr_wb"}}, NEW s \in Set, NEW w \in Way,
         Coming(l, types, <<s, w>>)
  PROVE  Coming(l, types, <<s, w>>)' \/ (l = k /\ Same(k, s, w)')
<1>1. PICK m : /\ Arrives(m, l) /\ m.dst = l /\ m.type \in types
               /\ FrameOf(m.addr, m.way) = <<s, w>>
  BY DEF Coming
<1>2. Arrives(m, l)' => Coming(l, types, <<s, w>>)'
  BY <1>1 DEF Coming
<1>3. lceCmd \in [LCE -> Command \cup {None}] /\ lceState \in [LCE -> LceCmdStates]
  BY DEF Base, IInv, LceOK, LceTypeOK
<1>4. CASE m \in cmdNet
  <2>1. CASE LceHead(k)
    <3>1. PICK mm \in cmdNet : mm.dst = k /\ lceCmd' = [lceCmd EXCEPT ![k] = mm] /\ cmdNet' = cmdNet \ {mm}
      BY <2>1 DEF LceHead
    <3>2. CASE m = mm
      <4>1. l = k /\ lceCmd'[l] = m /\ lceState'[l] = "ready" /\ m # None
        <5>1. mm # None
          BY NoneAssumption DEF Base, IInv, NetTypeOK
        <5>2. QED
          BY <1>1, <1>3, <2>1, <3>1, <3>2, <5>1 DEF LceHead
      <4>2. QED
        BY <1>2, <4>1 DEF Arrives
    <3>3. CASE m # mm
      BY <1>2, <1>4, <3>1, <3>3 DEF Arrives
    <3>4. QED
      BY <3>2, <3>3
  <2>2. CASE ~LceHead(k)
    <3>1. m \in cmdNet'
      BY <1>4, <2>2, LceNetBy DEF LceTr
    <3>2. QED
      BY <1>2, <3>1 DEF Arrives
  <2>3. QED
    BY <2>1, <2>2
<1>5. CASE m = lceCmd[l] /\ m # None /\ lceState[l] = "ready"
  <2>1. CASE l # k
    BY <1>2, <1>5, <2>1, LceOthers DEF Arrives
  <2>2. CASE l = k /\ (LceInv(k) \/ LceStTr(k))
    <3>1. Executes(k, {"inv", "st_wb", "st_tr", "st_tr_wb", "st_wakeup", "data"})
      BY <2>2 DEF LceInv, LceStTr, Executes, Holds
    <3>2. PICK mm, t, v : Doing(k, mm, t, v) /\ mm = lceCmd[k] /\ CmdFrame(k) = <<t, v>>
      BY <3>1, ExecutesDoing
    <3>3. mm = m /\ t = s /\ v = w
      BY <1>1, <1>5, <2>2, <3>2 DEF CmdFrame
    <3>4. SetState(k, IF m.type = "inv" THEN "I" ELSE m.st)
      BY <1>1, <1>5, <2>2 DEF LceInv, LceStTr, Executes, Holds
    <3>5. TagPut(k, s, w, tag[k][<<s, w>>].blk, IF m.type = "inv" THEN "I" ELSE m.st)
      BY <3>2, <3>3, <3>4, SetIs
    <3>6. Does(k, m, s, w)
      BY <1>1, <3>5 DEF Does
    <3>7. PICK blk, st : Outcome(k, m, s, w, blk, st)
      BY <3>2, <3>3, <3>6, TagOutcome
    <3>8. dir' = dir /\ m.type # "st_wb"
      BY <1>1, LceLeaves
    <3>9. QED
      BY <2>2, <3>2, <3>3, <3>7, <3>8, Performed
  <2>3. CASE l = k /\ ~LceInv(k) /\ ~LceStTr(k)
    <3>1. m.type \in {"inv", "st_tr", "st_tr_wb"} /\ lceState[k] = "ready" /\ lceCmd[k] = m /\ m # None
      BY <1>1, <1>5, <2>3
    <3>2. lceCmd' = lceCmd
      BY <2>3, <3>1, LceCmdBy
      DEF LceHead, LceSync, LceUcStDone, LceUcData, LceCohAck, LceTr, LceWb, LceWbDirtySend, Holds, Executes
    <3>3. lceState' = lceState
      BY <2>3, <3>1, LceStateBy
      DEF LceReset, LceClear, LceData, LceStWakeup, LceStWb, LceCohAck, LceTr, LceWbStatRd, LceWb,
        LceWbDirtyRd, LceWbDirtySend, Holds, Executes
    <3>4. QED
      BY <1>2, <1>5, <3>2, <3>3 DEF Arrives
  <2>4. QED
    BY <2>1, <2>2, <2>3
<1>6. QED
  BY <1>1, <1>4, <1>5 DEF Arrives

(* A cache that acknowledges has what it waited for.                       *)
LEMMA AckSettled ==
  ASSUME Base, StartInv, DirInv, GrantInv, Acked, NEW k \in LCE, lceState[k] = "coh_ack",
         NEW s \in Set, k \in Open(s), NEW w \in Way, Copy(k, s, w, miss[k].addr)
  PROVE  /\ tag[k][<<s, w>>].st = dir[k][<<s, w>>].st
         /\ tag[k][<<s, w>>].blk = dir[k][<<s, w>>].blk
<1>1. PICK b \in Block, v \in Way :
           /\ b = lceCmd[k].addr /\ v = lceCmd[k].way /\ CmdFrame(k) = <<SetOf[b], v>>
           /\ lceCmd[k] \in Command /\ lceCmd[k] # None /\ lceCmd[k].dst = k
           /\ lceCmd[k].type \in {"data", "st_wakeup"}
           /\ Tok("lce", k, 0, k, b, "cached")
  BY AckToken
<1>2. miss[k].addr = b
  BY <1>1, TokOpen
<1>3. SetOf[b] = s
  BY <1>2, OpenIs DEF WaitsIn
<1>4. Grants(lceCmd[k])
  BY <1>1 DEF GrantInv, GrantHeld, Passed
<1>5. Copy(k, s, v, b)
  BY <1>1, <1>3, <1>4 DEF Grants, Granted, Entered, Copy, FrameOf
<1>6. Cleared(HomeOf[s])
  BY OpenServed DEF StartInv
<1>7. v = w
  BY <1>2, <1>5, <1>6 DEF DirInv, DirOne
<1>8. QED
  BY <1>1, <1>3, <1>7 DEF Acked

(* A request stays open until its acknowledgement.                         *)
LEMMA OpenStays ==
  ASSUME Base, NEW k \in LCE, LceStep(k), NEW s \in Set, NEW l \in LCE, l \in Open(s),
         ~(l = k /\ LceCohAck(k))
  PROVE  l \in Open(s)' /\ miss'[l] = miss[l]
<1>1. l \in Open(s)'
  BY OpenLce, OpenAck DEF Base
<1>2. miss[l].phase = "sent" /\ miss[l].op # "uc_rd"
  BY OpenIs DEF WaitsIn
<1>3. QED
  BY <1>1, <1>2, MissKept

(* A step of a cache leaves Early alone.                                   *)
LEMMA EarlyLce ==
  ASSUME NEW k \in LCE, LceStep(k), NEW s
  PROVE  Early(s)' <=> Early(s)
<1>1. cceState' = cceState /\ mshr' = mshr
  BY LceLeaves
<1>2. QED
  BY <1>1 DEF Early, Serving, ReqSet

(* A frame whose tag stays.                                                *)
LEMMA FrameStays ==
  ASSUME Base, StartInv, DirInv, TakeInv, GrantInv, TagInv, Acked, NEW k \in LCE, LceStep(k),
         NEW s \in Set, NEW l \in LCE, NEW w \in Way, Explained(l, s, w),
         tag'[l][<<s, w>>] = tag[l][<<s, w>>]
  PROVE  Explained(l, s, w)'
<1>1. dir' = dir
  BY LceLeaves
<1>2. CASE Same(l, s, w)
  BY <1>1, <1>2 DEF Explained, Same
<1>3. CASE ToFill(l, s, w)
  <2>1. ~(l = k /\ LceCohAck(k))
    <3> SUFFICES ASSUME l = k, LceCohAck(k) PROVE FALSE
      OBVIOUS
    <3>1. lceState[k] = "coh_ack"
      BY DEF LceCohAck
    <3>2. k \in Open(s) /\ Copy(k, s, w, miss[k].addr)
      BY <1>3 DEF ToFill
    <3>3. /\ tag[k][<<s, w>>].st = dir[k][<<s, w>>].st
          /\ tag[k][<<s, w>>].blk = dir[k][<<s, w>>].blk
      BY <3>1, <3>2, AckSettled
    <3>4. QED
      BY <1>3, <3>2, <3>3 DEF ToFill, Tagged, Copy
  <2>2. l \in Open(s)' /\ miss'[l] = miss[l]
    BY <1>3, <2>1, OpenStays DEF ToFill
  <2>3. ~Early(s)'
    BY <1>3, EarlyLce DEF ToFill
  <2>4. ToFill(l, s, w)'
    BY <1>1, <1>3, <2>2, <2>3 DEF ToFill, Copy, Tagged
  <2>5. QED
    BY <2>4 DEF Explained
<1>4. CASE ToUpgrade(l, s, w)
  <2>1. ~(l = k /\ LceCohAck(k))
    <3> SUFFICES ASSUME l = k, LceCohAck(k) PROVE FALSE
      OBVIOUS
    <3>1. lceState[k] = "coh_ack"
      BY DEF LceCohAck
    <3>2. k \in Open(s) /\ Copy(k, s, w, miss[k].addr)
      BY <1>4 DEF ToUpgrade, Copy
    <3>3. tag[k][<<s, w>>].st = dir[k][<<s, w>>].st
      BY <3>1, <3>2, AckSettled
    <3>4. QED
      BY <1>4, <3>3 DEF ToUpgrade
  <2>2. l \in Open(s)' /\ miss'[l] = miss[l]
    BY <1>4, <2>1, OpenStays DEF ToUpgrade
  <2>3. ~Early(s)'
    BY <1>4, EarlyLce DEF ToUpgrade
  <2>4. ToUpgrade(l, s, w)'
    BY <1>1, <1>4, <2>2, <2>3 DEF ToUpgrade
  <2>5. QED
    BY <2>4 DEF Explained
<1>5. CASE ToInvalidate(l, s, w)
  <2>1. Coming(l, {"inv"}, <<s, w>>)' \/ (l = k /\ Same(k, s, w)')
    BY <1>5, ComingLce DEF ToInvalidate
  <2>2. Coming(l, {"inv"}, <<s, w>>)' => ToInvalidate(l, s, w)'
    BY <1>1, <1>5 DEF ToInvalidate
  <2>3. QED
    BY <2>1, <2>2 DEF Explained
<1>6. CASE ToGive(l, s, w)
  <2>1. Coming(l, {"st_tr", "st_tr_wb"}, <<s, w>>)' \/ (l = k /\ Same(k, s, w)')
    BY <1>6, ComingLce DEF ToGive
  <2>2. Coming(l, {"st_tr", "st_tr_wb"}, <<s, w>>)' => ToGive(l, s, w)'
    BY <1>1, <1>6 DEF ToGive
  <2>3. QED
    BY <2>1, <2>2 DEF Explained
<1>7. QED
  BY <1>2, <1>3, <1>4, <1>5, <1>6 DEF Explained

(* A victim is gone from the cache before it is gone from the frame.       *)
LEMMA VictimGone ==
  ASSUME Base, StartInv, DirInv, TakeInv, GrantInv, TagInv, NEW k \in LCE, LceStep(k),
         NEW m, NEW s, NEW w, NEW blk, NEW st, Doing(k, m, s, w), Outcome(k, m, s, w, blk, st),
         m.type = "st_wb"
  PROVE  ToFill(k, s, w)'
<1>1. PICK c \in CCE : c = m.src
  BY CommandFields DEF Doing
<1>2. s \in Set /\ w \in Way /\ m \in Command /\ m = lceCmd[k] /\ m # None /\ lceState[k] = "ready"
      /\ s = SetOf[m.addr] /\ w = m.way /\ m.dst = k
  BY DEF Doing
<1>3. WbLce(c, k)
  BY <1>1, <1>2 DEF WbLce, Holds
<1>4. WbTok(c, "lce", k)
  BY <1>3 DEF WbTok
<1>5. WbInv
  BY DEF Base, SerialInv
<1>6. cceState[c] = "replacement_wb_resp" /\ m.addr = mshr[c].lruBlk
  <2>1. cceState[c] \in {"replacement_wb_resp", "transfer_wb_resp"}
    BY <1>4, <1>5 DEF WbInv, WbWaits
  <2>2. m.addr = WbAddr(c) /\ m.type = WbType(c)
    BY <1>2, <1>3, <1>5 DEF WbInv, WbAsked
  <2>3. QED
    BY <2>1, <2>2 DEF WbAddr, WbType
<1>7. Takes(m)
  BY <1>2 DEF TakeInv, TakeHeld
<1>8. k = mshr[c].lce /\ w = mshr[c].lru
  BY <1>1, <1>2, <1>7 DEF Takes
<1>9. mshr[c].rf
  BY <1>6 DEF Base, SerialInv, MshrInv, MshrFlagsOK
<1>10. s = ReqSet(c)
  <2>1. VictimSet
    BY DEF Base, SerialInv, DirSetInv
  <2>2. QED
    BY <1>2, <1>6, <1>9, <2>1 DEF VictimSet, Decided
<1>11. AtFsm(c) /\ Granting(c)
  BY <1>6 DEF AtFsm, Unsourced, Working, Cached, Granting
<1>12. ~mshr[c].uf
  BY <1>6, <1>9 DEF DirInv, KnownInv, KnownFlags, Decided
<1>13. GrantWay(c) = w
  BY <1>8, <1>12 DEF GrantWay
<1>14. k \in Open(s) /\ miss[k].addr = mshr[c].addr /\ HomeOf[s] = c
  BY <1>8, <1>10, <1>11, FsmHas
<1>15. w = miss[k].lru
  BY <1>8, <1>11 DEF DirInv, KnownInv, Asked
<1>16. Granted(k, mshr[c].addr, w, mshr[c].next)
  BY <1>8, <1>11, <1>13 DEF GrantInv, GrantFsm
<1>17. Copy(k, s, w, miss[k].addr)
  BY <1>10, <1>14, <1>16 DEF Granted, Entered, Copy, FrameOf, ReqSet
<1>18. ~LceCohAck(k)
  BY <1>2 DEF LceCohAck
<1>19. k \in Open(s)' /\ miss'[k] = miss[k]
  BY <1>2, <1>14, <1>18, OpenStays
<1>20. ~Early(s)'
  <2>1. ~Early(s)
    BY <1>6, <1>14 DEF Early
  <2>2. QED
    BY <2>1, EarlyLce
<1>21. tag'[k][<<s, w>>].st = "I"
  BY <1>2 DEF Outcome, TagPut
<1>22. dir' = dir
  BY LceLeaves
<1>23. QED
  BY <1>15, <1>17, <1>19, <1>20, <1>21, <1>22 DEF ToFill, Copy, Tagged

(* TagInv, step of a cache.                                                *)
LEMMA TagLce ==
  ASSUME Base, StartInv, DirInv, TakeInv, GrantInv, TagInv, Acked, NEW k \in LCE, LceStep(k)
  PROVE  TagInv'
<1>1. dir' = dir /\ cceState' = cceState
  BY LceLeaves
<1> SUFFICES ASSUME NEW s \in Set, NEW l \in LCE, NEW w \in Way, InService(HomeOf[s])
             PROVE  Explained(l, s, w)'
  BY <1>1 DEF TagInv, Explained, InService
<1>2. Explained(l, s, w)
  BY DEF TagInv, Explained
<1>3. CASE tag'[l][<<s, w>>] = tag[l][<<s, w>>]
  BY <1>2, <1>3, FrameStays
<1>4. CASE tag'[l][<<s, w>>] # tag[l][<<s, w>>]
  <2>1. l = k
    BY <1>4, LceOthers
  <2>2. ~LceClear(k)
    <3>1. Past(k)
      BY ConstantsAssumption DEF Base, SyncInv
    <3>2. QED
      BY <3>1 DEF LceClear, Past
  <2>3. PICK m, t, v, blk, st : Doing(k, m, t, v) /\ Outcome(k, m, t, v, blk, st)
    BY <1>4, <2>1, <2>2, TagMoves DEF TagMove
  <2>4. t = s /\ v = w
    BY <1>4, <2>1, <2>3 DEF Outcome, TagPut
  <2>5. CASE m.type = "st_wb"
    BY <2>1, <2>3, <2>4, <2>5, VictimGone DEF Explained
  <2>6. CASE m.type # "st_wb"
    BY <1>1, <2>1, <2>3, <2>4, <2>6, Performed DEF Explained
  <2>7. QED
    BY <2>5, <2>6
<1>5. QED
  BY <1>3, <1>4

----------------------------------------------------------------------------
(* A miss asks for a right its cache lacks.                                *)

(* The commands that end a miss.                                           *)
Fresher == {"data", "st_wakeup"}

(* A hit that is there was there before, or a fill or an upgrade made it.  *)
LEMMA HitKept ==
  ASSUME Base, StartInv, TakeInv, GrantInv, TagInv, NEW k \in LCE, LceStep(k), ~Holds(k, Fresher),
         NEW b \in Block, NEW w \in Way, NEW sts \in {Valid, Owned}, Hit(k, b, w, sts)'
  PROVE  Hit(k, b, w, sts)
<1>1. PICK s \in Set : s = SetOf[b] /\ FrameOf(b, w) = <<s, w>>
  BY ConstantsAssumption DEF FrameOf
<1>2. Past(k)' /\ tag'[k][<<s, w>>].blk = b /\ tag'[k][<<s, w>>].st \in sts
  BY <1>1 DEF Hit, Past
<1>3. "I" \notin sts
  BY DEF Valid, Owned
<1>4. ~TagCleared(k)
  BY <1>2, <1>3 DEF TagCleared
<1>5. Past(k)
  BY <1>2, <1>4, PastStep
<1>6. CASE tag'[k][<<s, w>>] = tag[k][<<s, w>>]
  BY <1>1, <1>2, <1>5, <1>6, SMTT(40) DEF Hit, Past
<1>7. CASE tag'[k][<<s, w>>] # tag[k][<<s, w>>]
  <2>1. PICK m, t, v, blk, st : Doing(k, m, t, v) /\ Outcome(k, m, t, v, blk, st)
    BY <1>4, <1>7, TagMoves DEF TagMove
  <2>2. t = s /\ v = w /\ tag'[k][<<s, w>>].blk = blk /\ tag'[k][<<s, w>>].st = st
    BY <1>7, <2>1 DEF Outcome, TagPut
  <2>3. m.type \notin Fresher
    BY <2>1 DEF Doing, Holds
  <2>4. st = "S" /\ tag[k][<<s, w>>].st # "I" /\ blk = tag[k][<<s, w>>].blk
    BY <1>2, <1>3, <2>1, <2>2, <2>3 DEF Outcome, Fresher
  <2>5. tag[k][<<s, w>>].st \in {"S", "E", "M"}
    <3>1. tag \in [LCE -> [Frame -> Line]] /\ <<s, w>> \in Frame
      BY DEF Base, IInv, CacheTypeOK, Frame
    <3>2. tag[k][<<s, w>>] \in Line
      BY <3>1
    <3>3. QED
      BY <2>4, <3>2 DEF Line, CohState
  <2>6. sts = Valid
    BY <1>2, <2>2, <2>4 DEF Valid, Owned
  <2>7. QED
    BY <1>1, <1>2, <1>5, <2>2, <2>4, <2>5, <2>6 DEF Hit, Past, Valid
<1>8. QED
  BY <1>6, <1>7

(* Lacks, step of an engine.                                               *)
LEMMA LacksCce ==
  ASSUME Base, Lacks, NEW c \in CCE, CceStep(c)
  PROVE  Lacks'
<1>1. tag' = tag /\ miss' = miss /\ lceCmd' = lceCmd /\ lceState' = lceState
  BY CceLeaves
<1>2. QED
  BY <1>1 DEF Lacks, Holds, Hit, Needs

(* What a miss that is begun or goes on has asked for.                     *)
LEMMA MissFrom ==
  ASSUME Base, NEW k \in LCE, LceStep(k), miss'[k].phase \in {"send", "sent"}, miss'[k].op # "uc_rd"
  PROVE  \/ /\ miss[k].phase \in {"send", "sent"} /\ ~LceCohAck(k)
            /\ miss'[k].op = miss[k].op /\ miss'[k].addr = miss[k].addr
         \/ /\ tag' = tag /\ lceState' = lceState
            /\ ~Permits(k, miss'[k].addr, Needs(miss'[k].op)) /\ miss'[k].addr \in Block
<1>1. miss \in [LCE -> Miss]
  BY DEF Base, IInv, CoreOK, CoreTypeOK
<1>2. CASE \E b \in Block, op \in CoreOps, w \in Way : CoreMiss(k, b, op, w)
  <2>1. PICK b \in Block, op \in CoreOps, w \in Way : CoreMiss(k, b, op, w)
    BY <1>2
  <2>2. miss'[k] = [phase |-> "send", op |-> MissOp(k, b, op), addr |-> b, lru |-> w]
    BY <1>1, <2>1 DEF CoreMiss
  <2>3. miss'[k].op = MissOp(k, b, op) /\ miss'[k].addr = b
    BY <2>2
  <2>4. ~Permits(k, b, Needs(MissOp(k, b, op)))
    BY <2>1 DEF CoreMiss, MissOp
  <2>5. tag' = tag /\ lceState' = lceState
    BY <2>1 DEF CoreMiss, cacheVars, lceVars
  <2>6. QED
    BY <2>3, <2>4, <2>5
<1>3. CASE \E a \in IoBlock : CoreUcLoad(k, a)
  <2>1. PICK a \in IoBlock : CoreUcLoad(k, a)
    BY <1>3
  <2>2. miss'[k] = [NoMiss EXCEPT !.phase = "send", !.op = "uc_rd", !.addr = a]
    BY <1>1, <2>1 DEF CoreUcLoad
  <2>3. miss'[k].op = "uc_rd"
    BY <2>2 DEF NoMiss
  <2>4. QED
    BY <2>3
<1>4. CASE LceUcData(k) \/ LceCohAck(k)
  <2>1. miss'[k] = IF miss[k].op = "uc_rd" THEN NoMiss ELSE [miss[k] EXCEPT !.phase = "replay"]
    BY <1>1, <1>4 DEF LceUcData, LceCohAck, Complete
  <2>2. miss[k] \in Miss
    BY <1>1
  <2>3. miss'[k].phase \in {"idle", "replay"}
    BY <2>1, <2>2 DEF NoMiss, Miss
  <2>4. QED
    BY <2>3
<1>5. CASE CoreReplay(k) \/ LockExpire(k)
  <2>1. miss'[k] = NoMiss
    BY <1>1, <1>5 DEF CoreReplay, LockExpire
  <2>2. QED
    BY <2>1 DEF NoMiss
<1>6. CASE LceSendReq(k)
  <2>1. miss[k].phase = "send" /\ miss'[k] = [miss[k] EXCEPT !.phase = "sent"]
    BY <1>1, <1>6 DEF LceSendReq
  <2>2. miss'[k].op = miss[k].op /\ miss'[k].addr = miss[k].addr
    BY <1>1, <2>1 DEF Miss
  <2>3. CASE LceCohAck(k)
    BY <1>4, <2>3
  <2>4. QED
    BY <2>1, <2>2, <2>3
<1>7. CASE miss' = miss
  BY <1>4, <1>7
<1>8. QED
  BY <1>2, <1>3, <1>4, <1>5, <1>6, <1>7, MissBy

(* MissBlock, step of an engine.                                           *)
LEMMA MissBlockCce ==
  ASSUME MissBlock, NEW c \in CCE, CceStep(c)
  PROVE  MissBlock'
BY CceLeaves DEF MissBlock

(* MissBlock, step of a cache.                                             *)
LEMMA MissBlockLce ==
  ASSUME Base, MissBlock, NEW k \in LCE, LceStep(k)
  PROVE  MissBlock'
<1> SUFFICES ASSUME NEW l \in LCE, miss'[l].phase \in {"send", "sent"}, miss'[l].op # "uc_rd"
             PROVE  miss'[l].addr \in Block
  BY DEF MissBlock
<1>1. CASE l # k
  BY <1>1, LceOthers DEF MissBlock
<1>2. CASE l = k
  BY <1>2, MissFrom DEF MissBlock
<1>3. QED
  BY <1>1, <1>2

(* A cache holds the command that ends its miss until it has acknowledged  *)
(* it.                                                                     *)
LEMMA FreshHeld ==
  ASSUME Base, NEW k \in LCE, LceStep(k), Holds(k, Fresher), ~LceCohAck(k)
  PROVE  Holds(k, Fresher)'
<1>1. PICK m : m = lceCmd[k] /\ m # None /\ m.type \in Fresher
  BY DEF Holds
<1>2. lceState[k] \in {"reset", "clear", "ready", "coh_ack"}
  BY <1>1 DEF Base, IInv, LceOK, CmdWF, Holds, Fresher, LceTypeOK, LceCmdStates
<1>3. lceCmd' = lceCmd
  BY <1>1, <1>2, LceCmdBy
  DEF LceHead, LceSync, LceInv, LceUcStDone, LceUcData, LceTr, LceWb, LceWbDirtySend, Holds,
    Executes, Fresher
<1>4. QED
  BY <1>1, <1>3 DEF Holds

(* Lacks, step of a cache: only the command that ends a miss gives the     *)
(* right the miss asks for.                                                *)
LEMMA LacksLce ==
  ASSUME Base, StartInv, TakeInv, GrantInv, TagInv, Lacks, MissBlock, NEW k \in LCE, LceStep(k)
  PROVE  Lacks'
<1> SUFFICES ASSUME NEW l \in LCE, miss'[l].phase \in {"send", "sent"}, miss'[l].op # "uc_rd",
                    ~Holds(l, Fresher)', NEW w \in Way, Hit(l, miss[l].addr, w, Needs(miss[l].op))'
             PROVE  FALSE
  BY DEF Lacks, Fresher
<1>1. CASE l # k
  <2>1. miss'[l] = miss[l] /\ tag'[l] = tag[l] /\ lceCmd'[l] = lceCmd[l] /\ lceState'[l] = lceState[l]
    BY <1>1, LceOthers
  <2>2. ~Holds(l, Fresher) /\ Hit(l, miss[l].addr, w, Needs(miss[l].op))
    BY <2>1 DEF Holds, Hit, Needs
  <2>3. QED
    BY <2>1, <2>2 DEF Lacks, Fresher
<1>2. CASE l = k
  <2>1. PICK b, op : b = miss'[k].addr /\ op = miss'[k].op
    OBVIOUS
  <2>2. Hit(k, b, w, Needs(op))'
    BY <1>2, <2>1 DEF Hit, Needs
  <2>3. CASE tag' = tag /\ lceState' = lceState /\ ~Permits(k, b, Needs(op))
    BY <2>2, <2>3 DEF Hit, Permits, Needs
  <2>4. CASE /\ miss[k].phase \in {"send", "sent"} /\ ~LceCohAck(k)
             /\ miss[k].op = op /\ miss[k].addr = b
    <3>1. ~Holds(k, Fresher)
      BY <1>2, <2>4, FreshHeld
    <3>2. PICK bb \in Block : bb = b
      BY <1>2, <2>1, <2>4 DEF MissBlock
    <3>3. Needs(op) \in {Valid, Owned} /\ Needs(op)' = Needs(op)
      BY DEF Needs
    <3>4. Hit(k, bb, w, Needs(op))
      BY <2>2, <3>1, <3>2, <3>3, HitKept
    <3>5. QED
      BY <1>2, <2>1, <2>4, <3>1, <3>2, <3>4 DEF Lacks, Fresher
  <2>5. QED
    BY <1>2, <2>1, <2>3, <2>4, MissFrom
<1>3. QED
  BY <1>1, <1>2

----------------------------------------------------------------------------
(* The tags: one owner.                                                    *)

(* Acked, step of an engine.                                               *)
LEMMA AckedCce ==
  ASSUME Base, StartInv, Acked, NEW c \in CCE, CceStep(c)
  PROVE  Acked'
<1>1. tag' = tag /\ lceCmd' = lceCmd /\ lceState' = lceState
  BY CceLeaves
<1> SUFFICES ASSUME NEW l \in LCE, lceState[l] = "coh_ack"
             PROVE  dir'[l][CmdFrame(l)] = dir[l][CmdFrame(l)]
  BY <1>1 DEF Acked, CmdFrame
<1>2. PICK b \in Block, w \in Way : CmdFrame(l) = <<SetOf[b], w>> /\ Tok("lce", l, 0, l, b, "cached")
  BY AckToken
<1>3. DirSame(SetOf[b])
  BY <1>2, DirQuiet DEF StartInv
<1>4. QED
  BY <1>2, <1>3 DEF DirSame

(* Acked, step of a cache.                                                 *)
LEMMA AckedLce ==
  ASSUME Base, StartInv, TakeInv, GrantInv, TagInv, Acked, NEW k \in LCE, LceStep(k)
  PROVE  Acked'
<1>1. dir' = dir
  BY LceLeaves
<1>2. lceCmd \in [LCE -> Command \cup {None}] /\ lceState \in [LCE -> LceCmdStates]
  BY DEF Base, IInv, LceOK, LceTypeOK
<1> SUFFICES ASSUME NEW l \in LCE, lceState'[l] = "coh_ack", NEW f, f = CmdFrame(l)'
             PROVE  tag'[l][f].st = dir[l][f].st /\ tag'[l][f].blk = dir[l][f].blk
  BY <1>1 DEF Acked, CmdFrame
<1>3. CASE l # k
  <2>1. tag'[l] = tag[l] /\ lceCmd'[l] = lceCmd[l] /\ lceState'[l] = lceState[l]
    BY <1>3, LceOthers
  <2>2. f = CmdFrame(l)
    BY <2>1 DEF CmdFrame
  <2>3. QED
    BY <2>1, <2>2 DEF Acked
<1>4. CASE l = k /\ lceState[k] = "coh_ack"
  <2>1. ~LceCohAck(k)
    BY <1>2, <1>4 DEF LceCohAck, LceGoto
  <2>2. lceCmd' = lceCmd
    BY <1>4, <2>1, LceCmdBy
    DEF LceHead, LceSync, LceInv, LceUcStDone, LceUcData, LceTr, LceWb, LceWbDirtySend, Executes
  <2>3. tag' = tag
    BY <1>4, TagBy DEF LceClear, LceInv, LceData, LceStWakeup, LceStWb, LceStTr, LceTagOnly, Executes
  <2>4. f = CmdFrame(k)
    BY <1>4, <2>2 DEF CmdFrame
  <2>5. QED
    BY <1>4, <2>3, <2>4 DEF Acked
<1>5. CASE l = k /\ lceState[k] # "coh_ack"
  <2>1. LceData(k) \/ LceStWakeup(k)
    BY <1>2, <1>5, LceStateBy
    DEF LceReset, LceClear, LceStWb, LceStTr, LceCohAck, LceTr, LceWbStatRd, LceWb, LceWbDirtyRd,
      LceWbDirtySend, LceGoto
  <2>2. Executes(k, {"inv", "st_wb", "st_tr", "st_tr_wb", "st_wakeup", "data"})
    BY <2>1 DEF LceData, LceStWakeup, Executes, Holds
  <2>3. PICK m, s, w : Doing(k, m, s, w) /\ m = lceCmd[k] /\ CmdFrame(k) = <<s, w>>
    BY <2>2, ExecutesDoing
  <2>4. s \in Set /\ w \in Way /\ m.type \in {"data", "st_wakeup"}
    BY <2>1, <2>3 DEF Doing, LceData, LceStWakeup, Executes, Holds
  <2>5. Does(k, m, s, w)
    <3>1. CASE LceData(k)
      <4>1. SetTag(k) /\ m.type = "data"
        BY <2>3, <3>1 DEF LceData, Executes, Holds
      <4>2. TagPut(k, s, w, m.addr, m.st)
        BY <2>3, <2>4, <4>1, PutTagIs
      <4>3. QED
        BY <4>1, <4>2 DEF Does
    <3>2. CASE LceStWakeup(k)
      <4>1. SetState(k, m.st) /\ m.type = "st_wakeup"
        BY <2>3, <3>2 DEF LceStWakeup, Executes, Holds
      <4>2. TagPut(k, s, w, tag[k][<<s, w>>].blk, m.st)
        BY <2>3, <2>4, <4>1, SetIs
      <4>3. QED
        BY <4>1, <4>2 DEF Does
    <3>3. QED
      BY <2>1, <3>1, <3>2
  <2>6. PICK blk, st : Outcome(k, m, s, w, blk, st)
    BY <2>3, <2>5, TagOutcome
  <2>7. st = dir[k][<<s, w>>].st /\ blk = dir[k][<<s, w>>].blk
    BY <2>4, <2>6 DEF Outcome
  <2>8. tag'[k][<<s, w>>].st = st /\ tag'[k][<<s, w>>].blk = blk
    BY <2>4, <2>6 DEF Outcome, TagPut
  <2>9. lceCmd' = lceCmd
    BY <2>1 DEF LceData, LceStWakeup
  <2>10. f = <<s, w>>
    BY <1>5, <2>3, <2>9 DEF CmdFrame
  <2>11. QED
    BY <1>5, <2>7, <2>8, <2>10
<1>6. QED
  BY <1>3, <1>4, <1>5

(* TagSet, step of a cache.                                                *)
LEMMA TagSetLce ==
  ASSUME Base, StartInv, TakeInv, GrantInv, TagInv, TagSet, NEW k \in LCE, LceStep(k)
  PROVE  TagSet'
<1> SUFFICES ASSUME NEW s \in Set, NEW l \in LCE, NEW w \in Way, Past(l)', tag'[l][<<s, w>>].st # "I"
             PROVE  SetOf[tag'[l][<<s, w>>].blk] = s
  BY DEF TagSet
<1>1. CASE l # k
  <2>1. tag'[l] = tag[l] /\ lceState'[l] = lceState[l]
    BY <1>1, LceOthers
  <2>2. QED
    BY <2>1 DEF TagSet, Past
<1>2. CASE l = k
  <2>1. ~TagCleared(k)
    BY <1>2 DEF TagCleared
  <2>2. Past(k)
    BY <1>2, <2>1, PastStep
  <2>3. CASE tag'[k][<<s, w>>] = tag[k][<<s, w>>]
    BY <1>2, <2>2, <2>3 DEF TagSet
  <2>4. CASE tag'[k][<<s, w>>] # tag[k][<<s, w>>]
    <3>1. PICK m, t, v, blk, st : Doing(k, m, t, v) /\ Outcome(k, m, t, v, blk, st)
      BY <2>1, <2>4, TagMoves DEF TagMove
    <3>2. t = s /\ v = w /\ tag'[k][<<s, w>>].blk = blk /\ tag'[k][<<s, w>>].st = st
      BY <2>4, <3>1 DEF Outcome, TagPut
    <3>3. QED
      BY <1>2, <3>1, <3>2 DEF Outcome, Doing
  <2>5. QED
    BY <2>3, <2>4
<1>3. QED
  BY <1>1, <1>2

(* A copy that a fill or an upgrade has brought is the only one if it may  *)
(* be written.                                                             *)
LEMMA ArrivedAlone ==
  ASSUME Base, StartInv, DirInv, TakeInv, GrantInv, TagInv, NEW k \in LCE, NEW m, NEW s, NEW w,
         NEW blk, NEW st, Doing(k, m, s, w), Outcome(k, m, s, w, blk, st), m.type \in Fresher,
         NEW l \in LCE, l # k, NEW v \in Way, Tagged(l, s, v, blk)
  PROVE  st \notin Owned /\ tag[l][<<s, v>>].st \notin Owned
<1>1. s \in Set /\ w \in Way /\ m = lceCmd[k] /\ m # None /\ lceState[k] = "ready" /\ s = SetOf[m.addr]
      /\ m.addr \in Block
  BY DEF Doing
<1>2. Tok("lce", k, 0, k, m.addr, "cached") /\ k \in Open(s)
  BY DoingOpen DEF Fresher
<1>3. Holds(k, {"data", "st_wakeup"}) /\ lceState[k] \notin Passed
  BY <1>1 DEF Holds, Fresher, Passed
<1>4. Same(l, s, v)
  BY <1>1, <1>3, TagsSettled
<1>5. Copy(l, s, v, blk) /\ dir[l][<<s, v>>].st = tag[l][<<s, v>>].st
  BY <1>4 DEF Same, Tagged, Copy
<1>6. st # "I" /\ Copy(k, s, w, blk) /\ st = dir[k][<<s, w>>].st
  BY DEF Outcome, Fresher, Copy
<1>7. Cleared(HomeOf[s])
  BY <1>1, <1>2, OpenServed DEF StartInv
<1>8. ASSUME NEW j, NEW u
      PROVE  ~Fresh(s, j, u)
  <2> SUFFICES ASSUME Fresh(s, j, u) PROVE FALSE
    OBVIOUS
  <2>1. PICK d \in CCE : d = HomeOf[s]
    BY <1>1, ConstantsAssumption
  <2>2. AtFsm(d) /\ ReqSet(d) = s
    BY <2>1 DEF Fresh, Serving, AtFsm, Unsourced, Working, Cached
  <2>3. QED
    BY <1>1, <1>2, <2>2, FsmNot
<1>9. DirOwner
  BY DEF DirInv
<1>10. QED
  BY <1>1, <1>5, <1>6, <1>7, <1>8, <1>9 DEF DirOwner

(* TagOwner, step of a cache: the block that arrives finds no owner        *)
(* elsewhere.                                                              *)
LEMMA TagOwnerLce ==
  ASSUME Base, StartInv, DirInv, TakeInv, GrantInv, TagInv, TagOwner, NEW j \in LCE, LceStep(j)
  PROVE  TagOwner'
<1> SUFFICES ASSUME NEW s \in Set, NEW l \in LCE, NEW k \in LCE, NEW w \in Way, NEW v \in Way, NEW b,
                    Past(l)', Past(k)', Tagged(l, s, w, b)', Tagged(k, s, v, b)',
                    tag'[l][<<s, w>>].st \in Owned, l # k
             PROVE  FALSE
  BY DEF TagOwner
<1>1. tag'[l][<<s, w>>].blk = b /\ tag'[l][<<s, w>>].st # "I"
      /\ tag'[k][<<s, v>>].blk = b /\ tag'[k][<<s, v>>].st # "I"
  BY DEF Tagged
<1>2. Past(l) /\ Past(k) /\ ~(TagCleared(j) /\ j \in {l, k})
  <2>1. ~(TagCleared(j) /\ j \in {l, k})
    BY <1>1 DEF TagCleared
  <2>2. \A i \in LCE : i # j => (Past(i)' <=> Past(i))
    BY LceOthers DEF Past
  <2>3. Past(j)' /\ ~Past(j) => TagCleared(j)
    BY PastStep
  <2>4. QED
    BY <2>1, <2>2, <2>3
<1>3. CASE tag'[l][<<s, w>>] = tag[l][<<s, w>>] /\ tag'[k][<<s, v>>] = tag[k][<<s, v>>]
  BY <1>1, <1>2, <1>3 DEF TagOwner, Tagged
<1>4. CASE tag'[l][<<s, w>>] # tag[l][<<s, w>>]
  <2>1. l = j
    BY <1>4, LceOthers
  <2>2. PICK m, t, u, blk, st : Doing(j, m, t, u) /\ Outcome(j, m, t, u, blk, st)
    BY <1>2, <1>4, <2>1, TagMoves DEF TagMove
  <2>3. t = s /\ u = w /\ b = blk /\ st = tag'[l][<<s, w>>].st
    BY <1>1, <1>4, <2>1, <2>2 DEF Outcome, TagPut
  <2>4. m.type \in Fresher
    BY <1>1, <2>2, <2>3 DEF Outcome, Fresher, Owned
  <2>5. tag'[k] = tag[k]
    BY <2>1, LceOthers
  <2>6. Tagged(k, s, v, blk)
    BY <1>1, <2>3, <2>5 DEF Tagged
  <2>7. st \notin Owned
    BY <2>1, <2>2, <2>3, <2>4, <2>6, ArrivedAlone
  <2>8. QED
    BY <2>3, <2>7
<1>5. CASE tag'[k][<<s, v>>] # tag[k][<<s, v>>]
  <2>1. k = j
    BY <1>5, LceOthers
  <2>2. PICK m, t, u, blk, st : Doing(j, m, t, u) /\ Outcome(j, m, t, u, blk, st)
    BY <1>2, <1>5, <2>1, TagMoves DEF TagMove
  <2>3. t = s /\ u = v /\ b = blk /\ st = tag'[k][<<s, v>>].st
    BY <1>1, <1>5, <2>1, <2>2 DEF Outcome, TagPut
  <2>4. tag'[l] = tag[l]
    BY <2>1, LceOthers
  <2>5. Tagged(l, s, w, blk) /\ tag[l][<<s, w>>].st \in Owned
    BY <1>1, <2>3, <2>4 DEF Tagged
  <2>6. CASE m.type \in Fresher
    <3>1. tag[l][<<s, w>>].st \notin Owned
      BY <2>1, <2>2, <2>3, <2>5, <2>6, ArrivedAlone
    <3>2. QED
      BY <2>5, <3>1
  <2>7. CASE m.type \notin Fresher
    <3>1. blk = tag[k][<<s, v>>].blk /\ tag[k][<<s, v>>].st # "I"
      BY <1>1, <2>1, <2>2, <2>3, <2>7 DEF Outcome, Fresher
    <3>2. Tagged(k, s, v, blk)
      BY <3>1 DEF Tagged
    <3>3. QED
      BY <1>2, <2>5, <3>2 DEF TagOwner
  <2>8. QED
    BY <2>6, <2>7
<1>6. QED
  BY <1>3, <1>4, <1>5

----------------------------------------------------------------------------
(* The invariant and what follows from it.                                 *)

(* CohInv holds at reset.                                                  *)
LEMMA CohInit ==
  ASSUME Init
  PROVE  CohInv
<1>1. /\ cceState = [c \in CCE |-> "reset"] /\ lceState = [l \in LCE |-> "reset"]
      /\ miss = [l \in LCE |-> NoMiss] /\ memResp = [c \in CCE |-> <<>>]
      /\ lceCmd = [l \in LCE |-> None] /\ cmdNet = {} /\ pending = [s \in Set |-> 0]
  BY DEF Init, CceInit, LceInit
<1>2. \A s \in Set : HomeOf[s] \in CCE /\ ~InService(HomeOf[s]) /\ ~Cleared(HomeOf[s])
  BY <1>1, ConstantsAssumption DEF InService, Cleared
<1>3. \A l \in LCE : ~Past(l) /\ miss[l].phase = "idle"
  BY <1>1 DEF Past, NoMiss
<1>4. StartInv
  BY <1>1, <1>2, <1>3 DEF StartInv, PendStart, StartDir, StartTag
<1>5. DirInv
  <2>1. DirOne /\ DirOwner
    BY <1>2 DEF DirOne, DirOwner
  <2>2. KnownInv
    BY <1>1 DEF KnownInv, KnownSharers, KnownOwner, KnownNoOwner, KnownLeft, KnownFlags, KnownMine,
      Asked, AtFsm, Unsourced, Working, Cached, Deciding, Decided
  <2>3. QED
    BY <2>1, <2>2 DEF DirInv
<1>6. GrantInv
  <2>1. GrantFsm
    BY <1>1 DEF GrantFsm, Granting
  <2>2. GrantMem
    BY <1>1 DEF GrantMem, MemTok
  <2>3. GrantCmd /\ GrantHeld
    BY <1>1 DEF GrantCmd, GrantHeld
  <2>4. QED
    BY <2>1, <2>2, <2>3 DEF GrantInv
<1>7. TakeInv
  BY <1>1 DEF TakeInv, TakeCmd, TakeHeld
<1>8. TagInv
  BY <1>2 DEF TagInv
<1>9. Lacks /\ MissBlock
  BY <1>3 DEF Lacks, MissBlock
<1>10. Acked
  BY <1>1 DEF Acked
<1>11. TagSet /\ TagOwner
  BY <1>3 DEF TagSet, TagOwner
<1>12. QED
  BY <1>4, <1>5, <1>6, <1>7, <1>8, <1>9, <1>10, <1>11 DEF CohInv

(* CohInv, step of an engine.                                              *)
LEMMA CohCce ==
  ASSUME Base, Base', CohInv, NEW c \in CCE, CceStep(c)
  PROVE  CohInv'
<1>1. /\ StartInv /\ DirInv /\ GrantInv /\ TakeInv /\ TagInv /\ MissBlock /\ Lacks /\ Acked
      /\ TagSet /\ TagOwner
  BY DEF CohInv
<1>2. StartInv'
  BY <1>1, StartCce
<1>3. DirInv'
  BY <1>1, DirCce
<1>4. GrantInv'
  BY <1>1, GrantCce
<1>5. TakeInv'
  BY <1>1, TakeCce
<1>6. TagInv'
  BY <1>1, TagCce
<1>7. MissBlock'
  BY <1>1, MissBlockCce
<1>8. Lacks'
  BY <1>1, LacksCce
<1>9. Acked'
  BY <1>1, AckedCce
<1>10. TagSet' /\ TagOwner'
  <2>1. tag' = tag /\ lceState' = lceState
    BY CceLeaves
  <2>2. QED
    BY <1>1, <2>1 DEF TagSet, TagOwner, Tagged, Past
<1>11. QED
  BY <1>2, <1>3, <1>4, <1>5, <1>6, <1>7, <1>8, <1>9, <1>10 DEF CohInv

(* CohInv, step of a cache.                                                *)
LEMMA CohLce ==
  ASSUME Base, CohInv, NEW l \in LCE, LceStep(l)
  PROVE  CohInv'
<1>1. /\ StartInv /\ DirInv /\ GrantInv /\ TakeInv /\ TagInv /\ MissBlock /\ Lacks /\ Acked
      /\ TagSet /\ TagOwner
  BY DEF CohInv
<1>2. StartInv'
  BY <1>1, StartLce
<1>3. DirInv'
  BY <1>1, DirLce
<1>4. GrantInv'
  BY <1>1, GrantLce
<1>5. TakeInv'
  BY <1>1, TakeLce
<1>6. TagInv'
  BY <1>1, TagLce
<1>7. MissBlock'
  BY <1>1, MissBlockLce
<1>8. Lacks'
  BY <1>1, LacksLce
<1>9. Acked'
  BY <1>1, AckedLce
<1>10. TagSet'
  BY <1>1, TagSetLce
<1>11. TagOwner'
  BY <1>1, TagOwnerLce
<1>12. QED
  BY <1>2, <1>3, <1>4, <1>5, <1>6, <1>7, <1>8, <1>9, <1>10, <1>11 DEF CohInv

(* CohInv, when nothing changes.                                           *)
LEMMA CohStutter ==
  ASSUME CohInv, UNCHANGED vars
  PROVE  CohInv'
<1>1. UNCHANGED <<cceState, mshr, sharers, toInv, memResp, dir, pending, specBits, lceState, lceCmd,
                  miss, tag, cmdNet, reqNet>>
  BY DEF vars, cceVars, dirVars, memVars, cacheVars, lceVars, coreVars, netVars
<1>2. StartInv'
  BY <1>1 DEF CohInv, StartInv, PendStart, StartDir, StartTag, InService, Cleared, Past
<1>3. DirInv'
  <2>1. DirOne' /\ DirOwner'
    BY <1>1, SMTT(40) DEF CohInv, DirInv, DirOne, DirOwner, Copy, Cleared, Fresh, Serving,
      ReqSet, GrantWay
  <2>2. (KnownSharers /\ KnownOwner /\ KnownNoOwner /\ KnownLeft)'
    BY <1>1, SMTT(40) DEF CohInv, DirInv, KnownInv, KnownSharers, KnownOwner, KnownNoOwner,
      KnownLeft,
      OtherCopy, Copy, ReqSet
  <2>3. (KnownFlags /\ KnownMine /\ Asked)'
    BY <1>1 DEF CohInv, DirInv, KnownInv, KnownFlags, KnownMine, Asked, Copy, ReqSet, AtFsm
  <2>4. QED
    BY <2>1, <2>2, <2>3 DEF DirInv, KnownInv
<1>4. GrantInv'
  <2>1. GrantFsm'
    BY <1>1, SMTT(40) DEF CohInv, GrantInv, GrantFsm, Granting, Granted, Entered, GrantWay, ReqSet
  <2>2. GrantMem'
    BY <1>1, SMTT(40) DEF CohInv, GrantInv, GrantMem, MemTok, Released, Granted, Entered, MemState
  <2>3. (GrantCmd /\ GrantHeld)'
    BY <1>1 DEF CohInv, GrantInv, GrantCmd, GrantHeld, Grants, Granted, Entered
  <2>4. QED
    BY <2>1, <2>2, <2>3 DEF GrantInv
<1>5. TakeInv'
  BY <1>1 DEF CohInv, TakeInv, TakeCmd, TakeHeld, Takes, Entered, ReqSet
<1>6. TagInv'
  BY <1>1 DEF CohInv, TagInv, InService, Same, ToFill, ToUpgrade, ToInvalidate, ToGive, Early, Serving,
    ReqSet, Open, Copy, Tagged, Coming, Arrives
<1>7. (MissBlock /\ Lacks /\ Acked /\ TagSet /\ TagOwner)'
  BY <1>1 DEF CohInv, MissBlock, Lacks, Holds, Hit, Needs, Acked, CmdFrame, TagSet, TagOwner, Tagged, Past
<1>8. QED
  BY <1>2, <1>3, <1>4, <1>5, <1>6, <1>7 DEF CohInv

(* The invariants together are an invariant of the system.                 *)
THEOREM Coherent == Spec => [](Base /\ CohInv)
<1>1. Init => CohInv
  BY CohInit
<1>2. Base /\ Base' /\ CohInv /\ [Next]_vars => CohInv'
  <2> SUFFICES ASSUME Base, Base', CohInv, [Next]_vars PROVE CohInv'
    OBVIOUS
  <2>1. CASE \E c \in CCE : CceStep(c)
    BY <2>1, CohCce
  <2>2. CASE \E l \in LCE : LceStep(l)
    BY <2>2, CohLce
  <2>3. CASE UNCHANGED vars
    BY <2>3, CohStutter
  <2>4. QED
    BY <2>1, <2>2, <2>3 DEF Next
<1>3. Spec => []Base
  <2>1. IInv /\ SerialInv /\ CountInv /\ SyncInv <=> Base
    BY DEF Base
  <2>2. QED
    BY <2>1, InvCount, SyncInvariant, PTL
<1>4. QED
  BY <1>1, <1>2, <1>3, PTL DEF Spec

(* SingleWriter: while a cache may write a block, or has it exclusively,   *)
(* no other cache has it in a readable state (tag memories of bp_lce,      *)
(* states sent by bp_cce_fsm).                                             *)
THEOREM SingleWriterHolds == Spec => []SingleWriter
<1>1. Base /\ CohInv => SingleWriter
  <2> SUFFICES ASSUME Base, CohInv, NEW b \in Block, NEW l \in LCE, NEW k \in LCE, l # k,
                      Permits(l, b, Owned), Permits(k, b, Valid)
               PROVE  FALSE
    BY DEF SingleWriter
  <2>1. PICK w \in Way, v \in Way : Hit(l, b, w, Owned) /\ Hit(k, b, v, Valid)
    BY DEF Permits
  <2>2. PICK s \in Set : s = SetOf[b]
    BY ConstantsAssumption
  <2>3. Past(l) /\ Tagged(l, s, w, b) /\ tag[l][<<s, w>>].st \in Owned
    BY <2>1, <2>2 DEF Hit, Past, Tagged, FrameOf, Owned
  <2>4. Past(k) /\ Tagged(k, s, v, b)
    BY <2>1, <2>2 DEF Hit, Past, Tagged, FrameOf, Valid
  <2>5. QED
    BY <2>3, <2>4 DEF CohInv, TagOwner
<1>2. QED
  BY <1>1, Coherent, PTL

(* DirectoryExact: a way group with no request under way has in the        *)
(* directory of bp_cce_dir exactly what the tags of the caches have.       *)
THEOREM DirectoryIsExact == Spec => []DirectoryExact
<1>1. Base /\ CohInv => DirectoryExact
  <2> SUFFICES ASSUME Base, CohInv, NEW s \in Set, NEW l \in LCE, NEW w \in Way, AtRest(s),
                      tag[l][<<s, w>>].st # "I" \/ dir[l][<<s, w>>].st # "I"
               PROVE  tag[l][<<s, w>>] = dir[l][<<s, w>>]
    BY DEF DirectoryExact
  <2>1. InService(HomeOf[s]) /\ pending[s] = 0
    BY DEF AtRest
  <2>2. Open(s) = {}
    BY <2>1, OpenOne
  <2>3. TakeInv /\ GrantInv /\ TagInv
    BY DEF CohInv
  <2>4. Same(l, s, w)
    BY <2>1, <2>2, <2>3, RestSettled
  <2>5. tag[l][<<s, w>>].st = dir[l][<<s, w>>].st /\ tag[l][<<s, w>>].blk = dir[l][<<s, w>>].blk
    BY <2>4 DEF Same
  <2>6. tag[l][<<s, w>>] \in Line /\ dir[l][<<s, w>>] \in Line
    <3>1. tag \in [LCE -> [Frame -> Line]] /\ dir \in [LCE -> [Frame -> Line]] /\ <<s, w>> \in Frame
      BY DEF Base, IInv, CacheTypeOK, DirTypeOK, Frame
    <3>2. QED
      BY <3>1
  <2>7. QED
    BY <2>5, <2>6 DEF Line
<1>2. QED
  BY <1>1, Coherent, PTL
=============================================================================
