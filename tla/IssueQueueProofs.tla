------------------------- MODULE IssueQueueProofs -------------------------
(***************************************************************************)
(* The issue queue is safe for every size and every kind of entry.         *)
(***************************************************************************)
EXTENDS IssueQueue, SequenceTheorems, TLAPS

(* PointersOrdered is inductive by itself; HeadDecoded needs it, to know    *)
(* that the entry written in a cycle is not the one at the head, and the   *)
(* agreement of the two memories.                                          *)
IInv == TypeOK /\ PointersOrdered /\ MemoriesAgree /\ HeadDecoded

(* Wrapping keeps a pointer in range.                                      *)
LEMMA WrapInRange ==
  ASSUME NEW x \in Int, -2 * Els <= x, x < 4 * Els
  PROVE  Wrap(x) \in Ptr
BY ElsAssumption DEF Wrap, Ptr

(* An index never leaves the memories.                                     *)
LEMMA IdxInRange ==
  ASSUME NEW p \in Ptr
  PROVE  Idx(p) \in 0 .. Els - 1
BY ElsAssumption DEF Idx, Ptr

(* The buffer starts empty, with every pointer at zero.                    *)
LEMMA InitInv == Init => IInv
BY ElsAssumption
   DEF Init, IInv, TypeOK, PointersOrdered, MemoriesAgree, HeadDecoded, Ptr,
       Dist, Wrap, Empty

(* Where the pointers are after a cycle, by cases on what it does.         *)
LEMMA PointersStep ==
  ASSUME TypeOK, PointersOrdered,
         NEW v \in BOOLEAN, NEW in \in Entry, NEW deq \in BOOLEAN,
         NEW read \in BOOLEAN, NEW roll \in BOOLEAN, NEW clr \in BOOLEAN,
         CommitIssued(deq), Cycle(v, in, deq, read, roll, clr)
  PROVE  /\ wptr' \in Ptr /\ rptr' \in Ptr /\ cptr' \in Ptr
         /\ PointersOrdered'
<1>. USE ElsAssumption DEF TypeOK, Ptr, Wrap, Dist, Bit
<1>1. cptr' \in Ptr /\ rptr' \in Ptr
  BY DEF Cycle, RptrJump
<1>2. wptr' \in Ptr
  BY DEF Cycle, WptrJump
<1>3. PointersOrdered'
  BY DEF Cycle, RptrJump, WptrJump, PointersOrdered, CommitIssued, Empty, Full,
         Idx
<1>4. QED
  BY <1>1, <1>2, <1>3

(* The memories are written together.                                      *)
LEMMA MemoriesStep ==
  ASSUME IInv,
         NEW v \in BOOLEAN, NEW in \in Entry, NEW deq \in BOOLEAN,
         NEW read \in BOOLEAN, NEW roll \in BOOLEAN, NEW clr \in BOOLEAN,
         Cycle(v, in, deq, read, roll, clr)
  PROVE  /\ fifo' \in [0 .. Els - 1 -> Entry \cup {NoEntry}]
         /\ regs' \in [0 .. Els - 1 -> Entry \cup {NoEntry}]
         /\ MemoriesAgree'
<1>1. Idx(wptr) \in 0 .. Els - 1
  BY IdxInRange DEF IInv, TypeOK
<1>2. QED
  BY <1>1 DEF Cycle, IInv, TypeOK, MemoriesAgree

(* The packet registered is the one the read pointer moves to.             *)
LEMMA HeadStep ==
  ASSUME IInv,
         NEW v \in BOOLEAN, NEW in \in Entry, NEW deq \in BOOLEAN,
         NEW read \in BOOLEAN, NEW roll \in BOOLEAN, NEW clr \in BOOLEAN,
         CommitIssued(deq), Cycle(v, in, deq, read, roll, clr)
  PROVE  HeadDecoded' /\ pkt' \in Entry \cup {NoEntry}
<1>. DEFINE enq == v /\ ~clr /\ ~Full
            issueV == (read /\ rptr' # wptr') \/ roll \/ (v /\ Empty)
<1>1. /\ wptr \in Ptr /\ rptr \in Ptr /\ cptr \in Ptr
      /\ wptr' \in Ptr /\ rptr' \in Ptr /\ cptr' \in Ptr
      /\ PointersOrdered /\ PointersOrdered'
  BY PointersStep DEF IInv, TypeOK
<1>2. /\ Idx(wptr) \in 0 .. Els - 1 /\ Idx(rptr) \in 0 .. Els - 1
      /\ Idx(rptr') \in 0 .. Els - 1
  BY <1>1, IdxInRange
<1>3. /\ fifo' = IF enq THEN [fifo EXCEPT ![Idx(wptr)] = in] ELSE fifo
      /\ pkt' = IF issueV THEN Preissue(rptr', in) ELSE pkt
  BY DEF Cycle
<1>4. pkt' \in Entry \cup {NoEntry}
  BY <1>2, <1>3 DEF Preissue, IInv, TypeOK
<1>5. ASSUME rptr' # wptr'
      PROVE  pkt' = fifo'[Idx(rptr')]
  <2>1. CASE wptr = rptr'
    <3>1. enq
      <4>1. CASE clr /\ roll
        <5>1. rptr' = Wrap(cptr + Bit(deq)) /\ wptr' = rptr
          BY <1>1, <4>1, ElsAssumption
             DEF Cycle, RptrJump, WptrJump, Wrap, Ptr, Bit
        <5>2. wptr # rptr /\ wptr = Wrap(cptr + Bit(deq))
          BY <1>5, <2>1, <5>1
        <5>3. QED
          BY <1>1, <5>2, ElsAssumption
             DEF Wrap, Ptr, Bit, PointersOrdered, Dist, CommitIssued
      <4>2. CASE clr /\ ~roll
        BY <1>1, <1>5, <4>2, ElsAssumption
           DEF Cycle, RptrJump, WptrJump, Wrap, Ptr, Bit
      <4>3. CASE ~clr
        BY <1>1, <1>5, <2>1, <4>3, ElsAssumption
           DEF Cycle, WptrJump, Wrap, Ptr, Bit
      <4>4. QED
        BY <4>1, <4>2, <4>3
    <3>2. issueV
      BY <1>1, <1>5, <2>1, <3>1, ElsAssumption
         DEF Cycle, RptrJump, WptrJump, Wrap, Ptr, Bit, Empty
    <3>3. QED
      BY <1>2, <1>3, <2>1, <3>1, <3>2 DEF Preissue, IInv, TypeOK
  <2>2. CASE wptr # rptr'
    <3>1. fifo'[Idx(rptr')] = fifo[Idx(rptr')]
      <4>1. CASE ~enq
        BY <1>3, <4>1
      <4>2. CASE enq
        <5>1. Idx(rptr') # Idx(wptr)
          BY <1>1, <1>5, <2>2, <4>2, ElsAssumption
             DEF Cycle, RptrJump, WptrJump, Wrap, Ptr, Bit, PointersOrdered,
                 Dist, Full, Idx, CommitIssued, Empty
        <5>2. QED
          BY <1>2, <1>3, <5>1 DEF IInv, TypeOK
      <4>3. QED
        BY <4>1, <4>2
    <3>2. CASE issueV
      BY <1>2, <1>3, <2>2, <3>1, <3>2 DEF Preissue, IInv, MemoriesAgree
    <3>3. CASE ~issueV
      <4>1. rptr' = rptr /\ ~Empty
        BY <1>1, <1>5, <2>2, <3>3, ElsAssumption
           DEF Cycle, RptrJump, WptrJump, Wrap, Ptr, Bit, Empty,
               PointersOrdered, Dist
      <4>2. QED
        BY <1>3, <3>1, <3>3, <4>1 DEF IInv, HeadDecoded
    <3>4. QED
      BY <3>2, <3>3
  <2>3. QED
    BY <2>1, <2>2
<1>6. QED
  BY <1>4, <1>5 DEF HeadDecoded, Empty

(* Every cycle preserves the invariant.                                    *)
LEMMA NextInv == IInv /\ [Next]_vars => IInv'
<1>. SUFFICES ASSUME IInv, [Next]_vars PROVE IInv'
  OBVIOUS
<1>1. CASE Next
  <2>1. PICK v \in BOOLEAN, deq \in BOOLEAN, read \in BOOLEAN,
             roll \in BOOLEAN, clr \in BOOLEAN, in \in Entry :
          CommitIssued(deq) /\ Cycle(v, in, deq, read, roll, clr)
    BY <1>1 DEF Next
  <2>2. /\ wptr' \in Ptr /\ rptr' \in Ptr /\ cptr' \in Ptr
        /\ PointersOrdered'
    BY <2>1, PointersStep DEF IInv
  <2>3. QED
    BY <2>1, <2>2, MemoriesStep, HeadStep DEF IInv, TypeOK
<1>2. CASE UNCHANGED vars
  BY <1>2 DEF vars, IInv, TypeOK, PointersOrdered, MemoriesAgree, HeadDecoded,
              Empty, Dist
<1>3. QED
  BY <1>1, <1>2

(* Nothing live is overwritten and nothing dead is issued: the pointers of *)
(* bp_be_issue_queue.v stay in order through every mix of operations.      *)
THEOREM PointersAlwaysOrdered == Spec => []PointersOrdered
<1>1. IInv => PointersOrdered
  BY DEF IInv
<1>2. QED
  BY InitInv, NextInv, <1>1, PTL DEF Spec

(* The packet that the detector and the register files see is always that  *)
(* of the instruction about to be dispatched.                              *)
THEOREM HeadAlwaysDecoded == Spec => []HeadDecoded
<1>1. IInv => HeadDecoded
  BY DEF IInv
<1>2. QED
  BY InitInv, NextInv, <1>1, PTL DEF Spec

----------------------------------------------------------------------------
(* The issue queue is a queue that can be rolled back to the last commit,  *)
(* for every size and every kind of entry.                                 *)

All == Entry \cup {NoEntry}

(* The place in the memories of the i-th instruction not committed.        *)
Place(i) == Idx(Wrap(cptr + i - 1))

(* Distances stay in range.                                                *)
LEMMA DistInRange ==
  ASSUME NEW p \in Ptr, NEW q \in Ptr
  PROVE  Dist(p, q) \in 0 .. 2 * Els - 1
BY ElsAssumption DEF Ptr, Dist, Wrap

(* So do places.                                                          *)
LEMMA PlaceInRange ==
  ASSUME NEW p \in Ptr, NEW i \in 1 .. 2 * Els - 1
  PROVE  Idx(Wrap(p + i - 1)) \in 0 .. Els - 1
BY ElsAssumption DEF Ptr, Wrap, Idx

(* A circular buffer, read from one pointer to another, is a sequence.     *)
LEMMA BufferIsSeq ==
  ASSUME NEW p \in Ptr, NEW q \in Ptr, NEW f \in [0 .. Els - 1 -> All],
         NEW s, s = [i \in 1 .. Dist(p, q) |-> f[Idx(Wrap(p + i - 1))]]
  PROVE  s \in Seq(All) /\ Len(s) = Dist(p, q)
<1>1. Dist(p, q) \in 0 .. 2 * Els - 1 /\ Dist(p, q) \in Nat
  BY DistInRange, ElsAssumption
<1>2. \A i \in 1 .. Dist(p, q) : Idx(Wrap(p + i - 1)) \in 0 .. Els - 1
  BY <1>1, PlaceInRange, ElsAssumption
<1>3. s \in [1 .. Dist(p, q) -> All]
  BY <1>2
<1>4. QED
  BY <1>1, <1>3, LenProperties, SeqDef

(* So is the queue.                                                        *)
LEMMA QueueIsSeq ==
  ASSUME TypeOK
  PROVE  /\ Dist(cptr, wptr) \in 0 .. 2 * Els - 1
         /\ Dist(cptr, rptr) \in 0 .. 2 * Els - 1
         /\ \A i \in 1 .. Dist(cptr, wptr) : Place(i) \in 0 .. Els - 1
         /\ Queue \in Seq(All) /\ Len(Queue) = Dist(cptr, wptr)
         /\ \A i \in 1 .. Dist(cptr, wptr) : Queue[i] = fifo[Place(i)]
<1>1. Dist(cptr, wptr) \in 0 .. 2 * Els - 1 /\ Dist(cptr, rptr) \in 0 .. 2 * Els - 1
  BY DistInRange DEF TypeOK
<1>2. \A i \in 1 .. Dist(cptr, wptr) : Place(i) \in 0 .. Els - 1
  BY <1>1, PlaceInRange, ElsAssumption DEF TypeOK, Place
<1>3. Queue \in Seq(All) /\ Len(Queue) = Dist(cptr, wptr)
  BY BufferIsSeq DEF Queue, All, TypeOK
<1>4. QED
  BY <1>1, <1>2, <1>3 DEF Queue, Place

(* The same of the next state.                                             *)
LEMMA QueueIsSeqNext ==
  ASSUME TypeOK'
  PROVE  /\ Dist(cptr', wptr') \in 0 .. 2 * Els - 1
         /\ Dist(cptr, wptr)' = Dist(cptr', wptr')
         /\ Queue' \in Seq(All) /\ Len(Queue') = Dist(cptr, wptr)'
<1>1. cptr' \in Ptr /\ wptr' \in Ptr /\ fifo' \in [0 .. Els - 1 -> All]
  BY DEF TypeOK, All, Ptr
<1>2. Dist(cptr', wptr') \in 0 .. 2 * Els - 1
  BY <1>1, DistInRange
<1>3. Dist(cptr, wptr)' = Dist(cptr', wptr')
  BY DEF Dist, Wrap
<1>4. Queue' = [i \in 1 .. Dist(cptr', wptr') |-> fifo'[Idx(Wrap(cptr' + i - 1))]]
  BY DEF Queue, Dist, Wrap, Idx
<1>5. Queue' \in Seq(All) /\ Len(Queue') = Dist(cptr', wptr')
  BY <1>1, <1>4, BufferIsSeq
<1>6. QED
  BY <1>2, <1>3, <1>5

(* It starts empty.                                                        *)
LEMMA InitRefined == Init => Replay!Init
<1>. SUFFICES ASSUME Init PROVE Replay!Init
  OBVIOUS
<1>1. TypeOK
  BY InitInv DEF IInv
<1>2. Dist(cptr, wptr) = 0 /\ Dist(cptr, rptr) = 0
  BY ElsAssumption DEF Init, Dist, Wrap
<1>3. Queue = <<>>
  BY <1>1, <1>2, QueueIsSeq, EmptySeq
<1>4. QED
  BY <1>2, <1>3 DEF Replay!Init

(* A commit makes the distance from the checkpoint smaller by one.         *)
LEMMA DistAfterCommit ==
  ASSUME NEW p \in Ptr, NEW q \in Ptr, NEW deq \in BOOLEAN, deq => Dist(p, q) > 0
  PROVE  Dist(Wrap(p + Bit(deq)), q) = Dist(p, q) - Bit(deq)
BY ElsAssumption DEF Ptr, Dist, Wrap, Bit

(* How many instructions are in the queue and issued after a cycle.        *)
LEMMA Distances ==
  ASSUME IInv, IInv',
         NEW v \in BOOLEAN, NEW in \in Entry, NEW deq \in BOOLEAN,
         NEW read \in BOOLEAN, NEW roll \in BOOLEAN, NEW clr \in BOOLEAN,
         CommitIssued(deq), Cycle(v, in, deq, read, roll, clr)
  PROVE  LET enq  == v /\ ~clr /\ ~Full
             n    == Dist(cptr, rptr) + Bit(read)
             kept == IF clr THEN n ELSE Dist(cptr, wptr) + Bit(enq)
         IN  /\ enq => Dist(cptr, wptr) < Els
             /\ read => Dist(cptr, rptr) < Dist(cptr, wptr) /\ ~roll
             /\ deq => Dist(cptr, rptr) > 0
             /\ n <= Dist(cptr, wptr)
             /\ Dist(cptr, wptr)' = kept - Bit(deq)
             /\ Dist(cptr, rptr)' = IF roll THEN 0 ELSE n - Bit(deq)
<1>. DEFINE enq == v /\ ~clr /\ ~Full
            n   == Dist(cptr, rptr) + Bit(read)
<1>. USE ElsAssumption DEF TypeOK, Ptr, Wrap, Dist, Bit, PointersOrdered, IInv
<1>1. enq => Dist(cptr, wptr) < Els
  BY DEF Full, Idx
<1>2. read => Dist(cptr, rptr) < Dist(cptr, wptr) /\ ~roll /\ ~clr
  BY DEF Cycle, Empty
<1>3. deq => Dist(cptr, rptr) > 0
  BY DEF CommitIssued
<1>4. n <= Dist(cptr, wptr)
  BY <1>2
<1>5. Dist(cptr, rptr)' = IF roll THEN 0 ELSE n - Bit(deq)
  BY <1>2, <1>3 DEF Cycle, RptrJump
<1>6. ASSUME clr PROVE Dist(cptr, wptr)' = n - Bit(deq)
  <2>1. wptr' = rptr /\ ~read
    <3>1. ~read
      BY <1>2, <1>6
    <3>2. wptr' = Wrap(wptr + Wrap(rptr - wptr))
      BY <1>6, <3>1 DEF Cycle, WptrJump
    <3>3. QED
      BY <3>1, <3>2
  <2>2. QED
    <3>1. Dist(cptr, wptr)' = Wrap(rptr - Wrap(cptr + Bit(deq)))
      BY <2>1 DEF Cycle
    <3>2. n = Dist(cptr, rptr)
      BY <2>1
    <3>. HIDE DEF TypeOK, Ptr, Wrap, Dist, Bit, PointersOrdered, IInv
    <3>3. Dist(cptr, wptr)' = Dist(Wrap(cptr + Bit(deq)), rptr)
      BY <3>1 DEF Dist
    <3>4. QED
      BY <1>3, <3>2, <3>3, DistAfterCommit DEF IInv, TypeOK
<1>7. ASSUME ~clr PROVE Dist(cptr, wptr)' = (Dist(cptr, wptr) + Bit(enq)) - Bit(deq)
  BY <1>1, <1>3, <1>7 DEF Cycle, WptrJump
<1>. HIDE DEF TypeOK, Ptr, Wrap, Dist, Bit, PointersOrdered, IInv
<1>8. Dist(cptr, wptr)' = (IF clr THEN n ELSE Dist(cptr, wptr) + Bit(enq)) - Bit(deq)
  BY <1>6, <1>7
<1>9. QED
  BY <1>1, <1>2, <1>3, <1>4, <1>5, <1>8

(* The entry that is written is behind all others, which stay as they are. *)
LEMMA Contents ==
  ASSUME IInv, IInv',
         NEW v \in BOOLEAN, NEW in \in Entry, NEW deq \in BOOLEAN,
         NEW read \in BOOLEAN, NEW roll \in BOOLEAN, NEW clr \in BOOLEAN,
         CommitIssued(deq), Cycle(v, in, deq, read, roll, clr),
         NEW i \in 1 .. Dist(cptr, wptr)'
  PROVE  LET enq == v /\ ~clr /\ ~Full
         IN  Queue'[i] = IF i + Bit(deq) <= Dist(cptr, wptr)
                         THEN Queue[i + Bit(deq)] ELSE in
<1>. DEFINE enq == v /\ ~clr /\ ~Full
            j   == i + Bit(deq)
<1>1. /\ IF clr THEN Dist(cptr, wptr)' <= Dist(cptr, wptr) - Bit(deq)
                ELSE Dist(cptr, wptr)' = Dist(cptr, wptr) + Bit(enq) - Bit(deq)
      /\ enq => Dist(cptr, wptr) < Els
      /\ deq => Dist(cptr, rptr) > 0
  <2>1. /\ Dist(cptr, rptr) + Bit(read) <= Dist(cptr, wptr)
        /\ Dist(cptr, wptr)' = (IF clr THEN Dist(cptr, rptr) + Bit(read)
                                      ELSE Dist(cptr, wptr) + Bit(enq)) - Bit(deq)
        /\ enq => Dist(cptr, wptr) < Els
        /\ deq => Dist(cptr, rptr) > 0
    BY Distances
  <2>2. TypeOK
    BY DEF IInv
  <2>3. Dist(cptr, rptr) \in Nat /\ Dist(cptr, wptr) \in Nat
    BY <2>2, QueueIsSeq
  <2>4. QED
    BY <2>1, <2>3 DEF Bit
<1>2. /\ TypeOK /\ TypeOK' /\ PointersOrdered /\ PointersOrdered'
      /\ Dist(cptr, wptr) \in 0 .. 2 * Els - 1 /\ Dist(cptr, wptr)' \in 0 .. 2 * Els - 1
  <2>1. TypeOK /\ TypeOK' /\ PointersOrdered /\ PointersOrdered'
    BY DEF IInv
  <2>2. QED
    BY <2>1, QueueIsSeq, QueueIsSeqNext
<1>3. Queue'[i] = fifo'[Place(i)']
  BY DEF Queue, Place
<1>4. Place(i)' = Idx(Wrap(cptr + j - 1))
  BY <1>2, ElsAssumption
     DEF Place, Cycle, Wrap, Bit, Idx, TypeOK, Ptr, PointersOrdered
<1>5. CASE j <= Dist(cptr, wptr)
  <2>1. /\ Queue[j] = fifo[Place(j)] /\ Place(j) \in 0 .. Els - 1
    BY <1>2, <1>5, QueueIsSeq DEF Bit
  <2>2. ASSUME enq PROVE Place(j) # Idx(wptr)
    BY <1>1, <1>2, <1>5, <2>2, ElsAssumption
       DEF Place, Wrap, Idx, Bit, TypeOK, Ptr, Dist
  <2>3. fifo'[Place(j)] = fifo[Place(j)]
    BY <2>1, <2>2, <1>2 DEF Cycle, TypeOK
  <2>4. QED
    BY <1>3, <1>4, <1>5, <2>1, <2>3 DEF Place
<1>6. CASE j > Dist(cptr, wptr)
  <2>1. enq /\ j = Dist(cptr, wptr) + 1
    BY <1>1, <1>2, <1>6 DEF Bit
  <2>2. Place(i)' = Idx(wptr) /\ Idx(wptr) \in 0 .. Els - 1
    BY <1>2, <1>4, <2>1, ElsAssumption DEF Wrap, Idx, TypeOK, Ptr, Dist
  <2>3. QED
    BY <1>2, <1>3, <1>6, <2>1, <2>2 DEF Cycle, TypeOK
<1>7. QED
  BY <1>2, <1>5, <1>6 DEF Bit

(* A cycle of the buffer is a cycle of the queue.                          *)
LEMMA CycleRefined ==
  ASSUME IInv, IInv',
         NEW v \in BOOLEAN, NEW in \in Entry, NEW deq \in BOOLEAN,
         NEW read \in BOOLEAN, NEW roll \in BOOLEAN, NEW clr \in BOOLEAN,
         CommitIssued(deq), Cycle(v, in, deq, read, roll, clr)
  PROVE  Replay!Next
<1>. DEFINE enq  == v /\ ~clr /\ ~Full
            new  == IF enq THEN <<in>> ELSE <<>>
            len  == Dist(cptr, wptr)
            n    == Dist(cptr, rptr) + Bit(read)
            kept == IF clr THEN SubSeq(Queue, 1, n) ELSE Queue \o new
            size == IF clr THEN n ELSE len + Bit(enq)
            d    == Bit(deq)
<1>1. /\ len \in 0 .. 2 * Els - 1 /\ len' \in 0 .. 2 * Els - 1
      /\ Dist(cptr, rptr) \in 0 .. 2 * Els - 1
      /\ Queue \in Seq(All) /\ Len(Queue) = len
      /\ Queue' \in Seq(All) /\ Len(Queue') = len'
  <2>1. TypeOK /\ TypeOK'
    BY DEF IInv
  <2>2. Queue' \in Seq(All) /\ Len(Queue') = len' /\ len' \in 0 .. 2 * Els - 1
    BY <2>1, QueueIsSeqNext
  <2>3. QED
    BY <2>1, <2>2, QueueIsSeq
<1>2. /\ enq => len < Els
      /\ read => Dist(cptr, rptr) < len /\ ~roll
      /\ deq => Dist(cptr, rptr) > 0
      /\ n <= len
      /\ len' = size - d
      /\ Dist(cptr, rptr)' = IF roll THEN 0 ELSE n - d
  BY Distances
<1>3. n \in Nat /\ d \in 0 .. 1 /\ size \in Nat
  BY <1>1 DEF Bit
<1>4. new \in Seq(All) /\ Len(new) = Bit(enq) /\ (enq => new[1] = in)
  <2>1. <<in>> \in Seq(All) /\ Len(<<in>>) = 1 /\ <<in>>[1] = in
    BY DEF All
  <2>2. <<>> \in Seq(All) /\ Len(<<>>) = 0
    OBVIOUS
  <2>3. QED
    BY <2>1, <2>2 DEF Bit
<1>5. /\ kept \in Seq(All) /\ Len(kept) = size
      /\ \A k \in 1 .. size : kept[k] = IF k <= len THEN Queue[k] ELSE in
  <2>1. CASE clr
    <3>1. \A k \in 1 .. n : Queue[k] \in All
      BY <1>1, <1>2, <1>3, ElementOfSeq
    <3>2. QED
      BY <1>1, <1>2, <1>3, <2>1, <3>1, SubSeqProperties
  <2>2. CASE ~clr
    <3>1. /\ Queue \o new \in Seq(All) /\ Len(Queue \o new) = len + Bit(enq)
          /\ \A k \in 1 .. len + Bit(enq) :
               (Queue \o new)[k] = IF k <= len THEN Queue[k] ELSE new[k - len]
      BY <1>1, <1>4, ConcatProperties
    <3>2. QED
      BY <1>1, <1>4, <2>2, <3>1 DEF Bit
  <2>3. QED
    BY <2>1, <2>2
<1>6. /\ SubSeq(kept, 1 + d, Len(kept)) \in Seq(All)
      /\ Len(SubSeq(kept, 1 + d, Len(kept))) = len'
      /\ \A i \in 1 .. len' : SubSeq(kept, 1 + d, Len(kept))[i] = kept[i + d]
  <2>1. \A k \in 1 + d .. Len(kept) : kept[k] \in All
    BY <1>3, <1>5, ElementOfSeq
  <2>2. size - d \in Nat
    BY <1>1, <1>2
  <2>3. Len(kept) = size /\ 1 + d \in Int /\ size \in Int
    BY <1>3, <1>5
  <2>. HIDE DEF kept, size, d
  <2>4. /\ SubSeq(kept, 1 + d, size) \in Seq(All)
        /\ Len(SubSeq(kept, 1 + d, size)) =
             IF 1 + d <= size THEN size - (1 + d) + 1 ELSE 0
        /\ \A i \in 1 .. size - (1 + d) + 1 :
             SubSeq(kept, 1 + d, size)[i] = kept[1 + d + i - 1]
    BY <2>1, <2>3, SubSeqProperties
  <2>5. len' = size - d /\ len' \in Nat /\ d \in Int
    BY <1>1, <1>2, <1>3
  <2>6. \A i \in 1 .. len' : 1 + d + i - 1 = i + d
    BY <2>5
  <2>7. QED
    BY <2>3, <2>4, <2>5, <2>6
<1>7. Queue' = SubSeq(kept, 1 + d, Len(kept))
  <2>1. ASSUME NEW i \in 1 .. len'
        PROVE  Queue'[i] = SubSeq(kept, 1 + d, Len(kept))[i]
    <3>1. Queue'[i] = IF i + d <= len THEN Queue[i + d] ELSE in
      BY Contents
    <3>2. i + d \in 1 .. size
      BY <1>1, <1>2, <1>3
    <3>3. QED
      BY <1>5, <1>6, <3>1, <3>2
  <2>2. QED
    BY <1>1, <1>6, <2>1, SeqEqual
<1>8. Replay!Cycle(new, deq, read, roll, clr)
  BY <1>1, <1>2, <1>7 DEF Replay!Cycle, Bit
<1>9. new \in {<<>>} \cup {<<e>> : e \in Entry}
  OBVIOUS
<1>10. QED
  BY <1>8, <1>9 DEF Replay!Next

(* The issue queue implements the replay queue: whatever the front end     *)
(* sends and the pipeline issues, commits, rolls back and clears in a      *)
(* cycle, it is the next instruction not yet issued that is offered.       *)
THEOREM QueueRefined == Spec => ImplementsReplayQueue
<1>1. IInv /\ IInv' /\ [Next]_vars => [Replay!Next]_(Replay!vars)
  <2>. SUFFICES ASSUME IInv, IInv', [Next]_vars
                PROVE  Replay!Next \/ UNCHANGED Replay!vars
    OBVIOUS
  <2>1. CASE Next
    <3>1. PICK v \in BOOLEAN, deq \in BOOLEAN, read \in BOOLEAN,
               roll \in BOOLEAN, clr \in BOOLEAN, in \in Entry :
            CommitIssued(deq) /\ Cycle(v, in, deq, read, roll, clr)
      BY <2>1 DEF Next
    <3>2. QED
      BY <3>1, CycleRefined
  <2>2. CASE UNCHANGED vars
    BY <2>2 DEF vars, Replay!vars, Queue, Dist
  <2>3. QED
    BY <2>1, <2>2
<1>2. QED
  BY InitInv, NextInv, InitRefined, <1>1, PTL
     DEF Spec, ImplementsReplayQueue, Replay!Spec
=============================================================================
