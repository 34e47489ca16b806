----------------------------- MODULE IssueQueue -----------------------------
(***************************************************************************)
(* The issue queue between the front end and the execution pipeline        *)
(* (bp_be_issue_queue.v): a circular buffer with a read, a write and a     *)
(* checkpoint pointer, and a register that holds the pre-decoded packet of *)
(* the next instruction one cycle ahead.                                   *)
(***************************************************************************)
EXTENDS Integers

CONSTANTS
  Els,     \* fe_queue_fifo_els_p, a power of two
  Entry,   \* what the front end sends
  NoEntry  \* an all-zero entry

ASSUME ElsAssumption == Els \in Nat /\ Els >= 2

VARIABLES
  wptr, rptr, cptr,  \* next to write, next to issue, oldest not committed
  fifo,              \* queue_fifo_mem
  regs,              \* reg_fifo_mem, the same entries pre-decoded
  pkt                \* issue_pkt_o

vars == <<wptr, rptr, cptr, fifo, regs, pkt>>

(* Pointers have one bit more than an index, to tell full from empty.      *)
Ptr == 0 .. 2 * Els - 1

(* Pointer arithmetic wraps at 2 * Els, the index at Els.                  *)
Wrap(x)     == IF x < 0 THEN x + 2 * Els
               ELSE IF x >= 2 * Els THEN x - 2 * Els ELSE x
Idx(p)      == IF p >= Els THEN p - Els ELSE p
Bit(b)      == IF b THEN 1 ELSE 0

Empty == rptr = wptr

(* Mutated form of Full: issued but uncommitted entries are forgotten.     *)
FullOfUnissued == Idx(rptr) = Idx(wptr) /\ rptr # wptr

Full == Idx(cptr) = Idx(wptr) /\ cptr # wptr

TypeOK ==
  /\ wptr \in Ptr /\ rptr \in Ptr /\ cptr \in Ptr
  /\ fifo \in [0 .. Els - 1 -> Entry \cup {NoEntry}]
  /\ regs \in [0 .. Els - 1 -> Entry \cup {NoEntry}]
  /\ pkt \in Entry \cup {NoEntry}

Init ==
  /\ wptr = 0 /\ rptr = 0 /\ cptr = 0
  /\ fifo \in [0 .. Els - 1 -> {NoEntry}]
  /\ regs = fifo
  /\ pkt = NoEntry

----------------------------------------------------------------------------
(* Mutated form of RptrJump: a rollback ignores the commit beside it.      *)
RptrJumpNoDeq(deq, read, roll) ==
  IF roll THEN Wrap(cptr - rptr) ELSE Bit(read)

(* The distances the pointers are moved by.                                *)
RptrJump(deq, read, roll) ==
  IF roll THEN Wrap(cptr - rptr + Bit(deq)) ELSE Bit(read)
WptrJump(enq, read, clr) ==
  IF clr THEN Wrap(rptr - wptr + Bit(read)) ELSE Bit(enq)

(* Mutated form of Preissue: the entry being written is not bypassed.      *)
PreissueNoBypass(rn, in) == regs[Idx(rn)]

(* preissue_pkt_o: what the entry the read pointer moves to will be.  The  *)
(* entry being written this cycle is not yet in the memory.                *)
Preissue(rn, in) ==
  IF wptr = rn THEN in ELSE regs[Idx(rn)]

(* One clock cycle.  v and in are fe_queue_v_i and the entry offered with  *)
(* it, whatever it is when v is low; read is fe_queue_yumi_i.              *)
Cycle(v, in, deq, read, roll, clr) ==
  LET enq == v /\ ~clr /\ ~Full
      rn  == Wrap(rptr + RptrJump(deq, read, roll))
      wn  == Wrap(wptr + WptrJump(enq, read, clr))
      issueV == (read /\ rn # wn) \/ roll \/ (v /\ Empty)
  IN  /\ read => ~roll /\ ~Empty /\ ~clr
      /\ rptr' = rn
      /\ wptr' = wn
      /\ cptr' = Wrap(cptr + Bit(deq))
      /\ fifo' = IF enq THEN [fifo EXCEPT ![Idx(wptr)] = in] ELSE fifo
      /\ regs' = IF enq THEN [regs EXCEPT ![Idx(wptr)] = in] ELSE regs
      /\ pkt' = IF issueV THEN Preissue(rn, in) ELSE pkt

(* The pipeline commits an instruction only after it has been issued.      *)
CommitIssued(deq) == deq => cptr # rptr

Next ==
  \E v, deq, read, roll, clr \in BOOLEAN, in \in Entry :
    CommitIssued(deq) /\ Cycle(v, in, deq, read, roll, clr)

Spec == Init /\ [][Next]_vars

----------------------------------------------------------------------------
(* Entries from one pointer up to another.                                 *)
Dist(from, to) == Wrap(to - from)

(* The read pointer stays between the checkpoint and the write pointer and *)
(* at most Els entries are live, through every mix of enqueue, issue,      *)
(* commit, rollback and clear in one cycle: no live entry is overwritten   *)
(* and no dead one is issued.                                              *)
PointersOrdered ==
  /\ Dist(cptr, rptr) <= Dist(cptr, wptr)
  /\ Dist(cptr, wptr) <= Els

(* The packet registered one cycle ahead, by which hazards are detected    *)
(* and registers read, is that of the instruction now at the head.         *)
HeadDecoded == ~Empty => pkt = fifo[Idx(rptr)]

(* The two memories agree on every live entry.                             *)
MemoriesAgree ==
  \A i \in 0 .. Els - 1 : fifo[i] = regs[i]

(* Seen through its pointers, the circular buffer is the replay queue.     *)
Queue ==
  [i \in 1 .. Dist(cptr, wptr) |-> fifo[Idx(Wrap(cptr + i - 1))]]
Replay == INSTANCE ReplayQueue WITH
  Size <- Els, queue <- Queue, issued <- Dist(cptr, rptr)
ImplementsReplayQueue == Replay!Spec
=============================================================================
