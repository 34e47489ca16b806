---------------------------- MODULE ReplayQueue ----------------------------
(***************************************************************************)
(* What the issue queue promises: a queue of instructions whose front part *)
(* has been issued but not committed.  Committing removes the oldest       *)
(* instruction, rolling back makes the issued ones issue again in order,   *)
(* clearing drops those never issued.                                      *)
(***************************************************************************)
EXTENDS Naturals, Sequences

CONSTANTS Entry, Size

VARIABLES
  queue,    \* the instructions not committed, oldest first
  issued    \* how many of them have been issued

vars == <<queue, issued>>

Init == queue = <<>> /\ issued = 0

(* One cycle; every operation sees the queue as it was before the cycle.   *)
Cycle(enq, deq, read, roll, clr) ==
  LET n    == issued + IF read THEN 1 ELSE 0
      kept == IF clr THEN SubSeq(queue, 1, n) ELSE queue \o enq
      d    == IF deq THEN 1 ELSE 0
  IN  /\ clr => enq = <<>>
      /\ enq # <<>> => Len(queue) < Size
      /\ read => issued < Len(queue) /\ ~roll
      /\ deq => issued > 0
      /\ queue' = SubSeq(kept, 1 + d, Len(kept))
      /\ issued' = IF roll THEN 0 ELSE n - d

Next ==
  \E deq, read, roll, clr \in BOOLEAN, enq \in {<<>>} \cup {<<e>> : e \in Entry} :
    Cycle(enq, deq, read, roll, clr)

Spec == Init /\ [][Next]_vars
=============================================================================
