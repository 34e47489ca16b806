--------------------------- MODULE CoherentMemory ---------------------------
(***************************************************************************)
(* What the coherence system promises the cores: every block behaves as    *)
(* one atomic memory location.  A core reads a block only through a copy   *)
(* it holds and writes it only when no other core holds one; every copy    *)
(* given out is the last value written.                                    *)
(***************************************************************************)
CONSTANTS Core, Block, Data, InitData, None

VARIABLES
  value,   \* the last value written to every block
  copy,    \* what each core would read from a block, None without a copy
  writer   \* the blocks each core may write

vars == <<value, copy, writer>>

Init ==
  /\ value = [b \in Block |-> InitData]
  /\ copy = [p \in Core |-> [b \in Block |-> None]]
  /\ writer = [p \in Core |-> {}]

Write(p, b, d) ==
  /\ value' = [value EXCEPT ![b] = d]
  /\ b \in writer[p]
  /\ \A q \in Core \ {p} : copy[q][b] = None
  /\ copy' = [copy EXCEPT ![p][b] = d]
  /\ UNCHANGED writer

(* A copy comes with the last value; only the sole copy may be writable.   *)
Grant(p, b) ==
  /\ copy' = [copy EXCEPT ![p][b] = value[b]]
  /\ \/ UNCHANGED writer
     \/ /\ \A q \in Core \ {p} : copy[q][b] = None
        /\ writer' = [writer EXCEPT ![p] = @ \cup {b}]
  /\ \A q \in Core \ {p} : b \notin writer[q]
  /\ UNCHANGED value

(* A copy is taken away, or only the right to write it.                    *)
Revoke(p, b) ==
  /\ writer' = [writer EXCEPT ![p] = @ \ {b}]
  /\ copy' \in {copy, [copy EXCEPT ![p][b] = None]}
  /\ UNCHANGED value

Next ==
  \E p \in Core, b \in Block :
    Grant(p, b) \/ Revoke(p, b) \/ \E d \in Data : Write(p, b, d)

Spec == Init /\ [][Next]_vars
=============================================================================
