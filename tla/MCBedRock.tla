----------------------------- MODULE MCBedRock -----------------------------
EXTENDS BedRockSystem, TLC

CONSTANTS l1, l2, l3, c1, c2, b1, b2, b3, io, s1, s2, w1, w2, d1, d2

(* Two blocks that compete for one set, and one alone in another. *)
McSetOf == [a \in Addr |-> IF a = b3 THEN s2 ELSE s1]
McOneSet == [a \in Addr |-> s1]
McHome1 == [s \in Set |-> c1]
McHome2 == [s \in Set |-> IF s = s1 THEN c1 ELSE c2]

(* The caches, and the two blocks of a set, are interchangeable. *)
SymCompeting == Permutations({l1, l2}) \cup Permutations({b1, b2})

SymWays   == SymCompeting \cup Permutations({w1, w2})
SymCaches == Permutations({l1, l2})

(* So are two CCEs, if each swaps with its set and its block. *)
SwapEngines ==
  (c1 :> c2) @@ (c2 :> c1) @@ (s1 :> s2) @@ (s2 :> s1) @@ (b1 :> b3)
    @@ (b3 :> b1)
SymEngines == SymCaches \cup {SwapEngines}
=============================================================================
