---------------------------- MODULE MCDcachePipe ----------------------------
EXTENDS DcachePipe, TLC

CONSTANTS w1, w2, b1, b2, d1, d2

(* Blocks, and values, are interchangeable.                                *)
SymBlocksData == Permutations({b1, b2}) \cup Permutations({d1, d2})
=============================================================================
