---------------------------- MODULE MCMFibTable ----------------------------
(* Model-checking instance of MFibTable: two sources sharing one table,   *)
(* the default route and two group prefixes under it, one path and one   *)
(* entry flag.                                                            *)
EXTENDS MFibTable, TLC

\* every prefix other than (*,*/0) directly beneath it
FlatParent == [p \in Prefixes \ {DefaultPrefix} |-> DefaultPrefix]

\* sources, and the prefixes beneath the default, are interchangeable names
SrcPfxSymmetry == Permutations(Sources) \cup Permutations(Prefixes \ {DefaultPrefix})
=============================================================================
