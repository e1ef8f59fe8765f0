------------------------------- MODULE MCL2Fib -------------------------------
(***************************************************************************)
(* Model-checking instance of L2Fib.  MAC addresses and interfaces are    *)
(* model values and interchangeable, so their permutations are a sound    *)
(* symmetry for the invariants and action properties, as long as the     *)
(* event reporter is off (MaxEvMacs = 0) or there is one MAC: the         *)
(* reporter walks the keys in a fixed order.  The liveness run uses no   *)
(* symmetry.                                                               *)
(***************************************************************************)
EXTENDS L2Fib, TLC

LOCAL Sets == INSTANCE FiniteSetsExt

MacIfSymmetry == Permutations(Macs) \cup Permutations(Ifs)

\* some fixed enumeration of the keys: the bihash bucket order
MCKeyOrder == Sets!FoldSet(LAMBDA k, walk : Append(walk, k), << >>, Keys)
=============================================================================
