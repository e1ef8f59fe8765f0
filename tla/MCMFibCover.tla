---------------------------- MODULE MCMFibCover ----------------------------
(* Model-checking instance of MFibTable for cover tracking: the default  *)
(* route, two group prefixes g1 and g2 beneath it, and the host route   *)
(* sg1, an (S,G), beneath g1, so that an insert or a removal can land    *)
(* between an entry and its cover, next to it, or beneath it.            *)
EXTENDS MFibTable, TLC

CONSTANTS dflt, g1, g2, sg1

CoverPrefixes == {dflt, g1, g2, sg1}

CoverParent == (g1 :> dflt) @@ (g2 :> dflt) @@ (sg1 :> g1)
=============================================================================
