---------------------------- MODULE MCModelStore ----------------------------
(* Two trainings with today's features and one with the last release's, while
   a request is served (requests do not meet). *)
EXTENDS ModelStore, TLC

CONSTANTS t1, t2, old

MCFeatureVersionOf == (t1 :> "v2" @@ t2 :> "v2" @@ old :> "v1")

Symmetry == Permutations({t1, t2})
=============================================================================
