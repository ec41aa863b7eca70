------------------------------ MODULE MCBarrier ------------------------------
(* A model-checking instance of Barrier.                                     *)
EXTENDS Barrier, TLC

CONSTANTS k1, k2, t1, t2, t3, u1, u2, c1

MCControllerUris == {c1, Null}
MCGenerations == 0..1

MCSymmetry == Permutations({k1, k2}) \cup Permutations({t1, t2, t3}) \cup Permutations({u1, u2})
=============================================================================
