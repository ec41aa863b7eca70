---------------------------- MODULE MCLeadership ----------------------------
(* Model-checking instance of Leadership: three controller ids.             *)
EXTENDS Leadership, TLC

CONSTANTS c1, c2, c3

MCControllers == {c1, c2, c3}
Ids == Permutations(MCControllers)
=============================================================================
