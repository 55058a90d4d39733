------------------------------ MODULE MCCalls ------------------------------
(* Instances of Calls for TLC: two users may call a third.                 *)
EXTENDS Calls, TLC

CONSTANTS ann, bob, eve

Callers == Permutations({ann, eve})
ToBob == {<<ann, bob>>, <<eve, bob>>}
=============================================================================
