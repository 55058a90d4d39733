------------------------------ MODULE MCPlans ------------------------------
(* Instances of Plans for TLC: the handlers are interchangeable.           *)
EXTENDS Plans, TLC

HandlerSymmetry == Permutations(Handler)
=============================================================================
