----------------------------- MODULE MCAccounts -----------------------------
(* Instances of Accounts for TLC: requests are interchangeable. *)
EXTENDS Accounts, TLC

AccountsSymmetry == Permutations(Req)
=============================================================================
