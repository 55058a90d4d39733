--------------------------- MODULE OneTimeTokens ---------------------------
(***************************************************************************)
(* What rotation promises of refresh tokens, with none of its steps: a     *)
(* token is good for one successor at most, and only if it was handed in;  *)
(* a token taken back (by a logout, an eviction, its expiry) is good for   *)
(* none.                                                                   *)
(***************************************************************************)
EXTENDS Integers

CONSTANT Token    \* the tokens that may ever be issued, 0 not among them

VARIABLES
  tok,      \* what became of each token
  parent    \* the token it replaced, 0 when it came from a login

TokenState == {"none", "live", "redeemed", "revoked"}

TypeOK ==
  /\ tok \in [Token -> TokenState]
  /\ parent \in [Token -> Token \cup {0}]

Init ==
  /\ tok = [t \in Token |-> "none"]
  /\ parent = [t \in Token |-> 0]

Issued == {t \in Token : tok[t] # "none"}

\* A login issues a token.
Login(n) ==
  /\ tok[n] = "none"
  /\ tok' = [tok EXCEPT ![n] = "live"]
  /\ UNCHANGED parent

Redeem(t) ==
  /\ tok[t] = "live"
  /\ tok' = [tok EXCEPT ![t] = "redeemed"]
  /\ UNCHANGED parent

\* The successor of a redeemed token, if it has none yet.
Succeed(t, n) ==
  /\ tok[t] = "redeemed"
  /\ \A m \in Issued : parent[m] # t
  /\ tok[n] = "none"
  /\ tok' = [tok EXCEPT ![n] = "live"]
  /\ parent' = [parent EXCEPT ![n] = t]

Revoke(T) ==
  /\ \A t \in T : tok[t] = "live"
  /\ tok' = [t \in Token |-> IF t \in T THEN "revoked" ELSE tok[t]]
  /\ UNCHANGED parent

Next ==
  \/ \E n \in Token : Login(n)
  \/ \E t \in Token : Redeem(t)
  \/ \E t, n \in Token : Succeed(t, n)
  \/ \E T \in SUBSET Token : Revoke(T)

Spec == Init /\ [][Next]_<<tok, parent>>

(***************************************************************************)
(* Two tokens never replace the same one, and none replaces a token that   *)
(* was not handed in.                                                      *)
(***************************************************************************)
OneSuccessor ==
  \A m \in Issued : parent[m] # 0 =>
    /\ tok[parent[m]] = "redeemed"
    /\ \A n \in Issued : parent[n] = parent[m] => n = m
=============================================================================
