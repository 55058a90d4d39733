---------------------------- MODULE MCMessages ----------------------------
(* Instances of Messages and Push for TLC: ann has two contacts, who       *)
(* differ in no constant, and neither do the handlers and the emoji.  A    *)
(* message reaches the notifications of a browser and nothing comes back,  *)
(* so that a behaviour is one of either module, the other standing still.  *)
EXTENDS Messages, Push, TLC

CONSTANTS ann, bob, eve
VARIABLE part

OfAnn == {{ann, bob}, {ann, eve}}

MessagesInit == Init /\ PushInit /\ part \in {"messages", "push"}

MessagesNext ==
  /\ part' = part
  /\ \/ part = "messages" /\ Next /\ UNCHANGED pushVars
     \/ part = "push" /\ PushNext /\ UNCHANGED vars

MessagesSpec == MessagesInit /\ [][MessagesNext]_<<vars, pushVars, part>>

MessagesSymmetry ==
  Permutations(Handler) \cup Permutations({bob, eve}) \cup Permutations(Emoji)
    \cup Permutations(Reader)
=============================================================================
