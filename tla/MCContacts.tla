----------------------------- MODULE MCContacts -----------------------------
(* Instances of Contacts for TLC, with the history of ContactsOverlap. *)
EXTENDS ContactsOverlap, TLC

CONSTANTS ann, bob, eve

Ann == {ann}
TowardsAnnOrBob == {<<bob, ann>>, <<eve, ann>>, <<ann, bob>>}
BobEve == {{bob, eve}}

HandlerSymmetry == Permutations(Handler)
=============================================================================
