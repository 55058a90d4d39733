----------------------------- MODULE MCThread -----------------------------
(* Instances of Thread for TLC.  Two contacts, two rooms, or one of either *)
(* are used; where a room is in the address, and where a contact and a     *)
(* room may both be open at once, with an act less.                        *)
EXTENDS Thread, TLC

CONSTANTS ann, bob, r1, r2

VARIABLE used

Pairs == {{ann, bob}, {r1, r2}, {ann, r1}}

Within ==
  /\ {open'.direct, open'.room, NoChat} \subseteq used \cup {NoChat}
  /\ {e.chat : e \in events'} \subseteq used
  /\ {said'[m].room : m \in DOMAIN said'} \subseteq used
  /\ (used = {ann, r1} \/ pinned \in Room) => acts' < MaxActs

PairsInit == ThreadInit /\ used \in Pairs /\ pinned \in used \cup {NoChat}
PairsNext == ThreadNext /\ Within /\ UNCHANGED used

PairsSpec == PairsInit /\ [][PairsNext]_<<threadVars, used>> /\ Fairness
=============================================================================
