-------------------------- MODULE ContactsOverlap --------------------------
(***************************************************************************)
(* Contacts with a history of the pairs of users on which two requests     *)
(* were served at once: what the reads before a write guarantee as long as *)
(* nobody else works on the same pair, whatever happens to other pairs.    *)
(***************************************************************************)
EXTENDS Contacts

VARIABLE overlap  \* history: those pairs, until no request of the pair is left

InHand(pr) == {p \in Handler : dir[p] # None /\ PairOf(dir[p]) = pr}
Shared(pr) == \E p, q \in InHand(pr) : p # q
NoRequests(pr) == \A d \in Directions(pr) : req[d] = NoRequest

OverlapInit == Init /\ overlap = {}

OverlapNext ==
  /\ Next
  /\ overlap' = {pr \in Pair : Shared(pr)' \/ (pr \in overlap /\ ~NoRequests(pr)')}

OverlapSpec == OverlapInit /\ [][OverlapNext]_<<vars, overlap>>

-----------------------------------------------------------------------------
(* Properties *)

(***************************************************************************)
(* Two users have pending requests to one another only if two requests of  *)
(* theirs overlapped: otherwise the second is told to accept the first.    *)
(* A request is pending between contacts only if an invite link connected  *)
(* them or, again, requests overlapped: an acceptance leaves no request of *)
(* the other side open.                                                    *)
(***************************************************************************)
PendingOverlapped ==
  \A d \in Direction : req[d].status = "pending" =>
    /\ req[Reverse(d)].status = "pending" => PairOf(d) \in overlap
    /\ conn[PairOf(d)] # 0 => PairOf(d) \in overlap \cup InvitePairs

(***************************************************************************)
(* Nobody rejects a request that was accepted, except by an answer that    *)
(* was under way together with the acceptance.                             *)
(***************************************************************************)
RejectedOverlapped ==
  [][\A d \in Direction :
       req[d].status = "accepted" /\ req'[d].status = "rejected"
         => PairOf(d) \in overlap]_vars
=============================================================================
