----------------------------- MODULE MCInvites ------------------------------
(* Instances of Invites and Waitlist for TLC.  The waitlist makes invites  *)
(* and never reads one, so that a behaviour is one of either module, the   *)
(* other standing still.  Handlers and slots are interchangeable.          *)
EXTENDS Invites, Waitlist, TLC

VARIABLE part

BothInit == Init /\ WaitlistInit /\ part \in {"invites", "waitlist"}

BothNext ==
  /\ part' = part
  /\ \/ part = "invites" /\ Next /\ UNCHANGED waitVars
     \/ part = "waitlist" /\ WaitlistNext /\ UNCHANGED vars

BothSpec == BothInit /\ [][BothNext]_<<vars, waitVars, part>>

InvitesSymmetry == Permutations(Handler) \cup Permutations(Slot)
=============================================================================
