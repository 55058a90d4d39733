-------------------------- MODULE MCClientSession --------------------------
(* Instances of ClientSession and MobileSession for TLC.  The browser and  *)
(* the phone meet at the server only, so that a behaviour is one of either *)
(* module, the other standing still.  Users and tabs are interchangeable.  *)
EXTENDS ClientSession, MobileSession, TLC

VARIABLE device

ClientsInit == Init /\ PhoneInit /\ device \in {"browser", "phone"}

ClientsNext ==
  /\ device' = device
  /\ \/ device = "browser" /\ Next /\ UNCHANGED phoneVars
     \/ device = "phone" /\ PhoneNext /\ UNCHANGED vars

ClientsSpec == ClientsInit /\ [][ClientsNext]_<<vars, phoneVars, device>>

ClientSymmetry == Permutations(User) \cup Permutations(Tab) \cup Permutations(Person)
=============================================================================
