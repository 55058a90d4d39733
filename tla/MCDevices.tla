----------------------------- MODULE MCDevices -----------------------------
(* Instances of Sessions and Keys for TLC.  The refresh tokens and the key *)
(* pairs of a user's devices share nothing but the login, so that a        *)
(* behaviour is one of either module, the other standing still.  Of the    *)
(* three tabs two are used: both of one browser, or one of each of two.    *)
EXTENDS Sessions, Keys, TLC

VARIABLES part, used

TwoBrowsers == {<<1, 1>>, <<1, 2>>, <<2, 1>>}
TwoTabs == {{<<1, 1>>, <<1, 2>>}, {<<1, 1>>, <<2, 1>>}}

Within == \A t \in Tabs \ used : loggedIn'[t] = Nobody

DevicesInit ==
  /\ Init /\ KeysInit
  /\ part \in {"sessions", "keys"} /\ used \in TwoTabs

DevicesNext ==
  /\ UNCHANGED <<part, used>>
  /\ \/ part = "sessions" /\ Next /\ UNCHANGED keyVars
     \/ part = "keys" /\ KeysNext /\ Within /\ UNCHANGED vars

DevicesSpec == DevicesInit /\ [][DevicesNext]_<<vars, keyVars, part, used>>

DevicesSymmetry == Permutations(Handler) \cup Permutations(Account)
=============================================================================
