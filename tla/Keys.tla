-------------------------------- MODULE Keys --------------------------------
(***************************************************************************)
(* The key pairs of end-to-end encryption: use-e2e.ts in every tab, the    *)
(* private keys a browser keeps under the user's password, and the one     *)
(* public key the server has of each account.  The ciphers are external: a *)
(* message can be read by who has the private key that goes with the       *)
(* public key it was encrypted for.                                        *)
(***************************************************************************)
EXTENDS Naturals, Sequences

CONSTANTS
  Account,    \* the accounts
  Tabs,       \* <<browser, n>>: the tabs of the browsers in use
  Nobody,     \* no account
  MaxInits,   \* bound of the model: how often keys are initialized
  MaxChanges  \* bound of the model: passwords changed

ASSUME KeysAssumption ==
  /\ Nobody \notin Account
  /\ {MaxInits, MaxChanges} \subseteq Nat

VARIABLES
  loggedIn,  \* who is logged in in each tab
  users,     \* who has logged in in each browser
  mem,       \* inMemoryKeys: the number of the pair, 0 for null
  kept,      \* localStorage: the pair kept for an account, under which password
  password,  \* the password of each account, which changes
  inits,     \* initializations that wait for their master key
  uploads,   \* the pairs whose public keys were sent and are not yet stored
  published, \* User.e2ePublicKey
  made,      \* the pairs in the order they were made: for whom, where and
             \* under which password
  begun,     \* history: initializations begun
  crossed,   \* history: tabs whose user changed while there were keys of the
             \* last one in memory or in the making
  troubled   \* history: accounts whose initializations got in each other's way,
             \* were cut short, or whose public key did not get through or is
             \* another user's

session == <<loggedIn, users>>
keyVars == <<session, mem, kept, password, inits, uploads, published, made,
             begun, crossed, troubled>>

Browsers == {t[1] : t \in Tabs}
Pair == 0..MaxInits
NothingKept == [pair |-> 0, under |-> 0]

KeysTypeOK ==
  /\ loggedIn \in [Tabs -> Account \cup {Nobody}]
  /\ users \in [Browsers -> SUBSET Account]
  /\ mem \in [Tabs -> Pair] /\ published \in [Account -> Pair]
  /\ kept \in [Browsers -> [Account -> [pair : Pair, under : 0..(MaxChanges + 1)]]]
  /\ password \in [Account -> 1..(MaxChanges + 1)]
  /\ inits \subseteq [id : 1..begun, tab : Tabs, account : Account,
                      under : 0..(MaxChanges + 1)]
  /\ uploads \subseteq DOMAIN made
  /\ made \in Seq([account : Account, browser : Browsers, under : 0..(MaxChanges + 1)])
  /\ begun \in Pair
  /\ crossed \subseteq Tabs /\ troubled \subseteq Account

KeysInit ==
  /\ loggedIn = [t \in Tabs |-> Nobody] /\ users = [b \in Browsers |-> {}]
  /\ mem = [t \in Tabs |-> 0]
  /\ kept = [b \in Browsers |-> [a \in Account |-> NothingKept]]
  /\ password = [a \in Account |-> 1]
  /\ inits = {} /\ uploads = {}
  /\ published = [a \in Account |-> 0]
  /\ made = <<>> /\ begun = 0
  /\ crossed = {} /\ troubled = {}

-----------------------------------------------------------------------------
(* initializeE2EKeys                                                       *)

\* Is one under way for a in the browser b?
UnderWay(a, b) ==
  \/ \E i \in inits : i.account = a /\ i.tab[1] = b
  \/ \E u \in uploads : made[u].account = a /\ made[u].browser = b

\* It derives a master key from the password first, which takes a while.
InitializeE2EKeys(t, a, under) ==
  /\ begun < MaxInits
  /\ begun' = begun + 1
  /\ inits' = inits \cup {[id |-> begun', tab |-> t, account |-> a, under |-> under]}
  /\ troubled' = IF UnderWay(a, t[1]) THEN troubled \cup {a} ELSE troubled

\* The user's own keys are there, and nobody else's are in the making.
Settle(i) ==
  crossed' = IF /\ i.account = loggedIn[i.tab]
                /\ \A j \in inits : j.tab = i.tab => j.account = i.account
             THEN crossed \ {i.tab} ELSE crossed

\* The pair that was kept opens with the password.
LoadKeys(i) ==
  LET old == kept[i.tab[1]][i.account]
  IN /\ old.pair # 0 /\ old.under = i.under
     /\ mem' = [mem EXCEPT ![i.tab] = old.pair]
     /\ inits' = inits \ {i}
     /\ Settle(i)
     /\ UNCHANGED <<session, kept, password, uploads, published, made, begun, troubled>>

SaveKeysLocallyMutant(i, pair) == kept' = kept

SaveKeysLocally(i, pair) ==
  kept' = [kept EXCEPT ![i.tab[1]][i.account] = [pair |-> pair, under |-> i.under]]

\* It does not: a new pair is made and kept, and its public key is sent.
GenerateKeys(i) ==
  LET old == kept[i.tab[1]][i.account]
  IN /\ ~(old.pair # 0 /\ old.under = i.under)
     /\ made' = Append(made, [account |-> i.account, browser |-> i.tab[1], under |-> i.under])
     /\ SaveKeysLocally(i, Len(made'))
     /\ mem' = [mem EXCEPT ![i.tab] = Len(made')]
     /\ inits' = inits \ {i}
     /\ uploads' = uploads \cup {Len(made')}
     /\ Settle(i)
     /\ UNCHANGED <<session, password, published, begun, troubled>>

\* It is stored for the user of the token the tab has by now; or, when that is
\* none or has expired, of the cookie the browser has by then: for somebody who
\* has logged in in this browser.  When the answer is lost the request is
\* repeated.
UploadE2EKey(u, a, answered) ==
  LET owner == made[u].account
  IN /\ a \in users[made[u].browser]
     /\ published' = [published EXCEPT ![a] = u]
     /\ uploads' = IF answered THEN uploads \ {u} ELSE uploads
     /\ troubled' = IF a = owner THEN troubled ELSE troubled \cup {a, owner}
     /\ UNCHANGED <<session, mem, kept, password, inits, made, begun, crossed>>

\* The request fails, and its repetition too.
UploadFails(u) ==
  /\ uploads' = uploads \ {u}
  /\ troubled' = troubled \cup {made[u].account}
  /\ UNCHANGED <<session, mem, kept, password, inits, published, made, begun, crossed>>

-----------------------------------------------------------------------------
(* The user                                                                *)

Initializing(t) == \E i \in inits : i.tab = t

\* setAuth, which leaves the keys of who was logged in before where they are
SetAuth(t, a) ==
  /\ loggedIn' = [loggedIn EXCEPT ![t] = a]
  /\ users' = [users EXCEPT ![t[1]] = @ \cup {a}]
  /\ crossed' = IF loggedIn[t] \notin {Nobody, a} /\ (mem[t] # 0 \/ Initializing(t))
                THEN crossed \cup {t} ELSE crossed

\* With a password, after the second factor or an e-mail code as well.
LoginWithKeys(t, a) ==
  /\ SetAuth(t, a)
  /\ InitializeE2EKeys(t, a, password[a])
  /\ UNCHANGED <<mem, kept, password, uploads, published, made>>

\* Registered, or with an e-mail code in another tab than registered in.
LoginWithoutKeys(t, a) ==
  /\ SetAuth(t, a)
  /\ UNCHANGED <<mem, kept, password, inits, uploads, published, made, begun, troubled>>

LoggedOut(t) ==
  /\ loggedIn' = [loggedIn EXCEPT ![t] = Nobody]
  /\ crossed' = IF Initializing(t) THEN crossed \cup {t} ELSE crossed \ {t}
  /\ UNCHANGED <<users, kept, password, inits, uploads, published, made, begun, troubled>>

ClearE2ESessionMutant(t) == LoggedOut(t) /\ mem' = mem

\* clearE2ESession, with which logout begins: the initializations go on.
ClearE2ESession(t) == LoggedOut(t) /\ mem' = [mem EXCEPT ![t] = 0]

\* The page is loaded again, for the user of the cookie if it is still good:
\* without the password there are no keys.
ReloadTab(t) ==
  LET cut == {i \in inits : i.tab = t}
  IN /\ \E a \in users[t[1]] \cup {Nobody} : loggedIn' = [loggedIn EXCEPT ![t] = a]
     /\ mem' = [mem EXCEPT ![t] = 0]
     /\ inits' = inits \ cut
     /\ crossed' = crossed \ {t}
     /\ troubled' = troubled \cup {i.account : i \in cut}
     /\ UNCHANGED <<users, kept, password, uploads, published, made, begun>>

\* The password asked for may be a wrong one (0).
ResetKeys(t, right) ==
  LET a == loggedIn[t]
  IN /\ a # Nobody
     /\ kept' = [kept EXCEPT ![t[1]][a] = NothingKept]
     /\ mem' = [mem EXCEPT ![t] = 0]
     /\ InitializeE2EKeys(t, a, IF right THEN password[a] ELSE 0)
     /\ UNCHANGED <<session, password, uploads, published, made, crossed>>

ChangePassword(a) ==
  /\ \E t \in Tabs : loggedIn[t] = a
  /\ \A b \in Account : password[b] <= MaxChanges
  /\ password' = [password EXCEPT ![a] = @ + 1]
  /\ UNCHANGED <<session, mem, kept, inits, uploads, published, made, begun, crossed, troubled>>

KeysNext ==
  \/ \E i \in inits : LoadKeys(i) \/ GenerateKeys(i)
  \/ \E u \in uploads :
       UploadFails(u) \/ \E a \in Account, answered \in BOOLEAN : UploadE2EKey(u, a, answered)
  \/ \E t \in Tabs :
       \/ \E a \in Account : LoginWithKeys(t, a) \/ LoginWithoutKeys(t, a)
       \/ ClearE2ESession(t) \/ ReloadTab(t)
       \/ \E right \in BOOLEAN : ResetKeys(t, right)
  \/ \E a \in Account : ChangePassword(a)

KeysSpec == KeysInit /\ [][KeysNext]_keyVars

-----------------------------------------------------------------------------
(* Properties *)

(***************************************************************************)
(* The private key of the public key the server has of a user is not lost: *)
(* one of his browsers keeps it under the password it was made with (which *)
(* he has to remember: the code does not carry a pair over to a new one),  *)
(* or another is on its way; unless two initializations of his overlapped  *)
(* in one browser, one was cut short, a public key did not get through, or *)
(* it was sent with the token of another user.                             *)
(***************************************************************************)
PublishedIsKept ==
  \A a \in Account \ troubled : published[a] # 0 =>
    \E b \in Browsers :
      \/ kept[b][a] = [pair |-> published[a], under |-> made[published[a]].under]
      \/ UnderWay(a, b)

(***************************************************************************)
(* A tab encrypts and decrypts with the keys of the user logged in in it;  *)
(* unless he logged in over another user whose keys the tab had or was     *)
(* making, or that user logged out while they were made, until the own     *)
(* ones are there and no others are to come.                               *)
(***************************************************************************)
OwnKeys ==
  \A t \in Tabs \ crossed :
    mem[t] # 0 /\ loggedIn[t] # Nobody => made[mem[t]].account = loggedIn[t]
=============================================================================
