------------------------------ MODULE Sessions ------------------------------
(***************************************************************************)
(* Refresh tokens, as TokenRefreshService keeps them in the table          *)
(* RefreshToken: login (issuePair), refresh (rotate, then issuePair) and   *)
(* logout (revokeAllForUser).  A handler is one HTTP request being served, *)
(* an action what runs between two awaits of the source.                   *)
(***************************************************************************)
EXTENDS Integers, FiniteSets

CONSTANTS
  User,        \* the accounts
  Handler,     \* the requests being served at one time
  None,        \* no user
  MaxDevices,  \* the tokens issuePair leaves a user at most (10)
  MaxTokens    \* bound of the model: tokens generated in all

ASSUME SessionsAssumption ==
  /\ IsFiniteSet(Handler) /\ Handler # {}
  /\ None \notin User
  /\ MaxDevices \in Nat \ {0}
  /\ MaxTokens \in Nat

\* Tokens are numbered as they are generated, which is the order in which
\* they expire: expiresAt is computed from the clock when one is generated.
Token == 1..MaxTokens

VARIABLES
  tok,      \* "live" when the row exists; otherwise why it does not
  holder,   \* the row's userId
  last,     \* the number of tokens generated
  horizon,  \* the tokens up to this one are past their expiresAt
  pc,       \* the query each handler runs next
  usr,      \* the user it runs for
  old,      \* the token it was handed, 0 for a login
  new,      \* the token it has generated
  victim,   \* the oldest token, to be deleted to make room
  parent,   \* history: the token each token replaced, 0 after a login
  cut       \* history: `last' when the user last logged out

rows == <<tok, holder>>
locals == <<pc, usr, old, new, victim>>
history == <<parent, cut>>
vars == <<rows, last, horizon, locals, history>>

TokenState == {"none", "live", "redeemed", "revoked"}

Step == {"idle", "purge", "rotDelete", "issueUser", "issueClean",
         "issueCount", "issueEvict", "issueCreate"}

\* The steps of issuePair that hold a token they have generated.
Generated == {"issueClean", "issueCount", "issueEvict", "issueCreate"}

TypeOK ==
  /\ tok \in [Token -> TokenState]
  /\ holder \in [Token -> User \cup {None}]
  /\ last \in 0..MaxTokens
  /\ horizon \in 0..MaxTokens
  /\ pc \in [Handler -> Step]
  /\ usr \in [Handler -> User \cup {None}]
  /\ old \in [Handler -> Token \cup {0}]
  /\ new \in [Handler -> Token \cup {0}]
  /\ victim \in [Handler -> Token \cup {0}]
  /\ parent \in [Token -> Token \cup {0}]
  /\ cut \in [User -> 0..MaxTokens]
  /\ \A p \in Handler : pc[p] # "idle" => usr[p] \in User
  /\ \A p \in Handler : pc[p] = "rotDelete" => old[p] \in Token
  /\ \A p \in Handler : pc[p] = "issueEvict" => victim[p] \in Token
  /\ \A p \in Handler : pc[p] \in Generated => new[p] \in Token
  /\ \A t \in Token : tok[t] = "live" => holder[t] \in User

Init ==
  /\ tok = [t \in Token |-> "none"]
  /\ holder = [t \in Token |-> None]
  /\ last = 0 /\ horizon = 0
  /\ pc = [p \in Handler |-> "idle"]
  /\ usr = [p \in Handler |-> None]
  /\ old = [p \in Handler |-> 0]
  /\ new = [p \in Handler |-> 0]
  /\ victim = [p \in Handler |-> 0]
  /\ parent = [t \in Token |-> 0]
  /\ cut = [u \in User |-> 0]

LiveOf(u) == {t \in Token : tok[t] = "live" /\ holder[t] = u}
Expired(t) == t <= horizon

\* deleteMany, for any other reason than that a token was handed in
Revoke(T) == tok' = [t \in Token |-> IF t \in T THEN "revoked" ELSE tok[t]]

Begin(p, u, t, step) ==
  /\ pc[p] = "idle"
  /\ pc' = [pc EXCEPT ![p] = step]
  /\ usr' = [usr EXCEPT ![p] = u]
  /\ old' = [old EXCEPT ![p] = t]
  /\ UNCHANGED <<new, victim>>

\* The handler answers or throws, and is free for another request.
End(p) ==
  /\ pc' = [pc EXCEPT ![p] = "idle"]
  /\ usr' = [usr EXCEPT ![p] = None]
  /\ old' = [old EXCEPT ![p] = 0]
  /\ new' = [new EXCEPT ![p] = 0]
  /\ victim' = [victim EXCEPT ![p] = 0]

Goto(p, step) ==
  /\ pc' = [pc EXCEPT ![p] = step]
  /\ UNCHANGED <<usr, old, new, victim>>

-----------------------------------------------------------------------------
(* login, once the password, the second factor or the code was accepted    *)

Login(p, u) ==
  /\ Begin(p, u, 0, "issueUser")
  /\ UNCHANGED <<rows, last, horizon, history>>

(* rotate: the token is looked up.  One past its expiry costs its user all *)
(* tokens; one without a row is refused; otherwise the row is deleted,     *)
(* which throws when it has gone in between, and a pair is issued.         *)

\* A token without a row is refused, and nothing else comes of it.
RefreshBegin(p, t) ==
  /\ tok[t] = "live"
  /\ Begin(p, holder[t], t, IF Expired(t) THEN "purge" ELSE "rotDelete")
  /\ UNCHANGED <<rows, last, horizon, history>>

RefreshPurge(p) ==
  /\ pc[p] = "purge"
  /\ Revoke(LiveOf(usr[p]))
  /\ End(p)
  /\ UNCHANGED <<holder, last, horizon, history>>

\* Mutant: the delete does not throw when the row has gone.
RotateDeleteMutant(p) ==
  /\ pc[p] = "rotDelete"
  /\ tok' = [tok EXCEPT ![old[p]] = IF @ = "live" THEN "redeemed" ELSE @]
  /\ Goto(p, "issueUser")
  /\ UNCHANGED <<holder, last, horizon, history>>

RotateDelete(p) ==
  /\ pc[p] = "rotDelete"
  /\ IF tok[old[p]] = "live"
       THEN tok' = [tok EXCEPT ![old[p]] = "redeemed"] /\ Goto(p, "issueUser")
       ELSE UNCHANGED tok /\ End(p)
  /\ UNCHANGED <<holder, last, horizon, history>>

-----------------------------------------------------------------------------
(* issuePair: the token and its expiry are generated after the user was    *)
(* read; expired tokens are deleted; the tokens left are read and, when    *)
(* there are MaxDevices of them, the first to expire is deleted (which     *)
(* throws when it has gone); then the row is created.                      *)

IssueGenerate(p) ==
  /\ pc[p] = "issueUser"
  /\ last < MaxTokens
  /\ last' = last + 1
  /\ new' = [new EXCEPT ![p] = last + 1]
  /\ pc' = [pc EXCEPT ![p] = "issueClean"]
  /\ UNCHANGED <<rows, horizon, usr, old, victim, history>>

IssueClean(p) ==
  /\ pc[p] = "issueClean"
  /\ Revoke({t \in LiveOf(usr[p]) : Expired(t)})
  /\ Goto(p, "issueCount")
  /\ UNCHANGED <<holder, last, horizon, history>>

Oldest(T) == CHOOSE t \in T : \A x \in T : t <= x

\* Mutant: the comparison is off by one.
IssueCountMutant(p) ==
  LET T == LiveOf(usr[p]) IN
  /\ pc[p] = "issueCount"
  /\ IF Cardinality(T) > MaxDevices
       THEN /\ pc' = [pc EXCEPT ![p] = "issueEvict"]
            /\ victim' = [victim EXCEPT ![p] = Oldest(T)]
            /\ UNCHANGED <<usr, old, new>>
       ELSE Goto(p, "issueCreate")
  /\ UNCHANGED <<rows, last, horizon, history>>

IssueCount(p) ==
  LET T == LiveOf(usr[p]) IN
  /\ pc[p] = "issueCount"
  /\ IF Cardinality(T) >= MaxDevices
       THEN /\ pc' = [pc EXCEPT ![p] = "issueEvict"]
            /\ victim' = [victim EXCEPT ![p] = Oldest(T)]
            /\ UNCHANGED <<usr, old, new>>
       ELSE Goto(p, "issueCreate")
  /\ UNCHANGED <<rows, last, horizon, history>>

IssueEvict(p) ==
  /\ pc[p] = "issueEvict"
  /\ IF tok[victim[p]] = "live"
       THEN Revoke({victim[p]}) /\ Goto(p, "issueCreate")
       ELSE UNCHANGED tok /\ End(p)
  /\ UNCHANGED <<holder, last, horizon, history>>

IssueCreate(p) ==
  /\ pc[p] = "issueCreate"
  /\ tok' = [tok EXCEPT ![new[p]] = "live"]
  /\ holder' = [holder EXCEPT ![new[p]] = usr[p]]
  /\ parent' = [parent EXCEPT ![new[p]] = old[p]]
  /\ End(p)
  /\ UNCHANGED <<last, horizon, cut>>

-----------------------------------------------------------------------------
\* Mutant: the expired tokens are deleted, not all of them.
LogoutMutant(p, u) ==
  /\ pc[p] = "idle"
  /\ Revoke({t \in LiveOf(u) : Expired(t)})
  /\ cut' = [cut EXCEPT ![u] = last]
  /\ UNCHANGED <<holder, last, horizon, locals, parent>>

\* logout: revokeAllForUser is one query.
Logout(p, u) ==
  /\ pc[p] = "idle"
  /\ Revoke(LiveOf(u))
  /\ cut' = [cut EXCEPT ![u] = last]
  /\ UNCHANGED <<holder, last, horizon, locals, parent>>

\* The clock passes the expiry of the next token.
Tick ==
  /\ horizon < last
  /\ horizon' = horizon + 1
  /\ UNCHANGED <<rows, last, locals, history>>

\* The server stops: what was not committed is lost with its handlers.
Restart ==
  /\ pc' = [p \in Handler |-> "idle"]
  /\ usr' = [p \in Handler |-> None]
  /\ old' = [p \in Handler |-> 0]
  /\ new' = [p \in Handler |-> 0]
  /\ victim' = [p \in Handler |-> 0]
  /\ UNCHANGED <<rows, last, horizon, history>>

Next ==
  \/ \E p \in Handler :
       \/ \E u \in User : Login(p, u) \/ Logout(p, u)
       \/ \E t \in Token : RefreshBegin(p, t)
       \/ RefreshPurge(p)
       \/ RotateDelete(p)
       \/ IssueGenerate(p)
       \/ IssueClean(p)
       \/ IssueCount(p)
       \/ IssueEvict(p)
       \/ IssueCreate(p)
  \/ Tick
  \/ Restart

Spec == Init /\ [][Next]_vars

-----------------------------------------------------------------------------
(* Properties *)

OneTime == INSTANCE OneTimeTokens

(***************************************************************************)
(* Rotation keeps the promise of OneTimeTokens: of several requests that   *)
(* hand in the same token one at most is given a successor, and a token    *)
(* logged out, evicted or expired is given none, wherever the requests are *)
(* interrupted.                                                            *)
(***************************************************************************)
RotationIsOneTime == OneTime!Spec

\* The handlers about to create a token of u.
Issuing(u) == {p \in Handler : pc[p] = "issueCreate" /\ usr[p] = u}

(***************************************************************************)
(* The tokens of a user are counted before one is created: there are fewer *)
(* than the limit and the number of requests served at one time together.  *)
(***************************************************************************)
BoundedDevices ==
  \A u \in User :
    Cardinality(LiveOf(u)) + Cardinality(Issuing(u))
      <= MaxDevices - 1 + Cardinality(Handler)

(***************************************************************************)
(* At most ten devices are active (the comment of issuePair, the README).  *)
(***************************************************************************)
DevicesWithinLimit == \A u \in User : Cardinality(LiveOf(u)) <= MaxDevices

\* The sessions that a logout of u should have ended: alive, or about to be,
\* with a token generated before it.
Spared(u) == {t \in LiveOf(u) : t <= cut[u]}
Late(u) == {p \in Handler : usr[p] = u /\ new[p] \in 1..cut[u]}

(***************************************************************************)
(* A logout ends every session but those that another request was issuing  *)
(* at that very moment: with one request served at a time, it ends all.    *)
(***************************************************************************)
LogoutSparesInFlight ==
  \A u \in User :
    Cardinality(Spared(u)) + Cardinality(Late(u)) <= Cardinality(Handler) - 1
=============================================================================
