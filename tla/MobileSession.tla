--------------------------- MODULE MobileSession ---------------------------
(***************************************************************************)
(* Who is logged in on a phone: the auth store of the app in its memory,   *)
(* the refresh token in the phone's secure storage, and the flows of the   *)
(* app that change both with an await between one and the other (launch,   *)
(* login, refresh, logout).  The app may be killed at any time.  The       *)
(* server is that of Sessions with each request served at once: it redeems *)
(* a refresh token for its successor.                                      *)
(***************************************************************************)
EXTENDS Naturals, FiniteSets

CONSTANTS
  Person,     \* the accounts used on this phone
  NoPerson,   \* no account
  MaxIssued,  \* bound of the model: refresh tokens ever issued
  MaxFaults   \* bound of the model: times the app is killed, answers lost, errors

ASSUME MobileSessionAssumption ==
  /\ NoPerson \notin Person
  /\ {MaxIssued, MaxFaults} \subseteq Nat

VARIABLES
  good,     \* the server's refresh tokens
  owner,    \* owner[n]: the account of the n-th token issued
  issued,   \* tokens issued
  stored,   \* the token in the secure storage, 0 for none
  app,      \* useAuthStore: user (and access token), refreshToken, hydrated
  flows,    \* what the app waits for, and requests it waits for no more
  faults,   \* history: times the app was killed, answers lost, errors
  spent,    \* history: tokens revoked, or redeemed by an answer that was lost
  mixed,    \* history: a login or a logout overlapped with a refresh
  left      \* history: the user has logged out since he last logged in

tokens == <<good, owner, issued>>
phoneHistory == <<faults, spent, mixed, left>>
phoneVars == <<tokens, stored, app, flows, phoneHistory>>

NotRunning == [on |-> FALSE, hydrated |-> FALSE, user |-> NoPerson, refresh |-> 0]

\* A refresh that is refused goes on as a logout.
Flow == [kind : {"restore", "login", "refresh", "logout", "refused"},
         step : {"sent", "answered", "stored", "clear", "cleared", "orphan"},
         sent : 0..MaxIssued, got : 0..MaxIssued, user : Person \cup {NoPerson}]
NewFlow(kind, step, token, p) ==
  [kind |-> kind, step |-> step, sent |-> token, got |-> 0, user |-> p]

PhoneTypeOK ==
  /\ issued \in 0..MaxIssued /\ good \subseteq 1..issued
  /\ stored \in 0..issued /\ app.refresh \in 0..issued
  /\ app.user # NoPerson => app.on /\ app.hydrated
  /\ flows \subseteq Flow
  /\ Cardinality({f \in flows : f.kind \in {"refresh", "refused"} /\ f.step # "orphan"}) <= 1

PhoneInit ==
  /\ good = {} /\ owner = [n \in 1..MaxIssued |-> NoPerson] /\ issued = 0
  /\ stored = 0 /\ app = NotRunning /\ flows = {}
  /\ faults = 0 /\ spent = {} /\ mixed = FALSE /\ left = FALSE

Waiting(kinds) == \E f \in flows : f.kind \in kinds /\ f.step # "orphan"
Replaced(f, new) == flows' = (flows \ {f}) \cup {new}
Over(f) == flows' = flows \ {f}

\* A request that nobody waits for any more will still be served.
Abandoned(F) == {[f EXCEPT !.step = "orphan"] : f \in {g \in F : g.step \in {"sent", "orphan"}}}
\* The answer to it is lost, and with it the successor of the token.
Unseen(F) == {f.sent : f \in {g \in F : g.step = "answered" /\ g.got # 0}}

Fault == faults < MaxFaults /\ faults' = faults + 1

-----------------------------------------------------------------------------
(* The app is launched and killed, and used.                               *)

\* tryRestoreSession; nothing is shown until it is over.
TryRestoreSession ==
  /\ ~app.on
  /\ app' = [NotRunning EXCEPT !.on = TRUE, !.hydrated = stored = 0]
  /\ flows' = flows \cup (IF stored = 0 THEN {} ELSE {NewFlow("restore", "sent", stored, NoPerson)})
  /\ UNCHANGED <<tokens, stored, phoneHistory>>

KillApp ==
  /\ app.on /\ Fault
  /\ app' = NotRunning
  /\ flows' = Abandoned(flows)
  /\ spent' = spent \cup Unseen(flows)
  /\ left' = (left /\ ~Waiting({"logout"}))
  /\ UNCHANGED <<tokens, stored, mixed>>

\* A password, with a second factor or an e-mail code where one is asked for.
HandleLogin(p) ==
  /\ app.hydrated /\ app.user = NoPerson /\ ~Waiting({"login"})
  /\ flows' = flows \cup {NewFlow("login", "sent", 0, p)}
  /\ left' = FALSE
  /\ mixed' = Waiting({"refresh", "refused", "logout"})
  /\ UNCHANGED <<tokens, stored, app, faults, spent>>

\* The server knows who logs out unless the access token has expired.
Farewell(p) == {NewFlow("logout", "sent", 0, q) : q \in {p, NoPerson}}

LogoutOfPhone ==
  /\ app.user # NoPerson /\ ~Waiting({"logout"})
  /\ \E f \in Farewell(app.user) : flows' = flows \cup {f}
  /\ left' = TRUE
  /\ mixed' = (mixed \/ Waiting({"refresh", "refused", "login"}))
  /\ UNCHANGED <<tokens, stored, app, faults, spent>>

\* tryRefreshAccessToken, after a request was refused.  refreshInFlight: one
\* at a time.
RefreshPhone ==
  /\ app.user # NoPerson /\ ~Waiting({"refresh", "refused"})
  /\ flows' = flows \cup {NewFlow("refresh", "sent", app.refresh, NoPerson)}
  /\ mixed' = (mixed \/ Waiting({"login", "logout"}))
  /\ UNCHANGED <<tokens, stored, app, faults, spent, left>>

-----------------------------------------------------------------------------
(* The server, as far as Sessions is seen from here.                       *)

Issue(p) ==
  /\ issued < MaxIssued
  /\ issued' = issued + 1
  /\ owner' = [owner EXCEPT ![issued'] = p]

Answer(f, n) ==
  IF f.step = "orphan" THEN Over(f)
  ELSE Replaced(f, [f EXCEPT !.step = "answered", !.got = n])

ServeLogin(f) ==
  /\ f.kind = "login" /\ f.step \in {"sent", "orphan"}
  /\ Issue(f.user) /\ good' = good \cup {issued'}
  /\ Answer(f, issued')
  /\ UNCHANGED <<stored, app, phoneHistory>>

ServeTokens(f) ==
  /\ f.kind \in {"restore", "refresh"} /\ f.step \in {"sent", "orphan"}
  /\ IF f.sent \in good
       THEN /\ Issue(owner[f.sent]) /\ good' = (good \ {f.sent}) \cup {issued'}
            /\ Answer(f, issued')
            /\ spent' = IF f.step = "orphan" THEN spent \cup {f.sent} ELSE spent
       ELSE Answer(f, 0) /\ UNCHANGED <<tokens, spent>>
  /\ UNCHANGED <<stored, app, faults, mixed, left>>

\* revokeAllForUser
ServeFarewell(f) ==
  LET gone == {n \in good : owner[n] = f.user}
  IN /\ f.kind \in {"logout", "refused"} /\ f.step \in {"sent", "orphan"}
     /\ good' = good \ gone
     /\ spent' = spent \cup gone
     /\ IF f.step = "orphan" THEN Over(f) ELSE Replaced(f, [f EXCEPT !.step = "clear"])
     /\ UNCHANGED <<owner, issued, stored, app, faults, mixed, left>>

\* The server fails (status 500), or what answers is not the server: taken for
\* a refusal.
AnswersBadly(f) ==
  /\ f.kind \in {"restore", "refresh"} /\ f.step = "sent" /\ Fault
  /\ Answer(f, 0)
  /\ UNCHANGED <<tokens, stored, app, spent, mixed, left>>

-----------------------------------------------------------------------------
(* The answers.                                                            *)

StoreTokenMutant(f) ==
  /\ f.step = "answered" /\ f.got # 0
  /\ stored' = IF f.kind = "restore" THEN stored ELSE f.got
  /\ Replaced(f, [f EXCEPT !.step = "stored"])
  /\ UNCHANGED <<tokens, app, phoneHistory>>

\* setAuth, tryRestoreSession: the token is stored first,
StoreToken(f) ==
  /\ f.step = "answered" /\ f.got # 0
  /\ stored' = f.got
  /\ Replaced(f, [f EXCEPT !.step = "stored"])
  /\ UNCHANGED <<tokens, app, phoneHistory>>

SetAuthMutant(f) ==
  /\ f.step = "stored"
  /\ app' = [app EXCEPT !.user = owner[f.got], !.hydrated = TRUE,
                        !.refresh = IF f.kind = "refresh" THEN @ ELSE f.got]
  /\ Over(f)
  /\ UNCHANGED <<tokens, stored, phoneHistory>>

\* then the store of the app is set, with the user in the answer.
SetAuth(f) ==
  /\ f.step = "stored"
  /\ app' = [app EXCEPT !.user = owner[f.got], !.refresh = f.got, !.hydrated = TRUE]
  /\ Over(f)
  /\ UNCHANGED <<tokens, stored, phoneHistory>>

\* The token is forgotten, whatever it was refused for.
RestoreRefused(f) ==
  /\ f.kind = "restore" /\ f.step = "answered" /\ f.got = 0
  /\ stored' = 0
  /\ app' = [app EXCEPT !.hydrated = TRUE]
  /\ Over(f)
  /\ UNCHANGED <<tokens, phoneHistory>>

\* logout, of whoever is logged in by now
RefreshRefused(f) ==
  /\ f.kind = "refresh" /\ f.step = "answered" /\ f.got = 0
  /\ IF app.user = NoPerson
       THEN Replaced(f, NewFlow("refused", "clear", 0, NoPerson))
       ELSE \E g \in Farewell(app.user) : Replaced(f, [g EXCEPT !.kind = "refused"])
  /\ UNCHANGED <<tokens, stored, app, phoneHistory>>

\* The network fails.  A logout goes on without the answer.
NetworkFails(f) ==
  /\ f.step \in {"sent", "answered"} /\ Fault
  /\ spent' = spent \cup Unseen({f})
  /\ flows' = (flows \ {f}) \cup Abandoned({f})
       \cup (IF f.kind \in {"logout", "refused"}
               THEN {[f EXCEPT !.step = "clear"]} ELSE {})
  /\ app' = IF f.kind = "restore" THEN [app EXCEPT !.hydrated = TRUE] ELSE app
  /\ UNCHANGED <<tokens, stored, mixed, left>>

\* logout: the storage is cleared, then the store of the app.
ClearRefreshToken(f) ==
  /\ f.step = "clear"
  /\ stored' = 0
  /\ Replaced(f, [f EXCEPT !.step = "cleared"])
  /\ UNCHANGED <<tokens, app, phoneHistory>>

Forget(f) ==
  /\ f.step = "cleared"
  /\ app' = [app EXCEPT !.user = NoPerson, !.refresh = 0]
  /\ Over(f)
  /\ UNCHANGED <<tokens, stored, phoneHistory>>

PhoneNext ==
  \/ TryRestoreSession \/ KillApp \/ LogoutOfPhone \/ RefreshPhone
  \/ \E p \in Person : HandleLogin(p)
  \/ \E f \in flows :
       \/ ServeLogin(f) \/ ServeTokens(f) \/ ServeFarewell(f) \/ AnswersBadly(f)
       \/ StoreToken(f) \/ SetAuth(f) \/ RestoreRefused(f) \/ RefreshRefused(f)
       \/ NetworkFails(f) \/ ClearRefreshToken(f) \/ Forget(f)

PhoneSpec == PhoneInit /\ [][PhoneNext]_phoneVars

-----------------------------------------------------------------------------
(* Properties *)

(***************************************************************************)
(* A refresh token can be redeemed once, and the app may be killed between *)
(* any two steps; still the phone never keeps a dead token while its       *)
(* successor is not on its way, unless the user was logged out or the      *)
(* answer with the successor was lost.  Otherwise the next launch would    *)
(* ask for the password without a reason.                                  *)
(***************************************************************************)
PhoneTokenLives ==
  \/ stored \in good \cup spent \cup {0}
  \/ \E f \in flows : f.step = "answered" /\ f.sent = stored /\ f.got # 0

(***************************************************************************)
(* When nothing is under way, the phone has stored the token the app works *)
(* with, and after a logout neither has one, so that a launch continues    *)
(* what was shown last; unless a login or a logout overlapped with a       *)
(* refresh: then a logged out user may come back, or the user who has      *)
(* logged in since be logged out.                                          *)
(***************************************************************************)
PhoneAgrees ==
  app.on /\ ~mixed /\ ~(\E f \in flows : f.step # "orphan") =>
    /\ app.user # NoPerson => stored = app.refresh
    /\ left => app.user = NoPerson /\ stored = 0
=============================================================================
