--------------------------- MODULE ClientSession ---------------------------
(***************************************************************************)
(* Who is logged in in the tabs of one browser: the auth store of each tab *)
(* (user and access token), its refreshes (when it is loaded, every 13     *)
(* minutes, and when a request is refused), its socket, and the refresh    *)
(* cookie that the tabs share.  The server is that of Sessions with each   *)
(* request served at once: it redeems a refresh token for its successor.   *)
(***************************************************************************)
EXTENDS Naturals, FiniteSets

CONSTANTS
  User,       \* the accounts used in this browser
  Tab,        \* its tabs
  None,       \* no user, no tab
  Retries,    \* how often fetchWithRetry and tryRestoreSession repeat (1)
  MaxTokens,  \* bound of the model: refresh tokens ever issued
  MaxFails,   \* bound of the model: requests and answers lost
  MaxLoads,   \* bound of the model: pages loaded
  MaxReqs     \* bound of the model: requests under way

ASSUME ClientSessionAssumption ==
  /\ None \notin User \cup Tab
  /\ {Retries, MaxTokens, MaxFails, MaxLoads, MaxReqs} \subseteq Nat

VARIABLES
  live,    \* the server's refresh tokens
  holder,  \* holder[n]: the user of the n-th token issued
  last,    \* tokens issued
  cookie,  \* the token in the cookie, 0 for none
  tab,     \* the state of each tab
  reqs,    \* requests being sent, served and answered
  fails,   \* history: requests and answers lost
  loads,   \* history: pages loaded
  wasted,  \* history: tokens revoked, or redeemed by an answer that was lost
  blended  \* history: tabs with a user whose cookie became another user's, or
           \* who logged in during a refresh, over another or over his socket

server == <<live, holder, last>>
history == <<fails, loads, wasted, blended>>
vars == <<server, cookie, tab, reqs, history>>

Token == 1..MaxTokens
Closed ==
  [user |-> None, token |-> None, hydrated |-> FALSE,
   socket |-> None, initialized |-> FALSE]
Kind == {"restore", "api", "timer", "logout"}

TypeOK ==
  /\ live \subseteq 1..last /\ last \in 0..MaxTokens
  /\ cookie \in 0..last
  /\ \A t \in Tab :
       /\ {tab[t].user, tab[t].token, tab[t].socket} \subseteq User \cup {None}
       /\ tab[t].token # None => tab[t].hydrated /\ tab[t].initialized
       /\ ~tab[t].hydrated => tab[t] = Closed
  /\ \A r \in reqs : r.kind \in Kind /\ r.tries \in 0..Retries /\ r.sent \in 0..last

Init ==
  /\ live = {} /\ last = 0
  /\ holder = [n \in Token |-> None]
  /\ cookie = 0
  /\ tab = [t \in Tab |-> Closed]
  /\ reqs = {}
  /\ fails = 0 /\ loads = 0 /\ wasted = {} /\ blended = {}

\* got is 0 until the request is served, then the new token if there is one.
Request(t, kind, tries, u) ==
  [tab |-> t, kind |-> kind, tries |-> tries, sent |-> cookie, user |-> u,
   status |-> "sent", got |-> 0]
Room == Cardinality(reqs) < MaxReqs
Of(t) == {r \in reqs : r.tab = t}
Refreshing(t) == {r \in Of(t) : r.kind # "logout"}

\* Nobody waits for these any more; those not yet served still will be.
Orphans(R) == {[r EXCEPT !.tab = None] : r \in {q \in R : q.status = "sent"}}
Unread(R) == {r.sent : r \in {q \in R : q.status = "ok" /\ q.kind # "logout"}}

\* The token is new to SocketProvider unless it has a socket: it connects one
\* with the first, and keeps it when the token is replaced.
WithToken(tb, u) ==
  [tb EXCEPT !.token = u, !.initialized = TRUE,
             !.socket = IF tb.initialized THEN @ ELSE u]
LoggedOut(tb) == [tb EXCEPT !.user = None, !.token = None,
                            !.initialized = FALSE]

\* The tabs that show another user when the cookie becomes u's.
Strangers(u) == {s \in Tab : tab[s].user \notin {None, u}}

\* It has a token, with which another user's socket was connected.
KeepsSocket(s, u) == tab[s].token # None /\ tab[s].socket # u

-----------------------------------------------------------------------------
(* The tabs.                                                               *)

\* A page is loaded, or loaded anew: tryRestoreSession
Load(t) ==
  /\ loads < MaxLoads /\ Room
  /\ loads' = loads + 1
  /\ tab' = [tab EXCEPT ![t] = Closed]
  /\ reqs' = (reqs \ Of(t)) \cup Orphans(Of(t)) \cup {Request(t, "restore", 0, None)}
  /\ wasted' = wasted \cup Unread(Of(t))
  /\ blended' = blended \ {t}
  /\ UNCHANGED <<server, cookie, fails>>

\* The login page, which does not ask whether somebody is logged in.
Login(t, u) ==
  /\ tab[t].hydrated /\ last < MaxTokens
  /\ last' = last + 1
  /\ live' = live \cup {last'}
  /\ holder' = [holder EXCEPT ![last'] = u]
  /\ cookie' = last'
  /\ tab' = [tab EXCEPT ![t] = [WithToken(@, u) EXCEPT !.user = u]]
  /\ blended' = blended \cup Strangers(u)
                \cup {s \in {t} : Refreshing(s) # {} \/ KeepsSocket(s, u)}
  /\ UNCHANGED <<reqs, fails, loads, wasted>>

LogoutMutant(t) ==
  /\ tab[t].token # None /\ Room
  /\ tab' = [tab EXCEPT ![t] = [LoggedOut(@) EXCEPT !.initialized = TRUE]]
  /\ \E u \in {tab[t].token, None} : reqs' = reqs \cup {Request(t, "logout", 0, u)}
  /\ UNCHANGED <<server, cookie, history>>

\* The server is told, and knows of whom unless the access token expired (after
\* 15 minutes).  The socket stays connected.
Logout(t) ==
  /\ tab[t].token # None /\ Room
  /\ tab' = [tab EXCEPT ![t] = LoggedOut(@)]
  /\ \E u \in {tab[t].token, None} : reqs' = reqs \cup {Request(t, "logout", 0, u)}
  /\ UNCHANGED <<server, cookie, history>>

RefreshBy(t, kind) ==
  /\ Room /\ ~\E r \in Of(t) : r.kind = kind
  /\ reqs' = reqs \cup {Request(t, kind, 0, None)}
  /\ UNCHANGED <<server, cookie, tab, history>>

\* The interval of Providers.
Timer(t) == tab[t].token # None /\ RefreshBy(t, "timer")

\* A request was refused: the access token expired, or there is none, the user
\* having logged out.  refreshInFlight: several share one refresh.
TryRefreshAccessToken(t) == tab[t].hydrated /\ RefreshBy(t, "api")

-----------------------------------------------------------------------------
(* The server, as far as Sessions is seen from here.                       *)

Replace(r, new) == reqs' = (reqs \ {r}) \cup (IF r.tab = None THEN {} ELSE {new})

ServeRefresh(r) ==
  /\ r.kind # "logout" /\ r.status = "sent"
  /\ IF r.sent \in live
       THEN /\ last < MaxTokens
            /\ last' = last + 1
            /\ live' = (live \ {r.sent}) \cup {last'}
            /\ holder' = [holder EXCEPT ![last'] = holder[r.sent]]
            /\ Replace(r, [r EXCEPT !.status = "ok", !.got = last'])
            /\ wasted' = IF r.tab = None THEN wasted \cup {r.sent} ELSE wasted
       ELSE /\ Replace(r, [r EXCEPT !.status = "refused"])
            /\ UNCHANGED <<server, wasted>>
  /\ UNCHANGED <<cookie, tab, fails, loads, blended>>

ServeLogout(r) ==
  LET gone == {n \in live : holder[n] = r.user}
  IN /\ r.kind = "logout" /\ r.status = "sent"
     /\ live' = live \ gone
     /\ wasted' = wasted \cup gone
     /\ Replace(r, [r EXCEPT !.status = IF r.user = None THEN "refused" ELSE "ok"])
     /\ UNCHANGED <<holder, last, cookie, tab, fails, loads, blended>>

-----------------------------------------------------------------------------
(* The answers: the browser keeps the cookie, the tab the access token.    *)

AnsweredMutant(r) ==
  /\ r.status = "ok"
  /\ reqs' = reqs \ {r}
  /\ IF r.kind = "logout"
       THEN cookie' = 0 /\ UNCHANGED <<tab, blended>>
       ELSE LET u == holder[r.got] IN
            /\ cookie' = IF r.kind = "timer" THEN cookie ELSE r.got
            /\ blended' = blended \cup (Strangers(u) \ {r.tab})
            /\ tab' = [tab EXCEPT ![r.tab] =
                 IF r.kind = "restore"
                 THEN [WithToken(@, u) EXCEPT !.user = u, !.hydrated = TRUE]
                 ELSE WithToken(@, u)]
  /\ UNCHANGED <<server, fails, loads, wasted>>

\* Only tryRestoreSession looks at the user in the answer.
Answered(r) ==
  /\ r.status = "ok"
  /\ reqs' = reqs \ {r}
  /\ IF r.kind = "logout"
       THEN cookie' = 0 /\ UNCHANGED <<tab, blended>>
       ELSE LET u == holder[r.got] IN
            /\ cookie' = r.got
            /\ blended' = blended \cup (Strangers(u) \ {r.tab})
            /\ tab' = [tab EXCEPT ![r.tab] =
                 IF r.kind = "restore"
                 THEN [WithToken(@, u) EXCEPT !.user = u, !.hydrated = TRUE]
                 ELSE WithToken(@, u)]
  /\ UNCHANGED <<server, fails, loads, wasted>>

\* tryRestoreSession tries again, then nobody is logged in.
RestoreFails(r, others) ==
  IF r.tries < Retries
    THEN reqs' = others \cup {Request(r.tab, r.kind, r.tries + 1, None)} /\ UNCHANGED tab
    ELSE reqs' = others /\ tab' = [tab EXCEPT ![r.tab] = [LoggedOut(@) EXCEPT !.hydrated = TRUE]]

\* The others give up; a refused refresh is answered with status 200.
Refused(r) ==
  /\ r.status = "refused"
  /\ IF r.kind = "restore" THEN RestoreFails(r, reqs \ {r})
                           ELSE reqs' = reqs \ {r} /\ UNCHANGED tab
  /\ UNCHANGED <<server, cookie, history>>

\* The request, or its answer with the cookie in it, is lost or too late;
\* fetchWithRetry sends it again (this is the moment it does so).
Lost(r) ==
  LET others == (reqs \ {r}) \cup Orphans({r}) IN
  /\ fails < MaxFails /\ r.tab # None
  /\ fails' = fails + 1
  /\ wasted' = wasted \cup Unread({r})
  /\ CASE r.kind = "restore" -> RestoreFails(r, others)
       [] r.kind = "api" ->
            /\ reqs' = IF r.tries = Retries THEN others
                       ELSE others \cup {Request(r.tab, r.kind, r.tries + 1, None)}
            /\ UNCHANGED tab
       [] OTHER -> reqs' = others /\ UNCHANGED tab
  /\ UNCHANGED <<server, cookie, loads, blended>>

Next ==
  \/ \E t \in Tab :
       \/ Load(t) \/ Logout(t) \/ Timer(t) \/ TryRefreshAccessToken(t)
       \/ \E u \in User : Login(t, u)
  \/ \E r \in reqs : ServeRefresh(r) \/ ServeLogout(r) \/ Answered(r) \/ Refused(r) \/ Lost(r)

Spec == Init /\ [][Next]_vars

-----------------------------------------------------------------------------
(* Properties *)

(***************************************************************************)
(* Several tabs and timers hand in the same cookie, each of which can be   *)
(* redeemed once; still the browser never keeps a dead one while its       *)
(* successor is not on its way, unless the user logged out or the answer   *)
(* with the successor was lost: after that a retry cannot succeed.         *)
(***************************************************************************)
CookieLives ==
  cookie \in live \cup wasted \cup {0} \/ \E r \in reqs : r.status = "ok" /\ r.sent = cookie

(***************************************************************************)
(* The user a tab shows is the one whose access token it sends and whose   *)
(* events its socket gets; unless he was logged in over another user, over *)
(* the token that a refusal brings back after a logout, or during a        *)
(* refresh, or another tab has made the cookie another user's since, by a  *)
(* login or by the late answer to a refresh: then the tab may act for one  *)
(* user under the name of another.                                         *)
(***************************************************************************)
OneUserPerTab ==
  \A t \in Tab \ blended :
    tab[t].user # None => {tab[t].token, tab[t].socket} \subseteq {None, tab[t].user}
=============================================================================
