---------------------------- MODULE ClientsProofs ----------------------------
(***************************************************************************)
(* Proofs about ClientSession, the tabs of a browser, and MobileSession,   *)
(* the app of a phone: in both a refresh token that can be redeemed once   *)
(* is kept by a client while its successor is on the way.                  *)
(***************************************************************************)
EXTENDS ClientSession, MobileSession, FiniteSetTheorems, TLAPS

-----------------------------------------------------------------------------
(* The browser.                                                            *)

IsRefresh(r) == r.kind # "logout"
Redeemed(r) == r.status = "ok" /\ IsRefresh(r)

TabState ==
  [user : User \cup {None}, token : User \cup {None}, hydrated : BOOLEAN,
   socket : User \cup {None}, initialized : BOOLEAN]

RequestState ==
  [tab : Tab \cup {None}, kind : Kind, tries : Nat, sent : Nat,
   user : User \cup {None}, status : {"sent", "ok", "refused"}, got : Nat]

BrowserTypes ==
  /\ last \in 0..MaxTokens /\ live \subseteq 1..last
  /\ cookie \in 0..last
  /\ holder \in [Token -> User \cup {None}] /\ \A n \in 1..last : holder[n] \in User
  /\ tab \in [Tab -> TabState]
  /\ blended \subseteq Tab

RequestTypes ==
  /\ reqs \subseteq RequestState
  /\ \A r \in reqs :
       /\ r.sent <= last /\ r.got <= last /\ r.tries <= Retries
       /\ r.tab = None => r.status = "sent"

\* Nobody has the successor of a redeemed token before the answer arrives.
Fresh(r) ==
  /\ r.sent # 0 /\ r.got # 0 /\ r.got \in live \cup wasted
  /\ holder[r.got] = holder[r.sent]
  /\ cookie # r.got
  /\ \A q \in reqs : q.sent # r.got /\ (Redeemed(q) /\ q.got = r.got => q = r)

SuccessorsFresh == \A r \in reqs : Redeemed(r) => Fresh(r)

CookieKept ==
  cookie \in live \cup wasted \cup {0} \/ \E r \in reqs : Redeemed(r) /\ r.sent = cookie

\* A tab that is being restored shows nothing and waits for nothing else.
TabShows(t) ==
  /\ tab[t].token # None => tab[t].hydrated
  /\ tab[t].initialized <=> tab[t].token # None
  /\ ~tab[t].hydrated => tab[t] = Closed

Awaited(r) ==
  /\ r.kind = "restore" => ~tab[r.tab].hydrated /\ \A q \in reqs : q.tab = r.tab => q = r
  /\ r.kind # "restore" => tab[r.tab].hydrated

Restoring ==
  /\ \A t \in Tab : TabShows(t)
  /\ \A r \in reqs : r.tab # None => Awaited(r)

\* The cookie and what a tab has sent of it belong to whom the tab shows.
Agrees(t) ==
  tab[t].user # None =>
    /\ tab[t].token = tab[t].user
    /\ tab[t].socket \in {None, tab[t].user}
    /\ cookie # 0 => holder[cookie] = tab[t].user

SentFor(r, t) ==
  r.tab = t /\ r.kind \in {"api", "timer"} /\ tab[t].user # None =>
    (r.sent # 0 => holder[r.sent] = tab[t].user)

TabsAgree ==
  \A t \in Tab \ blended : Agrees(t) /\ \A r \in reqs : SentFor(r, t)

BrowserInv ==
  BrowserTypes /\ RequestTypes /\ SuccessorsFresh /\ CookieKept /\ Restoring /\ TabsAgree

-----------------------------------------------------------------------------
(* What is sent: requests that are new or that nobody waits for any more.  *)

Posted(q) ==
  /\ q \in RequestState /\ q.status = "sent"
  /\ q.got <= last /\ q.sent <= last /\ q.tries <= Retries
  /\ q.sent = cookie \/ \E p \in reqs : q.sent = p.sent

\* A request that is sent carries the cookie.
LEMMA RequestPosted ==
  ASSUME BrowserTypes, NEW t \in Tab, NEW kind \in Kind, NEW n \in 0..Retries,
         NEW u \in User \cup {None}
  PROVE  LET q == Request(t, kind, n, u) IN
         /\ Posted(q)
         /\ q.tab = t /\ q.kind = kind /\ q.sent = cookie /\ q.status = "sent"
BY ClientSessionAssumption DEF Request, Posted, RequestState, BrowserTypes

\* An orphan is one of them, and will be answered to nobody.
LEMMA OrphanPosted ==
  ASSUME RequestTypes, NEW R \in SUBSET reqs, NEW q \in Orphans(R)
  PROVE  Posted(q) /\ q.tab = None
BY DEF RequestTypes, Orphans, Posted, RequestState

\* Nothing but what is posted, and nothing answered is dropped unnoticed.
Sending ==
  /\ UNCHANGED <<live, holder, last, cookie>> /\ wasted \subseteq wasted'
  /\ \A q \in reqs' : q \in reqs \/ Posted(q)
  /\ \A r \in reqs \ reqs' : Redeemed(r) => r.sent \in wasted'

\* Then the requests stay as they should be,
LEMMA SendingTypes ==
  ASSUME RequestTypes, Sending
  PROVE  RequestTypes'
BY DEF RequestTypes, Sending, Posted

\* and so does what becomes of the tokens.
LEMMA SendingFresh ==
  ASSUME RequestTypes, SuccessorsFresh, CookieKept, Sending
  PROVE  SuccessorsFresh' /\ CookieKept'
<1>1. \A r \in reqs' : Redeemed(r) => r \in reqs
  BY DEF Sending, Posted, Redeemed
<1>2. \A q \in reqs' : q.sent = cookie \/ \E p \in reqs : q.sent = p.sent
  BY DEF Sending, Posted
<1>3. SuccessorsFresh'
  BY <1>1, <1>2 DEF Sending, SuccessorsFresh, Fresh, Redeemed
<1>4. CookieKept'
  BY DEF Sending, CookieKept, Redeemed
<1> QED BY <1>3, <1>4

-----------------------------------------------------------------------------
(* The tabs send: the types, and what becomes of the tokens.               *)

\* A page is loaded.
LEMMA LoadSends ==
  ASSUME BrowserInv, NEW t \in Tab, Load(t)
  PROVE  BrowserTypes' /\ Sending /\ CookieKept'
<1>1. \A q \in reqs' : q \in reqs \/ Posted(q)
  BY RequestPosted, OrphanPosted, ClientSessionAssumption
     DEF Load, Of, BrowserInv, Kind
<1>2. \A r \in reqs \ reqs' : Redeemed(r) => r.sent \in wasted'
  BY DEF Load, Unread, Redeemed, IsRefresh
<1>3. Sending
  BY <1>1, <1>2 DEF Load, Sending, server
<1>4. Closed \in TabState
  BY DEF Closed, TabState
<1>5. BrowserTypes'
  BY <1>4 DEF Load, BrowserInv, BrowserTypes, server
<1> QED BY <1>3, <1>5, SendingFresh DEF BrowserInv

\* A tab logs out, or refreshes its token.
LEMMA LogoutSends ==
  ASSUME BrowserInv, NEW t \in Tab, Logout(t)
  PROVE  BrowserTypes' /\ Sending
<1>1. PICK u \in {tab[t].token, None} : reqs' = reqs \cup {Request(t, "logout", 0, u)}
  BY DEF Logout
<1>2. u \in User \cup {None}
  BY DEF BrowserInv, BrowserTypes, TabState
<1>3. Sending
  BY <1>1, <1>2, RequestPosted, ClientSessionAssumption
     DEF Logout, Sending, server, history, BrowserInv, Kind
<1>4. LoggedOut(tab[t]) \in TabState
  BY DEF BrowserInv, BrowserTypes, TabState, LoggedOut
<1>5. BrowserTypes'
  BY <1>4 DEF Logout, BrowserInv, BrowserTypes, server, history
<1> QED BY <1>3, <1>5

LEMMA RefreshSends ==
  ASSUME BrowserInv, NEW t \in Tab, NEW kind \in {"timer", "api"}, RefreshBy(t, kind)
  PROVE  BrowserTypes' /\ Sending
<1>1. Sending
  BY RequestPosted, ClientSessionAssumption
     DEF RefreshBy, Sending, server, history, BrowserInv, Kind
<1> QED BY <1>1 DEF RefreshBy, BrowserInv, BrowserTypes, server, history

\* A refresh is refused, or it or its answer is lost: perhaps it is sent anew.
LEMMA RefusedSends ==
  ASSUME BrowserInv, NEW r \in reqs, Refused(r)
  PROVE  BrowserTypes' /\ Sending
<1>1. r.tab \in Tab /\ r.tries \in 0..Retries /\ r.kind \in Kind
  BY DEF Refused, BrowserInv, RequestTypes, RequestState
<1>2. \A q \in reqs' : q \in reqs \/ Posted(q)
  <2>1. CASE r.kind = "restore" /\ r.tries < Retries
    <3>1. r.tries + 1 \in 0..Retries
      BY <1>1, <2>1, ClientSessionAssumption
    <3> QED BY <1>1, <2>1, <3>1, RequestPosted DEF Refused, RestoreFails, BrowserInv
  <2>2. CASE ~(r.kind = "restore" /\ r.tries < Retries)
    BY <2>2 DEF Refused, RestoreFails
  <2> QED BY <2>1, <2>2
<1>3. \A q \in reqs \ reqs' : q = r
  BY DEF Refused, RestoreFails
<1>4. Sending
  BY <1>2, <1>3 DEF Refused, Sending, server, history, Redeemed
<1>5. [LoggedOut(tab[r.tab]) EXCEPT !.hydrated = TRUE] \in TabState
  BY ZenonT(40), <1>1 DEF BrowserInv, BrowserTypes, TabState, LoggedOut
<1>6. tab' \in [Tab -> TabState]
  BY <1>5 DEF Refused, RestoreFails, BrowserInv, BrowserTypes
<1> QED BY <1>4, <1>6 DEF Refused, BrowserInv, BrowserTypes, server, history

LEMMA LostSends ==
  ASSUME BrowserInv, NEW r \in reqs, Lost(r)
  PROVE  BrowserTypes' /\ Sending
<1>1. r.tab \in Tab /\ r.tries \in 0..Retries /\ r.kind \in Kind
  BY DEF Lost, BrowserInv, RequestTypes, RequestState
<1> DEFINE others == (reqs \ {r}) \cup Orphans({r})
           again == Request(r.tab, r.kind, r.tries + 1, None)
<1>2. /\ reqs' = others \/ (r.tries < Retries /\ reqs' = others \cup {again})
      /\ tab' = tab \/ tab' = [tab EXCEPT ![r.tab] = [LoggedOut(@) EXCEPT !.hydrated = TRUE]]
  <2>1. CASE r.kind = "restore"
    BY <2>1 DEF Lost, RestoreFails
  <2>2. CASE r.kind = "api"
    <3>1. r.tries = Retries \/ r.tries < Retries
      BY <1>1, ClientSessionAssumption
    <3>2. /\ reqs' = IF r.tries = Retries THEN others ELSE others \cup {again}
          /\ tab' = tab
      BY <2>2 DEF Lost
    <3> QED BY <3>1, <3>2
  <2>3. CASE r.kind \notin {"restore", "api"}
    BY <2>3 DEF Lost
  <2> QED BY <2>1, <2>2, <2>3
<1>3. r.tries < Retries => Posted(again)
  <2>1. r.tries < Retries => r.tries + 1 \in 0..Retries
    BY <1>1, ClientSessionAssumption
  <2> QED BY <1>1, <2>1, RequestPosted DEF BrowserInv
<1>4. \A q \in Orphans({r}) : Posted(q)
  BY OrphanPosted DEF BrowserInv
<1>5. \A q \in reqs \ reqs' : q = r
  BY <1>2
<1>6. Redeemed(r) => r.sent \in wasted'
  BY DEF Lost, Unread, Redeemed, IsRefresh
<1>7. Sending
  BY <1>2, <1>3, <1>4, <1>5, <1>6 DEF Lost, Sending, server
<1>8. [LoggedOut(tab[r.tab]) EXCEPT !.hydrated = TRUE] \in TabState
  BY ZenonT(40), <1>1 DEF BrowserInv, BrowserTypes, TabState, LoggedOut
<1>9. tab' \in [Tab -> TabState]
  BY <1>2, <1>8 DEF BrowserInv, BrowserTypes
<1> QED BY <1>7, <1>9 DEF Lost, BrowserInv, BrowserTypes, server

-----------------------------------------------------------------------------
(* The server and its answers: the types, and what becomes of the tokens.  *)

\* A login gives the cookie a token that nobody has.
LEMMA LoginIssues ==
  ASSUME BrowserInv, NEW t \in Tab, NEW u \in User, Login(t, u)
  PROVE  BrowserTypes' /\ RequestTypes' /\ SuccessorsFresh' /\ CookieKept'
<1>1. last + 1 \in Token /\ last \in Nat
  BY ClientSessionAssumption DEF Login, BrowserInv, BrowserTypes, Token
<1>2. [WithToken(tab[t], u) EXCEPT !.user = u] \in TabState
  BY DEF BrowserInv, BrowserTypes, TabState, WithToken
<1>3. tab' \in [Tab -> TabState]
  BY <1>2 DEF Login, BrowserInv, BrowserTypes
<1>4. holder' \in [Token -> User \cup {None}]
  BY <1>1 DEF Login, BrowserInv, BrowserTypes
<1>5. blended' \subseteq Tab
  BY DEF Login, BrowserInv, BrowserTypes, Strangers
<1>6. BrowserTypes'
  <2>1. holder'[last + 1] = u /\ \A n \in 1..last : holder'[n] = holder[n]
    BY <1>1 DEF Login, BrowserInv, BrowserTypes, Token
  <2>2. \A n \in 1..(last + 1) : holder'[n] \in User
    BY <1>1, <2>1 DEF BrowserInv, BrowserTypes
  <2> QED BY <1>1, <1>3, <1>4, <1>5, <2>2, ClientSessionAssumption
             DEF Login, BrowserInv, BrowserTypes, Token
<1>7. RequestTypes'
  BY <1>1 DEF Login, BrowserInv, RequestTypes, RequestState
<1>8. \A n \in 1..last : holder'[n] = holder[n]
  BY <1>1 DEF Login, BrowserInv, BrowserTypes, Token
<1>9. \A r \in reqs : r.sent \in 0..last /\ r.got \in 0..last
  BY <1>1 DEF BrowserInv, RequestTypes, RequestState
<1>10. live \subseteq live' /\ cookie' = last + 1 /\ cookie' \in live' /\ UNCHANGED <<reqs, wasted>>
  BY DEF Login
<1>11. SuccessorsFresh'
  <2> SUFFICES ASSUME NEW r \in reqs, Redeemed(r) PROVE Fresh(r)'
    BY <1>10 DEF SuccessorsFresh
  <2>1. /\ r.sent # 0 /\ r.got # 0 /\ r.got \in live \cup wasted
        /\ holder[r.got] = holder[r.sent]
        /\ \A q \in reqs : q.sent # r.got /\ (Redeemed(q) /\ q.got = r.got => q = r)
    BY DEF BrowserInv, SuccessorsFresh, Fresh
  <2>2. r.sent \in 1..last /\ r.got \in 1..last /\ r.got # last + 1
    BY <1>1, <1>9, <2>1
  <2> QED BY <1>8, <1>10, <2>1, <2>2 DEF Fresh
<1>12. CookieKept'
  BY <1>10 DEF CookieKept
<1> QED BY <1>6, <1>7, <1>11, <1>12

\* A refresh token is redeemed for its successor.
LEMMA ServeRefreshRedeems ==
  ASSUME BrowserInv, NEW r \in reqs, ServeRefresh(r), r.sent \in live
  PROVE  BrowserTypes' /\ RequestTypes' /\ SuccessorsFresh' /\ CookieKept'
<1> DEFINE n == last + 1
           new == [r EXCEPT !.status = "ok", !.got = n]
<1>1. n \in Token /\ n \in 1..MaxTokens /\ n \in Nat /\ last \in Nat /\ n # 0
  BY ClientSessionAssumption DEF ServeRefresh, BrowserInv, BrowserTypes, Token
<1>2. /\ r \in RequestState /\ r.status = "sent" /\ r.kind # "logout" /\ r.sent \in 1..last
      /\ r.tries <= Retries
  BY DEF ServeRefresh, BrowserInv, BrowserTypes, RequestTypes
<1>3. /\ new \in RequestState /\ new.status = "ok" /\ new.got = n /\ new.sent = r.sent
      /\ new.tab = r.tab /\ new.kind = r.kind /\ new.tries = r.tries
  BY <1>1, <1>2 DEF RequestState
<1>4. /\ last' = n /\ live' = (live \ {r.sent}) \cup {n}
      /\ holder' = [holder EXCEPT ![n] = holder[r.sent]]
      /\ reqs' = (reqs \ {r}) \cup (IF r.tab = None THEN {} ELSE {new})
      /\ wasted' = IF r.tab = None THEN wasted \cup {r.sent} ELSE wasted
      /\ UNCHANGED <<cookie, tab, blended>>
  BY DEF ServeRefresh, Replace
<1> HIDE DEF new
<1>5. /\ \A q \in reqs' : q \in reqs \/ q = new
      /\ \A q \in reqs : q.sent \in 0..last /\ q.got \in 0..last /\ q.got # n /\ q.sent # n
  BY <1>1, <1>4 DEF BrowserInv, RequestTypes, RequestState
<1>6. \A m \in 1..last : holder'[m] = holder[m] /\ holder'[n] = holder[r.sent]
  BY <1>1, <1>4 DEF BrowserInv, BrowserTypes, Token
<1>7. BrowserTypes'
  <2>1. holder[r.sent] \in User \cup {None}
    BY <1>1, <1>2, ClientSessionAssumption DEF BrowserInv, BrowserTypes, Token
  <2>2. holder' \in [Token -> User \cup {None}]
    BY <1>1, <1>4, <2>1 DEF BrowserInv, BrowserTypes
  <2>3. last' \in 0..MaxTokens /\ live' \subseteq 1..last' /\ cookie' \in 0..last'
    <3>1. last' = last + 1 /\ last \in Nat /\ last' \in 1..MaxTokens
      BY <1>1, <1>4
    <3>2. live \subseteq 1..last /\ cookie \in 0..last
      BY DEF BrowserInv, BrowserTypes
    <3>3. 1..last \subseteq 1..last' /\ last' \in 1..last'
      BY <3>1
    <3> QED BY <1>4, <3>1, <3>2, <3>3
  <2>4. \A m \in 1..n : holder'[m] \in User
    BY <1>1, <1>2, <1>6 DEF BrowserInv, BrowserTypes
  <2> QED BY <1>4, <2>2, <2>3, <2>4 DEF BrowserInv, BrowserTypes
<1>8. RequestTypes'
  <2> SUFFICES ASSUME NEW q \in reqs'
               PROVE  /\ q \in RequestState
                      /\ q.sent <= n /\ q.got <= n /\ q.tries <= Retries
                      /\ q.tab = None => q.status = "sent"
    BY <1>4 DEF RequestTypes, RequestState
  <2>1. CASE q = new
    BY <1>1, <1>2, <1>3, <1>4, <2>1 DEF BrowserInv, RequestTypes
  <2>2. CASE q \in reqs
    BY <1>1, <1>5, <2>2 DEF BrowserInv, RequestTypes
  <2> QED BY <1>5, <2>1, <2>2
<1>9. SuccessorsFresh'
  <2> SUFFICES ASSUME NEW q \in reqs', Redeemed(q) PROVE Fresh(q)'
    BY DEF SuccessorsFresh
  <2>1. CASE q = new
    <3>1. cookie # n
      BY <1>1 DEF BrowserInv, BrowserTypes
    <3> QED BY <1>1, <1>2, <1>3, <1>4, <1>5, <1>6, <2>1, <3>1 DEF Fresh
  <2>2. CASE q \in reqs
    <3>1. Fresh(q)
      BY <2>2 DEF BrowserInv, SuccessorsFresh
    <3>2. q.got # r.sent /\ q.got # n /\ q.got \in 1..last /\ q.sent \in 1..last
      BY <1>1, <1>5, <2>2, <3>1 DEF Fresh
    <3>3. q.got \in live' \cup wasted'
      BY <1>4, <3>1, <3>2 DEF Fresh
    <3> QED BY <1>3, <1>4, <1>5, <1>6, <3>1, <3>2, <3>3 DEF Fresh
  <2> QED BY <1>5, <2>1, <2>2
<1>10. CookieKept'
  <2>1. CASE cookie = r.sent
    BY <1>2, <1>3, <1>4, <2>1 DEF CookieKept, Redeemed, IsRefresh
  <2>2. CASE cookie # r.sent
    <3>1. CASE cookie \in live \cup wasted \cup {0}
      BY <1>4, <2>2, <3>1 DEF CookieKept
    <3>2. CASE \E q \in reqs : Redeemed(q) /\ q.sent = cookie
      <4>1. PICK q \in reqs : Redeemed(q) /\ q.sent = cookie
        BY <3>2
      <4>2. q \in reqs'
        BY <1>2, <1>4, <4>1 DEF Redeemed
      <4> QED BY <1>4, <4>1, <4>2 DEF CookieKept
    <3> QED BY <3>1, <3>2 DEF BrowserInv, CookieKept
  <2> QED BY <2>1, <2>2
<1> QED BY <1>7, <1>8, <1>9, <1>10

\* One that is dead is refused.
LEMMA ServeRefreshRefuses ==
  ASSUME BrowserInv, NEW r \in reqs, ServeRefresh(r), r.sent \notin live
  PROVE  BrowserTypes' /\ RequestTypes' /\ SuccessorsFresh' /\ CookieKept'
<1> DEFINE new == [r EXCEPT !.status = "refused"]
<1>1. new \in RequestState /\ new.status = "refused" /\ new.sent = r.sent
      /\ new.got = r.got /\ new.tries = r.tries /\ new.tab = r.tab
  BY DEF BrowserInv, RequestTypes, RequestState
<1>2. /\ reqs' = (reqs \ {r}) \cup (IF r.tab = None THEN {} ELSE {new})
      /\ UNCHANGED <<live, holder, last, wasted, cookie, tab, blended>>
      /\ r.status = "sent"
  BY DEF ServeRefresh, Replace, server
<1> HIDE DEF new
<1>3. /\ \A q \in reqs' : Redeemed(q) => q \in reqs
      /\ \A q \in reqs' : \E p \in reqs : q.sent = p.sent
      /\ \A q \in reqs : Redeemed(q) => q \in reqs'
  BY <1>1, <1>2 DEF Redeemed
<1>4. BrowserTypes'
  BY <1>2 DEF BrowserInv, BrowserTypes
<1>5. RequestTypes'
  BY <1>1, <1>2 DEF BrowserInv, RequestTypes
<1>6. SuccessorsFresh'
  <2> SUFFICES ASSUME NEW q \in reqs', Redeemed(q) PROVE Fresh(q)'
    BY DEF SuccessorsFresh
  <2> QED BY <1>2, <1>3 DEF BrowserInv, SuccessorsFresh, Fresh
<1>7. CookieKept'
  BY <1>2, <1>3 DEF BrowserInv, CookieKept
<1> QED BY <1>4, <1>5, <1>6, <1>7

\* A logout revokes the user's tokens.
LEMMA ServeLogoutRevokes ==
  ASSUME BrowserInv, NEW r \in reqs, ServeLogout(r)
  PROVE  BrowserTypes' /\ RequestTypes' /\ SuccessorsFresh' /\ CookieKept'
<1>1. PICK st \in {"ok", "refused"} :
        reqs' = (reqs \ {r}) \cup (IF r.tab = None THEN {} ELSE {[r EXCEPT !.status = st]})
  BY DEF ServeLogout, Replace
<1> DEFINE new == [r EXCEPT !.status = st]
<1>2. /\ live' \subseteq live /\ live' \cup wasted' = live \cup wasted
      /\ UNCHANGED <<holder, last, cookie, tab, blended>>
      /\ r.kind = "logout" /\ r.status = "sent"
  BY DEF ServeLogout
<1>3. /\ new \in RequestState /\ new.status = st /\ new.sent = r.sent /\ new.kind = "logout"
      /\ new.got = r.got /\ new.tries = r.tries /\ new.tab = r.tab
  BY <1>2 DEF BrowserInv, RequestTypes, RequestState
<1> HIDE DEF new
<1>4. /\ \A q \in reqs' : Redeemed(q) => q \in reqs
      /\ \A q \in reqs' : \E p \in reqs : q.sent = p.sent
      /\ \A q \in reqs : Redeemed(q) => q \in reqs'
  BY <1>1, <1>2, <1>3 DEF Redeemed, IsRefresh, new
<1>5. BrowserTypes'
  BY <1>2 DEF BrowserInv, BrowserTypes
<1>6. RequestTypes'
  BY <1>1, <1>2, <1>3 DEF BrowserInv, RequestTypes, new
<1>7. SuccessorsFresh'
  <2> SUFFICES ASSUME NEW q \in reqs', Redeemed(q) PROVE Fresh(q)'
    BY DEF SuccessorsFresh
  <2> QED BY <1>2, <1>4 DEF BrowserInv, SuccessorsFresh, Fresh
<1>8. CookieKept'
  BY <1>2, <1>4 DEF BrowserInv, CookieKept
<1> QED BY <1>5, <1>6, <1>7, <1>8

\* An answer brings the browser the successor of what a tab has sent.
LEMMA AnsweredKeeps ==
  ASSUME BrowserInv, NEW r \in reqs, Answered(r)
  PROVE  BrowserTypes' /\ RequestTypes' /\ SuccessorsFresh' /\ CookieKept'
<1>1. reqs' = reqs \ {r} /\ UNCHANGED <<live, holder, last, wasted>> /\ r.status = "ok"
  BY DEF Answered, server
<1>2. r.tab \in Tab
  BY <1>1 DEF BrowserInv, RequestTypes, RequestState
<1>3. RequestTypes'
  BY <1>1 DEF BrowserInv, RequestTypes
<1>4. CASE r.kind = "logout"
  <2>1. cookie' = 0 /\ UNCHANGED <<tab, blended>>
    BY <1>4 DEF Answered
  <2>2. BrowserTypes'
    BY <1>1, <2>1 DEF BrowserInv, BrowserTypes
  <2>3. CookieKept'
    BY <2>1 DEF CookieKept
  <2>4. SuccessorsFresh'
    BY <1>1, <2>1 DEF BrowserInv, SuccessorsFresh, Fresh, Redeemed
  <2> QED BY <1>3, <2>2, <2>3, <2>4
<1>5. CASE r.kind # "logout"
  <2> DEFINE u == holder[r.got]
  <2>1. /\ cookie' = r.got /\ blended' = blended \cup (Strangers(u) \ {r.tab})
        /\ tab' = [tab EXCEPT ![r.tab] =
             IF r.kind = "restore"
             THEN [WithToken(@, u) EXCEPT !.user = u, !.hydrated = TRUE]
             ELSE WithToken(@, u)]
    BY <1>5 DEF Answered
  <2>2. Redeemed(r) /\ Fresh(r) /\ r.got \in 1..last
    BY <1>1, <1>5
       DEF BrowserInv, SuccessorsFresh, Fresh, Redeemed, IsRefresh, RequestTypes, RequestState
  <2>3. u \in User \cup {None}
    BY <2>2, ClientSessionAssumption DEF BrowserInv, BrowserTypes, Token
  <2>4. /\ WithToken(tab[r.tab], u) \in TabState
        /\ [WithToken(tab[r.tab], u) EXCEPT !.user = u, !.hydrated = TRUE] \in TabState
    BY ZenonT(40), <1>2, <2>3 DEF BrowserInv, BrowserTypes, TabState, WithToken
  <2>5. tab' \in [Tab -> TabState]
    BY <2>1, <2>4 DEF BrowserInv, BrowserTypes
  <2>6. BrowserTypes'
    BY <1>1, <2>1, <2>2, <2>5 DEF BrowserInv, BrowserTypes, Strangers
  <2>7. CookieKept'
    BY <1>1, <2>1, <2>2 DEF CookieKept, Fresh
  <2>8. SuccessorsFresh'
    <3> SUFFICES ASSUME NEW q \in reqs', Redeemed(q) PROVE Fresh(q)'
      BY DEF SuccessorsFresh
    <3>1. q \in reqs /\ q # r /\ Fresh(q)
      BY <1>1 DEF BrowserInv, SuccessorsFresh
    <3>2. r.got # q.got
      BY <2>2, <3>1 DEF Fresh
    <3> QED BY <1>1, <2>1, <3>1, <3>2 DEF Fresh
  <2> QED BY <1>3, <2>6, <2>7, <2>8
<1> QED BY <1>4, <1>5

-----------------------------------------------------------------------------
(* What the tabs show and wait for.                                        *)

\* A page that is loaded has forgotten everything, and waits for its user.
LEMMA LoadKeeps ==
  ASSUME BrowserInv, NEW t \in Tab, Load(t)
  PROVE  Restoring' /\ TabsAgree'
<1> DEFINE new == Request(t, "restore", 0, None)
<1>1. /\ tab' = [tab EXCEPT ![t] = Closed] /\ UNCHANGED <<holder, cookie>>
      /\ reqs' = (reqs \ Of(t)) \cup Orphans(Of(t)) \cup {new} /\ blended' = blended \ {t}
  BY DEF Load, server
<1>2. new.tab = t /\ new.kind = "restore"
  BY DEF Request
<1> HIDE DEF new
<1>3. \A q \in Orphans(Of(t)) : q.tab = None
  BY OrphanPosted DEF Of, BrowserInv
<1>4. None # t
  BY ClientSessionAssumption
<1>5. \A q \in reqs' : \/ q \in reqs /\ q.tab # t
                       \/ q.tab = None
                       \/ q = new
  BY <1>1, <1>3 DEF Of
<1>6. tab \in [Tab -> TabState]
  BY DEF BrowserInv, BrowserTypes
<1>7. tab'[t] = Closed /\ \A x \in Tab \ {t} : tab'[x] = tab[x]
  BY <1>1, <1>6
<1>8. \A x \in Tab : TabShows(x)'
  <2> SUFFICES ASSUME NEW x \in Tab PROVE TabShows(x)'
    OBVIOUS
  <2>1. CASE x = t
    BY <1>7, <2>1 DEF TabShows, Closed
  <2>2. CASE x # t
    BY <1>7, <2>2 DEF BrowserInv, Restoring, TabShows
  <2> QED BY <2>1, <2>2
<1>9. \A q \in reqs' : q.tab # None => Awaited(q)'
  <2> SUFFICES ASSUME NEW q \in reqs', q.tab # None PROVE Awaited(q)'
    OBVIOUS
  <2>1. CASE q = new
    BY <1>2, <1>4, <1>5, <1>7, <2>1 DEF Awaited, Closed
  <2>2. CASE q \in reqs /\ q.tab # t
    <3>1. q.tab \in Tab \ {t} /\ Awaited(q)
      BY <2>2 DEF BrowserInv, RequestTypes, RequestState, Restoring
    <3>2. \A p \in reqs' : p.tab = q.tab => p \in reqs
      BY <1>2, <1>5, <2>2
    <3> QED BY <1>7, <3>1, <3>2 DEF Awaited
  <2> QED BY <1>5, <2>1, <2>2
<1>10. TabsAgree'
  <2> SUFFICES ASSUME NEW x \in Tab, x \notin blended' PROVE Agrees(x)' /\ \A q \in reqs' : SentFor(q, x)'
    BY DEF TabsAgree
  <2>1. CASE x = t
    <3>1. Agrees(x)'
      BY <1>7, <2>1 DEF Agrees, Closed
    <3>2. \A q \in reqs' : SentFor(q, x)'
      BY <1>2, <1>4, <1>5, <2>1 DEF SentFor
    <3> QED BY <3>1, <3>2
  <2>2. CASE x # t
    <3>1. Agrees(x) /\ \A q \in reqs : SentFor(q, x)
      BY <1>1, <2>2 DEF BrowserInv, TabsAgree
    <3>2. \A q \in reqs' : q.tab = x => q \in reqs
      BY <1>2, <1>5, <2>2, ClientSessionAssumption
    <3>3. Agrees(x)'
      BY <1>1, <1>7, <2>2, <3>1 DEF Agrees
    <3>4. \A q \in reqs' : SentFor(q, x)'
      BY <1>1, <1>7, <2>2, <3>1, <3>2 DEF SentFor
    <3> QED BY <3>3, <3>4
  <2> QED BY <2>1, <2>2
<1> QED BY <1>8, <1>9, <1>10 DEF Restoring

\* What a tab shows when it is given a token,
LEMMA TokenGiven ==
  ASSUME NEW tb \in TabState, NEW u \in User \cup {None}
  PROVE  LET with == WithToken(tb, u) IN
         /\ with \in TabState
         /\ with.user = tb.user /\ with.token = u /\ with.initialized
         /\ with.hydrated = tb.hydrated
         /\ with.socket = IF tb.initialized THEN tb.socket ELSE u
<1>1. CASE tb.initialized
  BY <1>1 DEF WithToken, TabState
<1>2. CASE ~tb.initialized
  BY <1>2 DEF WithToken, TabState
<1> QED BY <1>1, <1>2

\* and a user with it.
LEMMA UserGiven ==
  ASSUME NEW tb \in TabState, NEW u \in User \cup {None}
  PROVE  LET both == [tb EXCEPT !.user = u]
             shown == [tb EXCEPT !.user = u, !.hydrated = TRUE]
         IN /\ both.user = u /\ both.token = tb.token /\ both.socket = tb.socket
            /\ both.hydrated = tb.hydrated /\ both.initialized = tb.initialized
            /\ shown.user = u /\ shown.token = tb.token /\ shown.socket = tb.socket
            /\ shown.hydrated = TRUE /\ shown.initialized = tb.initialized
BY DEF TabState

\* A login is that of a tab whose user is the same or nobody, and whose socket
\* will be his, or it is noted.
LEMMA LoginKeeps ==
  ASSUME BrowserInv, NEW t \in Tab, NEW u \in User, Login(t, u)
  PROVE  Restoring' /\ TabsAgree'
<1> DEFINE tb == [WithToken(tab[t], u) EXCEPT !.user = u]
<1>1. /\ tab' = [tab EXCEPT ![t] = tb] /\ reqs' = reqs /\ cookie' = last + 1
      /\ tab[t].hydrated
      /\ holder' = [holder EXCEPT ![last + 1] = u]
      /\ blended' = blended \cup Strangers(u)
                    \cup {s \in {t} : Refreshing(s) # {} \/ KeepsSocket(s, u)}
  BY DEF Login
<1>2. tab[t] \in TabState /\ tab \in [Tab -> TabState]
  BY DEF BrowserInv, BrowserTypes
<1>3. /\ tb.user = u /\ tb.token = u /\ tb.initialized /\ tb.hydrated
      /\ tb.socket = IF tab[t].initialized THEN tab[t].socket ELSE u
  BY <1>1, <1>2, TokenGiven, UserGiven
<1> HIDE DEF tb
<1>4. tab'[t] = tb /\ \A x \in Tab \ {t} : tab'[x] = tab[x]
  BY <1>1, <1>2
<1>5. /\ last + 1 \in Token /\ last \in Nat /\ holder'[last + 1] = u
      /\ \A m \in 1..last : holder'[m] = holder[m]
  BY <1>1, ClientSessionAssumption DEF Login, BrowserInv, BrowserTypes, Token
<1>6. \A x \in Tab : TabShows(x)'
  BY <1>3, <1>4, ClientSessionAssumption DEF BrowserInv, Restoring, TabShows
<1>7. \A q \in reqs' : q.tab # None => Awaited(q)'
  <2> SUFFICES ASSUME NEW q \in reqs, q.tab # None PROVE Awaited(q)'
    BY <1>1
  <2>1. q.tab \in Tab /\ Awaited(q)
    BY DEF BrowserInv, RequestTypes, RequestState, Restoring
  <2>2. CASE q.tab = t
    BY <1>1, <1>3, <1>4, <2>1, <2>2 DEF Awaited
  <2>3. CASE q.tab # t
    BY <1>1, <1>4, <2>1, <2>3 DEF Awaited
  <2> QED BY <2>2, <2>3
<1>8. TabsAgree'
  <2> SUFFICES ASSUME NEW x \in Tab, x \notin blended' PROVE Agrees(x)' /\ \A q \in reqs' : SentFor(q, x)'
    BY DEF TabsAgree
  <2>1. /\ tab[x].user \in {None, u} /\ (x = t => Refreshing(t) = {} /\ ~KeepsSocket(t, u))
        /\ Agrees(x) /\ \A q \in reqs : SentFor(q, x)
    BY <1>1 DEF Strangers, BrowserInv, TabsAgree
  <2>2. \A q \in reqs : q.sent \in 0..last
    BY <1>5 DEF BrowserInv, RequestTypes, RequestState
  <2>3. CASE x = t
    <3>1. Agrees(x)'
      <4>1. tab[t].initialized => tab[t].socket = u
        BY <2>1, <2>3 DEF KeepsSocket, BrowserInv, Restoring, TabShows
      <4> QED BY <1>1, <1>3, <1>4, <1>5, <2>3, <4>1 DEF Agrees
    <3>2. \A q \in reqs' : SentFor(q, x)'
      BY <1>1, <2>1, <2>3 DEF SentFor, Refreshing, Of
    <3> QED BY <3>1, <3>2
  <2>4. CASE x # t
    <3>1. Agrees(x)'
      BY <1>1, <1>4, <1>5, <2>1, <2>4 DEF Agrees
    <3>2. \A q \in reqs' : SentFor(q, x)'
      BY <1>1, <1>4, <1>5, <2>1, <2>2, <2>4 DEF SentFor
    <3> QED BY <3>1, <3>2
  <2> QED BY <2>3, <2>4
<1> QED BY <1>6, <1>7, <1>8 DEF Restoring

\* A tab that logs out shows nobody.
LEMMA LogoutKeeps ==
  ASSUME BrowserInv, NEW t \in Tab, Logout(t)
  PROVE  Restoring' /\ TabsAgree'
<1>1. PICK u \in {tab[t].token, None} : reqs' = reqs \cup {Request(t, "logout", 0, u)}
  BY DEF Logout
<1> DEFINE new == Request(t, "logout", 0, u)
           tb == LoggedOut(tab[t])
<1>2. new.tab = t /\ new.kind = "logout" /\ t # None
  BY ClientSessionAssumption DEF Request
<1>3. /\ tab' = [tab EXCEPT ![t] = tb] /\ UNCHANGED <<holder, cookie>> /\ tab[t].hydrated
      /\ blended' = blended
  BY DEF Logout, server, history, BrowserInv, Restoring, TabShows
<1>4. tab[t] \in TabState /\ tab \in [Tab -> TabState]
  BY DEF BrowserInv, BrowserTypes
<1>5. tb.user = None /\ tb.token = None /\ ~tb.initialized /\ tb.hydrated
  BY <1>3, <1>4 DEF LoggedOut, TabState
<1> HIDE DEF new, tb
<1>6. tab'[t] = tb /\ \A x \in Tab \ {t} : tab'[x] = tab[x]
  BY <1>3, <1>4
<1>7. \A q \in reqs' : q \in reqs \/ q = new
  BY <1>1 DEF new
<1>8. \A x \in Tab : TabShows(x)'
  BY <1>5, <1>6 DEF BrowserInv, Restoring, TabShows
<1>9. \A q \in reqs' : q.tab # None => Awaited(q)'
  <2> SUFFICES ASSUME NEW q \in reqs', q.tab # None PROVE Awaited(q)'
    OBVIOUS
  <2>1. CASE q = new
    BY <1>2, <1>5, <1>6, <2>1 DEF Awaited
  <2>2. CASE q \in reqs
    <3>1. q.tab \in Tab /\ Awaited(q)
      BY <2>2 DEF BrowserInv, RequestTypes, RequestState, Restoring
    <3>2. CASE q.tab = t
      BY <1>3, <1>5, <1>6, <3>1, <3>2 DEF Awaited
    <3>3. CASE q.tab # t
      BY <1>2, <1>6, <1>7, <3>1, <3>3 DEF Awaited
    <3> QED BY <3>2, <3>3
  <2> QED BY <1>7, <2>1, <2>2
<1>10. TabsAgree'
  <2> SUFFICES ASSUME NEW x \in Tab, x \notin blended' PROVE Agrees(x)' /\ \A q \in reqs' : SentFor(q, x)'
    BY DEF TabsAgree
  <2>1. Agrees(x) /\ \A q \in reqs : SentFor(q, x)
    BY <1>3 DEF BrowserInv, TabsAgree
  <2>2. CASE x = t
    <3>1. Agrees(x)'
      BY <1>5, <1>6, <2>2 DEF Agrees
    <3>2. \A q \in reqs' : SentFor(q, x)'
      BY <1>5, <1>6, <2>2 DEF SentFor
    <3> QED BY <3>1, <3>2
  <2>3. CASE x # t
    <3>1. Agrees(x)'
      BY <1>3, <1>6, <2>1, <2>3 DEF Agrees
    <3>2. \A q \in reqs' : SentFor(q, x)'
      BY <1>2, <1>3, <1>6, <1>7, <2>1, <2>3 DEF SentFor
    <3> QED BY <3>1, <3>2
  <2> QED BY <2>2, <2>3
<1> QED BY <1>8, <1>9, <1>10 DEF Restoring

\* A tab that refreshes its token sends the cookie, which is its user's.
LEMMA RefreshKeeps ==
  ASSUME BrowserInv, NEW t \in Tab, NEW kind \in {"timer", "api"},
         tab[t].hydrated, RefreshBy(t, kind)
  PROVE  Restoring' /\ TabsAgree'
<1> DEFINE new == Request(t, kind, 0, None)
<1>1. /\ reqs' = reqs \cup {new} /\ UNCHANGED <<holder, cookie, tab, blended>>
      /\ tab[t].hydrated
  BY DEF RefreshBy, server, history
<1>2. new.tab = t /\ new.kind = kind /\ new.sent = cookie /\ t # None
  BY ClientSessionAssumption DEF Request
<1> HIDE DEF new
<1>3. \A x \in Tab : TabShows(x)'
  BY <1>1 DEF BrowserInv, Restoring, TabShows
<1>4. \A q \in reqs' : q.tab # None => Awaited(q)'
  <2> SUFFICES ASSUME NEW q \in reqs', q.tab # None PROVE Awaited(q)'
    OBVIOUS
  <2>1. CASE q = new
    BY <1>1, <1>2, <2>1 DEF Awaited
  <2>2. CASE q \in reqs
    <3>1. Awaited(q)
      BY <2>2 DEF BrowserInv, Restoring
    <3> QED BY <1>1, <1>2, <3>1 DEF Awaited
  <2> QED BY <1>1, <2>1, <2>2
<1>5. TabsAgree'
  <2> SUFFICES ASSUME NEW x \in Tab, x \notin blended' PROVE Agrees(x)' /\ \A q \in reqs' : SentFor(q, x)'
    BY DEF TabsAgree
  <2>1. Agrees(x) /\ \A q \in reqs : SentFor(q, x)
    BY <1>1 DEF BrowserInv, TabsAgree
  <2>2. Agrees(x)'
    BY <1>1, <2>1 DEF Agrees
  <2>3. SentFor(new, x)
    BY <1>2, <2>1 DEF SentFor, Agrees
  <2> QED BY <1>1, <2>1, <2>2, <2>3 DEF SentFor
<1> QED BY <1>3, <1>4, <1>5 DEF Restoring

\* A request takes the place of another, or none does, and no tab changes.
LEMMA ReplacedKeeps ==
  ASSUME BrowserInv, NEW r \in reqs, NEW new,
         new.tab = r.tab, new.kind = r.kind, new.sent \in {r.sent, cookie},
         UNCHANGED <<tab, blended, cookie>>, \A m \in 1..last : holder'[m] = holder[m],
         \A q \in reqs' : q.tab # None => (q \in reqs /\ q # r) \/ q = new
  PROVE  Restoring' /\ TabsAgree'
<1>1. \A x \in Tab : TabShows(x)'
  BY DEF BrowserInv, Restoring, TabShows
<1>2. \A q \in reqs : q.tab # None => Awaited(q)
  BY DEF BrowserInv, Restoring
<1>3. \A q \in reqs' : q.tab # None => Awaited(q)'
  <2> SUFFICES ASSUME NEW q \in reqs', q.tab # None PROVE Awaited(q)'
    OBVIOUS
  <2>1. CASE q = new
    BY <1>2, <2>1 DEF Awaited
  <2>2. CASE q \in reqs /\ q # r
    BY <1>2, <2>2 DEF Awaited
  <2> QED BY <2>1, <2>2
<1>4. TabsAgree'
  <2> SUFFICES ASSUME NEW x \in Tab, x \notin blended' PROVE Agrees(x)' /\ \A q \in reqs' : SentFor(q, x)'
    BY DEF TabsAgree
  <2>1. Agrees(x) /\ \A q \in reqs : SentFor(q, x)
    BY DEF BrowserInv, TabsAgree
  <2>2. /\ cookie # 0 => holder'[cookie] = holder[cookie]
        /\ \A q \in reqs : q.sent # 0 => holder'[q.sent] = holder[q.sent]
    <3>1. /\ last \in Nat /\ cookie \in 0..last
          /\ \A q \in reqs : q.sent \in Nat /\ q.sent <= last
      BY ClientSessionAssumption DEF BrowserInv, BrowserTypes, RequestTypes, RequestState
    <3> QED BY <3>1
  <2>3. Agrees(x)'
    BY <2>1, <2>2 DEF Agrees
  <2>4. \A q \in reqs' : SentFor(q, x)'
    <3> SUFFICES ASSUME NEW q \in reqs', q.tab = x, q.kind \in {"api", "timer"},
                        tab[x].user # None, q.sent # 0
                 PROVE  holder'[q.sent] = tab[x].user
      BY DEF SentFor
    <3>1. x # None
      BY ClientSessionAssumption
    <3>2. CASE q \in reqs
      BY <2>1, <2>2, <3>2 DEF SentFor
    <3>3. CASE q = new
      BY <2>1, <2>2, <3>3 DEF SentFor, Agrees
    <3> QED BY <3>1, <3>2, <3>3
  <2> QED BY <2>3, <2>4
<1> QED BY <1>1, <1>3, <1>4 DEF Restoring

\* A tab whose restoring has failed shows nobody, and waits for nothing.
LEMMA RestoreFailsKeeps ==
  ASSUME BrowserInv, NEW r \in reqs, r.kind = "restore", r.tab \in Tab,
         tab' = [tab EXCEPT ![r.tab] = [LoggedOut(@) EXCEPT !.hydrated = TRUE]],
         UNCHANGED <<holder, cookie, blended>>,
         \A q \in reqs' : q.tab # None => q \in reqs /\ q # r
  PROVE  Restoring' /\ TabsAgree'
<1> DEFINE t == r.tab
           tb == [LoggedOut(tab[t]) EXCEPT !.hydrated = TRUE]
<1>1. tab[t] \in TabState /\ tab \in [Tab -> TabState] /\ t # None
  BY ClientSessionAssumption DEF BrowserInv, BrowserTypes
<1>2. tb.user = None /\ tb.token = None /\ ~tb.initialized /\ tb.hydrated
  BY <1>1 DEF LoggedOut, TabState
<1> HIDE DEF tb
<1>3. tab'[t] = tb /\ \A x \in Tab \ {t} : tab'[x] = tab[x]
  BY <1>1 DEF tb
<1>4. \A q \in reqs' : q.tab # None => q \in reqs /\ q.tab \in Tab \ {t} /\ Awaited(q)
  BY <1>1 DEF BrowserInv, Restoring, Awaited, RequestTypes, RequestState
<1>5. \A x \in Tab : TabShows(x)'
  BY <1>2, <1>3 DEF BrowserInv, Restoring, TabShows
<1>6. \A q \in reqs' : q.tab # None => Awaited(q)'
  BY <1>3, <1>4 DEF Awaited
<1>7. TabsAgree'
  <2> SUFFICES ASSUME NEW x \in Tab, x \notin blended' PROVE Agrees(x)' /\ \A q \in reqs' : SentFor(q, x)'
    BY DEF TabsAgree
  <2>1. Agrees(x) /\ (\A q \in reqs : SentFor(q, x)) /\ x # None
    BY ClientSessionAssumption DEF BrowserInv, TabsAgree
  <2>2. CASE x = t
    BY <1>2, <1>3, <1>4, <2>1, <2>2 DEF Agrees, SentFor
  <2>3. CASE x # t
    BY <1>3, <1>4, <2>1, <2>3 DEF Agrees, SentFor
  <2> QED BY <2>2, <2>3
<1> QED BY <1>5, <1>6, <1>7 DEF Restoring

\* Each request that is served, refused or lost is one of these cases,
LEMMA ServedKeeps ==
  ASSUME BrowserInv, NEW r \in reqs, ServeRefresh(r) \/ ServeLogout(r)
  PROVE  Restoring' /\ TabsAgree'
<1>1. /\ last \in Nat /\ last \in 0..MaxTokens /\ holder \in [Token -> User \cup {None}]
      /\ r \in RequestState
  BY ClientSessionAssumption DEF BrowserInv, BrowserTypes, RequestTypes
<1>2. CASE ServeRefresh(r)
  <2>1. PICK st \in {"ok", "refused"}, g \in {r.got, last'} :
          \A q \in reqs' : (q \in reqs /\ q # r) \/ q = [r EXCEPT !.status = st, !.got = g]
    <3>1. CASE r.sent \in live
      BY <1>2, <3>1 DEF ServeRefresh, Replace
    <3>2. CASE r.sent \notin live
      <4>1. [r EXCEPT !.status = "refused", !.got = r.got] = [r EXCEPT !.status = "refused"]
        BY <1>1 DEF RequestState
      <4> QED BY <1>2, <3>2, <4>1 DEF ServeRefresh, Replace
    <3> QED BY <3>1, <3>2
  <2> DEFINE new == [r EXCEPT !.status = st, !.got = g]
  <2>2. new.tab = r.tab /\ new.kind = r.kind /\ new.sent = r.sent
    BY <1>1 DEF RequestState
  <2>3. UNCHANGED <<tab, blended, cookie>> /\ \A m \in 1..last : holder'[m] = holder[m]
    <3>1. CASE r.sent \in live
      <4>1. last' = last + 1 /\ holder' = [holder EXCEPT ![last'] = holder[r.sent]]
        BY <1>2, <3>1 DEF ServeRefresh
      <4>2. \A m \in 1..last : m \in Token /\ m # last + 1
        BY <1>1, ClientSessionAssumption DEF Token
      <4>3. \A m \in Token : m # last + 1 => holder'[m] = holder[m]
        BY <1>1, <4>1
      <4> QED BY <1>2, <4>2, <4>3 DEF ServeRefresh
    <3>2. CASE r.sent \notin live
      BY <1>2, <3>2 DEF ServeRefresh, server
    <3> QED BY <3>1, <3>2
  <2> HIDE DEF new
  <2> QED BY <2>1, <2>2, <2>3, ReplacedKeeps DEF new
<1>3. CASE ServeLogout(r)
  <2>1. PICK st \in {"ok", "refused"} :
          \A q \in reqs' : (q \in reqs /\ q # r) \/ q = [r EXCEPT !.status = st]
    BY <1>3 DEF ServeLogout, Replace
  <2> DEFINE new == [r EXCEPT !.status = st]
  <2>2. new.tab = r.tab /\ new.kind = r.kind /\ new.sent = r.sent
    BY <1>1 DEF RequestState
  <2>3. UNCHANGED <<tab, blended, cookie, holder>>
    BY <1>3 DEF ServeLogout
  <2> HIDE DEF new
  <2> QED BY <2>1, <2>2, <2>3, ReplacedKeeps DEF new
<1> QED BY <1>2, <1>3

LEMMA RefusedKeeps ==
  ASSUME BrowserInv, NEW r \in reqs, Refused(r)
  PROVE  Restoring' /\ TabsAgree'
<1>1. UNCHANGED <<holder, cookie, blended>> /\ r.tab \in Tab
  BY DEF Refused, server, history, BrowserInv, RequestTypes, RequestState
<1>2. CASE r.kind = "restore" /\ r.tries < Retries
  <2> DEFINE new == Request(r.tab, r.kind, r.tries + 1, None)
  <2>1. new.tab = r.tab /\ new.kind = r.kind /\ new.sent = cookie
    BY DEF Request
  <2>2. tab' = tab /\ \A q \in reqs' : (q \in reqs /\ q # r) \/ q = new
    BY <1>2 DEF Refused, RestoreFails
  <2> HIDE DEF new
  <2> QED BY <1>1, <2>1, <2>2, ReplacedKeeps
<1>3. CASE r.kind = "restore" /\ ~(r.tries < Retries)
  <2>1. /\ reqs' = reqs \ {r}
        /\ tab' = [tab EXCEPT ![r.tab] = [LoggedOut(@) EXCEPT !.hydrated = TRUE]]
    BY <1>3 DEF Refused, RestoreFails
  <2> QED BY <1>1, <1>3, <2>1, RestoreFailsKeeps
<1>4. CASE r.kind # "restore"
  BY <1>1, <1>4, ReplacedKeeps DEF Refused
<1> QED BY <1>2, <1>3, <1>4

LEMMA LostKeeps ==
  ASSUME BrowserInv, NEW r \in reqs, Lost(r)
  PROVE  Restoring' /\ TabsAgree'
<1> DEFINE new == Request(r.tab, r.kind, r.tries + 1, None)
           others == (reqs \ {r}) \cup Orphans({r})
<1>1. UNCHANGED <<holder, cookie, blended>> /\ r.tab \in Tab
  BY DEF Lost, server, BrowserInv, RequestTypes, RequestState
<1>2. new.tab = r.tab /\ new.kind = r.kind /\ new.sent = cookie
  BY DEF Request
<1>3. \A q \in others : q.tab # None => q \in reqs /\ q # r
  BY OrphanPosted DEF BrowserInv
<1>4. CASE r.kind = "restore" /\ ~(r.tries < Retries)
  <2>1. /\ reqs' = others
        /\ tab' = [tab EXCEPT ![r.tab] = [LoggedOut(@) EXCEPT !.hydrated = TRUE]]
    BY <1>4 DEF Lost, RestoreFails
  <2> QED BY <1>1, <1>3, <1>4, <2>1, RestoreFailsKeeps
<1>5. CASE ~(r.kind = "restore" /\ ~(r.tries < Retries))
  <2> HIDE DEF new, others
  <2>1. tab' = tab /\ reqs' \subseteq others \cup {new}
    <3>1. CASE r.kind = "restore"
      BY <1>5, <3>1 DEF Lost, RestoreFails, new, others
    <3>2. CASE r.kind = "api"
      BY <3>2 DEF Lost, new, others
    <3>3. CASE r.kind \notin {"restore", "api"}
      BY <3>3 DEF Lost, new, others
    <3> QED BY <3>1, <3>2, <3>3
  <2> QED BY <1>1, <1>2, <1>3, <2>1, ReplacedKeeps
<1> QED BY <1>4, <1>5

\* An answer to a tab is about its user, and other tabs that are not are noted.
LEMMA AnsweredAgrees ==
  ASSUME BrowserInv, NEW r \in reqs, Answered(r)
  PROVE  Restoring' /\ TabsAgree'
<1>1. /\ reqs' = reqs \ {r} /\ holder' = holder /\ r.status = "ok" /\ r.tab \in Tab
      /\ r.kind \in Kind
  BY DEF Answered, server, BrowserInv, RequestTypes, RequestState
<1>2. CASE r.kind = "logout"
  <2>1. cookie' = 0 /\ UNCHANGED <<tab, blended>>
    BY <1>2 DEF Answered
  <2>2. \A x \in Tab : TabShows(x)'
    BY <2>1 DEF BrowserInv, Restoring, TabShows
  <2>3. \A q \in reqs' : q.tab # None => Awaited(q)'
    BY <1>1, <2>1 DEF BrowserInv, Restoring, Awaited
  <2>4. TabsAgree'
    BY <1>1, <2>1 DEF BrowserInv, TabsAgree, Agrees, SentFor
  <2> QED BY <2>2, <2>3, <2>4 DEF Restoring
<1>3. CASE r.kind # "logout"
  <2> DEFINE u == holder[r.got]
             t == r.tab
             tb == IF r.kind = "restore"
                   THEN [WithToken(tab[t], u) EXCEPT !.user = u, !.hydrated = TRUE]
                   ELSE WithToken(tab[t], u)
  <2>1. /\ cookie' = r.got /\ blended' = blended \cup (Strangers(u) \ {t})
        /\ tab' = [tab EXCEPT ![t] = tb]
    BY <1>3 DEF Answered
  <2>2. /\ u = holder[r.sent] /\ r.sent # 0 /\ r.got \in 1..last
        /\ Awaited(r) /\ t # None /\ t \in Tab
    BY <1>1, <1>3, ClientSessionAssumption
       DEF BrowserInv, SuccessorsFresh, Fresh, Redeemed, IsRefresh, RequestTypes, RequestState,
           Restoring
  <2>3. u \in User \cup {None}
    BY <2>2, ClientSessionAssumption DEF BrowserInv, BrowserTypes, Token
  <2>4. tab[t] \in TabState /\ tab \in [Tab -> TabState]
    BY <1>1 DEF BrowserInv, BrowserTypes
  <2>5. /\ tb.token = u /\ tb.initialized
        /\ tb.socket = IF tab[t].initialized THEN tab[t].socket ELSE u
        /\ r.kind = "restore" => tb.user = u /\ tb.hydrated
        /\ r.kind # "restore" => tb.user = tab[t].user /\ tb.hydrated = tab[t].hydrated
    <3>1. CASE r.kind = "restore"
      BY <2>3, <2>4, <3>1, TokenGiven, UserGiven
    <3>2. CASE r.kind # "restore"
      BY <2>3, <2>4, <3>2, TokenGiven
    <3> QED BY <3>1, <3>2
  <2>6. tb.hydrated
    BY <2>2, <2>5 DEF Awaited
  <2> HIDE DEF tb
  <2>7. tab'[t] = tb /\ \A x \in Tab \ {t} : tab'[x] = tab[x]
    BY <2>1, <2>2, <2>4
  <2>8. \A x \in Tab : TabShows(x)'
    <3>1. u # None
      BY <2>2, ClientSessionAssumption DEF BrowserInv, BrowserTypes
    <3> QED BY <2>5, <2>6, <2>7, <3>1 DEF BrowserInv, Restoring, TabShows
  <2>9. \A q \in reqs' : q.tab # None => Awaited(q)'
    <3> SUFFICES ASSUME NEW q \in reqs', q.tab # None PROVE Awaited(q)'
      OBVIOUS
    <3>1. q \in reqs /\ q # r /\ Awaited(q) /\ q.tab \in Tab
      BY <1>1 DEF BrowserInv, Restoring, RequestTypes, RequestState
    <3>2. CASE q.tab = t
      BY <1>1, <2>6, <2>7, <3>1, <3>2 DEF Awaited
    <3>3. CASE q.tab # t
      BY <1>1, <2>7, <3>1, <3>3 DEF Awaited
    <3> QED BY <3>2, <3>3
  <2>10. TabsAgree'
    <3> SUFFICES ASSUME NEW x \in Tab, x \notin blended' PROVE Agrees(x)' /\ \A q \in reqs' : SentFor(q, x)'
      BY DEF TabsAgree
    <3>1. Agrees(x) /\ \A q \in reqs : SentFor(q, x)
      BY <2>1 DEF BrowserInv, TabsAgree
    <3>2. holder'[cookie'] = u
      BY <1>1, <2>1
    <3>3. CASE x = t /\ r.kind = "restore"
      <4>1. tab[t] = Closed
        BY <2>2, <3>3 DEF BrowserInv, Restoring, TabShows, Awaited
      <4>2. tb.user = u /\ tb.socket = u
        BY <2>5, <3>3, <4>1 DEF Closed
      <4>3. u # None
        BY <2>2, ClientSessionAssumption DEF BrowserInv, BrowserTypes
      <4>4. Agrees(x)'
        BY <2>5, <2>7, <3>2, <3>3, <4>2, <4>3 DEF Agrees
      <4>5. \A q \in reqs' : q.tab # x
        BY <1>1, <2>2, <3>3 DEF Awaited
      <4> QED BY <4>4, <4>5 DEF SentFor
    <3>4. CASE x = t /\ r.kind # "restore"
      <4>1. tab[x].user # None => tab[x].user = u
        BY <1>1, <1>3, <2>2, <3>1, <3>4 DEF SentFor, Kind
      <4>2. tab[x].user # None => tb.user = u /\ tb.socket \in {None, u}
        BY <2>5, <3>1, <3>4, <4>1 DEF Agrees
      <4>3. Agrees(x)'
        BY <2>5, <2>7, <3>2, <3>4, <4>1, <4>2 DEF Agrees
      <4>4. \A q \in reqs' : SentFor(q, x)'
        BY <1>1, <2>5, <2>7, <3>1, <3>4 DEF SentFor
      <4> QED BY <4>3, <4>4
    <3>5. CASE x # t
      <4>1. tab[x].user \in {None, u}
        BY <2>1, <3>5 DEF Strangers
      <4>2. Agrees(x)'
        BY <2>7, <3>1, <3>2, <3>5, <4>1 DEF Agrees
      <4>3. \A q \in reqs' : SentFor(q, x)'
        BY <1>1, <2>7, <3>1, <3>5 DEF SentFor
      <4> QED BY <4>2, <4>3
    <3> QED BY <3>3, <3>4, <3>5
  <2> QED BY <2>8, <2>9, <2>10 DEF Restoring
<1> QED BY <1>2, <1>3

-----------------------------------------------------------------------------
(* Every step of the browser.                                              *)

LEMMA BrowserInit == Init => BrowserInv
BY ClientSessionAssumption
   DEF Init, BrowserInv, BrowserTypes, RequestTypes, SuccessorsFresh, CookieKept, Restoring,
       TabShows, TabsAgree, Agrees, SentFor, TabState, Closed, Token

LEMMA BrowserStep == BrowserInv /\ [Next]_vars => BrowserInv'
<1> SUFFICES ASSUME BrowserInv, [Next]_vars PROVE BrowserInv'
  OBVIOUS
<1>1. ASSUME NEW t \in Tab, Load(t) PROVE BrowserInv'
  BY <1>1, LoadSends, LoadKeeps, SendingTypes, SendingFresh DEF BrowserInv
<1>2. ASSUME NEW t \in Tab, Logout(t) PROVE BrowserInv'
  BY <1>2, LogoutSends, LogoutKeeps, SendingTypes, SendingFresh DEF BrowserInv
<1>3. ASSUME NEW t \in Tab, NEW kind \in {"timer", "api"},
             tab[t].hydrated, RefreshBy(t, kind)
      PROVE  BrowserInv'
  BY <1>3, RefreshSends, RefreshKeeps, SendingTypes, SendingFresh DEF BrowserInv
<1>4. ASSUME NEW t \in Tab, NEW u \in User, Login(t, u) PROVE BrowserInv'
  BY <1>4, LoginIssues, LoginKeeps DEF BrowserInv
<1>5. ASSUME NEW r \in reqs, ServeRefresh(r) PROVE BrowserInv'
  BY <1>5, ServeRefreshRedeems, ServeRefreshRefuses, ServedKeeps DEF BrowserInv
<1>6. ASSUME NEW r \in reqs, ServeLogout(r) PROVE BrowserInv'
  BY <1>6, ServeLogoutRevokes, ServedKeeps DEF BrowserInv
<1>7. ASSUME NEW r \in reqs, Answered(r) PROVE BrowserInv'
  BY <1>7, AnsweredKeeps, AnsweredAgrees DEF BrowserInv
<1>8. ASSUME NEW r \in reqs, Refused(r) PROVE BrowserInv'
  BY <1>8, RefusedSends, RefusedKeeps, SendingTypes, SendingFresh DEF BrowserInv
<1>9. ASSUME NEW r \in reqs, Lost(r) PROVE BrowserInv'
  BY <1>9, LostSends, LostKeeps, SendingTypes, SendingFresh DEF BrowserInv
<1>10. ASSUME NEW t \in Tab, Timer(t) \/ TryRefreshAccessToken(t) PROVE BrowserInv'
  <2>1. tab[t].hydrated
    BY <1>10 DEF Timer, TryRefreshAccessToken, BrowserInv, Restoring, TabShows
  <2> QED BY <1>3, <1>10, <2>1 DEF Timer, TryRefreshAccessToken
<1>11. CASE UNCHANGED vars
  BY <1>11 DEF vars, server, history, BrowserInv, BrowserTypes, RequestTypes, SuccessorsFresh,
               Fresh, CookieKept, Restoring, TabShows, Awaited, TabsAgree, Agrees, SentFor
<1> QED BY <1>1, <1>2, <1>4, <1>5, <1>6, <1>7, <1>8, <1>9, <1>10, <1>11 DEF Next

LEMMA BrowserInvariant == Spec => []BrowserInv
BY BrowserInit, BrowserStep, PTL DEF Spec

(***************************************************************************)
(* The types of ClientSession: no token is in use that was not issued, a   *)
(* page that is loaded shows nothing until it knows its user, and an       *)
(* access token belongs to a tab that knows whether it has a user.         *)
(***************************************************************************)
THEOREM BrowserTypeCorrect == Spec => []TypeOK
<1>1. BrowserInv => TypeOK
  BY ClientSessionAssumption
     DEF BrowserInv, BrowserTypes, RequestTypes, RequestState, Restoring, TabShows, TabState, TypeOK
<1> QED BY <1>1, BrowserInvariant, PTL

(***************************************************************************)
(* The tabs of a browser redeem a cookie that can be redeemed once: for    *)
(* every number of tabs, tokens and requests under way it never stays      *)
(* dead, except by a logout or by the loss of an answer.                   *)
(***************************************************************************)
THEOREM CookieStaysGood == Spec => []CookieLives
<1>1. BrowserInv => CookieLives
  BY DEF BrowserInv, CookieKept, CookieLives, Redeemed
<1> QED BY <1>1, BrowserInvariant, PTL

(***************************************************************************)
(* A tab that shows a user acts, and listens, for him, as long as no other *)
(* tab has given the cookie to another user, and he has not logged in over *)
(* another user, over a token come back after a logout or in a refresh.    *)
(***************************************************************************)
THEOREM TabsActForTheirUser == Spec => []OneUserPerTab
<1>1. BrowserInv => OneUserPerTab
  <2> SUFFICES ASSUME BrowserInv, NEW t \in Tab \ blended, tab[t].user # None
               PROVE  {tab[t].token, tab[t].socket} \subseteq {None, tab[t].user}
    BY DEF OneUserPerTab
  <2>1. Agrees(t)
    BY DEF BrowserInv, TabsAgree
  <2> QED BY <2>1 DEF Agrees
<1> QED BY <1>1, BrowserInvariant, PTL

-----------------------------------------------------------------------------
(* The phone.                                                              *)

Pending(f) == f.step # "orphan"
Carries(f) == f.step = "answered" /\ f.got # 0

PhoneTypes ==
  /\ issued \in 0..MaxIssued /\ good \subseteq 1..issued
  /\ owner \in [1..MaxIssued -> Person \cup {NoPerson}]
  /\ stored \in 0..issued
  /\ app \in [on : BOOLEAN, hydrated : BOOLEAN, user : Person \cup {NoPerson},
              refresh : 0..MaxIssued]
  /\ app.refresh <= issued
  /\ flows \subseteq Flow
  /\ \A f \in flows : f.sent <= issued /\ f.got <= issued
  /\ {mixed, left} \subseteq BOOLEAN

\* The steps of a flow of each kind, and what it carries.
FlowOK(f) ==
  /\ f.kind \in {"logout", "refused"} => f.step \in {"sent", "clear", "cleared", "orphan"}
  /\ f.kind \notin {"logout", "refused"} => f.step \in {"sent", "answered", "stored", "orphan"}
  /\ f.step = "stored" => f.got # 0
  /\ f.step \notin {"answered", "stored"} => f.got = 0
  /\ f.kind \notin {"restore", "refresh"} => f.sent = 0

FlowsOK == \A f \in flows : FlowOK(f)

\* Nobody has the token in an answer before it is stored.
AnswerFresh(f) ==
  /\ f.got \in good \cup spent
  /\ stored # f.got /\ app.refresh # f.got
  /\ \A g \in flows : g.sent # f.got /\ (g.got = f.got => g = f)

AnswersFresh == \A f \in flows : Carries(f) => AnswerFresh(f)

\* Nothing else is under way while the app is launched, and one refresh at any time.
Alone(f) ==
  /\ app.on
  /\ f.kind = "restore" => ~app.hydrated
  /\ \A g \in flows : Pending(g) =>
       /\ f.kind = "restore" => g = f
       /\ {f.kind, g.kind} \subseteq {"refresh", "refused"} => g = f

FlowsAlone ==
  /\ app.user # NoPerson \/ app.hydrated => app.on
  /\ app.user # NoPerson => app.hydrated
  /\ \A f \in flows : Pending(f) => Alone(f)

\* Nothing is under way; one flow is, and has done this much.
Quiet ==
  /\ left # FALSE => app.user = NoPerson /\ stored = 0
  /\ app.user # NoPerson => stored = app.refresh

Lone(f) ==
  /\ IF f.kind = "logout" THEN left = TRUE ELSE left = FALSE
  /\ f.kind = "login" => app.user = NoPerson
  /\ f.kind \in {"refresh", "refused"} => app.user # NoPerson
  /\ f.kind \in {"refresh", "refused"} /\ f.step \notin {"stored", "cleared"} =>
       stored = app.refresh
  /\ f.step = "stored" => stored = f.got
  /\ f.step = "cleared" => stored = 0

\* On a phone whose flows did not overlap it is one of the two.
Unmixed ==
  ~mixed =>
    /\ (\A f \in flows : ~Pending(f)) => Quiet
    /\ \A f \in flows : Pending(f) => Lone(f) /\ \A g \in flows : Pending(g) => g = f

PhoneInv ==
  PhoneTypes /\ FlowsOK /\ AnswersFresh /\ PhoneTokenLives /\ FlowsAlone /\ Unmixed

-----------------------------------------------------------------------------
(* What becomes of the tokens, and of the flows, in every step but those   *)
(* that redeem one.                                                        *)

\* The flow that a step is about has nothing to do with the tokens of the others.
LEMMA FreshStays ==
  ASSUME PhoneInv, good \cup spent \subseteq good' \cup spent',
         \A f \in flows' : \/ f \in flows
                           \/ /\ ~Carries(f)
                              /\ f.sent \in {0, stored, app.refresh} \cup {p.sent : p \in flows}
                              /\ f.got = 0 \/ \E p \in flows \ flows' : f.got = p.got,
         stored' \in {0, stored} \/ \E p \in flows \ flows' : stored' = p.got,
         app.refresh' \in {0, app.refresh} \/ \E p \in flows \ flows' : app.refresh' = p.got
  PROVE  AnswersFresh'
<1> SUFFICES ASSUME NEW f \in flows', Carries(f) PROVE AnswerFresh(f)'
  BY DEF AnswersFresh
<1>1. f \in flows /\ AnswerFresh(f) /\ f.got # 0
  BY DEF PhoneInv, AnswersFresh, Carries
<1>2. \A p \in flows \ flows' : p.got # f.got
  BY <1>1 DEF AnswerFresh
<1>3. stored' # f.got /\ app.refresh' # f.got
  BY <1>1, <1>2 DEF AnswerFresh
<1>4. \A g \in flows' : g.sent # f.got /\ (g.got = f.got => g = f)
  BY <1>1, <1>2 DEF AnswerFresh
<1> QED BY <1>1, <1>3, <1>4 DEF AnswerFresh

LEMMA TokenStays ==
  ASSUME PhoneInv, good \cup spent \subseteq good' \cup spent',
         \/ stored' = 0
         \/ stored' = stored /\ \A f \in flows \ flows' : Carries(f) => f.sent \in spent'
         \/ \E p \in flows : Carries(p) /\ stored' = p.got
  PROVE  PhoneTokenLives'
BY DEF PhoneInv, PhoneTokenLives, Carries, AnswersFresh, AnswerFresh

\* No flow begins that the app waits for,
LEMMA PendingStays ==
  ASSUME PhoneInv, UNCHANGED <<app, stored, mixed, left>>,
         \A g \in flows' : Pending(g) => g \in flows,
         \A g \in flows : Pending(g) => g \in flows'
  PROVE  FlowsAlone' /\ Unmixed'
<1>1. FlowsAlone'
  BY DEF PhoneInv, FlowsAlone, Alone
<1>2. Unmixed'
  BY DEF PhoneInv, Unmixed, Quiet, Lone
<1> QED BY <1>1, <1>2

\* one goes on,
LEMMA FlowGoesOn ==
  ASSUME PhoneInv, NEW f \in flows, Pending(f), NEW new \in flows', Pending(new),
         new.kind = f.kind \/ (f.kind = "refresh" /\ new.kind = "refused"),
         \A g \in flows' : Pending(g) => (g \in flows /\ g # f) \/ g = new,
         UNCHANGED <<app, mixed>>,
         ~mixed => Lone(new)'
  PROVE  FlowsAlone' /\ Unmixed'
<1>1. Alone(f) /\ \A g \in flows : Pending(g) => Alone(g)
  BY DEF PhoneInv, FlowsAlone
<1>2. FlowsAlone'
  <2> SUFFICES ASSUME NEW g \in flows', Pending(g) PROVE Alone(g)'
    BY DEF PhoneInv, FlowsAlone
  <2>1. CASE g = new
    BY <1>1, <2>1 DEF Alone
  <2>2. CASE g \in flows /\ g # f
    BY <1>1, <2>2 DEF Alone
  <2> QED BY <2>1, <2>2
<1>3. Unmixed'
  BY DEF PhoneInv, Unmixed
<1> QED BY <1>2, <1>3

\* or one is over.
LEMMA FlowIsOver ==
  ASSUME PhoneInv, NEW f \in flows, Pending(f),
         \A g \in flows' : Pending(g) => g \in flows /\ g # f,
         app.on' = app.on, app.user' # NoPerson => app.hydrated',
         mixed' = mixed, ~mixed => Quiet'
  PROVE  FlowsAlone' /\ Unmixed'
<1>1. Alone(f) /\ \A g \in flows : Pending(g) => Alone(g)
  BY DEF PhoneInv, FlowsAlone
<1>2. FlowsAlone'
  <2> SUFFICES ASSUME NEW g \in flows', Pending(g) PROVE Alone(g)'
    BY <1>1 DEF FlowsAlone, Alone
  <2> QED BY <1>1 DEF Alone
<1>3. Unmixed'
  BY DEF PhoneInv, Unmixed
<1> QED BY <1>2, <1>3

-----------------------------------------------------------------------------
(* The steps of the app.                                                   *)

\* What the app shows when it is launched; h says whether there is no token.
LEMMA Launched ==
  ASSUME NEW h
  PROVE  LET a == [NotRunning EXCEPT !.on = TRUE, !.hydrated = h] IN
         /\ a.on = TRUE /\ a.hydrated = h /\ a.user = NoPerson /\ a.refresh = 0
         /\ h \in BOOLEAN => a \in [on : BOOLEAN, hydrated : BOOLEAN,
                                  user : Person \cup {NoPerson}, refresh : 0..MaxIssued]
<1> DEFINE R == [on : BOOLEAN, hydrated : BOOLEAN, user : {NoPerson}, refresh : {0}]
<1>1. NotRunning \in R
  BY DEF NotRunning
<1>2. ASSUME NEW r \in R, NEW on
      PROVE  LET a == [r EXCEPT !.on = on, !.hydrated = h] IN
             /\ a.on = on /\ a.hydrated = h /\ a.user = NoPerson /\ a.refresh = 0
             /\ {on, h} \subseteq BOOLEAN => a \in R
  OBVIOUS
<1>3. R \subseteq [on : BOOLEAN, hydrated : BOOLEAN,
                  user : Person \cup {NoPerson}, refresh : 0..MaxIssued]
  BY MobileSessionAssumption
<1> HIDE DEF R
<1> QED BY <1>1, <1>2, <1>3

\* The app is launched: one flow, or nothing is stored.
LEMMA LaunchKeeps ==
  ASSUME PhoneInv, TryRestoreSession
  PROVE  PhoneInv'
<1>0. PICK new : new = NewFlow("restore", "sent", stored, NoPerson)
  OBVIOUS
<1>1. /\ ~app.on /\ app' = [NotRunning EXCEPT !.on = TRUE, !.hydrated = stored = 0]
      /\ flows' = flows \cup (IF stored = 0 THEN {} ELSE {new})
      /\ UNCHANGED <<good, owner, issued, stored, faults, spent, mixed, left>>
  BY <1>0 DEF TryRestoreSession, tokens, phoneHistory
<1>2. /\ stored \in 0..MaxIssued /\ issued \in 0..MaxIssued /\ stored <= issued /\ 0 <= issued
  BY MobileSessionAssumption DEF PhoneInv, PhoneTypes
<1>3. /\ new \in Flow /\ new.kind = "restore" /\ new.step = "sent" /\ new.sent = stored
      /\ new.got = 0
  BY <1>0, <1>2, MobileSessionAssumption DEF NewFlow, Flow
<1>4. /\ app'.on = TRUE /\ app'.user = NoPerson /\ app'.refresh = 0
      /\ app'.hydrated \in BOOLEAN /\ (stored # 0 => ~app'.hydrated)
      /\ app' \in [on : BOOLEAN, hydrated : BOOLEAN, user : Person \cup {NoPerson},
                    refresh : 0..MaxIssued]
  <2>1. PICK h \in BOOLEAN : h = (stored = 0)
    OBVIOUS
  <2>2. app' = [NotRunning EXCEPT !.on = TRUE, !.hydrated = h]
    BY <1>1, <2>1, Zenon
  <2>3. /\ app'.on = TRUE /\ app'.hydrated = h /\ app'.user = NoPerson /\ app'.refresh = 0
        /\ app' \in [on : BOOLEAN, hydrated : BOOLEAN, user : Person \cup {NoPerson},
                     refresh : 0..MaxIssued]
    BY <2>2, Launched, Zenon
  <2>4. stored # 0 => ~h
    BY <2>1, Zenon
  <2> QED BY <2>3, <2>4
<1>5. \A f \in flows : ~Pending(f)
  BY <1>1 DEF PhoneInv, FlowsAlone, Alone
<1>6. \A f \in flows' : f \in flows \/ (f = new /\ stored # 0)
  BY <1>1
<1>7. PhoneTypes' /\ FlowsOK'
  <2>1. PhoneTypes'
    BY <1>1, <1>2, <1>3, <1>4 DEF PhoneInv, PhoneTypes
  <2>2. FlowOK(new)
    BY <1>3 DEF FlowOK
  <2> QED BY <1>6, <2>1, <2>2 DEF PhoneInv, FlowsOK
<1>8. AnswersFresh'
  <2>1. ~Carries(new)
    BY <1>3 DEF Carries
  <2> QED BY <1>1, <1>3, <1>4, <1>6, <2>1, FreshStays
<1>9. PhoneTokenLives'
  BY <1>1, TokenStays
<1>10. FlowsAlone'
  BY <1>4, <1>5, <1>6 DEF FlowsAlone, Alone
<1>11. Unmixed'
  <2> SUFFICES ASSUME ~mixed
               PROVE  /\ (\A f \in flows' : ~Pending(f)) => Quiet'
                      /\ \A f \in flows' : Pending(f) =>
                           Lone(f)' /\ \A g \in flows' : Pending(g) => g = f
    BY <1>1 DEF Unmixed
  <2>1. Quiet
    BY <1>5 DEF PhoneInv, Unmixed
  <2>2. Quiet'
    BY <1>1, <1>4, <2>1 DEF Quiet
  <2>3. stored # 0 => Lone(new)'
    BY <1>1, <1>3, <2>1 DEF Quiet, Lone
  <2> QED BY <1>5, <1>6, <2>2, <2>3
<1> QED BY <1>7, <1>8, <1>9, <1>10, <1>11 DEF PhoneInv

\* It is killed: nobody waits for anything.
LEMMA KillKeeps ==
  ASSUME PhoneInv, KillApp
  PROVE  PhoneInv'
<1>1. /\ app' = NotRunning /\ flows' = Abandoned(flows) /\ spent' = spent \cup Unseen(flows)
      /\ left' = (left /\ ~Waiting({"logout"})) /\ UNCHANGED <<good, owner, issued, stored, mixed>>
  BY DEF KillApp, tokens
<1>2. \A q \in flows' : \E f \in flows :
        /\ f.step \in {"sent", "orphan"} /\ q.step = "orphan" /\ q \in Flow
        /\ q.kind = f.kind /\ q.sent = f.sent /\ q.got = f.got
  BY <1>1 DEF Abandoned, PhoneInv, PhoneTypes, Flow
<1>3. \A q \in flows' : ~Pending(q) /\ ~Carries(q) /\ FlowOK(q)
  BY <1>2 DEF Pending, Carries, PhoneInv, FlowsOK, FlowOK
<1>4. /\ NotRunning.on = FALSE /\ NotRunning.hydrated = FALSE
      /\ NotRunning.user = NoPerson /\ NotRunning.refresh = 0
      /\ NotRunning \in [on : BOOLEAN, hydrated : BOOLEAN, user : Person \cup {NoPerson},
                          refresh : 0..MaxIssued]
  BY MobileSessionAssumption DEF NotRunning
<1>5. PhoneTypes'
  BY <1>1, <1>2, <1>4 DEF PhoneInv, PhoneTypes
<1>6. PhoneTokenLives'
  <2>1. \A f \in flows : Carries(f) => f.sent \in spent'
    BY <1>1 DEF Unseen, Carries
  <2> QED BY <1>1, <2>1, TokenStays
<1>7. Unmixed'
  <2> SUFFICES ASSUME ~mixed PROVE Quiet'
    BY <1>1, <1>3 DEF Unmixed
  <2>1. CASE \E f \in flows : Pending(f)
    <3>1. PICK f \in flows : Pending(f) /\ Lone(f)
      BY <2>1 DEF PhoneInv, Unmixed
    <3>2. left = TRUE => Waiting({"logout"})
      BY <3>1 DEF Lone, Waiting, Pending
    <3>3. left' = FALSE
      BY <1>1, <3>1, <3>2 DEF Lone
    <3> QED BY <1>4, <1>1, <3>3 DEF Quiet
  <2>2. CASE \A f \in flows : ~Pending(f)
    BY <1>1, <1>4, <2>2 DEF PhoneInv, Unmixed, Quiet
  <2> QED BY <2>1, <2>2
<1> QED BY <1>1, <1>3, <1>4, <1>5, <1>6, <1>7 DEF PhoneInv, FlowsOK, AnswersFresh, FlowsAlone

\* The user logs in, logs out, or the app refreshes its token: one flow more.
LEMMA BeginsFlow ==
  ASSUME PhoneInv, NEW new \in Flow, flows' = flows \cup {new},
         new.step = "sent", new.kind \in {"login", "logout", "refresh"}, new.got = 0,
         new.sent = IF new.kind = "refresh" THEN app.refresh ELSE 0,
         UNCHANGED <<good, owner, issued, stored, app, spent>>,
         {mixed', left'} \subseteq BOOLEAN, app.hydrated, app.on,
         new.kind = "refresh" => ~Waiting({"refresh", "refused"}),
         ~mixed' => ~Waiting({"login", "logout", "refresh", "refused"}) /\ Lone(new)'
  PROVE  PhoneInv'
<1>1. /\ app.refresh \in 0..MaxIssued /\ app.refresh <= issued /\ 0 <= issued
      /\ \A f \in flows : f \in Flow
  BY MobileSessionAssumption DEF PhoneInv, PhoneTypes
<1>2. PhoneTypes' /\ FlowsOK'
  <2>1. PhoneTypes'
    BY <1>1 DEF PhoneInv, PhoneTypes
  <2>2. FlowOK(new)
    BY DEF FlowOK
  <2> QED BY <2>1, <2>2 DEF PhoneInv, FlowsOK
<1>3. ~Carries(new) /\ Pending(new)
  BY DEF Carries, Pending
<1>4. AnswersFresh'
  BY <1>3, FreshStays
<1>5. PhoneTokenLives'
  BY TokenStays
<1>6. \A f \in flows : Pending(f) => f.kind # "restore"
  BY DEF PhoneInv, FlowsAlone, Alone
<1>7. FlowsAlone'
  <2> SUFFICES ASSUME NEW f \in flows', Pending(f) PROVE Alone(f)'
    BY DEF PhoneInv, FlowsAlone
  <2>1. CASE f = new
    BY <1>6, <2>1 DEF Alone, Waiting, Pending
  <2>2. CASE f \in flows
    BY <1>6, <2>2 DEF PhoneInv, FlowsAlone, Alone, Waiting, Pending
  <2> QED BY <2>1, <2>2
<1>8. Unmixed'
  <2>1. ~mixed' => \A f \in flows : ~Pending(f)
    BY <1>1, <1>6 DEF Waiting, Pending, Flow
  <2> QED BY <1>3, <2>1 DEF Unmixed
<1> QED BY <1>2, <1>4, <1>5, <1>7, <1>8 DEF PhoneInv

LEMMA LoginPhoneKeeps ==
  ASSUME PhoneInv, NEW p \in Person, HandleLogin(p)
  PROVE  PhoneInv'
<1> DEFINE new == NewFlow("login", "sent", 0, p)
<1>1. /\ new \in Flow /\ new.step = "sent" /\ new.kind = "login" /\ new.got = 0 /\ new.sent = 0
  BY MobileSessionAssumption DEF NewFlow, Flow
<1>2. /\ app.hydrated /\ app.user = NoPerson /\ left' = FALSE /\ mixed' = Waiting({"refresh", "refused", "logout"})
      /\ flows' = flows \cup {new} /\ ~Waiting({"login"})
      /\ UNCHANGED <<good, owner, issued, stored, app, spent>>
  BY DEF HandleLogin, tokens
<1>3. app.on
  BY <1>2 DEF PhoneInv, FlowsAlone
<1>4. {mixed', left'} \subseteq BOOLEAN
  BY <1>2 DEF Waiting
<1> HIDE DEF new
<1>5. ~mixed' => ~Waiting({"login", "logout", "refresh", "refused"}) /\ Lone(new)'
  BY <1>1, <1>2 DEF Waiting, Lone
<1> QED BY <1>1, <1>2, <1>3, <1>4, <1>5, BeginsFlow

LEMMA LogoutPhoneKeeps ==
  ASSUME PhoneInv, LogoutOfPhone
  PROVE  PhoneInv'
<1>1. PICK new \in Farewell(app.user) : flows' = flows \cup {new}
  BY DEF LogoutOfPhone
<1>2. /\ new \in Flow /\ new.step = "sent" /\ new.kind = "logout" /\ new.got = 0 /\ new.sent = 0
  BY <1>1, MobileSessionAssumption DEF Farewell, NewFlow, Flow, PhoneInv, PhoneTypes
<1>3. /\ app.on /\ app.hydrated /\ left' = TRUE /\ mixed' \in BOOLEAN
      /\ UNCHANGED <<good, owner, issued, stored, app, spent>>
      /\ ~mixed' => ~Waiting({"refresh", "refused", "login"}) /\ ~Waiting({"logout"})
  BY DEF LogoutOfPhone, tokens, PhoneInv, FlowsAlone, PhoneTypes
<1>4. ~mixed' => ~Waiting({"login", "logout", "refresh", "refused"}) /\ Lone(new)'
  BY <1>2, <1>3 DEF Waiting, Lone
<1> QED BY <1>1, <1>2, <1>3, <1>4, BeginsFlow

LEMMA RefreshPhoneKeeps ==
  ASSUME PhoneInv, RefreshPhone
  PROVE  PhoneInv'
<1>0. PICK new : new = NewFlow("refresh", "sent", app.refresh, NoPerson)
  OBVIOUS
<1>1. /\ new \in Flow /\ new.step = "sent" /\ new.kind = "refresh" /\ new.got = 0
      /\ new.sent = app.refresh
  BY <1>0, MobileSessionAssumption DEF NewFlow, Flow, PhoneInv, PhoneTypes
<1>2. /\ app.on /\ app.hydrated /\ app.user # NoPerson /\ flows' = flows \cup {new}
      /\ UNCHANGED <<good, owner, issued, stored, app, spent, left>>
      /\ {mixed', left'} \subseteq BOOLEAN /\ ~Waiting({"refresh", "refused"})
      /\ ~mixed' => ~mixed /\ ~Waiting({"login", "logout"})
  BY <1>0 DEF RefreshPhone, tokens, PhoneInv, FlowsAlone, PhoneTypes
<1>3. ~mixed' => ~Waiting({"login", "logout", "refresh", "refused"})
  BY <1>2 DEF Waiting
<1>4. ~mixed' => \A f \in flows : ~Pending(f)
  <2> SUFFICES ASSUME ~mixed', NEW f \in flows, Pending(f) PROVE FALSE
    OBVIOUS
  <2>1. f.kind \in {"restore", "login", "refresh", "logout", "refused"}
    BY DEF PhoneInv, PhoneTypes, Flow
  <2>2. f.kind # "restore"
    BY <1>2 DEF PhoneInv, FlowsAlone, Alone
  <2> QED BY <1>3, <2>1, <2>2 DEF Waiting, Pending
<1>5. ~mixed' => Lone(new)'
  <2>1. ~mixed' => Quiet
    BY <1>2, <1>4 DEF PhoneInv, Unmixed
  <2> QED BY <1>1, <1>2, <2>1 DEF Quiet, Lone
<1> QED BY <1>1, <1>2, <1>3, <1>5, BeginsFlow

-----------------------------------------------------------------------------
(* The steps of the server.                                                *)

\* A flow that is lone stays so while the request is answered.
LEMMA AnsweredLone ==
  ASSUME PhoneInv, NEW f \in flows, f.step = "sent", NEW new,
         new.kind = f.kind, new.step \in {"answered", "clear"},
         UNCHANGED <<stored, app, mixed, left>>
  PROVE  ~mixed => Lone(new)'
<1>1. ~mixed => Lone(f)
  BY DEF PhoneInv, Unmixed, Pending
<1> QED BY <1>1 DEF Lone

\* A token is issued, for a password or for another, which is redeemed.
LEMMA IssuesToken ==
  ASSUME PhoneInv, NEW f \in flows, f.step \in {"sent", "orphan"},
         f.kind \in {"login", "restore", "refresh"},
         NEW p \in Person \cup {NoPerson}, Issue(p),
         good' = (good \ {f.sent}) \cup {issued'}, Answer(f, issued'),
         spent \subseteq spent', f.step = "orphan" /\ f.sent # 0 => f.sent \in spent',
         UNCHANGED <<stored, app, mixed, left>>
  PROVE  PhoneInv'
<1> DEFINE n == issued + 1
<1>1. /\ issued' = n /\ owner' = [owner EXCEPT ![n] = p] /\ n \in 1..MaxIssued
      /\ issued \in Nat /\ n \in 0..MaxIssued
  BY MobileSessionAssumption DEF Issue, PhoneInv, PhoneTypes
<1>2. PICK new : new = [f EXCEPT !.step = "answered", !.got = n]
  OBVIOUS
<1>3. f \in Flow /\ FlowOK(f) /\ f.got = 0
  BY DEF PhoneInv, PhoneTypes, FlowsOK, FlowOK
<1>4. /\ new \in Flow /\ new.kind = f.kind /\ new.step = "answered" /\ new.sent = f.sent
      /\ new.got = n
  BY <1>1, <1>2, <1>3 DEF Flow
<1>5. /\ flows' = (flows \ {f}) \cup (IF f.step = "orphan" THEN {} ELSE {new})
  BY <1>1, <1>2 DEF Answer, Over, Replaced
<1>6. \A g \in flows : g.sent # n /\ g.got # n /\ g.sent \in 0..issued /\ g.got \in 0..issued
  BY <1>1 DEF PhoneInv, PhoneTypes, Flow
<1>7. stored # n /\ app.refresh # n
  BY <1>1 DEF PhoneInv, PhoneTypes
<1> HIDE DEF n
<1>8. PhoneTypes'
  <2>1. issued' \in 0..MaxIssued /\ 1..issued \subseteq 1..issued' /\ 0..issued \subseteq 0..issued'
        /\ n \in 1..issued'
    BY <1>1 DEF n
  <2>2. good' \subseteq 1..issued'
    BY <1>1, <2>1 DEF PhoneInv, PhoneTypes
  <2>3. owner' \in [1..MaxIssued -> Person \cup {NoPerson}]
    BY <1>1 DEF PhoneInv, PhoneTypes
  <2>4. /\ flows' \subseteq Flow
        /\ \A g \in flows' : g.sent \in 0..issued' /\ g.got \in 0..issued'
    BY <1>3, <1>4, <1>5, <1>6, <2>1 DEF PhoneInv, PhoneTypes
  <2>5. stored' \in 0..issued' /\ app'.refresh \in 0..issued'
    BY <2>1 DEF PhoneInv, PhoneTypes
  <2> QED BY <2>1, <2>2, <2>3, <2>4, <2>5 DEF PhoneInv, PhoneTypes
<1>9. FlowsOK'
  <2>1. FlowOK(new)
    BY <1>1, <1>3, <1>4 DEF FlowOK, n
  <2> QED BY <1>5, <2>1 DEF PhoneInv, FlowsOK
<1>10. AnswersFresh'
  <2> SUFFICES ASSUME NEW g \in flows', Carries(g) PROVE AnswerFresh(g)'
    BY DEF AnswersFresh
  <2>1. CASE g = new
    BY <1>1, <1>4, <1>5, <1>6, <1>7, <2>1 DEF AnswerFresh
  <2>2. CASE g \in flows
    <3>1. AnswerFresh(g)
      BY <2>2 DEF PhoneInv, AnswersFresh
    <3>2. g.got \in good' \cup spent'
      BY <3>1 DEF AnswerFresh
    <3> QED BY <1>4, <1>5, <1>6, <2>2, <3>1, <3>2 DEF AnswerFresh
  <2> QED BY <1>5, <2>1, <2>2
<1>11. PhoneTokenLives'
  <2>1. CASE stored = f.sent
    BY <1>1, <1>4, <1>5, <2>1 DEF PhoneTokenLives, n
  <2>2. CASE stored # f.sent /\ stored \in good \cup spent \cup {0}
    BY <2>2 DEF PhoneTokenLives
  <2>3. CASE \E g \in flows : g.step = "answered" /\ g.sent = stored /\ g.got # 0
    BY <1>5, <2>3 DEF PhoneTokenLives
  <2> QED BY <2>1, <2>2, <2>3 DEF PhoneInv, PhoneTokenLives
<1>12. FlowsAlone' /\ Unmixed'
  <2>1. CASE f.step = "orphan"
    BY <1>5, <2>1, PendingStays DEF Pending
  <2>2. CASE f.step = "sent"
    <3>1. ~mixed => Lone(new)'
      BY <1>4, <2>2, AnsweredLone
    <3> QED BY <1>4, <1>5, <2>2, <3>1, FlowGoesOn DEF Pending
  <2> QED BY <2>1, <2>2
<1> QED BY <1>8, <1>9, <1>10, <1>11, <1>12 DEF PhoneInv

\* Nothing is issued: the request is refused, or nobody waits for the answer.
LEMMA AnswersNothing ==
  ASSUME PhoneInv, NEW f \in flows, f.step \in {"sent", "orphan"},
         f.kind \in {"restore", "refresh"}, Answer(f, 0),
         UNCHANGED <<good, owner, issued, stored, app, spent, mixed, left>>
  PROVE  PhoneInv'
<1>1. PICK new : new = [f EXCEPT !.step = "answered", !.got = 0]
  OBVIOUS
<1>2. f \in Flow /\ FlowOK(f) /\ f.got = 0 /\ 0 \in 0..MaxIssued
  BY MobileSessionAssumption DEF PhoneInv, PhoneTypes, FlowsOK, FlowOK
<1>3. /\ new \in Flow /\ new.kind = f.kind /\ new.step = "answered" /\ new.sent = f.sent
      /\ new.got = 0
  BY <1>1, <1>2 DEF Flow
<1>4. flows' = (flows \ {f}) \cup (IF f.step = "orphan" THEN {} ELSE {new})
  BY <1>1 DEF Answer, Over, Replaced
<1>5. PhoneTypes' /\ FlowsOK'
  <2>1. FlowOK(new)
    BY <1>2, <1>3 DEF FlowOK
  <2>2. \A g \in flows' : \/ g \in flows
                          \/ g \in Flow /\ g.sent = f.sent /\ g.got = f.got /\ FlowOK(g)
    BY <1>2, <1>3, <1>4, <2>1
  <2> QED BY <2>2 DEF PhoneInv, PhoneTypes, FlowsOK
<1>6. AnswersFresh'
  BY <1>3, <1>4, FreshStays DEF Carries
<1>7. PhoneTokenLives'
  BY <1>4, TokenStays DEF Carries
<1>8. FlowsAlone' /\ Unmixed'
  <2>1. CASE f.step = "orphan"
    BY <1>4, <2>1, PendingStays DEF Pending
  <2>2. CASE f.step = "sent"
    <3>1. ~mixed => Lone(new)'
      BY <1>3, <2>2, AnsweredLone
    <3> QED BY <1>3, <1>4, <2>2, <3>1, FlowGoesOn DEF Pending
  <2> QED BY <2>1, <2>2
<1> QED BY <1>5, <1>6, <1>7, <1>8 DEF PhoneInv

LEMMA ServeLoginKeeps ==
  ASSUME PhoneInv, NEW f \in flows, ServeLogin(f)
  PROVE  PhoneInv'
<1>1. f.user \in Person \cup {NoPerson} /\ f.sent = 0
  BY DEF ServeLogin, PhoneInv, PhoneTypes, FlowsOK, FlowOK, Flow
<1>2. good \ {f.sent} = good
  BY <1>1 DEF PhoneInv, PhoneTypes
<1> QED BY <1>1, <1>2, IssuesToken DEF ServeLogin, phoneHistory

LEMMA ServeTokensKeeps ==
  ASSUME PhoneInv, NEW f \in flows, ServeTokens(f) \/ AnswersBadly(f)
  PROVE  PhoneInv'
<1>1. CASE ServeTokens(f) /\ f.sent \in good
  <2>1. owner[f.sent] \in Person \cup {NoPerson}
    <3>1. f.sent \in 1..issued /\ issued \in 0..MaxIssued
      BY <1>1 DEF PhoneInv, PhoneTypes
    <3>2. f.sent \in 1..MaxIssued
      BY <3>1, MobileSessionAssumption
    <3> QED BY <3>2 DEF PhoneInv, PhoneTypes
  <2> QED BY <1>1, <2>1, IssuesToken DEF ServeTokens
<1>2. CASE ServeTokens(f) /\ f.sent \notin good
  BY <1>2, AnswersNothing DEF ServeTokens, tokens
<1>3. CASE AnswersBadly(f)
  BY <1>3, AnswersNothing DEF AnswersBadly, tokens
<1> QED BY <1>1, <1>2, <1>3

LEMMA ServeFarewellKeeps ==
  ASSUME PhoneInv, NEW f \in flows, ServeFarewell(f)
  PROVE  PhoneInv'
<1>1. PICK new : new = [f EXCEPT !.step = "clear"]
  OBVIOUS
<1>2. /\ f.kind \in {"logout", "refused"} /\ f.step \in {"sent", "orphan"}
      /\ good' \subseteq good /\ good \cup spent \subseteq good' \cup spent'
      /\ flows' = (flows \ {f}) \cup (IF f.step = "orphan" THEN {} ELSE {new})
      /\ UNCHANGED <<owner, issued, stored, app, mixed, left>>
  BY <1>1 DEF ServeFarewell, Over, Replaced
<1>3. f \in Flow /\ FlowOK(f) /\ f.got = 0 /\ f.sent = 0 /\ 0 \in 0..MaxIssued
  BY <1>2, MobileSessionAssumption DEF PhoneInv, PhoneTypes, FlowsOK, FlowOK
<1>4. /\ new \in Flow /\ new.kind = f.kind /\ new.step = "clear" /\ new.sent = f.sent
      /\ new.got = f.got
  BY <1>1, <1>3 DEF Flow
<1>5. PhoneTypes' /\ FlowsOK'
  <2>1. FlowOK(new)
    BY <1>2, <1>3, <1>4 DEF FlowOK
  <2>2. \A g \in flows' : \/ g \in flows
                          \/ g \in Flow /\ g.sent = f.sent /\ g.got = f.got /\ FlowOK(g)
    BY <1>2, <1>4, <2>1
  <2> QED BY <1>2, <2>2 DEF PhoneInv, PhoneTypes, FlowsOK
<1>6. AnswersFresh'
  BY <1>2, <1>3, <1>4, FreshStays DEF Carries
<1>7. PhoneTokenLives'
  BY <1>2, TokenStays DEF Carries
<1>8. FlowsAlone' /\ Unmixed'
  <2>1. CASE f.step = "orphan"
    BY <1>2, <2>1, PendingStays DEF Pending
  <2>2. CASE f.step = "sent"
    <3>1. ~mixed => Lone(new)'
      BY <1>2, <1>4, <2>2, AnsweredLone
    <3> QED BY <1>2, <1>4, <2>2, <3>1, FlowGoesOn DEF Pending
  <2> QED BY <1>2, <2>1, <2>2
<1> QED BY <1>5, <1>6, <1>7, <1>8 DEF PhoneInv

-----------------------------------------------------------------------------
(* The answers.                                                            *)

LEMMA StoreTokenKeeps ==
  ASSUME PhoneInv, NEW f \in flows, StoreToken(f)
  PROVE  PhoneInv'
<1>1. PICK new : new = [f EXCEPT !.step = "stored"]
  OBVIOUS
<1>2. /\ f.step = "answered" /\ f.got # 0 /\ stored' = f.got
      /\ flows' = (flows \ {f}) \cup {new}
      /\ UNCHANGED <<good, owner, issued, app, spent, mixed, left>>
  BY <1>1 DEF StoreToken, Replaced, tokens, phoneHistory
<1>3. f \in Flow /\ FlowOK(f) /\ f.got \in Nat /\ f.got <= issued /\ issued \in Nat
  BY DEF PhoneInv, PhoneTypes, FlowsOK, Flow
<1>4. /\ new \in Flow /\ new.kind = f.kind /\ new.step = "stored" /\ new.sent = f.sent
      /\ new.got = f.got
  BY <1>1, <1>3 DEF Flow
<1>5. PhoneTypes' /\ FlowsOK'
  <2>1. FlowOK(new)
    BY <1>2, <1>3, <1>4 DEF FlowOK
  <2>2. \A g \in flows' : \/ g \in flows
                          \/ g \in Flow /\ g.sent = f.sent /\ g.got = f.got /\ FlowOK(g)
    BY <1>2, <1>4, <2>1
  <2> QED BY <1>2, <1>3, <2>2 DEF PhoneInv, PhoneTypes, FlowsOK
<1>6. f \in flows \ flows'
  BY <1>2, <1>4
<1>7. AnswersFresh'
  BY <1>2, <1>4, <1>6, FreshStays DEF Carries
<1>8. PhoneTokenLives'
  BY <1>2, TokenStays DEF Carries
<1>9. ~mixed => Lone(new)'
  <2>1. ~mixed => Lone(f)
    BY <1>2 DEF PhoneInv, Unmixed, Pending
  <2> QED BY <1>2, <1>4, <2>1 DEF Lone
<1>10. FlowsAlone' /\ Unmixed'
  BY <1>2, <1>4, <1>9, FlowGoesOn DEF Pending
<1> QED BY <1>5, <1>7, <1>8, <1>10 DEF PhoneInv

LEMMA ClearKeeps ==
  ASSUME PhoneInv, NEW f \in flows, ClearRefreshToken(f)
  PROVE  PhoneInv'
<1>1. PICK new : new = [f EXCEPT !.step = "cleared"]
  OBVIOUS
<1>2. /\ f.step = "clear" /\ stored' = 0 /\ flows' = (flows \ {f}) \cup {new}
      /\ UNCHANGED <<good, owner, issued, app, spent, mixed, left>>
  BY <1>1 DEF ClearRefreshToken, Replaced, tokens, phoneHistory
<1>3. f \in Flow /\ FlowOK(f) /\ f.got = 0 /\ 0 \in 0..issued
  BY <1>2, MobileSessionAssumption DEF PhoneInv, PhoneTypes, FlowsOK, FlowOK
<1>4. /\ new \in Flow /\ new.kind = f.kind /\ new.step = "cleared" /\ new.sent = f.sent
      /\ new.got = f.got
  BY <1>1, <1>3 DEF Flow
<1>5. PhoneTypes' /\ FlowsOK'
  <2>1. FlowOK(new)
    BY <1>2, <1>3, <1>4 DEF FlowOK
  <2>2. \A g \in flows' : \/ g \in flows
                          \/ g \in Flow /\ g.sent = f.sent /\ g.got = f.got /\ FlowOK(g)
    BY <1>2, <1>4, <2>1
  <2> QED BY <1>2, <1>3, <2>2 DEF PhoneInv, PhoneTypes, FlowsOK
<1>6. AnswersFresh'
  BY <1>2, <1>3, <1>4, FreshStays DEF Carries
<1>7. PhoneTokenLives'
  BY <1>2, TokenStays
<1>8. ~mixed => Lone(new)'
  <2>1. ~mixed => Lone(f)
    BY <1>2 DEF PhoneInv, Unmixed, Pending
  <2> QED BY <1>2, <1>4, <2>1 DEF Lone
<1>9. FlowsAlone' /\ Unmixed'
  BY <1>2, <1>4, <1>8, FlowGoesOn DEF Pending
<1> QED BY <1>5, <1>6, <1>7, <1>9 DEF PhoneInv

\* A flow ends, and leaves the app with these.
LEMMA FlowEnds ==
  ASSUME PhoneInv, NEW f \in flows, Pending(f), ~Carries(f), flows' = flows \ {f},
         UNCHANGED <<good, owner, issued, spent, mixed, left>>, stored' \in {0, stored},
         app' \in [on : BOOLEAN, hydrated : BOOLEAN, user : Person \cup {NoPerson},
                   refresh : 0..MaxIssued],
         app.on' = app.on, app.user' # NoPerson => app.hydrated',
         app.refresh' \in {0, app.refresh, f.got},
         ~mixed => Quiet'
  PROVE  PhoneInv'
<1>1. PhoneTypes' /\ FlowsOK'
  <2>1. f.got <= issued /\ 0 <= issued /\ app.refresh <= issued /\ 0 \in 0..issued
    BY MobileSessionAssumption DEF PhoneInv, PhoneTypes
  <2>2. app.refresh' <= issued'
    BY <2>1
  <2> QED BY <2>1, <2>2 DEF PhoneInv, PhoneTypes, FlowsOK
<1>2. f \in flows \ flows'
  OBVIOUS
<1>3. AnswersFresh'
  BY <1>2, FreshStays
<1>4. PhoneTokenLives'
  BY TokenStays
<1>5. FlowsAlone' /\ Unmixed'
  BY FlowIsOver
<1> QED BY <1>1, <1>3, <1>4, <1>5 DEF PhoneInv

LEMMA SetAuthKeeps ==
  ASSUME PhoneInv, NEW f \in flows, SetAuth(f)
  PROVE  PhoneInv'
<1>1. /\ f.step = "stored" /\ flows' = flows \ {f}
      /\ app' = [app EXCEPT !.user = owner[f.got], !.refresh = f.got, !.hydrated = TRUE]
      /\ UNCHANGED <<good, owner, issued, stored, spent, mixed, left>>
  BY DEF SetAuth, Over, tokens, phoneHistory
<1>2. f.got \in 1..MaxIssued /\ f.got \in 0..MaxIssued /\ f.kind \notin {"logout", "refused"}
  BY <1>1, MobileSessionAssumption DEF PhoneInv, PhoneTypes, FlowsOK, FlowOK, Flow
<1>3. owner[f.got] \in Person \cup {NoPerson}
  BY <1>2 DEF PhoneInv, PhoneTypes
<1>4. /\ app' \in [on : BOOLEAN, hydrated : BOOLEAN, user : Person \cup {NoPerson},
                    refresh : 0..MaxIssued]
      /\ app.on' = app.on /\ app.hydrated' = TRUE /\ app.refresh' = f.got
  BY <1>1, <1>2, <1>3 DEF PhoneInv, PhoneTypes
<1>5. ~mixed => Quiet'
  <2>1. ~mixed => Lone(f)
    BY <1>1 DEF PhoneInv, Unmixed, Pending
  <2> QED BY <1>1, <1>2, <1>4, <2>1 DEF Lone, Quiet
<1> QED BY <1>1, <1>4, <1>5, FlowEnds DEF Pending, Carries

LEMMA RestoreRefusedKeeps ==
  ASSUME PhoneInv, NEW f \in flows, RestoreRefused(f)
  PROVE  PhoneInv'
<1>1. /\ f.kind = "restore" /\ f.step = "answered" /\ f.got = 0 /\ flows' = flows \ {f}
      /\ stored' = 0 /\ app' = [app EXCEPT !.hydrated = TRUE]
      /\ UNCHANGED <<good, owner, issued, spent, mixed, left>>
  BY DEF RestoreRefused, Over, tokens, phoneHistory
<1>2. /\ app' \in [on : BOOLEAN, hydrated : BOOLEAN, user : Person \cup {NoPerson},
                    refresh : 0..MaxIssued]
      /\ app.on' = app.on /\ app.hydrated' = TRUE /\ app.refresh' = app.refresh
      /\ app.user' = app.user
  BY <1>1 DEF PhoneInv, PhoneTypes
<1>3. app.user = NoPerson
  BY <1>1 DEF PhoneInv, FlowsAlone, Alone, Pending
<1>4. ~mixed => Quiet'
  BY <1>1, <1>2, <1>3 DEF Quiet
<1> QED BY <1>1, <1>2, <1>4, FlowEnds DEF Pending, Carries

LEMMA ForgetKeeps ==
  ASSUME PhoneInv, NEW f \in flows, Forget(f)
  PROVE  PhoneInv'
<1>1. /\ f.step = "cleared" /\ flows' = flows \ {f}
      /\ app' = [app EXCEPT !.user = NoPerson, !.refresh = 0]
      /\ UNCHANGED <<good, owner, issued, stored, spent, mixed, left>>
  BY DEF Forget, Over, tokens, phoneHistory
<1>2. /\ app' \in [on : BOOLEAN, hydrated : BOOLEAN, user : Person \cup {NoPerson},
                    refresh : 0..MaxIssued]
      /\ app.on' = app.on /\ app.refresh' = 0 /\ app.user' = NoPerson
  <2>1. 0 \in 0..MaxIssued
    BY MobileSessionAssumption
  <2> QED BY <1>1, <2>1 DEF PhoneInv, PhoneTypes
<1>3. ~mixed => Quiet'
  <2>1. ~mixed => Lone(f)
    BY <1>1 DEF PhoneInv, Unmixed, Pending
  <2> QED BY <1>1, <1>2, <2>1 DEF Lone, Quiet
<1> QED BY <1>1, <1>2, <1>3, FlowEnds DEF Pending, Carries

\* A refresh that is refused goes on as a logout.
LEMMA RefreshRefusedKeeps ==
  ASSUME PhoneInv, NEW f \in flows, RefreshRefused(f)
  PROVE  PhoneInv'
<1>1. /\ f.kind = "refresh" /\ f.step = "answered" /\ f.got = 0
      /\ UNCHANGED <<good, owner, issued, stored, app, spent, mixed, left>>
  BY DEF RefreshRefused, tokens, phoneHistory
<1>2. PICK new : /\ flows' = (flows \ {f}) \cup {new} /\ new \in Flow /\ new.kind = "refused"
                 /\ new.step \in {"sent", "clear"} /\ new.sent = 0 /\ new.got = 0
  <2>1. CASE app.user = NoPerson
    <3>1. flows' = (flows \ {f}) \cup {NewFlow("refused", "clear", 0, NoPerson)}
      BY <2>1 DEF RefreshRefused, Replaced
    <3>2. PICK new : new = NewFlow("refused", "clear", 0, NoPerson)
      OBVIOUS
    <3>3. /\ new \in Flow /\ new.kind = "refused" /\ new.step = "clear" /\ new.sent = 0
          /\ new.got = 0
      BY <3>2, MobileSessionAssumption DEF NewFlow, Flow
    <3> QED BY <3>1, <3>2, <3>3
  <2>2. CASE app.user # NoPerson
    <3>1. PICK g \in Farewell(app.user) : flows' = (flows \ {f}) \cup {[g EXCEPT !.kind = "refused"]}
      BY <2>2 DEF RefreshRefused, Replaced
    <3>2. g \in Flow /\ g.step = "sent" /\ g.sent = 0 /\ g.got = 0
      BY <3>1, MobileSessionAssumption DEF Farewell, NewFlow, Flow, PhoneInv, PhoneTypes
    <3>3. PICK new : new = [g EXCEPT !.kind = "refused"]
      OBVIOUS
    <3>4. /\ new \in Flow /\ new.kind = "refused" /\ new.step = "sent" /\ new.sent = 0
          /\ new.got = 0
      BY <3>2, <3>3 DEF Flow
    <3> QED BY <3>1, <3>3, <3>4
  <2> QED BY <2>1, <2>2
<1>3. PhoneTypes' /\ FlowsOK'
  <2>1. FlowOK(new) /\ 0 <= issued
    BY <1>2, MobileSessionAssumption DEF FlowOK, PhoneInv, PhoneTypes
  <2>2. \A g \in flows' : \/ g \in flows
                          \/ g \in Flow /\ g.sent = 0 /\ g.got = 0 /\ FlowOK(g)
    BY <1>2, <2>1
  <2> QED BY <1>1, <2>1, <2>2 DEF PhoneInv, PhoneTypes, FlowsOK
<1>4. AnswersFresh'
  BY <1>1, <1>2, FreshStays DEF Carries
<1>5. PhoneTokenLives'
  BY <1>1, <1>2, TokenStays DEF Carries
<1>6. ~mixed => Lone(new)'
  <2>1. ~mixed => Lone(f)
    BY <1>1 DEF PhoneInv, Unmixed, Pending
  <2> QED BY <1>1, <1>2, <2>1 DEF Lone
<1>7. FlowsAlone' /\ Unmixed'
  BY <1>1, <1>2, <1>6, FlowGoesOn DEF Pending
<1> QED BY <1>3, <1>4, <1>5, <1>7 DEF PhoneInv

\* The network fails: a logout goes on, and the others are over.
LEMMA NetworkFailsKeeps ==
  ASSUME PhoneInv, NEW f \in flows, NetworkFails(f)
  PROVE  PhoneInv'
<1>1. /\ f.step \in {"sent", "answered"} /\ spent' = spent \cup Unseen({f})
      /\ UNCHANGED <<good, owner, issued, stored, mixed, left>>
      /\ app' = IF f.kind = "restore" THEN [app EXCEPT !.hydrated = TRUE] ELSE app
  BY DEF NetworkFails, tokens
<1>2. PICK new : new = [f EXCEPT !.step = "clear"]
  OBVIOUS
<1>3. PICK orphan : orphan = [f EXCEPT !.step = "orphan"]
  OBVIOUS
<1>4. /\ flows' \subseteq (flows \ {f}) \cup {g \in {orphan} : f.step = "sent"}
                      \cup {g \in {new} : f.kind \in {"logout", "refused"}}
      /\ \A g \in flows : g # f => g \in flows'
      /\ f.kind \in {"logout", "refused"} => new \in flows'
  BY <1>1, <1>2, <1>3 DEF NetworkFails, Abandoned
<1>5. /\ f \in Flow /\ FlowOK(f) /\ (f.step = "sent" => f.got = 0)
      /\ f.kind \in {"logout", "refused"} => f.step = "sent"
  BY <1>1 DEF PhoneInv, PhoneTypes, FlowsOK, FlowOK
<1>6. /\ new \in Flow /\ new.kind = f.kind /\ new.step = "clear" /\ new.sent = f.sent
      /\ new.got = f.got
      /\ orphan \in Flow /\ orphan.kind = f.kind /\ orphan.step = "orphan"
      /\ orphan.sent = f.sent /\ orphan.got = f.got
  BY <1>2, <1>3, <1>5 DEF Flow
<1>7. \A g \in flows' : \/ g \in flows /\ g # f
                        \/ /\ g \in Flow /\ g.sent = f.sent /\ g.got = f.got /\ g.got = 0
                           /\ FlowOK(g) /\ ~Carries(g)
                           /\ Pending(g) => g = new /\ f.kind \in {"logout", "refused"}
  BY <1>4, <1>5, <1>6 DEF FlowOK, Carries, Pending
<1>8. /\ app' \in [on : BOOLEAN, hydrated : BOOLEAN, user : Person \cup {NoPerson},
                    refresh : 0..MaxIssued]
      /\ app.on' = app.on /\ app.refresh' = app.refresh /\ app.user' = app.user
      /\ app.hydrated => app.hydrated'
      /\ f.kind # "restore" => app' = app
  BY <1>1 DEF PhoneInv, PhoneTypes
<1>9. PhoneTypes' /\ FlowsOK'
  BY <1>1, <1>7, <1>8 DEF PhoneInv, PhoneTypes, FlowsOK
<1>10. good \cup spent \subseteq good' \cup spent'
  BY <1>1
<1>11. AnswersFresh'
  BY <1>1, <1>7, <1>8, <1>10, FreshStays
<1>12. PhoneTokenLives'
  <2>1. Carries(f) => f.sent \in spent'
    BY <1>1 DEF Unseen, Carries
  <2>2. \A g \in flows \ flows' : g = f
    BY <1>4
  <2> QED BY <1>1, <1>10, <2>1, <2>2, TokenStays
<1>13. ~mixed => Lone(f)
  BY <1>1 DEF PhoneInv, Unmixed, Pending
<1>14. Pending(f)
  BY <1>1 DEF Pending
<1>15. CASE f.kind \in {"logout", "refused"}
  <2>1. ~mixed => Lone(new)'
    BY <1>1, <1>5, <1>6, <1>8, <1>13, <1>15 DEF Lone
  <2>2. new \in flows' /\ Pending(new)
    BY <1>4, <1>6, <1>15 DEF Pending
  <2>3. \A g \in flows' : Pending(g) => (g \in flows /\ g # f) \/ g = new
    BY <1>7
  <2>4. FlowsAlone' /\ Unmixed'
    BY <1>1, <1>6, <1>8, <1>14, <1>15, <2>1, <2>2, <2>3, FlowGoesOn
  <2> QED BY <1>9, <1>11, <1>12, <2>4 DEF PhoneInv
<1>16. CASE f.kind \notin {"logout", "refused"}
  <2>1. f.kind = "restore" => app.user = NoPerson
    BY <1>14 DEF PhoneInv, FlowsAlone, Alone
  <2>2. ~mixed => Quiet'
    BY <1>1, <1>5, <1>8, <1>13, <1>16, <2>1 DEF Lone, Quiet, Flow
  <2>3. app.user' # NoPerson => app.hydrated'
    BY <1>8 DEF PhoneInv, FlowsAlone
  <2>4. \A g \in flows' : Pending(g) => g \in flows /\ g # f
    BY <1>7, <1>16
  <2>5. FlowsAlone' /\ Unmixed'
    BY <1>1, <1>8, <1>14, <2>2, <2>3, <2>4, FlowIsOver
  <2> QED BY <1>9, <1>11, <1>12, <2>5 DEF PhoneInv
<1> QED BY <1>15, <1>16

-----------------------------------------------------------------------------
(* Every step of the phone.                                                *)

LEMMA PhoneInitially == PhoneInit => PhoneInv
<1> SUFFICES ASSUME PhoneInit PROVE PhoneInv
  OBVIOUS
<1>1. 0 \in 0..MaxIssued
  BY MobileSessionAssumption
<1>2. /\ app \in [on : BOOLEAN, hydrated : BOOLEAN, user : Person \cup {NoPerson},
                   refresh : 0..MaxIssued]
      /\ ~app.on /\ ~app.hydrated /\ app.user = NoPerson /\ app.refresh = 0
  BY <1>1 DEF PhoneInit, NotRunning
<1>3. PhoneTypes
  <2>1. owner \in [1..MaxIssued -> Person \cup {NoPerson}]
    BY DEF PhoneInit
  <2>2. mixed \in BOOLEAN /\ left \in BOOLEAN
    BY DEF PhoneInit
  <2>3. /\ issued \in 0..MaxIssued /\ good \subseteq 1..issued /\ stored \in 0..issued
        /\ app.refresh <= issued /\ flows = {}
    BY <1>1, <1>2 DEF PhoneInit
  <2> QED BY <1>2, <2>1, <2>2, <2>3 DEF PhoneTypes
<1>4. FlowsOK /\ AnswersFresh /\ PhoneTokenLives
  BY DEF PhoneInit, FlowsOK, AnswersFresh, PhoneTokenLives
<1>5. FlowsAlone
  BY <1>2 DEF PhoneInit, FlowsAlone
<1>6. Quiet
  BY <1>2 DEF PhoneInit, Quiet
<1>7. Unmixed
  BY <1>6 DEF PhoneInit, Unmixed
<1> QED BY <1>3, <1>4, <1>5, <1>7 DEF PhoneInv

LEMMA PhoneStep == PhoneInv /\ [PhoneNext]_phoneVars => PhoneInv'
<1> SUFFICES ASSUME PhoneInv, [PhoneNext]_phoneVars PROVE PhoneInv'
  OBVIOUS
<1>1. CASE UNCHANGED phoneVars
  BY <1>1 DEF phoneVars, tokens, phoneHistory, PhoneInv, PhoneTypes, FlowsOK, AnswersFresh,
              AnswerFresh, PhoneTokenLives, FlowsAlone, Alone, Unmixed, Quiet, Lone
<1>2. CASE TryRestoreSession \/ KillApp \/ LogoutOfPhone \/ RefreshPhone
  BY <1>2, LaunchKeeps, KillKeeps, LogoutPhoneKeeps, RefreshPhoneKeeps
<1>3. CASE \E p \in Person : HandleLogin(p)
  BY <1>3, LoginPhoneKeeps
<1>4. ASSUME NEW f \in flows,
             \/ ServeLogin(f) \/ ServeTokens(f) \/ ServeFarewell(f) \/ AnswersBadly(f)
             \/ StoreToken(f) \/ SetAuth(f) \/ RestoreRefused(f) \/ RefreshRefused(f)
             \/ NetworkFails(f) \/ ClearRefreshToken(f) \/ Forget(f)
      PROVE  PhoneInv'
  BY <1>4, ServeLoginKeeps, ServeTokensKeeps, ServeFarewellKeeps, StoreTokenKeeps, SetAuthKeeps,
     RestoreRefusedKeeps, RefreshRefusedKeeps, NetworkFailsKeeps, ClearKeeps, ForgetKeeps
<1> QED BY <1>1, <1>2, <1>3, <1>4 DEF PhoneNext

LEMMA PhoneInvariant == PhoneSpec => []PhoneInv
BY PhoneInitially, PhoneStep, PTL DEF PhoneSpec

(***************************************************************************)
(* The types of MobileSession: there is one refresh at any time, also when *)
(* it goes on as a logout, and a user only when the app is launched and    *)
(* has found out who it is.                                                *)
(***************************************************************************)
THEOREM PhoneTypeCorrect == PhoneSpec => []PhoneTypeOK
<1>1. PhoneInv => PhoneTypeOK
  <2> SUFFICES ASSUME PhoneInv PROVE PhoneTypeOK
    OBVIOUS
  <2> DEFINE F == {f \in flows : f.kind \in {"refresh", "refused"} /\ f.step # "orphan"}
  <2>1. \A f, g \in F : f = g
    BY DEF PhoneInv, FlowsAlone, Alone, Pending
  <2>2. Cardinality(F) <= 1
    <3>1. CASE F = {}
      BY <3>1, FS_EmptySet
    <3>2. CASE F # {}
      <4>1. PICK f \in F : F = {f}
        BY <2>1, <3>2
      <4> HIDE DEF F
      <4>2. Cardinality(F) = 1
        BY <4>1, FS_Singleton
      <4> QED BY <4>2
    <3> QED BY <3>1, <3>2
  <2>3. app.refresh \in 0..issued
    BY DEF PhoneInv, PhoneTypes
  <2> QED BY <2>2, <2>3 DEF PhoneInv, PhoneTypes, FlowsAlone, PhoneTypeOK
<1> QED BY <1>1, PhoneInvariant, PTL

(***************************************************************************)
(* Whatever the app awaits when it is killed, whatever is lost and however *)
(* the flows overlap, the phone keeps no dead token while its successor is *)
(* not on the way, except by a logout or by the loss of an answer.         *)
(***************************************************************************)
THEOREM StoredTokenLives == PhoneSpec => []PhoneTokenLives
<1>1. PhoneInv => PhoneTokenLives
  BY DEF PhoneInv
<1> QED BY <1>1, PhoneInvariant, PTL

(***************************************************************************)
(* Where no login or logout overlapped with a refresh, the storage and the *)
(* store of the app agree whenever nothing is under way, and after a       *)
(* logout both are empty, however often the app was killed meanwhile.      *)
(***************************************************************************)
THEOREM PhoneAgreesAtRest == PhoneSpec => []PhoneAgrees
<1>1. PhoneInv => PhoneAgrees
  BY DEF PhoneInv, PhoneTypes, Unmixed, Quiet, Pending, PhoneAgrees
<1> QED BY <1>1, PhoneInvariant, PTL
=============================================================================
