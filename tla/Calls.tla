------------------------------- MODULE Calls -------------------------------
(***************************************************************************)
(* Calls between two users: the page /calls with its hook useWebRTC, the   *)
(* toast of an incoming call, and the gateway that relays the signals.     *)
(* The browser is external: it opens the camera when the user allows it,   *)
(* and two peer connections are linked when each has the description of    *)
(* the other and one knows a candidate of the other.                       *)
(***************************************************************************)
EXTENDS Naturals, Sequences

CONSTANTS
  Party,       \* each has one browser window
  Dials,       \* <<u, v>>: u may call v
  Nobody,      \* no incoming call
  MaxConns,    \* bound of the model: peer connections ever made
  MaxOpens,    \* bound of the model: call pages ever opened
  MaxTurns     \* bound of the model: calls refused or ended, cameras refused,
               \* pages left or
               \* loaded again, calls answered twice and tokens renewed

ASSUME CallsAssumption ==
  /\ Dials \subseteq {d \in Party \X Party : d[1] # d[2]}
  /\ Nobody \notin Party
  /\ Nobody \notin [from : Party, offer : 1..MaxConns]
  /\ {MaxConns, MaxOpens, MaxTurns} \subseteq Nat

VARIABLES
  page,      \* the call page of each user; "home" is any other page
  ringing,   \* useIncomingCallStore
  media,     \* requests for camera and microphone not yet settled
  conns,     \* the peer connections, in the order they were made
  net,       \* net[u][v]: signals of u the gateway has for v
  redirects, \* timeouts that will bring the user to the dashboard
  opens,     \* history: call pages opened
  turns,     \* history: what the bound MaxTurns counts
  stray      \* history: pages that took a description before they had the
             \* connection they have

callVars == <<page, ringing, media, conns, net, redirects, opens, turns, stray>>

State == {"home", "outgoing", "incoming", "active", "ended"}
Conn == 1..Len(conns)

\* history: refused, the page got an answer its connection did not take
Home ==
  [state |-> "home", peer |-> Nobody, incoming |-> FALSE, timer |-> FALSE,
   pc |-> 0, described |-> FALSE, early |-> {}, refused |-> FALSE]

\* A connection is that of its owner's page, unless another one took its place
\* there ("replaced") or the page is gone ("alone").
Fresh(u, peer, offer, here) ==
  [owner |-> u, peer |-> peer, status |-> "open", remote |-> offer,
   ice |-> FALSE, place |-> IF here THEN "page" ELSE "alone"]

Match(a, b) ==
  /\ {a, b} \subseteq Conn
  /\ conns[a].status = "open" /\ conns[b].status = "open"
  /\ conns[a].remote = b /\ conns[b].remote = a
Linked(a, b) == Match(a, b) /\ (conns[a].ice \/ conns[b].ice)

CallTypeOK ==
  /\ \A u \in Party :
       /\ page[u].state \in State /\ page[u].pc \in 0..Len(conns)
       /\ page[u].state # "home" => page[u].peer \in Party \ {u}
       /\ page[u].state = "home" => page[u] = Home
       /\ page[u].pc # 0 => conns[page[u].pc].owner = u /\ conns[page[u].pc].status # "closed"
       /\ ringing[u] # Nobody => ringing[u].from \in Party /\ ringing[u].offer \in Conn
       /\ page[u].timer => ~page[u].incoming
  /\ \A c \in Conn : conns[c].owner \in Party /\ conns[c].remote \in 0..Len(conns)

CallInit ==
  /\ page = [u \in Party |-> Home]
  /\ ringing = [u \in Party |-> Nobody]
  /\ media = {} /\ conns = <<>>
  /\ net = [u \in Party |-> [v \in Party |-> <<>>]]
  /\ redirects = [u \in Party |-> 0]
  /\ opens = 0 /\ turns = 0
  /\ stray = [u \in Party |-> FALSE]

Signal(kind, id) == [kind |-> kind, id |-> id]

\* A handler of the gateway passes the signal on to every window of the
\* addressee, call:offer after a query.
Send(u, v, signals) == net' = [net EXCEPT ![u][v] = @ \o signals]
Emit(u, v, kind) == Send(u, v, <<Signal(kind, 0)>>)

\* So signals of one user keep their order, but may overtake his offers.
Due(u, v) ==
  {i \in DOMAIN net[u][v] : \A j \in 1..(i - 1) : net[u][v][j].kind = "call:offer"}
Without(s, i) == SubSeq(s, 1, i - 1) \o SubSeq(s, i + 1, Len(s))
Take(u, v, i) == net' = [net EXCEPT ![u][v] = Without(@, i)]

Turn == turns < MaxTurns /\ turns' = turns + 1

-----------------------------------------------------------------------------
(* Opening the page and leaving it.                                        *)

Open(u, v, incoming) ==
  /\ page[u].state = "home" /\ opens < MaxOpens
  /\ opens' = opens + 1
  /\ page' = [page EXCEPT ![u] =
       [Home EXCEPT !.state = IF incoming THEN "incoming" ELSE "outgoing",
                    !.peer = v, !.incoming = incoming, !.timer = ~incoming]]
  /\ stray' = [stray EXCEPT ![u] = FALSE]

CameraAsked(u) == \E m \in media : m.user = u

\* nth tells requests apart that are alike.
Request(u, v, kind, offer) ==
  [user |-> u, peer |-> v, kind |-> kind, offer |-> offer, here |-> TRUE,
   nth |-> IF CameraAsked(u) THEN turns' ELSE 0]

\* From the dashboard.  Bound of the model: no older request for the camera.
Dial(u, v) ==
  /\ ~CameraAsked(u)
  /\ Open(u, v, FALSE)
  /\ media' = media \cup {Request(u, v, "start", 0)}
  /\ UNCHANGED <<ringing, conns, net, redirects, turns>>

HandleAcceptCall(u) ==
  /\ ringing[u] # Nobody
  /\ Open(u, ringing[u].from, TRUE)
  /\ UNCHANGED <<ringing, media, conns, net, redirects, turns>>

\* The page is loaded again: all its window had is gone.  A page for an incoming
\* call has no offer then, and calls as well, without a timer.
Reload(u) ==
  /\ page[u].state # "home"
  /\ Turn
  /\ page' = [page EXCEPT ![u] =
       [Home EXCEPT !.state = IF page[u].incoming THEN "incoming" ELSE "outgoing",
                    !.peer = page[u].peer, !.incoming = page[u].incoming,
                    !.timer = ~page[u].incoming]]
  /\ media' = {m \in media : m.user # u} \cup {Request(u, page[u].peer, "start", 0)}
  /\ conns' = [c \in Conn |-> IF conns[c].owner = u THEN [conns[c] EXCEPT !.status = "closed"]
                                                    ELSE conns[c]]
  /\ ringing' = [ringing EXCEPT ![u] = Nobody]
  /\ redirects' = [redirects EXCEPT ![u] = 0]
  /\ stray' = [stray EXCEPT ![u] = FALSE]
  /\ UNCHANGED <<net, opens>>

HandleRejectCall(u) ==
  /\ page[u].state = "home" /\ ringing[u] # Nobody
  /\ Turn
  /\ Emit(u, ringing[u].from, "call:reject")
  /\ ringing' = [ringing EXCEPT ![u] = Nobody]
  /\ UNCHANGED <<page, media, conns, redirects, opens, stray>>

UnmountMutant(u) ==
  /\ page' = [page EXCEPT ![u] = Home]
  /\ conns' = conns
  /\ media' = {IF m.user = u THEN [m EXCEPT !.here = FALSE] ELSE m : m \in media}

\* The connection of the page is closed, and no other.  A request for the
\* camera stays.
Unmount(u) ==
  /\ page' = [page EXCEPT ![u] = Home]
  /\ conns' = [c \in Conn |->
       IF c = page[u].pc THEN [conns[c] EXCEPT !.status = "closed"]
       ELSE IF conns[c].owner = u THEN [conns[c] EXCEPT !.place = "alone"]
       ELSE conns[c]]
  /\ media' = {IF m.user = u THEN [m EXCEPT !.here = FALSE] ELSE m : m \in media}

\* The user goes to another page; nobody is told.
GoElsewhere(u) ==
  /\ page[u].state # "home"
  /\ Turn
  /\ Unmount(u)
  /\ UNCHANGED <<ringing, net, redirects, opens, stray>>

HandleEnd(u) ==
  /\ page[u].state \in {"outgoing", "active"}
  /\ Turn
  /\ Emit(u, page[u].peer, "call:end")
  /\ Unmount(u)
  /\ UNCHANGED <<ringing, redirects, opens, stray>>

HandleReject(u) ==
  /\ page[u].state = "incoming"
  /\ Turn
  /\ Emit(u, page[u].peer, "call:reject")
  /\ ringing' = [ringing EXCEPT ![u] = Nobody]
  /\ Unmount(u)
  /\ UNCHANGED <<redirects, opens, stray>>

\* A timeout of two seconds, which outlives the page that set it.
Redirect(u) ==
  /\ redirects[u] > 0
  /\ redirects' = [redirects EXCEPT ![u] = @ - 1]
  /\ Unmount(u)
  /\ UNCHANGED <<ringing, net, opens, turns, stray>>

Ended(u) ==
  /\ page' = [page EXCEPT ![u].state = "ended", ![u].timer = FALSE]
  /\ redirects' = [redirects EXCEPT ![u] = @ + 1]

-----------------------------------------------------------------------------
(* startCall and answerCall.  The offer that is answered is the one last   *)
(* heard of, the answer goes to the peer of the page.  onicecandidate: one *)
(* candidate stands for all, found before or after the signal is sent.     *)

\* The button stays until the call is active, and may be pressed again.
HandleAnswer(u) ==
  /\ page[u].state = "incoming" /\ ringing[u] # Nobody
  /\ IF CameraAsked(u) THEN Turn ELSE UNCHANGED turns
  /\ media' = media \cup {Request(u, page[u].peer, "answer", ringing[u].offer)}
  /\ UNCHANGED <<page, ringing, conns, net, redirects, opens, stray>>

\* The page has a new connection; the one it had is not closed.
Made(m, fresh) ==
  conns' = Append(IF m.here /\ page[m.user].pc # 0
                    THEN [conns EXCEPT ![page[m.user].pc].place = "replaced"]
                    ELSE conns, fresh)

StartCall(m) ==
  LET c == Len(conns) + 1 IN
  /\ m.kind = "start" /\ m \in media /\ c <= MaxConns
  /\ media' = media \ {m}
  /\ Made(m, Fresh(m.user, m.peer, 0, m.here))
  /\ page' = IF m.here THEN [page EXCEPT ![m.user].pc = c] ELSE page
  /\ stray' = IF m.here /\ page[m.user].described THEN [stray EXCEPT ![m.user] = TRUE] ELSE stray
  /\ Send(m.user, m.peer, <<Signal("call:offer", c), Signal("call:ice-candidate", c)>>)
  /\ UNCHANGED <<ringing, redirects, opens, turns>>

\* When the steps of two of these mix, one sends no answer and its connection
\* never links; this is the case of a request that fails.
AnswerCall(m) ==
  LET c == Len(conns) + 1
      u == m.user
  IN /\ m.kind = "answer" /\ m \in media /\ c <= MaxConns
     /\ media' = media \ {m}
     /\ Made(m, [Fresh(u, m.peer, m.offer, m.here) EXCEPT
                   !.ice = m.here /\ m.offer \in page[u].early])
     /\ page' = IF m.here THEN [page EXCEPT ![u].pc = c, ![u].state = "active",
                                            ![u].described = TRUE, ![u].early = {}]
                ELSE page
     /\ ringing' = [ringing EXCEPT ![u] = Nobody]
     /\ \/ Send(u, m.peer, <<Signal("call:answer", c), Signal("call:ice-candidate", c)>>)
        \/ Send(u, m.peer, <<Signal("call:ice-candidate", c), Signal("call:answer", c)>>)
     /\ UNCHANGED <<redirects, opens, turns, stray>>

\* No camera, or the user says no: the page shows an error and goes on.
MediaFails(m) ==
  /\ Turn
  /\ media' = media \ {m}
  /\ ringing' = IF m.kind = "answer" THEN [ringing EXCEPT ![m.user] = Nobody] ELSE ringing
  /\ UNCHANGED <<page, conns, net, redirects, opens, stray>>

-----------------------------------------------------------------------------
(* What the window of v does with a signal of u.                           *)

OnIncoming(u, v, id) ==
  /\ ringing' = [ringing EXCEPT ![v] = [from |-> u, offer |-> id]]
  /\ UNCHANGED <<page, conns, redirects, stray>>

\* setRemoteAnswer: the timer is cleared first.  A connection refuses an answer
\* when it has a description already, and may refuse one that is not to its
\* offer; without a connection only the candidates are released.
OnAnswered(u, v, id) ==
  LET c == page[v].pc IN
  /\ page[v].peer = u
  /\ \/ /\ c # 0 /\ conns[c].remote = 0
        /\ conns' = [conns EXCEPT ![c].remote = id, ![c].ice = id \in page[v].early]
        /\ page' = [page EXCEPT ![v].state = "active", ![v].timer = FALSE,
                                ![v].described = TRUE, ![v].early = {}]
        /\ UNCHANGED stray
     \/ /\ c # 0 /\ (conns[c].remote # 0 \/ conns[id].remote # c)
        /\ page' = [page EXCEPT ![v].timer = FALSE, ![v].refused = TRUE]
        /\ UNCHANGED <<conns, stray>>
     \/ /\ c = 0
        /\ page' = [page EXCEPT ![v].timer = FALSE, ![v].described = TRUE, ![v].early = {}]
        /\ stray' = [stray EXCEPT ![v] = TRUE]
        /\ UNCHANGED conns
  /\ UNCHANGED <<ringing, redirects>>

OnIceMutant(u, v, id) ==
  LET c == page[v].pc IN
  /\ page[v].peer = u
  /\ IF ~page[v].described
       THEN UNCHANGED <<page, conns>>
       ELSE /\ conns' = IF c # 0 /\ conns[c].remote = id THEN [conns EXCEPT ![c].ice = TRUE] ELSE conns
            /\ UNCHANGED page
  /\ UNCHANGED <<ringing, redirects, stray>>

\* addIceCandidate
OnIce(u, v, id) ==
  LET c == page[v].pc IN
  /\ page[v].peer = u
  /\ IF ~page[v].described
       THEN page' = [page EXCEPT ![v].early = @ \cup {id}] /\ UNCHANGED conns
       ELSE /\ conns' = IF c # 0 /\ conns[c].remote = id THEN [conns EXCEPT ![c].ice = TRUE] ELSE conns
            /\ UNCHANGED page
  /\ UNCHANGED <<ringing, redirects, stray>>

\* onRejected, onEnded and onBusy: whoever it comes from
OnOver(v) ==
  /\ page[v].state # "home"
  /\ Ended(v)
  /\ UNCHANGED <<ringing, conns, stray>>

Heard(u, v, s) ==
  \/ s.kind = "call:offer" /\ OnIncoming(u, v, s.id)
  \/ s.kind = "call:answer" /\ OnAnswered(u, v, s.id)
  \/ s.kind = "call:ice-candidate" /\ OnIce(u, v, s.id)
  \/ s.kind \in {"call:reject", "call:end"} /\ OnOver(v)

\* A signal nobody listens for is dropped.
Dropped(u, v, s) ==
  \/ s.kind \in {"call:answer", "call:ice-candidate"} /\ page[v].peer # u
  \/ s.kind \in {"call:reject", "call:end"} /\ page[v].state = "home"

Deliver(u, v, i) ==
  /\ Take(u, v, i)
  /\ \/ Heard(u, v, net[u][v][i])
     \/ Dropped(u, v, net[u][v][i]) /\ UNCHANGED <<page, ringing, conns, redirects, stray>>
  /\ UNCHANGED <<media, opens, turns>>

-----------------------------------------------------------------------------
(* The timer of 45 seconds and the connection.                             *)

NoAnswer(u) ==
  /\ page[u].timer
  /\ Emit(u, page[u].peer, "call:end")
  /\ Ended(u)
  /\ UNCHANGED <<ringing, media, conns, opens, turns, stray>>

TokenRefreshedMutant(u) ==
  /\ page[u].state # "home"
  /\ Turn
  /\ page' = [page EXCEPT ![u].timer = FALSE]
  /\ UNCHANGED <<ringing, media, conns, net, redirects, opens, stray>>

\* A new access token runs the effect anew, which sets the timer anew.
TokenRefreshed(u) ==
  /\ page[u].state # "home"
  /\ Turn
  /\ page' = [page EXCEPT ![u].timer = ~page[u].incoming]
  /\ UNCHANGED <<ringing, media, conns, net, redirects, opens, stray>>

\* onconnectionstatechange, of a connection whose other side is not there;
\* also of one that is replaced, or belongs to no page any more.
ConnectionLost(c) ==
  LET u == conns[c].owner IN
  /\ conns[c].status = "open" /\ conns[c].remote # 0 /\ ~\E d \in Conn : Match(c, d)
  /\ conns' = [conns EXCEPT ![c].status = "failed"]
  /\ IF conns[c].place # "alone"
       THEN page' = [page EXCEPT ![u].state = "ended"]
       ELSE UNCHANGED page
  /\ redirects' = [redirects EXCEPT ![u] = @ + 1]
  /\ UNCHANGED <<ringing, media, net, opens, turns, stray>>

CallNext ==
  \/ \E d \in Dials : Dial(d[1], d[2])
  \/ \E u \in Party :
       \/ HandleAcceptCall(u) \/ HandleRejectCall(u) \/ Reload(u)
       \/ HandleAnswer(u) \/ HandleReject(u) \/ HandleEnd(u) \/ GoElsewhere(u)
       \/ Redirect(u) \/ NoAnswer(u) \/ TokenRefreshed(u)
       \/ \E v \in Party : \E i \in Due(u, v) : Deliver(u, v, i)
  \/ \E m \in media : StartCall(m) \/ AnswerCall(m) \/ MediaFails(m)
  \/ \E c \in Conn : ConnectionLost(c)

CallSpec == CallInit /\ [][CallNext]_callVars

-----------------------------------------------------------------------------
(* Properties *)

Faces(c, d) ==
  /\ page[conns[c].owner].pc = c
  /\ page[conns[c].owner].peer = conns[d].owner

(***************************************************************************)
(* Whoever is heard and seen has the other one on his page, although the   *)
(* offer answered may be a third user's and answers may be old: only a     *)
(* camera allowed after the page was left, and a second request for it     *)
(* whose connection replaces the first, make a call without a page.        *)
(***************************************************************************)
FaceToFace ==
  \A c, d \in Conn : Linked(c, d) /\ conns[c].place = "page" => Faces(c, d)

OnItsWay(c) ==
  LET u == conns[c].owner
      v == conns[c].peer
  IN \E i \in DOMAIN net[u][v] : net[u][v][i] = Signal("call:ice-candidate", c)

(***************************************************************************)
(* A call that was answered gets its connection once the candidates of     *)
(* the answer are delivered, in whatever order the answer, the candidates  *)
(* and the camera come; except on a page that took a description before it *)
(* had this connection (an answer to an earlier call, or its own answer),  *)
(* and where another connection has replaced the one that made the offer.  *)
(***************************************************************************)
AnsweredCallsConnect ==
  \A a, b \in Conn : a < b /\ Match(a, b) /\ conns[a].place = "page" =>
    Linked(a, b) \/ OnItsWay(b) \/ stray[conns[a].owner]

(***************************************************************************)
(* Nobody who called waits for an answer without end: the timer runs,      *)
(* unless an answer that made no call has switched it off.  It does not    *)
(* speak of a page for an incoming call that calls since its offer is gone *)
(* and never had a timer.                                                  *)
(***************************************************************************)
RingingEnds ==
  \A u \in Party : page[u].state = "outgoing" =>
    page[u].timer \/ stray[u] \/ page[u].refused
=============================================================================
