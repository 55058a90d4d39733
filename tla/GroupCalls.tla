----------------------------- MODULE GroupCalls -----------------------------
(***************************************************************************)
(* The group call of one room without a media server: the page /group-call *)
(* with its hook useGroupWebRTC in the window of each member, and the part *)
(* of the gateway that relays.  Everybody connects with everybody: who     *)
(* hears somebody with a larger id join makes an offer.  Candidates follow *)
(* their description on the same way and are left out.                     *)
(***************************************************************************)
EXTENDS Naturals, Sequences

CONSTANTS
  Member,      \* the members of the room; ids are compared
  MaxSessions, \* bound of the model: pages ever opened and sockets lost
  MaxConns     \* bound of the model: connections ever made

ASSUME GroupCallsAssumption ==
  /\ Member \subseteq Nat
  /\ {MaxSessions, MaxConns} \subseteq Nat

VARIABLES
  place,    \* where each user is: away, asking for the camera, in the call
  channel,  \* whether his socket is in the channel of the room, or was before
            \* it was lost and came back
  orphans,  \* requests for the camera whose page has been left
  pcs,      \* pcs[u]: the connections of u by peer
  net,      \* net[u][v]: signals of u that v has still to get
  sessions, \* history: pages opened and sockets lost
  conns,    \* history: connections made
  heard,    \* history: whose join each user heard while in the call, neither
            \* having lost his socket since
  raced,    \* history: <<u, v>>: u made v two offers at once
  untold    \* history: <<u, v>>: v shows u, who left, and nothing will tell him

calls == <<place, channel, orphans, pcs, net>>
groupVars == <<calls, sessions, conns, heard, raced, untold>>

Peers(u) == Member \ {u}
NoConns == [v \in {} |-> 0]

GroupTypeOK ==
  /\ place \in [Member -> {"away", "asking", "in", "failed"}]
  /\ channel \in [Member -> {"none", "joining", "in", "lost"}]
  /\ orphans \in [Member -> 0..MaxSessions]
  /\ \A u \in Member :
       /\ DOMAIN pcs[u] \subseteq Peers(u)
       /\ \A v \in DOMAIN pcs[u] : pcs[u][v].id \in 1..conns /\ pcs[u][v].remote \in 0..conns
       /\ place[u] # "in" => pcs[u] = NoConns
       /\ place[u] = "away" <=> channel[u] = "none"

GroupInit ==
  /\ place = [u \in Member |-> "away"]
  /\ channel = [u \in Member |-> "none"]
  /\ orphans = [u \in Member |-> 0]
  /\ pcs = [u \in Member |-> NoConns]
  /\ net = [u \in Member |-> [v \in Member |-> <<>>]]
  /\ sessions = 0 /\ conns = 0
  /\ heard = [u \in Member |-> {}]
  /\ raced = {} /\ untold = {}

Signal(kind, id) == [kind |-> kind, id |-> id]
Has(s, kind) == \E i \in DOMAIN s : s[i].kind = kind

\* What the gateway has from u for v, in order; but it looks up the member
\* before it passes gcall:join on, so that anything may overtake that.
Due(u, v) == {i \in DOMAIN net[u][v] : \A j \in 1..(i - 1) : net[u][v][j].kind = "join"}
Without(s, i) == SubSeq(s, 1, i - 1) \o SubSeq(s, i + 1, Len(s))

ToOthers(u, kind) ==
  net' = [net EXCEPT ![u] = [v \in Member |->
            IF v = u THEN <<>> ELSE Append(@[v], Signal(kind, 0))]]
Reply(u, v, i, signals) ==
  net' = [net EXCEPT ![u][v] = Without(@, i), ![v][u] = @ \o signals]

-----------------------------------------------------------------------------
(* Joining and leaving.                                                    *)

Open(u) ==
  /\ place[u] = "away" /\ sessions < MaxSessions
  /\ sessions' = sessions + 1
  /\ place' = [place EXCEPT ![u] = "asking"]
  /\ channel' = [channel EXCEPT ![u] = "joining"]
  /\ UNCHANGED <<orphans, pcs, net, conns, heard, raced, untold>>

\* The gateway has found u a member and joins his socket to the channel.
HandleJoinRoom(u) ==
  /\ channel[u] = "joining"
  /\ channel' = [channel EXCEPT ![u] = "in"]
  /\ UNCHANGED <<place, orphans, pcs, net, sessions, conns, heard, raced, untold>>

JoinCall(u) ==
  /\ place[u] = "asking"
  /\ place' = [place EXCEPT ![u] = "in"]
  /\ ToOthers(u, "join")
  /\ UNCHANGED <<channel, orphans, pcs, sessions, conns, heard, raced, untold>>

\* No camera, or no answer to the request for a token.
JoinFails(u) ==
  /\ place[u] = "asking"
  /\ place' = [place EXCEPT ![u] = "failed"]
  /\ UNCHANGED <<channel, orphans, pcs, net, sessions, conns, heard, raced, untold>>

\* The camera of a page that was left: joinCall goes on, the room is told.
OrphanJoins(u) ==
  /\ orphans[u] > 0
  /\ orphans' = [orphans EXCEPT ![u] = @ - 1]
  /\ ToOthers(u, "join")
  /\ UNCHANGED <<place, channel, pcs, sessions, conns, heard, raced, untold>>

\* leaveCall, by the button or because the page is left
LeaveCall(u) ==
  /\ place[u] # "away"
  /\ place' = [place EXCEPT ![u] = "away"]
  /\ channel' = [channel EXCEPT ![u] = "none"]
  /\ orphans' = IF place[u] = "asking" THEN [orphans EXCEPT ![u] = @ + 1] ELSE orphans
  /\ pcs' = [pcs EXCEPT ![u] = NoConns]
  /\ heard' = [heard EXCEPT ![u] = {}]
  /\ ToOthers(u, "leave")
  /\ UNCHANGED <<sessions, conns, raced, untold>>

\* v shows u without an answer to his offer, and no word of u will change it.
Abandoned(u, v) ==
  /\ u \in DOMAIN pcs[v] /\ pcs[v][u].remote = 0
  /\ place[u] # "in"
  /\ ~Has(net[u][v], "leave") /\ ~Has(net[u][v], "answer")
Note(u, v) ==
  untold' = IF Abandoned(u, v)' THEN untold \cup {<<u, v>>} ELSE untold \ {<<u, v>>}

\* The tab is closed, reloaded or killed: no effect of the page runs, nobody
\* is told, and what it had sent last may be lost with it.
CloseTab(u) ==
  /\ place[u] # "away"
  /\ place' = [place EXCEPT ![u] = "away"]
  /\ channel' = [channel EXCEPT ![u] = "none"]
  /\ orphans' = [orphans EXCEPT ![u] = 0]
  /\ pcs' = [pcs EXCEPT ![u] = NoConns]
  /\ heard' = [heard EXCEPT ![u] = {}]
  /\ net' \in {net, [net EXCEPT ![u] = [v \in Member |-> <<>>]]}
  /\ untold' = untold \cup {<<u, v>> : v \in {w \in Peers(u) : Abandoned(u, w)'}}
  /\ UNCHANGED <<sessions, conns, raced>>

\* The socket is lost and comes back: what was on its way to it may be gone,
\* and the page does not join the channel of the room again.
Reconnect(u) ==
  /\ channel[u] \in {"joining", "in"} /\ sessions < MaxSessions
  /\ sessions' = sessions + 1
  /\ channel' = [channel EXCEPT ![u] = "lost"]
  /\ net' \in {net, [w \in Member |-> [net[w] EXCEPT ![u] = <<>>]]}
  /\ heard' = [w \in Member |-> IF w = u THEN {} ELSE heard[w] \ {u}]
  /\ UNCHANGED <<place, orphans, pcs, conns, raced>>
  /\ untold' = untold \cup {<<v, u>> : v \in {w \in Peers(u) : Abandoned(w, u)'}}

-----------------------------------------------------------------------------
(* What v does with a signal of u.                                         *)

CreatePeerConnection(v, u, remote) ==
  /\ conns < MaxConns
  /\ conns' = conns + 1
  /\ pcs' = [pcs EXCEPT ![v] = [w \in DOMAIN @ \cup {u} |->
               IF w = u THEN [id |-> conns + 1, remote |-> remote] ELSE @[w]]]

ClosePeerConnection(v, u) ==
  pcs' = [pcs EXCEPT ![v] = [w \in DOMAIN @ \ {u} |-> @[w]]]

InProgress(v, u) ==
  Has(net[v][u], "offer") \/ Has(net[u][v], "answer")

\* A broadcast reaches the sockets in the channel; it is the smaller id that
\* makes the offer.
OnPeerJoined(u, v, i) ==
  IF place[v] = "in" /\ channel[v] = "in" /\ v < u
    THEN /\ CreatePeerConnection(v, u, 0)
         /\ Reply(u, v, i, <<Signal("offer", conns + 1)>>)
         /\ heard' = [heard EXCEPT ![v] = @ \cup {u}]
         /\ raced' = IF InProgress(v, u) THEN raced \cup {<<v, u>>} ELSE raced
         /\ Note(u, v)
    ELSE /\ Reply(u, v, i, <<>>)
         /\ UNCHANGED <<pcs, conns, heard, raced, untold>>

OnOfferMutant(u, v, i) ==
  /\ IF place[v] = "in" /\ u \in heard[v]
       THEN /\ CreatePeerConnection(v, u, net[u][v][i].id)
            /\ Reply(u, v, i, <<Signal("answer", conns + 1)>>)
       ELSE Reply(u, v, i, <<>>) /\ UNCHANGED <<pcs, conns>>
  /\ UNCHANGED <<heard, raced, untold>>

OnOffer(u, v, i) ==
  /\ IF place[v] = "in"
       THEN /\ CreatePeerConnection(v, u, net[u][v][i].id)
            /\ Reply(u, v, i, <<Signal("answer", conns + 1)>>)
       ELSE Reply(u, v, i, <<>>) /\ UNCHANGED <<pcs, conns>>
  /\ UNCHANGED <<heard, raced, untold>>

\* An answer is taken for that to the last offer.
OnAnswer(u, v, i) ==
  /\ Reply(u, v, i, <<>>)
  /\ IF u \in DOMAIN pcs[v] /\ pcs[v][u].remote = 0
       THEN pcs' = [pcs EXCEPT ![v][u].remote = net[u][v][i].id]
       ELSE UNCHANGED pcs
  /\ UNCHANGED <<conns, heard, raced, untold>>

OnPeerLeftMutant(u, v, i) ==
  /\ Reply(u, v, i, <<>>)
  /\ UNCHANGED <<conns, raced>>
  /\ IF channel[v] = "in"
       THEN /\ IF u \in DOMAIN pcs[v] /\ pcs[v][u].remote # 0
                 THEN ClosePeerConnection(v, u) ELSE UNCHANGED pcs
            /\ heard' = [heard EXCEPT ![v] = @ \ {u}]
            /\ untold' = untold \ {<<u, v>>}
       ELSE UNCHANGED <<pcs, heard>> /\ Note(u, v)

OnPeerLeft(u, v, i) ==
  /\ Reply(u, v, i, <<>>)
  /\ UNCHANGED <<conns, raced>>
  /\ IF channel[v] = "in"
       THEN /\ ClosePeerConnection(v, u)
            /\ heard' = [heard EXCEPT ![v] = @ \ {u}]
            /\ untold' = untold \ {<<u, v>>}
       ELSE UNCHANGED <<pcs, heard>> /\ Note(u, v)

Deliver(u, v, i) ==
  /\ UNCHANGED <<place, channel, orphans, sessions>>
  /\ CASE net[u][v][i].kind = "join" -> OnPeerJoined(u, v, i)
       [] net[u][v][i].kind = "offer" -> OnOffer(u, v, i)
       [] net[u][v][i].kind = "answer" -> OnAnswer(u, v, i)
       [] net[u][v][i].kind = "leave" -> OnPeerLeft(u, v, i)

Match(u, v) ==
  /\ v \in DOMAIN pcs[u] /\ u \in DOMAIN pcs[v]
  /\ pcs[u][v].remote = pcs[v][u].id /\ pcs[v][u].remote = pcs[u][v].id

\* The other side is gone for good or has taken another description.
Dead(u, v) ==
  /\ v \in DOMAIN pcs[u] /\ pcs[u][v].remote # 0
  /\ ~(/\ u \in DOMAIN pcs[v]
       /\ pcs[v][u].id = pcs[u][v].remote
       /\ pcs[v][u].remote \in {0, pcs[u][v].id})

\* onconnectionstatechange: the connection has failed
Failed(u, v) ==
  /\ Dead(u, v)
  /\ ClosePeerConnection(u, v)
  /\ UNCHANGED <<place, channel, orphans, net, sessions, conns, heard, raced, untold>>

GroupNext ==
  \E u \in Member :
    \/ Open(u) \/ HandleJoinRoom(u) \/ JoinCall(u) \/ JoinFails(u)
    \/ OrphanJoins(u) \/ LeaveCall(u) \/ CloseTab(u) \/ Reconnect(u)
    \/ \E v \in Peers(u) : Failed(u, v) \/ \E i \in Due(u, v) : Deliver(u, v, i)

GroupSpec == GroupInit /\ [][GroupNext]_groupVars

-----------------------------------------------------------------------------
(* Properties *)

Delivered == \A u, v \in Member : net[u][v] = <<>>

(***************************************************************************)
(* Once the signals are through, a member who heard somebody with a larger *)
(* id join, both still being there and on the same sockets, is connected   *)
(* with him; unless it made him two offers at once, since an answer does   *)
(* not say to which it is.                                                 *)
(***************************************************************************)
WhoHearsMeets ==
  Delivered => \A u, v \in Member :
    place[u] = "in" /\ place[v] = "in" /\ v \in heard[u]
      => Match(u, v) \/ <<u, v>> \in raced

(***************************************************************************)
(* Once the signals are through and lost connections have failed, everyone *)
(* shown in the call is in it, but for tiles whose offer has no answer and *)
(* whose user left in a way that could not be heard: before his join was   *)
(* (the gateway handles gcall:join more slowly than gcall:leave, and the   *)
(* camera may be allowed after the page was left), by closing the tab      *)
(* (nobody is told), or after the one who shows him had lost the channel.  *)
(***************************************************************************)
NoGhosts ==
  Delivered => \A u \in Member : \A v \in DOMAIN pcs[u] :
    place[v] = "in" \/ Dead(u, v) \/ <<v, u>> \in untold
=============================================================================
