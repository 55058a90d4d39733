------------------------------ MODULE RoomFeed ------------------------------
(***************************************************************************)
(* Rooms together with the sockets that hear their events: the part of     *)
(* ChatGateway that connects a socket, lets it join and leave the channel  *)
(* `room:<id>', and broadcasts what RoomsService emits.  The gateway       *)
(* checks the membership in the database once, when the socket joins.      *)
(***************************************************************************)
EXTENDS Rooms

CONSTANT Socket    \* the sockets that can be connected at one time

ASSUME SocketAssumption == IsFiniteSet(Socket)

VARIABLES
  sockUser,  \* the user of each socket, None when it is not connected
  joining,   \* the rooms whose membership check has passed, join to come
  sub,       \* the rooms whose channel the socket has joined
  stray      \* history: the <<user, room>> that heard an event of a room
             \* that exists and that the user was not a member of then

feed == <<sockUser, joining, sub, stray>>
feedVars == <<vars, feed>>

FeedTypeOK ==
  /\ sockUser \in [Socket -> User \cup {None}]
  /\ joining \in [Socket -> SUBSET Room]
  /\ sub \in [Socket -> SUBSET Room]
  /\ stray \subseteq User \X Room

FeedInit ==
  /\ Init
  /\ sockUser = [s \in Socket |-> None]
  /\ joining = [s \in Socket |-> {}]
  /\ sub = [s \in Socket |-> {}]
  /\ stray = {}

\* handleConnection of a socket whose token names u
Connect(s, u) ==
  /\ sockUser[s] = None
  /\ sockUser' = [sockUser EXCEPT ![s] = u]
  /\ UNCHANGED <<joining, sub, stray, vars>>

\* handleDisconnect, after which socket.io has taken it out of its channels
Disconnect(s) ==
  /\ sockUser[s] # None
  /\ sockUser' = [sockUser EXCEPT ![s] = None]
  /\ joining' = [joining EXCEPT ![s] = {}]
  /\ sub' = [sub EXCEPT ![s] = {}]
  /\ UNCHANGED <<stray, vars>>

\* Mutant: the membership is not checked.
JoinChannelMutant(s, r) ==
  /\ sockUser[s] # None
  /\ joining' = [joining EXCEPT ![s] = @ \cup {r}]
  /\ UNCHANGED <<sockUser, sub, stray, vars>>

\* handleJoinRoom up to the answer of isRoomMember, and after it
JoinChannel(s, r) ==
  /\ sockUser[s] \in member[r]
  /\ joining' = [joining EXCEPT ![s] = @ \cup {r}]
  /\ UNCHANGED <<sockUser, sub, stray, vars>>

JoinedChannel(s, r) ==
  /\ r \in joining[s]
  /\ joining' = [joining EXCEPT ![s] = @ \ {r}]
  /\ sub' = [sub EXCEPT ![s] = @ \cup {r}]
  /\ UNCHANGED <<sockUser, stray, vars>>

\* handleLeaveRoom
LeaveChannel(s, r) ==
  /\ r \in sub[s]
  /\ sub' = [sub EXCEPT ![s] = @ \ {r}]
  /\ UNCHANGED <<sockUser, joining, stray, vars>>

\* sendToRoom: every socket in the channel hears the event.
Broadcast(r) ==
  stray' = stray \cup
    {<<sockUser[s], r>> : s \in {x \in Socket : /\ Exists(r) /\ r \in sub[x]
                                                 /\ sockUser[x] \notin member[r]}}

EmitToRoom(p) ==
  /\ SendEmit(p) \/ EditEmit(p)
  /\ Broadcast(tgt[p])
  /\ UNCHANGED <<sockUser, joining, sub>>

\* The sockets are those of one server process: they go with it.
FeedRestart ==
  /\ Restart
  /\ sockUser' = [s \in Socket |-> None]
  /\ joining' = [s \in Socket |-> {}]
  /\ sub' = [s \in Socket |-> {}]
  /\ UNCHANGED stray

FeedNext ==
  \/ Quiet /\ UNCHANGED feed
  \/ \E p \in Handler : EmitToRoom(p)
  \/ \E s \in Socket, u \in User : Connect(s, u)
  \/ \E s \in Socket : Disconnect(s)
  \/ \E s \in Socket, r \in Room :
       JoinChannel(s, r) \/ JoinedChannel(s, r) \/ LeaveChannel(s, r)
  \/ FeedRestart

FeedSpec == FeedInit /\ [][FeedNext]_feedVars

(* main.ts starts the cleanup with the server and repeats it with          *)
(* setInterval, an error being swallowed: it runs again and again.         *)
FairFeedSpec == FeedSpec /\ WF_feedVars(CleanupExpired /\ UNCHANGED feed)

-----------------------------------------------------------------------------
(***************************************************************************)
(* Only the sockets of users who have entered a room with its password     *)
(* hear it: reconnecting as somebody else, leaving while the membership is *)
(* being checked and restarting the server give nobody else the channel.   *)
(* (Those who have left since may hear it, as stray records.)              *)
(***************************************************************************)
ListenersEntered ==
  /\ \A s \in Socket : \A r \in sub[s] \cup joining[s] : sockUser[s] \in entered[r]
  /\ \A x \in stray : x[1] \in entered[x[2]]
=============================================================================
