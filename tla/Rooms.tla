------------------------------- MODULE Rooms -------------------------------
(***************************************************************************)
(* Password-protected rooms, as RoomsService keeps them in the tables      *)
(* Room, RoomMember and RoomMessage.  As in Contacts, a handler is one     *)
(* HTTP request being served and an action is what runs between two awaits *)
(* of the source.  Deleting a room deletes its members and messages, and a *)
(* row that refers to a room cannot be written once the room is gone (the  *)
(* foreign keys of the schema): the write throws and the handler ends.     *)
(***************************************************************************)
EXTENDS Integers, FiniteSets

CONSTANTS
  User,        \* the accounts
  Room,        \* the ids that createRoom may give to a room, each at most once
  Handler,     \* the requests being served at one time
  None,        \* no user, no room
  MaxRooms,    \* maxRooms of the users' plan
  MaxMembers,  \* maxRoomMembers of the users' plan
  MaxMsgs      \* bound of the model: messages created in all

ASSUME RoomsAssumption ==
  /\ IsFiniteSet(User) /\ IsFiniteSet(Room)
  /\ IsFiniteSet(Handler) /\ Handler # {}
  /\ None \notin User \cup Room
  /\ MaxRooms \in Nat \ {0} /\ MaxMembers \in Nat \ {0}
  /\ MaxMsgs \in Nat

VARIABLES
  status,   \* of each room row: not yet created, live, past expiresAt, deleted
  owner,    \* the room's ownerId
  member,   \* the users with a RoomMember row, per room
  msgs,     \* the RoomMessage rows
  edited,   \* the ids of the messages whose text was edited
  lastMsg,  \* message ids handed out so far
  pc,       \* the query each handler runs next
  who,      \* the user it runs for
  tgt,      \* the room it works on
  ref,      \* the message it has read: the reply target or the one to edit
  entered   \* history: the users that have ever been members, per room

rows == <<status, owner, member, msgs, edited, lastMsg, entered>>
locals == <<pc, who, tgt, ref>>
vars == <<rows, locals>>

Message == [id : Nat, room : Room, author : User,
            kind : {"text", "left"}, reply : Nat]

Step == {"idle", "createRow", "joinCount", "joinUpsert", "deleteRow",
         "leaveNotice", "leaveRow", "sendReply", "sendCreate", "sendEmit",
         "editFind", "editUpdate", "editEmit"}

TypeOK ==
  /\ status \in [Room -> {"none", "live", "expired", "deleted"}]
  /\ owner \in [Room -> User \cup {None}]
  /\ member \in [Room -> SUBSET User]
  /\ msgs \subseteq Message
  /\ edited \subseteq Nat
  /\ lastMsg \in Nat
  /\ pc \in [Handler -> Step]
  /\ who \in [Handler -> User \cup {None}]
  /\ tgt \in [Handler -> Room \cup {None}]
  /\ ref \in [Handler -> Nat]
  /\ entered \in [Room -> SUBSET User]
  /\ \A p \in Handler : pc[p] # "idle" => who[p] \in User
  /\ \A p \in Handler : pc[p] \notin {"idle", "createRow"} => tgt[p] \in Room

Init ==
  /\ status = [r \in Room |-> "none"]
  /\ owner = [r \in Room |-> None]
  /\ member = [r \in Room |-> {}]
  /\ msgs = {} /\ edited = {} /\ lastMsg = 0
  /\ pc = [p \in Handler |-> "idle"]
  /\ who = [p \in Handler |-> None]
  /\ tgt = [p \in Handler |-> None]
  /\ ref = [p \in Handler |-> 0]
  /\ entered = [r \in Room |-> {}]

Exists(r) == status[r] \in {"live", "expired"}
OwnedBy(u) == {r \in Room : Exists(r) /\ owner[r] = u}

Begin(p, u, r, step) ==
  /\ pc[p] = "idle"
  /\ pc' = [pc EXCEPT ![p] = step]
  /\ who' = [who EXCEPT ![p] = u]
  /\ tgt' = [tgt EXCEPT ![p] = r]
  /\ UNCHANGED ref

\* The handler answers or throws, and is free for another request.
End(p) ==
  /\ pc' = [pc EXCEPT ![p] = "idle"]
  /\ who' = [who EXCEPT ![p] = None]
  /\ tgt' = [tgt EXCEPT ![p] = None]
  /\ ref' = [ref EXCEPT ![p] = 0]

Goto(p, step) ==
  /\ pc' = [pc EXCEPT ![p] = step]
  /\ UNCHANGED <<who, tgt, ref>>

\* A row is written to RoomMessage.
Post(r, u, kind, reply) ==
  /\ lastMsg < MaxMsgs
  /\ lastMsg' = lastMsg + 1
  /\ msgs' = msgs \cup {[id |-> lastMsg + 1, room |-> r, author |-> u,
                         kind |-> kind, reply |-> reply]}
  /\ UNCHANGED <<status, owner, member, edited, entered>>

-----------------------------------------------------------------------------
(* createRoom: the rooms owned are counted, then the room is created with  *)
(* its owner as a member in one statement.                                 *)

CreateBegin(p, u) ==
  /\ Cardinality(OwnedBy(u)) < MaxRooms
  /\ Begin(p, u, None, "createRow")
  /\ UNCHANGED rows

CreateRow(p, r) ==
  /\ pc[p] = "createRow"
  /\ status[r] = "none"
  /\ status' = [status EXCEPT ![r] = "live"]
  /\ owner' = [owner EXCEPT ![r] = who[p]]
  /\ member' = [member EXCEPT ![r] = {who[p]}]
  /\ entered' = [entered EXCEPT ![r] = {who[p]}]
  /\ End(p)
  /\ UNCHANGED <<msgs, edited, lastMsg>>

-----------------------------------------------------------------------------
(* joinRoom: the room is read, its members are counted, the password is    *)
(* verified, and the membership is upserted.                               *)

JoinBegin(p, u, r) ==
  /\ Exists(r)
  /\ Begin(p, u, r, "joinCount")
  /\ UNCHANGED rows

\* Mutant: the comparison is off by one.
JoinCountMutant(p) ==
  /\ pc[p] = "joinCount"
  /\ \/ /\ Cardinality(member[tgt[p]]) <= MaxMembers
        /\ Goto(p, "joinUpsert")
     \/ End(p)
  /\ UNCHANGED rows

JoinCount(p) ==
  /\ pc[p] = "joinCount"
  /\ \/ /\ Cardinality(member[tgt[p]]) < MaxMembers
        /\ Goto(p, "joinUpsert")
     \/ End(p)                    \* the room is full or the password wrong
  /\ UNCHANGED rows

JoinUpsert(p) ==
  LET r == tgt[p] IN
  /\ pc[p] = "joinUpsert"
  /\ IF Exists(r)
       THEN /\ member' = [member EXCEPT ![r] = @ \cup {who[p]}]
            /\ entered' = [entered EXCEPT ![r] = @ \cup {who[p]}]
       ELSE UNCHANGED <<member, entered>>
  /\ End(p)
  /\ UNCHANGED <<status, owner, msgs, edited, lastMsg>>

-----------------------------------------------------------------------------
\* The room row goes, and the rows that refer to it.
Delete(R) ==
  /\ status' = [r \in Room |-> IF r \in R THEN "deleted" ELSE status[r]]
  /\ member' = [r \in Room |-> IF r \in R THEN {} ELSE member[r]]
  /\ msgs' = {m \in msgs : m.room \notin R}
  /\ UNCHANGED <<owner, edited, lastMsg, entered>>

(* deleteRoom *)
DeleteBegin(p, u, r) ==
  /\ Exists(r) /\ owner[r] = u
  /\ Begin(p, u, r, "deleteRow")
  /\ UNCHANGED rows

DeleteRow(p) ==
  /\ pc[p] = "deleteRow"
  /\ IF Exists(tgt[p]) THEN Delete({tgt[p]}) ELSE UNCHANGED rows
  /\ End(p)

(* The ten days pass; the hourly timer deletes every room they passed for. *)
Expire(r) ==
  /\ status[r] = "live"
  /\ status' = [status EXCEPT ![r] = "expired"]
  /\ UNCHANGED <<owner, member, msgs, edited, lastMsg, entered, locals>>

\* Mutant: the comparison with the clock is the wrong way round.
CleanupExpiredMutant ==
  /\ \E r \in Room : status[r] = "live"
  /\ Delete({r \in Room : status[r] = "live"})
  /\ UNCHANGED locals

CleanupExpired ==
  /\ \E r \in Room : status[r] = "expired"
  /\ Delete({r \in Room : status[r] = "expired"})
  /\ UNCHANGED locals

-----------------------------------------------------------------------------
(* leaveRoom: the owner is refused; a 'user_left' message is written, and  *)
(* then the membership is deleted.                                         *)

\* Mutant: the owner may leave.
LeaveBeginMutant(p, u, r) ==
  Exists(r) /\ Begin(p, u, r, "leaveNotice") /\ UNCHANGED rows

LeaveBegin(p, u, r) ==
  /\ Exists(r) /\ owner[r] # u
  /\ Begin(p, u, r, "leaveNotice")
  /\ UNCHANGED rows

\* Mutant: the membership goes first, the message follows.
LeaveNoticeMutant(p) ==
  /\ pc[p] = "leaveNotice"
  /\ Exists(tgt[p])
  /\ member' = [member EXCEPT ![tgt[p]] = @ \ {who[p]}]
  /\ Goto(p, "leaveRow")
  /\ UNCHANGED <<status, owner, msgs, edited, lastMsg, entered>>

LeaveNotice(p) ==
  /\ pc[p] = "leaveNotice"
  /\ IF Exists(tgt[p])
       THEN Post(tgt[p], who[p], "left", 0) /\ Goto(p, "leaveRow")
       ELSE End(p) /\ UNCHANGED rows

LeaveRow(p) ==
  /\ pc[p] = "leaveRow"
  /\ member' = [member EXCEPT ![tgt[p]] = @ \ {who[p]}]
  /\ End(p)
  /\ UNCHANGED <<status, owner, msgs, edited, lastMsg, entered>>

-----------------------------------------------------------------------------
(* sendMessage: the membership is checked, the message replied to is       *)
(* looked up in the same room, the row is written, the event is emitted.   *)

\* Mutant: the membership is not checked.
SendBeginMutant(p, u, r) ==
  Exists(r) /\ Begin(p, u, r, "sendCreate") /\ UNCHANGED rows

SendBegin(p, u, r) ==
  /\ u \in member[r]
  /\ \/ Begin(p, u, r, "sendReply")
     \/ Begin(p, u, r, "sendCreate")
  /\ UNCHANGED rows

\* Mutant: the message replied to is looked up by its id alone.
SendReplyMutant(p, id) ==
  /\ pc[p] = "sendReply"
  /\ pc' = [pc EXCEPT ![p] = "sendCreate"]
  /\ ref' = [ref EXCEPT ![p] = IF \E m \in msgs : m.id = id THEN id ELSE 0]
  /\ UNCHANGED <<rows, who, tgt>>

SendReply(p, id) ==
  /\ pc[p] = "sendReply"
  /\ pc' = [pc EXCEPT ![p] = "sendCreate"]
  /\ ref' = [ref EXCEPT ![p] =
               IF \E m \in msgs : m.id = id /\ m.room = tgt[p] THEN id ELSE 0]
  /\ UNCHANGED <<rows, who, tgt>>

SendCreate(p) ==
  /\ pc[p] = "sendCreate"
  /\ IF Exists(tgt[p])
       THEN Post(tgt[p], who[p], "text", ref[p]) /\ Goto(p, "sendEmit")
       ELSE End(p) /\ UNCHANGED rows

SendEmit(p) ==
  /\ pc[p] = "sendEmit"
  /\ End(p)
  /\ UNCHANGED rows

-----------------------------------------------------------------------------
(* editMessage: the membership, then the message (its room, its author and *)
(* its age, any of which may refuse), then the update and the event.       *)

EditBegin(p, u, r) ==
  /\ u \in member[r]
  /\ Begin(p, u, r, "editFind")
  /\ UNCHANGED rows

EditFind(p, id) ==
  /\ pc[p] = "editFind"
  /\ \/ /\ \E m \in msgs : m.id = id /\ m.room = tgt[p] /\ m.author = who[p]
        /\ pc' = [pc EXCEPT ![p] = "editUpdate"]
        /\ ref' = [ref EXCEPT ![p] = id]
        /\ UNCHANGED <<who, tgt>>
     \/ End(p)
  /\ UNCHANGED rows

EditUpdate(p) ==
  /\ pc[p] = "editUpdate"
  /\ IF \E m \in msgs : m.id = ref[p]
       THEN edited' = edited \cup {ref[p]} /\ Goto(p, "editEmit")
       ELSE UNCHANGED edited /\ End(p)
  /\ UNCHANGED <<status, owner, member, msgs, lastMsg, entered>>

EditEmit(p) ==
  /\ pc[p] = "editEmit"
  /\ End(p)
  /\ UNCHANGED rows

-----------------------------------------------------------------------------
\* The server stops: what was not committed is lost with its handlers.
Restart ==
  /\ pc' = [p \in Handler |-> "idle"]
  /\ who' = [p \in Handler |-> None]
  /\ tgt' = [p \in Handler |-> None]
  /\ ref' = [p \in Handler |-> 0]
  /\ UNCHANGED rows

\* Everything but the two events that sendToRoom emits and a restart.
Quiet ==
  \/ \E p \in Handler :
       \/ \E u \in User :
            \/ CreateBegin(p, u)
            \/ \E r \in Room :
                 \/ JoinBegin(p, u, r)
                 \/ DeleteBegin(p, u, r)
                 \/ LeaveBegin(p, u, r)
                 \/ SendBegin(p, u, r)
                 \/ EditBegin(p, u, r)
       \/ \E r \in Room : CreateRow(p, r)
       \/ JoinCount(p)
       \/ JoinUpsert(p)
       \/ DeleteRow(p)
       \/ LeaveNotice(p)
       \/ LeaveRow(p)
       \/ \E id \in 1..MaxMsgs : SendReply(p, id) \/ EditFind(p, id)
       \/ SendCreate(p)
       \/ EditUpdate(p)
  \/ \E r \in Room : Expire(r)
  \/ CleanupExpired

Emits == \E p \in Handler : SendEmit(p) \/ EditEmit(p)

Next == Quiet \/ Emits \/ Restart

Spec == Init /\ [][Next]_vars

-----------------------------------------------------------------------------
(* Properties *)

(***************************************************************************)
(* The owner of a room that exists is a member of it: no interleaving of   *)
(* leaving, joining and deleting leaves a room its owner cannot post to.   *)
(***************************************************************************)
OwnerIsMember == \A r \in Room : Exists(r) => owner[r] \in member[r]

(***************************************************************************)
(* Who posts in a room has at some time entered it with the password (or   *)
(* created it), though the membership may have ended since it was checked; *)
(* and what he quotes is an earlier message of that room, still there.     *)
(***************************************************************************)
MessagesBelong ==
  \A m \in msgs :
    /\ m.kind = "text" => m.author \in entered[m.room]
    /\ m.reply # 0 => \E n \in msgs : n.id = m.reply /\ n.room = m.room /\ n.id < m.id

(***************************************************************************)
(* Whoever was a member of a room that exists and is none any more has     *)
(* left a 'user_left' message in it: nobody vanishes silently, wherever    *)
(* the server stops between the two writes of leaveRoom.                   *)
(***************************************************************************)
DeparturesAnnounced ==
  \A r \in Room : Exists(r) => \A u \in entered[r] \ member[r] :
    \E m \in msgs : m.kind = "left" /\ m.room = r /\ m.author = u

\* The joiners that have passed the count and have yet to be written.
Admitted(r) == {p \in Handler : pc[p] = "joinUpsert" /\ tgt[p] = r}

(***************************************************************************)
(* Members are counted before they are added (as rooms are before they are *)
(* created): the plan's limit is exceeded by less than the number of       *)
(* requests served at one time.                                            *)
(***************************************************************************)
BoundedMembers ==
  \A r \in Room :
    Cardinality(member[r]) + Cardinality(Admitted(r))
      <= MaxMembers - 1 + Cardinality(Handler)

(***************************************************************************)
(* An expired room is deleted in the end, whatever is posted to it.        *)
(***************************************************************************)
ExpiredRoomsGo ==
  \A r \in Room : status[r] = "expired" ~> status[r] = "deleted"
=============================================================================
