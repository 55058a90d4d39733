---------------------------- MODULE RoomsProofs ----------------------------
(* What holds of Rooms, of RoomFeed and of GroupCalls for every set of     *)
(* users, rooms, handlers, sockets and members and every limit.            *)
EXTENDS RoomFeed, GroupCalls, Counts, TLAPS

-----------------------------------------------------------------------------
(* Type correctness.  The locals of a handler change through Begin, Goto   *)
(* and End and where a message is looked up, the tables in the writes.     *)

HandlerTypeOK ==
  /\ pc \in [Handler -> Step]
  /\ who \in [Handler -> User \cup {None}]
  /\ tgt \in [Handler -> Room \cup {None}]
  /\ ref \in [Handler -> Nat]
  /\ \A p \in Handler : pc[p] # "idle" => who[p] \in User
  /\ \A p \in Handler : pc[p] \notin {"idle", "createRow"} => tgt[p] \in Room

TablesTypeOK ==
  /\ status \in [Room -> {"none", "live", "expired", "deleted"}]
  /\ owner \in [Room -> User \cup {None}]
  /\ member \in [Room -> SUBSET User]
  /\ msgs \subseteq Message
  /\ edited \subseteq Nat
  /\ lastMsg \in Nat
  /\ entered \in [Room -> SUBSET User]

LEMMA TypeParts == TypeOK <=> HandlerTypeOK /\ TablesTypeOK
  BY DEF TypeOK, HandlerTypeOK, TablesTypeOK

LEMMA BeginType ==
  ASSUME HandlerTypeOK, NEW p \in Handler, NEW u \in User, NEW r \in Room \cup {None},
         NEW step \in Step, step \notin {"idle", "createRow"} => r \in Room,
         Begin(p, u, r, step)
  PROVE  HandlerTypeOK'
  BY DEF HandlerTypeOK, Begin

LEMMA EndType ==
  ASSUME HandlerTypeOK, NEW p \in Handler, End(p)
  PROVE  HandlerTypeOK'
  BY DEF HandlerTypeOK, End, Step

LEMMA GotoType ==
  ASSUME HandlerTypeOK, NEW p \in Handler, pc[p] \notin {"idle", "createRow"},
         NEW step \in Step, Goto(p, step)
  PROVE  HandlerTypeOK'
  BY DEF HandlerTypeOK, Goto

\* A handler that looks a message up goes on with its id, or with none.
LEMMA LookUpType ==
  ASSUME HandlerTypeOK, NEW p \in Handler, pc[p] \notin {"idle", "createRow"},
         NEW step \in Step, NEW n \in Nat,
         pc' = [pc EXCEPT ![p] = step], ref' = [ref EXCEPT ![p] = n], UNCHANGED <<who, tgt>>
  PROVE  HandlerTypeOK'
  BY DEF HandlerTypeOK

LEMMA RowsType ==
  ASSUME TablesTypeOK, UNCHANGED rows
  PROVE  TablesTypeOK'
  BY DEF TablesTypeOK, rows

LEMMA PostType ==
  ASSUME TablesTypeOK, NEW r \in Room, NEW u \in User, NEW kind \in {"text", "left"},
         NEW reply \in Nat, Post(r, u, kind, reply)
  PROVE  TablesTypeOK'
  BY DEF TablesTypeOK, Post, Message

LEMMA DeleteType ==
  ASSUME TablesTypeOK, NEW R, Delete(R)
  PROVE  TablesTypeOK'
  BY DEF TablesTypeOK, Delete

LEMMA Steps ==
  Step = {"idle", "createRow", "joinCount", "joinUpsert", "deleteRow", "leaveNotice",
          "leaveRow", "sendReply", "sendCreate", "sendEmit", "editFind", "editUpdate",
          "editEmit"}
  BY DEF Step

LEMMA TypeStep ==
  ASSUME TypeOK, Next
  PROVE  TypeOK'
<1>0. HandlerTypeOK /\ TablesTypeOK
  BY TypeParts
<1> SUFFICES HandlerTypeOK' /\ TablesTypeOK'
  BY DEF TypeOK, HandlerTypeOK, TablesTypeOK
<1>1. ASSUME NEW p \in Handler, NEW u \in User, CreateBegin(p, u)
      PROVE  HandlerTypeOK' /\ TablesTypeOK'
  BY <1>0, <1>1, Steps, BeginType, RowsType DEF CreateBegin
<1>2. ASSUME NEW p \in Handler, NEW u \in User, NEW r \in Room,
             JoinBegin(p, u, r) \/ DeleteBegin(p, u, r) \/ LeaveBegin(p, u, r)
               \/ SendBegin(p, u, r) \/ EditBegin(p, u, r)
      PROVE  HandlerTypeOK' /\ TablesTypeOK'
  <2>1. UNCHANGED rows
    BY <1>2 DEF JoinBegin, DeleteBegin, LeaveBegin, SendBegin, EditBegin
  <2>2. \E step \in Step : Begin(p, u, r, step)
    BY <1>2, Steps DEF JoinBegin, DeleteBegin, LeaveBegin, SendBegin, EditBegin
  <2> QED BY <1>0, <2>1, <2>2, BeginType, RowsType
<1>3. ASSUME NEW p \in Handler, NEW r \in Room, CreateRow(p, r)
      PROVE  HandlerTypeOK' /\ TablesTypeOK'
  <2>1. who[p] \in User
    BY <1>0, <1>3 DEF HandlerTypeOK, CreateRow
  <2> QED BY <1>0, <1>3, <2>1, EndType DEF CreateRow, TablesTypeOK
<1>4. ASSUME NEW p \in Handler, JoinCount(p)
      PROVE  HandlerTypeOK' /\ TablesTypeOK'
  BY <1>0, <1>4, Steps, EndType, GotoType, RowsType DEF JoinCount
<1>5. ASSUME NEW p \in Handler, JoinUpsert(p)
      PROVE  HandlerTypeOK' /\ TablesTypeOK'
  <2>1. who[p] \in User /\ tgt[p] \in Room
    BY <1>0, <1>5 DEF HandlerTypeOK, JoinUpsert
  <2> QED BY <1>0, <1>5, <2>1, EndType DEF JoinUpsert, TablesTypeOK
<1>6. ASSUME NEW p \in Handler, DeleteRow(p)
      PROVE  HandlerTypeOK' /\ TablesTypeOK'
  BY <1>0, <1>6, EndType, RowsType, DeleteType DEF DeleteRow
<1>7. ASSUME NEW p \in Handler, LeaveNotice(p) \/ SendCreate(p)
      PROVE  HandlerTypeOK' /\ TablesTypeOK'
  <2>1. who[p] \in User /\ tgt[p] \in Room /\ ref[p] \in Nat
    BY <1>0, <1>7 DEF HandlerTypeOK, LeaveNotice, SendCreate
  <2>2. HandlerTypeOK'
    BY <1>0, <1>7, Steps, EndType, GotoType DEF LeaveNotice, SendCreate
  <2>3. TablesTypeOK'
    BY <1>0, <1>7, <2>1, RowsType, PostType DEF LeaveNotice, SendCreate
  <2> QED BY <2>2, <2>3
<1>8. ASSUME NEW p \in Handler, LeaveRow(p)
      PROVE  HandlerTypeOK' /\ TablesTypeOK'
  <2>1. tgt[p] \in Room
    BY <1>0, <1>8 DEF HandlerTypeOK, LeaveRow
  <2> QED BY <1>0, <1>8, <2>1, EndType DEF LeaveRow, TablesTypeOK
<1>9. ASSUME NEW p \in Handler, NEW id \in 1..MaxMsgs, SendReply(p, id) \/ EditFind(p, id)
      PROVE  HandlerTypeOK' /\ TablesTypeOK'
  <2>1. TablesTypeOK'
    BY <1>0, <1>9, RowsType DEF SendReply, EditFind
  <2>2. id \in Nat
    BY RoomsAssumption
  <2>3. CASE SendReply(p, id)
    <3>1. PICK n \in Nat : ref' = [ref EXCEPT ![p] = n]
      BY <2>2, <2>3 DEF SendReply
    <3> QED BY <1>0, <2>1, <2>3, <3>1, Steps, LookUpType DEF SendReply
  <2>4. CASE EditFind(p, id)
    BY <1>0, <2>1, <2>2, <2>4, Steps, LookUpType, EndType DEF EditFind
  <2> QED BY <1>9, <2>3, <2>4
<1>10. ASSUME NEW p \in Handler, EditUpdate(p)
       PROVE  HandlerTypeOK' /\ TablesTypeOK'
  <2>1. HandlerTypeOK'
    BY <1>0, <1>10, Steps, EndType, GotoType DEF EditUpdate
  <2>2. ref[p] \in Nat
    BY <1>0 DEF HandlerTypeOK
  <2>3. TablesTypeOK'
    BY <1>0, <1>10, <2>2 DEF EditUpdate, TablesTypeOK
  <2> QED BY <2>1, <2>3
<1>11. ASSUME NEW p \in Handler, SendEmit(p) \/ EditEmit(p)
       PROVE  HandlerTypeOK' /\ TablesTypeOK'
  BY <1>0, <1>11, EndType, RowsType DEF SendEmit, EditEmit
<1>12. ASSUME NEW r \in Room, Expire(r)
       PROVE  HandlerTypeOK' /\ TablesTypeOK'
  BY <1>0, <1>12 DEF Expire, HandlerTypeOK, TablesTypeOK, locals
<1>13. ASSUME CleanupExpired
       PROVE  HandlerTypeOK' /\ TablesTypeOK'
  <2>1. HandlerTypeOK'
    BY <1>0, <1>13 DEF CleanupExpired, HandlerTypeOK, locals
  <2> QED BY <1>0, <1>13, <2>1, DeleteType DEF CleanupExpired
<1>14. ASSUME Restart
       PROVE  HandlerTypeOK' /\ TablesTypeOK'
  <2>1. HandlerTypeOK'
    BY <1>14 DEF Restart, HandlerTypeOK, Step
  <2> QED BY <1>0, <1>14, <2>1, RowsType DEF Restart
<1> QED BY <1>1, <1>2, <1>3, <1>4, <1>5, <1>6, <1>7, <1>8, <1>9, <1>10, <1>11, <1>12,
           <1>13, <1>14 DEF Next, Quiet, Emits

(***************************************************************************)
(* The tables and the handlers of RoomsService keep their types.           *)
(***************************************************************************)
THEOREM RoomsTypeCorrect == Spec => []TypeOK
<1>1. Init => TypeOK
  BY DEF Init, TypeOK, Step
<1>2. TypeOK /\ [Next]_vars => TypeOK'
  <2>1. TypeOK /\ UNCHANGED vars => TypeOK'
    BY DEF TypeOK, vars, rows, locals
  <2> QED BY <2>1, TypeStep
<1> QED BY <1>1, <1>2, PTL DEF Spec

-----------------------------------------------------------------------------
(* What ties the tables and the handlers together.  A room that was not    *)
(* created has nothing, and no handler works on it; rows of members and    *)
(* messages belong to rooms that exist; a membership was once checked.     *)

TargetsMade ==
  \A p \in Handler : pc[p] \notin {"idle", "createRow"} => status[tgt[p]] # "none"

RowsBelong ==
  /\ \A r \in Room : member[r] \subseteq entered[r] /\ (status[r] = "none" => entered[r] = {})
  /\ \A m \in msgs : Exists(m.room) /\ m.id <= lastMsg

\* The owner is never about to leave.
LeaversStay ==
  \A p \in Handler : pc[p] \in {"leaveNotice", "leaveRow"} => owner[tgt[p]] # who[p]

\* A sender has entered the room, and what he quotes is there while the room is.
SendersEntered ==
  \A p \in Handler :
    /\ pc[p] = "idle" => ref[p] = 0
    /\ pc[p] \in {"sendReply", "sendCreate"} => who[p] \in entered[tgt[p]]
    /\ pc[p] = "sendCreate" /\ ref[p] # 0 /\ Exists(tgt[p]) =>
         \E n \in msgs : n.id = ref[p] /\ n.room = tgt[p]

\* Who is about to leave has said so.
LeaversAnnounced ==
  \A p \in Handler : pc[p] = "leaveRow" /\ Exists(tgt[p]) =>
    \E m \in msgs : m.kind = "left" /\ m.room = tgt[p] /\ m.author = who[p]

RoomsInv ==
  /\ TypeOK
  /\ TargetsMade /\ RowsBelong
  /\ LeaversStay /\ OwnerIsMember
  /\ SendersEntered /\ MessagesBelong
  /\ LeaversAnnounced /\ DeparturesAnnounced

-----------------------------------------------------------------------------
(* The handlers.  A request begins with a room that exists, or with none;  *)
(* then it keeps its user and its room until it ends.                      *)

\* What a request finds when it begins.
Started(p) ==
  \/ pc'[p] = "createRow"
  \/ /\ tgt'[p] \in Room /\ Exists(tgt'[p])
     /\ pc'[p] \in {"joinCount", "deleteRow"}
  \/ /\ tgt'[p] \in Room /\ Exists(tgt'[p]) /\ owner[tgt'[p]] # who'[p]
     /\ pc'[p] = "leaveNotice"
  \/ /\ tgt'[p] \in Room /\ who'[p] \in member[tgt'[p]]
     /\ pc'[p] \in {"sendReply", "sendCreate", "editFind"}

\* A step of a handler that leaves the tables alone.
Reads(p) ==
  /\ UNCHANGED rows
  /\ \A q \in Handler \ {p} :
       pc'[q] = pc[q] /\ who'[q] = who[q] /\ tgt'[q] = tgt[q] /\ ref'[q] = ref[q]
  /\ \/ pc'[p] = "idle" /\ ref'[p] = 0
     \/ pc[p] = "idle" /\ Started(p) /\ ref'[p] = ref[p]
     \/ /\ who'[p] = who[p] /\ tgt'[p] = tgt[p]
        /\ \/ pc[p] = "joinCount" /\ pc'[p] = "joinUpsert" /\ ref'[p] = ref[p]
              /\ Cardinality(member[tgt[p]]) < MaxMembers
           \/ pc[p] = "editFind" /\ pc'[p] = "editUpdate"
           \/ /\ pc[p] = "sendReply" /\ pc'[p] = "sendCreate"
              /\ ref'[p] # 0 => \E m \in msgs : m.id = ref'[p] /\ m.room = tgt[p]

LEMMA EndReads ==
  ASSUME TypeOK, NEW p \in Handler, End(p), UNCHANGED rows
  PROVE  Reads(p)
  BY DEF TypeOK, End, Reads

LEMMA BeginReads ==
  ASSUME TypeOK, NEW p \in Handler, NEW u \in User, NEW r \in Room \cup {None},
         NEW step \in Step, Begin(p, u, r, step), UNCHANGED rows,
         \/ step = "createRow"
         \/ r \in Room /\ Exists(r) /\ step \in {"joinCount", "deleteRow"}
         \/ r \in Room /\ Exists(r) /\ owner[r] # u /\ step = "leaveNotice"
         \/ r \in Room /\ u \in member[r] /\ step \in {"sendReply", "sendCreate", "editFind"}
  PROVE  Reads(p)
<1>1. /\ pc[p] = "idle" /\ pc'[p] = step /\ who'[p] = u /\ tgt'[p] = r /\ ref'[p] = ref[p]
      /\ \A q \in Handler \ {p} :
           pc'[q] = pc[q] /\ who'[q] = who[q] /\ tgt'[q] = tgt[q] /\ ref'[q] = ref[q]
  BY DEF TypeOK, Begin
<1>2. Started(p)
  BY <1>1 DEF Started
<1> QED BY <1>1, <1>2 DEF Reads

\* Every step reads, writes, or stops the server.
Writes(p) ==
  \/ \E r \in Room : CreateRow(p, r)
  \/ JoinUpsert(p) \/ LeaveRow(p) \/ EditUpdate(p)
  \/ DeleteRow(p) /\ Exists(tgt[p])
  \/ (LeaveNotice(p) \/ SendCreate(p)) /\ Exists(tgt[p])

LEMMA StepsSorted ==
  ASSUME TypeOK, Next
  PROVE  \/ \E p \in Handler : Reads(p) \/ Writes(p)
         \/ \E r \in Room : Expire(r)
         \/ CleanupExpired
         \/ Restart
<1>1. ASSUME NEW p \in Handler, NEW u \in User, CreateBegin(p, u)
      PROVE  Reads(p)
  BY <1>1, Steps, BeginReads DEF CreateBegin
<1>2. ASSUME NEW p \in Handler, NEW u \in User, NEW r \in Room,
             JoinBegin(p, u, r) \/ DeleteBegin(p, u, r) \/ LeaveBegin(p, u, r)
      PROVE  Reads(p)
  BY <1>2, Steps, BeginReads DEF JoinBegin, DeleteBegin, LeaveBegin
<1>3. ASSUME NEW p \in Handler, NEW u \in User, NEW r \in Room,
             SendBegin(p, u, r) \/ EditBegin(p, u, r)
      PROVE  Reads(p)
  BY <1>3, Steps, BeginReads DEF SendBegin, EditBegin
<1>4. ASSUME NEW p \in Handler, JoinCount(p)
      PROVE  Reads(p)
  <2>1. CASE End(p)
    BY <1>4, <2>1, EndReads DEF JoinCount
  <2>2. CASE ~End(p)
    BY <1>4, <2>2 DEF JoinCount, Goto, Reads, TypeOK
  <2> QED BY <2>1, <2>2
<1>5. ASSUME NEW p \in Handler, DeleteRow(p)
      PROVE  Reads(p) \/ Writes(p)
  BY <1>5, EndReads DEF DeleteRow, Writes
<1>6. ASSUME NEW p \in Handler, LeaveNotice(p) \/ SendCreate(p)
      PROVE  Reads(p) \/ Writes(p)
  BY <1>6, EndReads DEF LeaveNotice, SendCreate, Writes
<1>7. ASSUME NEW p \in Handler, NEW id \in 1..MaxMsgs, SendReply(p, id)
      PROVE  Reads(p)
  <2>1. /\ pc[p] = "sendReply" /\ pc'[p] = "sendCreate" /\ UNCHANGED rows
        /\ who'[p] = who[p] /\ tgt'[p] = tgt[p]
        /\ ref'[p] = IF \E m \in msgs : m.id = id /\ m.room = tgt[p] THEN id ELSE 0
        /\ \A q \in Handler \ {p} :
             pc'[q] = pc[q] /\ who'[q] = who[q] /\ tgt'[q] = tgt[q] /\ ref'[q] = ref[q]
    BY <1>7 DEF SendReply, TypeOK
  <2>2. ref'[p] # 0 => \E m \in msgs : m.id = ref'[p] /\ m.room = tgt[p]
    BY <2>1
  <2> QED BY <2>1, <2>2 DEF Reads
<1>8. ASSUME NEW p \in Handler, NEW id \in 1..MaxMsgs, EditFind(p, id)
      PROVE  Reads(p)
  <2>1. CASE End(p)
    BY <1>8, <2>1, EndReads DEF EditFind
  <2>2. CASE ~End(p)
    BY <1>8, <2>2 DEF EditFind, Reads, TypeOK
  <2> QED BY <2>1, <2>2
<1>9. ASSUME NEW p \in Handler, SendEmit(p) \/ EditEmit(p)
      PROVE  Reads(p)
  BY <1>9, EndReads DEF SendEmit, EditEmit
<1> QED BY <1>1, <1>2, <1>3, <1>4, <1>5, <1>6, <1>7, <1>8, <1>9
        DEF Next, Quiet, Emits, Writes

-----------------------------------------------------------------------------
(* The writes, each as what it changes.                                    *)

\* A handler that writes is there, with its user and its room.
LEMMA WriterType ==
  ASSUME TypeOK, NEW p \in Handler, Writes(p)
  PROVE  /\ pc[p] # "idle" /\ who[p] \in User /\ ref[p] \in Nat
         /\ pc[p] # "createRow" => tgt[p] \in Room
  BY DEF TypeOK, Writes, CreateRow, JoinUpsert, LeaveRow, EditUpdate, DeleteRow,
         LeaveNotice, SendCreate

\* After a write the handler is done, or has one more statement to run.
LEMMA WriterGoesOn ==
  ASSUME TypeOK, NEW p \in Handler, Writes(p)
  PROVE  /\ \A q \in Handler \ {p} :
              pc'[q] = pc[q] /\ who'[q] = who[q] /\ tgt'[q] = tgt[q] /\ ref'[q] = ref[q]
         /\ \/ pc'[p] = "idle" /\ ref'[p] = 0
            \/ /\ who'[p] = who[p] /\ tgt'[p] = tgt[p] /\ pc[p] # "createRow"
               /\ \/ LeaveNotice(p) /\ Exists(tgt[p]) /\ pc[p] = "leaveNotice"
                     /\ pc'[p] = "leaveRow"
                  \/ pc'[p] \in {"sendEmit", "editEmit"}
  BY DEF TypeOK, Writes, CreateRow, JoinUpsert, LeaveRow, EditUpdate, DeleteRow,
         LeaveNotice, SendCreate, End, Goto

\* Rooms are created once and never come back.
LEMMA RoomsPass ==
  ASSUME TypeOK, Next, NEW r \in Room
  PROVE  /\ status[r] # "none" => status'[r] # "none" /\ owner'[r] = owner[r]
         /\ Exists(r)' => Exists(r) \/ status[r] = "none"
         /\ status[r] # "none" => entered[r] \subseteq entered'[r]
<1>1. ASSUME NEW p \in Handler, Reads(p)
      PROVE  UNCHANGED <<status, owner, entered>>
  BY <1>1 DEF Reads, rows
<1>2. ASSUME NEW p \in Handler, NEW s \in Room, CreateRow(p, s)
      PROVE  /\ status[r] # "none" => UNCHANGED <<status[r], owner[r], entered[r]>>
             /\ r = s \/ UNCHANGED status[r]
             /\ status[s] = "none"
  BY <1>2 DEF CreateRow, TypeOK
<1>3. ASSUME NEW p \in Handler, JoinUpsert(p)
      PROVE  UNCHANGED <<status, owner>> /\ entered[r] \subseteq entered'[r]
  <2>1. tgt[p] \in Room
    BY <1>3 DEF JoinUpsert, TypeOK
  <2> QED BY <1>3, <2>1 DEF JoinUpsert, TypeOK
<1>4. ASSUME NEW R, Delete(R)
      PROVE  /\ UNCHANGED <<owner, entered>>
             /\ status[r] # "none" => status'[r] # "none"
             /\ Exists(r)' => Exists(r)
  BY <1>4 DEF Delete, Exists
<1>5. ASSUME NEW s \in Room, Expire(s)
      PROVE  /\ UNCHANGED <<owner, entered>>
             /\ status[r] # "none" => status'[r] # "none"
             /\ Exists(r)' => Exists(r)
  BY <1>5 DEF Expire, Exists, TypeOK
<1>6. CASE Restart
  BY <1>6 DEF Restart, rows, Exists
<1>7. ASSUME NEW p \in Handler, LeaveRow(p) \/ EditUpdate(p)
      PROVE  UNCHANGED <<status, owner, entered>>
  BY <1>7 DEF LeaveRow, EditUpdate
<1>8. ASSUME NEW p \in Handler, (LeaveNotice(p) \/ SendCreate(p)) /\ Exists(tgt[p])
      PROVE  UNCHANGED <<status, owner, entered>>
  BY <1>8 DEF LeaveNotice, SendCreate, Post
<1>9. ASSUME NEW p \in Handler, DeleteRow(p), Exists(tgt[p])
      PROVE  Delete({tgt[p]})
  BY <1>9 DEF DeleteRow
<1>10. CleanupExpired => \E R : Delete(R)
  BY DEF CleanupExpired
<1> QED BY <1>1, <1>2, <1>3, <1>4, <1>5, <1>6, <1>7, <1>8, <1>9, <1>10, StepsSorted
        DEF Writes, Exists

LEMMA TargetsStep ==
  ASSUME TypeOK, TargetsMade, RowsBelong, Next
  PROVE  TargetsMade'
<1>1. ASSUME NEW p \in Handler, Reads(p)
      PROVE  TargetsMade'
  <2>1. UNCHANGED <<status, member>>
    BY <1>1 DEF Reads, rows
  <2>2. pc'[p] \notin {"idle", "createRow"} => status[tgt'[p]] # "none"
    BY <1>1 DEF Reads, Started, TargetsMade, RowsBelong, Exists
  <2> QED BY <1>1, <2>1, <2>2 DEF Reads, TargetsMade
<1>2. ASSUME NEW p \in Handler, Writes(p)
      PROVE  TargetsMade'
  <2>1. \A q \in Handler : pc'[q] \notin {"idle", "createRow"} =>
          pc[q] \notin {"idle", "createRow"} /\ tgt'[q] = tgt[q] /\ tgt[q] \in Room
    BY <1>2, WriterGoesOn, WriterType DEF TypeOK
  <2> QED BY <2>1, RoomsPass DEF TargetsMade
<1>3. ASSUME UNCHANGED <<pc, tgt>>
      PROVE  TargetsMade'
  BY <1>3, RoomsPass DEF TargetsMade, TypeOK
<1>4. Restart => TargetsMade'
  BY DEF Restart, TargetsMade
<1>5. (\E r \in Room : Expire(r)) \/ CleanupExpired => UNCHANGED <<pc, tgt>>
  BY DEF Expire, CleanupExpired, locals
<1> QED BY <1>1, <1>2, <1>3, <1>4, <1>5, StepsSorted

LEMMA PostWrites ==
  ASSUME TypeOK, NEW p \in Handler, (LeaveNotice(p) \/ SendCreate(p)) /\ Exists(tgt[p])
  PROVE  /\ tgt[p] \in Room /\ lastMsg' = lastMsg + 1
         /\ UNCHANGED <<status, owner, member, edited, entered>>
         /\ \E kind \in {"text", "left"}, reply \in Nat :
              /\ msgs' = msgs \cup {[id |-> lastMsg + 1, room |-> tgt[p], author |-> who[p],
                                     kind |-> kind, reply |-> reply]}
              /\ \/ LeaveNotice(p) /\ kind = "left" /\ reply = 0
                 \/ SendCreate(p) /\ pc[p] = "sendCreate" /\ kind = "text" /\ reply = ref[p]
  BY DEF TypeOK, LeaveNotice, SendCreate, Post

LEMMA RowsStep ==
  ASSUME TypeOK, TargetsMade, RowsBelong, Next
  PROVE  RowsBelong'
<1>1. ASSUME UNCHANGED rows
      PROVE  RowsBelong'
  BY <1>1 DEF RowsBelong, rows, Exists
<1>2. ASSUME NEW p \in Handler, NEW s \in Room, CreateRow(p, s)
      PROVE  RowsBelong'
  <2>1. /\ status'[s] = "live" /\ status[s] = "none" /\ member'[s] \subseteq entered'[s]
        /\ \A r \in Room \ {s} : /\ status'[r] = status[r] /\ member'[r] = member[r]
                                 /\ entered'[r] = entered[r]
        /\ msgs' = msgs /\ lastMsg' = lastMsg
    BY <1>2 DEF CreateRow, TypeOK
  <2>2. \A m \in msgs : m.room \in Room
    BY DEF TypeOK, Message
  <2> QED BY <2>1, <2>2 DEF RowsBelong, Exists
<1>3. ASSUME NEW p \in Handler, JoinUpsert(p)
      PROVE  RowsBelong'
  <2>1. tgt[p] \in Room /\ status[tgt[p]] # "none"
    BY <1>3 DEF JoinUpsert, TypeOK, TargetsMade
  <2> QED BY <1>3, <2>1 DEF JoinUpsert, RowsBelong, TypeOK, Exists
<1>4. ASSUME NEW R, Delete(R)
      PROVE  RowsBelong'
  <2>1. \A m \in msgs : m.room \in Room
    BY DEF TypeOK, Message
  <2> QED BY <1>4, <2>1 DEF Delete, RowsBelong, TypeOK, Exists
<1>5. ASSUME NEW p \in Handler, LeaveRow(p)
      PROVE  RowsBelong'
  BY <1>5 DEF LeaveRow, RowsBelong, TypeOK, Exists
<1>6. ASSUME NEW p \in Handler, (LeaveNotice(p) \/ SendCreate(p)) /\ Exists(tgt[p])
      PROVE  RowsBelong'
  <2>1. lastMsg \in Nat /\ \A m \in msgs : m.id \in Nat
    BY DEF TypeOK, Message
  <2> QED BY <1>6, <2>1, PostWrites DEF RowsBelong, Exists
<1>7. ASSUME NEW p \in Handler, EditUpdate(p)
      PROVE  RowsBelong'
  BY <1>7 DEF EditUpdate, RowsBelong, Exists
<1>8. ASSUME NEW s \in Room, Expire(s)
      PROVE  RowsBelong'
  BY <1>8 DEF Expire, RowsBelong, Exists, TypeOK
<1>9. ASSUME NEW p \in Handler, Reads(p) \/ Writes(p)
      PROVE  RowsBelong'
  BY <1>1, <1>2, <1>3, <1>4, <1>5, <1>6, <1>7, <1>9 DEF Reads, Writes, DeleteRow
<1>10. Restart => UNCHANGED rows
  BY DEF Restart
<1>11. CleanupExpired => \E R : Delete(R)
  BY DEF CleanupExpired
<1> QED BY <1>1, <1>4, <1>8, <1>9, <1>10, <1>11, StepsSorted

-----------------------------------------------------------------------------
(* The owner stays: a request to leave finds another owner, and the owner  *)
(* of a room never changes.                                                *)

LEMMA LeaversStep ==
  ASSUME TypeOK, TargetsMade, RowsBelong, LeaversStay, Next
  PROVE  LeaversStay'
<1>1. ASSUME NEW p \in Handler, Reads(p)
      PROVE  LeaversStay'
  <2>1. UNCHANGED owner
    BY <1>1 DEF Reads, rows
  <2>2. pc'[p] \in {"leaveNotice", "leaveRow"} => owner[tgt'[p]] # who'[p]
    BY <1>1 DEF Reads, Started
  <2> QED BY <1>1, <2>1, <2>2 DEF Reads, LeaversStay
<1>2. ASSUME NEW p \in Handler, Writes(p)
      PROVE  LeaversStay'
  <2>1. \A q \in Handler : pc'[q] \in {"leaveNotice", "leaveRow"} =>
          /\ pc[q] \in {"leaveNotice", "leaveRow"} /\ tgt'[q] = tgt[q] /\ who'[q] = who[q]
          /\ tgt[q] \in Room /\ status[tgt[q]] # "none"
    BY <1>2, WriterGoesOn, WriterType DEF TypeOK, TargetsMade
  <2> QED BY <2>1, RoomsPass DEF LeaversStay
<1>3. ASSUME UNCHANGED <<pc, who, tgt>>
      PROVE  LeaversStay'
  BY <1>3, RoomsPass DEF LeaversStay, TypeOK, TargetsMade
<1>4. Restart => LeaversStay'
  BY DEF Restart, LeaversStay
<1>5. (\E r \in Room : Expire(r)) \/ CleanupExpired => UNCHANGED <<pc, who, tgt>>
  BY DEF Expire, CleanupExpired, locals
<1> QED BY <1>1, <1>2, <1>3, <1>4, <1>5, StepsSorted

LEMMA OwnerStep ==
  ASSUME TypeOK, RowsBelong, LeaversStay, OwnerIsMember, Next
  PROVE  OwnerIsMember'
<1>1. ASSUME UNCHANGED <<status, owner, member>>
      PROVE  OwnerIsMember'
  BY <1>1 DEF OwnerIsMember, Exists
<1>2. ASSUME NEW p \in Handler, NEW s \in Room, CreateRow(p, s)
      PROVE  OwnerIsMember'
  BY <1>2 DEF CreateRow, OwnerIsMember, Exists, TypeOK
<1>3. ASSUME NEW p \in Handler, JoinUpsert(p)
      PROVE  OwnerIsMember'
  BY <1>3 DEF JoinUpsert, OwnerIsMember, Exists, TypeOK
<1>4. ASSUME NEW R, Delete(R)
      PROVE  OwnerIsMember'
  BY <1>4 DEF Delete, OwnerIsMember, Exists
<1>5. ASSUME NEW p \in Handler, LeaveRow(p)
      PROVE  OwnerIsMember'
  <2>1. owner[tgt[p]] # who[p] /\ tgt[p] \in Room
    BY <1>5 DEF LeaveRow, LeaversStay, TypeOK
  <2> QED BY <1>5, <2>1 DEF LeaveRow, OwnerIsMember, Exists, TypeOK
<1>6. ASSUME NEW s \in Room, Expire(s)
      PROVE  OwnerIsMember'
  BY <1>6 DEF Expire, OwnerIsMember, Exists, TypeOK
<1>7. ASSUME NEW p \in Handler, (LeaveNotice(p) \/ SendCreate(p)) /\ Exists(tgt[p])
      PROVE  UNCHANGED <<status, owner, member>>
  BY <1>7, PostWrites
<1>8. ASSUME NEW p \in Handler, Reads(p) \/ EditUpdate(p)
      PROVE  UNCHANGED <<status, owner, member>>
  BY <1>8 DEF Reads, EditUpdate, rows
<1>9. ASSUME NEW p \in Handler, Reads(p) \/ Writes(p)
      PROVE  OwnerIsMember'
  BY <1>1, <1>2, <1>3, <1>4, <1>5, <1>7, <1>8, <1>9 DEF Writes, DeleteRow
<1>10. Restart => UNCHANGED <<status, owner, member>>
  BY DEF Restart, rows
<1>11. CleanupExpired => \E R : Delete(R)
  BY DEF CleanupExpired
<1> QED BY <1>1, <1>4, <1>6, <1>9, <1>10, <1>11, StepsSorted

-----------------------------------------------------------------------------
(* Messages: only the deletion of its room takes a message away, and a new *)
(* one has a larger id than any other.                                     *)

LEMMA MessagesPass ==
  ASSUME TypeOK, RowsBelong, Next
  PROVE  /\ \A m \in msgs : m \in msgs' \/ ~Exists(m.room)'
         /\ \/ msgs' \subseteq msgs
            \/ \E p \in Handler : (LeaveNotice(p) \/ SendCreate(p)) /\ Exists(tgt[p])
<1>0. \A m \in msgs : m.room \in Room
  BY DEF TypeOK, Message
<1>1. ASSUME NEW R, Delete(R)
      PROVE  msgs' \subseteq msgs /\ \A m \in msgs : m \in msgs' \/ ~Exists(m.room)'
  BY <1>0, <1>1 DEF Delete, Exists
<1>2. ASSUME NEW p \in Handler, (LeaveNotice(p) \/ SendCreate(p)) /\ Exists(tgt[p])
      PROVE  msgs \subseteq msgs'
  BY <1>2, PostWrites
<1>3. ASSUME NEW p \in Handler, Reads(p) \/ Writes(p)
      PROVE  \/ UNCHANGED msgs
             \/ \E R : Delete(R)
             \/ (LeaveNotice(p) \/ SendCreate(p)) /\ Exists(tgt[p])
  BY <1>3 DEF Reads, rows, Writes, CreateRow, JoinUpsert, LeaveRow, EditUpdate, DeleteRow
<1>4. ((\E r \in Room : Expire(r)) \/ Restart => UNCHANGED msgs)
        /\ (CleanupExpired => \E R : Delete(R))
  BY DEF Expire, Restart, rows, CleanupExpired
<1> QED BY <1>1, <1>2, <1>3, <1>4, StepsSorted

LEMMA SendersStep ==
  ASSUME TypeOK, TargetsMade, RowsBelong, SendersEntered, Next
  PROVE  SendersEntered'
<1>1. ASSUME NEW p \in Handler, Reads(p)
      PROVE  SendersEntered'
  <2>1. UNCHANGED <<status, entered, msgs>>
    BY <1>1 DEF Reads, rows
  <2>2. pc'[p] = "idle" => ref'[p] = 0
    BY <1>1 DEF Reads, Started
  <2>3. pc'[p] \in {"sendReply", "sendCreate"} => who'[p] \in entered[tgt'[p]]
    BY <1>1 DEF Reads, Started, SendersEntered, RowsBelong
  <2>4. pc'[p] = "sendCreate" /\ ref'[p] # 0 =>
          \E n \in msgs : n.id = ref'[p] /\ n.room = tgt'[p]
    BY <1>1 DEF Reads, Started, SendersEntered
  <2>5. \A q \in Handler \ {p} :
          pc'[q] = pc[q] /\ who'[q] = who[q] /\ tgt'[q] = tgt[q] /\ ref'[q] = ref[q]
    BY <1>1 DEF Reads
  <2> QED BY <2>1, <2>2, <2>3, <2>4, <2>5 DEF SendersEntered, Exists
\* What a sender relies on outlasts every step of others.
<1>2. ASSUME NEW q \in Handler, pc[q] \in {"sendReply", "sendCreate"}
      PROVE  /\ who[q] \in entered'[tgt[q]]
             /\ pc[q] = "sendCreate" /\ ref[q] # 0 /\ status'[tgt[q]] \in {"live", "expired"} =>
                  \E n \in msgs' : n.id = ref[q] /\ n.room = tgt[q]
  <2>1. tgt[q] \in Room /\ status[tgt[q]] # "none"
    BY <1>2 DEF TypeOK, TargetsMade
  <2>2. /\ status'[tgt[q]] \in {"live", "expired"} => Exists(tgt[q])
        /\ entered[tgt[q]] \subseteq entered'[tgt[q]]
    BY <2>1, RoomsPass DEF Exists
  <2>3. ASSUME pc[q] = "sendCreate", ref[q] # 0, status'[tgt[q]] \in {"live", "expired"}
        PROVE  \E n \in msgs' : n.id = ref[q] /\ n.room = tgt[q]
    <3>1. PICK n \in msgs : n.id = ref[q] /\ n.room = tgt[q]
      BY <1>2, <2>2, <2>3 DEF SendersEntered
    <3>2. n \in msgs'
      BY <2>3, <3>1, MessagesPass DEF Exists
    <3> QED BY <3>1, <3>2
  <2> QED BY <1>2, <2>2, <2>3 DEF SendersEntered
<1>3. ASSUME NEW p \in Handler, Writes(p)
      PROVE  SendersEntered'
  <2>1. pc'[p] \notin {"sendReply", "sendCreate"} /\ (pc'[p] = "idle" => ref'[p] = 0)
    BY <1>3, WriterGoesOn
  <2>2. \A q \in Handler \ {p} :
          pc'[q] = pc[q] /\ who'[q] = who[q] /\ tgt'[q] = tgt[q] /\ ref'[q] = ref[q]
    BY <1>3, WriterGoesOn
  <2>3. \A q \in Handler \ {p} : pc[q] = "idle" => ref[q] = 0
    BY DEF SendersEntered
  <2> QED BY <1>2, <2>1, <2>2, <2>3 DEF SendersEntered, Exists
<1>4. ASSUME UNCHANGED <<pc, who, tgt, ref>>
      PROVE  SendersEntered'
  <2>1. \A q \in Handler : pc[q] = "idle" => ref[q] = 0
    BY DEF SendersEntered
  <2> QED BY <1>2, <1>4, <2>1 DEF SendersEntered, Exists
<1>5. Restart => SendersEntered'
  BY DEF Restart, SendersEntered
<1>6. (\E r \in Room : Expire(r)) \/ CleanupExpired => UNCHANGED <<pc, who, tgt, ref>>
  BY DEF Expire, CleanupExpired, locals
<1> QED BY <1>1, <1>3, <1>4, <1>5, <1>6, StepsSorted

LEMMA MessagesStep ==
  ASSUME TypeOK, TargetsMade, RowsBelong, SendersEntered, MessagesBelong, Next
  PROVE  MessagesBelong'
<1>0. \A m \in msgs : m.room \in Room /\ m.id \in Nat
  BY DEF TypeOK, Message
<1>e. ASSUME NEW m \in msgs
      PROVE  entered[m.room] \subseteq entered'[m.room]
  BY <1>0, <1>e, RoomsPass DEF RowsBelong, Exists
\* The quoted message is in the same room, and goes with it only.
<1>q. ASSUME NEW m \in msgs, NEW n \in msgs, n.room = m.room, m \in msgs'
      PROVE  n \in msgs'
  <2>1. RowsBelong'
    BY RowsStep
  <2> QED BY <1>q, <2>1, MessagesPass DEF RowsBelong, Exists
<1>1. ASSUME msgs' \subseteq msgs
      PROVE  MessagesBelong'
  <2> SUFFICES ASSUME NEW m \in msgs'
               PROVE  /\ m.kind = "text" => m.author \in entered'[m.room]
                      /\ m.reply # 0 => \E n \in msgs' :
                                          n.id = m.reply /\ n.room = m.room /\ n.id < m.id
    BY DEF MessagesBelong
  <2>1. m \in msgs
    BY <1>1
  <2> QED BY <2>1, <1>e, <1>q DEF MessagesBelong
<1>2. ASSUME NEW p \in Handler, (LeaveNotice(p) \/ SendCreate(p)) /\ Exists(tgt[p])
      PROVE  MessagesBelong'
  <2>1. PICK kind \in {"text", "left"}, reply \in Nat :
          /\ msgs' = msgs \cup {[id |-> lastMsg + 1, room |-> tgt[p], author |-> who[p],
                                 kind |-> kind, reply |-> reply]}
          /\ \/ kind = "left" /\ reply = 0
             \/ pc[p] = "sendCreate" /\ kind = "text" /\ reply = ref[p]
    BY <1>2, PostWrites
  <2>2. UNCHANGED entered
    BY <1>2, PostWrites
  <2> DEFINE new == [id |-> lastMsg + 1, room |-> tgt[p], author |-> who[p],
                     kind |-> kind, reply |-> reply]
  <2>3. kind = "text" => who[p] \in entered[tgt[p]]
    BY <2>1 DEF SendersEntered
  <2>4. reply # 0 => \E n \in msgs : n.id = reply /\ n.room = tgt[p] /\ n.id < lastMsg + 1
    <3>1. \A n \in msgs : n.id < lastMsg + 1
      BY <1>0 DEF RowsBelong, TypeOK
    <3>2. reply # 0 => \E n \in msgs : n.id = reply /\ n.room = tgt[p]
      BY <1>2, <2>1 DEF SendersEntered
    <3> QED BY <3>1, <3>2
  <2> SUFFICES ASSUME NEW m \in msgs'
               PROVE  /\ m.kind = "text" => m.author \in entered[m.room]
                      /\ m.reply # 0 => \E n \in msgs' :
                                          n.id = m.reply /\ n.room = m.room /\ n.id < m.id
    BY <2>2 DEF MessagesBelong
  <2>5. CASE m \in msgs
    BY <2>1, <2>5 DEF MessagesBelong
  <2>6. CASE m = new
    BY <2>1, <2>3, <2>4, <2>6
  <2> QED BY <2>1, <2>5, <2>6
<1> QED BY <1>1, <1>2, MessagesPass

-----------------------------------------------------------------------------
(* Departures: the notice is written before the membership goes, and both  *)
(* are kept for as long as the room is.                                    *)

LEMMA NoticesKept ==
  ASSUME TypeOK, TargetsMade, RowsBelong, Next, NEW r \in Room, NEW u \in User,
         Exists(r)', \E m \in msgs : m.kind = "left" /\ m.room = r /\ m.author = u
  PROVE  \E m \in msgs' : m.kind = "left" /\ m.room = r /\ m.author = u
  BY MessagesPass

LEMMA LeaversAnnouncedStep ==
  ASSUME TypeOK, TargetsMade, RowsBelong, LeaversAnnounced, Next
  PROVE  LeaversAnnounced'
<1>1. ASSUME NEW q \in Handler, pc[q] = "leaveRow", status'[tgt[q]] \in {"live", "expired"}
      PROVE  \E m \in msgs' : m.kind = "left" /\ m.room = tgt[q] /\ m.author = who[q]
  <2>1. tgt[q] \in Room /\ who[q] \in User /\ status[tgt[q]] # "none"
    BY <1>1 DEF TypeOK, TargetsMade
  <2>2. Exists(tgt[q])
    BY <1>1, <2>1, RoomsPass DEF Exists
  <2> QED BY <1>1, <2>1, <2>2, NoticesKept DEF LeaversAnnounced, Exists
<1>2. ASSUME NEW p \in Handler, LeaveNotice(p), Exists(tgt[p])
      PROVE  \E m \in msgs' : m.kind = "left" /\ m.room = tgt[p] /\ m.author = who[p]
  <2> DEFINE new == [id |-> lastMsg + 1, room |-> tgt[p], author |-> who[p],
                     kind |-> "left", reply |-> 0]
  <2>1. new \in msgs'
    BY <1>2 DEF LeaveNotice, Post
  <2>2. new.kind = "left" /\ new.room = tgt[p] /\ new.author = who[p]
    OBVIOUS
  <2> QED BY <2>1, <2>2
<1>3. ASSUME NEW p \in Handler, Reads(p) \/ Writes(p)
      PROVE  LeaversAnnounced'
  <2>1. \A q \in Handler \ {p} : pc'[q] = pc[q] /\ who'[q] = who[q] /\ tgt'[q] = tgt[q]
    BY <1>3, WriterGoesOn DEF Reads
  <2>2. pc'[p] = "leaveRow" => LeaveNotice(p) /\ Exists(tgt[p])
                                 /\ who'[p] = who[p] /\ tgt'[p] = tgt[p]
    BY <1>3, WriterGoesOn DEF Reads, Started
  <2> QED BY <1>1, <1>2, <2>1, <2>2 DEF LeaversAnnounced, Exists
<1>4. ASSUME UNCHANGED <<pc, who, tgt>>
      PROVE  LeaversAnnounced'
  BY <1>1, <1>4 DEF LeaversAnnounced, Exists
<1>5. Restart => LeaversAnnounced'
  BY DEF Restart, LeaversAnnounced
<1>6. (\E r \in Room : Expire(r)) \/ CleanupExpired => UNCHANGED <<pc, who, tgt>>
  BY DEF Expire, CleanupExpired, locals
<1> QED BY <1>3, <1>4, <1>5, <1>6, StepsSorted

LEMMA DeparturesStep ==
  ASSUME TypeOK, TargetsMade, RowsBelong, LeaversAnnounced, DeparturesAnnounced, Next
  PROVE  DeparturesAnnounced'
<1> SUFFICES ASSUME NEW r \in Room, Exists(r)', NEW u \in entered'[r] \ member'[r]
             PROVE  \E m \in msgs' : m.kind = "left" /\ m.room = r /\ m.author = u
  BY DEF DeparturesAnnounced, Exists
<1> DEFINE Told == \E m \in msgs : m.kind = "left" /\ m.room = r /\ m.author = u
<1>0. TypeOK'
  BY TypeStep
<1>u. u \in User
  BY <1>0 DEF TypeOK
<1>1. ASSUME UNCHANGED <<member, entered>>, status[r] # "none"
      PROVE  Told'
  <2>1. Exists(r)
    BY <1>1, RoomsPass
  <2> QED BY <1>1, <1>u, <2>1, NoticesKept DEF DeparturesAnnounced
<1>2. ASSUME NEW p \in Handler, NEW s \in Room, CreateRow(p, s)
      PROVE  Told'
  <2>1. r # s
    BY <1>2 DEF CreateRow, TypeOK
  <2>2. UNCHANGED <<status[r], member[r], entered[r], msgs>>
    BY <1>2, <2>1 DEF CreateRow, TypeOK
  <2> QED BY <2>2 DEF DeparturesAnnounced, Exists
<1>3. ASSUME NEW p \in Handler, JoinUpsert(p)
      PROVE  Told'
  <2>1. u \in entered[r] \ member[r] /\ UNCHANGED <<status, msgs>>
    BY <1>3 DEF JoinUpsert, TypeOK
  <2> QED BY <2>1 DEF DeparturesAnnounced, Exists
<1>4. ASSUME NEW R, Delete(R)
      PROVE  Told'
  <2>1. r \notin R /\ Exists(r) /\ UNCHANGED <<member[r], entered[r]>>
    BY <1>4 DEF Delete, Exists
  <2> QED BY <1>4, <2>1 DEF Delete, DeparturesAnnounced
<1>5. ASSUME NEW p \in Handler, LeaveRow(p)
      PROVE  Told'
  <2>1. /\ UNCHANGED <<status, entered, msgs>> /\ pc[p] = "leaveRow" /\ tgt[p] \in Room
        /\ member' = [member EXCEPT ![tgt[p]] = @ \ {who[p]}]
    BY <1>5 DEF LeaveRow, TypeOK
  <2>2. CASE u \notin member[r]
    BY <2>1, <2>2 DEF DeparturesAnnounced, Exists
  <2>3. CASE u \in member[r]
    <3>1. r = tgt[p] /\ u = who[p]
      BY <2>1, <2>3 DEF TypeOK
    <3> QED BY <2>1, <3>1 DEF LeaversAnnounced, Exists
  <2> QED BY <2>2, <2>3
<1>6. ASSUME NEW s \in Room, Expire(s)
      PROVE  UNCHANGED <<member, entered>> /\ status[r] # "none"
  BY <1>6 DEF Expire, TypeOK, Exists
<1>7. ASSUME NEW p \in Handler, (LeaveNotice(p) \/ SendCreate(p)) /\ Exists(tgt[p])
      PROVE  UNCHANGED <<member, entered>> /\ status[r] # "none"
  BY <1>7, PostWrites DEF Exists
<1>8. ASSUME NEW p \in Handler, Reads(p) \/ EditUpdate(p)
      PROVE  UNCHANGED <<member, entered>> /\ status[r] # "none"
  BY <1>8 DEF Reads, EditUpdate, rows, Exists
<1>9. ASSUME NEW p \in Handler, Reads(p) \/ Writes(p)
      PROVE  Told'
  BY <1>1, <1>2, <1>3, <1>4, <1>5, <1>7, <1>8, <1>9 DEF Writes, DeleteRow
<1>10. Restart => UNCHANGED <<member, entered>> /\ status[r] # "none"
  BY DEF Restart, rows, Exists
<1>11. CleanupExpired => \E R : Delete(R)
  BY DEF CleanupExpired
<1> QED BY <1>1, <1>4, <1>6, <1>9, <1>10, <1>11, StepsSorted

LEMMA RoomsStep ==
  ASSUME RoomsInv, [Next]_vars
  PROVE  RoomsInv'
<1>1. CASE Next
  BY <1>1, TypeStep, TargetsStep, RowsStep, LeaversStep, OwnerStep, SendersStep,
     MessagesStep, LeaversAnnouncedStep, DeparturesStep DEF RoomsInv
<1>2. CASE UNCHANGED vars
  BY <1>2 DEF RoomsInv, vars, rows, locals, TypeOK, TargetsMade, RowsBelong, LeaversStay,
              OwnerIsMember, SendersEntered, MessagesBelong, LeaversAnnounced,
              DeparturesAnnounced, Exists
<1> QED BY <1>1, <1>2

LEMMA RoomsInitially ==
  ASSUME Init
  PROVE  RoomsInv
  BY DEF Init, RoomsInv, TypeOK, Step, TargetsMade, RowsBelong, LeaversStay,
         OwnerIsMember, SendersEntered, MessagesBelong, LeaversAnnounced,
         DeparturesAnnounced, Exists

LEMMA RoomsInvariant == Spec => []RoomsInv
<1>1. Init => RoomsInv
  BY RoomsInitially
<1>2. RoomsInv /\ [Next]_vars => RoomsInv'
  BY RoomsStep
<1> QED BY <1>1, <1>2, PTL DEF Spec

(***************************************************************************)
(* Whatever runs between the check of leaveRoom and its deletion of the    *)
(* membership, the owner of a room that exists remains a member of it.     *)
(***************************************************************************)
THEOREM OwnerRemains == Spec => []OwnerIsMember
<1>1. RoomsInv => OwnerIsMember
  BY DEF RoomsInv
<1> QED BY <1>1, RoomsInvariant, PTL

(***************************************************************************)
(* sendMessage writes nothing for a user who has never entered the room,   *)
(* and quotes an earlier message of the same room only.                    *)
(***************************************************************************)
THEOREM MessagesInTheirRoom == Spec => []MessagesBelong
<1>1. RoomsInv => MessagesBelong
  BY DEF RoomsInv
<1> QED BY <1>1, RoomsInvariant, PTL

(***************************************************************************)
(* leaveRoom, wherever it is interrupted, takes no member away whose       *)
(* departure is not in the room.                                           *)
(***************************************************************************)
THEOREM DeparturesAreTold == Spec => []DeparturesAnnounced
<1>1. RoomsInv => DeparturesAnnounced
  BY DEF RoomsInv
<1> QED BY <1>1, RoomsInvariant, PTL

-----------------------------------------------------------------------------
(* The limit of members.  Joining passes a handler from the admitted to    *)
(* the members; it is admitted when the members are below the limit.       *)

LEMMA AdmittedFinite ==
  ASSUME NEW r
  PROVE  IsFiniteSet(Handler) /\ IsFiniteSet(Admitted(r)) /\ IsFiniteSet(Admitted(r)')
<1>1. IsFiniteSet(Handler) /\ Admitted(r) \subseteq Handler /\ Admitted(r)' \subseteq Handler
  BY RoomsAssumption DEF Admitted
<1> QED BY <1>1, NoMore

\* The handlers stay where they are, or fewer are admitted.
LEMMA MembersGrow ==
  ASSUME TypeOK, Next, NEW r \in Room
  PROVE  \/ member'[r] \subseteq member[r] /\ Admitted(r)' \subseteq Admitted(r)
         \/ /\ member'[r] = member[r] /\ Cardinality(member[r]) < MaxMembers
         \/ \E p \in Admitted(r) : /\ member'[r] \subseteq member[r] \cup {who[p]}
                                   /\ Admitted(r)' \subseteq Admitted(r) \ {p}
         \/ \E p \in Handler, u \in User : member'[r] = {u} /\ Admitted(r)' \subseteq Handler \ {p}
<1>1. ASSUME NEW p \in Handler, Reads(p)
      PROVE  /\ member' = member
             /\ Admitted(r)' \subseteq Admitted(r) \/ Cardinality(member[r]) < MaxMembers
  BY <1>1 DEF Reads, rows, Started, Admitted
<1>2. ASSUME NEW p \in Handler, NEW s \in Room, CreateRow(p, s)
      PROVE  /\ who[p] \in User /\ pc[p] = "createRow" /\ pc'[p] = "idle"
             /\ member'[r] = IF r = s THEN {who[p]} ELSE member[r]
             /\ Admitted(r)' \subseteq Handler \ {p}
             /\ Admitted(r)' \subseteq Admitted(r)
  BY <1>2 DEF CreateRow, End, TypeOK, Admitted
<1>3. ASSUME NEW p \in Handler, JoinUpsert(p)
      PROVE  /\ Admitted(r)' \subseteq Admitted(r) \ {p}
             /\ \/ p \in Admitted(r) /\ member'[r] \subseteq member[r] \cup {who[p]}
                \/ member'[r] = member[r]
  BY <1>3 DEF JoinUpsert, End, TypeOK, Admitted
<1>4. ASSUME NEW R, Delete(R)
      PROVE  member'[r] \subseteq member[r]
  BY <1>4 DEF Delete
<1>5. ASSUME NEW p \in Handler, Writes(p)
      PROVE  Admitted(r)' \subseteq Admitted(r)
  BY <1>5, WriterGoesOn DEF Admitted
<1>6. ASSUME NEW p \in Handler, Writes(p)
      PROVE  \/ \E s \in Room : CreateRow(p, s)
             \/ JoinUpsert(p)
             \/ member'[r] \subseteq member[r]
  <2>1. CASE LeaveRow(p)
    BY <2>1 DEF LeaveRow, TypeOK
  <2>2. CASE (LeaveNotice(p) \/ SendCreate(p)) /\ Exists(tgt[p])
    BY <2>2, PostWrites
  <2>3. CASE EditUpdate(p)
    BY <2>3 DEF EditUpdate
  <2>4. CASE DeleteRow(p) /\ Exists(tgt[p])
    BY <1>4, <2>4 DEF DeleteRow
  <2> QED BY <1>6, <2>1, <2>2, <2>3, <2>4 DEF Writes
<1>7. ASSUME (\E s \in Room : Expire(s)) \/ CleanupExpired
      PROVE  Admitted(r)' \subseteq Admitted(r) /\ member'[r] \subseteq member[r]
  BY <1>4, <1>7 DEF Expire, CleanupExpired, locals, Admitted
<1>8. ASSUME Restart
      PROVE  Admitted(r)' \subseteq Admitted(r) /\ member'[r] \subseteq member[r]
  BY <1>8 DEF Restart, rows, Admitted
<1>9. ASSUME NEW p \in Handler, Writes(p)
      PROVE  \/ member'[r] \subseteq member[r] /\ Admitted(r)' \subseteq Admitted(r)
             \/ \E q \in Admitted(r) : /\ member'[r] \subseteq member[r] \cup {who[q]}
                                       /\ Admitted(r)' \subseteq Admitted(r) \ {q}
             \/ \E q \in Handler, u \in User :
                  member'[r] = {u} /\ Admitted(r)' \subseteq Handler \ {q}
  <2>1. CASE member'[r] \subseteq member[r]
    BY <1>5, <1>9, <2>1
  <2>2. CASE JoinUpsert(p)
    BY <1>3, <2>2
  <2>3. ASSUME NEW s \in Room, CreateRow(p, s)
        PROVE  \/ member'[r] = member[r] /\ Admitted(r)' \subseteq Admitted(r)
               \/ member'[r] = {who[p]} /\ who[p] \in User /\ Admitted(r)' \subseteq Handler \ {p}
    BY <1>2, <2>3
  <2> QED BY <1>6, <1>9, <2>1, <2>2, <2>3
<1> QED BY <1>1, <1>7, <1>8, <1>9, StepsSorted

LEMMA BoundedStep ==
  ASSUME TypeOK, BoundedMembers, Next
  PROVE  BoundedMembers'
<1> SUFFICES ASSUME NEW r \in Room
             PROVE  Cardinality(member'[r]) + Cardinality(Admitted(r)')
                      <= MaxMembers - 1 + Cardinality(Handler)
  BY DEF BoundedMembers
<1>0. /\ IsFiniteSet(User) /\ member[r] \subseteq User
      /\ MaxMembers \in Nat \ {0}
      /\ TypeOK'
  BY RoomsAssumption, TypeStep DEF TypeOK
<1>1. /\ IsFiniteSet(member[r]) /\ IsFiniteSet(Handler)
      /\ IsFiniteSet(Admitted(r)) /\ IsFiniteSet(Admitted(r)')
      /\ Admitted(r)' \subseteq Handler
  BY <1>0, NoMore, AdmittedFinite DEF Admitted
<1>2. Cardinality(member[r]) + Cardinality(Admitted(r))
        <= MaxMembers - 1 + Cardinality(Handler)
  BY DEF BoundedMembers
<1>3. /\ Cardinality(member[r]) \in Nat /\ Cardinality(Admitted(r)) \in Nat
      /\ Cardinality(Handler) \in Nat /\ Cardinality(Admitted(r)') \in Nat
      /\ Cardinality(Admitted(r)') <= Cardinality(Handler)
  BY <1>1, NoMore, FS_CardinalityType
<1>4. IsFiniteSet(member'[r]) /\ Cardinality(member'[r]) \in Nat
  <2>1. member'[r] \subseteq User
    BY <1>0 DEF TypeOK
  <2> QED BY <1>0, <2>1, NoMore
<1>5. CASE member'[r] \subseteq member[r] /\ Admitted(r)' \subseteq Admitted(r)
  <2>1. Cardinality(member'[r]) + Cardinality(Admitted(r)')
          <= Cardinality(member[r]) + Cardinality(Admitted(r))
    BY <1>1, <1>5, SumNoMore
  <2> QED BY <1>0, <1>2, <1>3, <1>4, <2>1
<1>6. CASE member'[r] = member[r] /\ Cardinality(member[r]) < MaxMembers
  BY <1>0, <1>3, <1>4, <1>6
<1>7. ASSUME NEW p \in Admitted(r), member'[r] \subseteq member[r] \cup {who[p]},
             Admitted(r)' \subseteq Admitted(r) \ {p}
      PROVE  Cardinality(member'[r]) + Cardinality(Admitted(r)')
               <= MaxMembers - 1 + Cardinality(Handler)
  <2>1. Cardinality(member'[r]) + Cardinality(Admitted(r)')
          <= Cardinality(member[r]) + Cardinality(Admitted(r))
    BY <1>1, <1>7, SumMoves
  <2> QED BY <1>0, <1>2, <1>3, <1>4, <2>1
<1>8. ASSUME NEW p \in Handler, NEW u \in User, member'[r] = {u},
             Admitted(r)' \subseteq Handler \ {p}
      PROVE  Cardinality(member'[r]) + Cardinality(Admitted(r)')
               <= MaxMembers - 1 + Cardinality(Handler)
  <2>1. Cardinality(Admitted(r)') <= Cardinality(Handler) - 1
    BY <1>1, <1>8, OneLess
  <2>2. Cardinality(member'[r]) = 1
    BY <1>8, FS_Singleton
  <2> QED BY <1>0, <1>3, <2>1, <2>2
<1> QED BY <1>5, <1>6, <1>7, <1>8, MembersGrow

(***************************************************************************)
(* joinRoom counts the members before it adds one: the requests served at  *)
(* one time carry a room past maxRoomMembers by less than their number.    *)
(***************************************************************************)
THEOREM MembersBounded == Spec => []BoundedMembers
<1>1. Init => BoundedMembers
  <2> SUFFICES ASSUME Init, NEW r \in Room
               PROVE  Cardinality(member[r]) + Cardinality(Admitted(r))
                        <= MaxMembers - 1 + Cardinality(Handler)
    BY DEF BoundedMembers
  <2>1. member[r] = {} /\ Admitted(r) = {}
    BY DEF Init, Admitted
  <2>2. Cardinality(member[r]) = 0 /\ Cardinality(Admitted(r)) = 0
    BY <2>1, FS_EmptySet
  <2>3. MaxMembers \in Nat \ {0} /\ Cardinality(Handler) \in Nat
    BY RoomsAssumption, FS_CardinalityType
  <2> QED BY <2>2, <2>3
<1>2. TypeOK /\ BoundedMembers /\ [Next]_vars => BoundedMembers'
  <2>1. TypeOK /\ BoundedMembers /\ UNCHANGED vars => BoundedMembers'
    BY DEF BoundedMembers, Admitted, vars, rows, locals
  <2> QED BY <2>1, BoundedStep
<1> QED BY <1>1, <1>2, RoomsTypeCorrect, PTL DEF Spec

-----------------------------------------------------------------------------
(* The sockets.  The gateway reads the tables and never writes them: each  *)
(* of its steps is a step of Rooms, or none.                               *)

LEMMA FeedStepsAreRooms ==
  ASSUME [FeedNext]_feedVars
  PROVE  [Next]_vars
<1>1. CASE Quiet \/ FeedRestart \/ \E p \in Handler : EmitToRoom(p)
  BY <1>1 DEF FeedRestart, EmitToRoom, Emits, Next
<1>2. ASSUME NEW s \in Socket,
             \/ \E u \in User : Connect(s, u)
             \/ Disconnect(s)
             \/ \E r \in Room : JoinChannel(s, r) \/ JoinedChannel(s, r) \/ LeaveChannel(s, r)
      PROVE  UNCHANGED vars
  BY <1>2 DEF Connect, Disconnect, JoinChannel, JoinedChannel, LeaveChannel
<1>3. UNCHANGED feedVars => UNCHANGED vars
  BY DEF feedVars
<1> QED BY <1>1, <1>2, <1>3 DEF FeedNext

(***************************************************************************)
(* What is promised of the rooms is promised with the sockets beside them. *)
(***************************************************************************)
THEOREM FeedImplementsRooms == FeedSpec => Spec
<1>1. FeedInit => Init
  BY DEF FeedInit
<1>2. [FeedNext]_feedVars => [Next]_vars
  BY FeedStepsAreRooms
<1> QED BY <1>1, <1>2, PTL DEF FeedSpec, Spec

\* Who is in a channel, or about to be, is connected: nobody else has entered.
LEMMA ListenersConnected ==
  ASSUME TypeOK, FeedTypeOK, ListenersEntered, NEW s \in Socket,
         NEW r \in sub[s] \cup joining[s]
  PROVE  r \in Room /\ sockUser[s] \in User /\ sockUser[s] \in entered[r] /\ sockUser[s] # None
  BY RoomsAssumption DEF TypeOK, FeedTypeOK, ListenersEntered

\* Who hears an event without being a member has entered the room before.
LEMMA StraysEntered ==
  ASSUME TypeOK, FeedTypeOK, ListenersEntered, NEW p \in Handler, EmitToRoom(p),
         NEW x \in stray'
  PROVE  x \in User \X Room /\ x[1] \in entered[x[2]]
<1>1. CASE x \in stray
  BY <1>1 DEF FeedTypeOK, ListenersEntered
<1>2. ASSUME NEW s \in Socket, tgt[p] \in sub[s], x = <<sockUser[s], tgt[p]>>
      PROVE  x \in User \X Room /\ x[1] \in entered[x[2]]
  BY <1>2, ListenersConnected
<1> QED BY <1>1, <1>2 DEF EmitToRoom, Broadcast

LEMMA FeedTypeStep ==
  ASSUME TypeOK, FeedTypeOK, ListenersEntered, [FeedNext]_feedVars
  PROVE  FeedTypeOK'
<1>1. ASSUME NEW p \in Handler, EmitToRoom(p)
      PROVE  FeedTypeOK'
  <2>1. stray' \subseteq User \X Room
    BY <1>1, StraysEntered
  <2> QED BY <1>1, <2>1 DEF EmitToRoom, FeedTypeOK
<1>2. ASSUME NEW s \in Socket, NEW u \in User, Connect(s, u)
      PROVE  FeedTypeOK'
  BY <1>2 DEF Connect, FeedTypeOK
<1>3. ASSUME NEW s \in Socket, Disconnect(s)
      PROVE  FeedTypeOK'
  BY <1>3 DEF Disconnect, FeedTypeOK
<1>4. ASSUME NEW s \in Socket, NEW r \in Room,
             JoinChannel(s, r) \/ JoinedChannel(s, r) \/ LeaveChannel(s, r)
      PROVE  FeedTypeOK'
  BY <1>4 DEF JoinChannel, JoinedChannel, LeaveChannel, FeedTypeOK
<1>5. CASE FeedRestart
  BY <1>5 DEF FeedRestart, FeedTypeOK
<1>6. CASE UNCHANGED feed
  BY <1>6 DEF feed, FeedTypeOK
<1> QED BY <1>1, <1>2, <1>3, <1>4, <1>5, <1>6 DEF FeedNext, feedVars

\* Who has entered a room has entered it after every step.
LEMMA EnteredOnce ==
  ASSUME RoomsInv, [FeedNext]_feedVars, NEW r \in Room
  PROVE  entered[r] \subseteq entered'[r]
<1>1. CASE Next
  BY <1>1, RoomsPass DEF RoomsInv, RowsBelong
<1>2. CASE UNCHANGED vars
  BY <1>2 DEF vars, rows
<1> QED BY <1>1, <1>2, FeedStepsAreRooms

LEMMA ListenersStep ==
  ASSUME RoomsInv, FeedTypeOK, ListenersEntered, [FeedNext]_feedVars
  PROVE  ListenersEntered'
<1>0. TypeOK /\ \A r \in Room : member[r] \subseteq entered[r]
  BY DEF RoomsInv, RowsBelong
<1>1. ASSUME NEW p \in Handler, EmitToRoom(p)
      PROVE  ListenersEntered'
  <2>1. \A x \in stray' : x[2] \in Room /\ x[1] \in entered[x[2]]
    BY <1>0, <1>1, StraysEntered
  <2>2. UNCHANGED <<sockUser, joining, sub>>
    BY <1>1 DEF EmitToRoom
  <2> QED BY <1>0, <2>1, <2>2, EnteredOnce, ListenersConnected DEF ListenersEntered
<1>2. ASSUME UNCHANGED <<stray, entered>>,
             \A s \in Socket : \A r \in sub'[s] \cup joining'[s] : sockUser'[s] \in entered[r]
      PROVE  ListenersEntered'
  BY <1>2 DEF ListenersEntered
<1>3. ASSUME NEW s \in Socket, NEW u \in User, Connect(s, u)
      PROVE  ListenersEntered'
  <2>1. sub[s] = {} /\ joining[s] = {}
    BY <1>0, <1>3, ListenersConnected DEF Connect
  <2>2. \A q \in Socket \ {s} : sockUser'[q] = sockUser[q]
    BY <1>3 DEF Connect, FeedTypeOK
  <2> QED BY <1>2, <1>3, <2>1, <2>2 DEF Connect, ListenersEntered, vars, rows
<1>4. ASSUME NEW s \in Socket, Disconnect(s)
      PROVE  ListenersEntered'
  BY <1>2, <1>4 DEF Disconnect, FeedTypeOK, ListenersEntered, vars, rows
<1>5. ASSUME NEW s \in Socket, NEW r \in Room,
             JoinChannel(s, r) \/ JoinedChannel(s, r) \/ LeaveChannel(s, r)
      PROVE  ListenersEntered'
  <2>1. UNCHANGED <<stray, entered, sockUser>>
    BY <1>5 DEF JoinChannel, JoinedChannel, LeaveChannel, vars, rows
  <2>2. \A q \in Socket : \A x \in sub'[q] \cup joining'[q] :
          x \in sub[q] \cup joining[q] \/ (q = s /\ x = r /\ sockUser[s] \in entered[r])
    BY <1>0, <1>5 DEF JoinChannel, JoinedChannel, LeaveChannel, FeedTypeOK
  <2> QED BY <1>2, <2>1, <2>2 DEF ListenersEntered
<1>6. CASE FeedRestart
  BY <1>2, <1>6 DEF FeedRestart, Restart, rows
<1>7. CASE UNCHANGED feed
  <2>1. \A x \in stray : x[2] \in Room
    BY DEF FeedTypeOK
  <2> QED BY <1>0, <1>7, <2>1, EnteredOnce, ListenersConnected DEF ListenersEntered, feed
<1> QED BY <1>1, <1>3, <1>4, <1>5, <1>6, <1>7 DEF FeedNext, feedVars

(***************************************************************************)
(* Nobody who has not entered a room with its password hears its events,   *)
(* however connecting, joining and leaving the channel, leaving the room   *)
(* and restarting the server follow one another.                           *)
(***************************************************************************)
THEOREM ListenersHaveEntered == FeedSpec => [](FeedTypeOK /\ ListenersEntered)
<1> DEFINE I == FeedTypeOK /\ ListenersEntered
<1>1. FeedInit => I
  BY DEF FeedInit, FeedTypeOK, ListenersEntered
<1>2. I /\ RoomsInv /\ [FeedNext]_feedVars => I'
  <2>1. RoomsInv => TypeOK
    BY DEF RoomsInv
  <2> QED BY <2>1, FeedTypeStep, ListenersStep
<1>3. FeedSpec => []RoomsInv
  BY FeedImplementsRooms, RoomsInvariant, PTL
<1> QED BY <1>1, <1>2, <1>3, PTL DEF FeedSpec


-----------------------------------------------------------------------------
(* Group calls: what the gateway has, and the connections.                *)

Word == [kind : {"join", "offer", "answer", "leave"}, id : Nat]

LEMMA SignalWord ==
  ASSUME NEW kind \in {"join", "offer", "answer", "leave"}, NEW id \in Nat
  PROVE  /\ Signal(kind, id) \in Word
         /\ Signal(kind, id).kind = kind /\ Signal(kind, id).id = id
  BY DEF Signal, Word

Net == [Member -> [Member -> Seq(Word)]]

\* Offers go to the larger id, answers to the smaller.
WordsOK ==
  \A u, v \in Member : \A i \in DOMAIN net[u][v] :
    /\ net[u][v][i].kind \in {"offer", "answer"} => net[u][v][i].id \in 1..conns
    /\ net[u][v][i].kind = "offer" => u < v
    /\ net[u][v][i].kind = "answer" => v < u

LinksOK ==
  /\ DOMAIN pcs = Member
  /\ \A u \in Member : DOMAIN pcs[u] \subseteq Peers(u)
  /\ \A u \in Member : \A v \in DOMAIN pcs[u] : pcs[u][v] \in [id : 1..conns, remote : 0..conns]
  /\ \A u \in Member : place[u] # "in" => pcs[u] = NoConns

HeardOK ==
  /\ heard \in [Member -> SUBSET Member]
  /\ \A u \in Member : \A v \in heard[u] : u < v /\ place[u] = "in" /\ channel[u] = "in"

PlacesOK ==
  /\ place \in [Member -> {"away", "asking", "in", "failed"}]
  /\ channel \in [Member -> {"none", "joining", "in", "lost"}]
  /\ \A u \in Member : place[u] = "away" <=> channel[u] = "none"
  /\ sessions \in 0..MaxSessions
  /\ orphans \in [Member -> Nat]
  /\ \A u \in Member : orphans[u] + (IF place[u] = "asking" THEN 1 ELSE 0) <= sessions

GroupInv ==
  /\ PlacesOK
  /\ conns \in 0..MaxConns
  /\ net \in Net
  /\ WordsOK
  /\ LinksOK
  /\ HeardOK

LEMMA GroupInvType == GroupInv => GroupTypeOK
<1> SUFFICES ASSUME GroupInv PROVE GroupTypeOK
  OBVIOUS
<1>1. \A u \in Member : orphans[u] \in 0..MaxSessions
  <2>1. MaxSessions \in Nat
    BY GroupCallsAssumption
  <2>2. sessions \in 0..MaxSessions
    BY DEF GroupInv, PlacesOK
  <2> TAKE u \in Member
  <2>3. orphans[u] \in Nat /\ orphans[u] + (IF place[u] = "asking" THEN 1 ELSE 0) <= sessions
    BY DEF GroupInv, PlacesOK
  <2> QED BY <2>1, <2>2, <2>3
<1>2. orphans \in [Member -> 0..MaxSessions]
  BY <1>1 DEF GroupInv, PlacesOK
<1> QED BY <1>2 DEF GroupInv, PlacesOK, LinksOK, GroupTypeOK

LEMMA GroupInvInit == GroupInit => GroupInv
<1> SUFFICES ASSUME GroupInit PROVE GroupInv
  OBVIOUS
<1> USE DEF GroupInit
<1>1. PlacesOK /\ conns \in 0..MaxConns
  BY GroupCallsAssumption DEF PlacesOK
<1>2. \A u, v \in Member : net[u][v] = <<>>
  OBVIOUS
<1>3. net \in Net
  <2>1. <<>> \in Seq(Word)
    OBVIOUS
  <2> QED BY <2>1 DEF Net
<1>4. WordsOK
  BY <1>2 DEF WordsOK
<1>5. \A u \in Member : pcs[u] = NoConns /\ DOMAIN pcs[u] = {}
  BY DEF NoConns
<1>6. LinksOK
  BY <1>5 DEF LinksOK
<1>7. HeardOK
  BY DEF HeardOK
<1> QED BY <1>1, <1>3, <1>4, <1>6, <1>7 DEF GroupInv

\* One signal more.
LEMMA OneSignalMore ==
  ASSUME NEW s \in Seq(Word), NEW x \in Word, NEW t, t = Append(s, x) \/ t = s \o <<x>>
  PROVE  /\ t \in Seq(Word)
         /\ Len(s) \in Nat /\ Len(t) = Len(s) + 1
         /\ \A j \in 1..Len(s) : t[j] = s[j]
         /\ t[Len(s) + 1] = x
<1>1. Append(s, x) = s \o <<x>>
  BY AppendIsConcat
<1>2. Len(s) \in Nat
  BY LenProperties
<1>3. t = Append(s, x)
  BY <1>1
<1>4. /\ Append(s, x) \in Seq(Word) /\ Len(Append(s, x)) = Len(s) + 1
      /\ \A j \in 1..Len(s) : Append(s, x)[j] = s[j]
      /\ Append(s, x)[Len(s) + 1] = x
  BY AppendProperties
<1> QED BY <1>2, <1>3, <1>4

\* What only joins come before may be delivered.
First(s, i) == \A j \in 1..(i - 1) : s[j].kind = "join"

\* The one signal of its kind, with no farewell after it.
Lone(s, x) ==
  \E i \in DOMAIN s :
    /\ s[i] = x
    /\ \A j \in DOMAIN s :
         j # i => s[j].kind # x.kind /\ (j > i => s[j].kind # "leave")

LEMMA MoreSignals ==
  ASSUME NEW s \in Seq(Word), NEW x \in Word, NEW t, t = Append(s, x) \/ t = s \o <<x>>
  PROVE  /\ \A k : Has(t, k) <=> Has(s, k) \/ x.kind = k
         /\ ~Has(s, x.kind) => Lone(t, x)
         /\ \A y : Lone(s, y) /\ x.kind \notin {y.kind, "leave"} => Lone(t, y)
<1>1. /\ t \in Seq(Word) /\ DOMAIN s = 1..Len(s) /\ DOMAIN t = 1..(Len(s) + 1) /\ Len(s) \in Nat
      /\ \A j \in 1..Len(s) : t[j] = s[j]
      /\ t[Len(s) + 1] = x
  BY OneSignalMore
<1>2. \A j \in DOMAIN t : j \in DOMAIN s \/ j = Len(s) + 1
  BY <1>1
<1>3. \A j \in DOMAIN s : j \in DOMAIN t /\ j < Len(s) + 1
  BY <1>1
<1>4. Len(s) + 1 \in DOMAIN t
  BY <1>1
<1>5. \A k : Has(t, k) <=> Has(s, k) \/ x.kind = k
  BY <1>1, <1>2, <1>3, <1>4 DEF Has
<1>6. ~Has(s, x.kind) => Lone(t, x)
  BY <1>1, <1>2, <1>3, <1>4 DEF Has, Lone
<1>7. ASSUME NEW y, Lone(s, y), x.kind \notin {y.kind, "leave"}
      PROVE  Lone(t, y)
  BY <1>1, <1>2, <1>3, <1>4, <1>7 DEF Lone
<1> QED BY <1>5, <1>6, <1>7

LEMMA FewerSignals ==
  ASSUME NEW s \in Seq(Word), NEW i \in DOMAIN s, NEW t, t = Without(s, i)
  PROVE  /\ t \in Seq(Word)
         /\ \A k : Has(t, k) => Has(s, k)
         /\ \A k : Has(s, k) /\ s[i].kind # k => Has(t, k)
         /\ \A j \in DOMAIN t : \E l \in DOMAIN s : t[j] = s[l]
         /\ \A y : Lone(s, y) /\ s[i].kind # y.kind => Lone(t, y)
         /\ \A y : Lone(s, y) /\ s[i].kind = y.kind => s[i] = y /\ ~Has(t, y.kind)
         /\ \A y : Lone(s, y) /\ s[i].kind = y.kind /\ First(s, i) /\ y.kind # "leave"
                  => ~Has(t, "leave")
<1>1. /\ t \in Seq(Word) /\ DOMAIN s = 1..Len(s) /\ DOMAIN t = 1..Len(t) /\ Len(s) \in Nat /\ Len(t) \in Nat
      /\ \A j \in DOMAIN s : j # i =>
           \E k \in DOMAIN t : t[k] = s[j] /\ k = IF j < i THEN j ELSE j - 1
      /\ \A k \in DOMAIN t :
           \E j \in DOMAIN s : j # i /\ t[k] = s[j] /\ k = IF j < i THEN j ELSE j - 1
  <2>0. t = But(s, i)
    BY DEF Without, But
  <2>1. i \in 1..Len(s) /\ DOMAIN s = 1..Len(s) /\ Len(s) \in Nat
    BY LenProperties
  <2>2. t \in Seq(Word)
    BY <2>0, <2>1, Kept
  <2>3. DOMAIN t = 1..Len(t) /\ Len(t) \in Nat
    BY <2>2, LenProperties
  <2>4. \A j \in 1..Len(s) : j # i =>
           \E k \in 1..Len(t) : t[k] = s[j] /\ k = IF j < i THEN j ELSE j - 1
    BY SMTT(30), <2>0, <2>1, Kept
  <2>5. \A k \in 1..Len(t) :
           \E j \in 1..Len(s) : j # i /\ t[k] = s[j] /\ k = IF j < i THEN j ELSE j - 1
    BY <2>0, <2>1, Kept
  <2> QED BY <2>1, <2>2, <2>3, <2>4, <2>5
<1>2. \A k : Has(t, k) => Has(s, k)
  BY <1>1 DEF Has
<1>3. \A k : Has(s, k) /\ s[i].kind # k => Has(t, k)
  BY <1>1 DEF Has
<1>4. \A j \in DOMAIN t : \E l \in DOMAIN s : t[j] = s[l]
  BY <1>1
<1>5. ASSUME NEW y, Lone(s, y), s[i].kind # y.kind
      PROVE  Lone(t, y)
  <2>1. PICK m \in DOMAIN s : /\ s[m] = y
                              /\ \A j \in DOMAIN s :
                                   j # m => s[j].kind # y.kind /\ (j > m => s[j].kind # "leave")
    BY <1>5 DEF Lone
  <2>2. m # i
    BY <1>5, <2>1
  <2>3. PICK n \in DOMAIN t : t[n] = s[m] /\ n = IF m < i THEN m ELSE m - 1
    BY <1>1, <2>2
  <2>4. ASSUME NEW k \in DOMAIN t, k # n
        PROVE  t[k].kind # y.kind /\ (k > n => t[k].kind # "leave")
    <3>1. PICK j \in DOMAIN s : j # i /\ t[k] = s[j] /\ k = IF j < i THEN j ELSE j - 1
      BY <1>1
    <3>2. i \in Int /\ j \in Int /\ m \in Int /\ k \in Int /\ n \in Int
      BY <1>1
    <3>3. j # m /\ (k > n => j > m)
      BY <2>2, <2>3, <2>4, <3>1, <3>2
    <3> QED BY <2>1, <3>1, <3>3
  <2> QED BY <2>1, <2>3, <2>4 DEF Lone
<1>6. ASSUME NEW y, Lone(s, y), s[i].kind = y.kind
      PROVE  /\ s[i] = y /\ ~Has(t, y.kind)
             /\ First(s, i) /\ y.kind # "leave" => ~Has(t, "leave")
  <2>1. /\ s[i] = y
        /\ \A j \in DOMAIN s :
             j # i => s[j].kind # y.kind /\ (j > i => s[j].kind # "leave")
    BY <1>6 DEF Lone
  <2>2. ~Has(t, y.kind)
    BY <1>1, <2>1 DEF Has
  <2>3. ASSUME First(s, i), y.kind # "leave", Has(t, "leave")
        PROVE  FALSE
    <3>1. PICK k \in DOMAIN t : t[k].kind = "leave"
      BY <2>3 DEF Has
    <3>2. PICK j \in DOMAIN s : j # i /\ t[k] = s[j]
      BY <1>1
    <3>3. j \in 1..(i - 1) \/ j > i
      BY <1>1, <3>2
    <3> QED BY <2>1, <2>3, <3>1, <3>2, <3>3 DEF First
  <2> QED BY <2>1, <2>2, <2>3
<1>7. \A y : Lone(s, y) /\ s[i].kind = y.kind => s[i] = y /\ ~Has(t, y.kind)
  BY <1>6
<1>8. \A y : Lone(s, y) /\ s[i].kind = y.kind /\ First(s, i) /\ y.kind # "leave"
             => ~Has(t, "leave")
  BY <1>6
<1> QED BY <1>1, <1>2, <1>3, <1>4, <1>5, <1>7, <1>8

LEMMA MemberInts == \A u \in Member : u \in Nat
  BY GroupCallsAssumption

\* What the gateway has after a broadcast.
LEMMA ToOthersNet ==
  ASSUME GroupInv, NEW u \in Member, NEW kind \in {"join", "leave"}, ToOthers(u, kind)
  PROVE  /\ net' \in Net
         /\ \A a, b \in Member : a # u => net'[a][b] = net[a][b]
         /\ \A b \in Member : b # u => net'[u][b] = Append(net[u][b], Signal(kind, 0))
         /\ net'[u][u] = <<>>
<1>1. Signal(kind, 0) \in Word
  BY SignalWord
<1>2. net \in [Member -> [Member -> Seq(Word)]]
  BY DEF GroupInv, Net
<1>3. \A b \in Member : Append(net[u][b], Signal(kind, 0)) \in Seq(Word)
  BY <1>1, <1>2, OneSignalMore
<1>4. <<>> \in Seq(Word)
  OBVIOUS
<1> DEFINE mine == [v \in Member |-> IF v = u THEN <<>> ELSE Append(net[u][v], Signal(kind, 0))]
<1>5. net' = [net EXCEPT ![u] = mine]
  BY DEF ToOthers
<1>6. mine \in [Member -> Seq(Word)]
  BY <1>3, <1>4
<1>7. mine[u] = <<>> /\ \A b \in Member : b # u => mine[b] = Append(net[u][b], Signal(kind, 0))
  OBVIOUS
<1> HIDE DEF mine
<1>8. net' \in [Member -> [Member -> Seq(Word)]]
  BY <1>2, <1>5, <1>6
<1>9. net'[u] = mine /\ \A a \in Member : a # u => net'[a] = net[a]
  BY <1>2, <1>5
<1> QED BY <1>7, <1>8, <1>9 DEF Net

\* What it has after a delivery, which may be answered.
LEMMA MoreWords ==
  ASSUME NEW s \in Seq(Word), NEW signals, signals = <<>> \/ \E x \in Word : signals = <<x>>
  PROVE  s \o signals \in Seq(Word)
<1>1. CASE signals = <<>>
  BY <1>1, ConcatEmptySeq
<1>2. CASE \E x \in Word : signals = <<x>>
  BY <1>2, OneSignalMore
<1> QED BY <1>1, <1>2

LEMMA ReplyNet ==
  ASSUME GroupInv, NEW u \in Member, NEW v \in Peers(u), NEW i \in DOMAIN net[u][v],
         NEW signals, net[v][u] \o signals \in Seq(Word), Reply(u, v, i, signals)
  PROVE  /\ net' \in Net
         /\ net'[u][v] = Without(net[u][v], i)
         /\ net'[v][u] = net[v][u] \o signals
         /\ \A a, b \in Member : <<a, b>> # <<u, v>> /\ <<a, b>> # <<v, u>>
              => net'[a][b] = net[a][b]
<1>0. v \in Member /\ v # u
  BY DEF Peers
<1>1. net \in [Member -> [Member -> Seq(Word)]]
  BY DEF GroupInv, Net
<1>2. Without(net[u][v], i) \in Seq(Word)
  <2>1. net[u][v] \in Seq(Word)
    BY <1>0, <1>1
  <2> QED BY <2>1, FewerSignals
<1> DEFINE less == Without(net[u][v], i)
           more == net[v][u] \o signals
<1>4. net' = [net EXCEPT ![u][v] = less, ![v][u] = more]
  BY DEF Reply
<1> HIDE DEF less, more
<1>5. less \in Seq(Word) /\ more \in Seq(Word)
  BY <1>2 DEF less, more
<1>6. net' \in [Member -> [Member -> Seq(Word)]]
  BY <1>0, <1>1, <1>4, <1>5
<1>7. /\ net'[u][v] = less /\ net'[v][u] = more
      /\ \A a, b \in Member : <<a, b>> # <<u, v>> /\ <<a, b>> # <<v, u>> => net'[a][b] = net[a][b]
  BY <1>0, <1>1, <1>4, <1>5
<1> QED BY <1>6, <1>7 DEF Net, less, more

\* What becomes of the connections.
LEMMA CreateLinks ==
  ASSUME GroupInv, NEW v \in Member, NEW u \in Peers(v), NEW remote \in 0..conns,
         CreatePeerConnection(v, u, remote)
  PROVE  /\ conns' = conns + 1 /\ conns' \in 0..MaxConns
         /\ DOMAIN pcs' = Member
         /\ \A a \in Member : a # v => pcs'[a] = pcs[a]
         /\ DOMAIN pcs'[v] = DOMAIN pcs[v] \cup {u}
         /\ pcs'[v][u] = [id |-> conns + 1, remote |-> remote]
         /\ \A w \in DOMAIN pcs[v] : w # u => pcs'[v][w] = pcs[v][w]
<1>1. conns \in Nat /\ MaxConns \in Nat /\ conns < MaxConns /\ conns' = conns + 1
  BY GroupCallsAssumption DEF GroupInv, CreatePeerConnection
<1>2. DOMAIN pcs = Member
  BY DEF GroupInv, LinksOK
<1> DEFINE mine == [w \in DOMAIN pcs[v] \cup {u} |->
                      IF w = u THEN [id |-> conns + 1, remote |-> remote] ELSE pcs[v][w]]
<1>3. pcs' = [pcs EXCEPT ![v] = mine]
  BY DEF CreatePeerConnection
<1>4. /\ DOMAIN mine = DOMAIN pcs[v] \cup {u}
      /\ mine[u] = [id |-> conns + 1, remote |-> remote]
      /\ \A w \in DOMAIN pcs[v] : w # u => mine[w] = pcs[v][w]
  OBVIOUS
<1> HIDE DEF mine
<1>5. DOMAIN pcs' = Member /\ pcs'[v] = mine /\ \A a \in Member : a # v => pcs'[a] = pcs[a]
  BY <1>2, <1>3
<1> QED BY <1>1, <1>4, <1>5

LEMMA CloseLinks ==
  ASSUME GroupInv, NEW v \in Member, NEW u, ClosePeerConnection(v, u)
  PROVE  /\ DOMAIN pcs' = Member
         /\ \A a \in Member : a # v => pcs'[a] = pcs[a]
         /\ DOMAIN pcs'[v] = DOMAIN pcs[v] \ {u}
         /\ \A w \in DOMAIN pcs'[v] : pcs'[v][w] = pcs[v][w]
<1>2. DOMAIN pcs = Member
  BY DEF GroupInv, LinksOK
<1> DEFINE mine == [w \in DOMAIN pcs[v] \ {u} |-> pcs[v][w]]
<1>3. pcs' = [pcs EXCEPT ![v] = mine]
  BY DEF ClosePeerConnection
<1>4. DOMAIN mine = DOMAIN pcs[v] \ {u} /\ \A w \in DOMAIN mine : mine[w] = pcs[v][w]
  OBVIOUS
<1> HIDE DEF mine
<1>5. DOMAIN pcs' = Member /\ pcs'[v] = mine /\ \A a \in Member : a # v => pcs'[a] = pcs[a]
  BY <1>2, <1>3
<1> QED BY <1>4, <1>5

LEMMA AnswerLinks ==
  ASSUME GroupInv, NEW v \in Member, NEW u \in DOMAIN pcs[v], NEW id,
         pcs' = [pcs EXCEPT ![v][u].remote = id]
  PROVE  /\ DOMAIN pcs' = Member
         /\ \A a \in Member : a # v => pcs'[a] = pcs[a]
         /\ DOMAIN pcs'[v] = DOMAIN pcs[v]
         /\ pcs'[v][u] = [id |-> pcs[v][u].id, remote |-> id]
         /\ \A w \in DOMAIN pcs[v] : w # u => pcs'[v][w] = pcs[v][w]
<1>1. DOMAIN pcs = Member /\ pcs[v][u] \in [id : 1..conns, remote : 0..conns]
  BY DEF GroupInv, LinksOK
<1> QED BY <1>1

\* They are in order if every one that is new or changed is.
LEMMA LinksStep ==
  ASSUME GroupInv, conns' \in Nat, conns <= conns', DOMAIN pcs' = Member,
         \A u \in Member : DOMAIN pcs'[u] \subseteq Peers(u),
         \A u \in Member : \A v \in DOMAIN pcs'[u] :
            \/ v \in DOMAIN pcs[u] /\ pcs'[u][v] = pcs[u][v]
            \/ pcs'[u][v] \in [id : 1..conns', remote : 0..conns'],
         \A u \in Member : place'[u] # "in" => pcs'[u] = NoConns
  PROVE  LinksOK'
<1>1. conns \in Nat
  BY GroupCallsAssumption DEF GroupInv
<1>2. \A u \in Member : \A v \in DOMAIN pcs[u] : pcs[u][v] \in [id : 1..conns, remote : 0..conns]
  BY DEF GroupInv, LinksOK
<1>3. \A u \in Member : \A v \in DOMAIN pcs'[u] : pcs'[u][v] \in [id : 1..conns', remote : 0..conns']
  BY <1>1, <1>2
<1> QED BY <1>3 DEF LinksOK, Peers

\* What is new in the net is in order.
LEMMA WordsStep ==
  ASSUME GroupInv, conns' \in Nat, conns <= conns',
         \A u, v \in Member : \A i \in DOMAIN net'[u][v] :
            \/ \E j \in DOMAIN net[u][v] : net'[u][v][i] = net[u][v][j]
            \/ /\ net'[u][v][i].kind \in {"offer", "answer"} => net'[u][v][i].id \in 1..conns'
               /\ net'[u][v][i].kind = "offer" => u < v
               /\ net'[u][v][i].kind = "answer" => v < u
  PROVE  WordsOK'
<1>1. conns \in Nat
  BY GroupCallsAssumption DEF GroupInv
<1> SUFFICES ASSUME NEW u \in Member, NEW v \in Member, NEW i \in DOMAIN net'[u][v]
             PROVE  /\ net'[u][v][i].kind \in {"offer", "answer"} => net'[u][v][i].id \in 1..conns'
                    /\ net'[u][v][i].kind = "offer" => u < v
                    /\ net'[u][v][i].kind = "answer" => v < u
  BY DEF WordsOK
<1>2. CASE \E j \in DOMAIN net[u][v] : net'[u][v][i] = net[u][v][j]
  <2>1. PICK j \in DOMAIN net[u][v] : net'[u][v][i] = net[u][v][j]
    BY <1>2
  <2>2. /\ net[u][v][j].kind \in {"offer", "answer"} => net[u][v][j].id \in 1..conns
        /\ net[u][v][j].kind = "offer" => u < v
        /\ net[u][v][j].kind = "answer" => v < u
    BY DEF GroupInv, WordsOK
  <2> QED BY <1>1, <2>1, <2>2
<1> QED BY <1>2

LEMMA ToOthersWords ==
  ASSUME GroupInv, NEW u \in Member, NEW kind \in {"join", "leave"}, ToOthers(u, kind),
         conns' = conns
  PROVE  net' \in Net /\ WordsOK'
<1>1. conns \in Nat
  BY GroupCallsAssumption DEF GroupInv
<1>2. ASSUME NEW a \in Member, NEW b \in Member, NEW i \in DOMAIN net'[a][b]
      PROVE  \/ \E j \in DOMAIN net[a][b] : net'[a][b][i] = net[a][b][j]
             \/ net'[a][b][i].kind \notin {"offer", "answer"}
  <2>1. CASE a # u
    BY <1>2, <2>1, ToOthersNet
  <2>2. CASE a = u /\ b = u
    <3>1. net'[a][b] = <<>>
      BY <2>2, ToOthersNet
    <3> QED BY <1>2, <3>1
  <2>3. CASE a = u /\ b # u
    <3>1. net'[a][b] = Append(net[a][b], Signal(kind, 0))
      BY <2>3, ToOthersNet
    <3>2. net[a][b] \in Seq(Word)
      BY DEF GroupInv, Net
    <3>3. Signal(kind, 0) \in Word /\ Signal(kind, 0).kind = kind
      BY SignalWord
    <3>4. /\ DOMAIN net'[a][b] = 1..(Len(net[a][b]) + 1) /\ DOMAIN net[a][b] = 1..Len(net[a][b])
          /\ Len(net[a][b]) \in Nat
          /\ \A j \in 1..Len(net[a][b]) : net'[a][b][j] = net[a][b][j]
          /\ net'[a][b][Len(net[a][b]) + 1] = Signal(kind, 0)
      BY <3>1, <3>2, <3>3, OneSignalMore
    <3>5. i \in 1..Len(net[a][b]) \/ i = Len(net[a][b]) + 1
      BY <1>2, <3>4
    <3> QED BY <3>3, <3>4, <3>5
  <2> QED BY <2>1, <2>2, <2>3
<1>3. WordsOK'
  BY <1>1, <1>2, WordsStep
<1> QED BY <1>3, ToOthersNet

LEMMA ReplyWords ==
  ASSUME GroupInv, NEW u \in Member, NEW v \in Peers(u), NEW i \in DOMAIN net[u][v],
         NEW signals, Reply(u, v, i, signals), conns' \in Nat, conns <= conns',
         \/ signals = <<>>
         \/ \E x \in Word :
              /\ signals = <<x>> /\ x.id \in 1..conns'
              /\ (x.kind = "offer" /\ v < u) \/ (x.kind = "answer" /\ u < v)
  PROVE  net' \in Net /\ WordsOK'
<1>0. v \in Member /\ v # u /\ net[u][v] \in Seq(Word) /\ net[v][u] \in Seq(Word)
  BY DEF GroupInv, Net, Peers
<1>1. /\ net' \in Net
      /\ net'[u][v] = Without(net[u][v], i)
      /\ net'[v][u] = net[v][u] \o signals
      /\ \A a, b \in Member : <<a, b>> # <<u, v>> /\ <<a, b>> # <<v, u>>
           => net'[a][b] = net[a][b]
  <2>1. net[v][u] \o signals \in Seq(Word)
    BY <1>0, MoreWords
  <2> QED BY <2>1, ReplyNet
<1>2. ASSUME NEW a \in Member, NEW b \in Member, NEW k \in DOMAIN net'[a][b]
      PROVE  \/ \E j \in DOMAIN net[a][b] : net'[a][b][k] = net[a][b][j]
             \/ /\ net'[a][b][k].kind \in {"offer", "answer"} => net'[a][b][k].id \in 1..conns'
                /\ net'[a][b][k].kind = "offer" => a < b
                /\ net'[a][b][k].kind = "answer" => b < a
  <2>1. CASE a = u /\ b = v
    BY <1>0, <1>1, <1>2, <2>1, FewerSignals
  <2>2. CASE a = v /\ b = u
    <3>1. CASE signals = <<>>
      <4>1. net'[a][b] = net[a][b]
        BY <1>0, <1>1, <2>2, <3>1, ConcatEmptySeq
      <4> QED BY <1>2, <4>1
    <3>2. ASSUME NEW x \in Word,
                 signals = <<x>> /\ x.id \in 1..conns',
                 (x.kind = "offer" /\ v < u) \/ (x.kind = "answer" /\ u < v)
          PROVE  \/ \E j \in DOMAIN net[a][b] : net'[a][b][k] = net[a][b][j]
                 \/ /\ net'[a][b][k].kind \in {"offer", "answer"} => net'[a][b][k].id \in 1..conns'
                    /\ net'[a][b][k].kind = "offer" => a < b
                    /\ net'[a][b][k].kind = "answer" => b < a
      <4>1. /\ DOMAIN net'[a][b] = 1..(Len(net[a][b]) + 1) /\ DOMAIN net[a][b] = 1..Len(net[a][b])
            /\ Len(net[a][b]) \in Nat
            /\ \A j \in 1..Len(net[a][b]) : net'[a][b][j] = net[a][b][j]
            /\ net'[a][b][Len(net[a][b]) + 1] = x
        BY <1>0, <1>1, <2>2, <3>2, OneSignalMore
      <4>2. k \in 1..Len(net[a][b]) \/ k = Len(net[a][b]) + 1
        BY <1>2, <4>1
      <4> QED BY <2>2, <3>2, <4>1, <4>2
    <3> QED BY <3>1, <3>2
  <2>3. CASE <<a, b>> # <<u, v>> /\ <<a, b>> # <<v, u>>
    BY <1>1, <1>2, <2>3
  <2> QED BY <2>1, <2>2, <2>3
<1>3. WordsOK'
  BY <1>2, WordsStep
<1> QED BY <1>1, <1>3

-----------------------------------------------------------------------------
(* Who hears a join makes an offer, which is on its way, has been answered *)
(* or is followed by a connection; as long as the other stays, and unless  *)
(* it heard of him again while the offer or its answer was under way.      *)

Offered(u, v) ==
  /\ v \in DOMAIN pcs[u] /\ pcs[u][v].remote = 0
  /\ Lone(net[u][v], Signal("offer", pcs[u][v].id))
  /\ ~Has(net[v][u], "answer")

Replied(u, v) ==
  /\ v \in DOMAIN pcs[u] /\ pcs[u][v].remote = 0
  /\ u \in DOMAIN pcs[v] /\ pcs[v][u].remote = pcs[u][v].id
  /\ ~Has(net[u][v], "offer") /\ ~Has(net[u][v], "leave")
  /\ Lone(net[v][u], Signal("answer", pcs[v][u].id))

Met(u, v) ==
  /\ Match(u, v)
  /\ ~Has(net[u][v], "offer") /\ ~Has(net[u][v], "leave")
  /\ ~Has(net[v][u], "answer")

Meeting(u, v) ==
  \/ Has(net[v][u], "join") \/ Has(net[v][u], "leave")
  \/ Offered(u, v) \/ Replied(u, v) \/ Met(u, v)

MeetInv ==
  \A u \in Member : \A v \in heard[u] :
    place[v] = "in" /\ <<u, v>> \notin raced => Meeting(u, v)

\* The connections and the places stay; or a broadcast tells of the change.
LEMMA PlaceStep ==
  ASSUME GroupInv, PlacesOK', net' \in Net, WordsOK', UNCHANGED <<pcs, conns, heard>>,
         \A a \in Member : /\ place[a] = "in" => place'[a] = "in"
                           /\ channel[a] = "in" => channel'[a] = "in"
  PROVE  GroupInv'
<1>1. LinksOK'
  <2>1. \A a \in Member : place[a] # "in" => pcs[a] = NoConns
    BY DEF GroupInv, LinksOK
  <2>2. \A a \in Member : place'[a] # "in" => pcs[a] = NoConns
    BY <2>1
  <2> QED BY <2>2 DEF GroupInv, LinksOK
<1>2. HeardOK'
  <2>1. \A a \in Member : \A b \in heard[a] : a < b /\ place[a] = "in" /\ channel[a] = "in"
    BY DEF GroupInv, HeardOK
  <2>2. \A a \in Member : \A b \in heard[a] : a < b /\ place'[a] = "in" /\ channel'[a] = "in"
    BY <2>1
  <2> QED BY <2>2 DEF GroupInv, HeardOK
<1> QED BY <1>1, <1>2 DEF GroupInv

LEMMA SilentInv ==
  ASSUME GroupInv, NEW u \in Member, Open(u) \/ HandleJoinRoom(u) \/ JoinFails(u)
  PROVE  GroupInv'
<1>0. MaxSessions \in Nat
  BY GroupCallsAssumption
<1>1. PlacesOK'
  <2>1. CASE Open(u)
    BY <1>0, <2>1 DEF GroupInv, PlacesOK, Open
  <2>2. CASE HandleJoinRoom(u)
    BY <1>0, <2>2 DEF GroupInv, PlacesOK, HandleJoinRoom
  <2>3. CASE JoinFails(u)
    BY <1>0, <2>3 DEF GroupInv, PlacesOK, JoinFails
  <2> QED BY <2>1, <2>2, <2>3
<1>2. UNCHANGED <<net, pcs, conns, heard>>
  BY DEF Open, HandleJoinRoom, JoinFails
<1>3. net' \in Net /\ WordsOK'
  BY <1>2 DEF GroupInv, WordsOK, Net
<1>4. \A a \in Member : /\ place[a] = "in" => place'[a] = "in"
                        /\ channel[a] = "in" => channel'[a] = "in"
  BY DEF GroupInv, PlacesOK, Open, HandleJoinRoom, JoinFails
<1> QED BY <1>1, <1>2, <1>3, <1>4, PlaceStep

LEMMA JoiningInv ==
  ASSUME GroupInv, NEW u \in Member, JoinCall(u) \/ OrphanJoins(u)
  PROVE  GroupInv'
<1>0. MaxSessions \in Nat
  BY GroupCallsAssumption
<1>1. PlacesOK'
  <2>1. CASE JoinCall(u)
    BY <1>0, <2>1 DEF GroupInv, PlacesOK, JoinCall
  <2>2. CASE OrphanJoins(u)
    BY <1>0, <2>2 DEF GroupInv, PlacesOK, OrphanJoins
  <2> QED BY <2>1, <2>2
<1>2. UNCHANGED <<pcs, conns, heard>> /\ ToOthers(u, "join")
  BY DEF JoinCall, OrphanJoins
<1>3. net' \in Net /\ WordsOK'
  BY <1>2, ToOthersWords
<1>4. \A a \in Member : /\ place[a] = "in" => place'[a] = "in"
                        /\ channel[a] = "in" => channel'[a] = "in"
  BY DEF GroupInv, PlacesOK, JoinCall, OrphanJoins
<1> QED BY <1>1, <1>2, <1>3, <1>4, PlaceStep

LEMMA LeaveCallInv ==
  ASSUME GroupInv, NEW u \in Member, LeaveCall(u)
  PROVE  GroupInv'
<1>0. MaxSessions \in Nat
  BY GroupCallsAssumption
<1>1. PlacesOK'
  <2>1. CASE place[u] = "asking"
    BY <1>0, <2>1 DEF GroupInv, PlacesOK, LeaveCall
  <2>2. CASE place[u] # "asking"
    BY <1>0, <2>2 DEF GroupInv, PlacesOK, LeaveCall
  <2> QED BY <2>1, <2>2
<1>2. conns' = conns /\ ToOthers(u, "leave")
  BY DEF LeaveCall
<1>3. net' \in Net /\ WordsOK'
  BY <1>2, ToOthersWords
<1>4. /\ DOMAIN pcs' = Member /\ pcs'[u] = NoConns
      /\ \A a \in Member : a # u => pcs'[a] = pcs[a] /\ place'[a] = place[a] /\ channel'[a] = channel[a]
      /\ \A a \in Member : a # u => heard'[a] = heard[a]
      /\ heard'[u] = {}
  BY DEF GroupInv, PlacesOK, LinksOK, HeardOK, LeaveCall
<1>5. LinksOK'
  BY <1>2, <1>4 DEF GroupInv, LinksOK, NoConns
<1>6. HeardOK'
  BY <1>4 DEF GroupInv, HeardOK, LeaveCall
<1> QED BY <1>1, <1>2, <1>3, <1>5, <1>6 DEF GroupInv

\* Some of what was under way is lost.
LEMMA LostWords ==
  ASSUME GroupInv, conns' = conns, NEW lost \in SUBSET (Member \X Member),
         net' = [a \in Member |-> [b \in Member |-> IF <<a, b>> \in lost THEN <<>> ELSE net[a][b]]]
  PROVE  net' \in Net /\ WordsOK'
<1>1. conns \in Nat
  BY GroupCallsAssumption DEF GroupInv
<1>2. \A a, b \in Member : net'[a][b] = <<>> \/ net'[a][b] = net[a][b]
  OBVIOUS
<1>3. \A a, b \in Member : net'[a][b] \in Seq(Word)
  <2>1. <<>> \in Seq(Word)
    OBVIOUS
  <2>2. \A a, b \in Member : net[a][b] \in Seq(Word)
    BY DEF GroupInv, Net
  <2> QED BY <1>2, <2>1, <2>2
<1>4. net' \in Net
  BY <1>3 DEF Net
<1>5. ASSUME NEW a \in Member, NEW b \in Member, NEW i \in DOMAIN net'[a][b]
      PROVE  \E j \in DOMAIN net[a][b] : net'[a][b][i] = net[a][b][j]
  <2>1. DOMAIN <<>> = {}
    OBVIOUS
  <2> QED BY <1>2, <1>5, <2>1
<1> QED BY <1>1, <1>4, <1>5, WordsStep

\* What a closed tab or a lost socket loses.
LEMMA ClosedNet ==
  ASSUME GroupInv, NEW u \in Member, CloseTab(u)
  PROVE  /\ net' \in Net /\ WordsOK'
         /\ \A a, b \in Member : a # u => net'[a][b] = net[a][b]
<1>1. conns' = conns /\ DOMAIN net = Member /\ \A a \in Member : DOMAIN net[a] = Member
  BY DEF CloseTab, GroupInv, Net
<1>2. CASE net' = net
  BY <1>1, <1>2 DEF GroupInv, Net, WordsOK
<1>3. CASE net' = [net EXCEPT ![u] = [v \in Member |-> <<>>]]
  <2> DEFINE lost == {u} \X Member
  <2>1. /\ DOMAIN net' = Member
        /\ net'[u] = [v \in Member |-> <<>>]
        /\ \A a \in Member : a # u => net'[a] = net[a]
    BY <1>1, <1>3
  <2>2. net \in [Member -> [Member -> Seq(Word)]] /\ net' = [a \in Member |-> net'[a]]
    BY <1>1, <1>3 DEF GroupInv, Net
  <2>3. \A a \in Member :
          net'[a] = [b \in Member |-> IF <<a, b>> \in lost THEN <<>> ELSE net[a][b]]
    <3> TAKE a \in Member
    <3>1. CASE a = u
      BY <2>1, <3>1
    <3>2. CASE a # u
      <4>1. net[a] = [b \in Member |-> net[a][b]]
        BY <2>2
      <4>2. \A b \in Member : <<a, b>> \notin lost
        BY <3>2
      <4> QED BY <2>1, <3>2, <4>1, <4>2
    <3> QED BY <3>1, <3>2
  <2>4. net' = [a \in Member |-> [b \in Member |-> IF <<a, b>> \in lost THEN <<>> ELSE net[a][b]]]
    BY <2>2, <2>3
  <2>5. lost \in SUBSET (Member \X Member)
    OBVIOUS
  <2>6. net' \in Net /\ WordsOK'
    <3> HIDE DEF lost
    <3> QED BY <1>1, <2>4, <2>5, LostWords
  <2> QED BY <2>1, <2>6
<1> QED BY <1>2, <1>3 DEF CloseTab

LEMMA ReconnectNet ==
  ASSUME GroupInv, NEW u \in Member, Reconnect(u)
  PROVE  /\ net' \in Net /\ WordsOK'
         /\ \A a, b \in Member : b # u => net'[a][b] = net[a][b]
<1>1. conns' = conns /\ DOMAIN net = Member /\ \A a \in Member : DOMAIN net[a] = Member
  BY DEF Reconnect, GroupInv, Net
<1>2. CASE net' = net
  BY <1>1, <1>2 DEF GroupInv, Net, WordsOK
<1>3. CASE net' = [w \in Member |-> [net[w] EXCEPT ![u] = <<>>]]
  <2> DEFINE lost == Member \X {u}
  <2>1. \A a \in Member : /\ DOMAIN net'[a] = Member /\ net'[a][u] = <<>>
                          /\ \A b \in Member : b # u => net'[a][b] = net[a][b]
    BY <1>1, <1>3
  <2>2. \A a \in Member :
          [net[a] EXCEPT ![u] = <<>>]
            = [b \in Member |-> IF <<a, b>> \in lost THEN <<>> ELSE net[a][b]]
    <3> TAKE a \in Member
    <3>1. [net[a] EXCEPT ![u] = <<>>] = [b \in Member |-> IF b = u THEN <<>> ELSE net[a][b]]
      BY <1>1
    <3>2. \A b \in Member : b = u <=> <<a, b>> \in lost
      OBVIOUS
    <3> QED BY <3>1, <3>2
  <2>3. net' = [a \in Member |-> [b \in Member |-> IF <<a, b>> \in lost THEN <<>> ELSE net[a][b]]]
    BY <1>3, <2>2
  <2>4. lost \in SUBSET (Member \X Member)
    OBVIOUS
  <2>5. net' \in Net /\ WordsOK'
    <3> HIDE DEF lost
    <3> QED BY <1>1, <2>3, <2>4, LostWords
  <2> QED BY <2>1, <2>5
<1> QED BY <1>2, <1>3 DEF Reconnect

LEMMA CloseTabInv ==
  ASSUME GroupInv, NEW u \in Member, CloseTab(u)
  PROVE  GroupInv'
<1>0. MaxSessions \in Nat
  BY GroupCallsAssumption
<1>1. PlacesOK'
  BY <1>0 DEF GroupInv, PlacesOK, CloseTab
<1>2. conns' = conns /\ net' \in Net /\ WordsOK'
  BY ClosedNet DEF CloseTab
<1>4. /\ DOMAIN pcs' = Member /\ pcs'[u] = NoConns
      /\ \A a \in Member : a # u => pcs'[a] = pcs[a] /\ place'[a] = place[a] /\ channel'[a] = channel[a]
      /\ \A a \in Member : a # u => heard'[a] = heard[a]
      /\ heard'[u] = {}
  BY DEF GroupInv, PlacesOK, LinksOK, HeardOK, CloseTab
<1>5. LinksOK'
  BY <1>2, <1>4 DEF GroupInv, LinksOK, NoConns
<1>6. HeardOK'
  BY <1>4 DEF GroupInv, HeardOK, CloseTab
<1> QED BY <1>1, <1>2, <1>5, <1>6 DEF GroupInv

LEMMA ReconnectInv ==
  ASSUME GroupInv, NEW u \in Member, Reconnect(u)
  PROVE  GroupInv'
<1>0. MaxSessions \in Nat /\ place' = place /\ orphans' = orphans
  BY GroupCallsAssumption DEF Reconnect
<1>1. PlacesOK'
  <2>1. sessions \in 0..MaxSessions /\ sessions' = sessions + 1 /\ sessions < MaxSessions
    BY DEF GroupInv, PlacesOK, Reconnect
  <2>2. /\ channel' \in [Member -> {"none", "joining", "in", "lost"}]
        /\ \A a \in Member : place[a] = "away" <=> channel'[a] = "none"
    BY DEF GroupInv, PlacesOK, Reconnect
  <2>3. \A a \in Member : orphans[a] + (IF place[a] = "asking" THEN 1 ELSE 0) <= sessions'
    BY <1>0, <2>1 DEF GroupInv, PlacesOK
  <2> QED BY <1>0, <2>1, <2>2, <2>3 DEF GroupInv, PlacesOK
<1>2. UNCHANGED <<conns, pcs>> /\ net' \in Net /\ WordsOK'
  BY ReconnectNet DEF Reconnect
<1>3. LinksOK'
  BY <1>0, <1>2 DEF GroupInv, LinksOK
<1>4. HeardOK'
  <2>1. /\ heard' = [w \in Member |-> IF w = u THEN {} ELSE heard[w] \ {u}]
        /\ \A a \in Member : a # u => channel'[a] = channel[a]
    BY DEF Reconnect, GroupInv, PlacesOK
  <2> QED BY <1>0, <2>1 DEF GroupInv, HeardOK
<1> QED BY <1>1, <1>2, <1>3, <1>4 DEF GroupInv

LEMMA FailedInv ==
  ASSUME GroupInv, NEW u \in Member, NEW v \in Peers(u), Failed(u, v)
  PROVE  GroupInv'
<1>1. ClosePeerConnection(u, v) /\ UNCHANGED <<place, channel, orphans, net, sessions, conns, heard>>
  BY DEF Failed
<1>2. place[u] = "in"
  BY DEF Failed, Dead, GroupInv, LinksOK, NoConns
<1>3. LinksOK'
  <2>1. /\ DOMAIN pcs' = Member
        /\ \A a \in Member : a # u => pcs'[a] = pcs[a]
        /\ DOMAIN pcs'[u] = DOMAIN pcs[u] \ {v}
        /\ \A w \in DOMAIN pcs'[u] : pcs'[u][w] = pcs[u][w]
    BY <1>1, CloseLinks
  <2> QED BY <1>1, <1>2, <2>1 DEF GroupInv, LinksOK
<1> QED BY <1>1, <1>3 DEF GroupInv, PlacesOK, WordsOK, HeardOK, Net

LEMMA DeliverInv ==
  ASSUME GroupInv, NEW u \in Member, NEW v \in Peers(u), NEW i \in Due(u, v), Deliver(u, v, i)
  PROVE  GroupInv'
<1>0. /\ v \in Member /\ v # u /\ u \in Peers(v) /\ i \in DOMAIN net[u][v]
      /\ net[u][v] \in Seq(Word) /\ net[u][v][i] \in Word
      /\ conns \in Nat /\ u \in Nat /\ v \in Nat
      /\ UNCHANGED <<place, channel, orphans, sessions>>
  BY MemberInts, GroupCallsAssumption DEF Peers, Due, GroupInv, Net, Deliver
<1> DEFINE x == net[u][v][i]
<1>1. PlacesOK'
  BY <1>0 DEF GroupInv, PlacesOK
<1>2. x.kind \in {"join", "offer", "answer", "leave"} /\ x.id \in Nat
  BY <1>0 DEF Word
<1>3. ASSUME UNCHANGED <<pcs, conns, heard>>, Reply(u, v, i, <<>>)
      PROVE  GroupInv'
  <2>1. net' \in Net /\ WordsOK'
    BY <1>0, <1>3, ReplyWords
  <2> QED BY <1>0, <1>1, <1>3, <2>1 DEF GroupInv, LinksOK, HeardOK
<1>4. ASSUME NEW remote \in 0..conns, place[v] = "in", CreatePeerConnection(v, u, remote),
             NEW y \in Word, y.id \in 1..(conns + 1), Reply(u, v, i, <<y>>),
             (y.kind = "offer" /\ v < u) \/ (y.kind = "answer" /\ u < v),
             HeardOK'
      PROVE  GroupInv'
  <2>1. /\ conns' = conns + 1 /\ conns' \in 0..MaxConns
        /\ DOMAIN pcs' = Member
        /\ \A a \in Member : a # v => pcs'[a] = pcs[a]
        /\ DOMAIN pcs'[v] = DOMAIN pcs[v] \cup {u}
        /\ pcs'[v][u] = [id |-> conns + 1, remote |-> remote]
        /\ \A w \in DOMAIN pcs[v] : w # u => pcs'[v][w] = pcs[v][w]
    BY <1>0, <1>4, CreateLinks
  <2>2. net' \in Net /\ WordsOK'
    BY <1>0, <1>4, <2>1, ReplyWords
  <2>3. LinksOK'
    <3>1. pcs'[v][u] \in [id : 1..conns', remote : 0..conns']
      BY <1>0, <2>1
    <3>2. \A a \in Member : \A b \in DOMAIN pcs'[a] :
            \/ b \in DOMAIN pcs[a] /\ pcs'[a][b] = pcs[a][b]
            \/ pcs'[a][b] \in [id : 1..conns', remote : 0..conns']
      BY <2>1, <3>1
    <3>3. \A a \in Member : DOMAIN pcs'[a] \subseteq Peers(a)
      BY <1>0, <2>1 DEF GroupInv, LinksOK
    <3>4. \A a \in Member : place'[a] # "in" => pcs'[a] = NoConns
      BY <1>0, <1>4, <2>1 DEF GroupInv, LinksOK
    <3>5. conns' \in Nat /\ conns <= conns'
      BY <1>0, <2>1
    <3> QED BY <2>1, <3>2, <3>3, <3>4, <3>5, LinksStep
  <2> QED BY <1>1, <1>4, <2>1, <2>2, <2>3 DEF GroupInv
<1>5. CASE x.kind = "join"
  <2>1. OnPeerJoined(u, v, i)
    BY <1>5 DEF Deliver
  <2>2. CASE place[v] = "in" /\ channel[v] = "in" /\ v < u
    <3>1. /\ CreatePeerConnection(v, u, 0) /\ Reply(u, v, i, <<Signal("offer", conns + 1)>>)
          /\ heard' = [heard EXCEPT ![v] = @ \cup {u}]
      BY <2>1, <2>2 DEF OnPeerJoined
    <3>2. HeardOK'
      BY <1>0, <2>2, <3>1 DEF GroupInv, HeardOK
    <3>3. /\ Signal("offer", conns + 1) \in Word
          /\ Signal("offer", conns + 1).kind = "offer" /\ Signal("offer", conns + 1).id = conns + 1
      BY <1>0, SignalWord
    <3>4. conns + 1 \in 1..(conns + 1) /\ 0 \in 0..conns
      BY <1>0
    <3>5. PICK y \in Word : /\ y.id \in 1..(conns + 1) /\ y.kind = "offer"
                           /\ Reply(u, v, i, <<y>>)
      BY <3>1, <3>3, <3>4
    <3>6. PICK remote \in 0..conns : CreatePeerConnection(v, u, remote)
      BY <3>1, <3>4
    <3> HIDE DEF x
    <3>7. place[v] = "in" /\ v < u
      BY <2>2
    <3> QED BY <1>4, <3>2, <3>5, <3>6, <3>7
  <2>3. CASE ~(place[v] = "in" /\ channel[v] = "in" /\ v < u)
    BY <1>3, <2>1, <2>3 DEF OnPeerJoined
  <2> QED BY <2>2, <2>3
<1>6. CASE x.kind = "offer"
  <2>1. OnOffer(u, v, i)
    BY <1>6 DEF Deliver
  <2>2. heard' = heard
    BY <2>1 DEF OnOffer
  <2>3. CASE place[v] = "in"
    <3>1. /\ CreatePeerConnection(v, u, x.id) /\ Reply(u, v, i, <<Signal("answer", conns + 1)>>)
      BY <2>1, <2>3 DEF OnOffer
    <3>2. HeardOK'
      BY <1>0, <2>2 DEF GroupInv, HeardOK
    <3>3. /\ Signal("answer", conns + 1) \in Word
          /\ Signal("answer", conns + 1).kind = "answer" /\ Signal("answer", conns + 1).id = conns + 1
      BY <1>0, SignalWord
    <3>4. conns + 1 \in 1..(conns + 1) /\ x.id \in 0..conns /\ u < v
      BY <1>0, <1>6 DEF GroupInv, WordsOK
    <3> QED BY <1>4, <2>3, <3>1, <3>2, <3>3, <3>4
  <2>4. CASE place[v] # "in"
    BY <1>3, <2>1, <2>2, <2>4 DEF OnOffer
  <2> QED BY <2>3, <2>4
<1>7. CASE x.kind = "answer"
  <2>1. OnAnswer(u, v, i) /\ UNCHANGED <<conns, heard>> /\ Reply(u, v, i, <<>>)
    BY <1>7 DEF Deliver, OnAnswer
  <2>2. CASE u \in DOMAIN pcs[v] /\ pcs[v][u].remote = 0
    <3>1. pcs' = [pcs EXCEPT ![v][u].remote = x.id]
      BY <2>1, <2>2 DEF OnAnswer
    <3>2. /\ DOMAIN pcs' = Member
          /\ \A a \in Member : a # v => pcs'[a] = pcs[a]
          /\ DOMAIN pcs'[v] = DOMAIN pcs[v]
          /\ pcs'[v][u] = [id |-> pcs[v][u].id, remote |-> x.id]
          /\ \A w \in DOMAIN pcs[v] : w # u => pcs'[v][w] = pcs[v][w]
      BY <1>0, <2>2, <3>1, AnswerLinks
    <3>3. x.id \in 1..conns
      BY <1>0, <1>7 DEF GroupInv, WordsOK
    <3>4. place[v] = "in"
      BY <1>0, <2>2 DEF GroupInv, LinksOK, NoConns
    <3>5. LinksOK'
      <4>1. pcs[v][u].id \in 1..conns
        BY <1>0, <2>2 DEF GroupInv, LinksOK
      <4>2. pcs'[v][u] \in [id : 1..conns', remote : 0..conns']
        BY <1>0, <2>1, <3>2, <3>3, <4>1
      <4> HIDE DEF x
      <4>3. \A a \in Member : \A b \in DOMAIN pcs'[a] :
            \/ b \in DOMAIN pcs[a] /\ pcs'[a][b] = pcs[a][b]
            \/ pcs'[a][b] \in [id : 1..conns', remote : 0..conns']
        BY <3>2, <4>2
      <4>4. /\ \A a \in Member : DOMAIN pcs'[a] \subseteq Peers(a)
            /\ \A a \in Member : place'[a] # "in" => pcs'[a] = NoConns
        BY <1>0, <3>2, <3>4 DEF GroupInv, LinksOK
      <4>5. conns' \in Nat /\ conns <= conns'
        BY <1>0, <2>1
      <4> QED BY <3>2, <4>3, <4>4, <4>5, LinksStep
    <3>6. net' \in Net /\ WordsOK'
      BY <1>0, <2>1, ReplyWords
    <3> QED BY <1>0, <1>1, <2>1, <3>5, <3>6 DEF GroupInv, HeardOK
  <2>3. CASE ~(u \in DOMAIN pcs[v] /\ pcs[v][u].remote = 0)
    BY <1>3, <2>1, <2>3 DEF OnAnswer
  <2> QED BY <2>2, <2>3
<1>8. CASE x.kind = "leave"
  <2>1. OnPeerLeft(u, v, i) /\ UNCHANGED conns /\ Reply(u, v, i, <<>>)
    BY <1>8 DEF Deliver, OnPeerLeft
  <2>2. CASE channel[v] = "in"
    <3>1. ClosePeerConnection(v, u) /\ heard' = [heard EXCEPT ![v] = @ \ {u}]
      BY <2>1, <2>2 DEF OnPeerLeft
    <3>2. /\ DOMAIN pcs' = Member
          /\ \A a \in Member : a # v => pcs'[a] = pcs[a]
          /\ DOMAIN pcs'[v] = DOMAIN pcs[v] \ {u}
          /\ \A w \in DOMAIN pcs'[v] : pcs'[v][w] = pcs[v][w]
      BY <1>0, <3>1, CloseLinks
    <3>3. ASSUME place[v] # "in" PROVE pcs'[v] = NoConns
      <4>1. pcs[v] = NoConns
        BY <1>0, <3>3 DEF GroupInv, LinksOK
      <4>2. pcs'[v] = [w \in DOMAIN NoConns \ {u} |-> NoConns[w]]
        BY <1>0, <3>1, <4>1 DEF ClosePeerConnection, GroupInv, LinksOK
      <4> QED BY <4>2 DEF NoConns
    <3>4. LinksOK'
      BY <1>0, <2>1, <3>2, <3>3 DEF GroupInv, LinksOK
    <3>5. HeardOK'
      BY <1>0, <3>1 DEF GroupInv, HeardOK
    <3>6. net' \in Net /\ WordsOK'
      BY <1>0, <2>1, ReplyWords
    <3> QED BY <1>1, <2>1, <3>4, <3>5, <3>6 DEF GroupInv
  <2>3. CASE channel[v] # "in"
    BY <1>3, <2>1, <2>3 DEF OnPeerLeft
  <2> QED BY <2>2, <2>3
<1> QED BY <1>2, <1>5, <1>6, <1>7, <1>8

LEMMA GroupInvStep == GroupInv /\ [GroupNext]_groupVars => GroupInv'
<1> SUFFICES ASSUME GroupInv, [GroupNext]_groupVars PROVE GroupInv'
  OBVIOUS
<1>1. CASE UNCHANGED groupVars
  BY <1>1 DEF groupVars, calls, GroupInv, PlacesOK, WordsOK, LinksOK, HeardOK, Net
<1>2. ASSUME NEW u \in Member,
             \/ Open(u) \/ HandleJoinRoom(u) \/ JoinCall(u) \/ JoinFails(u)
             \/ OrphanJoins(u) \/ LeaveCall(u) \/ CloseTab(u) \/ Reconnect(u)
      PROVE  GroupInv'
  BY <1>2, SilentInv, JoiningInv, LeaveCallInv, CloseTabInv, ReconnectInv
<1>3. ASSUME NEW u \in Member, NEW v \in Peers(u), Failed(u, v) \/ \E i \in Due(u, v) : Deliver(u, v, i)
      PROVE  GroupInv'
  BY <1>3, FailedInv, DeliverInv
<1> QED BY <1>1, <1>2, <1>3 DEF GroupNext

LEMMA ToOthersHas ==
  ASSUME GroupInv, NEW u \in Member, NEW kind \in {"join", "leave"}, ToOthers(u, kind)
  PROVE  /\ \A b \in Peers(u) : Has(net'[u][b], kind)
         /\ \A a \in Member : \A b \in Peers(a) : \A k : Has(net[a][b], k) => Has(net'[a][b], k)
<1>1. /\ \A a, b \in Member : a # u => net'[a][b] = net[a][b]
      /\ \A b \in Member : b # u => net'[u][b] = Append(net[u][b], Signal(kind, 0))
  BY ToOthersNet
<1>2. Signal(kind, 0) \in Word /\ Signal(kind, 0).kind = kind
  BY SignalWord
<1>3. ASSUME NEW b \in Peers(u)
      PROVE  Has(net'[u][b], kind) /\ \A k : Has(net[u][b], k) => Has(net'[u][b], k)
  <2>1. b \in Member /\ b # u /\ net[u][b] \in Seq(Word)
    BY DEF Peers, GroupInv, Net
  <2>2. net'[u][b] = Append(net[u][b], Signal(kind, 0))
    BY <1>1, <2>1
  <2> QED BY <1>2, <2>1, <2>2, MoreSignals
<1> QED BY <1>1, <1>3 DEF Peers

LEMMA ReplyHas ==
  ASSUME GroupInv, NEW u \in Member, NEW v \in Peers(u), NEW i \in DOMAIN net[u][v],
         NEW signals, signals = <<>> \/ \E x \in Word : signals = <<x>>,
         Reply(u, v, i, signals)
  PROVE  /\ \A a \in Member : \A b \in Peers(a) : \A k :
              /\ Has(net[a][b], k)
              /\ <<a, b>> = <<u, v>> => net[u][v][i].kind # k
              => Has(net'[a][b], k)
<1>1. /\ v \in Member /\ v # u /\ net[u][v] \in Seq(Word) /\ net[v][u] \in Seq(Word)
  BY DEF Peers, GroupInv, Net
<1>2. /\ net'[u][v] = Without(net[u][v], i)
      /\ net'[v][u] = net[v][u] \o signals
      /\ \A a, b \in Member : <<a, b>> # <<u, v>> /\ <<a, b>> # <<v, u>>
           => net'[a][b] = net[a][b]
  <2>1. net[v][u] \o signals \in Seq(Word)
    BY <1>1, MoreWords
  <2> QED BY <2>1, ReplyNet
<1>3. \A k : Has(net[u][v], k) /\ net[u][v][i].kind # k => Has(net'[u][v], k)
  BY <1>1, <1>2, FewerSignals
<1>4. \A k : Has(net[v][u], k) => Has(net'[v][u], k)
  <2>1. CASE signals = <<>>
    BY <1>1, <1>2, <2>1, ConcatEmptySeq
  <2>2. CASE \E x \in Word : signals = <<x>>
    <3>1. PICK x \in Word : net'[v][u] = net[v][u] \o <<x>>
      BY <1>2, <2>2
    <3> QED BY ZenonT(40), <1>1, <3>1, MoreSignals
  <2> QED BY <2>1, <2>2
<1>5. ASSUME NEW a \in Member, NEW b \in Peers(a), NEW k, Has(net[a][b], k),
             <<a, b>> = <<u, v>> => net[u][v][i].kind # k
      PROVE  Has(net'[a][b], k)
  <2>1. CASE a = u /\ b = v
    BY <1>3, <1>5, <2>1
  <2>2. CASE a = v /\ b = u
    BY <1>4, <1>5, <2>2
  <2>3. CASE <<a, b>> # <<u, v>> /\ <<a, b>> # <<v, u>>
    BY <1>2, <1>5, <2>3 DEF Peers
  <2> QED BY <2>1, <2>2, <2>3
<1> QED BY <1>5

\* An unanswered offer that nothing will end is to somebody whose leaving
\* could not be heard.
Haunted(u, v) == Abandoned(v, u) => <<v, u>> \in untold

LEMMA HauntedKept ==
  ASSUME NEW u, NEW v, Haunted(u, v),
         v \in DOMAIN pcs'[u] => v \in DOMAIN pcs[u] /\ pcs'[u][v] = pcs[u][v],
         place[v] = "in" => place'[v] = "in" \/ Has(net'[v][u], "leave"),
         \A k \in {"leave", "answer"} : Has(net[v][u], k) => Has(net'[v][u], k),
         <<v, u>> \in untold => <<v, u>> \in untold'
  PROVE  Haunted(u, v)'
<1>1. Abandoned(v, u)' => Abandoned(v, u)
  BY DEF Abandoned
<1> QED BY <1>1 DEF Haunted

LEMMA Noted ==
  ASSUME NEW u, NEW v, Note(v, u) PROVE Haunted(u, v)'
  BY DEF Note, Haunted

LEMMA GhostLocal ==
  ASSUME GroupInv, NEW w \in Member, \A a \in Member : \A b \in Peers(a) : Haunted(a, b),
         \/ Open(w) \/ HandleJoinRoom(w) \/ JoinCall(w) \/ JoinFails(w)
         \/ OrphanJoins(w) \/ LeaveCall(w) \/ CloseTab(w) \/ Reconnect(w)
         \/ \E x \in Peers(w) : Failed(w, x),
         NEW u \in Member, NEW v \in Peers(u)
  PROVE  Haunted(u, v)'
<1>0. v \in Member /\ v # u /\ u \in Peers(v) /\ Haunted(u, v)
  BY DEF Peers
<1>1. CASE Open(w) \/ HandleJoinRoom(w) \/ JoinFails(w)
  <2>1. UNCHANGED <<pcs, net, untold>>
    BY <1>1 DEF Open, HandleJoinRoom, JoinFails
  <2>2. \A a \in Member : place[a] = "in" => place'[a] = "in"
    BY <1>1 DEF Open, HandleJoinRoom, JoinFails, GroupInv, PlacesOK
  <2> QED BY <1>0, <2>1, <2>2, HauntedKept
<1>2. CASE JoinCall(w) \/ OrphanJoins(w)
  <2>1. UNCHANGED <<pcs, untold>> /\ ToOthers(w, "join")
    BY <1>2 DEF JoinCall, OrphanJoins
  <2>2. \A a \in Member : place[a] = "in" => place'[a] = "in"
    BY <1>2 DEF JoinCall, OrphanJoins, GroupInv, PlacesOK
  <2>3. \A k \in {"leave", "answer"} : Has(net[v][u], k) => Has(net'[v][u], k)
    BY <1>0, <2>1, ToOthersHas
  <2> QED BY <1>0, <2>1, <2>2, <2>3, HauntedKept
<1>3. CASE LeaveCall(w)
  <2>1. UNCHANGED untold /\ ToOthers(w, "leave")
    BY <1>3 DEF LeaveCall
  <2>2. /\ pcs'[w] = NoConns
        /\ \A a \in Member : a # w => pcs'[a] = pcs[a] /\ place'[a] = place[a]
    BY <1>3 DEF LeaveCall, GroupInv, PlacesOK, LinksOK
  <2>3. /\ \A k \in {"leave", "answer"} : Has(net[v][u], k) => Has(net'[v][u], k)
        /\ v = w => Has(net'[v][u], "leave")
    BY <1>0, <2>1, ToOthersHas
  <2>4. CASE u = w
    BY <2>2, <2>4 DEF Haunted, Abandoned, NoConns
  <2>5. CASE u # w
    <3>1. pcs'[u] = pcs[u]
      BY <2>2, <2>5
    <3>2. place[v] = "in" => place'[v] = "in" \/ Has(net'[v][u], "leave")
      BY <1>0, <2>2, <2>3
    <3> QED BY <1>0, <2>1, <2>3, <3>1, <3>2, HauntedKept
  <2> QED BY <2>4, <2>5
<1>4. ASSUME NEW x \in Peers(w), Failed(w, x)
      PROVE  Haunted(u, v)'
  <2>1. ClosePeerConnection(w, x) /\ UNCHANGED <<place, net, untold>>
    BY <1>4 DEF Failed
  <2>2. v \in DOMAIN pcs'[u] => v \in DOMAIN pcs[u] /\ pcs'[u][v] = pcs[u][v]
    BY <2>1, CloseLinks
  <2> QED BY <1>0, <2>1, <2>2, HauntedKept
<1>5. CASE CloseTab(w)
  <2>1. /\ pcs'[w] = NoConns
        /\ \A a \in Member : a # w => pcs'[a] = pcs[a] /\ place'[a] = place[a]
        /\ untold' = untold \cup {<<w, a>> : a \in {b \in Peers(w) : Abandoned(w, b)'}}
    BY <1>5 DEF CloseTab, GroupInv, PlacesOK, LinksOK
  <2>2. CASE u = w
    BY <2>1, <2>2 DEF Haunted, Abandoned, NoConns
  <2>3. CASE v = w
    BY <1>0, <2>1, <2>3 DEF Haunted
  <2>4. CASE u # w /\ v # w
    <3>1. net'[v][u] = net[v][u]
      BY <1>0, <1>5, <2>4, ClosedNet
    <3>2. <<v, u>> \in untold => <<v, u>> \in untold'
      BY <2>1
    <3> QED BY <1>0, <2>1, <2>4, <3>1, <3>2, HauntedKept
  <2> QED BY <2>2, <2>3, <2>4
<1>6. CASE Reconnect(w)
  <2>1. /\ UNCHANGED <<pcs, place>>
        /\ untold' = untold \cup {<<a, w>> : a \in {b \in Peers(w) : Abandoned(b, w)'}}
    BY <1>6 DEF Reconnect
  <2>2. CASE u = w
    BY <2>1, <2>2 DEF Haunted
  <2>3. CASE u # w
    <3>1. net'[v][u] = net[v][u]
      BY <1>0, <1>6, <2>3, ReconnectNet
    <3>2. <<v, u>> \in untold => <<v, u>> \in untold'
      BY <2>1
    <3> QED BY <1>0, <2>1, <3>1, <3>2, HauntedKept
  <2> QED BY <2>2, <2>3
<1> QED BY <1>1, <1>2, <1>3, <1>4, <1>5, <1>6

LEMMA GhostDeliver ==
  ASSUME GroupInv, NEW w \in Member, \A a \in Member : \A b \in Peers(a) : Haunted(a, b),
         NEW x \in Peers(w), NEW i \in Due(w, x), Deliver(w, x, i),
         NEW u \in Member, NEW v \in Peers(u)
  PROVE  Haunted(u, v)'
<1>0. /\ v \in Member /\ v # u /\ Haunted(u, v)
      /\ x \in Member /\ x # w /\ w \in Peers(x) /\ u \in Peers(v)
      /\ i \in DOMAIN net[w][x] /\ net[w][x][i] \in Word /\ conns \in Nat
      /\ UNCHANGED <<place, channel, orphans, sessions>>
  <2>1. v \in Member /\ v # u /\ x \in Member /\ x # w /\ w \in Peers(x) /\ u \in Peers(v)
    BY DEF Peers
  <2>2. i \in DOMAIN net[w][x] /\ net[w][x] \in Seq(Word)
    BY <2>1 DEF Due, GroupInv, Net
  <2>3. net[w][x][i] \in Word
    BY <2>2
  <2> QED BY <2>1, <2>2, <2>3, GroupCallsAssumption DEF GroupInv, Deliver
<1> DEFINE y == net[w][x][i]
<1>2. y.kind \in {"join", "offer", "answer", "leave"} /\ y.id \in Nat
  BY <1>0 DEF Word
<1>3. ASSUME NEW signals, signals = <<>> \/ \E z \in Word : signals = <<z>>, Reply(w, x, i, signals)
      PROVE  \A k : Has(net[v][u], k) /\ (<<v, u>> = <<w, x>> => y.kind # k) => Has(net'[v][u], k)
  BY ZenonT(40), <1>0, <1>3, ReplyHas
<1>4. ASSUME NEW remote \in 0..conns, CreatePeerConnection(x, w, remote)
      PROVE  /\ <<v, u>> # <<w, x>> /\ v \in DOMAIN pcs'[u]
                => v \in DOMAIN pcs[u] /\ pcs'[u][v] = pcs[u][v]
             /\ pcs'[x][w] = [id |-> conns + 1, remote |-> remote]
  BY <1>0, <1>4, CreateLinks
\* It is enough that the pair of the signal is noted or as it was, and that
\* other connections stay.
<1>9. ASSUME NEW signals, signals = <<>> \/ \E z \in Word : signals = <<z>>, Reply(w, x, i, signals),
             <<v, u>> # <<w, x>> /\ v \in DOMAIN pcs'[u]
               => v \in DOMAIN pcs[u] /\ pcs'[u][v] = pcs[u][v],
             untold' = untold \/ untold' = untold \ {<<w, x>>} \/ Note(w, x),
             <<v, u>> # <<w, x>>
      PROVE  Haunted(u, v)'
  <2>1. \A k \in {"leave", "answer"} : Has(net[v][u], k) => Has(net'[v][u], k)
    BY <1>3, <1>9
  <2>2. <<v, u>> \in untold => <<v, u>> \in untold'
    BY <1>9 DEF Note
  <2> QED BY <1>0, <1>9, <2>1, <2>2, HauntedKept
<1>5. CASE y.kind = "join"
  <2>1. OnPeerJoined(w, x, i)
    BY <1>5 DEF Deliver
  <2>2. CASE place[x] = "in" /\ channel[x] = "in" /\ x < w
    <3>1. /\ CreatePeerConnection(x, w, 0) /\ Reply(w, x, i, <<Signal("offer", conns + 1)>>)
          /\ Note(w, x)
      BY <2>1, <2>2 DEF OnPeerJoined
    <3>4. CASE v = w /\ u = x
      BY <3>1, <3>4, Noted
    <3>5. CASE <<v, u>> # <<w, x>>
      <4>1. v \in DOMAIN pcs'[u] => v \in DOMAIN pcs[u] /\ pcs'[u][v] = pcs[u][v]
        <5>1. 0 \in 0..conns
          BY <1>0
        <5> QED BY <1>4, <3>1, <3>5, <5>1
      <4>2. PICK z \in Word : Reply(w, x, i, <<z>>)
        <5>1. Signal("offer", conns + 1) \in Word
          BY <1>0, SignalWord
        <5> QED BY <3>1, <5>1
      <4> QED BY <1>9, <3>1, <3>5, <4>1, <4>2
    <3> QED BY <3>4, <3>5
  <2>3. CASE ~(place[x] = "in" /\ channel[x] = "in" /\ x < w)
    <3>1. Reply(w, x, i, <<>>) /\ UNCHANGED <<pcs, untold>>
      BY <2>1, <2>3 DEF OnPeerJoined
    <3>2. \A k \in {"leave", "answer"} : Has(net[v][u], k) => Has(net'[v][u], k)
      BY <1>3, <1>5, <3>1
    <3> QED BY <1>0, <3>1, <3>2, HauntedKept
  <2> QED BY <2>2, <2>3
<1>6. CASE y.kind = "offer"
  <2>1. OnOffer(w, x, i) /\ untold' = untold
    BY <1>6 DEF Deliver, OnOffer
  <2>2. y.id \in 1..conns
    BY <1>0, <1>6 DEF GroupInv, WordsOK
  <2>3. CASE place[x] = "in"
    <3>1. CreatePeerConnection(x, w, y.id) /\ Reply(w, x, i, <<Signal("answer", conns + 1)>>)
      BY <2>1, <2>3 DEF OnOffer
    <3>2. PICK z \in Word : Reply(w, x, i, <<z>>)
      <4>1. Signal("answer", conns + 1) \in Word
        BY <1>0, SignalWord
      <4> QED BY <3>1, <4>1
    <3>6. y.id \in 0..conns /\ y.id # 0
      BY <1>0, <2>2
    <3>7. /\ <<v, u>> # <<w, x>> /\ v \in DOMAIN pcs'[u]
                => v \in DOMAIN pcs[u] /\ pcs'[u][v] = pcs[u][v]
          /\ pcs'[x][w].remote # 0
      <4> HIDE DEF y
      <4>1. PICK remote \in 0..conns : remote # 0 /\ CreatePeerConnection(x, w, remote)
        BY <3>1, <3>6
      <4>2. /\ <<v, u>> # <<w, x>> /\ v \in DOMAIN pcs'[u]
                => v \in DOMAIN pcs[u] /\ pcs'[u][v] = pcs[u][v]
            /\ pcs'[x][w] = [id |-> conns + 1, remote |-> remote]
        BY <1>4, <4>1
      <4>3. pcs'[x][w].remote # 0
        BY <4>1, <4>2
      <4> QED BY <4>2, <4>3
    <3>4. CASE v = w /\ u = x
      BY <3>4, <3>7 DEF Haunted, Abandoned
    <3>5. CASE <<v, u>> # <<w, x>>
      BY <1>9, <2>1, <3>2, <3>5, <3>7
    <3> QED BY <3>4, <3>5
  <2>4. CASE place[x] # "in"
    <3>1. Reply(w, x, i, <<>>) /\ UNCHANGED <<pcs, untold>>
      BY <2>1, <2>4 DEF OnOffer
    <3>2. \A k \in {"leave", "answer"} : Has(net[v][u], k) => Has(net'[v][u], k)
      BY <1>3, <1>6, <3>1
    <3> QED BY <1>0, <3>1, <3>2, HauntedKept
  <2> QED BY <2>3, <2>4
<1>7. CASE y.kind = "answer"
  <2>1. OnAnswer(w, x, i) /\ UNCHANGED <<conns, untold>> /\ Reply(w, x, i, <<>>)
    BY <1>7 DEF Deliver, OnAnswer
  <2>3. CASE w \in DOMAIN pcs[x] /\ pcs[x][w].remote = 0
    <3>1. pcs' = [pcs EXCEPT ![x][w].remote = y.id]
      BY <2>1, <2>3 DEF OnAnswer
    <3>2. /\ \A a \in Member : a # x => pcs'[a] = pcs[a]
          /\ DOMAIN pcs'[x] = DOMAIN pcs[x]
          /\ pcs'[x][w] = [id |-> pcs[x][w].id, remote |-> y.id]
          /\ \A a \in DOMAIN pcs[x] : a # w => pcs'[x][a] = pcs[x][a]
      BY ZenonT(40), <1>0, <2>3, <3>1, AnswerLinks
    <3>3. y.id # 0
      BY <1>0, <1>7 DEF GroupInv, WordsOK
    <3>4. CASE v = w /\ u = x
      BY <3>2, <3>3, <3>4 DEF Haunted, Abandoned
    <3>5. CASE <<v, u>> # <<w, x>>
      <4>1. v \in DOMAIN pcs'[u] => v \in DOMAIN pcs[u] /\ pcs'[u][v] = pcs[u][v]
        BY <3>2, <3>5
      <4> QED BY <1>9, <2>1, <3>5, <4>1
    <3> QED BY <3>4, <3>5
  <2>4. CASE ~(w \in DOMAIN pcs[x] /\ pcs[x][w].remote = 0)
    <3>1. UNCHANGED pcs
      BY <2>1, <2>4 DEF OnAnswer
    <3>2. CASE v = w /\ u = x
      BY <2>4, <3>1, <3>2 DEF Haunted, Abandoned
    <3>3. CASE <<v, u>> # <<w, x>>
      BY <1>9, <2>1, <3>1, <3>3
    <3> QED BY <3>2, <3>3
  <2> QED BY <2>3, <2>4
<1>8. CASE y.kind = "leave"
  <2>1. /\ OnPeerLeft(w, x, i) /\ Reply(w, x, i, <<>>)
        /\ untold' = untold \ {<<w, x>>} \/ Note(w, x)
    BY <1>8 DEF Deliver, OnPeerLeft
  <2>2. CASE v = w /\ u = x
    <3>1. CASE channel[x] = "in"
      <4>1. w \notin DOMAIN pcs'[x]
        BY <1>0, <2>1, <3>1, CloseLinks DEF OnPeerLeft
      <4> QED BY <2>2, <4>1 DEF Haunted, Abandoned
    <3>2. CASE channel[x] # "in"
      BY <2>1, <2>2, <3>2, Noted DEF OnPeerLeft
    <3> QED BY <3>1, <3>2
  <2>3. CASE <<v, u>> # <<w, x>>
    <3>2. v \in DOMAIN pcs'[u] => v \in DOMAIN pcs[u] /\ pcs'[u][v] = pcs[u][v]
      <4>1. CASE channel[x] = "in"
        BY <1>0, <2>1, <4>1, CloseLinks DEF OnPeerLeft
      <4>2. CASE channel[x] # "in"
        BY <2>1, <4>2 DEF OnPeerLeft
      <4> QED BY <4>1, <4>2
    <3> QED BY <1>9, <2>1, <2>3, <3>2
  <2> QED BY <2>2, <2>3
<1> QED BY <1>2, <1>5, <1>6, <1>7, <1>8

LEMMA GhostStep ==
  ASSUME GroupInv, [GroupNext]_groupVars, \A a \in Member : \A b \in Peers(a) : Haunted(a, b)
  PROVE  \A a \in Member : \A b \in Peers(a) : Haunted(a, b)'
<1> SUFFICES ASSUME NEW u \in Member, NEW v \in Peers(u)
             PROVE  Haunted(u, v)'
  OBVIOUS
<1>1. CASE UNCHANGED groupVars
  BY <1>1 DEF groupVars, calls, Haunted, Abandoned
<1>2. CASE GroupNext
  <2>1. PICK w \in Member :
          \/ Open(w) \/ HandleJoinRoom(w) \/ JoinCall(w) \/ JoinFails(w)
          \/ OrphanJoins(w) \/ LeaveCall(w) \/ CloseTab(w) \/ Reconnect(w)
          \/ \E x \in Peers(w) : Failed(w, x) \/ \E i \in Due(w, x) : Deliver(w, x, i)
    BY <1>2 DEF GroupNext
  <2> QED BY <2>1, GhostLocal, GhostDeliver
<1> QED BY <1>1, <1>2

LEMMA SilentReply ==
  ASSUME GroupInv, NEW u \in Member, NEW v \in Peers(u), NEW i \in DOMAIN net[u][v],
         Reply(u, v, i, <<>>)
  PROVE  /\ net'[u][v] = Without(net[u][v], i)
         /\ net'[v][u] = net[v][u]
<1>1. net[v][u] \in Seq(Word)
  BY DEF Peers, GroupInv, Net
<1>2. net[v][u] \o <<>> = net[v][u]
  BY <1>1, ConcatEmptySeq
<1>3. net'[u][v] = Without(net[u][v], i) /\ net'[v][u] = net[v][u] \o <<>>
  BY <1>1, <1>2, ReplyNet
<1> QED BY <1>2, <1>3

LEMMA WordReply ==
  ASSUME GroupInv, NEW u \in Member, NEW v \in Peers(u), NEW i \in DOMAIN net[u][v],
         NEW x \in Word, Reply(u, v, i, <<x>>)
  PROVE  /\ net'[u][v] = Without(net[u][v], i)
         /\ \A k : Has(net'[v][u], k) <=> Has(net[v][u], k) \/ x.kind = k
         /\ ~Has(net[v][u], x.kind) => Lone(net'[v][u], x)
<1>1. net[v][u] \in Seq(Word)
  BY DEF Peers, GroupInv, Net
<1>2. net[v][u] \o <<x>> \in Seq(Word)
  BY <1>1, OneSignalMore
<1> DEFINE s == <<x>>
<1>3. Reply(u, v, i, s) /\ net[v][u] \o s \in Seq(Word)
  BY <1>2
<1> HIDE DEF s
<1>4. net'[u][v] = Without(net[u][v], i) /\ net'[v][u] = net[v][u] \o s
  BY <1>3, ReplyNet
<1> QED BY <1>1, <1>4, MoreSignals DEF s

\* It goes on if the connections of the two stay and no more than a join or
\* some other's farewell comes between.
LEMMA MeetingKept ==
  ASSUME NEW u \in Member, NEW v \in Member, Meeting(u, v),
         pcs'[u] = pcs[u], pcs'[v] = pcs[v],
         \A k : Has(net[v][u], k) => Has(net'[v][u], k),
         ~Has(net[v][u], "answer") => ~Has(net'[v][u], "answer"),
         \A y : Lone(net[v][u], y) /\ y.kind = "answer" => Lone(net'[v][u], y),
         ~Has(net[u][v], "offer") => ~Has(net'[u][v], "offer"),
         ~Has(net[u][v], "leave") => ~Has(net'[u][v], "leave"),
         \A y : Lone(net[u][v], y) /\ y.kind = "offer" => Lone(net'[u][v], y)
  PROVE  Meeting(u, v)'
<1>1. \A id : /\ Signal("offer", id).kind = "offer"
              /\ Signal("answer", id).kind = "answer"
  BY DEF Signal
<1>2. Has(net[v][u], "join") \/ Has(net[v][u], "leave") => Meeting(u, v)'
  BY DEF Meeting
<1>3. Offered(u, v) => Offered(u, v)'
  BY <1>1 DEF Offered
<1>4. Replied(u, v) => Replied(u, v)'
  BY <1>1 DEF Replied
<1>5. Met(u, v) => Met(u, v)'
  BY DEF Met, Match
<1> QED BY <1>2, <1>3, <1>4, <1>5 DEF Meeting

LEMMA MeetLocal ==
  ASSUME GroupInv, MeetInv, NEW w \in Member,
         \/ Open(w) \/ HandleJoinRoom(w) \/ JoinCall(w) \/ JoinFails(w)
         \/ OrphanJoins(w) \/ LeaveCall(w) \/ CloseTab(w) \/ Reconnect(w),
         NEW u \in Member, NEW v \in heard'[u], place'[v] = "in", <<u, v>> \notin raced'
  PROVE  Meeting(u, v)'
<1>0. heard \in [Member -> SUBSET Member] /\ \A a \in Member : \A b \in heard[a] : a < b
  BY DEF GroupInv, HeardOK
<1>1. /\ v \in heard[u] /\ raced' = raced /\ (LeaveCall(w) => u # w)
      /\ CloseTab(w) \/ Reconnect(w) => u # w /\ v # w
  BY <1>0 DEF Open, HandleJoinRoom, JoinFails, JoinCall, OrphanJoins, LeaveCall, CloseTab,
              Reconnect, GroupInv, PlacesOK
<1>2. v \in Member /\ u < v /\ u # v /\ v \in Peers(u) /\ u \in Peers(v) /\ <<u, v>> \notin raced
  BY <1>0, <1>1, MemberInts DEF Peers
<1>3. net[u][v] \in Seq(Word) /\ net[v][u] \in Seq(Word)
  BY <1>2 DEF GroupInv, Net
<1>4. place[v] = "in" => Meeting(u, v)
  BY <1>1, <1>2 DEF MeetInv
<1>5. CASE Open(w) \/ HandleJoinRoom(w) \/ JoinFails(w)
  <2>1. UNCHANGED <<pcs, net>>
    BY <1>5 DEF Open, HandleJoinRoom, JoinFails
  <2>2. place[v] = "in"
    BY <1>2, <1>5 DEF Open, HandleJoinRoom, JoinFails, GroupInv, PlacesOK
  <2> QED BY <1>2, <1>4, <2>1, <2>2, MeetingKept
<1>6. ASSUME NEW kind \in {"join", "leave"}, ToOthers(w, kind), v = w
      PROVE  Meeting(u, v)'
  <2>1. Has(net'[v][u], kind)
    BY <1>2, <1>6, ToOthersHas
  <2> QED BY <2>1 DEF Meeting
<1>7. CASE JoinCall(w) \/ OrphanJoins(w)
  <2>1. UNCHANGED <<pcs, channel>> /\ ToOthers(w, "join")
    BY <1>7 DEF JoinCall, OrphanJoins
  <2>2. CASE v # w
    <3>1. place[v] = "in"
      BY <1>2, <1>7, <2>2 DEF JoinCall, OrphanJoins, GroupInv, PlacesOK
    <3>2. net'[v][u] = net[v][u]
      BY <1>2, <2>1, <2>2, ToOthersNet
    <3>3. CASE u # w
      <4>1. net'[u][v] = net[u][v]
        BY <1>2, <2>1, <3>3, ToOthersNet
      <4> QED BY <1>2, <1>4, <2>1, <3>1, <3>2, <4>1, MeetingKept
    <3>4. CASE u = w
      <4>1. net'[u][v] = Append(net[u][v], Signal("join", 0))
        BY <1>2, <2>1, <3>4, ToOthersNet
      <4>2. Signal("join", 0) \in Word /\ Signal("join", 0).kind = "join"
        BY SignalWord
      <4> DEFINE x == Signal("join", 0)
      <4> HIDE DEF x
      <4>6. x \in Word /\ x.kind = "join" /\ net'[u][v] = Append(net[u][v], x)
        BY <4>1, <4>2 DEF x
      <4>3. /\ \A k : Has(net'[u][v], k) <=> Has(net[u][v], k) \/ x.kind = k
            /\ \A y : Lone(net[u][v], y) /\ x.kind \notin {y.kind, "leave"} => Lone(net'[u][v], y)
        BY <1>3, <4>6, MoreSignals
      <4>4. \A y : Lone(net[u][v], y) /\ y.kind = "offer" => Lone(net'[u][v], y)
        BY <4>3, <4>6
      <4>5. \A k \in {"offer", "leave"} : ~Has(net[u][v], k) => ~Has(net'[u][v], k)
        BY <4>3, <4>6
      <4> QED BY <1>2, <1>4, <2>1, <3>1, <3>2, <4>4, <4>5, MeetingKept
    <3> QED BY <3>3, <3>4
  <2> QED BY <1>6, <2>1, <2>2
<1>8. CASE LeaveCall(w)
  <2>1. ToOthers(w, "leave") /\ u # w
    BY <1>1, <1>8 DEF LeaveCall
  <2>2. CASE v # w
    <3>1. place[v] = "in" /\ pcs'[u] = pcs[u] /\ pcs'[v] = pcs[v]
      BY <1>2, <1>8, <2>1, <2>2 DEF LeaveCall, GroupInv, PlacesOK, LinksOK
    <3>2. net'[v][u] = net[v][u] /\ net'[u][v] = net[u][v]
      BY <1>2, <2>1, <2>2, ToOthersNet
    <3> QED BY <1>2, <1>4, <3>1, <3>2, MeetingKept
  <2> QED BY <1>6, <2>1, <2>2
<1>9. CASE CloseTab(w) \/ Reconnect(w)
  <2>1. net'[v][u] = net[v][u] /\ net'[u][v] = net[u][v]
    BY <1>1, <1>2, <1>9, ClosedNet, ReconnectNet
  <2>2. place[v] = "in" /\ pcs'[u] = pcs[u] /\ pcs'[v] = pcs[v]
    BY <1>1, <1>2, <1>9 DEF CloseTab, Reconnect, GroupInv, PlacesOK, LinksOK
  <2> QED BY <1>2, <1>4, <2>1, <2>2, MeetingKept
<1> QED BY <1>5, <1>7, <1>8, <1>9

LEMMA MeetFailed ==
  ASSUME GroupInv, MeetInv, NEW w \in Member, NEW x \in Peers(w), Failed(w, x),
         NEW u \in Member, NEW v \in heard'[u], place'[v] = "in", <<u, v>> \notin raced'
  PROVE  Meeting(u, v)'
<1>0. heard \in [Member -> SUBSET Member] /\ \A a \in Member : \A b \in heard[a] : a < b
  BY DEF GroupInv, HeardOK
<1>1. v \in heard[u] /\ UNCHANGED <<raced, place, net>> /\ Dead(w, x) /\ ClosePeerConnection(w, x)
  BY DEF Failed
<1>2. v \in Member /\ u # v /\ Meeting(u, v)
  BY <1>0, <1>1, MemberInts DEF MeetInv
<1>3. /\ \A a \in Member : a # w => pcs'[a] = pcs[a]
      /\ DOMAIN pcs'[w] = DOMAIN pcs[w] \ {x}
      /\ \A y \in DOMAIN pcs'[w] : pcs'[w][y] = pcs[w][y]
  BY <1>1, CloseLinks
<1>4. Has(net[v][u], "join") \/ Has(net[v][u], "leave") => Meeting(u, v)'
  BY <1>1 DEF Meeting
<1>5. ASSUME ~Dead(u, v)
      PROVE  v \in DOMAIN pcs[u] => v \in DOMAIN pcs'[u] /\ pcs'[u][v] = pcs[u][v]
  BY <1>1, <1>3, <1>5
<1>6. ASSUME ~Dead(v, u)
      PROVE  u \in DOMAIN pcs[v] => u \in DOMAIN pcs'[v] /\ pcs'[v][u] = pcs[v][u]
  BY <1>1, <1>2, <1>3, <1>6
<1>7. ASSUME Offered(u, v) PROVE Offered(u, v)'
  <2>1. ~Dead(u, v)
    BY <1>7 DEF Offered, Dead
  <2> QED BY <1>1, <1>5, <1>7, <2>1 DEF Offered
<1>8. ASSUME Replied(u, v) PROVE Replied(u, v)'
  <2>1. ~Dead(u, v) /\ ~Dead(v, u)
    BY <1>8 DEF Replied, Dead
  <2> QED BY <1>1, <1>5, <1>6, <1>8, <2>1 DEF Replied
<1>9. ASSUME Met(u, v) PROVE Met(u, v)'
  <2>1. ~Dead(u, v) /\ ~Dead(v, u)
    BY <1>9 DEF Met, Match, Dead
  <2> QED BY <1>1, <1>5, <1>6, <1>9, <2>1 DEF Met, Match
<1> QED BY <1>2, <1>4, <1>7, <1>8, <1>9 DEF Meeting

\* A signal of the one who was heard.
LEMMA MeetAnswer ==
  ASSUME GroupInv, MeetInv, NEW u \in Member, NEW v \in Peers(u), u < v,
         NEW i \in Due(v, u), Deliver(v, u, i),
         v \in heard'[u], place'[v] = "in", <<u, v>> \notin raced'
  PROVE  Meeting(u, v)'
<1>0. /\ v \in Member /\ v # u /\ u \in Peers(v) /\ i \in DOMAIN net[v][u]
      /\ net[u][v] \in Seq(Word) /\ net[v][u] \in Seq(Word)
      /\ UNCHANGED <<place, channel, orphans, sessions>>
  BY DEF Peers, Due, GroupInv, Net, Deliver
<1> DEFINE y == net[v][u][i]
<1>1. y \in Word /\ y.kind \in {"join", "offer", "answer", "leave"}
  <2>1. y \in Word
    BY <1>0
  <2> QED BY <2>1 DEF Word
<1>2. conns \in Nat /\ u \in Nat /\ v \in Nat
  BY <1>0, MemberInts, GroupCallsAssumption DEF GroupInv
<1>3. ASSUME v \in heard[u], <<u, v>> \notin raced
      PROVE  Meeting(u, v)
  BY <1>0, <1>3 DEF MeetInv
<1>4. CASE y.kind = "join"
  <2>1. OnPeerJoined(v, u, i)
    BY <1>4 DEF Deliver
  <2>2. CASE place[u] = "in" /\ channel[u] = "in" /\ u < v
    <3>1. /\ CreatePeerConnection(u, v, 0) /\ Reply(v, u, i, <<Signal("offer", conns + 1)>>)
          /\ ~InProgress(u, v)
      BY <2>1, <2>2 DEF OnPeerJoined
    <3>2. pcs'[u][v] = [id |-> conns + 1, remote |-> 0] /\ v \in DOMAIN pcs'[u]
      <4>1. PICK remote \in 0..conns : remote = 0 /\ CreatePeerConnection(u, v, remote)
        BY <1>2, <3>1
      <4>2. /\ DOMAIN pcs'[u] = DOMAIN pcs[u] \cup {v}
            /\ pcs'[u][v] = [id |-> conns + 1, remote |-> remote]
        BY <1>0, <4>1, CreateLinks
      <4> QED BY <4>1, <4>2
    <3>3. PICK x \in Word : x = Signal("offer", conns + 1) /\ x.kind = "offer"
      <4>1. conns + 1 \in Nat
        BY <1>2
      <4> QED BY <4>1, SignalWord
    <3>4. /\ net'[v][u] = Without(net[v][u], i)
          /\ ~Has(net[u][v], "offer") => Lone(net'[u][v], x)
      BY <1>0, <3>1, <3>3, WordReply
    <3>5. Lone(net'[u][v], Signal("offer", conns + 1))
      BY <3>1, <3>3, <3>4 DEF InProgress
    <3>6. ~Has(net'[v][u], "answer")
      BY <1>0, <3>1, <3>4, FewerSignals DEF InProgress
    <3> QED BY <3>2, <3>5, <3>6 DEF Meeting, Offered
  <2>3. CASE ~(place[u] = "in" /\ channel[u] = "in" /\ u < v)
    <3>1. heard' = heard
      BY <2>1, <2>3 DEF OnPeerJoined
    <3> QED BY <2>3, <3>1 DEF GroupInv, HeardOK
  <2> QED BY <2>2, <2>3
<1>5. CASE y.kind = "offer"
  BY <1>0, <1>2, <1>5 DEF GroupInv, WordsOK
<1>6. CASE y.kind = "leave"
  <2>1. OnPeerLeft(v, u, i)
    BY <1>6 DEF Deliver
  <2>2. heard \in [Member -> SUBSET Member]
    BY DEF GroupInv, HeardOK
  <2>3. CASE channel[u] = "in"
    BY <2>1, <2>2, <2>3 DEF OnPeerLeft
  <2>4. CASE channel[u] # "in"
    <3>1. heard' = heard
      BY <2>1, <2>4 DEF OnPeerLeft
    <3> QED BY <2>4, <3>1 DEF GroupInv, HeardOK
  <2> QED BY <2>3, <2>4
<1>7. CASE y.kind = "answer"
  <2>1. OnAnswer(v, u, i) /\ UNCHANGED <<heard, raced>> /\ Reply(v, u, i, <<>>)
    BY <1>7 DEF Deliver, OnAnswer
  <2>2. Meeting(u, v)
    BY <1>3, <2>1
  <2>3. net'[v][u] = Without(net[v][u], i) /\ net'[u][v] = net[u][v]
    BY <1>0, <2>1, SilentReply
  <2>4. \A k : Has(net[v][u], k) /\ k # "answer" => Has(net'[v][u], k)
    BY <1>0, <1>7, <2>3, FewerSignals
  <2>5. Has(net[v][u], "join") \/ Has(net[v][u], "leave") => Meeting(u, v)'
    BY <2>4 DEF Meeting
  <2>6. Has(net[v][u], "answer")
    BY <1>0, <1>7 DEF Has
  <2>7. ASSUME Replied(u, v) PROVE Meeting(u, v)'
    <3>1. Lone(net[v][u], Signal("answer", pcs[v][u].id)) /\ Signal("answer", pcs[v][u].id).kind = "answer"
      BY <2>7 DEF Replied, Signal
    <3>2. y = Signal("answer", pcs[v][u].id) /\ ~Has(net'[v][u], "answer")
      BY <1>0, <1>7, <2>3, <3>1, FewerSignals
    <3>3. y.id = pcs[v][u].id
      BY <3>2 DEF Signal
    <3>4. v \in DOMAIN pcs[u] /\ pcs' = [pcs EXCEPT ![u][v].remote = y.id]
      BY <2>1, <2>7 DEF OnAnswer, Replied
    <3>5. /\ pcs'[v] = pcs[v] /\ v \in DOMAIN pcs'[u]
          /\ pcs'[u][v] = [id |-> pcs[u][v].id, remote |-> y.id]
      BY ZenonT(40), <1>0, <3>4, AnswerLinks
    <3>6. Match(u, v)'
      BY <2>7, <3>3, <3>5 DEF Match, Replied
    <3> QED BY <2>3, <2>7, <3>2, <3>6 DEF Meeting, Met, Replied
  <2> QED BY <2>2, <2>5, <2>6, <2>7 DEF Meeting, Offered, Met
<1> QED BY <1>1, <1>4, <1>5, <1>6, <1>7

\* A signal to the one who was heard.
LEMMA MeetOffer ==
  ASSUME GroupInv, MeetInv, NEW u \in Member, NEW v \in Peers(u), u < v,
         NEW i \in Due(u, v), Deliver(u, v, i),
         v \in heard'[u], place'[v] = "in", <<u, v>> \notin raced'
  PROVE  Meeting(u, v)'
<1>0. /\ v \in Member /\ v # u /\ u \in Peers(v) /\ i \in DOMAIN net[u][v]
      /\ net[u][v] \in Seq(Word) /\ net[v][u] \in Seq(Word)
      /\ UNCHANGED <<place, channel, orphans, sessions>>
      /\ First(net[u][v], i)
  BY DEF Peers, Due, GroupInv, Net, Deliver, First
<1> DEFINE y == net[u][v][i]
<1>1. y \in Word /\ y.kind \in {"join", "offer", "answer", "leave"}
  <2>1. y \in Word
    BY <1>0
  <2> QED BY <2>1 DEF Word
<1>2. conns \in Nat /\ u \in Nat /\ v \in Nat
  BY <1>0, MemberInts, GroupCallsAssumption DEF GroupInv
<1>3. /\ \A k : Has(Without(net[u][v], i), k) => Has(net[u][v], k)
      /\ \A z : Lone(net[u][v], z) /\ y.kind # z.kind => Lone(Without(net[u][v], i), z)
  BY <1>0, FewerSignals
<1>4. ASSUME Reply(u, v, i, <<>>)
      PROVE  net'[u][v] = Without(net[u][v], i) /\ net'[v][u] = net[v][u]
  BY <1>0, <1>4, SilentReply
<1>5. CASE y.kind = "join"
  <2>1. Reply(u, v, i, <<>>) /\ UNCHANGED <<pcs, heard, raced>>
    BY <1>2, <1>5 DEF Deliver, OnPeerJoined
  <2>2. Meeting(u, v)
    BY <1>0, <2>1 DEF MeetInv
  <2>3. net'[u][v] = Without(net[u][v], i) /\ net'[v][u] = net[v][u]
    BY <1>4, <2>1
  <2>4. \A z : Lone(net[u][v], z) /\ z.kind = "offer" => Lone(net'[u][v], z)
    BY <1>3, <1>5, <2>3
  <2> QED BY <1>0, <1>3, <2>1, <2>2, <2>3, <2>4, MeetingKept
<1>6. CASE y.kind = "answer"
  BY <1>0, <1>2, <1>6 DEF GroupInv, WordsOK
<1>7. CASE y.kind = "leave"
  <2>1. OnPeerLeft(u, v, i) /\ Reply(u, v, i, <<>>) /\ UNCHANGED raced
    BY <1>7 DEF Deliver, OnPeerLeft
  <2>2. v \in heard[u] /\ pcs'[u] = pcs[u]
    <3>1. CASE channel[v] = "in"
      <4>1. ClosePeerConnection(v, u) /\ heard' = [heard EXCEPT ![v] = @ \ {u}]
        BY <2>1, <3>1 DEF OnPeerLeft
      <4>2. pcs'[u] = pcs[u]
        BY <1>0, <4>1, CloseLinks
      <4>3. heard'[u] = heard[u]
        BY <1>0, <4>1 DEF GroupInv, HeardOK
      <4> QED BY <4>2, <4>3
    <3>2. CASE channel[v] # "in"
      BY <1>0, <2>1, <3>2 DEF OnPeerLeft
    <3> QED BY <3>1, <3>2
  <2>3. Meeting(u, v)
    BY <1>0, <2>1, <2>2 DEF MeetInv
  <2>4. net'[u][v] = Without(net[u][v], i) /\ net'[v][u] = net[v][u]
    BY <1>4, <2>1
  <2>5. Has(net[u][v], "leave")
    BY <1>0, <1>7 DEF Has
  <2>6. ASSUME Offered(u, v) PROVE Offered(u, v)'
    <3>1. Signal("offer", pcs[u][v].id).kind = "offer"
      BY DEF Signal
    <3> QED BY <1>3, <1>7, <2>2, <2>4, <2>6, <3>1 DEF Offered
  <2> QED BY <2>3, <2>4, <2>5, <2>6 DEF Meeting, Replied, Met
<1>8. CASE y.kind = "offer"
  <2>1. OnOffer(u, v, i) /\ UNCHANGED <<heard, raced>>
    BY <1>8 DEF Deliver, OnOffer
  <2>2. /\ CreatePeerConnection(v, u, y.id) /\ Reply(u, v, i, <<Signal("answer", conns + 1)>>)
    BY <1>0, <2>1 DEF OnOffer
  <2>3. Meeting(u, v)
    BY <1>0, <2>1 DEF MeetInv
  <2>4. PICK x \in Word : x = Signal("answer", conns + 1) /\ x.kind = "answer"
    <3>1. conns + 1 \in Nat
      BY <1>2
    <3> QED BY <3>1, SignalWord
  <2>5. /\ net'[u][v] = Without(net[u][v], i)
        /\ \A k : Has(net'[v][u], k) <=> Has(net[v][u], k) \/ x.kind = k
        /\ ~Has(net[v][u], x.kind) => Lone(net'[v][u], x)
    <3>1. Reply(u, v, i, <<x>>)
      BY <2>2, <2>4
    <3> QED BY <1>0, <3>1, WordReply
  <2>6. \A k : Has(net[v][u], k) => Has(net'[v][u], k)
    BY <2>5
  <2>7. Has(net[v][u], "join") \/ Has(net[v][u], "leave") => Meeting(u, v)'
    BY <2>6 DEF Meeting
  <2>8. Has(net[u][v], "offer")
    BY <1>0, <1>8 DEF Has
  <2>9. ASSUME Offered(u, v) PROVE Replied(u, v)'
    <3>1. PICK z : /\ z = Signal("offer", pcs[u][v].id) /\ z.kind = "offer"
                   /\ Lone(net[u][v], z)
      BY <2>9 DEF Offered, Signal
    <3>2. y = z /\ ~Has(net'[u][v], "offer") /\ ~Has(net'[u][v], "leave")
      BY <1>0, <1>8, <2>5, <3>1, FewerSignals
    <3>3. y.id = pcs[u][v].id
      BY <3>1, <3>2 DEF Signal
    <3>4. y.id \in 0..conns
      BY <1>0, <1>2, <1>8 DEF GroupInv, WordsOK
    <3>5. /\ pcs'[u] = pcs[u]
          /\ u \in DOMAIN pcs'[v] /\ pcs'[v][u] = [id |-> conns + 1, remote |-> y.id]
      <4> HIDE DEF y
      <4> QED BY <1>0, <2>2, <3>4, CreateLinks
    <3>6. Lone(net'[v][u], Signal("answer", conns + 1))
      BY <2>4, <2>5, <2>9 DEF Offered
    <3> QED BY <2>9, <3>2, <3>3, <3>5, <3>6 DEF Offered, Replied
  <2> QED BY <2>3, <2>7, <2>8, <2>9 DEF Meeting, Replied, Met
<1> QED BY <1>1, <1>5, <1>6, <1>7, <1>8

\* A signal between others.
LEMMA MeetOthers ==
  ASSUME GroupInv, MeetInv, NEW w \in Member, NEW x \in Peers(w),
         NEW i \in Due(w, x), Deliver(w, x, i),
         NEW u \in Member, NEW v \in heard'[u], place'[v] = "in", <<u, v>> \notin raced',
         <<w, x>> # <<u, v>>, <<w, x>> # <<v, u>>
  PROVE  Meeting(u, v)'
<1>0. /\ x \in Member /\ x # w /\ w \in Peers(x) /\ i \in DOMAIN net[w][x]
      /\ net[w][x] \in Seq(Word)
      /\ UNCHANGED place
  BY DEF Peers, Due, GroupInv, Net, Deliver
<1> DEFINE y == net[w][x][i]
<1>1. y \in Word /\ y.kind \in {"join", "offer", "answer", "leave"}
  <2>1. y \in Word
    BY <1>0
  <2> QED BY <2>1 DEF Word
<1>2. conns \in Nat
  BY GroupCallsAssumption DEF GroupInv
<1>3. /\ \E s : (s = <<>> \/ \E z \in Word : s = <<z>>) /\ Reply(w, x, i, s)
      /\ \/ pcs' = pcs
         \/ \E remote \in 0..conns : CreatePeerConnection(x, w, remote)
         \/ ClosePeerConnection(x, w)
         \/ w \in DOMAIN pcs[x] /\ pcs' = [pcs EXCEPT ![x][w].remote = y.id]
      /\ heard' \in {heard, [heard EXCEPT ![x] = @ \cup {w}], [heard EXCEPT ![x] = @ \ {w}]}
      /\ raced \subseteq raced'
  <2>1. Signal("offer", conns + 1) \in Word /\ Signal("answer", conns + 1) \in Word
    BY <1>2, SignalWord
  <2>2. CASE y.kind = "join"
    <3>1. 0 \in 0..conns
      BY <1>2
    <3>2. OnPeerJoined(w, x, i)
      BY <2>2 DEF Deliver
    <3> QED BY <2>1, <3>1, <3>2 DEF OnPeerJoined
  <2>3. CASE y.kind = "offer"
    <3>1. y.id \in 0..conns
      BY <1>0, <1>2, <2>3 DEF GroupInv, WordsOK
    <3>2. OnOffer(w, x, i)
      BY <2>3 DEF Deliver
    <3> QED BY <2>1, <3>1, <3>2 DEF OnOffer
  <2>4. CASE y.kind = "answer"
    BY <2>4 DEF Deliver, OnAnswer
  <2>5. CASE y.kind = "leave"
    BY <2>5 DEF Deliver, OnPeerLeft
  <2> QED BY <1>1, <2>2, <2>3, <2>4, <2>5
<1>4. heard \in [Member -> SUBSET Member] /\ \A a \in Member : \A b \in heard[a] : a < b
  BY DEF GroupInv, HeardOK
<1>5. v \in heard[u]
  BY <1>0, <1>3, <1>4
<1>6. v \in Member /\ u # v /\ Meeting(u, v)
  BY <1>0, <1>3, <1>4, <1>5, MemberInts DEF MeetInv
<1>7. net'[u][v] = net[u][v] /\ net'[v][u] = net[v][u]
  <2>1. PICK s : (s = <<>> \/ \E z \in Word : s = <<z>>) /\ Reply(w, x, i, s)
    BY <1>3
  <2>2. net[x][w] \in Seq(Word)
    BY <1>0 DEF GroupInv, Net
  <2>3. net[x][w] \o s \in Seq(Word)
    BY <2>1, <2>2, MoreWords
  <2>4. \A a, b \in Member : <<a, b>> # <<w, x>> /\ <<a, b>> # <<x, w>>
           => net'[a][b] = net[a][b]
    BY <1>0, <2>1, <2>3, ReplyNet
  <2> QED BY <1>0, <1>6, <2>4
<1>8. \A a, b \in Member : <<a, b>> # <<x, w>> =>
        /\ b \in DOMAIN pcs'[a] <=> b \in DOMAIN pcs[a]
        /\ b \in DOMAIN pcs[a] => pcs'[a][b] = pcs[a][b]
  <2>1. CASE \E remote \in 0..conns : CreatePeerConnection(x, w, remote)
    <3>1. PICK remote \in 0..conns : CreatePeerConnection(x, w, remote)
      BY <2>1
    <3>2. /\ DOMAIN pcs' = Member
          /\ \A a \in Member : a # x => pcs'[a] = pcs[a]
          /\ DOMAIN pcs'[x] = DOMAIN pcs[x] \cup {w}
          /\ \A b \in DOMAIN pcs[x] : b # w => pcs'[x][b] = pcs[x][b]
      BY <1>0, <3>1, CreateLinks
    <3> QED BY <3>2
  <2>2. CASE ClosePeerConnection(x, w)
    BY <1>0, <2>2, CloseLinks
  <2>3. CASE w \in DOMAIN pcs[x] /\ pcs' = [pcs EXCEPT ![x][w].remote = y.id]
    BY <1>0, <2>3, AnswerLinks
  <2> QED BY <1>3, <2>1, <2>2, <2>3
<1>9. /\ v \in DOMAIN pcs'[u] <=> v \in DOMAIN pcs[u]
      /\ v \in DOMAIN pcs[u] => pcs'[u][v] = pcs[u][v]
      /\ u \in DOMAIN pcs'[v] <=> u \in DOMAIN pcs[v]
      /\ u \in DOMAIN pcs[v] => pcs'[v][u] = pcs[v][u]
  BY <1>6, <1>8
<1>10. Offered(u, v) => Offered(u, v)'
  BY <1>7, <1>9 DEF Offered
<1>11. Replied(u, v) => Replied(u, v)'
  BY <1>7, <1>9 DEF Replied
<1>12. Met(u, v) => Met(u, v)'
  BY <1>7, <1>9 DEF Met, Match
<1> QED BY <1>6, <1>7, <1>10, <1>11, <1>12 DEF Meeting

LEMMA MeetStep ==
  ASSUME GroupInv, MeetInv, [GroupNext]_groupVars
  PROVE  MeetInv'
<1> SUFFICES ASSUME NEW u \in Member, NEW v \in heard'[u], place'[v] = "in", <<u, v>> \notin raced'
             PROVE  Meeting(u, v)'
  BY DEF MeetInv
<1>1. CASE UNCHANGED groupVars
  BY <1>1 DEF groupVars, calls, MeetInv, Meeting, Offered, Replied, Met, Match
<1>2. CASE GroupNext
  <2>1. PICK w \in Member :
          \/ Open(w) \/ HandleJoinRoom(w) \/ JoinCall(w) \/ JoinFails(w)
          \/ OrphanJoins(w) \/ LeaveCall(w) \/ CloseTab(w) \/ Reconnect(w)
          \/ \E x \in Peers(w) : Failed(w, x) \/ \E i \in Due(w, x) : Deliver(w, x, i)
    BY <1>2 DEF GroupNext
  <2>2. ASSUME NEW x \in Peers(w), NEW i \in Due(w, x), Deliver(w, x, i)
        PROVE  Meeting(u, v)'
    <3>1. HeardOK'
      BY <2>2, DeliverInv DEF GroupInv
    <3>2. v \in Member /\ u < v
      BY <3>1 DEF HeardOK
    <3>3. v \in Peers(u)
      BY <3>2, MemberInts DEF Peers
    <3>4. CASE w = v /\ x = u
      BY <2>2, <3>2, <3>3, <3>4, MeetAnswer
    <3>5. CASE w = u /\ x = v
      BY <2>2, <3>2, <3>3, <3>5, MeetOffer
    <3>6. CASE <<w, x>> # <<u, v>> /\ <<w, x>> # <<v, u>>
      BY <2>2, <3>6, MeetOthers
    <3> QED BY <3>4, <3>5, <3>6
  <2> QED BY <2>1, <2>2, MeetLocal, MeetFailed
<1> QED BY <1>1, <1>2

\* The two together.
Haunting == \A a \in Member : \A b \in Peers(a) : Haunted(a, b)

LEMMA CallsInit == GroupInit => GroupInv /\ MeetInv /\ Haunting
  BY GroupInvInit DEF GroupInit, MeetInv, Haunting, Haunted, Abandoned, NoConns

LEMMA CallsStep ==
  GroupInv /\ MeetInv /\ Haunting /\ [GroupNext]_groupVars
    => GroupInv' /\ MeetInv' /\ Haunting'
  BY GroupInvStep, MeetStep, GhostStep DEF Haunting

\* What the page, its hook and the gateway keep true of a group call: the
\* invariant that the three theorems below rest on.
THEOREM GroupSpecInv == GroupSpec => [](GroupInv /\ MeetInv /\ Haunting)
  BY CallsInit, CallsStep, PTL DEF GroupSpec

\* A member has connections to others only, with ids that were given, and
\* none while his page is not in the call (leaveCall closes them all).
THEOREM GroupTypeCorrect == GroupSpec => []GroupTypeOK
  BY GroupSpecInv, GroupInvType, PTL

\* Nothing is left of what the gateway had.
LEMMA NothingDue ==
  ASSUME Delivered
  PROVE  \A u, v \in Member : \A k : ~Has(net[u][v], k) /\ \A y : ~Lone(net[u][v], y)
<1> SUFFICES ASSUME NEW u \in Member, NEW v \in Member
             PROVE  \A k : ~Has(net[u][v], k) /\ \A y : ~Lone(net[u][v], y)
  OBVIOUS
<1>1. net[u][v] = <<>> /\ DOMAIN <<>> = {}
  BY DEF Delivered
<1> QED BY <1>1 DEF Has, Lone

\* Whoever heard somebody with a larger id join is connected with him when
\* no signal is under way, for any number of members, joins and farewells,
\* and however the gateway delays gcall:join (onPeerJoined, onOffer, onAnswer).
THEOREM WhoHearsMeetsHolds == GroupSpec => []WhoHearsMeets
<1>1. ASSUME GroupInv, MeetInv PROVE WhoHearsMeets
  <2> SUFFICES ASSUME Delivered, NEW u \in Member, NEW v \in Member,
                      place[v] = "in", v \in heard[u], <<u, v>> \notin raced
               PROVE  Match(u, v)
    BY DEF WhoHearsMeets
  <2>1. Meeting(u, v)
    BY <1>1 DEF MeetInv
  <2>2. /\ \A k : ~Has(net[u][v], k) /\ ~Has(net[v][u], k)
        /\ \A y : ~Lone(net[u][v], y) /\ ~Lone(net[v][u], y)
    BY NothingDue
  <2> QED BY <2>1, <2>2 DEF Meeting, Offered, Replied, Met
<1> QED BY <1>1, GroupSpecInv, PTL

\* No tile stays of somebody who left the call, when nothing is under way and
\* lost connections have failed; except of one whose leaving could not be heard
\* and who had not answered (onPeerLeft, onconnectionstatechange).
THEOREM NoGhostsHolds == GroupSpec => []NoGhosts
<1>1. ASSUME GroupInv, Haunting PROVE NoGhosts
  <2> SUFFICES ASSUME Delivered, NEW u \in Member, NEW v \in DOMAIN pcs[u],
                      ~Dead(u, v), <<v, u>> \notin untold
               PROVE  place[v] = "in"
    BY DEF NoGhosts
  <2>1. v \in Peers(u) /\ v \in Member
    BY <1>1 DEF GroupInv, LinksOK, Peers
  <2>2. Haunted(u, v)
    BY <1>1, <2>1 DEF Haunting
  <2>3. \A k : ~Has(net[v][u], k)
    BY <2>1, NothingDue
  <2>4. CASE pcs[u][v].remote = 0
    BY <2>2, <2>3, <2>4 DEF Haunted, Abandoned
  <2>5. CASE pcs[u][v].remote # 0
    <3>1. u \in DOMAIN pcs[v]
      BY <2>5 DEF Dead
    <3> QED BY <1>1, <2>1, <3>1 DEF GroupInv, LinksOK, NoConns
  <2> QED BY <2>4, <2>5
<1> QED BY <1>1, GroupSpecInv, PTL
=============================================================================
