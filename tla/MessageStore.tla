---------------------------- MODULE MessageStore ----------------------------
(***************************************************************************)
(* What MessagesService and ReactionsService promise of the tables Message *)
(* and MessageReaction: every request takes effect at once or not at all.  *)
(* Ids are handed out in order, as cuids are; a row is never written under *)
(* an id again once it is deleted.  Messages.tla shows that the services,  *)
(* which read and write in separate queries, implement this.               *)
(***************************************************************************)
EXTENDS Integers, FiniteSets

CONSTANTS
  Person,      \* the accounts
  Emoji,     \* what one may react with
  MaxMsgs,   \* bound of the model: messages ever sent
  MaxEdits   \* bound of the model: edits of one message

ASSUME StoreAssumption ==
  IsFiniteSet(Person) /\ MaxMsgs \in Nat /\ MaxEdits \in Nat

VARIABLES
  msg,     \* the rows of Message: a function of the ids that exist
  lastId,  \* ids handed out so far
  reacts   \* the rows of MessageReaction: message, user and emoji

store == <<msg, lastId, reacts>>

Id == 1..MaxMsgs

\* text counts the edits; reply is replyToId, 0 for null; read is readAt # null
Row == [from : Person, to : Person, text : 0..MaxEdits, reply : 0..MaxMsgs, read : BOOLEAN]

Live == DOMAIN msg
Party(m) == {msg[m].from, msg[m].to}
Between(u, v) == {m \in Live : Party(m) = {u, v}}

StoreTypeOK ==
  /\ lastId \in 0..MaxMsgs
  /\ Live \subseteq 1..lastId
  /\ msg \in [Live -> Row]
  /\ \A m \in Live : msg[m].reply # 0 => msg[m].reply \in Between(msg[m].from, msg[m].to)
  /\ \A r \in reacts : r[1] \in Live /\ r[2] \in Party(r[1])

StoreInit == msg = <<>> /\ lastId = 0 /\ reacts = {}

\* message.create; the foreign key refuses a reply to a deleted row
Post(u, v, reply) ==
  /\ lastId < MaxMsgs
  /\ reply = 0 \/ reply \in Between(u, v)
  /\ lastId' = lastId + 1
  /\ msg' = [m \in Live \cup {lastId + 1} |->
               IF m \in Live THEN msg[m]
               ELSE [from |-> u, to |-> v, text |-> 0, reply |-> reply, read |-> FALSE]]
  /\ UNCHANGED reacts

MarkRead(m) ==
  /\ m \in Live
  /\ msg' = [msg EXCEPT ![m].read = TRUE]
  /\ UNCHANGED <<lastId, reacts>>

Edit(m) ==
  /\ m \in Live /\ msg[m].text < MaxEdits
  /\ msg' = [msg EXCEPT ![m].text = @ + 1]
  /\ UNCHANGED <<lastId, reacts>>

\* message.delete: reactions go with it (onDelete: Cascade), replies stay (SetNull)
Delete(m) ==
  /\ m \in Live
  /\ msg' = [n \in Live \ {m} |->
               IF msg[n].reply = m THEN [msg[n] EXCEPT !.reply = 0] ELSE msg[n]]
  /\ reacts' = {r \in reacts : r[1] # m}
  /\ UNCHANGED lastId

React(m, u, e) ==
  /\ m \in Live /\ u \in Party(m) /\ <<m, u, e>> \notin reacts
  /\ reacts' = reacts \cup {<<m, u, e>>}
  /\ UNCHANGED <<msg, lastId>>

Unreact(m, u, e) ==
  /\ <<m, u, e>> \in reacts
  /\ reacts' = reacts \ {<<m, u, e>>}
  /\ UNCHANGED <<msg, lastId>>

StoreNext ==
  \/ \E u, v \in Person, r \in 0..MaxMsgs : u # v /\ Post(u, v, r)
  \/ \E m \in Live :
       \/ MarkRead(m) \/ Edit(m) \/ Delete(m)
       \/ \E u \in Person, e \in Emoji : React(m, u, e) \/ Unreact(m, u, e)

StoreSpec == StoreInit /\ [][StoreNext]_store
=============================================================================
