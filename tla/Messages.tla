------------------------------ MODULE Messages ------------------------------
(***************************************************************************)
(* Direct messages and their reactions: MessagesService and                *)
(* ReactionsService.  A handler is one HTTP request being served, an       *)
(* action is one query; an exception ends the handler.  Contacts come and  *)
(* go meanwhile (Contacts.tla).                                            *)
(***************************************************************************)
EXTENDS Integers, FiniteSets

CONSTANTS
  User,          \* the accounts
  Handler,       \* the requests being served at one time
  None,          \* no user
  Emoji,         \* what one may react with
  Pairs,         \* the pairs of users who may become contacts
  MaxReactions,  \* the limit of reactions on a message (20)
  MaxMsgs,       \* bound of the model: messages ever sent
  MaxEdits,      \* bound of the model: edits of one message
  MaxToggles,    \* bound of the model: reactions ever created
  Worked,        \* bound of the model: the messages read, edited and reacted to
  MaxChanges     \* bound of the model: contacts removed and messages aged

ASSUME MessagesAssumption ==
  /\ IsFiniteSet(User) /\ None \notin User
  /\ IsFiniteSet(Handler) /\ Handler # {}
  /\ Pairs \subseteq {pr \in SUBSET User : Cardinality(pr) = 2}
  /\ {MaxReactions, MaxMsgs, MaxEdits, MaxToggles, MaxChanges} \subseteq Nat

VARIABLES
  msg,      \* the rows of Message: a function of the ids that exist
  lastId,   \* message ids handed out so far
  key,      \* the rows of MessageReaction: <<message, user, emoji>> to row id
  lastKey,  \* reaction ids handed out so far
  contact,  \* the pairs that are contacts
  old,      \* the messages sent more than 24 hours ago
  pc,       \* the query each handler runs next
  who,      \* the user it serves
  arg,      \* the message it works on, or the recipient
  opt,      \* the message replied to, the emoji, or the reaction found
  changes,  \* history: how often contacts were removed and messages aged
  late      \* history: the messages sent since the contact was removed

tables == <<msg, lastId, key, lastKey>>
locals == <<pc, who, arg, opt>>
vars == <<tables, contact, old, locals, changes, late>>

Live == DOMAIN msg
Party(m) == {msg[m].from, msg[m].to}
Between(u, v) == {m \in Live : Party(m) = {u, v}}
ReactionsOn(m) == {r \in DOMAIN key : r[1] = m}

Row == [from : User, to : User, text : 0..MaxEdits, reply : 0..MaxMsgs, read : BOOLEAN]
Reaction == (1..MaxMsgs) \X User \X Emoji
Step == {"idle", "findReply", "create", "update", "setRead", "delete",
         "findReaction", "count", "react", "unreact"}
OnMessage == Step \ {"idle", "findReply", "create"}

TypeOK ==
  /\ lastId \in 0..MaxMsgs /\ lastKey \in 0..MaxToggles
  /\ Live \subseteq 1..lastId /\ msg \in [Live -> Row]
  /\ DOMAIN key \subseteq Reaction /\ key \in [DOMAIN key -> 1..lastKey]
  /\ \A r \in DOMAIN key : r[1] \in Live /\ r[2] \in Party(r[1])
  /\ contact \subseteq Pairs /\ old \subseteq 1..lastId
  /\ pc \in [Handler -> Step]
  /\ \A p \in Handler : pc[p] # "idle" => who[p] \in User
  /\ \A p \in Handler : pc[p] \in OnMessage => arg[p] \in 1..lastId
  /\ \A p \in Handler : pc[p] = "create" => {who[p], arg[p]} \in Pairs

Init ==
  /\ msg = <<>> /\ lastId = 0 /\ key = <<>> /\ lastKey = 0
  /\ contact = Pairs /\ old = {}
  /\ pc = [p \in Handler |-> "idle"]
  /\ who = [p \in Handler |-> None]
  /\ arg = [p \in Handler |-> None]
  /\ opt = [p \in Handler |-> None]
  /\ changes = 0
  /\ late = [pr \in Pairs |-> 0]

Begin(p, u, a, o, step) ==
  /\ pc[p] = "idle"
  /\ pc' = [pc EXCEPT ![p] = step]
  /\ who' = [who EXCEPT ![p] = u]
  /\ arg' = [arg EXCEPT ![p] = a]
  /\ opt' = [opt EXCEPT ![p] = o]
  /\ UNCHANGED <<tables, contact, old, changes, late>>

Goto(p, step, o) ==
  /\ pc' = [pc EXCEPT ![p] = step]
  /\ opt' = [opt EXCEPT ![p] = o]
  /\ UNCHANGED <<tables, who, arg, contact, old, changes, late>>

End(p) ==
  /\ pc' = [pc EXCEPT ![p] = "idle"]
  /\ who' = [who EXCEPT ![p] = None]
  /\ arg' = [arg EXCEPT ![p] = None]
  /\ opt' = [opt EXCEPT ![p] = None]
  /\ UNCHANGED <<contact, old, changes>>

Refuse(p) == End(p) /\ UNCHANGED <<tables, late>>

-----------------------------------------------------------------------------
(* send: the contact, the message replied to, the new row.  A reply to a   *)
(* message of another thread, or to none, is sent as no reply at all.      *)

Creating == {p \in Handler : pc[p] \in {"findReply", "create"}}

SendMutant(p, u, v, r) ==
  /\ {u, v} \in Pairs
  /\ lastId + Cardinality(Creating) < MaxMsgs
  /\ Begin(p, u, v, r, IF r = 0 THEN "create" ELSE "findReply")

\* The bound on messages counts those on their way.
Send(p, u, v, r) ==
  /\ {u, v} \in contact
  /\ lastId + Cardinality(Creating) < MaxMsgs
  /\ Begin(p, u, v, r, IF r = 0 THEN "create" ELSE "findReply")

FindReplyMutant(p) ==
  /\ pc[p] = "findReply"
  /\ Goto(p, "create", IF opt[p] \in Live THEN opt[p] ELSE 0)

FindReply(p) ==
  /\ pc[p] = "findReply"
  /\ Goto(p, "create", IF opt[p] \in Between(who[p], arg[p]) THEN opt[p] ELSE 0)

\* The foreign key fails when the message replied to is gone by now.
CreateMessage(p) ==
  LET pr == {who[p], arg[p]}
      row == [from |-> who[p], to |-> arg[p], text |-> 0, reply |-> opt[p], read |-> FALSE]
  IN /\ pc[p] = "create"
     /\ IF opt[p] \in Live \cup {0}
          THEN /\ lastId' = lastId + 1
               /\ msg' = [m \in Live \cup {lastId'} |-> IF m = lastId' THEN row ELSE msg[m]]
               /\ late' = IF pr \in contact THEN late ELSE [late EXCEPT ![pr] = @ + 1]
          ELSE UNCHANGED <<msg, lastId, late>>
     /\ UNCHANGED <<key, lastKey>>
     /\ End(p)

-----------------------------------------------------------------------------
(* markAsRead, edit and remove: the row is read and checked, then updated  *)
(* or deleted by its id, which fails when it is gone.                      *)

MarkAsRead(p, u, m) ==
  /\ msg[m].to = u /\ ~msg[m].read /\ m \in Worked
  /\ Begin(p, u, m, None, "setRead")

\* The bound on edits counts those on their way.
EditMessage(p, u, m) ==
  /\ msg[m].from = u /\ m \notin old /\ m \in Worked
  /\ msg[m].text + Cardinality({q \in Handler : pc[q] = "update" /\ arg[q] = m}) < MaxEdits
  /\ Begin(p, u, m, None, "update")

RemoveMessage(p, u, m) ==
  /\ u \in Party(m)
  /\ Begin(p, u, m, None, "delete")

Update(p, step, row) ==
  /\ pc[p] = step
  /\ msg' = IF arg[p] \in Live THEN [msg EXCEPT ![arg[p]] = row] ELSE msg
  /\ UNCHANGED <<lastId, key, lastKey, late>>
  /\ End(p)

SetRead(p) == Update(p, "setRead", [msg[arg[p]] EXCEPT !.read = TRUE])
UpdateText(p) == Update(p, "update", [msg[arg[p]] EXCEPT !.text = @ + 1])

\* replies are set to null and reactions deleted by the foreign keys
DeleteMessage(p) ==
  LET m == arg[p] IN
  /\ pc[p] = "delete"
  /\ msg' = [n \in Live \ {m} |->
               IF msg[n].reply = m THEN [msg[n] EXCEPT !.reply = 0] ELSE msg[n]]
  /\ key' = [r \in DOMAIN key \ ReactionsOn(m) |-> key[r]]
  /\ UNCHANGED <<lastId, lastKey, late>>
  /\ End(p)

-----------------------------------------------------------------------------
(* toggleReaction: the message, the reaction; then its row is deleted by   *)
(* id, or the reactions are counted and one is created, which the unique   *)
(* index refuses when it is there by now.                                  *)

ToggleReaction(p, u, m, e) ==
  /\ u \in Party(m) /\ m \in Worked
  /\ Begin(p, u, m, e, "findReaction")

FindReaction(p) ==
  LET r == <<arg[p], who[p], opt[p]>> IN
  /\ pc[p] = "findReaction"
  /\ IF r \in DOMAIN key THEN Goto(p, "unreact", <<r, key[r]>>)
                         ELSE Goto(p, "count", opt[p])

DeleteReaction(p) ==
  LET r == opt[p][1] IN
  /\ pc[p] = "unreact"
  /\ key' = IF r \in DOMAIN key /\ key[r] = opt[p][2]
            THEN [s \in DOMAIN key \ {r} |-> key[s]] ELSE key
  /\ UNCHANGED <<msg, lastId, lastKey, late>>
  /\ End(p)

CountReactions(p) ==
  /\ pc[p] = "count"
  /\ IF Cardinality(ReactionsOn(arg[p])) < MaxReactions
       THEN Goto(p, "react", opt[p]) ELSE Refuse(p)

CreateReaction(p) ==
  LET r == <<arg[p], who[p], opt[p]>> IN
  /\ pc[p] = "react"
  /\ IF arg[p] \in Live /\ r \notin DOMAIN key
       THEN /\ lastKey < MaxToggles
            /\ lastKey' = lastKey + 1
            /\ key' = [s \in DOMAIN key \cup {r} |-> IF s = r THEN lastKey' ELSE key[s]]
       ELSE UNCHANGED <<key, lastKey>>
  /\ UNCHANGED <<msg, lastId, late>>
  /\ End(p)

-----------------------------------------------------------------------------
\* A contact is removed (its messages stay), or made again.
RemoveContact(pr) ==
  /\ pr \in contact /\ changes < MaxChanges
  /\ contact' = contact \ {pr}
  /\ changes' = changes + 1
  /\ late' = [late EXCEPT ![pr] = 0]
  /\ UNCHANGED <<tables, old, locals>>

MakeContact(pr) ==
  /\ pr \notin contact
  /\ contact' = contact \cup {pr}
  /\ UNCHANGED <<tables, old, locals, changes, late>>

\* 24 hours have passed.
Age(m) ==
  /\ m \in Worked \ old /\ changes < MaxChanges
  /\ old' = old \cup {m}
  /\ changes' = changes + 1
  /\ UNCHANGED <<tables, contact, locals, late>>

Restart ==
  /\ pc' = [p \in Handler |-> "idle"]
  /\ who' = [p \in Handler |-> None]
  /\ arg' = [p \in Handler |-> None]
  /\ opt' = [p \in Handler |-> None]
  /\ UNCHANGED <<tables, contact, old, changes, late>>

Next ==
  \/ \E p \in Handler :
       \/ \E u \in User :
            \/ \E v \in User, r \in 0..lastId : Send(p, u, v, r)
            \/ \E m \in Live :
                 \/ MarkAsRead(p, u, m) \/ EditMessage(p, u, m) \/ RemoveMessage(p, u, m)
                 \/ \E e \in Emoji : ToggleReaction(p, u, m, e)
       \/ FindReply(p) \/ CreateMessage(p) \/ SetRead(p) \/ UpdateText(p) \/ DeleteMessage(p)
       \/ FindReaction(p) \/ DeleteReaction(p) \/ CountReactions(p) \/ CreateReaction(p)
  \/ \E pr \in Pairs : RemoveContact(pr) \/ MakeContact(pr)
  \/ \E m \in Live : Age(m)
  \/ Restart

Spec == Init /\ [][Next]_vars

-----------------------------------------------------------------------------
(* Properties *)

Store == INSTANCE MessageStore WITH Person <- User, reacts <- DOMAIN key

(***************************************************************************)
(* Although every request reads before it writes, and the row may change   *)
(* or go in between, each takes effect at once or not at all: a reply      *)
(* stays in its thread, nobody reacts twice with the same emoji, and what  *)
(* is deleted does not come back.                                          *)
(***************************************************************************)
ImplementsStore == Store!StoreSpec

SendsIn(pr) == {p \in Creating : {who[p], arg[p]} = pr}

(***************************************************************************)
(* The contact is looked up before the message is written: messages still  *)
(* come after the contact was removed, but only from the requests that     *)
(* were being served then; as long as it is gone they grow no more.        *)
(***************************************************************************)
LateOnlyUnderWay ==
  [][\A pr \in Pairs : pr \notin contact /\ pr \notin contact' =>
       late'[pr] + Cardinality(SendsIn(pr)') <= late[pr] + Cardinality(SendsIn(pr))]_vars
=============================================================================
