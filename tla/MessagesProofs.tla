--------------------------- MODULE MessagesProofs ---------------------------
(* What holds of Messages for every set of users, handlers and emoji and   *)
(* every limit: above all that it implements MessageStore.                 *)
EXTENDS Messages, Push, Counts, TLAPS

-----------------------------------------------------------------------------
(* What a request knows of the rows it has read, in its own variables,     *)
(* while others change them.                                               *)

LocalsOK ==
  /\ DOMAIN who = Handler /\ DOMAIN arg = Handler /\ DOMAIN opt = Handler
  /\ late \in [Pairs -> Nat]

\* A reply found stays in the thread of the sender for as long as it is there.
SendersOK ==
  \A p \in Creating :
    /\ arg[p] \in User /\ {who[p], arg[p]} \in Pairs
    /\ pc[p] = "create" /\ opt[p] # 0 =>
         /\ opt[p] \in 1..lastId
         /\ opt[p] \in Live => Party(opt[p]) = {who[p], arg[p]}

\* Who may react is a party of the message for as long as it is there.
ReactorsOK ==
  \A p \in Handler : pc[p] \in {"findReaction", "count", "react"} =>
    opt[p] \in Emoji /\ (arg[p] \in Live => who[p] \in Party(arg[p]))

\* No message replies to one of another thread, or to one that is gone.
RepliesOK ==
  \A m \in Live : msg[m].reply # 0 =>
    msg[m].reply \in Live /\ Party(msg[m].reply) = Party(m)

Editors(m) == {q \in Handler : pc[q] = "update" /\ arg[q] = m}

BoundsOK ==
  /\ lastId + Cardinality(Creating) <= MaxMsgs
  /\ \A m \in Live : msg[m].text + Cardinality(Editors(m)) <= MaxEdits

MessagesInv ==
  TypeOK /\ RepliesOK /\ LocalsOK /\ SendersOK /\ ReactorsOK /\ BoundsOK

-----------------------------------------------------------------------------
(* The writes, each as the step of MessageStore that it is.                *)

LEMMA PairsDiffer ==
  ASSUME NEW u, NEW v, {u, v} \in Pairs
  PROVE  u \in User /\ v \in User /\ u # v
<1>1. {u, v} \in SUBSET User /\ Cardinality({u, v}) = 2
  BY MessagesAssumption
<1>2. ASSUME u = v
      PROVE  FALSE
  <2>1. {u, v} = {u} /\ Cardinality({u}) = 1
    BY <1>2, FS_Singleton
  <2> QED BY <1>1, <2>1
<1> QED BY <1>1, <1>2

\* Someone is counted.
LEMMA SomeHandler ==
  ASSUME NEW S \in SUBSET Handler, NEW p \in S
  PROVE  IsFiniteSet(S) /\ Cardinality(S) \in Nat /\ Cardinality(S) >= 1
<1>1. IsFiniteSet(S)
  BY NoMore, MessagesAssumption
<1>2. Cardinality(S) \in Nat /\ Cardinality(S \ {p}) \in Nat
        /\ Cardinality(S \ {p}) <= Cardinality(S) - 1
  BY <1>1, OneLess
<1> QED BY <1>1, <1>2

Stutters == UNCHANGED <<msg, lastId, DOMAIN key>>

LEMMA CreateIsPost ==
  ASSUME MessagesInv, NEW p \in Handler, CreateMessage(p)
  PROVE  Store!StoreNext \/ Stutters
<1>1. /\ pc[p] = "create" /\ p \in Creating
      /\ who[p] \in User /\ arg[p] \in User /\ who[p] # arg[p]
  <2>1. pc[p] = "create" /\ p \in Creating
    BY DEF CreateMessage, Creating
  <2>2. {who[p], arg[p]} \in Pairs
    BY <2>1 DEF MessagesInv, SendersOK
  <2> QED BY <2>1, <2>2, PairsDiffer
<1>2. lastId \in Nat /\ MaxMsgs \in Nat /\ lastId < MaxMsgs /\ Live \subseteq 1..lastId
  <2>1. Cardinality(Creating) \in Nat /\ Cardinality(Creating) >= 1
    BY <1>1, SomeHandler DEF Creating
  <2> QED BY <2>1, MessagesAssumption DEF MessagesInv, TypeOK, BoundsOK
<1>3. CASE opt[p] \in Live \cup {0}
  <2>1. opt[p] \in 0..MaxMsgs
    <3>1. opt[p] = 0 \/ opt[p] \in 1..lastId
      BY <1>2, <1>3
    <3> QED BY <1>2, <3>1
  <2>2. opt[p] = 0 \/ opt[p] \in Between(who[p], arg[p])
    BY <1>1, <1>2, <1>3 DEF MessagesInv, SendersOK, Between
  <2>3. /\ lastId' = lastId + 1 /\ UNCHANGED key
        /\ msg' = [m \in Live \cup {lastId + 1} |->
                     IF m \in Live THEN msg[m]
                     ELSE [from |-> who[p], to |-> arg[p], text |-> 0,
                           reply |-> opt[p], read |-> FALSE]]
    BY <1>2, <1>3 DEF CreateMessage
  <2>4. Store!Post(who[p], arg[p], opt[p])
    BY <1>2, <2>2, <2>3 DEF Store!Post, Store!Between, Store!Live, Store!Party,
                            Between, Live, Party
  <2> QED BY <1>1, <2>1, <2>4 DEF Store!StoreNext
<1>4. CASE opt[p] \notin Live \cup {0}
  BY <1>4 DEF CreateMessage, Stutters
<1> QED BY <1>3, <1>4

LEMMA UpdatesAreStoreSteps ==
  ASSUME MessagesInv, NEW p \in Handler, SetRead(p) \/ UpdateText(p)
  PROVE  Store!StoreNext \/ Stutters
<1>1. UNCHANGED <<lastId, key>>
  BY DEF SetRead, UpdateText, Update
<1>2. CASE arg[p] \notin Live
  BY <1>1, <1>2 DEF SetRead, UpdateText, Update, Stutters
<1>3. CASE arg[p] \in Live /\ SetRead(p)
  <2>1. msg' = [msg EXCEPT ![arg[p]].read = TRUE]
    BY <1>3 DEF SetRead, Update
  <2> QED BY <1>1, <1>3, <2>1 DEF Store!StoreNext, Store!MarkRead, Store!Live, Live
<1>4. CASE arg[p] \in Live /\ UpdateText(p)
  <2>1. msg' = [msg EXCEPT ![arg[p]].text = @ + 1] /\ p \in Editors(arg[p])
    BY <1>4 DEF UpdateText, Update, Editors
  <2>2. msg[arg[p]].text < MaxEdits
    <3>1. Cardinality(Editors(arg[p])) \in Nat /\ Cardinality(Editors(arg[p])) >= 1
      BY <2>1, SomeHandler DEF Editors
    <3>2. msg[arg[p]].text + Cardinality(Editors(arg[p])) <= MaxEdits
      BY <1>4 DEF MessagesInv, BoundsOK
    <3>3. msg[arg[p]].text \in Nat /\ MaxEdits \in Nat
      BY <1>4, MessagesAssumption DEF MessagesInv, TypeOK, Row
    <3> QED BY <3>1, <3>2, <3>3
  <2> QED BY <1>1, <1>4, <2>1, <2>2 DEF Store!StoreNext, Store!Edit, Store!Live, Live
<1> QED BY <1>2, <1>3, <1>4

LEMMA DeleteIsDelete ==
  ASSUME MessagesInv, NEW p \in Handler, DeleteMessage(p)
  PROVE  Store!StoreNext \/ Stutters
<1> DEFINE m == arg[p]
<1>1. /\ UNCHANGED lastId
      /\ msg' = [n \in Live \ {m} |->
                   IF msg[n].reply = m THEN [msg[n] EXCEPT !.reply = 0] ELSE msg[n]]
      /\ key' = [r \in DOMAIN key \ ReactionsOn(m) |-> key[r]]
  BY DEF DeleteMessage
<1>2. DOMAIN key' = {r \in DOMAIN key : r[1] # m}
  BY <1>1 DEF ReactionsOn
<1>3. CASE m \in Live
  BY <1>1, <1>2, <1>3 DEF Store!StoreNext, Store!Delete, Store!Live, Live
<1>4. CASE m \notin Live
  <2>1. m # 0 /\ msg \in [Live -> Row]
    BY DEF MessagesInv, TypeOK, DeleteMessage, OnMessage, Step
  <2>2. \A n \in Live : msg[n].reply # m
    BY <1>4, <2>1 DEF MessagesInv, RepliesOK
  <2>3. msg' = msg
    BY <1>1, <1>4, <2>1, <2>2
  <2>4. DOMAIN key' = DOMAIN key
    BY <1>2, <1>4 DEF MessagesInv, TypeOK
  <2> QED BY <1>1, <2>3, <2>4 DEF Stutters
<1> QED BY <1>3, <1>4

LEMMA ReactionsAreStoreSteps ==
  ASSUME MessagesInv, NEW p \in Handler, CreateReaction(p) \/ DeleteReaction(p)
  PROVE  Store!StoreNext \/ Stutters
<1>1. UNCHANGED <<msg, lastId>>
  BY DEF CreateReaction, DeleteReaction
<1>2. CASE UNCHANGED key
  BY <1>1, <1>2 DEF Stutters
<1>3. CASE CreateReaction(p) /\ ~UNCHANGED key
  <2>1. /\ arg[p] \in Live /\ <<arg[p], who[p], opt[p]>> \notin DOMAIN key
        /\ DOMAIN key' = DOMAIN key \cup {<<arg[p], who[p], opt[p]>>}
        /\ pc[p] = "react"
    BY <1>3 DEF CreateReaction
  <2>2. opt[p] \in Emoji /\ who[p] \in Party(arg[p]) /\ who[p] \in User
    BY <2>1 DEF MessagesInv, ReactorsOK, TypeOK
  <2>3. Store!React(arg[p], who[p], opt[p])
    BY <1>1, <2>1, <2>2 DEF Store!React, Store!Live, Store!Party, Live, Party
  <2> QED BY <2>1, <2>2, <2>3 DEF Store!StoreNext, Store!Live, Live
<1>4. CASE DeleteReaction(p) /\ ~UNCHANGED key
  <2>1. PICK r \in DOMAIN key : DOMAIN key' = DOMAIN key \ {r}
    BY <1>4 DEF DeleteReaction
  <2>2. /\ r[1] \in Live /\ r[2] \in User /\ r[3] \in Emoji /\ r = <<r[1], r[2], r[3]>>
    BY DEF MessagesInv, TypeOK, Reaction
  <2>3. Store!Unreact(r[1], r[2], r[3])
    BY <1>1, <2>1, <2>2 DEF Store!Unreact
  <2> QED BY <2>2, <2>3 DEF Store!StoreNext, Store!Live, Live
<1> QED BY <1>2, <1>3, <1>4

Writes(p) ==
  \/ CreateMessage(p) \/ SetRead(p) \/ UpdateText(p) \/ DeleteMessage(p)
  \/ CreateReaction(p) \/ DeleteReaction(p)

LEMMA WritesAreStoreSteps ==
  ASSUME MessagesInv, NEW p \in Handler, Writes(p)
  PROVE  Store!StoreNext \/ Stutters
  BY CreateIsPost, UpdatesAreStoreSteps, DeleteIsDelete, ReactionsAreStoreSteps DEF Writes

-----------------------------------------------------------------------------
(* The steps sorted: a handler reads or writes, the world goes on.         *)

Others(p) ==
  \A q \in Handler \ {p} :
    pc'[q] = pc[q] /\ who'[q] = who[q] /\ arg'[q] = arg[q] /\ opt'[q] = opt[q]

LocalsKept ==
  /\ pc' \in [Handler -> Step]
  /\ DOMAIN who' = Handler /\ DOMAIN arg' = Handler /\ DOMAIN opt' = Handler

\* What a request finds when it begins.
Started(p) ==
  \/ /\ pc'[p] \in {"findReply", "create"} /\ {who'[p], arg'[p]} \in contact
     /\ pc'[p] = "create" => opt'[p] = 0
     /\ lastId + Cardinality(Creating) < MaxMsgs
  \/ arg'[p] \in Live /\ pc'[p] \in {"setRead", "delete"}
  \/ /\ arg'[p] \in Live /\ pc'[p] = "update"
     /\ msg[arg'[p]].text + Cardinality(Editors(arg'[p])) < MaxEdits
  \/ /\ arg'[p] \in Live /\ pc'[p] = "findReaction"
     /\ who'[p] \in Party(arg'[p]) /\ opt'[p] \in Emoji

\* What it knows after one more query.
GoesOn(p) ==
  \/ /\ pc[p] = "findReply" /\ pc'[p] = "create"
     /\ opt'[p] \in Between(who[p], arg[p]) \cup {0}
  \/ pc[p] = "findReaction" /\ pc'[p] = "unreact"
  \/ pc[p] = "findReaction" /\ pc'[p] = "count" /\ opt'[p] = opt[p]
  \/ pc[p] = "count" /\ pc'[p] = "react" /\ opt'[p] = opt[p]

Reads(p) ==
  /\ UNCHANGED <<tables, contact, old, changes, late>> /\ Others(p) /\ LocalsKept
  /\ \/ pc'[p] = "idle"
     \/ pc[p] = "idle" /\ who'[p] \in User /\ Started(p)
     \/ who'[p] = who[p] /\ arg'[p] = arg[p] /\ GoesOn(p)

LEMMA BeginReads ==
  ASSUME TypeOK, LocalsOK, NEW p \in Handler, NEW u \in User, NEW a, NEW o,
         NEW step \in Step, Begin(p, u, a, o, step)
  PROVE  /\ UNCHANGED <<tables, contact, old, changes, late>> /\ Others(p) /\ LocalsKept
         /\ pc[p] = "idle" /\ pc'[p] = step /\ who'[p] = u /\ arg'[p] = a /\ opt'[p] = o
  BY DEF TypeOK, LocalsOK, Begin, Others, LocalsKept

LEMMA GotoReads ==
  ASSUME TypeOK, LocalsOK, NEW p \in Handler, NEW o, NEW step \in Step, Goto(p, step, o)
  PROVE  /\ UNCHANGED <<tables, contact, old, changes, late>> /\ Others(p) /\ LocalsKept
         /\ pc'[p] = step /\ who'[p] = who[p] /\ arg'[p] = arg[p] /\ opt'[p] = o
  BY DEF TypeOK, LocalsOK, Goto, Others, LocalsKept

LEMMA EndFrees ==
  ASSUME TypeOK, LocalsOK, NEW p \in Handler, End(p)
  PROVE  UNCHANGED <<contact, old, changes>> /\ Others(p) /\ LocalsKept /\ pc'[p] = "idle"
  BY DEF TypeOK, LocalsOK, End, Others, LocalsKept, Step

LEMMA Steps ==
  Step = {"idle", "findReply", "create", "update", "setRead", "delete",
          "findReaction", "count", "react", "unreact"}
  BY DEF Step

LEMMA StepsSorted ==
  ASSUME MessagesInv, Next
  PROVE  \/ \E p \in Handler : Reads(p) \/ Writes(p)
         \/ \E pr \in Pairs : RemoveContact(pr) \/ MakeContact(pr)
         \/ \E m \in Live : Age(m)
         \/ Restart
<1>0. TypeOK /\ LocalsOK
  BY DEF MessagesInv
<1>1. ASSUME NEW p \in Handler, NEW u \in User, NEW v \in User, NEW r \in 0..lastId,
             Send(p, u, v, r)
      PROVE  Reads(p)
  BY ZenonT(40), <1>0, <1>1, BeginReads, Steps DEF Send, Reads, Started
<1>2. ASSUME NEW p \in Handler, NEW u \in User, NEW m \in Live,
             MarkAsRead(p, u, m) \/ RemoveMessage(p, u, m)
      PROVE  Reads(p)
  BY <1>0, <1>2, BeginReads, Steps DEF MarkAsRead, RemoveMessage, Reads, Started
<1>3. ASSUME NEW p \in Handler, NEW u \in User, NEW m \in Live, EditMessage(p, u, m)
      PROVE  Reads(p)
  <2>1. msg[m].text + Cardinality(Editors(m)) < MaxEdits
    BY <1>3 DEF EditMessage, Editors
  <2> QED BY <1>0, <1>3, <2>1, BeginReads, Steps DEF EditMessage, Reads, Started
<1>4. ASSUME NEW p \in Handler, NEW u \in User, NEW m \in Live, NEW e \in Emoji,
             ToggleReaction(p, u, m, e)
      PROVE  Reads(p)
  BY <1>0, <1>4, BeginReads, Steps DEF ToggleReaction, Reads, Started
<1>5. ASSUME NEW p \in Handler, FindReply(p)
      PROVE  Reads(p)
  <2>1. PICK o \in Between(who[p], arg[p]) \cup {0} : Goto(p, "create", o)
    BY <1>5 DEF FindReply
  <2> QED BY <1>0, <1>5, <2>1, GotoReads, Steps DEF FindReply, Reads, GoesOn
<1>6. ASSUME NEW p \in Handler, FindReaction(p)
      PROVE  Reads(p)
  <2>1. pc[p] = "findReaction"
    BY <1>6 DEF FindReaction
  <2>2. ASSUME Goto(p, "unreact", <<<<arg[p], who[p], opt[p]>>, key[<<arg[p], who[p], opt[p]>>]>>)
        PROVE  Reads(p)
    BY <1>0, <2>1, <2>2, GotoReads, Steps DEF Reads, GoesOn
  <2>3. ASSUME Goto(p, "count", opt[p])
        PROVE  Reads(p)
    BY <1>0, <2>1, <2>3, GotoReads, Steps DEF Reads, GoesOn
  <2> QED BY <1>6, <2>2, <2>3 DEF FindReaction
<1>7. ASSUME NEW p \in Handler, CountReactions(p)
      PROVE  Reads(p)
  <2>1. CASE Goto(p, "react", opt[p])
    BY <1>0, <1>7, <2>1, GotoReads, Steps DEF CountReactions, Reads, GoesOn
  <2>2. CASE Refuse(p)
    BY <1>0, <2>2, EndFrees DEF Refuse, Reads
  <2> QED BY <1>7, <2>1, <2>2 DEF CountReactions
<1> QED BY <1>1, <1>2, <1>3, <1>4, <1>5, <1>6, <1>7 DEF Next, Writes

LEMMA WriterDone ==
  ASSUME MessagesInv, NEW p \in Handler, Writes(p)
  PROVE  /\ UNCHANGED <<contact, old, changes>> /\ Others(p) /\ LocalsKept
         /\ pc[p] # "idle" /\ pc'[p] = "idle"
<1>1. TypeOK /\ LocalsOK
  BY DEF MessagesInv
<1>2. pc[p] # "idle" /\ End(p)
  BY DEF Writes, CreateMessage, SetRead, UpdateText, Update, DeleteMessage,
         CreateReaction, DeleteReaction
<1> QED BY <1>1, <1>2, EndFrees

-----------------------------------------------------------------------------
(* What the store keeps: rows are never written under an old id again, and *)
(* stay between the same users.                                            *)

\* The rows under the old ids are those there were, between the same users.
RowsKept ==
  /\ msg' \in [Live' -> Row]
  /\ \A m \in Live' : m \in Live \/ (m = lastId + 1 /\ lastId' = lastId + 1)
  /\ \A m \in Live' : m \in Live => msg'[m].from = msg[m].from /\ msg'[m].to = msg[m].to

\* A reply of before, one fewer, or a new one.
RepliesKept ==
  \A m \in Live' : msg'[m].reply # 0 =>
    /\ msg'[m].reply \in Live /\ msg'[m].reply \in Live'
    /\ \/ m \in Live /\ msg'[m].reply = msg[m].reply
       \/ m = lastId + 1 /\ Party(msg'[m].reply) = {msg'[m].from, msg'[m].to}

LEMMA PostKeeps ==
  ASSUME MessagesInv, NEW u \in User, NEW v \in User, NEW r \in 0..MaxMsgs, Store!Post(u, v, r)
  PROVE  /\ lastId' = lastId + 1 /\ lastId' \in 0..MaxMsgs /\ Live' = Live \cup {lastId'}
         /\ RowsKept /\ RepliesKept /\ UNCHANGED DOMAIN key
         /\ \A m \in Live : msg'[m] = msg[m]
         /\ msg'[lastId'].text = 0
<1>0. /\ lastId \in 0..MaxMsgs /\ Live \subseteq 1..lastId /\ msg \in [Live -> Row]
      /\ MaxMsgs \in Nat /\ MaxEdits \in Nat /\ lastId \in Nat
  BY MessagesAssumption DEF MessagesInv, TypeOK
<1> DEFINE entry == [from |-> u, to |-> v, text |-> 0, reply |-> r, read |-> FALSE]
<1>1. /\ lastId < MaxMsgs /\ lastId' = lastId + 1 /\ UNCHANGED DOMAIN key
      /\ msg' = [m \in Live \cup {lastId + 1} |-> IF m \in Live THEN msg[m] ELSE entry]
      /\ r # 0 => r \in Live /\ Party(r) = {u, v}
  BY DEF Store!Post, Store!Live, Store!Between, Store!Party, Live, Party
<1>2. entry \in Row
  BY <1>0 DEF Row
<1>3. /\ Live' = Live \cup {lastId + 1} /\ msg' \in [Live' -> Row]
      /\ lastId + 1 \notin Live /\ msg'[lastId + 1] = entry
      /\ \A m \in Live : msg'[m] = msg[m]
  BY <1>0, <1>1, <1>2 DEF Live
<1>4. RowsKept
  BY <1>1, <1>3 DEF RowsKept
<1>5. RepliesKept
  BY <1>1, <1>3 DEF RepliesKept, MessagesInv, RepliesOK
<1> QED BY <1>0, <1>1, <1>3, <1>4, <1>5

LEMMA ChangesKeep ==
  ASSUME MessagesInv, NEW m \in Live, Store!MarkRead(m) \/ Store!Edit(m)
  PROVE  /\ UNCHANGED <<lastId, Live, DOMAIN key>> /\ RowsKept /\ RepliesKept
<1>0. /\ msg \in [Live -> Row] /\ MaxEdits \in Nat
  BY MessagesAssumption DEF MessagesInv, TypeOK
<1>1. UNCHANGED <<lastId, DOMAIN key>>
  BY DEF Store!MarkRead, Store!Edit
<1>2. PICK entry \in Row : /\ entry.from = msg[m].from /\ entry.to = msg[m].to
                           /\ entry.reply = msg[m].reply
                           /\ msg' = [msg EXCEPT ![m] = entry]
  <2>1. CASE Store!MarkRead(m)
    <3> DEFINE entry == [msg[m] EXCEPT !.read = TRUE]
    <3>1. entry \in Row /\ entry.from = msg[m].from /\ entry.to = msg[m].to
            /\ entry.reply = msg[m].reply
      BY <1>0 DEF Row
    <3>2. msg' = [msg EXCEPT ![m] = entry]
      BY <2>1 DEF Store!MarkRead
    <3> QED BY <3>1, <3>2
  <2>2. CASE Store!Edit(m)
    <3> DEFINE entry == [msg[m] EXCEPT !.text = @ + 1]
    <3>1. entry \in Row /\ entry.from = msg[m].from /\ entry.to = msg[m].to
            /\ entry.reply = msg[m].reply
      BY <1>0, <2>2 DEF Row, Store!Edit
    <3>2. msg' = [msg EXCEPT ![m] = entry]
      BY <2>2 DEF Store!Edit
    <3> QED BY <3>1, <3>2
  <2> QED BY <2>1, <2>2
<1>3. Live' = Live /\ msg' \in [Live' -> Row]
  BY <1>0, <1>2 DEF Live
<1>4. \A n \in Live : /\ msg'[n].from = msg[n].from /\ msg'[n].to = msg[n].to
                      /\ msg'[n].reply = msg[n].reply
  BY <1>0, <1>2
<1> QED BY <1>1, <1>3, <1>4 DEF RowsKept, RepliesKept, MessagesInv, RepliesOK

LEMMA DeleteKeeps ==
  ASSUME MessagesInv, NEW m \in Live, Store!Delete(m)
  PROVE  /\ lastId' = lastId /\ Live' = Live \ {m} /\ RowsKept /\ RepliesKept
         /\ DOMAIN key' = {r \in DOMAIN key : r[1] # m}
         /\ \A n \in Live' : msg'[n].text = msg[n].text
<1>0. msg \in [Live -> Row] /\ 0 \in 0..MaxMsgs
  BY MessagesAssumption DEF MessagesInv, TypeOK
<1>1. /\ UNCHANGED lastId /\ DOMAIN key' = {r \in DOMAIN key : r[1] # m}
      /\ msg' = [n \in Live \ {m} |->
                   IF msg[n].reply = m THEN [msg[n] EXCEPT !.reply = 0] ELSE msg[n]]
  BY DEF Store!Delete, Store!Live, Live
<1>2. \A n \in Live : [msg[n] EXCEPT !.reply = 0] \in Row
  BY <1>0 DEF Row
<1>3. Live' = Live \ {m} /\ msg' \in [Live' -> Row]
  BY <1>0, <1>1, <1>2 DEF Live
<1>4. \A n \in Live' : /\ msg'[n].from = msg[n].from /\ msg'[n].to = msg[n].to
                       /\ msg'[n].text = msg[n].text
                       /\ msg'[n].reply # 0 => /\ msg'[n].reply = msg[n].reply
                                               /\ msg'[n].reply # m
  BY <1>0, <1>1, <1>3 DEF Row
<1> QED BY <1>1, <1>3, <1>4 DEF RowsKept, RepliesKept, MessagesInv, RepliesOK

LEMMA StoreKeeps ==
  ASSUME MessagesInv, Store!StoreNext \/ Stutters
  PROVE  /\ lastId' \in 0..MaxMsgs /\ lastId' \in {lastId, lastId + 1}
         /\ RowsKept /\ RepliesKept
<1>0. lastId \in 0..MaxMsgs
  BY DEF MessagesInv, TypeOK
<1>1. CASE Stutters
  BY <1>0, <1>1 DEF Stutters, RowsKept, RepliesKept, MessagesInv, TypeOK, RepliesOK, Live
<1>2. ASSUME NEW m \in Live, NEW u \in User, NEW e \in Emoji,
             Store!React(m, u, e) \/ Store!Unreact(m, u, e)
      PROVE  UNCHANGED <<msg, lastId>>
  BY <1>2 DEF Store!React, Store!Unreact
<1>3. CASE UNCHANGED <<msg, lastId>>
  BY <1>0, <1>3 DEF RowsKept, RepliesKept, MessagesInv, TypeOK, RepliesOK, Live
<1> QED BY <1>0, <1>1, <1>2, <1>3, PostKeeps, ChangesKeep, DeleteKeeps
        DEF Store!StoreNext, Store!Live, Live

LEMMA KeysStep ==
  ASSUME MessagesInv, NEW p \in Handler, Writes(p)
  PROVE  /\ lastKey' \in 0..MaxToggles
         /\ DOMAIN key' \subseteq Reaction /\ key' \in [DOMAIN key' -> 1..lastKey']
         /\ \A r \in DOMAIN key' : r[1] \in Live' /\ r[2] \in {msg'[r[1]].from, msg'[r[1]].to}
<1>0. /\ lastKey \in 0..MaxToggles /\ MaxToggles \in Nat
      /\ DOMAIN key \subseteq Reaction /\ key \in [DOMAIN key -> 1..lastKey]
      /\ \A r \in DOMAIN key : r[1] \in Live /\ r[2] \in {msg[r[1]].from, msg[r[1]].to}
  BY MessagesAssumption DEF MessagesInv, TypeOK, Party
<1>1. RowsKept
  BY WritesAreStoreSteps, StoreKeeps
<1>2. CASE CreateMessage(p) \/ SetRead(p) \/ UpdateText(p)
  <2>1. UNCHANGED <<key, lastKey>> /\ Live \subseteq Live'
    BY <1>2 DEF CreateMessage, SetRead, UpdateText, Update, Live
  <2> QED BY <1>0, <1>1, <2>1 DEF RowsKept
<1>3. CASE DeleteMessage(p)
  <2>1. /\ UNCHANGED lastKey /\ Live' = Live \ {arg[p]}
        /\ key' = [r \in DOMAIN key \ ReactionsOn(arg[p]) |-> key[r]]
    BY <1>3 DEF DeleteMessage, Live
  <2>2. /\ DOMAIN key' \subseteq DOMAIN key /\ \A r \in DOMAIN key' : key'[r] = key[r]
        /\ key' \in [DOMAIN key' -> 1..lastKey]
        /\ \A r \in DOMAIN key' : r[1] # arg[p]
    BY <1>0, <2>1 DEF ReactionsOn
  <2> QED BY <1>0, <1>1, <2>1, <2>2 DEF RowsKept
<1>4. CASE CreateReaction(p) /\ ~UNCHANGED key
  <2> DEFINE r == <<arg[p], who[p], opt[p]>>
  <2>1. /\ arg[p] \in Live /\ lastKey < MaxToggles /\ lastKey' = lastKey + 1
        /\ key' = [s \in DOMAIN key \cup {r} |-> IF s = r THEN lastKey + 1 ELSE key[s]]
        /\ UNCHANGED msg /\ pc[p] = "react"
    BY <1>4 DEF CreateReaction
  <2>2. opt[p] \in Emoji /\ who[p] \in Party(arg[p]) /\ who[p] \in User /\ arg[p] \in 1..MaxMsgs
    BY <2>1, MessagesAssumption DEF MessagesInv, ReactorsOK, TypeOK
  <2>3. r \in Reaction /\ r[1] \in Live /\ r[2] \in {msg[r[1]].from, msg[r[1]].to}
    BY <2>1, <2>2 DEF Reaction, Party
  <2>4. lastKey + 1 \in 1..(lastKey + 1) /\ 1..lastKey \subseteq 1..(lastKey + 1)
    BY <1>0
  <2>5. DOMAIN key' = DOMAIN key \cup {r} /\ key' \in [DOMAIN key' -> 1..(lastKey + 1)]
    BY <1>0, <2>1, <2>4
  <2> QED BY <1>0, <2>1, <2>3, <2>5 DEF Live
<1>5. CASE DeleteReaction(p)
  <2>1. /\ UNCHANGED <<msg, lastKey>> /\ DOMAIN key' \subseteq DOMAIN key
        /\ key' \in [DOMAIN key' -> 1..lastKey]
    BY <1>0, <1>5 DEF DeleteReaction
  <2> QED BY <1>0, <2>1 DEF Live
<1>6. CASE CreateReaction(p) /\ UNCHANGED key
  <2>1. UNCHANGED <<msg, lastKey>>
    BY <1>6 DEF CreateReaction
  <2> QED BY <1>0, <1>6, <2>1 DEF Live
<1> QED BY <1>2, <1>3, <1>4, <1>5, <1>6 DEF Writes

LEMMA TypeStep ==
  ASSUME MessagesInv, Next
  PROVE  TypeOK'
<1>0. TypeOK /\ LocalsOK
  BY DEF MessagesInv
<1>1. ASSUME NEW p \in Handler, Reads(p)
      PROVE  TypeOK'
  <2>1. UNCHANGED <<msg, lastId, key, lastKey, contact, old>> /\ pc' \in [Handler -> Step]
    BY <1>1 DEF Reads, tables, LocalsKept
  <2>2. \A q \in Handler \ {p} : pc'[q] = pc[q] /\ who'[q] = who[q] /\ arg'[q] = arg[q]
    BY <1>1 DEF Reads, Others
  <2>3. pc'[p] # "idle" => who'[p] \in User
    BY <1>0, <1>1 DEF Reads, GoesOn, TypeOK
  <2>4. pc'[p] \in OnMessage => arg'[p] \in 1..lastId
    BY <1>0, <1>1 DEF Reads, Started, GoesOn, TypeOK, OnMessage, Step
  <2>5. pc'[p] = "create" => {who'[p], arg'[p]} \in Pairs
    BY <1>0, <1>1 DEF Reads, Started, GoesOn, TypeOK, MessagesInv, SendersOK, Creating
  <2> QED BY <1>0, <2>1, <2>2, <2>3, <2>4, <2>5 DEF TypeOK, Live, Party
<1>2. ASSUME NEW p \in Handler, Writes(p)
      PROVE  TypeOK'
  <2>1. /\ UNCHANGED <<contact, old>> /\ pc' \in [Handler -> Step] /\ pc'[p] = "idle"
        /\ \A q \in Handler \ {p} : pc'[q] = pc[q] /\ who'[q] = who[q] /\ arg'[q] = arg[q]
    BY <1>2, WriterDone DEF Others, LocalsKept
  <2>2. lastId' \in 0..MaxMsgs /\ lastId' \in {lastId, lastId + 1} /\ RowsKept
    BY <1>2, WritesAreStoreSteps, StoreKeeps
  <2>3. lastId \in Nat /\ 1..lastId \subseteq 1..lastId'
    BY <1>0, <2>2 DEF TypeOK
  <2>4. Live' \subseteq 1..lastId' /\ msg' \in [Live' -> Row]
    BY <1>0, <2>2, <2>3 DEF TypeOK, RowsKept
  <2>5. /\ lastKey' \in 0..MaxToggles
        /\ DOMAIN key' \subseteq Reaction /\ key' \in [DOMAIN key' -> 1..lastKey']
        /\ \A r \in DOMAIN key' : r[1] \in Live' /\ r[2] \in {msg'[r[1]].from, msg'[r[1]].to}
    BY <1>2, KeysStep
  <2>6. /\ \A q \in Handler : pc'[q] # "idle" => who'[q] \in User
        /\ \A q \in Handler : pc'[q] \in OnMessage => arg'[q] \in 1..lastId'
        /\ \A q \in Handler : pc'[q] = "create" => {who'[q], arg'[q]} \in Pairs
    BY <1>0, <2>1, <2>3 DEF TypeOK, OnMessage
  <2>7. contact' \subseteq Pairs /\ old' \subseteq 1..lastId'
    BY <1>0, <2>1, <2>3 DEF TypeOK
  <2> QED BY <2>1, <2>2, <2>4, <2>5, <2>6, <2>7 DEF TypeOK, Party
<1>3. ASSUME NEW pr \in Pairs, RemoveContact(pr) \/ MakeContact(pr)
      PROVE  TypeOK'
  BY <1>0, <1>3 DEF RemoveContact, MakeContact, TypeOK, tables, locals, Live, Party
<1>4. ASSUME NEW m \in Live, Age(m)
      PROVE  TypeOK'
  BY <1>0, <1>4 DEF Age, TypeOK, tables, locals, Live, Party
<1>5. CASE Restart
  BY <1>0, <1>5 DEF Restart, TypeOK, tables, Live, Party, Step, OnMessage
<1> QED BY <1>1, <1>2, <1>3, <1>4, <1>5, StepsSorted

\* A step of the store, or none: what it says of the rows holds of every step.
LEMMA StoreStep ==
  ASSUME MessagesInv, Next
  PROVE  Store!StoreNext \/ Stutters
<1>1. ASSUME UNCHANGED tables
      PROVE  Stutters
  BY <1>1 DEF tables, Stutters
<1>2. ASSUME NEW p \in Handler, Reads(p)
      PROVE  UNCHANGED tables
  BY <1>2 DEF Reads
<1>3. (\E pr \in Pairs : RemoveContact(pr) \/ MakeContact(pr)) \/ (\E m \in Live : Age(m)) \/ Restart
        => UNCHANGED tables
  BY DEF RemoveContact, MakeContact, Age, Restart
<1> QED BY <1>1, <1>2, <1>3, StepsSorted, WritesAreStoreSteps

LEMMA LateType ==
  ASSUME LocalsOK, MessagesInv, Next
  PROVE  late' \in [Pairs -> Nat]
<1>1. ASSUME NEW p \in Handler, Writes(p)
      PROVE  late' \in [Pairs -> Nat]
  <2>1. CASE UNCHANGED late
    BY <2>1 DEF LocalsOK
  <2>2. ASSUME NEW pr \in Pairs, late' = [late EXCEPT ![pr] = @ + 1]
        PROVE  late' \in [Pairs -> Nat]
    BY <2>2 DEF LocalsOK
  <2>3. ASSUME CreateMessage(p)
        PROVE  late' \in [Pairs -> Nat]
    <3>1. {who[p], arg[p]} \in Pairs
      BY <2>3 DEF CreateMessage, MessagesInv, TypeOK
    <3> QED BY <2>1, <2>2, <2>3, <3>1 DEF CreateMessage
  <2>4. ~CreateMessage(p) => UNCHANGED late
    BY <1>1 DEF Writes, SetRead, UpdateText, Update, DeleteMessage, CreateReaction,
                DeleteReaction
  <2> QED BY <2>1, <2>3, <2>4
<1>2. ASSUME NEW pr \in Pairs, RemoveContact(pr) \/ MakeContact(pr)
      PROVE  late' \in [Pairs -> Nat]
  BY <1>2 DEF RemoveContact, MakeContact, LocalsOK
<1>3. (\E p \in Handler : Reads(p)) \/ (\E m \in Live : Age(m)) \/ Restart => UNCHANGED late
  BY DEF Reads, Age, Restart
<1> QED BY <1>1, <1>2, <1>3, StepsSorted DEF LocalsOK

LEMMA LocalsStep ==
  ASSUME MessagesInv, Next
  PROVE  LocalsOK'
<1>1. LocalsOK
  BY DEF MessagesInv
<1>2. DOMAIN who' = Handler /\ DOMAIN arg' = Handler /\ DOMAIN opt' = Handler
  <2>1. (\E p \in Handler : Reads(p) \/ Writes(p)) => LocalsKept
    BY WriterDone DEF Reads
  <2>2. (\E pr \in Pairs : RemoveContact(pr) \/ MakeContact(pr)) \/ (\E m \in Live : Age(m))
          => UNCHANGED locals
    BY DEF RemoveContact, MakeContact, Age
  <2>3. Restart => DOMAIN who' = Handler /\ DOMAIN arg' = Handler /\ DOMAIN opt' = Handler
    BY DEF Restart
  <2> QED BY <1>1, <2>1, <2>2, <2>3, StepsSorted DEF LocalsOK, LocalsKept, locals
<1> QED BY <1>1, <1>2, LateType DEF LocalsOK

LEMMA RepliesStep ==
  ASSUME MessagesInv, Next
  PROVE  RepliesOK'
<1>1. RowsKept /\ RepliesKept
  BY StoreStep, StoreKeeps
<1>2. RepliesOK /\ Live \subseteq 1..lastId /\ lastId \in Nat
  BY MessagesAssumption DEF MessagesInv, TypeOK
<1> SUFFICES ASSUME NEW m \in Live', msg'[m].reply # 0
             PROVE  /\ msg'[m].reply \in Live'
                    /\ {msg'[msg'[m].reply].from, msg'[msg'[m].reply].to}
                         = {msg'[m].from, msg'[m].to}
  BY DEF RepliesOK, Party
<1> DEFINE r == msg'[m].reply
<1>3. /\ r \in Live /\ r \in Live'
      /\ {msg'[r].from, msg'[r].to} = {msg[r].from, msg[r].to}
  BY <1>1 DEF RepliesKept, RowsKept
<1>4. CASE m \in Live /\ r = msg[m].reply
  <2>1. {msg'[m].from, msg'[m].to} = {msg[m].from, msg[m].to}
    BY <1>1, <1>4 DEF RowsKept
  <2>2. {msg[r].from, msg[r].to} = {msg[m].from, msg[m].to}
    BY <1>2, <1>4 DEF RepliesOK, Party
  <2> QED BY <1>3, <2>1, <2>2
<1>5. CASE m = lastId + 1 /\ Party(r) = {msg'[m].from, msg'[m].to}
  BY <1>3, <1>5 DEF Party
<1> QED BY <1>1, <1>4, <1>5 DEF RepliesKept

LEMMA SendersStep ==
  ASSUME MessagesInv, Next
  PROVE  SendersOK'
<1>0. SendersOK /\ TypeOK /\ lastId \in Nat /\ contact \subseteq Pairs
  BY MessagesAssumption DEF MessagesInv, TypeOK
<1>1. lastId' \in {lastId, lastId + 1} /\ RowsKept
  BY StoreStep, StoreKeeps
\* What a sender knows outlasts every step.
<1>2. ASSUME NEW q \in Creating, pc[q] = "create", opt[q] # 0
      PROVE  /\ opt[q] \in 1..lastId'
             /\ opt[q] \in Live' =>
                  {msg'[opt[q]].from, msg'[opt[q]].to} = {who[q], arg[q]}
  <2>1. opt[q] \in 1..lastId /\ (opt[q] \in Live => Party(opt[q]) = {who[q], arg[q]})
    BY <1>0, <1>2 DEF SendersOK
  <2>2. opt[q] \in Live' => opt[q] \in Live
    BY <1>0, <1>1, <2>1 DEF RowsKept
  <2> QED BY <1>0, <1>1, <2>1, <2>2 DEF RowsKept, Party
<1>3. ASSUME NEW q \in Handler, pc'[q] = pc[q], who'[q] = who[q], arg'[q] = arg[q],
             opt'[q] = opt[q], q \in Creating'
      PROVE  /\ arg'[q] \in User /\ {who'[q], arg'[q]} \in Pairs
             /\ pc'[q] = "create" /\ opt'[q] # 0 =>
                  /\ opt'[q] \in 1..lastId'
                  /\ opt'[q] \in Live' =>
                       {msg'[opt'[q]].from, msg'[opt'[q]].to} = {who'[q], arg'[q]}
  BY <1>0, <1>2, <1>3 DEF SendersOK, Creating
<1>4. ASSUME NEW p \in Handler, Reads(p)
      PROVE  SendersOK'
  <2>1. UNCHANGED <<msg, lastId>>
    BY <1>4 DEF Reads, tables
  <2>2. ASSUME p \in Creating'
        PROVE  /\ arg'[p] \in User /\ {who'[p], arg'[p]} \in Pairs
               /\ pc'[p] = "create" /\ opt'[p] # 0 =>
                    opt'[p] \in Live /\ Party(opt'[p]) = {who'[p], arg'[p]}
    <3>1. CASE pc[p] = "idle" /\ Started(p)
      BY <1>0, <2>2, <3>1, PairsDiffer DEF Started, Creating
    <3>2. CASE who'[p] = who[p] /\ arg'[p] = arg[p] /\ GoesOn(p)
      <4>1. /\ pc[p] = "findReply" /\ pc'[p] = "create"
            /\ opt'[p] \in Between(who[p], arg[p]) \cup {0}
        BY <2>2, <3>2 DEF GoesOn, Creating
      <4> QED BY <1>0, <3>2, <4>1 DEF SendersOK, Creating, Between
    <3>3. pc'[p] # "idle"
      BY <2>2 DEF Creating
    <3> QED BY <1>4, <3>1, <3>2, <3>3 DEF Reads
  <2>3. \A m \in Live : m \in 1..lastId
    BY <1>0 DEF TypeOK
  <2>4. \A q \in Handler \ {p} :
          pc'[q] = pc[q] /\ who'[q] = who[q] /\ arg'[q] = arg[q] /\ opt'[q] = opt[q]
    BY <1>4 DEF Reads, Others
  <2>5. \A q \in Creating' : q \in Handler
    BY DEF Creating
  <2> QED BY <1>3, <2>1, <2>2, <2>3, <2>4, <2>5 DEF SendersOK, Party, Live
<1>5. ASSUME NEW p \in Handler, Writes(p)
      PROVE  SendersOK'
  <2>1. /\ p \notin Creating' /\ \A q \in Creating' : q \in Handler
        /\ \A q \in Handler \ {p} :
             pc'[q] = pc[q] /\ who'[q] = who[q] /\ arg'[q] = arg[q] /\ opt'[q] = opt[q]
    BY <1>5, WriterDone DEF Others, Creating
  <2> QED BY <1>3, <2>1 DEF SendersOK, Party
<1>6. ASSUME UNCHANGED locals
      PROVE  SendersOK'
  <2>1. \A q \in Creating' : q \in Handler
    BY DEF Creating
  <2> QED BY <1>3, <1>6, <2>1 DEF SendersOK, Party, locals
<1>7. Restart => Creating' = {}
  BY DEF Restart, Creating
<1>8. (\E pr \in Pairs : RemoveContact(pr) \/ MakeContact(pr)) \/ (\E m \in Live : Age(m))
        => UNCHANGED locals
  BY DEF RemoveContact, MakeContact, Age
<1> QED BY <1>4, <1>5, <1>6, <1>7, <1>8, StepsSorted DEF SendersOK

LEMMA ReactorsStep ==
  ASSUME MessagesInv, Next
  PROVE  ReactorsOK'
<1>0. ReactorsOK /\ TypeOK /\ lastId \in Nat
  BY MessagesAssumption DEF MessagesInv, TypeOK
<1>1. lastId' \in {lastId, lastId + 1} /\ RowsKept
  BY StoreStep, StoreKeeps
<1>2. ASSUME NEW q \in Handler, pc[q] \in {"findReaction", "count", "react"}
      PROVE  opt[q] \in Emoji /\ (arg[q] \in Live' => who[q] \in {msg'[arg[q]].from, msg'[arg[q]].to})
  <2>1. arg[q] \in 1..lastId
    BY <1>0, <1>2 DEF TypeOK, OnMessage, Step
  <2>2. arg[q] \in Live' => arg[q] \in Live
    BY <1>0, <1>1, <2>1 DEF RowsKept
  <2> QED BY <1>0, <1>1, <1>2, <2>2 DEF RowsKept, ReactorsOK, Party
<1>3. ASSUME NEW p \in Handler, Reads(p)
      PROVE  ReactorsOK'
  <2>1. UNCHANGED msg
    BY <1>3 DEF Reads, tables
  <2>2. pc'[p] \in {"findReaction", "count", "react"} =>
          opt'[p] \in Emoji /\ (arg'[p] \in Live => who'[p] \in Party(arg'[p]))
    BY <1>0, <1>3 DEF Reads, Started, GoesOn, ReactorsOK
  <2>3. \A q \in Handler \ {p} :
          pc'[q] = pc[q] /\ who'[q] = who[q] /\ arg'[q] = arg[q] /\ opt'[q] = opt[q]
    BY <1>3 DEF Reads, Others
  <2> QED BY <1>2, <2>1, <2>2, <2>3 DEF ReactorsOK, Party, Live
<1>4. ASSUME NEW p \in Handler, Writes(p)
      PROVE  ReactorsOK'
  <2>1. /\ pc'[p] = "idle"
        /\ \A q \in Handler \ {p} :
             pc'[q] = pc[q] /\ who'[q] = who[q] /\ arg'[q] = arg[q] /\ opt'[q] = opt[q]
    BY <1>4, WriterDone DEF Others
  <2> QED BY <1>2, <2>1 DEF ReactorsOK, Party
<1>5. ASSUME UNCHANGED locals
      PROVE  ReactorsOK'
  BY <1>2, <1>5 DEF ReactorsOK, Party, locals
<1>6. Restart => ReactorsOK'
  BY DEF Restart, ReactorsOK
<1>7. (\E pr \in Pairs : RemoveContact(pr) \/ MakeContact(pr)) \/ (\E m \in Live : Age(m))
        => UNCHANGED locals
  BY DEF RemoveContact, MakeContact, Age
<1> QED BY <1>3, <1>4, <1>5, <1>6, <1>7, StepsSorted

-----------------------------------------------------------------------------
(* The limits of the model count what is on its way, so that no request    *)
(* that has begun is held up by them.                                      *)

LEMMA CreatorsCount ==
  ASSUME MessagesInv, Next
  PROVE  lastId' + Cardinality(Creating') <= MaxMsgs
<1>0. /\ lastId + Cardinality(Creating) <= MaxMsgs
      /\ Creating \in SUBSET Handler /\ Creating' \in SUBSET Handler
      /\ IsFiniteSet(Handler) /\ MaxMsgs \in Nat /\ lastId \in Nat
  BY MessagesAssumption DEF MessagesInv, BoundsOK, TypeOK, Creating
<1>1. /\ IsFiniteSet(Creating) /\ Cardinality(Creating) \in Nat
      /\ Cardinality(Creating') \in Nat
  BY <1>0, NoMore
<1>2. ASSUME Creating' \subseteq Creating, lastId' = lastId
      PROVE  lastId' + Cardinality(Creating') <= MaxMsgs
  <2>1. Cardinality(Creating') <= Cardinality(Creating)
    BY <1>1, <1>2, NoMore
  <2> QED BY <1>0, <1>1, <1>2, <2>1
<1>3. ASSUME NEW p \in Handler, Reads(p)
      PROVE  lastId' + Cardinality(Creating') <= MaxMsgs
  <2>1. lastId' = lastId
    BY <1>3 DEF Reads, tables
  <2>2. Creating' \subseteq Creating \cup {p}
    BY <1>3 DEF Reads, Others, Creating
  <2>3. CASE p \in Creating' /\ p \notin Creating
    <3>1. lastId + Cardinality(Creating) < MaxMsgs
      BY <1>3, <2>3 DEF Reads, Started, GoesOn, Creating
    <3>2. Cardinality(Creating') <= Cardinality(Creating) + 1
      BY <1>1, <2>2, OneMore
    <3> QED BY <1>0, <1>1, <2>1, <3>1, <3>2
  <2> QED BY <1>2, <2>1, <2>2, <2>3
<1>4. ASSUME NEW p \in Handler, Writes(p)
      PROVE  lastId' + Cardinality(Creating') <= MaxMsgs
  <2>1. Creating' \subseteq Creating \ {p}
    BY <1>4, WriterDone DEF Others, Creating
  <2>2. CASE lastId' = lastId
    BY <1>2, <2>1, <2>2
  <2>3. CASE p \in Creating /\ lastId' = lastId + 1
    <3>1. Cardinality(Creating') <= Cardinality(Creating) - 1
      BY <1>1, <2>1, <2>3, OneLess
    <3> QED BY <1>0, <1>1, <2>3, <3>1
  <2>4. CreateMessage(p) => p \in Creating
    BY DEF CreateMessage, Creating
  <2>5. ~CreateMessage(p) => lastId' = lastId
    BY <1>4 DEF Writes, SetRead, UpdateText, Update, DeleteMessage, CreateReaction,
                DeleteReaction
  <2>6. lastId' \in {lastId, lastId + 1}
    BY StoreStep, StoreKeeps
  <2> QED BY <2>2, <2>3, <2>4, <2>5, <2>6
<1>5. ASSUME \/ Restart
             \/ \E pr \in Pairs : RemoveContact(pr) \/ MakeContact(pr)
             \/ \E m \in Live : Age(m)
      PROVE  Creating' \subseteq Creating /\ lastId' = lastId
  BY <1>5 DEF Restart, RemoveContact, MakeContact, Age, tables, locals, Creating
<1> QED BY <1>2, <1>3, <1>4, <1>5, StepsSorted

LEMMA EditorsCount ==
  ASSUME MessagesInv, Next, NEW m \in Live'
  PROVE  msg'[m].text + Cardinality(Editors(m)') <= MaxEdits
<1> DEFINE E == Editors(m)
           F == Editors(m)'
<1>0. /\ E \in SUBSET Handler /\ F \in SUBSET Handler
      /\ IsFiniteSet(Handler) /\ MaxEdits \in Nat
      /\ TypeOK /\ TypeOK'
  BY MessagesAssumption, TypeStep DEF MessagesInv, Editors
<1>1. IsFiniteSet(E) /\ Cardinality(E) \in Nat /\ Cardinality(F) \in Nat
  BY <1>0, NoMore
<1>2. /\ msg'[m].text \in Nat
      /\ m \in Live => msg[m].text \in Nat /\ msg[m].text + Cardinality(E) <= MaxEdits
  BY <1>0 DEF TypeOK, Row, MessagesInv, BoundsOK
<1>3. ASSUME F \subseteq E, m \in Live, msg'[m].text = msg[m].text
      PROVE  msg'[m].text + Cardinality(F) <= MaxEdits
  <2>1. Cardinality(F) <= Cardinality(E)
    BY <1>1, <1>3, NoMore
  <2> QED BY <1>0, <1>1, <1>2, <1>3, <2>1
<1>4. ASSUME NEW p \in Handler, Reads(p)
      PROVE  msg'[m].text + Cardinality(F) <= MaxEdits
  <2>1. UNCHANGED msg /\ m \in Live
    BY <1>4 DEF Reads, tables, Live
  <2>2. F \subseteq E \cup {p}
    BY <1>4 DEF Reads, Others, Editors
  <2>3. CASE p \in F /\ p \notin E
    <3>1. msg[m].text + Cardinality(E) < MaxEdits
      BY <1>4, <2>3 DEF Reads, Started, GoesOn, Editors
    <3>2. Cardinality(F) <= Cardinality(E) + 1
      BY <1>1, <2>2, OneMore
    <3> QED BY <1>0, <1>1, <1>2, <2>1, <3>1, <3>2
  <2> QED BY <1>3, <2>1, <2>2, <2>3
<1>5. ASSUME NEW p \in Handler, Writes(p)
      PROVE  msg'[m].text + Cardinality(F) <= MaxEdits
  <2>1. F \subseteq E \ {p}
    BY <1>5, WriterDone DEF Others, Editors
  <2>2. CASE m \notin Live
    <3>1. m = lastId + 1 /\ lastId \in Nat
      BY <1>0, <2>2, StoreStep, StoreKeeps DEF RowsKept, TypeOK
    <3>2. E = {}
      BY <1>0, <3>1 DEF TypeOK, Editors, OnMessage, Step
    <3>3. Cardinality(F) = 0
      BY <2>1, <3>2, FS_EmptySet
    <3>4. CreateMessage(p)
      BY <1>5, <2>2 DEF Writes, SetRead, UpdateText, Update, DeleteMessage, CreateReaction,
                        DeleteReaction, Live
    <3>5. msg'[m].text = 0
      BY <2>2, <3>4 DEF CreateMessage, Live
    <3> QED BY <1>0, <3>3, <3>5
  <2>3. CASE m \in Live /\ UpdateText(p) /\ arg[p] = m
    <3>1. p \in E /\ msg'[m].text = msg[m].text + 1
      BY <1>0, <2>3 DEF UpdateText, Update, Editors, TypeOK
    <3>2. Cardinality(F) <= Cardinality(E) - 1
      BY <1>1, <2>1, <3>1, OneLess
    <3> QED BY <1>0, <1>1, <1>2, <2>3, <3>1, <3>2
  <2>4. CASE m \in Live /\ ~(UpdateText(p) /\ arg[p] = m)
    <3>1. ASSUME CreateMessage(p)
          PROVE  msg'[m].text = msg[m].text
      BY <1>0, <2>4, <3>1 DEF CreateMessage, TypeOK, Live
    <3>2. ASSUME SetRead(p) \/ UpdateText(p)
          PROVE  msg'[m].text = msg[m].text
      <4>1. CASE arg[p] = m /\ SetRead(p)
        BY <1>0, <2>4, <4>1 DEF SetRead, Update, TypeOK, Row
      <4>2. CASE arg[p] # m
        BY <1>0, <2>4, <3>2, <4>2 DEF SetRead, UpdateText, Update, TypeOK
      <4> QED BY <2>4, <3>2, <4>1, <4>2
    <3>3. ASSUME DeleteMessage(p)
          PROVE  msg'[m].text = msg[m].text
      BY <1>0, <2>4, <3>3 DEF DeleteMessage, TypeOK, Live, Row
    <3>4. ASSUME CreateReaction(p) \/ DeleteReaction(p)
          PROVE  msg'[m].text = msg[m].text
      BY <3>4 DEF CreateReaction, DeleteReaction
    <3>5. msg'[m].text = msg[m].text
      BY <1>5, <3>1, <3>2, <3>3, <3>4 DEF Writes
    <3> QED BY <1>3, <2>1, <2>4, <3>5
  <2> QED BY <2>2, <2>3, <2>4
<1>6. ASSUME \/ Restart
             \/ \E pr \in Pairs : RemoveContact(pr) \/ MakeContact(pr)
             \/ \E n \in Live : Age(n)
      PROVE  F \subseteq E /\ m \in Live /\ msg'[m].text = msg[m].text
  BY <1>6 DEF Restart, RemoveContact, MakeContact, Age, tables, locals, Editors, Live
<1> QED BY <1>3, <1>4, <1>5, <1>6, StepsSorted

LEMMA MessagesStep ==
  ASSUME MessagesInv, [Next]_vars
  PROVE  MessagesInv'
<1>1. CASE Next
  BY <1>1, TypeStep, LocalsStep, RepliesStep, SendersStep, ReactorsStep, CreatorsCount,
     EditorsCount DEF MessagesInv, BoundsOK
<1>2. CASE UNCHANGED vars
  BY <1>2 DEF MessagesInv, TypeOK, LocalsOK, RepliesOK, SendersOK, ReactorsOK, BoundsOK,
              Live, Party, Creating, Editors, vars, tables, locals
<1> QED BY <1>1, <1>2

LEMMA MessagesInitially ==
  ASSUME Init
  PROVE  MessagesInv
<1>1. Live = {} /\ DOMAIN key = {} /\ Creating = {}
  BY DEF Init, Live, Creating
<1>2. {MaxMsgs, MaxEdits, MaxToggles} \subseteq Nat
  BY MessagesAssumption
<1>3. TypeOK
  BY <1>1, <1>2 DEF Init, TypeOK, Step, OnMessage
<1>4. BoundsOK
  <2>1. Cardinality(Creating) = 0
    BY <1>1, FS_EmptySet
  <2> QED BY <1>1, <1>2, <2>1 DEF Init, BoundsOK
<1> QED BY <1>1, <1>3, <1>4 DEF Init, MessagesInv, LocalsOK, RepliesOK, SendersOK, ReactorsOK

LEMMA MessagesInvariant == Spec => []MessagesInv
<1>1. Init => MessagesInv
  BY MessagesInitially
<1>2. MessagesInv /\ [Next]_vars => MessagesInv'
  BY MessagesStep
<1> QED BY <1>1, <1>2, PTL DEF Spec

-----------------------------------------------------------------------------
(***************************************************************************)
(* The services, which read in one query and write in another, implement   *)
(* MessageStore: every request takes effect at once or not at all.         *)
(***************************************************************************)
THEOREM ServicesImplementStore == Spec => ImplementsStore
<1>1. Init => Store!StoreInit
  <2>1. Init => DOMAIN key = {}
    BY DEF Init
  <2> QED BY <2>1 DEF Init, Store!StoreInit
<1>2. MessagesInv /\ [Next]_vars => [Store!StoreNext]_(Store!store)
  <2>1. ASSUME MessagesInv, Next
        PROVE  [Store!StoreNext]_(Store!store)
    BY <2>1, StoreStep DEF Stutters, Store!store
  <2>2. UNCHANGED vars => UNCHANGED Store!store
    BY DEF vars, tables, Store!store
  <2> QED BY <2>1, <2>2
<1> QED BY <1>1, <1>2, MessagesInvariant, PTL DEF Spec, ImplementsStore, Store!StoreSpec

(***************************************************************************)
(* The tables stay what the schema makes them and a little more: a reply   *)
(* is to a message of the same two users that is still there, a reaction   *)
(* comes from one of them.                                                 *)
(***************************************************************************)
THEOREM StoreTypeCorrect == Spec => [](TypeOK /\ Store!StoreTypeOK)
<1>1. ASSUME MessagesInv
      PROVE  TypeOK /\ Store!StoreTypeOK
  <2>1. TypeOK /\ RepliesOK
    BY <1>1 DEF MessagesInv
  <2>2. Row = Store!Row /\ Live = Store!Live
    BY DEF Row, Store!Row, Live, Store!Live
  <2>3. \A m \in Live : msg[m].reply # 0 =>
          msg[m].reply \in Store!Between(msg[m].from, msg[m].to)
    BY <2>1, <2>2 DEF RepliesOK, Party, Store!Between, Store!Party
  <2>4. \A r \in DOMAIN key : r[1] \in Live /\ r[2] \in Store!Party(r[1])
    BY <2>1 DEF TypeOK, Party, Store!Party
  <2> QED BY <2>1, <2>2, <2>3, <2>4 DEF TypeOK, Store!StoreTypeOK
<1> QED BY <1>1, MessagesInvariant, PTL

-----------------------------------------------------------------------------
(* The late messages: each comes from a request that was under way.        *)

LEMMA LateStep ==
  ASSUME MessagesInv, Next, NEW pr \in Pairs, pr \notin contact, pr \notin contact'
  PROVE  late'[pr] + Cardinality(SendsIn(pr)') <= late[pr] + Cardinality(SendsIn(pr))
<1> DEFINE S == SendsIn(pr)
           T == SendsIn(pr)'
<1>0. /\ S \in SUBSET Handler /\ T \in SUBSET Handler /\ IsFiniteSet(Handler)
      /\ LocalsOK /\ LocalsOK' /\ TypeOK
  BY MessagesAssumption, LocalsStep DEF MessagesInv, SendsIn, Creating
<1>1. /\ IsFiniteSet(S) /\ Cardinality(S) \in Nat /\ Cardinality(T) \in Nat
      /\ late[pr] \in Nat /\ late'[pr] \in Nat
  BY <1>0, NoMore DEF LocalsOK
<1>2. ASSUME T \subseteq S, late'[pr] = late[pr]
      PROVE  late'[pr] + Cardinality(T) <= late[pr] + Cardinality(S)
  <2>1. Cardinality(T) <= Cardinality(S)
    BY <1>1, <1>2, NoMore
  <2> QED BY <1>1, <1>2, <2>1
<1>3. ASSUME NEW p \in Handler, Reads(p)
      PROVE  T \subseteq S /\ late'[pr] = late[pr]
  <2>1. \A q \in Handler \ {p} : pc'[q] = pc[q] /\ who'[q] = who[q] /\ arg'[q] = arg[q]
    BY <1>3 DEF Reads, Others
  <2>2. p \in T => p \in S
    BY <1>3 DEF Reads, Started, GoesOn, SendsIn, Creating
  <2>3. UNCHANGED late
    BY <1>3 DEF Reads
  <2> QED BY <2>1, <2>2, <2>3 DEF SendsIn, Creating
<1>4. ASSUME NEW p \in Handler, Writes(p)
      PROVE  late'[pr] + Cardinality(T) <= late[pr] + Cardinality(S)
  <2>1. T \subseteq S \ {p}
    BY <1>4, WriterDone DEF Others, SendsIn, Creating
  <2>2. CASE late'[pr] = late[pr]
    BY <1>2, <2>1, <2>2
  <2>3. CASE CreateMessage(p) /\ pr = {who[p], arg[p]} /\ late'[pr] = late[pr] + 1
    <3>1. p \in S
      BY <2>3 DEF CreateMessage, SendsIn, Creating
    <3>2. Cardinality(T) <= Cardinality(S) - 1
      BY <1>1, <2>1, <3>1, OneLess
    <3> QED BY <1>1, <2>3, <3>2
  <2>4. ASSUME CreateMessage(p)
        PROVE  late'[pr] = late[pr] \/ (pr = {who[p], arg[p]} /\ late'[pr] = late[pr] + 1)
    <3>1. \/ late' = late
          \/ \E x : x = {who[p], arg[p]} /\ late' = [late EXCEPT ![x] = @ + 1]
      BY <2>4 DEF CreateMessage
    <3> QED BY <1>0, <3>1 DEF LocalsOK
  <2>5. ~CreateMessage(p) => late'[pr] = late[pr]
    BY <1>4 DEF Writes, SetRead, UpdateText, Update, DeleteMessage, CreateReaction,
                DeleteReaction
  <2> QED BY <2>2, <2>3, <2>4, <2>5
<1>5. ASSUME NEW x \in Pairs, RemoveContact(x) \/ MakeContact(x)
      PROVE  T \subseteq S /\ late'[pr] = late[pr]
  <2>1. x # pr
    BY <1>5 DEF RemoveContact, MakeContact
  <2>2. late'[pr] = late[pr]
    BY <1>0, <1>5, <2>1 DEF RemoveContact, MakeContact, LocalsOK
  <2> QED BY <1>5, <2>2 DEF RemoveContact, MakeContact, locals, SendsIn, Creating
<1>6. ASSUME (\E m \in Live : Age(m)) \/ Restart
      PROVE  T \subseteq S /\ late'[pr] = late[pr]
  BY <1>6 DEF Age, Restart, locals, SendsIn, Creating
<1> QED BY <1>2, <1>3, <1>4, <1>5, <1>6, StepsSorted

(***************************************************************************)
(* send looks the contact up before it writes: after a removal no message  *)
(* comes but from the requests that had been let through by then.          *)
(***************************************************************************)
THEOREM LateFromThoseUnderWay == Spec => LateOnlyUnderWay
<1> DEFINE A == \A pr \in Pairs : pr \notin contact /\ pr \notin contact' =>
                  late'[pr] + Cardinality(SendsIn(pr)') <= late[pr] + Cardinality(SendsIn(pr))
<1>1. MessagesInv /\ [Next]_vars => [A]_vars
  BY LateStep
<1> QED BY <1>1, MessagesInvariant, PTL DEF Spec, LateOnlyUnderWay

-----------------------------------------------------------------------------
(* Push notifications.                                                     *)

PushTypes ==
  /\ reader \in Reader \cup {Nobody}
  /\ made \in 0..MaxEndpoints /\ endpoint \in {0, made}
  /\ row \in [Endpoint -> Reader \cup {Nobody}]
  /\ settings \in [open : BOOLEAN, effect : BOOLEAN, subscribed : BOOLEAN]
  /\ settings.open => reader # Nobody
  /\ toggles \subseteq Toggle
  /\ \A t \in toggles : t.endpoint <= made /\ (t.step = "save" => t.endpoint # 0)
  /\ \A e \in Endpoint : row[e] # Nobody => e <= made
  /\ gone \subseteq (1..made) \ {endpoint}
  /\ muddled \in BOOLEAN

\* With no handler under way the page shows whether there is a subscription,
\* which is the user's;
AtRest ==
  /\ reader # Nobody /\ endpoint # 0 => row[endpoint] = reader
  /\ settings.open /\ ~settings.effect => (settings.subscribed = TRUE <=> endpoint # 0)

\* the only handler is that of a page which is still open, and has done this much.
InHand(t) ==
  /\ toggles = {t} /\ t.mounted = TRUE /\ t.user = reader /\ settings.open
  /\ t.step # "key" => endpoint = t.endpoint /\ endpoint # 0
  /\ t.step = "saved" => row[endpoint] = reader
  /\ IF t.on THEN t.step \in {"key", "save", "saved"} ELSE t.step \in {"remove", "removed"}

PushOK == ~muddled => (toggles = {} => AtRest) /\ \A t \in toggles : InHand(t)

PushInv == PushTypes /\ PushOK

LEMMA PushBegins == PushInit => PushInv
<1> SUFFICES ASSUME PushInit PROVE PushInv
  OBVIOUS
<1>1. PushTypes
  <2>1. made = 0 /\ endpoint = 0 /\ made \in 0..MaxEndpoints
    BY PushAssumption DEF PushInit
  <2>2. settings \in [open : BOOLEAN, effect : BOOLEAN, subscribed : BOOLEAN]
    BY DEF PushInit, Closed
  <2>3. /\ row \in [Endpoint -> Reader \cup {Nobody}] /\ settings.open = FALSE
        /\ \A e \in Endpoint : row[e] = Nobody
    BY DEF PushInit, Closed
  <2> QED BY <2>1, <2>2, <2>3 DEF PushInit, PushTypes
<1>2. PushOK
  BY DEF PushInit, PushOK, AtRest, Closed
<1> QED BY <1>1, <1>2 DEF PushInv

\* A page that is left is shown no more, and its handlers run on, muddled.
LEMMA PageLeft ==
  ASSUME PushInv, settings' = Closed, toggles' = Unmounted,
         muddled' = (muddled \/ toggles # {}), reader' \in {reader, Nobody},
         UNCHANGED <<endpoint, made, row, gone>>
  PROVE  PushInv'
<1>1. ASSUME NEW t \in toggles
      PROVE  LET s == [t EXCEPT !.mounted = FALSE]
             IN /\ s \in Toggle /\ s.endpoint = t.endpoint /\ s.step = t.step
  BY <1>1 DEF PushInv, PushTypes, Toggle
<1>2. ASSUME NEW s \in toggles'
      PROVE  s \in Toggle /\ s.endpoint <= made /\ (s.step = "save" => s.endpoint # 0)
  <2>1. PICK t \in toggles : s = [t EXCEPT !.mounted = FALSE]
    BY DEF Unmounted
  <2>2. s \in Toggle /\ s.endpoint = t.endpoint /\ s.step = t.step
    BY <1>1, <2>1
  <2> QED BY <2>2 DEF PushInv, PushTypes
<1>3. PushTypes'
  BY <1>2 DEF PushInv, PushTypes, Closed
<1>4. muddled' = FALSE => muddled = FALSE /\ toggles = {} /\ toggles' = {}
  BY DEF PushInv, PushTypes, Unmounted
<1>5. PushOK'
  BY <1>3, <1>4 DEF PushInv, PushTypes, PushOK, AtRest, Closed
<1> QED BY <1>3, <1>5 DEF PushInv

LEMMA LoggedInHere ==
  ASSUME PushInv, NEW u \in Reader, LogInHere(u)
  PROVE  PushInv'
<1>1. PushTypes'
  BY DEF PushInv, PushTypes, LogInHere
<1>2. ASSUME muddled' = FALSE
      PROVE  toggles' = {} /\ AtRest'
  BY <1>2 DEF PushInv, PushTypes, LogInHere, AtRest
<1> QED BY <1>1, <1>2 DEF PushInv, PushTypes, PushOK

\* The page is opened, or its effect runs: what it shows is read once more.
LEMMA PageReads ==
  ASSUME PushInv, OpenSettings \/ TokenRenewed \/ GetSubscription
  PROVE  PushInv'
<1>1. PushTypes'
  BY DEF PushInv, PushTypes, OpenSettings, TokenRenewed, GetSubscription, Closed
<1>2. ASSUME muddled' = FALSE
      PROVE  muddled = FALSE /\ (OpenSettings => toggles = {})
  BY <1>2 DEF PushInv, PushTypes, OpenSettings, TokenRenewed, GetSubscription
<1>3. ASSUME muddled' = FALSE, toggles' = {}
      PROVE  AtRest'
  BY <1>2, <1>3 DEF PushInv, PushTypes, PushOK, AtRest, OpenSettings, TokenRenewed,
     GetSubscription, Closed
<1>4. ASSUME muddled' = FALSE, NEW t \in toggles'
      PROVE  InHand(t)'
  BY <1>2, <1>4 DEF PushInv, PushTypes, PushOK, InHand, OpenSettings, TokenRenewed, GetSubscription
<1> QED BY <1>1, <1>3, <1>4 DEF PushInv, PushTypes, PushOK

\* A press with no handler under way starts with a clean record.
LEMMA Pressed ==
  ASSUME PushInv, SubscribeBegin \/ UnsubscribeBegin
  PROVE  PushInv'
<1>1. PICK on \in BOOLEAN, new \in Toggle :
        /\ toggles' = toggles \cup {new} /\ muddled' = (toggles # {}) /\ settings.open
        /\ new.on = on /\ new.user = reader /\ new.mounted = TRUE
        /\ new.step = (IF on THEN "key" ELSE "remove")
        /\ new.endpoint = (IF on THEN 0 ELSE endpoint) /\ (~on => endpoint # 0)
        /\ UNCHANGED <<reader, endpoint, made, row, settings, gone>>
  <2>1. reader \in Reader /\ settings.open /\ endpoint \in 0..MaxEndpoints
    <3>1. settings.open /\ reader \in Reader
      BY DEF PushInv, PushTypes, SubscribeBegin, UnsubscribeBegin, Press
    <3>2. /\ made \in 0..MaxEndpoints /\ MaxEndpoints \in Nat /\ endpoint \in {0, made}
      BY PushAssumption DEF PushInv, PushTypes
    <3> QED BY <3>1, <3>2
  <2>2. CASE SubscribeBegin
    <3>1. NewToggle(TRUE, "key") \in Toggle
      BY <2>1, PushAssumption DEF NewToggle, Toggle
    <3> QED BY <2>1, <2>2, <3>1 DEF SubscribeBegin, Press, NewToggle
  <2>3. CASE UnsubscribeBegin
    <3>1. NewToggle(FALSE, "remove") \in Toggle
      BY <2>1, PushAssumption DEF NewToggle, Toggle
    <3> QED BY <2>1, <2>3, <3>1 DEF UnsubscribeBegin, Press, NewToggle
  <2> QED BY <2>2, <2>3
<1>2. new.endpoint <= made /\ new.step # "save"
  BY <1>1, PushAssumption DEF PushInv, PushTypes
<1>3. PushTypes'
  BY <1>1, <1>2 DEF PushInv, PushTypes
<1>4. ASSUME muddled' = FALSE
      PROVE  toggles' = {new}
  BY <1>1, <1>4
<1>5. ASSUME muddled' = FALSE
      PROVE  InHand(new)'
  BY <1>1, <1>4, <1>5 DEF InHand
<1> QED BY <1>3, <1>4, <1>5 DEF PushInv, PushTypes, PushOK

\* A handler takes a step and stays under way.
LEMMA StepTypes ==
  ASSUME PushInv, NEW t \in toggles, NEW new \in Toggle,
         toggles' = (toggles \ {t}) \cup {new}, UNCHANGED <<reader, settings, gone>>,
         made' \in made..MaxEndpoints, endpoint' \in {0, made'}, endpoint' \notin gone,
         row' \in [Endpoint -> Reader \cup {Nobody}],
         \A e \in Endpoint : row'[e] # row[e] => e <= made,
         muddled' \in BOOLEAN,
         new.endpoint <= made', new.step = "save" => new.endpoint # 0
  PROVE  PushTypes'
<1>1. made \in Nat /\ made' \in Nat /\ made <= made' /\ MaxEndpoints \in Nat
  BY PushAssumption DEF PushInv, PushTypes
<1>2. \A s \in toggles' : s \in Toggle /\ s.endpoint <= made' /\ (s.step = "save" => s.endpoint # 0)
  <2>1. ASSUME NEW s \in toggles PROVE s.endpoint \in Nat /\ s.endpoint <= made
    BY <2>1, PushAssumption DEF PushInv, PushTypes, Toggle
  <2> QED BY <1>1, <2>1 DEF PushInv, PushTypes
<1>3. \A e \in Endpoint : row'[e] # Nobody => e <= made'
  BY <1>1 DEF PushInv, PushTypes, Endpoint
<1>4. gone' \subseteq (1..made') \ {endpoint'}
  BY <1>1 DEF PushInv, PushTypes
<1> QED BY <1>1, <1>2, <1>3, <1>4 DEF PushInv, PushTypes

LEMMA StepAlone ==
  ASSUME PushInv, NEW t \in toggles, NEW new \in Toggle,
         toggles' = (toggles \ {t}) \cup {new},
         muddled' = FALSE => muddled = FALSE,
         muddled' = FALSE /\ InHand(t) /\ toggles' = {new} => InHand(new)',
         PushTypes'
  PROVE  PushInv'
<1>1. ASSUME muddled' = FALSE
      PROVE  InHand(t) /\ toggles' = {new}
  BY <1>1 DEF PushInv, PushOK, InHand
<1> QED BY <1>1 DEF PushInv, PushTypes, PushOK

LEMMA Subscribes ==
  ASSUME PushInv, NEW t \in toggles, Subscribe(t)
  PROVE  PushInv'
<1>0. /\ made \in Nat /\ MaxEndpoints \in Nat /\ made <= MaxEndpoints
      /\ endpoint \in {0, made} /\ t \in Toggle /\ t.step = "key" /\ gone \subseteq 1..made
      /\ endpoint \notin gone
  BY PushAssumption DEF PushInv, PushTypes, Subscribe
<1>1. /\ endpoint' \in 1..MaxEndpoints /\ made' \in made..MaxEndpoints
      /\ endpoint' = made' /\ endpoint' \notin gone
      /\ endpoint # 0 => endpoint' = endpoint
  BY <1>0 DEF Subscribe
<1>2. PICK new \in Toggle :
        /\ toggles' = (toggles \ {t}) \cup {new}
        /\ new.step = "save" /\ new.endpoint = endpoint' /\ new.on = t.on
        /\ new.user = t.user /\ new.mounted = t.mounted
  <2>1. PICK e \in 0..MaxEndpoints : e = endpoint'
    BY <1>0, <1>1
  <2>2. [t EXCEPT !.step = "save", !.endpoint = e] \in Toggle
    <3>1. t \in Toggle
      BY <1>0
    <3> QED BY <3>1 DEF Toggle
  <2> QED BY <1>0, <2>1, <2>2 DEF Subscribe, Toggle
<1>3. PushTypes'
  <2>1. UNCHANGED <<reader, settings, gone, row, muddled>>
    BY DEF Subscribe
  <2>2. row' \in [Endpoint -> Reader \cup {Nobody}] /\ muddled' \in BOOLEAN
    BY <2>1 DEF PushInv, PushTypes
  <2>3. new.endpoint <= made' /\ new.endpoint # 0 /\ endpoint' \in {0, made'}
    BY <1>0, <1>1, <1>2
  <2> QED BY <1>1, <1>2, <2>1, <2>2, <2>3, StepTypes
<1>4. InHand(t) /\ toggles' = {new} => InHand(new)'
  BY <1>0, <1>1, <1>2 DEF InHand, Subscribe
<1> QED BY <1>2, <1>3, <1>4, StepAlone DEF Subscribe

\* The server's part: the row is the user's, or nobody's.
LEMMA Serves ==
  ASSUME PushInv, NEW t \in toggles, SaveSubscription(t) \/ RemoveSubscription(t)
  PROVE  PushInv'
<1>0. /\ t \in Toggle /\ t.endpoint <= made /\ made \in Nat /\ MaxEndpoints \in Nat
      /\ row \in [Endpoint -> Reader \cup {Nobody}] /\ made <= MaxEndpoints
      /\ t.step \in {"save", "remove"} /\ (t.step = "save" => t.endpoint \in 1..made)
      /\ UNCHANGED <<reader, endpoint, made, settings, gone, muddled>>
  BY PushAssumption DEF PushInv, PushTypes, Toggle, SaveSubscription, RemoveSubscription
<1>1. PICK new \in Toggle :
        /\ toggles' = (toggles \ {t}) \cup {new}
        /\ new.step = (IF t.step = "save" THEN "saved" ELSE "removed")
        /\ new.endpoint = t.endpoint /\ new.on = t.on
        /\ new.user = t.user /\ new.mounted = t.mounted
  <2>1. /\ [t EXCEPT !.step = "saved"] \in Toggle /\ [t EXCEPT !.step = "removed"] \in Toggle
    BY <1>0 DEF Toggle
  <2> QED BY <1>0, <2>1 DEF SaveSubscription, RemoveSubscription, Toggle
<1>2. /\ row' \in [Endpoint -> Reader \cup {Nobody}]
      /\ \A e \in Endpoint : row'[e] # row[e] => e <= made
      /\ t.step = "save" => row'[t.endpoint] = t.user
  BY <1>0 DEF SaveSubscription, RemoveSubscription, Endpoint, Toggle
<1>3. PushTypes'
  <2>1. endpoint' \in {0, made'} /\ endpoint' \notin gone /\ made' \in made..MaxEndpoints
    BY <1>0 DEF PushInv, PushTypes
  <2>2. muddled' \in BOOLEAN /\ new.endpoint <= made' /\ new.step # "save"
    BY <1>0, <1>1 DEF PushInv, PushTypes
  <2> QED BY <1>0, <1>1, <1>2, <2>1, <2>2, StepTypes
<1>4. InHand(t) /\ toggles' = {new} => InHand(new)'
  BY <1>0, <1>1, <1>2 DEF InHand
<1> QED BY <1>0, <1>1, <1>3, <1>4, StepAlone

\* A handler that ran alone and to its end leaves the page and the browser at one.
LEMMA Ends ==
  ASSUME PushInv, NEW t \in toggles, SetSubscribed(t)
  PROVE  PushInv'
<1>0. /\ settings \in [open : BOOLEAN, effect : BOOLEAN, subscribed : BOOLEAN]
      /\ t \in Toggle /\ toggles' = toggles \ {t} /\ t.step \in {"saved", "removed"}
      /\ UNCHANGED <<reader, made, row, gone, muddled>>
      /\ endpoint' \in {0, endpoint}
  BY DEF PushInv, PushTypes, SetSubscribed
<1>1. PICK told \in [open : BOOLEAN, effect : BOOLEAN, subscribed : BOOLEAN] :
        /\ settings' = told /\ told.open = settings.open
        /\ t.mounted = TRUE => told.subscribed = t.on
  <2>1. [settings EXCEPT !.subscribed = t.on]
          \in [open : BOOLEAN, effect : BOOLEAN, subscribed : BOOLEAN]
    BY <1>0 DEF Toggle
  <2> QED BY <1>0, <2>1 DEF SetSubscribed
<1>2. PushTypes'
  <2>1. gone \subseteq 1..made /\ endpoint' \in {0, made}
    BY <1>0 DEF PushInv, PushTypes
  <2>2. gone \subseteq (1..made) \ {endpoint'}
    BY <1>0, <2>1 DEF PushInv, PushTypes
  <2>3. /\ settings'.open => reader # Nobody
        /\ settings' \in [open : BOOLEAN, effect : BOOLEAN, subscribed : BOOLEAN]
    BY <1>1 DEF PushInv, PushTypes
  <2> QED BY <1>0, <2>1, <2>2, <2>3 DEF PushInv, PushTypes
<1>3. ASSUME muddled' = FALSE
      PROVE  toggles' = {} /\ AtRest'
  <2>1. muddled = FALSE /\ InHand(t) /\ toggles = {t}
    BY <1>0, <1>3 DEF PushInv, PushOK, InHand
  <2>2. CASE t.on = TRUE
    <3>1. endpoint' = endpoint /\ endpoint # 0 /\ row[endpoint] = reader
      BY <1>0, <2>1, <2>2 DEF SetSubscribed, InHand
    <3>2. settings'.subscribed = TRUE
      BY <1>1, <2>1, <2>2 DEF InHand
    <3> QED BY <1>0, <2>1, <3>1, <3>2 DEF AtRest
  <2>3. CASE t.on = FALSE
    <3>1. endpoint' = 0
      BY <1>0, <2>1, <2>3 DEF SetSubscribed, InHand
    <3>2. settings'.subscribed = FALSE
      BY <1>1, <2>1, <2>3 DEF InHand
    <3> QED BY <1>0, <2>1, <3>1, <3>2 DEF AtRest
  <2> QED BY <1>0, <2>2, <2>3 DEF Toggle
<1> QED BY <1>2, <1>3 DEF PushInv, PushTypes, PushOK

\* What goes wrong is on record.
LEMMA Fails ==
  ASSUME PushInv, NEW t \in toggles, NotGranted(t) \/ Trouble(t)
  PROVE  PushInv'
<1>0. /\ t \in Toggle /\ muddled' = TRUE
      /\ UNCHANGED <<reader, endpoint, made, row, settings, gone>>
  BY DEF PushInv, PushTypes, NotGranted, Trouble
<1>1. CASE toggles' = toggles \ {t}
  BY <1>0, <1>1 DEF PushInv, PushTypes, PushOK
<1>2. CASE toggles' # toggles \ {t}
  <2>1. PICK step \in {"saved", "removed"} :
          toggles' = (toggles \ {t}) \cup {[t EXCEPT !.step = step]}
    BY <1>0, <1>2 DEF NotGranted, Trouble
  <2>2. PICK new \in Toggle : /\ toggles' = (toggles \ {t}) \cup {new}
                              /\ new.endpoint = t.endpoint /\ new.step # "save"
    BY <1>0, <2>1 DEF Toggle
  <2>3. PushTypes'
    <3>1. new.endpoint <= made /\ made \in made..MaxEndpoints
      BY <2>2, PushAssumption DEF PushInv, PushTypes
    <3>2. endpoint \in {0, made} /\ endpoint \notin gone
      BY DEF PushInv, PushTypes
    <3>3. row' \in [Endpoint -> Reader \cup {Nobody}] /\ \A e \in Endpoint : row'[e] = row[e]
      BY <1>0 DEF PushInv, PushTypes
    <3> QED BY <1>0, <2>2, <3>1, <3>2, <3>3, StepTypes
  <2> QED BY <1>0, <2>3 DEF PushInv, PushOK
<1> QED BY <1>1, <1>2

\* The server removes rows of endpoints that are dead, never the present one.
LEMMA Swept ==
  ASSUME PushInv, (\E u \in Reader : SendToUser(u)) \/ (\E e \in gone : DeleteGone(e))
  PROVE  PushInv'
<1>0. UNCHANGED <<reader, endpoint, made, settings, toggles, muddled>>
  BY DEF SendToUser, DeleteGone
<1>1. gone' \subseteq (1..made) \ {endpoint}
  <2>1. ASSUME NEW u \in Reader, SendToUser(u)
        PROVE  gone' \subseteq (1..made) \ {endpoint}
    <3>1. ASSUME NEW e \in Endpoint, row[e] = u
          PROVE  e \in 1..made
      BY <3>1, PushAssumption DEF PushInv, PushTypes, Endpoint
    <3> QED BY <2>1, <3>1 DEF SendToUser, PushInv, PushTypes
  <2> QED BY <2>1 DEF DeleteGone, PushInv, PushTypes
<1>2. /\ row' \in [Endpoint -> Reader \cup {Nobody}]
      /\ \A e \in Endpoint : row'[e] \in {row[e], Nobody}
      /\ endpoint # 0 => row'[endpoint] = row[endpoint]
  <2>1. ASSUME NEW e \in gone, row' = [row EXCEPT ![e] = Nobody]
        PROVE  /\ row' \in [Endpoint -> Reader \cup {Nobody}]
               /\ \A f \in Endpoint : row'[f] \in {row[f], Nobody}
               /\ endpoint # 0 => row'[endpoint] = row[endpoint]
    <3>1. e # endpoint /\ row \in [Endpoint -> Reader \cup {Nobody}]
      BY DEF PushInv, PushTypes
    <3>2. endpoint # 0 => endpoint \in Endpoint
      BY PushAssumption DEF PushInv, PushTypes, Endpoint
    <3> QED BY <2>1, <3>1, <3>2
  <2>2. row' = row \/ \E e \in gone : row' = [row EXCEPT ![e] = Nobody]
    BY DEF SendToUser, DeleteGone
  <2> QED BY <2>1, <2>2 DEF PushInv, PushTypes
<1>3. PushTypes'
  BY <1>0, <1>1, <1>2 DEF PushInv, PushTypes
<1>4. AtRest => AtRest'
  BY <1>0, <1>2 DEF AtRest
<1>5. \A t \in toggles : InHand(t) => InHand(t)'
  BY <1>0, <1>2 DEF InHand
<1> QED BY <1>0, <1>3, <1>4, <1>5 DEF PushInv, PushOK

LEMMA PushInvariant == PushSpec => []PushInv
<1>1. PushInit => PushInv
  BY PushBegins
<1>2. PushInv /\ [PushNext]_pushVars => PushInv'
  <2> SUFFICES ASSUME PushInv, [PushNext]_pushVars
               PROVE  PushInv'
    OBVIOUS
  <2>1. ASSUME NEW u \in Reader, LogInHere(u) PROVE PushInv'
    BY <2>1, LoggedInHere
  <2>2. CASE LogOutHere \/ LeaveSettings
    BY <2>2, PageLeft DEF LogOutHere, LeaveSettings
  <2>3. CASE OpenSettings \/ TokenRenewed \/ GetSubscription
    BY <2>3, PageReads
  <2>4. CASE SubscribeBegin \/ UnsubscribeBegin
    BY <2>4, Pressed
  <2>5. ASSUME NEW t \in toggles,
               \/ Subscribe(t) \/ NotGranted(t) \/ SaveSubscription(t) \/ RemoveSubscription(t)
               \/ SetSubscribed(t) \/ Trouble(t)
        PROVE  PushInv'
    BY <2>5, Subscribes, Serves, Ends, Fails
  <2>6. CASE (\E u \in Reader : SendToUser(u)) \/ (\E e \in gone : DeleteGone(e))
    BY <2>6, Swept
  <2>7. CASE UNCHANGED pushVars
    BY <2>7 DEF PushInv, PushTypes, PushOK, AtRest, InHand, pushVars
  <2> QED BY <2>1, <2>2, <2>3, <2>4, <2>5, <2>6, <2>7 DEF PushNext
<1> QED BY <1>1, <1>2, PTL DEF PushSpec

(***************************************************************************)
(* The browser, the table and the page keep their types: a subscription    *)
(* that is about to be deleted is never the one the browser has.           *)
(***************************************************************************)
THEOREM PushTypeCorrect == PushSpec => []PushTypeOK
<1>1. PushInv => PushTypeOK
  BY PushAssumption DEF PushInv, PushTypes, PushTypeOK, Endpoint
<1> QED BY <1>1, PushInvariant, PTL

(***************************************************************************)
(* The button of the settings page tells the truth: with the page at rest, *)
(* after handlers that ran one at a time and to their ends, it is on       *)
(* exactly if the messages of the user go to this browser.                 *)
(***************************************************************************)
THEOREM ButtonTellsTrue == PushSpec => []ButtonTells
<1>1. PushInv => ButtonTells
  BY DEF PushInv, PushTypes, PushOK, AtRest, ButtonTells
<1> QED BY <1>1, PushInvariant, PTL

=============================================================================
