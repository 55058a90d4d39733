------------------------------- MODULE Thread -------------------------------
(***************************************************************************)
(* The chats of the dashboard as one user has them on his screen: the      *)
(* contact and the room that are open, the messages shown of each, a cache *)
(* per chat, and everything that changes them, namely answers to requests  *)
(* sent for this chat or for one left since, polls, events of the socket,  *)
(* the address of the page and the user himself.  The server is that of    *)
(* MessageStore, with a table of room messages beside it.  An answer and   *)
(* an event may overtake each other; what one handler or effect of the     *)
(* page does is one action.                                                *)
(***************************************************************************)
EXTENDS MessageStore, SequencesExt

CONSTANTS
  Me,          \* the user in front of this dashboard
  Room,        \* the rooms Me is a member of
  NoChat,      \* no chat
  PageSize,    \* messages on a page (50)
  Retries,     \* how often a request is repeated after a network error (1)
  MaxActs,     \* bound of the model: what people do, and tokens renewed
  MaxFails,    \* bound of the model: requests, answers and sockets lost
  MaxOwn       \* bound of the model: messages sent by Me

VARIABLES
  said,      \* the rows of RoomMessage: a function of the ids that exist
  pinned,    \* the chat that the address names: ?select= or ?room=
  open,      \* selected and selectedRoom
  view,      \* messages and roomMessages
  more,      \* msgCursor while msgHasMore, 0 otherwise; the same for rooms
  loading,   \* msgLoadingMore, roomLoadingMore
  cache,     \* messagesCacheRef
  unread,    \* unreadDirectIds, unreadRoomIds
  badge,     \* the chats whose unreadDirectCount or unreadRoomCount is not 0
  hears,     \* the rooms in whose channels the socket is
  gets,      \* threads asked for and not yet received
  posts,     \* messages being encrypted, or posted and not yet answered
  calls,     \* requests of Me to read, edit or delete, not yet answered
  events,    \* events of the socket on their way to Me
  acts,      \* history: what people have done
  fails,     \* history: requests, answers and sockets lost
  sent,      \* history: messages Me has sent
  copies,    \* history: the rows each of them became
  lost       \* history: the answers to each of them that were lost

tables == <<store, said>>
screen == <<pinned, open, view, more, loading, cache, unread, badge>>
net == <<hears, gets, posts, calls, events>>
counts == <<acts, fails, sent, copies, lost>>
threadVars == <<tables, screen, net, counts>>

Peer == Person \ {Me}
Chat == Peer \cup Room
Kind == {"direct", "room"}
KindOf(c) == IF c \in Room THEN "room" ELSE "direct"

ASSUME ThreadAssumption ==
  /\ Me \in Person /\ NoChat \notin Person \cup Room /\ Person \cap Room = {}
  /\ PageSize \in Nat \ {0}
  /\ {Retries, MaxActs, MaxFails, MaxOwn} \subseteq Nat

\* A message as the page keeps it; ids below zero are temporary.
Item == [id : (-MaxOwn)..MaxMsgs, with : Chat, text : 0..MaxEdits, read : BOOLEAN]
Shown(m) ==
  IF m \in DOMAIN said
    THEN [id |-> m, with |-> said[m].room, text |-> said[m].text, read |-> FALSE]
    ELSE [id |-> m, with |-> CHOOSE p \in Party(m) : p # Me, text |-> msg[m].text,
          read |-> msg[m].read]
Temp(n, c) == [id |-> -n, with |-> c, text |-> 0, read |-> FALSE]

\* listMessages of a room
InRoom(r) == {m \in DOMAIN said : said[m].room = r}

\* getThread: the last messages of the thread, or the last before a message
InThread(c, before) ==
  SetToSortSeq({m \in IF c \in Room THEN InRoom(c) ELSE Between(Me, c) :
                  before = 0 \/ m < before}, <)
PageOf(c, before) ==
  LET all == InThread(c, before)
      first == IF Len(all) > PageSize THEN Len(all) - PageSize + 1 ELSE 1
  IN [i \in 1..(Len(all) - first + 1) |-> Shown(all[first + i - 1])]
CursorOf(page) == IF Len(page) = PageSize THEN page[1].id ELSE 0

ThreadTypeOK ==
  /\ StoreTypeOK
  /\ DOMAIN said \subseteq (1..lastId) \ Live
  /\ \A m \in DOMAIN said : said[m] \in [room : Room, mine : BOOLEAN, text : 0..MaxEdits]
  /\ open.direct \in Peer \cup {NoChat} /\ open.room \in Room \cup {NoChat}
  /\ \A k \in Kind : view[k] \in Seq(Item) /\ more[k] \in 0..MaxMsgs
  /\ \A c \in Chat : cache[c] \in Seq(Item)
  /\ unread \subseteq badge /\ badge \subseteq Chat /\ hears \subseteq Room
  /\ \A g \in gets : g.kind \in {"select", "poll", "more"} /\ g.page \in Seq(Item)
  /\ \A o \in posts : o.n \in 1..sent /\ o.tries \in 0..Retries /\ o.id \in 0..lastId
                     /\ o.held => o.chat \in Peer /\ o.id = 0
  /\ sent \in 0..MaxOwn

\* The lists of contacts and rooms have been loaded, the rooms' channels joined.
ThreadInit ==
  /\ StoreInit /\ said = <<>>
  /\ pinned \in Chat \cup {NoChat}
  /\ open = [k \in Kind |-> NoChat]
  /\ view = [k \in Kind |-> <<>>] /\ more = [k \in Kind |-> 0]
  /\ loading = [k \in Kind |-> FALSE]
  /\ cache = [c \in Chat |-> <<>>] /\ unread = {} /\ badge = {} /\ hears = Room
  /\ gets = {} /\ posts = {} /\ calls = {} /\ events = {}
  /\ acts = 0 /\ fails = 0 /\ sent = 0
  /\ copies = [n \in 1..MaxOwn |-> 0] /\ lost = [n \in 1..MaxOwn |-> 0]

Patch(s, m, Op(_)) == [i \in DOMAIN s |-> IF s[i].id = m THEN Op(s[i]) ELSE s[i]]

\* The effect on every change of what is shown: the open chat is marked as read.
\* The count beside it stays.
Show(k, s) ==
  /\ view' = [view EXCEPT ![k] = s]
  /\ unread' = unread \ {open[k]}

Act == acts < MaxActs /\ acts' = acts + 1

NewGet(kind, c, before) ==
  [kind |-> kind, chat |-> c, before |-> before, done |-> FALSE, page |-> <<>>]

-----------------------------------------------------------------------------
(* Chats are opened and closed: what the cache has is shown, the thread is *)
(* asked for.  Requests for the chat that was open before stay on their    *)
(* way.                                                                    *)

\* The effects when the contact or the room is another one than before, or
\* another object for the same one.
Reopen(now, clicked, again) ==
  LET changed == {k \in Kind : now[k] # open[k] \/ (now[k] \in again \ {NoChat})}
  IN /\ open' = now
     /\ view' = [k \in Kind |->
          IF k \notin changed THEN view[k]
          ELSE IF now[k] = NoChat THEN <<>> ELSE cache[now[k]]]
     /\ more' = [k \in Kind |-> IF k \in changed THEN 0 ELSE more[k]]
     /\ gets' = gets \cup {NewGet("select", now[k], 0) : k \in {j \in changed : now[j] # NoChat}}
     /\ unread' = unread \ (clicked \cup {now[k] : k \in changed})
     /\ badge' = badge \ clicked
     /\ UNCHANGED <<tables, pinned, loading, cache, posts, calls, events, fails, sent, copies, lost>>

SelectContact(p) ==
  /\ open # [direct |-> p, room |-> NoChat]
  /\ Act
  /\ Reopen([direct |-> p, room |-> NoChat], {p}, {})
  /\ UNCHANGED hears

SelectRoom(r) ==
  /\ open # [direct |-> NoChat, room |-> r]
  /\ Act
  /\ Reopen([direct |-> NoChat, room |-> r], {r}, {})
  /\ UNCHANGED hears

\* A message that was searched for: the room, which covers it, stays open.
SelectFound(p) ==
  /\ open.room # NoChat /\ open.direct # p
  /\ Act
  /\ Reopen([open EXCEPT !.direct = p], {}, {})
  /\ UNCHANGED hears

\* A room in the address is opened whenever another chat is.
FollowAddress ==
  /\ pinned \in Room /\ open.room # pinned
  /\ hears' = (hears \ {open.room}) \cup {pinned}
  /\ Reopen([direct |-> NoChat, room |-> pinned], {pinned}, {})
  /\ UNCHANGED acts

\* With every new access token the lists are loaded again, and what the address
\* names is opened again.
ContactsLoaded ==
  /\ pinned \in Peer
  /\ Act
  /\ Reopen([open EXCEPT !.direct = pinned], {}, {pinned})
  /\ UNCHANGED hears

RoomsLoaded ==
  /\ Act
  /\ hears' = Room
  /\ IF pinned \in Room
       THEN Reopen([direct |-> NoChat, room |-> pinned], {pinned}, {pinned})
       ELSE UNCHANGED <<tables, screen, gets, posts, calls, events, fails, sent, copies, lost>>

\* Every 20 seconds.  Bound of the model: not while one is on its way.
Poll(k) ==
  /\ open[k] # NoChat
  /\ ~\E g \in gets : g.kind = "poll" /\ KindOf(g.chat) = k
  /\ gets' = gets \cup {NewGet("poll", open[k], 0)}
  /\ UNCHANGED <<tables, screen, hears, posts, calls, events, counts>>

LoadMore(k) ==
  /\ ~loading[k] /\ more[k] # 0 /\ open[k] # NoChat
  /\ Act
  /\ loading' = [loading EXCEPT ![k] = TRUE]
  /\ gets' = gets \cup {NewGet("more", open[k], more[k])}
  /\ UNCHANGED <<tables, pinned, open, view, more, cache, unread, badge, hears, posts, calls,
                 events, fails, sent, copies, lost>>

\* The server reads the thread.
GetThread(g) ==
  /\ ~g.done
  /\ gets' = (gets \ {g}) \cup {[g EXCEPT !.done = TRUE, !.page = PageOf(g.chat, g.before)]}
  /\ UNCHANGED <<tables, screen, hears, posts, calls, events, counts>>

\* The messages received with an opened chat are marked as read.
ReadAll(g) ==
  {[kind |-> "read", id |-> g.page[i].id, text |-> 0, done |-> FALSE] :
     i \in {j \in DOMAIN g.page : /\ g.kind = "select" /\ g.page[j].id \in Live
                                 /\ msg[g.page[j].id].to = Me /\ ~g.page[j].read}}

\* Mutant: a poll is dropped when something is shown already.
ReceiveMutant(g) ==
  LET k == KindOf(g.chat)
  IN /\ g.done
     /\ gets' = gets \ {g}
     /\ more' = [more EXCEPT ![k] = CursorOf(g.page)]
     /\ IF g.kind = "poll" /\ view[k] # <<>> THEN UNCHANGED <<view, unread>>
        ELSE Show(k, IF g.kind = "more" THEN g.page \o view[k] ELSE g.page)
     /\ loading' = IF g.kind = "more" THEN [loading EXCEPT ![k] = FALSE] ELSE loading
     /\ cache' = IF g.kind = "more" THEN cache ELSE [cache EXCEPT ![g.chat] = g.page]
     /\ calls' = calls \cup ReadAll(g)
     /\ UNCHANGED <<tables, pinned, open, badge, hears, posts, events, counts>>

\* Whatever chat is open by now, the answer is shown.
Receive(g) ==
  LET k == KindOf(g.chat)
  IN /\ g.done
     /\ gets' = gets \ {g}
     /\ more' = [more EXCEPT ![k] = CursorOf(g.page)]
     /\ Show(k, IF g.kind = "more" THEN g.page \o view[k] ELSE g.page)
     /\ loading' = IF g.kind = "more" THEN [loading EXCEPT ![k] = FALSE] ELSE loading
     /\ cache' = IF g.kind = "more" THEN cache ELSE [cache EXCEPT ![g.chat] = g.page]
     /\ calls' = calls \cup ReadAll(g)
     /\ UNCHANGED <<tables, pinned, open, badge, hears, posts, events, counts>>

\* The network fails; the thread of an opened chat is then shown as empty.
GetFails(g) ==
  LET k == KindOf(g.chat)
  IN /\ fails < MaxFails
     /\ fails' = fails + 1
     /\ gets' = gets \ {g}
     /\ IF g.kind = "select" THEN Show(k, <<>>) /\ more' = [more EXCEPT ![k] = 0]
                             ELSE UNCHANGED <<view, unread, more>>
     /\ loading' = IF g.kind = "more" THEN [loading EXCEPT ![k] = FALSE] ELSE loading
     /\ UNCHANGED <<tables, pinned, open, cache, badge, hears, posts, calls, events, acts, sent,
                    copies, lost>>

-----------------------------------------------------------------------------
(* doSend: the message is shown under a temporary id, posted, and replaced *)
(* by the answer, or taken away when the request fails.  fetchWithRetry    *)
(* posts it again after a network error, whether the server got it or not. *)

\* It is put after whatever is shown by then, and that is kept for its chat.
ShowTemp(k, n, c) ==
  LET next == Append(view[k], Temp(n, c))
  IN /\ Show(k, next)
     /\ cache' = [cache EXCEPT ![c] = next]

\* In an encrypted chat the key of the contact is awaited first.
DoSend ==
  LET k == IF open.room # NoChat THEN "room" ELSE "direct"
      n == sent + 1
  IN /\ open[k] # NoChat /\ sent < MaxOwn
     /\ lastId + Cardinality(posts) < MaxMsgs
     /\ Act
     /\ sent' = n
     /\ \E held \in BOOLEAN :
          /\ held => k = "direct"
          /\ posts' = posts \cup {[n |-> n, chat |-> open[k], tries |-> 0, id |-> 0, held |-> held]}
          /\ IF held THEN UNCHANGED <<view, unread, cache>> ELSE ShowTemp(k, n, open[k])
     /\ UNCHANGED <<tables, pinned, open, more, loading, badge, hears, gets, calls, events,
                    fails, copies, lost>>

\* encryptForPeer has returned; another chat may be open.
EncryptForPeer(o) ==
  /\ o.held
  /\ posts' = (posts \ {o}) \cup {[o EXCEPT !.held = FALSE]}
  /\ ShowTemp("direct", o.n, o.chat)
  /\ UNCHANGED <<tables, pinned, open, more, loading, badge, hears, gets, calls, events, counts>>

\* RoomsService.sendMessage
Say(r, mine) ==
  /\ lastId < MaxMsgs
  /\ lastId' = lastId + 1
  /\ said' = [m \in DOMAIN said \cup {lastId + 1} |->
                IF m \in DOMAIN said THEN said[m] ELSE [room |-> r, mine |-> mine, text |-> 0]]
  /\ UNCHANGED <<msg, reacts>>

\* What the server sends, Me hears of a room if the socket is in its channel.
Told(kind, c, m, text) ==
  events' = IF c \in Room \ hears THEN events
            ELSE events \cup {[kind |-> kind, chat |-> c, id |-> m, text |-> text]}

\* One's own message comes back from the channel of the room.
PostMessage(o) ==
  /\ ~o.held /\ o.id = 0
  /\ IF o.chat \in Room
       THEN Say(o.chat, TRUE) /\ Told("newMessage", o.chat, lastId + 1, 0)
       ELSE Post(Me, o.chat, 0) /\ UNCHANGED <<said, events>>
  /\ posts' = (posts \ {o}) \cup {[o EXCEPT !.id = lastId + 1]}
  /\ copies' = [copies EXCEPT ![o.n] = @ + 1]
  /\ UNCHANGED <<screen, hears, gets, calls, acts, fails, sent, lost>>

\* The row as it was written.
Posted(o) == [Temp(o.n, o.chat) EXCEPT !.id = o.id]

PostAnswered(o) ==
  LET Replace(item) == Posted(o)
      k == KindOf(o.chat)
  IN /\ o.id # 0
     /\ posts' = posts \ {o}
     /\ Show(k, Patch(view[k], -o.n, Replace))
     /\ cache' = [cache EXCEPT ![o.chat] = Patch(@, -o.n, Replace)]
     /\ UNCHANGED <<tables, pinned, open, more, loading, badge, hears, gets, calls, events, counts>>

\* Mutant: the request is repeated for as long as it fails.
PostFailsMutant(o) ==
  /\ ~o.held /\ fails < MaxFails
  /\ fails' = fails + 1
  /\ lost' = [lost EXCEPT ![o.n] = IF o.id # 0 THEN @ + 1 ELSE @]
  /\ posts' = posts \cup {[o EXCEPT !.tries = Retries, !.id = 0]}
  /\ UNCHANGED <<tables, screen, hears, gets, calls, events, acts, sent, copies>>

PostFails(o) ==
  LET k == KindOf(o.chat)
  IN /\ ~o.held /\ fails < MaxFails
     /\ fails' = fails + 1
     /\ lost' = [lost EXCEPT ![o.n] = IF o.id # 0 THEN @ + 1 ELSE @]
     /\ IF o.tries < Retries
          THEN /\ posts' = (posts \ {o}) \cup {[o EXCEPT !.tries = @ + 1, !.id = 0]}
               /\ UNCHANGED <<view, unread>>
          ELSE /\ posts' = posts \ {o}
               /\ Show(k, SelectSeq(view[k], LAMBDA item : item.id # -o.n))
     /\ UNCHANGED <<tables, pinned, open, more, loading, cache, badge, hears, gets, calls, events,
                    acts, sent, copies>>

-----------------------------------------------------------------------------
(* Me edits and deletes; the page follows the answer.  Reading is only     *)
(* told to the other side.  In a room nothing is deleted.                  *)

Ask(kind, m) ==
  /\ calls' = calls \cup {[kind |-> kind, id |-> m, text |-> 0, done |-> FALSE]}
  /\ Act
  /\ UNCHANGED <<tables, screen, hears, gets, posts, events, fails, sent, copies, lost>>

InView(k, m) == \E i \in DOMAIN view[k] : view[k][i].id = m
Asked(m) == \E c \in calls : c.id = m /\ c.kind # "read"

SubmitEdit(m) ==
  /\ InView("direct", m) /\ ~Asked(m) /\ msg[m].from = Me /\ msg[m].text < MaxEdits
  /\ Ask("edit", m)

DeleteDirectMessage(m) == InView("direct", m) /\ ~Asked(m) /\ Ask("delete", m)

SubmitEditRoom(m) ==
  /\ InView("room", m) /\ ~Asked(m) /\ said[m].mine /\ said[m].text < MaxEdits
  /\ Ask("edit", m)

\* RoomsService.editMessage
Reword(m) ==
  /\ said[m].text < MaxEdits
  /\ said' = [said EXCEPT ![m].text = @ + 1]
  /\ Told("messageEdited", said[m].room, m, said[m].text + 1)
  /\ UNCHANGED store

\* The server does what was asked, or refuses because the row is gone.
Serve(c) ==
  LET Done(text) == calls' = (calls \ {c}) \cup {[c EXCEPT !.done = TRUE, !.text = text]}
  IN /\ ~c.done
     /\ \/ c.id \in DOMAIN said /\ Reword(c.id) /\ Done(said[c.id].text + 1)
        \/ c.kind = "read" /\ MarkRead(c.id) /\ calls' = calls \ {c} /\ UNCHANGED <<said, events>>
        \/ c.kind = "edit" /\ Edit(c.id) /\ Done(msg[c.id].text + 1) /\ UNCHANGED <<said, events>>
        \/ c.kind = "delete" /\ Delete(c.id) /\ Done(0) /\ UNCHANGED <<said, events>>
        \/ /\ c.id \notin Live \cup DOMAIN said
           /\ calls' = calls \ {c} /\ UNCHANGED <<tables, events>>
     /\ UNCHANGED <<screen, hears, gets, posts, counts>>

Answered(c) ==
  LET k == IF c.id \in DOMAIN said THEN "room" ELSE "direct"
      NewText(item) == [item EXCEPT !.text = c.text]
  IN /\ c.done
     /\ calls' = calls \ {c}
     /\ Show(k, IF c.kind = "edit" THEN Patch(view[k], c.id, NewText)
                ELSE SelectSeq(view[k], LAMBDA item : item.id # c.id))
     /\ UNCHANGED <<tables, pinned, open, more, loading, cache, badge, hears, gets, posts, events,
                    counts>>

-----------------------------------------------------------------------------
(* The other side, and the events the server sends Me about it.            *)

Others == Act /\ UNCHANGED <<screen, hears, gets, posts, calls, fails, sent, copies, lost>>

PeerSends(p) ==
  /\ lastId + Cardinality(posts) < MaxMsgs
  /\ Post(p, Me, 0) /\ UNCHANGED said
  /\ Told("newMessage", p, lastId + 1, 0)
  /\ Others

PeerReads(p, m) ==
  /\ msg[m].to = p /\ ~msg[m].read
  /\ MarkRead(m) /\ UNCHANGED said
  /\ Told("messageRead", p, m, 0)
  /\ Others

PeerEdits(p, m) ==
  /\ msg[m].from = p
  /\ Edit(m) /\ UNCHANGED said
  /\ Told("messageEdited", p, m, msg[m].text + 1)
  /\ Others

\* A deletion is told to nobody.
PeerDeletes(p, m) ==
  /\ p \in Party(m)
  /\ Delete(m) /\ UNCHANGED <<said, events>>
  /\ Others

MemberSays(r) ==
  /\ lastId + Cardinality(posts) < MaxMsgs
  /\ Say(r, FALSE)
  /\ Told("newMessage", r, lastId + 1, 0)
  /\ Others

MemberEdits(m) == ~said[m].mine /\ Reword(m) /\ Others

\* The server's event is handled by the page and by SocketProvider.
Handle(e) ==
  LET k == KindOf(e.chat)
      Mark(item) == [item EXCEPT !.read = TRUE]
      NewText(item) == [item EXCEPT !.text = e.text]
  IN /\ events' = events \ {e}
     /\ CASE e.kind = "newMessage" ->
               /\ unread' = unread \cup {e.chat} /\ badge' = badge \cup {e.chat}
               /\ UNCHANGED <<view, cache>>
          [] e.kind = "messageRead" ->
               /\ Show("direct", Patch(view.direct, e.id, Mark))
               /\ cache' = IF open.direct = NoChat THEN cache
                           ELSE [cache EXCEPT ![open.direct] = Patch(@, e.id, Mark)]
               /\ UNCHANGED badge
          [] e.kind = "messageEdited" ->
               Show(k, Patch(view[k], e.id, NewText)) /\ UNCHANGED <<cache, badge>>
     /\ UNCHANGED <<tables, pinned, open, more, loading, hears, gets, posts, calls, counts>>

\* The socket is lost with what was on its way; the one that follows is in no room.
SocketLost ==
  /\ fails < MaxFails
  /\ fails' = fails + 1
  /\ hears' = {} /\ events' = {}
  /\ UNCHANGED <<tables, screen, gets, posts, calls, acts, sent, copies, lost>>

-----------------------------------------------------------------------------
ThreadNext ==
  \/ \E p \in Peer : SelectContact(p) \/ SelectFound(p)
  \/ \E r \in Room : SelectRoom(r) \/ MemberSays(r)
  \/ FollowAddress \/ ContactsLoaded \/ RoomsLoaded \/ SocketLost \/ DoSend
  \/ \E k \in Kind : Poll(k) \/ LoadMore(k)
  \/ \E g \in gets : GetThread(g) \/ Receive(g) \/ GetFails(g)
  \/ \E o \in posts : EncryptForPeer(o) \/ PostMessage(o) \/ PostAnswered(o) \/ PostFails(o)
  \/ \E m \in Live : SubmitEdit(m) \/ DeleteDirectMessage(m)
  \/ \E m \in DOMAIN said : SubmitEditRoom(m) \/ MemberEdits(m)
  \/ \E c \in calls : Serve(c) \/ Answered(c)
  \/ \E p \in Peer :
       \/ PeerSends(p)
       \/ \E m \in Live : PeerReads(p, m) \/ PeerEdits(p, m) \/ PeerDeletes(p, m)
  \/ \E e \in events : Handle(e)

\* An effect runs after the change it depends on; the interval fires as long as
\* the page is open, the server answers and what it answers arrives, if perhaps
\* much later.
Fairness ==
  /\ WF_threadVars(FollowAddress)
  /\ \A k \in Kind :
       /\ WF_threadVars(Poll(k))
       /\ WF_threadVars(\E g \in gets : KindOf(g.chat) = k /\ GetThread(g))
       /\ WF_threadVars(\E g \in gets : KindOf(g.chat) = k /\ Receive(g))

ThreadSpec == ThreadInit /\ [][ThreadNext]_threadVars /\ Fairness

-----------------------------------------------------------------------------
(* Properties *)

(***************************************************************************)
(* Answers to chats left since, old answers, lost events, a lost socket,   *)
(* failed requests and a message whose encryption outlasts its chat may    *)
(* all put wrong messages on the screen; but once people stop writing and  *)
(* switching, an open chat shows its thread and has lost its mark among    *)
(* the unread ones, for good.  The count of its unread messages is another *)
(* matter: it stays until the chat is clicked.                             *)
(***************************************************************************)
ScreenFollows ==
  \A k \in Kind :
    <>[](open[k] # NoChat => view[k] = PageOf(open[k], 0) /\ open[k] \notin unread)

(***************************************************************************)
(* A message is posted again after a network error although the first      *)
(* request may have been served; it is stored twice only if an answer to   *)
(* it was lost, and never more than once for every answer lost.            *)
(***************************************************************************)
OneCopyUnlessLost == \A n \in 1..sent : copies[n] <= 1 + lost[n]

\* Earlier pages of a contact's thread, or of a room's, on their way.
Earlier(k) == {g \in gets : g.kind = "more" /\ KindOf(g.chat) = k}

(***************************************************************************)
(* loadMoreMessages puts a page before what is shown, whatever is shown by *)
(* then.  No page of the same kind is asked for meanwhile, whichever chats *)
(* are opened and polled; and when it has come or failed, the next one can *)
(* be: the flag is up exactly while a page is on its way.                  *)
(***************************************************************************)
LoadsOnce ==
  \A k \in Kind : /\ loading[k] <=> Earlier(k) # {}
                  /\ \A g, h \in Earlier(k) : g = h
=============================================================================
