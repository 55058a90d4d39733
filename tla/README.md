# A TLA+ model of Corsy

Corsy (the repository calls it Connexy in places) is an invite-only messenger:
a NestJS server over PostgreSQL (Prisma), a socket.io gateway, a Next.js client
and an Expo client. This directory models the parts of it where the order of
things matters, checks them with TLC and proves the central facts with TLAPS.
Paths below are relative to `src/`; `B` stands for `backend/src`.

## 1. Inventory

| Component | State | Operations | Talks to |
|---|---|---|---|
| Contacts (`B/connections/connections.service.ts`) | tables `Connection`, `ConnectionRequest` | request, accept, reject, remove, list | plan guard; direct messages read `Connection` |
| Invites (same file, `B/auth/auth.service.ts`) | table `Invite` (`usedCount`, `maxUses`, `isActive`, `expiresAt`, `usedAt`) | create, revoke, clear, accept, register with | contacts (an accepted invite connects), plan guard |
| Plan guard (`B/common`) | `User.plan`, `planExpiresAt` | the four limits; the downgrade of an expired plan | read by contacts, rooms, invites |
| Payments (`B/payments`), administration | `Subscription`, `stripeCustomerId` | checkout, four webhook events, updateUserPlan | sets the plan |
| Rooms (`B/rooms`) | tables `Room`, `RoomMember`, `RoomMessage` | create, join, leave, delete, post, edit; the hourly cleanup in `main.ts` | plan guard, gateway |
| Gateway (`B/chat/chat.gateway.ts`) | `userSockets`, socket.io channels `user:` and `room:` | connect, disconnect, joinRoom, leaveRoom, broadcasts, call signalling | called by rooms, messages and reactions |
| Direct messages, reactions (`B/messages`) | tables `Message`, `MessageReaction` | send, edit, remove, mark as read, toggle | contacts, gateway |
| Sessions (`B/security/token-refresh.service.ts`, `B/auth`) | table `RefreshToken` | login, rotate, logout | clients |
| Registration, verification (`B/auth`) | `User.isVerified`, `EmailVerification`, `RateLimit` | register, verify, resend | invites, sessions |
| Second factor (`B/security/two-factor.service.ts`) | `totpSecret`, `pendingTotpSecret`, `backupCodes` | setup, activate, use a code, disable | sessions |
| Waitlist (`B/waitlist`, `frontend/app/admin/waitlist`) | table `Waitlist`; the administrator's list and filter | join, send invite, reject, delete; load the list | invites, mail |
| Push (`B/push`, `frontend/hooks/use-push-notifications.ts`) | table `PushSubscription`; the browser's subscription, the button of the settings | subscribe, unsubscribe, send | browsers' push services |
| Phone session (`mobile/lib`, `mobile/store/auth.ts`) | refresh token in secure storage, user and tokens in memory | launch, login, refresh, logout | sessions |
| 1:1 calls (`frontend/app/calls`, `hooks/use-webrtc.ts`) | call state, 45 s timer, peer connection | offer, answer, reject, end, ICE | gateway |
| Group calls (`frontend/hooks/use-group-webrtc.ts`) | a peer connection per member | join, offer, answer, leave | gateway |
| Client session (`frontend/lib/api.ts`, `store/auth.ts`) | access token in memory, refresh in flight | request with retry, refresh, logout | sessions |
| Dashboard (`frontend/app/dashboard/page.tsx`) | the chat that is open, its messages, a cache per chat, unread marks | select, poll, load more, send, edit, delete, socket events | direct messages, rooms, gateway |
| E2E keys (`*/use-e2e.ts`) | key pair, peers' public keys | make or load at login, publish, reset, clear at logout; fetch others' | users |
| Mail, uploads, LiveKit | none of their own that others rely on | delivery | external services |

**What is hard.** Node runs one handler at a time *between awaits*; every `await`
on the database lets any other request in. Hardly any check is made in the
transaction that relies on it, so the questions are: which rules survive two
requests at once, and by how much do the others fail? The server may also stop
between two statements. On the sockets there is the additional order of events
between a client's own requests, and a membership that is checked once and used
for as long as the socket lives. The clients have the same trouble on their side of
the network: what an answer belongs to (a chat, a call, a session) may be gone when it
comes, timers race with answers, and a retry repeats what the server may have done.

**What makes each component correct.**

- *Contacts*: a contact exists because the two users agreed since they were last
  separated; at most one request is pending between two users and none between
  contacts; a request is processed once; the plan's limit holds.
- *Rooms*: the owner remains a member; only who knew the password posts; a quote
  stays in its room; nobody vanishes silently; limits hold; an expired room goes.
- *Channels*: only who has entered a room hears it.
- *Sessions*: a refresh token has one successor at most, whatever is retried,
  raced or interrupted; a logout ends the sessions; at most ten devices.
- *Invites*: used at most `maxUses` times, never after a revocation; the two limits on
  creating them; a contact made with one is counted.
- *Plans*: who pays has the plan, who stopped paying loses it, in whatever order
  the events arrive.
- *Direct messages*: every request takes effect at once or not at all; only contacts
  write to each other.
- *Accounts*: a code logs in once and a backup code is spent once; guessing is limited.
- *Calls*: media flow between two who see each other; every call ends or connects.
  In a group call everybody meets everybody, and who leaves is gone.
- *Client session*: no tab loses its session for want of a refresh, and none acts for
  a user it does not show.
- *E2E keys*: what is encrypted for a user can be read by him, and nobody encrypts with the
  keys of another.
- *Dashboard*: the open chat comes to show what the server has, and nothing is sent twice.
- *Waitlist*: nobody is sent two links; the list of the administrator shows what is so.
- *Push*: the button tells whether the messages of the user go to this browser.
- *Phone session*: the phone keeps a token that lives, and the one the app works with.

Some of these hold only in a weaker form; what the code does instead is under 7.

## 2. The modules

| Module | Models | Instance |
|---|---|---|
| `Contacts` | contact requests and contacts, query by query | |
| `ContactsOverlap` | `Contacts` with a history of the pairs on which requests overlapped | `MCContacts` |
| `ContactsProofs` | theorems about `Contacts`, `ContactsOverlap` and `Calls` | |
| `Rooms` | rooms, members, room messages, expiry | `MCRooms` |
| `RoomFeed` | `Rooms` composed with the gateway's room channels | `MCRoomFeed` |
| `RoomsProofs` | theorems about `Rooms`, `RoomFeed` and `GroupCalls` | |
| `OneTimeTokens` | abstract: a token has one successor at most | |
| `Sessions` | refresh tokens; implements `OneTimeTokens` | `MCDevices` |
| `SessionsProofs` | theorems about `Sessions`, the refinement, `Keys` and `Thread` | |
| `ClientSession` | the tabs of a browser that share the cookie `Sessions` rotates | `MCClientSession` |
| `MobileSession` | who is logged in on a phone, in memory and in its storage | `MCClientSession` |
| `ClientsProofs` | theorems about `ClientSession` and `MobileSession` | |
| `Keys` | the key pairs of end-to-end encryption, in browsers and on the server | `MCDevices` |
| `Invites` | creation, revocation, clearing, acceptance, registration | `MCInvites` |
| `InvitesProofs` | theorems about `Invites` and `Waitlist` | |
| `Waitlist` | the waitlist, query by query, and the administrator's page | `MCInvites` |
| `Accounts` | e-mail codes, their rate limits, the second factor | `MCAccounts` |
| `AccountsProofs` | theorems about `Accounts` and `Plans` | |
| `Plans` | plans, checkout, the webhook, with Stripe around them | `MCPlans` |
| `MessageStore` | abstract: messages and reactions, every operation atomic | |
| `Messages` | direct messages and reactions, query by query; implements `MessageStore` | `MCMessages` |
| `Push` | the push subscription of a browser, its row, the button | `MCMessages` |
| `MessagesProofs` | theorems about `Messages`, the refinement, and `Push` | |
| `Thread` | the chats, direct and in rooms, of one dashboard over the server `MessageStore` | `MCThread` |
| `Calls` | the call page, its connection, the gateway | `MCCalls` |
| `GroupCalls` | the mesh of a room's call | `MCGroupCalls` |
| `Counts` | lemmas on finite sets that gain or lose a member | |

### How the code is read

**The server.** A **handler** (`Handler`; `Req` in `Accounts`) is a slot for one HTTP
request being served. `pc[p]` names the query that the request runs next and the other
local variables hold what it has read; an action is everything from one `await` to the
next, that is one query or one `$transaction`, with the early returns that follow it.
`Begin` takes a free slot (it does the first query at once), `Goto` goes on, `End`
answers or throws. Reads that decide nothing (the user looked up to exist, the
profile fields returned) have no step. A foreign key that no longer resolves
makes the write throw: the handler ends and nothing is written. `Restart` drops
all the handlers and leaves the tables, at any moment.

*Contacts.* `conn` and `req` are the two tables, keyed by the unordered pair and
by the direction (their unique indexes); a row is its id, so that a row deleted
and made again is another row, which is what `update({where: {id}})` can tell.
`todo` lists the parties whose limit the `Promise.all` of `acceptRequest` has
yet to count, in any order. `InviteConnect` is the upsert of `acceptInvite`,
the only part of invites that this module sees. `removed` is a history variable, and so
is `overlap` of `ContactsOverlap`: the pairs on which two requests were in hand at once,
until the pair has no request left.

*Rooms.* `status` of a room goes from none to live, to expired (the clock, `Expire`)
and to deleted (the owner, or `CleanupExpired`, the timer's `deleteMany`), with
the cascades of the schema in `Delete`. A password check may always fail, so
`JoinCount` may end the handler. Messages are kept as id, room, author, kind and
quoted message; `edited` is the set of those whose text was changed. `entered` is
a history variable.

*RoomFeed.* `sockUser` is `client.data.userId`, `sub` the channels a socket is in,
`joining` the membership checks that have passed and whose `client.join` is yet
to come: the two halves of `handleJoinRoom`. `EmitToRoom` is the last step of
`sendMessage` and `editMessage`.

*Sessions.* Tokens are numbered as they are generated; since `expiresAt` is
computed at that moment from the clock, the numbers order the expiries, and
`horizon` says how many have passed. `tok` keeps, for a row that is gone, the
reason: it was handed in (`redeemed`) or taken back (`revoked`); the code does not
tell these apart, both are a missing row, and the guards never do either.
`parent`, `replayed` and `cut` are history variables.

*Invites.* `row` says whether an invite exists or was cleared; `usedAt` is set exactly when
`usedCount` is not 0, so it has no variable. `seen` is the `usedCount` that the request
read, from which it computes `isActive` in `Mark`, after others may have written it. An
acceptance marks and connects in one transaction; a registration creates the user, marks
and connects in three statements, and its verification code follows them (in `Accounts`).
`Expire` and `Age` are the clock. `joined` are the contacts, each with the invite it came
from; `revoked` and `late` are history. An administrator's invite from the waitlist passes
both limits.

*Accounts.* One account. A code of the e-mail is a number; an `EmailVerification` that is
deleted by the first of two requests makes the second one's transaction fail (`Commit`).
`limit` are the two rows of `RateLimit` (guesses, resends), each a count and whether its
window is open: `Upsert` increments, `NewWindow` is the second statement, which starts
over a row whose window is over. `tries` counts the wrong codes, and the mails, of the
present window, whether or not `limit` has counted them. A secret is the number of the setup that made it, a
backup code a pair of setup and place, so that `OneSetup` can say whose codes go with
which secret. TOTP itself is a library's: any request may bring a right token.

*Plans.* Time is counted in billing periods. A subscription's `State` is what an event
carries and what the row copies. Stripe is external: it opens a session (`offers`), takes a
payment, renews, changes, fails to collect and cancels, records each as an event, and
delivers every event until the webhook has answered it, so again after a restart, and in
any order; `IsNext` tells the deliveries that are in order from the others, which count as
faults (`upset`). `FirstQuery` is where the three kinds of event part. `upset` is history:
what may cost a user his plan.

*Messages.* `msg` and `key` are the two tables; a reaction is keyed by message, user and
emoji, its unique index. A handler holds the message it has read by its id (`arg`), and what
it found in `opt`. An update of a row that has gone throws. `old` are the messages that can
no longer be edited. `MessageStore` has the same tables and no handlers.

**The clients.** There an action is what one event handler, one continuation of an `await`
or one effect does; React's state is a record, requests and signals under way are sets or
queues, answered in any order except where the code or the transport orders them.

*Thread.* The user `Me` with the chats of his contacts and rooms. `gets`, `posts` and `calls`
are requests under way, `events` what the socket has for this browser. `open`, `view`, `more`,
`loading`, `cache`, `unread` are the component's state, one of each for contacts and one for
rooms where the component has two; both may be open at once, the room on top. `badge` are the chats whose count of unread
messages is not 0, which only a click on the chat clears, or the room in the address. `pinned` is
the chat that the address names. A message in `posts` that is `held` waits for the key of the
contact; it appears on the screen when that is there (`EncryptForPeer`), whatever is open by then. `hears` are the rooms whose channel the socket is in: all of
them when the list of rooms was loaded, none after the socket was lost. A temporary message
has a negative id. `PostFails` is a network error of `lib/api.ts`, before or after the server
has served the request, followed by its one retry. The server answers as `getThread` does, in
pages; `said` are the messages of rooms; `PeerSends`, `MemberSays` and their like are the
other users.

*Calls.* Every user has one window; `page` is the call page with its state, timer and
connection, `ringing` the toast's store. `net[u][v]` is what the gateway has from `u` for
`v`: an offer waits for the caller's name to be looked up, so that what follows may overtake
it (`Due`). `media` are requests for the camera that the user has not answered. A
connection is linked when each side has the other's description and one knows a candidate
of the other. Its `place` says whether its owner's page still holds it: Answer pressed a second
time, while the camera is asked for, makes a second connection (`Made`), which replaces the first
there without closing it, and a camera allowed after the page was left makes one that belongs to
no page. An answer that the connection does not take turns the timer off all the same (`refused`).
A page for an incoming call that is loaded again (`Reload`) has lost the offer and calls, without
a timer. `MaxTurns` bounds refusals, hang-ups, pages left or loaded again, second presses and
tokens renewed together.

*GroupCalls.* `channel` says whether a socket has been joined to the room's channel, or was
before it was lost: after `Reconnect` the page is in no channel until it is opened anew, but
offers and answers, which go to the user, still reach it. `CloseTab` leaves without a word;
what was sent last, and what was on its way to a lost socket, may be lost with it. `orphans` counts cameras allowed after the page was left: they announce a join all the
same. `gcall:join` waits for a query and may be overtaken (`Due`). Candidates travel
with their description and are left out. `heard`, `raced` and `untold` are history; the last are
the tiles without an answer that nothing will take away.

*ClientSession.* A tab has the store's user and token and its socket's user; tabs share the
cookie. A request is sent, served, answered and received in four moments; a tab that is
closed or reloaded leaves its requests behind as orphans, whose answers still set the
cookie. Any request that is refused refreshes the token, also when nobody is logged in any more
(`TryRefreshAccessToken`). The server redeems a token as `Sessions` does when it serves one
request. `blended` are the tabs that may act for another user than they show: because another was
logged in over theirs (`Strangers`), or over the socket that a token connected (`KeepsSocket`),
during a refresh, or because an answer made the cookie another's.

*MobileSession.* `stored` is the token in the secure storage, `app` the store in memory, `flows`
the functions that wait for an answer or for the storage; a flow whose app was killed while
its request is on its way is an orphan. Tokens are numbered, `good` are those the server
would redeem, and a request is served at once, as `OneTimeTokens` allows. `spent`, `mixed` and
`left` are history: tokens revoked or lost with an answer, and whether flows overlapped.

*Push.* `endpoint` is the subscription the browser holds, by number, `row` the table, `toggles` the
handlers of the button, which is not disabled while one runs. A token refresh runs the effect
of the page again. `gone` are the endpoints that a push service has said are dead.

*Waitlist.* `slot` are the requests being served, those the page waits for marked as `watched`, with
the filter of the moment of the click, which the continuation uses. `links` is what has been
made in the table of invites, each with its entry. A retried request is in two slots at once.

*Keys.* Tabs are pairs of a browser and a number: a tab has the user (`loggedIn`) and
`inMemoryKeys` (`mem`), a browser what `localStorage` keeps, which is a pair and the password that
opens it, and the users who have logged in in it (`users`), one of whom its cookie is of. `made`
are all the pairs, each with its user, browser and password. An initialization waits for its
master key in `inits`, and everything after that, up to the request that publishes the key,
happens at once (`LoadKeys`, `GenerateKeys`). The key is stored for the user of the token that the
tab has by then or, after a 401, for that of the cookie: for any user of the browser
(`UploadE2EKey`). `UploadFails` is the second failure in `lib/api.ts`; an answer that is lost makes
it repeat what was done. A login, with keys or without, does not ask whether somebody is logged in
and leaves his keys in memory (`SetAuth`). `troubled` and `crossed` are history: the users whose
initializations overlapped in a browser, were cut off or failed, or whose key another's token was
sent with, and the tabs whose user changed while the keys of the last one were there or to come.

## 3. The runs

| Run | Instance | States | What holds |
|---|---|---|---|
| `Contacts` | 3 users, 2 handlers, one invite pair, 4 row ids, limit 1 | 1.3 M | a contact rests on a request made since it was last removed; overshoot of the limit; crossing requests, pending requests of contacts and rejected acceptances come from overlapping requests only |
| `Rooms` | 2 users, 2 rooms, 2 handlers, 2 messages | 2.3 M | owner, authors and quotes, departures |
| `RoomFeed` | 3 users, 1 room of 2, a socket, 2 handlers, fair timer | 1.9 M | who is in a channel has entered the room; overshoot of the members' limit; an expired room goes |
| `Devices` | `Sessions`: 1 user, 2 handlers, 4 tokens, 2 devices; `Keys`: 2 users, 2 tabs of one browser or of two, 2 initializations, 1 change of password | @DEV@ | refinement of `OneTimeTokens`, devices, logout; the published key is kept under the password it was made with, tabs have their user's keys |
| `Invites` | `Invites`: 2 users, one of them an administrator yet to register, 2 handlers, 2 invites of up to 2 uses, limits 1; `Waitlist`: 1 address, 2 slots, 2 links, 2 lists at once, 1 mishap | 4.0 M | overshoot of uses, revocation, contacts counted; one link to an entry, a list that is current |
| `Accounts` | 2 requests at once, 7 in all, 2 codes, 2 setups of 2 backup codes, 1 failing query | 1.7 M | attempts, codes, backup codes, secrets with their codes |
| `Plans` | 1 user, 2 handlers, 2 subscriptions, 3 events, 2 customers, 1 fault | 1.0 M | the plan follows Stripe; customers lost |
| `Messages` | `Messages`: 3 users, 2 handlers, 2 messages; `Push`: 2 users, 2 endpoints, 2 presses at once, 1 failure | 1.4 M | refinement of `MessageStore`, messages after the removal; the button tells |
| `Thread` | 2 contacts, or 2 rooms, or one of each; 2 messages, pages of 1, 3 acts, 1 failure, fair poll | 0.9 M | the screen comes to show the thread and takes its mark away; copies of a message |
| `Calls` | 3 users, two of whom may call the third, 3 connections, 3 pages, 1 turn | @CALLS@ | media between facing pages, answered calls connect, ringing ends |
| `GroupCalls` | 3 users, 3 pages opened or sockets lost, 6 connections, tabs closed at will | @GROUP@ | who is heard is met; nobody stays whose departure could be heard |
| `ClientSession` | `ClientSession`: 2 users, 2 tabs, 3 tokens, 1 failure, 2 requests at once; `MobileSession`: 2 users, 3 tokens, 2 faults | @CLIENT@ | the cookie is good, a tab acts for whom it shows; the phone's token lives and is the app's |

Four runs (`Devices`, `Invites`, `Messages`, `ClientSession`) are disjoint unions of two modules
that share no state: every behaviour is one of the first module or one of the second, and the
other stands still in it. What a single request at a time guarantees is stated with
concurrency in `ContactsOverlap`, and the liveness of rooms is checked in their composition.
Limits that are counted before they are used are exceeded in one and the same way; a run checks
it for contacts, members of a room, devices and uses of an invite, and the theorems for both
limits on invites. The limits on rooms and on reactions have the same shape and no property.

**Bounds.** `MaxRows`, `MaxMsgs`, `MaxTokens` and their like cap the ids ever handed out; a
step that needs another id is not taken, nothing else is cut. Four rows are a
contact made with its request, removed and made again with another; two messages are a
message and its quote or departure, or one of each of two threads; four tokens are two
logins with two rotations, or one token raced by two requests and its successors. Limits
of one or two stand for the tens of the code: what matters is that they are reached.
Two handlers give every race of two, and that is enough even to bring back a removed
contact: one request is accepted slowly while the other handler removes the contact and
asks again. Three users are the fewest of whom two compete for the last place of the
third, or for one who can be called, or meet in a group call after one of them left. In
`Sessions`, `Plans` and `Accounts` one user is enough: no action reads or writes two users'
rows. In `Keys` two initializations are a login in each of two browsers, a login and a
reset, a login before and after a change of password, or two that overlap. Three events are a purchase, a change and an end; one fault is any one of them
repeated, a restart or a grant, in any place; two requests of a browser at once are a timer or
a retry with a logout. A page of one message makes the second message a second page. That
each bound is large enough to matter is shown for every property by a mutated definition
that violates it within these bounds (`PROJECT.json`, `mutants`). The number of handlers
appears in the bounds on overshoot, which is where the proofs take over from the runs.

**Symmetry** is used for handlers, users, tabs, emoji and requests where no constant
tells them apart, and never in a run with a liveness property.

**Fairness.** `FairFeedSpec` of `RoomFeed` makes `CleanupExpired` fair: `main.ts` runs it
30 s after the start and every hour for as long as the process lives, and swallows its
errors, so it keeps being tried. `Fairness` of `Thread` makes the poll fair, which an
interval fires while a chat is open, and the serving and receiving of the threads asked
for: requests end, answered or not, and an interval repeats the ones that failed; that
failures are finitely many is the bound `MaxFails`. Nothing obliges a person to act, so no
action of a person is fair, and the other modules state safety only.

**Deadlock** is checked where the server may always restart. In the runs whose every step
is bounded (`Plans`, `Messages`, `Thread`, `Calls`, `GroupCalls`, `ClientSession`,
`Accounts`, and `Devices`, whose keys do) the system stops when the bounds are used up, which says nothing of the code, and
the check is off. `Invites` keeps it on: its server may always restart.

## 4. Refinements

- `Sessions` implements `OneTimeTokens` (`RotationIsOneTime`): the delete of `rotate` redeems,
  its create is the successor's. Checked and proved.
- `Messages` implements `MessageStore` (`ImplementsStore`): every write is the whole operation,
  every read a stutter, with the rows of reactions mapped to their keys. Checked and proved.
- `RoomFeed` implements `Rooms` (`FeedImplementsRooms`): the channels only listen. Proved; it
  carries what is proved of `Rooms` over to the composition.
- `Thread` uses `MessageStore` as its server, which that refinement justifies, and
  `ClientSession` a server that redeems as `OneTimeTokens` does.

## 5. The proofs

`ContactsProofs` proves for any finite sets of users and handlers, any limit and any
bound:

- `ContactsTypeCorrect`: the type invariant.
- `ContactsRestOnRequests`. The invariant is not inductive: a handler about to
  commit an acceptance has read its request earlier. The strengthening says
  that ids in the tables have been handed out (`<= lastId`), that no contact id is in
  use twice as a removed one, and that a request handed to a handler is newer than
  the pair's last removal as long as the row it was read from is still there.
- `ContactsOvershootBounded`. Contacts that exist plus handlers that have counted
  never exceed the limit by the number of handlers: a handler that counts sees less
  than the limit, and committing moves it from one set to the other. The
  argument is about cardinalities of sets that lose or gain one element.
- `SerialContactsWithinPlan`: the instance of it with one handler and no invites.
- `PendingRequestsOverlapped`, `RejectionsOverlapped`: crossing requests, pending requests of
  contacts and rejected acceptances need an overlap. While no two requests on a pair were in
  hand at once, the only handler of a pair knows its rows as they are (`OverlapInv`).
- `CallTypeCorrect`, `FaceToFaceHolds`, `AnsweredCallsConnectHolds`, `RingingEndsHolds`, for any
  users, connections and signals under way. An open connection that no other replaced and
  whose page was not left is the one that page has (`PcOK`, `LegOK`); if it took an answer, the one
  it is described by is
  between the same two users, because an answer goes to the peer of the page and is dropped by a page
  that faces somebody else. Of two connections that know each other the later one answered
  the earlier, which its owner has on his page; the candidate of the later one is on its way, kept on that page
  until the answer comes, or with the connection (`BoundOK`). An answer that is refused changes
  no connection, and only switches the timer off.

`SessionsProofs` proves for any users, any finite set of handlers, any limit on devices
and any number of tokens:

- `SessionsTypeCorrect`: the type invariant. That the token to be deleted is a token
  needs a least element of a set of tokens, which the library's order on finite
  sets supplies (`OldestType`).
- `TokensLinked`, the strengthening the rest stands on: a token that was generated but has
  no row belongs to the one handler that generated it; a redeemed token that is being
  replaced belongs to the one handler that redeemed it and has no successor yet; a
  token that others replaced was redeemed.
- `RotationRefines`: `Spec => OneTime!Spec`. The steps that only read, generate or count
  stutter; the delete of `rotate` is `Redeem`, every other delete is a `Revoke`, and the
  create is a `Login` or a `Succeed`, whose guards are what `TokensLinked` says.
- `DevicesBounded`, `SerialDevicesWithinLimit`: tokens alive and handlers about to create
  one are together fewer than the limit and the handlers; ten is exact for one handler.
- `LogoutSpares`, `SerialLogoutIsComplete`: the sessions a logout misses, alive or about to
  be, are fewer than the handlers, since the handler that logs out issues none.
- `KeysTypeCorrect`, `PublishedKeysAreKept`, `TabsHaveOwnKeys`, for any tabs and browsers: the
  invariant follows a pair from where it is made to the server. What a browser keeps for a user
  it made for him under the password it is kept under (`KeptWhereMade`). An upload under way is of
  a pair that is kept in its browser, the pair published last is kept somewhere or is being
  replaced, also by an initialization that finds nothing kept and so must publish (`Answers`), and
  a tab's pair and initialization belong to its user until another one logs in over him.
- `OneCopyUnlessLostHolds`, for any chats, messages, retries and failures: a message has one
  request at a time (`OnePost`), one that is being encrypted included, and while that one waits
  to be served there are no more copies than answers were lost (`StoredCounted`).
- `LoadsOnceHolds`: the page of earlier messages that comes or fails is the only one of its
  kind, since the flag that kept others from being asked for outlives the chat it was raised
  for. It needs that a contact and a room are open where a contact and a room belong (`OpenOK`). No run
  checks it.

`InvitesProofs` proves for any users, any finite set of handlers, any limits and any number
of invites:

- `InvitesTypeCorrect`, `InvitesFresh`: types; an invite is neither used nor revoked before
  it exists.
- `InviteUsesBounded`, `SerialUsesWithinLimit`, `RevocationHolds`: by one lemma, `UseStep`, that
  sorts every step by what it means to one invite: it leaves it alone, finds it, marks it
  or revokes it.
- `EveryContactIsCounted`: the invariant counts, with those already connected, the users
  whom a registration is about to connect.
- `ActiveInvitesBounded`, `MonthlyInvitesBounded`: a check adds a handler below the limit, a
  creation moves it to the invites, and nothing else adds to either. These two are proved
  and no run checks them.
- `WaitlistTypeCorrect`, `LinksAreAccounted`, `PanelIsCurrent`, for any addresses, requests and
  lists. The number of links is not inductive by itself: an entry that is open must have
  fewer, except while its only request has made a link and not yet recorded it, and it must
  stay open as long as that request runs. The page is current because what it shows, or
  what a list has read, is so or an answer that makes it load again is on the way (`Told`).

`RoomsProofs` proves for any users, rooms, handlers, limits and sockets:

- `RoomsTypeCorrect`, `OwnerRemains`, `MessagesInTheirRoom`, `DeparturesAreTold`: every step
  reads, writes or stops the server (`Reads`, `Writes`). What a handler has read must
  remain true while others run: who is about to leave is not the owner, a sender has entered
  the room, what he quotes is there for as long as the room is, who is about to leave has
  said so. With that the invariants are inductive.
- `MembersBounded`: members and handlers about to add one, as for contacts.
- `FeedImplementsRooms`: a step of `RoomFeed` is one of `Rooms` or leaves its state alone.
- `ListenersHaveEntered`: also a join of a channel whose check has passed is of a user who
  has entered.
- `GroupTypeCorrect`, `WhoHearsMeetsHolds`, `NoGhostsHolds`, for any members, pages and
  connections. Of two of whom one heard the other join, one of these holds unless they raced
  (`Meeting`): a join or a departure is still to be heard, the only offer is on its way, the only
  answer is on its way back, or they are linked. An offer without an answer is to somebody
  who is in the call or whose departure, or answer, is still to be heard, or is counted in `untold`
  (`Haunted`): only a departure nobody hears and an offer to somebody who has left add to that.

`MessagesProofs` proves for any users, emoji and handlers, any number of messages:

- `StoreTypeCorrect`, `ServicesImplementStore`: `Spec => Store!Spec` with the abstract state
  computed from the rows. Each write must be allowed by the store at the moment it is made
  although it was checked before: `RepliesOK`, `SendersOK` and `ReactorsOK` say what of the
  check cannot change (the parties of a message that is still there).
- `LateFromThoseUnderWay`: who writes after a removal had been checked before it.
- `PushTypeCorrect`, `ButtonTellsTrue`: when nothing has overlapped, there is no handler and the
  page agrees with the table, or one handler of a page still open, which has done what its
  step says (`AtRest`, `InHand`).

`AccountsProofs` proves for any finite set of requests, any limits and numbers of codes:

- `AccountsTypeCorrect`; `AttemptsBounded`: the count of a window lags behind the attempts by the
  requests that are checked and not yet counted, those that were counted in a row of an
  earlier window, and those cut short. The invariant has one case for a row that has
  expired and not been restarted and one for all others.
- `CodesLogInOnce`: only one request holds a redeemed code, and the row is gone.
- `BackupCodesSpentOnce`: a code still in force weighs as much as one spent; only a write of a
  list that has changed since it was read brings one back.
- `OneSetupAtATime`: every list of codes that a request has read, or that is stored, belongs to
  the secret in force and to the one that a request is about to put in force.
- `PlansTypeCorrect`, for any users, plans on sale, requests, subscriptions and events. Types
  need what the tables, Stripe and the requests say of each other (`Sound`): an event names a
  subscription of its user, a request of the webhook serves an event of its user, a
  customer that is saved was created for that user.
- `PlanFollowsStripeHolds`. The property speaks of a user whose events are all answered; the
  invariant (`FollowInv`) says what leads there, as long as none of the four things has
  happened to him: the last event tells how his last subscription is and the others have
  ended (`LastTells`), an event that does not open a subscription follows one of the same
  (`Continues`), events are served one by one and in order, and the request that serves
  the last has read the state it reports (`ServedInOrder`), and what the last one answered
  has written is still so, or the plan was taken when it had ended (`Written`). A step either
  touches none of this (`Aside`), reports an event or answers one.
- `BoundedLostHolds`. A request that is about to create or to save a customer holds one
  (`Holders`). Before the first customer is saved none is lost but by restarts, each of which
  takes one from every holder at most; after it, those lost and the holders are together fewer
  than the requests, because each later save loses the customer before and ends a holder
  (`LostInv`).

`ClientsProofs` proves for any users, tabs, requests, tokens and failures:

- `BrowserTypeCorrect`, `CookieStaysGood`: the successor in an answer is known to nobody before
  the answer arrives (`Fresh`), so that nobody can have redeemed it.
- `TabsActForTheirUser`: for a tab that is not `blended` and shows a user, the cookie and every
  token it has sent are his, whether it sent them before or after a logout.
- `PhoneTypeCorrect`, `StoredTokenLives`, `PhoneAgreesAtRest`: the same for a phone, where a token
  is stored and put in memory in two steps.

The assumptions are those the modules name (`...Assumption`): finite sets of handlers and
numbers for the bounds.

That a revoked invite for *several* uses stays revoked does not hold: a use that read it
before the revocation writes `isActive` after it, and it can then be used up. For the same
reason the theorem speaks of single-use invites, which are the default.

Every strengthened invariant was model-checked before it was proved. Two properties that the
runs had confirmed turned out not to be inductive because they were false beyond the bounds
of the runs, and the models were corrected. `tries` of `Accounts` used to include right codes,
which the server does not count: requests with the same right code, of which one deletes
it and the others fail, exceed any bound in time. It now counts wrong codes. And a tab was thought to change its user
only by a login or a refresh of its own: the answer to a refresh of another tab, when it
comes after a login, gives the cookie back to the user before (`Strangers`).

Every safety property that a run checks is thus stated by a theorem. Left to TLC: liveness
(`ExpiredRoomsGo`, `ScreenFollows`), which is out of the prover's reach. The types of what
`Thread` shows (`ThreadTypeOK`) are not proved: pages are sorted and messages taken out of them
by operators that are recursive over sequences. `PlansAssumption`
asks for at least one handler: with none `BoundedLost` would speak of less than no customer.

## 6. Not modelled

Listings and searches of the server (they change nothing), the texts, attachments and names of
messages, password hashing, the audit log, mail and what a push service does with a
notification, LiveKit tokens and uploads, the toast that announces a group call. `Calls` assumes
that a socket is not lost while the app is open, except with its page (`Reload`), after which it is
taken to be connected before the next signal comes: a signal relayed while the addressee has no
socket reaches nobody, as if he had not been called. `GroupCalls` models the loss (`Reconnect`),
after which the page does not join the room's channel again
(`frontend/app/group-call/page.tsx:193`). The ciphers of
the end-to-end encryption are a library's, and a client's cache of the keys of others is filled
once, also with the absence of a key, and emptied at logout. Of the mobile client only the session
is modelled: its chats and calls repeat those of the web client. Of the web pages the chats, the
calls, the session, the button of the settings and the list of the waitlist are modelled; the
rest, and most of the lines of those, load a list, show it and send one request for a button,
so that the share of the implementation these modules stand for is far smaller than the share
of what can go wrong in it. `PROJECT.json` lists every component with its status, and every
hazard with the properties that cover it.

## 7. What the models show

Where the code does less than one might expect, the property states what it does do. The
differences met on the way:

- Two users who ask each other at once both get a pending request
  (`B/connections/connections.service.ts:102`), and a rejection that was read before an
  acceptance turns an accepted request into a rejected one (`:172`).
- Concurrent requests exceed every limit that is counted before it is used, by one less than
  there are requests at once: contacts, rooms, members, devices, invites, reactions.
- `leaveRoom` writes its notice for whoever asks, a member or not (`B/rooms/rooms.service.ts:116`),
  and the sockets of a former member keep hearing the room.
- The README's "family invalidation" of refresh tokens is not there: a token that was
  rotated and is handed in again is refused like one that never existed, and its
  successor lives on.
- A plan that was found expired is set to `FREE` even if it was renewed in between; events
  out of order give a cancelled plan back; two checkouts at once make two customers, of
  whom the account keeps the last.
- A resend that overlaps a registration or a verification leaves a code in force; backup codes
  are written back from a list read before, so that one may be used twice; two setups at once
  activate the secret of one with the codes of the other.
- A late refresh, or a login over a login in another tab, leaves a tab with the token or the
  socket of a user it does not show (`frontend/store/auth.ts:57`); the answer to a refresh of
  one tab that arrives after a login in another makes the cookie the first user's again. A request
  that is refused after a logout brings a token back while nobody is logged in
  (`frontend/lib/api.ts:98`).
- The end of a window lets in what was checked before it: a window may see almost twice as many
  wrong codes as there are requests at once beyond the limit
  (`B/auth/rate-limit.util.ts:15`).
- A call page that hears an answer to an earlier call turns its timer off, whether it has a
  connection of its own, which refuses the answer, or not yet
  (`frontend/app/calls/page.tsx:107`). A page for an incoming call that is loaded again has no
  offer and calls instead, without a timer (`:167`). Answer may be pressed again while the camera is asked
  for (`:281`): the second connection takes the place of the first, which goes on without a page
  if it was linked (`frontend/hooks/use-webrtc.ts:146`). In a group call the one with the smaller id offers to whom it hears
  join: who joins last with the smallest id is connected to nobody who was there before.
- In a group call a peer who leaves before his join has been passed on, or who closes the tab before
  his answer is out, stays on the screens of the others: the gateway does not announce a lost socket to
  the call (`B/chat/chat.gateway.ts:97`). A page whose socket reconnects is in no channel and hears
  neither joins nor departures any more.
- The server has one public key of a user and each browser makes its own pair, so that a login
  in a second browser takes what is sent next from the first (`frontend/hooks/use-e2e.ts:46`).
  A pair is kept before it is published and a failed upload is never repeated: the next
  login finds the pair and sends nothing. A change of password leaves the pair under the old
  one, so that the next login makes another. After a reload there is no password and no pair,
  and messages leave unencrypted (`:103`).
- On the dashboard a room in the address (`?room=`) is opened again whenever another chat is
  selected (`frontend/app/dashboard/page.tsx:331`), and a contact in it (`?select=`) at every
  refresh of the token. A reconnected socket is in no room's channel until the list of rooms is
  loaded again. One's own message comes back from the channel and marks the room, open as it is, as unread
  until something is shown in it. Opening a chat takes its mark away, but the count that a message
  added while the chat was open stays until the chat is clicked
  (`frontend/app/dashboard/page.tsx:684`). A message that waits for the key of the contact appears
  in whatever chat is open by then, and a second press of the button meanwhile sends it twice
  (`:895`). A message found by a search opens its contact underneath the
  room that is open.
- On a phone a refusal that comes late logs out whoever is logged in by then
  (`mobile/lib/api.ts:32`), and a server that fails counts as one that refuses. The chat of the
  phone posts `receiverId`, and the server's schema asks for `to`
  (`B/messages/messages.schemas.ts:10`).
- A logout leaves the push subscription on: the next user of the browser sees the button on while
  the messages of the previous one go there. A save that the server refuses counts as done.
- The waitlist makes a link before it records it, and a change of the filter during a request
  ends with the list of the filter before (`frontend/app/admin/waitlist/page.tsx:160`).
- `frontend/components/socket-provider.tsx:114` waits for `presenceInit` and
  `presenceUpdate`, which the server never sends.
- A logout does not stop an initialization: its pair is set afterwards, perhaps for the next
  user, and its public key is sent with his token (`frontend/hooks/use-e2e.ts:34`). A login over a
  login leaves the keys of the first user in memory (`frontend/app/login/page.tsx:54`) until the
  second one's are made.

## 8. Plan

1. The lists of contacts, rooms and invites that pages keep beside the server's, and the
   composer of the dashboard.
