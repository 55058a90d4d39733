------------------------------- MODULE Invites -------------------------------
(***************************************************************************)
(* Invites, as ConnectionsService and AuthService keep them: creation under *)
(* the limits of the plan and of active invites, revocation, the clearing  *)
(* of the history, acceptance by an account and registration of a new one. *)
(* A handler is one HTTP request being served, an action what runs between *)
(* two awaits of the source that touch the tables.                         *)
(***************************************************************************)
EXTENDS Integers, FiniteSets

CONSTANTS
  User,        \* the accounts, existing and to come
  Founder,     \* those that exist from the start
  Admin,       \* those with isAdmin
  Metered,     \* those whose plan limits the invites of a month
  Handler,     \* the requests being served at one time
  None,        \* no user
  MaxActive,   \* MAX_ACTIVE_INVITES (10)
  MaxMonthly,  \* maxInvitesPerMonth of the limited plan (3)
  MaxUses,     \* bound of the model: the greatest maxUses asked for
  MaxInvites   \* bound of the model: the invites created in all

ASSUME InvitesAssumption ==
  /\ IsFiniteSet(Handler) /\ Handler # {}
  /\ Founder \subseteq User /\ Admin \subseteq User /\ Metered \subseteq User
  /\ None \notin User
  /\ MaxActive \in Nat \ {0} /\ MaxMonthly \in Nat \ {0}
  /\ MaxUses \in Nat \ {0}
  /\ MaxInvites \in Nat

Invite == 1..MaxInvites

VARIABLES
  account,    \* the users that have registered
  lastId,     \* the number of invites created
  row,        \* "none", "there" or "cleared", for each invite
  from,       \* fromUserId
  maxUses,    \* maxUses, 1 when it was not given
  usedCount,  \* usedCount; usedAt is set exactly when it is not 0
  isActive,   \* isActive
  expired,    \* the invites past their expiresAt
  aged,       \* the invites up to this one are older than a month
  joined,     \* the contacts made: <<invite, user>> for {from[invite], user}
  pc,         \* the query each handler runs next
  usr,        \* the user it runs for
  inv,        \* the invite it has found, 0 for the bootstrap token
  seen,       \* that invite's usedCount when it was found
  revoked,    \* history: the invites whose revocation was written
  late        \* history: the uses of each invite since then

invites == <<lastId, row, from, maxUses, usedCount, isActive>>
clock == <<expired, aged>>
locals == <<pc, usr, inv, seen>>
history == <<revoked, late>>
vars == <<account, invites, clock, joined, locals, history>>

Step == {"idle", "newMonth", "newActive", "newRow", "accMark",
         "regUser", "regMark", "regConnect", "revWrite"}

\* The steps of a request that has found an invite and is yet to mark it.
Marking == {"accMark", "regUser", "regMark"}

There(i) == row[i] = "there"

TypeOK ==
  /\ Founder \subseteq account /\ account \subseteq User
  /\ lastId \in 0..MaxInvites /\ aged \in 0..MaxInvites
  /\ row \in [Invite -> {"none", "there", "cleared"}]
  /\ from \in [Invite -> User \cup {None}]
  /\ maxUses \in [Invite -> 1..MaxUses]
  /\ usedCount \in [Invite -> Nat]
  /\ isActive \in [Invite -> BOOLEAN]
  /\ expired \subseteq Invite /\ revoked \subseteq Invite
  /\ joined \subseteq Invite \X User
  /\ pc \in [Handler -> Step]
  /\ usr \in [Handler -> User \cup {None}]
  /\ inv \in [Handler -> Invite \cup {0}]
  /\ seen \in [Handler -> Nat]
  /\ late \in [Invite -> Nat]
  /\ \A p \in Handler : pc[p] # "idle" => usr[p] \in User
  /\ \A p \in Handler :
       pc[p] \in {"accMark", "regMark", "regConnect", "revWrite"} => inv[p] \in Invite
  /\ \A i \in Invite : There(i) => from[i] \in User

Init ==
  /\ account = Founder
  /\ lastId = 0
  /\ row = [i \in Invite |-> "none"]
  /\ from = [i \in Invite |-> None]
  /\ maxUses = [i \in Invite |-> 1]
  /\ usedCount = [i \in Invite |-> 0]
  /\ isActive = [i \in Invite |-> FALSE]
  /\ expired = {} /\ aged = 0
  /\ joined = {}
  /\ pc = [p \in Handler |-> "idle"]
  /\ usr = [p \in Handler |-> None]
  /\ inv = [p \in Handler |-> 0]
  /\ seen = [p \in Handler |-> 0]
  /\ revoked = {}
  /\ late = [i \in Invite |-> 0]

\* What every use of an invite looks for: found by its hash and active, not
\* expired, usedCount below maxUses.
Usable(i) ==
  There(i) /\ isActive[i] /\ i \notin expired /\ usedCount[i] < maxUses[i]

\* The two counts that creation is checked against.
Monthly(u) == {i \in Invite : There(i) /\ from[i] = u /\ i > aged}
Active(u) ==
  {i \in Invite : /\ There(i) /\ from[i] = u /\ isActive[i]
                  /\ i \notin expired /\ usedCount[i] = 0}

Begin(p, u, i, step) ==
  /\ pc[p] = "idle"
  /\ pc' = [pc EXCEPT ![p] = step]
  /\ usr' = [usr EXCEPT ![p] = u]
  /\ inv' = [inv EXCEPT ![p] = i]

Goto(p, step) ==
  /\ pc' = [pc EXCEPT ![p] = step]
  /\ UNCHANGED <<usr, inv, seen>>

\* The handler answers or throws, and is free for another request.
End(p) ==
  /\ pc' = [pc EXCEPT ![p] = "idle"]
  /\ usr' = [usr EXCEPT ![p] = None]
  /\ inv' = [inv EXCEPT ![p] = 0]
  /\ seen' = [seen EXCEPT ![p] = 0]

-----------------------------------------------------------------------------
(* createInviteLink and invite: the invites of the month are counted, then *)
(* the active ones, then the row is written.  That invite() first refuses  *)
(* one's own address and those of contacts changes no table.               *)

CreateBegin(p, u) ==
  /\ u \in account
  /\ Begin(p, u, 0, IF u \in Metered THEN "newMonth" ELSE "newActive")
  /\ UNCHANGED <<account, invites, clock, joined, seen, history>>

CreateMonth(p) ==
  /\ pc[p] = "newMonth"
  /\ IF Cardinality(Monthly(usr[p])) >= MaxMonthly
       THEN End(p)
       ELSE Goto(p, "newActive")
  /\ UNCHANGED <<account, invites, clock, joined, history>>

\* Mutant: only invites that were used are counted.
CreateActiveMutant(p) ==
  /\ pc[p] = "newActive"
  /\ IF Cardinality(Monthly(usr[p]) \ Active(usr[p])) >= MaxActive
       THEN End(p)
       ELSE Goto(p, "newRow")
  /\ UNCHANGED <<account, invites, clock, joined, history>>

CreateActive(p) ==
  /\ pc[p] = "newActive"
  /\ IF Cardinality(Active(usr[p])) >= MaxActive
       THEN End(p)
       ELSE Goto(p, "newRow")
  /\ UNCHANGED <<account, invites, clock, joined, history>>

NewRow(u, n) ==
  /\ lastId < MaxInvites
  /\ lastId' = lastId + 1
  /\ row' = [row EXCEPT ![lastId + 1] = "there"]
  /\ from' = [from EXCEPT ![lastId + 1] = u]
  /\ maxUses' = [maxUses EXCEPT ![lastId + 1] = n]
  /\ isActive' = [isActive EXCEPT ![lastId + 1] = TRUE]
  /\ UNCHANGED usedCount

CreateRow(p, n) ==
  /\ pc[p] = "newRow"
  /\ NewRow(usr[p], n)
  /\ End(p)
  /\ UNCHANGED <<account, clock, joined, history>>

\* sendInvite of the waitlist: an administrator's invite, past both limits.
WaitlistInvite(u) ==
  /\ u \in account \cap Admin
  /\ NewRow(u, 1)
  /\ UNCHANGED <<account, clock, joined, locals, history>>

-----------------------------------------------------------------------------
(* revokeInvite reads the row and then writes it; an invite already used   *)
(* is refused, one already inactive is left alone.                         *)

RevokeBegin(p, i) ==
  /\ There(i) /\ usedCount[i] = 0 /\ isActive[i]
  /\ Begin(p, from[i], i, "revWrite")
  /\ UNCHANGED <<account, invites, clock, joined, seen, history>>

RevokeWrite(p) ==
  /\ pc[p] = "revWrite"
  /\ IF There(inv[p])
       THEN /\ isActive' = [isActive EXCEPT ![inv[p]] = FALSE]
            /\ revoked' = revoked \cup {inv[p]}
       ELSE UNCHANGED <<isActive, revoked>>
  /\ End(p)
  /\ UNCHANGED <<account, lastId, row, from, maxUses, usedCount,
                 clock, joined, late>>

\* clearInvitesHistory deletes all invites of the user, used or not.
Clear(u) ==
  /\ u \in account
  /\ row' = [i \in Invite |-> IF There(i) /\ from[i] = u THEN "cleared" ELSE row[i]]
  /\ UNCHANGED <<account, lastId, from, maxUses, usedCount, isActive,
                 clock, joined, locals, history>>

-----------------------------------------------------------------------------
(* The use of an invite.  usedCount is incremented in the table, isActive  *)
(* is computed from the count that was read when the invite was found; the *)
(* update throws when the row has gone.                                    *)

\* Mutant: the use that is being counted is forgotten.
MarkMutant(p, i) ==
  /\ There(i)
  /\ usedCount' = [usedCount EXCEPT ![i] = @ + 1]
  /\ isActive' = [isActive EXCEPT ![i] = seen[p] < maxUses[i]]
  /\ late' = IF i \in revoked THEN [late EXCEPT ![i] = @ + 1] ELSE late
  /\ UNCHANGED <<lastId, row, from, maxUses, revoked>>

Mark(p, i) ==
  /\ There(i)
  /\ usedCount' = [usedCount EXCEPT ![i] = @ + 1]
  /\ isActive' = [isActive EXCEPT ![i] = seen[p] + 1 < maxUses[i]]
  /\ late' = IF i \in revoked THEN [late EXCEPT ![i] = @ + 1] ELSE late
  /\ UNCHANGED <<lastId, row, from, maxUses, revoked>>

\* Mutant: usedCount is not compared with maxUses.
AcceptBeginMutant(p, i, u) ==
  /\ u \in account /\ u # from[i]
  /\ There(i) /\ isActive[i] /\ i \notin expired
  /\ Begin(p, u, i, "accMark")
  /\ seen' = [seen EXCEPT ![p] = usedCount[i]]
  /\ UNCHANGED <<account, invites, clock, joined, history>>

AcceptBegin(p, i, u) ==
  /\ u \in account /\ u # from[i]
  /\ Usable(i)
  /\ Begin(p, u, i, "accMark")
  /\ seen' = [seen EXCEPT ![p] = usedCount[i]]
  /\ UNCHANGED <<account, invites, clock, joined, history>>

\* One transaction marks the invite and connects the two, unless the
\* inviter is an administrator.
AcceptMark(p) ==
  LET i == inv[p] IN
  /\ pc[p] = "accMark"
  /\ IF There(i)
       THEN /\ Mark(p, i)
            /\ joined' = IF from[i] \in Admin THEN joined
                                              ELSE joined \cup {<<i, usr[p]>>}
       ELSE UNCHANGED <<invites, history, joined>>
  /\ End(p)
  /\ UNCHANGED <<account, clock>>

\* register: the invite is found, or its token is one of the two that the
\* environment configures.
RegisterBegin(p, i, u) ==
  /\ u \notin account
  /\ Usable(i)
  /\ Begin(p, u, i, "regUser")
  /\ seen' = [seen EXCEPT ![p] = usedCount[i]]
  /\ UNCHANGED <<account, invites, clock, joined, history>>

RegisterBootstrap(p, u) ==
  /\ u \notin account
  /\ Begin(p, u, 0, "regUser")
  /\ UNCHANGED <<account, invites, clock, joined, seen, history>>

\* An address that is taken, found so or by the unique index, ends the
\* request before anything is written.
RegisterUser(p) ==
  /\ pc[p] = "regUser"
  /\ account' = account \cup {usr[p]}
  /\ IF usr[p] \in account \/ inv[p] = 0 THEN End(p) ELSE Goto(p, "regMark")
  /\ UNCHANGED <<invites, clock, joined, history>>

\* Mutant: the two are connected although the invite could not be marked.
RegisterMarkMutant(p) ==
  /\ pc[p] = "regMark"
  /\ IF There(inv[p])
       THEN Mark(p, inv[p]) /\ Goto(p, "regConnect")
       ELSE UNCHANGED <<invites, history>> /\ Goto(p, "regConnect")
  /\ UNCHANGED <<account, clock, joined>>

RegisterMark(p) ==
  /\ pc[p] = "regMark"
  /\ IF There(inv[p])
       THEN Mark(p, inv[p]) /\ Goto(p, "regConnect")
       ELSE UNCHANGED <<invites, history>> /\ End(p)
  /\ UNCHANGED <<account, clock, joined>>

RegisterConnect(p) ==
  /\ pc[p] = "regConnect"
  /\ joined' = joined \cup {<<inv[p], usr[p]>>}
  /\ End(p)
  /\ UNCHANGED <<account, invites, clock, history>>

-----------------------------------------------------------------------------
Expire(i) ==
  /\ There(i) /\ i \notin expired
  /\ expired' = expired \cup {i}
  /\ UNCHANGED <<account, invites, aged, joined, locals, history>>

\* The next invite becomes older than a month.
Age ==
  /\ aged < lastId
  /\ aged' = aged + 1
  /\ UNCHANGED <<account, invites, expired, joined, locals, history>>

\* The server stops: its handlers are lost, what they have written stays.
Restart ==
  /\ pc' = [p \in Handler |-> "idle"]
  /\ usr' = [p \in Handler |-> None]
  /\ inv' = [p \in Handler |-> 0]
  /\ seen' = [p \in Handler |-> 0]
  /\ UNCHANGED <<account, invites, clock, joined, history>>

Next ==
  \/ \E p \in Handler :
       \/ \E u \in User : CreateBegin(p, u) \/ RegisterBootstrap(p, u)
       \/ \E i \in Invite : RevokeBegin(p, i)
       \/ \E i \in Invite, u \in User : AcceptBegin(p, i, u) \/ RegisterBegin(p, i, u)
       \/ CreateMonth(p)
       \/ CreateActive(p)
       \/ \E n \in 1..MaxUses : CreateRow(p, n)
       \/ RevokeWrite(p)
       \/ AcceptMark(p)
       \/ RegisterUser(p)
       \/ RegisterMark(p)
       \/ RegisterConnect(p)
  \/ \E u \in User : WaitlistInvite(u) \/ Clear(u)
  \/ \E i \in Invite : Expire(i)
  \/ Age
  \/ Restart

Spec == Init /\ [][Next]_vars

-----------------------------------------------------------------------------
(* Properties *)

\* The requests that have found the invite and may yet mark it.
Holding(i) == {p \in Handler : pc[p] \in Marking /\ inv[p] = i}

(***************************************************************************)
(* usedCount is compared before it is incremented: the uses of an invite,  *)
(* with those under way, exceed maxUses by less than the requests served   *)
(* at one time.                                                            *)
(***************************************************************************)
BoundedUses ==
  \A i \in Invite :
    usedCount[i] + Cardinality(Holding(i)) <= maxUses[i] - 1 + Cardinality(Handler)

(***************************************************************************)
(* An invite for one use stays inactive once it was revoked, although a    *)
(* use that overtakes the revocation writes isActive after it, and only    *)
(* the requests that had found it before are served with it.               *)
(***************************************************************************)
RevokedStaysRevoked ==
  \A i \in revoked : maxUses[i] = 1 =>
    /\ ~isActive[i]
    /\ late[i] + Cardinality(Holding(i)) <= Cardinality(Handler) - 1

(***************************************************************************)
(* Every contact made with an invite was counted as a use of it, wherever  *)
(* a registration stops and whatever was cleared meanwhile.                *)
(***************************************************************************)
ContactsAreCounted ==
  \A i \in Invite : Cardinality({u \in User : <<i, u>> \in joined}) <= usedCount[i]

\* The requests of u that have passed both checks, or the first.
Creating(u, steps) == {p \in Handler : pc[p] \in steps /\ usr[p] = u}

(***************************************************************************)
(* The limit on active invites is exceeded by less than the number of      *)
(* requests served at one time: no use or revocation makes an invite       *)
(* active and unused again.                                                *)
(***************************************************************************)
BoundedActive ==
  \A u \in User \ Admin :
    Cardinality(Active(u)) + Cardinality(Creating(u, {"newRow"}))
      <= MaxActive - 1 + Cardinality(Handler)

(***************************************************************************)
(* So is the plan's limit on the invites of a month, of those not cleared. *)
(***************************************************************************)
BoundedMonthly ==
  \A u \in Metered \ Admin :
    Cardinality(Monthly(u)) + Cardinality(Creating(u, {"newActive", "newRow"}))
      <= MaxMonthly - 1 + Cardinality(Handler)
=============================================================================
