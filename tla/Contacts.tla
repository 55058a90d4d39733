------------------------------ MODULE Contacts ------------------------------
(***************************************************************************)
(* Contact requests and contacts, as ConnectionsService keeps them in the  *)
(* tables ConnectionRequest and Connection.  A handler is one HTTP request *)
(* being served; it is interrupted at every await of the source, so each   *)
(* action below is what runs between two awaits: one query or one          *)
(* $transaction.  A refusal (a thrown exception) ends the handler.         *)
(***************************************************************************)
EXTENDS Integers, FiniteSets

CONSTANTS
  User,          \* the accounts
  Capped,        \* the accounts whose plan limits contacts (FREE)
  MaxContacts,   \* maxContacts of that plan
  Asking,        \* the directions in which users send requests
  InvitePairs,   \* the pairs that an accepted invite link may connect
  Handler,       \* the requests being served at one time
  None,          \* no pair: the handler is idle
  MaxRows        \* bound of the model: rows created in all

VARIABLES
  conn,     \* the id of the pair's Connection row, 0 when there is none
  req,      \* the ConnectionRequest row of each direction
  lastId,   \* row ids handed out so far
  pc,       \* the query each handler runs next
  dir,      \* the direction <<from, to>> the handler works on
  rid,      \* the id of the row it has read
  todo,     \* accepting: the parties whose limit is still to be checked
  removed   \* history: the id of the last Connection row removed, per pair

vars == <<conn, req, lastId, pc, dir, rid, todo, removed>>

Direction == {d \in User \X User : d[1] # d[2]}
PairOf(d) == {d[1], d[2]}
Pair == {PairOf(d) : d \in Direction}
Directions(pr) == {d \in Direction : PairOf(d) = pr}
Reverse(d) == <<d[2], d[1]>>

ASSUME ContactsAssumption ==
  /\ IsFiniteSet(User) /\ Capped \subseteq User
  /\ MaxContacts \in Nat \ {0}
  /\ Asking \subseteq Direction
  /\ InvitePairs \subseteq Pair
  /\ IsFiniteSet(Handler) /\ Handler # {}
  /\ None \notin Direction
  /\ MaxRows \in Nat

Status == {"none", "pending", "accepted", "rejected"}
NoRequest == [id |-> 0, status |-> "none"]

Step == {"idle", "reqContact", "reqOwn", "reqReverse", "reqUpsert",
         "accCount", "accCommit", "accRead", "rejCommit", "remCommit"}

TypeOK ==
  /\ conn \in [Pair -> Nat]
  /\ req \in [Direction -> [id : Nat, status : Status]]
  /\ lastId \in Nat
  /\ pc \in [Handler -> Step]
  /\ dir \in [Handler -> Direction \cup {None}]
  /\ rid \in [Handler -> Nat]
  /\ todo \in [Handler -> SUBSET User]
  /\ removed \in [Pair -> Nat]
  /\ \A p \in Handler : pc[p] # "idle" => dir[p] \in Direction

Init ==
  /\ conn = [pr \in Pair |-> 0]
  /\ req = [d \in Direction |-> NoRequest]
  /\ lastId = 0
  /\ pc = [p \in Handler |-> "idle"]
  /\ dir = [p \in Handler |-> None]
  /\ rid = [p \in Handler |-> 0]
  /\ todo = [p \in Handler |-> {}]
  /\ removed = [pr \in Pair |-> 0]

ContactsOf(u) == {pr \in Pair : u \in pr /\ conn[pr] # 0}

\* Mutant: the comparison is off by one.
UnderLimitMutant(u) == u \in Capped => Cardinality(ContactsOf(u)) <= MaxContacts

\* checkContactsLimit does not throw for u
UnderLimit(u) == u \in Capped => Cardinality(ContactsOf(u)) < MaxContacts

tables == <<conn, req, lastId, removed>>

Begin(p, d, step, row, users) ==
  /\ pc[p] = "idle"
  /\ pc' = [pc EXCEPT ![p] = step]
  /\ dir' = [dir EXCEPT ![p] = d]
  /\ rid' = [rid EXCEPT ![p] = row]
  /\ todo' = [todo EXCEPT ![p] = users]

\* The handler answers or throws, and is free for another request.
End(p) ==
  /\ pc' = [pc EXCEPT ![p] = "idle"]
  /\ dir' = [dir EXCEPT ![p] = None]
  /\ rid' = [rid EXCEPT ![p] = 0]
  /\ todo' = [todo EXCEPT ![p] = {}]

Goto(p, step) ==
  /\ pc' = [pc EXCEPT ![p] = step]
  /\ UNCHANGED <<dir, rid, todo>>

-----------------------------------------------------------------------------
(* requestByUserId: the limit of the sender, the contact, the request      *)
(* already sent and the request of the other side are four reads; the      *)
(* upsert comes after them.                                                *)

RequestBegin(p, d) ==
  /\ d \in Asking
  /\ UnderLimit(d[1])
  /\ Begin(p, d, "reqContact", 0, {})
  /\ UNCHANGED tables

RequestFindContact(p) ==
  /\ pc[p] = "reqContact"
  /\ IF conn[PairOf(dir[p])] # 0 THEN End(p) ELSE Goto(p, "reqOwn")
  /\ UNCHANGED tables

RequestFindOwn(p) ==
  /\ pc[p] = "reqOwn"
  /\ IF req[dir[p]].status = "pending" THEN End(p) ELSE Goto(p, "reqReverse")
  /\ UNCHANGED tables

\* Mutant: the request of the other side is not looked up.
RequestFindReverseMutant(p) ==
  pc[p] = "reqReverse" /\ Goto(p, "reqUpsert") /\ UNCHANGED tables

RequestFindReverse(p) ==
  /\ pc[p] = "reqReverse"
  /\ IF req[Reverse(dir[p])].status = "pending"
       THEN End(p) ELSE Goto(p, "reqUpsert")
  /\ UNCHANGED tables

RequestUpsert(p) ==
  /\ pc[p] = "reqUpsert"
  /\ LET old == req[dir[p]] IN
     IF old.id = 0
       THEN /\ lastId < MaxRows
            /\ lastId' = lastId + 1
            /\ req' = [req EXCEPT ![dir[p]] =
                         [id |-> lastId + 1, status |-> "pending"]]
       ELSE /\ req' = [req EXCEPT ![dir[p]] =
                         [id |-> old.id, status |-> "pending"]]
            /\ UNCHANGED lastId
  /\ End(p)
  /\ UNCHANGED <<conn, removed>>

-----------------------------------------------------------------------------
(* acceptRequest: the request is read, both parties' limits are counted in *)
(* either order (Promise.all), one transaction writes the contact and the  *)
(* request, and the contact is read back for the answer.  The transaction  *)
(* updates the request by id and fails as a whole when the row is gone.    *)

AcceptBegin(p, d) ==
  /\ req[d].status = "pending"
  /\ Begin(p, d, "accCount", req[d].id, PairOf(d))
  /\ UNCHANGED tables

AcceptCount(p) ==
  /\ pc[p] = "accCount"
  /\ \E u \in todo[p] :
       IF UnderLimit(u)
         THEN /\ todo' = [todo EXCEPT ![p] = @ \ {u}]
              /\ pc' = [pc EXCEPT ![p] =
                          IF todo[p] = {u} THEN "accCommit" ELSE @]
              /\ UNCHANGED <<dir, rid>>
         ELSE End(p)
  /\ UNCHANGED tables

\* connection.upsert
Connect(pr) ==
  IF conn[pr] = 0
    THEN /\ lastId < MaxRows
         /\ lastId' = lastId + 1
         /\ conn' = [conn EXCEPT ![pr] = lastId + 1]
    ELSE UNCHANGED <<conn, lastId>>

AcceptCommit(p) ==
  /\ pc[p] = "accCommit"
  /\ IF req[dir[p]].id = rid[p]
       THEN /\ Connect(PairOf(dir[p]))
            /\ req' = [req EXCEPT ![dir[p]] =
                         [id |-> rid[p], status |-> "accepted"]]
            /\ Goto(p, "accRead")
       ELSE End(p) /\ UNCHANGED <<conn, req, lastId>>
  /\ UNCHANGED removed

AcceptRead(p) ==
  /\ pc[p] = "accRead"
  /\ End(p)
  /\ UNCHANGED tables

-----------------------------------------------------------------------------
(* rejectRequest: the status is read, then written blindly by id.          *)

\* Mutant: a request of any status can be rejected.
RejectBeginMutant(p, d) ==
  /\ req[d].id # 0
  /\ Begin(p, d, "rejCommit", req[d].id, {})
  /\ UNCHANGED tables

RejectBegin(p, d) ==
  /\ req[d].status = "pending"
  /\ Begin(p, d, "rejCommit", req[d].id, {})
  /\ UNCHANGED tables

RejectCommit(p) ==
  /\ pc[p] = "rejCommit"
  /\ req' = IF req[dir[p]].id = rid[p]
              THEN [req EXCEPT ![dir[p]] =
                      [id |-> rid[p], status |-> "rejected"]]
              ELSE req
  /\ End(p)
  /\ UNCHANGED <<conn, lastId, removed>>

-----------------------------------------------------------------------------
(* removeConnection: one transaction deletes the contact by id and the     *)
(* requests of both directions; it fails as a whole when the row is gone.  *)

RemoveBegin(p, d) ==
  /\ conn[PairOf(d)] # 0
  /\ Begin(p, d, "remCommit", conn[PairOf(d)], {})
  /\ UNCHANGED tables

\* Mutant: the request of one direction only is deleted.
RemoveCommitMutant(p) ==
  LET pr == PairOf(dir[p]) IN
  /\ pc[p] = "remCommit"
  /\ IF conn[pr] = rid[p]
       THEN /\ conn' = [conn EXCEPT ![pr] = 0]
            /\ req' = [req EXCEPT ![dir[p]] = NoRequest]
            /\ removed' = [removed EXCEPT ![pr] = rid[p]]
       ELSE UNCHANGED <<conn, req, removed>>
  /\ End(p)
  /\ UNCHANGED lastId

RemoveCommit(p) ==
  LET pr == PairOf(dir[p]) IN
  /\ pc[p] = "remCommit"
  /\ IF conn[pr] = rid[p]
       THEN /\ conn' = [conn EXCEPT ![pr] = 0]
            /\ req' = [d \in Direction |->
                         IF PairOf(d) = pr THEN NoRequest ELSE req[d]]
            /\ removed' = [removed EXCEPT ![pr] = rid[p]]
       ELSE UNCHANGED <<conn, req, removed>>
  /\ End(p)
  /\ UNCHANGED lastId

-----------------------------------------------------------------------------
\* The contact that acceptInvite or register upserts: no request, no limit.
InviteConnect(pr) ==
  /\ pr \in InvitePairs
  /\ conn[pr] = 0
  /\ Connect(pr)
  /\ UNCHANGED <<req, removed, pc, dir, rid, todo>>

\* The server stops: what was not committed is lost with its handlers.
Restart ==
  /\ pc' = [p \in Handler |-> "idle"]
  /\ dir' = [p \in Handler |-> None]
  /\ rid' = [p \in Handler |-> 0]
  /\ todo' = [p \in Handler |-> {}]
  /\ UNCHANGED tables

Next ==
  \/ \E p \in Handler :
       \/ \E d \in Direction :
            \/ RequestBegin(p, d)
            \/ AcceptBegin(p, d)
            \/ RejectBegin(p, d)
            \/ RemoveBegin(p, d)
       \/ RequestFindContact(p)
       \/ RequestFindOwn(p)
       \/ RequestFindReverse(p)
       \/ RequestUpsert(p)
       \/ AcceptCount(p)
       \/ AcceptCommit(p)
       \/ AcceptRead(p)
       \/ RejectCommit(p)
       \/ RemoveCommit(p)
  \/ \E pr \in Pair : InviteConnect(pr)
  \/ Restart

Spec == Init /\ [][Next]_vars

-----------------------------------------------------------------------------
(* Properties *)

(***************************************************************************)
(* A contact that no invite made rests on a request between the two users, *)
(* sent after the contact was last removed: an acceptance that was under   *)
(* way when the contact was removed cannot bring it back.                  *)
(***************************************************************************)
ContactRestsOnRequest ==
  \A pr \in Pair \ InvitePairs : conn[pr] # 0 =>
    \E d \in Directions(pr) : req[d].id > removed[pr]

\* The handlers that have counted u's contacts and have yet to commit.
Cleared(u) == {p \in Handler : /\ pc[p] \in {"accCount", "accCommit"}
                               /\ u \in PairOf(dir[p]) \ todo[p]}

(***************************************************************************)
(* Acceptances count before they commit, so the limit can be exceeded; but *)
(* never by more than the requests served at the same time less one, and   *)
(* those that have counted are already paid for in the bound.  Contacts    *)
(* made by an invite link are not limited by anything.                     *)
(***************************************************************************)
BoundedOvershoot ==
  \A u \in Capped :
    Cardinality(ContactsOf(u) \ InvitePairs) + Cardinality(Cleared(u))
      <= MaxContacts - 1 + Cardinality(Handler)

(***************************************************************************)
(* The plan's limit on contacts, as the comment of acceptRequest states    *)
(* it: both sides are checked before a contact is made.                    *)
(***************************************************************************)
ContactsWithinPlan ==
  \A u \in Capped : Cardinality(ContactsOf(u)) <= MaxContacts
=============================================================================
