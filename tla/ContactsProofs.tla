--------------------------- MODULE ContactsProofs ---------------------------
(* What holds of Contacts and of Calls for every value of their constants. *)
EXTENDS ContactsOverlap, Calls, Counts, FiniteSetTheorems, TLAPS

-----------------------------------------------------------------------------
(* Directions and pairs *)

LEMMA PairOfType == \A d \in Direction : PairOf(d) \in Pair
  BY DEF Pair

LEMMA ReverseType == \A d \in Direction : Reverse(d) \in Direction
  BY DEF Direction, Reverse

LEMMA DirectionParties == \A d \in Direction : d[1] \in User /\ d[2] \in User
  BY DEF Direction

-----------------------------------------------------------------------------
(* Type correctness.  The four variables of a handler change only through  *)
(* Begin, Goto, End, a limit check and Restart; the tables only in the     *)
(* three commits, the upsert of a request and an invite.                   *)

HandlerTypeOK ==
  /\ pc \in [Handler -> Step]
  /\ dir \in [Handler -> Direction \cup {None}]
  /\ rid \in [Handler -> Nat]
  /\ todo \in [Handler -> SUBSET User]
  /\ \A p \in Handler : pc[p] # "idle" => dir[p] \in Direction

TablesTypeOK ==
  /\ conn \in [Pair -> Nat]
  /\ req \in [Direction -> [id : Nat, status : Status]]
  /\ lastId \in Nat
  /\ removed \in [Pair -> Nat]

LEMMA TypeParts == TypeOK <=> HandlerTypeOK /\ TablesTypeOK
  BY DEF TypeOK, HandlerTypeOK, TablesTypeOK

LEMMA BeginType ==
  ASSUME HandlerTypeOK, NEW p \in Handler, NEW d \in Direction,
         NEW step \in Step, NEW row \in Nat, NEW users \in SUBSET User,
         Begin(p, d, step, row, users)
  PROVE  HandlerTypeOK'
  BY DEF HandlerTypeOK, Begin

LEMMA EndType ==
  ASSUME HandlerTypeOK, NEW p \in Handler, End(p)
  PROVE  HandlerTypeOK'
  BY DEF HandlerTypeOK, End, Step

LEMMA GotoType ==
  ASSUME HandlerTypeOK, NEW p \in Handler, pc[p] # "idle",
         NEW step \in Step, Goto(p, step)
  PROVE  HandlerTypeOK'
  BY DEF HandlerTypeOK, Goto

LEMMA ConnectType ==
  ASSUME TablesTypeOK, NEW pr \in Pair, Connect(pr)
  PROVE  conn' \in [Pair -> Nat] /\ lastId' \in Nat
  BY DEF TablesTypeOK, Connect

LEMMA TablesUnchanged ==
  ASSUME TablesTypeOK, UNCHANGED tables
  PROVE  TablesTypeOK'
  BY DEF TablesTypeOK, tables

LEMMA TypeStep ==
  ASSUME TypeOK, Next
  PROVE  TypeOK'
<1>0. HandlerTypeOK /\ TablesTypeOK
  BY TypeParts
<1>s. {"idle", "reqContact", "reqOwn", "reqReverse", "reqUpsert", "accCount",
       "accCommit", "accRead", "rejCommit", "remCommit"} = Step
  BY DEF Step
<1> SUFFICES HandlerTypeOK' /\ TablesTypeOK'
  BY DEF TypeOK, HandlerTypeOK, TablesTypeOK
<1>1. ASSUME NEW p \in Handler, NEW d \in Direction,
             RequestBegin(p, d) \/ AcceptBegin(p, d)
               \/ RejectBegin(p, d) \/ RemoveBegin(p, d)
      PROVE  HandlerTypeOK' /\ TablesTypeOK'
  <2>1. TablesTypeOK'
    BY <1>0, <1>1, TablesUnchanged
       DEF RequestBegin, AcceptBegin, RejectBegin, RemoveBegin
  <2>2. req[d].id \in Nat /\ conn[PairOf(d)] \in Nat /\ PairOf(d) \in SUBSET User
    BY <1>0, PairOfType, DirectionParties DEF TablesTypeOK, PairOf
  <2>3. HandlerTypeOK'
    BY <1>0, <1>1, <1>s, <2>2, BeginType
       DEF RequestBegin, AcceptBegin, RejectBegin, RemoveBegin
  <2> QED BY <2>1, <2>3
<1>2. ASSUME NEW p \in Handler, RequestFindContact(p)
      PROVE  HandlerTypeOK' /\ TablesTypeOK'
  BY <1>0, <1>2, <1>s, EndType, GotoType, TablesUnchanged DEF RequestFindContact
<1>3. ASSUME NEW p \in Handler, RequestFindOwn(p)
      PROVE  HandlerTypeOK' /\ TablesTypeOK'
  BY <1>0, <1>3, <1>s, EndType, GotoType, TablesUnchanged DEF RequestFindOwn
<1>4. ASSUME NEW p \in Handler, RequestFindReverse(p)
      PROVE  HandlerTypeOK' /\ TablesTypeOK'
  BY <1>0, <1>4, <1>s, EndType, GotoType, TablesUnchanged DEF RequestFindReverse
<1>5. ASSUME NEW p \in Handler, RequestUpsert(p)
      PROVE  HandlerTypeOK' /\ TablesTypeOK'
  <2>1. HandlerTypeOK'
    BY <1>0, <1>5, EndType DEF RequestUpsert
  <2>2. dir[p] \in Direction
    BY <1>0, <1>5 DEF RequestUpsert, HandlerTypeOK
  <2>3. TablesTypeOK'
    BY <1>0, <1>5, <2>2 DEF RequestUpsert, TablesTypeOK, Status
  <2> QED BY <2>1, <2>3
<1>6. ASSUME NEW p \in Handler, AcceptCount(p)
      PROVE  HandlerTypeOK' /\ TablesTypeOK'
  <2>1. TablesTypeOK'
    BY <1>0, <1>6, TablesUnchanged DEF AcceptCount
  <2>2. PICK u \in todo[p] :
          IF UnderLimit(u)
            THEN /\ todo' = [todo EXCEPT ![p] = @ \ {u}]
                 /\ pc' = [pc EXCEPT ![p] =
                             IF todo[p] = {u} THEN "accCommit" ELSE @]
                 /\ UNCHANGED <<dir, rid>>
            ELSE End(p)
    BY <1>6 DEF AcceptCount
  <2>3. CASE UnderLimit(u)
    BY <1>0, <1>6, <2>1, <2>2, <2>3 DEF AcceptCount, HandlerTypeOK, Step
  <2>4. CASE ~UnderLimit(u)
    BY <1>0, <2>1, <2>2, <2>4, EndType
  <2> QED BY <2>3, <2>4
<1>7. ASSUME NEW p \in Handler, AcceptCommit(p)
      PROVE  HandlerTypeOK' /\ TablesTypeOK'
  <2>1. HandlerTypeOK'
    BY <1>0, <1>7, <1>s, EndType, GotoType DEF AcceptCommit
  <2>2. dir[p] \in Direction /\ PairOf(dir[p]) \in Pair /\ rid[p] \in Nat
    BY <1>0, <1>7, PairOfType DEF AcceptCommit, HandlerTypeOK
  <2>3. TablesTypeOK'
    <3>1. CASE req[dir[p]].id = rid[p]
      <4>1. conn' \in [Pair -> Nat] /\ lastId' \in Nat
        BY <1>0, <1>7, <2>2, <3>1, ConnectType DEF AcceptCommit
      <4> QED BY <1>0, <1>7, <2>2, <3>1, <4>1
                 DEF AcceptCommit, TablesTypeOK, Status
    <3>2. CASE req[dir[p]].id # rid[p]
      BY <1>0, <1>7, <3>2 DEF AcceptCommit, TablesTypeOK
    <3> QED BY <3>1, <3>2
  <2> QED BY <2>1, <2>3
<1>8. ASSUME NEW p \in Handler, AcceptRead(p)
      PROVE  HandlerTypeOK' /\ TablesTypeOK'
  BY <1>0, <1>8, EndType, TablesUnchanged DEF AcceptRead
<1>9. ASSUME NEW p \in Handler, RejectCommit(p)
      PROVE  HandlerTypeOK' /\ TablesTypeOK'
  <2>1. HandlerTypeOK'
    BY <1>0, <1>9, EndType DEF RejectCommit
  <2>2. dir[p] \in Direction /\ rid[p] \in Nat
    BY <1>0, <1>9 DEF RejectCommit, HandlerTypeOK
  <2>3. TablesTypeOK'
    BY <1>0, <1>9, <2>2 DEF RejectCommit, TablesTypeOK, Status
  <2> QED BY <2>1, <2>3
<1>10. ASSUME NEW p \in Handler, RemoveCommit(p)
       PROVE  HandlerTypeOK' /\ TablesTypeOK'
  <2>1. HandlerTypeOK'
    BY <1>0, <1>10, EndType DEF RemoveCommit
  <2>2. PairOf(dir[p]) \in Pair /\ rid[p] \in Nat
    BY <1>0, <1>10, PairOfType DEF RemoveCommit, HandlerTypeOK
  <2>3. NoRequest \in [id : Nat, status : Status]
    BY DEF NoRequest, Status
  <2>4. TablesTypeOK'
    BY <1>0, <1>10, <2>2, <2>3 DEF RemoveCommit, TablesTypeOK
  <2> QED BY <2>1, <2>4
<1>11. ASSUME NEW pr \in Pair, InviteConnect(pr)
       PROVE  HandlerTypeOK' /\ TablesTypeOK'
  BY <1>0, <1>11, ConnectType DEF InviteConnect, HandlerTypeOK, TablesTypeOK
<1>12. ASSUME Restart
       PROVE  HandlerTypeOK' /\ TablesTypeOK'
  <2>1. HandlerTypeOK'
    BY <1>12 DEF Restart, HandlerTypeOK, Step
  <2> QED BY <1>0, <1>12, <2>1, TablesUnchanged DEF Restart
<1> QED BY <1>1, <1>2, <1>3, <1>4, <1>5, <1>6, <1>7, <1>8, <1>9, <1>10,
           <1>11, <1>12 DEF Next

(***************************************************************************)
(* The tables and the handlers of ConnectionsService keep their types.     *)
(***************************************************************************)
THEOREM ContactsTypeCorrect == Spec => []TypeOK
<1>1. Init => TypeOK
  BY DEF Init, TypeOK, NoRequest, Status, Step
<1>2. TypeOK /\ [Next]_vars => TypeOK'
  <2>1. TypeOK /\ UNCHANGED vars => TypeOK'
    BY DEF TypeOK, vars
  <2> QED BY <2>1, TypeStep
<1> QED BY <1>1, <1>2, PTL DEF Spec

-----------------------------------------------------------------------------
(* Contacts rest on requests.  Ids only grow, so a request sent after a    *)
(* removal has a larger id than the row removed; and a removal takes the   *)
(* requests of both directions with it, so every request row there is was  *)
(* sent after the last removal.  A handler that read a request before the  *)
(* removal holds an id that no row has any more.                           *)

RowsInv ==
  /\ \A d \in Direction :
       /\ req[d].id <= lastId
       /\ req[d].status = "pending" => req[d].id # 0
       /\ req[d].id # 0 => req[d].id > removed[PairOf(d)]
  /\ \A pr \in Pair : conn[pr] <= lastId /\ removed[pr] <= lastId

AcceptInv ==
  \A p \in Handler :
    pc[p] \in {"accCount", "accCommit", "rejCommit"} => rid[p] # 0

RestInv ==
  \A pr \in Pair \ InvitePairs : conn[pr] # 0 =>
    \E d \in Directions(pr) : req[d].id # 0

LEMMA AcceptInvStep ==
  ASSUME TypeOK, RowsInv, AcceptInv, Next
  PROVE  AcceptInv'
<1>1. ASSUME NEW p \in Handler, End(p)
      PROVE  AcceptInv'
  BY <1>1 DEF AcceptInv, End, TypeOK
<1>2. ASSUME NEW p \in Handler, NEW step \in {"reqOwn", "reqReverse", "reqUpsert", "accRead"},
             Goto(p, step)
      PROVE  AcceptInv'
  BY <1>2 DEF AcceptInv, Goto, TypeOK
<1>3. ASSUME NEW p \in Handler, NEW d \in Direction,
             RequestBegin(p, d) \/ RemoveBegin(p, d)
      PROVE  AcceptInv'
  BY <1>3 DEF AcceptInv, RequestBegin, RemoveBegin, Begin, TypeOK
<1>4. ASSUME NEW p \in Handler, NEW d \in Direction,
             AcceptBegin(p, d) \/ RejectBegin(p, d)
      PROVE  AcceptInv'
  BY <1>4 DEF AcceptInv, RowsInv, AcceptBegin, RejectBegin, Begin, TypeOK
<1>5. ASSUME NEW p \in Handler, AcceptCount(p)
      PROVE  AcceptInv'
  <2>1. PICK u \in todo[p] :
          IF UnderLimit(u)
            THEN /\ pc' = [pc EXCEPT ![p] =
                             IF todo[p] = {u} THEN "accCommit" ELSE @]
                 /\ UNCHANGED rid
            ELSE End(p)
    BY <1>5 DEF AcceptCount
  <2>2. CASE UnderLimit(u)
    BY <1>5, <2>1, <2>2 DEF AcceptInv, AcceptCount, TypeOK
  <2> QED BY <1>1, <2>1, <2>2
<1>6. ASSUME NEW pr \in Pair, InviteConnect(pr)
      PROVE  AcceptInv'
  BY <1>6 DEF AcceptInv, InviteConnect
<1>7. ASSUME Restart
      PROVE  AcceptInv'
  BY <1>7 DEF AcceptInv, Restart
<1> QED BY <1>1, <1>2, <1>3, <1>4, <1>5, <1>6, <1>7
           DEF Next, RequestFindContact, RequestFindOwn, RequestFindReverse,
               RequestUpsert, AcceptCommit, AcceptRead, RejectCommit, RemoveCommit

LEMMA RestInvStep ==
  ASSUME TypeOK, RowsInv, AcceptInv, RestInv, Next
  PROVE  RowsInv' /\ RestInv'
<1>1. ASSUME UNCHANGED tables
      PROVE  RowsInv' /\ RestInv'
  BY <1>1 DEF tables, RowsInv, RestInv
<1>2. ASSUME NEW p \in Handler, RequestUpsert(p)
      PROVE  RowsInv' /\ RestInv'
  <2>1. dir[p] \in Direction /\ PairOf(dir[p]) \in Pair
    BY <1>2, PairOfType DEF RequestUpsert, TypeOK
  <2>2. RowsInv'
    BY <1>2, <2>1, PairOfType DEF RequestUpsert, RowsInv, TypeOK
  <2>3. \A d \in Direction : req[d].id # 0 => req'[d].id # 0
    BY <1>2, <2>1 DEF RequestUpsert, TypeOK
  <2>4. RestInv'
    BY <1>2, <2>3 DEF RequestUpsert, RestInv, Directions
  <2> QED BY <2>2, <2>4
<1>3. ASSUME NEW p \in Handler, AcceptCommit(p)
      PROVE  RowsInv' /\ RestInv'
  <2>1. dir[p] \in Direction /\ PairOf(dir[p]) \in Pair
    BY <1>3, PairOfType DEF AcceptCommit, TypeOK
  <2>2. CASE req[dir[p]].id # rid[p]
    BY <1>1, <1>3, <2>2 DEF AcceptCommit, tables
  <2>3. CASE req[dir[p]].id = rid[p]
    <3>1. Connect(PairOf(dir[p])) /\ UNCHANGED removed
          /\ req' = [req EXCEPT ![dir[p]] =
                        [id |-> rid[p], status |-> "accepted"]]
      BY <1>3, <2>3 DEF AcceptCommit
    <3>2. \A d \in Direction : req'[d].id = req[d].id
                              /\ (req'[d].status = "pending" => req[d].status = "pending")
      BY <2>1, <2>3, <3>1 DEF TypeOK
    <3>3. RowsInv'
      BY <2>1, <3>1, <3>2, PairOfType DEF Connect, RowsInv, TypeOK
    <3>4. dir[p] \in Directions(PairOf(dir[p])) /\ req'[dir[p]].id # 0
      BY <1>3, <2>1, <2>3, <3>2 DEF Directions, AcceptInv, AcceptCommit
    <3>5. \A pr \in Pair : pr # PairOf(dir[p]) => conn'[pr] = conn[pr]
      BY <2>1, <3>1 DEF Connect, TypeOK
    <3>6. RestInv'
      BY <3>2, <3>4, <3>5 DEF RestInv, Directions
    <3> QED BY <3>3, <3>6
  <2> QED BY <2>2, <2>3
<1>4. ASSUME NEW p \in Handler, RejectCommit(p)
      PROVE  RowsInv' /\ RestInv'
  <2>1. dir[p] \in Direction
    BY <1>4 DEF RejectCommit, TypeOK
  <2>2. \A d \in Direction : req'[d].id = req[d].id
                            /\ (req'[d].status = "pending" => req[d].status = "pending")
    BY <1>4, <2>1 DEF RejectCommit, TypeOK
  <2> QED BY <1>4, <2>2 DEF RejectCommit, RowsInv, RestInv, Directions
<1>5. ASSUME NEW p \in Handler, RemoveCommit(p)
      PROVE  RowsInv' /\ RestInv'
  <2> DEFINE pr == PairOf(dir[p])
  <2>1. pr \in Pair
    BY <1>5, PairOfType DEF RemoveCommit, TypeOK
  <2>2. CASE conn[pr] # rid[p]
    BY <1>1, <1>5, <2>2 DEF RemoveCommit, tables
  <2>3. CASE conn[pr] = rid[p]
    <3>1. /\ conn' = [conn EXCEPT ![pr] = 0]
          /\ req' = [d \in Direction |-> IF PairOf(d) = pr THEN NoRequest ELSE req[d]]
          /\ removed' = [removed EXCEPT ![pr] = rid[p]]
          /\ lastId' = lastId
      BY <1>5, <2>3 DEF RemoveCommit
    <3>2. \A d \in Direction : PairOf(d) = pr =>
            req'[d].id = 0 /\ req'[d].status = "none"
      BY <3>1 DEF NoRequest
    <3>3. \A d \in Direction : PairOf(d) # pr =>
            req'[d] = req[d] /\ removed'[PairOf(d)] = removed[PairOf(d)]
      BY <2>1, <3>1, PairOfType DEF TypeOK
    <3>4. \A q \in Pair : conn'[q] <= lastId' /\ removed'[q] <= lastId'
      BY <2>1, <2>3, <3>1 DEF RowsInv, TypeOK
    <3>5. RowsInv'
      BY <3>1, <3>2, <3>3, <3>4 DEF RowsInv, TypeOK
    <3>6. RestInv'
      BY <2>1, <3>1, <3>3 DEF RestInv, Directions, TypeOK
    <3> QED BY <3>5, <3>6
  <2> QED BY <2>2, <2>3
<1>6. ASSUME NEW pr \in Pair, InviteConnect(pr)
      PROVE  RowsInv' /\ RestInv'
  BY <1>6 DEF InviteConnect, Connect, RowsInv, RestInv, TypeOK
<1> QED BY <1>1, <1>2, <1>3, <1>4, <1>5, <1>6
           DEF Next, RequestBegin, AcceptBegin, RejectBegin, RemoveBegin,
               RequestFindContact, RequestFindOwn, RequestFindReverse,
               AcceptCount, AcceptRead, Restart

\* The inductive invariant: rows, the ids that are held, and both together.
LEMMA RowsInvariant == Spec => [](TypeOK /\ RowsInv /\ AcceptInv /\ RestInv)
<1>1. Init => RowsInv /\ AcceptInv /\ RestInv
  BY DEF Init, RowsInv, AcceptInv, RestInv, NoRequest, Pair
<1>2. TypeOK /\ RowsInv /\ AcceptInv /\ RestInv /\ [Next]_vars
        => (RowsInv /\ AcceptInv /\ RestInv)'
  <2>1. RowsInv /\ AcceptInv /\ RestInv /\ UNCHANGED vars
          => (RowsInv /\ AcceptInv /\ RestInv)'
    BY DEF vars, RowsInv, AcceptInv, RestInv
  <2> QED BY <2>1, AcceptInvStep, RestInvStep
<1> QED BY <1>1, <1>2, ContactsTypeCorrect, PTL DEF Spec

(***************************************************************************)
(* Without an invite a contact rests on a request sent after the last      *)
(* removal, however requests, acceptances, rejections and removals of the  *)
(* same pair interleave.                                                   *)
(***************************************************************************)
THEOREM ContactsRestOnRequests == Spec => []ContactRestsOnRequest
<1>1. RowsInv /\ RestInv => ContactRestsOnRequest
  <2> SUFFICES ASSUME RowsInv, RestInv, NEW pr \in Pair \ InvitePairs, conn[pr] # 0
               PROVE  \E d \in Directions(pr) : req[d].id > removed[pr]
    BY DEF ContactRestsOnRequest
  <2>1. PICK d \in Directions(pr) : req[d].id # 0
    BY DEF RestInv
  <2> QED BY <2>1 DEF RowsInv, Directions
<1> QED BY <1>1, RowsInvariant, PTL

-----------------------------------------------------------------------------
(* The bounded overshoot.  A limit check that passes finds the count below *)
(* the limit, and no more handlers can have passed one than there are; a   *)
(* commit adds at most one contact and takes its own handler out of the    *)
(* handlers that have passed; every other step adds to neither set.        *)

Requested(u) == ContactsOf(u) \ InvitePairs

TodoInv == \A p \in Handler : pc[p] = "accCommit" => todo[p] = {}

LEMMA PairFinite == IsFiniteSet(Pair)
<1>1. Pair \subseteq SUBSET User
  BY DirectionParties DEF Pair, PairOf
<1> QED BY <1>1, ContactsAssumption, FS_SUBSET, FS_Subset

LEMMA CountsFinite ==
  ASSUME NEW u
  PROVE  /\ IsFiniteSet(ContactsOf(u)) /\ IsFiniteSet(Requested(u))
         /\ IsFiniteSet(Cleared(u))
         /\ Cardinality(Requested(u)) \in Nat /\ Cardinality(Cleared(u)) \in Nat
         /\ Cardinality(Requested(u)) <= Cardinality(ContactsOf(u))
         /\ Cardinality(Cleared(u)) <= Cardinality(Handler)
         /\ Cardinality(ContactsOf(u)) \in Nat /\ Cardinality(Handler) \in Nat
<1>1. ContactsOf(u) \subseteq Pair /\ Requested(u) \subseteq ContactsOf(u)
        /\ Cleared(u) \subseteq Handler
  BY DEF ContactsOf, Requested, Cleared
<1>2. IsFiniteSet(ContactsOf(u)) /\ IsFiniteSet(Requested(u)) /\ IsFiniteSet(Cleared(u))
  BY <1>1, PairFinite, ContactsAssumption, FS_Subset
<1> QED BY <1>1, <1>2, ContactsAssumption, FS_Subset, FS_CardinalityType

LEMMA CountsFiniteNext ==
  ASSUME NEW u
  PROVE  /\ IsFiniteSet(Requested(u)') /\ IsFiniteSet(Cleared(u)')
         /\ Cardinality(Requested(u))' \in Nat /\ Cardinality(Cleared(u))' \in Nat
         /\ Cardinality(Cleared(u))' <= Cardinality(Handler)
<1>1. Requested(u)' \subseteq Pair /\ Cleared(u)' \subseteq Handler
  BY DEF ContactsOf, Requested, Cleared
<1>2. IsFiniteSet(Requested(u)') /\ IsFiniteSet(Cleared(u)')
  BY <1>1, PairFinite, ContactsAssumption, FS_Subset
<1> QED BY <1>1, <1>2, ContactsAssumption, FS_Subset, FS_CardinalityType

Fits(u) ==
  Cardinality(Requested(u)) + Cardinality(Cleared(u))
    <= MaxContacts - 1 + Cardinality(Handler)

LEMMA FitsShrink ==
  ASSUME NEW u, Fits(u),
         Requested(u)' \subseteq Requested(u), Cleared(u)' \subseteq Cleared(u)
  PROVE  Fits(u)'
<1>1. Cardinality(Requested(u))' <= Cardinality(Requested(u))
        /\ Cardinality(Cleared(u))' <= Cardinality(Cleared(u))
  BY CountsFinite, FS_Subset
<1> QED BY <1>1, CountsFinite, CountsFiniteNext, ContactsAssumption DEF Fits

\* An ending handler leaves the set of those that have passed a check.
LEMMA FitsEnd ==
  ASSUME TypeOK, NEW u, Fits(u), NEW p \in Handler, End(p),
         Requested(u)' \subseteq Requested(u)
  PROVE  Fits(u)'
<1>1. Cleared(u)' \subseteq Cleared(u)
  BY DEF Cleared, End, TypeOK
<1> QED BY <1>1, FitsShrink

LEMMA FitsGoto ==
  ASSUME TypeOK, NEW u, Fits(u), NEW p \in Handler,
         NEW step \in {"reqOwn", "reqReverse", "reqUpsert"}, Goto(p, step),
         UNCHANGED tables
  PROVE  Fits(u)'
<1>1. Cleared(u)' \subseteq Cleared(u)
  BY DEF Cleared, Goto, TypeOK
<1>2. Requested(u)' = Requested(u)
  BY DEF Requested, ContactsOf, tables
<1> QED BY <1>1, <1>2, FitsShrink

LEMMA FitsBegin ==
  ASSUME TypeOK, NEW u, Fits(u), NEW p \in Handler, NEW d \in Direction,
         RequestBegin(p, d) \/ AcceptBegin(p, d)
           \/ RejectBegin(p, d) \/ RemoveBegin(p, d)
  PROVE  Fits(u)'
<1>1. Cleared(u)' \subseteq Cleared(u)
  BY DEF Cleared, RequestBegin, AcceptBegin, RejectBegin, RemoveBegin, Begin, TypeOK
<1>2. Requested(u)' = Requested(u)
  BY DEF Requested, ContactsOf, tables, RequestBegin, AcceptBegin, RejectBegin, RemoveBegin
<1> QED BY <1>1, <1>2, FitsShrink

LEMMA FitsCount ==
  ASSUME TypeOK, NEW u \in Capped, Fits(u), NEW p \in Handler, AcceptCount(p)
  PROVE  Fits(u)'
<1>1. Requested(u)' = Requested(u)
  BY DEF Requested, ContactsOf, tables, AcceptCount
<1>2. PICK v \in todo[p] :
        IF UnderLimit(v)
          THEN /\ todo' = [todo EXCEPT ![p] = @ \ {v}]
               /\ pc' = [pc EXCEPT ![p] =
                           IF todo[p] = {v} THEN "accCommit" ELSE @]
               /\ UNCHANGED dir
          ELSE End(p)
  BY DEF AcceptCount
<1>3. CASE ~UnderLimit(v)
  BY <1>1, <1>2, <1>3, FitsEnd
<1>4. CASE UnderLimit(v) /\ v = u
  <2>1. Cardinality(ContactsOf(u)) < MaxContacts
    BY <1>4 DEF UnderLimit
  <2>2. Cardinality(Requested(u))' <= MaxContacts - 1
    BY <1>1, <2>1, CountsFinite, ContactsAssumption
  <2> QED BY <2>2, CountsFinite, CountsFiniteNext, ContactsAssumption DEF Fits
<1>5. CASE UnderLimit(v) /\ v # u
  <2>1. pc[p] = "accCount"
    BY DEF AcceptCount
  <2>2. Cleared(u)' \subseteq Cleared(u)
    BY <1>2, <1>5, <2>1 DEF Cleared, TypeOK
  <2> QED BY <1>1, <2>2, FitsShrink
<1> QED BY <1>3, <1>4, <1>5

LEMMA FitsCommit ==
  ASSUME TypeOK, TodoInv, NEW u \in Capped, Fits(u), NEW p \in Handler,
         AcceptCommit(p)
  PROVE  Fits(u)'
<1> DEFINE pr == PairOf(dir[p])
<1>1. CASE req[dir[p]].id # rid[p]
  <2>1. End(p) /\ Requested(u)' = Requested(u)
    BY <1>1 DEF AcceptCommit, Requested, ContactsOf
  <2> QED BY <2>1, FitsEnd
<1>2. CASE req[dir[p]].id = rid[p]
  <2>1. Connect(pr) /\ Goto(p, "accRead") /\ pc[p] = "accCommit"
    BY <1>2 DEF AcceptCommit
  <2>2. Cleared(u)' \subseteq Cleared(u) \ {p}
    BY <2>1 DEF Cleared, Goto, TypeOK
  <2>3. CASE u \in pr
    <3>1. p \in Cleared(u)
      BY <2>1, <2>3 DEF Cleared, TodoInv
    <3>2. Cardinality(Cleared(u))' <= Cardinality(Cleared(u)) - 1
      <4>1. IsFiniteSet(Cleared(u) \ {p})
              /\ Cardinality(Cleared(u) \ {p}) = Cardinality(Cleared(u)) - 1
        BY <3>1, CountsFinite, FS_RemoveElement
      <4>2. Cardinality(Cleared(u))' <= Cardinality(Cleared(u) \ {p})
        BY <2>2, <4>1, FS_Subset
      <4> QED BY <4>1, <4>2
    <3>3. Requested(u)' \subseteq Requested(u) \cup {pr}
      BY <2>1 DEF Requested, ContactsOf, Connect, TypeOK
    <3>4. Cardinality(Requested(u))' <= Cardinality(Requested(u)) + 1
      <4>0. IsFiniteSet(Requested(u)) /\ Cardinality(Requested(u)) \in Nat
        BY CountsFinite
      <4>1. IsFiniteSet(Requested(u) \cup {pr})
              /\ Cardinality(Requested(u) \cup {pr}) <= Cardinality(Requested(u)) + 1
        <5> HIDE DEF pr
        <5> QED BY <4>0, FS_AddElement
      <4>2. Cardinality(Requested(u))' <= Cardinality(Requested(u) \cup {pr})
        BY <3>3, <4>1, FS_Subset
      <4>3. Cardinality(Requested(u) \cup {pr}) \in Nat
        BY <4>1, FS_CardinalityType
      <4> QED BY <4>1, <4>2, <4>3, CountsFinite, CountsFiniteNext
    <3> QED BY <3>2, <3>4, CountsFinite, CountsFiniteNext, ContactsAssumption DEF Fits
  <2>4. CASE u \notin pr
    <3>1. Requested(u)' \subseteq Requested(u)
      BY <2>1, <2>4 DEF Requested, ContactsOf, Connect, TypeOK
    <3> QED BY <2>2, <3>1, FitsShrink
  <2> QED BY <2>3, <2>4
<1> QED BY <1>1, <1>2

LEMMA TodoInvStep ==
  ASSUME TypeOK, TodoInv, Next
  PROVE  TodoInv'
<1>1. ASSUME NEW p \in Handler, End(p)
      PROVE  TodoInv'
  BY <1>1 DEF TodoInv, End, TypeOK
<1>2. ASSUME NEW p \in Handler, NEW step \in Step \ {"accCommit"}, Goto(p, step)
      PROVE  TodoInv'
  BY <1>2 DEF TodoInv, Goto, TypeOK
<1>3. ASSUME NEW p \in Handler, NEW d \in Direction,
             RequestBegin(p, d) \/ AcceptBegin(p, d)
               \/ RejectBegin(p, d) \/ RemoveBegin(p, d)
      PROVE  TodoInv'
  BY <1>3 DEF TodoInv, RequestBegin, AcceptBegin, RejectBegin, RemoveBegin, Begin, TypeOK
<1>4. ASSUME NEW p \in Handler, AcceptCount(p)
      PROVE  TodoInv'
  <2>1. PICK u \in todo[p] :
          IF UnderLimit(u)
            THEN /\ todo' = [todo EXCEPT ![p] = @ \ {u}]
                 /\ pc' = [pc EXCEPT ![p] =
                             IF todo[p] = {u} THEN "accCommit" ELSE @]
            ELSE End(p)
    BY <1>4 DEF AcceptCount
  <2>2. CASE UnderLimit(u)
    BY <1>4, <2>1, <2>2 DEF TodoInv, AcceptCount, TypeOK
  <2> QED BY <1>1, <2>1, <2>2
<1>5. ASSUME NEW pr \in Pair, InviteConnect(pr)
      PROVE  TodoInv'
  BY <1>5 DEF TodoInv, InviteConnect
<1>6. ASSUME Restart
      PROVE  TodoInv'
  BY <1>6 DEF TodoInv, Restart
<1> QED BY <1>1, <1>2, <1>3, <1>4, <1>5, <1>6
           DEF Next, Step, RequestFindContact, RequestFindOwn, RequestFindReverse,
               RequestUpsert, AcceptCommit, AcceptRead, RejectCommit, RemoveCommit

LEMMA FitsStep ==
  ASSUME TypeOK, TodoInv, NEW u \in Capped, Fits(u), Next
  PROVE  Fits(u)'
<1>1. ASSUME NEW p \in Handler, UNCHANGED tables, End(p)
      PROVE  Fits(u)'
  <2>1. Requested(u)' = Requested(u)
    BY <1>1 DEF Requested, ContactsOf, tables
  <2> QED BY <1>1, <2>1, FitsEnd
<1>2. ASSUME NEW p \in Handler, RequestUpsert(p) \/ RejectCommit(p)
      PROVE  Fits(u)'
  <2>1. End(p) /\ Requested(u)' = Requested(u)
    BY <1>2 DEF RequestUpsert, RejectCommit, Requested, ContactsOf
  <2> QED BY <2>1, FitsEnd
<1>3. ASSUME NEW p \in Handler, RemoveCommit(p)
      PROVE  Fits(u)'
  <2>1. End(p) /\ Requested(u)' \subseteq Requested(u)
    BY <1>3 DEF RemoveCommit, Requested, ContactsOf, TypeOK
  <2> QED BY <2>1, FitsEnd
<1>4. ASSUME NEW pr \in Pair, InviteConnect(pr)
      PROVE  Fits(u)'
  <2>1. Requested(u)' \subseteq Requested(u) /\ Cleared(u)' = Cleared(u)
    BY <1>4 DEF InviteConnect, Connect, Requested, ContactsOf, Cleared, TypeOK
  <2> QED BY <2>1, FitsShrink
<1>5. ASSUME Restart
      PROVE  Fits(u)'
  <2>1. Requested(u)' = Requested(u) /\ Cleared(u)' \subseteq Cleared(u)
    BY <1>5 DEF Restart, Requested, ContactsOf, tables, Cleared
  <2> QED BY <2>1, FitsShrink
<1> QED BY <1>1, <1>2, <1>3, <1>4, <1>5, FitsBegin, FitsGoto, FitsCount, FitsCommit
           DEF Next, RequestFindContact, RequestFindOwn, RequestFindReverse, AcceptRead

(***************************************************************************)
(* The limit on contacts is exceeded by less than the number of requests   *)
(* served at the same time.                                                *)
(***************************************************************************)
THEOREM ContactsOvershootBounded == Spec => []BoundedOvershoot
<1> DEFINE AllFit == \A u \in Capped : Fits(u)
<1>1. Init => TodoInv /\ AllFit
  <2>1. Init => TodoInv
    BY DEF Init, TodoInv
  <2>2. ASSUME Init, NEW u \in Capped
        PROVE  Fits(u)
    <3>1. Requested(u) = {} /\ Cleared(u) = {}
      BY <2>2 DEF Init, Requested, ContactsOf, Cleared, Pair
    <3> QED BY <3>1, FS_EmptySet, ContactsAssumption, FS_CardinalityType DEF Fits
  <2> QED BY <2>1, <2>2
<1>2. TypeOK /\ TodoInv /\ AllFit /\ [Next]_vars => (TodoInv /\ AllFit)'
  <2>1. TodoInv /\ AllFit /\ UNCHANGED vars => (TodoInv /\ AllFit)'
    BY DEF vars, TodoInv, Fits, Requested, ContactsOf, Cleared
  <2> QED BY <2>1, TodoInvStep, FitsStep
<1>3. AllFit => BoundedOvershoot
  BY DEF BoundedOvershoot, Fits, Requested
<1> QED BY <1>1, <1>2, <1>3, ContactsTypeCorrect, PTL DEF Spec

(***************************************************************************)
(* Served one at a time, requests keep the plan's limit of a user whom no  *)
(* invite connects.                                                        *)
(***************************************************************************)
THEOREM SerialContactsWithinPlan ==
  ASSUME Cardinality(Handler) = 1, InvitePairs = {}
  PROVE  Spec => []ContactsWithinPlan
<1>1. BoundedOvershoot => ContactsWithinPlan
  <2> SUFFICES ASSUME BoundedOvershoot, NEW u \in Capped
               PROVE  Cardinality(ContactsOf(u)) <= MaxContacts
    BY DEF ContactsWithinPlan
  <2>1. Requested(u) = ContactsOf(u)
    BY DEF Requested
  <2> QED BY <2>1, CountsFinite, ContactsAssumption DEF BoundedOvershoot, Requested
<1> QED BY <1>1, ContactsOvershootBounded, PTL

-----------------------------------------------------------------------------
(* Requests that overlap.  As long as a pair has one handler at most, what *)
(* that handler has read of the pair stays as it was read; and when no     *)
(* request of the pair is left, whatever a handler still holds is void.    *)

UpToDate(p) ==
  /\ pc[p] \in {"reqOwn", "reqReverse", "reqUpsert"} =>
       conn[PairOf(dir[p])] = 0 \/ PairOf(dir[p]) \in InvitePairs
  /\ pc[p] = "reqUpsert" => req[Reverse(dir[p])].status # "pending"
  /\ pc[p] \in {"accCount", "accCommit", "rejCommit"} /\ req[dir[p]].id = rid[p] =>
       req[dir[p]].status = "pending"

Agreed(pr) ==
  /\ \A d \in Directions(pr) : req[d].status = "pending" =>
       /\ req[Reverse(d)].status # "pending"
       /\ conn[pr] # 0 => pr \in InvitePairs
  /\ \A p \in InHand(pr) : UpToDate(p)

OverlapInv == \A pr \in Pair : pr \in overlap \/ (Agreed(pr) /\ ~Shared(pr))

LEMMA PendingFromAgreed == OverlapInv => PendingOverlapped
<1> SUFFICES ASSUME OverlapInv, NEW d \in Direction, req[d].status = "pending"
             PROVE  /\ req[Reverse(d)].status = "pending" => PairOf(d) \in overlap
                    /\ conn[PairOf(d)] # 0 => PairOf(d) \in overlap \cup InvitePairs
  BY DEF PendingOverlapped
<1>1. PairOf(d) \in Pair /\ d \in Directions(PairOf(d))
  BY PairOfType DEF Directions
<1> QED BY <1>1 DEF OverlapInv, Agreed

LEMMA ReverseKeepsPair ==
  ASSUME NEW pr, NEW d \in Directions(pr)
  PROVE  Reverse(d) \in Directions(pr) /\ Reverse(d) # d
  BY DEF Directions, Direction, Reverse, PairOf

\* Once no request of the pair is left, nothing that was read of it matters.
LEMMA AgreedWhenForgotten ==
  ASSUME TypeOK', RowsInv', AcceptInv', RestInv', NEW pr \in Pair, NoRequests(pr)'
  PROVE  Agreed(pr)'
<1>1. \A d \in Directions(pr) : req'[d].id = 0 /\ req'[d].status = "none"
  BY DEF NoRequests, NoRequest
<1>2. conn'[pr] = 0 \/ pr \in InvitePairs
  BY <1>1 DEF RestInv
<1>3. ASSUME NEW p \in InHand(pr)'
      PROVE  UpToDate(p)'
  <2>1. p \in Handler /\ PairOf(dir'[p]) = pr /\ dir'[p] \in Directions(pr)
    BY <1>3 DEF InHand, TypeOK, Directions
  <2>2. Reverse(dir'[p]) \in Directions(pr)
    BY <2>1, ReverseKeepsPair
  <2> QED BY <1>1, <1>2, <2>1, <2>2 DEF UpToDate, AcceptInv
<1> QED BY <1>1, <1>3 DEF Agreed

\* The pair's rows stay, and whoever works on it has read them as they are.
LEMMA AgreedKept ==
  ASSUME TypeOK, NEW pr \in Pair, Agreed(pr), conn'[pr] = conn[pr],
         \A d \in Directions(pr) : req'[d] = req[d],
         \A q \in InHand(pr)' :
           \/ q \in InHand(pr) /\ pc'[q] = pc[q] /\ dir'[q] = dir[q] /\ rid'[q] = rid[q]
           \/ UpToDate(q)'
  PROVE  Agreed(pr)'
<1>1. \A d \in Directions(pr) : req'[d].status = "pending" =>
        /\ req'[Reverse(d)].status # "pending"
        /\ conn'[pr] # 0 => pr \in InvitePairs
  BY ReverseKeepsPair DEF Agreed
<1>2. ASSUME NEW q \in InHand(pr)'
      PROVE  UpToDate(q)'
  <2>1. CASE q \in InHand(pr) /\ pc'[q] = pc[q] /\ dir'[q] = dir[q] /\ rid'[q] = rid[q]
    <3>1. UpToDate(q) /\ PairOf(dir[q]) = pr /\ dir[q] \in Directions(pr)
      BY <2>1 DEF Agreed, InHand, TypeOK, Directions
    <3>2. Reverse(dir[q]) \in Directions(pr)
      BY <3>1, ReverseKeepsPair
    <3>3. req'[dir[q]] = req[dir[q]] /\ req'[Reverse(dir[q])] = req[Reverse(dir[q])]
      BY <3>1, <3>2
    <3> QED BY <2>1, <3>1, <3>3 DEF UpToDate
  <2> QED BY <1>2, <2>1
<1> QED BY <1>1, <1>2 DEF Agreed

\* The handlers other than p go on as they were.
Apart(p) ==
  \A q \in Handler \ {p} : pc'[q] = pc[q] /\ dir'[q] = dir[q] /\ rid'[q] = rid[q]

LEMMA HandlersApart ==
  ASSUME TypeOK, NEW p \in Handler
  PROVE  /\ End(p) => Apart(p) /\ dir'[p] = None
         /\ \A step : Goto(p, step) =>
              Apart(p) /\ pc'[p] = step /\ dir'[p] = dir[p] /\ rid'[p] = rid[p]
         /\ \A d, step, row, users : Begin(p, d, step, row, users) =>
              Apart(p) /\ pc'[p] = step /\ dir'[p] = d /\ rid'[p] = row
  BY DEF TypeOK, End, Goto, Begin, Apart

\* A read, or the end of a handler.
LEMMA AgreedAfterRead ==
  ASSUME TypeOK, NEW pr \in Pair, Agreed(pr), UNCHANGED tables, NEW p \in Handler, Apart(p),
         p \in InHand(pr)' => UpToDate(p)'
  PROVE  Agreed(pr)'
<1>1. \A q \in InHand(pr)' :
        \/ q \in InHand(pr) /\ pc'[q] = pc[q] /\ dir'[q] = dir[q] /\ rid'[q] = rid[q]
        \/ UpToDate(q)'
  BY DEF Apart, InHand
<1> QED BY <1>1, AgreedKept DEF tables

\* A write to the rows of another pair.
LEMMA AgreedElsewhere ==
  ASSUME TypeOK, NEW pr \in Pair, Agreed(pr), NEW p \in Handler, Apart(p),
         dir'[p] \in {None, dir[p]}, PairOf(dir[p]) # pr,
         \A r \in Pair : r # PairOf(dir[p]) => conn'[r] = conn[r],
         \A d \in Direction : PairOf(d) # PairOf(dir[p]) => req'[d] = req[d]
  PROVE  Agreed(pr)'
<1>1. \A q \in InHand(pr)' :
        q \in InHand(pr) /\ pc'[q] = pc[q] /\ dir'[q] = dir[q] /\ rid'[q] = rid[q]
  BY DEF Apart, InHand
<1>2. conn'[pr] = conn[pr] /\ \A d \in Directions(pr) : req'[d] = req[d]
  BY DEF Directions
<1> QED BY <1>1, <1>2, AgreedKept

LEMMA AgreedReads ==
  ASSUME TypeOK, RowsInv, NEW pr \in Pair, Agreed(pr), NEW p \in Handler,
         \/ \E d \in Direction : RequestBegin(p, d) \/ AcceptBegin(p, d)
                                   \/ RejectBegin(p, d) \/ RemoveBegin(p, d)
         \/ RequestFindContact(p) \/ RequestFindOwn(p) \/ RequestFindReverse(p)
         \/ AcceptCount(p) \/ AcceptRead(p)
  PROVE  Agreed(pr)'
<1>1. ASSUME UNCHANGED tables, End(p)
      PROVE  Agreed(pr)'
  <2>1. p \notin InHand(pr)'
    BY <1>1, HandlersApart DEF InHand
  <2> QED BY <1>1, <2>1, HandlersApart, AgreedAfterRead
<1>2. ASSUME NEW d \in Direction,
             RequestBegin(p, d) \/ AcceptBegin(p, d) \/ RejectBegin(p, d) \/ RemoveBegin(p, d)
      PROVE  Agreed(pr)'
  <2>1. /\ Apart(p) /\ UNCHANGED tables /\ dir'[p] = d
        /\ \/ pc'[p] \in {"reqContact", "remCommit"}
           \/ pc'[p] \in {"accCount", "rejCommit"} /\ req[d].status = "pending"
    BY <1>2, HandlersApart DEF RequestBegin, AcceptBegin, RejectBegin, RemoveBegin
  <2>2. UpToDate(p)'
    BY <2>1 DEF UpToDate, tables
  <2> QED BY <2>1, <2>2, AgreedAfterRead
<1>3. CASE RequestFindContact(p)
  <2>1. UNCHANGED tables
    BY <1>3 DEF RequestFindContact
  <2>2. CASE conn[PairOf(dir[p])] = 0 /\ Goto(p, "reqOwn")
    <3>1. Apart(p) /\ UpToDate(p)'
      BY <2>1, <2>2, HandlersApart DEF UpToDate, tables
    <3> QED BY <2>1, <3>1, AgreedAfterRead
  <2> QED BY <1>1, <1>3, <2>1, <2>2 DEF RequestFindContact
<1>4. CASE RequestFindOwn(p) \/ RequestFindReverse(p)
  <2>1. UNCHANGED tables
    BY <1>4 DEF RequestFindOwn, RequestFindReverse
  <2>2. CASE \/ pc[p] = "reqOwn" /\ Goto(p, "reqReverse")
             \/ /\ pc[p] = "reqReverse" /\ Goto(p, "reqUpsert")
                /\ req[Reverse(dir[p])].status # "pending"
    <3>1. Apart(p) /\ dir'[p] = dir[p] /\ pc'[p] \in {"reqReverse", "reqUpsert"}
            /\ (pc'[p] = "reqUpsert" => req[Reverse(dir[p])].status # "pending")
      BY <2>2, HandlersApart
    <3>2. ASSUME p \in InHand(pr)'
          PROVE  UpToDate(p)'
      <4>1. p \in InHand(pr) /\ PairOf(dir[p]) = pr
        BY <3>1, <3>2 DEF InHand
      <4>2. conn[pr] = 0 \/ pr \in InvitePairs
        BY <2>2, <4>1 DEF Agreed, UpToDate
      <4> QED BY <2>1, <3>1, <4>1, <4>2 DEF UpToDate, tables
    <3> QED BY <2>1, <3>1, <3>2, AgreedAfterRead
  <2> QED BY <1>1, <1>4, <2>1, <2>2 DEF RequestFindOwn, RequestFindReverse
<1>5. CASE AcceptCount(p)
  <2>1. UNCHANGED tables /\ pc[p] = "accCount"
    BY <1>5 DEF AcceptCount
  <2>2. CASE pc' = [pc EXCEPT ![p] = pc'[p]] /\ pc'[p] \in {"accCount", "accCommit"}
             /\ UNCHANGED <<dir, rid>>
    <3>1. Apart(p)
      BY <2>2 DEF Apart, TypeOK
    <3>2. ASSUME p \in InHand(pr)'
          PROVE  UpToDate(p)'
      <4>1. UpToDate(p)
        BY <2>2, <3>2 DEF InHand, Agreed
      <4> QED BY <2>1, <2>2, <4>1 DEF UpToDate, tables
    <3> QED BY <2>1, <3>1, <3>2, AgreedAfterRead
  <2>3. PICK u \in todo[p] :
          IF UnderLimit(u)
            THEN /\ pc' = [pc EXCEPT ![p] =
                             IF todo[p] = {u} THEN "accCommit" ELSE @]
                 /\ UNCHANGED <<dir, rid>>
            ELSE End(p)
    BY <1>5 DEF AcceptCount
  <2>4. CASE UnderLimit(u)
    <3>1. pc'[p] \in {"accCount", "accCommit"} /\ pc' = [pc EXCEPT ![p] = pc'[p]]
      BY <2>1, <2>3, <2>4 DEF TypeOK
    <3> QED BY <2>2, <2>3, <2>4, <3>1
  <2> QED BY <1>1, <2>1, <2>3, <2>4
<1>6. CASE AcceptRead(p)
  BY <1>1, <1>6 DEF AcceptRead
<1> QED BY <1>2, <1>3, <1>4, <1>5, <1>6

\* The handler that writes is the pair's only one, and is done with it.
LEMMA AgreedWrites ==
  ASSUME TypeOK, RowsInv, AcceptInv, NEW pr \in Pair, Agreed(pr), ~Shared(pr),
         NEW p \in Handler,
         RequestUpsert(p) \/ AcceptCommit(p) \/ RejectCommit(p) \/ RemoveCommit(p)
  PROVE  Agreed(pr)'
<1> DEFINE d0 == dir[p]
<1>1. d0 \in Direction /\ PairOf(d0) \in Pair /\ p \in InHand(PairOf(d0))
  BY PairOfType, ContactsAssumption
     DEF RequestUpsert, AcceptCommit, RejectCommit, RemoveCommit, TypeOK, InHand
<1>2. /\ Apart(p) /\ dir'[p] \in {None, d0} /\ (dir'[p] = d0 => pc'[p] = "accRead")
      /\ End(p) \/ Goto(p, "accRead")
  <2>1. End(p) \/ Goto(p, "accRead")
    BY DEF RequestUpsert, AcceptCommit, RejectCommit, RemoveCommit
  <2>2. None # d0
    BY <1>1, ContactsAssumption
  <2> QED BY <2>1, <2>2, HandlersApart
<1>3. CASE PairOf(d0) # pr
  <2>1. /\ \A r \in Pair : r # PairOf(d0) => conn'[r] = conn[r]
        /\ \A d \in Direction : PairOf(d) # PairOf(d0) => req'[d] = req[d]
    BY <1>1 DEF RequestUpsert, AcceptCommit, RejectCommit, RemoveCommit, Connect, TypeOK
  <2> QED BY <1>2, <1>3, <2>1, AgreedElsewhere
<1>4. CASE PairOf(d0) = pr
  <2>1. /\ d0 \in Directions(pr) /\ Reverse(d0) \in Directions(pr) /\ Reverse(d0) # d0
        /\ UpToDate(p)
    BY <1>1, <1>4, ReverseKeepsPair DEF Directions, Agreed
  <2>2. ASSUME NEW q \in InHand(pr)'
        PROVE  UpToDate(q)'
    <3>1. q = p
      BY <1>1, <1>2, <1>4 DEF InHand, Apart, Shared
    <3>2. pc'[p] = "accRead"
      BY <1>2, <3>1 DEF InHand
    <3> QED BY <3>1, <3>2 DEF UpToDate
  <2>3. \A d \in Directions(pr) : d = d0 \/ d = Reverse(d0)
    BY <1>1, <1>4 DEF Directions, Direction, PairOf, Reverse
  <2>4. Reverse(Reverse(d0)) = d0
    BY <1>1 DEF Reverse, Direction
  <2>5. ASSUME NEW d \in Directions(pr), req'[d].status = "pending"
        PROVE  req'[Reverse(d)].status # "pending" /\ (conn'[pr] # 0 => pr \in InvitePairs)
    <3>1. CASE RequestUpsert(p)
      <4>1. UNCHANGED conn /\ \A e \in Direction : e # d0 => req'[e] = req[e]
        BY <1>1, <3>1 DEF RequestUpsert, TypeOK
      <4>2. pc[p] = "reqUpsert" /\ req[Reverse(d0)].status # "pending"
              /\ (conn[pr] = 0 \/ pr \in InvitePairs)
        BY <1>4, <2>1, <3>1 DEF RequestUpsert, UpToDate
      <4>3. req'[Reverse(d0)] = req[Reverse(d0)]
        BY <2>1, <4>1 DEF Directions
      <4> QED BY <2>3, <2>4, <2>5, <4>1, <4>2, <4>3
    <3>2. CASE (AcceptCommit(p) \/ RejectCommit(p)) /\ req[d0].id = rid[p]
      <4>1. pc[p] \in {"accCommit", "rejCommit"} /\ req[d0].status = "pending"
        BY <2>1, <3>2 DEF UpToDate, AcceptCommit, RejectCommit
      <4>2. req'[d0].status # "pending" /\ \A e \in Direction : e # d0 => req'[e] = req[e]
        BY <1>1, <3>2 DEF AcceptCommit, RejectCommit, TypeOK
      <4>3. req'[Reverse(d0)].status # "pending"
        BY <2>1, <4>1, <4>2 DEF Agreed, Directions
      <4> QED BY <2>3, <2>5, <4>2, <4>3
    <3>3. CASE (AcceptCommit(p) \/ RejectCommit(p)) /\ req[d0].id # rid[p]
      <4>1. UNCHANGED <<req, conn>>
        BY <3>3 DEF AcceptCommit, RejectCommit
      <4> QED BY <2>5, <4>1 DEF Agreed
    <3>4. CASE RemoveCommit(p)
      <4>1. CASE conn[pr] = rid[p]
        <5>1. req'[d] = NoRequest
          BY <1>4, <3>4, <4>1 DEF RemoveCommit, Directions
        <5> QED BY <2>5, <5>1 DEF NoRequest
      <4>2. CASE conn[pr] # rid[p]
        <5>1. UNCHANGED <<req, conn>>
          BY <1>4, <3>4, <4>2 DEF RemoveCommit
        <5> QED BY <2>5, <5>1 DEF Agreed
      <4> QED BY <4>1, <4>2
    <3> QED BY <3>1, <3>2, <3>3, <3>4
  <2> QED BY <2>2, <2>5 DEF Agreed
<1> QED BY <1>3, <1>4

LEMMA AgreedStep ==
  ASSUME TypeOK, RowsInv, AcceptInv, NEW pr \in Pair, Agreed(pr), ~Shared(pr), Next
  PROVE  Agreed(pr)'
<1>1. ASSUME NEW r \in Pair, InviteConnect(r)
      PROVE  Agreed(pr)'
  <2>1. /\ UNCHANGED <<req, pc, dir, rid>> /\ r \in InvitePairs
        /\ \A s \in Pair : s # r => conn'[s] = conn[s]
    BY <1>1 DEF InviteConnect, Connect, TypeOK
  <2>2. CASE r # pr
    BY <2>1, <2>2, AgreedKept DEF InHand
  <2>3. CASE r = pr
    <3>1. ASSUME NEW q \in InHand(pr)'
          PROVE  UpToDate(q)'
      BY <2>1, <2>3, <3>1 DEF UpToDate, Agreed, InHand
    <3> QED BY <2>1, <2>3, <3>1 DEF Agreed
  <2> QED BY <2>2, <2>3
<1>2. CASE Restart
  <2>1. InHand(pr)' = {} /\ UNCHANGED tables
    BY <1>2 DEF Restart, InHand
  <2> QED BY <2>1, AgreedKept DEF tables
<1> QED BY <1>1, <1>2, AgreedReads, AgreedWrites DEF Next

LEMMA OverlapInvariant == OverlapSpec => []OverlapInv
<1>1. OverlapSpec => Spec
  <2>1. OverlapInit => Init
    BY DEF OverlapInit
  <2>2. [OverlapNext]_<<vars, overlap>> => [Next]_vars
    BY DEF OverlapNext
  <2> QED BY <2>1, <2>2, PTL DEF OverlapSpec, Spec
<1>2. OverlapInit => OverlapInv
  <2> SUFFICES ASSUME OverlapInit, NEW pr \in Pair PROVE Agreed(pr) /\ ~Shared(pr)
    BY DEF OverlapInv
  <2>1. InHand(pr) = {}
    BY DEF OverlapInit, Init, InHand
  <2> QED BY <2>1 DEF Agreed, Shared, OverlapInit, Init, NoRequest, Directions
<1>3. (TypeOK /\ RowsInv /\ AcceptInv /\ RestInv) /\ (TypeOK /\ RowsInv /\ AcceptInv /\ RestInv)'
        /\ OverlapInv /\ [OverlapNext]_<<vars, overlap>> => OverlapInv'
  <2> SUFFICES ASSUME TypeOK, RowsInv, AcceptInv, TypeOK', RowsInv', AcceptInv', RestInv',
                      OverlapInv, [OverlapNext]_<<vars, overlap>>, NEW pr \in Pair
               PROVE  pr \in overlap' \/ (Agreed(pr)' /\ ~Shared(pr)')
    BY DEF OverlapInv
  <2>1. CASE UNCHANGED <<vars, overlap>>
    BY <2>1 DEF vars, OverlapInv, Agreed, Shared, InHand, UpToDate
  <2>2. CASE OverlapNext /\ pr \notin overlap'
    <3>1. Next /\ ~Shared(pr)' /\ (pr \notin overlap \/ NoRequests(pr)')
      BY <2>2 DEF OverlapNext
    <3>2. CASE NoRequests(pr)'
      BY <3>1, <3>2, AgreedWhenForgotten
    <3>3. CASE pr \notin overlap
      BY <3>1, <3>3, AgreedStep DEF OverlapInv
    <3> QED BY <3>1, <3>2, <3>3
  <2> QED BY <2>1, <2>2
<1> QED BY <1>1, <1>2, <1>3, RowsInvariant, PTL DEF OverlapSpec

(***************************************************************************)
(* requestByUserId reads before it writes, in four queries: two users have *)
(* requests pending both ways, or one beside their contact, only if two    *)
(* requests of theirs were served at once or an invite connected them.     *)
(***************************************************************************)
THEOREM PendingRequestsOverlapped == OverlapSpec => []PendingOverlapped
  BY OverlapInvariant, PendingFromAgreed, PTL

(***************************************************************************)
(* rejectRequest writes blindly: an accepted request is rejected only by   *)
(* an answer that was under way beside the acceptance.                     *)
(***************************************************************************)
THEOREM RejectionsOverlapped == OverlapSpec => RejectedOverlapped
<1> DEFINE Rejected == \A d \in Direction :
                         req[d].status = "accepted" /\ req'[d].status = "rejected"
                           => PairOf(d) \in overlap
<1>1. OverlapSpec => Spec
  <2>1. OverlapInit => Init
    BY DEF OverlapInit
  <2>2. [OverlapNext]_<<vars, overlap>> => [Next]_vars
    BY DEF OverlapNext
  <2> QED BY <2>1, <2>2, PTL DEF OverlapSpec, Spec
<1>2. TypeOK /\ OverlapInv /\ Next => Rejected
  <2> SUFFICES ASSUME TypeOK, OverlapInv, Next, NEW d \in Direction,
                      req[d].status = "accepted", req'[d].status = "rejected"
               PROVE  PairOf(d) \in overlap
    OBVIOUS
  <2>1. PICK p \in Handler : RejectCommit(p) /\ dir[p] = d /\ req[d].id = rid[p]
    <3>1. ASSUME UNCHANGED req PROVE FALSE
      BY <3>1
    <3>2. ASSUME NEW p \in Handler, RequestUpsert(p) PROVE FALSE
      BY <3>2 DEF RequestUpsert, TypeOK
    <3>3. ASSUME NEW p \in Handler, AcceptCommit(p) PROVE FALSE
      BY <3>3 DEF AcceptCommit, TypeOK
    <3>4. ASSUME NEW p \in Handler, RemoveCommit(p) PROVE FALSE
      BY <3>4 DEF RemoveCommit, TypeOK, NoRequest
    <3>5. ASSUME NEW p \in Handler, RejectCommit(p)
          PROVE  dir[p] = d /\ req[d].id = rid[p]
      BY <3>5 DEF RejectCommit, TypeOK
    <3> QED BY <3>1, <3>2, <3>3, <3>4, <3>5
            DEF Next, RequestBegin, AcceptBegin, RejectBegin, RemoveBegin, RequestFindContact,
                RequestFindOwn, RequestFindReverse, AcceptCount, AcceptRead, InviteConnect,
                Restart, tables
  <2>2. PairOf(d) \in Pair /\ p \in InHand(PairOf(d))
    BY <2>1, PairOfType, ContactsAssumption DEF InHand
  <2>3. ~UpToDate(p)
    BY <2>1 DEF UpToDate, RejectCommit
  <2> QED BY <2>2, <2>3 DEF OverlapInv, Agreed
<1>3. TypeOK /\ OverlapInv /\ [Next]_vars => [Rejected]_vars
  BY <1>2
<1>4. Spec => [][Next]_vars
  BY PTL DEF Spec
<1>5. OverlapSpec => [][Rejected]_vars
  BY <1>1, <1>3, <1>4, OverlapInvariant, ContactsTypeCorrect, PTL
<1> QED BY <1>5 DEF RejectedOverlapped

-----------------------------------------------------------------------------
(* Calls.  The inductive invariant of the module Calls: what the page of a *)
(* user, a connection, a request for the camera and a signal on its way    *)
(* may be, and, for a connection and the later one that answers it, where  *)
(* the candidate of the later one is: on its way, kept on the page until   *)
(* the answer comes, or with the connection.                               *)

Leg ==
  [owner : Party, peer : Party, status : {"open", "closed", "failed"}, remote : Nat,
   ice : BOOLEAN, place : {"page", "replaced", "alone"}]

Sheet ==
  [state : State, peer : Party \cup {Nobody}, incoming : BOOLEAN, timer : BOOLEAN,
   pc : Nat, described : BOOLEAN, early : SUBSET Nat, refused : BOOLEAN]

Voice == [kind : {"call:offer", "call:answer", "call:ice-candidate", "call:reject", "call:end"},
          id : Nat]

Camera == [user : Party, peer : Party, kind : {"start", "answer"}, offer : Nat, here : BOOLEAN,
           nth : Nat]

\* A page, and the connection it has.
PageOK(u) ==
  /\ page[u].state = "home" => page[u] = Home
  /\ page[u].state # "home" => page[u].peer \in Party \ {u}
  /\ page[u].timer => ~page[u].incoming
  /\ page[u].state = "outgoing" =>
       ~page[u].incoming /\ (page[u].timer \/ stray[u] \/ page[u].refused)
  /\ page[u].described /\ page[u].pc = 0 => stray[u]

PcOK(u) ==
  LET c == page[u].pc IN
  c # 0 =>
    /\ c \in Conn
    /\ conns[c].owner = u /\ conns[c].peer = page[u].peer
    /\ conns[c].status # "closed" /\ conns[c].place = "page"
    /\ conns[c].remote # 0 => page[u].described /\ page[u].state # "outgoing"
    /\ conns[c].remote = 0 /\ page[u].described => stray[u]

\* A connection; one that took an answer has had a page, and is answered by it.
LegOK(c) ==
  /\ conns[c].owner # conns[c].peer
  /\ conns[c].remote \in 0..Len(conns) /\ conns[c].remote # c
  /\ conns[c].status = "open" /\ conns[c].place = "page" => page[conns[c].owner].pc = c
  /\ conns[c].status = "open" /\ conns[c].place = "replaced" =>
       page[conns[c].owner].state # "home"
  /\ conns[c].remote > c =>
       /\ conns[conns[c].remote].owner = conns[c].peer
       /\ conns[conns[c].remote].peer = conns[c].owner
       /\ conns[conns[c].remote].remote # 0

CameraOK(m) ==
  /\ m.user # m.peer
  /\ m.kind = "start" => m.offer = 0
  /\ m.kind = "answer" => m.offer \in Conn
  /\ m.here => page[m.user].state # "home" /\ page[m.user].peer = m.peer

VoiceOK(u, v, s) ==
  s.kind \in {"call:offer", "call:answer", "call:ice-candidate"} =>
    /\ s.id \in Conn /\ conns[s.id].owner = u /\ conns[s.id].peer = v
    /\ s.kind = "call:answer" => conns[s.id].remote # 0

RingOK(u) == ringing[u] # Nobody => ringing[u].from # u /\ ringing[u].offer \in Conn

\* The candidate of an answer comes, has come, or came before the answer.
Bound(x, y) ==
  /\ conns[y].remote = x /\ x < y
  /\ conns[y].peer = conns[x].owner /\ conns[x].peer = conns[y].owner
  /\ page[conns[x].owner].pc = x

BoundOK(x, y) ==
  Bound(x, y) =>
    /\ conns[x].remote = 0 =>
         OnItsWay(y) \/ y \in page[conns[x].owner].early \/ stray[conns[x].owner]
    /\ conns[x].remote = y =>
         OnItsWay(y) \/ conns[x].ice \/ stray[conns[x].owner]

CallTypes ==
  /\ page \in [Party -> Sheet]
  /\ ringing \in [Party -> {Nobody} \cup [from : Party, offer : Nat]]
  /\ media \subseteq Camera
  /\ conns \in Seq(Leg)
  /\ net \in [Party -> [Party -> Seq(Voice)]]
  /\ redirects \in [Party -> Nat]
  /\ stray \in [Party -> BOOLEAN]

CallInv ==
  /\ CallTypes
  /\ \A u \in Party : PageOK(u) /\ PcOK(u) /\ RingOK(u)
  /\ \A c \in Conn : LegOK(c)
  /\ \A m \in media : CameraOK(m)
  /\ \A u, v \in Party : \A i \in DOMAIN net[u][v] : VoiceOK(u, v, net[u][v][i])
  /\ \A x, y \in Conn : BoundOK(x, y)

-----------------------------------------------------------------------------
(* The net: one signal more, one less. *)

Among(t, s) == \E i \in DOMAIN t : t[i] = s

LEMMA TakenVoice ==
  ASSUME NEW t \in Seq(Voice), NEW i \in DOMAIN t, NEW r, r = Without(t, i)
  PROVE  /\ r \in Seq(Voice)
         /\ \A s : Among(r, s) => Among(t, s)
         /\ \A s : Among(t, s) /\ s # t[i] => Among(r, s)
<1>0. r = But(t, i)
  BY DEF Without, But
<1>1. i \in 1..Len(t) /\ DOMAIN t = 1..Len(t)
  BY LenProperties
<1>2. /\ r \in Seq(Voice)
      /\ \A j \in 1..Len(t) : j # i =>
           \E k \in 1..Len(r) : r[k] = t[j] /\ k = IF j < i THEN j ELSE j - 1
      /\ \A k \in 1..Len(r) :
           \E j \in 1..Len(t) : j # i /\ r[k] = t[j] /\ k = IF j < i THEN j ELSE j - 1
  <2>1. r \in Seq(Voice)
    BY <1>0, <1>1, Kept
  <2>2. \A j \in 1..Len(t) : j # i =>
           \E k \in 1..Len(r) : r[k] = t[j] /\ k = IF j < i THEN j ELSE j - 1
    BY <1>0, <1>1, Kept
  <2>3. \A k \in 1..Len(r) :
           \E j \in 1..Len(t) : j # i /\ r[k] = t[j] /\ k = IF j < i THEN j ELSE j - 1
    BY SMTT(30), <1>0, <1>1, Kept
  <2> QED BY <2>1, <2>2, <2>3
<1>3. /\ DOMAIN r = 1..Len(r)
      /\ \A j \in DOMAIN t : j # i => \E k \in DOMAIN r : r[k] = t[j]
      /\ \A k \in DOMAIN r : \E j \in DOMAIN t : r[k] = t[j]
  <2>1. DOMAIN r = 1..Len(r)
    BY <1>2, LenProperties
  <2> QED BY ZenonT(40), <1>1, <1>2, <2>1
<1>4. \A s : Among(r, s) => Among(t, s)
  BY <1>3 DEF Among
<1>5. \A s : Among(t, s) /\ s # t[i] => Among(r, s)
  BY <1>3 DEF Among
<1> QED BY <1>2, <1>4, <1>5

LEMMA SentVoice ==
  ASSUME NEW t \in Seq(Voice), NEW a \in Seq(Voice), NEW r, r = t \o a
  PROVE  /\ r \in Seq(Voice)
         /\ \A s : Among(r, s) <=> Among(t, s) \/ Among(a, s)
<1>1. /\ r \in Seq(Voice) /\ Len(r) = Len(t) + Len(a)
      /\ \A i \in 1..(Len(t) + Len(a)) : r[i] = IF i <= Len(t) THEN t[i] ELSE a[i - Len(t)]
  BY ConcatProperties
<1>2. /\ Len(t) \in Nat /\ Len(a) \in Nat
      /\ DOMAIN t = 1..Len(t) /\ DOMAIN a = 1..Len(a) /\ DOMAIN r = 1..(Len(t) + Len(a))
  BY <1>1, LenProperties
<1>3. ASSUME NEW s, Among(r, s) PROVE Among(t, s) \/ Among(a, s)
  <2>1. PICK i \in DOMAIN r : r[i] = s
    BY <1>3 DEF Among
  <2>2. i \in DOMAIN t \/ i - Len(t) \in DOMAIN a
    BY <1>2, <2>1
  <2> QED BY <1>1, <1>2, <2>1, <2>2 DEF Among
<1>4. ASSUME NEW s, Among(t, s) PROVE Among(r, s)
  BY <1>1, <1>2, <1>4 DEF Among
<1>5. ASSUME NEW s, Among(a, s) PROVE Among(r, s)
  <2>1. PICK i \in DOMAIN a : a[i] = s
    BY <1>5 DEF Among
  <2>2. /\ Len(t) + i \in DOMAIN r /\ ~(Len(t) + i <= Len(t)) /\ (Len(t) + i) - Len(t) = i
    BY <1>2, <2>1
  <2>3. r[Len(t) + i] = a[i]
    BY <1>1, <1>2, <2>2
  <2> QED BY <2>1, <2>2, <2>3 DEF Among
<1> QED BY <1>1, <1>3, <1>4, <1>5

LEMMA OneVoice ==
  ASSUME NEW kind \in {"call:offer", "call:answer", "call:ice-candidate", "call:reject", "call:end"},
         NEW id \in Nat
  PROVE  /\ Signal(kind, id) \in Voice
         /\ Signal(kind, id).kind = kind /\ Signal(kind, id).id = id
  BY DEF Signal, Voice

LEMMA OneSent ==
  ASSUME NEW x \in Voice, NEW a, a = <<x>>
  PROVE  a \in Seq(Voice) /\ \A s : Among(a, s) <=> s = x
<1>1. a \in Seq(Voice) /\ DOMAIN a = {1} /\ a[1] = x
  OBVIOUS
<1> QED BY <1>1 DEF Among

LEMMA TwoSent ==
  ASSUME NEW x \in Voice, NEW y \in Voice, NEW a, a = <<x, y>>
  PROVE  a \in Seq(Voice) /\ \A s : Among(a, s) <=> s = x \/ s = y
<1>1. a \in Seq(Voice) /\ DOMAIN a = {1, 2} /\ a[1] = x /\ a[2] = y
  OBVIOUS
<1> QED BY <1>1 DEF Among

\* The gateway has one more, or two.
LEMMA NetSend ==
  ASSUME CallTypes, NEW u \in Party, NEW v \in Party, NEW a \in Seq(Voice), Send(u, v, a)
  PROVE  /\ net' \in [Party -> [Party -> Seq(Voice)]]
         /\ \A p, q \in Party : \A s :
              Among(net'[p][q], s) <=> Among(net[p][q], s) \/ (p = u /\ q = v /\ Among(a, s))
<1>1. net \in [Party -> [Party -> Seq(Voice)]]
  BY DEF CallTypes
<1> DEFINE more == net[u][v] \o a
<1>2. net' = [net EXCEPT ![u][v] = more]
  BY DEF Send
<1>3. more \in Seq(Voice) /\ \A s : Among(more, s) <=> Among(net[u][v], s) \/ Among(a, s)
  <2>1. net[u][v] \in Seq(Voice)
    BY <1>1
  <2> QED BY <2>1, SentVoice
<1> HIDE DEF more
<1>4. net' \in [Party -> [Party -> Seq(Voice)]]
  BY <1>1, <1>2, <1>3
<1>5. /\ net'[u][v] = more
      /\ \A p, q \in Party : p # u \/ q # v => net'[p][q] = net[p][q]
  BY <1>1, <1>2
<1> QED BY <1>3, <1>4, <1>5

LEMMA CallTypeFacts ==
  ASSUME CallTypes
  PROVE  /\ Len(conns) \in Nat /\ Conn = 1..Len(conns) /\ DOMAIN conns = Conn
         /\ Conn \subseteq Nat
         /\ \A c \in Conn : conns[c] \in Leg
         /\ \A u \in Party : page[u] \in Sheet
         /\ \A m \in media : m \in Camera
<1>1. conns \in Seq(Leg)
  BY DEF CallTypes
<1>2. Len(conns) \in Nat /\ conns \in [1..Len(conns) -> Leg] /\ DOMAIN conns = 1..Len(conns)
  BY <1>1, LenProperties
<1> QED BY <1>2 DEF CallTypes, Conn

\* The gateway has nothing new but what it may have.
VoicesOK == \A p, q \in Party : \A s : Among(net[p][q], s) => VoiceOK(p, q, s)

LEMMA VoicesAre ==
  VoicesOK <=> \A u, v \in Party : \A i \in DOMAIN net[u][v] : VoiceOK(u, v, net[u][v][i])
  BY DEF VoicesOK, Among

\* No connection comes, and what the others rest on stays.
Alike ==
  /\ conns' \in Seq(Leg) /\ Len(conns') = Len(conns)
  /\ \A c \in Conn :
       /\ conns'[c].owner = conns[c].owner /\ conns'[c].peer = conns[c].peer
       /\ conns'[c].remote = conns[c].remote /\ conns'[c].place = conns[c].place
       /\ conns'[c].status = "open" => conns[c].status = "open"
       /\ conns[c].status # "closed" => conns'[c].status # "closed"
       /\ conns[c].ice => conns'[c].ice

\* No page gets a connection or loses it.
Steady ==
  \A u \in Party :
    /\ page'[u].pc = page[u].pc
    /\ page[u].state # "home" => page'[u].state # "home"
    /\ page[u].pc # 0 =>
         /\ page'[u].peer = page[u].peer
         /\ page'[u].described = page[u].described
         /\ page'[u].state = "outgoing" => page[u].state = "outgoing"
         /\ page[u].early \subseteq page'[u].early
         /\ stray[u] => stray'[u]

LEMMA SameAlike ==
  ASSUME CallTypes, conns' = conns
  PROVE  Alike
  BY DEF CallTypes, Alike

LEMMA AlikeFacts ==
  ASSUME CallInv, Alike
  PROVE  /\ Conn' = Conn /\ Conn \subseteq Nat
         /\ \A c \in Conn : c # 0 /\ conns[c].owner \in Party /\ conns[c].peer \in Party
         /\ \A c \in Conn : conns[c].remote > c => conns[c].remote \in Conn
         /\ \A c \in Conn : conns[c].ice \in BOOLEAN /\ conns'[c].ice \in BOOLEAN
<1>1. /\ Conn = 1..Len(conns) /\ Len(conns) \in Nat
      /\ \A c \in Conn : conns[c].owner \in Party /\ conns[c].peer \in Party
  BY CallTypeFacts DEF CallInv, Leg
<1>2. Conn' = Conn
  BY DEF Alike, Conn
<1>3. ASSUME NEW c \in Conn, conns[c].remote > c PROVE conns[c].remote \in Conn
  <2>1. conns[c].remote \in 0..Len(conns)
    BY DEF CallInv, LegOK
  <2> QED BY <1>1, <1>3, <2>1
<1>4. ASSUME NEW c \in Conn PROVE conns[c].ice \in BOOLEAN /\ conns'[c].ice \in BOOLEAN
  <2>1. conns[c] \in Leg
    BY CallTypeFacts DEF CallInv
  <2>2. conns'[c] \in Leg
    <3>1. conns' \in Seq(Leg) /\ Len(conns') = Len(conns)
      BY DEF Alike
    <3> QED BY <1>1, <3>1, ElementOfSeq
  <2> QED BY <2>1, <2>2 DEF Leg
<1> QED BY <1>1, <1>2, <1>3, <1>4

LEMMA LegsFrame ==
  ASSUME CallInv, Alike, Steady
  PROVE  /\ \A u \in Party : PcOK(u)'
         /\ \A c \in Conn' : LegOK(c)'
<1>1. /\ Conn' = Conn /\ Conn \subseteq Nat
      /\ \A c \in Conn : conns[c].owner \in Party
      /\ \A c \in Conn : conns[c].remote > c => conns[c].remote \in Conn
  BY AlikeFacts
<1>2. ASSUME NEW c \in Conn PROVE LegOK(c)'
  <2>1. LegOK(c)
    BY DEF CallInv
  <2>2. /\ conns'[c].owner = conns[c].owner /\ conns'[c].peer = conns[c].peer
        /\ conns'[c].remote = conns[c].remote /\ conns'[c].place = conns[c].place
        /\ conns'[c].status = "open" => conns[c].status = "open"
        /\ Len(conns') = Len(conns)
    BY DEF Alike
  <2>3. /\ page'[conns[c].owner].pc = page[conns[c].owner].pc
        /\ page[conns[c].owner].state # "home" => page'[conns[c].owner].state # "home"
    BY <1>1 DEF Steady
  <2>4. conns[c].remote > c =>
          /\ conns'[conns[c].remote].owner = conns[conns[c].remote].owner
          /\ conns'[conns[c].remote].peer = conns[conns[c].remote].peer
          /\ conns'[conns[c].remote].remote = conns[conns[c].remote].remote
    BY <1>1 DEF Alike
  <2> QED BY <2>1, <2>2, <2>3, <2>4 DEF LegOK
<1>3. ASSUME NEW u \in Party PROVE PcOK(u)'
  <2>1. PcOK(u)
    BY DEF CallInv
  <2>2. CASE page[u].pc = 0
    BY <2>2 DEF PcOK, Steady
  <2>3. CASE page[u].pc # 0
    <3>1. page[u].pc \in Conn
      BY <2>1, <2>3 DEF PcOK
    <3> DEFINE c == page[u].pc
    <3>2. /\ conns'[c].owner = conns[c].owner /\ conns'[c].peer = conns[c].peer
          /\ conns'[c].remote = conns[c].remote /\ conns'[c].place = conns[c].place
          /\ conns[c].status # "closed" => conns'[c].status # "closed"
      BY <3>1 DEF Alike
    <3>3. /\ page'[u].pc = c /\ page'[u].peer = page[u].peer
          /\ page'[u].described = page[u].described
          /\ page'[u].state = "outgoing" => page[u].state = "outgoing"
          /\ stray[u] => stray'[u]
      BY <2>3 DEF Steady
    <3> QED BY <1>1, <2>1, <2>3, <3>1, <3>2, <3>3 DEF PcOK
  <2> QED BY <2>2, <2>3
<1> QED BY <1>1, <1>2, <1>3

\* The candidate of y is still to come, or x has it, or nobody waits for it.
Reached(x, y) ==
  \/ OnItsWay(y)'
  \/ stray'[conns[x].owner]
  \/ conns[x].remote = 0 /\ y \in page'[conns[x].owner].early
  \/ conns[x].remote = y /\ conns'[x].ice
  \/ conns[x].remote \notin {0, y}

LEMMA BoundFrame ==
  ASSUME CallInv, Alike, Steady,
         \A x, y \in Conn : Bound(x, y) /\ OnItsWay(y) => Reached(x, y)
  PROVE  \A x, y \in Conn' : BoundOK(x, y)'
<1>1. /\ Conn' = Conn /\ Conn \subseteq Nat
      /\ \A c \in Conn : c # 0 /\ conns[c].owner \in Party
  BY AlikeFacts
<1>0. \A c \in Conn : conns[c].ice => conns'[c].ice
  BY DEF Alike
<1> SUFFICES ASSUME NEW x \in Conn, NEW y \in Conn, Bound(x, y)'
             PROVE  BoundOK(x, y)'
  BY <1>1 DEF BoundOK
<1>2. /\ conns'[x].owner = conns[x].owner /\ conns'[x].peer = conns[x].peer
      /\ conns'[x].remote = conns[x].remote
      /\ conns'[y].owner = conns[y].owner /\ conns'[y].peer = conns[y].peer
      /\ conns'[y].remote = conns[y].remote
  BY DEF Alike
<1>3. page[conns[x].owner].pc = x
  BY <1>1, <1>2 DEF Bound, Steady
<1>4. /\ page[conns[x].owner].early \subseteq page'[conns[x].owner].early
      /\ stray[conns[x].owner] => stray'[conns[x].owner]
  BY <1>1, <1>3 DEF Steady
<1>5. Bound(x, y) /\ BoundOK(x, y) /\ y # 0
  BY <1>1, <1>2, <1>3 DEF Bound, CallInv
<1>6. OnItsWay(y) => Reached(x, y)
  BY <1>5
<1>7. (conns[x].remote = 0 =>
         OnItsWay(y) \/ y \in page[conns[x].owner].early \/ stray[conns[x].owner])'
  <2> SUFFICES ASSUME conns'[x].remote = 0
               PROVE  (OnItsWay(y) \/ y \in page[conns[x].owner].early \/ stray[conns[x].owner])'
    OBVIOUS
  <2>0. conns[x].remote = 0
    BY <1>2
  <2>1. OnItsWay(y) \/ y \in page[conns[x].owner].early \/ stray[conns[x].owner]
    BY <1>5, <2>0 DEF BoundOK
  <2>2. OnItsWay(y) => OnItsWay(y)' \/ stray'[conns[x].owner] \/ y \in page'[conns[x].owner].early
    BY <1>5, <1>6, <2>0 DEF Reached
  <2> QED BY <1>2, <1>4, <2>1, <2>2
<1>8. (conns[x].remote = y =>
         OnItsWay(y) \/ conns[x].ice \/ stray[conns[x].owner])'
  <2> SUFFICES ASSUME conns'[x].remote = y
               PROVE  (OnItsWay(y) \/ conns[x].ice \/ stray[conns[x].owner])'
    OBVIOUS
  <2>0. conns[x].remote = y
    BY <1>2
  <2>1. OnItsWay(y) \/ conns[x].ice \/ stray[conns[x].owner]
    BY <1>5, <2>0 DEF BoundOK
  <2>2. OnItsWay(y) => OnItsWay(y)' \/ stray'[conns[x].owner] \/ conns'[x].ice
    BY <1>5, <1>6, <2>0 DEF Reached
  <2>3. conns[x].ice => conns'[x].ice
    BY <1>0
  <2>4. stray[conns[x].owner] => stray'[conns'[x].owner]
    BY <1>2, <1>4
  <2>5. stray'[conns[x].owner] => stray'[conns'[x].owner]
    BY <1>2
  <2> HIDE DEF OnItsWay
  <2> QED BY <2>1, <2>2, <2>3, <2>4, <2>5
<1> QED BY <1>7, <1>8 DEF BoundOK

-----------------------------------------------------------------------------
(* Steps that make no connection. *)

\* Who is called does not call himself.
LEMMA RingFacts ==
  ASSUME CallInv, NEW u \in Party, ringing[u] # Nobody
  PROVE  /\ ringing[u].from \in Party \ {u} /\ ringing[u].offer \in Conn
         /\ ringing[u].offer \in Nat
<1>1. ringing[u] \in [from : Party, offer : Nat]
  BY DEF CallInv, CallTypes
<1>2. RingOK(u)
  BY DEF CallInv
<1> QED BY <1>1, <1>2 DEF RingOK

LEMMA VoicesStep ==
  ASSUME CallInv, Conn \subseteq Conn',
         \A c \in Conn : /\ conns'[c].owner = conns[c].owner
                         /\ conns'[c].peer = conns[c].peer
                         /\ conns[c].remote # 0 => conns'[c].remote # 0,
         \A p, q \in Party : \A s :
           Among(net'[p][q], s) => Among(net[p][q], s) \/ VoiceOK(p, q, s)'
  PROVE  VoicesOK'
<1> SUFFICES ASSUME NEW p \in Party, NEW q \in Party, NEW s, Among(net'[p][q], s)
             PROVE  VoiceOK(p, q, s)'
  BY DEF VoicesOK
<1>1. CASE Among(net[p][q], s)
  <2>1. VoiceOK(p, q, s)
    BY <1>1, VoicesAre DEF CallInv, VoicesOK
  <2> QED BY <2>1 DEF VoiceOK
<1> QED BY <1>1

LEMMA InvFrom ==
  ASSUME CallTypes',
         \A u \in Party : PageOK(u)' /\ PcOK(u)' /\ RingOK(u)',
         \A c \in Conn' : LegOK(c)',
         \A m \in media' : CameraOK(m)',
         VoicesOK',
         \A x, y \in Conn' : BoundOK(x, y)'
  PROVE  CallInv'
<1>1. (\A u, v \in Party : \A i \in DOMAIN net[u][v] : VoiceOK(u, v, net[u][v][i]))'
  BY DEF VoicesOK, Among
<1> QED BY <1>1 DEF CallInv

LEMMA OpenIs ==
  ASSUME CallInv, NEW u \in Party, NEW v \in Party \ {u}, NEW incoming \in BOOLEAN,
         Open(u, v, incoming)
  PROVE  /\ page' \in [Party -> Sheet] /\ stray' \in [Party -> BOOLEAN]
         /\ \A w \in Party : w # u => page'[w] = page[w] /\ stray'[w] = stray[w]
         /\ page[u] = Home
         /\ page'[u].state = IF incoming THEN "incoming" ELSE "outgoing"
         /\ page'[u].peer = v /\ page'[u].incoming = incoming /\ page'[u].timer = ~incoming
         /\ page'[u].pc = 0 /\ page'[u].described = FALSE
<1> DEFINE new == [Home EXCEPT !.state = IF incoming THEN "incoming" ELSE "outgoing",
                    !.peer = v, !.incoming = incoming, !.timer = ~incoming]
<1>1. page' = [page EXCEPT ![u] = new] /\ stray' = [stray EXCEPT ![u] = FALSE]
  BY DEF Open
<1>2. /\ new.state = IF incoming THEN "incoming" ELSE "outgoing"
      /\ new.peer = v /\ new.incoming = incoming /\ new.timer = ~incoming
      /\ new.pc = 0 /\ new.described = FALSE
  BY DEF Home
<1>3. new \in Sheet
  BY DEF Home, Sheet, State
<1> HIDE DEF new
<1>4. page \in [Party -> Sheet] /\ stray \in [Party -> BOOLEAN]
  BY DEF CallInv, CallTypes
<1>5. page[u] = Home
  BY DEF CallInv, PageOK, Open
<1> QED BY <1>1, <1>2, <1>3, <1>4, <1>5

\* A page is opened: no connection, nothing in the net.
LEMMA OpenInv ==
  ASSUME CallInv, NEW u \in Party, NEW v \in Party \ {u}, NEW incoming \in BOOLEAN,
         Open(u, v, incoming), UNCHANGED <<ringing, conns, net, redirects>>,
         \/ media' = media
         \/ ~CameraAsked(u) /\ media' = media \cup {Request(u, v, "start", 0)}
  PROVE  CallInv'
<1>1. /\ page' \in [Party -> Sheet] /\ stray' \in [Party -> BOOLEAN]
      /\ \A w \in Party : w # u => page'[w] = page[w] /\ stray'[w] = stray[w]
      /\ page[u] = Home
      /\ page'[u].state = IF incoming THEN "incoming" ELSE "outgoing"
      /\ page'[u].peer = v /\ page'[u].incoming = incoming /\ page'[u].timer = ~incoming
      /\ page'[u].pc = 0 /\ page'[u].described = FALSE
  BY OpenIs
<1>2. Home.pc = 0 /\ Home.state = "home"
  BY DEF Home
<1>3. \A w \in Party : page'[w].pc = page[w].pc
  BY <1>1, <1>2
<1>4. Conn' = Conn
  BY DEF Conn
<1> DEFINE ask == Request(u, v, "start", 0)
<1>5. media' = media \/ media' = media \cup {ask}
  OBVIOUS
<1>6. ~CameraAsked(u) => /\ ask \in Camera /\ ask.user = u /\ ask.peer = v
                    /\ ask.kind = "start" /\ ask.offer = 0
  BY DEF Camera, Request
<1>17. media' = media \/ ~CameraAsked(u)
  OBVIOUS
<1> HIDE DEF ask
<1>15. Alike
  BY SameAlike DEF CallInv
<1>16. Steady
  BY <1>1, <1>2, <1>3 DEF Steady
<1>7. CallTypes'
  BY <1>1, <1>5, <1>6, <1>17 DEF CallInv, CallTypes
<1>8. \A w \in Party : PageOK(w)'
  <2> TAKE w \in Party
  <2>1. CASE w = u
    BY <1>1, <2>1 DEF PageOK
  <2>2. CASE w # u
    <3>1. PageOK(w)
      BY DEF CallInv
    <3> QED BY <1>1, <2>2, <3>1 DEF PageOK
  <2> QED BY <2>1, <2>2
<1>9. (\A w \in Party : PcOK(w)') /\ (\A c \in Conn' : LegOK(c)')
  BY <1>15, <1>16, LegsFrame
<1>10. \A w \in Party : RingOK(w)'
  BY <1>4 DEF CallInv, RingOK
<1>11. \A m \in media' : CameraOK(m)'
  <2> TAKE m \in media'
  <2>1. CASE m \in media
    <3>1. CameraOK(m) /\ m.user \in Party
      BY <2>1 DEF CallInv, CallTypes, Camera
    <3>2. m.here => m.user # u
      BY <1>1, <1>2, <3>1 DEF CameraOK
    <3> QED BY <1>1, <1>4, <3>1, <3>2 DEF CameraOK
  <2>2. CASE m \notin media
    <3>1. m = ask
      BY <1>5, <2>2
    <3> QED BY <1>1, <1>5, <1>6, <1>17, <2>2, <3>1 DEF CameraOK
  <2> QED BY <2>1, <2>2
<1>13. VoicesOK'
  BY <1>4, VoicesStep
<1>14. \A x, y \in Conn' : BoundOK(x, y)'
  <2>1. \A c \in Conn : OnItsWay(c) => OnItsWay(c)'
    BY DEF OnItsWay
  <2>2. \A x, y \in Conn : Bound(x, y) /\ OnItsWay(y) => Reached(x, y)
    BY <2>1 DEF Reached
  <2> QED BY <1>15, <1>16, <2>2, BoundFrame
<1> QED BY <1>7, <1>8, <1>9, <1>10, <1>11, <1>13, <1>14, InvFrom

LEMMA DialInv ==
  ASSUME CallInv, NEW d \in Dials, Dial(d[1], d[2])
  PROVE  CallInv'
<1>1. d[1] \in Party /\ d[2] \in Party \ {d[1]}
  BY CallsAssumption
<1>2. /\ Open(d[1], d[2], FALSE)
      /\ ~CameraAsked(d[1]) /\ media' = media \cup {Request(d[1], d[2], "start", 0)}
      /\ UNCHANGED <<ringing, conns, net, redirects>>
  BY DEF Dial
<1>3. FALSE \in BOOLEAN
  OBVIOUS
<1> QED BY <1>1, <1>2, <1>3, OpenInv

LEMMA HandleAcceptCallInv ==
  ASSUME CallInv, NEW u \in Party, HandleAcceptCall(u)
  PROVE  CallInv'
<1>1. ringing[u].from \in Party \ {u}
  BY RingFacts DEF HandleAcceptCall
<1>2. /\ Open(u, ringing[u].from, TRUE)
      /\ UNCHANGED <<ringing, media, conns, net, redirects>>
  BY DEF HandleAcceptCall
<1> QED BY <1>1, <1>2, OpenInv

\* The pages keep what the connections rest on.
LEMMA PassInv ==
  ASSUME CallInv, CallTypes', Alike,
         \A u \in Party : PageOK(u)' /\ RingOK(u)',
         \A u \in Party :
           /\ page'[u].pc = page[u].pc
           /\ page[u].pc # 0 =>
                /\ page'[u].described = page[u].described
                /\ page'[u].state = "outgoing" => page[u].state = "outgoing"
           /\ page'[u].peer = page[u].peer /\ page'[u].incoming = page[u].incoming
           /\ page[u].early \subseteq page'[u].early \/ page[u].pc = 0
           /\ page[u].state # "home" => page'[u].state # "home"
           /\ stray[u] => stray'[u],
         \A m \in media' : m \in media \/ CameraOK(m)',
         \A p, q \in Party : \A s :
           Among(net'[p][q], s) => Among(net[p][q], s) \/ VoiceOK(p, q, s)',
         \A x, y \in Conn : Bound(x, y) /\ OnItsWay(y) => Reached(x, y)
  PROVE  CallInv'
<1>4. Conn' = Conn
  BY DEF Conn, Alike
<1>5. Steady
  BY DEF Steady
<1>9. (\A w \in Party : PcOK(w)') /\ (\A c \in Conn' : LegOK(c)')
  BY <1>5, LegsFrame
<1>11. \A m \in media' : CameraOK(m)'
  <2> TAKE m \in media'
  <2>1. CASE m \in media
    <3>1. CameraOK(m) /\ m.user \in Party
      BY <2>1 DEF CallInv, CallTypes, Camera
    <3> QED BY <1>4, <3>1 DEF CameraOK
  <2> QED BY <2>1
<1>13. VoicesOK'
  <2>1. \A c \in Conn : /\ conns'[c].owner = conns[c].owner
                        /\ conns'[c].peer = conns[c].peer
                        /\ conns[c].remote # 0 => conns'[c].remote # 0
    BY DEF Alike
  <2> QED BY <1>4, <2>1, VoicesStep
<1>14. \A x, y \in Conn' : BoundOK(x, y)'
  BY <1>5, BoundFrame
<1> QED BY <1>9, <1>11, <1>13, <1>14, InvFrom

LEMMA QuietInv ==
  ASSUME CallInv, CallTypes', conns' = conns,
         \A u \in Party : PageOK(u)' /\ RingOK(u)',
         \A u \in Party :
           /\ page'[u].pc = page[u].pc
           /\ page[u].pc # 0 =>
                /\ page'[u].described = page[u].described
                /\ page'[u].state = "outgoing" => page[u].state = "outgoing"
           /\ page'[u].peer = page[u].peer /\ page'[u].incoming = page[u].incoming
           /\ page[u].early \subseteq page'[u].early \/ page[u].pc = 0
           /\ page[u].state # "home" => page'[u].state # "home"
           /\ stray[u] => stray'[u],
         \A m \in media' : m \in media \/ CameraOK(m)',
         \A p, q \in Party : \A s :
           Among(net'[p][q], s) => Among(net[p][q], s) \/ VoiceOK(p, q, s)',
         \A c \in Conn : OnItsWay(c) => OnItsWay(c)'
  PROVE  CallInv'
<1>1. Alike
  BY SameAlike DEF CallInv
<1>2. \A x, y \in Conn : Bound(x, y) /\ OnItsWay(y) => Reached(x, y)
  BY DEF Reached
<1> QED BY <1>1, <1>2, PassInv

\* A message that is no signal of a connection.
LEMMA EmitIs ==
  ASSUME CallInv, NEW u \in Party, NEW v \in Party, NEW kind \in {"call:reject", "call:end"},
         Emit(u, v, kind)
  PROVE  /\ net' \in [Party -> [Party -> Seq(Voice)]]
         /\ \A p, q \in Party : \A s :
              /\ Among(net[p][q], s) => Among(net'[p][q], s)
              /\ Among(net'[p][q], s) => Among(net[p][q], s) \/ s.kind \in {"call:reject", "call:end"}
<1>1. Signal(kind, 0) \in Voice /\ Signal(kind, 0).kind = kind
  BY OneVoice
<1> DEFINE x == Signal(kind, 0)
           a == <<x>>
<1>2. Send(u, v, a)
  BY DEF Emit
<1>3. x \in Voice /\ x.kind = kind
  BY <1>1
<1> HIDE DEF x
<1>5. a = <<x>>
  OBVIOUS
<1> HIDE DEF a
<1>4. a \in Seq(Voice) /\ \A s : Among(a, s) <=> s = x
  BY <1>3, <1>5, OneSent
<1>6. CallTypes
  BY DEF CallInv
<1>7. /\ net' \in [Party -> [Party -> Seq(Voice)]]
      /\ \A p, q \in Party : \A s :
           Among(net'[p][q], s) <=> Among(net[p][q], s) \/ (p = u /\ q = v /\ Among(a, s))
  BY <1>2, <1>4, <1>6, NetSend
<1> QED BY <1>3, <1>4, <1>7

LEMMA WayStays ==
  ASSUME \A c \in Conn : /\ conns'[c].owner = conns[c].owner
                         /\ conns'[c].peer = conns[c].peer
                         /\ conns[c].owner \in Party /\ conns[c].peer \in Party,
         \A p, q \in Party : \A s : Among(net[p][q], s) => Among(net'[p][q], s)
  PROVE  \A c \in Conn : OnItsWay(c) => OnItsWay(c)'
<1> TAKE c \in Conn
<1> DEFINE s == Signal("call:ice-candidate", c)
<1>1. OnItsWay(c) => Among(net[conns[c].owner][conns[c].peer], s)
  BY DEF OnItsWay, Among
<1>2. Among(net'[conns'[c].owner][conns'[c].peer], s) => OnItsWay(c)'
  BY DEF OnItsWay, Among, Signal
<1> HIDE DEF s
<1> QED BY <1>1, <1>2

LEMMA EmitWay ==
  ASSUME CallInv, NEW u \in Party, NEW v \in Party, NEW kind \in {"call:reject", "call:end"},
         Emit(u, v, kind), conns' = conns
  PROVE  \A c \in Conn : OnItsWay(c) => OnItsWay(c)'
<1>1. \A c \in Conn : conns[c].owner \in Party /\ conns[c].peer \in Party
  BY CallTypeFacts DEF CallInv, Leg
<1>2. \A p, q \in Party : \A s : Among(net[p][q], s) => Among(net'[p][q], s)
  BY EmitIs
<1> QED BY <1>1, <1>2, WayStays

LEMMA RejectCallInv ==
  ASSUME CallInv, NEW u \in Party, HandleRejectCall(u)
  PROVE  CallInv'
<1>1. /\ ringing[u] # Nobody /\ Emit(u, ringing[u].from, "call:reject")
      /\ ringing' = [ringing EXCEPT ![u] = Nobody]
      /\ UNCHANGED <<page, media, conns, redirects, stray>>
  BY DEF HandleRejectCall
<1>2. ringing[u].from \in Party
  BY <1>1, RingFacts
<1>3. /\ net' \in [Party -> [Party -> Seq(Voice)]]
      /\ \A p, q \in Party : \A s :
           Among(net'[p][q], s) => Among(net[p][q], s) \/ s.kind \in {"call:reject", "call:end"}
  BY <1>1, <1>2, EmitIs
<1>4. \A c \in Conn : OnItsWay(c) => OnItsWay(c)'
  BY <1>1, <1>2, EmitWay
<1>5. CallTypes'
  BY <1>1, <1>3 DEF CallInv, CallTypes
<1>6. Conn' = Conn
  BY <1>1 DEF Conn
<1>7. \A w \in Party : PageOK(w)' /\ RingOK(w)'
  BY <1>1, <1>6 DEF CallInv, CallTypes, PageOK, RingOK
<1>8. \A p, q \in Party : \A s :
           Among(net'[p][q], s) => Among(net[p][q], s) \/ VoiceOK(p, q, s)'
  BY <1>3 DEF VoiceOK
<1> QED BY <1>1, <1>4, <1>5, <1>7, <1>8, QuietInv

-----------------------------------------------------------------------------
(* Cameras, tokens, timers and pages that are left. *)

LEMMA HomeIs ==
  /\ Home \in Sheet /\ Home.state = "home" /\ Home.peer = Nobody /\ Home.incoming = FALSE
  /\ Home.timer = FALSE /\ Home.pc = 0 /\ Home.described = FALSE /\ Home.early = {}
  BY DEF Home, Sheet, State

LEMMA HandleAnswerInv ==
  ASSUME CallInv, turns' \in Nat, NEW u \in Party, HandleAnswer(u)
  PROVE  CallInv'
<1> DEFINE ask == Request(u, page[u].peer, "answer", ringing[u].offer)
<1>1. /\ page[u].state = "incoming" /\ ringing[u] # Nobody
      /\ media' = media \cup {ask}
      /\ UNCHANGED <<page, ringing, conns, net, redirects, stray>>
  BY DEF HandleAnswer
<1>2. PageOK(u) /\ page[u] \in Sheet
  BY CallTypeFacts DEF CallInv
<1>3. page[u].peer \in Party \ {u}
  BY <1>1, <1>2 DEF PageOK
<1>4. ringing[u].offer \in Conn /\ ringing[u].offer \in Nat
  BY <1>1, RingFacts
<1>5. media' = media \cup {ask}
  BY <1>1
<1>6. /\ ask \in Camera /\ ask.user = u /\ ask.peer = page[u].peer
      /\ ask.kind = "answer" /\ ask.offer = ringing[u].offer
  BY <1>3, <1>4 DEF Camera, Request
<1> HIDE DEF ask
<1>7. CallTypes'
  BY <1>1, <1>5, <1>6 DEF CallInv, CallTypes
<1>8. Conn' = Conn
  BY <1>1 DEF Conn
<1>9. \A w \in Party : PageOK(w)' /\ RingOK(w)'
  BY <1>1, <1>8 DEF CallInv, PageOK, RingOK
<1>10. \A m \in media' : m \in media \/ CameraOK(m)'
  BY <1>1, <1>3, <1>4, <1>5, <1>6, <1>8 DEF CameraOK
<1>12. \A c \in Conn : OnItsWay(c) => OnItsWay(c)'
  BY <1>1 DEF OnItsWay
<1> QED BY <1>1, <1>7, <1>9, <1>10, <1>12, QuietInv

LEMMA MediaFailsInv ==
  ASSUME CallInv, NEW m \in media, MediaFails(m)
  PROVE  CallInv'
<1>1. /\ media' = media \ {m}
      /\ ringing' = IF m.kind = "answer" THEN [ringing EXCEPT ![m.user] = Nobody] ELSE ringing
      /\ UNCHANGED <<page, conns, net, redirects, stray>>
  BY DEF MediaFails
<1>2. \A w \in Party : ringing'[w] \in {ringing[w], Nobody}
  BY <1>1 DEF CallInv, CallTypes
<1>3. ringing' \in [Party -> {Nobody} \cup [from : Party, offer : Nat]]
  BY <1>1 DEF CallInv, CallTypes
<1>7. CallTypes'
  BY <1>1, <1>3 DEF CallInv, CallTypes
<1>8. Conn' = Conn
  BY <1>1 DEF Conn
<1>9. \A w \in Party : PageOK(w)' /\ RingOK(w)'
  BY <1>1, <1>2, <1>8 DEF CallInv, PageOK, RingOK
<1>12. \A c \in Conn : OnItsWay(c) => OnItsWay(c)'
  BY <1>1 DEF OnItsWay
<1> QED BY <1>1, <1>7, <1>9, <1>12, QuietInv

\* The timer is set anew.
LEMMA TokenRefreshedInv ==
  ASSUME CallInv, NEW u \in Party, TokenRefreshed(u)
  PROVE  CallInv'
<1>1. /\ page[u].state # "home"
      /\ page' = [page EXCEPT ![u].timer = ~page[u].incoming]
      /\ UNCHANGED <<ringing, media, conns, net, redirects, stray>>
  BY DEF TokenRefreshed
<1>2. page \in [Party -> Sheet]
  BY DEF CallInv, CallTypes
<1>3. /\ page' \in [Party -> Sheet]
      /\ \A w \in Party : w # u => page'[w] = page[w]
      /\ page'[u].timer = ~page[u].incoming
      /\ page'[u].state = page[u].state /\ page'[u].peer = page[u].peer
      /\ page'[u].incoming = page[u].incoming /\ page'[u].pc = page[u].pc
      /\ page'[u].described = page[u].described /\ page'[u].early = page[u].early
      /\ page'[u].refused = page[u].refused
  BY <1>1, <1>2 DEF Sheet
<1>7. CallTypes'
  BY <1>1, <1>3 DEF CallInv, CallTypes
<1>8. Conn' = Conn
  BY <1>1 DEF Conn
<1>9. \A w \in Party : PageOK(w)'
  <2> TAKE w \in Party
  <2>1. PageOK(w)
    BY DEF CallInv
  <2>2. CASE w = u
    BY <1>1, <1>3, <2>1, <2>2 DEF PageOK
  <2>3. CASE w # u
    BY <1>1, <1>3, <2>1, <2>3 DEF PageOK
  <2> QED BY <2>2, <2>3
<1>10. \A w \in Party : RingOK(w)'
  BY <1>1, <1>8 DEF CallInv, RingOK
<1>12. \A c \in Conn : OnItsWay(c) => OnItsWay(c)'
  BY <1>1 DEF OnItsWay
<1> QED BY <1>1, <1>3, <1>7, <1>9, <1>10, <1>12, QuietInv

LEMMA EndedIs ==
  ASSUME CallInv, NEW u \in Party, page[u].state # "home", Ended(u)
  PROVE  /\ page' \in [Party -> Sheet] /\ redirects' \in [Party -> Nat]
         /\ \A w \in Party : w # u => page'[w] = page[w]
         /\ page'[u].state = "ended" /\ ~page'[u].timer
         /\ page'[u].peer = page[u].peer
         /\ page'[u].incoming = page[u].incoming /\ page'[u].pc = page[u].pc
         /\ page'[u].described = page[u].described /\ page'[u].early = page[u].early
         /\ page'[u].refused = page[u].refused
<1>1. page \in [Party -> Sheet] /\ redirects \in [Party -> Nat]
  BY DEF CallInv, CallTypes
<1>2. /\ page' = [page EXCEPT ![u].state = "ended", ![u].timer = FALSE]
      /\ redirects' = [redirects EXCEPT ![u] = @ + 1]
  BY DEF Ended
<1>3. redirects' \in [Party -> Nat]
  BY <1>1, <1>2
<1> QED BY ZenonT(40), <1>1, <1>2, <1>3 DEF Sheet, State

LEMMA EndedPages ==
  ASSUME CallInv, NEW u \in Party, page[u].state # "home", Ended(u), stray' = stray
  PROVE  \A w \in Party : PageOK(w)'
<1>1. /\ \A w \in Party : w # u => page'[w] = page[w]
      /\ page'[u].state = "ended" /\ ~page'[u].timer
      /\ page'[u].peer = page[u].peer /\ page'[u].pc = page[u].pc
      /\ page'[u].described = page[u].described
      /\ page'[u].incoming = page[u].incoming
  BY EndedIs
<1> TAKE w \in Party
<1>2. PageOK(w)
  BY DEF CallInv
<1>3. CASE w = u
  BY <1>1, <1>2, <1>3 DEF PageOK
<1>4. CASE w # u
  BY <1>1, <1>2, <1>4 DEF PageOK
<1> QED BY <1>3, <1>4

LEMMA NoAnswerInv ==
  ASSUME CallInv, NEW u \in Party, NoAnswer(u)
  PROVE  CallInv'
<1>1. /\ page[u].timer /\ Emit(u, page[u].peer, "call:end") /\ Ended(u)
      /\ UNCHANGED <<ringing, media, conns, stray>>
  BY DEF NoAnswer
<1>2. PageOK(u)
  BY DEF CallInv
<1>3. page[u].state # "home" /\ page[u].peer \in Party
  BY <1>1, <1>2, HomeIs DEF PageOK
<1>4. /\ page' \in [Party -> Sheet] /\ redirects' \in [Party -> Nat]
      /\ \A w \in Party : w # u => page'[w] = page[w]
      /\ page'[u].state = "ended"
      /\ page'[u].peer = page[u].peer
      /\ page'[u].incoming = page[u].incoming /\ page'[u].pc = page[u].pc
      /\ page'[u].described = page[u].described /\ page'[u].early = page[u].early
  BY <1>1, <1>3, EndedIs
<1>5. /\ net' \in [Party -> [Party -> Seq(Voice)]]
      /\ \A p, q \in Party : \A s :
           Among(net'[p][q], s) => Among(net[p][q], s) \/ s.kind \in {"call:reject", "call:end"}
  BY <1>1, <1>3, EmitIs
<1>6. \A c \in Conn : OnItsWay(c) => OnItsWay(c)'
  BY <1>1, <1>3, EmitWay
<1>7. CallTypes'
  BY <1>1, <1>4, <1>5 DEF CallInv, CallTypes
<1>8. Conn' = Conn
  BY <1>1 DEF Conn
<1>9. \A w \in Party : PageOK(w)'
  BY <1>1, <1>3, EndedPages
<1>10. \A w \in Party : RingOK(w)'
  BY <1>1, <1>8 DEF CallInv, RingOK
<1>12. \A p, q \in Party : \A s :
           Among(net'[p][q], s) => Among(net[p][q], s) \/ VoiceOK(p, q, s)'
  BY <1>5 DEF VoiceOK
<1> QED BY <1>1, <1>3, <1>4, <1>6, <1>7, <1>9, <1>10, <1>12, QuietInv

-----------------------------------------------------------------------------
(* A page is left. *)

\* The connections of u end, or are nobody's; no other connection changes.
Shut(u) ==
  /\ page' \in [Party -> Sheet] /\ page'[u].pc = 0 /\ ~page'[u].described
  /\ \A w \in Party : w # u => page'[w] = page[w] /\ stray'[w] = stray[w]
  /\ conns' \in Seq(Leg) /\ Len(conns') = Len(conns) /\ Conn' = Conn
  /\ \A c \in Conn :
       /\ conns'[c].owner = conns[c].owner /\ conns'[c].peer = conns[c].peer
       /\ conns'[c].remote = conns[c].remote /\ conns'[c].ice = conns[c].ice
       /\ conns[c].owner # u => /\ conns'[c].place = conns[c].place
                                /\ conns'[c].status = conns[c].status
       /\ conns[c].owner = u => conns'[c].status = "closed" \/ conns'[c].place = "alone"

LEMMA ShutInv ==
  ASSUME CallInv, NEW u \in Party, Shut(u), PageOK(u)',
         stray' \in [Party -> BOOLEAN], redirects' \in [Party -> Nat],
         ringing' \in [Party -> {Nobody} \cup [from : Party, offer : Nat]],
         \A w \in Party : ringing'[w] \in {ringing[w], Nobody},
         media' \subseteq Camera, \A m \in media' : CameraOK(m)',
         net' \in [Party -> [Party -> Seq(Voice)]],
         \A p, q \in Party : \A s :
           /\ Among(net[p][q], s) => Among(net'[p][q], s)
           /\ Among(net'[p][q], s) => Among(net[p][q], s) \/ s.kind \in {"call:reject", "call:end"}
  PROVE  CallInv'
<1>1. /\ page' \in [Party -> Sheet] /\ page'[u].pc = 0
      /\ \A w \in Party : w # u => page'[w] = page[w] /\ stray'[w] = stray[w]
      /\ conns' \in Seq(Leg) /\ Len(conns') = Len(conns) /\ Conn' = Conn
      /\ \A c \in Conn :
           /\ conns'[c].owner = conns[c].owner /\ conns'[c].peer = conns[c].peer
           /\ conns'[c].remote = conns[c].remote /\ conns'[c].ice = conns[c].ice
           /\ conns[c].owner # u => /\ conns'[c].place = conns[c].place
                                    /\ conns'[c].status = conns[c].status
           /\ conns[c].owner = u => conns'[c].status = "closed" \/ conns'[c].place = "alone"
  BY DEF Shut
<1>3. /\ Conn \subseteq Nat
      /\ \A c \in Conn : conns[c].owner \in Party /\ conns[c].peer \in Party
  BY CallTypeFacts DEF CallInv, Leg
<1>7. CallTypes'
  BY <1>1 DEF CallInv, CallTypes
<1>9. \A w \in Party : PageOK(w)'
  <2> TAKE w \in Party
  <2>1. PageOK(w)
    BY DEF CallInv
  <2>3. CASE w # u
    BY <1>1, <2>1, <2>3 DEF PageOK
  <2> QED BY <2>3
<1>10. \A w \in Party : RingOK(w)'
  <2> TAKE w \in Party
  <2>1. RingOK(w)
    BY DEF CallInv
  <2> QED BY <1>1, <2>1 DEF RingOK
<1>11. \A w \in Party : PcOK(w)'
  <2> TAKE w \in Party
  <2>1. PcOK(w)
    BY DEF CallInv
  <2>2. CASE w = u
    BY <1>1, <2>2 DEF PcOK
  <2>3. CASE w # u
    <3>2. page'[w] = page[w] /\ stray'[w] = stray[w]
      BY <1>1, <2>3
    <3> QED BY SMTT(30), <1>1, <2>1, <2>3, <3>2 DEF PcOK
  <2> QED BY <2>2, <2>3
<1>12. \A c \in Conn' : LegOK(c)'
  <2> SUFFICES ASSUME NEW c \in Conn PROVE LegOK(c)'
    BY <1>1
  <2>1. LegOK(c) /\ conns[c].owner \in Party
    BY <1>3 DEF CallInv
  <2>2. conns[c].remote > c => conns[c].remote \in Conn
    <3>1. c \in Nat /\ c # 0 /\ Conn = 1..Len(conns) /\ Len(conns) \in Nat
      BY CallTypeFacts DEF CallInv
    <3> QED BY <2>1, <3>1 DEF LegOK
  <2>3. CASE conns[c].owner = u
    BY ZenonT(40), <1>1, <2>1, <2>2, <2>3 DEF LegOK
  <2>4. CASE conns[c].owner # u
    <3>1. page'[conns[c].owner] = page[conns[c].owner]
      BY <1>1, <2>1, <2>4
    <3> QED BY <1>1, <2>1, <2>2, <2>4, <3>1 DEF LegOK
  <2> QED BY <2>3, <2>4
<1>14. VoicesOK'
  <2>1. \A p, q \in Party : \A s :
          Among(net'[p][q], s) => Among(net[p][q], s) \/ VoiceOK(p, q, s)'
    BY DEF VoiceOK
  <2> QED BY <1>1, <2>1, VoicesStep
<1>15. \A x, y \in Conn' : BoundOK(x, y)'
  <2>1. \A c \in Conn : OnItsWay(c) => OnItsWay(c)'
    BY <1>1, <1>3, WayStays
  <2> SUFFICES ASSUME NEW x \in Conn, NEW y \in Conn, Bound(x, y)' PROVE BoundOK(x, y)'
    BY <1>1 DEF BoundOK
  <2>2. BoundOK(x, y)
    BY DEF CallInv
  <2>3. /\ conns[x].owner # u /\ page'[conns[x].owner] = page[conns[x].owner]
        /\ stray'[conns[x].owner] = stray[conns[x].owner]
    <3>1. page'[conns[x].owner].pc = x
      BY <1>1 DEF Bound
    <3>2. x # 0 /\ conns[x].owner \in Party
      BY <1>3, CallTypeFacts DEF CallInv
    <3> QED BY <1>1, <3>1, <3>2
  <2>4. Bound(x, y)
    BY <1>1, <2>3 DEF Bound
  <2> QED BY <1>1, <2>1, <2>2, <2>3, <2>4 DEF BoundOK
<1> QED BY <1>7, <1>9, <1>10, <1>11, <1>12, <1>14, <1>15, InvFrom

LEMMA EachIs ==
  ASSUME CallTypes, conns' \in [Conn -> Leg]
  PROVE  conns' \in Seq(Leg) /\ Len(conns') = Len(conns) /\ Conn' = Conn
<1>1. Len(conns) \in Nat /\ Conn = 1..Len(conns)
  BY CallTypeFacts
<1>2. conns' \in [1..Len(conns) -> Leg] /\ DOMAIN conns' = 1..Len(conns)
  BY <1>1
<1>3. conns' \in Seq(Leg)
  BY <1>1, <1>2, SeqDef
<1>4. Len(conns') = Len(conns)
  BY <1>1, <1>2, <1>3, LenProperties
<1> QED BY <1>3, <1>4 DEF Conn

LEMMA UnmountIs ==
  ASSUME CallInv, NEW u \in Party, Unmount(u), stray' = stray
  PROVE  Shut(u) /\ page'[u] = Home
<1>0. /\ page \in [Party -> Sheet] /\ CallTypes /\ \A c \in Conn : conns[c] \in Leg
      /\ PcOK(u)
  BY CallTypeFacts DEF CallInv, CallTypes
<1> DEFINE f(c) == IF c = page[u].pc THEN [conns[c] EXCEPT !.status = "closed"]
                   ELSE IF conns[c].owner = u THEN [conns[c] EXCEPT !.place = "alone"]
                   ELSE conns[c]
<1>1. page' = [page EXCEPT ![u] = Home] /\ conns' = [c \in Conn |-> f(c)]
  BY DEF Unmount
<1>2. page' \in [Party -> Sheet] /\ page'[u] = Home /\ \A w \in Party : w # u => page'[w] = page[w]
  BY <1>0, <1>1, HomeIs
<1>3. ASSUME NEW c \in Conn
      PROVE  /\ f(c) \in Leg
             /\ f(c).owner = conns[c].owner /\ f(c).peer = conns[c].peer
             /\ f(c).remote = conns[c].remote /\ f(c).ice = conns[c].ice
             /\ conns[c].owner # u => /\ f(c).place = conns[c].place
                                      /\ f(c).status = conns[c].status
             /\ conns[c].owner = u => f(c).status = "closed" \/ f(c).place = "alone"
  <2>1. conns[c] \in Leg /\ (c = page[u].pc => c # 0)
    BY <1>0, CallTypeFacts
  <2>2. CASE c = page[u].pc
    <3>1. f(c) = [conns[c] EXCEPT !.status = "closed"] /\ conns[c].owner = u
      BY <1>0, <2>1, <2>2 DEF PcOK
    <3> HIDE DEF f
    <3> QED BY <2>1, <3>1 DEF Leg
  <2>3. CASE c # page[u].pc /\ conns[c].owner = u
    <3>1. f(c) = [conns[c] EXCEPT !.place = "alone"]
      BY <2>3
    <3> HIDE DEF f
    <3> QED BY <2>1, <2>3, <3>1 DEF Leg
  <2>4. CASE c # page[u].pc /\ conns[c].owner # u
    <3>1. f(c) = conns[c]
      BY <2>4
    <3> HIDE DEF f
    <3> QED BY <2>1, <2>4, <3>1
  <2> QED BY <2>2, <2>3, <2>4
<1> HIDE DEF f
<1>4. conns' \in [Conn -> Leg]
  BY <1>1, <1>3
<1>5. conns' \in Seq(Leg) /\ Len(conns') = Len(conns) /\ Conn' = Conn
  BY <1>0, <1>4, EachIs
<1>6. \A c \in Conn : conns'[c] = f(c)
  BY <1>1
<1>7. ~Home.described /\ Home.pc = 0
  BY HomeIs
<1> QED BY <1>2, <1>3, <1>5, <1>6, <1>7 DEF Shut

LEMMA UnmountMedia ==
  ASSUME CallInv, NEW u \in Party, Unmount(u), Shut(u)
  PROVE  media' \subseteq Camera /\ \A k \in media' : CameraOK(k)'
<1>1. media' = {IF m.user = u THEN [m EXCEPT !.here = FALSE] ELSE m : m \in media}
  BY DEF Unmount
<1>2. /\ Conn' = Conn
      /\ \A w \in Party : w # u => page'[w] = page[w]
  BY DEF Shut
<1> SUFFICES ASSUME NEW k \in media' PROVE k \in Camera /\ CameraOK(k)'
  OBVIOUS
<1>3. PICK m \in media : k = IF m.user = u THEN [m EXCEPT !.here = FALSE] ELSE m
  BY <1>1
<1>4. m \in Camera /\ CameraOK(m)
  BY DEF CallInv, CallTypes
<1>5. CASE m.user = u
  <2>1. k = [m EXCEPT !.here = FALSE]
    BY <1>3, <1>5
  <2>2. /\ k \in Camera /\ k.user = m.user /\ k.peer = m.peer /\ k.kind = m.kind
        /\ k.offer = m.offer /\ ~k.here
    BY <1>4, <2>1 DEF Camera
  <2> QED BY <1>2, <1>4, <2>2 DEF CameraOK
<1>6. CASE m.user # u
  <2>1. k = m /\ m.user \in Party
    BY <1>3, <1>4, <1>6 DEF Camera
  <2> QED BY <1>2, <1>4, <1>6, <2>1 DEF CameraOK
<1> QED BY <1>5, <1>6

LEMMA UnmountInv ==
  ASSUME CallInv, NEW u \in Party, Unmount(u), stray' = stray, redirects' \in [Party -> Nat],
         ringing' \in [Party -> {Nobody} \cup [from : Party, offer : Nat]],
         \A w \in Party : ringing'[w] \in {ringing[w], Nobody},
         net' \in [Party -> [Party -> Seq(Voice)]],
         \A p, q \in Party : \A s :
           /\ Among(net[p][q], s) => Among(net'[p][q], s)
           /\ Among(net'[p][q], s) => Among(net[p][q], s) \/ s.kind \in {"call:reject", "call:end"}
  PROVE  CallInv'
<1>1. Shut(u) /\ page'[u] = Home
  BY UnmountIs
<1>2. media' \subseteq Camera /\ \A k \in media' : CameraOK(k)'
  BY <1>1, UnmountMedia
<1>3. PageOK(u)'
  BY <1>1, HomeIs DEF PageOK
<1>4. stray' \in [Party -> BOOLEAN]
  BY DEF CallInv, CallTypes
<1> QED BY <1>1, <1>2, <1>3, <1>4, ShutInv

\* A page is loaded again.
LEMMA ReloadInv ==
  ASSUME CallInv, turns' \in Nat, NEW u \in Party, Reload(u)
  PROVE  CallInv'
<1> DEFINE new == [Home EXCEPT !.state = IF page[u].incoming THEN "incoming" ELSE "outgoing",
                    !.peer = page[u].peer, !.incoming = page[u].incoming,
                    !.timer = ~page[u].incoming]
           ask == Request(u, page[u].peer, "start", 0)
           f(c) == IF conns[c].owner = u THEN [conns[c] EXCEPT !.status = "closed"] ELSE conns[c]
<1>1. /\ page[u].state # "home" /\ page' = [page EXCEPT ![u] = new]
      /\ media' = {m \in media : m.user # u} \cup {ask}
      /\ conns' = [c \in Conn |-> f(c)]
      /\ ringing' = [ringing EXCEPT ![u] = Nobody]
      /\ redirects' = [redirects EXCEPT ![u] = 0]
      /\ stray' = [stray EXCEPT ![u] = FALSE]
      /\ net' = net
  BY DEF Reload
<1>2. /\ page \in [Party -> Sheet] /\ CallTypes /\ \A c \in Conn : conns[c] \in Leg
      /\ PageOK(u) /\ page[u] \in Sheet
  BY CallTypeFacts DEF CallInv, CallTypes
<1>3. page[u].peer \in Party \ {u} /\ page[u].incoming \in BOOLEAN
  BY <1>1, <1>2 DEF PageOK, Sheet
<1>4. /\ new \in Sheet /\ new.state = IF page[u].incoming THEN "incoming" ELSE "outgoing"
      /\ new.peer = page[u].peer /\ new.incoming = page[u].incoming
      /\ new.timer = ~page[u].incoming /\ new.pc = 0 /\ new.described = FALSE
  BY <1>3 DEF Home, Sheet, State
<1>5. /\ ask \in Camera /\ ask.user = u /\ ask.peer = page[u].peer
      /\ ask.kind = "start" /\ ask.offer = 0
  BY <1>3 DEF Camera, Request
<1>6. ASSUME NEW c \in Conn
      PROVE  /\ f(c) \in Leg
             /\ f(c).owner = conns[c].owner /\ f(c).peer = conns[c].peer
             /\ f(c).remote = conns[c].remote /\ f(c).ice = conns[c].ice
             /\ conns[c].owner # u => /\ f(c).place = conns[c].place
                                      /\ f(c).status = conns[c].status
             /\ conns[c].owner = u => f(c).status = "closed" \/ f(c).place = "alone"
  <2>1. conns[c] \in Leg
    BY <1>2
  <2>2. CASE conns[c].owner = u
    <3>1. f(c) = [conns[c] EXCEPT !.status = "closed"]
      BY <2>2
    <3> HIDE DEF f
    <3> QED BY <2>1, <2>2, <3>1 DEF Leg
  <2>3. CASE conns[c].owner # u
    <3>1. f(c) = conns[c]
      BY <2>3
    <3> HIDE DEF f
    <3> QED BY <2>1, <2>3, <3>1
  <2> QED BY <2>2, <2>3
<1> HIDE DEF f, new, ask
<1>7. conns' \in [Conn -> Leg]
  BY <1>1, <1>6
<1>8. conns' \in Seq(Leg) /\ Len(conns') = Len(conns) /\ Conn' = Conn
  BY <1>2, <1>7, EachIs
<1>9. \A c \in Conn : conns'[c] = f(c)
  BY <1>1
<1>10. /\ page' \in [Party -> Sheet] /\ page'[u] = new
       /\ \A w \in Party : w # u => page'[w] = page[w]
  BY <1>1, <1>2, <1>4
<1>11. /\ stray' \in [Party -> BOOLEAN] /\ redirects' \in [Party -> Nat]
       /\ ringing' \in [Party -> {Nobody} \cup [from : Party, offer : Nat]]
       /\ \A w \in Party : ringing'[w] \in {ringing[w], Nobody}
       /\ \A w \in Party : w # u => stray'[w] = stray[w]
       /\ net \in [Party -> [Party -> Seq(Voice)]]
  BY <1>1, <1>2 DEF CallTypes
<1>12. Shut(u)
  BY <1>4, <1>6, <1>8, <1>9, <1>10, <1>11 DEF Shut
<1>13. PageOK(u)'
  BY <1>1, <1>3, <1>4, <1>10, <1>11 DEF PageOK
<1>14. media' \subseteq Camera /\ \A m \in media' : CameraOK(m)'
  <2> SUFFICES ASSUME NEW m \in media' PROVE m \in Camera /\ CameraOK(m)'
    OBVIOUS
  <2>1. CASE m = ask
    <3>1. page'[u].state # "home" /\ page'[u].peer = page[u].peer
      BY <1>4, <1>10
    <3> QED BY <1>3, <1>5, <2>1, <3>1 DEF CameraOK
  <2>2. CASE m # ask
    <3>1. m \in media /\ m.user # u
      BY <1>1, <2>2
    <3>2. m \in Camera /\ CameraOK(m) /\ m.user \in Party
      BY <1>2, <3>1 DEF CallInv, CallTypes, Camera
    <3>3. page'[m.user] = page[m.user]
      BY <1>10, <3>1, <3>2
    <3> QED BY <1>8, <3>2, <3>3 DEF CameraOK
  <2> QED BY <2>1, <2>2
<1> QED BY <1>1, <1>11, <1>12, <1>13, <1>14, ShutInv

LEMMA LeavingInv ==
  ASSUME CallInv, NEW u \in Party,
         GoElsewhere(u) \/ HandleEnd(u) \/ HandleReject(u) \/ Redirect(u)
  PROVE  CallInv'
<1>1. Unmount(u) /\ stray' = stray
  BY DEF GoElsewhere, HandleEnd, HandleReject, Redirect
<1>2. redirects' \in [Party -> Nat]
  <2>1. redirects \in [Party -> Nat]
    BY DEF CallInv, CallTypes
  <2>2. redirects' = redirects \/ (redirects[u] > 0 /\ redirects' = [redirects EXCEPT ![u] = @ - 1])
    BY DEF GoElsewhere, HandleEnd, HandleReject, Redirect
  <2> QED BY <2>1, <2>2
<1>3. /\ ringing' \in [Party -> {Nobody} \cup [from : Party, offer : Nat]]
      /\ \A w \in Party : ringing'[w] \in {ringing[w], Nobody}
  <2>1. ringing' = ringing \/ ringing' = [ringing EXCEPT ![u] = Nobody]
    BY DEF GoElsewhere, HandleEnd, HandleReject, Redirect
  <2>2. ringing \in [Party -> {Nobody} \cup [from : Party, offer : Nat]]
    BY DEF CallInv, CallTypes
  <2> QED BY <2>1, <2>2
<1>4. /\ net' \in [Party -> [Party -> Seq(Voice)]]
      /\ \A p, q \in Party : \A s :
           /\ Among(net[p][q], s) => Among(net'[p][q], s)
           /\ Among(net'[p][q], s) => Among(net[p][q], s) \/ s.kind \in {"call:reject", "call:end"}
  <2>1. CASE GoElsewhere(u) \/ Redirect(u)
    <3>1. net' = net
      BY <2>1 DEF GoElsewhere, Redirect
    <3> QED BY <3>1 DEF CallInv, CallTypes
  <2>2. CASE HandleEnd(u) \/ HandleReject(u)
    <3>1. page[u].state # "home" /\ \E kind \in {"call:reject", "call:end"} : Emit(u, page[u].peer, kind)
      BY <2>2 DEF HandleEnd, HandleReject
    <3>2. page[u].peer \in Party
      BY <3>1 DEF CallInv, PageOK
    <3> QED BY <3>1, <3>2, EmitIs
  <2> QED BY <2>1, <2>2
<1> QED BY <1>1, <1>2, <1>3, <1>4, UnmountInv

-----------------------------------------------------------------------------
(* A connection is made. *)

LEMMA CameraFacts ==
  ASSUME CallInv, NEW m \in media
  PROVE  /\ m.user \in Party /\ m.peer \in Party /\ m.offer \in Nat /\ m.here \in BOOLEAN
         /\ m.kind \in {"start", "answer"} /\ m.user # m.peer
         /\ m.offer \in 0..Len(conns)
         /\ m.kind = "answer" => m.offer # 0
         /\ m.kind = "start" => m.offer = 0
         /\ m.here => page[m.user].state # "home" /\ page[m.user].peer = m.peer
<1>1. m \in Camera /\ CameraOK(m)
  BY DEF CallInv, CallTypes
<1>2. Conn = 1..Len(conns) /\ Len(conns) \in Nat
  BY CallTypeFacts DEF CallInv
<1> QED BY <1>1, <1>2 DEF Camera, CameraOK

\* The one it takes the place of is still there.
LEMMA MadeIs ==
  ASSUME CallInv, NEW m \in media, NEW leg \in Leg, Made(m, leg)
  PROVE  /\ conns' \in Seq(Leg) /\ Len(conns') = Len(conns) + 1
         /\ Conn' = Conn \cup {Len(conns) + 1}
         /\ \A d \in Conn : /\ conns'[d].owner = conns[d].owner /\ conns'[d].peer = conns[d].peer
                            /\ conns'[d].remote = conns[d].remote /\ conns'[d].ice = conns[d].ice
                            /\ conns'[d].status = conns[d].status
                            /\ conns'[d].place = IF m.here /\ d = page[m.user].pc
                                                 THEN "replaced" ELSE conns[d].place
         /\ conns'[Len(conns) + 1] = leg
<1>1. /\ conns \in Seq(Leg) /\ Len(conns) \in Nat /\ Conn = 1..Len(conns)
      /\ \A d \in Conn : conns[d] \in Leg
      /\ m.user \in Party
  BY CallTypeFacts, CameraFacts DEF CallInv, CallTypes
<1> DEFINE p == page[m.user].pc
           rest == IF m.here /\ p # 0 THEN [conns EXCEPT ![p].place = "replaced"] ELSE conns
<1>2. conns' = Append(rest, leg)
  BY DEF Made
<1>3. p # 0 => p \in Conn
  BY <1>1 DEF CallInv, PcOK
<1>4. /\ rest \in Seq(Leg) /\ Len(rest) = Len(conns)
      /\ \A d \in Conn : /\ rest[d].owner = conns[d].owner /\ rest[d].peer = conns[d].peer
                         /\ rest[d].remote = conns[d].remote /\ rest[d].ice = conns[d].ice
                         /\ rest[d].status = conns[d].status
                         /\ rest[d].place = IF m.here /\ d = p THEN "replaced" ELSE conns[d].place
  <2>1. CASE m.here /\ p # 0
    <3> DEFINE old == [conns[p] EXCEPT !.place = "replaced"]
    <3>1. rest = [conns EXCEPT ![p] = old] /\ p \in Conn
      BY <1>3, <2>1
    <3>2. conns[p] \in Leg
      BY <1>1, <3>1
    <3>3. /\ old \in Leg /\ old.owner = conns[p].owner /\ old.peer = conns[p].peer
          /\ old.remote = conns[p].remote /\ old.ice = conns[p].ice
          /\ old.status = conns[p].status /\ old.place = "replaced"
      BY <3>2 DEF Leg
    <3> HIDE DEF old, rest, p
    <3>4. conns \in [1..Len(conns) -> Leg]
      BY <1>1, LenProperties
    <3>5. rest \in [1..Len(conns) -> Leg] /\ DOMAIN rest = 1..Len(conns)
      BY <1>1, <3>1, <3>3, <3>4
    <3>6. rest \in Seq(Leg)
      BY <1>1, <3>5, SeqDef
    <3>7. Len(rest) = Len(conns)
      BY <1>1, <3>5, <3>6, LenProperties
    <3>8. rest[p] = old /\ \A d \in Conn : d # p => rest[d] = conns[d]
      BY <1>1, <3>1, <3>4
    <3> QED BY <2>1, <3>3, <3>6, <3>7, <3>8
  <2>2. CASE ~(m.here /\ p # 0)
    <3>1. rest = conns
      BY <2>2
    <3>2. \A d \in Conn : ~(m.here /\ d = p)
      BY <1>1, <2>2
    <3> HIDE DEF rest, p
    <3> QED BY <1>1, <3>1, <3>2
  <2> QED BY <2>1, <2>2
<1> HIDE DEF rest
<1>5. /\ conns' \in Seq(Leg) /\ Len(conns') = Len(conns) + 1
      /\ \A d \in 1..Len(conns) : conns'[d] = rest[d]
      /\ conns'[Len(conns) + 1] = leg
  BY <1>1, <1>2, <1>4
<1>6. Conn' = Conn \cup {Len(conns) + 1}
  BY <1>1, <1>5 DEF Conn
<1> QED BY <1>1, <1>4, <1>5, <1>6

\* The two signals of a new connection.
Both(u, v, kind, c) ==
  \/ Send(u, v, <<Signal(kind, c), Signal("call:ice-candidate", c)>>)
  \/ Send(u, v, <<Signal("call:ice-candidate", c), Signal(kind, c)>>)

Signalled(u, v, kind, c) ==
  /\ net' \in [Party -> [Party -> Seq(Voice)]]
  /\ \A p, q \in Party : \A s :
       Among(net'[p][q], s) <=>
         \/ Among(net[p][q], s)
         \/ p = u /\ q = v /\ s \in {Signal(kind, c), Signal("call:ice-candidate", c)}

Grown(m, c, kind) ==
  /\ conns' \in Seq(Leg) /\ Len(conns') = c /\ Conn' = Conn \cup {c}
  /\ \A d \in Conn : /\ conns'[d].owner = conns[d].owner /\ conns'[d].peer = conns[d].peer
                     /\ conns'[d].remote = conns[d].remote /\ conns'[d].ice = conns[d].ice
                     /\ conns'[d].status = conns[d].status
                     /\ conns'[d].place = IF m.here /\ d = page[m.user].pc
                                          THEN "replaced" ELSE conns[d].place
  /\ conns'[c].owner = m.user /\ conns'[c].peer = m.peer /\ conns'[c].status = "open"
  /\ conns'[c].remote = m.offer /\ conns'[c].place = IF m.here THEN "page" ELSE "alone"
  /\ media' = media \ {m}
  /\ ringing' \in [Party -> {Nobody} \cup [from : Party, offer : Nat]]
  /\ \A w \in Party : ringing'[w] \in {ringing[w], Nobody}
  /\ redirects' = redirects
  /\ stray' \in [Party -> BOOLEAN]
  /\ \A w \in Party : /\ stray[w] => stray'[w]
                      /\ w # m.user \/ ~m.here => stray'[w] = stray[w]
  /\ page' \in [Party -> Sheet]
  /\ \A w \in Party : w # m.user \/ ~m.here => page'[w] = page[w]
  /\ m.here =>
       /\ page'[m.user].pc = c /\ page'[m.user].peer = page[m.user].peer
       /\ page'[m.user].timer = page[m.user].timer
       /\ page'[m.user].incoming = page[m.user].incoming
       /\ page'[m.user].refused = page[m.user].refused
       /\ m.kind = "answer" => page'[m.user].state = "active" /\ page'[m.user].described
       /\ m.kind = "start" => /\ page'[m.user].state = page[m.user].state
                              /\ page'[m.user].described = page[m.user].described
                              /\ page[m.user].described => stray'[m.user]
  /\ Signalled(m.user, m.peer, kind, c)

LEMMA GrownPages ==
  ASSUME CallInv, NEW m \in media, NEW c, c = Len(conns) + 1, NEW kind, Grown(m, c, kind)
  PROVE  \A w \in Party : PageOK(w)' /\ PcOK(w)'
<1>0. c \in Nat /\ c # 0 /\ c \notin Conn
  BY CallTypeFacts DEF CallInv
<1>1. /\ m.user \in Party /\ m.kind \in {"start", "answer"}
      /\ m.kind = "answer" => m.offer # 0
      /\ m.kind = "start" => m.offer = 0
      /\ m.here => page[m.user].state # "home" /\ page[m.user].peer = m.peer
  BY CameraFacts
<1>2. /\ Conn' = Conn \cup {c}
      /\ \A d \in Conn : /\ conns'[d].owner = conns[d].owner /\ conns'[d].peer = conns[d].peer
                         /\ conns'[d].remote = conns[d].remote
                         /\ conns'[d].status = conns[d].status
                         /\ conns'[d].place = IF m.here /\ d = page[m.user].pc
                                              THEN "replaced" ELSE conns[d].place
  BY DEF Grown
<1>3. \A w \in Party : /\ stray[w] => stray'[w]
                       /\ w # m.user \/ ~m.here => stray'[w] = stray[w]
  BY DEF Grown
<1> TAKE w \in Party
<1>4. PageOK(w) /\ PcOK(w) /\ PcOK(m.user)
  BY <1>1 DEF CallInv
<1>5. CASE w # m.user \/ ~m.here
  <2>1. page'[w] = page[w] /\ stray'[w] = stray[w]
    BY <1>3, <1>5 DEF Grown
  <2>2. PageOK(w)'
    BY <1>4, <2>1 DEF PageOK
  <2>3. page[w].pc # 0 /\ m.here => page[w].pc # page[m.user].pc
    BY <1>4, <1>5 DEF PcOK
  <2>4. PcOK(w)'
    BY <1>2, <1>4, <2>1, <2>3 DEF PcOK
  <2> QED BY <2>2, <2>4
<1>6. CASE w = m.user /\ m.here
  <2>1. /\ page'[w].pc = c /\ page'[w].peer = page[w].peer
        /\ page'[w].timer = page[w].timer
        /\ page'[w].incoming = page[w].incoming
        /\ page'[w].refused = page[w].refused
        /\ m.kind = "answer" => page'[w].state = "active" /\ page'[w].described
        /\ m.kind = "start" => /\ page'[w].state = page[w].state
                               /\ page'[w].described = page[w].described
                               /\ page[w].described => stray'[w]
    BY <1>6 DEF Grown
  <2>2. /\ conns'[c].owner = w /\ conns'[c].peer = m.peer /\ conns'[c].status = "open"
        /\ conns'[c].remote = m.offer /\ conns'[c].place = "page"
    BY <1>6 DEF Grown
  <2>3. PageOK(w)'
    BY <1>0, <1>1, <1>3, <1>4, <1>6, <2>1 DEF PageOK
  <2>5. PcOK(w)'
    BY <1>0, <1>1, <1>2, <1>6, <2>1, <2>2 DEF PcOK
  <2> QED BY <2>3, <2>5
<1> QED BY <1>5, <1>6

LEMMA GrownLegs ==
  ASSUME CallInv, NEW m \in media, NEW c, c = Len(conns) + 1, NEW kind, Grown(m, c, kind)
  PROVE  \A d \in Conn' : LegOK(d)'
<1>0. c \in Nat /\ c # 0 /\ c \notin Conn /\ Len(conns) \in Nat /\ Conn = 1..Len(conns)
  BY CallTypeFacts DEF CallInv
<1>1. /\ m.user \in Party /\ m.user # m.peer /\ m.offer \in 0..Len(conns)
      /\ m.kind \in {"start", "answer"}
      /\ m.here => page[m.user].state # "home"
  BY CameraFacts
<1>2. /\ Conn' = Conn \cup {c} /\ Len(conns') = c
      /\ \A d \in Conn : /\ conns'[d].owner = conns[d].owner /\ conns'[d].peer = conns[d].peer
                         /\ conns'[d].remote = conns[d].remote
                         /\ conns'[d].status = conns[d].status
                         /\ conns'[d].place = IF m.here /\ d = page[m.user].pc
                                              THEN "replaced" ELSE conns[d].place
  BY DEF Grown
<1>3. LegOK(c)'
  <2>2. /\ conns'[c].owner = m.user /\ conns'[c].peer = m.peer
        /\ conns'[c].remote = m.offer /\ conns'[c].place = IF m.here THEN "page" ELSE "alone"
        /\ m.here => page'[m.user].pc = c
    BY DEF Grown
  <2>3. m.offer \in 0..c /\ m.offer # c /\ ~(m.offer > c)
    BY <1>0, <1>1
  <2>4. /\ page'[conns'[c].owner].pc = c \/ conns'[c].place # "page"
        /\ conns'[c].place # "replaced"
    BY <2>2
  <2>5. conns'[c].owner # conns'[c].peer /\ conns'[c].remote \in 0..Len(conns')
    BY <1>1, <1>2, <2>2, <2>3
  <2>6. conns'[c].remote # c /\ ~(conns'[c].remote > c)
    BY <2>2, <2>3
  <2> QED BY <2>4, <2>5, <2>6 DEF LegOK
<1>5. m.here => page'[m.user].state # "home"
  BY <1>1 DEF Grown
<1>4. ASSUME NEW d \in Conn PROVE LegOK(d)'
  <2>1. LegOK(d) /\ conns[d].owner \in Party /\ PcOK(m.user)
    BY <1>1, CallTypeFacts DEF CallInv, Leg
  <2>2. /\ conns[d].remote > d =>
             /\ conns'[conns[d].remote].owner = conns[conns[d].remote].owner
             /\ conns'[conns[d].remote].peer = conns[conns[d].remote].peer
             /\ conns'[conns[d].remote].remote = conns[conns[d].remote].remote
        /\ conns[d].remote \in 0..c
    <3>1. conns[d].remote \in 0..Len(conns)
      BY <2>1 DEF LegOK
    <3> QED BY <1>0, <1>2, <3>1
  <2>3. CASE conns[d].owner # m.user \/ ~m.here
    <3>1. page'[conns[d].owner] = page[conns[d].owner]
      BY <2>1, <2>3 DEF Grown
    <3>2. d # 0 /\ (m.here => d # page[m.user].pc)
      BY <1>0, <2>1, <2>3 DEF PcOK
    <3>3. conns'[d].place = conns[d].place
      BY <1>2, <3>2
    <3> QED BY <1>2, <2>1, <2>2, <3>1, <3>3 DEF LegOK
  <2>4. CASE conns[d].owner = m.user /\ m.here
    <3>1. conns[d].status = "open" => conns'[d].place # "page"
      BY <1>2, <2>1, <2>4 DEF LegOK
    <3> QED BY <1>2, <1>5, <2>1, <2>2, <2>4, <3>1 DEF LegOK
  <2> QED BY <2>3, <2>4
<1> QED BY <1>2, <1>3, <1>4

LEMMA GrownVoices ==
  ASSUME CallInv, NEW m \in media, NEW c, c = Len(conns) + 1,
         NEW kind \in {"call:offer", "call:answer"},
         kind = "call:answer" => m.kind = "answer", Grown(m, c, kind)
  PROVE  VoicesOK' /\ \A d \in Conn : OnItsWay(d) => OnItsWay(d)'
<1>0. c \in Nat /\ c \in Conn'
  BY CallTypeFacts DEF CallInv, Grown
<1>1. m.kind = "answer" => m.offer # 0
  BY CameraFacts
<1>2. /\ Conn \subseteq Conn'
      /\ \A d \in Conn : /\ conns'[d].owner = conns[d].owner /\ conns'[d].peer = conns[d].peer
                         /\ conns'[d].remote = conns[d].remote
      /\ conns'[c].owner = m.user /\ conns'[c].peer = m.peer
      /\ conns'[c].remote = m.offer
  BY DEF Grown
<1>3. /\ Signal(kind, c).kind = kind /\ Signal(kind, c).id = c
      /\ Signal("call:ice-candidate", c).kind = "call:ice-candidate"
      /\ Signal("call:ice-candidate", c).id = c
  BY DEF Signal
<1>4. \A p, q \in Party : \A s :
        Among(net'[p][q], s) =>
          \/ Among(net[p][q], s)
          \/ p = m.user /\ q = m.peer /\ s \in {Signal(kind, c), Signal("call:ice-candidate", c)}
  BY DEF Grown, Signalled
<1>5. \A s \in {Signal(kind, c), Signal("call:ice-candidate", c)} : VoiceOK(m.user, m.peer, s)'
  <2> TAKE s \in {Signal(kind, c), Signal("call:ice-candidate", c)}
  <2>1. s.id = c /\ (s.kind = "call:answer" => m.kind = "answer")
    BY <1>3
  <2> QED BY <1>0, <1>1, <1>2, <2>1 DEF VoiceOK
<1>6. VoicesOK'
  BY <1>2, <1>4, <1>5, VoicesStep
<1>7. \A d \in Conn : conns[d].owner \in Party /\ conns[d].peer \in Party
  BY CallTypeFacts DEF CallInv, Leg
<1>8. \A p, q \in Party : \A s : Among(net[p][q], s) => Among(net'[p][q], s)
  BY DEF Grown, Signalled
<1> QED BY <1>2, <1>6, <1>7, <1>8, WayStays

LEMMA GrownInv ==
  ASSUME CallInv, NEW m \in media, NEW c, c = Len(conns) + 1,
         NEW kind \in {"call:offer", "call:answer"},
         kind = "call:answer" => m.kind = "answer", Grown(m, c, kind)
  PROVE  CallInv'
<1>0. c \in Nat /\ c # 0 /\ c \notin Conn /\ Conn = 1..Len(conns) /\ Len(conns) \in Nat
  BY CallTypeFacts DEF CallInv
<1>1. CallTypes'
  BY DEF CallInv, CallTypes, Grown, Signalled
<1>2. \A w \in Party : PageOK(w)' /\ PcOK(w)'
  BY GrownPages
<1>3. \A d \in Conn' : LegOK(d)'
  BY GrownLegs
<1>4. VoicesOK' /\ \A d \in Conn : OnItsWay(d) => OnItsWay(d)'
  BY GrownVoices
<1>5. /\ Conn' = Conn \cup {c}
      /\ \A d \in Conn : /\ conns'[d].owner = conns[d].owner /\ conns'[d].peer = conns[d].peer
                         /\ conns'[d].remote = conns[d].remote /\ conns'[d].ice = conns[d].ice
      /\ \A w \in Party : stray[w] => stray'[w]
      /\ \A w \in Party : w # m.user \/ ~m.here => page'[w] = page[w]
      /\ m.here => /\ page'[m.user].peer = page[m.user].peer
                   /\ page'[m.user].state \in {page[m.user].state, "active"}
      /\ \A w \in Party : ringing'[w] \in {ringing[w], Nobody}
  BY CameraFacts DEF Grown
<1>6. \A w \in Party : RingOK(w)'
  BY <1>5 DEF CallInv, RingOK
<1>7. m.user \in Party /\ m.peer \in Party
  BY CameraFacts
<1>8. \A n \in media' : CameraOK(n)'
  <2> TAKE n \in media'
  <2>1. n \in media
    BY DEF Grown
  <2>2. CameraOK(n) /\ n.user \in Party
    BY <2>1, CameraFacts DEF CallInv
  <2>3. /\ page'[n.user].peer = page[n.user].peer
        /\ page[n.user].state # "home" => page'[n.user].state # "home"
    BY <1>5, <2>2
  <2> QED BY <1>5, <2>2, <2>3 DEF CameraOK
<1>10. \A x, y \in Conn' : BoundOK(x, y)'
  <2> SUFFICES ASSUME NEW x \in Conn', NEW y \in Conn', Bound(x, y)' PROVE BoundOK(x, y)'
    BY DEF BoundOK
  <2>1. CASE y = c
    <3>1. OnItsWay(c)'
      <4>1. Among(net'[m.user][m.peer], Signal("call:ice-candidate", c))
        BY <1>7 DEF Grown, Signalled
      <4>2. conns'[c].owner = m.user /\ conns'[c].peer = m.peer
        BY DEF Grown
      <4> QED BY <4>1, <4>2 DEF OnItsWay, Among, Signal
    <3> QED BY <2>1, <3>1 DEF BoundOK
  <2>2. CASE y # c
    <3>1. x \in Conn /\ y \in Conn
      BY <1>0, <1>5, <2>2 DEF Bound
    <3>2. /\ conns'[x].owner = conns[x].owner /\ conns'[x].peer = conns[x].peer
          /\ conns'[x].remote = conns[x].remote /\ conns'[x].ice = conns[x].ice
          /\ conns'[y].owner = conns[y].owner /\ conns'[y].peer = conns[y].peer
          /\ conns'[y].remote = conns[y].remote
          /\ conns[x].owner \in Party /\ x # c
      BY <1>0, <1>5, <3>1, CallTypeFacts DEF CallInv, Leg
    <3>3. page'[conns[x].owner].pc = x
      BY <3>2 DEF Bound
    <3>4. page'[conns[x].owner] = page[conns[x].owner]
      BY <1>5, <3>2, <3>3 DEF Grown
    <3>5. Bound(x, y)
      BY <3>2, <3>4 DEF Bound
    <3>6. BoundOK(x, y) /\ (OnItsWay(y) => OnItsWay(y)')
      BY <1>4, <3>1 DEF CallInv
    <3> QED BY <1>5, <3>2, <3>4, <3>5, <3>6 DEF BoundOK
  <2> QED BY <2>1, <2>2
<1> QED BY <1>1, <1>2, <1>3, <1>4, <1>6, <1>8, <1>10, InvFrom

LEMMA TwoSignals ==
  ASSUME CallTypes, NEW u \in Party, NEW v \in Party, NEW c \in Nat,
         NEW kind \in {"call:offer", "call:answer"},
         Both(u, v, kind, c)
  PROVE  Signalled(u, v, kind, c)
<1> DEFINE x == Signal(kind, c)
           y == Signal("call:ice-candidate", c)
           a == <<x, y>>
           b == <<y, x>>
<1>1. Send(u, v, a) \/ Send(u, v, b)
  BY DEF Both
<1>2. x \in Voice /\ y \in Voice
  BY OneVoice
<1> SUFFICES /\ net' \in [Party -> [Party -> Seq(Voice)]]
             /\ \A p, q \in Party : \A s :
                  Among(net'[p][q], s) <=>
                    \/ Among(net[p][q], s)
                    \/ p = u /\ q = v /\ s \in {x, y}
  BY DEF Signalled
<1> HIDE DEF x, y
<1>3. a = <<x, y>> /\ b = <<y, x>>
  OBVIOUS
<1> HIDE DEF a, b
<1>4. a \in Seq(Voice) /\ \A s : Among(a, s) <=> s = x \/ s = y
  BY <1>2, <1>3, TwoSent
<1>5. b \in Seq(Voice) /\ \A s : Among(b, s) <=> s = y \/ s = x
  BY <1>2, <1>3, TwoSent
<1>6. CASE Send(u, v, a)
  <2>1. /\ net' \in [Party -> [Party -> Seq(Voice)]]
        /\ \A p, q \in Party : \A s :
             Among(net'[p][q], s) <=> Among(net[p][q], s) \/ (p = u /\ q = v /\ Among(a, s))
    BY SMTT(30), <1>4, <1>6, NetSend
  <2> QED BY <1>4, <2>1
<1>7. CASE Send(u, v, b)
  <2>1. /\ net' \in [Party -> [Party -> Seq(Voice)]]
        /\ \A p, q \in Party : \A s :
             Among(net'[p][q], s) <=> Among(net[p][q], s) \/ (p = u /\ q = v /\ Among(b, s))
    BY SMTT(30), <1>5, <1>7, NetSend
  <2> QED BY <1>5, <2>1
<1> QED BY <1>1, <1>6, <1>7

LEMMA StartCallInv ==
  ASSUME CallInv, NEW m \in media, StartCall(m)
  PROVE  CallInv'
<1> DEFINE c == Len(conns) + 1
           leg == Fresh(m.user, m.peer, 0, m.here)
<1>1. /\ m.kind = "start" /\ media' = media \ {m}
      /\ Made(m, leg)
      /\ page' = IF m.here THEN [page EXCEPT ![m.user].pc = c] ELSE page
      /\ stray' = IF m.here /\ page[m.user].described THEN [stray EXCEPT ![m.user] = TRUE] ELSE stray
      /\ UNCHANGED <<ringing, redirects>>
  BY DEF StartCall
<1>2. /\ m.user \in Party /\ m.peer \in Party /\ m.here \in BOOLEAN /\ m.offer = 0
  BY <1>1, CameraFacts
<1>3. CallTypes /\ c \in Nat
  BY CallTypeFacts DEF CallInv
<1>4. /\ leg \in Leg /\ leg.owner = m.user /\ leg.peer = m.peer /\ leg.status = "open"
      /\ leg.remote = m.offer /\ leg.place = IF m.here THEN "page" ELSE "alone"
  BY <1>2 DEF Fresh, Leg
<1> HIDE DEF leg
<1>5. /\ conns' \in Seq(Leg) /\ Len(conns') = c /\ Conn' = Conn \cup {c}
      /\ \A d \in Conn : /\ conns'[d].owner = conns[d].owner /\ conns'[d].peer = conns[d].peer
                         /\ conns'[d].remote = conns[d].remote /\ conns'[d].ice = conns[d].ice
                         /\ conns'[d].status = conns[d].status
                         /\ conns'[d].place = IF m.here /\ d = page[m.user].pc
                                              THEN "replaced" ELSE conns[d].place
      /\ conns'[c] = leg
  BY <1>1, <1>4, MadeIs
<1>6. Signalled(m.user, m.peer, "call:offer", c)
  <2>1. Both(m.user, m.peer, "call:offer", c)
    BY DEF StartCall, Both
  <2> HIDE DEF c
  <2>2. PICK i \in Nat : i = c
    BY <1>3
  <2>3. PICK k \in {"call:offer", "call:answer"} : k = "call:offer"
    OBVIOUS
  <2>4. Both(m.user, m.peer, k, i)
    BY <2>1, <2>2, <2>3
  <2>5. Signalled(m.user, m.peer, k, i)
    BY <1>2, <1>3, <2>4, TwoSignals
  <2> QED BY <2>2, <2>3, <2>5
<1>7. c = Len(conns) + 1
  OBVIOUS
<1> HIDE DEF c
<1>8. /\ page' \in [Party -> Sheet]
      /\ \A w \in Party : w # m.user \/ ~m.here => page'[w] = page[w]
      /\ m.here =>
           /\ page'[m.user].pc = c /\ page'[m.user].peer = page[m.user].peer
           /\ page'[m.user].timer = page[m.user].timer
           /\ page'[m.user].incoming = page[m.user].incoming
           /\ page'[m.user].refused = page[m.user].refused
           /\ page'[m.user].state = page[m.user].state
           /\ page'[m.user].described = page[m.user].described
  <2>1. page \in [Party -> Sheet]
    BY <1>3 DEF CallTypes
  <2>2. CASE m.here
    <3>1. page' = [page EXCEPT ![m.user].pc = c]
      BY <1>1, <2>2
    <3> QED BY <1>2, <1>3, <2>1, <2>2, <3>1 DEF Sheet
  <2>3. CASE ~m.here
    BY <1>1, <2>1, <2>3
  <2> QED BY <2>2, <2>3
<1>9. /\ ringing' \in [Party -> {Nobody} \cup [from : Party, offer : Nat]]
      /\ \A w \in Party : ringing'[w] \in {ringing[w], Nobody}
  BY <1>1, <1>3 DEF CallTypes
<1>11. /\ stray' \in [Party -> BOOLEAN]
       /\ \A w \in Party : /\ stray[w] => stray'[w]
                           /\ w # m.user \/ ~m.here => stray'[w] = stray[w]
       /\ m.here /\ page[m.user].described => stray'[m.user]
  BY <1>1, <1>2, <1>3 DEF CallTypes
<1>10. Grown(m, c, "call:offer")
  BY <1>1, <1>4, <1>5, <1>6, <1>8, <1>9, <1>11 DEF Grown
<1> QED BY <1>7, <1>10, GrownInv

LEMMA AnswerCallInv ==
  ASSUME CallInv, NEW m \in media, AnswerCall(m)
  PROVE  CallInv'
<1> DEFINE c == Len(conns) + 1
           leg == [Fresh(m.user, m.peer, m.offer, m.here) EXCEPT
                                !.ice = m.here /\ m.offer \in page[m.user].early]
<1>1. /\ m.kind = "answer" /\ media' = media \ {m}
      /\ Made(m, leg)
      /\ page' = IF m.here THEN [page EXCEPT ![m.user].pc = c, ![m.user].state = "active",
                                            ![m.user].described = TRUE, ![m.user].early = {}]
                 ELSE page
      /\ ringing' = [ringing EXCEPT ![m.user] = Nobody]
      /\ UNCHANGED <<redirects, stray>>
  BY DEF AnswerCall
<1>2. /\ m.user \in Party /\ m.peer \in Party /\ m.here \in BOOLEAN /\ m.offer \in Nat
  BY <1>1, CameraFacts
<1>3. CallTypes /\ c \in Nat
  BY CallTypeFacts DEF CallInv
<1>4. /\ leg \in Leg /\ leg.owner = m.user /\ leg.peer = m.peer /\ leg.status = "open"
      /\ leg.remote = m.offer /\ leg.place = IF m.here THEN "page" ELSE "alone"
  <2> DEFINE g == m.here /\ m.offer \in page[m.user].early
  <2>1. g \in BOOLEAN
    BY <1>2
  <2>2. leg = [Fresh(m.user, m.peer, m.offer, m.here) EXCEPT !.ice = g]
    OBVIOUS
  <2> HIDE DEF g
  <2> QED BY <1>2, <2>1, <2>2 DEF Fresh, Leg
<1> HIDE DEF leg
<1>5. /\ conns' \in Seq(Leg) /\ Len(conns') = c /\ Conn' = Conn \cup {c}
      /\ \A d \in Conn : /\ conns'[d].owner = conns[d].owner /\ conns'[d].peer = conns[d].peer
                         /\ conns'[d].remote = conns[d].remote /\ conns'[d].ice = conns[d].ice
                         /\ conns'[d].status = conns[d].status
                         /\ conns'[d].place = IF m.here /\ d = page[m.user].pc
                                              THEN "replaced" ELSE conns[d].place
      /\ conns'[c] = leg
  BY <1>1, <1>4, MadeIs
<1>6. Signalled(m.user, m.peer, "call:answer", c)
  <2>1. Both(m.user, m.peer, "call:answer", c)
    BY DEF AnswerCall, Both
  <2> HIDE DEF c
  <2>2. PICK i \in Nat : i = c
    BY <1>3
  <2>3. PICK k \in {"call:offer", "call:answer"} : k = "call:answer"
    OBVIOUS
  <2>4. Both(m.user, m.peer, k, i)
    BY <2>1, <2>2, <2>3
  <2>5. Signalled(m.user, m.peer, k, i)
    BY <1>2, <1>3, <2>4, TwoSignals
  <2> QED BY <2>2, <2>3, <2>5
<1>7. c = Len(conns) + 1
  OBVIOUS
<1> HIDE DEF c
<1>8. /\ page' \in [Party -> Sheet]
      /\ \A w \in Party : w # m.user \/ ~m.here => page'[w] = page[w]
      /\ m.here =>
           /\ page'[m.user].pc = c /\ page'[m.user].peer = page[m.user].peer
           /\ page'[m.user].timer = page[m.user].timer
           /\ page'[m.user].incoming = page[m.user].incoming
           /\ page'[m.user].refused = page[m.user].refused
           /\ page'[m.user].state = "active" /\ page'[m.user].described
  <2>1. page \in [Party -> Sheet]
    BY <1>3 DEF CallTypes
  <2>2. CASE m.here
    <3>1. page' = [page EXCEPT ![m.user].pc = c, ![m.user].state = "active",
                               ![m.user].described = TRUE, ![m.user].early = {}]
      BY <1>1, <2>2
    <3> QED BY <1>2, <1>3, <2>1, <2>2, <3>1 DEF Sheet, State
  <2>3. CASE ~m.here
    BY <1>1, <2>1, <2>3
  <2> QED BY <2>2, <2>3
<1>9. /\ ringing' \in [Party -> {Nobody} \cup [from : Party, offer : Nat]]
      /\ \A w \in Party : ringing'[w] \in {ringing[w], Nobody}
  BY <1>1, <1>2, <1>3 DEF CallTypes
<1>11. stray' \in [Party -> BOOLEAN] /\ stray' = stray
  BY <1>1, <1>3 DEF CallTypes
<1>10. Grown(m, c, "call:answer")
  BY <1>1, <1>4, <1>5, <1>6, <1>8, <1>9, <1>11 DEF Grown
<1> QED BY <1>1, <1>7, <1>10, GrownInv

-----------------------------------------------------------------------------
(* Signals that are heard, or dropped. *)

\* A signal is taken.
LEMMA TakeIs ==
  ASSUME CallInv, NEW u \in Party, NEW v \in Party, NEW i \in DOMAIN net[u][v], Take(u, v, i)
  PROVE  /\ net[u][v][i] \in Voice /\ VoiceOK(u, v, net[u][v][i])
         /\ net' \in [Party -> [Party -> Seq(Voice)]]
         /\ \A p, q \in Party : \A s : Among(net'[p][q], s) => Among(net[p][q], s)
         /\ \A p, q \in Party : \A s :
              Among(net[p][q], s) /\ ~(p = u /\ q = v /\ s = net[u][v][i]) => Among(net'[p][q], s)
<1>1. net \in [Party -> [Party -> Seq(Voice)]]
  BY DEF CallInv, CallTypes
<1>2. net[u][v][i] \in Voice
  <2>1. net[u][v] \in Seq(Voice)
    BY <1>1
  <2> QED BY <2>1
<1>3. VoiceOK(u, v, net[u][v][i])
  BY DEF CallInv
<1>4. /\ net' \in [Party -> [Party -> Seq(Voice)]]
      /\ \A p, q \in Party : \A s : Among(net'[p][q], s) => Among(net[p][q], s)
      /\ \A p, q \in Party : \A s :
           Among(net[p][q], s) /\ ~(p = u /\ q = v /\ s = net[u][v][i]) => Among(net'[p][q], s)
  <2> DEFINE less == Without(net[u][v], i)
  <2>1. net' = [net EXCEPT ![u][v] = less]
    BY DEF Take
  <2>2. net[u][v] \in Seq(Voice)
    BY <1>1
  <2>3. /\ less \in Seq(Voice)
        /\ \A s : Among(less, s) => Among(net[u][v], s)
        /\ \A s : Among(net[u][v], s) /\ s # net[u][v][i] => Among(less, s)
    BY <2>2, TakenVoice
  <2> HIDE DEF less
  <2>4. net' \in [Party -> [Party -> Seq(Voice)]]
    BY <1>1, <2>1, <2>3
  <2>5. /\ net'[u][v] = less
        /\ \A p, q \in Party : p # u \/ q # v => net'[p][q] = net[p][q]
    BY <1>1, <2>1
  <2> QED BY <2>3, <2>4, <2>5
<1> QED BY <1>2, <1>3, <1>4

\* Only the candidate that is taken is not on its way any more.
LEMMA TakeWay ==
  ASSUME CallInv, NEW u \in Party, NEW v \in Party, NEW i \in DOMAIN net[u][v], Take(u, v, i),
         \A c \in Conn : conns'[c].owner = conns[c].owner /\ conns'[c].peer = conns[c].peer,
         NEW c \in Conn, OnItsWay(c)
  PROVE  \/ OnItsWay(c)'
         \/ /\ net[u][v][i].kind = "call:ice-candidate" /\ net[u][v][i].id = c
            /\ conns[c].owner = u /\ conns[c].peer = v
<1> DEFINE s == Signal("call:ice-candidate", c)
<1>1. Among(net[conns[c].owner][conns[c].peer], s)
  BY DEF OnItsWay, Among
<1>2. Among(net'[conns'[c].owner][conns'[c].peer], s) => OnItsWay(c)'
  BY DEF OnItsWay, Among, Signal
<1>3. s.kind = "call:ice-candidate" /\ s.id = c
  BY DEF Signal
<1> HIDE DEF s
<1>4. conns[c].owner \in Party /\ conns[c].peer \in Party
  BY CallTypeFacts DEF CallInv, Leg
<1>5. \A p, q \in Party : \A t :
        Among(net[p][q], t) /\ ~(p = u /\ q = v /\ t = net[u][v][i]) => Among(net'[p][q], t)
  BY ZenonT(40), TakeIs
<1>6. CASE conns[c].owner = u /\ conns[c].peer = v /\ s = net[u][v][i]
  BY <1>3, <1>6
<1>7. CASE ~(conns[c].owner = u /\ conns[c].peer = v /\ s = net[u][v][i])
  <2>1. Among(net'[conns[c].owner][conns[c].peer], s)
    BY <1>1, <1>4, <1>5, <1>7
  <2> QED BY <1>2, <2>1
<1> QED BY <1>6, <1>7

\* Who takes a candidate that a bound connection waits for.
LEMMA TakerIs ==
  ASSUME CallInv, NEW u \in Party, NEW v \in Party, NEW x \in Conn, NEW y \in Conn, Bound(x, y),
         conns[y].owner = u, conns[y].peer = v
  PROVE  /\ conns[x].owner = v /\ page[v].pc = x /\ page[v].peer = u
         /\ conns[x].remote # 0 => page[v].described
         /\ conns[x].remote = 0 /\ page[v].described => stray[v]
<1>1. conns[x].owner = v /\ page[v].pc = x /\ conns[x].peer = u
  BY DEF Bound
<1>2. PcOK(v) /\ x # 0
  BY CallTypeFacts DEF CallInv
<1> QED BY <1>1, <1>2 DEF PcOK

LEMMA OnIncomingInv ==
  ASSUME CallInv, NEW u \in Party, NEW v \in Party, NEW i \in DOMAIN net[u][v], Take(u, v, i),
         net[u][v][i].kind = "call:offer", OnIncoming(u, v, net[u][v][i].id), UNCHANGED media
  PROVE  CallInv'
<1> DEFINE id == net[u][v][i].id
<1>1. /\ ringing' = [ringing EXCEPT ![v] = [from |-> u, offer |-> id]]
      /\ UNCHANGED <<page, conns, redirects, stray>>
  BY DEF OnIncoming
<1>2. /\ net[u][v][i] \in Voice /\ VoiceOK(u, v, net[u][v][i])
      /\ net' \in [Party -> [Party -> Seq(Voice)]]
      /\ \A p, q \in Party : \A s : Among(net'[p][q], s) => Among(net[p][q], s)
  BY TakeIs
<1>3. id \in Nat /\ id \in Conn /\ conns[id].owner = u /\ conns[id].peer = v
  BY <1>2 DEF VoiceOK, Voice
<1>4. LegOK(id)
  BY <1>3 DEF CallInv
<1>5. u # v
  BY <1>3, <1>4 DEF LegOK
<1> HIDE DEF id
<1>6. /\ ringing' \in [Party -> {Nobody} \cup [from : Party, offer : Nat]]
      /\ \A w \in Party : w # v => ringing'[w] = ringing[w]
      /\ ringing'[v].from = u /\ ringing'[v].offer = id
  BY <1>1, <1>3 DEF CallInv, CallTypes
<1>7. CallTypes'
  BY <1>1, <1>2, <1>6 DEF CallInv, CallTypes
<1>8. Conn' = Conn
  BY <1>1 DEF Conn
<1>9. \A w \in Party : PageOK(w)' /\ RingOK(w)'
  <2> TAKE w \in Party
  <2>1. PageOK(w) /\ RingOK(w)
    BY DEF CallInv
  <2>2. PageOK(w)'
    BY <1>1, <2>1 DEF PageOK
  <2>3. RingOK(w)'
    BY <1>3, <1>5, <1>6, <1>8, <2>1 DEF RingOK
  <2> QED BY <2>2, <2>3
<1>10. \A c \in Conn : OnItsWay(c) => OnItsWay(c)'
  BY <1>1, TakeWay
<1> QED BY <1>1, <1>2, <1>7, <1>9, <1>10, QuietInv

LEMMA OnOverInv ==
  ASSUME CallInv, NEW u \in Party, NEW v \in Party, NEW i \in DOMAIN net[u][v], Take(u, v, i),
         net[u][v][i].kind \in {"call:reject", "call:end"}, OnOver(v), UNCHANGED media
  PROVE  CallInv'
<1>1. /\ page[v].state # "home" /\ Ended(v)
      /\ UNCHANGED <<ringing, conns, stray>>
  BY DEF OnOver
<1>2. /\ net' \in [Party -> [Party -> Seq(Voice)]]
      /\ \A p, q \in Party : \A s : Among(net'[p][q], s) => Among(net[p][q], s)
  BY TakeIs
<1>4. /\ page' \in [Party -> Sheet] /\ redirects' \in [Party -> Nat]
      /\ \A w \in Party : w # v => page'[w] = page[w]
      /\ page'[v].state = "ended"
      /\ page'[v].peer = page[v].peer
      /\ page'[v].incoming = page[v].incoming /\ page'[v].pc = page[v].pc
      /\ page'[v].described = page[v].described /\ page'[v].early = page[v].early
  BY <1>1, EndedIs
<1>7. CallTypes'
  BY <1>1, <1>2, <1>4 DEF CallInv, CallTypes
<1>8. Conn' = Conn
  BY <1>1 DEF Conn
<1>9. \A w \in Party : PageOK(w)'
  BY <1>1, EndedPages
<1>10. \A w \in Party : RingOK(w)'
  BY <1>1, <1>8 DEF CallInv, RingOK
<1>12. \A c \in Conn : OnItsWay(c) => OnItsWay(c)'
  BY <1>1, TakeWay
<1> QED BY <1>1, <1>2, <1>4, <1>7, <1>9, <1>10, <1>12, QuietInv

LEMMA DroppedInv ==
  ASSUME CallInv, NEW u \in Party, NEW v \in Party, NEW i \in DOMAIN net[u][v], Take(u, v, i),
         Dropped(u, v, net[u][v][i]), UNCHANGED <<page, ringing, conns, redirects, stray, media>>
  PROVE  CallInv'
<1>2. /\ net' \in [Party -> [Party -> Seq(Voice)]]
      /\ \A p, q \in Party : \A s : Among(net'[p][q], s) => Among(net[p][q], s)
  BY TakeIs
<1>7. CallTypes'
  BY <1>2 DEF CallInv, CallTypes
<1>8. Conn' = Conn
  BY DEF Conn
<1>9. \A w \in Party : PageOK(w)' /\ RingOK(w)'
  BY <1>8 DEF CallInv, PageOK, RingOK
<1>12. ASSUME NEW x \in Conn, NEW y \in Conn, Bound(x, y), OnItsWay(y)
       PROVE  OnItsWay(y)'
  <2> SUFFICES ASSUME /\ net[u][v][i].kind = "call:ice-candidate"
                      /\ conns[y].owner = u /\ conns[y].peer = v
               PROVE  FALSE
    BY <1>12, TakeWay
  <2>1. page[v].peer = u
    BY <1>12, TakerIs
  <2> QED BY <2>1 DEF Dropped
<1>13. \A x, y \in Conn : Bound(x, y) /\ OnItsWay(y) => Reached(x, y)
  BY <1>12 DEF Reached
<1>14. Alike
  BY SameAlike DEF CallInv
<1> QED BY <1>2, <1>7, <1>9, <1>13, <1>14, PassInv

\* A candidate before the description, and after it.
LEMMA OnIceEarlyInv ==
  ASSUME CallInv, NEW u \in Party, NEW v \in Party, NEW i \in DOMAIN net[u][v], Take(u, v, i),
         net[u][v][i].kind = "call:ice-candidate", OnIce(u, v, net[u][v][i].id),
         ~page[v].described, UNCHANGED media
  PROVE  CallInv'
<1> DEFINE id == net[u][v][i].id
<1>1. /\ page[v].peer = u
      /\ page' = [page EXCEPT ![v].early = @ \cup {id}]
      /\ UNCHANGED <<conns, ringing, redirects, stray>>
  BY DEF OnIce
<1>2. /\ net[u][v][i] \in Voice /\ VoiceOK(u, v, net[u][v][i])
      /\ net' \in [Party -> [Party -> Seq(Voice)]]
      /\ \A p, q \in Party : \A s : Among(net'[p][q], s) => Among(net[p][q], s)
  BY TakeIs
<1>3. id \in Nat
  BY <1>2 DEF Voice
<1>4. page \in [Party -> Sheet]
  BY DEF CallInv, CallTypes
<1>5. \A c \in Conn : OnItsWay(c) => OnItsWay(c)' \/ (id = c /\ conns[c].owner = u /\ conns[c].peer = v)
  BY <1>1, TakeWay
<1> HIDE DEF id
<1>6. /\ page' \in [Party -> Sheet]
      /\ \A w \in Party : w # v => page'[w] = page[w]
      /\ page'[v].state = page[v].state /\ page'[v].peer = page[v].peer
      /\ page'[v].timer = page[v].timer
      /\ page'[v].incoming = page[v].incoming /\ page'[v].pc = page[v].pc
      /\ page'[v].described = page[v].described /\ page'[v].early = page[v].early \cup {id}
      /\ page'[v].refused = page[v].refused
  BY <1>1, <1>3, <1>4 DEF Sheet
<1>7. CallTypes'
  BY <1>1, <1>2, <1>6 DEF CallInv, CallTypes
<1>8. Conn' = Conn
  BY <1>1 DEF Conn
<1>9. \A w \in Party : PageOK(w)' /\ RingOK(w)'
  <2> TAKE w \in Party
  <2>1. PageOK(w) /\ RingOK(w)
    BY DEF CallInv
  <2>2. RingOK(w)'
    BY <1>1, <1>8, <2>1 DEF RingOK
  <2>3. page[v].state # "home"
    BY <1>1, HomeIs, CallsAssumption DEF CallInv, PageOK
  <2>4. PageOK(w)'
    BY <1>1, <1>6, <2>1, <2>3 DEF PageOK
  <2> QED BY <2>2, <2>4
<1>12. ASSUME NEW x \in Conn, NEW y \in Conn, Bound(x, y), OnItsWay(y)
       PROVE  Reached(x, y)
  <2> SUFFICES ASSUME id = y, conns[y].owner = u, conns[y].peer = v
               PROVE  conns[x].remote = 0 /\ y \in page'[conns[x].owner].early
    BY <1>5, <1>12 DEF Reached
  <2>1. conns[x].owner = v /\ (conns[x].remote # 0 => page[v].described)
    BY <1>12, TakerIs
  <2> QED BY <1>6, <2>1
<1>13. \A x, y \in Conn : Bound(x, y) /\ OnItsWay(y) => Reached(x, y)
  BY <1>12
<1>14. Alike
  BY <1>1, SameAlike DEF CallInv
<1>15. \A p, q \in Party : \A s :
         Among(net'[p][q], s) => Among(net[p][q], s) \/ VoiceOK(p, q, s)'
  BY <1>2
<1> QED BY <1>1, <1>6, <1>7, <1>9, <1>13, <1>14, <1>15, PassInv

LEMMA IceIs ==
  ASSUME CallTypes, NEW c \in Conn, conns' = [conns EXCEPT ![c].ice = TRUE]
  PROVE  Alike /\ conns'[c].ice
<1>1. conns \in Seq(Leg) /\ Conn = 1..Len(conns) /\ Len(conns) \in Nat /\ conns[c] \in Leg
  BY CallTypeFacts DEF CallTypes
<1> DEFINE leg == [conns[c] EXCEPT !.ice = TRUE]
<1>2. /\ leg \in Leg /\ leg.owner = conns[c].owner /\ leg.peer = conns[c].peer
      /\ leg.remote = conns[c].remote /\ leg.place = conns[c].place
      /\ leg.status = conns[c].status /\ leg.ice = TRUE
  BY <1>1 DEF Leg
<1>3. conns' = [conns EXCEPT ![c] = leg]
  OBVIOUS
<1> HIDE DEF leg
<1>4. /\ conns' \in Seq(Leg) /\ Len(conns') = Len(conns)
      /\ conns'[c] = leg /\ \A d \in Conn : d # c => conns'[d] = conns[d]
  <2>1. conns \in [1..Len(conns) -> Leg]
    BY <1>1, LenProperties
  <2>2. conns' \in [1..Len(conns) -> Leg] /\ DOMAIN conns' = 1..Len(conns)
    BY <1>1, <1>2, <1>3, <2>1
  <2>3. conns' \in Seq(Leg)
    BY <1>1, <2>2, SeqDef
  <2>4. Len(conns') = Len(conns)
    BY <1>1, <2>2, <2>3, LenProperties
  <2> QED BY <1>1, <1>3, <2>1, <2>3, <2>4
<1>5. \A d \in Conn :
       /\ conns'[d].owner = conns[d].owner /\ conns'[d].peer = conns[d].peer
       /\ conns'[d].remote = conns[d].remote /\ conns'[d].place = conns[d].place
       /\ conns'[d].status = "open" => conns[d].status = "open"
       /\ conns[d].status # "closed" => conns'[d].status # "closed"
  BY <1>2, <1>4
<1>6. \A d \in Conn : conns[d].ice => conns'[d].ice
  BY <1>2, <1>4
<1>7. conns'[c].ice
  BY <1>2, <1>4
<1> QED BY <1>4, <1>5, <1>6, <1>7 DEF Alike

LEMMA OnIceLateInv ==
  ASSUME CallInv, NEW u \in Party, NEW v \in Party, NEW i \in DOMAIN net[u][v], Take(u, v, i),
         net[u][v][i].kind = "call:ice-candidate", OnIce(u, v, net[u][v][i].id),
         page[v].described, UNCHANGED media
  PROVE  CallInv'
<1> DEFINE id == net[u][v][i].id
           c == page[v].pc
<1>1. /\ conns' = IF c # 0 /\ conns[c].remote = id THEN [conns EXCEPT ![c].ice = TRUE] ELSE conns
      /\ UNCHANGED <<page, ringing, redirects, stray>>
  BY DEF OnIce
<1>2. /\ net[u][v][i] \in Voice
      /\ net' \in [Party -> [Party -> Seq(Voice)]]
      /\ \A p, q \in Party : \A s : Among(net'[p][q], s) => Among(net[p][q], s)
  BY TakeIs
<1>3. c # 0 => c \in Conn
  BY DEF CallInv, PcOK
<1>4. Alike /\ (c # 0 /\ conns[c].remote = id => conns'[c].ice)
  <2>1. CASE c # 0 /\ conns[c].remote = id
    <3>1. conns' = [conns EXCEPT ![c].ice = TRUE]
      BY <1>1, <2>1
    <3> QED BY <1>3, <2>1, <3>1, IceIs DEF CallInv
  <2>2. CASE ~(c # 0 /\ conns[c].remote = id)
    <3>1. conns' = conns
      BY <1>1, <2>2
    <3> QED BY <2>2, <3>1, SameAlike DEF CallInv
  <2> QED BY <2>1, <2>2
<1>5. \A d \in Conn : OnItsWay(d) => OnItsWay(d)' \/ (id = d /\ conns[d].owner = u /\ conns[d].peer = v)
  <2>1. \A d \in Conn : conns'[d].owner = conns[d].owner /\ conns'[d].peer = conns[d].peer
    BY <1>4 DEF Alike
  <2> QED BY <2>1, TakeWay
<1> HIDE DEF id
<1>7. CallTypes'
  BY <1>1, <1>2, <1>4 DEF CallInv, CallTypes, Alike
<1>8. Conn' = Conn
  BY <1>4 DEF Conn, Alike
<1>9. \A w \in Party : PageOK(w)' /\ RingOK(w)'
  BY <1>1, <1>8 DEF CallInv, PageOK, RingOK
<1>12. ASSUME NEW x \in Conn, NEW y \in Conn, Bound(x, y), OnItsWay(y)
       PROVE  Reached(x, y)
  <2> SUFFICES ASSUME id = y, conns[y].owner = u, conns[y].peer = v
               PROVE  \/ stray[conns[x].owner] \/ conns[x].remote \notin {0, y}
                      \/ conns[x].remote = y /\ conns'[x].ice
    BY <1>1, <1>5, <1>12 DEF Reached
  <2>1. /\ conns[x].owner = v /\ c = x
        /\ conns[x].remote = 0 /\ page[v].described => stray[v]
    BY <1>12, TakerIs
  <2>2. CASE conns[x].remote = 0
    BY <2>1, <2>2
  <2>3. CASE conns[x].remote = y
    <3>1. x # 0
      BY CallTypeFacts DEF CallInv
    <3> QED BY <1>4, <2>1, <2>3, <3>1
  <2> QED BY <2>2, <2>3
<1>13. \A x, y \in Conn : Bound(x, y) /\ OnItsWay(y) => Reached(x, y)
  BY <1>12
<1>15. \A p, q \in Party : \A s :
         Among(net'[p][q], s) => Among(net[p][q], s) \/ VoiceOK(p, q, s)'
  BY <1>2
<1> QED BY <1>1, <1>4, <1>7, <1>9, <1>13, <1>15, PassInv

-----------------------------------------------------------------------------
(* An answer. *)

\* An answer that describes no connection.
LEMMA OnAnsweredLateInv ==
  ASSUME CallInv, NEW u \in Party, NEW v \in Party, NEW i \in DOMAIN net[u][v], Take(u, v, i),
         page[v].peer = u,
         \/ /\ page[v].pc # 0
            /\ page' = [page EXCEPT ![v].timer = FALSE, ![v].refused = TRUE]
            /\ stray' = stray
         \/ /\ page[v].pc = 0
            /\ page' = [page EXCEPT ![v].timer = FALSE, ![v].described = TRUE, ![v].early = {}]
            /\ stray' = [stray EXCEPT ![v] = TRUE],
         net[u][v][i].kind = "call:answer",
         UNCHANGED <<conns, ringing, redirects, media>>
  PROVE  CallInv'
<1>2. /\ net' \in [Party -> [Party -> Seq(Voice)]]
      /\ \A p, q \in Party : \A s : Among(net'[p][q], s) => Among(net[p][q], s)
  BY TakeIs
<1>3. page \in [Party -> Sheet] /\ stray \in [Party -> BOOLEAN]
  BY DEF CallInv, CallTypes
<1>4. /\ page' \in [Party -> Sheet]
      /\ \A w \in Party : w # v => page'[w] = page[w]
      /\ page'[v].state = page[v].state /\ page'[v].peer = page[v].peer
      /\ page'[v].timer = FALSE
      /\ page'[v].incoming = page[v].incoming /\ page'[v].pc = page[v].pc
      /\ page[v].pc # 0 => /\ page'[v].described = page[v].described
                           /\ page'[v].early = page[v].early /\ page'[v].refused
  <2>1. CASE page[v].pc # 0
    <3> DEFINE new == [page[v] EXCEPT !.timer = FALSE, !.refused = TRUE]
    <3>1. page' = [page EXCEPT ![v] = new]
      BY <1>3, <2>1
    <3>2. page[v] \in Sheet
      BY <1>3
    <3>3. /\ new \in Sheet /\ new.timer = FALSE /\ new.refused
          /\ new.state = page[v].state /\ new.peer = page[v].peer
          /\ new.incoming = page[v].incoming /\ new.pc = page[v].pc
          /\ new.described = page[v].described /\ new.early = page[v].early
      BY <3>2 DEF Sheet
    <3> HIDE DEF new
    <3> QED BY <1>3, <3>1, <3>3
  <2>2. CASE page[v].pc = 0
    <3> DEFINE new == [page[v] EXCEPT !.timer = FALSE, !.described = TRUE, !.early = {}]
    <3>1. page' = [page EXCEPT ![v] = new]
      BY <1>3, <2>2
    <3>2. page[v] \in Sheet
      BY <1>3
    <3>3. /\ new \in Sheet /\ new.timer = FALSE
          /\ new.state = page[v].state /\ new.peer = page[v].peer
          /\ new.incoming = page[v].incoming /\ new.pc = page[v].pc
      BY <3>2 DEF Sheet
    <3> HIDE DEF new
    <3> QED BY <1>3, <2>2, <3>1, <3>3
  <2> QED BY <2>1, <2>2
<1>5. /\ stray' \in [Party -> BOOLEAN]
      /\ \A w \in Party : stray[w] => stray'[w]
      /\ page[v].pc = 0 => stray'[v]
      /\ \A w \in Party : w # v => stray'[w] = stray[w]
  BY <1>3
<1>6. page[v].state # "home"
  BY HomeIs, CallsAssumption DEF CallInv, PageOK
<1>7. CallTypes'
  BY <1>2, <1>4, <1>5 DEF CallInv, CallTypes
<1>8. Conn' = Conn
  BY DEF Conn
<1>9. \A w \in Party : PageOK(w)' /\ RingOK(w)'
  <2> TAKE w \in Party
  <2>1. PageOK(w) /\ RingOK(w)
    BY DEF CallInv
  <2>2. RingOK(w)'
    BY <1>8, <2>1 DEF RingOK
  <2>3. CASE w # v
    BY <1>4, <1>5, <2>1, <2>2, <2>3 DEF PageOK
  <2>4. CASE w = v
    <3>1. PageOK(v)'
      BY <1>4, <1>5, <1>6, <2>1, <2>4 DEF PageOK
    <3> QED BY <2>2, <2>4, <3>1
  <2> QED BY <2>3, <2>4
<1>10. \A c \in Conn : OnItsWay(c) => OnItsWay(c)'
  BY TakeWay
<1>12. \A p, q \in Party : \A s :
         Among(net'[p][q], s) => Among(net[p][q], s) \/ VoiceOK(p, q, s)'
  BY <1>2
<1>13. \A w \in Party :
           /\ page'[w].pc = page[w].pc
           /\ page[w].pc # 0 =>
                /\ page'[w].described = page[w].described
                /\ page'[w].state = "outgoing" => page[w].state = "outgoing"
           /\ page'[w].peer = page[w].peer /\ page'[w].incoming = page[w].incoming
           /\ page[w].early \subseteq page'[w].early \/ page[w].pc = 0
           /\ page[w].state # "home" => page'[w].state # "home"
           /\ stray[w] => stray'[w]
  BY <1>4, <1>5
<1> QED BY <1>7, <1>9, <1>10, <1>12, <1>13, QuietInv

\* The connection of a page takes an answer.
Described(u, v, c, id) ==
  /\ c \in Conn /\ id \in Conn /\ c # id /\ u # v
  /\ conns[c].owner = v /\ conns[c].peer = u /\ conns[c].place = "page" /\ conns[c].remote = 0
  /\ conns[c].status # "closed"
  /\ conns[id].owner = u /\ conns[id].peer = v /\ conns[id].remote # 0
  /\ page[v].pc = c /\ page[v].peer = u /\ page[v].state # "home"
  /\ page' \in [Party -> Sheet]
  /\ \A w \in Party : w # v => page'[w] = page[w]
  /\ page'[v].pc = c /\ page'[v].peer = u /\ page'[v].state = "active"
  /\ ~page'[v].timer /\ page'[v].incoming = page[v].incoming /\ page'[v].described
  /\ conns' \in Seq(Leg) /\ Len(conns') = Len(conns) /\ Conn' = Conn
  /\ \A d \in Conn : d # c => conns'[d] = conns[d]
  /\ conns'[c].owner = v /\ conns'[c].peer = u /\ conns'[c].place = "page" /\ conns'[c].remote = id
  /\ conns'[c].status = conns[c].status
  /\ id \in page[v].early => conns'[c].ice
  /\ UNCHANGED <<ringing, redirects, stray>>

Taken(v, c, id) ==
  /\ conns' = [conns EXCEPT ![c].remote = id, ![c].ice = id \in page[v].early]
  /\ page' = [page EXCEPT ![v].state = "active", ![v].timer = FALSE,
                          ![v].described = TRUE, ![v].early = {}]
  /\ UNCHANGED <<ringing, redirects, stray>>

LEMMA DescribedIs ==
  ASSUME CallInv, NEW u \in Party, NEW v \in Party, NEW i \in DOMAIN net[u][v], Take(u, v, i),
         net[u][v][i].kind = "call:answer", page[v].peer = u,
         page[v].pc # 0, conns[page[v].pc].remote = 0,
         Taken(v, page[v].pc, net[u][v][i].id)
  PROVE  Described(u, v, page[v].pc, net[u][v][i].id)
<1> DEFINE id == net[u][v][i].id
           c == page[v].pc
           g == id \in page[v].early
<1>1. /\ page[v].peer = u
      /\ conns' = [conns EXCEPT ![c].remote = id, ![c].ice = g]
      /\ page' = [page EXCEPT ![v].state = "active", ![v].timer = FALSE,
                              ![v].described = TRUE, ![v].early = {}]
      /\ UNCHANGED <<ringing, redirects, stray>>
  BY DEF Taken
<1>2. net[u][v][i] \in Voice /\ VoiceOK(u, v, net[u][v][i])
  BY TakeIs
<1>3. /\ id \in Nat /\ id \in Conn /\ conns[id].owner = u /\ conns[id].peer = v
      /\ conns[id].remote # 0
  BY <1>2 DEF VoiceOK, Voice
<1>4. /\ c \in Conn /\ conns[c].owner = v /\ conns[c].peer = page[v].peer
      /\ conns[c].status # "closed" /\ conns[c].place = "page"
  BY DEF CallInv, PcOK
<1>5. u # v
  BY <1>3 DEF CallInv, LegOK
<1>6. page[v].state # "home"
  BY <1>1, HomeIs, CallsAssumption DEF CallInv, PageOK
<1>7. /\ conns \in Seq(Leg) /\ Conn = 1..Len(conns) /\ Len(conns) \in Nat /\ conns[c] \in Leg
      /\ page \in [Party -> Sheet]
  BY <1>4, CallTypeFacts DEF CallInv, CallTypes
<1>8. g \in BOOLEAN
  OBVIOUS
<1>9. /\ page' \in [Party -> Sheet]
      /\ \A w \in Party : w # v => page'[w] = page[w]
      /\ page'[v].pc = page[v].pc /\ page'[v].peer = page[v].peer /\ page'[v].state = "active"
      /\ page'[v].timer = FALSE /\ page'[v].incoming = page[v].incoming
      /\ page'[v].described = TRUE
  <2> DEFINE sheet == [page[v] EXCEPT !.state = "active", !.timer = FALSE,
                                      !.described = TRUE, !.early = {}]
  <2>1. page[v] \in Sheet
    BY <1>7
  <2>2. /\ sheet \in Sheet /\ sheet.pc = page[v].pc /\ sheet.peer = page[v].peer
        /\ sheet.state = "active" /\ sheet.timer = FALSE
        /\ sheet.incoming = page[v].incoming /\ sheet.described = TRUE
    BY <2>1 DEF Sheet, State
  <2>3. page' = [page EXCEPT ![v] = sheet]
    BY <1>1, <1>7
  <2> HIDE DEF sheet
  <2> QED BY <1>7, <2>2, <2>3
<1> HIDE DEF g, id, c
<1> DEFINE leg == [conns[c] EXCEPT !.remote = id, !.ice = g]
<1>10. /\ leg \in Leg /\ leg.owner = conns[c].owner /\ leg.peer = conns[c].peer
       /\ leg.remote = id /\ leg.place = conns[c].place
       /\ leg.status = conns[c].status /\ leg.ice = g
  BY <1>3, <1>7, <1>8 DEF Leg
<1>11. conns' = [conns EXCEPT ![c] = leg]
  BY <1>1, <1>4, <1>7
<1> HIDE DEF leg
<1>12. /\ conns' \in Seq(Leg) /\ Len(conns') = Len(conns)
       /\ conns'[c] = leg /\ \A d \in Conn : d # c => conns'[d] = conns[d]
  <2>1. conns \in [1..Len(conns) -> Leg]
    BY <1>7, LenProperties
  <2>2. conns' \in [1..Len(conns) -> Leg] /\ DOMAIN conns' = 1..Len(conns)
    BY <1>4, <1>7, <1>10, <1>11, <2>1
  <2>3. conns' \in Seq(Leg)
    BY <1>7, <2>2, SeqDef
  <2>4. Len(conns') = Len(conns)
    BY <1>7, <2>2, <2>3, LenProperties
  <2> QED BY <1>4, <1>7, <1>11, <2>1, <2>3, <2>4
<1>13. Conn' = Conn
  BY <1>12 DEF Conn
<1>14. g => conns'[c].ice
  BY <1>10, <1>12
<1>15. /\ conns'[c].owner = v /\ conns'[c].peer = u /\ conns'[c].place = conns[c].place
       /\ conns'[c].remote = id /\ conns'[c].status = conns[c].status
  BY <1>1, <1>4, <1>10, <1>12
<1>16. conns[c].remote = 0 /\ c = page[v].pc
  BY DEF c
<1>17. c # id
  BY <1>3, <1>16
<1>18. g <=> id \in page[v].early
  BY DEF g
<1>19. conns'[c].place = "page"
  BY <1>4, <1>15
<1>20. Described(u, v, c, id)
  BY ZenonT(40), <1>1, <1>3, <1>4, <1>5, <1>6, <1>9, <1>12, <1>13, <1>14, <1>15, <1>16, <1>17, <1>18, <1>19
     DEF Described
<1> QED BY <1>20 DEF c, id

LEMMA DescribedPages ==
  ASSUME CallInv, NEW u \in Party, NEW v \in Party, NEW c, NEW id, Described(u, v, c, id)
  PROVE  \A w \in Party : PageOK(w)' /\ PcOK(w)' /\ RingOK(w)'
<1>0. c # 0 /\ id # 0
  BY CallTypeFacts DEF CallInv, Described
<1>1. /\ c \in Conn /\ u # v /\ conns[c].owner = v
      /\ \A w \in Party : w # v => page'[w] = page[w]
      /\ page'[v].pc = c /\ page'[v].peer = u /\ page'[v].state = "active"
      /\ ~page'[v].timer /\ page'[v].described
      /\ Conn' = Conn /\ \A d \in Conn : d # c => conns'[d] = conns[d]
      /\ conns'[c].owner = v /\ conns'[c].peer = u /\ conns'[c].place = "page" /\ conns'[c].remote = id
      /\ conns'[c].status # "closed"
      /\ ringing' = ringing /\ stray' = stray
  BY DEF Described
<1> TAKE w \in Party
<1>2. PageOK(w) /\ PcOK(w) /\ RingOK(w)
  BY DEF CallInv
<1>3. RingOK(w)'
  BY <1>1, <1>2 DEF RingOK
<1>4. CASE w = v
  <2>1. PageOK(w)'
    BY <1>0, <1>1, <1>4 DEF PageOK
  <2>2. PcOK(w)'
    BY <1>0, <1>1, <1>4 DEF PcOK
  <2> QED BY <1>3, <2>1, <2>2
<1>5. CASE w # v
  <2>1. PageOK(w)'
    BY <1>1, <1>2, <1>5 DEF PageOK
  <2>2. page[w].pc # c
    BY <1>0, <1>1, <1>2, <1>5 DEF PcOK
  <2>3. PcOK(w)'
    <3>1. page'[w] = page[w]
      BY <1>1, <1>5
    <3> QED BY <1>1, <1>2, <2>2, <3>1 DEF PcOK
  <2> QED BY <1>3, <2>1, <2>3
<1> QED BY <1>4, <1>5

LEMMA DescribedLegs ==
  ASSUME CallInv, NEW u \in Party, NEW v \in Party, NEW c, NEW id, Described(u, v, c, id)
  PROVE  \A d \in Conn' : LegOK(d)'
<1>0. /\ c \in Nat /\ id \in Nat /\ c # 0 /\ id # 0 /\ Conn = 1..Len(conns) /\ Len(conns) \in Nat
      /\ \A d \in Conn : conns[d].owner \in Party
  BY CallTypeFacts DEF CallInv, Described, Leg
<1>1. /\ c \in Conn /\ id \in Conn /\ c # id /\ u # v
      /\ conns[c].owner = v /\ conns[c].peer = u /\ conns[c].remote = 0
      /\ conns[id].owner = u /\ conns[id].peer = v /\ conns[id].remote # 0
      /\ page[v].pc = c /\ page'[v].pc = c /\ page'[v].state # "home"
      /\ \A w \in Party : w # v => page'[w] = page[w]
      /\ Len(conns') = Len(conns) /\ Conn' = Conn
      /\ \A d \in Conn : d # c => conns'[d] = conns[d]
      /\ conns'[c].owner = v /\ conns'[c].peer = u /\ conns'[c].place = "page" /\ conns'[c].remote = id
  BY DEF Described
<1>2. LegOK(c)'
  BY <1>0, <1>1 DEF LegOK
<1>3. ASSUME NEW d \in Conn, d # c PROVE LegOK(d)'
  <2>1. LegOK(d) /\ conns'[d] = conns[d]
    BY <1>1, <1>3 DEF CallInv
  <2>2. page[conns[d].owner].pc = d => page'[conns[d].owner].pc = d
    BY <1>0, <1>1
  <2>5. page[conns[d].owner].state # "home" => page'[conns[d].owner].state # "home"
    BY <1>0, <1>1
  <2>3. conns[d].remote > d => conns[d].remote \in Conn /\ conns[d].remote # c
    BY <1>0, <1>1, <2>1 DEF LegOK
  <2>4. conns[d].remote > d => conns'[conns[d].remote] = conns[conns[d].remote]
    BY <1>1, <2>3
  <2> QED BY <1>1, <2>1, <2>2, <2>4, <2>5 DEF LegOK
<1> QED BY <1>1, <1>2, <1>3

LEMMA DescribedBound ==
  ASSUME CallInv, NEW u \in Party, NEW v \in Party, NEW c, NEW id, Described(u, v, c, id),
         \A d \in Conn : OnItsWay(d) => OnItsWay(d)'
  PROVE  \A x, y \in Conn' : BoundOK(x, y)'
<1>0. /\ c \in Nat /\ id \in Nat /\ c # 0 /\ id # 0 /\ Conn \subseteq Nat
      /\ \A d \in Conn : d # 0 /\ conns[d].owner \in Party
  BY CallTypeFacts DEF CallInv, Described, Leg
<1>1. /\ c \in Conn /\ id \in Conn /\ c # id
      /\ conns[c].owner = v /\ conns[c].peer = u /\ conns[c].remote = 0
      /\ conns[id].owner = u /\ conns[id].peer = v /\ conns[id].remote # 0
      /\ page[v].pc = c /\ page'[v].pc = c
      /\ \A w \in Party : w # v => page'[w] = page[w]
      /\ Conn' = Conn
      /\ \A d \in Conn : d # c => conns'[d] = conns[d]
      /\ conns'[c].owner = v /\ conns'[c].peer = u /\ conns'[c].remote = id
      /\ stray' = stray
  BY DEF Described
<1>2. id \in page[v].early => conns'[c].ice
  BY DEF Described
<1> SUFFICES ASSUME NEW x \in Conn, NEW y \in Conn, Bound(x, y)' PROVE BoundOK(x, y)'
  BY <1>1 DEF BoundOK
<1>3. /\ conns'[y].remote = x /\ x < y
      /\ conns'[y].peer = conns'[x].owner /\ conns'[x].peer = conns'[y].owner
      /\ page'[conns'[x].owner].pc = x
  BY DEF Bound
<1>4. CASE y = c
  <2>1. x = id /\ conns'[id] = conns[id] /\ id < c
    BY <1>1, <1>3, <1>4
  <2>2. conns[id].remote # c
    <3>1. LegOK(id)
      BY <1>1 DEF CallInv
    <3> QED BY <1>0, <1>1, <2>1, <3>1 DEF LegOK
  <2>3. conns'[x].remote # 0 /\ conns'[x].remote # y
    BY <1>1, <1>4, <2>1, <2>2
  <2> QED BY <2>3 DEF BoundOK
<1>5. CASE y # c /\ x # c
  <2>1. conns'[y] = conns[y] /\ conns'[x] = conns[x]
    BY <1>1, <1>5
  <2>2. conns[x].owner # v
    BY <1>1, <1>3, <1>5, <2>1
  <2>3. page'[conns[x].owner] = page[conns[x].owner]
    BY <1>0, <1>1, <2>2
  <2>4. Bound(x, y)
    BY <1>3, <2>1, <2>3 DEF Bound
  <2>5. BoundOK(x, y) /\ (OnItsWay(y) => OnItsWay(y)')
    BY DEF CallInv
  <2> QED BY <1>1, <2>1, <2>3, <2>4, <2>5 DEF BoundOK
<1>6. CASE y # c /\ x = c
  <2>1. conns'[y] = conns[y] /\ conns'[x].remote = id
    BY <1>1, <1>6
  <2>2. id # y => BoundOK(x, y)'
    BY <1>0, <2>1 DEF BoundOK
  <2>3. CASE id = y
    <3>1. Bound(c, y)
      BY <1>1, <1>3, <1>6, <2>1 DEF Bound
    <3>2. BoundOK(c, y) /\ (OnItsWay(y) => OnItsWay(y)')
      BY <1>1 DEF CallInv
    <3>3. OnItsWay(y) \/ y \in page[v].early \/ stray[v]
      BY <1>1, <3>1, <3>2 DEF BoundOK
    <3>4. OnItsWay(y)' \/ conns'[c].ice \/ stray'[conns'[c].owner]
      <4>1. stray[v] => stray'[conns'[c].owner]
        BY <1>1
      <4>2. y \in page[v].early => conns'[c].ice
        BY <1>2, <2>3
      <4> QED BY <3>2, <3>3, <4>1, <4>2
    <3>5. conns'[x].remote # 0
      BY <1>0, <2>1
    <3> QED BY <1>6, <3>4, <3>5 DEF BoundOK
  <2> QED BY <2>2, <2>3
<1> QED BY <1>4, <1>5, <1>6

LEMMA DescribedInv ==
  ASSUME CallInv, NEW u \in Party, NEW v \in Party, NEW i \in DOMAIN net[u][v], Take(u, v, i),
         net[u][v][i].kind = "call:answer", NEW c, NEW id, Described(u, v, c, id), UNCHANGED media
  PROVE  CallInv'
<1>1. /\ conns' \in Seq(Leg) /\ Conn' = Conn /\ conns[c].owner = v /\ conns[c].peer = u
      /\ conns[c].remote = 0 /\ id \in Conn /\ c \in Conn
      /\ \A d \in Conn : d # c => conns'[d] = conns[d]
      /\ conns'[c].owner = v /\ conns'[c].peer = u
      /\ page' \in [Party -> Sheet]
      /\ \A w \in Party : w # v => page'[w] = page[w]
      /\ page[v].pc = c
      /\ UNCHANGED <<ringing, redirects, stray>>
  BY DEF Described
<1>2. /\ net' \in [Party -> [Party -> Seq(Voice)]]
      /\ \A p, q \in Party : \A s : Among(net'[p][q], s) => Among(net[p][q], s)
  BY TakeIs
<1>3. \A d \in Conn : conns'[d].owner = conns[d].owner /\ conns'[d].peer = conns[d].peer
  BY <1>1
<1>4. \A d \in Conn : OnItsWay(d) => OnItsWay(d)'
  BY <1>3, TakeWay
<1>5. CallTypes'
  BY <1>1, <1>2 DEF CallInv, CallTypes
<1>6. \A w \in Party : PageOK(w)' /\ PcOK(w)' /\ RingOK(w)'
  BY DescribedPages
<1>7. \A d \in Conn' : LegOK(d)'
  BY DescribedLegs
<1>8. \A x, y \in Conn' : BoundOK(x, y)'
  BY <1>4, DescribedBound
<1>9. VoicesOK'
  <2>1. \A d \in Conn : /\ conns'[d].owner = conns[d].owner
                        /\ conns'[d].peer = conns[d].peer
                        /\ conns[d].remote # 0 => conns'[d].remote # 0
    BY <1>1
  <2>2. \A p, q \in Party : \A s :
           Among(net'[p][q], s) => Among(net[p][q], s) \/ VoiceOK(p, q, s)'
    BY <1>2
  <2> QED BY <1>1, <2>1, <2>2, VoicesStep
<1>10. page'[v].peer = page[v].peer /\ page'[v].state # "home"
  BY DEF Described
<1>11. \A m \in media' : CameraOK(m)'
  <2> TAKE m \in media'
  <2>1. CameraOK(m) /\ m.user \in Party
    BY CameraFacts DEF CallInv
  <2>2. /\ page'[m.user].peer = page[m.user].peer
        /\ page[m.user].state # "home" => page'[m.user].state # "home"
    BY <1>1, <1>10, <2>1
  <2> QED BY <1>1, <2>1, <2>2 DEF CameraOK
<1> QED BY <1>5, <1>6, <1>7, <1>8, <1>9, <1>11, InvFrom

LEMMA DeliverInv ==
  ASSUME CallInv, NEW u \in Party, NEW v \in Party, NEW i \in Due(u, v), Deliver(u, v, i)
  PROVE  CallInv'
<1>1. i \in DOMAIN net[u][v] /\ Take(u, v, i) /\ media' = media
  BY DEF Due, Deliver
<1> DEFINE s == net[u][v][i]
<1>2. \/ Heard(u, v, s)
      \/ Dropped(u, v, s) /\ UNCHANGED <<page, ringing, conns, redirects, stray>>
  BY DEF Deliver
<1>3. CASE Dropped(u, v, s) /\ UNCHANGED <<page, ringing, conns, redirects, stray>>
  BY <1>1, <1>3, DroppedInv
<1>4. CASE s.kind = "call:offer" /\ OnIncoming(u, v, s.id)
  BY <1>1, <1>4, OnIncomingInv
<1>5. CASE s.kind = "call:answer" /\ OnAnswered(u, v, s.id)
  <2> DEFINE c == page[v].pc
             id == s.id
  <2>1. page[v].peer = u /\ UNCHANGED <<ringing, redirects>>
    BY <1>5 DEF OnAnswered
  <2>2. CASE /\ c # 0 /\ conns[c].remote = 0
             /\ conns' = [conns EXCEPT ![c].remote = id, ![c].ice = id \in page[v].early]
             /\ page' = [page EXCEPT ![v].state = "active", ![v].timer = FALSE,
                                     ![v].described = TRUE, ![v].early = {}]
             /\ UNCHANGED stray
    <3>1. Described(u, v, c, id)
      <4>1. Taken(v, c, id)
        BY <2>1, <2>2 DEF Taken
      <4> QED BY <1>1, <1>5, <2>1, <2>2, <4>1, DescribedIs
    <3> QED BY <1>1, <1>5, <3>1, DescribedInv
  <2>3. CASE /\ c # 0
             /\ page' = [page EXCEPT ![v].timer = FALSE, ![v].refused = TRUE]
             /\ UNCHANGED <<conns, stray>>
    BY <1>1, <1>5, <2>1, <2>3, OnAnsweredLateInv
  <2>4. CASE /\ c = 0
             /\ page' = [page EXCEPT ![v].timer = FALSE, ![v].described = TRUE, ![v].early = {}]
             /\ stray' = [stray EXCEPT ![v] = TRUE]
             /\ UNCHANGED conns
    BY <1>1, <1>5, <2>1, <2>4, OnAnsweredLateInv
  <2> QED BY <1>5, <2>2, <2>3, <2>4 DEF OnAnswered
<1>6. CASE s.kind = "call:ice-candidate" /\ OnIce(u, v, s.id)
  BY <1>1, <1>6, OnIceEarlyInv, OnIceLateInv
<1>7. CASE s.kind \in {"call:reject", "call:end"} /\ OnOver(v)
  BY <1>1, <1>7, OnOverInv
<1> QED BY <1>2, <1>3, <1>4, <1>5, <1>6, <1>7 DEF Heard

-----------------------------------------------------------------------------
(* A connection is lost; all together. *)

LEMMA LostIs ==
  ASSUME CallTypes, NEW c \in Conn, conns[c].status = "open",
         conns' = [conns EXCEPT ![c].status = "failed"]
  PROVE  Alike
<1>1. conns \in Seq(Leg) /\ Conn = 1..Len(conns) /\ Len(conns) \in Nat /\ conns[c] \in Leg
  BY CallTypeFacts DEF CallTypes
<1> DEFINE leg == [conns[c] EXCEPT !.status = "failed"]
<1>2. /\ leg \in Leg /\ leg.owner = conns[c].owner /\ leg.peer = conns[c].peer
      /\ leg.remote = conns[c].remote /\ leg.place = conns[c].place
      /\ leg.status = "failed" /\ leg.ice = conns[c].ice
  BY <1>1 DEF Leg
<1>3. conns' = [conns EXCEPT ![c] = leg]
  OBVIOUS
<1> HIDE DEF leg
<1>4. /\ conns' \in Seq(Leg) /\ Len(conns') = Len(conns)
      /\ conns'[c] = leg /\ \A d \in Conn : d # c => conns'[d] = conns[d]
  <2>1. conns \in [1..Len(conns) -> Leg]
    BY <1>1, LenProperties
  <2>2. conns' \in [1..Len(conns) -> Leg] /\ DOMAIN conns' = 1..Len(conns)
    BY <1>1, <1>2, <1>3, <2>1
  <2>3. conns' \in Seq(Leg)
    BY <1>1, <2>2, SeqDef
  <2>4. Len(conns') = Len(conns)
    BY <1>1, <2>2, <2>3, LenProperties
  <2> QED BY <1>1, <1>3, <2>1, <2>3, <2>4
<1>5. \A d \in Conn :
       /\ conns'[d].owner = conns[d].owner /\ conns'[d].peer = conns[d].peer
       /\ conns'[d].remote = conns[d].remote /\ conns'[d].place = conns[d].place
       /\ conns'[d].status = "open" => conns[d].status = "open"
       /\ conns[d].status # "closed" => conns'[d].status # "closed"
  BY <1>2, <1>4
<1>6. \A d \in Conn : conns[d].ice => conns'[d].ice
  BY <1>2, <1>4
<1> QED BY <1>4, <1>5, <1>6 DEF Alike

LEMMA ConnectionLostInv ==
  ASSUME CallInv, NEW c \in Conn, ConnectionLost(c)
  PROVE  CallInv'
<1> DEFINE u == conns[c].owner
<1>1. /\ conns[c].status = "open"
      /\ conns' = [conns EXCEPT ![c].status = "failed"]
      /\ page' = IF conns[c].place # "alone" THEN [page EXCEPT ![u].state = "ended"] ELSE page
      /\ redirects' = [redirects EXCEPT ![u] = @ + 1]
      /\ UNCHANGED <<ringing, media, net, stray>>
  BY DEF ConnectionLost
<1>2. u \in Party /\ c # 0
  BY CallTypeFacts DEF CallInv, Leg
<1>14. conns[c].place # "alone" => page[u].state # "home"
  <2>1. LegOK(c) /\ conns[c] \in Leg
    BY CallTypeFacts DEF CallInv
  <2>2. page[u].pc = c => page[u].state # "home"
    BY <1>2, HomeIs DEF CallInv, PageOK
  <2> QED BY <1>1, <2>1, <2>2 DEF LegOK, Leg
<1>3. Alike
  BY <1>1, LostIs DEF CallInv
<1>4. page \in [Party -> Sheet] /\ redirects \in [Party -> Nat]
  BY DEF CallInv, CallTypes
<1> HIDE DEF u
<1>5. redirects' \in [Party -> Nat]
  BY <1>1, <1>2, <1>4
<1>6. /\ page' \in [Party -> Sheet]
      /\ \A w \in Party : w # u \/ conns[c].place = "alone" => page'[w] = page[w]
      /\ conns[c].place # "alone" => page'[u].state = "ended"
      /\ page'[u].peer = page[u].peer /\ page'[u].timer = page[u].timer
      /\ page'[u].incoming = page[u].incoming /\ page'[u].pc = page[u].pc
      /\ page'[u].described = page[u].described /\ page'[u].early = page[u].early
      /\ page'[u].refused = page[u].refused
  <2>1. CASE conns[c].place # "alone"
    <3>1. page' = [page EXCEPT ![u].state = "ended"]
      BY <1>1, <2>1
    <3> QED BY <1>2, <1>4, <2>1, <3>1 DEF Sheet, State
  <2>2. CASE conns[c].place = "alone"
    <3>1. page' = page
      BY <1>1, <2>2
    <3> QED BY <1>2, <1>4, <2>2, <3>1
  <2> QED BY <2>1, <2>2
<1>7. CallTypes'
  BY <1>1, <1>3, <1>5, <1>6 DEF CallInv, CallTypes, Alike
<1>8. Conn' = Conn
  BY <1>3 DEF Alike, Conn
<1>9. \A w \in Party : PageOK(w)' /\ RingOK(w)'
  <2> TAKE w \in Party
  <2>1. PageOK(w) /\ RingOK(w)
    BY DEF CallInv
  <2>2. RingOK(w)'
    BY <1>1, <1>8, <2>1 DEF RingOK
  <2>3. CASE w # u \/ conns[c].place = "alone"
    <3>1. page'[w] = page[w]
      BY <1>6, <2>3
    <3>2. PageOK(w)'
      BY <1>1, <2>1, <3>1 DEF PageOK
    <3> QED BY <2>2, <3>2
  <2>4. CASE w = u /\ conns[c].place # "alone"
    <3>1. page[u].state # "home"
      BY <1>14, <2>4
    <3>2. /\ page'[w].state = "ended" /\ page'[w].peer = page[w].peer
          /\ page'[w].timer = page[w].timer /\ page'[w].incoming = page[w].incoming
          /\ page'[w].pc = page[w].pc /\ page'[w].described = page[w].described
      BY <1>6, <2>4
    <3>3. PageOK(w)'
      BY <1>1, <2>1, <2>4, <3>1, <3>2 DEF PageOK
    <3> QED BY <2>2, <3>3
  <2> QED BY <2>3, <2>4
<1>10. \A x, y \in Conn : Bound(x, y) /\ OnItsWay(y) => Reached(x, y)
  <2>1. \A y \in Conn : OnItsWay(y) => OnItsWay(y)'
    <3>1. \A d \in Conn : /\ conns'[d].owner = conns[d].owner /\ conns'[d].peer = conns[d].peer
                          /\ conns[d].owner \in Party /\ conns[d].peer \in Party
      BY <1>3, CallTypeFacts DEF Alike, CallInv, Leg
    <3>2. \A p, q \in Party : \A s : Among(net[p][q], s) => Among(net'[p][q], s)
      BY <1>1
    <3> QED BY <3>1, <3>2, WayStays
  <2> QED BY <2>1 DEF Reached
<1>12. \A p, q \in Party : \A s :
         Among(net'[p][q], s) => Among(net[p][q], s) \/ VoiceOK(p, q, s)'
  BY <1>1
<1>13. \A w \in Party :
           /\ page'[w].pc = page[w].pc
           /\ page[w].pc # 0 =>
                /\ page'[w].described = page[w].described
                /\ page'[w].state = "outgoing" => page[w].state = "outgoing"
           /\ page'[w].peer = page[w].peer /\ page'[w].incoming = page[w].incoming
           /\ page[w].early \subseteq page'[w].early \/ page[w].pc = 0
           /\ page[w].state # "home" => page'[w].state # "home"
           /\ stray[w] => stray'[w]
  BY <1>1, <1>6, <1>14
<1> QED BY <1>1, <1>3, <1>7, <1>9, <1>10, <1>12, <1>13, PassInv

-----------------------------------------------------------------------------

LEMMA CallInvInit == CallInit => CallInv
<1> SUFFICES ASSUME CallInit PROVE CallInv
  OBVIOUS
<1> USE DEF CallInit
<1>1. Conn = {} /\ Len(conns) = 0
  BY DEF Conn
<1>2. CallTypes
  <2>1. conns \in Seq(Leg)
    OBVIOUS
  <2>2. <<>> \in Seq(Voice)
    OBVIOUS
  <2> QED BY <2>1, <2>2, HomeIs DEF CallTypes
<1>3. ASSUME NEW u \in Party PROVE PageOK(u) /\ PcOK(u) /\ RingOK(u)
  BY HomeIs DEF PageOK, PcOK, RingOK
<1>4. \A u, v \in Party : DOMAIN net[u][v] = {}
  OBVIOUS
<1> QED BY <1>1, <1>2, <1>3, <1>4 DEF CallInv

\* The turns counted are a number.
LEMMA TurnsStep == turns \in Nat /\ [CallNext]_callVars => turns' \in Nat
<1> SUFFICES ASSUME turns \in Nat, [CallNext]_callVars PROVE turns' \in {turns, turns + 1}
  OBVIOUS
<1> USE DEF Turn
<1>1. ASSUME NEW u, NEW v, Dial(u, v) \/ \E i : Deliver(u, v, i) PROVE turns' = turns
  BY <1>1 DEF Dial, Deliver
<1>2. ASSUME NEW u,
             \/ HandleAcceptCall(u) \/ HandleRejectCall(u) \/ Reload(u) \/ HandleAnswer(u)
             \/ HandleReject(u) \/ HandleEnd(u) \/ GoElsewhere(u)
             \/ Redirect(u) \/ NoAnswer(u) \/ TokenRefreshed(u)
      PROVE  turns' \in {turns, turns + 1}
  BY <1>2 DEF HandleAcceptCall, HandleRejectCall, Reload, HandleAnswer, HandleReject, HandleEnd,
     GoElsewhere, Redirect, NoAnswer, TokenRefreshed
<1>3. ASSUME NEW m, StartCall(m) \/ AnswerCall(m) \/ MediaFails(m) PROVE turns' \in {turns, turns + 1}
  BY <1>3 DEF StartCall, AnswerCall, MediaFails
<1>4. ASSUME NEW c, ConnectionLost(c) PROVE turns' = turns
  BY <1>4 DEF ConnectionLost
<1>5. CASE UNCHANGED callVars
  BY <1>5 DEF callVars
<1> QED BY <1>1, <1>2, <1>3, <1>4, <1>5 DEF CallNext

LEMMA CallInvStep == CallInv /\ turns' \in Nat /\ [CallNext]_callVars => CallInv'
<1> SUFFICES ASSUME CallInv, turns' \in Nat, [CallNext]_callVars PROVE CallInv'
  OBVIOUS
<1>1. ASSUME NEW d \in Dials, Dial(d[1], d[2]) PROVE CallInv'
  BY <1>1, DialInv
<1>2. ASSUME NEW u \in Party, HandleAcceptCall(u) PROVE CallInv'
  BY <1>2, HandleAcceptCallInv
<1>3. ASSUME NEW u \in Party, HandleRejectCall(u) PROVE CallInv'
  BY <1>3, RejectCallInv
<1>4. ASSUME NEW u \in Party, HandleAnswer(u) PROVE CallInv'
  BY <1>4, HandleAnswerInv
<1>5. ASSUME NEW u \in Party,
             HandleReject(u) \/ HandleEnd(u) \/ GoElsewhere(u) \/ Redirect(u)
      PROVE  CallInv'
  BY <1>5, LeavingInv
<1>6. ASSUME NEW u \in Party, NoAnswer(u) PROVE CallInv'
  BY <1>6, NoAnswerInv
<1>7. ASSUME NEW u \in Party, TokenRefreshed(u) PROVE CallInv'
  BY <1>7, TokenRefreshedInv
<1>8. ASSUME NEW u \in Party, NEW v \in Party, NEW i \in Due(u, v), Deliver(u, v, i) PROVE CallInv'
  BY <1>8, DeliverInv
<1>9. ASSUME NEW m \in media, StartCall(m) PROVE CallInv'
  BY <1>9, StartCallInv
<1>10. ASSUME NEW m \in media, AnswerCall(m) PROVE CallInv'
  BY <1>10, AnswerCallInv
<1>11. ASSUME NEW m \in media, MediaFails(m) PROVE CallInv'
  BY <1>11, MediaFailsInv
<1>12. ASSUME NEW c \in Conn, ConnectionLost(c) PROVE CallInv'
  BY <1>12, ConnectionLostInv
<1>14. ASSUME NEW u \in Party, Reload(u) PROVE CallInv'
  BY <1>14, ReloadInv
<1>13. CASE UNCHANGED callVars
  BY SMTT(30), <1>13 DEF callVars, CallInv, CallTypes, Conn, PageOK, PcOK, RingOK, LegOK, CameraOK, VoiceOK,
     BoundOK, Bound, OnItsWay
<1> QED BY <1>1, <1>2, <1>3, <1>4, <1>5, <1>6, <1>7, <1>8, <1>9, <1>10, <1>11, <1>12, <1>13, <1>14
        DEF CallNext

\* The inductive invariant of calls holds of every behaviour.
THEOREM CallSpecInv == CallSpec => []CallInv
<1> DEFINE Grounded == CallInv /\ turns \in Nat
<1>1. CallInit => Grounded
  BY CallInvInit DEF CallInit
<1>2. Grounded /\ [CallNext]_callVars => Grounded'
  BY CallInvStep, TurnsStep
<1>3. Grounded => CallInv
  OBVIOUS
<1> HIDE DEF Grounded
<1> QED BY <1>1, <1>2, <1>3, PTL DEF CallSpec

LEMMA TypesFollow == CallInv => CallTypeOK
<1> SUFFICES ASSUME CallInv PROVE CallTypeOK
  OBVIOUS
<1>1. /\ Conn = 1..Len(conns) /\ Len(conns) \in Nat
      /\ \A c \in Conn : conns[c] \in Leg
      /\ \A u \in Party : page[u] \in Sheet
  BY CallTypeFacts DEF CallInv
<1>2. ASSUME NEW u \in Party
      PROVE  /\ page[u].state \in State /\ page[u].pc \in 0..Len(conns)
             /\ page[u].state # "home" => page[u].peer \in Party \ {u}
             /\ page[u].state = "home" => page[u] = Home
             /\ page[u].pc # 0 => conns[page[u].pc].owner = u /\ conns[page[u].pc].status # "closed"
             /\ ringing[u] # Nobody => ringing[u].from \in Party /\ ringing[u].offer \in Conn
             /\ page[u].timer => ~page[u].incoming
  <2>1. PageOK(u) /\ PcOK(u)
    BY DEF CallInv
  <2>2. ringing[u] # Nobody => ringing[u].from \in Party /\ ringing[u].offer \in Conn
    BY RingFacts
  <2>3. page[u].state \in State /\ page[u].pc \in Nat
    BY <1>1 DEF Sheet
  <2>4. page[u].pc # 0 => /\ page[u].pc \in Conn
                          /\ conns[page[u].pc].owner = u /\ conns[page[u].pc].status # "closed"
    BY <2>1 DEF PcOK
  <2>5. page[u].pc \in 0..Len(conns)
    BY <1>1, <2>3, <2>4
  <2> QED BY <2>1, <2>2, <2>3, <2>4, <2>5 DEF PageOK
<1>3. ASSUME NEW c \in Conn PROVE conns[c].owner \in Party /\ conns[c].remote \in 0..Len(conns)
  <2>1. LegOK(c)
    BY DEF CallInv
  <2> QED BY <1>1, <2>1 DEF LegOK, Leg
<1> QED BY <1>2, <1>3 DEF CallTypeOK

\* Pages, connections, requests for the camera and signals have their
\* types; the connection of a page is its user's and is not closed.
THEOREM CallTypeCorrect == CallSpec => []CallTypeOK
BY CallSpecInv, TypesFollow, PTL

\* Who waits for an answer has a timer that ends it, unless an answer that
\* made no call has switched it off.
THEOREM RingingEndsHolds == CallSpec => []RingingEnds
<1>1. CallInv => RingingEnds
  BY DEF CallInv, PageOK, RingingEnds
<1> QED BY <1>1, CallSpecInv, PTL

\* Who is heard is bound to the other one, on a page of his.
LEMMA MatchIs ==
  ASSUME CallInv, NEW c \in Conn, NEW d \in Conn, Match(c, d)
  PROVE  /\ conns[c].peer = conns[d].owner /\ conns[d].peer = conns[c].owner
<1>0. c \in Nat /\ d \in Nat /\ c # 0 /\ d # 0
  BY CallTypeFacts DEF CallInv
<1>1. conns[c].remote = d /\ conns[d].remote = c
  BY DEF Match
<1>2. LegOK(c) /\ LegOK(d)
  BY DEF CallInv
<1>3. c # d
  BY <1>1, <1>2 DEF LegOK
<1>4. CASE c < d
  <2>1. conns[c].remote > c
    BY <1>0, <1>1, <1>4
  <2> QED BY <1>1, <1>2, <2>1 DEF LegOK
<1>5. CASE d < c
  <2>1. conns[d].remote > d /\ ~(c < d)
    BY <1>0, <1>1, <1>5
  <2> QED BY <1>1, <1>2, <2>1 DEF LegOK
<1> QED BY <1>0, <1>3, <1>4, <1>5

\* Whoever is heard and seen has the other one on his page, unless the
\* camera was allowed only after the page was left, or another connection
\* took the place of this one.
THEOREM FaceToFaceHolds == CallSpec => []FaceToFace
<1>1. CallInv => FaceToFace
  <2> SUFFICES ASSUME CallInv, NEW c \in Conn, NEW d \in Conn, Linked(c, d),
                      conns[c].place = "page"
               PROVE  Faces(c, d)
    BY DEF FaceToFace
  <2>1. Match(c, d)
    BY DEF Linked
  <2>2. conns[c].peer = conns[d].owner
    BY <2>1, MatchIs
  <2>3. c # 0 /\ conns[c].owner \in Party
    BY CallTypeFacts DEF CallInv, Leg
  <2>4. page[conns[c].owner].pc = c
    BY <2>1 DEF CallInv, LegOK, Match
  <2>5. page[conns[c].owner].peer = conns[c].peer
    BY <2>3, <2>4 DEF CallInv, PcOK
  <2> QED BY <2>2, <2>4, <2>5 DEF Faces
<1> QED BY <1>1, CallSpecInv, PTL

LEMMA EarlierConnects ==
  ASSUME CallInv, NEW a \in Conn, NEW b \in Conn, Match(a, b), a < b, conns[a].place = "page"
  PROVE  conns[a].ice \/ OnItsWay(b) \/ stray[conns[a].owner]
<1>1. /\ conns[a].remote = b /\ conns[b].remote = a /\ conns[a].status = "open"
  BY DEF Match
<1>2. conns[a].peer = conns[b].owner /\ conns[b].peer = conns[a].owner
  BY MatchIs
<1>3. page[conns[a].owner].pc = a
  BY <1>1, <1>2 DEF CallInv, LegOK
<1>4. Bound(a, b)
  BY <1>1, <1>2, <1>3 DEF Bound
<1>5. BoundOK(a, b)
  BY DEF CallInv
<1> QED BY <1>1, <1>4, <1>5 DEF BoundOK

\* A call that was answered has its candidates, or they are on their way,
\* unless its page took a description before it had this connection, or
\* has another one by now.
THEOREM AnsweredCallsConnectHolds == CallSpec => []AnsweredCallsConnect
<1>1. CallInv => AnsweredCallsConnect
  BY EarlierConnects DEF AnsweredCallsConnect, Linked, Match
<1> QED BY <1>1, CallSpecInv, PTL
=============================================================================
