---------------------------- MODULE InvitesProofs ----------------------------
(* What holds of Invites for every set of users and of handlers, all       *)
(* limits and any number of invites; and of Waitlist for every set of      *)
(* addresses and of requests.                                              *)
EXTENDS Invites, Waitlist, Counts

-----------------------------------------------------------------------------
(* Type correctness *)

Found == {"accMark", "regMark", "regConnect", "revWrite"}

HandlerTypeOK ==
  /\ pc \in [Handler -> Step]
  /\ usr \in [Handler -> User \cup {None}]
  /\ inv \in [Handler -> Invite \cup {0}]
  /\ seen \in [Handler -> Nat]
  /\ \A p \in Handler : pc[p] # "idle" => usr[p] \in User
  /\ \A p \in Handler : pc[p] \in Found => inv[p] \in Invite

TablesTypeOK ==
  /\ Founder \subseteq account /\ account \subseteq User
  /\ lastId \in 0..MaxInvites /\ aged \in 0..MaxInvites
  /\ row \in [Invite -> {"none", "there", "cleared"}]
  /\ from \in [Invite -> User \cup {None}]
  /\ maxUses \in [Invite -> 1..MaxUses]
  /\ usedCount \in [Invite -> Nat]
  /\ isActive \in [Invite -> BOOLEAN]
  /\ expired \subseteq Invite /\ revoked \subseteq Invite
  /\ joined \subseteq Invite \X User
  /\ late \in [Invite -> Nat]
  /\ \A i \in Invite : There(i) => from[i] \in User

LEMMA TypeParts == TypeOK <=> HandlerTypeOK /\ TablesTypeOK
  BY DEF TypeOK, HandlerTypeOK, TablesTypeOK, Found

LEMMA BoundsType ==
  /\ MaxInvites \in Nat /\ Invite \subseteq Nat /\ 0 \notin Invite
  /\ MaxUses \in Nat /\ 1 \in 1..MaxUses
  BY InvitesAssumption DEF Invite

LEMMA BeginType ==
  ASSUME HandlerTypeOK, NEW p \in Handler, NEW u \in User, NEW i \in Invite \cup {0},
         NEW step \in Step, step \in Found => i \in Invite, Begin(p, u, i, step),
         seen' \in [Handler -> Nat]
  PROVE  HandlerTypeOK'
  BY DEF HandlerTypeOK, Begin, Step, Found

LEMMA EndType ==
  ASSUME HandlerTypeOK, NEW p \in Handler, End(p)
  PROVE  HandlerTypeOK'
  BY DEF HandlerTypeOK, End, Step, Found

LEMMA GotoType ==
  ASSUME HandlerTypeOK, NEW p \in Handler, pc[p] # "idle", NEW step \in Step,
         step \in Found => inv[p] \in Invite, Goto(p, step)
  PROVE  HandlerTypeOK'
  BY DEF HandlerTypeOK, Goto

LEMMA TablesUnchanged ==
  ASSUME TablesTypeOK, UNCHANGED <<account, invites, clock, joined, history>>
  PROVE  TablesTypeOK'
  BY DEF TablesTypeOK, invites, clock, history, There

LEMMA NewRowType ==
  ASSUME TablesTypeOK, NEW u \in User, NEW n \in 1..MaxUses, NewRow(u, n),
         UNCHANGED <<account, clock, joined, history>>
  PROVE  TablesTypeOK'
<1>1. lastId + 1 \in Invite /\ lastId + 1 \in 0..MaxInvites
  BY BoundsType DEF NewRow, TablesTypeOK, Invite
<1> QED BY <1>1 DEF NewRow, TablesTypeOK, clock, history, There

LEMMA MarkType ==
  ASSUME HandlerTypeOK, TablesTypeOK, NEW p \in Handler, NEW i \in Invite, Mark(p, i),
         UNCHANGED <<account, clock>>, joined' \subseteq Invite \X User
  PROVE  TablesTypeOK'
<1>1. usedCount' \in [Invite -> Nat] /\ late' \in [Invite -> Nat]
  BY DEF Mark, TablesTypeOK
<1>2. isActive' \in [Invite -> BOOLEAN]
  <2>1. (seen[p] + 1 < maxUses[i]) \in BOOLEAN
    OBVIOUS
  <2> QED BY <2>1 DEF Mark, TablesTypeOK
<1> QED BY <1>1, <1>2 DEF Mark, TablesTypeOK, clock, There

LEMMA TypeStep ==
  ASSUME TypeOK, Next
  PROVE  TypeOK'
<1>0. HandlerTypeOK /\ TablesTypeOK
  BY TypeParts
<1> SUFFICES HandlerTypeOK' /\ TablesTypeOK'
  BY DEF TypeOK, HandlerTypeOK, TablesTypeOK, Found
<1>1. ASSUME NEW p \in Handler, NEW u \in User, CreateBegin(p, u)
      PROVE  HandlerTypeOK' /\ TablesTypeOK'
  <2>1. seen' \in [Handler -> Nat]
    BY <1>0, <1>1 DEF CreateBegin, HandlerTypeOK
  <2> QED BY <1>0, <1>1, <2>1, BeginType, TablesUnchanged DEF CreateBegin, Step, Found
<1>2. ASSUME NEW p \in Handler, NEW u \in User, RegisterBootstrap(p, u)
      PROVE  HandlerTypeOK' /\ TablesTypeOK'
  <2>1. seen' \in [Handler -> Nat]
    BY <1>0, <1>2 DEF RegisterBootstrap, HandlerTypeOK
  <2> QED BY <1>0, <1>2, <2>1, BeginType, TablesUnchanged DEF RegisterBootstrap, Step, Found
<1>3. ASSUME NEW p \in Handler, NEW i \in Invite, RevokeBegin(p, i)
      PROVE  HandlerTypeOK' /\ TablesTypeOK'
  <2>1. seen' \in [Handler -> Nat] /\ from[i] \in User
    BY <1>0, <1>3 DEF RevokeBegin, HandlerTypeOK, TablesTypeOK
  <2> QED BY <1>0, <1>3, <2>1, BeginType, TablesUnchanged DEF RevokeBegin, Step
<1>4. ASSUME NEW p \in Handler, NEW i \in Invite, NEW u \in User,
             AcceptBegin(p, i, u) \/ RegisterBegin(p, i, u)
      PROVE  HandlerTypeOK' /\ TablesTypeOK'
  <2>1. seen' \in [Handler -> Nat]
    BY <1>0, <1>4 DEF AcceptBegin, RegisterBegin, HandlerTypeOK, TablesTypeOK
  <2> QED BY <1>0, <1>4, <2>1, BeginType, TablesUnchanged
          DEF AcceptBegin, RegisterBegin, Step
<1>5. ASSUME NEW p \in Handler, CreateMonth(p)
      PROVE  HandlerTypeOK' /\ TablesTypeOK'
  BY <1>0, <1>5, EndType, GotoType, TablesUnchanged DEF CreateMonth, Step, Found
<1>6. ASSUME NEW p \in Handler, CreateActive(p)
      PROVE  HandlerTypeOK' /\ TablesTypeOK'
  BY <1>0, <1>6, EndType, GotoType, TablesUnchanged DEF CreateActive, Step, Found
<1>7. ASSUME NEW p \in Handler, NEW n \in 1..MaxUses, CreateRow(p, n)
      PROVE  HandlerTypeOK' /\ TablesTypeOK'
  <2>1. usr[p] \in User
    BY <1>0, <1>7 DEF CreateRow, HandlerTypeOK
  <2> QED BY <1>0, <1>7, <2>1, EndType, NewRowType DEF CreateRow
<1>8. ASSUME NEW p \in Handler, RevokeWrite(p)
      PROVE  HandlerTypeOK' /\ TablesTypeOK'
  <2>1. HandlerTypeOK'
    BY <1>0, <1>8, EndType DEF RevokeWrite
  <2>2. inv[p] \in Invite
    BY <1>0, <1>8 DEF RevokeWrite, HandlerTypeOK, Found
  <2>3. TablesTypeOK'
    BY <1>0, <1>8, <2>2 DEF RevokeWrite, TablesTypeOK, clock, There
  <2> QED BY <2>1, <2>3
<1>9. ASSUME NEW p \in Handler, AcceptMark(p)
      PROVE  HandlerTypeOK' /\ TablesTypeOK'
  <2>1. HandlerTypeOK'
    BY <1>0, <1>9, EndType DEF AcceptMark
  <2>2. inv[p] \in Invite /\ usr[p] \in User
    BY <1>0, <1>9 DEF AcceptMark, HandlerTypeOK, Found
  <2>3. CASE There(inv[p])
    <3>1. joined' \subseteq Invite \X User
      BY <1>0, <1>9, <2>2, <2>3 DEF AcceptMark, TablesTypeOK
    <3> QED BY <1>0, <1>9, <2>1, <2>2, <2>3, <3>1, MarkType DEF AcceptMark
  <2>4. CASE ~There(inv[p])
    BY <1>0, <1>9, <2>1, <2>4, TablesUnchanged DEF AcceptMark
  <2> QED BY <2>3, <2>4
<1>10. ASSUME NEW p \in Handler, RegisterUser(p)
       PROVE  HandlerTypeOK' /\ TablesTypeOK'
  <2>1. usr[p] \in User /\ inv[p] \in Invite \cup {0}
    BY <1>0, <1>10 DEF RegisterUser, HandlerTypeOK
  <2>2. HandlerTypeOK'
    BY <1>0, <1>10, <2>1, EndType, GotoType DEF RegisterUser, Step
  <2>3. TablesTypeOK'
    BY <1>0, <1>10, <2>1 DEF RegisterUser, TablesTypeOK, invites, clock, history, There
  <2> QED BY <2>2, <2>3
<1>11. ASSUME NEW p \in Handler, RegisterMark(p)
       PROVE  HandlerTypeOK' /\ TablesTypeOK'
  <2>1. inv[p] \in Invite
    BY <1>0, <1>11 DEF RegisterMark, HandlerTypeOK, Found
  <2>2. HandlerTypeOK'
    BY <1>0, <1>11, <2>1, EndType, GotoType DEF RegisterMark, Step
  <2>3. joined' \subseteq Invite \X User
    BY <1>0, <1>11 DEF RegisterMark, TablesTypeOK
  <2>4. TablesTypeOK'
    BY <1>0, <1>11, <2>1, <2>3, MarkType, TablesUnchanged DEF RegisterMark
  <2> QED BY <2>2, <2>4
<1>12. ASSUME NEW p \in Handler, RegisterConnect(p)
       PROVE  HandlerTypeOK' /\ TablesTypeOK'
  <2>1. inv[p] \in Invite /\ usr[p] \in User
    BY <1>0, <1>12 DEF RegisterConnect, HandlerTypeOK, Found
  <2>2. TablesTypeOK'
    BY <1>0, <1>12, <2>1
       DEF RegisterConnect, TablesTypeOK, invites, clock, history, There
  <2> QED BY <1>0, <1>12, <2>2, EndType DEF RegisterConnect
<1>13. ASSUME NEW u \in User, WaitlistInvite(u)
       PROVE  HandlerTypeOK' /\ TablesTypeOK'
  <2>1. HandlerTypeOK'
    BY <1>0, <1>13 DEF WaitlistInvite, HandlerTypeOK, locals
  <2> QED BY <1>0, <1>13, <2>1, NewRowType, BoundsType DEF WaitlistInvite
<1>14. ASSUME NEW u \in User, Clear(u)
       PROVE  HandlerTypeOK' /\ TablesTypeOK'
  <2>1. HandlerTypeOK'
    BY <1>0, <1>14 DEF Clear, HandlerTypeOK, locals
  <2>2. TablesTypeOK'
    BY <1>0, <1>14 DEF Clear, TablesTypeOK, clock, history, There
  <2> QED BY <2>1, <2>2
<1>15. ASSUME NEW i \in Invite, Expire(i)
       PROVE  HandlerTypeOK' /\ TablesTypeOK'
  BY <1>0, <1>15 DEF Expire, HandlerTypeOK, TablesTypeOK, locals, invites, history, There
<1>16. ASSUME Age
       PROVE  HandlerTypeOK' /\ TablesTypeOK'
  <2>1. aged + 1 \in 0..MaxInvites
    BY <1>0, <1>16, BoundsType DEF Age, TablesTypeOK
  <2> QED BY <1>0, <1>16, <2>1
          DEF Age, HandlerTypeOK, TablesTypeOK, locals, invites, history, There
<1>17. ASSUME Restart
       PROVE  HandlerTypeOK' /\ TablesTypeOK'
  BY <1>0, <1>17, TablesUnchanged DEF Restart, HandlerTypeOK, Step, Found
<1> QED BY <1>1, <1>2, <1>3, <1>4, <1>5, <1>6, <1>7, <1>8, <1>9, <1>10,
           <1>11, <1>12, <1>13, <1>14, <1>15, <1>16, <1>17 DEF Next

(***************************************************************************)
(* The state of the invites keeps its type.                                *)
(***************************************************************************)
THEOREM InvitesTypeCorrect == Spec => []TypeOK
<1>1. Init => TypeOK
  BY BoundsType, InvitesAssumption DEF Init, TypeOK, Step, There
<1>2. TypeOK /\ [Next]_vars => TypeOK'
  <2>1. TypeOK /\ UNCHANGED vars => TypeOK'
    BY DEF TypeOK, vars, invites, clock, locals, history, There
  <2> QED BY <2>1, TypeStep
<1> QED BY <1>1, <1>2, PTL DEF Spec

-----------------------------------------------------------------------------
(* The uses of an invite *)

\* An invite that is yet to be created was neither used nor revoked.
FreshInv ==
  \A i \in Invite : i > lastId =>
    row[i] = "none" /\ usedCount[i] = 0 /\ i \notin revoked

LEMMA FreshStep ==
  ASSUME TypeOK, FreshInv, Next
  PROVE  FreshInv'
<1>1. ASSUME NEW u, NEW n, NewRow(u, n), UNCHANGED revoked
      PROVE  FreshInv'
  BY <1>1, BoundsType DEF NewRow, FreshInv, TypeOK
<1>2. ASSUME NEW p \in Handler, NEW i \in Invite, Mark(p, i)
      PROVE  FreshInv'
  <2>1. ~(i > lastId)
    BY <1>2 DEF Mark, FreshInv, There
  <2> QED BY <1>2, <2>1 DEF Mark, FreshInv, TypeOK
<1>3. ASSUME NEW p \in Handler, RevokeWrite(p)
      PROVE  FreshInv'
  <2>1. inv[p] \in Invite /\ (There(inv[p]) => ~(inv[p] > lastId))
    BY <1>3 DEF RevokeWrite, FreshInv, There, TypeOK
  <2> QED BY <1>3, <2>1 DEF RevokeWrite, FreshInv
<1>4. ASSUME NEW u \in User, Clear(u)
      PROVE  FreshInv'
  BY <1>4 DEF Clear, FreshInv, There, history
<1>5. ASSUME UNCHANGED <<invites, history>>
      PROVE  FreshInv'
  BY <1>5 DEF FreshInv, invites, history
<1>6. ASSUME NEW p \in Handler, AcceptMark(p)
      PROVE  FreshInv'
  <2>1. inv[p] \in Invite
    BY <1>6 DEF AcceptMark, TypeOK
  <2> QED BY <1>2, <1>5, <1>6, <2>1 DEF AcceptMark
<1>7. ASSUME NEW p \in Handler, RegisterMark(p)
      PROVE  FreshInv'
  <2>1. inv[p] \in Invite
    BY <1>7 DEF RegisterMark, TypeOK
  <2> QED BY <1>2, <1>5, <1>7, <2>1 DEF RegisterMark
<1> QED BY <1>1, <1>3, <1>4, <1>5, <1>6, <1>7
        DEF Next, CreateBegin, RegisterBootstrap, RevokeBegin, AcceptBegin,
            RegisterBegin, CreateMonth, CreateActive, CreateRow, RegisterUser,
            RegisterConnect, WaitlistInvite, Expire, Age, Restart, history

(***************************************************************************)
(* An invite is neither used nor revoked before it exists.                 *)
(***************************************************************************)
THEOREM InvitesFresh == Spec => []FreshInv
<1>1. Init => FreshInv
  BY DEF Init, FreshInv
<1>2. TypeOK /\ FreshInv /\ [Next]_vars => FreshInv'
  <2>1. FreshInv /\ UNCHANGED vars => FreshInv'
    BY DEF FreshInv, vars, invites, history
  <2> QED BY <2>1, FreshStep
<1> QED BY <1>1, <1>2, InvitesTypeCorrect, PTL DEF Spec

\* What a step can mean to one invite: it leaves the invite alone, or
\* creates it; a request finds it; one that had found it marks it; it is
\* revoked.
Keeps(i) ==
  /\ usedCount'[i] = usedCount[i] /\ late'[i] = late[i]
  /\ i \in revoked' <=> i \in revoked
  /\ Holding(i)' \subseteq Holding(i)
  /\ i > lastId \/ (maxUses'[i] = maxUses[i] /\ isActive'[i] = isActive[i])

Finds(i) == Usable(i) /\ UNCHANGED <<invites, history>>

Marks(i) ==
  \E p \in Holding(i) : Mark(p, i) /\ Holding(i)' \subseteq Holding(i) \ {p}

Revokes(i) ==
  /\ \E p \in Handler : Holding(i)' \subseteq Holding(i) \ {p}
  /\ ~isActive'[i] /\ revoked' = revoked \cup {i}
  /\ UNCHANGED <<usedCount, maxUses, late>>

LEMMA HoldingBegin ==
  ASSUME TypeOK, NEW i \in Invite, NEW p \in Handler, NEW u, NEW j, NEW step,
         Begin(p, u, j, step), step \in Marking => j # i
  PROVE  Holding(i)' \subseteq Holding(i)
  BY DEF Begin, Holding, TypeOK, Marking

LEMMA HoldingEnd ==
  ASSUME TypeOK, NEW i \in Invite, NEW p \in Handler, End(p)
  PROVE  Holding(i)' \subseteq Holding(i) \ {p}
  BY DEF End, Holding, TypeOK, Marking

LEMMA HoldingGoto ==
  ASSUME TypeOK, NEW i \in Invite, NEW p \in Handler, NEW step, Goto(p, step),
         step \in Marking => pc[p] \in Marking
  PROVE  /\ Holding(i)' \subseteq Holding(i)
         /\ step \notin Marking => Holding(i)' \subseteq Holding(i) \ {p}
  BY DEF Goto, Holding, TypeOK

LEMMA UseStep ==
  ASSUME TypeOK, FreshInv, NEW i \in Invite, Next
  PROVE  Keeps(i) \/ Finds(i) \/ Marks(i) \/ Revokes(i)
<1>0. UNCHANGED <<invites, history>> /\ Holding(i)' \subseteq Holding(i) => Keeps(i)
  BY DEF Keeps, invites, history
<1>1. ASSUME NEW p \in Handler, NEW u \in User,
             CreateBegin(p, u) \/ RegisterBootstrap(p, u)
      PROVE  Keeps(i)
  BY <1>0, <1>1, HoldingBegin, BoundsType
     DEF CreateBegin, RegisterBootstrap, Marking
<1>2. ASSUME NEW p \in Handler, NEW j \in Invite, RevokeBegin(p, j)
      PROVE  Keeps(i)
  BY <1>0, <1>2, HoldingBegin DEF RevokeBegin, Marking
<1>3. ASSUME NEW p \in Handler, NEW j \in Invite, NEW u \in User,
             AcceptBegin(p, j, u) \/ RegisterBegin(p, j, u)
      PROVE  Keeps(i) \/ Finds(i)
  BY <1>0, <1>3, HoldingBegin DEF AcceptBegin, RegisterBegin, Finds
<1>4. ASSUME NEW p \in Handler, CreateMonth(p) \/ CreateActive(p)
      PROVE  Keeps(i)
  BY <1>0, <1>4, HoldingEnd, HoldingGoto DEF CreateMonth, CreateActive, Marking
<1>5. ASSUME NEW u, NEW n, NewRow(u, n), UNCHANGED history,
             Holding(i)' \subseteq Holding(i)
      PROVE  Keeps(i)
  <2>1. i > lastId \/ i # lastId + 1
    BY BoundsType DEF TypeOK
  <2>2. i # lastId + 1 => maxUses'[i] = maxUses[i] /\ isActive'[i] = isActive[i]
    BY <1>5 DEF NewRow, TypeOK
  <2>3. usedCount' = usedCount /\ late' = late /\ revoked' = revoked
    BY <1>5 DEF NewRow, history
  <2> QED BY <1>5, <2>1, <2>2, <2>3 DEF Keeps
<1>6. ASSUME NEW p \in Handler, NEW n \in 1..MaxUses, CreateRow(p, n)
      PROVE  Keeps(i)
  BY <1>5, <1>6, HoldingEnd DEF CreateRow
<1>7. ASSUME NEW u \in User, WaitlistInvite(u)
      PROVE  Keeps(i)
  BY <1>5, <1>7 DEF WaitlistInvite, locals, Holding
<1>8. ASSUME NEW p \in Handler, RevokeWrite(p)
      PROVE  Keeps(i) \/ Revokes(i)
  <2>1. Holding(i)' \subseteq Holding(i) \ {p}
    BY <1>8, HoldingEnd DEF RevokeWrite
  <2>2. CASE There(inv[p]) /\ inv[p] = i
    BY <1>8, <2>1, <2>2 DEF RevokeWrite, Revokes, TypeOK
  <2>3. CASE There(inv[p]) /\ inv[p] # i
    BY <1>8, <2>1, <2>3 DEF RevokeWrite, Keeps, TypeOK
  <2>4. CASE ~There(inv[p])
    BY <1>8, <2>1, <2>4 DEF RevokeWrite, Keeps
  <2> QED BY <2>2, <2>3, <2>4
<1>9. ASSUME NEW p \in Handler, pc[p] \in Marking, inv[p] \in Invite,
             Mark(p, inv[p]), Holding(i)' \subseteq Holding(i) \ {p}
      PROVE  Keeps(i) \/ Marks(i)
  <2>1. CASE inv[p] = i
    BY <1>9, <2>1 DEF Marks, Holding
  <2>2. CASE inv[p] # i
    BY <1>9, <2>2 DEF Mark, Keeps, TypeOK
  <2> QED BY <2>1, <2>2
<1>10. ASSUME NEW p \in Handler, AcceptMark(p)
       PROVE  Keeps(i) \/ Marks(i)
  <2>1. /\ Holding(i)' \subseteq Holding(i) \ {p}
        /\ pc[p] \in Marking /\ inv[p] \in Invite
    BY <1>10, HoldingEnd DEF AcceptMark, TypeOK, Marking
  <2> QED BY <1>0, <1>9, <1>10, <2>1 DEF AcceptMark
<1>11. ASSUME NEW p \in Handler, RegisterUser(p)
       PROVE  Keeps(i)
  BY <1>0, <1>11, HoldingEnd, HoldingGoto DEF RegisterUser, Marking
<1>12. ASSUME NEW p \in Handler, RegisterMark(p)
       PROVE  Keeps(i) \/ Marks(i)
  <2>1. /\ Holding(i)' \subseteq Holding(i) \ {p}
        /\ pc[p] \in Marking /\ inv[p] \in Invite
    BY <1>12, HoldingEnd, HoldingGoto DEF RegisterMark, TypeOK, Marking
  <2> QED BY <1>0, <1>9, <1>12, <2>1 DEF RegisterMark
<1>13. ASSUME NEW p \in Handler, RegisterConnect(p)
       PROVE  Keeps(i)
  BY <1>0, <1>13, HoldingEnd DEF RegisterConnect
<1>14. ASSUME NEW u \in User, Clear(u)
       PROVE  Keeps(i)
  BY <1>14 DEF Clear, Keeps, Holding, locals, history
<1>15. ASSUME (\E j \in Invite : Expire(j)) \/ Age
       PROVE  Keeps(i)
  BY <1>0, <1>15 DEF Expire, Age, Holding, locals
<1>16. ASSUME Restart
       PROVE  Keeps(i)
  <2>1. Holding(i)' \subseteq Holding(i)
    BY <1>16 DEF Restart, Holding, Marking
  <2> QED BY <1>0, <1>16, <2>1 DEF Restart
<1> QED BY <1>1, <1>2, <1>3, <1>4, <1>6, <1>7, <1>8, <1>10, <1>11, <1>12,
           <1>13, <1>14, <1>15, <1>16 DEF Next

LEMMA HoldingType ==
  ASSUME NEW i
  PROVE  /\ IsFiniteSet(Handler) /\ IsFiniteSet(Holding(i)) /\ IsFiniteSet(Holding(i)')
         /\ Cardinality(Holding(i)) \in Nat /\ Cardinality(Holding(i)') \in Nat
         /\ Cardinality(Handler) \in Nat
         /\ Cardinality(Holding(i)) <= Cardinality(Handler)
         /\ Cardinality(Holding(i)') <= Cardinality(Handler)
<1>1. Holding(i) \in SUBSET Handler /\ Holding(i)' \in SUBSET Handler
  BY DEF Holding
<1> QED BY <1>1, InvitesAssumption, NoMore

WithinUses(i) ==
  usedCount[i] + Cardinality(Holding(i)) <= maxUses[i] - 1 + Cardinality(Handler)

LEMMA UsesStep ==
  ASSUME TypeOK, FreshInv, NEW i \in Invite, WithinUses(i), Next, TypeOK'
  PROVE  WithinUses(i)'
<1>0. /\ usedCount[i] \in Nat /\ usedCount'[i] \in Nat
      /\ maxUses[i] \in Nat /\ maxUses[i] >= 1 /\ maxUses'[i] \in Nat /\ maxUses'[i] >= 1
  BY DEF TypeOK
<1>1. CASE Keeps(i)
  <2>1. Cardinality(Holding(i)') <= Cardinality(Holding(i))
    BY <1>1, HoldingType, NoMore DEF Keeps
  <2>2. CASE i > lastId
    <3>1. usedCount'[i] = 0
      BY <1>1, <2>2 DEF Keeps, FreshInv
    <3> QED BY <1>0, <3>1, HoldingType DEF WithinUses
  <2>3. CASE maxUses'[i] = maxUses[i]
    <3>1. usedCount'[i] = usedCount[i]
      BY <1>1 DEF Keeps
    <3> QED BY <1>0, <2>1, <2>3, <3>1, HoldingType DEF WithinUses
  <2> QED BY <1>1, <2>2, <2>3 DEF Keeps
<1>2. CASE Finds(i)
  <2>1. usedCount'[i] < maxUses'[i]
    BY <1>2 DEF Finds, Usable, invites
  <2> QED BY <1>0, <2>1, HoldingType DEF WithinUses
<1>3. CASE Marks(i)
  <2>1. PICK p \in Holding(i) : Mark(p, i) /\ Holding(i)' \subseteq Holding(i) \ {p}
    BY <1>3 DEF Marks
  <2>2. usedCount'[i] = usedCount[i] + 1 /\ maxUses'[i] = maxUses[i]
    BY <2>1 DEF Mark, TypeOK
  <2>3. Cardinality(Holding(i)') <= Cardinality(Holding(i)) - 1
    BY <2>1, HoldingType, OneLess
  <2> QED BY <1>0, <2>2, <2>3, HoldingType DEF WithinUses
<1>4. CASE Revokes(i)
  <2>1. Cardinality(Holding(i)') <= Cardinality(Holding(i))
    BY <1>4, HoldingType, NoMore DEF Revokes
  <2>2. usedCount'[i] = usedCount[i] /\ maxUses'[i] = maxUses[i]
    BY <1>4 DEF Revokes
  <2> QED BY <1>0, <2>1, <2>2, HoldingType DEF WithinUses
<1> QED BY <1>1, <1>2, <1>3, <1>4, UseStep

(***************************************************************************)
(* The uses of an invite, with those under way, exceed maxUses by less     *)
(* than the number of requests served at one time.                         *)
(***************************************************************************)
THEOREM InviteUsesBounded == Spec => []BoundedUses
<1> DEFINE AllWithin == \A i \in Invite : WithinUses(i)
<1>1. Init => AllWithin
  <2> SUFFICES ASSUME Init, NEW i \in Invite
               PROVE  WithinUses(i)
    OBVIOUS
  <2>1. usedCount[i] = 0 /\ maxUses[i] = 1
    BY DEF Init
  <2> QED BY <2>1, HoldingType DEF WithinUses
<1>2. TypeOK /\ FreshInv /\ AllWithin /\ TypeOK' /\ [Next]_vars => AllWithin'
  <2>1. AllWithin /\ UNCHANGED vars => AllWithin'
    BY DEF WithinUses, Holding, vars, invites, locals
  <2> QED BY <2>1, UsesStep
<1>3. AllWithin => BoundedUses
  BY DEF WithinUses, BoundedUses
<1> QED BY <1>1, <1>2, <1>3, InvitesTypeCorrect, InvitesFresh, PTL DEF Spec

(***************************************************************************)
(* Served one at a time, requests never use an invite too often.           *)
(***************************************************************************)
THEOREM SerialUsesWithinLimit ==
  ASSUME Cardinality(Handler) = 1
  PROVE  Spec => [](\A i \in Invite : usedCount[i] <= maxUses[i])
<1>1. TypeOK /\ BoundedUses => \A i \in Invite : usedCount[i] <= maxUses[i]
  <2> SUFFICES ASSUME TypeOK, BoundedUses, NEW i \in Invite
               PROVE  usedCount[i] <= maxUses[i]
    OBVIOUS
  <2>1. usedCount[i] \in Nat /\ maxUses[i] \in Nat
    BY DEF TypeOK
  <2> QED BY <2>1, HoldingType DEF BoundedUses
<1> QED BY <1>1, InviteUsesBounded, InvitesTypeCorrect, PTL

RevokedInv(i) ==
  /\ i \notin revoked => late[i] = 0
  /\ i \in revoked /\ maxUses[i] = 1 =>
       /\ ~isActive[i]
       /\ late[i] + Cardinality(Holding(i)) <= Cardinality(Handler) - 1

LEMMA RevokedStep ==
  ASSUME TypeOK, FreshInv, NEW i \in Invite, RevokedInv(i), Next
  PROVE  RevokedInv(i)'
<1>0. late[i] \in Nat /\ maxUses[i] \in Nat
  BY DEF TypeOK
<1>1. CASE Keeps(i)
  <2>1. Cardinality(Holding(i)') <= Cardinality(Holding(i))
    BY <1>1, HoldingType, NoMore DEF Keeps
  <2>2. late'[i] = late[i] /\ (i \in revoked' <=> i \in revoked)
    BY <1>1 DEF Keeps
  <2>3. CASE i \in revoked
    <3>1. maxUses'[i] = maxUses[i] /\ isActive'[i] = isActive[i]
      BY <1>1, <2>3 DEF Keeps, FreshInv
    <3> QED BY <1>0, <2>1, <2>2, <2>3, <3>1, HoldingType DEF RevokedInv
  <2>4. CASE i \notin revoked
    BY <2>2, <2>4 DEF RevokedInv
  <2> QED BY <2>3, <2>4
<1>2. CASE Finds(i)
  BY <1>2 DEF Finds, Usable, RevokedInv, invites, history
<1>3. CASE Marks(i)
  <2>1. PICK p \in Holding(i) : Mark(p, i) /\ Holding(i)' \subseteq Holding(i) \ {p}
    BY <1>3 DEF Marks
  <2>2. /\ revoked' = revoked /\ maxUses' = maxUses
        /\ late' = IF i \in revoked THEN [late EXCEPT ![i] = @ + 1] ELSE late
        /\ isActive' = [isActive EXCEPT ![i] = seen[p] + 1 < maxUses[i]]
    BY <2>1 DEF Mark
  <2>3. CASE i \in revoked /\ maxUses[i] = 1
    <3>1. late'[i] = late[i] + 1
      BY <2>2, <2>3 DEF TypeOK
    <3>2. ~isActive'[i]
      <4>1. seen[p] \in Nat
        BY <2>1 DEF Holding, TypeOK
      <4>2. ~(seen[p] + 1 < maxUses[i])
        BY <2>3, <4>1
      <4> QED BY <2>2, <4>2 DEF TypeOK
    <3>3. Cardinality(Holding(i)') <= Cardinality(Holding(i)) - 1
      BY <2>1, HoldingType, OneLess
    <3>4. late'[i] + Cardinality(Holding(i)') <= Cardinality(Handler) - 1
      BY <1>0, <2>3, <3>1, <3>3, HoldingType DEF RevokedInv
    <3> QED BY <2>2, <2>3, <3>2, <3>4 DEF RevokedInv
  <2>4. CASE ~(i \in revoked /\ maxUses[i] = 1)
    BY <2>2, <2>4 DEF RevokedInv
  <2> QED BY <2>3, <2>4
<1>4. CASE Revokes(i)
  <2>1. PICK p \in Handler : Holding(i)' \subseteq Holding(i) \ {p}
    BY <1>4 DEF Revokes
  <2>2. ~isActive'[i] /\ i \in revoked' /\ late' = late /\ maxUses' = maxUses
    BY <1>4 DEF Revokes
  <2>3. CASE i \in revoked
    <3>1. Cardinality(Holding(i)') <= Cardinality(Holding(i))
      BY <2>1, HoldingType, NoMore
    <3> QED BY <1>0, <2>2, <2>3, <3>1, HoldingType DEF RevokedInv
  <2>4. CASE i \notin revoked
    <3>1. Cardinality(Holding(i)') <= Cardinality(Handler) - 1
      <4>1. Holding(i)' \in SUBSET (Handler \ {p})
        BY <2>1 DEF Holding
      <4> QED BY <4>1, HoldingType, OneLess
    <3> QED BY <2>2, <2>4, <3>1, HoldingType DEF RevokedInv
  <2> QED BY <2>3, <2>4
<1> QED BY <1>1, <1>2, <1>3, <1>4, UseStep

(***************************************************************************)
(* An invite for one use stays inactive once it was revoked, and only the  *)
(* requests that had found it before are served with it.                   *)
(***************************************************************************)
THEOREM RevocationHolds == Spec => []RevokedStaysRevoked
<1> DEFINE AllRevoked == \A i \in Invite : RevokedInv(i)
<1>1. Init => AllRevoked
  BY DEF Init, RevokedInv
<1>2. TypeOK /\ FreshInv /\ AllRevoked /\ [Next]_vars => AllRevoked'
  <2>1. AllRevoked /\ UNCHANGED vars => AllRevoked'
    BY DEF RevokedInv, Holding, vars, invites, locals, history
  <2> QED BY <2>1, RevokedStep
<1>3. TypeOK /\ AllRevoked => RevokedStaysRevoked
  BY DEF RevokedInv, RevokedStaysRevoked, TypeOK
<1> QED BY <1>1, <1>2, <1>3, InvitesTypeCorrect, InvitesFresh, PTL DEF Spec

-----------------------------------------------------------------------------
(* The contacts made with an invite *)

\* Those connected by the invite, or about to be.
ServedBy(i) ==
  {u \in User : \/ <<i, u>> \in joined
                \/ \E p \in Handler : /\ pc[p] = "regConnect"
                                      /\ inv[p] = i /\ usr[p] = u}

CountedInv(i) == IsFiniteSet(ServedBy(i)) /\ Cardinality(ServedBy(i)) <= usedCount[i]

\* No handler is about to connect that was not.
NoneConnects ==
  \A p \in Handler : pc'[p] = "regConnect" =>
    pc[p] = "regConnect" /\ inv'[p] = inv[p] /\ usr'[p] = usr[p]

LEMMA CountedQuiet ==
  ASSUME TypeOK, NEW i \in Invite, CountedInv(i), NoneConnects, joined' = joined,
         usedCount' = usedCount
  PROVE  CountedInv(i)'
<1>1. ServedBy(i)' \in SUBSET ServedBy(i)
  BY DEF NoneConnects, ServedBy
<1>2. IsFiniteSet(ServedBy(i)') /\ Cardinality(ServedBy(i)') <= Cardinality(ServedBy(i))
        /\ Cardinality(ServedBy(i)') \in Nat /\ Cardinality(ServedBy(i)) \in Nat
  BY <1>1, NoMore DEF CountedInv
<1>3. /\ Cardinality(ServedBy(i)) <= usedCount[i]
      /\ usedCount'[i] = usedCount[i] /\ usedCount[i] \in Nat
  BY DEF CountedInv, TypeOK
<1>4. Cardinality(ServedBy(i)') <= usedCount'[i]
  BY <1>2, <1>3
<1> QED BY <1>2, <1>4 DEF CountedInv

\* A user is counted by the step that connects him, or lets him be connected.
LEMMA CountedMark ==
  ASSUME TypeOK, NEW i \in Invite, CountedInv(i), NEW p \in Handler, Mark(p, inv[p]),
         inv[p] \in Invite,
         ServedBy(i)' \subseteq IF inv[p] = i THEN ServedBy(i) \cup {usr[p]} ELSE ServedBy(i)
  PROVE  CountedInv(i)'
<1>0. usedCount[i] \in Nat /\ Cardinality(ServedBy(i)) <= usedCount[i] /\ IsFiniteSet(ServedBy(i))
  BY DEF TypeOK, CountedInv
<1>1. CASE inv[p] = i
  <2>1. usedCount'[i] = usedCount[i] + 1
    BY <1>1 DEF Mark, TypeOK
  <2>2. /\ IsFiniteSet(ServedBy(i)') /\ Cardinality(ServedBy(i)) \in Nat
        /\ Cardinality(ServedBy(i)') \in Nat
        /\ Cardinality(ServedBy(i)') <= Cardinality(ServedBy(i)) + 1
    BY <1>0, <1>1, OneMore
  <2>3. Cardinality(ServedBy(i)') <= usedCount'[i]
    BY <1>0, <2>1, <2>2
  <2> QED BY <2>2, <2>3 DEF CountedInv
<1>2. CASE inv[p] # i
  <2>1. usedCount'[i] = usedCount[i]
    BY <1>2 DEF Mark, TypeOK
  <2>2. /\ IsFiniteSet(ServedBy(i)') /\ Cardinality(ServedBy(i)) \in Nat
        /\ Cardinality(ServedBy(i)') \in Nat
        /\ Cardinality(ServedBy(i)') <= Cardinality(ServedBy(i))
    BY <1>0, <1>2, NoMore
  <2>3. Cardinality(ServedBy(i)') <= usedCount'[i]
    BY <1>0, <2>1, <2>2
  <2> QED BY <2>2, <2>3 DEF CountedInv
<1> QED BY <1>1, <1>2

LEMMA CountedStep ==
  ASSUME TypeOK, NEW i \in Invite, CountedInv(i), Next
  PROVE  CountedInv(i)'
<1>1. ASSUME NEW p \in Handler, End(p)
      PROVE  NoneConnects
  BY <1>1 DEF End, NoneConnects, TypeOK
<1>2. ASSUME NEW p \in Handler, NEW step, step # "regConnect", Goto(p, step)
      PROVE  NoneConnects
  BY <1>2 DEF Goto, NoneConnects, TypeOK
<1>3. ASSUME NEW p \in Handler, NEW u, NEW j, NEW step, step # "regConnect", Begin(p, u, j, step)
      PROVE  NoneConnects
  BY <1>3 DEF Begin, NoneConnects, TypeOK
<1>4. UNCHANGED locals => NoneConnects
  BY DEF locals, NoneConnects
<1>5. ASSUME NEW p \in Handler, NEW u \in User,
             CreateBegin(p, u) \/ RegisterBootstrap(p, u)
      PROVE  CountedInv(i)'
  BY <1>3, <1>5, CountedQuiet DEF CreateBegin, RegisterBootstrap, invites
<1>6. ASSUME NEW p \in Handler, NEW j \in Invite, RevokeBegin(p, j)
      PROVE  CountedInv(i)'
  BY <1>3, <1>6, CountedQuiet DEF RevokeBegin, invites
<1>7. ASSUME NEW p \in Handler, NEW j \in Invite, NEW u \in User,
             AcceptBegin(p, j, u) \/ RegisterBegin(p, j, u)
      PROVE  CountedInv(i)'
  BY <1>3, <1>7, CountedQuiet DEF AcceptBegin, RegisterBegin, invites
<1>8. ASSUME NEW p \in Handler,
             CreateMonth(p) \/ CreateActive(p) \/ RegisterUser(p) \/ RevokeWrite(p)
      PROVE  CountedInv(i)'
  BY <1>1, <1>2, <1>8, CountedQuiet
     DEF CreateMonth, CreateActive, RegisterUser, RevokeWrite, invites
<1>9. ASSUME NEW p \in Handler, NEW n \in 1..MaxUses, CreateRow(p, n)
      PROVE  CountedInv(i)'
  BY <1>1, <1>9, CountedQuiet DEF CreateRow, NewRow
<1>10. ASSUME NEW u \in User, WaitlistInvite(u) \/ Clear(u)
       PROVE  CountedInv(i)'
  BY <1>4, <1>10, CountedQuiet DEF WaitlistInvite, NewRow, Clear
<1>11. ASSUME (\E j \in Invite : Expire(j)) \/ Age
       PROVE  CountedInv(i)'
  BY <1>4, <1>11, CountedQuiet DEF Expire, Age, invites
<1>12. ASSUME Restart
       PROVE  CountedInv(i)'
  <2>1. NoneConnects
    BY <1>12 DEF Restart, NoneConnects
  <2> QED BY <1>12, <2>1, CountedQuiet DEF Restart, invites
<1>13. ASSUME NEW p \in Handler, AcceptMark(p)
       PROVE  CountedInv(i)'
  <2>1. inv[p] \in Invite /\ usr[p] \in User /\ End(p)
    BY <1>13 DEF AcceptMark, TypeOK
  <2>2. CASE There(inv[p])
    <3>1. joined' = joined \/ joined' = joined \cup {<<inv[p], usr[p]>>}
      BY <1>13, <2>2 DEF AcceptMark
    <3>2. ServedBy(i)' \subseteq IF inv[p] = i THEN ServedBy(i) \cup {usr[p]} ELSE ServedBy(i)
      BY <1>1, <2>1, <3>1 DEF NoneConnects, ServedBy
    <3> QED BY <1>13, <2>1, <2>2, <3>2, CountedMark DEF AcceptMark
  <2>3. CASE ~There(inv[p])
    BY <1>1, <1>13, <2>3, CountedQuiet DEF AcceptMark, invites
  <2> QED BY <2>2, <2>3
<1>14. ASSUME NEW p \in Handler, RegisterMark(p)
       PROVE  CountedInv(i)'
  <2>1. inv[p] \in Invite /\ usr[p] \in User /\ joined' = joined
    BY <1>14 DEF RegisterMark, TypeOK
  <2>2. CASE There(inv[p])
    <3>1. Mark(p, inv[p]) /\ Goto(p, "regConnect")
      BY <1>14, <2>2 DEF RegisterMark
    <3>2. ServedBy(i)' \subseteq IF inv[p] = i THEN ServedBy(i) \cup {usr[p]} ELSE ServedBy(i)
      BY <2>1, <3>1 DEF Goto, ServedBy, TypeOK
    <3> QED BY <2>1, <3>1, <3>2, CountedMark
  <2>3. CASE ~There(inv[p])
    BY <1>1, <1>14, <2>1, <2>3, CountedQuiet DEF RegisterMark, invites
  <2> QED BY <2>2, <2>3
<1>15. ASSUME NEW p \in Handler, RegisterConnect(p)
       PROVE  CountedInv(i)'
  <2>1. ServedBy(i)' \in SUBSET ServedBy(i)
    BY <1>15 DEF RegisterConnect, End, ServedBy, TypeOK
  <2>2. IsFiniteSet(ServedBy(i)') /\ Cardinality(ServedBy(i)') <= Cardinality(ServedBy(i))
          /\ Cardinality(ServedBy(i)') \in Nat /\ Cardinality(ServedBy(i)) \in Nat
    BY <2>1, NoMore DEF CountedInv
  <2>3. usedCount'[i] = usedCount[i] /\ usedCount[i] \in Nat
    BY <1>15 DEF RegisterConnect, invites, TypeOK
  <2> QED BY <2>2, <2>3 DEF CountedInv
<1> QED BY <1>5, <1>6, <1>7, <1>8, <1>9, <1>10, <1>11, <1>12, <1>13, <1>14, <1>15 DEF Next

(***************************************************************************)
(* Every contact made with an invite was counted as a use of it.           *)
(***************************************************************************)
THEOREM EveryContactIsCounted == Spec => []ContactsAreCounted
<1> DEFINE AllCounted == \A i \in Invite : CountedInv(i)
<1>1. Init => AllCounted
  <2> SUFFICES ASSUME Init, NEW i \in Invite
               PROVE  CountedInv(i)
    OBVIOUS
  <2>1. ServedBy(i) = {} /\ usedCount[i] = 0
    BY DEF Init, ServedBy
  <2> QED BY <2>1, FS_EmptySet DEF CountedInv
<1>2. TypeOK /\ AllCounted /\ [Next]_vars => AllCounted'
  <2>1. AllCounted /\ UNCHANGED vars => AllCounted'
    BY DEF CountedInv, ServedBy, vars, invites, locals
  <2> QED BY <2>1, CountedStep
<1>3. TypeOK /\ AllCounted => ContactsAreCounted
  <2> SUFFICES ASSUME TypeOK, AllCounted, NEW i \in Invite
               PROVE  Cardinality({u \in User : <<i, u>> \in joined}) <= usedCount[i]
    BY DEF ContactsAreCounted
  <2> DEFINE Made == {u \in User : <<i, u>> \in joined}
  <2>1. Made \in SUBSET ServedBy(i)
    BY DEF ServedBy
  <2>2. IsFiniteSet(ServedBy(i)) /\ Cardinality(ServedBy(i)) <= usedCount[i]
    BY DEF CountedInv
  <2>3. usedCount[i] \in Nat
    BY DEF TypeOK
  <2> HIDE DEF Made
  <2>4. /\ Cardinality(Made) <= Cardinality(ServedBy(i))
        /\ Cardinality(Made) \in Nat /\ Cardinality(ServedBy(i)) \in Nat
    BY <2>1, <2>2, NoMore
  <2>5. Cardinality(Made) <= usedCount[i]
    BY <2>2, <2>3, <2>4
  <2> QED BY <2>5 DEF Made
<1> QED BY <1>1, <1>2, <1>3, InvitesTypeCorrect, PTL DEF Spec

-----------------------------------------------------------------------------
(* The two limits on creation.  Each adds up a set of invites, of those    *)
(* the check counts, and the handlers that have passed it.                 *)

LEMMA SumType ==
  ASSUME NEW I \in SUBSET Invite, NEW H \in SUBSET Handler
  PROVE  /\ IsFiniteSet(I) /\ IsFiniteSet(H)
         /\ Cardinality(I) \in Nat /\ Cardinality(H) \in Nat
         /\ Cardinality(Handler) \in Nat /\ Cardinality(H) <= Cardinality(Handler)
<1>1. IsFiniteSet(Invite)
  BY InvitesAssumption, FS_Interval DEF Invite
<1> QED BY <1>1, InvitesAssumption, NoMore

LEMMA CreatingType ==
  ASSUME NEW u
  PROVE  /\ Active(u) \in SUBSET Invite /\ Active(u)' \in SUBSET Invite
         /\ Monthly(u) \in SUBSET Invite /\ Monthly(u)' \in SUBSET Invite
         /\ Creating(u, {"newRow"}) \in SUBSET Handler
         /\ Creating(u, {"newRow"})' \in SUBSET Handler
         /\ Creating(u, {"newActive", "newRow"}) \in SUBSET Handler
         /\ Creating(u, {"newActive", "newRow"})' \in SUBSET Handler
  BY DEF Active, Monthly, Creating

LEMMA CreatingBegin ==
  ASSUME TypeOK, NEW u, NEW steps, NEW p \in Handler, NEW v, NEW j, NEW step,
         Begin(p, v, j, step), step \in steps => v # u
  PROVE  Creating(u, steps)' \subseteq Creating(u, steps)
  BY DEF Begin, Creating, TypeOK

LEMMA CreatingEnd ==
  ASSUME TypeOK, NEW u, NEW steps, "idle" \notin steps, NEW p \in Handler, End(p)
  PROVE  Creating(u, steps)' \subseteq Creating(u, steps) \ {p}
  BY DEF End, Creating, TypeOK

LEMMA CreatingGoto ==
  ASSUME TypeOK, NEW u, NEW steps, NEW p \in Handler, NEW step, Goto(p, step),
         step \in steps /\ usr[p] = u => pc[p] \in steps
  PROVE  Creating(u, steps)' \subseteq Creating(u, steps)
  BY DEF Goto, Creating, TypeOK

\* A step that creates no invite makes none active, unused or younger; one
\* that creates one for somebody else neither.
LEMMA InvitesShrink ==
  ASSUME TypeOK, FreshInv, NEW u \in User \ Admin, Next,
         \A p \in Handler, n \in 1..MaxUses : CreateRow(p, n) => usr[p] # u
  PROVE  Active(u)' \subseteq Active(u) /\ Monthly(u)' \subseteq Monthly(u)
<1>1. ASSUME UNCHANGED <<invites, clock>>
      PROVE  Active(u)' \subseteq Active(u) /\ Monthly(u)' \subseteq Monthly(u)
  BY <1>1 DEF invites, clock, Active, Monthly, There
<1>2. ASSUME NEW v, v # u, NEW n, NewRow(v, n), UNCHANGED clock
      PROVE  Active(u)' \subseteq Active(u) /\ Monthly(u)' \subseteq Monthly(u)
  BY <1>2, BoundsType DEF NewRow, clock, Active, Monthly, There, TypeOK
<1>3. ASSUME NEW p \in Handler, NEW i \in Invite, Mark(p, i), UNCHANGED clock
      PROVE  Active(u)' \subseteq Active(u) /\ Monthly(u)' \subseteq Monthly(u)
  BY <1>3 DEF Mark, clock, Active, Monthly, There, TypeOK
<1>4. ASSUME NEW p \in Handler, RevokeWrite(p)
      PROVE  Active(u)' \subseteq Active(u) /\ Monthly(u)' \subseteq Monthly(u)
  BY <1>4 DEF RevokeWrite, clock, Active, Monthly, There, TypeOK
<1>5. ASSUME NEW v \in User, Clear(v)
      PROVE  Active(u)' \subseteq Active(u) /\ Monthly(u)' \subseteq Monthly(u)
  BY <1>5 DEF Clear, clock, Active, Monthly, There, TypeOK
<1>6. ASSUME NEW i \in Invite, Expire(i)
      PROVE  Active(u)' \subseteq Active(u) /\ Monthly(u)' \subseteq Monthly(u)
  BY <1>6 DEF Expire, invites, Active, Monthly, There
<1>7. ASSUME Age
      PROVE  Active(u)' \subseteq Active(u) /\ Monthly(u)' \subseteq Monthly(u)
  <2>1. \A i \in Invite : i > aged' => i > aged
    BY <1>7, BoundsType DEF Age, TypeOK
  <2> QED BY <1>7, <2>1 DEF Age, invites, Active, Monthly, There
<1>8. ASSUME NEW p \in Handler, NEW n \in 1..MaxUses, CreateRow(p, n)
      PROVE  Active(u)' \subseteq Active(u) /\ Monthly(u)' \subseteq Monthly(u)
  <2>1. usr[p] # u
    BY <1>8
  <2> QED BY <1>2, <1>8, <2>1 DEF CreateRow
<1>9. ASSUME NEW v \in User, WaitlistInvite(v)
      PROVE  Active(u)' \subseteq Active(u) /\ Monthly(u)' \subseteq Monthly(u)
  <2>1. v # u
    BY <1>9 DEF WaitlistInvite
  <2> QED BY <1>2, <1>9, <2>1 DEF WaitlistInvite
<1>10. ASSUME NEW p \in Handler, AcceptMark(p) \/ RegisterMark(p)
       PROVE  Active(u)' \subseteq Active(u) /\ Monthly(u)' \subseteq Monthly(u)
  <2>1. inv[p] \in Invite
    BY <1>10 DEF AcceptMark, RegisterMark, TypeOK
  <2> QED BY <1>1, <1>3, <1>10, <2>1 DEF AcceptMark, RegisterMark
<1> QED BY <1>1, <1>4, <1>5, <1>6, <1>7, <1>8, <1>9, <1>10
        DEF Next, CreateBegin, RegisterBootstrap, RevokeBegin, AcceptBegin, RegisterBegin,
            CreateMonth, CreateActive, RegisterUser, RegisterConnect, Restart

\* The new invite is the only one its creation adds.
LEMMA InviteAdded ==
  ASSUME TypeOK, FreshInv, NEW u, NEW v, NEW n, NewRow(v, n), UNCHANGED clock
  PROVE  /\ Active(u)' \subseteq Active(u) \cup {lastId + 1}
         /\ Monthly(u)' \subseteq Monthly(u) \cup {lastId + 1}
  BY DEF NewRow, clock, Active, Monthly, There, TypeOK

\* The handlers that have passed a check grow by that check alone.
LEMMA CreatingShrink ==
  ASSUME TypeOK, NEW u \in User, Next
  PROVE  /\ (\A p \in Handler : usr[p] = u => ~CreateActive(p)) =>
              Creating(u, {"newRow"})' \subseteq Creating(u, {"newRow"})
         /\ u \in Metered /\ (\A p \in Handler : usr[p] = u => ~CreateMonth(p)) =>
              Creating(u, {"newActive", "newRow"})'
                \subseteq Creating(u, {"newActive", "newRow"})
<1> DEFINE Row == {"newRow"}
           Both == {"newActive", "newRow"}
           Less == /\ Creating(u, Row)' \subseteq Creating(u, Row)
                   /\ Creating(u, Both)' \subseteq Creating(u, Both)
<1>1. ASSUME NEW p \in Handler, End(p)
      PROVE  Less
  BY <1>1, CreatingEnd
<1>2. ASSUME NEW p \in Handler, NEW step, step \notin Both, Goto(p, step)
      PROVE  Less
  BY <1>2, CreatingGoto
<1>3. ASSUME NEW p \in Handler, NEW v, NEW j, NEW step, step \notin Both, Begin(p, v, j, step)
      PROVE  Less
  BY <1>3, CreatingBegin
<1>4. ASSUME UNCHANGED locals
      PROVE  Less
  BY <1>4 DEF locals, Creating
<1>5. ASSUME NEW p \in Handler, NEW v \in User, CreateBegin(p, v)
      PROVE  /\ Creating(u, Row)' \subseteq Creating(u, Row)
             /\ u \in Metered => Creating(u, Both)' \subseteq Creating(u, Both)
  BY <1>5, CreatingBegin DEF CreateBegin
<1>6. ASSUME NEW p \in Handler, CreateMonth(p)
      PROVE  /\ Creating(u, Row)' \subseteq Creating(u, Row)
             /\ usr[p] # u => Creating(u, Both)' \subseteq Creating(u, Both)
  BY <1>1, <1>6, CreatingGoto DEF CreateMonth
<1>7. ASSUME NEW p \in Handler, CreateActive(p)
      PROVE  /\ usr[p] # u => Creating(u, Row)' \subseteq Creating(u, Row)
             /\ Creating(u, Both)' \subseteq Creating(u, Both)
  BY <1>1, <1>7, CreatingGoto DEF CreateActive
<1>8. ASSUME Restart
      PROVE  Less
  BY <1>8 DEF Restart, Creating
<1>9. ASSUME NEW p \in Handler, NEW v \in User, RegisterBootstrap(p, v)
      PROVE  Less
  BY <1>3, <1>9 DEF RegisterBootstrap
<1>10. ASSUME NEW p \in Handler, NEW j \in Invite, RevokeBegin(p, j)
       PROVE  Less
  BY <1>3, <1>10 DEF RevokeBegin
<1>11. ASSUME NEW p \in Handler, NEW j \in Invite, NEW v \in User,
              AcceptBegin(p, j, v) \/ RegisterBegin(p, j, v)
       PROVE  Less
  BY <1>3, <1>11 DEF AcceptBegin, RegisterBegin
<1>12. ASSUME NEW p \in Handler,
              \/ \E n \in 1..MaxUses : CreateRow(p, n)
              \/ RevokeWrite(p) \/ AcceptMark(p) \/ RegisterConnect(p)
       PROVE  Less
  BY <1>1, <1>12 DEF CreateRow, RevokeWrite, AcceptMark, RegisterConnect
<1>13. ASSUME NEW p \in Handler, RegisterUser(p) \/ RegisterMark(p)
       PROVE  Less
  BY <1>1, <1>2, <1>13 DEF RegisterUser, RegisterMark
<1>14. ASSUME \/ \E v \in User : WaitlistInvite(v) \/ Clear(v)
              \/ \E j \in Invite : Expire(j)
              \/ Age
       PROVE  Less
  BY <1>4, <1>14 DEF WaitlistInvite, Clear, Expire, Age
<1> HIDE DEF Less
<1>15. CASE \E p \in Handler, v \in User : CreateBegin(p, v)
  BY <1>5, <1>15
<1>16. CASE \E p \in Handler : CreateMonth(p)
  BY <1>6, <1>16
<1>17. CASE \E p \in Handler : CreateActive(p)
  BY <1>7, <1>17
<1>18. CASE Less
  BY <1>18 DEF Less
<1> QED BY <1>8, <1>9, <1>10, <1>11, <1>12, <1>13, <1>14, <1>15, <1>16, <1>17, <1>18 DEF Next

FewActive(u) ==
  Cardinality(Active(u)) + Cardinality(Creating(u, {"newRow"}))
    <= MaxActive - 1 + Cardinality(Handler)

LEMMA ActiveStep ==
  ASSUME TypeOK, FreshInv, NEW u \in User \ Admin, FewActive(u), Next
  PROVE  FewActive(u)'
<1> DEFINE C == Creating(u, {"newRow"})
<1>0. /\ Cardinality(Active(u)) \in Nat /\ Cardinality(Active(u)') \in Nat
      /\ Cardinality(C) \in Nat /\ Cardinality(C') \in Nat
      /\ Cardinality(C') <= Cardinality(Handler) /\ Cardinality(Handler) \in Nat
  BY CreatingType, SumType
<1>1. ASSUME Active(u)' \subseteq Active(u), C' \subseteq C
      PROVE  FewActive(u)'
  <2>1. Cardinality(Active(u)') + Cardinality(C') <= Cardinality(Active(u)) + Cardinality(C)
    BY <1>1, CreatingType, SumType, SumNoMore
  <2> QED BY <1>0, <2>1, InvitesAssumption DEF FewActive
<1>2. CASE \E p \in Handler : CreateActive(p) /\ usr[p] = u
  <2>1. PICK p \in Handler : CreateActive(p) /\ usr[p] = u
    BY <1>2
  <2>2. Active(u)' = Active(u)
    BY <2>1 DEF CreateActive, invites, clock, Active, There
  <2>3. CASE Cardinality(Active(u)) >= MaxActive
    <3>1. C' \subseteq C
      BY <2>1, <2>3, CreatingEnd DEF CreateActive
    <3> QED BY <1>1, <2>2, <3>1
  <2>4. CASE ~(Cardinality(Active(u)) >= MaxActive)
    BY <1>0, <2>2, <2>4, InvitesAssumption DEF FewActive
  <2> QED BY <2>3, <2>4
<1>3. CASE \E p \in Handler, n \in 1..MaxUses : CreateRow(p, n) /\ usr[p] = u
  <2>1. PICK p \in Handler, n \in 1..MaxUses : CreateRow(p, n) /\ usr[p] = u
    BY <1>3
  <2>2. Active(u)' \subseteq Active(u) \cup {lastId + 1}
    BY <2>1, InviteAdded DEF CreateRow
  <2>3. p \in C /\ C' \subseteq C \ {p}
    <3>1. C' \subseteq C \ {p}
      BY <2>1, CreatingEnd DEF CreateRow
    <3> QED BY <2>1, <3>1 DEF CreateRow, Creating
  <2>4. Cardinality(Active(u)') + Cardinality(C') <= Cardinality(Active(u)) + Cardinality(C)
    <3>1. C \in SUBSET Handler /\ Active(u) \in SUBSET Invite
      BY CreatingType
    <3> HIDE DEF C
    <3> QED BY <2>2, <2>3, <3>1, SumType, SumMoves
  <2> QED BY <1>0, <2>4, InvitesAssumption DEF FewActive
<1>4. CASE /\ \A p \in Handler : usr[p] = u => ~CreateActive(p)
           /\ \A p \in Handler, n \in 1..MaxUses : CreateRow(p, n) => usr[p] # u
  BY <1>1, <1>4, InvitesShrink, CreatingShrink
<1> QED BY <1>2, <1>3, <1>4

(***************************************************************************)
(* The limit on active invites is exceeded by less than the number of      *)
(* requests served at one time.                                            *)
(***************************************************************************)
THEOREM ActiveInvitesBounded == Spec => []BoundedActive
<1> DEFINE AllFew == \A u \in User \ Admin : FewActive(u)
<1>1. Init => AllFew
  <2> SUFFICES ASSUME Init, NEW u \in User \ Admin
               PROVE  FewActive(u)
    OBVIOUS
  <2>1. Active(u) = {} /\ Creating(u, {"newRow"}) = {}
    BY DEF Init, Active, There, Creating
  <2>2. Cardinality(Handler) \in Nat
    BY CreatingType, SumType
  <2> QED BY <2>1, <2>2, FS_EmptySet, InvitesAssumption DEF FewActive
<1>2. TypeOK /\ FreshInv /\ AllFew /\ [Next]_vars => AllFew'
  <2>1. AllFew /\ UNCHANGED vars => AllFew'
    BY DEF FewActive, Active, There, Creating, vars, invites, clock, locals
  <2> QED BY <2>1, ActiveStep
<1>3. AllFew => BoundedActive
  BY DEF FewActive, BoundedActive
<1> QED BY <1>1, <1>2, <1>3, InvitesTypeCorrect, InvitesFresh, PTL DEF Spec

FewMonthly(u) ==
  Cardinality(Monthly(u)) + Cardinality(Creating(u, {"newActive", "newRow"}))
    <= MaxMonthly - 1 + Cardinality(Handler)

LEMMA MonthlyStep ==
  ASSUME TypeOK, FreshInv, NEW u \in Metered \ Admin, FewMonthly(u), Next
  PROVE  FewMonthly(u)'
<1> DEFINE C == Creating(u, {"newActive", "newRow"})
<1>0. /\ Cardinality(Monthly(u)) \in Nat /\ Cardinality(Monthly(u)') \in Nat
      /\ Cardinality(C) \in Nat /\ Cardinality(C') \in Nat
      /\ Cardinality(C') <= Cardinality(Handler) /\ Cardinality(Handler) \in Nat
  BY CreatingType, SumType
<1>1. ASSUME Monthly(u)' \subseteq Monthly(u), C' \subseteq C
      PROVE  FewMonthly(u)'
  <2>1. Cardinality(Monthly(u)') + Cardinality(C') <= Cardinality(Monthly(u)) + Cardinality(C)
    BY <1>1, CreatingType, SumType, SumNoMore
  <2> QED BY <1>0, <2>1, InvitesAssumption DEF FewMonthly
<1>2. CASE \E p \in Handler : CreateMonth(p) /\ usr[p] = u
  <2>1. PICK p \in Handler : CreateMonth(p) /\ usr[p] = u
    BY <1>2
  <2>2. Monthly(u)' = Monthly(u)
    BY <2>1 DEF CreateMonth, invites, clock, Monthly, There
  <2>3. CASE Cardinality(Monthly(u)) >= MaxMonthly
    <3>1. C' \subseteq C
      BY <2>1, <2>3, CreatingEnd DEF CreateMonth
    <3> QED BY <1>1, <2>2, <3>1
  <2>4. CASE ~(Cardinality(Monthly(u)) >= MaxMonthly)
    BY <1>0, <2>2, <2>4, InvitesAssumption DEF FewMonthly
  <2> QED BY <2>3, <2>4
<1>3. CASE \E p \in Handler, n \in 1..MaxUses : CreateRow(p, n) /\ usr[p] = u
  <2>1. PICK p \in Handler, n \in 1..MaxUses : CreateRow(p, n) /\ usr[p] = u
    BY <1>3
  <2>2. Monthly(u)' \subseteq Monthly(u) \cup {lastId + 1}
    BY <2>1, InviteAdded DEF CreateRow
  <2>3. p \in C /\ C' \subseteq C \ {p}
    <3>1. C' \subseteq C \ {p}
      BY <2>1, CreatingEnd DEF CreateRow
    <3> QED BY <2>1, <3>1 DEF CreateRow, Creating
  <2>4. Cardinality(Monthly(u)') + Cardinality(C') <= Cardinality(Monthly(u)) + Cardinality(C)
    <3>1. C \in SUBSET Handler /\ Monthly(u) \in SUBSET Invite
      BY CreatingType
    <3> HIDE DEF C
    <3> QED BY <2>2, <2>3, <3>1, SumType, SumMoves
  <2> QED BY <1>0, <2>4, InvitesAssumption DEF FewMonthly
<1>4. CASE /\ \A p \in Handler : usr[p] = u => ~CreateMonth(p)
           /\ \A p \in Handler, n \in 1..MaxUses : CreateRow(p, n) => usr[p] # u
  <2>1. u \in User \ Admin
    BY InvitesAssumption
  <2> QED BY <1>1, <1>4, <2>1, InvitesShrink, CreatingShrink
<1> QED BY <1>2, <1>3, <1>4

(***************************************************************************)
(* So is the limit on the invites of a month.                              *)
(***************************************************************************)
THEOREM MonthlyInvitesBounded == Spec => []BoundedMonthly
<1> DEFINE AllFew == \A u \in Metered \ Admin : FewMonthly(u)
<1>1. Init => AllFew
  <2> SUFFICES ASSUME Init, NEW u \in Metered \ Admin
               PROVE  FewMonthly(u)
    OBVIOUS
  <2>1. Monthly(u) = {} /\ Creating(u, {"newActive", "newRow"}) = {}
    BY DEF Init, Monthly, There, Creating
  <2>2. Cardinality(Handler) \in Nat
    BY CreatingType, SumType
  <2> QED BY <2>1, <2>2, FS_EmptySet, InvitesAssumption DEF FewMonthly
<1>2. TypeOK /\ FreshInv /\ AllFew /\ [Next]_vars => AllFew'
  <2>1. AllFew /\ UNCHANGED vars => AllFew'
    BY DEF FewMonthly, Monthly, There, Creating, vars, invites, clock, locals
  <2> QED BY <2>1, MonthlyStep
<1>3. AllFew => BoundedMonthly
  BY DEF FewMonthly, BoundedMonthly
<1> QED BY <1>1, <1>2, <1>3, InvitesTypeCorrect, InvitesFresh, PTL DEF Spec

-----------------------------------------------------------------------------
(* The waitlist.                                                           *)

OfEntry == {"invite", "reject", "delete"}
ShownRow == [id : 1..lastEntry, status : Status]
EntryRow == [id : 1..lastEntry, status : Status, link : 0..Len(links)]

SlotRow == [op : OfEntry \cup {"none", "join"},
            step : {"none", "user", "create", "find", "link", "write", "done", "failed"},
            of : Mail \cup (0..lastEntry), link : 0..Len(links), watched : BOOLEAN,
            filter : Status]

\* What each request has come to.
SlotOK(r) ==
  /\ r \in SlotRow
  /\ r.op = "none" => r.step = "none" /\ r.watched = FALSE
  /\ r.op = "join" => r.of \in Mail /\ r.step \in {"user", "create"} /\ r.watched = FALSE
  /\ r.op \in OfEntry =>
       r.of \in 1..lastEntry /\ r.step \in {"find", "link", "write", "done", "failed"}
  /\ r.step = "link" => r.op = "invite"
  /\ r.op = "invite" /\ r.step = "write" => r.link # 0

ListOK(l) ==
  l \in [filter : Status, n : 1..MaxLoads, served : BOOLEAN, rows : SUBSET ShownRow]

WaitTables ==
  /\ lastEntry \in 0..MaxEntries /\ links \in Seq(1..lastEntry) /\ known \subseteq Mail
  /\ entry \in [Mail -> {NoEntry} \cup EntryRow]
  /\ shaken \subseteq Entry /\ reopened \in [Entry -> Nat]

SlotsOK == DOMAIN slot = Slot /\ \A s \in Slot : SlotOK(slot[s])

PageOK ==
  /\ panel \in [open : BOOLEAN, filter : Status, rows : SUBSET ShownRow,
                loading : BOOLEAN, sending : 0..lastEntry]
  /\ (\A l \in loads : ListOK(l)) /\ stale \in BOOLEAN

\* An entry has one address.
RowsApart == \A m, n \in Mail : entry[m].id = entry[n].id /\ entry[m].id # 0 => m = n

LinksOf(id) == {n \in 1..Len(links) : links[n] = id}
Open(m, id) == entry[m].id = id /\ entry[m].status # "invited"
\* A link of the entry has been made which the entry is to record,
Recording(s) == slot[s].op = "invite" /\ slot[s].step = "write"
\* or is to be made.
Inviting(s) == slot[s].op = "invite" /\ slot[s].step \in {"link", "write"}

\* Of an entry whose requests do not overlap there is one at a time; the links
\* are fewer while the entry is open and no link is about to be recorded, and
\* it is open as long as a link is to be made or recorded.
EntryOK(id) ==
  /\ \A s, t \in Served(id) : s = t
  /\ Cardinality(LinksOf(id)) <= 1 + reopened[id]
  /\ (\E m \in Mail : Open(m, id)) /\ (\A s \in Served(id) : ~Recording(s)) =>
       Cardinality(LinksOf(id)) <= reopened[id]
  /\ \A s \in Served(id) : Inviting(s) => \E m \in Mail : Open(m, id)

Current(f) == {Shown(e) : e \in {g \in Rows : g.status = f}}
\* The page is about to hear of a change.
Told == \E s \in Slot : slot[s].watched = TRUE /\ slot[s].step = "done"

\* The lists under way have the filter of the page; what they have read, or
\* the page shows, is so, or is about to be loaded again.
PanelOK ==
  stale = FALSE =>
    /\ \A l \in loads : /\ l.filter = panel.filter
                        /\ l.served = TRUE => Told \/ l.rows \subseteq Current(l.filter)
    /\ loads = {} => Told \/ panel.rows \subseteq Current(panel.filter)

WaitInv ==
  /\ WaitTables /\ SlotsOK /\ PageOK /\ RowsApart /\ PanelOK
  /\ \A id \in Entry \ shaken : EntryOK(id)

LEMMA WaitBounds ==
  /\ MaxEntries \in Nat /\ MaxLoads \in Nat /\ MaxLinks \in Nat
  /\ "pending" \in Status /\ "invited" \in Status /\ "rejected" \in Status
  BY WaitlistAssumption DEF Status

LEMMA WaitBegins == WaitlistInit => WaitInv
<1> SUFFICES ASSUME WaitlistInit PROVE WaitInv
  OBVIOUS
<1>1. /\ lastEntry = 0 /\ links = <<>> /\ Len(links) = 0 /\ loads = {} /\ shaken = {}
      /\ entry = [m \in Mail |-> NoEntry] /\ stale = FALSE
      /\ reopened = [e \in Entry |-> 0] /\ slot = [s \in Slot |-> Unused]
  BY DEF WaitlistInit
<1>2. WaitTables
  BY <1>1, WaitBounds DEF WaitTables, WaitlistInit
<1>3. Unused \in SlotRow /\ Unused.op = "none" /\ Unused.step = "none" /\ Unused.watched = FALSE
  BY <1>1, WaitBounds DEF Unused, SlotRow
<1>4. SlotOK(Unused)
  BY <1>3 DEF SlotOK, OfEntry
<1>5. SlotsOK
  BY <1>1, <1>4 DEF SlotsOK
<1>6. panel \in [open : BOOLEAN, filter : Status, rows : SUBSET ShownRow,
                 loading : BOOLEAN, sending : 0..lastEntry]
  BY <1>1, WaitBounds DEF WaitlistInit
<1>7. PageOK /\ PanelOK
  <2>1. panel.rows = {}
    BY DEF WaitlistInit
  <2> QED BY <1>1, <1>6, <2>1 DEF PageOK, PanelOK
<1>8. RowsApart
  BY <1>1 DEF RowsApart, NoEntry
<1>9. ASSUME NEW id \in Entry
      PROVE  EntryOK(id)
  <2>1. LinksOf(id) = {} /\ Served(id) = {}
    BY <1>1, <1>3 DEF LinksOf, Served
  <2>2. Cardinality(LinksOf(id)) = 0 /\ reopened[id] = 0
    BY <1>1, <2>1, FS_EmptySet
  <2> QED BY <2>1, <2>2 DEF EntryOK
<1> QED BY <1>2, <1>5, <1>7, <1>8, <1>9 DEF WaitInv

-----------------------------------------------------------------------------
(* One request takes a step.                                               *)

LEMMA OneSlot ==
  ASSUME SlotsOK, NEW s \in Slot, NEW r, slot' = [slot EXCEPT ![s] = r]
  PROVE  DOMAIN slot' = Slot /\ \A t \in Slot : slot'[t] = IF t = s THEN r ELSE slot[t]
  BY DEF SlotsOK

LEMMA SlotGrows ==
  ASSUME NEW r, SlotOK(r), lastEntry \in Nat, lastEntry' \in Nat, lastEntry <= lastEntry',
         Len(links) \in Nat, Len(links') \in Nat, Len(links) <= Len(links')
  PROVE  SlotOK(r)'
<1>1. r \in SlotRow'
  BY DEF SlotOK, SlotRow
<1> QED BY <1>1 DEF SlotOK

LEMMA SlotsStep ==
  ASSUME SlotsOK, NEW s \in Slot, NEW r, slot' = [slot EXCEPT ![s] = r], SlotOK(r)',
         lastEntry \in Nat, lastEntry' \in Nat, lastEntry <= lastEntry',
         Len(links) \in Nat, Len(links') \in Nat, Len(links) <= Len(links')
  PROVE  SlotsOK'
<1>1. DOMAIN slot' = Slot /\ \A t \in Slot : slot'[t] = IF t = s THEN r ELSE slot[t]
  BY OneSlot
<1>2. ASSUME NEW t \in Slot
      PROVE  SlotOK(slot[t])'
  <2>1. PICK q : q = slot'[t]
    OBVIOUS
  <2>2. SlotOK(q)'
    <3>1. CASE t = s
      BY <1>1, <2>1, <3>1
    <3>2. CASE t # s
      <4>1. SlotOK(q)
        BY <1>1, <2>1, <3>2 DEF SlotsOK
      <4> QED BY <4>1, SlotGrows
    <3> QED BY <3>1, <3>2
  <2> QED BY <2>1, <2>2
<1> QED BY <1>1, <1>2 DEF SlotsOK

\* What it means to an entry that it does not change.
LEMMA EntryCalm ==
  ASSUME SlotsOK, NEW id \in Entry, EntryOK(id),
         NEW s \in Slot, NEW r, slot' = [slot EXCEPT ![s] = r],
         \A m \in Mail : Open(m, id)' <=> Open(m, id),
         LinksOf(id)' = LinksOf(id), reopened'[id] = reopened[id],
         r.op \in OfEntry /\ r.of = id => s \in Served(id) \/ Served(id) = {},
         r.op = "invite" /\ r.of = id /\ r.step \in {"link", "write"} =>
           \E m \in Mail : Open(m, id),
         s \in Served(id) /\ Recording(s) => r.op = "invite" /\ r.step = "write" /\ r.of = id
  PROVE  EntryOK(id)'
<1>1. \A t \in Slot : slot'[t] = IF t = s THEN r ELSE slot[t]
  BY OneSlot
<1>2. ASSUME NEW t \in Slot, t # s
      PROVE  /\ t \in Served(id)' <=> t \in Served(id)
             /\ Recording(t)' <=> Recording(t)
             /\ Inviting(t)' <=> Inviting(t)
  BY <1>1, <1>2 DEF Served, Recording, Inviting
<1>3. s \in Served(id)' <=> r.op \in OfEntry /\ r.of = id
  BY <1>1 DEF Served, OfEntry
<1>4. /\ Recording(s)' <=> r.op = "invite" /\ r.step = "write"
      /\ Inviting(s)' <=> r.op = "invite" /\ r.step \in {"link", "write"}
  BY <1>1 DEF Recording, Inviting
<1>5. Served(id) \subseteq Slot /\ Served(id)' \subseteq Slot
  BY DEF Served
<1>6. \A t, q \in Served(id)' : t = q
  BY <1>2, <1>3, <1>5 DEF EntryOK
<1>7. ASSUME \A t \in Served(id)' : ~Recording(t)'
      PROVE  \A t \in Served(id) : ~Recording(t)
  BY <1>2, <1>3, <1>4, <1>5, <1>7 DEF OfEntry
<1>8. ASSUME NEW t \in Served(id)', Inviting(t)'
      PROVE  \E m \in Mail : Open(m, id)'
  <2>1. \E m \in Mail : Open(m, id)
    BY <1>2, <1>3, <1>4, <1>5, <1>8 DEF EntryOK
  <2> QED BY <2>1
<1> QED BY <1>6, <1>7, <1>8 DEF EntryOK

\* A step that changes no table.
LEMMA SlotStep ==
  ASSUME WaitInv, NEW s \in Slot, NEW r, slot' = [slot EXCEPT ![s] = r], SlotOK(r),
         UNCHANGED <<waitlist, reopened>>, shaken \subseteq shaken', shaken' \subseteq Entry,
         PageOK', PanelOK',
         r.op \in OfEntry =>
           s \in Served(r.of) \/ Served(r.of) = {} \/ r.of \in shaken',
         r.op = "invite" /\ r.step \in {"link", "write"} /\ r.of \notin shaken' =>
           \E m \in Mail : Open(m, r.of),
         Recording(s) /\ slot[s].of \notin shaken' =>
           r.op = "invite" /\ r.step = "write" /\ r.of = slot[s].of
  PROVE  WaitInv'
<1>0. /\ UNCHANGED <<entry, lastEntry, links, known, reopened>> /\ WaitTables /\ SlotsOK
      /\ lastEntry \in Nat /\ Len(links) \in Nat
      /\ lastEntry' = lastEntry /\ Len(links') = Len(links)
      /\ lastEntry <= lastEntry' /\ Len(links) <= Len(links')
  BY WaitBounds DEF waitlist, WaitInv, WaitTables
<1>1. WaitTables' /\ RowsApart'
  BY <1>0 DEF WaitInv, WaitTables, EntryRow, RowsApart
<1>2. SlotsOK'
  <2>1. SlotOK(r)'
    BY <1>0, SlotGrows
  <2> QED BY <1>0, <2>1, SlotsStep
<1>3. ASSUME NEW id \in Entry \ shaken'
      PROVE  EntryOK(id)'
  <2>1. EntryOK(id)
    BY <1>3 DEF WaitInv
  <2>2. /\ \A m \in Mail : Open(m, id)' <=> Open(m, id)
        /\ LinksOf(id)' = LinksOf(id) /\ reopened'[id] = reopened[id]
    BY <1>0 DEF Open, LinksOf
  <2>3. r.op \in OfEntry /\ r.of = id => s \in Served(id) \/ Served(id) = {}
    BY <1>3
  <2>4. r.op = "invite" /\ r.of = id /\ r.step \in {"link", "write"} =>
          \E m \in Mail : Open(m, id)
    BY <1>3
  <2>5. s \in Served(id) /\ Recording(s) => r.op = "invite" /\ r.step = "write" /\ r.of = id
    BY <1>3 DEF Served
  <2> QED BY <1>0, <2>1, <2>2, <2>3, <2>4, <2>5, EntryCalm
<1> QED BY <1>1, <1>2, <1>3 DEF WaitInv

LEMMA PageSame ==
  ASSUME PageOK, loads' = loads, panel' = panel, lastEntry \in Nat, lastEntry' \in Nat,
         lastEntry <= lastEntry', stale' \in BOOLEAN
  PROVE  PageOK'
<1>1. ShownRow \subseteq ShownRow' /\ 0..lastEntry \subseteq 0..lastEntry'
  BY DEF ShownRow
<1>2. ASSUME NEW l \in loads
      PROVE  ListOK(l)'
  BY <1>1 DEF PageOK, ListOK
<1>3. panel' \in [open : BOOLEAN, filter : Status, rows : SUBSET ShownRow',
                  loading : BOOLEAN, sending : 0..lastEntry']
  BY <1>1 DEF PageOK
<1> QED BY <1>2, <1>3 DEF PageOK

\* What the page need not be told of.
LEMMA PanelKept ==
  ASSUME WaitInv, loads' = loads, panel'.filter = panel.filter, panel'.rows = panel.rows,
         stale' = FALSE => stale = FALSE,
         Told => Told', \A f \in Status : Current(f) \subseteq Current(f)'
  PROVE  PanelOK'
<1>1. /\ panel.filter \in Status /\ \A l \in loads : l.filter \in Status
  BY DEF WaitInv, PageOK, ListOK
<1> QED BY <1>1 DEF WaitInv, PanelOK

LEMMA CurrentSame == entry' = entry => \A f \in Status : Current(f) \subseteq Current(f)'
  BY DEF Current, Rows

\* A step of s leaves the answers of others.
LEMMA OthersTold ==
  ASSUME SlotsOK, NEW s \in Slot, NEW r, slot' = [slot EXCEPT ![s] = r],
         slot[s].step # "done" \/ (r.step = "done" /\ r.watched = slot[s].watched)
  PROVE  Told => Told'
<1>1. \A t \in Slot : slot'[t] = IF t = s THEN r ELSE slot[t]
  BY OneSlot
<1> QED BY <1>1 DEF Told

\* The page keeps what it shows while a request takes a step.
LEMMA PageCalm ==
  ASSUME WaitInv, NEW s \in Slot, NEW r, slot' = [slot EXCEPT ![s] = r],
         slot[s].step # "done" \/ (r.step = "done" /\ r.watched = slot[s].watched),
         entry' = entry, lastEntry' = lastEntry, loads' = loads, panel' = panel,
         stale' \in BOOLEAN, stale' = FALSE => stale = FALSE
  PROVE  PageOK' /\ PanelOK'
<1>1. lastEntry \in Nat /\ lastEntry' \in Nat /\ lastEntry <= lastEntry' /\ SlotsOK /\ PageOK
  BY WaitBounds DEF WaitInv, WaitTables
<1>2. PageOK'
  BY <1>1, PageSame
<1>3. Told => Told'
  BY <1>1, OthersTold
<1>4. \A f \in Status : Current(f) \subseteq Current(f)'
  BY CurrentSame
<1> QED BY <1>2, <1>3, <1>4, PanelKept

\* Nor does an answer it is not told of.
LEMMA PageUntold ==
  ASSUME WaitInv, entry' = entry, lastEntry' = lastEntry, loads' = loads, stale' = TRUE,
         panel' \in [open : BOOLEAN, filter : Status, rows : SUBSET ShownRow,
                     loading : BOOLEAN, sending : 0..lastEntry]
  PROVE  PageOK' /\ PanelOK'
<1>1. PanelOK'
  BY DEF PanelOK
<1>2. ASSUME NEW l \in loads
      PROVE  ListOK(l)'
  BY <1>2 DEF WaitInv, PageOK, ListOK, ShownRow
<1> QED BY <1>1, <1>2 DEF PageOK, ShownRow

LEMMA SlotIs ==
  ASSUME SlotsOK, NEW s \in Slot
  PROVE  /\ SlotOK(slot[s]) /\ slot[s] \in SlotRow
         /\ slot[s].op \in OfEntry \cup {"none", "join"}
         /\ slot[s].step \in {"user", "create"} => slot[s].op = "join" /\ slot[s].of \in Mail
         /\ slot[s].step \in {"find", "link", "write", "done", "failed"} =>
              slot[s].op \in OfEntry /\ slot[s].of \in 1..lastEntry
         /\ slot[s].op \in OfEntry => s \in Served(slot[s].of)
         /\ slot[s].watched = TRUE => slot[s].op \in OfEntry
         /\ slot[s].watched \in BOOLEAN
<1>1. SlotOK(slot[s])
  BY DEF SlotsOK
<1>2. slot[s] \in SlotRow
  BY <1>1 DEF SlotOK
<1>3. slot[s].op \in OfEntry \cup {"none", "join"} /\ slot[s].watched \in BOOLEAN
  BY <1>2 DEF SlotRow
<1>4. slot[s].op \in OfEntry => s \in Served(slot[s].of)
  BY DEF Served, OfEntry
<1> QED BY <1>1, <1>2, <1>3, <1>4 DEF SlotOK, OfEntry

LEMMA UnusedOK ==
  ASSUME WaitTables
  PROVE  SlotOK(Unused) /\ Unused.op = "none" /\ Unused.step = "none" /\ Unused.watched = FALSE
<1>1. Unused.op = "none" /\ Unused.step = "none" /\ Unused.watched = FALSE
  BY DEF Unused
<1>2. lastEntry \in Nat /\ Len(links) \in Nat
  BY WaitBounds DEF WaitTables
<1>3. 0 \in 0..lastEntry /\ 0 \in 0..Len(links)
  BY <1>2
<1>4. Unused \in SlotRow
  BY <1>3, WaitBounds DEF SlotRow, Unused
<1> QED BY <1>1, <1>4 DEF SlotOK, OfEntry

-----------------------------------------------------------------------------
(* The requests.                                                           *)

\* A request ends.
LEMMA Ends ==
  ASSUME WaitInv, NEW s \in Slot, slot' = [slot EXCEPT ![s] = Unused],
         UNCHANGED <<waitlist, reopened, shaken>>, PageOK', PanelOK',
         Recording(s) => slot[s].of \in shaken
  PROVE  WaitInv'
<1>1. SlotOK(Unused) /\ Unused.op = "none" /\ Unused.op \notin OfEntry /\ shaken \subseteq Entry
  BY UnusedOK DEF WaitInv, OfEntry, WaitTables
<1> QED BY <1>1, SlotStep

LEMMA JoinKeeps ==
  ASSUME WaitInv, NEW s \in Slot, NEW m \in Mail, Join(s, m)
  PROVE  WaitInv'
<1> DEFINE r == [Unused EXCEPT !.op = "join", !.step = "user", !.of = m]
<1>1. slot[s] = Unused /\ slot' = [slot EXCEPT ![s] = r] /\ WaitTables
  BY DEF Join, WaitInv
<1>2. /\ r.op = "join" /\ r.step = "user" /\ r.of = m /\ r.link = 0 /\ r.watched = FALSE
      /\ r.filter = "pending"
  BY DEF Unused
<1>3. SlotOK(r)
  <2>1. 0 \in 0..Len(links)
    BY <1>1, WaitBounds DEF WaitTables
  <2>2. r \in SlotRow
    BY <2>1, WaitBounds DEF SlotRow, Unused
  <2> QED BY <1>2, <2>2 DEF SlotOK, OfEntry
<1>4. slot[s].step # "done" /\ ~Recording(s)
  BY <1>1, UnusedOK DEF Recording
<1> HIDE DEF r
<1>5. /\ UNCHANGED <<waitlist, reopened, shaken>> /\ shaken \subseteq Entry /\ r.op \notin OfEntry
      /\ entry' = entry /\ lastEntry' = lastEntry /\ loads' = loads /\ panel' = panel
      /\ stale' \in BOOLEAN /\ (stale' = FALSE => stale = FALSE)
  BY <1>2 DEF Join, waitlist, waitHistory, WaitInv, WaitTables, PageOK, OfEntry
<1>6. PageOK' /\ PanelOK'
  BY <1>1, <1>4, <1>5, PageCalm
<1> QED BY <1>1, <1>2, <1>3, <1>4, <1>5, <1>6, SlotStep

LEMMA FindAccountKeeps ==
  ASSUME WaitInv, NEW s \in Slot, FindAccount(s)
  PROVE  WaitInv'
<1>1. PICK r : r = IF slot[s].of \in known THEN Unused ELSE [slot[s] EXCEPT !.step = "create"]
  OBVIOUS
<1>2. slot[s].step = "user" /\ slot' = [slot EXCEPT ![s] = r] /\ WaitTables /\ SlotsOK
  BY <1>1 DEF FindAccount, WaitInv, SlotsOK
<1>3. /\ UNCHANGED <<waitlist, reopened, shaken>> /\ shaken \subseteq Entry
      /\ entry' = entry /\ lastEntry' = lastEntry /\ loads' = loads /\ panel' = panel
      /\ stale' \in BOOLEAN /\ (stale' = FALSE => stale = FALSE)
  BY DEF FindAccount, waitlist, waitHistory, WaitInv, WaitTables, PageOK
<1>4. SlotOK(slot[s]) /\ slot[s] \in SlotRow /\ slot[s].op = "join" /\ slot[s].of \in Mail
  BY <1>2, SlotIs
<1>5. SlotOK(r) /\ r.op \notin OfEntry
  <2>1. CASE slot[s].of \in known
    BY <1>1, <1>2, <2>1, UnusedOK DEF OfEntry
  <2>2. CASE slot[s].of \notin known
    <3>1. /\ r = [slot[s] EXCEPT !.step = "create"] /\ r \in SlotRow
          /\ r.op = "join" /\ r.step = "create" /\ r.of = slot[s].of
          /\ r.watched = slot[s].watched
      BY <1>1, <1>4, <2>2 DEF SlotRow
    <3> QED BY <1>4, <3>1 DEF SlotOK, OfEntry
  <2> QED BY <2>1, <2>2
<1>6. PageOK' /\ PanelOK'
  BY <1>2, <1>3, PageCalm
<1>7. ~Recording(s)
  BY <1>2 DEF Recording
<1> QED BY <1>2, <1>3, <1>5, <1>6, <1>7, SlotStep DEF OfEntry

\* The answer to a request.
LEMMA Replies ==
  ASSUME WaitInv, NEW s \in Slot, NEW answer \in {"done", "failed"},
         slot[s].op \in OfEntry,
         NEW r, r = IF slot[s].watched THEN [slot[s] EXCEPT !.step = answer] ELSE Unused
  PROVE  /\ SlotOK(r)
         /\ slot[s].watched = TRUE => r.step = answer /\ r.watched = TRUE
         /\ r.op \in OfEntry => r.of = slot[s].of /\ r.op = slot[s].op /\ r.step = answer
<1>1. SlotOK(slot[s]) /\ slot[s] \in SlotRow /\ slot[s].watched \in BOOLEAN /\ WaitTables
  BY SlotIs DEF WaitInv
<1>2. CASE slot[s].watched = TRUE
  <2>1. /\ r = [slot[s] EXCEPT !.step = answer] /\ r \in SlotRow
        /\ r.op = slot[s].op /\ r.step = answer /\ r.of = slot[s].of /\ r.watched = TRUE
    BY <1>1, <1>2 DEF SlotRow
  <2> QED BY <1>1, <2>1 DEF SlotOK, OfEntry
<1>3. CASE slot[s].watched = FALSE
  <2>1. r = Unused
    BY <1>3
  <2> QED BY <1>1, <1>3, <2>1, UnusedOK DEF OfEntry
<1> QED BY <1>1, <1>2, <1>3

LEMMA FindEntryKeeps ==
  ASSUME WaitInv, NEW s \in Slot, FindEntry(s)
  PROVE  WaitInv'
<1> DEFINE found == \E e \in Find(slot[s].of) : ~Refused(slot[s].op, e)
           next == IF slot[s].op = "invite" THEN "link" ELSE "write"
<1>1. /\ slot[s].step = "find" /\ WaitTables /\ SlotsOK
      /\ UNCHANGED <<waitlist, reopened, shaken>> /\ shaken \subseteq Entry
      /\ entry' = entry /\ lastEntry' = lastEntry /\ loads' = loads /\ panel' = panel
      /\ stale' \in BOOLEAN /\ (stale' = FALSE => stale = FALSE)
  BY DEF FindEntry, waitlist, waitHistory, WaitInv, WaitTables, PageOK
<1>2. /\ SlotOK(slot[s]) /\ slot[s] \in SlotRow /\ slot[s].op \in OfEntry
      /\ slot[s].of \in 1..lastEntry /\ s \in Served(slot[s].of) /\ ~Recording(s)
  BY <1>1, SlotIs DEF Recording
<1>3. CASE found
  <2>1. PICK r : r = [slot[s] EXCEPT !.step = next]
    OBVIOUS
  <2>2. slot' = [slot EXCEPT ![s] = r]
    BY <1>3, <2>1 DEF FindEntry
  <2>3. /\ r.op = slot[s].op /\ r.of = slot[s].of /\ r.step = next /\ r.watched = slot[s].watched
        /\ r.link = slot[s].link /\ r \in SlotRow
    BY <1>2, <2>1 DEF SlotRow
  <2>4. SlotOK(r)
    BY <1>2, <2>3 DEF SlotOK, OfEntry
  <2>5. PageOK' /\ PanelOK'
    BY <1>1, <2>2, PageCalm
  <2>6. ASSUME r.op = "invite"
        PROVE  \E m \in Mail : Open(m, r.of)
    <3>1. PICK e \in Rows : e.id = r.of /\ e.status # "invited"
      BY <1>3, <2>3, <2>6 DEF Find, Refused
    <3>2. PICK m \in Mail : e = entry[m]
      BY <3>1 DEF Rows
    <3> QED BY <3>1, <3>2 DEF Open
  <2> QED BY <1>1, <1>2, <2>2, <2>3, <2>4, <2>5, <2>6, SlotStep
<1>4. CASE ~found
  <2>1. PICK r : r = IF slot[s].watched THEN [slot[s] EXCEPT !.step = "failed"] ELSE Unused
    OBVIOUS
  <2>2. slot' = [slot EXCEPT ![s] = r]
    BY <1>4, <2>1 DEF FindEntry, Reply
  <2>3. SlotOK(r) /\ (r.op \in OfEntry => r.of = slot[s].of /\ r.step = "failed")
    BY ZenonT(40), <1>2, <2>1, Replies
  <2>4. PageOK' /\ PanelOK'
    BY <1>1, <2>2, PageCalm
  <2> QED BY <1>1, <1>2, <2>2, <2>3, <2>4, SlotStep DEF OfEntry
<1> QED BY <1>3, <1>4

LEMMA MakeLinkKeeps ==
  ASSUME WaitInv, NEW s \in Slot, MakeLink(s)
  PROVE  WaitInv'
<1>1. /\ slot[s].step = "link" /\ WaitTables /\ SlotsOK /\ links' = Append(links, slot[s].of)
      /\ UNCHANGED <<entry, lastEntry, known, panel, loads, mishaps, waitHistory>>
      /\ UNCHANGED <<reopened, shaken, stale>>
  BY DEF MakeLink, waitHistory, WaitInv
<1>2. /\ SlotOK(slot[s]) /\ slot[s] \in SlotRow /\ slot[s].op = "invite"
      /\ slot[s].of \in 1..lastEntry /\ s \in Served(slot[s].of) /\ ~Recording(s) /\ Inviting(s)
  BY <1>1, SlotIs DEF Recording, SlotOK, Inviting
<1>3. /\ lastEntry \in Nat /\ lastEntry' \in Nat /\ lastEntry <= lastEntry'
      /\ links \in Seq(1..lastEntry)
      /\ Len(links) \in Nat /\ Len(links') = Len(links) + 1 /\ links' \in Seq(1..lastEntry')
      /\ links'[Len(links) + 1] = slot[s].of /\ \A n \in 1..Len(links) : links'[n] = links[n]
  BY <1>1, <1>2, WaitBounds DEF WaitTables
<1>4. /\ Len(links') \in Nat /\ Len(links) <= Len(links')
      /\ Len(links') \in 0..Len(links') /\ Len(links') # 0
  BY <1>3
<1>5. PICK r : r = [slot[s] EXCEPT !.step = "write", !.link = Len(links')]
  OBVIOUS
<1>6. /\ r.op = "invite" /\ r.of = slot[s].of /\ r.step = "write" /\ r.link = Len(links')
      /\ r.watched = slot[s].watched /\ r.filter = slot[s].filter
      /\ r \in [op : OfEntry \cup {"none", "join"},
                step : {"none", "user", "create", "find", "link", "write", "done", "failed"},
                of : Mail \cup (0..lastEntry), link : 0..Len(links'), watched : BOOLEAN,
                filter : Status]
  BY <1>2, <1>4, <1>5 DEF SlotRow
<1>7. slot' = [slot EXCEPT ![s] = r]
  <2>1. slot' = [slot EXCEPT ![s] = [@ EXCEPT !.step = "write", !.link = Len(links')]]
    BY DEF MakeLink
  <2> QED BY <1>5, <2>1
<1>8. SlotOK(r)'
  <2>1. r \in SlotRow'
    BY <1>1, <1>6 DEF SlotRow
  <2> QED BY <1>1, <1>2, <1>4, <1>6, <2>1 DEF SlotOK, OfEntry
<1>9. SlotsOK'
  BY <1>1, <1>3, <1>4, <1>7, <1>8, SlotsStep
<1>10. WaitTables'
  <2>1. entry' \in [Mail -> {NoEntry} \cup EntryRow']
    BY <1>1, <1>3 DEF WaitTables, EntryRow
  <2> QED BY <1>1, <1>3, <2>1 DEF WaitTables
<1>11. PageOK' /\ PanelOK'
  <2>1. stale' \in BOOLEAN /\ (stale' = FALSE => stale = FALSE)
    BY <1>1 DEF WaitInv, PageOK
  <2> QED BY <1>1, <1>7, <2>1, PageCalm
<1>12. RowsApart'
  BY <1>1 DEF RowsApart, WaitInv
<1>13. ASSUME NEW id \in Entry \ shaken'
       PROVE  EntryOK(id)'
  <2>1. EntryOK(id) /\ \A m \in Mail : Open(m, id)' <=> Open(m, id)
    BY <1>1, <1>13 DEF WaitInv, Open
  <2>2. CASE id # slot[s].of
    <3>1. LinksOf(id)' = LinksOf(id)
      BY <1>3, <2>2 DEF LinksOf
    <3> QED BY <1>1, <1>2, <1>6, <1>7, <2>1, <2>2, <3>1, EntryCalm DEF Served
  <2>3. CASE id = slot[s].of
    <3>1. \A t \in Served(id) : t = s
      BY <1>2, <2>1, <2>3 DEF EntryOK
    <3>2. Cardinality(LinksOf(id)) <= reopened[id] /\ \E m \in Mail : Open(m, id)
      BY <1>2, <2>1, <2>3, <3>1 DEF EntryOK
    <3>3. LinksOf(id)' = LinksOf(id) \cup {Len(links) + 1} /\ Len(links) + 1 \notin LinksOf(id)
      <4>1. /\ 1..Len(links') = 1..Len(links) \cup {Len(links) + 1}
            /\ Len(links) + 1 \notin 1..Len(links) /\ links'[Len(links) + 1] = id
        BY <1>3, <2>3
      <4>2. \A n \in 1..Len(links) : links'[n] = links[n]
        BY <1>3
      <4> QED BY <4>1, <4>2 DEF LinksOf
    <3>4. IsFiniteSet(LinksOf(id))
      <4>1. Len(links) \in Int /\ 1 \in Int
        BY <1>3
      <4>2. IsFiniteSet(1..Len(links))
        BY <4>1, FS_Interval
      <4>3. LinksOf(id) \subseteq 1..Len(links)
        BY DEF LinksOf
      <4> QED BY <4>2, <4>3, FS_Subset
    <3>5. /\ Cardinality(LinksOf(id)') = Cardinality(LinksOf(id)) + 1
          /\ Cardinality(LinksOf(id)) \in Nat
      BY <3>3, <3>4, FS_AddElement, FS_CardinalityType
    <3>6. reopened'[id] = reopened[id] /\ reopened[id] \in Nat
      BY <1>1, <1>13 DEF WaitTables
    <3>7. Cardinality(LinksOf(id)') <= 1 + reopened'[id]
      BY <3>2, <3>5, <3>6
    <3>8. \A t \in Slot : slot'[t] = IF t = s THEN r ELSE slot[t]
      BY <1>1, <1>7, OneSlot
    <3>9. \A t \in Served(id)' : t = s
      BY <3>1, <3>8 DEF Served
    <3>10. Recording(s)' /\ s \in Served(id)'
      BY <1>6, <2>3, <3>8 DEF Recording, Served
    <3> QED BY <2>1, <3>2, <3>7, <3>9, <3>10 DEF EntryOK
  <2> QED BY <2>2, <2>3
<1> QED BY <1>9, <1>10, <1>11, <1>12, <1>13 DEF WaitInv

\* One entry is written, and is then empty or has the id it had.
LEMMA RowWritten ==
  ASSUME WaitTables, RowsApart, NEW m \in Mail, NEW e, e \in {NoEntry} \cup EntryRow,
         entry[m].id # 0, e.id \in {0, entry[m].id}, entry' = [entry EXCEPT ![m] = e]
  PROVE  /\ entry' \in [Mail -> {NoEntry} \cup EntryRow] /\ entry'[m] = e
         /\ \A n \in Mail : n # m => entry'[n] = entry[n] /\ entry'[n].id # entry[m].id
         /\ RowsApart'
<1>1. /\ entry' \in [Mail -> {NoEntry} \cup EntryRow]
      /\ \A n \in Mail : entry'[n] = IF n = m THEN e ELSE entry[n]
  BY DEF WaitTables
<1>2. RowsApart'
  BY <1>1 DEF RowsApart
<1>3. \A n \in Mail : n # m => entry'[n] = entry[n] /\ entry'[n].id # entry[m].id
  BY <1>1 DEF RowsApart
<1> QED BY <1>1, <1>2, <1>3

\* Nothing is written, for the entry is gone.
LEMMA NothingWritten ==
  ASSUME WaitInv, NEW s \in Slot, WriteEntry(s), Find(slot[s].of) = {}
  PROVE  WaitInv'
<1>1. /\ slot[s].step = "write" /\ WaitTables /\ SlotsOK /\ Reply(s, "failed")
      /\ UNCHANGED <<waitlist, reopened, stale, panel, loads, shaken>>
  BY DEF WriteEntry, WaitInv
<1>2. /\ UNCHANGED <<waitlist, reopened, shaken>> /\ shaken \subseteq Entry
      /\ entry' = entry /\ lastEntry' = lastEntry /\ loads' = loads /\ panel' = panel
      /\ stale' \in BOOLEAN /\ (stale' = FALSE => stale = FALSE)
  BY <1>1 DEF waitlist, WaitInv, WaitTables, PageOK
<1>3. /\ SlotOK(slot[s]) /\ slot[s] \in SlotRow /\ slot[s].op \in OfEntry
      /\ slot[s].of \in 1..lastEntry /\ s \in Served(slot[s].of)
  BY <1>1, SlotIs
<1>4. PICK r : r = IF slot[s].watched THEN [slot[s] EXCEPT !.step = "failed"] ELSE Unused
  OBVIOUS
<1>5. slot' = [slot EXCEPT ![s] = r]
  BY <1>1, <1>4 DEF Reply
<1>6. SlotOK(r) /\ (r.op \in OfEntry => r.of = slot[s].of /\ r.step = "failed")
  BY ZenonT(40), <1>3, <1>4, Replies
<1>7. PageOK' /\ PanelOK'
  BY <1>1, <1>2, <1>5, PageCalm
<1>8. slot[s].of \in Entry
  BY <1>1, <1>3, WaitBounds DEF WaitTables, Entry
<1>9. ASSUME Recording(s), slot[s].of \notin shaken
      PROVE  FALSE
  <2>1. EntryOK(slot[s].of) /\ Inviting(s)
    BY <1>8, <1>9 DEF WaitInv, Recording, Inviting
  <2>2. PICK m \in Mail : Open(m, slot[s].of)
    BY <1>3, <2>1 DEF EntryOK
  <2>3. entry[m] \in Rows
    BY <1>8, <2>2, WaitBounds DEF Rows, Open, NoEntry, Entry
  <2> QED BY <2>2, <2>3 DEF Find, Open, WriteEntry
<1> QED BY <1>1, <1>2, <1>3, <1>5, <1>6, <1>7, <1>9, SlotStep DEF OfEntry

LEMMA WriteEntryKeeps ==
  ASSUME WaitInv, NEW s \in Slot, WriteEntry(s)
  PROVE  WaitInv'
<1>1. CASE Find(slot[s].of) = {}
  BY <1>1, NothingWritten
<1>2. CASE Find(slot[s].of) # {}
  <2>1. PICK m \in Mail :
          /\ entry[m].id = slot[s].of
          /\ entry' = [entry EXCEPT ![m] = Written(@, slot[s])]
          /\ reopened' = IF slot[s].op = "reject" /\ entry[m].status = "invited"
                         THEN [reopened EXCEPT ![slot[s].of] = @ + 1] ELSE reopened
          /\ stale' = (stale \/ ~slot[s].watched)
          /\ UNCHANGED <<lastEntry, links, known>>
          /\ Reply(s, "done")
    BY <1>2 DEF WriteEntry
  <2>2. /\ slot[s].step = "write" /\ UNCHANGED <<panel, loads, mishaps, shaken>>
        /\ WaitTables /\ SlotsOK /\ RowsApart /\ PageOK /\ PanelOK
        /\ panel' = panel /\ loads' = loads /\ shaken' = shaken
    BY DEF WriteEntry, WaitInv
  <2>3. /\ SlotOK(slot[s]) /\ slot[s] \in SlotRow /\ slot[s].op \in OfEntry
        /\ slot[s].of \in 1..lastEntry /\ s \in Served(slot[s].of) /\ slot[s].watched \in BOOLEAN
    BY <2>2, SlotIs
  <2>4. PICK of : of = slot[s].of
    OBVIOUS
  <2>5. PICK e : e = Written(entry[m], slot[s])
    OBVIOUS
  <2>6. /\ lastEntry \in Nat /\ lastEntry' \in Nat /\ lastEntry <= lastEntry'
        /\ Len(links) \in Nat /\ Len(links') \in Nat /\ Len(links) <= Len(links')
        /\ of # 0 /\ of \in Entry /\ of \in 1..lastEntry
    BY <2>1, <2>2, <2>3, <2>4, WaitBounds DEF WaitTables, Entry
  <2>7. /\ e \in {NoEntry} \cup EntryRow /\ e.id \in {0, of}
        /\ slot[s].op = "invite" => e.status = "invited"
        /\ slot[s].op = "reject" => e.id = of /\ e.status = "rejected"
        /\ slot[s].op = "delete" => e.id = 0
    <3>1. /\ entry[m] \in EntryRow /\ entry[m].id = of
          /\ entry[m] \in [id : 1..lastEntry, status : Status, link : 0..Len(links)]
      BY <2>1, <2>2, <2>4, <2>6 DEF WaitTables, NoEntry, EntryRow
    <3>2. CASE slot[s].op = "invite"
      <4>1. /\ e = [entry[m] EXCEPT !.status = "invited", !.link = slot[s].link]
            /\ slot[s].link \in 0..Len(links)
        BY <2>3, <2>5, <3>2 DEF Written, SlotRow
      <4>2. e.id = of /\ e.status = "invited" /\ e \in EntryRow
        BY <3>1, <4>1, WaitBounds DEF EntryRow
      <4> QED BY <3>2, <4>2
    <3>3. CASE slot[s].op = "reject"
      <4>1. e = [entry[m] EXCEPT !.status = "rejected"]
        BY <2>5, <3>3 DEF Written
      <4>2. e.id = of /\ e.status = "rejected" /\ e \in EntryRow
        BY <3>1, <4>1, WaitBounds DEF EntryRow
      <4> QED BY <3>3, <4>2
    <3>4. CASE slot[s].op = "delete"
      <4>1. e = NoEntry
        BY <2>5, <3>4 DEF Written
      <4> QED BY <3>4, <4>1 DEF NoEntry
    <3> QED BY <2>3, <3>2, <3>3, <3>4 DEF OfEntry
  <2>8. /\ entry' = [entry EXCEPT ![m] = e] /\ entry[m].id = of /\ of # 0
        /\ WaitTables /\ RowsApart /\ e \in {NoEntry} \cup EntryRow
        /\ entry[m].id # 0 /\ e.id \in {0, entry[m].id}
    BY <2>1, <2>2, <2>4, <2>5, <2>6, <2>7
  <2>9. /\ entry' \in [Mail -> {NoEntry} \cup EntryRow] /\ entry'[m] = e
        /\ \A n \in Mail : n # m => entry'[n] = entry[n] /\ entry'[n].id # of
        /\ RowsApart'
    <3>1. \A n \in Mail : n # m => entry'[n] = entry[n] /\ entry'[n].id # entry[m].id
      BY <2>8, RowWritten
    <3> QED BY <2>8, <3>1, RowWritten
  <2>10. reopened' \in [Entry -> Nat] /\ \A id \in Entry : id # of => reopened'[id] = reopened[id]
    BY <2>1, <2>2, <2>4, <2>6 DEF WaitTables
  <2>11. WaitTables'
    BY <2>1, <2>2, <2>9, <2>10 DEF WaitTables, EntryRow
  <2>12. PICK r : r = IF slot[s].watched THEN [slot[s] EXCEPT !.step = "done"] ELSE Unused
    OBVIOUS
  <2>13. slot' = [slot EXCEPT ![s] = r]
    BY <2>1, <2>12 DEF Reply
  <2>14. /\ SlotOK(r) /\ (slot[s].watched = TRUE => r.step = "done" /\ r.watched = TRUE)
         /\ (r.op \in OfEntry => r.of = of /\ r.step = "done")
    BY ZenonT(40), <2>3, <2>4, <2>12, Replies
  <2>15. SlotsOK'
    <3>1. SlotOK(r)'
      BY <2>6, <2>14, SlotGrows
    <3> QED BY <2>2, <2>6, <2>13, <3>1, SlotsStep
  <2>16. \A t \in Slot : slot'[t] = IF t = s THEN r ELSE slot[t]
    BY <2>2, <2>13, OneSlot
  <2>17. PageOK' /\ PanelOK'
    <3>1. stale \in BOOLEAN /\ stale' \in BOOLEAN
      BY <2>1, <2>2, <2>3 DEF PageOK
    <3>2. PageOK'
      BY <2>2, <2>6, <3>1, PageSame
    <3>3. ASSUME stale' = FALSE
          PROVE  PanelOK'
      <4>1. stale = FALSE /\ slot[s].watched = TRUE
        BY <2>1, <2>3, <3>1, <3>3
      <4>2. Told'
        BY <2>14, <2>16, <4>1 DEF Told
      <4>3. \A l \in loads' : l.filter = panel'.filter
        BY <2>2, <4>1 DEF PanelOK
      <4> QED BY <4>2, <4>3 DEF PanelOK
    <3>4. ASSUME stale' # FALSE
          PROVE  PanelOK'
      BY <3>4 DEF PanelOK
    <3> QED BY <3>2, <3>3, <3>4
  <2>18. ASSUME NEW id \in Entry \ shaken'
         PROVE  EntryOK(id)'
    <3>1. EntryOK(id) /\ LinksOf(id)' = LinksOf(id)
      BY <2>1, <2>2, <2>18 DEF WaitInv, LinksOf
    <3>2. CASE id # of
      <4>1. \A n \in Mail : Open(n, id)' <=> Open(n, id)
        BY <2>7, <2>8, <2>9, <2>18, <3>2, WaitBounds DEF Open, Entry
      <4>2. reopened'[id] = reopened[id]
        BY <2>10, <2>18, <3>2
      <4>3. s \notin Served(id)
        BY <2>4, <3>2 DEF Served
      <4> QED BY <2>2, <2>13, <2>14, <2>18, <3>1, <3>2, <4>1, <4>2, <4>3, EntryCalm DEF OfEntry
    <3>3. CASE id = of
      <4>1. \A t \in Served(id) : t = s
        BY <2>3, <2>4, <3>1, <3>3 DEF EntryOK
      <4>2. \A t \in Served(id)' : t = s
        BY <2>16, <4>1 DEF Served
      <4>3. \A t \in Served(id)' : ~Inviting(t)' /\ ~Recording(t)'
        <5>1. s \in Served(id)' => r.step = "done"
          BY <2>14, <2>16 DEF Served, OfEntry
        <5> QED BY <2>16, <4>2, <5>1 DEF Inviting, Recording
      <4>4. \A n \in Mail : Open(n, id)' => n = m /\ e.id = of /\ e.status # "invited"
        BY <2>9, <3>3 DEF Open
      <4>5. IsFiniteSet(LinksOf(id))
        <5>1. Len(links) \in Int /\ 1 \in Int
          BY <2>6
        <5>2. IsFiniteSet(1..Len(links))
          BY <5>1, FS_Interval
        <5>3. LinksOf(id) \subseteq 1..Len(links)
          BY DEF LinksOf
        <5> QED BY <5>2, <5>3, FS_Subset
      <4>6. /\ Cardinality(LinksOf(id)) \in Nat /\ reopened[id] \in Nat /\ reopened'[id] \in Nat
            /\ reopened[id] <= reopened'[id]
        BY <2>1, <2>2, <2>4, <2>10, <2>18, <3>3, <4>5, FS_CardinalityType DEF WaitTables
      <4>7. Cardinality(LinksOf(id)) <= 1 + reopened'[id]
        BY <3>1, <4>6 DEF EntryOK
      <4>8. ASSUME NEW n \in Mail, Open(n, id)'
            PROVE  Cardinality(LinksOf(id)) <= reopened'[id]
        <5>1. slot[s].op = "reject"
          BY <2>3, <2>6, <2>7, <4>4, <4>8 DEF OfEntry
        <5>2. CASE entry[m].status = "invited"
          <6>1. reopened'[id] = reopened[id] + 1
            BY <2>1, <2>2, <2>4, <2>18, <3>3, <5>1, <5>2 DEF WaitTables
          <6> QED BY <3>1, <4>6, <6>1 DEF EntryOK
        <5>3. CASE entry[m].status # "invited"
          <6>1. Open(m, id)
            BY <2>1, <2>4, <3>3, <5>3 DEF Open
          <6>2. \A t \in Served(id) : ~Recording(t)
            BY <4>1, <5>1 DEF Recording
          <6> QED BY <3>1, <4>6, <6>1, <6>2 DEF EntryOK
        <5> QED BY <5>2, <5>3
      <4>9. \A t, q \in Served(id)' : t = q
        BY <4>2
      <4>10. Cardinality(LinksOf(id)') <= 1 + reopened'[id]
        BY <3>1, <4>7
      <4>11. (\E n \in Mail : Open(n, id)') => Cardinality(LinksOf(id)') <= reopened'[id]
        BY <3>1, <4>8
      <4> QED BY <4>3, <4>9, <4>10, <4>11 DEF EntryOK
    <3> QED BY <3>2, <3>3
  <2> QED BY <2>9, <2>11, <2>15, <2>17, <2>18 DEF WaitInv
<1> QED BY <1>1, <1>2

LEMMA CreateEntryKeeps ==
  ASSUME WaitInv, NEW s \in Slot, CreateEntry(s)
  PROVE  WaitInv'
<1>1. /\ slot[s].step = "create" /\ slot' = [slot EXCEPT ![s] = Unused]
      /\ UNCHANGED <<panel, loads, mishaps, waitHistory>>
      /\ WaitTables /\ SlotsOK /\ RowsApart /\ PageOK
  BY DEF CreateEntry, WaitInv
<1>2. /\ UNCHANGED <<reopened, shaken>> /\ shaken \subseteq Entry
      /\ loads' = loads /\ panel' = panel /\ stale' = stale /\ stale' \in BOOLEAN
  BY <1>1 DEF waitHistory, WaitTables, PageOK
<1>3. slot[s].op = "join" /\ slot[s].of \in Mail /\ ~Recording(s)
  BY <1>1, SlotIs DEF Recording
<1>4. CASE entry[slot[s].of] # NoEntry
  <2>1. UNCHANGED waitlist /\ entry' = entry /\ lastEntry' = lastEntry
    BY <1>4 DEF CreateEntry, waitlist
  <2>2. PageOK' /\ PanelOK'
    <3>1. slot[s].step # "done"
      BY <1>1
    <3> QED BY <1>1, <1>2, <2>1, <3>1, PageCalm
  <2> QED BY <1>1, <1>2, <1>3, <2>1, <2>2, Ends
<1>5. CASE entry[slot[s].of] = NoEntry
  <2>1. PICK m \in Mail : m = slot[s].of
    BY <1>3
  <2>2. PICK new : new = lastEntry + 1
    OBVIOUS
  <2>3. PICK e : e = [id |-> new, status |-> "pending", link |-> 0]
    OBVIOUS
  <2>4. /\ lastEntry < MaxEntries /\ lastEntry' = new /\ entry' = [entry EXCEPT ![m] = e]
        /\ links' = links /\ known' = known
    BY <1>5, <2>1, <2>2, <2>3 DEF CreateEntry
  <2>5. /\ lastEntry \in Nat /\ new \in Nat /\ lastEntry' \in Nat /\ lastEntry <= lastEntry'
        /\ lastEntry' \in 0..MaxEntries /\ new \in Entry /\ new # 0 /\ new \notin 0..lastEntry
        /\ Len(links) \in Nat /\ Len(links') \in Nat /\ Len(links) <= Len(links')
        /\ 1..lastEntry \subseteq 1..lastEntry' /\ new \in 1..lastEntry' /\ 0 \in 0..Len(links)
    BY <1>1, <2>2, <2>4, WaitBounds DEF WaitTables, Entry
  <2>6. /\ \A n \in Mail : entry'[n] = IF n = m THEN e ELSE entry[n]
        /\ entry[m] = NoEntry /\ e.id = new
    BY <1>1, <1>5, <2>1, <2>3, <2>4 DEF WaitTables
  <2>7. \A n \in Mail : entry[n] \in {NoEntry} \cup EntryRow /\ entry[n].id \in 0..lastEntry
    BY <1>1, <2>5 DEF WaitTables, EntryRow, NoEntry
  <2>8. WaitTables'
    <3>1. e \in EntryRow' /\ EntryRow \subseteq EntryRow'
      BY <2>3, <2>4, <2>5, WaitBounds DEF EntryRow
    <3>2. entry' \in [Mail -> {NoEntry} \cup EntryRow']
      BY <1>1, <2>4, <3>1 DEF WaitTables
    <3>3. links' \in Seq(1..lastEntry')
      <4>1. links \in Seq(1..lastEntry)
        BY <1>1 DEF WaitTables
      <4> QED BY <2>4, <2>5, <4>1
    <3> QED BY <1>1, <1>2, <2>4, <2>5, <3>2, <3>3 DEF WaitTables
  <2>9. RowsApart'
    <3>1. ASSUME NEW n \in Mail, NEW q \in Mail, entry'[n].id = entry'[q].id, entry'[n].id # 0
          PROVE  n = q
      BY <1>1, <2>5, <2>6, <2>7, <3>1 DEF RowsApart
    <3> QED BY <3>1 DEF RowsApart
  <2>10. SlotsOK'
    <3>1. SlotOK(Unused)'
      BY <1>1, <2>5, UnusedOK, SlotGrows
    <3> QED BY <1>1, <2>5, <3>1, SlotsStep
  <2>11. PageOK'
    BY <1>1, <1>2, <2>5, PageSame
  <2>12. PanelOK'
    <3>1. Told => Told'
      <4>1. slot[s].step # "done"
        BY <1>1
      <4> QED BY <1>1, <4>1, OthersTold
    <3>2. Rows \subseteq Rows'
      BY <2>6 DEF Rows
    <3>3. \A f \in Status : Current(f) \subseteq Current(f)'
      BY <3>2 DEF Current
    <3> QED BY <1>2, <3>1, <3>3, PanelKept
  <2>13. ASSUME NEW id \in Entry \ shaken'
         PROVE  EntryOK(id)'
    <3>1. EntryOK(id) /\ LinksOf(id)' = LinksOf(id) /\ reopened'[id] = reopened[id]
      BY <1>2, <2>4, <2>13 DEF WaitInv, LinksOf
    <3>2. CASE id # new
      <4>1. \A n \in Mail : Open(n, id)' <=> Open(n, id)
        BY <2>6, <2>13, <3>2, WaitBounds DEF Open, Entry, NoEntry
      <4>2. Unused.op \notin OfEntry /\ Unused.op # "invite" /\ s \notin Served(id)
        BY <1>3 DEF Unused, OfEntry, Served
      <4> QED BY <1>1, <2>13, <3>1, <4>1, <4>2, EntryCalm
    <3>3. CASE id = new
      <4>1. \A t \in Slot : slot[t].op \in OfEntry => slot[t].of # id
        <5>1. ASSUME NEW t \in Slot, slot[t].op \in OfEntry
              PROVE  slot[t].of \in 1..lastEntry
          BY <1>1, <5>1 DEF SlotsOK, SlotOK
        <5> QED BY <2>5, <3>3, <5>1
      <4>2. Served(id)' = {}
        <5>1. \A t \in Slot : slot'[t] = IF t = s THEN Unused ELSE slot[t]
          BY <1>1, OneSlot
        <5>2. Unused.op \notin OfEntry
          BY DEF Unused, OfEntry
        <5> QED BY <4>1, <5>1, <5>2 DEF Served, OfEntry
      <4>3. LinksOf(id) = {}
        BY <1>1, <2>5, <3>3 DEF WaitTables, LinksOf
      <4>4. Cardinality(LinksOf(id)') = 0
        BY <3>1, <4>3, FS_EmptySet
      <4>5. reopened'[id] \in Nat
        BY <2>8, <2>13 DEF WaitTables
      <4> QED BY <4>2, <4>4, <4>5 DEF EntryOK
    <3> QED BY <3>2, <3>3
  <2> QED BY <2>8, <2>9, <2>10, <2>11, <2>12, <2>13 DEF WaitInv
<1> QED BY <1>4, <1>5

\* A request for an entry comes in.
LEMMA AskKeeps ==
  ASSUME WaitInv, NEW s \in Slot, NEW op \in OfEntry, NEW id \in 1..lastEntry,
         NEW watched \in BOOLEAN, Ask(s, op, id, watched), UNCHANGED <<waitlist, reopened, stale>>,
         loads' = loads, panel'.filter = panel.filter, panel'.rows = panel.rows,
         panel' \in [open : BOOLEAN, filter : Status, rows : SUBSET ShownRow,
                     loading : BOOLEAN, sending : 0..lastEntry]
  PROVE  WaitInv'
<1>1. PICK r : r = [op |-> op, step |-> "find", of |-> id, link |-> 0,
                    watched |-> watched, filter |-> panel.filter]
  OBVIOUS
<1>2. /\ slot[s] = Unused /\ slot' = [slot EXCEPT ![s] = r]
      /\ shaken' = IF Served(id) = {} THEN shaken ELSE shaken \cup {id}
      /\ WaitTables /\ SlotsOK /\ PageOK /\ PanelOK
  BY <1>1 DEF Ask, WaitInv
<1>3. /\ id \in Entry /\ shaken \subseteq shaken' /\ shaken' \subseteq Entry
      /\ Served(id) = {} \/ id \in shaken'
  <2>1. lastEntry \in 0..MaxEntries /\ shaken \subseteq Entry
    BY <1>2 DEF WaitTables
  <2>2. id \in Entry
    BY <2>1, WaitBounds DEF Entry
  <2> QED BY <1>2, <2>1, <2>2
<1>4. /\ r.op = op /\ r.of = id /\ r.step = "find" /\ r.watched = watched
  BY <1>1
<1>5. SlotOK(r)
  <2>1. 0 \in 0..Len(links) /\ id \in 0..lastEntry /\ panel.filter \in Status
    BY <1>2, WaitBounds DEF WaitTables, PageOK
  <2>2. r \in SlotRow
    BY <1>1, <2>1 DEF SlotRow
  <2> QED BY <1>4, <2>2 DEF SlotOK, OfEntry
<1>6. ~Recording(s) /\ slot[s].step # "done"
  BY <1>2, UnusedOK DEF Recording
<1>7. entry' = entry /\ lastEntry' = lastEntry /\ stale' = stale
  BY DEF waitlist
<1>8. PanelOK'
  <2>1. (Told => Told') /\ \A f \in Status : Current(f) \subseteq Current(f)'
    BY <1>2, <1>6, <1>7, OthersTold, CurrentSame
  <2> QED BY <1>7, <2>1, PanelKept
<1>9. PageOK'
  <2>1. ASSUME NEW l \in loads
        PROVE  ListOK(l)'
    BY <1>2, <1>7, <2>1 DEF PageOK, ListOK, ShownRow
  <2> QED BY <1>2, <1>7, <2>1 DEF PageOK, ShownRow
<1> QED BY <1>2, <1>3, <1>4, <1>5, <1>6, <1>8, <1>9, SlotStep

LEMMA AsksKeep ==
  ASSUME WaitInv, NEW s \in Slot,
         \/ \E op \in {"invite", "reject", "delete"}, id \in 1..lastEntry : OtherAdmin(s, op, id)
         \/ \E e \in panel.rows : SendInviteToWaitlist(s, e) \/ RejectWaitlist(s, e)
  PROVE  WaitInv'
<1>1. /\ panel \in [open : BOOLEAN, filter : Status, rows : SUBSET ShownRow,
                    loading : BOOLEAN, sending : 0..lastEntry]
      /\ lastEntry \in Nat
  BY WaitBounds DEF WaitInv, PageOK, WaitTables
<1>2. ASSUME NEW op \in {"invite", "reject", "delete"}, NEW id \in 1..lastEntry,
             OtherAdmin(s, op, id)
      PROVE  WaitInv'
  <2>1. /\ Ask(s, op, id, FALSE) /\ UNCHANGED <<waitlist, reopened, stale>>
        /\ loads' = loads /\ panel' = panel /\ op \in OfEntry
    BY <1>2 DEF OtherAdmin, OfEntry
  <2> QED BY <1>1, <2>1, AskKeeps
<1>3. ASSUME NEW e \in panel.rows, SendInviteToWaitlist(s, e)
      PROVE  WaitInv'
  <2>1. e.id \in 1..lastEntry /\ e.id \in 0..lastEntry
    BY <1>1, <1>3 DEF ShownRow
  <2>2. /\ Ask(s, "invite", e.id, TRUE) /\ UNCHANGED <<waitlist, reopened, stale>>
        /\ loads' = loads /\ "invite" \in OfEntry /\ panel' = [panel EXCEPT !.sending = e.id]
    BY <1>3 DEF SendInviteToWaitlist, OfEntry
  <2>3. /\ panel'.filter = panel.filter /\ panel'.rows = panel.rows
        /\ panel' \in [open : BOOLEAN, filter : Status, rows : SUBSET ShownRow,
                       loading : BOOLEAN, sending : 0..lastEntry]
    BY <1>1, <2>1, <2>2
  <2> QED BY <2>1, <2>2, <2>3, AskKeeps
<1>4. ASSUME NEW e \in panel.rows, RejectWaitlist(s, e)
      PROVE  WaitInv'
  <2>1. e.id \in 1..lastEntry
    BY <1>1, <1>4 DEF ShownRow
  <2>2. /\ Ask(s, "reject", e.id, TRUE) /\ UNCHANGED <<waitlist, reopened, stale>>
        /\ loads' = loads /\ "reject" \in OfEntry /\ panel' = panel
    BY <1>4 DEF RejectWaitlist, OfEntry
  <2> QED BY <1>1, <2>1, <2>2, AskKeeps
<1> QED BY <1>2, <1>3, <1>4

-----------------------------------------------------------------------------
(* The page of the waitlist.                                               *)

\* loadWaitlist asks for lists of the filter that have not been served.
LEMMA Loads ==
  ASSUME NEW filter \in Status, NEW k \in Nat, k # 0, Loading(filter, k)
  PROVE  /\ loads \subseteq loads' /\ loads' # {}
         /\ \A l \in loads' : l \in loads \/ (ListOK(l) /\ l.filter = filter /\ l.served = FALSE)
<1>1. PICK M \in SUBSET (1..MaxLoads) :
        /\ Cardinality(M) = k
        /\ loads' = loads \cup {[filter |-> filter, n |-> m, served |-> FALSE, rows |-> {}] : m \in M}
  BY DEF Loading
<1>2. M # {}
  BY <1>1, FS_EmptySet
<1>3. PICK m \in M : TRUE
  BY <1>2
<1>4. [filter |-> filter, n |-> m, served |-> FALSE, rows |-> {}] \in loads'
  BY <1>1, <1>3
<1>5. ASSUME NEW l \in loads', l \notin loads
      PROVE  ListOK(l) /\ l.filter = filter /\ l.served = FALSE
  <2>1. PICK n \in M : l = [filter |-> filter, n |-> n, served |-> FALSE, rows |-> {}]
    BY <1>1, <1>5
  <2> QED BY <2>1 DEF ListOK
<1> QED BY <1>1, <1>4, <1>5

\* What the page does leaves the tables and the requests alone.
LEMMA PageStep ==
  ASSUME WaitInv, UNCHANGED <<waitlist, slot, shaken, reopened>>, PageOK', PanelOK'
  PROVE  WaitInv'
<1>1. /\ UNCHANGED <<entry, lastEntry, links, known, slot, shaken, reopened>>
      /\ WaitTables /\ SlotsOK /\ RowsApart
  BY DEF waitlist, WaitInv
<1>2. WaitTables' /\ RowsApart'
  BY <1>1 DEF WaitTables, EntryRow, RowsApart
<1>3. SlotsOK'
  BY <1>1 DEF SlotsOK, SlotOK, SlotRow
<1>4. ASSUME NEW id \in Entry \ shaken'
      PROVE  EntryOK(id)'
  <2>1. EntryOK(id)
    BY <1>1, <1>4 DEF WaitInv
  <2> QED BY <1>1, <2>1 DEF EntryOK, LinksOf, Open, Served, Recording, Inviting
<1> QED BY <1>2, <1>3, <1>4 DEF WaitInv

\* The lists are loaded again, with the filter of the page if it is not stale.
LEMMA Reload ==
  ASSUME PageOK, NEW filter \in Status, NEW k \in Nat, k # 0, Loading(filter, k),
         lastEntry' = lastEntry,
         panel' \in [open : BOOLEAN, filter : Status, rows : SUBSET ShownRow,
                     loading : BOOLEAN, sending : 0..lastEntry],
         stale' = (loads # {} \/ filter # panel'.filter)
  PROVE  PageOK' /\ PanelOK'
<1>1. /\ loads' # {}
      /\ \A l \in loads' : l \in loads \/ (ListOK(l) /\ l.filter = filter /\ l.served = FALSE)
  BY Loads
<1>2. ASSUME NEW l \in loads'
      PROVE  ListOK(l)'
  <2>1. ListOK(l)
    BY <1>1, <1>2 DEF PageOK
  <2> QED BY <2>1 DEF ListOK, ShownRow
<1>3. PageOK'
  BY <1>2 DEF PageOK, ShownRow
<1>4. ASSUME stale' = FALSE
      PROVE  \A l \in loads' : l.filter = panel'.filter /\ l.served = FALSE
  BY <1>1, <1>4
<1>5. PanelOK'
  BY <1>1, <1>4 DEF PanelOK
<1> QED BY <1>3, <1>5

LEMMA DoneKeeps ==
  ASSUME WaitInv, NEW s \in Slot, Done(s)
  PROVE  WaitInv'
<1>1. /\ slot[s].step = "done" /\ slot' = [slot EXCEPT ![s] = Unused]
      /\ panel' = [panel EXCEPT !.sending = Sent(slot[s]), !.loading = TRUE]
      /\ Loading(slot[s].filter, 1)
      /\ stale' = (loads # {} \/ slot[s].filter # panel.filter)
      /\ UNCHANGED <<waitlist, mishaps, shaken, reopened>>
      /\ SlotsOK /\ PageOK /\ WaitTables
  BY DEF Done, WaitInv
<1>2. slot[s].filter \in Status /\ ~Recording(s)
  BY <1>1, SlotIs DEF SlotRow, Recording
<1>3. /\ lastEntry' = lastEntry /\ lastEntry \in Nat
      /\ panel \in [open : BOOLEAN, filter : Status, rows : SUBSET ShownRow,
                    loading : BOOLEAN, sending : 0..lastEntry]
  BY <1>1, WaitBounds DEF waitlist, WaitTables, PageOK
<1>4. Sent(slot[s]) \in 0..lastEntry
  BY <1>3 DEF Sent
<1>5. /\ panel' \in [open : BOOLEAN, filter : Status, rows : SUBSET ShownRow,
                     loading : BOOLEAN, sending : 0..lastEntry]
      /\ panel'.filter = panel.filter
  BY <1>1, <1>3, <1>4
<1>6. PageOK' /\ PanelOK'
  <2>1. stale' = (loads # {} \/ slot[s].filter # panel'.filter)
    BY <1>1, <1>5
  <2>2. 1 \in Nat /\ 1 # 0
    OBVIOUS
  <2> QED BY <1>1, <1>2, <1>3, <1>5, <2>1, <2>2, Reload
<1> QED BY <1>1, <1>2, <1>6, Ends

LEMMA FailedKeeps ==
  ASSUME WaitInv, NEW s \in Slot, Failed(s)
  PROVE  WaitInv'
<1>1. /\ slot[s].step = "failed" /\ slot' = [slot EXCEPT ![s] = Unused]
      /\ panel' = [panel EXCEPT !.sending = Sent(slot[s])] /\ loads' = loads
      /\ UNCHANGED <<waitlist, mishaps, waitHistory>>
      /\ SlotsOK /\ PageOK /\ WaitTables
  BY DEF Failed, WaitInv
<1>2. /\ UNCHANGED <<waitlist, reopened, shaken>> /\ entry' = entry /\ lastEntry' = lastEntry
      /\ stale' = stale /\ stale \in BOOLEAN /\ ~Recording(s) /\ lastEntry \in Nat
      /\ panel \in [open : BOOLEAN, filter : Status, rows : SUBSET ShownRow,
                    loading : BOOLEAN, sending : 0..lastEntry]
  BY <1>1, WaitBounds DEF waitlist, waitHistory, WaitTables, PageOK, Recording
<1>3. Sent(slot[s]) \in 0..lastEntry
  BY <1>2 DEF Sent
<1>4. /\ panel' \in [open : BOOLEAN, filter : Status, rows : SUBSET ShownRow,
                     loading : BOOLEAN, sending : 0..lastEntry]
      /\ panel'.filter = panel.filter /\ panel'.rows = panel.rows
  BY <1>1, <1>2, <1>3
<1>5. PanelOK'
  <2>1. slot[s].step # "done"
    BY <1>1
  <2>2. (Told => Told') /\ \A f \in Status : Current(f) \subseteq Current(f)'
    BY <1>1, <1>2, <2>1, OthersTold, CurrentSame
  <2> QED BY <1>1, <1>2, <1>4, <2>2, PanelKept
<1>6. PageOK'
  <2>1. ASSUME NEW l \in loads
        PROVE  ListOK(l)'
    BY <1>1, <1>2, <2>1 DEF PageOK, ListOK, ShownRow
  <2> QED BY <1>1, <1>2, <1>4, <2>1 DEF PageOK, ShownRow
<1> QED BY <1>1, <1>2, <1>5, <1>6, Ends

\* What is left of a request its page no longer waits for.
LEMMA LetGo ==
  ASSUME WaitInv, NEW s \in Slot, slot[s].op \in OfEntry,
         NEW r, r = IF slot[s].step \in {"done", "failed"} THEN Unused
                    ELSE [slot[s] EXCEPT !.watched = FALSE]
  PROVE  /\ SlotOK(r)
         /\ slot[s].step \in {"done", "failed"} => r = Unused
         /\ slot[s].step \notin {"done", "failed"} =>
              r.op = slot[s].op /\ r.step = slot[s].step /\ r.of = slot[s].of
<1>1. SlotOK(slot[s]) /\ slot[s] \in SlotRow /\ WaitTables
  BY SlotIs DEF WaitInv
<1>2. CASE slot[s].step \in {"done", "failed"}
  BY <1>1, <1>2, UnusedOK
<1>3. CASE slot[s].step \notin {"done", "failed"}
  <2>1. /\ r = [slot[s] EXCEPT !.watched = FALSE] /\ r \in SlotRow
        /\ r.op = slot[s].op /\ r.step = slot[s].step /\ r.of = slot[s].of /\ r.link = slot[s].link
        /\ r.watched = FALSE
    BY <1>1, <1>3 DEF SlotRow
  <2>2. SlotOK(r)
    BY <1>1, <2>1 DEF SlotOK, OfEntry
  <2> QED BY <1>3, <2>1, <2>2
<1> QED BY <1>2, <1>3

LEMMA GivesUpKeeps ==
  ASSUME WaitInv, NEW s \in Slot, GivesUp(s)
  PROVE  WaitInv'
<1>1. PICK r : r = IF slot[s].step \in {"done", "failed"} THEN Unused
                   ELSE [slot[s] EXCEPT !.watched = FALSE]
  OBVIOUS
<1>2. /\ slot[s].watched = TRUE /\ slot' = [slot EXCEPT ![s] = r]
      /\ panel' = [panel EXCEPT !.sending = Sent(slot[s])] /\ stale' = TRUE
      /\ UNCHANGED <<waitlist, loads, shaken, reopened>>
      /\ WaitTables /\ SlotsOK /\ PageOK
  BY <1>1, SlotIs DEF GivesUp, Watched, WaitInv
<1>3. /\ slot[s].op \in OfEntry /\ s \in Served(slot[s].of) /\ SlotOK(slot[s])
      /\ shaken' = shaken /\ shaken \subseteq Entry
  BY <1>2, SlotIs DEF WaitTables
<1>4. /\ SlotOK(r)
      /\ slot[s].step \in {"done", "failed"} => r = Unused
      /\ slot[s].step \notin {"done", "failed"} =>
           r.op = slot[s].op /\ r.step = slot[s].step /\ r.of = slot[s].of
  BY <1>1, <1>3, LetGo
<1>5. /\ entry' = entry /\ lastEntry' = lastEntry /\ loads' = loads /\ lastEntry \in Nat
      /\ panel \in [open : BOOLEAN, filter : Status, rows : SUBSET ShownRow,
                    loading : BOOLEAN, sending : 0..lastEntry]
  BY <1>2, WaitBounds DEF waitlist, WaitTables, PageOK
<1>6. PageOK' /\ PanelOK'
  <2>1. Sent(slot[s]) \in 0..lastEntry
    BY <1>5 DEF Sent
  <2>2. panel' \in [open : BOOLEAN, filter : Status, rows : SUBSET ShownRow,
                    loading : BOOLEAN, sending : 0..lastEntry]
    BY <1>2, <1>5, <2>1
  <2> QED BY <1>2, <1>5, <2>2, PageUntold
<1>7. r.op \in OfEntry => slot[s].step \notin {"done", "failed"} /\ r.of = slot[s].of
  BY <1>4 DEF Unused, OfEntry
<1>8. ASSUME r.op = "invite", r.step \in {"link", "write"}, r.of \notin shaken
      PROVE  \E m \in Mail : Open(m, r.of)
  <2>1. Inviting(s) /\ r.of = slot[s].of
    BY <1>4, <1>7, <1>8 DEF Inviting, OfEntry
  <2>2. slot[s].of \in Entry
    BY <1>2, <1>3, WaitBounds DEF WaitTables, Entry, SlotOK
  <2>3. EntryOK(slot[s].of)
    BY <1>8, <2>1, <2>2 DEF WaitInv
  <2> QED BY <1>3, <2>1, <2>3 DEF EntryOK
<1>9. Recording(s) => r.op = "invite" /\ r.step = "write" /\ r.of = slot[s].of
  BY <1>4 DEF Recording
<1> QED BY <1>2, <1>3, <1>4, <1>6, <1>7, <1>8, <1>9, SlotStep

LEMMA SentAgainKeeps ==
  ASSUME WaitInv, NEW s \in Slot, NEW t \in Slot, SentAgain(s, t)
  PROVE  WaitInv'
<1>1. PICK a : a = [slot[s] EXCEPT !.step = "find", !.link = 0]
  OBVIOUS
<1>2. PICK r : r = IF slot[s].step \in {"done", "failed"} THEN Unused
                   ELSE [slot[s] EXCEPT !.watched = FALSE]
  OBVIOUS
<1>3. /\ slot[s].watched = TRUE /\ slot[t] = Unused /\ stale' = TRUE
      /\ slot' = [slot EXCEPT ![t] = a, ![s] = r]
      /\ shaken' = IF slot[s].step \in {"done", "failed"} THEN shaken ELSE shaken \cup {slot[s].of}
      /\ UNCHANGED <<waitlist, panel, loads, reopened>>
      /\ WaitTables /\ SlotsOK /\ RowsApart /\ PageOK
  BY <1>1, <1>2, SlotIs DEF SentAgain, Watched, WaitInv
<1>4. /\ slot[s].op \in OfEntry /\ s \in Served(slot[s].of) /\ SlotOK(slot[s])
      /\ slot[s] \in SlotRow /\ slot[s].of \in 1..lastEntry
  BY <1>3, SlotIs DEF SlotOK
<1>5. /\ UNCHANGED <<entry, lastEntry, links, known, reopened>> /\ lastEntry \in Nat
      /\ Len(links) \in Nat /\ lastEntry' \in Nat /\ lastEntry <= lastEntry'
      /\ Len(links') \in Nat /\ Len(links) <= Len(links') /\ slot[s].of \in Entry
  BY <1>3, <1>4, WaitBounds DEF waitlist, WaitTables, Entry
<1>6. s # t /\ \A q \in Slot : slot'[q] = IF q = s THEN r ELSE IF q = t THEN a ELSE slot[q]
  <2>1. s # t
    BY <1>3, UnusedOK
  <2> QED BY <1>3, <2>1 DEF SlotsOK
<1>7. shaken \subseteq shaken' /\ shaken' \subseteq Entry
  BY <1>3, <1>5 DEF WaitTables
<1>8. /\ SlotOK(r)
      /\ slot[s].step \in {"done", "failed"} => r = Unused
      /\ slot[s].step \notin {"done", "failed"} =>
           r.op = slot[s].op /\ r.step = slot[s].step /\ r.of = slot[s].of
  BY <1>2, <1>4, LetGo
<1>9. /\ SlotOK(a) /\ a.op = slot[s].op /\ a.of = slot[s].of /\ a.step = "find"
  <2>1. 0 \in 0..Len(links)
    BY <1>5
  <2>2. /\ a.op = slot[s].op /\ a.of = slot[s].of /\ a.step = "find" /\ a \in SlotRow
        /\ a.watched = slot[s].watched
    BY <1>1, <1>4, <2>1 DEF SlotRow
  <2> QED BY <1>4, <2>2 DEF SlotOK, OfEntry
<1>10. WaitTables' /\ RowsApart'
  BY <1>3, <1>5, <1>7 DEF WaitTables, EntryRow, RowsApart
<1>11. SlotsOK'
  <2>1. DOMAIN slot' = Slot
    BY <1>3 DEF SlotsOK
  <2>2. ASSUME NEW q \in Slot
        PROVE  SlotOK(slot[q])'
    <3>1. PICK x : x = slot'[q]
      OBVIOUS
    <3>2. SlotOK(x)
      BY <1>3, <1>6, <1>8, <1>9, <3>1 DEF SlotsOK
    <3>3. SlotOK(x)'
      BY <1>5, <3>2, SlotGrows
    <3> QED BY <3>1, <3>3
  <2> QED BY <2>1, <2>2 DEF SlotsOK
<1>12. PageOK' /\ PanelOK'
  <2>1. panel' \in [open : BOOLEAN, filter : Status, rows : SUBSET ShownRow,
                    loading : BOOLEAN, sending : 0..lastEntry]
    BY <1>3 DEF PageOK
  <2> QED BY <1>3, <1>5, <2>1, PageUntold
<1>13. ASSUME NEW id \in Entry \ shaken'
       PROVE  EntryOK(id)'
  <2>1. EntryOK(id) /\ LinksOf(id)' = LinksOf(id) /\ reopened'[id] = reopened[id]
    BY <1>5, <1>7, <1>13 DEF WaitInv, LinksOf
  <2>2. \A m \in Mail : Open(m, id)' <=> Open(m, id)
    BY <1>5 DEF Open
  <2>3. CASE id = slot[s].of
    <3>1. slot[s].step \in {"done", "failed"} /\ r = Unused
      BY <1>3, <1>8, <1>13, <2>3
    <3>2. \A q \in Served(id) : q = s
      BY <1>4, <2>1, <2>3 DEF EntryOK
    <3>3. \A q \in Served(id) : ~Recording(q)
      BY <3>1, <3>2 DEF Recording
    <3>4. Unused.op \notin OfEntry
      BY DEF Unused, OfEntry
    <3>5. \A q \in Served(id)' : q = t
      <4>1. ASSUME NEW q \in Slot, q \in Served(id)'
            PROVE  q = t
        <5>1. slot'[q].op \in OfEntry /\ slot'[q].of = id
          BY <4>1 DEF Served, OfEntry
        <5>2. q # s
          BY <1>6, <3>1, <3>4, <5>1
        <5>3. q # t => q \in Served(id)
          BY <1>6, <5>1, <5>2 DEF Served, OfEntry
        <5> QED BY <3>2, <5>2, <5>3
      <4>2. Served(id)' \subseteq Slot
        BY DEF Served
      <4> QED BY <4>1, <4>2
    <3>6. ~Inviting(t)'
      BY <1>6, <1>9 DEF Inviting
    <3> QED BY <2>1, <2>2, <3>3, <3>5, <3>6 DEF EntryOK
  <2>4. CASE id # slot[s].of
    <3>1. /\ s \notin Served(id) /\ t \notin Served(id)
      BY <1>3, <2>4, UnusedOK DEF Served
    <3>2. /\ s \notin Served(id)' /\ t \notin Served(id)'
      <4>1. r.op \in OfEntry => r.of = slot[s].of
        BY <1>8 DEF Unused, OfEntry
      <4> QED BY <1>6, <1>9, <2>4, <4>1 DEF Served, OfEntry
    <3>3. ASSUME NEW q \in Slot, q \notin {s, t}
          PROVE  /\ q \in Served(id)' <=> q \in Served(id)
                 /\ Recording(q)' <=> Recording(q)
                 /\ Inviting(q)' <=> Inviting(q)
      BY <1>6, <3>3 DEF Served, Recording, Inviting
    <3>4. Served(id)' = Served(id)
      BY <3>1, <3>2, <3>3 DEF Served
    <3>5. ASSUME NEW q \in Served(id)
          PROVE  /\ Recording(q)' <=> Recording(q)
                 /\ Inviting(q)' <=> Inviting(q)
      <4>1. q \in Slot /\ q \notin {s, t}
        BY <3>1, <3>5 DEF Served
      <4> QED BY <3>3, <4>1
    <3> QED BY <2>1, <2>2, <3>4, <3>5 DEF EntryOK
  <2> QED BY <2>3, <2>4
<1> QED BY <1>10, <1>11, <1>12, <1>13 DEF WaitInv

LEMMA ServerStopsKeeps ==
  ASSUME WaitInv, ServerStops
  PROVE  WaitInv'
<1>1. /\ shaken' = shaken \cup {slot[s].of : s \in {t \in Slot : slot[t].link # 0 /\ slot[t].step = "write"}}
      /\ UNCHANGED <<waitlist, panel, loads, reopened, stale>>
      /\ WaitTables /\ SlotsOK /\ RowsApart /\ PageOK /\ PanelOK
  BY DEF ServerStops, WaitInv
<1>2. /\ UNCHANGED <<entry, lastEntry, links, known, reopened>> /\ lastEntry \in Nat
      /\ Len(links) \in Nat /\ lastEntry' \in Nat /\ lastEntry <= lastEntry'
      /\ Len(links') \in Nat /\ Len(links) <= Len(links') /\ 1..lastEntry \subseteq Entry
  BY <1>1, WaitBounds DEF waitlist, WaitTables, Entry
<1>3. /\ DOMAIN slot' = Slot
      /\ \A q \in Slot : slot'[q] =
           IF slot[q].watched /\ slot[q].step \notin {"done", "failed"}
           THEN [slot[q] EXCEPT !.step = "failed"]
           ELSE IF slot[q].watched THEN slot[q] ELSE Unused
  BY DEF ServerStops
<1>4. ASSUME NEW q \in Slot
      PROVE  /\ SlotOK(slot'[q])
             /\ slot'[q].op \in OfEntry =>
                  /\ slot'[q].op = slot[q].op /\ slot'[q].of = slot[q].of
                  /\ slot'[q].step \in {"done", "failed"}
             /\ slot[q].watched = TRUE /\ slot[q].step = "done" => slot'[q] = slot[q]
  <2>1. SlotOK(slot[q]) /\ slot[q] \in SlotRow /\ slot[q].watched \in BOOLEAN
    BY <1>1, SlotIs
  <2>2. CASE slot[q].watched = TRUE
    <3>1. slot[q].op \in OfEntry
      BY <1>1, <2>2, SlotIs
    <3>2. CASE slot[q].step \in {"done", "failed"}
      BY <1>3, <2>1, <2>2, <3>2
    <3>3. CASE slot[q].step \notin {"done", "failed"}
      <4>1. slot'[q] = [slot[q] EXCEPT !.step = "failed"]
        BY <1>3, <2>2, <3>3
      <4>2. PICK x : x = slot'[q]
        OBVIOUS
      <4>3. /\ x \in SlotRow /\ x.op = slot[q].op /\ x.of = slot[q].of /\ x.step = "failed"
            /\ x.watched = slot[q].watched
        BY <2>1, <4>1, <4>2 DEF SlotRow
      <4>4. SlotOK(x)
        BY <2>1, <3>1, <4>3 DEF SlotOK, OfEntry
      <4> QED BY <3>3, <4>2, <4>3, <4>4
    <3> QED BY <3>2, <3>3
  <2>3. CASE slot[q].watched = FALSE
    <3>1. slot'[q] = Unused
      BY <1>3, <2>3
    <3> QED BY <1>1, <2>3, <3>1, UnusedOK DEF OfEntry
  <2> QED BY <2>1, <2>2, <2>3
<1>5. shaken \subseteq shaken' /\ shaken' \subseteq Entry
  <2>1. ASSUME NEW q \in Slot, slot[q].step = "write"
        PROVE  slot[q].of \in Entry
    BY <1>1, <1>2, <2>1, SlotIs
  <2> QED BY <1>1, <2>1 DEF WaitTables
<1>6. WaitTables' /\ RowsApart'
  BY <1>1, <1>2, <1>5 DEF WaitTables, EntryRow, RowsApart
<1>7. SlotsOK'
  <2>1. ASSUME NEW q \in Slot
        PROVE  SlotOK(slot[q])'
    <3>1. PICK x : x = slot'[q]
      OBVIOUS
    <3>2. SlotOK(x)
      BY <1>4, <3>1
    <3>3. SlotOK(x)'
      BY <1>2, <3>2, SlotGrows
    <3> QED BY <3>1, <3>3
  <2> QED BY <1>3, <2>1 DEF SlotsOK
<1>8. PageOK' /\ PanelOK'
  <2>1. panel' = panel /\ loads' = loads /\ stale' = stale /\ stale' \in BOOLEAN
    BY <1>1 DEF PageOK
  <2>2. PageOK'
    BY <1>1, <1>2, <2>1, PageSame
  <2>3. Told => Told'
    BY <1>4 DEF Told
  <2>4. \A f \in Status : Current(f) \subseteq Current(f)'
    BY <1>2, CurrentSame
  <2> QED BY <2>1, <2>2, <2>3, <2>4, PanelKept
<1>9. ASSUME NEW id \in Entry \ shaken'
      PROVE  EntryOK(id)'
  <2>1. EntryOK(id) /\ LinksOf(id)' = LinksOf(id) /\ reopened'[id] = reopened[id]
    BY <1>2, <1>5, <1>9 DEF WaitInv, LinksOf
  <2>2. \A m \in Mail : Open(m, id)' <=> Open(m, id)
    BY <1>2 DEF Open
  <2>3. Served(id)' \subseteq Served(id)
    BY <1>4 DEF Served, OfEntry
  <2>4. \A q \in Served(id) : ~Recording(q)
    <3>1. ASSUME NEW q \in Served(id), Recording(q)
          PROVE  FALSE
      <4>1. q \in Slot /\ slot[q].of = id
        BY <3>1 DEF Served
      <4>2. SlotOK(slot[q])
        BY <1>1, <4>1, SlotIs
      <4>3. slot[q].link # 0 /\ slot[q].step = "write"
        BY <3>1, <4>2 DEF SlotOK, Recording
      <4> QED BY <1>1, <1>9, <4>1, <4>3
    <3> QED BY <3>1
  <2>5. \A q \in Served(id)' : ~Inviting(q)'
    BY <1>4 DEF Served, Inviting, OfEntry
  <2> QED BY <2>1, <2>2, <2>3, <2>4, <2>5 DEF EntryOK
<1> QED BY <1>6, <1>7, <1>8, <1>9 DEF WaitInv

LEMMA PageActions ==
  ASSUME WaitInv,
         \/ \E m \in Mail : RegisterMail(m)
         \/ \E l \in loads : ServeLoad(l) \/ SetEntries(l) \/ LoadFails(l)
         \/ ShowTab \/ HideTab
         \/ \E filter \in Status : SetFilter(filter)
  PROVE  WaitInv'
<1>1. /\ panel \in [open : BOOLEAN, filter : Status, rows : SUBSET ShownRow,
                    loading : BOOLEAN, sending : 0..lastEntry]
      /\ \A l \in loads : ListOK(l)
      /\ stale \in BOOLEAN /\ PageOK /\ PanelOK /\ WaitTables /\ SlotsOK /\ RowsApart
      /\ lastEntry \in Nat /\ panel.filter \in Status
  BY WaitBounds DEF WaitInv, PageOK, WaitTables
<1>2. ASSUME NEW m \in Mail, RegisterMail(m)
      PROVE  WaitInv'
  <2>1. /\ known' = known \cup {m}
        /\ UNCHANGED <<entry, lastEntry, links, slot, panel, loads, mishaps, waitHistory>>
        /\ UNCHANGED <<shaken, reopened, stale>>
    BY <1>2 DEF RegisterMail, waitHistory
  <2>2. WaitTables' /\ RowsApart' /\ SlotsOK'
    BY <1>1, <2>1 DEF WaitTables, EntryRow, RowsApart, SlotsOK, SlotOK, SlotRow
  <2>3. PageOK'
    BY <1>1, <2>1 DEF PageOK, ListOK, ShownRow
  <2>4. PanelOK'
    BY <1>1, <2>1 DEF PanelOK, Told, Current, Rows
  <2>5. ASSUME NEW id \in Entry \ shaken'
        PROVE  EntryOK(id)'
    <3>1. EntryOK(id)
      BY <2>1, <2>5 DEF WaitInv
    <3> QED BY <2>1, <3>1 DEF EntryOK, LinksOf, Open, Served, Recording, Inviting
  <2> QED BY <2>2, <2>3, <2>4, <2>5 DEF WaitInv
<1>3. ASSUME NEW l \in loads, ServeLoad(l)
      PROVE  WaitInv'
  <2>1. PICK served : served = [l EXCEPT !.served = TRUE, !.rows = Current(l.filter)]
    OBVIOUS
  <2>2. /\ loads' = (loads \ {l}) \cup {served}
        /\ UNCHANGED <<waitlist, slot, panel, mishaps, waitHistory>>
        /\ UNCHANGED <<shaken, reopened, stale, entry, lastEntry, slot, panel>>
    BY <1>3, <2>1 DEF ServeLoad, waitHistory, waitlist, Current
  <2>3. Current(l.filter) \subseteq ShownRow
    <3>1. ASSUME NEW e \in Rows
          PROVE  Shown(e) \in ShownRow
      <4>1. e \in EntryRow
        BY <1>1, <3>1 DEF Rows, WaitTables
      <4> QED BY <4>1 DEF EntryRow, Shown, ShownRow
    <3> QED BY <3>1 DEF Current
  <2>4. /\ ListOK(served) /\ served.filter = l.filter
        /\ served.rows = Current(l.filter)
    BY <1>1, <2>1, <2>3 DEF ListOK
  <2>5. PageOK'
    <3>1. ASSUME NEW q \in loads'
          PROVE  ListOK(q)'
      <4>1. ListOK(q)
        BY <1>1, <2>2, <2>4, <3>1
      <4> QED BY <2>2, <4>1 DEF ListOK, ShownRow
    <3> QED BY <1>1, <2>2, <3>1 DEF PageOK, ShownRow
  <2>6. PanelOK'
    <3>1. (Told' <=> Told) /\ \A f \in Status : Current(f)' = Current(f)
      BY <2>2 DEF Told, Current, Rows
    <3>2. loads' # {}
      BY <2>2
    <3>3. ASSUME stale' = FALSE, NEW q \in loads'
          PROVE  /\ q.filter = panel'.filter
                 /\ q.served = TRUE => Told' \/ q.rows \subseteq Current(q.filter)'
      <4>1. \A x \in loads : x.filter \in Status
        BY <1>1 DEF ListOK
      <4>2. CASE q = served
        BY <1>1, <2>2, <2>4, <3>1, <3>3, <4>1, <4>2 DEF PanelOK
      <4>3. CASE q # served
        BY <1>1, <2>2, <3>1, <3>3, <4>1, <4>3 DEF PanelOK
      <4> QED BY <4>2, <4>3
    <3> QED BY <3>2, <3>3 DEF PanelOK
  <2> QED BY <2>2, <2>5, <2>6, PageStep
<1>4. ASSUME NEW l \in loads, SetEntries(l)
      PROVE  WaitInv'
  <2>1. /\ l.served = TRUE /\ loads' = loads \ {l}
        /\ panel' = [panel EXCEPT !.rows = l.rows, !.loading = FALSE]
        /\ UNCHANGED <<waitlist, slot, shaken, reopened, stale, entry, lastEntry>>
    BY <1>1, <1>4 DEF SetEntries, waitHistory, waitlist, ListOK
  <2>2. /\ l.rows \in SUBSET ShownRow
        /\ panel' \in [open : BOOLEAN, filter : Status, rows : SUBSET ShownRow,
                       loading : BOOLEAN, sending : 0..lastEntry]
        /\ panel'.rows = l.rows /\ panel'.filter = panel.filter
    BY <1>1, <2>1 DEF ListOK
  <2>3. PageOK'
    BY <1>1, <2>1, <2>2 DEF PageOK, ListOK, ShownRow
  <2>4. PanelOK'
    <3>1. (Told' <=> Told) /\ \A f \in Status : Current(f)' = Current(f)
      BY <2>1 DEF Told, Current, Rows
    <3>2. \A x \in loads : x.filter \in Status
      BY <1>1 DEF ListOK
    <3> QED BY <1>1, <2>1, <2>2, <3>1, <3>2 DEF PanelOK
  <2> QED BY <2>1, <2>3, <2>4, PageStep
<1>5. ASSUME NEW l \in loads, LoadFails(l)
      PROVE  WaitInv'
  <2>1. /\ loads' = loads \ {l} /\ panel' = [panel EXCEPT !.loading = FALSE] /\ stale' = TRUE
        /\ UNCHANGED <<waitlist, slot, shaken, reopened, lastEntry>>
    BY <1>5 DEF LoadFails, waitlist
  <2>2. PageOK'
    BY <1>1, <2>1 DEF PageOK, ListOK, ShownRow
  <2>3. PanelOK'
    BY <2>1 DEF PanelOK
  <2> QED BY <2>1, <2>2, <2>3, PageStep
<1>6. CASE ShowTab
  <2>1. /\ panel' = [panel EXCEPT !.open = TRUE, !.loading = TRUE] /\ Loading(panel.filter, 1)
        /\ stale' = (loads # {}) /\ UNCHANGED <<waitlist, slot, shaken, reopened, lastEntry>>
    BY <1>6 DEF ShowTab, waitlist
  <2>2. /\ panel' \in [open : BOOLEAN, filter : Status, rows : SUBSET ShownRow,
                       loading : BOOLEAN, sending : 0..lastEntry]
        /\ stale' = (loads # {} \/ panel.filter # panel'.filter) /\ lastEntry' = lastEntry
    BY <1>1, <2>1
  <2>3. 1 \in Nat /\ 1 # 0
    OBVIOUS
  <2>4. PageOK' /\ PanelOK'
    BY <1>1, <2>1, <2>2, <2>3, Reload
  <2> QED BY <2>1, <2>4, PageStep
<1>7. CASE HideTab
  <2>1. /\ panel' = [panel EXCEPT !.open = FALSE]
        /\ UNCHANGED <<waitlist, slot, loads, shaken, reopened, stale, entry, lastEntry>>
    BY <1>7 DEF HideTab, waitHistory, waitlist
  <2>2. PageOK'
    BY <1>1, <2>1 DEF PageOK, ListOK, ShownRow
  <2>3. PanelOK'
    <3>1. (Told' <=> Told) /\ \A f \in Status : Current(f)' = Current(f)
      BY <2>1 DEF Told, Current, Rows
    <3>2. \A x \in loads : x.filter \in Status
      BY <1>1 DEF ListOK
    <3>3. panel'.filter = panel.filter /\ panel'.rows = panel.rows
      BY <1>1, <2>1
    <3> QED BY <1>1, <2>1, <3>1, <3>2, <3>3 DEF PanelOK
  <2> QED BY <2>1, <2>2, <2>3, PageStep
<1>8. ASSUME NEW filter \in Status, SetFilter(filter)
      PROVE  WaitInv'
  <2>1. PICK k \in {1, 2} : Loading(filter, k)
    BY <1>8 DEF SetFilter
  <2>2. /\ panel' = [panel EXCEPT !.filter = filter, !.loading = TRUE]
        /\ stale' = (loads # {}) /\ UNCHANGED <<waitlist, slot, shaken, reopened, lastEntry>>
    BY <1>8 DEF SetFilter, waitlist
  <2>3. /\ panel' \in [open : BOOLEAN, filter : Status, rows : SUBSET ShownRow,
                       loading : BOOLEAN, sending : 0..lastEntry]
        /\ stale' = (loads # {} \/ filter # panel'.filter) /\ lastEntry' = lastEntry
    BY <1>1, <1>8, <2>2
  <2>4. k \in Nat /\ k # 0
    BY <2>1
  <2>5. PageOK' /\ PanelOK'
    BY <1>1, <2>1, <2>3, <2>4, Reload
  <2> QED BY <2>2, <2>5, PageStep
<1>9. (\E l \in loads : ServeLoad(l) \/ SetEntries(l) \/ LoadFails(l)) => WaitInv'
  BY <1>3, <1>4, <1>5
<1> QED BY <1>2, <1>6, <1>7, <1>8, <1>9

LEMMA WaitStutters ==
  ASSUME WaitInv, UNCHANGED waitVars
  PROVE  WaitInv'
<1>1. UNCHANGED <<waitlist, slot, shaken, reopened, entry, lastEntry, panel, loads, stale>>
  BY DEF waitVars, waitlist, waitHistory
<1>2. PageOK'
  BY <1>1 DEF WaitInv, PageOK, ListOK, ShownRow
<1>3. PanelOK'
  <2>1. (Told' <=> Told) /\ \A f \in Status : Current(f)' = Current(f)
    BY <1>1 DEF Told, Current, Rows
  <2>2. panel.filter \in Status /\ \A x \in loads : x.filter \in Status
    BY DEF WaitInv, PageOK, ListOK
  <2> QED BY <1>1, <2>1, <2>2 DEF WaitInv, PanelOK
<1> QED BY <1>1, <1>2, <1>3, PageStep

LEMMA WaitNext == WaitInv /\ [WaitlistNext]_waitVars => WaitInv'
<1> SUFFICES ASSUME WaitInv, [WaitlistNext]_waitVars PROVE WaitInv'
  OBVIOUS
<1>1. ASSUME NEW s \in Slot,
             \/ \E m \in Mail : Join(s, m)
             \/ FindAccount(s) \/ CreateEntry(s) \/ FindEntry(s) \/ MakeLink(s) \/ WriteEntry(s)
             \/ Done(s) \/ Failed(s) \/ GivesUp(s) \/ \E t \in Slot : SentAgain(s, t)
      PROVE  WaitInv'
  BY <1>1, JoinKeeps, FindAccountKeeps, CreateEntryKeeps, FindEntryKeeps, MakeLinkKeeps,
     WriteEntryKeeps, DoneKeeps, FailedKeeps, GivesUpKeeps, SentAgainKeeps
<1>2. CASE ServerStops
  BY <1>2, ServerStopsKeeps
<1>3. CASE UNCHANGED waitVars
  BY <1>3, WaitStutters
<1> QED BY <1>1, <1>2, <1>3, AsksKeep, PageActions DEF WaitlistNext

LEMMA WaitInvariant == WaitlistSpec => []WaitInv
<1> QED BY WaitBegins, WaitNext, PTL DEF WaitlistSpec

(***************************************************************************)
(* The tables of the waitlist, the requests being served and the lists of  *)
(* the page are always of their types.                                     *)
(***************************************************************************)
THEOREM WaitlistTypeCorrect == WaitlistSpec => []WaitlistTypeOK
<1>1. WaitInv => WaitlistTypeOK
  <2> SUFFICES ASSUME WaitInv PROVE WaitlistTypeOK
    OBVIOUS
  <2>1. WaitTables /\ SlotsOK /\ PageOK /\ 1..lastEntry \subseteq Entry
    BY WaitBounds DEF WaitInv, WaitTables, Entry
  <2>2. \A s \in Slot : slot[s].op = "join" => slot[s].of \in Mail
    BY <2>1 DEF SlotsOK, SlotOK
  <2>3. panel.filter \in Status /\ panel.sending \in 0..lastEntry
    BY <2>1 DEF PageOK
  <2>4. loads \subseteq Load
    <3>1. ShownRow \subseteq [id : Entry, status : Status]
      BY <2>1 DEF ShownRow
    <3> QED BY <2>1, <3>1 DEF PageOK, ListOK, Load
  <2> QED BY <2>1, <2>2, <2>3, <2>4 DEF WaitTables, WaitlistTypeOK, EntryRow
<1> QED BY <1>1, WaitInvariant, PTL

(***************************************************************************)
(* Nobody is sent a second invite link: the links made for an entry are    *)
(* one more than the times it was rejected after an invite at most, unless *)
(* two requests for it overlapped or the server stopped in between.        *)
(***************************************************************************)
THEOREM LinksAreAccounted == WaitlistSpec => []LinksAccounted
<1>1. WaitInv => LinksAccounted
  BY DEF WaitInv, EntryOK, LinksOf, LinksAccounted
<1> QED BY <1>1, WaitInvariant, PTL

(***************************************************************************)
(* At rest the page of the administrator shows what the table holds for    *)
(* its filter, unless it was not told of a change or not in order.         *)
(***************************************************************************)
THEOREM PanelIsCurrent == WaitlistSpec => []PanelCurrent
<1>1. WaitInv => PanelCurrent
  <2> SUFFICES ASSUME WaitInv, loads = {}, Watched = {}, ~stale,
                      NEW r \in panel.rows
               PROVE  r.status = panel.filter /\ \E e \in Rows : Shown(e) = r
    BY DEF PanelCurrent
  <2>1. ~Told /\ stale = FALSE
    BY DEF Told, Watched, WaitInv, PageOK
  <2>2. r \in Current(panel.filter)
    BY <2>1 DEF WaitInv, PanelOK
  <2> QED BY <2>2 DEF Current, Shown
<1> QED BY <1>1, WaitInvariant, PTL
=============================================================================
