--------------------------- MODULE SessionsProofs ---------------------------
(* What holds of Sessions for every set of users, of handlers and of       *)
(* tokens, and that its rotation implements OneTimeTokens; of Keys for     *)
(* every set of accounts and of tabs; and of the messages sent in Thread.  *)
EXTENDS Sessions, Keys, Thread, Counts, WellFoundedInduction

-----------------------------------------------------------------------------
(* Type correctness *)

HandlerTypeOK ==
  /\ pc \in [Handler -> Step]
  /\ usr \in [Handler -> User \cup {None}]
  /\ old \in [Handler -> Token \cup {0}]
  /\ new \in [Handler -> Token \cup {0}]
  /\ victim \in [Handler -> Token \cup {0}]
  /\ \A p \in Handler : pc[p] # "idle" => usr[p] \in User
  /\ \A p \in Handler : pc[p] = "rotDelete" => old[p] \in Token
  /\ \A p \in Handler : pc[p] = "issueEvict" => victim[p] \in Token
  /\ \A p \in Handler : pc[p] \in Generated => new[p] \in Token

RowsTypeOK ==
  /\ tok \in [Token -> TokenState]
  /\ holder \in [Token -> User \cup {None}]
  /\ last \in 0..MaxTokens
  /\ horizon \in 0..MaxTokens
  /\ parent \in [Token -> Token \cup {0}]
  /\ cut \in [User -> 0..MaxTokens]
  /\ \A t \in Token : tok[t] = "live" => holder[t] \in User

LEMMA TypeParts == TypeOK <=> HandlerTypeOK /\ RowsTypeOK
  BY DEF TypeOK, HandlerTypeOK, RowsTypeOK

LEMMA BoundsType == MaxTokens \in Nat /\ Token \subseteq Nat /\ 0 \notin Token
  BY SessionsAssumption DEF Token

LEMMA EndType ==
  ASSUME HandlerTypeOK, NEW p \in Handler, End(p)
  PROVE  HandlerTypeOK'
  BY DEF HandlerTypeOK, End, Step, Generated

LEMMA GotoType ==
  ASSUME HandlerTypeOK, NEW p \in Handler, pc[p] # "idle",
         NEW step \in {"issueUser", "issueCount", "issueCreate"}, Goto(p, step),
         step \in Generated => pc[p] \in Generated
  PROVE  HandlerTypeOK'
  BY DEF HandlerTypeOK, Goto, Step

LEMMA BeginType ==
  ASSUME HandlerTypeOK, NEW p \in Handler, NEW u \in User, NEW t \in Token \cup {0},
         NEW step \in {"purge", "rotDelete", "issueUser"},
         step = "rotDelete" => t \in Token, Begin(p, u, t, step)
  PROVE  HandlerTypeOK'
  BY DEF HandlerTypeOK, Begin, Step, Generated

LEMMA RevokeType ==
  ASSUME RowsTypeOK, NEW T, Revoke(T), UNCHANGED <<holder, last, horizon, history>>
  PROVE  RowsTypeOK'
  BY DEF RowsTypeOK, Revoke, TokenState, history

LEMMA RowsUnchanged ==
  ASSUME RowsTypeOK, UNCHANGED <<rows, last, horizon, history>>
  PROVE  RowsTypeOK'
  BY DEF RowsTypeOK, rows, history

\* A set of tokens that is not empty has a first one: of the sets of tokens
\* that precede its members, the smallest belongs to it.
LEMMA OldestType ==
  ASSUME NEW T \in SUBSET Token, T # {}
  PROVE  Oldest(T) \in T /\ \A x \in T : Oldest(T) <= x
<1> DEFINE Before(t) == {x \in Token : x < t}
           All == {Before(t) : t \in T}
<1>1. All \subseteq FiniteSubsetsOf(Token) /\ All # {}
  <2>1. IsFiniteSet(Token)
    BY BoundsType, FS_Interval DEF Token
  <2>2. \A t \in T : Before(t) \in SUBSET Token /\ IsFiniteSet(Before(t))
    BY <2>1, FS_Subset
  <2> QED BY <2>2 DEF FiniteSubsetsOf
<1>2. PICK B \in All : \A C \in All : <<C, B>> \notin StrictSubsetOrdering(Token)
  <2> HIDE DEF All
  <2> QED BY <1>1, FS_StrictSubsetOrderingWellFounded, WFMin
<1>3. PICK t \in T : B = Before(t)
  BY <1>2
<1>4. ASSUME NEW x \in T
      PROVE  t <= x
  <2>1. t \in Nat /\ x \in Nat /\ x \in Token
    BY <1>4, BoundsType
  <2>2. CASE x < t
    <3>1. Before(x) \subseteq Before(t)
      <4>1. \A y \in Token : y \in Nat
        BY BoundsType
      <4>2. \A y \in Token : y < x => y < t
        BY <2>1, <2>2, <4>1
      <4> QED BY <4>2
    <3>2. x \in Before(t) /\ x \notin Before(x)
      BY <2>1, <2>2
    <3>3. <<Before(x), Before(t)>> \in StrictSubsetOrdering(Token)
      BY <3>1, <3>2 DEF StrictSubsetOrdering
    <3>4. <<Before(x), Before(t)>> \notin StrictSubsetOrdering(Token)
      BY <1>2, <1>3, <1>4
    <3> QED BY <3>3, <3>4
  <2> QED BY <2>1, <2>2
<1> QED BY <1>4 DEF Oldest

LEMMA TypeStep ==
  ASSUME TypeOK, Next
  PROVE  TypeOK'
<1>0. HandlerTypeOK /\ RowsTypeOK
  BY TypeParts
<1> SUFFICES HandlerTypeOK' /\ RowsTypeOK'
  BY DEF TypeOK, HandlerTypeOK, RowsTypeOK
<1>1. ASSUME NEW p \in Handler, NEW u \in User, Login(p, u)
      PROVE  HandlerTypeOK' /\ RowsTypeOK'
  BY <1>0, <1>1, BeginType, RowsUnchanged, BoundsType DEF Login
<1>2. ASSUME NEW p \in Handler, NEW u \in User, Logout(p, u)
      PROVE  HandlerTypeOK' /\ RowsTypeOK'
  <2>1. HandlerTypeOK'
    BY <1>0, <1>2 DEF Logout, locals, HandlerTypeOK
  <2>2. RowsTypeOK'
    BY <1>0, <1>2 DEF Logout, Revoke, RowsTypeOK, TokenState
  <2> QED BY <2>1, <2>2
<1>3. ASSUME NEW p \in Handler, NEW t \in Token, RefreshBegin(p, t)
      PROVE  HandlerTypeOK' /\ RowsTypeOK'
  <2>1. holder[t] \in User
    BY <1>0, <1>3 DEF RefreshBegin, RowsTypeOK
  <2> QED BY <1>0, <1>3, <2>1, BeginType, RowsUnchanged DEF RefreshBegin
<1>5. ASSUME NEW p \in Handler, RefreshPurge(p)
      PROVE  HandlerTypeOK' /\ RowsTypeOK'
  BY <1>0, <1>5, EndType, RevokeType DEF RefreshPurge
<1>6. ASSUME NEW p \in Handler, RotateDelete(p)
      PROVE  HandlerTypeOK' /\ RowsTypeOK'
  <2>1. HandlerTypeOK'
    BY <1>0, <1>6, EndType, GotoType DEF RotateDelete, Generated
  <2>2. old[p] \in Token
    BY <1>0, <1>6 DEF RotateDelete, HandlerTypeOK
  <2>3. RowsTypeOK'
    BY <1>0, <1>6, <2>2 DEF RotateDelete, RowsTypeOK, TokenState, history
  <2> QED BY <2>1, <2>3
<1>7. ASSUME NEW p \in Handler, IssueGenerate(p)
      PROVE  HandlerTypeOK' /\ RowsTypeOK'
  <2>1. last + 1 \in Token /\ last + 1 \in 0..MaxTokens
    BY <1>0, <1>7, BoundsType DEF IssueGenerate, RowsTypeOK, Token
  <2>2. HandlerTypeOK'
    BY <1>0, <1>7, <2>1 DEF IssueGenerate, HandlerTypeOK, Step, Generated
  <2>3. RowsTypeOK'
    BY <1>0, <1>7, <2>1 DEF IssueGenerate, RowsTypeOK, rows, history
  <2> QED BY <2>2, <2>3
<1>8. ASSUME NEW p \in Handler, IssueClean(p)
      PROVE  HandlerTypeOK' /\ RowsTypeOK'
  BY <1>0, <1>8, GotoType, RevokeType DEF IssueClean, Generated
<1>9. ASSUME NEW p \in Handler, IssueCount(p)
      PROVE  HandlerTypeOK' /\ RowsTypeOK'
  <2> DEFINE T == LiveOf(usr[p])
  <2>1. RowsTypeOK'
    BY <1>0, <1>9, RowsUnchanged DEF IssueCount
  <2>2. CASE Cardinality(T) >= MaxDevices
    <3>1. T # {}
      BY <2>2, FS_EmptySet, SessionsAssumption
    <3>2. Oldest(T) \in Token
      <4>1. T \in SUBSET Token
        BY DEF LiveOf
      <4> HIDE DEF T
      <4> QED BY <3>1, <4>1, OldestType
    <3> QED BY <1>0, <1>9, <2>1, <2>2, <3>2
            DEF IssueCount, HandlerTypeOK, Step, Generated
  <2>3. CASE ~(Cardinality(T) >= MaxDevices)
    BY <1>0, <1>9, <2>1, <2>3, GotoType DEF IssueCount, Generated
  <2> QED BY <2>2, <2>3
<1>10. ASSUME NEW p \in Handler, IssueEvict(p)
       PROVE  HandlerTypeOK' /\ RowsTypeOK'
  <2>1. HandlerTypeOK'
    BY <1>0, <1>10, EndType, GotoType DEF IssueEvict, Generated
  <2>2. RowsTypeOK'
    BY <1>0, <1>10, RevokeType, RowsUnchanged DEF IssueEvict, rows
  <2> QED BY <2>1, <2>2
<1>11. ASSUME NEW p \in Handler, IssueCreate(p)
       PROVE  HandlerTypeOK' /\ RowsTypeOK'
  <2>1. HandlerTypeOK'
    BY <1>0, <1>11, EndType DEF IssueCreate
  <2>2. new[p] \in Token /\ usr[p] \in User /\ old[p] \in Token \cup {0}
    BY <1>0, <1>11 DEF IssueCreate, HandlerTypeOK, Generated
  <2>3. RowsTypeOK'
    BY <1>0, <1>11, <2>2 DEF IssueCreate, RowsTypeOK, TokenState
  <2> QED BY <2>1, <2>3
<1>12. ASSUME Tick
       PROVE  HandlerTypeOK' /\ RowsTypeOK'
  <2>1. HandlerTypeOK'
    BY <1>0, <1>12 DEF Tick, locals, HandlerTypeOK
  <2>2. RowsTypeOK'
    BY <1>0, <1>12, BoundsType DEF Tick, rows, history, RowsTypeOK
  <2> QED BY <2>1, <2>2
<1>13. ASSUME Restart
       PROVE  HandlerTypeOK' /\ RowsTypeOK'
  BY <1>0, <1>13, RowsUnchanged DEF Restart, HandlerTypeOK, Step, Generated
<1> QED BY <1>1, <1>2, <1>3, <1>5, <1>6, <1>7, <1>8, <1>9, <1>10,
           <1>11, <1>12, <1>13 DEF Next

(***************************************************************************)
(* The state of the refresh tokens keeps its type.                         *)
(***************************************************************************)
THEOREM SessionsTypeCorrect == Spec => []TypeOK
<1>1. Init => TypeOK
  BY BoundsType DEF Init, TypeOK, TokenState, Step, Generated
<1>2. TypeOK /\ [Next]_vars => TypeOK'
  <2>1. TypeOK /\ UNCHANGED vars => TypeOK'
    BY DEF TypeOK, vars, rows, locals, history
  <2> QED BY <2>1, TypeStep
<1> QED BY <1>1, <1>2, PTL DEF Spec

-----------------------------------------------------------------------------
(* Rotation implements OneTimeTokens.  The token a handler has generated   *)
(* has no row yet and belongs to that handler alone; the token a handler   *)
(* has redeemed has no successor and belongs to that handler alone.        *)

Issuance == Generated \cup {"issueUser"}

FreshInv ==
  /\ \A t \in Token : t > last => tok[t] = "none"
  /\ \A t \in Token : tok[t] = "none" => parent[t] = 0

NewInv ==
  /\ \A p \in Handler : pc[p] \notin Generated => new[p] = 0
  /\ \A p \in Handler : pc[p] \in Generated => new[p] <= last /\ tok[new[p]] = "none"
  /\ \A p, q \in Handler :
       pc[p] \in Generated /\ pc[q] \in Generated /\ new[p] = new[q] => p = q

OldInv ==
  /\ \A p \in Handler : pc[p] \in Issuance /\ old[p] # 0 =>
       /\ tok[old[p]] = "redeemed"
       /\ \A t \in Token : parent[t] # old[p]
  /\ \A p, q \in Handler :
       pc[p] \in Issuance /\ pc[q] \in Issuance /\ old[p] # 0 /\ old[p] = old[q] => p = q

ParentInv ==
  \A t \in Token : parent[t] # 0 => tok[parent[t]] = "redeemed"

LinkInv == FreshInv /\ NewInv /\ OldInv /\ ParentInv

\* A handler that ends, or goes on with the tokens it holds.
LEMMA LinkEnd ==
  ASSUME TypeOK, LinkInv, NEW p \in Handler, End(p), UNCHANGED <<last, parent>>,
         \A t \in Token : tok[t] # "live" => tok'[t] = tok[t],
         \A t \in Token : tok[t] = "live" => tok'[t] # "none"
  PROVE  LinkInv'
<1>1. FreshInv'
  BY DEF LinkInv, FreshInv, TypeOK
<1>2. NewInv'
  BY DEF LinkInv, NewInv, End, TypeOK, Generated
<1>3. OldInv'
  BY DEF LinkInv, OldInv, End, TypeOK, Generated, Issuance
<1>4. ParentInv'
  BY DEF LinkInv, ParentInv, TypeOK
<1> QED BY <1>1, <1>2, <1>3, <1>4 DEF LinkInv

LEMMA LinkGoto ==
  ASSUME TypeOK, LinkInv, NEW p \in Handler, NEW step \in Generated,
         pc[p] \in Generated, pc' = [pc EXCEPT ![p] = step],
         UNCHANGED <<old, new, last, parent>>,
         \A t \in Token : tok[t] # "live" => tok'[t] = tok[t],
         \A t \in Token : tok[t] = "live" => tok'[t] # "none"
  PROVE  LinkInv'
<1>1. FreshInv'
  BY DEF LinkInv, FreshInv, TypeOK
<1>2. NewInv'
  BY DEF LinkInv, NewInv, TypeOK
<1>3. OldInv'
  BY DEF LinkInv, OldInv, TypeOK, Issuance
<1>4. ParentInv'
  BY DEF LinkInv, ParentInv, TypeOK
<1> QED BY <1>1, <1>2, <1>3, <1>4 DEF LinkInv

\* No handler takes part: an expiry, a logout, a refused token.
LEMMA LinkIdle ==
  ASSUME TypeOK, LinkInv, UNCHANGED <<pc, old, new, last, parent>>,
         \A t \in Token : tok[t] # "live" => tok'[t] = tok[t],
         \A t \in Token : tok[t] = "live" => tok'[t] # "none"
  PROVE  LinkInv'
<1>1. FreshInv'
  BY DEF LinkInv, FreshInv, TypeOK
<1>2. NewInv'
  BY DEF LinkInv, NewInv, TypeOK
<1>3. OldInv'
  BY DEF LinkInv, OldInv, TypeOK
<1>4. ParentInv'
  BY DEF LinkInv, ParentInv, TypeOK
<1> QED BY <1>1, <1>2, <1>3, <1>4 DEF LinkInv

LEMMA LinkStep ==
  ASSUME TypeOK, LinkInv, Next
  PROVE  LinkInv'
<1> USE DEF TokenState
<1>1. ASSUME NEW p \in Handler, NEW u \in User, Login(p, u)
      PROVE  LinkInv'
  BY <1>1 DEF Login, Begin, rows, history, LinkInv, FreshInv, NewInv, OldInv,
              ParentInv, TypeOK, Generated, Issuance
<1>2. ASSUME NEW p \in Handler, NEW u \in User, Logout(p, u)
      PROVE  LinkInv'
  BY <1>2, LinkIdle DEF Logout, Revoke, LiveOf, locals, TypeOK
<1>3. ASSUME NEW p \in Handler, NEW t \in Token, RefreshBegin(p, t)
      PROVE  LinkInv'
  BY <1>3 DEF RefreshBegin, Begin, rows, history, LinkInv, FreshInv, NewInv, OldInv,
              ParentInv, TypeOK, Generated, Issuance
<1>5. ASSUME NEW p \in Handler, RefreshPurge(p)
      PROVE  LinkInv'
  BY <1>5, LinkEnd DEF RefreshPurge, Revoke, LiveOf, history, TypeOK
<1>6. ASSUME NEW p \in Handler, RotateDelete(p)
      PROVE  LinkInv'
  <2>1. CASE tok[old[p]] = "live"
    <3>1. /\ old[p] \in Token /\ 0 \notin Token
          /\ tok' = [tok EXCEPT ![old[p]] = "redeemed"]
          /\ pc' = [pc EXCEPT ![p] = "issueUser"] /\ pc[p] = "rotDelete"
          /\ UNCHANGED <<old, new, last, parent>>
      BY <1>6, <2>1, BoundsType DEF RotateDelete, Goto, history, TypeOK
    <3>2. FreshInv'
      BY <2>1, <3>1 DEF LinkInv, FreshInv, TypeOK
    <3>3. NewInv'
      BY <2>1, <3>1 DEF LinkInv, NewInv, TypeOK, Generated
    <3>4. \A t \in Token : parent[t] # old[p]
      BY <2>1, <3>1 DEF LinkInv, ParentInv
    <3>5. OldInv'
      BY <2>1, <3>1, <3>4 DEF LinkInv, OldInv, TypeOK, Generated, Issuance
    <3>6. ParentInv'
      BY <2>1, <3>1 DEF LinkInv, ParentInv, TypeOK
    <3> QED BY <3>2, <3>3, <3>5, <3>6 DEF LinkInv
  <2>2. CASE tok[old[p]] # "live"
    BY <1>6, <2>2, LinkEnd DEF RotateDelete, history, TypeOK
  <2> QED BY <2>1, <2>2
<1>7. ASSUME NEW p \in Handler, IssueGenerate(p)
      PROVE  LinkInv'
  <2>1. /\ last + 1 \in Token /\ last \in Nat
        /\ pc[p] = "issueUser" /\ pc' = [pc EXCEPT ![p] = "issueClean"]
        /\ new' = [new EXCEPT ![p] = last + 1] /\ last' = last + 1
        /\ UNCHANGED <<old, tok, parent>>
    BY <1>7, BoundsType DEF IssueGenerate, TypeOK, Token, rows, history
  <2>2. FreshInv'
    BY <2>1, BoundsType DEF LinkInv, FreshInv, TypeOK
  <2>3. tok[last + 1] = "none"
    BY <2>1 DEF LinkInv, FreshInv
  <2>4. NewInv'
    <3>1. /\ pc'[p] \in Generated /\ pc[p] \notin Generated
          /\ new'[p] = last + 1 /\ tok'[new'[p]] = "none"
      BY <2>1, <2>3 DEF TypeOK, Generated
    <3>2. ASSUME NEW q \in Handler, q # p
          PROVE  pc'[q] = pc[q] /\ new'[q] = new[q]
      BY <2>1, <3>2 DEF TypeOK
    <3>3. ASSUME NEW q \in Handler, q # p, pc[q] \in Generated
          PROVE  /\ new[q] \in Nat /\ new[q] <= last
                 /\ tok'[new[q]] = "none"
      BY <2>1, <3>3, BoundsType DEF LinkInv, NewInv, TypeOK
    <3>4. \A q \in Handler : pc'[q] \notin Generated => new'[q] = 0
      BY <3>1, <3>2 DEF LinkInv, NewInv
    <3>5. \A q \in Handler :
            pc'[q] \in Generated => new'[q] <= last' /\ tok'[new'[q]] = "none"
      BY <2>1, <3>1, <3>2, <3>3
    <3>6. \A q, r \in Handler :
            pc'[q] \in Generated /\ pc'[r] \in Generated /\ new'[q] = new'[r] => q = r
      BY <2>1, <3>1, <3>2, <3>3 DEF LinkInv, NewInv
    <3> QED BY <3>4, <3>5, <3>6 DEF NewInv
  <2>5. OldInv'
    BY <2>1 DEF LinkInv, OldInv, TypeOK, Generated, Issuance
  <2>6. ParentInv'
    BY <2>1 DEF LinkInv, ParentInv
  <2> QED BY <2>2, <2>4, <2>5, <2>6 DEF LinkInv
<1>8. ASSUME NEW p \in Handler, IssueClean(p)
      PROVE  LinkInv'
  BY <1>8, LinkGoto DEF IssueClean, Goto, Revoke, LiveOf, history, TypeOK, Generated
<1>9. ASSUME NEW p \in Handler, IssueCount(p)
      PROVE  LinkInv'
  BY <1>9, LinkGoto DEF IssueCount, Goto, rows, history, TypeOK, Generated
<1>10. ASSUME NEW p \in Handler, IssueEvict(p)
       PROVE  LinkInv'
  BY <1>10, LinkGoto, LinkEnd
     DEF IssueEvict, Goto, Revoke, history, TypeOK, Generated
<1>11. ASSUME NEW p \in Handler, IssueCreate(p)
       PROVE  LinkInv'
  <2>1. /\ pc[p] = "issueCreate" /\ End(p)
        /\ new[p] \in Token /\ new[p] <= last /\ tok[new[p]] = "none"
        /\ parent[new[p]] = 0
        /\ tok' = [tok EXCEPT ![new[p]] = "live"]
        /\ parent' = [parent EXCEPT ![new[p]] = old[p]]
        /\ UNCHANGED last
    BY <1>11 DEF IssueCreate, LinkInv, NewInv, FreshInv, TypeOK, Generated
  <2>2. FreshInv'
    BY <2>1, BoundsType DEF LinkInv, FreshInv, TypeOK, Token
  <2>3. NewInv'
    BY <2>1 DEF LinkInv, NewInv, End, TypeOK, Generated
  <2>4. OldInv'
    BY <2>1 DEF LinkInv, OldInv, End, TypeOK, Generated, Issuance
  <2>5. ParentInv'
    BY <2>1 DEF LinkInv, ParentInv, OldInv, TypeOK, Generated, Issuance
  <2> QED BY <2>2, <2>3, <2>4, <2>5 DEF LinkInv
<1>12. ASSUME Tick
       PROVE  LinkInv'
  BY <1>12, LinkIdle DEF Tick, rows, locals, history, TypeOK
<1>13. ASSUME Restart
       PROVE  LinkInv'
  BY <1>13 DEF Restart, rows, history, LinkInv, FreshInv, NewInv, OldInv, ParentInv,
               Generated, Issuance
<1> QED BY <1>1, <1>2, <1>3, <1>5, <1>6, <1>7, <1>8, <1>9, <1>10,
           <1>11, <1>12, <1>13 DEF Next

(***************************************************************************)
(* The token a handler has generated and the one it has redeemed are its   *)
(* own, and a token that others replaced was redeemed.                     *)
(***************************************************************************)
THEOREM TokensLinked == Spec => []LinkInv
<1>1. Init => LinkInv
  BY DEF Init, LinkInv, FreshInv, NewInv, OldInv, ParentInv, Generated, Issuance
<1>2. TypeOK /\ LinkInv /\ [Next]_vars => LinkInv'
  <2>1. LinkInv /\ UNCHANGED vars => LinkInv'
    BY DEF LinkInv, FreshInv, NewInv, OldInv, ParentInv, vars, rows, locals, history
  <2> QED BY <2>1, LinkStep
<1> QED BY <1>1, <1>2, SessionsTypeCorrect, PTL DEF Spec

\* Every deleteMany, and every delete but that of rotate, is a Revoke.
LEMMA RevokeRefines ==
  ASSUME NEW T \in SUBSET Token, Revoke(T), \A t \in T : tok[t] = "live",
         UNCHANGED parent
  PROVE  OneTime!Next
  BY DEF Revoke, OneTime!Revoke, OneTime!Next

LEMMA CreateRefines ==
  ASSUME TypeOK, LinkInv, NEW p \in Handler, IssueCreate(p)
  PROVE  OneTime!Next
<1>1. /\ pc[p] = "issueCreate" /\ new[p] \in Token /\ tok[new[p]] = "none"
      /\ parent[new[p]] = 0 /\ old[p] \in Token \cup {0}
      /\ tok' = [tok EXCEPT ![new[p]] = "live"]
      /\ parent' = [parent EXCEPT ![new[p]] = old[p]]
  BY DEF IssueCreate, LinkInv, NewInv, FreshInv, TypeOK, Generated
<1>2. CASE old[p] = 0
  <2>1. parent' = parent
    BY <1>1, <1>2 DEF TypeOK
  <2>2. OneTime!Login(new[p])
    BY <1>1, <2>1 DEF OneTime!Login
  <2> QED BY <1>1, <2>2 DEF OneTime!Next
<1>3. CASE old[p] # 0
  <2>1. old[p] \in Token /\ tok[old[p]] = "redeemed" /\ \A m \in Token : parent[m] # old[p]
    BY <1>1, <1>3 DEF LinkInv, OldInv, Issuance, Generated
  <2>2. OneTime!Succeed(old[p], new[p])
    BY <1>1, <2>1 DEF OneTime!Succeed, OneTime!Issued
  <2> QED BY <1>1, <2>1, <2>2 DEF OneTime!Next
<1> QED BY <1>2, <1>3

LEMMA RefinesStep ==
  ASSUME TypeOK, LinkInv, Next
  PROVE  OneTime!Next \/ UNCHANGED <<tok, parent>>
<1> USE DEF rows, history
<1>1. ASSUME NEW p \in Handler, NEW u \in User, Login(p, u)
      PROVE  UNCHANGED <<tok, parent>>
  BY <1>1 DEF Login
<1>2. ASSUME NEW p \in Handler, NEW u \in User, Logout(p, u)
      PROVE  OneTime!Next
  BY <1>2, RevokeRefines DEF Logout, LiveOf
<1>3. ASSUME NEW p \in Handler, NEW t \in Token, RefreshBegin(p, t)
      PROVE  UNCHANGED <<tok, parent>>
  BY <1>3 DEF RefreshBegin
<1>4. ASSUME NEW p \in Handler, RefreshPurge(p)
      PROVE  OneTime!Next
  BY <1>4, RevokeRefines DEF RefreshPurge, LiveOf
<1>5. ASSUME NEW p \in Handler, RotateDelete(p)
      PROVE  OneTime!Next \/ UNCHANGED <<tok, parent>>
  <2>1. CASE tok[old[p]] = "live"
    <3>1. old[p] \in Token
      BY <1>5 DEF RotateDelete, TypeOK
    <3>2. OneTime!Redeem(old[p])
      BY <1>5, <2>1 DEF RotateDelete, OneTime!Redeem
    <3> QED BY <3>1, <3>2 DEF OneTime!Next
  <2>2. CASE tok[old[p]] # "live"
    BY <1>5, <2>2 DEF RotateDelete
  <2> QED BY <2>1, <2>2
<1>6. ASSUME NEW p \in Handler, IssueGenerate(p) \/ IssueCount(p)
      PROVE  UNCHANGED <<tok, parent>>
  BY <1>6 DEF IssueGenerate, IssueCount
<1>7. ASSUME NEW p \in Handler, IssueClean(p)
      PROVE  OneTime!Next
  <2> DEFINE T == {t \in LiveOf(usr[p]) : Expired(t)}
  <2>1. T \in SUBSET Token /\ \A t \in T : tok[t] = "live"
    BY DEF LiveOf
  <2>2. Revoke(T) /\ UNCHANGED parent
    BY <1>7 DEF IssueClean
  <2> HIDE DEF T
  <2> QED BY <2>1, <2>2, RevokeRefines
<1>8. ASSUME NEW p \in Handler, IssueEvict(p)
      PROVE  OneTime!Next \/ UNCHANGED <<tok, parent>>
  <2>1. CASE tok[victim[p]] = "live"
    <3>1. {victim[p]} \in SUBSET Token
      BY <1>8 DEF IssueEvict, TypeOK
    <3> QED BY <1>8, <2>1, <3>1, RevokeRefines DEF IssueEvict
  <2>2. CASE tok[victim[p]] # "live"
    BY <1>8, <2>2 DEF IssueEvict
  <2> QED BY <2>1, <2>2
<1>9. ASSUME NEW p \in Handler, IssueCreate(p)
      PROVE  OneTime!Next
  BY <1>9, CreateRefines
<1>10. ASSUME Tick \/ Restart
       PROVE  UNCHANGED <<tok, parent>>
  BY <1>10 DEF Tick, Restart
<1> QED BY <1>1, <1>2, <1>3, <1>4, <1>5, <1>6, <1>7, <1>8, <1>9, <1>10 DEF Next

(***************************************************************************)
(* Rotation implements OneTimeTokens: of the requests that hand in the     *)
(* same refresh token at most one is given a successor, and a token logged *)
(* out, evicted or expired is given none, whatever else is being served    *)
(* and wherever the server stops.                                          *)
(***************************************************************************)
THEOREM RotationRefines == Spec => RotationIsOneTime
<1>1. Init => OneTime!Init
  BY DEF Init, OneTime!Init
<1>2. TypeOK /\ LinkInv /\ [Next]_vars => [OneTime!Next]_<<tok, parent>>
  <2>1. UNCHANGED vars => UNCHANGED <<tok, parent>>
    BY DEF vars, rows, history
  <2> QED BY <2>1, RefinesStep
<1> QED BY <1>1, <1>2, SessionsTypeCorrect, TokensLinked, PTL
        DEF Spec, RotationIsOneTime, OneTime!Spec

-----------------------------------------------------------------------------
(* The two counting properties: each adds up a set of tokens and a set of  *)
(* handlers, and a step shrinks both or moves one member from the handlers *)
(* to the tokens.                                                          *)

LEMMA CountsType ==
  ASSUME NEW A \in SUBSET Token, NEW B \in SUBSET Handler
  PROVE  /\ IsFiniteSet(A) /\ IsFiniteSet(B)
         /\ Cardinality(A) \in Nat /\ Cardinality(B) \in Nat
         /\ Cardinality(Handler) \in Nat
         /\ Cardinality(B) <= Cardinality(Handler)
<1>1. IsFiniteSet(Token)
  BY BoundsType, FS_Interval DEF Token
<1> QED BY <1>1, SessionsAssumption, FS_Subset, FS_CardinalityType

-----------------------------------------------------------------------------
(* The tokens of a user *)

\* The token to be deleted is one of the user's, or was.
VictimInv ==
  \A p \in Handler : pc[p] = "issueEvict" =>
    tok[victim[p]] # "none" /\ holder[victim[p]] = usr[p]

HasRoom(u) ==
  Cardinality(LiveOf(u)) + Cardinality(Issuing(u))
    <= MaxDevices - 1 + Cardinality(Handler)

LEMMA SetsType ==
  ASSUME NEW u
  PROVE  /\ LiveOf(u) \in SUBSET Token /\ LiveOf(u)' \in SUBSET Token
         /\ Issuing(u) \in SUBSET Handler /\ Issuing(u)' \in SUBSET Handler
  BY DEF LiveOf, Issuing

LEMMA RoomShrink ==
  ASSUME NEW u, HasRoom(u),
         LiveOf(u)' \subseteq LiveOf(u), Issuing(u)' \subseteq Issuing(u)
  PROVE  HasRoom(u)'
<1>1. Cardinality(LiveOf(u)') + Cardinality(Issuing(u)')
        <= Cardinality(LiveOf(u)) + Cardinality(Issuing(u))
  BY SetsType, CountsType, SumNoMore
<1>2. /\ Cardinality(LiveOf(u)) \in Nat /\ Cardinality(Issuing(u)) \in Nat
      /\ Cardinality(LiveOf(u)') \in Nat /\ Cardinality(Issuing(u)') \in Nat
      /\ Cardinality(Handler) \in Nat
  BY SetsType, CountsType
<1> QED BY <1>1, <1>2, SessionsAssumption DEF HasRoom

LEMMA VictimStep ==
  ASSUME TypeOK, LinkInv, VictimInv, Next
  PROVE  VictimInv'
<1> USE DEF TokenState
<1>1. ASSUME NEW p \in Handler, NEW u \in User, Login(p, u)
      PROVE  VictimInv'
  BY <1>1 DEF Login, Begin, VictimInv, TypeOK, rows
<1>2. ASSUME NEW p \in Handler, NEW u \in User, Logout(p, u)
      PROVE  VictimInv'
  BY <1>2 DEF Logout, Revoke, VictimInv, TypeOK, locals
<1>3. ASSUME NEW p \in Handler, NEW t \in Token, RefreshBegin(p, t)
      PROVE  VictimInv'
  BY <1>3 DEF RefreshBegin, Begin, VictimInv, TypeOK, rows
<1>5. ASSUME NEW p \in Handler, RefreshPurge(p)
      PROVE  VictimInv'
  BY <1>5 DEF RefreshPurge, Revoke, End, VictimInv, TypeOK
<1>6. ASSUME NEW p \in Handler, RotateDelete(p)
      PROVE  VictimInv'
  BY <1>6 DEF RotateDelete, Goto, End, VictimInv, TypeOK
<1>7. ASSUME NEW p \in Handler, IssueGenerate(p)
      PROVE  VictimInv'
  BY <1>7 DEF IssueGenerate, VictimInv, TypeOK, rows
<1>8. ASSUME NEW p \in Handler, IssueClean(p)
      PROVE  VictimInv'
  BY <1>8 DEF IssueClean, Revoke, Goto, VictimInv, TypeOK
<1>9. ASSUME NEW p \in Handler, IssueCount(p)
      PROVE  VictimInv'
  <2> DEFINE T == LiveOf(usr[p])
  <2>1. CASE Cardinality(T) >= MaxDevices
    <3>1. T # {}
      BY <2>1, FS_EmptySet, SessionsAssumption
    <3>2. Oldest(T) \in T
      <4>1. T \in SUBSET Token
        BY DEF LiveOf
      <4> HIDE DEF T
      <4> QED BY <3>1, <4>1, OldestType
    <3>3. tok[Oldest(T)] = "live" /\ holder[Oldest(T)] = usr[p]
      BY <3>2 DEF LiveOf
    <3> HIDE DEF T
    <3>4. /\ victim' = [victim EXCEPT ![p] = Oldest(T)]
          /\ pc' = [pc EXCEPT ![p] = "issueEvict"]
          /\ UNCHANGED <<tok, holder, usr>>
      BY <1>9, <2>1 DEF IssueCount, rows, T
    <3> QED BY <3>3, <3>4 DEF VictimInv, TypeOK
  <2>2. CASE ~(Cardinality(T) >= MaxDevices)
    BY <1>9, <2>2 DEF IssueCount, Goto, rows, VictimInv, TypeOK
  <2> QED BY <2>1, <2>2
<1>10. ASSUME NEW p \in Handler, IssueEvict(p)
       PROVE  VictimInv'
  BY <1>10 DEF IssueEvict, Revoke, Goto, End, VictimInv, TypeOK
<1>11. ASSUME NEW p \in Handler, IssueCreate(p)
       PROVE  VictimInv'
  <2>1. new[p] \in Token /\ tok[new[p]] = "none"
    BY <1>11 DEF IssueCreate, LinkInv, NewInv, TypeOK, Generated
  <2> QED BY <1>11, <2>1 DEF IssueCreate, End, VictimInv, TypeOK
<1>12. ASSUME Tick
       PROVE  VictimInv'
  BY <1>12 DEF Tick, VictimInv, rows, locals
<1>13. ASSUME Restart
       PROVE  VictimInv'
  BY <1>13 DEF Restart, VictimInv
<1> QED BY <1>1, <1>2, <1>3, <1>5, <1>6, <1>7, <1>8, <1>9, <1>10,
           <1>11, <1>12, <1>13 DEF Next

LEMMA RoomCount ==
  ASSUME TypeOK, NEW u, HasRoom(u), NEW p \in Handler, IssueCount(p)
  PROVE  HasRoom(u)'
<1>1. LiveOf(u)' = LiveOf(u)
  BY DEF IssueCount, LiveOf, rows
<1>2. CASE u = usr[p] /\ ~(Cardinality(LiveOf(u)) >= MaxDevices)
  <2>1. /\ Cardinality(LiveOf(u)) \in Nat /\ Cardinality(Issuing(u)') \in Nat
        /\ Cardinality(Issuing(u)') <= Cardinality(Handler)
        /\ Cardinality(Handler) \in Nat
    BY SetsType, CountsType
  <2> QED BY <1>1, <1>2, <2>1, SessionsAssumption DEF HasRoom
<1>3. CASE ~(u = usr[p] /\ ~(Cardinality(LiveOf(u)) >= MaxDevices))
  <2>1. Issuing(u)' \subseteq Issuing(u)
    BY <1>3 DEF IssueCount, Goto, Issuing, TypeOK
  <2> QED BY <1>1, <2>1, RoomShrink
<1> QED BY <1>2, <1>3

LEMMA RoomEvict ==
  ASSUME TypeOK, VictimInv, NEW u, HasRoom(u), NEW p \in Handler, IssueEvict(p)
  PROVE  HasRoom(u)'
<1> DEFINE t == victim[p]
<1>1. /\ pc[p] = "issueEvict" /\ t \in Token /\ holder[t] = usr[p]
      /\ LiveOf(u)' \subseteq LiveOf(u)
  BY DEF IssueEvict, VictimInv, Revoke, LiveOf, TypeOK, TokenState
<1>2. CASE tok[t] = "live" /\ u = usr[p]
  <2>1. t \in LiveOf(u) /\ LiveOf(u)' \subseteq LiveOf(u) \ {t}
    BY <1>1, <1>2 DEF IssueEvict, Revoke, LiveOf
  <2>2. Issuing(u)' \subseteq Issuing(u) \cup {p}
    BY <1>2 DEF IssueEvict, Goto, Issuing, TypeOK
  <2>3. /\ IsFiniteSet(LiveOf(u)) /\ IsFiniteSet(Issuing(u))
        /\ Cardinality(LiveOf(u)) \in Nat /\ Cardinality(Issuing(u)) \in Nat
        /\ Cardinality(LiveOf(u)') \in Nat /\ Cardinality(Issuing(u)') \in Nat
        /\ Cardinality(Handler) \in Nat
    BY SetsType, CountsType
  <2>4. Cardinality(LiveOf(u)') <= Cardinality(LiveOf(u)) - 1
    BY <2>1, <2>3, OneLess
  <2>5. Cardinality(Issuing(u)') <= Cardinality(Issuing(u)) + 1
    BY <2>2, <2>3, OneMore
  <2> QED BY <2>3, <2>4, <2>5, SessionsAssumption DEF HasRoom
<1>3. CASE ~(tok[t] = "live" /\ u = usr[p])
  <2>1. Issuing(u)' \subseteq Issuing(u)
    BY <1>3 DEF IssueEvict, Goto, End, Issuing, TypeOK
  <2> QED BY <1>1, <2>1, RoomShrink
<1> QED BY <1>2, <1>3

LEMMA RoomCreate ==
  ASSUME TypeOK, LinkInv, NEW u, HasRoom(u), NEW p \in Handler, IssueCreate(p)
  PROVE  HasRoom(u)'
<1>1. /\ pc[p] = "issueCreate" /\ new[p] \in Token /\ tok[new[p]] = "none"
      /\ tok' = [tok EXCEPT ![new[p]] = "live"]
      /\ holder' = [holder EXCEPT ![new[p]] = usr[p]] /\ End(p)
  BY DEF IssueCreate, LinkInv, NewInv, TypeOK, Generated
<1>2. Issuing(u)' \subseteq Issuing(u) \ {p}
  BY <1>1 DEF End, Issuing, TypeOK
<1>3. CASE u = usr[p]
  <2>1. LiveOf(u)' \subseteq LiveOf(u) \cup {new[p]} /\ p \in Issuing(u)
    BY <1>1, <1>3 DEF LiveOf, Issuing, TypeOK
  <2>2. Cardinality(LiveOf(u)') + Cardinality(Issuing(u)')
          <= Cardinality(LiveOf(u)) + Cardinality(Issuing(u))
    BY <1>1, <1>2, <2>1, SetsType, CountsType, SumMoves
  <2>3. /\ Cardinality(LiveOf(u)) \in Nat /\ Cardinality(Issuing(u)) \in Nat
        /\ Cardinality(LiveOf(u)') \in Nat /\ Cardinality(Issuing(u)') \in Nat
        /\ Cardinality(Handler) \in Nat
    BY SetsType, CountsType
  <2> QED BY <2>2, <2>3, SessionsAssumption DEF HasRoom
<1>4. CASE u # usr[p]
  <2>1. LiveOf(u)' \subseteq LiveOf(u)
    BY <1>1, <1>4 DEF LiveOf, TypeOK
  <2> QED BY <1>2, <2>1, RoomShrink
<1> QED BY <1>3, <1>4

LEMMA RoomStep ==
  ASSUME TypeOK, LinkInv, VictimInv, NEW u \in User, HasRoom(u), Next
  PROVE  HasRoom(u)'
<1> USE DEF rows, TokenState
<1>1. ASSUME NEW p \in Handler, NEW v \in User, Login(p, v) \/ Logout(p, v)
      PROVE  HasRoom(u)'
  <2>1. LiveOf(u)' \subseteq LiveOf(u) /\ Issuing(u)' \subseteq Issuing(u)
    BY <1>1 DEF Login, Logout, Begin, Revoke, LiveOf, Issuing, TypeOK, locals
  <2> QED BY <2>1, RoomShrink
<1>2. ASSUME NEW p \in Handler, NEW t \in Token, RefreshBegin(p, t)
      PROVE  HasRoom(u)'
  <2>1. LiveOf(u)' \subseteq LiveOf(u) /\ Issuing(u)' \subseteq Issuing(u)
    BY <1>2 DEF RefreshBegin, Begin, LiveOf, Issuing, TypeOK, locals
  <2> QED BY <2>1, RoomShrink
<1>3. ASSUME NEW p \in Handler,
             RefreshPurge(p) \/ RotateDelete(p) \/ IssueGenerate(p) \/ IssueClean(p)
      PROVE  HasRoom(u)'
  <2>1. LiveOf(u)' \subseteq LiveOf(u)
    BY <1>3 DEF RefreshPurge, RotateDelete, IssueGenerate, IssueClean, Revoke, LiveOf, TypeOK
  <2>2. Issuing(u)' \subseteq Issuing(u)
    BY <1>3 DEF RefreshPurge, RotateDelete, IssueGenerate, IssueClean, Goto, End,
                Issuing, TypeOK
  <2> QED BY <2>1, <2>2, RoomShrink
<1>4. ASSUME Tick \/ Restart
      PROVE  HasRoom(u)'
  <2>1. LiveOf(u)' \subseteq LiveOf(u) /\ Issuing(u)' \subseteq Issuing(u)
    BY <1>4 DEF Tick, Restart, LiveOf, Issuing, locals
  <2> QED BY <2>1, RoomShrink
<1> QED BY <1>1, <1>2, <1>3, <1>4, RoomCount, RoomEvict, RoomCreate DEF Next

(***************************************************************************)
(* However many requests issue tokens of one user at a time, fewer tokens  *)
(* are alive than the limit and those requests together.                   *)
(***************************************************************************)
THEOREM DevicesBounded == Spec => []BoundedDevices
<1> DEFINE AllFit == \A u \in User : HasRoom(u)
<1>1. Init => VictimInv /\ AllFit
  <2>1. Init => VictimInv
    BY DEF Init, VictimInv
  <2>2. ASSUME Init, NEW u \in User
        PROVE  HasRoom(u)
    <3>1. LiveOf(u) = {} /\ Issuing(u) = {}
      BY <2>2 DEF Init, LiveOf, Issuing
    <3>2. Cardinality(Handler) \in Nat
      BY SessionsAssumption, FS_CardinalityType
    <3> QED BY <3>1, <3>2, FS_EmptySet, SessionsAssumption DEF HasRoom
  <2> QED BY <2>1, <2>2
<1>2. TypeOK /\ LinkInv /\ VictimInv /\ AllFit /\ [Next]_vars => (VictimInv /\ AllFit)'
  <2>1. VictimInv /\ AllFit /\ UNCHANGED vars => (VictimInv /\ AllFit)'
    BY DEF vars, rows, locals, VictimInv, HasRoom, LiveOf, Issuing
  <2> QED BY <2>1, VictimStep, RoomStep
<1>3. AllFit => BoundedDevices
  BY DEF BoundedDevices, HasRoom
<1> QED BY <1>1, <1>2, <1>3, SessionsTypeCorrect, TokensLinked, PTL DEF Spec

(***************************************************************************)
(* Served one at a time, requests keep a user's devices within the limit.  *)
(***************************************************************************)
THEOREM SerialDevicesWithinLimit ==
  ASSUME Cardinality(Handler) = 1
  PROVE  Spec => []DevicesWithinLimit
<1>1. BoundedDevices => DevicesWithinLimit
  <2> SUFFICES ASSUME BoundedDevices, NEW u \in User
               PROVE  Cardinality(LiveOf(u)) <= MaxDevices
    BY DEF DevicesWithinLimit
  <2>1. Cardinality(LiveOf(u)) \in Nat /\ Cardinality(Issuing(u)) \in Nat
    BY SetsType, CountsType
  <2> QED BY <2>1, SessionsAssumption DEF BoundedDevices
<1> QED BY <1>1, DevicesBounded, PTL

-----------------------------------------------------------------------------
(* Logout *)

FewSpared(u) ==
  Cardinality(Spared(u)) + Cardinality(Late(u)) <= Cardinality(Handler) - 1

CutInv == \A u \in User : cut[u] <= last

LEMMA SparedType ==
  ASSUME NEW u
  PROVE  /\ Spared(u) \in SUBSET Token /\ Spared(u)' \in SUBSET Token
         /\ Late(u) \in SUBSET Handler /\ Late(u)' \in SUBSET Handler
         /\ Cardinality(Spared(u)) \in Nat /\ Cardinality(Spared(u)') \in Nat
         /\ Cardinality(Late(u)) \in Nat /\ Cardinality(Late(u)') \in Nat
         /\ Cardinality(Handler) \in Nat
<1>1. /\ Spared(u) \in SUBSET Token /\ Spared(u)' \in SUBSET Token
      /\ Late(u) \in SUBSET Handler /\ Late(u)' \in SUBSET Handler
  BY DEF Spared, Late, LiveOf
<1> QED BY <1>1, CountsType

LEMMA SparedShrink ==
  ASSUME NEW u, FewSpared(u),
         Spared(u)' \subseteq Spared(u), Late(u)' \subseteq Late(u)
  PROVE  FewSpared(u)'
<1>1. Cardinality(Spared(u)') + Cardinality(Late(u)')
        <= Cardinality(Spared(u)) + Cardinality(Late(u))
  BY SparedType, CountsType, SumNoMore
<1> QED BY <1>1, SparedType DEF FewSpared

\* The request that logs the user out issues no token.
LEMMA SparedLogout ==
  ASSUME TypeOK, LinkInv, NEW u \in User, FewSpared(u), NEW p \in Handler,
         NEW v \in User, Logout(p, v)
  PROVE  FewSpared(u)'
<1>1. CASE u = v
  <2>1. LiveOf(u)' = {}
    BY <1>1 DEF Logout, Revoke, LiveOf
  <2>2. Spared(u)' = {}
    BY <2>1 DEF Spared
  <2>3. new[p] = 0
    BY DEF Logout, LinkInv, NewInv, Generated
  <2>4. Late(u)' \subseteq Handler \ {p}
    BY <2>3 DEF Logout, Late, locals
  <2>5. IsFiniteSet(Handler \ {p})
          /\ Cardinality(Handler \ {p}) = Cardinality(Handler) - 1
    BY SessionsAssumption, FS_RemoveElement
  <2>6. Cardinality(Late(u)') <= Cardinality(Handler) - 1
    BY <2>4, <2>5, FS_Subset
  <2>7. Cardinality(Spared(u)') = 0
    BY <2>2, FS_EmptySet
  <2> QED BY <2>6, <2>7, SparedType DEF FewSpared
<1>2. CASE u # v
  <2>1. cut'[u] = cut[u]
    BY <1>2 DEF Logout, TypeOK
  <2>2. Spared(u)' \subseteq Spared(u) /\ Late(u)' \subseteq Late(u)
    BY <2>1 DEF Logout, Revoke, Spared, LiveOf, Late, locals
  <2> QED BY <2>2, SparedShrink
<1> QED BY <1>1, <1>2

LEMMA SparedCreate ==
  ASSUME TypeOK, LinkInv, NEW u \in User, FewSpared(u), NEW p \in Handler, IssueCreate(p)
  PROVE  FewSpared(u)'
<1>1. /\ pc[p] = "issueCreate" /\ new[p] \in Token /\ tok[new[p]] = "none"
      /\ tok' = [tok EXCEPT ![new[p]] = "live"]
      /\ holder' = [holder EXCEPT ![new[p]] = usr[p]] /\ End(p) /\ UNCHANGED cut
  BY DEF IssueCreate, LinkInv, NewInv, TypeOK, Generated
<1>2. Late(u)' \subseteq Late(u) \ {p}
  <2>1. new'[p] = 0 /\ 0 \notin 1..cut[u]
    BY <1>1 DEF End, TypeOK
  <2> QED BY <1>1, <2>1 DEF End, Late, TypeOK
<1>3. CASE u = usr[p] /\ new[p] <= cut[u]
  <2>1. p \in Late(u)
    BY <1>1, <1>3, BoundsType DEF Late, Token, TypeOK
  <2>2. Spared(u)' \subseteq Spared(u) \cup {new[p]}
    BY <1>1 DEF Spared, LiveOf, TypeOK
  <2>3. Cardinality(Spared(u)') + Cardinality(Late(u)')
          <= Cardinality(Spared(u)) + Cardinality(Late(u))
    BY <1>1, <1>2, <2>1, <2>2, SparedType, CountsType, SumMoves
  <2> QED BY <2>3, SparedType DEF FewSpared
<1>4. CASE ~(u = usr[p] /\ new[p] <= cut[u])
  <2>1. Spared(u)' \subseteq Spared(u)
    BY <1>1, <1>4 DEF Spared, LiveOf, TypeOK
  <2> QED BY <1>2, <2>1, SparedShrink
<1> QED BY <1>3, <1>4

LEMMA SparedStep ==
  ASSUME TypeOK, LinkInv, CutInv, NEW u \in User, FewSpared(u), Next
  PROVE  FewSpared(u)'
<1> USE DEF rows, history, TokenState
<1>1. \A p \in Handler : pc[p] = "idle" => new[p] \notin 1..cut[u]
  <2>1. 0 \notin 1..cut[u]
    BY DEF TypeOK
  <2> QED BY <2>1 DEF LinkInv, NewInv, Generated
<1>2. ASSUME NEW p \in Handler, NEW v \in User, Login(p, v)
      PROVE  FewSpared(u)'
  <2>1. Spared(u)' \subseteq Spared(u) /\ Late(u)' \subseteq Late(u)
    BY <1>1, <1>2 DEF Login, Begin, Spared, LiveOf, Late, TypeOK
  <2> QED BY <2>1, SparedShrink
<1>3. ASSUME NEW p \in Handler, NEW t \in Token, RefreshBegin(p, t)
      PROVE  FewSpared(u)'
  <2>1. Spared(u)' \subseteq Spared(u) /\ Late(u)' \subseteq Late(u)
    BY <1>1, <1>3 DEF RefreshBegin, Begin, Spared, LiveOf, Late, TypeOK, locals
  <2> QED BY <2>1, SparedShrink
<1>4. ASSUME NEW p \in Handler,
             \/ RefreshPurge(p) \/ RotateDelete(p) \/ IssueClean(p)
             \/ IssueCount(p) \/ IssueEvict(p)
      PROVE  FewSpared(u)'
  <2>1. Spared(u)' \subseteq Spared(u)
    BY <1>4 DEF RefreshPurge, RotateDelete, IssueClean, IssueCount, IssueEvict,
                Revoke, Spared, LiveOf, TypeOK
  <2>2. Late(u)' \subseteq Late(u)
    <3>1. 0 \notin 1..cut[u]
      BY DEF TypeOK
    <3> QED BY <1>4, <3>1 DEF RefreshPurge, RotateDelete, IssueClean, IssueCount,
                              IssueEvict, Goto, End, Late, TypeOK
  <2> QED BY <2>1, <2>2, SparedShrink
<1>5. ASSUME NEW p \in Handler, IssueGenerate(p)
      PROVE  FewSpared(u)'
  <2>1. last + 1 \notin 1..cut[u]
    BY DEF CutInv, TypeOK
  <2>2. Spared(u)' \subseteq Spared(u) /\ Late(u)' \subseteq Late(u)
    BY <1>5, <2>1 DEF IssueGenerate, Spared, LiveOf, Late, TypeOK
  <2> QED BY <2>2, SparedShrink
<1>6. ASSUME Tick \/ Restart
      PROVE  FewSpared(u)'
  <2>1. 0 \notin 1..cut[u]
    BY DEF TypeOK
  <2>2. Spared(u)' \subseteq Spared(u) /\ Late(u)' \subseteq Late(u)
    BY <1>6, <2>1 DEF Tick, Restart, Spared, LiveOf, Late, locals
  <2> QED BY <2>2, SparedShrink
<1> QED BY <1>2, <1>3, <1>4, <1>5, <1>6, SparedLogout, SparedCreate DEF Next

LEMMA CutStep ==
  ASSUME TypeOK, CutInv, Next
  PROVE  CutInv'
<1>1. ASSUME NEW p \in Handler, NEW u \in User, Logout(p, u)
      PROVE  CutInv'
  BY <1>1 DEF Logout, CutInv, TypeOK
<1>2. ASSUME NEW p \in Handler, IssueGenerate(p)
      PROVE  CutInv'
  <2>1. last \in Nat /\ last' = last + 1 /\ UNCHANGED cut
    BY <1>2 DEF IssueGenerate, history, TypeOK
  <2>2. \A u \in User : cut[u] \in Nat
    BY DEF TypeOK
  <2> QED BY <2>1, <2>2 DEF CutInv
<1>3. ASSUME UNCHANGED <<last, cut>>
      PROVE  CutInv'
  BY <1>3 DEF CutInv
<1> QED BY <1>1, <1>2, <1>3
        DEF Next, Login, RefreshBegin, RefreshPurge, RotateDelete,
            IssueClean, IssueCount, IssueEvict, IssueCreate, Tick, Restart, history

(***************************************************************************)
(* A logout ends every session of the user but those that other requests   *)
(* were issuing at that moment.                                            *)
(***************************************************************************)
THEOREM LogoutSpares == Spec => []LogoutSparesInFlight
<1> DEFINE AllFew == \A u \in User : FewSpared(u)
<1>1. Init => CutInv /\ AllFew
  <2>1. Init => CutInv
    BY DEF Init, CutInv
  <2>2. ASSUME Init, NEW u \in User
        PROVE  FewSpared(u)
    <3>1. Spared(u) = {} /\ Late(u) = {}
      BY <2>2 DEF Init, Spared, LiveOf, Late
    <3>2. Cardinality(Handler) \in Nat /\ Cardinality(Handler) # 0
      BY SessionsAssumption, FS_CardinalityType, FS_EmptySet
    <3> QED BY <3>1, <3>2, FS_EmptySet DEF FewSpared
  <2> QED BY <2>1, <2>2
<1>2. TypeOK /\ LinkInv /\ CutInv /\ AllFew /\ [Next]_vars => (CutInv /\ AllFew)'
  <2>1. CutInv /\ AllFew /\ UNCHANGED vars => (CutInv /\ AllFew)'
    BY DEF vars, rows, locals, history, CutInv, FewSpared, Spared, Late, LiveOf
  <2> QED BY <2>1, CutStep, SparedStep
<1>3. AllFew => LogoutSparesInFlight
  BY DEF LogoutSparesInFlight, FewSpared
<1> QED BY <1>1, <1>2, <1>3, SessionsTypeCorrect, TokensLinked, PTL DEF Spec

(***************************************************************************)
(* Served one at a time, a logout leaves no token that is older than it.   *)
(***************************************************************************)
THEOREM SerialLogoutIsComplete ==
  ASSUME Cardinality(Handler) = 1
  PROVE  Spec => [](\A u \in User : Spared(u) = {})
<1>1. LogoutSparesInFlight => \A u \in User : Spared(u) = {}
  <2> SUFFICES ASSUME LogoutSparesInFlight, NEW u \in User
               PROVE  Spared(u) = {}
    OBVIOUS
  <2>1. Cardinality(Spared(u)) = 0
    BY SparedType DEF LogoutSparesInFlight
  <2>2. IsFiniteSet(Spared(u))
    BY SparedType, CountsType
  <2> QED BY <2>1, <2>2, FS_EmptySet
<1> QED BY <1>1, LogoutSpares, PTL

-----------------------------------------------------------------------------
(* The key pairs of Keys: of every account, and of every tab.              *)

Entry == [pair : 0..Len(made), under : 0..(MaxChanges + 1)]
Owner == [account : Account, browser : Browsers, under : 0..(MaxChanges + 1)]
Initialization == [id : 1..begun, tab : Tabs, account : Account, under : 0..(MaxChanges + 1)]

KeysTypes ==
  /\ loggedIn \in [Tabs -> Account \cup {Nobody}]
  /\ users \in [Browsers -> SUBSET Account]
  /\ mem \in [Tabs -> 0..Len(made)] /\ published \in [Account -> 0..Len(made)]
  /\ kept \in [Browsers -> [Account -> Entry]]
  /\ password \in [Account -> 1..(MaxChanges + 1)]
  /\ inits \subseteq Initialization
  /\ uploads \subseteq 1..Len(made)
  /\ made \in Seq(Owner) /\ begun \in 0..MaxInits
  /\ crossed \subseteq Tabs /\ troubled \subseteq Account

\* Every initialization makes one pair at most.
PairsCounted == IsFiniteSet(inits) /\ Len(made) + Cardinality(inits) <= begun

Inits(a) == {i \in inits : i.account = a}
Uploads(a) == {u \in uploads : made[u].account = a}

\* What is kept for an account in a browser was made for it there, under the
\* password it is kept under.
KeptWhereMade ==
  \A b \in Browsers, a \in Account :
    kept[b][a].pair # 0 =>
      made[kept[b][a].pair] = [account |-> a, browser |-> b, under |-> kept[b][a].under]

\* The user whose keys are being initialized in a tab is the one logged in
InitsAtHome == \A i \in inits : i.tab \notin crossed => loggedIn[i.tab] = i.account

\* as is the one whose keys it has.
KeysAtHome ==
  \A t \in Tabs \ crossed :
    mem[t] # 0 => loggedIn[t] # Nobody /\ made[mem[t]].account = loggedIn[t]

\* Whose public key is on its way keeps the pair where it was made, and begins
\* nothing else there.
UploadOK(u, a) ==
  /\ kept[made[u].browser][a].pair = u
  /\ \A i \in Inits(a) : i.tab[1] # made[u].browser

\* The pair of the public key is kept in b; or b is about to publish another,
\* or to make one, which it cannot avoid when it keeps none.
Answers(b, a) ==
  \/ kept[b][a].pair = published[a]
  \/ \E u \in Uploads(a) : made[u].browser = b
  \/ kept[b][a].pair = 0 /\ \E i \in Inits(a) : i.tab[1] = b

AccountOK(a) ==
  /\ \A u \in Uploads(a) : UploadOK(u, a)
  /\ \A i, j \in Inits(a) : i.tab[1] = j.tab[1] => i = j
  /\ published[a] # 0 => \E b \in Browsers : Answers(b, a)

KeysInv ==
  /\ KeysTypes /\ PairsCounted /\ KeptWhereMade /\ InitsAtHome /\ KeysAtHome
  /\ \A a \in Account \ troubled : AccountOK(a)

LEMMA KeysBegin == KeysInit => KeysInv
<1> SUFFICES ASSUME KeysInit PROVE KeysInv
  OBVIOUS
<1>1. Len(made) = 0 /\ begun = 0 /\ inits = {} /\ uploads = {}
  BY DEF KeysInit
<1>2. KeysTypes
  <2>1. /\ MaxChanges \in Nat /\ MaxInits \in Nat /\ 0 \in 0..Len(made)
        /\ 0 \in 0..(MaxChanges + 1) /\ 1 \in 1..(MaxChanges + 1)
    BY <1>1, KeysAssumption
  <2>2. NothingKept \in Entry
    BY <2>1 DEF NothingKept, Entry
  <2>3. made \in Seq(Owner)
    BY DEF KeysInit
  <2> QED BY <1>1, <2>1, <2>2, <2>3 DEF KeysInit, KeysTypes
<1>3. PairsCounted
  BY <1>1, FS_EmptySet DEF PairsCounted
<1>4. KeptWhereMade /\ InitsAtHome /\ KeysAtHome
  BY DEF KeysInit, KeptWhereMade, InitsAtHome, KeysAtHome, NothingKept
<1>5. ASSUME NEW a \in Account
      PROVE  AccountOK(a)
  BY DEF KeysInit, AccountOK, Inits, Uploads
<1> QED BY <1>2, <1>3, <1>4, <1>5 DEF KeysInv

\* What a step neither begins, ends, keeps nor publishes of an account.
LEMMA AccountAlone ==
  ASSUME KeysTypes, NEW a \in Account, AccountOK(a),
         Inits(a)' = Inits(a), Uploads(a)' = Uploads(a),
         \A n \in 1..Len(made) : made'[n] = made[n],
         \A b \in Browsers : kept'[b][a].pair = kept[b][a].pair,
         published'[a] = published[a]
  PROVE  AccountOK(a)'
<1>1. ASSUME NEW u \in Uploads(a)
      PROVE  made'[u] = made[u] /\ made[u].browser \in Browsers
  <2>1. u \in 1..Len(made)
    BY DEF KeysTypes, Uploads
  <2>2. made[u] \in Owner
    BY <2>1 DEF KeysTypes
  <2> QED BY <2>1, <2>2 DEF Owner
<1>2. \A u \in Uploads(a)' : UploadOK(u, a)'
  BY <1>1 DEF AccountOK, UploadOK
<1>3. \A b \in Browsers : Answers(b, a) => Answers(b, a)'
  BY <1>1 DEF Answers
<1> QED BY <1>2, <1>3 DEF AccountOK

LEMMA AllAlone ==
  ASSUME KeysInv, UNCHANGED <<kept, inits, uploads, published, made, troubled>>,
         NEW c \in Account \ troubled
  PROVE  AccountOK(c)'
<1>1. KeysTypes /\ AccountOK(c) /\ Uploads(c)' = Uploads(c) /\ Inits(c)' = Inits(c)
  BY DEF KeysInv, Uploads, Inits
<1>2. /\ \A n \in 1..Len(made) : made'[n] = made[n]
      /\ \A b \in Browsers : kept'[b][c].pair = kept[b][c].pair
      /\ published'[c] = published[c]
  OBVIOUS
<1> QED BY <1>1, <1>2, AccountAlone

-----------------------------------------------------------------------------
(* An initialization begins.                                               *)

LEMMA Begins ==
  ASSUME KeysInv, NEW t \in Tabs, NEW a \in Account, NEW under \in 0..(MaxChanges + 1),
         InitializeE2EKeys(t, a, under), UNCHANGED <<uploads, made, published>>,
         \A b \in Browsers, c \in Account :
           kept'[b][c] # kept[b][c] => b = t[1] /\ c = a /\ kept'[b][c].pair = 0
  PROVE  /\ PairsCounted' /\ begun' \in 0..MaxInits /\ inits' \subseteq Initialization'
         /\ \A i \in inits' \ inits : i.tab = t /\ i.account = a
         /\ troubled' \subseteq Account
         /\ \A c \in Account \ troubled' : AccountOK(c)'
<1> DEFINE fresh == [id |-> begun', tab |-> t, account |-> a, under |-> under]
<1>0. PICK i0 : i0 = fresh
  OBVIOUS
<1>1. /\ begun < MaxInits /\ begun' = begun + 1 /\ inits' = inits \cup {i0}
      /\ troubled' = IF UnderWay(a, t[1]) THEN troubled \cup {a} ELSE troubled
  BY <1>0 DEF InitializeE2EKeys
<1>2. i0.tab = t /\ i0.account = a /\ i0.id = begun' /\ i0.under = under
  BY <1>0
<1>3. begun \in Nat /\ MaxInits \in Nat /\ begun' \in 0..MaxInits
  BY <1>1, KeysAssumption DEF KeysInv, KeysTypes
<1>4. inits' \subseteq Initialization'
  <2>1. i0 \in Initialization'
    BY <1>0, <1>1, <1>3 DEF Initialization
  <2>2. inits \subseteq Initialization'
    BY <1>1, <1>3 DEF Initialization, KeysInv, KeysTypes
  <2> QED BY <1>1, <2>1, <2>2
<1>5. PairsCounted'
  <2>1. /\ IsFiniteSet(inits') /\ Cardinality(inits) \in Nat /\ Cardinality(inits') \in Nat
        /\ Cardinality(inits') <= Cardinality(inits) + 1
    BY <1>1, OneMore DEF KeysInv, PairsCounted
  <2>2. Len(made') = Len(made) /\ Len(made) \in Nat
    BY DEF KeysInv, KeysTypes
  <2> QED BY <1>1, <1>3, <2>1, <2>2 DEF KeysInv, PairsCounted
<1>6. ASSUME NEW c \in Account \ troubled', c # a
      PROVE  AccountOK(c)'
  <2>1. c \notin troubled /\ AccountOK(c) /\ KeysTypes
    BY <1>1, <1>6 DEF KeysInv
  <2>2. Inits(c)' = Inits(c)
    BY <1>1, <1>2, <1>6 DEF Inits
  <2>3. Uploads(c)' = Uploads(c) /\ published'[c] = published[c]
    BY DEF Uploads
  <2>4. \A b \in Browsers : kept'[b][c].pair = kept[b][c].pair
    BY <1>6
  <2>5. \A n \in 1..Len(made) : made'[n] = made[n]
    OBVIOUS
  <2> QED BY <2>1, <2>2, <2>3, <2>4, <2>5, AccountAlone
<1>7. ASSUME a \notin troubled'
      PROVE  AccountOK(a)'
  <2>1. a \notin troubled /\ AccountOK(a) /\ ~UnderWay(a, t[1])
    BY <1>1, <1>7 DEF KeysInv
  <2>2. \A i \in Inits(a) : i.tab[1] # t[1]
    BY <2>1 DEF UnderWay, Inits
  <2>3. ASSUME NEW u \in Uploads(a)
        PROVE  made[u].browser # t[1] /\ made[u].browser \in Browsers
    <3>1. u \in uploads /\ u \in 1..Len(made) /\ made[u].account = a
      BY DEF Uploads, KeysInv, KeysTypes
    <3>2. made[u] \in Owner
      BY <3>1 DEF KeysInv, KeysTypes
    <3> QED BY <2>1, <3>1, <3>2 DEF UnderWay, Owner
  <2>4. Inits(a)' = Inits(a) \cup {i0} /\ Uploads(a)' = Uploads(a)
    BY <1>1, <1>2 DEF Inits, Uploads
  <2>5. \A u \in Uploads(a)' : UploadOK(u, a)'
    <3>1. ASSUME NEW u \in Uploads(a)
          PROVE  kept'[made[u].browser][a] = kept[made[u].browser][a]
      BY <2>3
    <3> QED BY <1>2, <2>1, <2>3, <2>4, <3>1 DEF AccountOK, UploadOK
  <2>6. \A i, j \in Inits(a)' : i.tab[1] = j.tab[1] => i = j
    BY <1>2, <2>1, <2>2, <2>4 DEF AccountOK
  <2>7. ASSUME NEW b \in Browsers, Answers(b, a)
        PROVE  Answers(b, a)'
    <3>1. CASE kept'[b][a] = kept[b][a]
      BY <2>4, <2>7, <3>1 DEF Answers
    <3>2. CASE kept'[b][a] # kept[b][a]
      BY <1>2, <2>4, <3>2 DEF Answers
    <3> QED BY <3>1, <3>2
  <2> QED BY <2>1, <2>5, <2>6, <2>7 DEF AccountOK
<1>8. \A i \in inits' \ inits : i.tab = t /\ i.account = a
  BY <1>1, <1>2
<1>9. troubled' \subseteq Account
  BY <1>1 DEF KeysInv, KeysTypes
<1> QED BY <1>3, <1>4, <1>5, <1>6, <1>7, <1>8, <1>9

\* The tab of who logs in over another user counts as crossed.
LEMMA LoggedIn ==
  ASSUME KeysInv, NEW t \in Tabs, NEW a \in Account, SetAuth(t, a), mem' = mem, made' = made,
         \A i \in inits' \ inits : i.tab = t /\ i.account = a
  PROVE  /\ loggedIn' \in [Tabs -> Account \cup {Nobody}]
         /\ users' \in [Browsers -> SUBSET Account] /\ crossed' \subseteq Tabs
         /\ InitsAtHome' /\ KeysAtHome'
<1>0. KeysTypes /\ a # Nobody /\ t[1] \in Browsers
  BY KeysAssumption DEF KeysInv, Browsers
<1>1. /\ loggedIn' = [loggedIn EXCEPT ![t] = a]
      /\ users' = [users EXCEPT ![t[1]] = @ \cup {a}]
      /\ crossed' = IF loggedIn[t] \notin {Nobody, a} /\ (mem[t] # 0 \/ Initializing(t))
                    THEN crossed \cup {t} ELSE crossed
  BY DEF SetAuth
<1>2. /\ loggedIn' \in [Tabs -> Account \cup {Nobody}]
      /\ \A s \in Tabs : loggedIn'[s] = IF s = t THEN a ELSE loggedIn[s]
  BY <1>0, <1>1 DEF KeysTypes
<1>3. users' \in [Browsers -> SUBSET Account] /\ crossed' \subseteq Tabs
  BY <1>0, <1>1 DEF KeysTypes
<1>4. ASSUME NEW i \in inits', i.tab \notin crossed', i.tab \in Tabs
      PROVE  loggedIn'[i.tab] = i.account
  <2>1. CASE i \notin inits
    BY <1>2, <2>1
  <2>2. CASE i \in inits /\ i.tab # t
    BY <1>1, <1>2, <1>4, <2>2 DEF KeysInv, InitsAtHome
  <2>3. CASE i \in inits /\ i.tab = t
    <3>1. loggedIn[t] = i.account /\ Initializing(t) /\ i.account # Nobody
      <4>1. i \in Initialization
        BY <1>0, <2>3 DEF KeysTypes
      <4> QED BY <1>1, <1>4, <2>3, <4>1, KeysAssumption
              DEF KeysInv, InitsAtHome, Initializing, Initialization
    <3> QED BY <1>1, <1>2, <1>4, <2>3, <3>1
  <2> QED BY <2>1, <2>2, <2>3
<1>5. ASSUME NEW i \in inits'
      PROVE  i.tab \in Tabs
  BY <1>0 DEF KeysTypes, Initialization
<1>6. InitsAtHome'
  BY <1>4, <1>5 DEF InitsAtHome
<1>7. ASSUME NEW s \in Tabs, s \notin crossed', mem[s] # 0
      PROVE  loggedIn'[s] # Nobody /\ made[mem[s]].account = loggedIn'[s]
  <2>1. loggedIn[s] # Nobody /\ made[mem[s]].account = loggedIn[s]
    BY <1>1, <1>7 DEF KeysInv, KeysAtHome
  <2> QED BY <1>0, <1>1, <1>2, <1>7, <2>1
<1>8. KeysAtHome'
  BY <1>7 DEF KeysAtHome
<1> QED BY <1>2, <1>3, <1>6, <1>8

LEMMA LoginBegins ==
  ASSUME KeysInv, NEW t \in Tabs, NEW a \in Account, LoginWithKeys(t, a)
  PROVE  KeysInv'
<1>0. /\ KeysTypes /\ SetAuth(t, a)
      /\ UNCHANGED <<mem, kept, password, uploads, published, made>>
  BY DEF LoginWithKeys, KeysInv
<1>1. password[a] \in 0..(MaxChanges + 1)
  BY KeysAssumption DEF KeysInv, KeysTypes
<1>2. /\ PairsCounted' /\ begun' \in 0..MaxInits /\ inits' \subseteq Initialization'
      /\ \A i \in inits' \ inits : i.tab = t /\ i.account = a
      /\ troubled' \subseteq Account
      /\ \A c \in Account \ troubled' : AccountOK(c)'
  BY <1>0, <1>1, Begins DEF LoginWithKeys
<1>3. /\ loggedIn' \in [Tabs -> Account \cup {Nobody}]
      /\ users' \in [Browsers -> SUBSET Account] /\ crossed' \subseteq Tabs
      /\ InitsAtHome' /\ KeysAtHome'
  BY <1>0, <1>2, LoggedIn
<1>4. KeysTypes'
  BY <1>0, <1>2, <1>3 DEF KeysTypes, Entry, Owner
<1>5. KeptWhereMade'
  BY <1>0 DEF KeysInv, KeptWhereMade
<1> QED BY <1>2, <1>3, <1>4, <1>5 DEF KeysInv

LEMMA LoginOnly ==
  ASSUME KeysInv, NEW t \in Tabs, NEW a \in Account, LoginWithoutKeys(t, a)
  PROVE  KeysInv'
<1>0. /\ KeysTypes /\ SetAuth(t, a)
      /\ UNCHANGED <<mem, kept, password, inits, uploads, published, made, begun, troubled>>
  BY DEF LoginWithoutKeys, KeysInv
<1>1. /\ loggedIn' \in [Tabs -> Account \cup {Nobody}]
      /\ users' \in [Browsers -> SUBSET Account] /\ crossed' \subseteq Tabs
      /\ InitsAtHome' /\ KeysAtHome'
  BY <1>0, LoggedIn
<1>2. KeysTypes'
  BY <1>0, <1>1 DEF KeysTypes, Entry, Owner, Initialization
<1>3. PairsCounted' /\ KeptWhereMade'
  BY <1>0 DEF KeysInv, PairsCounted, KeptWhereMade
<1>4. ASSUME NEW c \in Account \ troubled
      PROVE  AccountOK(c)'
  BY <1>0, AllAlone
<1> QED BY <1>0, <1>1, <1>2, <1>3, <1>4 DEF KeysInv

LEMMA ResetBegins ==
  ASSUME KeysInv, NEW t \in Tabs, NEW right \in BOOLEAN, ResetKeys(t, right)
  PROVE  KeysInv'
<1>0. PICK a \in Account, under \in 0..(MaxChanges + 1) :
        /\ a = loggedIn[t] /\ InitializeE2EKeys(t, a, under)
        /\ kept' = [kept EXCEPT ![t[1]][a] = NothingKept] /\ mem' = [mem EXCEPT ![t] = 0]
        /\ UNCHANGED <<loggedIn, users, password, uploads, published, made, crossed>>
  <2>1. loggedIn[t] \in Account /\ password[loggedIn[t]] \in 1..(MaxChanges + 1)
    BY DEF session, ResetKeys, KeysInv, KeysTypes
  <2>2. MaxChanges \in Nat
    BY KeysAssumption
  <2>3. (IF right THEN password[loggedIn[t]] ELSE 0) \in 0..(MaxChanges + 1)
    BY <2>1, <2>2
  <2> QED BY <2>1, <2>3 DEF session, ResetKeys
<1>1. t[1] \in Browsers /\ KeysTypes /\ NothingKept \in Entry /\ NothingKept.pair = 0
  <2>1. 0 \in 0..Len(made) /\ 0 \in 0..(MaxChanges + 1)
    BY KeysAssumption DEF KeysInv, KeysTypes
  <2> QED BY <2>1 DEF Browsers, KeysInv, NothingKept, Entry
<1>2. /\ kept' \in [Browsers -> [Account -> Entry]]
      /\ \A b \in Browsers, c \in Account :
           kept'[b][c] = IF b = t[1] /\ c = a THEN NothingKept ELSE kept[b][c]
  BY <1>0, <1>1 DEF KeysTypes
<1>3. /\ PairsCounted' /\ begun' \in 0..MaxInits /\ inits' \subseteq Initialization'
      /\ \A i \in inits' \ inits : i.tab = t /\ i.account = a
      /\ troubled' \subseteq Account
      /\ \A c \in Account \ troubled' : AccountOK(c)'
  BY <1>0, <1>1, <1>2, Begins
<1>4. /\ mem' \in [Tabs -> 0..Len(made)]
      /\ \A s \in Tabs : mem'[s] = IF s = t THEN 0 ELSE mem[s]
  BY <1>0, <1>1 DEF KeysTypes
<1>5. KeysTypes'
  BY <1>0, <1>1, <1>2, <1>3, <1>4 DEF KeysTypes, Entry, Owner
<1>6. KeptWhereMade'
  BY <1>0, <1>1, <1>2 DEF KeysInv, KeptWhereMade
<1>7. InitsAtHome'
  BY <1>0, <1>3 DEF KeysInv, InitsAtHome
<1>8. KeysAtHome'
  BY <1>0, <1>4 DEF KeysInv, KeysAtHome
<1> QED BY <1>3, <1>5, <1>6, <1>7, <1>8 DEF KeysInv

-----------------------------------------------------------------------------
(* It ends: with the pair that was kept, with a new one, or with the page. *)

LEMMA FewerInits ==
  ASSUME KeysInv, inits' \subseteq inits, UNCHANGED <<made, begun>>
  PROVE  PairsCounted' /\ inits' \subseteq Initialization'
<1>1. /\ IsFiniteSet(inits') /\ Cardinality(inits) \in Nat /\ Cardinality(inits') \in Nat
      /\ Cardinality(inits') <= Cardinality(inits)
  BY NoMore DEF KeysInv, PairsCounted
<1>2. begun \in Nat /\ Len(made) \in Nat
  BY DEF KeysInv, KeysTypes
<1> QED BY <1>1, <1>2 DEF KeysInv, KeysTypes, PairsCounted, Initialization

\* Whose keys are there: the own ones, when the tab does not count as crossed.
LEMMA Settled ==
  ASSUME KeysInv, NEW i \in inits, inits' = inits \ {i}, loggedIn' = loggedIn, Settle(i)
  PROVE  /\ crossed' \subseteq Tabs /\ crossed \subseteq crossed' \cup {i.tab}
         /\ i.tab \notin crossed' => loggedIn[i.tab] = i.account /\ i.account # Nobody
         /\ InitsAtHome'
<1>0. /\ i \in Initialization /\ i.account \in Account /\ i.account # Nobody
      /\ crossed \subseteq Tabs
  BY KeysAssumption DEF KeysInv, KeysTypes, Initialization
<1>1. CASE crossed' = crossed
  BY <1>0, <1>1 DEF KeysInv, InitsAtHome
<1>2. CASE /\ crossed' = crossed \ {i.tab} /\ i.account = loggedIn[i.tab]
           /\ \A j \in inits : j.tab = i.tab => j.account = i.account
  BY <1>0, <1>2 DEF KeysInv, InitsAtHome
<1> QED BY <1>1, <1>2 DEF Settle

LEMMA KeysLoaded ==
  ASSUME KeysInv, NEW i \in inits, LoadKeys(i)
  PROVE  KeysInv'
<1> DEFINE t == i.tab
           a == i.account
           before == kept[t[1]][a]
<1>0. /\ KeysTypes /\ i \in Initialization /\ t \in Tabs /\ t[1] \in Browsers /\ a \in Account
      /\ inits' = inits \ {i} /\ mem' = [mem EXCEPT ![t] = before.pair] /\ before.pair # 0
      /\ UNCHANGED <<loggedIn, users, kept, password, uploads, published, made, begun, troubled>>
      /\ Settle(i)
  BY DEF session, KeysInv, KeysTypes, LoadKeys, Initialization, Browsers
<1>1. before \in Entry /\ before.pair \in 1..Len(made) /\ made[before.pair].account = a
  <2>1. before \in Entry
    BY <1>0 DEF KeysTypes
  <2>2. before.pair \in 1..Len(made)
    BY <1>0, <2>1 DEF Entry
  <2>3. made[before.pair] = [account |-> a, browser |-> t[1], under |-> before.under]
    BY <1>0 DEF KeysInv, KeptWhereMade
  <2> QED BY <2>1, <2>2, <2>3
<1>2. /\ mem' \in [Tabs -> 0..Len(made)]
      /\ \A s \in Tabs : mem'[s] = IF s = t THEN before.pair ELSE mem[s]
  <2>1. mem \in [Tabs -> 0..Len(made)] /\ before.pair \in 0..Len(made)
    BY <1>0, <1>1 DEF KeysTypes
  <2> HIDE DEF before
  <2> QED BY <1>0, <2>1
<1>3. PairsCounted' /\ inits' \subseteq Initialization'
  BY <1>0, FewerInits
<1>4. /\ crossed' \subseteq Tabs /\ crossed \subseteq crossed' \cup {t}
      /\ t \notin crossed' => loggedIn[t] = a /\ a # Nobody
      /\ InitsAtHome'
  BY <1>0, Settled
<1>5. KeysTypes' /\ KeptWhereMade'
  <2>1. KeysTypes'
    BY <1>0, <1>2, <1>3, <1>4 DEF KeysTypes, Entry, Owner
  <2> QED BY <1>0, <2>1 DEF KeysInv, KeptWhereMade
<1>6. KeysAtHome'
  <2> HIDE DEF t, a, before
  <2> QED BY <1>0, <1>1, <1>2, <1>4 DEF KeysInv, KeysAtHome
<1>7. ASSUME NEW c \in Account \ troubled'
      PROVE  AccountOK(c)'
  <2>1. AccountOK(c) /\ UNCHANGED <<uploads, made, kept, published>>
    BY <1>0, <1>7 DEF KeysInv
  <2>2. Uploads(c)' = Uploads(c) /\ Inits(c)' = Inits(c) \ {i}
    BY <1>0 DEF Uploads, Inits
  <2>3. \A u \in Uploads(c)' : UploadOK(u, c)'
    BY <2>1, <2>2 DEF AccountOK, UploadOK
  <2>4. ASSUME NEW b \in Browsers, Answers(b, c)
        PROVE  Answers(b, c)'
    <3>1. b # t[1] \/ c # a \/ kept[b][c].pair # 0
      BY <1>0
    <3>2. ASSUME NEW j \in Inits(c), j.tab[1] = b, kept[b][c].pair = 0
          PROVE  j \in Inits(c)'
      BY <2>2, <3>1, <3>2 DEF Inits
    <3> QED BY <2>1, <2>2, <2>4, <3>2 DEF Answers
  <2> QED BY <2>1, <2>2, <2>3, <2>4 DEF AccountOK
<1> QED BY <1>3, <1>4, <1>5, <1>6, <1>7 DEF KeysInv

LEMMA TabReloaded ==
  ASSUME KeysInv, NEW t \in Tabs, ReloadTab(t)
  PROVE  KeysInv'
<1>0. /\ KeysTypes /\ inits' = {i \in inits : i.tab # t} /\ mem' = [mem EXCEPT ![t] = 0]
      /\ crossed' = crossed \ {t}
      /\ troubled' = troubled \cup {i.account : i \in {j \in inits : j.tab = t}}
      /\ loggedIn' \in [Tabs -> Account \cup {Nobody}]
      /\ \A s \in Tabs : s # t => loggedIn'[s] = loggedIn[s]
      /\ UNCHANGED <<users, kept, password, uploads, published, made, begun>>
  <2>1. PICK a \in users[t[1]] \cup {Nobody} : loggedIn' = [loggedIn EXCEPT ![t] = a]
    BY DEF ReloadTab
  <2>2. KeysTypes /\ a \in Account \cup {Nobody}
    BY DEF KeysInv, KeysTypes, Browsers
  <2>3. /\ loggedIn' \in [Tabs -> Account \cup {Nobody}]
        /\ \A s \in Tabs : s # t => loggedIn'[s] = loggedIn[s]
    BY <2>1, <2>2 DEF KeysTypes
  <2> QED BY <2>2, <2>3 DEF ReloadTab
<1>1. PairsCounted' /\ inits' \subseteq Initialization'
  BY <1>0, FewerInits
<1>2. /\ mem' \in [Tabs -> 0..Len(made)]
      /\ \A s \in Tabs : mem'[s] = IF s = t THEN 0 ELSE mem[s]
  BY <1>0 DEF KeysTypes
<1>3. troubled' \subseteq Account /\ crossed' \subseteq Tabs
  BY <1>0 DEF KeysTypes, Initialization
<1>4. KeysTypes'
  BY <1>0, <1>1, <1>2, <1>3 DEF KeysTypes, Entry, Owner
<1>5. KeptWhereMade' /\ InitsAtHome'
  <2>1. \A i \in inits' : i \in inits /\ i.tab \in Tabs /\ i.tab # t
    BY <1>0 DEF KeysTypes, Initialization
  <2> QED BY <1>0, <2>1 DEF KeysInv, KeptWhereMade, InitsAtHome
<1>6. KeysAtHome'
  BY <1>0, <1>2 DEF KeysInv, KeysAtHome
<1>7. ASSUME NEW c \in Account \ troubled'
      PROVE  AccountOK(c)'
  <2>1. AccountOK(c) /\ c \notin troubled
    BY <1>0, <1>7 DEF KeysInv
  <2>2. Inits(c)' = Inits(c) /\ Uploads(c)' = Uploads(c)
    BY <1>0, <1>7 DEF Inits, Uploads
  <2>3. /\ \A n \in 1..Len(made) : made'[n] = made[n]
        /\ \A b \in Browsers : kept'[b][c].pair = kept[b][c].pair
        /\ published'[c] = published[c]
    BY <1>0
  <2> QED BY <1>0, <2>1, <2>2, <2>3, AccountAlone
<1> QED BY <1>1, <1>4, <1>5, <1>6, <1>7 DEF KeysInv

\* The sequence of pairs grows at its end.
LEMMA Appended ==
  ASSUME KeysTypes, NEW o \in Owner, made' = Append(made, o)
  PROVE  /\ Len(made) \in Nat /\ Len(made') = Len(made) + 1 /\ made' \in Seq(Owner)
         /\ made'[Len(made')] = o /\ \A n \in 1..Len(made) : made'[n] = made[n]
  BY DEF KeysTypes

LEMMA KeysGenerated ==
  ASSUME KeysInv, NEW i \in inits, GenerateKeys(i)
  PROVE  KeysInv'
<1> DEFINE t == i.tab
           a == i.account
           n == Len(made)
           fresh == Len(made')
<1>0. PICK o \in Owner, entry \in Entry' :
        /\ KeysTypes /\ i \in Initialization /\ t \in Tabs /\ t[1] \in Browsers /\ a \in Account
        /\ o = [account |-> a, browser |-> t[1], under |-> entry.under]
        /\ o.account = a /\ o.browser = t[1]
        /\ made' = Append(made, o) /\ fresh = n + 1 /\ n \in Nat
        /\ entry.pair = fresh
        /\ kept' = [kept EXCEPT ![t[1]][a] = entry]
        /\ inits' = inits \ {i} /\ mem' = [mem EXCEPT ![t] = fresh]
        /\ uploads' = uploads \cup {fresh} /\ Settle(i)
        /\ UNCHANGED <<loggedIn, users, password, published, begun, troubled>>
  <2>1. i \in Initialization /\ t \in Tabs /\ t[1] \in Browsers /\ a \in Account /\ KeysTypes
    BY DEF KeysInv, KeysTypes, Initialization, Browsers
  <2>2. PICK o \in Owner : o = [account |-> a, browser |-> t[1], under |-> i.under]
    BY <2>1 DEF Owner, Initialization
  <2>3. made' = Append(made, o)
    BY <2>2 DEF GenerateKeys
  <2>4. n \in Nat /\ fresh = n + 1
    BY <2>1, <2>3, Appended
  <2>5. PICK entry : entry = [pair |-> fresh, under |-> i.under]
    OBVIOUS
  <2>6. entry \in Entry'
    <3>1. i.under \in 0..(MaxChanges + 1) /\ fresh \in 0..Len(made')
      BY <2>1, <2>4 DEF Initialization
    <3> QED BY <2>5, <3>1 DEF Entry
  <2>7. entry.pair = fresh /\ entry.under = i.under /\ kept' = [kept EXCEPT ![t[1]][a] = entry]
    BY <2>5 DEF GenerateKeys, SaveKeysLocally
  <2> QED BY <2>1, <2>2, <2>3, <2>4, <2>6, <2>7 DEF session, GenerateKeys
<1> HIDE DEF t, a, n, fresh
<1>1. /\ made' \in Seq(Owner) /\ made'[fresh] = o /\ Len(made') = fresh
      /\ \A k \in 1..n : made'[k] = made[k]
  BY <1>0, Appended DEF n, fresh
<1>2. /\ kept' \in [Browsers -> [Account -> Entry']]
      /\ \A b \in Browsers, c \in Account :
           kept'[b][c] = IF b = t[1] /\ c = a THEN entry ELSE kept[b][c]
  <2>1. kept \in [Browsers -> [Account -> Entry']]
    <3>1. Entry \subseteq Entry'
      BY <1>0 DEF Entry, n, fresh
    <3> QED BY <1>0, <3>1 DEF KeysTypes
  <2> QED BY <1>0, <2>1
<1>3. /\ mem' \in [Tabs -> 0..fresh]
      /\ \A s \in Tabs : mem'[s] = IF s = t THEN fresh ELSE mem[s]
  BY <1>0 DEF KeysTypes, n
<1>4. PairsCounted' /\ begun \in 0..MaxInits /\ fresh <= begun
  <2>1. /\ IsFiniteSet(inits') /\ Cardinality(inits) \in Nat /\ Cardinality(inits') \in Nat
        /\ Cardinality(inits') <= Cardinality(inits) - 1
    BY <1>0, OneLess DEF KeysInv, PairsCounted
  <2>2. n + Cardinality(inits) <= begun /\ begun \in 0..MaxInits /\ MaxInits \in Nat
    BY <1>0, KeysAssumption DEF KeysInv, PairsCounted, KeysTypes, n
  <2> QED BY <1>0, <1>1, <2>1, <2>2 DEF PairsCounted
<1>5. /\ crossed' \subseteq Tabs /\ crossed \subseteq crossed' \cup {t}
      /\ t \notin crossed' => loggedIn[t] = a /\ a # Nobody
      /\ InitsAtHome'
  BY <1>0, Settled DEF t, a
<1>6. KeysTypes'
  <2>1. uploads' \subseteq 1..fresh
    <3>1. uploads \subseteq 1..n
      BY <1>0 DEF KeysTypes, n
    <3>2. 1..n \subseteq 1..fresh /\ fresh \in 1..fresh
      BY <1>0
    <3> QED BY <1>0, <3>1, <3>2
  <2>2. inits' \subseteq Initialization'
    BY <1>0 DEF KeysTypes, Initialization
  <2>3. published' \in [Account -> 0..fresh]
    BY <1>0 DEF KeysTypes, n
  <2> QED BY <1>0, <1>1, <1>2, <1>3, <1>5, <2>1, <2>2, <2>3 DEF KeysTypes
<1>7. KeptWhereMade'
  <2>1. ASSUME NEW b \in Browsers, NEW c \in Account, kept[b][c].pair # 0
        PROVE  made'[kept[b][c].pair] = [account |-> c, browser |-> b, under |-> kept[b][c].under]
    <3>1. kept[b][c].pair \in 1..n
      BY <1>0, <2>1 DEF KeysTypes, Entry, n
    <3> QED BY <1>1, <2>1, <3>1 DEF KeysInv, KeptWhereMade
  <2>2. ASSUME NEW b \in Browsers, NEW c \in Account, kept'[b][c].pair # 0
        PROVE  made'[kept'[b][c].pair] = [account |-> c, browser |-> b, under |-> kept'[b][c].under]
    <3>1. CASE b = t[1] /\ c = a
      BY <1>0, <1>1, <1>2, <3>1
    <3>2. CASE ~(b = t[1] /\ c = a)
      BY <1>2, <2>1, <2>2, <3>2
    <3> QED BY <3>1, <3>2
  <2> QED BY <2>2 DEF KeptWhereMade
<1>8. KeysAtHome'
  <2>2. ASSUME NEW s \in Tabs, mem[s] # 0
        PROVE  made'[mem[s]] = made[mem[s]]
    BY <1>0, <1>1, <2>2 DEF KeysTypes, n
  <2> QED BY <1>0, <1>1, <1>3, <1>5, <2>2 DEF KeysInv, KeysAtHome
<1>9. \A u \in uploads : u # fresh /\ u \in 1..n /\ made'[u] = made[u]
  BY <1>0, <1>1 DEF KeysTypes, n
<1>10. ASSUME NEW c \in Account \ troubled', c # a
       PROVE  AccountOK(c)'
  <2>1. AccountOK(c)
    BY <1>0, <1>10 DEF KeysInv
  <2>2. Inits(c)' = Inits(c)
    BY <1>0, <1>10 DEF Inits, a
  <2>3. Uploads(c)' = Uploads(c)
    BY <1>0, <1>1, <1>9, <1>10 DEF Uploads
  <2>4. \A b \in Browsers : kept'[b][c].pair = kept[b][c].pair
    BY <1>2, <1>10
  <2> QED BY <1>0, <1>1, <2>1, <2>2, <2>3, <2>4, AccountAlone DEF n
<1>11. ASSUME a \notin troubled'
       PROVE  AccountOK(a)'
  <2>0. PICK up : up = fresh
    OBVIOUS
  <2>1. AccountOK(a)
    BY <1>0, <1>11 DEF KeysInv
  <2>2. i \in Inits(a) /\ Inits(a)' = Inits(a) \ {i}
    BY <1>0 DEF Inits, a
  <2>3. Uploads(a)' = Uploads(a) \cup {up}
    BY <2>0, <1>0, <1>1, <1>9 DEF Uploads
  <2>4. ASSUME NEW u \in Uploads(a)
        PROVE  /\ UploadOK(u, a) /\ u \in uploads /\ made'[u] = made[u]
               /\ made[u].browser \in Browsers /\ made[u].browser # t[1]
    <3>1. UploadOK(u, a) /\ u \in uploads
      BY <2>1 DEF AccountOK, Uploads
    <3>2. made[u] \in Owner
      BY <1>0, <1>9, <3>1 DEF KeysTypes, n
    <3> QED BY <1>9, <2>2, <3>1, <3>2 DEF Owner, UploadOK, t
  <2>5. ASSUME NEW u \in Uploads(a)
        PROVE  UploadOK(u, a)'
    <3>1. PICK b \in Browsers : b = made[u].browser /\ b # t[1]
      BY <2>4
    <3>2. kept'[b][a] = kept[b][a] /\ made'[u] = made[u]
      BY <1>0, <1>2, <2>4, <3>1
    <3> QED BY <2>2, <2>4, <3>1, <3>2 DEF UploadOK
  <2>6. UploadOK(up, a)'
    <3>1. \A j \in Inits(a)' : j.tab[1] # t[1]
      BY <2>1, <2>2 DEF AccountOK, t
    <3> QED BY <1>0, <1>1, <1>2, <2>0, <3>1 DEF UploadOK
  <2>7. ASSUME NEW b \in Browsers, Answers(b, a)
        PROVE  Answers(b, a)'
    <3>1. CASE b = t[1]
      BY <1>0, <1>1, <2>0, <2>3, <3>1 DEF Answers
    <3>2. CASE b # t[1]
      <4>1. kept'[b][a] = kept[b][a] /\ published'[a] = published[a]
        BY <1>0, <1>2, <3>2
      <4>2. ASSUME NEW j \in Inits(a), j.tab[1] = b
            PROVE  j \in Inits(a)'
        BY <2>2, <3>2, <4>2 DEF t
      <4>3. ASSUME NEW u \in Uploads(a), made[u].browser = b
            PROVE  u \in Uploads(a)' /\ made'[u].browser = b
        BY <2>3, <2>4, <4>3
      <4> QED BY <2>7, <4>1, <4>2, <4>3 DEF Answers
    <3> QED BY <3>1, <3>2
  <2> QED BY <1>0, <2>1, <2>2, <2>3, <2>5, <2>6, <2>7 DEF AccountOK
<1> QED BY <1>0, <1>4, <1>5, <1>6, <1>7, <1>8, <1>10, <1>11 DEF KeysInv

-----------------------------------------------------------------------------
(* A public key arrives, or does not.                                      *)

LEMMA Uploaded ==
  ASSUME KeysInv, NEW u \in uploads, NEW a \in Account, NEW answered \in BOOLEAN,
         UploadE2EKey(u, a, answered)
  PROVE  KeysInv'
<1>0. /\ KeysTypes /\ u \in 1..Len(made) /\ made[u].account \in Account
      /\ made[u].browser \in Browsers /\ u # 0
      /\ published' = [published EXCEPT ![a] = u]
      /\ uploads' \subseteq uploads
      /\ troubled' = IF a = made[u].account THEN troubled
                     ELSE troubled \cup {a, made[u].account}
      /\ UNCHANGED <<loggedIn, users, mem, kept, password, inits, made, begun, crossed>>
  <2>1. KeysTypes /\ u \in 1..Len(made)
    BY DEF KeysInv, KeysTypes
  <2>2. made[u] \in Owner
    BY <2>1 DEF KeysTypes
  <2> QED BY <2>1, <2>2 DEF session, UploadE2EKey, Owner
<1>1. KeysTypes'
  <2>1. published' \in [Account -> 0..Len(made)] /\ troubled' \subseteq Account
    BY <1>0 DEF KeysTypes
  <2> QED BY <1>0, <2>1 DEF KeysTypes, Entry, Owner, Initialization
<1>2. PairsCounted' /\ KeptWhereMade' /\ InitsAtHome' /\ KeysAtHome'
  BY <1>0 DEF KeysInv, PairsCounted, KeptWhereMade, InitsAtHome, KeysAtHome
<1>3. ASSUME NEW c \in Account \ troubled'
      PROVE  AccountOK(c)'
  <2>1. AccountOK(c) /\ Uploads(c)' \subseteq Uploads(c) /\ Inits(c)' = Inits(c)
    BY <1>0, <1>3 DEF KeysInv, Uploads, Inits
  <2>2. \A v \in Uploads(c)' : UploadOK(v, c)'
    BY <1>0, <2>1 DEF AccountOK, UploadOK
  <2>3. CASE c # a
    <3>1. c # made[u].account
      BY <1>0, <1>3, <2>3
    <3>2. published'[c] = published[c] /\ u \notin Uploads(c)
      BY <1>0, <2>3, <3>1 DEF KeysTypes, Uploads
    <3>3. Uploads(c)' = Uploads(c)
      BY <1>0, <3>2 DEF Uploads, UploadE2EKey
    <3>4. /\ \A n \in 1..Len(made) : made'[n] = made[n]
          /\ \A b \in Browsers : kept'[b][c].pair = kept[b][c].pair
      BY <1>0
    <3> QED BY <1>0, <2>1, <3>2, <3>3, <3>4, AccountAlone
  <2>4. CASE c = a
    <3>1. c = made[u].account /\ u \in Uploads(c) /\ published'[c] = u
      BY <1>0, <1>3, <2>4 DEF KeysTypes, Uploads
    <3>2. Answers(made[u].browser, c)'
      BY <1>0, <2>1, <3>1 DEF AccountOK, Answers, UploadOK
    <3> QED BY <1>0, <2>1, <2>2, <3>2 DEF AccountOK
  <2> QED BY <2>3, <2>4
<1> QED BY <1>1, <1>2, <1>3 DEF KeysInv

LEMMA UploadGivenUp ==
  ASSUME KeysInv, NEW u \in uploads, UploadFails(u)
  PROVE  KeysInv'
<1>0. /\ KeysTypes /\ made[u].account \in Account /\ uploads' = uploads \ {u}
      /\ troubled' = troubled \cup {made[u].account}
      /\ UNCHANGED <<loggedIn, users, mem, kept, password, inits, published, made, begun, crossed>>
  <2>1. u \in 1..Len(made) /\ KeysTypes
    BY DEF KeysInv, KeysTypes
  <2>2. made[u] \in Owner
    BY <2>1 DEF KeysTypes
  <2> QED BY <2>1, <2>2 DEF session, UploadFails, Owner
<1>1. KeysTypes'
  BY <1>0 DEF KeysTypes, Entry, Owner, Initialization
<1>2. PairsCounted' /\ KeptWhereMade' /\ InitsAtHome' /\ KeysAtHome'
  BY <1>0 DEF KeysInv, PairsCounted, KeptWhereMade, InitsAtHome, KeysAtHome
<1>3. ASSUME NEW c \in Account \ troubled'
      PROVE  AccountOK(c)'
  <2>1. AccountOK(c) /\ c # made[u].account
    BY <1>0, <1>3 DEF KeysInv
  <2>2. u \notin Uploads(c)
    BY <2>1 DEF Uploads
  <2>3. Uploads(c)' = Uploads(c) /\ Inits(c)' = Inits(c)
    BY <1>0, <2>2 DEF Uploads, Inits
  <2>4. /\ \A n \in 1..Len(made) : made'[n] = made[n]
        /\ \A b \in Browsers : kept'[b][c].pair = kept[b][c].pair
        /\ published'[c] = published[c]
    BY <1>0
  <2> QED BY <1>0, <2>1, <2>3, <2>4, AccountAlone
<1> QED BY <1>1, <1>2, <1>3 DEF KeysInv

-----------------------------------------------------------------------------

\* The user logs out, or changes a password.
LEMMA UserActs ==
  ASSUME KeysInv,
         (\E t \in Tabs : ClearE2ESession(t)) \/ (\E a \in Account : ChangePassword(a))
  PROVE  KeysInv'
<1>0. KeysTypes /\ UNCHANGED <<users, kept, inits, uploads, published, made, begun, troubled>>
  BY DEF session, KeysInv, ClearE2ESession, LoggedOut, ChangePassword
<1>1. KeysTypes' /\ InitsAtHome' /\ KeysAtHome'
  <2>1. ASSUME NEW t \in Tabs, ClearE2ESession(t)
        PROVE  KeysTypes' /\ InitsAtHome' /\ KeysAtHome'
    <3>1. /\ loggedIn' = [loggedIn EXCEPT ![t] = Nobody] /\ mem' = [mem EXCEPT ![t] = 0]
          /\ crossed' = IF \E i \in inits : i.tab = t THEN crossed \cup {t} ELSE crossed \ {t}
          /\ password' = password
      BY <2>1 DEF ClearE2ESession, LoggedOut, Initializing
    <3>2. /\ mem' \in [Tabs -> 0..Len(made)]
          /\ \A s \in Tabs : mem'[s] = IF s = t THEN 0 ELSE mem[s]
      BY <1>0, <3>1 DEF KeysTypes
    <3>3. /\ loggedIn' \in [Tabs -> Account \cup {Nobody}]
          /\ \A s \in Tabs : loggedIn'[s] = IF s = t THEN Nobody ELSE loggedIn[s]
      BY <1>0, <3>1 DEF KeysTypes
    <3>4. KeysTypes'
      BY <1>0, <3>1, <3>2, <3>3 DEF KeysTypes, Entry, Owner, Initialization
    <3>5. ASSUME NEW i \in inits, i.tab \notin crossed'
          PROVE  loggedIn'[i.tab] = i.account
      <4>1. i \in inits /\ i.tab \in Tabs
        BY <1>0, <3>5 DEF KeysTypes, Initialization
      <4>2. i.tab # t /\ i.tab \notin crossed
        BY <3>1, <3>5, <4>1
      <4> QED BY <3>3, <4>1, <4>2 DEF KeysInv, InitsAtHome
    <3>6. KeysAtHome'
      BY <1>0, <3>1, <3>2, <3>3 DEF KeysInv, KeysAtHome
    <3> QED BY <1>0, <3>4, <3>5, <3>6 DEF InitsAtHome
  <2>2. ASSUME NEW a \in Account, ChangePassword(a)
        PROVE  KeysTypes' /\ InitsAtHome' /\ KeysAtHome'
    <3>1. /\ password[a] <= MaxChanges /\ password' = [password EXCEPT ![a] = @ + 1]
          /\ UNCHANGED <<loggedIn, mem, crossed>>
      BY <2>2 DEF session, ChangePassword
    <3>2. password' \in [Account -> 1..(MaxChanges + 1)]
      <4>1. MaxChanges \in Nat
        BY KeysAssumption
      <4> QED BY <1>0, <3>1, <4>1 DEF KeysTypes
    <3>3. KeysTypes'
      BY <1>0, <3>1, <3>2 DEF KeysTypes, Entry, Owner, Initialization
    <3> QED BY <1>0, <3>1, <3>3 DEF KeysInv, InitsAtHome, KeysAtHome
  <2> QED BY <2>1, <2>2
<1>2. PairsCounted' /\ KeptWhereMade'
  BY <1>0 DEF KeysInv, PairsCounted, KeptWhereMade
<1>3. ASSUME NEW c \in Account \ troubled
      PROVE  AccountOK(c)'
  BY <1>0, AllAlone
<1> QED BY <1>0, <1>1, <1>2, <1>3 DEF KeysInv

LEMMA KeysInvariant == KeysSpec => []KeysInv
<1>1. KeysInv /\ [KeysNext]_keyVars => KeysInv'
  <2> SUFFICES ASSUME KeysInv, [KeysNext]_keyVars
               PROVE  KeysInv'
    OBVIOUS
  <2>1. ASSUME NEW i \in inits, LoadKeys(i) \/ GenerateKeys(i)
        PROVE  KeysInv'
    BY <2>1, KeysLoaded, KeysGenerated
  <2>2. ASSUME NEW u \in uploads,
               \/ UploadFails(u)
               \/ \E a \in Account, answered \in BOOLEAN : UploadE2EKey(u, a, answered)
        PROVE  KeysInv'
    BY <2>2, Uploaded, UploadGivenUp
  <2>3. ASSUME NEW t \in Tabs,
               \/ \E a \in Account : LoginWithKeys(t, a) \/ LoginWithoutKeys(t, a)
               \/ ReloadTab(t) \/ \E right \in BOOLEAN : ResetKeys(t, right)
        PROVE  KeysInv'
    BY <2>3, LoginBegins, LoginOnly, TabReloaded, ResetBegins
  <2>4. CASE (\E t \in Tabs : ClearE2ESession(t)) \/ (\E a \in Account : ChangePassword(a))
    BY <2>4, UserActs
  <2>5. CASE UNCHANGED keyVars
    <3>1. KeysTypes' /\ PairsCounted' /\ KeptWhereMade' /\ InitsAtHome' /\ KeysAtHome'
      BY <2>5 DEF session, keyVars, KeysInv, KeysTypes, Entry, Owner, Initialization, PairsCounted,
                  KeptWhereMade, InitsAtHome, KeysAtHome
    <3>2. ASSUME NEW a \in Account, AccountOK(a)
          PROVE  AccountOK(a)'
      BY <2>5, <3>2 DEF session, keyVars, AccountOK, UploadOK, Answers, Inits, Uploads
    <3> QED BY <2>5, <3>1, <3>2 DEF keyVars, KeysInv
  <2> QED BY <2>1, <2>2, <2>3, <2>4, <2>5 DEF KeysNext
<1> QED BY <1>1, KeysBegin, PTL DEF KeysSpec

(***************************************************************************)
(* The tabs, the browsers, the server and the requests between them keep   *)
(* their types; in particular no more pairs are made than initializations  *)
(* have begun.                                                             *)
(***************************************************************************)
THEOREM KeysTypeCorrect == KeysSpec => []KeysTypeOK
<1>1. KeysInv => KeysTypeOK
  <2> SUFFICES ASSUME KeysInv PROVE KeysTypeOK
    OBVIOUS
  <2>1. KeysTypes /\ Len(made) \in Nat /\ Len(made) <= begun /\ begun \in 0..MaxInits
    <3>1. Cardinality(inits) \in Nat /\ Len(made) + Cardinality(inits) <= begun
      BY FS_CardinalityType DEF KeysInv, PairsCounted
    <3>2. KeysTypes /\ Len(made) \in Nat /\ begun \in 0..MaxInits
      BY DEF KeysInv, KeysTypes
    <3> QED BY <3>1, <3>2
  <2>2. 0..Len(made) \subseteq Pair /\ 1..Len(made) = DOMAIN made
    BY <2>1, KeysAssumption DEF Pair, KeysTypes
  <2>3. Entry \subseteq [pair : Pair, under : 0..(MaxChanges + 1)]
    BY <2>2 DEF Entry
  <2>4. mem \in [Tabs -> Pair] /\ published \in [Account -> Pair]
    BY <2>1, <2>2 DEF KeysTypes
  <2>5. kept \in [Browsers -> [Account -> [pair : Pair, under : 0..(MaxChanges + 1)]]]
    BY <2>1, <2>3 DEF KeysTypes
  <2> QED BY <2>1, <2>2, <2>4, <2>5 DEF KeysTypes, KeysTypeOK, Owner, Initialization, Pair
<1> QED BY <1>1, KeysInvariant, PTL

(***************************************************************************)
(* The private key of the public key the server has of a user is kept in   *)
(* one of his browsers, under the password it was made with, or another is *)
(* being made or published there; unless initializations overlapped, were  *)
(* cut short, or a public key did not get through or was another user's.   *)
(***************************************************************************)
THEOREM PublishedKeysAreKept == KeysSpec => []PublishedIsKept
<1>1. KeysInv => PublishedIsKept
  <2> SUFFICES ASSUME KeysInv, NEW a \in Account \ troubled, published[a] # 0
               PROVE  \E b \in Browsers :
                        \/ kept[b][a] = [pair |-> published[a],
                                         under |-> made[published[a]].under]
                        \/ UnderWay(a, b)
    BY DEF PublishedIsKept
  <2>1. AccountOK(a) /\ KeysTypes
    BY DEF KeysInv
  <2>2. PICK b \in Browsers : Answers(b, a)
    BY <2>1 DEF AccountOK
  <2>3. ASSUME NEW u \in Uploads(a), made[u].browser = b
        PROVE  UnderWay(a, b)
    BY <2>3 DEF UnderWay, Uploads
  <2>4. ASSUME NEW i \in Inits(a), i.tab[1] = b
        PROVE  UnderWay(a, b)
    BY <2>4 DEF UnderWay, Inits
  <2>5. ASSUME kept[b][a].pair = published[a]
        PROVE  kept[b][a] = [pair |-> published[a], under |-> made[published[a]].under]
    <3>1. kept[b][a] \in Entry /\ a \in Account
      BY <2>1 DEF KeysTypes
    <3>2. made[kept[b][a].pair] = [account |-> a, browser |-> b, under |-> kept[b][a].under]
      BY <2>5, <3>1 DEF KeysInv, KeptWhereMade
    <3> QED BY <2>5, <3>1, <3>2 DEF Entry
  <2> QED BY <2>2, <2>3, <2>4, <2>5 DEF Answers
<1> QED BY <1>1, KeysInvariant, PTL

(***************************************************************************)
(* A tab has the keys of its own user: what initializeE2EKeys sets when    *)
(* its master key is there belongs to who is logged in by then, unless he  *)
(* logged in over another user, or left the tab, with keys in the making.  *)
(***************************************************************************)
THEOREM TabsHaveOwnKeys == KeysSpec => []OwnKeys
<1>1. KeysInv => OwnKeys
  BY DEF KeysInv, KeysAtHome, OwnKeys
<1> QED BY <1>1, KeysInvariant, PTL

-----------------------------------------------------------------------------
(* The messages that a user sends.                                         *)

PostTypes ==
  /\ lastId \in Nat /\ sent \in 0..MaxOwn
  /\ \A o \in posts : /\ o = [n |-> o.n, chat |-> o.chat, tries |-> o.tries, id |-> o.id,
                              held |-> o.held]
                     /\ o.n \in 1..sent /\ o.id \in Nat
  /\ copies \in [1..MaxOwn -> Nat] /\ lost \in [1..MaxOwn -> Nat]

\* A message is posted by one request at a time.
OnePost == \A o, q \in posts : o.n = q.n => o = q

\* What is stored has been lost as often, unless it waits for its answer or has it.
StoredCounted ==
  /\ \A n \in 1..MaxOwn : copies[n] <= 1 + lost[n]
  /\ \A n \in 1..MaxOwn : n > sent => copies[n] = 0
  /\ \A o \in posts : o.id = 0 => copies[o.n] <= lost[o.n]

PostInv == PostTypes /\ OnePost /\ StoredCounted

\* The other actions change neither the requests nor what is counted of them.
Untouched ==
  /\ lastId' \in Nat
  /\ UNCHANGED <<posts, sent, copies, lost>>

LEMMA PostInit == ThreadInit => PostInv
<1> SUFFICES ASSUME ThreadInit PROVE PostInv
  OBVIOUS
<1>1. MaxOwn \in Nat
  BY ThreadAssumption
<1>2. /\ lastId = 0 /\ posts = {} /\ sent = 0
      /\ copies = [n \in 1..MaxOwn |-> 0] /\ lost = [n \in 1..MaxOwn |-> 0]
  BY DEF ThreadInit, StoreInit
<1> QED BY <1>1, <1>2 DEF PostInv, PostTypes, OnePost, StoredCounted

LEMMA UntouchedKeeps ==
  ASSUME PostInv, Untouched
  PROVE  PostInv'
BY DEF PostInv, PostTypes, OnePost, StoredCounted, Untouched

\* A new message is counted nowhere yet.
LEMMA SendKeeps ==
  ASSUME PostInv, DoSend
  PROVE  PostInv'
<1>0. MaxOwn \in Nat
  BY ThreadAssumption
<1> DEFINE c == open[IF open.room # NoChat THEN "room" ELSE "direct"]
<1>a. PICK held \in BOOLEAN :
        posts' = posts \cup {[n |-> sent + 1, chat |-> c, tries |-> 0, id |-> 0, held |-> held]}
  BY DEF DoSend
<1> DEFINE o == [n |-> sent + 1, chat |-> c, tries |-> 0, id |-> 0, held |-> held]
<1>1. /\ sent < MaxOwn /\ sent' = sent + 1 /\ posts' = posts \cup {o}
      /\ UNCHANGED <<lastId, copies, lost>>
  BY <1>a DEF DoSend, tables, store
<1>2. o.n = sent + 1 /\ o.id = 0 /\ o.tries = 0
  OBVIOUS
<1> HIDE DEF o, c
<1>3. /\ lastId \in Nat /\ sent \in 0..MaxOwn
      /\ copies \in [1..MaxOwn -> Nat] /\ lost \in [1..MaxOwn -> Nat]
      /\ \A q \in posts : q.n \in 1..sent
  BY DEF PostInv, PostTypes
<1>4. sent + 1 \in 1..MaxOwn
  BY <1>0, <1>1, <1>3
<1>5. /\ o = [n |-> o.n, chat |-> o.chat, tries |-> o.tries, id |-> o.id, held |-> o.held]
      /\ o.n = sent + 1 /\ o.id = 0
  BY DEF o
<1>6. PostTypes'
  <2>1. ASSUME NEW q \in posts'
        PROVE  /\ q = [n |-> q.n, chat |-> q.chat, tries |-> q.tries, id |-> q.id, held |-> q.held]
               /\ q.n \in 1..(sent + 1) /\ q.id \in Nat
    <3>1. CASE q \in posts
      <4>1. /\ q = [n |-> q.n, chat |-> q.chat, tries |-> q.tries, id |-> q.id, held |-> q.held]
            /\ q.n \in 1..sent /\ q.id \in Nat
        BY <3>1 DEF PostInv, PostTypes
      <4> QED BY <4>1, <1>3
    <3>2. CASE q = o
      BY <3>2, <1>3, <1>5
    <3> QED BY <1>1, <2>1, <3>1, <3>2
  <2> QED BY <1>1, <1>3, <1>4, <2>1, <1>0 DEF PostTypes
<1>7. OnePost'
  BY <1>1, <1>3, <1>5 DEF OnePost, PostInv
<1>8. StoredCounted'
  <2>1. copies[sent + 1] = 0 /\ lost[sent + 1] \in Nat
    BY <1>3, <1>4 DEF StoredCounted, PostInv
  <2> QED BY <1>1, <1>3, <1>5, <2>1, <1>0 DEF StoredCounted, PostInv
<1> QED BY <1>6, <1>7, <1>8 DEF PostInv

LEMMA NotHeld ==
  ASSUME NEW n, NEW c, NEW t, NEW i, NEW h, NEW p,
         p = [[n |-> n, chat |-> c, tries |-> t, id |-> i, held |-> h] EXCEPT !.held = FALSE]
  PROVE  /\ p = [n |-> n, chat |-> c, tries |-> t, id |-> i, held |-> FALSE]
         /\ p.n = n /\ p.id = i
OBVIOUS

\* A message that has been encrypted is posted under the number it had.
LEMMA EncryptedKeeps ==
  ASSUME PostInv, NEW o \in posts, EncryptForPeer(o)
  PROVE  PostInv'
<1> DEFINE p == [o EXCEPT !.held = FALSE]
<1>1. posts' = (posts \ {o}) \cup {p} /\ UNCHANGED <<lastId, sent, copies, lost>>
  BY DEF EncryptForPeer, tables, store, counts
<1>2. /\ o = [n |-> o.n, chat |-> o.chat, tries |-> o.tries, id |-> o.id, held |-> o.held]
      /\ o.n \in 1..sent /\ o.id \in Nat
  BY DEF PostInv, PostTypes
<1>3. /\ p = [n |-> p.n, chat |-> p.chat, tries |-> p.tries, id |-> p.id, held |-> p.held]
      /\ p.n = o.n /\ p.id = o.id
  <2>1. PICK n, c, t, i, h : n = o.n /\ c = o.chat /\ t = o.tries /\ i = o.id /\ h = o.held
    OBVIOUS
  <2>2. o = [n |-> n, chat |-> c, tries |-> t, id |-> i, held |-> h]
    BY <1>2, <2>1
  <2>3. p = [[n |-> n, chat |-> c, tries |-> t, id |-> i, held |-> h] EXCEPT !.held = FALSE]
    BY <2>2
  <2> HIDE DEF p
  <2>4. p = [n |-> n, chat |-> c, tries |-> t, id |-> i, held |-> FALSE] /\ p.n = n /\ p.id = i
    BY <2>3, NotHeld
  <2> QED BY <2>1, <2>4
<1> HIDE DEF p
<1>4. PostTypes'
  BY <1>1, <1>2, <1>3 DEF PostInv, PostTypes
<1>5. OnePost'
  BY <1>1, <1>3 DEF OnePost, PostInv
<1>6. StoredCounted'
  BY <1>1, <1>3 DEF StoredCounted, PostInv
<1> QED BY <1>4, <1>5, <1>6 DEF PostInv

\* A request with another id is the same otherwise.
LEMMA WithId ==
  ASSUME NEW n, NEW c, NEW t, NEW i, NEW h, NEW j, NEW p,
         p = [[n |-> n, chat |-> c, tries |-> t, id |-> i, held |-> h] EXCEPT !.id = j]
  PROVE  p = [n |-> n, chat |-> c, tries |-> t, id |-> j, held |-> h] /\ p.n = n /\ p.id = j
OBVIOUS

\* The server stores a message of a request that has not been served.
LEMMA PostKeeps ==
  ASSUME PostInv, NEW o \in posts, PostMessage(o)
  PROVE  PostInv'
<1> DEFINE p == [o EXCEPT !.id = lastId + 1]
<1>1. /\ o.id = 0 /\ lastId' = lastId + 1
      /\ posts' = (posts \ {o}) \cup {p}
      /\ copies' = [copies EXCEPT ![o.n] = @ + 1]
      /\ sent' = sent /\ lost' = lost
  BY DEF PostMessage, Say, Post
<1>2. /\ lastId \in Nat /\ sent \in 0..MaxOwn
      /\ copies \in [1..MaxOwn -> Nat] /\ lost \in [1..MaxOwn -> Nat]
      /\ \A q \in posts : q.n \in 1..sent /\ q.id \in Nat
      /\ o = [n |-> o.n, chat |-> o.chat, tries |-> o.tries, id |-> o.id, held |-> o.held]
      /\ MaxOwn \in Nat
  BY ThreadAssumption DEF PostInv, PostTypes
<1>3. /\ p = [n |-> p.n, chat |-> p.chat, tries |-> p.tries, id |-> p.id, held |-> p.held]
      /\ p.n = o.n /\ p.id = lastId + 1
  <2>1. PICK n, c, t, i, h, j : /\ n = o.n /\ c = o.chat /\ t = o.tries /\ i = o.id
                                 /\ h = o.held /\ j = lastId + 1
    OBVIOUS
  <2>2. o = [n |-> n, chat |-> c, tries |-> t, id |-> i, held |-> h]
    BY <1>2, <2>1
  <2>3. p = [[n |-> n, chat |-> c, tries |-> t, id |-> i, held |-> h] EXCEPT !.id = j]
    BY <2>1, <2>2
  <2> HIDE DEF p
  <2>4. p = [n |-> n, chat |-> c, tries |-> t, id |-> j, held |-> h] /\ p.n = n /\ p.id = j
    BY <2>3, WithId
  <2> QED BY <2>1, <2>4
<1> HIDE DEF p
<1>4. o.n \in 1..MaxOwn /\ copies[o.n] <= lost[o.n] /\ copies[o.n] \in Nat /\ lost[o.n] \in Nat
  BY <1>1, <1>2 DEF PostInv, StoredCounted
<1>5. /\ copies' \in [1..MaxOwn -> Nat]
      /\ \A n \in 1..MaxOwn : copies'[n] = IF n = o.n THEN copies[n] + 1 ELSE copies[n]
  BY <1>1, <1>2, <1>4
<1>6. PostTypes'
  <2>1. ASSUME NEW q \in posts'
        PROVE  /\ q = [n |-> q.n, chat |-> q.chat, tries |-> q.tries, id |-> q.id, held |-> q.held]
               /\ q.n \in 1..sent /\ q.id \in Nat
    <3>1. CASE q \in posts
      BY <3>1 DEF PostInv, PostTypes
    <3>2. CASE q = p
      BY <3>2, <1>2, <1>3
    <3> QED BY <1>1, <2>1, <3>1, <3>2
  <2> QED BY <1>1, <1>2, <1>5, <2>1 DEF PostTypes
<1>7. OnePost'
  BY <1>1, <1>3 DEF OnePost, PostInv
<1>8. StoredCounted'
  <2>1. ASSUME NEW n \in 1..MaxOwn
        PROVE  copies'[n] <= 1 + lost'[n] /\ (n > sent' => copies'[n] = 0)
    BY <1>1, <1>2, <1>4, <1>5, <2>1 DEF StoredCounted, PostInv
  <2>2. ASSUME NEW q \in posts', q.id = 0
        PROVE  copies'[q.n] <= lost'[q.n]
    <3>1. q \in posts /\ q # o
      BY <1>1, <1>2, <1>3, <2>2
    <3>2. q.n # o.n /\ q.n \in 1..MaxOwn /\ copies[q.n] <= lost[q.n]
      BY <1>2, <2>2, <3>1 DEF OnePost, StoredCounted, PostInv
    <3> QED BY <1>1, <1>5, <3>2
  <2> QED BY <2>1, <2>2 DEF StoredCounted
<1> QED BY <1>6, <1>7, <1>8 DEF PostInv

\* An answered request is gone.
LEMMA AnswerKeeps ==
  ASSUME PostInv, NEW o \in posts, PostAnswered(o)
  PROVE  PostInv'
<1>1. /\ posts' = posts \ {o}
      /\ UNCHANGED <<lastId, sent, copies, lost>>
  BY DEF PostAnswered, tables, store, counts
<1> QED BY <1>1 DEF PostInv, PostTypes, OnePost, StoredCounted

\* A request that fails is posted again as long as it has not been too often;
\* if it had been served, its answer is lost.
LEMMA FailureKeeps ==
  ASSUME PostInv, NEW o \in posts, PostFails(o)
  PROVE  PostInv'
<1> DEFINE p == [o EXCEPT !.tries = @ + 1, !.id = 0]
<1>1. /\ posts' = (posts \ {o}) \cup {p} \/ posts' = posts \ {o}
      /\ lost' = [lost EXCEPT ![o.n] = IF o.id # 0 THEN @ + 1 ELSE @]
      /\ lastId' = lastId /\ sent' = sent /\ copies' = copies
  BY DEF PostFails, tables, store
<1>2. /\ lastId \in Nat /\ sent \in 0..MaxOwn
      /\ copies \in [1..MaxOwn -> Nat] /\ lost \in [1..MaxOwn -> Nat]
      /\ \A q \in posts : q.n \in 1..sent /\ q.id \in Nat
      /\ o = [n |-> o.n, chat |-> o.chat, tries |-> o.tries, id |-> o.id, held |-> o.held]
      /\ MaxOwn \in Nat
  BY ThreadAssumption DEF PostInv, PostTypes
<1>3. /\ p = [n |-> p.n, chat |-> p.chat, tries |-> p.tries, id |-> p.id, held |-> p.held]
      /\ p.n = o.n /\ p.id = 0
  <2> DEFINE q == [n |-> o.n, chat |-> o.chat, tries |-> o.tries + 1, id |-> o.id, held |-> o.held]
  <2>1. [o EXCEPT !.tries = @ + 1] = q
    BY <1>2
  <2>2. [q EXCEPT !.id = 0]
          = [n |-> o.n, chat |-> o.chat, tries |-> o.tries + 1, id |-> 0, held |-> o.held]
    OBVIOUS
  <2>3. p = [[o EXCEPT !.tries = @ + 1] EXCEPT !.id = 0]
    OBVIOUS
  <2> QED BY <2>1, <2>2, <2>3
<1> HIDE DEF p
<1>4. o.n \in 1..MaxOwn /\ copies[o.n] \in Nat /\ lost[o.n] \in Nat
  BY <1>2
<1>5. /\ lost' \in [1..MaxOwn -> Nat]
      /\ \A n \in 1..MaxOwn : n # o.n => lost'[n] = lost[n]
      /\ lost'[o.n] = IF o.id # 0 THEN lost[o.n] + 1 ELSE lost[o.n]
  BY <1>1, <1>2, <1>4
<1>6. copies[o.n] <= lost'[o.n]
  BY <1>2, <1>4, <1>5 DEF StoredCounted, PostInv
<1>7. PostTypes'
  <2>1. ASSUME NEW q \in posts'
        PROVE  /\ q = [n |-> q.n, chat |-> q.chat, tries |-> q.tries, id |-> q.id, held |-> q.held]
               /\ q.n \in 1..sent /\ q.id \in Nat
    <3>1. CASE q \in posts
      BY <3>1 DEF PostInv, PostTypes
    <3>2. CASE q = p
      BY <3>2, <1>2, <1>3
    <3> QED BY <1>1, <2>1, <3>1, <3>2
  <2> QED BY <1>1, <1>2, <1>5, <2>1 DEF PostTypes
<1>8. OnePost'
  BY <1>1, <1>3 DEF OnePost, PostInv
<1>9. StoredCounted'
  <2>1. ASSUME NEW n \in 1..MaxOwn
        PROVE  copies'[n] <= 1 + lost'[n] /\ (n > sent' => copies'[n] = 0)
    <3>1. CASE n = o.n
      BY <1>1, <1>2, <1>4, <1>5, <1>6, <3>1
    <3>2. CASE n # o.n
      BY <1>1, <1>5, <3>2 DEF StoredCounted, PostInv
    <3> QED BY <3>1, <3>2
  <2>2. ASSUME NEW q \in posts', q.id = 0
        PROVE  copies'[q.n] <= lost'[q.n]
    <3>1. CASE q = p
      BY <1>1, <1>3, <1>6, <3>1
    <3>2. CASE q \in posts /\ q # o
      <4>1. q.n # o.n /\ q.n \in 1..MaxOwn /\ copies[q.n] <= lost[q.n]
        BY <1>2, <2>2, <3>2 DEF OnePost, StoredCounted, PostInv
      <4> QED BY <1>1, <1>5, <4>1
    <3> QED BY <1>1, <2>2, <3>1, <3>2
  <2> QED BY <2>1, <2>2 DEF StoredCounted
<1> QED BY <1>7, <1>8, <1>9 DEF PostInv

LEMMA PostStep == PostInv /\ [ThreadNext]_threadVars => PostInv'
<1> SUFFICES ASSUME PostInv, [ThreadNext]_threadVars PROVE PostInv'
  OBVIOUS
<1>0. lastId \in Nat /\ lastId + 1 \in Nat
  BY DEF PostInv, PostTypes
<1>1. ASSUME NEW p \in Peer, SelectContact(p) \/ SelectFound(p) PROVE PostInv'
  BY <1>0, <1>1, UntouchedKeeps DEF Untouched, SelectContact, SelectFound, Reopen, tables, store
<1>2. ASSUME NEW r \in Room, SelectRoom(r) \/ MemberSays(r) PROVE PostInv'
  BY <1>0, <1>2, UntouchedKeeps DEF Untouched, SelectRoom, Reopen, MemberSays, Say, Others, tables, store
<1>3. ASSUME FollowAddress \/ ContactsLoaded \/ RoomsLoaded \/ SocketLost PROVE PostInv'
  BY <1>0, <1>3, UntouchedKeeps
  DEF Untouched, FollowAddress, ContactsLoaded, RoomsLoaded, SocketLost, Reopen, tables, store
<1>4. ASSUME DoSend PROVE PostInv'
  BY <1>4, SendKeeps
<1>5. ASSUME NEW k \in Kind, Poll(k) \/ LoadMore(k) PROVE PostInv'
  BY <1>0, <1>5, UntouchedKeeps DEF Untouched, Poll, LoadMore, tables, store, counts
<1>6. ASSUME NEW g \in gets, GetThread(g) \/ Receive(g) \/ GetFails(g) PROVE PostInv'
  BY <1>0, <1>6, UntouchedKeeps DEF Untouched, GetThread, Receive, GetFails, tables, store, counts
<1>7. ASSUME NEW o \in posts,
             EncryptForPeer(o) \/ PostMessage(o) \/ PostAnswered(o) \/ PostFails(o)
      PROVE  PostInv'
  BY <1>7, EncryptedKeeps, PostKeeps, AnswerKeeps, FailureKeeps
<1>8. ASSUME NEW m, SubmitEdit(m) \/ DeleteDirectMessage(m) \/ SubmitEditRoom(m) PROVE PostInv'
  BY <1>0, <1>8, UntouchedKeeps
  DEF Untouched, SubmitEdit, DeleteDirectMessage, SubmitEditRoom, Ask, tables, store
<1>9. ASSUME NEW m, MemberEdits(m) PROVE PostInv'
  BY <1>0, <1>9, UntouchedKeeps DEF Untouched, MemberEdits, Reword, Others, store
<1>10. ASSUME NEW c \in calls, Serve(c) \/ Answered(c) PROVE PostInv'
  BY <1>0, <1>10, UntouchedKeeps
  DEF Untouched, Serve, Answered, Reword, MarkRead, Edit, Delete, tables, store, counts
<1>11. ASSUME NEW p \in Peer, PeerSends(p) PROVE PostInv'
  BY <1>0, <1>11, UntouchedKeeps DEF Untouched, PeerSends, Post, Others
<1>12. ASSUME NEW p \in Peer, NEW m, PeerReads(p, m) \/ PeerEdits(p, m) \/ PeerDeletes(p, m)
       PROVE  PostInv'
  BY <1>0, <1>12, UntouchedKeeps
  DEF Untouched, PeerReads, PeerEdits, PeerDeletes, MarkRead, Edit, Delete, Others
<1>13. ASSUME NEW e \in events, Handle(e) PROVE PostInv'
  BY <1>0, <1>13, UntouchedKeeps DEF Untouched, Handle, tables, store, counts
<1>14. ASSUME UNCHANGED threadVars PROVE PostInv'
  BY <1>0, <1>14, UntouchedKeeps DEF Untouched, threadVars, tables, store, net, counts
<1> QED
  BY <1>1, <1>2, <1>3, <1>4, <1>5, <1>6, <1>7, <1>8, <1>9, <1>10, <1>11, <1>12, <1>13, <1>14
  DEF ThreadNext

LEMMA ThreadSpecInv == ThreadSpec => []PostInv
<1>1. ThreadInit => PostInv
  BY PostInit
<1>2. PostInv /\ [ThreadNext]_threadVars => PostInv'
  BY PostStep
<1> QED BY <1>1, <1>2, PTL DEF ThreadSpec

(***************************************************************************)
(* doSend posts a message again after a network error without knowing      *)
(* whether the server stored it: it is stored once more for every answer   *)
(* that was lost and never otherwise, however many messages are on their   *)
(* way, however often each is repeated and in whatever order.              *)
(***************************************************************************)
THEOREM OneCopyUnlessLostHolds == ThreadSpec => []OneCopyUnlessLost
<1>1. PostInv => OneCopyUnlessLost
  <2> SUFFICES ASSUME PostInv, NEW n \in 1..sent PROVE copies[n] <= 1 + lost[n]
    BY DEF OneCopyUnlessLost
  <2>1. n \in 1..MaxOwn
    BY ThreadAssumption DEF PostInv, PostTypes
  <2> QED BY <2>1 DEF PostInv, StoredCounted
<1> QED BY <1>1, ThreadSpecInv, PTL

-----------------------------------------------------------------------------
(* The pages of earlier messages.                                          *)

\* A contact or a room is open where a contact or a room may be.
OpenOK == DOMAIN open = Kind /\ open["room"] \in Room \cup {NoChat} /\ open["direct"] \notin Room

GetOK(g) ==
  g = [kind |-> g.kind, chat |-> g.chat, before |-> g.before, done |-> g.done, page |-> g.page]

LoadInv ==
  /\ OpenOK /\ loading \in [Kind -> BOOLEAN]
  /\ \A g \in gets : GetOK(g)
  /\ LoadsOnce

LEMMA LoadInit == ThreadInit => LoadInv
BY ThreadAssumption DEF ThreadInit, LoadInv, OpenOK, LoadsOnce, Earlier, Kind

\* What is asked for besides leaves the earlier pages alone.
LEMMA AskedKeeps ==
  ASSUME LoadInv, OpenOK', UNCHANGED loading, NEW more2,
         gets' = gets \cup more2, \A g \in more2 : GetOK(g) /\ g.kind # "more"
  PROVE  LoadInv'
<1>1. \A k \in Kind : Earlier(k)' = Earlier(k)
  BY DEF Earlier
<1> QED BY <1>1 DEF LoadInv, LoadsOnce, GetOK

LEMMA NewGetOK ==
  ASSUME NEW kind, NEW c, NEW before
  PROVE  /\ GetOK(NewGet(kind, c, before))
         /\ NewGet(kind, c, before).kind = kind /\ NewGet(kind, c, before).chat = c
BY DEF GetOK, NewGet

LEMMA ReopenKeeps ==
  ASSUME LoadInv, NEW now, NEW clicked, NEW again, Reopen(now, clicked, again),
         DOMAIN now = Kind, now["room"] \in Room \cup {NoChat}, now["direct"] \notin Room
  PROVE  LoadInv'
<1> DEFINE changed == {k \in Kind : now[k] # open[k] \/ (now[k] \in again \ {NoChat})}
           asked == {NewGet("select", now[k], 0) : k \in {j \in changed : now[j] # NoChat}}
<1>1. open' = now /\ gets' = gets \cup asked /\ UNCHANGED loading
  BY DEF Reopen
<1>2. \A g \in asked : GetOK(g) /\ g.kind # "more"
  BY NewGetOK
<1>3. OpenOK'
  BY <1>1 DEF OpenOK
<1> HIDE DEF asked
<1> QED BY <1>1, <1>2, <1>3, AskedKeeps

LEMMA ChatsReopen ==
  ASSUME LoadInv,
         \/ \E p \in Peer : SelectContact(p) \/ SelectFound(p)
         \/ \E r \in Room : SelectRoom(r)
         \/ FollowAddress \/ ContactsLoaded \/ RoomsLoaded
  PROVE  LoadInv'
<1>0. /\ NoChat \notin Room /\ \A p \in Peer : p \notin Room
      /\ OpenOK
  BY ThreadAssumption DEF Peer, LoadInv
<1>1. ASSUME NEW c, NEW r, NEW clicked, NEW again, c \notin Room, r \in Room \cup {NoChat},
             Reopen([direct |-> c, room |-> r], clicked, again)
      PROVE  LoadInv'
  <2> DEFINE now == [direct |-> c, room |-> r]
  <2>1. /\ DOMAIN now = Kind /\ now["room"] \in Room \cup {NoChat} /\ now["direct"] \notin Room
        /\ Reopen(now, clicked, again)
    BY <1>1 DEF Kind
  <2> HIDE DEF now
  <2> QED BY <2>1, ReopenKeeps
<1>2. ASSUME NEW c, NEW clicked, NEW again, c \notin Room,
             Reopen([open EXCEPT !.direct = c], clicked, again)
      PROVE  LoadInv'
  <2> DEFINE now == [open EXCEPT !.direct = c]
  <2>1. /\ DOMAIN now = Kind /\ now["room"] \in Room \cup {NoChat} /\ now["direct"] \notin Room
    BY <1>0, <1>2 DEF OpenOK, Kind
  <2>2. Reopen(now, clicked, again)
    BY <1>2
  <2> HIDE DEF now
  <2> QED BY <2>1, <2>2, ReopenKeeps
<1>3. ASSUME NEW p \in Peer, SelectContact(p) PROVE LoadInv'
  BY <1>0, <1>1, <1>3 DEF SelectContact
<1>4. ASSUME NEW p \in Peer, SelectFound(p) PROVE LoadInv'
  BY <1>0, <1>2, <1>4 DEF SelectFound
<1>5. ASSUME NEW r \in Room, SelectRoom(r) PROVE LoadInv'
  BY <1>0, <1>1, <1>5 DEF SelectRoom
<1>6. ASSUME FollowAddress PROVE LoadInv'
  BY <1>0, <1>1, <1>6 DEF FollowAddress
<1>7. ASSUME ContactsLoaded PROVE LoadInv'
  BY <1>0, <1>2, <1>7 DEF ContactsLoaded
<1>8. ASSUME RoomsLoaded PROVE LoadInv'
  <2>1. CASE pinned \in Room
    BY <1>0, <1>1, <1>8, <2>1 DEF RoomsLoaded
  <2>2. CASE pinned \notin Room
    BY <1>8, <2>2 DEF RoomsLoaded, screen, LoadInv, OpenOK, LoadsOnce, Earlier, GetOK
  <2> QED BY <2>1, <2>2
<1> QED BY <1>3, <1>4, <1>5, <1>6, <1>7, <1>8

LEMMA PollKeeps ==
  ASSUME LoadInv, NEW k \in Kind, Poll(k)
  PROVE  LoadInv'
<1> DEFINE asked == {NewGet("poll", open[k], 0)}
<1>1. gets' = gets \cup asked /\ UNCHANGED <<open, loading>>
  BY DEF Poll, screen
<1>2. \A g \in asked : GetOK(g) /\ g.kind # "more"
  BY NewGetOK
<1> HIDE DEF asked
<1>3. OpenOK'
  BY <1>1 DEF LoadInv, OpenOK
<1> QED BY <1>1, <1>2, <1>3, AskedKeeps

LEMMA LoadMoreKeeps ==
  ASSUME LoadInv, NEW k \in Kind, LoadMore(k)
  PROVE  LoadInv'
<1> DEFINE n == NewGet("more", open[k], more[k])
<1>1. /\ ~loading[k] /\ open[k] # NoChat
      /\ loading' = [loading EXCEPT ![k] = TRUE]
      /\ gets' = gets \cup {n} /\ open' = open
  BY DEF LoadMore
<1>2. GetOK(n) /\ n.kind = "more" /\ n.chat = open[k]
  BY NewGetOK
<1> HIDE DEF n
<1>3. KindOf(n.chat) = k
  BY <1>1, <1>2 DEF LoadInv, OpenOK, Kind, KindOf
<1>4. Earlier(k) = {} /\ Earlier(k)' = {n}
  <2>1. Earlier(k) = {}
    BY <1>1 DEF LoadInv, LoadsOnce
  <2> QED BY <1>1, <1>2, <1>3, <2>1 DEF Earlier
<1>5. \A j \in Kind \ {k} : Earlier(j)' = Earlier(j)
  BY <1>1, <1>2, <1>3 DEF Earlier
<1>6. LoadsOnce'
  <2> SUFFICES ASSUME NEW j \in Kind
               PROVE  (loading'[j] <=> Earlier(j)' # {}) /\ \A g, h \in Earlier(j)' : g = h
    BY DEF LoadsOnce
  <2>1. CASE j = k
    <3>1. loading'[j]
      BY <1>1, <2>1 DEF LoadInv
    <3>2. Earlier(j)' = {n}
      BY <1>4, <2>1
    <3> QED BY <3>1, <3>2
  <2>2. CASE j # k
    <3>1. loading'[j] <=> loading[j]
      BY <1>1, <2>2 DEF LoadInv
    <3>2. Earlier(j)' = Earlier(j)
      BY <1>5, <2>2
    <3> QED BY <3>1, <3>2 DEF LoadInv, LoadsOnce
  <2> QED BY <2>1, <2>2
<1>7. \A g \in gets' : GetOK(g)
  BY <1>1, <1>2 DEF LoadInv
<1> QED BY <1>1, <1>6, <1>7 DEF LoadInv, OpenOK, GetOK

\* A request that has been served is the same otherwise.
LEMMA WithPage ==
  ASSUME NEW kind, NEW c, NEW before, NEW done, NEW page, NEW d, NEW pg, NEW g,
         g = [kind |-> kind, chat |-> c, before |-> before, done |-> done, page |-> page]
  PROVE  [[g EXCEPT !.done = d] EXCEPT !.page = pg]
           = [kind |-> kind, chat |-> c, before |-> before, done |-> d, page |-> pg]
<1>1. [g EXCEPT !.done = d]
        = [kind |-> kind, chat |-> c, before |-> before, done |-> d, page |-> page]
  OBVIOUS
<1>2. PICK m : m = [g EXCEPT !.done = d]
  OBVIOUS
<1>3. m = [kind |-> kind, chat |-> c, before |-> before, done |-> d, page |-> page]
  BY <1>1, <1>2
<1>4. [m EXCEPT !.page = pg]
        = [kind |-> kind, chat |-> c, before |-> before, done |-> d, page |-> pg]
  BY <1>3
<1> QED BY <1>2, <1>4

LEMMA GetThreadKeeps ==
  ASSUME LoadInv, NEW g \in gets, GetThread(g)
  PROVE  LoadInv'
<1> DEFINE n == [g EXCEPT !.done = TRUE, !.page = PageOf(g.chat, g.before)]
<1>1. gets' = (gets \ {g}) \cup {n} /\ UNCHANGED <<open, loading>>
  BY DEF GetThread, screen
<1>2. GetOK(n) /\ n.kind = g.kind /\ n.chat = g.chat
  <2>1. GetOK(g)
    BY DEF LoadInv
  <2>2. PICK kind, c, before, done, page, d, pg :
          /\ g = [kind |-> kind, chat |-> c, before |-> before, done |-> done, page |-> page]
          /\ d = TRUE /\ pg = PageOf(g.chat, g.before)
    BY <2>1 DEF GetOK
  <2>3. n = [kind |-> kind, chat |-> c, before |-> before, done |-> d, page |-> pg]
    <3>1. n = [[g EXCEPT !.done = d] EXCEPT !.page = pg]
      BY <2>2
    <3> HIDE DEF n
    <3> QED BY <2>2, <3>1, WithPage
  <2>4. g.kind = kind /\ g.chat = c
    BY <2>2
  <2> HIDE DEF n
  <2>5. GetOK(n) /\ n.kind = kind /\ n.chat = c
    BY <2>3 DEF GetOK
  <2> QED BY <2>4, <2>5
<1> HIDE DEF n
<1>3. ASSUME NEW k \in Kind
      PROVE  /\ Earlier(k)' = {} <=> Earlier(k) = {}
             /\ \A a, b \in Earlier(k)' : a = b
  <2>1. \A a, b \in Earlier(k) : a = b
    BY DEF LoadInv, LoadsOnce
  <2>2. CASE g \in Earlier(k)
    <3>1. Earlier(k) = {g} /\ Earlier(k)' = {n}
      BY <1>1, <1>2, <2>1, <2>2 DEF Earlier
    <3> QED BY <3>1
  <2>3. CASE g \notin Earlier(k)
    <3>1. Earlier(k)' = Earlier(k)
      BY <1>1, <1>2, <2>3 DEF Earlier
    <3> QED BY <2>1, <3>1
  <2> QED BY <2>2, <2>3
<1>4. LoadsOnce'
  BY <1>1, <1>3 DEF LoadInv, LoadsOnce
<1>5. \A h \in gets' : GetOK(h)
  BY <1>1, <1>2 DEF LoadInv
<1> QED BY <1>1, <1>4, <1>5 DEF LoadInv, OpenOK, GetOK

\* A page of earlier messages that comes or fails was the only one.
LEMMA GoneKeeps ==
  ASSUME LoadInv, NEW g \in gets, gets' = gets \ {g}, open' = open,
         loading' = IF g.kind = "more" THEN [loading EXCEPT ![KindOf(g.chat)] = FALSE] ELSE loading
  PROVE  LoadInv'
<1>1. KindOf(g.chat) \in Kind
  BY DEF KindOf, Kind
<1>2. PICK k : k = KindOf(g.chat)
  OBVIOUS
<1>3. CASE g.kind = "more"
  <2>1. Earlier(k) = {g}
    BY <1>1, <1>2, <1>3 DEF LoadInv, LoadsOnce, Earlier
  <2>2. Earlier(k)' = {} /\ \A j \in Kind \ {k} : Earlier(j)' = Earlier(j)
    BY <1>2, <1>3, <2>1 DEF Earlier
  <2>3. loading' \in [Kind -> BOOLEAN] /\ loading' = [loading EXCEPT ![k] = FALSE]
    BY <1>1, <1>2, <1>3 DEF LoadInv
  <2>4. LoadsOnce'
    <3> SUFFICES ASSUME NEW j \in Kind
                 PROVE  (loading'[j] <=> Earlier(j)' # {}) /\ \A a, b \in Earlier(j)' : a = b
      BY DEF LoadsOnce
    <3>1. CASE j = k
      <4>1. ~loading'[j] /\ Earlier(j)' = {}
        BY <2>2, <2>3, <3>1 DEF LoadInv
      <4> QED BY <4>1
    <3>2. CASE j # k
      <4>1. loading'[j] <=> loading[j]
        BY <2>3, <3>2 DEF LoadInv
      <4>2. Earlier(j)' = Earlier(j)
        BY <2>2, <3>2
      <4> QED BY <4>1, <4>2 DEF LoadInv, LoadsOnce
    <3> QED BY <3>1, <3>2
  <2> QED BY <2>3, <2>4 DEF LoadInv, OpenOK, GetOK
<1>4. CASE g.kind # "more"
  <2>1. \A j \in Kind : Earlier(j)' = Earlier(j)
    BY <1>4 DEF Earlier
  <2> QED BY <1>4, <2>1 DEF LoadInv, OpenOK, GetOK, LoadsOnce
<1> QED BY <1>3, <1>4

LEMMA RestKeeps ==
  ASSUME LoadInv, UNCHANGED <<open, loading, gets>>
  PROVE  LoadInv'
BY DEF LoadInv, OpenOK, GetOK, LoadsOnce, Earlier

LEMMA LoadStep == LoadInv /\ [ThreadNext]_threadVars => LoadInv'
<1> SUFFICES ASSUME LoadInv, [ThreadNext]_threadVars PROVE LoadInv'
  OBVIOUS
<1>1. ASSUME \/ \E p \in Peer : SelectContact(p) \/ SelectFound(p)
             \/ \E r \in Room : SelectRoom(r)
             \/ FollowAddress \/ ContactsLoaded \/ RoomsLoaded
      PROVE  LoadInv'
  BY <1>1, ChatsReopen
<1>2. ASSUME NEW k \in Kind, Poll(k) \/ LoadMore(k) PROVE LoadInv'
  BY <1>2, PollKeeps, LoadMoreKeeps
<1>3. ASSUME NEW g \in gets, GetThread(g) PROVE LoadInv'
  BY <1>3, GetThreadKeeps
<1>4. ASSUME NEW g \in gets, Receive(g) \/ GetFails(g) PROVE LoadInv'
  BY <1>4, GoneKeeps DEF Receive, GetFails
<1>5. ASSUME SocketLost \/ DoSend \/ \E r \in Room : MemberSays(r) PROVE LoadInv'
  BY <1>5, RestKeeps DEF SocketLost, DoSend, MemberSays, Others, screen
<1>6. ASSUME NEW o \in posts,
             EncryptForPeer(o) \/ PostMessage(o) \/ PostAnswered(o) \/ PostFails(o)
      PROVE  LoadInv'
  BY <1>6, RestKeeps DEF EncryptForPeer, PostMessage, PostAnswered, PostFails, screen
<1>7. ASSUME NEW m, \/ SubmitEdit(m) \/ DeleteDirectMessage(m) \/ SubmitEditRoom(m)
                    \/ MemberEdits(m)
      PROVE  LoadInv'
  BY <1>7, RestKeeps DEF SubmitEdit, DeleteDirectMessage, SubmitEditRoom, MemberEdits, Ask, Others,
     screen
<1>8. ASSUME NEW c \in calls, Serve(c) \/ Answered(c) PROVE LoadInv'
  BY <1>8, RestKeeps DEF Serve, Answered, screen
<1>9. ASSUME NEW p \in Peer,
             PeerSends(p) \/ \E m \in Live : PeerReads(p, m) \/ PeerEdits(p, m) \/ PeerDeletes(p, m)
      PROVE  LoadInv'
  BY <1>9, RestKeeps DEF PeerSends, PeerReads, PeerEdits, PeerDeletes, Others, screen
<1>10. ASSUME NEW e \in events, Handle(e) PROVE LoadInv'
  BY <1>10, RestKeeps DEF Handle
<1>11. ASSUME UNCHANGED threadVars PROVE LoadInv'
  BY <1>11, RestKeeps DEF threadVars, screen, net
<1> QED
  BY <1>1, <1>2, <1>3, <1>4, <1>5, <1>6, <1>7, <1>8, <1>9, <1>10, <1>11 DEF ThreadNext

(***************************************************************************)
(* A page of earlier messages is asked for once at a time and the flag     *)
(* that says so is up exactly as long, whichever chats are opened, polled  *)
(* and left meanwhile: for any chats and any number of requests.           *)
(***************************************************************************)
THEOREM LoadsOnceHolds == ThreadSpec => []LoadsOnce
<1>1. ThreadInit => LoadInv
  BY LoadInit
<1>2. LoadInv /\ [ThreadNext]_threadVars => LoadInv'
  BY LoadStep
<1>3. LoadInv => LoadsOnce
  BY DEF LoadInv
<1> QED BY <1>1, <1>2, <1>3, PTL DEF ThreadSpec
=============================================================================
