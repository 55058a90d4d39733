--------------------------- MODULE AccountsProofs ---------------------------
(* What holds of Accounts for every number of requests served at once,     *)
(* every limit and every number of codes, and of Plans for any users,      *)
(* plans on sale, requests served at once and restarts.                    *)
EXTENDS Accounts, Plans, Counts, TLAPS

-----------------------------------------------------------------------------
(* The requests: what each carries from one statement to the next.         *)

Op == {"none", "register", "verify", "resend", "setup", "activate", "backup", "disable"}
Pc == {"idle", "code", "find", "count", "window", "commit", "clear", "replace",
       "secret", "codes", "save"}

Seen == (0..MaxSetups) \cup SUBSET AnyBackup
Given == (0..MaxCodes) \cup AnyBackup

Request == [op : Op, pc : Pc, seen : Seen, code : Given]
ReqOK == req \in [Req -> Request]

-----------------------------------------------------------------------------
(* The attempts: those that were checked and are yet to be made, those     *)
(* made and not counted, those counted in a row that may be an old one.    *)

Checked(k) == {r \in Req : At(r, k, IF k = "verify" THEN "find" ELSE "count")}
Uncounted(k) == {r \in Req : k = "verify" /\ At(r, k, "count")}
Unsure(k) == {r \in Req : At(r, k, "window")}
Served == Cardinality(Req)

AttemptsAt(k) ==
  /\ tries[k] + Cardinality(Checked(k)) <= Max[k] + 2 * Served - 1 + cut
  /\ IF limit[k].count > 0 /\ ~limit[k].open
       THEN tries[k] <= Cardinality(Uncounted(k)) + Cardinality(Unsure(k)) + cut
       ELSE tries[k] <= limit[k].count + Served + Cardinality(Uncounted(k)) + cut

AttemptsOK == \A k \in Key : AttemptsAt(k)

-----------------------------------------------------------------------------
(* The e-mail codes: a code in force, or yet to be made, has logged nobody *)
(* in, and whoever has taken it out of the table is alone to have it.      *)

Redeems(r, c) == At(r, "verify", "clear") /\ req[r].code = c

CodesOK ==
  /\ \A c \in Code :
       /\ entered[c] <= 1
       /\ c \in codes \/ c > issued => entered[c] = 0 /\ \A r \in Req : ~Redeems(r, c)
  /\ \A r \in Req : At(r, "verify", "clear") =>
       /\ req[r].code \in Code /\ entered[req[r].code] = 0
       /\ \A q \in Req \ {r} : ~Redeems(q, req[r].code)

-----------------------------------------------------------------------------
(* The backup codes: those of a setup that has not saved them are nowhere. *)

Unsaved(n) == n > setups \/ \E r \in Req : req[r].op = "setup" /\ req[r].seen = n

SetupsOK ==
  /\ \A r \in Req : req[r].op = "setup" =>
       /\ req[r].seen \in 1..setups /\ req[r].seen \notin shown
       /\ \A q \in Req \ {r} : ~(req[q].op = "setup" /\ req[q].seen = req[r].seen)
  /\ \A r \in Req : req[r].op = "backup" =>
       req[r].seen \subseteq AnyBackup /\ req[r].code \in req[r].seen
  /\ \A r \in Req : req[r].op = "activate" => req[r].seen \in shown

BackupOK ==
  \A b \in AnyBackup :
    /\ Unsaved(b[1]) => /\ spent[b] = 0 /\ b \notin factor.codes
                        /\ \A r \in Req : req[r].op = "backup" => b \notin req[r].seen
    /\ spent[b] + (IF b \in factor.codes THEN 1 ELSE 0) <= 1 + stale

(* One setup at a time: the codes are of the secret in use and of the one  *)
(* that is shown and may be activated, in the table as in the requests.    *)

OfSecrets(C) ==
  /\ factor.secret # 0 => C \subseteq Backup(factor.secret)
  /\ factor.pending \in shown => C \subseteq Backup(factor.pending)
  /\ \A q \in Req : req[q].op = "activate" => C \subseteq Backup(req[q].seen)

SecretsOK ==
  mixed \/
    /\ OfSecrets(factor.codes)
    /\ \A r \in Req : req[r].op = "backup" => OfSecrets(req[r].seen)
    /\ \A r \in Req : req[r].op = "setup" =>
         /\ factor.secret = 0
         /\ req[r].pc = "codes" => factor.pending \in {0, req[r].seen}

AccountsInv ==
  TypeOK /\ ReqOK /\ AttemptsOK /\ CodesOK /\ SetupsOK /\ BackupOK /\ SecretsOK

-----------------------------------------------------------------------------
(* A request begins, goes on to its next statement, or is done.            *)

Others(r) == \A q \in Req \ {r} : req'[q] = req[q]

LEMMA NoneGiven == 0 \in Seen /\ 0 \in Given
  BY AccountsAssumption DEF Seen, Given

LEMMA BeginReq ==
  ASSUME ReqOK, NEW r \in Req, NEW new, Begin(r, new)
  PROVE  /\ req[r].op = "none" /\ req'[r] = new /\ Others(r)
         /\ req' = [req EXCEPT ![r] = new] /\ UNCHANGED cut
  BY DEF ReqOK, Request, Begin, Others

LEMMA GotoReq ==
  ASSUME ReqOK, NEW r \in Req, NEW next, Goto(r, next)
  PROVE  /\ req'[r].op = req[r].op /\ req'[r].pc = next
         /\ req'[r].seen = req[r].seen /\ req'[r].code = req[r].code
         /\ Others(r) /\ UNCHANGED <<ops, cut>>
         /\ next \in Pc => ReqOK'
  BY DEF ReqOK, Request, Goto, Others

LEMMA DoneReq ==
  ASSUME ReqOK, NEW r \in Req, Done(r) \/ Fail(r)
  PROVE  /\ req'[r] = Idle /\ req'[r].op = "none" /\ req'[r].pc = "idle"
         /\ Others(r) /\ UNCHANGED ops /\ ReqOK'
         /\ Done(r) => UNCHANGED cut
<1>2. Idle \in Request
  BY NoneGiven DEF Idle, Op, Pc, Request
<1> QED BY <1>2 DEF ReqOK, Done, Fail, Others, Idle

LEMMA BeginKeeps ==
  ASSUME ReqOK, NEW r \in Req, NEW new \in Request, Begin(r, new)
  PROVE  ReqOK'
  BY DEF ReqOK, Begin

-----------------------------------------------------------------------------
(* The steps sorted: those of the mail and those of the second factor      *)
(* leave each other's part of the account alone.                           *)

MailStep(r) ==
  \/ Register(r) \/ RegisterCode(r) \/ ResendVerification(r)
  \/ \E c \in codes \cup {0} : VerifyEmail(r, c)
  \/ FindVerification(r) \/ Commit(r) \/ ClearRateLimit(r)
  \/ FindUser(r) \/ ReplaceCode(r)
  \/ \E k \in Key : Upsert(r, k) \/ NewWindow(r, k)

SecondStep(r) ==
  \/ CanSetup(r) \/ SavePending(r) \/ SaveBackupCodes(r)
  \/ ActivateTotp(r) \/ SaveSecret(r) \/ DisableTotp(r) \/ SaveDisabled(r)
  \/ \E b \in factor.codes : UseBackupCode(r, b)
  \/ SaveRemaining(r)

TimePasses ==
  (\E k \in Key : WindowEnds(k)) \/ CleanupExpiredRateLimits \/ (\E c \in codes : CodeExpires(c))

PassChanges == Login \/ PassExpires

LEMMA StepsSorted ==
  Next <=> \/ \E r \in Req : MailStep(r) \/ SecondStep(r) \/ Fail(r)
           \/ TimePasses \/ PassChanges
  BY DEF Next, MailStep, SecondStep, TimePasses, PassChanges

LEMMA MailAlone ==
  ASSUME NEW r \in Req, MailStep(r) \/ TimePasses
  PROVE  UNCHANGED second
  BY DEF MailStep, TimePasses, Register, RegisterCode, ResendVerification, VerifyEmail,
         FindVerification, Commit, ClearRateLimit, FindUser, ReplaceCode, Upsert, NewWindow,
         WindowEnds, CleanupExpiredRateLimits, CodeExpires

LEMMA SecondAlone ==
  ASSUME NEW r \in Req, SecondStep(r) \/ PassChanges
  PROVE  UNCHANGED mail
  BY DEF SecondStep, PassChanges, CanSetup, SavePending, SaveBackupCodes, ActivateTotp,
         SaveSecret, DisableTotp, SaveDisabled, UseBackupCode, SaveRemaining, Login, PassExpires

LEMMA TimeAlone ==
  ASSUME TimePasses \/ PassChanges
  PROVE  UNCHANGED <<req, ops, cut>>
  BY DEF TimePasses, PassChanges, WindowEnds, CleanupExpiredRateLimits, CodeExpires, Login,
         PassExpires

-----------------------------------------------------------------------------
(* Types: the e-mail codes and their limits, the second factor, requests.  *)

MailTypeOK ==
  /\ user \in {"none", "registered", "verified"}
  /\ codes \subseteq 1..issued /\ expired \subseteq codes
  /\ limit \in [Key -> [count : Nat, open : BOOLEAN]]
  /\ tries \in [Key -> Nat] /\ entered \in [Code -> Nat]
  /\ issued \in 0..MaxCodes

SecondTypeOK ==
  /\ factor \in [secret : 0..setups, pending : 0..setups, codes : SUBSET AnyBackup]
  /\ pass \in BOOLEAN /\ mixed \in BOOLEAN
  /\ shown \subseteq 1..setups
  /\ spent \in [AnyBackup -> Nat] /\ stale \in Nat
  /\ setups \in 0..MaxSetups

CountsTypeOK == ops \in 0..MaxOps /\ cut \in 0..MaxCuts

LEMMA TypeParts == TypeOK <=> MailTypeOK /\ SecondTypeOK /\ CountsTypeOK
  BY DEF TypeOK, MailTypeOK, SecondTypeOK, CountsTypeOK

LEMMA TypeInit == Init => TypeOK /\ ReqOK
<1>1. Init => TypeOK
  <2> SUFFICES ASSUME Init PROVE TypeOK
    OBVIOUS
  <2>1. NoRow \in [count : Nat, open : BOOLEAN]
    BY DEF NoRow
  <2>2. limit \in [Key -> [count : Nat, open : BOOLEAN]]
    BY <2>1 DEF Init
  <2>3. tries \in [Key -> Nat] /\ entered \in [Code -> Nat] /\ spent \in [AnyBackup -> Nat]
    BY DEF Init
  <2>4. factor \in [secret : 0..setups, pending : 0..setups, codes : SUBSET AnyBackup]
    BY DEF Init
  <2>5. pass \in BOOLEAN /\ mixed \in BOOLEAN
    BY DEF Init
  <2>6. /\ issued \in 0..MaxCodes /\ setups \in 0..MaxSetups
        /\ ops \in 0..MaxOps /\ cut \in 0..MaxCuts
    BY AccountsAssumption DEF Init
  <2> QED BY <2>2, <2>3, <2>4, <2>5, <2>6 DEF Init, TypeOK
<1>2. Idle \in Request
  BY NoneGiven DEF Idle, Op, Pc, Request
<1> QED BY <1>1, <1>2 DEF Init, ReqOK

LEMMA MailType ==
  ASSUME MailTypeOK, ReqOK, CodesOK, NEW r \in Req, MailStep(r) \/ TimePasses
  PROVE  MailTypeOK'
<1> USE AccountsAssumption DEF MailTypeOK
<1>1. CASE Register(r) \/ ResendVerification(r) \/ (\E c \in codes \cup {0} : VerifyEmail(r, c))
  BY <1>1 DEF Register, ResendVerification, VerifyEmail, mail
<1>2. CASE RegisterCode(r) \/ ReplaceCode(r)
  <2>1. issued' = issued + 1 /\ issued < MaxCodes
        /\ codes' \subseteq codes \cup {issued'} /\ expired' \subseteq codes'
    BY <1>2 DEF RegisterCode, ReplaceCode, NewCode
  <2>2. codes' \subseteq 1..issued' /\ issued' \in 0..MaxCodes
    BY <2>1
  <2>3. UNCHANGED <<user, limit, tries, entered>>
    BY <1>2 DEF RegisterCode, ReplaceCode
  <2> QED BY <2>1, <2>2, <2>3
<1>3. CASE FindVerification(r)
  BY <1>3 DEF FindVerification, Key
<1>4. CASE Commit(r)
  BY <1>4 DEF Commit
<1>5. CASE ClearRateLimit(r)
  <2>1. req[r].code \in Code
    BY <1>5 DEF ClearRateLimit, CodesOK
  <2> QED BY <1>5, <2>1 DEF ClearRateLimit, NoRow, Key
<1>6. CASE FindUser(r)
  BY <1>6 DEF FindUser, mail
<1>7. ASSUME NEW k \in Key, Upsert(r, k) PROVE MailTypeOK'
  <2>1. limit[k] \in [count : Nat, open : BOOLEAN] /\ tries[k] \in Nat
    OBVIOUS
  <2>2. [count |-> limit[k].count + 1, open |-> limit[k].open \/ limit[k].count = 0]
          \in [count : Nat, open : BOOLEAN]
    BY <2>1
  <2>3. limit' \in [Key -> [count : Nat, open : BOOLEAN]]
    BY <1>7, <2>2 DEF Upsert
  <2>4. tries' \in [Key -> Nat]
    BY <1>7, <2>1 DEF Upsert
  <2> QED BY <1>7, <2>3, <2>4 DEF Upsert
<1>8. ASSUME NEW k \in Key, NewWindow(r, k) PROVE MailTypeOK'
  BY <1>8 DEF NewWindow
<1>9. CASE TimePasses
  <2>1. ASSUME NEW k \in Key, WindowEnds(k) PROVE MailTypeOK'
    BY <2>1 DEF WindowEnds
  <2>2. CASE CleanupExpiredRateLimits
    <3>1. NoRow \in [count : Nat, open : BOOLEAN]
      BY DEF NoRow
    <3> QED BY <2>2, <3>1 DEF CleanupExpiredRateLimits
  <2>3. ASSUME NEW c \in codes, CodeExpires(c) PROVE MailTypeOK'
    BY <2>3 DEF CodeExpires
  <2> QED BY <1>9, <2>1, <2>2, <2>3 DEF TimePasses
<1> QED BY <1>1, <1>2, <1>3, <1>4, <1>5, <1>6, <1>7, <1>8, <1>9 DEF MailStep

LEMMA SecondType ==
  ASSUME SecondTypeOK, ReqOK, SetupsOK, NEW r \in Req, SecondStep(r) \/ PassChanges
  PROVE  SecondTypeOK'
<1> USE AccountsAssumption DEF SecondTypeOK
<1>1. CASE CanSetup(r)
  BY <1>1 DEF CanSetup
<1>2. CASE SavePending(r)
  <2>1. req[r].seen \in 1..setups
    BY <1>2 DEF SavePending, At, SetupsOK
  <2>2. mixed' \in BOOLEAN
    BY <1>2 DEF SavePending, Mix
  <2> QED BY <1>2, <2>1, <2>2 DEF SavePending
<1>3. CASE SaveBackupCodes(r)
  <2>1. req[r].seen \in 1..setups
    BY <1>3 DEF SaveBackupCodes, At, SetupsOK
  <2>2. Backup(req[r].seen) \subseteq AnyBackup
    BY <2>1 DEF Backup, AnyBackup
  <2> QED BY <1>3, <2>1, <2>2 DEF SaveBackupCodes, Mix
<1>4. CASE ActivateTotp(r) \/ DisableTotp(r) \/ (\E b \in factor.codes : UseBackupCode(r, b))
  BY <1>4 DEF ActivateTotp, DisableTotp, UseBackupCode, second
<1>5. CASE SaveSecret(r)
  <2>1. req[r].seen \in 0..setups /\ 0 \in 0..setups
    BY <1>5 DEF SaveSecret, At, SetupsOK
  <2>2. factor' \in [secret : 0..setups, pending : 0..setups, codes : SUBSET AnyBackup]
    BY <1>5, <2>1 DEF SaveSecret
  <2>3. mixed' \in BOOLEAN
    BY <1>5 DEF SaveSecret, Mix
  <2> QED BY <1>5, <2>2, <2>3 DEF SaveSecret
<1>6. CASE SaveDisabled(r)
  BY <1>6 DEF SaveDisabled
<1>7. CASE SaveRemaining(r)
  <2>1. req[r].seen \subseteq AnyBackup /\ req[r].code \in req[r].seen
    BY <1>7 DEF SaveRemaining, At, SetupsOK
  <2> QED BY <1>7, <2>1 DEF SaveRemaining
<1>8. CASE PassChanges
  BY <1>8 DEF PassChanges, Login, PassExpires
<1> QED BY <1>1, <1>2, <1>3, <1>4, <1>5, <1>6, <1>7, <1>8 DEF SecondStep

LEMMA CountsType ==
  ASSUME CountsTypeOK, Next
  PROVE  CountsTypeOK' /\ cut <= cut'
<1> USE AccountsAssumption DEF CountsTypeOK
<1>1. ASSUME NEW r \in Req, NEW new, Begin(r, new) PROVE CountsTypeOK' /\ cut <= cut'
  BY <1>1 DEF Begin
<1>2. ASSUME UNCHANGED <<ops, cut>> PROVE CountsTypeOK' /\ cut <= cut'
  BY <1>2
<1>3. ASSUME NEW r \in Req, MailStep(r)
      PROVE  UNCHANGED <<ops, cut>> \/ \E new : Begin(r, new)
  BY <1>3 DEF MailStep, Register, RegisterCode, ResendVerification, VerifyEmail,
     FindVerification, Commit, ClearRateLimit, FindUser, ReplaceCode, Upsert, NewWindow,
     Goto, Done
<1>4. ASSUME NEW r \in Req, SecondStep(r)
      PROVE  UNCHANGED <<ops, cut>> \/ \E new : Begin(r, new)
  BY <1>4 DEF SecondStep, CanSetup, SavePending, SaveBackupCodes, ActivateTotp,
     SaveSecret, DisableTotp, SaveDisabled, UseBackupCode, SaveRemaining, Goto, Done
<1>5. ASSUME NEW r \in Req, Fail(r) PROVE CountsTypeOK' /\ cut <= cut'
  BY <1>5 DEF Fail
<1> QED BY <1>1, <1>2, <1>3, <1>4, <1>5, StepsSorted, TimeAlone

LEMMA ReqStep ==
  ASSUME TypeOK, ReqOK, Next
  PROVE  ReqOK'
<1> USE AccountsAssumption
<1>1. ASSUME NEW r \in Req, MailStep(r) PROVE ReqOK'
  <2>1. codes \cup {0} \subseteq Given
    BY DEF TypeOK, Given
  <2>6. CASE Register(r)
    <3>5. [Idle EXCEPT !.op = "register", !.pc = "code"] \in Request
      BY <2>1, NoneGiven DEF Idle, Op, Pc, Request
    <3> QED BY <2>6, <3>5, BeginKeeps DEF Register
  <2>7. CASE ResendVerification(r)
    <3>5. [Idle EXCEPT !.op = "resend", !.pc = "count"] \in Request
      BY <2>1, NoneGiven DEF Idle, Op, Pc, Request
    <3> QED BY <2>7, <3>5, BeginKeeps DEF ResendVerification
  <2>8. ASSUME NEW c \in codes \cup {0}, VerifyEmail(r, c) PROVE ReqOK'
    <3>1. Begin(r, [op |-> "verify", pc |-> "find", seen |-> 0, code |-> c])
      BY <2>8 DEF VerifyEmail
    <3>5. [op |-> "verify", pc |-> "find", seen |-> 0, code |-> c] \in Request
      BY <2>1, NoneGiven DEF Op, Pc, Request
    <3> QED BY <3>1, <3>5, BeginKeeps
  <2>3. CASE RegisterCode(r) \/ ClearRateLimit(r) \/ ReplaceCode(r)
    BY <2>3, DoneReq DEF RegisterCode, ClearRateLimit, ReplaceCode
  <2>4. CASE FindVerification(r) \/ Commit(r) \/ FindUser(r)
    BY <2>4, DoneReq, GotoReq DEF FindVerification, Commit, FindUser, Pc
  <2>5. ASSUME NEW k \in Key, Upsert(r, k) \/ NewWindow(r, k) PROVE ReqOK'
    BY <2>5, DoneReq, GotoReq DEF Upsert, NewWindow, Pc
  <2> QED BY <1>1, <2>6, <2>7, <2>8, <2>3, <2>4, <2>5 DEF MailStep
<1>2. ASSUME NEW r \in Req, SecondStep(r) PROVE ReqOK'
  <2>1. {factor.pending, factor.codes} \subseteq Seen /\ factor.codes \subseteq Given
    BY DEF TypeOK, Seen, Given
  <2>2. CASE CanSetup(r)
    <3>1. setups' \in Seen
      BY <2>2 DEF CanSetup, TypeOK, Seen
    <3>5. [Idle EXCEPT !.op = "setup", !.pc = "secret", !.seen = setups'] \in Request
      BY <2>1, NoneGiven, <3>1 DEF Idle, Op, Pc, Request
    <3> QED BY <2>2, <3>5, BeginKeeps DEF CanSetup
  <2>6. CASE ActivateTotp(r)
    <3>5. [Idle EXCEPT !.op = "activate", !.pc = "save", !.seen = factor.pending] \in Request
      BY <2>1, NoneGiven DEF Idle, Op, Pc, Request
    <3> QED BY <2>6, <3>5, BeginKeeps DEF ActivateTotp
  <2>7. CASE DisableTotp(r)
    <3>5. [Idle EXCEPT !.op = "disable", !.pc = "save"] \in Request
      BY <2>1, NoneGiven DEF Idle, Op, Pc, Request
    <3> QED BY <2>7, <3>5, BeginKeeps DEF DisableTotp
  <2>8. ASSUME NEW b \in factor.codes, UseBackupCode(r, b) PROVE ReqOK'
    <3>1. Begin(r, [op |-> "backup", pc |-> "save", seen |-> factor.codes, code |-> b])
      BY <2>8 DEF UseBackupCode
    <3>5. [op |-> "backup", pc |-> "save", seen |-> factor.codes, code |-> b] \in Request
      BY <2>1, NoneGiven DEF Op, Pc, Request
    <3> QED BY <3>1, <3>5, BeginKeeps
  <2>4. CASE SavePending(r)
    BY <2>4, GotoReq DEF SavePending, Pc
  <2>5. CASE SaveBackupCodes(r) \/ SaveSecret(r) \/ SaveDisabled(r) \/ SaveRemaining(r)
    BY <2>5, DoneReq DEF SaveBackupCodes, SaveSecret, SaveDisabled, SaveRemaining
  <2> QED BY <1>2, <2>2, <2>6, <2>7, <2>8, <2>4, <2>5 DEF SecondStep
<1>3. ASSUME NEW r \in Req, Fail(r) PROVE ReqOK'
  BY <1>3, DoneReq
<1>4. CASE TimePasses \/ PassChanges
  BY <1>4, TimeAlone DEF ReqOK
<1> QED BY <1>1, <1>2, <1>3, <1>4, StepsSorted

-----------------------------------------------------------------------------
(* The attempts.                                                           *)

SizesAt(k) ==
  /\ {Checked(k), Uncounted(k), Unsure(k)} \subseteq SUBSET Req
  /\ IsFiniteSet(Checked(k)) /\ IsFiniteSet(Uncounted(k)) /\ IsFiniteSet(Unsure(k))
  /\ Cardinality(Checked(k)) \in Nat /\ Cardinality(Uncounted(k)) \in Nat
  /\ Cardinality(Unsure(k)) \in Nat /\ Cardinality(Unsure(k)) <= Served
  /\ Cardinality(Checked(k)) + Cardinality(Uncounted(k)) <= Served

LEMMA Sizes ==
  ASSUME NEW k \in Key
  PROVE  SizesAt(k) /\ SizesAt(k)' /\ Served \in Nat /\ Max[k] \in Nat \ {0}
<1>1. IsFiniteSet(Req) /\ Served \in Nat /\ Max[k] \in Nat \ {0}
  BY AccountsAssumption, FS_CardinalityType DEF Served, Max, Key
<1>2. /\ Checked(k) \in SUBSET Req /\ Uncounted(k) \in SUBSET Req /\ Unsure(k) \in SUBSET Req
      /\ Checked(k) \cap Uncounted(k) = {}
  BY DEF Checked, Uncounted, Unsure, At
<1>3. SizesAt(k)
  BY <1>1, <1>2, NoMore, PartsNoMore DEF SizesAt, Served
<1>4. /\ Checked(k)' \in SUBSET Req /\ Uncounted(k)' \in SUBSET Req /\ Unsure(k)' \in SUBSET Req
      /\ Checked(k)' \cap Uncounted(k)' = {}
  BY DEF Checked, Uncounted, Unsure, At
<1>5. SizesAt(k)'
  BY <1>1, <1>4, NoMore, PartsNoMore DEF SizesAt, Served
<1> QED BY <1>1, <1>3, <1>5

\* Served does not change, nor do the limits: constants of the specification.
LEMMA AttemptsInit == Init => AttemptsOK
<1> SUFFICES ASSUME Init, NEW k \in Key PROVE AttemptsAt(k)
  BY DEF AttemptsOK
<1>1. Checked(k) = {} /\ Uncounted(k) = {} /\ Unsure(k) = {}
  BY DEF Init, Checked, Uncounted, Unsure, At, Idle, Key
<1>2. Cardinality({}) = 0
  BY FS_EmptySet
<1>3. tries[k] = 0 /\ limit[k] = NoRow /\ cut = 0
  BY DEF Init
<1> QED BY <1>1, <1>2, <1>3, Sizes DEF AttemptsAt, NoRow

\* No attempt at k is checked, made or counted.
LEMMA AttemptsKept ==
  ASSUME NEW k \in Key, MailTypeOK, CountsTypeOK, CountsTypeOK', AttemptsAt(k),
         tries'[k] = tries[k], limit'[k] = limit[k], cut <= cut',
         Checked(k)' \subseteq Checked(k), Uncounted(k) \subseteq Uncounted(k)',
         Unsure(k) \subseteq Unsure(k)'
  PROVE  AttemptsAt(k)'
<1>1. /\ Cardinality(Checked(k)') <= Cardinality(Checked(k))
      /\ Cardinality(Uncounted(k)) <= Cardinality(Uncounted(k)')
      /\ Cardinality(Unsure(k)) <= Cardinality(Unsure(k)')
  BY Sizes, NoMore DEF SizesAt
<1>2. tries[k] \in Nat /\ limit[k].count \in Nat /\ cut \in Nat /\ cut' \in Nat
  BY AccountsAssumption DEF MailTypeOK, CountsTypeOK
<1> QED BY <1>1, <1>2, Sizes DEF AttemptsAt, SizesAt

\* A request about something else does what it does.
LEMMA Elsewhere ==
  ASSUME ReqOK, ReqOK', NEW r \in Req, Others(r), NEW k \in Key,
         req[r].op # k, req'[r].op # k
  PROVE  Checked(k)' = Checked(k) /\ Uncounted(k)' = Uncounted(k) /\ Unsure(k)' = Unsure(k)
  BY DEF Checked, Uncounted, Unsure, At, Others

\* An attempt is let through.
LEMMA AttemptChecked ==
  ASSUME NEW k \in Key, MailTypeOK, CountsTypeOK, AttemptsAt(k), CheckRateLimit(k),
         UNCHANGED <<tries, limit, cut>>,
         Uncounted(k)' = Uncounted(k), Unsure(k)' = Unsure(k)
  PROVE  AttemptsAt(k)'
<1>1. tries[k] \in Nat /\ limit[k].count \in Nat /\ limit[k].open \in BOOLEAN /\ cut \in Nat
  BY AccountsAssumption DEF MailTypeOK, CountsTypeOK
<1>2. tries[k] <= Max[k] + Served - 1 + Cardinality(Uncounted(k)) + cut
  <2>1. /\ Max[k] \in Nat /\ Max[k] >= 1 /\ Served \in Nat
        /\ Cardinality(Uncounted(k)) \in Nat
        /\ Cardinality(Unsure(k)) \in Nat /\ Cardinality(Unsure(k)) <= Served
    BY Sizes DEF SizesAt
  <2>2. CASE limit[k].count > 0 /\ ~limit[k].open
    BY <1>1, <2>1, <2>2 DEF AttemptsAt
  <2>3. CASE limit[k].open
    BY <1>1, <2>1, <2>3 DEF AttemptsAt, CheckRateLimit
  <2>4. CASE ~limit[k].open /\ ~(limit[k].count > 0)
    <3>1. limit[k].count = 0
      BY <1>1, <2>4
    <3> QED BY <1>1, <2>1, <2>4, <3>1 DEF AttemptsAt
  <2> QED BY <1>1, <2>2, <2>3, <2>4
<1>3. Cardinality(Checked(k)') + Cardinality(Uncounted(k)) <= Served
  BY Sizes DEF SizesAt
<1>4. tries[k] + Cardinality(Checked(k)') <= Max[k] + 2 * Served - 1 + cut
  BY <1>1, <1>2, <1>3, Sizes DEF SizesAt
<1> QED BY <1>4 DEF AttemptsAt

LEMMA CountedRow ==
  ASSUME NEW n \in Nat, NEW o \in BOOLEAN, NEW counted,
         counted = [count |-> n + 1, open |-> o \/ n = 0]
  PROVE  counted.count = n + 1 /\ (counted.open <=> o \/ n = 0)
  OBVIOUS

\* An attempt that was checked is made.
LEMMA AttemptMade ==
  ASSUME NEW k \in Key, MailTypeOK, CountsTypeOK, AttemptsAt(k), UNCHANGED cut,
         NEW r \in Checked(k), Checked(k)' \subseteq Checked(k) \ {r},
         tries'[k] = tries[k] + 1,
         \/ /\ limit'[k] = limit[k] /\ Unsure(k) \subseteq Unsure(k)'
            /\ r \in Uncounted(k)' /\ r \notin Uncounted(k)
            /\ Uncounted(k) \subseteq Uncounted(k)'
         \/ /\ limit'[k] = [count |-> limit[k].count + 1,
                            open |-> limit[k].open \/ limit[k].count = 0]
            /\ r \in Unsure(k)' /\ r \notin Unsure(k)
            /\ Unsure(k) \subseteq Unsure(k)' /\ Uncounted(k)' = Uncounted(k)
  PROVE  AttemptsAt(k)'
<1>1. /\ tries[k] \in Nat /\ limit[k].count \in Nat /\ limit[k].open \in BOOLEAN /\ cut \in Nat
      /\ SizesAt(k) /\ SizesAt(k)' /\ Served \in Nat /\ Max[k] \in Nat
  BY AccountsAssumption, Sizes DEF MailTypeOK, CountsTypeOK
<1>2. Cardinality(Checked(k)') <= Cardinality(Checked(k)) - 1
  BY <1>1, OneLess DEF SizesAt
<1>3. tries'[k] + Cardinality(Checked(k)') <= Max[k] + 2 * Served - 1 + cut'
  BY <1>1, <1>2 DEF AttemptsAt, SizesAt
<1>4. CASE /\ limit'[k] = limit[k] /\ Unsure(k) \subseteq Unsure(k)'
           /\ r \in Uncounted(k)' /\ r \notin Uncounted(k)
           /\ Uncounted(k) \subseteq Uncounted(k)'
  <2>1. Uncounted(k) \subseteq Uncounted(k)' \ {r}
    BY <1>4
  <2>2. /\ Cardinality(Uncounted(k)) <= Cardinality(Uncounted(k)') - 1
        /\ Cardinality(Unsure(k)) <= Cardinality(Unsure(k)')
    BY <1>1, <1>4, <2>1, OneLess, NoMore DEF SizesAt
  <2> QED BY <1>1, <1>3, <1>4, <2>2 DEF AttemptsAt, SizesAt
<1>5. CASE /\ limit'[k] = [count |-> limit[k].count + 1,
                           open |-> limit[k].open \/ limit[k].count = 0]
           /\ r \in Unsure(k)' /\ r \notin Unsure(k)
           /\ Unsure(k) \subseteq Unsure(k)' /\ Uncounted(k)' = Uncounted(k)
  <2>1. Unsure(k) \subseteq Unsure(k)' \ {r}
    BY <1>5
  <2>2. Cardinality(Unsure(k)) <= Cardinality(Unsure(k)') - 1
    BY <1>1, <1>5, <2>1, OneLess DEF SizesAt
  <2>3. limit'[k].count = limit[k].count + 1
    BY <1>5
  <2>4. limit'[k].open <=> limit[k].open \/ limit[k].count = 0
    BY <1>1, <1>5, CountedRow
  <2>5. limit'[k].count > 0 /\ ~limit'[k].open <=> limit[k].count > 0 /\ ~limit[k].open
    BY <1>1, <2>3, <2>4
  <2>6. IF limit'[k].count > 0 /\ ~limit'[k].open
          THEN tries'[k] <= Cardinality(Uncounted(k)') + Cardinality(Unsure(k)') + cut'
          ELSE tries'[k] <= limit'[k].count + Served + Cardinality(Uncounted(k)') + cut'
    BY <1>1, <1>5, <2>2, <2>3, <2>5 DEF AttemptsAt, SizesAt
  <2> QED BY <1>3, <2>6 DEF AttemptsAt
<1> QED BY <1>4, <1>5

\* A wrong code is counted.
LEMMA AttemptCounted ==
  ASSUME NEW k \in Key, MailTypeOK, CountsTypeOK, AttemptsAt(k), UNCHANGED <<tries, cut>>,
         NEW r \in Uncounted(k), r \notin Unsure(k),
         Checked(k)' = Checked(k), Uncounted(k)' = Uncounted(k) \ {r},
         Unsure(k)' = Unsure(k) \cup {r},
         limit'[k] = [count |-> limit[k].count + 1,
                      open |-> limit[k].open \/ limit[k].count = 0]
  PROVE  AttemptsAt(k)'
<1>1. /\ tries[k] \in Nat /\ limit[k].count \in Nat /\ limit[k].open \in BOOLEAN /\ cut \in Nat
      /\ SizesAt(k) /\ SizesAt(k)' /\ Served \in Nat
  BY AccountsAssumption, Sizes DEF MailTypeOK, CountsTypeOK
<1>2. Cardinality(Uncounted(k)') = Cardinality(Uncounted(k)) - 1
  BY <1>1, FS_RemoveElement DEF SizesAt
<1>3. Cardinality(Unsure(k)') = Cardinality(Unsure(k)) + 1
  BY <1>1, FS_AddElement DEF SizesAt
<1>4. /\ limit'[k].count = limit[k].count + 1
      /\ limit'[k].open <=> limit[k].open \/ limit[k].count = 0
  BY <1>1, CountedRow
<1>5. limit'[k].count > 0 /\ ~limit'[k].open <=> limit[k].count > 0 /\ ~limit[k].open
  BY <1>1, <1>4
<1>6. tries'[k] + Cardinality(Checked(k)') <= Max[k] + 2 * Served - 1 + cut'
  BY DEF AttemptsAt
<1>7. IF limit'[k].count > 0 /\ ~limit'[k].open
        THEN tries'[k] <= Cardinality(Uncounted(k)') + Cardinality(Unsure(k)') + cut'
        ELSE tries'[k] <= limit'[k].count + Served + Cardinality(Uncounted(k)') + cut'
  BY <1>1, <1>2, <1>3, <1>4, <1>5 DEF AttemptsAt, SizesAt
<1> QED BY <1>6, <1>7 DEF AttemptsAt

\* The row is made anew, or goes: whoever counted in it stands surety.
LEMMA RowRenewed ==
  ASSUME NEW k \in Key, MailTypeOK, CountsTypeOK, AttemptsAt(k), UNCHANGED <<tries, cut>>,
         Checked(k)' = Checked(k), Uncounted(k)' = Uncounted(k), ~limit[k].open,
         limit'[k] \in {NoRow, [count |-> 1, open |-> TRUE]}
  PROVE  AttemptsAt(k)'
<1>1. /\ tries[k] \in Nat /\ limit[k].count \in Nat /\ cut \in Nat
      /\ SizesAt(k) /\ Served \in Nat
  BY AccountsAssumption, Sizes DEF MailTypeOK, CountsTypeOK
<1>2. limit'[k].count \in Nat /\ ~(limit'[k].count > 0 /\ ~limit'[k].open)
  BY DEF NoRow
<1>3. tries[k] <= Served + Cardinality(Uncounted(k)) + cut
  <2>1. CASE limit[k].count > 0
    BY <1>1, <2>1 DEF AttemptsAt, SizesAt
  <2>2. CASE limit[k].count = 0
    BY <1>1, <2>2 DEF AttemptsAt, SizesAt
  <2> QED BY <1>1, <2>1, <2>2
<1> QED BY <1>1, <1>2, <1>3 DEF AttemptsAt, SizesAt

\* A window begins: nothing has been tried in it.
LEMMA WindowBegins ==
  ASSUME NEW k \in Key, CountsTypeOK, tries'[k] = 0, UNCHANGED cut, limit'[k].count \in Nat
  PROVE  AttemptsAt(k)'
<1>1. cut \in Nat /\ SizesAt(k)' /\ Served \in Nat /\ Max[k] \in Nat /\ Max[k] >= 1
  BY AccountsAssumption, Sizes DEF CountsTypeOK
<1> QED BY <1>1 DEF AttemptsAt, SizesAt

\* A request cut short may leave one attempt uncounted.
LEMMA AttemptFails ==
  ASSUME NEW k \in Key, MailTypeOK, CountsTypeOK, AttemptsAt(k), ReqOK,
         NEW r \in Req, Fail(r)
  PROVE  AttemptsAt(k)'
<1>1. /\ tries[k] \in Nat /\ limit[k].count \in Nat /\ cut \in Nat
      /\ SizesAt(k) /\ SizesAt(k)' /\ Served \in Nat /\ Max[k] \in Nat
  BY AccountsAssumption, Sizes DEF MailTypeOK, CountsTypeOK
<1>2. UNCHANGED <<tries, limit>> /\ cut' = cut + 1
  BY DEF Fail, mail
<1>3. /\ Checked(k)' \subseteq Checked(k)
      /\ Uncounted(k) \subseteq Uncounted(k)' \cup {r}
      /\ Unsure(k) \subseteq Unsure(k)' \cup {r}
      /\ Uncounted(k) \subseteq Uncounted(k)' \/ Unsure(k) \subseteq Unsure(k)'
  BY DoneReq DEF Checked, Uncounted, Unsure, At, Others, Key
<1>4. /\ Cardinality(Checked(k)') <= Cardinality(Checked(k))
      /\ Cardinality(Uncounted(k)) <= Cardinality(Uncounted(k)') + 1
      /\ Cardinality(Unsure(k)) <= Cardinality(Unsure(k)') + 1
      /\ \/ Cardinality(Uncounted(k)) <= Cardinality(Uncounted(k)')
         \/ Cardinality(Unsure(k)) <= Cardinality(Unsure(k)')
  BY <1>1, <1>3, NoMore, OneMore DEF SizesAt
<1> QED BY <1>1, <1>2, <1>4 DEF AttemptsAt, SizesAt

\* Neither a request that begins with something else, nor one that is about
\* something else, nor one that goes on without a count.
LEMMA AttemptsElsewhere ==
  ASSUME NEW k \in Key, MailTypeOK, CountsTypeOK, CountsTypeOK', AttemptsAt(k),
         ReqOK, ReqOK', NEW r \in Req, Others(r), req[r].op # k, req'[r].op # k,
         tries'[k] = tries[k], limit'[k] = limit[k], cut <= cut'
  PROVE  AttemptsAt(k)'
  BY AttemptsKept, Elsewhere

LEMMA AttemptsMail ==
  ASSUME MailTypeOK, CountsTypeOK, CountsTypeOK', ReqOK, ReqOK', AttemptsOK,
         NEW r \in Req, MailStep(r), cut <= cut', NEW k \in Key
  PROVE  AttemptsAt(k)'
<1> USE DEF Key
<1>0. AttemptsAt(k)
  BY DEF AttemptsOK
<1>1. CASE Register(r)
  <2>1. Others(r) /\ req[r].op = "none" /\ req'[r].op = "register"
    BY <1>1 DEF Register, Begin, Others, Idle, ReqOK, Request
  <2>2. UNCHANGED <<tries, limit>>
    BY <1>1 DEF Register
  <2> QED BY <1>0, <2>1, <2>2, AttemptsElsewhere
<1>2. CASE RegisterCode(r)
  <2>1. Others(r) /\ req[r].op = "register" /\ req'[r].op = "none"
    BY <1>2, DoneReq DEF RegisterCode, At
  <2>2. UNCHANGED <<tries, limit>>
    BY <1>2 DEF RegisterCode
  <2> QED BY <1>0, <2>1, <2>2, AttemptsElsewhere
<1>3. ASSUME NEW c \in codes \cup {0}, VerifyEmail(r, c) PROVE AttemptsAt(k)'
  <2>1. /\ Others(r) /\ req[r].op = "none" /\ req'[r].op = "verify" /\ req'[r].pc = "find"
        /\ UNCHANGED <<tries, limit, cut>> /\ CheckRateLimit("verify")
    BY <1>3, BeginReq DEF VerifyEmail, mail
  <2>2. CASE k = "verify"
    <3>1. Uncounted(k)' = Uncounted(k) /\ Unsure(k)' = Unsure(k)
      BY <2>1, <2>2 DEF Uncounted, Unsure, At, Others, ReqOK
    <3> QED BY <1>0, <2>1, <2>2, <3>1, AttemptChecked
  <2>3. CASE k # "verify"
    BY <1>0, <2>1, <2>3, AttemptsElsewhere
  <2> QED BY <2>2, <2>3
<1>4. CASE ResendVerification(r)
  <2>1. /\ Others(r) /\ req[r].op = "none" /\ req'[r].op = "resend" /\ req'[r].pc = "count"
        /\ UNCHANGED <<tries, limit, cut>> /\ CheckRateLimit("resend")
    BY <1>4 DEF ResendVerification, Begin, Others, Idle, ReqOK, Request, mail
  <2>2. CASE k = "resend"
    <3>1. Uncounted(k)' = Uncounted(k) /\ Unsure(k)' = Unsure(k)
      BY <2>1, <2>2 DEF Uncounted, Unsure, At, Others, ReqOK
    <3> QED BY <1>0, <2>1, <2>2, <3>1, AttemptChecked
  <2>3. CASE k # "resend"
    BY <1>0, <2>1, <2>3, AttemptsElsewhere
  <2> QED BY <2>2, <2>3
<1>5. CASE FindVerification(r)
  <2>1. /\ req[r].op = "verify" /\ req[r].pc = "find" /\ UNCHANGED limit
        /\ \/ Goto(r, "commit") /\ UNCHANGED tries
           \/ Goto(r, "count") /\ tries' = [tries EXCEPT !["verify"] = @ + 1]
    BY <1>5 DEF FindVerification, At
  <2>2. Others(r) /\ req'[r].op = "verify" /\ UNCHANGED cut
    BY <2>1, GotoReq
  <2>3. CASE k # "verify"
    <3>1. tries'[k] = tries[k]
      BY <2>1, <2>3 DEF MailTypeOK
    <3> QED BY <1>0, <2>1, <2>2, <2>3, <3>1, AttemptsElsewhere
  <2>4. CASE k = "verify" /\ Goto(r, "commit") /\ UNCHANGED tries
    <3>1. /\ Checked(k)' \subseteq Checked(k) /\ Uncounted(k) \subseteq Uncounted(k)'
          /\ Unsure(k) \subseteq Unsure(k)'
      BY <2>1, <2>2, <2>4, GotoReq DEF Checked, Uncounted, Unsure, At, Others
    <3> QED BY <1>0, <2>1, <2>4, <3>1, AttemptsKept
  <2>5. CASE k = "verify" /\ Goto(r, "count") /\ tries' = [tries EXCEPT !["verify"] = @ + 1]
    <3>1. /\ r \in Checked(k) /\ Checked(k)' \subseteq Checked(k) \ {r}
          /\ r \in Uncounted(k)' /\ r \notin Uncounted(k) /\ Uncounted(k) \subseteq Uncounted(k)'
          /\ Unsure(k) \subseteq Unsure(k)'
      BY <2>1, <2>2, <2>5, GotoReq DEF Checked, Uncounted, Unsure, At, Others
    <3>2. tries'[k] = tries[k] + 1
      BY <2>5 DEF MailTypeOK
    <3> QED BY <1>0, <2>1, <2>2, <3>1, <3>2, AttemptMade
  <2> QED BY <2>1, <2>3, <2>4, <2>5
<1>6. CASE Commit(r)
  <2>1. /\ req[r].op = "verify" /\ req[r].pc = "commit" /\ UNCHANGED <<tries, limit>>
        /\ Goto(r, "clear") \/ Done(r)
    BY <1>6 DEF Commit, At
  <2>2. Others(r) /\ ~At(r, k, "find")' /\ ~At(r, k, "count")' /\ ~At(r, k, "window")'
    BY <2>1, GotoReq, DoneReq DEF At
  <2>3. /\ Checked(k)' \subseteq Checked(k) /\ Uncounted(k) \subseteq Uncounted(k)'
        /\ Unsure(k) \subseteq Unsure(k)'
    BY <2>1, <2>2 DEF Checked, Uncounted, Unsure, At, Others
  <2> QED BY <1>0, <2>1, <2>3, AttemptsKept
<1>7. CASE ClearRateLimit(r)
  <2>1. /\ req[r].op = "verify" /\ Done(r) /\ limit' = [limit EXCEPT !["verify"] = NoRow]
        /\ tries' = [tries EXCEPT !["verify"] = 0]
    BY <1>7 DEF ClearRateLimit, At
  <2>2. Others(r) /\ req'[r].op = "none" /\ UNCHANGED cut
    BY <2>1, DoneReq
  <2>3. CASE k = "verify"
    <3>1. tries'[k] = 0 /\ limit'[k].count \in Nat
      BY <2>1, <2>3 DEF MailTypeOK, NoRow
    <3> QED BY <2>2, <3>1, WindowBegins
  <2>4. CASE k # "verify"
    <3>1. tries'[k] = tries[k] /\ limit'[k] = limit[k]
      BY <2>1, <2>4 DEF MailTypeOK
    <3> QED BY <1>0, <2>1, <2>2, <2>4, <3>1, AttemptsElsewhere
  <2> QED BY <2>3, <2>4
<1>8. CASE FindUser(r) \/ ReplaceCode(r)
  <2>1. /\ req[r].op = "resend" /\ req[r].pc \in {"find", "replace"} /\ UNCHANGED <<tries, limit>>
        /\ Goto(r, "replace") \/ Done(r)
    BY <1>8 DEF FindUser, ReplaceCode, At, mail
  <2>2. Others(r) /\ ((req'[r].op = "resend" /\ req'[r].pc = "replace") \/ req'[r].op = "none")
    BY <2>1, GotoReq, DoneReq
  <2>3. /\ Checked(k)' \subseteq Checked(k) /\ Uncounted(k) \subseteq Uncounted(k)'
        /\ Unsure(k) \subseteq Unsure(k)'
    BY <2>1, <2>2 DEF Checked, Uncounted, Unsure, At, Others
  <2> QED BY <1>0, <2>1, <2>3, AttemptsKept
<1>9. ASSUME NEW l \in Key, Upsert(r, l) PROVE AttemptsAt(k)'
  <2>1. /\ req[r].op = l /\ req[r].pc = "count" /\ Goto(r, "window")
        /\ limit' = [limit EXCEPT ![l] = [count |-> limit[l].count + 1,
                                          open |-> limit[l].open \/ limit[l].count = 0]]
        /\ tries' = IF l = "resend" THEN [tries EXCEPT ![l] = @ + 1] ELSE tries
    BY <1>9 DEF Upsert, At, MailTypeOK
  <2>2. Others(r) /\ req'[r].op = l /\ req'[r].pc = "window" /\ UNCHANGED cut
    BY <2>1, GotoReq
  <2>3. CASE k # l
    <3>1. tries'[k] = tries[k] /\ limit'[k] = limit[k]
      BY <2>1, <2>3 DEF MailTypeOK
    <3> QED BY <1>0, <2>1, <2>2, <2>3, <3>1, AttemptsElsewhere
  <2>4. ASSUME k = l
        PROVE  limit'[k] = [count |-> limit[k].count + 1,
                            open |-> limit[k].open \/ limit[k].count = 0]
    BY <2>1, <2>4 DEF MailTypeOK
  <2>5. CASE k = l /\ k = "verify"
    <3>1. /\ r \in Uncounted(k) /\ r \notin Unsure(k) /\ Checked(k)' = Checked(k)
          /\ Uncounted(k)' = Uncounted(k) \ {r} /\ Unsure(k)' = Unsure(k) \cup {r}
      BY <2>1, <2>2, <2>5 DEF Checked, Uncounted, Unsure, At, Others
    <3> QED BY <1>0, <2>1, <2>2, <2>4, <2>5, <3>1, AttemptCounted
  <2>6. CASE k = l /\ k = "resend"
    <3>1. /\ r \in Checked(k) /\ r \notin Unsure(k) /\ Checked(k)' \subseteq Checked(k) \ {r}
          /\ Uncounted(k)' = Uncounted(k) /\ r \in Unsure(k)' /\ Unsure(k) \subseteq Unsure(k)'
      BY <2>1, <2>2, <2>6 DEF Checked, Uncounted, Unsure, At, Others
    <3>2. tries'[k] = tries[k] + 1
      BY <2>1, <2>6 DEF MailTypeOK
    <3> QED BY <1>0, <2>2, <2>4, <2>6, <3>1, <3>2, AttemptMade
  <2> QED BY <2>3, <2>5, <2>6
<1>10. ASSUME NEW l \in Key, NewWindow(r, l) PROVE AttemptsAt(k)'
  <2>1. /\ req[r].op = l /\ req[r].pc = "window"
        /\ IF l = "resend" THEN Goto(r, "find") ELSE Done(r)
        /\ UNCHANGED tries
        /\ limit' = IF limit[l].open THEN limit
                    ELSE IF limit[l].count = 0 THEN limit
                    ELSE [limit EXCEPT ![l] = [count |-> 1, open |-> TRUE]]
    BY <1>10 DEF NewWindow, At
  <2>2. /\ Others(r) /\ UNCHANGED cut
        /\ (req'[r].op = l /\ req'[r].pc = "find" /\ l = "resend") \/ req'[r].op = "none"
    BY <2>1, GotoReq, DoneReq
  <2>3. CASE k # l
    <3>1. limit'[k] = limit[k]
      BY <2>1, <2>3 DEF MailTypeOK
    <3> QED BY <1>0, <2>1, <2>2, <2>3, <3>1, AttemptsElsewhere
  <2>4. ASSUME k = l PROVE Checked(k)' = Checked(k) /\ Uncounted(k)' = Uncounted(k)
    BY <2>1, <2>2, <2>4 DEF Checked, Uncounted, At, Others
  <2>5. CASE k = l /\ (limit[k].open \/ limit[k].count = 0)
    <3>1. UNCHANGED limit /\ limit[k].count \in Nat
      BY <2>1, <2>5 DEF MailTypeOK
    <3>2. ~(limit[k].count > 0 /\ ~limit[k].open)
      BY <2>5, <3>1
    <3>3. ~(limit'[k].count > 0 /\ ~limit'[k].open)
      BY <3>1, <3>2
    <3> QED BY <1>0, <2>1, <2>2, <2>4, <2>5, <3>1, <3>2, <3>3 DEF AttemptsAt
  <2>6. CASE k = l /\ ~(limit[k].open \/ limit[k].count = 0)
    <3>1. limit'[k] = [count |-> 1, open |-> TRUE]
      BY <2>1, <2>6 DEF MailTypeOK
    <3> QED BY <1>0, <2>1, <2>2, <2>4, <2>6, <3>1, RowRenewed
  <2> QED BY <2>3, <2>5, <2>6
<1> QED BY <1>1, <1>2, <1>3, <1>4, <1>5, <1>6, <1>7, <1>8, <1>9, <1>10 DEF MailStep

LEMMA AttemptsStep ==
  ASSUME TypeOK, CountsTypeOK', ReqOK, ReqOK', AttemptsOK, Next
  PROVE  AttemptsOK'
<1> SUFFICES ASSUME NEW k \in Key PROVE AttemptsAt(k)'
  BY DEF AttemptsOK
<1>0. AttemptsAt(k) /\ MailTypeOK /\ CountsTypeOK /\ cut <= cut'
  BY TypeParts, CountsType DEF AttemptsOK
<1>1. ASSUME NEW r \in Req, MailStep(r) PROVE AttemptsAt(k)'
  BY <1>0, <1>1, AttemptsMail
<1>2. ASSUME NEW r \in Req, SecondStep(r) PROVE AttemptsAt(k)'
  <2>1. UNCHANGED mail
    BY <1>2, SecondAlone
  <2>2. req[r].op \notin Key /\ req'[r].op \notin Key /\ Others(r)
    <3>1. CASE CanSetup(r)
      BY <3>1 DEF CanSetup, Begin, Others, Idle, ReqOK, Request, Key
    <3>6. CASE ActivateTotp(r)
      BY <3>6 DEF ActivateTotp, Begin, Others, Idle, ReqOK, Request, Key
    <3>7. CASE DisableTotp(r)
      BY <3>7 DEF DisableTotp, Begin, Others, Idle, ReqOK, Request, Key
    <3>8. ASSUME NEW b \in factor.codes, UseBackupCode(r, b)
          PROVE  req[r].op \notin Key /\ req'[r].op \notin Key /\ Others(r)
      BY <3>8 DEF UseBackupCode, Begin, Others, ReqOK, Request, Key
    <3>2. CASE SavePending(r) \/ SaveBackupCodes(r) \/ SaveSecret(r) \/ SaveDisabled(r)
               \/ SaveRemaining(r)
      BY <3>2, GotoReq, DoneReq DEF SavePending, SaveBackupCodes, SaveSecret, SaveDisabled,
         SaveRemaining, At, Key
    <3> QED BY <1>2, <3>1, <3>6, <3>7, <3>8, <3>2 DEF SecondStep
  <2> QED BY <1>0, <2>1, <2>2, AttemptsElsewhere DEF mail
<1>3. ASSUME NEW r \in Req, Fail(r) PROVE AttemptsAt(k)'
  BY <1>0, <1>3, AttemptFails
<1>4. ASSUME UNCHANGED <<req, cut>>
      PROVE  Checked(k)' = Checked(k) /\ Uncounted(k)' = Uncounted(k) /\ Unsure(k)' = Unsure(k)
  BY <1>4 DEF Checked, Uncounted, Unsure, At
<1>5. ASSUME UNCHANGED <<req, cut>>, tries'[k] = tries[k], limit'[k] = limit[k]
      PROVE  AttemptsAt(k)'
  BY <1>0, <1>4, <1>5, AttemptsKept
<1>6. CASE TimePasses
  <2>1. UNCHANGED <<req, cut>>
    BY <1>6, TimeAlone
  <2>2. ASSUME NEW l \in Key, WindowEnds(l) PROVE AttemptsAt(k)'
    <3>1. CASE k = l
      <4>1. tries'[k] = 0 /\ limit'[k].count \in Nat
        BY <1>0, <2>2, <3>1 DEF WindowEnds, MailTypeOK
      <4> QED BY <1>0, <2>1, <4>1, WindowBegins
    <3>2. CASE k # l
      <4>1. tries'[k] = tries[k] /\ limit'[k] = limit[k]
        BY <1>0, <2>2, <3>2 DEF WindowEnds, MailTypeOK
      <4> QED BY <1>5, <2>1, <4>1
    <3> QED BY <3>1, <3>2
  <2>3. CASE CleanupExpiredRateLimits
    <3>1. /\ limit'[k] = IF limit[k].open THEN limit[k] ELSE NoRow
          /\ UNCHANGED tries
      BY <2>3 DEF CleanupExpiredRateLimits
    <3>2. CASE limit[k].open
      BY <1>5, <2>1, <3>1, <3>2
    <3>3. CASE ~limit[k].open
      BY <1>0, <1>4, <2>1, <3>1, <3>3, RowRenewed
    <3> QED BY <3>2, <3>3
  <2>4. ASSUME NEW c \in codes, CodeExpires(c) PROVE AttemptsAt(k)'
    BY <1>5, <2>1, <2>4 DEF CodeExpires
  <2> QED BY <1>6, <2>2, <2>3, <2>4 DEF TimePasses
<1>7. CASE PassChanges
  BY <1>5, <1>7, TimeAlone, SecondAlone DEF mail, PassChanges, Login, PassExpires
<1> QED BY <1>1, <1>2, <1>3, <1>6, <1>7, StepsSorted

LEMMA AttemptsBound ==
  ASSUME TypeOK, AttemptsOK
  PROVE  BoundedAttempts
<1> SUFFICES ASSUME NEW k \in Key PROVE tries[k] <= Max[k] + 2 * Cardinality(Req) - 1 + cut
  BY DEF BoundedAttempts
<1>1. tries[k] \in Nat /\ cut \in Nat
  BY AccountsAssumption DEF TypeOK
<1> QED BY <1>1, Sizes DEF AttemptsOK, AttemptsAt, SizesAt, Served

-----------------------------------------------------------------------------
(* The e-mail codes.                                                       *)

LEMMA CodesInit == Init => CodesOK
  BY DEF Init, CodesOK, Redeems, At, Idle

\* No code is taken out of the table, and nobody has logged in.
LEMMA CodesKept ==
  ASSUME CodesOK, UNCHANGED entered,
         \A c \in Code : c \in codes' \/ c > issued' => c \in codes \/ c > issued,
         \A q \in Req : At(q, "verify", "clear")' =>
                          At(q, "verify", "clear") /\ req'[q].code = req[q].code
  PROVE  CodesOK'
<1>1. ASSUME NEW q \in Req, NEW c, Redeems(q, c)' PROVE Redeems(q, c)
  BY <1>1 DEF Redeems
<1> QED BY <1>1 DEF CodesOK

\* Nor does a request begin to log somebody in.
LEMMA CodesElsewhere ==
  ASSUME CodesOK, UNCHANGED entered,
         \A c \in Code : c \in codes' \/ c > issued' => c \in codes \/ c > issued,
         NEW r \in Req, Others(r), ~At(r, "verify", "clear")'
  PROVE  CodesOK'
<1>1. \A q \in Req : At(q, "verify", "clear")' =>
                       At(q, "verify", "clear") /\ req'[q].code = req[q].code
  BY DEF Others, At
<1> QED BY <1>1, CodesKept

\* The transaction takes a code out of the table.
LEMMA CodesCommitted ==
  ASSUME MailTypeOK, ReqOK, CodesOK, NEW r \in Req, Commit(r), req[r].code \in codes
  PROVE  CodesOK'
<1> DEFINE c0 == req[r].code
<1>1. /\ codes' = codes \ {c0} /\ UNCHANGED <<issued, entered>> /\ Goto(r, "clear")
      /\ req[r].op = "verify" /\ req[r].pc = "commit"
  BY DEF Commit, At
<1>2. Others(r) /\ req'[r].op = "verify" /\ req'[r].pc = "clear" /\ req'[r].code = c0
  BY <1>1, GotoReq
<1>3. c0 \in Code /\ ~(c0 > issued)
  <2>1. c0 \in 1..issued /\ issued \in 0..MaxCodes /\ MaxCodes \in Nat
    BY AccountsAssumption DEF MailTypeOK
  <2> QED BY <2>1 DEF Code
<1>4. entered[c0] = 0 /\ \A q \in Req : ~Redeems(q, c0)
  BY <1>3 DEF CodesOK
<1>5. \A q \in Req \ {r} : \A c : Redeems(q, c)' <=> Redeems(q, c)
  BY <1>2 DEF Redeems, At, Others
<1>6. \A c : Redeems(r, c)' <=> c = c0
  BY <1>2 DEF Redeems, At
<1>7. ASSUME NEW c \in Code
      PROVE  /\ entered'[c] <= 1
             /\ c \in codes' \/ c > issued' =>
                  entered'[c] = 0 /\ \A q \in Req : ~Redeems(q, c)'
  BY <1>1, <1>3, <1>5, <1>6 DEF CodesOK
<1>8. ASSUME NEW q \in Req, At(q, "verify", "clear")'
      PROVE  /\ req'[q].code \in Code /\ entered'[req'[q].code] = 0
             /\ \A p \in Req \ {q} : ~(At(p, "verify", "clear")' /\ req'[p].code = req'[q].code)
  <2>1. CASE q = r
    BY <1>1, <1>2, <1>3, <1>4, <2>1 DEF Redeems, At, Others
  <2>2. CASE q # r
    <3>1. req'[q] = req[q] /\ At(q, "verify", "clear")
      BY <1>2, <1>8, <2>2 DEF Others, At
    <3>2. Redeems(q, req[q].code)
      BY <3>1 DEF Redeems
    <3>3. req[q].code # c0
      BY <1>4, <3>2
    <3> QED BY <1>1, <1>2, <3>1, <3>3 DEF CodesOK, Redeems, At, Others
  <2> QED BY <2>1, <2>2
<1> QED BY <1>7, <1>8 DEF CodesOK, Redeems

\* Whoever took it out logs somebody in with it.
LEMMA CodesEntered ==
  ASSUME MailTypeOK, ReqOK, CodesOK, NEW r \in Req, ClearRateLimit(r)
  PROVE  CodesOK'
<1> DEFINE c0 == req[r].code
<1>1. /\ UNCHANGED <<codes, issued>> /\ Done(r) /\ At(r, "verify", "clear")
      /\ entered' = [entered EXCEPT ![c0] = @ + 1]
  BY DEF ClearRateLimit
<1>2. Others(r) /\ ~At(r, "verify", "clear")'
  BY <1>1, DoneReq DEF At
<1>3. c0 \in Code /\ entered[c0] = 0 /\ \A q \in Req \ {r} : ~Redeems(q, c0)
  BY <1>1 DEF CodesOK
<1>4. c0 \notin codes /\ ~(c0 > issued)
  BY <1>1, <1>3 DEF CodesOK, Redeems
<1>5. \A c \in Code : entered'[c] = IF c = c0 THEN 1 ELSE entered[c]
  BY <1>1, <1>3 DEF MailTypeOK
<1>6. \A q \in Req : \A c : Redeems(q, c)' <=> q # r /\ Redeems(q, c)
  BY <1>2 DEF Redeems, At, Others
<1>7. ASSUME NEW c \in Code
      PROVE  /\ entered'[c] <= 1
             /\ c \in codes' \/ c > issued' =>
                  entered'[c] = 0 /\ \A q \in Req : ~Redeems(q, c)'
  BY <1>1, <1>4, <1>5, <1>6 DEF CodesOK
<1>8. ASSUME NEW q \in Req, At(q, "verify", "clear")'
      PROVE  /\ req'[q].code \in Code /\ entered'[req'[q].code] = 0
             /\ \A p \in Req \ {q} : ~(At(p, "verify", "clear")' /\ req'[p].code = req'[q].code)
  <2>1. q # r /\ req'[q] = req[q] /\ At(q, "verify", "clear")
    BY <1>2, <1>8 DEF Others, At
  <2>2. Redeems(q, req[q].code)
    BY <2>1 DEF Redeems
  <2>3. req[q].code # c0
    BY <1>3, <2>1, <2>2
  <2>4. req[q].code \in Code /\ entered'[req[q].code] = 0
    BY <1>5, <2>1, <2>3 DEF CodesOK
  <2> QED BY <1>2, <2>1, <2>4 DEF CodesOK, Redeems, At, Others
<1> QED BY <1>7, <1>8 DEF CodesOK, Redeems

LEMMA CodesMail ==
  ASSUME MailTypeOK, ReqOK, CodesOK, NEW r \in Req, MailStep(r)
  PROVE  CodesOK'
<1> USE DEF MailTypeOK
<1>1. CASE Register(r)
  <2>1. Others(r) /\ ~At(r, "verify", "clear")'
    BY <1>1 DEF Register, Begin, Others, Idle, ReqOK, Request, At
  <2> QED BY <1>1, <2>1, CodesElsewhere DEF Register
<1>2. CASE RegisterCode(r) \/ ReplaceCode(r)
  <2>1. Others(r) /\ ~At(r, "verify", "clear")'
    BY <1>2, DoneReq DEF RegisterCode, ReplaceCode, At
  <2>2. \A c \in Code : c \in codes' \/ c > issued' => c \in codes \/ c > issued
    BY <1>2 DEF RegisterCode, ReplaceCode, NewCode, Code
  <2> QED BY <1>2, <2>1, <2>2, CodesElsewhere DEF RegisterCode, ReplaceCode
<1>3. ASSUME NEW c \in codes \cup {0}, VerifyEmail(r, c) PROVE CodesOK'
  <2>1. Others(r) /\ ~At(r, "verify", "clear")'
    BY <1>3 DEF VerifyEmail, Begin, Others, ReqOK, Request, At
  <2> QED BY <1>3, <2>1, CodesElsewhere DEF VerifyEmail, mail
<1>4. CASE ResendVerification(r)
  <2>1. Others(r) /\ ~At(r, "verify", "clear")'
    BY <1>4 DEF ResendVerification, Begin, Others, Idle, ReqOK, Request, At
  <2> QED BY <1>4, <2>1, CodesElsewhere DEF ResendVerification, mail
<1>5. CASE FindVerification(r)
  <2>1. Others(r) /\ ~At(r, "verify", "clear")'
    BY <1>5, GotoReq DEF FindVerification, At
  <2> QED BY <1>5, <2>1, CodesElsewhere DEF FindVerification
<1>6. CASE Commit(r)
  <2>1. CASE req[r].code \in codes
    BY <1>6, <2>1, CodesCommitted
  <2>2. CASE req[r].code \notin codes
    <3>1. Others(r) /\ ~At(r, "verify", "clear")'
      BY <1>6, <2>2, DoneReq DEF Commit, At
    <3> QED BY <1>6, <2>2, <3>1, CodesElsewhere DEF Commit
  <2> QED BY <2>1, <2>2
<1>7. CASE ClearRateLimit(r)
  BY <1>7, CodesEntered
<1>8. CASE FindUser(r)
  <2>1. Others(r) /\ ~At(r, "verify", "clear")'
    BY <1>8, GotoReq, DoneReq DEF FindUser, At
  <2> QED BY <1>8, <2>1, CodesElsewhere DEF FindUser, mail
<1>9. ASSUME NEW k \in Key, Upsert(r, k) \/ NewWindow(r, k) PROVE CodesOK'
  <2>1. Others(r) /\ ~At(r, "verify", "clear")'
    BY <1>9, GotoReq, DoneReq DEF Upsert, NewWindow, At
  <2> QED BY <1>9, <2>1, CodesElsewhere DEF Upsert, NewWindow
<1> QED BY <1>1, <1>2, <1>3, <1>4, <1>5, <1>6, <1>7, <1>8, <1>9 DEF MailStep

LEMMA CodesStep ==
  ASSUME TypeOK, ReqOK, CodesOK, Next
  PROVE  CodesOK'
<1>1. ASSUME NEW r \in Req, MailStep(r) PROVE CodesOK'
  BY <1>1, CodesMail, TypeParts
<1>2. ASSUME NEW r \in Req, SecondStep(r) PROVE CodesOK'
  <2>1. UNCHANGED mail
    BY <1>2, SecondAlone
  <2>2. Others(r) /\ ~At(r, "verify", "clear")'
    <3> USE DEF Begin, Others, Idle, ReqOK, Request, At
    <3>1. CASE CanSetup(r)
      BY <3>1 DEF CanSetup
    <3>2. CASE ActivateTotp(r)
      BY <3>2 DEF ActivateTotp
    <3>3. CASE DisableTotp(r)
      BY <3>3 DEF DisableTotp
    <3>4. ASSUME NEW b \in factor.codes, UseBackupCode(r, b)
          PROVE  Others(r) /\ ~At(r, "verify", "clear")'
      BY <3>4 DEF UseBackupCode
    <3>5. CASE SavePending(r)
      BY <3>5, GotoReq DEF SavePending
    <3>6. CASE SaveBackupCodes(r) \/ SaveSecret(r) \/ SaveDisabled(r) \/ SaveRemaining(r)
      BY <3>6, DoneReq DEF SaveBackupCodes, SaveSecret, SaveDisabled, SaveRemaining
    <3> QED BY <1>2, <3>1, <3>2, <3>3, <3>4, <3>5, <3>6 DEF SecondStep
  <2> QED BY <2>1, <2>2, CodesElsewhere DEF mail
<1>3. ASSUME NEW r \in Req, Fail(r) PROVE CodesOK'
  <2>1. Others(r) /\ ~At(r, "verify", "clear")'
    BY <1>3, DoneReq DEF At
  <2> QED BY <1>3, <2>1, CodesElsewhere DEF Fail, mail
<1>4. CASE TimePasses \/ PassChanges
  <2>1. UNCHANGED <<req, codes, issued, entered>>
    BY <1>4 DEF TimePasses, PassChanges, WindowEnds, CleanupExpiredRateLimits, CodeExpires,
       Login, PassExpires, mail
  <2> QED BY <2>1, CodesKept DEF At
<1> QED BY <1>1, <1>2, <1>3, <1>4, StepsSorted

-----------------------------------------------------------------------------
(* The second factor.                                                      *)

FactorOK == SetupsOK /\ BackupOK /\ SecretsOK

LEMMA FactorInit == Init => FactorOK
<1> SUFFICES ASSUME Init PROVE FactorOK
  OBVIOUS
<1>1. \A r \in Req : req[r].op = "none"
  BY DEF Init, Idle
<1>2. SetupsOK
  BY <1>1 DEF SetupsOK
<1>3. BackupOK
  BY <1>1 DEF BackupOK, Init
<1>4. SecretsOK
  BY <1>1 DEF SecretsOK, OfSecrets, Init
<1> QED BY <1>2, <1>3, <1>4 DEF FactorOK

\* Requests of the second factor go on, if at all, with what they carry.
LEMMA FactorKept ==
  ASSUME FactorOK, UNCHANGED <<factor, setups, shown, spent, stale, mixed>>,
         \A q \in Req : req'[q].op \in SecondOp => req'[q] = req[q]
  PROVE  FactorOK'
<1> USE DEF FactorOK, SecondOp
<1>1. SetupsOK'
  BY DEF SetupsOK
<1>2. \A n : Unsaved(n)' => Unsaved(n)
  BY DEF Unsaved
<1>3. BackupOK'
  BY <1>2 DEF BackupOK
<1>4. SecretsOK'
  BY DEF SecretsOK, OfSecrets
<1> QED BY <1>1, <1>3, <1>4

LEMMA FactorMail ==
  ASSUME ReqOK, FactorOK, NEW r \in Req, MailStep(r) \/ Fail(r)
  PROVE  FactorOK'
<1>1. UNCHANGED second
  BY MailAlone DEF Fail
<1>2. Others(r) /\ req'[r].op \notin SecondOp
  <2>1. CASE Register(r)
    BY <2>1 DEF Register, Begin, Others, Idle, ReqOK, Request, SecondOp
  <2>2. ASSUME NEW c \in codes \cup {0}, VerifyEmail(r, c)
        PROVE  Others(r) /\ req'[r].op \notin SecondOp
    BY <2>2 DEF VerifyEmail, Begin, Others, ReqOK, Request, SecondOp
  <2>3. CASE ResendVerification(r)
    BY <2>3 DEF ResendVerification, Begin, Others, Idle, ReqOK, Request, SecondOp
  <2>4. CASE FindVerification(r) \/ Commit(r) \/ FindUser(r)
    BY <2>4, GotoReq, DoneReq DEF FindVerification, Commit, FindUser, At, SecondOp
  <2>5. CASE RegisterCode(r) \/ ClearRateLimit(r) \/ ReplaceCode(r) \/ Fail(r)
    BY <2>5, DoneReq DEF RegisterCode, ClearRateLimit, ReplaceCode, SecondOp
  <2>6. ASSUME NEW k \in Key, Upsert(r, k) \/ NewWindow(r, k)
        PROVE  Others(r) /\ req'[r].op \notin SecondOp
    BY <2>6, GotoReq, DoneReq DEF Upsert, NewWindow, At, SecondOp, Key
  <2> QED BY <2>1, <2>2, <2>3, <2>4, <2>5, <2>6 DEF MailStep
<1>3. \A q \in Req : req'[q].op \in SecondOp => req'[q] = req[q]
  BY <1>2 DEF Others
<1> QED BY <1>1, <1>3, FactorKept DEF second

LEMMA SetupBegins ==
  ASSUME SecondTypeOK, ReqOK, FactorOK, NEW r \in Req, CanSetup(r)
  PROVE  FactorOK'
<1> USE DEF FactorOK
<1>1. /\ Others(r) /\ req'[r].op = "setup" /\ req'[r].pc = "secret" /\ req'[r].seen = setups'
      /\ req[r].op = "none"
  BY DEF CanSetup, Begin, Others, Idle, ReqOK, Request
<1>2. /\ setups' = setups + 1 /\ factor.secret = 0
      /\ UNCHANGED <<factor, pass, shown, spent, stale, mixed>>
  BY DEF CanSetup
<1>3. setups \in Nat /\ shown \subseteq 1..setups
  BY AccountsAssumption DEF SecondTypeOK
<1>4. SetupsOK'
  BY <1>1, <1>2, <1>3 DEF SetupsOK, Others
<1>5. \A n \in 1..MaxSetups : Unsaved(n)' => Unsaved(n)
  BY <1>1, <1>2, <1>3 DEF Unsaved, Others
<1>6. BackupOK'
  BY <1>1, <1>2, <1>5 DEF BackupOK, Others, AnyBackup
<1>7. SecretsOK'
  BY <1>1, <1>2 DEF SecretsOK, OfSecrets, Others
<1> QED BY <1>4, <1>6, <1>7

LEMMA PendingSaved ==
  ASSUME SecondTypeOK, ReqOK, FactorOK, NEW r \in Req, SavePending(r)
  PROVE  FactorOK'
<1> USE DEF FactorOK
<1>1. /\ req[r].op = "setup" /\ Goto(r, "codes")
      /\ UNCHANGED <<setups, shown, spent, stale>> /\ mixed' = (mixed \/ ~Alone(r))
  BY DEF SavePending, At, Mix
<1>2. Others(r) /\ req'[r].op = "setup" /\ req'[r].seen = req[r].seen
  BY <1>1, GotoReq
<1>3. factor'.secret = factor.secret /\ factor'.codes = factor.codes
        /\ factor'.pending = req[r].seen
  BY DEF SavePending, SecondTypeOK
<1>4. SetupsOK'
  BY <1>1, <1>2 DEF SetupsOK, Others
<1>5. \A n : Unsaved(n)' => Unsaved(n)
  BY <1>1, <1>2 DEF Unsaved, Others
<1>6. BackupOK'
  BY <1>1, <1>2, <1>3, <1>5 DEF BackupOK, Others
<1>7. ASSUME ~mixed' PROVE SecretsOK'
  <2>1. /\ ~mixed /\ \A q \in Req \ {r} : req[q].op \notin SecondOp /\ req'[q] = req[q]
    BY <1>1, <1>2, <1>7 DEF Alone, Others
  <2>2. factor.secret = 0 /\ req[r].seen \notin shown
    BY <1>1, <2>1 DEF SecretsOK, SetupsOK
  <2> QED BY <1>1, <1>2, <1>3, <2>1, <2>2 DEF SecretsOK, OfSecrets, SecondOp
<1> QED BY <1>4, <1>6, <1>7 DEF SecretsOK

LEMMA BackupCodesSaved ==
  ASSUME SecondTypeOK, ReqOK, FactorOK, NEW r \in Req, SaveBackupCodes(r)
  PROVE  FactorOK'
<1> USE DEF FactorOK
<1>0. PICK n : n = req[r].seen
  OBVIOUS
<1> USE <1>0
<1>1. /\ req[r].op = "setup" /\ req[r].pc = "codes" /\ Done(r) /\ shown' = shown \cup {n}
      /\ UNCHANGED <<setups, spent, stale>> /\ mixed' = (mixed \/ ~Alone(r))
  BY DEF SaveBackupCodes, At, Mix
<1>2. Others(r) /\ req'[r].op = "none"
  BY <1>1, DoneReq
<1>3. factor'.secret = factor.secret /\ factor'.pending = factor.pending
        /\ factor'.codes = Backup(n)
  BY DEF SaveBackupCodes, SecondTypeOK
<1>4. /\ n \in 1..setups /\ n \notin shown
      /\ \A q \in Req \ {r} : req[q].op = "setup" => req[q].seen # n
  BY <1>1 DEF SetupsOK
<1>5. SetupsOK'
  BY <1>1, <1>2, <1>4 DEF SetupsOK, Others
<1>6. Unsaved(n) /\ ~Unsaved(n)' /\ \A m : Unsaved(m)' => Unsaved(m)
  <2>1. setups \in Nat /\ ~(n > setups)
    BY <1>4, AccountsAssumption DEF SecondTypeOK
  <2> QED BY <1>1, <1>2, <1>4, <2>1 DEF Unsaved, Others
<1>7. ASSUME NEW b \in AnyBackup
      PROVE  /\ Unsaved(b[1])' => /\ spent'[b] = 0 /\ b \notin factor'.codes
                                  /\ \A q \in Req : req'[q].op = "backup" => b \notin req'[q].seen
             /\ spent'[b] + (IF b \in factor'.codes THEN 1 ELSE 0) <= 1 + stale'
  <2>1. b \in Backup(n) => b[1] = n
    BY DEF Backup
  <2>2. spent[b] \in Nat /\ stale \in Nat
    BY DEF SecondTypeOK
  <2>3. /\ Unsaved(b[1]) => /\ spent[b] = 0 /\ b \notin factor.codes
                            /\ \A q \in Req : req[q].op = "backup" => b \notin req[q].seen
        /\ spent[b] + (IF b \in factor.codes THEN 1 ELSE 0) <= 1 + stale
    BY DEF BackupOK
  <2>4. CASE b \in Backup(n)
    <3>1. Unsaved(b[1]) /\ ~Unsaved(b[1])'
      BY <1>6, <2>1, <2>4
    <3> QED BY <1>1, <1>3, <2>2, <2>3, <2>4, <3>1
  <2>5. CASE b \notin Backup(n)
    <3>1. spent[b] <= 1 + stale
      BY <2>2, <2>3
    <3>2. \A q \in Req : req'[q].op = "backup" => req'[q] = req[q]
      BY <1>2 DEF Others
    <3> QED BY <1>1, <1>3, <1>6, <2>2, <2>3, <2>5, <3>1, <3>2
  <2> QED BY <2>4, <2>5
<1>8. BackupOK'
  BY <1>7 DEF BackupOK
<1>9. ASSUME ~mixed' PROVE SecretsOK'
  <2>1. /\ ~mixed /\ \A q \in Req : req'[q].op \notin SecondOp
    BY <1>1, <1>2, <1>9 DEF Alone, Others, SecondOp
  <2>2. factor.secret = 0 /\ factor.pending \in {0, n}
    BY <1>1, <2>1 DEF SecretsOK
  <2>3. 0 \notin shown'
    BY <1>1, <1>4, AccountsAssumption DEF SecondTypeOK
  <2> QED BY <1>3, <2>1, <2>2, <2>3 DEF SecretsOK, OfSecrets, SecondOp
<1> QED BY <1>5, <1>8, <1>9 DEF SecretsOK

LEMMA ActivationBegins ==
  ASSUME ReqOK, FactorOK, NEW r \in Req, ActivateTotp(r)
  PROVE  FactorOK'
<1> USE DEF FactorOK
<1>1. /\ Others(r) /\ req'[r].op = "activate" /\ req'[r].seen = factor.pending
      /\ req[r].op = "none"
  BY DEF ActivateTotp, Begin, Others, Idle, ReqOK, Request
<1>2. factor.pending \in shown /\ UNCHANGED <<factor, setups, shown, spent, stale, mixed>>
  BY DEF ActivateTotp, second
<1>3. SetupsOK'
  BY <1>1, <1>2 DEF SetupsOK, Others
<1>4. \A n : Unsaved(n)' => Unsaved(n)
  BY <1>1, <1>2 DEF Unsaved, Others
<1>5. BackupOK'
  BY <1>1, <1>2, <1>4 DEF BackupOK, Others
<1>6. SecretsOK'
  BY <1>1, <1>2 DEF SecretsOK, OfSecrets, Others
<1> QED BY <1>3, <1>5, <1>6

LEMMA SecretSaved ==
  ASSUME SecondTypeOK, ReqOK, FactorOK, NEW r \in Req, SaveSecret(r)
  PROVE  FactorOK'
<1> USE DEF FactorOK
<1>1. /\ req[r].op = "activate" /\ Done(r)
      /\ UNCHANGED <<setups, shown, spent, stale>> /\ mixed' = (mixed \/ ~Alone(r))
  BY DEF SaveSecret, At, Mix
<1>2. Others(r) /\ req'[r].op = "none"
  BY <1>1, DoneReq
<1>3. factor'.secret = req[r].seen /\ factor'.pending = 0 /\ factor'.codes = factor.codes
  BY DEF SaveSecret, SecondTypeOK
<1>4. SetupsOK'
  BY <1>1, <1>2 DEF SetupsOK, Others
<1>5. \A n : Unsaved(n)' => Unsaved(n)
  BY <1>1, <1>2 DEF Unsaved, Others
<1>6. BackupOK'
  BY <1>1, <1>2, <1>3, <1>5 DEF BackupOK, Others
<1>7. ASSUME ~mixed' PROVE SecretsOK'
  <2>1. /\ ~mixed /\ \A q \in Req : req'[q].op \notin SecondOp
    BY <1>1, <1>2, <1>7 DEF Alone, Others, SecondOp
  <2>2. factor.codes \subseteq Backup(req[r].seen)
    BY <1>1, <2>1 DEF SecretsOK, OfSecrets
  <2>3. 0 \notin shown'
    BY <1>1, AccountsAssumption DEF SecondTypeOK
  <2> QED BY <1>3, <2>1, <2>2, <2>3 DEF SecretsOK, OfSecrets, SecondOp
<1> QED BY <1>4, <1>6, <1>7 DEF SecretsOK

LEMMA BackupCodeFound ==
  ASSUME SecondTypeOK, ReqOK, FactorOK, NEW r \in Req, NEW b \in factor.codes,
         UseBackupCode(r, b)
  PROVE  FactorOK'
<1> USE DEF FactorOK
<1>1. /\ Others(r) /\ req'[r].op = "backup" /\ req'[r].seen = factor.codes
      /\ req'[r].code = b /\ req[r].op = "none"
  BY DEF UseBackupCode, Begin, Others, ReqOK, Request
<1>2. UNCHANGED <<factor, setups, shown, spent, stale, mixed>>
  BY DEF UseBackupCode, second
<1>3. SetupsOK'
  BY <1>1, <1>2 DEF SetupsOK, Others, SecondTypeOK
<1>4. \A n : Unsaved(n)' => Unsaved(n)
  BY <1>1, <1>2 DEF Unsaved, Others
<1>5. BackupOK'
  BY <1>1, <1>2, <1>4 DEF BackupOK, Others
<1>6. SecretsOK'
  BY <1>1, <1>2 DEF SecretsOK, OfSecrets, Others
<1> QED BY <1>3, <1>5, <1>6

LEMMA RemainingSaved ==
  ASSUME SecondTypeOK, ReqOK, FactorOK, NEW r \in Req, SaveRemaining(r)
  PROVE  FactorOK'
<1> USE DEF FactorOK
<1> DEFINE C == req[r].seen
<1> DEFINE used == req[r].code
<1>1. /\ req[r].op = "backup" /\ Done(r) /\ UNCHANGED <<setups, shown, mixed>>
      /\ spent' = [spent EXCEPT ![used] = @ + 1]
      /\ stale' = IF factor.codes = C THEN stale ELSE stale + 1
  BY DEF SaveRemaining, At
<1>2. Others(r) /\ req'[r].op = "none"
  BY <1>1, DoneReq
<1>3. factor'.secret = factor.secret /\ factor'.pending = factor.pending
        /\ factor'.codes = C \ {used}
  BY DEF SaveRemaining, SecondTypeOK
<1>4. C \subseteq AnyBackup /\ used \in C
  BY <1>1 DEF SetupsOK
<1>5. SetupsOK'
  BY <1>1, <1>2 DEF SetupsOK, Others
<1>6. \A n : Unsaved(n)' => Unsaved(n)
  BY <1>1, <1>2 DEF Unsaved, Others
<1>7. ASSUME NEW b \in AnyBackup
      PROVE  /\ Unsaved(b[1])' => /\ spent'[b] = 0 /\ b \notin factor'.codes
                                  /\ \A q \in Req : req'[q].op = "backup" => b \notin req'[q].seen
             /\ spent'[b] + (IF b \in factor'.codes THEN 1 ELSE 0) <= 1 + stale'
  <2>1. spent[b] \in Nat /\ stale \in Nat
    BY DEF SecondTypeOK
  <2>2. spent'[b] = IF b = used THEN spent[b] + 1 ELSE spent[b]
    BY <1>1, <1>4 DEF SecondTypeOK
  <2>3. /\ Unsaved(b[1]) => /\ spent[b] = 0 /\ b \notin factor.codes
                            /\ \A q \in Req : req[q].op = "backup" => b \notin req[q].seen
        /\ spent[b] + (IF b \in factor.codes THEN 1 ELSE 0) <= 1 + stale
    BY DEF BackupOK
  <2>4. Unsaved(b[1])' => /\ spent'[b] = 0 /\ b \notin factor'.codes
                          /\ \A q \in Req : req'[q].op = "backup" => b \notin req'[q].seen
    <3>1. Unsaved(b[1]) => b \notin C
      BY <1>1, <2>3
    <3> QED BY <1>2, <1>3, <1>4, <1>6, <2>2, <2>3, <3>1 DEF Others
  <2>5. spent'[b] + (IF b \in factor'.codes THEN 1 ELSE 0) <= 1 + stale'
    <3>1. CASE b = used
      BY <1>1, <1>3, <1>4, <2>1, <2>2, <2>3, <3>1
    <3>2. CASE b # used
      BY <1>1, <1>3, <2>1, <2>2, <2>3, <3>2
    <3> QED BY <3>1, <3>2
  <2> QED BY <2>4, <2>5
<1>8. BackupOK'
  BY <1>7 DEF BackupOK
<1>9. SecretsOK'
  BY <1>1, <1>2, <1>3 DEF SecretsOK, OfSecrets, Others
<1> QED BY <1>5, <1>8, <1>9

LEMMA DisableBegins ==
  ASSUME ReqOK, FactorOK, NEW r \in Req, DisableTotp(r)
  PROVE  FactorOK'
<1> USE DEF FactorOK
<1>1. /\ Others(r) /\ req'[r].op = "disable" /\ req[r].op = "none"
  BY DEF DisableTotp, Begin, Others, Idle, ReqOK, Request
<1>2. UNCHANGED <<factor, setups, shown, spent, stale, mixed>>
  BY DEF DisableTotp, second
<1>3. SetupsOK'
  BY <1>1, <1>2 DEF SetupsOK, Others
<1>4. \A n : Unsaved(n)' => Unsaved(n)
  BY <1>1, <1>2 DEF Unsaved, Others
<1>5. BackupOK'
  BY <1>1, <1>2, <1>4 DEF BackupOK, Others
<1>6. SecretsOK'
  BY <1>1, <1>2 DEF SecretsOK, OfSecrets, Others
<1> QED BY <1>3, <1>5, <1>6

LEMMA FactorDisabled ==
  ASSUME SecondTypeOK, ReqOK, FactorOK, NEW r \in Req, SaveDisabled(r)
  PROVE  FactorOK'
<1> USE DEF FactorOK
<1>1. /\ req[r].op = "disable" /\ Done(r) /\ UNCHANGED <<setups, shown, spent, stale, mixed>>
  BY DEF SaveDisabled, At
<1>2. Others(r) /\ req'[r].op = "none"
  BY <1>1, DoneReq
<1>3. factor'.secret = 0 /\ factor'.pending = 0 /\ factor'.codes = {}
  BY DEF SaveDisabled
<1>4. SetupsOK'
  BY <1>1, <1>2 DEF SetupsOK, Others
<1>5. \A n : Unsaved(n)' => Unsaved(n)
  BY <1>1, <1>2 DEF Unsaved, Others
<1>6. BackupOK'
  <2>1. \A b \in AnyBackup : spent[b] \in Nat /\ stale \in Nat
    BY DEF SecondTypeOK
  <2>2. \A b \in AnyBackup : spent[b] <= 1 + stale
    BY <2>1 DEF BackupOK
  <2> QED BY <1>1, <1>2, <1>3, <1>5, <2>1, <2>2 DEF BackupOK, Others
<1>7. 0 \notin shown'
  BY <1>1, AccountsAssumption DEF SecondTypeOK
<1>8. SecretsOK'
  BY <1>1, <1>2, <1>3, <1>7 DEF SecretsOK, OfSecrets, Others
<1> QED BY <1>4, <1>6, <1>8

LEMMA FactorStep ==
  ASSUME TypeOK, ReqOK, FactorOK, Next
  PROVE  FactorOK'
<1>1. ASSUME NEW r \in Req, SecondStep(r) PROVE FactorOK'
  BY <1>1, TypeParts, SetupBegins, PendingSaved, BackupCodesSaved, ActivationBegins, SecretSaved,
     BackupCodeFound, RemainingSaved, DisableBegins, FactorDisabled DEF SecondStep
<1>2. CASE TimePasses \/ PassChanges
  <2>1. UNCHANGED <<req, factor, setups, shown, spent, stale, mixed>>
    BY <1>2 DEF TimePasses, PassChanges, WindowEnds, CleanupExpiredRateLimits, CodeExpires,
       Login, PassExpires, second
  <2> QED BY <2>1, FactorKept
<1> QED BY <1>1, <1>2, FactorMail, StepsSorted

LEMMA OneSetupOK ==
  ASSUME SecretsOK
  PROVE  OneSetup
  BY DEF SecretsOK, OfSecrets, OneSetup

-----------------------------------------------------------------------------
(* The theorems.                                                           *)

\* The inductive invariant: types and requests, attempts, codes, setups.
LEMMA AccountsInvariant == Spec => []AccountsInv
<1>1. Init => AccountsInv
  BY TypeInit, AttemptsInit, CodesInit, FactorInit DEF AccountsInv, FactorOK
<1>2. AccountsInv /\ [Next]_vars => AccountsInv'
  <2> SUFFICES ASSUME AccountsInv, [Next]_vars PROVE AccountsInv'
    OBVIOUS
  <2> USE DEF AccountsInv
  <2>1. CASE Next
    <3>1. ReqOK'
      BY <2>1, ReqStep
    <3>2. CountsTypeOK'
      BY <2>1, TypeParts, CountsType
    <3>3. MailTypeOK' /\ SecondTypeOK'
      <4>1. ASSUME NEW r \in Req, MailStep(r) \/ SecondStep(r) \/ Fail(r)
            PROVE  MailTypeOK' /\ SecondTypeOK'
        <5>1. CASE MailStep(r)
          <6>1. UNCHANGED second
            BY <5>1, MailAlone
          <6> QED BY <5>1, <6>1, MailType, TypeParts DEF second, SecondTypeOK
        <5>2. CASE SecondStep(r)
          <6>1. UNCHANGED mail
            BY <5>2, SecondAlone
          <6> QED BY <5>2, <6>1, SecondType, TypeParts DEF mail, MailTypeOK
        <5>3. CASE Fail(r)
          BY <5>3, TypeParts DEF Fail, mail, second, MailTypeOK, SecondTypeOK
        <5> QED BY <4>1, <5>1, <5>2, <5>3
      <4>2. PICK r \in Req : TRUE
        BY AccountsAssumption
      <4>3. CASE TimePasses
        <5>1. UNCHANGED second
          BY <4>2, <4>3, MailAlone
        <5> QED BY <4>2, <4>3, <5>1, MailType, TypeParts DEF second, SecondTypeOK
      <4>4. CASE PassChanges
        <5>1. UNCHANGED mail
          BY <4>2, <4>4, SecondAlone
        <5> QED BY <4>2, <4>4, <5>1, SecondType, TypeParts DEF mail, MailTypeOK
      <4> QED BY <2>1, <4>1, <4>3, <4>4, StepsSorted
    <3>4. TypeOK'
      BY <3>2, <3>3 DEF TypeOK, MailTypeOK, SecondTypeOK, CountsTypeOK
    <3>5. AttemptsOK'
      BY <2>1, <3>1, <3>2, AttemptsStep
    <3>6. CodesOK'
      BY <2>1, CodesStep
    <3>7. FactorOK'
      BY <2>1, FactorStep DEF FactorOK
    <3> QED BY <3>1, <3>4, <3>5, <3>6, <3>7 DEF FactorOK
  <2>2. CASE UNCHANGED vars
    <3> USE <2>2 DEF vars, mail, second
    <3>1. TypeOK' /\ ReqOK'
      BY DEF TypeOK, ReqOK
    <3>2. AttemptsOK'
      BY DEF AttemptsOK, AttemptsAt, Checked, Uncounted, Unsure, At
    <3>3. CodesOK'
      BY DEF CodesOK, Redeems, At
    <3>4. SetupsOK' /\ BackupOK' /\ SecretsOK'
      BY DEF SetupsOK, BackupOK, SecretsOK, OfSecrets, Unsaved
    <3> QED BY <3>1, <3>2, <3>3, <3>4
  <2> QED BY <2>1, <2>2
<1> QED BY <1>1, <1>2, PTL DEF Spec

(* Types: the codes in the table were made, a secret in use or pending is  *)
(* of a setup that was begun, a secret that was shown too.                 *)
THEOREM AccountsTypeCorrect == Spec => []TypeOK
<1>1. AccountsInv => TypeOK
  BY DEF AccountsInv
<1> QED BY <1>1, AccountsInvariant, PTL

(* checkRateLimit and incrementRateLimit, statements apart and with any    *)
(* number of requests between them: a window sees no more wrong codes or   *)
(* mails than the limit, two for every other request and one for each cut  *)
(* short.                                                                  *)
THEOREM AttemptsBounded == Spec => []BoundedAttempts
<1>1. AccountsInv => BoundedAttempts
  BY AttemptsBound DEF AccountsInv
<1> QED BY <1>1, AccountsInvariant, PTL

(* verifyEmail: whichever requests hand in a code at once, the transaction *)
(* that deletes it lets one of them in.                                    *)
THEOREM CodesLogInOnce == Spec => []CodeLogsInOnce
<1>1. AccountsInv => CodeLogsInOnce
  BY DEF AccountsInv, CodesOK, CodeLogsInOnce
<1> QED BY <1>1, AccountsInvariant, PTL

(* verifyAndConsumeBackupCode: a code is accepted once, and again only for *)
(* a list of codes that was overwritten since it was read.                 *)
THEOREM BackupCodesSpentOnce == Spec => []BackupCodeSpentOnce
<1>1. TypeOK /\ BackupOK => BackupCodeSpentOnce
  BY DEF TypeOK, BackupOK, BackupCodeSpentOnce
<1>2. AccountsInv => BackupCodeSpentOnce
  BY <1>1 DEF AccountsInv
<1> QED BY <1>2, AccountsInvariant, PTL

(* setupTotp and activateTotp, if they run alone: the backup codes are the *)
(* ones shown with the secret in use.                                      *)
THEOREM OneSetupAtATime == Spec => []OneSetup
<1>1. AccountsInv => OneSetup
  BY OneSetupOK DEF AccountsInv
<1> QED BY <1>1, AccountsInvariant, PTL

-----------------------------------------------------------------------------
(* Plans and payments: the tables, what Stripe keeps, and what a handler   *)
(* carries from one query to the next.                                     *)

Buying == {"newCustomer", "saveCustomer", "openSession"}

TablesOK ==
  /\ now \in 0..MaxTime
  /\ plan \in [User -> Plan] /\ expires \in [User -> Time]
  /\ customer \in [User -> 0..MaxCustomers]
  /\ \A u \in User : customer[u] # 0 => customer[u] \in DOMAIN made /\ made[customer[u]] = u
  /\ row \in [User -> State]

\* Those who are about to create a customer.
Creating == {p \in Handler : pc[p] = "newCustomer"}

StripeOK ==
  /\ made \in Seq(User) /\ Len(made) + Cardinality(Creating) <= MaxCustomers
  /\ offers \subseteq [user : User, plan : Paid, cust : 1..MaxCustomers]
  /\ sub \in Seq(Subscription) /\ Len(sub) <= MaxSubs
  /\ log \in Seq(Event) /\ Len(log) <= MaxEvents
  /\ acked \subseteq 1..Len(log)

\* An event names a subscription of its user.
NamesOK ==
  /\ \A e \in DOMAIN log :
       log[e].state.sub \in DOMAIN sub /\ sub[log[e].state.sub].user = log[e].user
  /\ \A s \in DOMAIN sub : sub[s].state.sub = s

\* What a handler may carry to its next step, for user u.
Carries(step, u, a, g) ==
  /\ step # "idle" => u \in User
  /\ step \in Webhook =>
       /\ a \in DOMAIN log /\ log[a].user = u
       /\ g \in State /\ g.sub = log[a].state.sub
  /\ step = "downgrade" => g.end \in Time /\ g.end <= now
  /\ step \in Buying => a \in Paid
  /\ step \in {"saveCustomer", "openSession"} => g.sub \in DOMAIN made /\ made[g.sub] = u

ServersOK ==
  /\ pc \in [Handler -> Step] /\ usr \in [Handler -> User \cup {None}]
  /\ DOMAIN arg = Handler /\ DOMAIN got = Handler
  /\ \A p \in Handler : Carries(pc[p], usr[p], arg[p], got[p])

Sound == TablesOK /\ StripeOK /\ NamesOK /\ ServersOK

LEMMA BoundTypes ==
  /\ MaxTime \in Nat /\ MaxSubs \in Nat /\ MaxEvents \in Nat
  /\ MaxCustomers \in Nat /\ MaxFaults \in Nat
  /\ IsFiniteSet(Handler) /\ Cardinality(Handler) \in Nat \ {0}
<1>1. IsFiniteSet(Handler) /\ Handler # {}
  BY PlansAssumption
<1>2. Cardinality(Handler) \in Nat /\ Cardinality(Handler) # 0
  BY <1>1, FS_CardinalityType, FS_EmptySet
<1> QED BY <1>1, <1>2, PlansAssumption

LEMMA SeqDomain ==
  ASSUME NEW S, NEW s \in Seq(S)
  PROVE  Len(s) \in Nat /\ DOMAIN s = 1..Len(s) /\ \A i \in 1..Len(s) : s[i] \in S
BY LenProperties, ElementOfSeq

LEMMA Appended ==
  ASSUME NEW S, NEW s \in Seq(S), NEW x \in S, NEW t, t = Append(s, x)
  PROVE  /\ t \in Seq(S) /\ Len(t) = Len(s) + 1 /\ t[Len(s) + 1] = x
         /\ DOMAIN t = 1..(Len(s) + 1)
         /\ \A i \in 1..Len(s) : t[i] = s[i]
BY AppendProperties

LEMMA FreeState == NoState \in State /\ NoState.sub = 0 /\ NoState.end = 0
BY BoundTypes DEF NoState, State, Time, Status

LEMMA SoundTypes == Sound => PlansTypeOK
<1> SUFFICES ASSUME Sound PROVE PlansTypeOK
  OBVIOUS
<1>1. Creating \subseteq Handler /\ Cardinality(Creating) \in Nat
  <2>1. Creating \subseteq Handler
    BY DEF Creating
  <2> QED BY <2>1, BoundTypes, NoMore
<1>2. made \in Seq(User) /\ Len(made) \in Nat /\ Len(made) <= MaxCustomers
  BY <1>1, BoundTypes, LenProperties DEF Sound, StripeOK
<1>3. DOMAIN log = 1..Len(log)
  BY LenProperties DEF Sound, StripeOK
<1> QED BY <1>2, <1>3 DEF PlansTypeOK, Sound, TablesOK, StripeOK, ServersOK, Carries

LEMMA SoundInit == PlansInit => Sound
<1> SUFFICES ASSUME PlansInit PROVE Sound
  OBVIOUS
<1>1. TablesOK
  BY BoundTypes, FreeState DEF PlansInit, TablesOK, Plan, Time
<1>2. StripeOK
  <2>1. Creating = {}
    BY DEF PlansInit, Creating
  <2>2. Cardinality(Creating) = 0
    BY <2>1, FS_EmptySet
  <2>3. /\ made = <<>> /\ sub = <<>> /\ log = <<>> /\ offers = {} /\ acked = {}
    BY DEF PlansInit
  <2> QED BY <2>2, <2>3, BoundTypes DEF StripeOK
<1>3. NamesOK
  BY DEF PlansInit, NamesOK
<1>4. ServersOK
  BY DEF PlansInit, ServersOK, Step, Carries, Webhook, Buying
<1> QED BY <1>1, <1>2, <1>3, <1>4 DEF Sound

-----------------------------------------------------------------------------
(* The steps of the handlers.                                              *)

\* Handler p comes to stand at step; the others stay where they are.
Stands(p, step, u, a, g) ==
  /\ pc' = [pc EXCEPT ![p] = step] /\ usr' = [usr EXCEPT ![p] = u]
  /\ DOMAIN arg' = Handler /\ DOMAIN got' = Handler
  /\ pc'[p] = step /\ usr'[p] = u /\ arg'[p] = a /\ got'[p] = g
  /\ \A q \in Handler : q # p =>
       pc'[q] = pc[q] /\ usr'[q] = usr[q] /\ arg'[q] = arg[q] /\ got'[q] = got[q]

LEMMA TakeStands ==
  ASSUME ServersOK, NEW p \in Handler, NEW u, NEW a, NEW g, NEW step, Take(p, u, a, g, step)
  PROVE  pc[p] = "idle" /\ Stands(p, step, u, a, g)
BY DEF ServersOK, Take, Stands

LEMMA ProceedStands ==
  ASSUME ServersOK, NEW p \in Handler, NEW step, NEW g, Proceed(p, step, g)
  PROVE  Stands(p, step, usr[p], arg[p], g)
BY DEF ServersOK, Proceed, Stands

LEMMA EndStands ==
  ASSUME ServersOK, NEW p \in Handler, End(p)
  PROVE  Stands(p, "idle", None, 0, NoState)
BY DEF ServersOK, End, Stands

\* Time goes on, and Stripe forgets neither events nor customers.
Grows ==
  /\ now' \in Int /\ now <= now'
  /\ \A e \in DOMAIN log : e \in DOMAIN log' /\ log'[e] = log[e]
  /\ \A c \in DOMAIN made : c \in DOMAIN made' /\ made'[c] = made[c]

LEMMA StillCarries ==
  ASSUME Sound, Grows, NEW step, NEW u, NEW a, NEW g, Carries(step, u, a, g)
  PROVE  Carries(step, u, a, g)'
<1>1. ASSUME step = "downgrade" PROVE g.end <= now'
  BY <1>1, BoundTypes DEF Carries, Grows, Sound, TablesOK, Time
<1> QED BY <1>1 DEF Carries, Grows

LEMMA ServersStep ==
  ASSUME Sound, Grows, NEW p \in Handler, NEW step \in Step, NEW u \in User \cup {None},
         NEW a, NEW g, Stands(p, step, u, a, g), Carries(step, u, a, g)'
  PROVE  ServersOK'
<1>1. ASSUME NEW q \in Handler, q # p PROVE Carries(pc[q], usr[q], arg[q], got[q])'
  <2>1. PICK s, v, b, h : s = pc[q] /\ v = usr[q] /\ b = arg[q] /\ h = got[q]
    OBVIOUS
  <2>2. /\ pc'[q] = s /\ usr'[q] = v /\ arg'[q] = b /\ got'[q] = h
    BY <1>1, <2>1 DEF Stands
  <2>3. Carries(s, v, b, h)
    BY <2>1 DEF Sound, ServersOK
  <2>4. Carries(s, v, b, h)'
    BY <2>3, StillCarries
  <2> QED BY <2>2, <2>4
<1>2. Carries(pc[p], usr[p], arg[p], got[p])'
  BY DEF Stands
<1>3. pc' \in [Handler -> Step] /\ usr' \in [Handler -> User \cup {None}]
  BY DEF Stands, Sound, ServersOK
<1> QED BY <1>1, <1>2, <1>3 DEF ServersOK, Stands

LEMMA ServersRest ==
  ASSUME Sound, Grows, UNCHANGED locals
  PROVE  ServersOK'
<1>1. UNCHANGED <<pc, usr, arg, got>>
  BY DEF locals
<1>2. ASSUME NEW q \in Handler PROVE Carries(pc[q], usr[q], arg[q], got[q])'
  <2>1. PICK s, v, b, h : s = pc[q] /\ v = usr[q] /\ b = arg[q] /\ h = got[q]
    OBVIOUS
  <2>2. Carries(s, v, b, h)
    BY <2>1 DEF Sound, ServersOK
  <2>3. Carries(s, v, b, h)'
    BY <2>2, StillCarries
  <2> QED BY <1>1, <2>1, <2>3
<1> QED BY <1>1, <1>2 DEF ServersOK, Sound

LEMMA StripeRests ==
  ASSUME Sound, UNCHANGED <<made, offers, sub, log>>, acked' \subseteq 1..Len(log),
         Creating' \subseteq Creating
  PROVE  StripeOK' /\ NamesOK'
<1>1. Creating \subseteq Handler
  BY DEF Creating
<1>2. /\ Cardinality(Creating) \in Nat /\ Cardinality(Creating') \in Nat
      /\ Cardinality(Creating') <= Cardinality(Creating)
  <2>1. IsFiniteSet(Creating)
    BY <1>1, BoundTypes, NoMore
  <2> QED BY <2>1, NoMore
<1>3. Len(made) \in Nat /\ Len(made) + Cardinality(Creating) <= MaxCustomers
  BY LenProperties DEF Sound, StripeOK
<1>4. Len(made) + Cardinality(Creating') <= MaxCustomers
  BY <1>2, <1>3, BoundTypes
<1>5. Len(made)' + Cardinality(Creating)' <= MaxCustomers
  BY <1>4
<1> QED BY <1>5 DEF Sound, StripeOK, NamesOK

LEMMA GrowsAtRest ==
  ASSUME Sound, UNCHANGED <<now, log, made>>
  PROVE  Grows
BY BoundTypes DEF Grows, Sound, TablesOK

\* No customer is about to be created that was not before.
LEMMA NoneCreates ==
  ASSUME NEW p \in Handler, NEW step, NEW u, NEW a, NEW g, Stands(p, step, u, a, g),
         step # "newCustomer"
  PROVE  Creating' \subseteq Creating
BY DEF Stands, Creating

-----------------------------------------------------------------------------
(* Each action in turn.                                                    *)

LEMMA FindExpiredSound ==
  ASSUME Sound, NEW p \in Handler, NEW u \in User, FindExpired(p, u)
  PROVE  Sound'
<1> DEFINE g == [NoState EXCEPT !.end = expires[u]]
<1>1. /\ expires[u] # 0 /\ expires[u] <= now
      /\ Take(p, u, plan[u], g, "downgrade")
      /\ UNCHANGED <<now, plan, expires, customer, row, made, offers, sub, log, acked>>
  BY DEF FindExpired, users, stripe
<1>2. g.end = expires[u] /\ expires[u] \in Time
  BY DEF NoState, Sound, TablesOK
<1> HIDE DEF g
<1>3. PICK a : a = plan[u]
  OBVIOUS
<1>4. Stands(p, "downgrade", u, a, g)
  BY <1>1, <1>3, TakeStands DEF Sound
<1>5. Carries("downgrade", u, a, g)
  BY <1>1, <1>2 DEF Carries, Webhook, Buying
<1>6. Grows
  BY <1>1, GrowsAtRest
<1>7. ServersOK'
  <2>1. PICK h : h = g
    OBVIOUS
  <2>2. Carries("downgrade", u, a, h)'
    BY <1>5, <1>6, <2>1, StillCarries
  <2>3. Stands(p, "downgrade", u, a, h)
    BY <1>4, <2>1
  <2>4. "downgrade" \in Step /\ u \in User \cup {None}
    BY DEF Step
  <2> QED BY <1>6, <2>2, <2>3, <2>4, ServersStep
<1>8. StripeOK' /\ NamesOK'
  <2>1. Creating' \subseteq Creating
    BY <1>4, NoneCreates
  <2> QED BY <1>1, <2>1, StripeRests DEF Sound, StripeOK
<1>9. TablesOK'
  BY <1>1 DEF Sound, TablesOK
<1> QED BY <1>7, <1>8, <1>9 DEF Sound

LEMMA WrittenPlan ==
  ASSUME Sound, NEW u \in User, NEW pl \in Plan, NEW t \in Time, WritePlan(u, pl, t),
         UNCHANGED <<now, customer, row, made>>
  PROVE  TablesOK'
BY DEF Sound, TablesOK, WritePlan

LEMMA DowngradeSound ==
  ASSUME Sound, NEW p \in Handler, Downgrade(p)
  PROVE  Sound'
<1>1. /\ pc[p] = "downgrade" /\ WritePlan(usr[p], "FREE", 0) /\ End(p)
      /\ UNCHANGED <<now, customer, row, made, offers, sub, log, acked>>
  BY DEF Downgrade, stripe
<1>2. usr[p] \in User
  BY <1>1 DEF Sound, ServersOK, Carries
<1>3. Stands(p, "idle", None, 0, NoState)
  BY <1>1, EndStands DEF Sound
<1>4. Grows
  BY <1>1, GrowsAtRest
<1>5. ServersOK'
  <2>1. Carries("idle", None, 0, NoState)'
    BY DEF Carries, Webhook, Buying
  <2> QED BY <1>3, <1>4, <2>1, ServersStep DEF Step
<1>6. StripeOK' /\ NamesOK'
  <2>1. Creating' \subseteq Creating
    BY <1>3, NoneCreates
  <2> QED BY <1>1, <2>1, StripeRests DEF Sound, StripeOK
<1>7. TablesOK'
  <2>1. "FREE" \in Plan /\ 0 \in Time
    BY BoundTypes DEF Plan, Time
  <2> QED BY <1>1, <1>2, <2>1, WrittenPlan
<1> QED BY <1>5, <1>6, <1>7 DEF Sound

LEMMA UpdateUserPlanSound ==
  ASSUME Sound, NEW u \in User, NEW pl \in Plan, NEW t \in Time, UpdateUserPlan(u, pl, t)
  PROVE  Sound'
<1>1. /\ WritePlan(u, pl, t)
      /\ UNCHANGED <<now, customer, row, made, offers, sub, log, acked, locals>>
  BY DEF UpdateUserPlan, stripe
<1>2. ServersOK'
  BY <1>1, GrowsAtRest, ServersRest
<1>3. StripeOK' /\ NamesOK'
  <2>1. Creating' \subseteq Creating
    BY <1>1 DEF locals, Creating
  <2> QED BY <1>1, <2>1, StripeRests DEF Sound, StripeOK
<1>4. TablesOK'
  BY <1>1, WrittenPlan
<1> QED BY <1>2, <1>3, <1>4 DEF Sound

LEMMA CheckoutSound ==
  ASSUME Sound, NEW p \in Handler, NEW u \in User, NEW pl \in Paid, Checkout(p, u, pl)
  PROVE  Sound'
<1> DEFINE g == [NoState EXCEPT !.sub = customer[u]]
           step == IF customer[u] # 0 THEN "openSession" ELSE "newCustomer"
<1>1. /\ customer[u] = 0 => Len(made) + Cardinality(Creating) < MaxCustomers
      /\ Take(p, u, pl, g, step)
      /\ UNCHANGED <<now, plan, expires, customer, row, made, offers, sub, log, acked>>
  BY DEF Checkout, users, stripe, Creating
<1>2. g.sub = customer[u]
  BY DEF NoState
<1>3. \/ step = "openSession" /\ customer[u] # 0
      \/ step = "newCustomer" /\ customer[u] = 0
  OBVIOUS
<1>4. customer[u] # 0 => customer[u] \in DOMAIN made /\ made[customer[u]] = u
  BY DEF Sound, TablesOK
<1> HIDE DEF g, step
<1>5. Carries(step, u, pl, g)
  BY <1>2, <1>3, <1>4 DEF Carries, Webhook, Buying
<1>6. PICK s, h : s = step /\ h = g
  OBVIOUS
<1>7. Stands(p, s, u, pl, h) /\ pc[p] = "idle"
  BY <1>1, <1>6, TakeStands DEF Sound
<1>8. Grows
  BY <1>1, GrowsAtRest
<1>9. ServersOK'
  <2>1. Carries(s, u, pl, h)'
    BY <1>5, <1>6, <1>8, StillCarries
  <2>2. s \in Step /\ u \in User \cup {None}
    BY <1>3, <1>6 DEF Step
  <2> QED BY <1>7, <1>8, <2>1, <2>2, ServersStep
<1>10. StripeOK' /\ NamesOK'
  <2>1. CASE s # "newCustomer"
    <3>1. Creating' \subseteq Creating
      BY <1>7, <2>1, NoneCreates
    <3> QED BY <1>1, <3>1, StripeRests DEF Sound, StripeOK
  <2>2. CASE s = "newCustomer"
    <3>1. Len(made) + Cardinality(Creating) < MaxCustomers
      BY <1>1, <1>3, <1>6, <2>2
    <3>2. Creating' \subseteq Creating \cup {p}
      BY <1>7 DEF Stands, Creating
    <3>3. Creating \subseteq Handler
      BY DEF Creating
    <3>4. /\ Cardinality(Creating) \in Nat /\ Cardinality(Creating') \in Nat
          /\ Cardinality(Creating') <= Cardinality(Creating) + 1
      <4>1. IsFiniteSet(Creating)
        BY <3>3, BoundTypes, NoMore
      <4> QED BY <3>2, <4>1, OneMore
    <3>5. Len(made) \in Nat
      BY LenProperties DEF Sound, StripeOK
    <3>6. Len(made)' + Cardinality(Creating)' <= MaxCustomers
      BY <1>1, <3>1, <3>4, <3>5, BoundTypes
    <3> QED BY <1>1, <3>6 DEF Sound, StripeOK, NamesOK
  <2> QED BY <2>1, <2>2
<1>11. TablesOK'
  BY <1>1 DEF Sound, TablesOK
<1> QED BY <1>9, <1>10, <1>11 DEF Sound

LEMMA NewCustomerSound ==
  ASSUME Sound, NEW p \in Handler, NewCustomer(p)
  PROVE  Sound'
<1> DEFINE g == [NoState EXCEPT !.sub = Len(made) + 1]
<1>1. /\ pc[p] = "newCustomer" /\ made' = Append(made, usr[p])
      /\ Proceed(p, "saveCustomer", g)
      /\ UNCHANGED <<now, plan, expires, customer, row, offers, sub, log, acked>>
  BY DEF NewCustomer, users
<1>2. g.sub = Len(made) + 1
  BY DEF NoState
<1> HIDE DEF g
<1>3. PICK u, a, h : u = usr[p] /\ a = arg[p] /\ h = g
  OBVIOUS
<1>4. u \in User /\ a \in Paid
  BY <1>1, <1>3 DEF Sound, ServersOK, Carries, Buying
<1>5. Stands(p, "saveCustomer", u, a, h)
  BY <1>1, <1>3, ProceedStands DEF Sound
<1>6. /\ made' \in Seq(User) /\ Len(made') = Len(made) + 1 /\ made'[Len(made) + 1] = u
      /\ DOMAIN made' = 1..(Len(made) + 1)
      /\ \A c \in 1..Len(made) : made'[c] = made[c]
      /\ Len(made) \in Nat /\ DOMAIN made = 1..Len(made)
  <2>1. made \in Seq(User)
    BY DEF Sound, StripeOK
  <2>2. Len(made) \in Nat /\ DOMAIN made = 1..Len(made)
    BY <2>1, SeqDomain
  <2> QED BY <1>1, <1>3, <1>4, <2>1, <2>2, Appended
<1>7. Grows
  BY <1>1, <1>6, BoundTypes DEF Grows, Sound, TablesOK
<1>8. ServersOK'
  <2>1. h.sub \in DOMAIN made' /\ made'[h.sub] = u
    BY <1>2, <1>3, <1>6
  <2>2. Carries("saveCustomer", u, a, h)'
    BY <1>4, <2>1 DEF Carries, Webhook, Buying
  <2>3. "saveCustomer" \in Step /\ u \in User \cup {None}
    BY <1>4 DEF Step
  <2> QED BY <1>5, <1>7, <2>2, <2>3, ServersStep
<1>9. StripeOK'
  <2>1. Creating' \subseteq Creating \ {p} /\ p \in Creating /\ Creating \subseteq Handler
    BY <1>1, <1>5 DEF Stands, Creating
  <2>2. /\ Cardinality(Creating) \in Nat /\ Cardinality(Creating') \in Nat
        /\ Cardinality(Creating') <= Cardinality(Creating) - 1
    <3>1. IsFiniteSet(Creating)
      BY <2>1, BoundTypes, NoMore
    <3> QED BY <2>1, <3>1, OneLess
  <2>3. Len(made) + Cardinality(Creating) <= MaxCustomers
    BY DEF Sound, StripeOK
  <2>4. Len(made') + Cardinality(Creating') <= MaxCustomers
    BY <1>6, <2>2, <2>3, BoundTypes
  <2> QED BY <1>1, <1>6, <2>4 DEF Sound, StripeOK
<1>10. NamesOK'
  BY <1>1 DEF Sound, NamesOK
<1>11. TablesOK'
  BY <1>1, <1>6 DEF Sound, TablesOK
<1> QED BY <1>8, <1>9, <1>10, <1>11 DEF Sound

LEMMA SaveCustomerSound ==
  ASSUME Sound, NEW p \in Handler, SaveCustomer(p)
  PROVE  Sound'
<1>1. /\ pc[p] = "saveCustomer" /\ customer' = [customer EXCEPT ![usr[p]] = got[p].sub]
      /\ Proceed(p, "openSession", got[p])
      /\ UNCHANGED <<now, plan, expires, row, made, offers, sub, log, acked>>
  BY DEF SaveCustomer, stripe
<1>2. PICK u, a, h : u = usr[p] /\ a = arg[p] /\ h = got[p]
  OBVIOUS
<1>3. u \in User /\ Carries("saveCustomer", u, a, h)
  BY <1>1, <1>2 DEF Sound, ServersOK, Carries
<1>4. Stands(p, "openSession", u, a, h)
  BY <1>1, <1>2, ProceedStands DEF Sound
<1>5. Grows
  BY <1>1, GrowsAtRest
<1>6. ServersOK'
  <2>1. Carries("openSession", u, a, h)
    BY <1>3 DEF Carries, Webhook, Buying
  <2>2. Carries("openSession", u, a, h)'
    BY <1>5, <2>1, StillCarries
  <2>3. "openSession" \in Step /\ u \in User \cup {None}
    BY <1>3 DEF Step
  <2> QED BY <1>4, <1>5, <2>2, <2>3, ServersStep
<1>7. StripeOK' /\ NamesOK'
  <2>1. Creating' \subseteq Creating
    BY <1>4, NoneCreates
  <2> QED BY <1>1, <2>1, StripeRests DEF Sound, StripeOK
<1>8. TablesOK'
  <2>1. h.sub \in DOMAIN made /\ made[h.sub] = u
    BY <1>3 DEF Carries
  <2>2. h.sub \in 0..MaxCustomers
    <3>1. /\ made \in Seq(User) /\ Len(made) + Cardinality(Creating) <= MaxCustomers
          /\ Creating \subseteq Handler
      BY DEF Sound, StripeOK, Creating
    <3>2. Len(made) \in Nat /\ DOMAIN made = 1..Len(made) /\ Cardinality(Creating) \in Nat
      BY <3>1, SeqDomain, BoundTypes, NoMore
    <3> QED BY <2>1, <3>1, <3>2, BoundTypes
  <2>3. customer' = [customer EXCEPT ![u] = h.sub]
    BY <1>1, <1>2
  <2> QED BY ZenonT(40), <1>1, <1>3, <2>1, <2>2, <2>3 DEF Sound, TablesOK
<1> QED BY <1>6, <1>7, <1>8 DEF Sound

LEMMA OpenSessionSound ==
  ASSUME Sound, NEW p \in Handler, OpenSession(p)
  PROVE  Sound'
<1>1. /\ pc[p] = "openSession" /\ End(p)
      /\ offers' = offers \cup {[user |-> usr[p], plan |-> arg[p], cust |-> got[p].sub]}
      /\ UNCHANGED <<now, plan, expires, customer, row, made, sub, log, acked>>
  BY DEF OpenSession, users
<1>2. Stands(p, "idle", None, 0, NoState)
  BY <1>1, EndStands DEF Sound
<1>3. Grows
  BY <1>1, GrowsAtRest
<1>4. ServersOK'
  <2>1. Carries("idle", None, 0, NoState)'
    BY DEF Carries, Webhook, Buying
  <2> QED BY <1>2, <1>3, <2>1, ServersStep DEF Step
<1>5. [user |-> usr[p], plan |-> arg[p], cust |-> got[p].sub]
        \in [user : User, plan : Paid, cust : 1..MaxCustomers]
  <2>1. /\ usr[p] \in User /\ arg[p] \in Paid /\ got[p].sub \in DOMAIN made
    BY <1>1 DEF Sound, ServersOK, Carries, Buying
  <2>2. /\ made \in Seq(User) /\ Len(made) + Cardinality(Creating) <= MaxCustomers
        /\ Creating \subseteq Handler
    BY DEF Sound, StripeOK, Creating
  <2>3. Len(made) \in Nat /\ DOMAIN made = 1..Len(made) /\ Cardinality(Creating) \in Nat
    BY <2>2, SeqDomain, BoundTypes, NoMore
  <2>4. got[p].sub \in 1..MaxCustomers
    BY <2>1, <2>2, <2>3, BoundTypes
  <2> QED BY <2>1, <2>4
<1>6. StripeOK' /\ NamesOK'
  <2>1. Creating' \subseteq Creating /\ Creating \subseteq Handler
    BY <1>2, NoneCreates DEF Creating
  <2>2. /\ Cardinality(Creating) \in Nat /\ Cardinality(Creating') \in Nat
        /\ Cardinality(Creating') <= Cardinality(Creating)
    <3>1. IsFiniteSet(Creating)
      BY <2>1, BoundTypes, NoMore
    <3> QED BY <2>1, <3>1, NoMore
  <2>3. Len(made) \in Nat /\ Len(made) + Cardinality(Creating) <= MaxCustomers
    BY LenProperties DEF Sound, StripeOK
  <2>4. Len(made)' + Cardinality(Creating)' <= MaxCustomers
    BY <1>1, <2>2, <2>3, BoundTypes
  <2>5. offers' \subseteq [user : User, plan : Paid, cust : 1..MaxCustomers]
    BY <1>1, <1>5 DEF Sound, StripeOK
  <2> QED BY <1>1, <2>4, <2>5 DEF Sound, StripeOK, NamesOK
<1>7. TablesOK'
  BY <1>1 DEF Sound, TablesOK
<1> QED BY <1>4, <1>6, <1>7 DEF Sound

\* What Stripe reports: an event more, of a subscription of its user.
Reported(ev) ==
  /\ Len(log) < MaxEvents
  /\ log' = Append(log, ev) /\ ev \in Event
  /\ ev.state.sub \in DOMAIN sub' /\ sub'[ev.state.sub].user = ev.user
  /\ sub' \in Seq(Subscription) /\ Len(sub') <= MaxSubs
  /\ \A s \in DOMAIN sub : s \in DOMAIN sub' /\ sub'[s].user = sub[s].user
  /\ \A s \in DOMAIN sub' : sub'[s].state.sub = s
  /\ offers' \subseteq offers
  /\ UNCHANGED <<now, plan, expires, customer, row, made, acked, locals>>

LEMMA LogGrows ==
  ASSUME Sound, NEW ev \in Event, log' = Append(log, ev)
  PROVE  /\ log' \in Seq(Event) /\ Len(log') = Len(log) + 1 /\ Len(log) \in Nat
         /\ log'[Len(log) + 1] = ev
         /\ DOMAIN log' = 1..(Len(log) + 1) /\ DOMAIN log = 1..Len(log)
         /\ \A e \in 1..Len(log) : log'[e] = log[e]
<1>1. log \in Seq(Event)
  BY DEF Sound, StripeOK
<1>2. Len(log) \in Nat /\ DOMAIN log = 1..Len(log)
  BY <1>1, SeqDomain
<1> QED BY <1>1, <1>2, Appended

LEMMA ReportedSound ==
  ASSUME Sound, NEW ev, Reported(ev)
  PROVE  Sound'
<1>1. /\ log' \in Seq(Event) /\ Len(log') = Len(log) + 1 /\ Len(log) \in Nat
      /\ log'[Len(log) + 1] = ev
      /\ DOMAIN log' = 1..(Len(log) + 1) /\ DOMAIN log = 1..Len(log)
      /\ \A e \in 1..Len(log) : log'[e] = log[e]
  BY LogGrows DEF Reported
<1>2. Grows
  BY <1>1, BoundTypes DEF Reported, Grows, Sound, TablesOK
<1>3. ServersOK'
  BY <1>2, ServersRest DEF Reported
<1>4. TablesOK'
  BY DEF Sound, TablesOK, Reported
<1>5. StripeOK'
  <2>1. Len(log') <= MaxEvents /\ acked' \subseteq 1..Len(log')
    BY <1>1, BoundTypes DEF Reported, Sound, StripeOK
  <2>2. Creating' = Creating
    BY DEF Reported, Creating, locals
  <2> QED BY <1>1, <2>1, <2>2 DEF Reported, Sound, StripeOK
<1>6. NamesOK'
  <2>1. ASSUME NEW e \in DOMAIN log'
        PROVE  log'[e].state.sub \in DOMAIN sub' /\ sub'[log'[e].state.sub].user = log'[e].user
    <3>1. CASE e = Len(log) + 1
      BY <1>1, <3>1 DEF Reported
    <3>2. CASE e \in 1..Len(log)
      <4>1. /\ log'[e] = log[e]
            /\ log[e].state.sub \in DOMAIN sub /\ sub[log[e].state.sub].user = log[e].user
        BY <1>1, <3>2 DEF Sound, NamesOK
      <4> QED BY <4>1 DEF Reported
    <3> QED BY <1>1, <2>1, <3>1, <3>2
  <2> QED BY <2>1 DEF NamesOK, Reported
<1> QED BY <1>3, <1>4, <1>5, <1>6 DEF Sound

LEMMA PayReports ==
  ASSUME Sound, NEW o \in offers, Pay(o)
  PROVE  \E st \in State :
           /\ st.sub = Len(sub) + 1 /\ st.status = "active"
           /\ sub' = Append(sub, [user |-> o.user, plan |-> o.plan, cust |-> o.cust, state |-> st])
           /\ o.user \in User
           /\ Reported([kind |-> "completed", user |-> o.user, state |-> st])
<1> DEFINE st == [sub |-> Len(sub) + 1, status |-> "active", end |-> PeriodEnd, cancel |-> FALSE]
           s == [user |-> o.user, plan |-> o.plan, cust |-> o.cust, state |-> st]
           ev == [kind |-> "completed", user |-> o.user, state |-> st]
<1>1. /\ Len(sub) < MaxSubs /\ sub' = Append(sub, s) /\ offers' = offers \ {o}
      /\ Len(log) < MaxEvents /\ log' = Append(log, ev)
      /\ UNCHANGED <<now, plan, expires, customer, row, made, acked, locals>>
  BY DEF Pay, Report, users
<1>2. o \in [user : User, plan : Paid, cust : 1..MaxCustomers]
  BY DEF Sound, StripeOK
<1>3. Len(sub) \in Nat /\ DOMAIN sub = 1..Len(sub) /\ sub \in Seq(Subscription)
  BY SeqDomain DEF Sound, StripeOK
<1>4. st \in State
  <2>1. Len(sub) + 1 \in 0..MaxSubs
    BY <1>1, <1>3, BoundTypes
  <2>2. PeriodEnd \in Time
    BY BoundTypes DEF PeriodEnd, Time, Sound, TablesOK
  <2> QED BY <2>1, <2>2 DEF State, Status
<1>5. /\ st.sub = Len(sub) + 1 /\ st.status = "active"
      /\ s.user = o.user /\ s.state = st /\ ev.user = o.user /\ ev.state = st
  OBVIOUS
<1>6. s \in Subscription /\ ev \in Event
  BY <1>2, <1>4 DEF Subscription, Event
<1> HIDE DEF st, s, ev
<1>7. /\ sub' \in Seq(Subscription) /\ Len(sub') = Len(sub) + 1 /\ sub'[Len(sub) + 1] = s
      /\ DOMAIN sub' = 1..(Len(sub) + 1)
      /\ \A i \in 1..Len(sub) : sub'[i] = sub[i]
  BY <1>1, <1>3, <1>6, Appended
<1>8. Len(sub') <= MaxSubs
  BY <1>1, <1>3, <1>7, BoundTypes
<1>9. \A i \in DOMAIN sub : i \in DOMAIN sub' /\ sub'[i].user = sub[i].user
  BY <1>3, <1>7
<1>10. \A i \in DOMAIN sub' : sub'[i].state.sub = i
  BY <1>3, <1>5, <1>7 DEF Sound, NamesOK
<1>11. Reported(ev)
  BY <1>1, <1>3, <1>5, <1>6, <1>7, <1>8, <1>9, <1>10 DEF Reported
<1> QED BY <1>1, <1>2, <1>4, <1>5, <1>11 DEF s, ev

\* A subscription that has not ended changes, and if it ends it is said to be deleted.
Turns(s) ==
  \E kind \in {"updated", "deleted"}, st \in State :
    Change(s, kind, st) /\ st.sub = s /\ (kind = "deleted" <=> st.status = "canceled")

LEMMA ChangesTurn ==
  ASSUME Sound, NEW s \in DOMAIN sub,
         \/ \E status \in {"active", "past_due"} : Renew(s, status)
         \/ Settle(s) \/ Cancel(s) \/ \E u \in User : BillingPortal(u, s)
  PROVE  Turns(s)
<1>1. sub[s].state \in State /\ sub[s].state.sub = s
  <2>1. sub \in Seq(Subscription)
    BY DEF Sound, StripeOK
  <2>2. sub[s] \in Subscription
    BY <2>1, SeqDomain
  <2> QED BY <2>2 DEF Subscription, Sound, NamesOK
<1> DEFINE old == sub[s].state
<1>2. CASE \E status \in {"active", "past_due"} : Renew(s, status)
  <2>1. PICK status \in {"active", "past_due"} : Renew(s, status)
    BY <1>2
  <2> DEFINE st == [old EXCEPT !.end = PeriodEnd, !.status = status]
  <2>2. Change(s, "updated", st)
    BY <2>1 DEF Renew
  <2>3. PeriodEnd \in Time
    BY BoundTypes DEF PeriodEnd, Time, Sound, TablesOK
  <2>4. st \in State /\ st.sub = s /\ st.status = status
    BY <1>1, <2>3 DEF State, Status
  <2> QED BY <2>2, <2>4 DEF Turns
<1>3. CASE Settle(s)
  <2> DEFINE st == [old EXCEPT !.status = "active"]
  <2>1. Change(s, "updated", st)
    BY <1>3 DEF Settle
  <2>2. st \in State /\ st.sub = s /\ st.status = "active"
    BY <1>1 DEF State, Status
  <2> QED BY <2>1, <2>2 DEF Turns
<1>4. CASE Cancel(s)
  <2> DEFINE st == [old EXCEPT !.status = "canceled"]
  <2>1. Change(s, "deleted", st)
    BY <1>4 DEF Cancel
  <2>2. st \in State /\ st.sub = s /\ st.status = "canceled"
    BY <1>1 DEF State, Status
  <2> QED BY <2>1, <2>2 DEF Turns
<1>5. CASE \E u \in User : BillingPortal(u, s)
  <2> DEFINE st == [old EXCEPT !.cancel = ~@]
  <2>1. Change(s, "updated", st)
    BY <1>5 DEF BillingPortal
  <2>2. st \in State
    <3>1. (~old.cancel) \in BOOLEAN
      OBVIOUS
    <3> HIDE DEF old
    <3> QED BY <1>1, <3>1 DEF State, old
  <2>3. st.sub = s /\ st.status = old.status
    BY <1>1 DEF State
  <2>4. old.status # "canceled"
    BY <2>1 DEF Change
  <2> QED BY <2>1, <2>2, <2>3, <2>4 DEF Turns
<1> QED BY <1>2, <1>3, <1>4, <1>5

LEMMA ChangeReports ==
  ASSUME Sound, NEW s \in DOMAIN sub, NEW kind \in {"updated", "deleted"}, NEW st \in State,
         Change(s, kind, st), st.sub = s
  PROVE  /\ sub[s].user \in User /\ DOMAIN sub' = DOMAIN sub
         /\ sub'[s].state = st /\ sub'[s].user = sub[s].user /\ sub'[s].plan = sub[s].plan
         /\ \A t \in DOMAIN sub : t # s => sub'[t] = sub[t]
         /\ Reported([kind |-> kind, user |-> sub[s].user, state |-> st])
<1> DEFINE ev == [kind |-> kind, user |-> sub[s].user, state |-> st]
<1>1. /\ sub' = [sub EXCEPT ![s].state = st]
      /\ Len(log) < MaxEvents /\ log' = Append(log, ev)
      /\ UNCHANGED <<now, plan, expires, customer, row, made, offers, acked, locals>>
  BY DEF Change, Report, users
<1>2. /\ Len(sub) \in Nat /\ DOMAIN sub = 1..Len(sub) /\ sub \in Seq(Subscription)
      /\ Len(sub) <= MaxSubs /\ \A t \in DOMAIN sub : sub[t] \in Subscription
  BY SeqDomain DEF Sound, StripeOK
<1> DEFINE new == [sub[s] EXCEPT !.state = st]
<1>3. /\ new \in Subscription /\ new.state = st
      /\ new.user = sub[s].user /\ new.plan = sub[s].plan
  BY <1>2 DEF Subscription
<1>4. sub' = [sub EXCEPT ![s] = new]
  BY <1>1
<1>5. ev \in Event /\ ev.state = st /\ ev.user = sub[s].user /\ sub[s].user \in User
  BY <1>2 DEF Event, Subscription
<1> HIDE DEF new, ev
<1>6. /\ sub' \in Seq(Subscription) /\ Len(sub') = Len(sub) /\ DOMAIN sub' = DOMAIN sub
      /\ sub'[s] = new
      /\ \A t \in DOMAIN sub : t # s => sub'[t] = sub[t]
  BY <1>2, <1>3, <1>4, ExceptSeq
<1>7. \A t \in DOMAIN sub' : sub'[t].state.sub = t /\ sub'[t].user = sub[t].user
  BY <1>3, <1>6 DEF Sound, NamesOK
<1>8. Reported(ev)
  BY <1>1, <1>2, <1>3, <1>5, <1>6, <1>7 DEF Reported
<1> QED BY <1>3, <1>5, <1>6, <1>8 DEF ev

LEMMA HandleWebhookSound ==
  ASSUME Sound, NEW p \in Handler, NEW e \in DOMAIN log, HandleWebhook(p, e)
  PROVE  Sound'
<1>1. /\ Take(p, log[e].user, e, log[e].state, FirstQuery(log[e]))
      /\ UNCHANGED <<now, plan, expires, customer, row, made, offers, sub, log, acked>>
  BY DEF HandleWebhook, users, stripe
<1>2. PICK u, g, step : u = log[e].user /\ g = log[e].state /\ step = FirstQuery(log[e])
  OBVIOUS
<1>3. step \in Webhook
  BY <1>2 DEF FirstQuery, Webhook
<1>4. u \in User /\ g \in State
  <2>1. log[e] \in Event
    BY SeqDomain DEF Sound, StripeOK
  <2> QED BY <1>2, <2>1 DEF Event
<1>5. Stands(p, step, u, e, g)
  BY <1>1, <1>2, TakeStands DEF Sound
<1>6. Grows
  BY <1>1, GrowsAtRest
<1>7. ServersOK'
  <2>1. Carries(step, u, e, g)
    BY <1>2, <1>3, <1>4 DEF Carries, Webhook, Buying
  <2>2. Carries(step, u, e, g)'
    BY <1>6, <2>1, StillCarries
  <2>3. step \in Step /\ u \in User \cup {None}
    BY <1>3, <1>4 DEF Step, Webhook
  <2> QED BY <1>5, <1>6, <2>2, <2>3, ServersStep
<1>8. StripeOK' /\ NamesOK'
  <2>1. Creating' \subseteq Creating
    BY <1>3, <1>5, NoneCreates DEF Webhook
  <2> QED BY <1>1, <2>1, StripeRests DEF Sound, StripeOK
<1>9. TablesOK'
  BY <1>1 DEF Sound, TablesOK
<1> QED BY <1>7, <1>8, <1>9 DEF Sound

\* What a handler that serves an event carries.
LEMMA ServerCarries ==
  ASSUME Sound, NEW p \in Handler, pc[p] \in Webhook
  PROVE  /\ usr[p] \in User /\ arg[p] \in DOMAIN log /\ log[arg[p]].user = usr[p]
         /\ got[p] \in State /\ got[p].sub = log[arg[p]].state.sub
         /\ got[p].sub \in DOMAIN sub /\ sub[got[p].sub] \in Subscription
         /\ sub[got[p].sub].user = usr[p] /\ sub[got[p].sub].state.sub = got[p].sub
<1>1. Carries(pc[p], usr[p], arg[p], got[p])
  BY DEF Sound, ServersOK
<1>2. /\ usr[p] \in User /\ arg[p] \in DOMAIN log /\ log[arg[p]].user = usr[p]
      /\ got[p] \in State /\ got[p].sub = log[arg[p]].state.sub
  BY <1>1 DEF Carries, Webhook
<1>3. \A s \in DOMAIN sub : sub[s] \in Subscription
  BY SeqDomain DEF Sound, StripeOK
<1> QED BY <1>2, <1>3 DEF Sound, NamesOK

LEMMA RetrieveSound ==
  ASSUME Sound, NEW p \in Handler, Retrieve(p)
  PROVE  Sound'
<1>1. /\ pc[p] = "retrieve" /\ Proceed(p, "setPlan", sub[got[p].sub].state)
      /\ UNCHANGED <<now, plan, expires, customer, row, made, offers, sub, log, acked>>
  BY DEF Retrieve, users, stripe
<1>2. PICK u, a, g : u = usr[p] /\ a = arg[p] /\ g = sub[got[p].sub].state
  OBVIOUS
<1>3. /\ u \in User /\ a \in DOMAIN log /\ log[a].user = u
      /\ g \in State /\ g.sub = log[a].state.sub
  <2>1. pc[p] \in Webhook
    BY <1>1 DEF Webhook
  <2> QED BY <1>2, <2>1, ServerCarries DEF Subscription
<1>4. Stands(p, "setPlan", u, a, g)
  BY <1>1, <1>2, ProceedStands DEF Sound
<1>5. Grows
  BY <1>1, GrowsAtRest
<1>6. ServersOK'
  <2>1. Carries("setPlan", u, a, g)
    BY <1>3 DEF Carries, Webhook, Buying
  <2>2. Carries("setPlan", u, a, g)'
    BY <1>5, <2>1, StillCarries
  <2> QED BY <1>3, <1>4, <1>5, <2>2, ServersStep DEF Step
<1>7. StripeOK' /\ NamesOK'
  <2>1. Creating' \subseteq Creating
    BY <1>4, NoneCreates
  <2> QED BY <1>1, <2>1, StripeRests DEF Sound, StripeOK
<1>8. TablesOK'
  BY <1>1 DEF Sound, TablesOK
<1> QED BY <1>6, <1>7, <1>8 DEF Sound

LEMMA SetPlanSound ==
  ASSUME Sound, NEW p \in Handler, SetPlan(p)
  PROVE  Sound'
<1>1. /\ pc[p] = "setPlan" /\ Proceed(p, "saveRow", got[p])
      /\ \/ WritePlan(usr[p], "FREE", 0)
         \/ WritePlan(usr[p], sub[got[p].sub].plan, got[p].end)
      /\ UNCHANGED <<now, customer, row, made, offers, sub, log, acked>>
  BY DEF SetPlan, stripe
<1>2. PICK u, a, g : u = usr[p] /\ a = arg[p] /\ g = got[p]
  OBVIOUS
<1>3. /\ u \in User /\ a \in DOMAIN log /\ log[a].user = u
      /\ g \in State /\ g.sub = log[a].state.sub /\ sub[g.sub] \in Subscription
  <2>1. pc[p] \in Webhook
    BY <1>1 DEF Webhook
  <2> QED BY <1>2, <2>1, ServerCarries
<1>4. Stands(p, "saveRow", u, a, g)
  BY <1>1, <1>2, ProceedStands DEF Sound
<1>5. Grows
  BY <1>1, GrowsAtRest
<1>6. ServersOK'
  <2>1. Carries("saveRow", u, a, g)
    BY <1>3 DEF Carries, Webhook, Buying
  <2>2. Carries("saveRow", u, a, g)'
    BY <1>5, <2>1, StillCarries
  <2> QED BY <1>3, <1>4, <1>5, <2>2, ServersStep DEF Step
<1>7. StripeOK' /\ NamesOK'
  <2>1. Creating' \subseteq Creating
    BY <1>4, NoneCreates
  <2> QED BY <1>1, <2>1, StripeRests DEF Sound, StripeOK
<1>8. TablesOK'
  <2>1. "FREE" \in Plan /\ 0 \in Time /\ sub[g.sub].plan \in Plan /\ g.end \in Time
    BY <1>3, BoundTypes DEF Plan, Time, Subscription, State
  <2> QED BY <1>1, <1>2, <1>3, <2>1, WrittenPlan
<1> QED BY <1>6, <1>7, <1>8 DEF Sound

LEMMA SaveRowSound ==
  ASSUME Sound, NEW p \in Handler, SaveRow(p)
  PROVE  Sound'
<1>1. /\ pc[p] = "saveRow" /\ End(p) /\ acked' = acked \cup {arg[p]}
      /\ \/ row' = row
         \/ row' = [row EXCEPT ![usr[p]] = got[p]]
         \/ row' = [row EXCEPT ![usr[p]] = [row[usr[p]] EXCEPT !.status = "canceled"]]
      /\ UNCHANGED <<now, plan, expires, customer, made, offers, sub, log>>
  BY DEF SaveRow
<1>2. usr[p] \in User /\ got[p] \in State /\ arg[p] \in 1..Len(log)
  <2>1. pc[p] \in Webhook
    BY <1>1 DEF Webhook
  <2>2. DOMAIN log = 1..Len(log)
    BY SeqDomain DEF Sound, StripeOK
  <2> QED BY <2>1, <2>2, ServerCarries
<1>3. Stands(p, "idle", None, 0, NoState)
  BY <1>1, EndStands DEF Sound
<1>4. Grows
  BY <1>1, GrowsAtRest
<1>5. ServersOK'
  <2>1. Carries("idle", None, 0, NoState)'
    BY DEF Carries, Webhook, Buying
  <2> QED BY <1>3, <1>4, <2>1, ServersStep DEF Step
<1>6. StripeOK' /\ NamesOK'
  <2>1. Creating' \subseteq Creating
    BY <1>3, NoneCreates
  <2>2. acked' \subseteq 1..Len(log)
    BY <1>1, <1>2 DEF Sound, StripeOK
  <2> QED BY <1>1, <2>1, <2>2, StripeRests
<1>7. TablesOK'
  <2>1. [row[usr[p]] EXCEPT !.status = "canceled"] \in State
    BY ZenonT(40), <1>2 DEF Sound, TablesOK, State, Status
  <2>2. row' \in [User -> State]
    BY <1>1, <1>2, <2>1 DEF Sound, TablesOK
  <2> QED BY <1>1, <2>2 DEF Sound, TablesOK
<1> QED BY <1>5, <1>6, <1>7 DEF Sound

LEMMA TickSound ==
  ASSUME Sound, Tick
  PROVE  Sound'
<1>1. /\ now < MaxTime /\ now' = now + 1
      /\ UNCHANGED <<plan, expires, customer, row, made, offers, sub, log, acked, locals>>
  BY DEF Tick, users, stripe
<1>2. now' \in 0..MaxTime /\ now <= now' /\ now' \in Int
  BY <1>1, BoundTypes DEF Sound, TablesOK
<1>3. ServersOK'
  BY <1>1, <1>2, ServersRest DEF Grows
<1>4. StripeOK' /\ NamesOK'
  <2>1. Creating' \subseteq Creating
    BY <1>1 DEF locals, Creating
  <2> QED BY <1>1, <2>1, StripeRests DEF Sound, StripeOK
<1>5. TablesOK'
  BY <1>1, <1>2 DEF Sound, TablesOK
<1> QED BY <1>3, <1>4, <1>5 DEF Sound

LEMMA RestartSound ==
  ASSUME Sound, Restart
  PROVE  Sound'
<1>1. /\ pc' = [p \in Handler |-> "idle"] /\ usr' = [p \in Handler |-> None]
      /\ arg' = [p \in Handler |-> 0] /\ got' = [p \in Handler |-> NoState]
      /\ UNCHANGED <<now, plan, expires, customer, row, made, offers, sub, log, acked>>
  BY DEF Restart, users, stripe
<1>2. ServersOK'
  BY <1>1 DEF ServersOK, Carries, Step, Webhook, Buying
<1>3. StripeOK' /\ NamesOK'
  <2>1. Creating' \subseteq Creating
    BY <1>1 DEF Creating
  <2> QED BY <1>1, <2>1, StripeRests DEF Sound, StripeOK
<1>4. TablesOK'
  BY <1>1 DEF Sound, TablesOK
<1> QED BY <1>2, <1>3, <1>4 DEF Sound

LEMMA RestSound ==
  ASSUME Sound, UNCHANGED planVars
  PROVE  Sound'
<1>1. UNCHANGED <<now, plan, expires, customer, row, made, offers, sub, log, acked, locals>>
  BY DEF planVars, users, stripe
<1>2. ServersOK'
  BY <1>1, GrowsAtRest, ServersRest
<1>3. StripeOK' /\ NamesOK'
  <2>1. Creating' \subseteq Creating
    BY <1>1 DEF locals, Creating
  <2> QED BY <1>1, <2>1, StripeRests DEF Sound, StripeOK
<1>4. TablesOK'
  BY <1>1 DEF Sound, TablesOK
<1> QED BY <1>2, <1>3, <1>4 DEF Sound

\* The actions, a change of a subscription taken as one.
PlanStep ==
  \/ \E p \in Handler, u \in User :
       FindExpired(p, u) \/ \E pl \in Paid : Checkout(p, u, pl)
  \/ \E p \in Handler :
       \/ Downgrade(p) \/ NewCustomer(p) \/ SaveCustomer(p) \/ OpenSession(p)
       \/ Retrieve(p) \/ SetPlan(p) \/ SaveRow(p)
       \/ \E e \in DOMAIN log : HandleWebhook(p, e)
  \/ \E u \in User, pl \in Plan, t \in Time : UpdateUserPlan(u, pl, t)
  \/ \E o \in offers : Pay(o)
  \/ \E s \in DOMAIN sub : Turns(s)
  \/ Tick \/ Restart \/ UNCHANGED planVars

LEMMA StepIsPlanStep == Sound /\ [PlansNext]_planVars => PlanStep
BY ChangesTurn DEF PlansNext, PlanStep, GetUserPlan, GetPlan

LEMMA SoundStep == Sound /\ [PlansNext]_planVars => Sound'
<1> SUFFICES ASSUME Sound, PlanStep PROVE Sound'
  BY StepIsPlanStep
<1>1. ASSUME NEW o \in offers, Pay(o) PROVE Sound'
  <2>1. PICK st \in State : Reported([kind |-> "completed", user |-> o.user, state |-> st])
    BY <1>1, PayReports
  <2> QED BY <2>1, ReportedSound
<1>2. ASSUME NEW s \in DOMAIN sub, Turns(s) PROVE Sound'
  <2>1. PICK kind \in {"updated", "deleted"}, st \in State : Change(s, kind, st) /\ st.sub = s
    BY <1>2 DEF Turns
  <2>2. Reported([kind |-> kind, user |-> sub[s].user, state |-> st])
    BY <2>1, ChangeReports
  <2> QED BY <2>2, ReportedSound
<1> QED
  BY <1>1, <1>2, FindExpiredSound, CheckoutSound, DowngradeSound, NewCustomerSound,
     SaveCustomerSound, OpenSessionSound, RetrieveSound, SetPlanSound, SaveRowSound,
     HandleWebhookSound, UpdateUserPlanSound, TickSound, RestartSound, RestSound DEF PlanStep

LEMMA PlansSpecSound == PlansSpec => []Sound
<1>1. PlansInit => Sound
  BY SoundInit
<1>2. Sound /\ [PlansNext]_planVars => Sound'
  BY SoundStep
<1> QED BY <1>1, <1>2, PTL DEF PlansSpec

(***************************************************************************)
(* The tables of the server, what Stripe keeps and what the handlers carry *)
(* keep their types: a handler of the webhook serves an event that Stripe  *)
(* has reported of its user.                                               *)
(***************************************************************************)
THEOREM PlansTypeCorrect == PlansSpec => []PlansTypeOK
<1>1. Sound => PlansTypeOK
  BY SoundTypes
<1> QED BY <1>1, PlansSpecSound, PTL

-----------------------------------------------------------------------------
(* Who pays has the plan: for a user to whom nothing has happened that may *)
(* cost him his plan.                                                      *)

\* The events of a user, the last of them, and the last of the acknowledged.
Of(u) == {e \in DOMAIN log : log[e].user = u}
Newest(u, e) == e \in Of(u) /\ \A d \in Of(u) : d <= e
NewestAcked(u, e) == e \in Of(u) \cap acked /\ \A d \in Of(u) \cap acked : d <= e

\* A handler that serves an event of the user.
Serves(p, u) == pc[p] \in Webhook /\ usr[p] = u

\* The last event tells how the last subscription is, and the others have ended.
LastTells(u) ==
  /\ \A e : Newest(u, e) =>
       /\ sub[log[e].state.sub].state = log[e].state
       /\ log[e].kind = "deleted" <=> log[e].state.status = "canceled"
       /\ \A s \in DOMAIN sub :
            sub[s].user = u /\ s # log[e].state.sub => sub[s].state.status = "canceled"
  /\ Of(u) = {} => \A s \in DOMAIN sub : sub[s].user # u
  /\ Of(u) # {} => \E e : Newest(u, e)

\* What is not the first event of a subscription comes after one of the same.
Continues(u) ==
  \A e \in Of(u) : log[e].kind # "completed" =>
    \E d \in Of(u) : /\ d < e /\ log[d].state.sub = log[e].state.sub
                     /\ \A c \in Of(u) : c < e => c <= d

\* The events are served one by one and in order.
ServedInOrder(u) ==
  /\ \A d \in Of(u) \cap acked, e \in Of(u) \ acked : d < e
  /\ \A p \in Handler : Serves(p, u) =>
       /\ arg[p] \in Of(u) \ acked /\ \A e \in Of(u) \ acked : arg[p] <= e
       /\ Newest(u, arg[p]) => got[p] = log[arg[p]].state
  /\ \A p, q \in Handler : Serves(p, u) /\ Serves(q, u) => p = q

\* The plan is the one that event e gives, or it has been taken when it ended.
PlanAfter(u, e) ==
  /\ log[e].kind = "deleted" => plan[u] = "FREE"
  /\ log[e].state.status = "active" =>
       \/ plan[u] = sub[log[e].state.sub].plan /\ expires[u] = log[e].state.end
       \/ log[e].state.end <= now

Written(u) ==
  /\ \A e : NewestAcked(u, e) => row[u].sub = log[e].state.sub
  /\ \A e : Newest(u, e) /\ e \in acked =>
       PlanAfter(u, e) /\ (log[e].kind # "deleted" => row[u] = log[e].state)
  /\ \A p \in Handler : Serves(p, u) /\ pc[p] = "saveRow" /\ Newest(u, arg[p]) =>
       PlanAfter(u, arg[p])
  /\ Of(u) = {} => plan[u] = "FREE"

Follows(u) == LastTells(u) /\ Continues(u) /\ ServedInOrder(u) /\ Written(u)

FollowInv == Sound /\ \A u \in User : Undisturbed(u) => Follows(u)

\* Nothing happens to user u, except perhaps that a plan is taken that has ended.
Aside(u) ==
  /\ Of(u)' = Of(u) /\ \A e \in Of(u) : log'[e] = log[e]
  /\ \A s \in DOMAIN sub : sub[s].user = u => s \in DOMAIN sub' /\ sub'[s] = sub[s]
  /\ \A s \in DOMAIN sub' : sub'[s].user = u => s \in DOMAIN sub /\ sub[s].user = u
  /\ Of(u) \cap acked' = Of(u) \cap acked
  /\ row'[u] = row[u] /\ now' \in Int /\ now <= now'
  /\ \A p \in Handler : Serves(p, u)' =>
       Serves(p, u) /\ pc'[p] = pc[p] /\ arg'[p] = arg[p] /\ got'[p] = got[p]
  /\ \/ plan'[u] = plan[u] /\ expires'[u] = expires[u]
     \/ plan'[u] = "FREE" /\ expires[u] <= now

\* The events of a user and the subscriptions they name.
LEMMA OwnEvents ==
  ASSUME Sound, NEW u, NEW e \in Of(u)
  PROVE  /\ e \in Int /\ e \in DOMAIN log /\ log[e] \in Event
         /\ log[e].state.sub \in DOMAIN sub /\ sub[log[e].state.sub].user = u
         /\ log[e].state.end \in Int /\ log[e].user = u
<1>1. log \in Seq(Event)
  BY DEF Sound, StripeOK
<1>2. e \in DOMAIN log /\ log[e].user = u
  BY DEF Of
<1>3. e \in Int /\ log[e] \in Event
  BY <1>1, <1>2, SeqDomain
<1>4. log[e].state.end \in Int
  BY <1>3, BoundTypes DEF Event, State, Time
<1> QED BY <1>2, <1>3, <1>4 DEF Sound, NamesOK

LEMMA AsidePlan ==
  ASSUME Sound, NEW u \in User, Aside(u), NEW e \in Of(u), PlanAfter(u, e)
  PROVE  PlanAfter(u, e)'
<1>1. /\ log'[e] = log[e] /\ sub'[log[e].state.sub] = sub[log[e].state.sub]
      /\ log[e].state.end \in Int
  BY OwnEvents DEF Aside
<1>2. now \in Int /\ now' \in Int /\ now <= now'
  BY BoundTypes DEF Sound, TablesOK, Aside
<1>3. \/ plan'[u] = plan[u] /\ expires'[u] = expires[u]
      \/ plan'[u] = "FREE" /\ expires[u] <= now
  BY DEF Aside
<1>4. log[e].kind = "deleted" => plan'[u] = "FREE"
  BY <1>3 DEF PlanAfter
<1>5. ASSUME log[e].state.status = "active"
      PROVE  \/ plan'[u] = sub[log[e].state.sub].plan /\ expires'[u] = log[e].state.end
             \/ log[e].state.end <= now'
  <2>1. CASE log[e].state.end <= now
    BY <1>1, <1>2, <2>1
  <2>2. CASE plan[u] = sub[log[e].state.sub].plan /\ expires[u] = log[e].state.end
    BY <1>1, <1>2, <1>3, <2>2
  <2> QED BY <1>5, <2>1, <2>2 DEF PlanAfter
<1> QED BY <1>1, <1>4, <1>5 DEF PlanAfter

LEMMA AsideKeeps ==
  ASSUME Sound, NEW u \in User, Follows(u), Aside(u)
  PROVE  Follows(u)'
<1>1. /\ Of(u)' = Of(u) /\ \A e \in Of(u) : log'[e] = log[e]
      /\ \A s \in DOMAIN sub : sub[s].user = u => s \in DOMAIN sub' /\ sub'[s] = sub[s]
      /\ \A s \in DOMAIN sub' : sub'[s].user = u => s \in DOMAIN sub /\ sub[s].user = u
      /\ Of(u) \cap acked' = Of(u) \cap acked /\ row'[u] = row[u]
      /\ \A p \in Handler : Serves(p, u)' =>
           Serves(p, u) /\ pc'[p] = pc[p] /\ arg'[p] = arg[p] /\ got'[p] = got[p]
      /\ plan[u] = "FREE" => plan'[u] = "FREE"
  BY DEF Aside
<1>2. \A e \in Of(u) : log[e].state.sub \in DOMAIN sub /\ sub[log[e].state.sub].user = u
  BY OwnEvents
<1>3. \A e : Newest(u, e)' <=> Newest(u, e)
  BY <1>1 DEF Newest
<1>4. \A e : NewestAcked(u, e)' <=> NewestAcked(u, e)
  BY <1>1 DEF NewestAcked
<1>5. LastTells(u)'
  BY <1>1, <1>2, <1>3 DEF LastTells, Follows, Newest
<1>6. Continues(u)'
  BY <1>1 DEF Continues, Follows
<1>7. ServedInOrder(u)'
  <2>1. \A d \in Of(u) \cap acked', e \in Of(u) \ acked' : d < e
    BY <1>1 DEF ServedInOrder, Follows
  <2>2. ASSUME NEW p \in Handler, Serves(p, u)'
        PROVE  /\ arg'[p] \in Of(u) \ acked' /\ \A e \in Of(u) \ acked' : arg'[p] <= e
               /\ Newest(u, arg[p])' => got'[p] = log'[arg'[p]].state
    <3>1. /\ arg[p] \in Of(u) \ acked /\ \A e \in Of(u) \ acked : arg[p] <= e
          /\ Newest(u, arg[p]) => got[p] = log[arg[p]].state
      BY <1>1, <2>2 DEF ServedInOrder, Follows
    <3>2. arg'[p] = arg[p] /\ got'[p] = got[p]
      BY <1>1, <2>2
    <3>3. Newest(u, arg[p])' => Newest(u, arg[p])
      BY <1>1, <3>2 DEF Newest
    <3> QED BY <1>1, <3>1, <3>2, <3>3
  <2>3. \A p, q \in Handler : Serves(p, u)' /\ Serves(q, u)' => p = q
    BY <1>1 DEF ServedInOrder, Follows
  <2> QED BY <1>1, <2>1, <2>2, <2>3 DEF ServedInOrder
<1>8. Written(u)'
  <2>1. \A e : NewestAcked(u, e)' => row'[u].sub = log'[e].state.sub
    BY <1>1, <1>4 DEF Written, Follows, NewestAcked
  <2>2. ASSUME NEW e, Newest(u, e)', e \in acked'
        PROVE  PlanAfter(u, e)' /\ (log'[e].kind # "deleted" => row'[u] = log'[e].state)
    <3>1. Newest(u, e) /\ e \in Of(u) /\ e \in acked
      BY <1>1, <1>3, <2>2 DEF Newest
    <3>2. PlanAfter(u, e) /\ (log[e].kind # "deleted" => row[u] = log[e].state)
      BY <3>1 DEF Written, Follows
    <3> QED BY <1>1, <3>1, <3>2, AsidePlan
  <2>3. ASSUME NEW p \in Handler, Serves(p, u)', pc'[p] = "saveRow", Newest(u, arg[p])'
        PROVE  PlanAfter(u, arg[p])'
    <3>1. PICK e : e = arg[p]
      OBVIOUS
    <3>2. Serves(p, u) /\ pc[p] = "saveRow" /\ arg'[p] = e
      BY <1>1, <2>3, <3>1
    <3>3. Newest(u, e) /\ e \in Of(u)
      BY <1>1, <2>3, <3>2 DEF Newest
    <3>4. PlanAfter(u, e)
      BY <3>1, <3>2, <3>3 DEF Written, Follows
    <3>5. PlanAfter(u, e)'
      BY <3>3, <3>4, AsidePlan
    <3> QED BY <3>2, <3>5
  <2>4. Of(u)' = {} => plan'[u] = "FREE"
    BY <1>1 DEF Written, Follows
  <2> QED BY <2>1, <2>2, <2>3, <2>4 DEF Written
<1> QED BY <1>5, <1>6, <1>7, <1>8 DEF Follows

\* A new event of the user.
LEMMA OwnReportKeeps ==
  ASSUME Sound, NEW u \in User, Follows(u), NEW ev, Reported(ev), ev.user = u,
         sub'[ev.state.sub].state = ev.state,
         ev.kind = "deleted" <=> ev.state.status = "canceled",
         \A s \in DOMAIN sub' :
           sub'[s].user = u /\ s # ev.state.sub => sub'[s].state.status = "canceled",
         ev.kind # "completed" => \E d : Newest(u, d) /\ log[d].state.sub = ev.state.sub
  PROVE  Follows(u)'
<1> DEFINE n == Len(log) + 1
<1>1. /\ log'[n] = ev /\ n \in Int
      /\ DOMAIN log' = 1..n /\ DOMAIN log = 1..(n - 1)
      /\ \A e \in 1..(n - 1) : log'[e] = log[e] /\ e < n
      /\ n \notin acked /\ n >= 1
  <2>1. /\ log' \in Seq(Event) /\ Len(log') = Len(log) + 1 /\ Len(log) \in Nat
        /\ log'[Len(log) + 1] = ev
        /\ DOMAIN log' = 1..(Len(log) + 1) /\ DOMAIN log = 1..Len(log)
        /\ \A e \in 1..Len(log) : log'[e] = log[e]
    BY LogGrows DEF Reported
  <2>2. acked \subseteq 1..Len(log)
    BY DEF Sound, StripeOK
  <2> QED BY <2>1, <2>2
<1> HIDE DEF n
<1>2. PICK m : m = n
  OBVIOUS
<1>3. /\ Of(u)' = Of(u) \cup {m} /\ Of(u) \subseteq 1..(m - 1) /\ m \in Int
      /\ \A e \in Of(u) : log'[e] = log[e] /\ e < m
      /\ log'[m] = ev /\ m \notin Of(u) /\ m \notin acked
  BY <1>1, <1>2 DEF Of
<1>4. UNCHANGED <<now, plan, expires, row, acked, pc, usr, arg, got>>
  BY DEF Reported, locals
<1>5. \A e : Newest(u, e)' <=> e = m
  BY <1>3 DEF Newest
<1>6. \A e : NewestAcked(u, e)' <=> NewestAcked(u, e)
  BY <1>3, <1>4 DEF NewestAcked
<1>7. \A p \in Handler : Serves(p, u)' <=> Serves(p, u)
  BY <1>4 DEF Serves
<1>8. LastTells(u)'
  BY <1>3, <1>5 DEF LastTells
<1>9. Continues(u)'
  <2>1. ASSUME NEW e \in Of(u), log[e].kind # "completed"
        PROVE  \E d \in Of(u)' : /\ d < e /\ log'[d].state.sub = log'[e].state.sub
                                 /\ \A c \in Of(u)' : c < e => c <= d
    <3>1. PICK d \in Of(u) : /\ d < e /\ log[d].state.sub = log[e].state.sub
                             /\ \A c \in Of(u) : c < e => c <= d
      BY <2>1 DEF Continues, Follows
    <3>2. ~(m < e)
      BY <1>3
    <3> QED BY <1>3, <3>1, <3>2
  <2>2. ASSUME ev.kind # "completed"
        PROVE  \E d \in Of(u)' : /\ d < m /\ log'[d].state.sub = log'[m].state.sub
                                 /\ \A c \in Of(u)' : c < m => c <= d
    <3>1. PICK d : Newest(u, d) /\ log[d].state.sub = ev.state.sub
      BY <2>2
    <3>2. d \in Of(u) /\ \A c \in Of(u) : c <= d
      BY <3>1 DEF Newest
    <3> QED BY <1>3, <3>1, <3>2
  <2> QED BY <1>3, <2>1, <2>2 DEF Continues
<1>10. ServedInOrder(u)'
  <2>1. \A d \in Of(u)' \cap acked', e \in Of(u)' \ acked' : d < e
    BY <1>3, <1>4 DEF ServedInOrder, Follows
  <2>2. ASSUME NEW p \in Handler, Serves(p, u)'
        PROVE  /\ arg'[p] \in Of(u)' \ acked' /\ \A e \in Of(u)' \ acked' : arg'[p] <= e
               /\ Newest(u, arg[p])' => got'[p] = log'[arg'[p]].state
    <3>1. /\ arg[p] \in Of(u) \ acked /\ \A e \in Of(u) \ acked : arg[p] <= e
      BY <1>7, <2>2 DEF ServedInOrder, Follows
    <3>2. arg[p] < m /\ arg[p] <= m /\ arg[p] # m
      BY <1>3, <3>1
    <3>3. ~Newest(u, arg[p])'
      BY <1>4, <1>5, <3>2
    <3> QED BY <1>3, <1>4, <3>1, <3>2, <3>3
  <2>3. \A p, q \in Handler : Serves(p, u)' /\ Serves(q, u)' => p = q
    BY <1>7 DEF ServedInOrder, Follows
  <2> QED BY <2>1, <2>2, <2>3 DEF ServedInOrder
<1>11. Written(u)'
  <2>1. \A e : NewestAcked(u, e)' => row'[u].sub = log'[e].state.sub
    BY <1>3, <1>4, <1>6 DEF Written, Follows, NewestAcked
  <2>2. \A e : Newest(u, e)' => e \notin acked'
    BY <1>3, <1>4, <1>5
  <2>3. ASSUME NEW p \in Handler, Serves(p, u)' PROVE ~Newest(u, arg[p])'
    <3>1. arg[p] \in Of(u)
      BY <1>7, <2>3 DEF ServedInOrder, Follows
    <3> QED BY <1>3, <1>4, <1>5, <3>1
  <2>4. Of(u)' # {}
    BY <1>3
  <2> QED BY <2>1, <2>2, <2>3, <2>4 DEF Written
<1> QED BY <1>8, <1>9, <1>10, <1>11 DEF Follows

\* A new event of another user.
LEMMA OtherReportAside ==
  ASSUME Sound, NEW u \in User, NEW ev, Reported(ev), ev.user # u,
         \A s \in DOMAIN sub : sub[s].user = u => sub'[s] = sub[s],
         \A s \in DOMAIN sub' : sub'[s].user = u => s \in DOMAIN sub
  PROVE  Aside(u)
<1>1. /\ log'[Len(log) + 1] = ev /\ Len(log) \in Nat
      /\ DOMAIN log' = 1..(Len(log) + 1) /\ DOMAIN log = 1..Len(log)
      /\ \A e \in 1..Len(log) : log'[e] = log[e]
  BY LogGrows DEF Reported
<1>2. Of(u)' = Of(u) /\ \A e \in Of(u) : log'[e] = log[e]
  BY <1>1 DEF Of
<1>3. UNCHANGED <<now, plan, expires, row, acked, pc, usr, arg, got>>
  BY DEF Reported, locals
<1>4. now' \in Int /\ now <= now'
  BY <1>3, BoundTypes DEF Sound, TablesOK
<1> QED BY <1>2, <1>3, <1>4 DEF Aside, Reported, Serves

LEMMA PayKeeps ==
  ASSUME Sound, NEW u \in User, Follows(u), Undisturbed(u)', NEW o \in offers, Pay(o)
  PROVE  Follows(u)'
<1>1. PICK st \in State :
        /\ st.sub = Len(sub) + 1 /\ st.status = "active"
        /\ sub' = Append(sub, [user |-> o.user, plan |-> o.plan, cust |-> o.cust, state |-> st])
        /\ o.user \in User
        /\ Reported([kind |-> "completed", user |-> o.user, state |-> st])
  BY PayReports
<1> DEFINE ev == [kind |-> "completed", user |-> o.user, state |-> st]
           new == [user |-> o.user, plan |-> o.plan, cust |-> o.cust, state |-> st]
<1>2. /\ ev.kind = "completed" /\ ev.user = o.user /\ ev.state = st
      /\ new.user = o.user /\ new.state = st
  OBVIOUS
<1>3. Reported(ev) /\ sub' = Append(sub, new)
  BY <1>1
<1>4. new \in Subscription
  <2>1. o \in [user : User, plan : Paid, cust : 1..MaxCustomers]
    BY DEF Sound, StripeOK
  <2> QED BY <2>1 DEF Subscription
<1> HIDE DEF ev, new
<1>5. /\ sub'[Len(sub) + 1] = new /\ DOMAIN sub' = 1..(Len(sub) + 1)
      /\ DOMAIN sub = 1..Len(sub) /\ Len(sub) \in Nat
      /\ \A i \in 1..Len(sub) : sub'[i] = sub[i]
  <2>1. sub \in Seq(Subscription)
    BY DEF Sound, StripeOK
  <2> QED BY <1>3, <1>4, <2>1, SeqDomain, Appended
<1>6. CASE o.user = u
  <2>1. Live(u) = {}
    <3>1. Live(u) # {} => <<u, "two">> \in upset'
      BY <1>6 DEF Pay, Upset
    <3> QED BY <3>1 DEF Undisturbed
  <2>2. \A s \in DOMAIN sub' :
          sub'[s].user = u /\ s # ev.state.sub => sub'[s].state.status = "canceled"
    BY <1>1, <1>2, <1>5, <2>1 DEF Live
  <2>3. sub'[ev.state.sub].state = ev.state /\ ev.user = u
    BY <1>1, <1>2, <1>5, <1>6
  <2>4. ev.kind = "deleted" <=> ev.state.status = "canceled"
    BY <1>1, <1>2
  <2> QED BY <1>2, <1>3, <2>2, <2>3, <2>4, OwnReportKeeps
<1>7. CASE o.user # u
  <2>1. Aside(u)
    <3>1. ev.user # u
      BY <1>2, <1>7
    <3>2. \A s \in DOMAIN sub : sub[s].user = u => sub'[s] = sub[s]
      BY <1>5
    <3>3. \A s \in DOMAIN sub' : sub'[s].user = u => s \in DOMAIN sub
      BY <1>2, <1>5, <1>7
    <3> QED BY <1>3, <3>1, <3>2, <3>3, OtherReportAside
  <2> QED BY <2>1, AsideKeeps
<1> QED BY <1>6, <1>7

LEMMA TurnKeeps ==
  ASSUME Sound, NEW u \in User, Follows(u), NEW s \in DOMAIN sub, Turns(s)
  PROVE  Follows(u)'
<1>1. PICK kind \in {"updated", "deleted"}, st \in State :
        Change(s, kind, st) /\ st.sub = s /\ (kind = "deleted" <=> st.status = "canceled")
  BY DEF Turns
<1> DEFINE ev == [kind |-> kind, user |-> sub[s].user, state |-> st]
<1>2. /\ DOMAIN sub' = DOMAIN sub
      /\ sub'[s].state = st /\ sub'[s].user = sub[s].user
      /\ \A t \in DOMAIN sub : t # s => sub'[t] = sub[t]
      /\ Reported(ev)
  BY <1>1, ChangeReports
<1>3. ev.kind = kind /\ ev.user = sub[s].user /\ ev.state = st
  OBVIOUS
<1> HIDE DEF ev
<1>4. CASE sub[s].user = u
  <2>1. Of(u) # {}
    BY <1>4 DEF Follows, LastTells
  <2>2. PICK d : Newest(u, d)
    BY <2>1 DEF Follows, LastTells
  <2>3. sub[s].state.status # "canceled"
    BY <1>1 DEF Change
  <2>4. log[d].state.sub = s
    BY <1>4, <2>2, <2>3 DEF Follows, LastTells
  <2>5. \A t \in DOMAIN sub' :
          sub'[t].user = u /\ t # ev.state.sub => sub'[t].state.status = "canceled"
    <3>1. \A t \in DOMAIN sub : sub[t].user = u /\ t # s => sub[t].state.status = "canceled"
      BY <2>2, <2>4 DEF Follows, LastTells
    <3> QED BY <1>1, <1>2, <1>3, <3>1
  <2>6. sub'[ev.state.sub].state = ev.state /\ ev.user = u
    BY <1>1, <1>2, <1>3, <1>4
  <2>7. ev.kind = "deleted" <=> ev.state.status = "canceled"
    BY <1>1, <1>3
  <2>8. \E c : Newest(u, c) /\ log[c].state.sub = ev.state.sub
    BY <1>1, <1>3, <2>2, <2>4
  <2> QED BY <1>2, <2>5, <2>6, <2>7, <2>8, OwnReportKeeps
<1>5. CASE sub[s].user # u
  <2>1. Aside(u)
    <3>1. ev.user # u
      BY <1>3, <1>5
    <3>2. \A t \in DOMAIN sub : sub[t].user = u => sub'[t] = sub[t]
      BY <1>2, <1>5
    <3>3. \A t \in DOMAIN sub' : sub'[t].user = u => t \in DOMAIN sub
      BY <1>2
    <3> QED BY <1>2, <3>1, <3>2, <3>3, OtherReportAside
  <2> QED BY <2>1, AsideKeeps
<1> QED BY <1>4, <1>5

\* A handler moves that does not come to serve an event of user u.
LEMMA MoveAside ==
  ASSUME Sound, NEW u \in User, NEW p \in Handler, NEW step, NEW v, NEW a, NEW g,
         Stands(p, step, v, a, g), v # u \/ step \notin Webhook,
         UNCHANGED <<now, log, sub>>, Of(u) \cap acked' = Of(u) \cap acked, row'[u] = row[u],
         \/ plan'[u] = plan[u] /\ expires'[u] = expires[u]
         \/ plan'[u] = "FREE" /\ expires[u] <= now
  PROVE  Aside(u)
<1>1. Of(u)' = Of(u)
  BY DEF Of
<1>2. ASSUME NEW q \in Handler, Serves(q, u)'
      PROVE  Serves(q, u) /\ pc'[q] = pc[q] /\ arg'[q] = arg[q] /\ got'[q] = got[q]
  <2>1. q # p
    BY <1>2 DEF Serves, Stands
  <2> QED BY <1>2, <2>1 DEF Serves, Stands
<1>3. now' \in Int /\ now <= now'
  BY BoundTypes DEF Sound, TablesOK
<1> QED BY <1>1, <1>2, <1>3 DEF Aside, Of

LEMMA FindExpiredAside ==
  ASSUME Sound, NEW u \in User, NEW p \in Handler, NEW v \in User, FindExpired(p, v)
  PROVE  Aside(u)
<1>1. /\ Take(p, v, plan[v], [NoState EXCEPT !.end = expires[v]], "downgrade")
      /\ UNCHANGED <<now, plan, expires, row, sub, log, acked>>
  BY DEF FindExpired, users, stripe
<1>2. Stands(p, "downgrade", v, plan[v], [NoState EXCEPT !.end = expires[v]])
  BY <1>1, TakeStands DEF Sound
<1> QED BY <1>1, <1>2, MoveAside DEF Webhook

LEMMA CheckoutAside ==
  ASSUME Sound, NEW u \in User, NEW p \in Handler, NEW v \in User, NEW pl \in Paid,
         Checkout(p, v, pl)
  PROVE  Aside(u)
<1> DEFINE step == IF customer[v] # 0 THEN "openSession" ELSE "newCustomer"
<1>1. /\ Take(p, v, pl, [NoState EXCEPT !.sub = customer[v]], step)
      /\ UNCHANGED <<now, plan, expires, row, sub, log, acked>>
  BY DEF Checkout, users, stripe
<1>2. step \notin Webhook
  BY DEF Webhook
<1> HIDE DEF step
<1>3. Stands(p, step, v, pl, [NoState EXCEPT !.sub = customer[v]])
  BY <1>1, TakeStands DEF Sound
<1> QED BY <1>1, <1>2, <1>3, MoveAside

LEMMA BuyingAside ==
  ASSUME Sound, NEW u \in User, NEW p \in Handler,
         NewCustomer(p) \/ SaveCustomer(p) \/ OpenSession(p)
  PROVE  Aside(u)
<1>1. UNCHANGED <<now, plan, expires, row, sub, log, acked>>
  BY DEF NewCustomer, SaveCustomer, OpenSession, users, stripe
<1>2. \/ \E g : Proceed(p, "saveCustomer", g)
      \/ Proceed(p, "openSession", got[p])
      \/ End(p)
  BY DEF NewCustomer, SaveCustomer, OpenSession
<1>3. CASE \E g : Proceed(p, "saveCustomer", g)
  <2>1. PICK g : Proceed(p, "saveCustomer", g)
    BY <1>3
  <2>2. Stands(p, "saveCustomer", usr[p], arg[p], g)
    BY <2>1, ProceedStands DEF Sound
  <2> QED BY <1>1, <2>2, MoveAside DEF Webhook
<1>4. CASE Proceed(p, "openSession", got[p])
  <2>1. Stands(p, "openSession", usr[p], arg[p], got[p])
    BY <1>4, ProceedStands DEF Sound
  <2> QED BY <1>1, <2>1, MoveAside DEF Webhook
<1>5. CASE End(p)
  <2>1. Stands(p, "idle", None, 0, NoState)
    BY <1>5, EndStands DEF Sound
  <2> QED BY <1>1, <2>1, MoveAside DEF Webhook
<1> QED BY <1>2, <1>3, <1>4, <1>5

\* Who still has the plan that was read loses it when it has ended.
LEMMA DowngradeAside ==
  ASSUME Sound, NEW u \in User, Undisturbed(u)', NEW p \in Handler, Downgrade(p)
  PROVE  Aside(u)
<1>1. /\ pc[p] = "downgrade" /\ WritePlan(usr[p], "FREE", 0) /\ End(p)
      /\ UNCHANGED <<now, row, sub, log, acked>>
  BY DEF Downgrade, stripe
<1>2. Stands(p, "idle", None, 0, NoState)
  BY <1>1, EndStands DEF Sound
<1>3. usr[p] \in User /\ got[p].end <= now
  BY <1>1 DEF Sound, ServersOK, Carries
<1>4. CASE usr[p] = u
  <2>1. expires[u] = got[p].end
    <3>1. expires[u] # got[p].end => <<u, "race">> \in upset'
      BY <1>4 DEF Downgrade, Upset
    <3> QED BY <3>1 DEF Undisturbed
  <2>2. plan'[u] = "FREE"
    BY <1>1, <1>4 DEF WritePlan, Sound, TablesOK
  <2>3. expires[u] <= now
    BY <1>3, <2>1
  <2> QED BY <1>1, <1>2, <2>2, <2>3, MoveAside DEF Webhook
<1>5. CASE usr[p] # u
  <2>1. plan'[u] = plan[u] /\ expires'[u] = expires[u]
    BY <1>1, <1>3, <1>5 DEF WritePlan, Sound, TablesOK
  <2> QED BY <1>1, <1>2, <2>1, MoveAside DEF Webhook
<1> QED BY <1>4, <1>5

\* The other steps move no handler that serves an event.
LEMMA QuietAside ==
  ASSUME Sound, NEW u \in User, Undisturbed(u)',
         \/ \E v \in User, pl \in Plan, t \in Time : UpdateUserPlan(v, pl, t)
         \/ Tick \/ Restart \/ UNCHANGED planVars
  PROVE  Aside(u)
<1>1. /\ UNCHANGED <<row, sub, log, acked>>
      /\ plan'[u] = plan[u] /\ expires'[u] = expires[u]
  <2>1. ASSUME NEW v \in User, NEW pl \in Plan, NEW t \in Time, UpdateUserPlan(v, pl, t)
        PROVE  /\ UNCHANGED <<row, sub, log, acked>>
               /\ plan'[u] = plan[u] /\ expires'[u] = expires[u]
    <3>1. <<v, "admin">> \in upset'
      BY <2>1 DEF UpdateUserPlan, Upset
    <3>2. v # u
      BY <3>1 DEF Undisturbed
    <3> QED BY <2>1, <3>2 DEF UpdateUserPlan, WritePlan, stripe, Sound, TablesOK
  <2> QED BY <2>1 DEF Tick, Restart, planVars, users, stripe
<1>2. now' \in Int /\ now <= now'
  <2>1. now' = now \/ now' = now + 1
    BY DEF UpdateUserPlan, Tick, Restart, planVars
  <2> QED BY <2>1, BoundTypes DEF Sound, TablesOK
<1>3. ASSUME NEW q \in Handler, Serves(q, u)'
      PROVE  Serves(q, u) /\ pc'[q] = pc[q] /\ arg'[q] = arg[q] /\ got'[q] = got[q]
  <2>1. ASSUME Restart PROVE FALSE
    BY <1>3, <2>1 DEF Restart, Serves, Webhook
  <2>2. UNCHANGED <<pc, usr, arg, got>>
    BY <2>1 DEF UpdateUserPlan, Tick, planVars, locals
  <2> QED BY <1>3, <2>2 DEF Serves
<1>4. Of(u)' = Of(u)
  BY <1>1 DEF Of
<1> QED BY <1>1, <1>2, <1>3, <1>4 DEF Aside, Of

-----------------------------------------------------------------------------
(* The webhook, for the user the event is of and for the others.           *)

LEMMA HandleWebhookKeeps ==
  ASSUME Sound, NEW u \in User, Follows(u), Undisturbed(u)',
         NEW p \in Handler, NEW e \in DOMAIN log, HandleWebhook(p, e)
  PROVE  Follows(u)'
<1>1. /\ Take(p, log[e].user, e, log[e].state, FirstQuery(log[e]))
      /\ UNCHANGED <<now, plan, expires, row, sub, log, acked>>
  BY DEF HandleWebhook, users, stripe
<1>2. PICK g, step : g = log[e].state /\ step = FirstQuery(log[e])
  OBVIOUS
<1>3. Stands(p, step, log[e].user, e, g) /\ pc[p] = "idle"
  BY <1>1, <1>2, TakeStands DEF Sound
<1>4. CASE log[e].user # u
  <2>1. Aside(u)
    BY <1>1, <1>3, <1>4, MoveAside
  <2> QED BY <2>1, AsideKeeps
<1>5. CASE log[e].user = u
  <2>1. IsNext(e)
    <3>1. ~IsNext(e) => <<u, "order">> \in upset'
      BY <1>5 DEF HandleWebhook, Upset
    <3> QED BY <3>1 DEF Undisturbed
  <2>2. e \in Of(u) \ acked /\ \A d \in Of(u) \ acked : e <= d /\ ~InFlight(d)
    BY <1>5, <2>1 DEF IsNext, Pending, Of
  <2>3. \A q \in Handler : ~Serves(q, u)
    <3>1. ASSUME NEW q \in Handler, Serves(q, u) PROVE FALSE
      <4>1. arg[q] \in Of(u) \ acked /\ pc[q] \in Webhook
        BY <3>1 DEF Follows, ServedInOrder, Serves
      <4> QED BY <2>2, <4>1 DEF InFlight
    <3> QED BY <3>1
  <2>4. \A q \in Handler : Serves(q, u)' => q = p
    BY <1>3, <2>3 DEF Stands, Serves
  <2>5. Of(u)' = Of(u) /\ \A d : Newest(u, d)' <=> Newest(u, d)
    BY <1>1 DEF Of, Newest
  <2>6. pc'[p] = step /\ arg'[p] = e /\ got'[p] = log[e].state
    BY <1>2, <1>3 DEF Stands
  <2>7. LastTells(u)' /\ Continues(u)'
    BY <1>1, <2>5 DEF Follows, LastTells, Continues
  <2>8. ServedInOrder(u)'
    BY <1>1, <2>2, <2>4, <2>5, <2>6 DEF Follows, ServedInOrder
  <2>9. Written(u)'
    <3>1. PlanAfter(u, e)' \/ step # "saveRow"
      BY <1>1, <1>2 DEF FirstQuery, PlanAfter
    <3>2. \A d : NewestAcked(u, d)' <=> NewestAcked(u, d)
      BY <1>1, <2>5 DEF NewestAcked
    <3>3. \A d : PlanAfter(u, d)' <=> PlanAfter(u, d)
      BY <1>1 DEF PlanAfter
    <3>4. \A q \in Handler : Serves(q, u)' /\ pc'[q] = "saveRow" /\ Newest(u, arg[q])' =>
            PlanAfter(u, arg[q])'
      BY <2>4, <2>6, <3>1
    <3> QED BY <1>1, <2>5, <3>2, <3>3, <3>4 DEF Follows, Written
  <2> QED BY <2>7, <2>8, <2>9 DEF Follows
<1> QED BY <1>4, <1>5

\* The handler of an event of the user goes on with the same event.
LEMMA ServerGoesOn ==
  ASSUME Sound, NEW u \in User, Follows(u), NEW p \in Handler, Serves(p, u),
         NEW step \in Webhook, NEW g, Stands(p, step, u, arg[p], g),
         UNCHANGED <<now, row, sub, log, acked>>,
         Newest(u, arg[p]) => g = log[arg[p]].state,
         Newest(u, arg[p]) /\ step = "saveRow" => PlanAfter(u, arg[p])',
         \/ plan'[u] = plan[u] /\ expires'[u] = expires[u]
         \/ arg[p] \in Of(u) \ acked
  PROVE  Follows(u)'
<1>1. /\ pc'[p] = step /\ arg'[p] = arg[p] /\ got'[p] = g
      /\ \A q \in Handler : Serves(q, u)' <=> Serves(q, u)
      /\ \A q \in Handler : Serves(q, u) => q = p
  <2>1. \A q \in Handler : Serves(q, u) => q = p
    BY DEF Follows, ServedInOrder
  <2> QED BY <2>1 DEF Stands, Serves
<1>2. Of(u)' = Of(u) /\ \A d : Newest(u, d)' <=> Newest(u, d)
  BY DEF Of, Newest
<1>3. \A d : NewestAcked(u, d)' <=> NewestAcked(u, d)
  BY <1>2 DEF NewestAcked
<1>4. arg[p] \in Of(u) \ acked
  BY DEF Follows, ServedInOrder
<1>5. LastTells(u)' /\ Continues(u)'
  BY <1>2 DEF Follows, LastTells, Continues
<1>6. ServedInOrder(u)'
  BY <1>1, <1>2 DEF Follows, ServedInOrder
<1>7. Written(u)'
  <2>1. \A d : Newest(u, d) => d \notin acked
    <3>1. ASSUME NEW d, Newest(u, d), d \in acked PROVE FALSE
      <4>1. d < arg[p]
        BY <1>4, <3>1 DEF Follows, ServedInOrder, Newest
      <4>2. arg[p] <= d /\ d \in Int /\ arg[p] \in Int
        BY <1>4, <3>1, OwnEvents DEF Newest
      <4> QED BY <4>1, <4>2
    <3> QED BY <3>1
  <2>2. \A q \in Handler : Serves(q, u)' /\ pc'[q] = "saveRow" /\ Newest(u, arg[q])' =>
          PlanAfter(u, arg[q])'
    BY <1>1, <1>2
  <2>3. Of(u)' # {}
    BY <1>2, <1>4
  <2> QED BY <1>2, <1>3, <2>1, <2>2, <2>3 DEF Follows, Written
<1> QED BY <1>5, <1>6, <1>7 DEF Follows

LEMMA RetrieveKeeps ==
  ASSUME Sound, NEW u \in User, Follows(u), NEW p \in Handler, Retrieve(p)
  PROVE  Follows(u)'
<1>1. /\ pc[p] = "retrieve" /\ Proceed(p, "setPlan", sub[got[p].sub].state)
      /\ UNCHANGED <<now, plan, expires, row, sub, log, acked>>
  BY DEF Retrieve, users, stripe
<1>2. PICK g : g = sub[got[p].sub].state
  OBVIOUS
<1>3. Stands(p, "setPlan", usr[p], arg[p], g)
  BY <1>1, <1>2, ProceedStands DEF Sound
<1>4. CASE usr[p] # u
  <2>1. Aside(u)
    BY <1>1, <1>3, <1>4, MoveAside
  <2> QED BY <2>1, AsideKeeps
<1>5. CASE usr[p] = u
  <2>1. Serves(p, u) /\ pc[p] \in Webhook
    BY <1>1, <1>5 DEF Serves, Webhook
  <2>2. got[p].sub = log[arg[p]].state.sub
    BY <2>1, ServerCarries
  <2>3. Newest(u, arg[p]) => g = log[arg[p]].state
    BY <1>2, <2>2 DEF Follows, LastTells
  <2>4. Stands(p, "setPlan", u, arg[p], g) /\ "setPlan" \in Webhook /\ "setPlan" # "saveRow"
    BY <1>3, <1>5 DEF Webhook
  <2> QED BY <1>1, <2>1, <2>3, <2>4, ServerGoesOn
<1> QED BY <1>4, <1>5

LEMMA SetPlanKeeps ==
  ASSUME Sound, NEW u \in User, Follows(u), NEW p \in Handler, SetPlan(p)
  PROVE  Follows(u)'
<1>1. /\ pc[p] = "setPlan" /\ Proceed(p, "saveRow", got[p])
      /\ IF log[arg[p]].kind = "deleted" THEN WritePlan(usr[p], "FREE", 0)
         ELSE WritePlan(usr[p], sub[got[p].sub].plan, got[p].end)
      /\ UNCHANGED <<now, row, sub, log, acked>>
  BY DEF SetPlan, stripe
<1>2. PICK g : g = got[p]
  OBVIOUS
<1>3. Stands(p, "saveRow", usr[p], arg[p], g)
  BY <1>1, <1>2, ProceedStands DEF Sound
<1>4. pc[p] \in Webhook
  BY <1>1 DEF Webhook
<1>5. usr[p] \in User /\ g.sub = log[arg[p]].state.sub
  BY <1>2, <1>4, ServerCarries
<1>6. CASE usr[p] # u
  <2>1. plan'[u] = plan[u] /\ expires'[u] = expires[u]
    BY <1>1, <1>5, <1>6 DEF WritePlan, Sound, TablesOK
  <2>2. Aside(u)
    BY <1>1, <1>3, <1>6, <2>1, MoveAside
  <2> QED BY <2>2, AsideKeeps
<1>7. CASE usr[p] = u
  <2>1. Serves(p, u)
    BY <1>4, <1>7 DEF Serves
  <2>2. arg[p] \in Of(u) \ acked /\ (Newest(u, arg[p]) => g = log[arg[p]].state)
    BY <1>2, <2>1 DEF Follows, ServedInOrder
  <2>3. IF log[arg[p]].kind = "deleted" THEN plan'[u] = "FREE"
        ELSE plan'[u] = sub[g.sub].plan /\ expires'[u] = g.end
    BY <1>1, <1>2, <1>7 DEF WritePlan, Sound, TablesOK
  <2>4. Newest(u, arg[p]) => PlanAfter(u, arg[p])'
    <3>1. PICK e : e = arg[p] /\ arg'[p] = e
      BY <1>3 DEF Stands
    <3>2. ASSUME Newest(u, e) PROVE PlanAfter(u, e)'
      <4>1. g = log[e].state /\ sub' = sub /\ log' = log
        BY <1>1, <2>2, <3>1, <3>2
      <4>2. CASE log[e].kind = "deleted"
        <5>1. log[e].state.status = "canceled"
          BY <3>2, <4>2 DEF Follows, LastTells
        <5> QED BY <2>3, <3>1, <4>1, <4>2, <5>1 DEF PlanAfter
      <4>3. CASE log[e].kind # "deleted"
        BY <2>3, <3>1, <4>1, <4>3 DEF PlanAfter
      <4> QED BY <4>2, <4>3
    <3> QED BY <3>1, <3>2
  <2>5. Stands(p, "saveRow", u, arg[p], g) /\ "saveRow" \in Webhook
    BY <1>3, <1>7 DEF Webhook
  <2> QED BY <1>1, <2>1, <2>2, <2>4, <2>5, ServerGoesOn
<1> QED BY <1>6, <1>7

LEMMA SaveRowKeeps ==
  ASSUME Sound, NEW u \in User, Follows(u), NEW p \in Handler, SaveRow(p)
  PROVE  Follows(u)'
<1>1. /\ pc[p] = "saveRow" /\ End(p) /\ acked' = acked \cup {arg[p]}
      /\ UNCHANGED <<now, plan, expires, sub, log>>
  BY DEF SaveRow
<1>2. Stands(p, "idle", None, 0, NoState)
  BY <1>1, EndStands DEF Sound
<1>3. pc[p] \in Webhook
  BY <1>1 DEF Webhook
<1>4. /\ usr[p] \in User /\ arg[p] \in DOMAIN log /\ log[arg[p]].user = usr[p]
      /\ got[p] \in State /\ got[p].sub = log[arg[p]].state.sub
  BY <1>3, ServerCarries
<1>5. CASE usr[p] # u
  <2>1. row'[u] = row[u]
    BY <1>4, <1>5 DEF SaveRow, Sound, TablesOK
  <2>2. Of(u) \cap acked' = Of(u) \cap acked
    BY <1>1, <1>4, <1>5 DEF Of
  <2>3. Aside(u)
    BY <1>1, <1>2, <2>1, <2>2, MoveAside DEF Webhook
  <2> QED BY <2>3, AsideKeeps
<1>6. CASE usr[p] = u
  <2>1. PICK e, g : e = arg[p] /\ g = got[p]
    OBVIOUS
  <2>2. Serves(p, u)
    BY <1>3, <1>6 DEF Serves
  <2>3. /\ e \in Of(u) \ acked /\ \A d \in Of(u) \ acked : e <= d
        /\ \A d \in Of(u) \cap acked : d < e
        /\ \A q \in Handler : Serves(q, u) => q = p
        /\ Newest(u, e) => g = log[e].state
    BY <2>1, <2>2 DEF Follows, ServedInOrder
  <2>4. Of(u)' = Of(u) /\ acked' = acked \cup {e} /\ Of(u) \subseteq Int
    <3>1. \A d \in Of(u) : d \in Int
      BY OwnEvents
    <3> QED BY <1>1, <2>1, <3>1 DEF Of
  <2>5. \A q \in Handler : ~Serves(q, u)'
    BY <1>2, <2>3 DEF Serves, Stands, Webhook
  <2>6. \A d : Newest(u, d)' <=> Newest(u, d)
    BY <1>1, <2>4 DEF Newest
  <2>7. \A d : NewestAcked(u, d)' <=> d = e
    BY <2>3, <2>4 DEF NewestAcked
  <2>8. LastTells(u)' /\ Continues(u)'
    BY <1>1, <2>4, <2>6 DEF Follows, LastTells, Continues
  <2>9. ServedInOrder(u)'
    <3>1. ASSUME NEW c \in Of(u) \cap acked', NEW d \in Of(u) \ acked' PROVE c < d
      <4>1. e < d
        BY <2>3, <2>4
      <4>2. c = e \/ c < e
        BY <2>3, <2>4
      <4> QED BY <2>3, <2>4, <4>1, <4>2
    <3> QED BY <2>4, <2>5, <3>1 DEF ServedInOrder
  <2>10. row'[u].sub = log[e].state.sub /\ (Newest(u, e) /\ log[e].kind # "deleted" => row'[u] = log[e].state)
    <3>1. log[e].kind # "completed" => row[u].sub = g.sub
      <4>1. ASSUME log[e].kind # "completed"
            PROVE  \E d : NewestAcked(u, d) /\ log[d].state.sub = log[e].state.sub
        <5>1. PICK d \in Of(u) : /\ d < e /\ log[d].state.sub = log[e].state.sub
                                 /\ \A c \in Of(u) : c < e => c <= d
          BY <2>3, <4>1 DEF Follows, Continues
        <5>2. d \in acked
          BY <2>3, <2>4, <5>1
        <5>3. NewestAcked(u, d)
          BY <2>3, <5>1, <5>2 DEF NewestAcked
        <5> QED BY <5>1, <5>3
      <4> QED BY <1>4, <2>1, <4>1 DEF Follows, Written
    <3>2. row[u] \in State /\ row \in [User -> State] /\ g \in State /\ g.sub = log[e].state.sub
      BY <1>4, <2>1 DEF Sound, TablesOK
    <3>3. row'[u] = IF log[e].kind = "deleted" THEN [row[u] EXCEPT !.status = "canceled"] ELSE g
      BY <1>6, <2>1, <3>1, <3>2 DEF SaveRow
    <3>4. [row[u] EXCEPT !.status = "canceled"].sub = row[u].sub
      BY <3>2 DEF State
    <3> QED BY <2>3, <3>1, <3>2, <3>3, <3>4
  <2>11. Newest(u, e) => PlanAfter(u, e)
    BY <1>1, <2>1, <2>2 DEF Follows, Written
  <2>12. Written(u)'
    <3>1. ASSUME NEW d, Newest(u, d)', d \in acked'
          PROVE  PlanAfter(u, d)' /\ (log'[d].kind # "deleted" => row'[u] = log'[d].state)
      <4>1. Newest(u, d) /\ d \in Of(u)
        BY <2>6, <3>1 DEF Newest
      <4>2. d = e
        <5>1. e <= d /\ d \in Int /\ e \in Int
          BY <2>3, <2>4, <4>1 DEF Newest
        <5>2. d \in acked => d < e
          BY <2>3, <4>1
        <5> QED BY <2>4, <3>1, <5>1, <5>2
      <4>3. PlanAfter(u, d)' <=> PlanAfter(u, d)
        BY <1>1 DEF PlanAfter
      <4> QED BY <1>1, <2>10, <2>11, <4>1, <4>2, <4>3
    <3>2. Of(u)' # {}
      BY <2>3, <2>4
    <3> QED BY <1>1, <2>5, <2>7, <2>10, <3>1, <3>2 DEF Written
  <2> QED BY <2>8, <2>9, <2>12 DEF Follows
<1> QED BY <1>5, <1>6

LEMMA FollowInit == PlansInit => FollowInv
<1> SUFFICES ASSUME PlansInit, NEW u \in User PROVE Follows(u)
  BY SoundInit DEF FollowInv
<1>1. /\ Of(u) = {} /\ DOMAIN sub = {} /\ plan[u] = "FREE"
      /\ \A p \in Handler : ~Serves(p, u)
  BY DEF PlansInit, Of, Serves, Webhook
<1>2. LastTells(u) /\ Continues(u)
  BY <1>1 DEF LastTells, Continues, Newest
<1>3. ServedInOrder(u)
  BY <1>1 DEF ServedInOrder
<1>4. Written(u)
  BY <1>1 DEF Written, Newest, NewestAcked
<1> QED BY <1>2, <1>3, <1>4 DEF Follows

\* What has happened to a user stays with him.
LEMMA UpsetStays == Sound /\ PlanStep => upset \subseteq upset'
<1>1. ASSUME NEW s \in DOMAIN sub, Turns(s) PROVE upset' = upset
  BY <1>1 DEF Turns, Change
<1> QED BY <1>1 DEF PlanStep, FindExpired, Checkout, Downgrade, NewCustomer, SaveCustomer,
     OpenSession, Retrieve, SetPlan, SaveRow, HandleWebhook, UpdateUserPlan, Pay, Tick, Restart,
     Upset, history, planVars

LEMMA FollowStep == FollowInv /\ [PlansNext]_planVars => FollowInv'
<1> SUFFICES ASSUME FollowInv, [PlansNext]_planVars, NEW u \in User, Undisturbed(u)'
             PROVE  Follows(u)'
  BY SoundStep DEF FollowInv
<1>1. Sound /\ PlanStep
  BY StepIsPlanStep DEF FollowInv
<1>2. Follows(u)
  <2>1. Undisturbed(u)
    BY <1>1, UpsetStays DEF Undisturbed
  <2> QED BY <2>1 DEF FollowInv
<1>3. ASSUME Aside(u) PROVE Follows(u)'
  BY <1>1, <1>2, <1>3, AsideKeeps
<1>4. ASSUME NEW p \in Handler, NEW v \in User,
             FindExpired(p, v) \/ \E pl \in Paid : Checkout(p, v, pl)
      PROVE  Aside(u)
  BY <1>1, <1>4, FindExpiredAside, CheckoutAside
<1>5. ASSUME NEW p \in Handler,
             Downgrade(p) \/ NewCustomer(p) \/ SaveCustomer(p) \/ OpenSession(p)
      PROVE  Aside(u)
  BY <1>1, <1>5, DowngradeAside, BuyingAside
<1>6. ASSUME NEW p \in Handler,
             \/ Retrieve(p) \/ SetPlan(p) \/ SaveRow(p)
             \/ \E e \in DOMAIN log : HandleWebhook(p, e)
      PROVE  Follows(u)'
  BY <1>1, <1>2, <1>6, RetrieveKeeps, SetPlanKeeps, SaveRowKeeps, HandleWebhookKeeps
<1>7. ASSUME \/ \E v \in User, pl \in Plan, t \in Time : UpdateUserPlan(v, pl, t)
             \/ Tick \/ Restart \/ UNCHANGED planVars
      PROVE  Aside(u)
  BY <1>1, <1>7, QuietAside
<1>8. ASSUME NEW o \in offers, Pay(o) PROVE Follows(u)'
  BY <1>1, <1>2, <1>8, PayKeeps
<1>9. ASSUME NEW s \in DOMAIN sub, Turns(s) PROVE Follows(u)'
  BY <1>1, <1>2, <1>9, TurnKeeps
<1> QED BY <1>1, <1>3, <1>4, <1>5, <1>6, <1>7, <1>8, <1>9 DEF PlanStep

LEMMA PlansSpecFollows == PlansSpec => []FollowInv
<1>1. PlansInit => FollowInv
  BY FollowInit
<1>2. FollowInv /\ [PlansNext]_planVars => FollowInv'
  BY FollowStep
<1> QED BY <1>1, <1>2, PTL DEF PlansSpec

(***************************************************************************)
(* Who pays has the plan he pays for until the end of the period, his row  *)
(* says so, and who has no subscription left has no plan, once the webhook *)
(* has answered his events: for any users, plans on sale, requests served  *)
(* at one time, subscriptions and restarts.  The events may be delivered   *)
(* again after a restart between the writes of the webhook; they must not  *)
(* come out of order or twice, and no downgrade may have overtaken a       *)
(* renewal.                                                                *)
(***************************************************************************)
THEOREM PlanFollowsStripeHolds == PlansSpec => []PlanFollowsStripe
<1>1. FollowInv => PlanFollowsStripe
  <2> SUFFICES ASSUME FollowInv, NEW u \in User, Settled(u), Undisturbed(u)
               PROVE  /\ \A s \in Live(u) :
                           /\ row[u] = sub[s].state
                           /\ sub[s].state.status = "active" /\ sub[s].state.end > now =>
                                plan[u] = sub[s].plan /\ expires[u] = sub[s].state.end
                      /\ Live(u) = {} => plan[u] = "FREE"
    BY DEF PlanFollowsStripe
  <2>1. Sound /\ Follows(u) /\ Of(u) \subseteq acked
    BY DEF FollowInv, Settled, Pending, Of
  <2>2. CASE Of(u) = {}
    BY <2>1, <2>2 DEF Follows, LastTells, Written, Live
  <2>3. CASE Of(u) # {}
    <3>1. PICK e : Newest(u, e)
      BY <2>1, <2>3 DEF Follows, LastTells
    <3>2. e \in Of(u) /\ e \in acked
      BY <2>1, <3>1 DEF Newest
    <3> DEFINE s == log[e].state.sub
    <3>3. /\ s \in DOMAIN sub /\ sub[s].user = u /\ log[e].state.end \in Int /\ now \in Int
      BY <2>1, <3>2, OwnEvents, BoundTypes DEF Sound, TablesOK
    <3>4. /\ sub[s].state = log[e].state
          /\ log[e].kind = "deleted" <=> log[e].state.status = "canceled"
          /\ \A t \in Live(u) : t = s /\ log[e].kind # "deleted"
      BY <2>1, <3>1 DEF Follows, LastTells, Live
    <3>5. PlanAfter(u, e) /\ (log[e].kind # "deleted" => row[u] = log[e].state)
      BY <2>1, <3>1, <3>2 DEF Follows, Written
    <3>6. Live(u) = {} => log[e].kind = "deleted"
      BY <3>3, <3>4 DEF Live
    <3> HIDE DEF s
    <3>7. log[e].state.sub = s
      BY DEF s
    <3> QED BY <3>3, <3>4, <3>5, <3>6, <3>7 DEF PlanAfter
  <2> QED BY <2>2, <2>3
<1> QED BY <1>1, PlansSpecFollows, PTL

-----------------------------------------------------------------------------
(* The customers lost.                                                     *)

Slots == Cardinality(Handler)
Saving == {"newCustomer", "saveCustomer"}

\* Who creates a customer for user u and has not saved it yet.
Holders(u) == {p \in Handler : pc[p] \in Saving /\ usr[p] = u}

\* The first customer that is saved lets no other one go; every later one lets
\* the one before go, and his holder is done.
LostAt(u) ==
  IF customer[u] = 0 THEN Cardinality(Lost(u)) <= Slots * crashes
  ELSE Cardinality(Lost(u)) + Cardinality(Holders(u)) <= Slots * crashes + Slots - 1

LostInv == Sound /\ crashes \in Nat /\ \A u \in User : LostAt(u)

\* No customer of user u comes to be lost.
Spared(u) ==
  /\ Lost(u)' \subseteq Lost(u) /\ UNCHANGED <<customer, crashes>>
  /\ customer[u] # 0 => Holders(u)' \subseteq Holders(u)

LEMMA LostFinite ==
  ASSUME Sound, NEW u
  PROVE  /\ IsFiniteSet(Lost(u)) /\ Cardinality(Lost(u)) \in Nat
         /\ IsFiniteSet(Holders(u)) /\ Cardinality(Holders(u)) \in Nat
         /\ Cardinality(Holders(u)) <= Slots
<1>1. DOMAIN made = 1..Len(made) /\ Len(made) \in Nat
  BY SeqDomain DEF Sound, StripeOK
<1>2. IsFiniteSet(1..Len(made))
  BY <1>1, FS_Interval
<1>3. Lost(u) \subseteq 1..Len(made)
  BY <1>1 DEF Lost
<1>4. IsFiniteSet(Lost(u)) /\ Cardinality(Lost(u)) \in Nat
  BY <1>2, <1>3, NoMore
<1>5. Holders(u) \subseteq Handler
  BY DEF Holders
<1> QED BY <1>4, <1>5, BoundTypes, NoMore DEF Slots

LEMMA LostShrinks ==
  ASSUME LostInv, NEW u \in User, Lost(u)' \subseteq Lost(u),
         customer'[u] = customer[u], crashes' = crashes,
         customer[u] # 0 => Holders(u)' \subseteq Holders(u)
  PROVE  LostAt(u)'
<1>1. /\ IsFiniteSet(Lost(u)) /\ Cardinality(Lost(u)) \in Nat
      /\ IsFiniteSet(Holders(u)) /\ Cardinality(Holders(u)) \in Nat
  BY LostFinite DEF LostInv
<1>2. Cardinality(Lost(u)') \in Nat /\ Cardinality(Lost(u)') <= Cardinality(Lost(u))
  BY <1>1, NoMore
<1>3. customer[u] # 0 =>
        /\ Cardinality(Holders(u)') \in Nat
        /\ Cardinality(Holders(u)') <= Cardinality(Holders(u))
  BY <1>1, NoMore
<1>4. customer'[u] = customer[u] /\ Slots' * crashes' = Slots * crashes /\ Slots' = Slots
  BY DEF Slots
<1>5. PICK k, n : k = Slots * crashes /\ n = Slots
  OBVIOUS
<1>6. k \in Int /\ n \in Int
  BY <1>5, BoundTypes DEF LostInv, Slots
<1>7. IF customer[u] = 0 THEN Cardinality(Lost(u)) <= k
      ELSE Cardinality(Lost(u)) + Cardinality(Holders(u)) <= k + n - 1
  BY <1>5 DEF LostInv, LostAt
<1>8. IF customer[u] = 0 THEN Cardinality(Lost(u)') <= k
      ELSE Cardinality(Lost(u)') + Cardinality(Holders(u)') <= k + n - 1
  BY <1>1, <1>2, <1>3, <1>6, <1>7
<1>9. Slots' * crashes' = k /\ Slots' = n
  BY <1>4, <1>5
<1> QED BY <1>4, <1>8, <1>9 DEF LostAt

LEMMA SparedKeeps ==
  ASSUME LostInv, NEW u \in User, Spared(u)
  PROVE  LostAt(u)'
BY LostShrinks DEF Spared

\* A handler that holds no customer moves and comes to hold none, or the user
\* has none saved.
LEMMA MoveSpares ==
  ASSUME NEW u \in User, NEW p \in Handler, NEW step, NEW v, NEW a, NEW g,
         Stands(p, step, v, a, g), pc[p] \notin Saving, step # "saveCustomer",
         step = "newCustomer" => customer[v] = 0,
         UNCHANGED <<made, customer, crashes>>
  PROVE  Spared(u)
<1>1. ASSUME NEW c \in Lost(u)' PROVE c \in Lost(u)
  <2>1. c \in DOMAIN made /\ made[c] = u /\ customer[u] # c
    BY <1>1 DEF Lost
  <2>2. ASSUME NEW q \in Handler, pc[q] = "saveCustomer" PROVE got[q].sub # c
    <3>1. q # p
      BY <2>2 DEF Saving
    <3>2. pc'[q] = "saveCustomer" /\ got'[q] = got[q]
      BY <2>2, <3>1 DEF Stands
    <3>3. got'[q].sub # c
      BY <1>1, <3>2 DEF Lost
    <3> QED BY <3>2, <3>3
  <2> QED BY <2>1, <2>2 DEF Lost
<1>2. ASSUME customer[u] # 0, NEW q \in Holders(u)' PROVE q \in Holders(u)
  <2>1. q # p
    BY <1>2 DEF Holders, Saving, Stands
  <2> QED BY <1>2, <2>1 DEF Holders, Stands
<1> QED BY <1>1, <1>2 DEF Spared

LEMMA RestSpares ==
  ASSUME NEW u \in User, UNCHANGED <<made, customer, crashes, pc, usr, got>>
  PROVE  Spared(u)
BY DEF Spared, Lost, Holders

LEMMA CreatedSpared ==
  ASSUME Sound, NEW u \in User, NEW p \in Handler, NewCustomer(p)
  PROVE  Spared(u)
<1> DEFINE g == [NoState EXCEPT !.sub = Len(made) + 1]
<1>1. /\ pc[p] = "newCustomer" /\ made' = Append(made, usr[p])
      /\ Proceed(p, "saveCustomer", g)
      /\ UNCHANGED <<customer, crashes>>
  BY DEF NewCustomer, users, history
<1>2. g.sub = Len(made) + 1
  BY DEF NoState
<1> HIDE DEF g
<1>3. Stands(p, "saveCustomer", usr[p], arg[p], g)
  BY <1>1, ProceedStands DEF Sound
<1>4. usr[p] \in User
  BY <1>1 DEF Sound, ServersOK, Carries
<1>5. /\ DOMAIN made' = 1..(Len(made) + 1) /\ DOMAIN made = 1..Len(made) /\ Len(made) \in Nat
      /\ \A i \in 1..Len(made) : made'[i] = made[i]
  <2>1. made \in Seq(User)
    BY DEF Sound, StripeOK
  <2> QED BY <1>1, <1>4, <2>1, SeqDomain, Appended
<1>6. ASSUME NEW c \in Lost(u)' PROVE c \in Lost(u)
  <2>1. c # Len(made) + 1
    <3>1. pc'[p] = "saveCustomer" /\ got'[p] = g
      BY <1>3 DEF Stands
    <3>2. got'[p].sub # c
      BY <1>6, <3>1 DEF Lost
    <3> QED BY <1>2, <3>1, <3>2
  <2>2. c \in DOMAIN made /\ made[c] = u /\ customer[u] # c
    BY <1>1, <1>5, <1>6, <2>1 DEF Lost
  <2>3. ASSUME NEW q \in Handler, pc[q] = "saveCustomer" PROVE got[q].sub # c
    <3>1. pc'[q] = "saveCustomer" /\ got'[q] = got[q]
      BY <1>1, <1>3, <2>3 DEF Stands
    <3>2. got'[q].sub # c
      BY <1>6, <3>1 DEF Lost
    <3> QED BY <3>1, <3>2
  <2> QED BY <2>2, <2>3 DEF Lost
<1>7. Holders(u)' \subseteq Holders(u)
  BY <1>1, <1>3 DEF Holders, Stands, Saving
<1> QED BY <1>1, <1>6, <1>7 DEF Spared

\* The customer saved before goes, and one holder less is left.
LEMMA SavedKeeps ==
  ASSUME LostInv, NEW u \in User, NEW p \in Handler, SaveCustomer(p)
  PROVE  LostAt(u)'
<1>1. /\ pc[p] = "saveCustomer" /\ customer' = [customer EXCEPT ![usr[p]] = got[p].sub]
      /\ Proceed(p, "openSession", got[p])
      /\ UNCHANGED <<made, crashes>>
  BY DEF SaveCustomer, stripe, history
<1>2. PICK v, h, d : v = usr[p] /\ h = got[p].sub /\ d = customer[v]
  OBVIOUS
<1>3. Stands(p, "openSession", usr[p], arg[p], got[p])
  BY <1>1, ProceedStands DEF LostInv, Sound
<1>4. v \in User /\ h \in DOMAIN made /\ made[h] = v
  BY <1>1, <1>2 DEF LostInv, Sound, ServersOK, Carries
<1>5. customer' = [customer EXCEPT ![v] = h] /\ customer \in [User -> 0..MaxCustomers]
  BY <1>1, <1>2 DEF LostInv, Sound, TablesOK
<1>6. h # 0
  <2>1. DOMAIN made = 1..Len(made)
    BY SeqDomain DEF LostInv, Sound, StripeOK
  <2> QED BY <1>4, <2>1
<1>7. ASSUME NEW c \in Lost(u)' PROVE c \in Lost(u) \/ (v = u /\ c = d)
  <2>1. c \in DOMAIN made /\ made[c] = u /\ customer'[u] # c
    BY <1>1, <1>7 DEF Lost
  <2>2. ASSUME NEW q \in Handler, pc[q] = "saveCustomer" PROVE got[q].sub # c
    <3>1. CASE q = p
      BY <1>2, <1>4, <1>5, <2>1, <3>1
    <3>2. CASE q # p
      <4>1. pc'[q] = "saveCustomer" /\ got'[q] = got[q]
        BY <1>3, <2>2, <3>2 DEF Stands
      <4>2. got'[q].sub # c
        BY <1>7, <4>1 DEF Lost
      <4> QED BY <4>1, <4>2
    <3> QED BY <3>1, <3>2
  <2> QED BY <1>2, <1>5, <2>1, <2>2 DEF Lost
<1>8. CASE v # u
  <2>1. Lost(u)' \subseteq Lost(u)
    BY <1>7, <1>8
  <2>2. Holders(u)' \subseteq Holders(u)
    BY <1>2, <1>3, <1>8 DEF Holders, Stands, Saving
  <2>3. customer'[u] = customer[u]
    BY <1>5, <1>8
  <2> QED BY <1>1, <2>1, <2>2, <2>3, LostShrinks
<1>9. CASE v = u
  <2>1. p \in Holders(u) /\ Holders(u)' \subseteq Holders(u) \ {p}
    BY <1>1, <1>2, <1>3, <1>9 DEF Holders, Stands, Saving
  <2>2. Lost(u)' \subseteq Lost(u) \cup {d}
    BY <1>7
  <2>3. customer[u] = 0 => Lost(u)' \subseteq Lost(u)
    <3>1. DOMAIN made = 1..Len(made)
      BY SeqDomain DEF LostInv, Sound, StripeOK
    <3>2. 0 \notin Lost(u)'
      BY <1>1, <3>1 DEF Lost
    <3> QED BY <1>2, <1>9, <2>2, <3>2
  <2>4. /\ IsFiniteSet(Lost(u)) /\ Cardinality(Lost(u)) \in Nat
        /\ IsFiniteSet(Holders(u)) /\ Cardinality(Holders(u)) \in Nat
        /\ Cardinality(Holders(u)) <= Slots
    BY LostFinite DEF LostInv
  <2>5. /\ Cardinality(Holders(u)') \in Nat
        /\ Cardinality(Holders(u)') <= Cardinality(Holders(u)) - 1
    BY <2>1, <2>4, OneLess
  <2>6. /\ Cardinality(Lost(u)') \in Nat
        /\ Cardinality(Lost(u)') <= Cardinality(Lost(u)) + 1
        /\ customer[u] = 0 => Cardinality(Lost(u)') <= Cardinality(Lost(u))
    BY <2>2, <2>3, <2>4, OneMore, NoMore
  <2>7. PICK k, n : k = Slots * crashes /\ n = Slots
    OBVIOUS
  <2>8. k \in Int /\ n \in Int
    BY <2>7, BoundTypes DEF LostInv, Slots
  <2>9. IF customer[u] = 0 THEN Cardinality(Lost(u)) <= k
        ELSE Cardinality(Lost(u)) + Cardinality(Holders(u)) <= k + n - 1
    BY <2>7 DEF LostInv, LostAt
  <2>10. Cardinality(Lost(u)') + Cardinality(Holders(u)') <= k + n - 1
    BY <2>4, <2>5, <2>6, <2>7, <2>8, <2>9
  <2>11. customer'[u] # 0
    BY <1>5, <1>6, <1>9
  <2>12. Slots' * crashes' = k /\ Slots' = n
    BY <1>1, <2>7 DEF Slots
  <2> QED BY <2>10, <2>11, <2>12 DEF LostAt
<1> QED BY <1>8, <1>9

LEMMA OnceMore ==
  ASSUME NEW n \in Nat, NEW c \in Nat
  PROVE  n * (c + 1) = n * c + n /\ n * c \in Nat
OBVIOUS

\* Every holder may lose the customer he was about to save, and none is left.
LEMMA RestartKeeps ==
  ASSUME LostInv, NEW u \in User, Restart
  PROVE  LostAt(u)'
<1>1. /\ crashes' = crashes + 1 /\ pc' = [p \in Handler |-> "idle"]
      /\ UNCHANGED <<made, customer>>
  BY DEF Restart, users, stripe
<1>2. /\ IsFiniteSet(Lost(u)) /\ Cardinality(Lost(u)) \in Nat
      /\ IsFiniteSet(Holders(u)) /\ Cardinality(Holders(u)) \in Nat
      /\ Cardinality(Holders(u)) <= Slots
  BY LostFinite DEF LostInv
<1> DEFINE More == Lost(u)' \ Lost(u)
           S == {p \in Holders(u) : pc[p] = "saveCustomer" /\ got[p].sub \in More}
           f == [p \in S |-> got[p].sub]
<1>3. \A c \in More : \E p \in S : f[p] = c
  <2> SUFFICES ASSUME NEW c \in More PROVE \E p \in S : f[p] = c
    OBVIOUS
  <2>1. c \in DOMAIN made /\ made[c] = u /\ customer[u] # c
    BY <1>1 DEF Lost
  <2>2. PICK p \in Handler : pc[p] = "saveCustomer" /\ got[p].sub = c
    BY <2>1 DEF Lost
  <2>3. usr[p] = u
    BY <2>1, <2>2 DEF LostInv, Sound, ServersOK, Carries
  <2>4. p \in S
    BY <2>2, <2>3 DEF Holders, Saving
  <2> QED BY <2>2, <2>4
<1>4. f \in [S -> More]
  OBVIOUS
<1>5. S \subseteq Holders(u) /\ Lost(u)' = (Lost(u)' \cap Lost(u)) \cup More
  OBVIOUS
<1> HIDE DEF More, S, f
<1>6. /\ IsFiniteSet(More) /\ Cardinality(More) \in Nat
      /\ Cardinality(More) <= Cardinality(Holders(u))
  <2>1. IsFiniteSet(S) /\ Cardinality(S) \in Nat /\ Cardinality(S) <= Cardinality(Holders(u))
    BY <1>2, <1>5, NoMore
  <2>2. IsFiniteSet(More) /\ Cardinality(More) \in Nat /\ Cardinality(More) <= Cardinality(S)
    BY <1>3, <1>4, <2>1, ImageNoMore
  <2> QED BY <1>2, <2>1, <2>2
<1>7. /\ Cardinality(Lost(u)') \in Nat
      /\ Cardinality(Lost(u)') <= Cardinality(Lost(u)) + Cardinality(Holders(u))
  <2> DEFINE Stay == Lost(u)' \cap Lost(u)
  <2>1. IsFiniteSet(Stay) /\ Cardinality(Stay) \in Nat /\ Cardinality(Stay) <= Cardinality(Lost(u))
    BY <1>2, NoMore
  <2> HIDE DEF Stay
  <2>2. /\ IsFiniteSet(Stay \cup More)
        /\ Cardinality(Stay \cup More)
             = Cardinality(Stay) + Cardinality(More) - Cardinality(Stay \cap More)
    BY <1>6, <2>1, FS_Union
  <2>3. Cardinality(Stay \cup More) \in Nat /\ Cardinality(Stay \cap More) \in Nat
    <3>1. Stay \cap More \subseteq Stay
      OBVIOUS
    <3>2. Cardinality(Stay \cap More) \in Nat
      BY <2>1, <3>1, NoMore
    <3> QED BY <2>2, <3>2, FS_CardinalityType
  <2>4. Lost(u)' = Stay \cup More
    BY <1>5 DEF Stay
  <2>5. /\ Cardinality(Stay \cup More) \in Nat
        /\ Cardinality(Stay \cup More) <= Cardinality(Lost(u)) + Cardinality(Holders(u))
    BY <1>2, <1>6, <2>1, <2>2, <2>3
  <2> QED BY <2>4, <2>5
<1>8. IsFiniteSet(Holders(u)') /\ Cardinality(Holders(u)') = 0
  <2>1. Holders(u)' = {}
    BY <1>1 DEF Holders, Saving
  <2> QED BY <2>1, FS_EmptySet
<1>9. PICK k, n : k = Slots * crashes /\ n = Slots
  OBVIOUS
<1>10. k \in Int /\ n \in Nat \ {0} /\ Slots' * crashes' = k + n /\ Slots' = n
  <2>1. n \in Nat \ {0} /\ crashes \in Nat
    BY <1>9, BoundTypes DEF LostInv, Slots
  <2>2. n * (crashes + 1) = n * crashes + n /\ n * crashes \in Nat
    BY <2>1, OnceMore
  <2>3. Slots' = Slots
    BY DEF Slots
  <2> QED BY <1>1, <1>9, <2>1, <2>2, <2>3
<1>11. IF customer[u] = 0 THEN Cardinality(Lost(u)) <= k
       ELSE Cardinality(Lost(u)) + Cardinality(Holders(u)) <= k + n - 1
  BY <1>9 DEF LostInv, LostAt
<1>12. IF customer[u] = 0 THEN Cardinality(Lost(u)') <= k + n
       ELSE Cardinality(Lost(u)') + Cardinality(Holders(u)') <= (k + n) + n - 1
  <2>1. Cardinality(Holders(u)) <= n
    BY <1>2, <1>9
  <2> QED BY <1>2, <1>7, <1>8, <1>10, <1>11, <2>1
<1> QED BY <1>1, <1>10, <1>12 DEF LostAt

LEMMA LostInit == PlansInit => LostInv
<1> SUFFICES ASSUME PlansInit PROVE LostInv
  OBVIOUS
<1>1. Sound /\ crashes = 0
  BY SoundInit DEF PlansInit
<1>2. ASSUME NEW u \in User PROVE LostAt(u)
  <2>1. Lost(u) = {} /\ customer[u] = 0
    BY <1>2 DEF PlansInit, Lost
  <2>2. Cardinality(Lost(u)) = 0
    BY <2>1, FS_EmptySet
  <2>3. Slots * crashes = 0
    BY <1>1, BoundTypes DEF Slots
  <2> QED BY <2>1, <2>2, <2>3 DEF LostAt
<1> QED BY <1>1, <1>2 DEF LostInv

\* Every other step of a handler takes up no customer, or one of a user without.
LEMMA ServersSpare ==
  ASSUME Sound, NEW u \in User, NEW p \in Handler,
         \/ \E v \in User : FindExpired(p, v) \/ \E pl \in Paid : Checkout(p, v, pl)
         \/ Downgrade(p) \/ OpenSession(p) \/ Retrieve(p) \/ SetPlan(p) \/ SaveRow(p)
         \/ \E e \in DOMAIN log : HandleWebhook(p, e)
  PROVE  Spared(u)
<1>1. ASSUME NEW v \in User, FindExpired(p, v) PROVE Spared(u)
  <2>1. /\ Take(p, v, plan[v], [NoState EXCEPT !.end = expires[v]], "downgrade")
        /\ UNCHANGED <<made, customer, crashes>>
    BY <1>1 DEF FindExpired, users, stripe, history
  <2>2. /\ pc[p] = "idle"
        /\ Stands(p, "downgrade", v, plan[v], [NoState EXCEPT !.end = expires[v]])
    BY <2>1, TakeStands DEF Sound
  <2> QED BY <2>1, <2>2, MoveSpares DEF Saving
<1>2. ASSUME NEW v \in User, NEW pl \in Paid, Checkout(p, v, pl) PROVE Spared(u)
  <2> DEFINE step == IF customer[v] # 0 THEN "openSession" ELSE "newCustomer"
  <2>1. /\ Take(p, v, pl, [NoState EXCEPT !.sub = customer[v]], step)
        /\ UNCHANGED <<made, customer, crashes>>
    BY <1>2 DEF Checkout, users, stripe, history
  <2>2. step # "saveCustomer" /\ (step = "newCustomer" => customer[v] = 0)
    OBVIOUS
  <2> HIDE DEF step
  <2>3. pc[p] = "idle" /\ Stands(p, step, v, pl, [NoState EXCEPT !.sub = customer[v]])
    BY <2>1, TakeStands DEF Sound
  <2>4. pc[p] \notin Saving
    BY <2>3 DEF Saving
  <2> QED BY <2>1, <2>2, <2>3, <2>4, MoveSpares
<1>3. ASSUME Downgrade(p) \/ OpenSession(p) \/ SaveRow(p) PROVE Spared(u)
  <2>1. /\ pc[p] \in {"downgrade", "openSession", "saveRow"} /\ End(p)
        /\ UNCHANGED <<made, customer, crashes>>
    BY <1>3 DEF Downgrade, OpenSession, SaveRow, users, stripe, history
  <2>2. Stands(p, "idle", None, 0, NoState)
    BY <2>1, EndStands DEF Sound
  <2> QED BY <2>1, <2>2, MoveSpares DEF Saving
<1>4. ASSUME Retrieve(p) PROVE Spared(u)
  <2>1. /\ pc[p] = "retrieve" /\ Proceed(p, "setPlan", sub[got[p].sub].state)
        /\ UNCHANGED <<made, customer, crashes>>
    BY <1>4 DEF Retrieve, users, stripe, history
  <2>2. Stands(p, "setPlan", usr[p], arg[p], sub[got[p].sub].state)
    BY <2>1, ProceedStands DEF Sound
  <2> QED BY <2>1, <2>2, MoveSpares DEF Saving
<1>5. ASSUME SetPlan(p) PROVE Spared(u)
  <2>1. /\ pc[p] = "setPlan" /\ Proceed(p, "saveRow", got[p])
        /\ UNCHANGED <<made, customer, crashes>>
    BY <1>5 DEF SetPlan, users, stripe, history
  <2>2. Stands(p, "saveRow", usr[p], arg[p], got[p])
    BY <2>1, ProceedStands DEF Sound
  <2> QED BY <2>1, <2>2, MoveSpares DEF Saving
<1>6. ASSUME NEW e \in DOMAIN log, HandleWebhook(p, e) PROVE Spared(u)
  <2> DEFINE step == FirstQuery(log[e])
  <2>1. /\ Take(p, log[e].user, e, log[e].state, step)
        /\ UNCHANGED <<made, customer, crashes>>
    BY <1>6 DEF HandleWebhook, users, stripe
  <2>2. step # "saveCustomer" /\ step # "newCustomer"
    BY DEF FirstQuery
  <2> HIDE DEF step
  <2>3. pc[p] = "idle" /\ Stands(p, step, log[e].user, e, log[e].state)
    BY <2>1, TakeStands DEF Sound
  <2>4. pc[p] \notin Saving
    BY <2>3 DEF Saving
  <2> QED BY <2>1, <2>2, <2>3, <2>4, MoveSpares
<1> QED BY <1>1, <1>2, <1>3, <1>4, <1>5, <1>6

LEMMA LostStep == LostInv /\ [PlansNext]_planVars => LostInv'
<1> SUFFICES ASSUME LostInv, [PlansNext]_planVars PROVE LostInv'
  OBVIOUS
<1>1. Sound /\ Sound' /\ PlanStep
  BY StepIsPlanStep, SoundStep DEF LostInv
<1>2. crashes' \in Nat
  <2>1. ASSUME NEW p \in Handler, NEW v \in User,
               FindExpired(p, v) \/ \E pl \in Paid : Checkout(p, v, pl)
        PROVE  crashes' = crashes
    BY <2>1 DEF FindExpired, Checkout, history
  <2>2. ASSUME NEW p \in Handler,
               \/ Downgrade(p) \/ NewCustomer(p) \/ SaveCustomer(p) \/ OpenSession(p)
               \/ Retrieve(p) \/ SetPlan(p) \/ SaveRow(p)
               \/ \E e \in DOMAIN log : HandleWebhook(p, e)
        PROVE  crashes' = crashes
    BY <2>2 DEF Downgrade, NewCustomer, SaveCustomer, OpenSession, Retrieve, SetPlan, SaveRow,
       HandleWebhook, history
  <2>3. ASSUME \/ \E v \in User, pl \in Plan, t \in Time : UpdateUserPlan(v, pl, t)
               \/ \E o \in offers : Pay(o)
               \/ \E s \in DOMAIN sub : Turns(s)
               \/ Tick \/ UNCHANGED planVars
        PROVE  crashes' = crashes
    BY <2>3 DEF UpdateUserPlan, Pay, Turns, Change, Tick, planVars, history
  <2>4. crashes' = crashes \/ crashes' = crashes + 1
    BY <1>1, <2>1, <2>2, <2>3 DEF PlanStep, Restart
  <2> QED BY <2>4 DEF LostInv
<1>3. ASSUME NEW u \in User PROVE LostAt(u)'
  <2>1. ASSUME NEW p \in Handler,
               \/ \E v \in User : FindExpired(p, v) \/ \E pl \in Paid : Checkout(p, v, pl)
               \/ Downgrade(p) \/ OpenSession(p) \/ Retrieve(p) \/ SetPlan(p) \/ SaveRow(p)
               \/ \E e \in DOMAIN log : HandleWebhook(p, e)
        PROVE  LostAt(u)'
    BY <1>1, <2>1, ServersSpare, SparedKeeps
  <2>2. ASSUME NEW p \in Handler, NewCustomer(p) \/ SaveCustomer(p) PROVE LostAt(u)'
    BY <1>1, <2>2, CreatedSpared, SparedKeeps, SavedKeeps
  <2>3. ASSUME \/ \E v \in User, pl \in Plan, t \in Time : UpdateUserPlan(v, pl, t)
               \/ \E o \in offers : Pay(o)
               \/ \E s \in DOMAIN sub : Turns(s)
               \/ Tick \/ UNCHANGED planVars
        PROVE  LostAt(u)'
    <3>1. UNCHANGED <<made, customer, crashes, pc, usr, got>>
      BY <2>3 DEF UpdateUserPlan, Pay, Turns, Change, Tick, planVars, users, stripe, locals,
         history
    <3> QED BY <3>1, RestSpares, SparedKeeps
  <2> QED BY <1>1, <2>1, <2>2, <2>3, RestartKeeps DEF PlanStep
<1> QED BY <1>1, <1>2, <1>3 DEF LostInv

LEMMA PlansSpecLost == PlansSpec => []LostInv
<1>1. PlansInit => LostInv
  BY LostInit
<1>2. LostInv /\ [PlansNext]_planVars => LostInv'
  BY LostStep
<1> QED BY <1>1, <1>2, PTL DEF PlansSpec

(***************************************************************************)
(* However many checkouts of an account without a customer run at once,    *)
(* the customers they create at Stripe and the account does not keep are   *)
(* fewer than the requests served at one time, and that many more for each *)
(* restart: for any users, requests and bounds.                            *)
(***************************************************************************)
THEOREM BoundedLostHolds == PlansSpec => []BoundedLost
<1>1. LostInv => BoundedLost
  <2> SUFFICES ASSUME LostInv, NEW u \in User
               PROVE  Cardinality(Lost(u)) <= Cardinality(Handler) * (crashes + 1) - 1
    BY DEF BoundedLost
  <2>1. PICK k, n : k = n * crashes /\ n = Cardinality(Handler)
    OBVIOUS
  <2>2. n \in Nat \ {0} /\ crashes \in Nat
    BY <2>1, BoundTypes DEF LostInv
  <2>3. n * (crashes + 1) = k + n /\ k \in Nat
    BY <2>1, <2>2, OnceMore
  <2>4. IF customer[u] = 0 THEN Cardinality(Lost(u)) <= k
        ELSE Cardinality(Lost(u)) + Cardinality(Holders(u)) <= k + n - 1
    BY <2>1 DEF LostInv, LostAt, Slots
  <2>5. Cardinality(Lost(u)) \in Nat /\ Cardinality(Holders(u)) \in Nat
    BY LostFinite DEF LostInv
  <2>6. Cardinality(Lost(u)) <= k + n - 1
    BY <2>2, <2>3, <2>4, <2>5
  <2>7. PICK m : m = Cardinality(Handler) * (crashes + 1)
    OBVIOUS
  <2>8. m = k + n
    BY <2>1, <2>3, <2>7
  <2>9. Cardinality(Lost(u)) <= m - 1
    BY <2>2, <2>3, <2>5, <2>6, <2>8
  <2> QED BY <2>7, <2>9
<1> QED BY <1>1, PlansSpecLost, PTL
=============================================================================
