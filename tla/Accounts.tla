------------------------------ MODULE Accounts ------------------------------
(***************************************************************************)
(* One account: its registration, the e-mail codes that verify it, their   *)
(* rate limits, and its second factor (a TOTP secret and backup codes).    *)
(* Requests run at once, one step for every statement to the database, and *)
(* may be cut short between two steps.                                     *)
(***************************************************************************)
EXTENDS Naturals, FiniteSets

CONSTANTS
  Req,          \* requests served at once
  MaxAttempts,  \* wrong codes in a window (5)
  MaxResends,   \* mails in a window (3)
  BackupCodes,  \* backup codes of a setup (10)
  MaxCodes,     \* bound of the model: e-mail codes
  MaxSetups,    \* bound of the model: setups of the second factor
  MaxOps,       \* bound of the model: requests
  MaxCuts       \* bound of the model: requests cut short

ASSUME AccountsAssumption ==
  /\ IsFiniteSet(Req) /\ Req # {}
  /\ {MaxAttempts, MaxResends} \subseteq Nat \ {0}
  /\ {BackupCodes, MaxCodes, MaxSetups, MaxOps, MaxCuts} \subseteq Nat

VARIABLES
  user,     \* "none", "registered" or "verified"
  codes,    \* the rows of EmailVerification
  expired,  \* the codes that are too old
  limit,    \* the rows of RateLimit: a count of 0 stands for no row
  factor,   \* totpSecret, pendingTotpSecret (0 for null) and backupCodes
  pass,     \* is there a TempToken: a login that lacks the second factor?
  req,      \* the requests being served
  issued,   \* history: e-mail codes made
  setups,   \* history: setups begun
  shown,    \* history: setups whose secret and backup codes the user has got
  tries,    \* history: wrong codes, and mails, in the present window
  entered,  \* history: how often an e-mail code logged somebody in
  spent,    \* history: how often a backup code was accepted
  stale,    \* history: writes of backup codes that had changed since they were read
  mixed,    \* history: was a setup or an activation not alone?
  ops,      \* history: requests begun
  cut       \* history: requests cut short

mail == <<user, codes, expired, limit, issued, tries, entered>>
second == <<factor, pass, setups, shown, spent, stale, mixed>>
vars == <<mail, second, req, ops, cut>>

Key == {"verify", "resend"}
Max == [verify |-> MaxAttempts, resend |-> MaxResends]
Code == 1..MaxCodes
Backup(n) == {n} \X (1..BackupCodes)
AnyBackup == (1..MaxSetups) \X (1..BackupCodes)
Idle == [op |-> "none", pc |-> "idle", seen |-> 0, code |-> 0]
NoRow == [count |-> 0, open |-> FALSE]

TypeOK ==
  /\ user \in {"none", "registered", "verified"}
  /\ codes \subseteq 1..issued /\ expired \subseteq codes
  /\ limit \in [Key -> [count : Nat, open : BOOLEAN]]
  /\ factor \in [secret : 0..setups, pending : 0..setups, codes : SUBSET AnyBackup]
  /\ pass \in BOOLEAN /\ mixed \in BOOLEAN
  /\ shown \subseteq 1..setups
  /\ tries \in [Key -> Nat] /\ entered \in [Code -> Nat]
  /\ spent \in [AnyBackup -> Nat] /\ stale \in Nat
  /\ issued \in 0..MaxCodes /\ setups \in 0..MaxSetups /\ ops \in 0..MaxOps /\ cut \in 0..MaxCuts

Init ==
  /\ user = "none" /\ codes = {} /\ expired = {}
  /\ limit = [k \in Key |-> NoRow]
  /\ factor = [secret |-> 0, pending |-> 0, codes |-> {}]
  /\ pass = FALSE
  /\ req = [r \in Req |-> Idle]
  /\ issued = 0 /\ setups = 0 /\ shown = {} /\ ops = 0 /\ cut = 0
  /\ tries = [k \in Key |-> 0]
  /\ entered = [c \in Code |-> 0] /\ spent = [b \in AnyBackup |-> 0]
  /\ stale = 0 /\ mixed = FALSE

Begin(r, new) ==
  /\ UNCHANGED cut
  /\ req[r].op = "none" /\ ops < MaxOps
  /\ ops' = ops + 1
  /\ req' = [req EXCEPT ![r] = new]
At(r, op, pc) == req[r].op = op /\ req[r].pc = pc
Goto(r, pc) == req' = [req EXCEPT ![r].pc = pc] /\ UNCHANGED <<ops, cut>>
Done(r) == req' = [req EXCEPT ![r] = Idle] /\ UNCHANGED <<ops, cut>>

\* The process stops, or the database does not answer.
Fail(r) ==
  /\ req[r].op # "none" /\ cut < MaxCuts
  /\ cut' = cut + 1
  /\ req' = [req EXCEPT ![r] = Idle]
  /\ UNCHANGED <<mail, second, ops>>

-----------------------------------------------------------------------------
(* The rate limits.                                                        *)

CheckRateLimitMutant(k) == limit[k].open => limit[k].count <= Max[k]

CheckRateLimit(k) == limit[k].open => limit[k].count < Max[k]

\* incrementRateLimit: the row is made or counted up ...
Upsert(r, k) ==
  /\ At(r, k, "count")
  /\ limit' = [limit EXCEPT ![k] = [count |-> @.count + 1,
                                    open |-> @.open \/ @.count = 0]]
  /\ tries' = IF k = "resend" THEN [tries EXCEPT ![k] = @ + 1] ELSE tries
  /\ Goto(r, "window")
  /\ UNCHANGED <<user, codes, expired, issued, entered, second>>

\* ... and a row of an earlier window starts anew.
NewWindow(r, k) ==
  /\ At(r, k, "window")
  /\ limit' = IF limit[k].open THEN limit
              ELSE IF limit[k].count = 0 THEN limit
              ELSE [limit EXCEPT ![k] = [count |-> 1, open |-> TRUE]]
  /\ IF k = "resend" THEN Goto(r, "find") ELSE Done(r)
  /\ UNCHANGED <<user, codes, expired, issued, tries, entered, second>>

\* Ten minutes have passed.
WindowEnds(k) ==
  /\ limit[k].open
  /\ limit' = [limit EXCEPT ![k].open = FALSE]
  /\ tries' = [tries EXCEPT ![k] = 0]
  /\ UNCHANGED <<user, codes, expired, issued, entered, second, req, ops, cut>>

CleanupExpiredRateLimits ==
  /\ \E k \in Key : limit[k].count > 0 /\ ~limit[k].open
  /\ limit' = [k \in Key |-> IF limit[k].open THEN limit[k] ELSE NoRow]
  /\ UNCHANGED <<user, codes, expired, issued, tries, entered, second, req, ops, cut>>

-----------------------------------------------------------------------------
(* Registration and the codes.                                             *)

NewCode(old) == issued < MaxCodes /\ issued' = issued + 1 /\ codes' = old \cup {issued'}

Register(r) ==
  /\ user = "none"
  /\ user' = "registered"
  /\ Begin(r, [Idle EXCEPT !.op = "register", !.pc = "code"])
  /\ UNCHANGED <<codes, expired, limit, issued, tries, entered, second>>

RegisterCode(r) ==
  /\ At(r, "register", "code")
  /\ NewCode(codes)
  /\ Done(r)
  /\ UNCHANGED <<user, expired, limit, tries, entered, second>>

\* Code c is handed in; 0 is one not in force (none comes into force again).
VerifyEmail(r, c) ==
  /\ CheckRateLimit("verify")
  /\ Begin(r, [op |-> "verify", pc |-> "find", seen |-> 0, code |-> c])
  /\ UNCHANGED <<mail, second>>

FindVerification(r) ==
  /\ At(r, "verify", "find")
  /\ IF user # "none" /\ req[r].code \in codes \ expired
       THEN Goto(r, "commit") /\ UNCHANGED tries
       ELSE Goto(r, "count") /\ tries' = [tries EXCEPT !["verify"] = @ + 1]
  /\ UNCHANGED <<user, codes, expired, limit, issued, entered, second>>

CommitMutant(r) ==
  /\ At(r, "verify", "commit")
  /\ user' = "verified"
  /\ codes' = codes \ {req[r].code} /\ expired' = expired \ {req[r].code}
  /\ Goto(r, "clear")
  /\ UNCHANGED <<limit, issued, tries, entered, second>>

\* The transaction: it fails, and the request with it, if the row has gone.
Commit(r) ==
  /\ At(r, "verify", "commit")
  /\ IF req[r].code \in codes
       THEN /\ user' = "verified"
            /\ codes' = codes \ {req[r].code} /\ expired' = expired \ {req[r].code}
            /\ Goto(r, "clear")
       ELSE Done(r) /\ UNCHANGED <<user, codes, expired>>
  /\ UNCHANGED <<limit, issued, tries, entered, second>>

\* clearRateLimit; then issueFullTokens.
ClearRateLimit(r) ==
  /\ At(r, "verify", "clear")
  /\ limit' = [limit EXCEPT !["verify"] = NoRow]
  /\ tries' = [tries EXCEPT !["verify"] = 0]
  /\ entered' = [entered EXCEPT ![req[r].code] = @ + 1]
  /\ Done(r)
  /\ UNCHANGED <<user, codes, expired, issued, second>>

ResendVerification(r) ==
  /\ CheckRateLimit("resend")
  /\ Begin(r, [Idle EXCEPT !.op = "resend", !.pc = "count"])
  /\ UNCHANGED <<mail, second>>

FindUser(r) ==
  /\ At(r, "resend", "find")
  /\ IF user = "registered" THEN Goto(r, "replace") ELSE Done(r)
  /\ UNCHANGED <<mail, second>>

\* The transaction: the earlier codes go, the new one is mailed.
ReplaceCode(r) ==
  /\ At(r, "resend", "replace")
  /\ NewCode({}) /\ expired' = {}
  /\ Done(r)
  /\ UNCHANGED <<user, limit, tries, entered, second>>

CodeExpires(c) ==
  /\ c \in codes \ expired
  /\ expired' = expired \cup {c}
  /\ UNCHANGED <<user, codes, limit, issued, tries, entered, second, req, ops, cut>>

-----------------------------------------------------------------------------
(* The second factor.                                                      *)

SecondOp == {"setup", "activate", "backup", "disable"}
Alone(r) == \A q \in Req \ {r} : req[q].op \notin SecondOp
Mix(r) == mixed' = (mixed \/ ~Alone(r))

\* login: with the second factor on, the password is worth a TempToken.
Login ==
  /\ user = "verified" /\ factor.secret # 0 /\ ~pass
  /\ pass' = TRUE
  /\ UNCHANGED <<mail, factor, setups, shown, spent, stale, mixed, req, ops, cut>>

PassExpires ==
  /\ pass /\ pass' = FALSE
  /\ UNCHANGED <<mail, factor, setups, shown, spent, stale, mixed, req, ops, cut>>

CanSetupMutant(r) ==
  /\ user = "verified" /\ setups < MaxSetups
  /\ setups' = setups + 1
  /\ Begin(r, [Idle EXCEPT !.op = "setup", !.pc = "secret", !.seen = setups'])
  /\ UNCHANGED <<mail, factor, pass, shown, spent, stale, mixed>>

\* The n-th setup makes the n-th secret and the backup codes of n.
CanSetup(r) ==
  /\ user = "verified" /\ setups < MaxSetups /\ factor.secret = 0
  /\ setups' = setups + 1
  /\ Begin(r, [Idle EXCEPT !.op = "setup", !.pc = "secret", !.seen = setups'])
  /\ UNCHANGED <<mail, factor, pass, shown, spent, stale, mixed>>

SavePending(r) ==
  /\ At(r, "setup", "secret")
  /\ factor' = [factor EXCEPT !.pending = req[r].seen]
  /\ Goto(r, "codes") /\ Mix(r)
  /\ UNCHANGED <<mail, pass, setups, shown, spent, stale>>

SaveBackupCodes(r) ==
  /\ At(r, "setup", "codes")
  /\ factor' = [factor EXCEPT !.codes = Backup(req[r].seen)]
  /\ shown' = shown \cup {req[r].seen}
  /\ Done(r) /\ Mix(r)
  /\ UNCHANGED <<mail, pass, setups, spent, stale>>

\* With a number from the user's app, which knows the secrets shown.
ActivateTotp(r) ==
  /\ user = "verified" /\ factor.pending \in shown
  /\ Begin(r, [Idle EXCEPT !.op = "activate", !.pc = "save", !.seen = factor.pending])
  /\ UNCHANGED <<mail, second>>

SaveSecret(r) ==
  /\ At(r, "activate", "save")
  /\ factor' = [factor EXCEPT !.secret = req[r].seen, !.pending = 0]
  /\ Done(r) /\ Mix(r)
  /\ UNCHANGED <<mail, pass, setups, shown, spent, stale>>

\* verifyAndConsumeBackupCode, which does not ask whether the factor is on.
UseBackupCode(r, b) ==
  /\ pass /\ b \in factor.codes /\ b[1] \in shown
  /\ Begin(r, [op |-> "backup", pc |-> "save", seen |-> factor.codes, code |-> b])
  /\ UNCHANGED <<mail, second>>

SaveRemainingMutant(r) ==
  /\ At(r, "backup", "save")
  /\ spent' = [spent EXCEPT ![req[r].code] = @ + 1]
  /\ stale' = IF factor.codes = req[r].seen THEN stale ELSE stale + 1
  /\ factor' = [factor EXCEPT !.codes = req[r].seen]
  /\ Done(r)
  /\ UNCHANGED <<mail, pass, setups, shown, mixed>>

SaveRemaining(r) ==
  /\ At(r, "backup", "save")
  /\ spent' = [spent EXCEPT ![req[r].code] = @ + 1]
  /\ stale' = IF factor.codes = req[r].seen THEN stale ELSE stale + 1
  /\ factor' = [factor EXCEPT !.codes = req[r].seen \ {req[r].code}]
  /\ Done(r)
  /\ UNCHANGED <<mail, pass, setups, shown, mixed>>

DisableTotp(r) ==
  /\ user = "verified" /\ factor.secret \in shown
  /\ Begin(r, [Idle EXCEPT !.op = "disable", !.pc = "save"])
  /\ UNCHANGED <<mail, second>>

SaveDisabled(r) ==
  /\ At(r, "disable", "save")
  /\ factor' = [secret |-> 0, pending |-> 0, codes |-> {}]
  /\ Done(r)
  /\ UNCHANGED <<mail, pass, setups, shown, spent, stale, mixed>>

Next ==
  \/ \E r \in Req :
       \/ Register(r) \/ RegisterCode(r) \/ ResendVerification(r) \/ Fail(r)
       \/ \E c \in codes \cup {0} : VerifyEmail(r, c)
       \/ FindVerification(r) \/ Commit(r) \/ ClearRateLimit(r)
       \/ FindUser(r) \/ ReplaceCode(r)
       \/ \E k \in Key : Upsert(r, k) \/ NewWindow(r, k)
       \/ CanSetup(r) \/ SavePending(r) \/ SaveBackupCodes(r)
       \/ ActivateTotp(r) \/ SaveSecret(r) \/ DisableTotp(r) \/ SaveDisabled(r)
       \/ \E b \in factor.codes : UseBackupCode(r, b)
       \/ SaveRemaining(r)
  \/ \E k \in Key : WindowEnds(k)
  \/ CleanupExpiredRateLimits \/ Login \/ PassExpires
  \/ \E c \in codes : CodeExpires(c)

Spec == Init /\ [][Next]_vars

-----------------------------------------------------------------------------
(* Properties *)

(***************************************************************************)
(* Attempts are checked before they are counted, and an expired count is   *)
(* restarted in a second statement; still a window sees no more wrong      *)
(* codes (or mails) than allowed, one for every request cut short, and     *)
(* two for every other request served at once: one whose count was lost    *)
(* with the row of an earlier window, one that was checked before the last *)
(* was counted (and one more when the row is cleaned up meanwhile).        *)
(***************************************************************************)
BoundedAttempts == \A k \in Key : tries[k] <= Max[k] + 2 * Cardinality(Req) - 1 + cut

(***************************************************************************)
(* However many requests hand it in at once, and whatever is resent or     *)
(* fails meanwhile, an e-mail code logs in at most once.                   *)
(***************************************************************************)
CodeLogsInOnce == \A c \in Code : entered[c] <= 1

(***************************************************************************)
(* A backup code is accepted once, and once more for every write of a list *)
(* of codes that was no longer the one read.                               *)
(***************************************************************************)
BackupCodeSpentOnce == \A b \in AnyBackup : spent[b] <= 1 + stale

(***************************************************************************)
(* While the second factor is on, its backup codes are those shown with    *)
(* its secret, unless a setup or an activation ran beside another request  *)
(* of the second factor: then the codes the user noted down may be void.   *)
(***************************************************************************)
OneSetup ==
  mixed \/ factor.secret = 0 \/ factor.codes \subseteq Backup(factor.secret)
=============================================================================
