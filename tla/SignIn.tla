------------------------------- MODULE SignIn -------------------------------
(***************************************************************************)
(* Sign-in and the security page of one customer (apps/identity): lockout, *)
(* password and risk decision, one-time codes, the authenticator app,      *)
(* password changes, devices, sessions and the notices they leave, on top  *)
(* of the fraud desk that evaluates each sign-in.                          *)
(*                                                                         *)
(* Several browsers work for the customer, one request at a time each.  A  *)
(* request works on the user instance it loaded; user.save(update_fields)  *)
(* writes the named columns of that instance, a plain save all of them.    *)
(* Nothing here runs in a transaction: every write commits by itself, and  *)
(* a worker may die between two.  Writes that nothing tells apart are one  *)
(* action.                                                                 *)
(*                                                                         *)
(* Passwords, codes, authenticator secrets and locks are numbered in the   *)
(* order they are made; 0 is none.                                         *)
(***************************************************************************)
EXTENDS FraudDesk

CONSTANTS
  Browsers,    \* the customer's browsers, one device each
  MaxFailed,   \* MAX_FAILED: failures that lock the account
  MaxTries,    \* wrong codes that end a pending sign-in
  MaxClock     \* bound: 30-second timesteps of the authenticator

\* What a browser can post: signing in, and the forms of the security page.
PageOps == {"password", "mfa_start", "mfa_confirm", "totp_start", "totp_confirm", "mfa_disable",
            "trust", "untrust", "revoke", "sessions", "prefer", "logout"}
UserOps == {"login", "code"} \cup PageOps

ASSUME SignInAssumption ==
  /\ MaxFailed \in Nat \ {0} /\ MaxTries \in Nat \ {0} /\ MaxClock \in Nat \ {0}
  /\ \A load \in Workloads : \A j \in load.jobs : j.op \in UserOps => j.by \in Browsers

VARIABLES
  user,     \* the User row
  codes,    \* [made, aged]: one-time codes issued, those past their five minutes
  locks,    \* [made, over]: lockouts set, those that have run out
  clock,    \* the authenticator's timestep
  fails,    \* history: wrong passwords that were counted on the row
  records,  \* [failed, changed]: LOGIN_FAILED and PASSWORD_CHANGED audit records
  web,      \* per browser: its Django session
  devices,  \* per browser: its Device row
  changes,  \* password changes, with the evaluation and whether a code was given
  notes,    \* notifications, unique by their key
  muted     \* whether the SECURITY category is switched off

person   == <<user, codes, locks, fails, records, web, devices, changes, notes, muted>>
signVars == <<person, clock>>
vars     == <<deskVars, signVars>>

\* eval, mfa, coded, pass: the sign-in it rests on and the password of its hash
\* tries, pend:            otp_attempts and pending_otp_user
\* bound:                  a SessionRecord has its key
Out == [state |-> "out", eval |-> 0, tries |-> 0, pass |-> 0, mfa |-> FALSE, coded |-> FALSE,
        pend |-> FALSE, bound |-> FALSE]

Init ==
  /\ DeskInit
  /\ user = [pass |-> 1, failed |-> 0, locked |-> 0, mfa |-> FALSE, otp |-> 0, totp |-> 0, last |-> 0]
  /\ codes = [made |-> 0, aged |-> 0]
  /\ locks = [made |-> 0, over |-> 0]
  /\ clock = 1 /\ fails = 0 /\ records = [failed |-> 0, changed |-> 0]
  /\ web = [b \in Browsers |-> Out]
  /\ devices = [b \in Browsers |-> "absent"]
  /\ changes = <<>> /\ notes = {} /\ muted = FALSE

UserRows == [pass : Nat, failed : Nat, locked : Nat, mfa : BOOLEAN, otp : Nat, totp : {0, 1},
             last : Nat]
WebRows  == [state : {"out", "pending", "in"}, eval : Nat, tries : 0 .. MaxTries, pass : Nat,
             mfa : BOOLEAN, coded : BOOLEAN, pend : BOOLEAN, bound : BOOLEAN]

\* Numbered things are numbered by what has been made of them.
UserOK(u) ==
  /\ u \in UserRows /\ u.pass \in 1 .. Len(changes) + 1 /\ u.failed \in 0 .. MaxFailed
  /\ u.otp \in 0 .. codes.made /\ u.locked \in 0 .. locks.made /\ u.last \in 0 .. clock

TypeOK ==
  /\ DeskTypeOK
  /\ UserOK(user)
  /\ codes \in [made : Nat, aged : Nat] /\ codes.aged <= codes.made
  /\ locks \in [made : Nat, over : Nat] /\ locks.over <= locks.made
  /\ clock \in 1 .. MaxClock /\ fails \in Nat /\ records \in [failed : Nat, changed : Nat]
  /\ web \in [Browsers -> WebRows] /\ \A b \in Browsers : web[b].eval <= Len(evals)
  /\ devices \in [Browsers -> {"absent", "untrusted", "trusted"}]
  /\ changes \in Seq([eval : Nat, coded : BOOLEAN])

Browser(w) == worker[w].job.by

\* @login_required: signed in, and the session's hash is that of the password.
SignedIn(b) == web[b].state = "in" /\ web[b].pass = user.pass

\* A browser posts one request at a time.
Loads(w, op, allowed(_)) ==
  /\ Begin(w, op, LAMBDA j : user)
  /\ LET b == worker'[w].job.by
     IN allowed(b) /\ \A v \in Workers \ {w} : worker[v].pc # "idle" => Browser(v) # b
  /\ UNCHANGED <<desk, evals, signVars>>

\* The request goes on with what it has written.
Goto(w, pc, seen) ==
  /\ worker' = [worker EXCEPT ![w] = [@ EXCEPT !.pc = pc, !.seen = seen]]
  /\ UNCHANGED <<todo, desk, evals>>
Done(w) == End(w) /\ UNCHANGED <<desk, evals>>

\* The worker dies with something written; before, it is as if nobody had asked.
Die(w) ==
  /\ worker[w].pc \notin {"idle", "begun", "known", "unknown"}
  /\ Done(w)
  /\ UNCHANGED signVars

-----------------------------------------------------------------------------
(* Notifications (notifications/services.py): one row per key; a category   *)
(* that is switched off drops what is not mandatory, and a failure is      *)
(* swallowed.                                                              *)

Mandatory == {"PASSWORD_CHANGED", "MFA_DISABLED", "MFA_ENABLED", "NEW_DEVICE", "USER_BLOCKED",
              "USER_UNBLOCKED", "CHALLENGE_ISSUED", "CHALLENGE_REISSUED"}

Notify(kind, key) ==
  \/ notes' = notes
  \/ (kind \in Mandatory \/ ~muted) /\ notes' = notes \cup {<<kind, key>>}

\* set_category_preference.
SetPreference(w) ==
  /\ At(w, "prefer", "begun")
  /\ muted' = (worker[w].job.val = "off")
  /\ Done(w)
  /\ UNCHANGED <<user, codes, locks, clock, fails, records, web, devices, changes, notes>>

-----------------------------------------------------------------------------
(* One-time codes and the authenticator.                                   *)

\* generate_otp: a new code replaces the one on the row.
GenerateOtp == /\ codes' = [codes EXCEPT !.made = @ + 1]
               /\ user' = [user EXCEPT !.otp = codes.made + 1]

\* verify_otp on a loaded instance: expired codes fail, and are cleared.
OtpExpired(seen) == seen.otp <= codes.aged
OtpOk(seen, code) == seen.otp # 0 /\ ~OtpExpired(seen) /\ code = seen.otp
OtpCleared(seen, code) == code # 0 /\ seen.otp # 0 /\ (OtpExpired(seen) \/ code = seen.otp)

\* verify_totp: a code of the enrolled secret (right) in a timestep not yet used.
TotpOk(seen, right, record) == seen.totp # 0 /\ right /\ (record => clock > seen.last)

\* What the customer types: a one-time code that was issued (0: a wrong one), or
\* the authenticator's code.
Typed == (0 .. codes.made) \X {FALSE} \cup {<<0, TRUE>>}

CodeOk(seen, t) == OtpOk(seen, t[1]) \/ TotpOk(seen, t[2], TRUE)

\* The columns that verifying a typed code writes.
AfterCode(row, seen, t) ==
  [row EXCEPT !.otp = IF OtpCleared(seen, t[1]) THEN 0 ELSE @,
              !.last = IF ~OtpOk(seen, t[1]) /\ TotpOk(seen, t[2], TRUE) THEN clock ELSE @]

CodesAge == /\ codes.aged < codes.made
            /\ codes' = [codes EXCEPT !.aged = codes.made]
            /\ UNCHANGED <<deskVars, user, locks, clock, fails, records, web, devices, changes, notes, muted>>
LocksEnd == /\ locks.over < locks.made
            /\ locks' = [locks EXCEPT !.over = locks.made]
            /\ UNCHANGED <<deskVars, user, codes, clock, fails, records, web, devices, changes, notes, muted>>
Tick     == /\ clock < MaxClock
            /\ clock' = clock + 1
            /\ UNCHANGED <<deskVars, person>>

-----------------------------------------------------------------------------
(* Signing in (attempt_login, login_view).                                 *)

BeginLogin(w) == Loads(w, "login", LAMBDA b : ~SignedIn(b))

\* The lock is looked at on one instance; authenticate, and after a failure the
\* counter, load the row again.
Authenticate(w) ==
  LET seen == worker[w].seen
  IN /\ At(w, "login", "begun")
     /\ IF seen.locked > locks.over           THEN Done(w)
        ELSE IF worker[w].job.on = user.pass  THEN Goto(w, "known", user)
        ELSE Goto(w, "unknown", user)
     /\ UNCHANGED signVars

\* Mutant of LimitReached: one failure too few.
LimitReached_Early(n) == n >= MaxFailed - 1

LimitReached(n) == n >= MaxFailed

\* Counter and lock are written as computed from the loaded row, and then the
\* failure is recorded.
RecordFailure(w) ==
  LET seen == worker[w].seen
      full == LimitReached(seen.failed + 1)
  IN /\ At(w, "login", "unknown")
     /\ user' = [user EXCEPT !.failed = IF full THEN 0 ELSE seen.failed + 1,
                             !.locked = IF full THEN locks.made + 1 ELSE seen.locked]
     /\ locks' = IF full THEN [locks EXCEPT !.made = @ + 1] ELSE locks
     /\ fails' = fails + 1
     /\ Goto(w, "failed", seen)
     /\ UNCHANGED <<codes, clock, records, web, devices, changes, notes, muted>>
LogFailure(w) ==
  /\ At(w, "login", "failed")
  /\ records' = [records EXCEPT !.failed = @ + 1]
  /\ Done(w)
  /\ UNCHANGED <<user, codes, locks, clock, fails, web, devices, changes, notes, muted>>

\* Right password: the counter is cleared and the device registered.
Recognise(w) ==
  LET b == Browser(w)
  IN /\ At(w, "login", "known")
     /\ user' = [user EXCEPT !.failed = 0, !.locked = 0]
     /\ IF devices[b] = "absent"
          THEN /\ devices' = [devices EXCEPT ![b] = "untrusted"]
               /\ Notify("NEW_DEVICE", b)
          ELSE UNCHANGED <<devices, notes>>
     /\ Goto(w, "device", [worker[w].seen EXCEPT !.failed = 0, !.locked = 0])
     /\ UNCHANGED <<codes, locks, clock, fails, records, web, changes, muted>>

\* The factors of correlate_account_takeover that this model has.
AtoFactors ==
  {f \in {"password_changed", "failed_logins", "new_device"} :
     CASE f = "password_changed" -> records.changed > 0
       [] f = "failed_logins"    -> records.failed >= 3
       [] f = "new_device"       -> \E e \in DOMAIN evals : "NEW_DEVICE" \in evals[e].facts}

\* The facts of an evaluation from browser b, as a rule about them would ask.
Facts(b) ==
  {f \in {"FAILED_LOGIN_COUNT_24H", "NEW_DEVICE", "PASSWORD_CHANGED_RECENTLY_24H",
          "ATO_CORRELATION_POINTS"} :
     CASE f = "FAILED_LOGIN_COUNT_24H"        -> records.failed > 0
       [] f = "NEW_DEVICE"                    -> devices[b] # "trusted"
       [] f = "PASSWORD_CHANGED_RECENTLY_24H" -> records.changed > 0
       [] f = "ATO_CORRELATION_POINTS"        -> AtoPoints(AtoFactors) >= 30}

\* The evaluation runs outside any transaction.
StartLogin(w) ==
  At(w, "login", "device") /\ CreateEvaluation(w, "LOGIN") /\ UNCHANGED signVars
EvaluateLogin(w) ==
  At(w, "login", "evaluating") /\ Evaluate(w, Facts(Browser(w)), "decided") /\ UNCHANGED signVars

\* What login_view finds in a session: one that is stale, or was revoked, is empty.
Kept(b) == IF web[b].state = "pending" THEN web[b].tries ELSE 0

\* login and bind_session; pending_otp_user is taken out only after a code.
Session(w, coded) ==
  LET b == Browser(w)
  IN [state |-> "in", eval |-> IF coded THEN web[b].eval ELSE worker[w].eval,
      tries |-> IF coded THEN 0 ELSE Kept(b), pass |-> worker[w].seen.pass,
      mfa |-> IF coded THEN web[b].mfa ELSE worker[w].seen.mfa, coded |-> coded,
      pend |-> ~coded, bound |-> TRUE]

\* Mutant of NeedsCode: the engine's challenge is forgotten.
NeedsCode_MfaOnly(seen, action) == seen.mfa

NeedsCode(seen, action) == action = "CHALLENGE" \/ seen.mfa

\* BLOCK refuses; a challenge or MFA leaves the browser waiting for a code, which
\* is delivered unless the authenticator has it; anything else signs in.
FinishLogin(w) ==
  LET b == Browser(w)
      seen == worker[w].seen
      action == evals[worker[w].eval].outcome
  IN /\ At(w, "login", "decided")
     /\ \/ action = "BLOCK" /\ UNCHANGED <<user, codes, web>>
        \/ /\ action # "BLOCK" /\ NeedsCode(seen, action)
           /\ web' = [web EXCEPT ![b] = [Out EXCEPT !.state = "pending", !.eval = worker[w].eval,
                                           !.tries = Kept(b), !.mfa = seen.mfa, !.pend = TRUE]]
           /\ IF seen.mfa /\ seen.totp # 0 THEN UNCHANGED <<user, codes>> ELSE GenerateOtp
        \/ /\ action # "BLOCK" /\ ~NeedsCode(seen, action)
           /\ web' = [web EXCEPT ![b] = Session(w, FALSE)]
           /\ UNCHANGED <<user, codes>>
     /\ Done(w)
     /\ UNCHANGED <<locks, clock, fails, records, devices, changes, notes, muted>>

\* otp_verify_view: the page asks for pending_otp_user, which a sign-in without
\* a code leaves behind.
BeginCode(w) ==
  Loads(w, "code", LAMBDA b : web[b].pend /\ (web[b].state = "pending" \/ SignedIn(b)))

\* A wrong code in a session that was revoked meanwhile is not even counted; with
\* the right one login makes a new session of what the request has loaded.
WrongCode(b) ==
  LET tries == web[b].tries + 1
  IN CASE web[b].state = "out" -> web[b]
       [] web[b].state # "out" /\ tries < MaxTries -> [web[b] EXCEPT !.tries = tries]
       [] web[b].state = "in" /\ tries >= MaxTries -> [web[b] EXCEPT !.tries = 0, !.pend = FALSE]
       [] web[b].state = "pending" /\ tries >= MaxTries -> Out

VerifyCode(w) ==
  LET b == Browser(w)
      seen == worker[w].seen
  IN /\ At(w, "code", "begun")
     /\ \E t \in Typed :
          /\ user' = AfterCode(user, seen, t)
          /\ web' = [web EXCEPT ![b] = IF CodeOk(seen, t) THEN Session(w, TRUE) ELSE WrongCode(b)]
     /\ Done(w)
     /\ UNCHANGED <<codes, locks, clock, fails, records, devices, changes, notes, muted>>

-----------------------------------------------------------------------------
(* The security page (security_view).                                      *)

BeginPage(w) == \E op \in PageOps : Loads(w, op, SignedIn)

\* A password change needs the old password, and is evaluated before anything
\* is touched.
StartChange(w) ==
  /\ At(w, "password", "begun")
  /\ IF worker[w].job.on = worker[w].seen.pass
       THEN CreateEvaluation(w, "PASSWORD_CHANGE") ELSE Done(w)
  /\ UNCHANGED signVars
EvaluateChange(w) ==
  At(w, "password", "evaluating") /\ Evaluate(w, Facts(Browser(w)), "decided") /\ UNCHANGED signVars

\* form.save() writes every column of the instance.
SavePassword(w, coded) ==
  LET row == [worker[w].seen EXCEPT !.pass = Len(changes) + 2]
  IN /\ user' = row
     /\ changes' = Append(changes, [eval |-> worker[w].eval, coded |-> coded])
     /\ Goto(w, "saved", row)
     /\ UNCHANGED codes

\* Mutant of ChangeChallenged: asking for the code is taken for having it.
ChangeChallenged_Trusting(w) == SavePassword(w, FALSE)

\* Without a code one is sent; the right one is used up before the password is saved.
ChangeChallenged(w) ==
  LET seen == worker[w].seen
  IN \/ /\ worker[w].job.val # "code"
        /\ GenerateOtp
        /\ Done(w)
        /\ UNCHANGED changes
     \/ /\ worker[w].job.val = "code"
        /\ \E c \in 0 .. codes.made :
             /\ user' = [user EXCEPT !.otp = IF OtpCleared(seen, c) THEN 0 ELSE @]
             /\ IF OtpOk(seen, c) THEN Goto(w, "coded", [seen EXCEPT !.otp = 0]) ELSE Done(w)
        /\ UNCHANGED <<codes, changes>>

DecideChange(w) ==
  LET action == evals[worker[w].eval].outcome
  IN /\ At(w, "password", "decided")
     /\ \/ action = "CHALLENGE" /\ ChangeChallenged(w)
        \/ action = "ALLOW" /\ SavePassword(w, FALSE)
        \/ action = "BLOCK" /\ Done(w) /\ UNCHANGED <<user, codes, changes>>
     /\ UNCHANGED <<locks, clock, fails, records, web, devices, notes, muted>>
ChangeCoded(w) ==
  /\ At(w, "password", "coded")
  /\ SavePassword(w, TRUE)
  /\ UNCHANGED <<locks, clock, fails, records, web, devices, notes, muted>>

\* The change is recorded and announced; then the response leaves with a session
\* that update_session_auth_hash made anew, and that no SessionRecord knows.
RecordChange(w) ==
  /\ At(w, "password", "saved")
  /\ records' = [records EXCEPT !.changed = @ + 1]
  /\ Notify("PASSWORD_CHANGED", worker[w].seen.pass)
  /\ Goto(w, "recorded", worker[w].seen)
  /\ UNCHANGED <<user, codes, locks, clock, fails, web, devices, changes, muted>>
FinishChange(w) ==
  /\ At(w, "password", "recorded")
  /\ web' = [web EXCEPT ![Browser(w)] =
               [@ EXCEPT !.state = "in", !.pass = worker[w].seen.pass, !.bound = FALSE]]
  /\ Done(w)
  /\ UNCHANGED <<user, codes, locks, clock, fails, records, devices, changes, notes, muted>>

\* start_mfa_enable sends a code, confirm_mfa_enable takes it.
StartMfa(w) ==
  /\ At(w, "mfa_start", "begun")
  /\ GenerateOtp
  /\ Done(w)
  /\ UNCHANGED <<locks, clock, fails, records, web, devices, changes, notes, muted>>

ConfirmMfa(w) ==
  LET seen == worker[w].seen
  IN /\ At(w, "mfa_confirm", "begun")
     /\ \E c \in 0 .. codes.made :
          /\ user' = [user EXCEPT !.otp = IF OtpCleared(seen, c) THEN 0 ELSE @,
                                  !.mfa = @ \/ OtpOk(seen, c)]
          /\ IF OtpOk(seen, c) THEN Notify("MFA_ENABLED", "user") ELSE notes' = notes
     /\ Done(w)
     /\ UNCHANGED <<codes, locks, clock, fails, records, web, devices, changes, muted>>

\* start_totp_enrollment replaces the secret; confirm_totp_enrollment turns MFA on.
StartTotp(w) ==
  /\ At(w, "totp_start", "begun")
  /\ user' = [user EXCEPT !.totp = 1, !.last = 0]
  /\ Done(w)
  /\ UNCHANGED <<codes, locks, clock, fails, records, web, devices, changes, notes, muted>>

ConfirmTotp(w) ==
  /\ At(w, "totp_confirm", "begun")
  /\ \E right \in BOOLEAN :
       IF TotpOk(worker[w].seen, right, FALSE)
         THEN user' = [user EXCEPT !.mfa = TRUE] /\ Notify("MFA_ENABLED", "user")
         ELSE UNCHANGED <<user, notes>>
  /\ Done(w)
  /\ UNCHANGED <<codes, locks, clock, fails, records, web, devices, changes, muted>>

\* disable_mfa: the password, and a code of the authenticator when one is enrolled.
DisableMfa(w) ==
  LET seen == worker[w].seen
  IN /\ At(w, "mfa_disable", "begun")
     /\ \E right \in BOOLEAN :
          IF worker[w].job.on = seen.pass /\ (seen.totp # 0 => TotpOk(seen, right, FALSE))
            THEN user' = [user EXCEPT !.mfa = FALSE, !.otp = 0] /\ Notify("MFA_DISABLED", "user")
            ELSE UNCHANGED <<user, notes>>
     /\ Done(w)
     /\ UNCHANGED <<codes, locks, clock, fails, records, web, devices, changes, muted>>

\* trust_device, untrust_device and revoke_device, each one read and one write of
\* a device of the customer's.
ChangeDevice(w) ==
  /\ \E op \in {"trust", "untrust", "revoke"} :
       /\ At(w, op, "begun")
       /\ \E b \in Browsers :
            devices' = [devices EXCEPT ![b] =
              IF @ = "absent" \/ op = "revoke" THEN "absent"
              ELSE IF op = "trust" THEN "trusted" ELSE "untrusted"]
  /\ Done(w)
  /\ UNCHANGED <<user, codes, locks, clock, fails, records, web, changes, notes, muted>>

\* revoke_other_sessions: one other session that has a record, or all of them.
\* What a revoked one held is left to a request of it that is under way.
RevokeSessions(w) ==
  LET others == {b \in Browsers \ {Browser(w)} : web[b].state = "in" /\ web[b].bound}
      all == worker[w].job.val = "all"
  IN /\ At(w, "sessions", "begun")
     /\ \E gone \in IF all THEN {others} ELSE {{b} : b \in others} \cup {{}} :
          web' = [b \in Browsers |-> IF b \in gone THEN [web[b] EXCEPT !.state = "out"] ELSE web[b]]
     /\ Done(w)
     /\ UNCHANGED <<user, codes, locks, clock, fails, records, devices, changes, notes, muted>>

Logout(w) ==
  /\ At(w, "logout", "begun")
  /\ web' = [web EXCEPT ![Browser(w)] = Out]
  /\ Done(w)
  /\ UNCHANGED <<user, codes, locks, clock, fails, records, devices, changes, notes, muted>>

SignInStep(w) ==
  \/ BeginLogin(w) \/ Authenticate(w) \/ RecordFailure(w) \/ LogFailure(w) \/ Recognise(w)
  \/ StartLogin(w) \/ EvaluateLogin(w) \/ FinishLogin(w)
  \/ BeginCode(w) \/ VerifyCode(w)
  \/ BeginPage(w) \/ StartChange(w) \/ EvaluateChange(w) \/ DecideChange(w) \/ ChangeCoded(w)
  \/ RecordChange(w) \/ FinishChange(w)
  \/ StartMfa(w) \/ ConfirmMfa(w) \/ StartTotp(w) \/ ConfirmTotp(w) \/ DisableMfa(w)
  \/ ChangeDevice(w) \/ RevokeSessions(w) \/ Logout(w) \/ SetPreference(w)
  \/ Die(w)

Next ==
  \/ DeskNext /\ UNCHANGED signVars
  \/ \E w \in Workers : SignInStep(w)
  \/ CodesAge \/ LocksEnd \/ Tick

Spec == Init /\ [][Next]_vars

-----------------------------------------------------------------------------
(* Properties.                                                             *)

\* Every session rests on a sign-in that the engine did not refuse, and on a
\* verified code when the engine asked for one or MFA was on: whatever the mode,
\* the rules, MFA and the codes became between the steps of the sign-in.
Earned(row) ==
  /\ evals[row.eval].outcome \in {"ALLOW", "CHALLENGE"}
  /\ evals[row.eval].outcome = "CHALLENGE" \/ row.mfa => row.coded
SessionsEarned == \A b \in Browsers : web[b].state = "in" => Earned(web[b])

\* An account is locked only after MAX_FAILED wrong passwords, and its counter
\* never runs ahead of those that were counted, however stale the rows that are
\* written back.
LocksDeserved == /\ user.locked # 0 => fails >= MaxFailed
                 /\ user.failed <= fails

\* A password that was replaced was replaced because the engine allowed it, or
\* because it challenged and the code was right (a refused or unanswered change
\* leaves the old password intact, docs/auth-risk/r5-report.md:8), whoever else
\* changes it meanwhile and wherever a worker dies; and no notice tells of a
\* change that was not made.
PasswordJustified ==
  /\ \A c \in DOMAIN changes :
       \/ evals[changes[c].eval].outcome = "ALLOW"
       \/ evals[changes[c].eval].outcome = "CHALLENGE" /\ changes[c].coded
  /\ \A n \in notes : n[1] = "PASSWORD_CHANGED" => n[2] - 1 \in DOMAIN changes

\* What makes them inductive.  An evaluation that a sign-in or a password rests
\* on is over, and what is over is not touched again; a row that a request loaded
\* deserves no less trust than the row that is stored.
Settled(e) == e \in DOMAIN evals /\ evals[e].status # "EVALUATING"

Accepted(e) == Settled(e) /\ evals[e].outcome \in {"ALLOW", "CHALLENGE"}

FailuresCounted(u) == u.failed <= fails /\ (u.locked # 0 => fails >= MaxFailed)

\* A request that answers a code or changes a password was let in by an accepted
\* sign-in, and keeps what its session held whatever becomes of that meanwhile.
UserWorker(v) ==
  v.pc # "idle" /\ v.job.op \in UserOps =>
    /\ v.job.by \in Browsers
    /\ UserOK(v.seen) /\ FailuresCounted(v.seen)
    /\ v.job.op \in {"code", "password"} => Accepted(web[v.job.by].eval)
    /\ v.job.op = "password" => Earned(web[v.job.by])
    /\ v.pc \in {"evaluating", "decided", "coded"} =>
         /\ v.eval \in DOMAIN evals
         /\ evals[v.eval].op \in {"LOGIN", "PASSWORD_CHANGE"}
    /\ v.pc \in {"decided", "coded"} => Settled(v.eval)
    /\ v.pc = "coded" => evals[v.eval].outcome = "CHALLENGE"
    /\ v.pc \in {"saved", "recorded"} => v.seen.pass > 1

WebInv == \A b \in Browsers : web[b].state # "out" => Accepted(web[b].eval)

ChangesInv == \A c \in DOMAIN changes : Settled(changes[c].eval)

SInv ==
  /\ DeskInv /\ TypeOK
  /\ FailuresCounted(user) /\ WebInv /\ SessionsEarned /\ ChangesInv /\ PasswordJustified
  /\ \A j \in todo : j.op \in UserOps => j.by \in Browsers
  /\ \A w \in Workers : UserWorker(worker[w])
  /\ \A v, w \in Workers :
       /\ v # w /\ worker[v].pc # "idle" /\ worker[v].job.op \in UserOps
       /\ worker[w].pc # "idle" /\ worker[w].job.op \in UserOps
       => Browser(v) # Browser(w)

\* Not true.  A counter or a lock is never ahead of the LOGIN_FAILED records: the
\* row is saved (services.py:493) before the failure is recorded (495).
FailuresOnRecord == user.failed <= records.failed /\ (user.locked # 0 => records.failed >= MaxFailed)

\* Not true.  Every change that is over left its notice: the worker may die after
\* form.save (app_views.py:574), and notify swallows its failures.
ChangesNoticed ==
  \A c \in DOMAIN changes :
    \/ <<"PASSWORD_CHANGED", c + 1>> \in notes
    \/ \E w \in Workers : At(w, "password", "saved")

\* Not true.  A one-time code that was taken lets nobody else in: a second request
\* may have loaded the row before the first one cleared it (services.py:188).
CodesTakenOnce ==
  [][\A w \in Workers :
       At(w, "code", "begun") /\ web'[Browser(w)].coded /\ ~web[Browser(w)].coded
       => user.otp # 0 \/ user.totp # 0]_vars

\* Not true.  Revoking all others leaves no other browser signed in ("Revoke one
\* other session, or all others", services.py:140): the session that a password
\* change made anew has no SessionRecord.
OthersSignedOut ==
  [][\A w \in Workers :
       At(w, "sessions", "begun") /\ worker[w].job.val = "all" /\ worker'[w] = Idle =>
         \A b \in Browsers \ {Browser(w)} : web'[b].state # "in"]_vars

\* Not true.  MFA is switched off by disable_mfa alone, which asks for the
\* password (services.py:350): a password change saves every column of the
\* instance it loaded, and with it MFA as it was then.
MfaKept ==
  [][user.mfa /\ ~user'.mfa => \E w \in Workers : At(w, "mfa_disable", "begun")]_user

=============================================================================
