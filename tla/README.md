# Bankio in TLA+

Bankio (`src/`) is a Django application for a retail bank: a double-entry
ledger with a hash chain, transfers with a risk gate, cards, payments, loans,
investments, manager approvals, fraud engine, login and step-up challenges. It
runs on PostgreSQL at READ COMMITTED, in several gunicorn workers, with
management commands started from cron. There is no queue and no lock server:
what makes the bank correct under concurrency is transactions, row locks
(`select_for_update`), unique indexes and conditional updates. The modules here
model these operations statement by statement, let sessions interleave between
statements, and check what remains true.

## 1. Inventory

| Component (`src/apps/`) | State | Operations | Where it is hard | Modelled in |
|---|---|---|---|---|
| Ledger (`ledger/services.py`, `models.py`, `canonical.py`) | journals, entries, idempotency records, hash chain | `post_journal`, `reverse_journal`, `find_idempotent`, `record_idempotent`, `account_balance` | the tip of the chain and `reversed_by` are read without a lock; callers roll back after posting | `Ledger` |
| Proof batches (`ledger/proof_batches.py`, `merkle.py`, `proof_verification.py`, `signing.py`) | sealed id ranges, Merkle roots, manifest chain | `seal_batch`, `generate_merkle_proof`, `verify_journal`, `verify_batch_chain` | journals become visible out of id order; sealers overlap | `Merkle`, `ProofBatches`, `BatchChain` |
| Anchors (`ledger/anchor_service.py`, `anchors.py`, the command) | anchor rows, the provider's store | `anchor_batch`, `confirm_anchor` | every write commits alone; the provider refuses; the process dies; two commands at a time | `ProofBatches` |
| Transfers (`transfers/services.py`) | transfer rows, status machine | `execute_transfer`, `approve_transfer`, `reverse_transfer`, `process_due_scheduled` | check-then-debit, lock order, retries, stale instances, one transaction for a batch | `Transfers`, `TransferBook` |
| Cards (`cards/services.py`, `billing.py`) | cards, invoices, purchases, card requests | purchase, controls, closing of cycles, `pay_statement`; request and decide | limits against purchases, closing against purchases, one account behind several cards | `Products`, `BackOffice` |
| Payments, investments, lending, deposits | bills, positions, loans, instalments | `pay_bill`, `place_order`, `apply_for_loan`, `approve`, `disburse`, `repay_installment`, `fund_account` | what they lock is not always what they read | `Products` |
| Manager operations (`managerops/services.py`, `authority.py`) | approval requests, limits, restrictions, openings | create, open, ask, decide, restrict, lift, close | maker-checker and authority under concurrent decisions | `BackOffice`, closing also in `Transfers` |
| Portal (`portal/services.py`) | account applications | save, submit, decide | several tabs on one draft | `BackOffice` |
| User administration (`identity/admin_services.py`) | users | block, unblock (create and edit: not modelled) | two admins at a time | `BackOffice` |
| Risk engine (`fraud/engine.py`, `signals*.py`, `scoring.py`, `rules.py`, `policies.py`, `modes.py`, `gate.py`) | evaluations, engine mode | `evaluate_operation`, `enforce`, `effective_decision`, `resolve_failure` | an evaluation is stored in two steps, mode and rules change in between | `Risk`, `FraudDesk` |
| Fraud desk (`fraud/rule_*.py`, `alerts.py`, `cases.py`, `rbac.py`) | rules, alerts, cases | draft, approve, activate, retire, version; raise, acknowledge; open, claim, decide | services decide on the instance of their caller | `FraudDesk` |
| Step-up challenges (`fraud/challenge*.py`) | challenge rows, failed attempts | issue, confirm, attempt, reissue, view | verification under a row lock, everything else unlocked reads and unconditional updates in autocommit | `Challenge`, `OneTimeToken` |
| Sign-in (`identity/services.py`, `app_views.py`, `views.py`) | user row, codes, authenticator, lockout, devices, sessions | `attempt_login`, `otp_verify_view`, `security_view` and its services | whole rows written back from stale instances | `SignIn` |
| Notifications | rows unique by a key | `notify`, preferences | duplicates | the security notices in `SignIn` |
| Accounts: statement; compliance, customers, support, audit; analytics; portal sign-in and documents | plain records, read-only projections | read, append | - | section 6 |
| Views, forms, templates | none | one service call each; some read first | a view's read is the stale instance of the service | with the service they call |

How they meet: everything that moves money calls `ledger.post_journal` inside
its own transaction; transfers, cards, payments, sign-in, openings and manager
operations call the fraud engine in autocommit *before* their transaction, and
transfers read its result back inside; `seal_batch` and the anchoring command
read what postings committed; cron calls `process_due_scheduled`,
`close_card_statements` and the anchoring command; managers act through
`managerops`, which calls transfers, cards, the portal and accounts; challenges
are consumed in a transaction of their own just before the operation they
protect.

PROJECT.json lists every component with its status, and every hazard with its
source line and the properties that cover it.

## 2. Modules

| Module | Models | Role |
|---|---|---|
| `Ledger` | `ledger/services.py` | posting engine, `Spec`, `FairSpec`, safety and liveness |
| `Challenge` | `fraud/challenge.py`, `challenge_guard.py`, `challenge_delivery.py`, `challenge_views.py` | detailed specification, implements `OneTimeToken` |
| `OneTimeToken` | `fraud/challenge_guard.py`, its contract | abstract specification of a challenge |
| `Transfers` | `transfers/services.py`, closing in `managerops/services.py` | detailed specification, implements `TransferBook` |
| `TransferBook` | `transfers/models.py` | abstract specification: what committed rows and balances may do |
| `Products` | `cards/`, `payments/`, `investments/`, `lending/`, `accounts/services.py` | everything else that moves a customer's money |
| `Merkle` | `ledger/merkle.py` | trees, roots and proofs as functions |
| `ProofBatches` | `ledger/proof_batches.py`, `proof_verification.py`, `signing.py`, `anchor_service.py`, `anchors.py` | sealing, verification and anchoring over `Merkle`; implements `BatchChain` |
| `BatchChain` | `ledger/proof_batches.py`, `models.py`, their contract | abstract specification: the chain of sealed batches only grows |
| `BackOffice` | `portal/`, `managerops/`, `cards` requests, `identity/admin_services.py` | approvals, openings, limits, restrictions, requests |
| `Risk` | `fraud/` engine | signals, rules, score, policy and gates as functions |
| `FraudDesk` | `fraud/engine.py`, `rule_management.py`, `rule_versioning.py`, `alerts.py`, `cases.py`, `rbac.py` | evaluations, rules, alerts and cases over `Risk` |
| `SignIn` | `identity/services.py`, `identity/views.py`, `identity/app_views.py`, `fraud/auth_risk.py`, `notifications/services.py` | sign-in and the security page over `FraudDesk` |
| `LedgerProofs`, `TransfersProofs`, `ChallengeProofs`, `ProductsProofs`, `ProofBatchesProofs`, `BackOfficeProofs`, `SignInProofs` | - | theorems about the module named (`SignInProofs`: also `FraudDesk`, `Risk`; `ProofBatchesProofs`: also `Merkle`) |
| `TableTheorems` | - | facts about finite sums and tables that these proofs share |
| `MCLedger`, `MCTransfers`, `MCChallenge`, `MCProducts`, `MCProofBatches`, `MCBackOffice`, `MCSignIn` | - | TLC instances |

Operators named `X_Something` next to `X` are its mutants: the bug a property
must catch, never part of a specification.

### Ledger

`journals` and `markers` are the committed rows of `JournalEntry` and
`LedgerIdempotencyRecord`; `nextId` is the id sequence, which hands out ids at
once and never takes one back; `tx[s]` is the transaction of session `s`: its
next statement, its arguments and the journals it wrote (`own`). A request is
`BeginPost` (`find_idempotent`, the checks before the first write) or
`BeginReverse`; then `AllocateId`, `InsertDraft` (the unique reference decides),
`Seal` (the entries are checked, the tip is read, POSTED), `RecordMarker`, and
`Commit`. `NextPost` is the batch that posts again in the same transaction;
`Rollback` is any exception of the caller or the loss of the worker, at every
statement. A session sees `Visible(s)`: what is committed plus what it wrote.
An insert whose value another open transaction has inserted waits
(`WaitsFor`); `BreakDeadlock` is PostgreSQL's detector.

A digest is modelled by what it commits to: the payload hash by the id, the
chain hash by the sequence of ids back to the genesis. Amounts are naturals
(cents); descriptions, dates and metadata are left out. A negative amount is
not in `Postings`, since `LedgerEntry` refuses it.

### Challenge and OneTimeToken

`rows` are the committed `RiskChallenge` rows with two pieces of history (the
challenge one was reissued for, whether its code was delivered); `failures` are
the CHALLENGE_FAILED rows of the audit log, which is where the code counts;
`lock` is the row lock of `select_for_update`; `due` and `recent` are what the
clock says (`expires_at` passed, created within the reissue cooldown).

| Code | Actions, in order |
|---|---|
| `issue_and_deliver` | `Issue` |
| `confirm`, `attempt` | `Submit` (probe and precheck), `LockAndVerify`, `Commit`; or `Expire` after a changed fact |
| `_record_failure` | `CountFailures`, `LogFailure`, `Expire` |
| `reissue_challenge` | `Reissue`, `CheckCooldown`, `Create`, `Supersede`, `Deliver` |
| `challenge_detail` | `View`, `Expire` |

`Expire` is the heart of it: an UPDATE by primary key, decided on a row read
some time ago, that overwrites what the row has become (a CONSUMED challenge
can end EXPIRED). `OneTimeToken` says why that is harmless: under the mapping
`Life`, a challenge goes none, live, then used or dead, and stays there; under
`uses <- authorised` it is counted how often it let something through, and the
one step of the token that counts is the one into `used`. A second authorisation
would be no step of `OneTimeToken`. `authorised` and `crashes` are history.

### Transfers and TransferBook

`transfers`, `bal`, `status`, `reversed` and `evaluation` are committed rows
(`bal` is `account_balance` over them); `lock` is who holds an account row FOR
UPDATE; `ses[s]` is the transaction of a session: operation, next statement, the
transfer as this session knows it, its uncommitted versions (`writes`), its
uncommitted balance changes (`delta`) and the rows and keys it has locked
(`held`). `Commit` publishes `writes` and `delta`; `Abandon` throws them away.
What an exception told the caller stays in `crash`.

| Code | Actions, in order |
|---|---|
| `execute_transfer`, `_risk_gate` | `Execute`, `OpenEvaluation`, `Decide`, `RecordBlocked` |
| `_execute_transfer_atomic`, `_settle` | `Begin`, `LockSource`, `LockDestination`, `CheckLimits`, `InsertTransfer`, `Commit` |
| `approve_transfer`, `_settle_locked` | `Approve` (the caller's read), `Claim`, `ApproveLock`, `ApproveSettle`, `Commit` |
| `reverse_transfer`, `reverse_journal` | `Reverse` (the caller's read), `Undo`, `PostMirror`, `Commit` |
| `process_due_scheduled` | `StartJob`, `SettleDue` per transfer, `Commit` |
| `request_account_closure` | `Close`, `LockToClose`, `CheckEmpty`, `Commit` |

Time is abstracted: which PENDING transfers are due is any subset of them, and
all completed transfers count towards one daily total (the limit of one day).
Decisions of the engine are chosen from `Verdicts`; how they are computed is
`Risk`. Of a stored evaluation only what is read back is kept: whether the newest
one of the key says REVIEW, and who has still to store its decision. `clawback` and the field `verdict` are history.

`TransferBook` is what a reader of the database may rely on: a transfer enters
the book once, moves along `ALLOWED_TRANSITIONS` (composed, because CREATED and
PROCESSING never commit), and balances change in the step in which a transfer
completes or is reversed, by its amount. `Transfers` implements it under the
mapping `rows <- transfers, cash <- bal` (`BookSpec`).

### Products

`rows` are the settled operations, each with its journal: a balance is computed
from them, because there is no balance column. `cards`, `statements`, `loan` and
`position` are the other committed rows; `ses[s]` is what a session's
transaction asks for, has read and has locked. Every operation is a request, a
lock, a decision and a commit:

| Code | Actions, in order |
|---|---|
| `purchase`, `_purchase_atomic` | `Purchase`, `Lock`, `CheckPurchase`, `SettlePurchase` |
| `pay_statement` | `PayStatement`, `Lock`, `CheckStatements`, `SettleStatements` |
| `pay_bill`, `resume_payment` | `PayBill`, `Lock`, `LockBill`, `CheckBill`, `SettleBill` |
| `place_order` | `PlaceOrder`, `Lock`, `CheckOrder`, `SettleOrder` |
| `fund_account` | `FundAccount`, `Lock`, `CheckDeposit`, `SettleDeposit` |
| `apply_for_loan`, `approve`, `disburse`, `repay_installment` | `ApplyForLoan`; `ApproveLoan`, `Lock`, `CheckLoan`, `SettleLoan`; `RepayInstalment`, `Lock`, `CheckRepayment`, `SettleRepayment` |
| `close_card_statements` | `CloseCycle`, `InsertStatement` |
| card controls | `SetCardControl` |

They differ in `Locks`, what their first statement takes FOR UPDATE, and this is
what the properties are about. The clock knows one day of each month. The cron
job closes the month before, `--reference` any other month that has begun, the
open one included (`CloseCycle(s, c, m)`): an invoice then has the purchases made
so far, and the month is not closed again.

### Merkle and ProofBatches

`Merkle` builds levels, roots and authentication paths as `merkle.py` does,
duplicated last nodes included; a hash is the term it commits to. In
`ProofBatches` a journal gets its id when its row is inserted and becomes
visible at commit, in any order (`InsertJournal`, `CommitJournal`,
`RollBackJournal`). `seal_batch` is `ReadJournals` (the last batch, the rows
after it up to the first gap) and `CreateBatch` (the unique sequence decides),
or `AbortSeal`. The anchoring command is `StartCommand`, then per batch
`CheckAnchors`, `FindExisting`, `InsertAnchor`, `Submit`, `RecordSubmission`,
then `StartPolling`, `GetStatus`, `MarkAnchored`, `SaveConfirmed`,
`EndCommand`; each is committed by itself, and `Restart` may come between any
two and empties the provider's store, which is memory of the process.
`VerifyJournal` and `ChainVerdict` are the verifiers as functions, and the
properties ask them.

`BatchChain` is what an auditor may rely on ("Once SEALED the membership range,
root and signature are immutable", `models.py:100`): a batch is only ever put on
top of the batch that is on top *at that moment*, over journals that are posted,
and neither a manifest nor an anchored status is ever taken back. It knows
nothing of sealers, gaps in what they read, or commands. `ProofBatches`
implements it under `chain <- Manifests` (the manifests of the rows, which
marking a row ANCHORED leaves alone) and `anchored <- AnchoredOnes` (their
sequences), with `posted` as it is (`ChainSpec`).

### BackOffice

A job begins with what its view or its first statements read without a lock
(`Begin...`, kept in `seen`), waits for a row lock where the code takes one
(`Lock...`), and does the rest in one step that commits or raises. `apps` are
the portal's applications, `requests` the approval requests, `openings`,
`limit`, `restrictions`, `closed`, `cards` and `active` the rows decisions
write. Amounts are replaced by the manager rank that just covers them, which is
all `authority.py` asks. A behaviour serves one of the sets of jobs in
`Workloads`; KYC reviews are entered from outside (`ReviewKyc`). `Decide` is
`decide_approval` from its row lock to its commit: `MayDecide` reads the request
again under the lock, and what the effect raises (`DecideOpening` on a customer
whose KYC was revoked) takes the decision back with it.

### Risk, FraudDesk and SignIn

`Risk` is the engine without state: `Collect` (which objects a flow passes,
which a signal declares, which it needs), `Triggered`, `Score`, `RiskLevel`,
`Decide`, `EffectiveDecision`, `Enforce`, `SignInAction`, `OutcomeOfFailure`
(the fail-safe matrix) and `AtoPoints`. A rule has one condition, a fact that
holds or does not; thresholds are abstracted.

`FraudDesk` adds the rows and who changes them. An evaluation is
`CreateEvaluation` (EVALUATING, with the mode of that moment) and later
`Complete` or `Fail`; `SetMode`, `CreateDraft`, `NewRuleVersion`, `ApproveRule`,
`ActivateRule`, `DisableRule` change the rules meanwhile, `RaiseAlert`,
`AcknowledgeAlert`, `OpenCase`, `Claim` and `Move` handle the consequences. A
service works on the instance loaded in its `Begin...` step. `maker` is
`created_by`, which a version does not have; `author` is history, who made the
row whether it says so or not.

`SignIn` extends it with one customer and several browsers. `user` is the User
row; codes, passwords and lockouts are numbered as they are made. `AfterCode`
and `SavePassword` say which columns a save writes, and from which instance.
Nothing runs in a transaction here, and a worker may die between any two
commits (`Die`): the counter and the lock are saved before the failure is
recorded, the new password before the change is recorded and announced, and
`Notify` may fail. `fails` counts the failures saved on the row, `records` the
audit records, which is what the signals read. `pend` is `pending_otp_user`,
which a sign-in without a code leaves in its session; `bound` says that a
`SessionRecord` has the session's key.

| Code | Actions, in order |
|---|---|
| `attempt_login`, `login_view` | `BeginLogin`, `Authenticate`, then `RecordFailure`, `LogFailure`, or `Recognise`, `StartLogin`, `EvaluateLogin`, `FinishLogin` |
| `otp_verify_view`, `verify_otp`, `verify_totp` | `BeginCode`, `VerifyCode` |
| `security_view` | `BeginPage`, then `StartChange`, `EvaluateChange`, `DecideChange`, `ChangeCoded`, `RecordChange`, `FinishChange` (password), `StartMfa`, `ConfirmMfa`, `StartTotp`, `ConfirmTotp`, `DisableMfa`, `ChangeDevice`, `RevokeSessions`, `Logout`, `SetPreference` |
| time and crashes | `CodesAge`, `LocksEnd`, `Tick`, `Die` |

## 3. Runs

Passing runs, and what they show:

| Run | Question | Instance |
|---|---|---|
| `LedgerBooks` | do the books balance at every commit, is nothing reversed twice, nothing posted twice under a key, no hash left hanging, does every transaction end | 2 sessions, 4 accounts in 2 currencies, one frozen, 6 line lists (good, unbalanced, zero, mixed, frozen, empty), 4 ids, `FairSpec`; 256 thousand states |
| `TransfersMoney` | overdrafts; balances against rows; a closed account has and gets no money from requests; refinement of `TransferBook` | 2 sessions, 2 keys, a request and a scheduled transfer back, every verdict, every operation; 1.4 million states under symmetry |
| `TransfersLive` | the daily limit under concurrent requests; everything ends, lock-order deadlock included; scheduled transfers are settled or FAILED | 2 sessions, 2 keys, a request and an opposite scheduled order, closing, balances of 4 and 1 and limits of 3, `CronSpec`; 66 thousand states |
| `Challenges` | does every challenge authorise at most once and never after it was used or killed (`TokenSpec`), does a delivered replacement leave its predecessor dead, how many wrong codes get through; `CInv` | 2 sessions, a challenge and its replacement, `MaxAttempts` 2, one crash; 2 million states under symmetry |
| `Products` | are debits covered where the account is locked, is nothing settled twice, do purchases respect the card as it is when they settle, do invoices stand, is a PAID loan paid, do positions match orders | 2 sessions, 2 accounts, 2 cards, 16 requests that collide in pairs, a loan of 2 instalments, 3 operations, 2 months, closing of either; 2 million states under symmetry |
| `ProofBatches` | do overlapping sealers leave one gapless chain, does every sealed journal keep its proof and no other journal has it, is no anchor confirmed whose batch is not; refinement of `BatchChain` | 2 sealers, 2 anchoring commands, 3 journals, 2 anchors, 1 crash; 647 thousand states under symmetry |
| `BackOffice` | do reviews stay decidable, is activation gated by KYC, does the requester never approve and authority cover what is in force, one card per request, is a decision, taken once, on record together with its effect, does every job that was begun end | 2 workers, 7 workloads (one applicant in two tabs, two applications of one email, openings, limits, restrictions, card requests, blocking), 3 managers of 2 ranks, `FairSpec`; 95 thousand states |
| `SignIn` | does control of transfers and sign-ins grow with risk, are rules in force approved by another than their recorded creator, do cases match their timeline, are sessions, locks and password changes earned | 2 workers, 2 browsers, 11 workloads (lockout, challenged sign-in, authenticator, code MFA, one password change, two of them, pages, flows, observed flows, rules, cases), 2 failures lock, 2 wrong codes end a sign-in; 2.2 million states |

Runs that TLC finds violated, each a disagreement of the code with what the
repository says of it (details under "findings" in PROJECT.json):

| Run | Property | What the run shows |
|---|---|---|
| `ApprovalStuck` | `ApprovalSettles` | `_settle` asks for PROCESSING twice: approving a funded transfer raises ValueError |
| `InvoiceUnpaid` | `PayingAllPays` | the button that pays all open invoices sends the same key every month, and the second time pays nothing |
| `SealGap` | `NoneLeftBehind` | a journal that commits after a higher id was sealed is in no batch, now or later |
| `RulesBlind` | `VelocitySeen` | transfers pass two objects to every signal, none takes both, each raises TypeError, and no rule about the velocity of transfers fires |

*Why the bounds are enough.* Every hazard involves two actors and one shared
thing: a key, a reference, an account or a pair of accounts, a card, a batch, a
row of the desk. Two sessions give every interleaving of a pair. Two accounts
are enough for opposite lock orders and one for a shared balance; amounts are
chosen so that each request alone is covered and two together are not. Two ids
per session leave room for a rolled-back journal between two committed ones;
three journals make a batch of odd length, a gap, and a late commit below a
sealed range. Two anchor rows are what two commands or one retry make.
`MaxId`, `MaxAnchors`, `MaxCommands`, `MaxCrashes`, `MaxRows`, `MaxMonth` and
`MaxClock` bound what would grow, each in a guard; keys are finite and a key
with a row starts no new request. `Workloads` bound `BackOffice` and `SignIn`:
a behaviour picks one set of jobs, and each set holds the jobs that meet in the
same rows, in any order and overlap. Thresholds are scaled: two failures are
enough to be too many, so `MaxAttempts`, `MaxFailed` and `MaxTries` are 2
instead of 5. Every property has a mutant in PROJECT.json, a plausible bug TLC
finds on the same instance.

*Deadlock checking* is off everywhere: a bank with no more ids, keys or jobs
rests, legally.

*Fairness.* `Ledger` assumes weak fairness of each session's next statement: a
worker that can execute does. `Transfers` and `BackOffice` assume strong
fairness of it: a waiter is not overtaken for ever, because PostgreSQL queues
the waiters of a lock. `CronSpec` adds that cron keeps starting the batch, that
once in a while everything pending is due, and that from some time on the batch
is not killed in the middle - if every run were killed, nothing could be
promised, because the batch is one transaction. No fairness is given to
requests, approvals, crashes or rollbacks. `Products`, `ProofBatches` and
`SignIn` state no liveness: where their operations wait at all, they take rows
in one order (card and account, then bill).

### Stated and not true

These are definitions of the modules that say what a doc, a comment or a reader
would expect, and that TLC refutes on small instances. No run keeps the
counterexamples; each comment says "Not true" and why.

| Definition | Expectation | How it fails |
|---|---|---|
| `Ledger.ChainLinear` | the hash chain is a line (`verify_ledger_hash_chain`) | two postings read the same tip, and an untouched ledger is called INVALID |
| `Transfers.ClosesEmpty` | an account is closed with a zero balance | the batch credits an account it has not locked while it is being closed |
| `Transfers.RetryReturnsOriginal` | a retry gets the original transfer | a retry that waits behind the original ends in IntegrityError |
| `Transfers.ReviewHonoured` | a transfer routed to review waits for it | the flag is read from another request's evaluation |
| `Challenge.AttemptsTombstone` | too many wrong codes kill a challenge | two at once are both counted too low |
| `Products.InvoicesComplete` | an invoice has every purchase of its month | one made before midnight commits after the closing, or the month was closed early |
| `Products.InvoicedWhenOver` | no month is closed before it is over | nothing compares `--reference` with today |
| `Products.ChargedOnce` | a credit purchase is charged once | it debits the account, and so does the payment of its invoice |
| `Products.AllPositionsMatchOrders` | shares held are bought less sold, for every customer | two accounts of one customer trade at once (`PositionsMatchOrders` is about those with one) |
| `ProofBatches.OneLiveAnchor` | a batch has one live anchor | two commands find none |
| `ProofBatches.ConfirmedStays` | a CONFIRMED anchor stays so (the batch does, `ChainSpec`) | a second command saves the instance it loaded before over it |
| `BackOffice.SomeAdminActive` | the last active admin cannot be blocked | two admins who block each other both count two |
| `BackOffice.EscalationHeld` | an application is decided at the level of its risk | a second tab's save changes the risk after the request was queued |
| `BackOffice.NewestLimitStands` | of two limits asked for the newer stays | the older request is approved last |
| `BackOffice.SubmittedStays` | what is under review stays as submitted | a tab loaded before saves DRAFT over it |
| `FraudDesk.AllControlEscalates` | more points are treated more strictly, for every operation | a card purchase or a bill that is challenged at MEDIUM goes on when HIGH says REVIEW, a password change that is challenged at HIGH goes on at CRITICAL |
| `FraudDesk.TerminalAbsorbing` | terminal case states are absorbing | a stale instance is saved over them |
| `FraudDesk.AuthorsDoNotApprove` | the creator of a rule version can never approve it (`rule_management.py:4`) | `new_rule_version` records no creator, and `approve_rule` compares with a recorded one only |
| `SignIn.OthersSignedOut` | all other sessions are signed out (`services.py:140`) | a password change gives its session a key that no `SessionRecord` has |
| `SignIn.MfaKept` | only `disable_mfa` turns MFA off | a password change saves every column of a stale instance |
| `SignIn.CodesTakenOnce` | a code that was taken lets nobody else in | a second request has loaded the row before the first clears it |
| `SignIn.FailuresOnRecord` | the records account for every counted failure and lock | the row is saved first, and the worker may die |
| `SignIn.ChangesNoticed` | every password change that is over left a notice | the worker may die after `form.save`, and `notify` swallows its failures |

## 4. Proofs

Every safety property a passing run checks is also a theorem, for every number
of sessions, accounts, keys, cards, batches, rules, browsers and every set of
requests. The proofs of a component are in a module of their own that extends
the component's; `TableTheorems` holds the facts they share.

| Theorem | Says |
|---|---|
| *LedgerProofs* | |
| `LedgerInvariant`, `LedgerTypes` | `LInv`, hence `TypeOK`, always holds |
| `JournalsReversedOnce` | no journal is reversed twice, and a reversal mirrors its original |
| `KeysPostOnce` | one journal per idempotency key, and the marker names it |
| `ChainStaysRooted` | no committed chain hash hangs on a rolled-back journal |
| `JournalsBalance` | `BooksInv`: each journal, committed or pending, balances in one currency |
| `BooksStayBalanced` | in each currency the balances of debit-normal accounts equal those of the others |
| *TransfersProofs* | |
| `TransferInvariant`, `TransferTypes` | `TInv`, hence `TypeOK`, always holds |
| `TransfersNeverOverdraw` | no interleaving overdraws an account, but for what reversals take back |
| `TransfersBacked` | `MInv`: each open operation is backed by the rows it holds |
| `TransfersMatchLedger` | a balance is what completed transfers brought and took |
| `TransfersWithinLimit` | concurrent requests stay within the daily limit together |
| `ClosedAccountsStayEmpty` | a closed account has and gets no money from requests |
| `TransfersImplementBook` | `Transfers` implements `TransferBook` |
| *ChallengeProofs* | |
| `ChallengeInvariant` | `CInv`, hence type correctness of challenges, always holds |
| `ReplacementsSupersede` | once a replacement code is delivered, its predecessor is EXPIRED |
| `ChallengesAreOneTime` | `Challenge` implements `OneTimeToken`, uses counted |
| `GuessesInvariant` | `GInv`: wrong codes taken and wrong codes still possible are bounded together |
| `GuessesStayBounded` | MAX_ATTEMPTS is exceeded by at most two per other session and one per crash |
| *ProductsProofs* | |
| `ProductsInv`, `ProductsTypes` | `PInv`, hence `TypeOK`, always holds |
| `DebitsAreCovered` | debits that lock the account they check never spend more than it has |
| `SettlesOnce` | a bill, an instalment and an invoice are paid once, a loan is paid out once |
| `InvoicesWithinPurchases` | no purchase is billed twice, whichever month is closed |
| `PaidMeansPaid` | a PAID loan has no open instalment |
| `PositionsMatch` | shares held are shares bought less shares sold |
| `PurchasesKeepLimits` | a purchase settles only on an active card within its limits of that moment |
| `ClosedInvoicesStand` | an invoice changes only by being paid |
| *ProofBatchesProofs* | |
| `ProofsLeadToRoot` | the proof built for any leaf of a tree of any size verifies against its root |
| `BatchesInv`, `BatchTypes` | `BInv`, hence `TypeOK`, always holds |
| `SealedStaysProvable` | a proof rebuilt later leads to the sealed root |
| `ProofsNameOne` | the proof of one journal verifies for no other |
| `ChainStaysValid` | the batch chain has no gap, no broken link, no journal twice |
| `ConfirmedMeansAnchored` | no anchor is CONFIRMED while its batch is not ANCHORED |
| `ChainOnlyGrows` | `ProofBatches` implements `BatchChain` |
| *BackOfficeProofs* | |
| `OfficeInv`, `OfficeTypes` | `OInv`, hence `TypeOK`, always holds |
| `ReviewsAreReachable` | an application under review keeps a request in the queue |
| `OpenedOnVerifiedKyc` | an opening becomes active once, on an approved KYC review |
| `AuthorityHolds` | no maker approves his own request; authority covers what is in force |
| `OneCardIssued` | one card per approved request, none otherwise |
| `RecordInv` | `Recorded`: what the next theorem needs besides `OInv` |
| `DecisionsAreOnRecord` | openings, limits and customers are what approved requests made them |
| `DecisionsAreFinal` | a request is decided once, and no decision changes |
| *SignInProofs* | |
| `SignInInv`, `SignInTypes` | `SInv`, hence `TypeOK`, always holds |
| `RulesAreChecked` | no rule is in force that its recorded creator approved |
| `TimelinesAreTrue` | the timeline of a case ends with its status |
| `ControlNeverSoftens` | more points of a transfer or a sign-in are never answered more mildly, for every set of rules |
| `SessionsAreEarned` | no session without a sign-in the engine let through and its code |
| `LocksAreDeserved` | no lock without `MaxFailed` counted failures, no counter ahead of them |
| `PasswordsAreJustified` | a password changes only by an allowed or answered change, and no notice tells of another |

Each invariant is proved inductive with one lemma per action; the theorem of a
property then follows from the invariant. The invariants are stated in the
component's module; TLC found each true on the instance of the component's run
before it was proved, and `CInv`, which says in the module's own terms that a
challenge authorises at most once, stays in a run.

*LInv.* `ReversedOnce` is not inductive: a session that passed the unlocked
look at `reversed_by` has already decided. What stops it is the reference
REV-*original*: `RefsApart` says that no two transactions, open or committed,
hold one reference, and `ReversalsShaped` that a reversal carries its
original's reference and mirrored lines, in every open transaction.
`LinksVisible` says each uncommitted journal hangs on one its session sees, so
that committing all of `own` at once keeps `ChainRooted`. `KeysApart` and
`KeyedOwn` say the same of markers: a marker and its journal are committed
together, and the session holding a key is alone with it.

*BooksInv.* What the engine checks is one journal: debits equal credits, in one
currency. What a bank needs is a statement about accounts. Both are sums over
the table of entries, one by rows and one by columns; `SumSwap` exchanges them.
A reversal is balanced because it swaps the sides of a journal that is.

*TInv.* `NoOverdraft` needs to know that what a session has promised to take
is still there when it commits. `Solvent` says so: a session with a negative
`delta` on an account holds its lock, and the balance covers the `delta`
(`Covered`); nobody else can lower that balance, because everybody else's
debits need that lock - except reversals, which debit without a lock and are
counted in `clawback`. `RowsStay` says rows a session has read do not
disappear. Frame lemmas show that a step that touches one session's locals and
no balance keeps the others' parts; then there is one step per action.

*MInv.* `TInv` speaks of balances; the rest of `Transfers` is about rows.
`HeldOnce` says no row is written by two transactions. `Accounted` says that
the journals a transaction has posted are exactly those of the rows it wrote,
so that publishing both together keeps balances and rows in agreement. For
each operation one predicate says what it may rely on at each statement,
although the row its caller read was not locked: `RequestBacked` (the accounts
are locked, the limit was checked under that lock), `ReviewBacked` and
`ReversalBacked` (only the status of a stale row can be out of date; a reversal
about to commit is alone with its REV- reference), `BatchBacked` (the locked
rows wait as they did), `ClosingBacked`. `RowsSound` ties REVERSED rows to
posted reversals. Every commit is then one `RowsStep`: each row moves legally
or enters, and the balances move by what the rows are worth, which is the step
of `TransferBook`, for a batch of any size too. `OthersBacked` is the frame: a
commit of one session leaves what the others rely on.

*CInv.* `CommitLocked` says that a session that has verified a code holds the
row lock of a challenge that is still PENDING, although others hold stale
copies of it; therefore `UsedUp`: what has authorised an operation has
authorised one, is CONSUMED or EXPIRED, and never PENDING again, because no
statement of the code writes PENDING to an existing row. `SessionsKnow` carries a reissue from one statement
to the next: at `deliver` the predecessor is EXPIRED, which is what
`SentSupersedes` needs and nothing undoes. The refinement has one step per
action that can change a `Life` (`OneLifeStep`), the others stutter.

*GInv.* `GuessesBounded` is not inductive, since a wrong code is taken under the
lock and counted after it. `Left` says how many more wrong codes a session can
add to a challenge; the sum over the sessions is a potential that every step
either lowers or pays for, and a crash pays with `crashes`.

*PInv.* A session that is about to write has checked something some statements
ago. `Covered` says which rows it holds since its first statement, `LocksApart`
that nobody else does, and `Ready` that what it found is still true: the card
active and within its limits, the account funded (for the operations that lock
it), the bill open, the invoices unpaid, the position as read. What is not
locked is in `Ready` only where others cannot undo it. `PaymentsMarked` is what
makes an invoice paid once.

*BInv.* `BatchSound` says that a batch commits to a run of posted journals
without a gap (`IdRun`), each once, and links to the batch before it;
`BatchesInLine` that sequences count from 1 and ranges are disjoint and in
order. `SealerSound` keeps this for a sealer that read its last batch before
another one inserted: the unique sequence then refuses it. `CommandSound`
follows an anchoring command from statement to statement; only one that has
marked the batch confirms its anchor. The properties ask the verifiers, so the
rest of that module is about what they compute: `Merkle`'s trees as recursive
functions, the path of a leaf as the sequence of its positions, `ById`, which
orders the rows found, and `Selected`, which stops at the first gap.
`ProofsNameOne` takes hashes as injective and shows that two leaves at
different places cannot climb one path.

The refinement needs no more than *BInv*. A sealer has read its last batch some
statements ago, and `BatchChain` asks for the top of now; but sequences count
from 1 without a gap, so that the next sequence is free only if the last batch
read is still the last one (`NewBatchIs`). Marking a batch rewrites its row
(`MarkAnchors`), but of the row only what is in no manifest. Every other step
stutters, a crash and the roll-back of a journal included.

*OInv.* `ReviewsReachable` survives stale saves because the one save that puts
an application under review queues a request in the same transaction, a draft
saved over it takes it out of review, and a request is decided together with
its application. `OpenedWhenActive` says that accounts
are opened by the step that activates, so that it happens once;
`RequestsNameRows` that requests name existing rows.

*Recorded.* On top of *OInv*, `OneRequestEach`: an opening is queued once, in the
step that creates it, so that activating it cannot belong to another request
that is still pending. What is on record is kept by three kinds of steps: one
that appends a request (`Approved` keeps its witness), one that decides a
request (its effect is in the same step, or the step changes nothing), and one
that sets a limit within the manager's own authority (which asked nobody). The
decisions stand (`DecidedOnce`) because `MayDecide` reads the status under the
lock; a manager who trusts the page he decides from would break the record too,
which is what the run checks.

*SInv.* `DeskWorker` says what a service may rely on in the instance it loaded
in its `Begin...` step: the maker of a rule never changes, what was approved
stays checked, an evaluation under way is still open and belongs to one worker.
`FailuresCounted` holds for the user row *and* every loaded copy of it: a
counter never runs ahead of the failures counted so far, and a lock was earned,
hence saving a stale copy cannot invent one. `WebInv`, `ChangesInv` and
`UserWorker` connect a browser and a password change with the evaluation they
came from; a session may be revoked or end under a request, but keeps what it
rests on (`WebKept`), so that a change that makes a session anew gives it to no
one who had not earned it. `ControlNeverSoftens` needs that thresholds are
ordered, in every mode, and that what is stricter is done more strictly, which
is so for transfers and sign-ins only.

*Sums, trees and recursion.* The prover has no induction it can instantiate, but
it has well-foundedness (`WFMin`): `Smallest` and `LeastNumber` in
`TableTheorems` give a smallest counterexample, a finite set or a number, and
one step below it contradicts it. That is how the sums of the community modules
(empty, one more, part, union, addition, monotone, exchanged) and the recursive
functions of `Merkle` get their laws.

*Assumptions.* All of them are about constants, and TLC evaluates them on every
run. Types, and that sets a behaviour must choose from are not empty, apart:
`LedgerAssumption`, `TransfersAssumption` and `ProductsAssumption` take
accounts, keys and daily limits as finite sets, because totals are sums over
them (tables have finitely many rows, an idempotency key is a
`CharField(max_length=64)`). `ChallengeAssumption` takes finitely many
sessions: they are workers. `ProductsAssumption` also says that card operations
settle from the account of the card and that there is one loan, which is what
the module models. `OfficeAssumption` says that KYC reviews are of known
customers and the jobs of `Workloads` name what exists; `DeskAssumption` that
rules in force at the start were approved by another (a behaviour starts with
rules the desk has activated before, and nothing else activates any);
`SignInAssumption` that browsers are known and bounds positive;
`ProofAssumption` that bounds are numbers and a batch holds at least one
journal.

*Only model-checked:* liveness, `TransactionsEnd`, `OperationsEnd`,
`ScheduledSettle` and `JobsEnd`. It needs fairness, ENABLED and leads-to
arguments over sets of sessions, out of the proof system's reach. The findings
and the definitions of "Stated and not true" are TLC counterexamples.

## 5. Plan

The model covers what the bank decides and what it writes, and its safety
properties and the refinements of its three abstract specifications
(`TransferBook`, `OneTimeToken`, `BatchChain`) are proved. What is left:

1. The invariants of the abstract specifications themselves, stated and proved
   there, so that a reader of `TransferBook` or `BatchChain` need not open the
   detailed module.
2. The weaker form of `SomeAdminActive` that holds when one admin acts at a
   time, and of `NoneLeftBehind` for journals committed in id order.
3. The composition of `Challenge` with `Transfers` (section 6), whose interface
   the two abstract specifications already give.
4. Liveness stays with TLC until the proof system handles ENABLED.

## 6. Not modelled, and why

- The account statement (`accounts/statement.py`), fraud analytics, insider
  detection, backtesting (`simulate_rule`), the manager's customer filter
  (`managerops/access.py`) and the pages of `fraud/security_ops.py`: read-only
  projections of rows that the modules above write; nothing they compute is
  read back to decide.
- The composition of `Challenge` with `Transfers`: each is modelled alone, the
  gate answering ALLOW for a challenge that was confirmed. What falls between
  them, a crash after the challenge was consumed and before the transfer
  settles (`transfers/services.py:147`), costs the customer a new challenge and
  is in neither module.
- Sign-in of the portal, uploaded documents, creating and editing users, the
  guided tour, support tickets, customers' profiles: records written in one
  statement that nothing races with.
- Rendering, forms, HTTP and routing; audit rows and notifications inside
  operations, but for those that code reads back (failed challenges, failed
  logins) and the security notices of `SignIn`.
- `compliance.evaluate_fraud`, which the fraud engine has superseded, and seed
  and demo commands.
- Cryptographic primitives, taken as injective; decimal formatting; thresholds
  of rules, effective windows of rules and policies.

PostgreSQL is modelled from how the code uses it - row locks, unique indexes,
READ COMMITTED, sequences, deadlock detection - and marked external in the map,
as are the management commands' scheduler and the Django sessions.
