----------------------------- MODULE BackOffice -----------------------------
(***************************************************************************)
(* The bank's back office: the public application portal (apps/portal),    *)
(* manager operations with maker-checker approvals (apps/managerops), card *)
(* requests (apps/cards/services.py) and user administration               *)
(* (apps/identity/admin_services.py).                                      *)
(*                                                                         *)
(* Every request is one READ COMMITTED transaction after a view that reads *)
(* without a lock.  A job is modelled by the reads it makes before it      *)
(* holds a lock or writes (Begin...), by the row lock it waits for (Lock)  *)
(* and by the rest, which commits or raises and leaves nothing.            *)
(*                                                                         *)
(* A customer is identified by an email address, which is unique.  Amounts *)
(* are the manager ranks whose authority just covers them.                 *)
(***************************************************************************)
EXTENDS Integers, Sequences, FiniteSets

CONSTANTS
  Sessions,    \* web workers
  Rank,        \* [managers -> 1..4], LEVEL_ORDER of the manager's profile
  Admins,      \* users with role ADMIN
  Drafts,      \* how many portal applications visitors have started
  Accounts,    \* how many bank accounts exist at the start
  Customers,   \* emails of the customers that exist at the start
  Verified,    \* those whose latest KYC review is APPROVED
  Workloads,   \* bound: the sets of jobs among which a behaviour picks one
  None

Managers == DOMAIN Rank
Levels   == 1 .. 4

\* A job: who does it, on which row or email, with which amount or risk, and
\* whether it approves or, for a portal decision, asks for more information.
Job == [op : STRING, n : Nat, by : STRING, on : Nat, email : STRING, val : Nat, yes : BOOLEAN]

\* A job names what is there: a draft that was started, an admin.
WellFormed(j) == /\ j \in Job
                 /\ j.op \in {"save", "submit"} => j.on \in 1 .. Drafts
                 /\ j.op = "save" => j.val \in 1 .. 2
                 /\ j.op = "unblock" => j.email \in Admins

ASSUME OfficeAssumption ==
  /\ Drafts \in Nat /\ Accounts \in Nat
  /\ \A m \in Managers : Rank[m] \in Levels
  /\ Verified \subseteq Customers
  /\ \A W \in Workloads : \A j \in W : WellFormed(j)

-----------------------------------------------------------------------------
(* Authority (authority.py).  THRESHOLDS grow with the rank: a rank may    *)
(* approve the amounts up to itself, and none above 4 is anyone's.         *)

PeerOps == {"ONBOARDING_REVIEW", "ACCOUNT_CLOSURE"}

\* authority_limit: None (here -1) when the rank has no entry for the operation.
AuthorityLimit(rank, op) ==
  CASE op = "LIMIT_INCREASE"  -> rank
    [] op = "ACCOUNT_OPENING" -> IF rank = 1 THEN 0 ELSE rank
    [] op = "LOAN_APPROVAL"   -> IF rank = 1 THEN -1 ELSE rank
    [] op \in PeerOps         -> 0

CanApprove(rank, op, amount) ==
  /\ AuthorityLimit(rank, op) >= 0
  /\ amount # None => amount <= AuthorityLimit(rank, op)

\* The lowest level whose threshold covers the amount; REGIONAL when none does,
\* and for who has no entry of his own: nobody else is looked for then.
RequiredLevel(rank, op, amount) ==
  LET able == {l \in Levels : AuthorityLimit(rank, op) >= 0 /\ amount <= AuthorityLimit(l, op)}
  IN IF able = {} THEN 4 ELSE CHOOSE l \in able : \A k \in able : l <= k

-----------------------------------------------------------------------------

VARIABLES
  todo,         \* jobs not yet begun
  session,      \* what each worker is doing
  apps,         \* portal AccountApplication rows
  users,        \* emails of users with a customer role
  kyc,          \* those whose latest KYC review is APPROVED
  openings,     \* managerops AccountApplication rows
  requests,     \* ApprovalRequest rows
  limit,        \* tx_limit of each account, with who set it
  restrictions, \* AccountRestriction rows
  closed,       \* accounts that are CLOSED
  cards,        \* CardRequest rows, with the number of cards issued
  active        \* the admins that are not blocked

portal == <<apps, users, kyc, openings>>
office == <<limit, restrictions, closed, cards, active>>
vars == <<todo, session, portal, requests, office>>

NoRow == <<"none", 0>>
Idle  == [pc |-> "idle", job |-> None, row |-> NoRow, seen |-> None]

Init ==
  /\ todo \in Workloads
  /\ session = [s \in Sessions |-> Idle]
  /\ apps = [a \in 1 .. Drafts |->
               [status |-> "DRAFT", email |-> None, risk |-> 1, decider |-> None]]
  /\ users = Customers
  /\ kyc = Verified
  /\ openings = <<>>
  /\ requests = <<>>
  /\ limit = [a \in 1 .. Accounts |-> [val |-> 1, by |-> None, asked |-> None]]
  /\ restrictions = <<>>
  /\ closed = {}
  /\ cards = <<>>
  /\ active = Admins

AppStatus == {"DRAFT", "IDENTITY_REVIEW", "ADDITIONAL_INFORMATION_REQUIRED", "REJECTED",
              "ACCOUNT_CREATED"}
InReview  == {"IDENTITY_REVIEW"}

\* The rows of the tables.
Names      == STRING \cup {None}
AppRow     == [status : AppStatus, email : Names, risk : 1 .. 2, decider : Names]
OpeningRow == [email : Names, state : {"PENDING_KYC", "PENDING_APPROVAL", "ACTIVE"},
               checked : BOOLEAN, accounts : Nat]
RequestRow == [op : PeerOps \cup {"LIMIT_INCREASE", "ACCOUNT_OPENING", "LOAN_APPROVAL"},
               on : Nat, by : Names, level : Levels, amount : Nat \cup {None},
               status : {"PENDING", "APPROVED", "REJECTED"}, reviewer : Names]
LimitRow   == [val : Nat \cup {None}, by : Names, asked : Names]
CardRow    == [on : Nat, status : {"PENDING", "APPROVED", "REJECTED"}, issued : Nat]

\* What a worker serves, and what it has read, depending on the job.
SessionOK(w) ==
  /\ DOMAIN w = DOMAIN Idle /\ w.pc \in {"idle", "begun", "locked"}
  /\ w.pc # "idle" => \E W \in Workloads : w.job \in W
  /\ w.pc # "idle" /\ w.job.op \in {"save", "submit"} => w.seen \in AppRow
  /\ w.pc # "idle" /\ w.job.op = "save" => w.seen.status = "DRAFT"
  /\ w.pc # "idle" /\ w.job.op = "open" => w.seen \in BOOLEAN
  /\ w.pc = "locked" /\ w.job.op = "decide" => w.row[2] \in DOMAIN requests

TypeOK ==
  /\ \E W \in Workloads : todo \subseteq W
  /\ DOMAIN session = Sessions /\ \A s \in Sessions : SessionOK(session[s])
  /\ apps \in [1 .. Drafts -> AppRow]
  /\ kyc \subseteq users
  /\ openings \in Seq(OpeningRow)
  /\ requests \in Seq(RequestRow)
  /\ limit \in [1 .. Accounts -> LimitRow]
  /\ cards \in Seq(CardRow)
  /\ active \subseteq Admins

-----------------------------------------------------------------------------
(* Jobs, sessions and row locks.                                           *)

Doing(s, op) == session[s].pc # "idle" /\ session[s].job.op = op
Free(s, row) == \A t \in Sessions \ {s} : session[t].row # row

\* A job begins with what its view or its first statements read.
Begin(s, op, seen(_)) ==
  /\ session[s].pc = "idle"
  /\ \E j \in todo :
       /\ j.op = op
       /\ todo' = todo \ {j}
       /\ session' = [session EXCEPT ![s] =
                        [pc |-> "begun", job |-> j, row |-> NoRow, seen |-> seen(j)]]
  /\ UNCHANGED <<portal, requests, office>>

Nothing(j) == None

\* SELECT ... FOR UPDATE.
Lock(s, op, row) ==
  /\ Doing(s, op) /\ session[s].pc = "begun"
  /\ Free(s, row)
  /\ session' = [session EXCEPT ![s].pc = "locked", ![s].row = row]
  /\ UNCHANGED <<todo, portal, requests, office>>

End(s) == session' = [session EXCEPT ![s] = Idle] /\ UNCHANGED todo

\* The service raises: the view reports it, the transaction leaves nothing.
Refuse(s) == End(s) /\ UNCHANGED <<portal, requests, office>>

NewRequest(op, on, by, level, amount) ==
  [op |-> op, on |-> on, by |-> by, level |-> level, amount |-> amount,
   status |-> "PENDING", reviewer |-> None]

-----------------------------------------------------------------------------
(* The portal.                                                             *)

\* _current_app: the draft the visitor's session names, read without a lock.
LoadDraft(j) == apps[j.on]

\* wizard_next and submit_view do nothing for an application that is no draft.
BeginSave(s)   == Begin(s, "save", LoadDraft) /\ session'[s].seen.status = "DRAFT"
BeginSubmit(s) == Begin(s, "submit", LoadDraft) /\ session'[s].seen.status = "DRAFT"

\* save_step: the whole row is written from the instance the view loaded, with
\* the step's email and products.
SaveStep(s) ==
  LET j == session[s].job
  IN /\ Doing(s, "save")
     /\ apps' = [apps EXCEPT ![j.on] =
                   [session[s].seen EXCEPT !.email = j.email, !.risk = j.val]]
     /\ End(s)
     /\ UNCHANGED <<users, kyc, openings, requests, office>>

\* The reads of submit_application: completeness, an existing customer, another
\* application of the same email in review.
CheckSubmit(s) ==
  LET seen == session[s].seen
  IN /\ Doing(s, "submit") /\ session[s].pc = "begun"
     /\ IF \/ seen.email = None
           \/ seen.email \in users
           \/ \E a \in DOMAIN apps \ {session[s].job.on} :
                apps[a].email = seen.email /\ apps[a].status \in InReview
          THEN Refuse(s)
          ELSE /\ session' = [session EXCEPT ![s].pc = "locked"]
               /\ UNCHANGED <<todo, portal, requests, office>>

\* Mutant of WriteSubmit: the review is queued only for a risk above LOW.
WriteSubmit_RiskyOnly(s) ==
  LET j == session[s].job
      seen == session[s].seen
  IN /\ Doing(s, "submit") /\ session[s].pc = "locked"
     /\ apps' = [apps EXCEPT ![j.on] = [seen EXCEPT !.status = "IDENTITY_REVIEW"]]
     /\ requests' = IF seen.risk = 1 THEN requests ELSE
          Append(requests, NewRequest("ONBOARDING_REVIEW", j.on, None, seen.risk, None))
     /\ End(s)
     /\ UNCHANGED <<users, kyc, openings, office>>

\* The application row, the review request and IDENTITY_REVIEW, in one commit.
WriteSubmit(s) ==
  LET j == session[s].job
      seen == session[s].seen
  IN /\ Doing(s, "submit") /\ session[s].pc = "locked"
     /\ apps' = [apps EXCEPT ![j.on] = [seen EXCEPT !.status = "IDENTITY_REVIEW"]]
     /\ requests' =
          Append(requests, NewRequest("ONBOARDING_REVIEW", j.on, None, seen.risk, None))
     /\ End(s)
     /\ UNCHANGED <<users, kyc, openings, office>>

-----------------------------------------------------------------------------
(* Customers and account opening.                                          *)

\* find_duplicates, then the insert that the unique email decides.
BeginCreateCustomer(s) == Begin(s, "customer", LAMBDA j : j.email \in users)

CreateCustomer(s) ==
  LET e == session[s].job.email
  IN /\ Doing(s, "customer")
     /\ IF session[s].seen \/ e \in users
          THEN Refuse(s)
          ELSE /\ users' = users \cup {e}
               /\ End(s)
               /\ UNCHANGED <<apps, kyc, openings, requests, office>>

\* External: a newer review of the customer, approved or not, is entered in the
\* Django admin.
ReviewKyc(e, approve) ==
  /\ e \in users
  /\ kyc' = IF approve THEN kyc \cup {e} ELSE kyc \ {e}
  /\ kyc' # kyc
  /\ UNCHANGED <<todo, session, apps, users, openings, requests, office>>

Opening(e, state, checked) ==
  [email |-> e, state |-> state, checked |-> checked,
   accounts |-> IF state = "ACTIVE" THEN 1 ELSE 0]

BeginOpenAccount(s) == Begin(s, "open", LAMBDA j : j.email \in kyc)

\* open_account_application: without verified KYC the application waits, a joint
\* or business product of a relationship manager (val = 2) is queued, anything
\* else is activated at once.
OpenAccount(s) ==
  LET j == session[s].job
      new(state) == openings' = Append(openings, Opening(j.email, state, session[s].seen))
  IN /\ Doing(s, "open")
     /\ IF j.email \notin users THEN Refuse(s)
        ELSE /\ IF ~session[s].seen THEN new("PENDING_KYC") /\ requests' = requests
                ELSE IF j.val = 2 /\ Rank[j.by] < 2
                THEN /\ new("PENDING_APPROVAL")
                     /\ requests' = Append(requests,
                          NewRequest("ACCOUNT_OPENING", Len(openings) + 1, j.by,
                                     RequiredLevel(Rank[j.by], "ACCOUNT_OPENING", 1), None))
                ELSE new("ACTIVE") /\ requests' = requests
             /\ End(s)
             /\ UNCHANGED <<apps, users, kyc, office>>

\* activate_application allows neither PENDING_KYC nor a final state; an ACTIVE
\* application is left as it is.
Activatable(o) == openings[o].state = "PENDING_APPROVAL"
Activated(o) == [openings EXCEPT ![o] = [@ EXCEPT !.state = "ACTIVE",
                                                   !.accounts = openings[o].accounts + 1,
                                                   !.checked = openings[o].email \in kyc]]

-----------------------------------------------------------------------------
(* decide_approval.                                                        *)

BeginDecide(s) == Begin(s, "decide", Nothing)

\* The manager picks a request in the queue; its row is locked.
LockRequest(s, r) == Lock(s, "decide", <<"request", r>>)

\* Mutant of MayDecide: who asked is not compared with who approves.
MayDecide_Self(j, r) ==
  /\ requests[r].status = "PENDING"
  /\ CanApprove(Rank[j.by], requests[r].op, requests[r].amount)

\* Mutant of MayDecide: the status is not read again under the lock.
MayDecide_Stale(j, r) ==
  /\ requests[r].by # j.by
  /\ CanApprove(Rank[j.by], requests[r].op, requests[r].amount)

MayDecide(j, r) ==
  /\ requests[r].status = "PENDING"
  /\ requests[r].by # j.by
  /\ CanApprove(Rank[j.by], requests[r].op, requests[r].amount)

Decided(s, r) ==
  /\ requests' = [requests EXCEPT ![r] =
       [@ EXCEPT !.reviewer = session[s].job.by,
                 !.status = IF session[s].job.yes THEN "APPROVED" ELSE "REJECTED"]]
  /\ End(s)

DecideOther(s, r) ==
  /\ requests[r].op = "LOAN_APPROVAL" \/ (requests[r].op # "ONBOARDING_REVIEW" /\ ~session[s].job.yes)
  /\ Decided(s, r)
  /\ UNCHANGED <<portal, office>>

\* The account row is locked before its limit is written.
DecideLimit(s, r) ==
  LET j == session[s].job
      a == requests[r].on
  IN /\ requests[r].op = "LIMIT_INCREASE" /\ j.yes
     /\ Free(s, <<"account", a>>)
     /\ limit' = [limit EXCEPT ![a] =
                    [val |-> requests[r].amount, by |-> j.by, asked |-> requests[r].by]]
     /\ Decided(s, r)
     /\ UNCHANGED <<portal, restrictions, closed, cards, active>>

\* Mutant of DecideOpening: KYC is not looked at again.
DecideOpening_NoKyc(s, r) ==
  LET o == requests[r].on
  IN /\ requests[r].op = "ACCOUNT_OPENING" /\ session[s].job.yes
     /\ openings' = Activated(o)
     /\ Decided(s, r)
     /\ UNCHANGED <<apps, users, kyc, office>>

\* Mutant of DecideOpening: what activation raises does not undo the decision.
DecideOpening_Partial(s, r) ==
  LET o == requests[r].on
  IN /\ requests[r].op = "ACCOUNT_OPENING" /\ session[s].job.yes
     /\ openings' = IF openings[o].email \in kyc /\ Activatable(o) THEN Activated(o) ELSE openings
     /\ Decided(s, r)
     /\ UNCHANGED <<apps, users, kyc, office>>

\* An application that waits for approval may not go back to PENDING_KYC:
\* transition() raises, and the decision is undone with it.
DecideOpening(s, r) ==
  LET o == requests[r].on
  IN /\ requests[r].op = "ACCOUNT_OPENING" /\ session[s].job.yes
     /\ IF openings[o].email \in kyc /\ Activatable(o)
          THEN /\ openings' = Activated(o)
               /\ Decided(s, r)
               /\ UNCHANGED <<apps, users, kyc, office>>
          ELSE Refuse(s)

\* decide_application, under the lock of the portal application: not in review,
\* too low a rank for the request, or an email taken since, and all is undone.
DecideOnboarding(s, r) ==
  LET j == session[s].job
      a == requests[r].on
      e == apps[a].email
      Set(status) == apps' = [apps EXCEPT ![a] = [@ EXCEPT !.status = status, !.decider = j.by]]
  IN /\ requests[r].op = "ONBOARDING_REVIEW"
     /\ CASE apps[a].status \notin InReview \/ Rank[j.by] < requests[r].level -> Refuse(s)
          [] OTHER ->
             \/ /\ ~j.yes
                /\ Set("REJECTED") /\ Decided(s, r)
                /\ UNCHANGED <<users, kyc, openings, office>>
             \/ /\ j.yes /\ j.val = 1
                /\ Set("ADDITIONAL_INFORMATION_REQUIRED") /\ Decided(s, r)
                /\ UNCHANGED <<users, kyc, openings, office>>
             \/ /\ j.yes /\ j.val # 1 /\ e \in users /\ Refuse(s)
             \/ /\ j.yes /\ j.val # 1 /\ e \notin users
                /\ Set("ACCOUNT_CREATED") /\ Decided(s, r)
                /\ users' = users \cup {e}
                /\ kyc' = kyc \cup {e}
                /\ openings' = Append(openings, Opening(e, "ACTIVE", TRUE))
                /\ UNCHANGED office

\* Mutant of Decide: a request that may not be decided is waited for.
Decide_Waits(s) ==
  /\ Doing(s, "decide") /\ session[s].pc = "locked"
  /\ LET r == session[s].row[2]
     IN /\ MayDecide(session[s].job, r)
        /\ DecideOther(s, r) \/ DecideLimit(s, r) \/ DecideOpening(s, r) \/ DecideOnboarding(s, r)

Decide(s) ==
  /\ Doing(s, "decide") /\ session[s].pc = "locked"
  /\ LET r == session[s].row[2]
     IN IF MayDecide(session[s].job, r)
          THEN DecideOther(s, r) \/ DecideLimit(s, r) \/ DecideOpening(s, r) \/ DecideOnboarding(s, r)
          ELSE Refuse(s)

-----------------------------------------------------------------------------
(* Limits, closure and restrictions.                                       *)

\* submit_approval_request: nothing to do within one's own authority.
SubmitApproval(s) ==
  LET j == session[s].job
  IN /\ Doing(s, "ask")
     /\ IF CanApprove(Rank[j.by], "LOAN_APPROVAL", j.val) THEN Refuse(s)
        ELSE /\ requests' = Append(requests,
                  NewRequest("LOAN_APPROVAL", j.on, j.by,
                             RequiredLevel(Rank[j.by], "LOAN_APPROVAL", j.val), j.val))
             /\ End(s)
             /\ UNCHANGED <<portal, office>>

LockAccount(s, op) == Doing(s, op) /\ Lock(s, op, <<"account", session[s].job.on>>)

\* request_limit_change: applied within the manager's authority, else queued.
RequestLimit(s) ==
  LET j == session[s].job
  IN /\ Doing(s, "limit") /\ session[s].pc = "locked"
     /\ IF CanApprove(Rank[j.by], "LIMIT_INCREASE", j.val)
          THEN /\ limit' = [limit EXCEPT ![j.on] = [val |-> j.val, by |-> j.by, asked |-> None]]
               /\ requests' = requests
          ELSE /\ limit' = limit
               /\ requests' = Append(requests,
                    NewRequest("LIMIT_INCREASE", j.on, j.by,
                               RequiredLevel(Rank[j.by], "LIMIT_INCREASE", j.val), j.val))
     /\ End(s)
     /\ UNCHANGED <<portal, restrictions, closed, cards, active>>

\* request_account_closure; `yes`: the balance is zero.
CloseAccount(s) ==
  LET j == session[s].job
  IN /\ Doing(s, "close") /\ session[s].pc = "locked"
     /\ IF \/ ~j.yes \/ j.on \in closed
           \/ \E r \in DOMAIN restrictions : restrictions[r].on = j.on /\ restrictions[r].active
          THEN Refuse(s)
          ELSE /\ closed' = closed \cup {j.on}
               /\ End(s)
               /\ UNCHANGED <<portal, requests, limit, restrictions, cards, active>>

\* request_restriction looks for an active one of the type, then inserts; a hold
\* (val = 2) is refused to managers.
BeginRestrict(s) ==
  Begin(s, "restrict", LAMBDA j :
    \E r \in DOMAIN restrictions : /\ restrictions[r].on = j.on /\ restrictions[r].active
                                    /\ restrictions[r].type = j.val)

RestrictAccount(s) ==
  LET j == session[s].job
  IN /\ Doing(s, "restrict")
     /\ IF j.val = 2 \/ session[s].seen THEN Refuse(s)
        ELSE /\ restrictions' = Append(restrictions, [on |-> j.on, type |-> j.val, active |-> TRUE])
             /\ End(s)
             /\ UNCHANGED <<portal, requests, limit, closed, cards, active>>

BeginLift(s) == Begin(s, "lift", Nothing)

LockRestriction(s, r) == Lock(s, "lift", <<"restriction", r>>)

\* lift_restriction, from the managers' view, which may not lift a hold.
LiftRestriction(s) ==
  LET r == session[s].row[2]
  IN /\ Doing(s, "lift") /\ session[s].pc = "locked"
     /\ IF ~restrictions[r].active \/ restrictions[r].type = 2 THEN Refuse(s)
        ELSE /\ restrictions' = [restrictions EXCEPT ![r].active = FALSE]
             /\ End(s)
             /\ UNCHANGED <<portal, requests, limit, closed, cards, active>>

-----------------------------------------------------------------------------
(* Card requests.                                                          *)

\* request_card: an active account with no pending request of the kind.
BeginRequestCard(s) ==
  Begin(s, "card", LAMBDA j :
    \/ j.on \in closed
    \/ \E c \in DOMAIN cards : cards[c].on = j.on /\ cards[c].status = "PENDING")

RequestCard(s) ==
  /\ Doing(s, "card")
  /\ IF session[s].seen THEN Refuse(s)
     ELSE /\ cards' = Append(cards, [on |-> session[s].job.on, status |-> "PENDING", issued |-> 0])
          /\ End(s)
          /\ UNCHANGED <<portal, requests, limit, restrictions, closed, active>>

\* The view reads the request before the service locks its row.
BeginDecideCard(s) == Begin(s, "issue", LAMBDA j : cards)

LockCard(s, c) ==
  /\ Doing(s, "issue")
  /\ c \in DOMAIN session[s].seen
  /\ Lock(s, "issue", <<"card", c>>)

\* Mutant of DecideCard: the instance the view read is decided.
DecideCard_Stale(s) ==
  LET c == session[s].row[2]
  IN /\ Doing(s, "issue") /\ session[s].pc = "locked"
     /\ IF session[s].seen[c].status # "PENDING" THEN Refuse(s)
        ELSE /\ cards' = [cards EXCEPT ![c] =
                  IF session[s].job.yes THEN [@ EXCEPT !.status = "APPROVED", !.issued = cards[c].issued + 1]
                                        ELSE [@ EXCEPT !.status = "REJECTED"]]
             /\ End(s)
             /\ UNCHANGED <<portal, requests, limit, restrictions, closed, active>>

\* decide_card_request: an approval issues the card.
DecideCard(s) ==
  LET c == session[s].row[2]
  IN /\ Doing(s, "issue") /\ session[s].pc = "locked"
     /\ IF cards[c].status # "PENDING" THEN Refuse(s)
        ELSE /\ cards' = [cards EXCEPT ![c] =
                  IF session[s].job.yes THEN [@ EXCEPT !.status = "APPROVED", !.issued = cards[c].issued + 1]
                                        ELSE [@ EXCEPT !.status = "REJECTED"]]
             /\ End(s)
             /\ UNCHANGED <<portal, requests, limit, restrictions, closed, active>>

-----------------------------------------------------------------------------
(* User administration.                                                    *)

\* block_user reads the target and counts the active admins; the actor has
\* authenticated as one of them.
BeginBlock(s) ==
  Begin(s, "block", LAMBDA j : \/ j.by \notin active \/ j.email = j.by
                              \/ j.email \notin active \/ Cardinality(active) <= 1)

BlockUser(s) ==
  /\ Doing(s, "block")
  /\ IF session[s].seen THEN Refuse(s)
     ELSE /\ active' = active \ {session[s].job.email}
          /\ End(s)
          /\ UNCHANGED <<portal, requests, limit, restrictions, closed, cards>>

BeginUnblock(s) ==
  Begin(s, "unblock", LAMBDA j : j.by \notin active \/ j.email \in active)

UnblockUser(s) ==
  /\ Doing(s, "unblock")
  /\ IF session[s].seen THEN Refuse(s)
     ELSE /\ active' = active \cup {session[s].job.email}
          /\ End(s)
          /\ UNCHANGED <<portal, requests, limit, restrictions, closed, cards>>

-----------------------------------------------------------------------------

Start(s) ==
  \/ BeginSave(s) \/ BeginSubmit(s)
  \/ BeginCreateCustomer(s) \/ BeginOpenAccount(s) \/ BeginDecide(s)
  \/ BeginRestrict(s) \/ BeginRequestCard(s) \/ BeginDecideCard(s)
  \/ BeginBlock(s) \/ BeginUnblock(s) \/ BeginLift(s)
  \/ \E op \in {"ask", "limit", "close"} : Begin(s, op, Nothing)

Proceed(s) ==
  \/ SaveStep(s) \/ CheckSubmit(s) \/ WriteSubmit(s)
  \/ CreateCustomer(s) \/ OpenAccount(s)
  \/ (\E r \in DOMAIN requests : LockRequest(s, r)) \/ Decide(s)
  \/ SubmitApproval(s) \/ LockAccount(s, "limit") \/ RequestLimit(s)
  \/ LockAccount(s, "close") \/ CloseAccount(s)
  \/ RestrictAccount(s) \/ (\E r \in DOMAIN restrictions : LockRestriction(s, r)) \/ LiftRestriction(s)
  \/ RequestCard(s) \/ (\E c \in DOMAIN cards : LockCard(s, c)) \/ DecideCard(s)
  \/ BlockUser(s) \/ UnblockUser(s)

Next ==
  \/ \E s \in Sessions : Start(s) \/ Proceed(s)
  \/ \E e \in Customers, approve \in BOOLEAN : ReviewKyc(e, approve)

Spec == Init /\ [][Next]_vars

\* A worker goes on with the request it serves, and a lock that is freed again
\* and again is granted in the end.
FairSpec == Spec /\ \A s \in Sessions : SF_vars(Proceed(s))

-----------------------------------------------------------------------------
(* Properties.                                                             *)

\* Whatever tabs and retries write over one another, an application that shows
\* as under review has a pending request a manager can decide.
ReviewsReachable ==
  \A a \in DOMAIN apps : apps[a].status \in InReview =>
    \E r \in DOMAIN requests :
      /\ requests[r].op = "ONBOARDING_REVIEW" /\ requests[r].on = a
      /\ requests[r].status = "PENDING"

\* Account activation is gated by KYC: an active application opened one account,
\* on an approved review read by the transaction that activated it, however
\* long it had waited and whatever became of the review meanwhile.
OpenedOnceVerified ==
  \A o \in DOMAIN openings : openings[o].state = "ACTIVE" =>
    openings[o].accounts = 1 /\ openings[o].checked

\* The requester never approves, and a limit in force is covered by the
\* authority of the manager who put it there, also when it was asked for by
\* another and other limits were set in between.
DecisionsAuthorised ==
  /\ \A r \in DOMAIN requests : requests[r].reviewer # None => requests[r].reviewer # requests[r].by
  /\ \A a \in DOMAIN limit : limit[a].by # None =>
       CanApprove(Rank[limit[a].by], "LIMIT_INCREASE", limit[a].val)

\* Two managers who decide one card request at a time issue one card, and none
\* for a request that was declined.
OneCardPerRequest ==
  \A c \in DOMAIN cards : cards[c].issued = IF cards[c].status = "APPROVED" THEN 1 ELSE 0

\* An opening that was queued is active exactly when its request is approved.
OpeningsOnRecord ==
  \A r \in DOMAIN requests : requests[r].op = "ACCOUNT_OPENING" =>
    (requests[r].status = "APPROVED" <=> openings[requests[r].on].state = "ACTIVE")

\* Manager m approved the request of `by` for this operation on a row.
Approved(op, on, by, m, amount) ==
  \E r \in DOMAIN requests :
    /\ requests[r].op = op /\ requests[r].on = on /\ requests[r].amount = amount
    /\ requests[r].by = by /\ requests[r].reviewer = m /\ requests[r].status = "APPROVED"

LimitsOnRecord ==
  \A a \in DOMAIN limit : limit[a].asked # None =>
    Approved("LIMIT_INCREASE", a, limit[a].asked, limit[a].by, limit[a].val)

ApplicantsOnRecord ==
  \A a \in DOMAIN apps : apps[a].status = "ACCOUNT_CREATED" =>
    Approved("ONBOARDING_REVIEW", a, None, apps[a].decider, None)

\* A decision and its effect are one commit, whichever managers wait for the same
\* request and whatever raises on the way: an opening that was queued is active
\* exactly when its request is approved, and a limit that was asked for, or a
\* customer made of an applicant, has the approval of the manager it names.
DecisionsOnRecord == OpeningsOnRecord /\ LimitsOnRecord /\ ApplicantsOnRecord

\* A request is decided once: a manager who has waited for its lock finds it as
\* the other left it, and neither a refusal nor a retry decides it again.
DecisionsStand ==
  \A r \in DOMAIN requests :
    r \in DOMAIN requests' /\ (requests[r].status # "PENDING" => requests'[r] = requests[r])

DecidedOnce == [][DecisionsStand]_vars

\* What makes them inductive: an application that is not active has opened no
\* account, and a queued request names a row that exists.
OpenedWhenActive ==
  \A o \in DOMAIN openings : openings[o].state # "ACTIVE" => openings[o].accounts = 0

RequestsNameRows ==
  \A r \in DOMAIN requests :
    /\ requests[r].op = "ONBOARDING_REVIEW" => requests[r].on \in DOMAIN apps
    /\ requests[r].op = "ACCOUNT_OPENING" => requests[r].on \in DOMAIN openings

\* An opening is queued once, and the requests for reviews have no requester.
OneRequestEach ==
  /\ \A r, q \in DOMAIN requests :
       /\ requests[r].op = "ACCOUNT_OPENING" /\ requests[q].op = "ACCOUNT_OPENING"
       /\ requests[r].on = requests[q].on
       => r = q
  /\ \A r \in DOMAIN requests : requests[r].op = "ONBOARDING_REVIEW" =>
       requests[r].by = None /\ requests[r].amount = None

OInv == /\ TypeOK /\ ReviewsReachable /\ OpenedOnceVerified /\ OpenedWhenActive
        /\ RequestsNameRows /\ DecisionsAuthorised /\ OneCardPerRequest

\* On top of it: what is recorded of the decisions.
Recorded == DecisionsOnRecord /\ OneRequestEach

\* What a manager may pick from: the queue, or the page, as it was loaded.
NothingToPick(s) ==
  \/ Doing(s, "decide") /\ requests = <<>>
  \/ Doing(s, "lift") /\ restrictions = <<>>
  \/ Doing(s, "issue") /\ session[s].seen = <<>>

\* No job is left waiting, for a row it has asked for or for what is to be done
\* with one it has: every job that was begun ends, unless it is to decide and
\* there is nothing to decide.
JobsEnd ==
  \A s \in Sessions :
    session[s].pc # "idle" /\ ~NothingToPick(s) ~> session[s].pc = "idle"

\* Not true.  admin_services.py: "last active admin cannot be blocked"; two
\* admins who block each other both count two.
SomeAdminActive == active # {}

\* Not true: of two limits asked for, the newer one stays.  A request is applied
\* when it is approved, whatever was set since it was made.
NewestLimitStands ==
  [][\A q, r \in DOMAIN requests :
       q > r /\ requests[q].status = "APPROVED" /\ requests[r].status = "PENDING"
       /\ {requests[q].op, requests[r].op} = {"LIMIT_INCREASE"} /\ requests[q].on = requests[r].on
       => requests'[r].status # "APPROVED"]_vars

\* Not true: what is under review stays what was submitted.  A tab that was
\* loaded before saves it back to DRAFT with what it knew.
SubmittedStays ==
  [][\A a \in DOMAIN apps : apps[a].status \in InReview => apps'[a].status # "DRAFT"]_vars

\* Not true.  decide_application: "respect the escalation level chosen at
\* submission time"; a step saved by a second tab can put a submitted
\* application back to DRAFT with a higher risk, and the request of its first
\* submission still decides it.
EscalationHeld ==
  \A a \in DOMAIN apps : apps[a].status = "ACCOUNT_CREATED" => Rank[apps[a].decider] >= apps[a].risk
=============================================================================
