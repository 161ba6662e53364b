--------------------------- MODULE BackOfficeProofs ---------------------------
(* Proofs about BackOffice for every set of workers, managers and jobs: OInv, *)
(* stated there, is an inductive invariant.  What makes it so is that a       *)
(* decision and what it decides are written by one transaction, and that the  *)
(* wizard writes back only what it has read as a draft.                       *)
EXTENDS BackOffice, TableTheorems

-----------------------------------------------------------------------------
(* Sessions.                                                                 *)

\* The rows of the database, and what is proved of them.
Tables ==
  /\ apps \in [1 .. Drafts -> AppRow]
  /\ kyc \subseteq users
  /\ openings \in Seq(OpeningRow)
  /\ requests \in Seq(RequestRow)
  /\ limit \in [1 .. Accounts -> LimitRow]
  /\ cards \in Seq(CardRow)
  /\ active \subseteq Admins

Promises == /\ ReviewsReachable /\ OpenedOnceVerified /\ OpenedWhenActive
            /\ RequestsNameRows /\ DecisionsAuthorised /\ OneCardPerRequest

Workers == /\ \E W \in Workloads : todo \subseteq W
           /\ DOMAIN session = Sessions /\ \A s \in Sessions : SessionOK(session[s])

LEMMA OInvIs == OInv <=> Workers /\ Tables /\ Promises
BY DEF OInv, TypeOK, Workers, Tables, Promises

\* Requests are never deleted, so what a session has locked is still there.
LEMMA SessionKept ==
  ASSUME NEW w, SessionOK(w), DOMAIN requests \subseteq DOMAIN requests'
  PROVE  SessionOK(w)'
BY DEF SessionOK

LEMMA SessionsAfter ==
  ASSUME Workers, NEW s \in Sessions, NEW w, session' = [session EXCEPT ![s] = w],
         SessionOK(w)', DOMAIN requests \subseteq DOMAIN requests',
         \E W \in Workloads : todo' \subseteq W
  PROVE  Workers'
<1>1. \A t \in Sessions : session'[t] = IF t = s THEN w ELSE session[t]
  BY DEF Workers
<1>2. \A t \in Sessions : SessionOK(session[t])'
  BY <1>1, SessionKept DEF Workers
<1>. QED
  BY <1>2 DEF Workers

LEMMA IdleOK == SessionOK(Idle)
BY DEF SessionOK, Idle

LEMMA IdleOKAfter == SessionOK(Idle)'
BY DEF SessionOK, Idle

\* A job is over; what it wrote must leave the tables sound.
LEMMA EndStep ==
  ASSUME OInv, NEW s \in Sessions, End(s), DOMAIN requests \subseteq DOMAIN requests',
         Tables', Promises'
  PROVE  OInv'
<1>1. Workers
  BY OInvIs
<1>2. todo' = todo /\ session' = [session EXCEPT ![s] = Idle]
  BY DEF End
<1>3. Workers'
  BY <1>1, <1>2, IdleOKAfter, SessionsAfter DEF Workers
<1>. QED
  BY <1>3 DEF OInv, TypeOK, Workers, Tables, Promises

\* Tables that do not change stay sound.
LEMMA TablesSame ==
  ASSUME Tables, Promises, UNCHANGED <<apps, users, kyc, openings, requests, limit, cards, active>>
  PROVE  Tables' /\ Promises'
BY DEF Tables, Promises, ReviewsReachable, OpenedOnceVerified, OpenedWhenActive,
   RequestsNameRows, DecisionsAuthorised, OneCardPerRequest

LEMMA RefuseStep == ASSUME OInv, NEW s \in Sessions, Refuse(s) PROVE OInv'
<1>1. UNCHANGED <<apps, users, kyc, openings, requests, limit, cards, active>> /\ End(s)
  BY DEF Refuse, portal, office
<1>. QED
  BY <1>1, OInvIs, TablesSame, EndStep

\* What a worker is known to be doing.
LEMMA Working ==
  ASSUME OInv, NEW s \in Sessions, session[s].pc # "idle"
  PROVE  WellFormed(session[s].job) /\ SessionOK(session[s])
<1>1. SessionOK(session[s])
  BY OInvIs DEF Workers
<1>2. PICK W \in Workloads : session[s].job \in W
  BY <1>1 DEF SessionOK
<1>. QED
  BY <1>1, <1>2, OfficeAssumption

\* A session that goes on with its job, and nothing is written.
LEMMA GoOn ==
  ASSUME OInv, NEW s \in Sessions, NEW w, session' = [session EXCEPT ![s] = w], SessionOK(w),
         \E W \in Workloads : todo' \subseteq W, UNCHANGED <<portal, requests, office>>
  PROVE  OInv'
<1>1. Workers'
  BY OInvIs, SessionKept, SessionsAfter
<1>2. Tables' /\ Promises'
  BY OInvIs, TablesSame DEF portal, office
<1>. QED
  BY <1>1, <1>2 DEF OInv, TypeOK, Workers, Tables, Promises

\* SELECT ... FOR UPDATE of a row that is there.
LEMMA LockStep ==
  ASSUME OInv, NEW s \in Sessions, NEW op, NEW row, Lock(s, op, row),
         op = "decide" => row[2] \in DOMAIN requests
  PROVE  OInv'
<1>. DEFINE w == [session[s] EXCEPT !.pc = "locked", !.row = row]
<1>0. Workers /\ session[s].pc = "begun" /\ session[s].job.op = op /\ UNCHANGED <<todo, portal, requests, office>>
  BY OInvIs DEF Lock, Doing
<1>1. session' = [session EXCEPT ![s] = w]
  BY DEF Lock
<1>2. SessionOK(session[s])
  BY <1>0 DEF Workers
<1>3. /\ DOMAIN w = DOMAIN Idle /\ w.pc = "locked" /\ w.row = row /\ w.job = session[s].job
      /\ w.seen = session[s].seen
  BY <1>2 DEF SessionOK, Idle
<1>. HIDE DEF w
<1>4. SessionOK(w)
  BY <1>0, <1>2, <1>3 DEF SessionOK
<1>. QED
  BY <1>0, <1>1, <1>4, GoOn DEF Workers

\* A job is taken up with what is read for it.
LEMMA BeginStep ==
  ASSUME OInv, NEW s \in Sessions, NEW j \in todo, NEW seen,
         todo' = todo \ {j}, UNCHANGED <<portal, requests, office>>,
         session' = [session EXCEPT ![s] = [pc |-> "begun", job |-> j, row |-> NoRow, seen |-> seen]],
         j.op \in {"save", "submit"} => seen \in AppRow,
         j.op = "save" => seen.status = "DRAFT",
         j.op = "open" => seen \in BOOLEAN
  PROVE  OInv'
<1>. DEFINE w == [pc |-> "begun", job |-> j, row |-> NoRow, seen |-> seen]
<1>1. PICK W \in Workloads : todo \subseteq W
  BY OInvIs DEF Workers
<1>2. /\ DOMAIN w = DOMAIN Idle /\ w.pc = "begun" /\ w.job = j /\ w.seen = seen
  BY DEF Idle
<1>. HIDE DEF w
<1>3. SessionOK(w)
  BY <1>1, <1>2 DEF SessionOK
<1>. QED
  BY <1>1, <1>3, GoOn DEF w

\* A begun job has read something of the right kind, or nothing that matters.
LEMMA BeginsOther ==
  ASSUME OInv, NEW s \in Sessions, NEW op, NEW seen(_), Begin(s, op, seen),
         op \notin {"save", "submit", "open"}
  PROVE  OInv'
<1>1. PICK j \in todo :
        /\ j.op = op /\ todo' = todo \ {j}
        /\ session' = [session EXCEPT ![s] =
                         [pc |-> "begun", job |-> j, row |-> NoRow, seen |-> seen(j)]]
  BY DEF Begin
<1>2. UNCHANGED <<portal, requests, office>>
  BY DEF Begin
<1>. QED
  BY <1>1, <1>2, BeginStep

\* Every job begins with what the tables hold.
LEMMA StartStep == ASSUME OInv, NEW s \in Sessions, Start(s) PROVE OInv'
<1>1. ASSUME BeginSave(s) \/ BeginSubmit(s) PROVE OInv'
  <2>1. PICK j \in todo :
          /\ j.op \in {"save", "submit"} /\ todo' = todo \ {j}
          /\ session' = [session EXCEPT ![s] =
                           [pc |-> "begun", job |-> j, row |-> NoRow, seen |-> apps[j.on]]]
    BY <1>1 DEF BeginSave, BeginSubmit, Begin, LoadDraft
  <2>2. session'[s].seen.status = "DRAFT" /\ UNCHANGED <<portal, requests, office>>
    BY <1>1 DEF BeginSave, BeginSubmit, Begin
  <2>3. apps[j.on].status = "DRAFT"
    BY <2>1, <2>2, OInvIs DEF Workers
  <2>4. WellFormed(j)
    BY <2>1, OInvIs, OfficeAssumption DEF Workers
  <2>5. apps[j.on] \in AppRow
    BY <2>1, <2>4, OInvIs DEF WellFormed, Tables
  <2>. QED
    BY <2>1, <2>2, <2>3, <2>5, BeginStep
<1>2. ASSUME BeginOpenAccount(s) PROVE OInv'
  <2>1. PICK j \in todo :
          /\ j.op = "open" /\ todo' = todo \ {j}
          /\ session' = [session EXCEPT ![s] =
                           [pc |-> "begun", job |-> j, row |-> NoRow, seen |-> j.email \in kyc]]
    BY <1>2 DEF BeginOpenAccount, Begin
  <2>2. UNCHANGED <<portal, requests, office>>
    BY <1>2 DEF BeginOpenAccount, Begin
  <2>3. (j.email \in kyc) \in BOOLEAN
    OBVIOUS
  <2>. QED
    BY <2>1, <2>2, <2>3, BeginStep
<1>3. ASSUME BeginCreateCustomer(s) PROVE OInv'
  BY <1>3, BeginsOther DEF BeginCreateCustomer
<1>4. ASSUME BeginDecide(s) PROVE OInv'
  BY <1>4, BeginsOther DEF BeginDecide
<1>5. ASSUME BeginRestrict(s) PROVE OInv'
  BY <1>5, BeginsOther DEF BeginRestrict
<1>6. ASSUME BeginRequestCard(s) PROVE OInv'
  BY <1>6, BeginsOther DEF BeginRequestCard
<1>7. ASSUME BeginDecideCard(s) PROVE OInv'
  BY <1>7, BeginsOther DEF BeginDecideCard
<1>8. ASSUME BeginBlock(s) PROVE OInv'
  BY <1>8, BeginsOther DEF BeginBlock
<1>9. ASSUME BeginUnblock(s) PROVE OInv'
  BY <1>9, BeginsOther DEF BeginUnblock
<1>10. ASSUME BeginLift(s) PROVE OInv'
  BY <1>10, BeginsOther DEF BeginLift
<1>11. ASSUME NEW op \in {"ask", "limit", "close"}, Begin(s, op, Nothing) PROVE OInv'
  BY <1>11, BeginsOther
<1>. QED
  BY <1>1, <1>2, <1>3, <1>4, <1>5, <1>6, <1>7, <1>8, <1>9, <1>10, <1>11 DEF Start

-----------------------------------------------------------------------------
(* Requests.                                                                 *)

\* RequiredLevel names a level.
LEMMA RequiredLevelIs ==
  ASSUME NEW rank, NEW op, NEW amount
  PROVE  RequiredLevel(rank, op, amount) \in Levels
<1>. DEFINE able == {l \in Levels : AuthorityLimit(rank, op) >= 0 /\ amount <= AuthorityLimit(l, op)}
<1>1. ASSUME able # {} PROVE \E l \in able : \A k \in able : l <= k
  <2>1. able \subseteq 1 .. 4
    BY DEF Levels
  <2>. HIDE DEF able
  <2>2. \A k \in able : k = 1 \/ k = 2 \/ k = 3 \/ k = 4
    BY <2>1
  <2>3. 1 \in able \/ 2 \in able \/ 3 \in able \/ 4 \in able
    BY <1>1, <2>2
  <2>. QED
    BY <2>2, <2>3
<1>. HIDE DEF able
<1>2. able # {} => (CHOOSE l \in able : \A k \in able : l <= k) \in able
  BY <1>1
<1>3. able \subseteq Levels
  BY DEF able
<1>4. 4 \in Levels
  BY DEF Levels
<1>. QED
  BY <1>2, <1>3, <1>4 DEF RequiredLevel, able

\* A new request is pending and names who asked.
LEMMA NewRequestIs ==
  ASSUME NEW op \in PeerOps \cup {"LIMIT_INCREASE", "ACCOUNT_OPENING", "LOAN_APPROVAL"},
         NEW on \in Nat, NEW by \in Names, NEW level \in Levels, NEW amount \in Nat \cup {None}
  PROVE  NewRequest(op, on, by, level, amount) \in RequestRow
BY DEF NewRequest, RequestRow, Names

-----------------------------------------------------------------------------
(* What each promise needs of a step.                                        *)

\* A review stays reachable when no portal application changes and the requests
\* for reviews stay as they are.
LEMMA ReviewsKept ==
  ASSUME ReviewsReachable, UNCHANGED apps,
         \A r \in DOMAIN requests : requests[r].op = "ONBOARDING_REVIEW" =>
           r \in DOMAIN requests' /\ requests'[r] = requests[r]
  PROVE  ReviewsReachable'
BY DEF ReviewsReachable

\* A request is queued: nothing else changes but, perhaps, what it is about.
LEMMA Queued ==
  ASSUME Tables, Promises, NEW q \in RequestRow, requests' = Append(requests, q),
         q.reviewer = None, q.op \notin {"ONBOARDING_REVIEW", "ACCOUNT_OPENING"}
  PROVE  /\ requests' \in Seq(RequestRow) /\ DOMAIN requests \subseteq DOMAIN requests'
         /\ UNCHANGED apps => ReviewsReachable'
         /\ UNCHANGED <<apps, openings>> => RequestsNameRows'
         /\ \A r \in DOMAIN requests' :
              requests'[r].reviewer # None => requests'[r].reviewer # requests'[r].by
<1>1. /\ requests' \in Seq(RequestRow) /\ DOMAIN requests' = DOMAIN requests \cup {Len(requests) + 1}
      /\ \A r \in DOMAIN requests : requests'[r] = requests[r]
      /\ requests'[Len(requests) + 1] = q
  BY RowAdded DEF Tables
<1>2. UNCHANGED apps => ReviewsReachable'
  BY <1>1, ReviewsKept DEF Promises
<1>3. UNCHANGED <<apps, openings>> => RequestsNameRows'
  BY <1>1 DEF Promises, RequestsNameRows
<1>. QED
  BY <1>1, <1>2, <1>3 DEF Promises, DecisionsAuthorised

\* The account's limit keeps the authority it was set with.
LEMMA LimitSet ==
  ASSUME Tables, Promises, NEW a, NEW v \in Nat \cup {None}, NEW m \in STRING, NEW asked \in Names,
         limit' = [limit EXCEPT ![a] = [val |-> v, by |-> m, asked |-> asked]],
         CanApprove(Rank[m], "LIMIT_INCREASE", v)
  PROVE  /\ limit' \in [1 .. Accounts -> LimitRow]
         /\ \A b \in DOMAIN limit' : limit'[b].by # None =>
              CanApprove(Rank[limit'[b].by], "LIMIT_INCREASE", limit'[b].val)
<1>1. [val |-> v, by |-> m, asked |-> asked] \in LimitRow
  BY DEF LimitRow, Names
<1>2. limit' \in [1 .. Accounts -> LimitRow]
  BY <1>1 DEF Tables
<1>3. \A b \in DOMAIN limit' :
        limit'[b] = IF b = a THEN [val |-> v, by |-> m, asked |-> asked] ELSE limit[b]
  BY <1>2 DEF Tables
<1>. QED
  BY <1>2, <1>3 DEF Promises, DecisionsAuthorised, Tables

-----------------------------------------------------------------------------
(* The portal and account opening.                                           *)

\* The wizard writes back a draft, whatever the row has become meanwhile.
LEMMA SaveStepOK == ASSUME OInv, NEW s \in Sessions, SaveStep(s) PROVE OInv'
<1>. DEFINE j == session[s].job
            row == [session[s].seen EXCEPT !.email = j.email, !.risk = j.val]
<1>0. Tables /\ Promises /\ Doing(s, "save")
  BY OInvIs DEF SaveStep
<1>1. WellFormed(j) /\ j.op = "save" /\ SessionOK(session[s])
  BY <1>0, Working DEF Doing
<1>2. session[s].seen \in AppRow /\ session[s].seen.status = "DRAFT" /\ j.email \in Names /\ j.val \in 1 .. 2
  BY <1>0, <1>1 DEF SessionOK, WellFormed, Job, Names, Doing
<1>. HIDE DEF j
<1>3. row \in AppRow /\ row.status = "DRAFT"
  BY <1>2 DEF AppRow
<1>4. apps' = [apps EXCEPT ![j.on] = row] /\ End(s) /\ UNCHANGED <<users, kyc, openings, requests, office>>
  BY DEF SaveStep, j
<1>. HIDE DEF row
<1>5. apps' \in [1 .. Drafts -> AppRow] /\ \A a \in DOMAIN apps : apps'[a] = IF a = j.on THEN row ELSE apps[a]
  BY <1>0, <1>3, <1>4 DEF Tables
<1>6. ReviewsReachable' /\ RequestsNameRows'
  BY <1>0, <1>3, <1>4, <1>5 DEF Promises, ReviewsReachable, RequestsNameRows, Tables, InReview
<1>. QED
  BY <1>0, <1>4, <1>5, <1>6, EndStep
  DEF office, Tables, Promises, OpenedOnceVerified, OpenedWhenActive, DecisionsAuthorised, OneCardPerRequest

LEMMA CheckSubmitOK == ASSUME OInv, NEW s \in Sessions, CheckSubmit(s) PROVE OInv'
<1>1. CASE Refuse(s)
  BY <1>1, RefuseStep
<1>2. CASE ~Refuse(s)
  <2>. DEFINE w == [session[s] EXCEPT !.pc = "locked"]
  <2>1. session' = [session EXCEPT ![s] = w] /\ UNCHANGED <<todo, portal, requests, office>>
    BY <1>2 DEF CheckSubmit
  <2>2. SessionOK(session[s]) /\ session[s].job.op = "submit" /\ session[s].pc = "begun" /\ Workers
    BY OInvIs DEF CheckSubmit, Doing, Workers
  <2>3. DOMAIN w = DOMAIN Idle /\ w.pc = "locked" /\ w.job = session[s].job /\ w.seen = session[s].seen
    BY <2>2 DEF SessionOK, Idle
  <2>. HIDE DEF w
  <2>4. SessionOK(w)
    BY <2>2, <2>3 DEF SessionOK
  <2>. QED
    BY <2>1, <2>2, <2>4, GoOn DEF Workers
<1>. QED
  BY <1>1, <1>2

\* The application and its review request are committed together.
LEMMA WriteSubmitOK == ASSUME OInv, NEW s \in Sessions, WriteSubmit(s) PROVE OInv'
<1>. DEFINE j == session[s].job
            seen == session[s].seen
            row == [seen EXCEPT !.status = "IDENTITY_REVIEW"]
            q == NewRequest("ONBOARDING_REVIEW", j.on, None, seen.risk, None)
<1>0. Tables /\ Promises /\ Doing(s, "submit")
  BY OInvIs DEF WriteSubmit
<1>1. WellFormed(j) /\ j.op = "submit" /\ SessionOK(session[s])
  BY <1>0, Working DEF Doing
<1>2. seen \in AppRow /\ j.on \in Nat /\ j.on \in 1 .. Drafts
  BY <1>0, <1>1 DEF SessionOK, WellFormed, Job, Doing
<1>3. apps' = [apps EXCEPT ![j.on] = row] /\ requests' = Append(requests, q) /\ End(s)
      /\ UNCHANGED <<users, kyc, openings, office>>
  BY DEF WriteSubmit
<1>. HIDE DEF j, seen
<1>4. row \in AppRow
  BY <1>2 DEF AppRow, AppStatus
<1>5. seen.risk \in Levels
  BY <1>2 DEF AppRow, Levels
<1>6. q \in RequestRow
  BY <1>2, <1>5, NewRequestIs DEF PeerOps, Names
<1>7. q.op = "ONBOARDING_REVIEW" /\ q.on = j.on /\ q.status = "PENDING" /\ q.reviewer = None
  BY DEF NewRequest
<1>. HIDE DEF row, q
<1>8. /\ requests' \in Seq(RequestRow) /\ DOMAIN requests' = DOMAIN requests \cup {Len(requests) + 1}
      /\ \A r \in DOMAIN requests : requests'[r] = requests[r]
      /\ requests'[Len(requests) + 1] = q
  BY <1>0, <1>3, <1>6, RowAdded DEF Tables
<1>9. /\ apps' \in [1 .. Drafts -> AppRow] /\ DOMAIN apps' = DOMAIN apps
      /\ \A a \in DOMAIN apps : a # j.on => apps'[a] = apps[a]
  BY <1>0, <1>3, <1>4 DEF Tables
<1>10. ReviewsReachable'
  BY <1>0, <1>7, <1>8, <1>9 DEF Promises, ReviewsReachable
<1>11. RequestsNameRows'
  BY <1>0, <1>2, <1>3, <1>7, <1>8, <1>9 DEF Promises, RequestsNameRows, Tables
<1>12. DecisionsAuthorised'
  BY <1>0, <1>3, <1>7, <1>8 DEF Promises, DecisionsAuthorised, office
<1>. QED
  BY <1>0, <1>3, <1>8, <1>9, <1>10, <1>11, <1>12, EndStep
  DEF office, Tables, Promises, OpenedOnceVerified, OpenedWhenActive, OneCardPerRequest

\* Of the rows the promises speak about, only customers change.
LEMMA CreateCustomerOK == ASSUME OInv, NEW s \in Sessions, CreateCustomer(s) PROVE OInv'
<1>1. CASE Refuse(s)
  BY <1>1, RefuseStep
<1>2. CASE ~Refuse(s)
  <2>1. /\ users \subseteq users' /\ End(s) /\ UNCHANGED <<apps, kyc, openings, requests, office>>
    BY <1>2 DEF CreateCustomer
  <2>2. Tables /\ Promises
    BY OInvIs
  <2>. QED
    BY <2>1, <2>2, EndStep
    DEF office, Tables, Promises, ReviewsReachable, RequestsNameRows, OpenedOnceVerified,
        OpenedWhenActive, DecisionsAuthorised, OneCardPerRequest
<1>. QED
  BY <1>1, <1>2

LEMMA ReviewKycOK == ASSUME OInv, NEW e, NEW approve, ReviewKyc(e, approve) PROVE OInv'
<1>1. /\ kyc' \subseteq users' /\ UNCHANGED <<todo, session, apps, users, openings, requests, office>>
  BY OInvIs DEF ReviewKyc, Tables
<1>2. Workers'
  BY <1>1, OInvIs DEF Workers, SessionOK
<1>3. Tables' /\ Promises'
  BY <1>1, OInvIs
  DEF office, Tables, Promises, ReviewsReachable, RequestsNameRows, OpenedOnceVerified,
      OpenedWhenActive, DecisionsAuthorised, OneCardPerRequest
<1>. QED
  BY <1>2, <1>3 DEF OInv, TypeOK, Workers, Tables, Promises

LEMMA OpeningIs ==
  ASSUME NEW e \in Names, NEW state \in {"PENDING_KYC", "PENDING_APPROVAL", "ACTIVE"},
         NEW checked \in BOOLEAN
  PROVE  /\ Opening(e, state, checked) \in OpeningRow
         /\ Opening(e, state, checked).state = state
         /\ state = "ACTIVE" => Opening(e, state, checked).accounts = 1
         /\ state # "ACTIVE" => Opening(e, state, checked).accounts = 0
         /\ Opening(e, state, checked).checked = checked
BY DEF Opening, OpeningRow

\* An account application is inserted, active only if verified.
LEMMA NewOpening ==
  ASSUME Tables, Promises, NEW e \in Names, NEW checked \in BOOLEAN,
         NEW state \in {"PENDING_KYC", "PENDING_APPROVAL", "ACTIVE"},
         openings' = Append(openings, Opening(e, state, checked)),
         state = "ACTIVE" => checked
  PROVE  /\ openings' \in Seq(OpeningRow) /\ DOMAIN openings' = DOMAIN openings \cup {Len(openings) + 1}
         /\ OpenedOnceVerified' /\ OpenedWhenActive'
<1>. DEFINE o == Opening(e, state, checked)
<1>1. /\ o \in OpeningRow /\ o.state = state /\ o.checked = checked
      /\ (state = "ACTIVE" => o.accounts = 1) /\ (state # "ACTIVE" => o.accounts = 0)
  BY OpeningIs
<1>. HIDE DEF o
<1>2. /\ openings' \in Seq(OpeningRow) /\ DOMAIN openings' = DOMAIN openings \cup {Len(openings) + 1}
      /\ \A i \in DOMAIN openings : openings'[i] = openings[i]
      /\ openings'[Len(openings) + 1] = o
  BY <1>1, RowAdded DEF Tables, o
<1>. QED
  BY <1>1, <1>2 DEF Promises, OpenedOnceVerified, OpenedWhenActive

\* An application is opened, or waits; the one that waits for a manager has its
\* request in the queue.
LEMMA OpenAccountOK == ASSUME OInv, NEW s \in Sessions, OpenAccount(s) PROVE OInv'
<1>. DEFINE j == session[s].job
            seen == session[s].seen
            q == NewRequest("ACCOUNT_OPENING", Len(openings) + 1, j.by,
                            RequiredLevel(Rank[j.by], "ACCOUNT_OPENING", 1), None)
<1>0. Tables /\ Promises /\ Doing(s, "open")
  BY OInvIs DEF OpenAccount
<1>1. WellFormed(j) /\ j.op = "open" /\ SessionOK(session[s])
  BY <1>0, Working DEF Doing
<1>2. seen \in BOOLEAN /\ j.email \in Names /\ j.by \in Names
  BY <1>0, <1>1 DEF SessionOK, WellFormed, Job, Doing, Names
<1>3. CASE Refuse(s)
  BY <1>3, RefuseStep
<1>4. CASE ~Refuse(s)
  <2>1. End(s) /\ UNCHANGED <<apps, users, kyc, office>>
    BY <1>4 DEF OpenAccount
  <2>2. PICK state \in {"PENDING_KYC", "PENDING_APPROVAL", "ACTIVE"} :
          /\ openings' = Append(openings, Opening(j.email, state, seen))
          /\ state = "ACTIVE" => seen
          /\ requests' = requests \/ requests' = Append(requests, q)
    BY <1>2, <1>4 DEF OpenAccount
  <2>3. Len(openings) \in Nat
    BY <1>0, LenProperties DEF Tables
  <2>4. q \in RequestRow
    <3>1. RequiredLevel(Rank[j.by], "ACCOUNT_OPENING", 1) \in Levels
      BY RequiredLevelIs
    <3>2. Len(openings) + 1 \in Nat /\ None \in Nat \cup {None}
      BY <2>3
    <3>. QED
      BY <1>2, <3>1, <3>2, NewRequestIs
  <2>5. q.op = "ACCOUNT_OPENING" /\ q.on = Len(openings) + 1 /\ q.reviewer = None
    BY DEF NewRequest
  <2>. HIDE DEF j, seen, q
  <2>6. /\ openings' \in Seq(OpeningRow) /\ DOMAIN openings' = DOMAIN openings \cup {Len(openings) + 1}
        /\ OpenedOnceVerified' /\ OpenedWhenActive'
    BY <1>0, <1>2, <2>2, NewOpening
  <2>7. /\ requests' \in Seq(RequestRow) /\ DOMAIN requests \subseteq DOMAIN requests'
        /\ \A r \in DOMAIN requests : requests'[r] = requests[r]
        /\ \A r \in DOMAIN requests' \ DOMAIN requests : requests'[r] = q
    <3>1. CASE requests' = requests
      BY <1>0, <3>1 DEF Tables
    <3>2. CASE requests' = Append(requests, q)
      BY <1>0, <2>4, <3>2, RowAdded DEF Tables
    <3>. QED
      BY <2>2, <3>1, <3>2
  <2>8. ReviewsReachable' /\ RequestsNameRows' /\ DecisionsAuthorised'
    <3>1. ReviewsReachable'
      BY <1>0, <2>1, <2>7, ReviewsKept DEF Promises
    <3>2. RequestsNameRows'
      BY <1>0, <2>1, <2>5, <2>6, <2>7 DEF Promises, RequestsNameRows
    <3>3. DecisionsAuthorised'
      BY <1>0, <2>1, <2>5, <2>7 DEF Promises, DecisionsAuthorised, office
    <3>. QED
      BY <3>1, <3>2, <3>3
  <2>. QED
    BY <1>0, <2>1, <2>6, <2>7, <2>8, EndStep DEF office, Tables, Promises, OneCardPerRequest
<1>. QED
  BY <1>3, <1>4

-----------------------------------------------------------------------------
(* Decisions.                                                                *)

\* A decision is made on a pending request by another than its requester, and
\* changes that request only.
LEMMA DecidedIs ==
  ASSUME OInv, NEW s \in Sessions, NEW r \in DOMAIN requests, Decided(s, r),
         MayDecide(session[s].job, r), session[s].pc # "idle"
  PROVE  /\ End(s) /\ requests' \in Seq(RequestRow) /\ DOMAIN requests' = DOMAIN requests
         /\ \A i \in DOMAIN requests : i # r => requests'[i] = requests[i]
         /\ requests'[r].op = requests[r].op /\ requests'[r].on = requests[r].on
         /\ \A i \in DOMAIN requests' :
              requests'[i].reviewer # None => requests'[i].reviewer # requests'[i].by
<1>. DEFINE j == session[s].job
            row == [requests[r] EXCEPT !.reviewer = j.by,
                      !.status = IF j.yes THEN "APPROVED" ELSE "REJECTED"]
<1>0. Tables /\ Promises /\ j.by \in Names
  BY OInvIs, Working DEF WellFormed, Job, Names
<1>1. requests[r] \in RequestRow
  BY <1>0, RowIn DEF Tables
<1>2. requests' = [requests EXCEPT ![r] = row] /\ End(s)
  BY DEF Decided
<1>3. requests[r].by # j.by
  BY DEF MayDecide
<1>. HIDE DEF j
<1>4. /\ row \in RequestRow /\ row.op = requests[r].op /\ row.on = requests[r].on
      /\ row.by = requests[r].by /\ row.reviewer = j.by
  BY <1>0, <1>1 DEF RequestRow
<1>. HIDE DEF row
<1>5. /\ requests' \in Seq(RequestRow) /\ DOMAIN requests' = DOMAIN requests
      /\ \A i \in DOMAIN requests : requests'[i] = IF i = r THEN row ELSE requests[i]
  BY <1>0, <1>2, <1>4, RowChanged DEF Tables
<1>. QED
  BY <1>0, <1>2, <1>3, <1>4, <1>5 DEF Promises, DecisionsAuthorised

\* What the promises about other rows need of a decision that is no review.
LEMMA DecidedKeeps ==
  ASSUME OInv, NEW s \in Sessions, NEW r \in DOMAIN requests, Decided(s, r),
         MayDecide(session[s].job, r), session[s].pc # "idle",
         requests[r].op # "ONBOARDING_REVIEW", UNCHANGED apps,
         DOMAIN openings' = DOMAIN openings
  PROVE  ReviewsReachable' /\ RequestsNameRows'
<1>1. /\ DOMAIN requests' = DOMAIN requests
      /\ \A i \in DOMAIN requests : i # r => requests'[i] = requests[i]
      /\ requests'[r].op = requests[r].op /\ requests'[r].on = requests[r].on
  BY DecidedIs
<1>2. Promises
  BY OInvIs
<1>3. ReviewsReachable'
  BY <1>1, <1>2, ReviewsKept DEF Promises
<1>4. RequestsNameRows'
  BY <1>1, <1>2 DEF Promises, RequestsNameRows
<1>. QED
  BY <1>3, <1>4

LEMMA DecideOtherOK ==
  ASSUME OInv, NEW s \in Sessions, NEW r \in DOMAIN requests, DecideOther(s, r),
         MayDecide(session[s].job, r), session[s].pc # "idle"
  PROVE  OInv'
<1>1. Decided(s, r) /\ UNCHANGED <<portal, office>> /\ requests[r].op # "ONBOARDING_REVIEW"
  BY DEF DecideOther
<1>2. ReviewsReachable' /\ RequestsNameRows'
  BY <1>1, DecidedKeeps DEF portal
<1>3. /\ End(s) /\ requests' \in Seq(RequestRow) /\ DOMAIN requests' = DOMAIN requests
      /\ \A i \in DOMAIN requests' :
           requests'[i].reviewer # None => requests'[i].reviewer # requests'[i].by
  BY <1>1, DecidedIs
<1>4. Tables' /\ Promises'
  BY <1>1, <1>2, <1>3, OInvIs
  DEF portal, office, Tables, Promises, OpenedOnceVerified, OpenedWhenActive,
      DecisionsAuthorised, OneCardPerRequest
<1>. QED
  BY <1>3, <1>4, EndStep

\* The limit is set with the authority of the manager who approves.
LEMMA DecideLimitOK ==
  ASSUME OInv, NEW s \in Sessions, NEW r \in DOMAIN requests, DecideLimit(s, r),
         MayDecide(session[s].job, r), session[s].pc # "idle"
  PROVE  OInv'
<1>. DEFINE j == session[s].job
            a == requests[r].on
<1>0. Tables /\ Promises /\ j.by \in STRING
  BY OInvIs, Working DEF WellFormed, Job
<1>1. /\ Decided(s, r) /\ requests[r].op = "LIMIT_INCREASE"
      /\ limit' = [limit EXCEPT ![a] =
                     [val |-> requests[r].amount, by |-> j.by, asked |-> requests[r].by]]
      /\ UNCHANGED <<portal, restrictions, closed, cards, active>>
  BY DEF DecideLimit
<1>2. CanApprove(Rank[j.by], "LIMIT_INCREASE", requests[r].amount)
  BY <1>1 DEF MayDecide
<1>3. requests[r] \in RequestRow
  BY <1>0, RowIn DEF Tables
<1>4. requests[r].amount \in Nat \cup {None} /\ requests[r].by \in Names
  BY <1>3 DEF RequestRow
<1>5. /\ limit' \in [1 .. Accounts -> LimitRow]
      /\ \A b \in DOMAIN limit' : limit'[b].by # None =>
           CanApprove(Rank[limit'[b].by], "LIMIT_INCREASE", limit'[b].val)
  BY <1>0, <1>1, <1>2, <1>4, LimitSet
<1>6. ReviewsReachable' /\ RequestsNameRows'
  BY <1>1, DecidedKeeps DEF portal
<1>7. /\ End(s) /\ requests' \in Seq(RequestRow) /\ DOMAIN requests' = DOMAIN requests
      /\ \A i \in DOMAIN requests' :
           requests'[i].reviewer # None => requests'[i].reviewer # requests'[i].by
  BY <1>1, DecidedIs
<1>8. DecisionsAuthorised'
  BY <1>5, <1>7 DEF DecisionsAuthorised
<1>9. Tables' /\ Promises'
  BY <1>0, <1>1, <1>5, <1>6, <1>7, <1>8
  DEF portal, Tables, Promises, OpenedOnceVerified, OpenedWhenActive, OneCardPerRequest
<1>. QED
  BY <1>7, <1>9, EndStep

\* The application is activated once, on a review that is read again.
LEMMA DecideOpeningOK ==
  ASSUME OInv, NEW s \in Sessions, NEW r \in DOMAIN requests, DecideOpening(s, r),
         MayDecide(session[s].job, r), session[s].pc # "idle"
  PROVE  OInv'
<1>. DEFINE o == requests[r].on
            ok == openings[o].email \in kyc
            row == [openings[o] EXCEPT !.state = "ACTIVE", !.accounts = openings[o].accounts + 1,
                                       !.checked = ok]
<1>1. CASE Refuse(s)
  BY <1>1, RefuseStep
<1>2. CASE ~Refuse(s)
  <2>0. Tables /\ Promises
    BY OInvIs
  <2>1. /\ openings[o].email \in kyc /\ Activatable(o) /\ openings' = Activated(o) /\ Decided(s, r)
        /\ UNCHANGED <<apps, users, kyc, office>> /\ requests[r].op = "ACCOUNT_OPENING"
    BY <1>2 DEF DecideOpening
  <2>2. o \in DOMAIN openings
    BY <2>0, <2>1 DEF Promises, RequestsNameRows
  <2>3. openings[o] \in OpeningRow /\ openings[o].accounts = 0
    BY <2>0, <2>1, <2>2, RowIn DEF Tables, Promises, OpenedWhenActive, Activatable
  <2>4. openings' = [openings EXCEPT ![o] = row]
    BY <2>1 DEF Activated
  <2>. HIDE DEF o
  <2>5. row \in OpeningRow /\ row.state = "ACTIVE" /\ row.accounts = 1 /\ row.checked
    <3>1. ok \in BOOLEAN /\ ok
      BY <2>1
    <3>. HIDE DEF ok
    <3>2. row.state = "ACTIVE" /\ row.accounts = 1 /\ row.checked = ok
      BY <2>3 DEF OpeningRow
    <3>3. row \in OpeningRow
      <4>1. ok \in BOOLEAN
        BY <3>1
      <4>2. openings[o].accounts + 1 \in Nat
        BY <2>3
      <4>. QED
        BY <2>3, <4>1, <4>2 DEF OpeningRow
    <3>. QED
      BY <3>1, <3>2, <3>3
  <2>. HIDE DEF row
  <2>6. /\ openings' \in Seq(OpeningRow) /\ DOMAIN openings' = DOMAIN openings
        /\ \A i \in DOMAIN openings : openings'[i] = IF i = o THEN row ELSE openings[i]
    BY <2>0, <2>2, <2>4, <2>5, RowChanged DEF Tables
  <2>7. OpenedOnceVerified' /\ OpenedWhenActive'
    BY <2>0, <2>5, <2>6 DEF Promises, OpenedOnceVerified, OpenedWhenActive
  <2>8. ReviewsReachable' /\ RequestsNameRows'
    BY <2>1, <2>6, DecidedKeeps
  <2>9. /\ End(s) /\ requests' \in Seq(RequestRow) /\ DOMAIN requests' = DOMAIN requests
        /\ \A i \in DOMAIN requests' :
             requests'[i].reviewer # None => requests'[i].reviewer # requests'[i].by
    BY <2>1, DecidedIs
  <2>10. Tables' /\ Promises'
    BY <2>0, <2>1, <2>6, <2>7, <2>8, <2>9
    DEF office, Tables, Promises, DecisionsAuthorised, OneCardPerRequest
  <2>. QED
    BY <2>9, <2>10, EndStep
<1>. QED
  BY <1>1, <1>2

\* A review is decided: the application it is about leaves the queue with it,
\* and no other application had this request.
LEMMA ReviewDecided ==
  ASSUME OInv, NEW s \in Sessions, NEW r \in DOMAIN requests, Decided(s, r),
         MayDecide(session[s].job, r), session[s].pc # "idle",
         requests[r].op = "ONBOARDING_REVIEW", NEW status \in AppStatus \ InReview,
         apps' = [apps EXCEPT ![requests[r].on] =
                    [@ EXCEPT !.status = status, !.decider = session[s].job.by]],
         DOMAIN openings \subseteq DOMAIN openings'
  PROVE  apps' \in [1 .. Drafts -> AppRow] /\ ReviewsReachable' /\ RequestsNameRows'
<1>. DEFINE a == requests[r].on
            by == session[s].job.by
            row == [apps[a] EXCEPT !.status = status, !.decider = by]
<1>0. Tables /\ Promises /\ by \in Names
  BY OInvIs, Working DEF WellFormed, Job, Names
<1>1. a \in 1 .. Drafts /\ apps[a] \in AppRow
  BY <1>0 DEF Promises, RequestsNameRows, Tables
<1>2. apps' = [apps EXCEPT ![a] = row]
  OBVIOUS
<1>. HIDE DEF a, by
<1>3. row \in AppRow /\ row.status = status
  BY <1>0, <1>1 DEF AppRow
<1>. HIDE DEF row
<1>4. /\ apps' \in [1 .. Drafts -> AppRow] /\ DOMAIN apps' = DOMAIN apps
      /\ \A b \in DOMAIN apps : apps'[b] = IF b = a THEN row ELSE apps[b]
  <2>1. apps \in [1 .. Drafts -> AppRow]
    BY <1>0 DEF Tables
  <2>2. apps' = [b \in DOMAIN apps |-> IF b = a THEN row ELSE apps[b]]
    BY <1>2, <2>1
  <2>3. DOMAIN apps = 1 .. Drafts /\ \A b \in 1 .. Drafts : apps[b] \in AppRow
    BY <2>1
  <2>4. DOMAIN apps' = 1 .. Drafts /\ \A b \in 1 .. Drafts : apps'[b] \in AppRow
    BY <1>3, <2>2, <2>3
  <2>5. apps' \in [1 .. Drafts -> AppRow]
    BY <2>2, <2>4
  <2>. QED
    BY <2>2, <2>3, <2>4, <2>5
<1>5. /\ DOMAIN requests' = DOMAIN requests
      /\ \A i \in DOMAIN requests : i # r => requests'[i] = requests[i]
      /\ requests'[r].op = requests[r].op /\ requests'[r].on = requests[r].on
  BY DecidedIs
<1>6. ReviewsReachable'
  <2>. SUFFICES ASSUME NEW b \in DOMAIN apps', apps'[b].status \in InReview
                PROVE  \E i \in DOMAIN requests' :
                         /\ requests'[i].op = "ONBOARDING_REVIEW" /\ requests'[i].on = b
                         /\ requests'[i].status = "PENDING"
    BY DEF ReviewsReachable
  <2>1. b \in DOMAIN apps /\ b # a /\ apps'[b] = apps[b]
    BY <1>3, <1>4
  <2>2. PICK i \in DOMAIN requests : /\ requests[i].op = "ONBOARDING_REVIEW" /\ requests[i].on = b
                                     /\ requests[i].status = "PENDING"
    BY <1>0, <2>1 DEF Promises, ReviewsReachable
  <2>3. i # r
    BY <2>1, <2>2 DEF a
  <2>. QED
    BY <1>5, <2>2, <2>3
<1>7. RequestsNameRows'
  BY <1>0, <1>4, <1>5 DEF Promises, RequestsNameRows
<1>. QED
  BY <1>4, <1>6, <1>7

LEMMA DecideOnboardingOK ==
  ASSUME OInv, NEW s \in Sessions, NEW r \in DOMAIN requests, DecideOnboarding(s, r),
         MayDecide(session[s].job, r), session[s].pc # "idle"
  PROVE  OInv'
<1>. DEFINE j == session[s].job
            a == requests[r].on
            e == apps[a].email
            Set(status) == apps' = [apps EXCEPT ![a] = [@ EXCEPT !.status = status, !.decider = j.by]]
<1>0. Tables /\ Promises /\ requests[r].op = "ONBOARDING_REVIEW"
  BY OInvIs DEF DecideOnboarding
<1>1. ASSUME Decided(s, r), NEW status \in AppStatus \ InReview, Set(status),
             UNCHANGED office, kyc' \subseteq users', OpenedOnceVerified', OpenedWhenActive',
             openings' \in Seq(OpeningRow), DOMAIN openings \subseteq DOMAIN openings'
      PROVE  OInv'
  <2>1. apps' \in [1 .. Drafts -> AppRow] /\ ReviewsReachable' /\ RequestsNameRows'
    BY <1>0, <1>1, ReviewDecided
  <2>2. /\ End(s) /\ requests' \in Seq(RequestRow) /\ DOMAIN requests' = DOMAIN requests
        /\ \A i \in DOMAIN requests' :
             requests'[i].reviewer # None => requests'[i].reviewer # requests'[i].by
    BY <1>1, DecidedIs
  <2>3. Tables' /\ Promises'
    BY <1>0, <1>1, <2>1, <2>2 DEF office, Tables, Promises, DecisionsAuthorised, OneCardPerRequest
  <2>. QED
    BY <2>2, <2>3, EndStep
<1>2. ASSUME Decided(s, r), NEW status \in AppStatus \ InReview, Set(status),
             UNCHANGED <<users, kyc, openings, office>>
      PROVE  OInv'
  BY <1>0, <1>1, <1>2 DEF Tables, Promises, OpenedOnceVerified, OpenedWhenActive
<1>3. ASSUME Decided(s, r), Set("ACCOUNT_CREATED"), users' = users \cup {e}, kyc' = kyc \cup {e},
             openings' = Append(openings, Opening(e, "ACTIVE", TRUE)), UNCHANGED office
      PROVE  OInv'
  <2>1. apps[a] \in AppRow
    BY <1>0 DEF Promises, RequestsNameRows, Tables
  <2>2. e \in Names
    BY <2>1 DEF AppRow
  <2>3. /\ openings' \in Seq(OpeningRow) /\ DOMAIN openings' = DOMAIN openings \cup {Len(openings) + 1}
        /\ OpenedOnceVerified' /\ OpenedWhenActive'
    BY <1>0, <1>3, <2>2, NewOpening
  <2>4. kyc' \subseteq users'
    BY <1>0, <1>3 DEF Tables
  <2>5. "ACCOUNT_CREATED" \in AppStatus \ InReview
    BY DEF AppStatus, InReview
  <2>. QED
    BY <1>1, <1>3, <2>3, <2>4, <2>5
<1>4. "REJECTED" \in AppStatus \ InReview /\ "ADDITIONAL_INFORMATION_REQUIRED" \in AppStatus \ InReview
  BY DEF AppStatus, InReview
<1>5. \/ Refuse(s)
      \/ Decided(s, r) /\ Set("REJECTED") /\ UNCHANGED <<users, kyc, openings, office>>
      \/ Decided(s, r) /\ Set("ADDITIONAL_INFORMATION_REQUIRED") /\ UNCHANGED <<users, kyc, openings, office>>
      \/ /\ Decided(s, r) /\ Set("ACCOUNT_CREATED") /\ users' = users \cup {e} /\ kyc' = kyc \cup {e}
         /\ openings' = Append(openings, Opening(e, "ACTIVE", TRUE)) /\ UNCHANGED office
  BY DEF DecideOnboarding
<1>. HIDE DEF Set
<1>. QED
  BY <1>2, <1>3, <1>4, <1>5, RefuseStep

LEMMA DecideOK == ASSUME OInv, NEW s \in Sessions, Decide(s) PROVE OInv'
<1>. DEFINE r == session[s].row[2]
<1>1. SessionOK(session[s]) /\ session[s].pc = "locked" /\ session[s].job.op = "decide"
  BY OInvIs DEF Decide, Doing, Workers
<1>2. r \in DOMAIN requests
  BY <1>1 DEF SessionOK
<1>3. \/ Refuse(s)
      \/ /\ MayDecide(session[s].job, r)
         /\ DecideOther(s, r) \/ DecideLimit(s, r) \/ DecideOpening(s, r) \/ DecideOnboarding(s, r)
  BY DEF Decide
<1>. QED
  BY <1>1, <1>2, <1>3, RefuseStep, DecideOtherOK, DecideLimitOK, DecideOpeningOK, DecideOnboardingOK

-----------------------------------------------------------------------------
(* Limits, closure, restrictions, cards and users.                           *)

LEMMA SubmitApprovalOK == ASSUME OInv, NEW s \in Sessions, SubmitApproval(s) PROVE OInv'
<1>. DEFINE j == session[s].job
            q == NewRequest("LOAN_APPROVAL", j.on, j.by, RequiredLevel(Rank[j.by], "LOAN_APPROVAL", j.val), j.val)
<1>0. Tables /\ Promises
  BY OInvIs
<1>1. j.on \in Nat /\ j.by \in Names /\ j.val \in Nat \cup {None}
  BY Working DEF SubmitApproval, Doing, WellFormed, Job, Names
<1>2. CASE Refuse(s)
  BY <1>2, RefuseStep
<1>3. CASE ~Refuse(s)
  <2>1. requests' = Append(requests, q) /\ End(s) /\ UNCHANGED <<portal, office>>
    BY <1>3 DEF SubmitApproval
  <2>2. q \in RequestRow
    BY <1>1, RequiredLevelIs, NewRequestIs
  <2>3. q.op = "LOAN_APPROVAL" /\ q.reviewer = None
    BY DEF NewRequest
  <2>. HIDE DEF q
  <2>4. /\ requests' \in Seq(RequestRow) /\ DOMAIN requests \subseteq DOMAIN requests'
        /\ ReviewsReachable' /\ RequestsNameRows'
        /\ \A r \in DOMAIN requests' :
             requests'[r].reviewer # None => requests'[r].reviewer # requests'[r].by
    BY <1>0, <2>1, <2>2, <2>3, Queued DEF portal
  <2>5. Tables' /\ Promises'
    BY <1>0, <2>1, <2>4
    DEF portal, office, Tables, Promises, OpenedOnceVerified, OpenedWhenActive,
        DecisionsAuthorised, OneCardPerRequest
  <2>. QED
    BY <2>1, <2>4, <2>5, EndStep
<1>. QED
  BY <1>2, <1>3

\* The limit is set within the manager's own authority, or the change is queued.
LEMMA RequestLimitOK == ASSUME OInv, NEW s \in Sessions, RequestLimit(s) PROVE OInv'
<1>. DEFINE j == session[s].job
            q == NewRequest("LIMIT_INCREASE", j.on, j.by, RequiredLevel(Rank[j.by], "LIMIT_INCREASE", j.val), j.val)
<1>0. Tables /\ Promises /\ End(s) /\ UNCHANGED <<portal, restrictions, closed, cards, active>>
  BY OInvIs DEF RequestLimit
<1>1. j.on \in Nat /\ j.by \in STRING /\ j.by \in Names /\ j.val \in Nat \cup {None}
  BY Working DEF RequestLimit, Doing, WellFormed, Job, Names
<1>2. CASE CanApprove(Rank[j.by], "LIMIT_INCREASE", j.val)
  <2>1. limit' = [limit EXCEPT ![j.on] = [val |-> j.val, by |-> j.by, asked |-> None]]
        /\ requests' = requests
    BY <1>2 DEF RequestLimit
  <2>2. None \in Names
    BY DEF Names
  <2>3. /\ limit' \in [1 .. Accounts -> LimitRow]
        /\ \A b \in DOMAIN limit' : limit'[b].by # None =>
             CanApprove(Rank[limit'[b].by], "LIMIT_INCREASE", limit'[b].val)
    BY <1>0, <1>1, <1>2, <2>1, <2>2, LimitSet
  <2>4. DecisionsAuthorised'
    BY <1>0, <2>1, <2>3 DEF Promises, DecisionsAuthorised
  <2>5. Tables' /\ Promises'
    BY <1>0, <2>1, <2>3, <2>4
    DEF portal, Tables, Promises, ReviewsReachable, RequestsNameRows, OpenedOnceVerified,
        OpenedWhenActive, OneCardPerRequest
  <2>. QED
    BY <1>0, <2>1, <2>5, EndStep
<1>3. CASE ~CanApprove(Rank[j.by], "LIMIT_INCREASE", j.val)
  <2>1. limit' = limit /\ requests' = Append(requests, q)
    BY <1>3 DEF RequestLimit
  <2>2. q \in RequestRow
    BY <1>1, RequiredLevelIs, NewRequestIs
  <2>3. q.op = "LIMIT_INCREASE" /\ q.reviewer = None
    BY DEF NewRequest
  <2>. HIDE DEF q
  <2>4. /\ requests' \in Seq(RequestRow) /\ DOMAIN requests \subseteq DOMAIN requests'
        /\ ReviewsReachable' /\ RequestsNameRows'
        /\ \A r \in DOMAIN requests' :
             requests'[r].reviewer # None => requests'[r].reviewer # requests'[r].by
    BY <1>0, <2>1, <2>2, <2>3, Queued DEF portal
  <2>5. Tables' /\ Promises'
    BY <1>0, <2>1, <2>4
    DEF portal, Tables, Promises, OpenedOnceVerified, OpenedWhenActive, DecisionsAuthorised,
        OneCardPerRequest
  <2>. QED
    BY <1>0, <2>4, <2>5, EndStep
<1>. QED
  BY <1>2, <1>3

\* Closing, restricting and lifting touch no row that a promise is about.
LEMMA AccountStateOK ==
  ASSUME OInv, NEW s \in Sessions, CloseAccount(s) \/ RestrictAccount(s) \/ LiftRestriction(s)
  PROVE  OInv'
<1>1. \/ Refuse(s)
      \/ End(s) /\ UNCHANGED <<portal, requests, limit, cards, active>>
  BY DEF CloseAccount, RestrictAccount, LiftRestriction
<1>2. ASSUME End(s) /\ UNCHANGED <<portal, requests, limit, cards, active>> PROVE OInv'
  BY <1>2, OInvIs, TablesSame, EndStep DEF portal
<1>. QED
  BY <1>1, <1>2, RefuseStep

LEMMA LocksOK ==
  ASSUME OInv, NEW s \in Sessions,
         \/ \E r \in DOMAIN requests : LockRequest(s, r)
         \/ LockAccount(s, "limit") \/ LockAccount(s, "close")
         \/ \E r \in DOMAIN restrictions : LockRestriction(s, r)
         \/ \E c \in DOMAIN cards : LockCard(s, c)
  PROVE  OInv'
<1>1. ASSUME NEW r \in DOMAIN requests, LockRequest(s, r) PROVE OInv'
  BY <1>1, LockStep DEF LockRequest
<1>2. ASSUME NEW op, op \in {"limit", "close"}, LockAccount(s, op) PROVE OInv'
  BY <1>2, LockStep DEF LockAccount
<1>3. ASSUME NEW r, LockRestriction(s, r) PROVE OInv'
  BY <1>3, LockStep DEF LockRestriction
<1>4. ASSUME NEW c, LockCard(s, c) PROVE OInv'
  BY <1>4, LockStep DEF LockCard
<1>. QED
  BY <1>1, <1>2, <1>3, <1>4

\* A card request changes only what is said of card requests.
LEMMA CardsChange ==
  ASSUME OInv, NEW s \in Sessions, End(s), cards' \in Seq(CardRow), OneCardPerRequest',
         UNCHANGED <<portal, requests, limit, restrictions, closed, active>>
  PROVE  OInv'
<1>1. Tables' /\ Promises'
  BY OInvIs
  DEF portal, Tables, Promises, ReviewsReachable, RequestsNameRows, OpenedOnceVerified,
      OpenedWhenActive, DecisionsAuthorised
<1>. QED
  BY <1>1, EndStep

LEMMA RequestCardOK == ASSUME OInv, NEW s \in Sessions, RequestCard(s) PROVE OInv'
<1>. DEFINE row == [on |-> session[s].job.on, status |-> "PENDING", issued |-> 0]
<1>1. CASE Refuse(s)
  BY <1>1, RefuseStep
<1>2. CASE ~Refuse(s)
  <2>1. cards' = Append(cards, row) /\ End(s)
        /\ UNCHANGED <<portal, requests, limit, restrictions, closed, active>>
    BY <1>2 DEF RequestCard
  <2>2. session[s].job.on \in Nat
    BY Working DEF RequestCard, Doing, WellFormed, Job
  <2>3. row \in CardRow /\ row.issued = 0 /\ row.status = "PENDING"
    BY <2>2 DEF CardRow
  <2>. HIDE DEF row
  <2>4. /\ cards' \in Seq(CardRow) /\ DOMAIN cards' = DOMAIN cards \cup {Len(cards) + 1}
        /\ \A c \in DOMAIN cards : cards'[c] = cards[c]
        /\ cards'[Len(cards) + 1] = row
    BY <2>1, <2>3, OInvIs, RowAdded DEF Tables
  <2>5. OneCardPerRequest'
    BY <2>3, <2>4, OInvIs DEF Promises, OneCardPerRequest
  <2>. QED
    BY <2>1, <2>4, <2>5, CardsChange
<1>. QED
  BY <1>1, <1>2

\* The row is read again under its lock, and only a pending one is decided.
LEMMA DecideCardOK == ASSUME OInv, NEW s \in Sessions, DecideCard(s) PROVE OInv'
<1>. DEFINE c == session[s].row[2]
            row == IF session[s].job.yes
                     THEN [cards[c] EXCEPT !.status = "APPROVED", !.issued = cards[c].issued + 1]
                     ELSE [cards[c] EXCEPT !.status = "REJECTED"]
<1>1. CASE Refuse(s)
  BY <1>1, RefuseStep
<1>2. CASE ~Refuse(s)
  <2>1. cards' = [cards EXCEPT ![c] = row] /\ cards[c].status = "PENDING" /\ End(s)
        /\ UNCHANGED <<portal, requests, limit, restrictions, closed, active>>
    BY <1>2 DEF DecideCard
  <2>2. Tables /\ OneCardPerRequest
    BY OInvIs DEF Promises
  <2>3. CASE c \notin DOMAIN cards
    <3>1. cards' = cards
      BY <2>1, <2>2, <2>3 DEF Tables
    <3>2. OneCardPerRequest' /\ cards' \in Seq(CardRow)
      BY <2>2, <3>1 DEF Tables, OneCardPerRequest
    <3>. QED
      BY <2>1, <3>2, CardsChange
  <2>4. CASE c \in DOMAIN cards
    <3>1. cards[c] \in CardRow
      BY <2>2, <2>4, RowIn DEF Tables
    <3>2. cards[c].issued = 0
      BY <2>1, <2>2, <2>4 DEF OneCardPerRequest
    <3>. HIDE DEF c
    <3>3. row \in CardRow
      <4>1. cards[c].issued + 1 \in Nat
        BY <3>2
      <4>2. [cards[c] EXCEPT !.status = "APPROVED", !.issued = cards[c].issued + 1] \in CardRow
        BY <3>1, <4>1 DEF CardRow
      <4>3. [cards[c] EXCEPT !.status = "REJECTED"] \in CardRow
        BY <3>1 DEF CardRow
      <4>. QED
        BY <4>2, <4>3
    <3>4. row.issued = IF row.status = "APPROVED" THEN 1 ELSE 0
      BY <3>1, <3>2 DEF CardRow
    <3>. HIDE DEF row
    <3>5. /\ cards' \in Seq(CardRow) /\ DOMAIN cards' = DOMAIN cards
          /\ \A d \in DOMAIN cards : cards'[d] = IF d = c THEN row ELSE cards[d]
      BY <2>1, <2>2, <2>4, <3>3, RowChanged DEF Tables
    <3>6. OneCardPerRequest'
      BY <2>2, <3>4, <3>5 DEF OneCardPerRequest
    <3>. QED
      BY <2>1, <3>5, <3>6, CardsChange
  <2>. QED
    BY <2>3, <2>4
<1>. QED
  BY <1>1, <1>2

LEMMA UsersOK == ASSUME OInv, NEW s \in Sessions, BlockUser(s) \/ UnblockUser(s) PROVE OInv'
<1>1. CASE Refuse(s)
  BY <1>1, RefuseStep
<1>2. CASE ~Refuse(s)
  <2>1. Doing(s, "unblock") => session[s].job.email \in Admins
    BY Working DEF Doing, WellFormed
  <2>2. /\ active' \subseteq Admins /\ End(s)
        /\ UNCHANGED <<portal, requests, limit, restrictions, closed, cards>>
    BY <1>2, <2>1, OInvIs DEF BlockUser, UnblockUser, Tables
  <2>3. Tables' /\ Promises'
    BY <2>2, OInvIs
    DEF portal, Tables, Promises, ReviewsReachable, RequestsNameRows, OpenedOnceVerified,
        OpenedWhenActive, DecisionsAuthorised, OneCardPerRequest
  <2>. QED
    BY <2>2, <2>3, EndStep
<1>. QED
  BY <1>1, <1>2

-----------------------------------------------------------------------------
(* The invariant.                                                            *)

LEMMA ProceedStep == ASSUME OInv, NEW s \in Sessions, Proceed(s) PROVE OInv'
<1>1. CASE SaveStep(s) \/ CheckSubmit(s) \/ WriteSubmit(s)
  BY <1>1, SaveStepOK, CheckSubmitOK, WriteSubmitOK
<1>2. CASE CreateCustomer(s) \/ OpenAccount(s) \/ Decide(s)
  BY <1>2, CreateCustomerOK, OpenAccountOK, DecideOK
<1>3. CASE SubmitApproval(s) \/ RequestLimit(s)
  BY <1>3, SubmitApprovalOK, RequestLimitOK
<1>4. CASE CloseAccount(s) \/ RestrictAccount(s) \/ LiftRestriction(s)
  BY <1>4, AccountStateOK
<1>5. CASE RequestCard(s) \/ DecideCard(s) \/ BlockUser(s) \/ UnblockUser(s)
  BY <1>5, RequestCardOK, DecideCardOK, UsersOK
<1>6. CASE \/ \E r \in DOMAIN requests : LockRequest(s, r)
           \/ LockAccount(s, "limit") \/ LockAccount(s, "close")
           \/ \E r \in DOMAIN restrictions : LockRestriction(s, r)
           \/ \E c \in DOMAIN cards : LockCard(s, c)
  BY <1>6, LocksOK
<1>. QED
  BY <1>1, <1>2, <1>3, <1>4, <1>5, <1>6 DEF Proceed

LEMMA InitHolds == Init => OInv
<1>. SUFFICES ASSUME Init PROVE OInv
  OBVIOUS
<1>. DEFINE draft == [status |-> "DRAFT", email |-> None, risk |-> 1, decider |-> None]
            lim == [val |-> 1, by |-> None, asked |-> None]
<1>1. draft \in AppRow /\ draft.status = "DRAFT"
  BY DEF AppRow, AppStatus, Names
<1>2. lim \in LimitRow /\ lim.by = None
  BY DEF LimitRow, Names
<1>3. apps = [a \in 1 .. Drafts |-> draft] /\ limit = [a \in 1 .. Accounts |-> lim]
  BY DEF Init
<1>. HIDE DEF draft, lim
<1>4. /\ openings = <<>> /\ requests = <<>> /\ cards = <<>> /\ kyc \subseteq users /\ active \subseteq Admins
  BY OfficeAssumption DEF Init
<1>5. openings \in Seq(OpeningRow) /\ requests \in Seq(RequestRow) /\ cards \in Seq(CardRow)
  BY <1>4, EmptySeq
<1>6. DOMAIN openings = {} /\ DOMAIN requests = {} /\ DOMAIN cards = {}
  BY <1>4
<1>7. Tables
  BY <1>1, <1>2, <1>3, <1>4, <1>5 DEF Tables
<1>8. Promises
  BY <1>1, <1>2, <1>3, <1>6
  DEF Promises, ReviewsReachable, RequestsNameRows, OpenedOnceVerified, OpenedWhenActive,
      DecisionsAuthorised, OneCardPerRequest, InReview
<1>9. Workers
  BY IdleOK DEF Init, Workers
<1>. QED
  BY <1>7, <1>8, <1>9, OInvIs

LEMMA NextKeeps == OInv /\ [Next]_vars => OInv'
<1>. SUFFICES ASSUME OInv, [Next]_vars PROVE OInv'
  OBVIOUS
<1>1. ASSUME NEW s \in Sessions, Start(s) \/ Proceed(s) PROVE OInv'
  BY <1>1, StartStep, ProceedStep
<1>2. ASSUME NEW e \in Customers, NEW approve \in BOOLEAN, ReviewKyc(e, approve) PROVE OInv'
  BY <1>2, ReviewKycOK
<1>3. CASE UNCHANGED vars
  <2>1. UNCHANGED <<todo, session, apps, users, kyc, openings, requests, limit, cards, active>>
    BY <1>3 DEF vars, portal, office
  <2>2. Workers'
    BY <2>1, OInvIs DEF Workers, SessionOK
  <2>. QED
    BY <2>1, <2>2, OInvIs, TablesSame DEF OInv, TypeOK, Workers, Tables, Promises
<1>. QED
  BY <1>1, <1>2, <1>3 DEF Next

\* OInv holds in every state the back office can be in.
THEOREM OfficeInv == Spec => []OInv
BY InitHolds, NextKeeps, PTL DEF Spec

\* The variables keep their types, and a worker that has locked a request still
\* finds it.
THEOREM OfficeTypes == Spec => []TypeOK
<1>1. OInv => TypeOK
  BY DEF OInv
<1>. QED
  BY <1>1, OfficeInv, PTL

\* An application under review has a pending request in the queue, whatever the
\* tabs of the applicant write over one another.
THEOREM ReviewsAreReachable == Spec => []ReviewsReachable
<1>1. OInv => ReviewsReachable
  BY DEF OInv
<1>. QED
  BY <1>1, OfficeInv, PTL

\* An account application becomes active once, and on an approved KYC review.
THEOREM OpenedOnVerifiedKyc == Spec => []OpenedOnceVerified
<1>1. OInv => OpenedOnceVerified
  BY DEF OInv
<1>. QED
  BY <1>1, OfficeInv, PTL

\* Nobody approves what he asked for, and every limit in force is covered by the
\* authority of the manager who set it.
THEOREM AuthorityHolds == Spec => []DecisionsAuthorised
<1>1. OInv => DecisionsAuthorised
  BY DEF OInv
<1>. QED
  BY <1>1, OfficeInv, PTL

\* A card request issues one card when it is approved, and none otherwise.
THEOREM OneCardIssued == Spec => []OneCardPerRequest
<1>1. OInv => OneCardPerRequest
  BY DEF OInv
<1>. QED
  BY <1>1, OfficeInv, PTL

-----------------------------------------------------------------------------
(* What is recorded of the decisions.                                        *)

\* Nothing that a decision is about changes.
LEMMA StillRecorded ==
  ASSUME Recorded, UNCHANGED <<apps, openings, requests, limit>>
  PROVE  Recorded' /\ DecisionsStand
BY DEF Recorded, DecisionsOnRecord, OpeningsOnRecord, LimitsOnRecord, ApplicantsOnRecord,
   Approved, OneRequestEach, DecisionsStand

\* Decisions stand, so a limit stays on record unless it is set again.
LEMMA LimitsFollow ==
  ASSUME Recorded, DecisionsStand,
         \A a \in DOMAIN limit' :
           \/ a \in DOMAIN limit /\ limit'[a] = limit[a]
           \/ limit'[a].asked = None
           \/ \E r \in DOMAIN requests' :
                /\ requests'[r].op = "LIMIT_INCREASE" /\ requests'[r].on = a
                /\ requests'[r].amount = limit'[a].val /\ requests'[r].by = limit'[a].asked
                /\ requests'[r].reviewer = limit'[a].by /\ requests'[r].status = "APPROVED"
  PROVE  LimitsOnRecord'
<1>. SUFFICES ASSUME NEW a \in DOMAIN limit', limit'[a].asked # None
              PROVE  \E r \in DOMAIN requests' :
                /\ requests'[r].op = "LIMIT_INCREASE" /\ requests'[r].on = a
                /\ requests'[r].amount = limit'[a].val /\ requests'[r].by = limit'[a].asked
                /\ requests'[r].reviewer = limit'[a].by /\ requests'[r].status = "APPROVED"
  BY DEF LimitsOnRecord, Approved
<1>1. CASE a \in DOMAIN limit /\ limit'[a] = limit[a]
  <2>1. PICK r \in DOMAIN requests :
          /\ requests[r].op = "LIMIT_INCREASE" /\ requests[r].on = a
          /\ requests[r].amount = limit[a].val /\ requests[r].by = limit[a].asked
          /\ requests[r].reviewer = limit[a].by /\ requests[r].status = "APPROVED"
    BY <1>1 DEF Recorded, DecisionsOnRecord, LimitsOnRecord, Approved
  <2>2. r \in DOMAIN requests' /\ requests'[r] = requests[r]
    BY <2>1 DEF DecisionsStand
  <2>. QED
    BY <1>1, <2>1, <2>2
<1>. QED
  BY <1>1

LEMMA ApplicantsFollow ==
  ASSUME Recorded, DecisionsStand,
         \A a \in DOMAIN apps' :
           \/ a \in DOMAIN apps /\ apps'[a] = apps[a]
           \/ apps'[a].status # "ACCOUNT_CREATED"
           \/ \E r \in DOMAIN requests' :
                /\ requests'[r].op = "ONBOARDING_REVIEW" /\ requests'[r].on = a
                /\ requests'[r].amount = None /\ requests'[r].by = None
                /\ requests'[r].reviewer = apps'[a].decider /\ requests'[r].status = "APPROVED"
  PROVE  ApplicantsOnRecord'
<1>. SUFFICES ASSUME NEW a \in DOMAIN apps', apps'[a].status = "ACCOUNT_CREATED"
              PROVE  \E r \in DOMAIN requests' :
                /\ requests'[r].op = "ONBOARDING_REVIEW" /\ requests'[r].on = a
                /\ requests'[r].amount = None /\ requests'[r].by = None
                /\ requests'[r].reviewer = apps'[a].decider /\ requests'[r].status = "APPROVED"
  BY DEF ApplicantsOnRecord, Approved
<1>1. CASE a \in DOMAIN apps /\ apps'[a] = apps[a]
  <2>1. PICK r \in DOMAIN requests :
          /\ requests[r].op = "ONBOARDING_REVIEW" /\ requests[r].on = a
          /\ requests[r].amount = None /\ requests[r].by = None
          /\ requests[r].reviewer = apps[a].decider /\ requests[r].status = "APPROVED"
    BY <1>1 DEF Recorded, DecisionsOnRecord, ApplicantsOnRecord, Approved
  <2>2. r \in DOMAIN requests' /\ requests'[r] = requests[r]
    BY <2>1 DEF DecisionsStand
  <2>. QED
    BY <1>1, <2>1, <2>2
<1>. QED
  BY <1>1

\* Openings keep their states, and no request about one turns approved.
LEMMA OpeningsFollow ==
  ASSUME Recorded, RequestsNameRows,
         \A o \in DOMAIN openings : o \in DOMAIN openings' /\ openings'[o].state = openings[o].state,
         \A r \in DOMAIN requests' : requests'[r].op = "ACCOUNT_OPENING" =>
           \/ /\ r \in DOMAIN requests
              /\ requests[r].op = requests'[r].op /\ requests[r].on = requests'[r].on
              /\ requests[r].status = "APPROVED" <=> requests'[r].status = "APPROVED"
           \/ requests'[r].status # "APPROVED" /\ openings'[requests'[r].on].state # "ACTIVE"
  PROVE  OpeningsOnRecord'
BY DEF Recorded, DecisionsOnRecord, OpeningsOnRecord, RequestsNameRows

LEMMA SaveRecorded ==
  ASSUME OInv, Recorded, NEW s \in Sessions, SaveStep(s)
  PROVE  Recorded' /\ DecisionsStand
<1>. DEFINE j == session[s].job
            row == [session[s].seen EXCEPT !.email = j.email, !.risk = j.val]
<1>0. Doing(s, "save") /\ Tables
  BY OInvIs DEF SaveStep
<1>1. session[s].seen \in AppRow /\ session[s].seen.status = "DRAFT"
  BY <1>0, Working DEF SessionOK, Doing
<1>2. row.status = "DRAFT"
  BY <1>1 DEF AppRow
<1>3. apps' = [apps EXCEPT ![j.on] = row] /\ UNCHANGED <<openings, requests, limit>>
  BY DEF SaveStep, office
<1>. HIDE DEF j, row
<1>4. \A a \in DOMAIN apps' : a \in DOMAIN apps /\ (apps'[a] = apps[a] \/ apps'[a].status = "DRAFT")
  BY <1>0, <1>2, <1>3 DEF Tables
<1>5. DecisionsStand
  BY <1>3 DEF DecisionsStand
<1>6. ApplicantsOnRecord'
  BY <1>4, <1>5, ApplicantsFollow
<1>7. OpeningsOnRecord' /\ LimitsOnRecord' /\ OneRequestEach'
  BY <1>3 DEF Recorded, DecisionsOnRecord, OpeningsOnRecord, LimitsOnRecord, Approved, OneRequestEach
<1>. QED
  BY <1>5, <1>6, <1>7 DEF Recorded, DecisionsOnRecord

\* A new request is pending, and one about an opening comes with that opening.
LEMMA QueuedRecorded ==
  ASSUME OInv, Recorded, NEW q \in RequestRow, requests' = Append(requests, q),
         q.status = "PENDING",
         q.op = "ONBOARDING_REVIEW" => q.by = None /\ q.amount = None,
         q.op = "ACCOUNT_OPENING" => q.on \notin DOMAIN openings /\ openings'[q.on].state # "ACTIVE",
         \A o \in DOMAIN openings : o \in DOMAIN openings' /\ openings'[o].state = openings[o].state
  PROVE  DecisionsStand /\ OneRequestEach' /\ OpeningsOnRecord'
<1>1. Tables /\ RequestsNameRows
  BY OInvIs DEF Promises
<1>2. /\ DOMAIN requests' = DOMAIN requests \cup {Len(requests) + 1}
      /\ \A r \in DOMAIN requests : requests'[r] = requests[r]
      /\ requests'[Len(requests) + 1] = q
  BY <1>1, RowAdded DEF Tables
<1>3. DecisionsStand
  BY <1>2 DEF DecisionsStand
<1>4. OneRequestEach'
  <2>1. ASSUME NEW r \in DOMAIN requests', NEW p \in DOMAIN requests',
               requests'[r].op = "ACCOUNT_OPENING", requests'[p].op = "ACCOUNT_OPENING",
               requests'[r].on = requests'[p].on
        PROVE  r = p
    <3>1. CASE r \in DOMAIN requests /\ p \in DOMAIN requests
      BY <1>2, <2>1, <3>1 DEF Recorded, OneRequestEach
    <3>2. \A i \in DOMAIN requests : requests[i].op = "ACCOUNT_OPENING" => requests[i].on \in DOMAIN openings
      BY <1>1 DEF RequestsNameRows
    <3>. QED
      BY <1>2, <2>1, <3>1, <3>2
  <2>2. \A r \in DOMAIN requests' : requests'[r].op = "ONBOARDING_REVIEW" =>
          requests'[r].by = None /\ requests'[r].amount = None
    BY <1>2 DEF Recorded, OneRequestEach
  <2>. QED
    BY <2>1, <2>2 DEF OneRequestEach
<1>5. OpeningsOnRecord'
  BY <1>1, <1>2, OpeningsFollow
<1>. QED
  BY <1>3, <1>4, <1>5

LEMMA SubmitRecorded ==
  ASSUME OInv, Recorded, NEW s \in Sessions, WriteSubmit(s)
  PROVE  Recorded' /\ DecisionsStand
<1>. DEFINE j == session[s].job
            seen == session[s].seen
            row == [seen EXCEPT !.status = "IDENTITY_REVIEW"]
            q == NewRequest("ONBOARDING_REVIEW", j.on, None, seen.risk, None)
<1>0. Tables /\ Doing(s, "submit")
  BY OInvIs DEF WriteSubmit
<1>1. WellFormed(j) /\ j.op = "submit" /\ SessionOK(session[s])
  BY <1>0, Working DEF Doing
<1>2. seen \in AppRow /\ j.on \in Nat
  BY <1>0, <1>1 DEF SessionOK, WellFormed, Job, Doing
<1>3. apps' = [apps EXCEPT ![j.on] = row] /\ requests' = Append(requests, q)
      /\ UNCHANGED <<openings, limit>>
  BY DEF WriteSubmit, office
<1>. HIDE DEF j, seen
<1>4. row.status = "IDENTITY_REVIEW"
  BY <1>2 DEF AppRow
<1>5. seen.risk \in Levels
  BY <1>2 DEF AppRow, Levels
<1>6. q \in RequestRow
  BY <1>2, <1>5, NewRequestIs DEF PeerOps, Names
<1>7. q.op = "ONBOARDING_REVIEW" /\ q.by = None /\ q.amount = None /\ q.status = "PENDING"
  BY DEF NewRequest
<1>. HIDE DEF row, q
<1>8. DecisionsStand /\ OneRequestEach' /\ OpeningsOnRecord'
  BY <1>3, <1>6, <1>7, QueuedRecorded
<1>9. \A a \in DOMAIN apps' : a \in DOMAIN apps /\ (apps'[a] = apps[a] \/ apps'[a].status = "IDENTITY_REVIEW")
  BY <1>0, <1>3, <1>4 DEF Tables
<1>10. ApplicantsOnRecord'
  BY <1>8, <1>9, ApplicantsFollow
<1>11. LimitsOnRecord'
  BY <1>3, <1>8, LimitsFollow
<1>. QED
  BY <1>8, <1>10, <1>11 DEF Recorded, DecisionsOnRecord

LEMMA OpenRecorded ==
  ASSUME OInv, Recorded, NEW s \in Sessions, OpenAccount(s)
  PROVE  Recorded' /\ DecisionsStand
<1>. DEFINE j == session[s].job
            seen == session[s].seen
            q == NewRequest("ACCOUNT_OPENING", Len(openings) + 1, j.by,
                            RequiredLevel(Rank[j.by], "ACCOUNT_OPENING", 1), None)
<1>0. Tables /\ RequestsNameRows /\ Doing(s, "open")
  BY OInvIs DEF OpenAccount, Promises
<1>1. WellFormed(j) /\ j.op = "open" /\ SessionOK(session[s])
  BY <1>0, Working DEF Doing
<1>2. seen \in BOOLEAN /\ j.email \in Names /\ j.by \in Names
  BY <1>0, <1>1 DEF SessionOK, WellFormed, Job, Doing, Names
<1>3. CASE Refuse(s)
  BY <1>3, StillRecorded DEF Refuse, portal, office
<1>4. CASE ~Refuse(s)
  <2>1. PICK state \in {"PENDING_KYC", "PENDING_APPROVAL", "ACTIVE"} :
          /\ openings' = Append(openings, Opening(j.email, state, seen))
          /\ \/ requests' = requests
             \/ requests' = Append(requests, q) /\ state = "PENDING_APPROVAL"
    BY <1>2, <1>4 DEF OpenAccount
  <2>2. UNCHANGED <<apps, limit>>
    BY <1>4 DEF OpenAccount, office
  <2>3. Len(openings) \in Nat
    BY <1>0, LenProperties DEF Tables
  <2>4. q \in RequestRow
    <3>1. RequiredLevel(Rank[j.by], "ACCOUNT_OPENING", 1) \in Levels
      BY RequiredLevelIs
    <3>2. Len(openings) + 1 \in Nat /\ None \in Nat \cup {None}
      BY <2>3
    <3>. QED
      BY <1>2, <3>1, <3>2, NewRequestIs
  <2>5. q.op = "ACCOUNT_OPENING" /\ q.on = Len(openings) + 1 /\ q.status = "PENDING"
    BY DEF NewRequest
  <2>. HIDE DEF j, seen, q
  <2>6. PICK o : o = Opening(j.email, state, seen)
    OBVIOUS
  <2>7. o \in OpeningRow /\ o.state = state
    BY <1>2, <2>6, OpeningIs
  <2>8. /\ Len(openings) + 1 \notin DOMAIN openings
        /\ \A i \in DOMAIN openings : i \in DOMAIN openings' /\ openings'[i] = openings[i]
        /\ openings'[Len(openings) + 1] = o
    <3>1. openings' = Append(openings, o) /\ openings \in Seq(OpeningRow)
      BY <1>0, <2>1, <2>6 DEF Tables
    <3>2. DOMAIN openings = 1 .. Len(openings)
      BY <3>1, LenProperties
    <3>3. Len(openings) + 1 \notin DOMAIN openings
      BY <2>3, <3>2
    <3>. QED
      BY <2>7, <3>1, <3>3, RowAdded
  <2>9. DecisionsStand /\ OneRequestEach' /\ OpeningsOnRecord'
    <3>1. CASE requests' = requests
      <4>1. DecisionsStand /\ OneRequestEach'
        BY <3>1 DEF DecisionsStand, Recorded, OneRequestEach
      <4>2. OpeningsOnRecord'
        BY <1>0, <2>8, <3>1, OpeningsFollow
      <4>. QED
        BY <4>1, <4>2
    <3>2. CASE requests' = Append(requests, q) /\ state = "PENDING_APPROVAL"
      BY <2>4, <2>5, <2>7, <2>8, <3>2, QueuedRecorded
    <3>. QED
      BY <2>1, <3>1, <3>2
  <2>10. LimitsOnRecord' /\ ApplicantsOnRecord'
    BY <2>2, <2>9, LimitsFollow, ApplicantsFollow
  <2>. QED
    BY <2>9, <2>10 DEF Recorded, DecisionsOnRecord
<1>. QED
  BY <1>3, <1>4

\* Asking for a loan or a limit queues a request about neither an opening nor a
\* review, or sets a limit that was not asked for.
LEMMA AskRecorded ==
  ASSUME OInv, Recorded, NEW s \in Sessions, SubmitApproval(s) \/ RequestLimit(s)
  PROVE  Recorded' /\ DecisionsStand
<1>. DEFINE j == session[s].job
            q(op) == NewRequest(op, j.on, j.by, RequiredLevel(Rank[j.by], op, j.val), j.val)
<1>0. Tables
  BY OInvIs
<1>1. j.on \in Nat /\ j.by \in Names /\ j.val \in Nat \cup {None}
  BY Working DEF RequestLimit, SubmitApproval, Doing, WellFormed, Job, Names
<1>2. \/ UNCHANGED <<apps, openings, requests, limit>>
      \/ /\ \E op \in {"LOAN_APPROVAL", "LIMIT_INCREASE"} : requests' = Append(requests, q(op))
         /\ UNCHANGED <<apps, openings, limit>>
      \/ /\ limit' = [limit EXCEPT ![j.on] = [val |-> j.val, by |-> j.by, asked |-> None]]
         /\ UNCHANGED <<apps, openings, requests>>
  BY DEF RequestLimit, SubmitApproval, Refuse, portal, office
<1>3. ASSUME NEW op \in {"LOAN_APPROVAL", "LIMIT_INCREASE"}, requests' = Append(requests, q(op)),
             UNCHANGED <<apps, openings, limit>>
      PROVE  Recorded' /\ DecisionsStand
  <2>1. q(op) \in RequestRow
    BY <1>1, RequiredLevelIs, NewRequestIs
  <2>2. q(op).op = op /\ q(op).status = "PENDING"
    BY DEF NewRequest
  <2>. HIDE DEF q
  <2>3. DecisionsStand /\ OneRequestEach' /\ OpeningsOnRecord'
    BY <1>3, <2>1, <2>2, QueuedRecorded
  <2>4. LimitsOnRecord' /\ ApplicantsOnRecord'
    BY <1>3, <2>3, LimitsFollow, ApplicantsFollow
  <2>. QED
    BY <2>3, <2>4 DEF Recorded, DecisionsOnRecord
<1>4. ASSUME limit' = [limit EXCEPT ![j.on] = [val |-> j.val, by |-> j.by, asked |-> None]],
             UNCHANGED <<apps, openings, requests>>
      PROVE  Recorded' /\ DecisionsStand
  <2>1. DecisionsStand
    BY <1>4 DEF DecisionsStand
  <2>2. \A a \in DOMAIN limit' : a \in DOMAIN limit /\ (limit'[a] = limit[a] \/ limit'[a].asked = None)
    BY <1>0, <1>4 DEF Tables
  <2>3. LimitsOnRecord'
    BY <2>1, <2>2, LimitsFollow
  <2>4. OpeningsOnRecord' /\ ApplicantsOnRecord' /\ OneRequestEach'
    BY <1>4 DEF Recorded, DecisionsOnRecord, OpeningsOnRecord, ApplicantsOnRecord, Approved, OneRequestEach
  <2>. QED
    BY <2>1, <2>3, <2>4 DEF Recorded, DecisionsOnRecord
<1>. QED
  BY <1>2, <1>3, <1>4, StillRecorded

\* What becomes of the request that is decided.
LEMMA DecidedRow ==
  ASSUME OInv, Recorded, NEW s \in Sessions, NEW r \in DOMAIN requests, Decided(s, r),
         MayDecide(session[s].job, r), session[s].pc # "idle"
  PROVE  /\ DOMAIN requests' = DOMAIN requests /\ requests[r].status = "PENDING"
         /\ \A i \in DOMAIN requests : i # r => requests'[i] = requests[i]
         /\ requests'[r].op = requests[r].op /\ requests'[r].on = requests[r].on
         /\ requests'[r].by = requests[r].by /\ requests'[r].amount = requests[r].amount
         /\ requests'[r].reviewer = session[s].job.by
         /\ requests'[r].status = IF session[s].job.yes THEN "APPROVED" ELSE "REJECTED"
         /\ DecisionsStand /\ OneRequestEach'
<1>. DEFINE j == session[s].job
            row == [requests[r] EXCEPT !.reviewer = j.by,
                      !.status = IF j.yes THEN "APPROVED" ELSE "REJECTED"]
<1>0. Tables /\ requests[r].status = "PENDING" /\ j.by \in Names
  BY OInvIs, Working DEF MayDecide, WellFormed, Job, Names
<1>1. requests[r] \in RequestRow
  BY <1>0, RowIn DEF Tables
<1>2. requests' = [requests EXCEPT ![r] = row]
  BY DEF Decided
<1>. HIDE DEF j
<1>3. /\ row \in RequestRow /\ row.op = requests[r].op /\ row.on = requests[r].on
      /\ row.by = requests[r].by /\ row.amount = requests[r].amount /\ row.reviewer = j.by
      /\ row.status = IF j.yes THEN "APPROVED" ELSE "REJECTED"
  BY <1>0, <1>1 DEF RequestRow
<1>. HIDE DEF row
<1>4. /\ DOMAIN requests' = DOMAIN requests
      /\ \A i \in DOMAIN requests : requests'[i] = IF i = r THEN row ELSE requests[i]
  BY <1>0, <1>2, <1>3, RowChanged DEF Tables
<1>5. DecisionsStand
  BY <1>0, <1>4 DEF DecisionsStand
<1>6. OneRequestEach'
  <2>1. \A i \in DOMAIN requests : /\ requests'[i].op = requests[i].op /\ requests'[i].on = requests[i].on
                                   /\ requests'[i].by = requests[i].by
                                   /\ requests'[i].amount = requests[i].amount
    BY <1>3, <1>4
  <2>. QED
    BY <1>4, <2>1 DEF Recorded, OneRequestEach
<1>. QED
  BY <1>0, <1>3, <1>4, <1>5, <1>6 DEF j

LEMMA OtherRecorded ==
  ASSUME OInv, Recorded, NEW s \in Sessions, NEW r \in DOMAIN requests, DecideOther(s, r),
         MayDecide(session[s].job, r), session[s].pc # "idle"
  PROVE  Recorded' /\ DecisionsStand
<1>1. /\ Decided(s, r) /\ UNCHANGED <<apps, openings, limit>>
      /\ requests[r].op = "ACCOUNT_OPENING" => ~session[s].job.yes
  BY DEF DecideOther, portal, office
<1>2. /\ DOMAIN requests' = DOMAIN requests /\ requests[r].status = "PENDING"
      /\ \A i \in DOMAIN requests : i # r => requests'[i] = requests[i]
      /\ requests'[r].op = requests[r].op /\ requests'[r].on = requests[r].on
      /\ requests'[r].status = IF session[s].job.yes THEN "APPROVED" ELSE "REJECTED"
      /\ DecisionsStand /\ OneRequestEach'
  BY <1>1, DecidedRow
<1>3. RequestsNameRows
  BY OInvIs DEF Promises
<1>4. OpeningsOnRecord'
  BY <1>1, <1>2, <1>3, OpeningsFollow
<1>5. LimitsOnRecord' /\ ApplicantsOnRecord'
  BY <1>1, <1>2, LimitsFollow, ApplicantsFollow
<1>. QED
  BY <1>2, <1>4, <1>5 DEF Recorded, DecisionsOnRecord

LEMMA LimitRecorded ==
  ASSUME OInv, Recorded, NEW s \in Sessions, NEW r \in DOMAIN requests, DecideLimit(s, r),
         MayDecide(session[s].job, r), session[s].pc # "idle"
  PROVE  Recorded' /\ DecisionsStand
<1>. DEFINE row == [val |-> requests[r].amount, by |-> session[s].job.by, asked |-> requests[r].by]
<1>1. /\ Decided(s, r) /\ UNCHANGED <<apps, openings>> /\ session[s].job.yes
      /\ requests[r].op = "LIMIT_INCREASE"
      /\ limit' = [limit EXCEPT ![requests[r].on] = row]
  BY DEF DecideLimit, portal
<1>2. /\ DOMAIN requests' = DOMAIN requests /\ requests[r].status = "PENDING"
      /\ \A i \in DOMAIN requests : i # r => requests'[i] = requests[i]
      /\ requests'[r].op = requests[r].op /\ requests'[r].on = requests[r].on
      /\ requests'[r].by = requests[r].by /\ requests'[r].amount = requests[r].amount
      /\ requests'[r].reviewer = session[s].job.by /\ requests'[r].status = "APPROVED"
      /\ DecisionsStand /\ OneRequestEach'
  BY <1>1, DecidedRow
<1>3. RequestsNameRows /\ Tables
  BY OInvIs DEF Promises
<1>4. OpeningsOnRecord'
  BY <1>1, <1>2, <1>3, OpeningsFollow
<1>5. row.val = requests[r].amount /\ row.by = session[s].job.by /\ row.asked = requests[r].by
  OBVIOUS
<1>. HIDE DEF row
<1>6. \A a \in DOMAIN limit' :
        a \in DOMAIN limit /\ limit'[a] = IF a = requests[r].on THEN row ELSE limit[a]
  BY <1>1, <1>3 DEF Tables
<1>7. LimitsOnRecord'
  <2>. SUFFICES ASSUME NEW a \in DOMAIN limit'
                PROVE  \/ a \in DOMAIN limit /\ limit'[a] = limit[a]
                       \/ limit'[a].asked = None
                       \/ \E i \in DOMAIN requests' :
                            /\ requests'[i].op = "LIMIT_INCREASE" /\ requests'[i].on = a
                            /\ requests'[i].amount = limit'[a].val /\ requests'[i].by = limit'[a].asked
                            /\ requests'[i].reviewer = limit'[a].by /\ requests'[i].status = "APPROVED"
    BY <1>2, LimitsFollow
  <2>1. CASE a # requests[r].on
    BY <1>6, <2>1
  <2>2. CASE a = requests[r].on
    <3>1. /\ requests'[r].op = "LIMIT_INCREASE" /\ requests'[r].on = a
          /\ requests'[r].amount = limit'[a].val /\ requests'[r].by = limit'[a].asked
          /\ requests'[r].reviewer = limit'[a].by /\ requests'[r].status = "APPROVED"
      BY <1>1, <1>2, <1>5, <1>6, <2>2
    <3>. QED
      BY <1>2, <3>1
  <2>. QED
    BY <2>1, <2>2
<1>8. ApplicantsOnRecord'
  BY <1>1, <1>2, ApplicantsFollow
<1>. QED
  BY <1>2, <1>4, <1>7, <1>8 DEF Recorded, DecisionsOnRecord

\* The opening becomes active with the approval of the one request about it.
LEMMA OpeningRecorded ==
  ASSUME OInv, Recorded, NEW s \in Sessions, NEW r \in DOMAIN requests, DecideOpening(s, r),
         MayDecide(session[s].job, r), session[s].pc # "idle"
  PROVE  Recorded' /\ DecisionsStand
<1>1. CASE Refuse(s)
  BY <1>1, StillRecorded DEF Refuse, portal, office
<1>2. CASE ~Refuse(s)
  <2>1. PICK o : o = requests[r].on
    OBVIOUS
  <2>2. PICK row : row = [openings[o] EXCEPT !.state = "ACTIVE", !.accounts = openings[o].accounts + 1,
                                             !.checked = openings[o].email \in kyc]
    OBVIOUS
  <2>3. /\ Decided(s, r) /\ requests[r].op = "ACCOUNT_OPENING" /\ session[s].job.yes
        /\ UNCHANGED <<apps, limit>> /\ openings' = [openings EXCEPT ![o] = row]
    BY <1>2, <2>1, <2>2 DEF DecideOpening, Activated, office
  <2>4. Tables /\ RequestsNameRows
    BY OInvIs DEF Promises
  <2>5. o \in DOMAIN openings /\ openings[o] \in OpeningRow
    BY <2>1, <2>3, <2>4, RowIn DEF RequestsNameRows, Tables
  <2>6. row.state = "ACTIVE"
    BY <2>2, <2>5 DEF OpeningRow
  <2>7. /\ DOMAIN openings' = DOMAIN openings
        /\ \A i \in DOMAIN openings : openings'[i] = IF i = o THEN row ELSE openings[i]
    BY <2>3
  <2>8. /\ DOMAIN requests' = DOMAIN requests
        /\ \A i \in DOMAIN requests : i # r => requests'[i] = requests[i]
        /\ requests'[r].op = requests[r].op /\ requests'[r].on = requests[r].on
        /\ requests'[r].status = "APPROVED"
        /\ DecisionsStand /\ OneRequestEach'
    BY <2>3, DecidedRow
  <2>9. OpeningsOnRecord'
    <3>. SUFFICES ASSUME NEW i \in DOMAIN requests', requests'[i].op = "ACCOUNT_OPENING"
                  PROVE  requests'[i].status = "APPROVED" <=> openings'[requests'[i].on].state = "ACTIVE"
      BY DEF OpeningsOnRecord
    <3>1. CASE i = r
      BY <2>1, <2>5, <2>6, <2>7, <2>8, <3>1
    <3>2. CASE i # r
      <4>1. i \in DOMAIN requests /\ requests'[i] = requests[i] /\ requests[i].op = "ACCOUNT_OPENING"
        BY <2>8, <3>2
      <4>2. requests[i].on # o /\ requests[i].on \in DOMAIN openings
        BY <2>1, <2>3, <2>4, <3>2, <4>1 DEF Recorded, OneRequestEach, RequestsNameRows
      <4>3. openings'[requests[i].on] = openings[requests[i].on]
        BY <2>7, <4>2
      <4>. QED
        BY <4>1, <4>3 DEF Recorded, DecisionsOnRecord, OpeningsOnRecord
    <3>. QED
      BY <3>1, <3>2
  <2>10. LimitsOnRecord' /\ ApplicantsOnRecord'
    BY <2>3, <2>8, LimitsFollow, ApplicantsFollow
  <2>. QED
    BY <2>8, <2>9, <2>10 DEF Recorded, DecisionsOnRecord
<1>. QED
  BY <1>1, <1>2

\* An applicant becomes a customer by an approval, whoever decided about him before.
LEMMA OnboardingRecorded ==
  ASSUME OInv, Recorded, NEW s \in Sessions, NEW r \in DOMAIN requests, DecideOnboarding(s, r),
         MayDecide(session[s].job, r), session[s].pc # "idle"
  PROVE  Recorded' /\ DecisionsStand
<1>. DEFINE j == session[s].job
            a == requests[r].on
            e == apps[a].email
            Set(status) == apps' = [apps EXCEPT ![a] = [@ EXCEPT !.status = status, !.decider = j.by]]
<1>0. Tables /\ RequestsNameRows /\ requests[r].op = "ONBOARDING_REVIEW"
  BY OInvIs DEF DecideOnboarding, Promises
<1>1. CASE Refuse(s)
  BY <1>1, StillRecorded DEF Refuse, portal, office
<1>2. CASE ~Refuse(s)
  <2>0. /\ Decided(s, r) /\ UNCHANGED limit
        /\ \/ Set("REJECTED") /\ openings' = openings
           \/ Set("ADDITIONAL_INFORMATION_REQUIRED") /\ openings' = openings
           \/ /\ Set("ACCOUNT_CREATED") /\ j.yes
              /\ openings' = Append(openings, Opening(e, "ACTIVE", TRUE))
    BY <1>2 DEF DecideOnboarding, office
  <2>1. PICK status :
          /\ Decided(s, r) /\ UNCHANGED limit
          /\ Set(status)
          /\ status = "ACCOUNT_CREATED" => j.yes
          /\ openings' = openings \/ openings' = Append(openings, Opening(e, "ACTIVE", TRUE))
    <3>. HIDE DEF Set, j, e
    <3>. QED
      BY <2>0
  <2>2. /\ DOMAIN requests' = DOMAIN requests /\ requests[r].status = "PENDING"
        /\ \A i \in DOMAIN requests : i # r => requests'[i] = requests[i]
        /\ requests'[r].op = requests[r].op /\ requests'[r].on = requests[r].on
        /\ requests'[r].by = requests[r].by /\ requests'[r].amount = requests[r].amount
        /\ requests'[r].reviewer = j.by
        /\ requests'[r].status = IF j.yes THEN "APPROVED" ELSE "REJECTED"
        /\ DecisionsStand /\ OneRequestEach'
    BY <2>1, DecidedRow
  <2>3. requests[r].by = None /\ requests[r].amount = None
    BY <1>0 DEF Recorded, OneRequestEach
  <2>4. apps[a] \in AppRow
    BY <1>0 DEF RequestsNameRows, Tables
  <2>5. \A o \in DOMAIN openings : o \in DOMAIN openings' /\ openings'[o].state = openings[o].state
    <3>1. CASE openings' = openings
      BY <3>1
    <3>2. CASE openings' = Append(openings, Opening(e, "ACTIVE", TRUE))
      <4>1. e \in Names
        BY <2>4 DEF AppRow
      <4>2. Opening(e, "ACTIVE", TRUE) \in OpeningRow
        BY <4>1, OpeningIs
      <4>3. PICK new : new = Opening(e, "ACTIVE", TRUE)
        OBVIOUS
      <4>4. new \in OpeningRow /\ openings' = Append(openings, new) /\ openings \in Seq(OpeningRow)
        BY <1>0, <3>2, <4>2, <4>3 DEF Tables
      <4>5. \A o \in DOMAIN openings : o \in DOMAIN openings' /\ openings'[o] = openings[o]
        BY <4>4, RowAdded
      <4>. QED
        BY <4>5
    <3>. QED
      BY <2>1, <3>1, <3>2
  <2>6. OpeningsOnRecord'
    BY <1>0, <2>2, <2>5, OpeningsFollow
  <2>7. PICK row : row = [apps[a] EXCEPT !.status = status, !.decider = j.by]
    OBVIOUS
  <2>8. row.status = status /\ row.decider = j.by
    BY <2>4, <2>7 DEF AppRow
  <2>. HIDE DEF j, e
  <2>9. \A b \in DOMAIN apps' : b \in DOMAIN apps /\ apps'[b] = IF b = a THEN row ELSE apps[b]
    BY <1>0, <2>1, <2>7 DEF Tables
  <2>10. ApplicantsOnRecord'
    <3>. SUFFICES ASSUME NEW b \in DOMAIN apps'
                  PROVE  \/ b \in DOMAIN apps /\ apps'[b] = apps[b]
                         \/ apps'[b].status # "ACCOUNT_CREATED"
                         \/ \E i \in DOMAIN requests' :
                              /\ requests'[i].op = "ONBOARDING_REVIEW" /\ requests'[i].on = b
                              /\ requests'[i].amount = None /\ requests'[i].by = None
                              /\ requests'[i].reviewer = apps'[b].decider
                              /\ requests'[i].status = "APPROVED"
      BY <2>2, ApplicantsFollow
    <3>1. CASE b # a \/ status # "ACCOUNT_CREATED"
      BY <2>8, <2>9, <3>1
    <3>2. CASE b = a /\ status = "ACCOUNT_CREATED"
      <4>1. /\ requests'[r].op = "ONBOARDING_REVIEW" /\ requests'[r].on = b
            /\ requests'[r].amount = None /\ requests'[r].by = None
            /\ requests'[r].reviewer = apps'[b].decider /\ requests'[r].status = "APPROVED"
        BY <1>0, <2>1, <2>2, <2>3, <2>8, <2>9, <3>2
      <4>. QED
        BY <2>2, <4>1
    <3>. QED
      BY <3>1, <3>2
  <2>11. LimitsOnRecord'
    BY <2>1, <2>2, LimitsFollow
  <2>. QED
    BY <2>2, <2>6, <2>10, <2>11 DEF Recorded, DecisionsOnRecord
<1>. QED
  BY <1>1, <1>2

LEMMA DecideRecorded ==
  ASSUME OInv, Recorded, NEW s \in Sessions, Decide(s)
  PROVE  Recorded' /\ DecisionsStand
<1>. DEFINE r == session[s].row[2]
<1>1. SessionOK(session[s]) /\ session[s].pc = "locked" /\ session[s].job.op = "decide"
  BY OInvIs DEF Decide, Doing, Workers
<1>2. r \in DOMAIN requests
  BY <1>1 DEF SessionOK
<1>3. \/ Refuse(s)
      \/ /\ MayDecide(session[s].job, r)
         /\ DecideOther(s, r) \/ DecideLimit(s, r) \/ DecideOpening(s, r) \/ DecideOnboarding(s, r)
  BY DEF Decide
<1>4. Refuse(s) => Recorded' /\ DecisionsStand
  BY StillRecorded DEF Refuse, portal, office
<1>. QED
  BY <1>1, <1>2, <1>3, <1>4, OtherRecorded, LimitRecorded, OpeningRecorded, OnboardingRecorded

\* The other steps touch nothing that a decision is about.
LEMMA NothingDecided ==
  ASSUME NEW s \in Sessions,
         \/ Start(s) \/ CheckSubmit(s) \/ CreateCustomer(s)
         \/ \E r \in DOMAIN requests : LockRequest(s, r)
         \/ LockAccount(s, "limit") \/ LockAccount(s, "close") \/ CloseAccount(s)
         \/ RestrictAccount(s) \/ (\E r \in DOMAIN restrictions : LockRestriction(s, r))
         \/ LiftRestriction(s) \/ RequestCard(s) \/ (\E c \in DOMAIN cards : LockCard(s, c))
         \/ DecideCard(s) \/ BlockUser(s) \/ UnblockUser(s)
  PROVE  UNCHANGED <<apps, openings, requests, limit>>
<1>1. CASE Start(s)
  BY <1>1 DEF Start, Begin, BeginSave, BeginSubmit, BeginCreateCustomer, BeginOpenAccount, BeginDecide,
     BeginRestrict, BeginRequestCard, BeginDecideCard, BeginBlock, BeginUnblock, BeginLift, portal, office
<1>2. CASE CheckSubmit(s) \/ CreateCustomer(s)
  BY <1>2 DEF CheckSubmit, CreateCustomer, Refuse, portal, office
<1>3. CASE \/ \E r \in DOMAIN requests : LockRequest(s, r)
           \/ LockAccount(s, "limit") \/ LockAccount(s, "close")
           \/ \E r \in DOMAIN restrictions : LockRestriction(s, r)
           \/ \E c \in DOMAIN cards : LockCard(s, c)
  BY <1>3 DEF LockRequest, LockAccount, LockRestriction, LockCard, Lock, portal, office
<1>4. CASE CloseAccount(s) \/ RestrictAccount(s) \/ LiftRestriction(s)
  BY <1>4 DEF CloseAccount, RestrictAccount, LiftRestriction, Refuse, portal, office
<1>5. CASE RequestCard(s) \/ DecideCard(s) \/ BlockUser(s) \/ UnblockUser(s)
  BY <1>5 DEF RequestCard, DecideCard, BlockUser, UnblockUser, Refuse, portal, office
<1>. QED
  BY <1>1, <1>2, <1>3, <1>4, <1>5

LEMMA RecordedStep == OInv /\ Recorded /\ [Next]_vars => Recorded' /\ DecisionsStand
<1>. SUFFICES ASSUME OInv, Recorded, [Next]_vars PROVE Recorded' /\ DecisionsStand
  OBVIOUS
<1>1. ASSUME NEW s \in Sessions, SaveStep(s) \/ WriteSubmit(s) \/ OpenAccount(s)
      PROVE  Recorded' /\ DecisionsStand
  BY <1>1, SaveRecorded, SubmitRecorded, OpenRecorded
<1>2. ASSUME NEW s \in Sessions, Decide(s) \/ SubmitApproval(s) \/ RequestLimit(s)
      PROVE  Recorded' /\ DecisionsStand
  BY <1>2, DecideRecorded, AskRecorded
<1>3. ASSUME NEW s \in Sessions, Start(s) \/ Proceed(s)
      PROVE  Recorded' /\ DecisionsStand
  BY <1>1, <1>2, <1>3, NothingDecided, StillRecorded DEF Proceed
<1>4. ASSUME NEW e \in Customers, NEW approve \in BOOLEAN, ReviewKyc(e, approve)
      PROVE  Recorded' /\ DecisionsStand
  BY <1>4, StillRecorded DEF ReviewKyc, office
<1>5. CASE UNCHANGED vars
  BY <1>5, StillRecorded DEF vars, portal, office
<1>. QED
  BY <1>3, <1>4, <1>5 DEF Next

LEMMA InitRecorded == Init => Recorded
<1>. SUFFICES ASSUME Init PROVE Recorded
  OBVIOUS
<1>1. DOMAIN requests = {} /\ \A a \in DOMAIN limit : limit[a].asked = None
  BY DEF Init
<1>2. \A a \in DOMAIN apps : apps[a].status = "DRAFT"
  BY DEF Init
<1>. QED
  BY <1>1, <1>2 DEF Recorded, DecisionsOnRecord, OpeningsOnRecord, LimitsOnRecord, ApplicantsOnRecord,
     OneRequestEach

\* What is recorded of the decisions is sound in every state: together with OInv
\* it is inductive.
THEOREM RecordInv == Spec => []Recorded
BY InitRecorded, RecordedStep, OfficeInv, PTL DEF Spec

\* Whatever managers wait for the same request, and whatever raises while one of
\* them decides it, the decision and what it decides are both there or neither
\* is: openings, limits and customers made of applicants have an approved request.
THEOREM DecisionsAreOnRecord == Spec => []DecisionsOnRecord
<1>1. Recorded => DecisionsOnRecord
  BY DEF Recorded
<1>. QED
  BY <1>1, RecordInv, PTL

\* A request that was approved or rejected is never decided again.
THEOREM DecisionsAreFinal == Spec => DecidedOnce
<1>1. OInv /\ Recorded /\ [Next]_vars => [DecisionsStand]_vars
  BY RecordedStep
<1>. QED
  BY <1>1, OfficeInv, RecordInv, PTL DEF Spec, DecidedOnce
=============================================================================
