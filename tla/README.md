# Formal models of Esta WorkForce OS

TLA+ specifications of the parts of this repository where money, time and
concurrency meet: how a Payment gets its provider order, how provider events
become payment truth, how subscriptions, renewals and Trials of a company
share its commercial authority, how e-mails are claimed, sent and retried, how
refresh sessions are rotated between the server and its clients, how an
employee's attendance is recorded, closed by the system and corrected, how leave
is requested, decided and charged, and how the desktop agent's activity sessions
reach the server.  TLC checks them on small instances; TLAPS proves the most
important results for every value of the constants.

    tlc -workers 2 -config MCProviderOrders.cfg MCProviderOrders.tla
    tlapm ProviderOrdersProofs.tla

`PROJECT.json` holds the list of runs, the lines each definition stands for
("map"), the hazards and the findings.

## The system

The repository is a NestJS backend over PostgreSQL (`src/backend`), a React
admin panel (`src/admin-panel`), an Electron desktop agent
(`src/desktop-agent`) and a browser extension (`src/browser-extension`).  All
authority is in the backend's database; several backend processes may run, each
with its schedulers, so every operation may overlap with every other one and
with itself.

| component | state | operations | what makes it hard | what makes it correct |
|---|---|---|---|---|
| Provider order preparation (`payments/payment-provider-orders.service.ts`) | PaymentAttempt, PaymentProviderOrder | prepare, prepareSystem: reserve, dispatch, resume, reconcile, persist | a remote call with a timeout and no idempotency key, between two transactions; overlapping runs; credential rotation | one call per Payment, orders recorded only on proof, rejection is final |
| Provider event inbox (`payments/payment-provider-events.service.ts`) | PaymentProviderEvent, Payment.status | ingest, process, recoverDue | duplicates, any order, leases, dead workers, the unlocked failure path | truth independent of order, capture final, events come to rest |
| Checkout confirmation (`payments/payment-checkout-confirmations.service.ts`) | PaymentAttempt | confirm | races with the webhook | one provider payment per Payment |
| Payment activation (`subscriptions/subscription-payment-activation.service.ts`) | CompanySubscription, AuditLog | activate, recoverDue | lost hand-off, rival subscriptions, Trials | every capture is answered, live means paid |
| Subscription lifecycle (`subscriptions/subscriptions.service.ts`, `subscription-expiration.service.ts`) | CompanySubscription | create, activate, suspend, resume, cancel, expire, amend | seven ways to become live; amend reads before it locks, and its successor must satisfy a CHECK of the table | one live subscription per company |
| Renewals (`subscription-renewal-preparation.service.ts`, `subscription-renewal-application.service.ts`, `platform-renewals`) | SubscriptionRenewal, CompanySubscription | prepare, apply, recover | money captured before or after expiry, replays | the cycle applied is the cycle paid; gapless history |
| Trials (`trials/trials.service.ts`) | CompanyTrial | start, extend, cancel, convert, expire | excludes live subscriptions | a Trial and a live subscription exclude each other |
| Billing credentials (`billing-settings`) | BillingProviderConfiguration, BillingProviderCredential | configure, enable, disable, resolve | rotation while calls are in flight | a call uses the credential of its attempt |
| Payment creation, tax (`payments.service.ts`, `subscription-tax-calculation.service.ts`) | Payment, PaymentTaxSnapshot | createForSubscription, createForRenewal | rounding, lock order | totals reconcile |
| Invoices (`invoices`) | Invoice, number sequence | generate, issue, recover | concurrent numbering | one gapless number per captured Payment |
| Notification creation (`notifications`) | Notification, NotificationDelivery | create, by key | replays | one notification per key |
| Notification delivery (`notifications/notification-delivery.service.ts`) | NotificationDelivery | claim, send, finalize as delivered, failed or cancelled | leases, dead workers, lost answers, a finalization that throws | a lease is exclusive, what is final stays so, retries come |
| SMTP bootstrap and authority (`platform-communication/smtp-email-verification-bootstrap.service.ts`, `smtp-configuration-authority.service.ts`, `smtp-bootstrap-dispatch-fence.ts`, `smtp-runtime`) | NotificationDelivery, audit log, the platform's SMTP selection | send; select, toggle; resolve | a mail that may or may not be out; authority changing under a dispatch | an uncertain mail is never sent again; a dispatch fences changes of authority |
| SMTP configuration lifecycle (`platform-communication`) | drafts, validations, connection tests | create, edit, test, validate | edits under a test | what is active was tested |
| Access and seats (`usage-seats`) | derived | resolve, admit | admission races | seats within the authority |
| Auth, identity actions (`auth`, `identity-actions`, `users`) | RefreshSession, RefreshToken, User | login, refresh, logout; what revokes sessions; invite, reset | token reuse, concurrent refresh, lost answers, a password checked without a lock | a session has one usable token, none outlives a change of password, no client is taken for a thief without a lost answer |
| Attendance, corrections (`attendance`, `attendance-corrections`) | Attendance, BreakLog, AttendanceCorrectionRequest | punch in and out, breaks, evaluation of sessions left open, request, review and cancel corrections | every request reads, decides and writes without a lock or a transaction; late writes of the evaluation; agents that go on reporting | what the system closes was open, it credits evidence and no more, a correction is decided once, nothing stays open for ever |
| Leave (`leave`) | LeaveRequest, LeaveApprovalHistory, LeaveBalance, LeaveType; Company.designatedLeaveApproverUserId | apply, review, cancel; change and remove types; designate an approver | decisions on what was read before the transaction, while people lose roles, managers and employment; leave over two years | no overlapping live requests, one decision each, the balance is the leave approved, only the assigned approver who still has the authority decides |
| Shifts, rosters, calendar (`shift-assignments`, `scheduling`) | assignments, rosters | publish, resolve | precedence | one shift per day |
| Monitoring, alerts, productivity (`monitoring*`, `productivity`) | MonitoringDevice, ActivitySession, alerts | register and administer devices, ingest, evaluate | redelivery, devices that change hands | idempotent ingestion |
| Desktop agent (`src/desktop-agent`) | upload queues, tokens | sample, close, enqueue, flush; restore, refresh | restarts, lost answers, full queues, two collectors over one queue | nothing closed is lost, nothing overtakes, the queue drains |
| Admin panel (`src/admin-panel`) | tokens in localStorage | restore, refresh, log in and out | late answers, several tabs | a late answer does not bring a session back |
| Browser extension | none durable | - | - | - |

How they interact: prepare() creates the order a customer pays; the provider's
webhook moves the Payment; a captured Payment is handed to activation or to
renewal application, in the same request, and again every minute by a recovery
job if that was lost; both lock the Company row, as every lifecycle and Trial
operation does.  Renewal preparation calls prepareSystem(); lifecycle
operations look at its attempts before they take a subscription away.  The
desktop agent authenticates, registers its device and, between punch in and
punch out, uploads heartbeats, activity sessions and screenshots; the attendance
evaluation takes the latest of these as the last evidence of work.

## Modules

| module | models | state and actions in the code |
|---|---|---|
| `ProviderOrders` | `PaymentProviderOrdersService` and what moves the rows it reads | `attempts`, `order` are the PaymentAttempt and PaymentProviderOrder rows of a Payment; `pc` and `req` are the control state and locals of one run of prepare(); `wire` is its createOrder call at the provider.  One action per transaction, unlocked read and call |
| `ProviderEvents` | `PaymentProviderEventsService`, checkout confirmation, payment activation | `event`, `payment`, `subscription`, `blocked` are rows; `worker` is a webhook request or a run of the recovery job.  `clock` stands for the lease and nextRetryAt compared with the time |
| `PaymentTruth` | what the inbox promises about Payments | abstract; `ProviderEvents` implements it under the mapping given at its end |
| `Subscriptions` | `SubscriptionsService`, expiration, renewal preparation and application, `TrialsService`, activation | `sub`, `renewal`, `trial` are one company's rows; `amendment` is what an amend() in flight has read.  One action per operation, since each is one transaction under the Company lock |
| `NotificationDelivery` | `NotificationDeliveryService`, `SmtpEmailVerificationBootstrapService`, `SmtpConfigurationAuthorityService` | `row` is the NotificationDelivery table, `lapsed` the claims whose claimExpiresAt has passed, `started` and `completed` the bootstrap's audit log, `authority` the platform's e-mail setting, `seen` what an activation's snapshot holds; `pc`, `held`, `processed` are the locals of the workers and the bootstrap requests; `accepted` is the provider's side: the claims under which it took a mail |
| `AuthSessions` | `AuthService`, what `UsersService` and others do to sessions, the desktop agent's and the admin panel's clients | `account`, `token`, `session` are the User, RefreshToken and RefreshSession rows; `secretOf` remembers the password a session was opened with, `replayed` the audit log's replays; `store` is the disk or localStorage of a client, `screen`, `login`, `refresh`, `logout` its state and its requests under way; `stray` are the requests nobody waits for any more, `lost` the sessions of which an answer was given up |
| `Attendance` | `AttendanceService`, `StaleAttendanceScheduler`, `AttendanceCorrectionsService` for one employee | `row`, `pause`, `correction` are the Attendance, BreakLog and AttendanceCorrectionRequest rows; `request`, `pass`, `review` hold what a request, an evaluation or an approval has decided and not yet written; `seen` is the latest evidence of each kind; `applied` counts applications of a correction |
| `Leave` | `LeaveService` for one company, and what others change of the people it looks at | `request`, `history`, `used`, `type` are the LeaveRequest, LeaveApprovalHistory, LeaveBalance and LeaveType rows; `person` is the User, UserRole and Employee rows of everybody, `designated` the Company's designated approver; `call` holds what a review or cancellation has read before its transaction, `doomed` the types whose removal has counted no pending request |
| `ActivityUploads` | `ActivityCollector`, `MonitoringUploader`, the upload queue, `AppShell`'s collectors; devices and `uploadActivity()` of `MonitoringService` | `queue` is the renderer's localStorage; `running`, `current`, `flushing` are the state of each collector; `device`, `stored` are the MonitoringDevice and ActivitySession rows; `user` is who is logged in; `closed`, `dropped`, `source` remember what became of each session |
| `MC*` | instances for TLC | |
| `*Proofs` | theorems about the module they extend | |

How the models compose: `ProviderOrders` takes the subscription's status and
the settlement of a Payment as inputs (its last section gives them the guards
the code has); `ProviderEvents` takes the recording of the order as an input
(`RecordOrder`); `Subscriptions` takes a renewal's dispatch, order and capture
as inputs (`OpenDispatch`, `RecordRenewalOrder`, `CaptureRenewal`).  What one
module assumes of the other is a property checked there: a renewal with an
unresolved dispatch is held (`RenewalDispatchHeld`) and an order is recorded at
most once for a Payment that can still take it (`OrderProven`).

`NotificationDelivery`, `AuthSessions` and `Leave` stand alone: the other
modules create no mail, look at no token and read no leave. `Attendance` takes
evidence of work as an input (`Evidence`), at any moment and late; `NoGap` of
`ActivityUploads` is why the latest evidence speaks for what came before it.

### What is abstracted

- Row locks: a transaction that locks first and then reads is one action.  Where
  code reads without a lock and decides on what it read (the eligibility and
  credential reads of prepare(), attemptCount in the failure path of process(),
  the source of amend()), the read is an action of its own.
- Constraints of the tables that refuse a whole transaction are guards:
  `ReferenceFree` in `ProviderOrders`, `PaymentActivationCheck` in
  `Subscriptions`.  By the latter no subscription with a Payment is ever amended,
  so `ProviderOrders` has no amendment.
- Money, tax, seats, entitlements and prices: they are fixed when a row is
  created and only compared with themselves later, so the comparisons always
  succeed; the branches that would refuse are left out.
- `Payment.status` is PENDING or SETTLED in `ProviderOrders`, as prepare() only
  asks whether it is PENDING.  An order is named by the run whose call made it.
- The resolution of a credential that cannot be decrypted throws without
  writing; such a run is in the `crashed` state of `ProviderOrders`.
- In `ProviderEvents`, SUSPENDED is ACTIVE (activation treats them alike), and
  EXPIRED and SUPERSEDED are CANCELLED (all three block activation).
- In `Subscriptions` every billing period has the same length, and endedAt of an
  EXPIRED row is its currentPeriodEnd, which is what expire() writes.
  A Trial is its endsAt; at most one is ACTIVE (a unique index).
- In `NotificationDelivery` a claimToken is the number of the attempt it was
  drawn for.  Tokens are random UUIDs, so two are different; the number is
  different too, and says more.  A delivery's Notification is written in the same
  transactions with the same guard and is left out.  FAILED with errorCode
  SMTP_ACCEPTANCE_UNCERTAIN is a status of its own, UNCERTAIN.  `select()` is two
  actions, since it is Serializable: what it reads is as of the statement that
  asks for the advisory lock, which may be long before it gets it.
- In `AuthSessions` a session is named by its first token, since a RefreshSession
  has no name the clients know.  Every transaction over sessions locks the User
  row first, so it is one action; the password check of login() is not.  When a
  refresh fails without a refusal, the desktop agent keeps its tokens if nothing
  came back and clears them if an error did.  Access
  tokens, and refresh tokens that have lapsed, are left out.
- In `Attendance` the clock counts whole minutes, the shift starts with the day,
  and one policy applies throughout.  Minutes worked, lateness and statuses are
  derived from a row's times when they are written and are left out.
- In `Leave`, apply() is one action: it locks the Company, the applicant and the
  approver before it decides, so that two of them cannot race here; `NoOverlap`
  is about the overlap test.  review() and cancel() are two, the look and the
  transaction.  COMPANY_ADMIN counts as HR, from which nothing here tells it
  apart; the mail sent after a commit, whose failure is only logged, is left out.
- In `ActivityUploads` the server's look at the device and its insert are one
  step; a session is its clientSessionId, and a fresh one is whichever is unused.

## Runs

| run | bounds | shows |
|---|---|---|
| `provider_orders` | an activation and a renewal Payment, three runs of prepare(), two credential versions | one call per Payment, orders are proven, rejections final, dispatches held, calls and attempts on the right credential, and all who answer agree |
| `provider_orders_retry` | one renewal, three runs | **finding**: the promised retry of a rejected renewal order cannot be inserted |
| `provider_events_order` | one Payment that failed under one provider payment and was captured under another, told in either order; one handler, one recovery run, two attempts, one crash | order independence, no early surrender; `PaymentTruth` is implemented; events come to rest and captures are answered |
| `provider_events_rival` | two Payments of one company, one provider payment claimed by both, one of them captured in its own right as well; one attempt, one crash | the provider payment counts for one of them (`PaymentTruth` is implemented); a live subscription was paid for and is the only one |
| `subscriptions` | two subscriptions, one amend() in flight, periods of 2 ticks, time up to 3, periods up to 6 | one live, boundaries hold, history is gapless and a replay succeeds exactly while the subscription is ACTIVE, Trials excluded but for late renewals, an amendment replaces the row it read |
| `subscriptions_liveness` | two subscriptions, periods of 1 tick, time up to 2 | captured renewals are answered, elapsed subscriptions expire |
| `subscriptions_amend` | as `subscriptions`, time up to 2 | **finding**: a subscription activated by a payment passes every check of amend() and cannot be amended |
| `notification_delivery` | one e-mail, two workers, one bootstrap request at a time, three attempts, batches of two | a lease is exclusive, an uncertain mail is not sent again, final rows stay, retries come |
| `auth_sessions` | three tokens, one of them from before sessions existed; the desktop agent and a tab, each with a store of its own; one change of password | no session survives a change of password, rotation never forks, a replay means a lost answer, only a login switches sessions |
| `attendance` | one session, break and correction; one request of the employee, one evaluation and one reviewer at a time; one kind of evidence; days of three minutes, time up to 4 | the evaluation closes only what is open and credits only evidence, a correction is decided once, nothing stays open for ever |
| `leave` | two people, one type, two requests, of which one may be from before approvers were assigned, two calls, two days on either side of a new year, two changes to people, types and the designated approver | no overlap, one decision, balances match, only the authority decides |
| `activity_uploads` | three sessions, a queue of two, two collectors, one device, two employees | nothing is lost, nothing overtakes, the queue drains |

Why the bounds are enough to be interesting: three runs of prepare() let one own
the call, one reconcile it and a third arrive late; two credential versions let
a rotation happen between any two steps; two attempts are the first claim and
the last, and a second worker is all that overlaps a lease. Neither run of the
event inbox has more than two truths of one Payment, nor an event without any:
the proofs take any events. In `Subscriptions` two rows are a source and its
successor, or two rivals; the horizon lets a period of two elapse with a tick
before and after its end, and `MaxEnd` lets a subscription be renewed twice. In
`NotificationDelivery` three attempts let a bootstrap, a worker and its rival
each have one, and let a worker hold the last while an earlier one's lease has
run out; all properties are of one row at a time, and rows meet only in
`Eligible` and the batch. In `AuthSessions` three tokens are a session of old,
its successor and a rival login, and two tabs of one store are left to the
hazards, since the code does not serialise them. In `Attendance` one session is
enough for its four properties, which are of one row at a time: the request, the
evaluation and the reviewer are three writers to it; four minutes hold a shift,
the grace after it, the maximum and the next day. In `Leave` two people are an
applicant and the approver, and each may be either; two requests can overlap;
the two calls are a review that races a cancellation, or two reviews; two
changes take away the authority that a call has seen and give it to somebody
else. In `ActivityUploads` three sessions are one more than the queue holds, and
two collectors are all that overlap in the code's hand-over from one to the
next.

`Requests` in `ProviderOrders`, `Subs` in `Subscriptions`, the tokens that are
not from before sessions in `AuthSessions` and `Calls` in `Leave` are symmetric;
no symmetry is used where liveness is checked. Deadlock is not checked where
every run of prepare() may end, an inbox may be empty, every request for leave
be decided or the horizon be reached.

### Fairness

`ProviderEvents` and `Subscriptions` state weak fairness of the scheduled jobs
(`@Cron(EVERY_MINUTE)` in payment-provider-event-recovery.scheduler.ts,
subscription-payment-activation.scheduler.ts and
subscription-expiration.scheduler.ts), of the next step of a worker that has not
died, and of time passing for leases and retry delays.  `NotificationDelivery`
states weak fairness of a worker's next step (its minute job, and transports that
time out) and of time passing; not of bootstraps, nor of the operator.
`Attendance` states weak fairness of time and of the scheduled evaluation
(stale-attendance.scheduler.ts, every minute), and strong fairness of its
writes: a pass may die, again and again, but not every time.  `ActivityUploads`
states fairness of the collectors in `Steady` alone: their timers fire, and not
every answer to their uploads is lost.  Nothing is assumed of employees,
webhooks, customers, administrators or the provider: an event need not be
delivered again, an order need not be paid.  Fairness of a job towards every row
is stronger than the code where a scan is cut at 25 rows; the hazards list says
where.

## Proofs

Every invariant and every action property that a run checks is proved for every
value of the constants; what is left to TLC is the liveness listed at the end.
The type invariants (`TypeOK`, one per module) are proved, not run.
Some theorems state more than the runs ask: they are marked *beyond the runs*
and are defined in the proof module.

`ProviderOrdersProofs` proves, for any sets of Payments, renewals and runs and
any number of credential versions, that every property of `provider_orders`
holds.  The only assumptions are `ProviderOrdersAssumption`.

The properties are not inductive: that a second run cannot call the provider
depends on the run that claimed the attempt having owned it since, even if it
has died.  `IndInv` therefore adds: a Payment has at most one attempt (the
unique index on the request reference, `OneAttempt`); the locals of a run agree
with the attempt it works on (`LocalsCoherent`); from its claim on a run *owns*
the Payment's call, and there is one owner (`SingleOwner`); only a SUCCEEDED
attempt carries an order (`EvidenceOfSuccess`); and if an attempt FAILED, its
owner was rejected (`OwnersRejected`).  The proof has one lemma per action;
`Invariance` combines them, and each property follows from `IndInv`.
`OneDispatch` leans on `OneAttempt`: were the retry of a rejected renewal
possible, as its test intends, "one call per Payment" would become "one call
that was not rejected".

`NotificationDeliveryProofs` proves, for any sets of deliveries, workers and
bootstraps, any maxAttempts and batchLimit, the type invariant, `LeaseExclusive`,
`QuarantineHolds` and `TerminalIsFinal`, from `NotificationDeliveryAssumption`
alone.  That a lease is exclusive needs to know that no other holder carries the
same claim (`ClaimsDistinct`), which needs every claim to be at most the row's
attempts (`HoldersTyped`).  That an uncertain mail stays alone needs more: a
bootstrap that still holds its row has it to itself (`BootstrapOwns`), its claim
is in the audit log and no worker's is (`WorkersUnaudited`), and what it may have
got through has left the row UNCERTAIN or DELIVERED (`Quarantined`).  A closed row
is due and unclaimed by anyone who could still write it (`RowsCoherent`).
Beyond the runs: a row is DELIVERED only if the provider took the mail of its
last attempt (`DeliveredWasTaken`), which needs that a process takes a mail for
sent only if it is (`ResultsTrue`) and that a row still carries the claim of its
last attempt (`RowsCoherent`).  The converse is false: an answer may be lost.

`SubscriptionsProofs` proves, for any number of subscriptions and amending
requests, any period length and any horizon, the type invariant, `OneLive`,
`BoundaryHolds`, `HistoryReconciles`, `OnlyLateRenewalJoinsTrial` and
`AmendsWhatItRead`, from `SubscriptionsAssumption` alone.  `OneLive` needs to
know that an amendment in flight is of a subscription that was live
(`AmendmentsOfLive`), so that its successor takes the place of the one live row.
`BoundaryHolds` needs that no renewal waits for a row that has not been activated
(`PreparedOnActivated`), for such a row's period is still to be set;
`HistoryReconciles` needs the same of renewals applied (`AppliedOnActivated`).
`HistoryReconciles` says two things of an applied renewal: its successors follow
it without a gap up to the current period, whatever has become of the
subscription, and reconcileAppliedPeriod() accepts its replay exactly while the
subscription is ACTIVE; in any other status the code throws.  `AmendsWhatItRead`
says that an amendment which commits replaces the row that it read, though
amend() compares no more than the status under its lock.  It is true because what
changes a row and not its status is a renewal, renewals are of subscriptions
activated by a Payment (`PreparedIsPaid`), a row read for an amendment keeps the
Payment it had (`ReadIsCurrent`), and the CHECK refuses the successor of such a
row.  That the capture of an activation lies within the horizon (`PaidInTime`)
bounds the period it grants.  Beyond the runs, of captured money: a renewal that
was applied or blocked stays so (`AnsweredForGood`); none of an ACTIVE
subscription is blocked (`ActiveIsNotBlocked`), since by `BoundaryHolds` it
starts where the period ends and by `OneLive` nothing else is live; and the
period of an activated subscription ends later only by one captured renewal's
(`GrantsWhatIsPaid`).

`ProviderEventsProofs` proves, for any events, Payments, provider payments and
workers, any maximum of attempts and any number of crashes, the type invariant,
`OrderIndependent`, `GivenUpOnlyAtMaximum`, `LiveIsPaid` and the refinement
`ImplementsPaymentTruth`, from `ProviderEventsAssumption`.  `IInv` adds that a
busy worker has an event in hand (`JobsKnown`), what a worker may rely on at each
step although the rows go on changing, as that an event it is about to hand on
has its Payment captured (`WorkersCoherent`), and that a captured Payment has an
identity and its order is paid (`CapturesCoherent`).  `WorkersCoherent` survives
the others' steps because rows only go forward: attempts do not fall and a capture
stays (`PaymentsForward`).  For the refinement every action is shown to be a step
of `PaymentTruth` or to leave its variables alone.  Beyond the runs, the half of
`EventComesToRest` that is safety: a stored event is settled, out of attempts, or
within reach of recoverDue(), at once or when a lease or a retry delay has run out
(`NothingStranded`).  It follows from `GivenUpOnlyAtMaximum`, and from the clock of
a row going with its status and a row that was never claimed having its attempts
left (`ClocksCoherent`).

`AuthSessionsProofs` proves, for any tokens, clients and stores, the type
invariant, `CutOff` and `NoFork`, from `AuthSessionsAssumption`.  The two are
inductive once it is known that a token is issued once and keeps its session, and
that whoever holds one holds one that was issued (`Coherent`).  It also proves
`ReplayMeansLoss` and `OnlyLoginSwitches`.  The first is about the clients, and
needs to know where every token is (`Held`): the tokens of a session are at one
store (`OneStore`), one that a login has just brought is nowhere else
(`LoginApart`), requests nobody waits for are of sessions that count as lost
(`StraysLost`), and a client alone with its store holds tokens that the server
would take, or the answer that brings the next one (`AllUsable`).

`LeaveProofs` proves, for any people, leave types, requests, days and calls, the
type invariant, `NoOverlap`, `OneDecision`, `DecidedByAuthority` and
`BalanceMatches`, from `LeaveAssumption`.  The invariant adds that a request that
exists has an applicant, a type and days, and an approver who is somebody else
(`RequestsCoherent`), that a call is about a request that exists
(`CallsCoherent`), and that the requests that exist are finitely many: the sum in
`BalanceMatches` would mean nothing otherwise.  The assumption says so of those
from before approvers, which are rows of a table.  `BalanceMatches` needs facts
about that sum that are usually shown by induction; they are shown here by
looking at the smallest set for which they fail (`SumExists`, `SameSum`), from the
well-foundedness of strict inclusion among finite sets.  With them a decision adds
one request to one sum and leaves the others (`DecideBalances`).  Beyond the runs:
a request that was decided is never written again (`DecisionIsFinal`).

`ActivityUploadsProofs` proves, for any collectors, sessions, devices and
employees and any size of the queue, the type invariant, `NothingLost` and
`NoGap`, from `ActivityUploadsAssumption`.  Neither is inductive, because a flush
works through a copy of the queue while other flushes, a crash or a new
collector change the queue itself.  The invariant says of the queue and of what
every flush has still to send that whatever was closed before one of its
sessions is stored, was dropped, or stands ahead of it (`Orderly`); that a flush
which takes its first session for stored is right (`FlushCoherent`); and that an
open session is open in one collector and has not been closed (`CurrentFresh`).
A session leaves a queue only from where everything before it is done with, and
is appended only when it is closed, which keeps all three.

`AttendanceProofs` proves, for any sessions, breaks, corrections, requests,
evaluations, reviewers and kinds of evidence, and any policy, the type invariant,
`CreditsEvidence`, `StaleOnlyClosesOpen` and `DecidedOnce`, from
`AttendanceAssumption`.  What is decided is written later, so `IInv` speaks of
decisions that wait: those of the employee's requests carry no reason of the
evaluation's (`RequestsMild`), and those of the evaluation are ones that
`CreditsEvidence` would allow, unless a correction has changed the row
(`PassesCredit`), which holds on because evidence is only replaced by later
evidence (`SeenForward`).  A correction request under review is PENDING and has
one reviewer (`ReviewsCoherent`).  Each action is one of a few kinds of change to
a row (`RowStep`) and to a correction request (`Forward`), from which the
properties follow.

Only model-checked is liveness, since fairness and ENABLED are out of the
prover's reach: `EventComesToRest` and `CaptureIsAnswered` of `ProviderEvents`,
`CapturedRenewalAnswered` and `ElapsedIsExpired` of `Subscriptions`, `RetryComes`
of `NotificationDelivery`, `AbandonedIsClosed` of `Attendance` and `QueueDrains`
of `ActivityUploads`.  The two findings are properties that the code violates, and
have a counterexample instead of a proof.

## Findings

1. **A rejected renewal order is never retried** (`provider_orders_retry`).
   The request reference is a function of the Payment, and a unique index admits
   it once; the retry the code and its unit test intend fails at the insert.
2. **A paid subscription cannot be amended** (`subscriptions_amend`).  The
   successor copies the source's activation source and status but not its Payment
   (subscriptions.service.ts:202); the CHECK
   `CompanySubscription_payment_activation_check` refuses an ACTIVE or SUSPENDED
   row that is said to be activated by a payment and has none, and the transaction
   is rolled back, after every check of amend() was passed.  The admin panel offers
   the amendment of any live subscription and promises that its successor remains
   in that status (SubscriptionAmendPage.tsx:31); the unit tests amend manual ones.
   Copying the Payment is no repair: it is unique, and a foreign key ties it to
   its subscription.  Letting the successor through is none by itself either:
   without live rows in the CHECK (`ActivationCheckOnceSuperseded`),
   `AmendsWhatItRead` is violated by a renewal that is applied between the read and
   the lock, whose period the successor would not have.  The comparison at
   subscriptions.service.ts:134 would have to include the period, too.

## What the models do and no property forbids

The steps below are taken by the models, or are seen in the code and lie outside
them.  The first three are at odds with unit tests of the same modules, which do
not interleave the steps; the others contradict no statement of the repository.
The list is for whoever changes this code.

In the models:

- *An exhausted event is scheduled again.*  The failure path reads attemptCount
  and writes the row without a lock or a guard; the row may end FAILED, at the
  maximum, with a nextRetryAt in the past, and is neither claimed again nor
  terminalized (payment-provider-events.service.ts:182).
- *A late renewal goes live beside a Trial.*  apply() revives an EXPIRED
  subscription without looking for a Trial; `OnlyLateRenewalJoinsTrial` says
  that nothing else does.
- *An activation does not see a bootstrap that it waited for.*  `select()` is
  Serializable and asks for the advisory lock in its first query, so its snapshot
  predates the reservation that the lock's holder commits.
- *A replay throws.*  apply(), called again for an APPLIED renewal, throws unless
  the subscription is ACTIVE: the recovery of an administrator is answered 500
  (platform-renewals.service.ts:74), the webhook swallows it.
- *A captured renewal is blocked for good* when its subscription was suspended
  once the order existed; `CapturedRenewalAnswered` takes that for an answer.
- *The fifth attempt dies.*  A row whose last claim dies stays PENDING
  (notification-delivery.service.ts:61); a bootstrap without a recorded end
  fences later ones for good (smtp-bootstrap-dispatch-fence.ts:26).
- *Two tabs refresh at once.*  They share localStorage and no lock; the second is
  taken for a replay and both are logged out (`ReplayMeansLoss` excepts them).
- *Two punches in at once* both find no open session and create one each.
- *A correction undoes a punch out.*  It writes back both times, the one nobody
  asked to change as it was read.
- *A punch out overwrites what the system closed*, and an evaluation may move the
  end of a break that has ended since it was read: only the evaluation's write to
  the Attendance row is guarded.
- *A reviewer without authority holds a request.*  Its approver is assigned when
  it is made; one who is deactivated or has lost every role can no longer
  decide and nobody else may; all that is left is to cancel it.
- *A request of a deleted type.*  removeType() counts the pending requests and
  deletes in two statements (leave.service.ts:171); one made in between stays.
- *Authority as it was read.*  A request from before approvers were assigned is
  decided on the roles that were read before the transaction; it has no other
  check.  Leave that needs no approval is charged to no balance, and no balance is
  compared with what is allocated.
- *A refused session blocks the queue.*  A session of another employee, or of a
  device that is no longer ACTIVE (a TRUSTED one is not), is never removed;
  `QueueDrains` is about queues without one.  A full queue drops what is closed
  last; `NothingLost` is about the others.

Outside them:

- An activation subscription is cancelled while its order is in flight
  (payment-provider-orders.service.ts:175); an event redelivered after the
  webhook secret was rotated; the lock order of createForSubscription()
  (payments.service.ts:32); scans that are cut at 25 rows; the month-end clamp,
  after which a 31st renews from the 28th; finalizeClaimSuccess() throwing after
  the mail is out (notification-delivery.service.ts:119).
- changePassword() checks the old password without a lock
  (users.service.ts:486); the desktop agent's performRefresh() stores what it
  gets whatever has happened meanwhile.
- updateDeviceMonitoring() decides on a device read without a lock
  (monitoring.service.ts:1471); syncCollectorState() may leave a collector that
  nobody stops; the screenshot queue rewrites its index from a copy read before
  an await (screenshot-queue.ts:83); an upload that fails after the object was
  written leaves it there (monitoring.service.ts:757).
- Whether reporting managers form a cycle is looked up before the transaction that
  changes one (employees.service.ts:264 and 478).
- The minutes of a break are rounded down in one place and up in another.

## Plan

1. Done: order preparation, the event inbox with its abstract specification,
   subscriptions with renewals and Trials, notification delivery with the SMTP
   verification bootstrap, refresh sessions, leave, and attendance with
   corrections, and the desktop agent's activity uploads, each with proofs.
2. The screenshot queue: files, index and uploads across restarts.
3. Invoice numbering; seat admission.
4. The other users of the dispatch fence: SMTP configuration drafts, validation,
   connection tests; the invitation bootstrap.
5. The scans with their limits: starvation behind 25 rows.  The calendar: month
   ends against a reference definition.  Tax: totals against components.

## Not modelled

Read models and dashboards, plan and company CRUD, e-mail rendering, encryption,
signature verification, object storage, the admin panel's pages and the browser
extension: no state that two actors race for, or pure input and output.
Shifts and rosters, productivity and alerts, invoices, seats, SMTP drafts
and the screenshot queue do have state; they come next in the plan.
What an e-mail says, who may receive it and the bootstrap's rate limit are left
out of `NotificationDelivery`.
Contradictory reuse of provider event ids, webhook grace credentials and lock
order between transactions are outside the models.
