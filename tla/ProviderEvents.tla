--------------------------- MODULE ProviderEvents ---------------------------
(***************************************************************************)
(* The webhook inbox: PaymentProviderEventsService with the activation it  *)
(* hands captured Payments to (SubscriptionPaymentActivationService).      *)
(*                                                                         *)
(* The provider delivers events late, repeatedly and in any order.  Each   *)
(* is stored once, claimed by compare-and-set with a lease, and applied to *)
(* its Payment under the Payment's row lock; the claim is not looked at    *)
(* again, so a worker that outlived its lease still applies, and still     *)
(* records its failure.  Workers are webhook handlers or the every-minute  *)
(* recovery job, and die at any step.  Each database transaction is one    *)
(* action, except where it reads a row without locking it and decides on   *)
(* what it read.                                                           *)
(***************************************************************************)
EXTENDS Integers, FiniteSets

CONSTANTS
  Events,        \* distinct provider events
  Payments,      \* activation Payments, all of one company
  Identities,    \* provider payment ids
  Handlers,      \* webhook request handlers
  Recoverers,    \* runs of the recovery job
  PaymentOf,     \* the Payment whose order an event names
  IdentityOf,    \* the provider payment id an event carries
  Truth,         \* what an event says: AUTHORIZED, FAILED, CAPTURED or NONE
  MaxAttempts,   \* MAX_PROVIDER_EVENT_PROCESSING_ATTEMPTS (10)
  MaxCrashes,    \* bound: worker crashes
  None

Workers == Handlers \cup Recoverers

ASSUME ProviderEventsAssumption ==
  /\ PaymentOf \in [Events -> Payments]
  /\ IdentityOf \in [Events -> Identities]
  /\ Truth \in [Events -> {"AUTHORIZED", "FAILED", "CAPTURED", "NONE"}]
  /\ MaxAttempts \in Nat \ {0}
  /\ MaxCrashes \in Nat
  /\ None \notin Events \cup Identities

VARIABLES
  event,         \* PaymentProviderEvent rows
  payment,       \* Payment rows, with their order and checkout confirmation
  subscription,  \* status of each Payment's CompanySubscription
  blocked,       \* Payments with a SUBSCRIPTION_ACTIVATION_BLOCKED audit row
  worker,        \* the local state of each worker
  crashes

vars == <<event, payment, subscription, blocked, worker, crashes>>

\* clock: of a PROCESSING row its lease ("running", "expired"), of a FAILED row
\* its nextRetryAt ("waiting", "due", or "none" when it is null).
EventRow ==
  [status : {"ABSENT", "RECEIVED", "PROCESSING", "PROCESSED", "FAILED", "IGNORED"},
   attempts : 0 .. MaxAttempts,
   clock : {"none", "running", "expired", "waiting", "due"}]
PaymentRow ==
  [status : {"PENDING", "AUTHORIZED", "FAILED", "CAPTURED"},
   captured : Identities \cup {None},
   order : {"ABSENT", "CREATED", "PAID"},
   confirmed : Identities \cup {None}]
WorkerSteps == {"idle", "claim", "apply", "conflict", "failing", "retry", "exhaust", "handoff"}

TypeOK ==
  /\ event \in [Events -> EventRow]
  /\ payment \in [Payments -> PaymentRow]
  /\ subscription \in [Payments -> {"PENDING", "ACTIVE", "CANCELLED"}]
  /\ blocked \subseteq Payments
  /\ worker \in [Workers -> [step : WorkerSteps, job : Events \cup {None}]]
  /\ crashes \in 0 .. MaxCrashes

Init ==
  /\ event = [e \in Events |-> [status |-> "ABSENT", attempts |-> 0, clock |-> "none"]]
  /\ payment = [p \in Payments |-> [status |-> "PENDING", captured |-> None,
                                    order |-> "ABSENT", confirmed |-> None]]
  /\ subscription = [p \in Payments |-> "PENDING"]
  /\ blocked = {}
  /\ worker = [w \in Workers |-> [step |-> "idle", job |-> None]]
  /\ crashes = 0

-----------------------------------------------------------------------------
SetEvent(e, status, clock) ==
  event' = [event EXCEPT ![e].status = status, ![e].clock = clock]
Goto(w, step) == worker' = [worker EXCEPT ![w].step = step]
Finish(w) == worker' = [worker EXCEPT ![w] = [step |-> "idle", job |-> None]]
Take(w, e, step) == worker' = [worker EXCEPT ![w] = [step |-> step, job |-> e]]

\* ingest(): store a new event, or find its exact duplicate; process either.
Ingest(w, e) ==
  /\ worker[w].step = "idle"
  /\ IF event[e].status = "ABSENT" THEN SetEvent(e, "RECEIVED", "none") ELSE UNCHANGED event
  /\ Take(w, e, "claim")
  /\ UNCHANGED <<payment, subscription, blocked, crashes>>

\* MUTANTS stand before the definition each is a plausible slip of.
\* Mutant of Due: an expired lease is not picked up.
DueWithoutLease(e) ==
  event[e].status = "RECEIVED" \/ (event[e].status = "FAILED" /\ event[e].clock = "due")

Due(e) ==
  \/ event[e].status = "RECEIVED"
  \/ event[e].status = "FAILED" /\ event[e].clock = "due"
  \/ event[e].status = "PROCESSING" /\ event[e].clock = "expired"

Claimable(e) == event[e].attempts < MaxAttempts /\ Due(e)
Overdue(e) ==
  event[e].attempts >= MaxAttempts /\ event[e].status = "PROCESSING" /\ event[e].clock = "expired"

\* recoverDue(): pick a due row to process, or a spent one to terminalize.
Recover(w, e) ==
  /\ worker[w].step = "idle"
  /\ \/ Claimable(e) /\ Take(w, e, "claim")
     \/ Overdue(e) /\ Take(w, e, "exhaust")
  /\ UNCHANGED <<event, payment, subscription, blocked, crashes>>

Claim(w) ==
  LET e == worker[w].job IN
  /\ worker[w].step = "claim"
  /\ IF Claimable(e)
       THEN /\ event' = [event EXCEPT ![e] =
                 [status |-> "PROCESSING", attempts |-> @.attempts + 1, clock |-> "running"]]
            /\ Goto(w, "apply")
       ELSE Finish(w) /\ UNCHANGED event
  /\ UNCHANGED <<payment, subscription, blocked, crashes>>

\* payment-state-machine.ts
CanTransition(from, to) ==
  to \in CASE from = "PENDING"    -> {"PENDING", "AUTHORIZED", "CAPTURED", "FAILED"}
           [] from = "AUTHORIZED" -> {"AUTHORIZED", "PENDING", "CAPTURED", "FAILED"}
           [] from = "CAPTURED"   -> {"CAPTURED"}
           [] from = "FAILED"     -> {"FAILED", "CAPTURED"}

\* A verified checkout confirmation pins the provider payment.
Coherent(p, i) == payment[p].confirmed \in {None, i}
Competing(p, i) == \E q \in Payments \ {p} : payment[q].captured = i

\* Mutant of SetAside: FAILED taken for final.
SetAsideOnceFailed(p, i, target) ==
  ~ Coherent(p, i) \/ Competing(p, i) \/ target = "NONE"
    \/ payment[p].status \in {"CAPTURED", "FAILED"}

\* Mutant of SetAside: nobody asks, and no index, whether the provider payment
\* has paid for another Payment.
SetAsideUncontested(p, i, target) ==
  ~ Coherent(p, i) \/ target = "NONE" \/ payment[p].status = "CAPTURED"
    \/ (payment[p].status = "FAILED" /\ target = "AUTHORIZED")

\* The evidence that applyTruth sets aside as conflicting or stale.
SetAside(p, i, target) ==
  \/ ~ Coherent(p, i)
  \/ Competing(p, i)
  \/ target = "NONE"
  \/ payment[p].status = "CAPTURED"
  \/ payment[p].status = "FAILED" /\ target = "AUTHORIZED"

\* A repeated capture of the same identity is set aside but handed on again.
RepeatsCapture(p, i, target) ==
  /\ Coherent(p, i) /\ ~ Competing(p, i)
  /\ target = "CAPTURED" /\ payment[p].status = "CAPTURED" /\ payment[p].captured = i

\* Mutant of Recognise: the event's truth is written without comparing it with
\* the truth already there.
RecogniseLatest(w) ==
  LET e == worker[w].job  p == PaymentOf[e] IN
  /\ worker[w].step = "apply" /\ payment[p].order # "ABSENT"
  /\ SetEvent(e, "PROCESSED", "none")
  /\ payment' = [payment EXCEPT ![p].status = Truth[e]]
  /\ Finish(w)
  /\ UNCHANGED <<subscription, blocked, crashes>>

\* applyTruth(): one transaction under the Payment's lock.
Recognise(w) ==
  LET e == worker[w].job  p == PaymentOf[e]  i == IdentityOf[e]  target == Truth[e] IN
  /\ worker[w].step = "apply"
  /\ target = "NONE" \/ payment[p].order # "ABSENT"
  /\ IF SetAside(p, i, target)
       THEN /\ SetEvent(e, "IGNORED", "none")
            /\ IF RepeatsCapture(p, i, target) THEN Goto(w, "handoff") ELSE Finish(w)
            /\ UNCHANGED payment
       ELSE /\ CanTransition(payment[p].status, target)
            /\ SetEvent(e, "PROCESSED", "none")
            /\ IF target = "CAPTURED"
                 THEN /\ payment' = [payment EXCEPT ![p].status = target,
                                       ![p].captured = i, ![p].order = "PAID"]
                      /\ Goto(w, "handoff")
                 ELSE /\ payment' = [payment EXCEPT ![p].status = target]
                      /\ Finish(w)
  /\ UNCHANGED <<subscription, blocked, crashes>>

\* applyTruth() throws: no such order yet, a database error, or the unique index
\* on captured identities, met by two Payments at once.
ApplyThrows(w) ==
  LET e == worker[w].job IN
  /\ worker[w].step = "apply"
  /\ \/ Goto(w, "failing")
     \/ /\ Truth[e] = "CAPTURED" /\ Competing(PaymentOf[e], IdentityOf[e])
        /\ Goto(w, "conflict")
  /\ UNCHANGED <<event, payment, subscription, blocked, crashes>>

MarkPermanentConflict(w) ==
  /\ worker[w].step = "conflict"
  /\ SetEvent(worker[w].job, "IGNORED", "none")
  /\ Finish(w)
  /\ UNCHANGED <<payment, subscription, blocked, crashes>>

\* Mutant of ReadAttempts: off by one.
ReadAttemptsEarly(w) ==
  /\ worker[w].step = "failing"
  /\ Goto(w, IF event[worker[w].job].attempts >= MaxAttempts - 1 THEN "exhaust" ELSE "retry")
  /\ UNCHANGED <<event, payment, subscription, blocked, crashes>>

\* markRetryableFailure reads attemptCount without a lock ...
ReadAttempts(w) ==
  /\ worker[w].step = "failing"
  /\ Goto(w, IF event[worker[w].job].attempts >= MaxAttempts THEN "exhaust" ELSE "retry")
  /\ UNCHANGED <<event, payment, subscription, blocked, crashes>>

\* ... and then writes, whatever has become of the row.
ScheduleRetry(w) ==
  /\ worker[w].step = "retry"
  /\ SetEvent(worker[w].job, "FAILED", "waiting")
  /\ Finish(w)
  /\ UNCHANGED <<payment, subscription, blocked, crashes>>

MarkExhausted(w) ==
  LET e == worker[w].job IN
  /\ worker[w].step = "exhaust"
  /\ IF \/ event[e].status = "PROCESSING"
        \/ event[e].status = "FAILED" /\ event[e].clock # "none"
       THEN SetEvent(e, "FAILED", "none")
       ELSE UNCHANGED event
  /\ Finish(w)
  /\ UNCHANGED <<payment, subscription, blocked, crashes>>

-----------------------------------------------------------------------------
OtherLive(p) == \E q \in Payments \ {p} : subscription[q] = "ACTIVE"

\* Mutant of Activate: other live subscriptions of the company are not looked up.
ActivateRegardless(p) ==
  /\ subscription' = [subscription EXCEPT ![p] = IF @ = "PENDING" THEN "ACTIVE" ELSE @]
  /\ blocked' = IF subscription[p] = "CANCELLED" THEN blocked \cup {p} ELSE blocked

\* activate(), one transaction under the Company's lock.
Activate(p) ==
  \/ subscription[p] = "ACTIVE" /\ UNCHANGED <<subscription, blocked>>
  \/ /\ subscription[p] = "CANCELLED" \/ (subscription[p] = "PENDING" /\ OtherLive(p))
     /\ blocked' = blocked \cup {p}
     /\ UNCHANGED subscription
  \/ /\ subscription[p] = "PENDING" /\ ~ OtherLive(p)
     /\ subscription' = [subscription EXCEPT ![p] = "ACTIVE"]
     /\ UNCHANGED blocked

\* The tail of process(): any error of the activation is swallowed.
HandOff(w) ==
  /\ worker[w].step = "handoff"
  /\ Activate(PaymentOf[worker[w].job]) \/ UNCHANGED <<subscription, blocked>>
  /\ Finish(w)
  /\ UNCHANGED <<event, payment, crashes>>

\* Mutant of RecoverActivation: only confirmed checkouts are recovered.
RecoverConfirmedActivation(p) ==
  /\ payment[p].status = "CAPTURED" /\ payment[p].confirmed # None
  /\ subscription[p] = "PENDING" /\ p \notin blocked
  /\ Activate(p)
  /\ UNCHANGED <<event, payment, worker, crashes>>

\* The activation's own recoverDue(): captured, still PENDING, not blocked.
RecoverActivation(p) ==
  /\ payment[p].status = "CAPTURED"
  /\ subscription[p] = "PENDING"
  /\ p \notin blocked
  /\ Activate(p)
  /\ UNCHANGED <<event, payment, worker, crashes>>

-----------------------------------------------------------------------------
\* Around the inbox: orders get recorded, customers confirm checkouts, the
\* administrator cancels, time passes, workers die.
RecordOrder(p) ==
  /\ payment[p].order = "ABSENT"
  /\ payment' = [payment EXCEPT ![p].order = "CREATED"]
  /\ UNCHANGED <<event, subscription, blocked, worker, crashes>>

ConfirmCheckout(p, i) ==
  /\ payment[p].status = "PENDING"
  /\ subscription[p] = "PENDING"
  /\ payment[p].order # "ABSENT"
  /\ payment[p].confirmed = None
  /\ \A q \in Payments : payment[q].confirmed # i
  /\ payment' = [payment EXCEPT ![p].confirmed = i]
  /\ UNCHANGED <<event, subscription, blocked, worker, crashes>>

CancelSubscription(p) ==
  /\ subscription[p] \in {"PENDING", "ACTIVE"}
  /\ subscription' = [subscription EXCEPT ![p] = "CANCELLED"]
  /\ UNCHANGED <<event, payment, blocked, worker, crashes>>

TimePasses(e) ==
  /\ \/ event[e].clock = "running" /\ SetEvent(e, event[e].status, "expired")
     \/ event[e].clock = "waiting" /\ SetEvent(e, event[e].status, "due")
  /\ UNCHANGED <<payment, subscription, blocked, worker, crashes>>

Crash(w) ==
  /\ worker[w].step # "idle"
  /\ crashes < MaxCrashes
  /\ crashes' = crashes + 1
  /\ Finish(w)
  /\ UNCHANGED <<event, payment, subscription, blocked>>

WorkerStep(w) ==
  \/ Claim(w) \/ Recognise(w) \/ ApplyThrows(w) \/ MarkPermanentConflict(w)
  \/ ReadAttempts(w) \/ ScheduleRetry(w) \/ MarkExhausted(w) \/ HandOff(w)

Next ==
  \/ \E w \in Handlers, e \in Events : Ingest(w, e)
  \/ \E w \in Recoverers, e \in Events : Recover(w, e)
  \/ \E w \in Workers : WorkerStep(w) \/ Crash(w)
  \/ \E p \in Payments :
       \/ RecoverActivation(p) \/ RecordOrder(p) \/ CancelSubscription(p)
       \/ \E i \in Identities : ConfirmCheckout(p, i)
  \/ \E e \in Events : TimePasses(e)

Spec == Init /\ [][Next]_vars

\* The recovery jobs run every minute; a worker that does not crash takes its
\* next step; leases and retry delays are finite.
Fairness ==
  /\ \A w \in Recoverers : WF_vars(\E e \in Events : Recover(w, e))
  /\ \A w \in Workers : WF_vars(WorkerStep(w))
  /\ \A p \in Payments : WF_vars(RecoverActivation(p))
  /\ \A e \in Events : WF_vars(TimePasses(e))

FairSpec == Spec /\ Fairness

-----------------------------------------------------------------------------
\* The inbox implements PaymentTruth: truth only moves forward, a capture is
\* final with its identity, and no provider payment is counted for two Payments,
\* although workers overlap, outlive their leases and repeat events.
Abstract == INSTANCE PaymentTruth WITH
  status <- [p \in Payments |-> payment[p].status],
  identity <- [p \in Payments |-> payment[p].captured]
ImplementsPaymentTruth == Abstract!Spec

Rank(status) ==
  CASE status = "PENDING" -> 0 [] status = "AUTHORIZED" -> 1
    [] status = "FAILED" -> 2 [] status = "CAPTURED" -> 3
Settled(e) == event[e].status \in {"PROCESSED", "IGNORED"}

\* The status of a Payment does not depend on the order its events arrived in:
\* it is at least the strongest truth of its settled, uncontested events, and
\* nothing but an event that was claimed put it where it is.
OrderIndependent ==
  \A p \in Payments :
    /\ \A e \in Events :
         /\ PaymentOf[e] = p /\ Truth[e] # "NONE" /\ Settled(e)
         /\ Coherent(p, IdentityOf[e]) /\ ~ Competing(p, IdentityOf[e])
         => Rank(Truth[e]) <= Rank(payment[p].status)
    /\ payment[p].status # "PENDING" =>
         \E e \in Events : /\ PaymentOf[e] = p /\ event[e].attempts > 0
                           /\ Truth[e] = payment[p].status

\* No event is given up before its attempts are used: a FAILED row without a
\* next retry has been claimed the maximum number of times.
GivenUpOnlyAtMaximum ==
  \A e \in Events :
    event[e].status = "FAILED" /\ event[e].clock = "none" => event[e].attempts = MaxAttempts

\* A subscription that is live was paid for: its Payment is CAPTURED and its
\* order PAID, and it is the company's only live one.
LiveIsPaid ==
  \A p \in Payments : subscription[p] = "ACTIVE" =>
    /\ payment[p].status = "CAPTURED" /\ payment[p].order = "PAID"
    /\ ~ OtherLive(p)

\* Every stored event comes to rest: applied, set aside, or out of attempts.
EventComesToRest ==
  \A e \in Events : event[e].status # "ABSENT" ~>
    Settled(e) \/ (event[e].status = "FAILED" /\ event[e].attempts = MaxAttempts)

\* Captured money is answered: its subscription leaves PENDING or the refusal to
\* activate it is on record, although the hand-off may be lost or fail.
CaptureIsAnswered ==
  \A p \in Payments : payment[p].status = "CAPTURED" ~>
    subscription[p] # "PENDING" \/ p \in blocked
=============================================================================
