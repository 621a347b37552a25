------------------------ MODULE ProviderEventsProofs ------------------------
(* Proofs about ProviderEvents, for any events, Payments, provider payments  *)
(* and workers, and any number of attempts and crashes.                      *)
EXTENDS ProviderEvents, TLAPS

\* A worker that is busy has an event in hand.
JobsKnown ==
  \A w \in Workers : worker[w].step # "idle" => worker[w].job \in Events

\* An event is applied only once it has been claimed, is terminalized only at
\* the maximum, fails permanently only over another Payment's capture, and is
\* handed on only if its Payment is captured.
WorkersCoherent ==
  \A w \in Workers :
    LET e == worker[w].job
    IN  /\ worker[w].step \in {"apply", "failing", "retry"} => event[e].attempts > 0
        /\ worker[w].step = "exhaust" => event[e].attempts = MaxAttempts
        /\ worker[w].step = "conflict" => Competing(PaymentOf[e], IdentityOf[e])
        /\ worker[w].step = "handoff" => payment[PaymentOf[e]].status = "CAPTURED"

\* A Payment is captured by a provider payment, and so is its order.
CapturesCoherent ==
  \A p \in Payments :
    /\ payment[p].captured # None <=> payment[p].status = "CAPTURED"
    /\ payment[p].status = "CAPTURED" => payment[p].order = "PAID"

IInv ==
  /\ TypeOK
  /\ JobsKnown /\ WorkersCoherent /\ CapturesCoherent
  /\ OrderIndependent /\ GivenUpOnlyAtMaximum /\ LiveIsPaid

-----------------------------------------------------------------------------
(* Facts about the data                                                      *)

LEMMA Ranks ==
  /\ Rank("PENDING") = 0 /\ Rank("AUTHORIZED") = 1
  /\ Rank("FAILED") = 2 /\ Rank("CAPTURED") = 3
  BY DEF Rank

LEMMA EventData ==
  ASSUME NEW e \in Events
  PROVE  /\ PaymentOf[e] \in Payments
         /\ IdentityOf[e] \in Identities /\ IdentityOf[e] # None
         /\ Truth[e] \in {"AUTHORIZED", "FAILED", "CAPTURED", "NONE"}
         /\ e # None
  BY ProviderEventsAssumption

\* A worker's step leaves the other workers alone.
LEMMA WorkerMoves ==
  ASSUME TypeOK, NEW w \in Workers, NEW step \in WorkerSteps, Goto(w, step)
  PROVE  /\ worker' \in [Workers -> [step : WorkerSteps, job : Events \cup {None}]]
         /\ worker'[w].step = step /\ worker'[w].job = worker[w].job
         /\ \A v \in Workers \ {w} : worker'[v] = worker[v]
  BY DEF TypeOK, Goto

LEMMA WorkerFinishes ==
  ASSUME TypeOK, NEW w \in Workers, Finish(w)
  PROVE  /\ worker' \in [Workers -> [step : WorkerSteps, job : Events \cup {None}]]
         /\ worker'[w].step = "idle"
         /\ \A v \in Workers \ {w} : worker'[v] = worker[v]
  BY DEF TypeOK, Finish, WorkerSteps

LEMMA WorkerTakes ==
  ASSUME TypeOK, NEW w \in Workers, NEW e \in Events, NEW step \in WorkerSteps, Take(w, e, step)
  PROVE  /\ worker' \in [Workers -> [step : WorkerSteps, job : Events \cup {None}]]
         /\ worker'[w].step = step /\ worker'[w].job = e
         /\ \A v \in Workers \ {w} : worker'[v] = worker[v]
  BY DEF TypeOK, Take

LEMMA EventSet ==
  ASSUME TypeOK, NEW e \in Events,
         NEW status \in {"RECEIVED", "PROCESSING", "PROCESSED", "FAILED", "IGNORED"},
         NEW clock \in {"none", "running", "expired", "waiting", "due"},
         SetEvent(e, status, clock)
  PROVE  /\ event' \in [Events -> EventRow]
         /\ event'[e].status = status /\ event'[e].clock = clock
         /\ event'[e].attempts = event[e].attempts
         /\ \A f \in Events \ {e} : event'[f] = event[f]
  BY DEF TypeOK, SetEvent, EventRow
\* What applyTruth() makes of a Payment
LEMMA TruthApplied ==
  ASSUME TypeOK, JobsKnown, NEW w \in Workers, Recognise(w),
         ~ SetAside(PaymentOf[worker[w].job], IdentityOf[worker[w].job], Truth[worker[w].job])
  PROVE  LET e == worker[w].job
             p == PaymentOf[e]
         IN  /\ e \in Events /\ p \in Payments
             /\ Truth[e] \in {"AUTHORIZED", "FAILED", "CAPTURED"}
             /\ SetEvent(e, "PROCESSED", "none")
             /\ CanTransition(payment[p].status, Truth[e])
             /\ payment' \in [Payments -> PaymentRow]
             /\ \A q \in Payments \ {p} : payment'[q] = payment[q]
             /\ payment'[p].status = Truth[e]
             /\ payment'[p].confirmed = payment[p].confirmed
             /\ Truth[e] = "CAPTURED" => /\ payment'[p].captured = IdentityOf[e]
                                         /\ payment'[p].order = "PAID"
                                         /\ Goto(w, "handoff")
             /\ Truth[e] # "CAPTURED" => /\ payment'[p].captured = payment[p].captured
                                         /\ payment'[p].order = payment[p].order
                                         /\ Finish(w)
<1> DEFINE e == worker[w].job
           p == PaymentOf[e]
           i == IdentityOf[e]
<1>1. worker[w].step = "apply" /\ e \in Events
  BY DEF Recognise, JobsKnown
<1>2. p \in Payments /\ i \in Identities
  BY <1>1, EventData
<1>3. payment \in [Payments -> PaymentRow]
  BY DEF TypeOK
<1>4. Truth[e] \in {"AUTHORIZED", "FAILED", "CAPTURED"}
  BY <1>1, EventData DEF SetAside
<1>5. /\ CanTransition(payment[p].status, Truth[e])
      /\ SetEvent(e, "PROCESSED", "none")
      /\ Truth[e] = "CAPTURED" =>
           /\ payment' = [payment EXCEPT ![p].status = "CAPTURED", ![p].captured = i,
                                         ![p].order = "PAID"]
           /\ Goto(w, "handoff")
      /\ Truth[e] # "CAPTURED" =>
           payment' = [payment EXCEPT ![p].status = Truth[e]] /\ Finish(w)
  BY DEF Recognise
<1>6. payment[p] \in PaymentRow
  BY <1>2, <1>3
<1> DEFINE captured == [payment[p] EXCEPT !.status = "CAPTURED", !.captured = i, !.order = "PAID"]
           other == [payment[p] EXCEPT !.status = Truth[e]]
<1>7. /\ captured \in PaymentRow /\ captured.status = "CAPTURED" /\ captured.captured = i
      /\ captured.order = "PAID" /\ captured.confirmed = payment[p].confirmed
  BY <1>2, <1>6 DEF PaymentRow
<1>8. /\ other \in PaymentRow /\ other.status = Truth[e]
      /\ other.captured = payment[p].captured /\ other.order = payment[p].order
      /\ other.confirmed = payment[p].confirmed
  BY <1>4, <1>6 DEF PaymentRow
<1>9. CASE Truth[e] = "CAPTURED"
  <2>1. payment' = [payment EXCEPT ![p] = captured]
    BY <1>5, <1>9
  <2>2. Goto(w, "handoff")
    BY <1>5, <1>9
  <2> HIDE DEF captured, other, p, i
  <2>3. payment' \in [Payments -> PaymentRow] /\ payment'[p] = captured
        /\ \A q \in Payments \ {p} : payment'[q] = payment[q]
    BY <1>2, <1>3, <1>7, <2>1
  <2>4. QED
    BY <1>1, <1>2, <1>4, <1>5, <1>7, <1>9, <2>2, <2>3 DEF p, i
<1>10. CASE Truth[e] # "CAPTURED"
  <2>1. payment' = [payment EXCEPT ![p] = other] /\ Finish(w)
    BY <1>5, <1>10
  <2> HIDE DEF captured, other, p, i
  <2>2. payment' \in [Payments -> PaymentRow] /\ payment'[p] = other
        /\ \A q \in Payments \ {p} : payment'[q] = payment[q]
    BY <1>2, <1>3, <1>8, <2>1
  <2>3. QED
    BY <1>1, <1>2, <1>4, <1>5, <1>8, <1>10, <2>1, <2>2 DEF p, i
<1>11. QED
  BY <1>9, <1>10

LEMMA TruthSetAside ==
  ASSUME TypeOK, JobsKnown, NEW w \in Workers, Recognise(w),
         SetAside(PaymentOf[worker[w].job], IdentityOf[worker[w].job], Truth[worker[w].job])
  PROVE  LET e == worker[w].job
         IN  /\ e \in Events /\ PaymentOf[e] \in Payments
             /\ SetEvent(e, "IGNORED", "none")
             /\ payment' = payment
             /\ \/ Finish(w)
                \/ Goto(w, "handoff") /\ payment[PaymentOf[e]].status = "CAPTURED"
<1>1. worker[w].step = "apply" /\ worker[w].job \in Events
  BY DEF Recognise, JobsKnown
<1>2. QED
  BY <1>1, EventData DEF Recognise, RepeatsCapture

LEMMA ClaimTaken ==
  ASSUME TypeOK, JobsKnown, NEW w \in Workers, Claim(w), Claimable(worker[w].job)
  PROVE  LET e == worker[w].job
         IN  /\ e \in Events
             /\ event' \in [Events -> EventRow]
             /\ event'[e].status = "PROCESSING" /\ event'[e].clock = "running"
             /\ event'[e].attempts = event[e].attempts + 1
             /\ event[e].attempts \in Nat
             /\ \A f \in Events \ {e} : event'[f] = event[f]
             /\ Goto(w, "apply")
<1> DEFINE e == worker[w].job
<1>1. e \in Events /\ Goto(w, "apply")
  BY DEF JobsKnown, Claim
<1>2. event' = [event EXCEPT ![e] =
        [status |-> "PROCESSING", attempts |-> event[e].attempts + 1, clock |-> "running"]]
  BY DEF Claim
<1>3. event[e].attempts \in 0 .. MaxAttempts /\ event[e].attempts < MaxAttempts
  BY <1>1 DEF TypeOK, EventRow, Claimable
<1>4. event[e].attempts + 1 \in 0 .. MaxAttempts /\ event[e].attempts \in Nat
  BY <1>3, ProviderEventsAssumption
<1>5. QED
  BY <1>1, <1>2, <1>4 DEF TypeOK, EventRow
LEMMA Confirmed ==
  ASSUME TypeOK, NEW p \in Payments, NEW i \in Identities, ConfirmCheckout(p, i)
  PROVE  /\ payment' \in [Payments -> PaymentRow]
         /\ payment[p].confirmed = None /\ payment'[p].confirmed = i
         /\ payment'[p].status = payment[p].status
         /\ payment'[p].captured = payment[p].captured
         /\ payment'[p].order = payment[p].order
         /\ \A q \in Payments \ {p} : payment'[q] = payment[q]
  BY DEF TypeOK, PaymentRow, ConfirmCheckout

LEMMA OrderRecorded ==
  ASSUME TypeOK, NEW p \in Payments, RecordOrder(p)
  PROVE  /\ payment' \in [Payments -> PaymentRow]
         /\ payment[p].order = "ABSENT" /\ payment'[p].order = "CREATED"
         /\ payment'[p].status = payment[p].status
         /\ payment'[p].captured = payment[p].captured
         /\ payment'[p].confirmed = payment[p].confirmed
         /\ \A q \in Payments \ {p} : payment'[q] = payment[q]
  BY DEF TypeOK, PaymentRow, RecordOrder

-----------------------------------------------------------------------------
(* Types                                                                     *)

LEMMA TypesKept ==
  ASSUME TypeOK, JobsKnown, [Next]_vars
  PROVE  TypeOK' /\ JobsKnown'
<1> USE DEF WorkerSteps
<1>1. ASSUME NEW w \in Workers, NEW e \in Events, Ingest(w, e) \/ Recover(w, e)
      PROVE  TypeOK' /\ JobsKnown'
  <2>1. Take(w, e, "claim") \/ Take(w, e, "exhaust")
    BY <1>1 DEF Ingest, Recover
  <2>2. event' \in [Events -> EventRow]
    BY <1>1, EventSet DEF Ingest, Recover, TypeOK
  <2>3. UNCHANGED <<payment, subscription, blocked, crashes>>
    BY <1>1 DEF Ingest, Recover
  <2>4. QED
    BY <2>1, <2>2, <2>3, WorkerTakes DEF TypeOK, JobsKnown
<1>2. ASSUME NEW w \in Workers, WorkerStep(w)
      PROVE  TypeOK' /\ JobsKnown'
  <2>1. CASE Claim(w)
    <3>1. event' \in [Events -> EventRow] /\ (Goto(w, "apply") \/ Finish(w))
      BY <2>1, ClaimTaken DEF Claim, TypeOK
    <3>2. worker[w].step # "idle" /\ UNCHANGED <<payment, subscription, blocked, crashes>>
      BY <2>1 DEF Claim
    <3>3. QED
      BY <3>1, <3>2, WorkerMoves, WorkerFinishes DEF TypeOK, JobsKnown
  <2>2. CASE Recognise(w)
    <3>1. worker[w].job \in Events /\ event' \in [Events -> EventRow]
          /\ payment' \in [Payments -> PaymentRow]
          /\ (Finish(w) \/ Goto(w, "handoff"))
      BY <2>2, TruthApplied, TruthSetAside, EventSet DEF TypeOK
    <3>2. worker[w].step # "idle" /\ UNCHANGED <<subscription, blocked, crashes>>
      BY <2>2 DEF Recognise
    <3>3. QED
      BY <3>1, <3>2, WorkerMoves, WorkerFinishes DEF TypeOK, JobsKnown
  <2>3. CASE ApplyThrows(w) \/ ReadAttempts(w)
    <3>1. /\ worker[w].step # "idle"
          /\ Goto(w, "failing") \/ Goto(w, "conflict") \/ Goto(w, "exhaust") \/ Goto(w, "retry")
          /\ UNCHANGED <<event, payment, subscription, blocked, crashes>>
      BY <2>3 DEF ApplyThrows, ReadAttempts
    <3>2. QED
      BY <3>1, WorkerMoves DEF TypeOK, JobsKnown
  <2>4. CASE MarkPermanentConflict(w) \/ ScheduleRetry(w) \/ MarkExhausted(w)
    <3>1. worker[w].step # "idle" /\ worker[w].job \in Events /\ Finish(w)
      BY <2>4 DEF MarkPermanentConflict, ScheduleRetry, MarkExhausted, JobsKnown
    <3>2. event' \in [Events -> EventRow]
      BY <2>4, <3>1, EventSet DEF MarkPermanentConflict, ScheduleRetry, MarkExhausted, TypeOK
    <3>3. UNCHANGED <<payment, subscription, blocked, crashes>>
      BY <2>4 DEF MarkPermanentConflict, ScheduleRetry, MarkExhausted
    <3>4. QED
      BY <3>1, <3>2, <3>3, WorkerFinishes DEF TypeOK, JobsKnown
  <2>5. CASE HandOff(w)
    <3>1. worker[w].step # "idle" /\ Finish(w) /\ UNCHANGED <<event, payment, crashes>>
      BY <2>5 DEF HandOff
    <3>2. PaymentOf[worker[w].job] \in Payments
      BY <3>1, EventData DEF JobsKnown
    <3>3. /\ subscription' \in [Payments -> {"PENDING", "ACTIVE", "CANCELLED"}]
          /\ blocked' \subseteq Payments
      BY <2>5, <3>2 DEF HandOff, Activate, TypeOK
    <3>4. QED
      BY <3>1, <3>3, WorkerFinishes DEF TypeOK, JobsKnown
  <2>6. QED
    BY <1>2, <2>1, <2>2, <2>3, <2>4, <2>5 DEF WorkerStep
<1>3. ASSUME NEW w \in Workers, Crash(w)
      PROVE  TypeOK' /\ JobsKnown'
  <2>1. crashes' \in 0 .. MaxCrashes
    BY <1>3, ProviderEventsAssumption DEF Crash, TypeOK
  <2>2. QED
    BY <1>3, <2>1, WorkerFinishes DEF Crash, TypeOK, JobsKnown
<1>4. ASSUME NEW p \in Payments, RecoverActivation(p) \/ CancelSubscription(p)
      PROVE  TypeOK' /\ JobsKnown'
  BY <1>4 DEF RecoverActivation, CancelSubscription, Activate, TypeOK, JobsKnown
<1>5. ASSUME NEW p \in Payments, RecordOrder(p)
      PROVE  TypeOK' /\ JobsKnown'
  BY <1>5, OrderRecorded DEF RecordOrder, TypeOK, JobsKnown
<1>6. ASSUME NEW p \in Payments, NEW i \in Identities, ConfirmCheckout(p, i)
      PROVE  TypeOK' /\ JobsKnown'
  BY <1>6, Confirmed DEF ConfirmCheckout, TypeOK, JobsKnown
<1>7. ASSUME NEW e \in Events, TimePasses(e)
      PROVE  TypeOK' /\ JobsKnown'
  <2>1. event' \in [Events -> EventRow]
    BY <1>7 DEF TimePasses, SetEvent, TypeOK, EventRow
  <2>2. QED
    BY <1>7, <2>1 DEF TimePasses, TypeOK, JobsKnown
<1>8. CASE UNCHANGED vars
  BY <1>8 DEF vars, TypeOK, JobsKnown
<1>9. QED
  BY <1>1, <1>2, <1>3, <1>4, <1>5, <1>6, <1>7, <1>8 DEF Next, Workers
-----------------------------------------------------------------------------
(* What no step undoes                                                       *)

\* Either the Payments stand still, or one of them moves on.
LEMMA PaymentSteps ==
  ASSUME TypeOK, JobsKnown, [Next]_vars
  PROVE  \/ payment' = payment
         \/ \E w \in Workers : Recognise(w)
         \/ \E p \in Payments : RecordOrder(p)
         \/ \E p \in Payments, i \in Identities : ConfirmCheckout(p, i)
  BY DEF Next, vars, Ingest, Recover, WorkerStep, Claim, ApplyThrows, MarkPermanentConflict,
     ReadAttempts, ScheduleRetry, MarkExhausted, HandOff, Crash, RecoverActivation,
     CancelSubscription, TimePasses

LEMMA RecognitionForward ==
  ASSUME TypeOK, JobsKnown, CapturesCoherent, NEW w \in Workers, Recognise(w),
         ~ SetAside(PaymentOf[worker[w].job], IdentityOf[worker[w].job], Truth[worker[w].job])
  PROVE  LET p == PaymentOf[worker[w].job]
         IN  /\ Rank(payment[p].status) <= Rank(payment'[p].status)
             /\ payment[p].captured = None
             /\ payment[p].status # "CAPTURED"
             /\ payment'[p].order # "ABSENT"
<1> DEFINE e == worker[w].job
           p == PaymentOf[e]
<1>1. /\ e \in Events /\ p \in Payments
      /\ Truth[e] \in {"AUTHORIZED", "FAILED", "CAPTURED"}
      /\ CanTransition(payment[p].status, Truth[e])
      /\ payment'[p].status = Truth[e]
      /\ payment'[p].order = "PAID" \/ payment'[p].order = payment[p].order
  BY TruthApplied
<1>2. /\ payment[p].status # "CAPTURED"
      /\ ~ (payment[p].status = "FAILED" /\ Truth[e] = "AUTHORIZED")
  BY DEF SetAside
<1>3. payment[p].captured = None
  BY <1>1, <1>2 DEF CapturesCoherent
<1>4. payment[p].status \in {"PENDING", "AUTHORIZED", "FAILED"}
  BY <1>1, <1>2 DEF TypeOK, PaymentRow
<1>5. Rank(payment[p].status) <= Rank(Truth[e])
  BY <1>1, <1>2, <1>4, Ranks
<1>6. payment[p].order # "ABSENT"
  BY <1>1 DEF Recognise
<1>7. QED
  BY <1>1, <1>2, <1>3, <1>5, <1>6

LEMMA PaymentsForward ==
  ASSUME TypeOK, JobsKnown, CapturesCoherent, [Next]_vars, NEW p \in Payments
  PROVE  /\ Rank(payment[p].status) <= Rank(payment'[p].status)
         /\ payment[p].captured # None => payment'[p].captured = payment[p].captured
         /\ payment[p].confirmed # None => payment'[p].confirmed = payment[p].confirmed
         /\ payment[p].order # "ABSENT" => payment'[p].order # "ABSENT"
<1>1. Rank(payment[p].status) <= Rank(payment[p].status)
  <2>1. payment[p].status \in {"PENDING", "AUTHORIZED", "FAILED", "CAPTURED"}
    BY DEF TypeOK, PaymentRow
  <2>2. QED
    BY <2>1, Ranks
<1>2. CASE payment' = payment
  BY <1>1, <1>2
<1>3. ASSUME NEW w \in Workers, Recognise(w)
      PROVE  /\ Rank(payment[p].status) <= Rank(payment'[p].status)
             /\ payment[p].captured # None => payment'[p].captured = payment[p].captured
             /\ payment[p].confirmed # None => payment'[p].confirmed = payment[p].confirmed
             /\ payment[p].order # "ABSENT" => payment'[p].order # "ABSENT"
  <2> DEFINE e == worker[w].job
  <2>1. CASE SetAside(PaymentOf[e], IdentityOf[e], Truth[e])
    BY <1>1, <1>3, <2>1, TruthSetAside
  <2>2. CASE ~ SetAside(PaymentOf[e], IdentityOf[e], Truth[e])
    <3>1. CASE p = PaymentOf[e]
      BY <1>3, <2>2, <3>1, TruthApplied, RecognitionForward
    <3>2. CASE p # PaymentOf[e]
      <4>1. payment'[p] = payment[p]
        BY <1>3, <2>2, <3>2, TruthApplied
      <4>2. QED
        BY <1>1, <4>1
    <3>3. QED
      BY <3>1, <3>2
  <2>3. QED
    BY <2>1, <2>2
<1>4. ASSUME NEW q \in Payments, RecordOrder(q)
      PROVE  /\ payment'[p].status = payment[p].status
             /\ payment'[p].captured = payment[p].captured
             /\ payment'[p].confirmed = payment[p].confirmed
             /\ payment[p].order # "ABSENT" => payment'[p].order # "ABSENT"
  BY <1>4, OrderRecorded
<1>5. ASSUME NEW q \in Payments, NEW i \in Identities, ConfirmCheckout(q, i)
      PROVE  /\ payment'[p].status = payment[p].status
             /\ payment'[p].captured = payment[p].captured
             /\ payment[p].confirmed # None => payment'[p].confirmed = payment[p].confirmed
             /\ payment'[p].order = payment[p].order
  BY <1>5, Confirmed
<1>6. QED
  BY <1>1, <1>2, <1>3, <1>4, <1>5, PaymentSteps

\* What a worker does to the event it has in hand, or time to any
LEMMA EventSteps ==
  ASSUME TypeOK, JobsKnown, [Next]_vars, NEW e \in Events
  PROVE  /\ event[e].attempts <= event'[e].attempts
         /\ event'[e].status = "FAILED" /\ event'[e].clock = "none" =>
              \/ event[e].status = "FAILED" /\ event[e].clock = "none"
              \/ \E w \in Workers : worker[w].step = "exhaust" /\ worker[w].job = e
         /\ event'[e].status \in {"PROCESSED", "IGNORED"} =>
              \/ event[e].status = event'[e].status
              \/ \E w \in Workers : /\ worker[w].job = e
                                    /\ Recognise(w) \/ MarkPermanentConflict(w)
<1> DEFINE Goal == /\ event[e].attempts <= event'[e].attempts
                   /\ event'[e].status = "FAILED" /\ event'[e].clock = "none" =>
                        \/ event[e].status = "FAILED" /\ event[e].clock = "none"
                        \/ \E w \in Workers : worker[w].step = "exhaust" /\ worker[w].job = e
                   /\ event'[e].status \in {"PROCESSED", "IGNORED"} =>
                        \/ event[e].status = event'[e].status
                        \/ \E w \in Workers : /\ worker[w].job = e
                                              /\ Recognise(w) \/ MarkPermanentConflict(w)
<1>1. event[e].attempts \in Nat /\ event[e].attempts <= event[e].attempts
  BY ProviderEventsAssumption DEF TypeOK, EventRow
<1>2. CASE event'[e] = event[e]
  BY <1>1, <1>2
<1>3. ASSUME NEW w \in Workers, Ingest(w, e), event'[e] # event[e]
      PROVE  Goal
  <2>1. SetEvent(e, "RECEIVED", "none")
    BY <1>3 DEF Ingest
  <2>2. QED
    BY <1>1, <2>1, EventSet
<1>4. ASSUME NEW w \in Workers, worker[w].job = e, WorkerStep(w), event'[e] # event[e]
      PROVE  Goal
  <2>1. CASE Claim(w)
    <3>1. Claimable(worker[w].job)
      BY <1>4, <2>1 DEF Claim
    <3>2. /\ event'[e].attempts = event[e].attempts + 1
          /\ event'[e].status = "PROCESSING"
      BY <1>4, <2>1, <3>1, ClaimTaken
    <3>3. event[e].attempts <= event'[e].attempts
      BY <1>1, <3>2
    <3>4. QED
      BY <3>2, <3>3
  <2>2. CASE Recognise(w)
    <3>1. SetEvent(e, "PROCESSED", "none") \/ SetEvent(e, "IGNORED", "none")
      BY <1>4, <2>2, TruthApplied, TruthSetAside
    <3>2. QED
      BY <1>1, <1>4, <2>2, <3>1, EventSet
  <2>3. CASE MarkPermanentConflict(w)
    BY <1>1, <1>4, <2>3, EventSet DEF MarkPermanentConflict
  <2>4. CASE ScheduleRetry(w)
    BY <1>1, <1>4, <2>4, EventSet DEF ScheduleRetry
  <2>5. CASE MarkExhausted(w)
    BY <1>1, <1>4, <2>5, EventSet DEF MarkExhausted
  <2>6. QED
    BY <1>4, <2>1, <2>2, <2>3, <2>4, <2>5 DEF WorkerStep, ApplyThrows, ReadAttempts, HandOff
<1>5. ASSUME TimePasses(e)
      PROVE  Goal
  <2>1. /\ event'[e].status = event[e].status /\ event'[e].attempts = event[e].attempts
        /\ event'[e].clock \in {"expired", "due"}
    BY <1>5 DEF TimePasses, SetEvent, TypeOK, EventRow
  <2>2. QED
    BY <1>1, <2>1
<1>6. ASSUME NEW w \in Workers, WorkerStep(w), worker[w].job # e
      PROVE  event'[e] = event[e]
  <2>1. CASE Claim(w)
    BY <1>6, <2>1, ClaimTaken DEF Claim
  <2>2. CASE Recognise(w)
    <3>1. worker[w].job \in Events
          /\ (SetEvent(worker[w].job, "PROCESSED", "none") \/ SetEvent(worker[w].job, "IGNORED", "none"))
      BY <2>2, TruthApplied, TruthSetAside
    <3>2. QED
      BY <1>6, <3>1, EventSet
  <2>3. CASE MarkPermanentConflict(w) \/ ScheduleRetry(w) \/ MarkExhausted(w)
    BY <1>6, <2>3 DEF MarkPermanentConflict, ScheduleRetry, MarkExhausted, SetEvent, TypeOK
  <2>4. QED
    BY <1>6, <2>1, <2>2, <2>3 DEF WorkerStep, ApplyThrows, ReadAttempts, HandOff
<1>7. ASSUME NEW w \in Workers, NEW f \in Events \ {e}, Ingest(w, f)
      PROVE  event'[e] = event[e]
  BY <1>7 DEF Ingest, SetEvent, TypeOK
<1>8. ASSUME NEW f \in Events \ {e}, TimePasses(f)
      PROVE  event'[e] = event[e]
  BY <1>8 DEF TimePasses, SetEvent, TypeOK
<1>9. \/ event' = event
      \/ \E w \in Workers, f \in Events : Ingest(w, f)
      \/ \E w \in Workers : WorkerStep(w)
      \/ \E f \in Events : TimePasses(f)
  BY DEF Next, vars, Workers, Recover, Crash, RecoverActivation, RecordOrder, CancelSubscription,
     ConfirmCheckout
<1>10. QED
  BY <1>2, <1>3, <1>4, <1>5, <1>6, <1>7, <1>8, <1>9
\* Evidence once contested or at odds with a confirmation stays so.
LEMMA EvidenceForward ==
  ASSUME TypeOK, JobsKnown, CapturesCoherent, [Next]_vars,
         NEW p \in Payments, NEW i \in Identities
  PROVE  Competing(p, i) => Competing(p, i)'
  BY PaymentsForward, ProviderEventsAssumption DEF Competing

LEMMA CoherenceForward ==
  ASSUME TypeOK, JobsKnown, CapturesCoherent, [Next]_vars,
         NEW p \in Payments, NEW i \in Identities, Coherent(p, i)'
  PROVE  Coherent(p, i)
  BY PaymentsForward DEF Coherent

LEMMA CapturedForward ==
  ASSUME TypeOK, TypeOK', JobsKnown, CapturesCoherent, [Next]_vars, NEW p \in Payments,
         payment[p].status = "CAPTURED"
  PROVE  payment'[p].status = "CAPTURED"
<1>1. Rank("CAPTURED") <= Rank(payment'[p].status)
  BY PaymentsForward
<1>2. payment'[p].status \in {"PENDING", "AUTHORIZED", "FAILED", "CAPTURED"}
  BY DEF TypeOK, PaymentRow
<1>3. QED
  BY <1>1, <1>2, Ranks

-----------------------------------------------------------------------------
(* The invariants                                                            *)

LEMMA CapturesCoherentKept ==
  ASSUME TypeOK, JobsKnown, CapturesCoherent, [Next]_vars
  PROVE  CapturesCoherent'
<1> SUFFICES ASSUME NEW p \in Payments
             PROVE  /\ payment'[p].captured # None <=> payment'[p].status = "CAPTURED"
                    /\ payment'[p].status = "CAPTURED" => payment'[p].order = "PAID"
  BY DEF CapturesCoherent
<1>1. /\ payment[p].captured # None <=> payment[p].status = "CAPTURED"
      /\ payment[p].status = "CAPTURED" => payment[p].order = "PAID"
  BY DEF CapturesCoherent
<1>2. CASE payment' = payment
  BY <1>1, <1>2
<1>3. ASSUME NEW w \in Workers, Recognise(w)
      PROVE  /\ payment'[p].captured # None <=> payment'[p].status = "CAPTURED"
             /\ payment'[p].status = "CAPTURED" => payment'[p].order = "PAID"
  <2> DEFINE e == worker[w].job
  <2>1. CASE SetAside(PaymentOf[e], IdentityOf[e], Truth[e])
    BY <1>1, <1>3, <2>1, TruthSetAside
  <2>2. CASE ~ SetAside(PaymentOf[e], IdentityOf[e], Truth[e])
    BY <1>1, <1>3, <2>2, TruthApplied, RecognitionForward, EventData
  <2>3. QED
    BY <2>1, <2>2
<1>4. ASSUME NEW q \in Payments, RecordOrder(q)
      PROVE  /\ payment'[p].status = payment[p].status
             /\ payment'[p].captured = payment[p].captured
             /\ payment[p].order = "PAID" => payment'[p].order = "PAID"
  BY <1>4, OrderRecorded
<1>5. ASSUME NEW q \in Payments, NEW i \in Identities, ConfirmCheckout(q, i)
      PROVE  /\ payment'[p].status = payment[p].status
             /\ payment'[p].captured = payment[p].captured
             /\ payment'[p].order = payment[p].order
  BY <1>5, Confirmed
<1>6. QED
  BY <1>1, <1>2, <1>3, <1>4, <1>5, PaymentSteps

\* What holds of a worker goes on to hold while others move.
LEMMA WorkersCoherentForward ==
  ASSUME TypeOK, TypeOK', JobsKnown, WorkersCoherent, CapturesCoherent, [Next]_vars,
         NEW w \in Workers, worker[w].step # "idle"
  PROVE  LET e == worker[w].job
         IN  /\ worker[w].step \in {"apply", "failing", "retry"} => event'[e].attempts > 0
             /\ worker[w].step = "exhaust" => event'[e].attempts = MaxAttempts
             /\ worker[w].step = "conflict" =>
                  \E q \in Payments \ {PaymentOf[e]} : payment'[q].captured = IdentityOf[e]
             /\ worker[w].step = "handoff" => payment'[PaymentOf[e]].status = "CAPTURED"
<1> DEFINE e == worker[w].job
<1>1. e \in Events /\ PaymentOf[e] \in Payments /\ IdentityOf[e] \in Identities
  BY EventData DEF JobsKnown
<1>2. event[e].attempts \in 0 .. MaxAttempts /\ event'[e].attempts \in 0 .. MaxAttempts
  BY <1>1 DEF TypeOK, EventRow
<1>3. event[e].attempts <= event'[e].attempts
  BY <1>1, EventSteps
<1>4. worker[w].step \in {"apply", "failing", "retry"} => event'[e].attempts > 0
  BY <1>2, <1>3, ProviderEventsAssumption DEF WorkersCoherent
<1>5. worker[w].step = "exhaust" => event'[e].attempts = MaxAttempts
  BY <1>2, <1>3, ProviderEventsAssumption DEF WorkersCoherent
<1>6. worker[w].step = "conflict" =>
        \E q \in Payments \ {PaymentOf[e]} : payment'[q].captured = IdentityOf[e]
  <2>1. SUFFICES ASSUME worker[w].step = "conflict"
                 PROVE  \E q \in Payments \ {PaymentOf[e]} : payment'[q].captured = IdentityOf[e]
    OBVIOUS
  <2>2. PICK q \in Payments \ {PaymentOf[e]} : payment[q].captured = IdentityOf[e]
    BY <2>1 DEF WorkersCoherent, Competing
  <2>3. payment'[q].captured = IdentityOf[e]
    BY <1>1, <2>2, PaymentsForward, EventData DEF JobsKnown
  <2>4. QED
    BY <2>2, <2>3
<1>7. worker[w].step = "handoff" => payment'[PaymentOf[e]].status = "CAPTURED"
  BY <1>1, CapturedForward DEF WorkersCoherent
<1>8. QED
  BY <1>4, <1>5, <1>6, <1>7

LEMMA WorkersCoherentKept ==
  ASSUME TypeOK, TypeOK', JobsKnown, WorkersCoherent, CapturesCoherent, [Next]_vars
  PROVE  WorkersCoherent'
<1> SUFFICES ASSUME NEW w \in Workers
             PROVE  LET e == worker'[w].job
                    IN  /\ worker'[w].step \in {"apply", "failing", "retry"} => event'[e].attempts > 0
                        /\ worker'[w].step = "exhaust" => event'[e].attempts = MaxAttempts
                        /\ worker'[w].step = "conflict" =>
                             \E q \in Payments \ {PaymentOf[e]} : payment'[q].captured = IdentityOf[e]
                        /\ worker'[w].step = "handoff" => payment'[PaymentOf[e]].status = "CAPTURED"
  BY DEF WorkersCoherent, Competing
<1> DEFINE e == worker[w].job
           Goal == LET f == worker'[w].job
                   IN  /\ worker'[w].step \in {"apply", "failing", "retry"} => event'[f].attempts > 0
                       /\ worker'[w].step = "exhaust" => event'[f].attempts = MaxAttempts
                       /\ worker'[w].step = "conflict" =>
                            \E q \in Payments \ {PaymentOf[f]} : payment'[q].captured = IdentityOf[f]
                       /\ worker'[w].step = "handoff" => payment'[PaymentOf[f]].status = "CAPTURED"
<1>1. CASE worker'[w] = worker[w]
  <2>1. CASE worker[w].step = "idle"
    BY <1>1, <2>1
  <2>2. CASE worker[w].step # "idle"
    BY <1>1, <2>2, WorkersCoherentForward
  <2>3. QED
    BY <2>1, <2>2
<1>2. CASE worker'[w].step \in {"idle", "claim"}
  BY <1>2
<1>3. ASSUME NEW f \in Events, Recover(w, f)
      PROVE  Goal
  <2>1. CASE Take(w, f, "claim")
    BY <2>1, WorkerTakes DEF WorkerSteps
  <2>2. CASE Overdue(f) /\ Take(w, f, "exhaust")
    <3>1. worker'[w].step = "exhaust" /\ worker'[w].job = f
      BY <2>2, WorkerTakes DEF WorkerSteps
    <3>2. event[f].attempts >= MaxAttempts /\ event[f].attempts \in 0 .. MaxAttempts
      BY <2>2 DEF Overdue, TypeOK, EventRow
    <3>3. event[f].attempts = MaxAttempts /\ event' = event
      BY <1>3, <3>2, ProviderEventsAssumption DEF Recover
    <3>4. QED
      BY <3>1, <3>3
  <2>3. QED
    BY <1>3, <2>1, <2>2 DEF Recover
<1>4. ASSUME WorkerStep(w)
      PROVE  Goal
  <2> USE DEF WorkerSteps
  <2>1. CASE Finish(w)
    BY <2>1, WorkerFinishes
  <2>2. CASE Claim(w) /\ ~ Finish(w)
    <3>1. Claimable(e)
      BY <2>2 DEF Claim
    <3>2. /\ Goto(w, "apply") /\ event'[e].attempts = event[e].attempts + 1
          /\ event[e].attempts \in Nat
      BY <2>2, <3>1, ClaimTaken
    <3>3. worker'[w].step = "apply" /\ worker'[w].job = e
      BY <3>2, WorkerMoves
    <3>4. event'[e].attempts > 0
      BY <3>2
    <3>5. QED
      BY <3>3, <3>4
  <2>3. CASE Recognise(w) /\ ~ Finish(w)
    <3>1. Goto(w, "handoff") /\ payment'[PaymentOf[e]].status = "CAPTURED"
      BY <2>3, TruthApplied, TruthSetAside
    <3>2. worker'[w].step = "handoff" /\ worker'[w].job = e
      BY <3>1, WorkerMoves
    <3>3. QED
      BY <3>1, <3>2
  <2>4. CASE ApplyThrows(w)
    <3>1. worker[w].step = "apply" /\ UNCHANGED <<event, payment>>
      BY <2>4 DEF ApplyThrows
    <3>2. event[e].attempts > 0
      BY <3>1 DEF WorkersCoherent
    <3>3. CASE Goto(w, "failing")
      BY <3>1, <3>2, <3>3, WorkerMoves
    <3>4. CASE Competing(PaymentOf[e], IdentityOf[e]) /\ Goto(w, "conflict")
      BY <3>1, <3>4, WorkerMoves DEF Competing
    <3>5. QED
      BY <2>4, <3>3, <3>4 DEF ApplyThrows
  <2>5. CASE ReadAttempts(w)
    <3>1. /\ worker[w].step = "failing" /\ UNCHANGED <<event, payment>>
          /\ (Goto(w, "exhaust") /\ event[e].attempts >= MaxAttempts) \/ Goto(w, "retry")
      BY <2>5 DEF ReadAttempts
    <3>2. e \in Events /\ event[e].attempts \in 0 .. MaxAttempts /\ event[e].attempts > 0
      BY <3>1 DEF JobsKnown, WorkersCoherent, TypeOK, EventRow
    <3>3. event[e].attempts >= MaxAttempts => event[e].attempts = MaxAttempts
      BY <3>2, ProviderEventsAssumption
    <3>4. QED
      BY <3>1, <3>2, <3>3, WorkerMoves
  <2>6. QED
    BY <1>4, <2>1, <2>2, <2>3, <2>4, <2>5 DEF WorkerStep, MarkPermanentConflict, ScheduleRetry,
       MarkExhausted, HandOff
<1>5. ASSUME NEW v \in Workers \ {w}, WorkerStep(v)
      PROVE  worker'[w] = worker[w]
  <2>1. \/ Finish(v)
        \/ \E step \in WorkerSteps : Goto(v, step)
    BY <1>5 DEF WorkerStep, Claim, Recognise, ApplyThrows, MarkPermanentConflict, ReadAttempts,
       ScheduleRetry, MarkExhausted, HandOff, WorkerSteps
  <2>2. QED
    BY <2>1, WorkerFinishes, WorkerMoves
<1>6. ASSUME NEW v \in Workers, Crash(v)
      PROVE  worker'[w] = worker[w] \/ worker'[w].step = "idle"
  BY <1>6, WorkerFinishes DEF Crash
<1>7. ASSUME NEW v \in Workers, NEW f \in Events, Ingest(v, f) \/ (Recover(v, f) /\ v # w)
      PROVE  worker'[w] = worker[w] \/ worker'[w].step = "claim"
  BY <1>7, WorkerTakes DEF Ingest, Recover, WorkerSteps
<1>8. \/ worker' = worker
      \/ \E v \in Workers, f \in Events : Ingest(v, f) \/ Recover(v, f)
      \/ \E v \in Workers : WorkerStep(v) \/ Crash(v)
  BY DEF Next, vars, Workers, RecoverActivation, RecordOrder, CancelSubscription, ConfirmCheckout,
     TimePasses
<1>9. QED
  BY <1>1, <1>2, <1>3, <1>4, <1>5, <1>6, <1>7, <1>8
\* A Payment's status comes from an event that was claimed.
LEMMA StatusHasSource ==
  ASSUME TypeOK, JobsKnown, WorkersCoherent, OrderIndependent, [Next]_vars,
         NEW p \in Payments, payment'[p].status # "PENDING"
  PROVE  \E e \in Events : /\ PaymentOf[e] = p /\ event'[e].attempts > 0
                           /\ Truth[e] = payment'[p].status
<1>1. CASE payment'[p].status = payment[p].status
  <2>1. PICK e \in Events : /\ PaymentOf[e] = p /\ event[e].attempts > 0
                            /\ Truth[e] = payment[p].status
    BY <1>1 DEF OrderIndependent
  <2>2. event[e].attempts \in Int /\ event'[e].attempts \in Int
    <3>1. TypeOK'
      BY TypesKept
    <3>2. QED
      BY <3>1, ProviderEventsAssumption DEF TypeOK, EventRow
  <2>3. event'[e].attempts > 0
    BY <2>1, <2>2, EventSteps
  <2>4. QED
    BY <1>1, <2>1, <2>3
<1>2. CASE payment'[p].status # payment[p].status
  <2>1. PICK w \in Workers : Recognise(w)
    BY <1>2, PaymentSteps, OrderRecorded, Confirmed
  <2> DEFINE e == worker[w].job
  <2>2. ~ SetAside(PaymentOf[e], IdentityOf[e], Truth[e])
    BY <1>2, <2>1, TruthSetAside
  <2>3. /\ e \in Events /\ PaymentOf[e] = p /\ Truth[e] = payment'[p].status
        /\ SetEvent(e, "PROCESSED", "none")
    BY <1>2, <2>1, <2>2, TruthApplied
  <2>4. event[e].attempts > 0
    BY <2>1 DEF Recognise, WorkersCoherent
  <2>5. event'[e].attempts = event[e].attempts
    BY <2>3, EventSet
  <2>6. QED
    BY <2>3, <2>4, <2>5
<1>3. QED
  BY <1>1, <1>2

\* A Payment is at least where each of its settled, uncontested events put it.
LEMMA EvidenceCounts ==
  ASSUME TypeOK, TypeOK', JobsKnown, WorkersCoherent, CapturesCoherent, OrderIndependent,
         [Next]_vars, NEW p \in Payments, NEW e \in Events,
         PaymentOf[e] = p, Truth[e] # "NONE", Settled(e)',
         Coherent(p, IdentityOf[e])', ~ Competing(p, IdentityOf[e])'
  PROVE  Rank(Truth[e]) <= Rank(payment'[p].status)
<1> DEFINE i == IdentityOf[e]
<1>1. i \in Identities /\ Truth[e] \in {"AUTHORIZED", "FAILED", "CAPTURED"}
  BY EventData
<1>2. Coherent(p, i) /\ ~ Competing(p, i)
  BY <1>1, CoherenceForward, EvidenceForward
<1>3. Rank(payment[p].status) <= Rank(payment'[p].status)
  BY PaymentsForward
<1>4. /\ payment[p].status \in {"PENDING", "AUTHORIZED", "FAILED", "CAPTURED"}
      /\ payment'[p].status \in {"PENDING", "AUTHORIZED", "FAILED", "CAPTURED"}
  BY DEF TypeOK, PaymentRow
<1>5. Rank(Truth[e]) \in Int /\ Rank(payment[p].status) \in Int /\ Rank(payment'[p].status) \in Int
  BY <1>1, <1>4, Ranks
<1>6. SUFFICES Rank(Truth[e]) <= Rank(payment[p].status) \/ payment'[p].status = Truth[e]
  BY <1>3, <1>5
<1>7. CASE Settled(e)
  BY <1>2, <1>7 DEF OrderIndependent
<1>8. ASSUME NEW w \in Workers, worker[w].job = e, Recognise(w)
      PROVE  Rank(Truth[e]) <= Rank(payment[p].status) \/ payment'[p].status = Truth[e]
  <2>1. CASE SetAside(p, i, Truth[e])
    <3>1. \/ payment[p].status = "CAPTURED"
          \/ payment[p].status = "FAILED" /\ Truth[e] = "AUTHORIZED"
      BY <1>2, <2>1 DEF SetAside
    <3>2. QED
      BY <1>1, <3>1, Ranks
  <2>2. CASE ~ SetAside(p, i, Truth[e])
    BY <1>8, <2>2, TruthApplied
  <2>3. QED
    BY <2>1, <2>2
<1>9. ASSUME NEW w \in Workers, worker[w].job = e, MarkPermanentConflict(w)
      PROVE  FALSE
  BY <1>2, <1>9 DEF MarkPermanentConflict, WorkersCoherent
<1>10. \/ Settled(e)
       \/ \E w \in Workers : worker[w].job = e /\ (Recognise(w) \/ MarkPermanentConflict(w))
  BY EventSteps DEF Settled
<1>11. QED
  BY <1>7, <1>8, <1>9, <1>10

LEMMA OrderIndependentKept ==
  ASSUME TypeOK, TypeOK', JobsKnown, WorkersCoherent, CapturesCoherent, OrderIndependent,
         [Next]_vars
  PROVE  OrderIndependent'
  BY StatusHasSource, EvidenceCounts DEF OrderIndependent

LEMMA GivenUpKept ==
  ASSUME TypeOK, TypeOK', JobsKnown, WorkersCoherent, GivenUpOnlyAtMaximum, [Next]_vars
  PROVE  GivenUpOnlyAtMaximum'
<1> SUFFICES ASSUME NEW e \in Events, event'[e].status = "FAILED", event'[e].clock = "none"
             PROVE  event'[e].attempts = MaxAttempts
  BY DEF GivenUpOnlyAtMaximum
<1>1. event[e].attempts = MaxAttempts
  BY EventSteps DEF GivenUpOnlyAtMaximum, WorkersCoherent
<1>2. event'[e].attempts \in 0 .. MaxAttempts /\ event[e].attempts <= event'[e].attempts
  BY EventSteps DEF TypeOK, EventRow
<1>3. QED
  BY <1>1, <1>2, ProviderEventsAssumption

\* Who goes live is captured, and finds no other live.
LEMMA GoesLive ==
  ASSUME TypeOK, JobsKnown, WorkersCoherent, [Next]_vars, NEW p \in Payments,
         subscription'[p] = "ACTIVE", subscription[p] # "ACTIVE"
  PROVE  /\ payment[p].status = "CAPTURED"
         /\ ~ OtherLive(p)
         /\ subscription' = [subscription EXCEPT ![p] = "ACTIVE"]
<1>1. ASSUME NEW q \in Payments, Activate(q)
      PROVE  /\ q = p /\ ~ OtherLive(p)
             /\ subscription' = [subscription EXCEPT ![p] = "ACTIVE"]
  BY <1>1 DEF Activate, TypeOK
<1>2. ASSUME NEW w \in Workers, HandOff(w)
      PROVE  PaymentOf[worker[w].job] \in Payments /\ Activate(PaymentOf[worker[w].job])
             /\ payment[PaymentOf[worker[w].job]].status = "CAPTURED"
  BY <1>2, EventData DEF HandOff, JobsKnown, WorkersCoherent
<1>3. ASSUME NEW q \in Payments, RecoverActivation(q)
      PROVE  Activate(q) /\ payment[q].status = "CAPTURED"
  BY <1>3 DEF RecoverActivation
<1>4. \/ \E w \in Workers : HandOff(w)
      \/ \E q \in Payments : RecoverActivation(q)
  <2>1. ~ \E q \in Payments : CancelSubscription(q)
    BY DEF CancelSubscription, TypeOK
  <2>2. subscription' # subscription
    OBVIOUS
  <2>3. QED
    BY <2>1, <2>2 DEF Next, vars, Ingest, Recover, WorkerStep, Claim, Recognise, ApplyThrows,
       MarkPermanentConflict, ReadAttempts, ScheduleRetry, MarkExhausted, Crash, RecordOrder,
       ConfirmCheckout, TimePasses
<1>5. QED
  BY <1>1, <1>2, <1>3, <1>4

LEMMA LiveIsPaidKept ==
  ASSUME TypeOK, TypeOK', JobsKnown, WorkersCoherent, CapturesCoherent, CapturesCoherent',
         LiveIsPaid, [Next]_vars
  PROVE  LiveIsPaid'
<1> SUFFICES ASSUME NEW p \in Payments, subscription'[p] = "ACTIVE"
             PROVE  /\ payment'[p].status = "CAPTURED" /\ payment'[p].order = "PAID"
                    /\ \A q \in Payments \ {p} : subscription'[q] # "ACTIVE"
  BY DEF LiveIsPaid, OtherLive
<1>1. payment[p].status = "CAPTURED"
  BY GoesLive DEF LiveIsPaid
<1>2. payment'[p].status = "CAPTURED" /\ payment'[p].order = "PAID"
  BY <1>1, CapturedForward DEF CapturesCoherent
<1>3. ASSUME NEW q \in Payments \ {p}, subscription'[q] = "ACTIVE"
      PROVE  FALSE
  <2>1. CASE subscription[p] = "ACTIVE" /\ subscription[q] = "ACTIVE"
    BY <2>1 DEF LiveIsPaid, OtherLive
  <2>2. CASE subscription[p] # "ACTIVE"
    BY <1>3, <2>2, GoesLive DEF OtherLive, TypeOK
  <2>3. CASE subscription[q] # "ACTIVE"
    BY <1>3, <2>3, GoesLive DEF OtherLive, TypeOK
  <2>4. QED
    BY <2>1, <2>2, <2>3
<1>4. QED
  BY <1>2, <1>3
-----------------------------------------------------------------------------
(* The specification                                                         *)

LEMMA Initially == Init => IInv
<1> SUFFICES ASSUME Init PROVE IInv
  OBVIOUS
<1>1. TypeOK
  BY ProviderEventsAssumption DEF Init, TypeOK, EventRow, PaymentRow, WorkerSteps
<1>2. JobsKnown /\ WorkersCoherent /\ CapturesCoherent
  BY ProviderEventsAssumption DEF Init, JobsKnown, WorkersCoherent, CapturesCoherent
<1>3. OrderIndependent /\ GivenUpOnlyAtMaximum /\ LiveIsPaid
  BY DEF Init, OrderIndependent, Settled, GivenUpOnlyAtMaximum, LiveIsPaid
<1>4. QED
  BY <1>1, <1>2, <1>3 DEF IInv

LEMMA Invariance == Spec => []IInv
<1>1. IInv /\ [Next]_vars => IInv'
  BY TypesKept, WorkersCoherentKept, CapturesCoherentKept, OrderIndependentKept, GivenUpKept,
     LiveIsPaidKept DEF IInv
<1>2. QED
  BY Initially, <1>1, PTL DEF Spec

\* Every variable keeps its type; in particular no event is claimed more often
\* than MAX_PROVIDER_EVENT_PROCESSING_ATTEMPTS.
THEOREM TypeCorrect == Spec => []TypeOK
<1>1. IInv => TypeOK
  BY DEF IInv
<1>2. QED
  BY <1>1, Invariance, PTL

\* applyTruth() makes of a Payment what its events say, in whatever order and
\* however often they are processed, and by however many workers at once.
THEOREM TruthHasNoOrder == Spec => []OrderIndependent
<1>1. IInv => OrderIndependent
  BY DEF IInv
<1>2. QED
  BY <1>1, Invariance, PTL

\* markRetryableFailure() and the terminalizing scan never give an event up
\* before its last attempt, although the former decides on what it read before.
THEOREM NotGivenUpEarly == Spec => []GivenUpOnlyAtMaximum
<1>1. IInv => GivenUpOnlyAtMaximum
  BY DEF IInv
<1>2. QED
  BY <1>1, Invariance, PTL

\* activate() lets a subscription go live only for a captured Payment, and one
\* at a time, whether the webhook hands it on or the recovery job finds it.
THEOREM LiveWasPaid == Spec => []LiveIsPaid
<1>1. IInv => LiveIsPaid
  BY DEF IInv
<1>2. QED
  BY <1>1, Invariance, PTL

-----------------------------------------------------------------------------
(* No event is stranded                                                      *)

\* The clock of a row goes with its status, and a row that was never claimed has
\* all its attempts left.
ClocksCoherent ==
  \A e \in Events :
    /\ event[e].status \in {"ABSENT", "RECEIVED"} => event[e].attempts = 0
    /\ event[e].status = "PROCESSING" => event[e].clock \in {"running", "expired"}
    /\ event[e].status = "FAILED" => event[e].clock \in {"waiting", "due", "none"}

\* A stored event that has not come to rest can be picked up by recoverDue(), at
\* once or when its lease or its retry delay has run out.
NothingStranded ==
  \A e \in Events :
    \/ event[e].status = "ABSENT"
    \/ Settled(e)
    \/ event[e].status = "FAILED" /\ event[e].attempts = MaxAttempts
    \/ Claimable(e) \/ Overdue(e)
    \/ event[e].clock \in {"running", "waiting"}

\* How a row may change
RowSteps(e) ==
  \/ event'[e] = event[e]
  \/ event[e].status = "ABSENT" /\ event'[e].status = "RECEIVED"
     /\ event'[e].attempts = event[e].attempts
  \/ event'[e].status = "PROCESSING" /\ event'[e].clock = "running"
  \/ event'[e].status \in {"PROCESSED", "IGNORED"}
  \/ event'[e].status = "FAILED" /\ event'[e].clock \in {"waiting", "none"}
  \/ /\ event'[e].status = event[e].status /\ event'[e].attempts = event[e].attempts
     /\ \/ event[e].clock = "running" /\ event'[e].clock = "expired"
        \/ event[e].clock = "waiting" /\ event'[e].clock = "due"

LEMMA RowsStep ==
  ASSUME TypeOK, JobsKnown, [Next]_vars, NEW e \in Events
  PROVE  RowSteps(e)
<1>1. ASSUME NEW w \in Workers, NEW f \in Events, Ingest(w, f)
      PROVE  RowSteps(e)
  <2>1. event' = event \/ (event[f].status = "ABSENT" /\ SetEvent(f, "RECEIVED", "none"))
    BY <1>1 DEF Ingest
  <2>2. QED
    BY <2>1, EventSet DEF RowSteps
<1>2. ASSUME NEW w \in Workers, Claim(w)
      PROVE  RowSteps(e)
  <2>1. CASE Claimable(worker[w].job)
    <3>1. \/ event'[e] = event[e]
          \/ event'[e].status = "PROCESSING" /\ event'[e].clock = "running"
      BY <1>2, <2>1, ClaimTaken
    <3>2. QED
      BY <3>1 DEF RowSteps
  <2>2. CASE ~ Claimable(worker[w].job)
    BY <1>2, <2>2 DEF Claim, RowSteps
  <2>3. QED
    BY <2>1, <2>2
<1>3. ASSUME NEW w \in Workers, Recognise(w) \/ MarkPermanentConflict(w)
      PROVE  RowSteps(e)
  <2>1. /\ worker[w].job \in Events
        /\ \/ SetEvent(worker[w].job, "PROCESSED", "none")
           \/ SetEvent(worker[w].job, "IGNORED", "none")
    BY <1>3, TruthApplied, TruthSetAside DEF MarkPermanentConflict, JobsKnown
  <2>2. QED
    BY <2>1, EventSet DEF RowSteps
<1>4. ASSUME NEW w \in Workers, ScheduleRetry(w) \/ MarkExhausted(w)
      PROVE  RowSteps(e)
  <2>1. /\ worker[w].job \in Events
        /\ \/ event' = event
           \/ SetEvent(worker[w].job, "FAILED", "waiting")
           \/ SetEvent(worker[w].job, "FAILED", "none")
    BY <1>4 DEF ScheduleRetry, MarkExhausted, JobsKnown
  <2>2. QED
    BY <2>1, EventSet DEF RowSteps
<1>5. ASSUME NEW f \in Events, TimePasses(f)
      PROVE  RowSteps(e)
  <2>1. event[f].status \in {"ABSENT", "RECEIVED", "PROCESSING", "PROCESSED", "FAILED", "IGNORED"}
    BY DEF TypeOK, EventRow
  <2>2. \/ event'[e] = event[e]
        \/ /\ event'[e].status = event[e].status /\ event'[e].attempts = event[e].attempts
           /\ \/ event[e].clock = "running" /\ event'[e].clock = "expired"
              \/ event[e].clock = "waiting" /\ event'[e].clock = "due"
    BY <1>5, <2>1 DEF TimePasses, SetEvent, TypeOK, EventRow
  <2>3. QED
    BY <2>2 DEF RowSteps
<1>6. CASE event' = event
  BY <1>6 DEF RowSteps
<1>7. \/ event' = event
      \/ \E w \in Workers, f \in Events : Ingest(w, f)
      \/ \E w \in Workers : \/ Claim(w) \/ Recognise(w) \/ MarkPermanentConflict(w)
                            \/ ScheduleRetry(w) \/ MarkExhausted(w)
      \/ \E f \in Events : TimePasses(f)
  BY DEF Next, vars, Workers, WorkerStep, ApplyThrows, ReadAttempts, HandOff, Recover, Crash,
     RecoverActivation, RecordOrder, CancelSubscription, ConfirmCheckout
<1>8. QED
  BY <1>1, <1>2, <1>3, <1>4, <1>5, <1>6, <1>7

\* Whatever a worker that outlived its lease writes into a row, and whatever
\* worker dies, recoverDue() has a way to the row until it is settled or spent.
THEOREM NoEventStranded == Spec => []NothingStranded
<1>1. Init => ClocksCoherent
  BY DEF Init, ClocksCoherent
<1>2. IInv /\ ClocksCoherent /\ [Next]_vars => ClocksCoherent'
  <2> SUFFICES ASSUME IInv, ClocksCoherent, [Next]_vars, NEW e \in Events
               PROVE  /\ event'[e].status \in {"ABSENT", "RECEIVED"} => event'[e].attempts = 0
                      /\ event'[e].status = "PROCESSING" => event'[e].clock \in {"running", "expired"}
                      /\ event'[e].status = "FAILED" => event'[e].clock \in {"waiting", "due", "none"}
    BY DEF ClocksCoherent
  <2>1. RowSteps(e)
    BY RowsStep DEF IInv
  <2>2. /\ event[e].status \in {"ABSENT", "RECEIVED"} => event[e].attempts = 0
        /\ event[e].status = "PROCESSING" => event[e].clock \in {"running", "expired"}
        /\ event[e].status = "FAILED" => event[e].clock \in {"waiting", "due", "none"}
    BY DEF ClocksCoherent
  <2>3. QED
    BY <2>1, <2>2 DEF RowSteps
<1>3. IInv /\ ClocksCoherent => NothingStranded
  <2> SUFFICES ASSUME IInv, ClocksCoherent, NEW e \in Events,
                      event[e].status \notin {"ABSENT", "PROCESSED", "IGNORED"},
                      event[e].clock \notin {"running", "waiting"}
               PROVE  \/ event[e].status = "FAILED" /\ event[e].attempts = MaxAttempts
                      \/ Claimable(e) \/ Overdue(e)
    BY DEF NothingStranded, Settled
  <2>1. /\ event[e].attempts \in 0 .. MaxAttempts
        /\ event[e].status \in {"RECEIVED", "PROCESSING", "FAILED"}
    BY DEF IInv, TypeOK, EventRow
  <2>2. MaxAttempts \in Nat \ {0}
    BY ProviderEventsAssumption
  <2>3. CASE event[e].attempts = MaxAttempts
    <3>1. event[e].status # "RECEIVED"
      BY <2>2, <2>3 DEF ClocksCoherent
    <3>2. event[e].status = "PROCESSING" => Overdue(e)
      BY <2>2, <2>3 DEF ClocksCoherent, Overdue
    <3>3. QED
      BY <2>1, <2>3, <3>1, <3>2
  <2>4. CASE event[e].attempts # MaxAttempts
    <3>1. event[e].attempts < MaxAttempts
      BY <2>1, <2>2, <2>4
    <3>2. Due(e)
      BY <2>1, <2>4 DEF ClocksCoherent, IInv, GivenUpOnlyAtMaximum, Due
    <3>3. QED
      BY <3>1, <3>2 DEF Claimable
  <2>5. QED
    BY <2>3, <2>4
<1>4. QED
  BY <1>1, <1>2, <1>3, Invariance, PTL DEF Spec

-----------------------------------------------------------------------------
(* The refinement                                                            *)

\* One recognised truth is one step of PaymentTruth, or none.
LEMMA RecognitionSimulated ==
  ASSUME IInv, NEW w \in Workers, Recognise(w),
         NEW e \in Events, NEW p \in Payments, NEW i \in Identities,
         e = worker[w].job, p = PaymentOf[e], i = IdentityOf[e], ~ SetAside(p, i, Truth[e])
  PROVE  \/ Abstract!Next
         \/ \A q \in Payments : /\ payment'[q].status = payment[q].status
                                /\ payment'[q].captured = payment[q].captured
<1> DEFINE status == [q \in Payments |-> payment[q].status]
           identity == [q \in Payments |-> payment[q].captured]
<1>1. TypeOK /\ JobsKnown /\ CapturesCoherent
  BY DEF IInv
<1>2. /\ i # None
      /\ Truth[e] \in {"AUTHORIZED", "FAILED", "CAPTURED"}
      /\ payment'[p].status = Truth[e]
      /\ \A q \in Payments \ {p} : payment'[q] = payment[q]
      /\ Truth[e] = "CAPTURED" => payment'[p].captured = i
      /\ Truth[e] # "CAPTURED" => payment'[p].captured = payment[p].captured
  BY <1>1, TruthApplied, EventData
<1>3. /\ payment[p].captured = None
      /\ payment[p].status \in {"PENDING", "AUTHORIZED", "FAILED"}
      /\ ~ (payment[p].status = "FAILED" /\ Truth[e] = "AUTHORIZED")
      /\ \A q \in Payments \ {p} : payment[q].captured # i
  BY <1>1, <1>2, RecognitionForward DEF SetAside, Competing, TypeOK, PaymentRow
<1>4. status' = [status EXCEPT ![p] = Truth[e]]
  BY <1>2
<1>5. CASE Truth[e] = payment[p].status
  BY <1>2, <1>3, <1>5
<1>6. CASE Truth[e] = "AUTHORIZED" /\ payment[p].status = "PENDING"
  <2>1. identity' = identity
    BY <1>2, <1>6
  <2>2. Abstract!Authorize(p)
    BY <1>2, <1>4, <1>6, <2>1 DEF Abstract!Authorize
  <2>3. QED
    BY <1>2, <2>2 DEF Abstract!Next
<1>7. CASE Truth[e] = "FAILED" /\ payment[p].status \in {"PENDING", "AUTHORIZED"}
  <2>1. identity' = identity
    BY <1>2, <1>7
  <2>2. Abstract!Fail(p)
    BY <1>2, <1>4, <1>7, <2>1 DEF Abstract!Fail
  <2>3. QED
    BY <1>2, <2>2 DEF Abstract!Next
<1>8. CASE Truth[e] = "CAPTURED"
  <2>1. identity' = [identity EXCEPT ![p] = i]
    BY <1>2, <1>8
  <2>2. \A q \in Payments : identity[q] # i
    BY <1>2, <1>3
  <2>3. Abstract!Capture(p, i)
    BY <1>2, <1>3, <1>4, <1>8, <2>1, <2>2 DEF Abstract!Capture
  <2>4. QED
    BY <1>2, <2>3 DEF Abstract!Next
<1>9. QED
  BY <1>2, <1>3, <1>5, <1>6, <1>7, <1>8

\* The inbox keeps what PaymentTruth promises: whatever a worker, however late,
\* does to a Payment is an authorization, a failure or a capture that was still
\* possible, by a provider payment that no other Payment was captured with.
THEOREM InboxImplementsTruth == Spec => ImplementsPaymentTruth
<1> DEFINE status == [p \in Payments |-> payment[p].status]
           identity == [p \in Payments |-> payment[p].captured]
<1>1. Init => Abstract!Init
  BY DEF Init, Abstract!Init
<1>2. IInv /\ [Next]_vars => [Abstract!Next]_<<status, identity>>
  <2> SUFFICES ASSUME IInv, [Next]_vars
               PROVE  Abstract!Next \/ UNCHANGED <<status, identity>>
    OBVIOUS
  <2>1. TypeOK /\ JobsKnown
    BY DEF IInv
  <2>2. SUFFICES \/ Abstract!Next
                 \/ \A p \in Payments : /\ payment'[p].status = payment[p].status
                                        /\ payment'[p].captured = payment[p].captured
    OBVIOUS
  <2>3. ASSUME NEW w \in Workers, Recognise(w)
        PROVE  \/ Abstract!Next
               \/ \A p \in Payments : /\ payment'[p].status = payment[p].status
                                      /\ payment'[p].captured = payment[p].captured
    <3>1. worker[w].job \in Events
      BY <2>1, <2>3 DEF Recognise, JobsKnown
    <3>2. QED
      BY <2>1, <2>3, <3>1, TruthSetAside, RecognitionSimulated, EventData
  <2>4. ASSUME NEW q \in Payments, RecordOrder(q)
        PROVE  \A p \in Payments : /\ payment'[p].status = payment[p].status
                                   /\ payment'[p].captured = payment[p].captured
    BY <2>1, <2>4, OrderRecorded
  <2>5. ASSUME NEW q \in Payments, NEW i \in Identities, ConfirmCheckout(q, i)
        PROVE  \A p \in Payments : /\ payment'[p].status = payment[p].status
                                   /\ payment'[p].captured = payment[p].captured
    BY <2>1, <2>5, Confirmed
  <2>6. QED
    BY <2>1, <2>3, <2>4, <2>5, PaymentSteps
<1>3. QED
  BY <1>1, <1>2, Invariance, PTL DEF Spec, ImplementsPaymentTruth, Abstract!Spec
=============================================================================
