---------------------------- MODULE Subscriptions ----------------------------
(***************************************************************************)
(* The commercial authority of one company: its CompanySubscriptions, its  *)
(* Trial and the SubscriptionRenewals that prolong it (SubscriptionsService,*)
(* SubscriptionExpirationService, SubscriptionRenewalPreparationService,   *)
(* SubscriptionRenewalApplicationService, TrialsService, and the           *)
(* activation by SubscriptionPaymentActivationService).                    *)
(*                                                                         *)
(* Every write locks the Company row first, so an operation is one action; *)
(* amend() alone reads its source before it takes the lock.  Every period  *)
(* is Period long.  Of an EXPIRED row endedAt is its currentPeriodEnd.     *)
(***************************************************************************)
EXTENDS Integers

CONSTANTS
  Subs,          \* CompanySubscription rows
  Admins,        \* requests of amend() in flight
  Period,        \* length of a billing period
  Horizon,       \* bound: the time
  MaxEnd,        \* bound: the end of any period
  None           \* null

ASSUME SubscriptionsAssumption ==
  /\ Period \in Nat \ {0}
  /\ Horizon \in Nat
  /\ MaxEnd \in Nat
  /\ Horizon + Period <= MaxEnd
  /\ None \notin Nat
  /\ None \notin Subs

VARIABLES
  now,           \* the time
  sub,           \* CompanySubscription rows, with the capture that pays for activation
  renewal,       \* SubscriptionRenewal rows, by subscription and cycleStart
  trial,         \* endsAt of the company's ACTIVE Trial, or None
  amendment      \* what each amend() read before its transaction

vars == <<now, sub, renewal, trial, amendment>>

Times == 0 .. MaxEnd
Time == Times \cup {None}
Live == {"ACTIVE", "SUSPENDED"}

SubRow ==
  [status : {"ABSENT", "PENDING", "ACTIVE", "SUSPENDED", "EXPIRED", "CANCELLED", "SUPERSEDED"},
   source : {"PAYMENT", "OTHER"},
   end : Time,
   paid : Time]
\* dispatch: the provider order of the renewal's Payment (module ProviderOrders).
RenewalRow ==
  [status : {"ABSENT", "PREPARED", "APPLIED", "BLOCKED"},
   created : Times,
   dispatch : {"none", "open", "ordered"},
   captured : BOOLEAN]
\* source: the subscription being amended; the rest is what was read of it.
Snapshot == [source : Subs \cup {None}, row : SubRow, at : Times]

NoSub == [status |-> "ABSENT", source |-> "OTHER", end |-> None, paid |-> None]
NoRenewal == [status |-> "ABSENT", created |-> 0, dispatch |-> "none", captured |-> FALSE]
NoAmendment == [source |-> None, row |-> NoSub, at |-> 0]

TypeOK ==
  /\ now \in 0 .. Horizon
  /\ sub \in [Subs -> SubRow]
  /\ renewal \in [Subs \X Times -> RenewalRow]
  /\ trial \in Time
  /\ amendment \in [Admins -> Snapshot]

Init ==
  /\ now = 0
  /\ sub = [s \in Subs |-> NoSub]
  /\ renewal = [k \in Subs \X Times |-> NoRenewal]
  /\ trial = None
  /\ amendment = [a \in Admins |-> NoAmendment]

-----------------------------------------------------------------------------
\* isSubscriptionPeriodDue
IsDue(row, t) == row.end # None /\ row.end <= t
IsLive(s) == sub[s].status \in Live
EffectiveTrial == trial # None /\ trial > now

\* assertNoLive, assertNoUnresolvedRenewalDispatch
NoOtherLive(s) == \A o \in Subs \ {s} : ~ IsLive(o)
UnresolvedDispatch(s) ==
  \E c \in Times : renewal[<<s, c>>].status = "PREPARED" /\ renewal[<<s, c>>].dispatch = "open"

SetStatus(s, status) == sub' = [sub EXCEPT ![s].status = status]

\* create(): the rows that ask for payment start without a period; the others may
\* come with one, which may be over before they are activated.
Create(s, source, end) ==
  /\ sub[s].status = "ABSENT"
  /\ source = "PAYMENT" => end = None
  /\ sub' = [sub EXCEPT ![s] = [status |-> "PENDING", source |-> source, end |-> end, paid |-> None]]
  /\ UNCHANGED <<now, renewal, trial, amendment>>

\* MUTANTS stand before the definition each is a plausible slip of.
\* Mutant of Activate: a running Trial is not looked up.
ActivateDespiteTrial(s) ==
  /\ sub[s].status = "PENDING" /\ sub[s].source # "PAYMENT" /\ NoOtherLive(s)
  /\ SetStatus(s, "ACTIVE")
  /\ UNCHANGED <<now, renewal, trial, amendment>>

\* activate(), for every source but PAYMENT
Activate(s) ==
  /\ sub[s].status = "PENDING"
  /\ sub[s].source # "PAYMENT"
  /\ ~ EffectiveTrial
  /\ NoOtherLive(s)
  /\ SetStatus(s, "ACTIVE")
  /\ UNCHANGED <<now, renewal, trial, amendment>>

\* The activation Payment is captured, at the provider's time.
CaptureActivation(s) ==
  /\ sub[s].status = "PENDING" /\ sub[s].source = "PAYMENT" /\ sub[s].paid = None
  /\ sub' = [sub EXCEPT ![s].paid = now]
  /\ UNCHANGED <<now, renewal, trial, amendment>>

\* SubscriptionPaymentActivationService.activate(): the period starts with the
\* capture, however late the activation comes; a running Trial is cancelled.
\* (What it records when it refuses is in module ProviderEvents.)
ActivatePaid(s) ==
  /\ sub[s].status = "PENDING"
  /\ sub[s].paid # None
  /\ NoOtherLive(s)
  /\ sub' = [sub EXCEPT ![s].status = "ACTIVE", ![s].end = sub[s].paid + Period]
  /\ trial' = IF EffectiveTrial THEN None ELSE trial
  /\ UNCHANGED <<now, renewal, amendment>>

Suspend(s) ==
  /\ sub[s].status = "ACTIVE"
  /\ ~ UnresolvedDispatch(s)
  /\ ~ IsDue(sub[s], now)
  /\ SetStatus(s, "SUSPENDED")
  /\ UNCHANGED <<now, renewal, trial, amendment>>

Resume(s) ==
  /\ sub[s].status = "SUSPENDED"
  /\ ~ IsDue(sub[s], now)
  /\ ~ EffectiveTrial
  /\ NoOtherLive(s)
  /\ SetStatus(s, "ACTIVE")
  /\ UNCHANGED <<now, renewal, trial, amendment>>

Cancel(s) ==
  /\ sub[s].status \in {"PENDING", "ACTIVE", "SUSPENDED"}
  /\ ~ UnresolvedDispatch(s)
  /\ SetStatus(s, "CANCELLED")
  /\ UNCHANGED <<now, renewal, trial, amendment>>

\* Mutant of Expire: a suspended subscription is left out.
ExpireActive(s) ==
  /\ sub[s].status = "ACTIVE" /\ IsDue(sub[s], now)
  /\ SetStatus(s, "EXPIRED")
  /\ UNCHANGED <<now, renewal, trial, amendment>>

\* expire(), called by hand and every minute by the scheduler
Expire(s) ==
  /\ IsLive(s)
  /\ IsDue(sub[s], now)
  /\ SetStatus(s, "EXPIRED")
  /\ UNCHANGED <<now, renewal, trial, amendment>>

\* amend(), before its transaction: read the source and the time
BeginAmend(a, s) ==
  /\ amendment[a] = NoAmendment
  /\ IsLive(s)
  /\ amendment' = [amendment EXCEPT ![a] = [source |-> s, row |-> sub[s], at |-> now]]
  /\ UNCHANGED <<now, sub, renewal, trial>>

AmendPermitted(a) ==
  LET s == amendment[a].source IN
  /\ sub[s].status = amendment[a].row.status
  /\ ~ UnresolvedDispatch(s)
  /\ ~ IsDue(sub[s], amendment[a].at)
  /\ ~ EffectiveTrial
  /\ NoOtherLive(s)

\* Mutant of PaymentActivationCheck: live rows are left alone.
ActivationCheckOnceSuperseded(row) ==
  row.source = "PAYMENT" /\ row.status = "SUPERSEDED" => row.paid # None

\* The CHECK CompanySubscription_payment_activation_check on every row
PaymentActivationCheck(row) ==
  row.source = "PAYMENT" /\ row.status \in {"ACTIVE", "SUSPENDED", "SUPERSEDED"} => row.paid # None

\* amendmentData(): the source, the status and the period are copied from what was
\* read, the Payment that activated it is not.
Successor(a) == [amendment[a].row EXCEPT !.paid = None]

\* ... and its transaction, which the database refuses for a subscription that was
\* activated by a payment
Amend(a, t) ==
  LET s == amendment[a].source IN
  /\ amendment[a] # NoAmendment
  /\ AmendPermitted(a)
  /\ sub[t].status = "ABSENT"
  /\ PaymentActivationCheck(Successor(a))
  /\ sub' = [sub EXCEPT ![s].status = "SUPERSEDED", ![t] = Successor(a)]
  /\ amendment' = [amendment EXCEPT ![a] = NoAmendment]
  /\ UNCHANGED <<now, renewal, trial>>

\* The transaction is refused, by the code or the database, or the request dies.
AbandonAmend(a) ==
  /\ amendment[a] # NoAmendment
  /\ amendment' = [amendment EXCEPT ![a] = NoAmendment]
  /\ UNCHANGED <<now, sub, renewal, trial>>

-----------------------------------------------------------------------------
SetRenewal(s, c, row) == renewal' = [renewal EXCEPT ![<<s, c>>] = row]

\* Mutant of PrepareRenewal: the cycle starts when it is prepared.
PrepareFromNow(s) ==
  /\ sub[s].status = "ACTIVE" /\ sub[s].source = "PAYMENT" /\ sub[s].end # None
  /\ now + Period <= MaxEnd
  /\ renewal[<<s, now>>].status = "ABSENT"
  /\ SetRenewal(s, now, [NoRenewal EXCEPT !.status = "PREPARED", !.created = now])
  /\ UNCHANGED <<now, sub, trial, amendment>>

\* prepare(), by hand at any time or by the scheduler within its lead time; a
\* renewal that exists for the cycle is returned as it is.
PrepareRenewal(s) ==
  LET c == sub[s].end IN
  /\ sub[s].status = "ACTIVE"
  /\ sub[s].source = "PAYMENT"
  /\ c # None
  /\ c + Period <= MaxEnd
  /\ renewal[<<s, c>>].status = "ABSENT"
  /\ SetRenewal(s, c, [NoRenewal EXCEPT !.status = "PREPARED", !.created = now])
  /\ UNCHANGED <<now, sub, trial, amendment>>

\* The renewal's provider order, as module ProviderOrders has it.
OpenDispatch(s, c) ==
  /\ renewal[<<s, c>>].status = "PREPARED"
  /\ renewal[<<s, c>>].dispatch = "none"
  /\ sub[s].status = "ACTIVE"
  /\ SetRenewal(s, c, [renewal[<<s, c>>] EXCEPT !.dispatch = "open"])
  /\ UNCHANGED <<now, sub, trial, amendment>>

RecordRenewalOrder(s, c) ==
  /\ renewal[<<s, c>>].status = "PREPARED"
  /\ renewal[<<s, c>>].dispatch = "open"
  /\ sub[s].status \in {"ACTIVE", "EXPIRED"}
  /\ SetRenewal(s, c, [renewal[<<s, c>>] EXCEPT !.dispatch = "ordered"])
  /\ UNCHANGED <<now, sub, trial, amendment>>

CaptureRenewal(s, c) ==
  /\ renewal[<<s, c>>].dispatch = "ordered"
  /\ ~ renewal[<<s, c>>].captured
  /\ SetRenewal(s, c, [renewal[<<s, c>>] EXCEPT !.captured = TRUE])
  /\ UNCHANGED <<now, sub, trial, amendment>>

\* Mutant of ApplyRefused: other live subscriptions are not looked up.
ApplyRefusedUnchecked(s, c) ==
  \/ sub[s].end # c \/ sub[s].status \notin {"ACTIVE", "EXPIRED"}
  \/ sub[s].status = "EXPIRED" /\ renewal[<<s, c>>].created > c

\* apply(): why a captured renewal is blocked
ApplyRefused(s, c) ==
  \/ sub[s].end # c
  \/ sub[s].status \notin {"ACTIVE", "EXPIRED"}
  \/ sub[s].status = "EXPIRED" /\ renewal[<<s, c>>].created > c
  \/ ~ NoOtherLive(s)

\* Mutant of ApplyRenewal: the period is counted from the application.
ApplyFromNow(s, c) ==
  /\ renewal[<<s, c>>].status = "PREPARED" /\ renewal[<<s, c>>].captured /\ ~ ApplyRefused(s, c)
  /\ now + Period <= MaxEnd
  /\ sub' = [sub EXCEPT ![s].status = "ACTIVE", ![s].end = now + Period]
  /\ SetRenewal(s, c, [renewal[<<s, c>>] EXCEPT !.status = "APPLIED"])
  /\ UNCHANGED <<now, trial, amendment>>

ApplyRenewal(s, c) ==
  /\ renewal[<<s, c>>].status = "PREPARED"
  /\ renewal[<<s, c>>].captured
  /\ ~ ApplyRefused(s, c)
  /\ sub' = [sub EXCEPT ![s].status = "ACTIVE", ![s].end = c + Period]
  /\ SetRenewal(s, c, [renewal[<<s, c>>] EXCEPT !.status = "APPLIED"])
  /\ UNCHANGED <<now, trial, amendment>>

\* Mutant of BlockRenewal: only a wrong boundary is recorded.
BlockMismatch(s, c) ==
  /\ renewal[<<s, c>>].status = "PREPARED" /\ renewal[<<s, c>>].captured /\ sub[s].end # c
  /\ SetRenewal(s, c, [renewal[<<s, c>>] EXCEPT !.status = "BLOCKED"])
  /\ UNCHANGED <<now, sub, trial, amendment>>

BlockRenewal(s, c) ==
  /\ renewal[<<s, c>>].status = "PREPARED"
  /\ renewal[<<s, c>>].captured
  /\ ApplyRefused(s, c)
  /\ SetRenewal(s, c, [renewal[<<s, c>>] EXCEPT !.status = "BLOCKED"])
  /\ UNCHANGED <<now, sub, trial, amendment>>

-----------------------------------------------------------------------------
\* start(): an ACTIVE Trial whose end has passed is expired on the way.
StartTrial(end) ==
  /\ ~ EffectiveTrial
  /\ \A s \in Subs : ~ IsLive(s)
  /\ end > now
  /\ trial' = end
  /\ UNCHANGED <<now, sub, renewal, amendment>>

ExtendTrial(end) ==
  /\ EffectiveTrial
  /\ end > trial
  /\ trial' = end
  /\ UNCHANGED <<now, sub, renewal, amendment>>

\* cancel() of an effective Trial; reconcileExpired() of one that is over
EndTrial ==
  /\ trial # None
  /\ trial' = None
  /\ UNCHANGED <<now, sub, renewal, amendment>>

\* convert(): the subscription it creates is ACTIVE at once and has no period
ConvertTrial(s) ==
  /\ EffectiveTrial
  /\ sub[s].status = "ABSENT"
  /\ NoOtherLive(s)
  /\ sub' = [sub EXCEPT ![s] = [NoSub EXCEPT !.status = "ACTIVE"]]
  /\ trial' = None
  /\ UNCHANGED <<now, renewal, amendment>>

Tick ==
  /\ now < Horizon
  /\ now' = now + 1
  /\ UNCHANGED <<sub, renewal, trial, amendment>>

SubStep(s) ==
  \/ \E source \in {"PAYMENT", "OTHER"}, end \in {None, Period} : Create(s, source, end)
  \/ Activate(s) \/ CaptureActivation(s) \/ ActivatePaid(s)
  \/ Suspend(s) \/ Resume(s) \/ Cancel(s) \/ Expire(s)
  \/ PrepareRenewal(s) \/ ConvertTrial(s)

RenewalStep(s, c) ==
  \/ OpenDispatch(s, c) \/ RecordRenewalOrder(s, c) \/ CaptureRenewal(s, c)
  \/ ApplyRenewal(s, c) \/ BlockRenewal(s, c)

AmendStep(a) ==
  AbandonAmend(a) \/ \E s \in Subs : BeginAmend(a, s) \/ Amend(a, s)

TrialStep == EndTrial \/ \E end \in 1 .. Horizon : StartTrial(end) \/ ExtendTrial(end)

Next ==
  \/ Tick
  \/ TrialStep
  \/ \E s \in Subs : SubStep(s)
  \/ \E s \in Subs, c \in Times : RenewalStep(s, c)
  \/ \E a \in Admins : AmendStep(a)

Spec == Init /\ [][Next]_vars

\* The expiration and the renewal recovery jobs run every minute; a subscription
\* has at most one renewal waiting for the latter (BoundaryHolds).
Fairness ==
  /\ \A s \in Subs : WF_vars(Expire(s))
  /\ \A s \in Subs : WF_vars(\E c \in Times : ApplyRenewal(s, c) \/ BlockRenewal(s, c))

FairSpec == Spec /\ Fairness

-----------------------------------------------------------------------------
\* A company has at most one ACTIVE or SUSPENDED subscription.  Seven operations
\* can make one live; their checks under the Company lock suffice, so the
\* unique index behind them is never what refuses.
OneLive == \A s, t \in Subs : IsLive(s) /\ IsLive(t) => s = t

\* A renewal that is still to be applied starts where its subscription's period
\* ends, whatever was suspended, resumed, expired or renewed since it was
\* prepared: captured money is never blocked for a boundary mismatch.
BoundaryHolds ==
  \A s \in Subs, c \in Times : renewal[<<s, c>>].status = "PREPARED" => sub[s].end = c

\* reconcileAppliedPeriod(), what a replay of apply() demands: the subscription is
\* ACTIVE, and the later APPLIED cycles follow one another without gap or overlap
\* from this one to the end of the current period.
LaterApplied(s, c) ==
  {b \in Times : renewal[<<s, b>>].status = "APPLIED" /\ b >= c + Period}
HistoryFits(s, c) ==
  \E n \in 0 .. MaxEnd :
    /\ LaterApplied(s, c) = {b \in Times : \E i \in 1 .. n : b = c + Period * i}
    /\ sub[s].end = c + Period * (n + 1)
Reconciles(s, c) ==
  /\ sub[s].status = "ACTIVE"
  /\ sub[s].end # None
  /\ HistoryFits(s, c)

\* Each captured cycle was granted once, in turn, and none was taken back, whatever
\* became of the subscription.  So a replay of an applied renewal succeeds exactly
\* while its subscription is ACTIVE: of a suspended, expired or cancelled one it
\* throws, for the status alone, and it succeeds again once that one is ACTIVE again.
HistoryReconciles ==
  \A s \in Subs, c \in Times :
    renewal[<<s, c>>].status = "APPLIED" =>
      HistoryFits(s, c) /\ (Reconciles(s, c) <=> sub[s].status = "ACTIVE")

TrialBesideLive == EffectiveTrial /\ \E s \in Subs : IsLive(s)

\* Trials and live subscriptions exclude each other, but for one way: a renewal
\* applied to a subscription that had expired.
OnlyLateRenewalJoinsTrial ==
  [][~ TrialBesideLive /\ TrialBesideLive' =>
       \E s \in Subs : sub[s].status = "EXPIRED" /\ sub'[s].status = "ACTIVE"]_vars

\* Captured renewal money is answered: applied, or blocked on record.
CapturedRenewalAnswered ==
  \A s \in Subs, c \in Times :
    renewal[<<s, c>>].captured ~> renewal[<<s, c>>].status \in {"APPLIED", "BLOCKED"}

\* Access ends with what was paid for: a live subscription whose period is over
\* is expired, suspended or not, unless a renewal prolongs it first.
ElapsedIsExpired ==
  \A s \in Subs : IsLive(s) /\ IsDue(sub[s], now) ~> ~ (IsLive(s) /\ IsDue(sub[s], now))

\* An amendment that goes through replaces the row it has read: status, source,
\* period and payment are what they were then.  Under the lock only the status is
\* compared; a renewal that moves the period in between is one of a paid
\* subscription, which the CHECK keeps from being amended.
AmendsWhatItRead ==
  [][\A a \in Admins : amendment[a] # NoAmendment /\ sub' # sub /\ amendment'[a] = NoAmendment =>
       sub[amendment[a].source] = amendment[a].row]_vars

\* What SubscriptionAmendPage.tsx:31 says of every ACTIVE or SUSPENDED agreement: it
\* becomes Superseded, and its successor keeps the status.  An amendment that passes
\* every check of amend() can therefore be made.
PermittedIsAmended ==
  \A a \in Admins :
    /\ amendment[a] # NoAmendment
    /\ AmendPermitted(a)
    /\ \E t \in Subs : sub[t].status = "ABSENT"
    => ENABLED (\E t \in Subs : Amend(a, t))
=============================================================================
