--------------------------- MODULE ProviderOrders ---------------------------
(***************************************************************************)
(* Provider order preparation: PaymentProviderOrdersService of the backend. *)
(*                                                                         *)
(* A Payment becomes payable once one order exists for it at the payment   *)
(* provider and that order is recorded locally.  prepare() may run at any  *)
(* time, from a browser, from an administrator or from the renewal         *)
(* scheduler, so several runs for one Payment overlap; the provider call   *)
(* has a timeout and no idempotency key; any run may die between two       *)
(* database transactions.  Each transaction, and each read made outside a  *)
(* transaction, is one action: row locks (FOR UPDATE) are held to commit.  *)
(*                                                                         *)
(* A Request is one run of prepare().  A provider order is named by the    *)
(* Request whose createOrder call made it, so "the same order" is equality *)
(* of Requests.                                                            *)
(***************************************************************************)
EXTENDS Integers, Sequences

CONSTANTS
  Payments,      \* Payment rows; each has a subscription of its own
  Requests,      \* runs of prepare() / prepareSystem()
  Renewals,      \* the Payments whose purpose is SUBSCRIPTION_RENEWAL
  MaxVersion,    \* bound: credential versions ever configured
  None           \* no order, no payment chosen yet

ASSUME ProviderOrdersAssumption ==
  /\ Renewals \subseteq Payments
  /\ MaxVersion \in Nat \ {0}
  /\ None \notin Requests
  /\ None \notin Payments

VARIABLES
  payment,       \* Payment.status: PENDING, or SETTLED for every later status
  subscription,  \* status of the Payment's CompanySubscription
  attempts,      \* the Payment's ORDER_CREATE rows of PaymentAttempt, by sequence
  order,         \* the Payment's current PaymentProviderOrder, or None
  config,        \* BillingProviderConfiguration and its unretired credential
  pc,            \* the next step of each Request
  req,           \* the local variables of each Request
  wire           \* each Request's createOrder call, as the provider sees it

vars == <<payment, subscription, attempts, order, config, pc, req, wire>>
moneyVars == <<payment, subscription, attempts, order>>

SubscriptionStatus ==
  {"PENDING", "ACTIVE", "SUSPENDED", "EXPIRED", "CANCELLED"}
AttemptStatus == {"PENDING", "UNKNOWN", "SUCCEEDED", "FAILED"}
Open == {"PENDING", "UNKNOWN"}
Versions == 1 .. MaxVersion
Order == Requests \cup {None}

Attempt == [status : AttemptStatus, cred : Versions, order : Order]
Locals == [pay : Payments \cup {None}, att : Nat, cred : Nat, got : Order,
           recovered : BOOLEAN]

\* "done" returned an order, "failed" threw, "crashed" died with its process, or
\* ended in an error that writes nothing (a credential that cannot be resolved).
Final == {"done", "failed", "crashed"}
Holding == {"return", "dispatch", "send", "await", "persist", "reject", "keep", "lookup"}
Steps == {"idle", "current", "revalidate", "latest", "resolve", "reserve"}
           \cup Holding \cup Final

TypeOK ==
  /\ payment \in [Payments -> {"PENDING", "SETTLED"}]
  /\ subscription \in [Payments -> SubscriptionStatus]
  /\ attempts \in [Payments -> Seq(Attempt)]
  /\ order \in [Payments -> Order]
  /\ config \in [enabled : BOOLEAN, version : Versions]
  /\ pc \in [Requests -> Steps]
  /\ req \in [Requests -> Locals]
  /\ wire \in [Requests -> {"idle", "sent", "created", "rejected"}]

Init ==
  /\ payment = [p \in Payments |-> "PENDING"]
  /\ subscription = [p \in Payments |-> IF p \in Renewals THEN "ACTIVE" ELSE "PENDING"]
  /\ attempts = [p \in Payments |-> <<>>]
  /\ order = [p \in Payments |-> None]
  /\ config = [enabled |-> TRUE, version |-> 1]
  /\ pc = [r \in Requests |-> "idle"]
  /\ req = [r \in Requests |->
              [pay |-> None, att |-> 0, cred |-> 0, got |-> None, recovered |-> FALSE]]
  /\ wire = [r \in Requests |-> "idle"]

-----------------------------------------------------------------------------
Goto(r, step) == pc' = [pc EXCEPT ![r] = step]
PayOf(r) == req[r].pay
AttemptOf(r) == attempts[PayOf(r)][req[r].att]

\* assertEligiblePayment; a renewal leaves PREPARED only once its Payment has
\* left PENDING, so the PREPARED test adds nothing to the test of the Payment.
Eligible(p, allowExpiredRenewal) ==
  /\ payment[p] = "PENDING"
  /\ IF p \in Renewals
       THEN \/ subscription[p] = "ACTIVE"
            \/ allowExpiredRenewal /\ subscription[p] = "EXPIRED"
       ELSE subscription[p] = "PENDING"

SetAttempt(p, i, row) == attempts' = [attempts EXCEPT ![p][i] = row]
HasAttempt(p) == Len(attempts[p]) > 0
Latest(p) == Len(attempts[p])
CanRetryFailedRenewal(p) ==
  p \in Renewals /\ attempts[p][Latest(p)].status = "FAILED"

\* resume(): what a run does with an attempt it did not create, by its status.
ResumeStep(status) ==
  CASE status = "SUCCEEDED" -> "return"
    [] status = "FAILED"    -> "failed"
    [] status = "UNKNOWN"   -> "lookup"
    [] status = "PENDING"   -> "dispatch"

\* MUTANTS stand before the definition each is a plausible slip of.
\* Mutant of ResumeLatest: resumes under the credential of the day.
ResumeLatestCurrent(r) ==
  LET p == PayOf(r)  n == Latest(p) IN
  /\ req' = [req EXCEPT ![r].att = n, ![r].cred = config.version]
  /\ Goto(r, ResumeStep(attempts[p][n].status))

\* Resuming the latest attempt binds the run to that attempt's credential
\* (resolveHistorical), whatever version is current by now.
ResumeLatest(r) ==
  LET p == PayOf(r)  n == Latest(p) IN
  /\ req' = [req EXCEPT ![r].att = n, ![r].cred = attempts[p][n].cred]
  /\ Goto(r, ResumeStep(attempts[p][n].status))

ReturnCurrent(r) ==
  /\ order[PayOf(r)] # None
  /\ req' = [req EXCEPT ![r].got = order[PayOf(r)]]
  /\ Goto(r, "done")

-----------------------------------------------------------------------------
\* prepareInternal: load the Payment and refuse early when it is not eligible.
Begin(r, p) ==
  /\ pc[r] = "idle"
  /\ Eligible(p, FALSE)
  /\ req' = [req EXCEPT ![r].pay = p]
  /\ Goto(r, "current")
  /\ UNCHANGED <<moneyVars, config, wire>>

FindCurrentOrder(r) ==
  /\ pc[r] = "current"
  /\ \/ ReturnCurrent(r)
     \/ order[PayOf(r)] = None /\ Goto(r, "revalidate") /\ UNCHANGED req
  /\ UNCHANGED <<moneyVars, config, wire>>

LockAndRevalidate(r) ==
  /\ pc[r] = "revalidate"
  /\ Goto(r, IF Eligible(PayOf(r), FALSE) THEN "latest" ELSE "failed")
  /\ UNCHANGED <<moneyVars, config, req, wire>>

FindLatestAttempt(r) ==
  /\ pc[r] = "latest"
  /\ IF HasAttempt(PayOf(r)) /\ ~ CanRetryFailedRenewal(PayOf(r))
       THEN ResumeLatest(r)
       ELSE Goto(r, "resolve") /\ UNCHANGED req
  /\ UNCHANGED <<moneyVars, config, wire>>

\* resolveForOperation, outside any transaction: what it read may be retired
\* or disabled by the time the attempt is reserved.
ResolveCredential(r) ==
  /\ pc[r] = "resolve"
  /\ IF config.enabled
       THEN req' = [req EXCEPT ![r].cred = config.version] /\ Goto(r, "reserve")
       ELSE Goto(r, "failed") /\ UNCHANGED req
  /\ UNCHANGED <<moneyVars, config, wire>>

\* Mutant of ReservePermitted: the credential is not checked again.
ReservePermittedUnchecked(r) == Eligible(PayOf(r), FALSE)

ReservePermitted(r) ==
  /\ Eligible(PayOf(r), FALSE)
  /\ config.enabled
  /\ req[r].cred = config.version

\* The unique index on (paymentId, requestReference): the reference is computed
\* from the Payment alone, so it admits one ORDER_CREATE attempt per Payment.
ReferenceFree(p) == ~ HasAttempt(p)

\* reserve(), one transaction.  When a failed renewal may be retried the insert
\* is tried and the unique index refuses it.
Reserve(r) ==
  LET p == PayOf(r) IN
  /\ pc[r] = "reserve"
  /\ \/ /\ ~ ReservePermitted(r)
        /\ Goto(r, "failed")
        /\ UNCHANGED <<attempts, req>>
     \/ /\ ReservePermitted(r)
        /\ ReturnCurrent(r)
        /\ UNCHANGED attempts
     \/ /\ ReservePermitted(r)
        /\ order[p] = None
        /\ HasAttempt(p) /\ ~ CanRetryFailedRenewal(p)
        /\ ResumeLatest(r)
        /\ UNCHANGED attempts
     \/ /\ ReservePermitted(r)
        /\ order[p] = None
        /\ HasAttempt(p) => CanRetryFailedRenewal(p)
        /\ IF ReferenceFree(p)
             THEN /\ attempts' = [attempts EXCEPT ![p] = Append(@,
                       [status |-> "PENDING", cred |-> req[r].cred, order |-> None])]
                  /\ req' = [req EXCEPT ![r].att = Latest(p) + 1]
                  /\ Goto(r, "dispatch")
             ELSE Goto(r, "failed") /\ UNCHANGED <<attempts, req>>
  /\ UNCHANGED <<payment, subscription, order, config, wire>>

\* Mutant of Claim: no compare-and-set.
ClaimBlindly(r) ==
  /\ pc[r] = "dispatch"
  /\ SetAttempt(PayOf(r), req[r].att, [AttemptOf(r) EXCEPT !.status = "UNKNOWN"])
  /\ Goto(r, "send")
  /\ UNCHANGED <<payment, subscription, order, config, req, wire>>

\* dispatch(): claim the attempt by compare-and-set before calling out.  The
\* losing run re-reads it; no status returns to PENDING, so the failed claim
\* and the later read are one step.
Claim(r) ==
  /\ pc[r] = "dispatch"
  /\ IF AttemptOf(r).status = "PENDING"
       THEN /\ SetAttempt(PayOf(r), req[r].att, [AttemptOf(r) EXCEPT !.status = "UNKNOWN"])
            /\ Goto(r, "send")
       ELSE /\ Goto(r, ResumeStep(AttemptOf(r).status))
            /\ UNCHANGED attempts
  /\ UNCHANGED <<payment, subscription, order, config, req, wire>>

Send(r) ==
  /\ pc[r] = "send"
  /\ wire' = [wire EXCEPT ![r] = "sent"]
  /\ Goto(r, "await")
  /\ UNCHANGED <<moneyVars, config, req>>

\* The provider acts on a call whenever it arrives, possibly after its caller
\* timed out or died, or never.
ProviderAnswer(r) ==
  /\ wire[r] = "sent"
  /\ \E outcome \in {"created", "rejected"} : wire' = [wire EXCEPT ![r] = outcome]
  /\ UNCHANGED <<moneyVars, config, pc, req>>

ReceiveOrder(r) ==
  /\ pc[r] = "await"
  /\ wire[r] = "created"
  /\ req' = [req EXCEPT ![r].got = r, ![r].recovered = FALSE]
  /\ Goto(r, "persist")
  /\ UNCHANGED <<moneyVars, config, wire>>

ReceiveRejection(r) ==
  /\ pc[r] = "await"
  /\ wire[r] = "rejected"
  /\ Goto(r, "reject")
  /\ UNCHANGED <<moneyVars, config, req, wire>>

\* Mutant of CallUnknown: a timeout taken for a rejection.
CallUnknownRejected(r) ==
  /\ pc[r] = "await"
  /\ Goto(r, "reject")
  /\ UNCHANGED <<moneyVars, config, req, wire>>

\* Every AMBIGUOUS outcome: timeout, transport error, unverifiable response.
CallUnknown(r) ==
  /\ pc[r] = "await"
  /\ Goto(r, "keep")
  /\ UNCHANGED <<moneyVars, config, req, wire>>

OrdersByReceipt(p) == {s \in Requests : PayOf(s) = p /\ wire[s] = "created"}

\* Mutant of Lookup: takes an order without comparing its receipt.
LookupAny(r) ==
  /\ pc[r] = "lookup"
  /\ \/ \E o \in Requests :
          /\ wire[o] = "created"
          /\ req' = [req EXCEPT ![r].got = o, ![r].recovered = TRUE]
          /\ Goto(r, "persist")
     \/ Goto(r, "keep") /\ UNCHANGED req
  /\ UNCHANGED <<moneyVars, config, wire>>

\* reconcile(): look the receipt up; only exactly one match proves the order.
\* The lookup itself may fail or lag behind, which proves nothing either.
Lookup(r) ==
  /\ pc[r] = "lookup"
  /\ \/ \E o \in Requests :
          /\ OrdersByReceipt(PayOf(r)) = {o}
          /\ req' = [req EXCEPT ![r].got = o, ![r].recovered = TRUE]
          /\ Goto(r, "persist")
     \/ Goto(r, "keep") /\ UNCHANGED req
  /\ UNCHANGED <<moneyVars, config, wire>>

\* persistSuccess(): the evidence it accepts.
Accepted(r) ==
  /\ Eligible(PayOf(r), TRUE)
  /\ \/ order[PayOf(r)] = None /\ AttemptOf(r).status \in Open
     \/ /\ order[PayOf(r)] = req[r].got
        /\ \/ AttemptOf(r).status \in Open
           \/ AttemptOf(r).status = "SUCCEEDED" /\ AttemptOf(r).order = req[r].got

\* Mutant of PersistSuccess: the order row is not upserted.
PersistAttemptOnly(r) ==
  /\ pc[r] = "persist" /\ Accepted(r)
  /\ SetAttempt(PayOf(r), req[r].att,
                [AttemptOf(r) EXCEPT !.status = "SUCCEEDED", !.order = req[r].got])
  /\ Goto(r, "done")
  /\ UNCHANGED <<payment, subscription, order, config, req, wire>>

PersistSuccess(r) ==
  /\ pc[r] = "persist"
  /\ Accepted(r)
  /\ order' = [order EXCEPT ![PayOf(r)] = req[r].got]
  /\ SetAttempt(PayOf(r), req[r].att,
                [AttemptOf(r) EXCEPT !.status = "SUCCEEDED", !.order = req[r].got])
  /\ Goto(r, "done")
  /\ UNCHANGED <<payment, subscription, config, req, wire>>

\* A refusal, or a database error, ends in keepUnknown; only a conflict found
\* while reconciling is rethrown as it is.
PersistRefused(r) ==
  /\ pc[r] = "persist"
  /\ \/ Goto(r, "keep")
     \/ req[r].recovered /\ ~ Accepted(r) /\ Eligible(PayOf(r), TRUE) /\ Goto(r, "failed")
  /\ UNCHANGED <<moneyVars, config, req, wire>>

\* Both failure paths write only while the attempt is still open.
CloseAttempt(r, status) ==
  /\ SetAttempt(PayOf(r), req[r].att,
                [AttemptOf(r) EXCEPT !.status = IF @ \in Open THEN status ELSE @])
  /\ Goto(r, "failed")
  /\ UNCHANGED <<payment, subscription, order, config, req, wire>>

MarkFailed(r) == pc[r] = "reject" /\ CloseAttempt(r, "FAILED")
KeepUnknown(r) == pc[r] = "keep" /\ CloseAttempt(r, "UNKNOWN")

\* resume() of a SUCCEEDED attempt re-reads the current order.
ReturnSucceeded(r) ==
  /\ pc[r] = "return"
  /\ \/ ReturnCurrent(r)
     \/ order[PayOf(r)] = None /\ Goto(r, "failed") /\ UNCHANGED req
  /\ UNCHANGED <<moneyVars, config, wire>>

Crash(r) ==
  /\ pc[r] \notin Final \cup {"idle"}
  /\ Goto(r, "crashed")
  /\ UNCHANGED <<moneyVars, config, req, wire>>

-----------------------------------------------------------------------------
\* The rest of the backend, as far as it moves what prepare() reads.  amend() is not
\* here: it never goes through for a subscription with a Payment (Subscriptions).

\* assertNoUnresolvedRenewalDispatch
UnresolvedDispatch(p) ==
  p \in Renewals /\ \E i \in DOMAIN attempts[p] : attempts[p][i].status \in Open

SetSubscription(p, from, to) ==
  /\ subscription[p] \in from
  /\ subscription' = [subscription EXCEPT ![p] = to]
  /\ UNCHANGED <<payment, attempts, order, config, pc, req, wire>>

Cancel(p) ==
  ~ UnresolvedDispatch(p) /\ SetSubscription(p, {"PENDING", "ACTIVE", "SUSPENDED"}, "CANCELLED")
\* Mutant of Suspend: unresolved renewal dispatches are not looked up.
SuspendAnyway(p) == SetSubscription(p, {"ACTIVE"}, "SUSPENDED")
Suspend(p) == ~ UnresolvedDispatch(p) /\ SetSubscription(p, {"ACTIVE"}, "SUSPENDED")
Resume(p) == SetSubscription(p, {"SUSPENDED"}, "ACTIVE")
Expire(p) == SetSubscription(p, {"ACTIVE", "SUSPENDED"}, "EXPIRED")

\* Verified payment truth moves the Payment only through a recorded order.
Settle(p) ==
  /\ payment[p] = "PENDING"
  /\ order[p] # None
  /\ payment' = [payment EXCEPT ![p] = "SETTLED"]
  /\ UNCHANGED <<subscription, attempts, order, config, pc, req, wire>>

\* configure(): retire the current credential and install its successor.
RotateCredential ==
  /\ config.version < MaxVersion
  /\ config' = [config EXCEPT !.version = @ + 1]
  /\ UNCHANGED <<moneyVars, pc, req, wire>>

SwitchProvider ==
  /\ config' = [config EXCEPT !.enabled = ~ @]
  /\ UNCHANGED <<moneyVars, pc, req, wire>>

RequestStep(r) ==
  \/ \E p \in Payments : Begin(r, p)
  \/ FindCurrentOrder(r) \/ LockAndRevalidate(r) \/ FindLatestAttempt(r)
  \/ ResolveCredential(r) \/ Reserve(r) \/ Claim(r) \/ Send(r)
  \/ ReceiveOrder(r) \/ ReceiveRejection(r) \/ CallUnknown(r) \/ Lookup(r)
  \/ PersistSuccess(r) \/ PersistRefused(r) \/ MarkFailed(r) \/ KeepUnknown(r)
  \/ ReturnSucceeded(r) \/ Crash(r)

SubscriptionStep(p) ==
  Cancel(p) \/ Suspend(p) \/ Resume(p) \/ Expire(p) \/ Settle(p)

Next ==
  \/ \E r \in Requests : RequestStep(r) \/ ProviderAnswer(r)
  \/ \E p \in Payments : SubscriptionStep(p)
  \/ RotateCredential \/ SwitchProvider

Spec == Init /\ [][Next]_vars
-----------------------------------------------------------------------------
Called(r) == wire[r] # "idle"

\* At most one createOrder call is ever made for a Payment, however many runs,
\* timeouts and crashes there are: the provider has no idempotency key, so a
\* second call could open a second order for the same money.  Claim's
\* compare-and-set and the attempt reserved under the Payment lock ensure it.
SingleDispatch ==
  \A r, s \in Requests : Called(r) /\ Called(s) /\ PayOf(r) = PayOf(s) => r = s

\* A recorded order was really made at the provider, for this Payment, and a
\* SUCCEEDED attempt carries it as its evidence; conversely a SUCCEEDED attempt
\* always has its order recorded.
OrderProven ==
  \A p \in Payments :
    /\ order[p] # None => /\ order[p] \in OrdersByReceipt(p)
                          /\ \E i \in DOMAIN attempts[p] : attempts[p][i].order = order[p]
    /\ \A i \in DOMAIN attempts[p] :
         attempts[p][i].status = "SUCCEEDED" =>
           order[p] # None /\ attempts[p][i].order = order[p]

\* "Definitively rejected" is final: no order exists for the Payment, none will,
\* and none is recorded, although answers, timeouts and reconciliations race.
RejectionFinal ==
  \A p \in Payments :
    (\E i \in DOMAIN attempts[p] : attempts[p][i].status = "FAILED") =>
      /\ order[p] = None
      /\ \A r \in Requests : PayOf(r) = p /\ Called(r) => wire[r] = "rejected"

\* While a renewal's dispatch is unresolved its subscription cannot be
\* cancelled or suspended, so an order the provider did make can still be recorded
\* (persistSuccess would accept it).
RenewalDispatchHeld ==
  \A p \in Renewals : UnresolvedDispatch(p) => Eligible(p, TRUE)

\* A call is signed with the credential version bound to its attempt, whatever
\* rotation happened since: otherwise later recovery, which uses the bound
\* version, would look for the order under another account key.
CallUsesBoundCredential ==
  \A r \in Requests : Called(r) => AttemptOf(r).cred = req[r].cred

\* Runs that answer, answer with the Payment's one current order.
AnswersAgree ==
  \A r \in Requests : pc[r] = "done" => order[PayOf(r)] = req[r].got /\ req[r].got # None

\* A new attempt is bound to a credential that is current and enabled when it is
\* reserved, although the credential was read before the reservation's locks.
ReservedOnCurrentCredential ==
  [][\A p \in Payments : Len(attempts'[p]) > Len(attempts[p]) =>
       config.enabled /\ attempts'[p][Len(attempts'[p])].cred = config.version]_vars

\* What payment-provider-orders.service.spec.ts:132 says: a definitely failed
\* renewal order is retried with a new attempt.  Reserving the retry on an
\* eligible Payment must therefore not end in an error.
FailedRenewalRetried ==
  [][\A r \in Requests :
       /\ pc[r] = "reserve" /\ pc'[r] = "failed"
       /\ HasAttempt(PayOf(r)) /\ CanRetryFailedRenewal(PayOf(r))
       => ~ ReservePermitted(r)]_vars

-----------------------------------------------------------------------------
(* The inductive invariant behind the safety properties above.             *)

OneAttempt == \A p \in Payments : Len(attempts[p]) <= 1

BeforeCall ==
  {"idle", "current", "revalidate", "latest", "resolve", "reserve", "dispatch", "send"}

\* A run owns its Payment's only call from the claim on, even once it is over.
Owns(r) == pc[r] = "send" \/ Called(r)

LocalsCoherent ==
  \A r \in Requests :
    /\ pc[r] # "idle" => PayOf(r) \in Payments
    /\ pc[r] \in BeforeCall => ~ Called(r)
    /\ pc[r] = "reserve" => req[r].cred \in Versions
    /\ pc[r] \in Holding \/ Called(r) => req[r].att = 1 /\ Len(attempts[PayOf(r)]) = 1
    /\ pc[r] = "dispatch" \/ Owns(r) => AttemptOf(r).cred = req[r].cred
    /\ Owns(r) => AttemptOf(r).status # "PENDING"
    /\ pc[r] = "persist" => req[r].got \in OrdersByReceipt(PayOf(r))
    /\ pc[r] = "reject" => wire[r] = "rejected"

SingleOwner ==
  \A r, s \in Requests : Owns(r) /\ Owns(s) /\ PayOf(r) = PayOf(s) => r = s

EvidenceOfSuccess ==
  \A p \in Payments : \A i \in DOMAIN attempts[p] :
    attempts[p][i].order # None => attempts[p][i].status = "SUCCEEDED"

OwnersRejected ==
  \A p \in Payments :
    (\E i \in DOMAIN attempts[p] : attempts[p][i].status = "FAILED") =>
      /\ order[p] = None
      /\ \A r \in Requests : PayOf(r) = p /\ Owns(r) => wire[r] = "rejected"

IndInv ==
  /\ TypeOK
  /\ OneAttempt
  /\ LocalsCoherent
  /\ SingleOwner
  /\ OrderProven
  /\ EvidenceOfSuccess
  /\ OwnersRejected
  /\ RenewalDispatchHeld
  /\ AnswersAgree
=============================================================================
