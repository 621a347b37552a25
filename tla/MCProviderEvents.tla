-------------------------- MODULE MCProviderEvents --------------------------
(* Model-checking instances of ProviderEvents.                               *)
EXTENDS ProviderEvents, TLC

CONSTANTS p1, p2, idA, idB, authorized, failed, captured, rival, second, web, cron

\* One Payment that failed and was captured, told in either order; the customer
\* retried, so the capture carries another provider payment.
OneOrderPayments == {p1}
OneOrderEvents == {failed, captured}
OneOrderPaymentOf == [e \in OneOrderEvents |-> p1]
OneOrderTruth == failed :> "FAILED" @@ captured :> "CAPTURED"
OneOrderIdentityOf == failed :> idA @@ captured :> idB

\* Two Payments of one company: both claimed by provider payment idA, the first
\* authorized before, and the second captured in its own right as well.
RivalPayments == {p1, p2}
RivalEvents == {authorized, captured, rival, second}
RivalPaymentOf == [e \in RivalEvents |-> IF e \in {authorized, captured} THEN p1 ELSE p2]
RivalTruth == [e \in RivalEvents |-> IF e = authorized THEN "AUTHORIZED" ELSE "CAPTURED"]
RivalIdentityOf == [e \in RivalEvents |-> IF e = second THEN idB ELSE idA]

BothIdentities == {idA, idB}
OneHandler == {web}
OneRecoverer == {cron}
=============================================================================
