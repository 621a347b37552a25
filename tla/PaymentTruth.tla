---------------------------- MODULE PaymentTruth ----------------------------
(***************************************************************************)
(* What the webhook component promises about Payments, whatever order the  *)
(* provider's events arrive in, however often, and whoever processes them: *)
(* a Payment only ever moves towards CAPTURED, a capture is final and      *)
(* keeps its provider payment identity, and no identity pays twice.        *)
(***************************************************************************)
CONSTANTS Payments, Identities, None

VARIABLES
  status,     \* Payment.status
  identity    \* Payment.capturedProviderPaymentId

Init ==
  /\ status = [p \in Payments |-> "PENDING"]
  /\ identity = [p \in Payments |-> None]

Authorize(p) ==
  /\ status[p] = "PENDING"
  /\ status' = [status EXCEPT ![p] = "AUTHORIZED"]
  /\ UNCHANGED identity

Fail(p) ==
  /\ status[p] \in {"PENDING", "AUTHORIZED"}
  /\ status' = [status EXCEPT ![p] = "FAILED"]
  /\ UNCHANGED identity

Capture(p, i) ==
  /\ status[p] # "CAPTURED"
  /\ \A q \in Payments : identity[q] # i
  /\ status' = [status EXCEPT ![p] = "CAPTURED"]
  /\ identity' = [identity EXCEPT ![p] = i]

Next ==
  \E p \in Payments :
    Authorize(p) \/ Fail(p) \/ \E i \in Identities : Capture(p, i)

Spec == Init /\ [][Next]_<<status, identity>>
=============================================================================
