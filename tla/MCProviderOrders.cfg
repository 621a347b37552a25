SPECIFICATION Spec
CONSTANTS
  pay1 = pay1
  pay2 = pay2
  r1 = r1
  r2 = r2
  r3 = r3
  None = None
  Payments <- TwoPayments
  Renewals <- OneRenewal
  Requests <- ThreeRequests
  MaxVersion = 2
SYMMETRY RequestSymmetry
INVARIANTS
  SingleDispatch
  OrderProven
  RejectionFinal
  RenewalDispatchHeld
  CallUsesBoundCredential
  AnswersAgree
PROPERTIES
  ReservedOnCurrentCredential
CHECK_DEADLOCK FALSE
