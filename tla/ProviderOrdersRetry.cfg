SPECIFICATION Spec
CONSTANTS
  pay1 = pay1
  pay2 = pay2
  r1 = r1
  r2 = r2
  r3 = r3
  None = None
  Payments <- OneRenewal
  Renewals <- OneRenewal
  Requests <- ThreeRequests
  MaxVersion = 1
PROPERTIES
  FailedRenewalRetried
CHECK_DEADLOCK FALSE
