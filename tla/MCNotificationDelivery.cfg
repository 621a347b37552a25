SPECIFICATION FairSpec
CONSTANTS
  d1 = d1
  w1 = w1
  w2 = w2
  b1 = b1
  None = None
  Deliveries <- OneDelivery
  Verifications <- OneDelivery
  Workers <- TwoWorkers
  Bootstraps <- OneBootstrap
  MaxAttempts = 3
  BatchLimit = 2
  EnvironmentMail = FALSE
INVARIANTS
  LeaseExclusive
  QuarantineHolds
PROPERTIES
  TerminalIsFinal
  RetryComes
