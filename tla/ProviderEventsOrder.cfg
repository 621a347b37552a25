SPECIFICATION FairSpec
CONSTANTS
  p1 = p1
  p2 = p2
  idA = idA
  idB = idB
  authorized = authorized
  failed = failed
  captured = captured
  rival = rival
  second = second
  web = web
  cron = cron
  None = None
  Payments <- OneOrderPayments
  Events <- OneOrderEvents
  PaymentOf <- OneOrderPaymentOf
  Truth <- OneOrderTruth
  IdentityOf <- OneOrderIdentityOf
  Identities <- BothIdentities
  Handlers <- OneHandler
  Recoverers <- OneRecoverer
  MaxAttempts = 2
  MaxCrashes = 1
INVARIANTS
  OrderIndependent
  GivenUpOnlyAtMaximum
PROPERTIES
  ImplementsPaymentTruth
  EventComesToRest
  CaptureIsAnswered
