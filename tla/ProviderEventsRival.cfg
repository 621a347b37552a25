SPECIFICATION Spec
CONSTANTS
  p1 = p1
  p2 = p2
  idA = idA
  idB = idB
  authorized = authorized
  failed = failed
  captured = captured
  rival = rival
  second = second
  web = web
  cron = cron
  None = None
  Payments <- RivalPayments
  Events <- RivalEvents
  PaymentOf <- RivalPaymentOf
  Truth <- RivalTruth
  IdentityOf <- RivalIdentityOf
  Identities <- BothIdentities
  Handlers <- OneHandler
  Recoverers <- OneRecoverer
  MaxAttempts = 1
  MaxCrashes = 1
INVARIANTS
  LiveIsPaid
PROPERTIES
  ImplementsPaymentTruth
