SPECIFICATION Spec
CONSTANTS
  s1 = s1
  s2 = s2
  admin = admin
  None = None
  Subs <- TwoSubs
  Admins <- OneAdmin
  Period = 2
  Horizon = 3
  MaxEnd = 6
SYMMETRY SubSymmetry
INVARIANTS
  OneLive
  BoundaryHolds
  HistoryReconciles
PROPERTIES
  OnlyLateRenewalJoinsTrial
  AmendsWhatItRead
CHECK_DEADLOCK FALSE
