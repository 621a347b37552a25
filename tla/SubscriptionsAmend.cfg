SPECIFICATION Spec
CONSTANTS
  s1 = s1
  s2 = s2
  admin = admin
  None = None
  Subs <- TwoSubs
  Admins <- OneAdmin
  Period = 2
  Horizon = 2
  MaxEnd = 6
INVARIANTS
  PermittedIsAmended
CHECK_DEADLOCK FALSE
