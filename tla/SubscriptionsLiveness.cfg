SPECIFICATION FairSpec
CONSTANTS
  s1 = s1
  s2 = s2
  admin = admin
  None = None
  Subs <- TwoSubs
  Admins <- NoAdmin
  Period = 1
  Horizon = 2
  MaxEnd = 3
PROPERTIES
  CapturedRenewalAnswered
  ElapsedIsExpired
CHECK_DEADLOCK FALSE
