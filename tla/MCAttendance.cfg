SPECIFICATION FairSpec
CONSTANTS
  s1 = s1
  b1 = b1
  k1 = k1
  c1 = c1
  cron = cron
  hr = hr
  heartbeat = heartbeat
  None = None
  Sessions <- OneSession
  Breaks <- OneBreak
  Corrections <- OneCorrection
  Clients <- OneClient
  Evaluators <- OneEvaluator
  Reviewers <- OneReviewer
  Sources <- OneSource
  Requestable <- SomeTimes
  DayLength = 3
  ShiftLength = 1
  Grace = 1
  PostShift = 1
  MaxOpen = 3
  Fallback = 2
  Allowed = 1
  Several = FALSE
  MaxTime = 4

  
PROPERTIES
  StaleOnlyClosesOpen
  DecidedOnce
  AbandonedIsClosed
CHECK_DEADLOCK FALSE
