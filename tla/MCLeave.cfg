SPECIFICATION Spec
CONSTANTS
  ann = ann
  bob = bob
  annual = annual
  r1 = r1
  r2 = r2
  c1 = c1
  c2 = c2
  None = None
  People <- Two
  Types <- OneType
  Requests <- TwoRequests
  Legacy <- OneLegacy
  Calls <- TwoCalls
  Days <- TurnOfYear
  YearOf <- CalendarYear
  Hired <- AnnAndBob
  MaxChanges = 2
SYMMETRY CallSymmetry
INVARIANTS
  NoOverlap
  OneDecision
  BalanceMatches
PROPERTIES
  DecidedByAuthority
CHECK_DEADLOCK FALSE
