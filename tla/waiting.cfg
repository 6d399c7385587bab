CONSTANTS
  lea = lea
  ann = ann
  bob = bob
  People = {lea, ann, bob}
  Leader = lea
  Sizes = {1, 2}
  Budgets <- ThreeBudgets
SPECIFICATION Spec
CHECK_DEADLOCK FALSE
INVARIANT TypeOK
INVARIANT Roster
INVARIANT NobodyLeftBehind
INVARIANT StartedByLeader
PROPERTY WaitEnds
PROPERTY MenuAnswered
