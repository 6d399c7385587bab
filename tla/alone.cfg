CONSTANTS
  lea = lea
  ann = ann
  bob = bob
  People = {lea, ann, bob}
  Leader = lea
  Sizes = {2}
  Budgets <- Restless
SPECIFICATION Spec
CHECK_DEADLOCK FALSE
INVARIANT NobodyPlaysAlone
