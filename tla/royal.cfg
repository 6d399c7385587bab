CONSTANTS
  p1 = p1
  p2 = p2
  Players = {p1, p2}
  Maluses = {"blocked", "inverted", "dark"}
  Rows = 1
  Habits <- Uneven
  MaxUnread = 0
SPECIFICATION Spec
CHECK_DEADLOCK FALSE
INVARIANT TypeOK
INVARIANT Ledger
INVARIANT ShownWhileItLasts
INVARIANT PaidIsGranted
PROPERTY BlockEnds
