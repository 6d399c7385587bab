CONSTANTS
  p1 = p1
  p2 = p2
  People = {p1, p2}
  Friends <- Couple
  NoOne = none
  Texts = {"hello", "Message sent"}
  Confirmation = "Message sent"
  Saved <- OneMessage
  MAX_CHAT_MESSAGES = 2
  MaxTyped = 3
SPECIFICATION Spec
CHECK_DEADLOCK FALSE
INVARIANT TypeOK
INVARIANT ScreenIsHistory
INVARIANT InOrder
PROPERTY Delivered
PROPERTY GetsBack
