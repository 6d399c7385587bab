CONSTANTS
  p1 = p1
  p2 = p2
  People = {p1, p2}
  Friends <- Couple
  NoOne = none
  Texts = {"hello"}
  Confirmation = "Message sent"
  Saved <- OneMessage
  MAX_CHAT_MESSAGES = 5
  MaxTyped = 2
SPECIFICATION Spec
CHECK_DEADLOCK FALSE
INVARIANT Opens
