CONSTANTS
  People = {p1, p2}
  NoOne = id0
SPECIFICATION Spec
CHECK_DEADLOCK FALSE
INVARIANT TypeOK
INVARIANT Mutual
INVARIANT NoRequestBetweenFriends
PROPERTY MenuAnswered
PROPERTY Consent
