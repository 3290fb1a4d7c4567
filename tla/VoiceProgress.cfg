CONSTANTS
  a1 = a1
  a2 = a2
  b1 = b1
  u1 = u1
  u2 = u2
  x = x
  y = y
  s1 = s1
  s2 = s2
  s3 = s3
  Users <- MCUsers
  Channels <- MCChannels
  Owner <- MCOwner
  Conns <- OneUser
  Loads <- Progress
  Parts = {"roster"}
SPECIFICATION MCFairSpec
PROPERTIES EveryoneProceeds
CHECK_DEADLOCK FALSE
