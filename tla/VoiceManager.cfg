CONSTANTS
  c1 = c1
  c2 = c2
  c3 = c3
  x = x
  y = y
  Conns <- ThreeConns
  Channels <- MCChannels
  MaxParticipants = 2
  MaxJoins = 3
SPECIFICATION Spec
SYMMETRY Interchangeable
INVARIANTS Capacity OneRoomPerChannel
PROPERTIES NothingKept KeepsPromise
CHECK_DEADLOCK FALSE
