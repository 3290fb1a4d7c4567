CONSTANTS
  a = a
  b = b
  d = d
  ch1 = ch1
  ch2 = ch2
  v1 = v1
  v2 = v2
  Conns <- MCConns
  Channels <- MCChannels
  MaxPublishers = 2
  MaxViewers = 1
  Workloads <- MCWorkloads
SPECIFICATION MCSpec
SYMMETRY Interchangeable
INVARIANTS TablesExact StreamsRight NobodyStuck ViewersServed
CHECK_DEADLOCK FALSE
