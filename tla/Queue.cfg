CONSTANTS
  c1 = c1
  c2 = c2
  Channels <- Both
  Cap = 3
  Burst = 2
  Clients <- MCClients
  MaxN = 3
SPECIFICATION QueueSpec
INVARIANTS NoLostWakeup OrdinaryGetsATurn
PROPERTIES NothingLost
CHECK_DEADLOCK FALSE
