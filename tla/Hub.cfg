CONSTANTS
  w = w
  a = a
  b = b
  u1 = u1
  u2 = u2
  s1 = s1
  Conns <- MCConns
  Users <- MCUsers
  Servers <- MCServers
  Owner <- MCOwner
  Watchers <- OnlyW
  Workloads <- AllWorkloads
  MaxAdmin = 2
SPECIFICATION HubSpec
INVARIANTS IndexExact PresenceTrue
CHECK_DEADLOCK FALSE
