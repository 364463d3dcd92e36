SPECIFICATION Spec
CONSTANTS
  c1 = c1
  c2 = c2
  Conns = {c1, c2}
  NoConn = NoConn
  MaxClients = 2
  Backlog = 2
  Holdoff = 0
  MaxSends = 1
  Events = {}
INVARIANTS KeepaliveIsSet
CHECK_DEADLOCK FALSE
