SPECIFICATION FairSpec
CONSTANTS
  c1 = c1
  c2 = c2
  Conns = {c1, c2}
  NoConn = NoConn
  MaxClients = 1
  Backlog = 2
  Holdoff = 1
  MaxSends = 1
  Events <- AllEvents
PROPERTIES ZombieIsDeleted DisconnectIsTold BacklogDrains
CHECK_DEADLOCK FALSE
