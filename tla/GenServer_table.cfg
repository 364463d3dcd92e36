SPECIFICATION Spec
CONSTANTS
  c1 = c1
  c2 = c2
  c3 = c3
  Conns = {c1, c2, c3}
  NoConn = NoConn
  MaxClients = 2
  Backlog = 2
  Holdoff = 0
  MaxSends = 1
  Events <- AllEvents
INVARIANTS TypeOK ClientCount SlotsConsistent CallerOwnsSlot
PROPERTIES ImplementsRegistry ZombieIsSilent
CHECK_DEADLOCK FALSE
