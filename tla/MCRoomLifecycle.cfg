\* Two connections: creation, idle removal and shutdown against each other.
SPECIFICATION FairSpec
CONSTANTS
  Conns = {c1, c2}
  None = None
  Main = Main
  Broker = Broker
INVARIANTS
    NoOrphanRoom
PROPERTIES
    IdleRoomRemoved
    EveryoneAdmitted
    BufferDrained
CHECK_DEADLOCK FALSE
