\* Two QoS 1 messages of two threads through a fault, a wait list of two.
SPECIFICATION Spec
CONSTANTS
  p1 = p1
  p2 = p2
  m1 = m1
  m2 = m2
  Yield = Yield
  NoThread = NoThread
  NoMsg = NoMsg
  NoPacket = NoPacket
  Publishers <- MCPublishers
  Messages <- MCMessages2
  Qos0 = {}
  REPUB_NUM_MAX = 2
  PACKET_ID_MAX = 2
  TakenIds = 1
  CONNECT_TRIES = 2
  MaxFaults = 1
  MaxInFlight = 1
INVARIANTS
  NoLoss
  ConfirmedOnlyReceived
  ConnectedMeansSession
  NoOrphanNode
PROPERTIES
  EventuallyDrained
  ImplementsAtLeastOnce
