\* The byte streams of the MQTT client against the MQTT standard.
SPECIFICATION WireSpec
CONSTANTS
  SendMax = 140
  ReadMax = 140
  WAIT_CONNACK_MAX = 1
  TopicMax = 5
  MaxFilter = 5
  MaxName = 4
  Login <- MCLogin
  Environments <- MCEnvironments
INVARIANTS
  InStep
  RequestsWhole
  FilterServed
PROPERTIES
  CutIsEnded
CHECK_DEADLOCK FALSE
