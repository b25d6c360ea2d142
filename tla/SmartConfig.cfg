SPECIFICATION Spec
CONSTANTS
  Messages <- MCMessages
  Known <- MCKnown
  GroupNumber = 8
  MaxPkgNums = 32
  FirstSn = 4090
  FirstPlaces = {5}
  Deaf <- MCDeaf
  Patience = 3
  MaxFaults = 2
INVARIANTS
  ReceivedIsSent
  SoonReceived
CHECK_DEADLOCK FALSE
