SPECIFICATION FairSpec
CONSTANTS
  Sides <- MCSides
  MaxAplist = 2
  MaxStarts = 1
  MaxStops = 1
  MaxSwitches = 1
INVARIANTS
  StartedMeansOnRouter
PROPERTIES
  NoHotspotTwice
  ReceivedIsUsed
  EveryStopReturns
CHECK_DEADLOCK FALSE
