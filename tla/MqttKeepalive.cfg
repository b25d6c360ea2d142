\* Pings, detection of a dead link and backoff across the wrap of the clock.
SPECIFICATION Spec
CONSTANTS
  CLOCK <- MCCLOCK
  KeepAlive <- MCKeepAlive
  IntervalMin = 1
  IntervalMax = 3
  PROBE_MAX = 1
  CycleTime = 1
  AppGap = 1
  Rtt = 1
  MaxOutages = 2
  MaxStale = 1
  Horizon = 9
INVARIANT
  LinkWatched
PROPERTY
  SettlesConnected
