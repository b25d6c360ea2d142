\* Upgrades announced, downloaded, failing and announced again.
SPECIFICATION Spec
CONSTANTS
  f1 = f1
  f2 = f2
  c1 = c1
  NoFile = NoFile
  Firmwares <- MCFirmwares
  Configs <- MCConfigs
  Size <- MCSize
  MaxAnnouncements = 4
  MaxWriteFaults = 1
  MaxFaults = 3
INVARIANTS
  AcceptedFirmwareWasWritten
  DownloadIsOfOneAnnouncement
PROPERTIES
  EveryUpgradeIsTried
CHECK_DEADLOCK FALSE
