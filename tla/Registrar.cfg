\* Two devices that want the password, a table of two places, one fault.
SPECIFICATION FairRegistrarSpec
CONSTANTS
  Devices = {d1, d2}
  NoDevice = nobody
  Slots = 2
  MaxCheckins = 1
  MaxAnswers = 1
  MaxFaults = 1
INVARIANT
  PasswordOnlyToAdmitted
PROPERTY
  EachIsServed
CHECK_DEADLOCK FALSE
