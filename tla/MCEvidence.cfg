\* Bank and card screens of one or two events, one token of them read wrongly.
CONSTANTS
  none = none
  None <- none
  YearDays = 10
  LeapDay = 5
  Decimals <- MCDecimals
  Screens <- MCScreens
  Worlds <- MCWorlds
  Profiles <- MCProfiles
  Kinds = {"one", "both", "lost", "moved", "swapped", "odd", "alone"}
  MaxFaults = 1
  MaxTouched = 2
  Slip = 5
  Alike <- MCAlike
  Cap = 2
  BacklogLimit = 1
SPECIFICATION Spec
INVARIANTS SilentRowsTrue EveryRowKept OverlapFound AutoMergeSafe RefundFound UnaskedTrue QueueTells
CHECK_DEADLOCK FALSE
