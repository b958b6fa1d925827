\* The two sides of one transfer, read rightly and mapped by a reviewer.
CONSTANTS
  none = none
  None <- none
  YearDays = 10
  LeapDay = 5
  Decimals <- MCDecimals
  Screens <- MCScreens
  Worlds <- TransferWorlds
  Profiles <- MCProfiles
  Kinds = {"one"}
  MaxFaults = 0
  MaxTouched = 2
  Slip = 5
  Alike <- MCAlike
  Cap = 2
  BacklogLimit = 1
SPECIFICATION Spec
INVARIANT TransferFound
CHECK_DEADLOCK FALSE
