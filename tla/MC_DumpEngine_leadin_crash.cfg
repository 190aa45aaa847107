CONSTANTS
  Samples = 2
  Sessions <- MCSessions
  PregapStart <- MCPregapStart
  MsfLbaShift <- MCMsfLbaShift
  LeadinMax = 1
  NoOption = NoOption
  LbaStartOption = NoOption
  LbaEndOption = NoOption
  SkipRanges <- MCSkipRanges
  DiscEnd = 7
  Damaged = {2, 3, 5, 6}
  QDamaged = {6}
  Retries = 2
  RefineSubchannel = FALSE
  DriveTypes = {"PLEXTOR"}
  AsusSkipLeadout = FALSE
  AsusEntries = 0
  MaxPasses = 1
  CounterModulus = 65536
  Interrupts = FALSE
  Crashes = TRUE

SPECIFICATION Spec
CHECK_DEADLOCK FALSE

INVARIANT SuccessDataIntact
