CONSTANTS
  Samples = 2
  Sessions <- MCSessions
  PregapStart <- MCPregapStart
  MsfLbaShift <- MCMsfLbaShift
  LeadinMax = 1
  NoOption = NoOption
  LbaStartOption = NoOption
  LbaEndOption = NoOption
  SkipRanges <- MCSkipRanges
  DiscEnd = 7
  Damaged = {2, 5}
  QDamaged = {6}
  Retries = 2
  RefineSubchannel = TRUE
  DriveTypes = {"PLEXTOR", "LG_ASUS"}
  AsusSkipLeadout = FALSE
  AsusEntries = 2
  MaxPasses = 2
  CounterModulus = 65536
  Interrupts = TRUE
  Crashes = FALSE

SPECIFICATION Spec
CHECK_DEADLOCK FALSE

INVARIANT SuccessDataIntact
INVARIANT CountersMatchStreams
PROPERTY Termination
