CONSTANTS
  Samples = 2
  Sessions <- MCSessions
  PregapStart <- MCPregapStart
  MsfLbaShift <- MCMsfLbaShift
  LeadinMax = 1
  NoOption = NoOption
  LbaStartOption = NoOption
  LbaEndOption = NoOption
  SkipRanges <- MCSkipRanges
  DiscEnd = 7
  Damaged = {2, 5, 6}
  QDamaged = {6}
  Retries = 2
  RefineSubchannel = FALSE
  DriveTypes = {"GENERIC"}
  AsusSkipLeadout = FALSE
  AsusEntries = 0
  MaxPasses = 3
  CounterModulus = 65536
  Interrupts = FALSE
  Crashes = TRUE

SPECIFICATION Spec
CHECK_DEADLOCK FALSE

INVARIANT TypeOK
INVARIANT SuccessDataIntact
INVARIANT CountersMatchStreams
INVARIANT SkipRefineSound
INVARIANT ReadsWithinBudget
PROPERTY Termination
PROPERTY StoreRefinement
