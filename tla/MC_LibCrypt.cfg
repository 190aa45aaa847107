CONSTANTS
  LBA_START <- MCLbaStart
  TrackSizes <- MCTrackSizes
  SubBad <- MCSubBad

INIT Init
NEXT Next
CHECK_DEADLOCK FALSE

INVARIANT TypeOK
INVARIANT ReportIsMatchingPairs
