CONSTANTS
  A = A
  B = B
  Discs = {A, B}
  DiscTracks <- MCDiscTracks
  Crashes = TRUE

INIT Init
NEXT Next

INVARIANT TypeOK
INVARIANT AtMostOneDataFile
INVARIANT StreamsOfTocDisc
PROPERTY NoLossWithoutOverwrite
