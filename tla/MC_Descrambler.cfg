CONSTANTS
  TestLbas <- MCTestLbas
  NoLba = NoLba
  TableLen = 160

INIT Init
NEXT Next
CHECK_DEADLOCK FALSE

INVARIANT TypeOK
INVARIANT RestoreOnFailure
INVARIANT NoDoubleDescramble
INVARIANT TableMatchesEcma
