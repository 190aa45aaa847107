CONSTANTS
  C2Size = 2
  Shifts = {0, 1, 2, 3, 5}
  Lbas = {0, 1}
  Bytes = {0, 1, 16, 129, 255}
  Orders = {"DATA_C2_SUB", "DATA_SUB"}

INIT Init
NEXT Next
CHECK_DEADLOCK FALSE

INVARIANT TypeOK
INVARIANT C2StatesMatchDisc
