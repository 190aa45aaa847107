CONSTANTS
  LbaStart = 0
  LbaEnd = 3
  DiscEnd = 4
  Desyncs = {0, 1}
  Retries = 2
  MaxPasses = 3
  CounterModulus = 65536

SPECIFICATION Spec
CHECK_DEADLOCK FALSE

INVARIANT TypeOK
 
PROPERTY Termination
