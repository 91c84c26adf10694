SPECIFICATION Spec
CONSTANTS
  MaxTurns = 1
  MaxLines = 2
  MaxStale = 1
CHECK_DEADLOCK FALSE
INVARIANT TimeoutMeansSilence
