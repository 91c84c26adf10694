SPECIFICATION Spec
CONSTANTS
  Workers = {w1, w2}
  MaxTurns = 2
  Fallbacks = {"none", "other"}
  Failures = {}
CHECK_DEADLOCK FALSE
INVARIANT LostOnlyByKill
