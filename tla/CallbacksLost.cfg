SPECIFICATION Spec
CONSTANTS
  i1 = i1  i2 = i2
  w1 = w1  w2 = w2  w3 = w3
  c1 = c1  c2 = c2  r1 = r1  r2 = r2
  None = None
  Issues = {i1}
  WorkerIds = {w1, w2}
  CallIds = {c1}
  RunIds = {r1}
  ActiveStates = {"todo"}
  StateLimit <- MCStateLimit
  Limits = {1, 2}
  AttemptCap = 1
  MaxZombies = 1
  Closable = {}
  StallDetection = FALSE
  MissionControl = TRUE
CHECK_DEADLOCK FALSE
PROPERTY EndedRunsAreReported
