SPECIFICATION FairSpec
CONSTANTS
  Workers = {w1, w2}
  MaxTurns = 2
  Fallbacks = {"none", "other", "same"}
  Failures = {"spawn", "write", "kill"}
CHECK_DEADLOCK FALSE
INVARIANTS TypeOK OneAgentDriven AgentsStoppedBeforeAfterRun RunsAreBounded
           PartialWorkspaceHasCause
PROPERTIES NoTurnForInactiveIssue WorkerReturns
