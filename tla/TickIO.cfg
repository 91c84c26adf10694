SPECIFICATION FairSpec
CONSTANTS
  Issues = {1, 2}
  PageSize = 1
  Slots = 2
  MaxZombies = 1
  MaxJobs = 3
INVARIANTS TypeOK OneGitAtATime UnpushedHasCause NotesAreShared
PROPERTIES NoIssueOverlooked TickEnds
