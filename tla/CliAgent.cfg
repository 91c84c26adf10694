SPECIFICATION FairSpec
CONSTANTS
  MaxTurns = 3
  MaxLines = 2
CHECK_DEADLOCK FALSE
INVARIANTS TypeOK EndedTurnHasNoChild
PROPERTIES ImplementsSession TurnEnds SessionStops
