SPECIFICATION FairSpec
CONSTANTS
  MaxTurns = 3
  MaxLines = 2
  MaxStale = 2
CHECK_DEADLOCK FALSE
INVARIANTS TypeOK NoReaderWhileBuffered NoStaleReaderForResponses StreamsTheTurnAskedFor
           ClosedWakesReaders
PROPERTIES ImplementsSession TurnEnds SessionStops
