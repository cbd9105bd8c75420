SPECIFICATION FairPollSpec
CONSTANTS
  MaxUpdates = 4
  MaxErrors = 2
  MaxBotRestarts = 2
INVARIANTS
  PollTypeOK
  StartedInOrder
PROPERTIES
  EveryUpdateStarts
CHECK_DEADLOCK FALSE
