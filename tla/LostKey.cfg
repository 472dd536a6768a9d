\* One fault: a crash while a rollback restores the state.
CONSTANTS
  MaxUpdates = 1
  MaxFaults = 1
SPECIFICATION FairSpec
PROPERTY Settles
CHECK_DEADLOCK FALSE
