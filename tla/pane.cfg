SPECIFICATION FairSpec
CONSTANTS
  MaxAttempts = 2
  OldPtyd = TRUE
  None = None
  MaxFaults = 2
  MaxActs = 2
  Lingering = TRUE
INVARIANTS GaveUpHoldsNothing 
PROPERTIES OutageSpendsNothing QueueMoves WatchedIsServed LostKillRetried
CHECK_DEADLOCK FALSE
