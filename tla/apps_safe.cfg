SPECIFICATION Spec
CONSTANTS
  Apps = {1, 2}
  Manual = {2}
  MaxPanes = 6
  Requests = {u1}
  MaxAttempts = 1
  MaxActs = 1
  MaxFaults = 2
INVARIANTS PanesArePointedTo TornDownStaysDown
PROPERTY OnlyTheDeadAreCounted
