SPECIFICATION Spec
CONSTANTS
  Apps = {1}
  Manual = {}
  MaxPanes = 3
  Requests = {u1}
  MaxAttempts = 1
  MaxActs = 2
  MaxFaults = 0
INVARIANT NoPaneIsLost
