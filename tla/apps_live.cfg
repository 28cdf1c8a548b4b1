SPECIFICATION FairSpec
CONSTANTS
  Apps = {1}
  Manual = {}
  MaxPanes = 4
  Requests = {u1}
  MaxAttempts = 1
  MaxActs = 1
  MaxFaults = 1
PROPERTY EnabledIsServed
PROPERTY StoppedComesDown
