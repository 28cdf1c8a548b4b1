SPECIFICATION FairSpec
CONSTANTS
  Msgs = {m1, m2}
  Questions = {q1}
  Conns = {c1, c2}
  Procs = {p1}
  MaxQueue = 2
  MaxFaults = 1
  MaxAuto = 0
  Lingering = TRUE
  None = None
PROPERTY QueueDrains
PROPERTY BusySettles
PROPERTY QuestionsSettle
