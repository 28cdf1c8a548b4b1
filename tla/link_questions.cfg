SPECIFICATION Spec
CONSTANTS
  Msgs = {m1}
  Questions = {q1, q2}
  Conns = {c1, c2}
  Procs = {p1, p2}
  MaxQueue = 1
  MaxFaults = 1
  MaxAuto = 1
  Lingering = FALSE
  None = None
SYMMETRY Interchangeable
INVARIANT CardIsFront
INVARIANT CardNeverLost
INVARIANT StampUnspent
