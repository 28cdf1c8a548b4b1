SPECIFICATION Spec
CONSTANTS
  Msgs = {m1, m2, m3}
  Questions = {}
  Conns = {c1, c2}
  Procs = {p1, p2}
  MaxQueue = 2
  MaxFaults = 1
  MaxAuto = 0
  Lingering = FALSE
  None = None
SYMMETRY Interchangeable
INVARIANT TypeOK
INVARIANT OneCopy
INVARIANT AcceptanceOrder
INVARIANT ClaimVisible
PROPERTY KeepsPromise
