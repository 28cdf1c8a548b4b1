SPECIFICATION Spec
CONSTANTS
  Titles = {t1}
  Cmds = {g1}
  Null = Null
  Unset = Unset
  Active = TRUE
  MaxWire = 3
  MaxFaults = 1
INVARIANTS BellMirrored CommandMirrored SpinnerIsTimed
