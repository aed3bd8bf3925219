SPECIFICATION Spec
CONSTANTS
  r1 = r1
  r2 = r2
  d1 = d1
  d2 = d2
  m1 = m1
  h1 = h1
  h2 = h2
  w1 = w1
  Run = {r1, r2}
  Device = {d1, d2}
  Managed = {m1}
  Host = {h1, h2}
  NameOf <- SameName
  Word = {w1}
  MaxEdits = 2
  None = None
SYMMETRY Symmetry
INVARIANTS
  TypeOK
  HumanTextKept
  OneBlock
  LastStampStands
  PointerOfHost
  ExitZeroMeansStamped
CHECK_DEADLOCK FALSE
