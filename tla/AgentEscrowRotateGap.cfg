SPECIFICATION Spec
CONSTANTS
  k1 = k1
  k2 = k2
  k3 = k3
  p1 = p1
  p2 = p2
  None = None
  Key <- TwoKeys
  Proc <- OneProc
  Commands = {"enroll", "rotate", "verify"}
  Faults <- NoFaults
  MaxToken = 1
  MaxLate = 0
INVARIANT NeverUnlockedUnrecoverable
