SPECIFICATION Spec
CONSTANTS
  k1 = k1
  k2 = k2
  k3 = k3
  p1 = p1
  p2 = p2
  None = None
  Key <- ThreeKeys
  Proc <- OneProc
  Commands = {"enroll", "rotate", "verify", "request"}
  Faults <- NoFaults
  MaxToken = 2
  MaxLate = 0
INVARIANTS ReportIsHonest TokenIsCurrent
PROPERTIES RotationEndsOldKeys CommandsEnd
