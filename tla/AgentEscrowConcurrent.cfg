SPECIFICATION Spec
CONSTANTS
  k1 = k1
  k2 = k2
  k3 = k3
  p1 = p1
  p2 = p2
  None = None
  Key <- TwoKeys
  Proc <- TwoProcs
  Commands = {"enroll", "rotate", "verify"}
  Faults = {"crash", "late", "unparsed"}
  MaxToken = 2
  MaxLate = 1
SYMMETRY Symmetry
INVARIANTS TypeOK EscrowedClaimIsTrue EscrowFirstGate EnrollIsRecoverable
PROPERTY ImplementsEscrowFirst
