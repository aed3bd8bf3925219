SPECIFICATION Spec
CONSTANTS
  t1 = t1
  t2 = t2
  u1 = u1
  u2 = u2
  u3 = u3
  r1 = r1
  r2 = r2
  k1 = k1
  k2 = k2
  None = None
  Portals = {"python", "go"}
  Thread <- Threads
  User <- Users
  RolesOf <- TwoAdmins
  Request <- OneRequest
  Key <- Keys
SYMMETRY Sym
INVARIANTS TypeOK ReleaseIsAudited LoggedDecisionIsTheDecision ReleasedKeyIsCurrent PythonAuditNamesBoth
PROPERTIES ImplementsTwoPersonRelease
