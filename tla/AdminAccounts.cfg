SPECIFICATION Spec
CONSTANTS
  t1 = t1
  t2 = t2
  u1 = u1
  u2 = u2
  u3 = u3
  s1 = s1
  None = None
  Portals = {"python", "go"}
  Thread <- Threads
  User <- Users
  Roles = {"owner", "helpdesk"}
  Session <- OneSession
  Pairs <- OperatorPairs
  GroupLists <- Headers
  MaxCreated = 3
SYMMETRY Sym
CHECK_DEADLOCK FALSE
INVARIANTS TypeOK SessionIsEarned AccountLogIsTrue
PROPERTIES LastOwnerKept LocalAccountIsFixed
