CONSTANTS
  c1 = c1  c2 = c2  u1 = u1  r1 = r1  r2 = r2
  None = None
  Courses = {c1, c2}
  People = {u1}
  Listed = {c1}
  Learners = {u1}
  Reporters = {u1}
  Reqs = {r1, r2}
  Served = {"register", "withdraw", "sweep", "move", "report", "dismiss", "takedown", "publish", "delete", "erase"}
  MaxMail = 1
SYMMETRY Symmetric
SPECIFICATION Spec
INVARIANTS TypeOK PausedSharesNothing
PROPERTIES Promise DecisionsAreFinal ActionedWithTheTakedown
CHECK_DEADLOCK FALSE
