CONSTANTS
  c1 = c1  c2 = c2  j1 = j1  j2 = j2  r1 = r1  r2 = r2
  None = None
  Jobs = {j1}
  Gigs = {j1}
  Cands = {c1}
  Positions <- OnePlace
  Dated = {}
  SweepLimit = 1
  Reqs = {r1, r2}
  Served = {"apply", "withdraw", "move", "sweep", "resume", "delete", "close", "reopen"}
  MaxMail = 2
SYMMETRY Symmetric
SPECIFICATION Spec
INVARIANTS TypeOK ReadStands PausedSharesNothing
PROPERTIES Promise
CHECK_DEADLOCK FALSE
