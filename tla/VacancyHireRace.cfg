CONSTANTS
  c1 = c1  c2 = c2  j1 = j1  j2 = j2  r1 = r1  r2 = r2
  None = None
  Jobs = {j1}
  Gigs = {j1}
  Cands = {c1, c2}
  Positions <- TwoPlaces
  Dated = {}
  SweepLimit = 1
  Reqs = {r1, r2}
  Served = {"apply", "move"}
  MaxMail = 1
SYMMETRY Symmetric
SPECIFICATION Spec
INVARIANT FilledIsClosed
CHECK_DEADLOCK FALSE
