CONSTANTS
  c1 = c1  c2 = c2  j1 = j1  j2 = j2  r1 = r1  r2 = r2
  None = None
  Jobs = {j1, j2}
  Gigs = {j1}
  Cands = {c1}
  Positions <- OnePlace
  Dated = {j1, j2}
  SweepLimit = 1
  Reqs = {r1}
  Served = {"publish", "unpublish", "close", "reopen", "take_down", "delete"}
  MaxMail = 1
SPECIFICATION FairSpec
PROPERTIES OverdueCloses
CHECK_DEADLOCK FALSE
