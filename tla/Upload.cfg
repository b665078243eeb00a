CONSTANTS
  l1 = l1  l2 = l2  l3 = l3  u1 = u1  u2 = u2  r = r  t1 = t1  t2 = t2  s = s
  None = None
  Listings = {l1, l2}
  Refs = {r}
  Titles = {t1, t2}
  Standards = {s}
  Files <- Three
  Uploads = {u1, u2}
  Served = {"create", "edit", "publish", "delete"}
  Limit = 1
  Hands = 1
SYMMETRY Symmetric
SPECIFICATION Spec
INVARIANTS TypeOK PreviewKept RepeatedFilesDoNotDouble ReportsAreTrue
PROPERTIES OnlyCarriedColumnsChange
CHECK_DEADLOCK FALSE
