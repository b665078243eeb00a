CONSTANTS
  p = p  q = q  c1 = c1  c2 = c2  k1 = k1  b1 = b1  b2 = b2  d1 = d1  d2 = d2  r1 = r1  r2 = r2
  None = None
  Orgs = {p, q}
  Courses = {c1}
  Centres = {k1}
  Seller <- SellerIsP
  Parent <- ParentIsQ
  Sellers0 = {p, q}
  Deliverers0 = {p, q}
  Pairs <- Deal
  Switches <- BothSwitches
  Batches = {b1}
  Deals = {d1, d2}
  Reqs = {r1, r2}
  Served = {"deal", "plan", "publish", "revoke", "reopen", "publish_course", "delete_course", "capability", "take_down"}
SYMMETRY Symmetric
SPECIFICATION Spec
INVARIANTS TypeOK OpenBatchesAreCovered ClassesHaveACentre DealsHaveParties
PROPERTIES Promise
CHECK_DEADLOCK FALSE
