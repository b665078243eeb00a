CONSTANTS
  u1 = u1  u2 = u2  u3 = u3  r1 = r1  r2 = r2  i1 = i1  i2 = i2
  Users = {u1, u2}
  Orgs = {1, 2}
  Invites = {}
  Reqs = {r1, r2}
  MaxPending = 2
  Served = {"erase", "set_role"}
  NoReq = NoReq
  NoInvite = NoInvite
SPECIFICATION FairSpec
INVARIANTS OwnerAlways DecisionsHold LockQueueHasNoCircle
PROPERTIES OnlyOwnersRule EveryRequestEnds
CHECK_DEADLOCK FALSE
