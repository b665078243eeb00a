CONSTANTS
  u1 = u1  u2 = u2  u3 = u3  r1 = r1  r2 = r2  i1 = i1  i2 = i2
  Users = {u1, u2}
  Orgs = {1}
  Invites = {i1}
  Reqs = {r1, r2}
  MaxPending = 2
  Served = {"erase", "accept", "offer", "transfer"}
  NoReq = NoReq
  NoInvite = NoInvite
SYMMETRY Symmetric
SPECIFICATION Spec
INVARIANT ColleaguesHaveAnOwner
CHECK_DEADLOCK FALSE
