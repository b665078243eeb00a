CONSTANTS
  u1 = u1  u2 = u2  u3 = u3  r1 = r1  r2 = r2  i1 = i1  i2 = i2
  Users = {u1, u2}
  Orgs = {1}
  Invites = {i1, i2}
  Reqs = {r1, r2}
  MaxPending = 2
  Served = {"offer", "accept", "revoke", "remove", "leave", "transfer", "delete_org"}
  NoReq = NoReq
  NoInvite = NoInvite
SYMMETRY Symmetric
SPECIFICATION Spec
INVARIANT OneOpenInvitation
PROPERTY AcceptNeverDemotes
CHECK_DEADLOCK FALSE
