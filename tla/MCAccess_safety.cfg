\* Two users, one of them connected; two requests at once; a second vault nobody owns yet.
SPECIFICATION Spec
CONSTANTS
  u1 = u1
  u2 = u2
  s1 = s1
  Users = {u1, u2}
  Vaults = {v1, v2}
  Notes = {n1}
  Sockets = {s1}
  Requests = {q1, q2}
  None = None
  UserOf <- OneSocket
  MaxOps = 3
INVARIANTS Owned AccessWithdrawn
PROPERTY EventuallyWithdrawn
CHECK_DEADLOCK FALSE
