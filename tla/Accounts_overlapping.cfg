CONSTANTS
  admin = admin
  member = member
  l1 = l1
  NoToken = NoToken
  NoUser = NoUser
  User = {admin, member}
  Official = {admin}
  Worker = {w1, w2}
  Token = {t1, t2, t3, t4}
  Link = {l1}
  LinkUser <- MCLinkUser
  MaxAborts = 1
SPECIFICATION Spec
SYMMETRY Interchangeable
INVARIANT
  ActiveWasApproved
CHECK_DEADLOCK FALSE
