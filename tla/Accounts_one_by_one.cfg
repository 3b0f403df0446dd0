CONSTANTS
  admin = admin
  member = member
  l1 = l1
  NoToken = NoToken
  NoUser = NoUser
  User = {admin, member}
  Official = {admin}
  Worker = {w1}
  Token = {t1, t2}
  Link = {l1}
  LinkUser <- MCLinkUser
  MaxAborts = 2
SPECIFICATION Spec
INVARIANTS
  TypeOK
  ActiveIsVerified
  LinksWorkOnce
PROPERTIES
  DisabledStaysDisabled
  PendingGetsVerified
CHECK_DEADLOCK FALSE
