CONSTANTS
  o1 = o1
  o2 = o2
  u1 = u1
  u2 = u2
  u3 = u3
  r1 = r1
  r2 = r2
  r3 = r3
  Unit = Unit
  UnitGame = g1
  UnitName = sword
  NoAsset = NoAsset
  Global = Global
  Asset = {Unit, a1, a2}
  Name = {sword}
  Game = {g1, g2}
  User = {u1, u2, u3}
  Organization = {o1, o2}
  Record = {r1, r2, r3}
  Worker = {w1, w2}
  HomeOf <- MCHomeOf
  AuthorOf <- MCAuthorOf
  Similar <- MCEqualNames
  Prefixed <- MCEqualNames
  ChangesOverlap = TRUE
  ByHand = {"active"}
  MaxEdits = 1
SPECIFICATION Spec
SYMMETRY Interchangeable
INVARIANT
  OldReferencesResolve
CHECK_DEADLOCK FALSE
