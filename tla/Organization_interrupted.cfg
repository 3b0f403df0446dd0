CONSTANTS
  User = {u1, u2}
  Character = {c1}
  Game = {g1, g2}
  None = None
  MaxInterruptions = 1
SPECIFICATION Spec
SYMMETRY Symmetry
INVARIANTS GamesAreKept
PROPERTIES KeepsLifecycle
CHECK_DEADLOCK FALSE
