CONSTANTS
  User = {u1, u2}
  Character = {c1, c2}
  Game = {g1}
  None = None
  MaxInterruptions = 0
SPECIFICATION Spec
VIEW Visible
SYMMETRY Symmetry
CONSTRAINT WithGames
PROPERTIES AssignedDraftsStay
CHECK_DEADLOCK FALSE
