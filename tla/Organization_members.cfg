CONSTANTS
  User = {u1, u2, u3}
  Character = {c1, c2}
  Game = {g1}
  None = None
  MaxInterruptions = 0
SPECIFICATION Spec
VIEW Visible
SYMMETRY Symmetry
CONSTRAINT WithGames
INVARIANTS TypeOK ExactlyOneOwner PendingHasReservation OpenRequestsAreTransfers OfferedCanBeReserved ListsAddUp
PROPERTIES NoSilentTransfer DraftsLeaveTheRoster
CHECK_DEADLOCK FALSE
