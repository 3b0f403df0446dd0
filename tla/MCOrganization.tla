---------------------------- MODULE MCOrganization ----------------------------
(* The instances of Organization for TLC. *)
EXTENDS Organization, TLC

Symmetry == Permutations(User) \cup Permutations(Character) \cup Permutations(Game)

\* What a later request can tell apart: the row of a former member is written
\* over when he comes back, a deleted character and a deleted organization are
\* found by no route.
Visible ==
  IF organization = "deleted" THEN <<organization>>
  ELSE << organization,
          [u \in User |-> IF attached(u) THEN members[u] ELSE None],
          pendingActions,
          [c \in Character |-> IF live(c) THEN characters[c] ELSE characters[c].row],
          claimRequests, games, interrupted >>

\* With one game, what a character plays is always that game.
WithGames == \A c \in Character : live(c) => characters[c].game # None
===============================================================================
