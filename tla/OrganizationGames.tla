-------------------------- MODULE OrganizationGames --------------------------
(***************************************************************************)
(* The games an organization plays and which of them is the primary one:   *)
(* the game handlers of modules/organizations/route.ts.                    *)
(***************************************************************************)
EXTENDS Roster

\* setOrganizationPrimaryGame: one UPDATE over the games of the organization.
primaryAmong(rows, g) ==
  [h \in Game |-> IF rows[h] = "absent" THEN "absent"
                  ELSE IF h = g THEN "primary" ELSE "listed"]

\* Faulty variant: the game that was primary stays so.
CreateSecondPrimary(g, isPrimary, k) ==
  /\ managed
  /\ games[g] = "absent"
  /\ runs(k, 2)
  /\ games' = [games EXCEPT ![g] = IF isPrimary \/ listed = {} THEN "primary" ELSE "listed"]
  /\ UNCHANGED <<organization, members, pendingActions, characters, claimRequests>>

\* POST /{organization}/games: primary if the body says so, or says nothing and
\* the game is the first.
CreateGame(g, isPrimary, k) ==
  LET inserted == [games EXCEPT ![g] = IF isPrimary THEN "primary" ELSE "listed"] IN
  /\ managed
  /\ games[g] = "absent"
  /\ runs(k, 2)
  /\ ~isPrimary => k = 2
  /\ games' = IF isPrimary /\ k = 2 THEN primaryAmong(inserted, g) ELSE inserted
  /\ UNCHANGED <<organization, members, pendingActions, characters, claimRequests>>

\* PATCH .../games/{gameId}: isPrimary is written before the check that another
\* game is primary, and the 409 of that check takes nothing back.
UpdateGame(g, isPrimary, k) ==
  LET updated == [games EXCEPT ![g] = IF isPrimary THEN "primary" ELSE "listed"] IN
  /\ managed
  /\ games[g] # "absent"
  /\ runs(k, 2)
  /\ ~isPrimary => k = 2
  /\ games' = IF isPrimary /\ k = 2 THEN primaryAmong(updated, g) ELSE updated
  /\ UNCHANGED <<organization, members, pendingActions, characters, claimRequests>>

\* Faulty variant: the last game may go.
DeleteLastGame(g, next, k) ==
  /\ managed
  /\ games[g] # "absent"
  /\ ~ \E c \in Character : live(c) /\ characters[c].game = g
  /\ runs(k, 2)
  /\ games' = [games EXCEPT ![g] = "absent"]
  /\ UNCHANGED <<organization, members, pendingActions, characters, claimRequests>>

\* DELETE .../games/{gameId}: not the last one, none of a live character; when it
\* was the primary one, the first of the others by sort_order is next.
DeleteGame(g, next, k) ==
  LET remaining == [games EXCEPT ![g] = "absent"]
      promotes == games[g] = "primary" IN
  /\ managed
  /\ games[g] # "absent"
  /\ next \in listed \ {g}
  /\ ~ \E c \in Character : live(c) /\ characters[c].game = g
  /\ runs(k, 2)
  /\ ~promotes => k = 2
  /\ games' = IF promotes /\ k = 2 THEN primaryAmong(remaining, next) ELSE remaining
  /\ UNCHANGED <<organization, members, pendingActions, characters, claimRequests>>

\* PUT .../games/{gameId}/primary.
SetPrimaryGame(g) ==
  /\ managed
  /\ games[g] # "absent"
  /\ games' = primaryAmong(games, g)
  /\ UNCHANGED <<organization, members, pendingActions, characters, claimRequests, interrupted>>
===============================================================================
