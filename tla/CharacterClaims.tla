--------------------------- MODULE CharacterClaims ---------------------------
(***************************************************************************)
(* Who holds which character: the character handlers of modules/           *)
(* organizations/route.ts and, behind them,                                *)
(* OrganizationCharacterClaimWorkflowService.                              *)
(***************************************************************************)
EXTENDS Roster

\* POST /{organization}/characters: any game of the catalogue.
CreateCharacter(c, g) ==
  /\ managed
  /\ characters[c].row = "absent"
  /\ characters' = createCharacter(c, None, g)
  /\ UNCHANGED <<organization, members, pendingActions, claimRequests, games, interrupted>>

\* PATCH .../characters/{characterId}: a game of the organization, or none, or
\* the one it has, and whether the character is active.
UpdateCharacter(c, isActive, g) ==
  /\ managed
  /\ live(c)
  /\ g \in {None, characters[c].game} \cup listed
  /\ characters' = [characters EXCEPT ![c].isActive = isActive, ![c].game = g]
  /\ UNCHANGED <<organization, members, pendingActions, claimRequests, games, interrupted>>

\* DELETE .../characters/{characterId}, whoever holds or has reserved it; the
\* cancellation of its requests is the second statement.
DeleteCharacter(c, k) ==
  /\ managed
  /\ live(c)
  /\ runs(k, 2)
  /\ characters' = deleteCharacter(c)
  /\ claimRequests' = written(k >= 2, withoutRequestsOn(c), claimRequests)
  /\ UNCHANGED <<organization, members, pendingActions, games>>

-------------------------------------------------------------------------------
(* OrganizationCharacterClaimWorkflowService.                               *)

\* Faulty variant: a claimed character is assigned as a free one is.
assignClaimedCharacter(c, u, k) ==
  /\ live(c) /\ characters[c].isActive
  /\ members[u].status = "active"
  /\ listByOrganizationAndUser(u) = {}
  /\ runs(k, 2)
  /\ claimRequests' = withoutRequestsOn(c)
  /\ characters' = written(k >= 2, claimFor(c, u), characters)
  /\ UNCHANGED <<organization, members, pendingActions, games>>

\* A reservation of the character by a pending member is not looked at.
assignCharacter(c, u, k) ==
  /\ available(c)
  /\ members[u].status = "active"
  /\ listByOrganizationAndUser(u) = {}
  /\ runs(k, 2)
  /\ claimRequests' = withoutRequestsOn(c)
  /\ characters' = written(k >= 2, claimFor(c, u), characters)
  /\ UNCHANGED <<organization, members, pendingActions, games>>

\* Faulty variant: the requests on the character stay open.
unassignKeepingRequests(c, k) ==
  /\ live(c)
  /\ runs(k, 2)
  /\ characters' = claimFor(c, None)
  /\ UNCHANGED <<organization, members, pendingActions, claimRequests, games>>

unassignCharacter(c, k) ==
  /\ live(c)
  /\ runs(k, 2)
  /\ characters' = claimFor(c, None)
  /\ claimRequests' = written(k >= 2, withoutRequestsOn(c), claimRequests)
  /\ UNCHANGED <<organization, members, pendingActions, games>>

createClaimRequest(c, u) ==
  /\ live(c) /\ characters[c].isActive
  /\ members[u].status = "active"
  /\ characters[c].claimedBy \notin {None, u}
  /\ [character |-> c, target |-> u] \notin claimRequests
  /\ claimRequests' = claimRequests \cup {[character |-> c, target |-> u]}
  /\ UNCHANGED <<organization, members, pendingActions, characters, games, interrupted>>

\* Claim, cancel the other requests, accept: whether the target is still a member,
\* or holds a character already, is not asked again.
acceptClaimRequest(r, k) ==
  /\ r \in claimRequests
  /\ live(r.character)
  /\ runs(k, 3)
  /\ characters' = claimFor(r.character, r.target)
  /\ claimRequests' =
       (IF k = 1 THEN claimRequests ELSE withoutRequestsOn(r.character))
         \cup (IF k = 2 THEN {r} ELSE {})
  /\ UNCHANGED <<organization, members, pendingActions, games>>

endsClaimRequest(r) ==
  /\ r \in claimRequests
  /\ claimRequests' = claimRequests \ {r}
  /\ UNCHANGED <<organization, members, pendingActions, characters, games, interrupted>>

declineClaimRequest(r) == endsClaimRequest(r)

cancelClaimRequest(r) == endsClaimRequest(r)

-------------------------------------------------------------------------------
(* The routes: managers claim for others, the target answers a request.     *)

\* POST .../characters/{characterId}/claim dispatches on its mode.
ClaimCharacter(c, u, mode, k) ==
  /\ managed
  /\ \/ mode = "unassign" /\ unassignCharacter(c, k)
     \/ mode = "transfer" /\ createClaimRequest(c, u)
     \/ mode = "assign" /\ assignCharacter(c, u, k)

\* POST .../characters/{characterId}/assign.
AssignCharacter(c, u, k) == managed /\ assignCharacter(c, u, k)

\* POST .../characters/{characterId}/unassign.
UnassignCharacter(c, k) == managed /\ unassignCharacter(c, k)

\* POST .../characters/{characterId}/unclaim.
UnclaimCharacter(c, k) == managed /\ unassignCharacter(c, k)

\* POST .../characters/{characterId}/claim-request.
CreateClaimRequest(c, u) == managed /\ createClaimRequest(c, u)

\* POST /character-claim-requests/{requestId}/accept, by its target, a member or not.
AcceptClaimRequest(r, k) == organization = "live" /\ acceptClaimRequest(r, k)

\* POST /character-claim-requests/{requestId}/decline, by its target.
DeclineClaimRequest(r) == organization = "live" /\ declineClaimRequest(r)

\* POST /character-claim-requests/{requestId}/cancel, by its requester or a manager.
CancelClaimRequest(r) == organization = "live" /\ cancelClaimRequest(r)
===============================================================================
