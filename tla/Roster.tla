-------------------------------- MODULE Roster --------------------------------
(***************************************************************************)
(* The tables behind the organization routes and what the routes ask of    *)
(* them: the members of one organization with their pending actions, its   *)
(* characters, the open claim requests on them, and its games              *)
(* (repositories/organization*-repository.ts, characters-repository.ts,    *)
(* character-claim-requests-repository.ts).  Users are active accounts     *)
(* with a session; organization_members is UNIQUE per organization and     *)
(* user, so a user stands for the id of his member row too.                *)
(***************************************************************************)
EXTENDS Naturals, FiniteSets

CONSTANTS User, Character, Game,
          None,             \* NULL, or no row
          MaxInterruptions  \* bound on the requests that stop half way

ASSUME NoneIsNoUser == None \notin User \cup Game
ASSUME InterruptionsAreBounded == MaxInterruptions \in Nat

VARIABLES
  organization,    \* organizations: "absent", "live", "deleted"
  members,         \* organization_members, by user
  pendingActions,  \* organization_member_pending_actions, by member
  characters,      \* characters
  claimRequests,   \* character_claim_requests in pending_confirmation
  games,           \* organization_games, by game
  interrupted      \* requests that wrote some of their statements and no more

vars == <<organization, members, pendingActions, characters, claimRequests,
          games, interrupted>>

Role == {"owner", "admin", "member"}
MemberStatus == {"absent", "pending", "active", "left", "removed"}
Member == [status : MemberStatus, role : Role]

\* "draft" is requested_character_name IS NOT NULL: the character was made for
\* this membership.  "expired" is expires_at <= now.
PendingAction ==
  [kind : {"apply", "invite"}, character : Character, draft : BOOLEAN, expired : BOOLEAN]

ASSUME NoneIsNoAction == None \notin PendingAction \cup {"apply", "invite"}

CharacterRow ==
  [row : {"absent", "live", "deleted"}, claimedBy : User \cup {None},
   isActive : BOOLEAN, game : Game \cup {None}]

\* A request that was accepted, declined or cancelled changes nothing any more:
\* every write to one is guarded by pending_confirmation.
ClaimRequest == [character : Character, target : User]

GameRow == {"absent", "listed", "primary"}

TypeOK ==
  /\ organization \in {"absent", "live", "deleted"}
  /\ members \in [User -> Member]
  /\ pendingActions \in [User -> PendingAction \cup {None}]
  /\ characters \in [Character -> CharacterRow]
  /\ claimRequests \subseteq ClaimRequest
  /\ games \in [Game -> GameRow]
  /\ interrupted \in 0..MaxInterruptions

Init ==
  /\ organization = "absent"
  /\ members = [u \in User |-> [status |-> "absent", role |-> "member"]]
  /\ pendingActions = [u \in User |-> None]
  /\ characters = [c \in Character |->
       [row |-> "absent", claimedBy |-> None, isActive |-> FALSE, game |-> None]]
  /\ claimRequests = {}
  /\ games = [g \in Game |-> "absent"]
  /\ interrupted = 0

-------------------------------------------------------------------------------
(* A handler of n statements keeps the first k of them when its worker is   *)
(* stopped or the next statement fails: D1 runs them one by one.            *)

runs(k, n) ==
  /\ k \in 1..n
  /\ k < n => interrupted < MaxInterruptions
  /\ interrupted' = IF k < n THEN interrupted + 1 ELSE interrupted

written(done, new, old) == IF done THEN new ELSE old

-------------------------------------------------------------------------------
(* Members.                                                                 *)

isMember(u) == organization = "live" /\ members[u].status = "active"

isManager(u) == isMember(u) /\ members[u].role \in {"owner", "admin"}

isOwner(u) == isMember(u) /\ members[u].role = "owner"

\* A route of managers can be called: who calls it changes nothing else.
managed == \E u \in User : isManager(u)

owned == \E u \in User : isOwner(u)

attached(u) == members[u].status \in {"active", "pending"}

\* Faulty variant: a former member's row keeps the role it had.
createOrReactivateKeepingRole(u, role, status) ==
  [members EXCEPT ![u] =
     [status |-> status, role |-> IF @.status = "absent" THEN role ELSE @.role]]

createOrReactivate(u, role, status) ==
  [members EXCEPT ![u] = [status |-> status, role |-> role]]

\* Faulty variant: an approval writes a status the column does not know.
updateStatusApproved(u, status) ==
  [members EXCEPT ![u].status = IF status = "active" THEN "approved" ELSE status]

updateStatus(u, status) == [members EXCEPT ![u].status = status]

updateRole(u, role) == [members EXCEPT ![u].role = role]

reserved(c) ==
  \E u \in User : pendingActions[u] # None /\ pendingActions[u].character = c

\* organization_member_pending_actions is UNIQUE in member_id and character_id:
\* the insert fails on a row that was left behind, and nothing more is written.
createPendingAction(u, kind, c, draft) ==
  IF pendingActions[u] # None \/ reserved(c)
  THEN pendingActions
  ELSE [pendingActions EXCEPT ![u] =
          [kind |-> kind, character |-> c, draft |-> draft, expired |-> FALSE]]

deleteByMemberId(u) == [pendingActions EXCEPT ![u] = None]

-------------------------------------------------------------------------------
(* Characters and claim requests.                                           *)

live(c) == characters[c].row = "live"

available(c) == live(c) /\ characters[c].isActive /\ characters[c].claimedBy = None

listByOrganizationAndUser(u) == {c \in Character : live(c) /\ characters[c].claimedBy = u}

createCharacter(c, u, g) ==
  [characters EXCEPT ![c] =
     [row |-> "live", claimedBy |-> u, isActive |-> TRUE, game |-> g]]

claimFor(c, u) == [characters EXCEPT ![c].claimedBy = u]

deleteCharacter(c) ==
  [characters EXCEPT ![c].row = "deleted", ![c].claimedBy = None, ![c].isActive = FALSE]

\* Faulty variant: a reserved character can be reserved again once it is free.
requireAvailableCharacterUnreserved(c) == available(c)

\* The reservation counts whether or not it has expired.
requireAvailableCharacter(c) == available(c) /\ ~reserved(c)

\* OrganizationGamesRepository.listByOrganization.
listed == {g \in Game : games[g] # "absent"}

\* UPDATE ... SET status = 'cancelled' for the open requests on the character.
withoutRequestsOn(c) == {r \in claimRequests : r.character # c}
===============================================================================
