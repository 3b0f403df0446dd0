------------------------------ MODULE Membership ------------------------------
(***************************************************************************)
(* How a user comes into an organization and how he leaves it: the member  *)
(* handlers of modules/organizations/route.ts and, behind them,            *)
(* OrganizationMembershipWorkflowService.  Each action is a whole request  *)
(* that got as far as its statement k.                                     *)
(***************************************************************************)
EXTENDS Roster

\* The first game of an organization is its primary one.
ensureOrganizationInitialGame(g) ==
  [games EXCEPT ![g] = IF listed = {} THEN "primary" ELSE "listed"]

\* POST /organizations: the row, its owner, the first character, the first game.
CreateOrganization(u, c, g, k) ==
  /\ organization = "absent"
  /\ characters[c].row = "absent"
  /\ runs(k, 4)
  /\ organization' = "live"
  /\ members' = written(k >= 2, createOrReactivate(u, "owner", "active"), members)
  /\ characters' = written(k >= 3, createCharacter(c, u, g), characters)
  /\ games' = written(k >= 4, ensureOrganizationInitialGame(g), games)
  /\ UNCHANGED <<pendingActions, claimRequests>>

\* DELETE /{organization}: soft, nothing else is written.
DeleteOrganization ==
  /\ owned
  /\ organization' = "deleted"
  /\ UNCHANGED <<members, pendingActions, characters, claimRequests, games, interrupted>>

\* The character of a new pending membership: one that is available, or a draft
\* created for it (createPendingCharacterFromDraft), which is one statement more.
reserves(kind, u, role, c, draft, g, k) ==
  /\ IF draft THEN characters[c].row = "absent" ELSE requireAvailableCharacter(c) /\ k > 1
  /\ runs(k, 3)
  /\ characters' = written(draft, createCharacter(c, None, g), characters)
  /\ members' = written(k >= 2, createOrReactivate(u, role, "pending"), members)
  /\ pendingActions' =
       written(k >= 3, createPendingAction(u, kind, c, draft), pendingActions)
  /\ UNCHANGED <<organization, claimRequests, games>>

\* POST /members/apply.
ApplyMember(u, c, draft, g, k) ==
  /\ organization = "live"
  /\ ~attached(u)
  /\ listByOrganizationAndUser(u) = {}
  /\ reserves("apply", u, "member", c, draft, g, k)

\* POST /members/invite: does not ask whether the user holds a character.
InviteMember(u, role, c, draft, g, k) ==
  /\ managed
  /\ ~attached(u)
  /\ reserves("invite", u, role, c, draft, g, k)

\* POST /members: the character first, then the active row.
AddMember(u, role, c, k) ==
  /\ managed
  /\ ~attached(u)
  /\ listByOrganizationAndUser(u) = {}
  /\ requireAvailableCharacter(c)
  /\ runs(k, 2)
  /\ characters' = claimFor(c, u)
  /\ members' = written(k >= 2, createOrReactivate(u, role, "active"), members)
  /\ UNCHANGED <<organization, pendingActions, claimRequests, games>>

-------------------------------------------------------------------------------
(* The end of a pending membership.                                         *)

pendingFor(u, kind) ==
  /\ organization = "live"
  /\ members[u].status = "pending"
  /\ pendingActions[u] # None
  /\ pendingActions[u].kind = kind

\* Faulty variant: the pending action survives the membership it was for.
activatesKeepingAction(u, k) ==
  LET c == pendingActions[u].character IN
  /\ ~pendingActions[u].expired
  /\ live(c) /\ characters[c].claimedBy \in {None, u}
  /\ runs(k, 3)
  /\ characters' = claimFor(c, u)
  /\ members' = written(k >= 2, updateStatus(u, "active"), members)
  /\ UNCHANGED <<organization, pendingActions, claimRequests, games>>

\* Claim the reserved character, activate the member, delete the action.
activates(u, k) ==
  LET c == pendingActions[u].character IN
  /\ ~pendingActions[u].expired
  /\ live(c) /\ characters[c].claimedBy \in {None, u}
  /\ runs(k, 3)
  /\ characters' = claimFor(c, u)
  /\ members' = written(k >= 2, updateStatus(u, "active"), members)
  /\ pendingActions' = written(k >= 3, deleteByMemberId(u), pendingActions)
  /\ UNCHANGED <<organization, claimRequests, games>>

\* Faulty variant: a draft stays on the roster.
releasesKeepingDraft(u, k) ==
  /\ runs(k, 3) /\ k > 1
  /\ pendingActions' = deleteByMemberId(u)
  /\ members' = written(k >= 3, updateStatus(u, "removed"), members)
  /\ UNCHANGED <<organization, characters, claimRequests, games>>

\* finishPendingMembership, and ensurePendingActionNotExpired before it throws:
\* delete the draft (CharactersRepository.delete throws on a deleted one), delete
\* the action, remove the member.
releases(u, k) ==
  LET a == pendingActions[u] IN
  /\ IF a.draft THEN live(a.character) ELSE k > 1
  /\ runs(k, 3)
  /\ characters' = written(a.draft, deleteCharacter(a.character), characters)
  /\ pendingActions' = written(k >= 2, deleteByMemberId(u), pendingActions)
  /\ members' = written(k >= 3, updateStatus(u, "removed"), members)
  /\ UNCHANGED <<organization, claimRequests, games>>

approvePendingApply(u, k) == pendingFor(u, "apply") /\ activates(u, k)

\* Asks for a character the user holds, which approvePendingApply does not.
acceptInvite(u, k) ==
  /\ pendingFor(u, "invite")
  /\ listByOrganizationAndUser(u) = {}
  /\ activates(u, k)

\* ensurePendingActionNotExpired: an approval or an acceptance that comes too late
\* removes the member instead, and answers 409.
expires(u, kind, k) == pendingFor(u, kind) /\ pendingActions[u].expired /\ releases(u, k)

finishPendingMembership(u, kinds, k) ==
  /\ \E kind \in kinds : pendingFor(u, kind)
  /\ releases(u, k)

\* POST /members/{memberId}/approve.
ApproveMember(u, k) == managed /\ (approvePendingApply(u, k) \/ expires(u, "apply", k))

\* POST /members/{memberId}/invite/accept, by the invited user.
AcceptInvite(u, k) == acceptInvite(u, k) \/ expires(u, "invite", k)

\* POST /members/{memberId}/reject: whichever way the member came.
RejectMember(u, k) == managed /\ finishPendingMembership(u, {"apply", "invite"}, k)

\* POST /members/{memberId}/invite/decline, by the invited user.
DeclineInvite(u, k) == finishPendingMembership(u, {"invite"}, k)

\* POST /members/{memberId}/cancel, by the user himself or a manager.
CancelMember(u, k) == finishPendingMembership(u, {"apply", "invite"}, k)

-------------------------------------------------------------------------------
(* The end of an active membership, and the role of an active member.       *)

\* Faulty variant: the owner may leave as everybody does.
leavableOwnerToo(u) == isMember(u)

leavable(u) == isMember(u) /\ members[u].role # "owner"

\* releaseActiveMemberCharacters: with no character to release, the requests
\* addressed to the user are not cancelled either.
withoutRequestsOf(u) ==
  LET C == listByOrganizationAndUser(u) IN
  IF C = {} THEN claimRequests
  ELSE {r \in claimRequests : r.target # u /\ r.character \notin C}

\* The characters one by one, their requests in one statement, then the row.
departs(u, status, k) ==
  LET C == listByOrganizationAndUser(u) IN
  /\ runs(k, 3)
  /\ C = {} => k = 3
  /\ characters' = [c \in Character |->
       IF c \in C THEN [characters[c] EXCEPT !.claimedBy = None] ELSE characters[c]]
  /\ claimRequests' = written(k >= 2, withoutRequestsOf(u), claimRequests)
  /\ members' = written(k >= 3, updateStatus(u, status), members)
  /\ UNCHANGED <<organization, pendingActions, games>>

leaveActiveMembership(u, k) == leavable(u) /\ departs(u, "left", k)

removeActiveMembership(u, k) == leavable(u) /\ departs(u, "removed", k)

\* POST /members/{memberId}/leave, by the member himself.
LeaveMember(u, k) == leaveActiveMembership(u, k)

\* POST /members/{memberId}/remove.
RemoveMember(u, k) == managed /\ removeActiveMembership(u, k)

setsRole(u, from, to) ==
  /\ owned
  /\ isMember(u) /\ members[u].role = from
  /\ members' = updateRole(u, to)
  /\ UNCHANGED <<organization, pendingActions, characters, claimRequests, games, interrupted>>

\* POST /members/{memberId}/appoint-admin and .../remove-admin: the owner only.
AppointAdmin(u) == setsRole(u, "member", "admin")

RemoveAdmin(u) == setsRole(u, "admin", "member")

-------------------------------------------------------------------------------

\* Thirty days pass (pendingActionExpiresAt).
PendingActionExpires(u) ==
  /\ pendingActions[u] # None /\ ~pendingActions[u].expired
  /\ pendingActions' = [pendingActions EXCEPT ![u].expired = TRUE]
  /\ UNCHANGED <<organization, members, characters, claimRequests, games, interrupted>>
===============================================================================
