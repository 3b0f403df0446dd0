----------------------------- MODULE Organization -----------------------------
(***************************************************************************)
(* One organization under all of its routes: the requests of its users and *)
(* managers in any order, each a step, and what must hold of the tables.   *)
(***************************************************************************)
EXTENDS Membership, CharacterClaims, OrganizationGames, RosterQueries

MembershipNext == \E u \in User, k \in 1..4 :
  \/ \E c \in Character, g \in Game : CreateOrganization(u, c, g, k)
  \/ \E c \in Character, draft \in BOOLEAN, g \in Game : ApplyMember(u, c, draft, g, k)
  \/ \E c \in Character, draft \in BOOLEAN, g \in Game, role \in {"admin", "member"} :
       InviteMember(u, role, c, draft, g, k)
  \/ \E c \in Character, role \in {"admin", "member"} : AddMember(u, role, c, k)
  \/ ApproveMember(u, k) \/ AcceptInvite(u, k)
  \/ RejectMember(u, k) \/ DeclineInvite(u, k) \/ CancelMember(u, k)
  \/ LeaveMember(u, k)
  \/ RemoveMember(u, k)
  \/ AppointAdmin(u)
  \/ RemoveAdmin(u)
  \/ PendingActionExpires(u)

CharactersNext == \E c \in Character :
  \/ \E g \in Game : CreateCharacter(c, g)
  \/ \E isActive \in BOOLEAN, g \in Game \cup {None} : UpdateCharacter(c, isActive, g)
  \/ \E k \in 1..2 :
       DeleteCharacter(c, k) \/ UnassignCharacter(c, k) \/ UnclaimCharacter(c, k)
  \/ \E u \in User, k \in 1..2 :
       \/ AssignCharacter(c, u, k)
       \/ \E mode \in {"assign", "unassign", "transfer"} : ClaimCharacter(c, u, mode, k)
  \/ \E u \in User : CreateClaimRequest(c, u)

RequestsNext == \E r \in claimRequests :
  \/ \E k \in 1..3 : AcceptClaimRequest(r, k)
  \/ DeclineClaimRequest(r)
  \/ CancelClaimRequest(r)

GamesNext == \E g \in Game :
  \/ \E isPrimary \in BOOLEAN, k \in 1..2 :
       CreateGame(g, isPrimary, k) \/ UpdateGame(g, isPrimary, k)
  \/ \E next \in Game, k \in 1..2 : DeleteGame(g, next, k)
  \/ SetPrimaryGame(g)

Next == MembershipNext \/ CharactersNext \/ RequestsNext \/ GamesNext \/ DeleteOrganization

Spec == Init /\ [][Next]_vars

-------------------------------------------------------------------------------

whole == interrupted = 0

\* An organization has exactly one owner, and he is an active member of it
\* (docs/org-member-management-v1.md:132); the creation writes him second, so a
\* creation that stopped before that leaves an organization nobody can manage.
ExactlyOneOwner ==
  LET owners == {u \in User : members[u].role = "owner"} IN
  /\ Cardinality(owners) <= 1
  /\ whole /\ organization # "absent" =>
       \E u \in User : owners = {u} /\ members[u].status = "active"

\* A pending member has a pending action and nobody else has one, and no two
\* pending members count on one character (the UNIQUE columns of
\* organization_member_pending_actions never have to refuse a request).
PendingHasReservation ==
  whole => \A u, v \in User :
    /\ members[u].status = "pending" <=> pendingActions[u] # None
    /\ u # v /\ pendingActions[u] # None /\ pendingActions[v] # None
         => pendingActions[u].character # pendingActions[v].character

\* An open claim request asks for a character that somebody else holds: whatever
\* takes the character from its holder ends the requests on it
\* (cancelPendingClaimRequests).
OpenRequestsAreTransfers ==
  whole => \A r \in claimRequests :
    live(r.character) => characters[r.character].claimedBy \notin {None, r.target}

\* A draft that nobody holds gets a holder when its membership is approved, or a
\* manager assigns it by hand to an active member; and with the pending membership it
\* was made for it leaves the roster, unless such a member holds it
\* (docs/org-member-management-v1.md:271 and 449).
DraftsLeaveTheRoster ==
  [][\A u \in User :
       LET a == pendingActions[u]
           holder == characters[a.character].claimedBy
           next == characters'[a.character].claimedBy
       IN  whole' /\ a # None /\ a.draft =>
             /\ holder = None /\ next # None =>
                  \/ next = u /\ pendingActions'[u] = None
                  \/ next # u /\ members[next].status = "active" /\ UNCHANGED pendingActions
             /\ pendingActions'[u] = None =>
                  \/ members'[u].status = "active" /\ next = u
                  \/ /\ members'[u].status = "removed"
                     /\ holder = None => characters'[a.character].row = "deleted"]_vars

\* "do not delete real active characters", "only delete character drafts that were
\* created solely for a pending membership and never became active"
\* (docs/org-member-management-v1.md:448): a draft that a manager has assigned to an
\* active member outlives the pending membership.
AssignedDraftsStay ==
  [][\A u \in User :
       LET a == pendingActions[u]
           holder == characters[a.character].claimedBy
       IN  /\ a # None /\ pendingActions'[u] = None
           /\ holder # None /\ members[holder].status = "active"
           => characters'[a.character].row # "deleted"]_vars

\* A character passes from one user to another only by a claim request that the
\* other one accepts (docs/org-member-management-v1.md:564).
NoSilentTransfer ==
  [][\A c \in Character :
       LET holder == characters[c].claimedBy
           next == characters'[c].claimedBy IN
       holder # next /\ None \notin {holder, next}
         => [character |-> c, target |-> next] \in claimRequests]_vars

\* What is offered as available is only ever refused because of a reservation
\* that has expired and was not cleared, and what can be reserved is offered.
OfferedCanBeReserved ==
  \A c \in Character :
    /\ requireAvailableCharacter(c) => c \in AvailableCharacters
    /\ c \in AvailableCharacters /\ ~requireAvailableCharacter(c) =>
         \E u \in User \ PendingMembers :
           pendingActions[u] # None /\ pendingActions[u].character = c

\* The lists add up: a live character is on the roster, or is the draft of one
\* pending member whom the managers still see; nobody who finds the organization
\* among his own is missing from the lists of its members, but for an expiry; and
\* the card counts no more characters than the search finds and members bring.
ListsAddUp ==
  whole =>
    /\ \A c \in ManagementCharacters \ RosterCharacters :
         Cardinality({u \in PendingMembers : pendingActions[u].character = c}) = 1
    /\ \A c \in ManagementCharacters \ RosterCharacters, u \in PendingMembers :
         pendingActions[u].character = c => pendingActions[u].draft
    /\ \A u \in OwnOrganization \ (ActiveMembers \cup PendingMembers) :
         pendingActions[u].expired
    /\ Card.characterCount <=
         Cardinality(FoundCharacters(TRUE)) + Cardinality(PendingMembers)
    /\ Card.memberCount > 0 <=> organization # "absent"

\* An organization that was set up always has a game, and never two primary ones.
GamesAreKept ==
  whole /\ organization # "absent" =>
    /\ listed # {}
    /\ Cardinality({g \in Game : games[g] = "primary"}) <= 1

\* "claimed: character is currently owned by an active member"
\* (docs/org-member-management-v1.md:248): the holder of a character of a live
\* organization is an active member of it.
HeldByActiveMembers ==
  whole => \A c \in Character : live(c) /\ characters[c].claimedBy # None =>
             members[characters[c].claimedBy].status = "active"

-------------------------------------------------------------------------------
(* The requests keep the promise about members.                             *)

Lifecycle == INSTANCE MembershipLifecycle WITH
  standing <- [u \in User |->
    IF attached(u) THEN members[u] ELSE [status |-> "out", role |-> "none"]],
  door <- [u \in User |->
    IF pendingActions[u] = None THEN None ELSE pendingActions[u].kind]

\* Whole or stopped half way, a request takes a member only along the lifecycle
\* (docs/org-member-management-v1.md:196): nobody applies his way into a manager's
\* role, or comes back into the one he left with.
KeepsLifecycle == Lifecycle!Spec
===============================================================================
