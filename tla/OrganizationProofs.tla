--------------------------- MODULE OrganizationProofs ---------------------------
(***************************************************************************)
(* Proofs about the routes of one organization, for any number of users,   *)
(* characters, games and interrupted requests.                             *)
(***************************************************************************)
EXTENDS Organization, TLAPS, FiniteSetTheorems

-------------------------------------------------------------------------------
(* What the writes of the repositories keep.                                *)

LEMMA CreateOrReactivateType ==
  ASSUME members \in [User -> Member], NEW u \in User, NEW role \in Role,
         NEW status \in MemberStatus
  PROVE  createOrReactivate(u, role, status) \in [User -> Member]
BY DEF createOrReactivate, Member

LEMMA UpdateStatusType ==
  ASSUME members \in [User -> Member], NEW u \in User, NEW status \in MemberStatus
  PROVE  updateStatus(u, status) \in [User -> Member]
BY DEF updateStatus, Member

LEMMA UpdateRoleType ==
  ASSUME members \in [User -> Member], NEW u \in User, NEW role \in Role
  PROVE  updateRole(u, role) \in [User -> Member]
BY DEF updateRole, Member

LEMMA CreatePendingActionType ==
  ASSUME pendingActions \in [User -> PendingAction \cup {None}], NEW u \in User,
         NEW kind \in {"apply", "invite"}, NEW c \in Character, NEW draft \in BOOLEAN
  PROVE  createPendingAction(u, kind, c, draft) \in [User -> PendingAction \cup {None}]
<1>1. [kind |-> kind, character |-> c, draft |-> draft, expired |-> FALSE] \in PendingAction
  BY DEF PendingAction
<1> QED BY <1>1 DEF createPendingAction

LEMMA DeleteByMemberIdType ==
  ASSUME pendingActions \in [User -> PendingAction \cup {None}], NEW u \in User
  PROVE  deleteByMemberId(u) \in [User -> PendingAction \cup {None}]
BY DEF deleteByMemberId

LEMMA CreateCharacterType ==
  ASSUME characters \in [Character -> CharacterRow], NEW c \in Character,
         NEW u \in User \cup {None}, NEW g \in Game \cup {None}
  PROVE  createCharacter(c, u, g) \in [Character -> CharacterRow]
BY DEF createCharacter, CharacterRow

LEMMA ClaimForType ==
  ASSUME characters \in [Character -> CharacterRow], NEW c \in Character,
         NEW u \in User \cup {None}
  PROVE  claimFor(c, u) \in [Character -> CharacterRow]
BY DEF claimFor, CharacterRow

LEMMA DeleteCharacterType ==
  ASSUME characters \in [Character -> CharacterRow], NEW c \in Character
  PROVE  deleteCharacter(c) \in [Character -> CharacterRow]
BY DEF deleteCharacter, CharacterRow

LEMMA PrimaryAmongType ==
  ASSUME NEW table \in [Game -> GameRow], NEW g \in Game
  PROVE  primaryAmong(table, g) \in [Game -> GameRow]
BY DEF primaryAmong, GameRow

LEMMA RunsType ==
  ASSUME interrupted \in 0..MaxInterruptions, NEW k, NEW n \in Nat, runs(k, n)
  PROVE  /\ interrupted' \in 0..MaxInterruptions
         /\ k \in 1..n
         /\ whole' => whole /\ k = n
BY InterruptionsAreBounded DEF runs, whole

-------------------------------------------------------------------------------
(* The routes of Next, by what they do: several of them share a handler.    *)

Creates == \E u \in User, c \in Character, g \in Game, k \in 1..4 :
  CreateOrganization(u, c, g, k)

Enters(kind, u, role, c, draft, g, k) ==
  /\ organization = "live"
  /\ kind = "apply" => role = "member"
  /\ kind = "invite" => managed
  /\ ~attached(u)
  /\ reserves(kind, u, role, c, draft, g, k)

Approves(kind, u, k) == pendingFor(u, kind) /\ activates(u, k)

Refuses(kind, u, k) == pendingFor(u, kind) /\ releases(u, k)

Departs(u, status, k) == leavable(u) /\ departs(u, status, k)

MemberStep ==
  \/ \E kind \in {"apply", "invite"}, u \in User, role \in {"admin", "member"},
        c \in Character, draft \in BOOLEAN, g \in Game, k \in 1..4 :
       Enters(kind, u, role, c, draft, g, k)
  \/ \E u \in User, role \in {"admin", "member"}, c \in Character, k \in 1..4 :
       AddMember(u, role, c, k)
  \/ \E kind \in {"apply", "invite"}, u \in User, k \in 1..4 : Approves(kind, u, k)
  \/ \E kind \in {"apply", "invite"}, u \in User, k \in 1..4 : Refuses(kind, u, k)
  \/ \E u \in User, status \in {"left", "removed"}, k \in 1..4 : Departs(u, status, k)
  \/ \E u \in User : setsRole(u, "member", "admin") \/ setsRole(u, "admin", "member")
  \/ \E u \in User : PendingActionExpires(u)

CharacterStep ==
  \/ \E c \in Character, g \in Game : CreateCharacter(c, g)
  \/ \E c \in Character, isActive \in BOOLEAN, g \in Game \cup {None} :
       UpdateCharacter(c, isActive, g)
  \/ \E c \in Character, k \in 1..2 : DeleteCharacter(c, k)
  \/ \E c \in Character, k \in 1..2 : managed /\ unassignCharacter(c, k)
  \/ \E c \in Character, u \in User, k \in 1..2 : managed /\ assignCharacter(c, u, k)
  \/ \E c \in Character, u \in User : managed /\ createClaimRequest(c, u)
  \/ \E r \in claimRequests, k \in 1..3 : organization = "live" /\ acceptClaimRequest(r, k)
  \/ \E r \in claimRequests : organization = "live" /\ endsClaimRequest(r)

LEMMA Managed == managed => organization = "live"
BY DEF managed, isManager, isMember

LEMMA Owned == owned => organization = "live" /\ managed
BY DEF owned, managed, isOwner, isManager, isMember

\* Every step of Next is a step of one of these, or of the games.
LEMMA NextCases ==
  Next => Creates \/ MemberStep \/ CharacterStep \/ GamesNext \/ DeleteOrganization
<1>1. ASSUME NEW u \in User, NEW k \in 1..4,
             \E c \in Character, draft \in BOOLEAN, g \in Game : ApplyMember(u, c, draft, g, k)
      PROVE  MemberStep
  <2>1. PICK c \in Character, draft \in BOOLEAN, g \in Game : ApplyMember(u, c, draft, g, k)
    BY <1>1
  <2>2. Enters("apply", u, "member", c, draft, g, k)
    BY <2>1 DEF ApplyMember, Enters
  <2> QED BY <2>2 DEF MemberStep
<1>2. ASSUME NEW u \in User, NEW k \in 1..4,
             \E c \in Character, draft \in BOOLEAN, g \in Game, role \in {"admin", "member"} :
               InviteMember(u, role, c, draft, g, k)
      PROVE  MemberStep
  <2>1. PICK c \in Character, draft \in BOOLEAN, g \in Game, role \in {"admin", "member"} :
               InviteMember(u, role, c, draft, g, k)
    BY <1>2
  <2>2. Enters("invite", u, role, c, draft, g, k)
    BY <2>1, Managed DEF InviteMember, Enters
  <2> QED BY <2>2 DEF MemberStep
<1>3. ASSUME NEW u \in User, NEW k \in 1..4,
             \/ ApproveMember(u, k) \/ AcceptInvite(u, k)
             \/ RejectMember(u, k) \/ DeclineInvite(u, k) \/ CancelMember(u, k)
      PROVE  MemberStep
  <2>1. \E kind \in {"apply", "invite"} : Approves(kind, u, k) \/ Refuses(kind, u, k)
    BY <1>3
       DEF ApproveMember, AcceptInvite, RejectMember, DeclineInvite, CancelMember,
           approvePendingApply, acceptInvite, expires, finishPendingMembership,
           Approves, Refuses
  <2> QED BY <2>1 DEF MemberStep
<1>4. ASSUME NEW u \in User, NEW k \in 1..4,
             LeaveMember(u, k) \/ RemoveMember(u, k) \/ AppointAdmin(u) \/ RemoveAdmin(u)
      PROVE  MemberStep
  <2>1. \/ Departs(u, "left", k) \/ Departs(u, "removed", k)
        \/ setsRole(u, "member", "admin") \/ setsRole(u, "admin", "member")
    BY <1>4 DEF LeaveMember, RemoveMember, leaveActiveMembership, removeActiveMembership,
                AppointAdmin, RemoveAdmin, Departs
  <2> QED BY <2>1 DEF MemberStep
<1>5. MembershipNext => Creates \/ MemberStep
  BY <1>1, <1>2, <1>3, <1>4 DEF MembershipNext, Creates, MemberStep
<1>6. CharactersNext => CharacterStep
  BY DEF CharactersNext, CharacterStep, UnassignCharacter, UnclaimCharacter, AssignCharacter,
         ClaimCharacter, CreateClaimRequest
<1>7. RequestsNext => CharacterStep
  BY DEF RequestsNext, CharacterStep, AcceptClaimRequest, DeclineClaimRequest,
         declineClaimRequest, CancelClaimRequest, cancelClaimRequest
<1> QED BY <1>5, <1>6, <1>7 DEF Next

-------------------------------------------------------------------------------
(* Type correctness.                                                        *)

LEMMA MemberStepType == ASSUME TypeOK, MemberStep PROVE TypeOK'
<1> USE DEF TypeOK
<1>1. ASSUME NEW kind \in {"apply", "invite"}, NEW u \in User, NEW role \in {"admin", "member"},
             NEW c \in Character, NEW draft \in BOOLEAN, NEW g \in Game, NEW k \in 1..4,
             Enters(kind, u, role, c, draft, g, k)
      PROVE  TypeOK'
  BY <1>1, RunsType, CreateCharacterType, CreateOrReactivateType, CreatePendingActionType
     DEF Enters, reserves, written, Role, MemberStatus
<1>2. ASSUME NEW u \in User, NEW role \in {"admin", "member"}, NEW c \in Character,
             NEW k \in 1..4, AddMember(u, role, c, k)
      PROVE  TypeOK'
  BY <1>2, RunsType, ClaimForType, CreateOrReactivateType
     DEF AddMember, written, Role, MemberStatus
<1>3. ASSUME NEW kind, NEW u \in User, NEW k \in 1..4, Approves(kind, u, k)
      PROVE  TypeOK'
  <2>1. pendingActions[u].character \in Character
    BY <1>3 DEF Approves, pendingFor, PendingAction
  <2> QED
    BY <1>3, <2>1, RunsType, ClaimForType, UpdateStatusType, DeleteByMemberIdType
       DEF Approves, activates, written, MemberStatus
<1>4. ASSUME NEW kind, NEW u \in User, NEW k \in 1..4, Refuses(kind, u, k)
      PROVE  TypeOK'
  <2>1. pendingActions[u].character \in Character
    BY <1>4 DEF Refuses, pendingFor, PendingAction
  <2> QED
    BY <1>4, <2>1, RunsType, DeleteCharacterType, UpdateStatusType, DeleteByMemberIdType
       DEF Refuses, releases, written, MemberStatus
<1>5. ASSUME NEW u \in User, NEW status \in {"left", "removed"}, NEW k \in 1..4,
             Departs(u, status, k)
      PROVE  TypeOK'
  <2>1. characters' \in [Character -> CharacterRow]
    BY <1>5 DEF Departs, departs, CharacterRow
  <2>2. claimRequests' \subseteq ClaimRequest
    BY <1>5 DEF Departs, departs, written, withoutRequestsOf
  <2> QED
    BY <1>5, <2>1, <2>2, RunsType, UpdateStatusType DEF Departs, departs, written, MemberStatus
<1>6. ASSUME NEW u \in User, setsRole(u, "member", "admin") \/ setsRole(u, "admin", "member")
      PROVE  TypeOK'
  BY <1>6, UpdateRoleType DEF setsRole, Role
<1>7. ASSUME NEW u \in User, PendingActionExpires(u) PROVE TypeOK'
  BY <1>7 DEF PendingActionExpires, PendingAction
<1> QED
  BY <1>1, <1>2, <1>3, <1>4, <1>5, <1>6, <1>7 DEF MemberStep

LEMMA CharacterStepType == ASSUME TypeOK, CharacterStep PROVE TypeOK'
<1> USE DEF TypeOK
<1>1. ASSUME NEW c \in Character, NEW g \in Game, CreateCharacter(c, g) PROVE TypeOK'
  BY <1>1, CreateCharacterType DEF CreateCharacter
<1>2. ASSUME NEW c \in Character, NEW isActive \in BOOLEAN, NEW g \in Game \cup {None},
             UpdateCharacter(c, isActive, g)
      PROVE  TypeOK'
  BY <1>2 DEF UpdateCharacter, CharacterRow
<1>3. ASSUME NEW c \in Character, NEW k \in 1..2, DeleteCharacter(c, k) PROVE TypeOK'
  BY <1>3, RunsType, DeleteCharacterType DEF DeleteCharacter, written, withoutRequestsOn
<1>4. ASSUME NEW c \in Character, NEW k \in 1..2, unassignCharacter(c, k) PROVE TypeOK'
  BY <1>4, RunsType, ClaimForType DEF unassignCharacter, written, withoutRequestsOn
<1>5. ASSUME NEW c \in Character, NEW u \in User, NEW k \in 1..2, assignCharacter(c, u, k)
      PROVE  TypeOK'
  BY <1>5, RunsType, ClaimForType DEF assignCharacter, written, withoutRequestsOn
<1>6. ASSUME NEW c \in Character, NEW u \in User, createClaimRequest(c, u) PROVE TypeOK'
  BY <1>6 DEF createClaimRequest, ClaimRequest
<1>7. ASSUME NEW r \in claimRequests, NEW k \in 1..3, acceptClaimRequest(r, k) PROVE TypeOK'
  <2>1. r.character \in Character /\ r.target \in User
    BY DEF ClaimRequest
  <2> QED
    BY <1>7, <2>1, RunsType, ClaimForType DEF acceptClaimRequest, written, withoutRequestsOn
<1>8. ASSUME NEW r \in claimRequests, endsClaimRequest(r) PROVE TypeOK'
  BY <1>8 DEF endsClaimRequest
<1> QED
  BY <1>1, <1>2, <1>3, <1>4, <1>5, <1>6, <1>7, <1>8 DEF CharacterStep

LEMMA GamesStepType == ASSUME TypeOK, GamesNext PROVE TypeOK'
<1> USE DEF TypeOK
<1>1. ASSUME NEW g \in Game, NEW isPrimary \in BOOLEAN, NEW k \in 1..2,
             CreateGame(g, isPrimary, k) \/ UpdateGame(g, isPrimary, k)
      PROVE  TypeOK'
  <2>1. [games EXCEPT ![g] = IF isPrimary THEN "primary" ELSE "listed"] \in [Game -> GameRow]
    BY DEF GameRow
  <2>2. CASE CreateGame(g, isPrimary, k)
    BY <2>1, <2>2, RunsType, PrimaryAmongType DEF CreateGame
  <2>3. CASE UpdateGame(g, isPrimary, k)
    BY <2>1, <2>3, RunsType, PrimaryAmongType DEF UpdateGame
  <2> QED BY <1>1, <2>2, <2>3
<1>2. ASSUME NEW g \in Game, NEW next \in Game, NEW k \in 1..2, DeleteGame(g, next, k)
      PROVE  TypeOK'
  <2>1. [games EXCEPT ![g] = "absent"] \in [Game -> GameRow]
    BY DEF GameRow
  <2> QED BY <1>2, <2>1, RunsType, PrimaryAmongType DEF DeleteGame
<1>3. ASSUME NEW g \in Game, SetPrimaryGame(g) PROVE TypeOK'
  BY <1>3, PrimaryAmongType DEF SetPrimaryGame
<1> QED
  BY <1>1, <1>2, <1>3 DEF GamesNext

LEMMA TypeStep == ASSUME TypeOK, [Next]_vars PROVE TypeOK'
<1>1. CASE UNCHANGED vars
  BY <1>1 DEF vars, TypeOK
<1>2. CASE Creates
  <2>1. PICK u \in User, c \in Character, g \in Game, k \in 1..4 : CreateOrganization(u, c, g, k)
    BY <1>2 DEF Creates
  <2>2. ensureOrganizationInitialGame(g) \in [Game -> GameRow]
    BY DEF ensureOrganizationInitialGame, TypeOK, GameRow
  <2> QED
    BY <2>1, <2>2, RunsType, CreateOrReactivateType, CreateCharacterType
       DEF CreateOrganization, written, TypeOK, Role, MemberStatus
<1>3. CASE DeleteOrganization
  BY <1>3 DEF DeleteOrganization, TypeOK
<1> QED
  BY <1>1, <1>2, <1>3, NextCases, MemberStepType, CharacterStepType, GamesStepType

LEMMA InitType == Init => TypeOK
BY InterruptionsAreBounded
   DEF Init, TypeOK, Member, MemberStatus, Role, CharacterRow, GameRow

\* Every table keeps the statuses, roles and references of its own columns,
\* wherever the requests that wrote it stopped.
THEOREM TypeCorrect == Spec => []TypeOK
<1>1. Init => TypeOK
  BY InitType
<1>2. TypeOK /\ [Next]_vars => TypeOK'
  BY TypeStep
<1> QED BY <1>1, <1>2, PTL DEF Spec

-------------------------------------------------------------------------------
(* The tables and one another.  The invariants the runs check are not       *)
(* inductive one by one: a draft can be reserved because no action names a  *)
(* character that does not exist, an owner stays alone because nobody who   *)
(* is out of the organization can have kept the role, and a request may     *)
(* only rely on either once the organization is there.                      *)

\* Nothing refers to a character before it is created.
CharactersExist ==
  \A c \in Character : characters[c].row = "absent" =>
    /\ characters[c].claimedBy = None
    /\ ~reserved(c)
    /\ \A r \in claimRequests : r.character # c

\* Nothing is written before the organization is.
Unfounded ==
  organization = "absent" =>
    /\ \A u \in User : members[u].status = "absent" /\ members[u].role = "member"
    /\ \A u \in User : pendingActions[u] = None
    /\ listed = {}

\* There is one owner, who is active, or the creation stopped before him: then
\* there are no managers at all.
OwnerLeads ==
  /\ \A u \in User : members[u].role = "owner" => members[u].status = "active"
  /\ \A u, v \in User : members[u].role = "owner" /\ members[v].role = "owner" => u = v
  /\ \A u \in User : members[u].role # "member" => \E v \in User : members[v].role = "owner"
  /\ whole /\ organization # "absent" => \E u \in User : members[u].role = "owner"

IInv ==
  /\ TypeOK /\ CharactersExist /\ Unfounded /\ OwnerLeads
  /\ PendingHasReservation /\ OpenRequestsAreTransfers

-------------------------------------------------------------------------------
(* Requests that write neither members nor pending actions.                 *)

LEMMA CharacterStepLeaves ==
  CharacterStep => UNCHANGED <<organization, members, pendingActions, games>> /\ organization = "live"
BY Managed
   DEF CharacterStep, CreateCharacter, UpdateCharacter, DeleteCharacter, unassignCharacter,
       assignCharacter, createClaimRequest, acceptClaimRequest, endsClaimRequest

LEMMA GamesStepLeaves ==
  GamesNext => UNCHANGED <<organization, members, pendingActions, characters, claimRequests>>
                 /\ organization = "live"
BY Managed DEF GamesNext, CreateGame, UpdateGame, DeleteGame, SetPrimaryGame

\* A request that stops early is counted for good.
LEMMA WholeBefore == ASSUME TypeOK, Next, whole' PROVE whole
<1> DEFINE Counted == UNCHANGED interrupted \/ \E k, n : runs(k, n)
<1>1. Creates => Counted
  BY DEF Creates, CreateOrganization
<1>2. MemberStep => Counted
  <2>1. ASSUME NEW kind, NEW u, NEW role, NEW c, NEW draft, NEW g, NEW k,
               \/ Enters(kind, u, role, c, draft, g, k) \/ AddMember(u, role, c, k)
               \/ Approves(kind, u, k) \/ Refuses(kind, u, k)
        PROVE  Counted
    BY <2>1 DEF Enters, reserves, AddMember, Approves, activates, Refuses, releases
  <2>2. ASSUME NEW u, NEW status, NEW k,
               \/ Departs(u, status, k) \/ PendingActionExpires(u)
               \/ setsRole(u, "member", "admin") \/ setsRole(u, "admin", "member")
        PROVE  Counted
    BY <2>2 DEF Departs, departs, setsRole, PendingActionExpires
  <2> QED BY <2>1, <2>2 DEF MemberStep
<1>3. CharacterStep => Counted
  BY DEF CharacterStep, CreateCharacter, UpdateCharacter, DeleteCharacter, unassignCharacter,
         assignCharacter, createClaimRequest, acceptClaimRequest, endsClaimRequest
<1>4. GamesNext => Counted
  BY DEF GamesNext, CreateGame, UpdateGame, DeleteGame, SetPrimaryGame
<1>5. DeleteOrganization => Counted
  BY DEF DeleteOrganization
<1>6. Counted => (interrupted' = 0 => interrupted = 0)
  BY DEF TypeOK, runs
<1> QED BY <1>1, <1>2, <1>3, <1>4, <1>5, <1>6, NextCases DEF whole

-------------------------------------------------------------------------------
(* Members and their pending actions.                                       *)

\* What a request of the members' routes does to one member and to his action;
\* everybody else's row and action stay as they are.
Touches(u) ==
  \A v \in User \ {u} : members'[v] = members[v] /\ pendingActions'[v] = pendingActions[v]

LEMMA EntersMember ==
  ASSUME TypeOK, NEW kind, NEW u \in User, NEW role, NEW c, NEW draft, NEW g, NEW k,
         Enters(kind, u, role, c, draft, g, k)
  PROVE  /\ Touches(u)
         /\ members'[u] = members[u] \/ members'[u] = [status |-> "pending", role |-> role]
         /\ whole' => members'[u].status = "pending"
BY RunsType
   DEF Enters, reserves, written, createOrReactivate, createPendingAction, Touches, TypeOK

\* The row createPendingAction inserts.
newAction(kind, c, draft) ==
  [kind |-> kind, character |-> c, draft |-> draft, expired |-> FALSE]

LEMMA EntersAction ==
  ASSUME TypeOK, NEW kind, NEW u \in User, NEW role, NEW c, NEW draft, NEW g, NEW k,
         Enters(kind, u, role, c, draft, g, k)
  PROVE  /\ \/ pendingActions'[u] = pendingActions[u]
            \/ pendingActions[u] = None /\ ~reserved(c) /\ pendingActions'[u] = newAction(kind, c, draft)
         /\ whole' /\ pendingActions[u] = None /\ ~reserved(c) =>
              pendingActions'[u] = newAction(kind, c, draft)
BY RunsType
   DEF Enters, reserves, written, createPendingAction, newAction, TypeOK

LEMMA AddsMember ==
  ASSUME TypeOK, NEW u \in User, NEW role \in {"admin", "member"}, NEW c \in Character,
         NEW k \in 1..4, AddMember(u, role, c, k)
  PROVE  /\ Touches(u) /\ pendingActions'[u] = pendingActions[u]
         /\ members'[u] = members[u] \/ members'[u] = [status |-> "active", role |-> role]
         /\ whole' => members'[u].status = "active"
BY RunsType DEF AddMember, written, createOrReactivate, Touches, TypeOK

LEMMA ApprovesMember ==
  ASSUME TypeOK, NEW kind, NEW u \in User, NEW k \in 1..4, Approves(kind, u, k)
  PROVE  /\ Touches(u) /\ members[u].status = "pending" /\ pendingActions[u] # None
         /\ members'[u].role = members[u].role
         /\ members'[u].status \in {"pending", "active"}
         /\ pendingActions'[u] \in {pendingActions[u], None}
         /\ whole' => members'[u].status = "active" /\ pendingActions'[u] = None
BY RunsType
   DEF Approves, pendingFor, activates, written, updateStatus, deleteByMemberId, Touches,
       TypeOK, Member

LEMMA RefusesMember ==
  ASSUME TypeOK, NEW kind, NEW u \in User, NEW k \in 1..4, Refuses(kind, u, k)
  PROVE  /\ Touches(u) /\ members[u].status = "pending" /\ pendingActions[u] # None
         /\ members'[u].role = members[u].role
         /\ members'[u].status \in {"pending", "removed"}
         /\ pendingActions'[u] \in {pendingActions[u], None}
         /\ whole' => members'[u].status = "removed" /\ pendingActions'[u] = None
BY RunsType
   DEF Refuses, pendingFor, releases, written, updateStatus, deleteByMemberId, Touches,
       TypeOK, Member

LEMMA DepartsMember ==
  ASSUME TypeOK, NEW u \in User, NEW status \in {"left", "removed"}, NEW k \in 1..4,
         Departs(u, status, k)
  PROVE  /\ Touches(u) /\ pendingActions'[u] = pendingActions[u]
         /\ members[u].status = "active" /\ members[u].role # "owner"
         /\ members'[u].role = members[u].role
         /\ members'[u].status \in {"active", status}
BY DEF Departs, leavable, isMember, departs, written, updateStatus, Touches, TypeOK, Member

LEMMA SetsRoleMember ==
  ASSUME TypeOK, NEW u \in User,
         setsRole(u, "member", "admin") \/ setsRole(u, "admin", "member")
  PROVE  /\ Touches(u) /\ pendingActions'[u] = pendingActions[u]
         /\ members[u].status = "active" /\ members[u].role # "owner"
         /\ members'[u].status = "active" /\ members'[u].role \in {"admin", "member"}
BY DEF setsRole, isMember, updateRole, Touches, TypeOK, Member

\* Only the creation writes an owner, and it finds no member at all.
LEMMA CreatesMember ==
  ASSUME TypeOK, NEW u \in User, NEW c \in Character, NEW g \in Game, NEW k \in 1..4,
         CreateOrganization(u, c, g, k)
  PROVE  /\ Touches(u) /\ pendingActions' = pendingActions
         /\ organization = "absent" /\ organization' = "live"
         /\ members'[u] = members[u] \/ members'[u] = [status |-> "active", role |-> "owner"]
         /\ whole' => members'[u] = [status |-> "active", role |-> "owner"]
BY RunsType DEF CreateOrganization, written, createOrReactivate, Touches, TypeOK

LEMMA MemberStepLive ==
  ASSUME Unfounded, MemberStep
  PROVE  organization # "absent" /\ organization' = organization
<1>1. ASSUME NEW kind, NEW u, NEW role, NEW c, NEW draft, NEW g, NEW k,
             \/ Enters(kind, u, role, c, draft, g, k) \/ AddMember(u, role, c, k)
             \/ Approves(kind, u, k) \/ Refuses(kind, u, k)
      PROVE  organization = "live" /\ organization' = organization
  BY <1>1, Managed
     DEF Enters, reserves, AddMember, Approves, activates, Refuses, releases, pendingFor
<1>2. ASSUME NEW u, NEW status, NEW k,
             \/ Departs(u, status, k)
             \/ setsRole(u, "member", "admin") \/ setsRole(u, "admin", "member")
      PROVE  organization = "live" /\ organization' = organization
  BY <1>2, Owned DEF Departs, leavable, isMember, departs, setsRole
<1>3. ASSUME NEW u \in User, PendingActionExpires(u)
      PROVE  organization # "absent" /\ organization' = organization
  BY <1>3 DEF PendingActionExpires, Unfounded
<1> QED BY <1>1, <1>2, <1>3 DEF MemberStep

\* The request changes u, who was not the owner and does not become one, and
\* makes a manager of him only where there is an owner.
KeepsOwner(u) ==
  /\ Touches(u)
  /\ members[u].role # "owner" /\ members'[u].role # "owner"
  /\ members'[u].role # "member" => \E v \in User : members[v].role = "owner"

LEMMA OwnerStep ==
  ASSUME IInv, Next
  PROVE  OwnerLeads'
<1> USE DEF IInv
<1>1. whole' => whole
  BY WholeBefore
<1>2. CASE Creates
  BY <1>2, CreatesMember DEF Creates, Touches, Unfounded, OwnerLeads
<1>3. CASE DeleteOrganization
  BY <1>3, <1>1 DEF DeleteOrganization, owned, isOwner, isMember, OwnerLeads
<1>4. CASE CharacterStep \/ GamesNext
  BY <1>4, <1>1, CharacterStepLeaves, GamesStepLeaves DEF OwnerLeads
<1>5. CASE MemberStep
  <2>1. members' = members \/ \E u \in User : KeepsOwner(u)
    <3>1. managed => \E v \in User : members[v].role = "owner"
      BY DEF managed, isManager, OwnerLeads
    <3>2. ASSUME NEW kind \in {"apply", "invite"}, NEW u \in User,
                 NEW role \in {"admin", "member"}, NEW c \in Character,
                 NEW draft \in BOOLEAN, NEW g \in Game, NEW k \in 1..4,
                 Enters(kind, u, role, c, draft, g, k)
          PROVE  KeepsOwner(u)
      <4>1. members[u].role # "owner"
        BY <3>2 DEF Enters, attached, OwnerLeads
      <4>2. role # "member" => managed
        BY <3>2 DEF Enters
      <4>3. /\ Touches(u)
            /\ members'[u] = members[u] \/ members'[u] = [status |-> "pending", role |-> role]
        BY <3>2, EntersMember
      <4> QED BY <3>1, <4>1, <4>2, <4>3 DEF OwnerLeads, KeepsOwner
    <3>3. ASSUME NEW u \in User, NEW role \in {"admin", "member"}, NEW c \in Character,
                 NEW k \in 1..4, AddMember(u, role, c, k)
          PROVE  KeepsOwner(u)
      <4>1. members[u].role # "owner" /\ managed
        BY <3>3 DEF AddMember, attached, OwnerLeads
      <4> QED BY <3>1, <3>3, <4>1, AddsMember DEF KeepsOwner
    <3>4. ASSUME NEW kind \in {"apply", "invite"}, NEW u \in User, NEW k \in 1..4,
                 Approves(kind, u, k) \/ Refuses(kind, u, k)
          PROVE  KeepsOwner(u)
      BY <3>4, ApprovesMember, RefusesMember DEF OwnerLeads, KeepsOwner
    <3>5. ASSUME NEW u \in User, NEW status \in {"left", "removed"}, NEW k \in 1..4,
                 Departs(u, status, k)
          PROVE  KeepsOwner(u)
      BY <3>5, DepartsMember DEF OwnerLeads, KeepsOwner
    <3>6. ASSUME NEW u \in User,
                 setsRole(u, "member", "admin") \/ setsRole(u, "admin", "member")
          PROVE  KeepsOwner(u)
      BY <3>1, <3>6, SetsRoleMember, Owned DEF setsRole, KeepsOwner
    <3>7. ASSUME NEW u \in User, PendingActionExpires(u)
          PROVE  members' = members
      BY <3>7 DEF PendingActionExpires
    <3> QED BY <1>5, <3>2, <3>3, <3>4, <3>5, <3>6, <3>7 DEF MemberStep
  <2>2. organization # "absent" /\ organization' = organization
    BY <1>5, MemberStepLive
  <2>3. ASSUME NEW u \in User, KeepsOwner(u) PROVE OwnerLeads'
    <3>1. \A v \in User : members'[v].role = "owner" <=> members[v].role = "owner"
      BY <2>3 DEF KeepsOwner, Touches
    <3>2. \A v \in User : members[v].role = "owner" => members'[v] = members[v]
      BY <2>3 DEF KeepsOwner, Touches
    <3>3. \A v \in User : members'[v].role # "member" => \E w \in User : members[w].role = "owner"
      BY <2>3 DEF KeepsOwner, Touches, OwnerLeads
    <3> QED BY <1>1, <2>2, <3>1, <3>2, <3>3 DEF OwnerLeads
  <2>4. CASE members' = members
    BY <1>1, <2>2, <2>4 DEF OwnerLeads
  <2> QED BY <2>1, <2>3, <2>4
<1> QED BY <1>2, <1>3, <1>4, <1>5, NextCases

LEMMA UnfoundedStep == ASSUME IInv, Next PROVE Unfounded'
<1>1. organization' # "absent"
  BY MemberStepLive, CharacterStepLeaves, GamesStepLeaves, NextCases
     DEF IInv, Creates, CreateOrganization, DeleteOrganization
<1> QED BY <1>1 DEF Unfounded

\* A character that is not created stays as it is.
AbsentStay ==
  \A c \in Character : characters'[c].row = "absent" => characters'[c] = characters[c]

LEMMA MemberStepAbsent == ASSUME TypeOK, MemberStep PROVE AbsentStay
<1> USE DEF TypeOK, CharacterRow, AbsentStay
<1>1. ASSUME NEW kind, NEW u \in User, NEW role, NEW c \in Character, NEW draft \in BOOLEAN,
             NEW g \in Game, NEW k, Enters(kind, u, role, c, draft, g, k)
      PROVE  AbsentStay
  BY <1>1 DEF Enters, reserves, written, createCharacter
<1>2. ASSUME NEW u \in User, NEW role, NEW c \in Character, NEW k, AddMember(u, role, c, k)
      PROVE  AbsentStay
  BY <1>2 DEF AddMember, requireAvailableCharacter, available, live, claimFor
<1>3. ASSUME NEW kind, NEW u \in User, NEW k, Approves(kind, u, k) PROVE AbsentStay
  BY <1>3 DEF Approves, activates, live, claimFor
<1>4. ASSUME NEW kind, NEW u \in User, NEW k, Refuses(kind, u, k) PROVE AbsentStay
  BY <1>4 DEF Refuses, releases, written, deleteCharacter
<1>5. ASSUME NEW u \in User, NEW status, NEW k, Departs(u, status, k) PROVE AbsentStay
  BY <1>5 DEF Departs, departs, listByOrganizationAndUser, live
<1>6. ASSUME NEW u \in User,
             \/ setsRole(u, "member", "admin") \/ setsRole(u, "admin", "member")
             \/ PendingActionExpires(u)
      PROVE  AbsentStay
  BY <1>6 DEF setsRole, PendingActionExpires
<1> QED BY <1>1, <1>2, <1>3, <1>4, <1>5, <1>6 DEF MemberStep

LEMMA CharacterStepAbsent == ASSUME TypeOK, CharacterStep PROVE AbsentStay
<1> USE DEF TypeOK, AbsentStay
<1>1. ASSUME NEW c \in Character, NEW g \in Game, CreateCharacter(c, g) PROVE AbsentStay
  BY <1>1 DEF CreateCharacter, createCharacter
<1>2. ASSUME NEW c \in Character, NEW isActive, NEW g, UpdateCharacter(c, isActive, g)
      PROVE  AbsentStay
  BY <1>2 DEF UpdateCharacter, live, CharacterRow
<1>3. ASSUME NEW c \in Character, NEW u, NEW k,
             \/ DeleteCharacter(c, k) \/ unassignCharacter(c, k)
             \/ assignCharacter(c, u, k) \/ createClaimRequest(c, u)
      PROVE  AbsentStay
  BY <1>3 DEF DeleteCharacter, deleteCharacter, unassignCharacter, assignCharacter,
              createClaimRequest, available, live, claimFor, written, CharacterRow
<1>4. ASSUME NEW r \in claimRequests, NEW k, acceptClaimRequest(r, k) \/ endsClaimRequest(r)
      PROVE  AbsentStay
  BY <1>4 DEF acceptClaimRequest, endsClaimRequest, live, claimFor, CharacterRow
<1> QED BY <1>1, <1>2, <1>3, <1>4 DEF CharacterStep

LEMMA AbsentStep == ASSUME TypeOK, Next PROVE AbsentStay
<1>1. Creates => AbsentStay
  BY DEF Creates, CreateOrganization, written, createCharacter, TypeOK, AbsentStay
<1>2. DeleteOrganization => AbsentStay
  BY DEF DeleteOrganization, AbsentStay
<1> QED
  BY <1>1, <1>2, GamesStepLeaves, MemberStepAbsent, CharacterStepAbsent, NextCases
     DEF AbsentStay

\* A pending action is new only for a character that is there when the request
\* is over.
LEMMA NewReservations ==
  ASSUME IInv, MemberStep, NEW u \in User, pendingActions'[u] # None
  PROVE  \/ pendingActions[u] # None /\ pendingActions'[u].character = pendingActions[u].character
         \/ characters'[pendingActions'[u].character].row # "absent"
<1> USE DEF IInv
<1>1. ASSUME NEW kind \in {"apply", "invite"}, NEW v \in User, NEW role \in {"admin", "member"},
             NEW c \in Character, NEW draft \in BOOLEAN, NEW g \in Game, NEW k \in 1..4,
             Enters(kind, v, role, c, draft, g, k)
      PROVE  \/ pendingActions'[u] = pendingActions[u]
             \/ characters'[pendingActions'[u].character].row # "absent"
  <2>1. characters'[c].row # "absent"
    BY <1>1 DEF Enters, reserves, requireAvailableCharacter, available, live, written,
                createCharacter, TypeOK
  <2>2. u # v => pendingActions'[u] = pendingActions[u]
    BY <1>1, EntersMember DEF Touches
  <2>3. \/ pendingActions'[v] = pendingActions[v]
        \/ pendingActions'[v] = newAction(kind, c, draft)
    BY <1>1, EntersAction
  <2> QED BY <2>1, <2>2, <2>3 DEF newAction
<1>2. ASSUME NEW v \in User, NEW role \in {"admin", "member"}, NEW c \in Character,
             NEW k \in 1..4, AddMember(v, role, c, k)
      PROVE  pendingActions'[u] = pendingActions[u]
  BY <1>2 DEF AddMember
<1>3. ASSUME NEW kind \in {"apply", "invite"}, NEW v \in User, NEW k \in 1..4,
             Approves(kind, v, k) \/ Refuses(kind, v, k)
      PROVE  pendingActions'[u] \in {pendingActions[u], None}
  BY <1>3, ApprovesMember, RefusesMember DEF Touches
<1>4. ASSUME NEW v \in User, NEW status \in {"left", "removed"}, NEW k \in 1..4,
             \/ Departs(v, status, k)
             \/ setsRole(v, "member", "admin") \/ setsRole(v, "admin", "member")
      PROVE  pendingActions'[u] = pendingActions[u]
  BY <1>4 DEF Departs, departs, setsRole
<1>5. ASSUME NEW v \in User, PendingActionExpires(v)
      PROVE  pendingActions[u] # None /\ pendingActions'[u].character = pendingActions[u].character
  BY <1>5 DEF PendingActionExpires, TypeOK, PendingAction
<1> QED BY <1>1, <1>2, <1>3, <1>4, <1>5 DEF MemberStep

\* A claim request is new only for a live character.
LEMMA NewRequests ==
  ASSUME TypeOK, Next, NEW r \in claimRequests'
  PROVE  r \in claimRequests \/ live(r.character)
<1>1. CASE Creates \/ GamesNext \/ DeleteOrganization
  BY <1>1, GamesStepLeaves DEF Creates, CreateOrganization, DeleteOrganization
<1>2. CASE MemberStep
  <2>1. ASSUME NEW kind, NEW u, NEW role, NEW c, NEW draft, NEW g, NEW k,
               \/ Enters(kind, u, role, c, draft, g, k) \/ AddMember(u, role, c, k)
               \/ Approves(kind, u, k) \/ Refuses(kind, u, k)
        PROVE  claimRequests' = claimRequests
    BY <2>1 DEF Enters, reserves, AddMember, Approves, activates, Refuses, releases
  <2>2. ASSUME NEW u, NEW status, NEW k,
               \/ Departs(u, status, k) \/ PendingActionExpires(u)
               \/ setsRole(u, "member", "admin") \/ setsRole(u, "admin", "member")
        PROVE  claimRequests' \subseteq claimRequests
    BY <2>2 DEF Departs, departs, setsRole, PendingActionExpires, written, withoutRequestsOf
  <2> QED BY <1>2, <2>1, <2>2 DEF MemberStep
<1>3. CASE CharacterStep
  <2>1. ASSUME NEW c, NEW g, NEW isActive, NEW k, NEW u,
               \/ CreateCharacter(c, g) \/ UpdateCharacter(c, isActive, g)
               \/ DeleteCharacter(c, k) \/ unassignCharacter(c, k) \/ assignCharacter(c, u, k)
        PROVE  claimRequests' \subseteq claimRequests
    BY <2>1 DEF CreateCharacter, UpdateCharacter, DeleteCharacter, unassignCharacter,
                assignCharacter, written, withoutRequestsOn
  <2>2. ASSUME NEW c, NEW u, createClaimRequest(c, u)
        PROVE  r \in claimRequests \/ live(r.character)
    BY <2>2 DEF createClaimRequest
  <2>3. ASSUME NEW q \in claimRequests, NEW k, acceptClaimRequest(q, k) \/ endsClaimRequest(q)
        PROVE  claimRequests' \subseteq claimRequests
    BY <2>3 DEF acceptClaimRequest, endsClaimRequest, withoutRequestsOn
  <2> QED BY <1>3, <2>1, <2>2, <2>3 DEF CharacterStep
<1> QED BY <1>1, <1>2, <1>3, NextCases

LEMMA CharactersExistStep == ASSUME IInv, Next PROVE CharactersExist'
<1> USE DEF IInv
<1> SUFFICES ASSUME NEW c \in Character, characters'[c].row = "absent"
             PROVE  /\ characters'[c].claimedBy = None
                    /\ ~reserved(c)'
                    /\ \A r \in claimRequests' : r.character # c
  BY DEF CharactersExist
<1>1. characters[c].row = "absent" /\ characters'[c].claimedBy = None
  BY AbsentStep DEF AbsentStay, CharactersExist
<1>2. ASSUME NEW u \in User, pendingActions'[u] # None, pendingActions'[u].character = c
      PROVE  pendingActions[u] # None /\ pendingActions[u].character = c
  <2>1. CASE MemberStep
    BY <2>1, <1>2, NewReservations
  <2>2. CASE Creates
    BY <2>2, <1>2 DEF Creates, CreateOrganization
  <2>3. CASE CharacterStep \/ GamesNext \/ DeleteOrganization
    BY <2>3, <1>2, CharacterStepLeaves, GamesStepLeaves DEF DeleteOrganization
  <2> QED BY <2>1, <2>2, <2>3, NextCases
<1>3. ~reserved(c)'
  BY <1>1, <1>2 DEF CharactersExist, reserved
<1>4. ASSUME NEW r \in claimRequests', r.character = c PROVE r \in claimRequests
  BY <1>1, <1>4, NewRequests DEF live
<1> QED BY <1>1, <1>3, <1>4 DEF CharactersExist

-------------------------------------------------------------------------------
(* Reservations.                                                            *)

\* One member and his action change; he is pending afterwards if and only if he
\* has an action, and nobody else's action names the same character.
LEMMA ReservationKept ==
  ASSUME TypeOK, whole, PendingHasReservation, NEW u \in User, Touches(u),
         members'[u].status = "pending" <=> pendingActions'[u] # None,
         pendingActions'[u] # None =>
           \A v \in User \ {u} : pendingActions[v] # None =>
             pendingActions[v].character # pendingActions'[u].character
  PROVE  PendingHasReservation'
BY DEF PendingHasReservation, Touches

LEMMA ReservationStep == ASSUME IInv, Next PROVE PendingHasReservation'
<1> USE DEF IInv
<1> SUFFICES ASSUME whole' PROVE PendingHasReservation'
  BY DEF PendingHasReservation
<1>0. whole /\ PendingHasReservation
  BY WholeBefore
<1>1. CASE Creates
  <2>1. PICK u \in User, c \in Character, g \in Game, k \in 1..4 : CreateOrganization(u, c, g, k)
    BY <1>1 DEF Creates
  <2>2. /\ Touches(u) /\ pendingActions'[u] = None
        /\ members'[u].status # "pending"
    BY <2>1, CreatesMember DEF Unfounded
  <2> QED BY <1>0, <2>2, ReservationKept
<1>2. CASE CharacterStep \/ GamesNext \/ DeleteOrganization
  BY <1>0, <1>2, CharacterStepLeaves, GamesStepLeaves
     DEF DeleteOrganization, PendingHasReservation
<1>3. ASSUME NEW kind \in {"apply", "invite"}, NEW u \in User, NEW role \in {"admin", "member"},
             NEW c \in Character, NEW draft \in BOOLEAN, NEW g \in Game, NEW k \in 1..4,
             Enters(kind, u, role, c, draft, g, k)
      PROVE  PendingHasReservation'
  <2>1. pendingActions[u] = None
    BY <1>0, <1>3 DEF Enters, attached, PendingHasReservation
  <2>2. ~reserved(c)
    BY <1>3 DEF Enters, reserves, requireAvailableCharacter, CharactersExist
  <2>3. pendingActions'[u] = newAction(kind, c, draft)
    BY <1>3, <2>1, <2>2, EntersAction
  <2>4. newAction(kind, c, draft) \in PendingAction /\ newAction(kind, c, draft).character = c
    BY DEF PendingAction, newAction
  <2>5. Touches(u) /\ members'[u].status = "pending"
    BY <1>3, EntersMember, Zenon
  <2>6. pendingActions'[u] # None
    BY <2>3, <2>4, NoneIsNoAction
  <2> QED BY <1>0, <2>2, <2>3, <2>4, <2>5, <2>6, ReservationKept DEF reserved
<1>4. ASSUME NEW u \in User, NEW role \in {"admin", "member"}, NEW c \in Character,
             NEW k \in 1..4, AddMember(u, role, c, k)
      PROVE  PendingHasReservation'
  <2>1. pendingActions[u] = None
    BY <1>0, <1>4 DEF AddMember, attached, PendingHasReservation
  <2> QED BY <1>0, <1>4, <2>1, AddsMember, ReservationKept
<1>5. ASSUME NEW kind \in {"apply", "invite"}, NEW u \in User, NEW k \in 1..4,
             Approves(kind, u, k) \/ Refuses(kind, u, k)
      PROVE  PendingHasReservation'
  BY <1>0, <1>5, ApprovesMember, RefusesMember, ReservationKept
<1>6. ASSUME NEW u \in User, NEW status \in {"left", "removed"}, NEW k \in 1..4,
             \/ Departs(u, status, k)
             \/ setsRole(u, "member", "admin") \/ setsRole(u, "admin", "member")
      PROVE  PendingHasReservation'
  <2>1. /\ Touches(u) /\ pendingActions'[u] = pendingActions[u]
        /\ members[u].status = "active" /\ members'[u].status # "pending"
    BY <1>6, DepartsMember, SetsRoleMember
  <2> QED BY <1>0, <2>1, ReservationKept DEF PendingHasReservation
<1>7. ASSUME NEW u \in User, PendingActionExpires(u) PROVE PendingHasReservation'
  <2>1. /\ members' = members
        /\ \A v \in User : /\ pendingActions'[v] # None <=> pendingActions[v] # None
                           /\ pendingActions[v] # None =>
                                pendingActions'[v].character = pendingActions[v].character
    BY <1>7, NoneIsNoAction DEF PendingActionExpires, TypeOK, PendingAction
  <2> QED BY <1>0, <2>1 DEF PendingHasReservation
<1> QED
  BY <1>1, <1>2, <1>3, <1>4, <1>5, <1>6, <1>7, NextCases DEF MemberStep

-------------------------------------------------------------------------------
(* Claim requests.                                                          *)

\* Every request that is open afterwards was open, and its character, if it is
\* still there, has the holder it had.
SameHolders ==
  \A r \in claimRequests' :
    /\ r \in claimRequests
    /\ characters'[r.character].row = "live" =>
         /\ live(r.character)
         /\ characters'[r.character].claimedBy = characters[r.character].claimedBy

LEMMA SameHoldersKeep ==
  ASSUME OpenRequestsAreTransfers, whole, SameHolders
  PROVE  OpenRequestsAreTransfers'
BY DEF SameHolders, OpenRequestsAreTransfers, live

LEMMA MemberStepHolders ==
  ASSUME IInv, whole, whole', MemberStep
  PROVE  SameHolders
<1> USE DEF IInv, TypeOK
<1>0. \A r \in claimRequests : r.character \in Character /\ r.target \in User
  BY DEF ClaimRequest
<1>1. ASSUME NEW kind, NEW u \in User, NEW role, NEW c \in Character, NEW draft \in BOOLEAN,
             NEW g, NEW k, Enters(kind, u, role, c, draft, g, k)
      PROVE  SameHolders
  BY <1>0, <1>1
     DEF Enters, reserves, written, createCharacter, CharactersExist, SameHolders, live
<1>2. ASSUME NEW u \in User, NEW role, NEW c \in Character, NEW k, AddMember(u, role, c, k)
      PROVE  SameHolders
  <2>1. \A r \in claimRequests : r.character # c
    BY <1>2 DEF AddMember, requireAvailableCharacter, available, OpenRequestsAreTransfers
  <2> QED BY <1>0, <1>2, <2>1 DEF AddMember, claimFor, SameHolders, live
<1>3. ASSUME NEW kind, NEW u \in User, NEW k, Approves(kind, u, k) PROVE SameHolders
  <2> DEFINE c == pendingActions[u].character
  <2>1. /\ c \in Character /\ live(c) /\ characters[c].claimedBy \in {None, u}
        /\ characters' = claimFor(c, u) /\ claimRequests' = claimRequests
    BY <1>3 DEF Approves, pendingFor, activates, PendingAction
  <2>2. \A r \in claimRequests : r.character = c => characters[c].claimedBy = u
    BY <2>1 DEF OpenRequestsAreTransfers
  <2> HIDE DEF c
  <2> QED BY <1>0, <2>1, <2>2 DEF claimFor, SameHolders, live
<1>4. ASSUME NEW kind, NEW u \in User, NEW k, Refuses(kind, u, k) PROVE SameHolders
  BY <1>0, <1>4 DEF Refuses, releases, written, deleteCharacter, SameHolders, live
<1>5. ASSUME NEW u \in User, NEW status, NEW k, Departs(u, status, k) PROVE SameHolders
  <2>1. claimRequests' = withoutRequestsOf(u)
    BY <1>5, RunsType DEF Departs, departs, written
  <2>2. \A r \in claimRequests' :
          r \in claimRequests /\ r.character \notin listByOrganizationAndUser(u)
    BY <2>1 DEF withoutRequestsOf
  <2> QED BY <1>0, <1>5, <2>2 DEF Departs, departs, SameHolders, live
<1>6. ASSUME NEW u \in User,
             \/ setsRole(u, "member", "admin") \/ setsRole(u, "admin", "member")
             \/ PendingActionExpires(u)
      PROVE  SameHolders
  BY <1>6 DEF setsRole, PendingActionExpires, SameHolders, live
<1> QED BY <1>1, <1>2, <1>3, <1>4, <1>5, <1>6 DEF MemberStep

LEMMA CharacterStepHolders ==
  ASSUME IInv, whole, whole', CharacterStep
  PROVE  OpenRequestsAreTransfers'
<1> USE DEF IInv, TypeOK
<1>0. \A r \in claimRequests : r.character \in Character /\ r.target \in User
  BY DEF ClaimRequest
<1>1. ASSUME NEW c \in Character, NEW g, CreateCharacter(c, g) PROVE SameHolders
  BY <1>0, <1>1 DEF CreateCharacter, createCharacter, CharactersExist, SameHolders, live
<1>2. ASSUME NEW c \in Character, NEW isActive, NEW g, UpdateCharacter(c, isActive, g)
      PROVE  SameHolders
  BY <1>0, <1>2 DEF UpdateCharacter, CharacterRow, SameHolders, live
<1>3. ASSUME NEW c \in Character, NEW k, NEW u,
             DeleteCharacter(c, k) \/ unassignCharacter(c, k) \/ assignCharacter(c, u, k)
      PROVE  SameHolders
  <2>1. claimRequests' = withoutRequestsOn(c)
    BY <1>3, RunsType DEF DeleteCharacter, unassignCharacter, assignCharacter, written
  <2>2. \A d \in Character \ {c} : characters'[d] = characters[d]
    BY <1>3, RunsType
       DEF DeleteCharacter, deleteCharacter, unassignCharacter, assignCharacter, claimFor, written
  <2> QED BY <1>0, <2>1, <2>2 DEF withoutRequestsOn, SameHolders, live
<1>4. ASSUME NEW r \in claimRequests, NEW k, acceptClaimRequest(r, k) PROVE SameHolders
  <2>1. claimRequests' = withoutRequestsOn(r.character)
    BY <1>4, RunsType DEF acceptClaimRequest
  <2>2. \A d \in Character \ {r.character} : characters'[d] = characters[d]
    BY <1>4 DEF acceptClaimRequest, claimFor
  <2> QED BY <1>0, <2>1, <2>2 DEF withoutRequestsOn, SameHolders, live
<1>5. ASSUME NEW r \in claimRequests, endsClaimRequest(r) PROVE SameHolders
  BY <1>5 DEF endsClaimRequest, SameHolders, live
<1>6. ASSUME NEW c \in Character, NEW u \in User, createClaimRequest(c, u)
      PROVE  OpenRequestsAreTransfers'
  BY <1>6 DEF createClaimRequest, OpenRequestsAreTransfers, live
<1> QED
  BY <1>1, <1>2, <1>3, <1>4, <1>5, <1>6, SameHoldersKeep DEF CharacterStep

LEMMA RequestsStep == ASSUME IInv, Next PROVE OpenRequestsAreTransfers'
<1> SUFFICES ASSUME whole' PROVE OpenRequestsAreTransfers'
  BY DEF OpenRequestsAreTransfers
<1>0. whole
  BY WholeBefore DEF IInv
<1>1. CASE Creates
  BY <1>0, <1>1, SameHoldersKeep
     DEF Creates, CreateOrganization, written, createCharacter, IInv, TypeOK, ClaimRequest,
         CharactersExist, SameHolders, live
<1>2. CASE GamesNext \/ DeleteOrganization
  BY <1>0, <1>2, GamesStepLeaves, SameHoldersKeep DEF DeleteOrganization, IInv, SameHolders, live
<1>3. CASE MemberStep
  BY <1>0, <1>3, MemberStepHolders, SameHoldersKeep DEF IInv
<1>4. CASE CharacterStep
  BY <1>0, <1>4, CharacterStepHolders
<1> QED BY <1>1, <1>2, <1>3, <1>4, NextCases

-------------------------------------------------------------------------------
(* The theorems.                                                            *)

LEMMA InitInvariant == Init => IInv
<1> SUFFICES ASSUME Init PROVE IInv
  OBVIOUS
<1>1. TypeOK
  BY InitType
<1>2. CharactersExist /\ Unfounded /\ OpenRequestsAreTransfers
  BY DEF Init, CharactersExist, reserved, Unfounded, listed, OpenRequestsAreTransfers
<1>3. OwnerLeads /\ PendingHasReservation
  BY DEF Init, OwnerLeads, PendingHasReservation
<1> QED BY <1>1, <1>2, <1>3 DEF IInv

LEMMA InvariantStep == ASSUME IInv, [Next]_vars PROVE IInv'
<1>1. CASE UNCHANGED vars
  BY <1>1
     DEF vars, IInv, TypeOK, CharactersExist, reserved, Unfounded, listed, OwnerLeads, whole,
         PendingHasReservation, OpenRequestsAreTransfers, live
<1>2. CASE Next
  BY <1>2, TypeStep, CharactersExistStep, UnfoundedStep, OwnerStep, ReservationStep, RequestsStep
     DEF IInv
<1> QED BY <1>1, <1>2

LEMMA OrganizationInvariant == Spec => []IInv
<1>1. Init => IInv
  BY InitInvariant
<1>2. IInv /\ [Next]_vars => IInv'
  BY InvariantStep
<1> QED BY <1>1, <1>2, PTL DEF Spec

\* There is never a second owner, whoever comes, leaves and comes back in which
\* role, and wherever requests stopped; unless one did, there is one, and he is
\* an active member.
THEOREM OwnerIsUnique == Spec => []ExactlyOneOwner
<1>1. ASSUME IInv PROVE ExactlyOneOwner
  <2> DEFINE owners == {u \in User : members[u].role = "owner"}
  <2>1. owners = {} \/ \E u \in User : owners = {u}
    BY <1>1 DEF IInv, OwnerLeads
  <2>2. Cardinality(owners) <= 1
    <3>1. CASE owners = {}
      BY <3>1, FS_EmptySet
    <3>2. CASE \E u \in User : owners = {u}
      <4>1. PICK u \in User : owners = {u}
        BY <3>2
      <4>2. Cardinality(owners) = 1
        BY <4>1, FS_Singleton
      <4> QED BY <4>2
    <3> QED BY <2>1, <3>1, <3>2
  <2>3. ASSUME whole, organization # "absent"
        PROVE  \E u \in User : owners = {u} /\ members[u].status = "active"
    <3>1. PICK u \in User : members[u].role = "owner"
      BY <1>1, <2>3 DEF IInv, OwnerLeads
    <3>2. owners = {u}
      BY <2>1, <3>1
    <3> QED BY <1>1, <3>1, <3>2 DEF IInv, OwnerLeads
  <2> QED BY <2>2, <2>3 DEF ExactlyOneOwner
<1> QED BY <1>1, OrganizationInvariant, PTL

\* As long as requests run to their end, the pending members are those with a
\* pending action, and no two of them count on one character: the UNIQUE columns
\* behind the actions refuse nothing that a route accepted.
THEOREM PendingMembersHaveReservations == Spec => []PendingHasReservation
<1>1. IInv => PendingHasReservation
  BY DEF IInv
<1> QED BY <1>1, OrganizationInvariant, PTL

\* As long as requests run to their end, every open claim request asks somebody
\* else's character from its holder, however that character changes hands.
THEOREM RequestsAskForTransfers == Spec => []OpenRequestsAreTransfers
<1>1. IInv => OpenRequestsAreTransfers
  BY DEF IInv
<1> QED BY <1>1, OrganizationInvariant, PTL

-------------------------------------------------------------------------------
(* How characters change hands.                                             *)

\* c passes from a holder to another user.
Transferred(c) ==
  /\ characters[c].claimedBy # characters'[c].claimedBy
  /\ characters[c].claimedBy # None /\ characters'[c].claimedBy # None

LEMMA MemberStepTransfersNothing ==
  ASSUME IInv, MemberStep, NEW c \in Character
  PROVE  ~Transferred(c)
<1> USE DEF IInv, TypeOK, Transferred
<1>1. ASSUME NEW kind, NEW u \in User, NEW role, NEW d \in Character, NEW draft \in BOOLEAN,
             NEW g, NEW k, Enters(kind, u, role, d, draft, g, k)
      PROVE  ~Transferred(c)
  BY <1>1 DEF Enters, reserves, written, createCharacter
<1>2. ASSUME NEW u \in User, NEW role, NEW d \in Character, NEW k, AddMember(u, role, d, k)
      PROVE  ~Transferred(c)
  BY <1>2 DEF AddMember, requireAvailableCharacter, available, claimFor
<1>3. ASSUME NEW kind, NEW u \in User, NEW k, Approves(kind, u, k) PROVE ~Transferred(c)
  BY <1>3 DEF Approves, activates, claimFor
<1>4. ASSUME NEW kind, NEW u \in User, NEW k, Refuses(kind, u, k) PROVE ~Transferred(c)
  BY <1>4 DEF Refuses, releases, written, deleteCharacter
<1>5. ASSUME NEW u \in User, NEW status, NEW k, Departs(u, status, k) PROVE ~Transferred(c)
  BY <1>5 DEF Departs, departs, CharacterRow
<1>6. ASSUME NEW u \in User,
             \/ setsRole(u, "member", "admin") \/ setsRole(u, "admin", "member")
             \/ PendingActionExpires(u)
      PROVE  ~Transferred(c)
  BY <1>6 DEF setsRole, PendingActionExpires
<1> QED BY <1>1, <1>2, <1>3, <1>4, <1>5, <1>6 DEF MemberStep

LEMMA TransfersAreAccepted ==
  ASSUME IInv, Next, NEW c \in Character, Transferred(c)
  PROVE  [character |-> c, target |-> characters'[c].claimedBy] \in claimRequests
<1> USE DEF IInv, TypeOK
<1>1. CharacterStep
  <2>1. Creates => ~Transferred(c)
    BY DEF Creates, CreateOrganization, written, createCharacter, CharactersExist, Transferred
  <2>2. GamesNext \/ DeleteOrganization => ~Transferred(c)
    BY GamesStepLeaves DEF DeleteOrganization, Transferred
  <2> QED BY <2>1, <2>2, MemberStepTransfersNothing, NextCases
<1>2. ASSUME NEW d \in Character, NEW g, CreateCharacter(d, g) PROVE ~Transferred(c)
  BY <1>2 DEF CreateCharacter, createCharacter, Transferred
<1>3. ASSUME NEW d \in Character, NEW isActive, NEW g, UpdateCharacter(d, isActive, g)
      PROVE  ~Transferred(c)
  BY <1>3 DEF UpdateCharacter, CharacterRow, Transferred
<1>4. ASSUME NEW d \in Character, NEW k, NEW u,
             \/ DeleteCharacter(d, k) \/ unassignCharacter(d, k) \/ assignCharacter(d, u, k)
             \/ createClaimRequest(d, u)
      PROVE  ~Transferred(c)
  BY <1>4
     DEF DeleteCharacter, deleteCharacter, unassignCharacter, assignCharacter, available,
         createClaimRequest, claimFor, written, CharacterRow, Transferred
<1>5. ASSUME NEW r \in claimRequests, endsClaimRequest(r) PROVE ~Transferred(c)
  BY <1>5 DEF endsClaimRequest, Transferred
<1>6. PICK r \in claimRequests, k \in 1..3 : acceptClaimRequest(r, k)
  BY <1>1, <1>2, <1>3, <1>4, <1>5 DEF CharacterStep
<1>7. r = [character |-> r.character, target |-> r.target] /\ r.character \in Character
  BY DEF ClaimRequest
<1>8. r.character = c /\ characters'[c].claimedBy = r.target
  BY <1>6, <1>7 DEF acceptClaimRequest, claimFor, CharacterRow, Transferred
<1> QED BY <1>7, <1>8

\* A character passes from one user to another only by a request that the other
\* one accepted, even where requests stop half way.
THEOREM TransfersAreRequested == Spec => NoSilentTransfer
<1>1. IInv /\ [Next]_vars =>
        [\A c \in Character :
           LET holder == characters[c].claimedBy
               next == characters'[c].claimedBy IN
           holder # next /\ None \notin {holder, next}
             => [character |-> c, target |-> next] \in claimRequests]_vars
  BY TransfersAreAccepted DEF Transferred
<1> QED BY <1>1, OrganizationInvariant, PTL DEF Spec, NoSilentTransfer

-------------------------------------------------------------------------------
(* Drafts.                                                                  *)

\* The request of u that ends his pending membership.
DraftSettled(u) ==
  LET a == pendingActions[u] IN
  \/ members'[u].status = "active" /\ characters'[a.character].claimedBy = u
  \/ members'[u].status = "removed" /\ characters'[a.character].row = "deleted"

LEMMA DraftStep ==
  ASSUME IInv, Next, whole', NEW u \in User,
         pendingActions[u] # None, pendingActions'[u] = None, pendingActions[u].draft
  PROVE  DraftSettled(u)
<1> USE DEF IInv, TypeOK
<1>1. pendingActions[u] \in PendingAction /\ pendingActions[u].character \in Character
  BY DEF PendingAction
<1>2. MemberStep
  BY NextCases, CharacterStepLeaves, GamesStepLeaves
     DEF Creates, CreateOrganization, DeleteOrganization
<1>3. ASSUME NEW kind, NEW v \in User, NEW role, NEW c, NEW draft, NEW g, NEW k,
             Enters(kind, v, role, c, draft, g, k)
      PROVE  pendingActions'[u] # None
  <2>1. u # v => pendingActions'[u] = pendingActions[u]
    BY <1>3, EntersMember DEF Touches
  <2>2. pendingActions'[v] = pendingActions[v] \/ pendingActions[v] = None
    BY <1>3, EntersAction
  <2> QED BY <2>1, <2>2
<1>4. ASSUME NEW v \in User, NEW role, NEW c, NEW k, NEW status,
             \/ AddMember(v, role, c, k) \/ Departs(v, status, k)
             \/ setsRole(v, "member", "admin") \/ setsRole(v, "admin", "member")
      PROVE  pendingActions'[u] # None
  BY <1>4 DEF AddMember, Departs, departs, setsRole
<1>5. ASSUME NEW v \in User, PendingActionExpires(v) PROVE pendingActions'[u] # None
  BY <1>1, <1>5, NoneIsNoAction DEF PendingActionExpires, PendingAction
<1>6. PICK kind \in {"apply", "invite"}, v \in User, k \in 1..4 :
        Approves(kind, v, k) \/ Refuses(kind, v, k)
  BY <1>2, <1>3, <1>4, <1>5 DEF MemberStep
<1>7. v = u
  BY <1>6, ApprovesMember, RefusesMember DEF Touches
<1>8. CASE Approves(kind, u, k)
  <2>1. members'[u].status = "active"
    BY <1>8, ApprovesMember
  <2>2. characters'[pendingActions[u].character].claimedBy = u
    BY <1>1, <1>8 DEF Approves, activates, claimFor, CharacterRow
  <2> QED BY <2>1, <2>2 DEF DraftSettled
<1>9. CASE Refuses(kind, u, k)
  <2>1. members'[u].status = "removed"
    BY <1>9, RefusesMember
  <2>2. characters'[pendingActions[u].character].row = "deleted"
    BY <1>1, <1>9 DEF Refuses, releases, written, deleteCharacter, CharacterRow
  <2> QED BY <2>1, <2>2 DEF DraftSettled
<1> QED BY <1>6, <1>7, <1>8, <1>9

\* u holds c after the step, and nobody did before.
Taken(c, u) == characters[c].claimedBy = None /\ characters'[c].claimedBy = u /\ u # None

LEMMA MemberStepTakes ==
  ASSUME IInv, MemberStep, whole, whole', NEW u \in User, NEW v,
         pendingActions[u] # None, Taken(pendingActions[u].character, v)
  PROVE  v = u /\ pendingActions'[u] = None
<1> DEFINE c == pendingActions[u].character
<1> USE DEF IInv, TypeOK, Taken
<1>1. c \in Character /\ characters[c] \in CharacterRow /\ reserved(c)
  BY DEF PendingAction, reserved
<1>2. ASSUME NEW kind, NEW w \in User, NEW role, NEW d \in Character, NEW draft \in BOOLEAN,
             NEW g, NEW k, Enters(kind, w, role, d, draft, g, k)
      PROVE  FALSE
  BY <1>1, <1>2 DEF Enters, reserves, written, createCharacter
<1>3. ASSUME NEW w \in User, NEW role, NEW d \in Character, NEW k, AddMember(w, role, d, k)
      PROVE  FALSE
  BY <1>1, <1>3 DEF AddMember, requireAvailableCharacter, claimFor
<1>4. ASSUME NEW w \in User, NEW status, NEW k, Departs(w, status, k) PROVE FALSE
  BY <1>1, <1>4 DEF Departs, departs, CharacterRow
<1>5. ASSUME NEW w \in User,
             \/ setsRole(w, "member", "admin") \/ setsRole(w, "admin", "member")
             \/ PendingActionExpires(w)
      PROVE  FALSE
  BY <1>5 DEF setsRole, PendingActionExpires
<1>6. ASSUME NEW kind, NEW w \in User, NEW k, Refuses(kind, w, k) PROVE FALSE
  BY <1>1, <1>6 DEF Refuses, releases, written, deleteCharacter, CharacterRow
<1>7. PICK kind \in {"apply", "invite"}, w \in User, k \in 1..4 : Approves(kind, w, k)
  BY <1>2, <1>3, <1>4, <1>5, <1>6 DEF MemberStep
<1>8. pendingActions[w].character = c /\ v = w
  BY <1>1, <1>7 DEF Approves, activates, claimFor, CharacterRow
<1>9. w = u
  BY <1>7, <1>8 DEF Approves, pendingFor, PendingHasReservation
<1>10. pendingActions'[u] = None
  BY <1>7, <1>9, RunsType DEF Approves, activates, written, deleteByMemberId
<1> QED BY <1>8, <1>9, <1>10

LEMMA CharacterStepTakes ==
  ASSUME IInv, CharacterStep, whole, NEW u \in User, NEW v,
         pendingActions[u] # None, Taken(pendingActions[u].character, v)
  PROVE  v # u /\ members[v].status = "active"
<1> DEFINE c == pendingActions[u].character
<1> USE DEF IInv, TypeOK, Taken
<1>1. c \in Character /\ characters[c] \in CharacterRow
  BY DEF PendingAction
<1>2. members[u].status = "pending"
  BY DEF PendingHasReservation
<1>3. ASSUME NEW d \in Character, NEW g, CreateCharacter(d, g) PROVE FALSE
  BY <1>1, <1>3 DEF CreateCharacter, createCharacter
<1>4. ASSUME NEW d \in Character, NEW isActive, NEW g, UpdateCharacter(d, isActive, g)
      PROVE  FALSE
  BY <1>1, <1>4 DEF UpdateCharacter, CharacterRow
<1>5. ASSUME NEW d \in Character, NEW k, DeleteCharacter(d, k) \/ unassignCharacter(d, k)
      PROVE  FALSE
  BY <1>1, <1>5 DEF DeleteCharacter, deleteCharacter, unassignCharacter, claimFor, CharacterRow
<1>6. ASSUME NEW d, NEW w, createClaimRequest(d, w) PROVE FALSE
  BY <1>6 DEF createClaimRequest
<1>7. ASSUME NEW r \in claimRequests, endsClaimRequest(r) PROVE FALSE
  BY <1>7 DEF endsClaimRequest
<1>8. ASSUME NEW r \in claimRequests, NEW k, acceptClaimRequest(r, k) PROVE FALSE
  <2>1. r.character # c
    BY <1>8 DEF acceptClaimRequest, OpenRequestsAreTransfers
  <2>2. r.character \in Character
    BY DEF ClaimRequest
  <2> QED BY <1>1, <1>8, <2>1, <2>2 DEF acceptClaimRequest, claimFor, CharacterRow
<1>9. PICK d \in Character, w \in User, k \in 1..2 : assignCharacter(d, w, k)
  BY <1>3, <1>4, <1>5, <1>6, <1>7, <1>8 DEF CharacterStep
<1>10. v = w
  BY <1>1, <1>9 DEF assignCharacter, written, claimFor, CharacterRow
<1> QED BY <1>2, <1>9, <1>10 DEF assignCharacter

\* Who may take the draft of u.
DraftTaken(u, v) ==
  \/ v = u /\ pendingActions'[u] = None
  \/ v # u /\ members[v].status = "active" /\ UNCHANGED pendingActions

LEMMA TakesDraft ==
  ASSUME IInv, Next, whole', NEW u \in User, NEW v,
         pendingActions[u] # None, Taken(pendingActions[u].character, v)
  PROVE  DraftTaken(u, v)
<1>1. whole
  BY WholeBefore DEF IInv
<1>2. ~(GamesNext \/ DeleteOrganization)
  BY GamesStepLeaves DEF DeleteOrganization, Taken
<1>3. ~Creates
  <2>1. reserved(pendingActions[u].character)
    BY DEF reserved
  <2> QED
    BY <2>1
       DEF Creates, CreateOrganization, written, createCharacter, CharactersExist, Taken,
           IInv, TypeOK, PendingAction
<1>4. CASE MemberStep
  BY <1>1, <1>4, MemberStepTakes DEF DraftTaken
<1>5. CASE CharacterStep
  BY <1>1, <1>5, CharacterStepTakes, CharacterStepLeaves DEF DraftTaken
<1> QED BY <1>2, <1>3, <1>4, <1>5, NextCases

\* A draft that nobody holds becomes its member's with the approval, or an active
\* member's by hand; and it leaves the roster with the pending membership it was made
\* for if nobody holds it then, whoever ended the membership and how.
THEOREM DraftsAreSettled == Spec => DraftsLeaveTheRoster
<1>1. ASSUME IInv, Next, NEW u \in User, whole', pendingActions[u] # None,
             pendingActions[u].draft
      PROVE  LET a == pendingActions[u]
                 holder == characters[a.character].claimedBy
                 next == characters'[a.character].claimedBy
             IN  /\ holder = None /\ next # None => DraftTaken(u, next)
                 /\ pendingActions'[u] = None => DraftSettled(u)
  BY <1>1, TakesDraft, DraftStep DEF Taken
<1>2. IInv /\ [Next]_vars =>
        [\A u \in User :
           LET a == pendingActions[u]
               holder == characters[a.character].claimedBy
               next == characters'[a.character].claimedBy
           IN  whole' /\ a # None /\ a.draft =>
                 /\ holder = None /\ next # None =>
                      \/ next = u /\ pendingActions'[u] = None
                      \/ next # u /\ members[next].status = "active" /\ UNCHANGED pendingActions
                 /\ pendingActions'[u] = None =>
                      \/ members'[u].status = "active" /\ next = u
                      \/ /\ members'[u].status = "removed"
                         /\ holder = None => characters'[a.character].row = "deleted"]_vars
  BY <1>1 DEF DraftTaken, DraftSettled
<1> QED BY <1>2, OrganizationInvariant, PTL DEF Spec, DraftsLeaveTheRoster

-------------------------------------------------------------------------------
(* Games.                                                                   *)

\* Two games are never both primary; and a request that stopped early is the
\* only reason for which an organization has none.
GamesInv ==
  /\ organization = "absent" => listed = {}
  /\ whole /\ organization # "absent" =>
       /\ listed # {}
       /\ \A g, h \in Game : games[g] = "primary" /\ games[h] = "primary" => g = h

LEMMA MemberStepGames == MemberStep => games' = games
<1>1. ASSUME NEW kind, NEW u, NEW role, NEW c, NEW draft, NEW g, NEW k,
             \/ Enters(kind, u, role, c, draft, g, k) \/ AddMember(u, role, c, k)
             \/ Approves(kind, u, k) \/ Refuses(kind, u, k)
      PROVE  games' = games
  BY <1>1 DEF Enters, reserves, AddMember, Approves, activates, Refuses, releases
<1>2. ASSUME NEW u, NEW status, NEW k,
             \/ Departs(u, status, k) \/ PendingActionExpires(u)
             \/ setsRole(u, "member", "admin") \/ setsRole(u, "admin", "member")
      PROVE  games' = games
  BY <1>2 DEF Departs, departs, setsRole, PendingActionExpires
<1> QED BY <1>1, <1>2 DEF MemberStep

LEMMA GamesStep == ASSUME IInv, GamesInv, Next PROVE GamesInv'
<1> USE DEF IInv, TypeOK, GameRow
<1>1. organization' # "absent" /\ (whole' => whole)
  BY UnfoundedStep, WholeBefore, NextCases, MemberStepLive, CharacterStepLeaves, GamesStepLeaves
     DEF Creates, CreateOrganization, DeleteOrganization
<1> SUFFICES ASSUME whole'
             PROVE  /\ listed' # {}
                    /\ \A g, h \in Game : games'[g] = "primary" /\ games'[h] = "primary" => g = h
  BY <1>1 DEF GamesInv
<1>2. CASE Creates
  <2>1. PICK g \in Game : games' = ensureOrganizationInitialGame(g) /\ listed = {}
    BY <1>2, RunsType DEF Creates, CreateOrganization, written, Unfounded
  <2> QED BY <2>1 DEF ensureOrganizationInitialGame, listed
<1>3. CASE organization # "absent" /\ games' = games
  BY <1>1, <1>3 DEF GamesInv, listed
<1>4. ASSUME NEW g \in Game, NEW isPrimary \in BOOLEAN, NEW k,
             CreateGame(g, isPrimary, k) \/ UpdateGame(g, isPrimary, k)
      PROVE  /\ listed' # {}
             /\ \A f, h \in Game : games'[f] = "primary" /\ games'[h] = "primary" => f = h
  <2>1. organization # "absent"
    BY <1>4, Managed DEF CreateGame, UpdateGame
  <2>2. games' =
          IF isPrimary THEN primaryAmong([games EXCEPT ![g] = "primary"], g)
          ELSE [games EXCEPT ![g] = "listed"]
    BY <1>4, RunsType DEF CreateGame, UpdateGame
  <2>3. games'[g] # "absent"
    BY <2>2 DEF primaryAmong
  <2>4. \A f, h \in Game : games'[f] = "primary" /\ games'[h] = "primary" => f = h
    BY <1>1, <2>1, <2>2 DEF primaryAmong, GamesInv
  <2> QED BY <2>3, <2>4 DEF listed
<1>5. ASSUME NEW g \in Game, NEW next \in Game, NEW k, DeleteGame(g, next, k)
      PROVE  /\ listed' # {}
             /\ \A f, h \in Game : games'[f] = "primary" /\ games'[h] = "primary" => f = h
  <2>1. organization # "absent" /\ next # g /\ games[next] # "absent"
    BY <1>5, Managed DEF DeleteGame, listed
  <2>2. games' = IF games[g] = "primary" THEN primaryAmong([games EXCEPT ![g] = "absent"], next)
                 ELSE [games EXCEPT ![g] = "absent"]
    BY <1>5, RunsType DEF DeleteGame
  <2>3. games'[next] # "absent"
    BY <2>1, <2>2 DEF primaryAmong
  <2>4. \A f, h \in Game : games'[f] = "primary" /\ games'[h] = "primary" => f = h
    BY <1>1, <2>1, <2>2 DEF primaryAmong, GamesInv
  <2> QED BY <2>3, <2>4 DEF listed
<1>6. ASSUME NEW g \in Game, SetPrimaryGame(g)
      PROVE  /\ listed' # {}
             /\ \A f, h \in Game : games'[f] = "primary" /\ games'[h] = "primary" => f = h
  BY <1>6 DEF SetPrimaryGame, primaryAmong, listed
<1>7. CASE GamesNext
  BY <1>4, <1>5, <1>6, <1>7 DEF GamesNext
<1>8. CASE MemberStep \/ CharacterStep \/ DeleteOrganization
  <2>1. organization # "absent"
    BY <1>8, MemberStepLive, CharacterStepLeaves, Owned DEF DeleteOrganization
  <2>2. games' = games
    BY <1>8, MemberStepGames, CharacterStepLeaves DEF DeleteOrganization
  <2> QED BY <1>3, <2>1, <2>2
<1> QED BY <1>2, <1>7, <1>8, NextCases

\* However games are added, changed, made primary and deleted, as long as requests
\* run to their end the organization has a game and at most one primary one.
THEOREM GamesStayListed == Spec => []GamesAreKept
<1>1. Init => GamesInv
  BY DEF Init, GamesInv, listed
<1>2. IInv /\ GamesInv /\ [Next]_vars => GamesInv'
  <2>1. IInv /\ GamesInv /\ Next => GamesInv'
    BY GamesStep
  <2>2. GamesInv /\ UNCHANGED vars => GamesInv'
    BY DEF vars, GamesInv, listed, whole
  <2> QED BY <2>1, <2>2
<1>3. ASSUME GamesInv PROVE GamesAreKept
  <2> SUFFICES ASSUME whole, organization # "absent"
               PROVE  Cardinality({g \in Game : games[g] = "primary"}) <= 1
    BY <1>3 DEF GamesAreKept, GamesInv
  <2> DEFINE P == {g \in Game : games[g] = "primary"}
  <2>1. P = {} \/ \E g \in Game : P = {g}
    BY <1>3 DEF GamesInv
  <2>2. CASE P = {}
    BY <2>2, FS_EmptySet
  <2>3. ASSUME NEW g \in Game, P = {g} PROVE Cardinality(P) <= 1
    <3>1. Cardinality(P) = 1
      BY <2>3, FS_Singleton
    <3> QED BY <3>1
  <2> QED BY <2>1, <2>2, <2>3
<1> QED BY <1>1, <1>2, <1>3, OrganizationInvariant, PTL DEF Spec

-------------------------------------------------------------------------------
(* The lists.  Counting needs finite tables.                                *)

\* Two of the lists, by what they hide from one another: a character that the
\* managers see and the roster does not is the draft of one pending member.
LEMMA HiddenIsOneDraft ==
  ASSUME IInv, whole, NEW c \in ManagementCharacters \ RosterCharacters
  PROVE  \E u \in PendingMembers :
           /\ pendingActions[u].character = c /\ pendingActions[u].draft
           /\ \A v \in PendingMembers : pendingActions[v].character = c => v = u
<1>1. PICK u \in User : /\ pendingActions[u] # None /\ pendingActions[u].character = c
                        /\ pendingActions[u].draft /\ ~pendingActions[u].expired
  BY DEF ManagementCharacters, RosterCharacters, draftUnderWay
<1>2. u \in PendingMembers
  BY <1>1 DEF PendingMembers, IInv, PendingHasReservation
<1>3. \A v \in PendingMembers : pendingActions[v].character = c => v = u
  BY <1>1 DEF PendingMembers, IInv, PendingHasReservation
<1> QED BY <1>1, <1>2, <1>3

\* The card counts the active characters, among them the drafts under way; these
\* map one to one into the pending members.
LEMMA CardCounts ==
  ASSUME IInv, whole, IsFiniteSet(User), IsFiniteSet(Character)
  PROVE  Card.characterCount <=
           Cardinality(FoundCharacters(TRUE)) + Cardinality(PendingMembers)
<1> DEFINE F == FoundCharacters(TRUE)
           A == {c \in ManagementCharacters : characters[c].isActive}
           H == A \ F
           member == [c \in H |-> CHOOSE u \in PendingMembers : pendingActions[u].character = c]
<1>1. F \subseteq A /\ A \subseteq Character /\ PendingMembers \subseteq User
  BY DEF FoundCharacters, RosterCharacters, ManagementCharacters, PendingMembers
<1>2. IsFiniteSet(A) /\ IsFiniteSet(F) /\ IsFiniteSet(PendingMembers)
  BY <1>1, FS_Subset
<1>3. H \subseteq ManagementCharacters \ RosterCharacters
  BY DEF FoundCharacters, IInv, TypeOK, CharacterRow, ManagementCharacters, RosterCharacters
<1>4. \A c \in H : \E u \in PendingMembers : pendingActions[u].character = c
  BY <1>3, HiddenIsOneDraft
<1>5. \A c \in H : member[c] \in PendingMembers /\ pendingActions[member[c]].character = c
  BY <1>4
<1>6. member \in Injection(H, PendingMembers)
  <2>1. member \in [H -> PendingMembers]
    BY <1>5
  <2>2. \A c, d \in H : member[c] = member[d] => c = d
    BY <1>5
  <2> HIDE DEF member, H
  <2> QED BY <2>1, <2>2 DEF Injection, IsInjective
<1>7. Cardinality(H) <= Cardinality(PendingMembers)
  BY <1>2, <1>6, FS_Injection
<1>8. A = F \cup H /\ F \cap H = {}
  BY <1>1
<1>9. IsFiniteSet(H) /\ Cardinality(H) \in Nat /\ Cardinality(F) \in Nat
        /\ Cardinality(PendingMembers) \in Nat
  BY <1>2, FS_Subset, FS_CardinalityType
<1>10. Cardinality(A) = Cardinality(F) + Cardinality(H)
  <2>1. Cardinality(F \cap H) = 0
    BY <1>8, FS_EmptySet
  <2> HIDE DEF F, H, A
  <2>2. Cardinality(F \cup H) =
          Cardinality(F) + Cardinality(H) - Cardinality(F \cap H)
    BY <1>2, <1>9, FS_Union
  <2>3. Cardinality(A) = Cardinality(F \cup H)
    BY <1>8
  <2> QED BY <1>9, <2>1, <2>2, <2>3
<1>11. Card.characterCount = Cardinality(A)
  BY DEF Card
<1> HIDE DEF F, A, H
<1>12. Cardinality(F) + Cardinality(H) <= Cardinality(F) + Cardinality(PendingMembers)
  BY <1>7, <1>9
<1>13. Card.characterCount <= Cardinality(F) + Cardinality(PendingMembers)
  BY <1>10, <1>11, <1>12
<1> QED BY <1>13 DEF F

\* The list of available characters and the guard of a reservation, two queries of
\* their own, differ by the reservations that have expired, in every state.
THEOREM OffersCanBeReserved == Spec => []OfferedCanBeReserved
<1>1. OfferedCanBeReserved
  <2> SUFFICES ASSUME NEW c \in Character
      PROVE  /\ requireAvailableCharacter(c) => c \in AvailableCharacters
             /\ c \in AvailableCharacters /\ ~requireAvailableCharacter(c) =>
                  \E u \in User \ PendingMembers :
                    pendingActions[u] # None /\ pendingActions[u].character = c
    BY DEF OfferedCanBeReserved
  <2> QED BY DEF requireAvailableCharacter, AvailableCharacters, reserved, heldByPending,
                 PendingMembers
<1> QED BY <1>1, PTL

\* What the roster, the managers' list, the lists of members and the card of the
\* search show agrees, as long as requests run to their end: every hidden
\* character is the draft of one pending member, and the counts cover each other.
THEOREM ListsAgree ==
  ASSUME IsFiniteSet(User), IsFiniteSet(Character)
  PROVE  Spec => []ListsAddUp
<1>1. ASSUME IInv, ExactlyOneOwner PROVE ListsAddUp
  <2> SUFFICES ASSUME whole PROVE ListsAddUp
    BY DEF ListsAddUp
  <2>1. \A c \in ManagementCharacters \ RosterCharacters :
          Cardinality({u \in PendingMembers : pendingActions[u].character = c}) = 1
    <3> TAKE c \in ManagementCharacters \ RosterCharacters
    <3>1. PICK u \in PendingMembers :
            /\ pendingActions[u].character = c
            /\ \A v \in PendingMembers : pendingActions[v].character = c => v = u
      BY <1>1, HiddenIsOneDraft
    <3>2. {v \in PendingMembers : pendingActions[v].character = c} = {u}
      BY <3>1
    <3> QED BY <3>2, FS_Singleton
  <2>2. \A c \in ManagementCharacters \ RosterCharacters, u \in PendingMembers :
          pendingActions[u].character = c => pendingActions[u].draft
    BY <1>1, HiddenIsOneDraft
  <2>3. \A u \in OwnOrganization \ (ActiveMembers \cup PendingMembers) :
          pendingActions[u].expired
    BY <1>1 DEF OwnOrganization, ActiveMembers, PendingMembers, attached, IInv,
                PendingHasReservation
  <2>4. Card.memberCount > 0 <=> organization # "absent"
    <3>1. IsFiniteSet(ActiveMembers)
      BY FS_Subset DEF ActiveMembers
    <3>2. Cardinality(ActiveMembers) > 0 <=> ActiveMembers # {}
      BY <3>1, FS_EmptySet, FS_CardinalityType
    <3>3. ActiveMembers # {} <=> organization # "absent"
      BY <1>1 DEF ActiveMembers, IInv, Unfounded, ExactlyOneOwner
    <3> QED BY <3>2, <3>3 DEF Card
  <2> QED BY <1>1, <2>1, <2>2, <2>3, <2>4, CardCounts DEF ListsAddUp
<1> QED BY <1>1, OrganizationInvariant, OwnerIsUnique, PTL

-------------------------------------------------------------------------------
(* The member routes, whole or stopped half way, take a member only along   *)
(* MembershipLifecycle.                                                     *)


\* The refinement mapping, user by user.
standingOf(u) ==
  IF attached(u) THEN members[u] ELSE [status |-> "out", role |-> "none"]

doorOf(u) == IF pendingActions[u] = None THEN None ELSE pendingActions[u].kind

\* What a request that touches one user does to his standing and to his door.
LEMMA MovesOne ==
  ASSUME NEW u \in User, Touches(u), NEW from, NEW to,
         standingOf(u) = from, standingOf(u)' = to
  PROVE  Lifecycle!moves(u, from, to)
<1>1. \A v \in User \ {u} : standingOf(v)' = standingOf(v)
  BY DEF Touches, standingOf, attached
<1>2. [v \in User |-> standingOf(v)]' = [[v \in User |-> standingOf(v)] EXCEPT ![u] = to]
  BY <1>1
<1> QED BY <1>2 DEF Lifecycle!moves, standingOf

LEMMA DoorOpens ==
  ASSUME NEW u \in User, Touches(u), NEW kind, doorOf(u) = None, doorOf(u)' = kind
  PROVE  Lifecycle!opensDoor(u, kind)
<1>1. \A v \in User \ {u} : doorOf(v)' = doorOf(v)
  BY DEF Touches, doorOf
<1>2. [v \in User |-> doorOf(v)]' = [[v \in User |-> doorOf(v)] EXCEPT ![u] = kind]
  BY <1>1
<1> QED BY <1>2 DEF Lifecycle!opensDoor, doorOf

LEMMA DoorShuts ==
  ASSUME NEW u \in User, Touches(u), doorOf(u)' = None
  PROVE  Lifecycle!shutsDoor(u)
<1>1. \A v \in User \ {u} : doorOf(v)' = doorOf(v)
  BY DEF Touches, doorOf
<1>2. [v \in User |-> doorOf(v)]' = [[v \in User |-> doorOf(v)] EXCEPT ![u] = None]
  BY <1>1
<1> QED BY <1>2 DEF Lifecycle!shutsDoor, doorOf

LEMMA DoorStays ==
  ASSUME NEW u \in User, Touches(u), doorOf(u)' = doorOf(u)
  PROVE  Lifecycle!leavesDoors
<1>1. \A v \in User : doorOf(v)' = doorOf(v)
  BY DEF Touches, doorOf
<1>2. [v \in User |-> doorOf(v)]' = [v \in User |-> doorOf(v)]
  BY <1>1
<1> QED BY <1>2 DEF Lifecycle!leavesDoors, doorOf

\* A request that changes nobody's standing or door is a stutter.
LEMMA MovesNobody ==
  ASSUME \A u \in User : standingOf(u)' = standingOf(u) /\ doorOf(u)' = doorOf(u)
  PROVE  UNCHANGED Lifecycle!vars
<1>1. [v \in User |-> standingOf(v)]' = [v \in User |-> standingOf(v)]
  OBVIOUS
<1>2. [v \in User |-> doorOf(v)]' = [v \in User |-> doorOf(v)]
  OBVIOUS
<1> QED BY <1>1, <1>2 DEF Lifecycle!vars, standingOf, doorOf

LEMMA MembersStay ==
  ASSUME UNCHANGED <<members, pendingActions>>
  PROVE  UNCHANGED Lifecycle!vars
<1>1. \A u \in User : standingOf(u)' = standingOf(u) /\ doorOf(u)' = doorOf(u)
  BY DEF standingOf, doorOf, attached
<1> QED BY <1>1, MovesNobody

\* Where somebody manages there is an owner.
LEMMA ManagersAreHeaded == ASSUME IInv, managed PROVE Lifecycle!headed
<1>1. PICK u \in User : members[u].role = "owner" /\ members[u].status = "active"
  BY DEF managed, isManager, IInv, OwnerLeads
<1>2. members[u] = [status |-> "active", role |-> "owner"]
  BY <1>1 DEF IInv, TypeOK, Member
<1> QED BY <1>2 DEF Lifecycle!headed, Lifecycle!Active, attached

LEMMA OneStays ==
  ASSUME NEW u \in User, Touches(u),
         standingOf(u)' = standingOf(u), doorOf(u)' = doorOf(u)
  PROVE  UNCHANGED Lifecycle!vars
<1>1. \A v \in User \ {u} : standingOf(v)' = standingOf(v) /\ doorOf(v)' = doorOf(v)
  BY DEF Touches, standingOf, doorOf, attached
<1> QED BY <1>1, MovesNobody

-------------------------------------------------------------------------------
(* Each request of the member routes.                                       *)

LEMMA CreatesMoves ==
  ASSUME IInv, Creates
  PROVE  Lifecycle!Next \/ UNCHANGED Lifecycle!vars
<1> USE DEF IInv
<1>1. PICK u \in User, c \in Character, g \in Game, k \in 1..4 : CreateOrganization(u, c, g, k)
  BY DEF Creates
<1>2. /\ Touches(u) /\ pendingActions' = pendingActions
      /\ members'[u] = members[u] \/ members'[u] = [status |-> "active", role |-> "owner"]
      /\ \A v \in User : members[v].status = "absent"
      /\ \A v \in User : pendingActions[v] = None
  BY <1>1, CreatesMember DEF Unfounded
<1>3. CASE members'[u] = members[u]
  BY <1>2, <1>3, OneStays DEF standingOf, doorOf, attached
<1>4. CASE members'[u] = [status |-> "active", role |-> "owner"]
  <2>1. /\ standingOf(u) = Lifecycle!Out /\ standingOf(u)' = Lifecycle!Active("owner")
        /\ doorOf(u)' = None
    BY <1>2, <1>4 DEF standingOf, doorOf, attached, Lifecycle!Out, Lifecycle!Active
  <2>2. ~Lifecycle!headed
    BY <1>2 DEF Lifecycle!headed, Lifecycle!Active, attached
  <2>3. Lifecycle!moves(u, Lifecycle!Out, Lifecycle!Active("owner")) /\ Lifecycle!shutsDoor(u)
    BY <1>2, <2>1, MovesOne, DoorShuts
  <2>4. Lifecycle!Found(u)
    BY <2>2, <2>3 DEF Lifecycle!Found
  <2> QED BY <2>4 DEF Lifecycle!Next
<1> QED BY <1>2, <1>3, <1>4

LEMMA EntersMoves ==
  ASSUME IInv, NEW kind \in {"apply", "invite"}, NEW u \in User,
         NEW role \in {"admin", "member"}, NEW c \in Character, NEW draft \in BOOLEAN,
         NEW g \in Game, NEW k \in 1..4, Enters(kind, u, role, c, draft, g, k)
  PROVE  Lifecycle!Next \/ UNCHANGED Lifecycle!vars
<1> USE DEF IInv
<1>1. Touches(u) /\ ~attached(u)
  BY EntersMember DEF Enters
<1>2. CASE k < 2
  BY <1>2, MembersStay DEF Enters, reserves, written
<1>3. CASE k >= 2
  <2>1. members'[u] = [status |-> "pending", role |-> role]
    BY <1>3 DEF Enters, reserves, written, createOrReactivate, TypeOK
  <2>2. standingOf(u) = Lifecycle!Out /\ standingOf(u)' = Lifecycle!Pending(role)
    BY <1>1, <2>1 DEF standingOf, attached, Lifecycle!Out, Lifecycle!Pending
  <2>3. \/ pendingActions'[u] = pendingActions[u]
        \/ pendingActions[u] = None /\ pendingActions'[u] = newAction(kind, c, draft)
    BY EntersAction
  <2>4. Lifecycle!moves(u, Lifecycle!Out, Lifecycle!Pending(role))
    BY <1>1, <2>2, MovesOne
  <2>5. doorOf(u)' = doorOf(u) \/ (doorOf(u) = None /\ doorOf(u)' = kind)
    <3>1. newAction(kind, c, draft) \in PendingAction
      BY DEF newAction, PendingAction
    <3>2. newAction(kind, c, draft).kind = kind
      BY DEF newAction
    <3> QED BY <2>3, <3>1, <3>2, NoneIsNoAction DEF doorOf
  <2>6. Lifecycle!opensDoor(u, kind) \/ Lifecycle!leavesDoors
    BY <1>1, <2>5, DoorOpens, DoorStays
  <2>7. /\ kind = "apply" => role = "member"
        /\ kind = "invite" => Lifecycle!headed
    BY ManagersAreHeaded DEF Enters
  <2>8. Lifecycle!Enter(u, kind, role)
    BY <2>4, <2>6, <2>7 DEF Lifecycle!Enter
  <2> QED BY <2>8 DEF Lifecycle!Next
<1> QED BY <1>2, <1>3

LEMMA AddsMoves ==
  ASSUME IInv, NEW u \in User, NEW role \in {"admin", "member"}, NEW c \in Character,
         NEW k \in 1..4, AddMember(u, role, c, k)
  PROVE  Lifecycle!Next \/ UNCHANGED Lifecycle!vars
<1> USE DEF IInv
<1>1. /\ Touches(u) /\ doorOf(u)' = doorOf(u)
      /\ members'[u] = members[u] \/ members'[u] = [status |-> "active", role |-> role]
      /\ ~attached(u) /\ managed
  BY AddsMember DEF AddMember, doorOf
<1>2. CASE members'[u] = members[u]
  BY <1>1, <1>2, OneStays DEF standingOf, attached
<1>3. CASE members'[u] = [status |-> "active", role |-> role]
  <2>1. standingOf(u) = Lifecycle!Out /\ standingOf(u)' = Lifecycle!Active(role)
    BY <1>1, <1>3 DEF standingOf, attached, Lifecycle!Out, Lifecycle!Active
  <2>2. Lifecycle!moves(u, Lifecycle!Out, Lifecycle!Active(role)) /\ Lifecycle!leavesDoors
    BY <1>1, <2>1, MovesOne, DoorStays
  <2>3. Lifecycle!Add(u, role)
    BY <1>1, <2>2, ManagersAreHeaded DEF Lifecycle!Add
  <2> QED BY <2>3 DEF Lifecycle!Next
<1> QED BY <1>1, <1>2, <1>3

\* The door of a pending member is shut before his standing changes, or after it.
LEMMA ShutsDoor ==
  ASSUME NEW u \in User, Touches(u), standingOf(u)' = standingOf(u), doorOf(u)' = None
  PROVE  Lifecycle!Shut(u)
<1>1. \A v \in User : standingOf(v)' = standingOf(v)
  BY DEF Touches, standingOf, attached
<1>2. [v \in User |-> standingOf(v)]' = [v \in User |-> standingOf(v)]
  BY <1>1
<1>3. Lifecycle!shutsDoor(u)
  BY DoorShuts
<1> QED BY <1>2, <1>3 DEF Lifecycle!Shut, standingOf

LEMMA PendingRole ==
  ASSUME IInv, NEW u \in User, members[u].status = "pending"
  PROVE  /\ members[u].role \in {"admin", "member"}
         /\ standingOf(u) = Lifecycle!Pending(members[u].role)
BY DEF IInv, OwnerLeads, TypeOK, Member, Role, standingOf, attached, Lifecycle!Pending

LEMMA ApprovesMoves ==
  ASSUME IInv, IInv', NEW kind \in {"apply", "invite"}, NEW u \in User, NEW k \in 1..4,
         Approves(kind, u, k)
  PROVE  Lifecycle!Next \/ UNCHANGED Lifecycle!vars
<1>1. /\ Touches(u) /\ members[u].status = "pending" /\ pendingActions[u] # None
      /\ members'[u].role = members[u].role
      /\ members'[u].status \in {"pending", "active"}
      /\ pendingActions'[u] \in {pendingActions[u], None}
  BY ApprovesMember DEF IInv
<1>2. PICK role \in {"admin", "member"} : members[u].role = role
  BY <1>1, PendingRole
<1>3. doorOf(u) # None /\ doorOf(u)' \in {None, doorOf(u)}
  BY <1>1, NoneIsNoAction DEF doorOf, IInv, TypeOK, PendingAction
<1>4. CASE members'[u].status = "pending"
  <2>1. standingOf(u)' = standingOf(u)
    BY <1>1, <1>4 DEF IInv, TypeOK, Member, standingOf, attached
  <2>2. Lifecycle!Shut(u) \/ UNCHANGED Lifecycle!vars
    BY <1>1, <1>3, <2>1, ShutsDoor, OneStays
  <2> QED BY <2>2 DEF Lifecycle!Next
<1>5. CASE members'[u].status = "active"
  <2>1. /\ standingOf(u) = Lifecycle!Pending(role)
        /\ standingOf(u)' = Lifecycle!Active(role)
    BY <1>1, <1>2, <1>5, PendingRole DEF IInv, TypeOK, Member, standingOf, attached, Lifecycle!Active
  <2>2. Lifecycle!moves(u, Lifecycle!Pending(role), Lifecycle!Active(role))
    BY <1>1, <1>2, <2>1, MovesOne
  <2>3. Lifecycle!shutsDoor(u) \/ Lifecycle!leavesDoors
    BY <1>1, <1>3, DoorShuts, DoorStays
  <2>4. Lifecycle!Activate(u, role)
    BY <1>3, <2>2, <2>3 DEF Lifecycle!Activate, doorOf
  <2> QED BY <1>2, <2>4 DEF Lifecycle!Next
<1> QED BY <1>1, <1>4, <1>5

LEMMA RefusesMoves ==
  ASSUME IInv, IInv', NEW kind \in {"apply", "invite"}, NEW u \in User, NEW k \in 1..4,
         Refuses(kind, u, k)
  PROVE  Lifecycle!Next \/ UNCHANGED Lifecycle!vars
<1> DEFINE role == members[u].role
<1>1. /\ Touches(u) /\ members[u].status = "pending" /\ pendingActions[u] # None
      /\ members'[u].role = role
      /\ members'[u].status \in {"pending", "removed"}
      /\ pendingActions'[u] \in {pendingActions[u], None}
  BY RefusesMember DEF IInv
<1>2. role \in {"admin", "member"} /\ standingOf(u) = Lifecycle!Pending(role)
  BY <1>1, PendingRole
<1>3. doorOf(u) # None /\ doorOf(u)' \in {None, doorOf(u)}
  BY <1>1, NoneIsNoAction DEF doorOf, IInv, TypeOK, PendingAction
<1>4. CASE members'[u].status = "pending"
  <2>1. standingOf(u)' = standingOf(u)
    BY <1>1, <1>4 DEF IInv, TypeOK, Member, standingOf, attached
  <2>2. Lifecycle!Shut(u) \/ UNCHANGED Lifecycle!vars
    BY <1>1, <1>3, <2>1, ShutsDoor, OneStays
  <2> QED BY <2>2 DEF Lifecycle!Next
<1>5. CASE members'[u].status = "removed"
  <2>1. standingOf(u)' = Lifecycle!Out
    BY <1>5 DEF standingOf, attached, Lifecycle!Out
  <2>2. doorOf(u)' = None
    BY <1>1, <1>5
       DEF Refuses, releases, written, deleteByMemberId, IInv, TypeOK, doorOf
  <2>3. Lifecycle!moves(u, Lifecycle!Pending(role), Lifecycle!Out) /\ Lifecycle!shutsDoor(u)
    BY <1>1, <1>2, <2>1, <2>2, MovesOne, DoorShuts
  <2>4. Lifecycle!Finish(u, role)
    BY <1>3, <2>3 DEF Lifecycle!Finish, doorOf
  <2> QED BY <1>2, <2>4 DEF Lifecycle!Next
<1> QED BY <1>1, <1>4, <1>5

LEMMA DepartsMoves ==
  ASSUME IInv, IInv', NEW u \in User, NEW status \in {"left", "removed"}, NEW k \in 1..4,
         Departs(u, status, k)
  PROVE  Lifecycle!Next \/ UNCHANGED Lifecycle!vars
<1> DEFINE role == members[u].role
<1>1. /\ Touches(u) /\ doorOf(u)' = doorOf(u)
      /\ members[u].status = "active" /\ role # "owner" /\ members'[u].role = role
      /\ members'[u].status \in {"active", status}
  BY DepartsMember DEF IInv, doorOf
<1>2. /\ role \in {"admin", "member"}
      /\ standingOf(u) = Lifecycle!Active(role)
  BY <1>1 DEF IInv, TypeOK, Member, Role, standingOf, attached, Lifecycle!Active
<1>3. CASE members'[u].status = "active"
  <2>1. standingOf(u)' = standingOf(u)
    BY <1>1, <1>3 DEF IInv, TypeOK, Member, standingOf, attached
  <2> QED BY <1>1, <2>1, OneStays
<1>4. CASE members'[u].status = status
  <2>1. standingOf(u)' = Lifecycle!Out
    BY <1>4 DEF standingOf, attached, Lifecycle!Out
  <2>2. Lifecycle!moves(u, Lifecycle!Active(role), Lifecycle!Out) /\ Lifecycle!leavesDoors
    BY <1>1, <1>2, <2>1, MovesOne, DoorStays
  <2>3. Lifecycle!Depart(u, role)
    BY <2>2 DEF Lifecycle!Depart
  <2> QED BY <1>2, <2>3 DEF Lifecycle!Next
<1> QED BY <1>1, <1>3, <1>4

LEMMA SetsRoleMoves ==
  ASSUME IInv, NEW u \in User, NEW from, NEW to,
         \/ from = "member" /\ to = "admin"
         \/ from = "admin" /\ to = "member",
         setsRole(u, from, to)
  PROVE  Lifecycle!Next
<1>1. /\ Touches(u) /\ doorOf(u)' = doorOf(u)
      /\ standingOf(u) = Lifecycle!Active(from) /\ standingOf(u)' = Lifecycle!Active(to)
  BY DEF IInv, TypeOK, Member, setsRole, isMember, updateRole, Touches, doorOf, standingOf,
         attached, Lifecycle!Active
<1>2. /\ Lifecycle!moves(u, Lifecycle!Active(from), Lifecycle!Active(to))
      /\ Lifecycle!leavesDoors
  BY <1>1, MovesOne, DoorStays
<1>3. Lifecycle!ChangeRole(u, from, to)
  BY <1>2, Owned, ManagersAreHeaded DEF Lifecycle!ChangeRole, setsRole
<1> QED BY <1>3 DEF Lifecycle!Next

LEMMA ExpiresMoves ==
  ASSUME IInv, NEW u \in User, PendingActionExpires(u)
  PROVE  UNCHANGED Lifecycle!vars
<1>1. /\ Touches(u) /\ members' = members /\ pendingActions[u] # None
      /\ pendingActions'[u] # None /\ pendingActions'[u].kind = pendingActions[u].kind
  BY NoneIsNoAction DEF PendingActionExpires, IInv, TypeOK, PendingAction, Touches
<1> QED BY <1>1, OneStays DEF standingOf, doorOf, attached

-------------------------------------------------------------------------------
(* The refinement.                                                          *)

LEMMA LifecycleInit == ASSUME Init PROVE Lifecycle!Init
BY DEF Init, Lifecycle!Init, Lifecycle!Out, attached

LEMMA LifecycleStep ==
  ASSUME IInv, IInv', [Next]_vars
  PROVE  [Lifecycle!Next]_(Lifecycle!vars)
<1>1. CASE UNCHANGED vars
  BY <1>1, MembersStay DEF vars
<1>2. CASE CharacterStep \/ GamesNext \/ DeleteOrganization
  BY <1>2, MembersStay, CharacterStepLeaves, GamesStepLeaves DEF DeleteOrganization
<1>3. CASE MemberStep
  BY <1>3, EntersMoves, AddsMoves, ApprovesMoves, RefusesMoves, DepartsMoves, SetsRoleMoves,
     ExpiresMoves DEF MemberStep
<1> QED BY <1>1, <1>2, <1>3, CreatesMoves, NextCases

\* Whatever its characters and games, and wherever its requests stop, an
\* organization takes its members along the lifecycle: nobody applies his way into
\* a manager's role, an owner stays, and who comes back starts anew.
THEOREM MembersFollowLifecycle == Spec => KeepsLifecycle
<1>1. Init => Lifecycle!Init
  BY LifecycleInit
<1>2. IInv /\ IInv' /\ [Next]_vars => [Lifecycle!Next]_(Lifecycle!vars)
  BY LifecycleStep
<1> QED BY <1>1, <1>2, OrganizationInvariant, PTL DEF Spec, KeepsLifecycle, Lifecycle!Spec
================================================================================
