---------------------------- MODULE RosterQueries ----------------------------
(***************************************************************************)
(* What the lists of modules/organizations/route.ts show: each is one      *)
(* query over the tables, and none of them looks at what another shows.    *)
(***************************************************************************)
EXTENDS Roster

heldByPending(c) ==
  \E u \in User :
    /\ pendingActions[u] # None
    /\ pendingActions[u].character = c
    /\ ~pendingActions[u].expired

draftUnderWay(c) ==
  \E u \in User :
    /\ pendingActions[u] # None
    /\ pendingActions[u].character = c
    /\ pendingActions[u].draft
    /\ ~pendingActions[u].expired

\* Faulty variant: the list forgets the reservations.
AvailableCharactersReservedToo == {c \in Character : available(c)}

\* GET /{organization}/characters/available: an expired reservation is ignored.
AvailableCharacters == {c \in Character : available(c) /\ ~heldByPending(c)}

\* Faulty variant: the roster hides every reserved character.
RosterCharactersUnreserved == {c \in Character : live(c) /\ ~heldByPending(c)}

\* GET /{organization}/characters: all but the drafts under way.
RosterCharacters == {c \in Character : live(c) /\ ~draftUnderWay(c)}

\* GET /{organization}/characters/search, whatever the text searched for.
FoundCharacters(isActive) == {c \in RosterCharacters : characters[c].isActive = isActive}

\* GET /{organization}/management/characters.
ManagementCharacters == {c \in Character : live(c)}

\* GET /{organization}/management/members/active.
ActiveMembers == {u \in User : members[u].status = "active"}

\* GET /{organization}/management/members/pending: an expired one disappears.
PendingMembers ==
  {u \in User :
     /\ members[u].status = "pending"
     /\ pendingActions[u] # None
     /\ ~pendingActions[u].expired}

\* GET /organizations/me: the users who find the organization among their own.
OwnOrganization == {u \in User : organization = "live" /\ attached(u)}

\* The card of the organization (buildOrganizationSearchItems): its own games and
\* those of its characters, and two counts.
Card ==
  [games |-> listed \cup ({characters[c].game : c \in ManagementCharacters} \ {None}),
   memberCount |-> Cardinality(ActiveMembers),
   characterCount |-> Cardinality({c \in ManagementCharacters : characters[c].isActive})]
===============================================================================
