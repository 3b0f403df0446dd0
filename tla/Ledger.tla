-------------------------------- MODULE Ledger --------------------------------
(***************************************************************************)
(* The ledger of an organization: events, the settlements made from them,  *)
(* the allocations of a settlement to characters and the claims that       *)
(* document their payout (services/ledger, modules/ledger).  Every action  *)
(* is one request, executed without interleaving and without a failing     *)
(* statement: this is what the lifecycle services intend.                  *)
(*                                                                         *)
(* A row's foreign keys are written by its INSERT and by no UPDATE a route *)
(* can reach, so the parent of each id is a constant: EventOf,             *)
(* SettlementOf, AllocationOf, and the beneficiary CharacterOf.  A status  *)
(* variable maps an id to "absent" until its row is inserted.              *)
(***************************************************************************)
EXTENDS LedgerStatus

CONSTANTS Event, Settlement, Allocation, Claim, Character,
          NoEvent, NoCharacter,
          EventOf,       \* settlements.event_id, NoEvent for NULL
          SettlementOf,  \* settlement_allocations.settlement_id
          CharacterOf,   \* settlement_allocations.character_id, NoCharacter for NULL
          AllocationOf   \* settlement_claims.settlement_allocation_id

ASSUME ForeignKeys ==
  /\ NoEvent \notin Event
  /\ NoCharacter \notin Character
  /\ EventOf \in [Settlement -> Event \cup {NoEvent}]
  /\ SettlementOf \in [Allocation -> Settlement]
  /\ CharacterOf \in [Allocation -> Character \cup {NoCharacter}]
  /\ AllocationOf \in [Claim -> Allocation]

VARIABLES
  eventStatus,         \* events.status
  participants,        \* the character_ids of event_participants, per event
  settlementStatus,    \* settlements.status
  exceptionConfirmed,  \* settlements.participant_exception_confirmed
  allocationStatus,    \* settlement_allocations.status
  claimStatus          \* settlement_claims.status

vars == <<eventStatus, participants, settlementStatus, exceptionConfirmed,
          allocationStatus, claimStatus>>

TypeOK ==
  /\ eventStatus \in [Event -> Absent(EventStatus)]
  /\ participants \in [Event -> SUBSET Character]
  /\ settlementStatus \in [Settlement -> Absent(SettlementStatus)]
  /\ exceptionConfirmed \in [Settlement -> BOOLEAN]
  /\ allocationStatus \in [Allocation -> Absent(AllocationStatus)]
  /\ claimStatus \in [Claim -> Absent(ClaimStatus)]

Init ==
  /\ eventStatus = [e \in Event |-> "absent"]
  /\ participants = [e \in Event |-> {}]
  /\ settlementStatus = [s \in Settlement |-> "absent"]
  /\ exceptionConfirmed = [s \in Settlement |-> FALSE]
  /\ allocationStatus = [a \in Allocation |-> "absent"]
  /\ claimStatus = [c \in Claim |-> "absent"]

-------------------------------------------------------------------------------
(* Queries.  ss, as and cs are the status functions the query is run on.    *)

listByEvent(ss, e) == {s \in Settlement : EventOf[s] = e /\ ss[s] # "absent"}

activeSettlements(ss, e) == {s \in listByEvent(ss, e) : ss[s] # "cancelled"}

listBySettlement(as, s) ==
  {a \in Allocation : SettlementOf[a] = s /\ as[a] # "absent"}

activeClaims(cs, a) ==
  {c \in Claim : AllocationOf[c] = a /\ cs[c] \notin {"absent", "voided"}}

-------------------------------------------------------------------------------
(* The derived statuses.                                                    *)

\* Faulty variant: any event without active settlements is reopened.
SyncedEventStatusReopening(status, ss, e) ==
  IF activeSettlements(ss, e) = {} /\ status # "absent" THEN "ready_for_settlement"
  ELSE IF status = "partially_settled" THEN "settled" ELSE status

SyncedEventStatus(status, ss, e) ==
  LET active  == activeSettlements(ss, e)
      allPaid == \A s \in active : ss[s] = "paid"
  IN  IF status = "partially_settled" /\ active = {} THEN "ready_for_settlement"
      ELSE IF status = "partially_settled" /\ allPaid THEN "settled"
      ELSE IF status = "ready_for_settlement" /\ ~allPaid THEN "partially_settled"
      ELSE status

\* The events table after syncStatusFromSettlements(e); e may be NoEvent.
syncStatusFromSettlements(es, ss, e) ==
  [x \in Event |-> IF x = e THEN SyncedEventStatus(es[x], ss, e) ELSE es[x]]

\* The sync throws, having written nothing, for an open event under payout.
syncRefuses(es, ss, e) ==
  es[e] = "open" /\ \E s \in activeSettlements(ss, e) : ss[s] # "paid"

allTerminal(as, s) ==
  \A a \in listBySettlement(as, s) : isTerminalAllocationStatus(as[a])

\* syncStatusFromAllocations gets as far as markPaid.
reachesMarkPaid(status, as, s) ==
  /\ status \in {"calculated", "paying", "paid"}
  /\ listBySettlement(as, s) # {}
  /\ allTerminal(as, s)

\* Faulty variant: the event's final status in the settlement's column.
SyncedSettlementStatusMisnamed(status, as, s) ==
  IF reachesMarkPaid(status, as, s) THEN "settled" ELSE status

SyncedSettlementStatus(status, as, s) ==
  IF reachesMarkPaid(status, as, s) THEN "paid"
  ELSE IF status = "calculated" /\ ~allTerminal(as, s) THEN "paying"
  ELSE status

\* Runs on the allocations as just written.  A failing event sync at its end
\* leaves the settlement written, so it needs no guard.
syncStatusFromAllocations(s) ==
  /\ settlementStatus' = [settlementStatus EXCEPT
       ![s] = SyncedSettlementStatus(@, allocationStatus', s)]
  /\ eventStatus' =
       IF reachesMarkPaid(settlementStatus[s], allocationStatus', s)
       THEN syncStatusFromSettlements(eventStatus, settlementStatus', EventOf[s])
       ELSE eventStatus

setSettlement(s, status) ==
  settlementStatus' = [settlementStatus EXCEPT ![s] = status]

-------------------------------------------------------------------------------
(* Events.                                                                  *)

CreateEvent(e, P) ==
  /\ eventStatus[e] = "absent"
  /\ eventStatus' = [eventStatus EXCEPT ![e] = "open"]
  /\ participants' = [participants EXCEPT ![e] = P]
  /\ UNCHANGED <<settlementStatus, exceptionConfirmed, allocationStatus, claimStatus>>

\* The edit of the descriptive columns is not modelled; the status column is
\* written back as it was read.  An edit that gives no participants leaves them
\* alone, which is the case P = participants[e].
UpdateEvent(e, P) ==
  /\ eventStatus[e] \in {"open", "ready_for_settlement"}
  /\ participants' = [participants EXCEPT ![e] = P]
  /\ UNCHANGED <<eventStatus, settlementStatus, exceptionConfirmed,
                 allocationStatus, claimStatus>>

MarkReadyForSettlement(e) ==
  /\ assertTransition(eventStateMachine, eventStatus[e], "ready_for_settlement")
  /\ eventStatus' = [eventStatus EXCEPT ![e] = "ready_for_settlement"]
  /\ UNCHANGED <<participants, settlementStatus, exceptionConfirmed,
                 allocationStatus, claimStatus>>

CancelEvent(e) ==
  /\ assertTransition(eventStateMachine, eventStatus[e], "cancelled")
  /\ eventStatus' = [eventStatus EXCEPT ![e] = "cancelled"]
  /\ UNCHANGED <<participants, settlementStatus, exceptionConfirmed,
                 allocationStatus, claimStatus>>

\* PATCH /events/:id/status; the other three statuses are refused as managed.
UpdateEventStatus(e) == MarkReadyForSettlement(e) \/ CancelEvent(e)

-------------------------------------------------------------------------------
(* Settlements.                                                             *)

\* computeSettlementParticipantValidation for the recipients R.
requiresConfirmation(e, R) == participants[e] = {} \/ participants[e] # R

\* What validateSettlementParticipantsOrRespond lets through: the exception is
\* recorded exactly when it was needed, and then the caller has confirmed it.
participantException(s, R) ==
  EventOf[s] # NoEvent /\ requiresConfirmation(EventOf[s], R)

\* createDraftSettlement gets past its leading sync and its checks.
acceptsDraft(s) ==
  LET e      == EventOf[s]
      synced == syncStatusFromSettlements(eventStatus, settlementStatus, e)
  IN  /\ settlementStatus[s] = "absent"
      /\ e # NoEvent =>
           /\ ~syncRefuses(eventStatus, settlementStatus, e)
           /\ synced[e] \in {"ready_for_settlement", "partially_settled"}

CreateDraftSettlement(s, R) ==
  LET e      == EventOf[s]
      synced == syncStatusFromSettlements(eventStatus, settlementStatus, e)
  IN  /\ acceptsDraft(s)
      /\ setSettlement(s, "draft")
      /\ exceptionConfirmed' =
           [exceptionConfirmed EXCEPT ![s] = participantException(s, R)]
      /\ eventStatus' = syncStatusFromSettlements(synced, settlementStatus', e)
      /\ UNCHANGED <<participants, allocationStatus, claimStatus>>

\* A settle or create request that is refused after its leading sync.
SettleRefused(e) ==
  /\ eventStatus[e] # "absent"
  /\ ~syncRefuses(eventStatus, settlementStatus, e)
  /\ eventStatus' = syncStatusFromSettlements(eventStatus, settlementStatus, e)
  /\ UNCHANGED <<participants, settlementStatus, exceptionConfirmed,
                 allocationStatus, claimStatus>>

\* The allocations A can be inserted for s next to the rows it already has:
\* UNIQUE (settlement_id, character_id), which ignores NULL characters.
uniqueCharacters(as, s, A) ==
  \A a \in A, b \in listBySettlement(as, s) \cup A :
    a # b => CharacterOf[a] # CharacterOf[b] \/ CharacterOf[a] = NoCharacter

namedRecipients(A) == \A a \in A : CharacterOf[a] # NoCharacter

recipients(A) == {CharacterOf[a] : a \in A}

newAllocations(s, A) ==
  \A a \in A : SettlementOf[a] = s /\ allocationStatus[a] = "absent"

\* settleEventWithAllocations gets past its checks and its leading sync.
acceptsSettle(s, A) ==
  LET e      == EventOf[s]
      synced == syncStatusFromSettlements(eventStatus, settlementStatus, e)
  IN  /\ e # NoEvent
      /\ settlementStatus[s] = "absent"
      /\ A # {} /\ newAllocations(s, A)
      /\ namedRecipients(A) /\ uniqueCharacters(allocationStatus, s, A)
      /\ ~syncRefuses(eventStatus, settlementStatus, e)
      /\ synced[e] \in {"open", "ready_for_settlement"}
      /\ activeSettlements(settlementStatus, e) = {}

\* The one-request flow: the event is made ready, a settlement is drafted and
\* calculated, and one pending allocation per recipient is created.
SettleEventWithAllocations(s, A) ==
  LET e      == EventOf[s]
      synced == syncStatusFromSettlements(eventStatus, settlementStatus, e)
  IN  /\ acceptsSettle(s, A)
      /\ setSettlement(s, "calculated")
      /\ exceptionConfirmed' = [exceptionConfirmed EXCEPT
           ![s] = participantException(s, recipients(A))]
      /\ allocationStatus' = [a \in Allocation |->
           IF a \in A THEN "pending" ELSE allocationStatus[a]]
      /\ eventStatus' = syncStatusFromSettlements(
           [synced EXCEPT ![e] = "ready_for_settlement"], settlementStatus', e)
      /\ UNCHANGED <<participants, claimStatus>>

MarkCalculated(s) ==
  /\ assertTransition(settlementStateMachine, settlementStatus[s], "calculated")
  /\ setSettlement(s, "calculated")
  /\ UNCHANGED <<eventStatus, participants, exceptionConfirmed,
                 allocationStatus, claimStatus>>

\* Faulty variant: the payout starts without looking at the allocations.
StartPayingUnchecked(s) ==
  /\ assertTransition(settlementStateMachine, settlementStatus[s], "paying")
  /\ setSettlement(s, "paying")
  /\ UNCHANGED <<eventStatus, participants, exceptionConfirmed,
                 allocationStatus, claimStatus>>

StartPaying(s) ==
  /\ assertTransition(settlementStateMachine, settlementStatus[s], "paying")
  /\ listBySettlement(allocationStatus, s) # {}
  /\ setSettlement(s, "paying")
  /\ UNCHANGED <<eventStatus, participants, exceptionConfirmed,
                 allocationStatus, claimStatus>>

MarkPaid(s) ==
  /\ assertTransition(settlementStateMachine, settlementStatus[s], "paid")
  /\ allTerminal(allocationStatus, s)
  /\ setSettlement(s, "paid")
  /\ eventStatus' =
       syncStatusFromSettlements(eventStatus, settlementStatus', EventOf[s])
  /\ UNCHANGED <<participants, exceptionConfirmed, allocationStatus, claimStatus>>

\* Faulty variant: the event is not told.
CancelSettlementUnsynced(s) ==
  /\ assertTransition(settlementStateMachine, settlementStatus[s], "cancelled")
  /\ \A a \in listBySettlement(allocationStatus, s) : allocationStatus[a] # "claimed"
  /\ setSettlement(s, "cancelled")
  /\ UNCHANGED <<eventStatus, participants, exceptionConfirmed,
                 allocationStatus, claimStatus>>

CancelSettlement(s) ==
  /\ assertTransition(settlementStateMachine, settlementStatus[s], "cancelled")
  /\ \A a \in listBySettlement(allocationStatus, s) : allocationStatus[a] # "claimed"
  /\ setSettlement(s, "cancelled")
  /\ eventStatus' =
       syncStatusFromSettlements(eventStatus, settlementStatus', EventOf[s])
  /\ UNCHANGED <<participants, exceptionConfirmed, allocationStatus, claimStatus>>

\* PATCH /settlements/:id/status.
UpdateSettlementStatus(s) ==
  MarkCalculated(s) \/ StartPaying(s) \/ MarkPaid(s) \/ CancelSettlement(s)

-------------------------------------------------------------------------------
(* Allocations.                                                             *)

\* The participant rule of a settlement holds for the recipients R.
participantsAllow(s, R) ==
  EventOf[s] # NoEvent /\ ~exceptionConfirmed[s] => R \subseteq participants[EventOf[s]]

CreatePendingAllocation(a) ==
  LET s == SettlementOf[a]
  IN  /\ allocationStatus[a] = "absent"
      /\ settlementStatus[s] \in {"draft", "calculated", "paying"}
      /\ CharacterOf[a] # NoCharacter => participantsAllow(s, {CharacterOf[a]})
      /\ uniqueCharacters(allocationStatus, s, {a})
      /\ allocationStatus' = [allocationStatus EXCEPT ![a] = "pending"]
      /\ UNCHANGED <<eventStatus, participants, settlementStatus,
                     exceptionConfirmed, claimStatus>>

\* Each of the three terminal moves of an allocation ends with the sync of its
\* settlement.
closeAllocation(a, status) ==
  /\ assertTransition(allocationStateMachine, allocationStatus[a], status)
  /\ allocationStatus' = [allocationStatus EXCEPT ![a] = status]
  /\ syncStatusFromAllocations(SettlementOf[a])

WaiveAllocation(a) ==
  /\ closeAllocation(a, "waived")
  /\ UNCHANGED <<participants, exceptionConfirmed, claimStatus>>

CancelAllocation(a) ==
  /\ closeAllocation(a, "cancelled")
  /\ UNCHANGED <<participants, exceptionConfirmed, claimStatus>>

markClaimed(a) == closeAllocation(a, "claimed")

\* PATCH /allocations/:id/status; "claimed" is refused as managed by claims.
UpdateAllocationStatus(a) == WaiveAllocation(a) \/ CancelAllocation(a)

-------------------------------------------------------------------------------
(* Claims.                                                                  *)

\* Faulty variants: the existing claims are not queried, the status of the
\* settlement is not asked.
claimableRegardlessOfClaims(a) ==
  /\ allocationStatus[a] = "pending"
  /\ settlementStatus[SettlementOf[a]] \notin {"cancelled", "paid"}

claimableRegardlessOfSettlement(a) ==
  /\ allocationStatus[a] = "pending"
  /\ activeClaims(claimStatus, a) = {}

\* recordClaim's three checks, in its order.
claimable(a) ==
  /\ allocationStatus[a] = "pending"
  /\ settlementStatus[SettlementOf[a]] \notin {"cancelled", "paid"}
  /\ activeClaims(claimStatus, a) = {}

RecordClaim(c) ==
  LET a == AllocationOf[c]
      s == SettlementOf[a]
  IN  /\ claimStatus[c] = "absent"
      /\ claimable(a)
      /\ claimStatus' = [claimStatus EXCEPT ![c] = "recorded"]
      /\ setSettlement(s, IF settlementStatus[s] = "calculated"
                          THEN "paying" ELSE settlementStatus[s])
      /\ UNCHANGED <<eventStatus, participants, exceptionConfirmed, allocationStatus>>

\* Faulty variant: the claim machine is not asked.
ConfirmClaimUnchecked(c) ==
  LET a == AllocationOf[c]
  IN  /\ claimStatus[c] # "absent"
      /\ claimStatus' = [claimStatus EXCEPT ![c] = "confirmed"]
      /\ IF allocationStatus[a] = "pending"
         THEN markClaimed(a)
         ELSE UNCHANGED <<allocationStatus, settlementStatus, eventStatus>>
      /\ UNCHANGED <<participants, exceptionConfirmed>>

ConfirmClaim(c) ==
  LET a == AllocationOf[c]
  IN  /\ assertTransition(claimStateMachine, claimStatus[c], "confirmed")
      /\ claimStatus' = [claimStatus EXCEPT ![c] = "confirmed"]
      /\ IF allocationStatus[a] = "pending"
         THEN markClaimed(a)
         ELSE UNCHANGED <<allocationStatus, settlementStatus, eventStatus>>
      /\ UNCHANGED <<participants, exceptionConfirmed>>

\* No other claim of the allocation is confirmed.
noOtherConfirmed(cs, c) ==
  \A d \in Claim \ {c} : AllocationOf[d] = AllocationOf[c] => cs[d] # "confirmed"

\* Faulty variant: the allocation stays claimed.
VoidClaimAlone(c) ==
  /\ assertTransition(claimStateMachine, claimStatus[c], "voided")
  /\ claimStatus' = [claimStatus EXCEPT ![c] = "voided"]
  /\ UNCHANGED <<eventStatus, participants, settlementStatus, exceptionConfirmed,
                 allocationStatus>>

\* The allocation is put back to pending past its status machine.
VoidClaim(c) ==
  LET a == AllocationOf[c]
  IN  /\ assertTransition(claimStateMachine, claimStatus[c], "voided")
      /\ claimStatus' = [claimStatus EXCEPT ![c] = "voided"]
      /\ IF noOtherConfirmed(claimStatus, c) /\ allocationStatus[a] = "claimed"
         THEN /\ allocationStatus' = [allocationStatus EXCEPT ![a] = "pending"]
              /\ syncStatusFromAllocations(SettlementOf[a])
         ELSE UNCHANGED <<allocationStatus, settlementStatus, eventStatus>>
      /\ UNCHANGED <<participants, exceptionConfirmed>>

\* PATCH /claims/:id/status.
UpdateClaimStatus(c) == ConfirmClaim(c) \/ VoidClaim(c)

-------------------------------------------------------------------------------
(* Batch dispatch and disbursement.                                         *)

\* One item of a batch: a draft settlement is calculated first, and recordClaim
\* then starts its payout.  A batch is its items in order; an item that fails
\* leaves the earlier ones recorded.
RecordBatchClaim(c) ==
  LET a == AllocationOf[c]
      s == SettlementOf[a]
  IN  /\ claimStatus[c] = "absent"
      /\ claimable(a)
      /\ claimStatus' = [claimStatus EXCEPT ![c] = "recorded"]
      /\ setSettlement(s, "paying")
      /\ UNCHANGED <<eventStatus, participants, exceptionConfirmed, allocationStatus>>

\* An item refused by recordClaim after its settlement has been calculated.
BatchClaimRefused(a) ==
  LET s == SettlementOf[a]
  IN  /\ allocationStatus[a] \notin {"absent", "pending"}
      /\ activeClaims(claimStatus, a) = {}
      /\ settlementStatus[s] = "draft"
      /\ setSettlement(s, "calculated")
      /\ UNCHANGED <<eventStatus, participants, exceptionConfirmed,
                     allocationStatus, claimStatus>>

\* New claims, no two of them for one allocation.
newClaims(C) ==
  /\ \A c \in C : claimStatus[c] = "absent"
  /\ \A c, d \in C : AllocationOf[c] = AllocationOf[d] => c = d

disbursable(s) == settlementStatus[s] \in {"draft", "calculated", "paying"}

\* Without allocations the items become allocations; with allocations they
\* must be exactly the pending, unclaimed, named ones.
DisburseSettlement(s, C) ==
  LET existing == listBySettlement(allocationStatus, s)
      A        == {AllocationOf[c] : c \in C}
  IN  /\ disbursable(s)
      /\ A # {} /\ namedRecipients(A)
      /\ participantsAllow(s, recipients(A))
      /\ \/ /\ existing = {}
            /\ newAllocations(s, A) /\ uniqueCharacters(allocationStatus, s, A)
         \/ /\ A = existing
            /\ \A a \in A : claimable(a)
      /\ newClaims(C)
      /\ allocationStatus' = [a \in Allocation |->
           IF a \in A THEN "pending" ELSE allocationStatus[a]]
      /\ claimStatus' = [c \in Claim |-> IF c \in C THEN "recorded" ELSE claimStatus[c]]
      /\ setSettlement(s, "paying")
      /\ UNCHANGED <<eventStatus, participants, exceptionConfirmed>>

\* A disbursement refused by its total or by the match, after the draft has
\* been calculated.
DisburseRefused(s) ==
  /\ settlementStatus[s] = "draft"
  /\ \E R \in SUBSET Character : R # {} /\ participantsAllow(s, R)
  /\ setSettlement(s, "calculated")
  /\ UNCHANGED <<eventStatus, participants, exceptionConfirmed,
                 allocationStatus, claimStatus>>

-------------------------------------------------------------------------------
EventNext ==
  \E e \in Event :
    \/ \E P \in SUBSET Character : CreateEvent(e, P) \/ UpdateEvent(e, P)
    \/ UpdateEventStatus(e)
    \/ SettleRefused(e)

SettlementNext ==
  \E s \in Settlement :
    \/ \E R \in SUBSET Character : CreateDraftSettlement(s, R)
    \/ \E A \in SUBSET Allocation : SettleEventWithAllocations(s, A)
    \/ UpdateSettlementStatus(s)
    \/ \E C \in SUBSET Claim : DisburseSettlement(s, C)
    \/ DisburseRefused(s)

AllocationNext ==
  \E a \in Allocation :
    CreatePendingAllocation(a) \/ UpdateAllocationStatus(a) \/ BatchClaimRefused(a)

ClaimNext ==
  \E c \in Claim : RecordClaim(c) \/ RecordBatchClaim(c) \/ UpdateClaimStatus(c)

Next == EventNext \/ SettlementNext \/ AllocationNext \/ ClaimNext

Spec == Init /\ [][Next]_vars
===============================================================================
