----------------------------- MODULE LedgerProofs -----------------------------
(***************************************************************************)
(* Proofs that the requests of Ledger keep its invariants, for any number  *)
(* of events, settlements, allocations, claims and characters.             *)
(***************************************************************************)
EXTENDS LedgerProperties, TLAPS

-------------------------------------------------------------------------------
(* The derived statuses are statuses.                                       *)

LEMMA SyncedEventStatusType ==
  ASSUME NEW status \in Absent(EventStatus), NEW ss, NEW e
  PROVE  SyncedEventStatus(status, ss, e) \in Absent(EventStatus)
BY DEF SyncedEventStatus, Absent, EventStatus

LEMMA SyncEventsType ==
  ASSUME NEW es \in [Event -> Absent(EventStatus)], NEW ss, NEW e
  PROVE  syncStatusFromSettlements(es, ss, e) \in [Event -> Absent(EventStatus)]
BY SyncedEventStatusType DEF syncStatusFromSettlements

LEMMA SyncedSettlementStatusType ==
  ASSUME NEW status \in Absent(SettlementStatus), NEW as, NEW s
  PROVE  SyncedSettlementStatus(status, as, s) \in Absent(SettlementStatus)
BY DEF SyncedSettlementStatus, Absent, SettlementStatus

LEMMA SyncFromAllocationsType ==
  ASSUME TypeOK, NEW s \in Settlement, syncStatusFromAllocations(s)
  PROVE  /\ eventStatus' \in [Event -> Absent(EventStatus)]
         /\ settlementStatus' \in [Settlement -> Absent(SettlementStatus)]
BY SyncEventsType, SyncedSettlementStatusType DEF TypeOK, syncStatusFromAllocations

-------------------------------------------------------------------------------
(* Type correctness.                                                        *)

LEMMA TypeStep == ASSUME TypeOK, [Next]_vars PROVE TypeOK'
<1> USE ForeignKeys
<1>1. CASE UNCHANGED vars
  BY <1>1 DEF vars, TypeOK
<1>2. CASE EventNext
  BY <1>2, SyncEventsType
     DEF EventNext, CreateEvent, UpdateEvent, UpdateEventStatus, MarkReadyForSettlement,
         CancelEvent, SettleRefused, TypeOK, Absent, EventStatus
<1>3. ASSUME NEW s \in Settlement, NEW R \in SUBSET Character, CreateDraftSettlement(s, R)
      PROVE  TypeOK'
  BY <1>3, SyncEventsType
     DEF CreateDraftSettlement, setSettlement, participantException, requiresConfirmation,
         TypeOK, Absent, SettlementStatus
<1>4. ASSUME NEW s \in Settlement, NEW A \in SUBSET Allocation,
             SettleEventWithAllocations(s, A)
      PROVE  TypeOK'
  <2> DEFINE synced == syncStatusFromSettlements(eventStatus, settlementStatus, EventOf[s])
  <2>1. [synced EXCEPT ![EventOf[s]] = "ready_for_settlement"]
          \in [Event -> Absent(EventStatus)]
    BY SyncEventsType DEF TypeOK, Absent, EventStatus
  <2> QED
    BY <1>4, <2>1, SyncEventsType
       DEF SettleEventWithAllocations, setSettlement, participantException,
           requiresConfirmation, TypeOK, Absent, SettlementStatus, AllocationStatus
<1>5. ASSUME NEW s \in Settlement, UpdateSettlementStatus(s) \/ DisburseRefused(s)
      PROVE  TypeOK'
  BY <1>5, SyncEventsType
     DEF UpdateSettlementStatus, MarkCalculated, StartPaying, MarkPaid, CancelSettlement,
         DisburseRefused, setSettlement, TypeOK, Absent, SettlementStatus
<1>6. ASSUME NEW s \in Settlement, NEW C \in SUBSET Claim, DisburseSettlement(s, C)
      PROVE  TypeOK'
  BY <1>6 DEF DisburseSettlement, setSettlement, TypeOK, Absent, SettlementStatus,
              AllocationStatus, ClaimStatus
<1>7. ASSUME NEW a \in Allocation, CreatePendingAllocation(a) \/ BatchClaimRefused(a)
      PROVE  TypeOK'
  BY <1>7 DEF CreatePendingAllocation, BatchClaimRefused, setSettlement, TypeOK, Absent,
              SettlementStatus, AllocationStatus
<1>8. ASSUME NEW a \in Allocation, UpdateAllocationStatus(a)
      PROVE  TypeOK'
  BY <1>8, SyncFromAllocationsType
     DEF UpdateAllocationStatus, WaiveAllocation, CancelAllocation, closeAllocation,
         TypeOK, Absent, AllocationStatus
<1>9. ASSUME NEW c \in Claim, RecordClaim(c) \/ RecordBatchClaim(c)
      PROVE  TypeOK'
  BY <1>9 DEF RecordClaim, RecordBatchClaim, setSettlement, TypeOK, Absent,
              SettlementStatus, ClaimStatus
<1>10. ASSUME NEW c \in Claim, UpdateClaimStatus(c)
       PROVE  TypeOK'
  BY <1>10, SyncFromAllocationsType
     DEF UpdateClaimStatus, ConfirmClaim, VoidClaim, markClaimed, closeAllocation,
         TypeOK, Absent, AllocationStatus, ClaimStatus
<1> QED
  BY <1>1, <1>2, <1>3, <1>4, <1>5, <1>6, <1>7, <1>8, <1>9, <1>10
     DEF Next, SettlementNext, AllocationNext, ClaimNext

\* Every column keeps the statuses of its own machine, whatever composition of
\* syncs a request runs.
THEOREM TypeCorrect == Spec => []TypeOK
<1>1. Init => TypeOK
  BY DEF Init, TypeOK, Absent
<1>2. TypeOK /\ [Next]_vars => TypeOK'
  BY TypeStep
<1> QED BY <1>1, <1>2, PTL DEF Spec

-------------------------------------------------------------------------------
(* The invariants.                                                          *)

IInv == TypeOK /\ Inv

LEMMA InitInv == ASSUME Init PROVE IInv
<1>1. TypeOK
  BY DEF Init, TypeOK, Absent
<1>2. ParentsExist /\ OneActiveClaim /\ AllocationSummarisesClaims
  BY ForeignKeys DEF Init, ParentsExist, exists, OneActiveClaim, AllocationSummarisesClaims
<1>3. PayoutHasAllocations /\ PaidResidueIsVoided
  BY ForeignKeys DEF Init, PayoutHasAllocations, PaidResidueIsVoided
<1>4. EventReflectsSettlements
  BY DEF Init, EventReflectsSettlements, ActiveSettlement, activeSettlements, listByEvent
<1> QED BY <1>1, <1>2, <1>3, <1>4 DEF IInv, Inv

-------------------------------------------------------------------------------
(* What a request does to the shares, and what it does to the settlements.  *)

\* The claims C and the allocations A are inserted: C over pending shares that
\* have no live claim, A under settlements that are not closed.  Nothing else
\* happens to a claim or an allocation, and a settlement that becomes paid has
\* no open share.
Inserts(A, C) ==
  /\ claimStatus' = [c \in Claim |-> IF c \in C THEN "recorded" ELSE claimStatus[c]]
  /\ newClaims(C)
  /\ \A c \in C : /\ allocationStatus[AllocationOf[c]] \in {"absent", "pending"}
                  /\ allocationStatus'[AllocationOf[c]] = "pending"
                  /\ activeClaims(claimStatus, AllocationOf[c]) = {}
                  /\ settlementStatus'[SettlementOf[AllocationOf[c]]] # "paid"
  /\ allocationStatus' =
       [a \in Allocation |-> IF a \in A THEN "pending" ELSE allocationStatus[a]]
  /\ \A a \in A : /\ allocationStatus[a] \in {"absent", "pending"}
                  /\ settlementStatus'[SettlementOf[a]] \in {"draft", "calculated", "paying"}
  /\ \A s \in Settlement : settlementStatus'[s] = "paid" =>
       settlementStatus[s] = "paid" \/ allTerminal(allocationStatus', s)

\* A row that is not there has no children.
LEMMA AbsentIsFree ==
  ASSUME IInv, NEW a \in Allocation, allocationStatus[a] = "absent"
  PROVE  activeClaims(claimStatus, a) = {}
BY DEF IInv, Inv, ParentsExist, exists, activeClaims

\* Every request inserts (possibly nothing), closes one share, or confirms or
\* voids one claim.
LEMMA ShareEffect ==
  ASSUME IInv, [Next]_vars
  PROVE  \/ \E A \in SUBSET Allocation, C \in SUBSET Claim : Inserts(A, C)
         \/ \E a \in Allocation : UpdateAllocationStatus(a)
         \/ \E c \in Claim : ConfirmClaim(c) \/ VoidClaim(c)
<1> USE ForeignKeys
<1> DEFINE Inserted == \E A \in SUBSET Allocation, C \in SUBSET Claim : Inserts(A, C)
<1>1. ASSUME UNCHANGED <<settlementStatus, allocationStatus, claimStatus>>
      PROVE  Inserted
  <2>1. Inserts({}, {})
    BY <1>1 DEF Inserts, newClaims, IInv, TypeOK
  <2> QED BY <2>1
<1>2. CASE EventNext
  BY <1>1, <1>2
     DEF EventNext, CreateEvent, UpdateEvent, UpdateEventStatus, MarkReadyForSettlement,
         CancelEvent, SettleRefused
<1>3. ASSUME NEW s \in Settlement, NEW R \in SUBSET Character, CreateDraftSettlement(s, R)
      PROVE  Inserted
  <2>1. Inserts({}, {})
    BY <1>3 DEF CreateDraftSettlement, setSettlement, Inserts, newClaims, IInv, TypeOK
  <2> QED BY <2>1
<1>4. ASSUME NEW s \in Settlement, NEW A \in SUBSET Allocation,
             SettleEventWithAllocations(s, A)
      PROVE  Inserted
  <2>1. Inserts(A, {})
    BY <1>4
       DEF SettleEventWithAllocations, acceptsSettle, newAllocations, setSettlement, Inserts,
           newClaims, IInv, TypeOK
  <2> QED BY <2>1
<1>5. ASSUME NEW s \in Settlement, UpdateSettlementStatus(s) \/ DisburseRefused(s)
      PROVE  Inserted
  <2>1. Inserts({}, {})
    BY <1>5
       DEF UpdateSettlementStatus, MarkCalculated, StartPaying, MarkPaid, CancelSettlement,
           DisburseRefused, setSettlement, Inserts, newClaims, IInv, TypeOK
  <2> QED BY <2>1
<1>6. ASSUME NEW s \in Settlement, NEW C \in SUBSET Claim, DisburseSettlement(s, C)
      PROVE  Inserted
  <2> DEFINE A == {AllocationOf[c] : c \in C}
  <2>1. ASSUME NEW c \in C
        PROVE  /\ SettlementOf[AllocationOf[c]] = s
               /\ allocationStatus[AllocationOf[c]] \in {"absent", "pending"}
               /\ activeClaims(claimStatus, AllocationOf[c]) = {}
    BY <1>6, AbsentIsFree
       DEF DisburseSettlement, newAllocations, claimable, listBySettlement
  <2>2. /\ settlementStatus'[s] = "paying"
        /\ \A x \in Settlement :
             settlementStatus'[x] = "paid" => settlementStatus[x] = "paid"
    BY <1>6 DEF DisburseSettlement, setSettlement, IInv, TypeOK
  <2>3. newClaims(C)
    BY <1>6 DEF DisburseSettlement
  <2>4. /\ claimStatus' = [c \in Claim |-> IF c \in C THEN "recorded" ELSE claimStatus[c]]
        /\ allocationStatus' =
             [a \in Allocation |-> IF a \in A THEN "pending" ELSE allocationStatus[a]]
    BY <1>6 DEF DisburseSettlement
  <2>5. \A c \in C : allocationStatus'[AllocationOf[c]] = "pending"
    BY <2>4
  <2>6. \A a \in A : SettlementOf[a] = s /\ allocationStatus[a] \in {"absent", "pending"}
    BY <2>1
  <2>7. A \in SUBSET Allocation
    OBVIOUS
  <2> HIDE DEF A
  <2>8. Inserts(A, C)
    BY <2>1, <2>2, <2>3, <2>4, <2>5, <2>6 DEF Inserts
  <2> QED BY <2>7, <2>8
<1>7. ASSUME NEW a \in Allocation, CreatePendingAllocation(a)
      PROVE  Inserted
  <2>1. Inserts({a}, {})
    BY <1>7 DEF CreatePendingAllocation, Inserts, newClaims, IInv, TypeOK
  <2> QED BY <2>1
<1>8. ASSUME NEW a \in Allocation, BatchClaimRefused(a)
      PROVE  Inserted
  <2>1. Inserts({}, {})
    BY <1>8 DEF BatchClaimRefused, setSettlement, Inserts, newClaims, IInv, TypeOK
  <2> QED BY <2>1
<1>9. ASSUME NEW c \in Claim, RecordClaim(c) \/ RecordBatchClaim(c)
      PROVE  Inserted
  <2>1. Inserts({}, {c})
    BY <1>9
       DEF RecordClaim, RecordBatchClaim, claimable, setSettlement, Inserts, newClaims,
           IInv, TypeOK
  <2> QED BY <2>1
<1> HIDE DEF Inserted
<1>10. CASE UNCHANGED vars
  BY <1>1, <1>10 DEF vars, Inserted
<1>11. CASE SettlementNext
  BY <1>3, <1>4, <1>5, <1>6, <1>11 DEF SettlementNext, Inserted
<1>12. CASE AllocationNext
  BY <1>7, <1>8, <1>12 DEF AllocationNext, Inserted
<1>13. CASE ClaimNext
  BY <1>9, <1>13 DEF ClaimNext, UpdateClaimStatus, Inserted
<1> QED
  BY <1>2, <1>10, <1>11, <1>12, <1>13 DEF Next, Inserted

\* What closing a share, confirming a claim and voiding a claim leave behind.
LEMMA CloseEffect ==
  ASSUME TypeOK, NEW a \in Allocation, UpdateAllocationStatus(a)
  PROVE  /\ UNCHANGED claimStatus
         /\ syncStatusFromAllocations(SettlementOf[a])
         /\ allocationStatus[a] \in {"pending", "waived", "cancelled"}
         /\ \E status \in {"waived", "cancelled"} :
              /\ allocationStatus' = [allocationStatus EXCEPT ![a] = status]
              /\ allocationStatus[a] # "pending" => allocationStatus[a] = status
BY DEF UpdateAllocationStatus, WaiveAllocation, CancelAllocation, closeAllocation,
       assertTransition, allocationStateMachine

LEMMA ConfirmEffect ==
  ASSUME TypeOK, NEW c \in Claim, ConfirmClaim(c)
  PROVE  /\ claimStatus[c] \in {"recorded", "confirmed"}
         /\ claimStatus' = [claimStatus EXCEPT ![c] = "confirmed"]
         /\ allocationStatus' = [allocationStatus EXCEPT
              ![AllocationOf[c]] = IF @ = "pending" THEN "claimed" ELSE @]
         /\ \/ UNCHANGED <<settlementStatus, eventStatus>>
            \/ syncStatusFromAllocations(SettlementOf[AllocationOf[c]])
BY ForeignKeys
   DEF ConfirmClaim, markClaimed, closeAllocation, assertTransition, claimStateMachine,
       TypeOK

LEMMA VoidEffect ==
  ASSUME TypeOK, NEW c \in Claim, VoidClaim(c)
  PROVE  /\ claimStatus[c] # "absent"
         /\ claimStatus' = [claimStatus EXCEPT ![c] = "voided"]
         /\ allocationStatus' = [allocationStatus EXCEPT
              ![AllocationOf[c]] =
                 IF noOtherConfirmed(claimStatus, c) /\ @ = "claimed" THEN "pending" ELSE @]
         /\ \/ UNCHANGED <<settlementStatus, eventStatus>>
            \/ syncStatusFromAllocations(SettlementOf[AllocationOf[c]])
BY ForeignKeys DEF VoidClaim, assertTransition, claimStateMachine, TypeOK

\* The allocation sync moves one settlement, forward, and to paid only over
\* closed shares.
LEMMA SyncEffect ==
  ASSUME TypeOK, NEW s \in Settlement, syncStatusFromAllocations(s), NEW x \in Settlement
  PROVE  \/ settlementStatus'[x] = settlementStatus[x]
         \/ settlementStatus[x] = "calculated" /\ settlementStatus'[x] = "paying"
         \/ /\ settlementStatus[x] \in {"calculated", "paying"}
            /\ settlementStatus'[x] = "paid"
            /\ allTerminal(allocationStatus', x)
            /\ listBySettlement(allocationStatus', x) # {}
BY DEF TypeOK, syncStatusFromAllocations, SyncedSettlementStatus, reachesMarkPaid

\* Every request moves settlements that are not closed among themselves, edits
\* one event, creates or closes one settlement, or runs the allocation sync.
Progress ==
  /\ UNCHANGED eventStatus
  /\ \A s \in Settlement :
       \/ settlementStatus'[s] = settlementStatus[s]
       \/ /\ {settlementStatus[s], settlementStatus'[s]} \subseteq {"draft", "calculated", "paying"}
          /\ settlementStatus'[s] = "paying" =>
               \E a \in Allocation : SettlementOf[a] = s /\ exists(allocationStatus', a)

LEMMA SettlementEffect ==
  ASSUME IInv, [Next]_vars
  PROVE  \/ Progress
         \/ EventNext /\ UNCHANGED settlementStatus
         \/ \E s \in Settlement, R \in SUBSET Character : CreateDraftSettlement(s, R)
         \/ \E s \in Settlement, A \in SUBSET Allocation : SettleEventWithAllocations(s, A)
         \/ \E s \in Settlement : MarkPaid(s) \/ CancelSettlement(s)
         \/ \E s \in Settlement : syncStatusFromAllocations(s)
<1> USE ForeignKeys DEF IInv, TypeOK
<1>1. CASE UNCHANGED vars
  BY <1>1 DEF vars, Progress
<1>2. CASE EventNext
  BY <1>2 DEF EventNext, CreateEvent, UpdateEvent, UpdateEventStatus, MarkReadyForSettlement,
              CancelEvent, SettleRefused
<1>3. ASSUME NEW s \in Settlement, MarkCalculated(s) \/ StartPaying(s) \/ DisburseRefused(s)
      PROVE  Progress
  BY <1>3
     DEF MarkCalculated, StartPaying, DisburseRefused, setSettlement, assertTransition,
         settlementStateMachine, listBySettlement, exists, Progress
<1>4. ASSUME NEW s \in Settlement, NEW C \in SUBSET Claim, DisburseSettlement(s, C)
      PROVE  Progress
  <2>1. PICK c \in C : /\ SettlementOf[AllocationOf[c]] = s
                       /\ allocationStatus'[AllocationOf[c]] = "pending"
    <3> DEFINE A == {AllocationOf[d] : d \in C}
    <3>1. PICK c \in C : AllocationOf[c] \in A
      BY <1>4 DEF DisburseSettlement
    <3>2. SettlementOf[AllocationOf[c]] = s
      BY <1>4, <3>1 DEF DisburseSettlement, newAllocations, listBySettlement
    <3>3. allocationStatus'[AllocationOf[c]] = "pending"
      BY <1>4, <3>1 DEF DisburseSettlement
    <3> QED BY <3>1, <3>2, <3>3
  <2>2. /\ UNCHANGED eventStatus
        /\ settlementStatus[s] \in {"draft", "calculated", "paying"}
        /\ settlementStatus' = [settlementStatus EXCEPT ![s] = "paying"]
    BY <1>4 DEF DisburseSettlement, disbursable, setSettlement
  <2> QED
    BY <2>1, <2>2 DEF exists, Progress
<1>5. ASSUME NEW a \in Allocation, CreatePendingAllocation(a) \/ BatchClaimRefused(a)
      PROVE  Progress
  BY <1>5 DEF CreatePendingAllocation, BatchClaimRefused, setSettlement, Progress
<1>6. ASSUME NEW c \in Claim, RecordClaim(c) \/ RecordBatchClaim(c)
      PROVE  Progress
  <2>1. settlementStatus[SettlementOf[AllocationOf[c]]] \in {"draft", "calculated", "paying"}
    BY <1>6
       DEF RecordClaim, RecordBatchClaim, claimable, Inv, ParentsExist, exists, Absent,
           SettlementStatus
  <2> QED
    BY <1>6, <2>1 DEF RecordClaim, RecordBatchClaim, claimable, setSettlement, exists, Progress
<1>7. ASSUME NEW a \in Allocation, UpdateAllocationStatus(a)
      PROVE  \E s \in Settlement : syncStatusFromAllocations(s)
  BY <1>7, CloseEffect
<1>8. ASSUME NEW c \in Claim, ConfirmClaim(c) \/ VoidClaim(c)
      PROVE  Progress \/ \E s \in Settlement : syncStatusFromAllocations(s)
  BY <1>8, ConfirmEffect, VoidEffect DEF Progress
<1> QED
  BY <1>1, <1>2, <1>3, <1>4, <1>5, <1>6, <1>7, <1>8
     DEF Next, SettlementNext, AllocationNext, ClaimNext, UpdateSettlementStatus,
         UpdateClaimStatus

-------------------------------------------------------------------------------
(* One lemma per invariant: every request keeps it.                         *)

\* Rows stay, and a row is inserted under an existing parent.
LEMMA ParentsStep ==
  ASSUME IInv, [Next]_vars
  PROVE  ParentsExist'
<1> USE ForeignKeys DEF exists
<1>1. \A a \in Allocation : exists(allocationStatus, a) => exists(allocationStatus', a)
  BY ShareEffect, CloseEffect, ConfirmEffect, VoidEffect DEF Inserts, IInv, TypeOK
<1>2. \A s \in Settlement : exists(settlementStatus, s) => exists(settlementStatus', s)
  BY SettlementEffect, SyncEffect
     DEF Progress, CreateDraftSettlement, SettleEventWithAllocations, MarkPaid,
         CancelSettlement, setSettlement, IInv, TypeOK
<1>3. ASSUME NEW es \in [Event -> Absent(EventStatus)], NEW ss, NEW e, NEW x \in Event
      PROVE  es[x] = "absent" <=> syncStatusFromSettlements(es, ss, e)[x] = "absent"
  BY DEF syncStatusFromSettlements, SyncedEventStatus
<1>4. \A e \in Event : exists(eventStatus, e) => exists(eventStatus', e)
  <2>1. CASE EventNext
    BY <2>1, <1>3
       DEF EventNext, CreateEvent, UpdateEvent, UpdateEventStatus, MarkReadyForSettlement,
           CancelEvent, SettleRefused, IInv, TypeOK
  <2>2. ASSUME NEW s \in Settlement, NEW R \in SUBSET Character, CreateDraftSettlement(s, R)
        PROVE  \A e \in Event : exists(eventStatus, e) => exists(eventStatus', e)
    BY <2>2, <1>3, SyncEventsType DEF CreateDraftSettlement, IInv, TypeOK
  <2>3. ASSUME NEW s \in Settlement, NEW A \in SUBSET Allocation,
               SettleEventWithAllocations(s, A)
        PROVE  \A e \in Event : exists(eventStatus, e) => exists(eventStatus', e)
    <3> DEFINE synced == syncStatusFromSettlements(eventStatus, settlementStatus, EventOf[s])
    <3>1. synced \in [Event -> Absent(EventStatus)]
      BY SyncEventsType DEF IInv, TypeOK
    <3> DEFINE ready == [synced EXCEPT ![EventOf[s]] = "ready_for_settlement"]
    <3>2. ready \in [Event -> Absent(EventStatus)]
      BY <3>1 DEF Absent, EventStatus
    <3>3. \A e \in Event : exists(eventStatus, e) => ready[e] # "absent"
      BY <1>3, <3>1 DEF IInv, TypeOK
    <3>4. eventStatus' = syncStatusFromSettlements(ready, settlementStatus', EventOf[s])
      BY <2>3 DEF SettleEventWithAllocations
    <3> HIDE DEF ready
    <3> QED BY <1>3, <3>2, <3>3, <3>4
  <2>4. ASSUME NEW s \in Settlement,
               MarkPaid(s) \/ CancelSettlement(s) \/ syncStatusFromAllocations(s)
        PROVE  \A e \in Event : exists(eventStatus, e) => exists(eventStatus', e)
    BY <2>4, <1>3 DEF MarkPaid, CancelSettlement, syncStatusFromAllocations, IInv, TypeOK
  <2> QED BY <2>1, <2>2, <2>3, <2>4, SettlementEffect DEF Progress
<1>5. \A c \in Claim : exists(claimStatus', c) => exists(allocationStatus', AllocationOf[c])
  BY <1>1, ShareEffect, CloseEffect, ConfirmEffect, VoidEffect
     DEF Inserts, IInv, Inv, TypeOK, ParentsExist
<1>6. \A a \in Allocation :
        exists(allocationStatus', a) => exists(settlementStatus', SettlementOf[a])
  BY <1>2, ShareEffect, CloseEffect, ConfirmEffect, VoidEffect
     DEF Inserts, IInv, Inv, TypeOK, ParentsExist
<1>7. ASSUME NEW s \in Settlement, exists(settlementStatus', s), ~exists(settlementStatus, s),
             EventOf[s] # NoEvent
      PROVE  exists(eventStatus, EventOf[s])
  <2>1. PICK x \in Settlement :
          \/ \E R \in SUBSET Character : CreateDraftSettlement(x, R)
          \/ \E A \in SUBSET Allocation : SettleEventWithAllocations(x, A)
    BY <1>7, SettlementEffect, SyncEffect
       DEF Progress, MarkPaid, CancelSettlement, assertTransition, settlementStateMachine,
           setSettlement, IInv, TypeOK
  <2>2. x = s
    BY <1>7, <2>1
       DEF CreateDraftSettlement, SettleEventWithAllocations, setSettlement, IInv, TypeOK
  <2>3. syncStatusFromSettlements(eventStatus, settlementStatus, EventOf[s])[EventOf[s]]
          # "absent"
    BY <1>7, <2>1, <2>2
       DEF CreateDraftSettlement, acceptsDraft, SettleEventWithAllocations, acceptsSettle
  <2> QED BY <1>3, <1>7, <2>3 DEF IInv, TypeOK
<1> QED
  BY <1>4, <1>5, <1>6, <1>7 DEF IInv, Inv, ParentsExist

\* Each way to insert a claim has seen that the allocation has no live one.
LEMMA OneActiveClaimStep ==
  ASSUME IInv, [Next]_vars
  PROVE  OneActiveClaim'
<1>1. ASSUME NEW A \in SUBSET Allocation, NEW C \in SUBSET Claim, Inserts(A, C)
      PROVE  OneActiveClaim'
  BY <1>1
     DEF Inserts, newClaims, activeClaims, IInv, Inv, TypeOK, OneActiveClaim
<1>2. ASSUME NEW a \in Allocation, UpdateAllocationStatus(a)
      PROVE  OneActiveClaim'
  BY <1>2, CloseEffect DEF IInv, Inv, OneActiveClaim
<1>3. ASSUME NEW c \in Claim, ConfirmClaim(c)
      PROVE  OneActiveClaim'
  BY <1>3, ConfirmEffect DEF IInv, Inv, TypeOK, OneActiveClaim
<1>4. ASSUME NEW c \in Claim, VoidClaim(c)
      PROVE  OneActiveClaim'
  BY <1>4, VoidEffect DEF IInv, Inv, TypeOK, OneActiveClaim
<1> QED BY <1>1, <1>2, <1>3, <1>4, ShareEffect

\* confirmClaim and voidClaim move the claim and its allocation together.
LEMMA SummaryStep ==
  ASSUME IInv, [Next]_vars
  PROVE  AllocationSummarisesClaims'
<1> USE ForeignKeys DEF IInv, Inv, TypeOK, AllocationSummarisesClaims
<1>1. ASSUME NEW A \in SUBSET Allocation, NEW C \in SUBSET Claim, Inserts(A, C)
      PROVE  AllocationSummarisesClaims'
  BY <1>1 DEF Inserts, newClaims, ParentsExist, exists
<1>2. ASSUME NEW a \in Allocation, UpdateAllocationStatus(a)
      PROVE  AllocationSummarisesClaims'
  BY <1>2, CloseEffect
<1>3. ASSUME NEW c \in Claim, ConfirmClaim(c)
      PROVE  AllocationSummarisesClaims'
  BY <1>3, ConfirmEffect
<1>4. ASSUME NEW c \in Claim, VoidClaim(c)
      PROVE  AllocationSummarisesClaims'
  BY <1>4, VoidEffect DEF noOtherConfirmed
<1> QED BY <1>1, <1>2, <1>3, <1>4, ShareEffect

\* A settlement starts paying only over an existing allocation.
LEMMA PayoutStep ==
  ASSUME IInv, [Next]_vars
  PROVE  PayoutHasAllocations'
<1> USE DEF IInv, Inv, TypeOK, exists
<1>1. \A a \in Allocation : exists(allocationStatus, a) => exists(allocationStatus', a)
  BY ForeignKeys, ShareEffect, CloseEffect, ConfirmEffect, VoidEffect DEF Inserts
<1> SUFFICES ASSUME NEW s \in Settlement, settlementStatus'[s] \in {"paying", "paid"},
                    settlementStatus[s] \notin {"paying", "paid"}
             PROVE  \E a \in Allocation : SettlementOf[a] = s /\ exists(allocationStatus', a)
  BY <1>1 DEF PayoutHasAllocations
<1>2. CASE Progress
  BY <1>2 DEF Progress
<1>3. ASSUME NEW x \in Settlement, syncStatusFromAllocations(x)
      PROVE  \E a \in Allocation : SettlementOf[a] = s /\ exists(allocationStatus', a)
  <2>1. CASE settlementStatus'[s] = "paid"
    BY <1>3, <2>1, SyncEffect DEF listBySettlement
  <2>2. CASE settlementStatus'[s] = "paying"
    BY <1>3, <2>2
       DEF syncStatusFromAllocations, SyncedSettlementStatus, allTerminal, listBySettlement
  <2> QED BY <2>1, <2>2
<1> QED
  BY <1>2, <1>3, SettlementEffect
     DEF CreateDraftSettlement, SettleEventWithAllocations, MarkPaid, CancelSettlement,
         assertTransition, settlementStateMachine, setSettlement

\* A settlement is paid over closed shares, and only voidClaim reopens one.
LEMMA ResidueStep ==
  ASSUME IInv, [Next]_vars
  PROVE  PaidResidueIsVoided'
<1> USE ForeignKeys DEF IInv, Inv, TypeOK
<1> DEFINE Voided(a) ==
      /\ \E c \in Claim : AllocationOf[c] = a /\ claimStatus'[c] = "voided"
      /\ \A c \in Claim : AllocationOf[c] = a => claimStatus'[c] \in {"absent", "voided"}
<1> SUFFICES ASSUME NEW a \in Allocation,
                    settlementStatus'[SettlementOf[a]] = "paid",
                    allocationStatus'[a] = "pending"
             PROVE  Voided(a)
  BY DEF PaidResidueIsVoided
<1>1. ~allTerminal(allocationStatus', SettlementOf[a])
  BY DEF allTerminal, listBySettlement, isTerminalAllocationStatus
<1>2. ASSUME NEW A \in SUBSET Allocation, NEW C \in SUBSET Claim, Inserts(A, C)
      PROVE  Voided(a)
  BY <1>1, <1>2 DEF Inserts, newClaims, PaidResidueIsVoided
<1>3. ASSUME NEW b \in Allocation, UpdateAllocationStatus(b)
      PROVE  Voided(a)
  BY <1>1, <1>3, CloseEffect, SyncEffect DEF PaidResidueIsVoided
<1>4. ASSUME NEW c \in Claim, ConfirmClaim(c)
      PROVE  Voided(a)
  BY <1>1, <1>4, ConfirmEffect, SyncEffect DEF PaidResidueIsVoided
<1>5. ASSUME NEW c \in Claim, VoidClaim(c)
      PROVE  Voided(a)
  <2>1. settlementStatus[SettlementOf[a]] = "paid"
    BY <1>1, <1>5, VoidEffect, SyncEffect
  <2>2. CASE allocationStatus[a] = "pending"
    BY <1>5, <2>1, <2>2, VoidEffect DEF PaidResidueIsVoided
  <2>3. CASE allocationStatus[a] # "pending"
    <3>1. AllocationOf[c] = a /\ allocationStatus[a] = "claimed"
                              /\ noOtherConfirmed(claimStatus, c)
      BY <1>5, <2>3, VoidEffect
    <3>2. claimStatus[c] = "confirmed"
      BY <3>1 DEF noOtherConfirmed, AllocationSummarisesClaims
    <3>3. \A d \in Claim \ {c} : AllocationOf[d] = a => claimStatus[d] \in {"absent", "voided"}
      BY <3>1, <3>2 DEF OneActiveClaim, Absent, ClaimStatus
    <3> QED BY <1>5, <3>1, <3>3, VoidEffect
  <2> QED BY <2>2, <2>3
<1> QED BY <1>2, <1>3, <1>4, <1>5, ShareEffect

\* What the event sync establishes, whatever the event was before.
LEMMA SyncedEvent ==
  ASSUME NEW status, NEW ss, NEW e
  PROVE  LET active == activeSettlements(ss, e)
             result == SyncedEventStatus(status, ss, e)
         IN  /\ result = "open" => status = "open"
             /\ result = "partially_settled" => \E s \in active : ss[s] # "paid"
             /\ result = "settled" /\ status # "settled" =>
                  active # {} /\ \A s \in active : ss[s] = "paid"
             /\ status \in {"settled", "cancelled"} => result = status
BY DEF SyncedEventStatus

\* The part of EventReflectsSettlements that is about event e.
Reflects(es, ss, e) ==
  /\ es[e] = "open" => activeSettlements(ss, e) = {}
  /\ es[e] = "partially_settled" => \E s \in activeSettlements(ss, e) : ss[s] # "paid"
  /\ es[e] = "settled" => /\ activeSettlements(ss, e) # {}
                          /\ \A s \in activeSettlements(ss, e) : ss[s] = "paid"

\* An event depends only on its own status and its own settlements.
LEMMA ReflectsFrame ==
  ASSUME NEW es, NEW ss, NEW fs, NEW ts, NEW e, Reflects(es, ss, e), fs[e] = es[e],
         \A s \in Settlement : EventOf[s] = e =>
           /\ ts[s] \in {"absent", "cancelled"} <=> ss[s] \in {"absent", "cancelled"}
           /\ ts[s] = "paid" <=> ss[s] = "paid"
  PROVE  Reflects(fs, ts, e)
<1>1. activeSettlements(ts, e) = activeSettlements(ss, e)
  BY DEF activeSettlements, listByEvent
<1>2. \A s \in activeSettlements(ss, e) : ts[s] = "paid" <=> ss[s] = "paid"
  BY DEF activeSettlements, listByEvent
<1> QED BY <1>1, <1>2 DEF Reflects

\* A request that changes only s, a settlement of e, and ends with the sync of
\* e keeps the invariant, unless e was open or settled before the sync.
LEMMA SyncReflects ==
  ASSUME TypeOK, EventReflectsSettlements, NEW s \in Settlement,
         NEW es \in [Event -> Absent(EventStatus)],
         \A x \in Event : x # EventOf[s] => es[x] = eventStatus[x],
         EventOf[s] \in Event /\ es[EventOf[s]] \in {"open", "settled"} =>
           Reflects(es, settlementStatus', EventOf[s]),
         \A x \in Settlement : x # s => settlementStatus'[x] = settlementStatus[x],
         eventStatus' = syncStatusFromSettlements(es, settlementStatus', EventOf[s])
  PROVE  EventReflectsSettlements'
<1>1. ASSUME NEW e \in Event, e # EventOf[s]
      PROVE  Reflects(eventStatus', settlementStatus', e)
  <2>1. eventStatus'[e] = eventStatus[e]
    BY <1>1 DEF syncStatusFromSettlements
  <2>2. Reflects(eventStatus, settlementStatus, e)
    BY DEF EventReflectsSettlements, ActiveSettlement, Reflects
  <2>3. \A x \in Settlement : EventOf[x] = e => settlementStatus'[x] = settlementStatus[x]
    BY <1>1
  <2> QED BY <2>1, <2>2, <2>3, ReflectsFrame
<1>2. ASSUME NEW e \in Event, e = EventOf[s]
      PROVE  Reflects(eventStatus', settlementStatus', e)
  <2>1. eventStatus'[e] = SyncedEventStatus(es[e], settlementStatus', e)
    BY <1>2 DEF syncStatusFromSettlements
  <2> QED BY <1>2, <2>1, SyncedEvent DEF Reflects
<1> QED BY <1>1, <1>2 DEF EventReflectsSettlements, ActiveSettlement, Reflects

\* Each change of a settlement that an event status depends on is followed by a
\* sync of that event.
LEMMA EventStep ==
  ASSUME IInv, [Next]_vars
  PROVE  EventReflectsSettlements'
<1> USE ForeignKeys
<1>a. \A e \in Event : Reflects(eventStatus, settlementStatus, e)
  BY DEF IInv, Inv, EventReflectsSettlements, ActiveSettlement, Reflects
<1>b. SUFFICES \A e \in Event : Reflects(eventStatus', settlementStatus', e)
  BY DEF EventReflectsSettlements, ActiveSettlement, Reflects
<1>c. ASSUME Progress
      PROVE  \A e \in Event : Reflects(eventStatus', settlementStatus', e)
  <2>1. \A s \in Settlement :
          /\ settlementStatus'[s] \in {"absent", "cancelled"}
               <=> settlementStatus[s] \in {"absent", "cancelled"}
          /\ settlementStatus'[s] = "paid" <=> settlementStatus[s] = "paid"
    BY <1>c DEF Progress
  <2> QED BY <1>a, <1>c, <2>1, ReflectsFrame DEF Progress
<1>2. CASE EventNext /\ UNCHANGED settlementStatus
  <2> SUFFICES ASSUME NEW e \in Event, eventStatus'[e] # eventStatus[e],
                      eventStatus'[e] \in {"open", "partially_settled", "settled"}
               PROVE  Reflects(eventStatus', settlementStatus', e)
    BY <1>2, <1>a DEF Reflects
  <2>1. \/ eventStatus[e] = "absent" /\ eventStatus'[e] = "open"
        \/ eventStatus'[e] = SyncedEventStatus(eventStatus[e], settlementStatus, e)
    BY <1>2
       DEF EventNext, CreateEvent, UpdateEvent, UpdateEventStatus, MarkReadyForSettlement,
           CancelEvent, SettleRefused, syncStatusFromSettlements, IInv, TypeOK
  <2>2. CASE eventStatus[e] = "absent" /\ eventStatus'[e] = "open"
    BY <1>2, <2>2
       DEF IInv, Inv, ParentsExist, exists, activeSettlements, listByEvent, Reflects
  <2>3. CASE eventStatus'[e] = SyncedEventStatus(eventStatus[e], settlementStatus, e)
    BY <1>2, <1>a, <2>3, SyncedEvent DEF Reflects
  <2> QED BY <2>1, <2>2, <2>3
<1>3. ASSUME NEW s \in Settlement, NEW R \in SUBSET Character, CreateDraftSettlement(s, R)
      PROVE  EventReflectsSettlements'
  <2> DEFINE synced == syncStatusFromSettlements(eventStatus, settlementStatus, EventOf[s])
  <2>1. synced \in [Event -> Absent(EventStatus)]
    BY SyncEventsType DEF IInv, TypeOK
  <2>2. \A x \in Event : x # EventOf[s] => synced[x] = eventStatus[x]
    BY DEF syncStatusFromSettlements
  <2>3. EventOf[s] \in Event => synced[EventOf[s]] \notin {"open", "settled"}
    BY <1>3 DEF CreateDraftSettlement, acceptsDraft
  <2>4. \A x \in Settlement : x # s => settlementStatus'[x] = settlementStatus[x]
    BY <1>3 DEF CreateDraftSettlement, setSettlement, IInv, TypeOK
  <2>5. eventStatus' = syncStatusFromSettlements(synced, settlementStatus', EventOf[s])
    BY <1>3 DEF CreateDraftSettlement
  <2> HIDE DEF synced
  <2> QED BY <2>1, <2>2, <2>3, <2>4, <2>5, SyncReflects DEF IInv, Inv
<1>4. ASSUME NEW s \in Settlement, NEW A \in SUBSET Allocation,
             SettleEventWithAllocations(s, A)
      PROVE  EventReflectsSettlements'
  <2> DEFINE synced == syncStatusFromSettlements(eventStatus, settlementStatus, EventOf[s])
  <2> DEFINE ready == [synced EXCEPT ![EventOf[s]] = "ready_for_settlement"]
  <2>1. synced \in [Event -> Absent(EventStatus)]
    BY SyncEventsType DEF IInv, TypeOK
  <2>2. ready \in [Event -> Absent(EventStatus)] /\ EventOf[s] \in Event
    BY <1>4, <2>1 DEF SettleEventWithAllocations, acceptsSettle, Absent, EventStatus
  <2>3. \A x \in Event : x # EventOf[s] => ready[x] = eventStatus[x]
    BY DEF syncStatusFromSettlements
  <2>4. ready[EventOf[s]] = "ready_for_settlement"
    BY <2>1, <2>2
  <2>5. \A x \in Settlement : x # s => settlementStatus'[x] = settlementStatus[x]
    BY <1>4 DEF SettleEventWithAllocations, setSettlement, IInv, TypeOK
  <2>6. eventStatus' = syncStatusFromSettlements(ready, settlementStatus', EventOf[s])
    BY <1>4 DEF SettleEventWithAllocations
  <2> HIDE DEF ready
  <2> QED BY <2>2, <2>3, <2>4, <2>5, <2>6, SyncReflects DEF IInv, Inv
<1>5. ASSUME NEW s \in Settlement,
             MarkPaid(s) \/ CancelSettlement(s) \/ syncStatusFromAllocations(s)
      PROVE  EventReflectsSettlements'
  <2>1. \A x \in Settlement : x # s => settlementStatus'[x] = settlementStatus[x]
    BY <1>5 DEF MarkPaid, CancelSettlement, syncStatusFromAllocations, setSettlement, IInv,
                TypeOK
  <2>2. CASE settlementStatus' = settlementStatus \/ Progress
    <3>1. \A e \in Event : Reflects(eventStatus, settlementStatus', e)
      BY <2>2, <1>a, <1>c DEF Progress
    <3>2. CASE eventStatus' = eventStatus
      BY <3>1, <3>2 DEF EventReflectsSettlements, ActiveSettlement, Reflects
    <3>3. CASE eventStatus' = syncStatusFromSettlements(eventStatus, settlementStatus', EventOf[s])
      BY <2>1, <3>1, <3>3, SyncReflects
         DEF IInv, Inv, TypeOK, EventReflectsSettlements, ActiveSettlement, Reflects
    <3> QED
      BY <1>5, <3>2, <3>3 DEF MarkPaid, CancelSettlement, syncStatusFromAllocations
  <2>3. CASE settlementStatus' # settlementStatus /\ ~Progress
    <3>1. s \in activeSettlements(settlementStatus, EventOf[s]) /\ settlementStatus[s] # "paid"
      BY <1>5, <2>3, SyncEffect
         DEF MarkPaid, CancelSettlement, setSettlement, syncStatusFromAllocations,
             SyncedSettlementStatus, reachesMarkPaid, Progress,
             assertTransition, settlementStateMachine, activeSettlements, listByEvent,
             IInv, TypeOK
    <3>2. EventOf[s] \in Event => eventStatus[EventOf[s]] \notin {"open", "settled"}
      BY <3>1, <1>a DEF Reflects
    <3>3. eventStatus' = syncStatusFromSettlements(eventStatus, settlementStatus', EventOf[s])
      BY <1>5, <2>3
         DEF MarkPaid, CancelSettlement, syncStatusFromAllocations,
             SyncedSettlementStatus, Progress, reachesMarkPaid, allTerminal,
             listBySettlement, IInv, TypeOK, exists
    <3> QED BY <2>1, <3>2, <3>3, SyncReflects DEF IInv, Inv, TypeOK
  <2> QED BY <2>2, <2>3
<1> QED
  BY <1>c, <1>2, <1>3, <1>4, <1>5, SettlementEffect
     DEF EventReflectsSettlements, ActiveSettlement, Reflects

\* No request takes a row out of a final status.
Final ==
  /\ \A e \in Event : eventStatus[e] \in {"settled", "cancelled"} =>
       eventStatus'[e] = eventStatus[e]
  /\ \A s \in Settlement : settlementStatus[s] \in {"paid", "cancelled"} =>
       settlementStatus'[s] = settlementStatus[s]
  /\ \A a \in Allocation : allocationStatus[a] \in {"waived", "cancelled"} =>
       allocationStatus'[a] = allocationStatus[a]
  /\ \A c \in Claim : claimStatus[c] = "voided" => claimStatus'[c] = "voided"

LEMMA FinalStep ==
  ASSUME IInv, [Next]_vars
  PROVE  Final
<1> USE ForeignKeys DEF IInv, TypeOK
<1>1. ASSUME NEW e \in Event, eventStatus[e] \in {"settled", "cancelled"}
      PROVE  eventStatus'[e] = eventStatus[e]
  <2>1. ASSUME NEW es \in [Event -> Absent(EventStatus)], NEW ss, NEW x, es[e] = eventStatus[e]
        PROVE  syncStatusFromSettlements(es, ss, x)[e] = eventStatus[e]
    BY <1>1, <2>1, SyncedEvent DEF syncStatusFromSettlements
  <2>2. CASE EventNext
    BY <1>1, <2>1, <2>2
       DEF EventNext, CreateEvent, UpdateEvent, UpdateEventStatus, MarkReadyForSettlement,
           CancelEvent, SettleRefused, assertTransition, eventStateMachine
  <2>3. ASSUME NEW s \in Settlement, NEW R \in SUBSET Character, CreateDraftSettlement(s, R)
        PROVE  eventStatus'[e] = eventStatus[e]
    BY <2>1, <2>3, SyncEventsType DEF CreateDraftSettlement
  <2>4. ASSUME NEW s \in Settlement, NEW A \in SUBSET Allocation,
               SettleEventWithAllocations(s, A)
        PROVE  eventStatus'[e] = eventStatus[e]
    <3> DEFINE synced == syncStatusFromSettlements(eventStatus, settlementStatus, EventOf[s])
    <3> DEFINE ready == [synced EXCEPT ![EventOf[s]] = "ready_for_settlement"]
    <3>1. synced \in [Event -> Absent(EventStatus)] /\ synced[e] = eventStatus[e]
      BY <2>1, SyncEventsType
    <3>2. e # EventOf[s]
      BY <1>1, <2>4, <3>1 DEF SettleEventWithAllocations, acceptsSettle
    <3>3. ready \in [Event -> Absent(EventStatus)] /\ ready[e] = eventStatus[e]
      BY <3>1, <3>2 DEF Absent, EventStatus
    <3>4. eventStatus' = syncStatusFromSettlements(ready, settlementStatus', EventOf[s])
      BY <2>4 DEF SettleEventWithAllocations
    <3> HIDE DEF ready
    <3> QED BY <2>1, <3>3, <3>4
  <2>5. ASSUME NEW s \in Settlement,
               MarkPaid(s) \/ CancelSettlement(s) \/ syncStatusFromAllocations(s)
        PROVE  eventStatus'[e] = eventStatus[e]
    BY <2>1, <2>5 DEF MarkPaid, CancelSettlement, syncStatusFromAllocations
  <2> QED BY <2>2, <2>3, <2>4, <2>5, SettlementEffect DEF Progress
<1>2. ASSUME NEW s \in Settlement, settlementStatus[s] \in {"paid", "cancelled"}
      PROVE  settlementStatus'[s] = settlementStatus[s]
  <2>1. ASSUME NEW x \in Settlement, MarkPaid(x) \/ CancelSettlement(x)
        PROVE  settlementStatus'[s] = settlementStatus[s]
    BY <1>2, <2>1
       DEF MarkPaid, CancelSettlement, assertTransition, settlementStateMachine, setSettlement
  <2> QED
    BY <1>2, <2>1, SettlementEffect, SyncEffect
       DEF Progress, CreateDraftSettlement, acceptsDraft, SettleEventWithAllocations, acceptsSettle,
           setSettlement
<1>3. ASSUME NEW a \in Allocation, allocationStatus[a] \in {"waived", "cancelled"}
      PROVE  allocationStatus'[a] = allocationStatus[a]
  BY <1>3, ShareEffect, CloseEffect, ConfirmEffect, VoidEffect DEF Inserts
<1>4. ASSUME NEW c \in Claim, claimStatus[c] = "voided"
      PROVE  claimStatus'[c] = "voided"
  BY <1>4, ShareEffect, CloseEffect, ConfirmEffect, VoidEffect DEF Inserts, newClaims
<1> QED BY <1>1, <1>2, <1>3, <1>4 DEF Final

LEMMA InvStep == ASSUME IInv, [Next]_vars PROVE IInv'
BY TypeStep, ParentsStep, OneActiveClaimStep, SummaryStep, PayoutStep, ResidueStep, EventStep
   DEF IInv, Inv

-------------------------------------------------------------------------------
(* The theorems.                                                            *)

\* The invariants hold together: each step lemma but the first two uses
\* several of them.
THEOREM LedgerInvariant == Spec => []IInv
<1>1. Init => IInv
  BY InitInv
<1>2. IInv /\ [Next]_vars => IInv'
  BY InvStep
<1> QED BY <1>1, <1>2, PTL DEF Spec

\* No share is ever claimed twice at a time.
THEOREM ClaimsAreExclusive == Spec => []OneActiveClaim
<1>1. IInv => OneActiveClaim
  BY DEF IInv, Inv
<1> QED BY <1>1, LedgerInvariant, PTL

\* A claimed share has a confirmed claim, and a confirmed claim no pending share.
THEOREM SharesFollowClaims == Spec => []AllocationSummarisesClaims
<1>1. IInv => AllocationSummarisesClaims
  BY DEF IInv, Inv
<1> QED BY <1>1, LedgerInvariant, PTL

\* The only shares pending in a paid settlement are those whose claim was voided.
THEOREM PaidResidue == Spec => []PaidResidueIsVoided
<1>1. IInv => PaidResidueIsVoided
  BY DEF IInv, Inv
<1> QED BY <1>1, LedgerInvariant, PTL

\* A payout runs only over existing shares.
THEOREM PayoutOverShares == Spec => []PayoutHasAllocations
<1>1. IInv => PayoutHasAllocations
  BY DEF IInv, Inv
<1> QED BY <1>1, LedgerInvariant, PTL

\* The status of an event is the one its settlements call for.
THEOREM EventsFollowSettlements == Spec => []EventReflectsSettlements
<1>1. IInv => EventReflectsSettlements
  BY DEF IInv, Inv
<1> QED BY <1>1, LedgerInvariant, PTL

\* No request, sync or compensation takes a row out of a final status.
THEOREM FinalOutcomes == Spec => OutcomesAreFinal
<1>1. IInv /\ [Next]_vars => [Final]_vars
  BY FinalStep
<1>2. Spec => [][Final]_vars
  BY <1>1, LedgerInvariant, PTL DEF Spec
<1> QED BY <1>2 DEF OutcomesAreFinal, Final

-------------------------------------------------------------------------------
(* The ledger implements Payout.                                            *)

\* The holder of an allocation is its live claim.
LEMMA HolderIsActive ==
  ASSUME OneActiveClaim, TypeOK, NEW c \in Claim,
         claimStatus[c] \in {"recorded", "confirmed"}
  PROVE  holderOf(AllocationOf[c]) = c
<1>1. activeClaims(claimStatus, AllocationOf[c]) = {c}
  BY DEF activeClaims, TypeOK, Absent, ClaimStatus, OneActiveClaim
<1> QED BY <1>1 DEF holderOf

LEMMA HolderIsActiveAfter ==
  ASSUME OneActiveClaim', TypeOK', NEW c \in Claim,
         claimStatus'[c] \in {"recorded", "confirmed"}
  PROVE  holderOf(AllocationOf[c])' = c
<1>1. activeClaims(claimStatus', AllocationOf[c]) = {c}
  BY DEF activeClaims, TypeOK, Absent, ClaimStatus, OneActiveClaim
<1> QED BY <1>1 DEF holderOf

\* An allocation keeps its holder unless one of its claims becomes live or void.
LEMMA HolderFrame ==
  ASSUME NEW a \in Allocation,
         \A c \in Claim : AllocationOf[c] = a =>
           (claimStatus'[c] \in {"absent", "voided"} <=> claimStatus[c] \in {"absent", "voided"})
  PROVE  holderOf(a)' = holderOf(a)
<1>1. activeClaims(claimStatus', a) = activeClaims(claimStatus, a)
  BY DEF activeClaims
<1> QED BY <1>1 DEF holderOf

\* A step that inserts the claims C reserves their allocations.
LEMMA InsertReserves ==
  ASSUME IInv, IInv', NEW A \in SUBSET Allocation, NEW C \in SUBSET Claim, Inserts(A, C)
  PROVE  Abstract!Reserve(C)
<1> USE ForeignKeys DEF IInv, Inv
<1>1. ASSUME NEW c \in C
      PROVE  holderOf(AllocationOf[c]) = NoClaim /\ holderOf(AllocationOf[c])' = c
  <2>1. claimStatus'[c] = "recorded"
    BY <1>1 DEF Inserts
  <2> QED BY <1>1, <2>1, HolderIsActiveAfter DEF Inserts, holderOf
<1>2. ASSUME NEW a \in Allocation
      PROVE  holderOf(a)' = IF \E c \in C : AllocationOf[c] = a
                            THEN CHOOSE c \in C : AllocationOf[c] = a ELSE holderOf(a)
  <2>1. CASE \E c \in C : AllocationOf[c] = a
    <3>1. PICK c \in C : AllocationOf[c] = a
      BY <2>1
    <3>2. (CHOOSE d \in C : AllocationOf[d] = a) = c
      BY <3>1 DEF Inserts, newClaims
    <3> QED BY <1>1, <2>1, <3>1, <3>2
  <2>2. CASE ~\E c \in C : AllocationOf[c] = a
    <3>1. \A c \in Claim : AllocationOf[c] = a => claimStatus'[c] = claimStatus[c]
      BY <2>2 DEF Inserts
    <3> QED BY <2>2, <3>1, HolderFrame
  <2> QED BY <2>1, <2>2
<1>3. \A a \in Allocation : (allocationStatus'[a] = "claimed") = (allocationStatus[a] = "claimed")
  BY DEF Inserts
<1>4. \A c \in C : allocationStatus[AllocationOf[c]] # "claimed"
  BY DEF Inserts
<1>5. {c \in Claim : claimStatus'[c] = "voided"} = {c \in Claim : claimStatus[c] = "voided"}
  BY DEF Inserts, newClaims
<1>6. C \cap {c \in Claim : claimStatus[c] = "voided"} = {}
  BY DEF Inserts, newClaims
<1>7. \A c, d \in C : AllocationOf[c] = AllocationOf[d] => c = d
  BY DEF Inserts, newClaims
<1>8. [a \in Allocation |-> allocationStatus'[a] = "claimed"] =
        [a \in Allocation |-> allocationStatus[a] = "claimed"]
  BY <1>3, Zenon
<1> DEFINE hold == [a \in Allocation |-> holderOf(a)]
<1>9. hold' = [a \in Allocation |->
        IF \E c \in C : AllocationOf[c] = a
        THEN CHOOSE c \in C : AllocationOf[c] = a ELSE hold[a]]
  BY <1>2
<1>10. \A c \in C : /\ hold[AllocationOf[c]] = NoClaim
                    /\ ~[a \in Allocation |-> allocationStatus[a] = "claimed"][AllocationOf[c]]
  BY <1>1, <1>4
<1> QED
  BY <1>5, <1>6, <1>7, <1>8, <1>9, <1>10, Zenon DEF Abstract!Reserve

\* A step that neither touches a claim nor makes or unmakes "claimed".
LEMMA OtherStepsStutter ==
  ASSUME UNCHANGED claimStatus,
         \A a \in Allocation :
           allocationStatus'[a] = "claimed" <=> allocationStatus[a] = "claimed"
  PROVE  UNCHANGED Abstract!vars
BY DEF Abstract!vars, holderOf, activeClaims

LEMMA ConfirmReceives ==
  ASSUME IInv, IInv', NEW c \in Claim, ConfirmClaim(c)
  PROVE  Abstract!Receive(c) \/ UNCHANGED Abstract!vars
<1> USE ForeignKeys DEF IInv, Inv
<1> DEFINE a == AllocationOf[c]
<1>1. holderOf(a) = c
  BY ConfirmEffect, HolderIsActive
<1>2. ASSUME NEW b \in Allocation
      PROVE  holderOf(b)' = holderOf(b)
  BY ConfirmEffect, HolderFrame DEF TypeOK
<1>3. {d \in Claim : claimStatus'[d] = "voided"} = {d \in Claim : claimStatus[d] = "voided"}
  BY ConfirmEffect DEF TypeOK
<1>4. CASE allocationStatus[a] = "pending"
  <2>1. /\ allocationStatus'[a] = "claimed"
        /\ \A b \in Allocation : b # a => allocationStatus'[b] = allocationStatus[b]
    BY <1>4, ConfirmEffect DEF TypeOK
  <2>2. [b \in Allocation |-> allocationStatus'[b] = "claimed"] =
          [[b \in Allocation |-> allocationStatus[b] = "claimed"] EXCEPT ![a] = TRUE]
    BY <2>1, Zenon
  <2>3. [b \in Allocation |-> holderOf(b)'] = [b \in Allocation |-> holderOf(b)]
    BY <1>2
  <2>4. [b \in Allocation |-> holderOf(b)][a] = c
    BY <1>1
  <2> QED BY <1>3, <2>2, <2>3, <2>4, Zenon DEF Abstract!Receive
<1>5. CASE allocationStatus[a] # "pending"
  <2>1. allocationStatus' = allocationStatus
    BY <1>5, ConfirmEffect DEF TypeOK
  <2> QED BY <1>2, <1>3, <2>1 DEF Abstract!vars
<1> QED BY <1>4, <1>5

LEMMA VoidRevokes ==
  ASSUME IInv, IInv', NEW c \in Claim, VoidClaim(c)
  PROVE  Abstract!Revoke(c) \/ UNCHANGED Abstract!vars
<1> USE ForeignKeys DEF IInv, Inv
<1> DEFINE a == AllocationOf[c]
<1>1. CASE claimStatus[c] = "voided"
  <2>1. claimStatus' = claimStatus /\ allocationStatus' = allocationStatus
    BY <1>1, VoidEffect DEF noOtherConfirmed, TypeOK, AllocationSummarisesClaims
  <2> QED BY <2>1, OtherStepsStutter
<1>2. CASE claimStatus[c] # "voided"
  <2>1. claimStatus[c] \in {"recorded", "confirmed"}
    BY <1>2, VoidEffect DEF TypeOK, Absent, ClaimStatus
  <2>2. \A d \in Claim \ {c} : AllocationOf[d] = a => claimStatus[d] \in {"absent", "voided"}
    BY <2>1 DEF TypeOK, OneActiveClaim, Absent, ClaimStatus
  <2>3. holderOf(a) = c
    BY <2>1, HolderIsActive
  <2>4. holderOf(a)' = NoClaim
    <3>1. activeClaims(claimStatus', a) = {}
      BY <2>2, VoidEffect DEF activeClaims, TypeOK
    <3> QED BY <3>1 DEF holderOf
  <2>5. ASSUME NEW b \in Allocation, b # a
        PROVE  holderOf(b)' = holderOf(b)
    BY <2>5, VoidEffect, HolderFrame DEF TypeOK
  <2>6. allocationStatus'[a] # "claimed"
    BY <2>2, VoidEffect DEF noOtherConfirmed, TypeOK
  <2>7. \A b \in Allocation : (allocationStatus'[b] = "claimed") =
          (IF b = a THEN FALSE ELSE allocationStatus[b] = "claimed")
    BY <2>6, VoidEffect DEF TypeOK
  <2>8. {d \in Claim : claimStatus'[d] = "voided"} =
          {d \in Claim : claimStatus[d] = "voided"} \cup {c}
    BY VoidEffect DEF TypeOK
  <2> QED BY <2>3, <2>4, <2>5, <2>7, <2>8 DEF Abstract!Revoke
<1> QED BY <1>1, <1>2

LEMMA PayoutInit == ASSUME Init PROVE Abstract!Init
<1>1. \A a \in Allocation : holderOf(a) = NoClaim
  BY DEF Init, holderOf, activeClaims
<1>2. {c \in Claim : claimStatus[c] = "voided"} = {}
  BY DEF Init
<1>3. \A a \in Allocation : (allocationStatus[a] = "claimed") = FALSE
  BY DEF Init
<1> QED BY <1>1, <1>2, <1>3 DEF Abstract!Init

LEMMA PayoutNext ==
  ASSUME IInv, IInv', [Next]_vars
  PROVE  [Abstract!Next]_(Abstract!vars)
<1>1. ASSUME NEW a \in Allocation, UpdateAllocationStatus(a)
      PROVE  UNCHANGED Abstract!vars
  BY <1>1, CloseEffect, OtherStepsStutter DEF IInv, TypeOK
<1> QED
  BY <1>1, ShareEffect, InsertReserves, ConfirmReceives, VoidRevokes DEF Abstract!Next

\* Through all its requests the ledger behaves as Payout: one holder at a time,
\* received only by its holder, revoked for good.
THEOREM LedgerImplementsPayout == Spec => ImplementsPayout
<1>1. Init => Abstract!Init
  BY PayoutInit
<1>2. IInv /\ IInv' /\ [Next]_vars => [Abstract!Next]_(Abstract!vars)
  BY PayoutNext
<1> QED
  BY <1>1, <1>2, LedgerInvariant, PTL DEF Spec, ImplementsPayout, Abstract!Spec
===============================================================================
