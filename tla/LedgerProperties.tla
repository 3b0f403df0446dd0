--------------------------- MODULE LedgerProperties ---------------------------
(***************************************************************************)
(* What the ledger's requests maintain between them, and what they do not. *)
(***************************************************************************)
EXTENDS Ledger

CONSTANT NoClaim

ASSUME NoClaimIsNoClaim == NoClaim \notin Claim

exists(f, x) == f[x] # "absent"

ActiveSettlement(e) == activeSettlements(settlementStatus, e)

\* A row is inserted only under an existing parent row, and rows stay: the
\* foreign keys of migration 0008.
ParentsExist ==
  /\ \A c \in Claim : exists(claimStatus, c) => exists(allocationStatus, AllocationOf[c])
  /\ \A a \in Allocation :
       exists(allocationStatus, a) => exists(settlementStatus, SettlementOf[a])
  /\ \A s \in Settlement :
       exists(settlementStatus, s) /\ EventOf[s] # NoEvent => exists(eventStatus, EventOf[s])

\* No share is claimed twice: of the claims of an allocation at most one is
\* not voided.  recordClaim, the batch and the disbursement each check it with
\* a query of their own.
OneActiveClaim ==
  \A c, d \in Claim :
    /\ AllocationOf[c] = AllocationOf[d]
    /\ claimStatus[c] \in {"recorded", "confirmed"}
    /\ claimStatus[d] \in {"recorded", "confirmed"}
    => c = d

\* The allocation is the summary of its claims: "claimed" rests on a confirmed
\* claim, and a confirmed claim never leaves its allocation pending.  The two
\* rows are written by different services, in one direction by confirmClaim and
\* back by voidClaim.
AllocationSummarisesClaims ==
  /\ \A a \in Allocation : allocationStatus[a] = "claimed" =>
       \E c \in Claim : AllocationOf[c] = a /\ claimStatus[c] = "confirmed"
  /\ \A c \in Claim : claimStatus[c] = "confirmed" =>
       allocationStatus[AllocationOf[c]] # "pending"

\* A payout that has started has something to pay, on every path into it: the
\* status route, a claim, a batch, a disbursement, the allocation sync.
PayoutHasAllocations ==
  \A s \in Settlement : settlementStatus[s] \in {"paying", "paid"} =>
    \E a \in Allocation : SettlementOf[a] = s /\ exists(allocationStatus, a)

\* A share that is pending in a paid settlement was paid once and taken back:
\* it has a voided claim and no live one.
PaidResidueIsVoided ==
  \A a \in Allocation :
    settlementStatus[SettlementOf[a]] = "paid" /\ allocationStatus[a] = "pending" =>
      /\ \E c \in Claim : AllocationOf[c] = a /\ claimStatus[c] = "voided"
      /\ \A c \in Claim : AllocationOf[c] = a => claimStatus[c] \in {"absent", "voided"}

\* The event status agrees with the settlements made from the event: none is
\* active while it is open, one is unpaid while it is partially settled, and
\* all are paid, at least one of them, once it is settled.
EventReflectsSettlements ==
  \A e \in Event :
    /\ eventStatus[e] = "open" => ActiveSettlement(e) = {}
    /\ eventStatus[e] = "partially_settled" =>
         \E s \in ActiveSettlement(e) : settlementStatus[s] # "paid"
    /\ eventStatus[e] = "settled" =>
         /\ ActiveSettlement(e) # {}
         /\ \A s \in ActiveSettlement(e) : settlementStatus[s] = "paid"

Inv ==
  /\ ParentsExist
  /\ OneActiveClaim
  /\ AllocationSummarisesClaims
  /\ PayoutHasAllocations
  /\ PaidResidueIsVoided
  /\ EventReflectsSettlements

\* Outcomes are final: no step takes an event out of settled or cancelled, a
\* settlement out of paid or cancelled, an allocation out of waived or
\* cancelled, or a claim out of voided, although the syncs and voidClaim write
\* those columns without asking the status machine.
OutcomesAreFinal ==
  [][/\ \A e \in Event : eventStatus[e] \in {"settled", "cancelled"} =>
          eventStatus'[e] = eventStatus[e]
     /\ \A s \in Settlement : settlementStatus[s] \in {"paid", "cancelled"} =>
          settlementStatus'[s] = settlementStatus[s]
     /\ \A a \in Allocation : allocationStatus[a] \in {"waived", "cancelled"} =>
          allocationStatus'[a] = allocationStatus[a]
     /\ \A c \in Claim : claimStatus[c] = "voided" => claimStatus'[c] = "voided"]_vars

-------------------------------------------------------------------------------
(* What the documents and tests say of the ledger and it does not keep.     *)

\* docs/layer/settlement-state-machine.md, entering paid: "the settlement no
\* longer has pending payout work".  A claim voided after that gives it some,
\* and recordClaim refuses the claim that would do it.
PaidHasNoPendingShare ==
  \A a \in Allocation :
    settlementStatus[SettlementOf[a]] = "paid" => allocationStatus[a] # "pending"

\* docs/layer/settlement-state-machine.md, entering cancelled: "settlement should
\* no longer produce or continue live payout handling".  A claim recorded while
\* the settlement was a draft can still be confirmed.
CancelledIsNotPaidOut ==
  \A a \in Allocation :
    settlementStatus[SettlementOf[a]] = "cancelled" => allocationStatus[a] # "claimed"

-------------------------------------------------------------------------------
(* The ledger implements Payout.                                            *)

holderOf(a) ==
  IF activeClaims(claimStatus, a) = {} THEN NoClaim
  ELSE CHOOSE c \in Claim : c \in activeClaims(claimStatus, a)

Abstract == INSTANCE Payout WITH
  holder   <- [a \in Allocation |-> holderOf(a)],
  received <- [a \in Allocation |-> allocationStatus[a] = "claimed"],
  revoked  <- {c \in Claim : claimStatus[c] = "voided"}

\* Through all the statuses the ledger keeps, a share is held by one claim at
\* a time, and becomes and ceases to be "claimed" with the claim that holds it.
ImplementsPayout == Abstract!Spec
===============================================================================
