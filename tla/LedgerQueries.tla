----------------------------- MODULE LedgerQueries -----------------------------
(***************************************************************************)
(* What the read side shows of the ledger: the claimable recipients, the   *)
(* claim and disbursement workspaces, the dashboards and the readiness of  *)
(* an event.  Four services ask the same tables with queries of their own, *)
(* and the write side asks again when the user acts on the answer.         *)
(*                                                                         *)
(* Text filters, paging, sorting, units and labels are left out; a row is  *)
(* the id it is about.  The amounts, the payer and the holder of a         *)
(* character are constants: no route changes an amount after its INSERT.   *)
(***************************************************************************)
EXTENDS LedgerProperties, SettlementSplit

CONSTANTS AmountOf,   \* settlement_allocations.amount
          ClaimedOf,  \* settlement_claims.amount, free in POST /claims
          PayerOf,    \* settlements.payer_ref of a character payer, or NoCharacter
          MemberOf    \* characters.claimed_by_user_id, or NoMember

CONSTANT NoMember

ASSUME Amounts ==
  /\ AmountOf \in [Allocation -> Nat]
  /\ ClaimedOf \in [Claim -> Nat]
  /\ PayerOf \in [Settlement -> Character \cup {NoCharacter}]

unpaid(s) == settlementStatus[s] \in {"draft", "calculated", "paying"}

statusOfSettlement(a) == settlementStatus[SettlementOf[a]]

total(A) == MapThenSumSet(LAMBDA a : AmountOf[a], A)

-------------------------------------------------------------------------------
(* Claimable recipients.                                                    *)

\* The rows of ClaimableRecipientsQueryService.
listClaimableRows ==
  {a \in Allocation : /\ allocationStatus[a] = "pending"
                      /\ unpaid(SettlementOf[a])
                      /\ CharacterOf[a] # NoCharacter
                      /\ activeClaims(claimStatus, a) = {}}

rowsOf(rows, p) == {a \in rows : CharacterOf[a] = p}

\* Another character of the same member has something to claim.
siblings(rows, p) ==
  {q \in Character \ {p} : /\ MemberOf[p] # NoMember
                           /\ MemberOf[q] = MemberOf[p]
                           /\ rowsOf(rows, q) # {}}

buildSummary(rows, p) ==
  [pendingAllocationCount      |-> Cardinality(rowsOf(rows, p)),
   pendingClaimAmountTotal     |-> total(rowsOf(rows, p)),
   hasSiblingCharactersPending |-> siblings(rows, p) # {}]

\* Characters without a row are not listed.
ClaimableRecipients ==
  [p \in {q \in Character : rowsOf(listClaimableRows, q) # {}} |->
     buildSummary(listClaimableRows, p)]

\* The detail of any character of the organization, listed or not.
ClaimableRecipientDetail(p) ==
  [allocations       |-> rowsOf(listClaimableRows, p),
   recipient         |-> IF p \in DOMAIN ClaimableRecipients THEN ClaimableRecipients[p]
                         ELSE [pendingAllocationCount      |-> 0,
                               pendingClaimAmountTotal     |-> 0,
                               hasSiblingCharactersPending |-> FALSE],
   siblingCharacters |-> siblings(listClaimableRows, p)]

-------------------------------------------------------------------------------
(* The claim workspace.                                                     *)

\* Faulty variant: a claim in any state, voided too, takes the share off the
\* list.
listRecipientRowsNeverClaimed ==
  {a \in Allocation : /\ allocationStatus[a] = "pending"
                      /\ unpaid(SettlementOf[a])
                      /\ CharacterOf[a] # NoCharacter
                      /\ \A c \in Claim : AllocationOf[c] = a => claimStatus[c] = "absent"}

\* The rows of ClaimWorkspaceQueryService.
listRecipientRows ==
  {a \in Allocation : /\ allocationStatus[a] = "pending"
                      /\ unpaid(SettlementOf[a])
                      /\ activeClaims(claimStatus, a) = {}
                      /\ CharacterOf[a] # NoCharacter}

ClaimableRecipientSummaries ==
  [p \in {q \in Character : rowsOf(listRecipientRows, q) # {}} |->
     buildSummary(listRecipientRows, p)]

\* Here a character without a row has no siblings either.
ClaimableRecipientWorkspace(p) ==
  [allocations       |-> rowsOf(listRecipientRows, p),
   siblingCharacters |-> IF rowsOf(listRecipientRows, p) = {} THEN {}
                         ELSE siblings(listRecipientRows, p)]

\* Claimed shares stay listed: what a claim left of the amount may be paid.
listDisburseableRows(s) ==
  {a \in Allocation : /\ SettlementOf[a] = s
                      /\ unpaid(s)
                      /\ allocationStatus[a] \in {"pending", "claimed"}}

activeClaimAmount(a) ==
  MapThenSumSet(LAMBDA c : ClaimedOf[c], activeClaims(claimStatus, a))

claimableAmount(a) == Max({0, AmountOf[a] - activeClaimAmount(a)})

offeredForDisbursement(s) == {a \in listDisburseableRows(s) : claimableAmount(a) > 0}

\* The settlements that have something to disburse, with what they show.
DisburseableEventSummaries ==
  [s \in {x \in Settlement : offeredForDisbursement(x) # {}} |->
     [pendingRecipientCount |-> Cardinality(offeredForDisbursement(s)),
      totalAmount           |-> MapThenSumSet(claimableAmount, offeredForDisbursement(s))]]

SettlementDisbursementWorkspace(s) ==
  [recipients |->
     [a \in {x \in listDisburseableRows(s) : CharacterOf[x] # NoCharacter} |->
        [claimableAmount |-> claimableAmount(a),
         claimStatus |-> IF activeClaimAmount(a) = 0 THEN "pending"
                         ELSE IF claimableAmount(a) > 0 THEN "partial" ELSE "claimed"]],
   totalAmount |-> total(listDisburseableRows(s))]

-------------------------------------------------------------------------------
(* The dashboards.                                                          *)

hasActiveClaim(a) == activeClaims(claimStatus, a) # {}

disbursementInProgress(s) ==
  /\ unpaid(s)
  /\ \E a \in listBySettlement(allocationStatus, s) : hasActiveClaim(a)
  /\ \E a \in listBySettlement(allocationStatus, s) : ~hasActiveClaim(a)

disbursementNotStarted(s) ==
  /\ unpaid(s)
  /\ \A a \in listBySettlement(allocationStatus, s) : ~hasActiveClaim(a)

\* The statuses behind the group an event list is asked for.
mapEventStatusGroup(group) ==
  CASE group \in {"settleable", "unsettled"} -> {"open", "ready_for_settlement"}
    [] group = "settled"   -> {"partially_settled", "settled"}
    [] group = "cancelled" -> {"cancelled"}

EventsInGroup(group) == {e \in Event : eventStatus[e] \in mapEventStatusGroup(group)}

OrganizationSummary ==
  [settlementCount             |-> Cardinality({s \in Settlement :
                                     settlementStatus[s] \notin {"absent", "cancelled"}}),
   unsettledEventCount         |-> Cardinality(EventsInGroup("unsettled")),
   disbursementInProgressCount |-> Cardinality({s \in Settlement : disbursementInProgress(s)}),
   disbursementNotStartedCount |-> Cardinality({s \in Settlement : disbursementNotStarted(s)})]

\* The receivable and the payable half of listPendingCharacterRows; a share
\* without a character is still owed by its payer.
PendingReceivables(p) ==
  {a \in Allocation : /\ CharacterOf[a] = p
                      /\ allocationStatus[a] = "pending"
                      /\ unpaid(SettlementOf[a])
                      /\ ~hasActiveClaim(a)}

PendingPayables(p) ==
  {a \in Allocation : /\ PayerOf[SettlementOf[a]] = p
                      /\ unpaid(SettlementOf[a])
                      /\ allocationStatus[a] = "pending"
                      /\ ~hasActiveClaim(a)}

CharacterSummary(p) ==
  [receivableSettlementCount |-> Cardinality({SettlementOf[a] : a \in PendingReceivables(p)}),
   receivableAmountTotal     |-> total(PendingReceivables(p)),
   payableSettlementCount    |-> Cardinality({SettlementOf[a] : a \in PendingPayables(p)}),
   payableAmountTotal        |-> total(PendingPayables(p)),
   pendingClaimCount         |-> Cardinality(PendingReceivables(p))]

\* Faulty variant: voided claims are counted.
claimStatusShownVoidedToo(a) ==
  LET claims    == {c \in Claim : AllocationOf[c] = a /\ claimStatus[c] # "absent"}
      confirmed == {c \in claims : claimStatus[c] = "confirmed"}
  IN  IF claims = {} THEN "none"
      ELSE IF confirmed = {} THEN "claimed"
      ELSE IF Cardinality(confirmed) = Cardinality(claims) THEN "confirmed" ELSE "partial"

claimStatusShown(a) ==
  LET active    == activeClaims(claimStatus, a)
      confirmed == {c \in active : claimStatus[c] = "confirmed"}
  IN  IF active = {} THEN "none"
      ELSE IF confirmed = {} THEN "claimed"
      ELSE IF Cardinality(confirmed) = Cardinality(active) THEN "confirmed" ELSE "partial"

\* The shares in the detail of a character, as receiver and as payer, with the
\* claim status shown; paid settlements are included.
inDetail(a) ==
  /\ statusOfSettlement(a) \in {"draft", "calculated", "paying", "paid"}
  /\ allocationStatus[a] \notin {"absent", "waived", "cancelled"}

CharacterDetail(p) ==
  [receivable |-> [a \in {x \in Allocation : inDetail(x) /\ CharacterOf[x] = p} |->
                     claimStatusShown(a)],
   payable    |-> [a \in {x \in Allocation : inDetail(x) /\ PayerOf[SettlementOf[x]] = p} |->
                     claimStatusShown(a)]]

-------------------------------------------------------------------------------
(* The readiness of an event.                                               *)

\* Faulty variant: a settled event is offered for another settlement.
buildSettlementReadinessSettledToo(e) ==
  LET confirmation == requiresConfirmation(e, participants[e])
  IN  [canCreateSettlement |-> /\ eventStatus[e] \in {"ready_for_settlement",
                                    "partially_settled", "settled"}
                               /\ ~confirmation,
       canSettleEvent      |-> /\ eventStatus[e] \in {"open", "ready_for_settlement"}
                               /\ ~confirmation]

\* The recipients it is computed for are the participants themselves.
buildSettlementReadiness(e) ==
  LET confirmation == requiresConfirmation(e, participants[e])
  IN  [canCreateSettlement |-> /\ eventStatus[e] \in {"ready_for_settlement",
                                    "partially_settled"}
                               /\ ~confirmation,
       canSettleEvent      |-> /\ eventStatus[e] \in {"open", "ready_for_settlement"}
                               /\ ~confirmation]

\* GET /events/:id.
EventDetail(e) ==
  [participantCharacterIds      |-> participants[e],
   requiresConfirmation         |-> requiresConfirmation(e, participants[e]),
   settlementReadiness          |-> buildSettlementReadiness(e)]

-------------------------------------------------------------------------------
\* The claimable list, the claim workspace and the dashboard of a character show
\* the same shares: those that recordClaim would accept a claim for at that
\* moment, through every way a claim is recorded, confirmed and voided.  The
\* two services also agree on the summaries and on what a payer owes.
OfferedSharesAreClaimable ==
  /\ listClaimableRows = {a \in Allocation : claimable(a) /\ CharacterOf[a] # NoCharacter}
  /\ ClaimableRecipientSummaries = ClaimableRecipients
  /\ \A p \in Character :
       /\ ClaimableRecipientWorkspace(p).allocations = ClaimableRecipientDetail(p).allocations
       /\ CharacterSummary(p).receivableAmountTotal =
            ClaimableRecipientDetail(p).recipient.pendingClaimAmountTotal
       /\ \A a \in listRecipientRows :
            PayerOf[SettlementOf[a]] = p => a \in PendingPayables(p)

\* What is offered for disbursement can be claimed, or has a claim for less than
\* the share; nothing claimable is missing from the offer, but a share that the
\* split rounded down to nothing, and a settlement with an offer of the first
\* kind is counted once by the dashboard.
DisbursementOffersAddUp ==
  \A s \in Settlement :
    LET open == {a \in listBySettlement(allocationStatus, s) :
                   claimable(a) /\ AmountOf[a] > 0}
        part == {a \in offeredForDisbursement(s) :
                   \E c \in activeClaims(claimStatus, a) : ClaimedOf[c] < AmountOf[a]}
    IN  /\ offeredForDisbursement(s) = open \cup part
        /\ open # {} => disbursementInProgress(s) # disbursementNotStarted(s)
        /\ s \in DOMAIN DisburseableEventSummaries =>
             DisburseableEventSummaries[s].totalAmount <=
               SettlementDisbursementWorkspace(s).totalAmount

\* The dashboard of a character tells what happened to the share: "confirmed"
\* exactly when the allocation row says claimed, and never "partial", for the
\* receiver and for the payer.
\* The word is computed from the claim rows, the status from the allocation row.
DashboardTellsThePayout ==
  \A p \in Character :
    LET shown == {<<a, CharacterDetail(p).receivable[a]>> :
                    a \in DOMAIN CharacterDetail(p).receivable}
                 \cup {<<a, CharacterDetail(p).payable[a]>> :
                    a \in DOMAIN CharacterDetail(p).payable}
    IN  \A row \in shown :
          /\ row[2] = "confirmed" <=> allocationStatus[row[1]] = "claimed"
          /\ row[2] # "partial"

\* What the event page says can be done is accepted when it is asked for: a
\* settlement can be created where canCreateSettlement says so, an open event
\* can be settled where canSettleEvent says so; a ready one, too, unless it was
\* put back to ready by hand while a settlement of it is active.  An event in
\* the group "settled" has an active settlement to show.
ReadinessIsHonest ==
  \A e \in Event :
    LET ready == EventDetail(e).settlementReadiness
        free  == {s \in Settlement : settlementStatus[s] = "absent" /\ EventOf[s] = e}
    IN  /\ ready.canCreateSettlement =>
             \A s \in free : acceptsDraft(s)
        /\ ready.canSettleEvent =>
             \A s \in free :
               \A a \in {x \in Allocation : /\ SettlementOf[x] = s
                                            /\ CharacterOf[x] \in participants[e]} :
                 \/ acceptsSettle(s, {a})
                 \/ eventStatus[e] # "open" /\ ActiveSettlement(e) # {}
        /\ e \in EventsInGroup("settled") => ActiveSettlement(e) # {}

\* An event that the event page offers to settle is settled for its net amount:
\* whatever amounts and weights the request combines, it is refused or gives out
\* the net amount but for the rounding, and never more.
SettledForItsNet ==
  \A e \in Event :
    EventDetail(e).settlementReadiness.canSettleEvent => DivisionExhaustsNet

\* Nor do the shares of such a settlement depend on anything but the weights,
\* where a weight that was left out is the same as 1.
SettledByWeight ==
  \A e \in Event :
    EventDetail(e).settlementReadiness.canSettleEvent => SharesFollowWeights
===============================================================================
