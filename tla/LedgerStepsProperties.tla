------------------------- MODULE LedgerStepsProperties -------------------------
(***************************************************************************)
(* What is left of the ledger's promises when a statement fails, a worker  *)
(* is stopped, or requests overlap.                                        *)
(***************************************************************************)
EXTENDS LedgerSteps, LedgerProperties

\* The request w finishes in this step, with the given outcome.
finishes(w, outcome) ==
  /\ stack[w] # <<>> /\ stack'[w] = <<>>
  /\ answer'[w].is = outcome

\* A share becomes claimed only after a claim of it was confirmed, whatever
\* overlaps and fails: confirmClaim writes the claim before the allocation, so
\* that a confirmation that is interrupted can be repeated, never one that is
\* missing its claim.
ClaimedWasConfirmed ==
  \A a \in Allocation : allocationStatus[a] = "claimed" =>
    \E c \in Claim : AllocationOf[c] = a /\ claimStatus[c] \in {"confirmed", "voided"}

\* The 503 of the settle request, "It is safe to retry", is true: when it is
\* given, the settlement is cancelled, no other is active, and the event is ready
\* for settlement, even when the second half of the rollback failed.
SafeToRetry ==
  [][\A w \in Worker : finishes(w, "rolled back") =>
       LET s == answer[w].of.id
           e == EventOf[s]
       IN  /\ settlementStatus'[s] = "cancelled"
           /\ activeSettlements(settlementStatus', e) = {}
           /\ eventStatus'[e] = "ready_for_settlement"]_stepVars

\* What an "ok" promises about the rows of the request it answers.
Accomplished(r) ==
  CASE r.at = "confirmClaim" ->
         /\ claimStatus[r.id] = "confirmed"
         /\ allocationStatus[AllocationOf[r.id]] # "pending"
    [] r.at = "voidClaim" ->
         /\ claimStatus[r.id] = "voided"
         /\ allocationStatus[AllocationOf[r.id]] = "claimed" =>
              ~ noOtherConfirmed(claimStatus, r.id)
    [] r.at \in {"batch", "disburse"} ->
         \A i \in DOMAIN r.rest : claimStatus[r.rest[i]] = "recorded"
    [] r.at = "settle" ->
         /\ settlementStatus[r.id] = "calculated"
         /\ \A i \in DOMAIN r.rest : allocationStatus[r.rest[i]] = "pending"
         /\ eventStatus[EventOf[r.id]] = "partially_settled"
    [] OTHER -> TRUE

\* One worker: whatever failed or stopped before, a request that is answered
\* "ok" has been done in full.  A confirmation or a voiding that was
\* interrupted between its writes is completed by repeating it.
OkMeansDone ==
  [][\A w \in Worker : finishes(w, "ok") => Accomplished(answer[w].of)']_stepVars

\* The request w is going to complete the payout of s: markPaid is refused of a
\* calculated settlement, unless a startPaying goes before it.
completes(w, s) ==
  \E n \in DOMAIN stack[w] :
    LET f == stack[w][n]
        inPayout == settlementStatus[s] # "calculated"
    IN  /\ f.id = s
        /\ \/ f.at = "syncSettlement"
           \/ f.at = "syncSettlement.list" /\ (f.kept = "calculated" \/ inPayout)
           \/ f.at = "markPaid" /\ (n > 1 \/ inPayout)
           \/ f.at = "markPaid.read" /\ f.kept = "terminal" /\ inPayout
           \/ f.at = "settlement.write" /\ f.kept = "paid"

\* The request w is going to settle the event; a sync that has read it as ready does not.
tells(w, e) ==
  \E n \in DOMAIN stack[w] :
    LET f == stack[w][n]
    IN  /\ f.id = e
        /\ \/ f.at = "syncEvent"
           \/ f.at = "syncEvent.list" /\ f.kept # "ready_for_settlement"
           \/ f.at = "event.write" /\ f.kept = "settled"

\* Once all shares of a calculated settlement are closed, it is paid and its event
\* settled, or a request is still at it, or the event was set to ready by hand.
completed(s) ==
  listBySettlement(allocationStatus, s) # {} /\ allTerminal(allocationStatus, s) =>
     /\ settlementStatus[s] \in {"calculated", "paying"} => \E w \in Worker : completes(w, s)
     /\ settlementStatus[s] = "paid" /\ EventOf[s] # NoEvent =>
          \/ eventStatus[EventOf[s]] \in {"settled", "ready_for_settlement"}
          \/ \E w \in Worker : tells(w, EventOf[s])

\* Overlapping requests that close the shares of a settlement do not lose its
\* completion, whether claims were recorded in payout or on the draft: each lists the
\* allocations after writing its own, so the last one sees them all.  It takes another
\* write to lose it: markCalculated of a draft whose shares were closed before, as
\* nothing lists them again; a markCalculated or startPaying that writes its status
\* over a later one, written by another request since it has read the settlement; and
\* a sync that still knows the settlement as unpaid, for an event set to ready by hand.
CompletionIsNotLost ==
  [][\A s \in Settlement :
       completed(s) /\ ~completed(s)' =>
         \/ settlementStatus[s] = "draft" /\ settlementStatus'[s] = "calculated"
         \/ <<settlementStatus'[s], settlementStatus[s]>>
              \in {<<"calculated", "paying">>, <<"calculated", "paid">>, <<"paying", "paid">>}
         \/ EventOf[s] # NoEvent /\
              <<eventStatus'[EventOf[s]], eventStatus[EventOf[s]]>>
                = <<"partially_settled", "ready_for_settlement">>]_stepVars

-------------------------------------------------------------------------------
(* What the documents, tests and messages say and overlapping or            *)
(* interrupted requests do not keep.                                        *)

\* tests/ledger-lifecycle.test.ts: "high-level settle compensates partial failures
\* so events remain retryable".  When the first failure comes between the INSERT
\* of the draft and the end of markCalculated, nothing is compensated, and the
\* draft that is left blocks every retry.
FailedSettleIsCompensated ==
  [][\A w \in Worker :
       finishes(w, "failed") /\ answer[w].of.at = "settle" =>
         activeSettlements(settlementStatus', EventOf[answer[w].of.id]) = {}]_stepVars

\* docs/layer/settlement-state-machine.md, paid: "This is the normal successful
\* terminal state".  Of two requests that start the payout, one can write
\* "paying" after the other has completed it.
PaidStaysPaid ==
  [][\A s \in Settlement :
       settlementStatus[s] = "paid" => settlementStatus'[s] = "paid"]_stepVars

\* tests/ledger-lifecycle.test.ts: "claim confirmations drive allocation, settlement,
\* and event completion".  A confirmation that stops after it has written the
\* allocation does not pay the settlement, and its repetition, which finds the
\* share claimed, does not either.
ConfirmationCompletes ==
  [][\A w \in Worker :
       finishes(w, "ok") /\ answer[w].of.at = "confirmClaim" =>
         LET s == SettlementOf[AllocationOf[answer[w].of.id]]
         IN  settlementStatus'[s] = "paying" => ~ allTerminal(allocationStatus', s)]_stepVars
=============================================================================
