----------------------------- MODULE LedgerStatus -----------------------------
(***************************************************************************)
(* The four status machines of services/ledger/state-machines.  A machine  *)
(* is the relation of its permitted moves.  "absent" stands for a row that *)
(* has not been inserted yet; no machine mentions it, so a transition from *)
(* a missing row is refused the way the require... lookups refuse it.      *)
(***************************************************************************)

EventStatus ==
  {"open", "ready_for_settlement", "partially_settled", "settled", "cancelled"}
SettlementStatus == {"draft", "calculated", "paying", "paid", "cancelled"}
AllocationStatus == {"pending", "claimed", "waived", "cancelled"}
ClaimStatus      == {"recorded", "confirmed", "voided"}

Absent(S) == S \cup {"absent"}

eventStateMachine ==
  { <<"open", "ready_for_settlement">>, <<"open", "cancelled">>,
    <<"ready_for_settlement", "partially_settled">>,
    <<"ready_for_settlement", "cancelled">>,
    <<"partially_settled", "ready_for_settlement">>,
    <<"partially_settled", "settled">>, <<"partially_settled", "cancelled">> }

settlementStateMachine ==
  { <<"draft", "calculated">>, <<"draft", "cancelled">>,
    <<"calculated", "paying">>, <<"calculated", "cancelled">>,
    <<"paying", "paid">> }

allocationStateMachine ==
  { <<"pending", "claimed">>, <<"pending", "waived">>, <<"pending", "cancelled">> }

claimStateMachine ==
  { <<"recorded", "confirmed">>, <<"recorded", "voided">>, <<"confirmed", "voided">> }

\* assertTransition returns silently when the row already has the target
\* status, so every status request may be repeated.
assertTransition(machine, current, next) ==
  current = next \/ <<current, next>> \in machine

isTerminalAllocationStatus(status) == status \in {"claimed", "waived", "cancelled"}
===============================================================================
