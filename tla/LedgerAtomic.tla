----------------------------- MODULE LedgerAtomic -----------------------------
(***************************************************************************)
(* LedgerSteps seen between requests.  "committed" is the database as it   *)
(* was when last no worker was inside a request; a batch counts as one     *)
(* request per item.  Without faults and with one worker, committed        *)
(* behaves as Ledger: the statements of every request add up to the        *)
(* request.                                                                *)
(***************************************************************************)
EXTENDS LedgerSteps

VARIABLE committed

tables ==
  [eventStatus |-> eventStatus, participants |-> participants,
   settlementStatus |-> settlementStatus, exceptionConfirmed |-> exceptionConfirmed,
   allocationStatus |-> allocationStatus, claimStatus |-> claimStatus]

betweenRequests == \A w \in Worker : stack[w] = <<>> \/ top(w).at = "batch"

AtomicInit == StepsInit /\ committed = tables

AtomicNext ==
  /\ StepsNext
  /\ committed' = IF betweenRequests' THEN tables' ELSE committed

AtomicSpec == AtomicInit /\ [][AtomicNext]_<<stepVars, committed>>

Committed == INSTANCE Ledger WITH
  eventStatus        <- committed.eventStatus,
  participants       <- committed.participants,
  settlementStatus   <- committed.settlementStatus,
  exceptionConfirmed <- committed.exceptionConfirmed,
  allocationStatus   <- committed.allocationStatus,
  claimStatus        <- committed.claimStatus

\* One worker at a time, every request does what Ledger says, whole: each of
\* its statements reads what the earlier ones wrote, and a request that is
\* refused halfway leaves exactly what Ledger's refusals leave.
ImplementsLedger == Committed!Spec
===============================================================================
