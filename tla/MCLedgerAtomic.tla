---------------------------- MODULE MCLedgerAtomic ----------------------------
(***************************************************************************)
(* LedgerAtomic on the instances of MCLedgerSteps.                         *)
(***************************************************************************)
EXTENDS LedgerAtomic, MCLedgerSteps
===============================================================================
