-------------------------------- MODULE Payout --------------------------------
(***************************************************************************)
(* What the ledger promises for one allocation, whatever statuses it keeps *)
(* to do so: at any time at most one claim holds the allocation; it is     *)
(* received only by the claim that holds it, stays so until that claim is  *)
(* revoked, and a revoked claim never holds again.                         *)
(***************************************************************************)
CONSTANTS Allocation, Claim, AllocationOf, NoClaim

VARIABLES holder,    \* the claim that holds an allocation, or NoClaim
          received,  \* the allocation has been paid out to its holder
          revoked    \* the claims that have been withdrawn

vars == <<holder, received, revoked>>

Init ==
  /\ holder = [a \in Allocation |-> NoClaim]
  /\ received = [a \in Allocation |-> FALSE]
  /\ revoked = {}

\* The claims C take hold of their allocations, all of them free.
Reserve(C) ==
  /\ C \cap revoked = {}
  /\ \A c, d \in C : AllocationOf[c] = AllocationOf[d] => c = d
  /\ \A c \in C : holder[AllocationOf[c]] = NoClaim /\ ~received[AllocationOf[c]]
  /\ holder' = [a \in Allocation |->
       IF \E c \in C : AllocationOf[c] = a
       THEN CHOOSE c \in C : AllocationOf[c] = a ELSE holder[a]]
  /\ UNCHANGED <<received, revoked>>

Receive(c) ==
  /\ holder[AllocationOf[c]] = c
  /\ received' = [received EXCEPT ![AllocationOf[c]] = TRUE]
  /\ UNCHANGED <<holder, revoked>>

Revoke(c) ==
  /\ holder[AllocationOf[c]] = c
  /\ holder' = [holder EXCEPT ![AllocationOf[c]] = NoClaim]
  /\ received' = [received EXCEPT ![AllocationOf[c]] = FALSE]
  /\ revoked' = revoked \cup {c}

Next ==
  \/ \E C \in SUBSET Claim : Reserve(C)
  \/ \E c \in Claim : Receive(c) \/ Revoke(c)

Spec == Init /\ [][Next]_vars
===============================================================================
