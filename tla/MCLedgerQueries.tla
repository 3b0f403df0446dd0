---------------------------- MODULE MCLedgerQueries ----------------------------
(***************************************************************************)
(* The instance of MCLedger with amounts: c2 claims half of its share, a2b *)
(* is worth nothing, p2 pays what s1 distributes, and both characters      *)
(* belong to one member.  The division of a net amount is a function of    *)
(* the request alone; here it meets the events that can be settled.        *)
(***************************************************************************)
EXTENDS MCLedger, LedgerQueries

MCAmountOf == [a \in Allocation |-> IF a = a2b THEN 0 ELSE 2]

MCClaimedOf == [c \in Claim |-> IF c = c2 THEN 1 ELSE 2]

MCPayerOf == [s \in Settlement |-> IF s = s1 /\ p2 \in Character THEN p2 ELSE NoCharacter]

MCMemberOf == [p \in Character |-> p1]
===============================================================================
