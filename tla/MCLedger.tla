------------------------------- MODULE MCLedger -------------------------------
(***************************************************************************)
(* One event e1 with two settlements s1 and s2, and s3 without an event.   *)
(* a1 and a2 are two shares of s1, a2b a second row for the character of   *)
(* a2, a3 the share of s2; of the shares of s3, a4 names no character.     *)
(* a1 has two claims, so that one can replace the other.  Each             *)
(* configuration takes the part of this that its question needs.           *)
(***************************************************************************)
EXTENDS LedgerProperties

CONSTANTS e1, s1, s2, s3, a1, a2, a2b, a3, a4, a5, c1, c2, c3, c4, c5, c6, p1, p2

MCEventOf ==
  [s \in Settlement |-> IF s \in {s1, s2} THEN e1 ELSE NoEvent]

MCSettlementOf ==
  [a \in Allocation |->
     CASE a \in {a1, a2, a2b} -> s1 [] a = a3 -> s2 [] OTHER -> s3]

MCCharacterOf ==
  [a \in Allocation |->
     CASE a \in {a1, a3} -> p1 [] a = a4 -> NoCharacter [] OTHER -> p2]

MCAllocationOf ==
  [c \in Claim |->
     CASE c \in {c1, c2} -> a1 [] c = c5 -> a2 [] c = c3 -> a3 [] c = c6 -> a5
       [] OTHER -> a4]
===============================================================================
