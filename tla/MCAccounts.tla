------------------------------- MODULE MCAccounts -------------------------------
(* An official account and a member, with one reset link for the member.     *)
EXTENDS Accounts, TLC

CONSTANTS admin, member, l1

MCLinkUser == [l \in Link |-> member]

\* For the run without liveness: nothing tells two workers or tokens apart.
Interchangeable == Permutations(Worker) \cup Permutations(Token)
===============================================================================
