------------------------- MODULE MembershipLifecycle -------------------------
(***************************************************************************)
(* What the member routes promise of one organization, whatever its        *)
(* characters and its games: an application makes at most a member of its  *)
(* applicant, only an invitation or a manager makes an admin, a role       *)
(* changes only between member and admin and of an active member, and the  *)
(* owner stays.                                                            *)
(***************************************************************************)
CONSTANTS User, None

VARIABLES standing,  \* by user: how far he is in, and in which role
          door       \* by user: the application or invitation he waits on

vars == <<standing, door>>

Out == [status |-> "out", role |-> "none"]
Pending(role) == [status |-> "pending", role |-> role]
Active(role) == [status |-> "active", role |-> role]

Init ==
  /\ standing = [u \in User |-> Out]
  /\ door = [u \in User |-> None]

moves(u, from, to) == standing[u] = from /\ standing' = [standing EXCEPT ![u] = to]

opensDoor(u, kind) == door[u] = None /\ door' = [door EXCEPT ![u] = kind]

shutsDoor(u) == door' = [door EXCEPT ![u] = None]

leavesDoors == door' = door

headed == \E u \in User : standing[u] = Active("owner")

Found(u) == ~headed /\ moves(u, Out, Active("owner")) /\ shutsDoor(u)

\* The door opens with the pending membership, unless the request stopped before
\* or an older door was never shut.
Enter(u, kind, role) ==
  /\ kind = "apply" => role = "member"
  /\ kind = "invite" => headed
  /\ moves(u, Out, Pending(role))
  /\ opensDoor(u, kind) \/ leavesDoors

Add(u, role) == headed /\ moves(u, Out, Active(role)) /\ leavesDoors

\* Approved or accepted: the role is the one that was asked for or offered.
Activate(u, role) ==
  /\ door[u] # None
  /\ moves(u, Pending(role), Active(role))
  /\ shutsDoor(u) \/ leavesDoors

Finish(u, role) == door[u] # None /\ moves(u, Pending(role), Out) /\ shutsDoor(u)

\* The door is shut before or after the membership is written.
Shut(u) == standing' = standing /\ shutsDoor(u)

Depart(u, role) == moves(u, Active(role), Out) /\ leavesDoors

ChangeRole(u, from, to) == headed /\ moves(u, Active(from), Active(to)) /\ leavesDoors

Next == \E u \in User :
  \/ Found(u) \/ Shut(u)
  \/ ChangeRole(u, "member", "admin") \/ ChangeRole(u, "admin", "member")
  \/ \E role \in {"admin", "member"} :
       \/ Enter(u, "apply", role) \/ Enter(u, "invite", role)
       \/ Add(u, role) \/ Activate(u, role) \/ Finish(u, role) \/ Depart(u, role)

Spec == Init /\ [][Next]_vars
===============================================================================
