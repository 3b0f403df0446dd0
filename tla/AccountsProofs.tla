----------------------------- MODULE AccountsProofs -----------------------------
(***************************************************************************)
(* Proofs about Accounts, for any number of users, requests in flight,     *)
(* tokens, links and interruptions; where it is said, for requests that do *)
(* not overlap.                                                            *)
(***************************************************************************)
EXTENDS Accounts, TLAPS

-------------------------------------------------------------------------------
(* Type correctness.  What a step writes it takes from the task, so the     *)
(* tasks need a type of their own: which fields a point may rely on.        *)

Point == {"idle", "staff", "resend", "token", "cooldown", "mail", "consume",
          "verify", "verified", "activate", "disable", "edit", "activated",
          "disabled", "edited", "delete", "forgot", "reset", "target", "resetting"}

Task == [at : Point, user : User \cup {NoUser}, token : Token \cup {NoToken} \cup Link,
         status : Status \cup {"absent"}, verified : BOOLEAN]

\* A request has a user, the one that records an official an official user, a
\* reset its link; and who is about to write a status has read one.
wellFormed(t) ==
  /\ t.at # "idle" => t.user \in User
  /\ t.at = "staff" => t.user \in Official
  /\ t.at \in {"reset", "target", "resetting"} => t.token \in Link
  /\ t.at \in {"verified", "activated", "disabled", "edited"} => t.status \in Status

TasksOK ==
  /\ task \in [Worker -> Task]
  /\ \A w \in Worker : wellFormed(task[w])

Typed == TypeOK /\ TasksOK /\ used \in [Link -> Nat]

\* A worker that waits is well-formed.
LEMMA IdleType == idle \in Task /\ wellFormed(idle)
BY DEF idle, Task, Point, wellFormed

\* The three ways a request moves on keep the type of the tasks.
LEMMA BeginsType ==
  ASSUME TasksOK, NEW w \in Worker, NEW u \in User, NEW point \in Point,
         point \notin {"reset", "target", "resetting", "verified", "activated",
                       "disabled", "edited"},
         point = "staff" => u \in Official,
         begins(w, point, u)
  PROVE  TasksOK'
BY IdleType DEF begins, TasksOK, Task, wellFormed, idle

LEMMA ContinuesType ==
  ASSUME TasksOK, NEW w \in Worker, NEW point \in Point,
         task[w].at # "idle",
         point \notin {"staff", "verified", "activated", "disabled", "edited"},
         point \in {"reset", "target", "resetting"} => task[w].token \in Link,
         continues(w, point)
  PROVE  TasksOK'
BY DEF continues, TasksOK, Task, wellFormed

LEMMA EndsType ==
  ASSUME TasksOK, NEW w \in Worker, task' = [task EXCEPT ![w] = idle]
  PROVE  TasksOK'
BY IdleType DEF TasksOK

LEMMA InitTyped == Init => Typed
<1> SUFFICES ASSUME Init PROVE Typed
  OBVIOUS
<1>1. TasksOK
  BY IdleType DEF Init, TasksOK
<1>2. TypeOK
  <2>1. \A w \in Worker : task[w].user = NoUser
    BY DEF Init, idle
  <2> QED BY <2>1 DEF Init, TypeOK
<1> QED BY <1>1, <1>2 DEF Typed, Init

LEMMA UsersOfTasks == TasksOK' => \A w \in Worker : task'[w].user \in User \cup {NoUser}
BY DEF TasksOK, Task

\* Every statement of a request keeps the types.
LEMMA StepTyped == ASSUME Typed, NEW w \in Worker, Step(w) PROVE Typed'
<1> USE AccountConstants DEF Typed
<1>1. CASE RegisterStaff(w)
  BY <1>1, EndsType
     DEF RegisterStaff, ends, at, TypeOK, TasksOK, wellFormed, tokens, resets, idle
<1>2. CASE CheckCooldown(w)
  BY <1>2, EndsType, ContinuesType, IdleType
     DEF CheckCooldown, ends, continues, at, TypeOK, TasksOK, Task, Point, rows, tokens, resets
<1>3. CASE IssueToken(w)
  BY <1>3 DEF IssueToken, at, TypeOK, TasksOK, Task, Point, wellFormed, rows, resets
<1>4. CASE StartCooldown(w)
  <2>1. TasksOK'
    BY <1>4, ContinuesType DEF StartCooldown, at, Point
  <2> QED
    BY <1>4, <2>1, UsersOfTasks
       DEF StartCooldown, at, TypeOK, TasksOK, wellFormed, rows, resets
<1>5. CASE SendVerificationEmail(w)
  BY <1>5, EndsType
     DEF SendVerificationEmail, ends, at, TypeOK, TasksOK, Task, wellFormed, rows, resets, idle
<1>6. CASE ConsumeToken(w)
  BY <1>6, ContinuesType
     DEF ConsumeToken, continues, at, TypeOK, TasksOK, Task, Point, wellFormed, rows, resets
<1>7. CASE ReadVerifiedUser(w)
  <2>1. TasksOK'
    BY <1>7, EndsType
       DEF ReadVerifiedUser, ends, exists, at, TasksOK, Task, Point, wellFormed
  <2> QED
    BY <1>7, <2>1, UsersOfTasks DEF ReadVerifiedUser, TypeOK, rows, tokens, resets
<1>8. CASE WriteVerifiedUser(w)
  BY <1>8, EndsType
     DEF WriteVerifiedUser, nextStatus, ends, exists, at, TypeOK, TasksOK, Task, wellFormed,
         tokens, resets, idle, Status
<1>9. CASE ReadRow(w)
  <2>1. /\ written[task[w].at] \in {"activated", "disabled", "edited"}
        /\ users[task[w].user].status \in Status /\ task[w].user \in User
        /\ users[task[w].user].verified \in BOOLEAN
    BY <1>9 DEF ReadRow, written, exists, TypeOK, TasksOK, wellFormed
  <2>2. TasksOK'
    <3> DEFINE t == [task[w] EXCEPT !.at = written[task[w].at],
                                    !.status = users[task[w].user].status,
                                    !.verified = users[task[w].user].verified]
    <3>1. task' = [task EXCEPT ![w] = t]
      BY <1>9 DEF ReadRow, TasksOK
    <3>2. t \in Task /\ wellFormed(t)
      BY <2>1 DEF TasksOK, Task, Point, wellFormed
    <3> HIDE DEF t
    <3> QED BY <3>1, <3>2 DEF TasksOK
  <2> QED
    BY <1>9, <2>2, UsersOfTasks DEF ReadRow, TypeOK, rows, tokens, resets
<1>10. CASE WriteRow(w)
  <2>1. statusWritten(task[w]) \in Status /\ task[w].verified \in BOOLEAN
    BY <1>10 DEF WriteRow, statusWritten, TasksOK, Task, wellFormed, Status
  <2> QED
    BY <1>10, <2>1, EndsType
       DEF WriteRow, ends, TypeOK, tokens, resets, TasksOK, idle
<1>11. CASE DeleteRow(w)
  <2>1. TasksOK'
    BY <1>11, EndsType DEF DeleteRow, ends
  <2>2. users' \in [User -> [status : Status \cup {"absent", "deleted"}, verified : BOOLEAN]]
    <3>1. [status |-> "deleted", verified |-> FALSE]
            \in [status : Status \cup {"absent", "deleted"}, verified : BOOLEAN]
      OBVIOUS
    <3> QED BY <1>11, <3>1 DEF DeleteRow, TypeOK
  <2>3. staff' \subseteq Official
    BY <1>11 DEF DeleteRow, TypeOK
  <2>4. UNCHANGED <<stored, cooldown, delivered, links, password, used>>
    BY <1>11 DEF DeleteRow, tokens, resets
  <2> QED BY <2>1, <2>2, <2>3, <2>4, UsersOfTasks DEF TypeOK
<1>12. CASE RowIsGone(w)
  BY <1>12, EndsType DEF RowIsGone, ends, TypeOK, TasksOK, rows, tokens, resets, idle
<1>13. CASE SendPasswordResetEmail(w)
  BY <1>13, EndsType
     DEF SendPasswordResetEmail, ends, TypeOK, TasksOK, rows, tokens, idle
<1>14. CASE ConsumeResetToken(w)
  BY <1>14, ContinuesType
     DEF ConsumeResetToken, continues, at, TypeOK, TasksOK, Task, Point, wellFormed, rows, tokens
<1>15. CASE ReadResetTarget(w)
  BY <1>15, ContinuesType, EndsType
     DEF ReadResetTarget, continues, ends, at, TypeOK, TasksOK, Task, Point, wellFormed,
         rows, tokens, resets, idle
<1>16. CASE SetPasswordHash(w)
  <2>1. TasksOK'
    BY <1>16, EndsType DEF SetPasswordHash, ends
  <2>2. task[w].token \in Link
    BY <1>16 DEF SetPasswordHash, at, TasksOK, wellFormed
  <2>3. password' \in [User -> Link \cup {"initial"}]
    BY <1>16, <2>2 DEF SetPasswordHash, TypeOK
  <2>4. used' \in [Link -> Nat]
    BY <1>16, <2>2 DEF SetPasswordHash
  <2>5. UNCHANGED <<users, staff, stored, cooldown, delivered, links>>
    BY <1>16 DEF SetPasswordHash, rows, tokens
  <2> QED BY <2>1, <2>3, <2>4, <2>5, UsersOfTasks DEF TypeOK
<1> QED
  BY <1>1, <1>2, <1>3, <1>4, <1>5, <1>6, <1>7, <1>8, <1>9, <1>10, <1>11, <1>12, <1>13,
     <1>14, <1>15, <1>16 DEF Step

\* And so does the arrival of a request, the passing of time and a failure.
LEMMA TypeStep == ASSUME Typed, [Next]_vars PROVE Typed'
<1> USE AccountConstants
<1>1. ASSUME UNCHANGED vars PROVE Typed'
  BY <1>1 DEF vars, Typed, TypeOK, TasksOK
<1>2. ASSUME NEW w \in Worker, Step(w) PROVE Typed'
  BY <1>2, StepTyped
<1>3. ASSUME NEW w \in Worker, Abort(w) PROVE Typed'
  <2>1. TasksOK'
    BY <1>3, EndsType DEF Abort, Typed
  <2> QED
    BY <1>3, <2>1, UsersOfTasks DEF Abort, Typed, TypeOK, rows, tokens, resets
<1>4. ASSUME NEW w \in Worker, NEW u \in User, Request(w, u) PROVE Typed'
  <2>1. TasksOK'
    BY <1>4, BeginsType
       DEF Request, Register, ResendVerification, VerifyEmail, ActivateUser, DisableUser,
           DeleteUser, UpdateUserVanity, UpdateDisplayName, Typed, Point
  <2>2. newUser(u) \in [status : Status, verified : BOOLEAN]
    BY DEF newUser, Status
  <2>3. /\ \/ UNCHANGED users
           \/ users' = [users EXCEPT ![u] = newUser(u)]
        /\ UNCHANGED <<staff, stored, cooldown, delivered, links, password, used>>
    BY <1>4
       DEF Request, Register, ResendVerification, VerifyEmail, ActivateUser, DisableUser,
           DeleteUser, UpdateUserVanity, UpdateDisplayName, rows, tokens, resets
  <2> QED BY <2>1, <2>2, <2>3, UsersOfTasks DEF Typed, TypeOK
<1>5. ASSUME NEW w \in Worker, NEW l \in Link, ForgotPassword(w, l) PROVE Typed'
  <2>1. TasksOK'
    BY <1>5, BeginsType DEF ForgotPassword, Typed, Point
  <2> QED
    BY <1>5, <2>1, UsersOfTasks DEF ForgotPassword, Typed, TypeOK, rows, tokens
<1>6. ASSUME NEW w \in Worker, NEW l \in Link, ResetPassword(w, l) PROVE Typed'
  <2>1. TasksOK'
    BY <1>6 DEF ResetPassword, Typed, TasksOK, Task, Point, wellFormed, idle
  <2> QED
    BY <1>6, <2>1, UsersOfTasks DEF ResetPassword, Typed, TypeOK, rows, tokens, resets
<1>7. ASSUME NEW u \in User, ExpireToken(u) \/ ExpireCooldown(u) PROVE Typed'
  BY <1>7 DEF ExpireToken, ExpireCooldown, Typed, TypeOK, TasksOK, rows, resets
<1>8. ASSUME NEW l \in Link, ExpireLink(l) PROVE Typed'
  BY <1>8 DEF ExpireLink, Typed, TypeOK, TasksOK, rows, tokens
<1> QED
  BY <1>1, <1>2, <1>3, <1>4, <1>5, <1>6, <1>7, <1>8 DEF Next

LEMMA AlwaysTyped == Spec => []Typed
<1>1. Init => Typed
  BY InitTyped
<1>2. Typed /\ [Next]_vars => Typed'
  BY TypeStep
<1> QED BY <1>1, <1>2, PTL DEF Spec

\* Whatever requests overlap or break off, every row keeps a status of the
\* table, only official users are staff, and every link is in one of its
\* states: no statement writes a field that the request has not read before.
THEOREM TypeCorrect == Spec => []TypeOK
<1>1. Typed => TypeOK
  BY DEF Typed
<1> QED BY <1>1, AlwaysTyped, PTL

-------------------------------------------------------------------------------
(* Approval.  A status travels in the task from the row it was read from to *)
(* the row it is written to, while other requests change that row: what has *)
(* to be kept is what the reading proved about the user for good, in the    *)
(* history, and not what the row says now.                                  *)

\* What the request of w carries about a user who is not official: who is being
\* activated has clicked a link, and so has one whose address was read as
\* verified; a status active that will be written back was approved.
Carried(w) ==
  LET t == task[w]
  IN  t.user \notin Official =>
        /\ t.at \in {"activate", "activated"} => t.user \in verified
        /\ t.at \in {"activated", "disabled", "edited"} /\ t.verified => t.user \in verified
        /\ t.at \in {"verified", "edited"} /\ t.status = "active" => t.user \in approved

Provenance == Typed /\ ActiveWasApproved /\ \A w \in Worker : Carried(w)

\* A task that is idle, or at a point that carries nothing yet, carries nothing.
LEMMA NothingCarried ==
  ASSUME NEW w \in Worker,
         task'[w].at \notin {"activate", "activated", "disabled", "verified", "edited"}
  PROVE  Carried(w)'
BY DEF Carried

\* The other requests carry what they carried, since the history only grows.
LEMMA OthersCarry ==
  ASSUME \A v \in Worker : Carried(v), NEW w \in Worker,
         approved \subseteq approved', verified \subseteq verified',
         \A v \in Worker \ {w} : task'[v] = task[v],
         Carried(w)'
  PROVE  (\A v \in Worker : Carried(v))'
BY DEF Carried

LEMMA ApprovalStep == ASSUME Provenance, [Next]_vars PROVE Provenance'
<1> USE DEF Provenance, Typed
<1>0. Typed'
  BY TypeStep
<1>1. ASSUME UNCHANGED vars PROVE Provenance'
  BY <1>1, <1>0 DEF vars, ActiveWasApproved, Carried
<1>2. ASSUME NEW w \in Worker, UNCHANGED <<users, approved, verified>>,
             \A v \in Worker \ {w} : task'[v] = task[v],
             Carried(w)'
      PROVE  Provenance'
  BY <1>0, <1>2, OthersCarry DEF ActiveWasApproved
<1>3. ASSUME NEW w \in Worker, task' = [task EXCEPT ![w] = idle]
      PROVE  Carried(w)' /\ \A v \in Worker \ {w} : task'[v] = task[v]
  BY <1>3, NothingCarried DEF idle, Typed, TasksOK
<1>4. ASSUME NEW w \in Worker, Step(w) PROVE Provenance'
  <2> DEFINE u == task[w].user
  <2>1. CASE RegisterStaff(w) \/ SendVerificationEmail(w) \/ RowIsGone(w)
             \/ SendPasswordResetEmail(w) \/ SetPasswordHash(w)
    BY <2>1, <1>2, <1>3
       DEF RegisterStaff, SendVerificationEmail, RowIsGone, SendPasswordResetEmail,
           SetPasswordHash, ends, rows
  <2>2. CASE CheckCooldown(w) \/ StartCooldown(w) \/ ConsumeToken(w)
             \/ ConsumeResetToken(w) \/ ReadResetTarget(w)
    <3>1. UNCHANGED <<users, approved, verified>>
      BY <2>2 DEF CheckCooldown, StartCooldown, ConsumeToken, ConsumeResetToken,
                  ReadResetTarget, rows
    <3>2. \/ task' = [task EXCEPT ![w] = idle]
          \/ \E point \in {"token", "mail", "verify", "target", "resetting"} :
               task' = [task EXCEPT ![w].at = point]
      BY <2>2 DEF CheckCooldown, StartCooldown, ConsumeToken, ConsumeResetToken,
                  ReadResetTarget, ends, continues
    <3> QED BY <3>1, <3>2, <1>2, <1>3, NothingCarried DEF TasksOK, Task
  <2>3. CASE IssueToken(w)
    <3>1. /\ UNCHANGED <<users, approved, verified>>
          /\ \A v \in Worker \ {w} : task'[v] = task[v]
          /\ task'[w].at = "cooldown"
      BY <2>3 DEF IssueToken, rows, TasksOK, Task
    <3> QED BY <3>1, <1>2, NothingCarried
  <2>4. CASE ReadVerifiedUser(w)
    <3>1. UNCHANGED <<users, approved, verified>>
      BY <2>4 DEF ReadVerifiedUser, rows
    <3>2. CASE task' = [task EXCEPT ![w] = idle]
      BY <3>1, <3>2, <1>2, <1>3
    <3>3. CASE task' = [task EXCEPT ![w].at = "verified", ![w].status = users[u].status]
      <4>1. u \in User
        BY <2>4 DEF ReadVerifiedUser, at, TasksOK, wellFormed
      <4>2. /\ task'[w].at = "verified" /\ task'[w].user = u
            /\ task'[w].status = users[u].status
            /\ \A v \in Worker \ {w} : task'[v] = task[v]
        BY <3>3 DEF TasksOK, Task
      <4>3. Carried(w)'
        BY <4>1, <4>2, <3>1 DEF Carried, ActiveWasApproved
      <4> QED BY <3>1, <4>2, <4>3, <1>2
    <3> QED BY <2>4, <3>2, <3>3 DEF ReadVerifiedUser, ends
  <2>5. CASE WriteVerifiedUser(w)
    <3>1. /\ u \in User /\ task[w].at = "verified"
          /\ users' = [users EXCEPT ![u] =
                         [status |-> nextStatus(task[w].status), verified |-> TRUE]]
          /\ verified' = verified \cup {u} /\ approved' = approved
          /\ task' = [task EXCEPT ![w] = idle]
      BY <2>5 DEF WriteVerifiedUser, at, ends, TasksOK, wellFormed
    <3>2. ActiveWasApproved'
      BY <3>1 DEF Carried, nextStatus, ActiveWasApproved, TypeOK
    <3> QED BY <1>0, <1>3, <3>1, <3>2, OthersCarry
  <2>6. CASE ReadRow(w)
    <3>1. /\ u \in User
          /\ UNCHANGED <<users, approved, verified>>
          /\ \A v \in Worker \ {w} : task'[v] = task[v]
          /\ task'[w].user = u
          /\ task'[w].at = written[task[w].at] /\ task[w].at \in DOMAIN written
          /\ task'[w].status = users[u].status /\ task'[w].verified = users[u].verified
      BY <2>6 DEF ReadRow, written, rows, TasksOK, Task, wellFormed
    <3>2. Carried(w)'
      BY <3>1 DEF Carried, ActiveWasApproved, written
    <3> QED BY <3>1, <3>2, <1>2
  <2>7. CASE WriteRow(w)
    <3>1. /\ u \in User /\ task[w].at \in {"activated", "disabled", "edited"}
          /\ users' = [users EXCEPT ![u] =
                         [status |-> statusWritten(task[w]), verified |-> task[w].verified]]
          /\ approved' = IF task[w].at = "activated" THEN approved \cup {u} ELSE approved
          /\ verified' = verified
          /\ task' = [task EXCEPT ![w] = idle]
      BY <2>7 DEF WriteRow, at, ends, TasksOK, wellFormed
    <3>2. ActiveWasApproved'
      BY <3>1 DEF Carried, statusWritten, ActiveWasApproved, TypeOK
    <3> QED BY <1>0, <1>3, <3>1, <3>2, OthersCarry
  <2>8. CASE DeleteRow(w)
    <3>1. /\ \/ users' = [users EXCEPT ![u] = [status |-> "deleted", verified |-> FALSE]]
             \/ users' = users
          /\ approved' = approved /\ verified' = verified
          /\ task' = [task EXCEPT ![w] = idle]
      BY <2>8 DEF DeleteRow, ends
    <3>2. ActiveWasApproved'
      BY <3>1 DEF ActiveWasApproved, TypeOK
    <3> QED BY <1>0, <1>3, <3>1, <3>2, OthersCarry
  <2> QED
    BY <1>4, <2>1, <2>2, <2>3, <2>4, <2>5, <2>6, <2>7, <2>8 DEF Step
<1>5. ASSUME NEW w \in Worker, Abort(w) PROVE Provenance'
  BY <1>5, <1>2, <1>3 DEF Abort, rows
<1>6. ASSUME NEW w \in Worker, NEW u \in User, NEW point \in Point,
             begins(w, point, u),
             point \notin {"activated", "disabled", "edited", "verified"},
             point = "activate" => u \in verified \/ u \in Official,
             UNCHANGED <<approved, verified>>
      PROVE  Carried(w)' /\ \A v \in Worker \ {w} : task'[v] = task[v]
  BY <1>6 DEF begins, Carried, TasksOK, idle
<1>7. ASSUME NEW w \in Worker, NEW u \in User, Request(w, u) PROVE Provenance'
  <2>1. CASE Register(w, u)
    BY <2>1, <1>0, <1>6, OthersCarry DEF Register, newUser, ActiveWasApproved, TypeOK, Point
  <2>2. CASE ActivateUser(w, u)
    BY <2>2, <1>2, <1>6 DEF ActivateUser, activatable, ActiveWasApproved, rows, Point
  <2>3. CASE \/ ResendVerification(w, u) \/ VerifyEmail(w, u) \/ DisableUser(w, u)
             \/ DeleteUser(w, u) \/ UpdateUserVanity(w, u) \/ UpdateDisplayName(w, u)
    BY <2>3, <1>2, <1>6
       DEF ResendVerification, VerifyEmail, DisableUser, DeleteUser, UpdateUserVanity,
           UpdateDisplayName, rows, Point
  <2> QED BY <1>7, <2>1, <2>2, <2>3 DEF Request
<1>8. ASSUME NEW w \in Worker, NEW l \in Link, ForgotPassword(w, l) \/ ResetPassword(w, l)
      PROVE  Provenance'
  <2>1. /\ UNCHANGED <<users, approved, verified>>
        /\ \A v \in Worker \ {w} : task'[v] = task[v]
        /\ task'[w].at \in {"forgot", "reset"}
    <3>1. CASE ForgotPassword(w, l)
      BY <3>1 DEF ForgotPassword, begins, rows, TasksOK, idle
    <3>2. CASE ResetPassword(w, l)
      BY <3>2 DEF ResetPassword, rows, TasksOK, idle
    <3> QED BY <1>8, <3>1, <3>2
  <2> QED BY <2>1, <1>2, NothingCarried
<1>9. ASSUME \/ \E u \in User : ExpireToken(u) \/ ExpireCooldown(u)
             \/ \E l \in Link : ExpireLink(l)
      PROVE  Provenance'
  BY <1>9, <1>0 DEF ExpireToken, ExpireCooldown, ExpireLink, rows, ActiveWasApproved, Carried
<1> QED
  BY <1>1, <1>4, <1>5, <1>7, <1>8, <1>9 DEF Next

LEMMA InitProvenance == Init => Provenance
<1> SUFFICES ASSUME Init PROVE Provenance
  OBVIOUS
<1>1. \A u \in User : users[u].status = "absent" /\ ~users[u].verified
  BY DEF Init
<1>2. approved = {} /\ \A w \in Worker : task[w].at = "idle"
  BY DEF Init, idle
<1> QED BY <1>1, <1>2, InitTyped DEF Provenance, ActiveWasApproved, Carried

\* No interleaving of verifications, approvals, suspensions, edits, deletions and
\* resets makes a user active whom no admin approved, or approves one who has
\* never clicked a mailed link.
THEOREM ActivationsAreApproved == Spec => []ActiveWasApproved
<1>1. Init => Provenance
  BY InitProvenance
<1>2. Provenance /\ [Next]_vars => Provenance'
  BY ApprovalStep
<1>3. Provenance => ActiveWasApproved
  BY DEF Provenance
<1> QED BY <1>1, <1>2, <1>3, PTL DEF Spec

-------------------------------------------------------------------------------
(* Requests that do not overlap: one worker runs them all, one after the    *)
(* other, each of them to its end or to the point where it breaks off.      *)

OneByOne == \A v, w \in Worker : v = w

\* The request under way agrees with the row: no other request has changed it
\* since it was read.  A link that is being used has left the mailbox, or is
\* about to, and has set no password yet.
InStep(w) ==
  LET t == task[w]
      row == users[t.user]
  IN  /\ t.at \in {"activate", "disable", "edit", "activated", "disabled", "edited",
                  "verified"} => row.status \in Status
      /\ t.at = "activate" => row.verified
      /\ t.at \in {"activate", "disable", "activated", "disabled"} =>
           row.status # "pending_verification"
      /\ t.at \in {"activated", "disabled", "edited"} =>
           t.status = row.status /\ t.verified = row.verified
      /\ t.at = "activated" => t.verified
      /\ t.at = "verified" => t.status = row.status /\ row.status # "disabled"
      /\ t.at = "reset" => used[t.token] = 0
      /\ t.at \in {"target", "resetting"} =>
           used[t.token] = 0 /\ links[t.token] = "gone"

Sequential ==
  /\ Provenance
  /\ ActiveIsVerified
  /\ \A l \in Link : used[l] \in {0, 1} /\ (links[l] # "gone" => used[l] = 0)
  /\ \A w \in Worker : InStep(w)

LEMMA InitSequential == Init => Sequential
<1> SUFFICES ASSUME Init PROVE Sequential
  OBVIOUS
<1>1. \A u \in User : users[u].status = "absent"
  BY DEF Init
<1>2. \A w \in Worker : task[w].at = "idle"
  BY DEF Init, idle
<1>3. \A l \in Link : used[l] = 0
  BY DEF Init
<1> QED BY <1>1, <1>2, <1>3, InitProvenance DEF Sequential, ActiveIsVerified, InStep

\* What the next statement of the only request does to the rows, and where it
\* leaves the request.
LEMMA SequentialStep ==
  ASSUME OneByOne, Sequential, [Next]_vars
  PROVE  Sequential'
<1> USE DEF Sequential, Provenance, Typed
<1>0. Provenance'
  BY ApprovalStep
<1> DEFINE LinksOK == \A l \in Link : used[l] \in {0, 1} /\ (links[l] # "gone" => used[l] = 0)
<1>1. ASSUME UNCHANGED vars PROVE Sequential'
  BY <1>1, <1>0 DEF vars, ActiveIsVerified, InStep
\* A request that is over, or has read nothing yet, agrees with everything.
<1>2. ASSUME NEW w \in Worker,
             task'[w].at \in {"idle", "staff", "resend", "token", "cooldown", "mail",
                              "consume", "verify", "delete", "forgot"}
      PROVE  \A v \in Worker : InStep(v)'
  BY <1>2 DEF InStep, OneByOne
<1>3. ASSUME NEW w \in Worker, task' = [task EXCEPT ![w] = idle]
      PROVE  \A v \in Worker : InStep(v)'
  BY <1>2, <1>3 DEF TasksOK, idle
<1>4. ASSUME NEW w \in Worker, Step(w) PROVE Sequential'
  <2> DEFINE u == task[w].user
  <2>0. task[w].at # "idle" => u \in User
    BY DEF TasksOK, wellFormed
  <2>1. CASE RegisterStaff(w) \/ SendVerificationEmail(w) \/ RowIsGone(w)
    BY <2>1, <1>0, <1>3
       DEF RegisterStaff, SendVerificationEmail, RowIsGone, ends, rows, tokens, resets,
           ActiveIsVerified
  <2>2. CASE CheckCooldown(w) \/ StartCooldown(w) \/ ConsumeToken(w)
    <3>1. UNCHANGED <<users, links, used>>
      BY <2>2 DEF CheckCooldown, StartCooldown, ConsumeToken, rows, tokens, resets
    <3>2. \/ task' = [task EXCEPT ![w] = idle]
          \/ \E point \in {"token", "mail", "verify"} :
               task' = [task EXCEPT ![w].at = point]
      BY <2>2 DEF CheckCooldown, StartCooldown, ConsumeToken, ends, continues
    <3>3. task'[w].at \in {"idle", "token", "mail", "verify"}
      BY <3>2 DEF TasksOK, Task, idle
    <3> QED BY <3>1, <3>3, <1>0, <1>2 DEF ActiveIsVerified
  <2>3. CASE IssueToken(w)
    <3>1. UNCHANGED <<users, links, used>> /\ task'[w].at = "cooldown"
      BY <2>3 DEF IssueToken, rows, resets, TasksOK, Task
    <3> QED BY <3>1, <1>0, <1>2 DEF ActiveIsVerified
  <2>4. CASE ReadVerifiedUser(w)
    <3>1. UNCHANGED <<users, links, used>>
      BY <2>4 DEF ReadVerifiedUser, rows, resets
    <3>2. CASE task' = [task EXCEPT ![w] = idle]
      BY <3>1, <3>2, <1>0, <1>3 DEF ActiveIsVerified
    <3>3. CASE /\ exists(u) /\ users[u].status # "disabled"
               /\ task' = [task EXCEPT ![w].at = "verified", ![w].status = users[u].status]
      <4>1. task'[w].at = "verified" /\ task'[w].user = u /\ task'[w].status = users[u].status
        BY <3>3 DEF TasksOK, Task
      <4>2. InStep(w)'
        BY <3>1, <3>3, <4>1 DEF InStep, exists
      <4> QED BY <3>1, <4>2, <1>0 DEF ActiveIsVerified, OneByOne
    <3> QED BY <2>4, <3>2, <3>3 DEF ReadVerifiedUser, ends
  <2>5. CASE WriteVerifiedUser(w)
    <3>1. /\ users' = [users EXCEPT ![u] =
                         [status |-> nextStatus(task[w].status), verified |-> TRUE]]
          /\ task' = [task EXCEPT ![w] = idle]
          /\ UNCHANGED <<links, used>>
      BY <2>5 DEF WriteVerifiedUser, ends, resets
    <3>2. ActiveIsVerified'
      BY <3>1 DEF ActiveIsVerified, TypeOK
    <3> QED BY <3>1, <3>2, <1>0, <1>3
  <2>6. CASE ReadRow(w)
    <3>1. /\ UNCHANGED <<users, links, used>>
          /\ exists(u)
          /\ task'[w].user = u
          /\ task'[w].at = written[task[w].at] /\ task[w].at \in DOMAIN written
          /\ task'[w].status = users[u].status /\ task'[w].verified = users[u].verified
      BY <2>6 DEF ReadRow, written, rows, resets, TasksOK, Task, wellFormed
    <3>2. InStep(w)'
      BY <3>1 DEF InStep, written, exists
    <3> QED BY <3>1, <3>2, <1>0 DEF ActiveIsVerified, OneByOne
  <2>7. CASE WriteRow(w)
    <3>1. /\ task[w].at \in {"activated", "disabled", "edited"}
          /\ users' = [users EXCEPT ![u] =
                         [status |-> statusWritten(task[w]), verified |-> task[w].verified]]
          /\ task' = [task EXCEPT ![w] = idle]
          /\ UNCHANGED <<links, used>>
      BY <2>7 DEF WriteRow, ends, resets
    <3>2. ActiveIsVerified'
      BY <2>0, <3>1 DEF InStep, statusWritten, ActiveIsVerified, TypeOK
    <3> QED BY <1>0, <1>3, <3>1, <3>2
  <2>8. CASE DeleteRow(w)
    <3>1. /\ \/ users' = [users EXCEPT ![u] = [status |-> "deleted", verified |-> FALSE]]
             \/ users' = users
          /\ task' = [task EXCEPT ![w] = idle]
          /\ UNCHANGED <<links, used>>
      BY <2>8 DEF DeleteRow, ends, resets
    <3>2. ActiveIsVerified'
      <4>1. \A v \in User : users'[v] = users[v] \/ users'[v].status = "deleted"
        BY <3>1 DEF TypeOK
      <4> QED BY <4>1 DEF ActiveIsVerified
    <3> QED BY <1>0, <1>3, <3>1, <3>2
  <2>9. CASE SendPasswordResetEmail(w)
    <3>1. /\ links' = [l \in Link |-> IF links[l] = "stored" /\ LinkUser[l] = task[w].user
                                      THEN "mailed" ELSE links[l]]
          /\ task' = [task EXCEPT ![w] = idle]
          /\ UNCHANGED <<users, used>>
      BY <2>9 DEF SendPasswordResetEmail, ends, rows
    <3> QED BY <1>0, <1>3, <3>1 DEF ActiveIsVerified
  <2>10. CASE ConsumeResetToken(w)
    <3>1. /\ task[w].at = "reset" /\ task[w].token \in Link
          /\ links' = [links EXCEPT ![task[w].token] = "gone"]
          /\ task'[w].at = "target" /\ task'[w].token = task[w].token
          /\ UNCHANGED <<users, used>>
      BY <2>10 DEF ConsumeResetToken, at, continues, rows, TasksOK, Task, wellFormed
    <3>2. InStep(w)' /\ LinksOK'
      BY <3>1 DEF InStep, TypeOK
    <3> QED BY <1>0, <3>1, <3>2 DEF ActiveIsVerified, OneByOne
  <2>11. CASE ReadResetTarget(w)
    <3>1. UNCHANGED <<users, links, used>>
      BY <2>11 DEF ReadResetTarget, rows, resets
    <3>2. \/ task'[w].at = "idle"
          \/ /\ task[w].at = "target" /\ task'[w].at = "resetting"
             /\ task'[w].token = task[w].token
      BY <2>11 DEF ReadResetTarget, at, ends, continues, TasksOK, Task, idle
    <3>3. InStep(w)'
      BY <3>1, <3>2 DEF InStep
    <3> QED BY <1>0, <3>1, <3>3 DEF ActiveIsVerified, OneByOne
  <2>12. CASE SetPasswordHash(w)
    <3> DEFINE l == task[w].token
    <3>1. /\ l \in Link /\ used[l] = 0 /\ links[l] = "gone"
          /\ used' = [used EXCEPT ![l] = @ + 1]
          /\ task' = [task EXCEPT ![w] = idle]
          /\ UNCHANGED <<users, links>>
      BY <2>12 DEF SetPasswordHash, at, ends, rows, TasksOK, wellFormed, InStep
    <3>2. LinksOK'
      BY <3>1
    <3> QED BY <1>0, <1>3, <3>1, <3>2 DEF ActiveIsVerified
  <2> QED
    BY <1>4, <2>1, <2>2, <2>3, <2>4, <2>5, <2>6, <2>7, <2>8, <2>9, <2>10, <2>11, <2>12 DEF Step
<1>5. ASSUME NEW w \in Worker, Abort(w) PROVE Sequential'
  BY <1>5, <1>0, <1>3 DEF Abort, rows, resets, ActiveIsVerified
<1>6. ASSUME NEW w \in Worker, NEW u \in User, Request(w, u) PROVE Sequential'
  <2>1. CASE Register(w, u)
    <3>1. /\ users' = [users EXCEPT ![u] = newUser(u)]
          /\ task'[w].at \in {"staff", "token"}
          /\ UNCHANGED <<links, used>>
      BY <2>1 DEF Register, begins, resets, TasksOK, idle
    <3>2. ActiveIsVerified'
      BY <3>1 DEF ActiveIsVerified, newUser, TypeOK
    <3> QED BY <1>0, <1>2, <3>1, <3>2
  <2>2. ASSUME NEW point \in {"resend", "consume", "activate", "disable", "edit", "delete"},
               begins(w, point, u), UNCHANGED <<users, links, used>>,
               point \in {"activate", "disable", "edit"} => users[u].status \in Status,
               point = "activate" => users[u].verified,
               point \in {"activate", "disable"} => users[u].status # "pending_verification"
        PROVE  Sequential'
    <3>1. task'[w].at = point /\ task'[w].user = u
      BY <2>2 DEF begins, TasksOK, idle
    <3>2. InStep(w)'
      BY <2>2, <3>1 DEF InStep
    <3> QED BY <1>0, <2>2, <3>2 DEF ActiveIsVerified, OneByOne
  <2>3. CASE \/ ResendVerification(w, u) \/ VerifyEmail(w, u) \/ ActivateUser(w, u)
             \/ DisableUser(w, u) \/ DeleteUser(w, u) \/ UpdateUserVanity(w, u)
             \/ UpdateDisplayName(w, u)
    BY <2>2, <2>3
       DEF ResendVerification, VerifyEmail, ActivateUser, activatable, DisableUser, DeleteUser,
           UpdateUserVanity, UpdateDisplayName, requireActiveUser, exists, rows, resets, Status
  <2> QED BY <1>6, <2>1, <2>3 DEF Request
<1>7. ASSUME NEW w \in Worker, NEW l \in Link, ForgotPassword(w, l) PROVE Sequential'
  <2>1. /\ links[l] = "unissued" /\ links' = [links EXCEPT ![l] = "stored"]
        /\ task'[w].at = "forgot"
        /\ UNCHANGED <<users, used>>
    BY <1>7 DEF ForgotPassword, begins, rows, TasksOK, idle
  <2>2. LinksOK'
    BY <2>1 DEF TypeOK
  <2> QED BY <1>0, <1>2, <2>1, <2>2 DEF ActiveIsVerified
<1>8. ASSUME NEW w \in Worker, NEW l \in Link, ResetPassword(w, l) PROVE Sequential'
  <2>1. /\ links[l] = "mailed"
        /\ task'[w].at = "reset" /\ task'[w].token = l
        /\ UNCHANGED <<users, links, used>>
    BY <1>8 DEF ResetPassword, rows, resets, TasksOK, idle
  <2>2. InStep(w)'
    BY <2>1 DEF InStep
  <2> QED BY <1>0, <2>1, <2>2 DEF ActiveIsVerified, OneByOne
<1>9. ASSUME NEW u \in User, ExpireToken(u) \/ ExpireCooldown(u) PROVE Sequential'
  BY <1>9, <1>0 DEF ExpireToken, ExpireCooldown, rows, resets, ActiveIsVerified, InStep
<1>10. ASSUME NEW l \in Link, ExpireLink(l) PROVE Sequential'
  <2>1. links' = [links EXCEPT ![l] = "gone"] /\ UNCHANGED <<users, used, task>>
    BY <1>10 DEF ExpireLink, rows
  <2>2. \A k \in Link : links[k] = "gone" => links'[k] = "gone"
    BY <2>1 DEF TypeOK
  <2>3. \A w \in Worker : InStep(w)'
    BY <2>1, <2>2 DEF InStep, TasksOK, wellFormed
  <2> QED BY <1>0, <2>1, <2>2, <2>3 DEF ActiveIsVerified, TypeOK
<1> QED
  BY <1>1, <1>4, <1>5, <1>6, <1>7, <1>8, <1>9, <1>10 DEF Next

LEMMA AlwaysSequential == ASSUME OneByOne PROVE Spec => []Sequential
<1>1. Init => Sequential
  BY InitSequential
<1>2. Sequential /\ [Next]_vars => Sequential'
  BY OneByOne, SequentialStep
<1> QED BY <1>1, <1>2, PTL DEF Spec

\* As long as requests do not overlap, an active user and one who waits for
\* approval have a verified address, wherever the requests before broke off.
THEOREM ActiveUsersAreVerified == ASSUME OneByOne PROVE Spec => []ActiveIsVerified
<1>1. Sequential => ActiveIsVerified
  BY DEF Sequential
<1> QED BY <1>1, AlwaysSequential, OneByOne, PTL

\* As long as requests do not overlap, a reset link sets one password at most:
\* it is deleted before the password is written, and a request that breaks off
\* in between leaves no link to try again.
THEOREM ResetLinksWorkOnce == ASSUME OneByOne PROVE Spec => []LinksWorkOnce
<1>1. Sequential => LinksWorkOnce
  BY DEF Sequential, LinksWorkOnce
<1> QED BY <1>1, AlwaysSequential, OneByOne, PTL

\* The statement that lifts a suspension is the write of an activation, or the
\* deletion of the row.
LEMMA OnlyActivationEnables ==
  ASSUME Sequential, [Next]_vars, NEW u \in User,
         users[u].status = "disabled", users'[u].status # "disabled"
  PROVE  \/ users'[u].status = "deleted"
         \/ \E w \in Worker : task[w].at = "activated" /\ task[w].user = u
<1> USE DEF Sequential, Provenance, Typed
<1> DEFINE Lifted == \/ users'[u].status = "deleted"
                     \/ \E w \in Worker : task[w].at = "activated" /\ task[w].user = u
<1>1. users' # users
  OBVIOUS
<1>2. ASSUME NEW w \in Worker, Step(w) PROVE Lifted
  <2>1. WriteVerifiedUser(w) \/ WriteRow(w) \/ DeleteRow(w)
    BY <1>1, <1>2
       DEF Step, RegisterStaff, CheckCooldown, IssueToken, StartCooldown, SendVerificationEmail,
           ConsumeToken, ReadVerifiedUser, ReadRow, RowIsGone, SendPasswordResetEmail,
           ConsumeResetToken, ReadResetTarget, SetPasswordHash, rows
  <2>2. CASE WriteVerifiedUser(w)
    BY <2>2 DEF WriteVerifiedUser, at, InStep, TypeOK
  <2>3. CASE WriteRow(w)
    <3>1. task[w].user = u
      BY <2>3 DEF WriteRow, TypeOK
    <3>2. users'[u].status = statusWritten(task[w])
      BY <2>3, <3>1 DEF WriteRow, TypeOK
    <3> QED BY <2>3, <3>1, <3>2 DEF WriteRow, statusWritten, InStep
  <2>4. CASE DeleteRow(w)
    BY <2>4 DEF DeleteRow, TypeOK
  <2> QED BY <2>1, <2>2, <2>3, <2>4
<1>3. ASSUME NEW w \in Worker, NEW v \in User, Request(w, v) PROVE Lifted
  <2>1. Register(w, v)
    BY <1>1, <1>3
       DEF Request, ResendVerification, VerifyEmail, ActivateUser, DisableUser, DeleteUser,
           UpdateUserVanity, UpdateDisplayName, rows
  <2> QED BY <2>1 DEF Register, TypeOK
<1>4. ASSUME NEW w \in Worker, Abort(w) PROVE Lifted
  BY <1>1, <1>4 DEF Abort, rows
<1>5. ASSUME NEW w \in Worker, NEW l \in Link, ForgotPassword(w, l) \/ ResetPassword(w, l)
      PROVE  Lifted
  BY <1>1, <1>5 DEF ForgotPassword, ResetPassword, rows
<1>6. ASSUME NEW v \in User, ExpireToken(v) \/ ExpireCooldown(v) PROVE Lifted
  BY <1>1, <1>6 DEF ExpireToken, ExpireCooldown, rows
<1>7. ASSUME NEW l \in Link, ExpireLink(l) PROVE Lifted
  BY <1>1, <1>7 DEF ExpireLink, rows
<1> QED
  BY <1>1, <1>2, <1>3, <1>4, <1>5, <1>6, <1>7 DEF Next, vars

\* As long as requests do not overlap, only an admin's activation lifts a
\* suspension; a verification, an edit or a reset that was under way does not.
THEOREM SuspensionsHold == ASSUME OneByOne PROVE Spec => DisabledStaysDisabled
<1>1. Sequential /\ [Next]_vars =>
        [\A u \in User : users[u].status = "disabled" /\ users'[u].status # "disabled" =>
           \/ users'[u].status = "deleted"
           \/ \E w \in Worker : task[w].at = "activated" /\ task[w].user = u]_vars
  BY OnlyActivationEnables
<1> QED BY <1>1, AlwaysSequential, OneByOne, PTL DEF Spec, DisabledStaysDisabled
================================================================================
