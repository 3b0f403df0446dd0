-------------------------------- MODULE Accounts --------------------------------
(***************************************************************************)
(* User accounts (services/auth, services/admin, modules/auth,             *)
(* modules/admin): registration, email verification, approval by an        *)
(* official admin, suspension, password reset.                             *)
(*                                                                         *)
(* A request runs on a worker, one database or KV statement per step; the  *)
(* requests of different workers interleave, and a request may end between *)
(* any two statements: the isolate is evicted, a statement fails, the mail *)
(* service refuses.  What a request read is in task, what it shares with   *)
(* the others in the other variables.                                      *)
(*                                                                         *)
(* A User is a row id, and AUTOINCREMENT uses no id twice: a deleted user  *)
(* who registers again is another User.  Tokens and links are tried only   *)
(* when they match; a wrong one changes nothing.                           *)
(***************************************************************************)
EXTENDS Naturals, FiniteSets

CONSTANTS User, Worker, Token, NoToken,
          Official,   \* the users whose email is on OFFICIAL_ADMIN_EMAILS
          Link,       \* password reset links; LinkUser names the account
          LinkUser,
          NoUser,
          MaxAborts   \* bounds the requests that end half way

ASSUME AccountConstants ==
  /\ NoToken \notin Token /\ NoUser \notin User
  /\ Official \subseteq User
  /\ LinkUser \in [Link -> User]
  /\ MaxAborts \in Nat

Status == {"pending_verification", "pending_approval", "active", "disabled"}

VARIABLES
  users,      \* users.status and users.email_verified_at, by id
  staff,      \* official_staffs, role admin
  stored,     \* KV auth:email-verify:<user>
  cooldown,   \* KV auth:email-verify:cooldown:<user>
  delivered,  \* the users whose mailbox has a mail with the stored token
  links,      \* KV auth:password-reset:<user>:<id>, and its mail
  password,   \* the link a password was last set with
  task,       \* the request each worker runs
  aborts,
  approved, verified,  \* history: an admin's activation, a link that was clicked
  used                 \* history: how often a link has set a password

vars == <<users, staff, stored, cooldown, delivered, links, password, task,
          aborts, approved, verified, used>>

rows     == <<users, staff, approved, verified>>
tokens   == <<stored, cooldown, delivered>>
resets   == <<links, password, used>>

idle == [at |-> "idle", user |-> NoUser, token |-> NoToken,
         status |-> "absent", verified |-> FALSE]

\* Faulty variant: a new account starts out approved.
newUserApproved(u) ==
  IF u \in Official THEN [status |-> "active", verified |-> TRUE]
  ELSE [status |-> "active", verified |-> FALSE]

\* The row RegisterService inserts.
newUser(u) ==
  IF u \in Official THEN [status |-> "active", verified |-> TRUE]
  ELSE [status |-> "pending_verification", verified |-> FALSE]

Init ==
  /\ users = [u \in User |-> [status |-> "absent", verified |-> FALSE]]
  /\ staff = {} /\ approved = {} /\ verified = {}
  /\ stored = [u \in User |-> NoToken]
  /\ cooldown = {} /\ delivered = {}
  /\ links = [l \in Link |-> "unissued"]
  /\ password = [u \in User |-> "initial"]
  /\ used = [l \in Link |-> 0]
  /\ task = [w \in Worker |-> idle]
  /\ aborts = 0

exists(u) == users[u].status \in Status

\* The request of w goes on at point, or begins there.
begins(w, point, u) ==
  /\ task[w] = idle
  /\ task' = [task EXCEPT ![w] = [idle EXCEPT !.at = point, !.user = u]]
  /\ UNCHANGED aborts

at(w, point) == task[w].at = point

continues(w, point) ==
  /\ task' = [task EXCEPT ![w].at = point]
  /\ UNCHANGED aborts

ends(w) ==
  /\ task' = [task EXCEPT ![w] = idle]
  /\ UNCHANGED aborts

-------------------------------------------------------------------------------
(* Sessions: every request under a session reads the user again.            *)

requireActiveUser(u) == users[u].status = "active"

requireOfficialAdmin(u) == requireActiveUser(u) /\ u \in staff

-------------------------------------------------------------------------------
(* Registration and the verification mail.                                  *)

\* The INSERT, which the UNIQUE email makes exclusive, with the profile.
Register(w, u) ==
  /\ users[u].status = "absent"
  /\ users' = [users EXCEPT ![u] = newUser(u)]
  /\ begins(w, IF u \in Official THEN "staff" ELSE "token", u)
  /\ UNCHANGED <<staff, approved, verified, tokens, resets>>

RegisterStaff(w) ==
  /\ at(w, "staff")
  /\ exists(task[w].user)
  /\ staff' = staff \cup {task[w].user}
  /\ ends(w)
  /\ UNCHANGED <<users, approved, verified, tokens, resets>>

\* Only a pending user is answered; whether a mail was sent shortly before is
\* asked of KV next.
ResendVerification(w, u) ==
  /\ users[u].status = "pending_verification"
  /\ begins(w, "resend", u)
  /\ UNCHANGED <<rows, tokens, resets>>

\* Faulty variant: a mail is repeated only while its token is still valid.
CheckCooldownAndToken(w) ==
  /\ at(w, "resend")
  /\ IF task[w].user \in cooldown \/ stored[task[w].user] = NoToken
     THEN ends(w) ELSE continues(w, "token")
  /\ UNCHANGED <<rows, tokens, resets>>

CheckCooldown(w) ==
  /\ at(w, "resend")
  /\ IF task[w].user \in cooldown THEN ends(w) ELSE continues(w, "token")
  /\ UNCHANGED <<rows, tokens, resets>>

\* A random token replaces the stored one; the mails sent before are void.
IssueToken(w) ==
  LET u == task[w].user
  IN  /\ at(w, "token")
      /\ \E t \in Token \ ({stored[u]} \cup {task[v].token : v \in Worker}) :
           /\ stored' = [stored EXCEPT ![u] = t]
           /\ task' = [task EXCEPT ![w].at = "cooldown", ![w].token = t]
      /\ delivered' = delivered \ {u}
      /\ UNCHANGED <<rows, cooldown, resets, aborts>>

StartCooldown(w) ==
  /\ at(w, "cooldown")
  /\ cooldown' = cooldown \cup {task[w].user}
  /\ continues(w, "mail")
  /\ UNCHANGED <<rows, stored, delivered, resets>>

\* A mail whose token has been replaced meanwhile helps nobody.
SendVerificationEmail(w) ==
  LET u == task[w].user
  IN  /\ at(w, "mail")
      /\ delivered' = IF stored[u] = task[w].token THEN delivered \cup {u} ELSE delivered
      /\ ends(w)
      /\ UNCHANGED <<rows, stored, cooldown, resets>>

-------------------------------------------------------------------------------
(* Verification.                                                            *)

\* consumeToken reads the key, compares, and deletes the key in another call.
VerifyEmail(w, u) ==
  /\ u \in delivered
  /\ begins(w, "consume", u)
  /\ UNCHANGED <<rows, tokens, resets>>

ConsumeToken(w) ==
  LET u == task[w].user
  IN  /\ at(w, "consume")
      /\ stored' = [stored EXCEPT ![u] = NoToken]
      /\ delivered' = delivered \ {u}
      /\ continues(w, "verify")
      /\ UNCHANGED <<rows, cooldown, resets>>

ReadVerifiedUser(w) ==
  LET u == task[w].user
  IN  /\ at(w, "verify")
      /\ IF exists(u) /\ users[u].status # "disabled"
         THEN /\ task' = [task EXCEPT ![w].at = "verified", ![w].status = users[u].status]
              /\ UNCHANGED aborts
         ELSE ends(w)
      /\ UNCHANGED <<rows, tokens, resets>>

\* Faulty variant: a verified user needs no approval.
nextStatusActive(status) == "active"

\* Faulty variant: a status that the table does not know.
nextStatusVerified(status) == IF status = "active" THEN "active" ELSE "verified"

nextStatus(status) == IF status = "active" THEN "active" ELSE "pending_approval"

\* users.update under VerifyEmailService: the status of the user read before.
WriteVerifiedUser(w) ==
  LET u == task[w].user
  IN  /\ at(w, "verified")
      /\ exists(u)
      /\ users' = [users EXCEPT ![u] =
           [status |-> nextStatus(task[w].status), verified |-> TRUE]]
      /\ verified' = verified \cup {u}
      /\ ends(w)
      /\ UNCHANGED <<staff, approved, tokens, resets>>

-------------------------------------------------------------------------------
(* The admin's decisions and the edits of the profile: users.update reads   *)
(* the row and writes every column of it.                                   *)

\* Faulty variant: an address nobody verified can be activated.
activatableUnverified(u) == exists(u)

activatable(u) ==
  /\ users[u].verified
  /\ users[u].status \in {"pending_approval", "disabled", "active"}

ActivateUser(w, u) ==
  /\ \E a \in User : requireOfficialAdmin(a)
  /\ activatable(u)
  /\ begins(w, "activate", u)
  /\ UNCHANGED <<rows, tokens, resets>>

DisableUser(w, u) ==
  /\ \E a \in User : requireOfficialAdmin(a)
  /\ exists(u) /\ users[u].status # "pending_verification"
  /\ begins(w, "disable", u)
  /\ UNCHANGED <<rows, tokens, resets>>

UpdateUserVanity(w, u) ==
  /\ \E a \in User : requireActiveUser(a) /\ a \in staff
  /\ exists(u)
  /\ begins(w, "edit", u)
  /\ UNCHANGED <<rows, tokens, resets>>

UpdateDisplayName(w, u) ==
  /\ requireActiveUser(u)
  /\ begins(w, "edit", u)
  /\ UNCHANGED <<rows, tokens, resets>>

\* The point after the row was read, by the point before.
written == [activate |-> "activated", disable |-> "disabled", edit |-> "edited"]

ReadRow(w) ==
  LET u == task[w].user
  IN  /\ task[w].at \in DOMAIN written
      /\ exists(u)
      /\ task' = [task EXCEPT ![w].at = written[task[w].at],
                              ![w].status = users[u].status,
                              ![w].verified = users[u].verified]
      /\ UNCHANGED <<rows, tokens, resets, aborts>>

\* Faulty variant: a status that is not given becomes active.
statusWrittenDefault(t) ==
  CASE t.at = "disabled" -> "disabled" [] OTHER -> "active"

\* input.status ?? existing.status
statusWritten(t) ==
  CASE t.at = "activated" -> "active"
    [] t.at = "disabled"  -> "disabled"
    [] t.at = "edited"    -> t.status

WriteRow(w) ==
  LET u == task[w].user
  IN  /\ task[w].at \in {"activated", "disabled", "edited"}
      /\ exists(u)
      /\ users' = [users EXCEPT ![u] =
           [status |-> statusWritten(task[w]), verified |-> task[w].verified]]
      /\ approved' = IF at(w, "activated") THEN approved \cup {u} ELSE approved
      /\ ends(w)
      /\ UNCHANGED <<staff, verified, tokens, resets>>

DeleteUser(w, u) ==
  /\ \E a \in User \ {u} : requireOfficialAdmin(a)
  /\ exists(u)
  /\ begins(w, "delete", u)
  /\ UNCHANGED <<rows, tokens, resets>>

\* Rows that refer to the user may forbid it: then it is a conflict.
DeleteRow(w) ==
  LET u == task[w].user
  IN  /\ at(w, "delete")
      /\ \/ /\ users' = [users EXCEPT ![u] = [status |-> "deleted", verified |-> FALSE]]
            /\ staff' = staff \ {u}
         \/ UNCHANGED <<users, staff>>
      /\ ends(w)
      /\ UNCHANGED <<approved, verified, tokens, resets>>

\* A write that finds no row any more throws.
RowIsGone(w) ==
  /\ task[w].at \in {"staff", "verified", "resetting", "activate", "disable", "edit",
                     "activated", "disabled", "edited"}
  /\ ~exists(task[w].user)
  /\ ends(w)
  /\ UNCHANGED <<rows, tokens, resets>>

-------------------------------------------------------------------------------
(* Passwords.                                                               *)

ForgotPassword(w, l) ==
  /\ requireActiveUser(LinkUser[l])
  /\ links[l] = "unissued"
  /\ begins(w, "forgot", LinkUser[l])
  /\ links' = [links EXCEPT ![l] = "stored"]
  /\ UNCHANGED <<rows, tokens, password, used>>

SendPasswordResetEmail(w) ==
  /\ at(w, "forgot")
  /\ links' = [l \in Link |-> IF links[l] = "stored" /\ LinkUser[l] = task[w].user
                              THEN "mailed" ELSE links[l]]
  /\ ends(w)
  /\ UNCHANGED <<rows, tokens, password, used>>

\* The link travels in the token field of the task.
ResetPassword(w, l) ==
  /\ links[l] = "mailed"
  /\ task[w] = idle
  /\ task' = [task EXCEPT ![w] =
       [idle EXCEPT !.at = "reset", !.user = LinkUser[l], !.token = l]]
  /\ UNCHANGED <<rows, tokens, resets, aborts>>

\* Faulty variant: the link is deleted after the password is written.
ConsumeResetTokenLater(w) ==
  /\ at(w, "reset")
  /\ continues(w, "target")
  /\ UNCHANGED <<rows, tokens, resets>>

ConsumeResetToken(w) ==
  /\ at(w, "reset")
  /\ links' = [links EXCEPT ![task[w].token] = "gone"]
  /\ continues(w, "target")
  /\ UNCHANGED <<rows, tokens, password, used>>

ReadResetTarget(w) ==
  /\ at(w, "target")
  /\ IF requireActiveUser(task[w].user) THEN continues(w, "resetting") ELSE ends(w)
  /\ UNCHANGED <<rows, tokens, resets>>

SetPasswordHash(w) ==
  LET u == task[w].user
      l == task[w].token
  IN  /\ at(w, "resetting")
      /\ exists(u)
      /\ password' = [password EXCEPT ![u] = l]
      /\ used' = [used EXCEPT ![l] = @ + 1]
      /\ ends(w)
      /\ UNCHANGED <<rows, tokens, links>>

-------------------------------------------------------------------------------
(* Time and failure.                                                        *)

\* A token lives 15 minutes: it outlives the request that mails it.
ExpireToken(u) ==
  /\ stored[u] # NoToken
  /\ \A w \in Worker : ~(task[w].user = u /\ task[w].at \in {"cooldown", "mail"})
  /\ stored' = [stored EXCEPT ![u] = NoToken]
  /\ delivered' = delivered \ {u}
  /\ UNCHANGED <<rows, cooldown, resets, task, aborts>>

ExpireCooldown(u) ==
  /\ u \in cooldown
  /\ cooldown' = cooldown \ {u}
  /\ UNCHANGED <<rows, stored, delivered, resets, task, aborts>>

ExpireLink(l) ==
  /\ links[l] \in {"stored", "mailed"}
  /\ links' = [links EXCEPT ![l] = "gone"]
  /\ UNCHANGED <<rows, tokens, password, used, task, aborts>>

Abort(w) ==
  /\ task[w] # idle
  /\ aborts < MaxAborts
  /\ aborts' = aborts + 1
  /\ task' = [task EXCEPT ![w] = idle]
  /\ UNCHANGED <<rows, tokens, resets>>

-------------------------------------------------------------------------------
\* The next statement of the request of w.
Step(w) ==
  \/ RegisterStaff(w) \/ CheckCooldown(w) \/ IssueToken(w) \/ StartCooldown(w)
  \/ SendVerificationEmail(w)
  \/ ConsumeToken(w) \/ ReadVerifiedUser(w) \/ WriteVerifiedUser(w)
  \/ ReadRow(w) \/ WriteRow(w) \/ DeleteRow(w) \/ RowIsGone(w)
  \/ SendPasswordResetEmail(w) \/ ConsumeResetToken(w) \/ ReadResetTarget(w)
  \/ SetPasswordHash(w)

Request(w, u) ==
  \/ Register(w, u) \/ ResendVerification(w, u) \/ VerifyEmail(w, u)
  \/ ActivateUser(w, u) \/ DisableUser(w, u) \/ DeleteUser(w, u)
  \/ UpdateUserVanity(w, u) \/ UpdateDisplayName(w, u)

Next ==
  \/ \E w \in Worker : Step(w) \/ Abort(w)
  \/ \E w \in Worker, u \in User : Request(w, u)
  \/ \E w \in Worker, l \in Link : ForgotPassword(w, l) \/ ResetPassword(w, l)
  \/ \E u \in User : ExpireToken(u) \/ ExpireCooldown(u)
  \/ \E l \in Link : ExpireLink(l)

\* A request that has begun goes on, a cooldown ends, and a pending user who
\* has no link asks again and clicks the links he gets.
Fairness ==
  /\ \A w \in Worker : WF_vars(Step(w))
  /\ \A u \in User :
       /\ WF_vars(ExpireCooldown(u))
       /\ SF_vars(\E w \in Worker : ResendVerification(w, u))
       /\ SF_vars(\E w \in Worker : VerifyEmail(w, u))

Spec == Init /\ [][Next]_vars /\ Fairness

-------------------------------------------------------------------------------
TypeOK ==
  /\ users \in [User -> [status : Status \cup {"absent", "deleted"}, verified : BOOLEAN]]
  /\ staff \subseteq Official
  /\ stored \in [User -> Token \cup {NoToken}]
  /\ cooldown \subseteq User /\ delivered \subseteq User
  /\ links \in [Link -> {"unissued", "stored", "mailed", "gone"}]
  /\ password \in [User -> Link \cup {"initial"}]
  /\ \A w \in Worker : task[w].user \in User \cup {NoUser}

\* Nobody is active by accident: through every interleaving of verifications,
\* approvals, suspensions and edits, each of which writes a status it read
\* earlier, an active user who is not official has clicked a mailed link and
\* has been activated by an admin.
ActiveWasApproved ==
  \A u \in User \ Official :
    /\ users[u].status = "active" => u \in approved
    /\ u \in approved \/ users[u].verified => u \in verified

\* The row agrees with that as long as requests do not overlap: an active user
\* has a verified address, however the requests before were interrupted.  (Of
\* two overlapping ones, an edit can write the old email_verified_at back
\* between the check and the write of an activation.)
ActiveIsVerified ==
  \A u \in User : users[u].status \in {"active", "pending_approval"} => users[u].verified

\* A suspension is lifted only by an admin, never by a verification, an edit or
\* a password reset, as long as requests do not overlap.
DisabledStaysDisabled ==
  [][\A u \in User :
       users[u].status = "disabled" /\ users'[u].status # "disabled" =>
         \/ users'[u].status = "deleted"
         \/ \E w \in Worker : task[w].at = "activated" /\ task[w].user = u]_vars

\* A reset link sets one password at most, even when the request that uses it
\* is interrupted and the user tries the link again.
LinksWorkOnce == \A l \in Link : used[l] <= 1

\* A registered user is not stuck: whatever mail was lost, token expired or
\* request interrupted, a pending user who keeps asking and clicking is
\* verified, or deleted.
PendingGetsVerified ==
  \A u \in User : users[u].status = "pending_verification" ~>
                    users[u].status # "pending_verification"
===============================================================================
