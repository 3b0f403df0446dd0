# A verified model of the Raid Tome ledger API

The repository is a Cloudflare Worker (Hono, TypeScript) that keeps the books of
gaming guilds: who took part in a raid, what the loot sold for, who is owed which
share, and which shares have been handed over. This directory holds TLA+ modules
translated from that code, TLC configurations that check them on small instances,
and proofs, checked by TLAPS, that hold for every instance.

Paths below are relative to `src/` of the repository's `src` directory unless they
start with `docs/`, `tests/` or `migrations/`.

## 1. The system

State lives in four places. D1 (SQLite) holds all tables; the code uses **no
transaction**: each repository call is one or two statements, and
`update(id, fields)` of every repository is a `SELECT` followed by an `UPDATE` of
*all* columns, which writes back what the `SELECT` saw for the columns not named.
Workers KV holds one-time tokens, cooldown stamps and dashboard snapshots. One
Durable Object serialises calls to Notion. Resend sends mail. Requests are
independent invocations: they interleave at every `await`, and one can stop
between any two statements.

| Component | State | Operations | Talks to | Hard part | What makes it correct |
|---|---|---|---|---|---|
| Status machines (`services/ledger/state-machines`) | none | `assertTransition` | the four lifecycles | repeating a request is always allowed | each column only moves along its machine |
| Event lifecycle | `events.status`, `event_participants` | create, edit, make ready, cancel, sync from settlements | settlements (reads their statuses) | the status is derived, at the moments somebody calls the sync | the status agrees with the settlements |
| Settlement lifecycle | `settlements.status`, `participant_exception_confirmed`, amounts | create draft, edit draft, calculate, start paying, mark paid, cancel, sync from allocations | event sync; allocations | `every` over no allocations is true | payout only over allocations; final means final |
| Allocation lifecycle | `settlement_allocations.status` | create, mark claimed, waive, cancel | settlement sync; participants | the participant rule is checked at insertion only | one row per character; a share is closed once |
| Claim lifecycle | `settlement_claims.status` | record, confirm, void | allocation, settlement | two tables that must agree, written one after the other | a share is claimed at most once, and is `claimed` exactly by a confirmed claim |
| Settle orchestration | none of its own | ready + draft + calculate + allocations, rollback | all four lifecycles | compensation after a failing statement | all or nothing, and retryable |
| Disbursement | none of its own | create or match allocations, then claim them all | settlement, allocation, claim | partial failure cannot be repeated | never more than the net amount |
| Batch dispatch | none of its own | record a list of claims | settlement, claim | partial failure | as the claim lifecycle |
| Ledger routes (`modules/ledger/route.ts`) | none | the HTTP surface, edit guards, participant exception, participant replacement | everything above | read, then act | edits only where the guard allows them |
| Ledger queries, dashboards | none | lists, workspaces, summaries, readiness | all ledger tables | four services ask the same tables with queries of their own | what is shown as possible is accepted |
| Snapshot cache | KV entries, 30 minutes | get, put, delete | dashboards | nothing invalidates an entry | bounded staleness |
| Organization membership | `organization_members`, pending actions | found, apply, invite, approve, accept, refuse, expire, leave, remove, appoint | characters, claim requests | a pending action outlives what it refers to | membership and pending action agree; one owner |
| Character claims | `characters.claimed_by_user_id`, claim requests | create, edit, delete, assign, unassign, request, accept, decline, cancel | membership | a request is accepted long after it was checked | nobody loses a character to somebody he did not agree with |
| Organization games and lists | `organization_games` | add, edit, remove, make primary; lists | membership, characters | two statements per change of the primary game; each list is a query of its own | a game stays; the lists add up |
| Auth tokens, user status | KV tokens, `users.status` | register, verify, resend, forgot, reset, approve, suspend, delete | mail, sessions | one-time tokens next to a row that every write rewrites whole | a link works once; nobody is active unapproved; a pending user can get on |
| Assets | `assets`, `asset_aliases` | create, detect duplicates, merge, trust, edit | events and settlements (which use them) | trust is computed from records read earlier; merge chains | exposure only after use; merged records resolve |
| Notion gateway | last-request stamp, promise queue | enqueue | Notion | `Retry-After` | requests are spaced |
| Games catalogue, system, application shell | catalogue tables | CRUD | - | none | out of scope |

`PROJECT.json` lists every component with its sources and status, and under
`hazards` each place where this code is hard to test.

## 2. What is modelled

### LedgerStatus
The status sets and the four machines of `services/ledger/state-machines`, as
relations. `assertTransition(machine, current, next)` is also true when
`current = next`, as in `shared.ts`: any status request may be repeated. A row not
yet inserted has the status `"absent"`, which no machine mentions.

### Ledger
The requests of the ledger, each executed without interleaving and without a
failing statement. There is one status variable per table, a function from row ids
to statuses, plus the event participants and the flag of the participant
exception. Foreign keys are written by the `INSERT` and by no `UPDATE` a route can
reach, so they are constants: `EventOf`, `SettlementOf`, `AllocationOf`, and the
beneficiary `CharacterOf`.

| Action | Code |
|---|---|
| `CreateEvent`, `UpdateEvent`, `UpdateEventStatus` | the event routes; `markReadyForSettlement`, `cancelEvent` |
| `CreateDraftSettlement` | `createDraftSettlement`: sync, check, insert, sync |
| `SettleEventWithAllocations`, `SettleRefused` | `settleEventWithAllocations`, and its refusals, which keep the leading sync |
| `UpdateSettlementStatus` | `markCalculated`, `startPaying`, `markPaid`, `cancelSettlement` |
| `CreatePendingAllocation`, `UpdateAllocationStatus` | `createPendingAllocation`, `waive`, `cancel`, each ending in the settlement sync |
| `RecordClaim`, `UpdateClaimStatus` | `recordClaim`, `confirmClaim`, `voidClaim` with everything they start |
| `RecordBatchClaim`, `BatchClaimRefused` | one item of `recordBatchClaims`, and an item refused after its draft was calculated |
| `DisburseSettlement`, `DisburseRefused` | `disburseSettlement`, and a refusal after the draft was calculated |

The helpers that take a status function as an argument (`listByEvent`,
`SyncedEventStatus`, ...) are the queries and derived values of the code; an
action applies them to the unprimed function where the code has not written yet
and to the primed one where it has. A sync that throws at the end of a request
leaves the earlier writes in place, as it does in the code.

Abstracted: amounts, weights, dates, titles, who is logged in, which organization
(there is one), and the `character_id` of the caller of a claim. A refusal that
writes nothing is not an action. `updateLedgerSettlementRoute` edits amounts only
and so changes nothing here; in `LedgerSteps`, where the status it writes back may
be out of date, it is `editSettlement`.

### Payout
What the ledger promises for one allocation, in three variables: who holds it,
whether it has been received, which claims are withdrawn. `Reserve`, `Receive` and
`Revoke` are its only steps.

### LedgerProperties, MCLedger, MCLedgerQueries, LedgerProofs
The invariants and action properties, and the refinement mapping to `Payout`; the
constants of the runs, and with amounts those of the read side; the proofs.

### LedgerSteps
The same requests statement by statement, sent by workers that act in any order. The
tables are the variables of `Ledger`. Each worker has a stack of activation records,
one per method in progress, because the methods call one another (a confirmation
reaches the event through the allocation and two methods of the settlement) and the
same method is reached from several places. `Begin` sends a request, `Step` executes
the next statement of the running method with the computation that follows it, `Fail`
makes the next statement throw without an effect (every write is one
`UPDATE ... RETURNING` or `INSERT ... RETURNING`, atomic in D1), and `Stop` ends the
worker, as the runtime may. `throw` unwinds to the innermost of the three `try` blocks
of the settle request. A request names the rows it inserts; since ids are assigned by
the `INSERT`, a statement that inserts is guarded by the absence of its row.
`RequestsAreWellFormed` says which requests the routes let through: the rows they name
have the kind the route expects, a settle request is made for an event, a list of claims
is not empty. `answer` is the worker's last request and how it ended: "ok",
"refused" (an `AppError` below 500), "failed", "rolled back" (the 503 of the settle
request) or "lost".

One operator per method holds its statements, named by the label in `at`: for
instance `voidClaim` reads the claim, writes it, reads the allocation, lists the
siblings and writes the allocation in five steps, then becomes a call of
`syncSettlement`. What a method has read is kept in its record until it uses it, so a
check is as old as it is in the code. Left out are statements that concern other
tables, the reads that only build the response, and the `SELECT` inside `update`
wherever the columns it carries are constant; the two edits, where it carries the
status, keep it.

### LedgerQueries, LedgerQueriesProofs and SettlementSplit
`LedgerQueries` is the read side over the variables of `Ledger`: the claimable
recipients, the claim and disbursement workspaces, the event page with its
settlement readiness, and the organization and character dashboards. Each operator is
one query with its `WHERE`, a row standing for its id; text filters, paging and labels
are left out. Amounts, payers and the member behind a character are constants, as no
route changes them after the `INSERT`.

`SettlementSplit` is `prepareRecipients`: from the recipients of a settle request to
the amount of each allocation, or a refusal. Lists of recipients are functions from
positions to records in which an amount or a weight may be `Unset`; what is computed
is exact integer arithmetic. `LedgerQueries` extends it for the two properties that tie
the event page to the division.

### LedgerAtomic
Relates the two levels. `committed` is the database as it was when last no worker was
inside a request, and `ImplementsLedger` says that it behaves as `Ledger`. It is
checked for one worker without faults: it ties every action of `Ledger` to the
statements it stands for, in particular what is left of a request that is refused
halfway. For two workers or with faults it is false, and what remains true there is
the subject of `LedgerStepsProperties`.

### LedgerStepsProperties, MCLedgerSteps, MCLedgerAtomic, LedgerStepsProofs, LedgerSequentialProofs, LedgerRequestsProofs
The properties of `LedgerSteps`, the requests that each run lets each worker send, and
the proofs of what survives every interleaving, of what failures leave true when
requests do not overlap, and of what the answers are worth then.

### Roster, Membership, CharacterClaims, OrganizationGames, RosterQueries, Organization, OrganizationProofs
One organization under all of its routes. `Roster` declares the tables and the
questions the routes ask of them; three modules hold the handlers, one holds the
lists, and `Organization` puts them together and states what must hold.

| Module | Actions or operators | Code |
|---|---|---|
| `Membership` | `CreateOrganization`, `ApplyMember`, `InviteMember`, `AddMember`, `ApproveMember`, `AcceptInvite`, `RejectMember`, `DeclineInvite`, `CancelMember`, `LeaveMember`, `RemoveMember`, `AppointAdmin`, `RemoveAdmin`, `PendingActionExpires` | the member routes and `OrganizationMembershipWorkflowService` |
| `CharacterClaims` | `CreateCharacter`, `UpdateCharacter`, `DeleteCharacter`, `AssignCharacter`, `UnassignCharacter`, `ClaimCharacter`, `CreateClaimRequest`, `AcceptClaimRequest`, `DeclineClaimRequest`, `CancelClaimRequest` | the character routes and `OrganizationCharacterClaimWorkflowService` |
| `OrganizationGames` | `CreateGame`, `UpdateGame`, `DeleteGame`, `SetPrimaryGame` | the game routes |
| `RosterQueries` | `AvailableCharacters`, `RosterCharacters`, `ActiveMembers`, `PendingMembers`, `Card`, ... | the list routes |

An action is a whole request of some `n` statements and keeps the first `k` of them:
`runs(k, n)` is `k = n`, or a stop half way, of which there are `MaxInterruptions`.
Two requests do not overlap here; the handlers are short and the races they have
(check, then write) are of the kind `LedgerSteps` studies. The passing of time is one
action, `PendingActionExpires`, which only marks the row, as in the code, where nothing
is cleared until somebody answers. A former member's claim requests, his old row and
the characters he leaves behind are all kept exactly as the statements leave them.

### MembershipLifecycle
What these routes promise about a user, whatever the characters and games: how far he
is in, in which role, and which door he came through. `Organization` implements it
under the mapping `KeepsLifecycle`, requests that stop half way included; the proof is
the last section of `OrganizationProofs`.

### Accounts and AccountsProofs
User accounts statement by statement. `users` holds the status and whether the email
is verified; `stored`, `cooldown` and `links` are the KV entries; `delivered` says
whose mailbox has the token that is stored. A worker runs one request, whose local
values are in `task`: `Register`, `ResendVerification`, `VerifyEmail`, `ForgotPassword`,
`ResetPassword`, `ActivateUser`, `DisableUser`, `DeleteUser` and the two edits of a
profile begin one, `Step` executes its next statement, `Abort` ends it early (also a
mail that is refused). KV entries expire by actions of their own. `users.update` is the
pair `ReadRow`, `WriteRow`: it writes every column back, which is how an edit of a
display name can undo an approval. A token is a model value and a guess is not made;
KV is taken as consistent. The token's lifetime (15 minutes) exceeds that of the
request that mails it, so it does not expire while a worker holds it.

### Assets and AssetsProofs
Asset records, their aliases, the merge into a canonical record and the trust that use
in the ledger earns. `CreateAsset`, `MergeAsset`, `CreateRecord` (an event or a
settlement that names an asset) and `UpdateAsset` (the PATCH of a manager) begin a
request on a worker, `Step` is the next statement of any; `RepointRecord`, which changes
the asset a record names, is an edit of one statement. `assetsRepository.update` is two
steps wherever it is called, its `SELECT` (`selects`) and its `UPDATE` of every column
(`updates`), which puts the row as it was read back with the changes in it: `SelectMerged`
and `MarkMerged` in a merge, `SelectTrusted` and `WriteTrust` in a recomputation,
`UpdateAsset` and `WriteEdit` in an edit. The row in between is part of `task`.
`ReadTrusted`, `CollectEvidence`, `SelectTrusted` and `WriteTrust` are `recomputeStatus`,
whose queries and one write may lie far apart. `redirected(a)` says that the code goes on from a
merged record to the one it names, `follow` is one such step, `seen(a)` are the records
the loop of `resolveCanonicalAsset` visits (the least set closed under `follow`), and
`canonical(a)` where it stops. `isVisibleForOrganization` and
`isSuggestibleForOrganization` are what another organization gets to see. No `Abort`
is needed: nothing is fair, so a request may stop by taking no further step.

## 3. What is checked

| Run | Instance | Question |
|---|---|---|
| `Ledger_shares` | one event, one settlement, two characters, three allocation rows (two for the same character), three claims, two of them rivals for one allocation | are claims exclusive, are shares the summary of their claims, does the ledger implement `Payout`; do the four read services show the same shares, and only claimable ones? |
| `Ledger_two_settlements` | one event, two settlements with one share and one claim each; net amounts up to 3, weights up to 2, up to three recipients | does the event status follow both, is the payout never empty, is a final status final; is what the event page offers accepted; does every division pay out the net amount but for the rounding? |
| `Steps_atomic` | one worker; 27 requests on one event with a settlement of two shares, and on a settlement without an event | do the statements of each request add up to the request of `Ledger`? |
| `Steps_faults` | one worker; 23 requests on one event; two faults | after failures and stops, does a retry claim nothing twice, does "ok" mean done, is "safe to retry" true? |
| `Steps_confirmations` | two workers; both calculate, start the payout and confirm either claim; claims are recorded on the draft or later, shares waived, the settlement marked paid | does the last of several overlapping requests that close shares complete settlement and event, and what else can lose the completion? |
| `Steps_rivals` | two workers; one settles, disburses and confirms, the other edits, pays, claims, voids and cancels; one fault | what survives every interleaving: payout only over allocations, `claimed` only after a confirmation |
| `Organization_members` | three users, two characters, one game | one owner, reservations and open requests that agree with members and characters, lists that add up, no character taken from its holder unasked, drafts that nobody else comes by and that go with their membership |
| `Organization_interrupted` | two users, one character, two games; one request stops half way | do members still move only along the lifecycle, and does an organization keep its games? |
| `Organization_holders` | two users, two characters | a statement of the documents: holders are active members. It is violated |
| `Accounts_one_by_one` | an official and a member, one worker, two tokens, one link, two stopped requests | verified before active, a suspension lasts, a link works once, and a pending user gets verified |
| `Accounts_overlapping` | the same accounts, two workers, four tokens, one stopped request | is nobody active unapproved, whatever overlaps? |
| `Assets` | two organizations, three users with a record each, three assets of one name in two games, two workers, one edit | exposure only after enough use; merged records lead to a live one |

`Organization_holders` ends in a counterexample, described in `findings`: a member
without a character leaves and accepts the claim request that was left open for him.

Eight more configurations show statements that the code breaks; each checks one
property and finds it violated. They document what the passing runs had to leave out
and are run by hand (`tlc -config X.cfg M`):

| Configuration | Module | What it shows |
|---|---|---|
| `Ledger_paid_with_pending` | `MCLedger` | a claim voided after its settlement was paid leaves a share that nobody can claim |
| `Ledger_cancelled_paid_out` | `MCLedger` | a claim recorded on a draft is confirmed after the settlement was cancelled |
| `Steps_settle_stuck` | `MCLedgerSteps` | a settle request that fails right after inserting its draft leaves the event blocked |
| `Steps_recorded_twice` | `MCLedgerSteps` | two overlapping requests record two claims for a share |
| `Steps_paid_reverts` | `MCLedgerSteps` | a late `startPaying` takes a paid settlement back to paying |
| `Steps_completion_lost` | `MCLedgerSteps` | a confirmation that fails after closing the share is not completed by repeating it |
| `Organization_drafts_deleted` | `MCOrganization` | the refusal of a pending member deletes the draft character that a manager has assigned to an active one |
| `Assets_merge_cycle` | `MCAssets` | two overlapping merges of two assets into each other close a cycle |

**Bounds.** Nothing in `Ledger` counts, so the state space is finite as it stands
and every run is exhaustive: ids are never reused because no route deletes a row.
Two rival claims and two settlements of one event are the smallest instances in
which exclusiveness and the derived event status can fail; a third of either adds
no new interaction, and the proofs remove the bound altogether. In `LedgerSteps` a
worker may send any number of requests; bounded are the workers (`Worker`: one for the
questions about faults, two for those about overlap, since each of the races found is
between two requests), the requests they choose from (`Requests`) and the faults
(`MaxFaults`: two, so that the rollback of a failed request can fail too; one where
requests also overlap). A cascade never holds more than a request's own items, so the
stacks need no bound.

`Organization` needs a bound on interruptions only; its requests are otherwise
unrestricted. Three users are what a reservation of one, a claim of another and a
manager's act take. `Organization_members` identifies states by `Visible`, which hides
what no later request can read (the old row of a former member, the columns of a
deleted character), and leaves out characters without a game (`WithGames`): there is
one game, so the column has no other meaning in that instance. `Organization_interrupted`
has two games and no such restriction. Users, characters and games are symmetric, as
the ownership is acquired in the behaviour.

`Accounts` bounds the tokens (two, one replaced by the other; four when two workers
issue them), one link, and `MaxAborts`. Two tokens are what a resend that overtakes an
older mail takes. A request that overlaps is one of two (`Worker`). `Assets` bounds
the edits, since an edit may set any status again and again, and the statuses a
manager may set by hand (`ByHand` is "active"): the route accepts "merged" from anybody
who may edit, which can close a chain by itself and is excluded. `ChangesOverlap` is
FALSE: creations, merges and edits of assets exclude one another, while recomputations of
trust, each an update of its own, overlap with everything. An edit has to be excluded as
well as a second merge: it may carry the row of a merged record, with its canonical
reference, past a recomputation that revives the record and a merge in the other
direction. One name is enough for duplicates, and two games separate the seeded unit.
`SettlementSplit` is finite by its three bounds; three recipients with weights
1 and 2 share amounts that divide evenly, leave one unit over or leave two, which is all
that three can leave; a longer list or a larger amount brings no other rule into play,
and `NobodyIsOverpaid` and `HeavierIsNotWorse` prove the two properties for any bounds.

**Deadlock** is checked for `LedgerSteps`, where it would be a method with no next
statement. It is not for `Ledger`, `Organization`, `Accounts` and `Assets`, which may come to
rest: when all ids are used and every row is in a final status no request has an
effect.

**Fairness.** In the ledger, the organization and the assets none is assumed and no
liveness property is stated: requests come from people, nothing in the code obliges
anybody to confirm a claim, and a worker may be stopped at any statement. "Eventually"
is replaced by what holds when a request is answered (`OkMeansDone`, `SafeToRetry`) and
by what no step may take away (`CompletionIsNotLost`: a settlement whose shares are closed
is paid, or some request is still about to pay it).

`Accounts` has one liveness property, `PendingGetsVerified`, because the code is built
for it: a mail may be lost, and the user may ask again. It assumes that a request that
has begun goes on or ends (the runtime drops no request silently; `Abort` covers those
it stops), that the cooldown entry ends (its KV lifetime is 60 seconds), and, strongly,
that a pending user who can ask for a mail infinitely often does so and that one who
has a link he can use infinitely often uses it: a token may expire and a cooldown may
stand in between, so weak fairness would demand nothing of him. `MaxAborts` makes the
interruptions finite, which the property needs.

**Mutants.** Beside each definition that is mutated stands the faulty variant with
the reason in its comment; `PROJECT.json` says which property each one breaks.

## 4. What is proved

Every theorem holds for any sets of rows, users, workers and so on, and for any
behaviour of the specification it names. The assumptions are those the modules state of
their constants, which TLC evaluates in the runs, and the hypotheses named below.

### The ledger, request by request (`LedgerProofs`)

For any foreign keys that satisfy `ForeignKeys`:

* `TypeCorrect`: `Spec => []TypeOK`;
* `LedgerInvariant`: `Spec => []IInv`, with `IInv == TypeOK /\ Inv`, from which
  `ClaimsAreExclusive`, `SharesFollowClaims`, `PaidResidue`, `PayoutOverShares` and
  `EventsFollowSettlements` follow;
* `FinalOutcomes`: `Spec => OutcomesAreFinal`;
* `LedgerImplementsPayout`: `Spec => Abstract!Spec`.

No single invariant is inductive by itself: that a pending share of a
paid settlement has a voided claim needs that a claimed share has a confirmed one,
which in turn needs that two claims of one share are never both live; that payout
has something to pay needs that a claim's allocation row exists. So `IInv` is the
conjunction of all of them with `ParentsExist` (a row's parent exists), which the
database enforces with foreign keys. The twenty-four requests are first reduced to
their *effect*: `ShareEffect` shows that a step either inserts rows (`Inserts`),
closes a share, confirms or voids a claim, or leaves both tables alone, and
`SettlementEffect` that settlement statuses only make `Progress`. Each invariant then
has one lemma over these few effects rather than over every request, and the
refinement maps `Inserts` to `Reserve`, a confirmation to `Receive` or a stutter, and
a voiding to `Revoke`.

### The ledger, statement by statement (`LedgerStepsProofs`)

For any number of workers, of requests in flight, of failed statements and of stopped
workers, under `ForeignKeys` and `RequestsAreWellFormed`:

* `PayoutsHaveAllocations`: `StepsSpec => []PayoutHasAllocations`;
* `ClaimedSharesWereConfirmed`: `StepsSpec => []ClaimedWasConfirmed`;
* `StepsInvariant`: `StepsSpec => []IInv`, from which they follow.

These are the promises that survive every interleaving, and they do because of the
order of two statements each: `startPaying` lists the allocations before it writes
"paying", `confirmClaim` writes the claim before it marks the share. Between the
statement that finds something out and the one that relies on it any number of others
may run, so the tables alone are not inductive. `StacksSound` therefore speaks of every
record of every stack, running or waiting: `knows` says that a record about to write a
payout has seen an allocation of its settlement, and one about to mark a share claimed
has a confirmed claim for it; the rest of `sound` gives the rows, lists and statuses a
point works with. The argument has three layers. `KnowledgeLasts`: a step under which no
allocation disappears and no confirmation is undone but by a withdrawal takes nothing
from what the *other* records know; one lemma per table shows this of its writes.
`BecomeIsSound`, `ReturnIsSound`, `ThrowIsSound` and `StoppedIsSound`: the four ways a
method goes on keep the stacks sound if the records they push are; a caught error too,
since the points of the settle request rely on their rows only. Then one lemma per
method shows that each statement writes what it may and pushes sound records.

### The ledger, one request after another (`LedgerSequentialProofs`)

Under the hypothesis `OneByOne` (there is one worker, as in `Steps_faults`, with any
number of requests after one another, failed statements and stops):

* `ClaimsStayExclusive`: `StepsSpec => []OneActiveClaim`. With two workers it is false
  (`Steps_recorded_twice`).

`recordClaim` lists the claims of the share, may start the payout, which is a request of
its own, and then inserts. `Sequential` adds to the invariant above that a record about
to write a claim lies under records of the start of the payout only
(`StacksUndisturbed`), and that what it has found out is still so (`checked`). A method
that is not part of that start cannot find such a record below it, so it is enough that
it pushes none (`Calm`); a caught error drops every such record, since the settle request
is not part of the start (`CalmWhenCaught`); the start itself writes no claim
(`UndisturbedOnTop`, `UndisturbedWhenReturned`).

### The ledger, what an answer is worth (`LedgerRequestsProofs`)

Under `OneByOne` again, with any number of failed statements and stops, of this request
and of the earlier ones:

* `OkIsTrue`: `StepsSpec => OkMeansDone`;
* `RetryIsSafe`: `StepsSpec => SafeToRetry`;
* `AnswersAreOwed`: `StepsSpec => []Answering`, from which both follow.

`Answering` says of a request under way that it is not answered, and what its stack, by
what the tables are, has still to do (`owed`). When the stack is empty nothing is owed,
so that everything the answer promises is done (`NothingOwed`). `owed` has one part for
each kind of request that promises something:

| Part | What it says | Its step |
|---|---|---|
| `confirming`, `voiding` | a single record is at one of the points of the method, with the writes that lie behind it done; or both writes are done, and what runs only derives statuses (`SyncPoint`) | `Confirmation`, `Withdrawal` |
| `dispatching` | every claim of the list is recorded, or some record of the stack owes it: it is in its list, or is the call that records it | `Dispatch` |
| `settling` | the nine phases of the settle request and its rollback, each with the shape of the stack and what is true of the settlement, its event and its shares | `Settling` |

The phases are `asking` (the settlements of the event are listed), `undrafted` (no
settlement is active), `drafted` (the draft is the only one), `calculated`, `allocating`
(each share is pending or on the stack), and after an error `rollingBack`, `cancelling`,
`resyncing` and `resynced`. A step leads from a phase to itself or a later one, or to an
answer. An error before `allocating` is the answer, since `workingSettlement` is not
assigned yet (`SettlingThrown`); after it, the settlement is calculated and nothing of it
claimed, so `cancelSettlement` accepts it, and only a fault prevents it. That "rolled
back" is true even if the second half of the rollback failed is `resynced`: the answer is
kept only once the event is back in `ready_for_settlement`, and a further sync computes
the same status (`SyncedWithoutAny`), whatever becomes of it. The argument about stacks is
in `Goes`, `ReturnsTo`, `ThrowsAway` and `ThrowsDown`, and one lemma per method
(`SyncStatusStays`, ...) says at which points it can leave the stack.

With two workers neither theorem holds: another request may void the claim, or make a
settlement of the same event, between two statements of this one.

### The read side (`LedgerQueriesProofs`)

From the invariant of `LedgerProofs`, for any amounts, payers and holders:

* `OffersAreClaimable`: `Spec => []OfferedSharesAreClaimable`. The lists test different
  columns; that they agree needs that a pending share has a settlement row at all.
* `DashboardsTell`: `Spec => []DashboardTellsThePayout`. The word shown comes from the
  claims, the status from the allocation: `OneActiveClaim` excludes "partial",
  `AllocationSummarisesClaims` ties "confirmed" to "claimed".
* `ReadinessIsTrue`: `Spec => []ReadinessIsHonest`. Readiness is computed from the
  status column as it is, the requests decide after a sync of it;
  `EventReflectsSettlements` says what the sync may change. What the two requests accept
  (`acceptsDraft`, `acceptsSettle`) is the guard of their actions, which do nothing else
  that could be disabled, and stands in the property for `ENABLED`.
* `OffersAddUp`: `Spec => []DisbursementOffersAddUp`, where every settlement has finitely
  many allocations. The amounts claimed of a share add up to those of its only live claim.
* `NobodyIsOverpaid` and `HeavierIsNotWorse`: `Spec => []SettledForItsNet` and
  `Spec => []SettledByWeight`, from `DivisionIsExact` and `DivisionIsFair` about
  `SettlementSplit`, for recipients, amounts and weights of any number and size: the
  division never gives out more than the net amount and loses less than one unit for each
  recipient, in each of the three modes.

The last three are about sums, whose definition (`MapThenSumSet` of the community modules)
recurses over the subsets of a set. The induction theorems of the library take an operator
as a parameter; in their place `MinimalSet` takes a minimal counterexample from
`FS_StrictSubsetOrderingWellFounded` and `WFMin`, which do not. From it follow that the
recursion has exactly one solution (`SumExists`, `SumUnique`), that the order in which
elements are added does not matter (`SumWithout`), that sums grow (`SumGrows`), and what
rounding down every term takes from a sum (`SumRoundedDown`).

### Organizations (`OrganizationProofs`)

For any users, characters and games and any number of requests that stop half way, under
`NoneIsNoUser`, `NoneIsNoAction` and `InterruptionsAreBounded`:

* `TypeCorrect`: `Spec => []TypeOK`;
* `OwnerIsUnique`: `Spec => []ExactlyOneOwner`, from `OwnerLeads`: the owner is active
  and there is one as soon as there is a manager, so that a foundation that stopped
  before its owner leaves an organization nobody can manage, not one with a second owner;
* `PendingMembersHaveReservations` and `RequestsAskForTransfers`: `Spec =>` always
  `PendingHasReservation`, `OpenRequestsAreTransfers`. Neither is inductive alone: a
  character that is created must be named by no request yet, and a founder must have no
  pending action. `IInv` joins them with `TypeOK`, `CharactersExist` (what a request or a
  reservation names was created), `Unfounded` (nothing is there before the foundation)
  and `OwnerLeads`;
* `TransfersAreRequested`: `Spec => NoSilentTransfer`, and `DraftsAreSettled`:
  `Spec => DraftsLeaveTheRoster`, the two action properties. The second follows a draft
  from its creation: `MemberStepTakes` and `CharacterStepTakes` say who may become the
  holder of a character that is reserved, which is where `PendingHasReservation`
  (approvals claim the draft of their own member) and `OpenRequestsAreTransfers` (no
  request is open on a character nobody holds) are needed;
* `GamesStayListed`: `Spec => []GamesAreKept`;
* `OffersCanBeReserved`: `Spec => []OfferedCanBeReserved`, which compares a query and a
  guard over the same tables and needs no invariant;
* `ListsAgree`: `Spec => []ListsAddUp`, for finite sets of users and characters, as the
  lists are counted: the reserved characters inject into the pending members;
* `MembersFollowLifecycle`: `Spec => KeepsLifecycle`, the refinement of
  `MembershipLifecycle`. Every prefix of every request is a move of one user, an opening
  or shutting of his door, or a stutter; `MovesOne`, `DoorOpens`, `DoorShuts` and
  `MovesNobody` turn what a request does to one row into the abstract step.

Several routes share a handler, so the proofs group the requests by what they do
(`MemberStep`, `CharacterStep`, `GamesNext`) and first say, for each, what it does to the
one row it touches.

### Accounts (`AccountsProofs`)

For any users, officials, workers, tokens, links and aborted requests:

* `TypeCorrect`: `Spec => []TypeOK`, which needs a type of the requests (`TasksOK`): what
  a step writes comes from its request;
* `ActivationsAreApproved`: `Spec => []ActiveWasApproved`, whatever overlaps, from
  `Provenance`: a request that carries "active" has read it from a row that had been
  approved, or is an approval.

Under the hypothesis `OneByOne` (there is one worker, any number of requests after one
another, aborted or not), from `Sequential`, which adds that the request's values agree
with the row it will write back (`InStep`) and that a link's token is spent with it:

* `ActiveUsersAreVerified`: `Spec => []ActiveIsVerified`;
* `ResetLinksWorkOnce`: `Spec => []LinksWorkOnce`;
* `SuspensionsHold`: `Spec => DisabledStaysDisabled`.

Section 5 says why the last two are false without the hypothesis.

### Assets (`AssetsProofs`)

For any assets, records, organizations, games and names:

* `TypeCorrect`: `Spec => []TypeOK`;
* `ExposureIsControlled`: `Spec => []ControlledExposure`, whatever overlaps, from
  `Exposure`: every status a row has, and every status a request is about to write, was
  earned by use; `EarnedStays` because use is never taken back, `EvidenceEarns` because a
  count over fewer users earns no more;
* `ReferencesResolve`: `~ChangesOverlap`, `"merged" \notin ByHand` imply
  `Spec => []OldReferencesResolve`. Both hypotheses are needed: without the first two
  merges, or a merge and an edit, close a cycle (`Assets_merge_cycle`), without the second
  a manager can. Recomputations overlap without a hypothesis: the status they write back
  was not "merged" when they began, so whatever row they put back ends a chain. That a
  chain ends is an induction over its length, which is out of reach as such; `Chains`
  says instead that the least set closed under `follow` (`Walk`) contains a record that
  is not merged, and the lemmas on `Walk` show how it changes with one link.

### Only model-checked

* `Accounts`: `PendingGetsVerified` is a liveness property under fairness, out of this
  prover's reach.
* `LedgerSteps`: that the statements of a request add up to the request of `Ledger`
  (`ImplementsLedger`, one worker, no faults), which needs for every request what its
  statements leave of each table at each point, refusals half way included; and
  `CompletionIsNotLost` for two workers and the requests of `Steps_confirmations`.

## 5. What the models show of the code

Beyond the findings, these are behaviours of the code that the properties had to be
stated around. A reader who changes the code should know them.

* **Ledger.** A claim for part of a share takes the whole share off the claimable
  lists, but the rest of it is still offered for disbursement, where it is refused. A
  settlement with a waived share is refused by the disburse route for good, although
  its workspace does not show the waived share. A share of amount 0 can be claimed and
  is not offered for disbursement. Amounts given for some recipients of a settle
  request only are ignored without a word, and amounts given for all of them are used
  in every mode.
* **Settlement completion.** Claims may be recorded and confirmed while their settlement
  is a draft. When it is calculated after its last share was closed, nothing looks at the
  shares again, and it stays calculated until somebody edits a status by hand. In the
  payout of claims recorded on a draft every confirmation runs `startPaying` itself, and
  one that has read "calculated" writes "paying" over the "paid" of another
  (`settlement-lifecycle-service.ts:240` and `155`), which no confirmation corrects. An
  event that was set to ready by hand takes no notice of its last settlement being paid.
* **Organization.** A draft character can be assigned to an active member while the
  membership it was made for is pending; when that membership is refused, cancelled or
  expires, the character is deleted (`releasePendingCharacter`) although somebody holds
  it, which `docs/org-member-management-v1.md:448` says not to do
  (`Organization_drafts_deleted`). Accepting a claim request asks nothing about its target again: he
  may have left, or hold another character by now. A draft deleted by hand makes the
  refusal, the cancellation and the expiry of its membership fail for ever. The edit
  of a game writes `isPrimary` before it checks that another game is primary.
* **Accounts.** Two overlapping resets spend one link twice, and an overlapping edit or
  verification lifts a suspension, so `LinksWorkOnce` and `DisabledStaysDisabled` are
  claimed for requests one by one only. An official whose registration stops between
  its two inserts is active without a staff row for ever. A refused mail locks the
  user out for a minute.
* **Assets.** Every update writes back the whole row it has read: an edit of the name that
  overlaps two merges and a recomputation closes a cycle of merged records, and an edit or
  recomputation that overlaps a merge can undo it. Creating an event or a settlement does not check whose asset it names.
  The global default unit becomes a candidate again when one organization uses it. A
  rename adds no alias, so that the name is lost with a merge, which
  `docs/layer/assets-strategy/identity-resolution.md` says is preserved. The event route reads
  the asset it names without resolving a merged reference.

## 6. What is not modelled, and the plan

Left out for good: authorization beyond the guards of the requests, validation of
bodies, OpenAPI documents, cookies, JWT and password hashing (stateless), the mail
client, profiles and vanity columns, staff roles other than admin, the games catalogue
(CRUD), name normalization of assets (a name is its normalized form), the Notion gateway
(nothing calls it, its routes answer 501), the `modules/dashboard` placeholder (501).

Not modelled because it would need an assumption the code does not make: eventual
consistency of KV (the code relies on reads that see the last write), and the snapshot
cache (nothing invalidates it and nothing relies on it; its 30 minutes are all it
promises). Amounts in flight, where two overlapping disbursements together exceed the
net amount, are not added up: `LedgerSteps` shows the two of them inserting their
allocations.

Worth proving next, in this order:

1. `ImplementsLedger` for one worker: `owed` of `LedgerRequestsProofs` says what a request
   has still to do; the refinement needs in its place what it has done since it began.
2. `CompletionIsNotLost`, for any number of workers: each request that closes a share
   lists the allocations after it has written its own, so that one of them has the complete
   list before it; `completes` says which record of a stack still answers for it.
