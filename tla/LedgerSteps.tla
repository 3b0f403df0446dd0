----------------------------- MODULE LedgerSteps -----------------------------
(***************************************************************************)
(* The requests of Ledger statement by statement.  There is no transaction:*)
(* a worker executes one database statement at a time, other workers act   *)
(* in between, a statement can fail, and a worker can be stopped.          *)
(*                                                                         *)
(* A worker has a stack of activation records.  "at" names the statement a *)
(* method executes next, or the point it is resumed at when the method it  *)
(* called returns; "id" is the row it was called for; "kept" and "got" are *)
(* its local variables, a value it has read and the value returned to it;  *)
(* "rest" is the list of items it has been given.  A step is one statement *)
(* with the computation up to the next one.  Statements that only concern  *)
(* other tables (characters, assets) or the response are left out, except  *)
(* the trust recomputation at the end of createDraftSettlement.            *)
(*                                                                         *)
(* Requests gives each worker the requests it may send; those the routes   *)
(* reject by their form, such as a disbursement to nobody, are not sent.   *)
(* A request names the rows it inserts: ids are assigned by the INSERT     *)
(* (AUTOINCREMENT), so it inserts none that is there by then.              *)
(***************************************************************************)
EXTENDS Ledger, Naturals, Sequences

LOCAL INSTANCE SequencesExt

CONSTANTS Worker, Requests, MaxFaults

VARIABLES
  stack,    \* per worker, its activation records, the running one first
  answer,   \* per worker, its last request and the outcome
  faults    \* failed statements and stopped workers so far

stepVars == <<vars, stack, answer, faults>>

-------------------------------------------------------------------------------
(* Control.                                                                 *)

call(at, id) == [at |-> at, id |-> id, got |-> "none", kept |-> "none", rest |-> <<>>]

request(at, id, rest) == [call(at, id) EXCEPT !.rest = rest]

top(w) == Head(stack[w])

\* What the routes let through.  The rows a request names are in the database,
\* or inserted by it; a settle request is made for an event.
wellFormed(r) ==
  /\ r = request(r.at, r.id, r.rest)
  /\ \/ /\ r.at \in {"createEvent", "editEvent"}
        /\ r.id \in Event /\ r.rest \in Seq(Character)
     \/ r.at \in {"markReady", "cancelEvent"} /\ r.id \in Event /\ r.rest = <<>>
     \/ r.at = "createSettlement" /\ r.id \in Settlement /\ r.rest \in Seq(Character)
     \/ /\ r.at \in {"editSettlement", "markCalculated", "startPaying", "markPaid",
                     "cancelSettlement"}
        /\ r.id \in Settlement /\ r.rest = <<>>
     \/ /\ r.at = "settle"
        /\ r.id \in Settlement /\ EventOf[r.id] # NoEvent /\ r.rest \in Seq(Allocation)
     \/ /\ r.at \in {"createAllocation", "waive", "cancelAllocation"}
        /\ r.id \in Allocation /\ r.rest = <<>>
     \/ /\ r.at \in {"recordClaim", "confirmClaim", "voidClaim"}
        /\ r.id \in Claim /\ r.rest = <<>>
     \/ r.at = "batch" /\ r.id = "all" /\ r.rest \in Seq(Claim) \ {<<>>}
     \/ r.at = "disburse" /\ r.id \in Settlement /\ r.rest \in Seq(Claim) \ {<<>>}

ASSUME RequestsAreWellFormed == \A w \in Worker : \A r \in Requests[w] : wellFormed(r)

\* The running method goes on as the given records: it may have become the
\* point it resumes at, below the methods it calls.
become(w, records) ==
  /\ stack' = [stack EXCEPT ![w] = records \o Tail(@)]
  /\ UNCHANGED answer

goto(w, at) == become(w, <<[top(w) EXCEPT !.at = at]>>)

keep(w, value, at) == become(w, <<[top(w) EXCEPT !.at = at, !.kept = value]>>)

return(w, value) ==
  LET callers == Tail(stack[w])
  IN  IF callers = <<>>
      THEN /\ stack' = [stack EXCEPT ![w] = <<>>]
           /\ answer' = [answer EXCEPT ![w].is = "ok"]
      ELSE /\ stack' = [stack EXCEPT
                ![w] = <<[Head(callers) EXCEPT !.got = value]>> \o Tail(callers)]
           /\ UNCHANGED answer

\* The three try blocks of the settle request, by the point they resume at,
\* and where their catch blocks begin.
catch ==
  [at \in {"settle.allocated", "settle.cancelled", "settle.resynced"} |->
     CASE at = "settle.allocated" -> "settle.rollback"
       [] at = "settle.cancelled" -> "settle.resync"
       [] at = "settle.resynced"  -> "settle.resynced"]

\* The records that are left when the n-th of them catches an error.
caughtAt(n, records, error) ==
  <<[records[n] EXCEPT !.at = catch[@], !.got = error]>>
    \o SubSeq(records, n + 1, Len(records))

\* An error leaves every method up to the innermost try block.  It is "refused"
\* for an AppError below 500 and "failed" for any other.
throw(w, error) ==
  LET catching == {n \in DOMAIN stack[w] : stack[w][n].at \in DOMAIN catch}
  IN  \/ /\ catching = {}
         /\ stack' = [stack EXCEPT ![w] = <<>>]
         /\ answer' = [answer EXCEPT ![w].is = error]
      \/ \E innermost \in catching :
           /\ \A n \in catching : innermost <= n
           /\ stack' = [stack EXCEPT ![w] = caughtAt(innermost, @, error)]
           /\ UNCHANGED answer

\* The points that execute no statement of their own.
resumption ==
  {"settleEvent.ready", "settle.calculated", "settle.allocated", "settle.rollback",
   "settle.cancelled", "settle.resync", "settle.resynced"}

-------------------------------------------------------------------------------
(* Statements that write.                                                   *)

writeEvent(e, status) ==
  /\ eventStatus' = [eventStatus EXCEPT ![e] = status]
  /\ UNCHANGED <<participants, settlementStatus, exceptionConfirmed,
                 allocationStatus, claimStatus>>

writeParticipants(e, P) ==
  /\ participants' = [participants EXCEPT ![e] = P]
  /\ UNCHANGED <<eventStatus, settlementStatus, exceptionConfirmed,
                 allocationStatus, claimStatus>>

writeSettlement(s, status) ==
  /\ setSettlement(s, status)
  /\ UNCHANGED <<eventStatus, participants, exceptionConfirmed,
                 allocationStatus, claimStatus>>

writeAllocation(a, status) ==
  /\ allocationStatus' = [allocationStatus EXCEPT ![a] = status]
  /\ UNCHANGED <<eventStatus, participants, settlementStatus,
                 exceptionConfirmed, claimStatus>>

writeClaim(c, status) ==
  /\ claimStatus' = [claimStatus EXCEPT ![c] = status]
  /\ UNCHANGED <<eventStatus, participants, settlementStatus,
                 exceptionConfirmed, allocationStatus>>

reads == UNCHANGED vars

-------------------------------------------------------------------------------
(* Events.                                                                  *)

syncStatus(w) ==
  LET f == top(w)
  IN  \/ /\ f.at = "syncEvent"
         /\ reads
         /\ IF eventStatus[f.id] = "absent" THEN throw(w, "refused")
            ELSE keep(w, eventStatus[f.id], "syncEvent.list")
      \/ /\ f.at = "syncEvent.list"
         /\ reads
         /\ LET next     == SyncedEventStatus(f.kept, settlementStatus, f.id)
                anyUnpaid == \E s \in activeSettlements(settlementStatus, f.id) :
                               settlementStatus[s] # "paid"
            IN  IF f.kept = "open" /\ anyUnpaid THEN throw(w, "refused")
                ELSE IF next = f.kept THEN return(w, next)
                ELSE keep(w, next, "event.write")
      \/ /\ f.at = "event.write"
         /\ writeEvent(f.id, f.kept)
         /\ return(w, f.kept)

eventTarget ==
  [at \in {"markReady", "cancelEvent"} |->
     IF at = "markReady" THEN "ready_for_settlement" ELSE "cancelled"]

moveEvent(w) ==
  LET f == top(w)
  IN  /\ f.at \in DOMAIN eventTarget
      /\ reads
      /\ IF assertTransition(eventStateMachine, eventStatus[f.id], eventTarget[f.at])
         THEN keep(w, eventTarget[f.at], "event.write")
         ELSE throw(w, "refused")

\* The edit checks the status in one SELECT and writes back the one of another.
\* One that gives no participants ends with that write; those sent here give them.
editEvent(w) ==
  LET f == top(w)
  IN  \/ /\ f.at = "createEvent" /\ eventStatus[f.id] = "absent"
         /\ writeEvent(f.id, "open")
         /\ goto(w, "participants.delete")
      \/ /\ f.at = "editEvent"
         /\ reads
         /\ IF eventStatus[f.id] \in {"open", "ready_for_settlement"}
            THEN goto(w, "editEvent.read") ELSE throw(w, "refused")
      \/ /\ f.at = "editEvent.read"
         /\ reads
         /\ keep(w, eventStatus[f.id], "editEvent.write")
      \/ /\ f.at = "editEvent.write"
         /\ writeEvent(f.id, f.kept)
         /\ goto(w, "participants.delete")

replaceEventParticipants(w) ==
  LET f == top(w)
  IN  \/ /\ f.at = "participants.delete"
         /\ writeParticipants(f.id, {})
         /\ IF f.rest = <<>> THEN return(w, "done") ELSE goto(w, "participants.insert")
      \/ /\ f.at = "participants.insert"
         /\ writeParticipants(f.id, participants[f.id] \cup {Head(f.rest)})
         /\ IF Len(f.rest) = 1 THEN return(w, "done")
            ELSE become(w, <<[f EXCEPT !.rest = Tail(@)]>>)

-------------------------------------------------------------------------------
(* Settlements.                                                             *)

exceptionNeeded(s, R) == IF participantException(s, R) THEN "exception" ELSE "plain"

\* Faulty variant: the event is not synchronised after the INSERT.
createDraftSettlementUnsynced(w) ==
  LET f == top(w)
  IN  \/ /\ f.at = "createSettlement"
         /\ reads
         /\ keep(w, "plain", "createDraft.insert")
      \/ /\ f.at = "createDraft.insert" /\ settlementStatus[f.id] = "absent"
         /\ writeSettlement(f.id, "draft")
         /\ goto(w, "createDraft.trust")
      \/ /\ f.at = "createDraft.trust"
         /\ reads
         /\ return(w, "draft")

\* "kept" carries the participant exception from the route's check to the INSERT.
createDraftSettlement(w) ==
  LET f == top(w)
      e == EventOf[f.id]
  IN  \/ /\ f.at = "createSettlement"
         /\ reads
         /\ IF e = NoEvent THEN keep(w, "plain", "createDraft.insert")
            ELSE LET record == [f EXCEPT !.at = "createDraft.insert",
                                         !.kept = exceptionNeeded(f.id, ToSet(f.rest))]
                 IN  become(w, <<call("syncEvent", e), record>>)
      \/ /\ f.at = "createDraft.insert"
         /\ IF e # NoEvent /\ f.got \notin {"ready_for_settlement", "partially_settled"}
            THEN reads /\ throw(w, "refused")
            ELSE /\ settlementStatus[f.id] = "absent"
                 /\ setSettlement(f.id, "draft")
                 /\ exceptionConfirmed' =
                      [exceptionConfirmed EXCEPT ![f.id] = (f.kept = "exception")]
                 /\ UNCHANGED <<eventStatus, participants, allocationStatus, claimStatus>>
                 /\ IF e = NoEvent THEN goto(w, "createDraft.trust")
                    ELSE become(w, <<call("syncEvent", e),
                                     [f EXCEPT !.at = "createDraft.trust"]>>)
      \/ /\ f.at = "createDraft.trust"
         /\ reads
         /\ return(w, "draft")

\* markPaid and cancelSettlement end with the sync of the event.
writeSettlementStatus(w) ==
  LET f == top(w)
      e == EventOf[f.id]
  IN  /\ f.at = "settlement.write"
      /\ writeSettlement(f.id, f.kept)
      /\ IF f.kept \in {"paid", "cancelled"} /\ e # NoEvent
         THEN become(w, <<call("syncEvent", e)>>)
         ELSE return(w, f.kept)

markCalculated(w) ==
  LET f == top(w)
  IN  /\ f.at = "markCalculated"
      /\ reads
      /\ IF assertTransition(settlementStateMachine, settlementStatus[f.id], "calculated")
         THEN keep(w, "calculated", "settlement.write") ELSE throw(w, "refused")

\* Faulty variant: the allocations are not counted.
startPayingUnchecked(w) ==
  /\ top(w).at = "startPaying"
  /\ reads
  /\ IF assertTransition(settlementStateMachine, settlementStatus[top(w).id], "paying")
     THEN keep(w, "paying", "settlement.write") ELSE throw(w, "refused")

startPaying(w) ==
  LET f == top(w)
  IN  \/ /\ f.at = "startPaying"
         /\ reads
         /\ IF assertTransition(settlementStateMachine, settlementStatus[f.id], "paying")
            THEN goto(w, "startPaying.list") ELSE throw(w, "refused")
      \/ /\ f.at = "startPaying.list"
         /\ reads
         /\ IF listBySettlement(allocationStatus, f.id) = {} THEN throw(w, "refused")
            ELSE keep(w, "paying", "settlement.write")

\* markPaid reads the allocations before the settlement, cancelSettlement after it.
markPaid(w) ==
  LET f == top(w)
  IN  \/ /\ f.at = "markPaid"
         /\ reads
         /\ keep(w, IF allTerminal(allocationStatus, f.id) THEN "terminal" ELSE "pending",
                 "markPaid.read")
      \/ /\ f.at = "markPaid.read"
         /\ reads
         /\ IF /\ assertTransition(settlementStateMachine, settlementStatus[f.id], "paid")
               /\ f.kept = "terminal"
            THEN keep(w, "paid", "settlement.write") ELSE throw(w, "refused")

cancelSettlement(w) ==
  LET f == top(w)
  IN  \/ /\ f.at = "cancelSettlement"
         /\ reads
         /\ IF settlementStatus[f.id] = "absent" THEN throw(w, "refused")
            ELSE keep(w, settlementStatus[f.id], "cancelSettlement.list")
      \/ /\ f.at = "cancelSettlement.list"
         /\ reads
         /\ IF /\ assertTransition(settlementStateMachine, f.kept, "cancelled")
               /\ \A a \in listBySettlement(allocationStatus, f.id) :
                    allocationStatus[a] # "claimed"
            THEN keep(w, "cancelled", "settlement.write") ELSE throw(w, "refused")

syncSettlement(w) ==
  LET f == top(w)
  IN  \/ /\ f.at = "syncSettlement"
         /\ reads
         /\ IF settlementStatus[f.id] \in {"draft", "cancelled"} THEN return(w, "done")
            ELSE keep(w, settlementStatus[f.id], "syncSettlement.list")
      \/ /\ f.at = "syncSettlement.list"
         /\ reads
         /\ LET start == IF f.kept = "calculated" THEN <<call("startPaying", f.id)>> ELSE <<>>
                pay   == IF allTerminal(allocationStatus, f.id)
                         THEN <<call("markPaid", f.id)>> ELSE <<>>
            IN  IF \/ listBySettlement(allocationStatus, f.id) = {}
                   \/ start \o pay = <<>>
                THEN return(w, "done") ELSE become(w, start \o pay)

\* Like the edit of an event, it writes back a status it has read: that of a draft.
editSettlement(w) ==
  LET f == top(w)
  IN  \/ /\ f.at = "editSettlement"
         /\ reads
         /\ IF settlementStatus[f.id] = "draft" THEN goto(w, "editSettlement.list")
            ELSE throw(w, "refused")
      \/ /\ f.at = "editSettlement.list"
         /\ reads
         /\ IF listBySettlement(allocationStatus, f.id) = {}
            THEN goto(w, "editSettlement.read") ELSE throw(w, "refused")
      \/ /\ f.at = "editSettlement.read"
         /\ reads
         /\ keep(w, settlementStatus[f.id], "settlement.restore")
      \/ /\ f.at = "settlement.restore"
         /\ writeSettlement(f.id, f.kept)
         /\ return(w, "done")

-------------------------------------------------------------------------------
(* Allocations.                                                             *)

\* A violated UNIQUE constraint is an error of the database, not a refusal.
createPendingAllocation(w) ==
  LET f == top(w)
      s == SettlementOf[f.id]
  IN  \/ /\ f.at = "createAllocation"
         /\ reads
         /\ IF settlementStatus[s] \in {"absent", "paid", "cancelled"} THEN throw(w, "refused")
            ELSE IF CharacterOf[f.id] = NoCharacter \/ EventOf[s] = NoEvent
                      \/ exceptionConfirmed[s]
                 THEN goto(w, "createAllocation.insert")
                 ELSE goto(w, "createAllocation.participants")
      \/ /\ f.at = "createAllocation.participants"
         /\ reads
         /\ IF CharacterOf[f.id] \in participants[EventOf[s]]
            THEN goto(w, "createAllocation.insert") ELSE throw(w, "refused")
      \/ /\ f.at = "createAllocation.insert"
         /\ IF uniqueCharacters(allocationStatus, s, {f.id})
            THEN /\ allocationStatus[f.id] = "absent"
                 /\ writeAllocation(f.id, "pending") /\ return(w, "pending")
            ELSE reads /\ throw(w, "failed")

allocationTarget ==
  [at \in {"markClaimed", "waive", "cancelAllocation"} |->
     CASE at = "markClaimed" -> "claimed" [] at = "waive" -> "waived"
       [] at = "cancelAllocation" -> "cancelled"]

\* Faulty variant: the settlement is synchronised before the share is written.
closeShareSyncedFirst(w) ==
  LET f == top(w)
  IN  \/ /\ f.at \in DOMAIN allocationTarget
         /\ reads
         /\ IF assertTransition(allocationStateMachine, allocationStatus[f.id],
                                allocationTarget[f.at])
            THEN become(w, <<call("syncSettlement", SettlementOf[f.id]),
                             [f EXCEPT !.at = "allocation.write",
                                       !.kept = allocationTarget[f.at]]>>)
            ELSE throw(w, "refused")
      \/ /\ f.at = "allocation.write"
         /\ writeAllocation(f.id, f.kept)
         /\ return(w, f.kept)

closeShare(w) ==
  LET f == top(w)
  IN  \/ /\ f.at \in DOMAIN allocationTarget
         /\ reads
         /\ IF assertTransition(allocationStateMachine, allocationStatus[f.id],
                                allocationTarget[f.at])
            THEN keep(w, allocationTarget[f.at], "allocation.write") ELSE throw(w, "refused")
      \/ /\ f.at = "allocation.write"
         /\ writeAllocation(f.id, f.kept)
         /\ become(w, <<call("syncSettlement", SettlementOf[f.id])>>)

-------------------------------------------------------------------------------
(* Claims.                                                                  *)

\* Faulty variant: the other claims of the allocation are not looked at.
recordClaimUnchecked(w) ==
  LET f == top(w)
      s == SettlementOf[AllocationOf[f.id]]
  IN  \/ /\ f.at = "recordClaim"
         /\ reads
         /\ IF allocationStatus[AllocationOf[f.id]] = "pending"
            THEN goto(w, "recordClaim.settlement") ELSE throw(w, "refused")
      \/ /\ f.at = "recordClaim.settlement"
         /\ reads
         /\ IF settlementStatus[s] = "calculated"
            THEN become(w, <<call("startPaying", s), [f EXCEPT !.at = "recordClaim.insert"]>>)
            ELSE goto(w, "recordClaim.insert")
      \/ /\ f.at = "recordClaim.insert" /\ claimStatus[f.id] = "absent"
         /\ writeClaim(f.id, "recorded")
         /\ return(w, "recorded")

recordClaim(w) ==
  LET f == top(w)
      a == AllocationOf[f.id]
      s == SettlementOf[a]
  IN  \/ /\ f.at = "recordClaim"
         /\ reads
         /\ IF allocationStatus[a] = "pending" THEN goto(w, "recordClaim.settlement")
            ELSE throw(w, "refused")
      \/ /\ f.at = "recordClaim.settlement"
         /\ reads
         /\ IF settlementStatus[s] \in {"cancelled", "paid"} THEN throw(w, "refused")
            ELSE keep(w, settlementStatus[s], "recordClaim.claims")
      \/ /\ f.at = "recordClaim.claims"
         /\ reads
         /\ IF activeClaims(claimStatus, a) # {} THEN throw(w, "refused")
            ELSE IF f.kept = "calculated"
                 THEN become(w, <<call("startPaying", s),
                                  [f EXCEPT !.at = "recordClaim.insert"]>>)
                 ELSE goto(w, "recordClaim.insert")
      \/ /\ f.at = "recordClaim.insert" /\ claimStatus[f.id] = "absent"
         /\ writeClaim(f.id, "recorded")
         /\ return(w, "recorded")

\* Faulty variants: a repeated confirmation is answered at once; the allocation is
\* marked before the claim.
confirmClaimShortcut(w) ==
  LET f == top(w)
      a == AllocationOf[f.id]
  IN  \/ /\ f.at = "confirmClaim"
         /\ reads
         /\ IF claimStatus[f.id] = "confirmed" THEN return(w, "confirmed")
            ELSE IF claimStatus[f.id] = "recorded" THEN goto(w, "confirmClaim.write")
            ELSE throw(w, "refused")
      \/ /\ f.at = "confirmClaim.write"
         /\ writeClaim(f.id, "confirmed")
         /\ goto(w, "confirmClaim.allocation")
      \/ /\ f.at = "confirmClaim.allocation"
         /\ reads
         /\ IF allocationStatus[a] = "pending" THEN become(w, <<call("markClaimed", a)>>)
            ELSE return(w, "confirmed")

confirmClaimLate(w) ==
  LET f == top(w)
      a == AllocationOf[f.id]
      write == [f EXCEPT !.at = "confirmClaim.write"]
  IN  \/ /\ f.at = "confirmClaim"
         /\ reads
         /\ IF assertTransition(claimStateMachine, claimStatus[f.id], "confirmed")
            THEN goto(w, "confirmClaim.allocation") ELSE throw(w, "refused")
      \/ /\ f.at = "confirmClaim.allocation"
         /\ reads
         /\ become(w, IF allocationStatus[a] = "pending"
                      THEN <<call("markClaimed", a), write>> ELSE <<write>>)
      \/ /\ f.at = "confirmClaim.write"
         /\ writeClaim(f.id, "confirmed")
         /\ return(w, "confirmed")

confirmClaim(w) ==
  LET f == top(w)
      a == AllocationOf[f.id]
  IN  \/ /\ f.at = "confirmClaim"
         /\ reads
         /\ IF assertTransition(claimStateMachine, claimStatus[f.id], "confirmed")
            THEN goto(w, "confirmClaim.write") ELSE throw(w, "refused")
      \/ /\ f.at = "confirmClaim.write"
         /\ writeClaim(f.id, "confirmed")
         /\ goto(w, "confirmClaim.allocation")
      \/ /\ f.at = "confirmClaim.allocation"
         /\ reads
         /\ IF allocationStatus[a] = "pending" THEN become(w, <<call("markClaimed", a)>>)
            ELSE return(w, "confirmed")

voidClaim(w) ==
  LET f == top(w)
      a == AllocationOf[f.id]
  IN  \/ /\ f.at = "voidClaim"
         /\ reads
         /\ IF assertTransition(claimStateMachine, claimStatus[f.id], "voided")
            THEN goto(w, "voidClaim.write") ELSE throw(w, "refused")
      \/ /\ f.at = "voidClaim.write"
         /\ writeClaim(f.id, "voided")
         /\ goto(w, "voidClaim.allocation")
      \/ /\ f.at = "voidClaim.allocation"
         /\ reads
         /\ keep(w, allocationStatus[a], "voidClaim.siblings")
      \/ /\ f.at = "voidClaim.siblings"
         /\ reads
         /\ IF noOtherConfirmed(claimStatus, f.id) /\ f.kept = "claimed"
            THEN goto(w, "voidClaim.reopen") ELSE return(w, "voided")
      \/ /\ f.at = "voidClaim.reopen"
         /\ writeAllocation(a, "pending")
         /\ become(w, <<call("syncSettlement", SettlementOf[a])>>)

-------------------------------------------------------------------------------
(* Batch dispatch and disbursement.                                         *)

\* "rest" are the claims still to record, the first one is being worked on.
recordBatchClaims(w) ==
  LET f == top(w)
      c == Head(f.rest)
      a == AllocationOf[c]
      s == SettlementOf[a]
      later == IF Len(f.rest) = 1 THEN <<>> ELSE <<[f EXCEPT !.rest = Tail(@), !.at = "batch"]>>
  IN  \/ /\ f.at = "batch"
         /\ reads
         /\ IF allocationStatus[a] = "absent" THEN throw(w, "refused")
            ELSE goto(w, "batch.settlement")
      \/ /\ f.at = "batch.settlement"
         /\ reads
         /\ keep(w, settlementStatus[s], "batch.claims")
      \/ /\ f.at = "batch.claims"
         /\ reads
         /\ IF activeClaims(claimStatus, a) # {} THEN throw(w, "refused")
            ELSE become(w, (IF f.kept = "draft" THEN <<call("markCalculated", s)>> ELSE <<>>)
                             \o <<call("recordClaim", c)>> \o later)

\* "rest" are the claims to be recorded, one for each item.
disburseSettlement(w) ==
  LET f == top(w)
      s == f.id
      shares == [i \in DOMAIN f.rest |-> AllocationOf[f.rest[i]]]
      each(at, ids) == [i \in DOMAIN ids |-> call(at, ids[i])]
      existing == listBySettlement(allocationStatus, s)
      calculateAndList(status) ==
        (IF status = "draft" THEN <<call("markCalculated", s)>> ELSE <<>>)
          \o <<[f EXCEPT !.at = "disburse.list"]>>
  IN  \/ /\ f.at = "disburse"
         /\ reads
         /\ IF settlementStatus[s] \in {"absent", "paid", "cancelled"} THEN throw(w, "refused")
            ELSE IF EventOf[s] = NoEvent \/ exceptionConfirmed[s]
                 THEN become(w, calculateAndList(settlementStatus[s]))
                 ELSE keep(w, settlementStatus[s], "disburse.participants")
      \/ /\ f.at = "disburse.participants"
         /\ reads
         /\ IF recipients(ToSet(shares)) \subseteq participants[EventOf[s]]
            THEN become(w, calculateAndList(f.kept)) ELSE throw(w, "refused")
      \/ /\ f.at = "disburse.list"
         /\ reads
         /\ \/ /\ existing = {}
               /\ become(w, each("createAllocation", shares) \o each("recordClaim", f.rest))
            \/ /\ existing = ToSet(shares)
               /\ \A a \in existing : allocationStatus[a] = "pending"
               /\ become(w, each("matchAllocation", shares) \o each("recordClaim", f.rest))
            \/ throw(w, "refused")  \* by the total, the count, the amounts or a status

matchAllocation(w) ==
  /\ top(w).at = "matchAllocation"
  /\ reads
  /\ IF activeClaims(claimStatus, top(w).id) # {} THEN throw(w, "refused")
     ELSE return(w, "matched")

-------------------------------------------------------------------------------
(* The settle request.                                                      *)

\* "id" is the settlement to be created, "rest" its allocations.  "kept" is the
\* participant exception until the settlement is calculated, and the answer to
\* give once a failure has been caught.
settleEventWithAllocations(w) ==
  LET f == top(w)
      s == f.id
      e == EventOf[s]
      at(label) == [f EXCEPT !.at = label]
      draft == [call("settleEvent.ready", s) EXCEPT !.kept = f.kept]
  IN  \/ /\ f.at = "settle"
         /\ reads
         /\ become(w, <<call("syncEvent", e),
                        [at("settle.list") EXCEPT !.kept = exceptionNeeded(s,
                           {CharacterOf[a] : a \in ToSet(f.rest)})]>>)
      \/ /\ f.at = "settle.list"
         /\ reads
         /\ IF \/ f.got \notin {"open", "ready_for_settlement"}
               \/ activeSettlements(settlementStatus, e) # {}
            THEN throw(w, "refused")
            ELSE become(w, <<call("syncEvent", e), draft, call("markCalculated", s),
                             at("settle.calculated")>>)
      \/ /\ f.at = "settleEvent.ready"
         /\ reads
         /\ become(w, (IF f.got = "open" THEN <<call("markReady", e)>> ELSE <<>>)
                        \o <<call("syncEvent", e), at("createDraft.insert")>>)
      \/ /\ f.at = "settle.calculated"  \* workingSettlement is assigned
         /\ reads
         /\ become(w, [i \in DOMAIN f.rest |-> call("createAllocation", f.rest[i])]
                        \o <<call("syncEvent", e), at("settle.allocated")>>)
      \/ /\ f.at = "settle.allocated"
         /\ reads
         /\ return(w, "calculated")

\* Faulty variant: the rollback counts as done although the cancellation failed.
rollbackSettlementFailureOptimistic(w) ==
  LET f == top(w)
      resynced == [f EXCEPT !.at = "settle.resynced", !.kept = "rolled back"]
  IN  \/ /\ f.at = "settle.rollback"
         /\ reads
         /\ become(w, <<call("cancelSettlement", f.id), [f EXCEPT !.at = "settle.cancelled"]>>)
      \/ /\ f.at \in {"settle.cancelled", "settle.resync"}
         /\ reads
         /\ become(w, <<call("syncEvent", EventOf[f.id]), resynced>>)
      \/ /\ f.at = "settle.resynced"
         /\ reads
         /\ stack' = [stack EXCEPT ![w] = <<>>]
         /\ answer' = [answer EXCEPT ![w].is = f.kept]

rollbackSettlementFailure(w) ==
  LET f == top(w)
      resynced == [f EXCEPT !.at = "settle.resynced"]
  IN  \/ /\ f.at = "settle.rollback"
         /\ reads
         /\ become(w, <<call("cancelSettlement", f.id),
                        [f EXCEPT !.at = "settle.cancelled", !.kept = f.got]>>)
      \/ /\ f.at = "settle.cancelled"  \* rollbackSucceeded
         /\ reads
         /\ become(w, <<call("syncEvent", EventOf[f.id]),
                        [resynced EXCEPT !.kept = IF @ = "failed" THEN "rolled back" ELSE @]>>)
      \/ /\ f.at = "settle.resync"
         /\ reads
         /\ become(w, <<call("syncEvent", EventOf[f.id]), resynced>>)
      \/ /\ f.at = "settle.resynced"
         /\ reads
         /\ stack' = [stack EXCEPT ![w] = <<>>]
         /\ answer' = [answer EXCEPT ![w].is = f.kept]

-------------------------------------------------------------------------------
(* Requests, failures and the specification.                                *)

absentRow(r) ==
  CASE r.at = "createEvent" -> eventStatus[r.id] = "absent"
    [] r.at \in {"createSettlement", "settle"} -> settlementStatus[r.id] = "absent"
    [] r.at = "createAllocation" -> allocationStatus[r.id] = "absent"
    [] r.at = "recordClaim" -> claimStatus[r.id] = "absent"
    [] r.at \in {"batch", "disburse"} -> \A c \in ToSet(r.rest) : claimStatus[c] = "absent"
    [] OTHER -> TRUE

Begin(w, r) ==
  /\ stack[w] = <<>>
  /\ absentRow(r)
  /\ stack' = [stack EXCEPT ![w] = <<r>>]
  /\ answer' = [answer EXCEPT ![w] = [of |-> r, is |-> "none"]]
  /\ UNCHANGED <<vars, faults>>

Step(w) ==
  /\ stack[w] # <<>>
  /\ \/ syncStatus(w) \/ moveEvent(w) \/ editEvent(w) \/ replaceEventParticipants(w)
     \/ createDraftSettlement(w) \/ writeSettlementStatus(w) \/ markCalculated(w)
     \/ startPaying(w) \/ markPaid(w) \/ cancelSettlement(w) \/ syncSettlement(w)
     \/ editSettlement(w) \/ createPendingAllocation(w) \/ closeShare(w)
     \/ recordClaim(w) \/ confirmClaim(w) \/ voidClaim(w)
     \/ recordBatchClaims(w) \/ disburseSettlement(w) \/ matchAllocation(w)
     \/ settleEventWithAllocations(w) \/ rollbackSettlementFailure(w)
  /\ UNCHANGED faults

\* The next statement fails without an effect.
Fail(w) ==
  /\ stack[w] # <<>> /\ top(w).at \notin resumption
  /\ faults < MaxFaults
  /\ faults' = faults + 1
  /\ throw(w, "failed")
  /\ UNCHANGED vars

\* The worker is gone, with all it knew.
Stop(w) ==
  /\ stack[w] # <<>>
  /\ faults < MaxFaults
  /\ faults' = faults + 1
  /\ stack' = [stack EXCEPT ![w] = <<>>]
  /\ answer' = [answer EXCEPT ![w].is = "lost"]
  /\ UNCHANGED vars

StepsInit ==
  /\ Init
  /\ stack = [w \in Worker |-> <<>>]
  /\ answer = [w \in Worker |-> [of |-> call("none", "none"), is |-> "none"]]
  /\ faults = 0

StepsNext ==
  \E w \in Worker :
    \/ \E r \in Requests[w] : Begin(w, r)
    \/ Step(w) \/ Fail(w) \/ Stop(w)

StepsSpec == StepsInit /\ [][StepsNext]_stepVars
===============================================================================
