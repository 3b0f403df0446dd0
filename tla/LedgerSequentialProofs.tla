------------------------ MODULE LedgerSequentialProofs ------------------------
(***************************************************************************)
(* What the statements of the ledger keep when requests come one after     *)
(* another, for any number of requests, failed statements and stopped      *)
(* workers.                                                                *)
(***************************************************************************)
EXTENDS LedgerStepsProofs

\* One worker: it sends its next request when the last one is over.
OneByOne == \A v, w \in Worker : v = w

-------------------------------------------------------------------------------
(* Between the check of the claims of a share and the write that relies on  *)
(* it the payout may be started, and nothing else happens.                  *)

\* The start of the payout, and what the write it ends with is followed by elsewhere.
StartPoint ==
  {"startPaying", "startPaying.list", "settlement.write",
   "syncEvent", "syncEvent.list", "event.write"}

WritePoint == {"recordClaim.insert", "confirmClaim.write"}

isLive(status, c) == status[c] \in {"recorded", "confirmed"}

\* What the record about to write has found out.
checked(f, status) ==
  /\ f.at = "recordClaim.insert" =>
       \A c \in Claim : AllocationOf[c] = AllocationOf[f.id] => ~isLive(status, c)
  /\ f.at = "confirmClaim.write" => isLive(status, f.id)

\* Of a stack: who is about to write is interrupted by the start of the payout only,
\* and what he has found out is still true.
Undisturbed(s, status) ==
  \A n \in DOMAIN s : s[n].at \in WritePoint =>
    checked(s[n], status) /\ \A m \in 1..(n - 1) : s[m].at \in StartPoint

StacksUndisturbed == \A w \in Worker : Undisturbed(stack[w], claimStatus)

Sequential == IInv /\ OneActiveClaim /\ StacksUndisturbed

\* A stack without a record about to write.
Calm(s) == \A n \in DOMAIN s : s[n].at \notin WritePoint

LEMMA CalmIsUndisturbed ==
  ASSUME NEW s, Calm(s), NEW status
  PROVE  Undisturbed(s, status)
BY DEF Calm, Undisturbed

-------------------------------------------------------------------------------
(* The four ways a method goes on, unless it starts the payout: what waits  *)
(* below it is calm, so it leaves a calm stack when it pushes one.          *)

LEMMA CalmBelow ==
  ASSUME NEW s \in Seq(Record), s # <<>>, s[1].at \notin StartPoint,
         NEW status, Undisturbed(s, status)
  PROVE  Calm(Tail(s))
<1>1. Len(s) \in Nat /\ Len(s) # 0
  BY EmptySeq
<1>2. ASSUME NEW n \in DOMAIN Tail(s), Tail(s)[n].at \in WritePoint
      PROVE  FALSE
  <2>1. n + 1 \in DOMAIN s /\ Tail(s)[n] = s[n + 1] /\ 1 \in 1..((n + 1) - 1)
    BY <1>1
  <2> QED BY <1>2, <2>1 DEF Undisturbed
<1> QED BY <1>2 DEF Calm

LEMMA CalmJoin ==
  ASSUME NEW S, NEW q \in Seq(S), \A r \in S : r.at \notin WritePoint,
         NEW T, NEW t \in Seq(T), Calm(t)
  PROVE  Calm(q \o t)
<1>1. Len(q) \in Nat /\ Len(t) \in Nat
  OBVIOUS
<1>2. ASSUME NEW n \in DOMAIN (q \o t) PROVE (q \o t)[n].at \notin WritePoint
  <2>1. n \in 1..(Len(q) + Len(t))
    BY <1>1
  <2>2. CASE n <= Len(q)
    <3>1. (q \o t)[n] = q[n] /\ q[n] \in S
      BY <1>1, <2>1, <2>2
    <3> QED BY <3>1
  <2>3. CASE n > Len(q)
    <3>1. (q \o t)[n] = t[n - Len(q)] /\ n - Len(q) \in DOMAIN t
      BY <1>1, <2>1, <2>3
    <3> QED BY <3>1 DEF Calm
  <2> QED BY <1>1, <2>1, <2>2, <2>3
<1> QED BY <1>2 DEF Calm

\* An error is caught below everything that is about to write.
LEMMA CalmWhenCaught ==
  ASSUME NEW s \in Seq(Record), NEW status, Undisturbed(s, status), NEW error,
         NEW n \in DOMAIN s, s[n].at \in DOMAIN catch
  PROVE  Calm(caughtAt(n, s, error))
<1>1. s[n] \in Record /\ s[n].at \notin StartPoint
  BY DEF catch, StartPoint
<1> PICK g : g = [s[n] EXCEPT !.at = catch[@], !.got = error]
  OBVIOUS
<1>2. g.at = catch[s[n].at]
  BY <1>1 DEF Record
<1>3. g.at \notin WritePoint
  BY <1>2 DEF catch, WritePoint
<1> PICK t : t = SubSeq(s, n + 1, Len(s))
  OBVIOUS
<1>4. t \in Seq(Record)
  OBVIOUS
<1>5. Calm(t)
  <2>1. ASSUME NEW k \in DOMAIN t, t[k].at \in WritePoint PROVE FALSE
    <3>1. k + n \in DOMAIN s /\ t[k] = s[k + n] /\ n \in 1..((k + n) - 1)
      OBVIOUS
    <3> QED BY <1>1, <2>1, <3>1 DEF Undisturbed
  <2> QED BY <2>1 DEF Calm
<1>6. <<g>> \in Seq({g})
  OBVIOUS
<1>7. Calm(<<g>> \o t)
  BY <1>3, <1>4, <1>5, <1>6, CalmJoin
<1> QED BY <1>7 DEF caughtAt

LEMMA StackTyped ==
  ASSUME Sequential, NEW w \in Worker
  PROVE  stack[w] \in Seq(Record)
<1>1. stack[w] \in Seq(Frame) /\ Frame \subseteq Record
  BY DEF Sequential, IInv, StacksSound, Frame
<1> QED BY <1>1

\* The actions after which the stack of w is calm, whichever of its ways it takes.
LEMMA Calmly ==
  ASSUME Sequential, NEW w \in Worker, stack[w] # <<>>, top(w).at \notin StartPoint
  PROVE  /\ \A error : throw(w, error) => Calm(stack'[w])
         /\ \A v : return(w, v) => Calm(stack'[w])
         /\ \A S : \A q \in Seq(S) :
              (\A r \in S : r.at \notin WritePoint) /\ become(w, q) => Calm(stack'[w])
         /\ \A g : g.at \notin WritePoint /\ become(w, <<g>>) => Calm(stack'[w])
         /\ \A g, h : g.at \notin WritePoint /\ h.at \notin WritePoint /\ become(w, <<g, h>>)
              => Calm(stack'[w])
         /\ \A at : at \notin WritePoint /\ goto(w, at) => Calm(stack'[w])
         /\ \A v, at : at \notin WritePoint /\ keep(w, v, at) => Calm(stack'[w])
<1> PICK s \in Seq(Record) : s = stack[w]
  BY StackTyped
<1>1. s # <<>> /\ s[1] \in Record /\ s[1] = top(w) /\ Undisturbed(s, claimStatus)
  BY DEF top, Sequential, StacksUndisturbed
<1> PICK t \in Seq(Record) : t = Tail(s)
  BY <1>1, HeadTailProperties
<1>2. Calm(t)
  BY <1>1, CalmBelow
<1>3. Calm(<<>>)
  BY DEF Calm
<1>4. ASSUME NEW q, stack' = [stack EXCEPT ![w] = q] PROVE stack'[w] = q
  BY <1>4 DEF Sequential, IInv, StacksSound
<1>5. ASSUME NEW error, throw(w, error) PROVE Calm(stack'[w])
  <2>1. CASE stack' = [stack EXCEPT ![w] = <<>>]
    BY <1>3, <1>4, <2>1
  <2>2. ASSUME NEW n \in DOMAIN s, s[n].at \in DOMAIN catch,
               stack' = [stack EXCEPT ![w] = caughtAt(n, s, error)]
        PROVE  Calm(stack'[w])
    <3>1. stack'[w] = caughtAt(n, s, error)
      BY <1>4, <2>2
    <3>2. Calm(caughtAt(n, s, error))
      BY <1>1, <2>2, CalmWhenCaught
    <3> QED BY <3>1, <3>2
  <2> QED BY <1>5, <2>1, <2>2 DEF throw
<1>6. ASSUME NEW v, return(w, v) PROVE Calm(stack'[w])
  <2>1. CASE t = <<>>
    BY <1>3, <1>4, <1>6, <2>1 DEF return
  <2>2. CASE t # <<>>
    <3> PICK g : g = [Head(t) EXCEPT !.got = v]
      OBVIOUS
    <3> PICK u \in Seq(Record) : u = Tail(t)
      BY <2>2, HeadTailProperties
    <3>1. Len(t) \in Nat /\ Len(t) # 0
      BY EmptySeq, <2>2
    <3> PICK r \in Record : r = Head(t) /\ r = t[1] /\ 1 \in DOMAIN t
      BY <3>1
    <3>2. r.at \notin WritePoint
      BY <1>2 DEF Calm
    <3>3. g.at = r.at
      BY DEF Record
    <3> PICK S : S = {g}
      OBVIOUS
    <3>4. <<g>> \in Seq(S) /\ \A x \in S : x.at \notin WritePoint
      BY <3>2, <3>3
    <3>5. Calm(u)
      <4>1. ASSUME NEW n \in DOMAIN u PROVE u[n] = t[n + 1] /\ n + 1 \in DOMAIN t
        BY <3>1
      <4> QED BY <1>2, <4>1 DEF Calm
    <3>6. Calm(<<g>> \o u)
      BY <3>4, <3>5, CalmJoin
    <3>7. stack' = [stack EXCEPT ![w] = <<g>> \o u]
      BY <1>6, <2>2 DEF return
    <3> QED BY <1>4, <3>6, <3>7
  <2> QED BY <2>1, <2>2
<1>7. ASSUME NEW S, NEW q \in Seq(S), \A r \in S : r.at \notin WritePoint, become(w, q)
      PROVE  Calm(stack'[w])
  <2>1. stack' = [stack EXCEPT ![w] = q \o t]
    BY <1>7 DEF become
  <2>2. Calm(q \o t)
    BY <1>2, <1>7, CalmJoin
  <2> QED BY <1>4, <2>1, <2>2
<1>8. ASSUME NEW g, g.at \notin WritePoint, become(w, <<g>>) PROVE Calm(stack'[w])
  <2> PICK S : S = {g}
    OBVIOUS
  <2>1. <<g>> \in Seq(S) /\ \A r \in S : r.at \notin WritePoint
    BY <1>8
  <2> QED BY <1>7, <1>8, <2>1
<1>9. ASSUME NEW g, NEW h, g.at \notin WritePoint, h.at \notin WritePoint, become(w, <<g, h>>)
      PROVE  Calm(stack'[w])
  <2> PICK S : S = {g, h}
    OBVIOUS
  <2>1. <<g, h>> \in Seq(S) /\ \A r \in S : r.at \notin WritePoint
    BY <1>9
  <2> QED BY <1>7, <1>9, <2>1
<1>10. ASSUME NEW at, at \notin WritePoint, goto(w, at) PROVE Calm(stack'[w])
  <2> PICK g : g = [top(w) EXCEPT !.at = at]
    OBVIOUS
  <2>1. g.at = at
    BY <1>1 DEF Record
  <2>2. become(w, <<g>>)
    BY <1>10 DEF goto
  <2> QED BY <1>8, <1>10, <2>1, <2>2
<1>11. ASSUME NEW v, NEW at, at \notin WritePoint, keep(w, v, at) PROVE Calm(stack'[w])
  <2> PICK g : g = [top(w) EXCEPT !.at = at, !.kept = v]
    OBVIOUS
  <2>1. g.at = at
    BY <1>1 DEF Record
  <2>2. become(w, <<g>>)
    BY <1>11 DEF keep
  <2> QED BY <1>8, <1>11, <2>1, <2>2
<1> QED BY <1>5, <1>6, <1>7, <1>8, <1>9, <1>10, <1>11

LEMMA MoveEventCalm ==
  ASSUME Sequential, NEW w \in Worker, stack[w] # <<>>, moveEvent(w)
  PROVE  UNCHANGED claimStatus /\ Calm(stack'[w])
<1>1. top(w).at \notin StartPoint
  BY DEF moveEvent, eventTarget, StartPoint
<1>2. UNCHANGED claimStatus
  BY DEF moveEvent, reads, vars
<1> QED BY <1>1, <1>2, Calmly DEF moveEvent, WritePoint

LEMMA EditEventCalm ==
  ASSUME Sequential, NEW w \in Worker, stack[w] # <<>>, editEvent(w)
  PROVE  UNCHANGED claimStatus /\ Calm(stack'[w])
<1>1. top(w).at \notin StartPoint
  BY DEF editEvent, StartPoint
<1>2. UNCHANGED claimStatus
  BY DEF editEvent, reads, vars, writeEvent
<1> QED BY <1>1, <1>2, Calmly DEF editEvent, WritePoint

LEMMA MarkCalculatedCalm ==
  ASSUME Sequential, NEW w \in Worker, stack[w] # <<>>, markCalculated(w)
  PROVE  UNCHANGED claimStatus /\ Calm(stack'[w])
<1>1. top(w).at \notin StartPoint
  BY DEF markCalculated, StartPoint
<1>2. UNCHANGED claimStatus
  BY DEF markCalculated, reads, vars
<1> QED BY <1>1, <1>2, Calmly DEF markCalculated, WritePoint

LEMMA MarkPaidCalm ==
  ASSUME Sequential, NEW w \in Worker, stack[w] # <<>>, markPaid(w)
  PROVE  UNCHANGED claimStatus /\ Calm(stack'[w])
<1>1. top(w).at \notin StartPoint
  BY DEF markPaid, StartPoint
<1>2. UNCHANGED claimStatus
  BY DEF markPaid, reads, vars
<1> QED BY <1>1, <1>2, Calmly DEF markPaid, WritePoint

LEMMA CancelSettlementCalm ==
  ASSUME Sequential, NEW w \in Worker, stack[w] # <<>>, cancelSettlement(w)
  PROVE  UNCHANGED claimStatus /\ Calm(stack'[w])
<1>1. top(w).at \notin StartPoint
  BY DEF cancelSettlement, StartPoint
<1>2. UNCHANGED claimStatus
  BY DEF cancelSettlement, reads, vars
<1> QED BY <1>1, <1>2, Calmly DEF cancelSettlement, WritePoint

LEMMA EditSettlementCalm ==
  ASSUME Sequential, NEW w \in Worker, stack[w] # <<>>, editSettlement(w)
  PROVE  UNCHANGED claimStatus /\ Calm(stack'[w])
<1>1. top(w).at \notin StartPoint
  BY DEF editSettlement, StartPoint
<1>2. UNCHANGED claimStatus
  BY DEF editSettlement, reads, vars, writeSettlement
<1> QED BY <1>1, <1>2, Calmly DEF editSettlement, WritePoint

LEMMA CreatePendingAllocationCalm ==
  ASSUME Sequential, NEW w \in Worker, stack[w] # <<>>, createPendingAllocation(w)
  PROVE  UNCHANGED claimStatus /\ Calm(stack'[w])
<1>1. top(w).at \notin StartPoint
  BY DEF createPendingAllocation, StartPoint
<1>2. UNCHANGED claimStatus
  BY DEF createPendingAllocation, reads, vars, writeAllocation
<1> QED BY <1>1, <1>2, Calmly DEF createPendingAllocation, WritePoint

LEMMA MatchAllocationCalm ==
  ASSUME Sequential, NEW w \in Worker, stack[w] # <<>>, matchAllocation(w)
  PROVE  UNCHANGED claimStatus /\ Calm(stack'[w])
<1>1. top(w).at \notin StartPoint
  BY DEF matchAllocation, StartPoint
<1>2. UNCHANGED claimStatus
  BY DEF matchAllocation, reads, vars
<1> QED BY <1>1, <1>2, Calmly DEF matchAllocation, WritePoint

LEMMA CloseShareCalm ==
  ASSUME Sequential, NEW w \in Worker, stack[w] # <<>>, closeShare(w)
  PROVE  UNCHANGED claimStatus /\ Calm(stack'[w])
<1>1. top(w).at \notin StartPoint
  BY DEF closeShare, allocationTarget, StartPoint
<1>2. UNCHANGED claimStatus
  BY DEF closeShare, reads, vars, writeAllocation
<1> QED BY <1>1, <1>2, Calmly DEF closeShare, call, WritePoint

\* The record that is running, under another label.
LEMMA TopTyped ==
  ASSUME Sequential, NEW w \in Worker, stack[w] # <<>>
  PROVE  top(w) \in Record /\ sound(top(w))
BY TopIsSound DEF Sequential, IInv, Frame

LEMMA ReplaceEventParticipantsCalm ==
  ASSUME Sequential, NEW w \in Worker, stack[w] # <<>>, replaceEventParticipants(w)
  PROVE  UNCHANGED claimStatus /\ Calm(stack'[w])
<1>1. top(w).at \in {"participants.delete", "participants.insert"}
  BY DEF replaceEventParticipants
<1>2. UNCHANGED claimStatus
  BY DEF replaceEventParticipants, writeParticipants
<1> PICK g : g = [top(w) EXCEPT !.rest = Tail(@)]
  OBVIOUS
<1>3. g.at \notin WritePoint
  BY <1>1, TopTyped DEF Record, WritePoint
<1>4. top(w).at \notin StartPoint
  BY <1>1 DEF StartPoint
<1>5. \/ return(w, "done")
      \/ goto(w, "participants.insert")
      \/ become(w, <<g>>)
  BY DEF replaceEventParticipants
<1> QED BY <1>2, <1>3, <1>4, <1>5, Calmly DEF WritePoint

LEMMA CreateDraftSettlementCalm ==
  ASSUME Sequential, NEW w \in Worker, stack[w] # <<>>, createDraftSettlement(w)
  PROVE  UNCHANGED claimStatus /\ Calm(stack'[w])
<1>1. top(w).at \in {"createSettlement", "createDraft.insert", "createDraft.trust"}
  BY DEF createDraftSettlement
<1>2. UNCHANGED claimStatus
  BY DEF createDraftSettlement, reads, vars
<1> PICK f \in Record : f = top(w)
  BY TopTyped
<1> PICK v : f.at = "createSettlement" /\ EventOf[f.id] # NoEvent =>
               become(w, <<call("syncEvent", EventOf[f.id]),
                           [f EXCEPT !.at = "createDraft.insert", !.kept = v]>>)
  BY DEF createDraftSettlement
<1> PICK g : g = [f EXCEPT !.at = "createDraft.insert", !.kept = v]
  OBVIOUS
<1> PICK h : h = [f EXCEPT !.at = "createDraft.trust"]
  OBVIOUS
<1> PICK c : c = call("syncEvent", EventOf[f.id])
  OBVIOUS
<1>3. g.at \notin WritePoint /\ h.at \notin WritePoint /\ c.at \notin WritePoint
  BY DEF Record, call, WritePoint
<1>4. \/ keep(w, "plain", "createDraft.insert")
      \/ become(w, <<c, g>>)
      \/ throw(w, "refused")
      \/ goto(w, "createDraft.trust")
      \/ become(w, <<c, h>>)
      \/ return(w, "draft")
  BY DEF createDraftSettlement
<1>5. top(w).at \notin StartPoint
  BY <1>1 DEF StartPoint
<1> QED BY <1>2, <1>3, <1>4, <1>5, Calmly DEF WritePoint

LEMMA SyncSettlementCalm ==
  ASSUME Sequential, NEW w \in Worker, stack[w] # <<>>, syncSettlement(w)
  PROVE  UNCHANGED claimStatus /\ Calm(stack'[w])
<1>1. top(w).at \notin StartPoint /\ UNCHANGED claimStatus
  BY DEF syncSettlement, StartPoint, reads, vars
<1> PICK start : start = call("startPaying", top(w).id)
  OBVIOUS
<1> PICK pay : pay = call("markPaid", top(w).id)
  OBVIOUS
<1> PICK S : S = {start, pay}
  OBVIOUS
<1> PICK p : p = IF top(w).kept = "calculated" THEN <<start>> ELSE <<>>
  OBVIOUS
<1> PICK q : q = IF allTerminal(allocationStatus, top(w).id) THEN <<pay>> ELSE <<>>
  OBVIOUS
<1>2. \A r \in S : r.at \notin WritePoint
  BY DEF call, WritePoint
<1>3. p \in Seq(S) /\ q \in Seq(S)
  <2>1. <<start>> \in Seq(S) /\ <<pay>> \in Seq(S) /\ <<>> \in Seq(S)
    OBVIOUS
  <2> QED BY <2>1
<1> PICK r \in Seq(S) : r = p \o q
  BY <1>3, JoinTyped
<1>4. become(w, r) => Calm(stack'[w])
  BY <1>1, <1>2, Calmly
<1>5. \/ return(w, "done")
      \/ keep(w, settlementStatus[top(w).id], "syncSettlement.list")
      \/ become(w, r)
  BY DEF syncSettlement
<1> QED BY <1>1, <1>2, <1>4, <1>5, Calmly DEF WritePoint

\* A voiding takes a claim out of the live ones.
LEMMA VoidClaimCalm ==
  ASSUME Sequential, NEW w \in Worker, stack[w] # <<>>, voidClaim(w)
  PROVE  OneActiveClaim' /\ Calm(stack'[w])
<1>1. top(w).at \notin StartPoint
  BY DEF voidClaim, StartPoint
<1>2. OneActiveClaim'
  <2>1. \/ UNCHANGED claimStatus
        \/ claimStatus' = [claimStatus EXCEPT ![top(w).id] = "voided"]
    BY DEF voidClaim, reads, vars, writeClaim, writeAllocation
  <2>2. OneActiveClaim /\ claimStatus \in [Claim -> Absent(ClaimStatus)]
    BY DEF Sequential, IInv, Tables, TypeOK
  <2> QED BY <2>1, <2>2 DEF OneActiveClaim
<1> PICK c : c = call("syncSettlement", SettlementOf[AllocationOf[top(w).id]])
  OBVIOUS
<1>3. c.at \notin WritePoint
  BY DEF call, WritePoint
<1>4. \/ throw(w, "refused")
      \/ goto(w, "voidClaim.write")
      \/ goto(w, "voidClaim.allocation")
      \/ keep(w, allocationStatus[AllocationOf[top(w).id]], "voidClaim.siblings")
      \/ goto(w, "voidClaim.reopen")
      \/ return(w, "voided")
      \/ become(w, <<c>>)
  BY DEF voidClaim
<1> QED BY <1>1, <1>2, <1>3, <1>4, Calmly DEF WritePoint

LEMMA RollbackCalm ==
  ASSUME Sequential, NEW w \in Worker, stack[w] # <<>>, rollbackSettlementFailure(w)
  PROVE  UNCHANGED claimStatus /\ Calm(stack'[w])
<1>1. top(w).at \in SettlePoint /\ UNCHANGED claimStatus
  BY DEF rollbackSettlementFailure, SettlePoint, reads, vars
<1>2. top(w).at \notin StartPoint
  BY <1>1 DEF SettlePoint, StartPoint
<1> PICK f \in Record : f = top(w)
  BY TopTyped
<1> PICK cancel : cancel = call("cancelSettlement", f.id)
  OBVIOUS
<1> PICK sync : sync = call("syncEvent", EventOf[f.id])
  OBVIOUS
<1> PICK resynced : resynced = [f EXCEPT !.at = "settle.resynced"]
  OBVIOUS
<1> PICK g : g = [f EXCEPT !.at = "settle.cancelled", !.kept = f.got]
  OBVIOUS
<1> PICK h : h = [resynced EXCEPT !.kept = IF @ = "failed" THEN "rolled back" ELSE @]
  OBVIOUS
<1>3. /\ cancel.at \notin WritePoint /\ sync.at \notin WritePoint
      /\ resynced.at \notin WritePoint /\ g.at \notin WritePoint
  BY DEF call, WritePoint, Record
<1>4. h.at \notin WritePoint
  BY DEF WritePoint, Record
<1>5. \/ become(w, <<cancel, g>>)
      \/ become(w, <<sync, h>>)
      \/ become(w, <<sync, resynced>>)
      \/ stack' = [stack EXCEPT ![w] = <<>>]
  BY DEF rollbackSettlementFailure
<1>6. CASE stack' = [stack EXCEPT ![w] = <<>>]
  BY <1>1, <1>6 DEF Calm, Sequential, IInv, StacksSound
<1> QED BY <1>1, <1>2, <1>3, <1>4, <1>5, <1>6, Calmly

LEMMA RecordBatchClaimsCalm ==
  ASSUME Sequential, NEW w \in Worker, stack[w] # <<>>, recordBatchClaims(w)
  PROVE  UNCHANGED claimStatus /\ Calm(stack'[w])
<1>1. top(w).at \notin StartPoint /\ UNCHANGED claimStatus
  BY DEF recordBatchClaims, StartPoint, reads, vars
<1> PICK f \in Record : f = top(w)
  BY TopTyped
<1> PICK c : c = Head(f.rest)
  OBVIOUS
<1> PICK s : s = SettlementOf[AllocationOf[c]]
  OBVIOUS
<1> PICK mark : mark = call("markCalculated", s)
  OBVIOUS
<1> PICK record : record = call("recordClaim", c)
  OBVIOUS
<1> PICK g : g = [f EXCEPT !.rest = Tail(@), !.at = "batch"]
  OBVIOUS
<1> PICK S : S = {mark, record, g}
  OBVIOUS
<1>2. \A r \in S : r.at \notin WritePoint
  <2>1. mark.at = "markCalculated" /\ record.at = "recordClaim" /\ g.at = "batch"
    BY DEF call, Record
  <2> QED BY <2>1 DEF WritePoint
<1>3. <<mark>> \in Seq(S) /\ <<record>> \in Seq(S) /\ <<g>> \in Seq(S) /\ <<>> \in Seq(S)
  OBVIOUS
<1> PICK start : start = IF f.kept = "draft" THEN <<mark>> ELSE <<>>
  OBVIOUS
<1> PICK later : later = IF Len(f.rest) = 1 THEN <<>> ELSE <<g>>
  OBVIOUS
<1>4. start \in Seq(S) /\ later \in Seq(S)
  BY <1>3
<1> PICK q \in Seq(S) : q = start \o <<record>> \o later
  BY <1>3, <1>4, JoinTyped
<1>5. become(w, q) => Calm(stack'[w])
  BY <1>1, <1>2, Calmly
<1>6. \/ throw(w, "refused")
      \/ goto(w, "batch.settlement")
      \/ keep(w, settlementStatus[s], "batch.claims")
      \/ become(w, q)
  BY DEF recordBatchClaims
<1> QED BY <1>1, <1>5, <1>6, Calmly DEF WritePoint

LEMMA DisburseSettlementCalm ==
  ASSUME Sequential, NEW w \in Worker, stack[w] # <<>>, disburseSettlement(w)
  PROVE  UNCHANGED claimStatus /\ Calm(stack'[w])
<1>1. top(w).at \in DisbursePoint /\ UNCHANGED claimStatus
  BY DEF disburseSettlement, DisbursePoint, reads, vars
<1>2. top(w).at \notin StartPoint
  BY <1>1 DEF DisbursePoint, StartPoint
<1> PICK f \in Record : f = top(w) /\ sound(f)
  BY TopTyped
<1>3. f.rest \in Seq(Claim)
  BY <1>1 DEF sound, listTyped
<1> PICK mark : mark = call("markCalculated", f.id)
  OBVIOUS
<1> PICK list : list = [f EXCEPT !.at = "disburse.list"]
  OBVIOUS
<1>4. PICK S :
        /\ \A r \in S : r.at \notin WritePoint
        /\ mark \in S /\ list \in S
        /\ \A a \in Allocation : call("createAllocation", a) \in S
        /\ \A a \in Allocation : call("matchAllocation", a) \in S
        /\ \A c \in Claim : call("recordClaim", c) \in S
  <2>1. mark.at = "markCalculated" /\ list.at = "disburse.list"
    BY DEF call, Record
  <2>2. \A at, x : call(at, x).at = at
    BY DEF call
  <2> DEFINE C == {call("createAllocation", a) : a \in Allocation}
             M == {call("matchAllocation", a) : a \in Allocation}
             R == {call("recordClaim", c) : c \in Claim}
  <2>3. (\A r \in C : r.at \notin WritePoint) /\ (\A r \in M : r.at \notin WritePoint)
    BY <2>2 DEF WritePoint
  <2>4. (\A r \in R : r.at \notin WritePoint) /\ (\A r \in {mark, list} : r.at \notin WritePoint)
    BY <2>1, <2>2 DEF WritePoint
  <2>5. \A r \in {mark, list} \cup C \cup M \cup R : r.at \notin WritePoint
    BY <2>3, <2>4
  <2> WITNESS {mark, list} \cup C \cup M \cup R
  <2> QED BY <2>5
<1>5. <<mark>> \in Seq(S) /\ <<list>> \in Seq(S) /\ <<>> \in Seq(S)
  BY <1>4
<1> PICK shares \in Seq(Allocation) : shares = [i \in DOMAIN f.rest |-> AllocationOf[f.rest[i]]]
  BY <1>3, SharesTyped
<1> PICK create : create = [i \in DOMAIN shares |-> call("createAllocation", shares[i])]
  OBVIOUS
<1> PICK match : match = [i \in DOMAIN shares |-> call("matchAllocation", shares[i])]
  OBVIOUS
<1> PICK record : record = [i \in DOMAIN f.rest |-> call("recordClaim", f.rest[i])]
  OBVIOUS
<1>6. create \in Seq(S) /\ match \in Seq(S)
  BY <1>4, EachTyped
<1>7. record \in Seq(S)
  BY <1>3, <1>4, EachTyped
<1> PICK marked \in Seq(S) : marked = <<mark>> \o <<list>>
  BY <1>5, JoinTyped
<1> PICK listed \in Seq(S) : listed = <<>> \o <<list>>
  BY <1>5, JoinTyped
<1> PICK created \in Seq(S) : created = create \o record
  BY <1>6, <1>7, JoinTyped
<1> PICK matched \in Seq(S) : matched = match \o record
  BY <1>6, <1>7, JoinTyped
<1>8. \A q \in Seq(S) : become(w, q) => Calm(stack'[w])
  BY <1>2, <1>4, Calmly
<1>9. \/ throw(w, "refused")
      \/ keep(w, settlementStatus[f.id], "disburse.participants")
      \/ become(w, marked)
      \/ become(w, listed)
      \/ become(w, created)
      \/ become(w, matched)
  <2>1. CASE f.at = "disburse"
    BY <2>1 DEF disburseSettlement
  <2>2. CASE f.at = "disburse.participants"
    BY <2>2 DEF disburseSettlement
  <2>3. CASE f.at = "disburse.list"
    BY <2>3 DEF disburseSettlement
  <2> QED BY <1>1, <2>1, <2>2, <2>3 DEF DisbursePoint
<1>10. throw(w, "refused") => Calm(stack'[w])
  BY <1>2, Calmly
<1> PICK v : v = settlementStatus[f.id]
  OBVIOUS
<1>11. keep(w, v, "disburse.participants") => Calm(stack'[w])
  <2>1. "disburse.participants" \notin WritePoint
    BY DEF WritePoint
  <2> QED BY <1>2, <2>1, Calmly
<1> QED BY <1>1, <1>8, <1>9, <1>10, <1>11

LEMMA SettleEventWithAllocationsCalm ==
  ASSUME Sequential, NEW w \in Worker, stack[w] # <<>>, settleEventWithAllocations(w)
  PROVE  UNCHANGED claimStatus /\ Calm(stack'[w])
<1>1. top(w).at \in SettlePoint /\ UNCHANGED claimStatus
  BY DEF settleEventWithAllocations, SettlePoint, reads, vars
<1>2. top(w).at \notin StartPoint
  BY <1>1 DEF SettlePoint, StartPoint
<1> PICK f \in Record : f = top(w) /\ sound(f)
  BY TopTyped
<1>3. f.rest \in Seq(Allocation)
  BY <1>1 DEF sound, listTyped
<1> PICK e : e = EventOf[f.id]
  OBVIOUS
<1> PICK sync : sync = call("syncEvent", e)
  OBVIOUS
<1> PICK ready : ready = call("markReady", e)
  OBVIOUS
<1> PICK mark : mark = call("markCalculated", f.id)
  OBVIOUS
<1> PICK v : f.at = "settle" =>
               become(w, <<sync, [f EXCEPT !.at = "settle.list", !.kept = v]>>)
  BY DEF settleEventWithAllocations
<1> PICK list : list = [f EXCEPT !.at = "settle.list", !.kept = v]
  OBVIOUS
<1> PICK draft : draft = [call("settleEvent.ready", f.id) EXCEPT !.kept = f.kept]
  OBVIOUS
<1> PICK calculated : calculated = [f EXCEPT !.at = "settle.calculated"]
  OBVIOUS
<1> PICK insert : insert = [f EXCEPT !.at = "createDraft.insert"]
  OBVIOUS
<1> PICK allocated : allocated = [f EXCEPT !.at = "settle.allocated"]
  OBVIOUS
<1>4. PICK S :
        /\ \A r \in S : r.at \notin WritePoint
        /\ sync \in S /\ ready \in S /\ mark \in S /\ list \in S
        /\ draft \in S /\ calculated \in S /\ insert \in S /\ allocated \in S
        /\ \A a \in Allocation : call("createAllocation", a) \in S
  <2>1. /\ list.at = "settle.list" /\ calculated.at = "settle.calculated"
        /\ insert.at = "createDraft.insert" /\ allocated.at = "settle.allocated"
    BY DEF Record
  <2>2. \A at, x : call(at, x).at = at
    BY DEF call
  <2>3. draft.at = "settleEvent.ready"
    BY DEF call
  <2> DEFINE C == {call("createAllocation", a) : a \in Allocation}
             F == {sync, ready, mark, list, draft, calculated, insert, allocated}
  <2>4. \A r \in C : r.at \notin WritePoint
    BY <2>2 DEF WritePoint
  <2>5. \A r \in F : r.at \notin WritePoint
    <3>1. /\ sync.at = "syncEvent" /\ ready.at = "markReady"
          /\ mark.at = "markCalculated"
      BY <2>2
    <3>2. /\ sync.at \notin WritePoint /\ ready.at \notin WritePoint
          /\ mark.at \notin WritePoint /\ list.at \notin WritePoint
          /\ draft.at \notin WritePoint /\ calculated.at \notin WritePoint
          /\ insert.at \notin WritePoint /\ allocated.at \notin WritePoint
      BY <2>1, <2>3, <3>1 DEF WritePoint
    <3> QED BY <3>2
  <2>6. \A r \in F \cup C : r.at \notin WritePoint
    BY <2>4, <2>5
  <2> WITNESS F \cup C
  <2> QED BY <2>6
<1>5. /\ <<sync, list>> \in Seq(S)
      /\ <<sync, draft, mark, calculated>> \in Seq(S)
      /\ <<ready>> \in Seq(S) /\ <<>> \in Seq(S)
      /\ <<sync, insert>> \in Seq(S)
      /\ <<sync, allocated>> \in Seq(S)
  BY <1>4
<1> PICK p : p = IF f.got = "open" THEN <<ready>> ELSE <<>>
  OBVIOUS
<1> PICK drafted \in Seq(S) : drafted = p \o <<sync, insert>>
  BY <1>5, JoinTyped
<1> PICK create : create = [i \in DOMAIN f.rest |-> call("createAllocation", f.rest[i])]
  OBVIOUS
<1>6. create \in Seq(S)
  BY <1>3, <1>4, EachTyped
<1> PICK created \in Seq(S) : created = create \o <<sync, allocated>>
  BY <1>5, <1>6, JoinTyped
<1>7. \A q \in Seq(S) : become(w, q) => Calm(stack'[w])
  BY <1>2, <1>4, Calmly
<1>8. \/ throw(w, "refused")
      \/ become(w, <<sync, list>>)
      \/ become(w, <<sync, draft, mark, calculated>>)
      \/ become(w, drafted)
      \/ become(w, created)
      \/ return(w, "calculated")
  BY DEF settleEventWithAllocations
<1> QED BY <1>1, <1>2, <1>5, <1>7, <1>8, Calmly

-------------------------------------------------------------------------------
(* The start of the payout keeps what waits for it undisturbed.             *)

LEMMA PutOnTop ==
  ASSUME NEW S, NEW s \in Seq(S), s # <<>>, NEW g, NEW t, t = <<g>> \o Tail(s)
  PROVE  /\ Len(s) \in Nat /\ DOMAIN t = 1..Len(s) /\ t[1] = g
         /\ \A n \in 2..Len(s) : t[n] = s[n]
<1>1. Len(s) \in Nat /\ Len(s) # 0
  BY EmptySeq
<1> QED BY <1>1

LEMMA UndisturbedOnTop ==
  ASSUME NEW s \in Seq(Record), s # <<>>, NEW status, Undisturbed(s, status),
         NEW g, g.at \in StartPoint
  PROVE  Undisturbed(<<g>> \o Tail(s), status)
<1> PICK t : t = <<g>> \o Tail(s)
  OBVIOUS
<1>1. Len(s) \in Nat
  OBVIOUS
<1>2. DOMAIN t = 1..Len(s) /\ t[1] = g /\ \A n \in 2..Len(s) : t[n] = s[n]
  BY PutOnTop
<1>3. g.at \notin WritePoint
  BY DEF StartPoint, WritePoint
<1>4. ASSUME NEW n \in DOMAIN t, t[n].at \in WritePoint
      PROVE  checked(t[n], status) /\ \A m \in 1..(n - 1) : t[m].at \in StartPoint
  <2>1. n \in 2..Len(s) /\ n \in DOMAIN s
    BY <1>1, <1>2, <1>3, <1>4
  <2>2. t[n] = s[n]
    BY <1>2, <2>1
  <2>3. checked(s[n], status) /\ \A m \in 1..(n - 1) : s[m].at \in StartPoint
    BY <1>4, <2>1, <2>2 DEF Undisturbed
  <2>4. ASSUME NEW m \in 1..(n - 1) PROVE t[m].at \in StartPoint
    <3>1. m = 1 \/ m \in 2..Len(s)
      BY <1>1, <2>1
    <3> QED BY <1>2, <2>3, <3>1
  <2> QED BY <2>2, <2>3, <2>4
<1> QED BY <1>4 DEF Undisturbed

\* The caller is the same but for the value returned to it.
LEMMA CallerKept ==
  ASSUME NEW S, NEW t \in Seq(S), t # <<>>,
         NEW g, g.at = t[1].at, g.id = t[1].id, NEW u, u = <<g>> \o Tail(t)
  PROVE  /\ Len(t) \in Nat /\ DOMAIN u = 1..Len(t)
         /\ \A n \in 1..Len(t) : u[n].at = t[n].at /\ u[n].id = t[n].id
<1>1. Len(t) \in Nat /\ Len(t) # 0
  BY EmptySeq
<1>2. DOMAIN u = 1..Len(t) /\ u[1] = g /\ \A n \in 2..Len(t) : u[n] = t[n]
  BY PutOnTop
<1>3. ASSUME NEW n \in 1..Len(t) PROVE u[n].at = t[n].at /\ u[n].id = t[n].id
  <2>1. n = 1 \/ n \in 2..Len(t)
    BY <1>1
  <2> QED BY <1>2, <2>1
<1> QED BY <1>1, <1>2, <1>3

LEMMA TailIsNext ==
  ASSUME NEW S, NEW s \in Seq(S), s # <<>>, NEW t, t = Tail(s)
  PROVE  \A n \in 1..Len(t) : t[n] = s[n + 1] /\ n + 1 \in DOMAIN s
<1>1. Len(s) \in Nat /\ Len(s) # 0
  BY EmptySeq
<1> QED BY <1>1

LEMMA OneFurther ==
  ASSUME NEW n \in Nat, NEW k \in Nat, n <= k, NEW m \in 1..(n - 1)
  PROVE  m \in 1..k /\ m + 1 \in 1..((n + 1) - 1)
OBVIOUS

LEMMA UndisturbedWhenReturned ==
  ASSUME NEW s \in Seq(Record), s # <<>>, NEW status, Undisturbed(s, status),
         NEW t \in Seq(Record), t # <<>>,
         \A n \in 1..Len(t) : t[n] = s[n + 1] /\ n + 1 \in DOMAIN s,
         NEW g, g.at = t[1].at, g.id = t[1].id, NEW u, u = <<g>> \o Tail(t)
  PROVE  Undisturbed(u, status)
<1>1. /\ Len(t) \in Nat /\ DOMAIN u = 1..Len(t)
      /\ \A n \in 1..Len(t) : u[n].at = t[n].at /\ u[n].id = t[n].id
  BY CallerKept
<1>2. ASSUME NEW n \in DOMAIN u, u[n].at \in WritePoint
      PROVE  checked(u[n], status) /\ \A m \in 1..(n - 1) : u[m].at \in StartPoint
  <2>1. /\ n \in 1..Len(t) /\ n + 1 \in DOMAIN s
        /\ u[n].at = s[n + 1].at /\ u[n].id = s[n + 1].id
    BY <1>1
  <2>2. checked(s[n + 1], status) /\ \A m \in 1..((n + 1) - 1) : s[m].at \in StartPoint
    BY <1>2, <2>1 DEF Undisturbed
  <2>3. checked(u[n], status)
    BY <2>1, <2>2 DEF checked
  <2>4. ASSUME NEW m \in 1..(n - 1) PROVE u[m].at \in StartPoint
    <3>1. n \in Nat /\ Len(t) \in Nat /\ n <= Len(t)
      BY <1>1, <2>1
    <3>2. m \in 1..Len(t) /\ m + 1 \in 1..((n + 1) - 1)
      BY <3>1, OneFurther
    <3>3. u[m].at = s[m + 1].at
      BY <1>1, <3>2
    <3> QED BY <2>2, <3>2, <3>3
  <2> QED BY <2>3, <2>4
<1> QED BY <1>2 DEF Undisturbed

\* The actions of the start of the payout.
LEMMA Quietly ==
  ASSUME Sequential, NEW w \in Worker, stack[w] # <<>>
  PROVE  /\ \A error : throw(w, error) => Undisturbed(stack'[w], claimStatus)
         /\ \A v : return(w, v) => Undisturbed(stack'[w], claimStatus)
         /\ \A g : g.at \in StartPoint /\ become(w, <<g>>) =>
                     Undisturbed(stack'[w], claimStatus)
         /\ \A at : at \in StartPoint /\ goto(w, at) => Undisturbed(stack'[w], claimStatus)
         /\ \A v, at : at \in StartPoint /\ keep(w, v, at) =>
                     Undisturbed(stack'[w], claimStatus)
<1> PICK s \in Seq(Record) : s = stack[w]
  BY StackTyped
<1>1. s # <<>> /\ s[1] \in Record /\ s[1] = top(w) /\ Undisturbed(s, claimStatus)
  BY DEF top, Sequential, StacksUndisturbed
<1>2. Undisturbed(<<>>, claimStatus)
  BY DEF Undisturbed
<1>3. ASSUME NEW q, stack' = [stack EXCEPT ![w] = q] PROVE stack'[w] = q
  BY <1>3 DEF Sequential, IInv, StacksSound
<1>4. ASSUME NEW error, throw(w, error) PROVE Undisturbed(stack'[w], claimStatus)
  <2>1. CASE stack' = [stack EXCEPT ![w] = <<>>]
    BY <1>2, <1>3, <2>1
  <2>2. ASSUME NEW n \in DOMAIN s, s[n].at \in DOMAIN catch,
               stack' = [stack EXCEPT ![w] = caughtAt(n, s, error)]
        PROVE  Undisturbed(stack'[w], claimStatus)
    <3>1. stack'[w] = caughtAt(n, s, error)
      BY <1>3, <2>2
    <3>2. Calm(caughtAt(n, s, error))
      BY <1>1, <2>2, CalmWhenCaught
    <3> QED BY <3>1, <3>2, CalmIsUndisturbed
  <2> QED BY <1>4, <2>1, <2>2 DEF throw
<1>5. ASSUME NEW v, return(w, v) PROVE Undisturbed(stack'[w], claimStatus)
  <2>1. CASE Tail(s) = <<>>
    BY <1>2, <1>3, <1>5, <2>1 DEF return
  <2>2. CASE Tail(s) # <<>>
    <3> PICK t \in Seq(Record) : t = Tail(s)
      BY <1>1, HeadTailProperties
    <3> PICK g : g = [Head(t) EXCEPT !.got = v]
      OBVIOUS
    <3> PICK u : u = <<g>> \o Tail(t)
      OBVIOUS
    <3>1. stack' = [stack EXCEPT ![w] = u]
      BY <1>5, <2>2 DEF return
    <3>2. Len(t) \in Nat /\ Len(t) # 0
      BY EmptySeq, <2>2
    <3> PICK r \in Record : r = Head(t) /\ r = t[1]
      BY <3>2
    <3>3. g.at = t[1].at /\ g.id = t[1].id
      BY DEF Record
    <3>4. \A n \in 1..Len(t) : t[n] = s[n + 1] /\ n + 1 \in DOMAIN s
      BY <1>1, TailIsNext
    <3>5. Undisturbed(u, claimStatus)
      BY <1>1, <2>2, <3>3, <3>4, UndisturbedWhenReturned
    <3> QED BY <1>3, <3>1, <3>5
  <2> QED BY <2>1, <2>2
<1>6. ASSUME NEW g, g.at \in StartPoint, become(w, <<g>>)
      PROVE  Undisturbed(stack'[w], claimStatus)
  <2>1. stack' = [stack EXCEPT ![w] = <<g>> \o Tail(s)]
    BY <1>6 DEF become
  <2>2. Undisturbed(<<g>> \o Tail(s), claimStatus)
    BY <1>1, <1>6, UndisturbedOnTop
  <2> QED BY <1>3, <2>1, <2>2
<1>7. ASSUME NEW at, at \in StartPoint, goto(w, at) PROVE Undisturbed(stack'[w], claimStatus)
  <2> PICK g : g = [top(w) EXCEPT !.at = at]
    OBVIOUS
  <2>1. g.at = at
    BY <1>1 DEF Record
  <2>2. become(w, <<g>>)
    BY <1>7 DEF goto
  <2> QED BY <1>6, <1>7, <2>1, <2>2
<1>8. ASSUME NEW v, NEW at, at \in StartPoint, keep(w, v, at)
      PROVE  Undisturbed(stack'[w], claimStatus)
  <2> PICK g : g = [top(w) EXCEPT !.at = at, !.kept = v]
    OBVIOUS
  <2>1. g.at = at
    BY <1>1 DEF Record
  <2>2. become(w, <<g>>)
    BY <1>8 DEF keep
  <2> QED BY <1>6, <1>8, <2>1, <2>2
<1> QED BY <1>4, <1>5, <1>6, <1>7, <1>8

LEMMA SyncStatusQuiet ==
  ASSUME Sequential, NEW w \in Worker, stack[w] # <<>>, syncStatus(w)
  PROVE  UNCHANGED claimStatus /\ Undisturbed(stack'[w], claimStatus)
<1>1. UNCHANGED claimStatus
  BY DEF syncStatus, reads, vars, writeEvent
<1> QED BY <1>1, Quietly DEF syncStatus, StartPoint

LEMMA StartPayingQuiet ==
  ASSUME Sequential, NEW w \in Worker, stack[w] # <<>>, startPaying(w)
  PROVE  UNCHANGED claimStatus /\ Undisturbed(stack'[w], claimStatus)
<1>1. UNCHANGED claimStatus
  BY DEF startPaying, reads, vars
<1> QED BY <1>1, Quietly DEF startPaying, StartPoint

LEMMA WriteSettlementStatusQuiet ==
  ASSUME Sequential, NEW w \in Worker, stack[w] # <<>>, writeSettlementStatus(w)
  PROVE  UNCHANGED claimStatus /\ Undisturbed(stack'[w], claimStatus)
<1>1. UNCHANGED claimStatus
  BY DEF writeSettlementStatus, writeSettlement
<1> PICK c : c = call("syncEvent", EventOf[top(w).id])
  OBVIOUS
<1>2. c.at \in StartPoint
  BY DEF call, StartPoint
<1>3. return(w, top(w).kept) \/ become(w, <<c>>)
  BY DEF writeSettlementStatus
<1> QED BY <1>1, <1>2, <1>3, Quietly

-------------------------------------------------------------------------------
(* The two methods that write what they have found out.                     *)

\* On a calm stack: a record about to write, with the start of the payout or without.
LEMMA WriterOnTop ==
  ASSUME NEW t \in Seq(Record), Calm(t), NEW status, NEW g, checked(g, status),
         NEW h, h.at \in StartPoint
  PROVE  Undisturbed(<<g>> \o t, status) /\ Undisturbed(<<h, g>> \o t, status)
<1>1. Len(t) \in Nat
  OBVIOUS
<1>2. Undisturbed(<<g>> \o t, status)
  <2> PICK u : u = <<g>> \o t
    OBVIOUS
  <2>1. DOMAIN u = 1..(1 + Len(t)) /\ u[1] = g /\ \A n \in 2..(1 + Len(t)) : u[n] = t[n - 1]
    BY <1>1
  <2>2. ASSUME NEW n \in DOMAIN u, u[n].at \in WritePoint PROVE n = 1
    <3>1. CASE n \in 2..(1 + Len(t))
      <4>1. n - 1 \in DOMAIN t /\ u[n] = t[n - 1]
        BY <1>1, <2>1, <3>1
      <4> QED BY <2>2, <4>1 DEF Calm
    <3> QED BY <1>1, <2>1, <3>1
  <2>3. Undisturbed(u, status)
    BY <2>1, <2>2 DEF Undisturbed
  <2> QED BY <2>3
<1>3. Undisturbed(<<h, g>> \o t, status)
  <2> PICK u : u = <<h, g>> \o t
    OBVIOUS
  <2>1. /\ DOMAIN u = 1..(2 + Len(t)) /\ u[1] = h /\ u[2] = g
        /\ \A n \in 3..(2 + Len(t)) : u[n] = t[n - 2]
    BY <1>1
  <2>2. ASSUME NEW n \in DOMAIN u, u[n].at \in WritePoint PROVE n = 2
    <3>1. CASE n \in 3..(2 + Len(t))
      <4>1. n - 2 \in DOMAIN t /\ u[n] = t[n - 2]
        BY <1>1, <2>1, <3>1
      <4> QED BY <2>2, <4>1 DEF Calm
    <3>2. n # 1
      BY <2>1, <2>2 DEF StartPoint, WritePoint
    <3> QED BY <1>1, <2>1, <3>1, <3>2
  <2>3. Undisturbed(u, status)
    BY <2>1, <2>2 DEF Undisturbed
  <2> QED BY <2>3
<1> QED BY <1>2, <1>3

\* The claims of the share are listed right before the record that adds one.
LEMMA RecordClaimKept ==
  ASSUME Sequential, NEW w \in Worker, stack[w] # <<>>, recordClaim(w)
  PROVE  OneActiveClaim' /\ Undisturbed(stack'[w], claimStatus')
<1> PICK s \in Seq(Record) : s = stack[w]
  BY StackTyped
<1>1. s # <<>> /\ s[1] = top(w) /\ 1 \in DOMAIN s /\ Undisturbed(s, claimStatus)
  <2>1. Len(s) \in Nat /\ Len(s) # 0
    BY EmptySeq
  <2> QED BY <2>1 DEF top, Sequential, StacksUndisturbed
<1>2. top(w).at \notin StartPoint
  BY DEF recordClaim, StartPoint
<1> PICK t \in Seq(Record) : t = Tail(s)
  BY <1>1, HeadTailProperties
<1>3. Calm(t)
  BY <1>1, <1>2, CalmBelow
<1> PICK f \in Record : f = top(w) /\ sound(f)
  BY TopTyped
<1>4. f.id \in Claim
  BY DEF recordClaim, sound, rowsTyped, ClaimPoint
<1>5. CASE f.at \in {"recordClaim", "recordClaim.settlement"}
  <2>1. UNCHANGED claimStatus
    BY <1>5 DEF recordClaim, reads, vars
  <2> PICK v : v = settlementStatus[SettlementOf[AllocationOf[f.id]]]
    OBVIOUS
  <2>2. \/ throw(w, "refused")
        \/ goto(w, "recordClaim.settlement")
        \/ keep(w, v, "recordClaim.claims")
    BY <1>5 DEF recordClaim
  <2>3. Calm(stack'[w])
    BY <1>2, <2>2, Calmly DEF WritePoint
  <2>4. Undisturbed(stack'[w], claimStatus')
    BY <2>3, CalmIsUndisturbed
  <2> QED BY <2>1, <2>4 DEF Sequential, OneActiveClaim
<1>6. CASE f.at = "recordClaim.claims"
  <2>1. UNCHANGED claimStatus
    BY <1>6 DEF recordClaim, reads, vars
  <2>2. CASE throw(w, "refused")
    <3>1. Calm(stack'[w])
      BY <1>2, <2>2, Calmly
    <3>2. Undisturbed(stack'[w], claimStatus')
      BY <3>1, CalmIsUndisturbed
    <3> QED BY <2>1, <3>2 DEF Sequential, OneActiveClaim
  <2>3. CASE activeClaims(claimStatus, AllocationOf[f.id]) = {}
    <3> PICK g : g = [f EXCEPT !.at = "recordClaim.insert"]
      OBVIOUS
    <3> PICK h : h = call("startPaying", SettlementOf[AllocationOf[f.id]])
      OBVIOUS
    <3>1. g.at = "recordClaim.insert" /\ g.id = f.id /\ h.at \in StartPoint
      BY DEF Record, call, StartPoint
    <3>2. checked(g, claimStatus)
      BY <2>3, <3>1 DEF checked, isLive, activeClaims
    <3>3. Undisturbed(<<g>> \o t, claimStatus) /\ Undisturbed(<<h, g>> \o t, claimStatus)
      BY <1>3, <3>1, <3>2, WriterOnTop
    <3>4. \/ throw(w, "refused")
          \/ stack' = [stack EXCEPT ![w] = <<g>> \o t]
          \/ stack' = [stack EXCEPT ![w] = <<h, g>> \o t]
      BY <1>6 DEF recordClaim, goto, become
    <3>5. CASE ~ throw(w, "refused")
      <4>1. stack'[w] = <<g>> \o t \/ stack'[w] = <<h, g>> \o t
        BY <3>4, <3>5 DEF Sequential, IInv, StacksSound
      <4> QED BY <2>1, <3>3, <4>1 DEF Sequential, OneActiveClaim
    <3> QED BY <2>2, <3>5
  <2> QED BY <1>6, <2>2, <2>3 DEF recordClaim
<1>7. CASE f.at = "recordClaim.insert"
  <2>1. claimStatus' = [claimStatus EXCEPT ![f.id] = "recorded"] /\ return(w, "recorded")
    BY <1>7 DEF recordClaim, writeClaim
  <2>2. checked(f, claimStatus)
    BY <1>1, <1>7 DEF Undisturbed, WritePoint
  <2>3. \A c \in Claim : AllocationOf[c] = AllocationOf[f.id] =>
          claimStatus[c] \notin {"recorded", "confirmed"}
    BY <1>7, <2>2 DEF checked, isLive
  <2>4. OneActiveClaim /\ claimStatus \in [Claim -> Absent(ClaimStatus)]
    BY DEF Sequential, IInv, Tables, TypeOK
  <2>5. OneActiveClaim'
    BY <1>4, <2>1, <2>3, <2>4 DEF OneActiveClaim
  <2>6. Calm(stack'[w])
    BY <1>2, <2>1, Calmly
  <2> QED BY <2>5, <2>6, CalmIsUndisturbed
<1> QED BY <1>5, <1>6, <1>7 DEF recordClaim

\* A confirmation finds its claim live and leaves it so.
LEMMA ConfirmClaimKept ==
  ASSUME Sequential, NEW w \in Worker, stack[w] # <<>>, confirmClaim(w)
  PROVE  OneActiveClaim' /\ Undisturbed(stack'[w], claimStatus')
<1> PICK s \in Seq(Record) : s = stack[w]
  BY StackTyped
<1>1. s # <<>> /\ s[1] = top(w) /\ 1 \in DOMAIN s /\ Undisturbed(s, claimStatus)
  <2>1. Len(s) \in Nat /\ Len(s) # 0
    BY EmptySeq
  <2> QED BY <2>1 DEF top, Sequential, StacksUndisturbed
<1>2. top(w).at \notin StartPoint
  BY DEF confirmClaim, StartPoint
<1> PICK t \in Seq(Record) : t = Tail(s)
  BY <1>1, HeadTailProperties
<1>3. Calm(t)
  BY <1>1, <1>2, CalmBelow
<1> PICK f \in Record : f = top(w) /\ sound(f)
  BY TopTyped
<1>4. f.id \in Claim
  BY DEF confirmClaim, sound, rowsTyped, ClaimPoint
<1>5. OneActiveClaim /\ claimStatus \in [Claim -> Absent(ClaimStatus)]
  BY DEF Sequential, IInv, Tables, TypeOK
<1>6. CASE f.at = "confirmClaim"
  <2>1. UNCHANGED claimStatus
    BY <1>6 DEF confirmClaim, reads, vars
  <2>2. CASE throw(w, "refused")
    <3>1. Calm(stack'[w])
      BY <1>2, <2>2, Calmly
    <3>2. Undisturbed(stack'[w], claimStatus')
      BY <3>1, CalmIsUndisturbed
    <3> QED BY <1>5, <2>1, <3>2 DEF OneActiveClaim
  <2>3. CASE ~ throw(w, "refused")
    <3>1. claimStatus[f.id] \in {"recorded", "confirmed"}
      BY <1>6, <2>3 DEF confirmClaim, assertTransition, claimStateMachine
    <3> PICK g : g = [f EXCEPT !.at = "confirmClaim.write"]
      OBVIOUS
    <3> PICK h : h = call("startPaying", f.id)
      OBVIOUS
    <3>2. g.at = "confirmClaim.write" /\ g.id = f.id /\ h.at \in StartPoint
      BY DEF Record, call, StartPoint
    <3>3. checked(g, claimStatus)
      BY <3>1, <3>2 DEF checked, isLive
    <3>4. Undisturbed(<<g>> \o t, claimStatus)
      BY <1>3, <3>2, <3>3, WriterOnTop
    <3>5. stack' = [stack EXCEPT ![w] = <<g>> \o t]
      BY <1>6, <2>3 DEF confirmClaim, goto, become
    <3>6. stack'[w] = <<g>> \o t
      BY <3>5 DEF Sequential, IInv, StacksSound
    <3> QED BY <1>5, <2>1, <3>4, <3>6 DEF OneActiveClaim
  <2> QED BY <2>2, <2>3
<1>7. CASE f.at = "confirmClaim.write"
  <2>1. claimStatus' = [claimStatus EXCEPT ![f.id] = "confirmed"]
        /\ goto(w, "confirmClaim.allocation")
    BY <1>7 DEF confirmClaim, writeClaim
  <2>2. claimStatus[f.id] \in {"recorded", "confirmed"}
    BY <1>1, <1>7 DEF Undisturbed, WritePoint, checked, isLive
  <2>3. OneActiveClaim'
    BY <1>4, <1>5, <2>1, <2>2 DEF OneActiveClaim
  <2>4. Calm(stack'[w])
    BY <1>2, <2>1, Calmly DEF WritePoint
  <2> QED BY <2>3, <2>4, CalmIsUndisturbed
<1>8. CASE f.at = "confirmClaim.allocation"
  <2>1. UNCHANGED claimStatus
    BY <1>8 DEF confirmClaim, reads, vars
  <2> PICK g : g = call("markClaimed", AllocationOf[f.id])
    OBVIOUS
  <2>2. g.at \notin WritePoint
    BY DEF call, WritePoint
  <2>3. return(w, "confirmed") \/ become(w, <<g>>)
    BY <1>8 DEF confirmClaim
  <2>4. Calm(stack'[w])
    BY <1>2, <2>2, <2>3, Calmly
  <2>5. Undisturbed(stack'[w], claimStatus')
    BY <2>4, CalmIsUndisturbed
  <2> QED BY <1>5, <2>1, <2>5 DEF OneActiveClaim
<1> QED BY <1>6, <1>7, <1>8 DEF confirmClaim

-------------------------------------------------------------------------------
(* Requests, failures and the specification.                                *)

LEMMA StepKept ==
  ASSUME Sequential, NEW w \in Worker, Step(w)
  PROVE  OneActiveClaim' /\ Undisturbed(stack'[w], claimStatus')
<1>0. stack[w] # <<>> /\ OneActiveClaim
  BY DEF Step, Sequential
<1>1. CASE UNCHANGED claimStatus /\ Undisturbed(stack'[w], claimStatus)
  BY <1>0, <1>1 DEF OneActiveClaim
<1>2. CASE syncStatus(w) \/ startPaying(w) \/ writeSettlementStatus(w)
  BY <1>0, <1>1, <1>2, SyncStatusQuiet, StartPayingQuiet, WriteSettlementStatusQuiet
<1>3. CASE UNCHANGED claimStatus /\ Calm(stack'[w])
  BY <1>1, <1>3, CalmIsUndisturbed
<1>4. CASE moveEvent(w) \/ editEvent(w) \/ replaceEventParticipants(w)
  BY <1>0, <1>3, <1>4, MoveEventCalm, EditEventCalm, ReplaceEventParticipantsCalm
<1>5. CASE \/ createDraftSettlement(w) \/ markCalculated(w) \/ markPaid(w)
           \/ cancelSettlement(w) \/ syncSettlement(w) \/ editSettlement(w)
  BY <1>0, <1>3, <1>5, CreateDraftSettlementCalm, MarkCalculatedCalm, MarkPaidCalm,
     CancelSettlementCalm, SyncSettlementCalm, EditSettlementCalm
<1>6. CASE createPendingAllocation(w) \/ closeShare(w) \/ matchAllocation(w)
  BY <1>0, <1>3, <1>6, CreatePendingAllocationCalm, CloseShareCalm, MatchAllocationCalm
<1>7. CASE \/ recordBatchClaims(w) \/ disburseSettlement(w)
           \/ settleEventWithAllocations(w) \/ rollbackSettlementFailure(w)
  BY <1>0, <1>3, <1>7, RecordBatchClaimsCalm, DisburseSettlementCalm,
     SettleEventWithAllocationsCalm, RollbackCalm
<1>8. CASE voidClaim(w)
  BY <1>0, <1>8, VoidClaimCalm, CalmIsUndisturbed
<1>9. CASE recordClaim(w) \/ confirmClaim(w)
  BY <1>0, <1>9, RecordClaimKept, ConfirmClaimKept
<1> QED BY <1>2, <1>4, <1>5, <1>6, <1>7, <1>8, <1>9 DEF Step

LEMMA BeginKept ==
  ASSUME Sequential, NEW w \in Worker, NEW r \in Requests[w], Begin(w, r)
  PROVE  OneActiveClaim' /\ Undisturbed(stack'[w], claimStatus')
<1>1. UNCHANGED claimStatus /\ OneActiveClaim
  BY DEF Begin, vars, Sequential
<1>2. r.at \notin WritePoint
  <2>1. wellFormed(r)
    BY RequestsAreWellFormed
  <2> QED BY <2>1 DEF wellFormed, WritePoint
<1>3. stack'[w] = <<r>>
  BY DEF Begin, Sequential, IInv, StacksSound
<1>4. Calm(<<r>>)
  BY <1>2 DEF Calm
<1> QED BY <1>1, <1>3, <1>4, CalmIsUndisturbed DEF OneActiveClaim

LEMMA FailKept ==
  ASSUME Sequential, NEW w \in Worker, Fail(w)
  PROVE  OneActiveClaim' /\ Undisturbed(stack'[w], claimStatus')
<1>1. UNCHANGED claimStatus /\ OneActiveClaim /\ throw(w, "failed") /\ stack[w] # <<>>
  BY DEF Fail, vars, Sequential
<1>2. Undisturbed(stack'[w], claimStatus)
  BY <1>1, Quietly
<1> QED BY <1>1, <1>2 DEF OneActiveClaim

LEMMA StopKept ==
  ASSUME Sequential, NEW w \in Worker, Stop(w)
  PROVE  OneActiveClaim' /\ Undisturbed(stack'[w], claimStatus')
<1>1. UNCHANGED claimStatus /\ OneActiveClaim
  BY DEF Stop, vars, Sequential
<1>2. stack'[w] = <<>>
  BY DEF Stop, Sequential, IInv, StacksSound
<1> QED BY <1>1, <1>2 DEF OneActiveClaim, Undisturbed

\* As long as requests come one after another, no share is claimed twice, however
\* many of their statements fail and wherever they are stopped: the claims of a share
\* are looked at before the payout is started, the claim is inserted after it, and the
\* start of the payout touches no claim.
THEOREM ClaimsStayExclusive ==
  ASSUME OneByOne
  PROVE  StepsSpec => []OneActiveClaim
<1>1. StepsInit => Sequential
  <2> SUFFICES ASSUME StepsInit PROVE Sequential
    OBVIOUS
  <2>1. IInv
    <3>1. Tables
      BY DEF StepsInit, Init, Tables, TypeOK, PayoutHasAllocations, ClaimedWasConfirmed, Absent
    <3>2. StacksSound
      BY DEF StepsInit, StacksSound
    <3> QED BY <3>1, <3>2 DEF IInv
  <2>2. OneActiveClaim
    BY DEF StepsInit, Init, OneActiveClaim
  <2>3. StacksUndisturbed
    BY DEF StepsInit, StacksUndisturbed, Undisturbed
  <2> QED BY <2>1, <2>2, <2>3 DEF Sequential
<1>2. Sequential /\ IInv' /\ [StepsNext]_stepVars => Sequential'
  <2> SUFFICES ASSUME Sequential, IInv', [StepsNext]_stepVars PROVE Sequential'
    OBVIOUS
  <2>1. CASE UNCHANGED stepVars
    BY <2>1 DEF stepVars, vars, Sequential, OneActiveClaim, StacksUndisturbed
  <2>2. ASSUME NEW w \in Worker, OneActiveClaim' /\ Undisturbed(stack'[w], claimStatus')
        PROVE  Sequential'
    <3>1. \A v \in Worker : Undisturbed(stack'[v], claimStatus')
      BY <2>2 DEF OneByOne
    <3> QED BY <2>2, <3>1 DEF Sequential, StacksUndisturbed
  <2>3. CASE StepsNext
    BY <2>2, <2>3, BeginKept, StepKept, FailKept, StopKept DEF StepsNext
  <2> QED BY <2>1, <2>3
<1>3. Sequential => OneActiveClaim
  BY DEF Sequential
<1> QED BY <1>1, <1>2, <1>3, StepsInvariant, PTL DEF StepsSpec
===============================================================================
