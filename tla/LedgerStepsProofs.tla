--------------------------- MODULE LedgerStepsProofs ---------------------------
(***************************************************************************)
(* What survives every interleaving of the ledger's statements, for any    *)
(* number of workers, requests, failed statements and stopped workers.     *)
(***************************************************************************)
EXTENDS LedgerStepsProperties, SequenceTheorems, TLAPS

-------------------------------------------------------------------------------
(* Activation records.  A method relies on what its caller has read or      *)
(* written before it, at any distance in time, so the invariant has to say  *)
(* of every record of every stack what the point it is at may rely on.      *)

EventPoint ==
  {"createEvent", "editEvent", "editEvent.read", "editEvent.write", "markReady",
   "cancelEvent", "participants.delete", "participants.insert",
   "syncEvent", "syncEvent.list", "event.write"}

\* The points of the settle request and its rollback, which need the event.
SettlePoint ==
  {"settle", "settle.list", "settleEvent.ready", "settle.calculated", "settle.allocated",
   "settle.rollback", "settle.cancelled", "settle.resync", "settle.resynced"}

DisbursePoint == {"disburse", "disburse.participants", "disburse.list"}

SettlementPoint == SettlePoint \cup DisbursePoint \cup
  {"createSettlement", "createDraft.insert", "createDraft.trust", "settlement.write",
   "markCalculated", "startPaying", "startPaying.list", "markPaid", "markPaid.read",
   "cancelSettlement", "cancelSettlement.list", "syncSettlement", "syncSettlement.list",
   "editSettlement", "editSettlement.list", "editSettlement.read", "settlement.restore"}

AllocationPoint ==
  {"createAllocation", "createAllocation.participants", "createAllocation.insert",
   "markClaimed", "waive", "cancelAllocation", "allocation.write", "matchAllocation"}

ClaimPoint ==
  {"recordClaim", "recordClaim.settlement", "recordClaim.claims", "recordClaim.insert",
   "confirmClaim", "confirmClaim.write", "confirmClaim.allocation",
   "voidClaim", "voidClaim.write", "voidClaim.allocation", "voidClaim.siblings",
   "voidClaim.reopen"}

BatchPoint == {"batch", "batch.settlement", "batch.claims"}

\* The points of a request that carry a list of characters.
EditPoint ==
  {"createEvent", "editEvent", "editEvent.read", "editEvent.write",
   "participants.delete", "participants.insert"}

\* The rows a record is about.
rowsTyped(f) ==
  /\ f.at \in EventPoint => f.id \in Event
  /\ f.at \in SettlementPoint => f.id \in Settlement
  /\ f.at \in SettlePoint => EventOf[f.id] # NoEvent
  /\ f.at \in AllocationPoint => f.id \in Allocation
  /\ f.at \in ClaimPoint => f.id \in Claim

listTyped(f) ==
  /\ f.at \in EditPoint => f.rest \in Seq(Character)
  /\ f.at = "participants.insert" => f.rest # <<>>
  /\ f.at \in SettlePoint => f.rest \in Seq(Allocation)
  /\ f.at \in BatchPoint \cup DisbursePoint => f.rest \in Seq(Claim)
  /\ f.at \in BatchPoint => f.rest # <<>>

\* The statuses about to be written.
statusTyped(f) ==
  /\ f.at = "syncEvent.list" => f.kept \in EventStatus
  /\ f.at \in {"editEvent.write", "event.write"} => f.kept \in Absent(EventStatus)
  /\ f.at \in {"settlement.write", "settlement.restore"} => f.kept \in Absent(SettlementStatus)
  /\ f.at = "allocation.write" => f.kept \in AllocationStatus

hasAllocations(s) ==
  \E a \in Allocation : SettlementOf[a] = s /\ exists(allocationStatus, a)

wasConfirmed(c) == claimStatus[c] \in {"confirmed", "voided"}

hasConfirmed(a) == \E c \in Claim : AllocationOf[c] = a /\ wasConfirmed(c)

\* What a record knows of the tables, and goes on to be true until it acts on it:
\* who is about to write a payout has seen an allocation, who is about to mark a
\* share has seen its claim confirmed.
knows(f) ==
  /\ /\ f.at \in {"settlement.write", "settlement.restore"}
     /\ f.kept \in {"paying", "paid"}
     => hasAllocations(f.id)
  /\ f.at = "confirmClaim.allocation" => wasConfirmed(f.id)
  /\ f.at = "markClaimed" => hasConfirmed(f.id)
  /\ f.at = "allocation.write" /\ f.kept = "claimed" => hasConfirmed(f.id)

sound(f) == rowsTyped(f) /\ listTyped(f) /\ statusTyped(f) /\ knows(f)

Point == EventPoint \cup SettlementPoint \cup AllocationPoint \cup ClaimPoint \cup BatchPoint

Row == Event \cup Settlement \cup Allocation \cup Claim \cup {"all"}

Value == Absent(EventStatus) \cup SettlementStatus \cup AllocationStatus \cup ClaimStatus
  \cup {"none", "done", "matched", "plain", "exception", "terminal",
        "refused", "failed", "rolled back"}

Record ==
  [at : Point, id : Row, got : Value, kept : Value,
   rest : Seq(Character \cup Allocation \cup Claim)]

Frame == {f \in Record : sound(f)}

StacksSound == stack \in [Worker -> Seq(Frame)]

Tables == TypeOK /\ PayoutHasAllocations /\ ClaimedWasConfirmed

IInv == Tables /\ StacksSound

-------------------------------------------------------------------------------
(* What a record knows stays true while it waits: allocations are not       *)
(* deleted, and a confirmation is not undone but by a withdrawal.           *)

LEMMA KnowledgeLasts ==
  ASSUME \A s \in Settlement : hasAllocations(s) => hasAllocations(s)',
         \A c \in Claim : wasConfirmed(c) => wasConfirmed(c)'
  PROVE  Frame \subseteq Frame'
<1> SUFFICES ASSUME NEW f \in Frame PROVE f \in Frame'
  OBVIOUS
<1>1. \A a \in Allocation : hasConfirmed(a) => hasConfirmed(a)'
  BY DEF hasConfirmed
<1>2. /\ f \in Record /\ rowsTyped(f) /\ listTyped(f) /\ statusTyped(f) /\ knows(f)
  BY DEF Frame, sound
<1>3. knows(f)'
  <2>1. /\ f.at \in {"settlement.write", "settlement.restore"} => f.id \in Settlement
        /\ f.at = "confirmClaim.allocation" => f.id \in Claim
        /\ f.at \in {"markClaimed", "allocation.write"} => f.id \in Allocation
    BY <1>2 DEF rowsTyped, SettlementPoint, ClaimPoint, AllocationPoint
  <2> QED BY <1>1, <1>2, <2>1 DEF knows
<1> QED BY <1>2, <1>3 DEF Frame, sound, rowsTyped, listTyped, statusTyped

LEMMA ReadsChangeNothing ==
  ASSUME Tables, UNCHANGED vars
  PROVE  Tables' /\ Frame \subseteq Frame'
<1>1. Tables'
  BY DEF Tables, vars, TypeOK, PayoutHasAllocations, ClaimedWasConfirmed, exists
<1>2. Frame \subseteq Frame'
  BY KnowledgeLasts DEF vars, hasAllocations, wasConfirmed, exists
<1> QED BY <1>1, <1>2

LEMMA EventWritten ==
  ASSUME Tables, NEW e, NEW v \in Absent(EventStatus),
         eventStatus' = [eventStatus EXCEPT ![e] = v],
         UNCHANGED <<participants, settlementStatus, exceptionConfirmed,
                     allocationStatus, claimStatus>>
  PROVE  Tables' /\ Frame \subseteq Frame'
<1>1. TypeOK'
  BY DEF Tables, TypeOK
<1>2. PayoutHasAllocations' /\ ClaimedWasConfirmed'
  BY DEF Tables, PayoutHasAllocations, ClaimedWasConfirmed, exists
<1>3. Frame \subseteq Frame'
  BY KnowledgeLasts DEF hasAllocations, wasConfirmed, exists
<1> QED BY <1>1, <1>2, <1>3 DEF Tables

LEMMA ParticipantsWritten ==
  ASSUME Tables, NEW e, NEW P \in SUBSET Character,
         participants' = [participants EXCEPT ![e] = P],
         UNCHANGED <<eventStatus, settlementStatus, exceptionConfirmed,
                     allocationStatus, claimStatus>>
  PROVE  Tables' /\ Frame \subseteq Frame'
<1>1. TypeOK'
  BY DEF Tables, TypeOK
<1>2. PayoutHasAllocations' /\ ClaimedWasConfirmed'
  BY DEF Tables, PayoutHasAllocations, ClaimedWasConfirmed, exists
<1>3. Frame \subseteq Frame'
  BY KnowledgeLasts DEF hasAllocations, wasConfirmed, exists
<1> QED BY <1>1, <1>2, <1>3 DEF Tables

LEMMA SettlementWritten ==
  ASSUME Tables, NEW s, NEW v \in Absent(SettlementStatus),
         s \in Settlement /\ v \in {"paying", "paid"} => hasAllocations(s),
         settlementStatus' = [settlementStatus EXCEPT ![s] = v],
         exceptionConfirmed' \in [Settlement -> BOOLEAN],
         UNCHANGED <<eventStatus, participants, allocationStatus, claimStatus>>
  PROVE  Tables' /\ Frame \subseteq Frame'
<1>1. Tables'
  <2>1. TypeOK' /\ ClaimedWasConfirmed'
    BY DEF Tables, TypeOK, ClaimedWasConfirmed
  <2>2. PayoutHasAllocations'
    BY DEF Tables, TypeOK, PayoutHasAllocations, exists, hasAllocations
  <2> QED BY <2>1, <2>2 DEF Tables
<1>2. Frame \subseteq Frame'
  BY KnowledgeLasts DEF hasAllocations, wasConfirmed, exists
<1> QED BY <1>1, <1>2

LEMMA AllocationWritten ==
  ASSUME Tables, NEW a, NEW v \in AllocationStatus,
         a \in Allocation /\ v = "claimed" => hasConfirmed(a),
         allocationStatus' = [allocationStatus EXCEPT ![a] = v],
         UNCHANGED <<eventStatus, participants, settlementStatus,
                     exceptionConfirmed, claimStatus>>
  PROVE  Tables' /\ Frame \subseteq Frame'
<1>1. v # "absent"
  BY DEF AllocationStatus
<1>2. TypeOK'
  BY DEF Tables, TypeOK, Absent
<1>3. \A b \in Allocation : exists(allocationStatus, b) => exists(allocationStatus', b)
  BY <1>1 DEF Tables, TypeOK, exists
<1>4. PayoutHasAllocations'
  BY <1>3 DEF Tables, PayoutHasAllocations
<1>5. ClaimedWasConfirmed'
  BY DEF Tables, TypeOK, ClaimedWasConfirmed, hasConfirmed, wasConfirmed
<1>6. Frame \subseteq Frame'
  BY <1>3, KnowledgeLasts DEF hasAllocations, wasConfirmed
<1> QED BY <1>2, <1>4, <1>5, <1>6 DEF Tables

LEMMA ClaimWritten ==
  ASSUME Tables, NEW c, NEW v \in ClaimStatus,
         claimStatus[c] = "absent" \/ v \in {"confirmed", "voided"},
         claimStatus' = [claimStatus EXCEPT ![c] = v],
         UNCHANGED <<eventStatus, participants, settlementStatus,
                     exceptionConfirmed, allocationStatus>>
  PROVE  Tables' /\ Frame \subseteq Frame'
<1>1. TypeOK'
  BY DEF Tables, TypeOK, Absent
<1>2. \A d \in Claim : wasConfirmed(d) => wasConfirmed(d)'
  BY DEF Tables, TypeOK, wasConfirmed
<1>3. PayoutHasAllocations'
  BY DEF Tables, PayoutHasAllocations, exists
<1>4. ClaimedWasConfirmed'
  BY <1>2 DEF Tables, ClaimedWasConfirmed, wasConfirmed
<1>5. Frame \subseteq Frame'
  BY <1>2, KnowledgeLasts DEF hasAllocations, exists
<1> QED BY <1>1, <1>3, <1>4, <1>5 DEF Tables

-------------------------------------------------------------------------------
(* The four ways a method goes on keep the stacks sound.                    *)

LEMMA TopIsSound ==
  ASSUME StacksSound, NEW w \in Worker, stack[w] # <<>>
  PROVE  top(w) \in Frame
BY DEF StacksSound, top

LEMMA BecomeIsSound ==
  ASSUME StacksSound, Frame \subseteq Frame', NEW w \in Worker, stack[w] # <<>>,
         NEW q \in Seq(Frame'), stack' = [stack EXCEPT ![w] = q \o Tail(@)]
  PROVE  StacksSound'
<1>1. stack \in [Worker -> Seq(Frame')]
  BY DEF StacksSound
<1>2. q \o Tail(stack[w]) \in Seq(Frame')
  BY <1>1
<1> QED BY <1>1, <1>2 DEF StacksSound

LEMMA PushTyped ==
  ASSUME NEW F, NEW f \in F, NEW s \in Seq(F)
  PROVE  <<f>> \o s \in Seq(F)
OBVIOUS

\* No method relies on the value its callee returns.
LEMMA GotIsFree ==
  ASSUME NEW f \in Frame', NEW v \in Value
  PROVE  [f EXCEPT !.got = v] \in Frame'
BY DEF Frame, Record, sound, rowsTyped, listTyped, statusTyped, knows

LEMMA ReturnIsSound ==
  ASSUME StacksSound, Frame \subseteq Frame', NEW w \in Worker, stack[w] # <<>>,
         NEW v \in Value,
         stack' = IF Tail(stack[w]) = <<>> THEN [stack EXCEPT ![w] = <<>>]
                  ELSE [stack EXCEPT ![w] = <<[Head(Tail(stack[w])) EXCEPT !.got = v]>>
                                             \o Tail(Tail(stack[w]))]
  PROVE  StacksSound'
<1>1. stack \in [Worker -> Seq(Frame')]
  BY DEF StacksSound
<1>2. CASE Tail(stack[w]) = <<>>
  BY <1>1, <1>2 DEF StacksSound
<1>3. CASE Tail(stack[w]) # <<>>
  <2>1. Head(Tail(stack[w])) \in Frame' /\ Tail(Tail(stack[w])) \in Seq(Frame')
    BY <1>1, <1>3
  <2>2. [Head(Tail(stack[w])) EXCEPT !.got = v] \in Frame'
    BY <2>1, GotIsFree
  <2>3. <<[Head(Tail(stack[w])) EXCEPT !.got = v]>> \o Tail(Tail(stack[w])) \in Seq(Frame')
    BY <2>1, <2>2, PushTyped
  <2> QED BY <1>1, <1>3, <2>3 DEF StacksSound
<1> QED BY <1>2, <1>3

LEMMA CatchIsSound ==
  ASSUME NEW f \in Frame', f.at \in DOMAIN catch, NEW v \in Value
  PROVE  [f EXCEPT !.at = catch[@], !.got = v] \in Frame'
<1>1. f.at \in SettlePoint /\ f.at \in Point
  BY DEF catch, SettlePoint, SettlementPoint, Point
<1>2. catch[f.at] \in {"settle.rollback", "settle.resync", "settle.resynced"}
  BY DEF catch
<1>3. rowsTyped(f)' /\ listTyped(f)' /\ f \in Record
  BY DEF Frame, sound
<1>4. f.id \in Settlement /\ EventOf[f.id] # NoEvent /\ f.rest \in Seq(Allocation)
  BY <1>1, <1>3 DEF rowsTyped, listTyped, SettlementPoint
<1> DEFINE g == [f EXCEPT !.at = catch[@], !.got = v]
<1>5. g \in Record
  BY <1>2, <1>3 DEF Record, Point, SettlementPoint, SettlePoint
<1>6. g.at = catch[f.at] /\ g.id = f.id /\ g.rest = f.rest
  BY <1>3 DEF Record
<1> HIDE DEF g
<1>7. rowsTyped(g)'
  BY <1>2, <1>4, <1>6 DEF rowsTyped, EventPoint, AllocationPoint, ClaimPoint
<1>8. listTyped(g)'
  BY <1>2, <1>4, <1>6 DEF listTyped, EditPoint, BatchPoint, DisbursePoint
<1>9. statusTyped(g)' /\ knows(g)'
  BY <1>2, <1>6 DEF statusTyped, knows
<1>10. g \in Frame'
  BY <1>5, <1>7, <1>8, <1>9 DEF Frame, sound
<1> QED BY <1>10 DEF g

LEMMA ThrowIsSound ==
  ASSUME StacksSound, Frame \subseteq Frame', NEW w \in Worker, stack[w] # <<>>,
         NEW error \in Value, throw(w, error)
  PROVE  StacksSound'
<1>1. stack \in [Worker -> Seq(Frame')]
  BY DEF StacksSound
<1>2. CASE stack' = [stack EXCEPT ![w] = <<>>]
  BY <1>1, <1>2 DEF StacksSound
<1>3. ASSUME NEW n \in DOMAIN stack[w], stack[w][n].at \in DOMAIN catch,
             stack' = [stack EXCEPT ![w] = caughtAt(n, @, error)]
      PROVE  StacksSound'
  <2>1. stack[w][n] \in Frame' /\ SubSeq(stack[w], n + 1, Len(stack[w])) \in Seq(Frame')
    BY <1>1
  <2>2. [stack[w][n] EXCEPT !.at = catch[@], !.got = error] \in Frame'
    BY <1>3, <2>1, CatchIsSound
  <2>3. caughtAt(n, stack[w], error) \in Seq(Frame')
    BY <2>1, <2>2, PushTyped DEF caughtAt
  <2> QED BY <1>1, <1>3, <2>3 DEF StacksSound
<1> QED BY <1>2, <1>3 DEF throw

-------------------------------------------------------------------------------
(* A statement that reads, followed by each of the three.                   *)

LEMMA ReadThenBecome ==
  ASSUME IInv, NEW w \in Worker, stack[w] # <<>>, UNCHANGED vars,
         NEW q \in Seq(Frame), stack' = [stack EXCEPT ![w] = q \o Tail(@)]
  PROVE  IInv'
<1>1. Tables' /\ Frame \subseteq Frame'
  BY ReadsChangeNothing DEF IInv
<1>2. q \in Seq(Frame')
  BY <1>1
<1> QED BY <1>1, <1>2, BecomeIsSound DEF IInv

LEMMA ReadThenGo ==
  ASSUME IInv, NEW w \in Worker, stack[w] # <<>>, UNCHANGED vars,
         NEW f \in Frame, stack' = [stack EXCEPT ![w] = <<f>> \o Tail(@)]
  PROVE  IInv'
<1>1. <<f>> \in Seq(Frame)
  OBVIOUS
<1> QED BY <1>1, ReadThenBecome

LEMMA ReadThenReturn ==
  ASSUME IInv, NEW w \in Worker, stack[w] # <<>>, UNCHANGED vars, NEW v \in Value,
         stack' = IF Tail(stack[w]) = <<>> THEN [stack EXCEPT ![w] = <<>>]
                  ELSE [stack EXCEPT ![w] = <<[Head(Tail(stack[w])) EXCEPT !.got = v]>>
                                             \o Tail(Tail(stack[w]))]
  PROVE  IInv'
BY ReadsChangeNothing, ReturnIsSound DEF IInv

LEMMA ReadThenThrow ==
  ASSUME IInv, NEW w \in Worker, stack[w] # <<>>, UNCHANGED vars,
         NEW error \in Value, throw(w, error)
  PROVE  IInv'
BY ReadsChangeNothing, ThrowIsSound DEF IInv

LEMMA Errors == {"refused", "failed"} \subseteq Value
BY DEF Value

LEMMA GoIsSound ==
  ASSUME StacksSound, Frame \subseteq Frame', NEW w \in Worker, stack[w] # <<>>,
         NEW f \in Frame', stack' = [stack EXCEPT ![w] = <<f>> \o Tail(@)]
  PROVE  StacksSound'
<1>1. <<f>> \in Seq(Frame')
  OBVIOUS
<1> QED BY <1>1, BecomeIsSound

LEMMA TailTyped ==
  ASSUME NEW S, NEW s \in Seq(S), s # <<>>, Len(s) # 1
  PROVE  Tail(s) \in Seq(S) /\ Tail(s) # <<>>
<1>1. Len(s) \in Nat /\ Len(s) # 0
  BY EmptySeq
<1>2. Tail(s) \in Seq(S) /\ Len(Tail(s)) = Len(s) - 1
  BY HeadTailProperties
<1>3. Len(Tail(s)) # 0
  BY <1>1, <1>2
<1>4. Len(<<>>) = 0
  BY EmptySeq
<1> QED BY <1>2, <1>3, <1>4

LEMMA KeepTyped ==
  ASSUME NEW f \in Record, NEW at \in Point, NEW v \in Value,
         NEW g, g = [f EXCEPT !.at = at, !.kept = v]
  PROVE  g \in Record /\ g.at = at /\ g.id = f.id /\ g.kept = v /\ g.rest = f.rest
BY DEF Record

USE DEF Point, EventPoint, SettlementPoint, SettlePoint, DisbursePoint,
        AllocationPoint, ClaimPoint, BatchPoint, EditPoint

\* The calls that rely on nothing but the row they are made for.
LEMMA CallTyped ==
  ASSUME NEW at \in Point, NEW x \in Row
  PROVE  call(at, x) \in Record
<1>1. <<>> \in Seq(Character \cup Allocation \cup Claim)
  OBVIOUS
<1>2. "none" \in Value
  BY DEF Value
<1> QED BY <1>1, <1>2 DEF call, Record

LEMMA CallsAreSound ==
  /\ \A e \in Event : \A at \in {"syncEvent", "markReady"} : call(at, e) \in Frame
  /\ \A s \in Settlement :
       \A at \in {"markCalculated", "startPaying", "markPaid", "cancelSettlement",
                  "syncSettlement"} : call(at, s) \in Frame
  /\ \A a \in Allocation :
       \A at \in {"createAllocation", "matchAllocation"} : call(at, a) \in Frame
  /\ \A a \in Allocation : hasConfirmed(a) => call("markClaimed", a) \in Frame
  /\ \A c \in Claim : call("recordClaim", c) \in Frame
<1>1. \A at, x : call(at, x).at = at /\ call(at, x).id = x
  BY DEF call
<1>2. ASSUME NEW e \in Event, NEW at \in {"syncEvent", "markReady"}
      PROVE  call(at, e) \in Frame
  BY <1>1, CallTyped DEF Frame, sound, rowsTyped, listTyped, statusTyped, knows, Row
<1>3. ASSUME NEW s \in Settlement,
             NEW at \in {"markCalculated", "startPaying", "markPaid", "cancelSettlement",
                         "syncSettlement"}
      PROVE  call(at, s) \in Frame
  BY <1>1, CallTyped DEF Frame, sound, rowsTyped, listTyped, statusTyped, knows, Row
<1>4. ASSUME NEW a \in Allocation, NEW at \in {"createAllocation", "matchAllocation"}
      PROVE  call(at, a) \in Frame
  BY <1>1, CallTyped DEF Frame, sound, rowsTyped, listTyped, statusTyped, knows, Row
<1>5. ASSUME NEW a \in Allocation, hasConfirmed(a)
      PROVE  call("markClaimed", a) \in Frame
  BY <1>1, <1>5, CallTyped DEF Frame, sound, rowsTyped, listTyped, statusTyped, knows, Row
<1>6. ASSUME NEW c \in Claim
      PROVE  call("recordClaim", c) \in Frame
  BY <1>1, CallTyped DEF Frame, sound, rowsTyped, listTyped, statusTyped, knows, Row
<1> QED BY <1>2, <1>3, <1>4, <1>5, <1>6

-------------------------------------------------------------------------------
(* Events.                                                                  *)

LEMMA SyncStatusStep ==
  ASSUME IInv, NEW w \in Worker, stack[w] # <<>>, syncStatus(w)
  PROVE  IInv'
<1> PICK f \in Frame : f = top(w)
  BY TopIsSound DEF IInv
<1> USE DEF Record
<1>0. f \in Record /\ sound(f)
  BY DEF Frame
<1>1. CASE f.at = "syncEvent"
  <2>1. f.id \in Event
    BY <1>0, <1>1 DEF sound, rowsTyped
  <2>2. UNCHANGED vars
    BY <1>1 DEF syncStatus, reads
  <2>3. CASE eventStatus[f.id] = "absent"
    BY <1>1, <2>2, <2>3, ReadThenThrow, Errors DEF syncStatus
  <2>4. CASE eventStatus[f.id] # "absent"
    <3>1. eventStatus[f.id] \in EventStatus
      BY <2>1, <2>4 DEF IInv, Tables, TypeOK, Absent
    <3>2. eventStatus[f.id] \in Value
      BY <3>1 DEF Value, Absent
    <3> PICK g : g = [f EXCEPT !.at = "syncEvent.list", !.kept = eventStatus[f.id]]
      OBVIOUS
    <3>3. /\ g \in Record /\ g.at = "syncEvent.list" /\ g.id = f.id
            /\ g.kept = eventStatus[f.id] /\ g.rest = f.rest
      BY <1>0, <1>1, <3>1, <3>2, KeepTyped
    <3>4. rowsTyped(g) /\ listTyped(g)
      BY <1>0, <1>1, <3>1, <3>2, <3>3 DEF sound, rowsTyped, listTyped
    <3>5. statusTyped(g) /\ knows(g)
      BY <1>0, <1>1, <3>1, <3>2, <3>3 DEF statusTyped, knows
    <3>6. g \in Frame
      BY <3>3, <3>4, <3>5 DEF Frame, sound
    <3> QED BY <1>1, <2>2, <2>4, <3>6, ReadThenGo DEF syncStatus, keep, become
  <2> QED BY <2>3, <2>4
<1>2. CASE f.at = "syncEvent.list"
  <2> PICK next : next = SyncedEventStatus(f.kept, settlementStatus, f.id)
    OBVIOUS
  <2>1. f.kept \in EventStatus
    BY <1>0, <1>2 DEF sound, statusTyped
  <2>2. next \in Absent(EventStatus) /\ next \in Value
    BY <2>1 DEF SyncedEventStatus, EventStatus, Absent, Value
  <2> PICK g : g = [f EXCEPT !.at = "event.write", !.kept = next]
    OBVIOUS
  <2>3. /\ g \in Record /\ g.at = "event.write" /\ g.id = f.id
          /\ g.kept = next /\ g.rest = f.rest
    BY <1>0, <1>2, <2>2, KeepTyped
  <2>4. rowsTyped(g) /\ listTyped(g)
    BY <1>0, <1>2, <2>2, <2>3 DEF sound, rowsTyped, listTyped
  <2>5. statusTyped(g) /\ knows(g)
    BY <1>0, <1>2, <2>2, <2>3 DEF statusTyped, knows
  <2>6. g \in Frame
    BY <2>3, <2>4, <2>5 DEF Frame, sound
  <2>7. UNCHANGED vars
    BY <1>2 DEF syncStatus, reads
  <2>8. \/ throw(w, "refused")
        \/ return(w, next)
        \/ stack' = [stack EXCEPT ![w] = <<g>> \o Tail(@)]
    BY <1>2 DEF syncStatus, return, keep, become
  <2> QED BY <2>2, <2>6, <2>7, <2>8, ReadThenGo, ReadThenReturn, ReadThenThrow, Errors DEF return
<1>3. CASE f.at = "event.write"
  <2>1. f.kept \in Absent(EventStatus) /\ f.kept \in Value
    BY <1>0, <1>3 DEF sound, statusTyped
  <2>2. Tables' /\ Frame \subseteq Frame'
    BY <1>3, <2>1, EventWritten DEF syncStatus, writeEvent, IInv
  <2> QED BY <1>3, <2>1, <2>2, ReturnIsSound DEF syncStatus, return, IInv
<1> QED BY <1>1, <1>2, <1>3 DEF syncStatus

LEMMA MoveEventStep ==
  ASSUME IInv, NEW w \in Worker, stack[w] # <<>>, moveEvent(w)
  PROVE  IInv'
<1> PICK f \in Frame : f = top(w)
  BY TopIsSound DEF IInv
<1> USE DEF Record
<1>0. f \in Record /\ sound(f)
  BY DEF Frame
<1>1. f.at \in {"markReady", "cancelEvent"}
  BY DEF moveEvent, eventTarget
<1>2. eventTarget[f.at] \in Absent(EventStatus) /\ eventTarget[f.at] \in Value
  BY <1>1 DEF eventTarget, EventStatus, Absent, Value
<1> PICK g : g = [f EXCEPT !.at = "event.write", !.kept = eventTarget[f.at]]
  OBVIOUS
<1>3. /\ g \in Record /\ g.at = "event.write" /\ g.id = f.id
        /\ g.kept = eventTarget[f.at] /\ g.rest = f.rest
  BY <1>0, <1>1, <1>2, KeepTyped
<1>4. rowsTyped(g) /\ listTyped(g)
  BY <1>0, <1>1, <1>2, <1>3 DEF sound, rowsTyped, listTyped
<1>5. statusTyped(g) /\ knows(g)
  BY <1>0, <1>1, <1>2, <1>3 DEF statusTyped, knows
<1>6. g \in Frame
  BY <1>3, <1>4, <1>5 DEF Frame, sound
<1>7. UNCHANGED vars
  BY DEF moveEvent, reads
<1>8. \/ throw(w, "refused")
      \/ stack' = [stack EXCEPT ![w] = <<g>> \o Tail(@)]
  BY DEF moveEvent, keep, become
<1> QED BY <1>6, <1>7, <1>8, ReadThenGo, ReadThenThrow, Errors

LEMMA EditEventStep ==
  ASSUME IInv, NEW w \in Worker, stack[w] # <<>>, editEvent(w)
  PROVE  IInv'
<1> PICK f \in Frame : f = top(w)
  BY TopIsSound DEF IInv
<1> USE DEF Record
<1>0. f \in Record /\ sound(f)
  BY DEF Frame
<1>1. CASE f.at = "createEvent"
  <2>1. [f EXCEPT !.at = "participants.delete"] \in Frame
    BY <1>1 DEF Frame, sound, rowsTyped, listTyped, statusTyped, knows
  <2>2. Tables' /\ Frame \subseteq Frame'
    BY <1>1, EventWritten DEF editEvent, writeEvent, IInv, EventStatus, Absent
  <2> QED BY <1>1, <2>1, <2>2, GoIsSound DEF editEvent, goto, become, IInv
<1>2. CASE f.at = "editEvent"
  <2>1. [f EXCEPT !.at = "editEvent.read"] \in Frame
    BY <1>2 DEF Frame, sound, rowsTyped, listTyped, statusTyped, knows
  <2>2. UNCHANGED vars
    BY <1>2 DEF editEvent, reads
  <2>3. \/ throw(w, "refused")
        \/ stack' = [stack EXCEPT ![w] = <<[f EXCEPT !.at = "editEvent.read"]>> \o Tail(@)]
    BY <1>2 DEF editEvent, goto, become
  <2> QED BY <2>1, <2>2, <2>3, ReadThenGo, ReadThenThrow, Errors
<1>3. CASE f.at = "editEvent.read"
  <2>1. f.id \in Event
    BY <1>0, <1>3 DEF sound, rowsTyped
  <2>2. eventStatus[f.id] \in Absent(EventStatus) /\ eventStatus[f.id] \in Value
    BY <2>1 DEF IInv, Tables, TypeOK, Value
  <2> PICK g : g = [f EXCEPT !.at = "editEvent.write", !.kept = eventStatus[f.id]]
    OBVIOUS
  <2>3. /\ g \in Record /\ g.at = "editEvent.write" /\ g.id = f.id
          /\ g.kept = eventStatus[f.id] /\ g.rest = f.rest
    BY <1>0, <1>3, <2>2, KeepTyped
  <2>4. rowsTyped(g) /\ listTyped(g)
    BY <1>0, <1>3, <2>2, <2>3 DEF sound, rowsTyped, listTyped
  <2>5. statusTyped(g) /\ knows(g)
    BY <1>0, <1>3, <2>2, <2>3 DEF statusTyped, knows
  <2>6. g \in Frame
    BY <2>3, <2>4, <2>5 DEF Frame, sound
  <2>7. UNCHANGED vars
    BY <1>3 DEF editEvent, reads
  <2> QED BY <1>3, <2>6, <2>7, ReadThenGo DEF editEvent, keep, become
<1>4. CASE f.at = "editEvent.write"
  <2>1. f.kept \in Absent(EventStatus)
    BY <1>0, <1>4 DEF sound, statusTyped
  <2>2. [f EXCEPT !.at = "participants.delete"] \in Frame
    BY <1>4 DEF Frame, sound, rowsTyped, listTyped, statusTyped, knows
  <2>3. Tables' /\ Frame \subseteq Frame'
    BY <1>4, <2>1, EventWritten DEF editEvent, writeEvent, IInv
  <2> QED BY <1>4, <2>2, <2>3, GoIsSound DEF editEvent, goto, become, IInv
<1> QED BY <1>1, <1>2, <1>3, <1>4 DEF editEvent

LEMMA ReplaceEventParticipantsStep ==
  ASSUME IInv, NEW w \in Worker, stack[w] # <<>>, replaceEventParticipants(w)
  PROVE  IInv'
<1> PICK f \in Frame : f = top(w)
  BY TopIsSound DEF IInv
<1> USE DEF Record
<1>0. f \in Record /\ sound(f)
  BY DEF Frame
<1>1. CASE f.at = "participants.delete"
  <2>1. Tables' /\ Frame \subseteq Frame'
    BY <1>1, ParticipantsWritten DEF replaceEventParticipants, writeParticipants, IInv
  <2>2. CASE f.rest = <<>>
    BY <1>1, <2>1, <2>2, ReturnIsSound DEF replaceEventParticipants, return, IInv, Value
  <2>3. CASE f.rest # <<>>
    <3>1. [f EXCEPT !.at = "participants.insert"] \in Frame
      BY <1>1, <2>3 DEF Frame, sound, rowsTyped, listTyped, statusTyped, knows
    <3> QED BY <1>1, <2>1, <2>3, <3>1, GoIsSound
            DEF replaceEventParticipants, goto, become, IInv
  <2> QED BY <2>2, <2>3
<1>2. CASE f.at = "participants.insert"
  <2>1. f.id \in Event /\ f.rest \in Seq(Character) /\ f.rest # <<>>
    BY <1>0, <1>2 DEF sound, rowsTyped, listTyped
  <2>2. participants[f.id] \cup {Head(f.rest)} \in SUBSET Character
    BY <2>1 DEF IInv, Tables, TypeOK
  <2>3. Tables' /\ Frame \subseteq Frame'
    BY <1>2, <2>2, ParticipantsWritten DEF replaceEventParticipants, writeParticipants, IInv
  <2>4. CASE Len(f.rest) = 1
    BY <1>2, <2>3, <2>4, ReturnIsSound DEF replaceEventParticipants, return, IInv, Value
  <2>5. CASE Len(f.rest) # 1
    <3> PICK rest : rest = Tail(f.rest)
      OBVIOUS
    <3>1. rest \in Seq(Character) /\ rest # <<>>
      BY <2>1, <2>5, TailTyped
    <3>2. rest \in Seq(Character \cup Allocation \cup Claim)
      BY <3>1
    <3> PICK g : g = [f EXCEPT !.rest = rest]
      OBVIOUS
    <3>3. /\ g \in Record /\ g.at = f.at /\ g.id = f.id /\ g.kept = f.kept
          /\ g.rest = rest
      BY <1>0, <3>2 DEF Record
    <3>4. rowsTyped(g) /\ listTyped(g)
      BY <1>0, <1>2, <3>1, <3>3 DEF sound, rowsTyped, listTyped
    <3>5. statusTyped(g) /\ knows(g)
      BY <1>0, <1>2, <3>1, <3>3 DEF statusTyped, knows
    <3>6. g \in Frame
      BY <3>3, <3>4, <3>5 DEF Frame, sound
    <3> QED BY <1>2, <2>3, <2>5, <3>6, GoIsSound DEF replaceEventParticipants, become, IInv
  <2> QED BY <2>4, <2>5
<1> QED BY <1>1, <1>2 DEF replaceEventParticipants

-------------------------------------------------------------------------------
(* Settlements.                                                             *)

LEMMA CreateDraftSettlementStep ==
  ASSUME IInv, NEW w \in Worker, stack[w] # <<>>, createDraftSettlement(w)
  PROVE  IInv'
<1> PICK f \in Frame : f = top(w)
  BY TopIsSound DEF IInv
<1> USE DEF Record
<1>0. f \in Record /\ sound(f)
  BY DEF Frame
<1>1. CASE f.at = "createSettlement"
  <2>1. f.id \in Settlement
    BY <1>0, <1>1 DEF sound, rowsTyped
  <2>2. EventOf[f.id] \in Event \cup {NoEvent}
    BY <2>1, ForeignKeys
  <2> PICK v \in {"plain", "exception"} :
         stack' = [stack EXCEPT ![w] =
           (IF EventOf[f.id] = NoEvent
            THEN <<[f EXCEPT !.at = "createDraft.insert", !.kept = v]>>
            ELSE <<call("syncEvent", EventOf[f.id]),
                   [f EXCEPT !.at = "createDraft.insert", !.kept = v]>>) \o Tail(@)]
    BY <1>1 DEF createDraftSettlement, keep, become, exceptionNeeded
  <2>3. v \in Value
    BY DEF Value
  <2> PICK g : g = [f EXCEPT !.at = "createDraft.insert", !.kept = v]
    OBVIOUS
  <2>4. /\ g \in Record /\ g.at = "createDraft.insert" /\ g.id = f.id
        /\ g.kept = v /\ g.rest = f.rest
    BY <1>0, <1>1, <2>3, KeepTyped
  <2>5. rowsTyped(g) /\ listTyped(g)
    BY <1>0, <1>1, <2>3, <2>4 DEF sound, rowsTyped, listTyped
  <2>6. statusTyped(g) /\ knows(g)
    BY <1>0, <1>1, <2>3, <2>4 DEF statusTyped, knows
  <2>7. g \in Frame
    BY <2>4, <2>5, <2>6 DEF Frame, sound
  <2>8. UNCHANGED vars
    BY <1>1 DEF createDraftSettlement, reads
  <2>9. CASE EventOf[f.id] = NoEvent
    <3>1. stack' = [stack EXCEPT ![w] = <<g>> \o Tail(@)]
      BY <2>4, <2>9
    <3> QED BY <2>7, <2>8, <3>1, ReadThenGo
  <2>10. CASE EventOf[f.id] # NoEvent
    <3>1. call("syncEvent", EventOf[f.id]) \in Frame
      BY <2>2, <2>10, CallsAreSound
    <3>2. <<call("syncEvent", EventOf[f.id]), g>> \in Seq(Frame)
      BY <2>7, <3>1
    <3>3. stack' = [stack EXCEPT ![w] = <<call("syncEvent", EventOf[f.id]), g>> \o Tail(@)]
      BY <2>4, <2>10
    <3> QED BY <2>8, <3>2, <3>3, ReadThenBecome
  <2> QED BY <2>9, <2>10
<1>2. CASE f.at = "createDraft.insert"
  <2>1. f.id \in Settlement
    BY <1>0, <1>2 DEF sound, rowsTyped
  <2>2. EventOf[f.id] \in Event \cup {NoEvent}
    BY <2>1, ForeignKeys
  <2>3. CASE UNCHANGED vars /\ throw(w, "refused")
    BY <2>3, ReadThenThrow, Errors
  <2>4. ASSUME /\ settlementStatus' = [settlementStatus EXCEPT ![f.id] = "draft"]
               /\ exceptionConfirmed' =
                    [exceptionConfirmed EXCEPT ![f.id] = (f.kept = "exception")]
               /\ UNCHANGED <<eventStatus, participants, allocationStatus, claimStatus>>,
               \/ stack' = [stack EXCEPT ![w] = <<[f EXCEPT !.at = "createDraft.trust"]>> \o Tail(@)]
               \/ /\ EventOf[f.id] # NoEvent
                  /\ stack' = [stack EXCEPT ![w] =
                       <<call("syncEvent", EventOf[f.id]),
                         [f EXCEPT !.at = "createDraft.trust"]>> \o Tail(@)]
        PROVE  IInv'
    <3>1. exceptionConfirmed' \in [Settlement -> BOOLEAN]
      BY <2>1, <2>4 DEF IInv, Tables, TypeOK
    <3>2. Tables' /\ Frame \subseteq Frame'
      BY <2>4, <3>1, SettlementWritten DEF IInv, Absent, SettlementStatus
    <3>3. [f EXCEPT !.at = "createDraft.trust"] \in Frame
      BY <1>2 DEF Frame, sound, rowsTyped, listTyped, statusTyped, knows
    <3>4. CASE stack' = [stack EXCEPT ![w] = <<[f EXCEPT !.at = "createDraft.trust"]>> \o Tail(@)]
      BY <3>2, <3>3, <3>4, GoIsSound DEF IInv
    <3>5. CASE /\ EventOf[f.id] # NoEvent
               /\ stack' = [stack EXCEPT ![w] =
                    <<call("syncEvent", EventOf[f.id]),
                      [f EXCEPT !.at = "createDraft.trust"]>> \o Tail(@)]
      <4>1. call("syncEvent", EventOf[f.id]) \in Frame
        BY <2>2, <3>5, CallsAreSound
      <4>2. <<call("syncEvent", EventOf[f.id]), [f EXCEPT !.at = "createDraft.trust"]>>
              \in Seq(Frame')
        BY <3>2, <3>3, <4>1
      <4> QED BY <3>2, <3>5, <4>2, BecomeIsSound DEF IInv
    <3> QED BY <2>4, <3>4, <3>5
  <2> QED BY <1>2, <2>3, <2>4
          DEF createDraftSettlement, reads, setSettlement, goto, become
<1>3. CASE f.at = "createDraft.trust"
  BY <1>3, ReadThenReturn DEF createDraftSettlement, reads, return, Value, SettlementStatus
<1> QED BY <1>1, <1>2, <1>3 DEF createDraftSettlement

LEMMA WriteSettlementStatusStep ==
  ASSUME IInv, NEW w \in Worker, stack[w] # <<>>, writeSettlementStatus(w)
  PROVE  IInv'
<1> PICK f \in Frame : f = top(w)
  BY TopIsSound DEF IInv
<1> USE DEF Record
<1>0. f \in Record /\ sound(f)
  BY DEF Frame
<1>1. f.at = "settlement.write"
  BY DEF writeSettlementStatus
<1>2. f.id \in Settlement /\ f.kept \in Absent(SettlementStatus) /\ f.kept \in Value
  BY <1>0, <1>1 DEF sound, rowsTyped, statusTyped
<1>3. f.kept \in {"paying", "paid"} => hasAllocations(f.id)
  BY <1>0, <1>1 DEF sound, knows
<1>4. exceptionConfirmed' \in [Settlement -> BOOLEAN]
  BY DEF writeSettlementStatus, writeSettlement, IInv, Tables, TypeOK
<1>5. Tables' /\ Frame \subseteq Frame'
  BY <1>2, <1>3, <1>4, SettlementWritten
     DEF writeSettlementStatus, writeSettlement, setSettlement, IInv
<1>6. CASE return(w, f.kept)
  BY <1>2, <1>5, <1>6, ReturnIsSound DEF return, IInv
<1>7. CASE /\ EventOf[f.id] # NoEvent
           /\ stack' = [stack EXCEPT ![w] = <<call("syncEvent", EventOf[f.id])>> \o Tail(@)]
  <2>1. EventOf[f.id] \in Event
    BY <1>2, <1>7, ForeignKeys
  <2>2. call("syncEvent", EventOf[f.id]) \in Frame'
    BY <1>5, <2>1, CallsAreSound
  <2> QED BY <1>5, <1>7, <2>2, GoIsSound DEF IInv
<1> QED BY <1>6, <1>7 DEF writeSettlementStatus, become

LEMMA MarkCalculatedStep ==
  ASSUME IInv, NEW w \in Worker, stack[w] # <<>>, markCalculated(w)
  PROVE  IInv'
<1> PICK f \in Frame : f = top(w)
  BY TopIsSound DEF IInv
<1> USE DEF Record
<1>0. f \in Record /\ sound(f)
  BY DEF Frame
<1>1. f.at = "markCalculated"
  BY DEF markCalculated
<1>2. "calculated" \in Value /\ "calculated" \in Absent(SettlementStatus)
  BY DEF Value, SettlementStatus, Absent
<1> PICK g : g = [f EXCEPT !.at = "settlement.write", !.kept = "calculated"]
  OBVIOUS
<1>3. /\ g \in Record /\ g.at = "settlement.write" /\ g.id = f.id
      /\ g.kept = "calculated" /\ g.rest = f.rest
  BY <1>0, <1>1, <1>2, KeepTyped
<1>4. rowsTyped(g) /\ listTyped(g)
  BY <1>0, <1>1, <1>2, <1>3 DEF sound, rowsTyped, listTyped
<1>5. statusTyped(g) /\ knows(g)
  BY <1>0, <1>1, <1>2, <1>3 DEF statusTyped, knows
<1>6. g \in Frame
  BY <1>3, <1>4, <1>5 DEF Frame, sound
<1>7. UNCHANGED vars
  BY DEF markCalculated, reads
<1>8. \/ throw(w, "refused")
      \/ stack' = [stack EXCEPT ![w] = <<g>> \o Tail(@)]
  BY <1>3 DEF markCalculated, keep, become
<1> QED BY <1>6, <1>7, <1>8, ReadThenGo, ReadThenThrow, Errors

LEMMA StartPayingStep ==
  ASSUME IInv, NEW w \in Worker, stack[w] # <<>>, startPaying(w)
  PROVE  IInv'
<1> PICK f \in Frame : f = top(w)
  BY TopIsSound DEF IInv
<1> USE DEF Record
<1>0. f \in Record /\ sound(f)
  BY DEF Frame
<1>1. CASE f.at = "startPaying"
  <2>1. [f EXCEPT !.at = "startPaying.list"] \in Frame
    BY <1>1 DEF Frame, sound, rowsTyped, listTyped, statusTyped, knows
  <2>2. UNCHANGED vars
    BY <1>1 DEF startPaying, reads
  <2>3. \/ throw(w, "refused")
        \/ stack' = [stack EXCEPT ![w] = <<[f EXCEPT !.at = "startPaying.list"]>> \o Tail(@)]
    BY <1>1 DEF startPaying, goto, become
  <2> QED BY <2>1, <2>2, <2>3, ReadThenGo, ReadThenThrow, Errors
<1>2. CASE f.at = "startPaying.list"
  <2>1. UNCHANGED vars
    BY <1>2 DEF startPaying, reads
  <2>2. CASE listBySettlement(allocationStatus, f.id) = {}
    BY <1>2, <2>1, <2>2, ReadThenThrow, Errors DEF startPaying
  <2>3. CASE listBySettlement(allocationStatus, f.id) # {}
    <3>1. hasAllocations(f.id)
      BY <2>3 DEF listBySettlement, hasAllocations, exists
    <3>2. "paying" \in Value /\ "paying" \in Absent(SettlementStatus)
      BY DEF Value, SettlementStatus, Absent
    <3> PICK g : g = [f EXCEPT !.at = "settlement.write", !.kept = "paying"]
      OBVIOUS
    <3>3. /\ g \in Record /\ g.at = "settlement.write" /\ g.id = f.id
          /\ g.kept = "paying" /\ g.rest = f.rest
      BY <1>0, <1>2, <3>1, <3>2, KeepTyped
    <3>4. rowsTyped(g) /\ listTyped(g)
      BY <1>0, <1>2, <3>1, <3>2, <3>3 DEF sound, rowsTyped, listTyped
    <3>5. statusTyped(g) /\ knows(g)
      BY <1>0, <1>2, <3>1, <3>2, <3>3 DEF statusTyped, knows
    <3>6. g \in Frame
      BY <3>3, <3>4, <3>5 DEF Frame, sound
    <3> QED BY <1>2, <2>1, <2>3, <3>3, <3>6, ReadThenGo DEF startPaying, keep, become
  <2> QED BY <2>2, <2>3
<1> QED BY <1>1, <1>2 DEF startPaying

LEMMA MarkPaidStep ==
  ASSUME IInv, NEW w \in Worker, stack[w] # <<>>, markPaid(w)
  PROVE  IInv'
<1> PICK f \in Frame : f = top(w)
  BY TopIsSound DEF IInv
<1> USE DEF Record
<1>0. f \in Record /\ sound(f)
  BY DEF Frame
<1>1. CASE f.at = "markPaid"
  <2> PICK v : v = IF allTerminal(allocationStatus, f.id) THEN "terminal" ELSE "pending"
    OBVIOUS
  <2>1. v \in Value
    BY DEF Value, AllocationStatus
  <2> PICK g : g = [f EXCEPT !.at = "markPaid.read", !.kept = v]
    OBVIOUS
  <2>2. /\ g \in Record /\ g.at = "markPaid.read" /\ g.id = f.id
        /\ g.kept = v /\ g.rest = f.rest
    BY <1>0, <1>1, <2>1, KeepTyped
  <2>3. rowsTyped(g) /\ listTyped(g)
    BY <1>0, <1>1, <2>1, <2>2 DEF sound, rowsTyped, listTyped
  <2>4. statusTyped(g) /\ knows(g)
    BY <1>0, <1>1, <2>1, <2>2 DEF statusTyped, knows
  <2>5. g \in Frame
    BY <2>2, <2>3, <2>4 DEF Frame, sound
  <2>6. UNCHANGED vars
    BY <1>1 DEF markPaid, reads
  <2>7. stack' = [stack EXCEPT ![w] = <<g>> \o Tail(@)]
    BY <1>1, <2>2 DEF markPaid, keep, become
  <2> QED BY <2>5, <2>6, <2>7, ReadThenGo
<1>2. CASE f.at = "markPaid.read"
  <2>1. UNCHANGED vars
    BY <1>2 DEF markPaid, reads
  <2>2. CASE throw(w, "refused")
    BY <2>1, <2>2, ReadThenThrow, Errors
  <2>3. CASE ~throw(w, "refused")
    <3>1. assertTransition(settlementStateMachine, settlementStatus[f.id], "paid")
      BY <1>2, <2>3 DEF markPaid
    <3>2. settlementStatus[f.id] \in {"paying", "paid"}
      BY <3>1 DEF assertTransition, settlementStateMachine
    <3>3. f.id \in Settlement
      BY <1>0, <1>2 DEF sound, rowsTyped
    <3>4. hasAllocations(f.id)
      BY <3>2, <3>3 DEF IInv, Tables, PayoutHasAllocations, hasAllocations
    <3>5. "paid" \in Value /\ "paid" \in Absent(SettlementStatus)
      BY DEF Value, SettlementStatus, Absent
    <3> PICK g : g = [f EXCEPT !.at = "settlement.write", !.kept = "paid"]
      OBVIOUS
    <3>6. /\ g \in Record /\ g.at = "settlement.write" /\ g.id = f.id
          /\ g.kept = "paid" /\ g.rest = f.rest
      BY <1>0, <1>2, <3>4, <3>5, KeepTyped
    <3>7. rowsTyped(g) /\ listTyped(g)
      BY <1>0, <1>2, <3>4, <3>5, <3>6 DEF sound, rowsTyped, listTyped
    <3>8. statusTyped(g) /\ knows(g)
      BY <1>0, <1>2, <3>4, <3>5, <3>6 DEF statusTyped, knows
    <3>9. g \in Frame
      BY <3>6, <3>7, <3>8 DEF Frame, sound
    <3> QED BY <1>2, <2>1, <2>3, <3>6, <3>9, ReadThenGo DEF markPaid, keep, become
  <2> QED BY <2>2, <2>3
<1> QED BY <1>1, <1>2 DEF markPaid

LEMMA CancelSettlementStep ==
  ASSUME IInv, NEW w \in Worker, stack[w] # <<>>, cancelSettlement(w)
  PROVE  IInv'
<1> PICK f \in Frame : f = top(w)
  BY TopIsSound DEF IInv
<1> USE DEF Record
<1>0. f \in Record /\ sound(f)
  BY DEF Frame
<1>1. CASE f.at = "cancelSettlement"
  <2>1. f.id \in Settlement
    BY <1>0, <1>1 DEF sound, rowsTyped
  <2>2. settlementStatus[f.id] \in Value
    BY <2>1 DEF IInv, Tables, TypeOK, Absent, Value
  <2> PICK g : g = [f EXCEPT !.at = "cancelSettlement.list", !.kept = settlementStatus[f.id]]
    OBVIOUS
  <2>3. /\ g \in Record /\ g.at = "cancelSettlement.list" /\ g.id = f.id
        /\ g.kept = settlementStatus[f.id] /\ g.rest = f.rest
    BY <1>0, <1>1, <2>2, KeepTyped
  <2>4. rowsTyped(g) /\ listTyped(g)
    BY <1>0, <1>1, <2>2, <2>3 DEF sound, rowsTyped, listTyped
  <2>5. statusTyped(g) /\ knows(g)
    BY <1>0, <1>1, <2>2, <2>3 DEF statusTyped, knows
  <2>6. g \in Frame
    BY <2>3, <2>4, <2>5 DEF Frame, sound
  <2>7. UNCHANGED vars
    BY <1>1 DEF cancelSettlement, reads
  <2>8. \/ throw(w, "refused")
        \/ stack' = [stack EXCEPT ![w] = <<g>> \o Tail(@)]
    BY <1>1, <2>3 DEF cancelSettlement, keep, become
  <2> QED BY <2>6, <2>7, <2>8, ReadThenGo, ReadThenThrow, Errors
<1>2. CASE f.at = "cancelSettlement.list"
  <2>1. "cancelled" \in Value /\ "cancelled" \in Absent(SettlementStatus)
    BY DEF Value, SettlementStatus, Absent
  <2> PICK g : g = [f EXCEPT !.at = "settlement.write", !.kept = "cancelled"]
    OBVIOUS
  <2>2. /\ g \in Record /\ g.at = "settlement.write" /\ g.id = f.id
        /\ g.kept = "cancelled" /\ g.rest = f.rest
    BY <1>0, <1>2, <2>1, KeepTyped
  <2>3. rowsTyped(g) /\ listTyped(g)
    BY <1>0, <1>2, <2>1, <2>2 DEF sound, rowsTyped, listTyped
  <2>4. statusTyped(g) /\ knows(g)
    BY <1>0, <1>2, <2>1, <2>2 DEF statusTyped, knows
  <2>5. g \in Frame
    BY <2>2, <2>3, <2>4 DEF Frame, sound
  <2>6. UNCHANGED vars
    BY <1>2 DEF cancelSettlement, reads
  <2>7. \/ throw(w, "refused")
        \/ stack' = [stack EXCEPT ![w] = <<g>> \o Tail(@)]
    BY <1>2, <2>2 DEF cancelSettlement, keep, become
  <2> QED BY <2>5, <2>6, <2>7, ReadThenGo, ReadThenThrow, Errors
<1> QED BY <1>1, <1>2 DEF cancelSettlement

LEMMA SyncSettlementStep ==
  ASSUME IInv, NEW w \in Worker, stack[w] # <<>>, syncSettlement(w)
  PROVE  IInv'
<1> PICK f \in Frame : f = top(w)
  BY TopIsSound DEF IInv
<1> USE DEF Record
<1>0. f \in Record /\ sound(f)
  BY DEF Frame
<1>1. CASE f.at = "syncSettlement"
  <2>1. f.id \in Settlement
    BY <1>0, <1>1 DEF sound, rowsTyped
  <2>2. settlementStatus[f.id] \in Value /\ "done" \in Value
    BY <2>1 DEF IInv, Tables, TypeOK, Absent, Value
  <2> PICK g : g = [f EXCEPT !.at = "syncSettlement.list", !.kept = settlementStatus[f.id]]
    OBVIOUS
  <2>3. /\ g \in Record /\ g.at = "syncSettlement.list" /\ g.id = f.id
        /\ g.kept = settlementStatus[f.id] /\ g.rest = f.rest
    BY <1>0, <1>1, <2>2, KeepTyped
  <2>4. rowsTyped(g) /\ listTyped(g)
    BY <1>0, <1>1, <2>2, <2>3 DEF sound, rowsTyped, listTyped
  <2>5. statusTyped(g) /\ knows(g)
    BY <1>0, <1>1, <2>2, <2>3 DEF statusTyped, knows
  <2>6. g \in Frame
    BY <2>3, <2>4, <2>5 DEF Frame, sound
  <2>7. UNCHANGED vars
    BY <1>1 DEF syncSettlement, reads
  <2>8. CASE return(w, "done")
    BY <2>2, <2>7, <2>8, ReadThenReturn DEF return
  <2>9. CASE stack' = [stack EXCEPT ![w] = <<g>> \o Tail(@)]
    BY <2>6, <2>7, <2>9, ReadThenGo
  <2> QED BY <1>1, <2>3, <2>8, <2>9 DEF syncSettlement, keep, become
<1>2. CASE f.at = "syncSettlement.list"
  <2>1. f.id \in Settlement
    BY <1>0, <1>2 DEF sound, rowsTyped
  <2>2. UNCHANGED vars
    BY <1>2 DEF syncSettlement, reads
  <2> PICK start, pay :
        /\ start = IF f.kept = "calculated" THEN <<call("startPaying", f.id)>> ELSE <<>>
        /\ pay = IF allTerminal(allocationStatus, f.id)
                 THEN <<call("markPaid", f.id)>> ELSE <<>>
    OBVIOUS
  <2>3. call("startPaying", f.id) \in Frame /\ call("markPaid", f.id) \in Frame
    BY <2>1, CallsAreSound
  <2>4. start \in Seq(Frame) /\ pay \in Seq(Frame)
    BY <2>3
  <2>5. start \o pay \in Seq(Frame)
    BY <2>4
  <2>6. \/ return(w, "done")
        \/ stack' = [stack EXCEPT ![w] = (start \o pay) \o Tail(@)]
    BY <1>2 DEF syncSettlement, become
  <2>7. CASE return(w, "done")
    BY <2>2, <2>7, ReadThenReturn DEF return, Value
  <2> QED BY <2>2, <2>5, <2>6, <2>7, ReadThenBecome
<1> QED BY <1>1, <1>2 DEF syncSettlement

LEMMA EditSettlementStep ==
  ASSUME IInv, NEW w \in Worker, stack[w] # <<>>, editSettlement(w)
  PROVE  IInv'
<1> PICK f \in Frame : f = top(w)
  BY TopIsSound DEF IInv
<1> USE DEF Record
<1>0. f \in Record /\ sound(f)
  BY DEF Frame
<1>1. CASE f.at = "editSettlement"
  <2>1. [f EXCEPT !.at = "editSettlement.list"] \in Frame
    BY <1>1 DEF Frame, sound, rowsTyped, listTyped, statusTyped, knows
  <2>2. UNCHANGED vars
    BY <1>1 DEF editSettlement, reads
  <2>3. \/ throw(w, "refused")
        \/ stack' = [stack EXCEPT ![w] = <<[f EXCEPT !.at = "editSettlement.list"]>> \o Tail(@)]
    BY <1>1 DEF editSettlement, goto, become
  <2> QED BY <2>1, <2>2, <2>3, ReadThenGo, ReadThenThrow, Errors
<1>2. CASE f.at = "editSettlement.list"
  <2>1. [f EXCEPT !.at = "editSettlement.read"] \in Frame
    BY <1>2 DEF Frame, sound, rowsTyped, listTyped, statusTyped, knows
  <2>2. UNCHANGED vars
    BY <1>2 DEF editSettlement, reads
  <2>3. \/ throw(w, "refused")
        \/ stack' = [stack EXCEPT ![w] = <<[f EXCEPT !.at = "editSettlement.read"]>> \o Tail(@)]
    BY <1>2 DEF editSettlement, goto, become
  <2> QED BY <2>1, <2>2, <2>3, ReadThenGo, ReadThenThrow, Errors
<1>3. CASE f.at = "editSettlement.read"
  <2>1. f.id \in Settlement
    BY <1>0, <1>3 DEF sound, rowsTyped
  <2>2. /\ settlementStatus[f.id] \in Absent(SettlementStatus)
        /\ settlementStatus[f.id] \in Value
    BY <2>1 DEF IInv, Tables, TypeOK, Absent, Value
  <2>3. settlementStatus[f.id] \in {"paying", "paid"} => hasAllocations(f.id)
    BY <2>1 DEF IInv, Tables, PayoutHasAllocations, hasAllocations
  <2> PICK g : g = [f EXCEPT !.at = "settlement.restore", !.kept = settlementStatus[f.id]]
    OBVIOUS
  <2>4. /\ g \in Record /\ g.at = "settlement.restore" /\ g.id = f.id
        /\ g.kept = settlementStatus[f.id] /\ g.rest = f.rest
    BY <1>0, <1>3, <2>2, <2>3, KeepTyped
  <2>5. rowsTyped(g) /\ listTyped(g)
    BY <1>0, <1>3, <2>2, <2>3, <2>4 DEF sound, rowsTyped, listTyped
  <2>6. statusTyped(g) /\ knows(g)
    BY <1>0, <1>3, <2>2, <2>3, <2>4 DEF statusTyped, knows
  <2>7. g \in Frame
    BY <2>4, <2>5, <2>6 DEF Frame, sound
  <2>8. UNCHANGED vars
    BY <1>3 DEF editSettlement, reads
  <2> QED BY <1>3, <2>4, <2>7, <2>8, ReadThenGo DEF editSettlement, keep, become
<1>4. CASE f.at = "settlement.restore"
  <2>1. f.kept \in Absent(SettlementStatus)
    BY <1>0, <1>4 DEF sound, statusTyped
  <2>2. f.kept \in {"paying", "paid"} => hasAllocations(f.id)
    BY <1>0, <1>4 DEF sound, knows
  <2>3. exceptionConfirmed' \in [Settlement -> BOOLEAN]
    BY <1>4 DEF editSettlement, writeSettlement, IInv, Tables, TypeOK
  <2>4. Tables' /\ Frame \subseteq Frame'
    BY <1>4, <2>1, <2>2, <2>3, SettlementWritten
       DEF editSettlement, writeSettlement, setSettlement, IInv
  <2> QED BY <1>4, <2>4, ReturnIsSound DEF editSettlement, return, IInv, Value
<1> QED BY <1>1, <1>2, <1>3, <1>4 DEF editSettlement

-------------------------------------------------------------------------------
(* Allocations.                                                             *)

LEMMA CreatePendingAllocationStep ==
  ASSUME IInv, NEW w \in Worker, stack[w] # <<>>, createPendingAllocation(w)
  PROVE  IInv'
<1> PICK f \in Frame : f = top(w)
  BY TopIsSound DEF IInv
<1> USE DEF Record
<1>0. f \in Record /\ sound(f)
  BY DEF Frame
<1>1. CASE f.at = "createAllocation"
  <2>1. [f EXCEPT !.at = "createAllocation.insert"] \in Frame
    BY <1>1 DEF Frame, sound, rowsTyped, listTyped, statusTyped, knows
  <2>2. [f EXCEPT !.at = "createAllocation.participants"] \in Frame
    BY <1>1 DEF Frame, sound, rowsTyped, listTyped, statusTyped, knows
  <2>3. UNCHANGED vars
    BY <1>1 DEF createPendingAllocation, reads
  <2>4. \/ throw(w, "refused")
        \/ stack' = [stack EXCEPT ![w] = <<[f EXCEPT !.at = "createAllocation.insert"]>> \o Tail(@)]
        \/ stack' = [stack EXCEPT ![w] =
                       <<[f EXCEPT !.at = "createAllocation.participants"]>> \o Tail(@)]
    BY <1>1 DEF createPendingAllocation, goto, become
  <2> QED BY <2>1, <2>2, <2>3, <2>4, ReadThenGo, ReadThenThrow, Errors
<1>2. CASE f.at = "createAllocation.participants"
  <2>1. [f EXCEPT !.at = "createAllocation.insert"] \in Frame
    BY <1>2 DEF Frame, sound, rowsTyped, listTyped, statusTyped, knows
  <2>2. UNCHANGED vars
    BY <1>2 DEF createPendingAllocation, reads
  <2>3. \/ throw(w, "refused")
        \/ stack' = [stack EXCEPT ![w] = <<[f EXCEPT !.at = "createAllocation.insert"]>> \o Tail(@)]
    BY <1>2 DEF createPendingAllocation, goto, become
  <2> QED BY <2>1, <2>2, <2>3, ReadThenGo, ReadThenThrow, Errors
<1>3. CASE f.at = "createAllocation.insert"
  <2>1. CASE UNCHANGED vars /\ throw(w, "failed")
    BY <2>1, ReadThenThrow, Errors
  <2>2. CASE writeAllocation(f.id, "pending") /\ return(w, "pending")
    <3>1. "pending" \in AllocationStatus /\ "pending" \in Value
      BY DEF AllocationStatus, Value
    <3>2. Tables' /\ Frame \subseteq Frame'
      BY <2>2, <3>1, AllocationWritten DEF writeAllocation, IInv
    <3> QED BY <2>2, <3>1, <3>2, ReturnIsSound DEF return, IInv
  <2> QED BY <1>3, <2>1, <2>2 DEF createPendingAllocation, reads
<1> QED BY <1>1, <1>2, <1>3 DEF createPendingAllocation

\* Who is about to write "claimed" was called by a confirmation.
LEMMA CloseShareStep ==
  ASSUME IInv, NEW w \in Worker, stack[w] # <<>>, closeShare(w)
  PROVE  IInv'
<1> PICK f \in Frame : f = top(w)
  BY TopIsSound DEF IInv
<1> USE DEF Record
<1>0. f \in Record /\ sound(f)
  BY DEF Frame
<1>1. CASE f.at \in DOMAIN allocationTarget
  <2>1. f.at \in {"markClaimed", "waive", "cancelAllocation"}
    BY <1>1 DEF allocationTarget
  <2>2. /\ allocationTarget[f.at] \in AllocationStatus
        /\ allocationTarget[f.at] = "claimed" => f.at = "markClaimed"
    BY <2>1 DEF allocationTarget, AllocationStatus
  <2>3. allocationTarget[f.at] \in Value
    BY <2>2 DEF Value
  <2>4. allocationTarget[f.at] = "claimed" => hasConfirmed(f.id)
    BY <1>0, <2>2 DEF sound, knows
  <2> PICK g : g = [f EXCEPT !.at = "allocation.write", !.kept = allocationTarget[f.at]]
    OBVIOUS
  <2>5. /\ g \in Record /\ g.at = "allocation.write" /\ g.id = f.id
        /\ g.kept = allocationTarget[f.at] /\ g.rest = f.rest
    BY <1>0, <2>1, <2>2, <2>3, <2>4, KeepTyped
  <2>6. rowsTyped(g) /\ listTyped(g)
    BY <1>0, <2>1, <2>2, <2>3, <2>4, <2>5 DEF sound, rowsTyped, listTyped
  <2>7. statusTyped(g) /\ knows(g)
    BY <1>0, <2>1, <2>2, <2>3, <2>4, <2>5 DEF statusTyped, knows
  <2>8. g \in Frame
    BY <2>5, <2>6, <2>7 DEF Frame, sound
  <2>9. UNCHANGED vars
    BY <2>1 DEF closeShare, reads
  <2>10. \/ throw(w, "refused")
         \/ stack' = [stack EXCEPT ![w] = <<g>> \o Tail(@)]
    BY <2>1 DEF closeShare, keep, become
  <2> QED BY <2>8, <2>9, <2>10, ReadThenGo, ReadThenThrow, Errors
<1>2. CASE f.at = "allocation.write"
  <2>1. f.id \in Allocation /\ f.kept \in AllocationStatus
    BY <1>0, <1>2 DEF sound, rowsTyped, statusTyped
  <2>2. f.kept = "claimed" => hasConfirmed(f.id)
    BY <1>0, <1>2 DEF sound, knows
  <2>3. f.at \notin DOMAIN allocationTarget
    BY <1>2 DEF allocationTarget
  <2>4. /\ writeAllocation(f.id, f.kept)
        /\ stack' = [stack EXCEPT ![w] = <<call("syncSettlement", SettlementOf[f.id])>> \o Tail(@)]
    BY <1>2, <2>3 DEF closeShare, become, writeAllocation
  <2>5. Tables' /\ Frame \subseteq Frame'
    BY <2>1, <2>2, <2>4, AllocationWritten DEF writeAllocation, IInv
  <2>6. call("syncSettlement", SettlementOf[f.id]) \in Frame'
    BY <2>1, <2>5, ForeignKeys, CallsAreSound
  <2> QED BY <2>4, <2>5, <2>6, GoIsSound DEF IInv
<1> QED BY <1>1, <1>2 DEF closeShare

-------------------------------------------------------------------------------
(* Claims.                                                                  *)

\* A value that is kept where nothing is known of it.
LEMMA KeptIsFree ==
  ASSUME NEW f \in Frame, NEW v \in Value, NEW at,
         \/ f.at = "recordClaim.settlement" /\ at = "recordClaim.claims"
         \/ f.at = "voidClaim.allocation" /\ at = "voidClaim.siblings"
         \/ f.at = "batch.settlement" /\ at = "batch.claims"
         \/ f.at = "disburse" /\ at = "disburse.participants"
  PROVE  [f EXCEPT !.at = at, !.kept = v] \in Frame
<1>0. f \in Record /\ sound(f) /\ at \in Point
  BY DEF Frame
<1> PICK g : g = [f EXCEPT !.at = at, !.kept = v]
  OBVIOUS
<1>1. /\ g \in Record /\ g.at = at /\ g.id = f.id
      /\ g.kept = v /\ g.rest = f.rest
  BY <1>0 DEF Record
<1>2. rowsTyped(g) /\ listTyped(g)
  BY <1>0, <1>1 DEF sound, rowsTyped, listTyped
<1>3. statusTyped(g) /\ knows(g)
  BY <1>0, <1>1 DEF statusTyped, knows
<1> QED BY <1>1, <1>2, <1>3 DEF Frame, sound

LEMMA RecordClaimStep ==
  ASSUME IInv, NEW w \in Worker, stack[w] # <<>>, recordClaim(w)
  PROVE  IInv'
<1> PICK f \in Frame : f = top(w)
  BY TopIsSound DEF IInv
<1> USE DEF Record
<1>0. f \in Record /\ sound(f)
  BY DEF Frame
<1>1. CASE f.at = "recordClaim"
  <2>1. [f EXCEPT !.at = "recordClaim.settlement"] \in Frame
    BY <1>1 DEF Frame, sound, rowsTyped, listTyped, statusTyped, knows
  <2>2. UNCHANGED vars
    BY <1>1 DEF recordClaim, reads
  <2>3. \/ throw(w, "refused")
        \/ stack' = [stack EXCEPT ![w] = <<[f EXCEPT !.at = "recordClaim.settlement"]>> \o Tail(@)]
    BY <1>1 DEF recordClaim, goto, become
  <2> QED BY <2>1, <2>2, <2>3, ReadThenGo, ReadThenThrow, Errors
<1>2. CASE f.at = "recordClaim.settlement"
  <2>1. f.id \in Claim
    BY <1>0, <1>2 DEF sound, rowsTyped
  <2> PICK s \in Settlement : s = SettlementOf[AllocationOf[f.id]]
    BY <2>1, ForeignKeys
  <2>2. settlementStatus[s] \in Value
    BY DEF IInv, Tables, TypeOK, Absent, Value
  <2> PICK v \in Value : v = settlementStatus[s]
    BY <2>2
  <2>3. [f EXCEPT !.at = "recordClaim.claims", !.kept = v] \in Frame
    BY <1>2, KeptIsFree
  <2>4. UNCHANGED vars
    BY <1>2 DEF recordClaim, reads
  <2>5. \/ throw(w, "refused")
        \/ stack' = [stack EXCEPT
             ![w] = <<[f EXCEPT !.at = "recordClaim.claims", !.kept = v]>> \o Tail(@)]
    BY <1>2 DEF recordClaim, keep, become
  <2> QED BY <2>3, <2>4, <2>5, ReadThenGo, ReadThenThrow, Errors
<1>3. CASE f.at = "recordClaim.claims"
  <2>1. f.id \in Claim
    BY <1>0, <1>3 DEF sound, rowsTyped
  <2> PICK s \in Settlement : s = SettlementOf[AllocationOf[f.id]]
    BY <2>1, ForeignKeys
  <2>2. [f EXCEPT !.at = "recordClaim.insert"] \in Frame
    BY <1>3 DEF Frame, sound, rowsTyped, listTyped, statusTyped, knows
  <2>3. <<call("startPaying", s), [f EXCEPT !.at = "recordClaim.insert"]>> \in Seq(Frame)
    BY <2>2, CallsAreSound
  <2>4. UNCHANGED vars
    BY <1>3 DEF recordClaim, reads
  <2>5. \/ throw(w, "refused")
        \/ stack' = [stack EXCEPT ![w] = <<[f EXCEPT !.at = "recordClaim.insert"]>> \o Tail(@)]
        \/ stack' = [stack EXCEPT ![w] =
             <<call("startPaying", s), [f EXCEPT !.at = "recordClaim.insert"]>> \o Tail(@)]
    BY <1>3 DEF recordClaim, goto, become
  <2> QED BY <2>2, <2>3, <2>4, <2>5, ReadThenGo, ReadThenBecome, ReadThenThrow, Errors
<1>4. CASE f.at = "recordClaim.insert"
  <2>1. "recorded" \in ClaimStatus /\ "recorded" \in Value
    BY DEF ClaimStatus, Value
  <2>2. Tables' /\ Frame \subseteq Frame'
    BY <1>4, <2>1, ClaimWritten DEF recordClaim, writeClaim, IInv
  <2> QED BY <1>4, <2>1, <2>2, ReturnIsSound DEF recordClaim, return, IInv
<1> QED BY <1>1, <1>2, <1>3, <1>4 DEF recordClaim

\* The claim is written before the allocation is read.
LEMMA ConfirmClaimStep ==
  ASSUME IInv, NEW w \in Worker, stack[w] # <<>>, confirmClaim(w)
  PROVE  IInv'
<1> PICK f \in Frame : f = top(w)
  BY TopIsSound DEF IInv
<1> USE DEF Record
<1>0. f \in Record /\ sound(f)
  BY DEF Frame
<1>1. CASE f.at = "confirmClaim"
  <2>1. [f EXCEPT !.at = "confirmClaim.write"] \in Frame
    BY <1>1 DEF Frame, sound, rowsTyped, listTyped, statusTyped, knows
  <2>2. UNCHANGED vars
    BY <1>1 DEF confirmClaim, reads
  <2>3. \/ throw(w, "refused")
        \/ stack' = [stack EXCEPT ![w] = <<[f EXCEPT !.at = "confirmClaim.write"]>> \o Tail(@)]
    BY <1>1 DEF confirmClaim, goto, become
  <2> QED BY <2>1, <2>2, <2>3, ReadThenGo, ReadThenThrow, Errors
<1>2. CASE f.at = "confirmClaim.write"
  <2>1. f.id \in Claim
    BY <1>0, <1>2 DEF sound, rowsTyped
  <2>2. /\ claimStatus' = [claimStatus EXCEPT ![f.id] = "confirmed"]
        /\ UNCHANGED <<eventStatus, participants, settlementStatus,
                       exceptionConfirmed, allocationStatus>>
        /\ stack' = [stack EXCEPT ![w] = <<[f EXCEPT !.at = "confirmClaim.allocation"]>> \o Tail(@)]
    BY <1>2 DEF confirmClaim, writeClaim, goto, become
  <2>3. Tables' /\ Frame \subseteq Frame'
    BY <2>2, ClaimWritten DEF ClaimStatus, IInv
  <2>4. wasConfirmed(f.id)'
    BY <2>1, <2>2 DEF wasConfirmed, IInv, Tables, TypeOK
  <2>5. f \in Frame'
    BY <2>3
  <2>6. [f EXCEPT !.at = "confirmClaim.allocation"] \in Frame'
    BY <1>2, <2>1, <2>4, <2>5 DEF Frame, sound, rowsTyped, listTyped, statusTyped, knows
  <2> QED BY <2>2, <2>3, <2>6, GoIsSound DEF IInv
<1>3. CASE f.at = "confirmClaim.allocation"
  <2>1. f.id \in Claim /\ wasConfirmed(f.id)
    BY <1>0, <1>3 DEF sound, rowsTyped, knows
  <2> PICK a \in Allocation : a = AllocationOf[f.id]
    BY <2>1, ForeignKeys
  <2>2. call("markClaimed", a) \in Frame
    BY <2>1, CallsAreSound DEF hasConfirmed
  <2>3. UNCHANGED vars
    BY <1>3 DEF confirmClaim, reads
  <2>4. CASE stack' = [stack EXCEPT ![w] = <<call("markClaimed", a)>> \o Tail(@)]
    BY <2>2, <2>3, <2>4, ReadThenGo
  <2>5. CASE return(w, "confirmed")
    BY <2>3, <2>5, ReadThenReturn DEF return, Value, ClaimStatus
  <2> QED BY <1>3, <2>4, <2>5 DEF confirmClaim, become
<1> QED BY <1>1, <1>2, <1>3 DEF confirmClaim

LEMMA VoidClaimStep ==
  ASSUME IInv, NEW w \in Worker, stack[w] # <<>>, voidClaim(w)
  PROVE  IInv'
<1> PICK f \in Frame : f = top(w)
  BY TopIsSound DEF IInv
<1> USE DEF Record
<1>0. f \in Record /\ sound(f)
  BY DEF Frame
<1>1. CASE f.at = "voidClaim"
  <2>1. [f EXCEPT !.at = "voidClaim.write"] \in Frame
    BY <1>1 DEF Frame, sound, rowsTyped, listTyped, statusTyped, knows
  <2>2. UNCHANGED vars
    BY <1>1 DEF voidClaim, reads
  <2>3. \/ throw(w, "refused")
        \/ stack' = [stack EXCEPT ![w] = <<[f EXCEPT !.at = "voidClaim.write"]>> \o Tail(@)]
    BY <1>1 DEF voidClaim, goto, become
  <2> QED BY <2>1, <2>2, <2>3, ReadThenGo, ReadThenThrow, Errors
<1>2. CASE f.at = "voidClaim.write"
  <2>1. Tables' /\ Frame \subseteq Frame'
    BY <1>2, ClaimWritten DEF voidClaim, writeClaim, IInv, ClaimStatus
  <2>2. [f EXCEPT !.at = "voidClaim.allocation"] \in Frame
    BY <1>2 DEF Frame, sound, rowsTyped, listTyped, statusTyped, knows
  <2> QED BY <1>2, <2>1, <2>2, GoIsSound DEF voidClaim, goto, become, IInv
<1>3. CASE f.at = "voidClaim.allocation"
  <2>1. f.id \in Claim
    BY <1>0, <1>3 DEF sound, rowsTyped
  <2> PICK a \in Allocation : a = AllocationOf[f.id]
    BY <2>1, ForeignKeys
  <2>2. allocationStatus[a] \in Value
    BY DEF IInv, Tables, TypeOK, Absent, Value
  <2> PICK v \in Value : v = allocationStatus[a]
    BY <2>2
  <2>3. [f EXCEPT !.at = "voidClaim.siblings", !.kept = v] \in Frame
    BY <1>3, KeptIsFree
  <2>4. UNCHANGED vars
    BY <1>3 DEF voidClaim, reads
  <2>5. stack' = [stack EXCEPT
          ![w] = <<[f EXCEPT !.at = "voidClaim.siblings", !.kept = v]>> \o Tail(@)]
    BY <1>3 DEF voidClaim, keep, become
  <2> QED BY <2>3, <2>4, <2>5, ReadThenGo
<1>4. CASE f.at = "voidClaim.siblings"
  <2>1. [f EXCEPT !.at = "voidClaim.reopen"] \in Frame
    BY <1>4 DEF Frame, sound, rowsTyped, listTyped, statusTyped, knows
  <2>2. UNCHANGED vars
    BY <1>4 DEF voidClaim, reads
  <2>3. CASE stack' = [stack EXCEPT ![w] = <<[f EXCEPT !.at = "voidClaim.reopen"]>> \o Tail(@)]
    BY <2>1, <2>2, <2>3, ReadThenGo
  <2>4. CASE return(w, "voided")
    BY <2>2, <2>4, ReadThenReturn DEF return, Value, ClaimStatus
  <2> QED BY <1>4, <2>3, <2>4 DEF voidClaim, goto, become
<1>5. CASE f.at = "voidClaim.reopen"
  <2>1. f.id \in Claim
    BY <1>0, <1>5 DEF sound, rowsTyped
  <2> PICK a \in Allocation : a = AllocationOf[f.id]
    BY <2>1, ForeignKeys
  <2>2. "pending" \in AllocationStatus
    BY DEF AllocationStatus
  <2>3. Tables' /\ Frame \subseteq Frame'
    BY <1>5, <2>2, AllocationWritten DEF voidClaim, writeAllocation, IInv
  <2>4. call("syncSettlement", SettlementOf[a]) \in Frame'
    BY <2>3, ForeignKeys, CallsAreSound
  <2> QED BY <1>5, <2>3, <2>4, GoIsSound DEF voidClaim, become, IInv
<1> QED BY <1>1, <1>2, <1>3, <1>4, <1>5 DEF voidClaim

-------------------------------------------------------------------------------
(* Batch dispatch and disbursement.                                         *)

LEMMA JoinTyped ==
  ASSUME NEW F, NEW p \in Seq(F), NEW q \in Seq(F)
  PROVE  p \o q \in Seq(F)
OBVIOUS

\* Calls of one method for each row of a list.
LEMMA EachTyped ==
  ASSUME NEW F, NEW S, NEW ids \in Seq(S), NEW at, \A x \in S : call(at, x) \in F
  PROVE  [i \in DOMAIN ids |-> call(at, ids[i])] \in Seq(F)
OBVIOUS

LEMMA SharesTyped ==
  ASSUME NEW claims \in Seq(Claim)
  PROVE  [i \in DOMAIN claims |-> AllocationOf[claims[i]]] \in Seq(Allocation)
<1>1. \A i \in DOMAIN claims : AllocationOf[claims[i]] \in Allocation
  BY ForeignKeys
<1> QED BY <1>1

LEMMA RecordBatchClaimsStep ==
  ASSUME IInv, NEW w \in Worker, stack[w] # <<>>, recordBatchClaims(w)
  PROVE  IInv'
<1> PICK f \in Frame : f = top(w)
  BY TopIsSound DEF IInv
<1> USE DEF Record
<1>0. f \in Record /\ sound(f)
  BY DEF Frame
<1>1. f.at \in BatchPoint /\ UNCHANGED vars
  BY DEF recordBatchClaims, reads
<1>2. f.rest \in Seq(Claim) /\ f.rest # <<>>
  BY <1>0, <1>1 DEF sound, listTyped
<1> PICK c \in Claim : c = Head(f.rest)
  BY <1>2
<1> PICK a \in Allocation : a = AllocationOf[c]
  BY ForeignKeys
<1> PICK s \in Settlement : s = SettlementOf[a]
  BY ForeignKeys
<1>3. CASE f.at = "batch"
  <2>1. [f EXCEPT !.at = "batch.settlement"] \in Frame
    BY <1>3 DEF Frame, sound, rowsTyped, listTyped, statusTyped, knows
  <2>2. \/ throw(w, "refused")
        \/ stack' = [stack EXCEPT ![w] = <<[f EXCEPT !.at = "batch.settlement"]>> \o Tail(@)]
    BY <1>3 DEF recordBatchClaims, goto, become
  <2> QED BY <1>1, <2>1, <2>2, ReadThenGo, ReadThenThrow, Errors
<1>4. CASE f.at = "batch.settlement"
  <2>1. settlementStatus[s] \in Value
    BY DEF IInv, Tables, TypeOK, Absent, Value
  <2> PICK v \in Value : v = settlementStatus[s]
    BY <2>1
  <2>2. [f EXCEPT !.at = "batch.claims", !.kept = v] \in Frame
    BY <1>4, KeptIsFree
  <2>3. stack' = [stack EXCEPT
          ![w] = <<[f EXCEPT !.at = "batch.claims", !.kept = v]>> \o Tail(@)]
    BY <1>4 DEF recordBatchClaims, keep, become
  <2> QED BY <1>1, <2>2, <2>3, ReadThenGo
<1>5. CASE f.at = "batch.claims"
  <2> PICK later : later = IF Len(f.rest) = 1 THEN <<>>
                           ELSE <<[f EXCEPT !.rest = Tail(@), !.at = "batch"]>>
    OBVIOUS
  <2>1. later \in Seq(Frame)
    <3>1. CASE Len(f.rest) = 1
      BY <3>1
    <3>2. CASE Len(f.rest) # 1
      <4> PICK rest : rest = Tail(f.rest)
        OBVIOUS
      <4>1. rest \in Seq(Claim) /\ rest # <<>>
        BY <1>2, <3>2, TailTyped
      <4>2. rest \in Seq(Character \cup Allocation \cup Claim)
        BY <4>1
      <4> PICK g : g = [f EXCEPT !.rest = rest, !.at = "batch"]
        OBVIOUS
      <4>3. /\ g \in Record /\ g.at = "batch" /\ g.id = f.id /\ g.kept = f.kept
            /\ g.rest = rest
        BY <1>0, <4>2 DEF Record
      <4>4. g \in Frame
        BY <4>1, <4>3 DEF Frame, sound, rowsTyped, listTyped, statusTyped, knows
      <4> QED BY <3>2, <4>4
    <3> QED BY <3>1, <3>2
  <2> PICK start : start = IF f.kept = "draft" THEN <<call("markCalculated", s)>> ELSE <<>>
    OBVIOUS
  <2>2. start \in Seq(Frame) /\ <<call("recordClaim", c)>> \in Seq(Frame)
    BY CallsAreSound
  <2>3. start \o <<call("recordClaim", c)>> \o later \in Seq(Frame)
    BY <2>1, <2>2, JoinTyped
  <2>4. \/ throw(w, "refused")
        \/ stack' = [stack EXCEPT ![w] = (start \o <<call("recordClaim", c)>> \o later) \o Tail(@)]
    BY <1>5 DEF recordBatchClaims, become
  <2> QED BY <1>1, <2>3, <2>4, ReadThenBecome, ReadThenThrow, Errors
<1> QED BY <1>3, <1>4, <1>5 DEF recordBatchClaims

LEMMA DisburseSettlementStep ==
  ASSUME IInv, NEW w \in Worker, stack[w] # <<>>, disburseSettlement(w)
  PROVE  IInv'
<1> PICK f \in Frame : f = top(w)
  BY TopIsSound DEF IInv
<1> USE DEF Record
<1>0. f \in Record /\ sound(f)
  BY DEF Frame
<1>1. f.at \in DisbursePoint /\ UNCHANGED vars
  BY DEF disburseSettlement, reads
<1>2. f.id \in Settlement /\ f.rest \in Seq(Claim)
  BY <1>0, <1>1 DEF sound, rowsTyped, listTyped
<1> PICK s \in Settlement : s = f.id
  BY <1>2
<1>3. [f EXCEPT !.at = "disburse.list"] \in Frame
  BY <1>1 DEF Frame, sound, rowsTyped, listTyped, statusTyped, knows
<1> PICK mark : mark = <<call("markCalculated", s)>> \o <<[f EXCEPT !.at = "disburse.list"]>>
  OBVIOUS
<1> PICK list : list = <<>> \o <<[f EXCEPT !.at = "disburse.list"]>>
  OBVIOUS
<1>4. mark \in Seq(Frame) /\ list \in Seq(Frame)
  <2>1. <<call("markCalculated", s)>> \in Seq(Frame) /\ <<>> \in Seq(Frame)
    BY CallsAreSound
  <2>2. <<[f EXCEPT !.at = "disburse.list"]>> \in Seq(Frame)
    BY <1>3
  <2> QED BY <2>1, <2>2, JoinTyped
<1>5. CASE f.at = "disburse"
  <2>1. settlementStatus[s] \in Value
    BY DEF IInv, Tables, TypeOK, Absent, Value
  <2> PICK v \in Value : v = settlementStatus[s]
    BY <2>1
  <2>2. [f EXCEPT !.at = "disburse.participants", !.kept = v] \in Frame
    BY <1>5, KeptIsFree
  <2>3. \/ throw(w, "refused")
        \/ stack' = [stack EXCEPT ![w] = mark \o Tail(@)]
        \/ stack' = [stack EXCEPT ![w] = list \o Tail(@)]
        \/ stack' = [stack EXCEPT
             ![w] = <<[f EXCEPT !.at = "disburse.participants", !.kept = v]>> \o Tail(@)]
    BY <1>5 DEF disburseSettlement, keep, become
  <2> QED BY <1>1, <1>4, <2>2, <2>3, ReadThenGo, ReadThenBecome, ReadThenThrow, Errors
<1>6. CASE f.at = "disburse.participants"
  <2>1. \/ throw(w, "refused")
        \/ stack' = [stack EXCEPT ![w] = mark \o Tail(@)]
        \/ stack' = [stack EXCEPT ![w] = list \o Tail(@)]
    BY <1>6 DEF disburseSettlement, become
  <2> QED BY <1>1, <1>4, <2>1, ReadThenBecome, ReadThenThrow, Errors
<1>7. CASE f.at = "disburse.list"
  <2> PICK shares : shares = [i \in DOMAIN f.rest |-> AllocationOf[f.rest[i]]]
    OBVIOUS
  <2>1. shares \in Seq(Allocation)
    BY <1>2, SharesTyped
  <2> PICK create : create = [i \in DOMAIN shares |-> call("createAllocation", shares[i])]
    OBVIOUS
  <2> PICK match : match = [i \in DOMAIN shares |-> call("matchAllocation", shares[i])]
    OBVIOUS
  <2> PICK record : record = [i \in DOMAIN f.rest |-> call("recordClaim", f.rest[i])]
    OBVIOUS
  <2>2. create \in Seq(Frame) /\ match \in Seq(Frame)
    BY <2>1, EachTyped, CallsAreSound
  <2>3. record \in Seq(Frame)
    BY <1>2, EachTyped, CallsAreSound
  <2>4. create \o record \in Seq(Frame) /\ match \o record \in Seq(Frame)
    BY <2>2, <2>3, JoinTyped
  <2>5. \/ throw(w, "refused")
        \/ stack' = [stack EXCEPT ![w] = (create \o record) \o Tail(@)]
        \/ stack' = [stack EXCEPT ![w] = (match \o record) \o Tail(@)]
    BY <1>7 DEF disburseSettlement, become
  <2> QED BY <1>1, <2>4, <2>5, ReadThenBecome, ReadThenThrow, Errors
<1> QED BY <1>5, <1>6, <1>7 DEF disburseSettlement

LEMMA MatchAllocationStep ==
  ASSUME IInv, NEW w \in Worker, stack[w] # <<>>, matchAllocation(w)
  PROVE  IInv'
<1>1. UNCHANGED vars
  BY DEF matchAllocation, reads
<1>2. CASE throw(w, "refused")
  BY <1>1, <1>2, ReadThenThrow, Errors
<1>3. CASE return(w, "matched")
  BY <1>1, <1>3, ReadThenReturn DEF return, Value
<1> QED BY <1>2, <1>3 DEF matchAllocation

-------------------------------------------------------------------------------
(* The settle request.  Its points rely on nothing but its rows: any value  *)
(* can be kept there.                                                       *)

LEMMA PairTyped ==
  ASSUME NEW F, NEW p \in F, NEW q \in F
  PROVE  <<p, q>> \in Seq(F)
OBVIOUS

LEMMA StoppedIsSound ==
  ASSUME StacksSound, Frame \subseteq Frame', NEW w \in Worker,
         stack' = [stack EXCEPT ![w] = <<>>]
  PROVE  StacksSound'
<1>1. stack \in [Worker -> Seq(Frame')]
  BY DEF StacksSound
<1> QED BY <1>1 DEF StacksSound

LEMMA SettleIsFree ==
  ASSUME NEW f \in Frame, f.at \in SettlePoint, NEW v \in Value, NEW at \in SettlePoint
  PROVE  [f EXCEPT !.at = at, !.kept = v] \in Frame
<1>0. f \in Record /\ sound(f) /\ at \in Point
  BY DEF Frame
<1> PICK g : g = [f EXCEPT !.at = at, !.kept = v]
  OBVIOUS
<1>1. /\ g \in Record /\ g.at = at /\ g.id = f.id
      /\ g.kept = v /\ g.rest = f.rest
  BY <1>0 DEF Record
<1>2. rowsTyped(g) /\ listTyped(g)
  BY <1>0, <1>1 DEF sound, rowsTyped, listTyped
<1>3. statusTyped(g) /\ knows(g)
  BY <1>0, <1>1 DEF statusTyped, knows
<1> QED BY <1>1, <1>2, <1>3 DEF Frame, sound

LEMMA SettleGoes ==
  ASSUME NEW f \in Frame, f.at \in SettlePoint, NEW at \in SettlePoint \cup {"createDraft.insert"}
  PROVE  [f EXCEPT !.at = at] \in Frame
<1>0. f \in Record /\ sound(f) /\ at \in Point
  BY DEF Frame
<1> PICK g : g = [f EXCEPT !.at = at]
  OBVIOUS
<1>1. /\ g \in Record /\ g.at = at /\ g.id = f.id
      /\ g.kept = f.kept /\ g.rest = f.rest
  BY <1>0 DEF Record
<1>2. rowsTyped(g) /\ listTyped(g)
  BY <1>0, <1>1 DEF sound, rowsTyped, listTyped
<1>3. statusTyped(g) /\ knows(g)
  BY <1>0, <1>1 DEF statusTyped, knows
<1> QED BY <1>1, <1>2, <1>3 DEF Frame, sound

LEMMA DraftTyped ==
  ASSUME NEW s \in Settlement, EventOf[s] # NoEvent, NEW v \in Value
  PROVE  [call("settleEvent.ready", s) EXCEPT !.kept = v] \in Frame
<1>1. call("settleEvent.ready", s) \in Record
  BY CallTyped DEF Row
<1> PICK g : g = [call("settleEvent.ready", s) EXCEPT !.kept = v]
  OBVIOUS
<1>2. g \in Record /\ g.at = "settleEvent.ready" /\ g.id = s /\ g.rest = <<>>
  BY <1>1 DEF Record, call
<1>3. rowsTyped(g)
  BY <1>2 DEF rowsTyped
<1>4. <<>> \in Seq(Allocation)
  OBVIOUS
<1>5. listTyped(g) /\ statusTyped(g) /\ knows(g)
  BY <1>2, <1>4 DEF listTyped, statusTyped, knows
<1> QED BY <1>2, <1>3, <1>5 DEF Frame, sound

LEMMA SettleEventWithAllocationsStep ==
  ASSUME IInv, NEW w \in Worker, stack[w] # <<>>, settleEventWithAllocations(w)
  PROVE  IInv'
<1> PICK f \in Frame : f = top(w)
  BY TopIsSound DEF IInv
<1> USE DEF Record
<1>0. f \in Record /\ sound(f)
  BY DEF Frame
<1>1. f.at \in SettlePoint /\ UNCHANGED vars
  BY DEF settleEventWithAllocations, reads
<1>2. f.id \in Settlement /\ EventOf[f.id] # NoEvent /\ f.rest \in Seq(Allocation)
  BY <1>0, <1>1 DEF sound, rowsTyped, listTyped
<1> PICK s \in Settlement : s = f.id
  BY <1>2
<1> PICK e \in Event : e = EventOf[s]
  BY <1>2, ForeignKeys
<1>3. call("syncEvent", e) \in Frame /\ <<call("syncEvent", e)>> \in Seq(Frame)
  BY CallsAreSound
<1>4. CASE f.at = "settle"
  <2> PICK v \in {"plain", "exception"} :
         stack' = [stack EXCEPT ![w] =
           <<call("syncEvent", e), [f EXCEPT !.at = "settle.list", !.kept = v]>> \o Tail(@)]
    BY <1>4 DEF settleEventWithAllocations, become, exceptionNeeded
  <2>1. [f EXCEPT !.at = "settle.list", !.kept = v] \in Frame
    BY <1>1, SettleIsFree DEF Value
  <2>2. <<call("syncEvent", e), [f EXCEPT !.at = "settle.list", !.kept = v]>> \in Seq(Frame)
    BY <1>3, <2>1
  <2> QED BY <1>1, <2>2, ReadThenBecome
<1>5. CASE f.at = "settle.list"
  <2> PICK draft : draft = [call("settleEvent.ready", s) EXCEPT !.kept = f.kept]
    OBVIOUS
  <2>1. draft \in Frame
    BY <1>0, <1>2, DraftTyped
  <2>2. call("markCalculated", s) \in Frame
    BY CallsAreSound
  <2>3. [f EXCEPT !.at = "settle.calculated"] \in Frame
    BY <1>1, SettleGoes
  <2>4. <<call("syncEvent", e), draft, call("markCalculated", s),
          [f EXCEPT !.at = "settle.calculated"]>> \in Seq(Frame)
    BY <1>3, <2>1, <2>2, <2>3
  <2>5. \/ throw(w, "refused")
        \/ stack' = [stack EXCEPT ![w] =
             <<call("syncEvent", e), draft, call("markCalculated", s),
               [f EXCEPT !.at = "settle.calculated"]>> \o Tail(@)]
    BY <1>5 DEF settleEventWithAllocations, become
  <2> QED BY <1>1, <2>4, <2>5, ReadThenBecome, ReadThenThrow, Errors
<1>6. CASE f.at = "settleEvent.ready"
  <2> PICK ready : ready = IF f.got = "open" THEN <<call("markReady", e)>> ELSE <<>>
    OBVIOUS
  <2>1. ready \in Seq(Frame)
    BY CallsAreSound
  <2>2. <<call("syncEvent", e), [f EXCEPT !.at = "createDraft.insert"]>> \in Seq(Frame)
    <3>1. [f EXCEPT !.at = "createDraft.insert"] \in Frame
      BY <1>1, SettleGoes
    <3> QED BY <1>3, <3>1
  <2>3. ready \o <<call("syncEvent", e), [f EXCEPT !.at = "createDraft.insert"]>> \in Seq(Frame)
    BY <2>1, <2>2, JoinTyped
  <2>4. stack' = [stack EXCEPT ![w] =
          (ready \o <<call("syncEvent", e), [f EXCEPT !.at = "createDraft.insert"]>>) \o Tail(@)]
    BY <1>6 DEF settleEventWithAllocations, become
  <2> QED BY <1>1, <2>3, <2>4, ReadThenBecome
<1>7. CASE f.at = "settle.calculated"
  <2> PICK create : create = [i \in DOMAIN f.rest |-> call("createAllocation", f.rest[i])]
    OBVIOUS
  <2>1. create \in Seq(Frame)
    BY <1>2, EachTyped, CallsAreSound
  <2>2. <<call("syncEvent", e), [f EXCEPT !.at = "settle.allocated"]>> \in Seq(Frame)
    <3>1. [f EXCEPT !.at = "settle.allocated"] \in Frame
      BY <1>1, SettleGoes
    <3> QED BY <1>3, <3>1
  <2>3. create \o <<call("syncEvent", e), [f EXCEPT !.at = "settle.allocated"]>> \in Seq(Frame)
    BY <2>1, <2>2, JoinTyped
  <2>4. stack' = [stack EXCEPT ![w] =
          (create \o <<call("syncEvent", e), [f EXCEPT !.at = "settle.allocated"]>>) \o Tail(@)]
    BY <1>7 DEF settleEventWithAllocations, become
  <2> QED BY <1>1, <2>3, <2>4, ReadThenBecome
<1>8. CASE f.at = "settle.allocated"
  <2>1. return(w, "calculated")
    BY <1>8 DEF settleEventWithAllocations
  <2> QED BY <1>1, <2>1, ReadThenReturn DEF return, Value, SettlementStatus
<1> QED BY <1>4, <1>5, <1>6, <1>7, <1>8 DEF settleEventWithAllocations

LEMMA RollbackStep ==
  ASSUME IInv, NEW w \in Worker, stack[w] # <<>>, rollbackSettlementFailure(w)
  PROVE  IInv'
<1> PICK f \in Frame : f = top(w)
  BY TopIsSound DEF IInv
<1> USE DEF Record
<1>0. f \in Record /\ sound(f)
  BY DEF Frame
<1>1. f.at \in SettlePoint /\ UNCHANGED vars
  BY DEF rollbackSettlementFailure, reads
<1>2. f.id \in Settlement /\ EventOf[f.id] # NoEvent
  BY <1>0, <1>1 DEF sound, rowsTyped
<1> PICK e \in Event : e = EventOf[f.id]
  BY <1>2, ForeignKeys
<1>3. call("syncEvent", e) \in Frame /\ call("cancelSettlement", f.id) \in Frame
  BY <1>2, CallsAreSound
<1>4. CASE f.at = "settle.rollback"
  <2>1. [f EXCEPT !.at = "settle.cancelled", !.kept = f.got] \in Frame
    BY <1>0, <1>1, SettleIsFree
  <2>2. <<call("cancelSettlement", f.id),
          [f EXCEPT !.at = "settle.cancelled", !.kept = f.got]>> \in Seq(Frame)
    BY <1>3, <2>1
  <2>3. stack' = [stack EXCEPT ![w] =
          <<call("cancelSettlement", f.id),
            [f EXCEPT !.at = "settle.cancelled", !.kept = f.got]>> \o Tail(@)]
    BY <1>4 DEF rollbackSettlementFailure, become
  <2> QED BY <1>1, <2>2, <2>3, ReadThenBecome
<1>5. CASE f.at = "settle.cancelled"
  <2> PICK v : v = IF f.kept = "failed" THEN "rolled back" ELSE f.kept
    OBVIOUS
  <2>1. v \in Value
    BY <1>0 DEF Value
  <2> PICK g : g = [f EXCEPT !.at = "settle.resynced", !.kept = v]
    OBVIOUS
  <2>2. g \in Frame
    BY <1>1, <2>1, SettleIsFree
  <2>3. <<call("syncEvent", e), g>> \in Seq(Frame)
    BY <1>3, <2>2, PairTyped
  <2>4. stack' = [stack EXCEPT ![w] = <<call("syncEvent", e), g>> \o Tail(@)]
    BY <1>0, <1>5 DEF rollbackSettlementFailure, become
  <2> QED BY <1>1, <2>3, <2>4, ReadThenBecome
<1>6. CASE f.at = "settle.resync"
  <2>1. [f EXCEPT !.at = "settle.resynced"] \in Frame
    BY <1>1, SettleGoes
  <2>2. <<call("syncEvent", e), [f EXCEPT !.at = "settle.resynced"]>> \in Seq(Frame)
    BY <1>3, <2>1
  <2>3. stack' = [stack EXCEPT ![w] =
          <<call("syncEvent", e), [f EXCEPT !.at = "settle.resynced"]>> \o Tail(@)]
    BY <1>6 DEF rollbackSettlementFailure, become
  <2> QED BY <1>1, <2>2, <2>3, ReadThenBecome
<1>7. CASE f.at = "settle.resynced"
  <2>1. Tables' /\ Frame \subseteq Frame'
    BY <1>1, ReadsChangeNothing DEF IInv
  <2>2. stack' = [stack EXCEPT ![w] = <<>>]
    BY <1>7 DEF rollbackSettlementFailure
  <2> QED BY <2>1, <2>2, StoppedIsSound DEF IInv
<1> QED BY <1>4, <1>5, <1>6, <1>7 DEF rollbackSettlementFailure

-------------------------------------------------------------------------------
(* Requests and failures, and the specification.                            *)

LEMMA WellFormedIsSound ==
  ASSUME NEW r, wellFormed(r)
  PROVE  r \in Frame
<1>1. /\ r.at \in Point /\ r.id \in Row /\ r.got = "none" /\ r.kept = "none"
      /\ r.rest \in Seq(Character \cup Allocation \cup Claim)
  <2>1. r.got = "none" /\ r.kept = "none"
    BY DEF wellFormed, request, call
  <2>2. \A S : \A T \in SUBSET S : \A q \in Seq(T) : q \in Seq(S)
    OBVIOUS
  <2>3. <<>> \in Seq(Character \cup Allocation \cup Claim)
    OBVIOUS
  <2>4. r.at \in Point /\ r.id \in Row
    BY DEF wellFormed, Row
  <2>5. r.rest \in Seq(Character \cup Allocation \cup Claim)
    BY <2>2, <2>3 DEF wellFormed
  <2> QED BY <2>1, <2>4, <2>5
<1>2. r \in Record
  <2>1. r = [at |-> r.at, id |-> r.id, got |-> "none", kept |-> "none", rest |-> r.rest]
    BY DEF wellFormed, request, call
  <2>2. "none" \in Value
    BY DEF Value
  <2> QED BY <1>1, <2>1, <2>2 DEF Record
<1>3. rowsTyped(r) /\ statusTyped(r) /\ knows(r)
  BY <1>1 DEF wellFormed, rowsTyped, statusTyped, knows
<1>4. listTyped(r)
  BY DEF wellFormed, listTyped
<1> QED BY <1>2, <1>3, <1>4 DEF Frame, sound

LEMMA BeginStep ==
  ASSUME IInv, NEW w \in Worker, NEW r \in Requests[w], Begin(w, r)
  PROVE  IInv'
<1>1. Tables' /\ Frame \subseteq Frame'
  BY ReadsChangeNothing DEF Begin, IInv
<1>2. r \in Frame'
  BY <1>1, WellFormedIsSound, RequestsAreWellFormed
<1>3. stack' = [stack EXCEPT ![w] = <<r>>]
  BY DEF Begin
<1>4. stack \in [Worker -> Seq(Frame')] /\ <<r>> \in Seq(Frame')
  BY <1>1, <1>2 DEF IInv, StacksSound
<1>5. StacksSound'
  BY <1>3, <1>4 DEF StacksSound
<1> QED BY <1>1, <1>5 DEF IInv

LEMMA FailStep ==
  ASSUME IInv, NEW w \in Worker, Fail(w)
  PROVE  IInv'
BY ReadThenThrow, Errors DEF Fail

LEMMA StopStep ==
  ASSUME IInv, NEW w \in Worker, Stop(w)
  PROVE  IInv'
<1>1. Tables' /\ Frame \subseteq Frame'
  BY ReadsChangeNothing DEF Stop, IInv
<1> QED BY <1>1, StoppedIsSound DEF Stop, IInv

LEMMA StepStep ==
  ASSUME IInv, NEW w \in Worker, Step(w)
  PROVE  IInv'
BY SyncStatusStep, MoveEventStep, EditEventStep, ReplaceEventParticipantsStep,
   CreateDraftSettlementStep, WriteSettlementStatusStep, MarkCalculatedStep, StartPayingStep,
   MarkPaidStep, CancelSettlementStep, SyncSettlementStep, EditSettlementStep,
   CreatePendingAllocationStep, CloseShareStep, RecordClaimStep, ConfirmClaimStep,
   VoidClaimStep, RecordBatchClaimsStep, DisburseSettlementStep, MatchAllocationStep,
   SettleEventWithAllocationsStep, RollbackStep
DEF Step

\* Every activation record of every stack knows what the statement it is at relies
\* on, however much the other workers have done since it found out.
THEOREM StepsInvariant == StepsSpec => []IInv
<1>1. StepsInit => IInv
  <2> SUFFICES ASSUME StepsInit PROVE IInv
    OBVIOUS
  <2>1. Tables
    BY DEF StepsInit, Init, Tables, TypeOK, PayoutHasAllocations, ClaimedWasConfirmed, Absent
  <2>2. StacksSound
    BY DEF StepsInit, StacksSound
  <2> QED BY <2>1, <2>2 DEF IInv
<1>2. IInv /\ [StepsNext]_stepVars => IInv'
  <2> SUFFICES ASSUME IInv, [StepsNext]_stepVars PROVE IInv'
    OBVIOUS
  <2>1. CASE UNCHANGED stepVars
    <3>1. UNCHANGED vars /\ UNCHANGED stack
      BY <2>1 DEF stepVars
    <3>2. Tables' /\ Frame \subseteq Frame'
      BY <3>1, ReadsChangeNothing DEF IInv
    <3> QED BY <3>1, <3>2 DEF IInv, StacksSound
  <2>2. ASSUME NEW w \in Worker, NEW r \in Requests[w], Begin(w, r) PROVE IInv'
    BY <2>2, BeginStep
  <2>3. ASSUME NEW w \in Worker, Step(w) PROVE IInv'
    BY <2>3, StepStep
  <2>4. ASSUME NEW w \in Worker, Fail(w) PROVE IInv'
    BY <2>4, FailStep
  <2>5. ASSUME NEW w \in Worker, Stop(w) PROVE IInv'
    BY <2>5, StopStep
  <2> QED BY <2>1, <2>2, <2>3, <2>4, <2>5 DEF StepsNext
<1> QED BY <1>1, <1>2, PTL DEF StepsSpec

\* Whatever overlaps, fails or is stopped, a settlement is in payout, or paid, only
\* when it has allocations: startPaying lists them before it writes, and no route
\* deletes an allocation.
THEOREM PayoutsHaveAllocations == StepsSpec => []PayoutHasAllocations
BY StepsInvariant, PTL DEF IInv, Tables

\* Whatever overlaps, fails or is stopped, the share that is marked claimed has a
\* claim that was confirmed: confirmClaim writes the claim first, and voidClaim
\* turns a confirmation only into a withdrawal.
THEOREM ClaimedSharesWereConfirmed == StepsSpec => []ClaimedWasConfirmed
BY StepsInvariant, PTL DEF IInv, Tables
===============================================================================
