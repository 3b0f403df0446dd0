------------------------- MODULE LedgerRequestsProofs -------------------------
(***************************************************************************)
(* What an answer is worth: "ok" and "It is safe to retry" are true when   *)
(* requests come one after another, for any number of requests, failed     *)
(* statements and stopped workers.                                         *)
(***************************************************************************)
EXTENDS LedgerSequentialProofs

-------------------------------------------------------------------------------
(* The members of a list.                                                   *)

among(s) == {s[n] : n \in DOMAIN s}

LEMMA AmongNone == among(<<>>) = {}
BY DEF among

LEMMA AmongOne ==
  ASSUME NEW x
  PROVE  among(<<x>>) = {x}
BY DEF among

LEMMA AmongJoined ==
  ASSUME NEW S, NEW p \in Seq(S), NEW T, NEW q \in Seq(T)
  PROVE  among(p \o q) = among(p) \cup among(q)
<1>1. Len(p) \in Nat /\ Len(q) \in Nat /\ DOMAIN p = 1..Len(p) /\ DOMAIN q = 1..Len(q)
  OBVIOUS
<1> PICK r : r = p \o q
  OBVIOUS
<1>2. /\ DOMAIN r = 1..(Len(p) + Len(q))
      /\ \A n \in 1..Len(p) : r[n] = p[n]
      /\ \A n \in (Len(p) + 1)..(Len(p) + Len(q)) : r[n] = q[n - Len(p)]
  BY <1>1
<1>3. ASSUME NEW x \in among(r) PROVE x \in among(p) \cup among(q)
  <2> PICK n \in 1..(Len(p) + Len(q)) : x = r[n]
    BY <1>2, <1>3 DEF among
  <2>1. CASE n \in 1..Len(p)
    BY <1>1, <1>2, <2>1 DEF among
  <2>2. CASE n \in (Len(p) + 1)..(Len(p) + Len(q))
    <3>1. n - Len(p) \in DOMAIN q /\ x = q[n - Len(p)]
      BY <1>1, <1>2, <2>2
    <3> QED BY <3>1 DEF among
  <2> QED BY <1>1, <2>1, <2>2
<1>4. ASSUME NEW n \in DOMAIN p PROVE p[n] \in among(r)
  <2>1. n \in DOMAIN r /\ r[n] = p[n]
    BY <1>1, <1>2
  <2> QED BY <2>1 DEF among
<1>5. ASSUME NEW n \in DOMAIN q PROVE q[n] \in among(r)
  <2>1. /\ n + Len(p) \in (Len(p) + 1)..(Len(p) + Len(q)) /\ n + Len(p) \in DOMAIN r
        /\ (n + Len(p)) - Len(p) = n
    BY <1>1, <1>2
  <2>2. r[n + Len(p)] = q[n]
    BY <1>2, <2>1
  <2> QED BY <2>1, <2>2 DEF among
<1>6. among(p) \subseteq among(r) /\ among(q) \subseteq among(r)
  BY <1>4, <1>5 DEF among
<1>7. among(r) \subseteq among(p) \cup among(q)
  BY <1>3
<1>8. among(r) = among(p) \cup among(q)
  BY <1>6, <1>7
<1> QED BY <1>8

LEMMA AmongPut ==
  ASSUME NEW x, NEW T, NEW q \in Seq(T)
  PROVE  among(<<x>> \o q) = {x} \cup among(q)
<1>1. <<x>> \in Seq({x})
  OBVIOUS
<1>2. among(<<x>> \o q) = among(<<x>>) \cup among(q)
  BY <1>1, AmongJoined
<1> QED BY <1>2, AmongOne

LEMMA HeadAndTail ==
  ASSUME NEW S, NEW s \in Seq(S), s # <<>>
  PROVE  /\ Head(s) \in S /\ Tail(s) \in Seq(S)
         /\ s = <<Head(s)>> \o Tail(s)
         /\ among(s) = {Head(s)} \cup among(Tail(s))
<1>1. Head(s) \in S /\ Tail(s) \in Seq(S)
  BY HeadTailProperties
<1>2. s = <<Head(s)>> \o Tail(s)
  <2>1. Len(s) \in Nat /\ Len(s) # 0
    BY EmptySeq
  <2> QED BY <2>1
<1> PICK h \in S, t \in Seq(S) : h = Head(s) /\ t = Tail(s)
  BY <1>1
<1>3. among(<<h>> \o t) = {h} \cup among(t)
  <2>1. <<h>> \in Seq(S)
    OBVIOUS
  <2>2. among(<<h>> \o t) = among(<<h>>) \cup among(t)
    BY <2>1, AmongJoined
  <2> QED BY <2>2, AmongOne
<1> QED BY <1>1, <1>2, <1>3

LEMMA PutFirst ==
  ASSUME NEW S, NEW h \in S, NEW u \in Seq(S)
  PROVE  <<h>> \o u # <<>> /\ Head(<<h>> \o u) = h /\ Tail(<<h>> \o u) = u
<1>0. <<h>> \in Seq(S) /\ Len(<<h>>) = 1 /\ <<h>>[1] = h
  OBVIOUS
<1> PICK t \in Seq(S) : t = <<h>> \o u
  BY <1>0, JoinTyped
<1>1. Len(u) \in Nat /\ Len(t) = 1 + Len(u) /\ t[1] = h
  BY <1>0, ConcatProperties
<1>2. t # <<>>
  BY <1>1
<1>3. \A n \in 1..Len(u) : t[n + 1] = u[n]
  BY <1>1
<1> PICK v \in Seq(S) : v = Tail(t)
  BY <1>2, HeadTailProperties
<1>4. Len(v) = Len(u)
  BY <1>1, <1>2, HeadTailProperties
<1>5. \A n \in 1..Len(v) : v[n] = t[n + 1]
  BY <1>2, HeadTailProperties
<1>6. v = u
  BY <1>3, <1>4, <1>5, SeqEqual
<1> QED BY <1>1, <1>2, <1>6

LEMMA AmongTyped ==
  ASSUME NEW S, NEW s \in Seq(S)
  PROVE  among(s) \subseteq S
BY DEF among

LEMMA AppendIsLonger ==
  ASSUME NEW S, NEW t \in Seq(S), NEW c \in S
  PROVE  t \o <<c>> # <<>>
<1>1. <<c>> \in Seq(S) /\ Len(<<c>>) = 1 /\ Len(t) \in Nat
  OBVIOUS
<1>2. Len(t \o <<c>>) = Len(t) + 1
  BY <1>1, ConcatProperties
<1> QED BY <1>1, <1>2

\* Above a last record, there is another record, or there is not.
LEMMA AboveTheLast ==
  ASSUME NEW S, NEW q \in Seq(S), NEW c \in S
  PROVE  /\ q \o <<c>> # <<>>
         /\ q = <<>> => q \o <<c>> = <<c>> /\ Head(q \o <<c>>) = c /\ Tail(q \o <<c>>) = <<>>
         /\ q # <<>> => /\ Head(q \o <<c>>) = Head(q)
                        /\ Tail(q \o <<c>>) = Tail(q) \o <<c>>
                        /\ Tail(q \o <<c>>) # <<>>
<1>1. Len(q) \in Nat /\ (q # <<>> => Len(q) # 0)
  BY EmptySeq
<1>2. Len(q \o <<c>>) = Len(q) + 1
  OBVIOUS
<1>3. q \o <<c>> # <<>>
  BY <1>1, <1>2
<1>4. CASE q = <<>>
  <2>1. q \o <<c>> = <<c>>
    BY <1>4
  <2> QED BY <1>3, <1>4, <2>1
<1>5. CASE q # <<>>
  <2> PICK h \in S, t \in Seq(S) : q = <<h>> \o t /\ h = Head(q) /\ t = Tail(q)
    BY <1>5, HeadAndTail
  <2>1. q \o <<c>> = <<h>> \o (t \o <<c>>)
    <3>1. <<h>> \in Seq(S) /\ <<c>> \in Seq(S)
      OBVIOUS
    <3> QED BY <3>1, ConcatAssociative
  <2> PICK u \in Seq(S) : u = t \o <<c>>
    <3>1. <<c>> \in Seq(S)
      OBVIOUS
    <3> QED BY <3>1, JoinTyped
  <2>2. Head(<<h>> \o u) = h /\ Tail(<<h>> \o u) = u
    BY PutFirst
  <2>3. u # <<>>
    BY AppendIsLonger
  <2> QED BY <1>3, <1>5, <2>1, <2>2, <2>3
<1> QED BY <1>4, <1>5

-------------------------------------------------------------------------------
(* How the running record leaves its stack, and what is answered.           *)

Asked == {call("none", "none")} \cup UNION {Requests[w] : w \in Worker}

Outcome == Value \cup {"ok", "lost"}

AnswersTyped == answer \in [Worker -> [of : Asked, is : Outcome]]

\* The stack of w in the next state, and the outcome if it answers its request.
goesOn(w, s) == stack'[w] = s /\ answer' = answer

answers(w, outcome) ==
  /\ stack'[w] = <<>>
  /\ answer'[w].is = outcome
  /\ answer' = [answer EXCEPT ![w].is = outcome]

\* A record with the value its callee has returned, at another point, with another
\* value of its own, and where it catches an error.
given(f, v) == [f EXCEPT !.got = v]
moved(f, at) == [f EXCEPT !.at = at]
holding(f, v, at) == [f EXCEPT !.at = at, !.kept = v]
caught(f, error) == [f EXCEPT !.at = catch[@], !.got = error]

LEMMA Fields ==
  ASSUME NEW f \in Record
  PROVE  /\ \A v : /\ given(f, v).at = f.at /\ given(f, v).id = f.id /\ given(f, v).got = v
                   /\ given(f, v).kept = f.kept /\ given(f, v).rest = f.rest
         /\ \A at : /\ moved(f, at).at = at /\ moved(f, at).id = f.id
                    /\ moved(f, at).got = f.got /\ moved(f, at).kept = f.kept
                    /\ moved(f, at).rest = f.rest
         /\ \A v, at : /\ holding(f, v, at).at = at /\ holding(f, v, at).id = f.id
                       /\ holding(f, v, at).got = f.got /\ holding(f, v, at).kept = v
                       /\ holding(f, v, at).rest = f.rest
         /\ \A error : /\ caught(f, error).at = catch[f.at] /\ caught(f, error).id = f.id
                       /\ caught(f, error).got = error /\ caught(f, error).kept = f.kept
                       /\ caught(f, error).rest = f.rest
BY DEF Record, given, moved, holding, caught

LEMMA StacksTyped ==
  ASSUME IInv
  PROVE  stack \in [Worker -> Seq(Record)]
<1>1. stack \in [Worker -> Seq(Frame)] /\ Frame \subseteq Record
  BY DEF IInv, StacksSound, Frame
<1> QED BY <1>1

LEMMA Goes ==
  ASSUME IInv, NEW w \in Worker,
         NEW f \in Record, NEW t \in Seq(Record), stack[w] = <<f>> \o t
  PROVE  /\ stack[w] # <<>> /\ top(w) = f
         /\ \A q : become(w, q) => goesOn(w, q \o t)
         /\ \A at : goto(w, at) => goesOn(w, <<moved(f, at)>> \o t)
         /\ \A v, at : keep(w, v, at) => goesOn(w, <<holding(f, v, at)>> \o t)
<1>1. stack[w] # <<>> /\ Head(stack[w]) = f /\ Tail(stack[w]) = t
  BY PutFirst
<1>2. ASSUME NEW q, become(w, q) PROVE goesOn(w, q \o t)
  <2>1. stack' = [stack EXCEPT ![w] = q \o t] /\ UNCHANGED answer
    BY <1>1, <1>2 DEF become
  <2> QED BY <2>1, StacksTyped DEF goesOn
<1>3. top(w) = f
  BY <1>1 DEF top
<1>4. ASSUME NEW at, goto(w, at) PROVE goesOn(w, <<moved(f, at)>> \o t)
  <2>1. become(w, <<moved(f, at)>>)
    BY <1>3, <1>4 DEF goto, moved
  <2> QED BY <1>2, <2>1
<1>5. ASSUME NEW v, NEW at, keep(w, v, at)
      PROVE  goesOn(w, <<holding(f, v, at)>> \o t)
  <2>1. become(w, <<holding(f, v, at)>>)
    BY <1>3, <1>5 DEF keep, holding
  <2> QED BY <1>2, <2>1
<1> QED BY <1>1, <1>2, <1>3, <1>4, <1>5

LEMMA Answers ==
  ASSUME IInv, AnswersTyped, NEW w \in Worker, NEW outcome,
         stack' = [stack EXCEPT ![w] = <<>>],
         answer' = [answer EXCEPT ![w].is = outcome]
  PROVE  answers(w, outcome)
BY StacksTyped DEF AnswersTyped, answers

LEMMA Returns ==
  ASSUME IInv, AnswersTyped, NEW w \in Worker, NEW f \in Record, stack[w] = <<f>>,
         NEW v, return(w, v)
  PROVE  answers(w, "ok")
<1>1. Tail(stack[w]) = <<>>
  OBVIOUS
<1>2. /\ stack' = [stack EXCEPT ![w] = <<>>]
      /\ answer' = [answer EXCEPT ![w].is = "ok"]
  BY <1>1 DEF return
<1> QED BY <1>2, Answers

LEMMA ReturnsTo ==
  ASSUME IInv, NEW w \in Worker, NEW f \in Record, NEW h \in Record, NEW u \in Seq(Record),
         stack[w] = <<f>> \o (<<h>> \o u), NEW v, return(w, v)
  PROVE  goesOn(w, <<given(h, v)>> \o u)
<1>1. Head(<<h>> \o u) = h /\ Tail(<<h>> \o u) = u /\ <<h>> \o u # <<>>
  BY PutFirst
<1>2. <<h>> \o u \in Seq(Record)
  BY PushTyped
<1>3. Tail(stack[w]) = <<h>> \o u
  BY <1>2, PutFirst
<1>4. /\ stack' = [stack EXCEPT ![w] = <<given(h, v)>> \o u]
      /\ UNCHANGED answer
  BY <1>1, <1>3 DEF return, given
<1> QED BY <1>4, StacksTyped DEF goesOn

\* An error that nobody catches is the answer.
LEMMA ThrowsAway ==
  ASSUME IInv, AnswersTyped, NEW w \in Worker, \A x \in among(stack[w]) : x.at \notin DOMAIN catch,
         NEW error, throw(w, error)
  PROVE  answers(w, error)
<1>1. \A n \in DOMAIN stack[w] : stack[w][n].at \notin DOMAIN catch
  BY DEF among
<1>2. /\ stack' = [stack EXCEPT ![w] = <<>>]
      /\ answer' = [answer EXCEPT ![w].is = error]
  BY <1>1 DEF throw
<1> QED BY <1>2, Answers

\* One that only the last record catches leaves that one.
LEMMA ThrowsDown ==
  ASSUME IInv, AnswersTyped, NEW w \in Worker,
         NEW q \in Seq(Record), NEW c \in Record, stack[w] = q \o <<c>>,
         \A x \in among(q) : x.at \notin DOMAIN catch, c.at \in DOMAIN catch,
         NEW error, throw(w, error)
  PROVE  goesOn(w, <<caught(c, error)>>)
<1> PICK s \in Seq(Record) : s = q \o <<c>>
  <2>1. <<c>> \in Seq(Record)
    OBVIOUS
  <2> QED BY <2>1, JoinTyped
<1>1. /\ Len(q) \in Nat /\ Len(s) = Len(q) + 1 /\ s[Len(s)] = c
      /\ \A n \in 1..Len(q) : s[n] = q[n]
      /\ DOMAIN s = 1..Len(s) /\ DOMAIN q = 1..Len(q)
  <2>1. <<c>> \in Seq(Record) /\ Len(<<c>>) = 1 /\ <<c>>[1] = c
    OBVIOUS
  <2>2. /\ Len(s) = Len(q) + Len(<<c>>)
        /\ \A n \in 1..(Len(q) + Len(<<c>>)) :
             s[n] = IF n <= Len(q) THEN q[n] ELSE <<c>>[n - Len(q)]
    BY <2>1, ConcatProperties
  <2>3. Len(q) \in Nat
    OBVIOUS
  <2> QED BY <2>1, <2>2, <2>3
<1>2. ASSUME NEW n \in DOMAIN s, s[n].at \in DOMAIN catch PROVE n = Len(s)
  <2>1. CASE n \in 1..Len(q)
    BY <1>1, <1>2, <2>1 DEF among
  <2> QED BY <1>1, <2>1
<1>3. Len(s) \in DOMAIN s /\ s[Len(s)].at \in DOMAIN catch
  BY <1>1
<1>4. /\ stack' = [stack EXCEPT ![w] = caughtAt(Len(s), s, error)]
      /\ UNCHANGED answer
  BY <1>2, <1>3 DEF throw
<1>5. SubSeq(s, Len(s) + 1, Len(s)) = <<>>
  BY <1>1, SubSeqEmpty
<1>6. caughtAt(Len(s), s, error) = <<caught(c, error)>> \o <<>>
  BY <1>1, <1>5 DEF caughtAt, caught
<1> QED BY <1>4, <1>6, StacksTyped DEF goesOn

-------------------------------------------------------------------------------
(* A stack stays within a set of points when its methods go on within it.   *)

Within(s, P) == \A x \in among(s) : x.at \in P

\* The stack of w is within points that catch nothing.
Confined(w, P) == Within(stack[w], P) /\ P \cap DOMAIN catch = {}

LEMMA StaysBelow ==
  ASSUME IInv, NEW w \in Worker, NEW P, Confined(w, P),
         NEW f \in Record, NEW t \in Seq(Record), stack[w] = <<f>> \o t
  PROVE  /\ \A error : throw(w, error) => Within(stack'[w], P)
         /\ \A v : return(w, v) => Within(stack'[w], P)
         /\ \A S : \A q \in Seq(S) :
              (\A r \in S : r.at \in P) /\ become(w, q) => Within(stack'[w], P)
         /\ \A g : g.at \in P /\ become(w, <<g>>) => Within(stack'[w], P)
<1>1. among(stack[w]) = {f} \cup among(t)
  BY AmongPut
<1>2. Within(t, P)
  BY <1>1 DEF Confined, Within
<1>3. Within(<<>>, P)
  BY AmongNone DEF Within
<1>4. ASSUME NEW error, throw(w, error) PROVE Within(stack'[w], P)
  <2>1. \A n \in DOMAIN stack[w] : stack[w][n].at \notin DOMAIN catch
    BY DEF Confined, Within, among
  <2>2. stack' = [stack EXCEPT ![w] = <<>>]
    BY <1>4, <2>1 DEF throw
  <2>3. stack'[w] = <<>>
    BY <2>2, StacksTyped
  <2> QED BY <1>3, <2>3
<1>5. ASSUME NEW v, return(w, v) PROVE Within(stack'[w], P)
  <2>1. CASE t = <<>>
    <3>1. Tail(stack[w]) = <<>>
      BY <2>1, PutFirst
    <3>2. stack' = [stack EXCEPT ![w] = <<>>]
      BY <1>5, <3>1 DEF return
    <3>3. stack'[w] = <<>>
      BY <3>2, StacksTyped
    <3> QED BY <1>3, <3>3
  <2>2. CASE t # <<>>
    <3> SUFFICES ASSUME NEW h \in Record, NEW u \in Seq(Record), t = <<h>> \o u
                 PROVE  Within(stack'[w], P)
      BY <2>2, HeadAndTail
    <3>1. among(t) = {h} \cup among(u)
      BY AmongPut
    <3>2. stack'[w] = <<given(h, v)>> \o u
      BY <1>5, ReturnsTo DEF goesOn
    <3>3. among(<<given(h, v)>> \o u) = {given(h, v)} \cup among(u)
      BY AmongPut
    <3>4. given(h, v).at = h.at
      BY Fields
    <3> QED BY <1>2, <3>1, <3>2, <3>3, <3>4 DEF Within
  <2> QED BY <2>1, <2>2
<1>6. ASSUME NEW S, NEW q \in Seq(S), \A r \in S : r.at \in P, become(w, q)
      PROVE  Within(stack'[w], P)
  <2>1. stack'[w] = q \o t
    BY <1>6, Goes DEF goesOn
  <2>2. among(q \o t) = among(q) \cup among(t)
    BY AmongJoined
  <2>3. among(q) \subseteq S
    BY AmongTyped
  <2> QED BY <1>2, <1>6, <2>1, <2>2, <2>3 DEF Within
<1>7. ASSUME NEW g, g.at \in P, become(w, <<g>>) PROVE Within(stack'[w], P)
  <2>1. stack'[w] = <<g>> \o t
    BY <1>7, Goes DEF goesOn
  <2>2. among(<<g>> \o t) = {g} \cup among(t)
    BY AmongPut
  <2> QED BY <1>2, <1>7, <2>1, <2>2 DEF Within
<1> QED BY <1>4, <1>5, <1>6, <1>7

\* The record that is running.
LEMMA RunningTyped ==
  ASSUME IInv, NEW w \in Worker, stack[w] # <<>>
  PROVE  top(w) \in Record /\ sound(top(w)) /\ top(w) \in among(stack[w])
<1>1. top(w) \in Record /\ sound(top(w))
  BY TopIsSound DEF IInv, Frame
<1>2. stack[w] \in Seq(Record)
  BY StacksTyped
<1> QED BY <1>1, <1>2, HeadAndTail DEF top

LEMMA Stays ==
  ASSUME IInv, NEW w \in Worker, stack[w] # <<>>, NEW P, Confined(w, P)
  PROVE  /\ \A error : throw(w, error) => Within(stack'[w], P)
         /\ \A v : return(w, v) => Within(stack'[w], P)
         /\ \A S : \A q \in Seq(S) :
              (\A r \in S : r.at \in P) /\ become(w, q) => Within(stack'[w], P)
         /\ \A g : g.at \in P /\ become(w, <<g>>) => Within(stack'[w], P)
         /\ \A g, h : g.at \in P /\ h.at \in P /\ become(w, <<g, h>>) => Within(stack'[w], P)
         /\ \A at : at \in P /\ goto(w, at) => Within(stack'[w], P)
         /\ \A v, at : at \in P /\ keep(w, v, at) => Within(stack'[w], P)
<1>1. top(w) \in Record
  BY RunningTyped
<1>2. stack[w] \in Seq(Record)
  BY StacksTyped
<1>3. /\ \A error : throw(w, error) => Within(stack'[w], P)
      /\ \A v : return(w, v) => Within(stack'[w], P)
      /\ \A S : \A q \in Seq(S) :
           (\A r \in S : r.at \in P) /\ become(w, q) => Within(stack'[w], P)
      /\ \A g : g.at \in P /\ become(w, <<g>>) => Within(stack'[w], P)
  BY <1>2, HeadAndTail, StaysBelow
<1>4. ASSUME NEW g, NEW h, g.at \in P, h.at \in P, become(w, <<g, h>>)
      PROVE  Within(stack'[w], P)
  <2> PICK S : S = {g, h}
    OBVIOUS
  <2>1. <<g, h>> \in Seq(S) /\ \A r \in S : r.at \in P
    BY <1>4
  <2> QED BY <1>3, <1>4, <2>1
<1>5. ASSUME NEW at, at \in P, goto(w, at) PROVE Within(stack'[w], P)
  <2>1. become(w, <<moved(top(w), at)>>)
    BY <1>5 DEF goto, moved
  <2>2. moved(top(w), at).at = at
    BY <1>1, Fields
  <2> QED BY <1>3, <1>5, <2>1, <2>2
<1>6. ASSUME NEW v, NEW at, at \in P, keep(w, v, at) PROVE Within(stack'[w], P)
  <2>1. become(w, <<holding(top(w), v, at)>>)
    BY <1>6 DEF keep, holding
  <2>2. holding(top(w), v, at).at = at
    BY <1>1, Fields
  <2> QED BY <1>3, <1>6, <2>1, <2>2
<1> QED BY <1>3, <1>4, <1>5, <1>6

LEMMA SyncStatusStays ==
  ASSUME IInv, NEW w \in Worker, stack[w] # <<>>, NEW P, Confined(w, P), syncStatus(w),
         {"syncEvent.list", "event.write"} \subseteq P
  PROVE  Within(stack'[w], P)
BY Stays DEF syncStatus

LEMMA MoveEventStays ==
  ASSUME IInv, NEW w \in Worker, stack[w] # <<>>, NEW P, Confined(w, P), moveEvent(w),
         {"event.write"} \subseteq P
  PROVE  Within(stack'[w], P)
BY Stays DEF moveEvent

LEMMA EditEventStays ==
  ASSUME IInv, NEW w \in Worker, stack[w] # <<>>, NEW P, Confined(w, P), editEvent(w),
         {"editEvent.read", "editEvent.write", "participants.delete"} \subseteq P
  PROVE  Within(stack'[w], P)
BY Stays DEF editEvent

LEMMA ReplaceEventParticipantsStays ==
  ASSUME IInv, NEW w \in Worker, stack[w] # <<>>, NEW P, Confined(w, P),
         replaceEventParticipants(w),
         {"participants.insert"} \subseteq P
  PROVE  Within(stack'[w], P)
<1>1. top(w).at \in {"participants.delete", "participants.insert"}
  BY DEF replaceEventParticipants
<1> PICK g : g = [top(w) EXCEPT !.rest = Tail(@)]
  OBVIOUS
<1>2. g.at = top(w).at /\ top(w) \in among(stack[w])
  BY RunningTyped DEF Record
<1>3. g.at \in P
  BY <1>2 DEF Confined, Within
<1>4. \/ return(w, "done")
      \/ goto(w, "participants.insert")
      \/ become(w, <<g>>)
  BY DEF replaceEventParticipants
<1> QED BY <1>3, <1>4, Stays

LEMMA CreateDraftSettlementStays ==
  ASSUME IInv, NEW w \in Worker, stack[w] # <<>>, NEW P, Confined(w, P), createDraftSettlement(w),
         {"syncEvent", "createDraft.insert", "createDraft.trust"} \subseteq P
  PROVE  Within(stack'[w], P)
<1> PICK f \in Record : f = top(w)
  BY RunningTyped
<1> PICK v : f.at = "createSettlement" /\ EventOf[f.id] # NoEvent =>
               become(w, <<call("syncEvent", EventOf[f.id]),
                           [f EXCEPT !.at = "createDraft.insert", !.kept = v]>>)
  BY DEF createDraftSettlement
<1> PICK g : g = [f EXCEPT !.at = "createDraft.insert", !.kept = v]
  OBVIOUS
<1> PICK h : h = [f EXCEPT !.at = "createDraft.trust"]
  OBVIOUS
<1> PICK c : c = call("syncEvent", EventOf[f.id])
  OBVIOUS
<1>1. g.at \in P /\ h.at \in P /\ c.at \in P
  BY DEF Record, call
<1>2. \/ keep(w, "plain", "createDraft.insert")
      \/ become(w, <<c, g>>)
      \/ throw(w, "refused")
      \/ goto(w, "createDraft.trust")
      \/ become(w, <<c, h>>)
      \/ return(w, "draft")
  BY DEF createDraftSettlement
<1> QED BY <1>1, <1>2, Stays

LEMMA WriteSettlementStatusStays ==
  ASSUME IInv, NEW w \in Worker, stack[w] # <<>>, NEW P, Confined(w, P), writeSettlementStatus(w),
         {"syncEvent"} \subseteq P
  PROVE  Within(stack'[w], P)
<1> PICK c : c = call("syncEvent", EventOf[top(w).id])
  OBVIOUS
<1>1. c.at \in P
  BY DEF call
<1>2. return(w, top(w).kept) \/ become(w, <<c>>)
  BY DEF writeSettlementStatus
<1> QED BY <1>1, <1>2, Stays

LEMMA MarkCalculatedStays ==
  ASSUME IInv, NEW w \in Worker, stack[w] # <<>>, NEW P, Confined(w, P), markCalculated(w),
         {"settlement.write"} \subseteq P
  PROVE  Within(stack'[w], P)
BY Stays DEF markCalculated

LEMMA StartPayingStays ==
  ASSUME IInv, NEW w \in Worker, stack[w] # <<>>, NEW P, Confined(w, P), startPaying(w),
         {"startPaying.list", "settlement.write"} \subseteq P
  PROVE  Within(stack'[w], P)
BY Stays DEF startPaying

LEMMA MarkPaidStays ==
  ASSUME IInv, NEW w \in Worker, stack[w] # <<>>, NEW P, Confined(w, P), markPaid(w),
         {"markPaid.read", "settlement.write"} \subseteq P
  PROVE  Within(stack'[w], P)
BY Stays DEF markPaid

LEMMA CancelSettlementStays ==
  ASSUME IInv, NEW w \in Worker, stack[w] # <<>>, NEW P, Confined(w, P), cancelSettlement(w),
         {"cancelSettlement.list", "settlement.write"} \subseteq P
  PROVE  Within(stack'[w], P)
BY Stays DEF cancelSettlement

LEMMA SyncSettlementStays ==
  ASSUME IInv, NEW w \in Worker, stack[w] # <<>>, NEW P, Confined(w, P), syncSettlement(w),
         {"syncSettlement.list", "startPaying", "markPaid"} \subseteq P
  PROVE  Within(stack'[w], P)
<1> PICK start : start = call("startPaying", top(w).id)
  OBVIOUS
<1> PICK pay : pay = call("markPaid", top(w).id)
  OBVIOUS
<1> PICK S : S = {start, pay}
  OBVIOUS
<1> PICK p : p = IF top(w).kept = "calculated" THEN <<start>> ELSE <<>>
  OBVIOUS
<1> PICK q : q = IF allTerminal(allocationStatus, top(w).id) THEN <<pay>> ELSE <<>>
  OBVIOUS
<1>1. \A r \in S : r.at \in P
  BY DEF call
<1>2. p \in Seq(S) /\ q \in Seq(S)
  <2>1. <<start>> \in Seq(S) /\ <<pay>> \in Seq(S) /\ <<>> \in Seq(S)
    OBVIOUS
  <2> QED BY <2>1
<1> PICK r \in Seq(S) : r = p \o q
  BY <1>2, JoinTyped
<1>3. become(w, r) => Within(stack'[w], P)
  BY <1>1, Stays
<1>4. \/ return(w, "done")
      \/ keep(w, settlementStatus[top(w).id], "syncSettlement.list")
      \/ become(w, r)
  BY DEF syncSettlement
<1> QED BY <1>3, <1>4, Stays

LEMMA EditSettlementStays ==
  ASSUME IInv, NEW w \in Worker, stack[w] # <<>>, NEW P, Confined(w, P), editSettlement(w),
         {"editSettlement.list", "editSettlement.read", "settlement.restore"} \subseteq P
  PROVE  Within(stack'[w], P)
BY Stays DEF editSettlement

LEMMA CreatePendingAllocationStays ==
  ASSUME IInv, NEW w \in Worker, stack[w] # <<>>, NEW P, Confined(w, P),
         createPendingAllocation(w),
         {"createAllocation.participants", "createAllocation.insert"} \subseteq P
  PROVE  Within(stack'[w], P)
BY Stays DEF createPendingAllocation

LEMMA CloseShareStays ==
  ASSUME IInv, NEW w \in Worker, stack[w] # <<>>, NEW P, Confined(w, P), closeShare(w),
         {"allocation.write", "syncSettlement"} \subseteq P
  PROVE  Within(stack'[w], P)
<1> PICK c : c = call("syncSettlement", SettlementOf[top(w).id])
  OBVIOUS
<1>1. c.at \in P
  BY DEF call
<1> PICK v : v = allocationTarget[top(w).at]
  OBVIOUS
<1>2. \/ throw(w, "refused")
      \/ keep(w, v, "allocation.write")
      \/ become(w, <<c>>)
  BY DEF closeShare
<1> QED BY <1>1, <1>2, Stays

LEMMA RecordClaimStays ==
  ASSUME IInv, NEW w \in Worker, stack[w] # <<>>, NEW P, Confined(w, P), recordClaim(w),
         {"recordClaim.settlement", "recordClaim.claims", "recordClaim.insert",
          "startPaying"} \subseteq P
  PROVE  Within(stack'[w], P)
<1> PICK f \in Record : f = top(w)
  BY RunningTyped
<1> PICK g : g = [f EXCEPT !.at = "recordClaim.insert"]
  OBVIOUS
<1> PICK h : h = call("startPaying", SettlementOf[AllocationOf[f.id]])
  OBVIOUS
<1>1. g.at \in P /\ h.at \in P
  BY DEF Record, call
<1> PICK v : v = settlementStatus[SettlementOf[AllocationOf[f.id]]]
  OBVIOUS
<1>2. \/ throw(w, "refused")
      \/ goto(w, "recordClaim.settlement")
      \/ keep(w, v, "recordClaim.claims")
      \/ become(w, <<h, g>>)
      \/ goto(w, "recordClaim.insert")
      \/ return(w, "recorded")
  BY DEF recordClaim
<1> QED BY <1>1, <1>2, Stays

LEMMA ConfirmClaimStays ==
  ASSUME IInv, NEW w \in Worker, stack[w] # <<>>, NEW P, Confined(w, P), confirmClaim(w),
         {"confirmClaim.write", "confirmClaim.allocation", "markClaimed"} \subseteq P
  PROVE  Within(stack'[w], P)
<1> PICK c : c = call("markClaimed", AllocationOf[top(w).id])
  OBVIOUS
<1>1. c.at \in P
  BY DEF call
<1>2. \/ throw(w, "refused")
      \/ goto(w, "confirmClaim.write")
      \/ goto(w, "confirmClaim.allocation")
      \/ become(w, <<c>>)
      \/ return(w, "confirmed")
  BY DEF confirmClaim
<1> QED BY <1>1, <1>2, Stays

LEMMA VoidClaimStays ==
  ASSUME IInv, NEW w \in Worker, stack[w] # <<>>, NEW P, Confined(w, P), voidClaim(w),
         {"voidClaim.write", "voidClaim.allocation", "voidClaim.siblings", "voidClaim.reopen",
          "syncSettlement"} \subseteq P
  PROVE  Within(stack'[w], P)
<1> PICK c : c = call("syncSettlement", SettlementOf[AllocationOf[top(w).id]])
  OBVIOUS
<1>1. c.at \in P
  BY DEF call
<1> PICK v : v = allocationStatus[AllocationOf[top(w).id]]
  OBVIOUS
<1>2. \/ throw(w, "refused")
      \/ goto(w, "voidClaim.write")
      \/ goto(w, "voidClaim.allocation")
      \/ keep(w, v, "voidClaim.siblings")
      \/ goto(w, "voidClaim.reopen")
      \/ return(w, "voided")
      \/ become(w, <<c>>)
  BY DEF voidClaim
<1> QED BY <1>1, <1>2, Stays

LEMMA RecordBatchClaimsStays ==
  ASSUME IInv, NEW w \in Worker, stack[w] # <<>>, NEW P, Confined(w, P), recordBatchClaims(w),
         {"batch", "batch.settlement", "batch.claims", "markCalculated",
          "recordClaim"} \subseteq P
  PROVE  Within(stack'[w], P)
<1> PICK f \in Record : f = top(w)
  BY RunningTyped
<1> PICK c : c = Head(f.rest)
  OBVIOUS
<1> PICK s : s = SettlementOf[AllocationOf[c]]
  OBVIOUS
<1> PICK mark : mark = call("markCalculated", s)
  OBVIOUS
<1> PICK record : record = call("recordClaim", c)
  OBVIOUS
<1> PICK g : g = [f EXCEPT !.rest = Tail(@), !.at = "batch"]
  OBVIOUS
<1> PICK S : S = {mark, record, g}
  OBVIOUS
<1>1. \A r \in S : r.at \in P
  <2>1. mark.at = "markCalculated" /\ record.at = "recordClaim" /\ g.at = "batch"
    BY DEF call, Record
  <2> QED BY <2>1
<1>2. <<mark>> \in Seq(S) /\ <<record>> \in Seq(S) /\ <<g>> \in Seq(S) /\ <<>> \in Seq(S)
  OBVIOUS
<1> PICK start : start = IF f.kept = "draft" THEN <<mark>> ELSE <<>>
  OBVIOUS
<1> PICK later : later = IF Len(f.rest) = 1 THEN <<>> ELSE <<g>>
  OBVIOUS
<1>3. start \in Seq(S) /\ later \in Seq(S)
  BY <1>2
<1> PICK q \in Seq(S) : q = start \o <<record>> \o later
  BY <1>2, <1>3, JoinTyped
<1>4. become(w, q) => Within(stack'[w], P)
  BY <1>1, Stays
<1>5. \/ throw(w, "refused")
      \/ goto(w, "batch.settlement")
      \/ keep(w, settlementStatus[s], "batch.claims")
      \/ become(w, q)
  BY DEF recordBatchClaims
<1> QED BY <1>4, <1>5, Stays

LEMMA DisburseSettlementStays ==
  ASSUME IInv, NEW w \in Worker, stack[w] # <<>>, NEW P, Confined(w, P), disburseSettlement(w),
         {"disburse.participants", "disburse.list", "markCalculated", "createAllocation",
          "matchAllocation", "recordClaim"} \subseteq P
  PROVE  Within(stack'[w], P)
<1> PICK f \in Record : f = top(w) /\ sound(f)
  BY RunningTyped
<1>1. f.at \in DisbursePoint
  BY DEF disburseSettlement, DisbursePoint
<1>2. f.rest \in Seq(Claim)
  BY <1>1 DEF sound, listTyped
<1> PICK mark : mark = call("markCalculated", f.id)
  OBVIOUS
<1> PICK list : list = [f EXCEPT !.at = "disburse.list"]
  OBVIOUS
<1>3. PICK S :
        /\ \A r \in S : r.at \in P
        /\ mark \in S /\ list \in S
        /\ \A a \in Allocation : call("createAllocation", a) \in S
        /\ \A a \in Allocation : call("matchAllocation", a) \in S
        /\ \A c \in Claim : call("recordClaim", c) \in S
  <2>1. mark.at = "markCalculated" /\ list.at = "disburse.list"
    BY DEF call, Record
  <2>2. \A at, x : call(at, x).at = at
    BY DEF call
  <2> DEFINE C == {call("createAllocation", a) : a \in Allocation}
             M == {call("matchAllocation", a) : a \in Allocation}
             R == {call("recordClaim", c) : c \in Claim}
  <2>3. (\A r \in C : r.at \in P) /\ (\A r \in M : r.at \in P)
    BY <2>2
  <2>4. (\A r \in R : r.at \in P) /\ (\A r \in {mark, list} : r.at \in P)
    BY <2>1, <2>2
  <2>5. \A r \in {mark, list} \cup C \cup M \cup R : r.at \in P
    BY <2>3, <2>4
  <2> WITNESS {mark, list} \cup C \cup M \cup R
  <2> QED BY <2>5
<1>4. <<mark>> \in Seq(S) /\ <<list>> \in Seq(S) /\ <<>> \in Seq(S)
  BY <1>3
<1> PICK shares \in Seq(Allocation) : shares = [i \in DOMAIN f.rest |-> AllocationOf[f.rest[i]]]
  BY <1>2, SharesTyped
<1> PICK create : create = [i \in DOMAIN shares |-> call("createAllocation", shares[i])]
  OBVIOUS
<1> PICK match : match = [i \in DOMAIN shares |-> call("matchAllocation", shares[i])]
  OBVIOUS
<1> PICK record : record = [i \in DOMAIN f.rest |-> call("recordClaim", f.rest[i])]
  OBVIOUS
<1>5. create \in Seq(S) /\ match \in Seq(S)
  BY <1>3, EachTyped
<1>6. record \in Seq(S)
  BY <1>2, <1>3, EachTyped
<1> PICK marked \in Seq(S) : marked = <<mark>> \o <<list>>
  BY <1>4, JoinTyped
<1> PICK listed \in Seq(S) : listed = <<>> \o <<list>>
  BY <1>4, JoinTyped
<1> PICK created \in Seq(S) : created = create \o record
  BY <1>5, <1>6, JoinTyped
<1> PICK matched \in Seq(S) : matched = match \o record
  BY <1>5, <1>6, JoinTyped
<1>7. \A q \in Seq(S) : become(w, q) => Within(stack'[w], P)
  BY <1>3, Stays
<1>8. \/ throw(w, "refused")
      \/ keep(w, settlementStatus[f.id], "disburse.participants")
      \/ become(w, marked)
      \/ become(w, listed)
      \/ become(w, created)
      \/ become(w, matched)
  <2>1. CASE f.at = "disburse"
    BY <2>1 DEF disburseSettlement
  <2>2. CASE f.at = "disburse.participants"
    BY <2>2 DEF disburseSettlement
  <2>3. CASE f.at = "disburse.list"
    BY <2>3 DEF disburseSettlement
  <2> QED BY <1>1, <2>1, <2>2, <2>3 DEF DisbursePoint
<1> PICK v : v = settlementStatus[f.id]
  OBVIOUS
<1>9. keep(w, v, "disburse.participants") => Within(stack'[w], P)
  BY Stays
<1> QED BY <1>7, <1>8, <1>9, Stays

LEMMA MatchAllocationStays ==
  ASSUME IInv, NEW w \in Worker, stack[w] # <<>>, NEW P, Confined(w, P), matchAllocation(w)
  PROVE  Within(stack'[w], P)
BY Stays DEF matchAllocation

-------------------------------------------------------------------------------
(* What a step does to the answer, and which method runs at a point.        *)

\* The answer is left alone; or the stack is left, for an answer that only the last
\* point of a rollback chooses.
Manner(w) ==
  \/ UNCHANGED answer
  \/ \E o \in {"ok", "refused", "failed"} :
       /\ stack' = [stack EXCEPT ![w] = <<>>]
       /\ answer' = [answer EXCEPT ![w].is = o]
  \/ /\ top(w).at = "settle.resynced"
     /\ stack' = [stack EXCEPT ![w] = <<>>]
     /\ answer' = [answer EXCEPT ![w].is = top(w).kept]

LEMMA Manners ==
  ASSUME NEW w \in Worker
  PROVE  /\ \A v : return(w, v) => Manner(w)
         /\ \A error \in {"refused", "failed"} : throw(w, error) => Manner(w)
         /\ \A q : become(w, q) => Manner(w)
         /\ \A at : goto(w, at) => Manner(w)
         /\ \A v, at : keep(w, v, at) => Manner(w)
<1>1. \A v : return(w, v) => Manner(w)
  BY DEF return, Manner
<1>2. \A error \in {"refused", "failed"} : throw(w, error) => Manner(w)
  BY DEF throw, Manner
<1>3. \A q : become(w, q) => Manner(w)
  BY DEF become, Manner
<1>4. \A at : goto(w, at) => Manner(w)
  BY <1>3 DEF goto
<1>5. \A v, at : keep(w, v, at) => Manner(w)
  BY <1>3 DEF keep
<1> QED BY <1>1, <1>2, <1>3, <1>4, <1>5

LEMMA StepManner ==
  ASSUME NEW w \in Worker, Step(w)
  PROVE  Manner(w)
<1>1. syncStatus(w) => Manner(w)
  BY Manners DEF syncStatus
<1>2. moveEvent(w) => Manner(w)
  BY Manners DEF moveEvent
<1>3. editEvent(w) => Manner(w)
  BY Manners DEF editEvent
<1>4. replaceEventParticipants(w) => Manner(w)
  BY Manners DEF replaceEventParticipants
<1>5. createDraftSettlement(w) => Manner(w)
  BY Manners DEF createDraftSettlement
<1>6. writeSettlementStatus(w) => Manner(w)
  BY Manners DEF writeSettlementStatus
<1>7. markCalculated(w) => Manner(w)
  BY Manners DEF markCalculated
<1>8. startPaying(w) => Manner(w)
  BY Manners DEF startPaying
<1>9. markPaid(w) => Manner(w)
  BY Manners DEF markPaid
<1>10. cancelSettlement(w) => Manner(w)
  BY Manners DEF cancelSettlement
<1>11. syncSettlement(w) => Manner(w)
  BY Manners DEF syncSettlement
<1>12. editSettlement(w) => Manner(w)
  BY Manners DEF editSettlement
<1>13. createPendingAllocation(w) => Manner(w)
  BY Manners DEF createPendingAllocation
<1>14. closeShare(w) => Manner(w)
  BY Manners DEF closeShare
<1>15. recordClaim(w) => Manner(w)
  BY Manners DEF recordClaim
<1>16. confirmClaim(w) => Manner(w)
  BY Manners DEF confirmClaim
<1>17. voidClaim(w) => Manner(w)
  BY Manners DEF voidClaim
<1>18. recordBatchClaims(w) => Manner(w)
  BY Manners DEF recordBatchClaims
<1>19. disburseSettlement(w) => Manner(w)
  BY Manners DEF disburseSettlement
<1>20. matchAllocation(w) => Manner(w)
  BY Manners DEF matchAllocation
<1>21. settleEventWithAllocations(w) => Manner(w)
  BY Manners DEF settleEventWithAllocations
<1>22. rollbackSettlementFailure(w) => Manner(w)
  BY Manners DEF rollbackSettlementFailure, Manner
<1> QED BY <1>1, <1>2, <1>3, <1>4, <1>5, <1>6, <1>7, <1>8, <1>9, <1>10, <1>11, <1>12,
  <1>13, <1>14, <1>15, <1>16, <1>17, <1>18, <1>19, <1>20, <1>21, <1>22 DEF Step

\* The method that runs at a point.
LEMMA Running ==
  ASSUME NEW w \in Worker, Step(w)
  PROVE  LET at == top(w).at IN
         /\ at \in {"syncEvent", "syncEvent.list", "event.write"} => syncStatus(w)
         /\ at \in {"markReady", "cancelEvent"} => moveEvent(w)
         /\ at \in {"createEvent", "editEvent", "editEvent.read", "editEvent.write"} =>
              editEvent(w)
         /\ at \in {"participants.delete", "participants.insert"} => replaceEventParticipants(w)
         /\ at \in {"createSettlement", "createDraft.insert", "createDraft.trust"} =>
              createDraftSettlement(w)
         /\ at \in {"settlement.write"} => writeSettlementStatus(w)
         /\ at \in {"markCalculated"} => markCalculated(w)
         /\ at \in {"startPaying", "startPaying.list"} => startPaying(w)
         /\ at \in {"markPaid", "markPaid.read"} => markPaid(w)
         /\ at \in {"cancelSettlement", "cancelSettlement.list"} => cancelSettlement(w)
         /\ at \in {"syncSettlement", "syncSettlement.list"} => syncSettlement(w)
         /\ at \in {"editSettlement", "editSettlement.list", "editSettlement.read",
              "settlement.restore"} => editSettlement(w)
         /\ at \in {"createAllocation", "createAllocation.participants",
              "createAllocation.insert"} => createPendingAllocation(w)
         /\ at \in {"markClaimed", "waive", "cancelAllocation", "allocation.write"} =>
              closeShare(w)
         /\ at \in {"recordClaim", "recordClaim.settlement", "recordClaim.claims",
              "recordClaim.insert"} => recordClaim(w)
         /\ at \in {"confirmClaim", "confirmClaim.write", "confirmClaim.allocation"} =>
              confirmClaim(w)
         /\ at \in {"voidClaim", "voidClaim.write", "voidClaim.allocation",
              "voidClaim.siblings", "voidClaim.reopen"} => voidClaim(w)
         /\ at \in {"batch", "batch.settlement", "batch.claims"} => recordBatchClaims(w)
         /\ at \in {"disburse", "disburse.participants", "disburse.list"} =>
              disburseSettlement(w)
         /\ at \in {"matchAllocation"} => matchAllocation(w)
         /\ at \in {"settle", "settle.list", "settleEvent.ready", "settle.calculated",
              "settle.allocated"} => settleEventWithAllocations(w)
         /\ at \in {"settle.rollback", "settle.cancelled", "settle.resync",
              "settle.resynced"} => rollbackSettlementFailure(w)
<1>1. syncStatus(w) => top(w).at \in {"syncEvent", "syncEvent.list", "event.write"}
  BY DEF syncStatus
<1>2. moveEvent(w) => top(w).at \in {"markReady", "cancelEvent"}
  BY DEF moveEvent, eventTarget
<1>3. editEvent(w) => top(w).at \in {"createEvent", "editEvent", "editEvent.read",
  "editEvent.write"}
  BY DEF editEvent
<1>4. replaceEventParticipants(w) => top(w).at \in {"participants.delete",
  "participants.insert"}
  BY DEF replaceEventParticipants
<1>5. createDraftSettlement(w) => top(w).at \in {"createSettlement", "createDraft.insert",
  "createDraft.trust"}
  BY DEF createDraftSettlement
<1>6. writeSettlementStatus(w) => top(w).at \in {"settlement.write"}
  BY DEF writeSettlementStatus
<1>7. markCalculated(w) => top(w).at \in {"markCalculated"}
  BY DEF markCalculated
<1>8. startPaying(w) => top(w).at \in {"startPaying", "startPaying.list"}
  BY DEF startPaying
<1>9. markPaid(w) => top(w).at \in {"markPaid", "markPaid.read"}
  BY DEF markPaid
<1>10. cancelSettlement(w) => top(w).at \in {"cancelSettlement", "cancelSettlement.list"}
  BY DEF cancelSettlement
<1>11. syncSettlement(w) => top(w).at \in {"syncSettlement", "syncSettlement.list"}
  BY DEF syncSettlement
<1>12. editSettlement(w) => top(w).at \in {"editSettlement", "editSettlement.list",
  "editSettlement.read", "settlement.restore"}
  BY DEF editSettlement
<1>13. createPendingAllocation(w) => top(w).at \in {"createAllocation",
  "createAllocation.participants", "createAllocation.insert"}
  BY DEF createPendingAllocation
<1>14. closeShare(w) => top(w).at \in {"markClaimed", "waive", "cancelAllocation",
  "allocation.write"}
  BY DEF closeShare, allocationTarget
<1>15. recordClaim(w) => top(w).at \in {"recordClaim", "recordClaim.settlement",
  "recordClaim.claims", "recordClaim.insert"}
  BY DEF recordClaim
<1>16. confirmClaim(w) => top(w).at \in {"confirmClaim", "confirmClaim.write",
  "confirmClaim.allocation"}
  BY DEF confirmClaim
<1>17. voidClaim(w) => top(w).at \in {"voidClaim", "voidClaim.write",
  "voidClaim.allocation", "voidClaim.siblings", "voidClaim.reopen"}
  BY DEF voidClaim
<1>18. recordBatchClaims(w) => top(w).at \in {"batch", "batch.settlement", "batch.claims"}
  BY DEF recordBatchClaims
<1>19. disburseSettlement(w) => top(w).at \in {"disburse", "disburse.participants",
  "disburse.list"}
  BY DEF disburseSettlement
<1>20. matchAllocation(w) => top(w).at \in {"matchAllocation"}
  BY DEF matchAllocation
<1>21. settleEventWithAllocations(w) => top(w).at \in {"settle", "settle.list",
  "settleEvent.ready", "settle.calculated", "settle.allocated"}
  BY DEF settleEventWithAllocations
<1>22. rollbackSettlementFailure(w) => top(w).at \in {"settle.rollback",
  "settle.cancelled", "settle.resync", "settle.resynced"}
  BY DEF rollbackSettlementFailure
<1> QED BY <1>1, <1>2, <1>3, <1>4, <1>5, <1>6, <1>7, <1>8, <1>9, <1>10, <1>11, <1>12,
  <1>13, <1>14, <1>15, <1>16, <1>17, <1>18, <1>19, <1>20, <1>21, <1>22 DEF Step

-------------------------------------------------------------------------------
(* A record that is alone on its stack, and a stack that only synchronises. *)

Refused(w) == stack'[w] = <<>> /\ answer'[w].is \in {"refused", "failed"}

LEMMA ThrowRefuses ==
  ASSUME IInv, AnswersTyped, NEW w \in Worker, \A x \in among(stack[w]) : x.at \notin DOMAIN catch,
         NEW error \in {"refused", "failed"}, throw(w, error)
  PROVE  Refused(w)
BY ThrowsAway DEF Refused, answers

LEMMA Alone ==
  ASSUME IInv, AnswersTyped, NEW w \in Worker, NEW f \in Record, stack[w] = <<f>>,
         f.at \notin DOMAIN catch
  PROVE  /\ top(w) = f
         /\ \A v : return(w, v) => stack'[w] = <<>>
         /\ \A error \in {"refused", "failed"} : throw(w, error) => Refused(w)
         /\ \A g : become(w, <<g>>) => stack'[w] = <<g>>
         /\ \A at : goto(w, at) => stack'[w] = <<moved(f, at)>>
         /\ \A v, at : keep(w, v, at) => stack'[w] = <<holding(f, v, at)>>
<1>1. stack[w] = <<f>> \o <<>> /\ <<>> \in Seq(Record)
  OBVIOUS
<1>2. \A g : <<g>> \o <<>> = <<g>>
  OBVIOUS
<1>3. \A v : return(w, v) => stack'[w] = <<>>
  BY Returns DEF answers
<1>4. \A x \in among(stack[w]) : x.at \notin DOMAIN catch
  BY AmongOne
<1>5. \A error \in {"refused", "failed"} : throw(w, error) => Refused(w)
  BY <1>4, ThrowRefuses
<1>6. /\ top(w) = f
      /\ \A q : become(w, q) => goesOn(w, q \o <<>>)
      /\ \A at : goto(w, at) => goesOn(w, <<moved(f, at)>> \o <<>>)
      /\ \A v, at : keep(w, v, at) => goesOn(w, <<holding(f, v, at)>> \o <<>>)
  BY <1>1, Goes
<1>7. \A g : become(w, <<g>>) => stack'[w] = <<g>>
  BY <1>2, <1>6 DEF goesOn
<1>8. \A at : goto(w, at) => stack'[w] = <<moved(f, at)>>
  BY <1>2, <1>6 DEF goesOn
<1>9. \A v, at : keep(w, v, at) => stack'[w] = <<holding(f, v, at)>>
  BY <1>2, <1>6 DEF goesOn
<1> QED BY <1>3, <1>5, <1>6, <1>7, <1>8, <1>9

LEMMA NextStacksTyped ==
  ASSUME IInv'
  PROVE  stack' \in [Worker -> Seq(Record)]
<1>1. stack' \in [Worker -> Seq(Frame')] /\ Frame' \subseteq Record
  BY DEF IInv, StacksSound, Frame, Record
<1> QED BY <1>1

LEMMA OneTyped ==
  ASSUME IInv', NEW w \in Worker, NEW g, stack'[w] = <<g>>
  PROVE  g \in Record
<1>1. <<g>> \in Seq(Record)
  BY NextStacksTyped
<1>2. <<g>>[1] \in Record
  <2>1. 1 \in DOMAIN <<g>>
    OBVIOUS
  <2> QED BY <1>1, <2>1, ElementOfSeq
<1> QED BY <1>2

\* The points of the methods that derive the status of a settlement and its event.
SyncPoint ==
  {"syncSettlement", "syncSettlement.list", "startPaying", "startPaying.list",
   "markPaid", "markPaid.read", "settlement.write",
   "syncEvent", "syncEvent.list", "event.write"}

LEMMA SyncStep ==
  ASSUME IInv, NEW w \in Worker, stack[w] # <<>>, Within(stack[w], SyncPoint), Step(w)
  PROVE  Within(stack'[w], SyncPoint) /\ UNCHANGED <<allocationStatus, claimStatus>>
<1>1. top(w).at \in SyncPoint
  BY RunningTyped DEF Within
<1>2. \/ syncStatus(w) \/ syncSettlement(w) \/ startPaying(w) \/ markPaid(w)
      \/ writeSettlementStatus(w)
  BY <1>1, Running DEF SyncPoint
<1>3. Confined(w, SyncPoint)
  BY DEF Confined, SyncPoint, catch
<1>4. Within(stack'[w], SyncPoint)
  <2>1. /\ {"syncEvent.list", "event.write"} \subseteq SyncPoint
        /\ {"syncSettlement.list", "startPaying", "markPaid"} \subseteq SyncPoint
        /\ {"startPaying.list", "settlement.write"} \subseteq SyncPoint
        /\ {"markPaid.read", "settlement.write"} \subseteq SyncPoint
        /\ {"syncEvent"} \subseteq SyncPoint
    BY DEF SyncPoint
  <2> QED BY <1>2, <1>3, <2>1, SyncStatusStays, SyncSettlementStays, StartPayingStays,
             MarkPaidStays, WriteSettlementStatusStays
<1>5. UNCHANGED <<allocationStatus, claimStatus>>
  <2>1. syncStatus(w) => UNCHANGED <<allocationStatus, claimStatus>>
    BY DEF syncStatus, reads, vars, writeEvent
  <2>2. syncSettlement(w) => UNCHANGED <<allocationStatus, claimStatus>>
    BY DEF syncSettlement, reads, vars
  <2>3. startPaying(w) => UNCHANGED <<allocationStatus, claimStatus>>
    BY DEF startPaying, reads, vars
  <2>4. markPaid(w) => UNCHANGED <<allocationStatus, claimStatus>>
    BY DEF markPaid, reads, vars
  <2>5. writeSettlementStatus(w) => UNCHANGED <<allocationStatus, claimStatus>>
    BY DEF writeSettlementStatus, writeSettlement
  <2> QED BY <1>2, <2>1, <2>2, <2>3, <2>4, <2>5
<1> QED BY <1>4, <1>5

-------------------------------------------------------------------------------
(* Confirmations.                                                           *)

\* cs and as are the claims and the allocations.
isConfirmed(c, cs, as) == cs[c] = "confirmed" /\ as[AllocationOf[c]] # "pending"

confirmingAt(f, c, cs) ==
  \/ f.at \in {"confirmClaim", "confirmClaim.write"} /\ f.id = c
  \/ /\ cs[c] = "confirmed"
     /\ \/ f.at = "confirmClaim.allocation" /\ f.id = c
        \/ f.at = "markClaimed" /\ f.id = AllocationOf[c]
        \/ f.at = "allocation.write" /\ f.id = AllocationOf[c] /\ f.kept = "claimed"

\* What the stack of a confirmation still owes: the writes it has not come to.
confirming(s, c, cs, as) ==
  \/ \E f \in Record : s = <<f>> /\ confirmingAt(f, c, cs)
  \/ isConfirmed(c, cs, as) /\ Within(s, SyncPoint)

LEMMA Confirmation ==
  ASSUME IInv, IInv', AnswersTyped, NEW w \in Worker, NEW c \in Claim,
         confirming(stack[w], c, claimStatus, allocationStatus), Step(w)
  PROVE  confirming(stack'[w], c, claimStatus', allocationStatus') \/ Refused(w)
<1>0. stack[w] # <<>> /\ AllocationOf[c] \in Allocation
  BY ForeignKeys DEF Step
<1>1. CASE isConfirmed(c, claimStatus, allocationStatus) /\ Within(stack[w], SyncPoint)
  BY <1>0, <1>1, SyncStep DEF confirming, isConfirmed
<1>2. ASSUME NEW f \in Record, stack[w] = <<f>>, confirmingAt(f, c, claimStatus)
      PROVE  confirming(stack'[w], c, claimStatus', allocationStatus') \/ Refused(w)
  <2>1. f.at \notin DOMAIN catch
    BY <1>2 DEF confirmingAt, catch
  <2>2. /\ top(w) = f
        /\ \A v : return(w, v) => stack'[w] = <<>>
        /\ \A error \in {"refused", "failed"} : throw(w, error) => Refused(w)
        /\ \A g : become(w, <<g>>) => stack'[w] = <<g>>
        /\ \A at : goto(w, at) => stack'[w] = <<moved(f, at)>>
        /\ \A v, at : keep(w, v, at) => stack'[w] = <<holding(f, v, at)>>
    BY <1>2, <2>1, Alone
  <2>3. ASSUME NEW g, stack'[w] = <<g>>, confirmingAt(g, c, claimStatus')
        PROVE  confirming(stack'[w], c, claimStatus', allocationStatus')
    <3>1. g \in Record
      BY <2>3, OneTyped
    <3> QED BY <2>3, <3>1 DEF confirming
  <2>4. CASE f.at = "confirmClaim"
    <3>1. confirmClaim(w) /\ f.id = c
      BY <1>2, <2>2, <2>4, Running DEF confirmingAt
    <3>2. throw(w, "refused") \/ goto(w, "confirmClaim.write")
      BY <2>2, <2>4, <3>1 DEF confirmClaim
    <3>3. confirmingAt(moved(f, "confirmClaim.write"), c, claimStatus')
      BY <3>1, Fields DEF confirmingAt
    <3> QED BY <2>2, <2>3, <3>2, <3>3
  <2>5. CASE f.at = "confirmClaim.write"
    <3>1. confirmClaim(w) /\ f.id = c
      BY <1>2, <2>2, <2>5, Running DEF confirmingAt
    <3>2. goto(w, "confirmClaim.allocation") /\ writeClaim(c, "confirmed")
      BY <2>2, <2>5, <3>1 DEF confirmClaim
    <3>3. claimStatus'[c] = "confirmed"
      BY <3>2 DEF writeClaim, IInv, Tables, TypeOK
    <3>4. confirmingAt(moved(f, "confirmClaim.allocation"), c, claimStatus')
      BY <3>1, <3>3, Fields DEF confirmingAt
    <3> QED BY <2>2, <2>3, <3>2, <3>4
  <2>6. CASE f.at = "confirmClaim.allocation"
    <3>1. confirmClaim(w) /\ f.id = c /\ claimStatus[c] = "confirmed"
      BY <1>2, <2>2, <2>6, Running DEF confirmingAt
    <3> PICK mark : mark = call("markClaimed", AllocationOf[c])
      OBVIOUS
    <3>2. /\ UNCHANGED vars
          /\ \/ become(w, <<mark>>)
             \/ allocationStatus[AllocationOf[c]] # "pending" /\ return(w, "confirmed")
      BY <2>2, <2>6, <3>1 DEF confirmClaim, reads
    <3>3. claimStatus' = claimStatus /\ allocationStatus' = allocationStatus
      BY <3>2 DEF vars
    <3>4. confirmingAt(mark, c, claimStatus')
      BY <3>1, <3>3 DEF confirmingAt, call
    <3>5. Within(<<>>, SyncPoint)
      BY AmongNone DEF Within
    <3> QED BY <2>2, <2>3, <3>1, <3>2, <3>3, <3>4, <3>5 DEF confirming, isConfirmed
  <2>7. CASE f.at = "markClaimed"
    <3>1. closeShare(w) /\ f.id = AllocationOf[c] /\ claimStatus[c] = "confirmed"
      BY <1>2, <2>2, <2>7, Running DEF confirmingAt
    <3>2. UNCHANGED vars /\ (throw(w, "refused") \/ keep(w, "claimed", "allocation.write"))
      BY <2>2, <2>7, <3>1 DEF closeShare, allocationTarget, reads
    <3>3. claimStatus' = claimStatus
      BY <3>2 DEF vars
    <3>4. confirmingAt(holding(f, "claimed", "allocation.write"), c, claimStatus')
      BY <3>1, <3>3, Fields DEF confirmingAt
    <3> QED BY <2>2, <2>3, <3>2, <3>4
  <2>8. CASE f.at = "allocation.write"
    <3>1. /\ closeShare(w) /\ f.id = AllocationOf[c] /\ claimStatus[c] = "confirmed"
          /\ f.kept = "claimed"
      BY <1>2, <2>2, <2>8, Running DEF confirmingAt
    <3> PICK sync : sync = call("syncSettlement", SettlementOf[AllocationOf[c]])
      OBVIOUS
    <3>2. writeAllocation(AllocationOf[c], "claimed") /\ become(w, <<sync>>)
      BY <2>2, <2>8, <3>1 DEF closeShare, allocationTarget
    <3>3. claimStatus' = claimStatus /\ allocationStatus'[AllocationOf[c]] = "claimed"
      BY <1>0, <3>2 DEF writeAllocation, IInv, Tables, TypeOK
    <3>4. sync.at \in SyncPoint
      BY DEF call, SyncPoint
    <3>5. Within(<<sync>>, SyncPoint)
      BY <3>4, AmongOne DEF Within
    <3> QED BY <2>2, <3>1, <3>2, <3>3, <3>5 DEF confirming, isConfirmed
  <2> QED BY <1>2, <2>4, <2>5, <2>6, <2>7, <2>8 DEF confirmingAt
<1> QED BY <1>1, <1>2 DEF confirming

-------------------------------------------------------------------------------
(* Withdrawals.                                                             *)

isVoided(c, cs, as) ==
  cs[c] = "voided" /\ (as[AllocationOf[c]] = "claimed" => ~noOtherConfirmed(cs, c))

voidingAt(f, c, cs, as) ==
  /\ f.id = c
  /\ \/ f.at \in {"voidClaim", "voidClaim.write"}
     \/ cs[c] = "voided" /\ f.at \in {"voidClaim.allocation", "voidClaim.reopen"}
     \/ cs[c] = "voided" /\ f.at = "voidClaim.siblings" /\ f.kept = as[AllocationOf[c]]

voiding(s, c, cs, as) ==
  \/ \E f \in Record : s = <<f>> /\ voidingAt(f, c, cs, as)
  \/ isVoided(c, cs, as) /\ Within(s, SyncPoint)

LEMMA Withdrawal ==
  ASSUME IInv, IInv', AnswersTyped, NEW w \in Worker, NEW c \in Claim,
         voiding(stack[w], c, claimStatus, allocationStatus), Step(w)
  PROVE  voiding(stack'[w], c, claimStatus', allocationStatus') \/ Refused(w)
<1>0. stack[w] # <<>> /\ AllocationOf[c] \in Allocation
  BY ForeignKeys DEF Step
<1>1. CASE isVoided(c, claimStatus, allocationStatus) /\ Within(stack[w], SyncPoint)
  <2>1. claimStatus' = claimStatus /\ allocationStatus' = allocationStatus
    BY <1>0, <1>1, SyncStep
  <2>2. isVoided(c, claimStatus', allocationStatus')
    BY <1>1, <2>1
  <2> QED BY <1>0, <1>1, <2>2, SyncStep DEF voiding
<1>2. ASSUME NEW f \in Record, stack[w] = <<f>>,
             voidingAt(f, c, claimStatus, allocationStatus)
      PROVE  voiding(stack'[w], c, claimStatus', allocationStatus') \/ Refused(w)
  <2>1. f.at \notin DOMAIN catch /\ f.id = c
    BY <1>2 DEF voidingAt, catch
  <2>2. /\ top(w) = f
        /\ \A v : return(w, v) => stack'[w] = <<>>
        /\ \A error \in {"refused", "failed"} : throw(w, error) => Refused(w)
        /\ \A g : become(w, <<g>>) => stack'[w] = <<g>>
        /\ \A at : goto(w, at) => stack'[w] = <<moved(f, at)>>
        /\ \A v, at : keep(w, v, at) => stack'[w] = <<holding(f, v, at)>>
    BY <1>2, <2>1, Alone
  <2>3. ASSUME NEW g, stack'[w] = <<g>>, voidingAt(g, c, claimStatus', allocationStatus')
        PROVE  voiding(stack'[w], c, claimStatus', allocationStatus')
    <3>1. g \in Record
      BY <2>3, OneTyped
    <3> QED BY <2>3, <3>1 DEF voiding
  <2>4. voidClaim(w)
    BY <1>2, <2>2, Running DEF voidingAt
  <2>5. CASE f.at = "voidClaim"
    <3>1. throw(w, "refused") \/ goto(w, "voidClaim.write")
      BY <2>2, <2>4, <2>5 DEF voidClaim
    <3>2. voidingAt(moved(f, "voidClaim.write"), c, claimStatus', allocationStatus')
      BY <2>1, Fields DEF voidingAt
    <3> QED BY <2>2, <2>3, <3>1, <3>2
  <2>6. CASE f.at = "voidClaim.write"
    <3>1. goto(w, "voidClaim.allocation") /\ writeClaim(c, "voided")
      BY <2>1, <2>2, <2>4, <2>6 DEF voidClaim
    <3>2. claimStatus'[c] = "voided"
      BY <3>1 DEF writeClaim, IInv, Tables, TypeOK
    <3>3. voidingAt(moved(f, "voidClaim.allocation"), c, claimStatus', allocationStatus')
      BY <2>1, <3>2, Fields DEF voidingAt
    <3> QED BY <2>2, <2>3, <3>1, <3>3
  <2>7. CASE f.at = "voidClaim.allocation"
    <3> PICK v : v = allocationStatus[AllocationOf[c]]
      OBVIOUS
    <3>1. UNCHANGED vars /\ keep(w, v, "voidClaim.siblings")
      BY <2>1, <2>2, <2>4, <2>7 DEF voidClaim, reads
    <3>2. claimStatus[c] = "voided"
      BY <1>2, <2>7 DEF voidingAt
    <3>3. claimStatus' = claimStatus /\ allocationStatus' = allocationStatus
      BY <3>1 DEF vars
    <3>4. voidingAt(holding(f, v, "voidClaim.siblings"), c, claimStatus', allocationStatus')
      BY <2>1, <3>2, <3>3, Fields DEF voidingAt
    <3> QED BY <2>2, <2>3, <3>1, <3>4
  <2>8. CASE f.at = "voidClaim.siblings"
    <3>1. claimStatus[c] = "voided" /\ f.kept = allocationStatus[AllocationOf[c]]
      BY <1>2, <2>8 DEF voidingAt
    <3>2. /\ UNCHANGED vars
          /\ \/ goto(w, "voidClaim.reopen")
             \/ ~(noOtherConfirmed(claimStatus, c) /\ f.kept = "claimed") /\ return(w, "voided")
      BY <2>1, <2>2, <2>4, <2>8 DEF voidClaim, reads
    <3>3. claimStatus' = claimStatus /\ allocationStatus' = allocationStatus
      BY <3>2 DEF vars
    <3>4. CASE goto(w, "voidClaim.reopen")
      <4>1. voidingAt(moved(f, "voidClaim.reopen"), c, claimStatus', allocationStatus')
        BY <2>1, <3>1, <3>3, Fields DEF voidingAt
      <4> QED BY <2>2, <2>3, <3>4, <4>1
    <3>5. CASE ~(noOtherConfirmed(claimStatus, c) /\ f.kept = "claimed") /\ return(w, "voided")
      <4>1. isVoided(c, claimStatus, allocationStatus)
        BY <3>1, <3>5 DEF isVoided
      <4>2. isVoided(c, claimStatus', allocationStatus')
        BY <3>3, <4>1
      <4>3. Within(<<>>, SyncPoint)
        BY AmongNone DEF Within
      <4> QED BY <2>2, <3>5, <4>2, <4>3 DEF voiding
    <3> QED BY <3>2, <3>4, <3>5
  <2>9. CASE f.at = "voidClaim.reopen"
    <3> PICK sync : sync = call("syncSettlement", SettlementOf[AllocationOf[c]])
      OBVIOUS
    <3>1. claimStatus[c] = "voided"
      BY <1>2, <2>9 DEF voidingAt
    <3>2. writeAllocation(AllocationOf[c], "pending") /\ become(w, <<sync>>)
      BY <2>1, <2>2, <2>4, <2>9 DEF voidClaim
    <3>3. claimStatus' = claimStatus /\ allocationStatus'[AllocationOf[c]] = "pending"
      BY <1>0, <3>2 DEF writeAllocation, IInv, Tables, TypeOK
    <3>4. sync.at \in SyncPoint
      BY DEF call, SyncPoint
    <3>5. Within(<<sync>>, SyncPoint)
      BY <3>4, AmongOne DEF Within
    <3> QED BY <2>2, <3>1, <3>2, <3>3, <3>5 DEF voiding, isVoided
  <2> QED BY <1>2, <2>5, <2>6, <2>7, <2>8, <2>9 DEF voidingAt
<1> QED BY <1>1, <1>2 DEF voiding

-------------------------------------------------------------------------------
(* Batches and disbursements.  A claim that has been asked for is recorded, *)
(* or some record of the stack has still to record it.                      *)

RecordPoint ==
  {"recordClaim", "recordClaim.settlement", "recordClaim.claims", "recordClaim.insert"}

CreatePoint ==
  {"createAllocation", "createAllocation.participants", "createAllocation.insert"}

DispatchPoint == SyncPoint \cup RecordPoint \cup BatchPoint \cup DisbursePoint
  \cup CreatePoint \cup {"matchAllocation", "markCalculated"}

owes(x, c) ==
  \/ x.at \in RecordPoint /\ x.id = c
  \/ x.at \in BatchPoint \cup DisbursePoint /\ c \in among(x.rest)

owing(s, c) == \E x \in among(s) : owes(x, c)

dispatching(s, list, cs) ==
  /\ Within(s, DispatchPoint)
  /\ \A c \in among(list) : cs[c] = "recorded" \/ owing(s, c)

LEMMA AmongTwo ==
  ASSUME NEW x, NEW y
  PROVE  among(<<x, y>>) = {x, y}
BY DEF among

LEMMA OwingPut ==
  ASSUME NEW x, NEW T, NEW q \in Seq(T), NEW c
  PROVE  owing(<<x>> \o q, c) <=> owes(x, c) \/ owing(q, c)
BY AmongPut DEF owing

LEMMA OwingJoined ==
  ASSUME NEW S, NEW p \in Seq(S), NEW T, NEW q \in Seq(T), NEW c
  PROVE  owing(p \o q, c) <=> owing(p, c) \/ owing(q, c)
BY AmongJoined DEF owing

LEMMA OwingOne ==
  ASSUME NEW x, NEW c
  PROVE  owing(<<x>>, c) <=> owes(x, c)
BY AmongOne DEF owing

\* What the stack of w owes it goes on to owe, if the running record does not drop it.
LEMMA OwesBelow ==
  ASSUME IInv, NEW w \in Worker, NEW c,
         NEW f \in Record, NEW t \in Seq(Record), stack[w] = <<f>> \o t, owing(stack[w], c)
  PROVE  /\ \A v : return(w, v) /\ ~owes(f, c) => owing(stack'[w], c)
         /\ \A S : \A q \in Seq(S) :
              become(w, q) /\ (owes(f, c) => owing(q, c)) => owing(stack'[w], c)
<1>1. owes(f, c) \/ owing(t, c)
  BY OwingPut
<1>2. ASSUME NEW v, return(w, v), ~owes(f, c) PROVE owing(stack'[w], c)
  <2>1. owing(t, c)
    BY <1>1, <1>2
  <2>2. t # <<>>
    BY <2>1, AmongNone DEF owing
  <2> SUFFICES ASSUME NEW h \in Record, NEW u \in Seq(Record), t = <<h>> \o u
               PROVE  owing(stack'[w], c)
    BY <2>2, HeadAndTail
  <2>3. stack'[w] = <<given(h, v)>> \o u
    BY <1>2, ReturnsTo DEF goesOn
  <2>4. owes(h, c) \/ owing(u, c)
    BY <2>1, OwingPut
  <2>5. owes(h, c) => owes(given(h, v), c)
    BY Fields DEF owes
  <2> QED BY <2>3, <2>4, <2>5, OwingPut
<1>3. ASSUME NEW S, NEW q \in Seq(S), become(w, q), owes(f, c) => owing(q, c)
      PROVE  owing(stack'[w], c)
  <2>1. stack'[w] = q \o t
    BY <1>3, Goes DEF goesOn
  <2> QED BY <1>1, <1>3, <2>1, OwingJoined
<1> QED BY <1>2, <1>3

LEMMA Owes ==
  ASSUME IInv, NEW w \in Worker, stack[w] # <<>>, NEW c, owing(stack[w], c)
  PROVE  /\ \A v : return(w, v) /\ ~owes(top(w), c) => owing(stack'[w], c)
         /\ \A S : \A q \in Seq(S) :
              become(w, q) /\ (owes(top(w), c) => owing(q, c)) => owing(stack'[w], c)
         /\ \A g : become(w, <<g>>) /\ (owes(top(w), c) => owes(g, c)) => owing(stack'[w], c)
         /\ \A g, h : become(w, <<g, h>>) /\ (owes(top(w), c) => owes(h, c))
              => owing(stack'[w], c)
         /\ \A at : goto(w, at) /\ (owes(top(w), c) => owes(moved(top(w), at), c))
              => owing(stack'[w], c)
         /\ \A v, at : keep(w, v, at) /\ (owes(top(w), c) => owes(holding(top(w), v, at), c))
              => owing(stack'[w], c)
<1>1. stack[w] \in Seq(Record)
  BY StacksTyped
<1>2. /\ \A v : return(w, v) /\ ~owes(top(w), c) => owing(stack'[w], c)
      /\ \A S : \A q \in Seq(S) :
           become(w, q) /\ (owes(top(w), c) => owing(q, c)) => owing(stack'[w], c)
  <2>1. top(w) \in Record /\ Tail(stack[w]) \in Seq(Record)
        /\ stack[w] = <<top(w)>> \o Tail(stack[w])
    BY <1>1, HeadAndTail DEF top
  <2> QED BY <2>1, OwesBelow
<1>3. ASSUME NEW g, become(w, <<g>>), owes(top(w), c) => owes(g, c) PROVE owing(stack'[w], c)
  <2> PICK S : S = {g}
    OBVIOUS
  <2>1. <<g>> \in Seq(S)
    OBVIOUS
  <2>2. owes(top(w), c) => owing(<<g>>, c)
    BY <1>3, OwingOne
  <2> QED BY <1>2, <1>3, <2>1, <2>2
<1>4. ASSUME NEW g, NEW h, become(w, <<g, h>>), owes(top(w), c) => owes(h, c)
      PROVE  owing(stack'[w], c)
  <2> PICK S : S = {g, h}
    OBVIOUS
  <2>1. <<g, h>> \in Seq(S)
    OBVIOUS
  <2>2. owes(h, c) => owing(<<g, h>>, c)
    BY AmongTwo DEF owing
  <2>3. owes(top(w), c) => owing(<<g, h>>, c)
    BY <1>4, <2>2
  <2> QED BY <1>2, <1>4, <2>1, <2>3
<1>5. \A at : goto(w, at) => become(w, <<moved(top(w), at)>>)
  BY DEF goto, moved
<1>6. \A v, at : keep(w, v, at) => become(w, <<holding(top(w), v, at)>>)
  BY DEF keep, holding
<1> QED BY <1>2, <1>3, <1>4, <1>5, <1>6

\* The methods below the claims: they write none, and owe none.
LEMMA OthersOwe ==
  ASSUME IInv, AnswersTyped, NEW w \in Worker, stack[w] # <<>>, NEW c, owing(stack[w], c),
         Within(stack[w], DispatchPoint),
         \/ syncStatus(w) \/ syncSettlement(w) \/ startPaying(w) \/ markPaid(w)
         \/ writeSettlementStatus(w) \/ createPendingAllocation(w) \/ matchAllocation(w)
         \/ markCalculated(w)
  PROVE  owing(stack'[w], c) \/ Refused(w)
<1>1. ~owes(top(w), c)
  <2>1. syncStatus(w) \/ syncSettlement(w) \/ startPaying(w) \/ markPaid(w) =>
          top(w).at \notin RecordPoint \cup BatchPoint \cup DisbursePoint
    BY DEF syncStatus, syncSettlement, startPaying, markPaid, RecordPoint, BatchPoint,
           DisbursePoint
  <2>2. writeSettlementStatus(w) \/ createPendingAllocation(w) =>
          top(w).at \notin RecordPoint \cup BatchPoint \cup DisbursePoint
    BY DEF writeSettlementStatus, createPendingAllocation, RecordPoint, BatchPoint,
           DisbursePoint
  <2>3. matchAllocation(w) \/ markCalculated(w) =>
          top(w).at \notin RecordPoint \cup BatchPoint \cup DisbursePoint
    BY DEF matchAllocation, markCalculated, RecordPoint, BatchPoint, DisbursePoint
  <2> QED BY <2>1, <2>2, <2>3 DEF owes
<1>2. \A x \in among(stack[w]) : x.at \notin DOMAIN catch
  <2>1. DispatchPoint \cap DOMAIN catch = {}
    BY DEF DispatchPoint, SyncPoint, RecordPoint, BatchPoint, DisbursePoint, CreatePoint, catch
  <2> QED BY <2>1 DEF Within
<1>3. \A error \in {"refused", "failed"} : throw(w, error) => Refused(w)
  BY <1>2, ThrowRefuses
<1>4. /\ \A v : return(w, v) => owing(stack'[w], c)
      /\ \A S : \A q \in Seq(S) : become(w, q) => owing(stack'[w], c)
      /\ \A g : become(w, <<g>>) => owing(stack'[w], c)
      /\ \A at : goto(w, at) => owing(stack'[w], c)
      /\ \A v, at : keep(w, v, at) => owing(stack'[w], c)
  BY <1>1, Owes
<1>5. syncStatus(w) => owing(stack'[w], c) \/ Refused(w)
  BY <1>3, <1>4 DEF syncStatus
<1>6. syncSettlement(w) => owing(stack'[w], c) \/ Refused(w)
  <2> PICK start : start = call("startPaying", top(w).id)
    OBVIOUS
  <2> PICK pay : pay = call("markPaid", top(w).id)
    OBVIOUS
  <2> PICK S : S = {start, pay}
    OBVIOUS
  <2> PICK p : p = IF top(w).kept = "calculated" THEN <<start>> ELSE <<>>
    OBVIOUS
  <2> PICK q : q = IF allTerminal(allocationStatus, top(w).id) THEN <<pay>> ELSE <<>>
    OBVIOUS
  <2>1. p \in Seq(S) /\ q \in Seq(S)
    <3>1. <<start>> \in Seq(S) /\ <<pay>> \in Seq(S) /\ <<>> \in Seq(S)
      OBVIOUS
    <3> QED BY <3>1
  <2> PICK r \in Seq(S) : r = p \o q
    BY <2>1, JoinTyped
  <2>2. syncSettlement(w) =>
          \/ return(w, "done")
          \/ keep(w, settlementStatus[top(w).id], "syncSettlement.list")
          \/ become(w, r)
    BY DEF syncSettlement
  <2> QED BY <1>4, <2>2
<1>7. startPaying(w) \/ markPaid(w) => owing(stack'[w], c) \/ Refused(w)
  BY <1>3, <1>4 DEF startPaying, markPaid
<1>8. writeSettlementStatus(w) => owing(stack'[w], c) \/ Refused(w)
  BY <1>4 DEF writeSettlementStatus
<1>9. createPendingAllocation(w) => owing(stack'[w], c) \/ Refused(w)
  BY <1>3, <1>4 DEF createPendingAllocation
<1>10. matchAllocation(w) \/ markCalculated(w) => owing(stack'[w], c) \/ Refused(w)
  BY <1>3, <1>4 DEF matchAllocation, markCalculated
<1> QED BY <1>5, <1>6, <1>7, <1>8, <1>9, <1>10

LEMMA RecordClaimOwes ==
  ASSUME IInv, AnswersTyped, NEW w \in Worker, stack[w] # <<>>, NEW c \in Claim,
         claimStatus[c] = "recorded" \/ owing(stack[w], c),
         Within(stack[w], DispatchPoint), recordClaim(w)
  PROVE  claimStatus'[c] = "recorded" \/ owing(stack'[w], c) \/ Refused(w)
<1> PICK f \in Record : f = top(w)
  BY RunningTyped
<1>1. f.at \in RecordPoint
  BY DEF recordClaim, RecordPoint
<1>2. owes(f, c) <=> f.id = c
  <2>1. f.at \notin BatchPoint \cup DisbursePoint
    BY <1>1 DEF RecordPoint, BatchPoint, DisbursePoint
  <2> QED BY <1>1, <2>1 DEF owes
<1>3. \A x \in among(stack[w]) : x.at \notin DOMAIN catch
  <2>1. DispatchPoint \cap DOMAIN catch = {}
    BY DEF DispatchPoint, SyncPoint, RecordPoint, BatchPoint, DisbursePoint, CreatePoint, catch
  <2> QED BY <2>1 DEF Within
<1>4. \A error \in {"refused", "failed"} : throw(w, error) => Refused(w)
  BY <1>3, ThrowRefuses
<1>5. CASE f.at = "recordClaim.insert"
  <2>1. writeClaim(f.id, "recorded") /\ return(w, "recorded")
    BY <1>5 DEF recordClaim
  <2>2. claimStatus' = [claimStatus EXCEPT ![f.id] = "recorded"]
        /\ claimStatus \in [Claim -> Absent(ClaimStatus)]
    BY <2>1 DEF writeClaim, IInv, Tables, TypeOK
  <2>3. CASE f.id = c
    BY <2>2, <2>3
  <2>4. CASE f.id # c
    BY <1>2, <2>1, <2>2, <2>4, Owes
  <2> QED BY <2>3, <2>4
<1>6. CASE f.at # "recordClaim.insert"
  <2>1. claimStatus' = claimStatus
    BY <1>6 DEF recordClaim, reads, vars
  <2> PICK h : h = [f EXCEPT !.at = "recordClaim.insert"]
    OBVIOUS
  <2> PICK g : g = call("startPaying", SettlementOf[AllocationOf[f.id]])
    OBVIOUS
  <2> PICK v : v = settlementStatus[SettlementOf[AllocationOf[f.id]]]
    OBVIOUS
  <2>2. \/ throw(w, "refused")
        \/ goto(w, "recordClaim.settlement")
        \/ keep(w, v, "recordClaim.claims")
        \/ become(w, <<g, h>>)
        \/ goto(w, "recordClaim.insert")
    BY <1>6 DEF recordClaim
  <2>3. owes(f, c) =>
          /\ owes(moved(f, "recordClaim.settlement"), c)
          /\ owes(holding(f, v, "recordClaim.claims"), c)
          /\ owes(moved(f, "recordClaim.insert"), c)
          /\ owes(h, c)
    <3>1. h = moved(f, "recordClaim.insert")
      BY DEF moved
    <3> QED BY <1>2, <3>1, Fields DEF owes, RecordPoint
  <2>4. owing(stack[w], c) => owing(stack'[w], c) \/ Refused(w)
    <3> HAVE owing(stack[w], c)
    <3> QED BY <1>4, <2>2, <2>3, Owes
  <2> QED BY <2>1, <2>4
<1> QED BY <1>5, <1>6

LEMMA RecordBatchClaimsOwes ==
  ASSUME IInv, AnswersTyped, NEW w \in Worker, stack[w] # <<>>, NEW c, owing(stack[w], c),
         Within(stack[w], DispatchPoint), recordBatchClaims(w)
  PROVE  owing(stack'[w], c) \/ Refused(w)
<1> PICK f \in Record : f = top(w) /\ sound(f)
  BY RunningTyped
<1>1. f.at \in BatchPoint
  BY DEF recordBatchClaims, BatchPoint
<1>2. f.rest \in Seq(Claim) /\ f.rest # <<>>
  BY <1>1 DEF sound, listTyped
<1>3. owes(f, c) <=> c \in among(f.rest)
  BY <1>1 DEF owes, BatchPoint, RecordPoint
<1>4. \A x \in among(stack[w]) : x.at \notin DOMAIN catch
  <2>1. DispatchPoint \cap DOMAIN catch = {}
    BY DEF DispatchPoint, SyncPoint, RecordPoint, BatchPoint, DisbursePoint, CreatePoint, catch
  <2> QED BY <2>1 DEF Within
<1>5. throw(w, "refused") => Refused(w)
  BY <1>4, ThrowRefuses
<1>6. PICK S, q :
        /\ q \in Seq(S)
        /\ \/ throw(w, "refused")
           \/ goto(w, "batch.settlement")
           \/ keep(w, settlementStatus[SettlementOf[AllocationOf[Head(f.rest)]]], "batch.claims")
           \/ become(w, q)
        /\ \A x \in among(f.rest) : owing(q, x)
  <2>1. PICK d : d = Head(f.rest)
    OBVIOUS
  <2>2. PICK others \in Seq(Claim) : others = Tail(f.rest)
    BY <1>2, HeadAndTail
  <2>3. among(f.rest) = {d} \cup among(others)
    BY <1>2, <2>1, <2>2, HeadAndTail
  <2>4. Len(f.rest) = 1 => others = <<>>
    BY <1>2, <2>2, HeadTailProperties, EmptySeq
  <2>5. PICK mark : mark = call("markCalculated", SettlementOf[AllocationOf[d]])
    OBVIOUS
  <2>6. PICK record : record = call("recordClaim", d)
    OBVIOUS
  <2>7. PICK g : g = [f EXCEPT !.rest = Tail(@), !.at = "batch"]
    OBVIOUS
  <2>8. PICK start : start = IF f.kept = "draft" THEN <<mark>> ELSE <<>>
    OBVIOUS
  <2>9. PICK later : later = IF Len(f.rest) = 1 THEN <<>> ELSE <<g>>
    OBVIOUS
  <2>10. PICK S : S = {mark, record, g}
    OBVIOUS
  <2>11. start \in Seq(S) /\ <<record>> \in Seq(S) /\ later \in Seq(S)
    <3>1. <<mark>> \in Seq(S) /\ <<record>> \in Seq(S) /\ <<g>> \in Seq(S) /\ <<>> \in Seq(S)
      BY <2>10
    <3> QED BY <2>8, <2>9, <3>1
  <2>12. PICK q : q = start \o <<record>> \o later
    OBVIOUS
  <2>13. /\ q \in Seq(S)
         /\ \A x : owing(q, x) <=> owing(start, x) \/ owes(record, x) \/ owing(later, x)
    <3>1. start \o <<record>> \in Seq(S)
      BY <2>11, JoinTyped
    <3>2. \A x : owing(start \o <<record>>, x) <=> owing(start, x) \/ owing(<<record>>, x)
      BY <2>11, OwingJoined
    <3>3. \A x : owing(<<record>>, x) <=> owes(record, x)
      BY OwingOne
    <3>4. PICK first \in Seq(S) : first = start \o <<record>>
      BY <3>1
    <3>5. first \o later \in Seq(S)
      BY <2>11, JoinTyped
    <3>6. \A x : owing(first \o later, x) <=> owing(first, x) \/ owing(later, x)
      BY <2>11, OwingJoined
    <3> QED BY <2>12, <3>2, <3>3, <3>4, <3>5, <3>6
  <2>14. owes(record, d)
    BY <2>6 DEF owes, call, RecordPoint
  <2>15. ASSUME NEW x \in among(others) PROVE owing(later, x)
    <3>1. others # <<>>
      BY AmongNone
    <3>2. later = <<g>>
      BY <2>4, <2>9, <3>1
    <3>3. g.at = "batch" /\ g.rest = others
      BY <2>2, <2>7 DEF Record
    <3>4. owes(g, x)
      BY <3>3 DEF owes, BatchPoint
    <3> QED BY <3>2, <3>4, OwingOne
  <2>16. \A x \in among(f.rest) : owing(q, x)
    BY <2>3, <2>13, <2>14, <2>15
  <2>17. \/ throw(w, "refused")
         \/ goto(w, "batch.settlement")
         \/ keep(w, settlementStatus[SettlementOf[AllocationOf[Head(f.rest)]]], "batch.claims")
         \/ become(w, q)
    BY <2>1, <2>5, <2>6, <2>7, <2>8, <2>9, <2>12 DEF recordBatchClaims
  <2> QED BY <2>13, <2>16, <2>17
<1>7. \A v : owes(f, c) => /\ owes(moved(f, "batch.settlement"), c)
                           /\ owes(holding(f, v, "batch.claims"), c)
  BY <1>3, Fields DEF owes, BatchPoint
<1>8. become(w, q) => owing(stack'[w], c)
  BY <1>3, <1>6, Owes
<1> QED BY <1>5, <1>6, <1>7, <1>8, Owes

LEMMA DisburseSettlementOwes ==
  ASSUME IInv, AnswersTyped, NEW w \in Worker, stack[w] # <<>>, NEW c, owing(stack[w], c),
         Within(stack[w], DispatchPoint), disburseSettlement(w)
  PROVE  owing(stack'[w], c) \/ Refused(w)
<1> PICK f \in Record : f = top(w) /\ sound(f)
  BY RunningTyped
<1>1. f.at \in DisbursePoint
  BY DEF disburseSettlement, DisbursePoint
<1>2. f.rest \in Seq(Claim)
  BY <1>1 DEF sound, listTyped
<1>3. owes(f, c) <=> c \in among(f.rest)
  BY <1>1 DEF owes, DisbursePoint, RecordPoint
<1>4. \A x \in among(stack[w]) : x.at \notin DOMAIN catch
  <2>1. DispatchPoint \cap DOMAIN catch = {}
    BY DEF DispatchPoint, SyncPoint, RecordPoint, BatchPoint, DisbursePoint, CreatePoint, catch
  <2> QED BY <2>1 DEF Within
<1>5. throw(w, "refused") => Refused(w)
  BY <1>4, ThrowRefuses
<1>6. PICK S, marked, listed, created, matched :
        /\ marked \in Seq(S) /\ listed \in Seq(S) /\ created \in Seq(S) /\ matched \in Seq(S)
        /\ \/ throw(w, "refused")
           \/ keep(w, settlementStatus[f.id], "disburse.participants")
           \/ become(w, marked) \/ become(w, listed)
           \/ become(w, created) \/ become(w, matched)
        /\ \A x \in among(f.rest) : /\ owing(marked, x) /\ owing(listed, x)
                                    /\ owing(created, x) /\ owing(matched, x)
  <2>1. PICK mark : mark = call("markCalculated", f.id)
    OBVIOUS
  <2>2. PICK list : list = [f EXCEPT !.at = "disburse.list"]
    OBVIOUS
  <2>3. PICK S :
          /\ mark \in S /\ list \in S
          /\ \A a \in Allocation : call("createAllocation", a) \in S
          /\ \A a \in Allocation : call("matchAllocation", a) \in S
          /\ \A d \in Claim : call("recordClaim", d) \in S
    <3> DEFINE C == {call("createAllocation", a) : a \in Allocation}
               M == {call("matchAllocation", a) : a \in Allocation}
               R == {call("recordClaim", d) : d \in Claim}
    <3> WITNESS {mark, list} \cup C \cup M \cup R
    <3> QED OBVIOUS
  <2>4. <<mark>> \in Seq(S) /\ <<list>> \in Seq(S) /\ <<>> \in Seq(S)
    BY <2>3
  <2>5. PICK shares \in Seq(Allocation) :
          shares = [i \in DOMAIN f.rest |-> AllocationOf[f.rest[i]]]
    BY <1>2, SharesTyped
  <2>6. PICK create : create = [i \in DOMAIN shares |-> call("createAllocation", shares[i])]
    OBVIOUS
  <2>7. PICK match : match = [i \in DOMAIN shares |-> call("matchAllocation", shares[i])]
    OBVIOUS
  <2>8. PICK record : record = [i \in DOMAIN f.rest |-> call("recordClaim", f.rest[i])]
    OBVIOUS
  <2>9. create \in Seq(S) /\ match \in Seq(S)
    BY <2>3, <2>6, <2>7, EachTyped
  <2>10. record \in Seq(S)
    BY <1>2, <2>3, <2>8, EachTyped
  <2>11. PICK marked \in Seq(S) : marked = <<mark>> \o <<list>>
    BY <2>4, JoinTyped
  <2>12. PICK listed \in Seq(S) : listed = <<>> \o <<list>>
    BY <2>4, JoinTyped
  <2>13. PICK created \in Seq(S) : created = create \o record
    BY <2>9, <2>10, JoinTyped
  <2>14. PICK matched \in Seq(S) : matched = match \o record
    BY <2>9, <2>10, JoinTyped
  <2>15. \/ throw(w, "refused")
         \/ keep(w, settlementStatus[f.id], "disburse.participants")
         \/ become(w, marked) \/ become(w, listed)
         \/ become(w, created) \/ become(w, matched)
    <3>1. CASE f.at = "disburse"
      BY <2>1, <2>2, <2>11, <2>12, <3>1 DEF disburseSettlement
    <3>2. CASE f.at = "disburse.participants"
      BY <2>1, <2>2, <2>11, <2>12, <3>2 DEF disburseSettlement
    <3>3. CASE f.at = "disburse.list"
      BY <2>5, <2>6, <2>7, <2>8, <2>13, <2>14, <3>3 DEF disburseSettlement
    <3> QED BY <1>1, <3>1, <3>2, <3>3 DEF DisbursePoint
  <2>16. ASSUME NEW x \in among(f.rest)
         PROVE  /\ owing(marked, x) /\ owing(listed, x)
                /\ owing(created, x) /\ owing(matched, x)
    <3>1. owes(list, x)
      <4>1. list.at = "disburse.list" /\ list.rest = f.rest
        BY <2>2 DEF Record
      <4> QED BY <4>1 DEF owes, DisbursePoint
    <3>2. owing(<<list>>, x)
      BY <3>1, OwingOne
    <3>3. owing(marked, x) /\ owing(listed, x)
      BY <2>4, <2>11, <2>12, <3>2, OwingJoined
    <3>4. PICK i \in DOMAIN f.rest : x = f.rest[i]
      BY DEF among
    <3>5. i \in DOMAIN record /\ record[i] = call("recordClaim", x)
      BY <2>8, <3>4
    <3>6. record[i] \in among(record) /\ owes(record[i], x)
      BY <3>5 DEF among, owes, call, RecordPoint
    <3>7. owing(record, x)
      BY <3>6 DEF owing
    <3>8. owing(created, x) /\ owing(matched, x)
      BY <2>9, <2>10, <2>13, <2>14, <3>7, OwingJoined
    <3> QED BY <3>3, <3>8
  <2> QED BY <2>15, <2>16
<1>7. \A v : owes(f, c) => owes(holding(f, v, "disburse.participants"), c)
  BY <1>3, Fields DEF owes, DisbursePoint
<1>8. /\ become(w, marked) => owing(stack'[w], c)
      /\ become(w, listed) => owing(stack'[w], c)
      /\ become(w, created) => owing(stack'[w], c)
      /\ become(w, matched) => owing(stack'[w], c)
  BY <1>3, <1>6, Owes
<1> QED BY <1>5, <1>6, <1>7, <1>8, Owes

\* A step of a batch or a disbursement records a claim, or leaves it to be recorded.
LEMMA Dispatch ==
  ASSUME IInv, AnswersTyped, NEW w \in Worker, NEW list \in Seq(Claim),
         dispatching(stack[w], list, claimStatus), Step(w)
  PROVE  dispatching(stack'[w], list, claimStatus') \/ Refused(w)
<1>1. stack[w] # <<>> /\ Within(stack[w], DispatchPoint)
  BY DEF Step, dispatching
<1>2. top(w).at \in DispatchPoint
  BY <1>1, RunningTyped DEF Within
<1>3. \/ \/ syncStatus(w) \/ syncSettlement(w) \/ startPaying(w) \/ markPaid(w)
         \/ writeSettlementStatus(w) \/ createPendingAllocation(w) \/ matchAllocation(w)
         \/ markCalculated(w)
      \/ recordClaim(w) \/ recordBatchClaims(w) \/ disburseSettlement(w)
  BY <1>2, Running DEF DispatchPoint, SyncPoint, RecordPoint, BatchPoint, DisbursePoint,
                       CreatePoint
<1>4. Within(stack'[w], DispatchPoint)
  <2>1. Confined(w, DispatchPoint)
    BY <1>1 DEF Confined, DispatchPoint, SyncPoint, RecordPoint, BatchPoint, DisbursePoint,
                CreatePoint, catch
  <2>2. /\ {"syncEvent.list", "event.write"} \subseteq DispatchPoint
        /\ {"syncSettlement.list", "startPaying", "markPaid"} \subseteq DispatchPoint
        /\ {"startPaying.list", "settlement.write"} \subseteq DispatchPoint
        /\ {"markPaid.read", "settlement.write"} \subseteq DispatchPoint
        /\ {"syncEvent"} \subseteq DispatchPoint /\ {"settlement.write"} \subseteq DispatchPoint
    BY DEF DispatchPoint, SyncPoint
  <2>3. {"createAllocation.participants", "createAllocation.insert"} \subseteq DispatchPoint
    BY DEF DispatchPoint, CreatePoint
  <2>4. /\ {"recordClaim.settlement", "recordClaim.claims", "recordClaim.insert",
            "startPaying"} \subseteq DispatchPoint
        /\ {"batch", "batch.settlement", "batch.claims", "markCalculated",
            "recordClaim"} \subseteq DispatchPoint
    BY DEF DispatchPoint, RecordPoint, BatchPoint, SyncPoint
  <2>5. {"disburse.participants", "disburse.list", "markCalculated", "createAllocation",
         "matchAllocation", "recordClaim"} \subseteq DispatchPoint
    BY DEF DispatchPoint, RecordPoint, DisbursePoint, CreatePoint
  <2>6. createPendingAllocation(w) \/ matchAllocation(w) \/ markCalculated(w)
          => Within(stack'[w], DispatchPoint)
    BY <1>1, <2>1, <2>2, <2>3, CreatePendingAllocationStays, MatchAllocationStays,
       MarkCalculatedStays
  <2>7. recordClaim(w) \/ recordBatchClaims(w) \/ disburseSettlement(w)
          => Within(stack'[w], DispatchPoint)
    BY <1>1, <2>1, <2>4, <2>5, RecordClaimStays, RecordBatchClaimsStays,
       DisburseSettlementStays
  <2>8. \/ syncStatus(w) \/ syncSettlement(w) \/ startPaying(w) \/ markPaid(w)
        \/ writeSettlementStatus(w)
        \/ Within(stack'[w], DispatchPoint)
    BY <1>3, <2>6, <2>7
  <2>9. syncStatus(w) => Within(stack'[w], DispatchPoint)
    BY <1>1, <2>1, <2>2, SyncStatusStays
  <2>10. syncSettlement(w) => Within(stack'[w], DispatchPoint)
    BY <1>1, <2>1, <2>2, SyncSettlementStays
  <2>11. startPaying(w) => Within(stack'[w], DispatchPoint)
    BY <1>1, <2>1, <2>2, StartPayingStays
  <2>12. markPaid(w) => Within(stack'[w], DispatchPoint)
    BY <1>1, <2>1, <2>2, MarkPaidStays
  <2>13. writeSettlementStatus(w) => Within(stack'[w], DispatchPoint)
    BY <1>1, <2>1, <2>2, WriteSettlementStatusStays
  <2> QED BY <2>8, <2>9, <2>10, <2>11, <2>12, <2>13
<1>5. \/ recordClaim(w)
      \/ claimStatus' = claimStatus
  <2>1. syncStatus(w) \/ startPaying(w) \/ markPaid(w) \/ syncSettlement(w)
          => claimStatus' = claimStatus
    BY DEF syncStatus, startPaying, markPaid, syncSettlement, reads, vars, writeEvent
  <2>2. writeSettlementStatus(w) \/ createPendingAllocation(w) => claimStatus' = claimStatus
    BY DEF writeSettlementStatus, writeSettlement, createPendingAllocation, writeAllocation,
           reads, vars
  <2>3. matchAllocation(w) \/ markCalculated(w) => claimStatus' = claimStatus
    BY DEF matchAllocation, markCalculated, reads, vars
  <2>4. recordBatchClaims(w) => claimStatus' = claimStatus
    BY DEF recordBatchClaims, reads, vars
  <2>5. disburseSettlement(w) => claimStatus' = claimStatus
    BY DEF disburseSettlement, reads, vars
  <2> QED BY <1>3, <2>1, <2>2, <2>3, <2>4, <2>5
<1>6. ASSUME NEW c \in among(list)
      PROVE  claimStatus'[c] = "recorded" \/ owing(stack'[w], c) \/ Refused(w)
  <2>1. claimStatus[c] = "recorded" \/ owing(stack[w], c)
    BY DEF dispatching
  <2>2. c \in Claim
    BY AmongTyped
  <2>3. CASE recordClaim(w)
    BY <1>1, <2>1, <2>2, <2>3, RecordClaimOwes
  <2>4. CASE claimStatus' = claimStatus /\ ~recordClaim(w)
    <3>1. ASSUME owing(stack[w], c) PROVE owing(stack'[w], c) \/ Refused(w)
      BY <1>1, <1>3, <2>4, <3>1, OthersOwe, RecordBatchClaimsOwes, DisburseSettlementOwes
    <3> QED BY <2>1, <2>4, <3>1
  <2> QED BY <1>5, <2>3, <2>4
<1> QED BY <1>4, <1>6 DEF dispatching

-------------------------------------------------------------------------------
(* The settle request.  What its stack may be, phase by phase, with what    *)
(* the tables are by then.  s is the settlement, e its event.               *)

EventSync == {"syncEvent", "syncEvent.list", "event.write"}

\* x synchronises e, and has read the status the event has.
syncing(x, e, status) ==
  /\ x.at \in EventSync /\ x.id = e
  /\ x.at = "syncEvent.list" => x.kept = status

LEMMA TopRecord ==
  ASSUME IInv', NEW w \in Worker, NEW g, NEW u \in Seq(Record), stack'[w] = <<g>> \o u
  PROVE  g \in Record
<1>1. stack'[w] \in Seq(Record)
  BY NextStacksTyped
<1>2. PICK t \in Seq(Record) : t = <<g>> \o u
  BY <1>1
<1>3. Len(u) \in Nat /\ Len(t) = 1 + Len(u) /\ t[1] = g
  BY <1>2
<1>4. 1 \in DOMAIN t
  BY <1>3
<1>5. t[1] \in Record
  BY <1>4, ElementOfSeq
<1> QED BY <1>3, <1>5

LEMMA OneActive ==
  ASSUME NEW f, NEW s \in Settlement, activeSettlements(f, EventOf[s]) \subseteq {s},
         NEW g, g[s] # "absent", g[s] # "cancelled", \A x \in Settlement \ {s} : g[x] = f[x]
  PROVE  activeSettlements(g, EventOf[s]) = {s}
<1>1. \A x \in Settlement \ {s} : x \notin activeSettlements(g, EventOf[s])
  BY DEF activeSettlements, listByEvent
<1>2. activeSettlements(g, EventOf[s]) \subseteq {s}
  BY <1>1 DEF activeSettlements, listByEvent
<1>3. s \in activeSettlements(g, EventOf[s])
  BY DEF activeSettlements, listByEvent
<1> QED BY <1>2, <1>3

LEMMA NoneActive ==
  ASSUME NEW f, NEW s \in Settlement, activeSettlements(f, EventOf[s]) \subseteq {s},
         NEW g, g[s] = "cancelled", \A x \in Settlement \ {s} : g[x] = f[x]
  PROVE  activeSettlements(g, EventOf[s]) = {}
<1>1. \A x \in Settlement \ {s} : x \notin activeSettlements(g, EventOf[s])
  BY DEF activeSettlements, listByEvent
<1>2. s \notin activeSettlements(g, EventOf[s])
  BY DEF activeSettlements, listByEvent
<1> QED BY <1>1, <1>2 DEF activeSettlements, listByEvent

LEMMA StillActive ==
  ASSUME IInv, NEW s \in Settlement, activeSettlements(settlementStatus, EventOf[s]) \subseteq {s},
         NEW v, v \notin {"absent", "cancelled"}, setSettlement(s, v)
  PROVE  settlementStatus'[s] = v /\ activeSettlements(settlementStatus', EventOf[s]) = {s}
<1>1. PICK next : next = settlementStatus'
  OBVIOUS
<1>2. next[s] = v /\ \A q \in Settlement \ {s} : next[q] = settlementStatus[q]
  BY <1>1 DEF setSettlement, IInv, Tables, TypeOK
<1>3. next[s] # "absent" /\ next[s] # "cancelled"
  BY <1>2
<1>4. activeSettlements(next, EventOf[s]) = {s}
  BY <1>2, <1>3, OneActive
<1> QED BY <1>1, <1>2, <1>4

LEMMA NoLongerActive ==
  ASSUME IInv, NEW s \in Settlement, activeSettlements(settlementStatus, EventOf[s]) \subseteq {s},
         setSettlement(s, "cancelled")
  PROVE  /\ settlementStatus'[s] = "cancelled"
         /\ activeSettlements(settlementStatus', EventOf[s]) = {}
<1>1. PICK next : next = settlementStatus'
  OBVIOUS
<1>2. next[s] = "cancelled" /\ \A q \in Settlement \ {s} : next[q] = settlementStatus[q]
  BY <1>1 DEF setSettlement, IInv, Tables, TypeOK
<1>3. activeSettlements(next, EventOf[s]) = {}
  BY <1>2, NoneActive
<1> QED BY <1>1, <1>2, <1>3

LEMMA SyncedUnderWay ==
  ASSUME NEW ss, NEW e, NEW s, activeSettlements(ss, e) = {s}, ss[s] # "paid",
         NEW status \in {"ready_for_settlement", "partially_settled"}
  PROVE  SyncedEventStatus(status, ss, e) = "partially_settled"
BY DEF SyncedEventStatus

LEMMA SyncedWithoutAny ==
  ASSUME NEW ss, NEW e, activeSettlements(ss, e) = {},
         NEW status \in {"ready_for_settlement", "partially_settled"}
  PROVE  SyncedEventStatus(status, ss, e) = "ready_for_settlement"
BY DEF SyncedEventStatus

\* The synchronisation of the event, above other records.
LEMMA EventSyncStep ==
  ASSUME IInv, IInv', NEW w \in Worker, Step(w),
         NEW e, NEW x \in Record, x.id = e, x.at \in EventSync,
         NEW h \in Record, NEW u \in Seq(Record), stack[w] = <<x>> \o (<<h>> \o u)
  PROVE  \/ throw(w, "refused") /\ UNCHANGED vars
         \/ /\ x.at = "syncEvent" /\ UNCHANGED vars
            /\ goesOn(w, <<holding(x, eventStatus[e], "syncEvent.list")>> \o (<<h>> \o u))
         \/ /\ x.at = "syncEvent.list" /\ UNCHANGED vars
            /\ LET next == SyncedEventStatus(x.kept, settlementStatus, e)
               IN  \/ next = x.kept /\ goesOn(w, <<given(h, x.kept)>> \o u)
                   \/ /\ next # x.kept
                      /\ goesOn(w, <<holding(x, next, "event.write")>> \o (<<h>> \o u))
         \/ /\ x.at = "event.write" /\ writeEvent(e, x.kept)
            /\ goesOn(w, <<given(h, x.kept)>> \o u)
<1>1. PICK t \in Seq(Record) : t = <<h>> \o u
  BY PushTyped
<1>2. stack[w] = <<x>> \o t
  BY <1>1
<1>3. /\ top(w) = x
      /\ \A v, at : keep(w, v, at) => goesOn(w, <<holding(x, v, at)>> \o t)
  BY <1>2, Goes
<1>4. \A v : return(w, v) => goesOn(w, <<given(h, v)>> \o u)
  BY ReturnsTo
<1>5. syncStatus(w)
  BY <1>3, Running DEF EventSync
<1>6. CASE x.at = "syncEvent"
  BY <1>1, <1>3, <1>5, <1>6 DEF syncStatus, reads
<1>7. CASE x.at = "syncEvent.list"
  <2>1. PICK next : next = SyncedEventStatus(x.kept, settlementStatus, e)
    OBVIOUS
  <2>2. /\ UNCHANGED vars
        /\ \/ throw(w, "refused")
           \/ next = x.kept /\ return(w, next)
           \/ next # x.kept /\ keep(w, next, "event.write")
    BY <1>3, <1>5, <1>7, <2>1 DEF syncStatus, reads
  <2> QED BY <1>1, <1>3, <1>4, <1>7, <2>1, <2>2
<1>8. CASE x.at = "event.write"
  BY <1>3, <1>4, <1>5, <1>8 DEF syncStatus
<1> QED BY <1>6, <1>7, <1>8 DEF EventSync

LEMMA EventSyncLast ==
  ASSUME IInv, IInv', NEW w \in Worker, Step(w),
         NEW e, NEW x \in Record, x.id = e, x.at \in EventSync,
         NEW c \in Record, stack[w] = <<x>> \o <<c>>
  PROVE  \/ throw(w, "refused") /\ UNCHANGED vars
         \/ /\ x.at = "syncEvent" /\ UNCHANGED vars
            /\ goesOn(w, <<holding(x, eventStatus[e], "syncEvent.list")>> \o <<c>>)
         \/ /\ x.at = "syncEvent.list" /\ UNCHANGED vars
            /\ LET next == SyncedEventStatus(x.kept, settlementStatus, e)
               IN  \/ next = x.kept /\ goesOn(w, <<given(c, x.kept)>>)
                   \/ /\ next # x.kept
                      /\ goesOn(w, <<holding(x, next, "event.write")>> \o <<c>>)
         \/ /\ x.at = "event.write" /\ writeEvent(e, x.kept)
            /\ goesOn(w, <<given(c, x.kept)>>)
<1>1. /\ <<c>> = <<c>> \o <<>> /\ <<>> \in Seq(Record)
      /\ \A v : <<given(c, v)>> \o <<>> = <<given(c, v)>>
  OBVIOUS
<1>2. stack[w] = <<x>> \o (<<c>> \o <<>>)
  BY <1>1
<1> QED BY <1>1, <1>2, EventSyncStep

Uncaught(s) == \A x \in among(s) : x.at \notin DOMAIN catch

LEMMA UncaughtOne ==
  ASSUME NEW x, x.at \notin DOMAIN catch
  PROVE  Uncaught(<<x>>)
BY AmongOne DEF Uncaught

LEMMA UncaughtPut ==
  ASSUME NEW x, x.at \notin DOMAIN catch, NEW T, NEW t \in Seq(T), Uncaught(t)
  PROVE  Uncaught(<<x>> \o t)
BY AmongPut DEF Uncaught

LEMMA UncaughtThrow ==
  ASSUME IInv, AnswersTyped, NEW w \in Worker, Uncaught(stack[w]),
         NEW error \in {"refused", "failed"}, throw(w, error)
  PROVE  Refused(w)
BY ThrowRefuses DEF Uncaught

LEMMA PutElements ==
  ASSUME NEW x, NEW S, NEW t \in Seq(S)
  PROVE  /\ <<x>> \o t \in Seq(S \cup {x})
         /\ Len(t) \in Nat /\ Len(<<x>> \o t) = Len(t) + 1
         /\ (<<x>> \o t)[1] = x
         /\ \A n \in 1..Len(t) : (<<x>> \o t)[n + 1] = t[n]
<1>1. /\ <<x>> \in Seq(S \cup {x}) /\ t \in Seq(S \cup {x})
      /\ Len(<<x>>) = 1 /\ <<x>>[1] = x /\ Len(t) \in Nat
  OBVIOUS
<1>2. <<x>> \o t \in Seq(S \cup {x})
  BY <1>1, JoinTyped
<1>3. Len(<<x>> \o t) = Len(t) + 1
  BY <1>1, ConcatProperties
<1>4. \A n \in 1..(1 + Len(t)) :
        (<<x>> \o t)[n] = IF n <= 1 THEN <<x>>[n] ELSE t[n - 1]
  BY <1>1, ConcatProperties
<1>5. (<<x>> \o t)[1] = x
  BY <1>1, <1>4
<1>6. ASSUME NEW n \in 1..Len(t) PROVE (<<x>> \o t)[n + 1] = t[n]
  <2>1. n + 1 \in 1..(1 + Len(t)) /\ ~(n + 1 <= 1) /\ (n + 1) - 1 = n
    BY <1>1
  <2> QED BY <1>4, <2>1
<1> QED BY <1>1, <1>2, <1>3, <1>5, <1>6

LEMMA PairPut ==
  ASSUME NEW x, NEW y
  PROVE  <<x, y>> = <<x>> \o <<y>>
<1>1. PICK S : S = {x, y}
  OBVIOUS
<1>2. <<x, y>> \in Seq(S) /\ <<y>> \in Seq(S)
  BY <1>1
<1>3. PICK t : t = <<x>> \o <<y>>
  OBVIOUS
<1>4. t \in Seq(S \cup {x}) /\ Len(t) = Len(<<y>>) + 1 /\ t[1] = x /\ t[1 + 1] = <<y>>[1]
  BY <1>2, <1>3, PutElements
<1>5. t \in Seq(S) /\ Len(t) = 2 /\ t[1] = x /\ t[2] = y
  BY <1>1, <1>4
<1>6. Len(<<x, y>>) = 2 /\ <<x, y>>[1] = x /\ <<x, y>>[2] = y
  OBVIOUS
<1>7. \A n \in 1..2 : t[n] = <<x, y>>[n]
  BY <1>5, <1>6
<1>8. t = <<x, y>>
  BY <1>2, <1>5, <1>6, <1>7, SeqEqual
<1> QED BY <1>3, <1>8

LEMMA TwoPut ==
  ASSUME NEW x, NEW y, NEW T, NEW t \in Seq(T)
  PROVE  <<x, y>> \o t = <<x>> \o (<<y>> \o t)
<1>1. <<x>> \in Seq(T \cup {x, y}) /\ <<y>> \in Seq(T \cup {x, y}) /\ t \in Seq(T \cup {x, y})
  OBVIOUS
<1> QED BY <1>1, PairPut, ConcatAssociative

LEMMA FourPut ==
  ASSUME NEW a, NEW b, NEW c, NEW d
  PROVE  <<a, b, c, d>> = <<a>> \o (<<b>> \o (<<c>> \o <<d>>))
<1>1. PICK S : S = {a, b, c, d}
  OBVIOUS
<1>2. PICK q \in Seq(S) : q = <<c, d>>
  <2>1. <<c, d>> \in Seq(S)
    BY <1>1
  <2> QED BY <2>1
<1>3. PICK t \in Seq(S) : t = <<b>> \o q
  <2>1. <<b>> \in Seq(S)
    BY <1>1
  <2> QED BY <2>1, JoinTyped
<1>4. PICK u \in Seq(S) : u = <<a>> \o t
  <2>1. <<a>> \in Seq(S)
    BY <1>1
  <2> QED BY <2>1, JoinTyped
<1>5. Len(q) = 2 /\ q[1] = c /\ q[2] = d
  BY <1>2
<1>6. Len(t) = 3 /\ t[1] = b /\ t[2] = c /\ t[3] = d
  <2>1. /\ Len(t) = Len(q) + 1 /\ t[1] = b
        /\ \A n \in 1..Len(q) : t[n + 1] = q[n]
    BY <1>3, PutElements
  <2>2. 1 \in 1..Len(q) /\ 2 \in 1..Len(q) /\ 1 + 1 = 2 /\ 2 + 1 = 3
    BY <1>5
  <2>3. t[1 + 1] = q[1] /\ t[2 + 1] = q[2]
    BY <2>1, <2>2
  <2> QED BY <1>5, <2>1, <2>2, <2>3
<1>7. Len(u) = 4 /\ u[1] = a /\ u[2] = b /\ u[3] = c /\ u[4] = d
  <2>1. /\ Len(u) = Len(t) + 1 /\ u[1] = a
        /\ \A n \in 1..Len(t) : u[n + 1] = t[n]
    BY <1>4, PutElements
  <2>2. /\ 1 \in 1..Len(t) /\ 2 \in 1..Len(t) /\ 3 \in 1..Len(t)
        /\ 1 + 1 = 2 /\ 2 + 1 = 3 /\ 3 + 1 = 4
    BY <1>6
  <2>3. u[1 + 1] = t[1] /\ u[2 + 1] = t[2] /\ u[3 + 1] = t[3]
    BY <2>1, <2>2
  <2> QED BY <1>6, <2>1, <2>2, <2>3
<1>8. PICK r \in Seq(S) : r = <<a, b, c, d>>
  <2>1. <<a, b, c, d>> \in Seq(S)
    BY <1>1
  <2> QED BY <2>1
<1>9. Len(r) = 4 /\ r[1] = a /\ r[2] = b /\ r[3] = c /\ r[4] = d
  BY <1>8
<1>10. \A n \in 1..4 : r[n] = u[n]
  BY <1>7, <1>9
<1>11. r = u
  BY <1>7, <1>9, <1>10, SeqEqual
<1> QED BY <1>2, <1>3, <1>4, <1>8, <1>11, PairPut

LEMMA NothingPut ==
  ASSUME NEW S, NEW q \in Seq(S)
  PROVE  q \o <<>> = q
OBVIOUS

settleRequest(r) ==
  r.id \in Settlement /\ EventOf[r.id] \in Event /\ r.rest \in Seq(Allocation)

\* c is the record of the request itself.
serves(c, r, at) == c.at = at /\ c.id = r.id /\ c.rest = r.rest

\* Before the settlements of the event are listed.
asking(st, r, ss) ==
  /\ ss[r.id] = "absent"
  /\ \E c \in Record :
       \/ st = <<c>> /\ (serves(c, r, "settle") \/ serves(c, r, "settle.list"))
       \/ /\ serves(c, r, "settle.list")
          /\ \E x \in Record :
               x.at \in EventSync /\ x.id = EventOf[r.id] /\ st = <<x>> \o <<c>>

\* What waits while the draft is made.
calculating(t, r) ==
  \E m, c \in Record :
    /\ t = <<m>> \o <<c>>
    /\ m.at = "markCalculated" /\ m.id = r.id /\ serves(c, r, "settle.calculated")

\* The draft is not inserted yet, and nothing else is under way: the event is made
\* ready and synchronised.  es and ss are the events and the settlements.
drafting(st, t, s, e, status) ==
  \/ \E y \in Record :
       /\ st = <<y>> \o t /\ y.id = s
       /\ y.at = "settleEvent.ready" \/ (y.at = "createDraft.insert" /\ y.got = status)
  \/ \E x, y \in Record :
       /\ st = <<x>> \o (<<y>> \o t) /\ syncing(x, e, status) /\ y.id = s
       /\ y.at \in {"settleEvent.ready", "createDraft.insert"}
  \/ \E x, y, z \in Record :
       /\ st = <<x>> \o (<<y>> \o (<<z>> \o t))
       /\ x.at \in {"markReady", "event.write"} /\ x.id = e
       /\ y.at = "syncEvent" /\ y.id = e
       /\ z.at = "createDraft.insert" /\ z.id = s

undrafted(st, r, es, ss) ==
  /\ ss[r.id] = "absent" /\ activeSettlements(ss, EventOf[r.id]) = {}
  /\ \E t \in Seq(Record) :
       calculating(t, r) /\ drafting(st, t, r.id, EventOf[r.id], es[EventOf[r.id]])

LEMMA CalculatingUncaught ==
  ASSUME NEW r, NEW t, calculating(t, r)
  PROVE  Uncaught(t)
<1>1. PICK m, c \in Record :
        t = <<m>> \o <<c>> /\ m.at = "markCalculated" /\ c.at = "settle.calculated"
  BY DEF calculating, serves
<1>2. m.at \notin DOMAIN catch /\ c.at \notin DOMAIN catch
  BY <1>1 DEF catch
<1>3. <<c>> \in Seq(Record)
  OBVIOUS
<1> QED BY <1>1, <1>2, <1>3, UncaughtOne, UncaughtPut

LEMMA Asking ==
  ASSUME IInv, IInv', AnswersTyped, NEW w \in Worker, Step(w),
         NEW r, settleRequest(r), asking(stack[w], r, settlementStatus)
  PROVE  \/ asking(stack'[w], r, settlementStatus')
         \/ undrafted(stack'[w], r, eventStatus', settlementStatus')
         \/ Refused(w)
<1>1. PICK c \in Record :
        \/ stack[w] = <<c>> /\ serves(c, r, "settle")
        \/ stack[w] = <<c>> /\ serves(c, r, "settle.list")
        \/ /\ serves(c, r, "settle.list")
           /\ \E x \in Record :
                x.at \in EventSync /\ x.id = EventOf[r.id] /\ stack[w] = <<x>> \o <<c>>
  BY DEF asking
<1>2. PICK s \in Settlement, e \in Event : s = r.id /\ e = EventOf[s]
  BY DEF settleRequest
<1>3. settlementStatus[s] = "absent"
  BY <1>2 DEF asking
<1>4. c.at \notin DOMAIN catch /\ c.id = s /\ c.rest = r.rest
  BY <1>1, <1>2 DEF serves, catch
<1>5. <<c>> \in Seq(Record)
  OBVIOUS
<1>6. CASE stack[w] = <<c>> /\ serves(c, r, "settle")
  <2>1. top(w) = c /\ \A q : become(w, q) => goesOn(w, q \o <<>>)
    <3>1. stack[w] = <<c>> \o <<>> /\ <<>> \in Seq(Record)
      BY <1>6
    <3> QED BY <3>1, Goes
  <2>2. settleEventWithAllocations(w) /\ c.at = "settle"
    BY <1>6, <2>1, Running DEF serves
  <2>3. PICK x, d, v : /\ x = call("syncEvent", e)
                    /\ d = [[c EXCEPT !.at = "settle.list"] EXCEPT !.kept = v]
                    /\ become(w, <<x, d>>) /\ UNCHANGED vars
    BY <1>2, <1>4, <2>1, <2>2 DEF settleEventWithAllocations, reads
  <2>4. goesOn(w, <<x, d>> \o <<>>)
    BY <2>1, <2>3
  <2>5. <<x, d>> \o <<>> = <<x, d>> /\ <<x, d>> = <<x>> \o <<d>>
    <3>1. <<x, d>> \in Seq({x, d})
      OBVIOUS
    <3> QED BY <3>1, NothingPut, PairPut
  <2>6. serves(d, r, "settle.list") /\ d.at = "settle.list"
    BY <1>2, <1>4, <2>3 DEF serves, Record
  <2>7. x.at \in EventSync /\ x.id = e
    BY <2>3 DEF call, EventSync
  <2>8. x \in Record /\ d \in Record
    <3>1. <<x, d>> \in Seq(Record)
      <4>1. stack'[w] \in Seq(Record)
        BY NextStacksTyped
      <4>2. stack'[w] = <<x, d>>
        BY <2>4, <2>5 DEF goesOn
      <4> QED BY <4>1, <4>2
    <3>2. 1 \in DOMAIN <<x, d>> /\ 2 \in DOMAIN <<x, d>>
      OBVIOUS
    <3>3. <<x, d>>[1] \in Record /\ <<x, d>>[2] \in Record
      BY <3>1, <3>2, ElementOfSeq
    <3> QED BY <3>3
  <2>9. settlementStatus' = settlementStatus
    BY <2>3 DEF vars
  <2> QED BY <1>2, <1>3, <2>4, <2>5, <2>6, <2>7, <2>8, <2>9 DEF asking, goesOn
<1>7. CASE stack[w] = <<c>> /\ serves(c, r, "settle.list")
  <2>1. /\ top(w) = c /\ \A q : become(w, q) => goesOn(w, q \o <<>>)
    <3>1. stack[w] = <<c>> \o <<>> /\ <<>> \in Seq(Record)
      BY <1>7
    <3> QED BY <3>1, Goes
  <2>2. settleEventWithAllocations(w) /\ c.at = "settle.list"
    BY <1>7, <2>1, Running DEF serves
  <2>3. PICK x, y, m, d : /\ x = call("syncEvent", e)
                          /\ y = [call("settleEvent.ready", s) EXCEPT !.kept = c.kept]
                          /\ m = call("markCalculated", s)
                          /\ d = [c EXCEPT !.at = "settle.calculated"]
    OBVIOUS
  <2>4. /\ UNCHANGED vars
        /\ \/ throw(w, "refused")
           \/ activeSettlements(settlementStatus, e) = {} /\ become(w, <<x, y, m, d>>)
    BY <1>2, <1>4, <2>1, <2>2, <2>3 DEF settleEventWithAllocations, reads
  <2>5. settlementStatus' = settlementStatus /\ eventStatus' = eventStatus
    BY <2>4 DEF vars
  <2>6. CASE throw(w, "refused")
    BY <1>4, <1>7, <2>6, UncaughtOne, UncaughtThrow
  <2>7. CASE activeSettlements(settlementStatus, e) = {} /\ become(w, <<x, y, m, d>>)
    <3>1. stack'[w] = <<x, y, m, d>>
      <4>1. stack'[w] = <<x, y, m, d>> \o <<>>
        BY <2>1, <2>7 DEF goesOn
      <4>2. <<x, y, m, d>> \in Seq({x, y, m, d})
        OBVIOUS
      <4> QED BY <4>1, <4>2, NothingPut
    <3>2. /\ x.at = "syncEvent" /\ x.id = e
          /\ y.at = "settleEvent.ready" /\ y.id = s
          /\ m.at = "markCalculated" /\ m.id = s
          /\ serves(d, r, "settle.calculated")
      BY <1>2, <1>4, <2>3 DEF serves, Record, call
    <3>3. x \in Record /\ y \in Record /\ m \in Record /\ d \in Record
      <4>1. <<x, y, m, d>> \in Seq(Record)
        <5>1. stack'[w] \in Seq(Record)
          BY NextStacksTyped
        <5> QED BY <3>1, <5>1
      <4>2. /\ 1 \in DOMAIN <<x, y, m, d>> /\ 2 \in DOMAIN <<x, y, m, d>>
            /\ 3 \in DOMAIN <<x, y, m, d>> /\ 4 \in DOMAIN <<x, y, m, d>>
        OBVIOUS
      <4>3. /\ <<x, y, m, d>>[1] \in Record /\ <<x, y, m, d>>[2] \in Record
            /\ <<x, y, m, d>>[3] \in Record /\ <<x, y, m, d>>[4] \in Record
        BY <4>1, <4>2, ElementOfSeq
      <4> QED BY <4>3
    <3>4. PICK t \in Seq(Record) : t = <<m>> \o <<d>>
      <4>1. <<d>> \in Seq(Record)
        BY <3>3
      <4> QED BY <3>3, <4>1, PushTyped
    <3>5. calculating(t, r)
      BY <1>2, <3>2, <3>3, <3>4 DEF calculating
    <3>6. stack'[w] = <<x>> \o (<<y>> \o t)
      BY <3>1, <3>4, FourPut
    <3>7. syncing(x, e, eventStatus[e])
      BY <3>2 DEF syncing, EventSync
    <3>8. drafting(stack'[w], t, s, e, eventStatus[e])
      BY <3>2, <3>3, <3>6, <3>7 DEF drafting
    <3> QED BY <1>2, <1>3, <2>5, <2>7, <3>5, <3>8 DEF undrafted
  <2> QED BY <2>4, <2>6, <2>7
<1>8. ASSUME serves(c, r, "settle.list"), NEW x \in Record, x.at \in EventSync,
             x.id = EventOf[r.id], stack[w] = <<x>> \o <<c>>
      PROVE  asking(stack'[w], r, settlementStatus') \/ Refused(w)
  <2>1. x.id = e
    BY <1>2, <1>8
  <2>2. CASE throw(w, "refused")
    <3>1. x.at \notin DOMAIN catch
      BY <1>8 DEF EventSync, catch
    <3> QED BY <1>4, <1>5, <1>8, <2>2, <3>1, UncaughtOne, UncaughtPut, UncaughtThrow
  <2>3. /\ \A v, at : at \in EventSync =>
              holding(x, v, at).at \in EventSync /\ holding(x, v, at).id = EventOf[r.id]
        /\ \A v : serves(given(c, v), r, "settle.list")
    BY <1>8, Fields DEF serves
  <2>4. {"syncEvent.list", "event.write"} \subseteq EventSync
    BY DEF EventSync
  <2>5. ASSUME NEW v, NEW at \in EventSync, stack'[w] = <<holding(x, v, at)>> \o <<c>>,
               settlementStatus' = settlementStatus
        PROVE  asking(stack'[w], r, settlementStatus')
    <3>1. holding(x, v, at) \in Record
      BY <1>5, <2>5, TopRecord
    <3> QED BY <1>2, <1>3, <1>8, <2>3, <2>5, <3>1 DEF asking
  <2>6. ASSUME NEW v, stack'[w] = <<given(c, v)>>, settlementStatus' = settlementStatus
        PROVE  asking(stack'[w], r, settlementStatus')
    <3>1. given(c, v) \in Record
      BY <2>6, OneTyped
    <3> QED BY <1>2, <1>3, <2>3, <2>6, <3>1 DEF asking
  <2>7. PICK next : next = SyncedEventStatus(x.kept, settlementStatus, e)
    OBVIOUS
  <2>8. \/ throw(w, "refused")
        \/ /\ UNCHANGED vars
           /\ goesOn(w, <<holding(x, eventStatus[e], "syncEvent.list")>> \o <<c>>)
        \/ UNCHANGED vars /\ goesOn(w, <<given(c, x.kept)>>)
        \/ UNCHANGED vars /\ goesOn(w, <<holding(x, next, "event.write")>> \o <<c>>)
        \/ writeEvent(e, x.kept) /\ goesOn(w, <<given(c, x.kept)>>)
    BY <1>8, <2>1, <2>7, EventSyncLast
  <2>9. (UNCHANGED vars \/ writeEvent(e, x.kept)) => settlementStatus' = settlementStatus
    BY DEF vars, writeEvent
  <2>10. \A v : goesOn(w, <<given(c, v)>>) /\ settlementStatus' = settlementStatus
           => asking(stack'[w], r, settlementStatus')
    BY <2>6 DEF goesOn
  <2>11. \A v : \A at \in EventSync :
           goesOn(w, <<holding(x, v, at)>> \o <<c>>) /\ settlementStatus' = settlementStatus
           => asking(stack'[w], r, settlementStatus')
    BY <2>5 DEF goesOn
  <2> QED BY <2>2, <2>4, <2>8, <2>9, <2>10, <2>11
<1> QED BY <1>1, <1>6, <1>7, <1>8

\* The draft is inserted, the only settlement under way, and its event synchronised.
drafted(st, r, es, ss) ==
  LET s == r.id
      e == EventOf[s]
  IN  /\ ss[s] = "draft" /\ activeSettlements(ss, e) = {s}
      /\ \/ \E t \in Seq(Record) :
              /\ calculating(t, r)
              /\ \/ es[e] = "partially_settled" /\ st = t
                 \/ /\ es[e] = "partially_settled"
                    /\ \E y \in Record : st = <<y>> \o t /\ y.at = "createDraft.trust"
                 \/ /\ es[e] \in {"ready_for_settlement", "partially_settled"}
                    /\ \E x, y \in Record :
                         /\ st = <<x>> \o (<<y>> \o t) /\ y.at = "createDraft.trust"
                         /\ syncing(x, e, es[e])
                         /\ x.at = "event.write" => x.kept = "partially_settled"
         \/ /\ es[e] = "partially_settled"
            /\ \E m, c \in Record :
                 /\ st = <<m>> \o <<c>> /\ serves(c, r, "settle.calculated")
                 /\ m.at = "settlement.write" /\ m.kept = "calculated" /\ m.id = s

LEMMA ThreePut ==
  \A T : \A t \in Seq(T) : \A x, y, z :
    (<<x>> \o <<y, z>>) \o t = <<x>> \o (<<y>> \o (<<z>> \o t))
<1> SUFFICES ASSUME NEW T, NEW t \in Seq(T), NEW x, NEW y, NEW z
             PROVE  (<<x>> \o <<y, z>>) \o t = <<x>> \o (<<y>> \o (<<z>> \o t))
  OBVIOUS
<1>1. PICK S : S = T \cup {x, y, z}
  OBVIOUS
<1>2. <<x>> \in Seq(S) /\ <<y, z>> \in Seq(S) /\ t \in Seq(S)
  BY <1>1
<1>3. (<<x>> \o <<y, z>>) \o t = <<x>> \o (<<y, z>> \o t)
  BY <1>2, ConcatAssociative
<1>4. <<y, z>> \o t = <<y>> \o (<<z>> \o t)
  BY TwoPut
<1> QED BY <1>3, <1>4

LEMMA ReadyStep ==
  ASSUME IInv, IInv', AnswersTyped, NEW w \in Worker, Step(w),
         NEW s \in Settlement, NEW e \in Event, e = EventOf[s], NEW t \in Seq(Record),
         NEW y \in Record, stack[w] = <<y>> \o t, y.id = s, y.at = "settleEvent.ready"
  PROVE  UNCHANGED vars /\ drafting(stack'[w], t, s, e, eventStatus[e])
<1>1. top(w) = y /\ \A q : become(w, q) => goesOn(w, q \o t)
  BY Goes
<1>2. settleEventWithAllocations(w)
  BY <1>1, Running
<1>3. PICK a, b, i : /\ a = call("markReady", e) /\ b = call("syncEvent", e)
                     /\ i = moved(y, "createDraft.insert")
  OBVIOUS
<1>4. /\ UNCHANGED vars
      /\ \/ become(w, <<a>> \o <<b, i>>)
         \/ become(w, <<>> \o <<b, i>>)
  BY <1>1, <1>2, <1>3 DEF settleEventWithAllocations, moved, reads
<1>5. /\ a.at = "markReady" /\ a.id = e /\ b.at = "syncEvent" /\ b.id = e
      /\ i.at = "createDraft.insert" /\ i.id = s
  BY <1>3, Fields DEF call
<1>6. a \in Record /\ b \in Record /\ i \in Record
  <2>1. "markReady" \in Point /\ "syncEvent" \in Point /\ "createDraft.insert" \in Point
    BY DEF Point, EventPoint, SettlementPoint
  <2>2. e \in Row
    BY DEF Row
  <2>3. i \in Record
    BY <1>3, <2>1 DEF Record, moved
  <2> QED BY <1>3, <2>1, <2>2, <2>3, CallTyped
<1>7. <<>> \o <<b, i>> = <<b, i>>
  <2>1. <<b, i>> \in Seq({b, i})
    OBVIOUS
  <2> QED BY <2>1
<1>8. CASE become(w, <<a>> \o <<b, i>>)
  <2>1. stack'[w] = <<a>> \o (<<b>> \o (<<i>> \o t))
    <3>1. stack'[w] = (<<a>> \o <<b, i>>) \o t
      BY <1>1, <1>8 DEF goesOn
    <3>2. (<<a>> \o <<b, i>>) \o t = <<a>> \o (<<b>> \o (<<i>> \o t))
      BY ThreePut
    <3> QED BY <3>1, <3>2
  <2> QED BY <1>4, <1>5, <1>6, <2>1 DEF drafting
<1>9. CASE become(w, <<>> \o <<b, i>>)
  <2>1. stack'[w] = <<b>> \o (<<i>> \o t)
    <3>1. stack'[w] = <<b, i>> \o t
      BY <1>1, <1>7, <1>9 DEF goesOn
    <3>2. <<b, i>> \o t = <<b>> \o (<<i>> \o t)
      BY TwoPut
    <3> QED BY <3>1, <3>2
  <2>2. syncing(b, e, eventStatus[e])
    BY <1>5 DEF syncing, EventSync
  <2> QED BY <1>4, <1>5, <1>6, <2>1, <2>2 DEF drafting
<1> QED BY <1>4, <1>8, <1>9

LEMMA InsertStep ==
  ASSUME IInv, IInv', AnswersTyped, NEW w \in Worker, Step(w),
         NEW r, settleRequest(r), settlementStatus[r.id] = "absent",
         activeSettlements(settlementStatus, EventOf[r.id]) = {},
         NEW t \in Seq(Record), calculating(t, r),
         NEW y \in Record, stack[w] = <<y>> \o t, y.id = r.id, y.at = "createDraft.insert",
         y.got = eventStatus[EventOf[r.id]]
  PROVE  drafted(stack'[w], r, eventStatus', settlementStatus') \/ Refused(w)
<1>1. PICK s \in Settlement, e \in Event : s = r.id /\ e = EventOf[s] /\ e # NoEvent
  BY ForeignKeys DEF settleRequest
<1>2. top(w) = y /\ \A q : become(w, q) => goesOn(w, q \o t)
  BY Goes
<1>3. createDraftSettlement(w)
  BY <1>2, Running
<1>4. PICK x, z : x = call("syncEvent", e) /\ z = moved(y, "createDraft.trust")
  OBVIOUS
<1>5. \/ throw(w, "refused")
      \/ /\ eventStatus[e] \in {"ready_for_settlement", "partially_settled"}
         /\ settlementStatus' = [settlementStatus EXCEPT ![s] = "draft"]
         /\ eventStatus' = eventStatus
         /\ become(w, <<x, z>>)
  BY <1>1, <1>2, <1>3, <1>4 DEF createDraftSettlement, setSettlement, moved
<1>6. CASE throw(w, "refused")
  <2>1. Uncaught(t) /\ y.at \notin DOMAIN catch
    BY CalculatingUncaught DEF catch
  <2> QED BY <1>6, <2>1, UncaughtPut, UncaughtThrow
<1>7. CASE /\ eventStatus[e] \in {"ready_for_settlement", "partially_settled"}
           /\ settlementStatus' = [settlementStatus EXCEPT ![s] = "draft"]
           /\ eventStatus' = eventStatus
           /\ become(w, <<x, z>>)
  <2>1. settlementStatus'[s] = "draft" /\ activeSettlements(settlementStatus', e) = {s}
    <3>1. activeSettlements(settlementStatus, EventOf[s]) \subseteq {s}
      BY <1>1
    <3>2. setSettlement(s, "draft")
      BY <1>7 DEF setSettlement
    <3> QED BY <1>1, <3>1, <3>2, StillActive
  <2>2. stack'[w] = <<x>> \o (<<z>> \o t)
    <3>1. stack'[w] = <<x, z>> \o t
      BY <1>2, <1>7 DEF goesOn
    <3>2. <<x, z>> \o t = <<x>> \o (<<z>> \o t)
      BY TwoPut
    <3> QED BY <3>1, <3>2
  <2>3. x.at = "syncEvent" /\ x.id = e /\ z.at = "createDraft.trust"
    BY <1>4, Fields DEF call
  <2>4. x \in Record /\ z \in Record
    <3>1. "syncEvent" \in Point /\ "createDraft.trust" \in Point /\ e \in Row
      BY DEF Point, EventPoint, SettlementPoint, Row
    <3> QED BY <1>4, <3>1, CallTyped DEF Record, moved
  <2>5. syncing(x, e, eventStatus'[e])
    BY <2>3 DEF syncing, EventSync
  <2> QED BY <1>1, <1>7, <2>1, <2>2, <2>3, <2>4, <2>5 DEF drafted
<1> QED BY <1>5, <1>6, <1>7

LEMMA Undrafted ==
  ASSUME IInv, IInv', AnswersTyped, NEW w \in Worker, Step(w),
         NEW r, settleRequest(r), undrafted(stack[w], r, eventStatus, settlementStatus)
  PROVE  \/ undrafted(stack'[w], r, eventStatus', settlementStatus')
         \/ drafted(stack'[w], r, eventStatus', settlementStatus')
         \/ Refused(w)
<1>1. PICK s \in Settlement, e \in Event : s = r.id /\ e = EventOf[s] /\ e # NoEvent
  BY ForeignKeys DEF settleRequest
<1>2. settlementStatus[s] = "absent" /\ activeSettlements(settlementStatus, e) = {}
  BY <1>1 DEF undrafted
<1>3. PICK t \in Seq(Record) :
        calculating(t, r) /\ drafting(stack[w], t, s, e, eventStatus[e])
  BY <1>1 DEF undrafted
<1>4. Uncaught(t)
  BY <1>3, CalculatingUncaught
<1>5. ASSUME settlementStatus' = settlementStatus,
             drafting(stack'[w], t, s, e, eventStatus'[e])
      PROVE  undrafted(stack'[w], r, eventStatus', settlementStatus')
  BY <1>1, <1>2, <1>3, <1>5 DEF undrafted
<1>6. ASSUME UNCHANGED vars
      PROVE  settlementStatus' = settlementStatus /\ eventStatus' = eventStatus
  BY <1>6 DEF vars
<1>7. ASSUME NEW y \in Record, stack[w] = <<y>> \o t, y.id = s, y.at = "settleEvent.ready"
      PROVE  undrafted(stack'[w], r, eventStatus', settlementStatus')
  BY <1>1, <1>5, <1>6, <1>7, ReadyStep
<1>8. ASSUME NEW y \in Record, stack[w] = <<y>> \o t, y.id = s, y.at = "createDraft.insert",
             y.got = eventStatus[e]
      PROVE  drafted(stack'[w], r, eventStatus', settlementStatus') \/ Refused(w)
  BY <1>1, <1>2, <1>3, <1>8, InsertStep
<1>9. ASSUME NEW x \in Record, NEW y \in Record, stack[w] = <<x>> \o (<<y>> \o t),
             syncing(x, e, eventStatus[e]), y.id = s,
             y.at \in {"settleEvent.ready", "createDraft.insert"}
      PROVE  undrafted(stack'[w], r, eventStatus', settlementStatus') \/ Refused(w)
  <2>1. x.at \in EventSync /\ x.id = e /\ (x.at = "syncEvent.list" => x.kept = eventStatus[e])
    BY <1>9 DEF syncing
  <2>2. PICK u \in Seq(Record) : u = <<y>> \o t
    BY PushTyped
  <2>3. CASE throw(w, "refused")
    <3>1. x.at \notin DOMAIN catch /\ y.at \notin DOMAIN catch
      BY <1>9, <2>1 DEF EventSync, catch
    <3> QED BY <1>4, <1>9, <2>2, <2>3, <3>1, UncaughtPut, UncaughtThrow
  <2>4. ASSUME NEW g, goesOn(w, <<g>> \o (<<y>> \o t)), syncing(g, e, eventStatus'[e])
        PROVE  drafting(stack'[w], t, s, e, eventStatus'[e])
    <3>1. g \in Record
      BY <2>2, <2>4, TopRecord DEF goesOn
    <3> QED BY <1>9, <2>4, <3>1 DEF drafting, goesOn
  <2>5. ASSUME NEW v, goesOn(w, <<given(y, v)>> \o t), v = eventStatus'[e]
        PROVE  drafting(stack'[w], t, s, e, eventStatus'[e])
    <3>1. given(y, v) \in Record
      BY <2>5, TopRecord DEF goesOn
    <3>2. given(y, v).at = y.at /\ given(y, v).id = s /\ given(y, v).got = v
      BY <1>9, Fields
    <3> QED BY <1>9, <2>5, <3>1, <3>2 DEF drafting, goesOn
  <2>6. PICK next : next = SyncedEventStatus(x.kept, settlementStatus, e)
    OBVIOUS
  <2>7. \/ throw(w, "refused")
        \/ /\ UNCHANGED vars
           /\ goesOn(w, <<holding(x, eventStatus[e], "syncEvent.list")>> \o (<<y>> \o t))
        \/ UNCHANGED vars /\ x.kept = eventStatus[e] /\ goesOn(w, <<given(y, x.kept)>> \o t)
        \/ UNCHANGED vars /\ goesOn(w, <<holding(x, next, "event.write")>> \o (<<y>> \o t))
        \/ writeEvent(e, x.kept) /\ goesOn(w, <<given(y, x.kept)>> \o t)
    BY <1>9, <2>1, <2>6, EventSyncStep
  <2>8. /\ syncing(holding(x, eventStatus[e], "syncEvent.list"), e, eventStatus[e])
        /\ syncing(holding(x, next, "event.write"), e, eventStatus[e])
    BY <2>1, Fields DEF syncing, EventSync
  <2>9. writeEvent(e, x.kept) => eventStatus'[e] = x.kept /\ settlementStatus' = settlementStatus
    BY DEF writeEvent, IInv, Tables, TypeOK
  <2>10. \/ throw(w, "refused")
         \/ /\ settlementStatus' = settlementStatus
            /\ drafting(stack'[w], t, s, e, eventStatus'[e])
    BY <1>6, <2>4, <2>5, <2>7, <2>8, <2>9
  <2> QED BY <1>5, <2>3, <2>10
<1>10. ASSUME NEW x \in Record, NEW y \in Record, NEW z \in Record,
              stack[w] = <<x>> \o (<<y>> \o (<<z>> \o t)),
              x.at \in {"markReady", "event.write"}, x.id = e,
              y.at = "syncEvent", y.id = e, z.at = "createDraft.insert", z.id = s
       PROVE  undrafted(stack'[w], r, eventStatus', settlementStatus') \/ Refused(w)
  <2>1. PICK u \in Seq(Record) : u = <<z>> \o t
    BY PushTyped
  <2>2. PICK v \in Seq(Record) : v = <<y>> \o u
    BY PushTyped
  <2>3. CASE throw(w, "refused")
    <3>1. x.at \notin DOMAIN catch /\ y.at \notin DOMAIN catch /\ z.at \notin DOMAIN catch
      BY <1>10 DEF catch
    <3> QED BY <1>4, <1>10, <2>1, <2>2, <2>3, <3>1, UncaughtPut, UncaughtThrow
  <2>4. CASE x.at = "markReady"
    <3>1. /\ top(w) = x
          /\ \A k, at : keep(w, k, at) => goesOn(w, <<holding(x, k, at)>> \o v)
      BY <1>10, <2>1, <2>2, Goes
    <3>2. moveEvent(w)
      BY <2>4, <3>1, Running
    <3>3. PICK k : UNCHANGED vars /\ (throw(w, "refused") \/ keep(w, k, "event.write"))
      BY <3>2 DEF moveEvent, reads
    <3>4. CASE keep(w, k, "event.write")
      <4>1. stack'[w] = <<holding(x, k, "event.write")>> \o v
        BY <3>1, <3>4 DEF goesOn
      <4>2. holding(x, k, "event.write") \in Record
        BY <4>1, TopRecord
      <4>3. holding(x, k, "event.write").at = "event.write" /\ holding(x, k, "event.write").id = e
        BY <1>10, Fields
      <4>4. drafting(stack'[w], t, s, e, eventStatus'[e])
        BY <1>10, <2>1, <2>2, <4>1, <4>2, <4>3 DEF drafting
      <4> QED BY <1>5, <1>6, <3>3, <4>4
    <3> QED BY <2>3, <3>3, <3>4
  <2>5. CASE x.at = "event.write"
    <3>1. \/ throw(w, "refused")
          \/ writeEvent(e, x.kept) /\ goesOn(w, <<given(y, x.kept)>> \o u)
      <4>1. x.at \in EventSync /\ stack[w] = <<x>> \o (<<y>> \o u)
        BY <1>10, <2>1, <2>5 DEF EventSync
      <4> QED BY <1>10, <2>5, <4>1, EventSyncStep
    <3>2. CASE writeEvent(e, x.kept) /\ goesOn(w, <<given(y, x.kept)>> \o u)
      <4>1. given(y, x.kept) \in Record
        BY <3>2, TopRecord DEF goesOn
      <4>2. syncing(given(y, x.kept), e, eventStatus'[e])
        BY <1>10, Fields DEF syncing, EventSync
      <4>3. drafting(stack'[w], t, s, e, eventStatus'[e])
        BY <1>10, <2>1, <3>2, <4>1, <4>2 DEF drafting, goesOn
      <4>4. settlementStatus' = settlementStatus
        BY <3>2 DEF writeEvent
      <4> QED BY <1>5, <4>3, <4>4
    <3> QED BY <2>3, <3>1, <3>2
  <2> QED BY <1>10, <2>4, <2>5
<1> QED BY <1>3, <1>7, <1>8, <1>9, <1>10 DEF drafting

\* The settlement is calculated, the only one under way, and its event synchronised.
established(r, es, ss) ==
  /\ ss[r.id] = "calculated" /\ activeSettlements(ss, EventOf[r.id]) = {r.id}
  /\ es[EventOf[r.id]] = "partially_settled"

calculated(st, r, es, ss) ==
  /\ established(r, es, ss)
  /\ \E c \in Record : st = <<c>> /\ serves(c, r, "settle.calculated")

\* An error leaves the methods, and the tables as they are.
Throws(w) == UNCHANGED vars /\ \E error \in {"refused", "failed"} : throw(w, error)

LEMMA OverLast ==
  ASSUME IInv, NEW w \in Worker, NEW x \in Record, NEW c \in Record, stack[w] = <<x>> \o <<c>>
  PROVE  /\ top(w) = x
         /\ \A v : return(w, v) => goesOn(w, <<given(c, v)>>)
         /\ \A g : become(w, <<g>>) => goesOn(w, <<g>> \o <<c>>)
         /\ \A at : goto(w, at) => goesOn(w, <<moved(x, at)>> \o <<c>>)
         /\ \A v, at : keep(w, v, at) => goesOn(w, <<holding(x, v, at)>> \o <<c>>)
<1>1. /\ <<c>> \in Seq(Record) /\ <<c>> = <<c>> \o <<>> /\ <<>> \in Seq(Record)
      /\ \A v : <<given(c, v)>> \o <<>> = <<given(c, v)>>
  OBVIOUS
<1>2. stack[w] = <<x>> \o (<<c>> \o <<>>)
  BY <1>1
<1>3. \A v : return(w, v) => goesOn(w, <<given(c, v)>>)
  BY <1>1, <1>2, ReturnsTo
<1> QED BY <1>1, <1>3, Goes

LEMMA TrustStep ==
  ASSUME IInv, IInv', NEW w \in Worker, Step(w), NEW r, NEW t \in Seq(Record), calculating(t, r),
         NEW y \in Record, stack[w] = <<y>> \o t, y.at = "createDraft.trust"
  PROVE  UNCHANGED vars /\ \E u \in Seq(Record) : calculating(u, r) /\ stack'[w] = u
<1>1. PICK m, c \in Record :
        /\ t = <<m>> \o <<c>>
        /\ m.at = "markCalculated" /\ m.id = r.id /\ serves(c, r, "settle.calculated")
  BY DEF calculating
<1>2. <<c>> \in Seq(Record)
  OBVIOUS
<1>3. top(w) = y
  BY Goes
<1>4. createDraftSettlement(w)
  BY <1>3, Running
<1>5. UNCHANGED vars /\ return(w, "draft")
  BY <1>3, <1>4 DEF createDraftSettlement, reads
<1>6. stack'[w] = <<given(m, "draft")>> \o <<c>>
  <2>1. stack[w] = <<y>> \o (<<m>> \o <<c>>)
    BY <1>1
  <2> QED BY <1>2, <1>5, <2>1, ReturnsTo DEF goesOn
<1>7. given(m, "draft") \in Record
  BY <1>2, <1>6, TopRecord
<1>8. given(m, "draft").at = "markCalculated" /\ given(m, "draft").id = r.id
  BY <1>1, Fields
<1>9. PICK u \in Seq(Record) : u = <<given(m, "draft")>> \o <<c>>
  BY <1>2, <1>7, PushTyped
<1>10. calculating(u, r)
  BY <1>1, <1>7, <1>8, <1>9 DEF calculating
<1> QED BY <1>5, <1>6, <1>9, <1>10

LEMMA CalculateStep ==
  ASSUME IInv, IInv', NEW w \in Worker, Step(w), NEW r, calculating(stack[w], r)
  PROVE  \/ Throws(w)
         \/ /\ UNCHANGED vars
            /\ \E m, c \in Record :
                 /\ stack'[w] = <<m>> \o <<c>> /\ serves(c, r, "settle.calculated")
                 /\ m.at = "settlement.write" /\ m.kept = "calculated" /\ m.id = r.id
<1>1. PICK m, c \in Record :
        /\ stack[w] = <<m>> \o <<c>>
        /\ m.at = "markCalculated" /\ m.id = r.id /\ serves(c, r, "settle.calculated")
  BY DEF calculating
<1>2. /\ top(w) = m /\ <<c>> \in Seq(Record)
      /\ \A v, at : keep(w, v, at) => goesOn(w, <<holding(m, v, at)>> \o <<c>>)
  <2>1. /\ top(w) = m
        /\ \A v, at : keep(w, v, at) => goesOn(w, <<holding(m, v, at)>> \o <<c>>)
    BY <1>1, OverLast
  <2>2. <<c>> \in Seq(Record)
    OBVIOUS
  <2> QED BY <2>1, <2>2
<1>3. markCalculated(w)
  BY <1>1, <1>2, Running
<1>4. /\ UNCHANGED vars
      /\ throw(w, "refused") \/ keep(w, "calculated", "settlement.write")
  BY <1>3 DEF markCalculated, reads
<1>5. CASE keep(w, "calculated", "settlement.write")
  <2>1. PICK g : g = holding(m, "calculated", "settlement.write")
    OBVIOUS
  <2>2. stack'[w] = <<g>> \o <<c>>
    BY <1>2, <1>5, <2>1 DEF goesOn
  <2>3. g \in Record
    BY <1>2, <2>2, TopRecord
  <2>4. g.at = "settlement.write" /\ g.kept = "calculated" /\ g.id = r.id
    BY <1>1, <2>1, Fields
  <2> QED BY <1>1, <1>4, <2>2, <2>3, <2>4
<1> QED BY <1>4, <1>5 DEF Throws

LEMMA CalculatedStep ==
  ASSUME IInv, IInv', NEW w \in Worker, Step(w), NEW r, settleRequest(r),
         activeSettlements(settlementStatus, EventOf[r.id]) = {r.id},
         eventStatus[EventOf[r.id]] = "partially_settled",
         NEW m \in Record, NEW c \in Record, stack[w] = <<m>> \o <<c>>,
         serves(c, r, "settle.calculated"),
         m.at = "settlement.write", m.kept = "calculated", m.id = r.id
  PROVE  calculated(stack'[w], r, eventStatus', settlementStatus')
<1>1. PICK s \in Settlement, e \in Event : s = r.id /\ e = EventOf[s]
  BY DEF settleRequest
<1>2. top(w) = m /\ \A v : return(w, v) => goesOn(w, <<given(c, v)>>)
  BY OverLast
<1>3. writeSettlementStatus(w)
  BY <1>2, Running
<1>4. writeSettlement(s, "calculated") /\ return(w, "calculated")
  <2>1. "calculated" \notin {"paid", "cancelled"}
    OBVIOUS
  <2> QED BY <1>1, <1>2, <1>3, <2>1 DEF writeSettlementStatus
<1>5. setSettlement(s, "calculated") /\ "calculated" \notin {"absent", "cancelled"}
  BY <1>4 DEF writeSettlement
<1>6. activeSettlements(settlementStatus, EventOf[s]) \subseteq {s}
  BY <1>1
<1>7. settlementStatus'[s] = "calculated" /\ activeSettlements(settlementStatus', EventOf[s]) = {s}
  BY <1>5, <1>6, StillActive
<1>8. eventStatus' = eventStatus
  BY <1>4 DEF writeSettlement
<1>9. established(r, eventStatus', settlementStatus')
  BY <1>1, <1>7, <1>8 DEF established
<1>10. PICK g : g = given(c, "calculated")
  OBVIOUS
<1>11. stack'[w] = <<g>>
  BY <1>2, <1>4, <1>10 DEF goesOn
<1>12. g \in Record /\ serves(g, r, "settle.calculated")
  BY <1>10, <1>11, OneTyped, Fields DEF serves
<1> QED BY <1>9, <1>11, <1>12 DEF calculated

LEMMA DraftSyncStep ==
  ASSUME IInv, IInv', NEW w \in Worker, Step(w), NEW r, settleRequest(r),
         settlementStatus[r.id] = "draft",
         activeSettlements(settlementStatus, EventOf[r.id]) = {r.id},
         NEW t \in Seq(Record), calculating(t, r), NEW x \in Record, NEW y \in Record,
         stack[w] = <<x>> \o (<<y>> \o t), y.at = "createDraft.trust",
         eventStatus[EventOf[r.id]] \in {"ready_for_settlement", "partially_settled"},
         syncing(x, EventOf[r.id], eventStatus[EventOf[r.id]]),
         x.at = "event.write" => x.kept = "partially_settled"
  PROVE  drafted(stack'[w], r, eventStatus', settlementStatus') \/ Throws(w)
<1>1. PICK s \in Settlement, e \in Event : s = r.id /\ e = EventOf[s]
  BY DEF settleRequest
<1>2. x.at \in EventSync /\ x.id = e /\ (x.at = "syncEvent.list" => x.kept = eventStatus[e])
  BY <1>1 DEF syncing
<1>3. PICK next : next = SyncedEventStatus(x.kept, settlementStatus, e)
  OBVIOUS
<1>4. x.at = "syncEvent.list" => next = "partially_settled"
  <2>1. activeSettlements(settlementStatus, e) = {s} /\ settlementStatus[s] # "paid"
    BY <1>1
  <2>2. \A status \in {"ready_for_settlement", "partially_settled"} :
          SyncedEventStatus(status, settlementStatus, e) = "partially_settled"
    BY <2>1, SyncedUnderWay
  <2> QED BY <1>1, <1>2, <1>3, <2>2
<1>5. \/ throw(w, "refused") /\ UNCHANGED vars
      \/ /\ UNCHANGED vars
         /\ goesOn(w, <<holding(x, eventStatus[e], "syncEvent.list")>> \o (<<y>> \o t))
      \/ /\ UNCHANGED vars /\ eventStatus[e] = "partially_settled"
         /\ goesOn(w, <<given(y, x.kept)>> \o t)
      \/ /\ UNCHANGED vars
         /\ goesOn(w, <<holding(x, "partially_settled", "event.write")>> \o (<<y>> \o t))
      \/ writeEvent(e, "partially_settled") /\ goesOn(w, <<given(y, x.kept)>> \o t)
  <2>1. \/ throw(w, "refused") /\ UNCHANGED vars
        \/ /\ UNCHANGED vars
           /\ goesOn(w, <<holding(x, eventStatus[e], "syncEvent.list")>> \o (<<y>> \o t))
        \/ /\ x.at = "syncEvent.list" /\ UNCHANGED vars
           /\ \/ next = x.kept /\ goesOn(w, <<given(y, x.kept)>> \o t)
              \/ goesOn(w, <<holding(x, next, "event.write")>> \o (<<y>> \o t))
        \/ /\ x.at = "event.write" /\ writeEvent(e, x.kept)
           /\ goesOn(w, <<given(y, x.kept)>> \o t)
    BY <1>2, <1>3, EventSyncStep
  <2> QED BY <1>2, <1>4, <2>1
<1>6. ASSUME UNCHANGED vars
      PROVE  settlementStatus' = settlementStatus /\ eventStatus' = eventStatus
  BY <1>6 DEF vars
<1>7. ASSUME writeEvent(e, "partially_settled")
      PROVE  settlementStatus' = settlementStatus /\ eventStatus'[e] = "partially_settled"
  BY <1>7 DEF writeEvent, IInv, Tables, TypeOK
<1>8. ASSUME NEW v, NEW at, goesOn(w, <<holding(x, v, at)>> \o (<<y>> \o t)),
             settlementStatus' = settlementStatus, eventStatus' = eventStatus,
             \/ at = "syncEvent.list" /\ v = eventStatus[e]
             \/ at = "event.write" /\ v = "partially_settled"
      PROVE  drafted(stack'[w], r, eventStatus', settlementStatus')
  <2>1. PICK g : g = holding(x, v, at)
    OBVIOUS
  <2>2. stack'[w] = <<g>> \o (<<y>> \o t)
    BY <1>8, <2>1 DEF goesOn
  <2>3. g \in Record
    <3>1. <<y>> \o t \in Seq(Record)
      BY PushTyped
    <3> QED BY <2>2, <3>1, TopRecord
  <2>4. g.at = at /\ g.id = e /\ g.kept = v
    BY <1>2, <2>1, Fields
  <2>5. syncing(g, e, eventStatus[e]) /\ (g.at = "event.write" => g.kept = "partially_settled")
    BY <1>8, <2>4 DEF syncing, EventSync
  <2>6. \E a, b \in Record :
          /\ stack'[w] = <<a>> \o (<<b>> \o t) /\ b.at = "createDraft.trust"
          /\ syncing(a, e, eventStatus[e])
          /\ a.at = "event.write" => a.kept = "partially_settled"
    BY <2>2, <2>3, <2>5
  <2> QED BY <1>1, <1>8, <2>6 DEF drafted
<1>9. ASSUME NEW v, goesOn(w, <<given(y, v)>> \o t),
             settlementStatus' = settlementStatus, eventStatus'[e] = "partially_settled"
      PROVE  drafted(stack'[w], r, eventStatus', settlementStatus')
  <2>1. PICK g : g = given(y, v)
    OBVIOUS
  <2>2. stack'[w] = <<g>> \o t
    BY <1>9, <2>1 DEF goesOn
  <2>3. g \in Record /\ g.at = "createDraft.trust"
    BY <2>1, <2>2, TopRecord, Fields
  <2> QED BY <1>1, <1>9, <2>2, <2>3 DEF drafted
<1> QED BY <1>1, <1>5, <1>6, <1>7, <1>8, <1>9 DEF Throws

LEMMA Drafted ==
  ASSUME IInv, IInv', NEW w \in Worker, Step(w), NEW r, settleRequest(r),
         drafted(stack[w], r, eventStatus, settlementStatus)
  PROVE  \/ drafted(stack'[w], r, eventStatus', settlementStatus')
         \/ calculated(stack'[w], r, eventStatus', settlementStatus')
         \/ Throws(w)
<1>1. PICK s \in Settlement, e \in Event : s = r.id /\ e = EventOf[s]
  BY DEF settleRequest
<1>2. settlementStatus[s] = "draft" /\ activeSettlements(settlementStatus, e) = {s}
  BY <1>1 DEF drafted
<1>3. ASSUME UNCHANGED vars
      PROVE  settlementStatus' = settlementStatus /\ eventStatus' = eventStatus
  BY <1>3 DEF vars
<1>4. ASSUME NEW t \in Seq(Record), calculating(t, r), eventStatus[e] = "partially_settled",
             stack[w] = t
      PROVE  drafted(stack'[w], r, eventStatus', settlementStatus') \/ Throws(w)
  <2>1. calculating(stack[w], r)
    BY <1>4
  <2>2. \/ Throws(w)
        \/ /\ UNCHANGED vars
           /\ \E m, c \in Record :
                /\ stack'[w] = <<m>> \o <<c>> /\ serves(c, r, "settle.calculated")
                /\ m.at = "settlement.write" /\ m.kept = "calculated" /\ m.id = s
    BY <1>1, <2>1, CalculateStep
  <2> QED BY <1>1, <1>2, <1>3, <1>4, <2>2 DEF drafted
<1>5. ASSUME NEW t \in Seq(Record), calculating(t, r), eventStatus[e] = "partially_settled",
             NEW y \in Record, stack[w] = <<y>> \o t, y.at = "createDraft.trust"
      PROVE  drafted(stack'[w], r, eventStatus', settlementStatus')
  <2>1. UNCHANGED vars /\ \E u \in Seq(Record) : calculating(u, r) /\ stack'[w] = u
    BY <1>5, TrustStep
  <2> QED BY <1>1, <1>2, <1>3, <1>5, <2>1 DEF drafted
<1>6. ASSUME NEW t \in Seq(Record), calculating(t, r), NEW x \in Record, NEW y \in Record,
             eventStatus[e] \in {"ready_for_settlement", "partially_settled"},
             stack[w] = <<x>> \o (<<y>> \o t), y.at = "createDraft.trust",
             syncing(x, e, eventStatus[e]),
             x.at = "event.write" => x.kept = "partially_settled"
      PROVE  drafted(stack'[w], r, eventStatus', settlementStatus') \/ Throws(w)
  BY <1>1, <1>2, <1>6, DraftSyncStep
<1>7. ASSUME eventStatus[e] = "partially_settled", NEW m \in Record, NEW c \in Record,
             stack[w] = <<m>> \o <<c>>, serves(c, r, "settle.calculated"),
             m.at = "settlement.write", m.kept = "calculated", m.id = s
      PROVE  calculated(stack'[w], r, eventStatus', settlementStatus')
  BY <1>1, <1>2, <1>7, CalculatedStep
<1>8. \/ \E t \in Seq(Record) :
           /\ calculating(t, r)
           /\ \/ eventStatus[e] = "partially_settled" /\ stack[w] = t
              \/ /\ eventStatus[e] = "partially_settled"
                 /\ \E y \in Record : stack[w] = <<y>> \o t /\ y.at = "createDraft.trust"
              \/ /\ eventStatus[e] \in {"ready_for_settlement", "partially_settled"}
                 /\ \E x, y \in Record :
                      /\ stack[w] = <<x>> \o (<<y>> \o t) /\ y.at = "createDraft.trust"
                      /\ syncing(x, e, eventStatus[e])
                      /\ x.at = "event.write" => x.kept = "partially_settled"
      \/ /\ eventStatus[e] = "partially_settled"
         /\ \E m, c \in Record :
              /\ stack[w] = <<m>> \o <<c>> /\ serves(c, r, "settle.calculated")
              /\ m.at = "settlement.write" /\ m.kept = "calculated" /\ m.id = s
  BY <1>1 DEF drafted
<1> QED BY <1>4, <1>5, <1>6, <1>7, <1>8

LEMMA Reassociated ==
  \A T : \A p \in Seq(T) : \A x, c : (<<x>> \o p) \o <<c>> = <<x>> \o (p \o <<c>>)
<1> TAKE T
<1> TAKE p \in Seq(T)
<1> TAKE x, c
<1>1. <<x>> \in Seq(T \cup {x, c}) /\ p \in Seq(T \cup {x, c}) /\ <<c>> \in Seq(T \cup {x, c})
  OBVIOUS
<1> QED BY <1>1, ConcatAssociative

\* A record, above others and a last one.
above(x, p, c) == (<<x>> \o p) \o <<c>>

LEMMA AboveLast ==
  ASSUME IInv, NEW w \in Worker, NEW x \in Record, NEW p \in Seq(Record), NEW c \in Record,
         stack[w] = above(x, p, c)
  PROVE  /\ top(w) = x
         /\ \A at : goto(w, at) => goesOn(w, above(moved(x, at), p, c))
         /\ \A v, at : keep(w, v, at) => goesOn(w, above(holding(x, v, at), p, c))
         /\ \A v : return(w, v) /\ p = <<>> => goesOn(w, <<given(c, v)>>)
         /\ \A v : \A h \in Record, u \in Seq(Record) :
              return(w, v) /\ p = <<h>> \o u => goesOn(w, above(given(h, v), u, c))
<1>1. PICK t \in Seq(Record) : t = p \o <<c>>
  <2>1. <<c>> \in Seq(Record)
    OBVIOUS
  <2> QED BY <2>1, JoinTyped
<1>2. \A g : above(g, p, c) = <<g>> \o (p \o <<c>>)
  BY Reassociated DEF above
<1>3. /\ stack[w] = <<x>> \o t
      /\ \A g : <<g>> \o t = above(g, p, c)
  BY <1>1, <1>2
<1>4. /\ top(w) = x
      /\ \A at : goto(w, at) => goesOn(w, <<moved(x, at)>> \o t)
      /\ \A v, at : keep(w, v, at) => goesOn(w, <<holding(x, v, at)>> \o t)
  BY <1>3, Goes
<1>5. ASSUME NEW v, return(w, v), p = <<>> PROVE goesOn(w, <<given(c, v)>>)
  <2>1. t = <<c>>
    BY <1>1, <1>5
  <2>2. stack[w] = <<x>> \o <<c>>
    BY <1>3, <2>1
  <2> QED BY <1>5, <2>2, OverLast
<1>6. ASSUME NEW h \in Record, NEW u \in Seq(Record), NEW v, return(w, v), p = <<h>> \o u
      PROVE  goesOn(w, above(given(h, v), u, c))
  <2>1. PICK k \in Seq(Record) : k = u \o <<c>>
    <3>1. <<c>> \in Seq(Record)
      OBVIOUS
    <3> QED BY <3>1, JoinTyped
  <2>2. stack[w] = <<x>> \o (<<h>> \o k)
    <3>1. (<<h>> \o u) \o <<c>> = <<h>> \o (u \o <<c>>)
      BY Reassociated
    <3>2. t = <<h>> \o k
      BY <1>1, <1>6, <2>1, <3>1
    <3> QED BY <1>3, <3>2
  <2>3. goesOn(w, <<given(h, v)>> \o k)
    BY <1>6, <2>2, ReturnsTo
  <2>4. <<given(h, v)>> \o k = above(given(h, v), u, c)
    <3>1. above(given(h, v), u, c) = <<given(h, v)>> \o (u \o <<c>>)
      BY Reassociated DEF above
    <3> QED BY <2>1, <3>1
  <2> QED BY <2>3, <2>4
<1> QED BY <1>3, <1>4, <1>5, <1>6

\* What is above the request while its allocations are created: a share is pending, or
\* some record has still to create it.  es and as are the events and the allocations.
allotting(x, r, es) ==
  \/ x.at \in CreatePoint /\ x.id \in among(r.rest)
  \/ /\ x.id = EventOf[r.id]
     /\ x.at = "syncEvent" \/ (x.at = "syncEvent.list" /\ x.kept = es[EventOf[r.id]])

allots(q, r, es, as) ==
  /\ \A x \in among(q) : allotting(x, r, es)
  /\ \A a \in among(r.rest) :
       as[a] = "pending" \/ \E x \in among(q) : x.at \in CreatePoint /\ x.id = a

allocating(st, r, es, ss, as) ==
  /\ established(r, es, ss)
  /\ \E q \in Seq(Record), c \in Record :
       /\ st = q \o <<c>>
       /\ allots(q, r, es, as) /\ serves(c, r, "settle.allocated")

LEMMA AllotsReplaced ==
  ASSUME NEW r, NEW es, NEW as, NEW p \in Seq(Record), NEW x \in Record, NEW g \in Record,
         allots(<<x>> \o p, r, es, as), allotting(g, r, es),
         x.at \in CreatePoint => g.at \in CreatePoint /\ g.id = x.id
  PROVE  allots(<<g>> \o p, r, es, as)
<1>1. among(<<x>> \o p) = {x} \cup among(p) /\ among(<<g>> \o p) = {g} \cup among(p)
  BY AmongPut
<1> QED BY <1>1 DEF allots

LEMMA AllotsDropped ==
  ASSUME NEW r, NEW es, NEW as, NEW next, NEW p \in Seq(Record), NEW x \in Record,
         allots(<<x>> \o p, r, es, as),
         \A a \in among(r.rest) : as[a] = "pending" => next[a] = "pending",
         x.at \in CreatePoint /\ x.id \in among(r.rest) => next[x.id] = "pending"
  PROVE  allots(p, r, es, next)
<1>1. among(<<x>> \o p) = {x} \cup among(p)
  BY AmongPut
<1> QED BY <1>1 DEF allots

LEMMA AllocateStep ==
  ASSUME IInv, IInv', NEW w \in Worker, Step(w), NEW r, settleRequest(r),
         calculated(stack[w], r, eventStatus, settlementStatus)
  PROVE  allocating(stack'[w], r, eventStatus', settlementStatus', allocationStatus')
<1>1. PICK s \in Settlement, e \in Event : s = r.id /\ e = EventOf[s]
  BY DEF settleRequest
<1>2. PICK c \in Record : stack[w] = <<c>> /\ serves(c, r, "settle.calculated")
  BY DEF calculated
<1>3. top(w) = c /\ \A q : become(w, q) => goesOn(w, q \o <<>>)
  <2>1. stack[w] = <<c>> \o <<>> /\ <<>> \in Seq(Record)
    BY <1>2
  <2> QED BY <2>1, Goes
<1>4. settleEventWithAllocations(w) /\ c.at = "settle.calculated"
  BY <1>2, <1>3, Running DEF serves
<1>5. PICK rest \in Seq(Allocation) : rest = r.rest
  BY DEF settleRequest
<1>6. PICK k : k = [i \in DOMAIN rest |-> call("createAllocation", rest[i])]
  OBVIOUS
<1>7. PICK x, d : x = call("syncEvent", e) /\ d = moved(c, "settle.allocated")
  OBVIOUS
<1>8. UNCHANGED vars /\ become(w, k \o <<x, d>>)
  <2>1. c.rest = rest /\ c.id = s
    BY <1>1, <1>2, <1>5 DEF serves
  <2> QED BY <1>1, <1>3, <1>4, <1>6, <1>7, <2>1 DEF settleEventWithAllocations, reads, moved
<1>9. x \in Record /\ d \in Record
  <2>1. "syncEvent" \in Point /\ "settle.allocated" \in Point /\ e \in Row
    BY DEF Point, EventPoint, SettlementPoint, SettlePoint, Row
  <2> QED BY <1>7, <2>1, CallTyped DEF Record, moved
<1>10. x.at = "syncEvent" /\ x.id = e /\ serves(d, r, "settle.allocated")
  BY <1>2, <1>7, Fields DEF call, serves
<1>11. k \in Seq(Record) /\ DOMAIN k = DOMAIN rest
  <2>1. \A i \in DOMAIN rest : call("createAllocation", rest[i]) \in Record
    <3>1. "createAllocation" \in Point
      BY DEF Point, AllocationPoint
    <3>2. \A i \in DOMAIN rest : rest[i] \in Row
      BY DEF Row
    <3> QED BY <3>1, <3>2, CallTyped
  <2>2. Len(rest) \in Nat /\ DOMAIN rest = 1..Len(rest)
    OBVIOUS
  <2> QED BY <1>6, <2>1, <2>2, SeqDef
<1>12. PICK q \in Seq(Record) : q = k \o <<x>>
  <2>1. <<x>> \in Seq(Record)
    BY <1>9
  <2> QED BY <1>11, <2>1, JoinTyped
<1>13. stack'[w] = q \o <<d>>
  <2>1. <<x>> \in Seq(Record) /\ <<d>> \in Seq(Record)
    BY <1>9
  <2>2. k \o <<x, d>> = q \o <<d>>
    <3>1. <<x, d>> = <<x>> \o <<d>>
      BY PairPut
    <3>2. (k \o <<x>>) \o <<d>> = k \o (<<x>> \o <<d>>)
      BY <1>11, <2>1, ConcatAssociative
    <3> QED BY <1>12, <3>1, <3>2
  <2>3. q \o <<d>> \in Seq(Record)
    BY <2>1, JoinTyped
  <2>4. (k \o <<x, d>>) \o <<>> = q \o <<d>>
    BY <2>2, <2>3, NothingPut
  <2> QED BY <1>3, <1>8, <2>4 DEF goesOn
<1>14. among(q) = among(k) \cup {x}
  <2>1. <<x>> \in Seq(Record)
    BY <1>9
  <2>2. among(k \o <<x>>) = among(k) \cup among(<<x>>)
    BY <1>11, <2>1, AmongJoined
  <2>3. among(<<x>>) = {x}
    BY AmongOne
  <2> QED BY <1>12, <2>2, <2>3
<1>15. /\ \A y \in among(k) : y.at = "createAllocation" /\ y.id \in among(rest)
       /\ \A a \in among(rest) : \E y \in among(k) : y.at = "createAllocation" /\ y.id = a
  <2>1. \A a : /\ call("createAllocation", a).at = "createAllocation"
               /\ call("createAllocation", a).id = a
    BY DEF call
  <2>2. \A i \in DOMAIN rest : k[i].at = "createAllocation" /\ k[i].id = rest[i]
    BY <1>6, <2>1
  <2> QED BY <1>11, <2>2 DEF among
<1>16. allots(q, r, eventStatus', allocationStatus')
  BY <1>1, <1>5, <1>10, <1>14, <1>15 DEF allots, allotting, CreatePoint
<1>17. established(r, eventStatus', settlementStatus')
  <2>1. eventStatus' = eventStatus /\ settlementStatus' = settlementStatus
    BY <1>8 DEF vars
  <2> QED BY <2>1 DEF calculated
<1> QED BY <1>9, <1>10, <1>12, <1>13, <1>16, <1>17 DEF allocating

\* All the settle request is to do is done.
made(r, es, ss, as) ==
  established(r, es, ss) /\ \A a \in among(r.rest) : as[a] = "pending"

LEMMA AllotsNext ==
  ASSUME IInv, IInv', NEW w \in Worker, NEW r,
         eventStatus' = eventStatus, settlementStatus' = settlementStatus,
         established(r, eventStatus, settlementStatus),
         NEW x \in Record, NEW p \in Seq(Record), NEW c \in Record,
         stack[w] = above(x, p, c), serves(c, r, "settle.allocated"),
         allots(<<x>> \o p, r, eventStatus, allocationStatus)
  PROVE  /\ \A g : /\ goesOn(w, above(g, p, c)) /\ allocationStatus' = allocationStatus
                   /\ allotting(g, r, eventStatus)
                   /\ x.at \in CreatePoint => g.at \in CreatePoint /\ g.id = x.id
                => allocating(stack'[w], r, eventStatus', settlementStatus', allocationStatus')
         /\ \A v : /\ return(w, v)
                   /\ \A a \in among(r.rest) :
                        allocationStatus[a] = "pending" => allocationStatus'[a] = "pending"
                   /\ x.at \in CreatePoint /\ x.id \in among(r.rest)
                        => allocationStatus'[x.id] = "pending"
                => allocating(stack'[w], r, eventStatus', settlementStatus', allocationStatus')
<1>1. ASSUME NEW q \in Seq(Record), NEW d \in Record, stack'[w] = q \o <<d>>,
             allots(q, r, eventStatus, allocationStatus'), serves(d, r, "settle.allocated")
      PROVE  allocating(stack'[w], r, eventStatus', settlementStatus', allocationStatus')
  BY <1>1 DEF allocating
<1>2. ASSUME NEW g, goesOn(w, above(g, p, c)), allocationStatus' = allocationStatus,
             allotting(g, r, eventStatus),
             x.at \in CreatePoint => g.at \in CreatePoint /\ g.id = x.id
      PROVE  allocating(stack'[w], r, eventStatus', settlementStatus', allocationStatus')
  <2>1. PICK t \in Seq(Record) : t = p \o <<c>>
    <3>1. <<c>> \in Seq(Record)
      OBVIOUS
    <3> QED BY <3>1, JoinTyped
  <2>2. g \in Record
    <3>1. above(g, p, c) = <<g>> \o (p \o <<c>>)
      BY Reassociated DEF above
    <3>2. stack'[w] = <<g>> \o t
      BY <1>2, <2>1, <3>1 DEF goesOn
    <3> QED BY <3>2, TopRecord
  <2>3. PICK q \in Seq(Record) : q = <<g>> \o p
    BY <2>2, PushTyped
  <2>4. allots(q, r, eventStatus, allocationStatus)
    <3>1. allots(<<g>> \o p, r, eventStatus, allocationStatus)
      BY <1>2, <2>2, AllotsReplaced
    <3> QED BY <2>3, <3>1
  <2>5. stack'[w] = q \o <<c>>
    BY <1>2, <2>3 DEF goesOn, above
  <2> QED BY <1>1, <1>2, <2>4, <2>5
<1>3. ASSUME NEW v, return(w, v),
             \A a \in among(r.rest) :
               allocationStatus[a] = "pending" => allocationStatus'[a] = "pending",
             x.at \in CreatePoint /\ x.id \in among(r.rest) => allocationStatus'[x.id] = "pending"
      PROVE  allocating(stack'[w], r, eventStatus', settlementStatus', allocationStatus')
  <2>1. PICK next : next = allocationStatus'
    OBVIOUS
  <2>2. allots(p, r, eventStatus, next)
    <3>1. /\ \A a \in among(r.rest) : allocationStatus[a] = "pending" => next[a] = "pending"
          /\ x.at \in CreatePoint /\ x.id \in among(r.rest) => next[x.id] = "pending"
      BY <1>3, <2>1
    <3> QED BY <3>1, AllotsDropped
  <2>3. CASE p = <<>>
    <3>1. PICK d : d = given(c, v)
      OBVIOUS
    <3>2. stack'[w] = <<d>>
      <4>1. goesOn(w, <<given(c, v)>>)
        BY <1>3, <2>3, AboveLast
      <4> QED BY <3>1, <4>1 DEF goesOn
    <3>3. d \in Record /\ serves(d, r, "settle.allocated")
      BY <3>1, <3>2, OneTyped, Fields DEF serves
    <3>4. stack'[w] = p \o <<d>>
      <4>1. <<>> \o <<d>> = <<d>>
        OBVIOUS
      <4> QED BY <2>3, <3>2, <4>1
    <3> QED BY <1>1, <2>1, <2>2, <3>3, <3>4
  <2>4. ASSUME NEW h \in Record, NEW u \in Seq(Record), p = <<h>> \o u
        PROVE  allocating(stack'[w], r, eventStatus', settlementStatus', allocationStatus')
    <3>0. goesOn(w, above(given(h, v), u, c))
      BY <1>3, <2>4, AboveLast
    <3>1. PICK g : g = given(h, v)
      OBVIOUS
    <3>2. g \in Record /\ g.at = h.at /\ g.id = h.id /\ g.kept = h.kept
      <4>1. PICK t \in Seq(Record) : t = u \o <<c>>
        <5>1. <<c>> \in Seq(Record)
          OBVIOUS
        <5> QED BY <5>1, JoinTyped
      <4>2. above(g, u, c) = <<g>> \o (u \o <<c>>)
        BY Reassociated DEF above
      <4>3. stack'[w] = <<g>> \o t
        BY <3>0, <3>1, <4>1, <4>2 DEF goesOn
      <4> QED BY <3>1, <4>3, TopRecord, Fields
    <3>3. PICK q \in Seq(Record) : q = <<g>> \o u
      BY <3>2, PushTyped
    <3>4. allots(q, r, eventStatus, next)
      <4>1. allots(<<h>> \o u, r, eventStatus, next)
        BY <2>2, <2>4
      <4>2. allotting(g, r, eventStatus)
        <5>1. h \in among(<<h>> \o u)
          BY AmongPut
        <5>2. allotting(h, r, eventStatus)
          BY <4>1, <5>1 DEF allots
        <5> QED BY <3>2, <5>2 DEF allotting
      <4>3. allots(<<g>> \o u, r, eventStatus, next)
        BY <3>2, <4>1, <4>2, AllotsReplaced
      <4> QED BY <3>3, <4>3
    <3>5. stack'[w] = q \o <<c>>
      BY <3>0, <3>1, <3>3 DEF goesOn, above
    <3> QED BY <1>1, <2>1, <3>4, <3>5
  <2>5. p # <<>> =>
          Head(p) \in Record /\ Tail(p) \in Seq(Record) /\ p = <<Head(p)>> \o Tail(p)
    BY HeadAndTail
  <2> QED BY <2>3, <2>4, <2>5
<1> QED BY <1>2, <1>3

LEMMA Allocating ==
  ASSUME IInv, IInv', AnswersTyped, NEW w \in Worker, Step(w), NEW r, settleRequest(r),
         allocating(stack[w], r, eventStatus, settlementStatus, allocationStatus)
  PROVE  \/ allocating(stack'[w], r, eventStatus', settlementStatus', allocationStatus')
         \/ Throws(w)
         \/ /\ stack'[w] = <<>> /\ answer'[w].is = "ok"
            /\ made(r, eventStatus', settlementStatus', allocationStatus')
<1>1. PICK s \in Settlement, e \in Event : s = r.id /\ e = EventOf[s]
  BY DEF settleRequest
<1>2. PICK q \in Seq(Record), c \in Record :
        /\ stack[w] = q \o <<c>>
        /\ allots(q, r, eventStatus, allocationStatus) /\ serves(c, r, "settle.allocated")
  BY DEF allocating
<1>3. established(r, eventStatus, settlementStatus)
  BY DEF allocating
<1>4. ASSUME UNCHANGED vars
      PROVE  /\ settlementStatus' = settlementStatus /\ eventStatus' = eventStatus
             /\ allocationStatus' = allocationStatus
  BY <1>4 DEF vars
<1>5. CASE q = <<>>
  <2>1. stack[w] = <<c>>
    <3>1. <<>> \o <<c>> = <<c>>
      OBVIOUS
    <3> QED BY <1>2, <1>5, <3>1
  <2>2. top(w) = c
    BY <2>1 DEF top
  <2>3. settleEventWithAllocations(w) /\ c.at = "settle.allocated"
    BY <1>2, <2>2, Running DEF serves
  <2>4. UNCHANGED vars /\ return(w, "calculated")
    BY <2>2, <2>3 DEF settleEventWithAllocations, reads
  <2>5. stack'[w] = <<>> /\ answer'[w].is = "ok"
    BY <2>1, <2>4, Returns DEF answers
  <2>6. \A a \in among(r.rest) : allocationStatus[a] = "pending"
    BY <1>2, <1>5, AmongNone DEF allots
  <2>7. made(r, eventStatus, settlementStatus, allocationStatus)
    BY <1>3, <2>6 DEF made
  <2> QED BY <1>4, <2>4, <2>5, <2>7
<1>6. ASSUME NEW x \in Record, NEW p \in Seq(Record), q = <<x>> \o p
      PROVE  \/ allocating(stack'[w], r, eventStatus', settlementStatus', allocationStatus')
             \/ Throws(w)
  <2>1. stack[w] = above(x, p, c)
        /\ allots(<<x>> \o p, r, eventStatus, allocationStatus)
    BY <1>2, <1>6 DEF above
  <2>2. /\ top(w) = x
        /\ \A at : goto(w, at) => goesOn(w, above(moved(x, at), p, c))
        /\ \A v, at : keep(w, v, at) => goesOn(w, above(holding(x, v, at), p, c))
    BY <2>1, AboveLast
  <2>3. allotting(x, r, eventStatus)
    <3>1. x \in among(<<x>> \o p)
      BY AmongPut
    <3> QED BY <2>1, <3>1 DEF allots
  <2>4. ASSUME UNCHANGED vars,
               NEW g, goesOn(w, above(g, p, c)), allotting(g, r, eventStatus),
               x.at \in CreatePoint => g.at \in CreatePoint /\ g.id = x.id
        PROVE  allocating(stack'[w], r, eventStatus', settlementStatus', allocationStatus')
    BY <1>2, <1>3, <1>4, <2>1, <2>4, AllotsNext
  <2>5. ASSUME eventStatus' = eventStatus, settlementStatus' = settlementStatus,
               NEW v, return(w, v),
               \A a \in among(r.rest) :
                 allocationStatus[a] = "pending" => allocationStatus'[a] = "pending",
               x.at \in CreatePoint /\ x.id \in among(r.rest)
                 => allocationStatus'[x.id] = "pending"
        PROVE  allocating(stack'[w], r, eventStatus', settlementStatus', allocationStatus')
    BY <1>2, <1>3, <2>1, <2>5, AllotsNext
  <2>6. CASE x.at \in CreatePoint /\ x.id \in among(r.rest)
    <3>1. createPendingAllocation(w)
      BY <2>2, <2>6, Running DEF CreatePoint
    <3>2. PICK a \in Allocation : a = x.id
      BY <2>6, AmongTyped DEF settleRequest
    <3>3. \/ Throws(w)
          \/ UNCHANGED vars /\ goto(w, "createAllocation.participants")
          \/ UNCHANGED vars /\ goto(w, "createAllocation.insert")
          \/ writeAllocation(a, "pending") /\ return(w, "pending")
      BY <2>2, <3>1, <3>2 DEF createPendingAllocation, reads, Throws
    <3>4. \A at \in CreatePoint : allotting(moved(x, at), r, eventStatus)
      BY <2>6, Fields DEF allotting
    <3>5. /\ "createAllocation.participants" \in CreatePoint
          /\ "createAllocation.insert" \in CreatePoint
      BY DEF CreatePoint
    <3>6. ASSUME UNCHANGED vars, NEW at \in CreatePoint, goto(w, at)
          PROVE  allocating(stack'[w], r, eventStatus', settlementStatus', allocationStatus')
      <4>1. PICK g : g = moved(x, at)
        OBVIOUS
      <4>2. goesOn(w, above(g, p, c))
        BY <2>2, <3>6, <4>1
      <4>3. allotting(g, r, eventStatus) /\ g.at \in CreatePoint /\ g.id = x.id
        BY <3>4, <4>1, Fields
      <4> QED BY <2>4, <3>6, <4>2, <4>3
    <3>7. CASE writeAllocation(a, "pending") /\ return(w, "pending")
      <4>1. /\ eventStatus' = eventStatus /\ settlementStatus' = settlementStatus
            /\ allocationStatus' = [allocationStatus EXCEPT ![a] = "pending"]
            /\ allocationStatus \in [Allocation -> Absent(AllocationStatus)]
        BY <3>7 DEF writeAllocation, IInv, Tables, TypeOK
      <4>2. among(r.rest) \subseteq Allocation
        BY AmongTyped DEF settleRequest
      <4>3. /\ \A b \in among(r.rest) :
                 allocationStatus[b] = "pending" => allocationStatus'[b] = "pending"
            /\ allocationStatus'[a] = "pending"
        BY <4>1, <4>2
      <4> QED BY <2>5, <3>2, <3>7, <4>1, <4>3
    <3> QED BY <3>3, <3>5, <3>6, <3>7
  <2>7. CASE x.at = "syncEvent" /\ x.id = e
    <3>1. syncStatus(w)
      BY <2>2, <2>7, Running
    <3>2. /\ UNCHANGED vars
          /\ throw(w, "refused") \/ keep(w, eventStatus[e], "syncEvent.list")
      BY <2>2, <2>7, <3>1 DEF syncStatus, reads
    <3>3. CASE keep(w, eventStatus[e], "syncEvent.list")
      <4>1. PICK g : g = holding(x, eventStatus[e], "syncEvent.list")
        OBVIOUS
      <4>2. goesOn(w, above(g, p, c))
        BY <2>2, <3>3, <4>1
      <4>3. g.at = "syncEvent.list" /\ g.id = e /\ g.kept = eventStatus[e]
        BY <2>7, <4>1, Fields
      <4>4. allotting(g, r, eventStatus)
        BY <1>1, <4>3 DEF allotting
      <4>5. x.at \notin CreatePoint
        BY <2>7 DEF CreatePoint
      <4> QED BY <2>4, <3>2, <4>2, <4>4, <4>5
    <3> QED BY <3>2, <3>3 DEF Throws
  <2>8. CASE x.at = "syncEvent.list" /\ x.id = e /\ x.kept = eventStatus[e]
    <3>1. syncStatus(w)
      BY <2>2, <2>8, Running
    <3>2. x.kept = "partially_settled"
      BY <1>1, <1>3, <2>8 DEF established
    <3>3. SyncedEventStatus("partially_settled", settlementStatus, e) = "partially_settled"
      <4>1. activeSettlements(settlementStatus, e) = {s} /\ settlementStatus[s] # "paid"
        BY <1>1, <1>3 DEF established
      <4> QED BY <4>1, SyncedUnderWay
    <3>4. UNCHANGED vars /\ return(w, "partially_settled")
      BY <2>2, <2>8, <3>1, <3>2, <3>3 DEF syncStatus, reads
    <3>5. x.at \notin CreatePoint
      BY <2>8 DEF CreatePoint
    <3> QED BY <1>4, <2>5, <3>4, <3>5
  <2> QED BY <1>1, <2>3, <2>6, <2>7, <2>8 DEF allotting
<1>7. CASE q # <<>>
  <2>1. Head(q) \in Record /\ Tail(q) \in Seq(Record) /\ q = <<Head(q)>> \o Tail(q)
    BY <1>7, HeadAndTail
  <2> QED BY <1>6, <2>1
<1> QED BY <1>5, <1>7

-------------------------------------------------------------------------------
(* The rollback.  The settlement is cancelled, its event synchronised, and  *)
(* the error kept is answered, or what the client is told in place of it.   *)

Thrown == {"refused", "failed"}

rollingBack(st, r, es, ss) ==
  /\ established(r, es, ss)
  /\ \E c \in Record :
       st = <<c>> /\ c.at = "settle.rollback" /\ c.id = r.id /\ c.got \in Thrown

\* x cancels the settlement s, which is calculated.
cancels(x, s) ==
  /\ x.id = s
  /\ \/ x.at = "cancelSettlement"
     \/ x.at = "cancelSettlement.list" /\ x.kept = "calculated"
     \/ x.at = "settlement.write" /\ x.kept = "cancelled"

withdrawn(r, ss) ==
  ss[r.id] = "cancelled" /\ activeSettlements(ss, EventOf[r.id]) = {}

cancelling(st, r, es, ss) ==
  LET e == EventOf[r.id]
  IN  \E c \in Record :
        /\ c.at = "settle.cancelled" /\ c.id = r.id /\ c.kept \in Thrown
        /\ \/ /\ established(r, es, ss)
              /\ \E x \in Record : st = <<x>> \o <<c>> /\ cancels(x, r.id)
           \/ /\ withdrawn(r, ss) /\ es[e] = "partially_settled"
              /\ \E x \in Record :
                   /\ st = <<x>> \o <<c>> /\ syncing(x, e, es[e])
                   /\ x.at = "event.write" => x.kept = "ready_for_settlement"
           \/ withdrawn(r, ss) /\ es[e] = "ready_for_settlement" /\ st = <<c>>

resyncing(st, r) ==
  \E c \in Record : st = <<c>> /\ c.at = "settle.resync" /\ c.id = r.id /\ c.kept \in Thrown

\* The settlement is cancelled, no other is under way, and the event is ready.
rolledBack(r, es, ss) == withdrawn(r, ss) /\ es[EventOf[r.id]] = "ready_for_settlement"

resynced(st, r, es, ss) ==
  LET e == EventOf[r.id]
  IN  \E c \in Record :
        /\ c.at = "settle.resynced" /\ c.id = r.id
        /\ \/ /\ c.kept \in Thrown
              /\ \/ st = <<c>>
                 \/ \E x \in Record : st = <<x>> \o <<c>> /\ x.at \in EventSync /\ x.id = e
           \/ /\ c.kept = "rolled back" /\ rolledBack(r, es, ss)
              /\ \/ st = <<c>>
                 \/ \E x \in Record :
                      /\ st = <<x>> \o <<c>> /\ syncing(x, e, es[e]) /\ x.at # "event.write"

\* What the stack of a settle request may be, by what the tables are.
settling(st, r, es, ss, as) ==
  \/ asking(st, r, ss)
  \/ undrafted(st, r, es, ss) \/ drafted(st, r, es, ss) \/ calculated(st, r, es, ss)
  \/ allocating(st, r, es, ss, as)
  \/ rollingBack(st, r, es, ss) \/ cancelling(st, r, es, ss)
  \/ resyncing(st, r) \/ resynced(st, r, es, ss)

LEMMA Calls ==
  ASSUME IInv, IInv', NEW w \in Worker, NEW c \in Record, stack[w] = <<c>>,
         NEW x, NEW d, become(w, <<x, d>>)
  PROVE  stack'[w] = <<x>> \o <<d>> /\ x \in Record /\ d \in Record
<1>1. \A q : become(w, q) => goesOn(w, q \o <<>>)
  <2>1. stack[w] = <<c>> \o <<>> /\ <<>> \in Seq(Record)
    OBVIOUS
  <2> QED BY <2>1, Goes
<1>2. <<x, d>> \o <<>> = <<x, d>> /\ <<x, d>> = <<x>> \o <<d>>
  <2>1. <<x, d>> \in Seq({x, d})
    OBVIOUS
  <2> QED BY <2>1, NothingPut, PairPut
<1>3. stack'[w] = <<x, d>>
  BY <1>1, <1>2 DEF goesOn
<1>4. <<x, d>> \in Seq(Record)
  <2>1. stack'[w] \in Seq(Record)
    BY NextStacksTyped
  <2> QED BY <1>3, <2>1
<1>5. x \in Record /\ d \in Record
  <2>1. 1 \in DOMAIN <<x, d>> /\ 2 \in DOMAIN <<x, d>>
    OBVIOUS
  <2>2. <<x, d>>[1] \in Record /\ <<x, d>>[2] \in Record
    BY <1>4, <2>1, ElementOfSeq
  <2> QED BY <2>2
<1> QED BY <1>2, <1>3, <1>5

LEMMA StartsRollback ==
  ASSUME IInv, IInv', NEW w \in Worker, Step(w), NEW r, settleRequest(r),
         rollingBack(stack[w], r, eventStatus, settlementStatus)
  PROVE  cancelling(stack'[w], r, eventStatus', settlementStatus')
<1>1. PICK c \in Record :
        stack[w] = <<c>> /\ c.at = "settle.rollback" /\ c.id = r.id /\ c.got \in Thrown
  BY DEF rollingBack
<1>2. top(w) = c
  BY <1>1 DEF top
<1>3. rollbackSettlementFailure(w)
  BY <1>1, <1>2, Running
<1>4. PICK x, d : x = call("cancelSettlement", c.id) /\ d = holding(c, c.got, "settle.cancelled")
  OBVIOUS
<1>5. UNCHANGED vars /\ become(w, <<x, d>>)
  BY <1>1, <1>2, <1>3, <1>4 DEF rollbackSettlementFailure, reads, holding
<1>6. stack'[w] = <<x>> \o <<d>> /\ x \in Record /\ d \in Record
  BY <1>1, <1>5, Calls
<1>7. cancels(x, r.id) /\ d.at = "settle.cancelled" /\ d.id = r.id /\ d.kept \in Thrown
  BY <1>1, <1>4, Fields DEF call, cancels
<1>8. established(r, eventStatus', settlementStatus')
  BY <1>5 DEF rollingBack, vars
<1> QED BY <1>6, <1>7, <1>8 DEF cancelling

LEMMA CancelStep ==
  ASSUME IInv, IInv', NEW w \in Worker, Step(w), NEW r, settleRequest(r),
         established(r, eventStatus, settlementStatus),
         NEW x \in Record, NEW c \in Record, stack[w] = <<x>> \o <<c>>, cancels(x, r.id),
         c.at = "settle.cancelled", c.id = r.id, c.kept \in Thrown
  PROVE  cancelling(stack'[w], r, eventStatus', settlementStatus') \/ Throws(w)
<1>1. PICK s \in Settlement, e \in Event : s = r.id /\ e = EventOf[s] /\ e # NoEvent
  BY ForeignKeys DEF settleRequest
<1>2. /\ top(w) = x
      /\ \A g : become(w, <<g>>) => goesOn(w, <<g>> \o <<c>>)
      /\ \A v, at : keep(w, v, at) => goesOn(w, <<holding(x, v, at)>> \o <<c>>)
  BY OverLast
<1>3. x.id = s /\ settlementStatus[s] = "calculated"
      /\ activeSettlements(settlementStatus, e) = {s} /\ eventStatus[e] = "partially_settled"
  BY <1>1 DEF cancels, established
<1>4. <<c>> \in Seq(Record)
  OBVIOUS
<1>5. ASSUME UNCHANGED vars, NEW v, NEW at, keep(w, v, at),
             \/ at = "cancelSettlement.list" /\ v = "calculated"
             \/ at = "settlement.write" /\ v = "cancelled"
      PROVE  cancelling(stack'[w], r, eventStatus', settlementStatus')
  <2>1. PICK g : g = holding(x, v, at)
    OBVIOUS
  <2>2. stack'[w] = <<g>> \o <<c>>
    BY <1>2, <1>5, <2>1 DEF goesOn
  <2>3. g \in Record
    BY <1>4, <2>2, TopRecord
  <2>4. g.at = at /\ g.kept = v /\ g.id = s
    BY <1>3, <2>1, Fields
  <2>5. cancels(g, r.id)
    BY <1>1, <1>5, <2>4 DEF cancels
  <2>6. established(r, eventStatus', settlementStatus')
    BY <1>5 DEF vars
  <2> QED BY <2>2, <2>3, <2>5, <2>6 DEF cancelling
<1>6. CASE x.at = "cancelSettlement"
  <2>1. cancelSettlement(w)
    BY <1>2, <1>6, Running
  <2>2. /\ UNCHANGED vars
        /\ throw(w, "refused") \/ keep(w, "calculated", "cancelSettlement.list")
    BY <1>2, <1>3, <1>6, <2>1 DEF cancelSettlement, reads
  <2> QED BY <1>5, <2>2 DEF Throws
<1>7. CASE x.at = "cancelSettlement.list"
  <2>1. cancelSettlement(w)
    BY <1>2, <1>7, Running
  <2>2. /\ UNCHANGED vars
        /\ throw(w, "refused") \/ keep(w, "cancelled", "settlement.write")
    BY <1>2, <1>7, <2>1 DEF cancelSettlement, reads
  <2> QED BY <1>5, <2>2 DEF Throws
<1>8. CASE x.at = "settlement.write"
  <2>1. writeSettlementStatus(w) /\ x.kept = "cancelled"
    BY <1>2, <1>8, Running DEF cancels
  <2>2. PICK g : g = call("syncEvent", e)
    OBVIOUS
  <2>3. writeSettlement(s, "cancelled") /\ become(w, <<g>>)
    BY <1>1, <1>2, <1>3, <2>1, <2>2 DEF writeSettlementStatus
  <2>4. stack'[w] = <<g>> \o <<c>>
    BY <1>2, <2>3 DEF goesOn
  <2>5. g \in Record
    BY <1>4, <2>4, TopRecord
  <2>6. setSettlement(s, "cancelled") /\ eventStatus' = eventStatus
    BY <2>3 DEF writeSettlement
  <2>7. /\ settlementStatus'[s] = "cancelled"
        /\ activeSettlements(settlementStatus', EventOf[s]) = {}
    <3>1. activeSettlements(settlementStatus, EventOf[s]) \subseteq {s}
      BY <1>1, <1>3
    <3> QED BY <2>6, <3>1, NoLongerActive
  <2>8. withdrawn(r, settlementStatus')
    BY <1>1, <2>7 DEF withdrawn
  <2>9. syncing(g, e, "partially_settled") /\ g.at # "event.write"
    BY <2>2 DEF syncing, call, EventSync
  <2>10. eventStatus'[EventOf[r.id]] = "partially_settled"
    BY <1>1, <1>3, <2>6
  <2>11. /\ syncing(g, EventOf[r.id], eventStatus'[EventOf[r.id]])
         /\ g.at = "event.write" => g.kept = "ready_for_settlement"
    BY <1>1, <2>9, <2>10
  <2> QED BY <2>4, <2>5, <2>8, <2>10, <2>11 DEF cancelling
<1> QED BY <1>6, <1>7, <1>8 DEF cancels

LEMMA CancelSyncStep ==
  ASSUME IInv, IInv', NEW w \in Worker, Step(w), NEW r, settleRequest(r),
         withdrawn(r, settlementStatus), eventStatus[EventOf[r.id]] = "partially_settled",
         NEW x \in Record, NEW c \in Record, stack[w] = <<x>> \o <<c>>,
         syncing(x, EventOf[r.id], eventStatus[EventOf[r.id]]),
         x.at = "event.write" => x.kept = "ready_for_settlement",
         c.at = "settle.cancelled", c.id = r.id, c.kept \in Thrown
  PROVE  cancelling(stack'[w], r, eventStatus', settlementStatus') \/ Throws(w)
<1>1. PICK e \in Event : e = EventOf[r.id]
  BY DEF settleRequest
<1>2. /\ x.at \in EventSync /\ x.id = e /\ eventStatus[e] = "partially_settled"
      /\ x.at = "syncEvent.list" => x.kept = "partially_settled"
  BY <1>1 DEF syncing
<1>3. SyncedEventStatus("partially_settled", settlementStatus, e) = "ready_for_settlement"
  <2>1. activeSettlements(settlementStatus, e) = {}
    BY <1>1 DEF withdrawn
  <2> QED BY <2>1, SyncedWithoutAny
<1>4. <<c>> \in Seq(Record)
  OBVIOUS
<1>5. \/ throw(w, "refused") /\ UNCHANGED vars
      \/ /\ UNCHANGED vars
         /\ goesOn(w, <<holding(x, "partially_settled", "syncEvent.list")>> \o <<c>>)
      \/ /\ UNCHANGED vars
         /\ goesOn(w, <<holding(x, "ready_for_settlement", "event.write")>> \o <<c>>)
      \/ writeEvent(e, "ready_for_settlement") /\ goesOn(w, <<given(c, x.kept)>>)
  <2>1. PICK next : next = SyncedEventStatus(x.kept, settlementStatus, e)
    OBVIOUS
  <2>2. \/ throw(w, "refused") /\ UNCHANGED vars
        \/ /\ UNCHANGED vars
           /\ goesOn(w, <<holding(x, eventStatus[e], "syncEvent.list")>> \o <<c>>)
        \/ /\ x.at = "syncEvent.list" /\ UNCHANGED vars
           /\ next = x.kept \/ goesOn(w, <<holding(x, next, "event.write")>> \o <<c>>)
        \/ /\ x.at = "event.write" /\ writeEvent(e, x.kept)
           /\ goesOn(w, <<given(c, x.kept)>>)
    BY <1>2, <2>1, EventSyncLast
  <2>3. x.at = "syncEvent.list" => next = "ready_for_settlement" /\ next # x.kept
    BY <1>2, <1>3, <2>1
  <2> QED BY <1>2, <2>2, <2>3
<1>6. ASSUME UNCHANGED vars, NEW v, NEW at, goesOn(w, <<holding(x, v, at)>> \o <<c>>),
             \/ at = "syncEvent.list" /\ v = "partially_settled"
             \/ at = "event.write" /\ v = "ready_for_settlement"
      PROVE  cancelling(stack'[w], r, eventStatus', settlementStatus')
  <2>1. PICK g : g = holding(x, v, at)
    OBVIOUS
  <2>2. stack'[w] = <<g>> \o <<c>>
    BY <1>6, <2>1 DEF goesOn
  <2>3. g \in Record
    BY <1>4, <2>2, TopRecord
  <2>4. g.at = at /\ g.kept = v /\ g.id = e
    BY <1>2, <2>1, Fields
  <2>5. eventStatus' = eventStatus /\ settlementStatus' = settlementStatus
    BY <1>6 DEF vars
  <2>6. /\ syncing(g, EventOf[r.id], eventStatus'[EventOf[r.id]])
        /\ g.at = "event.write" => g.kept = "ready_for_settlement"
    BY <1>1, <1>2, <1>6, <2>4, <2>5 DEF syncing, EventSync
  <2> QED BY <2>2, <2>3, <2>5, <2>6 DEF cancelling
<1>7. CASE writeEvent(e, "ready_for_settlement") /\ goesOn(w, <<given(c, x.kept)>>)
  <2>1. PICK g : g = given(c, x.kept)
    OBVIOUS
  <2>2. stack'[w] = <<g>>
    BY <1>7, <2>1 DEF goesOn
  <2>3. g \in Record /\ g.at = "settle.cancelled" /\ g.id = r.id /\ g.kept \in Thrown
    BY <2>1, <2>2, OneTyped, Fields
  <2>4. settlementStatus' = settlementStatus /\ eventStatus'[e] = "ready_for_settlement"
    BY <1>7 DEF writeEvent, IInv, Tables, TypeOK
  <2>5. eventStatus'[EventOf[r.id]] = "ready_for_settlement"
    BY <1>1, <2>4
  <2> QED BY <2>2, <2>3, <2>4, <2>5 DEF cancelling
<1> QED BY <1>5, <1>6, <1>7 DEF Throws

LEMMA CancelledStep ==
  ASSUME IInv, IInv', NEW w \in Worker, Step(w), NEW r, settleRequest(r),
         rolledBack(r, eventStatus, settlementStatus),
         NEW c \in Record, stack[w] = <<c>>,
         c.at = "settle.cancelled", c.id = r.id, c.kept \in Thrown
  PROVE  resynced(stack'[w], r, eventStatus', settlementStatus')
<1>1. PICK e \in Event : e = EventOf[r.id]
  BY DEF settleRequest
<1>2. top(w) = c
  BY DEF top
<1>3. rollbackSettlementFailure(w)
  BY <1>2, Running
<1>4. PICK x, d : /\ x = call("syncEvent", e)
                  /\ d = [[c EXCEPT !.at = "settle.resynced"]
                            EXCEPT !.kept = IF @ = "failed" THEN "rolled back" ELSE @]
  OBVIOUS
<1>5. UNCHANGED vars /\ become(w, <<x, d>>)
  BY <1>1, <1>2, <1>3, <1>4 DEF rollbackSettlementFailure, reads
<1>6. stack'[w] = <<x>> \o <<d>> /\ x \in Record /\ d \in Record
  BY <1>5, Calls
<1>7. /\ x.at = "syncEvent" /\ x.id = e
      /\ d.at = "settle.resynced" /\ d.id = r.id
      /\ d.kept \in Thrown \/ d.kept = "rolled back"
  BY <1>4 DEF call, Record, Thrown
<1>8. rolledBack(r, eventStatus', settlementStatus')
  BY <1>5 DEF vars
<1>9. /\ syncing(x, EventOf[r.id], eventStatus'[EventOf[r.id]]) /\ x.at # "event.write"
      /\ x.at \in EventSync /\ x.id = EventOf[r.id]
  BY <1>1, <1>7 DEF syncing, EventSync
<1> QED BY <1>6, <1>7, <1>8, <1>9 DEF resynced

LEMMA ResyncStep ==
  ASSUME IInv, IInv', NEW w \in Worker, Step(w), NEW r, settleRequest(r), resyncing(stack[w], r)
  PROVE  resynced(stack'[w], r, eventStatus', settlementStatus')
<1>1. PICK e \in Event : e = EventOf[r.id]
  BY DEF settleRequest
<1>2. PICK c \in Record :
        stack[w] = <<c>> /\ c.at = "settle.resync" /\ c.id = r.id /\ c.kept \in Thrown
  BY DEF resyncing
<1>3. top(w) = c
  BY <1>2 DEF top
<1>4. rollbackSettlementFailure(w)
  BY <1>2, <1>3, Running
<1>5. PICK x, d : x = call("syncEvent", e) /\ d = moved(c, "settle.resynced")
  OBVIOUS
<1>6. become(w, <<x, d>>)
  BY <1>1, <1>2, <1>3, <1>4, <1>5 DEF rollbackSettlementFailure, moved
<1>7. stack'[w] = <<x>> \o <<d>> /\ x \in Record /\ d \in Record
  BY <1>2, <1>6, Calls
<1>8. /\ d.at = "settle.resynced" /\ d.id = r.id /\ d.kept \in Thrown
      /\ x.at \in EventSync /\ x.id = EventOf[r.id]
  BY <1>1, <1>2, <1>5, Fields DEF call, EventSync
<1> QED BY <1>7, <1>8 DEF resynced

\* The last synchronisation can do no harm: the answer is an error anyway, or the
\* event has the status it is to have.
LEMMA ResyncedStep ==
  ASSUME IInv, IInv', AnswersTyped, NEW w \in Worker, Step(w), NEW r, settleRequest(r),
         resynced(stack[w], r, eventStatus, settlementStatus)
  PROVE  \/ resynced(stack'[w], r, eventStatus', settlementStatus')
         \/ Throws(w)
         \/ Refused(w)
         \/ /\ stack'[w] = <<>> /\ answer'[w].is = "rolled back"
            /\ rolledBack(r, eventStatus', settlementStatus')
<1>1. PICK e \in Event : e = EventOf[r.id]
  BY DEF settleRequest
<1>2. PICK c \in Record :
        /\ c.at = "settle.resynced" /\ c.id = r.id
        /\ \/ /\ c.kept \in Thrown
              /\ \/ stack[w] = <<c>>
                 \/ \E x \in Record :
                      stack[w] = <<x>> \o <<c>> /\ x.at \in EventSync /\ x.id = e
           \/ /\ c.kept = "rolled back" /\ rolledBack(r, eventStatus, settlementStatus)
              /\ \/ stack[w] = <<c>>
                 \/ \E x \in Record :
                      /\ stack[w] = <<x>> \o <<c>> /\ syncing(x, e, eventStatus[e])
                      /\ x.at # "event.write"
  BY <1>1 DEF resynced
<1>3. c.at = "settle.resynced" /\ c.id = r.id
  BY <1>2
<1>4. UNCHANGED vars /\ rolledBack(r, eventStatus, settlementStatus)
        => rolledBack(r, eventStatus', settlementStatus')
  BY DEF vars
<1>5. <<c>> \in Seq(Record)
  OBVIOUS
<1>6. CASE stack[w] = <<c>>
  <2>1. top(w) = c
    BY <1>6 DEF top
  <2>2. rollbackSettlementFailure(w)
    BY <1>2, <2>1, Running
  <2>3. /\ UNCHANGED vars
        /\ stack' = [stack EXCEPT ![w] = <<>>]
        /\ answer' = [answer EXCEPT ![w].is = c.kept]
    BY <1>2, <2>1, <2>2 DEF rollbackSettlementFailure, reads
  <2>4. stack'[w] = <<>> /\ answer'[w].is = c.kept
    BY <2>3, Answers DEF answers
  <2> QED BY <1>2, <1>4, <2>3, <2>4 DEF Refused, Thrown
<1>7. ASSUME c.kept \in Thrown, NEW x \in Record, stack[w] = <<x>> \o <<c>>,
             x.at \in EventSync, x.id = e
      PROVE  resynced(stack'[w], r, eventStatus', settlementStatus') \/ Throws(w)
  <2>1. ASSUME NEW v, NEW at \in EventSync, goesOn(w, <<holding(x, v, at)>> \o <<c>>)
        PROVE  resynced(stack'[w], r, eventStatus', settlementStatus')
    <3>1. PICK g : g = holding(x, v, at)
      OBVIOUS
    <3>2. stack'[w] = <<g>> \o <<c>>
      BY <2>1, <3>1 DEF goesOn
    <3>3. g \in Record
      BY <1>5, <3>2, TopRecord
    <3>4. g.at \in EventSync /\ g.id = EventOf[r.id]
      BY <1>1, <1>7, <2>1, <3>1, Fields
    <3> QED BY <1>2, <1>7, <3>2, <3>3, <3>4 DEF resynced
  <2>2. ASSUME NEW v, goesOn(w, <<given(c, v)>>)
        PROVE  resynced(stack'[w], r, eventStatus', settlementStatus')
    <3>1. PICK g : g = given(c, v)
      OBVIOUS
    <3>2. stack'[w] = <<g>>
      BY <2>2, <3>1 DEF goesOn
    <3>3. g \in Record
      BY <3>2, OneTyped
    <3>4. g.at = c.at /\ g.id = c.id /\ g.kept = c.kept
      BY <3>1, Fields
    <3> QED BY <1>7, <1>3, <3>2, <3>3, <3>4 DEF resynced
  <2>3. PICK next : next = SyncedEventStatus(x.kept, settlementStatus, e)
    OBVIOUS
  <2>4. \/ throw(w, "refused") /\ UNCHANGED vars
        \/ goesOn(w, <<holding(x, eventStatus[e], "syncEvent.list")>> \o <<c>>)
        \/ goesOn(w, <<given(c, x.kept)>>)
        \/ goesOn(w, <<holding(x, next, "event.write")>> \o <<c>>)
    BY <1>7, <2>3, EventSyncLast
  <2>5. "syncEvent.list" \in EventSync /\ "event.write" \in EventSync
    BY DEF EventSync
  <2> QED BY <2>1, <2>2, <2>4, <2>5 DEF Throws
<1>8. ASSUME c.kept = "rolled back", rolledBack(r, eventStatus, settlementStatus),
             NEW x \in Record, stack[w] = <<x>> \o <<c>>,
             syncing(x, e, eventStatus[e]), x.at # "event.write"
      PROVE  resynced(stack'[w], r, eventStatus', settlementStatus') \/ Throws(w)
  <2>1. x.at \in EventSync /\ x.id = e /\ (x.at = "syncEvent.list" => x.kept = eventStatus[e])
    BY <1>8 DEF syncing
  <2>2. PICK next : next = SyncedEventStatus(x.kept, settlementStatus, e)
    OBVIOUS
  <2>3. x.at = "syncEvent.list" => next = x.kept
    <3>1. /\ activeSettlements(settlementStatus, e) = {}
          /\ eventStatus[e] = "ready_for_settlement"
      BY <1>1, <1>8 DEF rolledBack, withdrawn
    <3>2. SyncedEventStatus("ready_for_settlement", settlementStatus, e) = "ready_for_settlement"
      BY <3>1, SyncedWithoutAny
    <3> QED BY <2>1, <2>2, <3>1, <3>2
  <2>4. /\ UNCHANGED vars
        /\ \/ throw(w, "refused")
           \/ goesOn(w, <<holding(x, eventStatus[e], "syncEvent.list")>> \o <<c>>)
           \/ goesOn(w, <<given(c, x.kept)>>)
    <3>1. \/ throw(w, "refused") /\ UNCHANGED vars
          \/ /\ UNCHANGED vars
             /\ goesOn(w, <<holding(x, eventStatus[e], "syncEvent.list")>> \o <<c>>)
          \/ /\ x.at = "syncEvent.list" /\ UNCHANGED vars
             /\ next # x.kept \/ goesOn(w, <<given(c, x.kept)>>)
      BY <1>8, <2>1, <2>2, EventSyncLast
    <3> QED BY <2>3, <3>1
  <2>5. rolledBack(r, eventStatus', settlementStatus') /\ eventStatus' = eventStatus
    BY <1>4, <1>8, <2>4 DEF vars
  <2>6. CASE goesOn(w, <<holding(x, eventStatus[e], "syncEvent.list")>> \o <<c>>)
    <3>1. PICK g : g = holding(x, eventStatus[e], "syncEvent.list")
      OBVIOUS
    <3>2. stack'[w] = <<g>> \o <<c>>
      BY <2>6, <3>1 DEF goesOn
    <3>3. g \in Record
      BY <1>5, <3>2, TopRecord
    <3>4. g.at = "syncEvent.list" /\ g.id = e /\ g.kept = eventStatus[e]
      BY <2>1, <3>1, Fields
    <3>5. syncing(g, EventOf[r.id], eventStatus'[EventOf[r.id]]) /\ g.at # "event.write"
      BY <1>1, <2>5, <3>4 DEF syncing, EventSync
    <3> QED BY <1>2, <1>8, <2>5, <3>2, <3>3, <3>5 DEF resynced
  <2>7. CASE goesOn(w, <<given(c, x.kept)>>)
    <3>1. PICK g : g = given(c, x.kept)
      OBVIOUS
    <3>2. stack'[w] = <<g>>
      BY <2>7, <3>1 DEF goesOn
    <3>3. g \in Record
      BY <3>2, OneTyped
    <3>4. g.at = c.at /\ g.id = c.id /\ g.kept = c.kept
      BY <3>1, Fields
    <3> QED BY <1>8, <1>3, <2>5, <3>2, <3>3, <3>4 DEF resynced
  <2> QED BY <2>4, <2>6, <2>7 DEF Throws
<1> QED BY <1>2, <1>6, <1>7, <1>8

-------------------------------------------------------------------------------
(* An error within the settle request, and all of its steps.                *)

\* c is the last record, and the only one that catches an error.
catches(s, c) ==
  /\ c.at \in DOMAIN catch
  /\ s = <<c>> \/ \E x \in Record : s = <<x>> \o <<c>> /\ x.at \notin DOMAIN catch

\* Where an error is caught, only the last record is left.
LEMMA LastCatches ==
  ASSUME IInv, IInv', AnswersTyped, NEW w \in Worker, NEW c \in Record, catches(stack[w], c),
         NEW error, throw(w, error)
  PROVE  stack'[w] = <<caught(c, error)>> /\ caught(c, error) \in Record
<1>1. \E q \in Seq(Record) : stack[w] = q \o <<c>> /\ \A x \in among(q) : x.at \notin DOMAIN catch
  <2>1. CASE stack[w] = <<c>>
    <3>1. stack[w] = <<>> \o <<c>>
      BY <2>1
    <3>2. \A x \in among(<<>>) : x.at \notin DOMAIN catch
      BY AmongNone
    <3>3. <<>> \in Seq(Record)
      OBVIOUS
    <3> QED BY <3>1, <3>2, <3>3
  <2>2. ASSUME NEW x \in Record, stack[w] = <<x>> \o <<c>>, x.at \notin DOMAIN catch
        PROVE  \E q \in Seq(Record) :
                 stack[w] = q \o <<c>> /\ \A y \in among(q) : y.at \notin DOMAIN catch
    <3>1. <<x>> \in Seq(Record)
      OBVIOUS
    <3> QED BY <2>2, <3>1, AmongOne
  <2> QED BY <2>1, <2>2 DEF catches
<1>2. c.at \in DOMAIN catch
  BY DEF catches
<1>3. goesOn(w, <<caught(c, error)>>)
  BY <1>1, <1>2, ThrowsDown
<1>4. stack'[w] = <<caught(c, error)>>
  BY <1>3 DEF goesOn
<1> QED BY <1>4, OneTyped

LEMMA AskingUncaught ==
  ASSUME NEW st, NEW r, NEW ss, asking(st, r, ss)
  PROVE  Uncaught(st)
<1>1. \A at \in {"settle", "settle.list", "syncEvent", "syncEvent.list", "event.write"} :
        at \notin DOMAIN catch
  BY DEF catch
<1>2. PICK c \in Record :
        \/ st = <<c>> /\ (serves(c, r, "settle") \/ serves(c, r, "settle.list"))
        \/ /\ serves(c, r, "settle.list")
           /\ \E x \in Record :
                x.at \in EventSync /\ x.id = EventOf[r.id] /\ st = <<x>> \o <<c>>
  BY DEF asking
<1>3. c.at \notin DOMAIN catch
  BY <1>1, <1>2 DEF serves
<1>4. <<c>> \in Seq(Record) /\ Uncaught(<<c>>)
  BY <1>3, UncaughtOne
<1>5. ASSUME NEW x \in Record, x.at \in EventSync, st = <<x>> \o <<c>>
      PROVE  Uncaught(st)
  <2>1. x.at \notin DOMAIN catch
    BY <1>1, <1>5 DEF EventSync
  <2> QED BY <1>4, <1>5, <2>1, UncaughtPut
<1> QED BY <1>2, <1>4, <1>5

LEMMA UndraftedUncaught ==
  ASSUME NEW st, NEW r, NEW es, NEW ss, undrafted(st, r, es, ss)
  PROVE  Uncaught(st)
<1>1. \A at \in {"settleEvent.ready", "createDraft.insert", "syncEvent", "syncEvent.list",
                 "event.write", "markReady"} : at \notin DOMAIN catch
  BY DEF catch
<1>2. PICK t \in Seq(Record) :
        calculating(t, r) /\ drafting(st, t, r.id, EventOf[r.id], es[EventOf[r.id]])
  BY DEF undrafted
<1>3. Uncaught(t)
  BY <1>2, CalculatingUncaught
<1>4. ASSUME NEW y \in Record, st = <<y>> \o t, y.at \in {"settleEvent.ready", "createDraft.insert"}
      PROVE  Uncaught(st)
  BY <1>1, <1>3, <1>4, UncaughtPut
<1>5. ASSUME NEW x \in Record, NEW y \in Record, st = <<x>> \o (<<y>> \o t), x.at \in EventSync,
             y.at \in {"settleEvent.ready", "createDraft.insert"}
      PROVE  Uncaught(st)
  <2>1. Uncaught(<<y>> \o t)
    BY <1>1, <1>3, <1>5, UncaughtPut
  <2>2. <<y>> \o t \in Seq(Record)
    OBVIOUS
  <2>3. x.at \notin DOMAIN catch
    BY <1>1, <1>5 DEF EventSync
  <2> QED BY <1>5, <2>1, <2>2, <2>3, UncaughtPut
<1>6. ASSUME NEW x \in Record, NEW y \in Record, NEW z \in Record,
             st = <<x>> \o (<<y>> \o (<<z>> \o t)), x.at \in {"markReady", "event.write"},
             y.at = "syncEvent", z.at = "createDraft.insert"
      PROVE  Uncaught(st)
  <2>1. Uncaught(<<z>> \o t)
    BY <1>1, <1>3, <1>6, UncaughtPut
  <2>2. <<z>> \o t \in Seq(Record)
    OBVIOUS
  <2>3. Uncaught(<<y>> \o (<<z>> \o t))
    BY <1>1, <1>6, <2>1, <2>2, UncaughtPut
  <2>4. <<y>> \o (<<z>> \o t) \in Seq(Record)
    BY <2>2
  <2> QED BY <1>1, <1>6, <2>3, <2>4, UncaughtPut
<1> QED BY <1>2, <1>4, <1>5, <1>6 DEF drafting, syncing

LEMMA DraftedUncaught ==
  ASSUME NEW st, NEW r, NEW es, NEW ss, drafted(st, r, es, ss)
  PROVE  Uncaught(st)
<1>1. \A at \in {"createDraft.trust", "syncEvent", "syncEvent.list", "event.write",
                 "settlement.write", "settle.calculated"} : at \notin DOMAIN catch
  BY DEF catch
<1>2. ASSUME NEW t \in Seq(Record), calculating(t, r), st = t
      PROVE  Uncaught(st)
  BY <1>2, CalculatingUncaught
<1>3. ASSUME NEW t \in Seq(Record), calculating(t, r), NEW y \in Record, st = <<y>> \o t,
             y.at = "createDraft.trust"
      PROVE  Uncaught(st)
  <2>1. Uncaught(t)
    BY <1>3, CalculatingUncaught
  <2> QED BY <1>1, <1>3, <2>1, UncaughtPut
<1>4. ASSUME NEW t \in Seq(Record), calculating(t, r), NEW x \in Record, NEW y \in Record,
             st = <<x>> \o (<<y>> \o t), y.at = "createDraft.trust", x.at \in EventSync
      PROVE  Uncaught(st)
  <2>1. Uncaught(t)
    BY <1>4, CalculatingUncaught
  <2>2. Uncaught(<<y>> \o t)
    BY <1>1, <1>4, <2>1, UncaughtPut
  <2>3. <<y>> \o t \in Seq(Record)
    OBVIOUS
  <2>4. x.at \notin DOMAIN catch
    BY <1>1, <1>4 DEF EventSync
  <2> QED BY <1>4, <2>2, <2>3, <2>4, UncaughtPut
<1>5. ASSUME NEW m \in Record, NEW c \in Record, st = <<m>> \o <<c>>,
             serves(c, r, "settle.calculated"), m.at = "settlement.write"
      PROVE  Uncaught(st)
  <2>1. Uncaught(<<c>>) /\ <<c>> \in Seq(Record)
    BY <1>1, <1>5, UncaughtOne DEF serves
  <2> QED BY <1>1, <1>5, <2>1, UncaughtPut
<1> QED BY <1>2, <1>3, <1>4, <1>5 DEF drafted, syncing

LEMMA AllocatingThrown ==
  ASSUME IInv, IInv', AnswersTyped, NEW w \in Worker, UNCHANGED vars,
         NEW error \in Thrown, throw(w, error), NEW r,
         allocating(stack[w], r, eventStatus, settlementStatus, allocationStatus)
  PROVE  rollingBack(stack'[w], r, eventStatus', settlementStatus')
<1>1. PICK q \in Seq(Record), c \in Record :
        /\ stack[w] = q \o <<c>>
        /\ allots(q, r, eventStatus, allocationStatus) /\ serves(c, r, "settle.allocated")
  BY DEF allocating
<1>2. \A at \in CreatePoint \cup {"syncEvent", "syncEvent.list"} : at \notin DOMAIN catch
  BY DEF catch, CreatePoint
<1>3. \A x \in among(q) : x.at \notin DOMAIN catch
  BY <1>1, <1>2 DEF allots, allotting
<1>4. c.at \in DOMAIN catch /\ catch[c.at] = "settle.rollback" /\ c.id = r.id
  BY <1>1 DEF serves, catch
<1>5. goesOn(w, <<caught(c, error)>>)
  BY <1>1, <1>3, <1>4, ThrowsDown
<1>6. PICK d : d = caught(c, error)
  OBVIOUS
<1>7. stack'[w] = <<d>>
  BY <1>5, <1>6 DEF goesOn
<1>8. d \in Record
  BY <1>7, OneTyped
<1>9. d.at = "settle.rollback" /\ d.id = r.id /\ d.got = error
  BY <1>4, <1>6, Fields
<1>10. established(r, eventStatus', settlementStatus')
  BY DEF allocating, vars
<1> QED BY <1>7, <1>8, <1>9, <1>10 DEF rollingBack

LEMMA CancellingThrown ==
  ASSUME IInv, IInv', AnswersTyped, NEW w \in Worker,
         NEW error \in Thrown, throw(w, error), NEW r,
         cancelling(stack[w], r, eventStatus, settlementStatus)
  PROVE  resyncing(stack'[w], r)
<1>1. PICK c \in Record :
        /\ c.at = "settle.cancelled" /\ c.id = r.id /\ c.kept \in Thrown
        /\ \/ \E x \in Record : stack[w] = <<x>> \o <<c>> /\ cancels(x, r.id)
           \/ \E x \in Record : stack[w] = <<x>> \o <<c>> /\ x.at \in EventSync
           \/ stack[w] = <<c>>
  BY DEF cancelling, syncing
<1>2. \A at \in EventSync \cup {"cancelSettlement", "cancelSettlement.list", "settlement.write"} :
        at \notin DOMAIN catch
  BY DEF catch, EventSync
<1>3. \A x \in Record : cancels(x, r.id) \/ x.at \in EventSync => x.at \notin DOMAIN catch
  BY <1>2 DEF cancels
<1>4. c.at \in DOMAIN catch /\ catch[c.at] = "settle.resync"
  BY <1>1 DEF catch
<1>5. catches(stack[w], c)
  BY <1>1, <1>3, <1>4 DEF catches
<1>6. PICK d \in Record : d = caught(c, error) /\ stack'[w] = <<d>>
  BY <1>5, LastCatches
<1>7. d.at = "settle.resync" /\ d.id = r.id /\ d.kept \in Thrown
  BY <1>1, <1>4, <1>6, Fields
<1> QED BY <1>6, <1>7 DEF resyncing

LEMMA ResyncedThrown ==
  ASSUME IInv, IInv', AnswersTyped, NEW w \in Worker, UNCHANGED vars,
         NEW error \in Thrown, throw(w, error), NEW r,
         resynced(stack[w], r, eventStatus, settlementStatus)
  PROVE  resynced(stack'[w], r, eventStatus', settlementStatus')
<1>1. PICK c \in Record :
        /\ c.at = "settle.resynced" /\ c.id = r.id
        /\ \/ c.kept \in Thrown
           \/ c.kept = "rolled back" /\ rolledBack(r, eventStatus, settlementStatus)
        /\ \/ stack[w] = <<c>>
           \/ \E x \in Record : stack[w] = <<x>> \o <<c>> /\ x.at \in EventSync
  BY DEF resynced, syncing
<1>2. \A at \in EventSync : at \notin DOMAIN catch
  BY DEF catch, EventSync
<1>3. c.at \in DOMAIN catch /\ catch[c.at] = "settle.resynced"
  BY <1>1 DEF catch
<1>4. catches(stack[w], c)
  BY <1>1, <1>2, <1>3 DEF catches
<1>5. PICK d \in Record : d = caught(c, error) /\ stack'[w] = <<d>>
  BY <1>4, LastCatches
<1>6. d.at = catch[c.at] /\ d.id = c.id /\ d.kept = c.kept
  BY <1>5, Fields
<1>7. c.id = r.id
  BY <1>1
<1>8. d.at = "settle.resynced" /\ d.id = r.id /\ d.kept = c.kept
  BY <1>3, <1>6, <1>7
<1>9. rolledBack(r, eventStatus, settlementStatus)
        => rolledBack(r, eventStatus', settlementStatus')
  BY DEF vars
<1> QED BY <1>1, <1>5, <1>9, <1>8 DEF resynced

\* An error in any phase leads to a later one, or is the answer.
LEMMA SettlingThrown ==
  ASSUME IInv, IInv', AnswersTyped, NEW w \in Worker, UNCHANGED vars,
         NEW error \in Thrown, throw(w, error), NEW r,
         settling(stack[w], r, eventStatus, settlementStatus, allocationStatus)
  PROVE  \/ settling(stack'[w], r, eventStatus', settlementStatus', allocationStatus')
         \/ Refused(w)
<1>1. Uncaught(stack[w]) => Refused(w)
  BY UncaughtThrow DEF Thrown
<1>2. CASE asking(stack[w], r, settlementStatus)
  BY <1>1, <1>2, AskingUncaught
<1>3. CASE undrafted(stack[w], r, eventStatus, settlementStatus)
  BY <1>1, <1>3, UndraftedUncaught
<1>4. CASE drafted(stack[w], r, eventStatus, settlementStatus)
  BY <1>1, <1>4, DraftedUncaught
<1>5. ASSUME NEW c \in Record, stack[w] = <<c>>,
             c.at \in {"settle.calculated", "settle.rollback", "settle.resync"}
      PROVE  Refused(w)
  <2>1. c.at \notin DOMAIN catch
    BY <1>5 DEF catch
  <2> QED BY <1>1, <1>5, <2>1, UncaughtOne
<1>6. CASE calculated(stack[w], r, eventStatus, settlementStatus)
  BY <1>5, <1>6 DEF calculated, serves
<1>7. CASE rollingBack(stack[w], r, eventStatus, settlementStatus)
  BY <1>5, <1>7 DEF rollingBack
<1>8. CASE resyncing(stack[w], r)
  BY <1>5, <1>8 DEF resyncing
<1>9. CASE allocating(stack[w], r, eventStatus, settlementStatus, allocationStatus)
  <2>1. rollingBack(stack'[w], r, eventStatus', settlementStatus')
    BY <1>9, AllocatingThrown
  <2> QED BY <2>1 DEF settling
<1>10. CASE cancelling(stack[w], r, eventStatus, settlementStatus)
  <2>1. resyncing(stack'[w], r)
    BY <1>10, CancellingThrown
  <2> QED BY <2>1 DEF settling
<1>11. CASE resynced(stack[w], r, eventStatus, settlementStatus)
  <2>1. resynced(stack'[w], r, eventStatus', settlementStatus')
    BY <1>11, ResyncedThrown
  <2> QED BY <2>1 DEF settling
<1> QED BY <1>2, <1>3, <1>4, <1>6, <1>7, <1>8, <1>9, <1>10, <1>11 DEF settling

LEMMA CancellingStep ==
  ASSUME IInv, IInv', NEW w \in Worker, Step(w), NEW r, settleRequest(r),
         cancelling(stack[w], r, eventStatus, settlementStatus)
  PROVE  \/ cancelling(stack'[w], r, eventStatus', settlementStatus')
         \/ resynced(stack'[w], r, eventStatus', settlementStatus')
         \/ Throws(w)
<1>1. PICK e : e = EventOf[r.id]
  OBVIOUS
<1>2. PICK c \in Record :
        /\ c.at = "settle.cancelled" /\ c.id = r.id /\ c.kept \in Thrown
        /\ \/ /\ established(r, eventStatus, settlementStatus)
              /\ \E x \in Record : stack[w] = <<x>> \o <<c>> /\ cancels(x, r.id)
           \/ /\ withdrawn(r, settlementStatus) /\ eventStatus[e] = "partially_settled"
              /\ \E x \in Record :
                   /\ stack[w] = <<x>> \o <<c>> /\ syncing(x, e, eventStatus[e])
                   /\ x.at = "event.write" => x.kept = "ready_for_settlement"
           \/ /\ withdrawn(r, settlementStatus) /\ eventStatus[e] = "ready_for_settlement"
              /\ stack[w] = <<c>>
  BY <1>1 DEF cancelling
<1>3. CASE established(r, eventStatus, settlementStatus)
             /\ \E x \in Record : stack[w] = <<x>> \o <<c>> /\ cancels(x, r.id)
  BY <1>2, <1>3, CancelStep
<1>4. CASE /\ withdrawn(r, settlementStatus) /\ eventStatus[e] = "partially_settled"
           /\ \E x \in Record :
                /\ stack[w] = <<x>> \o <<c>> /\ syncing(x, e, eventStatus[e])
                /\ x.at = "event.write" => x.kept = "ready_for_settlement"
  BY <1>1, <1>2, <1>4, CancelSyncStep
<1>5. CASE /\ withdrawn(r, settlementStatus) /\ eventStatus[e] = "ready_for_settlement"
           /\ stack[w] = <<c>>
  <2>1. rolledBack(r, eventStatus, settlementStatus)
    BY <1>1, <1>5 DEF rolledBack
  <2> QED BY <1>2, <1>5, <2>1, CancelledStep
<1> QED BY <1>2, <1>3, <1>4, <1>5

\* A step of a settle request leads to a phase of it, or to an answer that is true.
LEMMA Settling ==
  ASSUME IInv, IInv', AnswersTyped, NEW w \in Worker, Step(w), NEW r, settleRequest(r),
         settling(stack[w], r, eventStatus, settlementStatus, allocationStatus)
  PROVE  \/ settling(stack'[w], r, eventStatus', settlementStatus', allocationStatus')
         \/ Refused(w)
         \/ /\ stack'[w] = <<>> /\ answer'[w].is = "ok"
            /\ made(r, eventStatus', settlementStatus', allocationStatus')
         \/ /\ stack'[w] = <<>> /\ answer'[w].is = "rolled back"
            /\ rolledBack(r, eventStatus', settlementStatus')
<1>1. CASE Throws(w)
  <2>1. PICK error \in Thrown : UNCHANGED vars /\ throw(w, error)
    BY <1>1 DEF Throws, Thrown
  <2> QED BY <2>1, SettlingThrown
<1>2. CASE asking(stack[w], r, settlementStatus)
  <2>1. \/ asking(stack'[w], r, settlementStatus')
        \/ undrafted(stack'[w], r, eventStatus', settlementStatus')
        \/ Refused(w)
    BY <1>2, Asking
  <2> QED BY <2>1 DEF settling
<1>3. CASE undrafted(stack[w], r, eventStatus, settlementStatus)
  <2>1. \/ undrafted(stack'[w], r, eventStatus', settlementStatus')
        \/ drafted(stack'[w], r, eventStatus', settlementStatus')
        \/ Refused(w)
    BY <1>3, Undrafted
  <2> QED BY <2>1 DEF settling
<1>4. CASE drafted(stack[w], r, eventStatus, settlementStatus)
  <2>1. \/ drafted(stack'[w], r, eventStatus', settlementStatus')
        \/ calculated(stack'[w], r, eventStatus', settlementStatus')
        \/ Throws(w)
    BY <1>4, Drafted
  <2> QED BY <1>1, <2>1 DEF settling
<1>5. CASE calculated(stack[w], r, eventStatus, settlementStatus)
  <2>1. allocating(stack'[w], r, eventStatus', settlementStatus', allocationStatus')
    BY <1>5, AllocateStep
  <2> QED BY <2>1 DEF settling
<1>6. CASE allocating(stack[w], r, eventStatus, settlementStatus, allocationStatus)
  <2>1. \/ allocating(stack'[w], r, eventStatus', settlementStatus', allocationStatus')
        \/ Throws(w)
        \/ /\ stack'[w] = <<>> /\ answer'[w].is = "ok"
           /\ made(r, eventStatus', settlementStatus', allocationStatus')
    BY <1>6, Allocating
  <2> QED BY <1>1, <2>1 DEF settling
<1>7. CASE rollingBack(stack[w], r, eventStatus, settlementStatus)
  <2>1. cancelling(stack'[w], r, eventStatus', settlementStatus')
    BY <1>7, StartsRollback
  <2> QED BY <2>1 DEF settling
<1>8. CASE cancelling(stack[w], r, eventStatus, settlementStatus)
  <2>1. \/ cancelling(stack'[w], r, eventStatus', settlementStatus')
        \/ resynced(stack'[w], r, eventStatus', settlementStatus')
        \/ Throws(w)
    BY <1>8, CancellingStep
  <2> QED BY <1>1, <2>1 DEF settling
<1>9. CASE resyncing(stack[w], r)
  <2>1. resynced(stack'[w], r, eventStatus', settlementStatus')
    BY <1>9, ResyncStep
  <2> QED BY <2>1 DEF settling
<1>10. CASE resynced(stack[w], r, eventStatus, settlementStatus)
  <2>1. \/ resynced(stack'[w], r, eventStatus', settlementStatus')
        \/ Throws(w)
        \/ Refused(w)
        \/ /\ stack'[w] = <<>> /\ answer'[w].is = "rolled back"
           /\ rolledBack(r, eventStatus', settlementStatus')
    BY <1>10, ResyncedStep
  <2> QED BY <1>1, <2>1 DEF settling
<1> QED BY <1>2, <1>3, <1>4, <1>5, <1>6, <1>7, <1>8, <1>9, <1>10 DEF settling

-------------------------------------------------------------------------------
(* What the stack of a request may be, by what the tables are.              *)

\* The points of all other requests.
Plain == Point \ SettlePoint

LEMMA PlainStep ==
  ASSUME IInv, NEW w \in Worker, stack[w] # <<>>, Within(stack[w], Plain), Step(w)
  PROVE  Within(stack'[w], Plain) /\ top(w).at \in Plain
<1>1. top(w).at \in Plain
  BY RunningTyped DEF Within
<1>2. Confined(w, Plain)
  BY DEF Confined, Plain, catch, SettlePoint
<1>3. ~settleEventWithAllocations(w) /\ ~rollbackSettlementFailure(w)
  <2>1. settleEventWithAllocations(w) => top(w).at \in SettlePoint
    BY DEF settleEventWithAllocations, SettlePoint
  <2>2. rollbackSettlementFailure(w) => top(w).at \in SettlePoint
    BY DEF rollbackSettlementFailure, SettlePoint
  <2> QED BY <1>1, <2>1, <2>2 DEF Plain
<1>4. /\ EventPoint \subseteq Plain
      /\ SettlementPoint \ SettlePoint \subseteq Plain
      /\ AllocationPoint \subseteq Plain
      /\ ClaimPoint \subseteq Plain
      /\ BatchPoint \subseteq Plain
  BY DEF Plain, Point, EventPoint, AllocationPoint, ClaimPoint, BatchPoint, SettlePoint
<1>5. {"createSettlement", "createDraft.insert", "createDraft.trust", "settlement.write",
       "markCalculated", "startPaying", "startPaying.list", "markPaid", "markPaid.read",
       "cancelSettlement", "cancelSettlement.list", "syncSettlement", "syncSettlement.list",
       "editSettlement", "editSettlement.list", "editSettlement.read", "settlement.restore",
       "disburse", "disburse.participants", "disburse.list"} \subseteq Plain
  BY <1>4 DEF SettlementPoint, SettlePoint, DisbursePoint
<1>6. CASE syncStatus(w) \/ moveEvent(w) \/ editEvent(w) \/ replaceEventParticipants(w)
  <2>1. /\ {"syncEvent.list", "event.write"} \subseteq Plain
        /\ {"event.write"} \subseteq Plain
        /\ {"editEvent.read", "editEvent.write", "participants.delete"} \subseteq Plain
        /\ {"participants.insert"} \subseteq Plain
    BY <1>4 DEF EventPoint
  <2> QED BY <1>1, <1>2, <1>6, <2>1, SyncStatusStays, MoveEventStays, EditEventStays,
             ReplaceEventParticipantsStays
<1>7. CASE \/ createDraftSettlement(w) \/ writeSettlementStatus(w) \/ markCalculated(w)
           \/ startPaying(w) \/ markPaid(w)
  <2>1. /\ {"syncEvent", "createDraft.insert", "createDraft.trust"} \subseteq Plain
        /\ {"syncEvent"} \subseteq Plain
        /\ {"settlement.write"} \subseteq Plain
        /\ {"startPaying.list", "settlement.write"} \subseteq Plain
        /\ {"markPaid.read", "settlement.write"} \subseteq Plain
    BY <1>4, <1>5 DEF EventPoint
  <2> QED BY <1>1, <1>2, <1>7, <2>1, CreateDraftSettlementStays, WriteSettlementStatusStays,
             MarkCalculatedStays, StartPayingStays, MarkPaidStays
<1>8. CASE cancelSettlement(w) \/ syncSettlement(w) \/ editSettlement(w)
  <2>1. /\ {"cancelSettlement.list", "settlement.write"} \subseteq Plain
        /\ {"syncSettlement.list", "startPaying", "markPaid"} \subseteq Plain
        /\ {"editSettlement.list", "editSettlement.read", "settlement.restore"} \subseteq Plain
    BY <1>5
  <2> QED BY <1>1, <1>2, <1>8, <2>1, CancelSettlementStays, SyncSettlementStays,
             EditSettlementStays
<1>9. CASE createPendingAllocation(w) \/ closeShare(w) \/ matchAllocation(w)
  <2>1. /\ {"createAllocation.participants", "createAllocation.insert"} \subseteq Plain
        /\ {"allocation.write", "syncSettlement"} \subseteq Plain
    BY <1>4, <1>5 DEF AllocationPoint
  <2> QED BY <1>1, <1>2, <1>9, <2>1, CreatePendingAllocationStays, CloseShareStays,
             MatchAllocationStays
<1>10. CASE recordClaim(w) \/ confirmClaim(w) \/ voidClaim(w)
  <2>1. /\ {"recordClaim.settlement", "recordClaim.claims", "recordClaim.insert",
            "startPaying"} \subseteq Plain
        /\ {"confirmClaim.write", "confirmClaim.allocation", "markClaimed"} \subseteq Plain
        /\ {"voidClaim.write", "voidClaim.allocation", "voidClaim.siblings", "voidClaim.reopen",
            "syncSettlement"} \subseteq Plain
    BY <1>4, <1>5 DEF AllocationPoint, ClaimPoint
  <2> QED BY <1>1, <1>2, <1>10, <2>1, RecordClaimStays, ConfirmClaimStays, VoidClaimStays
<1>11. CASE recordBatchClaims(w) \/ disburseSettlement(w)
  <2>1. /\ {"batch", "batch.settlement", "batch.claims", "markCalculated",
            "recordClaim"} \subseteq Plain
        /\ {"disburse.participants", "disburse.list", "markCalculated", "createAllocation",
            "matchAllocation", "recordClaim"} \subseteq Plain
    BY <1>4, <1>5 DEF AllocationPoint, ClaimPoint, BatchPoint
  <2> QED BY <1>1, <1>2, <1>11, <2>1, RecordBatchClaimsStays, DisburseSettlementStays
<1> QED BY <1>3, <1>6, <1>7, <1>8, <1>9, <1>10, <1>11 DEF Step

\* What the request r, whose stack is st, still owes.
owed(st, r, es, ss, as, cs) ==
  /\ r.at = "settle" => settling(st, r, es, ss, as)
  /\ r.at # "settle" => Within(st, Plain)
  /\ r.at = "confirmClaim" => confirming(st, r.id, cs, as)
  /\ r.at = "voidClaim" => voiding(st, r.id, cs, as)
  /\ r.at \in {"batch", "disburse"} => dispatching(st, r.rest, cs)

LEMMA RequestTyped ==
  ASSUME NEW w \in Worker, NEW r \in Requests[w]
  PROVE  /\ r.at = "settle" => settleRequest(r)
         /\ r.at # "settle" => r.at \in Plain
         /\ r.at \in {"confirmClaim", "voidClaim"} => r.id \in Claim
         /\ r.at \in {"batch", "disburse"} => r.rest \in Seq(Claim)
<1>1. wellFormed(r)
  BY RequestsAreWellFormed
<1>2. r.at = "settle" => settleRequest(r)
  BY <1>1, ForeignKeys DEF wellFormed, settleRequest
<1>3. r.at \in {"confirmClaim", "voidClaim"} => r.id \in Claim
  BY <1>1 DEF wellFormed
<1>4. r.at \in {"batch", "disburse"} => r.rest \in Seq(Claim)
  BY <1>1 DEF wellFormed
<1>5. r.at \in {"createEvent", "editEvent", "markReady", "cancelEvent", "createSettlement",
        "editSettlement", "markCalculated", "startPaying", "markPaid", "cancelSettlement",
        "settle", "createAllocation", "waive", "cancelAllocation", "recordClaim",
        "confirmClaim", "voidClaim", "batch", "disburse"}
  BY <1>1 DEF wellFormed
<1>6. r.at # "settle" => r.at \in Plain
  BY <1>5 DEF Plain, Point, EventPoint, SettlementPoint, AllocationPoint, ClaimPoint,
              BatchPoint, DisbursePoint, SettlePoint
<1> QED BY <1>2, <1>3, <1>4, <1>6

\* A request has everything before it when it begins.
LEMMA BeginsOwing ==
  ASSUME NEW w \in Worker, NEW r \in Requests[w], absentRow(r), r \in Record
  PROVE  owed(<<r>>, r, eventStatus, settlementStatus, allocationStatus, claimStatus)
<1>1. among(<<r>>) = {r}
  BY AmongOne
<1>2. r.at = "settle"
        => settling(<<r>>, r, eventStatus, settlementStatus, allocationStatus)
  BY DEF absentRow, settling, asking, serves
<1>3. r.at # "settle" => Within(<<r>>, Plain)
  BY <1>1, RequestTyped DEF Within
<1>4. r.at = "confirmClaim" => confirming(<<r>>, r.id, claimStatus, allocationStatus)
  BY DEF confirming, confirmingAt
<1>5. r.at = "voidClaim" => voiding(<<r>>, r.id, claimStatus, allocationStatus)
  BY DEF voiding, voidingAt
<1>6. r.at \in {"batch", "disburse"} => dispatching(<<r>>, r.rest, claimStatus)
  BY <1>1 DEF dispatching, Within, owing, owes, DispatchPoint, BatchPoint, DisbursePoint
<1> QED BY <1>2, <1>3, <1>4, <1>5, <1>6 DEF owed

LEMMA SettlingIsUnderWay ==
  ASSUME NEW r, NEW es, NEW ss, NEW as
  PROVE  ~settling(<<>>, r, es, ss, as)
<1>1. ASSUME NEW c \in Record, NEW q \in Seq(Record)
      PROVE  <<>> # q \o <<c>>
  BY AppendIsLonger
<1>2. ASSUME NEW c \in Record, NEW q \in Seq(Record)
      PROVE  <<>> # <<c>> \o q
  BY PutFirst
<1>3. ASSUME NEW x \in Record, NEW c \in Record
      PROVE  <<>> # <<x>> \o <<c>>
  <2>1. <<c>> \in Seq(Record)
    OBVIOUS
  <2> QED BY <2>1, <1>2
<1>4. ASSUME NEW x \in Record, NEW y \in Record, NEW t \in Seq(Record)
      PROVE  <<>> # <<x>> \o (<<y>> \o t)
  <2>1. <<y>> \o t \in Seq(Record)
    OBVIOUS
  <2> QED BY <2>1, <1>2
<1>5. ASSUME NEW x \in Record, NEW y \in Record, NEW z \in Record, NEW t \in Seq(Record)
      PROVE  <<>> # <<x>> \o (<<y>> \o (<<z>> \o t))
  <2>1. <<z>> \o t \in Seq(Record)
    OBVIOUS
  <2> QED BY <2>1, <1>4
<1>6. \A t : calculating(t, r) => t # <<>>
  BY <1>3 DEF calculating
<1>7. \A c : <<>> # <<c>>
  OBVIOUS
<1>8. ~asking(<<>>, r, ss)
  BY <1>3, <1>7 DEF asking
<1>9. ~undrafted(<<>>, r, es, ss)
  <2>1. ASSUME NEW t \in Seq(Record), NEW s, NEW e, NEW status, drafting(<<>>, t, s, e, status)
        PROVE  FALSE
    <3>1. CASE \E y \in Record : <<>> = <<y>> \o t
      BY <1>2, <3>1
    <3>2. CASE \E x, y \in Record : <<>> = <<x>> \o (<<y>> \o t)
      BY <1>4, <3>2
    <3>3. CASE \E x, y, z \in Record : <<>> = <<x>> \o (<<y>> \o (<<z>> \o t))
      BY <1>5, <3>3
    <3> QED BY <2>1, <3>1, <3>2, <3>3 DEF drafting
  <2> QED BY <2>1 DEF undrafted
<1>10. ~drafted(<<>>, r, es, ss)
  BY <1>2, <1>3, <1>4, <1>6 DEF drafted
<1>11. ~calculated(<<>>, r, es, ss) /\ ~rollingBack(<<>>, r, es, ss) /\ ~resyncing(<<>>, r)
  BY <1>7 DEF calculated, rollingBack, resyncing
<1>12. ~allocating(<<>>, r, es, ss, as)
  BY <1>1 DEF allocating
<1>13. ~cancelling(<<>>, r, es, ss) /\ ~resynced(<<>>, r, es, ss)
  BY <1>3, <1>7 DEF cancelling, resynced
<1> QED BY <1>8, <1>9, <1>10, <1>11, <1>12, <1>13 DEF settling

\* All that a request is to do is done.
fulfilled(r, es, ss, as, cs) ==
  /\ r.at = "confirmClaim" => isConfirmed(r.id, cs, as)
  /\ r.at = "voidClaim" => isVoided(r.id, cs, as)
  /\ r.at \in {"batch", "disburse"} => \A c \in among(r.rest) : cs[c] = "recorded"
  /\ r.at = "settle" => made(r, es, ss, as)

LEMMA FulfilledIsAccomplished ==
  ASSUME NEW r, fulfilled(r, eventStatus', settlementStatus', allocationStatus', claimStatus')
  PROVE  Accomplished(r)'
<1>1. r.at = "confirmClaim" => Accomplished(r)'
  BY DEF fulfilled, isConfirmed, Accomplished
<1>2. r.at = "voidClaim" => Accomplished(r)'
  BY DEF fulfilled, isVoided, Accomplished
<1>3. r.at \in {"batch", "disburse"} => Accomplished(r)'
  BY DEF fulfilled, among, Accomplished
<1>4. r.at = "settle" => Accomplished(r)'
  BY DEF fulfilled, made, established, among, Accomplished
<1> QED BY <1>1, <1>2, <1>3, <1>4 DEF Accomplished

\* A request without a record owes nothing any more.
LEMMA NothingOwed ==
  ASSUME NEW r, NEW es, NEW ss, NEW as, NEW cs, owed(<<>>, r, es, ss, as, cs)
  PROVE  fulfilled(r, es, ss, as, cs)
<1>1. among(<<>>) = {}
  BY AmongNone
<1>2. r.at = "confirmClaim" => isConfirmed(r.id, cs, as)
  BY DEF owed, confirming
<1>3. r.at = "voidClaim" => isVoided(r.id, cs, as)
  BY DEF owed, voiding
<1>4. r.at \in {"batch", "disburse"} => \A c \in among(r.rest) : cs[c] = "recorded"
  BY <1>1 DEF owed, dispatching, owing
<1>5. r.at # "settle"
  BY SettlingIsUnderWay DEF owed
<1> QED BY <1>2, <1>3, <1>4, <1>5 DEF fulfilled

\* What a step of a request that has not been refused leaves it to do.
LEMMA OwedStep ==
  ASSUME IInv, IInv', AnswersTyped, NEW w \in Worker, stack[w] # <<>>, Step(w),
         NEW r \in Requests[w],
         owed(stack[w], r, eventStatus, settlementStatus, allocationStatus, claimStatus)
  PROVE  \/ owed(stack'[w], r, eventStatus', settlementStatus', allocationStatus', claimStatus')
         \/ Refused(w)
         \/ /\ stack'[w] = <<>> /\ answer'[w].is = "ok"
            /\ fulfilled(r, eventStatus', settlementStatus', allocationStatus', claimStatus')
         \/ /\ stack'[w] = <<>> /\ answer'[w].is = "rolled back" /\ r.at = "settle"
            /\ rolledBack(r, eventStatus', settlementStatus')
<1>1. CASE r.at = "settle"
  <2>1. settleRequest(r)
    BY <1>1, RequestTyped
  <2>2. settling(stack[w], r, eventStatus, settlementStatus, allocationStatus)
    BY <1>1 DEF owed
  <2>3. \/ settling(stack'[w], r, eventStatus', settlementStatus', allocationStatus')
        \/ Refused(w)
        \/ /\ stack'[w] = <<>> /\ answer'[w].is = "ok"
           /\ made(r, eventStatus', settlementStatus', allocationStatus')
        \/ /\ stack'[w] = <<>> /\ answer'[w].is = "rolled back"
           /\ rolledBack(r, eventStatus', settlementStatus')
    BY <2>1, <2>2, Settling
  <2> QED BY <1>1, <2>3 DEF owed, fulfilled
<1>2. CASE r.at # "settle"
  <2>1. Within(stack[w], Plain)
    BY <1>2 DEF owed
  <2>2. Within(stack'[w], Plain)
    BY <2>1, PlainStep
  <2>3. CASE r.at = "confirmClaim"
    <3>1. r.id \in Claim /\ confirming(stack[w], r.id, claimStatus, allocationStatus)
      BY <2>3, RequestTyped DEF owed
    <3>2. confirming(stack'[w], r.id, claimStatus', allocationStatus') \/ Refused(w)
      BY <3>1, Confirmation
    <3> QED BY <2>2, <2>3, <3>2 DEF owed
  <2>4. CASE r.at = "voidClaim"
    <3>1. r.id \in Claim /\ voiding(stack[w], r.id, claimStatus, allocationStatus)
      BY <2>4, RequestTyped DEF owed
    <3>2. voiding(stack'[w], r.id, claimStatus', allocationStatus') \/ Refused(w)
      BY <3>1, Withdrawal
    <3> QED BY <2>2, <2>4, <3>2 DEF owed
  <2>5. CASE r.at \in {"batch", "disburse"}
    <3>1. r.rest \in Seq(Claim) /\ dispatching(stack[w], r.rest, claimStatus)
      BY <2>5, RequestTyped DEF owed
    <3>2. dispatching(stack'[w], r.rest, claimStatus') \/ Refused(w)
      BY <3>1, Dispatch
    <3> QED BY <2>2, <2>5, <3>2 DEF owed
  <2> QED BY <1>2, <2>2, <2>3, <2>4, <2>5 DEF owed
<1> QED BY <1>1, <1>2

-------------------------------------------------------------------------------
(* The inductive invariant, and what the answers are worth.                 *)

\* A request under way is not answered, and owes what its stack is about to do.
Answerable(w) ==
  stack[w] # <<>> =>
    /\ answer[w].is = "none" /\ answer[w].of \in Requests[w]
    /\ owed(stack[w], answer[w].of, eventStatus, settlementStatus, allocationStatus, claimStatus)

Answering == AnswersTyped /\ \A w \in Worker : Answerable(w)

LEMMA AnswersStayTyped ==
  ASSUME IInv, AnswersTyped, NEW w \in Worker,
         \/ UNCHANGED answer
         \/ \E o \in Outcome : answer' = [answer EXCEPT ![w].is = o]
  PROVE  AnswersTyped'
<1>1. CASE UNCHANGED answer
  BY <1>1 DEF AnswersTyped
<1>2. ASSUME NEW o \in Outcome, answer' = [answer EXCEPT ![w].is = o]
      PROVE  AnswersTyped'
  BY <1>2 DEF AnswersTyped
<1> QED BY <1>1, <1>2

\* What may be answered, and what of it is kept.
Honest(w) ==
  /\ finishes(w, "ok") => Accomplished(answer[w].of)'
  /\ finishes(w, "rolled back") =>
       LET s == answer[w].of.id
           e == EventOf[s]
       IN  /\ settlementStatus'[s] = "cancelled"
           /\ activeSettlements(settlementStatus', e) = {}
           /\ eventStatus'[e] = "ready_for_settlement"

LEMMA BeginAnswering ==
  ASSUME IInv, IInv', Answering, NEW w \in Worker, NEW r \in Requests[w], Begin(w, r)
  PROVE  AnswersTyped' /\ Answerable(w)' /\ Honest(w)
<1>1. /\ stack[w] = <<>> /\ absentRow(r) /\ UNCHANGED vars
      /\ answer' = [answer EXCEPT ![w] = [of |-> r, is |-> "none"]]
  BY DEF Begin
<1>2. stack'[w] = <<r>>
  BY StacksTyped DEF Begin
<1>3. r \in Record
  BY <1>2, OneTyped
<1>4. r \in Asked /\ "none" \in Outcome
  BY DEF Asked, Outcome, Value
<1>5. AnswersTyped' /\ answer'[w] = [of |-> r, is |-> "none"]
  BY <1>1, <1>4 DEF AnswersTyped, Answering
<1>6. owed(<<r>>, r, eventStatus, settlementStatus, allocationStatus, claimStatus)
  BY <1>1, <1>3, BeginsOwing
<1>7. Answerable(w)'
  BY <1>1, <1>2, <1>5, <1>6 DEF Answerable, vars
<1> QED BY <1>1, <1>5, <1>7 DEF Honest, finishes

LEMMA StepAnswering ==
  ASSUME IInv, IInv', Answering, NEW w \in Worker, Step(w)
  PROVE  AnswersTyped' /\ Answerable(w)' /\ Honest(w)
<1>1. stack[w] # <<>> /\ AnswersTyped
  BY DEF Step, Answering
<1>2. PICK r \in Requests[w] : r = answer[w].of
  BY <1>1 DEF Answering, Answerable
<1>3. /\ answer[w].is = "none"
      /\ owed(stack[w], r, eventStatus, settlementStatus, allocationStatus, claimStatus)
  BY <1>1, <1>2 DEF Answering, Answerable
<1>4. \/ UNCHANGED answer
      \/ \E o \in Outcome : /\ stack' = [stack EXCEPT ![w] = <<>>]
                            /\ answer' = [answer EXCEPT ![w].is = o]
  <2>1. Manner(w)
    BY StepManner
  <2>2. top(w).kept \in Outcome
    BY <1>1, RunningTyped DEF Record, Outcome
  <2>3. {"ok", "refused", "failed"} \subseteq Outcome
    BY DEF Outcome, Value
  <2> QED BY <2>1, <2>2, <2>3 DEF Manner
<1>5. AnswersTyped'
  BY <1>1, <1>4, AnswersStayTyped
<1>6. stack'[w] # <<>> => answer' = answer
  <2>1. stack' = [stack EXCEPT ![w] = <<>>] => stack'[w] = <<>>
    BY StacksTyped
  <2> QED BY <1>4, <2>1
<1>7. answer'[w].of = r
  BY <1>1, <1>2, <1>4 DEF AnswersTyped
<1>8. \/ owed(stack'[w], r, eventStatus', settlementStatus', allocationStatus', claimStatus')
      \/ Refused(w)
      \/ /\ stack'[w] = <<>> /\ answer'[w].is = "ok"
         /\ fulfilled(r, eventStatus', settlementStatus', allocationStatus', claimStatus')
      \/ /\ stack'[w] = <<>> /\ answer'[w].is = "rolled back" /\ r.at = "settle"
         /\ rolledBack(r, eventStatus', settlementStatus')
  BY <1>1, <1>3, OwedStep
<1>9. Answerable(w)'
  <2> SUFFICES ASSUME stack'[w] # <<>>
               PROVE  /\ answer'[w].is = "none" /\ answer'[w].of \in Requests[w]
                      /\ owed(stack'[w], answer'[w].of, eventStatus', settlementStatus',
                              allocationStatus', claimStatus')
    BY DEF Answerable
  <2>1. answer'[w].is = "none" /\ answer'[w].of = r
    BY <1>3, <1>6, <1>7
  <2>2. owed(stack'[w], r, eventStatus', settlementStatus', allocationStatus', claimStatus')
    BY <1>8 DEF Refused
  <2> QED BY <2>1, <2>2
<1>10. finishes(w, "ok") => Accomplished(answer[w].of)'
  <2> SUFFICES ASSUME stack'[w] = <<>>, answer'[w].is = "ok"
               PROVE  Accomplished(answer[w].of)'
    BY DEF finishes
  <2>1. fulfilled(r, eventStatus', settlementStatus', allocationStatus', claimStatus')
    <3>1. CASE owed(stack'[w], r, eventStatus', settlementStatus', allocationStatus', claimStatus')
      BY <3>1, NothingOwed
    <3> QED BY <1>8, <3>1 DEF Refused
  <2>2. Accomplished(r)'
    BY <2>1, FulfilledIsAccomplished
  <2> QED BY <1>7, <2>2
<1>11. finishes(w, "rolled back") => rolledBack(r, eventStatus', settlementStatus')
  <2> SUFFICES ASSUME stack'[w] = <<>>, answer'[w].is = "rolled back"
               PROVE  rolledBack(r, eventStatus', settlementStatus')
    BY DEF finishes
  <2>1. CASE owed(<<>>, r, eventStatus', settlementStatus', allocationStatus', claimStatus')
    <3>1. r.at # "settle"
      BY <2>1, SettlingIsUnderWay DEF owed
    <3>2. top(w).at \in Plain
      BY <1>1, <1>3, <3>1, PlainStep DEF owed
    <3>3. top(w).at # "settle.resynced"
      BY <3>2 DEF Plain, SettlePoint
    <3>4. \/ UNCHANGED answer
          \/ \E o \in {"ok", "refused", "failed"} : answer' = [answer EXCEPT ![w].is = o]
      BY <3>3, StepManner DEF Manner
    <3>5. answer'[w].is # "rolled back"
      BY <1>1, <1>3, <3>4 DEF AnswersTyped
    <3> QED BY <3>5
  <2> QED BY <1>8, <2>1 DEF Refused
<1>12. Honest(w)
  BY <1>2, <1>10, <1>11 DEF Honest, rolledBack, withdrawn
<1> QED BY <1>5, <1>9, <1>12

\* An error that the database raises is answered, or leads to the rollback.
LEMMA FailAnswering ==
  ASSUME IInv, IInv', Answering, NEW w \in Worker, Fail(w)
  PROVE  AnswersTyped' /\ Answerable(w)' /\ Honest(w)
<1>1. stack[w] # <<>> /\ AnswersTyped /\ throw(w, "failed") /\ UNCHANGED vars
  BY DEF Fail, Answering
<1>2. PICK r \in Requests[w] : r = answer[w].of
  BY <1>1 DEF Answering, Answerable
<1>3. /\ answer[w].is = "none"
      /\ owed(stack[w], r, eventStatus, settlementStatus, allocationStatus, claimStatus)
  BY <1>1, <1>2 DEF Answering, Answerable
<1>4. \/ UNCHANGED answer
      \/ /\ stack' = [stack EXCEPT ![w] = <<>>]
         /\ answer' = [answer EXCEPT ![w].is = "failed"]
  BY <1>1 DEF throw
<1>5. AnswersTyped'
  <2>1. "failed" \in Outcome
    BY DEF Outcome, Value
  <2> QED BY <1>1, <1>4, <2>1, AnswersStayTyped
<1>6. \/ owed(stack'[w], r, eventStatus', settlementStatus', allocationStatus', claimStatus')
      \/ stack'[w] = <<>>
  <2>1. CASE r.at = "settle"
    <3>1. settling(stack[w], r, eventStatus, settlementStatus, allocationStatus)
      BY <1>3, <2>1 DEF owed
    <3>2. "failed" \in Thrown
      BY DEF Thrown
    <3>3. \/ settling(stack'[w], r, eventStatus', settlementStatus', allocationStatus')
          \/ Refused(w)
      BY <1>1, <3>1, <3>2, SettlingThrown
    <3> QED BY <2>1, <3>3 DEF owed, Refused
  <2>2. CASE r.at # "settle"
    <3>1. Within(stack[w], Plain)
      BY <1>3, <2>2 DEF owed
    <3>2. \A at \in Plain : at \notin DOMAIN catch
      BY DEF Plain, SettlePoint, catch
    <3>3. \A x \in among(stack[w]) : x.at \notin DOMAIN catch
      BY <3>1, <3>2 DEF Within
    <3>4. Refused(w)
      BY <1>1, <3>3, ThrowRefuses
    <3> QED BY <3>4 DEF Refused
  <2> QED BY <2>1, <2>2
<1>7. Answerable(w)'
  <2> SUFFICES ASSUME stack'[w] # <<>>
               PROVE  /\ answer'[w].is = "none" /\ answer'[w].of \in Requests[w]
                      /\ owed(stack'[w], answer'[w].of, eventStatus', settlementStatus',
                              allocationStatus', claimStatus')
    BY DEF Answerable
  <2>1. answer' = answer
    <3>1. stack' = [stack EXCEPT ![w] = <<>>] => stack'[w] = <<>>
      BY StacksTyped
    <3> QED BY <1>4, <3>1
  <2> QED BY <1>2, <1>3, <1>6, <2>1
<1>8. answer'[w].is \notin {"ok", "rolled back"}
  BY <1>1, <1>3, <1>4 DEF AnswersTyped
<1> QED BY <1>5, <1>7, <1>8 DEF Honest, finishes

LEMMA StopAnswering ==
  ASSUME IInv, IInv', Answering, NEW w \in Worker, Stop(w)
  PROVE  AnswersTyped' /\ Answerable(w)' /\ Honest(w)
<1>1. AnswersTyped /\ answer' = [answer EXCEPT ![w].is = "lost"]
  BY DEF Stop, Answering
<1>2. stack'[w] = <<>>
  BY StacksTyped DEF Stop
<1>3. AnswersTyped'
  <2>1. "lost" \in Outcome
    BY DEF Outcome
  <2> QED BY <1>1, <2>1, AnswersStayTyped
<1>4. answer'[w].is \notin {"ok", "rolled back"}
  BY <1>1 DEF AnswersTyped
<1> QED BY <1>2, <1>3, <1>4 DEF Answerable, Honest, finishes

LEMMA NextAnswering ==
  ASSUME OneByOne, IInv, IInv', Answering, StepsNext
  PROVE  Answering' /\ \A w \in Worker : Honest(w)
<1>1. ASSUME NEW w \in Worker, AnswersTyped' /\ Answerable(w)' /\ Honest(w)
      PROVE  Answering' /\ \A v \in Worker : Honest(v)
  <2>1. \A v \in Worker : v = w
    BY DEF OneByOne
  <2>2. \A v \in Worker : Answerable(v)' /\ Honest(v)
    BY <1>1, <2>1
  <2> QED BY <1>1, <2>2 DEF Answering
<1>2. ASSUME NEW w \in Worker, NEW r \in Requests[w], Begin(w, r)
      PROVE  AnswersTyped' /\ Answerable(w)' /\ Honest(w)
  BY <1>2, BeginAnswering
<1>3. ASSUME NEW w \in Worker, Step(w) \/ Fail(w) \/ Stop(w)
      PROVE  AnswersTyped' /\ Answerable(w)' /\ Honest(w)
  BY <1>3, StepAnswering, FailAnswering, StopAnswering
<1> QED BY <1>1, <1>2, <1>3 DEF StepsNext

LEMMA StutterAnswering ==
  ASSUME Answering, UNCHANGED stepVars
  PROVE  Answering' /\ \A w \in Worker : Honest(w)
<1>1. UNCHANGED <<stack, answer, eventStatus, settlementStatus, allocationStatus, claimStatus>>
  BY DEF stepVars, vars
<1>2. AnswersTyped'
  BY <1>1 DEF Answering, AnswersTyped
<1>3. ASSUME NEW w \in Worker
      PROVE  Answerable(w)' /\ Honest(w)
  <2>1. Answerable(w)
    BY DEF Answering
  <2> QED BY <1>1, <2>1 DEF Answerable, Honest, finishes
<1> QED BY <1>2, <1>3 DEF Answering

\* While requests come one after another, a request under way owes at every point the
\* writes it has not come to, and nothing else has touched what it relies on.
THEOREM AnswersAreOwed ==
  ASSUME OneByOne
  PROVE  StepsSpec => []Answering
<1>1. StepsInit => Answering
  <2> SUFFICES ASSUME StepsInit PROVE Answering
    OBVIOUS
  <2>1. AnswersTyped
    BY DEF StepsInit, AnswersTyped, Asked, Outcome, Value
  <2>2. \A w \in Worker : stack[w] = <<>>
    BY DEF StepsInit
  <2> QED BY <2>1, <2>2 DEF Answering, Answerable
<1>2. IInv /\ IInv' /\ Answering /\ [StepsNext]_stepVars => Answering'
  BY NextAnswering, StutterAnswering
<1> QED BY <1>1, <1>2, StepsInvariant, PTL DEF StepsSpec

\* As long as requests come one after another, a request that is answered "ok" has
\* been done in full, however many statements have failed and wherever earlier
\* requests were stopped: confirmClaim and voidClaim write the share whenever they do
\* not find it written, a batch or a disbursement has recorded every claim of its list,
\* and the settle request leaves a calculated settlement with all its allocations.
THEOREM OkIsTrue ==
  ASSUME OneByOne
  PROVE  StepsSpec => OkMeansDone
<1>1. IInv /\ IInv' /\ Answering /\ [StepsNext]_stepVars
        => [\A w \in Worker : finishes(w, "ok") => Accomplished(answer[w].of)']_stepVars
  <2>1. IInv /\ IInv' /\ Answering /\ StepsNext => \A w \in Worker : Honest(w)
    BY NextAnswering
  <2> QED BY <2>1 DEF Honest
<1> QED BY <1>1, StepsInvariant, AnswersAreOwed, PTL DEF StepsSpec, OkMeansDone

\* As long as requests come one after another, "It is safe to retry" is true: it is
\* answered only when cancelSettlement and the sync after it have both succeeded, and
\* the second sync, whether it succeeds or fails, has nothing left to change.
THEOREM RetryIsSafe ==
  ASSUME OneByOne
  PROVE  StepsSpec => SafeToRetry
<1>1. IInv /\ IInv' /\ Answering /\ [StepsNext]_stepVars
        => [\A w \in Worker : finishes(w, "rolled back") =>
              LET s == answer[w].of.id
                  e == EventOf[s]
              IN  /\ settlementStatus'[s] = "cancelled"
                  /\ activeSettlements(settlementStatus', e) = {}
                  /\ eventStatus'[e] = "ready_for_settlement"]_stepVars
  <2>1. IInv /\ IInv' /\ Answering /\ StepsNext => \A w \in Worker : Honest(w)
    BY NextAnswering
  <2> QED BY <2>1 DEF Honest
<1> QED BY <1>1, StepsInvariant, AnswersAreOwed, PTL DEF StepsSpec, SafeToRetry
===============================================================================
