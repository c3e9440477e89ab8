--------------------------- MODULE RunBrokerProofs ---------------------------
(***************************************************************************)
(* Proofs about RunBroker, for any number of producers and consumers, any  *)
(* queue size and either policy; and about BackgroundRun: the run's task,  *)
(* the requests and the streams only ever use the broker through its       *)
(* operations, so that what is proved of RunBroker holds in this context,  *)
(* and under drop_oldest nobody waits.                                     *)
(***************************************************************************)
EXTENDS BackgroundRun, SequenceTheorems, FiniteSetTheorems, TLAPS

-----------------------------------------------------------------------------
(* Sequences.                                                              *)

\* What `del queue[i]` of the code does: the rest keeps its order.
LEMMA WithoutProperties ==
  ASSUME NEW S, NEW q \in Seq(S), NEW i \in 1..Len(q)
  PROVE  /\ Without(q, i) \in Seq(S)
         /\ Len(Without(q, i)) = Len(q) - 1
         /\ \A j \in 1..(Len(q) - 1) :
              Without(q, i)[j] = IF j < i THEN q[j] ELSE q[j + 1]
<1>1. Len(q) - 1 \in Nat
  OBVIOUS
<1>2. \A j \in 1..(Len(q) - 1) : (IF j < i THEN q[j] ELSE q[j + 1]) \in S
  OBVIOUS
<1>3. Without(q, i) \in Seq(S)
  BY <1>1, <1>2, IsASeq DEF Without
<1>4. DOMAIN Without(q, i) = 1..(Len(q) - 1)
  BY DEF Without
<1>5. Len(Without(q, i)) = Len(q) - 1
  BY <1>1, <1>3, <1>4, LenProperties
<1> QED
  BY <1>3, <1>5 DEF Without

\* A new event at the end of a sequence leaves the others where they are.
LEMMA AppendAt ==
  ASSUME NEW S, NEW q \in Seq(S), NEW e \in S
  PROVE  /\ Append(q, e) \in Seq(S)
         /\ Len(Append(q, e)) = Len(q) + 1
         /\ \A j \in 1..Len(q) : Append(q, e)[j] = q[j]
         /\ Append(q, e)[Len(q) + 1] = e
BY AppendProperties

\* Changing one place of a sequence, if it has it, leaves a sequence.
LEMMA ExceptType ==
  ASSUME NEW S, NEW q \in Seq(S), NEW i, NEW e \in S
  PROVE  [q EXCEPT ![i] = e] \in Seq(S)
<1>1. CASE i \in 1..Len(q)
  BY <1>1, ExceptSeq
<1>2. CASE i \notin 1..Len(q)
  <2>1. q \in [1..Len(q) -> S]
    BY LenProperties
  <2>2. [q EXCEPT ![i] = e] = q
    BY <1>2, <2>1
  <2> QED
    BY <2>2
<1> QED
  BY <1>1, <1>2

\* A get() shifts the queue by one.
LEMMA TailAt ==
  ASSUME NEW S, NEW q \in Seq(S), q # <<>>
  PROVE  /\ Tail(q) \in Seq(S)
         /\ Len(q) >= 1
         /\ Len(Tail(q)) = Len(q) - 1
         /\ \A j \in 1..(Len(q) - 1) : Tail(q)[j] = q[j + 1]
         /\ Head(q) \in S
         /\ Head(q) = q[1]
BY HeadTailProperties, EmptySeq

-----------------------------------------------------------------------------
(* What put(), the drop and get() do to the queue and to its history.      *)

Fates == Consumers \union {"queued", "dropped"}

\* A message is what its two fields say.
LEMMA MessageFields ==
  ASSUME NEW n \in Nat \ {0}, NEW k \in Kinds
  PROVE  /\ [n |-> n, kind |-> k] \in Message
         /\ [n |-> n, kind |-> k].n = n
         /\ [n |-> n, kind |-> k].kind = k
BY DEF Message

\* put_nowait() of the next event keeps the queue equal to the pending events.
LEMMA AppendHolds ==
  ASSUME NEW q \in Seq(Message), NEW l \in Seq(Kinds), NEW f \in Seq(Fates),
         NEW k \in Kinds, HoldsPending(q, l, f)
  PROVE  HoldsPending(Append(q, [n |-> Len(l) + 1, kind |-> k]),
                      Append(l, k), Append(f, "queued"))
<1> DEFINE m == [n |-> Len(l) + 1, kind |-> k]
           qq == Append(q, m)
           ll == Append(l, k)
           ff == Append(f, "queued")
<1>1. Len(q) \in Nat /\ Len(l) \in Nat /\ Len(f) = Len(l)
  BY LenProperties DEF HoldsPending
<1>2. m \in Message /\ m.n = Len(f) + 1 /\ m.kind = k
  BY <1>1, MessageFields
<1>3. /\ Len(qq) = Len(q) + 1
      /\ \A j \in 1..Len(q) : qq[j] = q[j]
      /\ qq[Len(q) + 1] = m
  BY <1>2, AppendAt
<1>4. /\ Len(ll) = Len(l) + 1
      /\ \A j \in 1..Len(l) : ll[j] = l[j]
      /\ ll[Len(l) + 1] = k
  BY AppendAt
<1>5. /\ Len(ff) = Len(f) + 1
      /\ \A j \in 1..Len(f) : ff[j] = f[j]
      /\ ff[Len(f) + 1] = "queued"
  BY AppendAt DEF Fates
<1> HIDE DEF m, qq, ll, ff
<1>6. ASSUME NEW i \in 1..Len(qq)
      PROVE  qq[i].n \in 1..Len(ff) /\ ff[qq[i].n] = "queued"
             /\ ll[qq[i].n] = qq[i].kind
  <2>1. CASE i = Len(q) + 1
    BY <2>1, <1>1, <1>2, <1>3, <1>4, <1>5
  <2>2. CASE i \in 1..Len(q)
    BY <2>2, <1>1, <1>3, <1>4, <1>5 DEF HoldsPending
  <2> QED
    BY <2>1, <2>2, <1>1, <1>3
<1>7. ASSUME NEW i \in 1..Len(qq), NEW j \in 1..Len(qq), i < j
      PROVE  qq[i].n < qq[j].n
  <2>1. i \in 1..Len(q) /\ qq[i].n = q[i].n /\ q[i].n \in 1..Len(f)
    BY <1>1, <1>3, <1>7 DEF HoldsPending
  <2>2. CASE j = Len(q) + 1
    BY <2>1, <2>2, <1>1, <1>2, <1>3
  <2>3. CASE j \in 1..Len(q)
    BY <2>1, <2>3, <1>3, <1>7 DEF HoldsPending
  <2> QED
    BY <2>2, <2>3, <1>1, <1>3
<1>8. ASSUME NEW n \in 1..Len(ff), ff[n] = "queued"
      PROVE  \E i \in 1..Len(qq) : qq[i].n = n
  <2>1. CASE n = Len(f) + 1
    BY <2>1, <1>1, <1>2, <1>3
  <2>2. CASE n \in 1..Len(f)
    <3>1. PICK i \in 1..Len(q) : q[i].n = n
      BY <2>2, <1>5, <1>8 DEF HoldsPending
    <3> QED
      BY <3>1, <1>1, <1>3
  <2> QED
    BY <2>1, <2>2, <1>1, <1>5
<1>9. HoldsPending(qq, ll, ff)
  BY <1>1, <1>4, <1>5, <1>6, <1>7, <1>8 DEF HoldsPending
<1> QED
  BY <1>9 DEF qq, ll, ff, m

\* Taking any one event out of the queue keeps the others pending, in order.
LEMMA WithoutHolds ==
  ASSUME NEW q \in Seq(Message), NEW l \in Seq(Kinds), NEW f \in Seq(Fates),
         NEW i \in 1..Len(q), NEW d \in Fates \ {"queued"},
         HoldsPending(q, l, f)
  PROVE  HoldsPending(Without(q, i), l, [f EXCEPT ![q[i].n] = d])
<1> DEFINE qq == Without(q, i)
           ff == [f EXCEPT ![q[i].n] = d]
<1>1. Len(q) \in Nat /\ Len(l) \in Nat /\ Len(f) = Len(l)
  BY LenProperties DEF HoldsPending
<1>2. /\ Len(qq) = Len(q) - 1
      /\ \A j \in 1..(Len(q) - 1) : qq[j] = IF j < i THEN q[j] ELSE q[j + 1]
  BY WithoutProperties
<1>3. q[i].n \in 1..Len(f)
  BY DEF HoldsPending
<1>4. /\ Len(ff) = Len(f)
      /\ \A n \in 1..Len(f) : ff[n] = IF n = q[i].n THEN d ELSE f[n]
  BY <1>3, ExceptSeq
<1> DEFINE at(j) == IF j < i THEN j ELSE j + 1
<1>5. \A j \in 1..Len(qq) : at(j) \in 1..Len(q) /\ at(j) # i /\ qq[j] = q[at(j)]
  BY <1>1, <1>2
<1>6. \A j \in 1..Len(q) : j # i => q[j].n # q[i].n /\ q[j].n \in 1..Len(f)
  <2> SUFFICES ASSUME NEW j \in 1..Len(q), j # i
               PROVE  q[j].n # q[i].n /\ q[j].n \in 1..Len(f)
    OBVIOUS
  <2>1. q[j].n \in 1..Len(f)
    BY DEF HoldsPending
  <2>2. CASE j < i
    <3>1. q[j].n < q[i].n
      BY <2>2 DEF HoldsPending
    <3> QED
      BY <3>1, <2>1, <1>1, <1>3
  <2>3. CASE i < j
    <3>1. q[i].n < q[j].n
      BY <2>3 DEF HoldsPending
    <3> QED
      BY <3>1, <2>1, <1>1, <1>3
  <2> QED
    BY <2>2, <2>3, <1>1
<1>7. \A j \in 1..Len(qq) :
        qq[j].n \in 1..Len(ff) /\ ff[qq[j].n] = "queued"
        /\ l[qq[j].n] = qq[j].kind
  <2> SUFFICES ASSUME NEW j \in 1..Len(qq)
               PROVE  qq[j].n \in 1..Len(ff) /\ ff[qq[j].n] = "queued"
                      /\ l[qq[j].n] = qq[j].kind
    OBVIOUS
  <2>1. PICK k \in 1..Len(q) : k # i /\ qq[j] = q[k]
    BY <1>5
  <2> QED
    BY <2>1, <1>4, <1>6 DEF HoldsPending
<1>8. \A j, k \in 1..Len(qq) : j < k => qq[j].n < qq[k].n
  <2> SUFFICES ASSUME NEW j \in 1..Len(qq), NEW k \in 1..Len(qq), j < k
               PROVE  qq[j].n < qq[k].n
    OBVIOUS
  <2>1. at(j) \in 1..Len(q) /\ at(k) \in 1..Len(q) /\ at(j) < at(k)
    BY <1>1, <1>2, <1>5
  <2>2. q[at(j)].n < q[at(k)].n
    BY <2>1 DEF HoldsPending
  <2> QED
    BY <2>2, <1>5
<1>9. \A n \in 1..Len(ff) : ff[n] = "queued" => \E j \in 1..Len(qq) : qq[j].n = n
  <2> SUFFICES ASSUME NEW n \in 1..Len(ff), ff[n] = "queued"
               PROVE  \E j \in 1..Len(qq) : qq[j].n = n
    OBVIOUS
  <2>1. n # q[i].n /\ f[n] = "queued"
    BY <1>4
  <2>2. PICK k \in 1..Len(q) : q[k].n = n
    BY <2>1, <1>4 DEF HoldsPending
  <2>3. k # i
    BY <2>1, <2>2
  <2>4. CASE k < i
    <3>1. k \in 1..Len(qq) /\ qq[k] = q[k]
      BY <2>4, <1>1, <1>2
    <3> QED
      BY <3>1, <2>2
  <2>5. CASE k > i
    <3>1. k - 1 \in 1..Len(qq) /\ qq[k - 1] = q[k]
      BY <2>5, <1>1, <1>2
    <3> QED
      BY <3>1, <2>2
  <2> QED
    BY <2>3, <2>4, <2>5, <1>1
<1>10. Len(l) = Len(ff)
  BY <1>1, <1>4
<1> HIDE DEF qq, ff
<1>11. HoldsPending(qq, l, ff)
  BY <1>7, <1>8, <1>9, <1>10 DEF HoldsPending
<1> QED
  BY <1>11 DEF qq, ff

\* get() is the removal of the first event.
LEMMA TailIsWithout ==
  ASSUME NEW S, NEW q \in Seq(S), q # <<>>
  PROVE  1 \in 1..Len(q) /\ Tail(q) = Without(q, 1)
<1>1. Len(q) \in Nat /\ 1 \in 1..Len(q)
  BY TailAt, LenProperties
<1>2. /\ Tail(q) \in Seq(S) /\ Without(q, 1) \in Seq(S)
      /\ Len(Tail(q)) = Len(q) - 1 /\ Len(Without(q, 1)) = Len(q) - 1
  BY <1>1, TailAt, WithoutProperties
<1>3. \A j \in 1..(Len(q) - 1) : Tail(q)[j] = Without(q, 1)[j]
  BY <1>1, TailAt, WithoutProperties
<1> QED
  BY <1>1, <1>2, <1>3, SeqEqual

-----------------------------------------------------------------------------
(* The inductive invariant.  QueueIsPending is what makes the others stand *)
(* up: a drop or a get() reaches the history through the number it finds   *)
(* in the queue, so that only a pending event can change its fate.         *)

Inv ==
  /\ TypeOK
  /\ Bounded
  /\ QueueIsPending
  /\ OnlyDataDropped
  /\ EndFinishes

LEMMA InitInv == Init => Inv
<1> SUFFICES ASSUME Init PROVE Inv
  OBVIOUS
<1>1. /\ queue = <<>> /\ log = <<>> /\ fate = <<>> /\ waiters = <<>>
      /\ Len(<<>>) = 0
  BY EmptySeq DEF Init
<1>2. TypeOK
  BY <1>1, EmptySeq DEF Init, TypeOK, Kinds
<1>3. Bounded
  BY <1>1, MaxSizeAssumption DEF Bounded
<1>4. QueueIsPending
  BY <1>1 DEF QueueIsPending, HoldsPending
<1>5. OnlyDataDropped /\ EndFinishes
  BY <1>1 DEF OnlyDataDropped, EndFinishes
<1> QED
  BY <1>2, <1>3, <1>4, <1>5 DEF Inv

\* The steps that touch neither the queue nor the history.
LEMMA StillInv ==
  ASSUME Inv, TypeOK', UNCHANGED <<policy, queue, log, fate>>,
         finished => finished'
  PROVE  Inv'
BY DEF Inv, Bounded, QueueIsPending, HoldsPending, OnlyDataDropped, EndFinishes

\* put_nowait() on a queue with room, by whoever calls it.
LEMMA StoreInv ==
  ASSUME Inv, NEW k \in Kinds, ~Full, Store(queue, k),
         fate' = Append(fate, "queued"), UNCHANGED policy, TypeOK'
  PROVE  Inv'
<1>1. /\ queue \in Seq(Message) /\ log \in Seq(Kinds) /\ fate \in Seq(Fates)
      /\ Len(queue) \in Nat /\ Len(log) \in Nat /\ Len(fate) = Len(log)
  BY LenProperties DEF Inv, TypeOK, Fates, QueueIsPending, HoldsPending
<1> DEFINE m == [n |-> Len(log) + 1, kind |-> k]
<1>2. m \in Message
  BY <1>1, MessageFields
<1>3. /\ queue' = Append(queue, m) /\ log' = Append(log, k)
      /\ finished' = (finished \/ k = "end")
  BY DEF Store
<1> HIDE DEF m
<1>4. /\ Len(queue') = Len(queue) + 1
      /\ Len(log') = Len(log) + 1 /\ log'[Len(log) + 1] = k
      /\ \A j \in 1..Len(log) : log'[j] = log[j]
      /\ DOMAIN log' = 1..(Len(log) + 1) /\ DOMAIN log = 1..Len(log)
  BY <1>1, <1>2, <1>3, AppendAt, LenProperties
<1>5. /\ DOMAIN fate' = 1..(Len(log) + 1) /\ DOMAIN fate = 1..Len(log)
      /\ \A j \in 1..Len(log) : fate'[j] = fate[j]
      /\ fate'[Len(log) + 1] = "queued"
  BY <1>1, AppendAt, LenProperties DEF Fates
<1>6. Bounded'
  BY <1>1, <1>4, MaxSizeAssumption DEF Bounded, Full
<1>7. QueueIsPending'
  BY <1>1, <1>3, AppendHolds DEF Inv, QueueIsPending, m
<1>8. OnlyDataDropped'
  BY <1>1, <1>4, <1>5 DEF Inv, OnlyDataDropped
<1>9. EndFinishes'
  <2> SUFFICES ASSUME NEW n \in DOMAIN log', log'[n] = "end"
               PROVE  finished'
    BY DEF EndFinishes
  <2>1. CASE n = Len(log) + 1
    BY <2>1, <1>3, <1>4
  <2>2. CASE n \in DOMAIN log
    <3>1. finished
      BY <2>2, <1>4 DEF Inv, EndFinishes
    <3> QED
      BY <3>1, <1>3
  <2> QED
    BY <2>1, <2>2, <1>1, <1>4
<1> QED
  BY <1>6, <1>7, <1>8, <1>9 DEF Inv

\* The drop of the oldest data event, and the put_nowait() that follows it.
LEMMA DropInv ==
  ASSUME Inv, NEW p \in Putters, NEW k \in Kinds, PutDropping(p, k), TypeOK'
  PROVE  Inv'
<1>1. /\ queue \in Seq(Message) /\ log \in Seq(Kinds) /\ fate \in Seq(Fates)
      /\ Len(queue) \in Nat /\ Len(log) \in Nat /\ Len(fate) = Len(log)
  BY LenProperties DEF Inv, TypeOK, Fates, QueueIsPending, HoldsPending
<1>2. PICK i \in Droppable :
        /\ Store(Without(queue, i), k)
        /\ fate' = Append([fate EXCEPT ![queue[i].n] = "dropped"], "queued")
  BY DEF PutDropping
<1> DEFINE d == queue[i].n
           q == Without(queue, i)
           f == [fate EXCEPT ![d] = "dropped"]
           m == [n |-> Len(log) + 1, kind |-> k]
<1>3. i \in 1..Len(queue) /\ queue[i].kind \notin Terminal
  BY <1>2 DEF Droppable
<1>4. d \in 1..Len(log) /\ log[d] \notin Terminal
  BY <1>1, <1>3 DEF Inv, QueueIsPending, HoldsPending
<1>5. q \in Seq(Message) /\ Len(q) = Len(queue) - 1
  BY <1>1, <1>3, WithoutProperties
<1>6. "dropped" \in Fates \ {"queued"}
  BY DEF Fates
<1>7. HoldsPending(q, log, f)
  BY <1>1, <1>3, <1>6, WithoutHolds DEF Inv, QueueIsPending
<1>8. /\ f \in Seq(Fates) /\ Len(f) = Len(log)
      /\ \A n \in 1..Len(log) : f[n] = IF n = d THEN "dropped" ELSE fate[n]
  BY <1>1, <1>4, <1>6, ExceptSeq
<1>9. m \in Message
  BY <1>1, MessageFields
<1>10. /\ queue' = Append(q, m) /\ log' = Append(log, k)
       /\ finished' = (finished \/ k = "end")
       /\ fate' = Append(f, "queued")
  BY <1>2 DEF Store
<1>11. QueueIsPending'
  BY <1>1, <1>5, <1>7, <1>8, <1>10, AppendHolds DEF QueueIsPending
<1> HIDE DEF d, q, f, m
<1>12. Bounded'
  BY <1>1, <1>5, <1>9, <1>10, AppendAt DEF Inv, Bounded
<1>13. /\ Len(log') = Len(log) + 1 /\ log'[Len(log) + 1] = k
       /\ \A j \in 1..Len(log) : log'[j] = log[j]
       /\ DOMAIN log' = 1..(Len(log) + 1) /\ DOMAIN log = 1..Len(log)
  BY <1>1, <1>10, AppendAt, LenProperties
<1>14. /\ DOMAIN fate' = 1..(Len(log) + 1) /\ DOMAIN fate = 1..Len(log)
       /\ \A j \in 1..Len(log) : fate'[j] = f[j]
       /\ fate'[Len(log) + 1] = "queued"
  BY <1>1, <1>8, <1>10, AppendAt, LenProperties DEF Fates
<1>15. policy' = policy /\ policy = "drop_oldest"
  BY DEF PutDropping
<1>16. OnlyDataDropped'
  <2> SUFFICES ASSUME NEW n \in DOMAIN fate', fate'[n] = "dropped"
               PROVE  log'[n] \notin Terminal
    BY <1>15 DEF OnlyDataDropped
  <2>1. n \in 1..Len(log) /\ f[n] = "dropped" /\ log'[n] = log[n]
    BY <1>1, <1>13, <1>14
  <2>2. CASE n = d
    BY <2>1, <2>2, <1>4
  <2>3. CASE n # d
    BY <2>1, <2>3, <1>8, <1>14 DEF Inv, OnlyDataDropped
  <2> QED
    BY <2>2, <2>3
<1>17. EndFinishes'
  <2> SUFFICES ASSUME NEW n \in DOMAIN log', log'[n] = "end"
               PROVE  finished'
    BY DEF EndFinishes
  <2>1. CASE n = Len(log) + 1
    BY <2>1, <1>10, <1>13
  <2>2. CASE n \in DOMAIN log
    <3>1. finished
      BY <2>2, <1>13 DEF Inv, EndFinishes
    <3> QED
      BY <3>1, <1>10
  <2> QED
    BY <2>1, <2>2, <1>1, <1>13
<1> QED
  BY <1>11, <1>12, <1>16, <1>17 DEF Inv

\* A get() hands the oldest pending event to its consumer.
LEMMA GetInv ==
  ASSUME Inv, NEW c \in Consumers, Get(c), TypeOK'
  PROVE  Inv'
<1>1. /\ queue \in Seq(Message) /\ log \in Seq(Kinds) /\ fate \in Seq(Fates)
      /\ Len(queue) \in Nat /\ Len(log) \in Nat /\ Len(fate) = Len(log)
  BY LenProperties DEF Inv, TypeOK, Fates, QueueIsPending, HoldsPending
<1>2. /\ queue # <<>> /\ queue' = Tail(queue)
      /\ fate' = [fate EXCEPT ![Head(queue).n] = c]
      /\ UNCHANGED <<policy, finished, log>>
  BY DEF Get
<1>3. 1 \in 1..Len(queue) /\ queue' = Without(queue, 1) /\ Head(queue) = queue[1]
  BY <1>1, <1>2, TailIsWithout, TailAt
<1>4. c \in Fates \ {"queued"} /\ c # "dropped"
  BY ConsumersAssumption DEF Fates
<1>5. QueueIsPending'
  <2>1. HoldsPending(Without(queue, 1), log, [fate EXCEPT ![queue[1].n] = c])
    BY <1>1, <1>3, <1>4, WithoutHolds DEF Inv, QueueIsPending
  <2>2. HoldsPending(queue', log', fate')
    BY <2>1, <1>2, <1>3
  <2> QED
    BY <2>2 DEF QueueIsPending, HoldsPending
<1>6. Len(queue') = Len(queue) - 1
  BY <1>1, <1>2, TailAt
<1>7. Bounded'
  BY <1>1, <1>6, MaxSizeAssumption DEF Inv, Bounded
<1>8. queue[1].n \in 1..Len(fate)
  BY <1>3 DEF Inv, QueueIsPending, HoldsPending
<1>9. /\ DOMAIN fate' = DOMAIN fate
      /\ \A n \in DOMAIN fate : fate'[n] = IF n = queue[1].n THEN c ELSE fate[n]
  BY <1>1, <1>2, <1>3, <1>8, ExceptSeq, LenProperties
<1>10. OnlyDataDropped'
  BY <1>2, <1>4, <1>9 DEF Inv, OnlyDataDropped
<1>11. EndFinishes'
  BY <1>2 DEF Inv, EndFinishes
<1> QED
  BY <1>5, <1>7, <1>10, <1>11 DEF Inv

-----------------------------------------------------------------------------
(* Types.                                                                  *)

LEMMA TypeOKStep == TypeOK /\ [Next]_vars => TypeOK'
<1> SUFFICES ASSUME TypeOK, [Next]_vars PROVE TypeOK'
  OBVIOUS
<1> USE DEF TypeOK
<1>1. Len(log) \in Nat /\ Len(log) + 1 \in Nat \ {0}
  BY LenProperties
<1>2. ASSUME NEW q \in Seq(Message), NEW k \in Kinds, Store(q, k)
      PROVE  queue' \in Seq(Message) /\ log' \in Seq(Kinds) /\ finished' \in BOOLEAN
  <2>1. [n |-> Len(log) + 1, kind |-> k] \in Message
    BY <1>1, MessageFields
  <2>2. queue' \in Seq(Message) /\ log' \in Seq(Kinds)
    BY <1>2, <2>1, AppendAt DEF Store
  <2> QED
    BY <1>2, <2>2 DEF Store
<1>3. Append(fate, "queued") \in Seq(Consumers \union {"queued", "dropped"})
  BY AppendAt
<1>4. ASSUME NEW status \in [Putters -> {"idle", "waiting", "woken"}],
             WakeNext(status)
      PROVE  /\ putter' \in [Putters -> {"idle", "waiting", "woken"}]
             /\ waiters' \in Seq(Putters)
  <2>1. CASE waiters = <<>>
    BY <1>4, <2>1 DEF WakeNext
  <2>2. CASE waiters # <<>>
    <3>1. Head(waiters) \in Putters /\ Tail(waiters) \in Seq(Putters)
      BY <2>2, TailAt
    <3>2. /\ putter' = [status EXCEPT ![Head(waiters)] = "woken"]
          /\ waiters' = Tail(waiters)
      BY <1>4, <2>2 DEF WakeNext
    <3> QED
      BY <3>1, <3>2
  <2> QED
    BY <2>1, <2>2
<1>5. ASSUME NEW p \in Putters, NEW k \in Kinds, PutNow(p, k)
      PROVE  TypeOK'
  BY <1>2, <1>3, <1>5 DEF PutNow
<1>6. ASSUME NEW p \in Putters, NEW k \in Kinds, PutDropping(p, k)
      PROVE  TypeOK'
  <2>1. PICK i \in Droppable :
          /\ Store(Without(queue, i), k)
          /\ fate' = Append([fate EXCEPT ![queue[i].n] = "dropped"], "queued")
    BY <1>6 DEF PutDropping
  <2>2. Without(queue, i) \in Seq(Message)
    BY <2>1, WithoutProperties DEF Droppable
  <2>3. [fate EXCEPT ![queue[i].n] = "dropped"]
          \in Seq(Consumers \union {"queued", "dropped"})
    BY ExceptType
  <2>4. fate' \in Seq(Consumers \union {"queued", "dropped"})
    BY <2>1, <2>3, AppendAt
  <2> QED
    BY <1>2, <1>6, <2>1, <2>2, <2>4 DEF PutDropping
<1>7. ASSUME NEW p \in Putters, NEW k \in Kinds, PutBlocks(p, k)
      PROVE  TypeOK'
  BY <1>7, AppendAt DEF PutBlocks
<1>8. ASSUME NEW p \in Putters, PutResumes(p)
      PROVE  TypeOK'
  BY <1>2, <1>3, <1>8 DEF PutResumes
<1>9. ASSUME NEW p \in Putters, PutBlocksAgain(p)
      PROVE  TypeOK'
  BY <1>9, AppendAt DEF PutBlocksAgain
<1>10. ASSUME NEW p \in Putters, PutCancelled(p)
       PROVE  TypeOK'
  <2>1. [putter EXCEPT ![p] = "idle"] \in [Putters -> {"idle", "waiting", "woken"}]
    OBVIOUS
  <2>2. CASE putter[p] = "waiting"
    <3>1. PICK i \in 1..Len(waiters) : waiters' = Without(waiters, i)
      BY <1>10, <2>2 DEF PutCancelled, LeaveLine
    <3>2. waiters' \in Seq(Putters)
      BY <3>1, WithoutProperties
    <3> QED
      BY <1>10, <2>1, <2>2, <3>2 DEF PutCancelled
  <2>3. CASE putter[p] = "woken"
    <3>1. /\ putter' \in [Putters -> {"idle", "waiting", "woken"}]
          /\ waiters' \in Seq(Putters)
      BY <1>4, <1>10, <2>1, <2>3 DEF PutCancelled
    <3> QED
      BY <1>10, <3>1 DEF PutCancelled
  <2> QED
    BY <1>10, <2>2, <2>3 DEF PutCancelled
<1>11. ASSUME NEW c \in Consumers, Get(c)
       PROVE  TypeOK'
  <2>1. queue' \in Seq(Message)
    BY <1>11, TailAt DEF Get
  <2>2. fate' \in Seq(Consumers \union {"queued", "dropped"})
    BY <1>11, ExceptType DEF Get
  <2>3. reading' \in [Consumers -> BOOLEAN]
    BY <1>11 DEF Get
  <2>4. /\ putter' \in [Putters -> {"idle", "waiting", "woken"}]
        /\ waiters' \in Seq(Putters)
    BY <1>4, <1>11 DEF Get
  <2> QED
    BY <1>11, <2>1, <2>2, <2>3, <2>4 DEF Get
<1>12. ASSUME NEW c \in Consumers, Attach(c) \/ TimeoutBreak(c) \/ Disconnect(c)
       PROVE  TypeOK'
  BY <1>12 DEF Attach, TimeoutBreak, Disconnect
<1>13. CASE MarkFinished
  BY <1>13 DEF MarkFinished
<1>14. CASE UNCHANGED vars
  BY <1>14 DEF vars
<1> QED
  BY <1>5, <1>6, <1>7, <1>8, <1>9, <1>10, <1>11, <1>12, <1>13, <1>14
  DEF Next, Put, PutContinues, Iterate

-----------------------------------------------------------------------------
(* Every step keeps the invariant.                                         *)

LEMMA InvStep == Inv /\ [Next]_vars => Inv'
<1> SUFFICES ASSUME Inv, [Next]_vars PROVE Inv'
  OBVIOUS
<1>1. TypeOK'
  BY TypeOKStep DEF Inv
<1>2. ASSUME NEW p \in Putters, NEW k \in Kinds, PutNow(p, k)
      PROVE  Inv'
  BY <1>1, <1>2, StoreInv DEF PutNow
<1>3. ASSUME NEW p \in Putters, NEW k \in Kinds, PutDropping(p, k)
      PROVE  Inv'
  BY <1>1, <1>3, DropInv
<1>4. ASSUME NEW p \in Putters, NEW k \in Kinds, PutBlocks(p, k)
      PROVE  Inv'
  BY <1>1, <1>4, StillInv DEF PutBlocks
<1>5. ASSUME NEW p \in Putters, PutResumes(p)
      PROVE  Inv'
  <2>1. item[p] \in Kinds
    BY DEF Inv, TypeOK
  <2> QED
    BY <1>1, <1>5, <2>1, StoreInv DEF PutResumes
<1>6. ASSUME NEW p \in Putters, PutBlocksAgain(p)
      PROVE  Inv'
  BY <1>1, <1>6, StillInv DEF PutBlocksAgain
<1>7. ASSUME NEW p \in Putters, PutCancelled(p)
      PROVE  Inv'
  BY <1>1, <1>7, StillInv DEF PutCancelled
<1>8. ASSUME NEW c \in Consumers, Get(c)
      PROVE  Inv'
  BY <1>1, <1>8, GetInv
<1>9. ASSUME NEW c \in Consumers, Attach(c) \/ TimeoutBreak(c) \/ Disconnect(c)
      PROVE  Inv'
  BY <1>1, <1>9, StillInv DEF Attach, TimeoutBreak, Disconnect
<1>10. CASE MarkFinished
  BY <1>1, <1>10, StillInv DEF MarkFinished
<1>11. CASE UNCHANGED vars
  BY <1>1, <1>11, StillInv DEF vars
<1> QED
  BY <1>2, <1>3, <1>4, <1>5, <1>6, <1>7, <1>8, <1>9, <1>10, <1>11
  DEF Next, Put, PutContinues, Iterate

\* The invariant holds in every state of every behaviour of the broker.
THEOREM InvCorrect == Spec => []Inv
<1> QED
  BY InitInv, InvStep, PTL DEF Spec

\* The variables keep their types, whatever put(), aiter() and cancellations do.
THEOREM TypeCorrect == Spec => []TypeOK
<1>1. Inv => TypeOK
  BY DEF Inv
<1> QED
  BY <1>1, InvCorrect, PTL

\* The queue never exceeds BROKER_QUEUE_MAXSIZE, also when putters woken by
\* get() race with callers that find the place they were woken for.
THEOREM SizeBounded == Spec => []Bounded
<1>1. Inv => Bounded
  BY DEF Inv
<1> QED
  BY <1>1, InvCorrect, PTL

\* The queue holds the accepted events that have no other fate yet, each once
\* and in order: put() and aiter() lose, repeat and reorder nothing.
THEOREM QueueFaithful == Spec => []QueueIsPending
<1>1. Inv => QueueIsPending
  BY DEF Inv
<1> QED
  BY <1>1, InvCorrect, PTL

\* Only drop_oldest discards events, and never an end or an error.
THEOREM DropsOnlyData == Spec => []OnlyDataDropped
<1>1. Inv => OnlyDataDropped
  BY DEF Inv
<1> QED
  BY <1>1, InvCorrect, PTL

\* A broker that has accepted an end is finished: no consumer polls for ever
\* on a broker whose end went to somebody else.
THEOREM EndMeansFinished == Spec => []EndFinishes
<1>1. Inv => EndFinishes
  BY DEF Inv
<1> QED
  BY <1>1, InvCorrect, PTL

-----------------------------------------------------------------------------
(* The broker implements EventChannel.                                     *)

LEMMA ChannelInit == Init => Channel!CInit
BY DEF Init, Channel!CInit

\* Events that neither enter nor leave: the channel does not see the step.
LEMMA ChannelStutters ==
  ASSUME UNCHANGED <<policy, finished, log, fate>>
  PROVE  UNCHANGED Channel!chanVars
BY DEF Channel!chanVars

\* put_nowait() is the acceptance of one event.
LEMMA ChannelAccepts ==
  ASSUME NEW q, NEW k \in Kinds, Store(q, k),
         fate' = Append(fate, "queued"), UNCHANGED policy
  PROVE  Channel!CNext
<1>1. Channel!Accept(k)
  BY DEF Store, Channel!Accept, Channel!Closes
<1> QED
  BY <1>1 DEF Channel!CNext

\* The first data event of the queue is the oldest one the channel may drop.
LEMMA ChannelReplaces ==
  ASSUME Inv, NEW p \in Putters, NEW k \in Kinds, PutDropping(p, k)
  PROVE  Channel!CNext
<1>1. /\ Len(queue) \in Nat /\ Len(log) \in Nat /\ Len(fate) = Len(log)
      /\ DOMAIN fate = 1..Len(fate)
  BY LenProperties DEF Inv, TypeOK, QueueIsPending, HoldsPending
<1>2. PICK i \in Droppable :
        /\ IsFirst(i, Droppable)
        /\ Store(Without(queue, i), k)
        /\ fate' = Append([fate EXCEPT ![queue[i].n] = "dropped"], "queued")
  BY DEF PutDropping
<1>3. i \in 1..Len(queue) /\ queue[i].kind \notin Terminal
  BY <1>2 DEF Droppable
<1>4. queue[i].n \in Channel!Droppable
  BY <1>1, <1>3
  DEF Inv, QueueIsPending, HoldsPending, Channel!Droppable, Channel!Pending
<1>5. ASSUME NEW m \in Channel!Droppable
      PROVE  queue[i].n <= m
  <2>1. m \in 1..Len(fate) /\ fate[m] = "queued" /\ log[m] \notin Terminal
    BY <1>1, <1>5 DEF Channel!Droppable, Channel!Pending
  <2>2. PICK j \in 1..Len(queue) : queue[j].n = m
    BY <2>1 DEF Inv, QueueIsPending, HoldsPending
  <2>3. j \in Droppable
    BY <2>1, <2>2 DEF Inv, QueueIsPending, HoldsPending, Droppable
  <2>4. i <= j
    BY <1>2, <2>3 DEF IsFirst
  <2>5. queue[i].n \in 1..Len(fate)
    BY <1>3 DEF Inv, QueueIsPending, HoldsPending
  <2>6. CASE i = j
    BY <2>2, <2>5, <2>6, <1>1
  <2>7. CASE i < j
    <3>1. queue[i].n < queue[j].n
      BY <2>7, <1>3 DEF Inv, QueueIsPending, HoldsPending
    <3> QED
      BY <3>1, <2>1, <2>2, <2>5, <1>1
  <2> QED
    BY <2>4, <2>6, <2>7, <1>1, <1>3
<1>6. Channel!IsOldest(queue[i].n, Channel!Droppable)
  BY <1>4, <1>5 DEF Channel!IsOldest
<1>7. policy = "drop_oldest" /\ policy' = policy
  BY DEF PutDropping
<1>8. /\ log' = Append(log, k)
      /\ finished' = (finished \/ k = "end")
  BY <1>2 DEF Store
<1>9. Channel!Replace(k)
  BY <1>2, <1>4, <1>6, <1>7, <1>8 DEF Channel!Replace, Channel!Closes
<1> QED
  BY <1>9 DEF Channel!CNext

\* The head of the queue is the oldest pending event.
LEMMA ChannelDelivers ==
  ASSUME Inv, NEW c \in Consumers, Get(c)
  PROVE  Channel!CNext
<1>1. /\ queue \in Seq(Message) /\ Len(queue) \in Nat
      /\ Len(log) \in Nat /\ Len(fate) = Len(log)
      /\ DOMAIN fate = 1..Len(fate)
  BY LenProperties DEF Inv, TypeOK, QueueIsPending, HoldsPending
<1>2. /\ queue # <<>> /\ fate' = [fate EXCEPT ![Head(queue).n] = c]
      /\ UNCHANGED <<policy, finished, log>>
  BY DEF Get
<1>3. Head(queue) = queue[1] /\ 1 \in 1..Len(queue)
  BY <1>1, <1>2, TailAt, TailIsWithout
<1>4. queue[1].n \in Channel!Pending
  BY <1>1, <1>3 DEF Inv, QueueIsPending, HoldsPending, Channel!Pending
<1>5. ASSUME NEW m \in Channel!Pending
      PROVE  queue[1].n <= m
  <2>1. m \in 1..Len(fate) /\ fate[m] = "queued"
    BY <1>1, <1>5 DEF Channel!Pending
  <2>2. PICK j \in 1..Len(queue) : queue[j].n = m
    BY <2>1 DEF Inv, QueueIsPending, HoldsPending
  <2>3. queue[1].n \in 1..Len(fate)
    BY <1>3 DEF Inv, QueueIsPending, HoldsPending
  <2>4. CASE j = 1
    BY <2>2, <2>3, <2>4, <1>1
  <2>5. CASE 1 < j
    <3>1. queue[1].n < queue[j].n
      BY <2>5, <1>3 DEF Inv, QueueIsPending, HoldsPending
    <3> QED
      BY <3>1, <2>1, <2>2, <2>3, <1>1
  <2> QED
    BY <2>4, <2>5, <1>1
<1>6. Channel!IsOldest(queue[1].n, Channel!Pending)
  BY <1>4, <1>5 DEF Channel!IsOldest
<1>7. Channel!Deliver(c)
  BY <1>2, <1>3, <1>4, <1>6 DEF Channel!Deliver
<1> QED
  BY <1>7 DEF Channel!CNext

LEMMA ChannelStep == Inv /\ [Next]_vars => [Channel!CNext]_(Channel!chanVars)
<1> SUFFICES ASSUME Inv, [Next]_vars
             PROVE  Channel!CNext \/ UNCHANGED Channel!chanVars
  OBVIOUS
<1>1. ASSUME NEW p \in Putters, NEW k \in Kinds, PutNow(p, k)
      PROVE  Channel!CNext
  BY <1>1, ChannelAccepts DEF PutNow
<1>2. ASSUME NEW p \in Putters, NEW k \in Kinds, PutDropping(p, k)
      PROVE  Channel!CNext
  BY <1>2, ChannelReplaces
<1>3. ASSUME NEW p \in Putters, PutResumes(p)
      PROVE  Channel!CNext
  <2>1. item[p] \in Kinds
    BY DEF Inv, TypeOK
  <2> QED
    BY <1>3, <2>1, ChannelAccepts DEF PutResumes
<1>4. ASSUME NEW c \in Consumers, Get(c)
      PROVE  Channel!CNext
  BY <1>4, ChannelDelivers
<1>5. ASSUME NEW p \in Putters,
             PutBlocksAgain(p) \/ PutCancelled(p)
               \/ \E k \in Kinds : PutBlocks(p, k)
      PROVE  UNCHANGED Channel!chanVars
  BY <1>5, ChannelStutters DEF PutBlocksAgain, PutCancelled, PutBlocks
<1>6. ASSUME NEW c \in Consumers, Attach(c) \/ TimeoutBreak(c) \/ Disconnect(c)
      PROVE  UNCHANGED Channel!chanVars
  BY <1>6, ChannelStutters DEF Attach, TimeoutBreak, Disconnect
<1>7. CASE MarkFinished
  <2>1. Channel!Close
    BY <1>7 DEF MarkFinished, Channel!Close
  <2> QED
    BY <2>1 DEF Channel!CNext
<1>8. CASE UNCHANGED vars
  BY <1>8, ChannelStutters DEF vars
<1> QED
  BY <1>1, <1>2, <1>3, <1>4, <1>5, <1>6, <1>7, <1>8
  DEF Next, Put, PutContinues, Iterate

\* The broker is a channel: every event accepted is handed to one consumer,
\* oldest first, or dropped under drop_oldest, oldest data event first.
THEOREM Refinement == Spec => ImplementsChannel
<1>1. Init => Channel!CInit
  BY ChannelInit
<1>2. Inv /\ [Next]_vars => [Channel!CNext]_(Channel!chanVars)
  BY ChannelStep
<1> QED
  BY <1>1, <1>2, InvCorrect, PTL DEF Spec, ImplementsChannel, Channel!CSpec

-----------------------------------------------------------------------------
(* The line of waiting putters.                                            *)

\* WaitersInLine, of any statuses s and line w.
InLine(s, w) ==
  /\ \A i \in 1..Len(w) : s[w[i]] = "waiting"
  /\ \A i, j \in 1..Len(w) : w[i] = w[j] => i = j
  /\ \A p \in Putters : s[p] = "waiting" => \E i \in 1..Len(w) : w[i] = p

Status == [Putters -> {"idle", "waiting", "woken"}]

\* A putter that was not waiting goes to the end of the line.
LEMMA JoinsLine ==
  ASSUME NEW s \in Status, NEW w \in Seq(Putters), NEW p \in Putters,
         InLine(s, w), s[p] # "waiting"
  PROVE  InLine([s EXCEPT ![p] = "waiting"], Append(w, p))
<1> DEFINE t == [s EXCEPT ![p] = "waiting"]
           v == Append(w, p)
<1>1. Len(w) \in Nat
  BY LenProperties
<1>2. Len(v) = Len(w) + 1 /\ v[Len(w) + 1] = p /\ \A j \in 1..Len(w) : v[j] = w[j]
  BY AppendAt
<1>3. \A r \in Putters : t[r] = IF r = p THEN "waiting" ELSE s[r]
  BY DEF Status
<1>4. \A j \in 1..Len(w) : w[j] \in Putters /\ w[j] # p
  BY ElementOfSeq DEF InLine
<1> HIDE DEF t, v
<1>5. \A i \in 1..Len(v) : t[v[i]] = "waiting"
  BY <1>1, <1>2, <1>3, <1>4 DEF InLine
<1>6. \A i, j \in 1..Len(v) : v[i] = v[j] => i = j
  BY <1>1, <1>2, <1>4 DEF InLine
<1>7. \A r \in Putters : t[r] = "waiting" => \E i \in 1..Len(v) : v[i] = r
  <2> SUFFICES ASSUME NEW r \in Putters, t[r] = "waiting"
               PROVE  \E i \in 1..Len(v) : v[i] = r
    OBVIOUS
  <2>1. CASE r = p
    BY <2>1, <1>1, <1>2
  <2>2. CASE r # p
    <3>1. PICK i \in 1..Len(w) : w[i] = r
      BY <2>2, <1>3 DEF InLine
    <3> QED
      BY <3>1, <1>1, <1>2
  <2> QED
    BY <2>1, <2>2
<1>8. InLine(t, v)
  BY <1>5, <1>6, <1>7 DEF InLine
<1> QED
  BY <1>8 DEF t, v

\* A putter leaves the line from any place, woken or cancelled.
LEMMA LeavesLine ==
  ASSUME NEW s \in Status, NEW w \in Seq(Putters), NEW i \in 1..Len(w),
         NEW a \in {"idle", "woken"}, InLine(s, w)
  PROVE  InLine([s EXCEPT ![w[i]] = a], Without(w, i))
<1> DEFINE t == [s EXCEPT ![w[i]] = a]
           v == Without(w, i)
           at(j) == IF j < i THEN j ELSE j + 1
<1>1. Len(w) \in Nat /\ w[i] \in Putters
  BY LenProperties, ElementOfSeq
<1>2. /\ Len(v) = Len(w) - 1
      /\ \A j \in 1..(Len(w) - 1) : v[j] = IF j < i THEN w[j] ELSE w[j + 1]
  BY WithoutProperties
<1>3. \A r \in Putters : t[r] = IF r = w[i] THEN a ELSE s[r]
  BY DEF Status
<1>4. \A j \in 1..Len(v) : at(j) \in 1..Len(w) /\ at(j) # i /\ v[j] = w[at(j)]
  BY <1>1, <1>2
<1>5. \A j \in 1..Len(w) : w[j] \in Putters /\ (j # i => w[j] # w[i])
  BY ElementOfSeq DEF InLine
<1>6. \A j \in 1..Len(v) : t[v[j]] = "waiting"
  <2> SUFFICES ASSUME NEW j \in 1..Len(v) PROVE t[v[j]] = "waiting"
    OBVIOUS
  <2>1. PICK k \in 1..Len(w) : k # i /\ v[j] = w[k]
    BY <1>4
  <2>2. w[k] \in Putters /\ w[k] # w[i] /\ s[w[k]] = "waiting"
    BY <2>1, <1>5 DEF InLine
  <2> QED
    BY <2>1, <2>2, <1>3
<1>7. \A j, k \in 1..Len(v) : v[j] = v[k] => j = k
  <2> SUFFICES ASSUME NEW j \in 1..Len(v), NEW k \in 1..Len(v), v[j] = v[k]
               PROVE  j = k
    OBVIOUS
  <2>1. at(j) \in 1..Len(w) /\ at(k) \in 1..Len(w) /\ w[at(j)] = w[at(k)]
    BY <1>4
  <2>2. at(j) = at(k)
    BY <2>1 DEF InLine
  <2> QED
    BY <2>2, <1>1, <1>2
<1>8. \A r \in Putters : t[r] = "waiting" => \E j \in 1..Len(v) : v[j] = r
  <2> SUFFICES ASSUME NEW r \in Putters, t[r] = "waiting"
               PROVE  \E j \in 1..Len(v) : v[j] = r
    OBVIOUS
  <2>1. r # w[i] /\ s[r] = "waiting"
    BY <1>3
  <2>2. PICK k \in 1..Len(w) : w[k] = r
    BY <2>1 DEF InLine
  <2>3. CASE k < i
    BY <2>2, <2>3, <1>1, <1>2
  <2>4. CASE k > i
    <3>1. k - 1 \in 1..Len(v) /\ v[k - 1] = w[k]
      BY <2>4, <1>1, <1>2
    <3> QED
      BY <3>1, <2>2
  <2> QED
    BY <2>1, <2>2, <2>3, <2>4, <1>1
<1> HIDE DEF t, v
<1>9. InLine(t, v)
  BY <1>6, <1>7, <1>8 DEF InLine
<1> QED
  BY <1>9 DEF t, v

\* A putter that is not in the line may change between the other states.
LEMMA OutOfLine ==
  ASSUME NEW s \in Status, NEW w \in Seq(Putters), NEW p \in Putters,
         NEW a \in {"idle", "woken"}, InLine(s, w), s[p] # "waiting"
  PROVE  InLine([s EXCEPT ![p] = a], w)
<1>1. \A r \in Putters : [s EXCEPT ![p] = a][r] = IF r = p THEN a ELSE s[r]
  BY DEF Status
<1>2. \A j \in 1..Len(w) : w[j] \in Putters /\ w[j] # p
  BY ElementOfSeq DEF InLine
<1> QED
  BY <1>1, <1>2 DEF InLine

\* get(), or a cancelled putter that passes its wake-up on.
LEMMA WakesLine ==
  ASSUME NEW s \in Status, waiters \in Seq(Putters), InLine(s, waiters),
         WakeNext(s)
  PROVE  InLine(putter', waiters')
<1>1. CASE waiters = <<>>
  BY <1>1 DEF WakeNext
<1>2. CASE waiters # <<>>
  <2>1. 1 \in 1..Len(waiters) /\ Tail(waiters) = Without(waiters, 1)
    BY <1>2, TailIsWithout
  <2>2. Head(waiters) = waiters[1]
    BY <1>2, TailAt
  <2>3. InLine([s EXCEPT ![waiters[1]] = "woken"], Without(waiters, 1))
    BY <2>1, LeavesLine
  <2> QED
    BY <1>2, <2>1, <2>2, <2>3 DEF WakeNext
<1> QED
  BY <1>1, <1>2

LEMMA LineStep == TypeOK /\ WaitersInLine /\ [Next]_vars => WaitersInLine'
<1> SUFFICES ASSUME TypeOK, WaitersInLine, [Next]_vars
             PROVE  InLine(putter', waiters')
  BY DEF WaitersInLine, InLine
<1>1. putter \in Status /\ waiters \in Seq(Putters) /\ InLine(putter, waiters)
  BY DEF TypeOK, WaitersInLine, InLine, Status
<1>2. ASSUME UNCHANGED <<putter, waiters>>
      PROVE  InLine(putter', waiters')
  BY <1>1, <1>2
<1>3. ASSUME NEW p \in Putters, NEW k \in Kinds, PutNow(p, k) \/ PutDropping(p, k)
      PROVE  InLine(putter', waiters')
  BY <1>2, <1>3 DEF PutNow, PutDropping
<1>4. ASSUME NEW p \in Putters,
             PutBlocksAgain(p) \/ \E k \in Kinds : PutBlocks(p, k)
      PROVE  InLine(putter', waiters')
  <2>1. /\ putter[p] # "waiting"
        /\ putter' = [putter EXCEPT ![p] = "waiting"]
        /\ waiters' = Append(waiters, p)
    BY <1>4 DEF PutBlocksAgain, PutBlocks, Callable
  <2> QED
    BY <2>1, <1>1, JoinsLine
<1>5. ASSUME NEW p \in Putters, PutResumes(p)
      PROVE  InLine(putter', waiters')
  BY <1>1, <1>5, OutOfLine DEF PutResumes
<1>6. ASSUME NEW p \in Putters, PutCancelled(p)
      PROVE  InLine(putter', waiters')
  <2>1. CASE putter[p] = "waiting"
    <3>1. PICK i \in 1..Len(waiters) :
            waiters[i] = p /\ waiters' = Without(waiters, i)
      BY <1>6, <2>1 DEF PutCancelled, LeaveLine
    <3>2. putter' = [putter EXCEPT ![waiters[i]] = "idle"]
      BY <1>6, <2>1, <3>1 DEF PutCancelled
    <3> QED
      BY <3>1, <3>2, <1>1, LeavesLine
  <2>2. CASE putter[p] = "woken"
    <3> DEFINE s == [putter EXCEPT ![p] = "idle"]
    <3>1. s \in Status
      BY <1>1 DEF Status
    <3>2. InLine(s, waiters)
      BY <1>1, <2>2, OutOfLine
    <3>3. (putter' = s /\ UNCHANGED waiters) \/ WakeNext(s)
      BY <1>6, <2>2 DEF PutCancelled
    <3> HIDE DEF s
    <3> QED
      BY <3>1, <3>2, <3>3, <1>1, WakesLine
  <2> QED
    BY <1>6, <2>1, <2>2 DEF PutCancelled
<1>7. ASSUME NEW c \in Consumers, Get(c)
      PROVE  InLine(putter', waiters')
  BY <1>1, <1>7, WakesLine DEF Get
<1>8. ASSUME NEW c \in Consumers, Attach(c) \/ TimeoutBreak(c) \/ Disconnect(c)
      PROVE  InLine(putter', waiters')
  BY <1>2, <1>8 DEF Attach, TimeoutBreak, Disconnect
<1>9. CASE MarkFinished \/ UNCHANGED vars
  BY <1>2, <1>9 DEF MarkFinished, vars
<1> QED
  BY <1>3, <1>4, <1>5, <1>6, <1>7, <1>8, <1>9
  DEF Next, Put, PutContinues, Iterate

\* Each waiting put() stands in the line once, and nobody else does: a get()
\* never spends its wake-up on a caller that is gone.
THEOREM LineCorrect == Spec => []WaitersInLine
<1>1. Init => WaitersInLine
  BY EmptySeq DEF Init, WaitersInLine
<1>2. TypeOK /\ WaitersInLine /\ [Next]_vars => WaitersInLine'
  BY LineStep
<1> QED
  BY <1>1, <1>2, TypeCorrect, PTL DEF Spec


-----------------------------------------------------------------------------
(* The wake-ups.  Only finitely many putters are woken at a time, because  *)
(* each step wakes at most one: that is what lets their number be counted, *)
(* with no assumption on how many coroutines may ever call put().          *)

Awake(s) == {p \in Putters : s[p] = "woken"}

\* A woken putter that stores its event, waits again or is cancelled takes
\* its wake-up with it; any other putter changes nothing.
LEMMA SleepCount ==
  ASSUME NEW s \in Status, NEW p \in Putters, NEW a \in {"idle", "waiting"},
         IsFiniteSet(Awake(s))
  PROVE  /\ IsFiniteSet(Awake([s EXCEPT ![p] = a]))
         /\ Cardinality(Awake([s EXCEPT ![p] = a])) =
              IF s[p] = "woken" THEN Cardinality(Awake(s)) - 1
                                ELSE Cardinality(Awake(s))
<1>1. Awake([s EXCEPT ![p] = a]) = Awake(s) \ {p}
  BY DEF Awake, Status
<1>2. p \in Awake(s) <=> s[p] = "woken"
  BY DEF Awake
<1> QED
  BY <1>1, <1>2, FS_RemoveElement

\* Waking a putter that waits adds one wake-up.
LEMMA WakeCount ==
  ASSUME NEW s \in Status, NEW p \in Putters, s[p] = "waiting",
         IsFiniteSet(Awake(s))
  PROVE  /\ IsFiniteSet(Awake([s EXCEPT ![p] = "woken"]))
         /\ Cardinality(Awake([s EXCEPT ![p] = "woken"])) =
              Cardinality(Awake(s)) + 1
<1>1. Awake([s EXCEPT ![p] = "woken"]) = Awake(s) \union {p}
  BY DEF Awake, Status
<1>2. p \notin Awake(s)
  BY DEF Awake
<1> QED
  BY <1>1, <1>2, FS_AddElement

\* What a get() or a cancellation does with the wake-up it has to give: it
\* goes to a putter of the line, unless there is none.
LEMMA WakeNextCount ==
  ASSUME NEW s \in Status, waiters \in Seq(Putters), InLine(s, waiters),
         IsFiniteSet(Awake(s)), WakeNext(s)
  PROVE  /\ IsFiniteSet(Awake(putter'))
         /\ waiters' # <<>> =>
              /\ waiters # <<>>
              /\ Cardinality(Awake(putter')) = Cardinality(Awake(s)) + 1
<1>1. CASE waiters = <<>>
  BY <1>1 DEF WakeNext
<1>2. CASE waiters # <<>>
  <2>1. 1 \in 1..Len(waiters) /\ Head(waiters) = waiters[1]
    BY <1>2, TailIsWithout, TailAt
  <2>2. Head(waiters) \in Putters /\ s[Head(waiters)] = "waiting"
    BY <1>2, <2>1, TailAt DEF InLine
  <2>3. putter' = [s EXCEPT ![Head(waiters)] = "woken"]
    BY <1>2 DEF WakeNext
  <2> QED
    BY <1>2, <2>2, <2>3, WakeCount
<1> QED
  BY <1>1, <1>2

WakeInv == IsFiniteSet(Awake(putter)) /\ NoLostWakeup

\* Steps that leave the line and the statuses alone and free no place.
LEMMA SameLineWake ==
  ASSUME TypeOK, TypeOK', WakeInv, UNCHANGED <<putter, waiters>>,
         Len(queue') >= Len(queue)
  PROVE  WakeInv'
<1>1. /\ Len(queue) \in Nat /\ Len(queue') \in Nat /\ MaxSize \in Nat
      /\ Cardinality(Awake(putter)) \in Nat
  BY LenProperties, MaxSizeAssumption, FS_CardinalityType DEF TypeOK, WakeInv
<1>2. Awake(putter') = Awake(putter)
  BY DEF Awake
<1>3. waiters # <<>> => Cardinality(Awake(putter)) + Len(queue) >= MaxSize
  BY DEF WakeInv, NoLostWakeup, Awake
<1>4. waiters' # <<>> => Cardinality(Awake(putter')) + Len(queue') >= MaxSize
  BY <1>1, <1>2, <1>3
<1> QED
  BY <1>2, <1>4 DEF WakeInv, NoLostWakeup, Awake

LEMMA WakeStep ==
  Inv /\ WaitersInLine /\ WakeInv /\ [Next]_vars => WakeInv'
<1> SUFFICES ASSUME Inv, WaitersInLine, WakeInv, [Next]_vars
             PROVE  WakeInv'
  OBVIOUS
<1> DEFINE woken == Cardinality(Awake(putter))
           covered == waiters' # <<>> =>
                        Cardinality(Awake(putter')) + Len(queue') >= MaxSize
<1>1. TypeOK /\ TypeOK'
  BY TypeOKStep DEF Inv
<1>2. /\ putter \in Status /\ waiters \in Seq(Putters) /\ queue \in Seq(Message)
      /\ InLine(putter, waiters)
  BY <1>1 DEF TypeOK, WaitersInLine, InLine, Status
<1>3. IsFiniteSet(Awake(putter)) /\ woken \in Nat
  BY FS_CardinalityType DEF WakeInv
<1>4. Len(queue) \in Nat /\ Len(queue') \in Nat /\ MaxSize \in Nat
  BY <1>1, LenProperties, MaxSizeAssumption DEF TypeOK
<1>5. waiters # <<>> => woken + Len(queue) >= MaxSize
  BY DEF WakeInv, NoLostWakeup, Awake
<1>6. ASSUME IsFiniteSet(Awake(putter')), covered
      PROVE  WakeInv'
  BY <1>6 DEF WakeInv, NoLostWakeup, Awake
<1> HIDE DEF woken, covered
<1>7. ASSUME NEW k \in Kinds, Store(queue, k)
      PROVE  Len(queue') = Len(queue) + 1
  <2>1. Len(log) + 1 \in Nat \ {0}
    BY <1>1, LenProperties DEF TypeOK
  <2>2. [n |-> Len(log) + 1, kind |-> k] \in Message
    BY <2>1, MessageFields
  <2> QED
    BY <1>2, <1>7, <2>2, AppendAt DEF Store
<1>8. ASSUME NEW p \in Putters, NEW k \in Kinds, PutNow(p, k)
      PROVE  WakeInv'
  <2>1. Len(queue') >= Len(queue)
    BY <1>4, <1>7, <1>8 DEF PutNow
  <2> QED
    BY <1>1, <1>8, <2>1, SameLineWake DEF PutNow
<1>9. ASSUME NEW p \in Putters, NEW k \in Kinds, PutDropping(p, k)
      PROVE  WakeInv'
  <2>1. PICK i \in 1..Len(queue) : Store(Without(queue, i), k)
    BY <1>9 DEF PutDropping, Droppable
  <2>2. Without(queue, i) \in Seq(Message) /\ Len(Without(queue, i)) = Len(queue) - 1
    BY <1>2, WithoutProperties
  <2>3. Len(log) + 1 \in Nat \ {0}
    BY <1>1, LenProperties DEF TypeOK
  <2>4. [n |-> Len(log) + 1, kind |-> k] \in Message
    BY <2>3, MessageFields
  <2>5. Len(queue') = Len(queue) - 1 + 1
    BY <2>1, <2>2, <2>4, AppendAt DEF Store
  <2>6. Len(queue') >= Len(queue)
    BY <1>4, <2>5
  <2> QED
    BY <1>1, <1>9, <2>6, SameLineWake DEF PutDropping
\* Who goes to the line has found the queue full: no place is free.
<1>10. ASSUME NEW p \in Putters,
              PutBlocksAgain(p) \/ \E k \in Kinds : PutBlocks(p, k)
       PROVE  WakeInv'
  <2>1. /\ putter' = [putter EXCEPT ![p] = "waiting"]
        /\ queue' = queue /\ Len(queue) >= MaxSize
    BY <1>10 DEF PutBlocksAgain, PutBlocks, Full
  <2>2. IsFiniteSet(Awake(putter'))
    BY <1>2, <1>3, <2>1, SleepCount
  <2>3. Cardinality(Awake(putter')) \in Nat
    BY <2>2, FS_CardinalityType
  <2>4. covered
    BY <1>4, <2>1, <2>3 DEF covered
  <2> QED
    BY <1>6, <2>2, <2>4
\* The wake-up is spent on the place it was given for.
<1>11. ASSUME NEW p \in Putters, PutResumes(p)
       PROVE  WakeInv'
  <2>1. item[p] \in Kinds
    BY <1>1 DEF TypeOK
  <2>2. Len(queue') = Len(queue) + 1
    BY <1>7, <1>11, <2>1 DEF PutResumes
  <2>3. IsFiniteSet(Awake(putter')) /\ Cardinality(Awake(putter')) = woken - 1
    BY <1>2, <1>3, <1>11, SleepCount DEF PutResumes, woken
  <2>4. waiters' = waiters
    BY <1>11 DEF PutResumes
  <2>5. covered
    BY <1>3, <1>4, <1>5, <2>2, <2>3, <2>4 DEF covered
  <2> QED
    BY <1>6, <2>3, <2>5
<1>12. ASSUME NEW p \in Putters, PutCancelled(p)
       PROVE  WakeInv'
  <2> DEFINE s == [putter EXCEPT ![p] = "idle"]
  <2>1. s \in Status /\ IsFiniteSet(Awake(s)) /\ queue' = queue
    BY <1>2, <1>3, <1>12, SleepCount DEF Status, PutCancelled
  <2>2. CASE putter[p] = "waiting"
    <3>1. putter' = s /\ Cardinality(Awake(s)) = woken
      BY <1>2, <1>3, <1>12, <2>2, SleepCount DEF PutCancelled, woken
    <3>2. waiters # <<>>
      BY <1>2, <2>2, EmptySeq DEF InLine
    <3>3. covered
      BY <1>5, <2>1, <3>1, <3>2 DEF covered
    <3> QED
      BY <1>6, <2>1, <3>1, <3>3
  <2>3. CASE putter[p] = "woken" /\ Full
    <3>1. putter' = s
      BY <1>12, <2>3 DEF PutCancelled
    <3>2. Cardinality(Awake(s)) \in Nat
      BY <2>1, FS_CardinalityType
    <3>3. covered
      BY <1>4, <2>1, <2>3, <3>1, <3>2 DEF covered, Full
    <3> QED
      BY <1>6, <2>1, <3>1, <3>3
  <2>4. CASE putter[p] = "woken" /\ ~Full
    <3>1. WakeNext(s)
      BY <1>12, <2>4 DEF PutCancelled
    <3>2. InLine(s, waiters)
      BY <1>2, <2>4, OutOfLine
    <3>3. Cardinality(Awake(s)) = woken - 1
      BY <1>2, <1>3, <2>4, SleepCount DEF woken
    <3> HIDE DEF s
    <3>4. /\ IsFiniteSet(Awake(putter'))
          /\ waiters' # <<>> =>
               /\ waiters # <<>>
               /\ Cardinality(Awake(putter')) = Cardinality(Awake(s)) + 1
      BY <1>2, <2>1, <3>1, <3>2, WakeNextCount
    <3>5. covered
      BY <1>3, <1>4, <1>5, <2>1, <3>3, <3>4 DEF covered
    <3> QED
      BY <1>6, <3>4, <3>5
  <2> QED
    BY <1>12, <2>2, <2>3, <2>4 DEF PutCancelled
\* A place becomes free, and the head of the line is woken for it.
<1>13. ASSUME NEW c \in Consumers, Get(c)
       PROVE  WakeInv'
  <2>1. Len(queue') = Len(queue) - 1 /\ WakeNext(putter)
    BY <1>2, <1>13, TailAt DEF Get
  <2>2. /\ IsFiniteSet(Awake(putter'))
        /\ waiters' # <<>> =>
             /\ waiters # <<>>
             /\ Cardinality(Awake(putter')) = Cardinality(Awake(putter)) + 1
    BY <1>2, <1>3, <2>1, WakeNextCount
  <2>3. covered
    BY <1>3, <1>4, <1>5, <2>1, <2>2 DEF covered, woken
  <2> QED
    BY <1>6, <2>2, <2>3
<1>14. ASSUME NEW c \in Consumers, Attach(c) \/ TimeoutBreak(c) \/ Disconnect(c)
       PROVE  WakeInv'
  <2>1. UNCHANGED <<putter, waiters, queue>>
    BY <1>14 DEF Attach, TimeoutBreak, Disconnect
  <2> QED
    BY <1>1, <1>4, <2>1, SameLineWake
<1>15. CASE MarkFinished \/ UNCHANGED vars
  <2>1. UNCHANGED <<putter, waiters, queue>>
    BY <1>15 DEF MarkFinished, vars
  <2> QED
    BY <1>1, <1>4, <2>1, SameLineWake
<1> QED
  BY <1>8, <1>9, <1>10, <1>11, <1>12, <1>13, <1>14, <1>15
  DEF Next, Put, PutContinues, Iterate

\* No wake-up is lost, for any number of callers of put(), cancelled or not:
\* while some wait in line, every free place of the queue has a woken caller
\* coming for it, so that none waits for a place that nobody will take.
THEOREM WakeupsKept == Spec => []NoLostWakeup
<1>1. Init => WakeInv
  <2> SUFFICES ASSUME Init PROVE WakeInv
    OBVIOUS
  <2>1. Awake(putter) = {} /\ waiters = <<>>
    BY DEF Init, Awake
  <2> QED
    BY <2>1, FS_EmptySet DEF WakeInv, NoLostWakeup
<1>2. Inv /\ WaitersInLine /\ WakeInv /\ [Next]_vars => WakeInv'
  BY WakeStep
<1>3. WakeInv => NoLostWakeup
  BY DEF WakeInv
<1> QED
  BY <1>1, <1>2, <1>3, InvCorrect, LineCorrect, PTL DEF Spec
-----------------------------------------------------------------------------
(* The context.                                                            *)

\* The broker's steps that happen here: its callers put data and ends only.
Uses ==
  \/ \E p \in Putters, k \in {"data", "end"} : StartPut(p, k)
  \/ \E p \in Putters : PutContinues(p) \/ PutCancelled(p)
  \/ \E c \in Consumers : Attach(c) \/ Iterate(c) \/ Disconnect(c)
  \/ MarkFinished

\* Every step of the context is one of these, or leaves the broker alone.
LEMMA ContextUses == [RunNext]_allVars => Uses \/ UNCHANGED vars
<1> SUFFICES ASSUME [RunNext]_allVars PROVE Uses \/ UNCHANGED vars
  OBVIOUS
<1>1. RunTask \in Putters
  BY TaskAssumption
<1>2. CASE Emit
  BY <1>1, <1>2 DEF Emit, Uses
<1>3. CASE GraphEnds \/ GraphFails
  BY <1>3 DEF GraphEnds, GraphFails
<1>4. CASE Task
  <2>1. CASE TaskCancelled \/ HandlerCancelled
    BY <1>1, <2>1 DEF TaskCancelled, HandlerCancelled, LeavePut, Uses
  <2>2. CASE TaskSignals
    BY <1>1, <2>2 DEF TaskSignals, PutEnd, Uses
  <2>3. CASE TaskContinues
    BY <1>1, <2>3 DEF TaskContinues, Uses
  <2>4. CASE Finish
    BY <2>4 DEF Finish, Uses
  <2> QED
    BY <1>4, <2>1, <2>2, <2>3, <2>4 DEF Task
<1>5. ASSUME NEW q \in Requests, CancelRun(q) \/ Join(q) \/ Proceed(q)
      PROVE  Uses \/ UNCHANGED vars
  <2>1. q \in Putters
    BY DEF Requests
  <2>2. CASE CancelRun(q)
    BY <2>1, <2>2 DEF CancelRun, PutEnd, Uses
  <2>3. CASE Join(q)
    BY <2>3 DEF Join
  <2>4. CASE Proceed(q)
    BY <2>1, <2>4
    DEF Proceed, RequestContinues, WriteStatus, JoinTimeout, Return, Uses
  <2> QED
    BY <1>5, <2>2, <2>3, <2>4
<1>6. ASSUME NEW c \in Consumers, Admit(c) \/ Connect(c) \/ Read(c) \/ Leave(c)
      PROVE  Uses \/ UNCHANGED vars
  BY <1>6 DEF Admit, Connect, Read, Leave, Uses
<1>7. CASE UNCHANGED allVars
  BY <1>7 DEF allVars
<1> QED
  BY <1>2, <1>3, <1>4, <1>5, <1>6, <1>7 DEF RunNext

\* The broker's own specification allows all of them.
LEMMA UsesAllowed == Uses => Next
<1>1. {"data", "end"} \subseteq Kinds
  BY DEF Kinds
<1> QED
  BY <1>1 DEF Uses, StartPut, Next, Put

\* The run and its requests use the broker as RunBroker specifies it, so
\* every theorem about it holds of the broker of a run.
THEOREM UsesBroker == RunSpec => Spec
<1>1. RunInit => Init
  BY DEF RunInit
<1>2. [RunNext]_allVars => [Next]_vars
  BY ContextUses, UsesAllowed
<1> QED
  BY <1>1, <1>2, PTL DEF RunSpec, Spec

\* In use, whatever the requests and the streams do meanwhile, the broker loses,
\* repeats and reorders nothing but what the channel allows.
THEOREM ChannelInUse == RunSpec => ImplementsChannel
BY UsesBroker, Refinement

-----------------------------------------------------------------------------
(* Types.                                                                  *)

\* The run's own variables keep their types as well.
LEMMA RunTypeStep == RunTypeOK /\ [RunNext]_allVars => RunTypeOK'
<1> SUFFICES ASSUME RunTypeOK, [RunNext]_allVars PROVE RunTypeOK'
  OBVIOUS
<1>1. TypeOK'
  BY ContextUses, UsesAllowed, TypeOKStep DEF RunTypeOK
<1>2. CASE Emit \/ GraphEnds \/ GraphFails
  BY <1>1, <1>2 DEF RunTypeOK, Emit, GraphEnds, GraphFails, runVars
<1>3. CASE Task
  BY <1>1, <1>3 DEF RunTypeOK, Task, TaskCancelled, TaskSignals,
     TaskContinues, HandlerCancelled, Finish
<1>4. ASSUME NEW q \in Requests, CancelRun(q) \/ Join(q) \/ Proceed(q)
      PROVE  RunTypeOK'
  BY <1>1, <1>4 DEF RunTypeOK, CancelRun, Join, Proceed, RequestContinues,
     WriteStatus, JoinTimeout, Return
<1>5. ASSUME NEW c \in Consumers, Admit(c) \/ Connect(c) \/ Read(c) \/ Leave(c)
      PROVE  RunTypeOK'
  BY <1>1, <1>5 DEF RunTypeOK, Admit, Connect, Read, Leave, runVars
<1>6. CASE UNCHANGED allVars
  BY <1>1, <1>6 DEF RunTypeOK, allVars, runVars
<1> QED
  BY <1>2, <1>3, <1>4, <1>5, <1>6 DEF RunNext

\* The task, the requests and the clients are always where the code can be.
THEOREM RunTypeCorrect == RunSpec => []RunTypeOK
<1>1. RunInit => RunTypeOK
  <2>1. Init => TypeOK
    BY InitInv DEF Inv
  <2> QED
    BY <2>1 DEF RunInit, RunTypeOK
<1> QED
  BY <1>1, RunTypeStep, PTL DEF RunSpec

-----------------------------------------------------------------------------
(* Under drop_oldest nobody waits.                                         *)

\* No caller puts an "error", so the only terminal events are ends.
NoErrors ==
  /\ \A n \in 1..Len(log) : log[n] # "error"
  /\ \A p \in Putters : item[p] # "error"

\* With that, and nobody in the line who does not wait, the invariant of the
\* broker is strong enough.
RunInv == Inv /\ WaitersInLine /\ NoErrors /\ DroppingNeverWaits

\* A full queue with nothing to drop holds an end: the broker is finished.
LEMMA NothingToDrop ==
  ASSUME Inv, NoErrors, Full, Droppable = {}
  PROVE  finished
<1>1. queue \in Seq(Message) /\ Len(queue) \in Nat /\ Len(queue) >= 1
  BY MaxSizeAssumption DEF Inv, TypeOK, Full
<1>2. 1 \in 1..Len(queue)
  BY <1>1
<1>3. queue[1].kind \in Terminal
  BY <1>2 DEF Droppable
<1>4. queue[1].n \in 1..Len(fate) /\ log[queue[1].n] = queue[1].kind
      /\ Len(log) = Len(fate)
  BY <1>2 DEF Inv, QueueIsPending, HoldsPending
<1>5. log[queue[1].n] = "end"
  BY <1>3, <1>4 DEF NoErrors, Terminal
<1>6. queue[1].n \in DOMAIN log
  BY <1>4 DEF Inv, TypeOK
<1> QED
  BY <1>5, <1>6 DEF Inv, EndFinishes

\* The history grows by what is stored, and nobody stores an error.
LEMMA NoErrorsStep ==
  ASSUME TypeOK, NoErrors, Uses \/ UNCHANGED vars
  PROVE  NoErrors'
<1>1. ASSUME NEW q, NEW k, Store(q, k), k \in {"data", "end"}, UNCHANGED item
      PROVE  NoErrors'
  <2>1. k \in Kinds /\ log \in Seq(Kinds)
    BY <1>1 DEF Kinds, TypeOK
  <2>2. log' = Append(log, k)
    BY <1>1 DEF Store
  <2>3. /\ Len(log') = Len(log) + 1 /\ Len(log) \in Nat
        /\ \A j \in 1..Len(log) : log'[j] = log[j]
        /\ log'[Len(log) + 1] = k
    BY <2>1, <2>2, AppendAt
  <2>4. \A n \in 1..Len(log') : n \in 1..Len(log) \/ n = Len(log) + 1
    BY <2>3
  <2> QED
    BY <1>1, <2>3, <2>4 DEF NoErrors
<1>2. ASSUME NEW p \in Putters, NEW k \in {"data", "end"}, StartPut(p, k)
      PROVE  NoErrors'
  <2>1. CASE PutNow(p, k) \/ PutDropping(p, k)
    BY <1>1, <2>1 DEF PutNow, PutDropping
  <2>2. CASE PutBlocks(p, k)
    BY <2>2 DEF PutBlocks, NoErrors, TypeOK
  <2> QED
    BY <1>2, <2>1, <2>2 DEF StartPut
<1>3. ASSUME NEW p \in Putters, PutContinues(p) \/ PutCancelled(p)
      PROVE  NoErrors'
  <2>1. item[p] \in {"data", "end"}
    BY DEF NoErrors, TypeOK, Kinds
  <2>2. CASE PutResumes(p)
    BY <1>1, <2>1, <2>2 DEF PutResumes
  <2>3. CASE PutBlocksAgain(p) \/ PutCancelled(p)
    BY <2>3 DEF PutBlocksAgain, PutCancelled, NoErrors
  <2> QED
    BY <1>3, <2>2, <2>3 DEF PutContinues
<1>4. ASSUME NEW c \in Consumers, Attach(c) \/ Iterate(c) \/ Disconnect(c)
      PROVE  NoErrors'
  BY <1>4 DEF Attach, Iterate, Get, TimeoutBreak, Disconnect, NoErrors
<1>5. CASE MarkFinished
  BY <1>5 DEF MarkFinished, NoErrors
<1>6. CASE UNCHANGED vars
  BY <1>6 DEF vars, NoErrors
<1> QED
  BY <1>2, <1>3, <1>4, <1>5, <1>6 DEF Uses

\* While nobody waits, no step but a put that blocks makes somebody wait.
LEMMA NobodyJoins ==
  ASSUME RunInv, Uses \/ UNCHANGED vars
  PROVE  DroppingNeverWaits'
<1> SUFFICES ASSUME policy' = "drop_oldest" PROVE InFlight' = {}
  BY DEF DroppingNeverWaits
<1>1. policy' = policy
  BY DEF Uses, StartPut, PutNow, PutDropping, PutBlocks, PutContinues,
     PutResumes, PutBlocksAgain, PutCancelled, Attach, Iterate, Get,
     TimeoutBreak, Disconnect, MarkFinished, vars
<1>2. InFlight = {} /\ \A p \in Putters : putter[p] = "idle"
  BY <1>1 DEF RunInv, DroppingNeverWaits, InFlight
<1>3. waiters = <<>>
  <2>1. waiters \in Seq(Putters)
    BY DEF RunInv, Inv, TypeOK
  <2>2. Len(waiters) = 0
    <3>1. SUFFICES ASSUME Len(waiters) # 0 PROVE FALSE
      OBVIOUS
    <3>2. 1 \in 1..Len(waiters)
      BY <2>1, <3>1, LenProperties
    <3>3. waiters[1] \in Putters
      BY <2>1, <3>2
    <3> QED
      BY <1>2, <3>2, <3>3 DEF RunInv, WaitersInLine
  <2> QED
    BY <2>1, <2>2, EmptySeq
<1>4. ASSUME NEW p \in Putters, NEW k \in {"data", "end"}, PutBlocks(p, k)
      PROVE  FALSE
  BY <1>1, <1>4, NothingToDrop DEF PutBlocks, RunInv, Callable
<1>5. ASSUME NEW p \in Putters, NEW k \in {"data", "end"}, StartPut(p, k)
      PROVE  putter' = putter
  BY <1>4, <1>5 DEF StartPut, PutNow, PutDropping
<1>6. ASSUME NEW p \in Putters, PutContinues(p) \/ PutCancelled(p)
      PROVE  FALSE
  BY <1>2, <1>6 DEF PutContinues, PutResumes, PutBlocksAgain, PutCancelled
<1>7. ASSUME NEW c \in Consumers, Attach(c) \/ Iterate(c) \/ Disconnect(c)
      PROVE  putter' = putter
  BY <1>3, <1>7 DEF Attach, Iterate, Get, WakeNext, TimeoutBreak, Disconnect
<1>8. CASE MarkFinished \/ UNCHANGED vars
  BY <1>2, <1>8 DEF MarkFinished, vars, InFlight
<1>9. CASE putter' = putter
  BY <1>2, <1>9 DEF InFlight
<1> QED
  BY <1>5, <1>6, <1>7, <1>8, <1>9 DEF Uses

\* The four parts carry each other from step to step.
LEMMA RunInvStep == RunInv /\ [RunNext]_allVars => RunInv'
<1> SUFFICES ASSUME RunInv, [RunNext]_allVars PROVE RunInv'
  OBVIOUS
<1>1. Uses \/ UNCHANGED vars
  BY ContextUses
<1>2. [Next]_vars
  BY <1>1, UsesAllowed
<1>3. Inv'
  BY <1>2, InvStep DEF RunInv
<1>4. WaitersInLine'
  BY <1>2, LineStep DEF RunInv, Inv
<1>5. NoErrors'
  BY <1>1, NoErrorsStep DEF RunInv, Inv
<1>6. DroppingNeverWaits'
  BY <1>1, NobodyJoins
<1> QED
  BY <1>3, <1>4, <1>5, <1>6 DEF RunInv

\* Under drop_oldest no call of put() ever waits: neither the task nor a
\* request that cancels the run depends on a client that reads.
THEOREM DroppingIsWaitFree == RunSpec => []DroppingNeverWaits
<1>1. RunInit => RunInv
  <2> SUFFICES ASSUME RunInit PROVE RunInv
    OBVIOUS
  <2>1. Init
    BY DEF RunInit
  <2>2. Inv
    BY <2>1, InitInv
  <2>3. WaitersInLine
    BY <2>1 DEF Init, WaitersInLine
  <2>4. NoErrors
    BY <2>1 DEF Init, NoErrors
  <2>5. DroppingNeverWaits
    BY <2>1 DEF Init, DroppingNeverWaits, InFlight
  <2> QED
    BY <2>2, <2>3, <2>4, <2>5 DEF RunInv
<1>2. RunInv => DroppingNeverWaits
  BY DEF RunInv
<1> QED
  BY <1>1, <1>2, RunInvStep, PTL DEF RunSpec
==============================================================================
