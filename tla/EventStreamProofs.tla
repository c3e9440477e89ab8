-------------------------- MODULE EventStreamProofs --------------------------
(***************************************************************************)
(* What the stream and the store of a run's events guarantee for any       *)
(* number of clients, any batch size and any number of events, signals and *)
(* connections, wherever the run is cancelled, an insert fails, a          *)
(* connection breaks or the process restarts.                              *)
(***************************************************************************)
EXTENDS EventStream, EventConversion, SequenceTheorems, TLAPS

-----------------------------------------------------------------------------
(* The inductive invariant.                                                *)

Started == {"graph", "storing", "ended", "flushing"}

\* While the task is not over, a number above its last event is that of an end,
\* and the end has finished the broker: no event takes a number twice.
Numbering ==
  /\ lastNo <= counter + MaxSignals + (IF task \in {"flushing", "done"} THEN 1 ELSE 0)
  /\ task \in Started => counter <= lastNo
  /\ task \in Started /\ counter < lastNo => broker.finished

\* Whatever waits on the broker has a number that was given out.
QueueNumbered ==
  \A i \in 1..Len(broker.queue) :
    broker.queue[i].seq > 0 /\ broker.queue[i].seq <= lastNo

\* Where events that are to be stored can be.
Batching ==
  /\ task \in {"graph", "ended", "done"} => inflight = <<>>
  /\ task \in {"flushing", "done"} => batch = <<>>
  /\ ~hist.crashed => hist.storable \subseteq
       rows \union hist.swept \union hist.lost \union ToSet(batch) \union ToSet(inflight)

\* What the rows say of the run, and when its events may be lost.
Ending ==
  /\ task \in {"graph", "storing"} => outcome = "none"
  /\ task \in {"ended", "flushing"} \/ broker.finished => status # "running"
  /\ outcome \in {"none", "completed", "interrupted"} =>
       hist.lost = {} \/ hist.flushBroke

\* While no connection breaks: a client comes back only to a broker that is
\* finished, and what waits for a live stream is above what its filter passes.
Followed(c) ==
  /\ conn[c].pc = "off" /\ lastId[c] # 0 => broker.finished
  /\ conn[c].pc = "replay" => conn[c].since = 0 \/ (conn[c].over /\ broker.finished)
  /\ conn[c].pc = "live" =>
       /\ conn[c].since <= lastNo
       /\ \A i \in 1..Len(broker.queue) : broker.queue[i].seq > conn[c].since
Delivered ==
  \A n \in hist.put :
    \/ \E i \in 1..Len(broker.queue) : broker.queue[i].seq = n
    \/ \E c \in Clients : n \in ToSet(got[c])
Following == ~hist.cut => (\A c \in Clients : Followed(c)) /\ Delivered

\* The types, one conjunct for what is written together.
Brokers == [queue : Seq(Frame), finished : BOOLEAN, exists : BOOLEAN]
Connections == [pc : {"off", "replay", "live"}, since : Seqs,
                todo : SUBSET Seqs, over : BOOLEAN]

TaskTypes ==
  /\ task \in {"graph", "storing", "ended", "flushing", "done"}
  /\ outcome \in {"none", "completed", "interrupted", "failed", "cancelled"}
  /\ status \in {"running", "completed", "interrupted", "failed", "cancelled"}
  /\ cancelReq \in BOOLEAN
NumberTypes == counter \in 0..MaxSeq /\ lastNo \in Seqs
BrokerTypes == broker \in Brokers
StoreTypes == batch \in Seq(Seqs) /\ inflight \in Seq(Seqs) /\ rows \subseteq Seqs
ConnTypes ==
  /\ conn \in [Clients -> Connections]
  /\ got \in [Clients -> Seq(Seqs)] /\ lastId \in [Clients -> Seqs]
  /\ connects \in 0..MaxConnects
HistTypes == hist \in HistType

IInv ==
  /\ TaskTypes /\ NumberTypes /\ BrokerTypes /\ StoreTypes /\ ConnTypes /\ HistTypes
  /\ Numbering
  /\ QueueNumbered
  /\ LiveInOrder
  /\ Batching
  /\ Ending
  /\ Following

-------------------------------------------------------------------------------
(* The operators.                                                            *)
LEMMA ToSetOfAppend ==
  ASSUME NEW S, NEW s \in Seq(S), NEW x \in S
  PROVE  ToSet(Append(s, x)) = ToSet(s) \union {x}
<1>1. DOMAIN Append(s, x) = (DOMAIN s) \union {Len(s) + 1}
  BY AppendProperties, LenProperties
<1>2. /\ Append(s, x)[Len(s) + 1] = x
      /\ \A i \in DOMAIN s : Append(s, x)[i] = s[i]
  BY AppendProperties, LenProperties
<1> QED
  BY <1>1, <1>2 DEF ToSet

LEMMA ToSetOfEmpty == ToSet(<<>>) = {}
  BY DEF ToSet

LEMMA ToSetType ==
  ASSUME NEW S, NEW s \in Seq(S)
  PROVE  ToSet(s) \subseteq S
  BY ElementOfSeq, LenProperties DEF ToSet

\* put() adds an event at the end of a broker that is not finished.
LEMMA OfferedBroker ==
  ASSUME NEW b \in Brokers, NEW f \in Frame
  PROVE  /\ Offered(b, f) \in Brokers
         /\ Offered(b, f).exists = b.exists
         /\ b.finished => Offered(b, f) = b
         /\ ~b.finished => /\ Offered(b, f).queue = Append(b.queue, f)
                           /\ Offered(b, f).finished = f.end
<1>1. CASE b.finished
  BY <1>1 DEF Offered
<1>2. CASE ~b.finished
  <2>1. Append(b.queue, f) \in Seq(Frame) /\ f.end \in BOOLEAN
    BY AppendProperties DEF Brokers, Frame
  <2>2. Offered(b, f) = [b EXCEPT !.queue = Append(b.queue, f), !.finished = f.end]
    BY <1>2 DEF Offered
  <2> QED
    BY <1>2, <2>1, <2>2 DEF Brokers
<1> QED
  BY <1>1, <1>2

LEMMA CreatedBroker ==
  ASSUME NEW b \in Brokers
  PROVE  /\ GetOrCreate(b) \in Brokers
         /\ GetOrCreate(b).queue = b.queue
         /\ GetOrCreate(b).finished = b.finished
         /\ GetOrCreate(b).exists
  BY DEF GetOrCreate, Brokers

LEMMA CleanedBroker ==
  ASSUME NEW b \in Brokers
  PROVE  /\ Cleaned(b) \in Brokers
         /\ Cleaned(b).queue = b.queue
         /\ b.finished => Cleaned(b).finished
         /\ b.exists => Cleaned(b).finished
         /\ ~b.exists => Cleaned(b).finished = b.finished
  BY DEF Cleaned, Brokers

-------------------------------------------------------------------------------
(* The three things that happen to the queue.                                *)
Stays ==
  /\ broker'.queue = broker.queue
  /\ broker.finished => broker'.finished
  /\ lastNo <= lastNo'

Grows(f) ==
  /\ ~broker.finished
  /\ broker'.queue = Append(broker.queue, f)
  /\ lastNo < f.seq /\ f.seq <= lastNo'
  /\ f.end => broker'.finished

Shrinks ==
  /\ broker.queue # <<>>
  /\ broker'.queue = Tail(broker.queue)
  /\ broker'.finished = broker.finished
  /\ lastNo' = lastNo

\* Its producers: the queue grows by what the history notes as put.
Puts ==
  \/ Stays /\ hist'.put = hist.put
  \/ \E f \in Frame : Grows(f) /\ hist'.put = hist.put \union {f.seq}

LEMMA StaysInOrder ==
  ASSUME BrokerTypes, NumberTypes, NumberTypes', QueueNumbered, LiveInOrder, Stays
  PROVE  QueueNumbered' /\ LiveInOrder'
<1>1. \A i \in 1..Len(broker.queue) : broker.queue[i] \in Frame
  BY ElementOfSeq DEF BrokerTypes, Brokers
<1> QED
  BY <1>1 DEF NumberTypes, QueueNumbered, LiveInOrder, Stays, Frame, Seqs

LEMMA GrowsInOrder ==
  ASSUME BrokerTypes, BrokerTypes', NumberTypes, NumberTypes', QueueNumbered, LiveInOrder,
         NEW f \in Frame, Grows(f)
  PROVE  QueueNumbered' /\ LiveInOrder'
<1> DEFINE q == broker.queue
<1>1. /\ q \in Seq(Frame) /\ Len(q) \in Nat
      /\ Len(broker'.queue) = Len(q) + 1
      /\ broker'.queue[Len(q) + 1] = f
      /\ \A i \in 1..Len(q) : broker'.queue[i] = q[i] /\ q[i] \in Frame
  BY AppendProperties, ElementOfSeq, LenProperties DEF BrokerTypes, Brokers, Grows
<1>2. \A i \in 1..Len(q) : /\ q[i].seq \in Seqs /\ q[i].seq > 0 /\ q[i].seq <= lastNo
                           /\ \A j \in 1..(i - 1) : q[j].seq < q[i].seq
                           /\ ~q[i].end
  BY <1>1 DEF QueueNumbered, LiveInOrder, Frame, Grows
<1>3. lastNo \in Nat /\ lastNo' \in Nat /\ f.seq \in Nat /\ lastNo < f.seq /\ f.seq <= lastNo'
  BY DEF NumberTypes, Seqs, Frame, Grows
<1>4. ASSUME NEW i \in 1..Len(broker'.queue)
      PROVE  broker'.queue[i].seq > 0 /\ broker'.queue[i].seq <= lastNo'
  <2>1. CASE i = Len(q) + 1
    BY <2>1, <1>1, <1>3
  <2>2. CASE i \in 1..Len(q)
    BY SMTT(30), <2>2, <1>1, <1>2, <1>3 DEF Seqs
  <2> QED
    BY <2>1, <2>2, <1>1
<1>5. ASSUME NEW i \in 1..Len(broker'.queue)
      PROVE  /\ \A j \in 1..(i - 1) : broker'.queue[j].seq < broker'.queue[i].seq
             /\ broker'.queue[i].end => i = Len(broker'.queue) /\ broker'.finished
  <2>1. CASE i = Len(q) + 1
    <3>1. \A j \in 1..(i - 1) : broker'.queue[j].seq \in Nat /\ broker'.queue[j].seq <= lastNo
      BY <2>1, <1>1, <1>2 DEF Seqs
    <3> QED
      BY <2>1, <3>1, <1>1, <1>3 DEF Grows
  <2>2. CASE i \in 1..Len(q)
    <3>1. \A j \in 1..(i - 1) : j \in 1..Len(q)
      BY <2>2, <1>1
    <3> QED
      BY <2>2, <3>1, <1>1, <1>2
  <2> QED
    BY <2>1, <2>2, <1>1
<1> QED
  BY <1>4, <1>5 DEF QueueNumbered, LiveInOrder

LEMMA ShrinksInOrder ==
  ASSUME BrokerTypes, NumberTypes, QueueNumbered, LiveInOrder, Shrinks
  PROVE  QueueNumbered' /\ LiveInOrder'
<1> DEFINE q == broker.queue
<1>1. /\ q \in Seq(Frame) /\ Len(q) \in Nat /\ Len(q) > 0
      /\ Len(broker'.queue) = Len(q) - 1
      /\ \A i \in 1..(Len(q) - 1) : broker'.queue[i] = q[i + 1]
  BY HeadTailProperties, EmptySeq, LenProperties DEF BrokerTypes, Brokers, Shrinks
<1>2. \A i \in 1..(Len(q) - 1) : i + 1 \in 1..Len(q)
  BY <1>1
<1>3. QueueNumbered'
  BY <1>1, <1>2 DEF QueueNumbered, Shrinks
<1>4. ASSUME NEW i \in 1..(Len(q) - 1)
      PROVE  /\ \A j \in 1..(i - 1) : broker'.queue[j].seq < broker'.queue[i].seq
             /\ broker'.queue[i].end => i = Len(broker'.queue) /\ broker'.finished
  <2>1. \A j \in 1..(i - 1) : j \in 1..(Len(q) - 1) /\ j + 1 \in 1..((i + 1) - 1)
    BY <1>1
  <2>2. \A j \in 1..((i + 1) - 1) : q[j].seq < q[i + 1].seq
    BY <1>2 DEF LiveInOrder
  <2>3. q[i + 1].end => i + 1 = Len(q) /\ broker.finished
    BY <1>2 DEF LiveInOrder
  <2> QED
    BY <2>1, <2>2, <2>3, <1>1 DEF Shrinks
<1> QED
  BY <1>1, <1>3, <1>4 DEF LiveInOrder

\* Producers keep the queue in order and do not disturb who follows it.
LEMMA PutsKeep ==
  ASSUME IInv, BrokerTypes', NumberTypes', Puts,
         hist'.cut = hist.cut, UNCHANGED <<conn, got, lastId>>
  PROVE  QueueNumbered' /\ LiveInOrder' /\ Following'
<1> USE DEF IInv
<1>1. CASE Stays /\ hist'.put = hist.put
  <2>1. QueueNumbered' /\ LiveInOrder'
    BY <1>1, StaysInOrder
  <2>2. ASSUME NEW c \in Clients, Followed(c) PROVE Followed(c)'
    <3>1. conn[c].since \in Nat /\ lastNo \in Nat /\ lastNo' \in Nat
      BY DEF ConnTypes, Connections, NumberTypes, Seqs
    <3> QED
      BY <1>1, <2>2, <3>1 DEF Stays, Followed
  <2>3. Delivered => Delivered'
    BY <1>1 DEF Stays, Delivered
  <2> QED
    BY <2>1, <2>2, <2>3 DEF Following
<1>2. ASSUME NEW f \in Frame, Grows(f), hist'.put = hist.put \union {f.seq}
      PROVE  QueueNumbered' /\ LiveInOrder' /\ Following'
  <2> DEFINE q == broker.queue
  <2>1. QueueNumbered' /\ LiveInOrder'
    BY <1>2, GrowsInOrder
  <2>2. /\ Len(q) \in Nat
        /\ Len(broker'.queue) = Len(q) + 1
        /\ broker'.queue[Len(q) + 1] = f
        /\ \A i \in 1..Len(q) : broker'.queue[i] = q[i]
    BY <1>2, AppendProperties, LenProperties DEF BrokerTypes, Brokers, Grows
  <2>3. lastNo \in Nat /\ lastNo' \in Nat /\ f.seq \in Nat /\ lastNo < f.seq /\ f.seq <= lastNo'
    BY <1>2 DEF NumberTypes, Seqs, Frame, Grows
  <2>4. ASSUME NEW c \in Clients, Followed(c) PROVE Followed(c)'
    <3>1. conn[c].since \in Nat
      BY DEF ConnTypes, Connections, Seqs
    <3>2. ~broker.finished
      BY <1>2 DEF Grows
    <3>3. conn[c].pc = "live" =>
            \A i \in 1..Len(broker'.queue) : broker'.queue[i].seq > conn[c].since
      <4> SUFFICES ASSUME conn[c].pc = "live", NEW i \in 1..Len(broker'.queue)
                   PROVE  broker'.queue[i].seq > conn[c].since
        OBVIOUS
      <4>1. CASE i \in 1..Len(q)
        BY <4>1, <2>2, <2>4 DEF Followed
      <4>2. CASE i = Len(q) + 1
        BY <4>2, <2>2, <2>3, <2>4, <3>1 DEF Followed
      <4> QED
        BY <4>1, <4>2, <2>2
    <3> QED
      BY <2>3, <2>4, <3>1, <3>2, <3>3 DEF Followed
  <2>5. Delivered => Delivered'
    BY <1>2, <2>2 DEF Delivered
  <2> QED
    BY <2>1, <2>4, <2>5 DEF Following
<1> QED
  BY <1>1, <1>2 DEF Puts

\* An end that is signalled: put unless the broker was finished, which it is now.
LEMMA SignalPuts ==
  ASSUME IInv, SignalEnd, lastNo + 1 \in Seqs
  PROVE  /\ BrokerTypes' /\ HistTypes' /\ Puts /\ broker'.finished
         /\ lastNo' = lastNo + 1
         /\ hist'.cut = hist.cut /\ hist'.crashed = hist.crashed
         /\ hist'.flushBroke = hist.flushBroke
         /\ hist'.lost = hist.lost /\ hist'.swept = hist.swept
         /\ hist'.storable = hist.storable
<1> USE DEF IInv
<1> DEFINE f == [seq |-> lastNo + 1, end |-> TRUE]
           b == GetOrCreate(broker)
<1>1. f \in Frame /\ f.seq = lastNo + 1 /\ f.end /\ lastNo \in Nat
  BY DEF Frame, NumberTypes, Seqs
<1>2. /\ b \in Brokers /\ b.queue = broker.queue /\ b.finished = broker.finished /\ b.exists
      /\ broker.finished \in BOOLEAN
  BY CreatedBroker DEF BrokerTypes, Brokers
<1> HIDE DEF f, b
<1>3. /\ Offered(b, f) \in Brokers /\ Offered(b, f).exists
      /\ broker.finished => Offered(b, f) = b
      /\ ~broker.finished => Offered(b, f).queue = Append(broker.queue, f)
  BY <1>1, <1>2, OfferedBroker, Zenon
<1>4. broker' = Cleaned(Offered(b, f)) /\ lastNo' = lastNo + 1
  BY DEF SignalEnd, f, b
<1>5. broker' \in Brokers /\ broker'.finished /\ broker'.queue = Offered(b, f).queue
  BY <1>3, <1>4, CleanedBroker
<1>6. /\ hist'.put = IF broker.finished THEN hist.put ELSE hist.put \union {lastNo + 1}
      /\ hist' \in HistType
      /\ hist'.cut = hist.cut /\ hist'.crashed = hist.crashed
      /\ hist'.flushBroke = hist.flushBroke
      /\ hist'.lost = hist.lost /\ hist'.swept = hist.swept
      /\ hist'.storable = hist.storable
  BY DEF SignalEnd, HistTypes, HistType
<1>7. Puts
  <2>1. CASE broker.finished
    BY <2>1, <1>1, <1>2, <1>3, <1>4, <1>5, <1>6 DEF Puts, Stays
  <2>2. CASE ~broker.finished
    <3>1. Grows(f) /\ hist'.put = hist.put \union {f.seq}
      BY <2>2, <1>1, <1>3, <1>4, <1>5, <1>6 DEF Grows
    <3> QED
      BY <3>1, <1>1 DEF Puts
  <2> QED
    BY <2>1, <2>2
<1> QED
  BY <1>4, <1>5, <1>6, <1>7 DEF BrokerTypes, HistTypes

-------------------------------------------------------------------------------
(* One client's connection.                                                  *)
LEMMA ConnUpdated ==
  ASSUME ConnTypes, NEW c \in Clients, NEW k \in Connections, conn' = [conn EXCEPT ![c] = k]
  PROVE  /\ conn' \in [Clients -> Connections]
         /\ conn'[c] = k
         /\ \A d \in Clients \ {c} : conn'[d] = conn[d]
  BY DEF ConnTypes

LEMMA IdleType == Idle \in Connections /\ Idle.pc = "off"
  BY StreamAssumption DEF Idle, Connections, Seqs

LEMMA ReceivedFrame ==
  ASSUME ConnTypes, NEW c \in Clients, NEW n \in Seqs, Received(c, n)
  PROVE  /\ got' \in [Clients -> Seq(Seqs)] /\ lastId' \in [Clients -> Seqs]
         /\ ToSet(got'[c]) = ToSet(got[c]) \union {n}
         /\ \A d \in Clients \ {c} : got'[d] = got[d] /\ lastId'[d] = lastId[d]
<1>1. got[c] \in Seq(Seqs)
  BY DEF ConnTypes
<1>2. Append(got[c], n) \in Seq(Seqs) /\ ToSet(Append(got[c], n)) = ToSet(got[c]) \union {n}
  BY <1>1, AppendProperties, ToSetOfAppend
<1>3. got' = [got EXCEPT ![c] = Append(got[c], n)] /\ lastId' = [lastId EXCEPT ![c] = n]
  BY DEF Received
<1> QED
  BY <1>2, <1>3 DEF ConnTypes

\* A client that moves on without taking an event disturbs no other client.
LEMMA ClientMoves ==
  ASSUME Following, NEW c \in Clients,
         \A d \in Clients \ {c} : conn'[d] = conn[d] /\ lastId'[d] = lastId[d],
         \A d \in Clients : ToSet(got[d]) \subseteq ToSet(got'[d]),
         broker'.queue = broker.queue, broker'.finished = broker.finished,
         lastNo' = lastNo, hist' = hist,
         ~hist.cut => Followed(c)'
  PROVE  Following'
<1> SUFFICES ASSUME ~hist.cut PROVE (\A d \in Clients : Followed(d)') /\ Delivered'
  BY DEF Following
<1>1. ASSUME NEW d \in Clients \ {c} PROVE Followed(d)'
  BY <1>1 DEF Following, Followed
<1>2. Delivered'
  BY DEF Following, Delivered
<1> QED
  BY <1>1, <1>2

-------------------------------------------------------------------------------
(* The run's task.                                                          *)

\* An event gets the next number; before the end nobody has given it out.
LEMMA EmitStep ==
  ASSUME IInv, NEW mode \in {"stored", "live", "hidden"}, Emit(mode)
  PROVE  IInv'
<1> USE DEF IInv
<1>1. /\ counter \in Nat /\ lastNo \in Nat /\ counter < MaxSeq /\ MaxSeq \in Nat /\ MaxSignals \in Nat
      /\ counter' = counter + 1 /\ counter + 1 \in Seqs /\ lastNo' \in Seqs
      /\ lastNo' = IF counter + 1 > lastNo THEN counter + 1 ELSE lastNo
  BY StreamAssumption DEF Emit, NumberTypes, Seqs
<1>2. counter <= lastNo /\ (~broker.finished => counter = lastNo)
  BY <1>1 DEF Emit, Numbering, Started
<1>3. /\ BrokerTypes' /\ HistTypes' /\ Puts
      /\ broker.finished => broker'.finished
      /\ broker'.finished => broker.finished
      /\ hist'.cut = hist.cut /\ hist'.crashed = hist.crashed
      /\ hist'.flushBroke = hist.flushBroke
      /\ hist'.lost = hist.lost /\ hist'.swept = hist.swept
      /\ hist'.storable = IF mode = "stored" THEN hist.storable \union {counter + 1}
                          ELSE hist.storable
  <2> DEFINE f == [seq |-> counter + 1, end |-> FALSE]
             b == GetOrCreate(broker)
  <2>1. f \in Frame /\ f.seq = counter + 1 /\ ~f.end
    BY <1>1 DEF Frame
  <2>2. /\ b \in Brokers /\ b.queue = broker.queue /\ b.finished = broker.finished
        /\ broker.finished \in BOOLEAN
    BY CreatedBroker DEF BrokerTypes, Brokers
  <2>3. /\ broker' = IF mode = "hidden" THEN b ELSE Offered(b, f)
        /\ hist' = [hist EXCEPT
             !.put = IF mode = "hidden" \/ b.finished THEN @ ELSE @ \union {counter + 1},
             !.storable = IF mode = "stored" THEN @ \union {counter + 1} ELSE @]
    BY DEF Emit
  <2> HIDE DEF f, b
  <2>4. /\ Offered(b, f) \in Brokers
        /\ broker.finished => Offered(b, f) = b
        /\ ~broker.finished => /\ Offered(b, f).queue = Append(broker.queue, f)
                                /\ Offered(b, f).finished = f.end
    BY <2>1, <2>2, OfferedBroker, Zenon
  <2>5. hist' \in HistType
    BY <2>3, <1>1 DEF HistTypes, HistType
  <2>6. Puts
    <3>1. CASE mode = "hidden" \/ broker.finished
      BY <3>1, <1>1, <2>2, <2>3, <2>4 DEF Puts, Stays, HistTypes, HistType
    <3>2. CASE mode # "hidden" /\ ~broker.finished
      <4>1. Grows(f) /\ hist'.put = hist.put \union {f.seq}
        BY <3>2, <1>1, <1>2, <2>1, <2>2, <2>3, <2>4 DEF Grows, HistTypes, HistType
      <4> QED
        BY <4>1, <2>1 DEF Puts
    <3> QED
      BY <3>1, <3>2
  <2>7. (broker.finished => broker'.finished) /\ (broker'.finished => broker.finished)
    BY <2>1, <2>2, <2>3, <2>4
  <2>8. /\ hist'.cut = hist.cut /\ hist'.crashed = hist.crashed
        /\ hist'.flushBroke = hist.flushBroke
        /\ hist'.lost = hist.lost /\ hist'.swept = hist.swept
        /\ hist'.storable = IF mode = "stored" THEN hist.storable \union {counter + 1}
                            ELSE hist.storable
    BY <2>3 DEF HistTypes, HistType
  <2> QED
    BY <2>2, <2>3, <2>4, <2>5, <2>6, <2>7, <2>8 DEF BrokerTypes, HistTypes
<1>4. \/ mode # "stored" /\ UNCHANGED <<batch, inflight, task>>
      \/ mode = "stored" /\ batch' = Append(batch, counter + 1) /\ UNCHANGED <<inflight, task>>
      \/ /\ mode = "stored" /\ batch' = <<>> /\ inflight' = Append(batch, counter + 1)
         /\ task' = "storing"
  BY DEF Emit
<1>5. task = "graph" /\ counter' = counter + 1 /\ UNCHANGED <<rows, outcome, status, connVars>>
  BY DEF Emit
<1>6. TaskTypes'
  BY DEF Emit, TaskTypes, connVars
<1>7. NumberTypes'
  BY <1>1 DEF NumberTypes
<1>8. BrokerTypes'
  BY <1>3
<1>9. StoreTypes'
  <2>1. Append(batch, counter + 1) \in Seq(Seqs) /\ <<>> \in Seq(Seqs)
    BY <1>1, AppendProperties, EmptySeq DEF StoreTypes
  <2> QED
    BY <2>1, <1>4, <1>5 DEF StoreTypes
<1>10. HistTypes'
  BY <1>3
<1>11. Numbering'
  BY <1>1, <1>2, <1>3, <1>4, <1>5 DEF Numbering, Started
<1>12. QueueNumbered'
  BY <1>3, <1>5, NumberTypes', PutsKeep DEF connVars
<1>13. LiveInOrder'
  BY <1>3, <1>5, NumberTypes', PutsKeep DEF connVars
<1>14. Batching'
  <2> DEFINE full == Append(batch, counter + 1)
  <2>1. ToSet(full) = ToSet(batch) \union {counter + 1} /\ ToSet(<<>>) = {}
    BY <1>1, ToSetOfAppend, ToSetOfEmpty DEF StoreTypes
  <2>2. inflight = <<>> /\ (~hist.crashed => hist.storable \subseteq
          rows \union hist.swept \union hist.lost \union ToSet(batch))
    BY <1>5, <2>1 DEF Batching
  <2> HIDE DEF full
  <2>3. CASE mode # "stored"
    BY <2>3, <2>2, <1>3, <1>4, <1>5, <2>1 DEF Batching
  <2>4. CASE /\ mode = "stored" /\ batch' = full /\ UNCHANGED <<inflight, task>>
    BY <2>4, <2>2, <1>3, <1>5, <2>1 DEF Batching
  <2>5. CASE /\ mode = "stored" /\ batch' = <<>> /\ inflight' = full /\ task' = "storing"
    BY <2>5, <2>2, <1>3, <1>5, <2>1 DEF Batching
  <2> QED
    BY <2>3, <2>4, <2>5, <1>4 DEF full
<1>15. Ending'
  BY <1>3, <1>4, <1>5 DEF Ending
<1>16. Following'
  BY <1>3, <1>5, NumberTypes', PutsKeep DEF connVars
<1>17. ConnTypes'
  BY DEF Emit, ConnTypes, connVars
<1> QED
  BY <1>1, <1>2, <1>3, <1>4, <1>5, <1>6, <1>7, <1>8, <1>9, <1>10, <1>11, <1>12,
     <1>13, <1>14, <1>15, <1>16, <1>17

\* The batch in flight becomes rows.
LEMMA StoreCommitsStep ==
  ASSUME IInv, StoreCommits
  PROVE  IInv'
<1> USE DEF IInv
<1>1. TaskTypes'
  BY DEF StoreCommits, TaskTypes, connVars
<1>2. StoreTypes'
  BY ToSetType, EmptySeq DEF StoreCommits, StoreTypes, Seqs, connVars
<1>3. Numbering'
  BY StreamAssumption DEF StoreCommits, Numbering, NumberTypes, Started, Seqs,
         connVars
<1>4. Batching'
  BY ToSetOfEmpty DEF StoreCommits, Batching, StoreTypes, HistTypes, HistType,
         Seqs, connVars
<1>5. Ending'
  BY DEF StoreCommits, Ending, Batching, HistTypes, HistType, Seqs, connVars
<1>6. NumberTypes' /\ BrokerTypes' /\ ConnTypes' /\ HistTypes' /\ QueueNumbered' /\ LiveInOrder' /\ Following'
  BY DEF StoreCommits, NumberTypes, BrokerTypes, ConnTypes, HistTypes,
         QueueNumbered, LiveInOrder, Following, Delivered, Followed, connVars
<1> QED
  BY <1>1, <1>2, <1>3, <1>4, <1>5, <1>6

\* A graph that ends by itself has nothing in flight to lose.
LEMMA TaskEndsStep ==
  ASSUME IInv, NEW how \in Ends, TaskEnds(how)
  PROVE  IInv'
<1> USE DEF IInv
<1>1. Puts /\ hist'.cut = hist.cut
  BY DEF TaskEnds, Puts, Stays, NumberTypes, Seqs, HistTypes, HistType, InsertBroken
<1>2. TaskTypes'
  BY DEF TaskEnds, TaskTypes, Ends
<1>3. StoreTypes'
  BY ToSetType, EmptySeq DEF TaskEnds, StoreTypes, InsertBroken, Seqs, connVars
<1>4. HistTypes'
  BY ToSetType DEF TaskEnds, HistTypes, StoreTypes, InsertBroken, HistType,
         Seqs, connVars
<1>5. Numbering'
  BY StreamAssumption DEF TaskEnds, Numbering, NumberTypes, Started,
         InsertBroken, Seqs, connVars
<1>6. Batching'
  BY ToSetOfEmpty DEF TaskEnds, Batching, StoreTypes, HistTypes, InsertBroken,
         HistType, Seqs, connVars
<1>7. Ending'
  <2>1. CASE hist' = hist
    BY <2>1 DEF TaskEnds, Ending, Ends
  <2>2. CASE hist' = [hist EXCEPT !.lost = @ \union ToSet(inflight)]
    <3>1. task = "graph" => ToSet(inflight) = {}
      BY ToSetOfEmpty DEF Batching
    <3>2. /\ hist'.lost = hist.lost \union ToSet(inflight)
          /\ hist'.flushBroke = hist.flushBroke
      BY <2>2 DEF HistTypes, HistType
    <3> QED
      BY <3>1, <3>2 DEF TaskEnds, Ending, Ends
  <2> QED
    BY <2>1, <2>2 DEF TaskEnds, InsertBroken
<1>8. Following'
  BY <1>1, PutsKeep DEF TaskEnds, BrokerTypes, NumberTypes, connVars
<1>9. NumberTypes' /\ BrokerTypes' /\ ConnTypes' /\ QueueNumbered' /\ LiveInOrder'
  BY DEF TaskEnds, NumberTypes, BrokerTypes, ConnTypes, QueueNumbered,
         LiveInOrder, InsertBroken, connVars
<1> QED
  BY <1>1, <1>2, <1>3, <1>4, <1>5, <1>6, <1>7, <1>8, <1>9

\* A batch in flight may be lost, and the run is cancelled.
LEMMA TaskCancelledStep ==
  ASSUME IInv, TaskCancelled
  PROVE  IInv'
<1> USE DEF IInv
<1>1. Puts /\ hist'.cut = hist.cut
  BY DEF TaskCancelled, Puts, Stays, NumberTypes, Seqs, HistTypes, HistType, InsertBroken
<1>2. TaskTypes'
  BY DEF TaskCancelled, TaskTypes, InsertBroken, connVars
<1>3. StoreTypes'
  BY ToSetType, EmptySeq DEF TaskCancelled, StoreTypes, InsertBroken, Seqs,
         connVars
<1>4. HistTypes'
  BY ToSetType DEF TaskCancelled, HistTypes, StoreTypes, InsertBroken, HistType,
         Seqs, connVars
<1>5. Numbering'
  BY StreamAssumption DEF TaskCancelled, Numbering, NumberTypes, Started,
         InsertBroken, Seqs, connVars
<1>6. Batching'
  BY ToSetOfEmpty DEF TaskCancelled, Batching, StoreTypes, HistTypes,
         InsertBroken, HistType, Seqs, connVars
<1>7. Ending'
  BY ToSetOfEmpty DEF TaskCancelled, Ending, Batching, HistTypes, InsertBroken,
         HistType, Seqs, connVars
<1>8. Following'
  BY <1>1, PutsKeep DEF TaskCancelled, BrokerTypes, NumberTypes, connVars
<1>9. NumberTypes' /\ BrokerTypes' /\ ConnTypes' /\ QueueNumbered' /\ LiveInOrder'
  BY DEF TaskCancelled, NumberTypes, BrokerTypes, ConnTypes, QueueNumbered,
         LiveInOrder, InsertBroken, connVars
<1> QED
  BY <1>1, <1>2, <1>3, <1>4, <1>5, <1>6, <1>7, <1>8, <1>9

\* The end is numbered above all events; the batch goes in flight.
LEMMA FinallyStep ==
  ASSUME IInv, Finally
  PROVE  IInv'
<1> USE DEF IInv
<1>1. lastNo + 1 \in Seqs
  BY StreamAssumption DEF Finally, NumberTypes, Numbering, Seqs
<1>2. /\ BrokerTypes' /\ HistTypes' /\ Puts
      /\ (lastNo' = lastNo + 1 /\ broker'.finished) \/ (lastNo' = lastNo /\ broker' = broker)
      /\ hist'.cut = hist.cut /\ hist'.crashed = hist.crashed
      /\ hist'.flushBroke = hist.flushBroke
      /\ hist'.lost = hist.lost /\ hist'.swept = hist.swept
      /\ hist'.storable = hist.storable
  <2>1. CASE outcome \in {"failed", "cancelled"}
    <3>1. SignalEnd
      BY <2>1 DEF Finally
    <3>2. /\ BrokerTypes' /\ HistTypes' /\ Puts /\ broker'.finished
          /\ lastNo' = lastNo + 1
          /\ hist'.cut = hist.cut /\ hist'.crashed = hist.crashed
          /\ hist'.flushBroke = hist.flushBroke
          /\ hist'.lost = hist.lost /\ hist'.swept = hist.swept
          /\ hist'.storable = hist.storable
      BY <3>1, <1>1, SignalPuts
    <3> QED
      BY <3>2
  <2>2. CASE outcome \notin {"failed", "cancelled"}
    BY <2>2 DEF Finally, BrokerTypes, HistTypes, Puts, Stays, NumberTypes, Seqs
  <2> QED
    BY <2>1, <2>2
<1>3. UNCHANGED <<conn, got, lastId>>
  BY DEF Finally, StartFlush, connVars
<1>4. TaskTypes'
  BY DEF Finally, TaskTypes, StartFlush, connVars
<1>5. NumberTypes'
  BY <1>1, <1>2 DEF Finally, StartFlush, NumberTypes
<1>6. BrokerTypes'
  BY <1>2
<1>7. StoreTypes'
  BY EmptySeq DEF Finally, StoreTypes, StartFlush, Seqs, connVars
<1>8. HistTypes'
  BY <1>2
<1>9. Numbering'
  <2>1. /\ lastNo' <= lastNo + 1 /\ lastNo <= lastNo' /\ counter' = counter
        /\ task = "ended" /\ task' = "flushing"
        /\ lastNo' = lastNo => broker' = broker
        /\ lastNo' # lastNo => broker'.finished
    BY <1>2 DEF Finally, StartFlush, NumberTypes, Seqs
  <2>2. /\ lastNo \in Nat /\ lastNo' \in Nat /\ counter \in Nat /\ MaxSignals \in Nat
        /\ lastNo <= counter + MaxSignals /\ counter <= lastNo
        /\ counter < lastNo => broker.finished
    BY <2>1, <1>2, StreamAssumption DEF NumberTypes, Numbering, Seqs, Started
  <2>3. lastNo' <= counter' + MaxSignals + 1 /\ counter' <= lastNo'
    BY <2>1, <2>2
  <2>4. counter' < lastNo' => broker'.finished
    BY <2>1, <2>2
  <2> QED
    BY <2>1, <2>3, <2>4 DEF Numbering, Started
<1>10. QueueNumbered'
  BY <1>2, <1>3, NumberTypes', PutsKeep
<1>11. LiveInOrder'
  BY <1>2, <1>3, NumberTypes', PutsKeep
<1>12. Batching'
  BY <1>2, ToSetOfEmpty DEF Finally, StartFlush, Batching
<1>13. Ending'
  BY <1>2 DEF Finally, StartFlush, Ending
<1>14. Following'
  BY <1>2, <1>3, NumberTypes', PutsKeep
<1>15. ConnTypes'
  BY DEF Finally, ConnTypes, SignalEnd, StartFlush, connVars
<1> QED
  BY <1>1, <1>2, <1>3, <1>4, <1>5, <1>6, <1>7, <1>8, <1>9, <1>10, <1>11, <1>12,
     <1>13, <1>14, <1>15

\* The same without the end.
LEMMA HandlerCancelledStep ==
  ASSUME IInv, HandlerCancelled
  PROVE  IInv'
<1> USE DEF IInv
<1>1. TaskTypes'
  BY DEF HandlerCancelled, TaskTypes, StartFlush, connVars
<1>2. StoreTypes'
  BY EmptySeq DEF HandlerCancelled, StoreTypes, StartFlush, Seqs, connVars
<1>3. Numbering'
  BY StreamAssumption DEF HandlerCancelled, Numbering, NumberTypes, Started,
         StartFlush, Seqs, connVars
<1>4. Batching'
  BY ToSetOfEmpty DEF HandlerCancelled, Batching, StoreTypes, HistTypes,
         StartFlush, HistType, Seqs, connVars
<1>5. Ending'
  BY DEF HandlerCancelled, Ending, Batching, HistTypes, StartFlush, HistType,
         Seqs, connVars
<1>6. NumberTypes' /\ BrokerTypes' /\ ConnTypes' /\ HistTypes' /\ QueueNumbered' /\ LiveInOrder' /\ Following'
  BY DEF HandlerCancelled, NumberTypes, BrokerTypes, ConnTypes, HistTypes,
         QueueNumbered, LiveInOrder, Following, Delivered, Followed, StartFlush,
         connVars
<1> QED
  BY <1>1, <1>2, <1>3, <1>4, <1>5, <1>6

\* What was in flight is stored.
LEMMA FlushDoneStep ==
  ASSUME IInv, FlushDone
  PROVE  IInv'
<1> USE DEF IInv
<1>1. /\ BrokerTypes' /\ Puts /\ hist'.cut = hist.cut
      /\ broker'.finished => broker.finished \/ task = "flushing"
  BY CleanedBroker DEF FlushDone, BrokerTypes, Puts, Stays, NumberTypes, Seqs, HistTypes, HistType
<1>2. TaskTypes'
  BY DEF FlushDone, TaskTypes, connVars
<1>3. BrokerTypes'
  BY <1>1
<1>4. StoreTypes'
  BY ToSetType, EmptySeq DEF FlushDone, StoreTypes, Seqs, connVars
<1>5. Numbering'
  BY StreamAssumption DEF FlushDone, Numbering, NumberTypes, Started, Seqs,
         connVars
<1>6. QueueNumbered'
  BY <1>1, PutsKeep DEF FlushDone, NumberTypes, connVars
<1>7. LiveInOrder'
  BY <1>1, PutsKeep DEF FlushDone, NumberTypes, connVars
<1>8. Batching'
  BY ToSetOfEmpty DEF FlushDone, Batching, StoreTypes, HistTypes, HistType,
         Seqs, connVars
<1>9. Ending'
  BY <1>1 DEF FlushDone, Ending, Batching, HistTypes, HistType, Seqs, connVars
<1>10. Following'
  BY <1>1, PutsKeep DEF FlushDone, NumberTypes, connVars
<1>11. NumberTypes' /\ ConnTypes' /\ HistTypes'
  BY DEF FlushDone, NumberTypes, ConnTypes, HistTypes, connVars
<1> QED
  BY <1>1, <1>2, <1>3, <1>4, <1>5, <1>6, <1>7, <1>8, <1>9, <1>10, <1>11

\* What was in flight is lost, and the history says so.
LEMMA FlushBreaksStep ==
  ASSUME IInv, FlushBreaks
  PROVE  IInv'
<1> USE DEF IInv
<1>1. /\ hist' \in HistType
      /\ hist'.put = hist.put /\ hist'.cut = hist.cut /\ hist'.flushBroke
      /\ hist'.crashed = hist.crashed /\ hist'.swept = hist.swept
      /\ hist'.storable = hist.storable
      /\ \/ rows' = rows \union ToSet(inflight) /\ hist'.lost = hist.lost
         \/ rows' = rows /\ hist'.lost = hist.lost \union ToSet(inflight)
  <2>1. hist \in HistType /\ ToSet(inflight) \subseteq Seqs
    BY ToSetType DEF HistTypes, StoreTypes
  <2>2. CASE rows' = rows \union ToSet(inflight) /\ hist' = [hist EXCEPT !.flushBroke = TRUE]
    <3>1. hist' \in HistType /\ hist'.flushBroke = TRUE
      BY <2>1, <2>2 DEF HistType
    <3>2. /\ hist'.put = hist.put /\ hist'.cut = hist.cut
          /\ hist'.crashed = hist.crashed /\ hist'.swept = hist.swept
          /\ hist'.storable = hist.storable /\ hist'.lost = hist.lost
      BY <2>1, <2>2 DEF HistType
    <3> QED
      BY <2>2, <3>1, <3>2
  <2>3. CASE rows' = rows /\ hist' = [[hist EXCEPT !.flushBroke = TRUE]
                                    EXCEPT !.lost = @ \union ToSet(inflight)]
    BY <2>1, <2>3 DEF HistType
  <2> QED
    BY <2>2, <2>3 DEF FlushBreaks, InsertBroken
<1>2. Puts
  BY <1>1 DEF FlushBreaks, Puts, Stays, NumberTypes, Seqs
<1>3. TaskTypes'
  BY DEF FlushBreaks, TaskTypes, InsertBroken, connVars
<1>4. StoreTypes'
  BY ToSetType, EmptySeq DEF FlushBreaks, StoreTypes, InsertBroken, Seqs,
         connVars
<1>5. HistTypes'
  BY <1>1 DEF HistTypes
<1>6. Numbering'
  BY StreamAssumption DEF FlushBreaks, Numbering, NumberTypes, Started,
         InsertBroken, Seqs, connVars
<1>7. Batching'
  BY <1>1, ToSetOfEmpty DEF FlushBreaks, InsertBroken, Batching
<1>8. Ending'
  BY <1>1 DEF FlushBreaks, Ending
<1>9. Following'
  BY <1>1, <1>2, PutsKeep DEF FlushBreaks, BrokerTypes, NumberTypes, connVars
<1>10. NumberTypes' /\ BrokerTypes' /\ ConnTypes' /\ QueueNumbered' /\ LiveInOrder'
  BY DEF FlushBreaks, NumberTypes, BrokerTypes, ConnTypes, QueueNumbered,
         LiveInOrder, InsertBroken, connVars
<1> QED
  BY <1>1, <1>2, <1>3, <1>4, <1>5, <1>6, <1>7, <1>8, <1>9, <1>10

-------------------------------------------------------------------------------
(* Requests that stop the run.                                              *)

\* The end takes the next number and finishes the broker.
LEMMA CancelRunStep ==
  ASSUME IInv, NEW how \in {"cancelled", "interrupted"}, CancelRun(how)
  PROVE  IInv'
<1> USE DEF IInv
<1>1. lastNo + 1 \in Seqs
  BY StreamAssumption DEF CancelRun, NumberTypes, Numbering, Seqs
<1>2. /\ BrokerTypes' /\ HistTypes' /\ Puts /\ broker'.finished
      /\ lastNo' = lastNo + 1
      /\ hist'.cut = hist.cut /\ hist'.crashed = hist.crashed
      /\ hist'.flushBroke = hist.flushBroke
      /\ hist'.lost = hist.lost /\ hist'.swept = hist.swept
      /\ hist'.storable = hist.storable
  BY <1>1, SignalPuts DEF CancelRun
<1>3. TaskTypes'
  BY DEF CancelRun, TaskTypes, storeVars, connVars
<1>4. NumberTypes'
  BY <1>1, <1>2 DEF CancelRun, NumberTypes
<1>5. BrokerTypes'
  BY <1>2
<1>6. HistTypes'
  BY <1>2
<1>7. Numbering'
  <2>1. /\ lastNo' = lastNo + 1 /\ lastNo < counter + MaxSignals
        /\ UNCHANGED <<counter, task>> /\ broker'.finished
    BY <1>2 DEF CancelRun
  <2> QED
    BY <2>1, StreamAssumption DEF NumberTypes, Numbering, Seqs, Started
<1>8. QueueNumbered'
  BY <1>1, <1>2, PutsKeep DEF CancelRun, NumberTypes, connVars
<1>9. LiveInOrder'
  BY <1>1, <1>2, PutsKeep DEF CancelRun, NumberTypes, connVars
<1>10. Batching'
  BY <1>2 DEF CancelRun, Batching, storeVars
<1>11. Ending'
  BY <1>2 DEF CancelRun, Ending
<1>12. Following'
  BY <1>1, <1>2, PutsKeep DEF CancelRun, NumberTypes, connVars
<1>13. StoreTypes' /\ ConnTypes'
  BY DEF CancelRun, StoreTypes, ConnTypes, SignalEnd, connVars, storeVars
<1> QED
  BY <1>1, <1>2, <1>3, <1>4, <1>5, <1>6, <1>7, <1>8, <1>9, <1>10, <1>11, <1>12,
     <1>13

\* Only the task will notice.
LEMMA CancelTaskStep ==
  ASSUME IInv, CancelTask
  PROVE  IInv'
<1> USE DEF IInv
<1>1. TaskTypes'
  BY DEF CancelTask, TaskTypes, storeVars, connVars
<1>2. NumberTypes' /\ BrokerTypes' /\ StoreTypes' /\ ConnTypes' /\ HistTypes' /\ Numbering' /\ QueueNumbered' /\ LiveInOrder' /\ Batching' /\ Ending' /\ Following'
  BY DEF CancelTask, NumberTypes, BrokerTypes, StoreTypes, ConnTypes, HistTypes,
         Numbering, QueueNumbered, LiveInOrder, Batching, Ending, Following,
         Delivered, Followed, connVars, storeVars
<1> QED
  BY <1>1, <1>2

-------------------------------------------------------------------------------
(* Clients.                                                                 *)

\* Who has been here before finds the broker finished and the run over.
LEMMA ConnectStep ==
  ASSUME IInv, NEW c \in Clients, Connect(c)
  PROVE  IInv'
<1> USE DEF IInv
<1> DEFINE k == [pc |-> "replay", since |-> lastId[c],
                 todo |-> {n \in rows : n > lastId[c]}, over |-> status = "interrupted"]
<1>1. k \in Connections /\ conn' = [conn EXCEPT ![c] = k]
  BY DEF Connect, ConnTypes, Connections, StoreTypes
<1>2. k.pc = "replay" /\ k.since = lastId[c] /\ k.over = (status = "interrupted")
  OBVIOUS
<1> HIDE DEF k
<1>3. /\ conn' \in [Clients -> Connections] /\ conn'[c] = k
      /\ \A d \in Clients \ {c} : conn'[d] = conn[d]
  BY <1>1, ConnUpdated
<1>4. ConnTypes'
  BY <1>3, StreamAssumption DEF Connect, ConnTypes
<1>5. Following'
  <2>1. ~hist.cut => Followed(c)'
    BY <1>2, <1>3 DEF Connect, taskVars, Ending, Following, Followed
  <2> QED
    BY <1>3, <2>1, ClientMoves DEF Connect
<1>6. TaskTypes' /\ NumberTypes' /\ BrokerTypes' /\ StoreTypes' /\ HistTypes' /\ Numbering' /\ QueueNumbered' /\ LiveInOrder' /\ Batching' /\ Ending'
  BY DEF Connect, TaskTypes, NumberTypes, BrokerTypes, StoreTypes, HistTypes,
         Numbering, QueueNumbered, LiveInOrder, Batching, Ending, storeVars,
         taskVars
<1> QED
  BY <1>1, <1>2, <1>3, <1>4, <1>5, <1>6

\* A stored row is sent.
LEMMA ReplayOneStep ==
  ASSUME IInv, NEW c \in Clients, ReplayOne(c)
  PROVE  IInv'
<1> USE DEF IInv
<1>1. PICK n \in conn[c].todo : /\ Received(c, n)
                              /\ conn' = [conn EXCEPT ![c].todo = @ \ {n}]
  BY DEF ReplayOne
<1> DEFINE k == [conn[c] EXCEPT !.todo = @ \ {n}]
<1>2. conn[c] \in Connections /\ conn[c].todo \subseteq Seqs
  BY DEF ConnTypes, Connections
<1>3. n \in Seqs /\ k \in Connections /\ k.pc = conn[c].pc /\ k.since = conn[c].since /\ k.over = conn[c].over
  BY <1>2 DEF Connections
<1>4. conn' = [conn EXCEPT ![c] = k]
  BY <1>1
<1> HIDE DEF k
<1>5. /\ conn' \in [Clients -> Connections] /\ conn'[c] = k
      /\ \A d \in Clients \ {c} : conn'[d] = conn[d]
  BY <1>3, <1>4, ConnUpdated
<1>6. /\ got' \in [Clients -> Seq(Seqs)] /\ lastId' \in [Clients -> Seqs]
      /\ ToSet(got'[c]) = ToSet(got[c]) \union {n}
      /\ \A d \in Clients \ {c} : got'[d] = got[d] /\ lastId'[d] = lastId[d]
  BY <1>1, <1>3, ReceivedFrame
<1>7. ConnTypes'
  BY <1>5, <1>6 DEF ReplayOne, ConnTypes
<1>8. Following'
  <2>1. ~hist.cut => Followed(c)'
    BY <1>3, <1>5 DEF ReplayOne, Following, Followed
  <2>2. \A d \in Clients : ToSet(got[d]) \subseteq ToSet(got'[d])
    BY <1>6
  <2> QED
    BY <1>5, <1>6, <2>1, <2>2, ClientMoves DEF ReplayOne
<1>9. TaskTypes' /\ NumberTypes' /\ BrokerTypes' /\ StoreTypes' /\ HistTypes' /\ Numbering' /\ QueueNumbered' /\ LiveInOrder' /\ Batching' /\ Ending'
  BY DEF ReplayOne, TaskTypes, NumberTypes, BrokerTypes, StoreTypes, HistTypes,
         Numbering, QueueNumbered, LiveInOrder, Batching, Ending, Received,
         storeVars, taskVars
<1> QED
  BY <1>1, <1>2, <1>3, <1>4, <1>5, <1>6, <1>7, <1>8, <1>9

\* A stream goes live from the start, or not at all.
LEMMA GoLiveStep ==
  ASSUME IInv, NEW c \in Clients, GoLive(c)
  PROVE  IInv'
<1> USE DEF IInv
<1> DEFINE k == IF conn[c].over /\ broker.finished THEN Idle
                 ELSE [conn[c] EXCEPT !.pc = "live"]
<1>1. conn[c] \in Connections
  BY DEF ConnTypes
<1>2. k \in Connections /\ conn' = [conn EXCEPT ![c] = k]
  BY <1>1, IdleType DEF GoLive, Connections
<1>3. \/ conn[c].over /\ broker.finished /\ k.pc = "off"
      \/ ~(conn[c].over /\ broker.finished) /\ k.pc = "live" /\ k.since = conn[c].since
  BY <1>1, IdleType DEF Connections
<1> HIDE DEF k
<1>4. /\ conn' \in [Clients -> Connections] /\ conn'[c] = k
      /\ \A d \in Clients \ {c} : conn'[d] = conn[d]
  BY <1>2, ConnUpdated
<1>5. /\ broker' \in Brokers /\ broker'.queue = broker.queue
      /\ broker'.finished = broker.finished
      /\ UNCHANGED <<task, outcome, status, counter, lastNo, got, lastId, connects, hist>>
  BY CreatedBroker DEF GoLive, BrokerTypes, taskVars
<1>6. Stays
  BY <1>5 DEF Stays, NumberTypes, Seqs
<1>7. BrokerTypes'
  BY <1>5 DEF BrokerTypes
<1>8. ConnTypes'
  BY <1>4, <1>5 DEF ConnTypes
<1>9. Numbering'
  BY <1>5 DEF Numbering
<1>10. QueueNumbered'
  BY <1>5, <1>6, StaysInOrder DEF NumberTypes
<1>11. LiveInOrder'
  BY <1>5, <1>6, StaysInOrder DEF NumberTypes
<1>12. Ending'
  BY <1>5 DEF Ending
<1>13. Following'
  <2>1. ~hist.cut => Followed(c)'
    <3>1. CASE conn[c].over /\ broker.finished
      BY <3>1, <1>3, <1>4, <1>5 DEF Followed
    <3>2. CASE ~(conn[c].over /\ broker.finished)
      BY <3>2, <1>3, <1>4, <1>5 DEF GoLive, Following, Followed, QueueNumbered, NumberTypes, Seqs
    <3> QED
      BY <3>1, <3>2
  <2> QED
    BY <1>4, <1>5, <2>1, ClientMoves
<1>14. TaskTypes' /\ NumberTypes' /\ StoreTypes' /\ HistTypes' /\ Batching'
  BY DEF GoLive, TaskTypes, NumberTypes, StoreTypes, HistTypes, Batching, Idle,
         storeVars, taskVars
<1> QED
  BY <1>1, <1>2, <1>3, <1>4, <1>5, <1>6, <1>7, <1>8, <1>9, <1>10, <1>11, <1>12,
     <1>13, <1>14

\* The oldest event is above what the client has: it is sent.
LEMMA LiveStep ==
  ASSUME IInv, NEW c \in Clients, Live(c)
  PROVE  IInv'
<1> USE DEF IInv
<1> DEFINE q == broker.queue
           f == Head(q)
           k == IF f.end THEN Idle
                ELSE [conn[c] EXCEPT !.since = IF f.seq > @ THEN f.seq ELSE @]
<1>1. /\ q \in Seq(Frame) /\ q # <<>> /\ Len(q) \in Nat /\ Len(q) > 0
      /\ Tail(q) \in Seq(Frame) /\ Len(Tail(q)) = Len(q) - 1
      /\ \A i \in 1..(Len(q) - 1) : Tail(q)[i] = q[i + 1]
      /\ f = q[1] /\ f \in Frame
  BY HeadTailProperties, EmptySeq, LenProperties, ElementOfSeq DEF Live, BrokerTypes, Brokers
<1>2. /\ broker' \in Brokers /\ broker'.queue = Tail(q)
      /\ broker'.finished = broker.finished
      /\ UNCHANGED <<task, outcome, status, counter, lastNo, connects, hist>>
  BY <1>1 DEF Live, BrokerTypes, Brokers, taskVars
<1>3. Shrinks
  BY <1>1, <1>2 DEF Shrinks
<1>4. conn[c] \in Connections /\ conn[c].pc = "live" /\ conn[c].since \in Seqs
  BY DEF ConnTypes, Connections, Live
<1>5. f.seq \in Seqs /\ f.end \in BOOLEAN
  BY <1>1 DEF Frame
<1>6. k \in Connections /\ conn' = [conn EXCEPT ![c] = k]
  BY <1>4, <1>5, IdleType DEF Live, Connections
<1>7. \/ f.end /\ k.pc = "off"
      \/ ~f.end /\ k.pc = "live" /\ k.since = IF f.seq > conn[c].since THEN f.seq ELSE conn[c].since
  BY <1>4, IdleType DEF Connections
<1>8. \/ f.seq > conn[c].since /\ Received(c, f.seq)
      \/ ~(f.seq > conn[c].since) /\ UNCHANGED <<got, lastId>>
  BY DEF Live
<1> HIDE DEF q, f, k
<1>9. /\ conn' \in [Clients -> Connections] /\ conn'[c] = k
      /\ \A d \in Clients \ {c} : conn'[d] = conn[d]
  BY <1>6, ConnUpdated
<1>10. /\ got' \in [Clients -> Seq(Seqs)] /\ lastId' \in [Clients -> Seqs]
       /\ f.seq > conn[c].since => ToSet(got'[c]) = ToSet(got[c]) \union {f.seq}
       /\ ~(f.seq > conn[c].since) => got'[c] = got[c]
       /\ \A d \in Clients \ {c} : got'[d] = got[d] /\ lastId'[d] = lastId[d]
  BY <1>5, <1>8, ReceivedFrame DEF ConnTypes
<1>11. BrokerTypes'
  BY <1>2 DEF BrokerTypes
<1>12. ConnTypes'
  BY <1>2, <1>9, <1>10 DEF ConnTypes
<1>13. Numbering'
  BY <1>2 DEF Numbering
<1>14. QueueNumbered'
  BY <1>3, ShrinksInOrder
<1>15. LiveInOrder'
  BY <1>3, ShrinksInOrder
<1>16. Ending'
  BY <1>2 DEF Ending
<1>17. Following'
  <2> SUFFICES ASSUME ~hist.cut PROVE (\A d \in Clients : Followed(d)') /\ Delivered'
    BY <1>2 DEF Following
  <2>1. (\A d \in Clients : Followed(d)) /\ Delivered
    BY DEF Following
  <2>2. 1 \in 1..Len(q) /\ q = broker.queue
    BY <1>1 DEF q
  <2>3. /\ f.seq > conn[c].since /\ f.seq <= lastNo
        /\ f.end => broker.finished
    BY <2>1, <2>2, <1>1, <1>4 DEF Followed, QueueNumbered, LiveInOrder
  <2>4. \A i \in 1..(Len(q) - 1) : /\ i + 1 \in 1..Len(q)
                                  /\ broker'.queue[i] = q[i + 1]
                                  /\ f.seq < q[i + 1].seq
    BY <1>1, <1>2, <2>2 DEF LiveInOrder
  <2>5. Followed(c)'
    BY <1>1, <1>2, <1>5, <1>7, <1>9, <2>3, <2>4 DEF Followed
  <2>6. ASSUME NEW d \in Clients \ {c} PROVE Followed(d)'
    <3>1. conn'[d] = conn[d] /\ lastId'[d] = lastId[d] /\ Followed(d)
      BY <1>9, <1>10, <2>1
    <3>2. /\ Len(broker'.queue) = Len(q) - 1 /\ lastNo' = lastNo
          /\ broker'.finished = broker.finished
      BY <1>1, <1>2
    <3>3. conn[d].pc = "live" =>
            \A i \in 1..Len(broker'.queue) : broker'.queue[i].seq > conn[d].since
      BY <3>1, <3>2, <2>2, <2>4 DEF Followed
    <3> QED
      BY <3>1, <3>2, <3>3 DEF Followed
  <2>7. ASSUME NEW n \in hist.put
        PROVE  \/ \E i \in 1..Len(broker'.queue) : broker'.queue[i].seq = n
               \/ \E d \in Clients : n \in ToSet(got'[d])
    <3>1. CASE \E d \in Clients : n \in ToSet(got[d])
      BY <3>1, <1>10
    <3>2. ASSUME NEW i \in 1..Len(q), q[i].seq = n 
          PROVE  \/ \E j \in 1..Len(broker'.queue) : broker'.queue[j].seq = n
                 \/ \E d \in Clients : n \in ToSet(got'[d])
      <4>1. CASE i = 1
        BY <3>2, <4>1, <1>1, <1>10, <2>3
      <4>2. CASE i # 1
        <5>1. i - 1 \in 1..(Len(q) - 1) /\ (i - 1) + 1 = i
          BY <4>2, <1>1
        <5> QED
          BY <3>2, <5>1, <1>1, <1>2, <2>4
      <4> QED
        BY <4>1, <4>2
    <3> QED
      BY <3>1, <3>2, <2>1, <2>2 DEF Delivered
  <2> QED
    BY <2>5, <2>6, <2>7, <1>2 DEF Delivered
<1>18. TaskTypes' /\ NumberTypes' /\ StoreTypes' /\ HistTypes' /\ Batching'
  BY DEF Live, TaskTypes, NumberTypes, StoreTypes, HistTypes, Batching, Idle,
         Received, storeVars, taskVars
<1> QED
  BY <1>1, <1>2, <1>3, <1>4, <1>5, <1>6, <1>7, <1>8, <1>9, <1>10, <1>11, <1>12,
     <1>13, <1>14, <1>15, <1>16, <1>17, <1>18

\* The broker is finished.
LEMMA TimeoutBreakStep ==
  ASSUME IInv, NEW c \in Clients, TimeoutBreak(c)
  PROVE  IInv'
<1> USE DEF IInv
<1>1. /\ conn' \in [Clients -> Connections] /\ conn'[c] = Idle
      /\ \A d \in Clients \ {c} : conn'[d] = conn[d]
  BY ConnUpdated, IdleType DEF TimeoutBreak
<1>2. ConnTypes'
  BY <1>1 DEF TimeoutBreak, ConnTypes
<1>3. Following'
  <2>1. ~hist.cut => Followed(c)'
    BY <1>1, IdleType DEF TimeoutBreak, Followed
  <2> QED
    BY <1>1, <2>1, ClientMoves DEF TimeoutBreak
<1>4. TaskTypes' /\ NumberTypes' /\ BrokerTypes' /\ StoreTypes' /\ HistTypes' /\ Numbering' /\ QueueNumbered' /\ LiveInOrder' /\ Batching' /\ Ending'
  BY DEF TimeoutBreak, TaskTypes, NumberTypes, BrokerTypes, StoreTypes,
         HistTypes, Numbering, QueueNumbered, LiveInOrder, Batching, Ending,
         Idle, storeVars, taskVars
<1> QED
  BY <1>1, <1>2, <1>3, <1>4

\* From here on events may be missed.
LEMMA DisconnectStep ==
  ASSUME IInv, NEW c \in Clients, Disconnect(c)
  PROVE  IInv'
<1> USE DEF IInv
<1>1. /\ conn' \in [Clients -> Connections] /\ conn'[c] = Idle
      /\ \A d \in Clients \ {c} : conn'[d] = conn[d]
  BY ConnUpdated, IdleType DEF Disconnect
<1>2. /\ broker' \in Brokers /\ broker'.finished = broker.finished
      /\ UNCHANGED <<task, outcome, status, counter, lastNo, got, lastId, connects>>
      /\ Stays \/ Shrinks
  <2>1. CASE broker' = broker
    BY <2>1 DEF Disconnect, BrokerTypes, taskVars, Stays, NumberTypes, Seqs
  <2>2. CASE broker.queue # <<>> /\ broker' = [broker EXCEPT !.queue = Tail(@)]
    <3>1. broker \in Brokers /\ Tail(broker.queue) \in Seq(Frame)
      BY <2>2, HeadTailProperties DEF BrokerTypes, Brokers
    <3> QED
      BY <2>2, <3>1 DEF Disconnect, Brokers, taskVars, Shrinks
  <2> QED
    BY <2>1, <2>2 DEF Disconnect
<1>3. /\ hist' \in HistType /\ hist'.cut /\ hist'.lost = hist.lost
      /\ hist'.flushBroke = hist.flushBroke /\ hist'.storable = hist.storable
      /\ hist'.swept = hist.swept /\ hist'.crashed = hist.crashed
  BY DEF Disconnect, HistTypes, HistType
<1>4. NumberTypes'
  BY <1>2 DEF NumberTypes
<1>5. BrokerTypes'
  BY <1>2 DEF BrokerTypes
<1>6. ConnTypes'
  BY <1>1, <1>2 DEF ConnTypes
<1>7. HistTypes'
  BY <1>3 DEF HistTypes
<1>8. Numbering'
  BY <1>2 DEF Numbering
<1>9. QueueNumbered'
  BY <1>2, <1>4, StaysInOrder, ShrinksInOrder
<1>10. LiveInOrder'
  BY <1>2, <1>4, StaysInOrder, ShrinksInOrder
<1>11. Batching'
  BY <1>2, <1>3 DEF Disconnect, Batching, storeVars
<1>12. Ending'
  BY <1>2, <1>3 DEF Ending
<1>13. Following'
  BY <1>3 DEF Following
<1>14. TaskTypes' /\ NumberTypes' /\ StoreTypes'
  BY DEF Disconnect, TaskTypes, NumberTypes, StoreTypes, Idle, storeVars,
         taskVars
<1> QED
  BY <1>1, <1>2, <1>3, <1>4, <1>5, <1>6, <1>7, <1>8, <1>9, <1>10, <1>11, <1>12,
     <1>13, <1>14

-------------------------------------------------------------------------------
(* Housekeeping and restart.                                                *)

\* Deleted rows are remembered.
LEMMA SweepStep ==
  ASSUME IInv, Sweep
  PROVE  IInv'
<1> USE DEF IInv
<1>1. /\ hist' \in HistType /\ rows' \subseteq rows
      /\ rows \union hist.swept = rows' \union hist'.swept
      /\ hist'.put = hist.put /\ hist'.cut = hist.cut /\ hist'.lost = hist.lost
      /\ hist'.flushBroke = hist.flushBroke /\ hist'.storable = hist.storable
      /\ hist'.crashed = hist.crashed
  <2>1. PICK n \in rows : /\ rows' = {m \in rows : m > n}
                         /\ hist' = [hist EXCEPT !.swept = @ \union {m \in rows : m <= n}]
    BY DEF Sweep
  <2>2. hist \in HistType /\ rows \subseteq Seqs
    BY DEF HistTypes, StoreTypes
  <2>3. /\ hist' = [hist EXCEPT !.swept = hist.swept \union {m \in rows : m <= n}]
        /\ hist.swept \union {m \in rows : m <= n} \subseteq Seqs
    BY <2>1, <2>2 DEF HistType
  <2>4. \A m \in rows : m > n \/ m <= n
    BY <2>2 DEF Seqs
  <2> QED
    BY <2>1, <2>2, <2>3, <2>4 DEF HistType
<1>2. StoreTypes'
  BY <1>1 DEF Sweep, StoreTypes
<1>3. HistTypes'
  BY <1>1 DEF HistTypes
<1>4. Batching'
  BY <1>1 DEF Sweep, taskVars, Batching
<1>5. Ending'
  BY <1>1 DEF Sweep, taskVars, Ending
<1>6. Following'
  BY <1>1 DEF Sweep, taskVars, connVars, Following, Followed, Delivered
<1>7. TaskTypes' /\ NumberTypes' /\ BrokerTypes' /\ ConnTypes' /\ Numbering' /\ QueueNumbered' /\ LiveInOrder'
  BY DEF Sweep, TaskTypes, NumberTypes, BrokerTypes, ConnTypes, Numbering,
         QueueNumbered, LiveInOrder, connVars, taskVars
<1> QED
  BY <1>1, <1>2, <1>3, <1>4, <1>5, <1>6, <1>7

\* Nothing is left to be said of what was in memory.
LEMMA RestartStep ==
  ASSUME IInv, Restart
  PROVE  IInv'
<1> USE DEF IInv
<1>1. TaskTypes'
  BY DEF Restart, TaskTypes, NoBroker, Idle
<1>2. NumberTypes'
  BY StreamAssumption DEF Restart, NumberTypes, NoBroker, Idle, Seqs
<1>3. BrokerTypes'
  BY EmptySeq DEF Restart, BrokerTypes, NoBroker, Idle, Frame, Seqs, Brokers
<1>4. StoreTypes'
  BY EmptySeq DEF Restart, StoreTypes, NoBroker, Idle, Seqs
<1>5. ConnTypes'
  BY IdleType DEF Restart, ConnTypes
<1>6. HistTypes'
  BY DEF Restart, HistTypes, NoBroker, Idle, HistType, Seqs
<1>7. Numbering'
  BY StreamAssumption DEF Restart, Numbering, NumberTypes, Started, NoBroker,
         Idle, Seqs
<1>8. QueueNumbered'
  BY DEF Restart, QueueNumbered, NoBroker, Idle
<1>9. LiveInOrder'
  BY DEF Restart, LiveInOrder, NoBroker, Idle
<1>10. Batching'
  BY ToSetOfEmpty DEF Restart, Batching, StoreTypes, HistTypes, NoBroker, Idle,
         HistType, Seqs
<1>11. Ending'
  BY DEF Restart, Ending, Batching, HistTypes, NoBroker, Idle, HistType, Seqs
<1>12. Following'
  BY DEF Restart, HistTypes, HistType, Following
<1> QED
  BY <1>1, <1>2, <1>3, <1>4, <1>5, <1>6, <1>7, <1>8, <1>9, <1>10, <1>11, <1>12

-------------------------------------------------------------------------------
(* Theorems.                                                                 *)
LEMMA InitIInv == Init => IInv
<1> SUFFICES ASSUME Init PROVE IInv
  OBVIOUS
<1> USE DEF Init, IInv
<1>1. TaskTypes /\ NumberTypes
  <2>1. MaxSeq \in Nat /\ MaxSignals \in Nat
    BY StreamAssumption
  <2>2. 0 \in Seqs /\ 0 \in 0..MaxSeq
    BY <2>1 DEF Seqs
  <2> QED
    BY <2>2 DEF TaskTypes, NumberTypes
<1>6. HistTypes
  BY DEF HistTypes, HistType
<1>2. BrokerTypes /\ StoreTypes
  BY EmptySeq DEF BrokerTypes, Brokers, NoBroker, StoreTypes
<1>3. ConnTypes
  BY StreamAssumption, EmptySeq DEF ConnTypes, Connections, Idle, Seqs
<1>4. Numbering /\ Batching /\ Ending
  BY StreamAssumption DEF Numbering, Started, Batching, Ending, NoBroker
<1>5. QueueNumbered /\ LiveInOrder /\ Following
  BY DEF QueueNumbered, LiveInOrder, Following, Followed, Delivered, NoBroker, Idle
<1> QED
  BY <1>1, <1>2, <1>3, <1>4, <1>5, <1>6

LEMMA NextIInv == IInv /\ [Next]_vars => IInv'
<1> SUFFICES ASSUME IInv, [Next]_vars PROVE IInv'
  OBVIOUS
<1>1. CASE Task
  BY <1>1, EmitStep, StoreCommitsStep, TaskEndsStep, TaskCancelledStep, FinallyStep,
     HandlerCancelledStep, FlushDoneStep, FlushBreaksStep DEF Task
<1>2. ASSUME NEW c \in Clients, Connect(c) \/ Stream(c) \/ Disconnect(c) PROVE IInv'
  BY <1>2, ConnectStep, ReplayOneStep, GoLiveStep, LiveStep, TimeoutBreakStep,
     DisconnectStep DEF Stream
<1>3. CASE \E how \in {"cancelled", "interrupted"} : CancelRun(how)
  BY <1>3, CancelRunStep
<1>4. CASE CancelTask \/ Sweep \/ Restart
  BY <1>4, CancelTaskStep, SweepStep, RestartStep
<1>5. CASE UNCHANGED vars
  BY <1>5 DEF vars, taskVars, storeVars, connVars, IInv, TaskTypes, NumberTypes,
     BrokerTypes, StoreTypes, ConnTypes, HistTypes, Numbering, Started,
     QueueNumbered, LiveInOrder, Batching, Ending, Following, Followed, Delivered
<1> QED
  BY <1>1, <1>2, <1>3, <1>4, <1>5 DEF Next

\* The invariant holds in every reachable state.
THEOREM StreamInvariant == Spec => []IInv
  BY InitIInv, NextIInv, PTL DEF Spec

\* Every variable keeps its type.
THEOREM StreamTypes == Spec => []TypeOK
<1>1. IInv => TypeOK
  BY DEF IInv, TaskTypes, NumberTypes, BrokerTypes, Brokers, StoreTypes, ConnTypes,
         Connections, HistTypes, TypeOK
<1> QED
  BY <1>1, StreamInvariant, PTL

\* The queue of a run is in the order of the numbers, with its end at the end,
\* whoever signals the end while the task still emits (streaming_service.py).
THEOREM LiveStaysInOrder == Spec => []LiveInOrder
<1>1. IInv => LiveInOrder
  BY DEF IInv
<1> QED
  BY <1>1, StreamInvariant, PTL

\* A task that is over has stored all it had to, except what an insert that failed
\* took with it, and that only at the end of a run that was not cut short.
THEOREM StoresOrIsExcused == Spec => []StoredOrExcused
<1>1. IInv => StoredOrExcused
  BY ToSetOfEmpty DEF IInv, Batching, Ending, StoredOrExcused
<1> QED
  BY <1>1, StreamInvariant, PTL

\* While no connection breaks every event of the broker reaches some client, for
\* any number of clients that share its queue.
THEOREM SkipsNothing == Spec => []NothingSkipped
<1>1. IInv => NothingSkipped
  BY DEF IInv, Following, Delivered, NothingSkipped
<1> QED
  BY <1>1, StreamInvariant, PTL

-----------------------------------------------------------------------------
(* EventConversion: the two ways of an event.                              *)

ConversionSpec == InitConversion /\ [][NextConversion]_conversionVars

\* Frames are numbered by the events, of which there have been n.
Numbered(frames, n) ==
  /\ frames \in Seq(Shape)
  /\ \A i \in DOMAIN frames : frames[i].no <= n
  /\ Ascending(frames)

\* Each row is of a type the converter knows and tells what a live frame told;
\* each live frame but a custom one has a row.
RowsTellLive(rows_, frames) ==
  /\ \A i \in DOMAIN rows_ : rows_[i].type \in {"messages", "values"}
  /\ \A i \in DOMAIN rows_ : \E k \in DOMAIN frames :
       frames[k].type # "custom" /\ Tells(rows_[i], frames[k])
  /\ \A k \in DOMAIN frames : frames[k].type # "custom" =>
       \E i \in DOMAIN rows_ : rows_[i].no = frames[k].no

\* What was replayed are the rows up to the cursor, which does not move before
\* the last of them is there.
ReplayIsPrefix ==
  /\ cursor \in 0..Len(stored) /\ (verdict = "none" => cursor = 0)
  /\ replay \in Seq(Shape) /\ Len(replay) = cursor
  /\ \A i \in 1..cursor : replay[i] = stored[i]

ConversionInv ==
  /\ MaxEvents \in Nat /\ Len(graph) \in Nat /\ request.modes \subseteq Asked
  /\ graph \in Seq([path : BOOLEAN, mode : Asked, data : Payload])
  /\ request.subgraphs \in BOOLEAN
  /\ Numbered(live, Len(graph)) /\ Numbered(stored, Len(graph))
  /\ RowsTellLive(stored, live)
  /\ ReplayIsPrefix

LEMMA InitConverts == InitConversion => ConversionInv
<1> SUFFICES ASSUME InitConversion PROVE ConversionInv
  OBVIOUS
<1>1. /\ live = <<>> /\ stored = <<>> /\ replay = <<>> /\ graph = <<>> /\ cursor = 0
      /\ DOMAIN <<>> = {} /\ Len(<<>>) = 0 /\ \A S : <<>> \in Seq(S)
  BY EmptySeq DEF InitConversion
<1>2. request.modes \subseteq Asked /\ request.subgraphs \in BOOLEAN
  BY DEF InitConversion
<1>3. Numbered(live, Len(graph)) /\ Numbered(stored, Len(graph))
  BY <1>1 DEF Numbered, Ascending
<1>4. RowsTellLive(stored, live)
  BY <1>1 DEF RowsTellLive
<1>5. ReplayIsPrefix
  BY <1>1 DEF ReplayIsPrefix
<1> QED
  BY <1>1, <1>2, <1>3, <1>4, <1>5, MaxEventsIsNat DEF ConversionInv

\* A frame of a sequence of frames.
LEMMA FrameIn ==
  ASSUME NEW frames \in Seq(Shape), NEW i \in DOMAIN frames
  PROVE  /\ frames[i] \in Shape /\ frames[i].no \in Nat
         /\ frames[i].type \in Asked
<1>1. i \in 1..Len(frames)
  BY LenProperties
<1>2. frames[i] \in Shape
  BY <1>1, ElementOfSeq
<1>3. /\ \A f \in Shape : f.no \in 1..MaxEvents /\ f.type \in Asked
      /\ 1..MaxEvents \subseteq Nat
  BY MaxEventsIsNat DEF Shape
<1> QED
  BY <1>2, <1>3

\* A frame with the next number goes to the end.
LEMMA NextFrame ==
  ASSUME NEW frames, NEW n \in Nat, Numbered(frames, n),
         NEW f \in Shape, f.no = n + 1
  PROVE  /\ Numbered(Append(frames, f), n + 1)
         /\ DOMAIN Append(frames, f) = DOMAIN frames \union {Len(frames) + 1}
         /\ \A i \in DOMAIN frames : Append(frames, f)[i] = frames[i]
         /\ Append(frames, f)[Len(frames) + 1] = f
<1>1. /\ frames \in Seq(Shape) /\ Len(frames) \in Nat
      /\ DOMAIN frames = 1..Len(frames)
  BY LenProperties DEF Numbered
<1>2. /\ Append(frames, f) \in Seq(Shape)
      /\ DOMAIN Append(frames, f) = 1..(Len(frames) + 1)
      /\ \A i \in 1..Len(frames) : Append(frames, f)[i] = frames[i]
      /\ Append(frames, f)[Len(frames) + 1] = f
  BY <1>1, AppendProperties, LenProperties
<1>3. \A i \in DOMAIN frames : frames[i].no \in Nat /\ frames[i].no <= n
  BY <1>1, FrameIn DEF Numbered
<1>4. Numbered(Append(frames, f), n + 1)
  <2> DEFINE g == Append(frames, f)
  <2>1. \A i \in DOMAIN g : g[i].no <= n + 1
    BY <1>1, <1>2, <1>3
  <2>2. ASSUME NEW i \in DOMAIN g, NEW j \in DOMAIN g, i < j
        PROVE  g[i].no < g[j].no
    <3>1. i \in 1..Len(frames)
      BY <2>2, <1>1, <1>2
    <3>2. CASE j = Len(frames) + 1
      BY <3>1, <3>2, <1>1, <1>2, <1>3
    <3>3. CASE j \in 1..Len(frames)
      BY <3>1, <3>3, <2>2, <1>1, <1>2 DEF Numbered, Ascending
    <3> QED
      BY <3>2, <3>3, <1>1, <1>2
  <2> QED
    BY <1>2, <2>1, <2>2 DEF Numbered, Ascending
<1> QED
  BY <1>1, <1>2, <1>4

\* More events do not change the numbers of the frames there are.
LEMMA SameFrames ==
  ASSUME NEW frames, NEW n \in Nat, Numbered(frames, n)
  PROVE  Numbered(frames, n + 1)
<1>1. \A i \in DOMAIN frames : frames[i].no \in Nat /\ frames[i].no <= n
  BY FrameIn DEF Numbered
<1> QED
  BY <1>1 DEF Numbered

\* One event of the graph becomes a frame and a row that tell the same, or,
\* a custom one, a frame alone, or nothing at all.
LEMMA EventConverts ==
  ASSUME ConversionInv, NEW mode \in Asked, NEW data \in Payload,
         GraphEvent(mode, data)
  PROVE  ConversionInv'
<1> DEFINE e == [path |-> request.subgraphs, mode |-> mode, data |-> data]
           n == Len(graph) + 1
           p == Processed(e)
           f == LiveFrame(p, n)
           r == StoredRow(p, n)
<1>1. /\ Len(graph) \in Nat /\ MaxEvents \in Nat /\ n \in 1..MaxEvents
      /\ Numbered(live, Len(graph)) /\ Numbered(stored, Len(graph))
      /\ RowsTellLive(stored, live) /\ verdict = "none"
      /\ UNCHANGED <<request, cursor, replay, verdict>>
  BY DEF GraphEvent, ConversionInv
<1>2. /\ graph' = Append(graph, e)
      /\ live' = IF p = Skipped THEN live ELSE Append(live, f)
      /\ stored' = IF p.mode \in StoredModes THEN Append(stored, r) ELSE stored
  BY DEF GraphEvent
<1>3. p \in [mode : Asked \union {"none"}, data : Payload] /\ (p.mode = "none" => p = Skipped)
  BY DEF Processed, Skipped, Asked, Payload
<1>4. /\ graph' \in Seq([path : BOOLEAN, mode : Asked, data : Payload])
      /\ Len(graph') = n
  BY <1>2, AppendProperties DEF ConversionInv
<1>5. p.mode # "none" =>
        /\ f \in Shape /\ f.no = n /\ f.data = p.data
        /\ f.type = "custom" <=> p.mode = "custom"
  BY <1>1, <1>3 DEF LiveFrame, Shape, Asked, Stops
<1>6. p.mode \in StoredModes =>
        /\ r \in Shape /\ r.no = n /\ Tells(r, f)
        /\ r.type \in {"messages", "values"}
  BY <1>1, <1>3, <1>5 DEF StoredRow, LiveFrame, StoredModes, Shape, Tells, Asked, Stops
<1>7. p = Skipped => p.mode = "none"
  BY DEF Skipped
<1> HIDE DEF e, n, p, f, r
<1>8. n = Len(graph) + 1
  BY DEF n
<1>9. /\ DOMAIN live = 1..Len(live) /\ DOMAIN stored = 1..Len(stored)
      /\ Len(live) \in Nat /\ Len(stored) \in Nat
  BY <1>1, LenProperties DEF Numbered
\* The numbers of the frames and of the rows.
<1>10. Numbered(live', n)
  <2>1. CASE p = Skipped
    BY <2>1, <1>1, <1>2, <1>8, SameFrames
  <2>2. CASE p # Skipped
    BY <2>2, <1>1, <1>2, <1>3, <1>5, <1>8, NextFrame
  <2> QED
    BY <2>1, <2>2
<1>11. Numbered(stored', n)
  <2>1. CASE p.mode \in StoredModes
    BY <2>1, <1>1, <1>2, <1>6, <1>8, NextFrame
  <2>2. CASE p.mode \notin StoredModes
    BY <2>2, <1>1, <1>2, <1>8, SameFrames
  <2> QED
    BY <2>1, <2>2
\* What they tell.
<1>12. RowsTellLive(stored', live')
  <2>1. CASE p = Skipped
    <3>1. live' = live /\ stored' = stored
      BY <2>1, <1>2, <1>7 DEF StoredModes
    <3> QED
      BY <3>1, <1>1
  <2>2. CASE p.mode = "custom"
    <3>1. p # Skipped /\ stored' = stored /\ live' = Append(live, f)
      BY <2>2, <1>2, <1>7 DEF StoredModes
    <3>2. /\ DOMAIN live' = DOMAIN live \union {Len(live) + 1}
          /\ \A k \in DOMAIN live : live'[k] = live[k]
          /\ live'[Len(live) + 1].type = "custom"
      BY <2>2, <3>1, <1>1, <1>5, <1>8, NextFrame
    <3> QED
      BY <3>1, <3>2, <1>1 DEF RowsTellLive
  <2>3. CASE p.mode \in StoredModes
    <3>1. p # Skipped /\ stored' = Append(stored, r) /\ live' = Append(live, f)
      BY <2>3, <1>2, <1>7 DEF StoredModes
    <3>2. p.mode # "none" /\ f.type # "custom"
      BY <2>3, <1>5 DEF StoredModes
    <3>3. /\ DOMAIN live' = DOMAIN live \union {Len(live) + 1}
          /\ \A k \in DOMAIN live : live'[k] = live[k]
          /\ live'[Len(live) + 1] = f
      BY <3>1, <3>2, <1>1, <1>5, <1>8, NextFrame
    <3>4. /\ DOMAIN stored' = DOMAIN stored \union {Len(stored) + 1}
          /\ \A i \in DOMAIN stored : stored'[i] = stored[i]
          /\ stored'[Len(stored) + 1] = r
      BY <2>3, <3>1, <1>1, <1>6, <1>8, NextFrame
    <3>5. Tells(r, f) /\ r.no = f.no
      BY <2>3, <3>2, <1>5, <1>6
    <3>6. ASSUME NEW i \in DOMAIN stored'
          PROVE  \E k \in DOMAIN live' :
                   live'[k].type # "custom" /\ Tells(stored'[i], live'[k])
      <4>1. CASE i = Len(stored) + 1
        BY <4>1, <3>2, <3>3, <3>4, <3>5
      <4>2. CASE i \in DOMAIN stored
        <5>1. PICK k \in DOMAIN live :
                live[k].type # "custom" /\ Tells(stored[i], live[k])
          BY <4>2, <1>1 DEF RowsTellLive
        <5> QED
          BY <4>2, <5>1, <3>3, <3>4
      <4> QED
        BY <4>1, <4>2, <3>4
    <3>7. ASSUME NEW k \in DOMAIN live', live'[k].type # "custom"
          PROVE  \E i \in DOMAIN stored' : stored'[i].no = live'[k].no
      <4>1. CASE k = Len(live) + 1
        BY <4>1, <3>3, <3>4, <3>5
      <4>2. CASE k \in DOMAIN live
        <5>1. PICK i \in DOMAIN stored : stored[i].no = live[k].no
          BY <4>2, <3>3, <3>7, <1>1 DEF RowsTellLive
        <5> QED
          BY <4>2, <5>1, <3>3, <3>4
      <4> QED
        BY <4>1, <4>2, <3>3
    <3>8. ASSUME NEW i \in DOMAIN stored'
          PROVE  stored'[i].type \in {"messages", "values"}
      <4>1. CASE i = Len(stored) + 1
        BY <4>1, <2>3, <3>4, <1>6
      <4>2. CASE i \in DOMAIN stored
        BY <4>2, <3>4, <1>1 DEF RowsTellLive
      <4> QED
        BY <4>1, <4>2, <3>4
    <3> QED
      BY <3>6, <3>7, <3>8 DEF RowsTellLive
  <2> QED
    BY <2>1, <2>2, <2>3, <1>3 DEF StoredModes, Asked
\* Nothing is replayed yet.
<1>13. ReplayIsPrefix'
  <2>1. cursor = 0 /\ cursor' = 0 /\ replay' = replay /\ replay \in Seq(Shape) /\ Len(replay) = 0
    BY <1>1 DEF ConversionInv, ReplayIsPrefix
  <2>2. Len(stored') \in Nat
    BY <1>11, LenProperties DEF Numbered
  <2> QED
    BY <2>1, <2>2 DEF ReplayIsPrefix
<1> QED
  BY <1>1, <1>4, <1>8, <1>10, <1>11, <1>12, <1>13 DEF ConversionInv

\* A stored event is sent as its row.
LEMMA RowConverts ==
  ASSUME ConversionInv, ReplayNext
  PROVE  ConversionInv'
<1> DEFINE r == stored[cursor + 1]
<1>1. /\ verdict # "none" /\ cursor \in 0..Len(stored) /\ cursor < Len(stored)
      /\ cursor' = cursor + 1 /\ replay' = replay \o Replayed(r)
      /\ UNCHANGED <<request, graph, stop, live, stored, found, output, verdict>>
      /\ replay \in Seq(Shape) /\ Len(replay) = cursor
  BY DEF ReplayNext, ConversionInv, ReplayIsPrefix
<1>2. stored \in Seq(Shape) /\ Len(stored) \in Nat /\ DOMAIN stored = 1..Len(stored)
  BY LenProperties DEF ConversionInv, Numbered
<1>3. r \in Shape /\ cursor + 1 \in DOMAIN stored
  BY <1>1, <1>2, ElementOfSeq
<1>4. r.type \in {"messages", "values"}
  BY <1>3 DEF ConversionInv, RowsTellLive
<1> HIDE DEF r
<1>5. replay' = Append(replay, r)
  <2>1. Replayed(r) = <<r>>
    BY <1>4 DEF Replayed
  <2> QED
    BY <2>1, <1>1, <1>3, AppendIsConcat
<1>6. /\ replay' \in Seq(Shape) /\ Len(replay') = cursor + 1
      /\ \A i \in 1..cursor : replay'[i] = replay[i]
      /\ replay'[cursor + 1] = r
  BY <1>1, <1>3, <1>5, AppendProperties
<1>7. \A i \in 1..cursor : replay[i] = stored[i]
  BY DEF ConversionInv, ReplayIsPrefix
<1>8. \A i \in 1..cursor' : replay'[i] = stored[i]
  BY <1>1, <1>6, <1>7, <1>2 DEF r
<1>9. ReplayIsPrefix'
  BY <1>1, <1>2, <1>6, <1>8 DEF ReplayIsPrefix
<1> QED
  BY <1>1, <1>9 DEF ConversionInv

LEMMA ConversionStep ==
  ConversionInv /\ [NextConversion]_conversionVars => ConversionInv'
<1> SUFFICES ASSUME ConversionInv, [NextConversion]_conversionVars
             PROVE  ConversionInv'
  OBVIOUS
<1>1. CASE GraphDone
  <2>1. UNCHANGED <<request, graph, live, stored, cursor, replay>> /\ verdict = "none"
    BY <1>1 DEF GraphDone
  <2> QED
    BY <2>1 DEF ConversionInv, ReplayIsPrefix
<1>2. CASE UNCHANGED conversionVars
  BY <1>2 DEF ConversionInv, ReplayIsPrefix, conversionVars
<1> QED
  BY <1>1, <1>2, EventConverts, RowConverts DEF NextConversion

\* Whatever the run asked for and the graph yields, a client that reconnects is
\* shown what the live stream showed, in the same order and nothing else.
THEOREM ReplayTellsLive == ConversionSpec => []ReplayAgrees
<1>1. ConversionInv => ReplayAgrees
  <2> SUFFICES ASSUME ConversionInv PROVE ReplayAgrees
    OBVIOUS
  <2>1. /\ stored \in Seq(Shape) /\ Len(stored) \in Nat /\ DOMAIN stored = 1..Len(stored)
        /\ Ascending(stored) /\ Ascending(live) /\ RowsTellLive(stored, live)
    BY LenProperties DEF ConversionInv, Numbered
  <2>2. /\ cursor \in 0..Len(stored) /\ DOMAIN replay = 1..cursor
        /\ \A i \in 1..cursor : replay[i] = stored[i]
    BY LenProperties DEF ConversionInv, ReplayIsPrefix
  <2>3. \A i \in DOMAIN replay : i \in DOMAIN stored /\ replay[i] = stored[i]
    BY <2>1, <2>2
  <2>4. Ascending(replay)
    BY <2>1, <2>3 DEF Ascending
  <2>5. \A i \in DOMAIN replay : \E k \in DOMAIN live :
          live[k].type # "custom" /\ Tells(replay[i], live[k])
    BY <2>1, <2>3 DEF RowsTellLive
  <2>6. ASSUME NEW k \in DOMAIN live, live[k].type # "custom",
               \/ cursor = Len(stored)
               \/ \E i \in DOMAIN replay : live[k].no < replay[i].no
        PROVE  \E i \in DOMAIN replay : replay[i].no = live[k].no
    <3>1. PICK i \in DOMAIN stored : stored[i].no = live[k].no
      BY <2>1, <2>6 DEF RowsTellLive
    <3>2. CASE cursor = Len(stored)
      BY <3>1, <3>2, <2>1, <2>2
    <3>3. ASSUME NEW j \in DOMAIN replay, live[k].no < replay[j].no
          PROVE  \E h \in DOMAIN replay : replay[h].no = live[k].no
      <4>1. j \in DOMAIN stored /\ stored[i].no < stored[j].no
        BY <3>1, <3>3, <2>3
      <4>2. stored[i].no \in Int /\ stored[j].no \in Int
        BY <3>1, <4>1, <2>1, FrameIn
      <4>3. i < j
        BY <4>1, <4>2, <3>1, <2>1 DEF Ascending
      <4> QED
        BY <4>3, <3>1, <2>1, <2>2
    <3> QED
      BY <3>2, <3>3, <2>6
  <2> QED
    BY <2>1, <2>4, <2>5, <2>6 DEF ReplayAgrees
<1> QED
  BY <1>1, InitConverts, ConversionStep, PTL DEF ConversionSpec
=============================================================================
