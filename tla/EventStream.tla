----------------------------- MODULE EventStream -----------------------------
(***************************************************************************)
(* The life of one run's events, from the graph to the SSE clients:        *)
(* execute_run_async (api/runs.py) numbers each event and hands it to      *)
(* StreamingService, which puts it on the run's broker and batches it for  *)
(* EventStore; a client that connects is first sent the stored events      *)
(* after its Last-Event-ID, then what it takes off the broker.             *)
(*                                                                         *)
(* The broker here is a queue that never fills and has no waiting putters  *)
(* (RunBroker models those).  A step is what one coroutine does between    *)
(* two awaits; the insert of a batch, the writes of the run's status and   *)
(* the sending of a frame are awaits, and a cancellation may hit each.     *)
(***************************************************************************)
EXTENDS Integers, Sequences, FiniteSets, SequencesExt

CONSTANTS
  Clients,     \* SSE clients of the run
  BatchSize,   \* EVENT_STORE_BATCH_SIZE
  MaxSeq,      \* bound of the model: events the graph produces
  MaxSignals,  \* bound of the model: ends signalled beyond the last event
  MaxConnects  \* bound of the model: connections opened, over all clients

ASSUME StreamAssumption ==
  /\ BatchSize \in Nat \ {0}
  /\ MaxSeq \in Nat /\ MaxSignals \in Nat \ {0} /\ MaxConnects \in Nat

VARIABLES
  task,      \* where execute_run_async stands
  outcome,   \* how it is going to end
  status,    \* run.status in the database
  cancelReq, \* task.cancel() was called and not delivered yet
  counter,   \* event_counter of the task
  lastNo,    \* StreamingService.event_counters[run_id]
  broker,    \* NoBroker, or the queue and finished flag of the RunBroker
  batch,     \* _storage_batches[run_id]: event numbers
  inflight,  \* batch handed to event_store.store_events, not committed
  rows,      \* run_events of the run: event numbers
  conn,      \* conn[c]: the client's connection
  got,       \* history: got[c], the numbers of the frames c received
  lastId,    \* lastId[c]: number of the last frame c received
  connects,  \* connections opened so far
  hist       \* history: what happened to the events, see HistType

taskVars == <<task, outcome, status, cancelReq, counter>>
storeVars == <<batch, inflight, rows>>
connVars == <<conn, got, lastId, connects>>
vars == <<taskVars, lastNo, broker, storeVars, connVars, hist>>

NoBroker == [queue |-> <<>>, finished |-> FALSE, exists |-> FALSE]
Idle == [pc |-> "off", since |-> 0, todo |-> {}, over |-> FALSE]
Seqs == 0..(MaxSeq + MaxSignals + 1)
Frame == [seq : Seqs, end : BOOLEAN]

HistType == [put : SUBSET Seqs,        \* accepted by the broker
             storable : SUBSET Seqs,   \* of a mode the store keeps
             lost : SUBSET Seqs,       \* lost with an insert that failed
             swept : SUBSET Seqs,      \* deleted by the cleanup loop
             cut : BOOLEAN,            \* some connection broke
             flushBroke : BOOLEAN,     \* the final flush failed
             crashed : BOOLEAN]        \* the process restarted

TypeOK ==
  /\ task \in {"graph", "storing", "ended", "flushing", "done"}
  /\ outcome \in {"none", "completed", "interrupted", "failed", "cancelled"}
  /\ status \in {"running", "completed", "interrupted", "failed", "cancelled"}
  /\ cancelReq \in BOOLEAN
  /\ counter \in 0..MaxSeq /\ lastNo \in Seqs
  /\ broker \in [queue : Seq(Frame), finished : BOOLEAN, exists : BOOLEAN]
  /\ batch \in Seq(Seqs) /\ inflight \in Seq(Seqs) /\ rows \subseteq Seqs
  /\ conn \in [Clients -> [pc : {"off", "replay", "live"}, since : Seqs,
                           todo : SUBSET Seqs, over : BOOLEAN]]
  /\ got \in [Clients -> Seq(Seqs)] /\ lastId \in [Clients -> Seqs]
  /\ connects \in 0..MaxConnects
  /\ hist \in HistType

Init ==
  /\ task = "graph" /\ outcome = "none" /\ status = "running"
  /\ cancelReq = FALSE
  /\ counter = 0 /\ lastNo = 0
  /\ broker = NoBroker
  /\ batch = <<>> /\ inflight = <<>> /\ rows = {}
  /\ conn = [c \in Clients |-> Idle]
  /\ got = [c \in Clients |-> <<>>]
  /\ lastId = [c \in Clients |-> 0]
  /\ connects = 0
  /\ hist = [put |-> {}, storable |-> {}, lost |-> {}, swept |-> {},
             cut |-> FALSE, flushBroke |-> FALSE, crashed |-> FALSE]

-----------------------------------------------------------------------------
(* BrokerManager and RunBroker, as StreamingService uses them.             *)

GetOrCreate(b) == [b EXCEPT !.exists = TRUE]

\* put(): ignored by a finished broker; an end event finishes it.
Offered(b, f) ==
  IF b.finished THEN b
  ELSE [b EXCEPT !.queue = Append(@, f), !.finished = f.end]

\* cleanup_broker(): nothing to mark if the run has no broker.
Cleaned(b) == IF b.exists THEN [b EXCEPT !.finished = TRUE] ELSE b

\* Mutant: the end takes the number of the last event.
SignalEnd_SameNumber ==
  /\ lastNo' = lastNo
  /\ broker' = Cleaned(Offered(GetOrCreate(broker),
                               [seq |-> lastNo, end |-> TRUE]))
  /\ hist' = [hist EXCEPT !.put =
                IF broker.finished THEN @ ELSE @ \union {lastNo}]

\* signal_run_cancelled / signal_run_error: number an end event one above
\* the last event of the run, put it, and mark the broker finished.
SignalEnd ==
  /\ lastNo' = lastNo + 1
  /\ broker' = Cleaned(Offered(GetOrCreate(broker),
                               [seq |-> lastNo + 1, end |-> TRUE]))
  /\ hist' = [hist EXCEPT !.put =
                IF broker.finished THEN @ ELSE @ \union {lastNo + 1}]

-----------------------------------------------------------------------------
(* The run's task.                                                         *)

\* One event of graph.astream.  "stored": values, messages and the updates
\* that are kept; "live": a mode the store ignores; "hidden": an update the
\* client did not ask for, which only advances the numbering.
Emit(mode) ==
  /\ task = "graph" /\ ~cancelReq
  /\ counter < MaxSeq
  /\ counter' = counter + 1
  /\ lastNo' = IF counter + 1 > lastNo THEN counter + 1 ELSE lastNo
  /\ LET n == counter + 1
         b == GetOrCreate(broker)
         full == Len(batch) + 1 >= BatchSize
         stored == mode = "stored" IN
       /\ broker' = IF mode = "hidden" THEN b
                    ELSE Offered(b, [seq |-> n, end |-> FALSE])
       /\ hist' = [hist EXCEPT
            !.put = IF mode = "hidden" \/ b.finished THEN @ ELSE @ \union {n},
            !.storable = IF stored THEN @ \union {n} ELSE @]
       /\ batch' = IF ~stored THEN batch
                   ELSE IF full THEN <<>> ELSE Append(batch, n)
       /\ inflight' = IF stored /\ full THEN Append(batch, n) ELSE inflight
       /\ task' = IF stored /\ full THEN "storing" ELSE task
  /\ UNCHANGED <<outcome, status, cancelReq, rows, connVars>>

StoreCommits ==
  /\ task = "storing" /\ ~cancelReq
  /\ rows' = rows \union ToSet(inflight)
  /\ inflight' = <<>>
  /\ task' = "graph"
  /\ UNCHANGED <<outcome, status, cancelReq, counter, lastNo, broker, batch,
                 connVars, hist>>

\* The insert in flight fails or is cancelled; the commit may have won.
InsertBroken(h) ==
  /\ inflight' = <<>>
  /\ \/ rows' = rows \union ToSet(inflight) /\ hist' = h
     \/ /\ rows' = rows
        /\ hist' = [h EXCEPT !.lost = @ \union ToSet(inflight)]

\* The graph ends, or it or the insert of a batch raises: the run's status
\* is committed, and the rest of the branch still has writes to await.
TaskEnds(how) ==
  /\ \/ task = "graph"
     \/ task = "storing" /\ how = "failed"
  /\ ~cancelReq
  /\ task' = "ended" /\ outcome' = how /\ status' = how
  /\ InsertBroken(hist)
  /\ UNCHANGED <<cancelReq, counter, lastNo, broker, batch, connVars>>

\* CancelledError is delivered at an await inside the try body, which still
\* covers the writes after the status of a run that ended by itself.
TaskCancelled ==
  /\ cancelReq
  /\ \/ task \in {"graph", "storing"}
     \/ task = "ended" /\ outcome \in {"completed", "interrupted"}
  /\ cancelReq' = FALSE
  /\ task' = "ended" /\ outcome' = "cancelled" /\ status' = "cancelled"
  /\ InsertBroken(hist)
  /\ UNCHANGED <<counter, lastNo, broker, batch, connVars>>

\* Mutant: an unfinished batch is thrown away.
StartFlush_DropsBatch ==
  /\ task' = "flushing"
  /\ batch' = <<>>
  /\ UNCHANGED <<outcome, status, counter, inflight, rows, connVars>>

\* finally: cleanup_run starts the forced flush of what is batched.
StartFlush ==
  /\ task' = "flushing"
  /\ inflight' = batch
  /\ batch' = <<>>
  /\ UNCHANGED <<outcome, status, counter, rows, connVars>>

\* The last writes of the branch are done; a failed or a cancelled run
\* signals its end first.
Finally ==
  /\ task = "ended" /\ ~cancelReq
  /\ IF outcome \in {"failed", "cancelled"} THEN SignalEnd
     ELSE UNCHANGED <<lastNo, broker, hist>>
  /\ StartFlush
  /\ UNCHANGED cancelReq

\* A cancellation that hits an except branch skips its signal.
HandlerCancelled ==
  /\ task = "ended" /\ cancelReq
  /\ outcome \in {"failed", "cancelled"}
  /\ cancelReq' = FALSE
  /\ StartFlush
  /\ UNCHANGED <<lastNo, broker, hist>>

FlushDone ==
  /\ task = "flushing"
  /\ inflight = <<>> \/ ~cancelReq
  /\ rows' = rows \union ToSet(inflight)
  /\ inflight' = <<>>
  /\ broker' = Cleaned(broker)
  /\ task' = "done" /\ cancelReq' = FALSE
  /\ UNCHANGED <<outcome, status, counter, lastNo, batch, connVars, hist>>

\* The insert fails, or is cancelled: cleanup_broker is not reached.
FlushBreaks ==
  /\ task = "flushing" /\ inflight # <<>>
  /\ InsertBroken([hist EXCEPT !.flushBroke = TRUE])
  /\ task' = "done" /\ cancelReq' = FALSE
  /\ UNCHANGED <<outcome, status, counter, lastNo, broker, batch, connVars>>

-----------------------------------------------------------------------------
(* Requests that stop the run.                                             *)

\* cancel_run / interrupt_run of StreamingService, whatever the run's status:
\* cancel the task, signal the end, then write the status.  (RunLifecycle
\* separates the last write; here the status only tells who may connect.)
CancelRun(how) ==
  /\ lastNo < counter + MaxSignals
  /\ cancelReq' = (task # "done")
  /\ SignalEnd
  /\ status' = how
  /\ UNCHANGED <<task, outcome, counter, storeVars, connVars>>

\* A stream with cancel_on_disconnect broke: only the task is cancelled.
CancelTask ==
  /\ task # "done" /\ ~cancelReq
  /\ cancelReq' = TRUE
  /\ UNCHANGED <<task, outcome, status, counter, lastNo, broker, storeVars,
                 connVars, hist>>

-----------------------------------------------------------------------------
(* Clients.                                                                *)

\* stream_run answers a run in a terminal status with a single end frame
\* and opens no stream.  Otherwise the stored rows after the client's
\* Last-Event-ID are read; `since` is where the live part will start.
Connect(c) ==
  /\ conn[c].pc = "off"
  /\ connects < MaxConnects
  /\ status \in {"running", "interrupted"}
  /\ conn' = [conn EXCEPT ![c] =
       [pc |-> "replay", since |-> lastId[c],
        todo |-> {n \in rows : n > lastId[c]},
        over |-> status = "interrupted"]]
  /\ connects' = connects + 1
  /\ UNCHANGED <<taskVars, lastNo, broker, storeVars, got, lastId, hist>>

Received(c, n) ==
  /\ got' = [got EXCEPT ![c] = Append(@, n)]
  /\ lastId' = [lastId EXCEPT ![c] = n]

\* The rows come in the order of their numbers.
ReplayOne(c) ==
  /\ conn[c].pc = "replay"
  /\ \E n \in conn[c].todo :
       /\ \A m \in conn[c].todo : n <= m
       /\ Received(c, n)
       /\ conn' = [conn EXCEPT ![c].todo = @ \ {n}]
  /\ UNCHANGED <<taskVars, lastNo, broker, storeVars, connects, hist>>

\* _stream_live_events: creates the broker if the run has none.
GoLive(c) ==
  /\ conn[c].pc = "replay" /\ conn[c].todo = {}
  /\ broker' = GetOrCreate(broker)
  /\ conn' = [conn EXCEPT ![c] =
       IF conn[c].over /\ broker.finished THEN Idle
       ELSE [conn[c] EXCEPT !.pc = "live"]]
  /\ UNCHANGED <<taskVars, lastNo, storeVars, got, lastId, connects, hist>>

\* Mutant: the filter skips one number too many.
Live_OffByOne(c) ==
  /\ conn[c].pc = "live" /\ broker.queue # <<>>
  /\ LET f == Head(broker.queue)
         sent == [conn[c] EXCEPT
           !.since = IF f.seq > @ THEN f.seq ELSE @] IN
       /\ broker' = [broker EXCEPT !.queue = Tail(@)]
       /\ IF f.seq > conn[c].since + 1 THEN Received(c, f.seq)
          ELSE UNCHANGED <<got, lastId>>
       /\ conn' = [conn EXCEPT ![c] = IF f.end THEN Idle ELSE sent]
  /\ UNCHANGED <<taskVars, lastNo, storeVars, connects, hist>>

\* One turn of aiter() and of the loop around it: skip what is not above
\* `since`, send the rest, stop at an end event.
Live(c) ==
  /\ conn[c].pc = "live" /\ broker.queue # <<>>
  /\ LET f == Head(broker.queue)
         sent == [conn[c] EXCEPT
           !.since = IF f.seq > @ THEN f.seq ELSE @] IN
       /\ broker' = [broker EXCEPT !.queue = Tail(@)]
       /\ IF f.seq > conn[c].since THEN Received(c, f.seq)
          ELSE UNCHANGED <<got, lastId>>
       /\ conn' = [conn EXCEPT ![c] = IF f.end THEN Idle ELSE sent]
  /\ UNCHANGED <<taskVars, lastNo, storeVars, connects, hist>>

\* Mutant: only a stream of a run that was over already stops polling.
TimeoutBreak_OnlyIfOver(c) ==
  /\ conn[c].pc = "live" /\ conn[c].over
  /\ broker.queue = <<>> /\ broker.finished
  /\ conn' = [conn EXCEPT ![c] = Idle]
  /\ UNCHANGED <<taskVars, lastNo, broker, storeVars, got, lastId, connects,
                 hist>>

TimeoutBreak(c) ==
  /\ conn[c].pc = "live"
  /\ broker.queue = <<>> /\ broker.finished
  /\ conn' = [conn EXCEPT ![c] = Idle]
  /\ UNCHANGED <<taskVars, lastNo, broker, storeVars, got, lastId, connects,
                 hist>>

\* The connection breaks.  What the stream had taken off the broker and not
\* sent yet is gone.
Disconnect(c) ==
  /\ conn[c].pc # "off"
  /\ \/ UNCHANGED broker
     \/ /\ conn[c].pc = "live" /\ broker.queue # <<>>
        /\ broker' = [broker EXCEPT !.queue = Tail(@)]
  /\ conn' = [conn EXCEPT ![c] = Idle]
  /\ hist' = [hist EXCEPT !.cut = TRUE]
  /\ UNCHANGED <<taskVars, lastNo, storeVars, got, lastId, connects>>

-----------------------------------------------------------------------------
(* Housekeeping and restart.                                               *)

\* _cleanup_old_runs: rows older than an hour go, oldest first.
Sweep ==
  /\ \E n \in rows :
       /\ rows' = {m \in rows : m > n}
       /\ hist' = [hist EXCEPT !.swept = @ \union {m \in rows : m <= n}]
  /\ UNCHANGED <<taskVars, lastNo, broker, batch, inflight, connVars>>

\* The process dies and comes back: everything in memory is gone, and the
\* lifespan of main.py does not look at the runs it finds in the database.
Restart ==
  /\ ~hist.crashed
  /\ task' = "done" /\ cancelReq' = FALSE
  /\ lastNo' = 0
  /\ broker' = NoBroker
  /\ batch' = <<>> /\ inflight' = <<>>
  /\ conn' = [c \in Clients |-> Idle]
  /\ hist' = [hist EXCEPT !.crashed = TRUE, !.cut = TRUE]
  /\ UNCHANGED <<outcome, status, counter, rows, got, lastId, connects>>

-----------------------------------------------------------------------------
Ends == {"completed", "interrupted", "failed"}

Task ==
  \/ \E mode \in {"stored", "live", "hidden"} : Emit(mode)
  \/ StoreCommits
  \/ \E how \in Ends : TaskEnds(how)
  \/ TaskCancelled \/ Finally \/ HandlerCancelled
  \/ FlushDone \/ FlushBreaks

Stream(c) == ReplayOne(c) \/ GoLive(c) \/ Live(c) \/ TimeoutBreak(c)

Next ==
  \/ Task
  \/ \E how \in {"cancelled", "interrupted"} : CancelRun(how)
  \/ CancelTask
  \/ \E c \in Clients : Connect(c) \/ Stream(c) \/ Disconnect(c)
  \/ Sweep
  \/ Restart

Spec == Init /\ [][Next]_vars

\* The event loop runs the streams and the task once it has left the graph;
\* nothing promises that the graph itself ever ends.
StreamFairness ==
  /\ WF_vars(StoreCommits \/ TaskCancelled \/ Finally \/ HandlerCancelled
             \/ FlushDone)
  /\ \A c \in Clients : WF_vars(Stream(c))

FairSpec == Spec /\ StreamFairness

-----------------------------------------------------------------------------
(* Safety.                                                                 *)

\* What waits on the broker is in the order of the events' numbers, an end
\* event is numbered above every event before it, and nothing follows it:
\* otherwise the stream's filter would silently skip live events.
LiveInOrder ==
  LET q == broker.queue IN
    \A i \in 1..Len(q) :
      /\ \A j \in 1..(i - 1) : q[j].seq < q[i].seq
      /\ q[i].end => i = Len(q) /\ broker.finished

\* A run's task that is over has stored every event of a stored mode, except
\* what a failed or cancelled insert took with it; and a run that ends
\* completed or interrupted loses nothing before its final flush.
StoredOrExcused ==
  /\ task = "done" /\ ~hist.crashed =>
       hist.storable \subseteq rows \union hist.swept \union hist.lost
  /\ outcome \in {"none", "completed", "interrupted"} =>
       hist.lost = {} \/ hist.flushBroke

\* Several clients share the broker's queue, and replay and live overlap,
\* but as long as no connection breaks every event put is sent to somebody.
NothingSkipped ==
  ~hist.cut /\ broker.queue = <<>> =>
    hist.put \subseteq UNION {ToSet(got[c]) : c \in Clients}

\* A run whose task is over has left an unfinished broker, on which a stream
\* polls for ever.
Orphaned == task = "done" /\ broker.exists /\ ~broker.finished

-----------------------------------------------------------------------------
(* Liveness, under FairSpec: once the task is over every stream is closed, *)
(* unless the broker was orphaned.                                         *)
StreamsReleased ==
  \A c \in Clients :
    conn[c].pc # "off" /\ task = "done" ~> conn[c].pc = "off" \/ Orphaned

-----------------------------------------------------------------------------
(* What the documentation says.                                            *)

\* _stream_live_events: events sent by the replay are not sent again.
NoDuplicate == \A c \in Clients : IsInjective(got[c])

\* execute_run_async: the finally block guarantees the broker's cleanup.
FinallyCleansBroker ==
  task = "done" /\ ~hist.crashed /\ counter > 0 => ~Orphaned
=============================================================================
