---------------------------- MODULE BackgroundRun ----------------------------
(***************************************************************************)
(* A run and its broker together, when the broker's queue may be full: the *)
(* run's task (execute_run_async) and the requests that cancel it all call *)
(* put(), and whoever finds the queue full waits until a client reads.     *)
(*                                                                         *)
(* RunBroker supplies the broker; its putters are here the task and the    *)
(* requests.  The database writes are shown by `over` only: a row in a     *)
(* terminal status makes stream_run refuse new streams.  RunLifecycle and  *)
(* EventStream have the writes and the flush in full; they take put() as   *)
(* never blocking.                                                         *)
(***************************************************************************)
EXTENDS RunBroker

CONSTANTS
  RunTask,   \* the putter that is the run's task; the others are requests
  MaxData    \* bound of the model: events the graph puts

ASSUME TaskAssumption == RunTask \in Putters
ASSUME BoundAssumption ==
  MaxData \in Nat /\ MaxData + Cardinality(Putters) <= MaxEvents

Requests == Putters \ {RunTask}

VARIABLES
  job,     \* where execute_run_async stands
  cancel,  \* a CancelledError waits to be delivered to the task
  over,    \* the run's row shows completed, failed or cancelled
  call,    \* call[q]: where the request stands
  admitted \* clients that stream_run let in and that do not read yet

runVars == <<job, cancel, over, call, admitted>>
allVars == <<vars, runVars>>

RunTypeOK ==
  /\ TypeOK
  /\ job \in {"graph", "except", "signal", "final", "done"}
  /\ cancel \in BOOLEAN
  /\ over \in BOOLEAN
  /\ call \in [Requests -> {"idle", "put", "write", "join", "await"}]
  /\ admitted \subseteq Consumers

RunInit ==
  /\ Init
  /\ job = "graph"
  /\ cancel = FALSE
  /\ over = FALSE
  /\ call = [q \in Requests |-> "idle"]
  /\ admitted = {}

-----------------------------------------------------------------------------
(* put() as its callers see it.                                            *)

StartPut(p, k) == PutNow(p, k) \/ PutDropping(p, k) \/ PutBlocks(p, k)

\* A put of an end, ignored by a broker that is finished.
PutEnd(p) == IF finished THEN UNCHANGED vars ELSE StartPut(p, "end")

\* A cancelled caller leaves the put() it may be in.
LeavePut(p) == IF putter[p] = "idle" THEN UNCHANGED vars ELSE PutCancelled(p)

PutReturned(p) == putter'[p] = "idle"

-----------------------------------------------------------------------------
(* The run's task.                                                         *)

Emit ==
  /\ job = "graph" /\ ~cancel
  /\ putter[RunTask] = "idle"
  /\ Len(log) < MaxData
  /\ StartPut(RunTask, "data")
  /\ UNCHANGED runVars

\* A completed run writes its status and puts no end; an interrupted run's
\* row does not close it to new streams.
GraphEnds ==
  /\ job = "graph" /\ ~cancel
  /\ putter[RunTask] = "idle"
  /\ job' = "final"
  /\ over' \in BOOLEAN
  /\ UNCHANGED <<vars, cancel, call, admitted>>

GraphFails ==
  /\ job = "graph" /\ ~cancel
  /\ putter[RunTask] = "idle"
  /\ job' = "except"
  /\ over' = TRUE
  /\ UNCHANGED <<vars, cancel, call, admitted>>

\* except CancelledError: the status is written before the end is put.
TaskCancelled ==
  /\ job = "graph" /\ cancel
  /\ LeavePut(RunTask)
  /\ job' = "except"
  /\ cancel' = FALSE
  /\ over' = TRUE
  /\ UNCHANGED <<call, admitted>>

\* signal_run_cancelled and signal_run_error.
TaskSignals ==
  /\ job = "except" /\ ~cancel
  /\ PutEnd(RunTask)
  /\ job' = IF PutReturned(RunTask) THEN "final" ELSE "signal"
  /\ UNCHANGED <<cancel, over, call, admitted>>

TaskContinues ==
  /\ ~cancel
  /\ PutContinues(RunTask)
  /\ job' = IF job = "signal" /\ PutReturned(RunTask) THEN "final" ELSE job
  /\ UNCHANGED <<cancel, over, call, admitted>>

\* Another cancellation leaves the except block for the finally block.
HandlerCancelled ==
  /\ job \in {"except", "signal"} /\ cancel
  /\ LeavePut(RunTask)
  /\ job' = "final"
  /\ cancel' = FALSE
  /\ UNCHANGED <<over, call, admitted>>

\* finally: cleanup_run.
Finish ==
  /\ job = "final"
  /\ IF finished THEN UNCHANGED vars ELSE MarkFinished
  /\ job' = "done"
  /\ cancel' = FALSE
  /\ UNCHANGED <<over, call, admitted>>

-----------------------------------------------------------------------------
(* Requests.                                                               *)

\* cancel_run and interrupt_run: cancel the task, then signal the end.
CancelRun(q) ==
  /\ call[q] = "idle"
  /\ cancel' = (cancel \/ job # "done")
  /\ PutEnd(q)
  /\ call' = [call EXCEPT ![q] = IF PutReturned(q) THEN "write" ELSE "put"]
  /\ UNCHANGED <<job, over, admitted>>

RequestContinues(q) ==
  /\ PutContinues(q)
  /\ call' = [call EXCEPT ![q] = IF PutReturned(q) THEN "write" ELSE "put"]
  /\ UNCHANGED <<job, cancel, over, admitted>>

\* The row becomes cancelled or interrupted; the caller may ask to wait.
WriteStatus(q) ==
  /\ call[q] = "write"
  /\ over' \in BOOLEAN
  /\ \E pc \in {"idle", "await"} : call' = [call EXCEPT ![q] = pc]
  /\ UNCHANGED <<vars, job, cancel, admitted>>

Join(q) ==
  /\ call[q] = "idle"
  /\ job # "done"
  /\ call' = [call EXCEPT ![q] = "join"]
  /\ UNCHANGED <<vars, job, cancel, over, admitted>>

\* Mutant: the task is awaited, but not cancelled.
JoinTimeout_WaitsOn(q) ==
  /\ call[q] = "join"
  /\ job # "done"
  /\ call' = [call EXCEPT ![q] = "await"]
  /\ UNCHANGED <<vars, job, cancel, over, admitted>>

\* wait_for: the time is over, the task is cancelled and awaited.
JoinTimeout(q) ==
  /\ call[q] = "join"
  /\ job # "done"
  /\ cancel' = TRUE
  /\ call' = [call EXCEPT ![q] = "await"]
  /\ UNCHANGED <<vars, job, over, admitted>>

Return(q) ==
  /\ call[q] \in {"join", "await"}
  /\ job = "done"
  /\ call' = [call EXCEPT ![q] = "idle"]
  /\ UNCHANGED <<vars, job, cancel, over, admitted>>

-----------------------------------------------------------------------------
(* Clients.                                                                *)

\* stream_run looks at the row; the replay comes before the live part.
Admit(c) ==
  /\ ~over
  /\ admitted' = admitted \union {c}
  /\ UNCHANGED <<vars, job, cancel, over, call>>

Connect(c) ==
  /\ c \in admitted
  /\ Attach(c)
  /\ admitted' = admitted \ {c}
  /\ UNCHANGED <<job, cancel, over, call>>

Read(c) == Iterate(c) /\ UNCHANGED runVars

\* With on_disconnect = "cancel" the task is cancelled, and only the task.
Leave(c) ==
  /\ Disconnect(c)
  /\ cancel' \in {cancel, job # "done"}
  /\ UNCHANGED <<job, over, call, admitted>>

-----------------------------------------------------------------------------
Task ==
  \/ TaskCancelled \/ TaskSignals \/ TaskContinues
  \/ HandlerCancelled \/ Finish

Proceed(q) ==
  RequestContinues(q) \/ WriteStatus(q) \/ JoinTimeout(q) \/ Return(q)

RunNext ==
  \/ Emit \/ GraphEnds \/ GraphFails
  \/ Task
  \/ \E q \in Requests : CancelRun(q) \/ Join(q) \/ Proceed(q)
  \/ \E c \in Consumers : Admit(c) \/ Connect(c) \/ Read(c) \/ Leave(c)

RunSpec == RunInit /\ [][RunNext]_allVars

\* The event loop runs the task, the requests and the streams when they are
\* ready, and time passes for a join.  The graph may run for ever.
RunFairSpec ==
  /\ RunSpec
  /\ WF_allVars(Task)
  /\ \A q \in Requests : WF_allVars(Proceed(q))
  /\ \A c \in Consumers : WF_allVars(Read(c))

-----------------------------------------------------------------------------
(* Safety.                                                                 *)

\* Under drop_oldest nobody ever waits: the queue cannot be full of ends,
\* because the first one finishes the broker.
DroppingNeverWaits == policy = "drop_oldest" => InFlight = {}

-----------------------------------------------------------------------------
(* Liveness, under RunFairSpec.                                            *)

Unwatched == policy = "block" /\ \A c \in Consumers : ~reading[c]

\* So does every request that cancels or joins the run.
RequestsReturnIfRead ==
  \A q \in Requests : []<>(call[q] = "idle" \/ Unwatched)

-----------------------------------------------------------------------------
(* What the documentation says.                                            *)

\* stream_run: when a client disconnects the run goes on; so its task is
\* never left for ever in a put() that waits for clients.
GoesOnUnwatched == []<>(putter[RunTask] = "idle")
=============================================================================
