---------------------------- MODULE RunLifecycle ----------------------------
(***************************************************************************)
(* The runs of one thread: the request handlers of api/runs.py,            *)
(* api/runs_standalone.py and api/threads.py that create, cancel, join and *)
(* delete runs, the background task execute_run_async of each run, and the *)
(* rows they all write without reading them again.                         *)
(*                                                                         *)
(* Handlers and tasks share one event loop and one database: a step is     *)
(* what one of them does between two awaits, and each database write that  *)
(* the code commits is a step of its own.  A cancelled task receives its   *)
(* CancelledError at the await it is in.  The graph and its checkpoints    *)
(* are LangGraph's, modelled by how a run ends and by whether the thread's *)
(* checkpoint waits for a human (`pending`).  The end that is signalled to *)
(* the broker is in EventStream.                                           *)
(***************************************************************************)
EXTENDS Naturals, FiniteSets

CONSTANTS
  Runs,      \* run ids the clients will use
  Requests,  \* requests that can be in progress at once
  NoRun,
  Faults,    \* the faults of the environment an instance looks at
  MaxAsked   \* bound of the model: cancel, delete and join requests and
             \* broken streams

ASSUME NoRunAssumption == NoRun \notin Runs
ASSUME FaultsAssumption == Faults \subseteq {"write", "flush", "crash"}
ASSUME MaxAskedAssumption == MaxAsked \in Nat

VARIABLES
  thread,   \* threads.status, or "absent" once the thread is deleted
  pending,  \* the thread's checkpoint holds an interrupt (LangGraph)
  row,      \* row[r]: runs.status, or "none"
  task,     \* task[r]: where execute_run_async stands
  outcome,  \* outcome[r]: how the task is going to end
  cancel,   \* cancel[r]: a CancelledError waits to be delivered
  resume,   \* resume[r]: the run carries command.resume
  active,   \* active_runs: the runs whose task can be found
  used,     \* run ids already taken
  req,      \* req[q]: the request in progress
  asked,    \* what counts against MaxAsked so far
  odd       \* history: what happened out of the ordinary, see Oddities

taskVars == <<task, outcome, cancel, active>>
runVars == <<resume, used, asked>>
vars == <<thread, pending, row, taskVars, runVars, req, odd>>

Running == {"pending", "running", "streaming"}
Over == {"completed", "failed", "cancelled"}
Statuses == Running \union Over \union {"interrupted"}
InTry == {"init", "graph", "check", "status", "thread"}
Alive == {"starting", "final"} \union InTry

Oddities == {
  "race",      \* a run was created while another one was running, or on a
               \* thread whose status had changed or was not checked
  "lost",      \* a run was cancelled before it had a task
  "unstarted", \* a task was cancelled before its first step
  "cutshort",  \* an except block was cancelled, or one of its writes raised
  "stuck",     \* the final flush broke
  "crash" }    \* the process restarted

NoRequest == [op |-> "none", pc |-> "idle", run |-> NoRun,
              how |-> "cancelled", todo |-> {}]

TypeOK ==
  /\ thread \in {"idle", "busy", "interrupted", "absent"}
  /\ pending \in BOOLEAN
  /\ row \in [Runs -> Statuses \union {"none"}]
  /\ task \in [Runs -> Alive \union {"none", "done"}]
  /\ outcome \in [Runs -> Over \union {"interrupted", "none"}]
  /\ cancel \in [Runs -> BOOLEAN]
  /\ resume \in [Runs -> BOOLEAN]
  /\ active \subseteq Runs /\ used \subseteq Runs
  /\ asked \in 0..MaxAsked
  /\ req \in [Requests ->
       [op : {"none", "create", "batch", "cancel", "delete", "drop", "join"},
        pc : {"idle", "insert", "busy", "meta", "spawn", "signal", "write",
              "rewrite", "await", "unwind", "pop", "remove"},
        run : Runs \union {NoRun},
        how : {"cancelled", "interrupted"},
        todo : SUBSET Runs]]
  /\ odd \subseteq Oddities

Init ==
  /\ thread = "idle" /\ pending = FALSE
  /\ row = [r \in Runs |-> "none"]
  /\ task = [r \in Runs |-> "none"]
  /\ outcome = [r \in Runs |-> "none"]
  /\ cancel = [r \in Runs |-> FALSE]
  /\ resume = [r \in Runs |-> FALSE]
  /\ active = {} /\ used = {}
  /\ req = [q \in Requests |-> NoRequest] /\ asked = 0
  /\ odd = {}

-----------------------------------------------------------------------------
(* Helpers.                                                                *)

\* UPDATE ... WHERE run_id / thread_id: a row that is gone is not written.
RowSet(r, s) == row' = IF row[r] = "none" THEN row ELSE [row EXCEPT ![r] = s]
ThreadSet(s) == thread' = IF thread = "absent" THEN thread ELSE s

AliveTasks == {r \in Runs : task[r] \in Alive}

\* task.cancel() on a task found in active_runs, unless it is done.
Cancelled(S) == [r \in Runs |->
                   cancel[r] \/ (r \in S \intersect active \intersect AliveTasks)]

Goto(q, pc) == req' = [req EXCEPT ![q].pc = pc]
Return(q) == req' = [req EXCEPT ![q] = NoRequest]
At(q, op, pc) == req[q].op = op /\ req[q].pc = pc
Call(q, op, pc, r, how, todo) ==
  /\ req[q].op = "none"
  /\ req' = [req EXCEPT ![q] =
       [op |-> op, pc |-> pc, run |-> r, how |-> how, todo |-> todo]]

\* What clients do besides creating runs; the model bounds it.
Ask ==
  /\ asked < MaxAsked
  /\ asked' = asked + 1
  /\ UNCHANGED <<resume, used>>

Note(S) == odd' = odd \union S
NoteIf(b, s) == odd' = IF b THEN odd \union {s} ELSE odd

-----------------------------------------------------------------------------
(* create_run, create_and_stream_run, and the standalone routes, which add *)
(* a thread of their own and call these.  Only the first step reads the    *)
(* thread; what it saw may have changed by the time the others write.      *)

Create(q, r) ==
  /\ r \notin used
  /\ thread # "absent"
  /\ resume' = [resume EXCEPT ![r] = (thread = "interrupted")]
  /\ used' = used \union {r}
  /\ Call(q, "create", "busy", r, "cancelled", {})
  /\ UNCHANGED <<thread, pending, row, taskVars, asked, odd>>

\* create_batch_runs commits the row first and never looks at the status.
CreateBatch(q, r) ==
  /\ r \notin used
  /\ thread # "absent"
  /\ used' = used \union {r}
  /\ Call(q, "batch", "insert", r, "cancelled", {})
  /\ UNCHANGED <<thread, pending, row, taskVars, resume, asked, odd>>

SetBusy(q) ==
  /\ At(q, "create", "busy") \/ At(q, "batch", "busy")
  /\ ThreadSet("busy")
  /\ NoteIf(AliveTasks # {} \/ (thread = "interrupted") # resume[req[q].run],
            "race")
  /\ Goto(q, "meta")
  /\ UNCHANGED <<pending, row, taskVars, runVars>>

\* update_thread_metadata raises 404 if the thread is gone.
SetMetadata(q) ==
  /\ \/ At(q, "create", "meta") /\ thread # "absent" /\ Goto(q, "insert")
     \/ At(q, "batch", "meta") /\ thread # "absent" /\ Goto(q, "spawn")
     \/ req[q].pc = "meta" /\ thread = "absent" /\ Return(q)
  /\ UNCHANGED <<thread, pending, row, taskVars, runVars, odd>>

\* The foreign key refuses a run of a thread that is gone.
InsertRow(q) ==
  /\ req[q].pc = "insert"
  /\ IF thread = "absent" THEN Return(q) /\ UNCHANGED row
     ELSE /\ row' = [row EXCEPT ![req[q].run] = "pending"]
          /\ Goto(q, IF req[q].op = "batch" THEN "busy" ELSE "spawn")
  /\ UNCHANGED <<thread, pending, taskVars, runVars, odd>>

Spawn(q) ==
  /\ req[q].pc = "spawn"
  /\ task' = [task EXCEPT ![req[q].run] = "starting"]
  /\ active' = active \union {req[q].run}
  /\ NoteIf(AliveTasks # {} \/ thread \in {"idle", "interrupted"}, "race")
  /\ Return(q)
  /\ UNCHANGED <<thread, pending, row, outcome, cancel, runVars>>

-----------------------------------------------------------------------------
(* cancel_run_endpoint, update_run (PATCH) and their standalone twins:     *)
(* StreamingService cancels the task and writes the status, the endpoint   *)
(* writes it again, and may wait for the task.  Any run can be cancelled.  *)

CancelRequest(q, r) ==
  /\ row[r] # "none"
  /\ \E how \in {"cancelled", "interrupted"} :
       Call(q, "cancel", "signal", r, how, {})
  /\ Ask
  /\ UNCHANGED <<thread, pending, row, taskVars, odd>>

\* cancel_run_standalone, for runs of one's own: the same steps.
CancelStandalone(q, r) == CancelRequest(q, r)

\* cancel_run / interrupt_run up to its first await.
SignalCancel(q) ==
  /\ req[q].pc = "signal"
  /\ cancel' = Cancelled({req[q].run})
  /\ NoteIf(task[req[q].run] = "none", "lost")
  /\ Goto(q, "write")
  /\ UNCHANGED <<thread, pending, row, task, outcome, active, runVars>>

\* Mutant: the canceller releases the thread as well.
WriteCancelled_FreesThread(q) ==
  /\ req[q].pc = "write"
  /\ RowSet(req[q].run, req[q].how)
  /\ ThreadSet("idle")
  /\ Goto(q, IF req[q].op = "drop" THEN "pop" ELSE "rewrite")
  /\ UNCHANGED <<pending, taskVars, runVars, odd>>

\* A task that waits for the database gets its CancelledError in the next
\* turn of the loop, and holds the lock of the row it writes until then:
\* the canceller's own write comes after it.
WriteCancelled(q) ==
  /\ req[q].pc \in {"write", "rewrite"}
  /\ ~(cancel[req[q].run] /\ task[req[q].run] \in {"init", "status", "thread"})
  /\ RowSet(req[q].run, req[q].how)
  /\ LET awaited == req[q].run \in active IN
       CASE At(q, "cancel", "write") -> Goto(q, "rewrite")
         [] At(q, "cancel", "rewrite") ->
              Return(q) \/ (awaited /\ Goto(q, "await"))
         [] At(q, "delete", "write") ->
              Goto(q, IF awaited THEN "await" ELSE "remove")
         [] At(q, "drop", "write") -> Goto(q, "pop")
  /\ UNCHANGED <<thread, pending, taskVars, runVars, odd>>

\* await task: returns, or goes on with the deletion, when it is over.
AwaitTask(q) ==
  /\ req[q].pc \in {"await", "unwind"}
  /\ task[req[q].run] \notin Alive
  /\ CASE req[q].op \in {"cancel", "join"} -> Return(q)
       [] req[q].op = "delete" -> Goto(q, "remove")
       [] req[q].op = "drop" -> Goto(q, "pop")
  /\ UNCHANGED <<thread, pending, row, taskVars, runVars, odd>>

-----------------------------------------------------------------------------
(* delete_run and delete_thread.                                           *)

DeleteRun(q, r) ==
  /\ row[r] # "none"
  /\ \/ row[r] \in Running /\ Call(q, "delete", "signal", r, "cancelled", {})
     \/ row[r] \notin Running /\ Call(q, "delete", "remove", r, "cancelled", {})
  /\ Ask
  /\ UNCHANGED <<thread, pending, row, taskVars, odd>>

RemoveRun(q) ==
  /\ At(q, "delete", "remove")
  /\ row' = [row EXCEPT ![req[q].run] = "none"]
  /\ Goto(q, "pop")
  /\ UNCHANGED <<thread, pending, taskVars, runVars, odd>>

\* Mutant: the task is forgotten, but not cancelled.
PopTask_NoCancel(q) ==
  /\ At(q, "delete", "pop")
  /\ active' = active \ {req[q].run}
  /\ Return(q)
  /\ UNCHANGED <<thread, pending, row, task, outcome, cancel, runVars, odd>>

\* active_runs.pop(run_id), and cancel what was there.
PopTask(q) ==
  /\ At(q, "delete", "pop")
  /\ cancel' = Cancelled({req[q].run})
  /\ active' = active \ {req[q].run}
  /\ Return(q)
  /\ UNCHANGED <<thread, pending, row, task, outcome, runVars, odd>>

\* The active runs are read once, then cancelled one after the other.
DeleteThread(q) ==
  /\ thread # "absent"
  /\ LET todo == {r \in Runs : row[r] \in Running} IN
       \/ todo = {} /\ Call(q, "drop", "remove", NoRun, "cancelled", {})
       \/ \E r \in todo :
            Call(q, "drop", "signal", r, "cancelled", todo \ {r})
  /\ Ask
  /\ UNCHANGED <<thread, pending, row, taskVars, odd>>

\* After cancel_run: pop the task, cancel it once more and await it.
DropTask(q) ==
  /\ At(q, "drop", "pop")
  /\ LET r == req[q].run IN
       /\ cancel' = Cancelled({r})
       /\ active' = active \ {r}
       /\ IF r \in active /\ task[r] \in Alive THEN Goto(q, "await")
          ELSE IF req[q].todo = {} THEN Goto(q, "remove")
          ELSE \E s \in req[q].todo :
                 req' = [req EXCEPT ![q].run = s, ![q].pc = "signal",
                                    ![q].todo = @ \ {s}]
  /\ UNCHANGED <<thread, pending, row, task, outcome, runVars, odd>>

\* The rows of its runs go with the thread (ON DELETE CASCADE).
RemoveThread(q) ==
  /\ At(q, "drop", "remove")
  /\ thread' = "absent"
  /\ row' = [r \in Runs |-> "none"]
  /\ Return(q)
  /\ UNCHANGED <<pending, taskVars, runVars, odd>>

-----------------------------------------------------------------------------
(* join_run, GET /runs/{id}/wait and POST /runs/wait: wait_for(task).      *)

Join(q, r) ==
  /\ row[r] \notin Over \union {"none"}
  /\ r \in active
  /\ Call(q, "join", "await", r, "cancelled", {})
  /\ Ask
  /\ UNCHANGED <<thread, pending, row, taskVars, odd>>

\* Mutant: the wait has no limit.
JoinTimeout_WaitsOn(q) ==
  /\ At(q, "join", "await")
  /\ task[req[q].run] \in Alive
  /\ Goto(q, "unwind")
  /\ UNCHANGED <<thread, pending, row, taskVars, runVars, odd>>

\* When the time is over wait_for cancels the task, then waits for its end.
JoinTimeout(q) ==
  /\ At(q, "join", "await")
  /\ task[req[q].run] \in Alive
  /\ cancel' = [cancel EXCEPT ![req[q].run] = TRUE]
  /\ Goto(q, "unwind")
  /\ UNCHANGED <<thread, pending, row, task, outcome, active, runVars, odd>>

\* The stream of a run with on_disconnect = "cancel" breaks.
StreamCut(r) ==
  /\ r \in active /\ task[r] \in Alive /\ ~cancel[r]
  /\ Ask
  /\ cancel' = Cancelled({r})
  /\ UNCHANGED <<thread, pending, row, task, outcome, active, req, odd>>

-----------------------------------------------------------------------------
(* execute_run_async.                                                      *)

\* The coroutine is gone, and its locals with it.
TaskOver(r) ==
  /\ task' = [task EXCEPT ![r] = "done"]
  /\ cancel' = [cancel EXCEPT ![r] = FALSE]
  /\ outcome' = [outcome EXCEPT ![r] = "none"]
  /\ resume' = [resume EXCEPT ![r] = FALSE]
  /\ UNCHANGED <<used, asked>>

\* The first step enters the try block and starts writing "running"; the
\* write does not ask what the row says by now.
Start(r) ==
  /\ task[r] = "starting" /\ ~cancel[r]
  /\ task' = [task EXCEPT ![r] = "init"]
  /\ UNCHANGED <<thread, pending, row, outcome, cancel, active, runVars, req, odd>>

WriteRunning(r) ==
  /\ task[r] = "init" /\ ~cancel[r]
  /\ RowSet(r, "running")
  /\ task' = [task EXCEPT ![r] = "graph"]
  /\ UNCHANGED <<thread, pending, outcome, cancel, active, runVars, req, odd>>

\* A task cancelled before its first step never enters its try block.
DieUnstarted(r) ==
  /\ task[r] = "starting" /\ cancel[r]
  /\ TaskOver(r)
  /\ Note({"unstarted"})
  /\ UNCHANGED <<thread, pending, row, active, req>>

\* astream ends.  An interrupt shows as an "__interrupt__" event, but only
\* in a 2-tuple (with stream_subgraphs events are 3-tuples); a run that is
\* not a resume then asks aget_state as well.
GraphEnds(r) ==
  /\ task[r] = "graph" /\ ~cancel[r]
  /\ \E interrupted, subgraphs \in BOOLEAN :
       LET seen == interrupted /\ ~subgraphs IN
         /\ pending' = interrupted
         /\ outcome' = [outcome EXCEPT ![r] =
                          IF seen THEN "interrupted" ELSE "completed"]
         /\ task' = [task EXCEPT ![r] =
                       IF seen \/ resume[r] THEN "status" ELSE "check"]
  /\ UNCHANGED <<thread, row, cancel, active, runVars, req, odd>>

\* aget_state reads the thread's checkpoint, whoever wrote it last; if it
\* raises, the events alone decide.
CheckState(r) ==
  /\ task[r] = "check" /\ ~cancel[r]
  /\ \E answered \in BOOLEAN :
       outcome' = [outcome EXCEPT ![r] =
                     IF answered /\ pending THEN "interrupted" ELSE @]
  /\ task' = [task EXCEPT ![r] = "status"]
  /\ UNCHANGED <<thread, pending, row, cancel, active, runVars, req, odd>>

\* A run that stops in the middle leaves the checkpoint as it is, or past
\* the interrupt it resumed.
Abandon == pending' \in {pending, FALSE}

GraphFails(r) ==
  /\ task[r] = "graph" /\ ~cancel[r]
  /\ Abandon
  /\ outcome' = [outcome EXCEPT ![r] = "failed"]
  /\ task' = [task EXCEPT ![r] = "status"]
  /\ UNCHANGED <<thread, row, cancel, active, runVars, req, odd>>

\* The end of each branch: first the run's row, then the thread's.
WriteStatus(r) ==
  /\ task[r] = "status" /\ ~cancel[r]
  /\ RowSet(r, outcome[r])
  /\ task' = [task EXCEPT ![r] = "thread"]
  /\ UNCHANGED <<thread, pending, outcome, cancel, active, runVars, req, odd>>

\* Mutant: a failed run keeps its thread.
ThreadAfter_FailedKeeps(r) == IF outcome[r] = "failed" THEN thread ELSE "idle"

ThreadAfter(r) == IF outcome[r] = "interrupted" THEN "interrupted" ELSE "idle"

WriteThread(r) ==
  /\ task[r] = "thread" /\ ~cancel[r]
  /\ ThreadSet(ThreadAfter(r))
  /\ task' = [task EXCEPT ![r] = "final"]
  /\ UNCHANGED <<pending, row, outcome, cancel, active, runVars, req, odd>>

Handling(r) == outcome[r] \in {"failed", "cancelled"}

\* CancelledError inside the try block, which the final writes of a run that
\* ended by itself still belong to; the write it hits may be committed.
TaskCancelled(r) ==
  /\ cancel[r] /\ task[r] \in InTry /\ ~Handling(r)
  /\ IF task[r] = "graph" THEN Abandon ELSE UNCHANGED pending
  /\ \/ UNCHANGED row
     \/ task[r] = "init" /\ RowSet(r, "running")
     \/ task[r] = "status" /\ RowSet(r, outcome[r])
  /\ \/ UNCHANGED thread
     \/ task[r] = "thread" /\ ThreadSet(ThreadAfter(r))
  /\ outcome' = [outcome EXCEPT ![r] = "cancelled"]
  /\ task' = [task EXCEPT ![r] = "status"]
  /\ cancel' = [cancel EXCEPT ![r] = FALSE]
  /\ UNCHANGED <<active, runVars, req, odd>>

\* CancelledError inside an except block: the rest of the block is skipped.
HandlerCancelled(r) ==
  /\ cancel[r] /\ task[r] \in {"status", "thread"} /\ Handling(r)
  /\ \/ UNCHANGED <<thread, row>>
     \/ task[r] = "status" /\ RowSet(r, outcome[r]) /\ UNCHANGED thread
     \/ task[r] = "thread" /\ ThreadSet("idle") /\ UNCHANGED row
  /\ task' = [task EXCEPT ![r] = "final"]
  /\ cancel' = [cancel EXCEPT ![r] = FALSE]
  /\ Note({"cutshort"})
  /\ UNCHANGED <<pending, outcome, active, runVars, req>>

\* A write raises: the try block goes on in `except Exception`; an except
\* block is left for the finally block, and its other writes are skipped.
WriteFails(r) ==
  /\ "write" \in Faults
  /\ task[r] \in {"init", "status", "thread"} /\ ~cancel[r]
  /\ outcome' = [outcome EXCEPT ![r] = IF Handling(r) THEN @ ELSE "failed"]
  /\ task' = [task EXCEPT ![r] = IF Handling(r) THEN "final" ELSE "status"]
  /\ NoteIf(Handling(r), "cutshort")
  /\ UNCHANGED <<thread, pending, row, cancel, active, runVars, req>>

\* Mutant: no active_runs.pop.
Finish_NoPop(r) ==
  /\ task[r] = "final"
  /\ TaskOver(r)
  /\ UNCHANGED <<thread, pending, row, active, req, odd>>

\* finally: cleanup_run, then active_runs.pop.
Finish(r) ==
  /\ task[r] = "final"
  /\ active' = active \ {r}
  /\ TaskOver(r)
  /\ UNCHANGED <<thread, pending, row, req, odd>>

\* The last flush is cancelled or fails: nothing is popped.
FinishBroken(r) ==
  /\ task[r] = "final"
  /\ cancel[r] \/ "flush" \in Faults
  /\ TaskOver(r)
  /\ Note({"stuck"})
  /\ UNCHANGED <<thread, pending, row, active, req>>

\* The process dies: tasks, requests and active_runs are gone, and nothing
\* looks at the rows when it starts again.
Restart ==
  /\ "crash" \in Faults \ odd
  /\ task' = [r \in Runs |-> IF task[r] = "none" THEN "none" ELSE "done"]
  /\ cancel' = [r \in Runs |-> FALSE]
  /\ outcome' = [r \in Runs |-> "none"]
  /\ resume' = [r \in Runs |-> FALSE]
  /\ active' = {}
  /\ req' = [q \in Requests |-> NoRequest]
  /\ Note({"crash"})
  /\ UNCHANGED <<thread, pending, row, used, asked>>

-----------------------------------------------------------------------------
NewRequest(q) ==
  \/ \E r \in Runs : \/ Create(q, r) \/ CreateBatch(q, r)
                     \/ CancelRequest(q, r) \/ CancelStandalone(q, r)
                     \/ DeleteRun(q, r) \/ Join(q, r)
  \/ DeleteThread(q)

Handler(q) ==
  \/ SetBusy(q) \/ SetMetadata(q) \/ InsertRow(q) \/ Spawn(q)
  \/ SignalCancel(q) \/ WriteCancelled(q) \/ AwaitTask(q)
  \/ RemoveRun(q) \/ PopTask(q) \/ DropTask(q) \/ RemoveThread(q)
  \/ JoinTimeout(q)

\* What the task does on its own; the graph may run for ever.
Task(r) ==
  \/ Start(r) \/ WriteRunning(r) \/ DieUnstarted(r) \/ CheckState(r)
  \/ WriteStatus(r) \/ WriteThread(r) \/ TaskCancelled(r)
  \/ HandlerCancelled(r) \/ Finish(r)

Next ==
  \/ \E q \in Requests : NewRequest(q) \/ Handler(q)
  \/ \E r \in Runs : \/ Task(r) \/ GraphEnds(r) \/ GraphFails(r)
                     \/ WriteFails(r) \/ FinishBroken(r) \/ StreamCut(r)
  \/ Restart

Spec == Init /\ [][Next]_vars

\* The event loop runs what is ready and the database answers: handlers and
\* tasks proceed.  Graphs need not end, and clients need not ask anything.
FairSpec ==
  /\ Spec
  /\ \A q \in Requests : WF_vars(Handler(q))
  /\ \A r \in Runs : WF_vars(Task(r))

-----------------------------------------------------------------------------
(* Safety.                                                                 *)

Quiet ==
  /\ \A r \in Runs : task[r] \in {"none", "done"}
  /\ \A q \in Requests : req[q] = NoRequest

\* A task that runs can be found in active_runs, so that it can be
\* cancelled, or it has been cancelled, or it is already ending.
TasksReachable ==
  \A r \in AliveTasks :
    r \in active \/ cancel[r] \/ Handling(r) \/ task[r] = "final"

\* active_runs holds no task that is over, except one that was cancelled
\* before its first step or whose final flush broke.
NoStaleEntry ==
  odd \intersect {"unstarted", "stuck"} = {} =>
    \A r \in active : task[r] \in Alive

\* When everything has come to rest the thread is not left busy, so it can be
\* run again.  Three things may leave it so: an except block that is cancelled
\* or whose write raises, a task cancelled before its first step, which
\* writes nothing at all, and a restart, which no start-up code repairs.
ThreadReleased ==
  Quiet /\ odd \intersect {"cutshort", "unstarted", "crash"} = {} =>
    thread # "busy"

\* While a graph runs the thread shows busy, unless runs overlap.
BusyWhileRunning ==
  "race" \notin odd =>
    \A r \in Runs : task[r] \in {"graph", "check"} =>
      thread \in {"busy", "absent"}

-----------------------------------------------------------------------------
(* Liveness, under FairSpec.                                               *)

\* Every request returns, also those that wait for a task they cancelled or
\* join, unless the run was cancelled before it had a task: then a caller
\* that waits for it waits as long as its graph runs.
RequestsReturn ==
  \A q \in Requests : []<>(req[q] = NoRequest \/ "lost" \in odd)

-----------------------------------------------------------------------------
(* What the documentation says.                                            *)

\* StreamingService.cancel_run: cancels a run that is waiting or running.
CancelSticks ==
  [][\A r \in Runs : row[r] = "cancelled" => row'[r] \in {"cancelled", "none"}]_row

\* join_run: the timeout is not an error, the current state is returned; so
\* a join that leaves its wait does nothing to any task or row.
JoinOnlyWaits ==
  [][\A q \in Requests :
       At(q, "join", "await") /\ req'[q] # req[q] => UNCHANGED <<cancel, row>>]_vars
=============================================================================
