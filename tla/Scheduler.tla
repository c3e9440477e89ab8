------------------------------ MODULE Scheduler ------------------------------
(***************************************************************************)
(* The periodic services every server process starts: the cron scheduler   *)
(* (services/cron_scheduler_service.py, with the routes of api/crons.py)   *)
(* and the cleanup of expired threads (services/thread_cleanup_service.py).*)
(*                                                                         *)
(* A tick of the cron scheduler is one transaction over all due crons.     *)
(* Each cron gets a run row and a new next_run_date in it, and a task that *)
(* starts before the transaction commits and writes the run's status in    *)
(* transactions of its own.  The due crons are selected without a lock, so *)
(* two processes may execute the same ones; the UPDATE of next_run_date    *)
(* waits for the other process's transaction.                              *)
(*                                                                         *)
(* Rows are locked as PostgreSQL locks them: an uncommitted run row holds  *)
(* its thread against deletion, an updated cron is held until the end of   *)
(* the transaction.  PostgreSQL aborts one of two transactions that wait   *)
(* for each other: one of the failures of BatchFails.                      *)
(***************************************************************************)
EXTENDS Naturals, FiniteSets

CONSTANTS
  Crons,       \* ids of crons
  Finite,      \* crons whose schedule has a single date (a year field)
  Threads,     \* threads made through the API
  Processes,   \* server processes, each with its services
  Never,       \* NULL of next_run_date, expires_at and thread_id
  Runs,        \* ids of runs: bound of the model
  MaxClock,    \* bound of the model
  MaxFaults    \* bound of the model: failing statements and restarts

ASSUME IdsAssumption ==
  /\ Runs \subseteq Nat /\ Finite \subseteq Crons
  /\ Never \notin Nat /\ Never \notin Threads
  /\ Crons # {} /\ Processes # {}
ASSUME BoundsAssumption == MaxClock \in Nat /\ MaxFaults \in Nat

VARIABLES
  clock,
  cron,        \* cron[c]: "none", "live" or "gone"
  next,        \* next[c]: next_run_date
  threadOf,    \* threadOf[c]: thread_id
  thread,      \* thread[t]: the row exists
  expires,     \* expires[t]: expires_at if ttl_strategy is delete, Never if it
               \* is archive, which the cleanup skips
  tick,        \* tick[p]: the scheduler is "asleep" or in a "batch"
  batch,       \* batch[p]: due crons not executed yet
  seen,        \* seen[p][c]: the row of c as selected, later its new date
  executed,    \* executed[p]: crons updated by the open transaction
  doomed,      \* doomed[p]: expired threads the cleanup selected
  row,         \* row[r]: status of the run's row; "open" while its transaction
               \* is, "unused", "undone" by a rollback, "removed" with its thread
  of,          \* of[r]: its cron
  by,          \* by[r]: its process
  due,         \* due[r]: the next_run_date it was executed for
  on,          \* on[r]: its thread, Never for one of its own
  task,        \* task[r]: where _execute_run_async is
  lost,        \* history: runs whose last status update changed no row or never
               \* came
  faults       \* faults so far

cronVars == <<cron, next, threadOf>>
threadVars == <<thread, expires>>
batchVars == <<tick, batch, seen, executed>>
runVars == <<row, of, by, due, on, task, lost>>
vars == <<clock, cronVars, threadVars, batchVars, doomed, runVars, faults>>

Dates == Nat \union {Never}
Statuses == {"pending", "running", "settled"}     \* success and error as one
Committed == Statuses \union {"removed"}
Snapshot == [date : Dates, thread : Threads \union {Never}]

TypeOK ==
  /\ clock \in Nat
  /\ cron \in [Crons -> {"none", "live", "gone"}]
  /\ next \in [Crons -> Dates]
  /\ threadOf \in [Crons -> Threads \union {Never}]
  /\ thread \in [Threads -> BOOLEAN]
  /\ expires \in [Threads -> Dates]
  /\ tick \in [Processes -> {"asleep", "batch"}]
  /\ batch \in [Processes -> SUBSET Crons]
  /\ seen \in [Processes -> [Crons -> Snapshot]]
  /\ executed \in [Processes -> SUBSET Crons]
  /\ doomed \in [Processes -> SUBSET Threads]
  /\ row \in [Runs -> Committed \union {"unused", "open", "undone"}]
  /\ of \in [Runs -> Crons]
  /\ by \in [Runs -> Processes]
  /\ due \in [Runs -> Dates]
  /\ on \in [Runs -> Threads \union {Never}]
  /\ task \in [Runs -> {"none", "start", "graph", "over"}]
  /\ lost \subseteq Runs
  /\ faults \in Nat

Unselected == [c \in Crons |-> [date |-> Never, thread |-> Never]]

Init ==
  /\ clock = 0
  /\ cron = [c \in Crons |-> "none"]
  /\ next = [c \in Crons |-> Never]
  /\ threadOf = [c \in Crons |-> Never]
  /\ thread = [t \in Threads |-> TRUE]
  /\ expires = [t \in Threads |-> Never]
  /\ tick = [p \in Processes |-> "asleep"]
  /\ batch = [p \in Processes |-> {}]
  /\ seen = [p \in Processes |-> Unselected]
  /\ executed = [p \in Processes |-> {}]
  /\ doomed = [p \in Processes |-> {}]
  /\ row = [r \in Runs |-> "unused"]
  /\ of = [r \in Runs |-> CHOOSE c \in Crons : TRUE]
  /\ by = [r \in Runs |-> CHOOSE p \in Processes : TRUE]
  /\ due = [r \in Runs |-> Never]
  /\ on = [r \in Runs |-> Never]
  /\ task = [r \in Runs |-> "none"]
  /\ lost = {}
  /\ faults = 0

Fault == faults < MaxFaults /\ faults' = faults + 1

Past(date) == date # Never /\ date <= clock

Tick ==
  /\ clock < MaxClock
  /\ clock' = clock + 1
  /\ UNCHANGED <<cronVars, threadVars, batchVars, doomed, runVars, faults>>

\* croniter's next date of c after now.
NextRunTime(c) == IF c \in Finite /\ clock > 0 THEN Never ELSE clock + 1

\* Rows locked by open transactions.
CronLocked(c) == \E p \in Processes : c \in executed[p]
ThreadLocked(t) == \E r \in Runs : row[r] = "open" /\ on[r] = t

-----------------------------------------------------------------------------
(* The routes.                                                             *)

\* create_cron, create_cron_for_thread: a schedule without a next date is
\* refused, a thread that does not exist breaks the foreign key.
CreateCron(c, t) ==
  /\ cron[c] = "none"
  /\ NextRunTime(c) # Never
  /\ t \in Threads => thread[t]
  /\ cron' = [cron EXCEPT ![c] = "live"]
  /\ next' = [next EXCEPT ![c] = NextRunTime(c)]
  /\ threadOf' = [threadOf EXCEPT ![c] = t]
  /\ UNCHANGED <<clock, threadVars, batchVars, doomed, runVars, faults>>

\* delete_cron: nothing of what the cron has started is touched.
DeleteCron(c) ==
  /\ cron[c] = "live"
  /\ ~CronLocked(c)
  /\ cron' = [cron EXCEPT ![c] = "gone"]
  /\ next' = [next EXCEPT ![c] = Never]
  /\ threadOf' = [threadOf EXCEPT ![c] = Never]
  /\ UNCHANGED <<clock, threadVars, batchVars, doomed, runVars, faults>>

\* update_thread with a ttl and a strategy.
SetTtl(t) ==
  /\ thread[t]
  /\ \E date \in {clock + 1, Never} : expires' = [expires EXCEPT ![t] = date]
  /\ UNCHANGED <<clock, cronVars, thread, batchVars, doomed, runVars, faults>>

-----------------------------------------------------------------------------
(* A tick of the cron scheduler.                                           *)

\* The transaction of p ends, its batch is forgotten.
EndBatch(p) ==
  /\ tick' = [tick EXCEPT ![p] = "asleep"]
  /\ batch' = [batch EXCEPT ![p] = {}]
  /\ seen' = [seen EXCEPT ![p] = Unselected]
  /\ executed' = [executed EXCEPT ![p] = {}]

\* The run rows of p's transaction get this status.
EndRows(p, status) ==
  row' = [r \in Runs |-> IF row[r] = "open" /\ by[r] = p THEN status ELSE row[r]]

\* _process_due_crons: the query.
SelectDue(p) ==
  LET D == {c \in Crons : cron[c] = "live" /\ Past(next[c])}
  IN /\ tick[p] = "asleep"
     /\ D # {}
     /\ tick' = [tick EXCEPT ![p] = "batch"]
     /\ batch' = [batch EXCEPT ![p] = D]
     /\ seen' = [seen EXCEPT ![p] = [c \in Crons |-> IF c \in D
                  THEN [date |-> next[c], thread |-> threadOf[c]] ELSE @[c]]]
     /\ UNCHANGED <<clock, cronVars, threadVars, executed, doomed, runVars, faults>>

\* The unused run with the least id: ids are interchangeable.
IsNew(r) == row[r] = "unused" /\ \A s \in Runs : row[s] = "unused" => r <= s

\* The run whose cron p is updating, or waiting to update.
Current(p, r) == row[r] = "open" /\ by[r] = p /\ task[r] = "none"

\* _execute_cron up to the flush: now is read, the run row inserted, with a
\* thread of its own if the cron had none when it was selected.
InsertRun(p, c) ==
  /\ tick[p] = "batch" /\ c \in batch[p]
  /\ \A r \in Runs : ~Current(p, r)
  /\ seen[p][c].thread \in Threads => thread[seen[p][c].thread]
  /\ \E r \in Runs :
       /\ IsNew(r)
       /\ row' = [row EXCEPT ![r] = "open"]
       /\ of' = [of EXCEPT ![r] = c]
       /\ by' = [by EXCEPT ![r] = p]
       /\ due' = [due EXCEPT ![r] = seen[p][c].date]
       /\ on' = [on EXCEPT ![r] = seen[p][c].thread]
  \* the date computed before the UPDATE waits for its row
  /\ seen' = [seen EXCEPT ![p][c].date = NextRunTime(c)]
  /\ batch' = [batch EXCEPT ![p] = @ \ {c}]
  /\ UNCHANGED <<clock, cronVars, threadVars, tick, executed, doomed, task, lost, faults>>

\* Mutant: the next date is committed at once.
UpdateCron_Autocommit(p, r) ==
  /\ Current(p, r)
  /\ ~CronLocked(of[r])
  /\ next' = [next EXCEPT ![of[r]] = seen[p][of[r]].date]
  /\ task' = [task EXCEPT ![r] = "start"]
  /\ UNCHANGED <<clock, cron, threadOf, threadVars, batchVars, doomed, row, of, by, due,
                 on, lost, faults>>

\* _execute_cron, the rest: the UPDATE has its row, the task is created.
UpdateCron(p, r) ==
  /\ Current(p, r)
  /\ ~CronLocked(of[r])
  /\ executed' = [executed EXCEPT ![p] = @ \union {of[r]}]
  /\ task' = [task EXCEPT ![r] = "start"]
  /\ UNCHANGED <<clock, cronVars, threadVars, tick, batch, seen, doomed, row, of, by,
                 due, on, lost, faults>>

\* All crons of the batch are executed: run rows and dates become visible.
Commit(p) ==
  /\ tick[p] = "batch" /\ batch[p] = {}
  /\ \A r \in Runs : ~Current(p, r)
  /\ next' = [c \in Crons |-> IF c \in executed[p] /\ cron[c] = "live"
                              THEN seen[p][c].date ELSE next[c]]
  /\ EndRows(p, "pending")
  /\ EndBatch(p)
  /\ UNCHANGED <<clock, cron, threadOf, threadVars, doomed, of, by, due, on, task,
                 lost, faults>>

\* A statement of the batch has failed: the session refuses all that
\* follows, also the commit.  The tasks created so far go on.
Rollback(p) ==
  /\ EndRows(p, "undone")
  /\ EndBatch(p)
  /\ UNCHANGED <<clock, cronVars, threadVars, doomed, of, by, due, on, lost>>

BatchFails(p) ==
  /\ tick[p] # "asleep"
  /\ Fault
  /\ Rollback(p)
  /\ UNCHANGED task

\* The thread of the cron was deleted after the query: the foreign key
\* refuses the run.
ThreadMissing(p) ==
  /\ tick[p] = "batch"
  /\ \A r \in Runs : ~Current(p, r)
  /\ \E c \in batch[p] : seen[p][c].thread \in Threads /\ ~thread[seen[p][c].thread]
  /\ Rollback(p)
  /\ UNCHANGED <<task, faults>>

-----------------------------------------------------------------------------
(* The task of a run.                                                      *)

\* _update_run_status: rows that are not committed or removed are not found.
Found(r) == row[r] \in Statuses
WriteRow(r, status) == row' = IF Found(r) THEN [row EXCEPT ![r] = status] ELSE row

StartGraph(r) ==
  /\ task[r] = "start"
  /\ task' = [task EXCEPT ![r] = "graph"]
  /\ WriteRow(r, "running")
  /\ UNCHANGED <<clock, cronVars, threadVars, batchVars, doomed, of, by, due, on, lost,
                 faults>>

\* Mutant: an exception of the graph ends the task without a status.
WriteOutcome_NoHandler(r) ==
  /\ task[r] \in {"start", "graph"}
  /\ WriteRow(r, "settled") \/ UNCHANGED row
  /\ task' = [task EXCEPT ![r] = "over"]
  /\ lost' = IF Found(r) THEN lost ELSE lost \union {r}
  /\ UNCHANGED <<clock, cronVars, threadVars, batchVars, doomed, of, by, due, on, faults>>

\* The graph is not found, or has ended or raised: the outcome is written.
WriteOutcome(r) ==
  /\ task[r] \in {"start", "graph"}
  /\ WriteRow(r, "settled")
  /\ task' = [task EXCEPT ![r] = "over"]
  /\ lost' = IF Found(r) THEN lost ELSE lost \union {r}
  /\ UNCHANGED <<clock, cronVars, threadVars, batchVars, doomed, of, by, due, on, faults>>

\* An update fails, which is only logged.
WriteFails(r) ==
  /\ task[r] \in {"start", "graph"}
  /\ Fault
  /\ \/ task[r] = "start" /\ task' = [task EXCEPT ![r] = "graph"] /\ UNCHANGED lost
     \/ task' = [task EXCEPT ![r] = "over"] /\ lost' = lost \union {r}
  /\ UNCHANGED <<clock, cronVars, threadVars, batchVars, doomed, row, of, by, due, on>>

-----------------------------------------------------------------------------
(* The cleanup of expired threads.                                         *)

\* _cleanup_expired_threads: the query, and the strategy of each thread.
SelectExpired(p) ==
  LET S == {t \in Threads : thread[t] /\ Past(expires[t])}
  IN /\ doomed[p] = {} /\ S # {}
     /\ doomed' = [doomed EXCEPT ![p] = S]
     /\ UNCHANGED <<clock, cronVars, threadVars, batchVars, runVars, faults>>

\* Mutant: the crons of a deleted thread keep its id.
DeleteExpired_KeepsCrons(p) ==
  /\ doomed[p] # {}
  /\ \A t \in doomed[p] : ~ThreadLocked(t)
  /\ thread' = [t \in Threads |-> thread[t] /\ t \notin doomed[p]]
  /\ row' = [r \in Runs |-> IF Found(r) /\ on[r] \in doomed[p] THEN "removed" ELSE row[r]]
  /\ doomed' = [doomed EXCEPT ![p] = {}]
  /\ expires' = [t \in Threads |-> IF t \in doomed[p] THEN Never ELSE expires[t]]
  /\ UNCHANGED <<clock, cronVars, batchVars, of, by, due, on, task, lost, faults>>

\* The deletes are by id and sent with the commit: runs go with the thread,
\* crons lose it.
DeleteExpired(p) ==
  /\ doomed[p] # {}
  /\ \A t \in doomed[p] : ~ThreadLocked(t)
  /\ thread' = [t \in Threads |-> thread[t] /\ t \notin doomed[p]]
  /\ threadOf' = [c \in Crons |-> IF threadOf[c] \in doomed[p] THEN Never ELSE threadOf[c]]
  /\ row' = [r \in Runs |-> IF Found(r) /\ on[r] \in doomed[p] THEN "removed" ELSE row[r]]
  /\ doomed' = [doomed EXCEPT ![p] = {}]
  /\ expires' = [t \in Threads |-> IF t \in doomed[p] THEN Never ELSE expires[t]]
  /\ UNCHANGED <<clock, cron, next, batchVars, of, by, due, on, task,
                 lost, faults>>

Alive(r) == task[r] \in {"start", "graph"}

\* The process ends at any point and starts again, with no task left.
Restart(p) ==
  /\ Fault
  /\ doomed' = [doomed EXCEPT ![p] = {}]
  /\ EndRows(p, "undone")
  /\ EndBatch(p)
  /\ task' = [r \in Runs |-> IF Alive(r) /\ by[r] = p THEN "over" ELSE task[r]]
  /\ lost' = lost \union {r \in Runs : Alive(r) /\ by[r] = p}
  /\ UNCHANGED <<clock, cronVars, threadVars, of, by, due, on>>

-----------------------------------------------------------------------------
Route ==
  \/ \E c \in Crons, t \in Threads \union {Never} : CreateCron(c, t)
  \/ \E c \in Crons : DeleteCron(c)
  \/ \E t \in Threads : SetTtl(t)

\* What a scheduler does on its own.
Process(p) ==
  \/ SelectDue(p)
  \/ \E c \in Crons : InsertRun(p, c)
  \/ \E r \in Runs : UpdateCron(p, r)
  \/ Commit(p) \/ ThreadMissing(p)

Task(r) == StartGraph(r) \/ WriteOutcome(r)

Next ==
  \/ Tick
  \/ Route
  \/ \E p \in Processes :
       Process(p) \/ BatchFails(p) \/ SelectExpired(p) \/ DeleteExpired(p) \/ Restart(p)
  \/ \E r \in Runs : Task(r) \/ WriteFails(r)

Spec == Init /\ [][Next]_vars

FairSpec ==
  /\ Spec
  /\ \A p \in Processes : WF_vars(Process(p))
  /\ \A r \in Runs : WF_vars(Task(r))

-----------------------------------------------------------------------------
(* Properties.                                                             *)

\* A date of a cron is used up only together with a run for it
\* (cron_scheduler_service.py:86): whatever fails or is restarted between the
\* update of next_run_date and the commit, no execution is skipped.
NoneSkipped ==
  [][\A c \in Crons : next'[c] # next[c] /\ cron[c] = "live" /\ cron'[c] = "live" =>
       \E r \in Runs : of[r] = c /\ row[r] = "open" /\ row'[r] = "pending"]_vars

\* A run whose task is over has a final status.  The exceptions are a process
\* that ended, an update that failed, and one that came before the commit of
\* the run's row (:155).
RunsSettle ==
  \A r \in Runs : task[r] = "over" /\ row[r] \in Statuses =>
                    row[r] = "settled" \/ r \in lost

\* Every due cron is executed in the end, although a failing cron takes the
\* whole batch with it (:79) and its thread may expire meanwhile.
DueServed ==
  <>[](\/ \A c \in Crons : cron[c] = "live" => ~Past(next[c])
       \/ \A r \in Runs : row[r] # "unused")
=============================================================================
