----------------------------- MODULE ClockProofs -----------------------------
(***************************************************************************)
(* What is proved of the two components that act by the clock, for any     *)
(* times and whatever happens between two of its ticks.                    *)
(*   Scheduler: no execution of a cron is skipped, and every run gets a    *)
(* final status or has an excuse, for any crons, threads and processes.    *)
(*   Limiter: no window lets more requests pass than it may, for any       *)
(* requests in progress, limit and length of the window.                   *)
(* The two share no state, and neither is part of the other.               *)
(***************************************************************************)
EXTENDS Scheduler, Limiter, FiniteSetTheorems, TLAPS

-----------------------------------------------------------------------------
(* Scheduler.                                                              *)

\* A cron whose date the transaction of p uses up has a run row in it.
Backed ==
  \A p \in Processes : \A c \in executed[p] :
    \E r \in Runs : row[r] = "open" /\ by[r] = p /\ of[r] = c

\* Ids of runs are not in use before their row is inserted.
Fresh == \A r \in Runs : row[r] = "unused" => task[r] = "none"

\* A task that is over without having written a status has an excuse, also
\* while its run row may still become visible.
Excused ==
  \A r \in Runs : task[r] = "over" /\ row[r] \in {"open", "pending", "running"} => r \in lost

IInv == TypeOK /\ Backed /\ Fresh /\ Excused

LEMMA NextDate == ASSUME NEW c, clock \in Nat PROVE NextRunTime(c) \in Dates
  BY DEF NextRunTime, Dates

LEMMA InitInv == Init => IInv
<1> SUFFICES ASSUME Init PROVE IInv
  OBVIOUS
<1>1. (CHOOSE c \in Crons : TRUE) \in Crons /\ (CHOOSE p \in Processes : TRUE) \in Processes
  BY IdsAssumption
<1>2. Unselected \in [Crons -> Snapshot]
  BY DEF Unselected, Snapshot, Dates
<1>3. /\ of \in [Runs -> Crons] /\ by \in [Runs -> Processes]
  BY <1>1 DEF Init
<1>4. TypeOK
  BY <1>2, <1>3 DEF Init, TypeOK, Dates, Committed, Statuses
<1>5. Backed /\ Fresh /\ Excused
  BY DEF Init, Backed, Fresh, Excused
<1> QED
  BY <1>4, <1>5 DEF IInv

-----------------------------------------------------------------------------
(* What leaves the invariant alone.                                        *)

\* Steps that touch no run and no open transaction.
LEMMA Elsewhere ==
  ASSUME IInv, TypeOK', UNCHANGED <<executed, runVars>>
  PROVE  IInv'
  BY DEF IInv, Backed, Fresh, Excused, runVars

\* Steps that only move the rows of runs along.
LEMMA RowsMove ==
  ASSUME IInv, TypeOK', UNCHANGED <<executed, of, by>>,
         \A r \in Runs :
           /\ row'[r] = "open" <=> row[r] = "open"
           /\ row'[r] = "unused" <=> row[r] = "unused"
           /\ row[r] = "unused" => task'[r] = task[r]
           /\ task'[r] = "over" /\ row'[r] \in {"open", "pending", "running"} => r \in lost'
  PROVE  IInv'
<1>1. Backed'
  BY DEF IInv, Backed
<1>2. Fresh' /\ Excused'
  BY DEF IInv, Fresh, Excused
<1> QED
  BY <1>1, <1>2 DEF IInv

\* The transaction of p ends, and its rows with it.
LEMMA BatchEnds ==
  ASSUME IInv, TypeOK', NEW p \in Processes, NEW status \in {"pending", "undone"},
         EndRows(p, status), EndBatch(p), UNCHANGED <<of, by>>,
         \A r \in Runs : /\ row[r] = "unused" => task'[r] = task[r]
                         /\ task'[r] = "over" => task[r] = "over" \/ r \in lost',
         lost \subseteq lost'
  PROVE  IInv'
<1>1. \A r \in Runs : row'[r] = IF row[r] = "open" /\ by[r] = p THEN status ELSE row[r]
  BY DEF EndRows
<1>2. /\ executed'[p] = {}
      /\ \A x \in Processes \ {p} : executed'[x] = executed[x]
  BY DEF EndBatch, IInv, TypeOK
<1>3. Backed'
  <2> SUFFICES ASSUME NEW x \in Processes, NEW c \in executed'[x]
               PROVE  \E r \in Runs : row'[r] = "open" /\ by[r] = x /\ of[r] = c
    BY DEF Backed
  <2>1. x # p /\ c \in executed[x]
    BY <1>2
  <2>2. PICK r \in Runs : row[r] = "open" /\ by[r] = x /\ of[r] = c
    BY <2>1 DEF IInv, Backed
  <2> QED
    BY <1>1, <2>1, <2>2
<1>4. Fresh'
  BY <1>1 DEF IInv, Fresh
<1>5. Excused'
  BY <1>1 DEF IInv, Excused
<1> QED
  BY <1>3, <1>4, <1>5 DEF IInv

LEMMA EndTypes ==
  ASSUME TypeOK, NEW p \in Processes, NEW status \in {"pending", "undone"},
         EndRows(p, status), EndBatch(p)
  PROVE  /\ row' \in [Runs -> Committed \union {"unused", "open", "undone"}]
         /\ tick' \in [Processes -> {"asleep", "batch"}]
         /\ batch' \in [Processes -> SUBSET Crons]
         /\ seen' \in [Processes -> [Crons -> Snapshot]]
         /\ executed' \in [Processes -> SUBSET Crons]
<1>1. Unselected \in [Crons -> Snapshot]
  BY DEF Unselected, Snapshot, Dates
<1>2. row' \in [Runs -> Committed \union {"unused", "open", "undone"}]
  BY DEF TypeOK, EndRows, Committed, Statuses
<1>3. /\ tick' \in [Processes -> {"asleep", "batch"}]
      /\ batch' \in [Processes -> SUBSET Crons]
      /\ executed' \in [Processes -> SUBSET Crons]
  BY DEF TypeOK, EndBatch
<1>4. seen' \in [Processes -> [Crons -> Snapshot]]
  BY <1>1 DEF TypeOK, EndBatch
<1> QED
  BY <1>2, <1>3, <1>4

-----------------------------------------------------------------------------
(* The steps.                                                              *)

LEMMA RouteStep == ASSUME IInv, Tick \/ Route PROVE IInv'
<1> USE DEF IInv, runVars, batchVars, cronVars, threadVars
<1>1. CASE Tick
  BY <1>1, Elsewhere DEF Tick, TypeOK
<1>2. ASSUME NEW c \in Crons, NEW t \in Threads \union {Never}, CreateCron(c, t) PROVE IInv'
  <2>1. next' \in [Crons -> Dates]
    BY <1>2, NextDate DEF CreateCron, TypeOK
  <2>2. TypeOK'
    BY <1>2, <2>1 DEF CreateCron, TypeOK
  <2> QED
    BY <1>2, <2>2, Elsewhere DEF CreateCron
<1>3. ASSUME NEW c \in Crons, DeleteCron(c) PROVE IInv'
  <2>1. TypeOK'
    BY <1>3 DEF DeleteCron, TypeOK, Dates
  <2> QED
    BY <1>3, <2>1, Elsewhere DEF DeleteCron
<1>4. ASSUME NEW t \in Threads, SetTtl(t) PROVE IInv'
  <2>1. clock + 1 \in Dates /\ Never \in Dates
    BY DEF Dates, TypeOK
  <2>2. expires' \in [Threads -> Dates]
    BY <1>4, <2>1 DEF SetTtl, TypeOK
  <2>3. TypeOK'
    BY <1>4, <2>2 DEF SetTtl, TypeOK
  <2> QED
    BY <1>4, <2>3, Elsewhere DEF SetTtl
<1> QED
  BY <1>1, <1>2, <1>3, <1>4 DEF Route

LEMMA SelectStep ==
  ASSUME IInv, NEW p \in Processes, SelectDue(p) \/ SelectExpired(p)
  PROVE  IInv'
<1> USE DEF IInv, runVars, batchVars, cronVars, threadVars
<1>1. CASE SelectDue(p)
  <2> DEFINE D == {c \in Crons : cron[c] = "live" /\ Past(next[c])}
             s == [c \in Crons |-> IF c \in D THEN [date |-> next[c], thread |-> threadOf[c]]
                                   ELSE seen[p][c]]
  <2>1. s \in [Crons -> Snapshot]
    BY DEF TypeOK, Snapshot
  <2>2. seen' = [seen EXCEPT ![p] = s]
    BY <1>1 DEF SelectDue
  <2> HIDE DEF s
  <2>3. seen' \in [Processes -> [Crons -> Snapshot]]
    BY <2>1, <2>2 DEF TypeOK
  <2>4. batch' \in [Processes -> SUBSET Crons] /\ tick' \in [Processes -> {"asleep", "batch"}]
    BY <1>1 DEF SelectDue, TypeOK
  <2>5. TypeOK'
    BY <1>1, <2>3, <2>4 DEF SelectDue, TypeOK
  <2> QED
    BY <1>1, <2>5, Elsewhere DEF SelectDue
<1>2. CASE SelectExpired(p)
  <2>1. doomed' \in [Processes -> SUBSET Threads]
    BY <1>2 DEF SelectExpired, TypeOK
  <2>2. TypeOK'
    BY <1>2, <2>1 DEF SelectExpired, TypeOK
  <2> QED
    BY <1>2, <2>2, Elsewhere DEF SelectExpired
<1> QED
  BY <1>1, <1>2

\* The new row takes an unused id: the rows of the open transactions stay.
LEMMA InsertRunStep ==
  ASSUME IInv, NEW p \in Processes, NEW c \in Crons, InsertRun(p, c)
  PROVE  IInv'
<1> USE DEF IInv, cronVars, threadVars
<1>1. PICK r \in Runs :
        /\ IsNew(r)
        /\ row' = [row EXCEPT ![r] = "open"]
        /\ of' = [of EXCEPT ![r] = c]
        /\ by' = [by EXCEPT ![r] = p]
        /\ due' = [due EXCEPT ![r] = seen[p][c].date]
        /\ on' = [on EXCEPT ![r] = seen[p][c].thread]
  BY DEF InsertRun
<1>2. row[r] = "unused" /\ task' = task /\ lost' = lost /\ executed' = executed
  BY <1>1 DEF InsertRun, IsNew
<1>3. seen[p][c] \in Snapshot
  BY DEF TypeOK
<1>4. /\ row' \in [Runs -> Committed \union {"unused", "open", "undone"}]
      /\ of' \in [Runs -> Crons] /\ by' \in [Runs -> Processes]
  BY <1>1 DEF TypeOK
<1>5. due' \in [Runs -> Dates] /\ on' \in [Runs -> Threads \union {Never}]
  BY <1>1, <1>3 DEF TypeOK, Snapshot
<1>6. seen' \in [Processes -> [Crons -> Snapshot]]
  <2> DEFINE s == [seen[p][c] EXCEPT !.date = NextRunTime(c)]
             f == [seen[p] EXCEPT ![c] = s]
  <2>1. s \in Snapshot
    BY <1>3, NextDate DEF Snapshot, TypeOK
  <2>2. seen' = [seen EXCEPT ![p] = f]
    BY DEF InsertRun
  <2> HIDE DEF s
  <2>3. f \in [Crons -> Snapshot]
    BY <2>1 DEF TypeOK
  <2> HIDE DEF f
  <2> QED
    BY <2>2, <2>3 DEF TypeOK
<1>7. batch' \in [Processes -> SUBSET Crons]
  BY DEF InsertRun, TypeOK
<1>8. TypeOK'
  BY <1>2, <1>4, <1>5, <1>6, <1>7 DEF InsertRun, TypeOK
<1>9. \A x \in Runs \ {r} : row'[x] = row[x] /\ of'[x] = of[x] /\ by'[x] = by[x]
  BY <1>1 DEF TypeOK
<1>10. Backed'
  <2> SUFFICES ASSUME NEW x \in Processes, NEW d \in executed[x]
               PROVE  \E y \in Runs : row'[y] = "open" /\ by'[y] = x /\ of'[y] = d
    BY <1>2 DEF Backed
  <2>1. PICK y \in Runs : row[y] = "open" /\ by[y] = x /\ of[y] = d
    BY DEF Backed
  <2>2. y # r
    BY <1>2, <2>1
  <2> QED
    BY <1>9, <2>1, <2>2
<1>11. task[r] = "none" /\ row'[r] = "open"
  BY <1>1, <1>2 DEF Fresh, TypeOK
<1>12. Fresh' /\ Excused'
  BY <1>2, <1>9, <1>11 DEF Fresh, Excused
<1> QED
  BY <1>8, <1>10, <1>12

LEMMA UpdateCronStep ==
  ASSUME IInv, NEW p \in Processes, NEW r \in Runs, UpdateCron(p, r)
  PROVE  IInv'
<1> USE DEF IInv, cronVars, threadVars
<1>1. /\ row[r] = "open" /\ by[r] = p /\ task[r] = "none"
      /\ executed' = [executed EXCEPT ![p] = @ \union {of[r]}]
      /\ task' = [task EXCEPT ![r] = "start"]
      /\ UNCHANGED <<row, of, by, lost>>
  BY DEF UpdateCron, Current
<1>2. /\ executed'[p] = executed[p] \union {of[r]}
      /\ \A x \in Processes \ {p} : executed'[x] = executed[x]
      /\ executed' \in [Processes -> SUBSET Crons]
  BY <1>1 DEF TypeOK
<1>3. TypeOK'
  BY <1>1, <1>2 DEF UpdateCron, TypeOK
<1>4. Backed'
  <2> SUFFICES ASSUME NEW x \in Processes, NEW d \in executed'[x]
               PROVE  \E y \in Runs : row[y] = "open" /\ by[y] = x /\ of[y] = d
    BY <1>1 DEF Backed
  <2>1. CASE x = p /\ d = of[r]
    BY <1>1, <2>1
  <2>2. CASE d \in executed[x]
    BY <2>2 DEF Backed
  <2> QED
    BY <1>2, <2>1, <2>2
<1>5. task'[r] = "start" /\ \A x \in Runs \ {r} : task'[x] = task[x]
  BY <1>1 DEF TypeOK
<1>6. Fresh' /\ Excused'
  BY <1>1, <1>5 DEF Fresh, Excused
<1> QED
  BY <1>3, <1>4, <1>6

LEMMA BatchStep ==
  ASSUME IInv, NEW p \in Processes, Commit(p) \/ BatchFails(p) \/ ThreadMissing(p)
  PROVE  IInv'
<1> USE DEF IInv, cronVars, threadVars
<1>1. CASE Commit(p)
  <2>1. next' \in [Crons -> Dates]
    <3>1. \A c \in Crons : seen[p][c].date \in Dates
      BY DEF TypeOK, Snapshot
    <3> QED
      BY <1>1, <3>1 DEF Commit, TypeOK
  <2>2. TypeOK'
    BY <1>1, <2>1, EndTypes DEF Commit, TypeOK
  <2> QED
    BY <1>1, <2>2, BatchEnds DEF Commit
<1>2. CASE BatchFails(p) \/ ThreadMissing(p)
  <2>1. Rollback(p) /\ task' = task /\ faults' \in Nat
    BY <1>2 DEF BatchFails, ThreadMissing, Fault, TypeOK
  <2>2. TypeOK'
    BY <2>1, EndTypes DEF Rollback, TypeOK
  <2> QED
    BY <2>1, <2>2, BatchEnds DEF Rollback
<1> QED
  BY <1>1, <1>2

LEMMA TaskStep ==
  ASSUME IInv, NEW r \in Runs, Task(r) \/ WriteFails(r)
  PROVE  IInv'
<1> USE DEF IInv, cronVars, threadVars, batchVars
<1>1. row[r] # "unused"
  BY DEF Fresh, Task, StartGraph, WriteOutcome, WriteFails
<1>2. ASSUME NEW status \in {"running", "settled"}, WriteRow(r, status)
      PROVE  /\ row' \in [Runs -> Committed \union {"unused", "open", "undone"}]
             /\ \A x \in Runs \ {r} : row'[x] = row[x]
             /\ Found(r) => row'[r] = status
             /\ ~Found(r) => row'[r] = row[r]
  BY <1>2 DEF WriteRow, TypeOK, Committed, Statuses
<1>3. CASE StartGraph(r)
  <2>1. /\ task' \in [Runs -> {"none", "start", "graph", "over"}] /\ task'[r] = "graph"
        /\ \A x \in Runs \ {r} : task'[x] = task[x]
    BY <1>3 DEF StartGraph, TypeOK
  <2>2. TypeOK'
    BY <1>2, <1>3, <2>1 DEF StartGraph, TypeOK
  <2> QED
    BY <1>1, <1>2, <1>3, <2>1, <2>2, RowsMove DEF StartGraph, Excused, Found, Statuses
<1>4. CASE WriteOutcome(r)
  <2>1. /\ task' \in [Runs -> {"none", "start", "graph", "over"}]
        /\ \A x \in Runs \ {r} : task'[x] = task[x]
        /\ lost \subseteq lost' /\ lost' \subseteq Runs /\ (~Found(r) => r \in lost')
    BY <1>4 DEF WriteOutcome, TypeOK
  <2>2. TypeOK'
    BY <1>2, <1>4, <2>1 DEF WriteOutcome, TypeOK
  <2> QED
    BY <1>1, <1>2, <1>4, <2>1, <2>2, RowsMove DEF WriteOutcome, Excused, Found, Statuses
<1>5. CASE WriteFails(r)
  <2>1. /\ task' \in [Runs -> {"none", "start", "graph", "over"}]
        /\ \A x \in Runs \ {r} : task'[x] = task[x]
        /\ lost \subseteq lost' /\ lost' \subseteq Runs /\ (task'[r] = "over" => r \in lost')
        /\ faults' \in Nat
    <3>1. task \in [Runs -> {"none", "start", "graph", "over"}] /\ lost \subseteq Runs
      BY DEF TypeOK
    <3>2. faults' \in Nat
      BY <1>5 DEF WriteFails, Fault, TypeOK
    <3>3. CASE task' = [task EXCEPT ![r] = "graph"] /\ UNCHANGED lost
      BY <3>1, <3>2, <3>3
    <3>4. CASE task' = [task EXCEPT ![r] = "over"] /\ lost' = lost \union {r}
      BY <3>1, <3>2, <3>4
    <3> QED
      BY <1>5, <3>3, <3>4 DEF WriteFails
  <2>2. TypeOK'
    BY <1>5, <2>1 DEF WriteFails, TypeOK
  <2> QED
    BY <1>1, <1>5, <2>1, <2>2, RowsMove DEF WriteFails, Excused
<1> QED
  BY <1>3, <1>4, <1>5 DEF Task

LEMMA DeleteExpiredStep ==
  ASSUME IInv, NEW p \in Processes, DeleteExpired(p)
  PROVE  IInv'
<1> USE DEF IInv, batchVars
<1>1. \A r \in Runs : row'[r] = IF Found(r) /\ on[r] \in doomed[p] THEN "removed" ELSE row[r]
  BY DEF DeleteExpired
<1>2. /\ row' \in [Runs -> Committed \union {"unused", "open", "undone"}]
      /\ thread' \in [Threads -> BOOLEAN]
      /\ threadOf' \in [Crons -> Threads \union {Never}]
      /\ doomed' \in [Processes -> SUBSET Threads]
      /\ expires' \in [Threads -> Dates]
  <2>1. row' \in [Runs -> Committed \union {"unused", "open", "undone"}]
    BY DEF DeleteExpired, TypeOK, Committed
  <2>2. thread' \in [Threads -> BOOLEAN]
    BY DEF DeleteExpired, TypeOK
  <2>3. threadOf' \in [Crons -> Threads \union {Never}]
    BY DEF DeleteExpired, TypeOK
  <2>4. doomed' \in [Processes -> SUBSET Threads]
    BY DEF DeleteExpired, TypeOK
  <2>5. expires' \in [Threads -> Dates]
    BY DEF DeleteExpired, TypeOK, Dates
  <2> QED
    BY <2>1, <2>2, <2>3, <2>4, <2>5
<1>3. TypeOK'
  BY <1>2 DEF DeleteExpired, TypeOK
<1> QED
  BY <1>1, <1>3, RowsMove DEF DeleteExpired, Found, Statuses, Excused

LEMMA RestartStep ==
  ASSUME IInv, NEW p \in Processes, Restart(p)
  PROVE  IInv'
<1> USE DEF IInv, cronVars, threadVars
<1>1. /\ task' \in [Runs -> {"none", "start", "graph", "over"}]
      /\ lost' \subseteq Runs /\ lost \subseteq lost'
      /\ faults' \in Nat
      /\ doomed' \in [Processes -> SUBSET Threads]
  BY DEF Restart, Fault, TypeOK
<1>2. \A r \in Runs : /\ row[r] = "unused" => task'[r] = task[r]
                      /\ task'[r] = "over" => task[r] = "over" \/ r \in lost'
  BY DEF Restart, Alive, Fresh
<1>3. TypeOK'
  BY <1>1, EndTypes DEF Restart, TypeOK
<1> QED
  BY <1>1, <1>2, <1>3, BatchEnds DEF Restart

LEMMA NextInv == IInv /\ [Next]_vars => IInv'
<1> SUFFICES ASSUME IInv, [Next]_vars PROVE IInv'
  OBVIOUS
<1>1. CASE Next
  BY <1>1, RouteStep, SelectStep, InsertRunStep, UpdateCronStep, BatchStep, TaskStep,
     DeleteExpiredStep, RestartStep DEF Next, Process
<1>2. CASE UNCHANGED vars
  BY <1>2 DEF vars, cronVars, threadVars, batchVars, runVars, IInv, TypeOK, Backed, Fresh,
     Excused
<1> QED
  BY <1>1, <1>2

-----------------------------------------------------------------------------
(* Theorems.                                                               *)

\* The invariant the theorems below rest on: the transactions of all scheduler
\* processes keep a run for every date they use up.
THEOREM SchedulerInvariant == Spec => []IInv
  BY InitInv, NextInv, PTL DEF Spec

\* Every variable stays in its type.
THEOREM SchedulerTypes == Spec => []TypeOK
<1>1. IInv => TypeOK
  BY DEF IInv
<1> QED
  BY <1>1, SchedulerInvariant, PTL

\* A run whose task is over has a final status or an excuse (_update_run_status,
\* _execute_run_async).
THEOREM RunsGetSettled == Spec => []RunsSettle
<1>1. IInv => RunsSettle
  BY DEF IInv, Excused, RunsSettle, Statuses
<1> QED
  BY <1>1, SchedulerInvariant, PTL

\* The date of a cron that stays is changed by commits only.
LEMMA DatesMoveByCommit ==
  ASSUME IInv, Next, NEW c \in Crons, next'[c] # next[c], cron[c] = "live", cron'[c] = "live"
  PROVE  \E p \in Processes : Commit(p) /\ c \in executed[p]
<1> USE DEF cronVars
<1>1. ASSUME Tick \/ (\E t \in Threads : SetTtl(t)) PROVE FALSE
  BY <1>1 DEF Tick, SetTtl
<1>2. ASSUME NEW d \in Crons, NEW t \in Threads \union {Never}, CreateCron(d, t) PROVE FALSE
  BY <1>2 DEF CreateCron, IInv, TypeOK
<1>3. ASSUME NEW d \in Crons, DeleteCron(d) PROVE FALSE
  BY <1>3 DEF DeleteCron, IInv, TypeOK
<1>4. ASSUME NEW p \in Processes, Commit(p) PROVE c \in executed[p]
  BY <1>4 DEF Commit
<1>5. ASSUME NEW p \in Processes,
             \/ SelectDue(p) \/ ThreadMissing(p) \/ BatchFails(p) \/ SelectExpired(p)
             \/ DeleteExpired(p) \/ Restart(p)
             \/ \E d \in Crons : InsertRun(p, d)
             \/ \E r \in Runs : UpdateCron(p, r)
      PROVE  FALSE
  BY <1>5 DEF SelectDue, ThreadMissing, BatchFails, Rollback, SelectExpired, DeleteExpired,
     Restart, InsertRun, UpdateCron
<1>6. ASSUME NEW r \in Runs, Task(r) \/ WriteFails(r) PROVE FALSE
  BY <1>6 DEF Task, StartGraph, WriteOutcome, WriteFails
<1> QED
  BY <1>1, <1>2, <1>3, <1>4, <1>5, <1>6 DEF Next, Route, Process

\* A date of a cron is used up only together with a run for it that becomes
\* visible in the same commit (_process_due_crons), whatever fails and whichever
\* other process executes the same crons.
THEOREM NoExecutionIsSkipped == Spec => NoneSkipped
<1> DEFINE Step ==
      \A c \in Crons : next'[c] # next[c] /\ cron[c] = "live" /\ cron'[c] = "live" =>
        \E r \in Runs : of[r] = c /\ row[r] = "open" /\ row'[r] = "pending"
<1>1. IInv /\ [Next]_vars => [Step]_vars
  <2> SUFFICES ASSUME IInv, Next,
                      NEW c \in Crons, next'[c] # next[c], cron[c] = "live", cron'[c] = "live"
               PROVE  \E r \in Runs : of[r] = c /\ row[r] = "open" /\ row'[r] = "pending"
    OBVIOUS
  <2>1. PICK p \in Processes : Commit(p) /\ c \in executed[p]
    BY DatesMoveByCommit
  <2>2. PICK r \in Runs : row[r] = "open" /\ by[r] = p /\ of[r] = c
    BY <2>1 DEF IInv, Backed
  <2> QED
    BY <2>1, <2>2 DEF Commit, EndRows
<1> QED
  BY <1>1, SchedulerInvariant, PTL DEF Spec, NoneSkipped
-----------------------------------------------------------------------------
(* Limiter: one more request.                                              *)

\* A set with at most one more element has at most one more.
LEMMA OneMore ==
  ASSUME NEW S, NEW T, IsFiniteSet(S), \A x, y \in T \ S : x = y
  PROVE  IsFiniteSet(T) /\ Cardinality(T) <= Cardinality(S) + 1
<1>1. Cardinality(S) \in Nat
  BY FS_CardinalityType
<1>2. CASE T \subseteq S
  BY <1>1, <1>2, FS_Subset, FS_CardinalityType
<1>3. ASSUME NEW x \in T \ S
      PROVE  IsFiniteSet(T) /\ Cardinality(T) <= Cardinality(S) + 1
  <2>1. T \in SUBSET (S \union {x})
    OBVIOUS
  <2>2. IsFiniteSet(S \union {x}) /\ Cardinality(S \union {x}) = Cardinality(S) + 1
    BY FS_AddElement
  <2> QED
    BY <2>1, <2>2, FS_Subset
<1> QED
  BY <1>2, <1>3

\* A subset has at most as many elements, and any bound of the whole.
LEMMA Fewer ==
  ASSUME NEW S, NEW T, IsFiniteSet(S), T \subseteq S,
         NEW b \in Int, Cardinality(S) <= b
  PROVE  IsFiniteSet(T) /\ Cardinality(T) <= b
BY FS_Subset, FS_CardinalityType

\* ZADD of a new member: all there was and one request of that time, which is
\* the only new one; no request of the time leaves the set without one.
LEMMA AddedRequest ==
  ASSUME NEW S, NEW t \in 1..Ticks
  PROVE  /\ S \subseteq Added(S, t)
         /\ \A r \in Added(S, t) \ S :
              /\ r \in Request /\ r.at = t
              /\ \A n \in 1..r.no - 1 : [at |-> t, no |-> n] \in S
         /\ \A r, q \in Added(S, t) \ S : r = q
         /\ \E r \in Added(S, t) : r.at = t
<1>1. ASSUME NEW r \in Added(S, t) \ S
      PROVE  /\ r \in Request /\ r.at = t
             /\ \A n \in 1..r.no - 1 : [at |-> t, no |-> n] \in S
  <2>1. /\ r \in Request /\ r.at = t
        /\ \A n \in 1..r.no - 1 : [r EXCEPT !.no = n] \in S
    BY <1>1 DEF Added
  <2>2. \A n : [r EXCEPT !.no = n] = [at |-> t, no |-> n]
    BY <2>1 DEF Request
  <2> QED
    BY <2>1, <2>2
<1>2. ASSUME NEW r \in Added(S, t) \ S, NEW q \in Added(S, t) \ S
      PROVE  r = q
  <2>1. /\ r.no \in Nat \ {0} /\ q.no \in Nat \ {0}
        /\ r = [at |-> t, no |-> r.no] /\ q = [at |-> t, no |-> q.no]
    BY <1>1, LimitAssumption DEF Request
  <2>2. ~(r.no < q.no)
    <3> SUFFICES ASSUME r.no < q.no PROVE FALSE
      OBVIOUS
    <3>1. r.no \in 1..q.no - 1
      BY <2>1
    <3> QED
      BY <3>1, <2>1, <1>1
  <2>3. ~(q.no < r.no)
    <3> SUFFICES ASSUME q.no < r.no PROVE FALSE
      OBVIOUS
    <3>1. q.no \in 1..r.no - 1
      BY <2>1
    <3> QED
      BY <3>1, <2>1, <1>1
  <2>4. r.no = q.no
    BY <2>1, <2>2, <2>3
  <2> QED
    BY <2>1, <2>4
<1>3. \E r \in Added(S, t) : r.at = t
  <2> DEFINE r == [at |-> t, no |-> 1]
  <2>1. r \in Request /\ r.at = t /\ r.no = 1
    BY LimitAssumption DEF Request
  <2>2. \A n \in 1..r.no - 1 : [r EXCEPT !.no = n] \in S
    BY <2>1
  <2> HIDE DEF r
  <2>3. r \in Added(S, t)
    BY <2>1, <2>2 DEF Added
  <2> QED
    BY <2>1, <2>3
<1>4. S \subseteq Added(S, t)
  BY DEF Added
<1> QED
  BY <1>1, <1>2, <1>3, <1>4

\* The requests that have passed can be among the members of the sorted set,
\* and stay so when both get one more.
LEMMA AddedBelow ==
  ASSUME NEW S, NEW L, NEW t \in 1..Ticks,
         \A r \in S : r.at = t => r \in L
  PROVE  \A r \in Added(S, t) : r.at = t => r \in Added(L, t)
<1> SUFFICES ASSUME NEW r \in Added(S, t), r.at = t, r \notin L
             PROVE  r \in Added(L, t)
  BY DEF Added
<1>1. /\ r \in Request
      /\ \A n \in 1..r.no - 1 : [r EXCEPT !.no = n] \in S
  BY DEF Added
<1>2. \A n \in 1..r.no - 1 : [r EXCEPT !.no = n].at = t
  BY <1>1 DEF Request
<1>3. \A n \in 1..r.no - 1 : [r EXCEPT !.no = n] \in L
  BY <1>1, <1>2
<1> QED
  BY <1>1, <1>3 DEF Added

-----------------------------------------------------------------------------
(* Limiter: the windows in Redis.                                          *)

RedisSpec == InitLimiter /\ [][NextFixed \/ NextSliding]_limiterVars

Covers(r, t) == r.at <= t /\ r.at + Span > t

LimiterTypes ==
  /\ scripted \in BOOLEAN /\ excused \in BOOLEAN
  /\ time \in 1..Ticks
  /\ asking \in [Clients -> 0..Ticks] /\ \A c \in Clients : asking[c] <= time
  /\ counted \subseteq Clients /\ \A c \in counted : asking[c] # 0
  /\ log \subseteq Request /\ IsFiniteSet(log)
  /\ passed \subseteq Request /\ IsFiniteSet(passed)
  /\ \A r \in log \union passed : r.at <= time

\* Times that a request asks with, or may yet ask with.
Askable(n) == n >= time \/ \E c \in Clients : asking[c] = n

\* Nobody who asks with the time n is going to pass without an excuse, ...
Late(n) == Overtaken(n) \/ \E c \in counted : asking[c] > n

\* ... or the sorted set has all that n has to know of those who passed.
UpToDate(n) == \A r \in passed : r.at <= n /\ (r.at + Span > n => r \in log)

AskersKnow == \A n \in 1..Ticks : Askable(n) => Late(n) \/ UpToDate(n)

\* The sorted set itself has no window with too many.
LogWithin ==
  \A t \in 1..Ticks : Cardinality({r \in log : Covers(r, t)}) <= Limit

\* Between the count and the addition nothing changes what was counted.
OneCounted ==
  \A c \in counted :
    /\ counted = {c} /\ ~scripted
    /\ ~Overtaken(asking[c])
    /\ Cardinality(log) < Limit
    /\ \A r \in log : r.at + Span > asking[c]

PassedWithin == \A t \in 1..Ticks : Cardinality(Window(t)) <= Limit

Clean == AskersKnow /\ LogWithin /\ OneCounted /\ PassedWithin

SlidingInv == LimiterTypes /\ memory.start = 0 /\ (excused \/ Clean)

LEMMA InitSliding == InitLimiter => SlidingInv
<1> SUFFICES ASSUME InitLimiter PROVE SlidingInv
  OBVIOUS
<1>1. /\ log = {} /\ passed = {} /\ counted = {} /\ memory.start = 0
      /\ IsFiniteSet({}) /\ Cardinality({}) = 0
  BY FS_EmptySet DEF InitLimiter
<1>2. LimiterTypes
  <2>1. time \in 1..Ticks /\ 0 \in 0..Ticks /\ 0 <= time
    BY TicksAssumption DEF InitLimiter
  <2>2. asking \in [Clients -> 0..Ticks] /\ \A c \in Clients : asking[c] = 0
    BY <2>1 DEF InitLimiter
  <2> QED
    BY <1>1, <2>1, <2>2 DEF InitLimiter, LimiterTypes
<1>3. \A t \in 1..Ticks : Window(t) = {} /\ {r \in log : Covers(r, t)} = {}
  BY <1>1 DEF Window
<1>4. AskersKnow
  BY <1>1 DEF AskersKnow, UpToDate
<1>5. LogWithin /\ PassedWithin
  BY <1>1, <1>3, LimitAssumption DEF LogWithin, PassedWithin
<1>6. OneCounted
  BY <1>1 DEF OneCounted
<1> QED
  BY <1>1, <1>2, <1>4, <1>5, <1>6 DEF SlidingInv, Clean

LEMMA TypesOfAdded ==
  ASSUME NEW S, S \subseteq Request, IsFiniteSet(S), NEW t \in 1..Ticks,
         NEW u \in Int, t <= u, \A r \in S : r.at <= u
  PROVE  /\ Added(S, t) \subseteq Request /\ IsFiniteSet(Added(S, t))
         /\ \A r \in Added(S, t) : r.at <= u
<1>1. \A r \in Added(S, t) \ S : r \in Request /\ r.at = t
  BY AddedRequest
<1>2. IsFiniteSet(Added(S, t))
  BY AddedRequest, OneMore
<1> QED
  BY <1>1, <1>2

LEMMA TypesOfKept ==
  ASSUME LimiterTypes, NEW now
  PROVE  Kept(now) \subseteq log /\ IsFiniteSet(Kept(now))
<1>1. Kept(now) \subseteq log
  BY DEF Kept
<1> QED
  BY <1>1, FS_Subset DEF LimiterTypes

LEMMA SlidingTypes ==
  ASSUME LimiterTypes, NextSliding
  PROVE  LimiterTypes' /\ UNCHANGED <<scripted, memory>> /\ (excused => excused')
<1>1. CASE TimePasses
  BY <1>1, TicksAssumption
  DEF LimiterTypes, Request, TimePasses, fixedVars
<1>2. ASSUME NEW c \in Clients, AskWindow(c)
      PROVE  LimiterTypes' /\ UNCHANGED <<scripted, memory, excused>>
  BY <1>2 DEF LimiterTypes, AskWindow, fixedVars
\* What the answer to a request changes of it.
<1>3. ASSUME NEW c \in Clients, Answered(c)
      PROVE  /\ asking' \in [Clients -> 0..Ticks] /\ counted' \subseteq Clients
             /\ \A d \in counted' : asking'[d] # 0
             /\ time' = time => \A d \in Clients : asking'[d] <= time'
  <2>1. /\ asking' = [asking EXCEPT ![c] = 0] /\ counted' = counted \ {c}
        /\ asking \in [Clients -> 0..Ticks] /\ counted \subseteq Clients
        /\ time \in 1..Ticks /\ 0 \in 0..Ticks
    BY <1>3, TicksAssumption DEF LimiterTypes, Answered
  <2>2. \A d \in Clients : asking'[d] = IF d = c THEN 0 ELSE asking[d]
    BY <2>1
  <2>3. asking' \in [Clients -> 0..Ticks]
    BY <2>1
  <2> QED
    BY <2>1, <2>2, <2>3 DEF LimiterTypes
<1>4. ASSUME NEW c \in Clients, asking[c] # 0
      PROVE  asking[c] \in 1..Ticks /\ asking[c] <= time
  BY <1>4 DEF LimiterTypes
<1>5. /\ time \in Int /\ \A r \in log : r.at <= time
      /\ \A r \in passed : r.at <= time
      /\ \A now : Kept(now) \subseteq log /\ IsFiniteSet(Kept(now))
      /\ log \subseteq Request /\ passed \subseteq Request
      /\ IsFiniteSet(log) /\ IsFiniteSet(passed)
  BY TypesOfKept DEF LimiterTypes
<1>6. ASSUME NEW c \in Clients, asking[c] # 0
      PROVE  /\ Added(Kept(asking[c]), asking[c]) \subseteq Request
             /\ IsFiniteSet(Added(Kept(asking[c]), asking[c]))
             /\ \A r \in Added(Kept(asking[c]), asking[c]) : r.at <= time
             /\ Added(log, asking[c]) \subseteq Request
             /\ IsFiniteSet(Added(log, asking[c]))
             /\ \A r \in Added(log, asking[c]) : r.at <= time
             /\ Added(passed, asking[c]) \subseteq Request
             /\ IsFiniteSet(Added(passed, asking[c]))
             /\ \A r \in Added(passed, asking[c]) : r.at <= time
  <2>1. asking[c] \in 1..Ticks /\ asking[c] <= time
    BY <1>4, <1>6
  <2>2. ASSUME NEW S, S \subseteq Request, IsFiniteSet(S), \A r \in S : r.at <= time
        PROVE  /\ Added(S, asking[c]) \subseteq Request
               /\ IsFiniteSet(Added(S, asking[c]))
               /\ \A r \in Added(S, asking[c]) : r.at <= time
    BY <2>1, <2>2, <1>5, TypesOfAdded
  <2>3. /\ Kept(asking[c]) \subseteq Request /\ IsFiniteSet(Kept(asking[c]))
        /\ \A r \in Kept(asking[c]) : r.at <= time
    BY <1>5
  <2> QED
    BY <2>2, <2>3, <1>5
<1>7. ASSUME NEW c \in Clients, CheckWindow(c)
      PROVE  LimiterTypes' /\ UNCHANGED <<scripted, memory>> /\ (excused => excused')
  <2>1. asking[c] # 0 /\ Answered(c) /\ time' = time /\ UNCHANGED fixedVars
    BY <1>7 DEF CheckWindow
  <2>2. /\ log' = Added(Kept(asking[c]), asking[c]) \/ log' = Kept(asking[c])
        /\ passed' = Added(passed, asking[c]) \/ passed' = passed
    BY <1>7 DEF CheckWindow, Passes
  <2>3. /\ log' \subseteq Request /\ IsFiniteSet(log')
        /\ passed' \subseteq Request /\ IsFiniteSet(passed')
        /\ \A r \in log' \union passed' : r.at <= time
    BY <2>1, <2>2, <1>5, <1>6
  <2>4. scripted' \in BOOLEAN /\ excused' \in BOOLEAN
    BY <1>7 DEF CheckWindow, fixedVars, LimiterTypes
  <2> QED
    BY <2>1, <2>3, <2>4, <1>3, <1>7 DEF LimiterTypes, CheckWindow, fixedVars
<1>8. ASSUME NEW c \in Clients, CountWindow(c)
      PROVE  LimiterTypes' /\ UNCHANGED <<scripted, memory>> /\ (excused => excused')
  <2>1. log' = Kept(asking[c]) /\ passed' = passed /\ time' = time /\ UNCHANGED fixedVars
    BY <1>8 DEF CountWindow
  <2>2. /\ asking' \in [Clients -> 0..Ticks] /\ counted' \subseteq Clients
        /\ \A d \in Clients : asking'[d] <= time'
        /\ \A d \in counted' : asking'[d] # 0
    <3>1. CASE Answered(c)
      BY <3>1, <2>1, <1>3
    <3>2. CASE counted' = counted \union {c} /\ UNCHANGED asking
      BY <3>2, <2>1, <1>8 DEF LimiterTypes, CountWindow
    <3> QED
      BY <3>1, <3>2, <1>8 DEF CountWindow
  <2>3. /\ log' \subseteq Request /\ IsFiniteSet(log')
        /\ \A r \in log' \union passed' : r.at <= time
    BY <2>1, <1>5
  <2>4. scripted' \in BOOLEAN /\ excused' \in BOOLEAN
    BY <1>8 DEF CountWindow, fixedVars, LimiterTypes
  <2> QED
    BY <2>1, <2>2, <2>3, <2>4, <1>5, <1>8 DEF LimiterTypes, CountWindow, fixedVars
<1>9. ASSUME NEW c \in Clients, AddToWindow(c)
      PROVE  LimiterTypes' /\ UNCHANGED <<scripted, memory, excused>>
  <2>1. /\ log' = Added(log, asking[c]) /\ Answered(c) /\ time' = time
        /\ asking[c] # 0
        /\ passed' = Added(passed, asking[c]) \/ passed' = passed
        /\ UNCHANGED <<fixedVars, excused, memory>>
    BY <1>9 DEF AddToWindow, Passes, LimiterTypes
  <2>2. /\ log' \subseteq Request /\ IsFiniteSet(log')
        /\ passed' \subseteq Request /\ IsFiniteSet(passed')
        /\ \A r \in log' \union passed' : r.at <= time
    BY <2>1, <1>5, <1>6, <1>9
  <2> QED
    BY <2>1, <2>2, <1>3 DEF LimiterTypes, fixedVars
<1>10. ASSUME NEW c \in Clients, PassUnchecked(c)
       PROVE  LimiterTypes' /\ UNCHANGED <<scripted, memory>> /\ (excused => excused')
  <2>1. /\ passed' = Added(passed, asking[c]) /\ Answered(c) /\ asking[c] # 0
        /\ excused' = TRUE /\ UNCHANGED <<fixedVars, time, log, memory>>
    BY <1>10 DEF PassUnchecked
  <2>2. /\ passed' \subseteq Request /\ IsFiniteSet(passed')
        /\ \A r \in passed' : r.at <= time
    BY <2>1, <1>6
  <2> QED
    BY <2>1, <2>2, <1>3 DEF LimiterTypes, fixedVars
<1>11. CASE ReadUsage
  <2>1. /\ log' = Kept(time) /\ excused' \in BOOLEAN /\ (excused => excused')
        /\ UNCHANGED <<fixedVars, time, asking, counted, passed, memory>>
    BY <1>11 DEF ReadUsage, LimiterTypes
  <2> QED
    BY <2>1, <1>5 DEF LimiterTypes, fixedVars
<1>12. CASE ResetCounter
  BY <1>12, FS_EmptySet DEF LimiterTypes, ResetCounter, fixedVars
<1> QED
  BY <1>1, <1>2, <1>7, <1>8, <1>9, <1>10, <1>11, <1>12 DEF NextSliding

\* A request is let in while the sorted set shows room: what it sees is all
\* that has passed in its window, so that no window becomes too full.
LEMMA LetIn ==
  ASSUME LimiterTypes, LimiterTypes', PassedWithin, NEW now \in 1..Ticks,
         NEW kept, kept \subseteq Request, IsFiniteSet(kept),
         Cardinality(kept) < Limit,
         \A r \in kept : r.at <= now /\ r.at + Span > now,
         \A r \in passed : r.at <= now /\ (r.at + Span > now => r \in kept),
         log' = Added(kept, now), Passes(now), counted' = {}
  PROVE  Clean'
<1>1. Span \in Nat \ {0} /\ Limit \in Nat \ {0} /\ Ticks \in Nat \ {0}
  BY SpanAssumption, LimitAssumption, TicksAssumption
<1>2. \A r \in kept \union passed : r.at \in Int
  BY DEF Request, LimiterTypes
<1>3. /\ kept \subseteq log' /\ \A r \in log' \ kept : r.at = now
      /\ \E r \in log' : r.at = now
  BY AddedRequest
<1>4. IsFiniteSet(log') /\ Cardinality(log') \in Nat /\ Cardinality(log') <= Limit
  <2>1. IsFiniteSet(log') /\ Cardinality(log') <= Cardinality(kept) + 1
    BY AddedRequest, OneMore
  <2> QED
    BY <2>1, <1>1, FS_CardinalityType
<1>5. ASSUME NEW T, T \subseteq log' PROVE Cardinality(T) <= Limit
  <2>1. PICK L : L = log'
    OBVIOUS
  <2>2. IsFiniteSet(L) /\ T \subseteq L
    BY <1>4, <1>5, <2>1
  <2>3. Cardinality(T) <= Cardinality(L) /\ IsFiniteSet(T)
    BY <2>2, FS_Subset
  <2>4. Cardinality(T) \in Nat /\ Cardinality(L) \in Nat
    BY <2>2, <2>3, FS_CardinalityType
  <2>5. Cardinality(L) <= Limit /\ Limit \in Nat
    BY <1>1, <1>4, <2>1
  <2> QED
    BY <2>3, <2>4, <2>5
<1>6. \A r \in log' : r.at <= now /\ r.at + Span > now
  BY <1>1, <1>2, <1>3
<1>7. \A r \in passed' : r.at \in Int /\ r.at <= now /\ (r.at + Span > now => r \in log')
  <2>1. CASE passed' = passed
    BY <2>1, <1>2, <1>3
  <2>2. CASE passed' = Added(passed, now)
    <3>1. \A r \in passed' \ passed : r.at = now
      BY <2>2, AddedRequest
    <3>2. \A r \in passed : r.at = now => r \in kept
      BY <1>1
    <3>3. \A r \in passed' : r.at = now => r \in log'
      BY <2>2, <3>2, AddedBelow
    <3> QED
      BY <1>1, <1>2, <1>3, <3>1, <3>3
  <2> QED
    BY <2>1, <2>2 DEF Passes
<1>8. AskersKnow'
  <2> SUFFICES ASSUME NEW n \in 1..Ticks, ~Overtaken(n)'
               PROVE  UpToDate(n)'
    BY DEF AskersKnow, Late
  <2>1. now <= n
    BY <1>3 DEF Overtaken
  <2> QED
    BY <2>1, <1>1, <1>7 DEF UpToDate
<1>9. LogWithin'
  <2> SUFFICES ASSUME NEW t \in 1..Ticks
               PROVE  Cardinality({r \in log' : Covers(r, t)}) <= Limit
    BY DEF LogWithin
  <2>1. {r \in log' : Covers(r, t)} \subseteq log'
    OBVIOUS
  <2> QED
    BY <2>1, <1>5
<1>10. PassedWithin'
  <2> SUFFICES ASSUME NEW t \in 1..Ticks
               PROVE  Cardinality(Window(t)') <= Limit
    BY DEF PassedWithin
  <2>1. CASE now <= t /\ t < now + Span
    <3>1. Window(t)' \subseteq log'
      BY <2>1, <1>1, <1>7 DEF Window
    <3> QED
      BY <3>1, <1>5
  <2>2. CASE ~(now <= t /\ t < now + Span)
    <3>1. passed \subseteq passed' /\ \A r \in passed' \ passed : r.at = now
      BY AddedRequest DEF Passes
    <3>2. Window(t)' = Window(t)
      BY <2>2, <3>1, <1>1 DEF Window
    <3> QED
      BY <3>2 DEF PassedWithin
  <2> QED
    BY <2>1, <2>2
<1>11. OneCounted'
  BY DEF OneCounted
<1> QED
  BY <1>8, <1>9, <1>10, <1>11 DEF Clean

\* A request looks at its window, and adds nothing or not yet: what it removes
\* nobody else has to know of.
LEMMA Looked ==
  ASSUME LimiterTypes, LimiterTypes', Clean, NEW c \in Clients, asking[c] # 0,
         counted = {}, ~Overtaken(asking[c]),
         log' = Kept(asking[c]), UNCHANGED <<scripted, time, passed>>,
         \/ ~Room(Kept(asking[c])) /\ Answered(c)
         \/ /\ Room(Kept(asking[c])) /\ ~scripted
            /\ counted' = counted \union {c} /\ UNCHANGED asking
  PROVE  Clean'
<1> DEFINE now == asking[c]
<1>1. Span \in Nat \ {0} /\ Limit \in Nat \ {0} /\ Ticks \in Nat \ {0}
  BY SpanAssumption, LimitAssumption, TicksAssumption
<1>2. now \in 1..Ticks /\ now <= time /\ time \in Int
  BY DEF LimiterTypes
<1>3. /\ \A r \in log : r.at \in Int /\ r.at <= now
      /\ \A r \in passed : r.at \in Int
  BY <1>2 DEF Request, LimiterTypes, Overtaken
<1>4. log' = {r \in log : r.at + Span > now}
  BY <1>1, <1>2, <1>3 DEF Kept, Outside
<1>5. UpToDate(now)
  BY <1>2 DEF Clean, AskersKnow, Askable, Late
<1>6. \A n \in 1..Ticks : Askable(n)' => Askable(n)
  BY DEF Askable, Answered, LimiterTypes
<1>7. IsFiniteSet(log') /\ Cardinality(log') \in Nat
  BY FS_CardinalityType DEF LimiterTypes
<1> HIDE DEF now
<1>8. ASSUME NEW n \in 1..Ticks, now <= n
      PROVE  UpToDate(n)'
  BY <1>1, <1>2, <1>3, <1>4, <1>5, <1>8 DEF UpToDate
<1>9. ASSUME NEW n \in 1..Ticks, n < now, Askable(n), ~Room(Kept(now)),
             \A r \in log' : r.at <= n
      PROVE  UpToDate(n)'
  <2>1. Cardinality(log') >= Limit
    BY <1>1, <1>7, <1>9 DEF Room, now
  <2>2. PICK k \in log' : TRUE
    BY <2>1, <1>1, FS_EmptySet
  <2>3. ~Overtaken(n)
    BY <2>2, <1>1, <1>2, <1>3, <1>4, <1>9 DEF Overtaken
  <2>4. UpToDate(n)
    BY <2>3, <1>9 DEF Clean, AskersKnow, Late
  <2> SUFFICES ASSUME NEW r \in passed, r.at + Span > n, r \notin log'
               PROVE  FALSE
    BY <2>4 DEF UpToDate
  <2>5. r \in log /\ r.at <= n
    BY <2>4 DEF UpToDate
  <2> DEFINE all == {q \in log : Covers(q, n)}
  <2>6. all \in SUBSET log
    OBVIOUS
  <2>7. IsFiniteSet(all) /\ Cardinality(all) \in Nat /\ Cardinality(all) <= Limit
    BY <2>6, FS_Subset, FS_CardinalityType DEF Clean, LogWithin, LimiterTypes
  <2>8. log' \union {r} \subseteq all
    BY <2>5, <1>1, <1>2, <1>3, <1>4, <1>9 DEF Covers
  <2>9. Cardinality(log' \union {r}) = Cardinality(log') + 1
    BY <1>7, FS_AddElement
  <2> HIDE DEF all
  <2>10. Cardinality(log' \union {r}) <= Limit
    BY <2>7, <2>8, <1>1, FS_Subset, FS_CardinalityType
  <2> QED
    BY <2>1, <2>9, <2>10, <1>1, <1>7
<1>10. AskersKnow'
  <2> SUFFICES ASSUME NEW n \in 1..Ticks, Askable(n)', ~Late(n)'
               PROVE  UpToDate(n)'
    BY DEF AskersKnow
  <2>1. \A r \in log' : r.at <= n
    BY <1>3, <1>4 DEF Late, Overtaken
  <2>2. CASE now <= n
    BY <2>2, <1>8
  <2>3. CASE n < now /\ ~Room(Kept(now))
    BY <2>1, <2>3, <1>6, <1>9
  <2>4. CASE n < now /\ Room(Kept(now))
    <3>1. c \in counted' /\ asking'[c] > n
      BY <2>4, <1>2 DEF now
    <3> QED
      BY <3>1 DEF Late
  <2> QED
    BY <2>2, <2>3, <2>4, <1>2
<1>11. LogWithin'
  <2> SUFFICES ASSUME NEW t \in 1..Ticks
               PROVE  Cardinality({r \in log' : Covers(r, t)}) <= Limit
    BY DEF LogWithin
  <2>1. {r \in log' : Covers(r, t)} \subseteq {r \in log : Covers(r, t)}
    BY <1>4
  <2>2. {r \in log : Covers(r, t)} \in SUBSET log
    OBVIOUS
  <2>3. IsFiniteSet({r \in log : Covers(r, t)})
    BY <2>2, FS_Subset DEF LimiterTypes
  <2>4. Cardinality({r \in log : Covers(r, t)}) <= Limit
    BY DEF Clean, LogWithin
  <2> QED
    BY <2>1, <2>3, <2>4, <1>1, Fewer
<1>12. PassedWithin'
  BY DEF Clean, PassedWithin, Window
<1>13. OneCounted'
  <2>1. CASE Answered(c)
    BY <2>1 DEF OneCounted, Answered
  <2>2. CASE /\ Room(Kept(now)) /\ ~scripted
             /\ counted' = counted \union {c} /\ UNCHANGED asking
    <3>1. counted' = {c} /\ asking'[c] = now /\ ~scripted'
      BY <2>2 DEF now
    <3>2. Cardinality(log') < Limit /\ \A r \in log' : r.at <= now
      BY <2>2, <1>3, <1>4 DEF Room, now
    <3>3. \A r \in log' : r.at + Span > now
      BY <1>4
    <3>4. ~\E r \in log' : r.at > now
      BY <3>2, <1>2, <1>3, <1>4
    <3> QED
      BY <3>1, <3>2, <3>3, <3>4 DEF OneCounted, Overtaken
  <2> QED
    BY <2>1, <2>2 DEF now
<1> QED
  BY <1>10, <1>11, <1>12, <1>13 DEF Clean

\* Steps that leave the requests and what they left behind alone.
LEMMA SameWindows ==
  ASSUME LimiterTypes, LimiterTypes', Clean, time' >= time, time' \in Int,
         UNCHANGED <<scripted, log, passed, counted>>,
         \A c \in counted : asking'[c] = asking[c],
         \A n \in 1..Ticks : Askable(n)' => Askable(n)
  PROVE  Clean'
<1>1. \A n \in 1..Ticks : Late(n) => Late(n)'
  BY DEF Late, Overtaken
<1>2. \A n \in 1..Ticks : UpToDate(n) => UpToDate(n)'
  BY DEF UpToDate
<1>3. AskersKnow'
  BY <1>1, <1>2 DEF Clean, AskersKnow
<1>4. OneCounted'
  BY DEF Clean, OneCounted, Overtaken
<1>5. LogWithin' /\ PassedWithin'
  BY DEF Clean, LogWithin, PassedWithin, Window
<1> QED
  BY <1>3, <1>4, <1>5 DEF Clean

\* The endpoint that reads the usage removes nothing that a request misses.
LEMMA UsageRead ==
  ASSUME LimiterTypes, LimiterTypes', Clean, ReadUsage, ~excused'
  PROVE  Clean'
<1>1. Span \in Nat \ {0} /\ Limit \in Nat \ {0} /\ Ticks \in Nat \ {0}
  BY SpanAssumption, LimitAssumption, TicksAssumption
<1>2. /\ UNCHANGED <<scripted, time, asking, counted, passed>>
      /\ log' = Kept(time) /\ time \in Int
      /\ \A r \in log \union passed : r.at \in Int /\ r.at <= time
  BY DEF ReadUsage, fixedVars, LimiterTypes, Request
<1>3. log' = {r \in log : r.at + Span > time}
  BY <1>1, <1>2 DEF Kept, Outside
<1>4. CASE log' = log
  BY <1>2, <1>4, SameWindows DEF Askable
<1>5. CASE log' # log
  <2>1. \A c \in Clients : asking[c] \notin 1..time - 1
    BY <1>5 DEF ReadUsage
  <2>2. \A n \in 1..Ticks : Askable(n) => n >= time
    BY <2>1, <1>2 DEF Askable, LimiterTypes
  <2>3. AskersKnow'
    <3> SUFFICES ASSUME NEW n \in 1..Ticks, Askable(n)'
                 PROVE  UpToDate(n)'
      BY DEF AskersKnow
    <3>1. Askable(n) /\ n >= time
      BY <2>2, <1>2 DEF Askable
    <3>2. ~Late(n)
      BY <3>1, <1>2 DEF Late, Overtaken, LimiterTypes
    <3>3. UpToDate(n)
      BY <3>1, <3>2 DEF Clean, AskersKnow
    <3> QED
      BY <3>1, <3>3, <1>1, <1>2, <1>3 DEF UpToDate
  <2>4. LogWithin'
    <3> SUFFICES ASSUME NEW t \in 1..Ticks
                 PROVE  Cardinality({r \in log' : Covers(r, t)}) <= Limit
      BY DEF LogWithin
    <3>1. {r \in log' : Covers(r, t)} \subseteq {r \in log : Covers(r, t)}
      BY <1>3
    <3>2. {r \in log : Covers(r, t)} \in SUBSET log
      OBVIOUS
    <3>3. IsFiniteSet({r \in log : Covers(r, t)})
      BY <3>2, FS_Subset DEF LimiterTypes
    <3>4. Cardinality({r \in log : Covers(r, t)}) <= Limit
      BY DEF Clean, LogWithin
    <3> QED
      BY <3>1, <3>3, <3>4, <1>1, Fewer
  <2>5. OneCounted'
    <3>1. log' \in SUBSET log /\ Cardinality(log') \in Nat /\ Cardinality(log) \in Nat
      BY <1>3, FS_CardinalityType DEF LimiterTypes
    <3>2. Cardinality(log') <= Cardinality(log)
      BY <3>1, FS_Subset DEF LimiterTypes
    <3> QED
      BY <3>1, <3>2, <1>1, <1>2 DEF Clean, OneCounted, Overtaken
  <2>6. PassedWithin'
    BY <1>2 DEF Clean, PassedWithin, Window
  <2> QED
    BY <2>3, <2>4, <2>5, <2>6 DEF Clean
<1> QED
  BY <1>4, <1>5

LEMMA SlidingStep ==
  SlidingInv /\ [NextFixed \/ NextSliding]_limiterVars => SlidingInv'
<1> SUFFICES ASSUME SlidingInv, [NextFixed \/ NextSliding]_limiterVars
             PROVE  SlidingInv'
  OBVIOUS
<1>1. CASE NextFixed \/ UNCHANGED limiterVars
  <2>1. UNCHANGED <<scripted, slidingVars>>
    BY <1>1 DEF NextFixed, IncrementScripted, WindowEnds, ResetLimit, Increment,
                ExpireKey, LoseTtl, limiterVars, fixedVars
  <2> QED
    BY <2>1 DEF SlidingInv, LimiterTypes, Clean, AskersKnow, LogWithin, OneCounted,
                PassedWithin, Askable, Late, UpToDate, Overtaken, Window, slidingVars
<1>2. CASE NextSliding
  <2>1. LimiterTypes /\ LimiterTypes' /\ memory'.start = 0
    BY <1>2, SlidingTypes DEF SlidingInv
  <2> SUFFICES ASSUME ~excused' PROVE Clean'
    BY <2>1 DEF SlidingInv
  <2>2. Clean
    BY <1>2, SlidingTypes DEF SlidingInv
  <2>3. time \in Int /\ \A c \in Clients : asking[c] # 0 => asking[c] \in 1..Ticks
    BY <2>1 DEF LimiterTypes
  <2>4. CASE TimePasses
    <3>1. \A n \in 1..Ticks : Askable(n)' => Askable(n)
      BY <2>3, <2>4 DEF TimePasses, Askable
    <3> QED
      BY <2>1, <2>2, <2>3, <2>4, <3>1, SameWindows DEF TimePasses, fixedVars
  <2>5. ASSUME NEW c \in Clients, AskWindow(c)
        PROVE  Clean'
    <3>1. /\ UNCHANGED <<scripted, time, log, passed, counted>> /\ asking[c] = 0
          /\ \A d \in Clients : asking'[d] = IF d = c THEN time ELSE asking[d]
      BY <2>1, <2>5 DEF AskWindow, fixedVars, LimiterTypes
    <3>2. \A d \in counted : asking'[d] = asking[d]
      BY <2>1, <3>1 DEF LimiterTypes
    <3>3. \A n \in 1..Ticks : Askable(n)' => Askable(n)
      BY <2>3, <3>1 DEF Askable
    <3> QED
      BY <2>1, <2>2, <2>3, <3>1, <3>2, <3>3, SameWindows
  <2>6. ASSUME NEW c \in Clients, CheckWindow(c)
        PROVE  Clean'
    <3>1. /\ asking[c] # 0 /\ ~Overtaken(asking[c])
          /\ UNCHANGED <<scripted, time>> /\ Answered(c) /\ scripted
      BY <2>6 DEF CheckWindow, fixedVars
    <3>2. counted = {}
      BY <2>2, <3>1 DEF Clean, OneCounted
    <3>3. CASE Room(Kept(asking[c]))
      <4>1. asking[c] \in 1..Ticks /\ Askable(asking[c]) /\ ~Late(asking[c])
        BY <2>3, <3>1, <3>2 DEF Askable, Late
      <4>2. UpToDate(asking[c])
        BY <2>2, <4>1 DEF Clean, AskersKnow
      <4>3. \A r \in log \union passed : r.at \in Int
        BY <2>1 DEF LimiterTypes, Request
      <4>4. Kept(asking[c]) = {r \in log : r.at + Span > asking[c]}
        BY <4>1, <4>3, SpanAssumption DEF Kept, Outside
      <4>5. \A r \in Kept(asking[c]) : r.at <= asking[c] /\ r.at + Span > asking[c]
        BY <3>1, <4>1, <4>3, <4>4 DEF Overtaken
      <4>6. \A r \in passed : /\ r.at <= asking[c]
                              /\ r.at + Span > asking[c] => r \in Kept(asking[c])
        BY <4>2, <4>4 DEF UpToDate
      <4>7. /\ Kept(asking[c]) \subseteq Request /\ IsFiniteSet(Kept(asking[c]))
            /\ Cardinality(Kept(asking[c])) < Limit
        BY <2>1, <3>3, TypesOfKept DEF LimiterTypes, Room
      <4>8. /\ log' = Added(Kept(asking[c]), asking[c]) /\ Passes(asking[c])
            /\ counted' = {}
        BY <2>6, <3>1, <3>2, <3>3 DEF CheckWindow, Answered
      <4> QED
        BY <2>1, <2>2, <4>1, <4>5, <4>6, <4>7, <4>8, LetIn DEF Clean
    <3>4. CASE ~Room(Kept(asking[c]))
      <4>1. log' = Kept(asking[c]) /\ UNCHANGED passed
        BY <2>6, <3>4 DEF CheckWindow
      <4> QED
        BY <2>1, <2>2, <3>1, <3>2, <3>4, <4>1, Looked
    <3> QED
      BY <3>3, <3>4
  <2>7. ASSUME NEW c \in Clients, CountWindow(c)
        PROVE  Clean'
    <3>1. /\ asking[c] # 0 /\ ~Overtaken(asking[c]) /\ counted = {} /\ ~scripted
          /\ log' = Kept(asking[c]) /\ UNCHANGED <<scripted, time, passed>>
      BY <2>7 DEF CountWindow, fixedVars
    <3>2. \/ ~Room(Kept(asking[c])) /\ Answered(c)
          \/ /\ Room(Kept(asking[c])) /\ ~scripted
             /\ counted' = counted \union {c} /\ UNCHANGED asking
      BY <2>7, <3>1 DEF CountWindow
    <3> QED
      BY <2>1, <2>2, <3>1, <3>2, Looked
  <2>8. ASSUME NEW c \in Clients, AddToWindow(c)
        PROVE  Clean'
    <3>1. /\ counted = {c} /\ ~Overtaken(asking[c]) /\ Cardinality(log) < Limit
          /\ \A r \in log : r.at + Span > asking[c]
      BY <2>2, <2>8 DEF Clean, OneCounted, AddToWindow
    <3>2. asking[c] \in 1..Ticks /\ Askable(asking[c]) /\ ~Late(asking[c])
      BY <2>1, <2>3, <2>8, <3>1 DEF Askable, Late, AddToWindow, LimiterTypes
    <3>3. UpToDate(asking[c])
      BY <2>2, <3>2 DEF Clean, AskersKnow
    <3>4. \A r \in log : r.at \in Int /\ r.at <= asking[c]
      BY <2>1, <3>1, <3>2 DEF LimiterTypes, Request, Overtaken
    <3>5. /\ log' = Added(log, asking[c]) /\ Passes(asking[c]) /\ counted' = {}
          /\ log \subseteq Request /\ IsFiniteSet(log)
      BY <2>1, <2>8, <3>1 DEF AddToWindow, Answered, LimiterTypes
    <3> QED
      BY <2>1, <2>2, <3>1, <3>2, <3>3, <3>4, <3>5, LetIn DEF Clean, UpToDate
  <2>9. ASSUME NEW c \in Clients, PassUnchecked(c)
        PROVE  Clean'
    BY <2>9 DEF PassUnchecked
  <2>10. CASE ReadUsage
    BY <2>1, <2>2, <2>10, UsageRead
  <2>11. CASE ResetCounter
    <3>1. /\ log' = {} /\ passed' = {} /\ UNCHANGED <<scripted, asking, counted>>
          /\ Cardinality({}) = 0
      BY <2>11, FS_EmptySet DEF ResetCounter, fixedVars
    <3>2. \A t \in 1..Ticks : Window(t)' = {} /\ {r \in log' : Covers(r, t)} = {}
      BY <3>1 DEF Window
    <3>3. LogWithin' /\ PassedWithin'
      BY <3>1, <3>2, LimitAssumption DEF LogWithin, PassedWithin
    <3>4. AskersKnow' /\ OneCounted'
      BY <2>2, <3>1, LimitAssumption
      DEF Clean, AskersKnow, OneCounted, UpToDate, Overtaken
    <3> QED
      BY <3>3, <3>4 DEF Clean
  <2> QED
    BY <1>2, <2>4, <2>5, <2>6, <2>7, <2>8, <2>9, <2>10, <2>11 DEF NextSliding
<1> QED
  BY <1>1, <1>2

\* The windows in Redis, for any number of requests in progress, limit and
\* length: unless one is excused, no window lets more than the limit pass.
THEOREM SlidingWithin == RedisSpec => []WithinWindow
<1>1. SlidingInv => WithinWindow
  BY DEF SlidingInv, Clean, PassedWithin, WithinWindow
<1> QED
  BY <1>1, InitSliding, SlidingStep, PTL DEF RedisSpec

-----------------------------------------------------------------------------
(* Limiter: the window in memory.                                          *)

InMemorySpec == InitLimiter /\ [][NextInMemory]_limiterVars

Since(t) == {r \in passed : r.at >= t}
Before(t) == {r \in passed : r.at < t /\ r.at + Span >= t}

\* Neither the window nor the Span ticks before it, in which only the window
\* before it can have let requests pass, hold more than the limit.
MemoryInv ==
  /\ LimiterTypes /\ memory \in [start : 0..Ticks, count : Nat]
  /\ memory.start <= time
  /\ memory.start = 0 => passed = {}
  /\ memory.start # 0 =>
       /\ \A r \in passed : r.at < memory.start + Span
       /\ Cardinality(Since(memory.start)) <= memory.count
       /\ Cardinality(Since(memory.start)) <= Limit
       /\ Cardinality(Before(memory.start)) <= Limit
  /\ \A t \in 1..Ticks : Cardinality(Window(t)) <= 2 * Limit

LEMMA InitMemory == InitLimiter => MemoryInv
<1> SUFFICES ASSUME InitLimiter PROVE MemoryInv
  OBVIOUS
<1>1. LimiterTypes
  BY InitSliding DEF SlidingInv
<1>2. passed = {} /\ memory = [start |-> 0, count |-> 0] /\ time = 1
  BY DEF InitLimiter
<1>3. \A t \in 1..Ticks : Window(t) = {}
  BY <1>2 DEF Window
<1>4. Cardinality({}) = 0
  BY FS_EmptySet
<1> QED
  BY <1>1, <1>2, <1>3, <1>4, LimitAssumption, TicksAssumption DEF MemoryInv

\* A request that passes adds one, at the time it asks.
LEMMA PassedOne ==
  ASSUME LimiterTypes, passed' = Added(passed, time)
  PROVE  /\ passed \subseteq passed' /\ passed' \subseteq Request /\ IsFiniteSet(passed')
         /\ \A r \in passed' \ passed : r.at = time
         /\ \A r, q \in passed' \ passed : r = q
         /\ \A r \in passed' : r.at \in Int /\ r.at <= time
<1>1. time \in 1..Ticks
  BY DEF LimiterTypes
<1>2. /\ passed \subseteq passed' /\ \A r \in passed' \ passed : r \in Request /\ r.at = time
      /\ \A r, q \in passed' \ passed : r = q
  BY <1>1, AddedRequest
<1>3. IsFiniteSet(passed')
  BY <1>2, OneMore DEF LimiterTypes
<1> QED
  BY <1>1, <1>2, <1>3 DEF LimiterTypes, Request

\* The first request after the end of a window begins the next one.
LEMMA WindowBegins ==
  ASSUME MemoryInv, memory.start = 0 \/ time - memory.start >= Span,
         passed' = Added(passed, time), UNCHANGED <<fixedVars, time, asking, counted, log, excused>>,
         memory' = [start |-> time, count |-> 1]
  PROVE  MemoryInv'
<1>1. Span \in Nat \ {0} /\ Limit \in Nat \ {0} /\ Ticks \in Nat \ {0}
  BY SpanAssumption, LimitAssumption, TicksAssumption
<1>2. /\ time \in 1..Ticks /\ memory.start \in 0..Ticks /\ memory.start <= time
      /\ IsFiniteSet(passed) /\ \A r \in passed : r.at \in Int /\ r.at <= time
  BY DEF MemoryInv, LimiterTypes, Request
<1>3. /\ passed \subseteq passed' /\ passed' \subseteq Request /\ IsFiniteSet(passed')
      /\ \A r \in passed' \ passed : r.at = time
      /\ \A r, q \in passed' \ passed : r = q
      /\ \A r \in passed' : r.at \in Int /\ r.at <= time
  BY PassedOne DEF MemoryInv
<1>4. LimiterTypes'
  BY <1>3 DEF MemoryInv, LimiterTypes, fixedVars
\* What the Span ticks up to now may hold: requests of the window that ends.
<1>5. PICK last : /\ IsFiniteSet(last) /\ Cardinality(last) <= Limit
                  /\ last \subseteq passed
                  /\ \A r \in passed : r.at + Span >= time => r \in last
                  /\ \A r \in passed : r.at < time
  <2>1. CASE memory.start = 0
    <3>1. passed = {} /\ IsFiniteSet({}) /\ Cardinality({}) = 0
      BY <2>1, FS_EmptySet DEF MemoryInv
    <3> QED
      BY <3>1, <1>1
  <2>2. CASE memory.start # 0 /\ time - memory.start >= Span
    <3> DEFINE last == Since(memory.start)
    <3>1. last \in SUBSET passed
      BY DEF Since
    <3>2. IsFiniteSet(last) /\ Cardinality(last) <= Limit
      BY <2>2, <3>1, <1>2, FS_Subset DEF MemoryInv
    <3>3. \A r \in passed : r.at + Span >= time => r \in last
      BY <2>2, <1>1, <1>2 DEF Since
    <3>4. \A r \in passed : r.at < time
      BY <2>2, <1>1, <1>2 DEF MemoryInv
    <3> HIDE DEF last
    <3> QED
      BY <3>1, <3>2, <3>3, <3>4
  <2> QED
    BY <2>1, <2>2
<1>6. Cardinality(last) \in Nat
  BY <1>5, FS_CardinalityType
<1>7. Cardinality(Since(memory.start)') <= 1
  <2>1. \A x, y \in Since(memory.start)' \ {} : x = y
    BY <1>2, <1>3, <1>5 DEF Since
  <2>2. Cardinality(Since(memory.start)') <= Cardinality({}) + 1
    BY <2>1, OneMore, FS_EmptySet
  <2> QED
    BY <2>2, FS_EmptySet
<1>8. Cardinality(Before(memory.start)') <= Limit
  <2> DEFINE before == Before(memory.start)'
  <2>1. before \subseteq last
    BY <1>1, <1>2, <1>3, <1>5 DEF Before
  <2>2. IsFiniteSet(last) /\ Cardinality(last) <= Limit /\ Limit \in Int
    BY <1>1, <1>5
  <2> HIDE DEF before
  <2>3. Cardinality(before) <= Limit
    BY <2>1, <2>2, Fewer
  <2> QED
    BY <2>3 DEF before
<1>9. ASSUME NEW t \in 1..Ticks
      PROVE  Cardinality(Window(t)') <= 2 * Limit
  <2>1. CASE t < time
    <3>1. Window(t)' = Window(t)
      BY <2>1, <1>2, <1>3 DEF Window
    <3> QED
      BY <3>1 DEF MemoryInv
  <2>2. CASE time <= t
    <3>1. \A r \in Window(t)' \ last : r \in passed' \ passed
      BY <2>2, <1>1, <1>2, <1>3, <1>5 DEF Window
    <3>2. \A x, y \in Window(t)' \ last : x = y
      BY <3>1, <1>3
    <3>3. Cardinality(Window(t)') <= Cardinality(last) + 1 /\ IsFiniteSet(Window(t)')
      BY <3>2, <1>5, OneMore
    <3> QED
      BY <3>3, <1>1, <1>5, <1>6, FS_CardinalityType
  <2> QED
    BY <2>1, <2>2, <1>2
<1>10. \A r \in passed' : r.at < time + Span
  BY <1>1, <1>2, <1>3
<1>11. /\ memory' \in [start : 0..Ticks, count : Nat]
       /\ memory'.start = time /\ memory'.count = 1 /\ time # 0 /\ time' = time
  BY <1>2
<1>12. memory'.start <= time' /\ (memory'.start = 0 => passed' = {})
  BY <1>2, <1>11
<1>13. /\ \A r \in passed' : r.at < memory'.start + Span
       /\ Cardinality(Since(memory.start))' <= memory'.count
       /\ Cardinality(Since(memory.start))' <= Limit
       /\ Cardinality(Before(memory.start))' <= Limit
  <2>1. Cardinality(Since(memory.start)') \in Nat
    <3>1. Since(memory.start)' \in SUBSET passed'
      BY DEF Since
    <3> QED
      BY <3>1, <1>3, FS_Subset, FS_CardinalityType
  <2> QED
    BY <2>1, <1>1, <1>7, <1>8, <1>10, <1>11
<1> QED
  BY <1>4, <1>9, <1>11, <1>12, <1>13 DEF MemoryInv

\* A further request of the window passes while there is room.
LEMMA WindowGoesOn ==
  ASSUME MemoryInv, memory.start # 0, time - memory.start < Span,
         memory.count + 1 <= Limit,
         passed' = Added(passed, time), UNCHANGED <<fixedVars, time, asking, counted, log, excused>>,
         memory' = [start |-> memory.start, count |-> memory.count + 1]
  PROVE  MemoryInv'
<1>1. Span \in Nat \ {0} /\ Limit \in Nat \ {0} /\ Ticks \in Nat \ {0}
  BY SpanAssumption, LimitAssumption, TicksAssumption
<1>2. /\ time \in 1..Ticks /\ memory.start \in 0..Ticks /\ memory.start <= time
      /\ memory.count \in Nat
      /\ IsFiniteSet(passed) /\ \A r \in passed : r.at \in Int /\ r.at <= time
  BY DEF MemoryInv, LimiterTypes, Request
<1>3. /\ passed \subseteq passed' /\ passed' \subseteq Request /\ IsFiniteSet(passed')
      /\ \A r \in passed' \ passed : r.at = time
      /\ \A r, q \in passed' \ passed : r = q
      /\ \A r \in passed' : r.at \in Int /\ r.at <= time
  BY PassedOne DEF MemoryInv
<1>4. LimiterTypes'
  BY <1>3 DEF MemoryInv, LimiterTypes, fixedVars
<1> DEFINE old == Since(memory.start)
           now == Since(memory.start)'
           before == Before(memory.start)
<1>5. old \in SUBSET passed /\ before \in SUBSET passed
  BY DEF Since, Before
<1>6. /\ IsFiniteSet(old) /\ Cardinality(old) \in Nat
      /\ IsFiniteSet(before) /\ Cardinality(before) \in Nat
      /\ Cardinality(old) <= memory.count /\ Cardinality(before) <= Limit
  BY <1>2, <1>5, FS_Subset, FS_CardinalityType DEF MemoryInv
<1>7. /\ IsFiniteSet(now) /\ Cardinality(now) \in Nat
      /\ Cardinality(now) <= Cardinality(old) + 1
  <2>1. now \ old \subseteq passed' \ passed
    BY DEF Since
  <2>2. \A x, y \in now \ old : x = y
    BY <2>1, <1>3
  <2> QED
    BY <2>2, <1>6, OneMore, FS_CardinalityType
<1>8. before' = before
  BY <1>2, <1>3 DEF Before
<1>9. ASSUME NEW t \in 1..Ticks
      PROVE  Cardinality(Window(t)') <= 2 * Limit
  <2>1. CASE t < time
    <3>1. Window(t)' = Window(t)
      BY <2>1, <1>2, <1>3 DEF Window
    <3> QED
      BY <3>1 DEF MemoryInv
  <2>2. CASE time <= t
    <3>1. Window(t)' \subseteq now \union before
      BY <2>2, <1>1, <1>2, <1>3 DEF Window, Since, Before
    <3>2. /\ IsFiniteSet(now \union before)
          /\ Cardinality(now \union before) =
               Cardinality(now) + Cardinality(before) - Cardinality(now \cap before)
          /\ Cardinality(now \cap before) \in Nat
      <4> HIDE DEF now, before
      <4>1. IsFiniteSet(now \cap before)
        BY <1>6, <1>7, FS_Intersection
      <4> QED
        BY <4>1, <1>6, <1>7, FS_Union, FS_CardinalityType
    <3> HIDE DEF now, before, old
    <3>3. Cardinality(now \union before) <= 2 * Limit
      BY <3>2, <1>1, <1>2, <1>6, <1>7
    <3> DEFINE in == Window(t)'
               all == now \union before
               b == 2 * Limit
    <3>4. in \subseteq all /\ IsFiniteSet(all) /\ Cardinality(all) <= b /\ b \in Int
      BY <3>1, <3>2, <3>3, <1>1
    <3> HIDE DEF in, all, b
    <3>5. Cardinality(in) <= b
      BY <3>4, Fewer
    <3> QED
      BY <3>5 DEF in, b
  <2> QED
    BY <2>1, <2>2, <1>2
<1>10. \A r \in passed' : r.at < memory.start + Span
  BY <1>1, <1>2, <1>3 DEF MemoryInv
<1>11. /\ memory' \in [start : 0..Ticks, count : Nat]
       /\ memory'.start = memory.start /\ memory'.count = memory.count + 1
  BY <1>2
<1>12. Cardinality(Since(memory.start)') <= memory.count + 1
  BY <1>2, <1>6, <1>7
<1> HIDE DEF old, now
<1>13. memory'.start <= time' /\ (memory'.start = 0 => passed' = {})
  BY <1>2, <1>11
<1>14. /\ \A r \in passed' : r.at < memory'.start + Span
       /\ Cardinality(Since(memory.start))' <= memory'.count
       /\ Cardinality(Since(memory.start))' <= Limit
       /\ Cardinality(Before(memory.start))' <= Limit
  BY <1>1, <1>2, <1>6, <1>7, <1>8, <1>10, <1>11, <1>12 DEF now
<1> QED
  BY <1>4, <1>9, <1>11, <1>13, <1>14 DEF MemoryInv

LEMMA MemoryStep == MemoryInv /\ [NextInMemory]_limiterVars => MemoryInv'
<1> SUFFICES ASSUME MemoryInv, [NextInMemory]_limiterVars PROVE MemoryInv'
  OBVIOUS
<1>1. /\ Span \in Nat \ {0} /\ Limit \in Nat \ {0} /\ Ticks \in Nat \ {0}
      /\ time \in 1..Ticks
      /\ memory \in [start : 0..Ticks, count : Nat] /\ memory.start <= time
  BY SpanAssumption, LimitAssumption, TicksAssumption DEF MemoryInv, LimiterTypes
<1>2. CASE TimePasses
  <2>1. /\ time' \in 1..Ticks /\ time' >= time
        /\ UNCHANGED <<fixedVars, asking, counted, log, passed, excused, memory>>
    BY <1>1, <1>2 DEF TimePasses
  <2>2. LimiterTypes'
    BY <1>1, <2>1 DEF MemoryInv, LimiterTypes, fixedVars, Request
  <2> QED
    BY <1>1, <2>1, <2>2 DEF MemoryInv, Since, Before, Window
<1>3. CASE CheckAndIncrement
  <2>1. CASE memory.start = 0 \/ time - memory.start >= Span
    <3>1. /\ memory' = [start |-> time, count |-> 1] /\ passed' = Added(passed, time)
          /\ UNCHANGED <<fixedVars, time, asking, counted, log, excused>>
      BY <1>1, <1>3, <2>1 DEF CheckAndIncrement
    <3> QED
      BY <2>1, <3>1, WindowBegins
  <2>2. CASE memory.start # 0 /\ time - memory.start < Span
    <3>1. /\ memory' = [start |-> memory.start, count |-> AtMost(memory.count + 1)]
          /\ passed' = IF AtMost(memory.count + 1) <= Limit THEN Added(passed, time)
                       ELSE passed
          /\ UNCHANGED <<fixedVars, time, asking, counted, log, excused>>
      BY <1>1, <1>3, <2>2 DEF CheckAndIncrement
    <3>2. CASE memory.count + 1 <= Limit
      <4>1. AtMost(memory.count + 1) = memory.count + 1
        BY <3>2, <1>1 DEF AtMost
      <4> QED
        BY <2>2, <3>1, <3>2, <4>1, WindowGoesOn
    \* Refused: only the count goes on.
    <3>3. CASE ~(memory.count + 1 <= Limit)
      <4>1. AtMost(memory.count + 1) = Limit + 1
        BY <3>3, <1>1 DEF AtMost
      <4>2. passed' = passed /\ memory' = [start |-> memory.start, count |-> Limit + 1]
        BY <3>1, <4>1, <1>1
      <4>3. Since(memory.start)' = Since(memory.start) /\ Before(memory.start)' = Before(memory.start)
        BY <4>2 DEF Since, Before
      <4>4. Cardinality(Since(memory.start)) <= Limit + 1
        <5>1. Since(memory.start) \in SUBSET passed
          BY DEF Since
        <5>2. Cardinality(Since(memory.start)) \in Nat
          BY <5>1, FS_Subset, FS_CardinalityType DEF MemoryInv, LimiterTypes
        <5> QED
          BY <5>2, <1>1, <2>2 DEF MemoryInv
      <4>5. LimiterTypes'
        BY <3>1, <4>2 DEF MemoryInv, LimiterTypes, fixedVars
      <4> QED
        BY <1>1, <2>2, <3>1, <4>2, <4>3, <4>4, <4>5 DEF MemoryInv, Window
    <3> QED
      BY <3>2, <3>3
  <2> QED
    BY <1>1, <2>1, <2>2
<1>4. CASE UNCHANGED limiterVars
  BY <1>4 DEF MemoryInv, LimiterTypes, limiterVars, fixedVars, slidingVars, Since, Before, Window
<1> QED
  BY <1>2, <1>3, <1>4 DEF NextInMemory

\* The window in memory, whenever it starts anew: at most twice the limit.
THEOREM InMemoryWithin == InMemorySpec => []WithinWindow
<1>1. MemoryInv => WithinWindow
  <2> SUFFICES ASSUME MemoryInv, NEW t \in 1..Ticks
               PROVE  Cardinality(Window(t)) <= IF memory.start = 0 THEN Limit ELSE 2 * Limit
    BY DEF WithinWindow
  <2>1. CASE memory.start = 0
    <3>1. Window(t) = {}
      BY <2>1 DEF MemoryInv, Window
    <3> QED
      BY <2>1, <3>1, FS_EmptySet, LimitAssumption
  <2>2. CASE memory.start # 0
    BY <2>2 DEF MemoryInv
  <2> QED
    BY <2>1, <2>2
<1> QED
  BY <1>1, InitMemory, MemoryStep, PTL DEF InMemorySpec
=============================================================================
