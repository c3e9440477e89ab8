-------------------------- MODULE RunLifecycleProofs --------------------------
(***************************************************************************)
(* What a thread's runs guarantee for any number of runs and requests in   *)
(* progress, under all faults and cancellations of RunLifecycle.           *)
(***************************************************************************)
EXTENDS RunLifecycle, TLAPS

Creating(q) == req[q].op \in {"create", "batch"}

\* The steps each kind of request has.
Programs ==
  \A q \in Requests :
    \/ req[q].op = "none" /\ req[q].pc = "idle"
    \/ Creating(q) /\ req[q].pc \in {"insert", "busy", "meta", "spawn"}
    \/ req[q].op = "cancel" /\ req[q].pc \in {"signal", "write", "rewrite", "await"}
    \/ req[q].op \in {"delete", "drop"}
         /\ req[q].pc \in {"signal", "write", "await", "pop", "remove"}
    \/ req[q].op = "join" /\ req[q].pc \in {"await", "unwind"}

\* A run that is being created has no task yet, and one request creates it.
Fresh ==
  /\ \A r \in Runs \ used : task[r] = "none"
  /\ \A q \in Requests : Creating(q) => req[q].run \in used /\ task[req[q].run] = "none"
  /\ \A p, q \in Requests :
       Creating(p) /\ Creating(q) /\ req[p].run = req[q].run => p = q

\* How a task ends is known once its graph is over, and not before.
Outcomes ==
  \A r \in Runs :
    /\ task[r] \in {"none", "starting", "init", "graph"} => outcome[r] = "none"
    /\ task[r] = "check" => outcome[r] = "completed"
    /\ task[r] \in {"status", "thread"} => outcome[r] # "none"

\* Whoever made the thread busy is still to spawn a task, or a task is still to
\* write the thread.
Spawning(q) == req[q].pc \in {"meta", "spawn"} \/ At(q, "create", "insert")
Writing(r) == task[r] = "starting" \/ task[r] \in InTry
ReleaseDue ==
  thread = "busy" /\ odd \intersect {"cutshort", "unstarted", "crash"} = {} =>
    (\E q \in Requests : Spawning(q)) \/ (\E r \in Runs : Writing(r))

\* Without a race one task lives at a time, and until its graph is over nobody
\* writes the thread but those who make it busy.
OneAtATime ==
  "race" \notin odd =>
    /\ \A r, s \in AliveTasks : r = s
    /\ \A r \in Runs : task[r] \in {"starting", "init", "graph", "check"} =>
         thread \in {"busy", "absent"}

IInv ==
  /\ TypeOK
  /\ Programs
  /\ Fresh
  /\ Outcomes
  /\ TasksReachable
  /\ NoStaleEntry
  /\ ReleaseDue
  /\ OneAtATime

-------------------------------------------------------------------------------
(* Requests.                                                                 *)

\* An update outside of the domain of a function changes nothing.
LEMMA UpdateKeepsType ==
  ASSUME NEW S, NEW T, NEW f \in [S -> T], NEW x, NEW v \in T
  PROVE  [f EXCEPT ![x] = v] \in [S -> T]
  OBVIOUS

\* A step of a request that only moves it on, within its program.
Advances(q) ==
  \/ Return(q)
  \/ req[q].op = "cancel" /\ \E pc \in {"write", "rewrite", "await"} : Goto(q, pc)
  \/ req[q].op \in {"delete", "drop"}
       /\ \E pc \in {"write", "await", "pop", "remove"} : Goto(q, pc)
  \/ req[q].op = "join" /\ Goto(q, "unwind")

ReqTypes ==
  req \in [Requests ->
       [op : {"none", "create", "batch", "cancel", "delete", "drop", "join"},
        pc : {"idle", "insert", "busy", "meta", "spawn", "signal", "write",
              "rewrite", "await", "unwind", "pop", "remove"},
        run : Runs \union {NoRun},
        how : {"cancelled", "interrupted"},
        todo : SUBSET Runs]]

\* What the other conjuncts say of requests survives such a step, if it is not a
\* creation that goes on without its task.
LEMMA AdvanceKeeps ==
  ASSUME NEW q \in Requests, ReqTypes, Programs, Advances(q), ~Creating(q)
  PROVE  /\ ReqTypes' /\ Programs'
         /\ \A p \in Requests : Creating(p)' => p # q /\ req'[p] = req[p]
         /\ \A p \in Requests : Spawning(p) => p # q /\ req'[p] = req[p]
<1>1. ReqTypes'
  BY DEF ReqTypes, Advances, Return, Goto, NoRequest
<1>2. \A p \in Requests : p # q => req'[p] = req[p]
  BY DEF ReqTypes, Advances, Return, Goto
<1>3. \/ req'[q].op = "none" /\ req'[q].pc = "idle"
      \/ /\ req'[q].op = req[q].op
         /\ \/ req[q].op = "cancel" /\ req'[q].pc \in {"write", "rewrite", "await"}
            \/ /\ req[q].op \in {"delete", "drop"}
               /\ req'[q].pc \in {"write", "await", "pop", "remove"}
            \/ req[q].op = "join" /\ req'[q].pc = "unwind"
  BY DEF ReqTypes, Advances, Return, Goto, NoRequest
<1>4. Programs'
  BY <1>2, <1>3 DEF Programs, Creating
<1>5. ~Spawning(q)
  BY DEF Programs, Creating, Spawning, At
<1>6. ~Creating(q)'
  BY <1>3 DEF ReqTypes, Programs, Creating
<1> QED
  BY <1>1, <1>2, <1>4, <1>5, <1>6

-------------------------------------------------------------------------------
(* The invariant holds at first.                                             *)
LEMMA InitIInv == Init => IInv
<1> SUFFICES ASSUME Init PROVE IInv
  OBVIOUS
<1> USE DEF Init, IInv
<1>1. TypeOK
  <2>1. row \in [Runs -> Statuses \union {"none"}] /\ task \in [Runs -> Alive \union {"none", "done"}]
    OBVIOUS
  <2>2. ReqTypes
    BY DEF ReqTypes, NoRequest
  <2>3. outcome \in [Runs -> Over \union {"interrupted", "none"}]
    OBVIOUS
  <2>4. asked \in 0..MaxAsked
    BY MaxAskedAssumption
  <2>5. cancel \in [Runs -> BOOLEAN] /\ resume \in [Runs -> BOOLEAN]
    OBVIOUS
  <2> QED
    BY <2>1, <2>2, <2>3, <2>4, <2>5 DEF TypeOK, ReqTypes
<1>2. Programs /\ Fresh /\ Outcomes
  BY DEF Programs, Creating, Fresh, Outcomes, NoRequest
<1>3. TasksReachable /\ NoStaleEntry /\ ReleaseDue /\ OneAtATime
  BY DEF TasksReachable, NoStaleEntry, ReleaseDue, OneAtATime, AliveTasks, Alive, InTry
<1> QED
  BY <1>1, <1>2, <1>3

-------------------------------------------------------------------------------
(* Requests as clients make them.                                          *)

\* A creation takes an id nobody has used.
LEMMA CreateStep ==
  ASSUME IInv, NEW q \in Requests, NEW r \in Runs, Create(q, r)
  PROVE  IInv'
<1> USE DEF IInv
<1>1. TypeOK'
  BY DEF Create, TypeOK, Call, Running, Over, Statuses, InTry, Alive, Oddities,
         taskVars
<1>2. Programs'
  BY DEF Create, TypeOK, Programs, Creating, Call, Running, Over, Statuses, InTry,
         Alive, Oddities, taskVars
<1>3. Fresh'
  BY DEF Create, TypeOK, Programs, Fresh, Creating, Call, Running, Over, Statuses,
         InTry, Alive, Oddities, taskVars
<1>4. ReleaseDue'
  BY DEF Create, TypeOK, Programs, ReleaseDue, Creating, Spawning, Writing, At,
         Call, Running, Over, Statuses, InTry, Alive, Oddities, taskVars
<1>5. Outcomes' /\ TasksReachable' /\ NoStaleEntry' /\ OneAtATime'
  BY DEF Create, Outcomes, TasksReachable, NoStaleEntry, OneAtATime, AliveTasks,
         Call, Handling, taskVars
<1> QED
  BY <1>1, <1>2, <1>3, <1>4, <1>5

\* A batch does the same.
LEMMA CreateBatchStep ==
  ASSUME IInv, NEW q \in Requests, NEW r \in Runs, CreateBatch(q, r)
  PROVE  IInv'
<1> USE DEF IInv
<1>1. TypeOK'
  BY DEF CreateBatch, TypeOK, Call, Running, Over, Statuses, InTry, Alive,
         Oddities, taskVars
<1>2. Programs'
  BY DEF CreateBatch, TypeOK, Programs, Creating, Call, Running, Over, Statuses,
         InTry, Alive, Oddities, taskVars
<1>3. Fresh'
  BY DEF CreateBatch, TypeOK, Programs, Fresh, Creating, Call, Running, Over,
         Statuses, InTry, Alive, Oddities, taskVars
<1>4. ReleaseDue'
  BY DEF CreateBatch, TypeOK, Programs, ReleaseDue, Creating, Spawning, Writing,
         At, Call, Running, Over, Statuses, InTry, Alive, Oddities, taskVars
<1>5. Outcomes' /\ TasksReachable' /\ NoStaleEntry' /\ OneAtATime'
  BY DEF CreateBatch, Outcomes, TasksReachable, NoStaleEntry, OneAtATime,
         AliveTasks, Call, Handling, taskVars
<1> QED
  BY <1>1, <1>2, <1>3, <1>4, <1>5

\* These requests begin and change nothing else.
LEMMA CancelRequestStep ==
  ASSUME IInv, NEW q \in Requests, NEW r \in Runs, CancelRequest(q, r)
  PROVE  IInv'
<1> USE DEF IInv
<1>1. TypeOK'
  BY MaxAskedAssumption DEF CancelRequest, TypeOK, Call, Ask, Running, Over,
         Statuses, InTry, Alive, Oddities, taskVars
<1>2. Programs'
  BY DEF CancelRequest, TypeOK, Programs, Creating, Call, Ask, Running, Over,
         Statuses, InTry, Alive, Oddities, taskVars
<1>3. Fresh'
  BY DEF CancelRequest, TypeOK, Programs, Fresh, Creating, Call, Ask, Running,
         Over, Statuses, InTry, Alive, Oddities, taskVars
<1>4. ReleaseDue'
  BY DEF CancelRequest, TypeOK, Programs, ReleaseDue, Creating, Spawning, Writing,
         At, Call, Ask, Running, Over, Statuses, InTry, Alive, Oddities, taskVars
<1>5. Outcomes' /\ TasksReachable' /\ NoStaleEntry' /\ OneAtATime'
  BY DEF CancelRequest, Outcomes, TasksReachable, NoStaleEntry, OneAtATime,
         AliveTasks, Call, Ask, Handling, taskVars
<1> QED
  BY <1>1, <1>2, <1>3, <1>4, <1>5

\* The row is there, so the run was created.
LEMMA DeleteRunStep ==
  ASSUME IInv, NEW q \in Requests, NEW r \in Runs, DeleteRun(q, r)
  PROVE  IInv'
<1> USE DEF IInv
<1>1. TypeOK'
  BY MaxAskedAssumption DEF DeleteRun, TypeOK, Call, Ask, Running, Over, Statuses,
         InTry, Alive, Oddities, taskVars
<1>2. Programs'
  BY DEF DeleteRun, TypeOK, Programs, Creating, Call, Ask, Running, Over,
         Statuses, InTry, Alive, Oddities, taskVars
<1>3. Fresh'
  BY DEF DeleteRun, TypeOK, Programs, Fresh, Creating, Call, Ask, Running, Over,
         Statuses, InTry, Alive, Oddities, taskVars
<1>4. ReleaseDue'
  BY SMTT(30) DEF DeleteRun, TypeOK, Programs, ReleaseDue, Creating, Spawning, Writing, At,
         Call, Ask, Running, Over, Statuses, InTry, Alive, Oddities, taskVars
<1>5. Outcomes' /\ TasksReachable' /\ NoStaleEntry' /\ OneAtATime'
  BY DEF DeleteRun, Outcomes, TasksReachable, NoStaleEntry, OneAtATime,
         AliveTasks, Call, Ask, Handling, taskVars
<1> QED
  BY <1>1, <1>2, <1>3, <1>4, <1>5

\* A join waits for a task that is in active_runs.
LEMMA JoinStep ==
  ASSUME IInv, NEW q \in Requests, NEW r \in Runs, Join(q, r)
  PROVE  IInv'
<1> USE DEF IInv
<1>1. TypeOK'
  BY MaxAskedAssumption DEF Join, TypeOK, Call, Ask, Running, Over, Statuses,
         InTry, Alive, Oddities, taskVars
<1>2. Programs'
  BY DEF Join, TypeOK, Programs, Creating, Call, Ask, Running, Over, Statuses,
         InTry, Alive, Oddities, taskVars
<1>3. Fresh'
  BY DEF Join, TypeOK, Programs, Fresh, Creating, Call, Ask, Running, Over,
         Statuses, InTry, Alive, Oddities, taskVars
<1>4. ReleaseDue'
  BY DEF Join, TypeOK, Programs, ReleaseDue, Creating, Spawning, Writing, At,
         Call, Ask, Running, Over, Statuses, InTry, Alive, Oddities, taskVars
<1>5. Outcomes' /\ TasksReachable' /\ NoStaleEntry' /\ OneAtATime'
  BY DEF Join, Outcomes, TasksReachable, NoStaleEntry, OneAtATime, AliveTasks,
         Call, Ask, Handling, taskVars
<1> QED
  BY <1>1, <1>2, <1>3, <1>4, <1>5

\* The rows of active runs become the list of what is to be cancelled.
LEMMA DeleteThreadStep ==
  ASSUME IInv, NEW q \in Requests, DeleteThread(q)
  PROVE  IInv'
<1> USE DEF IInv
<1>1. TypeOK'
  BY MaxAskedAssumption DEF DeleteThread, TypeOK, Call, Ask, Running, Over,
         Statuses, InTry, Alive, Oddities, taskVars
<1>2. Programs'
  BY DEF DeleteThread, TypeOK, Programs, Creating, Call, Ask, Running, Over,
         Statuses, InTry, Alive, Oddities, taskVars
<1>3. Fresh'
  BY DEF DeleteThread, TypeOK, Programs, Fresh, Creating, Call, Ask, Running,
         Over, Statuses, InTry, Alive, Oddities, taskVars
<1>4. ReleaseDue'
  BY DEF DeleteThread, TypeOK, Programs, ReleaseDue, Creating, Spawning, Writing,
         At, Call, Ask, Running, Over, Statuses, InTry, Alive, Oddities, taskVars
<1>5. Outcomes' /\ TasksReachable' /\ NoStaleEntry' /\ OneAtATime'
  BY DEF DeleteThread, Outcomes, TasksReachable, NoStaleEntry, OneAtATime,
         AliveTasks, Call, Ask, Handling, taskVars
<1> QED
  BY <1>1, <1>2, <1>3, <1>4, <1>5

-------------------------------------------------------------------------------
(* The steps of requests.                                                  *)

\* The thread is busy from now on: this request is to spawn its task.
LEMMA SetBusyStep ==
  ASSUME IInv, NEW q \in Requests, SetBusy(q)
  PROVE  IInv'
<1> USE DEF IInv
<1>1. TypeOK'
  BY DEF SetBusy, TypeOK, ThreadSet, AliveTasks, Goto, At, NoteIf, Running, Over,
         Statuses, InTry, Alive, Oddities, taskVars, runVars
<1>2. Programs'
  BY DEF SetBusy, TypeOK, Programs, Creating, ThreadSet, AliveTasks, Goto, At,
         NoteIf, Running, Over, Statuses, InTry, Alive, Oddities, taskVars,
         runVars
<1>3. Fresh'
  BY DEF SetBusy, TypeOK, Programs, Fresh, Creating, ThreadSet, AliveTasks, Goto,
         At, NoteIf, Running, Over, Statuses, InTry, Alive, Oddities, taskVars,
         runVars
<1>4. NoStaleEntry'
  BY DEF SetBusy, TypeOK, NoStaleEntry, ThreadSet, AliveTasks, Goto, At, NoteIf,
         Running, Over, Statuses, InTry, Alive, Oddities, taskVars, runVars
<1>5. ReleaseDue'
  BY DEF SetBusy, TypeOK, Programs, ReleaseDue, Creating, Spawning, Writing,
         ThreadSet, AliveTasks, Goto, At, NoteIf, Running, Over, Statuses, InTry,
         Alive, Oddities, taskVars, runVars
<1>6. OneAtATime'
  BY DEF SetBusy, TypeOK, OneAtATime, ThreadSet, AliveTasks, Goto, At, NoteIf,
         Running, Over, Statuses, InTry, Alive, Oddities, taskVars, runVars,
         Programs
<1>7. Outcomes' /\ TasksReachable'
  BY DEF SetBusy, Outcomes, TasksReachable, ThreadSet, AliveTasks, Goto, At,
         NoteIf, Handling, taskVars, runVars
<1> QED
  BY <1>1, <1>2, <1>3, <1>4, <1>5, <1>6, <1>7

\* A request that gives up here leaves no busy thread: there is none.
LEMMA SetMetadataStep ==
  ASSUME IInv, NEW q \in Requests, SetMetadata(q)
  PROVE  IInv'
<1> USE DEF IInv
<1>1. TypeOK'
  BY DEF SetMetadata, TypeOK, Goto, Return, At, NoRequest, Running, Over,
         Statuses, InTry, Alive, Oddities, taskVars, runVars
<1>2. Programs'
  BY DEF SetMetadata, TypeOK, Programs, Creating, Goto, Return, At, NoRequest,
         Running, Over, Statuses, InTry, Alive, Oddities, taskVars, runVars
<1>3. Fresh'
  BY DEF SetMetadata, TypeOK, Programs, Fresh, Creating, Goto, Return, At,
         NoRequest, Running, Over, Statuses, InTry, Alive, Oddities, taskVars,
         runVars
<1>4. ReleaseDue'
  BY DEF SetMetadata, TypeOK, Programs, ReleaseDue, Creating, Spawning, Writing,
         Goto, Return, At, NoRequest, Running, Over, Statuses, InTry, Alive,
         Oddities, taskVars, runVars
<1>5. Outcomes' /\ TasksReachable' /\ NoStaleEntry' /\ OneAtATime'
  BY DEF SetMetadata, Outcomes, TasksReachable, NoStaleEntry, OneAtATime,
         AliveTasks, Goto, Return, At, Handling, NoRequest, taskVars, runVars
<1> QED
  BY <1>1, <1>2, <1>3, <1>4, <1>5

\* Likewise.
LEMMA InsertRowStep ==
  ASSUME IInv, NEW q \in Requests, InsertRow(q)
  PROVE  IInv'
<1> USE DEF IInv
<1>1. TypeOK'
  BY DEF InsertRow, TypeOK, Goto, Return, NoRequest, Running, Over, Statuses,
         InTry, Alive, Oddities, taskVars, runVars
<1>2. Programs'
  BY DEF InsertRow, TypeOK, Programs, Creating, Goto, Return, NoRequest, Running,
         Over, Statuses, InTry, Alive, Oddities, taskVars, runVars
<1>3. Fresh'
  BY DEF InsertRow, TypeOK, Programs, Fresh, Creating, Goto, Return, NoRequest,
         Running, Over, Statuses, InTry, Alive, Oddities, taskVars, runVars
<1>4. ReleaseDue'
  BY DEF InsertRow, TypeOK, Programs, ReleaseDue, Creating, Spawning, Writing,
         Goto, Return, At, NoRequest, Running, Over, Statuses, InTry, Alive,
         Oddities, taskVars, runVars
<1>5. Outcomes' /\ TasksReachable' /\ NoStaleEntry' /\ OneAtATime'
  BY DEF InsertRow, Outcomes, TasksReachable, NoStaleEntry, OneAtATime,
         AliveTasks, Goto, Return, Handling, NoRequest, taskVars, runVars
<1> QED
  BY <1>1, <1>2, <1>3, <1>4, <1>5

\* The new task takes over from the request; without a race it is the only one.
LEMMA SpawnStep ==
  ASSUME IInv, NEW q \in Requests, Spawn(q)
  PROVE  IInv'
<1> USE DEF IInv
<1>1. TypeOK'
  BY DEF Spawn, TypeOK, AliveTasks, Return, NoteIf, NoRequest, Running, Over,
         Statuses, InTry, Alive, Oddities, runVars, Programs, Creating, Fresh
<1>2. Programs'
  BY DEF Spawn, TypeOK, Programs, Creating, AliveTasks, Return, NoteIf, NoRequest,
         Running, Over, Statuses, InTry, Alive, Oddities, runVars
<1>3. Fresh'
  BY DEF Spawn, TypeOK, Programs, Fresh, Creating, AliveTasks, Return, NoteIf,
         NoRequest, Running, Over, Statuses, InTry, Alive, Oddities, runVars
<1>4. Outcomes'
  BY DEF Spawn, TypeOK, Outcomes, AliveTasks, Return, NoteIf, NoRequest, Running,
         Over, Statuses, InTry, Alive, Oddities, runVars, Programs, Creating,
         Fresh
<1>5. TasksReachable'
  BY DEF Spawn, TypeOK, Outcomes, TasksReachable, AliveTasks, Return, NoteIf,
         Handling, NoRequest, Running, Over, Statuses, InTry, Alive, Oddities,
         runVars, Programs, Creating, Fresh
<1>6. NoStaleEntry'
  BY DEF Spawn, TypeOK, NoStaleEntry, AliveTasks, Return, NoteIf, NoRequest,
         Running, Over, Statuses, InTry, Alive, Oddities, runVars, Programs,
         Creating, Fresh
<1>7. ReleaseDue'
  BY DEF Spawn, TypeOK, Programs, ReleaseDue, Creating, Spawning, Writing,
         AliveTasks, Return, At, NoteIf, NoRequest, Running, Over, Statuses,
         InTry, Alive, Oddities, runVars, Fresh
<1>8. OneAtATime'
  BY DEF Spawn, TypeOK, OneAtATime, AliveTasks, Return, NoteIf, NoRequest,
         Running, Over, Statuses, InTry, Alive, Oddities, runVars, Programs,
         Creating, Fresh
<1> QED
  BY <1>1, <1>2, <1>3, <1>4, <1>5, <1>6, <1>7, <1>8

\* Only tasks that can be found are cancelled.
LEMMA SignalCancelStep ==
  ASSUME IInv, NEW q \in Requests, SignalCancel(q)
  PROVE  IInv'
<1> USE DEF IInv
<1>1. TypeOK'
  BY DEF SignalCancel, TypeOK, AliveTasks, Cancelled, Goto, NoteIf, Running, Over,
         Statuses, InTry, Alive, Oddities, runVars
<1>2. Programs'
  BY DEF SignalCancel, TypeOK, Programs, Creating, AliveTasks, Cancelled, Goto,
         NoteIf, Running, Over, Statuses, InTry, Alive, Oddities, runVars
<1>3. Fresh'
  BY DEF SignalCancel, TypeOK, Programs, Fresh, Creating, AliveTasks, Cancelled,
         Goto, NoteIf, Running, Over, Statuses, InTry, Alive, Oddities, runVars
<1>4. TasksReachable'
  BY DEF SignalCancel, TypeOK, Outcomes, TasksReachable, AliveTasks, Cancelled,
         Goto, NoteIf, Handling, Running, Over, Statuses, InTry, Alive, Oddities,
         runVars
<1>5. NoStaleEntry'
  BY DEF SignalCancel, TypeOK, NoStaleEntry, AliveTasks, Cancelled, Goto, NoteIf,
         Running, Over, Statuses, InTry, Alive, Oddities, runVars
<1>6. ReleaseDue'
  BY DEF SignalCancel, TypeOK, Programs, ReleaseDue, Creating, Spawning, Writing,
         AliveTasks, Cancelled, Goto, At, NoteIf, Running, Over, Statuses, InTry,
         Alive, Oddities, runVars
<1>7. OneAtATime'
  BY DEF SignalCancel, TypeOK, OneAtATime, AliveTasks, Cancelled, Goto, NoteIf,
         Running, Over, Statuses, InTry, Alive, Oddities, runVars
<1>8. Outcomes'
  BY DEF SignalCancel, Outcomes, AliveTasks, Cancelled, Goto, NoteIf, runVars
<1> QED
  BY <1>1, <1>2, <1>3, <1>4, <1>5, <1>6, <1>7, <1>8

\* The canceller's write changes a row and its own place.
LEMMA WriteCancelledStep ==
  ASSUME IInv, NEW q \in Requests, WriteCancelled(q)
  PROVE  IInv'
<1> USE DEF IInv
<1>1. Advances(q) /\ ~Creating(q)
  BY DEF WriteCancelled, Programs, Creating, Advances, At
<1>2. ReqTypes
  BY DEF TypeOK, ReqTypes
<1>3. /\ ReqTypes' /\ Programs'
      /\ \A p \in Requests : Creating(p)' => p # q /\ req'[p] = req[p]
      /\ \A p \in Requests : Spawning(p) => p # q /\ req'[p] = req[p]
  BY <1>1, <1>2, AdvanceKeeps
<1>4. TypeOK'
  <2>1. row' \in [Runs -> Statuses \union {"none"}]
    BY <1>2, UpdateKeepsType DEF WriteCancelled, RowSet, TypeOK, ReqTypes, Statuses, Over
  <2> QED
    BY <1>3, <2>1 DEF TypeOK, ReqTypes, WriteCancelled, taskVars, runVars
<1>5. Fresh'
  BY <1>3 DEF Fresh, Creating, WriteCancelled, taskVars, runVars
<1>6. ReleaseDue'
  BY <1>3 DEF ReleaseDue, Writing, Spawning, At, WriteCancelled, taskVars
<1>7. Outcomes' /\ TasksReachable' /\ NoStaleEntry' /\ OneAtATime'
  BY DEF Outcomes, TasksReachable, NoStaleEntry, OneAtATime, AliveTasks, Handling,
         WriteCancelled, taskVars
<1> QED
  BY <1>3, <1>4, <1>5, <1>6, <1>7

\* Waiting changes nothing but the request's place.
LEMMA AwaitTaskStep ==
  ASSUME IInv, NEW q \in Requests, AwaitTask(q)
  PROVE  IInv'
<1> USE DEF IInv
<1>1. Advances(q) /\ ~Creating(q)
  BY DEF AwaitTask, Programs, Creating, Advances
<1>2. ReqTypes
  BY DEF TypeOK, ReqTypes
<1>3. /\ ReqTypes' /\ Programs'
      /\ \A p \in Requests : Creating(p)' => p # q /\ req'[p] = req[p]
      /\ \A p \in Requests : Spawning(p) => p # q /\ req'[p] = req[p]
  BY <1>1, <1>2, AdvanceKeeps
<1>4. TypeOK'
  BY <1>3 DEF TypeOK, ReqTypes, AwaitTask, taskVars, runVars
<1>5. Fresh'
  BY <1>3 DEF Fresh, Creating, AwaitTask, taskVars, runVars
<1>6. ReleaseDue'
  BY <1>3 DEF ReleaseDue, Writing, Spawning, At, AwaitTask, taskVars
<1>7. Outcomes' /\ TasksReachable' /\ NoStaleEntry' /\ OneAtATime'
  BY DEF Outcomes, TasksReachable, NoStaleEntry, OneAtATime, AliveTasks, Handling,
         AwaitTask, taskVars
<1> QED
  BY <1>3, <1>4, <1>5, <1>6, <1>7

\* The row goes, the task is dealt with next.
LEMMA RemoveRunStep ==
  ASSUME IInv, NEW q \in Requests, RemoveRun(q)
  PROVE  IInv'
<1> USE DEF IInv
<1>1. Advances(q) /\ ~Creating(q)
  BY DEF RemoveRun, Programs, Creating, Advances, At
<1>2. ReqTypes
  BY DEF TypeOK, ReqTypes
<1>3. /\ ReqTypes' /\ Programs'
      /\ \A p \in Requests : Creating(p)' => p # q /\ req'[p] = req[p]
      /\ \A p \in Requests : Spawning(p) => p # q /\ req'[p] = req[p]
  BY <1>1, <1>2, AdvanceKeeps
<1>4. TypeOK'
  <2>1. row' \in [Runs -> Statuses \union {"none"}]
    BY UpdateKeepsType DEF RemoveRun, TypeOK
  <2> QED
    BY <1>3, <2>1 DEF TypeOK, ReqTypes, RemoveRun, taskVars, runVars
<1>5. Fresh'
  BY <1>3 DEF Fresh, Creating, RemoveRun, taskVars, runVars
<1>6. ReleaseDue'
  BY <1>3 DEF ReleaseDue, Writing, Spawning, At, RemoveRun, taskVars
<1>7. Outcomes' /\ TasksReachable' /\ NoStaleEntry' /\ OneAtATime'
  BY DEF Outcomes, TasksReachable, NoStaleEntry, OneAtATime, AliveTasks, Handling,
         RemoveRun, taskVars
<1> QED
  BY <1>3, <1>4, <1>5, <1>6, <1>7

\* A task leaves active_runs together with its cancellation.
LEMMA PopTaskStep ==
  ASSUME IInv, NEW q \in Requests, PopTask(q)
  PROVE  IInv'
<1> USE DEF IInv
<1>1. TypeOK'
  BY DEF PopTask, TypeOK, AliveTasks, Cancelled, Return, At, NoRequest, Running,
         Over, Statuses, InTry, Alive, Oddities, runVars
<1>2. Programs'
  BY DEF PopTask, TypeOK, Programs, Creating, AliveTasks, Cancelled, Return, At,
         NoRequest, Running, Over, Statuses, InTry, Alive, Oddities, runVars
<1>3. Fresh'
  BY DEF PopTask, TypeOK, Programs, Fresh, Creating, AliveTasks, Cancelled,
         Return, At, NoRequest, Running, Over, Statuses, InTry, Alive, Oddities,
         runVars
<1>4. TasksReachable'
  BY DEF PopTask, TypeOK, Outcomes, TasksReachable, AliveTasks, Cancelled, Return,
         At, Handling, NoRequest, Running, Over, Statuses, InTry, Alive, Oddities,
         runVars
<1>5. NoStaleEntry'
  BY DEF PopTask, TypeOK, NoStaleEntry, AliveTasks, Cancelled, Return, At,
         NoRequest, Running, Over, Statuses, InTry, Alive, Oddities, runVars
<1>6. ReleaseDue'
  BY DEF PopTask, TypeOK, Programs, ReleaseDue, Creating, Spawning, Writing,
         AliveTasks, Cancelled, Return, At, NoRequest, Running, Over, Statuses,
         InTry, Alive, Oddities, runVars
<1>7. Outcomes' /\ OneAtATime'
  BY DEF PopTask, Outcomes, OneAtATime, AliveTasks, Cancelled, Return, At,
         NoRequest, runVars
<1> QED
  BY <1>1, <1>2, <1>3, <1>4, <1>5, <1>6, <1>7

\* The same, for each task of a thread.
LEMMA DropTaskStep ==
  ASSUME IInv, NEW q \in Requests, DropTask(q)
  PROVE  IInv'
<1> USE DEF IInv
<1>1. ~Creating(q) /\ ~Spawning(q) /\ ReqTypes
  BY DEF DropTask, Creating, Spawning, At, TypeOK, ReqTypes
<1>2. /\ ReqTypes' /\ Programs'
      /\ \A p \in Requests : Creating(p)' => p # q /\ req'[p] = req[p]
      /\ \A p \in Requests : Spawning(p) => p # q /\ req'[p] = req[p]
  <2>1. CASE Advances(q)
    BY <1>1, <2>1, AdvanceKeeps
  <2>2. ASSUME NEW s \in req[q].todo,
               req' = [req EXCEPT ![q].run = s, ![q].pc = "signal", ![q].todo = @ \ {s}]
        PROVE  /\ ReqTypes' /\ Programs'
               /\ \A p \in Requests : Creating(p)' => p # q /\ req'[p] = req[p]
               /\ \A p \in Requests : Spawning(p) => p # q /\ req'[p] = req[p]
    <3>1. ReqTypes'
      BY <1>1, <2>2 DEF ReqTypes
    <3>2. /\ \A p \in Requests : p # q => req'[p] = req[p]
          /\ req'[q].op = "drop" /\ req'[q].pc = "signal"
      BY ZenonT(60), <1>1, <2>2 DEF ReqTypes, DropTask, At
    <3> QED
      BY <1>1, <3>1, <3>2 DEF Programs, Creating, Spawning, At
  <2> QED
    BY <2>1, <2>2 DEF DropTask, Advances, At
<1>3. TypeOK'
  BY <1>2 DEF TypeOK, ReqTypes, DropTask, Cancelled, runVars
<1>4. Fresh'
  BY <1>2 DEF Fresh, Creating, DropTask, runVars
<1>5. ReleaseDue'
  BY <1>2 DEF ReleaseDue, Writing, Spawning, At, DropTask
<1>6. TasksReachable'
  BY DEF TypeOK, TasksReachable, AliveTasks, Handling, DropTask, Cancelled
<1>7. Outcomes' /\ NoStaleEntry' /\ OneAtATime'
  BY DEF Outcomes, NoStaleEntry, OneAtATime, AliveTasks, DropTask
<1> QED
  BY <1>2, <1>3, <1>4, <1>5, <1>6, <1>7

\* A thread that is gone is not busy.
LEMMA RemoveThreadStep ==
  ASSUME IInv, NEW q \in Requests, RemoveThread(q)
  PROVE  IInv'
<1> USE DEF IInv
<1>1. TypeOK'
  BY DEF RemoveThread, TypeOK, Return, At, NoRequest, Running, Over, Statuses,
         InTry, Alive, Oddities, taskVars, runVars
<1>2. Programs'
  BY DEF RemoveThread, TypeOK, Programs, Creating, Return, At, NoRequest, Running,
         Over, Statuses, InTry, Alive, Oddities, taskVars, runVars
<1>3. Fresh'
  BY DEF RemoveThread, TypeOK, Programs, Fresh, Creating, Return, At, NoRequest,
         Running, Over, Statuses, InTry, Alive, Oddities, taskVars, runVars
<1>4. ReleaseDue'
  BY DEF RemoveThread, TypeOK, Programs, ReleaseDue, Creating, Spawning, Writing,
         Return, At, NoRequest, Running, Over, Statuses, InTry, Alive, Oddities,
         taskVars, runVars
<1>5. OneAtATime'
  BY DEF RemoveThread, TypeOK, OneAtATime, AliveTasks, Return, At, NoRequest,
         Running, Over, Statuses, InTry, Alive, Oddities, taskVars, runVars
<1>6. Outcomes' /\ TasksReachable' /\ NoStaleEntry'
  BY DEF RemoveThread, Outcomes, TasksReachable, NoStaleEntry, AliveTasks, Return,
         At, Handling, NoRequest, taskVars, runVars
<1> QED
  BY <1>1, <1>2, <1>3, <1>4, <1>5, <1>6

\* The time of a join is over.
LEMMA JoinTimeoutStep ==
  ASSUME IInv, NEW q \in Requests, JoinTimeout(q)
  PROVE  IInv'
<1> USE DEF IInv
<1>1. Advances(q) /\ ~Creating(q)
  BY DEF JoinTimeout, Programs, Creating, Advances, At
<1>2. ReqTypes
  BY DEF TypeOK, ReqTypes
<1>3. /\ ReqTypes' /\ Programs'
      /\ \A p \in Requests : Creating(p)' => p # q /\ req'[p] = req[p]
      /\ \A p \in Requests : Spawning(p) => p # q /\ req'[p] = req[p]
  BY <1>1, <1>2, AdvanceKeeps
<1>4. TypeOK'
  <2>1. cancel' \in [Runs -> BOOLEAN]
    BY UpdateKeepsType DEF JoinTimeout, TypeOK
  <2> QED
    BY <1>3, <2>1 DEF TypeOK, ReqTypes, JoinTimeout, runVars
<1>5. Fresh'
  BY <1>3 DEF Fresh, Creating, JoinTimeout, taskVars, runVars
<1>6. ReleaseDue'
  BY <1>3 DEF ReleaseDue, Writing, Spawning, At, JoinTimeout, taskVars
<1>7. TasksReachable'
  BY DEF TypeOK, TasksReachable, AliveTasks, Handling, JoinTimeout
<1>8. Outcomes' /\ NoStaleEntry' /\ OneAtATime'
  BY DEF Outcomes, NoStaleEntry, OneAtATime, AliveTasks, JoinTimeout
<1> QED
  BY <1>3, <1>4, <1>5, <1>6, <1>7, <1>8

\* The stream of a run breaks.
LEMMA StreamCutStep ==
  ASSUME IInv, NEW r \in Runs, StreamCut(r)
  PROVE  IInv'
<1> USE DEF IInv
<1>1. TypeOK'
  BY MaxAskedAssumption DEF StreamCut, TypeOK, AliveTasks, Cancelled, Ask,
         Running, Over, Statuses, InTry, Alive, Oddities
<1>2. TasksReachable'
  BY DEF StreamCut, TypeOK, Outcomes, TasksReachable, AliveTasks, Cancelled, Ask,
         Handling, Running, Over, Statuses, InTry, Alive, Oddities
<1>3. Programs' /\ Fresh' /\ Outcomes' /\ NoStaleEntry' /\ ReleaseDue' /\ OneAtATime'
  BY DEF StreamCut, Programs, Fresh, Outcomes, NoStaleEntry, ReleaseDue,
         OneAtATime, Creating, Spawning, Writing, AliveTasks, Cancelled, At, Ask
<1> QED
  BY <1>1, <1>2, <1>3

-------------------------------------------------------------------------------
(* The steps of a task.                                                    *)

\* The first step.
LEMMA StartStep ==
  ASSUME IInv, NEW r \in Runs, Start(r)
  PROVE  IInv'
<1> USE DEF IInv
<1>1. TypeOK'
  BY DEF Start, TypeOK, Running, Over, Statuses, InTry, Alive, Oddities, runVars
<1>2. Fresh'
  BY DEF Start, TypeOK, Programs, Fresh, Creating, Running, Over, Statuses, InTry,
         Alive, Oddities, runVars
<1>3. Outcomes'
  BY DEF Start, TypeOK, Outcomes, Running, Over, Statuses, InTry, Alive, Oddities,
         runVars
<1>4. TasksReachable'
  BY DEF Start, TypeOK, Outcomes, TasksReachable, AliveTasks, Handling, Running,
         Over, Statuses, InTry, Alive, Oddities, runVars
<1>5. NoStaleEntry'
  BY DEF Start, TypeOK, NoStaleEntry, Running, Over, Statuses, InTry, Alive,
         Oddities, runVars
<1>6. ReleaseDue'
  BY DEF Start, TypeOK, Programs, ReleaseDue, Creating, Spawning, Writing, At,
         Running, Over, Statuses, InTry, Alive, Oddities, runVars
<1>7. OneAtATime'
  BY DEF Start, TypeOK, OneAtATime, AliveTasks, Running, Over, Statuses, InTry,
         Alive, Oddities, runVars
<1>8. Programs'
  BY DEF Start, Programs, Creating, runVars
<1> QED
  BY <1>1, <1>2, <1>3, <1>4, <1>5, <1>6, <1>7, <1>8

\* The row says running.
LEMMA WriteRunningStep ==
  ASSUME IInv, NEW r \in Runs, WriteRunning(r)
  PROVE  IInv'
<1> USE DEF IInv
<1>1. TypeOK'
  BY DEF WriteRunning, TypeOK, RowSet, Running, Over, Statuses, InTry, Alive,
         Oddities, runVars
<1>2. Fresh'
  BY DEF WriteRunning, TypeOK, Programs, Fresh, Creating, RowSet, Running, Over,
         Statuses, InTry, Alive, Oddities, runVars
<1>3. Outcomes'
  BY DEF WriteRunning, TypeOK, Outcomes, RowSet, Running, Over, Statuses, InTry,
         Alive, Oddities, runVars
<1>4. TasksReachable'
  BY DEF WriteRunning, TypeOK, Outcomes, TasksReachable, RowSet, AliveTasks,
         Handling, Running, Over, Statuses, InTry, Alive, Oddities, runVars
<1>5. NoStaleEntry'
  BY DEF WriteRunning, TypeOK, NoStaleEntry, RowSet, Running, Over, Statuses,
         InTry, Alive, Oddities, runVars
<1>6. ReleaseDue'
  BY DEF WriteRunning, TypeOK, Programs, ReleaseDue, Creating, Spawning, Writing,
         RowSet, At, Running, Over, Statuses, InTry, Alive, Oddities, runVars
<1>7. OneAtATime'
  BY DEF WriteRunning, TypeOK, OneAtATime, RowSet, AliveTasks, Running, Over,
         Statuses, InTry, Alive, Oddities, runVars
<1>8. Programs'
  BY DEF WriteRunning, Programs, Creating, RowSet, runVars
<1> QED
  BY <1>1, <1>2, <1>3, <1>4, <1>5, <1>6, <1>7, <1>8

\* A task that never began is noted.
LEMMA DieUnstartedStep ==
  ASSUME IInv, NEW r \in Runs, DieUnstarted(r)
  PROVE  IInv'
<1> USE DEF IInv
<1>1. TypeOK'
  BY DEF DieUnstarted, TypeOK, Note, TaskOver, Running, Over, Statuses, InTry,
         Alive, Oddities
<1>2. Fresh'
  BY DEF DieUnstarted, TypeOK, Programs, Fresh, Creating, Note, TaskOver, Running,
         Over, Statuses, InTry, Alive, Oddities
<1>3. Outcomes'
  BY DEF DieUnstarted, TypeOK, Outcomes, Note, TaskOver, Running, Over, Statuses,
         InTry, Alive, Oddities
<1>4. TasksReachable'
  BY DEF DieUnstarted, TypeOK, Outcomes, TasksReachable, AliveTasks, Note,
         TaskOver, Handling, Running, Over, Statuses, InTry, Alive, Oddities
<1>5. NoStaleEntry'
  BY DEF DieUnstarted, TypeOK, NoStaleEntry, Note, TaskOver, Running, Over,
         Statuses, InTry, Alive, Oddities
<1>6. ReleaseDue'
  BY DEF DieUnstarted, TypeOK, Programs, ReleaseDue, Creating, Spawning, Writing,
         At, Note, TaskOver, Running, Over, Statuses, InTry, Alive, Oddities
<1>7. OneAtATime'
  BY DEF DieUnstarted, TypeOK, OneAtATime, AliveTasks, Note, TaskOver, Running,
         Over, Statuses, InTry, Alive, Oddities
<1>8. Programs'
  BY DEF DieUnstarted, Programs, Creating, Note, TaskOver
<1> QED
  BY <1>1, <1>2, <1>3, <1>4, <1>5, <1>6, <1>7, <1>8

\* The graph is over; a live task without a cancellation can be found.
LEMMA GraphEndsStep ==
  ASSUME IInv, NEW r \in Runs, GraphEnds(r)
  PROVE  IInv'
<1> USE DEF IInv
<1>1. TypeOK'
  BY DEF GraphEnds, TypeOK, Running, Over, Statuses, InTry, Alive, Oddities,
         runVars
<1>2. Fresh'
  BY DEF GraphEnds, TypeOK, Programs, Fresh, Creating, Running, Over, Statuses,
         InTry, Alive, Oddities, runVars
<1>3. Outcomes'
  BY DEF GraphEnds, TypeOK, Outcomes, Running, Over, Statuses, InTry, Alive,
         Oddities, runVars
<1>4. TasksReachable'
  BY DEF GraphEnds, TypeOK, Outcomes, TasksReachable, AliveTasks, Handling,
         Running, Over, Statuses, InTry, Alive, Oddities, runVars
<1>5. NoStaleEntry'
  BY DEF GraphEnds, TypeOK, NoStaleEntry, Running, Over, Statuses, InTry, Alive,
         Oddities, runVars
<1>6. ReleaseDue'
  BY DEF GraphEnds, TypeOK, Programs, ReleaseDue, Creating, Spawning, Writing, At,
         Running, Over, Statuses, InTry, Alive, Oddities, runVars
<1>7. OneAtATime'
  BY DEF GraphEnds, TypeOK, OneAtATime, AliveTasks, Running, Over, Statuses,
         InTry, Alive, Oddities, runVars
<1>8. Programs'
  BY DEF GraphEnds, Programs, Creating, runVars
<1> QED
  BY <1>1, <1>2, <1>3, <1>4, <1>5, <1>6, <1>7, <1>8

\* The checkpoint decides between completed and interrupted.
LEMMA CheckStateStep ==
  ASSUME IInv, NEW r \in Runs, CheckState(r)
  PROVE  IInv'
<1> USE DEF IInv
<1>1. TypeOK'
  BY DEF CheckState, TypeOK, Running, Over, Statuses, InTry, Alive, Oddities,
         runVars
<1>2. Fresh'
  BY DEF CheckState, TypeOK, Programs, Fresh, Creating, Running, Over, Statuses,
         InTry, Alive, Oddities, runVars
<1>3. Outcomes'
  BY DEF CheckState, TypeOK, Outcomes, Running, Over, Statuses, InTry, Alive,
         Oddities, runVars
<1>4. TasksReachable'
  BY DEF CheckState, TypeOK, Outcomes, TasksReachable, AliveTasks, Handling,
         Running, Over, Statuses, InTry, Alive, Oddities, runVars
<1>5. NoStaleEntry'
  BY DEF CheckState, TypeOK, NoStaleEntry, Running, Over, Statuses, InTry, Alive,
         Oddities, runVars
<1>6. ReleaseDue'
  BY DEF CheckState, TypeOK, Programs, ReleaseDue, Creating, Spawning, Writing,
         At, Running, Over, Statuses, InTry, Alive, Oddities, runVars
<1>7. OneAtATime'
  BY DEF CheckState, TypeOK, OneAtATime, AliveTasks, Running, Over, Statuses,
         InTry, Alive, Oddities, runVars
<1>8. Programs'
  BY DEF CheckState, Programs, Creating, runVars
<1> QED
  BY <1>1, <1>2, <1>3, <1>4, <1>5, <1>6, <1>7, <1>8

\* The except block begins.
LEMMA GraphFailsStep ==
  ASSUME IInv, NEW r \in Runs, GraphFails(r)
  PROVE  IInv'
<1> USE DEF IInv
<1>1. TypeOK'
  BY DEF GraphFails, TypeOK, Abandon, Running, Over, Statuses, InTry, Alive,
         Oddities, runVars
<1>2. Fresh'
  BY DEF GraphFails, TypeOK, Programs, Fresh, Creating, Abandon, Running, Over,
         Statuses, InTry, Alive, Oddities, runVars
<1>3. Outcomes'
  BY DEF GraphFails, TypeOK, Outcomes, Abandon, Running, Over, Statuses, InTry,
         Alive, Oddities, runVars
<1>4. TasksReachable'
  BY DEF GraphFails, TypeOK, Outcomes, TasksReachable, AliveTasks, Abandon,
         Handling, Running, Over, Statuses, InTry, Alive, Oddities, runVars
<1>5. NoStaleEntry'
  BY DEF GraphFails, TypeOK, NoStaleEntry, Abandon, Running, Over, Statuses,
         InTry, Alive, Oddities, runVars
<1>6. ReleaseDue'
  BY DEF GraphFails, TypeOK, Programs, ReleaseDue, Creating, Spawning, Writing,
         At, Abandon, Running, Over, Statuses, InTry, Alive, Oddities, runVars
<1>7. OneAtATime'
  BY DEF GraphFails, TypeOK, OneAtATime, AliveTasks, Abandon, Running, Over,
         Statuses, InTry, Alive, Oddities, runVars
<1>8. Programs'
  BY DEF GraphFails, Programs, Creating, Abandon, runVars
<1> QED
  BY <1>1, <1>2, <1>3, <1>4, <1>5, <1>6, <1>7, <1>8

\* The row gets the outcome.
LEMMA WriteStatusStep ==
  ASSUME IInv, NEW r \in Runs, WriteStatus(r)
  PROVE  IInv'
<1> USE DEF IInv
<1>1. TypeOK'
  BY DEF WriteStatus, TypeOK, RowSet, Running, Over, Statuses, InTry, Alive,
         Oddities, runVars, Outcomes
<1>2. Fresh'
  BY DEF WriteStatus, TypeOK, Programs, Fresh, Creating, RowSet, Running, Over,
         Statuses, InTry, Alive, Oddities, runVars
<1>3. Outcomes'
  BY DEF WriteStatus, TypeOK, Outcomes, RowSet, Running, Over, Statuses, InTry,
         Alive, Oddities, runVars
<1>4. TasksReachable'
  BY DEF WriteStatus, TypeOK, Outcomes, TasksReachable, RowSet, AliveTasks,
         Handling, Running, Over, Statuses, InTry, Alive, Oddities, runVars
<1>5. NoStaleEntry'
  BY DEF WriteStatus, TypeOK, NoStaleEntry, RowSet, Running, Over, Statuses,
         InTry, Alive, Oddities, runVars
<1>6. ReleaseDue'
  BY DEF WriteStatus, TypeOK, Programs, ReleaseDue, Creating, Spawning, Writing,
         RowSet, At, Running, Over, Statuses, InTry, Alive, Oddities, runVars
<1>7. OneAtATime'
  BY DEF WriteStatus, TypeOK, OneAtATime, RowSet, AliveTasks, Running, Over,
         Statuses, InTry, Alive, Oddities, runVars
<1>8. Programs'
  BY DEF WriteStatus, Programs, Creating, RowSet, runVars
<1> QED
  BY <1>1, <1>2, <1>3, <1>4, <1>5, <1>6, <1>7, <1>8

\* The thread is released.
LEMMA WriteThreadStep ==
  ASSUME IInv, NEW r \in Runs, WriteThread(r)
  PROVE  IInv'
<1> USE DEF IInv
<1>1. TypeOK'
  BY DEF WriteThread, TypeOK, ThreadSet, ThreadAfter, Running, Over, Statuses,
         InTry, Alive, Oddities, runVars, Outcomes
<1>2. Fresh'
  BY DEF WriteThread, TypeOK, Programs, Fresh, Creating, ThreadSet, ThreadAfter,
         Running, Over, Statuses, InTry, Alive, Oddities, runVars
<1>3. Outcomes'
  BY DEF WriteThread, TypeOK, Outcomes, ThreadSet, ThreadAfter, Running, Over,
         Statuses, InTry, Alive, Oddities, runVars
<1>4. TasksReachable'
  BY DEF WriteThread, TypeOK, Outcomes, TasksReachable, ThreadSet, AliveTasks,
         ThreadAfter, Handling, Running, Over, Statuses, InTry, Alive, Oddities,
         runVars
<1>5. NoStaleEntry'
  BY DEF WriteThread, TypeOK, NoStaleEntry, ThreadSet, ThreadAfter, Running, Over,
         Statuses, InTry, Alive, Oddities, runVars
<1>6. ReleaseDue'
  BY DEF WriteThread, TypeOK, Programs, ReleaseDue, Creating, Spawning, Writing,
         ThreadSet, At, ThreadAfter, Running, Over, Statuses, InTry, Alive,
         Oddities, runVars
<1>7. OneAtATime'
  BY DEF WriteThread, TypeOK, OneAtATime, ThreadSet, AliveTasks, ThreadAfter,
         Running, Over, Statuses, InTry, Alive, Oddities, runVars
<1>8. Programs'
  BY DEF WriteThread, Programs, Creating, ThreadSet, ThreadAfter, runVars
<1> QED
  BY <1>1, <1>2, <1>3, <1>4, <1>5, <1>6, <1>7, <1>8

\* The cancellation is used up, and the except block begins.
LEMMA TaskCancelledStep ==
  ASSUME IInv, NEW r \in Runs, TaskCancelled(r)
  PROVE  IInv'
<1> USE DEF IInv
<1>1. TypeOK'
  BY ZenonT(60) DEF TaskCancelled, TypeOK, RowSet, ThreadSet, ThreadAfter, Abandon, Handling,
         Running, Over, Statuses, InTry, Alive, Oddities, runVars, Outcomes
<1>2. Fresh'
  BY DEF TaskCancelled, TypeOK, Programs, Fresh, Creating, RowSet, ThreadSet,
         ThreadAfter, Abandon, Handling, Running, Over, Statuses, InTry, Alive,
         Oddities, runVars
<1>3. Outcomes'
  BY DEF TaskCancelled, TypeOK, Outcomes, RowSet, ThreadSet, ThreadAfter, Abandon,
         Handling, Running, Over, Statuses, InTry, Alive, Oddities, runVars
<1>4. TasksReachable'
  BY DEF TaskCancelled, TypeOK, Outcomes, TasksReachable, RowSet, ThreadSet,
         AliveTasks, ThreadAfter, Abandon, Handling, Running, Over, Statuses,
         InTry, Alive, Oddities, runVars
<1>5. NoStaleEntry'
  BY DEF TaskCancelled, TypeOK, NoStaleEntry, RowSet, ThreadSet, ThreadAfter,
         Abandon, Handling, Running, Over, Statuses, InTry, Alive, Oddities,
         runVars
<1>6. ReleaseDue'
  BY DEF TaskCancelled, TypeOK, Programs, ReleaseDue, Creating, Spawning, Writing,
         RowSet, ThreadSet, At, ThreadAfter, Abandon, Handling, Running, Over,
         Statuses, InTry, Alive, Oddities, runVars
<1>7. OneAtATime'
  BY DEF TaskCancelled, TypeOK, OneAtATime, RowSet, ThreadSet, AliveTasks,
         ThreadAfter, Abandon, Handling, Running, Over, Statuses, InTry, Alive,
         Oddities, runVars
<1>8. Programs'
  BY DEF TaskCancelled, Programs, Creating, RowSet, ThreadSet, ThreadAfter,
         Abandon, Handling, runVars
<1> QED
  BY <1>1, <1>2, <1>3, <1>4, <1>5, <1>6, <1>7, <1>8

\* The except block is cut short, which is noted.
LEMMA HandlerCancelledStep ==
  ASSUME IInv, NEW r \in Runs, HandlerCancelled(r)
  PROVE  IInv'
<1> USE DEF IInv
<1>1. TypeOK'
  BY DEF HandlerCancelled, TypeOK, RowSet, ThreadSet, Note, Handling, Running,
         Over, Statuses, InTry, Alive, Oddities, runVars, Outcomes
<1>2. Fresh'
  BY DEF HandlerCancelled, TypeOK, Programs, Fresh, Creating, RowSet, ThreadSet,
         Note, Handling, Running, Over, Statuses, InTry, Alive, Oddities, runVars
<1>3. Outcomes'
  BY DEF HandlerCancelled, TypeOK, Outcomes, RowSet, ThreadSet, Note, Handling,
         Running, Over, Statuses, InTry, Alive, Oddities, runVars
<1>4. TasksReachable'
  BY DEF HandlerCancelled, TypeOK, Outcomes, TasksReachable, RowSet, ThreadSet,
         AliveTasks, Note, Handling, Running, Over, Statuses, InTry, Alive,
         Oddities, runVars
<1>5. NoStaleEntry'
  BY DEF HandlerCancelled, TypeOK, NoStaleEntry, RowSet, ThreadSet, Note,
         Handling, Running, Over, Statuses, InTry, Alive, Oddities, runVars
<1>6. ReleaseDue'
  BY DEF HandlerCancelled, TypeOK, Programs, ReleaseDue, Creating, Spawning,
         Writing, RowSet, ThreadSet, At, Note, Handling, Running, Over, Statuses,
         InTry, Alive, Oddities, runVars
<1>7. OneAtATime'
  BY DEF HandlerCancelled, TypeOK, OneAtATime, RowSet, ThreadSet, AliveTasks,
         Note, Handling, Running, Over, Statuses, InTry, Alive, Oddities, runVars
<1>8. Programs'
  BY DEF HandlerCancelled, Programs, Creating, RowSet, ThreadSet, Note, Handling,
         runVars
<1> QED
  BY <1>1, <1>2, <1>3, <1>4, <1>5, <1>6, <1>7, <1>8

\* A write raises.
LEMMA WriteFailsStep ==
  ASSUME IInv, NEW r \in Runs, WriteFails(r)
  PROVE  IInv'
<1> USE DEF IInv
<1>1. TypeOK'
  BY DEF WriteFails, TypeOK, NoteIf, Handling, Running, Over, Statuses, InTry,
         Alive, Oddities, runVars, Outcomes
<1>2. Fresh'
  BY DEF WriteFails, TypeOK, Programs, Fresh, Creating, NoteIf, Handling, Running,
         Over, Statuses, InTry, Alive, Oddities, runVars
<1>3. Outcomes'
  BY DEF WriteFails, TypeOK, Outcomes, NoteIf, Handling, Running, Over, Statuses,
         InTry, Alive, Oddities, runVars
<1>4. TasksReachable'
  BY DEF WriteFails, TypeOK, Outcomes, TasksReachable, AliveTasks, NoteIf,
         Handling, Running, Over, Statuses, InTry, Alive, Oddities, runVars
<1>5. NoStaleEntry'
  BY DEF WriteFails, TypeOK, NoStaleEntry, NoteIf, Handling, Running, Over,
         Statuses, InTry, Alive, Oddities, runVars
<1>6. ReleaseDue'
  BY DEF WriteFails, TypeOK, Programs, ReleaseDue, Creating, Spawning, Writing,
         At, NoteIf, Handling, Running, Over, Statuses, InTry, Alive, Oddities,
         runVars
<1>7. OneAtATime'
  BY DEF WriteFails, TypeOK, OneAtATime, AliveTasks, NoteIf, Handling, Running,
         Over, Statuses, InTry, Alive, Oddities, runVars
<1>8. Programs'
  BY DEF WriteFails, Programs, Creating, NoteIf, Handling, runVars
<1> QED
  BY <1>1, <1>2, <1>3, <1>4, <1>5, <1>6, <1>7, <1>8

\* The task leaves active_runs and ends.
LEMMA FinishStep ==
  ASSUME IInv, NEW r \in Runs, Finish(r)
  PROVE  IInv'
<1> USE DEF IInv
<1>1. TypeOK'
  BY DEF Finish, TypeOK, TaskOver, Running, Over, Statuses, InTry, Alive, Oddities
<1>2. Fresh'
  BY DEF Finish, TypeOK, Programs, Fresh, Creating, TaskOver, Running, Over,
         Statuses, InTry, Alive, Oddities
<1>3. Outcomes'
  BY DEF Finish, TypeOK, Outcomes, TaskOver, Running, Over, Statuses, InTry,
         Alive, Oddities
<1>4. TasksReachable'
  BY DEF Finish, TypeOK, Outcomes, TasksReachable, AliveTasks, TaskOver, Handling,
         Running, Over, Statuses, InTry, Alive, Oddities
<1>5. NoStaleEntry'
  BY DEF Finish, TypeOK, NoStaleEntry, TaskOver, Running, Over, Statuses, InTry,
         Alive, Oddities
<1>6. ReleaseDue'
  BY DEF Finish, TypeOK, Programs, ReleaseDue, Creating, Spawning, Writing, At,
         TaskOver, Running, Over, Statuses, InTry, Alive, Oddities
<1>7. OneAtATime'
  BY DEF Finish, TypeOK, OneAtATime, AliveTasks, TaskOver, Running, Over,
         Statuses, InTry, Alive, Oddities
<1>8. Programs'
  BY DEF Finish, Programs, Creating, TaskOver
<1> QED
  BY <1>1, <1>2, <1>3, <1>4, <1>5, <1>6, <1>7, <1>8

\* The task ends and stays in active_runs, which is noted.
LEMMA FinishBrokenStep ==
  ASSUME IInv, NEW r \in Runs, FinishBroken(r)
  PROVE  IInv'
<1> USE DEF IInv
<1>1. TypeOK'
  BY DEF FinishBroken, TypeOK, Note, TaskOver, Running, Over, Statuses, InTry,
         Alive, Oddities
<1>2. Fresh'
  BY DEF FinishBroken, TypeOK, Programs, Fresh, Creating, Note, TaskOver, Running,
         Over, Statuses, InTry, Alive, Oddities
<1>3. Outcomes'
  BY DEF FinishBroken, TypeOK, Outcomes, Note, TaskOver, Running, Over, Statuses,
         InTry, Alive, Oddities
<1>4. TasksReachable'
  BY DEF FinishBroken, TypeOK, Outcomes, TasksReachable, AliveTasks, Note,
         TaskOver, Handling, Running, Over, Statuses, InTry, Alive, Oddities
<1>5. NoStaleEntry'
  BY DEF FinishBroken, TypeOK, NoStaleEntry, Note, TaskOver, Running, Over,
         Statuses, InTry, Alive, Oddities
<1>6. ReleaseDue'
  BY DEF FinishBroken, TypeOK, Programs, ReleaseDue, Creating, Spawning, Writing,
         At, Note, TaskOver, Running, Over, Statuses, InTry, Alive, Oddities
<1>7. OneAtATime'
  BY DEF FinishBroken, TypeOK, OneAtATime, AliveTasks, Note, TaskOver, Running,
         Over, Statuses, InTry, Alive, Oddities
<1>8. Programs'
  BY DEF FinishBroken, Programs, Creating, Note, TaskOver
<1> QED
  BY <1>1, <1>2, <1>3, <1>4, <1>5, <1>6, <1>7, <1>8

\* Nothing is left of tasks and requests, which is noted.
LEMMA RestartStep ==
  ASSUME IInv, Restart
  PROVE  IInv'
<1> USE DEF IInv
<1>1. TypeOK'
  BY DEF Restart, TypeOK, Note, NoRequest, Running, Over, Statuses, InTry, Alive,
         Oddities
<1>2. Programs'
  BY DEF Restart, TypeOK, Programs, Creating, Note, NoRequest, Running, Over,
         Statuses, InTry, Alive, Oddities
<1>3. Fresh'
  BY DEF Restart, TypeOK, Programs, Fresh, Creating, Note, NoRequest, Running,
         Over, Statuses, InTry, Alive, Oddities
<1>4. Outcomes'
  BY DEF Restart, TypeOK, Outcomes, Note, NoRequest, Running, Over, Statuses,
         InTry, Alive, Oddities
<1>5. TasksReachable'
  BY DEF Restart, TypeOK, Outcomes, TasksReachable, AliveTasks, Note, Handling,
         NoRequest, Running, Over, Statuses, InTry, Alive, Oddities
<1>6. NoStaleEntry'
  BY DEF Restart, TypeOK, NoStaleEntry, Note, NoRequest, Running, Over, Statuses,
         InTry, Alive, Oddities
<1>7. ReleaseDue'
  BY DEF Restart, TypeOK, Programs, ReleaseDue, Creating, Spawning, Writing, At,
         Note, NoRequest, Running, Over, Statuses, InTry, Alive, Oddities
<1>8. OneAtATime'
  BY DEF Restart, TypeOK, OneAtATime, AliveTasks, Note, NoRequest, Running, Over,
         Statuses, InTry, Alive, Oddities
<1> QED
  BY <1>1, <1>2, <1>3, <1>4, <1>5, <1>6, <1>7, <1>8

-------------------------------------------------------------------------------
(* Theorems.                                                                 *)
LEMMA NextIInv == IInv /\ [Next]_vars => IInv'
<1> SUFFICES ASSUME IInv, [Next]_vars PROVE IInv'
  OBVIOUS
<1>1. ASSUME NEW q \in Requests, NewRequest(q) PROVE IInv'
  BY <1>1, CreateStep, CreateBatchStep, CancelRequestStep, DeleteRunStep, JoinStep,
     DeleteThreadStep DEF NewRequest, CancelStandalone
<1>2. ASSUME NEW q \in Requests, Handler(q) PROVE IInv'
  BY <1>2, SetBusyStep, SetMetadataStep, InsertRowStep, SpawnStep, SignalCancelStep,
     WriteCancelledStep, AwaitTaskStep, RemoveRunStep, PopTaskStep, DropTaskStep,
     RemoveThreadStep, JoinTimeoutStep DEF Handler
<1>3. ASSUME NEW r \in Runs, Task(r) PROVE IInv'
  BY <1>3, StartStep, WriteRunningStep, DieUnstartedStep, CheckStateStep,
     WriteStatusStep, WriteThreadStep, TaskCancelledStep, HandlerCancelledStep,
     FinishStep DEF Task
<1>4. ASSUME NEW r \in Runs,
             GraphEnds(r) \/ GraphFails(r) \/ WriteFails(r) \/ FinishBroken(r) \/ StreamCut(r)
      PROVE  IInv'
  BY <1>4, GraphEndsStep, GraphFailsStep, WriteFailsStep, FinishBrokenStep, StreamCutStep
<1>5. CASE Restart
  BY <1>5, RestartStep
<1>6. CASE UNCHANGED vars
  BY <1>6 DEF vars, taskVars, runVars, IInv, TypeOK, Programs, Creating, Fresh, Outcomes,
         TasksReachable, NoStaleEntry, ReleaseDue, Spawning, Writing, At, OneAtATime,
         AliveTasks, Handling
<1> QED
  BY <1>1, <1>2, <1>3, <1>4, <1>5, <1>6 DEF Next

\* The invariant holds in every reachable state, for any number of runs and
\* requests and whatever faults there are.
THEOREM LifecycleInvariant == Spec => []IInv
  BY InitIInv, NextIInv, PTL DEF Spec

\* No task that runs gets lost: it can be found in active_runs and cancelled, or
\* was cancelled, or is ending, whatever requests overlap (api/runs.py:415, 1457,
\* 1607 and api/threads.py:785).
THEOREM TasksStayReachable == Spec => []TasksReachable
<1>1. IInv => TasksReachable
  BY DEF IInv
<1> QED
  BY <1>1, LifecycleInvariant, PTL

\* active_runs keeps no dead task but one that died before its first step or in
\* its final flush.
THEOREM NoEntryGoesStale == Spec => []NoStaleEntry
<1>1. IInv => NoStaleEntry
  BY DEF IInv
<1> QED
  BY <1>1, LifecycleInvariant, PTL

\* A thread is not left busy, unless an except block was cut short, a task never
\* began or the process was restarted.
THEOREM ThreadsAreReleased == Spec => []ThreadReleased
<1>1. IInv => ThreadReleased
  <2> SUFFICES ASSUME IInv, Quiet, odd \intersect {"cutshort", "unstarted", "crash"} = {},
                      thread = "busy"
               PROVE  FALSE
    BY DEF ThreadReleased
  <2>1. \A q \in Requests : ~Spawning(q)
    BY DEF Quiet, Spawning, At, NoRequest
  <2>2. \A r \in Runs : ~Writing(r)
    BY DEF Quiet, Writing, InTry
  <2> QED
    BY <2>1, <2>2 DEF IInv, ReleaseDue
<1> QED
  BY <1>1, LifecycleInvariant, PTL

\* While a graph runs its thread shows busy, unless runs overlap.
THEOREM BusyIsShown == Spec => []BusyWhileRunning
<1>1. IInv => BusyWhileRunning
  BY DEF IInv, OneAtATime, BusyWhileRunning
<1> QED
  BY <1>1, LifecycleInvariant, PTL
===============================================================================
