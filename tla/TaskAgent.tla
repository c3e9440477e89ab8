----------------------------- MODULE TaskAgent -----------------------------
(***************************************************************************)
(* The graphs agent_todo and agent_ontology on one thread, over several    *)
(* turns: a planner writes a list of tasks, a dispatcher gives them to a   *)
(* worker one by one, a finalizer sums up.  agent_ontology limits the      *)
(* worker's rounds, survives its exceptions and forces a plan.             *)
(*                                                                         *)
(* LangGraph and its prebuilt nodes are external: one node per step, the   *)
(* state kept after each, START again for a new turn.  A message is known  *)
(* by its kind; rounds of one task's tools are recorded once.              *)
(***************************************************************************)
EXTENDS Naturals, Sequences, FiniteSets, SequencesExt

CONSTANTS
  WORKER_MAX_TURNS,
  SessionTurns,  \* turns that are remembered
  MaxTodos,   \* bound of the model: tasks of a plan
  MaxPlans,   \* bound of the model: write_todos calls of one message
  MaxTurns    \* bound of the model: messages of the user

ASSUME TaskAssumption ==
  /\ WORKER_MAX_TURNS \in Nat \ {0} /\ SessionTurns \in Nat \ {0}
  /\ MaxTodos \in Nat /\ MaxPlans \in Nat /\ MaxTurns \in Nat

VARIABLES
  graph,     \* which of the two graphs
  node,      \* the node that runs next, "asked" in an interrupt; "end" and
             \* "cut" after a run that came to END and one that did not
  messages,  \* kinds of the messages
  plan,      \* the lists in the planner's write_todos calls
  todos,     \* statuses of the tasks
  current_task_index,
  task_results,       \* indices (from 0) of the tasks with a result
  worker_turn_count,
  session_context,    \* the turns that are remembered, by number
  spent,     \* history: rounds of the worker since its task began
  turns      \* messages of the user so far

planVars == <<plan, todos, current_task_index, task_results>>
countVars == <<worker_turn_count, spent>>
taskVars == <<graph, node, messages, planVars, countVars, session_context, turns>>

TaskGraphs == {"agent_todo", "agent_ontology"}
Kinds == {"human", "text", "plan", "planned", "call", "result"}
Statuses == {"open", "completed", "failed"}

\* The message that answers one with tool calls.
AnswerTo(kind) == IF kind = "plan" THEN "planned" ELSE "result"
HasCalls(kind) == kind \in {"plan", "call"}

Unanswered(ms, m) ==
  HasCalls(ms[m]) /\ (m = Len(ms) \/ ms[m + 1] # AnswerTo(ms[m]))

TaskTypeOK ==
  /\ graph \in TaskGraphs
  /\ node \in {"end", "cut", "file_saver", "patcher", "summarizer", "planner",
               "planner_tools", "dispatcher", "worker", "worker_tools",
               "asked", "task_completer", "finalizer"}
  /\ messages \in Seq(Kinds)
  /\ todos \in Seq(Statuses)
  /\ current_task_index \in 0..MaxTodos
  /\ task_results \subseteq 0..MaxTodos
  /\ worker_turn_count \in 0..WORKER_MAX_TURNS
  /\ session_context \in Seq(1..MaxTurns) /\ Len(session_context) <= SessionTurns

InitTasks ==
  /\ graph \in TaskGraphs /\ node = "end"
  /\ messages = <<>> /\ plan = <<>> /\ todos = <<>>
  /\ current_task_index = 0 /\ task_results = {}
  /\ worker_turn_count = 0 /\ spent = 0 /\ turns = 0
  /\ session_context = <<>>

-----------------------------------------------------------------------------
(* A turn begins.                                                          *)

\* A run with input; on an interrupted thread it is refused.
UserMessage ==
  /\ node \in {"end", "cut"} /\ turns < MaxTurns
  /\ turns' = turns + 1
  /\ messages' = Append(messages, "human")
  /\ node' = "file_saver"
  /\ UNCHANGED <<graph, planVars, countVars, session_context>>

\* Uploaded files go to the disk, their blocks become text: the message
\* keeps its place and its kind.
FileSaver ==
  /\ node = "file_saver"
  /\ node' = "patcher"
  /\ UNCHANGED <<graph, messages, planVars, countVars, session_context, turns>>

\* Mutant: the node is there and does nothing.
Patched_Not(ms) == ms

\* Every tool call without an answer gets one.
Patched(ms) ==
  FlattenSeq([m \in DOMAIN ms |->
    IF Unanswered(ms, m) THEN <<ms[m], AnswerTo(ms[m])>> ELSE <<ms[m]>>])

Patcher ==
  /\ node = "patcher"
  /\ messages' = Patched(messages)
  /\ node' = "summarizer"
  /\ UNCHANGED <<graph, planVars, countVars, session_context, turns>>

\* Old messages may be replaced by one; answers stay with their calls.
Summarizer ==
  /\ node = "summarizer"
  /\ \/ UNCHANGED messages
     \/ \E m \in 2..Len(messages) :
          /\ messages[m] \notin {"planned", "result"}
          /\ messages' = <<"human">> \o SubSeq(messages, m, Len(messages))
  /\ node' = "planner"
  /\ UNCHANGED <<graph, planVars, countVars, session_context, turns>>

-----------------------------------------------------------------------------
(* The planner.                                                            *)

\* The lists of the write_todos calls the message ends up with: a call of
\* another tool becomes a list of one task.
Plans == UNION {[1..n -> 0..MaxTodos] : n \in 1..MaxPlans}

\* Mutant: the index of the turn before stays.
ResetState_KeepsIndex ==
  /\ task_results' = {} /\ todos' = <<>>
  /\ UNCHANGED current_task_index

\* What every planner step writes first; the rounds of the worker are not
\* among it.
ResetState ==
  /\ current_task_index' = 0 /\ task_results' = {} /\ todos' = <<>>

\* Tool calls are carried out; without them the planner is asked again.
RoutePlannerOutput(kind) == IF HasCalls(kind) THEN "planner_tools" ELSE "planner"

\* A model that calls no tool is asked again, for as long as it takes.
TodoPlanner ==
  /\ graph = "agent_todo" /\ node = "planner"
  /\ ResetState
  /\ \/ /\ plan' \in Plans
        /\ messages' = Append(messages, "plan")
     \/ /\ plan' = <<>>
        /\ messages' = IF Last(messages) = "text" THEN messages
                       ELSE Append(messages, "text")
  /\ node' = RoutePlannerOutput(Last(messages'))
  /\ UNCHANGED <<graph, countVars, session_context, turns>>

\* Here its text becomes a plan of one task.
OntologyPlanner ==
  /\ graph = "agent_ontology" /\ node = "planner"
  /\ ResetState
  /\ plan' \in Plans \union {<<1>>}
  /\ messages' = Append(messages, "plan")
  /\ node' = RoutePlannerOutput("plan")
  /\ UNCHANGED <<graph, countVars, session_context, turns>>

\* `todos` takes one value in a step: two write_todos calls fail the run.
PlannerTools ==
  /\ node = "planner_tools"
  /\ IF Len(plan) = 1
     THEN /\ todos' = [i \in 1..plan[1] |-> "open"]
          /\ messages' = Append(messages, "planned")
          /\ node' = "dispatcher"
     ELSE node' = "cut" /\ UNCHANGED <<messages, todos>>
  /\ UNCHANGED <<graph, plan, current_task_index, task_results, countVars, session_context, turns>>

-----------------------------------------------------------------------------
(* The tasks.                                                              *)

RouteDispatcher ==
  IF todos = <<>> THEN "end"
  ELSE IF current_task_index < Len(todos) THEN "worker"
  ELSE IF Len(todos) = 1 THEN "end" ELSE "finalizer"

Dispatcher ==
  /\ node = "dispatcher"
  /\ node' = RouteDispatcher
  /\ spent' = 0
  /\ UNCHANGED <<graph, messages, planVars, worker_turn_count, session_context, turns>>

\* The messages a worker is given: back to the user's, a text or the plan.
ReactHistory ==
  LET ends == {m \in DOMAIN messages : messages[m] \in {"human", "text", "plan"}}
  IN SubSeq(messages, Max(ends \union {0}) + 1, Len(messages))

RouteWorkerOutput(kind) ==
  IF HasCalls(kind) THEN "worker_tools" ELSE "task_completer"

\* The state after the worker's message.  A further round of the same task
\* is not recorded again.
Say(kind) ==
  /\ messages' = IF kind = "call" /\ Last(messages) = "result"
                 THEN Front(messages) ELSE Append(messages, kind)
  /\ node' = RouteWorkerOutput(kind)
  /\ spent' = IF kind = "call" /\ spent < WORKER_MAX_TURNS THEN spent + 1 ELSE spent

\* Calls of tools, or a text that is the task's result.
TodoWorker ==
  /\ graph = "agent_todo" /\ node = "worker"
  /\ \E kind \in {"call", "text"} : Say(kind)
  /\ UNCHANGED <<graph, planVars, worker_turn_count, session_context, turns>>

\* Mutant: the rounds are not counted.
Rounds_Same == worker_turn_count
Rounds == worker_turn_count + 1

\* Too many rounds of one task: a text ends it.
ForceCompletion ==
  /\ worker_turn_count >= WORKER_MAX_TURNS
  /\ Say("text")
  /\ worker_turn_count' = 0
  /\ UNCHANGED todos

WorkerAnswers ==
  /\ worker_turn_count < WORKER_MAX_TURNS
  /\ \E kind \in {"call", "text"} : Say(kind)
  /\ worker_turn_count' = Rounds
  /\ UNCHANGED todos

\* A call for a sensitive path becomes a text, which ends the task.
BlockSensitivePaths ==
  /\ worker_turn_count < WORKER_MAX_TURNS
  /\ Say("text")
  /\ worker_turn_count' = 0
  /\ UNCHANGED todos

WorkerRaises ==
  /\ worker_turn_count < WORKER_MAX_TURNS
  /\ Say("text")
  /\ worker_turn_count' = 0
  /\ todos' = [todos EXCEPT ![current_task_index + 1] = "failed"]

OntologyWorker ==
  /\ graph = "agent_ontology" /\ node = "worker"
  /\ ForceCompletion \/ WorkerAnswers \/ BlockSensitivePaths \/ WorkerRaises
  /\ UNCHANGED <<graph, plan, current_task_index, task_results, session_context, turns>>

\* ToolNode; call_subagent, which agent_ontology has, interrupts first.
WorkerTools ==
  /\ node = "worker_tools"
  /\ \/ messages' = Append(messages, "result") /\ node' = "worker"
     \/ graph = "agent_ontology" /\ node' = "asked" /\ UNCHANGED messages
  /\ UNCHANGED <<graph, planVars, countVars, session_context, turns>>

\* A run with command.resume begins the node again.
ResumeTools ==
  /\ node = "asked"
  /\ node' = "worker_tools"
  /\ UNCHANGED <<graph, messages, planVars, countVars, session_context, turns>>

\* The turns that are remembered, of which the worker is told.
AppendSessionContext ==
  session_context' =
    LET all == Append(session_context, turns) IN
    SubSeq(all, Max({1, Len(all) + 1 - SessionTurns}), Len(all))

\* Whatever the task came to, it is completed.
CompleteTask ==
  /\ todos' = [todos EXCEPT ![current_task_index + 1] = "completed"]
  /\ task_results' = task_results \union {current_task_index}
  /\ current_task_index' = current_task_index + 1
  /\ node' = "dispatcher"
  /\ UNCHANGED <<graph, messages, plan, spent, turns>>

TodoCompleter ==
  /\ graph = "agent_todo" /\ node = "task_completer"
  /\ CompleteTask
  /\ UNCHANGED <<worker_turn_count, session_context>>

OntologyCompleter ==
  /\ graph = "agent_ontology" /\ node = "task_completer"
  /\ CompleteTask
  /\ worker_turn_count' = 0
  /\ IF Len(todos) = 1 THEN AppendSessionContext ELSE UNCHANGED session_context

\* Sums the results up; agent_ontology remembers the turn.
Finalizer ==
  /\ node = "finalizer"
  /\ messages' = Append(messages, "text")
  /\ node' = "end"
  /\ IF graph = "agent_ontology" THEN AppendSessionContext
     ELSE UNCHANGED session_context
  /\ UNCHANGED <<graph, planVars, countVars, turns>>

-----------------------------------------------------------------------------
\* A cancellation, an exception or the end of the permitted steps.
CutTurn ==
  /\ node \notin {"end", "cut", "asked"}
  /\ node' = "cut"
  /\ UNCHANGED <<graph, messages, planVars, countVars, session_context, turns>>

\* What the event loop does by itself once a run has begun.
RunNode ==
  \/ FileSaver \/ Patcher \/ Summarizer
  \/ TodoPlanner \/ OntologyPlanner \/ PlannerTools
  \/ Dispatcher \/ TodoWorker \/ OntologyWorker \/ WorkerTools
  \/ TodoCompleter \/ OntologyCompleter \/ Finalizer

NextTasks == UserMessage \/ RunNode \/ ResumeTools \/ CutTurn

-----------------------------------------------------------------------------
\* A model that plans sees no tool call without its answer, whatever became
\* of the turns before: providers refuse such a history.
PlannerSeesPairs ==
  node = "planner" => \A m \in DOMAIN messages : ~Unanswered(messages, m)

\* A run that comes to END has worked through its own plan: every task has
\* its result, none is left open, no result is left over; and agent_ontology
\* remembers it, once, with the plan's text or the finalizer's.
PlanWorkedThrough ==
  node = "end" /\ turns > 0 =>
    /\ task_results = {i - 1 : i \in DOMAIN todos}
    /\ current_task_index = Len(todos)
    /\ \A i \in DOMAIN todos : todos[i] # "open"
    /\ graph = "agent_ontology" /\ todos # <<>> =>
         {i \in DOMAIN session_context : session_context[i] = turns}
           = {Len(session_context)}

\* Under fairness of RunNode: with its limits a turn of agent_ontology comes
\* to an end or to a question to the user.
TurnEnds ==
  graph = "agent_ontology" => []<>(node \in {"end", "cut", "asked"})

\* The comment of WORKER_MAX_TURNS: a worker may use its rounds within one
\* task before it is ended by force.
OwnRounds ==
  graph = "agent_ontology" /\ node = "worker"
    /\ worker_turn_count >= WORKER_MAX_TURNS => spent >= WORKER_MAX_TURNS

\* The comment of the worker: the history it is given is the current task's.
OwnHistory == node = "worker" => \A k \in DOMAIN ReactHistory :
                                   ReactHistory[k] # "planned"

\* The README of the agent: the completer marks what the worker reports done.
FailedStaysFailed ==
  [][\A i \in DOMAIN todos \intersect DOMAIN todos' :
       todos[i] = "failed" /\ node = "task_completer" => todos'[i] = "failed"]_taskVars
=============================================================================
