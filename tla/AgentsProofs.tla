---------------------------- MODULE AgentsProofs ----------------------------
(***************************************************************************)
(* What the agents' graphs guarantee for any number of turns, tools, calls *)
(* and tasks, wherever a turn is cut and however often a node begins again.*)
(***************************************************************************)
EXTENDS MCAgents, SequenceTheorems, FiniteSetTheorems, WellFoundedInduction, TLAPS

-----------------------------------------------------------------------------
(* SubagentCalls: the inductive invariant.                                 *)
SubagentSpec == InitSubagents /\ [][NextSubagents]_subagentVars

Labels == {"none", "check", "lookup", "thread", "create", "save", "post", "store", "kept", "over"}

SubagentTypes ==
  /\ faulty \in BOOLEAN /\ round \in Nat
  /\ pc \in [Executions -> [SubCalls -> Labels]]
  /\ known \in [Executions -> SUBSET SubCalls]

\* Executions to come have not moved, and have posted nothing.
NotBegun ==
  /\ \A r \in Executions, c \in SubCalls : r > round => pc[r][c] = "none"
  /\ \A p \in posts : p.round \in Executions /\ p.round <= round

\* A store that works has every response that was kept, ...
ResponsesKept ==
  /\ \A r \in Executions, c \in SubCalls : pc[r][c] = "kept" => c \in cached
  /\ \A r \in Executions : known[r] \subseteq cached

\* ... so that a call on its way to the remote agent had none.
Asks(r, c) == pc[r][c] \in {"thread", "create", "save", "post"}
AsksAnew == \A r \in Executions, c \in SubCalls : Asks(r, c) => c \notin known[r]

SubagentInv ==
  /\ SubagentTypes /\ NotBegun
  /\ faulty \/ (ResponsesKept /\ AsksAnew)
  /\ NotAskedAgain

-----------------------------------------------------------------------------
(* SubagentCalls: every action keeps it.                                   *)

\* One call moves on within its execution.
LEMMA CallMoves ==
  ASSUME SubagentInv, NEW r \in Executions, NEW c \in SubCalls, NEW label \in Labels,
         Move(r, c, label), pc[r][c] # "none", UNCHANGED <<faulty, round, known>>,
         cached \subseteq cached', label = "kept" => faulty \/ c \in cached',
         label \in {"thread", "create", "save", "post"} => faulty \/ c \notin known[r],
         \A p \in posts' : p \in posts \/ (p.call = c /\ p.round = r /\ Asks(r, c))
  PROVE  SubagentInv'
<1> USE DEF SubagentInv
<1>1. /\ pc' \in [Executions -> [SubCalls -> Labels]]
      /\ pc'[r][c] = label
      /\ \A x \in Executions, d \in SubCalls : x # r \/ d # c => pc'[x][d] = pc[x][d]
  BY DEF Move, SubagentTypes
<1>2. SubagentTypes'
  BY <1>1 DEF SubagentTypes
<1>3. r <= round
  BY DEF NotBegun, SubagentTypes, Executions
<1>4. NotBegun'
  BY <1>1, <1>3 DEF NotBegun, SubagentTypes, Executions
<1>5. faulty' \/ (ResponsesKept' /\ AsksAnew')
  BY <1>1 DEF ResponsesKept, AsksAnew, Asks
<1>6. NotAskedAgain'
  BY DEF NotAskedAgain, AsksAnew
<1> QED
  BY <1>2, <1>4, <1>5, <1>6

LEMMA CallStep ==
  ASSUME SubagentInv, NEW r \in Executions, NEW c \in SubCalls,
         \/ CheckAgent(r, c) \/ Lookup(r, c) \/ FindThread(r, c) \/ CreateThread(r, c)
         \/ SaveThread(r, c) \/ Post(r, c) \/ StoreResponse(r, c)
  PROVE  SubagentInv'
<1>1. faulty \/ (Asks(r, c) => c \notin known[r])
  BY DEF SubagentInv, AsksAnew
<1>2. faulty \/ known[r] \subseteq cached
  BY DEF SubagentInv, ResponsesKept
<1>3. CASE CheckAgent(r, c)
  <2>1. PICK label \in {"over", "lookup"} : Move(r, c, label)
    BY <1>3 DEF CheckAgent, Interrupt
  <2>2. pc[r][c] # "none" /\ UNCHANGED <<faulty, round, known, cached, posts>>
    BY <1>3 DEF CheckAgent, storeVars
  <2> QED
    BY <2>1, <2>2, CallMoves DEF Labels
<1>4. CASE Lookup(r, c)
  <2>1. pc[r][c] # "none" /\ UNCHANGED <<faulty, round, known, cached, posts>>
    BY <1>4 DEF Lookup, storeVars, nodeVars
  <2>2. PICK label \in {"kept", "thread", "over"} :
          /\ Move(r, c, label) /\ (label = "kept" => c \in cached)
          /\ label = "thread" => c \notin cached \/ faulty
    BY <1>4 DEF Lookup
  <2>3. label = "thread" => faulty \/ c \notin known[r]
    BY <1>2, <2>2
  <2> QED
    BY <2>1, <2>2, <2>3, CallMoves DEF Labels
<1>5. CASE FindThread(r, c) \/ CreateThread(r, c) \/ SaveThread(r, c)
  <2>1. pc[r][c] # "none" /\ UNCHANGED <<faulty, round, known, cached, posts>> /\ Asks(r, c)
    BY <1>5 DEF FindThread, CreateThread, SaveThread, storeVars, nodeVars, Asks
  <2>2. PICK label \in {"post", "create", "save"} : Move(r, c, label)
    BY <1>5 DEF FindThread, CreateThread, SaveThread
  <2> QED
    BY <1>1, <2>1, <2>2, CallMoves DEF Labels
<1>6. CASE Post(r, c)
  <2>1. /\ pc[r][c] # "none" /\ UNCHANGED <<faulty, round, known, cached>> /\ Asks(r, c)
        /\ posts' = posts \union {[call |-> c, round |-> r, thread |-> target[r][c]]}
    BY <1>6 DEF Post, storeVars, nodeVars, Asks
  <2>2. PICK label \in {"store", "over"} : Move(r, c, label)
    BY <1>6 DEF Post
  <2>3. \A p \in posts' : p \in posts \/ (p.call = c /\ p.round = r /\ Asks(r, c))
    BY <2>1
  <2> QED
    BY <2>1, <2>2, <2>3, CallMoves DEF Labels
<1>7. CASE StoreResponse(r, c)
  <2>1. /\ pc[r][c] # "none" /\ UNCHANGED <<faulty, round, known, posts>>
        /\ Move(r, c, "kept") /\ cached \subseteq cached' /\ (faulty \/ c \in cached')
    BY <1>7 DEF StoreResponse, nodeVars
  <2> QED
    BY <2>1, CallMoves DEF Labels
<1> QED
  BY <1>3, <1>4, <1>5, <1>6, <1>7

LEMMA DecideCallStep ==
  ASSUME SubagentInv, NEW value, DecideCall(value)
  PROVE  SubagentInv'
<1> USE DEF SubagentInv
<1>1. /\ round \in Nat /\ MaxRounds \in Nat /\ round < MaxRounds
      /\ round' = round + 1 /\ round + 1 \in Executions
      /\ UNCHANGED <<faulty, cached, posts>>
  BY SubagentAssumption DEF SubagentTypes, DecideCall, storeVars, Executions
<1>2. PICK K : K = {c \in SubCalls : \E r \in 1..round : pc[r][c] = "kept"}
  OBVIOUS
<1>3. known' = [known EXCEPT ![round + 1] = K]
  BY <1>2 DEF DecideCall
<1>4. /\ known' \in [Executions -> SUBSET SubCalls] /\ known'[round + 1] = K
      /\ \A r \in Executions : r # round + 1 => known'[r] = known[r]
  BY <1>1, <1>2, <1>3 DEF SubagentTypes
<1>5. /\ pc' \in [Executions -> [SubCalls -> Labels]]
      /\ \A c \in SubCalls : pc'[round + 1][c] = "check"
      /\ \A r \in Executions : r # round + 1 => pc'[r] = pc[r]
  BY <1>1 DEF DecideCall, SubagentTypes, Labels
<1>6. SubagentTypes'
  BY <1>1, <1>4, <1>5 DEF SubagentTypes
<1>7. NotBegun'
  BY <1>1, <1>5 DEF NotBegun, Executions
<1>8. faulty \/ K \subseteq cached
  BY <1>1, <1>2 DEF ResponsesKept, Executions
<1>9. faulty' \/ (ResponsesKept' /\ AsksAnew')
  <2>1. ASSUME ResponsesKept, K \subseteq cached PROVE ResponsesKept'
    BY <1>1, <1>4, <1>5, <2>1 DEF ResponsesKept
  <2>2. ASSUME AsksAnew PROVE AsksAnew'
    BY <1>4, <1>5, <2>2 DEF AsksAnew, Asks
  <2> QED
    BY <1>1, <1>8, <2>1, <2>2
<1>10. NotAskedAgain'
  <2>1. \A p \in posts : p.round \in Executions /\ p.round # round + 1
    BY <1>1 DEF NotBegun, Executions
  <2> QED
    BY <1>1, <1>4, <2>1 DEF NotAskedAgain
<1> QED
  BY <1>6, <1>7, <1>9, <1>10

LEMMA InitSubagentInv == InitSubagents => SubagentInv
<1> SUFFICES ASSUME InitSubagents PROVE SubagentInv
  OBVIOUS
<1>1. SubagentTypes
  BY DEF InitSubagents, SubagentTypes, Labels
<1>2. NotBegun
  BY DEF InitSubagents, NotBegun, Executions
<1>3. ResponsesKept /\ AsksAnew /\ NotAskedAgain
  BY DEF InitSubagents, ResponsesKept, AsksAnew, NotAskedAgain
<1> QED
  BY <1>1, <1>2, <1>3 DEF SubagentInv

LEMMA NextSubagentInv == SubagentInv /\ [NextSubagents]_subagentVars => SubagentInv'
<1> SUFFICES ASSUME SubagentInv, [NextSubagents]_subagentVars PROVE SubagentInv'
  OBVIOUS
<1>1. CASE NodeEnds \/ UNCHANGED subagentVars
  <2>1. UNCHANGED <<faulty, round, pc, known, cached, posts>>
    BY <1>1 DEF NodeEnds, subagentVars, storeVars
  <2> QED
    BY <2>1 DEF SubagentInv, SubagentTypes, NotBegun, ResponsesKept, AsksAnew, Asks, NotAskedAgain
<1> QED
  BY <1>1, CallStep, DecideCallStep DEF NextSubagents

-----------------------------------------------------------------------------
(* SubagentCalls: theorem.                                                 *)

\* However many times the node begins again, and however its calls interleave,
\* a call whose response had come is not posted once more (call_subagent and
\* its response cache).
THEOREM CallsAreNotRepeated == SubagentSpec => []NotAskedAgain
<1>1. SubagentInv => NotAskedAgain
  BY DEF SubagentInv
<1> QED
  BY <1>1, InitSubagentInv, NextSubagentInv, PTL DEF SubagentSpec

-----------------------------------------------------------------------------
(* ResearchAgent: the inductive invariant.                                 *)
ResearchSpec == InitResearch /\ [][NextResearch]_researchVars

ResearchTypes ==
  /\ log \in Seq(Nat) /\ asked \in Nat
  /\ search_queries \in Nat /\ current_search_idx \in Nat
  /\ current_chunk_idx \in Nat /\ summary_chunks \in Seq(SUBSET Nat)

\* The results since the user's message are those of this turn; the last one
\* has come when a search is over.
Searched ==
  /\ stage \notin {"end", "cut"} => asked > 0
  /\ \A m \in Results : log[m] = asked
  /\ stage \in {"research_progress", "summary_planner"} =>
       Len(log) > 0 /\ log[Len(log)] = asked

\* Where the counters stand in each stage.
Progress ==
  /\ stage \in {"research_executor", "tools", "research_progress"} =>
       current_search_idx < search_queries
  /\ stage \in {"summary_planner", "summary_mapper", "summary_reducer"} =>
       current_search_idx = search_queries
  /\ stage = "summary_mapper" => current_chunk_idx < Len(summary_chunks)
  /\ stage = "summary_reducer" => current_chunk_idx = Len(summary_chunks)

\* Chunks, summaries and the report are of this turn.
FromTurn(summaries) == \A i \in DOMAIN summaries : summaries[i].from = {asked}
Summed ==
  /\ stage = "summary_mapper" => \A i \in DOMAIN summary_chunks : summary_chunks[i] = {asked}
  /\ stage \in {"summary_mapper", "summary_reducer"} => FromTurn(partial_summaries)

ResearchInv == ResearchTypes /\ Searched /\ Progress /\ Summed /\ ResearchWorkedThrough

-----------------------------------------------------------------------------
(* ResearchAgent: every action keeps it.                                   *)
LEMMA AskResearchStep ==
  ASSUME ResearchInv, AskResearch
  PROVE  ResearchInv'
<1>1. /\ log' \in Seq(Nat) /\ Len(log') = Len(log) + 1 /\ log'[Len(log')] = User
      /\ asked' = asked + 1 /\ asked \in Nat /\ stage' = "research_planner"
  BY AppendProperties DEF AskResearch, ResearchInv, ResearchTypes, User
<1>2. Results' = {}
  BY <1>1, LenProperties DEF Results
<1> QED
  BY <1>1, <1>2 DEF AskResearch, ResearchInv, ResearchTypes, searchVars, chunkVars, Searched,
     Progress, Summed, ResearchWorkedThrough

LEMMA SearchStep ==
  ASSUME ResearchInv, ResearchPlanner \/ ResearchExecutor \/ ResearchProgress \/ CutResearch
  PROVE  ResearchInv'
<1>1. /\ UNCHANGED <<log, asked, chunkVars>> /\ Results' = Results
      /\ stage' # "end" /\ stage \notin {"end", "cut"}
  BY DEF ResearchPlanner, ResearchExecutor, ResearchProgress, CutResearch, searchVars, Results,
     ShouldContinueSearch
<1>2. /\ search_queries' \in Nat /\ current_search_idx' \in Nat
      /\ stage' # "cut" => Progress'
      /\ stage' \notin {"research_progress", "summary_mapper", "summary_reducer"}
      /\ stage' = "summary_planner" => stage = "research_progress"
  <2>1. CASE ResearchPlanner
    BY <2>1, ResearchAssumption DEF ResearchPlanner, Progress
  <2>2. CASE ResearchExecutor
    BY <2>2 DEF ResearchExecutor, Progress, searchVars, ResearchInv, ResearchTypes
  <2>3. CASE ResearchProgress
    BY <2>3 DEF ResearchProgress, Progress, ResearchInv, ResearchTypes, ShouldContinueSearch
  <2>4. CASE CutResearch
    BY <2>4 DEF CutResearch, searchVars, ResearchInv, ResearchTypes
  <2> QED
    BY <2>1, <2>2, <2>3, <2>4
<1>3. ResearchTypes'
  BY <1>1, <1>2 DEF ResearchInv, ResearchTypes, chunkVars
<1>4. Searched'
  BY <1>1, <1>2 DEF ResearchInv, Searched
<1> QED
  BY <1>1, <1>2, <1>3, <1>4 DEF ResearchInv, Progress, Summed, ResearchWorkedThrough

LEMMA SearchToolsStep ==
  ASSUME ResearchInv, SearchTools
  PROVE  ResearchInv'
<1>1. /\ log \in Seq(Nat) /\ asked \in Nat /\ asked > 0 /\ stage = "tools"
      /\ UNCHANGED <<asked, searchVars, chunkVars, report>> /\ stage' = "research_progress"
  BY DEF SearchTools, ResearchInv, ResearchTypes, Searched
<1>2. /\ log' \in Seq(Nat) /\ Len(log') = Len(log) + 1 /\ log'[Len(log')] = asked
      /\ \A m \in 1..Len(log) : log'[m] = log[m]
  BY <1>1, AppendProperties DEF SearchTools
<1>3. ASSUME NEW m \in Results' PROVE log'[m] = asked
  <2>1. m \in 1..Len(log') /\ \A n \in m..Len(log') : log'[n] # User
    BY <1>2, <1>3, LenProperties DEF Results
  <2>2. CASE m = Len(log')
    BY <1>2, <2>2
  <2>3. CASE m \in 1..Len(log)
    <3>1. \A n \in m..Len(log) : log[n] # User
      BY <1>1, <1>2, <2>1, <2>3, LenProperties
    <3>2. m \in Results
      BY <1>1, <2>3, <3>1, LenProperties DEF Results
    <3> QED
      BY <1>2, <2>3, <3>2 DEF ResearchInv, Searched
  <2> QED
    BY <1>1, <1>2, <2>1, <2>2, <2>3, LenProperties
<1>4. Len(log') > 0
  BY <1>1, <1>2, LenProperties
<1>5. ResearchTypes' /\ Searched'
  BY <1>1, <1>2, <1>3, <1>4 DEF ResearchInv, ResearchTypes, searchVars, chunkVars, Searched
<1>6. Progress'
  BY <1>1 DEF ResearchInv, Progress, searchVars
<1> QED
  BY <1>1, <1>5, <1>6 DEF ResearchInv, Summed, ResearchWorkedThrough

LEMMA SummaryPlannerStep ==
  ASSUME ResearchInv, SummaryPlanner
  PROVE  ResearchInv'
<1>1. /\ log \in Seq(Nat) /\ asked \in Nat /\ asked > 0 /\ stage = "summary_planner"
      /\ Len(log) > 0 /\ log[Len(log)] = asked
      /\ UNCHANGED <<log, asked, searchVars, report>> /\ stage' = "summary_mapper"
      /\ current_chunk_idx' = 0 /\ partial_summaries' = <<>>
  BY DEF SummaryPlanner, ResearchInv, ResearchTypes, Searched
<1>2. PICK n \in {1} \union (IF search_queries = Keywords THEN Splits ELSE {}) :
        summary_chunks' = [i \in 1..n |-> {log[m] : m \in Results}]
  BY DEF SummaryPlanner
<1>3. n \in Nat /\ n > 0
  BY <1>2, ResearchAssumption
<1>4. {log[m] : m \in Results} = {asked}
  <2>1. Len(log) \in Results
    BY <1>1, LenProperties DEF Results, User
  <2> QED
    BY <1>1, <2>1 DEF ResearchInv, Searched
<1>5. /\ summary_chunks' \in Seq(SUBSET Nat) /\ Len(summary_chunks') = n
      /\ \A i \in DOMAIN summary_chunks' : summary_chunks'[i] = {asked}
  <2>1. summary_chunks' = [i \in 1..n |-> {asked}]
    BY <1>2, <1>4
  <2>2. summary_chunks' \in Seq(SUBSET Nat)
    BY <1>1, <1>3, <2>1, IsASeq
  <2> QED
    BY <1>3, <2>1, <2>2, LenProperties
<1>6. ResearchTypes' /\ Searched'
  BY <1>1, <1>5 DEF ResearchInv, ResearchTypes, Searched, searchVars, Results
<1>7. Progress'
  BY <1>1, <1>3, <1>5 DEF ResearchInv, Progress, searchVars
<1>8. Summed'
  BY <1>1, <1>5 DEF Summed, FromTurn
<1> QED
  BY <1>1, <1>6, <1>7, <1>8 DEF ResearchInv, ResearchWorkedThrough

LEMMA SummaryMapperStep ==
  ASSUME ResearchInv, SummaryMapper
  PROVE  ResearchInv'
<1>1. /\ stage = "summary_mapper" /\ stage' \in {"summary_mapper", "summary_reducer"}
      /\ UNCHANGED <<log, asked, searchVars, summary_chunks, report>>
      /\ current_chunk_idx' = current_chunk_idx + 1
      /\ stage' = IF current_chunk_idx + 1 < Len(summary_chunks) THEN "summary_mapper"
                  ELSE "summary_reducer"
  BY DEF SummaryMapper, ShouldContinueSummary
<1>2. /\ current_chunk_idx \in Nat /\ Len(summary_chunks) \in Nat
      /\ current_chunk_idx < Len(summary_chunks)
      /\ current_chunk_idx + 1 \in DOMAIN summary_chunks
  BY <1>1, LenProperties DEF ResearchInv, ResearchTypes, Progress
<1>3. summary_chunks[current_chunk_idx + 1] = {asked}
  BY <1>1, <1>2 DEF ResearchInv, Summed
<1>4. partial_summaries' = <<[from |-> {asked}, chunk |-> current_chunk_idx]>>
  BY <1>3 DEF SummaryMapper
<1>5. FromTurn(partial_summaries)'
  BY <1>1, <1>4 DEF FromTurn
<1>6. ResearchTypes' /\ Searched'
  BY <1>1, <1>2 DEF ResearchInv, ResearchTypes, Searched, searchVars, Results
<1>7. Progress' /\ Summed'
  BY <1>1, <1>2, <1>5 DEF ResearchInv, Progress, Summed, searchVars
<1> QED
  BY <1>1, <1>6, <1>7 DEF ResearchInv, ResearchWorkedThrough

LEMMA SummaryReducerStep ==
  ASSUME ResearchInv, SummaryReducer
  PROVE  ResearchInv'
<1>1. /\ stage = "summary_reducer" /\ stage' = "end" /\ report' = partial_summaries
      /\ UNCHANGED <<log, asked, searchVars, chunkVars>>
  BY DEF SummaryReducer
<1> QED
  BY <1>1 DEF ResearchInv, ResearchTypes, Searched, Progress, Summed, FromTurn, searchVars, chunkVars,
     Results, ResearchWorkedThrough

LEMMA InitResearchInv == InitResearch => ResearchInv
<1> SUFFICES ASSUME InitResearch PROVE ResearchInv
  OBVIOUS
<1>1. log = <<>> /\ Results = {}
  BY DEF InitResearch, Results
<1> QED
  BY <1>1 DEF InitResearch, ResearchInv, ResearchTypes, Searched, Progress, Summed,
     ResearchWorkedThrough

LEMMA NextResearchInv == ResearchInv /\ [NextResearch]_researchVars => ResearchInv'
<1> SUFFICES ASSUME ResearchInv, [NextResearch]_researchVars PROVE ResearchInv'
  OBVIOUS
<1>1. CASE UNCHANGED researchVars
  BY <1>1 DEF researchVars, searchVars, chunkVars, ResearchInv, ResearchTypes, Searched, Progress,
     Summed, FromTurn, Results, ResearchWorkedThrough
<1> QED
  BY <1>1, AskResearchStep, SearchStep, SearchToolsStep, SummaryPlannerStep, SummaryMapperStep,
     SummaryReducerStep DEF NextResearch, RunResearch

-----------------------------------------------------------------------------
(* TaskAgent: the inductive invariant.                                     *)
TasksSpec == InitTasks /\ [][NextTasks]_taskVars

Busy == {"worker", "worker_tools", "asked", "task_completer"}

TaskTypes ==
  /\ todos \in Seq(Statuses) /\ plan \in Seq(Nat)
  /\ current_task_index \in Nat
  /\ session_context \in Seq(Nat) /\ turns \in Nat

\* Where the index stands in each node.
IndexStands ==
  /\ node = "planner_tools" => current_task_index = 0 /\ todos = <<>> /\ task_results = {}
  /\ node = "dispatcher" => current_task_index <= Len(todos)
  /\ node \in Busy => current_task_index < Len(todos)
  /\ node = "finalizer" => current_task_index = Len(todos)

\* The tasks before the index have their result and are not open.
ResultsOf(n) == task_results = {i - 1 : i \in 1..n} /\ \A i \in 1..n : todos[i] # "open"
DoneSoFar ==
  node \in Busy \union {"dispatcher", "finalizer"} => ResultsOf(current_task_index)

\* A turn is remembered in the end and not before: agent_ontology remembers a
\* plan of one task when that is done, another one in the finalizer.
Fresh == \A i \in DOMAIN session_context : session_context[i] < turns
Remembered ==
  {i \in DOMAIN session_context : session_context[i] = turns} = {Len(session_context)}
OneDone == graph = "agent_ontology" /\ Len(todos) = 1 /\ current_task_index = 1

Remembers ==
  /\ \A i \in DOMAIN session_context : session_context[i] <= turns
  /\ node \notin {"end", "cut", "dispatcher"} => Fresh
  /\ node = "dispatcher" => IF OneDone THEN Remembered ELSE Fresh

TaskInv == TaskTypes /\ IndexStands /\ DoneSoFar /\ Remembers /\ PlanWorkedThrough

-----------------------------------------------------------------------------
(* TaskAgent: what is remembered.                                          *)

\* The last SessionTurns turns are kept, this one among them.
LEMMA Appended ==
  ASSUME TaskTypes, Fresh, AppendSessionContext, UNCHANGED turns
  PROVE  /\ session_context' \in Seq(Nat) /\ Remembered'
         /\ \A i \in DOMAIN session_context' : session_context'[i] <= turns'
<1>1. PICK all : all = Append(session_context, turns)
  OBVIOUS
<1>2. /\ all \in Seq(Nat) /\ Len(all) = Len(session_context) + 1 /\ Len(all) \in Nat
      /\ Len(all) >= 1 /\ all[Len(all)] = turns
      /\ \A i \in 1..(Len(all) - 1) : all[i] \in Nat /\ all[i] < turns
  <2>1. session_context \in Seq(Nat) /\ turns \in Nat /\ Len(session_context) \in Nat
    BY LenProperties DEF TaskTypes
  <2>2. \A i \in 1..Len(session_context) : session_context[i] \in Nat /\ session_context[i] < turns
    BY <2>1, LenProperties DEF Fresh
  <2> QED
    BY <1>1, <2>1, <2>2, AppendProperties
<1>3. PICK m : m = Max({1, Len(all) + 1 - SessionTurns})
  OBVIOUS
<1>4. m \in 1..Len(all)
  <2>1. Len(all) + 1 - SessionTurns \in Int /\ Len(all) + 1 - SessionTurns <= Len(all)
    BY <1>2, TaskAssumption
  <2>2. PICK k \in Int : k = Len(all) + 1 - SessionTurns
    BY <2>1
  <2>3. \E x \in {1, k} : \A y \in {1, k} : x >= y
    BY <2>2
  <2>4. m \in {1, k} /\ \A y \in {1, k} : m >= y
    BY <1>3, <2>2, <2>3 DEF Max
  <2> QED
    BY <1>2, <2>1, <2>2, <2>4
<1>5. session_context' = SubSeq(all, m, Len(all))
  BY <1>1, <1>3 DEF AppendSessionContext
<1>6. /\ session_context' \in Seq(Nat) /\ Len(session_context') = Len(all) - m + 1
      /\ \A i \in 1..(Len(all) - m + 1) : session_context'[i] = all[m + i - 1]
  <2>1. PICK L \in Nat : L = Len(all)
    BY <1>2
  <2>2. \A i \in m..L : all[i] \in Nat
    BY <1>2, <1>4, <2>1, LenProperties
  <2>3. /\ SubSeq(all, m, L) \in Seq(Nat)
        /\ Len(SubSeq(all, m, L)) = IF m <= L THEN L - m + 1 ELSE 0
        /\ \A i \in 1..(L - m + 1) : SubSeq(all, m, L)[i] = all[m + i - 1]
    BY <1>4, <2>1, <2>2, SubSeqProperties
  <2> QED
    BY <1>4, <1>5, <2>1, <2>3
<1>7. \A i \in 1..Len(session_context') :
        IF i = Len(session_context') THEN session_context'[i] = turns
        ELSE session_context'[i] \in Nat /\ session_context'[i] < turns
  <2>1. PICK L \in Nat : L = Len(all)
    BY <1>2
  <2>2. m \in 1..L /\ Len(session_context') = L - m + 1
    BY <1>4, <1>6, <2>1
  <2>3. ASSUME NEW i \in 1..(L - m + 1), i # L - m + 1
        PROVE  session_context'[i] \in Nat /\ session_context'[i] < turns
    <3>1. m + i - 1 \in 1..(L - 1)
      BY <2>1, <2>2, <2>3
    <3>2. session_context'[i] = all[m + i - 1]
      BY <1>6, <2>1, <2>3
    <3> QED
      BY <1>2, <2>1, <3>1, <3>2
  <2>4. session_context'[L - m + 1] = turns
    <3>1. L - m + 1 \in 1..(L - m + 1) /\ m + (L - m + 1) - 1 = L
      BY <2>1, <2>2
    <3> QED
      BY <1>2, <1>6, <2>1, <3>1
  <2> QED
    BY <2>2, <2>3, <2>4
<1>8. Len(session_context') \in 1..Len(session_context')
  BY <1>2, <1>4, <1>6
<1>9. DOMAIN session_context' = 1..Len(session_context')
  BY <1>6, LenProperties
<1>10. turns' = turns /\ turns \in Nat
  BY DEF TaskTypes
<1>11. {i \in 1..Len(session_context') : session_context'[i] = turns} = {Len(session_context')}
  BY <1>7, <1>8, <1>10
<1>12. Remembered'
  BY <1>9, <1>10, <1>11 DEF Remembered
<1>13. ASSUME NEW i \in DOMAIN session_context' PROVE session_context'[i] <= turns'
  <2>1. i \in 1..Len(session_context')
    BY <1>9
  <2>2. session_context'[i] = turns \/ (session_context'[i] \in Nat /\ session_context'[i] < turns)
    BY <1>7, <2>1
  <2> QED
    BY <1>10, <2>2
<1> QED
  BY <1>6, <1>12, <1>13

-----------------------------------------------------------------------------
(* TaskAgent: every action keeps it.                                       *)

\* A node outside of the plan.
LEMMA OutsidePlan ==
  ASSUME TaskInv, node \notin {"end", "cut", "dispatcher"},
         UNCHANGED <<session_context, turns>>, TaskTypes',
         node' \notin Busy \union {"end", "dispatcher", "finalizer", "planner_tools"}
  PROVE  TaskInv'
BY DEF TaskInv, IndexStands, DoneSoFar, Remembers, Fresh, PlanWorkedThrough

LEMMA UserMessageStep ==
  ASSUME TaskInv, UserMessage
  PROVE  TaskInv'
<1>1. /\ node' = "file_saver" /\ turns' = turns + 1 /\ turns \in Nat
      /\ UNCHANGED <<planVars, session_context>> /\ session_context \in Seq(Nat)
      /\ \A i \in DOMAIN session_context : session_context[i] \in Nat /\ session_context[i] <= turns
  BY LenProperties DEF UserMessage, TaskInv, TaskTypes, Remembers
<1>2. \A i \in DOMAIN session_context' : session_context'[i] < turns' /\ session_context'[i] <= turns'
  BY <1>1
<1> QED
  BY <1>1, <1>2 DEF TaskInv, TaskTypes, planVars, IndexStands, DoneSoFar, Remembers, Fresh, Busy,
     PlanWorkedThrough

LEMMA PreparesStep ==
  ASSUME TaskInv, FileSaver \/ Patcher \/ Summarizer \/ CutTurn
  PROVE  TaskInv'
<1>1. /\ node' \in {"patcher", "summarizer", "planner", "cut"} /\ node \notin {"end", "cut"}
      /\ UNCHANGED <<planVars, session_context, turns>>
  BY DEF FileSaver, Patcher, Summarizer, CutTurn
<1> QED
  BY <1>1 DEF TaskInv, TaskTypes, planVars, IndexStands, DoneSoFar, Remembers, Fresh, Remembered,
     Busy, PlanWorkedThrough, CutTurn, FileSaver, Patcher, Summarizer

LEMMA PlannerStep ==
  ASSUME TaskInv, TodoPlanner \/ OntologyPlanner
  PROVE  TaskInv'
<1>1. /\ node' \in {"planner", "planner_tools"} /\ node = "planner"
      /\ current_task_index' = 0 /\ todos' = <<>> /\ task_results' = {}
      /\ plan' \in Plans \union {<<1>>, <<>>} /\ UNCHANGED <<session_context, turns>>
  BY DEF TodoPlanner, OntologyPlanner, RoutePlannerOutput, ResetState
<1>2. plan' \in Seq(Nat)
  <2>1. ASSUME NEW n \in 1..MaxPlans, NEW p \in [1..n -> 0..MaxTodos] PROVE p \in Seq(Nat)
    BY <2>1, TaskAssumption, SeqDef
  <2>2. Plans \subseteq Seq(Nat)
    BY <2>1 DEF Plans
  <2>3. <<1>> \in Seq(Nat) /\ <<>> \in Seq(Nat)
    OBVIOUS
  <2> QED
    BY <1>1, <2>2, <2>3
<1> QED
  BY <1>1, <1>2 DEF TaskInv, TaskTypes, IndexStands, DoneSoFar, Remembers, Fresh, Busy,
     PlanWorkedThrough

LEMMA PlannerToolsStep ==
  ASSUME TaskInv, PlannerTools
  PROVE  TaskInv'
<1>1. /\ node = "planner_tools" /\ current_task_index = 0 /\ todos = <<>> /\ task_results = {}
      /\ UNCHANGED <<graph, plan, current_task_index, task_results, session_context, turns>>
  BY DEF PlannerTools, TaskInv, IndexStands
<1>2. CASE Len(plan) = 1
  <2>1. plan[1] \in Nat
    <3>1. plan \in [1..1 -> Nat]
      BY <1>2, LenProperties DEF TaskInv, TaskTypes
    <3> QED
      BY <3>1
  <2>2. PICK n \in Nat : n = plan[1]
    BY <2>1
  <2>3. node' = "dispatcher" /\ todos' = [i \in 1..n |-> "open"]
    BY <1>2, <2>2 DEF PlannerTools
  <2>4. todos' \in Seq(Statuses) /\ Len(todos') = n
    <3>1. todos' \in Seq(Statuses)
      BY <2>2, <2>3, IsASeq DEF Statuses
    <3> QED
      BY <2>2, <2>3, <3>1, LenProperties
  <2>5. DoneSoFar'
    BY <1>1 DEF DoneSoFar, ResultsOf
  <2>6. Remembers'
    BY <1>1, <2>3 DEF TaskInv, Remembers, Fresh, OneDone
  <2> QED
    BY <1>1, <2>2, <2>3, <2>4, <2>5, <2>6 DEF TaskInv, TaskTypes, IndexStands, PlanWorkedThrough, Busy
<1>3. CASE Len(plan) # 1
  <2>1. node' = "cut" /\ UNCHANGED todos
    BY <1>3 DEF PlannerTools
  <2>2. TaskTypes'
    BY <1>1, <2>1 DEF TaskInv, TaskTypes
  <2> QED
    BY <1>1, <2>1, <2>2, OutsidePlan DEF Busy
<1> QED
  BY <1>2, <1>3

LEMMA DispatcherStep ==
  ASSUME TaskInv, Dispatcher
  PROVE  TaskInv'
<1>1. /\ node = "dispatcher" /\ node' = RouteDispatcher
      /\ UNCHANGED <<graph, planVars, session_context, turns>>
  BY DEF Dispatcher
<1>2. /\ todos \in Seq(Statuses) /\ Len(todos) \in Nat /\ current_task_index \in Nat
      /\ current_task_index <= Len(todos) /\ DOMAIN todos = 1..Len(todos)
      /\ todos = <<>> <=> Len(todos) = 0
  BY <1>1, LenProperties, EmptySeq DEF TaskInv, TaskTypes, IndexStands
<1>3. ResultsOf(current_task_index) /\ (IF OneDone THEN Remembered ELSE Fresh)
  BY <1>1 DEF TaskInv, DoneSoFar, Remembers
<1>4. /\ node' \in {"end", "worker", "finalizer"}
      /\ node' = "worker" => current_task_index < Len(todos)
      /\ node' = "finalizer" => current_task_index = Len(todos) /\ Len(todos) # 1
      /\ node' = "end" => current_task_index = Len(todos) /\ Len(todos) \in {0, 1}
  <2>1. CASE todos = <<>>
    BY <1>1, <1>2, <2>1 DEF RouteDispatcher
  <2>2. CASE todos # <<>> /\ current_task_index < Len(todos)
    BY <1>1, <1>2, <2>2 DEF RouteDispatcher
  <2>3. CASE todos # <<>> /\ ~(current_task_index < Len(todos))
    <3>1. current_task_index = Len(todos)
      <4>1. PICK k \in Nat, n \in Nat : k = current_task_index /\ n = Len(todos)
        BY <1>2
      <4>2. k <= n /\ ~(k < n)
        BY <1>2, <2>3, <4>1
      <4>3. k = n
        BY <4>2
      <4> QED
        BY <4>1, <4>3
    <3>2. node' = IF Len(todos) = 1 THEN "end" ELSE "finalizer"
      BY <1>1, <2>3 DEF RouteDispatcher
    <3> QED
      BY <3>1, <3>2
  <2> QED
    BY <2>1, <2>2, <2>3
<1>5. TaskTypes' /\ IndexStands' /\ DoneSoFar'
  BY <1>1, <1>3, <1>4 DEF TaskInv, TaskTypes, IndexStands, DoneSoFar, ResultsOf, Busy, planVars
<1>6. Remembers'
  <2>1. node' # "end" => ~OneDone
    BY <1>4 DEF OneDone
  <2> QED
    BY <1>1, <1>3, <1>4, <2>1 DEF TaskInv, Remembers, Fresh, planVars
<1>7. PlanWorkedThrough'
  <2>1. node' = "end" /\ graph = "agent_ontology" /\ todos # <<>> => Remembered
    BY <1>2, <1>3, <1>4 DEF OneDone
  <2> QED
    BY <1>1, <1>2, <1>3, <1>4, <2>1 DEF PlanWorkedThrough, ResultsOf, planVars, Remembered
<1> QED
  BY <1>5, <1>6, <1>7 DEF TaskInv

\* A round of the worker, its tools or a question.
LEMMA WorksStep ==
  ASSUME TaskInv, TodoWorker \/ OntologyWorker \/ WorkerTools \/ ResumeTools
  PROVE  TaskInv'
<1>1. /\ node \in Busy /\ node' \in Busy
      /\ UNCHANGED <<graph, plan, current_task_index, task_results, session_context, turns>>
  BY DEF TodoWorker, OntologyWorker, WorkerTools, ResumeTools, Say, RouteWorkerOutput, HasCalls,
     ForceCompletion, WorkerAnswers, BlockSensitivePaths, WorkerRaises, planVars, Busy
<1>2. /\ todos \in Seq(Statuses) /\ current_task_index \in Nat
      /\ current_task_index < Len(todos) /\ ResultsOf(current_task_index)
  BY <1>1 DEF TaskInv, TaskTypes, IndexStands, DoneSoFar
<1>3. \/ todos' = todos
      \/ todos' = [todos EXCEPT ![current_task_index + 1] = "failed"]
  BY DEF TodoWorker, OntologyWorker, WorkerTools, ResumeTools, ForceCompletion, WorkerAnswers,
     BlockSensitivePaths, WorkerRaises, planVars
<1>4. /\ todos' \in Seq(Statuses) /\ Len(todos') = Len(todos)
      /\ \A i \in 1..current_task_index : todos'[i] = todos[i]
  <2>1. current_task_index + 1 \in 1..Len(todos)
    BY <1>2, LenProperties
  <2>2. "failed" \in Statuses
    BY DEF Statuses
  <2> QED
    BY <1>2, <1>3, <2>1, <2>2, ExceptSeq, LenProperties
<1>5. TaskTypes' /\ IndexStands'
  BY <1>1, <1>2, <1>4 DEF TaskInv, TaskTypes, IndexStands, Busy
<1>6. DoneSoFar'
  BY <1>1, <1>2, <1>4 DEF DoneSoFar, ResultsOf
<1>7. Remembers' /\ PlanWorkedThrough'
  BY <1>1 DEF TaskInv, Remembers, Fresh, PlanWorkedThrough, Busy
<1> QED
  BY <1>5, <1>6, <1>7 DEF TaskInv

LEMMA CompleterStep ==
  ASSUME TaskInv, TodoCompleter \/ OntologyCompleter
  PROVE  TaskInv'
<1>1. /\ node = "task_completer" /\ node' = "dispatcher" /\ UNCHANGED <<graph, plan, turns>>
      /\ todos' = [todos EXCEPT ![current_task_index + 1] = "completed"]
      /\ task_results' = task_results \union {current_task_index}
      /\ current_task_index' = current_task_index + 1
  BY DEF TodoCompleter, OntologyCompleter, CompleteTask
<1>2. /\ todos \in Seq(Statuses) /\ current_task_index \in Nat /\ Len(todos) \in Nat
      /\ current_task_index < Len(todos) /\ ResultsOf(current_task_index) /\ Fresh
      /\ TaskTypes
  BY <1>1, LenProperties DEF TaskInv, TaskTypes, IndexStands, DoneSoFar, Remembers, Busy
<1>3. /\ todos' \in Seq(Statuses) /\ Len(todos') = Len(todos)
      /\ \A i \in 1..current_task_index : todos'[i] = todos[i]
      /\ todos'[current_task_index + 1] = "completed"
  <2>1. current_task_index + 1 \in 1..Len(todos)
    BY <1>2
  <2>2. "completed" \in Statuses
    BY DEF Statuses
  <2> QED
    BY <1>1, <1>2, <2>1, <2>2, ExceptSeq, LenProperties
<1>4. ResultsOf(current_task_index)'
  <2>1. \A i \in 1..(current_task_index + 1) : todos'[i] # "open"
    BY <1>2, <1>3 DEF ResultsOf
  <2>2. {i - 1 : i \in 1..current_task_index} \union {current_task_index}
          = {i - 1 : i \in 1..(current_task_index + 1)}
    BY <1>2
  <2> QED
    BY <1>1, <1>2, <2>1, <2>2 DEF ResultsOf
<1>5. /\ session_context' \in Seq(Nat)
      /\ \A i \in DOMAIN session_context' : session_context'[i] <= turns'
      /\ IF graph = "agent_ontology" /\ Len(todos) = 1 THEN Remembered' ELSE Fresh'
  <2>1. CASE graph = "agent_ontology" /\ Len(todos) = 1
    <3>1. AppendSessionContext
      BY <2>1 DEF TodoCompleter, OntologyCompleter
    <3> QED
      BY <1>1, <1>2, <2>1, <3>1, Appended
  <2>2. CASE ~(graph = "agent_ontology" /\ Len(todos) = 1)
    <3>1. UNCHANGED session_context
      BY <2>2 DEF TodoCompleter, OntologyCompleter
    <3> QED
      BY <1>1, <1>2, <2>2, <3>1 DEF TaskInv, TaskTypes, Remembers, Fresh
  <2> QED
    BY <2>1, <2>2
<1>6. OneDone' <=> graph = "agent_ontology" /\ Len(todos) = 1
  BY <1>1, <1>2, <1>3 DEF OneDone
<1>7. Remembers'
  BY <1>1, <1>5, <1>6 DEF Remembers
<1> QED
  BY <1>1, <1>2, <1>3, <1>4, <1>5, <1>7 DEF TaskInv, TaskTypes, IndexStands, DoneSoFar, Busy,
     PlanWorkedThrough

LEMMA FinalizerStep ==
  ASSUME TaskInv, Finalizer
  PROVE  TaskInv'
<1>1. /\ node = "finalizer" /\ node' = "end" /\ UNCHANGED <<graph, planVars, turns>>
      /\ IF graph = "agent_ontology" THEN AppendSessionContext ELSE UNCHANGED session_context
  BY DEF Finalizer
<1>2. /\ todos \in Seq(Statuses) /\ DOMAIN todos = 1..Len(todos) /\ TaskTypes
      /\ current_task_index = Len(todos) /\ ResultsOf(current_task_index) /\ Fresh
  BY <1>1, LenProperties DEF TaskInv, TaskTypes, IndexStands, DoneSoFar, Remembers
<1>3. /\ session_context' \in Seq(Nat)
      /\ \A i \in DOMAIN session_context' : session_context'[i] <= turns'
      /\ graph = "agent_ontology" => Remembered'
  <2>1. CASE graph = "agent_ontology"
    BY <1>1, <1>2, <2>1, Appended
  <2>2. CASE graph # "agent_ontology"
    BY <1>1, <2>2 DEF TaskInv, TaskTypes, Remembers
  <2> QED
    BY <2>1, <2>2
<1>4. PlanWorkedThrough'
  BY <1>1, <1>2, <1>3 DEF PlanWorkedThrough, ResultsOf, planVars, Remembered
<1> QED
  BY <1>1, <1>2, <1>3, <1>4 DEF TaskInv, TaskTypes, planVars, IndexStands, DoneSoFar, Remembers, Busy

LEMMA InitTaskInv == InitTasks => TaskInv
BY DEF InitTasks, TaskInv, TaskTypes, IndexStands, DoneSoFar, Remembers, Fresh, Busy,
   PlanWorkedThrough

LEMMA NextTaskInv == TaskInv /\ [NextTasks]_taskVars => TaskInv'
<1> SUFFICES ASSUME TaskInv, [NextTasks]_taskVars PROVE TaskInv'
  OBVIOUS
<1>1. CASE UNCHANGED taskVars
  BY <1>1 DEF taskVars, planVars, TaskInv, TaskTypes, IndexStands, DoneSoFar, ResultsOf, Remembers,
     Fresh, Remembered, OneDone, PlanWorkedThrough
<1> QED
  BY <1>1, UserMessageStep, PreparesStep, PlannerStep, PlannerToolsStep, DispatcherStep, WorksStep,
     CompleterStep, FinalizerStep DEF NextTasks, RunNode

-----------------------------------------------------------------------------
(* TaskAgent: what the patcher makes of the messages.                      *)

\* Every call but one at the end has its answer.
Linked(ms) ==
  \A m \in 1..Len(ms) - 1 : HasCalls(ms[m]) => ms[m + 1] = AnswerTo(ms[m])
Paired(ms) == \A m \in DOMAIN ms : ~Unanswered(ms, m)

\* What becomes of one message, and what its last part is.
Block(ms, m) == IF Unanswered(ms, m) THEN <<ms[m], AnswerTo(ms[m])>> ELSE <<ms[m]>>
EndOf(ms, m) == IF Unanswered(ms, m) THEN AnswerTo(ms[m]) ELSE ms[m]

LEMMA AnswersAnswer ==
  ASSUME NEW kind \in Kinds
  PROVE  AnswerTo(kind) \in Kinds /\ ~HasCalls(AnswerTo(kind))
BY DEF Kinds, AnswerTo, HasCalls

LEMMA PairedIs ==
  ASSUME NEW ms \in Seq(Kinds)
  PROVE  Paired(ms) <=> Linked(ms) /\ (Len(ms) > 0 => ~HasCalls(ms[Len(ms)]))
<1>1. Len(ms) \in Nat /\ DOMAIN ms = 1..Len(ms)
  BY LenProperties
<1> QED
  BY <1>1 DEF Paired, Linked, Unanswered

LEMMA BlockIs ==
  ASSUME NEW ms \in Seq(Kinds), NEW m \in 1..Len(ms)
  PROVE  /\ Block(ms, m) \in Seq(Kinds) /\ Len(Block(ms, m)) > 0
         /\ Block(ms, m)[1] = ms[m]
         /\ Block(ms, m)[Len(Block(ms, m))] = EndOf(ms, m)
         /\ Linked(Block(ms, m))
<1>1. ms[m] \in Kinds /\ AnswerTo(ms[m]) \in Kinds
  BY ElementOfSeq, AnswersAnswer
<1>2. CASE Unanswered(ms, m)
  <2>1. PICK a \in Kinds : a = ms[m]
    BY <1>1
  <2>2. PICK b \in Kinds : b = AnswerTo(ms[m])
    BY <1>1
  <2>3. Block(ms, m) = <<a, b>> /\ EndOf(ms, m) = b /\ b = AnswerTo(a)
    BY <1>2, <2>1, <2>2 DEF Block, EndOf
  <2>4. <<a, b>> \in Seq(Kinds) /\ Len(<<a, b>>) = 2 /\ <<a, b>>[1] = a /\ <<a, b>>[2] = b
    OBVIOUS
  <2>5. Linked(<<a, b>>)
    BY <2>3, <2>4 DEF Linked
  <2> QED
    BY <2>1, <2>3, <2>4, <2>5
<1>3. CASE ~Unanswered(ms, m)
  <2>1. PICK a \in Kinds : a = ms[m]
    BY <1>1
  <2>2. Block(ms, m) = <<a>> /\ EndOf(ms, m) = a
    BY <1>3, <2>1 DEF Block, EndOf
  <2>3. <<a>> \in Seq(Kinds) /\ Len(<<a>>) = 1 /\ <<a>>[1] = a
    OBVIOUS
  <2>4. Linked(<<a>>)
    BY <2>3 DEF Linked
  <2> QED
    BY <2>1, <2>2, <2>3, <2>4
<1> QED
  BY <1>2, <1>3

\* Two parts that fit make one.
LEMMA Joined ==
  ASSUME NEW p \in Seq(Kinds), NEW q \in Seq(Kinds), Linked(p), Linked(q),
         Len(p) > 0, Len(q) > 0, HasCalls(p[Len(p)]) => q[1] = AnswerTo(p[Len(p)])
  PROVE  /\ p \o q \in Seq(Kinds) /\ Linked(p \o q) /\ Len(p \o q) > 0
         /\ (p \o q)[Len(p \o q)] = q[Len(q)]
<1> DEFINE r == p \o q
<1>1. /\ r \in Seq(Kinds) /\ Len(r) = Len(p) + Len(q)
      /\ Len(p) \in Nat /\ Len(q) \in Nat
      /\ \A i \in 1..Len(r) : r[i] = IF i <= Len(p) THEN p[i] ELSE q[i - Len(p)]
  BY ConcatProperties, LenProperties
<1> HIDE DEF r
<1>2. ASSUME NEW m \in 1..Len(r) - 1, HasCalls(r[m]) PROVE r[m + 1] = AnswerTo(r[m])
  <2>1. CASE m < Len(p)
    <3>1. r[m] = p[m] /\ r[m + 1] = p[m + 1] /\ m \in 1..Len(p) - 1
      BY <1>1, <1>2, <2>1
    <3> QED
      BY <1>2, <3>1 DEF Linked
  <2>2. CASE m = Len(p)
    <3>1. /\ m \in 1..Len(r) /\ m + 1 \in 1..Len(r)
          /\ m <= Len(p) /\ ~(m + 1 <= Len(p)) /\ (m + 1) - Len(p) = 1
      BY <1>1, <1>2, <2>2
    <3>2. r[m] = p[m] /\ r[m + 1] = q[(m + 1) - Len(p)]
      BY <1>1, <3>1
    <3> QED
      BY <1>2, <2>2, <3>1, <3>2
  <2>3. CASE m > Len(p)
    <3>1. PICK k \in 1..Len(q) - 1 : k = m - Len(p)
      BY <1>1, <1>2, <2>3
    <3>2. r[m] = q[k] /\ r[m + 1] = q[k + 1]
      BY <1>1, <1>2, <2>3, <3>1
    <3> QED
      BY <1>2, <3>1, <3>2 DEF Linked
  <2> QED
    BY <1>1, <1>2, <2>1, <2>2, <2>3
<1>3. r[Len(r)] = q[Len(q)] /\ Len(r) > 0
  BY <1>1
<1> QED
  BY <1>1, <1>2, <1>3 DEF Linked, r

LEMMA LeastExists ==
  ASSUME NEW S \in SUBSET Nat, S # {}
  PROVE  \E i \in S : \A j \in S : i <= j
<1> DEFINE R == OpToRel(<, Nat)
<1>1. IsWellFoundedOn(R, Nat)
  BY NatLessThanWellFounded
<1>2. \A i, j \in Nat : i < j => <<i, j>> \in R
  BY DEF OpToRel
<1> HIDE DEF R
<1>3. PICK x \in S : \A y \in S : ~(<<y, x>> \in R)
  BY <1>1, WFMin
<1>4. \A y \in S : ~(y < x)
  BY <1>2, <1>3
<1> QED
  BY <1>4

\* FlattenSeq adds up the parts from the left.
IsFlattening(f, s, n) ==
  f = [i \in 1..n |-> IF i = 1 THEN s[i] ELSE f[i - 1] \o s[i]]

LEMMA FlatteningStep ==
  ASSUME NEW f, NEW s, NEW n, IsFlattening(f, s, n), NEW i \in 1..n
  PROVE  f[i] = IF i = 1 THEN s[i] ELSE f[i - 1] \o s[i]
<1>1. PICK h : h = [j \in 1..n |-> IF j = 1 THEN s[j] ELSE f[j - 1] \o s[j]]
  OBVIOUS
<1>2. h[i] = IF i = 1 THEN s[i] ELSE f[i - 1] \o s[i]
  BY <1>1
<1>3. f = h
  BY <1>1 DEF IsFlattening
<1> QED
  BY <1>2, <1>3

LEMMA FlatteningExists ==
  ASSUME NEW s, NEW n \in Nat
  PROVE  \E f : IsFlattening(f, s, n)
<1> DEFINE S == {m \in Nat : ~\E f : IsFlattening(f, s, m)}
<1> SUFFICES ASSUME S # {} PROVE FALSE
  OBVIOUS
<1>1. PICK m \in S : \A k \in S : m <= k
  BY LeastExists
<1>2. m # 0
  <2>1. IsFlattening([i \in 1..0 |-> s[i]], s, 0)
    BY DEF IsFlattening
  <2> QED
    BY <1>1, <2>1
<1>3. m \in Nat /\ m - 1 \in Nat /\ m - 1 \notin S
  BY <1>1, <1>2
<1>4. PICK f : IsFlattening(f, s, m - 1)
  BY <1>3
<1> DEFINE g == [i \in 1..m |-> IF i = 1 THEN s[i] ELSE f[i - 1] \o s[i]]
<1>5. \A i \in 1..m - 1 : g[i] = f[i]
  <2> SUFFICES ASSUME NEW i \in 1..m - 1 PROVE g[i] = f[i]
    OBVIOUS
  <2>1. g[i] = IF i = 1 THEN s[i] ELSE f[i - 1] \o s[i]
    BY <1>3
  <2> HIDE DEF g
  <2> QED
    BY <1>4, <2>1, FlatteningStep
<1>6. \A i \in 1..m : i # 1 => i - 1 \in 1..m - 1
  BY <1>3
<1>7. g = [i \in 1..m |-> IF i = 1 THEN s[i] ELSE g[i - 1] \o s[i]]
  BY <1>5, <1>6
<1>8. IsFlattening(g, s, m)
  BY <1>7 DEF IsFlattening
<1> QED
  BY <1>1, <1>8

LEMMA FlattenSeqIs ==
  ASSUME NEW s, Len(s) \in Nat, Len(s) # 0
  PROVE  \E f : IsFlattening(f, s, Len(s)) /\ FlattenSeq(s) = f[Len(s)]
<1>1. \E f : IsFlattening(f, s, Len(s))
  BY FlatteningExists
<1> DEFINE f == CHOOSE f : IsFlattening(f, s, Len(s))
<1>2. IsFlattening(f, s, Len(s))
  BY <1>1
<1>3. FlattenSeq(s) = f[Len(s)]
  BY DEF FlattenSeq, IsFlattening
<1> QED
  BY <1>2, <1>3

\* After the patcher every call has its answer, for messages of any length.
LEMMA PatchedIsPaired ==
  ASSUME NEW ms \in Seq(Kinds)
  PROVE  Patched(ms) \in Seq(Kinds) /\ Paired(Patched(ms))
<1> DEFINE s == [m \in DOMAIN ms |-> Block(ms, m)]
           n == Len(ms)
<1>1. n = Len(ms) /\ n \in Nat /\ DOMAIN ms = 1..n
  BY LenProperties
<1>2. s \in Seq(Seq(Kinds)) /\ Len(s) = n /\ \A m \in 1..n : s[m] = Block(ms, m)
  <2>1. \A m \in 1..n : Block(ms, m) \in Seq(Kinds)
    BY BlockIs
  <2>2. s \in Seq(Seq(Kinds))
    BY <1>1, <2>1, IsASeq
  <2> QED
    BY <1>1, <2>2, LenProperties
<1>3. Patched(ms) = FlattenSeq(s)
  BY DEF Patched, Block
<1> HIDE DEF s, n
<1>4. CASE n = 0
  <2>1. Patched(ms) = s /\ s = <<>>
    BY <1>2, <1>3, <1>4, EmptySeq DEF FlattenSeq
  <2> QED
    BY <2>1 DEF Paired
<1>5. CASE n # 0
  <2>1. PICK f : IsFlattening(f, s, n) /\ Patched(ms) = f[n]
    BY <1>1, <1>2, <1>3, <1>5, FlattenSeqIs
  <2> DEFINE Good(i) == /\ f[i] \in Seq(Kinds) /\ Linked(f[i]) /\ Len(f[i]) > 0
                        /\ f[i][Len(f[i])] = EndOf(ms, i)
             S == {i \in 1..n : ~Good(i)}
  <2>2. f[1] = Block(ms, 1) /\ \A i \in 2..n : f[i] = f[i - 1] \o Block(ms, i)
    <3>1. \A i \in 1..n : f[i] = IF i = 1 THEN s[i] ELSE f[i - 1] \o s[i]
      BY <2>1, FlatteningStep
    <3>2. 1 \in 1..n /\ \A i \in 2..n : i \in 1..n /\ i # 1
      BY <1>1, <1>5
    <3> QED
      BY <1>2, <3>1, <3>2
  <2>3. \A i \in 1..n : Good(i)
    <3> SUFFICES ASSUME S # {} PROVE FALSE
      OBVIOUS
    <3>1. PICK i \in S : \A j \in S : i <= j
      <4>1. S \in SUBSET Nat
        BY <1>1
      <4> HIDE DEF S
      <4> QED
        BY <4>1, LeastExists
    <3>2. i # 1
      <4>1. /\ Block(ms, 1) \in Seq(Kinds) /\ Linked(Block(ms, 1)) /\ Len(Block(ms, 1)) > 0
            /\ Block(ms, 1)[Len(Block(ms, 1))] = EndOf(ms, 1)
        BY <1>1, <1>5, BlockIs
      <4>2. Good(1)
        BY <2>2, <4>1
      <4> QED
        BY <3>1, <4>2
    <3>3. i \in 2..n /\ i - 1 \in 1..n /\ Good(i - 1)
      BY <1>1, <3>1, <3>2
    <3>4. HasCalls(EndOf(ms, i - 1)) => ms[i] = AnswerTo(EndOf(ms, i - 1))
      <4>1. ms[i - 1] \in Kinds /\ i - 1 # n /\ (i - 1) + 1 = i
        BY <1>1, <3>3, ElementOfSeq
      <4>2. CASE Unanswered(ms, i - 1)
        BY <4>1, <4>2, AnswersAnswer DEF EndOf
      <4>3. CASE ~Unanswered(ms, i - 1)
        <5>1. EndOf(ms, i - 1) = ms[i - 1]
          BY <4>3 DEF EndOf
        <5>2. HasCalls(ms[i - 1]) => ms[(i - 1) + 1] = AnswerTo(ms[i - 1])
          BY <1>1, <4>1, <4>3 DEF Unanswered
        <5> QED
          BY <4>1, <5>1, <5>2
      <4> QED
        BY <4>2, <4>3
    <3>5. /\ Block(ms, i) \in Seq(Kinds) /\ Linked(Block(ms, i)) /\ Len(Block(ms, i)) > 0
          /\ Block(ms, i)[1] = ms[i] /\ Block(ms, i)[Len(Block(ms, i))] = EndOf(ms, i)
      BY <1>1, <3>3, BlockIs
    <3>6. f[i] = f[i - 1] \o Block(ms, i)
      BY <2>2, <3>3
    <3>7. Good(i)
      BY <3>3, <3>4, <3>5, <3>6, Joined
    <3> QED
      BY <3>1, <3>7
  <2>4. Good(n) /\ n \in 1..Len(ms)
    BY <1>1, <1>5, <2>3
  <2>5. ~HasCalls(EndOf(ms, n))
    <3>1. ms[n] \in Kinds
      BY <2>4, ElementOfSeq
    <3> QED
      BY <1>1, <3>1, AnswersAnswer DEF EndOf, Unanswered
  <2> QED
    BY <2>1, <2>4, <2>5, PairedIs
<1> QED
  BY <1>4, <1>5

-----------------------------------------------------------------------------
(* TaskAgent: every action keeps the pairs a planner sees.                 *)
PairsInv ==
  /\ messages \in Seq(Kinds)
  /\ node \in {"summarizer", "planner"} => Paired(messages)

LEMMA MessageAdded ==
  ASSUME messages \in Seq(Kinds), NEW kind \in Kinds
  PROVE  /\ Append(messages, kind) \in Seq(Kinds)
         /\ Last(Append(messages, kind)) = kind
         /\ Paired(messages) /\ ~HasCalls(kind) => Paired(Append(messages, kind))
<1>1. /\ Append(messages, kind) \in Seq(Kinds) /\ Len(messages) \in Nat
      /\ Len(Append(messages, kind)) = Len(messages) + 1
      /\ Append(messages, kind)[Len(messages) + 1] = kind
      /\ \A m \in 1..Len(messages) : Append(messages, kind)[m] = messages[m]
  BY AppendProperties, LenProperties
<1>2. ASSUME Paired(messages), ~HasCalls(kind) PROVE Paired(Append(messages, kind))
  <2>1. Linked(messages) /\ (Len(messages) > 0 => ~HasCalls(messages[Len(messages)]))
    BY <1>2, PairedIs
  <2>2. Linked(Append(messages, kind))
    <3> SUFFICES ASSUME NEW m \in 1..Len(messages), HasCalls(messages[m])
                 PROVE  Append(messages, kind)[m + 1] = AnswerTo(messages[m])
      BY <1>1 DEF Linked
    <3>1. m \in 1..Len(messages) - 1
      BY <1>1, <2>1
    <3>2. m + 1 \in 1..Len(messages) /\ messages[m + 1] = AnswerTo(messages[m])
      BY <1>1, <2>1, <3>1 DEF Linked
    <3> QED
      BY <1>1, <3>2
  <2> QED
    BY <1>1, <1>2, <2>2, PairedIs
<1> QED
  BY <1>1, <1>2 DEF Last

LEMMA SummarizerPairs ==
  ASSUME PairsInv, Summarizer
  PROVE  PairsInv'
<1>1. /\ messages \in Seq(Kinds) /\ Paired(messages) /\ Len(messages) \in Nat
      /\ node' = "planner" /\ DOMAIN messages = 1..Len(messages)
  BY LenProperties DEF Summarizer, PairsInv
<1>2. CASE UNCHANGED messages
  BY <1>1, <1>2 DEF PairsInv
<1>3. ASSUME NEW m \in 2..Len(messages),
             messages' = <<"human">> \o SubSeq(messages, m, Len(messages))
      PROVE  PairsInv'
  <2> DEFINE t == SubSeq(messages, m, Len(messages))
  <2>1. \A i \in m..Len(messages) : messages[i] \in Kinds
    BY <1>1, <1>3, ElementOfSeq
  <2>2. /\ t \in Seq(Kinds) /\ Len(t) = Len(messages) - m + 1
        /\ \A i \in 1..Len(messages) - m + 1 : t[i] = messages[m + i - 1]
    BY <1>1, <1>3, <2>1, SubSeqProperties
  <2> HIDE DEF t
  <2>3. Linked(messages) /\ ~HasCalls(messages[Len(messages)])
    <3>1. Len(messages) > 0
      BY <1>1
    <3> QED
      BY <1>1, <3>1, PairedIs
  <2>4. Linked(t)
    <3> SUFFICES ASSUME NEW i \in 1..Len(t) - 1, HasCalls(t[i]) PROVE t[i + 1] = AnswerTo(t[i])
      BY DEF Linked
    <3>1. PICK k \in 1..Len(messages) - 1 : k = m + i - 1
      BY <1>1, <1>3, <2>2
    <3>2. t[i] = messages[k] /\ t[i + 1] = messages[k + 1]
      BY <1>1, <1>3, <2>2, <3>1
    <3> QED
      BY <2>3, <3>1, <3>2 DEF Linked
  <2>5. /\ <<"human">> \in Seq(Kinds) /\ Len(<<"human">>) = 1 /\ <<"human">>[1] = "human"
        /\ ~HasCalls("human")
    BY DEF Kinds, HasCalls
  <2>6. Linked(<<"human">>)
    BY <2>5 DEF Linked
  <2>7. t[Len(t)] = messages[Len(messages)] /\ Len(t) > 0
    BY <1>1, <1>3, <2>2
  <2>8. PICK h \in Seq(Kinds) : h = <<"human">>
    BY <2>5
  <2>9. /\ h \o t \in Seq(Kinds) /\ Linked(h \o t)
        /\ (h \o t)[Len(h \o t)] = t[Len(t)]
    <3>1. Linked(h) /\ Len(h) > 0 /\ ~HasCalls(h[Len(h)])
      BY <2>5, <2>6, <2>8
    <3> QED
      BY <2>2, <2>4, <2>7, <3>1, Joined
  <2>10. messages' = h \o t
    BY <1>3, <2>8 DEF t
  <2> QED
    BY <2>3, <2>7, <2>9, <2>10, PairedIs DEF PairsInv
<1> QED
  BY <1>2, <1>3 DEF Summarizer

LEMMA PlannerPairs ==
  ASSUME PairsInv, TodoPlanner \/ OntologyPlanner
  PROVE  PairsInv'
<1>1. messages \in Seq(Kinds) /\ Paired(messages)
  BY DEF PairsInv, TodoPlanner, OntologyPlanner
<1>2. CASE messages' = Append(messages, "plan") /\ node' = RoutePlannerOutput("plan")
  BY <1>1, <1>2, MessageAdded DEF PairsInv, RoutePlannerOutput, HasCalls, Kinds
<1>3. CASE messages' = Append(messages, "plan") /\ node' = RoutePlannerOutput(Last(messages'))
  BY <1>1, <1>2, <1>3, MessageAdded DEF Kinds
<1>4. CASE messages' = messages \/ messages' = Append(messages, "text")
  BY <1>1, <1>4, MessageAdded DEF PairsInv, HasCalls, Kinds
<1> QED
  BY <1>2, <1>3, <1>4 DEF TodoPlanner, OntologyPlanner

\* The worker and its tools, whose messages are not for the planner yet.
LEMMA SaysKinds ==
  ASSUME messages \in Seq(Kinds), NEW kind \in {"call", "text"}, Say(kind)
  PROVE  messages' \in Seq(Kinds) /\ node' \in {"worker_tools", "task_completer"}
<1>1. /\ Len(messages) \in Int /\ 1 \in Int /\ Len(messages) - 1 \in Int
      /\ \A m \in 1..Len(messages) - 1 : messages[m] \in Kinds
  BY LenProperties, ElementOfSeq
<1>2. Front(messages) \in Seq(Kinds)
  BY <1>1, SubSeqProperties DEF Front
<1>3. Append(messages, kind) \in Seq(Kinds)
  BY MessageAdded DEF Kinds
<1> QED
  BY <1>2, <1>3 DEF Say, RouteWorkerOutput

LEMMA NextPairsInv == PairsInv /\ [NextTasks]_taskVars => PairsInv'
<1> SUFFICES ASSUME PairsInv, [NextTasks]_taskVars PROVE PairsInv'
  OBVIOUS
<1>1. messages \in Seq(Kinds)
  BY DEF PairsInv
<1>2. ASSUME messages' \in Seq(Kinds), node' \notin {"summarizer", "planner"} PROVE PairsInv'
  BY <1>2 DEF PairsInv
<1>3. CASE Patcher
  BY <1>1, <1>3, PatchedIsPaired DEF Patcher, PairsInv
<1>4. CASE UserMessage \/ PlannerTools \/ WorkerTools \/ Finalizer
  <2>1. \A kind \in {"human", "planned", "result", "text"} : Append(messages, kind) \in Seq(Kinds)
    BY <1>1, MessageAdded DEF Kinds
  <2>2. messages' \in Seq(Kinds) /\ node' \notin {"summarizer", "planner"}
    BY <1>1, <1>4, <2>1 DEF UserMessage, PlannerTools, WorkerTools, Finalizer
  <2> QED
    BY <1>2, <2>2
<1>5. CASE FileSaver \/ Dispatcher \/ TodoCompleter \/ OntologyCompleter \/ ResumeTools \/ CutTurn
  <2>1. UNCHANGED messages /\ node' \notin {"summarizer", "planner"}
    BY <1>5 DEF FileSaver, Dispatcher, RouteDispatcher, TodoCompleter, OntologyCompleter,
       CompleteTask, ResumeTools, CutTurn
  <2> QED
    BY <1>1, <1>2, <2>1
<1>6. CASE TodoWorker \/ OntologyWorker
  <2>1. PICK kind \in {"call", "text"} : Say(kind)
    BY <1>6 DEF TodoWorker, OntologyWorker, ForceCompletion, WorkerAnswers, BlockSensitivePaths,
       WorkerRaises
  <2>2. messages' \in Seq(Kinds) /\ node' \in {"worker_tools", "task_completer"}
    BY <1>1, <2>1, SaysKinds
  <2> QED
    BY <1>2, <2>2
<1>7. CASE UNCHANGED taskVars
  BY <1>7 DEF taskVars, PairsInv, Paired, Unanswered
<1> QED
  BY <1>3, <1>4, <1>5, <1>6, <1>7, SummarizerPairs, PlannerPairs DEF NextTasks, RunNode

\* A model that plans sees each call with its answer, whatever cut the turns
\* before: the patcher repairs messages of any length (PatchToolCallsMiddleware
\* in front of the planner) and the summarizer does not take the repair back.
THEOREM PlannersSeePairs == TasksSpec => []PlannerSeesPairs
<1>1. InitTasks => PairsInv
  BY DEF InitTasks, PairsInv
<1>2. PairsInv => PlannerSeesPairs
  BY DEF PairsInv, PlannerSeesPairs, Paired
<1> QED
  BY <1>1, <1>2, NextPairsInv, PTL DEF TasksSpec

-----------------------------------------------------------------------------
(* TaskAgent and ResearchAgent: theorem.                                   *)

\* A turn of a planning agent that comes to END has done its own plan, all of it
\* and nothing else, for any lengths of plans and any number of turns, whatever
\* the turns that were cut have left in the state of the thread.
THEOREM TurnsWorkThrough == Spec => []WorkedThrough
<1>1. TaskInv /\ ResearchInv => WorkedThrough
  BY DEF TaskInv, ResearchInv, WorkedThrough
<1>2. Init => TaskInv /\ ResearchInv
  BY InitTaskInv, InitResearchInv DEF Init
<1>3. TaskInv /\ ResearchInv /\ [Next]_mcVars => (TaskInv /\ ResearchInv)'
  <2> SUFFICES ASSUME TaskInv, ResearchInv, [Next]_mcVars
               PROVE  TaskInv' /\ ResearchInv'
    OBVIOUS
  <2>1. [NextTasks]_taskVars /\ [NextResearch]_researchVars
    BY DEF Next, Tasks, Research, mcVars
  <2> QED
    BY <2>1, NextTaskInv, NextResearchInv
<1> QED
  BY <1>1, <1>2, <1>3, PTL DEF Spec

-----------------------------------------------------------------------------
(* ApprovalAgent: the inductive invariant.                                 *)
ApprovalSpec == InitApproval /\ [][NextApproval]_approvalVars

AiMessage == [kind : {"ai"}, calls : Seq(Calls)]
ToolMessage == [kind : {"tool"}, msg : Nat, place : Nat]
Message == AiMessage \union ToolMessage \union {Human}

\* Calls that are shown, decided on or run are those of the last message.
Latest == dialog[Len(dialog)]
Calling ==
  at \in {"human_approval", "asked", "tools"} =>
    Len(dialog) > 0 /\ Latest \in AiMessage /\ Latest.calls # <<>>

Showing == at = "asked" => shown = Latest.calls

\* What the user let pass is what was shown, but for the arguments edited.
AsShown(calls) ==
  /\ Len(calls) = Len(shown)
  /\ \A i \in 1..Len(calls) :
       calls[i] = shown[i] \/ (said[1] = "edit" /\ calls[i].name = shown[i].name)
Passed ==
  agent = "agent_reason_hitl" /\ at = "tools" =>
    said # <<>> /\ said[1] \in {"approve", "edit"} /\ AsShown(Latest.calls)

ApprovalInv == dialog \in Seq(Message) /\ Calling /\ Showing /\ Passed

\* The last message is the one that has been found.
LEMMA FindsLatest ==
  ASSUME dialog \in Seq(Message), Len(dialog) > 0, Latest \in AiMessage, Latest.calls # <<>>
  PROVE  FindToolMessage = Len(dialog)
<1> DEFINE found == {m \in DOMAIN dialog : dialog[m].kind = "ai" /\ dialog[m].calls # <<>>}
<1>1. DOMAIN dialog = 1..Len(dialog) /\ Len(dialog) \in 1..Len(dialog)
  BY LenProperties
<1>2. Latest.kind = "ai"
  BY DEF AiMessage
<1>3. Len(dialog) \in found /\ \A n \in found : n <= Len(dialog)
  BY <1>1, <1>2 DEF Latest
<1>4. \A m \in found : (\A n \in found : n <= m) => m = Len(dialog)
  BY <1>1, <1>3
<1>5. (CHOOSE m \in found : \A n \in found : n <= m) = Len(dialog)
  BY <1>3, <1>4
<1> QED
  BY <1>3, <1>5 DEF FindToolMessage

\* The answers to the latest calls.
LEMMA LatestAnswers ==
  ASSUME dialog \in Seq(Message), Len(dialog) > 0, Latest \in AiMessage
  PROVE  Answers(Len(dialog)) \in Seq(Message)
<1>1. /\ Len(dialog) \in Nat /\ Latest.calls \in Seq(Calls) /\ Len(Latest.calls) \in Nat
      /\ DOMAIN Latest.calls = 1..Len(Latest.calls)
  BY LenProperties DEF AiMessage
<1>2. \A i \in 1..Len(Latest.calls) : Answer(Len(dialog), i) \in Message
  BY <1>1 DEF Answer, Message, ToolMessage
<1>3. Answers(Len(dialog)) = [i \in 1..Len(Latest.calls) |-> Answer(Len(dialog), i)]
  BY <1>1 DEF Answers, Latest
<1> QED
  BY <1>1, <1>2, <1>3, IsASeq

\* An edit takes the place of the latest message and keeps names and number.
LEMMA Edited ==
  ASSUME dialog \in Seq(Message), Len(dialog) > 0, Latest \in AiMessage, Latest.calls # <<>>,
         NEW name, dialog' = [dialog EXCEPT ![Len(dialog)].calls = UpdateToolCalls(@, name)]
  PROVE  /\ dialog' \in Seq(Message) /\ Len(dialog') > 0
         /\ Latest' \in AiMessage /\ Latest'.calls # <<>>
         /\ Len(Latest'.calls) = Len(Latest.calls)
         /\ \A i \in 1..Len(Latest.calls) : Latest'.calls[i].name = Latest.calls[i].name
<1>1. PICK old : old = Latest.calls
  OBVIOUS
<1>2. PICK new : new = UpdateToolCalls(old, name)
  OBVIOUS
<1>3. /\ old \in Seq(Calls) /\ Len(old) \in Nat /\ Len(old) > 0 /\ DOMAIN old = 1..Len(old)
      /\ \A i \in 1..Len(old) : old[i] \in Calls
  BY <1>1, LenProperties, EmptySeq DEF AiMessage
<1>4. \A c \in Calls : [c EXCEPT !.args = "edited"] \in Calls
                       /\ [c EXCEPT !.args = "edited"].name = c.name
  BY DEF Calls
<1>5. new = [i \in 1..Len(old) |-> IF old[i].name = name THEN [old[i] EXCEPT !.args = "edited"]
                                   ELSE old[i]]
  BY <1>2, <1>3 DEF UpdateToolCalls
<1>6. \A i \in 1..Len(old) : new[i] \in Calls /\ new[i].name = old[i].name
  BY <1>3, <1>4, <1>5
<1>7. new \in Seq(Calls) /\ Len(new) = Len(old) /\ new # <<>>
  <2>1. new \in Seq(Calls)
    BY <1>3, <1>5, <1>6, IsASeq
  <2>2. DOMAIN new = 1..Len(old)
    BY <1>5
  <2> QED
    BY <1>3, <2>1, <2>2, LenProperties, EmptySeq
<1>8. PICK a \in AiMessage : a = Latest /\ a.calls = old
  BY <1>1
<1>9. [a EXCEPT !.calls = new] \in AiMessage /\ [a EXCEPT !.calls = new].calls = new
  BY <1>7, <1>8 DEF AiMessage
<1>10. PICK b \in AiMessage : b = [a EXCEPT !.calls = new] /\ b.calls = new
  BY <1>9
<1>11. dialog' = [dialog EXCEPT ![Len(dialog)] = b]
  BY <1>2, <1>8, <1>10 DEF Latest
<1>12. Len(dialog) \in 1..Len(dialog) /\ b \in Message
  BY LenProperties DEF Message
<1>13. dialog' \in Seq(Message) /\ Len(dialog') = Len(dialog) /\ dialog'[Len(dialog)] = b
  BY <1>11, <1>12, ExceptSeq, LenProperties
<1>14. Latest' = b
  BY <1>13 DEF Latest
<1> QED
  BY <1>1, <1>6, <1>7, <1>10, <1>13, <1>14

-----------------------------------------------------------------------------
(* ApprovalAgent: every action keeps it.                                   *)
LEMMA CallModelStep ==
  ASSUME ApprovalInv, CallModelReason \/ CallModel
  PROVE  ApprovalInv'
<1>1. PICK ai \in AiMessages, last \in BOOLEAN :
        /\ dialog' = Append(dialog, [ai EXCEPT !.calls = IF last THEN <<>> ELSE ai.calls])
        /\ at' = Route(IF last THEN <<>> ELSE ai.calls)
  BY DEF CallModelReason, CallModel
<1>2. PICK kept : kept = IF last THEN <<>> ELSE ai.calls
  OBVIOUS
<1>3. kept \in Seq(Calls)
  <2>1. ASSUME NEW n \in 0..MaxCalls, NEW f \in [1..n -> Calls] PROVE f \in Seq(Calls)
    BY <2>1, ApprovalAssumption, SeqDef
  <2>2. ai.calls \in Seq(Calls)
    BY <2>1 DEF AiMessages
  <2> QED
    BY <1>2, <2>2
<1>4. PICK b \in AiMessage : b = [ai EXCEPT !.calls = kept] /\ b.calls = kept
  <2>1. [ai EXCEPT !.calls = kept] \in AiMessage /\ [ai EXCEPT !.calls = kept].calls = kept
    BY <1>3 DEF AiMessages, AiMessage
  <2> QED
    BY <2>1
<1>5. dialog' = Append(dialog, b) /\ at' = Route(kept)
  BY <1>1, <1>2, <1>4
<1>6. dialog' \in Seq(Message) /\ Len(dialog') > 0 /\ Latest' = b
  <2>1. dialog \in Seq(Message) /\ b \in Message /\ Len(dialog) \in Nat
    BY LenProperties DEF ApprovalInv, Message
  <2>2. /\ dialog' \in Seq(Message) /\ Len(dialog') = Len(dialog) + 1
        /\ dialog'[Len(dialog) + 1] = b
    BY <1>5, <2>1, AppendProperties
  <2> QED
    BY <2>1, <2>2 DEF Latest
<1>7. /\ at' # "asked" /\ (kept = <<>> => at' = "end")
      /\ at' = "tools" => agent = "agent_reason" /\ agent' = agent
  <2>1. agent' = agent
    BY DEF CallModelReason, CallModel
  <2> QED
    BY <1>5, <2>1 DEF Route, RouteReason, RouteModelOutput
<1>8. Calling'
  BY <1>4, <1>6, <1>7 DEF Calling
<1> QED
  BY <1>6, <1>7, <1>8 DEF ApprovalInv, Showing, Passed

LEMMA HumanApprovalStep ==
  ASSUME ApprovalInv, HumanApproval
  PROVE  ApprovalInv'
<1>1. /\ dialog \in Seq(Message) /\ Len(dialog) > 0 /\ Latest \in AiMessage /\ Latest.calls # <<>>
      /\ UNCHANGED <<agent, dialog, said, ran>>
  BY DEF ApprovalInv, Calling, HumanApproval
<1>2. FindToolMessage = Len(dialog) /\ Len(dialog) # 0
  BY <1>1, FindsLatest
<1>3. at' = "asked" /\ shown' = Latest.calls
  BY <1>2 DEF HumanApproval, Latest
<1> QED
  BY <1>1, <1>3 DEF ApprovalInv, Calling, Showing, Passed, Latest

LEMMA ResumeStep ==
  ASSUME ApprovalInv, Resume
  PROVE  ApprovalInv'
<1>1. /\ dialog \in Seq(Message) /\ Len(dialog) > 0 /\ Latest \in AiMessage /\ Latest.calls # <<>>
      /\ shown = Latest.calls /\ UNCHANGED <<agent, shown, ran>>
  BY DEF ApprovalInv, Calling, Showing, Resume
<1>2. FindToolMessage = Len(dialog)
  BY <1>1, FindsLatest
<1>3. PICK ds : said' = ds /\ Decide(ds)
  BY DEF Resume
<1>4. ASSUME at' \in {"end", "call_model"}, dialog' \in Seq(Message) PROVE ApprovalInv'
  BY <1>4 DEF ApprovalInv, Calling, Showing, Passed
<1>5. CASE at' = "end" /\ UNCHANGED dialog
  BY <1>1, <1>4, <1>5
<1>6. CASE ds # <<>> /\ ds[1] = "approve" /\ at' = "tools" /\ UNCHANGED dialog
  <2>1. AsShown(Latest.calls)'
    BY <1>1, <1>6 DEF AsShown, Latest
  <2> QED
    BY <1>1, <1>3, <1>6, <2>1 DEF ApprovalInv, Calling, Showing, Passed, Latest
<1>7. CASE ds # <<>> /\ ds[1] = "edit" /\ at' = "tools"
  <2>1. PICK name : dialog' = [dialog EXCEPT ![Len(dialog)].calls = UpdateToolCalls(@, name)]
    BY <1>2, <1>3, <1>7 DEF Decide
  <2>2. /\ dialog' \in Seq(Message) /\ Len(dialog') > 0
        /\ Latest' \in AiMessage /\ Latest'.calls # <<>>
        /\ Len(Latest'.calls) = Len(Latest.calls)
        /\ \A i \in 1..Len(Latest.calls) : Latest'.calls[i].name = Latest.calls[i].name
    BY <1>1, <2>1, Edited
  <2>3. AsShown(Latest.calls)'
    BY <1>1, <1>3, <1>7, <2>2 DEF AsShown
  <2> QED
    BY <1>3, <1>7, <2>2, <2>3 DEF ApprovalInv, Calling, Showing, Passed
<1>8. CASE at' \in {"end", "call_model"} /\ (\/ dialog' = CreateToolCancellations(Len(dialog))
                                            \/ dialog' = Append(CreateToolCancellations(Len(dialog)), Human))
  <2>1. CreateToolCancellations(Len(dialog)) \in Seq(Message)
    BY <1>1, LatestAnswers, ConcatProperties DEF CreateToolCancellations
  <2>2. Human \in Message
    BY DEF Message
  <2>3. dialog' \in Seq(Message)
    BY <1>8, <2>1, <2>2, AppendProperties
  <2> QED
    BY <1>4, <1>8, <2>3
<1> QED
  BY <1>2, <1>3, <1>5, <1>6, <1>7, <1>8 DEF Decide

LEMMA RunToolsStep ==
  ASSUME ApprovalInv, RunTools
  PROVE  ApprovalInv'
<1>1. /\ dialog \in Seq(Message) /\ Len(dialog) > 0 /\ Latest \in AiMessage /\ Latest.calls # <<>>
  BY DEF ApprovalInv, Calling, RunTools
<1>2. dialog' = dialog \o Answers(Len(dialog)) /\ at' = "call_model"
  BY <1>1, FindsLatest DEF RunTools
<1>3. dialog' \in Seq(Message)
  BY <1>1, <1>2, LatestAnswers, ConcatProperties
<1> QED
  BY <1>2, <1>3 DEF ApprovalInv, Calling, Showing, Passed

LEMMA NextApprovalInv == ApprovalInv /\ [NextApproval]_approvalVars => ApprovalInv'
<1> SUFFICES ASSUME ApprovalInv, [NextApproval]_approvalVars PROVE ApprovalInv'
  OBVIOUS
<1>1. CASE StartTurn
  <2>1. Human \in Message
    BY DEF Message
  <2>2. dialog' \in Seq(Message)
    BY <1>1, <2>1, AppendProperties DEF StartTurn, ApprovalInv
  <2> QED
    BY <1>1, <2>2 DEF StartTurn, ApprovalInv, Calling, Showing, Passed
<1>2. CASE CutRun
  BY <1>2 DEF CutRun, ApprovalInv, Calling, Showing, Passed
<1>3. CASE UNCHANGED approvalVars
  BY <1>3 DEF approvalVars, ApprovalInv, Calling, Showing, Passed, AsShown, Latest
<1> QED
  BY <1>1, <1>2, <1>3, CallModelStep, HumanApprovalStep, ResumeStep, RunToolsStep DEF NextApproval

-----------------------------------------------------------------------------
(* ApprovalAgent: theorem.                                                 *)

\* What runs in one step are calls of the latest message.
LEMMA RunsLatest ==
  ASSUME ApprovalInv, NextApproval, ran' # ran
  PROVE  /\ at = "tools" /\ dialog \in Seq(Message) /\ Len(dialog) > 0
         /\ Latest \in AiMessage
         /\ {c \in ran' : c \notin ran} \subseteq CallsOf(Len(dialog))
<1>1. /\ at = "tools"
      /\ {c \in ran' : c \notin ran} \subseteq CallsOf(FindToolMessage)
  BY DEF NextApproval, StartTurn, CallModelReason, CallModel, HumanApproval, Resume, RunTools, CutRun
<1>2. dialog \in Seq(Message) /\ Len(dialog) > 0 /\ Latest \in AiMessage /\ Latest.calls # <<>>
  BY <1>1 DEF ApprovalInv, Calling
<1> QED
  BY <1>1, <1>2, FindsLatest

\* With agent_reason_hitl, for messages of any length, a tool runs only as the
\* user was shown it, or with the arguments of an edit, after a decision to let
\* it pass (human_approval and the edges of the graph).
THEOREM ToolsRunAsShown == ApprovalSpec => RunAsShown
<1>1. InitApproval => ApprovalInv
  BY DEF InitApproval, ApprovalInv, Calling, Showing, Passed
<1>2. ApprovalInv /\ [NextApproval]_approvalVars =>
        [agent = "agent_reason_hitl" /\ ran' # ran =>
           LET now == {c \in ran' : c \notin ran} IN
           /\ said # <<>> /\ said[1] \in {"approve", "edit"}
           /\ Cardinality(now) <= Len(shown)
           /\ \A c \in now :
                LET call == dialog[c.msg].calls[c.place] IN
                \/ call = shown[c.place]
                \/ said[1] = "edit" /\ call.name = shown[c.place].name
        ]_approvalVars
  <2> SUFFICES ASSUME ApprovalInv, NextApproval, agent = "agent_reason_hitl", ran' # ran
               PROVE  LET now == {c \in ran' : c \notin ran} IN
                      /\ said # <<>> /\ said[1] \in {"approve", "edit"}
                      /\ Cardinality(now) <= Len(shown)
                      /\ \A c \in now :
                           LET call == dialog[c.msg].calls[c.place] IN
                           \/ call = shown[c.place]
                           \/ said[1] = "edit" /\ call.name = shown[c.place].name
    BY DEF approvalVars
  <2>1. PICK now : now = {c \in ran' : c \notin ran}
    OBVIOUS
  <2>2. PICK n \in Nat, calls \in Seq(Calls) :
          n = Len(calls) /\ calls = Latest.calls /\ DOMAIN calls = 1..n
    BY RunsLatest, LenProperties DEF AiMessage
  <2>3. CallsOf(Len(dialog)) = {[msg |-> Len(dialog), place |-> i] : i \in 1..n}
    BY <2>2 DEF CallsOf, Latest
  <2>4. now \subseteq {[msg |-> Len(dialog), place |-> i] : i \in 1..n}
    BY <2>1, <2>3, RunsLatest
  <2>5. said # <<>> /\ said[1] \in {"approve", "edit"} /\ AsShown(calls)
    BY <2>2, RunsLatest DEF ApprovalInv, Passed
  <2>6. Cardinality(now) <= n
    <3> DEFINE T == {[msg |-> Len(dialog), place |-> i] : i \in 1..n}
               f == [i \in 1..n |-> [msg |-> Len(dialog), place |-> i]]
    <3>1. f \in Surjection(1..n, T)
      BY DEF Surjection
    <3>2. IsFiniteSet(1..n) /\ Cardinality(1..n) = n
      BY <2>2, FS_Interval
    <3>3. IsFiniteSet(T) /\ Cardinality(T) <= n
      BY <3>1, <3>2, FS_Surjection
    <3>4. Cardinality(now) <= Cardinality(T) /\ Cardinality(now) \in Nat
      BY <2>4, <3>3, FS_Subset, FS_CardinalityType
    <3>5. Cardinality(T) \in Nat
      BY <3>3, FS_CardinalityType
    <3> QED
      BY <2>2, <3>3, <3>4, <3>5
  <2>7. ASSUME NEW c \in now
        PROVE  \/ dialog[c.msg].calls[c.place] = shown[c.place]
               \/ said[1] = "edit" /\ dialog[c.msg].calls[c.place].name = shown[c.place].name
    <3>1. PICK i \in 1..n : c = [msg |-> Len(dialog), place |-> i]
      BY <2>4
    <3>2. c.msg = Len(dialog) /\ c.place = i
      BY <3>1
    <3>3. dialog[c.msg].calls[c.place] = calls[i]
      BY <2>2, <3>2 DEF Latest
    <3> QED
      BY <2>2, <2>5, <3>2, <3>3 DEF AsShown
  <2> QED
    BY <2>1, <2>2, <2>5, <2>6, <2>7 DEF AsShown
<1> QED
  BY <1>1, <1>2, NextApprovalInv, PTL DEF ApprovalSpec, RunAsShown
==============================================================================
