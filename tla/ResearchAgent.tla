---------------------------- MODULE ResearchAgent ----------------------------
(***************************************************************************)
(* The graph agent_research_summary on one thread, over several turns: the *)
(* planner writes up to three queries, they are searched one by one, the   *)
(* results of the turn are joined and, when they are long, split; every    *)
(* chunk is summed up, and the reducer writes the report.                  *)
(*                                                                         *)
(* LangGraph is external, as in TaskAgent.  No field of the state but      *)
(* messages has a reducer: a node's value takes the place of the old one.  *)
(* A search always has a result, which may be an error.                    *)
(***************************************************************************)
EXTENDS Naturals, Sequences

CONSTANTS
  Keywords,  \* queries of a turn, at most
  Splits,    \* numbers of chunks that long results may make
  Requests   \* bound of the model: messages of the user

ASSUME ResearchAssumption ==
  /\ Keywords \in Nat \ {0} /\ Splits \subseteq Nat \ {0, 1} /\ Requests \in Nat

VARIABLES
  stage,      \* the node that runs next, "end", "cut"
  log,        \* state.messages: the user's, 0, and the results of searches,
              \* each by the turn it was asked in
  asked,      \* messages of the user so far
  search_queries, current_search_idx,   \* number of queries, of those done
  summary_chunks, current_chunk_idx,    \* chunks: the turns their text is from
  partial_summaries,                    \* [turn, chunk] of every summary kept
  report      \* what the last report was made from

searchVars == <<search_queries, current_search_idx>>
chunkVars == <<summary_chunks, current_chunk_idx, partial_summaries>>
researchVars == <<stage, log, asked, searchVars, chunkVars, report>>

User == 0

ResearchTypeOK ==
  /\ stage \in {"end", "cut", "research_planner", "research_executor", "tools",
                "research_progress", "summary_planner", "summary_mapper",
                "summary_reducer"}
  /\ log \in Seq(0..Requests)
  /\ search_queries \in 0..Keywords /\ current_search_idx \in 0..search_queries
  /\ current_chunk_idx \in 0..Len(summary_chunks)

InitResearch ==
  /\ stage = "end" /\ log = <<>> /\ asked = 0
  /\ search_queries = 0 /\ current_search_idx = 0
  /\ summary_chunks = <<>> /\ current_chunk_idx = 0 /\ partial_summaries = <<>>
  /\ report = <<>>

-----------------------------------------------------------------------------
AskResearch ==
  /\ stage \in {"end", "cut"} /\ asked < Requests
  /\ asked' = asked + 1
  /\ log' = Append(log, User)
  /\ stage' = "research_planner"
  /\ UNCHANGED <<searchVars, chunkVars, report>>

\* Lines of the model's answer; without one, the question itself.
ResearchPlanner ==
  /\ stage = "research_planner"
  /\ search_queries' \in 1..Keywords /\ current_search_idx' = 0
  /\ stage' = "research_executor"
  /\ UNCHANGED <<log, asked, chunkVars, report>>

ResearchExecutor ==
  /\ stage = "research_executor"
  /\ stage' = "tools"
  /\ UNCHANGED <<log, asked, searchVars, chunkVars, report>>

SearchTools ==
  /\ stage = "tools"
  /\ log' = Append(log, asked)
  /\ stage' = "research_progress"
  /\ UNCHANGED <<asked, searchVars, chunkVars, report>>

ShouldContinueSearch(done) ==
  IF done < search_queries THEN "research_executor" ELSE "summary_planner"

ResearchProgress ==
  /\ stage = "research_progress"
  /\ current_search_idx' = current_search_idx + 1
  /\ stage' = ShouldContinueSearch(current_search_idx')
  /\ UNCHANGED <<search_queries, log, asked, chunkVars, report>>

-----------------------------------------------------------------------------
\* The results back to the user's message.
Results ==
  {m \in DOMAIN log : log[m] # User /\ \A n \in m..Len(log) : log[n] # User}

\* Only the results of Keywords searches can be long enough to be split.
SummaryPlanner ==
  /\ stage = "summary_planner"
  /\ \E n \in {1} \union (IF search_queries = Keywords THEN Splits ELSE {}) :
       summary_chunks' = [i \in 1..n |-> {log[m] : m \in Results}]
  /\ current_chunk_idx' = 0 /\ partial_summaries' = <<>>
  /\ stage' = "summary_mapper"
  /\ UNCHANGED <<log, asked, searchVars, report>>

ShouldContinueSummary(done) ==
  IF done < Len(summary_chunks) THEN "summary_mapper" ELSE "summary_reducer"

\* A list of one summary takes the place of the list there was.
SummaryMapper ==
  /\ stage = "summary_mapper"
  /\ partial_summaries' =
       <<[from |-> summary_chunks[current_chunk_idx + 1], chunk |-> current_chunk_idx]>>
  /\ current_chunk_idx' = current_chunk_idx + 1
  /\ stage' = ShouldContinueSummary(current_chunk_idx')
  /\ UNCHANGED <<log, asked, searchVars, summary_chunks, report>>

SummaryReducer ==
  /\ stage = "summary_reducer"
  /\ report' = partial_summaries
  /\ stage' = "end"
  /\ UNCHANGED <<log, asked, searchVars, chunkVars>>

\* A cancellation, an exception or the end of the permitted steps.
CutResearch ==
  /\ stage \notin {"end", "cut"}
  /\ stage' = "cut"
  /\ UNCHANGED <<log, asked, searchVars, chunkVars, report>>

RunResearch ==
  \/ ResearchPlanner \/ ResearchExecutor \/ SearchTools \/ ResearchProgress
  \/ SummaryPlanner \/ SummaryMapper \/ SummaryReducer

NextResearch == AskResearch \/ RunResearch \/ CutResearch

-----------------------------------------------------------------------------
\* A run that comes to END has searched every query of its turn and summed up
\* every chunk, and its report draws on this turn only, whatever a turn that
\* was cut left behind.
ResearchWorkedThrough ==
  stage = "end" /\ asked > 0 =>
    /\ current_search_idx = search_queries
    /\ current_chunk_idx = Len(summary_chunks)
    /\ \A i \in DOMAIN report : report[i].from = {asked}

\* Under fairness of RunResearch every turn comes to an end.
ResearchEnds == []<>(stage \in {"end", "cut"})

\* The reducer's docstring: it joins all partial summaries for the report.
ReportCoversAll ==
  stage = "end" /\ asked > 0 =>
    {report[i].chunk : i \in DOMAIN report} = 0..(Len(summary_chunks) - 1)
=============================================================================
