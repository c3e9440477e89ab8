------------------------------ MODULE MCAgents ------------------------------
(* Instances of ApprovalAgent, TaskAgent, ResearchAgent and SubagentCalls  *)
(* for TLC.  They share no state: a behaviour runs one of them.            *)
EXTENDS ApprovalAgent, TaskAgent, ResearchAgent, SubagentCalls, TLC

VARIABLE focus

mcVars == <<approvalVars, taskVars, researchVars, subagentVars, focus>>

Init ==
  /\ InitApproval /\ InitTasks /\ InitResearch /\ InitSubagents
  /\ focus \in {"approval", "tasks", "research", "calls"}
  /\ focus # "approval" => agent = "agent_reason"
  /\ focus # "tasks" => graph = "agent_todo"
  /\ focus # "calls" => ~faulty

Tasks(A) ==
  focus = "tasks" /\ A /\ UNCHANGED <<approvalVars, researchVars, subagentVars, focus>>

Research(A) ==
  focus = "research" /\ A /\ UNCHANGED <<approvalVars, taskVars, subagentVars, focus>>

Next ==
  \/ focus = "approval" /\ NextApproval
     /\ UNCHANGED <<taskVars, researchVars, subagentVars, focus>>
  \/ Tasks(NextTasks)
  \/ Research(NextResearch)
  \/ focus = "calls" /\ NextSubagents
     /\ UNCHANGED <<approvalVars, taskVars, researchVars, focus>>

\* The event loop runs the nodes of a run that has begun.
Spec ==
  /\ Init /\ [][Next]_mcVars
  /\ WF_mcVars(Tasks(RunNode)) /\ WF_mcVars(Research(RunResearch))

-----------------------------------------------------------------------------
\* A run of a planning agent that comes to END has done what was planned in
\* its own turn, all of it and nothing else.
WorkedThrough == PlanWorkedThrough /\ ResearchWorkedThrough

\* With their limits the turns of agent_ontology and of the research agent
\* come to an end or to a question to the user.
TurnsEnd == TurnEnds /\ ResearchEnds
=============================================================================
