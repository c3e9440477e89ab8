------------------------------ MODULE MCCatalog ------------------------------
(* Instances of Assistants, GraphRegistry, Threads, ThreadHistory and A2A  *)
(* for TLC.  They share no state: a behaviour runs one of them.            *)
EXTENDS Assistants, GraphRegistry, Threads, ThreadHistory, A2A, TLC

VARIABLE focus

MCLast == [i \in Ids |-> IF i = "agent" THEN 2 ELSE 1]

Init ==
  /\ InitAssistants /\ InitRegistry /\ InitThreads /\ InitHistory /\ InitA2A
  /\ focus \in {"assistants", "graphs", "threads", "history", "a2a"}
  /\ focus # "graphs" => offered = {}
  /\ focus # "a2a" => loaded \in Compatible

Next ==
  /\ \/ focus = "assistants" /\ NextAssistants
        /\ UNCHANGED <<registryVars, threadVars, historyVars, a2aVars>>
     \/ focus = "graphs" /\ NextRegistry
        /\ UNCHANGED <<assistantVars, threadVars, historyVars, a2aVars>>
     \/ focus = "threads" /\ NextThreads
        /\ UNCHANGED <<assistantVars, registryVars, historyVars, a2aVars>>
     \/ focus = "history" /\ NextHistory
        /\ UNCHANGED <<assistantVars, registryVars, threadVars, a2aVars>>
     \/ focus = "a2a" /\ NextA2A
        /\ UNCHANGED <<assistantVars, registryVars, threadVars, historyVars>>
  /\ UNCHANGED focus

Spec ==
  Init /\ [][Next]_<<assistantVars, registryVars, threadVars, historyVars, a2aVars, focus>>

\* What a client is shown of a thread: its checkpoints are not hidden, pages of
\* them are complete, and a new turn goes on from the newest.
StatesShown == CheckpointsShown /\ PagesWhole /\ TurnsGoOn

\* Jobs and Turns are the same set as Writers.
Symmetry == Permutations(Writers) \union Permutations(Reloads) \union Permutations(Remote)
=============================================================================
