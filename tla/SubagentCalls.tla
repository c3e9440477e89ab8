--------------------------- MODULE SubagentCalls ---------------------------
(***************************************************************************)
(* The node worker_tools of agent_ontology when a message calls            *)
(* call_subagent: every call checks the agent's id, asks the user with     *)
(* interrupt(), looks the answer up in a cache, finds the remote thread    *)
(* and posts to the remote agent.                                          *)
(*                                                                         *)
(* LangGraph and asyncio are external.  ToolNode gathers a coroutine for   *)
(* every call; the first interrupt() without an answer ends the node, not  *)
(* the coroutines already past theirs.  The answer begins the node again:  *)
(* the n-th interrupt() of an execution gets the n-th answer.              *)
(***************************************************************************)
EXTENDS Naturals, Sequences, FiniteSets

CONSTANTS
  SubCalls,   \* the calls of the message
  MaxRounds   \* bound of the model: executions of the node

ASSUME SubagentAssumption == IsFiniteSet(SubCalls) /\ MaxRounds \in Nat

VARIABLES
  faulty,   \* the store and the remote server may fail
  round,    \* executions of the node so far
  state,    \* state of the node: "running", "asked", "done"
  asking,   \* the call whose request the user sees
  decided,  \* the user's answers: [value, to], `to` the call that was shown
  reached,  \* reached[r]: interrupts that execution r has come to
  pc,       \* pc[r][c]: where call c of execution r stands
  answer,   \* answer[r][c]: place of the answer it was given, 0 if none
  target,   \* target[r][c]: the remote thread it uses, 0 the local id
  cached,   \* calls with a response in the store
  mapped,   \* the store's mappings to a remote thread, one at most
  made,     \* remote threads created so far
  known,    \* history: known[r]: calls with a response when r began
  posts     \* history: [call, round, thread] of every post

subagentVars == <<faulty, round, state, asking, decided, reached, pc, answer,
                  target, cached, mapped, made, known, posts>>
storeVars == <<cached, mapped, made>>
nodeVars == <<faulty, round, state, asking, decided, known>>

Executions == 1..MaxRounds

\* Everything but a rejection lets the call pass, an edit with other
\* arguments; no decision at all counts as an approval.
Values == {"approve", "reject"}

SubagentTypeOK ==
  /\ round \in Executions /\ state \in {"running", "asked", "done"}
  /\ decided \in Seq([value : Values, to : SubCalls])
  /\ pc \in [Executions -> [SubCalls -> {"none", "check", "lookup", "thread",
               "create", "save", "post", "store", "kept", "over"}]]
  /\ cached \subseteq SubCalls /\ mapped \subseteq Nat

InitSubagents ==
  /\ faulty \in BOOLEAN
  /\ round = 1 /\ state = "running" /\ asking = CHOOSE c \in SubCalls : TRUE
  /\ decided = <<>> /\ reached = [r \in Executions |-> 0]
  /\ pc = [r \in Executions |-> [c \in SubCalls |-> IF r = 1 THEN "check" ELSE "none"]]
  /\ answer = [r \in Executions |-> [c \in SubCalls |-> 0]]
  /\ target = [r \in Executions |-> [c \in SubCalls |-> 0]]
  /\ cached = {} /\ mapped = {} /\ made = 0
  /\ known = [r \in Executions |-> {}] /\ posts = {}

Move(r, c, label) == pc' = [pc EXCEPT ![r][c] = label]

-----------------------------------------------------------------------------
(* call_subagent, between its awaits.                                      *)

\* The n-th interrupt() of an execution returns the n-th answer, or ends the
\* node, if it still runs, with its request.
Interrupt(r, c) ==
  LET n == reached[r] + 1 IN
  /\ reached' = [reached EXCEPT ![r] = n]
  /\ IF n < r
     THEN /\ answer' = [answer EXCEPT ![r][c] = n]
          /\ Move(r, c, IF decided[n].value = "reject" THEN "over" ELSE "lookup")
          /\ UNCHANGED <<state, asking>>
     ELSE /\ Move(r, c, "over")
          /\ IF r = round /\ state = "running"
             THEN state' = "asked" /\ asking' = c
             ELSE UNCHANGED <<state, asking>>
          /\ UNCHANGED answer

\* The id is looked up first; an unknown one is an error without a question.
CheckAgent(r, c) ==
  /\ pc[r][c] = "check"
  /\ \/ Interrupt(r, c)
     \/ Move(r, c, "over") /\ UNCHANGED <<reached, answer, state, asking>>
  /\ UNCHANGED <<faulty, round, decided, known, target, storeVars, posts>>

\* A hit is the result; a store that fails counts as a miss.  A missing URL
\* of the agent is an error.
Lookup(r, c) ==
  /\ pc[r][c] = "lookup"
  /\ \/ c \in cached /\ Move(r, c, "kept")
     \/ (c \notin cached \/ faulty) /\ Move(r, c, "thread")
     \/ c \notin cached /\ Move(r, c, "over")
  /\ UNCHANGED <<nodeVars, reached, answer, target, storeVars, posts>>

\* _get_or_create_remote_thread: the mapping is read ...
FindThread(r, c) ==
  /\ pc[r][c] = "thread"
  /\ \/ \E t \in mapped : target' = [target EXCEPT ![r][c] = t] /\ Move(r, c, "post")
     \/ (mapped = {} \/ faulty) /\ Move(r, c, "create") /\ UNCHANGED target
  /\ UNCHANGED <<nodeVars, reached, answer, storeVars, posts>>

\* ... a thread is made on the remote server, or the local id is taken ...
CreateThread(r, c) ==
  /\ pc[r][c] = "create"
  /\ \/ made' = made + 1 /\ target' = [target EXCEPT ![r][c] = made + 1]
     \/ faulty /\ UNCHANGED <<made, target>>
  /\ Move(r, c, "save")
  /\ UNCHANGED <<nodeVars, reached, answer, cached, mapped, posts>>

\* ... and the mapping is written.
SaveThread(r, c) ==
  /\ pc[r][c] = "save"
  /\ \/ mapped' = {target[r][c]}
     \/ faulty /\ UNCHANGED mapped
  /\ Move(r, c, "post")
  /\ UNCHANGED <<nodeVars, reached, answer, target, cached, made, posts>>

\* The remote agent is asked; its response or an error comes back later.
Post(r, c) ==
  /\ pc[r][c] = "post"
  /\ posts' = posts \union {[call |-> c, round |-> r, thread |-> target[r][c]]}
  /\ \E label \in {"store", "over"} : Move(r, c, label)
  /\ UNCHANGED <<nodeVars, reached, answer, target, storeVars>>

\* Mutant: the response is returned without being kept.
StoreResponse_Not(r, c) ==
  /\ pc[r][c] = "store"
  /\ Move(r, c, "kept")
  /\ UNCHANGED <<nodeVars, reached, answer, target, storeVars, posts>>

StoreResponse(r, c) ==
  /\ pc[r][c] = "store"
  /\ \/ cached' = cached \union {c}
     \/ faulty /\ UNCHANGED cached
  /\ Move(r, c, "kept")
  /\ UNCHANGED <<nodeVars, reached, answer, target, mapped, made, posts>>

-----------------------------------------------------------------------------
\* All coroutines of the execution have returned: ToolMessages.
NodeEnds ==
  /\ state = "running"
  /\ \A c \in SubCalls : pc[round][c] \in {"kept", "over"}
  /\ state' = "done"
  /\ UNCHANGED <<faulty, round, asking, decided, known, reached, pc, answer,
                 target, storeVars, posts>>

\* A run with command.resume: the node begins again.
DecideCall(value) ==
  /\ state = "asked" /\ round < MaxRounds
  /\ decided' = Append(decided, [value |-> value, to |-> asking])
  /\ round' = round + 1
  /\ state' = "running"
  /\ pc' = [pc EXCEPT ![round + 1] = [c \in SubCalls |-> "check"]]
  /\ known' = [known EXCEPT ![round + 1] =
                 {c \in SubCalls : \E r \in 1..round : pc[r][c] = "kept"}]
  /\ UNCHANGED <<faulty, asking, reached, answer, target, storeVars, posts>>

NextSubagents ==
  \/ \E r \in Executions, c \in SubCalls :
       \/ CheckAgent(r, c) \/ Lookup(r, c) \/ FindThread(r, c)
       \/ CreateThread(r, c) \/ SaveThread(r, c) \/ Post(r, c)
       \/ StoreResponse(r, c)
  \/ NodeEnds
  \/ \E value \in Values : DecideCall(value)

-----------------------------------------------------------------------------
\* A call whose response had come when the node began again is not posted by
\* that execution: the cache makes the repetition harmless.
NotAskedAgain ==
  ~faulty => \A p \in posts : p.call \notin known[p.round]

\* The user's guide to approval: no call is made twice.
NoDuplicateCall == \A p, q \in posts : p.call = q.call => p = q

\* The user's guide: what runs is what the user was shown and approved.
ApprovedAsShown ==
  \A r \in Executions, c \in SubCalls :
    answer[r][c] # 0 => decided[answer[r][c]].to = c

\* _get_or_create_remote_thread: a thread's calls share one remote thread.
OneRemoteThread == \A p, q \in posts : p.thread = q.thread
=============================================================================
