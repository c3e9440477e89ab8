--------------------------------- MODULE A2A ---------------------------------
(***************************************************************************)
(* A graph served over the A2A protocol: a2a/router.py keeps one A2A       *)
(* application per graph, and a2a/executor.py runs the graph for a message *)
(* and turns what it streams into events of the task.                      *)
(*                                                                         *)
(* The request handler and the task store are those of the A2A SDK: a      *)
(* message opens a task or continues one that waits for input, events      *)
(* reach the task in order, and a cancellation first publishes its status  *)
(* and then cancels the coroutine of execute().                            *)
(***************************************************************************)
EXTENDS Naturals, Sequences

CONSTANTS
  Tasks,       \* task ids
  Instances,   \* instances of the graph that reloads bring
  Compatible,  \* those whose input schema has a field "messages"
  Texts,       \* non-empty texts of messages and of their chunks
  MaxChunks,   \* chunks of an execution: bound of the model
  Blocks,      \* a content that is a list of blocks, not a text
  Null         \* no value

ASSUME CompatibleAssumption == Compatible \subseteq Instances
ASSUME MaxChunksAssumption == MaxChunks \in Nat

VARIABLES
  loaded,      \* the instance LangGraphService has
  served,      \* the instance of the cached A2A application, or Null
  state,       \* state[t]: status of the task
  work,        \* work[t]: the execution of the task
  artifact,    \* artifact[t]: content of the last artifact, or Null
  heard        \* history: heard[t]: chunks of the last execution

a2aVars == <<loaded, served, state, work, artifact, heard>>

PartKinds == {"text", "file", "data"}

\* a2a_to_langchain: text alone is joined, a file makes the content blocks,
\* data travel beside the content.
Converted(parts) ==
  [content |-> IF "file" \in parts THEN Blocks ELSE "text",
   kwargs |-> parts \intersect {"data"}]

NoWork == [on |-> FALSE, graph |-> Null, input |-> Null, told |-> <<>>]

InitA2A ==
  /\ loaded \in Instances
  /\ served = Null
  /\ state = [t \in Tasks |-> "none"]
  /\ work = [t \in Tasks |-> NoWork]
  /\ artifact = [t \in Tasks |-> Null]
  /\ heard = [t \in Tasks |-> <<>>]

-----------------------------------------------------------------------------
(* The router.                                                             *)

\* Reload of the graphs: the cached application keeps the graph it was made
\* for, because nothing clears _a2a_apps.
ReloadGraph ==
  /\ loaded' \in Instances \ {loaded}
  /\ UNCHANGED <<served, state, work, artifact, heard>>

\* is_a2a_compatible: the graph takes messages.
IsCompatible(g) == g \in Compatible

\* get_or_create_a2a_app, also called for the agent card: 404 for a graph
\* that is not compatible.
OpenApp ==
  /\ served = Null /\ IsCompatible(loaded)
  /\ served' = loaded
  /\ UNCHANGED <<loaded, state, work, artifact, heard>>

\* A message for a new task, or for one that waits for input.  The follow-up
\* is run as new messages of the same thread.
StartWork(t) ==
  /\ served # Null /\ ~work[t].on
  /\ state[t] \in {"none", "submitted", "working", "input_required"}
  /\ \E parts \in SUBSET PartKinds \ {{}} :
       work' = [work EXCEPT ![t] = [on |-> TRUE, graph |-> served,
                                    input |-> Converted(parts), told |-> <<>>]]
  /\ state' = [state EXCEPT ![t] = IF @ = "none" THEN "submitted" ELSE @]
  /\ heard' = [heard EXCEPT ![t] = <<>>]
  /\ UNCHANGED <<loaded, served, artifact>>

-----------------------------------------------------------------------------
(* _process_chunk.  A chunk is [kind, text]; an empty text changes nothing *)
(* and is left out, as are chunks that are no pair.                        *)
Hears(t, kind, text) ==
  /\ work[t].on /\ Len(heard[t]) < MaxChunks
  /\ heard' = [heard EXCEPT ![t] = Append(@, [kind |-> kind, text |-> text])]
  /\ UNCHANGED <<loaded, served, artifact>>

\* A piece of a message: published as a working status, and appended.
Piece(t) ==
  /\ work[t].told # Blocks
  /\ \E x \in Texts :
       /\ Hears(t, "piece", x)
       /\ work' = [work EXCEPT ![t].told = Append(@, x)]
  /\ state' = [state EXCEPT ![t] = "working"]

\* Mutant: a whole message is appended to its own pieces.
Whole_Appended(t) ==
  /\ \E x \in Texts :
       /\ Hears(t, "whole", x)
       /\ work[t].told # Blocks
       /\ work' = [work EXCEPT ![t].told = Append(@, x)]
  /\ UNCHANGED state

\* A whole message: not published, and it replaces what was collected.
Whole(t) ==
  /\ \E x \in Texts \union {Blocks} :
       /\ Hears(t, "whole", x)
       /\ work' = [work EXCEPT ![t].told = IF x = Blocks THEN Blocks ELSE <<x>>]
  /\ UNCHANGED state

\* A chunk marked as an interrupt: the execution returns, without an artifact.
Interrupt(t) ==
  /\ Hears(t, "interrupt", Null)
  /\ state' = [state EXCEPT ![t] = "input_required"]
  /\ work' = [work EXCEPT ![t] = NoWork]

\* The stream ends: one artifact if there is content, then completion.
Complete(t) ==
  /\ work[t].on /\ work[t].told # Blocks
  /\ artifact' = [artifact EXCEPT ![t] = IF work[t].told = <<>> THEN @ ELSE work[t].told]
  /\ state' = [state EXCEPT ![t] = "completed"]
  /\ work' = [work EXCEPT ![t] = NoWork]
  /\ UNCHANGED <<loaded, served, heard>>

\* The graph raises, or blocks are added to a text or put into an artifact:
\* ServerError; or the coroutine is cancelled.  The task keeps its status.
WorkFails(t) ==
  /\ work[t].on
  /\ work' = [work EXCEPT ![t] = NoWork]
  /\ UNCHANGED <<loaded, served, state, artifact, heard>>

\* cancel() publishes through an updater of its own; the coroutine is stopped
\* afterwards, and may still publish until then.
CancelTask(t) ==
  /\ state[t] \in {"submitted", "working", "input_required"}
  /\ state' = [state EXCEPT ![t] = "canceled"]
  /\ UNCHANGED <<loaded, served, work, artifact, heard>>

NextA2A ==
  \/ ReloadGraph \/ OpenApp
  \/ \E t \in Tasks :
       \/ StartWork(t) \/ Piece(t) \/ Whole(t) \/ Interrupt(t) \/ Complete(t)
       \/ WorkFails(t) \/ CancelTask(t)

-----------------------------------------------------------------------------
\* What a client that follows the stream should end up with: the last whole
\* message, and the pieces that came after it.
Streamed(chunks) ==
  LET wholes == {i \in 1..Len(chunks) : chunks[i].kind = "whole"}
      from == CHOOSE i \in wholes \union {1} : \A j \in wholes : j <= i IN
  [i \in 1..(Len(chunks) + 1 - from) |-> chunks[from + i - 1].text]

\* The artifact of a completed task is what its last execution streamed: the
\* last whole message and the pieces after it, and nothing of an execution
\* that was interrupted, failed or cancelled before it.
ArtifactIsStream ==
  \A t \in Tasks :
    state[t] = "completed" /\ heard[t] # <<>> => artifact[t] = Streamed(heard[t])
=============================================================================
