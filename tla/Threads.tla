------------------------------- MODULE Threads -------------------------------
(***************************************************************************)
(* Threads, their metadata and their checkpoints: api/threads.py and       *)
(* update_thread_metadata of api/runs.py.                                  *)
(*                                                                         *)
(* The checkpoints of a thread are kept by LangGraph's checkpointer and    *)
(* have no foreign key to the row.  They are shown through the graph that  *)
(* the row's metadata names: without graph_id the history is empty and     *)
(* the state of a checkpoint is a 404.  The metadata is one JSON column    *)
(* that every writer reads, merges into and writes back as a whole.        *)
(*                                                                         *)
(* Of the metadata only graph_id is kept; clients do not write that key    *)
(* themselves.  Listing and searching read what History reads.             *)
(***************************************************************************)
EXTENDS Naturals, FiniteSets

CONSTANTS
  ThreadIds,   \* uuids of threads, never reused: bound of the model
  RunGraphs,   \* graphs runs are created with
  Jobs,       \* requests in progress at a time: bound of the model
  Void         \* no row, no graph, no checkpoint

VARIABLES
  graphOf,     \* graphOf[t]: metadata["graph_id"], Void without; "gone" and
               \* "unused" when there is no row
  latest,      \* latest[t]: graph of the latest checkpoint, Void without one
  job,        \* job[c]: what request c is doing
  wants,       \* wants[t]: the checkpoint the copy t was made for
  overlapped,  \* history: threads whose metadata was written over a change
  bare,        \* history: copies made with metadata of the client's own
  torn         \* history: copies that neither got their state nor were removed

threadVars == <<graphOf, latest, job, wants, overlapped, bare, torn>>

NoRow == {"unused", "gone"}

ASSUME RunGraphsAssumption == Void \notin RunGraphs \union NoRow /\ RunGraphs \intersect NoRow = {}

HasRow(t) == graphOf[t] \notin NoRow

\* step: the statement that comes next; of: the thread read; graph: graph_id as
\* it was read or is to be written; state: the checkpoint to copy; copy: the new
\* thread; bare: the client gives the copy's metadata; stale (history): the
\* metadata has changed since it was read.
NoRequest == [step |-> "none", of |-> Void, graph |-> Void, state |-> Void, copy |-> Void,
              bare |-> FALSE, stale |-> FALSE]

InitThreads ==
  /\ graphOf = [t \in ThreadIds |-> "unused"]
  /\ latest = [t \in ThreadIds |-> Void]
  /\ job = [c \in Jobs |-> NoRequest]
  /\ wants = [t \in ThreadIds |-> Void]
  /\ overlapped = {} /\ bare = {} /\ torn = {}

Does(c, step) == job[c].step = step
Moves(c, next) == job' = [job EXCEPT ![c] = next]
Rows == <<graphOf, latest, wants, overlapped, bare, torn>>

\* The requests once c has committed the row of t and continues as next.
Commits(c, t, next) ==
  job' = [x \in Jobs |->
    IF x = c THEN next ELSE [job[x] EXCEPT !.stale = @ \/ job[x].of = t]]

-----------------------------------------------------------------------------
(* create_thread                                                           *)
CreateThread ==
  /\ \E t \in ThreadIds :
       /\ graphOf[t] = "unused"
       /\ graphOf' = [graphOf EXCEPT ![t] = Void]
  /\ UNCHANGED <<latest, job, wants, overlapped, bare, torn>>

(* update_thread and update_thread_metadata: the row is read ...           *)
ReadMetadata(c) ==
  /\ Does(c, "none")
  /\ \E t \in ThreadIds, step \in {"patch", "link"} :
       /\ HasRow(t)
       /\ Moves(c, [NoRequest EXCEPT !.step = step, !.of = t, !.graph = graphOf[t]])
  /\ UNCHANGED Rows

\* ... and written.  A row that has gone meanwhile ends the request; a client
\* that patches the TTL only does not write the metadata.
WriteMetadata(c, graph, next) ==
  LET t == job[c].of IN
  IF HasRow(t)
  THEN /\ graphOf' = [graphOf EXCEPT ![t] = graph]
       /\ overlapped' = IF graph # Void THEN overlapped \ {t}
                        ELSE IF job[c].stale THEN overlapped \union {t} ELSE overlapped
       /\ bare' = IF graph # Void THEN bare \ {t} ELSE bare
       /\ Commits(c, t, next)
       /\ UNCHANGED <<latest, wants, torn>>
  ELSE Moves(c, NoRequest) /\ UNCHANGED Rows

\* Mutant: the request's metadata replaces what was there.
PatchThread_Replaces(c) == Does(c, "patch") /\ WriteMetadata(c, Void, NoRequest)

PatchThread(c) == Does(c, "patch") /\ WriteMetadata(c, job[c].graph, NoRequest)

\* A run is created after its graph is in the metadata.
LinkGraph(c) ==
  /\ Does(c, "link")
  /\ \E g \in RunGraphs :
       WriteMetadata(c, g, [NoRequest EXCEPT !.step = "run", !.of = job[c].of, !.graph = g])

\* The run writes checkpoints until it is over, whether the thread is there or not.
Checkpoint(c) ==
  /\ Does(c, "run")
  /\ latest' = [latest EXCEPT ![job[c].of] = job[c].graph]
  /\ UNCHANGED <<graphOf, job, wants, overlapped, bare, torn>>

EndRun(c) == Does(c, "run") /\ Moves(c, NoRequest) /\ UNCHANGED Rows

-----------------------------------------------------------------------------
(* copy_thread                                                             *)
ReadSource(c) ==
  /\ Does(c, "none")
  /\ \E t \in ThreadIds, own \in BOOLEAN :
       /\ HasRow(t)
       /\ Moves(c, [NoRequest EXCEPT !.step = "load", !.of = t, !.bare = own,
                                     !.graph = IF own THEN Void ELSE graphOf[t]])
  /\ UNCHANGED Rows

\* The checkpoint is read, or the checkpointer fails and the answer is 500.
LoadState(c) ==
  /\ Does(c, "load")
  /\ \/ Moves(c, [job[c] EXCEPT !.step = "insert", !.state = latest[job[c].of]])
     \/ Moves(c, NoRequest)
  /\ UNCHANGED Rows

\* The new row is committed; without a checkpoint the copy is complete.
InsertCopy(c) ==
  LET from == job[c].of IN
  /\ Does(c, "insert")
  /\ \E t \in ThreadIds :
       /\ graphOf[t] = "unused"
       /\ graphOf' = [graphOf EXCEPT ![t] = job[c].graph]
       /\ wants' = [wants EXCEPT ![t] = job[c].state]
       /\ bare' = IF job[c].bare \/ from \in bare THEN bare \union {t} ELSE bare
       /\ overlapped' = IF job[c].stale \/ from \in overlapped
                        THEN overlapped \union {t} ELSE overlapped
       /\ Moves(c, IF job[c].state = Void THEN NoRequest
                   ELSE [job[c] EXCEPT !.step = "put", !.copy = t])
  /\ UNCHANGED <<latest, torn>>

PutState(c) ==
  /\ Does(c, "put")
  /\ \/ /\ latest' = [latest EXCEPT ![job[c].copy] = job[c].state]
        /\ Moves(c, NoRequest)
     \/ /\ Moves(c, [job[c] EXCEPT !.step = "undo"])          \* aput raises
        /\ UNCHANGED latest
  /\ UNCHANGED <<graphOf, wants, overlapped, bare, torn>>

\* Mutant: a failed copy leaves its row behind.
DeleteCopy_KeepsRow(c) == Does(c, "undo") /\ Moves(c, NoRequest) /\ UNCHANGED Rows

\* The row is deleted again, unless the database fails as well.
DeleteCopy(c) ==
  LET t == job[c].copy IN
  /\ Does(c, "undo")
  /\ \/ graphOf' = [graphOf EXCEPT ![t] = "gone"] /\ UNCHANGED torn
     \/ torn' = torn \union {t} /\ UNCHANGED graphOf
  /\ Moves(c, NoRequest)
  /\ UNCHANGED <<latest, wants, overlapped, bare>>

-----------------------------------------------------------------------------
(* delete_thread; what it does to runs is in RunLifecycle.  The checkpoints *)
(* stay.                                                                    *)
DeleteThread ==
  /\ \E t \in ThreadIds :
       /\ HasRow(t)
       /\ graphOf' = [graphOf EXCEPT ![t] = "gone"]
  /\ UNCHANGED <<latest, job, wants, overlapped, bare, torn>>

\* The process dies and is started again.
Crash ==
  /\ job' = [c \in Jobs |-> NoRequest]
  /\ torn' = torn \union {job[c].copy : c \in {x \in Jobs : job[x].step \in {"put", "undo"}}}
  /\ UNCHANGED <<graphOf, latest, wants, overlapped, bare>>

NextThreads ==
  \/ CreateThread \/ DeleteThread \/ Crash
  \/ \E c \in Jobs :
       \/ ReadMetadata(c) \/ PatchThread(c) \/ LinkGraph(c) \/ Checkpoint(c) \/ EndRun(c)
       \/ ReadSource(c) \/ LoadState(c) \/ InsertCopy(c) \/ PutState(c) \/ DeleteCopy(c)

-----------------------------------------------------------------------------
\* What get_thread_history and the other reads of a thread's state return.
History(t) == IF graphOf[t] = Void THEN Void ELSE latest[t]

\* A thread that has checkpoints shows them, unless a request wrote metadata it
\* had read before a run linked its graph, or the thread is a copy for which the
\* client gave metadata, which drops the graph.
CheckpointsShown ==
  \A t \in ThreadIds :
    HasRow(t) /\ latest[t] # Void => History(t) # Void \/ t \in overlapped \union bare

\* A copy that is not being made any more holds the state it was made for or is
\* gone, unless the process died or the database failed after its row was there.
CopiesWhole ==
  \A t \in ThreadIds :
    HasRow(t) /\ wants[t] # Void /\ latest[t] = Void =>
      t \in torn \/ \E c \in Jobs : job[c].copy = t
=============================================================================
