---------------------------- MODULE ThreadHistory ----------------------------
(***************************************************************************)
(* The checkpoints of one thread as clients page through them, open one    *)
(* and go on from it: get_thread_history and get_thread_state_at_checkpoint *)
(* of api/threads.py, services/thread_state_service.py, and the            *)
(* configuration create_run and create_run_config make of the checkpoint a *)
(* client gives.                                                           *)
(*                                                                         *)
(* LangGraph numbers checkpoints in the order they are written; a new one  *)
(* names as its parent the one the run stood on.  Runs go on writing while *)
(* a client asks for page after page, each with `before` set to the oldest *)
(* checkpoint it has been given, until a page is empty.  A checkpoint that *)
(* cannot be converted is left out of its page.                            *)
(***************************************************************************)
EXTENDS Naturals, Sequences, FiniteSets

CONSTANTS
  Turns,       \* runs in progress at a time: bound of the model
  MaxPoints,   \* checkpoints: bound of the model
  Limits       \* page sizes clients ask for

ASSUME LimitsAssumption == Limits \subseteq Nat \ {0}

VARIABLES
  points,      \* the checkpoints, oldest first
  turn,        \* turn[c]: the run c
  reading      \* what the client is doing

historyVars == <<points, turn, reading>>

\* from: checkpoint_id of the run's configuration, 0 without; at: the checkpoint
\* the run stands on; input: it brings input and has not written yet; alone
\* (history): nobody else has written since it loaded its checkpoint.
NoTurn == [step |-> "none", from |-> 0, at |-> 0, input |-> FALSE, alone |-> FALSE]

\* before: 0 for the first page; newest: the newest checkpoint when that page was
\* read; got: what the pages have shown; open: the checkpoint that is open; cut
\* and twice (history): a page was empty although there were checkpoints to show,
\* a checkpoint was shown twice.
NotReading == [step |-> "none", limit |-> 0, before |-> 0, newest |-> 0, got |-> {},
               open |-> 0, cut |-> FALSE, twice |-> FALSE]

InitHistory ==
  /\ points = << >>
  /\ turn = [c \in Turns |-> NoTurn]
  /\ reading = NotReading

-----------------------------------------------------------------------------
(* Runs.                                                                   *)

\* create_run: checkpoint_id is cleared when there is input, so that a new turn
\* does not go on from an old state.
CheckpointOf(input, chosen) == IF input THEN 0 ELSE chosen

\* create_run_config: what is given and not None goes into configurable.
CreateRunConfig(input, checkpoint) ==
  [NoTurn EXCEPT !.step = "load", !.from = checkpoint, !.input = input]

CreateTurn(c) ==
  /\ turn[c].step = "none"
  /\ \E input \in BOOLEAN, chosen \in {0, reading.open} :
       turn' = [turn EXCEPT ![c] = CreateRunConfig(input, CheckpointOf(input, chosen))]
  /\ UNCHANGED <<points, reading>>

\* Without checkpoint_id the newest one is loaded.
LoadCheckpoint(c) ==
  /\ turn[c].step = "load"
  /\ turn' = [turn EXCEPT ![c].step = "graph", ![c].alone = turn[c].input,
                ![c].from = 0, ![c].at = IF turn[c].from = 0 THEN Len(points) ELSE turn[c].from]
  /\ UNCHANGED <<points, reading>>

\* The checkpointer writes; of some checkpoints the state cannot be converted.
WriteCheckpoint(c) ==
  /\ turn[c].step = "graph" /\ Len(points) < MaxPoints
  /\ \E broken \in BOOLEAN :
       points' = Append(points, [broken |-> broken, parent |-> turn[c].at,
                                 goesOn |-> turn[c].input /\ turn[c].alone])
  /\ turn' = [d \in Turns |->
                IF d = c THEN [turn[c] EXCEPT !.at = Len(points) + 1, !.input = FALSE,
                                              !.alone = FALSE]
                ELSE [turn[d] EXCEPT !.alone = FALSE]]
  /\ UNCHANGED reading

EndTurn(c) ==
  /\ turn[c].step = "graph"
  /\ turn' = [turn EXCEPT ![c] = NoTurn]
  /\ UNCHANGED <<points, reading>>

-----------------------------------------------------------------------------
(* Reads.                                                                  *)

ConvertSnapshot(i) == ~points[i].broken
ConvertSnapshots(S) == {i \in S : ConvertSnapshot(i)}

\* aget_state_history: those of S, newest first, up to the limit.
Newest(S, limit) == {i \in S : Cardinality({j \in S : j >= i}) <= limit}

Before(i) == reading.before = 0 \/ i < reading.before

Listed == {i \in DOMAIN points : Before(i)}

\* The first request, by GET or POST.
AskHistory ==
  /\ reading.step = "none"
  /\ \E limit \in Limits :
       reading' = [NotReading EXCEPT !.step = "page", !.limit = limit, !.newest = Len(points)]
  /\ UNCHANGED <<points, turn>>

Shows(S) ==
  reading' =
    [reading EXCEPT
       !.step = IF S = {} THEN "done" ELSE "page",
       !.before = IF S = {} THEN @ ELSE CHOOSE i \in S : \A j \in S : i <= j,
       !.got = @ \union S,
       !.cut = @ \/ (S = {} /\ \E i \in Listed : i <= reading.newest),
       !.twice = @ \/ S \intersect reading.got # {}]

\* A graph that cannot be loaded, and an error that says "not found", are
\* answered with an empty list; other errors with 500.
GetHistory ==
  /\ reading.step = "page"
  /\ \/ Shows(ConvertSnapshots(Newest(Listed, reading.limit)))
     \/ Shows({})
     \/ reading' = NotReading
  /\ UNCHANGED <<points, turn>>

\* The state of a checkpoint from the list, or 404 or 500.
GetStateAtCheckpoint(i) ==
  \/ ConvertSnapshot(i) /\ reading' = [NotReading EXCEPT !.open = i]
  \/ reading' = NotReading

\* By POST, the checkpoint is in the body and must have an id.
OpenCheckpoint ==
  /\ reading.step = "done"
  /\ \E i \in reading.got : GetStateAtCheckpoint(i)
  /\ UNCHANGED <<points, turn>>

CloseHistory ==
  /\ reading.step = "done"
  /\ reading' = NotReading
  /\ UNCHANGED <<points, turn>>

NextHistory ==
  \/ \E c \in Turns : CreateTurn(c) \/ LoadCheckpoint(c) \/ WriteCheckpoint(c) \/ EndTurn(c)
  \/ AskHistory \/ GetHistory \/ OpenCheckpoint \/ CloseHistory

-----------------------------------------------------------------------------
\* A client that has paged to the end has been shown every checkpoint there was
\* when it began, but for those that cannot be converted, and none of them twice,
\* however many are written meanwhile.  Left out: the empty page that did not mean
\* the end (the graph could not be loaded, or no checkpoint of the page could be
\* converted).
PagesWhole ==
  /\ ~reading.twice
  /\ reading.step = "done" /\ ~reading.cut =>
       {i \in 1..reading.newest : ConvertSnapshot(i)} \subseteq reading.got

\* A new turn goes on from the newest checkpoint, also when the client has an old
\* one open, unless another run wrote at the same time.
TurnsGoOn == \A i \in DOMAIN points : points[i].goesOn => points[i].parent = i - 1

\* What get_thread_history_post says of itself: a list is empty when no graph is
\* set or there is no history, and the failure to load the graph is a 500.
EmptyMeansEnd == ~reading.cut
=============================================================================
