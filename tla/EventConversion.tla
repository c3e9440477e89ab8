--------------------------- MODULE EventConversion ---------------------------
(***************************************************************************)
(* What an event of the graph becomes: execute_run_async (api/runs.py)     *)
(* chooses the stream modes and hands each raw event to StreamingService,  *)
(* which filters it, puts it on the broker and stores a row; EventConverter *)
(* makes an SSE frame of the live event and, for a client that reconnects, *)
(* of the row.  The task also reads from the raw events whether the graph  *)
(* stopped at an interrupt, and what its output is.                        *)
(*                                                                         *)
(* A raw event is a pair (mode, payload), or with subgraphs a triple       *)
(* (path, mode, payload): astream is always given a list of modes, so a    *)
(* bare payload never comes.  Order, loss and repetition of the frames are *)
(* the concern of EventStream; here every event is delivered once.         *)
(***************************************************************************)
EXTENDS Integers, Sequences

CONSTANT MaxEvents  \* bound of the model: raw events of the run

ASSUME MaxEventsIsNat == MaxEvents \in Nat

VARIABLES
  request,  \* the run's options: modes asked for, subgraphs, resume
  graph,    \* raw events astream yielded, but for the tagged ones
  stop,     \* why the graph will yield no more plain event
  live,     \* frames of the live stream
  stored,     \* rows of run_events
  cursor,   \* rows read by a client that reconnected after the end
  replay,   \* frames it was sent for them
  found,    \* has_interrupt
  output,   \* final_output: number of the values event it is, 0 for none
  verdict   \* status written when the graph is done

conversionVars ==
  <<request, graph, stop, live, stored, cursor, replay, found, output, verdict>>

Asked == {"values", "messages", "updates", "custom"}

\* "interrupt": a payload whose __interrupt__ lists something; "pause": the
\* empty __interrupt__ of a static breakpoint; "plain": any other payload.
Payload == {"plain", "interrupt", "pause"}
Stops == {"interrupt", "pause"}

\* "payload": the event's own data; "wrapped": the dictionary the store puts
\* around the chunk of a values row.
Shape == [no : 1..MaxEvents, type : Asked, data : Payload,
          form : {"payload", "wrapped"}]
Shapes == UNION {[1..n -> Shape] : n \in 0..MaxEvents}

ConversionTypeOK ==
  /\ request \in [modes : SUBSET Asked, subgraphs : BOOLEAN, resume : BOOLEAN]
  /\ \A i \in DOMAIN graph :
       graph[i] \in [path : BOOLEAN, mode : Asked, data : Payload]
  /\ Len(graph) <= MaxEvents
  /\ stop \in {"no"} \union Stops
  /\ cursor \in 0..MaxEvents
  /\ live \in Shapes /\ stored \in Shapes /\ replay \in Shapes
  /\ found \in BOOLEAN /\ output \in 0..MaxEvents
  /\ verdict \in {"none", "completed", "interrupted"}

-----------------------------------------------------------------------------
(* The pipeline of one event.                                              *)

Skipped == [mode |-> "none", data |-> "plain"]

\* _process_interrupt_updates: of the updates nobody asked for only an
\* interrupt stays, as values.  It looks at the first element, which in a
\* triple is the path: those pass as they are.
Processed(e) ==
  IF ~e.path /\ e.mode = "updates" /\ "updates" \notin request.modes
  THEN IF e.data = "interrupt" THEN [mode |-> "values", data |-> e.data]
                               ELSE Skipped
  ELSE [mode |-> e.mode, data |-> e.data]

\* convert_raw_to_sse: updates that carry __interrupt__ are sent as values.
LiveFrame(p, n) ==
  [no |-> n, data |-> p.data, form |-> "payload",
   type |-> IF p.mode = "updates" /\ p.data \in Stops THEN "values"
            ELSE p.mode]

\* store_event_from_raw: a chunk and its metadata are kept apart, values and
\* updates become one kind of row with the payload in it.
StoredRow(p, n) ==
  IF p.mode = "messages"
  THEN [no |-> n, data |-> p.data, type |-> "messages", form |-> "payload"]
  ELSE [no |-> n, data |-> p.data, type |-> "values", form |-> "wrapped"]

StoredModes == {"messages", "values", "updates"}

\* Mutant: a row of values is not known to the converter.
Replayed_MessagesOnly(r) ==
  IF r.type = "messages" THEN <<r>> ELSE <<>>

\* convert_stored_to_sse: the row as it is, with its number; a type it does
\* not know gives no frame.
Replayed(r) == IF r.type \in {"messages", "values"} THEN <<r>> ELSE <<>>

-----------------------------------------------------------------------------
InitConversion ==
  /\ request \in [modes : SUBSET Asked \ {{}}, subgraphs : BOOLEAN,
                  resume : BOOLEAN]
  /\ graph = <<>> /\ stop = "no"
  /\ live = <<>> /\ stored = <<>> /\ cursor = 0 /\ replay = <<>>
  /\ found = FALSE /\ output = 0 /\ verdict = "none"

\* The task looks at the second element: in a triple that is the mode.
Detected(e) == ~e.path /\ e.data \in Stops

\* One turn of the loop over astream: put_to_broker, store_event_from_raw,
\* then the task's own look at the event.  (An event tagged nostream is
\* passed over before it is numbered: it is no event here.)
GraphEvent(mode, data) ==
  LET e == [path |-> request.subgraphs, mode |-> mode, data |-> data]
      n == Len(graph) + 1
      p == Processed(e) IN
    /\ verdict = "none" /\ n <= MaxEvents
    /\ mode \in request.modes \union {"updates"}
    /\ data # "plain" => mode \in {"updates", "values"}
    /\ data = "pause" => mode = "updates"
    /\ stop # "no" => data = stop
    /\ stop' = IF data = "plain" THEN stop ELSE data
    /\ graph' = Append(graph, e)
    /\ live' = IF p = Skipped THEN live ELSE Append(live, LiveFrame(p, n))
    /\ stored' = IF p.mode \in StoredModes THEN Append(stored, StoredRow(p, n))
               ELSE stored
    /\ found' = (found \/ Detected(e))
    /\ output' = IF ~e.path /\ mode = "values" THEN n ELSE output
    /\ UNCHANGED <<request, cursor, replay, verdict>>

\* The graph ends.  Without an event that told of an interrupt, a run that
\* is no resume asks the checkpoint for tasks that hold one; the question may
\* fail, and is then taken for a no.
GraphDone ==
  /\ verdict = "none"
  /\ \E answered \in BOOLEAN :
       verdict' = IF found \/ (~request.resume /\ answered /\ stop = "interrupt")
                  THEN "interrupted" ELSE "completed"
  /\ UNCHANGED <<request, graph, stop, live, stored, cursor, replay, found,
                 output>>

\* A client reconnects and is sent a stored event.
ReplayNext ==
  /\ verdict # "none" /\ cursor < Len(stored)
  /\ cursor' = cursor + 1
  /\ replay' = replay \o Replayed(stored[cursor + 1])
  /\ UNCHANGED <<request, graph, stop, live, stored, found, output, verdict>>

NextConversion ==
  \/ \E mode \in Asked, data \in Payload : GraphEvent(mode, data)
  \/ GraphDone
  \/ ReplayNext

-----------------------------------------------------------------------------
(* Safety.                                                                 *)

Ascending(frames) ==
  \A i, j \in DOMAIN frames : i < j => frames[i].no < frames[j].no

\* Values and updates come back as values, inside the wrapper of their row.
Tells(r, f) ==
  /\ r.no = f.no /\ r.data = f.data
  /\ r.type = f.type \/ (r.type = "values" /\ f.type = "updates")
  /\ (r.form = "payload") <=> (r.type = "messages")

\* A client that reconnects is shown, one for one and in order, the events the
\* live stream showed, but for custom ones: it is shown no other event, passes
\* over none, and when it has read all rows has been shown all of them.
ReplayAgrees ==
  /\ Ascending(live) /\ Ascending(replay)
  /\ \A i \in DOMAIN replay : \E k \in DOMAIN live :
       live[k].type # "custom" /\ Tells(replay[i], live[k])
  /\ \A k \in DOMAIN live :
       /\ live[k].type # "custom"
       /\ \/ cursor = Len(stored)
          \/ \E i \in DOMAIN replay : live[k].no < replay[i].no
       => \E i \in DOMAIN replay : replay[i].no = live[k].no

-----------------------------------------------------------------------------
(* What the documentation says.                                            *)

\* convert_stored_to_sse: a values frame carries the state (chunk).
ReplayKeepsShape ==
  \A i \in DOMAIN replay : replay[i].form = "payload"
=============================================================================
