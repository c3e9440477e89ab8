---------------------------- MODULE EventChannel ----------------------------
(***************************************************************************)
(* What one run's event broker promises its producers and its consumers,   *)
(* without the queue, the waiting putters or the polling that implement    *)
(* it.  Events are numbered in the order the channel accepted them, and    *)
(* every accepted event has exactly one fate:                              *)
(*   - it is handed to one consumer, always the oldest pending event first *)
(*     (the channel is a work queue: it does not broadcast);               *)
(*   - or, under the lossy policy only, it is dropped to make room for a   *)
(*     younger one, the oldest non-terminal event first.                   *)
(***************************************************************************)
EXTENDS Naturals, Sequences

CONSTANTS
  Consumers,   \* whoever iterates the channel (SSE streams)
  Kinds,       \* kinds of payload
  Terminal     \* the kinds that may never be dropped

VARIABLES
  lossy,    \* TRUE when the channel makes room by dropping (drop_oldest)
  log,      \* log[n] is the kind of the n-th accepted event
  fate,     \* fate[n] \in Consumers \union {"queued", "dropped"}
  closed    \* no more events will be promised to consumers

chanVars == <<lossy, log, fate, closed>>

Pending == {n \in DOMAIN fate : fate[n] = "queued"}
Droppable == {n \in Pending : log[n] \notin Terminal}
IsOldest(n, S) == n \in S /\ \A m \in S : n <= m

CInit ==
  /\ lossy \in BOOLEAN
  /\ log = <<>>
  /\ fate = <<>>
  /\ closed = FALSE

Closes(k) == closed' = (closed \/ k = "end")

Accept(k) ==
  /\ log' = Append(log, k)
  /\ fate' = Append(fate, "queued")
  /\ Closes(k)
  /\ UNCHANGED lossy

Replace(k) ==
  /\ lossy
  /\ log' = Append(log, k)
  /\ \E n \in Droppable :
       /\ IsOldest(n, Droppable)
       /\ fate' = Append([fate EXCEPT ![n] = "dropped"], "queued")
  /\ Closes(k)
  /\ UNCHANGED lossy

Deliver(c) ==
  /\ \E n \in Pending :
       /\ IsOldest(n, Pending)
       /\ fate' = [fate EXCEPT ![n] = c]
  /\ UNCHANGED <<lossy, log, closed>>

Close ==
  /\ closed' = TRUE
  /\ UNCHANGED <<lossy, log, fate>>

CNext ==
  \/ \E k \in Kinds : Accept(k) \/ Replace(k)
  \/ \E c \in Consumers : Deliver(c)
  \/ Close

CSpec == CInit /\ [][CNext]_chanVars
=============================================================================
