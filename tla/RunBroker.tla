------------------------------ MODULE RunBroker ------------------------------
(***************************************************************************)
(* RunBroker (services/broker.py): the event queue of one run.             *)
(*                                                                         *)
(* Producers are the coroutines that call put(): the run's own task and    *)
(* the request handlers that signal its end.  Consumers are the SSE        *)
(* streams that iterate aiter().  Everything runs on one event loop, so a  *)
(* step is what a coroutine does between two awaits: put() is one step     *)
(* unless the queue makes it wait, and then its continuation is a step of  *)
(* its own that never looks at `finished` again.                           *)
(*                                                                         *)
(* The waiting side of asyncio.Queue is external code, modelled by the     *)
(* order in which it wakes putters: a get() wakes the first of _putters, a *)
(* woken putter competes with putters that never waited, and goes back to  *)
(* the end of the line when it finds the queue full again.                 *)
(***************************************************************************)
EXTENDS Naturals, Sequences, FiniteSets

CONSTANTS
  Putters,     \* coroutines that call put()
  Consumers,   \* coroutines that iterate aiter()
  MaxSize,     \* BROKER_QUEUE_MAXSIZE
  MaxEvents    \* bound of the model: events put over the broker's life

Kinds == {"data", "error", "end"}     \* payload[0], as far as the code looks
Terminal == {"error", "end"}          \* _is_terminal_event

ASSUME MaxSizeAssumption == MaxSize \in Nat \ {0}
ASSUME MaxEventsAssumption == MaxEvents \in Nat
ASSUME ConsumersAssumption ==
  /\ "queued" \notin Consumers
  /\ "dropped" \notin Consumers

VARIABLES
  policy,     \* _backpressure_policy, read from the environment once
  queue,      \* asyncio.Queue: sequence of [n, kind], n numbers acceptance
  finished,   \* the `finished` asyncio.Event
  putter,     \* putter[p]: "idle", "waiting" on a full queue, or "woken"
  item,       \* item[p]: kind of the event p is trying to put
  waiters,    \* asyncio.Queue._putters
  reading,    \* reading[c]: c is inside aiter()
  log,        \* history: kind of every event accepted, in order
  fate        \* history: "queued", "dropped" or the consumer that got it

vars == <<policy, queue, finished, putter, item, waiters, reading, log, fate>>

Message == [n : Nat \ {0}, kind : Kinds]

TypeOK ==
  /\ policy \in {"block", "drop_oldest"}
  /\ queue \in Seq(Message)
  /\ finished \in BOOLEAN
  /\ putter \in [Putters -> {"idle", "waiting", "woken"}]
  /\ item \in [Putters -> Kinds]
  /\ waiters \in Seq(Putters)
  /\ reading \in [Consumers -> BOOLEAN]
  /\ log \in Seq(Kinds)
  /\ fate \in Seq(Consumers \union {"queued", "dropped"})

Init ==
  /\ policy \in {"block", "drop_oldest"}
  /\ queue = <<>>
  /\ finished = FALSE
  /\ putter = [p \in Putters |-> "idle"]
  /\ item = [p \in Putters |-> "data"]
  /\ waiters = <<>>
  /\ reading = [c \in Consumers |-> FALSE]
  /\ log = <<>>
  /\ fate = <<>>

-----------------------------------------------------------------------------
(* Queue operations.                                                       *)

Full == Len(queue) >= MaxSize

\* Positions _drop_oldest_non_terminal may delete; it takes the first.
Droppable == {i \in 1..Len(queue) : queue[i].kind \notin Terminal}

\* Mutant: the youngest instead.
IsFirst_Youngest(i, S) == i \in S /\ \A j \in S : i >= j

IsFirst(i, S) == i \in S /\ \A j \in S : i <= j

Without(q, i) ==
  [j \in 1..(Len(q) - 1) |-> IF j < i THEN q[j] ELSE q[j + 1]]

\* Mutant: an end does not finish the broker.
Store_NoFinish(q, k) ==
  /\ queue' = Append(q, [n |-> Len(log) + 1, kind |-> k])
  /\ log' = Append(log, k)
  /\ UNCHANGED finished

\* put_nowait(k) on the queue q, then mark_finished() for an "end".
Store(q, k) ==
  /\ queue' = Append(q, [n |-> Len(log) + 1, kind |-> k])
  /\ log' = Append(log, k)
  /\ finished' = (finished \/ k = "end")

\* asyncio.Queue._wakeup_next(_putters).
WakeNext(status) ==
  IF waiters = <<>>
    THEN putter' = status /\ UNCHANGED waiters
    ELSE /\ putter' = [status EXCEPT ![Head(waiters)] = "woken"]
         /\ waiters' = Tail(waiters)

\* _putters.remove(p).
LeaveLine(p) ==
  \E i \in 1..Len(waiters) :
    waiters[i] = p /\ waiters' = Without(waiters, i)

InFlight == {p \in Putters : putter[p] # "idle"}

-----------------------------------------------------------------------------
(* put().  A call that finds the broker finished returns at once and       *)
(* changes nothing, so it is not a step of the model.                      *)

Callable(p) ==
  /\ putter[p] = "idle"
  /\ ~finished
  /\ Len(log) + Cardinality(InFlight) < MaxEvents

PutNow(p, k) ==
  /\ Callable(p)
  /\ ~Full
  /\ Store(queue, k)
  /\ fate' = Append(fate, "queued")
  /\ UNCHANGED <<policy, putter, item, waiters, reading>>

PutDropping(p, k) ==
  /\ Callable(p)
  /\ Full
  /\ policy = "drop_oldest"
  /\ \E i \in Droppable :
       /\ IsFirst(i, Droppable)
       /\ Store(Without(queue, i), k)
       /\ fate' = Append([fate EXCEPT ![queue[i].n] = "dropped"], "queued")
  /\ UNCHANGED <<policy, putter, item, waiters, reading>>

PutBlocks(p, k) ==
  /\ Callable(p)
  /\ Full
  /\ policy = "block" \/ Droppable = {}
  /\ putter' = [putter EXCEPT ![p] = "waiting"]
  /\ item' = [item EXCEPT ![p] = k]
  /\ waiters' = Append(waiters, p)
  /\ UNCHANGED <<policy, queue, finished, reading, log, fate>>

\* The continuation of a put that waited: `finished` is not read again.
PutResumes(p) ==
  /\ putter[p] = "woken"
  /\ ~Full
  /\ Store(queue, item[p])
  /\ fate' = Append(fate, "queued")
  /\ putter' = [putter EXCEPT ![p] = "idle"]
  /\ UNCHANGED <<policy, item, waiters, reading>>

PutBlocksAgain(p) ==
  /\ putter[p] = "woken"
  /\ Full
  /\ putter' = [putter EXCEPT ![p] = "waiting"]
  /\ waiters' = Append(waiters, p)
  /\ UNCHANGED <<policy, queue, finished, item, reading, log, fate>>

\* Mutant: the cancelled putter keeps its wake-up.
PutCancelled_KeepsWakeup(p) ==
  /\ putter[p] # "idle"
  /\ putter' = [putter EXCEPT ![p] = "idle"]
  /\ IF putter[p] = "waiting" THEN LeaveLine(p) ELSE UNCHANGED waiters
  /\ UNCHANGED <<policy, queue, finished, item, reading, log, fate>>

\* task.cancel() on a coroutine inside put(): a waiting putter leaves the
\* line, a woken one passes its wake-up on if there is room.
PutCancelled(p) ==
  /\ \/ /\ putter[p] = "waiting"
        /\ putter' = [putter EXCEPT ![p] = "idle"]
        /\ LeaveLine(p)
     \/ /\ putter[p] = "woken"
        /\ LET status == [putter EXCEPT ![p] = "idle"] IN
             IF Full THEN putter' = status /\ UNCHANGED waiters
                     ELSE WakeNext(status)
  /\ UNCHANGED <<policy, queue, finished, item, reading, log, fate>>

-----------------------------------------------------------------------------
(* aiter().                                                                *)

Attach(c) ==
  /\ ~reading[c]
  /\ reading' = [reading EXCEPT ![c] = TRUE]
  /\ UNCHANGED <<policy, queue, finished, putter, item, waiters, log, fate>>

Get(c) ==
  /\ reading[c]
  /\ queue # <<>>
  /\ queue' = Tail(queue)
  /\ fate' = [fate EXCEPT ![Head(queue).n] = c]
  /\ reading' = [reading EXCEPT ![c] = Head(queue).kind # "end"]
  /\ WakeNext(putter)
  /\ UNCHANGED <<policy, finished, item, log>>

\* wait_for(get, 0.1) timed out: the loop ends only if nothing can follow.
TimeoutBreak(c) ==
  /\ reading[c]
  /\ queue = <<>>
  /\ finished
  /\ reading' = [reading EXCEPT ![c] = FALSE]
  /\ UNCHANGED <<policy, queue, finished, putter, item, waiters, log, fate>>

\* The client goes away and the generator is closed where it stands.
Disconnect(c) ==
  /\ reading[c]
  /\ reading' = [reading EXCEPT ![c] = FALSE]
  /\ UNCHANGED <<policy, queue, finished, putter, item, waiters, log, fate>>

\* cleanup_broker() at the end of the run, or any other mark_finished().
MarkFinished ==
  /\ ~finished
  /\ finished' = TRUE
  /\ UNCHANGED <<policy, queue, putter, item, waiters, reading, log, fate>>

-----------------------------------------------------------------------------
Put(p) ==
  \/ \E k \in Kinds : PutNow(p, k) \/ PutDropping(p, k) \/ PutBlocks(p, k)
  \/ PutCancelled(p)

PutContinues(p) == PutResumes(p) \/ PutBlocksAgain(p)
Iterate(c) == Get(c) \/ TimeoutBreak(c)

Next ==
  \/ \E p \in Putters : Put(p) \/ PutContinues(p)
  \/ \E c \in Consumers : Attach(c) \/ Iterate(c) \/ Disconnect(c)
  \/ MarkFinished

Spec == Init /\ [][Next]_vars

\* The event loop runs every coroutine that is ready, and aiter() polls
\* every 0.1 s: consumers that stay connected and woken putters proceed.
\* Nothing makes a producer call put() or a client connect or leave.
Fairness ==
  /\ \A c \in Consumers : WF_vars(Iterate(c))
  /\ \A p \in Putters : WF_vars(PutContinues(p))

FairSpec == Spec /\ Fairness

-----------------------------------------------------------------------------
(* Safety.                                                                 *)

\* The queue never exceeds its size: neither the delete-then-put_nowait of
\* drop_oldest nor a woken putter overtaken by a new one oversteps it.
Bounded == Len(queue) <= MaxSize

\* A queue q holds exactly the pending events of a history, oldest first.
HoldsPending(q, l, f) ==
  /\ Len(l) = Len(f)
  /\ \A i \in 1..Len(q) :
       /\ q[i].n \in 1..Len(f)
       /\ f[q[i].n] = "queued"
       /\ l[q[i].n] = q[i].kind
  /\ \A i, j \in 1..Len(q) : i < j => q[i].n < q[j].n
  /\ \A n \in 1..Len(f) :
       f[n] = "queued" => \E i \in 1..Len(q) : q[i].n = n

\* The queue holds exactly the accepted events that were neither handed out
\* nor dropped, oldest first: no event is lost, duplicated or reordered
\* between put() and aiter(), whoever drops, waits or is cancelled.
QueueIsPending == HoldsPending(queue, log, fate)

\* Only drop_oldest loses events, and never an "end" or an "error".
OnlyDataDropped ==
  \A n \in DOMAIN fate :
    fate[n] = "dropped" => policy = "drop_oldest" /\ log[n] \notin Terminal

\* The line of putters lists each waiting putter once, and nobody else.
WaitersInLine ==
  /\ \A i \in 1..Len(waiters) : putter[waiters[i]] = "waiting"
  /\ \A i, j \in 1..Len(waiters) : waiters[i] = waiters[j] => i = j
  /\ \A p \in Putters : putter[p] = "waiting" =>
       \E i \in 1..Len(waiters) : waiters[i] = p

\* No wake-up is lost: while putters wait in line, every free place of the
\* queue has a woken putter coming for it, also after cancellations and
\* after new puts that took a freed place first.
NoLostWakeup ==
  waiters # <<>> =>
    Cardinality({p \in Putters : putter[p] = "woken"}) + Len(queue) >= MaxSize

\* An accepted "end" finishes the broker in the same step, so no consumer
\* ever polls an unfinished broker whose end it has missed.
EndFinishes == (\E n \in DOMAIN log : log[n] = "end") => finished

-----------------------------------------------------------------------------
(* The broker implements the channel it promises.                          *)

Channel == INSTANCE EventChannel WITH
  lossy <- (policy = "drop_oldest"), closed <- finished

\* Every step of the broker is a step of the channel, or none.
ImplementsChannel == Channel!CSpec

-----------------------------------------------------------------------------
(* The documentation of put(): a finished broker accepts no event.         *)
NoEventAfterFinish == [][finished => Len(log') = Len(log)]_vars
=============================================================================
