----------------------------- MODULE AuditOutbox -----------------------------
(***************************************************************************)
(* The audit trail: AuditMiddleware (middleware/audit.py) inserts one      *)
(* entry per request into an outbox table, and the batch movers of         *)
(* services/audit_outbox_service.py, one per server process, move entries  *)
(* to the partitioned table audit_logs.                                    *)
(*                                                                         *)
(* A request is logged when the application has answered, raised or been   *)
(* cancelled; one that is cancelled while it is being logged is logged     *)
(* again, so a request has up to two entries.  wait_for may give up an     *)
(* insert whose transaction is still open in the database, which then      *)
(* commits or not.                                                         *)
(*                                                                         *)
(* A batch is one transaction.  It locks the rows it selected until it     *)
(* ends, and audit_logs (ROW EXCLUSIVE) from its first successful insert   *)
(* on.  A missing partition is created on another connection, which needs  *)
(* audit_logs for itself (ACCESS EXCLUSIVE): the locks are PostgreSQL's,   *)
(* modelled from the statements the code sends.                            *)
(***************************************************************************)
EXTENDS Naturals, Sequences, FiniteSets

CONSTANTS
  Requests,    \* audited HTTP requests, numbered as they are logged
  Impatient,   \* requests that may be cancelled while they are logged
  Movers,      \* server processes, each with its mover task
  Bad,         \* requests whose entry audit_logs rejects whenever it is tried
  Late,        \* requests of a month that has no partition yet
  MaxRetry,    \* MAX_RETRY_COUNT
  BatchSize,   \* BATCH_SIZE
  CacheSize,   \* MAX_RETRY_CACHE_SIZE
  MaxFaults    \* bound of the model: failing statements and batches, stops
               \* and restarts of processes

\* A request's entry, and the one of the handler for CancelledError.
Entries == (Requests \X {1}) \union (Impatient \X {2})

ASSUME RequestsAssumption ==
  Requests \subseteq Nat /\ Bad \subseteq Requests /\ Late \subseteq Requests /\ Impatient \subseteq Requests
ASSUME SizesAssumption ==
  /\ MaxRetry \in Nat \ {0}
  /\ BatchSize \in Nat \ {0}
  /\ CacheSize \in Nat \ {0}
  /\ MaxFaults \in Nat

VARIABLES
  request,     \* request[r]: "app", logging its "first" or "second" entry, "done"
  acked,       \* entries whose insert() returned an id
  outbox,      \* outbox[e]: "none", in an "open" transaction, "new",
               \* "processed", "lost" (rolled back) or "moved" (deleted)
  born,        \* born[e]: created_at
  clock,       \* the database's clock
  audit,       \* entries in audit_logs
  partition,   \* the month of the Late entries has its partition
  pc,          \* pc[m]: where the mover of process m is
  closing,     \* closing[m]: the batch is stop_mover's flush
  held,        \* held[m]: rows locked by m's transaction
  todo,        \* todo[m]: rows of the batch not looked at yet
  success,     \* success[m]: success_ids
  poison,      \* poison[m]: poison_ids
  retries,     \* retries[m][e]: count in _retry_cache, 0 if absent
  recent,      \* recent[m]: keys of _retry_cache, least recently used first
  failures,    \* history: failed inserts of e, counted up to MaxRetry
  faults       \* faults so far

requestVars == <<request, acked>>
batchVars == <<held, todo, success, poison>>
cacheVars == <<retries, recent>>
vars == <<requestVars, outbox, born, clock, audit, partition, pc, closing,
          batchVars, cacheVars, failures, faults>>

Stages == {"asleep", "drain", "rows", "partition", "retry", "stopped"}
InBatch == {"rows", "partition", "retry"}      \* engine.begin() is open

TypeOK ==
  /\ request \in [Requests -> {"app", "first", "second", "done"}]
  /\ acked \subseteq Entries
  /\ outbox \in [Entries -> {"none", "open", "new", "processed", "lost", "moved"}]
  /\ born \in [Entries -> Nat]
  /\ clock \in Nat
  /\ audit \subseteq Entries
  /\ partition \in BOOLEAN
  /\ pc \in [Movers -> Stages]
  /\ closing \in [Movers -> BOOLEAN]
  /\ held \in [Movers -> SUBSET Entries]
  /\ todo \in [Movers -> SUBSET Entries]
  /\ success \in [Movers -> SUBSET Entries]
  /\ poison \in [Movers -> SUBSET Entries]
  /\ retries \in [Movers -> [Entries -> Nat]]
  /\ recent \in [Movers -> Seq(Entries)]
  /\ failures \in [Entries -> Nat]
  /\ faults \in Nat

Init ==
  /\ request = [r \in Requests |-> "app"]
  /\ acked = {}
  /\ outbox = [e \in Entries |-> "none"]
  /\ born = [e \in Entries |-> 0]
  /\ clock = 0
  /\ audit = {}
  /\ partition = FALSE
  /\ pc = [m \in Movers |-> "drain"]
  /\ closing = [m \in Movers |-> FALSE]
  /\ held = [m \in Movers |-> {}]
  /\ todo = [m \in Movers |-> {}]
  /\ success = [m \in Movers |-> {}]
  /\ poison = [m \in Movers |-> {}]
  /\ retries = [m \in Movers |-> [e \in Entries |-> 0]]
  /\ recent = [m \in Movers |-> <<>>]
  /\ failures = [e \in Entries |-> 0]
  /\ faults = 0

Fault == faults < MaxFaults /\ faults' = faults + 1

-----------------------------------------------------------------------------
(* The middleware and insert().                                            *)

\* The entry a request is inserting.
Current(r) == <<r, IF request[r] = "first" THEN 1 ELSE 2>>
Logging(r) == request[r] \in {"first", "second"}

Kept == {"new", "processed", "moved"}      \* committed, from then on

\* _do_insert: the transaction is open, created_at is its start.
OpenInsert(e) ==
  /\ outbox' = [outbox EXCEPT ![e] = "open"]
  /\ born' = [born EXCEPT ![e] = clock + 1]
  /\ clock' = clock + 1

\* The application answered, raised, or was cancelled: the entry is logged.
LogAudit(r) ==
  /\ request[r] = "app"
  /\ \A s \in Requests : s < r => request[s] # "app"
  /\ request' = [request EXCEPT ![r] = "first"]
  /\ OpenInsert(<<r, 1>>)
  /\ UNCHANGED <<acked, audit, partition, pc, closing, batchVars, cacheVars,
                 failures, faults>>

\* CancelledError in the first _log_audit enters the handler, which logs
\* again; in the handler's own it leaves the middleware.
CancelLogging(r) ==
  /\ Logging(r) /\ r \in Impatient
  /\ IF request[r] = "first"
     THEN /\ request' = [request EXCEPT ![r] = "second"]
          /\ OpenInsert(<<r, 2>>)
     ELSE /\ request' = [request EXCEPT ![r] = "done"]
          /\ UNCHANGED <<outbox, born, clock>>
  /\ UNCHANGED <<acked, audit, partition, pc, closing, batchVars, cacheVars,
                 failures, faults>>

\* Mutant: the id is returned before the transaction has committed.
InsertReturns_Early(r) ==
  /\ Logging(r)
  /\ acked' = acked \union {Current(r)}
  /\ request' = [request EXCEPT ![r] = "done"]
  /\ UNCHANGED <<outbox, born, clock, audit, partition, pc, closing, batchVars,
                 cacheVars, failures, faults>>

\* insert() returns the id once engine.begin() has committed.
InsertReturns(r) ==
  /\ Logging(r)
  /\ outbox[Current(r)] \in Kept
  /\ acked' = acked \union {Current(r)}
  /\ request' = [request EXCEPT ![r] = "done"]
  /\ UNCHANGED <<outbox, born, clock, audit, partition, pc, closing, batchVars,
                 cacheVars, failures, faults>>

\* Either wait_for runs out of its second, or the insert fails: the caller
\* goes on without an id, whatever becomes of the transaction.
InsertGivenUp(r) ==
  /\ Logging(r)
  /\ request' = [request EXCEPT ![r] = "done"]
  /\ UNCHANGED <<acked, outbox, born, clock, audit, partition, pc, closing,
                 batchVars, cacheVars, failures, faults>>

\* The database ends the transaction of an insert.
InsertCommits(e) ==
  /\ outbox[e] = "open"
  /\ outbox' = [outbox EXCEPT ![e] = "new"]
  /\ UNCHANGED <<requestVars, born, clock, audit, partition, pc, closing,
                 batchVars, cacheVars, failures, faults>>

\* Nobody waits for it any more: the connection was closed, or it failed.
InsertRollsBack(e) ==
  /\ outbox[e] = "open"
  /\ ~(Logging(e[1]) /\ Current(e[1]) = e)
  /\ outbox' = [outbox EXCEPT ![e] = "lost"]
  /\ UNCHANGED <<requestVars, born, clock, audit, partition, pc, closing,
                 batchVars, cacheVars, failures, faults>>

-----------------------------------------------------------------------------
(* The retry cache of a process.                                           *)

Forget(m, S) ==
  /\ retries' = [retries EXCEPT ![m] = [e \in Entries |-> IF e \in S THEN 0 ELSE @[e]]]
  /\ recent' = [recent EXCEPT ![m] = SelectSeq(@, LAMBDA e : e \notin S)]

\* Mutant: an eviction hands the count on to the new key.
Increment_Inherits(m, e) ==
  LET line == Append(SelectSeq(recent[m], LAMBDA x : x # e), e)
      out == IF Len(line) > CacheSize THEN {Head(line)} ELSE {}
      old == IF out = {} THEN 0 ELSE retries[m][Head(line)]
  IN /\ recent' = [recent EXCEPT ![m] = IF out = {} THEN line ELSE Tail(line)]
     /\ retries' = [retries EXCEPT ![m] = [x \in Entries |->
          IF x = e THEN @[x] + 1 + old ELSE IF x \in out THEN 0 ELSE @[x]]]

\* LRURetryCache.increment: to the end of the line, the oldest key evicted.
Increment(m, e) ==
  LET line == Append(SelectSeq(recent[m], LAMBDA x : x # e), e)
      out == IF Len(line) > CacheSize THEN {Head(line)} ELSE {}
  IN /\ recent' = [recent EXCEPT ![m] = IF out = {} THEN line ELSE Tail(line)]
     /\ retries' = [retries EXCEPT ![m] = [x \in Entries |->
          IF x \in out THEN 0 ELSE IF x = e THEN @[x] + 1 ELSE @[x]]]

-----------------------------------------------------------------------------
(* A batch.                                                                *)

\* processed = false, FOR UPDATE SKIP LOCKED
Available(m) == {e \in Entries : outbox[e] = "new" /\ \A x \in Movers : e \notin held[x]}

\* ORDER BY created_at LIMIT batch_size
IsBatch(B, A) ==
  /\ B \subseteq A
  /\ \A e \in B, f \in A \ B : born[e] < born[f]
  /\ Cardinality(B) <= BatchSize
  /\ Cardinality(B) = BatchSize \/ B = A

IsFirst(e, S) == e \in S /\ \A f \in S : born[e] <= born[f]

\* The transaction of m ends.
Release(m) ==
  /\ held' = [held EXCEPT ![m] = {}]
  /\ todo' = [todo EXCEPT ![m] = {}]
  /\ success' = [success EXCEPT ![m] = {}]
  /\ poison' = [poison EXCEPT ![m] = {}]

\* Mutant: the mover loop ends with a batch that moved nothing.
After_LoopEnds(m, moved) ==
  pc' = [pc EXCEPT ![m] = IF closing[m] \/ moved = {} THEN "stopped" ELSE "drain"]

\* Where _move_batch returns to with this number of moved rows: the drain
\* loop goes on unless it is 0; the flush is a single batch.
After(m, moved) ==
  pc' = [pc EXCEPT ![m] = IF closing[m] THEN "stopped"
                          ELSE IF moved = {} THEN "asleep" ELSE "drain"]

\* asyncio.sleep(MOVE_INTERVAL_SECONDS) is over.
Wake(m) ==
  /\ pc[m] = "asleep"
  /\ pc' = [pc EXCEPT ![m] = "drain"]
  /\ UNCHANGED <<requestVars, outbox, born, clock, audit, partition, closing,
                 batchVars, cacheVars, failures, faults>>

\* _move_batch selects and locks its rows, or returns 0.
SelectRows(m) ==
  /\ pc[m] = "drain"
  /\ \E B \in SUBSET Available(m) :
       /\ IsBatch(B, Available(m))
       /\ IF B = {}
          THEN After(m, {}) /\ UNCHANGED batchVars
          ELSE /\ pc' = [pc EXCEPT ![m] = "rows"]
               /\ held' = [held EXCEPT ![m] = B]
               /\ todo' = [todo EXCEPT ![m] = B]
               /\ success' = [success EXCEPT ![m] = {}]
               /\ poison' = [poison EXCEPT ![m] = {}]
  /\ UNCHANGED <<requestVars, outbox, born, clock, audit, partition, closing,
                 cacheVars, failures, faults>>

\* A row that failed MAX_RETRY_COUNT times is given up, not inserted.
GiveUpRow(m, e) ==
  /\ pc[m] = "rows"
  /\ IsFirst(e, todo[m])
  /\ retries[m][e] >= MaxRetry
  /\ poison' = [poison EXCEPT ![m] = @ \union {e}]
  /\ todo' = [todo EXCEPT ![m] = @ \ {e}]
  /\ Forget(m, {e})
  /\ UNCHANGED <<requestVars, outbox, born, clock, audit, partition, pc,
                 closing, held, success, failures, faults>>

\* The row's insert is tried: the first time, or again with its partition.
Trying(m, e) ==
  /\ IsFirst(e, todo[m])
  /\ \/ pc[m] = "rows" /\ retries[m][e] < MaxRetry
     \/ pc[m] = "retry"

HasPartition(e) == e[1] \in Late => partition

\* Waits on another connection for a lock its own transaction holds.
Stuck(m) == pc[m] = "partition" /\ success[m] # {}

\* The insert succeeds and its savepoint commits.  The first one takes the
\* lock of audit_logs, behind a CREATE TABLE that waits for it.
MoveRow(m, e) ==
  /\ Trying(m, e)
  /\ e[1] \notin Bad /\ HasPartition(e)
  /\ success[m] = {} => \A x \in Movers : ~Stuck(x)
  /\ success' = [success EXCEPT ![m] = @ \union {e}]
  /\ todo' = [todo EXCEPT ![m] = @ \ {e}]
  /\ Forget(m, {e})
  /\ pc' = [pc EXCEPT ![m] = "rows"]
  /\ UNCHANGED <<requestVars, outbox, born, clock, audit, partition, closing,
                 held, poison, failures, faults>>

\* Normal error handling: the savepoint is rolled back, the retry counted.
CountFailure(m, e) ==
  /\ todo' = [todo EXCEPT ![m] = @ \ {e}]
  /\ Increment(m, e)
  /\ failures' = [failures EXCEPT ![e] = IF @ < MaxRetry THEN @ + 1 ELSE @]
  /\ pc' = [pc EXCEPT ![m] = "rows"]
  /\ UNCHANGED <<requestVars, outbox, born, clock, audit, closing, held,
                 success, poison>>

\* The insert fails for another reason than a missing partition: always for
\* a bad row, sometimes for any other.
RowFails(m, e) ==
  /\ Trying(m, e)
  /\ HasPartition(e)
  /\ IF e[1] \in Bad THEN UNCHANGED faults ELSE Fault
  /\ CountFailure(m, e)
  /\ UNCHANGED partition

\* "no partition of relation": the savepoint is rolled back and
\* create_partition_for_date awaited.
NeedsPartition(m, e) ==
  /\ pc[m] = "rows"
  /\ Trying(m, e)
  /\ ~HasPartition(e)
  /\ pc' = [pc EXCEPT ![m] = "partition"]
  /\ UNCHANGED <<requestVars, outbox, born, clock, audit, partition, closing,
                 batchVars, cacheVars, failures, faults>>

\* _create_partition_if_not_exists finds it, or has audit_logs for itself.
CreatePartition(m) ==
  /\ pc[m] = "partition"
  /\ partition \/ \A x \in Movers : success[x] = {}
  /\ partition' = TRUE
  /\ pc' = [pc EXCEPT ![m] = "retry"]
  /\ UNCHANGED <<requestVars, outbox, born, clock, audit, closing, batchVars,
                 cacheVars, failures, faults>>

\* The creation raises: the row's failure is counted.
PartitionFails(m, e) ==
  /\ pc[m] = "partition"
  /\ IsFirst(e, todo[m])
  /\ Fault
  /\ CountFailure(m, e)
  /\ UNCHANGED partition

\* Mutant: the outbox rows are not deleted with the batch.
CommitBatch_NoDelete(m) ==
  /\ pc[m] = "rows" /\ todo[m] = {}
  /\ audit' = audit \union success[m]
  /\ outbox' = [e \in Entries |-> IF e \in poison[m] THEN "processed" ELSE outbox[e]]
  /\ Release(m)
  /\ After(m, success[m])
  /\ UNCHANGED <<requestVars, born, clock, partition, closing, cacheVars,
                 failures, faults>>

\* Successes are deleted from the outbox, poison is marked, all commits.
CommitBatch(m) ==
  /\ pc[m] = "rows" /\ todo[m] = {}
  /\ audit' = audit \union success[m]
  /\ outbox' = [e \in Entries |-> IF e \in success[m] THEN "moved"
                                  ELSE IF e \in poison[m] THEN "processed"
                                  ELSE outbox[e]]
  /\ Release(m)
  /\ After(m, success[m])
  /\ UNCHANGED <<requestVars, born, clock, partition, closing, cacheVars,
                 failures, faults>>

\* A statement outside the savepoints or the commit fails: everything is
\* rolled back except the retry cache, and the number of rows that were
\* moved before is returned all the same.
BatchFails(m) ==
  /\ pc[m] \in {"rows", "retry"}
  /\ Fault
  /\ Release(m)
  /\ After(m, success[m])
  /\ UNCHANGED <<requestVars, outbox, born, clock, audit, partition, closing,
                 cacheVars, failures>>

-----------------------------------------------------------------------------
(* The life of a process.                                                  *)

\* stop_mover cancels the task, which rolls its batch back, and flushes
\* one more batch.
StopMover(m) ==
  /\ ~closing[m]
  /\ Fault
  /\ closing' = [closing EXCEPT ![m] = TRUE]
  /\ pc' = [pc EXCEPT ![m] = "drain"]
  /\ Release(m)
  /\ UNCHANGED <<requestVars, outbox, born, clock, audit, partition, cacheVars,
                 failures>>

\* The flush runs out of FLUSH_TIMEOUT_SECONDS.
FlushTimeout(m) ==
  /\ closing[m] /\ pc[m] \in InBatch
  /\ pc' = [pc EXCEPT ![m] = "stopped"]
  /\ Release(m)
  /\ UNCHANGED <<requestVars, outbox, born, clock, audit, partition, closing,
                 cacheVars, failures, faults>>

\* The process ends at any point and starts again: the cache is empty.
Restart(m) ==
  /\ Fault
  /\ pc' = [pc EXCEPT ![m] = "drain"]
  /\ closing' = [closing EXCEPT ![m] = FALSE]
  /\ Release(m)
  /\ retries' = [retries EXCEPT ![m] = [e \in Entries |-> 0]]
  /\ recent' = [recent EXCEPT ![m] = <<>>]
  /\ UNCHANGED <<requestVars, outbox, born, clock, audit, partition, failures>>

\* ensure_future_partitions of a process that started in a later month.
EnsurePartitions ==
  /\ ~partition
  /\ faults > 0
  /\ \A m \in Movers : success[m] = {}
  /\ partition' = TRUE
  /\ UNCHANGED <<requestVars, outbox, born, clock, audit, pc, closing,
                 batchVars, cacheVars, failures, faults>>

-----------------------------------------------------------------------------
Request(r) == LogAudit(r) \/ CancelLogging(r) \/ InsertReturns(r) \/ InsertGivenUp(r)

Row(m, e) ==
  \/ GiveUpRow(m, e) \/ MoveRow(m, e) \/ RowFails(m, e)
  \/ NeedsPartition(m, e) \/ PartitionFails(m, e)

\* What the event loop and the database do on their own.
MoverStep(m) ==
  \/ Wake(m) \/ SelectRows(m) \/ CreatePartition(m) \/ CommitBatch(m)
  \/ \E e \in Entries : GiveUpRow(m, e) \/ MoveRow(m, e) \/ RowFails(m, e)
                        \/ NeedsPartition(m, e)

Next ==
  \/ \E r \in Requests : Request(r)
  \/ \E e \in Entries : InsertCommits(e) \/ InsertRollsBack(e)
  \/ \E m \in Movers, e \in Entries : Row(m, e)
  \/ \E m \in Movers :
       \/ Wake(m) \/ SelectRows(m) \/ CreatePartition(m) \/ CommitBatch(m)
       \/ BatchFails(m) \/ StopMover(m) \/ FlushTimeout(m) \/ Restart(m)
  \/ EnsurePartitions

Spec == Init /\ [][Next]_vars

FairSpec == Spec /\ \A m \in Movers : WF_vars(MoverStep(m))

-----------------------------------------------------------------------------
(* Properties.                                                             *)

\* The two tables change together (audit_outbox_service.py:602): an entry is
\* in audit_logs exactly if it was deleted from the outbox, whichever mover
\* took it, however often its batch was rolled back.
MovedOnce == \A e \in Entries : e \in audit <=> outbox[e] = "moved"

\* Only an entry that failed MAX_RETRY_COUNT times is given up (:474), in
\* spite of evictions, restarts and batches that forget or keep counts.
GivenUpAfterRetries ==
  \A e \in Entries : outbox[e] = "processed" => failures[e] >= MaxRetry

\* An entry whose id insert() returned is kept, also over the restart of
\* every process (module docstring: no data loss on process crash).
AckedIsKept == \A e \in acked : outbox[e] \in Kept

\* Poison does not stop the trail (:344): in the end every entry is moved or
\* given up, unless all movers have been stopped, or one waits for itself.
Drained ==
  <>[](\/ \A e \in Entries : outbox[e] # "new"
       \/ \A m \in Movers : closing[m]
       \/ \E m \in Movers : Stuck(m))

\* "Exception handling ensures the loop continues even if batch moves fail"
\* (:333): no mover waits for itself.
LoopContinues == \A m \in Movers : ~Stuck(m)
=============================================================================
