-------------------------- MODULE AuditOutboxProofs --------------------------
(***************************************************************************)
(* What the audit outbox guarantees for any number of requests, movers,    *)
(* retries, batch and cache sizes, wherever statements, batches and        *)
(* processes fail.                                                         *)
(***************************************************************************)
EXTENDS AuditOutbox, TLAPS

\* A batch works on rows it has locked, and puts each on one list.
BatchTidy(m) ==
  /\ success[m] \subseteq held[m]
  /\ poison[m] \subseteq held[m]
  /\ todo[m] \subseteq held[m]
  /\ todo[m] \intersect (success[m] \union poison[m]) = {}
  /\ success[m] \intersect poison[m] = {}
  /\ \A e \in held[m] : outbox[e] = "new"

\* Counts of the cache are counts of failures, as far as history counts.
CountsFailures(m) ==
  \A e \in Entries : failures[e] >= MaxRetry \/ retries[m][e] <= failures[e]

\* An entry that was not logged yet is nowhere.
NotYetLogged(r) ==
  /\ request[r] = "app" => outbox[<<r, 1>>] = "none"
  /\ r \in Impatient /\ request[r] \in {"app", "first"} => outbox[<<r, 2>>] = "none"
  /\ request[r] = "second" => r \in Impatient
NotYet == \A r \in Requests : NotYetLogged(r)

Locks == \A m \in Movers : BatchTidy(m)
Exclusive == \A m, n \in Movers : m # n => held[m] \intersect held[n] = {}
Counted ==
  /\ \A m \in Movers : CountsFailures(m)
  /\ \A m \in Movers : \A e \in poison[m] : failures[e] >= MaxRetry

\* The types the argument needs; the cache's line is not among them.
OutboxTypes ==
  /\ request \in [Requests -> {"app", "first", "second", "done"}]
  /\ acked \subseteq Entries
  /\ outbox \in [Entries -> {"none", "open", "new", "processed", "lost", "moved"}]
  /\ audit \subseteq Entries
  /\ held \in [Movers -> SUBSET Entries]
  /\ todo \in [Movers -> SUBSET Entries]
  /\ success \in [Movers -> SUBSET Entries]
  /\ poison \in [Movers -> SUBSET Entries]
  /\ retries \in [Movers -> [Entries -> Nat]]
  /\ failures \in [Entries -> Nat]

IInv ==
  /\ OutboxTypes
  /\ NotYet
  /\ Locks
  /\ Exclusive
  /\ Counted
  /\ MovedOnce
  /\ GivenUpAfterRetries
  /\ AckedIsKept

\* Every conjunct of the invariant, for the leaves of the step lemmas.
tables == <<request, acked, outbox, audit, held, todo, success, poison, retries,
            failures>>

LEMMA PairsAreEntries ==
  \A r \in Requests : <<r, 1>> \in Entries /\ (r \in Impatient => <<r, 2>> \in Entries)
  BY DEF Entries

\* The tables and lists start empty.
LEMMA InitIInv == Init => IInv
<1> SUFFICES ASSUME Init PROVE IInv
  OBVIOUS
<1> USE SizesAssumption DEF Init
<1>1. OutboxTypes
  BY DEF OutboxTypes
<1>2. NotYet
  BY PairsAreEntries DEF NotYet, NotYetLogged
<1>3. Locks /\ Exclusive
  BY DEF Locks, BatchTidy, Exclusive
<1>4. Counted
  BY DEF Counted, CountsFailures
<1>5. MovedOnce /\ GivenUpAfterRetries /\ AckedIsKept
  BY DEF MovedOnce, GivenUpAfterRetries, AckedIsKept
<1> QED
  BY <1>1, <1>2, <1>3, <1>4, <1>5 DEF IInv

\* Steps that touch neither table, list nor count.
LEMMA TablesStutter == IInv /\ UNCHANGED tables => IInv'
  BY DEF tables, IInv, OutboxTypes, NotYet, NotYetLogged, Locks, BatchTidy, Exclusive, Counted,
     CountsFailures, MovedOnce, GivenUpAfterRetries, AckedIsKept

\* A transaction that ends releases its rows and lists, whatever else happens
\* to the requests and the process.
LEMMA ReleaseIInv ==
  ASSUME NEW m \in Movers, IInv, Release(m),
         UNCHANGED <<request, acked, outbox, audit, failures>>,
         \/ UNCHANGED retries
         \/ retries' = [retries EXCEPT ![m] = [e \in Entries |-> 0]]
  PROVE  IInv'
<1> USE DEF IInv
<1>1. OutboxTypes'
  BY SMTT(30) DEF OutboxTypes, Release
<1>2. NotYet'
  BY DEF NotYet, NotYetLogged
<1>3. Locks' /\ Exclusive'
  BY DEF OutboxTypes, Locks, BatchTidy, Exclusive, Release
<1>4. Counted'
  BY DEF OutboxTypes, Counted, CountsFailures, Release
<1>5. MovedOnce' /\ GivenUpAfterRetries' /\ AckedIsKept'
  BY DEF MovedOnce, GivenUpAfterRetries, AckedIsKept
<1> QED
  BY <1>1, <1>2, <1>3, <1>4, <1>5

\* The requests log each entry once, and only an open one is decided.
LEMMA RequestStep ==
  ASSUME IInv, NEW r \in Requests, Request(r)
  PROVE  IInv'
<1> USE DEF IInv
<1>1. CASE LogAudit(r)
  <2>1. <<r, 1>> \in Entries /\ outbox[<<r, 1>>] = "none"
    BY <1>1, PairsAreEntries DEF LogAudit, NotYet, NotYetLogged
  <2>2. OutboxTypes'
    BY <1>1, <2>1 DEF LogAudit, OpenInsert, OutboxTypes, batchVars, cacheVars
  <2>3. NotYet'
    <3>1. /\ request' = [request EXCEPT ![r] = "first"]
          /\ outbox' = [outbox EXCEPT ![<<r, 1>>] = "open"]
          /\ request[r] = "app"
      BY <1>1 DEF LogAudit, OpenInsert
    <3>2. ASSUME NEW q \in Requests PROVE NotYetLogged(q)'
      BY <3>1, <2>1, PairsAreEntries DEF OutboxTypes, NotYet, NotYetLogged
    <3> QED
      BY <3>2 DEF NotYet
  <2>4. Locks' /\ Exclusive' /\ Counted'
    BY <1>1, <2>1 DEF LogAudit, OpenInsert, OutboxTypes, batchVars, cacheVars, Locks,
       BatchTidy, Exclusive, Counted, CountsFailures
  <2>5. MovedOnce' /\ GivenUpAfterRetries' /\ AckedIsKept'
    BY <1>1, <2>1 DEF LogAudit, OpenInsert, OutboxTypes, MovedOnce, GivenUpAfterRetries,
       AckedIsKept, Kept
  <2> QED
    BY <2>2, <2>3, <2>4, <2>5
<1>2. CASE CancelLogging(r) /\ request[r] = "first"
  <2>1. <<r, 2>> \in Entries /\ outbox[<<r, 2>>] = "none"
    BY <1>2, PairsAreEntries DEF CancelLogging, NotYet, NotYetLogged
  <2>2. OutboxTypes'
    BY <1>2, <2>1 DEF CancelLogging, OpenInsert, OutboxTypes, batchVars, cacheVars
  <2>3. NotYet'
    <3>1. /\ request' = [request EXCEPT ![r] = "second"]
          /\ outbox' = [outbox EXCEPT ![<<r, 2>>] = "open"]
          /\ request[r] = "first" /\ r \in Impatient
      BY <1>2 DEF CancelLogging, OpenInsert
    <3>2. ASSUME NEW q \in Requests PROVE NotYetLogged(q)'
      BY <3>1, <2>1, PairsAreEntries DEF OutboxTypes, NotYet, NotYetLogged
    <3> QED
      BY <3>2 DEF NotYet
  <2>6. /\ outbox' = [outbox EXCEPT ![<<r, 2>>] = "open"]
        /\ UNCHANGED <<held, todo, success, poison, retries, failures>>
    BY <1>2 DEF CancelLogging, OpenInsert, batchVars, cacheVars
  <2>4. Locks' /\ Exclusive' /\ Counted'
    <3>1. Locks'
      BY <2>1, <2>6 DEF OutboxTypes, Locks, BatchTidy
    <3>2. Exclusive' /\ Counted'
      BY <2>6 DEF Exclusive, Counted, CountsFailures
    <3> QED
      BY <3>1, <3>2
  <2>5. MovedOnce' /\ GivenUpAfterRetries' /\ AckedIsKept'
    BY <1>2, <2>1 DEF CancelLogging, OpenInsert, OutboxTypes, MovedOnce,
       GivenUpAfterRetries, AckedIsKept, Kept
  <2> QED
    BY <2>2, <2>3, <2>4, <2>5
<1>3. CASE \/ CancelLogging(r) /\ request[r] # "first"
           \/ InsertReturns(r) \/ InsertGivenUp(r)
  <2>1. /\ request' = [request EXCEPT ![r] = "done"]
        /\ UNCHANGED <<outbox, audit, held, todo, success, poison, retries, failures>>
    BY <1>3 DEF CancelLogging, InsertReturns, InsertGivenUp, batchVars, cacheVars
  <2>2. \/ acked' = acked
        \/ /\ Logging(r) /\ outbox[Current(r)] \in Kept
           /\ acked' = acked \union {Current(r)}
    BY <1>3 DEF CancelLogging, InsertReturns, InsertGivenUp
  <2>3. Logging(r) /\ outbox[Current(r)] \in Kept => Current(r) \in Entries
    <3>1. Logging(r) /\ request[r] = "first" => Current(r) \in Entries
      BY PairsAreEntries DEF Current
    <3>2. Logging(r) /\ request[r] # "first" => r \in Impatient
      BY DEF NotYet, NotYetLogged, Logging
    <3> QED
      BY <3>1, <3>2, PairsAreEntries DEF Current
  <2>4. OutboxTypes' /\ NotYet' /\ AckedIsKept'
    BY <2>1, <2>2, <2>3 DEF OutboxTypes, NotYet, NotYetLogged, AckedIsKept
  <2>5. Locks' /\ Exclusive' /\ Counted' /\ MovedOnce' /\ GivenUpAfterRetries'
    BY <2>1 DEF Locks, BatchTidy, Exclusive, Counted, CountsFailures, MovedOnce,
       GivenUpAfterRetries
  <2> QED
    BY <2>4, <2>5
<1> QED
  BY <1>1, <1>2, <1>3 DEF Request

\* The database decides about an insert that is still open.
LEMMA DatabaseStep ==
  ASSUME IInv, NEW e \in Entries, InsertCommits(e) \/ InsertRollsBack(e)
  PROVE  IInv'
<1> USE DEF IInv
<1>1. /\ outbox[e] = "open"
      /\ \/ outbox' = [outbox EXCEPT ![e] = "new"]
         \/ outbox' = [outbox EXCEPT ![e] = "lost"]
      /\ UNCHANGED <<request, acked, audit, held, todo, success, poison, retries, failures>>
  BY DEF InsertCommits, InsertRollsBack, requestVars, batchVars, cacheVars
<1>2. OutboxTypes'
  BY <1>1 DEF OutboxTypes
<1>3. NotYet'
  BY <1>1, PairsAreEntries DEF OutboxTypes, NotYet, NotYetLogged
<1>4. Locks' /\ Exclusive' /\ Counted'
  BY <1>1 DEF OutboxTypes, Locks, BatchTidy, Exclusive, Counted, CountsFailures
<1>5. MovedOnce' /\ GivenUpAfterRetries' /\ AckedIsKept'
  BY <1>1 DEF OutboxTypes, MovedOnce, GivenUpAfterRetries, AckedIsKept, Kept
<1> QED
  BY <1>2, <1>3, <1>4, <1>5

\* SKIP LOCKED: a batch takes rows nobody else has.
LEMMA SelectStep ==
  ASSUME IInv, NEW m \in Movers, SelectRows(m)
  PROVE  IInv'
<1> USE DEF IInv
<1>1. UNCHANGED <<request, acked, outbox, audit, retries, failures>>
  BY DEF SelectRows, requestVars, cacheVars
<1>2. PICK B \in SUBSET Available(m) :
        IF B = {} THEN UNCHANGED batchVars
        ELSE /\ held' = [held EXCEPT ![m] = B]
             /\ todo' = [todo EXCEPT ![m] = B]
             /\ success' = [success EXCEPT ![m] = {}]
             /\ poison' = [poison EXCEPT ![m] = {}]
  BY DEF SelectRows
<1>3. CASE B = {}
  BY <1>1, <1>2, <1>3, TablesStutter DEF tables, batchVars
<1>4. CASE B # {}
  <2>1. B \subseteq Entries /\ \A e \in B : outbox[e] = "new" /\ \A x \in Movers : e \notin held[x]
    BY DEF Available
  <2>5. /\ held' = [held EXCEPT ![m] = B]
        /\ todo' = [todo EXCEPT ![m] = B]
        /\ success' = [success EXCEPT ![m] = {}]
        /\ poison' = [poison EXCEPT ![m] = {}]
    BY <1>2, <1>4
  <2>2. OutboxTypes' /\ NotYet'
    <3>1. OutboxTypes'
      BY <1>1, <2>1, <2>5 DEF OutboxTypes
    <3>2. NotYet'
      BY <1>1 DEF NotYet, NotYetLogged
    <3> QED
      BY <3>1, <3>2
  <2>3. Locks' /\ Exclusive'
    <3>1. ASSUME NEW n \in Movers PROVE BatchTidy(n)'
      <4>1. CASE n = m
        BY <4>1, <1>1, <2>1, <2>5 DEF OutboxTypes, BatchTidy
      <4>2. CASE n # m
        BY <4>2, <1>1, <2>5 DEF OutboxTypes, Locks, BatchTidy
      <4> QED
        BY <4>1, <4>2
    <3>2. ASSUME NEW n \in Movers, n # m PROVE held'[n] = held[n] /\ B \intersect held[n] = {}
      BY <3>2, <2>1, <2>5 DEF OutboxTypes
    <3>3. held'[m] = B
      BY <2>5 DEF OutboxTypes
    <3>4. Exclusive'
      BY <3>2, <3>3 DEF Exclusive
    <3> QED
      BY <3>1, <3>4 DEF Locks
  <2>4. Counted' /\ MovedOnce' /\ GivenUpAfterRetries' /\ AckedIsKept'
    BY <1>1, <2>5 DEF OutboxTypes, Counted, CountsFailures, MovedOnce,
       GivenUpAfterRetries, AckedIsKept
  <2> QED
    BY <2>2, <2>3, <2>4
<1> QED
  BY <1>3, <1>4

\* A row goes to the list of its batch that its insert decides.
LEMMA ListStep ==
  ASSUME IInv, NEW m \in Movers, NEW e \in Entries, GiveUpRow(m, e) \/ MoveRow(m, e)
  PROVE  IInv'
<1> USE DEF IInv
<1>1. /\ e \in todo[m]
      /\ todo' = [todo EXCEPT ![m] = @ \ {e}]
      /\ \/ /\ poison' = [poison EXCEPT ![m] = @ \union {e}] /\ success' = success
            /\ retries[m][e] >= MaxRetry
         \/ success' = [success EXCEPT ![m] = @ \union {e}] /\ poison' = poison
      /\ UNCHANGED <<request, acked, outbox, audit, held, failures>>
  BY DEF GiveUpRow, MoveRow, Trying, IsFirst, requestVars
<1>2. retries' = [retries EXCEPT ![m] = [x \in Entries |-> IF x = e THEN 0 ELSE @[x]]]
  BY DEF GiveUpRow, MoveRow, Forget
<1>3. OutboxTypes'
  <2>1. poison' \in [Movers -> SUBSET Entries] /\ success' \in [Movers -> SUBSET Entries]
    <3>1. CASE poison' = [poison EXCEPT ![m] = @ \union {e}] /\ success' = success
      BY <3>1 DEF OutboxTypes
    <3>2. CASE success' = [success EXCEPT ![m] = @ \union {e}] /\ poison' = poison
      BY <3>2 DEF OutboxTypes
    <3> QED
      BY <1>1, <3>1, <3>2
  <2>2. retries' \in [Movers -> [Entries -> Nat]]
    BY <1>2 DEF OutboxTypes
  <2> QED
    BY <1>1, <2>1, <2>2 DEF OutboxTypes
<1>7. NotYet'
  BY <1>1 DEF NotYet, NotYetLogged
<1>4. Locks' /\ Exclusive'
  BY <1>1 DEF OutboxTypes, Locks, BatchTidy, Exclusive
<1>5. Counted'
  <2>1. \A x \in Movers : CountsFailures(x)'
    BY <1>1, <1>2 DEF OutboxTypes, Counted, CountsFailures
  <2>2. retries[m][e] >= MaxRetry => failures[e] >= MaxRetry
    BY SizesAssumption DEF OutboxTypes, Counted, CountsFailures
  <2> QED
    BY SMTT(30), <1>1, <2>1, <2>2 DEF OutboxTypes, Counted
<1>6. MovedOnce' /\ GivenUpAfterRetries' /\ AckedIsKept'
  BY <1>1 DEF MovedOnce, GivenUpAfterRetries, AckedIsKept
<1> QED
  BY <1>3, <1>4, <1>5, <1>6, <1>7

\* A failure is counted in the cache of the process and in the history; what
\* is evicted is forgotten.
LEMMA FailureStep ==
  ASSUME IInv, NEW m \in Movers, NEW e \in Entries, RowFails(m, e) \/ PartitionFails(m, e)
  PROVE  IInv'
<1> USE DEF IInv
<1>1. CountFailure(m, e) /\ e \in todo[m]
  BY DEF RowFails, PartitionFails, Trying, IsFirst
<1>2. /\ todo' = [todo EXCEPT ![m] = @ \ {e}]
      /\ failures' = [failures EXCEPT ![e] = IF @ < MaxRetry THEN @ + 1 ELSE @]
      /\ UNCHANGED <<request, acked, outbox, audit, held, success, poison>>
  BY <1>1 DEF CountFailure, requestVars
<1>3. PICK out \in SUBSET Entries :
        retries' = [retries EXCEPT ![m] = [x \in Entries |->
          IF x \in out THEN 0 ELSE IF x = e THEN @[x] + 1 ELSE @[x]]]
  <2> DEFINE line == Append(SelectSeq(recent[m], LAMBDA x : x # e), e)
             gone == (IF Len(line) > CacheSize THEN {Head(line)} ELSE {}) \intersect Entries
  <2>1. gone \in SUBSET Entries
    OBVIOUS
  <2>2. retries' = [retries EXCEPT ![m] = [x \in Entries |->
          IF x \in gone THEN 0 ELSE IF x = e THEN @[x] + 1 ELSE @[x]]]
    BY <1>1 DEF CountFailure, Increment
  <2> QED
    BY <2>1, <2>2
<1>4. OutboxTypes' /\ NotYet'
  BY <1>2, <1>3 DEF OutboxTypes, NotYet, NotYetLogged
<1>5. Locks' /\ Exclusive'
  BY <1>1, <1>2 DEF OutboxTypes, Locks, BatchTidy, Exclusive
<1>6. \A x \in Entries : failures'[x] >= failures[x] /\ failures'[x] \in Nat
  BY <1>2, SizesAssumption DEF OutboxTypes
<1>7. Counted'
  <2>1. ASSUME NEW n \in Movers, NEW x \in Entries
        PROVE  failures'[x] >= MaxRetry \/ retries'[n][x] <= failures'[x]
    <3>1. failures[x] >= MaxRetry \/ retries[n][x] <= failures[x]
      BY DEF Counted, CountsFailures
    <3>2. CASE n = m /\ x = e
      BY <3>1, <3>2, <1>2, <1>3, SizesAssumption DEF OutboxTypes
    <3>3. CASE ~(n = m /\ x = e)
      <4>1. retries'[n][x] = 0 \/ retries'[n][x] = retries[n][x]
        BY <3>3, <1>3 DEF OutboxTypes
      <4> QED
        BY <3>1, <4>1, <1>6, SizesAssumption DEF OutboxTypes
    <3> QED
      BY <3>2, <3>3
  <2>2. \A n \in Movers : \A x \in poison'[n] : failures'[x] >= MaxRetry
    <3>1. \A n \in Movers : \A x \in poison[n] : x \in Entries /\ failures[x] >= MaxRetry
      BY DEF OutboxTypes, Counted
    <3> QED
      BY <3>1, <1>2, <1>6, SizesAssumption DEF OutboxTypes
  <2> QED
    BY <2>1, <2>2 DEF Counted, CountsFailures
<1>8. MovedOnce' /\ AckedIsKept'
  BY <1>2 DEF MovedOnce, AckedIsKept
<1>9. GivenUpAfterRetries'
  BY <1>2, <1>6, SizesAssumption DEF OutboxTypes, GivenUpAfterRetries
<1> QED
  BY <1>4, <1>5, <1>7, <1>8, <1>9

\* Both tables change in one commit, for rows only this mover holds.
LEMMA CommitStep ==
  ASSUME IInv, NEW m \in Movers, CommitBatch(m)
  PROVE  IInv'
<1> USE DEF IInv
<1>1. /\ audit' = audit \union success[m]
      /\ outbox' = [e \in Entries |-> IF e \in success[m] THEN "moved"
                                      ELSE IF e \in poison[m] THEN "processed"
                                      ELSE outbox[e]]
      /\ Release(m)
      /\ UNCHANGED <<request, acked, retries, failures>>
  BY DEF CommitBatch, requestVars, cacheVars
<1>2. /\ success[m] \subseteq held[m] /\ poison[m] \subseteq held[m]
      /\ held[m] \subseteq Entries
      /\ \A e \in held[m] : outbox[e] = "new"
      /\ success[m] \intersect poison[m] = {}
  BY DEF OutboxTypes, Locks, BatchTidy
<1>3. OutboxTypes'
  BY <1>1, <1>2 DEF OutboxTypes, Release
<1>4. NotYet'
  BY <1>1, <1>2, PairsAreEntries DEF OutboxTypes, NotYet, NotYetLogged
<1>5. Exclusive'
  BY <1>1 DEF OutboxTypes, Exclusive, Release
<1>6. Locks'
  <2>1. ASSUME NEW n \in Movers PROVE BatchTidy(n)'
    <3>1. CASE n = m
      BY <3>1, <1>1 DEF OutboxTypes, BatchTidy, Release
    <3>2. CASE n # m
      <4>1. \A e \in held[n] : e \in Entries /\ e \notin held[m]
        BY <3>2 DEF Exclusive, OutboxTypes
      <4>2. \A e \in held[n] : outbox'[e] = outbox[e]
        BY <4>1, <1>1, <1>2 DEF OutboxTypes
      <4> QED
        <5>1. /\ held'[n] = held[n] /\ todo'[n] = todo[n]
              /\ success'[n] = success[n] /\ poison'[n] = poison[n]
          BY <3>2, <1>1 DEF OutboxTypes, Release
        <5> QED
          BY <4>2, <5>1 DEF Locks, BatchTidy
    <3> QED
      BY <3>1, <3>2
  <2> QED
    BY <2>1 DEF Locks
<1>7. Counted'
  BY <1>1 DEF OutboxTypes, Counted, CountsFailures, Release
<1>8. MovedOnce' /\ AckedIsKept'
  BY <1>1, <1>2 DEF OutboxTypes, MovedOnce, AckedIsKept, Kept
<1>9. GivenUpAfterRetries'
  BY <1>1, <1>2 DEF OutboxTypes, GivenUpAfterRetries, Counted
<1> QED
  BY <1>3, <1>4, <1>5, <1>6, <1>7, <1>8, <1>9

\* Every step of the system keeps the invariant.
LEMMA NextStep == IInv /\ [Next]_vars => IInv'
<1> SUFFICES ASSUME IInv, [Next]_vars PROVE IInv'
  OBVIOUS
<1>1. CASE \E r \in Requests : Request(r)
  BY <1>1, RequestStep
<1>2. CASE \E e \in Entries : InsertCommits(e) \/ InsertRollsBack(e)
  BY <1>2, DatabaseStep
<1>3. CASE \E m \in Movers, e \in Entries : Row(m, e)
  <2>1. PICK m \in Movers, e \in Entries : Row(m, e)
    BY <1>3
  <2>2. CASE GiveUpRow(m, e) \/ MoveRow(m, e)
    BY <2>2, ListStep
  <2>3. CASE RowFails(m, e) \/ PartitionFails(m, e)
    BY <2>3, FailureStep
  <2>4. CASE NeedsPartition(m, e)
    BY <2>4, TablesStutter DEF NeedsPartition, tables, requestVars, batchVars, cacheVars
  <2> QED
    BY <2>1, <2>2, <2>3, <2>4 DEF Row
<1>4. ASSUME NEW m \in Movers,
             \/ Wake(m) \/ SelectRows(m) \/ CreatePartition(m) \/ CommitBatch(m)
             \/ BatchFails(m) \/ StopMover(m) \/ FlushTimeout(m) \/ Restart(m)
      PROVE  IInv'
  <2>1. CASE Wake(m) \/ CreatePartition(m)
    BY <2>1, TablesStutter DEF Wake, CreatePartition, tables, requestVars, batchVars,
       cacheVars
  <2>2. CASE SelectRows(m)
    BY <2>2, SelectStep
  <2>3. CASE CommitBatch(m)
    BY <2>3, CommitStep
  <2>4. CASE BatchFails(m) \/ StopMover(m) \/ FlushTimeout(m)
    BY <2>4, ReleaseIInv DEF BatchFails, StopMover, FlushTimeout, requestVars, cacheVars
  <2>5. CASE Restart(m)
    BY <2>5, ReleaseIInv DEF Restart, requestVars
  <2> QED
    BY <1>4, <2>1, <2>2, <2>3, <2>4, <2>5
<1>5. CASE EnsurePartitions
  BY <1>5, TablesStutter DEF EnsurePartitions, tables, requestVars, batchVars, cacheVars
<1>6. CASE UNCHANGED vars
  BY <1>6, TablesStutter DEF vars, tables, requestVars, batchVars, cacheVars
<1> QED
  BY <1>1, <1>2, <1>3, <1>4, <1>5, <1>6 DEF Next

\* The inductive invariant holds in every reachable state.
THEOREM OutboxInvariant == Spec => []IInv
  BY InitIInv, NextStep, PTL DEF Spec

\* An entry is in audit_logs exactly if it left the outbox, for any number of
\* movers and whatever fails (_move_batch).
THEOREM MovesOnce == Spec => []MovedOnce
<1>1. IInv => MovedOnce
  BY DEF IInv
<1> QED
  BY <1>1, OutboxInvariant, PTL

\* No entry is given up before it failed MAX_RETRY_COUNT times.
THEOREM GivesUpLate == Spec => []GivenUpAfterRetries
<1>1. IInv => GivenUpAfterRetries
  BY DEF IInv
<1> QED
  BY <1>1, OutboxInvariant, PTL

\* insert() returns an id only for an entry that stays.
THEOREM KeepsAcked == Spec => []AckedIsKept
<1>1. IInv => AckedIsKept
  BY DEF IInv
<1> QED
  BY <1>1, OutboxInvariant, PTL
=============================================================================
