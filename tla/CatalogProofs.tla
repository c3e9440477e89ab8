---------------------------- MODULE CatalogProofs ----------------------------
(***************************************************************************)
(* What threads, their checkpoints, assistants, the tasks of the A2A       *)
(* protocol and the registry of graphs guarantee for any number of rows,   *)
(* requests, runs, chunks and graphs, however the requests interleave and  *)
(* wherever one of them breaks off.                                        *)
(***************************************************************************)
EXTENDS MCCatalog, SequenceTheorems, FiniteSetTheorems, WellFoundedInduction, TLAPS

-----------------------------------------------------------------------------
(* Threads: the inductive invariant.                                       *)
ThreadsSpec == InitThreads /\ [][NextThreads]_threadVars

GraphOrVoid == RunGraphs \union {Void}
JobType == [step : {"none", "patch", "link", "run", "load", "insert", "put", "undo"},
            of : ThreadIds \union {Void}, graph : GraphOrVoid, state : GraphOrVoid,
            copy : ThreadIds \union {Void}, bare : BOOLEAN, stale : BOOLEAN]

ThreadTypes ==
  /\ graphOf \in [ThreadIds -> GraphOrVoid \union NoRow]
  /\ latest \in [ThreadIds -> GraphOrVoid]
  /\ wants \in [ThreadIds -> GraphOrVoid]
  /\ job \in [Jobs -> JobType]

\* A request works on a thread that has, or had, a row.
Copying(c) == job[c].step \in {"put", "undo"}
JobsKnown ==
  \A c \in Jobs :
    /\ job[c].step # "none" => job[c].of \in ThreadIds /\ graphOf[job[c].of] # "unused"
    /\ job[c].step = "run" => job[c].graph \in RunGraphs
    /\ Copying(c) => /\ job[c].copy \in ThreadIds /\ job[c].state # Void
                     /\ graphOf[job[c].copy] # "unused"

Unused == \A t \in ThreadIds : graphOf[t] = "unused" => wants[t] = Void /\ latest[t] = Void

\* t has a checkpoint, or somebody may write one without another look at the row.
MayHave(t) ==
  \/ latest[t] # Void
  \/ \E c \in Jobs : job[c].step = "run" /\ job[c].of = t
  \/ \E c \in Jobs : job[c].step = "put" /\ job[c].copy = t

Excused(t) == t \in overlapped \union bare

Shown ==
  \A t \in ThreadIds : HasRow(t) /\ graphOf[t] = Void /\ MayHave(t) => Excused(t)

\* What a request has read, unless it is stale, is still so, and hides the
\* checkpoints of its thread for a reason.
ReadsTrue ==
  \A c \in Jobs : ~job[c].stale =>
    /\ Does(c, "patch") /\ HasRow(job[c].of) => graphOf[job[c].of] = job[c].graph
    /\ Does(c, "load") /\ job[c].graph = Void /\ ~job[c].bare /\ MayHave(job[c].of)
         => Excused(job[c].of)
    /\ Does(c, "insert") /\ job[c].graph = Void /\ ~job[c].bare /\ job[c].state # Void
         => Excused(job[c].of)

CopiesTracked ==
  \A t \in ThreadIds :
    HasRow(t) /\ wants[t] # Void /\ latest[t] = Void =>
      t \in torn \/ \E c \in Jobs : Copying(c) /\ job[c].copy = t

ThreadInv == ThreadTypes /\ JobsKnown /\ Unused /\ Shown /\ ReadsTrue /\ CopiesTracked

-------------------------------------------------------------------------------
(* Threads: how a request goes on.                                           *)
LEMMA Nobody ==
  /\ NoRequest \in JobType
  /\ NoRequest.step = "none" /\ NoRequest.of = Void /\ NoRequest.graph = Void
  /\ NoRequest.state = Void /\ NoRequest.copy = Void /\ ~NoRequest.bare /\ ~NoRequest.stale
  BY DEF NoRequest, JobType, GraphOrVoid

LEMMA JobMoves ==
  ASSUME ThreadTypes, NEW c \in Jobs, NEW k \in JobType, Moves(c, k)
  PROVE  /\ job' \in [Jobs -> JobType]
         /\ job'[c] = k
         /\ \A x \in Jobs \ {c} : job'[x] = job[x]
  BY DEF ThreadTypes, Moves

LEMMA JobCommits ==
  ASSUME ThreadTypes, NEW c \in Jobs, NEW t \in ThreadIds, NEW k \in JobType, Commits(c, t, k)
  PROVE  /\ job' \in [Jobs -> JobType]
         /\ job'[c] = k
         /\ \A x \in Jobs \ {c} :
              /\ job'[x].step = job[x].step /\ job'[x].of = job[x].of
              /\ job'[x].graph = job[x].graph /\ job'[x].state = job[x].state
              /\ job'[x].copy = job[x].copy /\ job'[x].bare = job[x].bare
              /\ job'[x].stale = (job[x].stale \/ job[x].of = t)
<1>1. \A x \in Jobs : [job[x] EXCEPT !.stale = @ \/ job[x].of = t] \in JobType
  BY DEF ThreadTypes, JobType
<1> QED
  BY <1>1 DEF ThreadTypes, Commits, JobType

\* A request that only reads, or gives up, and is known to have read what is so.
LEMMA OneMoves ==
  ASSUME ThreadInv, NEW c \in Jobs, NEW k \in JobType, Moves(c, k), UNCHANGED Rows,
         ~Copying(c),
         k.step \in {"none", "patch", "link", "load", "insert"},
         k.step # "none" => k.of \in ThreadIds /\ graphOf[k.of] # "unused",
         ~k.stale =>
           /\ k.step = "patch" /\ HasRow(k.of) => graphOf[k.of] = k.graph
           /\ k.step = "load" /\ k.graph = Void /\ ~k.bare /\ MayHave(k.of) => Excused(k.of)
           /\ k.step = "insert" /\ k.graph = Void /\ ~k.bare /\ k.state # Void => Excused(k.of)
  PROVE  ThreadInv'
<1> USE DEF ThreadInv
<1>1. /\ job' \in [Jobs -> JobType] /\ job'[c] = k
      /\ \A x \in Jobs \ {c} : job'[x] = job[x]
  BY JobMoves
<1>2. UNCHANGED <<graphOf, latest, wants, overlapped, bare, torn>>
  BY DEF Rows
<1>3. ThreadTypes' /\ Unused'
  BY <1>1, <1>2 DEF ThreadTypes, Unused
<1>4. JobsKnown'
  BY <1>1, <1>2 DEF JobsKnown, Copying
<1>5. \A t : MayHave(t)' => MayHave(t)
  BY <1>1, <1>2 DEF MayHave
<1>6. Shown'
  BY <1>2, <1>5 DEF Shown, HasRow, Excused
<1>7. ASSUME NEW x \in Jobs, ~job'[x].stale
      PROVE  /\ Does(x, "patch")' /\ HasRow(job[x].of)' => graphOf'[job'[x].of] = job'[x].graph
             /\ Does(x, "load")' /\ job'[x].graph = Void /\ ~job'[x].bare /\ MayHave(job[x].of)'
                  => Excused(job[x].of)'
             /\ Does(x, "insert")' /\ job'[x].graph = Void /\ ~job'[x].bare /\ job'[x].state # Void
                  => Excused(job[x].of)'
  <2>1. CASE x = c
    BY <2>1, <1>1, <1>2, <1>5, <1>7 DEF Does, HasRow, Excused
  <2>2. CASE x # c
    BY <2>2, <1>1, <1>2, <1>5, <1>7 DEF ReadsTrue, Does, HasRow, Excused
  <2> QED
    BY <2>1, <2>2
<1>8. ReadsTrue'
  BY <1>7 DEF ReadsTrue
<1>9. CopiesTracked'
  BY <1>1, <1>2 DEF CopiesTracked, Copying, HasRow
<1> QED
  BY <1>3, <1>4, <1>6, <1>8, <1>9

\* A request that writes the metadata: what it had read, or a run's graph.
LEMMA Written ==
  ASSUME ThreadInv, NEW c \in Jobs, NEW graph \in GraphOrVoid, NEW k \in JobType,
         Does(c, "patch") \/ Does(c, "link"),
         WriteMetadata(c, graph, k),
         \/ k.step = "none"
         \/ k.step = "run" /\ k.of = job[c].of /\ k.graph = graph /\ graph \in RunGraphs,
         HasRow(job[c].of) => graph # Void \/ graphOf[job[c].of] = Void \/ job[c].stale
  PROVE  ThreadInv'
<1> USE DEF ThreadInv
<1> DEFINE t == job[c].of
<1>1. t \in ThreadIds /\ graphOf[t] # "unused" /\ job[c] \in JobType /\ ~Copying(c)
      /\ job[c].step # "run"
  BY DEF JobsKnown, ThreadTypes, Does, Copying
<1>2. CASE ~HasRow(t)
  <2>1. Moves(c, NoRequest) /\ UNCHANGED Rows
    BY <1>2 DEF WriteMetadata
  <2> QED
    BY <1>1, <2>1, Nobody, OneMoves
<1>3. CASE HasRow(t)
  <2>1. /\ graphOf' = [graphOf EXCEPT ![t] = graph]
        /\ overlapped' = IF graph # Void THEN overlapped \ {t}
                         ELSE IF job[c].stale THEN overlapped \union {t} ELSE overlapped
        /\ bare' = IF graph # Void THEN bare \ {t} ELSE bare
        /\ Commits(c, t, k)
        /\ UNCHANGED <<latest, wants, torn>>
    BY <1>3 DEF WriteMetadata
  <2> HIDE DEF t
  <2>2. /\ job' \in [Jobs -> JobType] /\ job'[c] = k
        /\ \A x \in Jobs \ {c} :
              /\ job'[x].step = job[x].step /\ job'[x].of = job[x].of
              /\ job'[x].graph = job[x].graph /\ job'[x].state = job[x].state
              /\ job'[x].copy = job[x].copy /\ job'[x].bare = job[x].bare
              /\ job'[x].stale = (job[x].stale \/ job[x].of = t)
    BY <1>1, <2>1, JobCommits
  <2>3. /\ graphOf' \in [ThreadIds -> GraphOrVoid \union NoRow]
        /\ graphOf'[t] = graph /\ \A s \in ThreadIds \ {t} : graphOf'[s] = graphOf[s]
        /\ graph \notin NoRow
    BY <1>1, <2>1, RunGraphsAssumption DEF ThreadTypes, GraphOrVoid
  <2>4. ThreadTypes' /\ Unused'
    BY <1>1, <2>1, <2>2, <2>3 DEF ThreadTypes, Unused, NoRow
  <2>5. JobsKnown'
    BY <1>1, <2>2, <2>3 DEF JobsKnown, Copying, NoRow, t
  <2>6. \A s \in ThreadIds : MayHave(s)' => MayHave(s) \/ (s = t /\ graph \in RunGraphs)
    BY <2>1, <2>2 DEF MayHave, t
  <2>7. Shown'
    <3> SUFFICES ASSUME NEW s \in ThreadIds, HasRow(s)', graphOf'[s] = Void, MayHave(s)'
                 PROVE  Excused(s)'
      BY DEF Shown
    <3>1. CASE s # t
      BY <3>1, <2>1, <2>3, <2>6 DEF Shown, HasRow, Excused
    <3>2. CASE s = t
      BY <3>2, <1>3, <2>1, <2>3, <2>6, RunGraphsAssumption DEF Shown, HasRow, Excused, t
    <3> QED
      BY <3>1, <3>2
  <2>8. ASSUME NEW x \in Jobs, ~job'[x].stale
        PROVE  /\ Does(x, "patch")' /\ HasRow(job[x].of)' => graphOf'[job'[x].of] = job'[x].graph
               /\ Does(x, "load")' /\ job'[x].graph = Void /\ ~job'[x].bare /\ MayHave(job[x].of)'
                    => Excused(job[x].of)'
               /\ Does(x, "insert")' /\ job'[x].graph = Void /\ ~job'[x].bare
                    /\ job'[x].state # Void => Excused(job[x].of)'
    <3>1. CASE x = c
      BY <3>1, <2>2 DEF Does
    <3>2. CASE x # c
      <4>1. job[x].of # t /\ ~job[x].stale /\ job'[x].of = job[x].of
        BY <3>2, <2>2, <2>8
      <4>2. ASSUME job[x].step # "none"
            PROVE  /\ job[x].of \in ThreadIds /\ graphOf'[job[x].of] = graphOf[job[x].of]
                   /\ MayHave(job[x].of)' => MayHave(job[x].of)
                   /\ Excused(job[x].of) => Excused(job[x].of)'
        BY <4>1, <4>2, <2>1, <2>3, <2>6 DEF JobsKnown, Excused
      <4> QED
        BY <3>2, <4>1, <4>2, <2>2 DEF ReadsTrue, Does, HasRow
    <3> QED
      BY <3>1, <3>2
  <2>9. ReadsTrue'
    BY <2>8 DEF ReadsTrue
  <2>10. CopiesTracked'
    BY <1>1, <1>3, <2>1, <2>2, <2>3 DEF CopiesTracked, Copying, HasRow
  <2> QED
    BY <2>4, <2>5, <2>7, <2>9, <2>10
<1> QED
  BY <1>2, <1>3

-------------------------------------------------------------------------------
(* Threads: every action keeps it.                                          *)

\* A thread that never was has neither graph nor checkpoints.
LEMMA CreateThreadStep ==
  ASSUME ThreadInv, CreateThread
  PROVE  ThreadInv'
<1> USE DEF ThreadInv
<1>1. PICK t \in ThreadIds : graphOf[t] = "unused" /\ graphOf' = [graphOf EXCEPT ![t] = Void]
  BY DEF CreateThread
<1>2. /\ graphOf'[t] = Void /\ \A s \in ThreadIds \ {t} : graphOf'[s] = graphOf[s]
      /\ graphOf' \in [ThreadIds -> GraphOrVoid \union NoRow]
      /\ UNCHANGED <<latest, job, wants, overlapped, bare, torn>>
  BY <1>1 DEF CreateThread, ThreadTypes, GraphOrVoid
<1>3. Void \notin NoRow
  BY RunGraphsAssumption
<1>4. ~MayHave(t) /\ wants[t] = Void
  BY <1>1 DEF JobsKnown, Unused, MayHave, Copying
<1>5. ThreadTypes'
  BY <1>2 DEF ThreadTypes
<1>6. JobsKnown'
  BY <1>2, <1>3 DEF JobsKnown, Copying, NoRow
<1>7. Unused'
  BY <1>2, <1>3 DEF Unused, NoRow
<1>8. Shown'
  BY <1>2, <1>4 DEF Shown, HasRow, MayHave, Excused
<1>9. ReadsTrue'
  <2> SUFFICES ASSUME NEW x \in Jobs, ~job[x].stale, job[x].step # "none"
               PROVE  graphOf'[job[x].of] = graphOf[job[x].of]
    BY <1>2 DEF ReadsTrue, Does, HasRow, MayHave, Excused
  <2> QED
    BY <1>1, <1>2 DEF JobsKnown
<1>10. CopiesTracked'
  BY <1>2, <1>4 DEF CopiesTracked, HasRow, Copying
<1> QED
  BY <1>1, <1>2, <1>3, <1>4, <1>5, <1>6, <1>7, <1>8, <1>9, <1>10

\* What was read is so.
LEMMA ReadMetadataStep ==
  ASSUME ThreadInv, NEW c \in Jobs, ReadMetadata(c)
  PROVE  ThreadInv'
<1> USE DEF ThreadInv
<1>1. PICK t \in ThreadIds, step \in {"patch", "link"} :
        /\ HasRow(t)
        /\ Moves(c, [NoRequest EXCEPT !.step = step, !.of = t, !.graph = graphOf[t]])
  BY DEF ReadMetadata
<1> DEFINE k == [NoRequest EXCEPT !.step = step, !.of = t, !.graph = graphOf[t]]
<1>2. graphOf[t] \in GraphOrVoid /\ graphOf[t] # "unused"
  BY <1>1 DEF ThreadTypes, HasRow, NoRow
<1>3. /\ k \in JobType /\ k.step = step /\ k.of = t /\ k.graph = graphOf[t]
  BY <1>2, Nobody DEF JobType
<1>4. Moves(c, k) /\ UNCHANGED Rows /\ ~Copying(c)
  BY <1>1 DEF ReadMetadata, Does, Copying
<1> HIDE DEF k
<1> QED
  BY <1>2, <1>3, <1>4, OneMoves

\* Writing back what one has read changes nothing, or is noted as overlapped.
LEMMA PatchThreadStep ==
  ASSUME ThreadInv, NEW c \in Jobs, PatchThread(c)
  PROVE  ThreadInv'
<1>1. /\ Does(c, "patch") /\ WriteMetadata(c, job[c].graph, NoRequest)
      /\ job[c].graph \in GraphOrVoid
  BY DEF PatchThread, ThreadInv, ThreadTypes, JobType
<1>2. HasRow(job[c].of) =>
        job[c].graph # Void \/ graphOf[job[c].of] = Void \/ job[c].stale
  BY <1>1 DEF ThreadInv, ReadsTrue
<1> QED
  BY <1>1, <1>2, Nobody, Written

\* The graph is there before the run is.
LEMMA LinkGraphStep ==
  ASSUME ThreadInv, NEW c \in Jobs, LinkGraph(c)
  PROVE  ThreadInv'
<1>1. PICK g \in RunGraphs :
        WriteMetadata(c, g, [NoRequest EXCEPT !.step = "run", !.of = job[c].of, !.graph = g])
  BY DEF LinkGraph
<1> DEFINE k == [NoRequest EXCEPT !.step = "run", !.of = job[c].of, !.graph = g]
<1>2. g \in GraphOrVoid /\ g # Void /\ Does(c, "link")
  BY RunGraphsAssumption DEF GraphOrVoid, LinkGraph
<1>3. job[c].of \in ThreadIds \union {Void}
  BY DEF ThreadInv, ThreadTypes, JobType
<1>4. k \in JobType /\ k.step = "run" /\ k.of = job[c].of /\ k.graph = g
  BY <1>2, <1>3, Nobody DEF JobType
<1>5. WriteMetadata(c, g, k)
  BY <1>1
<1> HIDE DEF k
<1> QED
  BY <1>2, <1>4, <1>5, Written

\* A run of the thread was known to be able to do this.
LEMMA CheckpointStep ==
  ASSUME ThreadInv, NEW c \in Jobs, Checkpoint(c)
  PROVE  ThreadInv'
<1> USE DEF ThreadInv
<1>1. /\ job[c].step = "run" /\ job[c].of \in ThreadIds /\ job[c].graph \in RunGraphs
      /\ graphOf[job[c].of] # "unused" /\ job[c].graph # Void
  BY RunGraphsAssumption DEF Checkpoint, Does, JobsKnown
<1>2. ThreadTypes'
  BY RunGraphsAssumption DEF Checkpoint, ThreadTypes, GraphOrVoid, JobType,
         NoRow, Does
<1>3. Unused'
  BY <1>1 DEF Checkpoint, Unused, ThreadTypes
<1>4. Shown'
  BY RunGraphsAssumption DEF Checkpoint, Shown, ThreadTypes, JobsKnown,
         GraphOrVoid, JobType, NoRow, HasRow, Does, Copying, MayHave, Excused
<1>5. ReadsTrue'
  BY RunGraphsAssumption DEF Checkpoint, ReadsTrue, ThreadTypes, JobsKnown,
         GraphOrVoid, JobType, NoRow, HasRow, Does, Copying, MayHave, Excused
<1>6. CopiesTracked'
  BY RunGraphsAssumption DEF Checkpoint, CopiesTracked, ThreadTypes, JobsKnown,
         GraphOrVoid, JobType, NoRow, HasRow, Does, Copying
<1>7. JobsKnown'
  BY DEF Checkpoint, JobsKnown, Copying, Does
<1> QED
  BY <1>1, <1>2, <1>3, <1>4, <1>5, <1>6, <1>7

\* Nobody is hidden by a run less.
LEMMA EndRunStep ==
  ASSUME ThreadInv, NEW c \in Jobs, EndRun(c)
  PROVE  ThreadInv'
<1>1. Moves(c, NoRequest) /\ UNCHANGED Rows /\ ~Copying(c)
  BY DEF EndRun, Does, Copying
<1> QED
  BY <1>1, Nobody, OneMoves

\* What was read is so.
LEMMA ReadSourceStep ==
  ASSUME ThreadInv, NEW c \in Jobs, ReadSource(c)
  PROVE  ThreadInv'
<1> USE DEF ThreadInv
<1>1. PICK t \in ThreadIds, own \in BOOLEAN :
        /\ HasRow(t)
        /\ Moves(c, [NoRequest EXCEPT !.step = "load", !.of = t, !.bare = own,
                                      !.graph = IF own THEN Void ELSE graphOf[t]])
  BY DEF ReadSource
<1> DEFINE k == [NoRequest EXCEPT !.step = "load", !.of = t, !.bare = own,
                                  !.graph = IF own THEN Void ELSE graphOf[t]]
<1>2. graphOf[t] \in GraphOrVoid /\ graphOf[t] # "unused"
  BY <1>1 DEF ThreadTypes, HasRow, NoRow
<1>3. /\ k \in JobType /\ k.step = "load" /\ k.of = t /\ k.bare = own
      /\ ~own => k.graph = graphOf[t]
  BY <1>2, Nobody DEF JobType, GraphOrVoid
<1>4. Moves(c, k) /\ UNCHANGED Rows /\ ~Copying(c)
  BY <1>1 DEF ReadSource, Does, Copying
<1> HIDE DEF k
<1>5. k.graph = Void /\ ~k.bare /\ MayHave(k.of) => Excused(k.of)
  BY <1>1, <1>3 DEF Shown
<1> QED
  BY <1>2, <1>3, <1>4, <1>5, OneMoves

\* A checkpoint that is read was there.
LEMMA LoadStateStep ==
  ASSUME ThreadInv, NEW c \in Jobs, LoadState(c)
  PROVE  ThreadInv'
<1> USE DEF ThreadInv
<1>1. /\ job[c] \in JobType /\ job[c].step = "load" /\ ~Copying(c) /\ UNCHANGED Rows
      /\ job[c].of \in ThreadIds /\ graphOf[job[c].of] # "unused"
  BY DEF LoadState, Does, Copying, ThreadTypes, JobsKnown
<1>2. CASE Moves(c, NoRequest)
  BY <1>1, <1>2, Nobody, OneMoves
<1> DEFINE k == [job[c] EXCEPT !.step = "insert", !.state = latest[job[c].of]]
<1>3. CASE Moves(c, k)
  <2>1. latest[job[c].of] \in GraphOrVoid
    BY <1>1 DEF ThreadTypes
  <2>2. /\ k \in JobType /\ k.step = "insert" /\ k.of = job[c].of /\ k.graph = job[c].graph
        /\ k.bare = job[c].bare /\ k.stale = job[c].stale /\ k.state = latest[job[c].of]
    BY <1>1, <2>1 DEF JobType
  <2> HIDE DEF k
  <2>3. ~k.stale /\ k.graph = Void /\ ~k.bare /\ k.state # Void => Excused(k.of)
    BY <1>1, <2>2 DEF ReadsTrue, Does, MayHave
  <2> QED
    BY <1>1, <1>3, <2>2, <2>3, OneMoves
<1> QED
  BY <1>2, <1>3 DEF LoadState

\* The copy hides its checkpoint only if its source did.
LEMMA InsertCopyStep ==
  ASSUME ThreadInv, NEW c \in Jobs, InsertCopy(c)
  PROVE  ThreadInv'
<1> USE DEF ThreadInv
<1>1. PICK t \in ThreadIds :
       /\ graphOf[t] = "unused"
       /\ graphOf' = [graphOf EXCEPT ![t] = job[c].graph]
       /\ wants' = [wants EXCEPT ![t] = job[c].state]
       /\ bare' = IF job[c].bare \/ job[c].of \in bare THEN bare \union {t} ELSE bare
       /\ overlapped' = IF job[c].stale \/ job[c].of \in overlapped
                        THEN overlapped \union {t} ELSE overlapped
       /\ Moves(c, IF job[c].state = Void THEN NoRequest
                   ELSE [job[c] EXCEPT !.step = "put", !.copy = t])
  BY DEF InsertCopy
<1>2. /\ job[c] \in JobType /\ job[c].step = "insert" /\ job[c].of \in ThreadIds
      /\ graphOf[job[c].of] # "unused" /\ job[c].graph \in GraphOrVoid
      /\ job[c].state \in GraphOrVoid /\ UNCHANGED <<latest, torn>>
  BY DEF InsertCopy, Does, ThreadTypes, JobsKnown, JobType
<1> DEFINE k == IF job[c].state = Void THEN NoRequest
                ELSE [job[c] EXCEPT !.step = "put", !.copy = t]
<1>3. k \in JobType /\ Moves(c, k)
  BY <1>1, <1>2, Nobody DEF JobType
<1>4. \/ job[c].state = Void /\ k.step = "none"
      \/ /\ job[c].state # Void /\ k.step = "put" /\ k.copy = t /\ k.of = job[c].of
         /\ k.state = job[c].state
  BY <1>2, Nobody DEF JobType
<1> HIDE DEF k
<1>5. /\ job' \in [Jobs -> JobType] /\ job'[c] = k
      /\ \A x \in Jobs \ {c} : job'[x] = job[x]
  BY <1>3, JobMoves
<1>6. /\ graphOf' \in [ThreadIds -> GraphOrVoid \union NoRow]
      /\ graphOf'[t] = job[c].graph /\ job[c].graph \notin NoRow
      /\ \A s \in ThreadIds \ {t} : graphOf'[s] = graphOf[s]
      /\ wants' \in [ThreadIds -> GraphOrVoid] /\ wants'[t] = job[c].state
      /\ \A s \in ThreadIds \ {t} : wants'[s] = wants[s]
  BY <1>1, <1>2, RunGraphsAssumption DEF ThreadTypes, GraphOrVoid
<1>7. /\ ~MayHave(t) /\ \A s \in ThreadIds : MayHave(s)' => MayHave(s) \/ (s = t /\ job[c].state # Void)
      /\ \A s \in ThreadIds : Excused(s) => Excused(s)'
  BY <1>1, <1>2, <1>4, <1>5 DEF JobsKnown, Unused, MayHave, Copying, Excused
<1>8. ThreadTypes'
  BY <1>2, <1>5, <1>6 DEF ThreadTypes
<1>9. JobsKnown'
  BY <1>1, <1>2, <1>4, <1>5, <1>6 DEF JobsKnown, Copying, NoRow
<1>10. Unused'
  BY <1>2, <1>6 DEF Unused, NoRow
<1>11. Shown'
  <2> SUFFICES ASSUME NEW s \in ThreadIds, HasRow(s)', graphOf'[s] = Void, MayHave(s)'
               PROVE  Excused(s)'
    BY DEF Shown
  <2>1. CASE s # t
    BY <2>1, <1>6, <1>7 DEF Shown, HasRow
  <2>2. CASE s = t
    BY <2>2, <1>1, <1>2, <1>6, <1>7 DEF ReadsTrue, Does, Excused
  <2> QED
    BY <2>1, <2>2
<1>12. ReadsTrue'
  <2> SUFFICES ASSUME NEW x \in Jobs \ {c}, ~job[x].stale, job[x].step # "none"
               PROVE  /\ graphOf'[job[x].of] = graphOf[job[x].of]
                      /\ MayHave(job[x].of)' => MayHave(job[x].of)
                      /\ Excused(job[x].of) => Excused(job[x].of)'
    BY <1>4, <1>5 DEF ReadsTrue, Does, HasRow
  <2>1. job[x].of \in ThreadIds \ {t} /\ job'[x] = job[x]
    BY <1>1, <1>5 DEF JobsKnown
  <2> QED
    BY <2>1, <1>6, <1>7
<1>13. CopiesTracked'
  <2>1. job[c].state # Void => Copying(c)' /\ job'[c].copy = t
    BY <1>4, <1>5 DEF Copying
  <2> QED
    BY <2>1, <1>2, <1>5, <1>6 DEF CopiesTracked, HasRow, Copying
<1> QED
  BY <1>1, <1>2, <1>3, <1>4, <1>5, <1>6, <1>7, <1>8, <1>9, <1>10, <1>11, <1>12,
     <1>13

\* The copy gets its checkpoint.
LEMMA PutStateStep ==
  ASSUME ThreadInv, NEW c \in Jobs, PutState(c)
  PROVE  ThreadInv'
<1> USE DEF ThreadInv
<1>1. /\ job[c] \in JobType /\ job[c].step = "put" /\ job[c].copy \in ThreadIds
      /\ job[c].state # Void /\ job[c].state \in GraphOrVoid
      /\ graphOf[job[c].copy] # "unused"
      /\ job[c].of \in ThreadIds /\ graphOf[job[c].of] # "unused"
      /\ UNCHANGED <<graphOf, wants, overlapped, bare, torn>>
  BY DEF PutState, Does, ThreadTypes, JobsKnown, JobType, Copying
<1>2. PICK k \in JobType :
        /\ Moves(c, k)
        /\ \/ k = NoRequest /\ latest' = [latest EXCEPT ![job[c].copy] = job[c].state]
           \/ /\ k.step = "undo" /\ k.copy = job[c].copy /\ k.state = job[c].state
              /\ k.of = job[c].of /\ UNCHANGED latest
  <2>1. CASE Moves(c, NoRequest) /\ latest' = [latest EXCEPT ![job[c].copy] = job[c].state]
    BY <2>1, Nobody
  <2> DEFINE k == [job[c] EXCEPT !.step = "undo"]
  <2>2. CASE Moves(c, k) /\ UNCHANGED latest
    <3>1. /\ k \in JobType /\ k.step = "undo" /\ k.copy = job[c].copy
          /\ k.state = job[c].state /\ k.of = job[c].of
      BY <1>1 DEF JobType
    <3> QED
      BY <2>2, <3>1
  <2> QED
    BY <2>1, <2>2 DEF PutState
<1>3. /\ job' \in [Jobs -> JobType] /\ job'[c] = k
      /\ \A x \in Jobs \ {c} : job'[x] = job[x]
  BY <1>2, JobMoves
<1>4. /\ latest' \in [ThreadIds -> GraphOrVoid]
      /\ \A s \in ThreadIds \ {job[c].copy} : latest'[s] = latest[s]
      /\ \/ k = NoRequest /\ latest'[job[c].copy] = job[c].state
         \/ k.step = "undo" /\ latest'[job[c].copy] = latest[job[c].copy]
  BY <1>1, <1>2 DEF ThreadTypes
<1>5. \A s \in ThreadIds : MayHave(s)' => MayHave(s)
  BY <1>1, <1>3, <1>4, Nobody DEF MayHave
<1>6. ThreadTypes'
  BY <1>1, <1>3, <1>4 DEF ThreadTypes
<1>7. JobsKnown'
  BY <1>1, <1>2, <1>3, Nobody DEF JobsKnown, Copying
<1>8. Unused'
  BY <1>1, <1>4 DEF Unused
<1>9. Shown'
  BY <1>1, <1>5 DEF Shown, HasRow, Excused
<1>10. ReadsTrue'
  <2> SUFFICES ASSUME NEW x \in Jobs \ {c}, ~job[x].stale, job[x].step # "none"
               PROVE  MayHave(job[x].of)' => MayHave(job[x].of)
    BY <1>1, <1>2, <1>3, Nobody DEF ReadsTrue, Does, HasRow, Excused
  <2>1. job[x].of \in ThreadIds /\ job'[x] = job[x]
    BY <1>3 DEF JobsKnown
  <2> QED
    BY <2>1, <1>5
<1>11. CopiesTracked'
  <2> SUFFICES ASSUME NEW s \in ThreadIds, HasRow(s), wants[s] # Void, latest'[s] = Void
               PROVE  s \in torn \/ \E x \in Jobs : Copying(x)' /\ job'[x].copy = s
    BY <1>1 DEF CopiesTracked, HasRow
  <2>1. CASE latest[s] = Void /\ s \notin torn
    <3>1. PICK x \in Jobs : Copying(x) /\ job[x].copy = s
      BY <2>1 DEF CopiesTracked
    <3> QED
      BY <3>1, <1>1, <1>2, <1>3, <1>4 DEF Copying
  <2> QED
    BY <2>1, <1>1, <1>4
<1> QED
  BY <1>1, <1>2, <1>3, <1>4, <1>5, <1>6, <1>7, <1>8, <1>9, <1>10, <1>11

\* The copy goes, or is torn.
LEMMA DeleteCopyStep ==
  ASSUME ThreadInv, NEW c \in Jobs, DeleteCopy(c)
  PROVE  ThreadInv'
<1> USE DEF ThreadInv
<1>1. ThreadTypes'
  BY RunGraphsAssumption DEF DeleteCopy, ThreadTypes, GraphOrVoid, JobType,
         NoRow, NoRequest, Does, Moves
<1>2. JobsKnown'
  BY RunGraphsAssumption DEF DeleteCopy, JobsKnown, ThreadTypes, GraphOrVoid,
         JobType, NoRow, NoRequest, Does, Moves, Copying
<1>3. Unused'
  BY RunGraphsAssumption DEF DeleteCopy, Unused, ThreadTypes, GraphOrVoid,
         JobType, NoRow, NoRequest, Does, Moves
<1>4. Shown'
  BY RunGraphsAssumption DEF DeleteCopy, Shown, ThreadTypes, JobsKnown,
         GraphOrVoid, JobType, NoRow, HasRow, NoRequest, Does, Moves, Copying,
         MayHave, Excused
<1>5. ReadsTrue'
  BY RunGraphsAssumption DEF DeleteCopy, ReadsTrue, ThreadTypes, JobsKnown,
         GraphOrVoid, JobType, NoRow, HasRow, NoRequest, Does, Moves, Copying,
         MayHave, Excused
<1>6. CopiesTracked'
  BY RunGraphsAssumption DEF DeleteCopy, CopiesTracked, ThreadTypes, JobsKnown,
         GraphOrVoid, JobType, NoRow, HasRow, NoRequest, Does, Moves, Copying
<1> QED
  BY <1>1, <1>2, <1>3, <1>4, <1>5, <1>6

\* No row, nothing to show.
LEMMA DeleteThreadStep ==
  ASSUME ThreadInv, DeleteThread
  PROVE  ThreadInv'
<1> USE DEF ThreadInv
<1>1. ThreadTypes'
  BY RunGraphsAssumption DEF DeleteThread, ThreadTypes, GraphOrVoid, JobType,
         NoRow, HasRow
<1>2. JobsKnown'
  BY RunGraphsAssumption DEF DeleteThread, JobsKnown, ThreadTypes, GraphOrVoid,
         JobType, NoRow, HasRow, Copying
<1>3. Unused'
  BY RunGraphsAssumption DEF DeleteThread, Unused, ThreadTypes, GraphOrVoid,
         JobType, NoRow, HasRow
<1>4. Shown'
  BY RunGraphsAssumption DEF DeleteThread, Shown, ThreadTypes, JobsKnown,
         GraphOrVoid, JobType, NoRow, HasRow, Copying, MayHave, Excused
<1>5. ReadsTrue'
  BY RunGraphsAssumption DEF DeleteThread, ReadsTrue, ThreadTypes, JobsKnown,
         GraphOrVoid, JobType, NoRow, HasRow, Does, Copying, MayHave, Excused
<1>6. CopiesTracked'
  BY RunGraphsAssumption DEF DeleteThread, CopiesTracked, ThreadTypes,
         JobsKnown, GraphOrVoid, JobType, NoRow, HasRow, Copying
<1> QED
  BY <1>1, <1>2, <1>3, <1>4, <1>5, <1>6

\* Copies in progress are torn.
LEMMA CrashStep ==
  ASSUME ThreadInv, Crash
  PROVE  ThreadInv'
<1> USE DEF ThreadInv
<1>1. ThreadTypes'
  BY RunGraphsAssumption DEF Crash, ThreadTypes, GraphOrVoid, JobType, NoRow,
         NoRequest
<1>2. JobsKnown'
  BY RunGraphsAssumption DEF Crash, JobsKnown, ThreadTypes, GraphOrVoid,
         JobType, NoRow, NoRequest, Copying
<1>3. Shown'
  BY RunGraphsAssumption DEF Crash, Shown, ThreadTypes, JobsKnown, GraphOrVoid,
         JobType, NoRow, HasRow, NoRequest, Copying, MayHave, Excused
<1>4. ReadsTrue'
  BY RunGraphsAssumption DEF Crash, ReadsTrue, ThreadTypes, JobsKnown,
         GraphOrVoid, JobType, NoRow, HasRow, NoRequest, Does, Copying, MayHave,
         Excused
<1>5. CopiesTracked'
  BY RunGraphsAssumption DEF Crash, CopiesTracked, ThreadTypes, JobsKnown,
         GraphOrVoid, JobType, NoRow, HasRow, NoRequest, Copying
<1>6. Unused'
  BY DEF Crash, Unused, NoRequest
<1> QED
  BY <1>1, <1>2, <1>3, <1>4, <1>5, <1>6

-------------------------------------------------------------------------------
(* Threads: theorems.                                                        *)
LEMMA InitThreadInv == InitThreads => ThreadInv
  BY RunGraphsAssumption DEF InitThreads, ThreadInv, ThreadTypes, GraphOrVoid, JobType, NoRow,
     NoRequest, JobsKnown, Copying, Unused, HasRow, Shown, MayHave, ReadsTrue, Does,
     CopiesTracked

LEMMA NextThreadInv == ThreadInv /\ [NextThreads]_threadVars => ThreadInv'
<1> SUFFICES ASSUME ThreadInv, [NextThreads]_threadVars PROVE ThreadInv'
  OBVIOUS
<1>1. CASE CreateThread \/ DeleteThread \/ Crash
  BY <1>1, CreateThreadStep, DeleteThreadStep, CrashStep
<1>2. ASSUME NEW c \in Jobs,
             \/ ReadMetadata(c) \/ PatchThread(c) \/ LinkGraph(c) \/ Checkpoint(c) \/ EndRun(c)
             \/ ReadSource(c) \/ LoadState(c) \/ InsertCopy(c) \/ PutState(c) \/ DeleteCopy(c)
      PROVE  ThreadInv'
  BY <1>2, ReadMetadataStep, PatchThreadStep, LinkGraphStep, CheckpointStep, EndRunStep,
     ReadSourceStep, LoadStateStep, InsertCopyStep, PutStateStep, DeleteCopyStep
<1>3. CASE UNCHANGED threadVars
  BY <1>3 DEF threadVars, ThreadInv, ThreadTypes, JobsKnown, Copying, Unused, HasRow,
     Shown, MayHave, Excused, ReadsTrue, Does, CopiesTracked
<1> QED
  BY <1>1, <1>2, <1>3 DEF NextThreads

\* In every reachable state of the threads the invariant holds.
THEOREM ThreadsInvariant == ThreadsSpec => []ThreadInv
  BY InitThreadInv, NextThreadInv, PTL DEF ThreadsSpec

\* However requests overlap, a copy of a thread ends up with the state it was made
\* for or is gone, unless the process died or the database failed (copy_thread).
THEOREM CopiesAreWhole == ThreadsSpec => []CopiesWhole
<1>1. ThreadInv => CopiesWhole
  BY DEF ThreadInv, CopiesTracked, CopiesWhole
<1> QED
  BY <1>1, ThreadsInvariant, PTL

\* A thread that has checkpoints shows them, unless metadata were written over a
\* change or given by the client for a copy (update_thread, copy_thread).
THEOREM CheckpointsAreShown == ThreadsSpec => []CheckpointsShown
<1>1. ThreadInv => CheckpointsShown
  BY DEF ThreadInv, Shown, MayHave, Excused, History, CheckpointsShown
<1> QED
  BY <1>1, ThreadsInvariant, PTL

-------------------------------------------------------------------------------
(* The checkpoints of a thread: the inductive invariant.                     *)
HistorySpec == InitHistory /\ [][NextHistory]_historyVars

PointType == [broken : BOOLEAN, parent : Nat, goesOn : BOOLEAN]
TurnType == [step : {"none", "load", "graph"}, from : Nat, at : Nat, input : BOOLEAN,
             alone : BOOLEAN]
ReadingType == [step : {"none", "page", "done"}, limit : Nat, before : Nat, newest : Nat,
                got : SUBSET Nat, open : Nat, cut : BOOLEAN, twice : BOOLEAN]

HistoryTypes ==
  points \in Seq(PointType) /\ turn \in [Turns -> TurnType] /\ reading \in ReadingType

\* A new turn that nobody has disturbed stands on the newest checkpoint.
TurnsStand ==
  \A c \in Turns :
    /\ turn[c].step = "load" /\ turn[c].input => turn[c].from = 0
    /\ turn[c].step = "graph" /\ turn[c].input /\ turn[c].alone => turn[c].at = Len(points)

\* What the client was given is not before the next page, and what it still lacks
\* of the checkpoints there were is.
Paged ==
  /\ reading.newest <= Len(points) /\ reading.got \subseteq 1..Len(points)
  /\ \A i \in reading.got : ~Before(i)
  /\ reading.before = 0 => reading.got = {}
  /\ ~reading.twice
  /\ ~reading.cut /\ reading.step # "none" =>
       \A i \in 1..reading.newest :
         ConvertSnapshot(i) => i \in reading.got \/ (reading.step = "page" /\ Before(i))

HistoryInv == HistoryTypes /\ TurnsStand /\ TurnsGoOn /\ Paged

LEMMA MinExists ==
  ASSUME NEW S \in SUBSET Nat, S # {}
  PROVE  \E i \in S : \A j \in S : i <= j
<1> DEFINE R == OpToRel(<, Nat)
<1>1. IsWellFoundedOn(R, Nat)
  BY NatLessThanWellFounded
<1>2. \A i, j \in Nat : i < j => <<i, j>> \in R
  BY DEF OpToRel
<1> HIDE DEF R
<1>3. PICK x \in S : \A y \in S : ~(<<y, x>> \in R)
  BY <1>1, WFMin
<1>4. \A y \in S : ~(y < x)
  BY <1>2, <1>3
<1> QED
  BY <1>4

\* A page leaves out nothing that is newer than its oldest checkpoint.
LEMMA PageIsClosed ==
  ASSUME HistoryInv, NEW m \in Newest(Listed, reading.limit), NEW i \in Listed, m <= i
  PROVE  i \in Newest(Listed, reading.limit)
<1>1. m \in Listed /\ Cardinality({j \in Listed : j >= m}) <= reading.limit
  BY DEF Newest
<1>2. Listed \subseteq 1..Len(points) /\ Len(points) \in Nat
  BY LenProperties DEF HistoryInv, HistoryTypes, Listed
<1>3. IsFiniteSet({j \in Listed : j >= m})
  <2>1. IsFiniteSet(1..Len(points))
    BY <1>2, FS_Interval
  <2>2. {j \in Listed : j >= m} \in SUBSET (1..Len(points))
    BY <1>2
  <2> QED
    BY <2>1, <2>2, FS_Subset
<1>4. {j \in Listed : j >= i} \subseteq {j \in Listed : j >= m}
  <2>1. \A j \in Listed : j >= i => j >= m
    <3>1. m \in Nat /\ i \in Nat /\ \A j \in Listed : j \in Nat
      BY <1>1, <1>2
    <3> QED
      BY <3>1
  <2> QED
    BY <2>1
<1>5. /\ Cardinality({j \in Listed : j >= i}) <= Cardinality({j \in Listed : j >= m})
      /\ Cardinality({j \in Listed : j >= i}) \in Nat
      /\ Cardinality({j \in Listed : j >= m}) \in Nat
  BY <1>3, <1>4, FS_Subset, FS_CardinalityType
<1>6. reading.limit \in Nat
  BY DEF HistoryInv, HistoryTypes, ReadingType
<1> QED
  BY <1>1, <1>5, <1>6 DEF Newest

\* A page, whatever is on it, if it leaves out nothing newer than its oldest.
LEMMA PageShown ==
  ASSUME HistoryInv, reading.step = "page", UNCHANGED <<points, turn>>,
         NEW S \in SUBSET {i \in Listed : ConvertSnapshot(i)}, Shows(S),
         \A m \in S, i \in Listed : m <= i /\ ConvertSnapshot(i) => i \in S
  PROVE  HistoryInv'
<1> USE DEF HistoryInv
<1> DEFINE m == CHOOSE i \in S : \A j \in S : i <= j
<1>1. /\ Listed \subseteq 1..Len(points) /\ Len(points) \in Nat
      /\ \A i \in 1..Len(points) : i \in Listed <=> Before(i)
      /\ S \subseteq Nat
  BY LenProperties DEF HistoryTypes, Listed
<1>2. S # {} => m \in S /\ \A j \in S : m <= j
  BY <1>1, MinExists
<1> HIDE DEF m
<1>3. reading \in ReadingType
  BY DEF HistoryTypes
<1>4. /\ reading' \in ReadingType
      /\ reading'.step = IF S = {} THEN "done" ELSE "page"
      /\ reading'.before = IF S = {} THEN reading.before ELSE m
      /\ reading'.newest = reading.newest
      /\ reading'.got = reading.got \union S
      /\ reading'.cut = (reading.cut \/ (S = {} /\ \E i \in Listed : i <= reading.newest))
      /\ reading'.twice = (reading.twice \/ S \intersect reading.got # {})
  <2>1. S # {} => m \in Nat
    BY <1>1, <1>2
  <2> QED
    BY <1>1, <1>3, <2>1 DEF Shows, ReadingType, m
<1>5. HistoryTypes' /\ TurnsStand' /\ TurnsGoOn'
  BY <1>4 DEF HistoryTypes, TurnsStand, TurnsGoOn
<1>6. S \intersect reading.got = {}
  BY DEF Paged, Listed
<1>7. CASE S = {}
  <2>1. \A i \in 1..Len(points) : Before(i)' = Before(i)
    BY <1>4, <1>7 DEF Before
  <2>2. /\ reading'.newest <= Len(points') /\ reading'.got \subseteq 1..Len(points')
        /\ \A i \in reading'.got : ~Before(i)'
        /\ reading'.before = 0 => reading'.got = {}
        /\ ~reading'.twice
    BY <1>4, <1>6, <1>7, <2>1 DEF Paged
  <2>3. ASSUME ~reading'.cut, NEW i \in 1..reading.newest, ConvertSnapshot(i)
        PROVE  i \in reading.got
    <3>1. i \in 1..Len(points) /\ i <= reading.newest
      BY <1>1, <1>3 DEF Paged, ReadingType
    <3> QED
      BY <1>1, <1>4, <1>7, <2>3, <3>1 DEF Paged
  <2> QED
    BY <1>4, <1>5, <1>7, <2>2, <2>3 DEF Paged, ConvertSnapshot
<1>8. CASE S # {}
  <2>1. m \in 1..Len(points) /\ m \in Listed
    BY <1>1, <1>2, <1>8
  <2>2. \A i \in 1..Len(points) : Before(i)' <=> i < m
    <3>3. m # 0
      BY <1>1, <2>1
    <3>1. reading'.before = m /\ m # 0
      BY <1>4, <1>8, <3>3
    <3> QED
      BY <3>1 DEF Before
  <2>3. ASSUME NEW i \in reading'.got PROVE i \in 1..Len(points) /\ ~Before(i)'
    <3>1. CASE i \in S
      BY <1>1, <1>2, <1>8, <2>2, <3>1
    <3>2. CASE i \in reading.got
      <4>1. i \in 1..Len(points) /\ ~Before(i)
        BY <3>2 DEF Paged
      <4>2. m <= i
        BY <1>1, <1>3, <2>1, <4>1 DEF Before, ReadingType
      <4> QED
        BY <2>1, <2>2, <4>1, <4>2
    <3> QED
      BY <1>4, <2>3, <3>1, <3>2
  <2>4. ASSUME ~reading'.cut, NEW i \in 1..reading.newest, ConvertSnapshot(i)
        PROVE  i \in reading'.got \/ Before(i)'
    <3>1. i \in 1..Len(points)
      BY <1>1, <1>3 DEF Paged, ReadingType
    <3>2. CASE i \in reading.got
      BY <1>4, <3>2
    <3>3. CASE i \notin reading.got
      <4>1. Before(i) /\ i \in Listed
        BY <1>1, <1>4, <1>8, <2>4, <3>1, <3>3 DEF Paged
      <4>2. CASE m <= i
        BY <1>2, <1>4, <1>8, <2>4, <4>1, <4>2
      <4>3. CASE i < m
        BY <2>2, <3>1, <4>3
      <4> QED
        BY <2>1, <3>1, <4>2, <4>3
    <3> QED
      BY <3>2, <3>3
  <2>5. reading'.newest <= Len(points') /\ ~reading'.twice /\ reading'.before # 0
    <3>3. m # 0
      BY <1>1, <2>1
    <3>1. reading'.before = m /\ m # 0
      BY <1>4, <1>8, <3>3
    <3>2. reading'.newest = reading.newest /\ ~reading'.twice
      BY <1>4, <1>6 DEF Paged
    <3> QED
      BY <3>1, <3>2 DEF Paged
  <2> QED
    BY <1>4, <1>5, <1>8, <2>3, <2>4, <2>5 DEF Paged, ConvertSnapshot
<1> QED
  BY <1>7, <1>8

-------------------------------------------------------------------------------
(* Checkpoints: every action keeps it.                                       *)
LEMMA TurnMoves ==
  ASSUME HistoryInv, NEW c \in Turns, NEW k \in TurnType, turn' = [turn EXCEPT ![c] = k],
         UNCHANGED <<points, reading>>,
         k.step = "load" /\ k.input => k.from = 0,
         k.step = "graph" /\ k.input /\ k.alone => k.at = Len(points)
  PROVE  HistoryInv'
<1> USE DEF HistoryInv
<1>1. /\ turn' \in [Turns -> TurnType] /\ turn'[c] = k
      /\ \A d \in Turns \ {c} : turn'[d] = turn[d]
  BY DEF HistoryTypes
<1> QED
  BY <1>1 DEF HistoryTypes, TurnsStand, TurnsGoOn, Paged, Before, ConvertSnapshot

LEMMA RunStep ==
  ASSUME HistoryInv, NEW c \in Turns, CreateTurn(c) \/ LoadCheckpoint(c) \/ EndTurn(c)
  PROVE  HistoryInv'
<1> USE DEF HistoryInv
<1>1. turn[c] \in TurnType /\ reading.open \in Nat /\ Len(points) \in Nat
  BY LenProperties DEF HistoryTypes, ReadingType
<1>2. NoTurn \in TurnType /\ NoTurn.step = "none"
  BY DEF NoTurn, TurnType
<1>3. CASE CreateTurn(c)
  <2>1. PICK input \in BOOLEAN, chosen \in {0, reading.open} :
          turn' = [turn EXCEPT ![c] = CreateRunConfig(input, CheckpointOf(input, chosen))]
    BY <1>3 DEF CreateTurn
  <2> DEFINE k == CreateRunConfig(input, CheckpointOf(input, chosen))
  <2>2. CheckpointOf(input, chosen) \in Nat /\ (input => CheckpointOf(input, chosen) = 0)
    BY <1>1 DEF CheckpointOf
  <2>3. k \in TurnType /\ k.step = "load" /\ (k.input => k.from = 0)
    BY <2>2 DEF CreateRunConfig, NoTurn, TurnType
  <2> HIDE DEF k
  <2> QED
    BY <1>3, <2>1, <2>3, TurnMoves DEF CreateTurn, k
<1>4. CASE LoadCheckpoint(c)
  <2> DEFINE k == [turn[c] EXCEPT !.step = "graph", !.alone = turn[c].input, !.from = 0,
                     !.at = IF turn[c].from = 0 THEN Len(points) ELSE turn[c].from]
  <2>1. turn' = [turn EXCEPT ![c] = k] /\ UNCHANGED <<points, reading>>
    BY <1>4 DEF LoadCheckpoint, HistoryTypes
  <2>2. turn[c].input => turn[c].from = 0
    BY <1>4 DEF LoadCheckpoint, TurnsStand
  <2>3. k \in TurnType /\ k.step = "graph" /\ (k.input => k.at = Len(points))
    BY <1>1, <2>2 DEF TurnType
  <2> HIDE DEF k
  <2> QED
    BY <2>1, <2>3, TurnMoves
<1>5. CASE EndTurn(c)
  BY <1>2, <1>5, TurnMoves DEF EndTurn
<1> QED
  BY <1>3, <1>4, <1>5

LEMMA WriteCheckpointStep ==
  ASSUME HistoryInv, NEW c \in Turns, WriteCheckpoint(c)
  PROVE  HistoryInv'
<1> USE DEF HistoryInv
<1>1. PICK broken \in BOOLEAN :
        points' = Append(points, [broken |-> broken, parent |-> turn[c].at,
                                  goesOn |-> turn[c].input /\ turn[c].alone])
  BY DEF WriteCheckpoint
<1> DEFINE p == [broken |-> broken, parent |-> turn[c].at,
                 goesOn |-> turn[c].input /\ turn[c].alone]
<1>2. turn[c] \in TurnType /\ turn[c].step = "graph"
  BY DEF HistoryTypes, WriteCheckpoint
<1>3. p \in PointType /\ p.parent = turn[c].at /\ (p.goesOn = (turn[c].input /\ turn[c].alone))
  BY <1>2 DEF TurnType, PointType
<1> HIDE DEF p
<1>4. /\ Len(points) \in Nat /\ points' \in Seq(PointType) /\ Len(points') = Len(points) + 1
      /\ points'[Len(points) + 1] = p
      /\ \A i \in 1..Len(points) : points'[i] = points[i]
      /\ DOMAIN points = 1..Len(points) /\ DOMAIN points' = 1..Len(points')
  BY <1>1, <1>3, AppendProperties, LenProperties DEF HistoryTypes, p
<1>5. /\ turn' \in [Turns -> TurnType]
      /\ \A d \in Turns : ~(turn'[d].alone /\ turn'[d].input)
      /\ \A d \in Turns : turn'[d].step = "load" /\ turn'[d].input => turn'[d].from = 0
  <2>1. \A d \in Turns : turn[d] \in TurnType
    BY DEF HistoryTypes
  <2>2. \A d \in Turns : [turn[d] EXCEPT !.alone = FALSE] \in TurnType
    BY <2>1 DEF TurnType
  <2>3. [turn[c] EXCEPT !.at = Len(points) + 1, !.input = FALSE, !.alone = FALSE] \in TurnType
    <3>1. Len(points) + 1 \in Nat
      BY <1>4
    <3> QED
      BY <1>2, <3>1 DEF TurnType
  <2>4. turn' = [d \in Turns |->
                   IF d = c THEN [turn[c] EXCEPT !.at = Len(points) + 1, !.input = FALSE,
                                                 !.alone = FALSE]
                   ELSE [turn[d] EXCEPT !.alone = FALSE]]
    BY DEF WriteCheckpoint
  <2>5. turn' \in [Turns -> TurnType]
    BY <2>2, <2>3, <2>4
  <2> QED
    BY <2>1, <2>4, <2>5 DEF TurnsStand, TurnType
<1>6. HistoryTypes' /\ TurnsStand'
  BY <1>4, <1>5 DEF WriteCheckpoint, HistoryTypes, TurnsStand
<1>7. TurnsGoOn'
  <2> SUFFICES ASSUME NEW i \in 1..Len(points'), points'[i].goesOn
               PROVE  points'[i].parent = i - 1
    BY <1>4 DEF TurnsGoOn
  <2>1. CASE i = Len(points) + 1
    <3>1. turn[c].input /\ turn[c].alone /\ points'[i].parent = turn[c].at
      BY <1>3, <1>4, <2>1
    <3>2. turn[c].at = Len(points)
      BY <1>2, <3>1 DEF TurnsStand
    <3> QED
      BY <1>4, <2>1, <3>1, <3>2
  <2>2. CASE i \in 1..Len(points)
    BY <1>4, <2>2 DEF TurnsGoOn
  <2> QED
    BY <1>4, <2>1, <2>2
<1>8. Paged'
  <2>1. reading' = reading /\ reading.newest \in Nat /\ reading.newest <= Len(points)
    BY DEF WriteCheckpoint, HistoryTypes, ReadingType, Paged
  <2>2. \A i \in 1..Len(points) : (ConvertSnapshot(i)' <=> ConvertSnapshot(i)) /\ Before(i)' = Before(i)
    BY <1>4, <2>1 DEF ConvertSnapshot, Before
  <2>3. \A i \in 1..reading.newest : i \in 1..Len(points)
    BY <1>4, <2>1
  <2> QED
    BY <1>4, <2>1, <2>2, <2>3 DEF Paged
<1> QED
  BY <1>6, <1>7, <1>8

LEMMA ReadingStep ==
  ASSUME HistoryInv, AskHistory \/ GetHistory \/ OpenCheckpoint \/ CloseHistory
  PROVE  HistoryInv'
<1> USE DEF HistoryInv
<1>1. reading \in ReadingType /\ Len(points) \in Nat /\ DOMAIN points = 1..Len(points)
  BY LenProperties DEF HistoryTypes
<1>2. ASSUME reading' \in ReadingType, UNCHANGED <<points, turn>>,
             reading'.newest <= Len(points), reading'.got = {}, reading'.before = 0,
             ~reading'.twice, reading'.step \in {"none", "page"}
      PROVE  HistoryInv'
  <2>1. HistoryTypes' /\ TurnsStand' /\ TurnsGoOn'
    BY <1>2 DEF HistoryTypes, TurnsStand, TurnsGoOn
  <2>2. \A i : Before(i)'
    BY <1>2 DEF Before
  <2> QED
    BY <1>2, <2>1, <2>2 DEF Paged
<1>3. /\ NotReading \in ReadingType /\ NotReading.newest = 0 /\ NotReading.got = {}
      /\ NotReading.before = 0 /\ ~NotReading.twice /\ NotReading.step = "none"
  BY DEF NotReading, ReadingType
<1>4. CASE AskHistory
  <2>1. PICK limit \in Limits :
          reading' = [NotReading EXCEPT !.step = "page", !.limit = limit, !.newest = Len(points)]
    BY <1>4 DEF AskHistory
  <2>2. /\ reading' \in ReadingType /\ reading'.newest = Len(points) /\ reading'.got = {}
        /\ reading'.before = 0 /\ ~reading'.twice /\ reading'.step = "page"
    BY <1>1, <2>1, LimitsAssumption DEF NotReading, ReadingType
  <2> QED
    <3>1. UNCHANGED <<points, turn>>
      BY <1>4 DEF AskHistory
    <3>2. Len(points) <= Len(points)
      BY <1>1
    <3>3. reading'.newest <= Len(points)
      BY <2>2, <3>2
    <3> QED
      BY <1>2, <2>2, <3>1, <3>3
<1>5. CASE reading' = NotReading /\ UNCHANGED <<points, turn>>
  BY <1>1, <1>2, <1>3, <1>5
<1>6. CASE GetHistory
  <2>1. CASE Shows(ConvertSnapshots(Newest(Listed, reading.limit)))
    <3> DEFINE S == ConvertSnapshots(Newest(Listed, reading.limit))
    <3>1. S \subseteq {i \in Listed : ConvertSnapshot(i)}
      BY DEF ConvertSnapshots, Newest
    <3>2. \A m \in S, i \in Listed : m <= i /\ ConvertSnapshot(i) => i \in S
      BY PageIsClosed DEF ConvertSnapshots
    <3> HIDE DEF S
    <3> QED
      BY <1>6, <2>1, <3>1, <3>2, PageShown DEF GetHistory, S
  <2>2. CASE Shows({})
    BY <1>6, <2>2, PageShown DEF GetHistory
  <2> QED
    BY <1>5, <1>6, <2>1, <2>2 DEF GetHistory
<1>7. CASE OpenCheckpoint
  <2>1. PICK i \in reading.got : GetStateAtCheckpoint(i)
    BY <1>7 DEF OpenCheckpoint
  <2>2. CASE reading' = [NotReading EXCEPT !.open = i]
    <3>1. i \in Nat
      BY <1>1 DEF Paged
    <3>2. /\ reading' \in ReadingType /\ reading'.newest = 0 /\ reading'.got = {}
          /\ reading'.before = 0 /\ ~reading'.twice /\ reading'.step = "none"
      BY <2>2, <3>1 DEF NotReading, ReadingType
    <3> QED
      BY <1>1, <1>7, <3>2 DEF OpenCheckpoint, HistoryTypes, TurnsStand, TurnsGoOn, Paged
  <2> QED
    BY <1>5, <1>7, <2>1, <2>2 DEF OpenCheckpoint, GetStateAtCheckpoint
<1>8. CASE CloseHistory
  BY <1>5, <1>8 DEF CloseHistory
<1> QED
  BY <1>4, <1>6, <1>7, <1>8

-------------------------------------------------------------------------------
(* Checkpoints: theorems.                                                    *)
LEMMA InitHistoryInv == InitHistory => HistoryInv
<1> SUFFICES ASSUME InitHistory PROVE HistoryInv
  OBVIOUS
<1>1. points \in Seq(PointType) /\ Len(points) = 0
  BY EmptySeq DEF InitHistory
<1>2. NoTurn \in TurnType /\ NoTurn.step = "none"
  BY DEF NoTurn, TurnType
<1>3. NotReading \in ReadingType
  BY DEF NotReading, ReadingType
<1>4. HistoryTypes
  BY <1>1, <1>2, <1>3 DEF InitHistory, HistoryTypes
<1>5. TurnsStand /\ TurnsGoOn
  BY <1>1, <1>2, LenProperties DEF InitHistory, TurnsStand, TurnsGoOn
<1>6. Paged
  BY <1>1 DEF InitHistory, Paged, NotReading
<1> QED
  BY <1>4, <1>5, <1>6 DEF HistoryInv

LEMMA NextHistoryInv == HistoryInv /\ [NextHistory]_historyVars => HistoryInv'
<1> SUFFICES ASSUME HistoryInv, [NextHistory]_historyVars PROVE HistoryInv'
  OBVIOUS
<1>1. CASE NextHistory
  BY <1>1, RunStep, WriteCheckpointStep, ReadingStep DEF NextHistory
<1>2. CASE UNCHANGED historyVars
  BY <1>2 DEF historyVars, HistoryInv, HistoryTypes, TurnsStand, TurnsGoOn, Paged, Before,
     ConvertSnapshot
<1> QED
  BY <1>1, <1>2

\* The pages of a history are whole and a new turn goes on from the newest
\* checkpoint, however many runs write between two pages (get_thread_history,
\* create_run).
THEOREM HistoryIsWhole == HistorySpec => [](PagesWhole /\ TurnsGoOn)
<1>1. HistoryInv => PagesWhole /\ TurnsGoOn
  BY DEF HistoryInv, Paged, PagesWhole
<1> QED
  BY <1>1, InitHistoryInv, NextHistoryInv, PTL DEF HistorySpec

\* What a client is shown of a thread, in every state of the run.
THEOREM StatesAreShown == Spec => []StatesShown
<1> DEFINE all == <<assistantVars, registryVars, threadVars, historyVars, a2aVars, focus>>
<1>1. Init => InitThreads /\ InitHistory
  BY DEF Init
<1>2. [Next]_all => [NextThreads]_threadVars /\ [NextHistory]_historyVars
  BY DEF Next
<1>3. Spec => ThreadsSpec /\ HistorySpec
  BY <1>1, <1>2, PTL DEF Spec, ThreadsSpec, HistorySpec
<1> QED
  BY <1>3, CheckpointsAreShown, HistoryIsWhole, PTL DEF StatesShown

-------------------------------------------------------------------------------
(* Tasks of the A2A protocol: the inductive invariant.                       *)
A2ASpec == InitA2A /\ [][NextA2A]_a2aVars

Words == Texts \union {Blocks, Null}
Chunk == [kind : {"piece", "whole", "interrupt"}, text : Words]
Input == [content : {Blocks, "text"}, kwargs : SUBSET PartKinds]
Work == [on : BOOLEAN, graph : Instances \union {Null}, input : Input \union {Null},
         told : Seq(Words) \union {Blocks}]

A2ATypes ==
  /\ served \in Instances \union {Null} /\ loaded \in Instances
  /\ state \in [Tasks -> {"none", "submitted", "working", "input_required", "completed",
                          "canceled"}]
  /\ work \in [Tasks -> Work]
  /\ artifact \in [Tasks -> Seq(Words) \union {Null}]
  /\ heard \in [Tasks -> Seq(Chunk)]

\* The last whole message, or the beginning; and the texts from there on.
IsWhole(h, i) == i \in 1..Len(h) /\ h[i].kind = "whole"
IsStart(h, f) == (IsWhole(h, f) \/ f = 1) /\ \A j : IsWhole(h, j) => j <= f
Since(h, f) == [i \in 1..(Len(h) + 1 - f) |-> h[f + i - 1].text]

Collected ==
  \A t \in Tasks :
    work[t].on =>
      /\ state[t] # "completed"
      /\ work[t].told # Blocks =>
           \E f : IsStart(heard[t], f) /\ work[t].told = Since(heard[t], f)

A2AInv == A2ATypes /\ Collected /\ ArtifactIsStream

\* The texts of the stream, whichever way its start is found.
LEMMA StreamedSince ==
  ASSUME NEW h \in Seq(Chunk), NEW f, IsStart(h, f)
  PROVE  Streamed(h) = Since(h, f)
<1> DEFINE wholes == {i \in 1..Len(h) : h[i].kind = "whole"}
           from == CHOOSE i \in wholes \union {1} : \A j \in wholes : j <= i
<1>1. f \in wholes \union {1} /\ \A j \in wholes : j <= f
  BY DEF IsStart, IsWhole
<1>2. from \in wholes \union {1} /\ \A j \in wholes : j <= from
  BY <1>1
<1>3. wholes \subseteq Nat \ {0}
  BY LenProperties
<1>4. Streamed(h) = Since(h, from)
  BY DEF Streamed, Since
<1> HIDE DEF wholes, from
<1>5. from = f
  BY <1>1, <1>2, <1>3
<1> QED
  BY <1>4, <1>5

LEMMA SinceType ==
  ASSUME NEW h \in Seq(Chunk), NEW f, IsStart(h, f)
  PROVE  /\ f \in Nat \ {0} /\ f <= Len(h) + 1
         /\ Since(h, f) \in Seq(Words) /\ Len(Since(h, f)) = Len(h) + 1 - f
         /\ h # <<>> => Since(h, f) # <<>>
<1>1. Len(h) \in Nat /\ \A i \in 1..Len(h) : h[i].text \in Words
  <2>1. Len(h) \in Nat /\ \A i \in 1..Len(h) : h[i] \in Chunk
    BY LenProperties, ElementOfSeq
  <2>2. \A c \in Chunk : c.text \in Words
    BY DEF Chunk
  <2> QED
    BY <2>1, <2>2
<1>2. f \in Nat \ {0} /\ f <= Len(h) + 1 /\ (Len(h) # 0 => f <= Len(h))
  BY <1>1 DEF IsStart, IsWhole
<1> DEFINE n == Len(h) + 1 - f
<1>3. n \in Nat /\ \A i \in 1..n : h[f + i - 1].text \in Words
  <2>1. \A i \in 1..n : f + i - 1 \in 1..Len(h)
    BY <1>1, <1>2
  <2> QED
    BY <1>1, <1>2, <2>1
<1>4. Since(h, f) \in [1..n -> Words]
  BY <1>3 DEF Since
<1>5. Since(h, f) \in Seq(Words) /\ Len(Since(h, f)) = n
  BY <1>3, <1>4, SeqDef, LenProperties
<1>6. h # <<>> => Len(h) # 0
  BY EmptySeq
<1>7. h # <<>> => n # 0
  BY <1>1, <1>2, <1>6
<1> QED
  BY <1>2, <1>5, <1>7, EmptySeq

\* A piece goes on with what was collected, a whole message begins anew.
LEMMA PieceSince ==
  ASSUME NEW h \in Seq(Chunk), NEW f, IsStart(h, f), NEW x \in Words
  PROVE  LET g == Append(h, [kind |-> "piece", text |-> x]) IN
           IsStart(g, f) /\ Since(g, f) = Append(Since(h, f), x)
<1> DEFINE k == [kind |-> "piece", text |-> x]
           g == Append(h, k)
           s == Since(h, f)
<1>1. k \in Chunk /\ k.kind = "piece" /\ k.text = x
  BY DEF Chunk
<1>2. /\ f \in Nat \ {0} /\ f <= Len(h) + 1 /\ s \in Seq(Words) /\ Len(s) = Len(h) + 1 - f
      /\ Len(h) \in Nat
  BY SinceType, LenProperties
<1> HIDE DEF k
<1>3. /\ Len(g) = Len(h) + 1 /\ g[Len(h) + 1] = k
      /\ \A i \in 1..Len(h) : g[i] = h[i]
  BY <1>1, AppendProperties, LenProperties
<1> HIDE DEF g
<1>4. \A i : IsWhole(g, i) <=> IsWhole(h, i)
  BY <1>1, <1>2, <1>3 DEF IsWhole
<1>5. IsStart(g, f)
  BY <1>4 DEF IsStart
<1>6. /\ Append(s, x) \in Seq(Words) /\ Len(Append(s, x)) = Len(s) + 1
      /\ Append(s, x)[Len(s) + 1] = x
      /\ \A i \in 1..Len(s) : Append(s, x)[i] = s[i]
  BY <1>2, AppendProperties, LenProperties
<1>7. Append(s, x) = [i \in 1..(Len(s) + 1) |-> Append(s, x)[i]]
  BY <1>6, LenProperties
<1>8. ASSUME NEW i \in 1..(Len(s) + 1) PROVE Append(s, x)[i] = g[f + i - 1].text
  <2>1. CASE i = Len(s) + 1
    BY <1>1, <1>2, <1>3, <1>6, <2>1
  <2>2. CASE i \in 1..Len(s)
    <3>1. f + i - 1 \in 1..Len(h) /\ s[i] = h[f + i - 1].text
      BY <1>2, <2>2 DEF Since
    <3> QED
      BY <1>3, <1>6, <2>2, <3>1
  <2> QED
    BY <1>2, <2>1, <2>2
<1>9. Since(g, f) = [i \in 1..(Len(s) + 1) |-> g[f + i - 1].text]
  BY <1>2, <1>3 DEF Since
<1>10. Since(g, f) = Append(s, x)
  BY <1>7, <1>8, <1>9
<1> QED
  BY <1>5, <1>10 DEF g, k

LEMMA WholeSince ==
  ASSUME NEW h \in Seq(Chunk), NEW x \in Words
  PROVE  LET g == Append(h, [kind |-> "whole", text |-> x]) IN
           IsStart(g, Len(h) + 1) /\ Since(g, Len(h) + 1) = <<x>>
<1> DEFINE k == [kind |-> "whole", text |-> x]
           g == Append(h, k)
<1>1. k \in Chunk /\ k.kind = "whole" /\ k.text = x /\ Len(h) \in Nat
  BY LenProperties DEF Chunk
<1> HIDE DEF k
<1>2. Len(g) = Len(h) + 1 /\ g[Len(h) + 1] = k
  BY <1>1, AppendProperties
<1> HIDE DEF g
<1>3. IsStart(g, Len(h) + 1)
  BY <1>1, <1>2 DEF IsStart, IsWhole
<1>4. Since(g, Len(h) + 1) = [i \in 1..1 |-> g[Len(h) + 1 + i - 1].text]
  BY <1>1, <1>2 DEF Since
<1>5. \A i \in 1..1 : Len(h) + 1 + i - 1 = Len(h) + 1
  BY <1>1
<1>6. Since(g, Len(h) + 1) = [i \in 1..1 |-> x]
  BY <1>1, <1>2, <1>4, <1>5
<1> QED
  BY <1>3, <1>6 DEF g, k

LEMMA StartOfNothing == IsStart(<<>>, 1) /\ Since(<<>>, 1) = <<>>
<1> SUFFICES ASSUME NEW h \in Seq(Chunk), h = <<>>, Len(h) = 0
             PROVE  IsStart(h, 1) /\ Since(h, 1) = h
  BY EmptySeq
<1>1. IsStart(h, 1)
  BY DEF IsStart, IsWhole
<1>2. Since(h, 1) \in Seq(Words) /\ Len(Since(h, 1)) = Len(h) + 1 - 1
  BY <1>1, SinceType, Zenon
<1> QED
  BY <1>1, <1>2, EmptySeq

-------------------------------------------------------------------------------
(* Tasks: every action keeps it.                                             *)

\* Only one task, its work and its status change.
LEMMA TaskMoves ==
  ASSUME A2AInv, NEW t \in Tasks, NEW w \in Work, NEW h \in Seq(Chunk),
         work' = [work EXCEPT ![t] = w], heard' = [heard EXCEPT ![t] = h],
         state' \in [Tasks -> {"none", "submitted", "working", "input_required", "completed",
                               "canceled"}],
         \A s \in Tasks \ {t} : state'[s] = state[s],
         UNCHANGED <<loaded, served, artifact>>,
         w.on => /\ state'[t] # "completed"
                 /\ w.told # Blocks => \E f : IsStart(h, f) /\ w.told = Since(h, f),
         state'[t] = "completed" /\ h # <<>> => artifact[t] = Streamed(h)
  PROVE  A2AInv'
<1> USE DEF A2AInv
<1>1. /\ work' \in [Tasks -> Work] /\ work'[t] = w /\ heard' \in [Tasks -> Seq(Chunk)]
      /\ heard'[t] = h
      /\ \A s \in Tasks \ {t} : work'[s] = work[s] /\ heard'[s] = heard[s]
  BY DEF A2ATypes
<1>2. A2ATypes'
  BY <1>1 DEF A2ATypes
<1>3. Collected'
  BY <1>1 DEF Collected
<1>4. ArtifactIsStream'
  BY <1>1 DEF ArtifactIsStream
<1> QED
  BY <1>2, <1>3, <1>4

LEMMA NoWorkType == NoWork \in Work /\ ~NoWork.on
  BY EmptySeq DEF NoWork, Work

LEMMA StartWorkStep ==
  ASSUME A2AInv, NEW t \in Tasks, StartWork(t)
  PROVE  A2AInv'
<1>1. PICK parts \in SUBSET PartKinds :
        work' = [work EXCEPT ![t] = [on |-> TRUE, graph |-> served,
                                     input |-> Converted(parts), told |-> <<>>]]
  BY DEF StartWork
<1> DEFINE w == [on |-> TRUE, graph |-> served, input |-> Converted(parts), told |-> <<>>]
<1>2. Converted(parts) \in Input
  BY DEF Converted, Input
<1>3. w \in Work /\ w.told = <<>> /\ <<>> \in Seq(Chunk)
  BY <1>2, EmptySeq DEF A2AInv, A2ATypes, Work
<1>4. work' = [work EXCEPT ![t] = w]
  BY <1>1
<1> HIDE DEF w
<1>5. /\ state' \in [Tasks -> {"none", "submitted", "working", "input_required", "completed",
                               "canceled"}]
      /\ state'[t] # "completed" /\ \A s \in Tasks \ {t} : state'[s] = state[s]
  BY DEF StartWork, A2AInv, A2ATypes
<1> QED
  <2>1. IsStart(<<>>, 1) /\ w.told = Since(<<>>, 1)
    BY <1>3, StartOfNothing
  <2>2. heard' = [heard EXCEPT ![t] = <<>>] /\ UNCHANGED <<loaded, served, artifact>>
    BY DEF StartWork
  <2> QED
    BY <1>3, <1>4, <1>5, <2>1, <2>2, TaskMoves

LEMMA PieceStep ==
  ASSUME A2AInv, NEW t \in Tasks, Piece(t)
  PROVE  A2AInv'
<1>1. PICK x \in Texts :
        /\ Hears(t, "piece", x)
        /\ work' = [work EXCEPT ![t].told = Append(@, x)]
  BY DEF Piece
<1> DEFINE told == work[t].told
           k == [kind |-> "piece", text |-> x]
           h == Append(heard[t], k)
           w == [work[t] EXCEPT !.told = Append(told, x)]
<1>2. /\ work[t] \in Work /\ work[t].on /\ told # Blocks /\ x \in Words
      /\ heard[t] \in Seq(Chunk) /\ told \in Seq(Words)
  BY <1>1 DEF Piece, Hears, A2AInv, A2ATypes, Work, Words
<1>3. k \in Chunk /\ h \in Seq(Chunk) /\ Append(told, x) \in Seq(Words)
  BY <1>2, AppendProperties DEF Chunk
<1>4. w \in Work /\ w.told = Append(told, x)
  BY <1>2, <1>3 DEF Work
<1>5. PICK f : IsStart(heard[t], f) /\ told = Since(heard[t], f)
  BY <1>2 DEF A2AInv, Collected
<1>6. IsStart(h, f) /\ w.told = Since(h, f)
  BY <1>2, <1>4, <1>5, PieceSince
<1>7. work' = [work EXCEPT ![t] = w] /\ heard' = [heard EXCEPT ![t] = h]
  BY <1>1 DEF Hears
<1> HIDE DEF w, h, told, k
<1>8. /\ state' \in [Tasks -> {"none", "submitted", "working", "input_required", "completed",
                               "canceled"}]
      /\ state'[t] = "working" /\ \A s \in Tasks \ {t} : state'[s] = state[s]
  BY DEF Piece, A2AInv, A2ATypes
<1> QED
  BY <1>1, <1>3, <1>4, <1>6, <1>7, <1>8, TaskMoves DEF Hears

LEMMA WholeStep ==
  ASSUME A2AInv, NEW t \in Tasks, Whole(t)
  PROVE  A2AInv'
<1>1. PICK x \in Texts \union {Blocks} :
        /\ Hears(t, "whole", x)
        /\ work' = [work EXCEPT ![t].told = IF x = Blocks THEN Blocks ELSE <<x>>]
  BY DEF Whole
<1> DEFINE k == [kind |-> "whole", text |-> x]
           h == Append(heard[t], k)
           w == [work[t] EXCEPT !.told = IF x = Blocks THEN Blocks ELSE <<x>>]
<1>2. /\ work[t] \in Work /\ work[t].on /\ x \in Words /\ heard[t] \in Seq(Chunk)
      /\ state[t] # "completed"
  BY <1>1 DEF Hears, A2AInv, A2ATypes, Words, Collected
<1>3. k \in Chunk /\ h \in Seq(Chunk) /\ <<x>> \in Seq(Words)
  BY <1>2, AppendProperties DEF Chunk
<1>4. w \in Work /\ (w.told # Blocks => w.told = <<x>>)
  BY <1>2, <1>3 DEF Work
<1>5. IsStart(h, Len(heard[t]) + 1) /\ Since(h, Len(heard[t]) + 1) = <<x>>
  BY <1>2, WholeSince
<1>6. work' = [work EXCEPT ![t] = w] /\ heard' = [heard EXCEPT ![t] = h]
  BY <1>1 DEF Hears
<1>7. /\ state' = state
      /\ state \in [Tasks -> {"none", "submitted", "working", "input_required", "completed",
                              "canceled"}]
  BY DEF Whole, A2AInv, A2ATypes
<1> HIDE DEF w, h, k
<1> QED
  <2>1. w.told # Blocks => \E f : IsStart(h, f) /\ w.told = Since(h, f)
    BY <1>4, <1>5
  <2>2. UNCHANGED <<loaded, served, artifact>>
    BY <1>1 DEF Hears
  <2> QED
    BY <1>2, <1>3, <1>4, <1>6, <1>7, <2>1, <2>2, TaskMoves

LEMMA InterruptStep ==
  ASSUME A2AInv, NEW t \in Tasks, Interrupt(t)
  PROVE  A2AInv'
<1> DEFINE k == [kind |-> "interrupt", text |-> Null]
           h == Append(heard[t], k)
<1>1. k \in Chunk /\ heard[t] \in Seq(Chunk)
  BY DEF Chunk, Words, A2AInv, A2ATypes
<1>2. h \in Seq(Chunk)
  BY <1>1, AppendProperties
<1>3. /\ heard' = [heard EXCEPT ![t] = h] /\ work' = [work EXCEPT ![t] = NoWork]
      /\ UNCHANGED <<loaded, served, artifact>>
  BY DEF Interrupt, Hears
<1>4. /\ state' \in [Tasks -> {"none", "submitted", "working", "input_required", "completed",
                               "canceled"}]
      /\ state'[t] # "completed" /\ \A s \in Tasks \ {t} : state'[s] = state[s]
  BY DEF Interrupt, A2AInv, A2ATypes
<1> HIDE DEF h
<1> QED
  BY <1>2, <1>3, <1>4, NoWorkType, TaskMoves

LEMMA CompleteStep ==
  ASSUME A2AInv, NEW t \in Tasks, Complete(t)
  PROVE  A2AInv'
<1> USE DEF A2AInv
<1> DEFINE told == work[t].told
<1>1. /\ work[t] \in Work /\ work[t].on /\ told # Blocks /\ heard[t] \in Seq(Chunk)
      /\ told \in Seq(Words)
  BY DEF Complete, A2ATypes, Work
<1>2. PICK f : IsStart(heard[t], f) /\ told = Since(heard[t], f)
  BY <1>1 DEF Collected
<1>3. heard[t] # <<>> => told # <<>> /\ told = Streamed(heard[t])
  BY <1>1, <1>2, SinceType, StreamedSince
<1>4. /\ artifact' \in [Tasks -> Seq(Words) \union {Null}]
      /\ told # <<>> => artifact'[t] = told
      /\ \A s \in Tasks \ {t} : artifact'[s] = artifact[s]
  BY <1>1 DEF Complete, A2ATypes
<1>5. /\ work' \in [Tasks -> Work] /\ work'[t] = NoWork
      /\ \A s \in Tasks \ {t} : work'[s] = work[s] /\ state'[s] = state[s]
      /\ state' \in [Tasks -> {"none", "submitted", "working", "input_required", "completed",
                               "canceled"}]
      /\ UNCHANGED <<loaded, served, heard>>
  BY NoWorkType DEF Complete, A2ATypes
<1>6. A2ATypes'
  BY <1>4, <1>5 DEF A2ATypes
<1>7. Collected'
  BY <1>5, NoWorkType DEF Collected
<1>8. ArtifactIsStream'
  BY <1>3, <1>4, <1>5 DEF ArtifactIsStream
<1> QED
  BY <1>6, <1>7, <1>8

LEMMA WorkStopsStep ==
  ASSUME A2AInv, NEW t \in Tasks, WorkFails(t) \/ CancelTask(t)
  PROVE  A2AInv'
<1>1. /\ work[t] \in Work /\ heard[t] \in Seq(Chunk) /\ heard' = [heard EXCEPT ![t] = heard[t]]
      /\ state \in [Tasks -> {"none", "submitted", "working", "input_required", "completed",
                              "canceled"}]
      /\ UNCHANGED <<loaded, served, artifact>>
  BY DEF A2AInv, A2ATypes, WorkFails, CancelTask
<1>2. CASE WorkFails(t)
  <2>1. work' = [work EXCEPT ![t] = NoWork] /\ state' = state
    BY <1>2 DEF WorkFails
  <2>2. state[t] = "completed" /\ heard[t] # <<>> => artifact[t] = Streamed(heard[t])
    BY DEF A2AInv, ArtifactIsStream
  <2> QED
    BY <1>1, <2>1, <2>2, NoWorkType, TaskMoves
<1>3. CASE CancelTask(t)
  <2>1. /\ state' \in [Tasks -> {"none", "submitted", "working", "input_required", "completed",
                                 "canceled"}]
        /\ state'[t] = "canceled" /\ \A s \in Tasks \ {t} : state'[s] = state[s]
        /\ work' = [work EXCEPT ![t] = work[t]]
    BY <1>1, <1>3 DEF CancelTask, A2AInv, A2ATypes
  <2>2. work[t].on /\ work[t].told # Blocks =>
          \E f : IsStart(heard[t], f) /\ work[t].told = Since(heard[t], f)
    BY DEF A2AInv, Collected
  <2> QED
    BY <1>1, <2>1, <2>2, TaskMoves
<1> QED
  BY <1>2, <1>3

LEMMA InitA2AInv == InitA2A => A2AInv
<1> SUFFICES ASSUME InitA2A PROVE A2AInv
  OBVIOUS
<1>1. A2ATypes
  BY NoWorkType, EmptySeq DEF InitA2A, A2ATypes
<1>2. Collected /\ ArtifactIsStream
  BY NoWorkType DEF InitA2A, Collected, ArtifactIsStream
<1> QED
  BY <1>1, <1>2 DEF A2AInv

LEMMA NextA2AInv == A2AInv /\ [NextA2A]_a2aVars => A2AInv'
<1> SUFFICES ASSUME A2AInv, [NextA2A]_a2aVars PROVE A2AInv'
  OBVIOUS
<1>1. CASE ReloadGraph \/ OpenApp
  BY <1>1 DEF ReloadGraph, OpenApp, A2AInv, A2ATypes, Collected, ArtifactIsStream
<1>2. CASE UNCHANGED a2aVars
  BY <1>2 DEF a2aVars, A2AInv, A2ATypes, Collected, ArtifactIsStream
<1> QED
  BY <1>1, <1>2, StartWorkStep, PieceStep, WholeStep, InterruptStep, CompleteStep, WorkStopsStep
     DEF NextA2A

-------------------------------------------------------------------------------
(* Tasks: theorem.                                                           *)

\* The artifact of a completed task is what its last execution streamed, however
\* executions, interrupts and cancellations of it alternate (a2a/executor.py).
THEOREM ArtifactsAreStreams == A2ASpec => []ArtifactIsStream
<1>1. A2AInv => ArtifactIsStream
  BY DEF A2AInv
<1> QED
  BY <1>1, InitA2AInv, NextA2AInv, PTL DEF A2ASpec

-------------------------------------------------------------------------------
(* Assistants: the inductive invariant.                                      *)
AssistantsSpec == InitAssistants /\ [][NextAssistants]_assistantVars

Call == [op : {"none", "create", "update", "latest", "delete"},
         step : {"none", "insert", "version", "apply", "remove"},
         id : Ids \union Graphs \union {Nothing}, content : Contents \union {Nothing},
         version : Nat, alone : BOOLEAN]

AssistantTypes ==
  /\ assistant \in [Ids -> Assistant \union {Nothing}]
  /\ kept \in [Ids -> [Versions -> Contents \union {Nothing}]]
  /\ call \in [Writers -> Call]

\* What a request is about to write.  The row of a creation that nobody disturbed
\* is as it was inserted, or has been changed under a version that was gone.
Created(c) ==
  /\ Exists(c.id)
  /\ c.id \in loose \/ assistant[c.id] = [content |-> c.content, version |-> 1]
Known(c) ==
  /\ c.op = "create" => c.id \in Ids /\ c.content \in Contents
  /\ c.op = "update" => c.content \in Contents /\ (c.id \in Ids => c.version \in Versions)
  /\ c.step = "apply" => c.id \in Ids /\ c.version \in Versions /\ c.content \in Contents
  /\ c.op = "delete" => c.id \in Ids
  /\ c.op = "create" /\ c.step = "version" /\ c.alone => Created(c)
CallsKnown == \A r \in Writers : Known(call[r])

NoneKept == \A i \in Ids : ~Exists(i) => kept[i] = NoVersions

\* The version of an assistant is there, except the first one of a new row.
Holds(i) ==
  LET a == assistant[i] IN
    kept[i][a.version] = a.content \/ (a.version = 1 /\ kept[i][1] = Nothing)
Held == \A i \in Ids : Exists(i) /\ i \notin loose => Holds(i)

AssistantInv == AssistantTypes /\ CallsKnown /\ NoneKept /\ Held

LEMMA FirstVersion ==
  ASSUME NEW i \in Ids
  PROVE  1 \in Versions /\ \A v \in 1..Last[i] : v \in Versions
  BY LastAssumption DEF Versions

\* What a row, or nothing, is.
LEMMA Rowed ==
  ASSUME AssistantTypes, NEW i \in Ids
  PROVE  /\ Exists(i) => /\ assistant[i] \in Assistant /\ assistant[i].content \in Contents
                         /\ assistant[i].version \in Versions
         /\ kept[i] \in [Versions -> Contents \union {Nothing}]
         /\ Nothing \notin Contents
  BY NothingAssumption DEF AssistantTypes, Exists, Assistant

\* The requests that do not move: a creation of a row outside K is not disturbed.
Undisturbed(i) ==
  /\ Exists(i) => Exists(i)'
  /\ i \in loose => i \in loose'
  /\ assistant'[i] = assistant[i] \/ i \in loose'
Goes(x, K) ==
  /\ call'[x].op = call[x].op /\ call'[x].step = call[x].step /\ call'[x].id = call[x].id
  /\ call'[x].content = call[x].content /\ call'[x].version = call[x].version
  /\ call'[x].alone => call[x].alone /\ call[x].id \notin K

LEMMA OthersKnown ==
  ASSUME AssistantTypes, CallsKnown, NEW W, NEW K,
         \A x \in Writers \ W : Goes(x, K),
         \A x \in Writers \intersect W : Known(call[x])',
         \A i \in Ids \ K : Undisturbed(i)
  PROVE  CallsKnown'
<1> SUFFICES ASSUME NEW x \in Writers \ W PROVE Known(call[x])'
  BY DEF CallsKnown
<1>1. Known(call[x]) /\ Goes(x, K)
  BY DEF CallsKnown
<1>2. ASSUME call[x].op = "create", call[x].step = "version", call'[x].alone
      PROVE  Created(call[x])'
  <2>1. call[x].id \in Ids \ K /\ Created(call[x])
    BY <1>1, <1>2 DEF Known, Goes
  <2>2. Undisturbed(call[x].id)
    BY <2>1
  <2> QED
    BY <1>1, <2>1, <2>2 DEF Created, Undisturbed, Goes, Exists
<1> QED
  BY <1>1, <1>2 DEF Known, Goes

\* All but one of them.
LEMMA OthersKnownBut ==
  ASSUME AssistantTypes, CallsKnown, NEW r \in Writers, NEW K,
         \A x \in Writers \ {r} : Goes(x, K),
         Known(call[r])',
         \A i \in Ids \ K : Undisturbed(i)
  PROVE  CallsKnown'
<1>1. \A x \in Writers \intersect {r} : Known(call[x])'
  OBVIOUS
<1> QED
  BY <1>1, OthersKnown

LEMMA CallStarts ==
  ASSUME AssistantTypes, NEW r \in Writers, NEW c \in Call, Starts(r, c)
  PROVE  /\ call' \in [Writers -> Call] /\ call'[r] = c
         /\ \A x \in Writers \ {r} : Goes(x, {})
  BY DEF AssistantTypes, Starts, Goes

LEMMA CallWent ==
  ASSUME AssistantTypes, NEW r \in Writers, NEW c \in Call, NEW k, Went(r, c, k)
  PROVE  /\ call' \in [Writers -> Call] /\ call'[r] = c
         /\ \A x \in Writers \ {r} : Goes(x, {k})
<1>1. \A x \in Writers : call[x] \in Call
  BY DEF AssistantTypes
<1>2. \A x \in Writers : [call[x] EXCEPT !.alone = @ /\ call[x].id # k] \in Call
  BY <1>1 DEF Call
<1>3. call' = [x \in Writers |-> IF x = r THEN c
                               ELSE [call[x] EXCEPT !.alone = @ /\ call[x].id # k]]
  BY DEF Went
<1>4. \A x \in Writers \ {r} : call'[x] = [call[x] EXCEPT !.alone = @ /\ call[x].id # k]
  BY <1>3
<1> QED
  BY <1>1, <1>2, <1>3, <1>4 DEF Call, Goes

LEMMA NoCallType == NoCall \in Call /\ NoCall.op = "none" /\ NoCall.step = "none"
  BY DEF NoCall, Call

\* A request that changes nothing yet, or gives up.
LEMMA OnlyCalls ==
  ASSUME AssistantInv, NEW r \in Writers, NEW c \in Call, Starts(r, c), Nowhere, Known(c)
  PROVE  AssistantInv'
<1> USE DEF AssistantInv
<1>1. /\ call' \in [Writers -> Call] /\ call'[r] = c
      /\ \A x \in Writers \ {r} : Goes(x, {})
  BY CallStarts
<1>2. UNCHANGED <<assistant, kept, loose>>
  BY DEF Nowhere
<1>3. \A i \in Ids \ {} : Undisturbed(i)
  BY <1>2 DEF Undisturbed, Exists
<1>4. Known(call[r])'
  BY <1>1, <1>2 DEF Known, Created, Exists
<1>5. CallsKnown'
  BY <1>1, <1>3, <1>4, OthersKnownBut
<1> QED
  BY <1>1, <1>2, <1>5 DEF AssistantTypes, NoneKept, Held, Holds, Exists

LEMMA GivesUp ==
  ASSUME AssistantInv, NEW r \in Writers, Declined(r) \/ Dies(r)
  PROVE  AssistantInv'
  BY NoCallType, OnlyCalls DEF Declined, Dies, Known

-------------------------------------------------------------------------------
(* Assistants: every action keeps it.                                        *)
LEMMA LooksStep ==
  ASSUME AssistantInv, NEW r \in Writers,
         FindExisting(r) \/ ReadVersion(r) \/ ReadLatest(r) \/ FindVictim(r)
  PROVE  AssistantInv'
<1> USE DEF AssistantInv
<1>1. CASE FindExisting(r)
  <2>1. PICK i \in Ids, d \in Contents :
          Starts(r, [NoCall EXCEPT !.op = "create", !.step = "insert", !.id = i, !.content = d])
    BY <1>1 DEF FindExisting
  <2> DEFINE c == [NoCall EXCEPT !.op = "create", !.step = "insert", !.id = i, !.content = d]
  <2>2. /\ c \in Call /\ c.op = "create" /\ c.step = "insert" /\ c.id = i /\ c.content = d
    BY DEF NoCall, Call
  <2> HIDE DEF c
  <2>3. Known(c)
    BY <2>2 DEF Known
  <2> QED
    BY <1>1, <2>1, <2>2, <2>3, OnlyCalls DEF FindExisting, c
<1>2. CASE ReadVersion(r)
  <2>1. PICK k \in Ids \union Graphs, d \in Contents :
          /\ k \in Ids => NewVersion(k) \in 1..Last[k]
          /\ Starts(r, [NoCall EXCEPT !.op = "update", !.step = "version", !.id = k,
                                      !.content = d, !.version = NewVersion(k)])
    BY <1>2 DEF ReadVersion
  <2> DEFINE c == [NoCall EXCEPT !.op = "update", !.step = "version", !.id = k,
                                 !.content = d, !.version = NewVersion(k)]
  <2>2. NewVersion(k) \in Nat /\ (k \in Ids => NewVersion(k) \in Versions)
    <3>1. CASE k \in Ids
      BY <2>1, <3>1, FirstVersion, LastAssumption
    <3>2. CASE k \notin Ids
      BY <3>2 DEF NewVersion, VersionsOf
    <3> QED
      BY <3>1, <3>2
  <2>3. /\ c \in Call /\ c.op = "update" /\ c.step = "version" /\ c.id = k /\ c.content = d
        /\ c.version = NewVersion(k)
    BY <2>2 DEF NoCall, Call
  <2> HIDE DEF c
  <2>4. Known(c)
    BY <2>2, <2>3 DEF Known
  <2> QED
    BY <1>2, <2>1, <2>3, <2>4, OnlyCalls DEF ReadVersion, c
<1>3. CASE ReadLatest(r)
  <2>1. PICK i \in Ids, v \in Versions :
          /\ kept[i][v] # Nothing
          /\ Starts(r, [NoCall EXCEPT !.op = "latest", !.step = "apply", !.id = i,
                                      !.content = kept[i][v], !.version = v])
    BY <1>3 DEF ReadLatest, VersionsOf
  <2> DEFINE c == [NoCall EXCEPT !.op = "latest", !.step = "apply", !.id = i,
                                 !.content = kept[i][v], !.version = v]
  <2>2. kept[i][v] \in Contents /\ v \in Nat
    <3>1. kept[i] \in [Versions -> Contents \union {Nothing}]
      BY <2>1, Rowed
    <3>2. v \in Nat
      BY <2>1, LastAssumption DEF Versions
    <3> QED
      BY <2>1, <3>1, <3>2
  <2>3. /\ c \in Call /\ c.op = "latest" /\ c.step = "apply" /\ c.id = i /\ c.content = kept[i][v]
        /\ c.version = v
    BY <2>2 DEF NoCall, Call
  <2> HIDE DEF c
  <2>4. Known(c)
    BY <2>2, <2>3 DEF Known
  <2> QED
    BY <1>3, <2>1, <2>3, <2>4, OnlyCalls DEF ReadLatest, c
<1>4. CASE FindVictim(r)
  <2>1. PICK i \in Ids :
          Starts(r, [NoCall EXCEPT !.op = "delete", !.step = "remove", !.id = i])
    BY <1>4 DEF FindVictim, Matching
  <2> DEFINE c == [NoCall EXCEPT !.op = "delete", !.step = "remove", !.id = i]
  <2>2. c \in Call /\ c.op = "delete" /\ c.step = "remove" /\ c.id = i
    BY DEF NoCall, Call
  <2> HIDE DEF c
  <2>3. Known(c)
    BY <2>2 DEF Known
  <2> QED
    BY <1>4, <2>1, <2>2, <2>3, OnlyCalls DEF FindVictim, c
<1> QED
  BY <1>1, <1>2, <1>3, <1>4

\* A new row claims version 1 and has no versions.
LEMMA InsertAssistantStep ==
  ASSUME AssistantInv, NEW r \in Writers, InsertAssistant(r)
  PROVE  AssistantInv'
<1> USE DEF AssistantInv
<1> DEFINE i == call[r].id
           a == [content |-> call[r].content, version |-> 1]
           c == [call[r] EXCEPT !.step = "version"]
<1>1. /\ call[r] \in Call /\ call[r].op = "create" /\ i \in Ids /\ call[r].content \in Contents
  BY DEF InsertAssistant, Is, AssistantTypes, CallsKnown, Known
<1>2. CASE Declined(r)
  BY <1>2, GivesUp
<1>3. CASE /\ ~Exists(i) /\ assistant' = [assistant EXCEPT ![i] = a]
           /\ Went(r, c, i) /\ UNCHANGED <<kept, loose>>
  <2>1. a \in Assistant /\ a # Nothing /\ a.version = 1 /\ a.content = call[r].content
    BY <1>1, FirstVersion, NothingAssumption DEF Assistant
  <2>2. /\ c \in Call /\ c.op = "create" /\ c.step = "version" /\ c.id = i
        /\ c.content = call[r].content
    BY <1>1 DEF Call
  <2>3. a = [content |-> c.content, version |-> 1]
    BY <2>2
  <2> HIDE DEF a, c, i
  <2>4. /\ call' \in [Writers -> Call] /\ call'[r] = c
        /\ \A x \in Writers \ {r} : Goes(x, {i})
    BY <1>3, <2>2, CallWent
  <2>5. /\ assistant' \in [Ids -> Assistant \union {Nothing}] /\ assistant'[i] = a
        /\ \A j \in Ids \ {i} : assistant'[j] = assistant[j]
    BY <1>1, <1>3, <2>1 DEF AssistantTypes
  <2>6. Known(call[r])'
    BY <1>1, <2>1, <2>2, <2>3, <2>4, <2>5 DEF Known, Created, Exists
  <2>7. \A j \in Ids \ {i} : Undisturbed(j)
    BY <1>3, <2>5 DEF Undisturbed, Exists
  <2>8. CallsKnown'
    BY <2>4, <2>6, <2>7, OthersKnownBut
  <2>9. kept[i] = NoVersions /\ 1 \in Versions
    BY <1>1, <1>3, FirstVersion DEF NoneKept
  <2>10. NoneKept'
    BY <1>3, <2>5 DEF NoneKept, Exists
  <2>11. Held'
    BY <1>3, <2>1, <2>5, <2>9 DEF Held, Holds, Exists, NoVersions
  <2> QED
    BY <1>3, <2>4, <2>5, <2>8, <2>10, <2>11 DEF AssistantTypes
<1> QED
  BY <1>2, <1>3 DEF InsertAssistant

\* A version that is stored and does not touch what assistant i claims.
LEMMA Stored ==
  ASSUME AssistantInv, NEW r \in Writers, NEW i \in Ids, NEW v \in Versions,
         NEW d \in Contents, NEW c \in Call,
         Exists(i), kept[i][v] = Nothing,
         kept' = [kept EXCEPT ![i][v] = d], Went(r, c, i), UNCHANGED assistant,
         loose' = loose \/ loose' = loose \union {i},
         Known(c)',
         v = 1 /\ i \notin loose' => assistant[i] = [content |-> d, version |-> 1]
  PROVE  AssistantInv'
<1> USE DEF AssistantInv
<1>1. /\ call' \in [Writers -> Call] /\ call'[r] = c
      /\ \A x \in Writers \ {r} : Goes(x, {i})
  BY CallWent
<1>2. \A j \in Ids \ {i} : Undisturbed(j)
  BY DEF Undisturbed, Exists
<1>3. Known(call[r])'
  BY <1>1 DEF Known, Created, Exists
<1>4. CallsKnown'
  BY <1>1, <1>2, <1>3, OthersKnownBut
<1>5. kept[i] \in [Versions -> Contents \union {Nothing}]
  BY Rowed
<1>6. /\ kept' \in [Ids -> [Versions -> Contents \union {Nothing}]]
      /\ \A j \in Ids \ {i} : kept'[j] = kept[j]
      /\ kept'[i][v] = d /\ \A w \in Versions \ {v} : kept'[i][w] = kept[i][w]
  BY <1>5 DEF AssistantTypes
<1>7. NoneKept'
  BY <1>6 DEF NoneKept, Exists
<1>8. ASSUME NEW j \in Ids, Exists(j), j \notin loose' PROVE Holds(j)'
  <2>1. Holds(j)
    BY <1>8 DEF Held
  <2>2. CASE j # i
    BY <1>6, <2>1, <2>2 DEF Holds
  <2>3. CASE j = i
    <3>1. /\ assistant[i].version \in Versions /\ assistant[i].content \in Contents
          /\ Nothing \notin Contents /\ 1 \in Versions
      BY Rowed, FirstVersion
    <3>2. CASE v = 1
      BY <1>6, <1>8, <2>3, <3>2 DEF Holds
    <3>3. CASE v # 1
      <4>1. assistant[i].version # v
        BY <2>1, <2>3, <3>1, <3>3 DEF Holds
      <4> QED
        BY <1>6, <2>1, <2>3, <3>1, <3>3, <4>1 DEF Holds
    <3> QED
      BY <3>2, <3>3
  <2> QED
    BY <2>2, <2>3
<1>9. Held'
  BY <1>8 DEF Held, Exists
<1> QED
  BY <1>1, <1>4, <1>6, <1>7, <1>9 DEF AssistantTypes

LEMMA InsertFirstVersionStep ==
  ASSUME AssistantInv, NEW r \in Writers, InsertFirstVersion(r)
  PROVE  AssistantInv'
<1> DEFINE i == call[r].id
<1>1. /\ call[r].op = "create" /\ call[r].step = "version" /\ i \in Ids
      /\ call[r].content \in Contents /\ (call[r].alone => Created(call[r]))
  BY DEF InsertFirstVersion, Is, AssistantInv, CallsKnown, Known
<1>2. CASE Declined(r)
  BY <1>2, GivesUp
<1>3. CASE /\ Exists(i) /\ kept[i][1] = Nothing
           /\ kept' = [kept EXCEPT ![i][1] = call[r].content]
           /\ loose' = IF call[r].alone THEN loose ELSE loose \union {i}
           /\ Went(r, NoCall, i) /\ UNCHANGED assistant
  <2>1. 1 \in Versions /\ Known(NoCall)'
    BY <1>1, FirstVersion, NoCallType DEF Known
  <2>2. i \notin loose' => assistant[i] = [content |-> call[r].content, version |-> 1]
    BY <1>1, <1>3 DEF Created
  <2> QED
    BY <1>1, <1>3, <2>1, <2>2, NoCallType, Stored
<1> QED
  BY <1>2, <1>3 DEF InsertFirstVersion

LEMMA InsertVersionStep ==
  ASSUME AssistantInv, NEW r \in Writers, InsertVersion(r)
  PROVE  AssistantInv'
<1> DEFINE k == call[r].id
           v == call[r].version
<1>1. /\ call[r] \in Call /\ call[r].op = "update" /\ call[r].content \in Contents
      /\ k \in Ids => v \in Versions
  BY DEF InsertVersion, Is, AssistantInv, AssistantTypes, CallsKnown, Known
<1>2. CASE Declined(r)
  BY <1>2, GivesUp
<1>3. CASE /\ k \in Ids /\ Exists(k) /\ kept[k][v] = Nothing
           /\ kept' = [kept EXCEPT ![k][v] = call[r].content]
           /\ loose' = IF v = 1 THEN loose \union {k} ELSE loose
           /\ Went(r, [call[r] EXCEPT !.step = "apply"], k) /\ UNCHANGED assistant
  <2> PICK c : c = [call[r] EXCEPT !.step = "apply"]
    OBVIOUS
  <2>1. /\ c \in Call /\ c.op = "update" /\ c.step = "apply" /\ c.id = k /\ c.version = v
        /\ c.content = call[r].content
    BY <1>1 DEF Call
  <2>2. Known(c)'
    BY <1>1, <1>3, <2>1 DEF Known
  <2>3. v = 1 => k \in loose'
    BY <1>3
  <2> QED
    BY <1>1, <1>3, <2>1, <2>2, <2>3, Stored
<1> QED
  BY <1>2, <1>3 DEF InsertVersion

\* The UPDATE: two rows would have the same content, so it reaches one row; if the
\* version is still there that is the row of the version.
LEMMA ApplyStep ==
  ASSUME AssistantInv, NEW r \in Writers, Apply(r)
  PROVE  AssistantInv'
<1> USE DEF AssistantInv
<1> DEFINE k == call[r].id
           v == call[r].version
           d == call[r].content
           a == [content |-> d, version |-> v]
           touched == Matching(k)
           rows == [i \in Ids |-> IF i \in touched THEN a ELSE assistant[i]]
           lost == kept[k][v] # d
<1>1. k \in Ids /\ v \in Versions /\ d \in Contents
  BY DEF Apply, CallsKnown, Known
<1>2. /\ call' \in [Writers -> Call] /\ call'[r] = NoCall
      /\ \A x \in Writers \ {r} : Goes(x, {k})
  BY NoCallType, CallWent DEF Apply
<1>3. Known(call[r])'
  BY <1>2, NoCallType DEF Known
<1>4. CASE UNCHANGED <<assistant, kept, loose>>
  <2>1. \A i \in Ids : Undisturbed(i)
    BY <1>4 DEF Undisturbed, Exists
  <2>2. CallsKnown'
    BY <1>2, <1>3, <2>1, OthersKnownBut
  <2> QED
    BY <1>2, <1>4, <2>2 DEF AssistantTypes, NoneKept, Held, Holds, Exists
<1>5. CASE /\ Distinct(rows) /\ assistant' = rows /\ UNCHANGED kept
           /\ loose' = IF lost THEN loose \union touched ELSE loose \ touched
  <2>1. a \in Assistant /\ a # Nothing /\ a.content = d /\ a.version = v
    BY <1>1, NothingAssumption DEF Assistant
  <2>2. touched \subseteq Ids /\ (Exists(k) => k \in touched) /\ \A i \in touched : Exists(i)
    BY <1>1 DEF Matching
  <2>3. \A i, j \in touched : i = j
    <3>1. \A i \in touched : rows[i] = a
      BY <2>2
    <3> QED
      BY <1>5, <2>1, <2>2, <3>1 DEF Distinct
  <2>4. ~lost => k \in touched
    <3>1. kept[k][v] # Nothing => Exists(k)
      BY <1>1 DEF NoneKept, NoVersions
    <3> QED
      BY <1>1, <2>2, <3>1, Rowed
  <2>5. /\ assistant' \in [Ids -> Assistant \union {Nothing}]
        /\ \A i \in touched : assistant'[i] = a
        /\ \A i \in Ids \ touched : assistant'[i] = assistant[i]
    BY <1>5, <2>1, <2>2 DEF AssistantTypes
  <2>6. \A i \in Ids : Exists(i)' = Exists(i)
    BY <2>1, <2>2, <2>5 DEF Exists
  <2> HIDE DEF touched, rows, a
  <2>7. \A i \in Ids \ {k} : Undisturbed(i)
    BY <1>5, <2>3, <2>4, <2>5, <2>6 DEF Undisturbed
  <2>8. CallsKnown'
    BY <1>2, <1>3, <2>7, OthersKnownBut
  <2>9. NoneKept'
    BY <1>5, <2>6 DEF NoneKept
  <2>10. ASSUME NEW i \in Ids, Exists(i), i \notin loose' PROVE Holds(i)'
    <3>1. CASE i \notin touched
      <4>1. i \notin loose /\ assistant'[i] = assistant[i]
        BY <1>5, <2>5, <2>10, <3>1
      <4> QED
        BY <1>5, <2>10, <4>1 DEF Held, Holds
    <3>2. CASE i \in touched
      <4>1. ~lost
        BY <1>5, <2>10, <3>2
      <4>2. i = k
        BY <2>3, <2>4, <3>2, <4>1
      <4> QED
        BY <1>5, <2>1, <2>5, <3>2, <4>1, <4>2 DEF Holds
    <3> QED
      BY <3>1, <3>2
  <2>11. Held'
    BY <2>6, <2>10 DEF Held
  <2> QED
    BY <1>2, <1>5, <2>5, <2>8, <2>9, <2>11 DEF AssistantTypes
<1> QED
  BY <1>4, <1>5 DEF Apply, Values

\* Rows go, with their versions.
LEMMA Removed ==
  ASSUME AssistantInv, NEW gone, Remove(gone), NEW W, call' \in [Writers -> Call],
         \A x \in Writers \ W : Goes(x, gone),
         \A x \in Writers \intersect W : Known(call[x])'
  PROVE  AssistantInv'
<1> USE DEF AssistantInv
<1>1. /\ \A i \in Ids : i \in gone => assistant'[i] = Nothing /\ kept'[i] = NoVersions
      /\ \A i \in Ids \ gone : assistant'[i] = assistant[i] /\ kept'[i] = kept[i]
      /\ assistant' \in [Ids -> Assistant \union {Nothing}]
      /\ loose' = loose \ gone
  BY DEF Remove, AssistantTypes
<1>2. kept' \in [Ids -> [Versions -> Contents \union {Nothing}]]
  BY DEF Remove, AssistantTypes, NoVersions
<1>3. \A i \in Ids \ gone : Undisturbed(i)
  BY <1>1 DEF Undisturbed, Exists
<1>4. CallsKnown'
  BY <1>3, OthersKnown
<1>5. NoneKept' /\ Held'
  BY <1>1 DEF NoneKept, Held, Holds, Exists, NoVersions
<1> QED
  BY <1>1, <1>2, <1>4, <1>5 DEF AssistantTypes

LEMMA DeleteAssistantStep ==
  ASSUME AssistantInv, NEW r \in Writers, DeleteAssistant(r)
  PROVE  AssistantInv'
<1>1. /\ call' \in [Writers -> Call] /\ call'[r] = NoCall
      /\ \A x \in Writers \ {r} : Goes(x, {call[r].id})
  BY NoCallType, CallWent DEF AssistantInv, DeleteAssistant
<1>2. Known(call[r])'
  BY <1>1, NoCallType DEF Known
<1>3. Remove({call[r].id})
  BY DEF DeleteAssistant
<1>4. \A x \in Writers \intersect {r} : Known(call[x])'
  BY <1>2
<1> QED
  BY <1>1, <1>3, <1>4, Removed

LEMMA ClearExternalRowsStep ==
  ASSUME AssistantInv, ClearExternalRows
  PROVE  AssistantInv'
<1>1. \A x \in Writers : call[x] \in Call
  BY DEF AssistantInv, AssistantTypes
<1>2. call' = [x \in Writers |-> [call[x] EXCEPT !.alone = @ /\ call[x].id \notin ExternalRows]]
  BY DEF ClearExternalRows
<1>3. \A x \in Writers : [call[x] EXCEPT !.alone = @ /\ call[x].id \notin ExternalRows] \in Call
  BY <1>1 DEF Call
<1>4. call' \in [Writers -> Call] /\ \A x \in Writers \ {} : Goes(x, ExternalRows)
  BY <1>1, <1>2, <1>3 DEF Call, Goes
<1>6. \A x \in Writers \intersect {} : Known(call[x])'
  OBVIOUS
<1>5. Remove(ExternalRows)
  BY DEF ClearExternalRows
<1> QED
  BY <1>4, <1>5, <1>6, Removed

LEMMA InitAssistantInv == InitAssistants => AssistantInv
<1> SUFFICES ASSUME InitAssistants PROVE AssistantInv
  OBVIOUS
<1>1. \A r \in Writers : call[r] = NoCall
  BY DEF InitAssistants
<1>2. \A i \in Ids : ~Exists(i) /\ kept[i] = NoVersions
  BY DEF InitAssistants, Exists
<1>3. AssistantTypes
  BY NoCallType DEF InitAssistants, AssistantTypes, NoVersions
<1>4. CallsKnown
  BY <1>1, NoCallType DEF CallsKnown, Known
<1> QED
  BY <1>2, <1>3, <1>4 DEF AssistantInv, NoneKept, Held

LEMMA NextAssistantInv == AssistantInv /\ [NextAssistants]_assistantVars => AssistantInv'
<1> SUFFICES ASSUME AssistantInv, [NextAssistants]_assistantVars PROVE AssistantInv'
  OBVIOUS
<1>1. CASE NextAssistants
  BY <1>1, LooksStep, InsertAssistantStep, InsertFirstVersionStep, InsertVersionStep, ApplyStep,
     DeleteAssistantStep, GivesUp, ClearExternalRowsStep DEF NextAssistants
<1>2. CASE UNCHANGED assistantVars
  BY <1>2 DEF assistantVars, AssistantInv, AssistantTypes, CallsKnown, Known, Created,
     NoneKept, Held, Holds, Exists
<1> QED
  BY <1>1, <1>2

-------------------------------------------------------------------------------
(* Assistants: theorem.                                                      *)

\* An assistant shows the content of the version it claims to be at, for any
\* number of requests that overlap (update_assistant, set_assistant_latest).
THEOREM AssistantsShowTheirVersion == AssistantsSpec => []ContentOfVersion
<1>1. AssistantInv => ContentOfVersion
  BY DEF AssistantInv, Held, Holds, ContentOfVersion
<1> QED
  BY <1>1, InitAssistantInv, NextAssistantInv, PTL DEF AssistantsSpec

-------------------------------------------------------------------------------
(* The registry of graphs: the inductive invariant.                          *)
RegistrySpec == InitRegistry /\ [][NextRegistry]_registryVars

ReloadType ==
  [phase : {"none", "rows", "fetch", "load", "ensure", "commit", "register"},
   todo : SUBSET GraphIds, got : SUBSET GraphIds, seen : SUBSET GraphIds,
   size : Nat, adds : SUBSET GraphIds, edits : SUBSET GraphIds,
   boot : BOOLEAN, later : BOOLEAN]

RegistryTypes ==
  /\ registry \subseteq GraphIds /\ offered \subseteq Remote
  /\ failed \in BOOLEAN
  /\ reload \in [Reloads -> ReloadType]

BootsAlone ==
  \A p \in Reloads : reload[p].boot =>
    agents = {} /\ \A x \in Reloads \ {p} : reload[x] = Rest

\* A loop has seen graphs of the dictionary as it is.
Early(p) == reload[p].phase \in {"rows", "fetch", "load"}
SeenThere ==
  \A p \in Reloads :
    /\ reload[p].seen \subseteq registry
    /\ Phase(p, "none") \/ Early(p) => reload[p].seen = {}

AgentsAgree ==
  /\ agents \subseteq registry \ Broken
  /\ failed \/ registry \ Broken \subseteq agents \/ \E p \in Reloads : ~Phase(p, "none")

\* Rows of graphs that are gone are still to be cleared by a transaction.
RowsAgree ==
  failed \/ defaults \subseteq registry
    \/ \E p \in Reloads : Early(p) \/ reload[p].phase \in {"ensure", "commit"}

\* A graph has its default assistant, or a reload is still going to insert it.
Owes(p, g) ==
  \/ Early(p)
  \/ Phase(p, "ensure") /\ (g \notin reload[p].seen \/ g \in reload[p].adds)
  \/ Phase(p, "commit") /\ g \in reload[p].adds
Covered(g) == g \in defaults \/ \E p \in Reloads : Owes(p, g)

AllCovered == failed \/ \A g \in registry : Covered(g)
LoopsCover == \A p \in Reloads : reload[p].later => \A g \in reload[p].seen : Covered(g)

RegistryInv ==
  /\ RegistryTypes /\ BootsAlone /\ SeenThere
  /\ AgentsAgree /\ RowsAgree /\ AllCovered /\ LoopsCover

LEMMA RestType ==
  /\ Rest \in ReloadType
  /\ Rest.phase = "none" /\ Rest.seen = {} /\ ~Rest.boot /\ ~Rest.later
BY DEF Rest, ReloadType

-------------------------------------------------------------------------------
(* The registry: every action keeps it.                                      *)

\* One reload goes on and leaves the tables as they are.
LEMMA ReloadMoves ==
  ASSUME RegistryInv, NEW p \in Reloads, NEW c \in ReloadType, Becomes(p, c),
         UNCHANGED <<registry, agents, defaults, offered, failed>>,
         reload[p].phase # "none",
         c.phase \in {"rows", "fetch", "load", "ensure", "commit"},
         Early(p) \/ Phase(p, "ensure"), c.boot = reload[p].boot,
         c.seen \subseteq registry, c.phase \in {"rows", "fetch", "load"} => c.seen = {},
         \A g \in registry : Owes(p, g) => g \in defaults \/ Owes(p, g)',
         c.later => \A g \in c.seen : Covered(g) \/ Owes(p, g)'
  PROVE  RegistryInv'
<1> USE DEF RegistryInv
<1>1. /\ reload' \in [Reloads -> ReloadType] /\ reload'[p] = c
      /\ \A x \in Reloads \ {p} : reload'[x] = reload[x]
  BY DEF RegistryTypes, Becomes
<1>2. RegistryTypes'
  BY <1>1 DEF RegistryTypes
<1>3. BootsAlone'
  BY <1>1 DEF BootsAlone, Early, Phase, Rest
<1>4. SeenThere'
  BY <1>1 DEF SeenThere, Early, Phase
<1>5. AgentsAgree' /\ RowsAgree'
  BY <1>1 DEF AgentsAgree, RowsAgree, Early, Phase
<1>6. ASSUME NEW g \in registry, Covered(g) PROVE Covered(g)'
  <2>1. ASSUME NEW x \in Reloads \ {p}, Owes(x, g) PROVE Owes(x, g)'
    BY <1>1, <2>1 DEF Owes, Early, Phase
  <2> QED
    BY <1>6, <2>1 DEF Covered
<1>7. AllCovered'
  BY <1>6 DEF AllCovered
<1>8. LoopsCover'
  <2>1. \A x \in Reloads : reload[x].seen \subseteq registry
    BY DEF SeenThere
  <2>2. ASSUME NEW g \in c.seen, c.later PROVE Covered(g)'
    BY <1>6, <2>2 DEF Covered
  <2>3. ASSUME NEW x \in Reloads \ {p}, reload[x].later, NEW g \in reload[x].seen
        PROVE  Covered(g)'
    BY <1>6, <2>1, <2>3 DEF LoopsCover
  <2> QED
    BY <1>1, <2>2, <2>3 DEF LoopsCover
<1> QED
  BY <1>2, <1>3, <1>4, <1>5, <1>7, <1>8

LEMMA StartProcessStep ==
  ASSUME RegistryInv, NEW p \in Reloads, StartProcess(p)
  PROVE  RegistryInv'
<1>1. [Rest EXCEPT !.phase = "rows", !.boot = TRUE] \in ReloadType
  BY DEF Rest, ReloadType
<1>2. /\ reload' \in [Reloads -> ReloadType]
      /\ reload'[p] = [Rest EXCEPT !.phase = "rows", !.boot = TRUE]
      /\ \A x \in Reloads \ {p} : reload'[x] = Rest
  BY <1>1, RestType DEF StartProcess
<1>3. RegistryTypes'
  BY <1>2 DEF StartProcess, RegistryInv, RegistryTypes, GraphIds
<1>4. \A x \in Reloads : reload'[x].seen = {} /\ ~reload'[x].later
  BY <1>2, RestType DEF Rest
<1>5. BootsAlone'
  BY <1>2, RestType DEF StartProcess, BootsAlone
<1> QED
  BY <1>3, <1>4, <1>5 DEF StartProcess, RegistryInv, SeenThere, AgentsAgree, RowsAgree, AllCovered, LoopsCover

LEMMA ClearMemoryStep ==
  ASSUME RegistryInv, NEW p \in Reloads, ClearMemory(p)
  PROVE  RegistryInv'
<1> DEFINE gone == registry \intersect Remote
<1>1. PICK G : G = gone
  OBVIOUS
<1>2. \A x \in Reloads : reload[x] \in ReloadType
  BY DEF RegistryInv, RegistryTypes
<1>3. /\ [Rest EXCEPT !.phase = "rows"] \in ReloadType
      /\ \A x \in Reloads : Forgotten(reload[x], G) \in ReloadType
  BY <1>2 DEF Rest, ReloadType, Forgotten
<1>4. /\ reload' \in [Reloads -> ReloadType]
      /\ reload'[p] = [Rest EXCEPT !.phase = "rows"]
      /\ \A x \in Reloads \ {p} : reload'[x] = Forgotten(reload[x], G)
  BY <1>1, <1>3 DEF ClearMemory
<1>5. /\ Phase(p, "rows")' /\ Early(p)'
      /\ reload'[p].seen = {} /\ ~reload'[p].boot /\ ~reload'[p].later
  BY <1>4 DEF Rest, Phase, Early
<1>6. \A x \in Reloads \ {p} :
        /\ reload'[x].phase = reload[x].phase /\ reload'[x].seen = reload[x].seen \ G
        /\ reload'[x].boot = reload[x].boot /\ ~reload[x].boot
        /\ reload'[x].later = reload[x].later
  <2>1. \A x \in Reloads : ~reload[x].boot
    BY DEF ClearMemory, Running
  <2>2. ASSUME NEW x \in Reloads
        PROVE  LET c == Forgotten(reload[x], G) IN
               /\ c.phase = reload[x].phase /\ c.seen = reload[x].seen \ G
               /\ c.boot = reload[x].boot /\ c.later = reload[x].later
    BY <1>2 DEF Forgotten, ReloadType
  <2> QED
    BY <1>4, <2>1, <2>2
<1>7. RegistryTypes'
  BY <1>4 DEF RegistryInv, RegistryTypes, ClearMemory
<1>8. BootsAlone'
  BY <1>5, <1>6 DEF BootsAlone
<1>9. SeenThere'
  <2>1. registry' = registry \ G
    BY <1>1 DEF ClearMemory
  <2>2. ASSUME NEW x \in Reloads \ {p}
        PROVE  /\ reload'[x].seen \subseteq registry'
               /\ Phase(x, "none")' \/ Early(x)' => reload'[x].seen = {}
    BY <1>6, <2>1 DEF SeenThere, RegistryInv, Phase, Early
  <2> QED
    BY <1>5, <2>2 DEF SeenThere
<1>10. AgentsAgree'
  BY <1>5 DEF AgentsAgree, RegistryInv, ClearMemory, Unregistered, Phase
<1>11. RowsAgree'
  BY <1>5 DEF RowsAgree
<1>12. \A g : Covered(g)'
  BY <1>5 DEF Covered, Owes
<1> QED
  BY <1>7, <1>8, <1>9, <1>10, <1>11, <1>12 DEF RegistryInv, AllCovered, LoopsCover

LEMMA ClearRowsStep ==
  ASSUME RegistryInv, NEW p \in Reloads, ClearRows(p)
  PROVE  RegistryInv'
<1>1. PICK c \in ReloadType : /\ Becomes(p, c) /\ c.phase = "fetch" /\ c.seen = {}
                             /\ c.boot = reload[p].boot
  BY DEF ClearRows, RegistryInv, RegistryTypes, ReloadType, SeenThere, Early, Phase
<1>2. /\ reload' \in [Reloads -> ReloadType] /\ reload'[p] = c
      /\ \A x \in Reloads \ {p} : reload'[x] = reload[x]
  BY <1>1 DEF RegistryInv, RegistryTypes, Becomes
<1>3. Early(p)' /\ ~Phase(p, "none")' /\ ~Phase(p, "none")
  BY <1>1, <1>2 DEF Early, Phase, ClearRows
<1>4. RegistryTypes'
  BY <1>2 DEF RegistryInv, RegistryTypes, ClearRows
<1>5. BootsAlone'
  BY <1>1, <1>2, <1>3 DEF RegistryInv, BootsAlone, ClearRows, Rest, Phase
<1>6. SeenThere'
  BY <1>1, <1>2, <1>3 DEF RegistryInv, SeenThere, Early, Phase, ClearRows
<1>7. AgentsAgree' /\ RowsAgree'
  BY <1>3 DEF RegistryInv, AgentsAgree, RowsAgree, ClearRows
<1>8. \A g : Covered(g)'
  BY <1>3 DEF Covered, Owes
<1> QED
  BY <1>4, <1>5, <1>6, <1>7, <1>8 DEF RegistryInv, AllCovered, LoopsCover

LEMMA LoadsStep ==
  ASSUME RegistryInv, NEW p \in Reloads, FetchAgents(p) \/ FetchAgentConfig(p)
  PROVE  RegistryInv'
<1>1. PICK c \in ReloadType : /\ Becomes(p, c) /\ c.phase = "load" /\ c.seen = {}
                             /\ c.boot = reload[p].boot
  <2>1. reload[p] \in ReloadType /\ offered \subseteq GraphIds /\ Early(p)
    BY DEF RegistryInv, RegistryTypes, GraphIds, FetchAgents, FetchAgentConfig, Early, Phase
  <2>2. reload[p].seen = {}
    BY <2>1 DEF RegistryInv, SeenThere
  <2>3. CASE FetchAgents(p)
    <3>1. PICK list \in {offered, {}} :
            Becomes(p, [reload[p] EXCEPT !.phase = "load", !.todo = list])
      BY <2>3 DEF FetchAgents
    <3>2. LET c == [reload[p] EXCEPT !.phase = "load", !.todo = list] IN
          c \in ReloadType /\ c.phase = "load" /\ c.seen = {} /\ c.boot = reload[p].boot
      BY <2>1, <2>2 DEF ReloadType
    <3> QED
      BY <3>1, <3>2
  <2>4. CASE FetchAgentConfig(p)
    <3>1. PICK g \in reload[p].todo, got \in {TRUE, FALSE} :
            Becomes(p, [reload[p] EXCEPT !.todo = @ \ {g}, !.got = IF got THEN {g} ELSE {}])
      BY <2>4 DEF FetchAgentConfig
    <3>2. Phase(p, "load")
      BY <2>4 DEF FetchAgentConfig
    <3>3. PICK has : has = IF got THEN {g} ELSE {}
      OBVIOUS
    <3>4. has \subseteq GraphIds
      BY <2>1, <3>3 DEF ReloadType
    <3>5. LET c == [reload[p] EXCEPT !.todo = @ \ {g}, !.got = has] IN
          c \in ReloadType /\ c.phase = "load" /\ c.seen = {} /\ c.boot = reload[p].boot
      BY <2>1, <2>2, <3>2, <3>4 DEF ReloadType, Phase
    <3> QED
      BY <3>1, <3>3, <3>5
  <2> QED
    BY <2>3, <2>4
<1>2. reload'[p] = c
  BY <1>1 DEF RegistryInv, RegistryTypes, Becomes
<1>3. Early(p) /\ Early(p)'
  BY <1>1, <1>2 DEF Early, FetchAgents, FetchAgentConfig, Phase
<1>4. \A g : Owes(p, g)'
  BY <1>3 DEF Owes
<1>5. UNCHANGED <<registry, agents, defaults, offered, failed>>
  BY DEF FetchAgents, FetchAgentConfig
<1>6. reload[p].phase # "none"
  BY <1>3 DEF Early
<1> QED
  BY <1>1, <1>3, <1>4, <1>5, <1>6, ReloadMoves

LEMMA LoadGraphStep ==
  ASSUME RegistryInv, NEW p \in Reloads, LoadGraph(p)
  PROVE  RegistryInv'
<1>1. reload[p] \in ReloadType /\ Early(p) /\ Phase(p, "load")
  BY DEF RegistryInv, RegistryTypes, LoadGraph, Phase, Early
<1>2. PICK c \in ReloadType : /\ Becomes(p, c) /\ c.phase = "load" /\ c.seen = {}
                             /\ c.boot = reload[p].boot
  BY <1>1 DEF LoadGraph, ReloadType, Phase, RegistryInv, SeenThere
<1>3. /\ reload' \in [Reloads -> ReloadType] /\ reload'[p] = c
      /\ \A x \in Reloads \ {p} : reload'[x] = reload[x]
  BY <1>2 DEF RegistryInv, RegistryTypes, Becomes
<1>4. Early(p)' /\ ~Phase(p, "none")'
  BY <1>2, <1>3 DEF Early, Phase
<1>5. registry \subseteq registry' /\ registry' \subseteq GraphIds
  <2>1. PICK g \in reload[p].got : \E made \in CreateGraph(g) : registry' = registry \union made
    BY DEF LoadGraph
  <2> QED
    BY <1>1, <2>1 DEF CreateGraph, ReloadType, RegistryInv, RegistryTypes
<1>6. RegistryTypes'
  BY <1>3, <1>5 DEF RegistryInv, RegistryTypes, LoadGraph
<1>7. BootsAlone'
  BY <1>2, <1>3, <1>1 DEF RegistryInv, BootsAlone, LoadGraph, Rest, Phase
<1>8. SeenThere'
  BY <1>2, <1>3, <1>5 DEF RegistryInv, SeenThere, Early, Phase
<1>9. AgentsAgree' /\ RowsAgree'
  BY <1>4, <1>5 DEF RegistryInv, AgentsAgree, RowsAgree, LoadGraph
<1>10. \A g : Covered(g)'
  BY <1>4 DEF Covered, Owes
<1> QED
  BY <1>6, <1>7, <1>8, <1>9, <1>10 DEF RegistryInv, AllCovered, LoopsCover

LEMMA BeginLoopStep ==
  ASSUME RegistryInv, NEW p \in Reloads, BeginLoop(p)
  PROVE  RegistryInv'
<1>1. reload[p] \in ReloadType /\ Early(p) /\ reload[p].phase # "none"
  BY DEF RegistryInv, RegistryTypes, BeginLoop, Phase, Early
<1>2. Cardinality(registry) \in Nat
  <2>1. IsFiniteSet(GraphIds)
    BY FiniteGraphs DEF GraphIds
  <2>2. registry \subseteq GraphIds
    BY DEF RegistryInv, RegistryTypes
  <2> QED
    BY <2>1, <2>2, FS_Subset, FS_CardinalityType
<1>3. PICK c \in ReloadType : /\ Becomes(p, c) /\ c.phase = "ensure" /\ c.seen = {}
                             /\ c.boot = reload[p].boot
  <2>1. PICK n \in Nat : n = Cardinality(registry)
    BY <1>2
  <2>2. Becomes(p, [reload[p] EXCEPT !.phase = "ensure", !.later = TRUE, !.size = n])
    BY <2>1 DEF BeginLoop
  <2>3. reload[p].seen = {}
    BY <1>1 DEF RegistryInv, SeenThere
  <2>4. LET c == [reload[p] EXCEPT !.phase = "ensure", !.later = TRUE, !.size = n] IN
        /\ c \in ReloadType /\ c.phase = "ensure" /\ c.seen = {}
        /\ c.boot = reload[p].boot
    BY <1>1, <2>3 DEF ReloadType
  <2> QED
    BY <2>2, <2>4
<1>4. reload'[p] = c
  BY <1>3 DEF RegistryInv, RegistryTypes, Becomes
<1>5. \A g : Owes(p, g)'
  BY <1>3, <1>4 DEF Owes, Phase
<1>6. UNCHANGED <<registry, agents, defaults, offered, failed>>
  BY DEF BeginLoop
<1> QED
  BY <1>1, <1>3, <1>5, <1>6, ReloadMoves

LEMMA EnsureDefaultStep ==
  ASSUME RegistryInv, NEW p \in Reloads, EnsureDefault(p)
  PROVE  RegistryInv'
<1>1. /\ reload[p] \in ReloadType /\ Phase(p, "ensure") /\ reload[p].phase # "none"
      /\ registry \subseteq GraphIds
  BY DEF RegistryInv, RegistryTypes, EnsureDefault, Phase
<1>2. PICK h \in registry \ reload[p].seen :
        LET c == [reload[p] EXCEPT !.seen = @ \union {h}]
        IN IF h \notin defaults
           THEN Becomes(p, [c EXCEPT !.adds = @ \union {h}])
           ELSE Becomes(p, c) \/ Becomes(p, [c EXCEPT !.edits = @ \union {h}])
  BY DEF EnsureDefault
<1>3. PICK c \in ReloadType :
        /\ Becomes(p, c) /\ c.phase = "ensure" /\ c.seen = reload[p].seen \union {h}
        /\ c.boot = reload[p].boot /\ c.later = reload[p].later
        /\ reload[p].adds \subseteq c.adds /\ h \in defaults \union c.adds
  <2>1. CASE h \notin defaults
    <3>1. PICK c : c = [reload[p] EXCEPT !.seen = @ \union {h}]
      OBVIOUS
    <3>2. /\ c \in ReloadType /\ c.phase = "ensure" /\ c.seen = reload[p].seen \union {h}
          /\ c.boot = reload[p].boot /\ c.later = reload[p].later /\ c.adds = reload[p].adds
      BY <1>1, <3>1 DEF ReloadType, Phase
    <3>3. LET d == [c EXCEPT !.adds = @ \union {h}] IN
          /\ d \in ReloadType /\ d.phase = c.phase /\ d.seen = c.seen
          /\ d.boot = c.boot /\ d.later = c.later /\ d.adds = c.adds \union {h}
      BY <1>1, <3>2 DEF ReloadType
    <3>4. Becomes(p, [c EXCEPT !.adds = @ \union {h}])
      BY <1>2, <2>1, <3>1
    <3> QED
      BY <3>2, <3>3, <3>4
  <2>2. CASE h \in defaults
    BY <1>1, <1>2, <2>2 DEF ReloadType, Phase
  <2> QED
    BY <2>1, <2>2
<1>4. reload'[p] = c
  BY <1>3 DEF RegistryInv, RegistryTypes, Becomes
<1>5. UNCHANGED <<registry, agents, defaults, offered, failed>>
  BY DEF EnsureDefault
<1>6. \A g : Owes(p, g) => g \in defaults \/ Owes(p, g)'
  BY <1>1, <1>3, <1>4 DEF Owes, Phase, Early
<1>7. c.seen \subseteq registry
  BY <1>3, <1>2 DEF RegistryInv, SeenThere
<1>8. c.later => \A g \in c.seen : Covered(g) \/ Owes(p, g)'
  <2>1. Covered(h) \/ Owes(p, h)'
    BY <1>3, <1>4 DEF Covered, Owes, Phase
  <2> QED
    BY <1>3, <2>1 DEF RegistryInv, LoopsCover
<1> QED
  BY <1>1, <1>3, <1>5, <1>6, <1>7, <1>8, ReloadMoves

LEMMA EndLoopStep ==
  ASSUME RegistryInv, NEW p \in Reloads, EndLoop(p)
  PROVE  RegistryInv'
<1>1. reload[p] \in ReloadType /\ Phase(p, "ensure") /\ reload[p].phase # "none"
  BY DEF RegistryInv, RegistryTypes, EndLoop, Phase
<1>2. PICK c \in ReloadType :
        /\ Becomes(p, c) /\ c.phase = "commit" /\ c.seen = reload[p].seen
        /\ c.boot = reload[p].boot /\ c.later = reload[p].later /\ c.adds = reload[p].adds
  BY <1>1 DEF EndLoop, ReloadType
<1>3. reload'[p] = c
  BY <1>2 DEF RegistryInv, RegistryTypes, Becomes
<1>4. UNCHANGED <<registry, agents, defaults, offered, failed>>
  BY DEF EndLoop
<1>5. \A g \in registry : Owes(p, g) => Owes(p, g)'
  BY <1>1, <1>2, <1>3 DEF EndLoop, Owes, Phase, Early
<1>6. c.seen \subseteq registry /\ (c.later => \A g \in c.seen : Covered(g))
  BY <1>2 DEF RegistryInv, SeenThere, LoopsCover
<1> QED
  BY <1>1, <1>2, <1>4, <1>5, <1>6, ReloadMoves

LEMMA FailsStep ==
  ASSUME RegistryInv, NEW p \in Reloads, Fails(p)
  PROVE  RegistryInv'
<1>1. \A x \in Reloads : reload[x] \in ReloadType
  BY DEF RegistryInv, RegistryTypes
<1>2. \A x \in Reloads : [reload[x] EXCEPT !.later = FALSE] \in ReloadType
  BY <1>1 DEF ReloadType
<1>3. /\ reload' \in [Reloads -> ReloadType] /\ reload'[p] = Rest
      /\ \A x \in Reloads \ {p} : reload'[x] = [reload[x] EXCEPT !.later = FALSE]
  BY <1>2, RestType DEF Fails
<1>4. \A x \in Reloads \ {p} :
        /\ reload'[x].phase = reload[x].phase /\ reload'[x].seen = reload[x].seen
        /\ reload'[x].boot = reload[x].boot /\ ~reload'[x].later
        /\ reload[x] = Rest => reload'[x] = Rest
  BY <1>1, <1>3 DEF ReloadType, Rest
<1>5. failed' /\ agents' = agents
  BY DEF Fails
<1>6. RegistryTypes'
  BY <1>3 DEF RegistryInv, RegistryTypes, Fails
<1>7. BootsAlone'
  BY <1>3, <1>4, <1>5, RestType DEF RegistryInv, BootsAlone
<1>8. SeenThere' /\ AgentsAgree'
  <2>1. CASE reload[p].boot
    <3>1. registry' = {} /\ agents = {} /\ \A x \in Reloads : reload'[x].seen = {}
      BY <1>3, <1>4, <2>1, RestType DEF RegistryInv, BootsAlone, Fails
    <3> QED
      BY <1>5, <3>1 DEF SeenThere, AgentsAgree
  <2>2. CASE ~reload[p].boot
    <3>1. registry' = registry
      BY <2>2 DEF Fails
    <3> QED
      BY <1>3, <1>4, <1>5, <3>1, RestType DEF RegistryInv, SeenThere, AgentsAgree, Phase, Early
  <2> QED
    BY <2>1, <2>2
<1>9. LoopsCover'
  BY <1>3, <1>4, RestType DEF LoopsCover
<1> QED
  BY <1>5, <1>6, <1>7, <1>8, <1>9 DEF RegistryInv, RowsAgree, AllCovered

\* The transaction gives every graph it owes an assistant its one; a loop that
\* began after the last failure has made sure of the others.
LEMMA CommitDefaultsStep ==
  ASSUME RegistryInv, NEW p \in Reloads, CommitDefaults(p)
  PROVE  RegistryInv'
<1>1. reload[p] \in ReloadType /\ Phase(p, "commit") /\ registry' = registry
  BY DEF RegistryInv, RegistryTypes, CommitDefaults
<1>2. PICK c \in ReloadType : /\ Becomes(p, c) /\ c.phase = "register"
                             /\ c.seen = reload[p].seen /\ c.boot = reload[p].boot
                             /\ c.later = reload[p].later
  BY <1>1 DEF CommitDefaults, ReloadType
<1>3. /\ reload' \in [Reloads -> ReloadType] /\ reload'[p] = c
      /\ \A x \in Reloads \ {p} : reload'[x] = reload[x]
  BY <1>2 DEF RegistryInv, RegistryTypes, Becomes
<1>4. RegistryTypes'
  BY <1>3 DEF RegistryInv, RegistryTypes, CommitDefaults, Repairs
<1>5. BootsAlone'
  BY <1>1, <1>2, <1>3 DEF RegistryInv, BootsAlone, CommitDefaults, Rest, Phase
<1>6. SeenThere'
  BY <1>1, <1>2, <1>3 DEF RegistryInv, SeenThere, Early, Phase
<1>7. AgentsAgree' /\ RowsAgree'
  BY <1>2, <1>3 DEF RegistryInv, AgentsAgree, RowsAgree, CommitDefaults, Phase
<1>8. ASSUME NEW g \in registry, Covered(g) PROVE Covered(g)'
  <2>1. Owes(p, g) => g \in reload[p].adds
    BY <1>1 DEF Owes, Phase, Early
  <2>2. \A x \in Reloads \ {p} : Owes(x, g) => Owes(x, g)'
    BY <1>3 DEF Owes, Phase, Early
  <2>3. g \in defaults \union reload[p].adds => g \in defaults'
    BY DEF CommitDefaults
  <2> QED
    BY <1>8, <2>1, <2>2, <2>3 DEF Covered
<1>9. AllCovered'
  <2>1. CASE failed'
    BY <2>1 DEF AllCovered
  <2>2. CASE ~failed'
    <3>1. ~failed \/ Repairs(p)
      BY <2>2 DEF CommitDefaults
    <3>2. \A g \in registry : Covered(g)
      BY <3>1 DEF RegistryInv, AllCovered, LoopsCover, Repairs
    <3> QED
      BY <1>1, <1>8, <3>2 DEF AllCovered
  <2> QED
    BY <2>1, <2>2
<1>10. LoopsCover'
  <2>1. \A x \in Reloads : reload'[x].later = reload[x].later /\ reload'[x].seen = reload[x].seen
    BY <1>2, <1>3
  <2>2. \A x \in Reloads : reload[x].seen \subseteq registry
    BY DEF RegistryInv, SeenThere
  <2>3. ASSUME NEW x \in Reloads, reload[x].later, NEW g \in reload[x].seen PROVE Covered(g)'
    BY <1>8, <2>2, <2>3 DEF RegistryInv, LoopsCover
  <2> QED
    BY <2>1, <2>3 DEF LoopsCover
<1> QED
  BY <1>4, <1>5, <1>6, <1>7, <1>9, <1>10 DEF RegistryInv

LEMMA RegisterAgentsStep ==
  ASSUME RegistryInv, NEW p \in Reloads, RegisterAgents(p)
  PROVE  RegistryInv'
<1>1. Phase(p, "register") /\ UNCHANGED <<registry, defaults, offered, failed>>
  BY DEF RegisterAgents
<1>2. /\ reload' \in [Reloads -> ReloadType] /\ reload'[p] = Rest
      /\ \A x \in Reloads \ {p} : reload'[x] = reload[x]
  BY RestType DEF RegisterAgents, RegistryInv, RegistryTypes, Becomes
<1>3. {g \in registry : GetGraph(g)} = registry \ Broken
  BY RemoteAssumption DEF GetGraph, LoadGraphFromFile, RegistryInv, RegistryTypes, GraphIds
<1>4. agents' = registry \ Broken
  BY <1>3 DEF RegisterAgents, Registered, RegistryInv, AgentsAgree
<1>5. RegistryTypes'
  BY <1>1, <1>2 DEF RegistryInv, RegistryTypes
<1>6. BootsAlone'
  BY <1>1, <1>2, RestType DEF RegistryInv, BootsAlone, Phase
<1>7. SeenThere'
  BY <1>1, <1>2, RestType DEF RegistryInv, SeenThere, Phase, Early
<1>8. AgentsAgree'
  BY <1>1, <1>4 DEF AgentsAgree
<1>9. RowsAgree'
  BY <1>1, <1>2 DEF RegistryInv, RowsAgree, Phase, Early
<1>10. ASSUME NEW g, Covered(g) PROVE Covered(g)'
  BY <1>1, <1>2, <1>10 DEF Covered, Owes, Phase, Early
<1>11. AllCovered' /\ LoopsCover'
  BY <1>1, <1>2, <1>10, RestType DEF RegistryInv, AllCovered, LoopsCover
<1> QED
  BY <1>5, <1>6, <1>7, <1>8, <1>9, <1>11 DEF RegistryInv

\* Steps that leave everything but the servers' offer as it is.
LEMMA OffersChange ==
  ASSUME RegistryInv, UNCHANGED <<registry, agents, defaults, reload, failed>>,
         offered' \subseteq Remote
  PROVE  RegistryInv'
<1>1. \A g : Covered(g)' <=> Covered(g)
  BY DEF Covered, Owes, Phase, Early
<1> QED
  BY <1>1 DEF RegistryInv, RegistryTypes, BootsAlone, SeenThere, AgentsAgree, RowsAgree,
     AllCovered, LoopsCover, Phase, Early

LEMMA InitRegistryInv == InitRegistry => RegistryInv
<1> SUFFICES ASSUME InitRegistry PROVE RegistryInv
  OBVIOUS
<1>1. reload \in [Reloads -> ReloadType] /\ \A p \in Reloads : reload[p] = Rest
  BY RestType DEF InitRegistry
<1> QED
  BY <1>1, RestType DEF InitRegistry, RegistryInv, RegistryTypes, BootsAlone, SeenThere, AgentsAgree,
     RowsAgree, AllCovered, LoopsCover

LEMMA NextRegistryInv == RegistryInv /\ [NextRegistry]_registryVars => RegistryInv'
<1> SUFFICES ASSUME RegistryInv, [NextRegistry]_registryVars PROVE RegistryInv'
  OBVIOUS
<1>1. CASE \E p \in Reloads : LoopBreaks(p) \/ RollBackDefaults(p)
  BY <1>1, FailsStep DEF LoopBreaks, RollBackDefaults
<1>2. CASE ServersChange
  BY <1>2, OffersChange DEF ServersChange
<1>3. CASE UNCHANGED registryVars
  BY <1>3, OffersChange DEF registryVars, RegistryInv, RegistryTypes
<1> QED
  BY <1>1, <1>2, <1>3, StartProcessStep, ClearMemoryStep, ClearRowsStep, LoadsStep, LoadGraphStep,
     BeginLoopStep, EnsureDefaultStep, EndLoopStep, CommitDefaultsStep, RegisterAgentsStep
     DEF NextRegistry

-------------------------------------------------------------------------------
(* The registry: theorem.                                                    *)

\* Once the last of any number of overlapping reloads is over, registry, listed
\* agents and default assistants agree, unless one failed and was not repeated
\* (reload_external_sources, _ensure_default_assistants, _register_a2a_agents).
THEOREM RegistryAgrees == RegistrySpec => []CatalogAgrees
<1>1. RegistryInv => CatalogAgrees
  <2> SUFFICES ASSUME RegistryInv, Quiet, ~failed
               PROVE  defaults = registry /\ agents = registry \ Broken
    BY DEF CatalogAgrees
  <2>1. \A p \in Reloads : reload[p].phase = "none"
    BY RestType DEF Quiet
  <2>2. \A g \in registry : g \in defaults
    BY <2>1 DEF RegistryInv, AllCovered, Covered, Owes, Phase, Early
  <2>3. defaults \subseteq registry
    BY <2>1 DEF RegistryInv, RowsAgree, Early
  <2>4. agents = registry \ Broken
    BY <2>1 DEF RegistryInv, AgentsAgree, Phase
  <2> QED
    BY <2>2, <2>3, <2>4
<1> QED
  BY <1>1, InitRegistryInv, NextRegistryInv, PTL DEF RegistrySpec
===============================================================================
