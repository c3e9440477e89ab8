------------------------------- MODULE Limiter -------------------------------
(***************************************************************************)
(* The counters in front of the API, each for one key: the fixed window of *)
(* core/rate_limiter.py and the sliding window of                          *)
(* core/rate_limit_enforcer.py, kept in Redis and shared by all processes, *)
(* and the fixed window in memory of a process that started without Redis. *)
(*                                                                         *)
(* Those in Redis let a request pass when Redis fails: _increment_counter  *)
(* answers 0 instead of raising, and the enforcer is built to fail open.   *)
(* The rule's action is to reject.                                         *)
(***************************************************************************)
EXTENDS Naturals, FiniteSets

CONSTANTS
  Clients,     \* requests in progress at a time: bound of the model
  Limit,       \* requests per window
  Span,        \* length of the sliding window
  Ticks        \* readings of the clock: bound of the model

ASSUME LimitAssumption == Limit \in Nat \ {0}
ASSUME SpanAssumption == Span \in Nat \ {0}
ASSUME TicksAssumption == Ticks \in Nat \ {0}

VARIABLES
  scripted,    \* the Lua scripts could be registered
  hits,        \* the fixed counter, 0 without a key
  hasTtl,      \* the key of the fixed counter has a TTL
  first,       \* requests that have incremented it from 0 and set the TTL next
  ttlLost,     \* history: a TTL was not set
  time,        \* the time
  asking,      \* asking[c]: when request c asked the sliding window, 0 otherwise
  counted,     \* requests that have counted without the script and add themselves next
  log,         \* members of the sorted set: a request's time and a number that
               \* tells it from others of that time
  passed,      \* history: requests that were let pass, in the same way
  excused,     \* history: Redis failed, or two requests overtook one another
  memory       \* the window in memory: where it started and its count

\* Nothing tells numbers above the limit apart: bound of the model.
AtMost(n) == IF n > Limit THEN Limit + 1 ELSE n

fixedVars == <<scripted, hits, hasTtl, first, ttlLost>>
slidingVars == <<time, asking, counted, log, passed, excused, memory>>
limiterVars == <<fixedVars, slidingVars>>

Request == [at : 1..Ticks, no : 1..Limit + 1]

InitLimiter ==
  /\ scripted \in BOOLEAN
  /\ hits = 0 /\ hasTtl = FALSE /\ first = {} /\ ttlLost = FALSE
  /\ time = 1
  /\ asking = [c \in Clients |-> 0] /\ counted = {}
  /\ log = {} /\ passed = {}
  /\ excused = FALSE
  /\ memory = [start |-> 0, count |-> 0]

-----------------------------------------------------------------------------
(* check_limit and _increment_counter.  A refused request counts as well.  *)
Counted == hits' = AtMost(hits + 1)

\* Mutant: the script sets no TTL.
IncrementScripted_NoTtl == scripted /\ Counted /\ UNCHANGED <<scripted, hasTtl, first, ttlLost, slidingVars>>

\* INCR_WITH_EXPIRE_SCRIPT
IncrementScripted ==
  /\ scripted
  /\ Counted
  /\ hasTtl' = (hasTtl \/ hits = 0)
  /\ UNCHANGED <<scripted, first, ttlLost, slidingVars>>

\* Without the script INCR and EXPIRE are two commands.
Increment(c) ==
  /\ ~scripted /\ c \notin first
  /\ Counted
  /\ first' = IF hits = 0 THEN first \union {c} ELSE first
  /\ UNCHANGED <<scripted, hasTtl, ttlLost, slidingVars>>

ExpireKey(c) ==
  /\ c \in first /\ first' = first \ {c}
  /\ hasTtl' = (hits > 0)
  /\ UNCHANGED <<scripted, hits, ttlLost, slidingVars>>

\* Redis fails, or the process dies, between the two.
LoseTtl(c) ==
  /\ c \in first /\ first' = first \ {c}
  /\ ttlLost' = TRUE
  /\ UNCHANGED <<scripted, hits, hasTtl, slidingVars>>

WindowEnds ==
  /\ hasTtl
  /\ hits' = 0 /\ hasTtl' = FALSE /\ ttlLost' = FALSE
  /\ UNCHANGED <<scripted, first, slidingVars>>

\* reset_limit
ResetLimit ==
  /\ hits' = 0 /\ hasTtl' = FALSE /\ ttlLost' = FALSE
  /\ UNCHANGED <<scripted, first, slidingVars>>

-----------------------------------------------------------------------------
(* check_rate_limit and _sliding_window_check.  The time is read before the *)
(* script is sent.                                                          *)
TimePasses ==
  /\ time < Ticks /\ time' = time + 1
  /\ UNCHANGED <<fixedVars, asking, counted, log, passed, excused, memory>>

AskWindow(c) ==
  /\ asking[c] = 0
  /\ asking' = [asking EXCEPT ![c] = time]
  /\ UNCHANGED <<fixedVars, time, counted, log, passed, excused, memory>>

\* One more request of time t, with the first number that is free; those above
\* the limit are not told apart.
Added(requests, t) ==
  requests \union
    {r \in Request : /\ r.at = t /\ r \notin requests
                     /\ \A n \in 1..r.no - 1 : [r EXCEPT !.no = n] \in requests}

\* Mutant: entries at the border of the window are dropped a tick too early.
Outside_Early(t, now) == t + Span <= now + 1

\* ZREMRANGEBYSCORE key -inf (now - window)
Outside(t, now) == t + Span <= now

Kept(now) == {r \in log : ~Outside(r.at, now)}
Room(kept) == Cardinality(kept) < Limit
Overtaken(now) == \E r \in log : r.at > now

\* The request is over; it passes unless the limit for bursts refuses it.
Answered(c) == asking' = [asking EXCEPT ![c] = 0] /\ counted' = counted \ {c}
Passes(now) == passed' \in {passed, Added(passed, now)}

\* SLIDING_WINDOW_CHECK_SCRIPT: old members are removed, the rest is counted,
\* and the request is added if there is room.
CheckWindow(c) ==
  LET now == asking[c] IN
  /\ scripted /\ now # 0
  /\ Answered(c)
  /\ IF Room(Kept(now)) THEN log' = Added(Kept(now), now) /\ Passes(now)
     ELSE log' = Kept(now) /\ UNCHANGED passed
  /\ excused' = (excused \/ Overtaken(now))
  /\ UNCHANGED <<fixedVars, time, memory>>

\* Without the script the count and the addition are commands of their own.
CountWindow(c) ==
  LET now == asking[c] IN
  /\ ~scripted /\ now # 0 /\ c \notin counted
  /\ log' = Kept(now)
  /\ IF Room(Kept(now)) THEN counted' = counted \union {c} /\ UNCHANGED asking
     ELSE Answered(c)
  /\ excused' = (excused \/ Overtaken(now) \/ counted # {})
  /\ UNCHANGED <<fixedVars, time, passed, memory>>

AddToWindow(c) ==
  /\ c \in counted
  /\ log' = Added(log, asking[c])
  /\ Passes(asking[c])
  /\ Answered(c)
  /\ UNCHANGED <<fixedVars, time, excused, memory>>

\* Redis fails and the request passes.
PassUnchecked(c) ==
  /\ asking[c] # 0
  /\ passed' = Added(passed, asking[c])
  /\ Answered(c)
  /\ excused' = TRUE
  /\ UNCHANGED <<fixedVars, time, log, memory>>

\* get_current_usage removes what is old by now, also for a request that is on
\* its way with an earlier time.
ReadUsage ==
  /\ log' = Kept(time)
  /\ excused' = (excused \/ (log' # log /\ \E c \in Clients : asking[c] \in 1..time - 1))
  /\ UNCHANGED <<fixedVars, time, asking, counted, passed, memory>>

\* reset_counter; what has passed before does not count any more.
ResetCounter ==
  /\ log' = {} /\ passed' = {}
  /\ UNCHANGED <<fixedVars, time, asking, counted, excused, memory>>

-----------------------------------------------------------------------------
(* InMemoryRateLimiter: all of it under one lock.                          *)
CheckAndIncrement ==
  LET begins == memory.start = 0 \/ time - memory.start >= Span
      count  == IF begins THEN 1 ELSE AtMost(memory.count + 1) IN
  /\ memory' = [start |-> IF begins THEN time ELSE memory.start, count |-> count]
  /\ passed' = IF count <= Limit THEN Added(passed, time) ELSE passed
  /\ UNCHANGED <<fixedVars, time, asking, counted, log, excused>>

NextFixed ==
  \/ IncrementScripted \/ WindowEnds \/ ResetLimit
  \/ \E c \in Clients : Increment(c) \/ ExpireKey(c) \/ LoseTtl(c)

NextSliding ==
  \/ TimePasses \/ ReadUsage \/ ResetCounter
  \/ \E c \in Clients : \/ AskWindow(c) \/ CheckWindow(c) \/ CountWindow(c) \/ AddToWindow(c)
                         \/ PassUnchecked(c)

NextInMemory == TimePasses \/ CheckAndIncrement

\* Redis expires its keys; a request between its two commands goes on or dies.
LimiterFairness ==
  /\ WF_limiterVars(WindowEnds)
  /\ \A c \in Clients : WF_limiterVars(ExpireKey(c) \/ LoseTtl(c))

-----------------------------------------------------------------------------
\* A client over the limit of the fixed window is let in again some time, unless
\* the key was left without a TTL: then it is refused for good.
Readmitted == hits > Limit ~> hits = 0 \/ ttlLost

\* What has passed in the Span ticks up to t.
Window(t) == {r \in passed : r.at <= t /\ r.at + Span > t}

\* In no window of Span ticks do more than Limit requests pass, unless Redis
\* failed, a request was overtaken by one that had read the clock later, or two
\* overlapped without the script.  The window in memory starts anew with the first
\* request after its end, so that it lets up to twice as many pass.
WithinWindow ==
  \/ excused
  \/ \A t \in 1..Ticks :
       Cardinality(Window(t)) <= IF memory.start = 0 THEN Limit ELSE 2 * Limit
=============================================================================
