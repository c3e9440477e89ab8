--------------------------- MODULE BrowserSessions ----------------------------
(***************************************************************************)
(* The browser containers of chat threads: browser_manager.py, one of its  *)
(* providers, and the tool run_browser_task that uses them.                *)
(*                                                                         *)
(* get_or_create_session holds the manager's lock while it waits for a     *)
(* container; the tool then works for up to five minutes without the lock  *)
(* and starts the removal timer when it is done.  Time is abstract: a      *)
(* session is expired once it was last used INACTIVITY_TTL ago, and a      *)
(* timer's wait for the lock is part of its sleep.                         *)
(***************************************************************************)
EXTENDS Naturals, FiniteSets

CONSTANTS
  ChatThreads,
  Tools,          \* calls of run_browser_task in progress at a time: bound
  Uses,           \* calls in all: bound of the model
  MaxContainers,  \* MAX_CONTAINERS
  Nobody

ASSUME MaxContainersAssumption == MaxContainers \in Nat \ {0}

VARIABLES
  session,      \* session[t]: "none", "unready" or "ready"
  expired,      \* session t was last used INACTIVITY_TTL ago
  timer,        \* timer[t]: cleanup_task of session t: "none", "on", or "behind"
                \* when the session was used since and the timer went on
  stray,        \* a timer for t that no session knows of sleeps
  container,    \* the container of t runs
  tool,         \* tool[c]: step and thread of call c
  holder,       \* the call that holds the lock, or Nobody
  uses,         \* calls so far
  orphans,      \* what cleanup_orphans of this process has still to remove
  sweep,        \* "unloaded" before the manager is imported, "listing", "removing"
  untimed       \* history: session t was left without a timer

browserVars == <<session, expired, timer, stray, container, tool, holder, uses,
                 orphans, sweep, untimed>>

NoUse == [step |-> "idle", thread |-> Nobody, rewait |-> FALSE]

InitBrowser ==
  /\ session = [t \in ChatThreads |-> "none"]
  /\ expired = [t \in ChatThreads |-> FALSE]
  /\ timer = [t \in ChatThreads |-> "none"]
  /\ stray = [t \in ChatThreads |-> FALSE]
  /\ container = [t \in ChatThreads |-> FALSE]
  /\ tool = [c \in Tools |-> NoUse]
  /\ holder = Nobody /\ uses = 0
  /\ orphans = {} /\ sweep = "unloaded"
  /\ untimed = [t \in ChatThreads |-> FALSE]

Sessions == {t \in ChatThreads : session[t] # "none"}
InUse(t) == \E c \in Tools : tool[c].step = "working" /\ tool[c].thread = t
ToolAt(c, step) == tool[c].step = step
MovesOn(c, step) == tool' = [tool EXCEPT ![c].step = step]
Leaves(c) == tool' = [tool EXCEPT ![c] = NoUse]

\* _remove_session_nolock for every thread of `gone': the timers are cancelled,
\* and a container that cannot be removed is only printed.
RemoveSessions(gone) ==
  /\ session' = [t \in ChatThreads |-> IF t \in gone THEN "none" ELSE session[t]]
  /\ timer' = [t \in ChatThreads |-> IF t \in gone THEN "none" ELSE timer[t]]
  /\ untimed' = [t \in ChatThreads |-> untimed[t] /\ t \notin gone]
  /\ \E kept \in SUBSET gone :
       container' = [t \in ChatThreads |-> container[t] /\ (t \in kept \/ t \notin gone)]

-----------------------------------------------------------------------------
(* get_or_create_session.                                                  *)

\* The first call imports the manager, which starts cleanup_orphans.
Begin(c) ==
  /\ ToolAt(c, "idle") /\ uses < Uses /\ uses' = uses + 1
  /\ \E t \in ChatThreads :
       tool' = [tool EXCEPT ![c] = [step |-> "lock", thread |-> t, rewait |-> FALSE]]
  /\ sweep' = IF sweep = "unloaded" THEN "listing" ELSE sweep
  /\ UNCHANGED <<session, expired, timer, stray, container, holder, orphans, untimed>>

\* The session is ready and its container runs.
Reuse(c) ==
  LET t == tool[c].thread IN
  /\ ToolAt(c, "lock") /\ holder = Nobody
  /\ session[t] = "ready" /\ container[t]
  /\ timer' = [timer EXCEPT ![t] = "none"]
  /\ expired' = [expired EXCEPT ![t] = FALSE]
  /\ MovesOn(c, "working")
  /\ UNCHANGED <<session, stray, container, holder, uses, orphans, sweep, untimed>>

\* An earlier call gave up waiting for it.  A timer is not cancelled.
Rewait(c) ==
  LET t == tool[c].thread IN
  /\ ToolAt(c, "lock") /\ holder = Nobody
  /\ session[t] = "unready" /\ container[t]
  /\ holder' = c
  /\ tool' = [tool EXCEPT ![c].step = "waiting", ![c].rewait = TRUE]
  /\ UNCHANGED <<session, expired, timer, stray, container, uses, orphans, sweep, untimed>>

\* There is no session, or its container is gone: the entry is dropped without
\* its timer, expired sessions are removed, and there must be room.
LookForRoom(c) ==
  LET t    == tool[c].thread
      gone == {u \in Sessions : u = t \/ expired[u]} IN
  /\ ToolAt(c, "lock") /\ holder = Nobody
  /\ session[t] = "none" \/ ~container[t]
  /\ RemoveSessions(gone)
  /\ stray' = [stray EXCEPT ![t] = @ \/ timer[t] # "none"]
  /\ IF Cardinality(Sessions \ gone) >= MaxContainers
       THEN Leaves(c) /\ UNCHANGED holder
       ELSE MovesOn(c, "creating") /\ holder' = c
  /\ UNCHANGED <<expired, uses, orphans, sweep>>

\* provider.create_session, after it removed a container of that name.  With
\* Kubernetes the entry is made even if the pod could not be created.
CreateContainer(c) ==
  LET t == tool[c].thread IN
  /\ ToolAt(c, "creating")
  /\ \E runs \in BOOLEAN : container' = [container EXCEPT ![t] = runs]
  /\ session' = [session EXCEPT ![t] = "unready"]
  /\ expired' = [expired EXCEPT ![t] = FALSE]
  /\ MovesOn(c, "waiting")
  /\ UNCHANGED <<timer, stray, holder, uses, orphans, sweep, untimed>>

\* The provider raises, or the tool is cancelled, and the container may come
\* into being all the same: the executor's thread goes on.
CreateFails(c) ==
  LET t == tool[c].thread IN
  /\ ToolAt(c, "creating")
  /\ \E runs \in BOOLEAN : container' = [container EXCEPT ![t] = runs]
  /\ Leaves(c) /\ holder' = Nobody
  /\ UNCHANGED <<session, expired, timer, stray, uses, orphans, sweep, untimed>>

\* _wait_ready; only the second wait for a session renews last_used_at.
Ready(c) ==
  LET t == tool[c].thread IN
  /\ ToolAt(c, "waiting") /\ container[t]
  /\ session' = [session EXCEPT ![t] = "ready"]
  /\ IF tool[c].rewait
       THEN /\ expired' = [expired EXCEPT ![t] = FALSE]
            /\ timer' = [timer EXCEPT ![t] = IF @ = "on" THEN "behind" ELSE @]
       ELSE UNCHANGED <<expired, timer>>
  /\ MovesOn(c, "working") /\ holder' = Nobody
  /\ untimed' = [untimed EXCEPT ![t] = FALSE]
  /\ UNCHANGED <<stray, container, uses, orphans, sweep>>

\* After 60 seconds, or when the tool is cancelled.
GivesUpWaiting(c) ==
  LET t == tool[c].thread IN
  /\ ToolAt(c, "waiting")
  /\ Leaves(c) /\ holder' = Nobody
  /\ untimed' = [untimed EXCEPT ![t] = timer[t] = "none"]
  /\ UNCHANGED <<session, expired, timer, stray, container, uses, orphans, sweep>>

-----------------------------------------------------------------------------
(* The tool's work and the timers.                                         *)

\* Mutant: the timer is not started when the work was cancelled.
EndWork_NoFinally(c) ==
  LET t == tool[c].thread IN
  /\ ToolAt(c, "working") /\ Leaves(c)
  /\ \/ UNCHANGED timer
     \/ timer' = [timer EXCEPT ![t] = IF t \in Sessions THEN "on" ELSE @]
  /\ UNCHANGED <<session, expired, stray, container, holder, uses, orphans, sweep, untimed>>

\* However the work ends: the finally clause starts the timer anew.
EndWork(c) ==
  LET t == tool[c].thread IN
  /\ ToolAt(c, "working") /\ Leaves(c)
  /\ timer' = [timer EXCEPT ![t] = IF t \in Sessions THEN "on" ELSE @]
  /\ untimed' = [untimed EXCEPT ![t] = FALSE]
  /\ UNCHANGED <<session, expired, stray, container, holder, uses, orphans, sweep>>

\* _delayed_cleanup with the lock: a session used since stays.
TimerFires(t) ==
  /\ holder = Nobody
  /\ timer[t] = "behind" \/ (timer[t] = "on" /\ expired[t])
  /\ IF expired[t]
       THEN RemoveSessions({t})
       ELSE timer' = [timer EXCEPT ![t] = "none"] /\ UNCHANGED <<session, container, untimed>>
  /\ UNCHANGED <<expired, stray, tool, holder, uses, orphans, sweep>>

\* It looks the thread up, and finds the session made since.
StrayFires(t) ==
  /\ holder = Nobody
  /\ stray[t] /\ stray' = [stray EXCEPT ![t] = FALSE]
  /\ IF expired[t] /\ t \in Sessions
       THEN RemoveSessions({t})
       ELSE UNCHANGED <<session, timer, container, untimed>>
  /\ UNCHANGED <<expired, tool, holder, uses, orphans, sweep>>

\* Time passes; the wait for a new container is shorter than the TTL.
Expires(t) ==
  /\ t \in Sessions /\ ~expired[t]
  /\ ~\E c \in Tools : holder = c /\ tool[c].thread = t
  /\ expired' = [expired EXCEPT ![t] = TRUE]
  /\ UNCHANGED <<session, timer, stray, container, tool, holder, uses, orphans, sweep, untimed>>

-----------------------------------------------------------------------------
(* The world around.                                                       *)

\* External: a container crashes.
ContainerDies(t) ==
  /\ container[t] /\ container' = [container EXCEPT ![t] = FALSE]
  /\ UNCHANGED <<session, expired, timer, stray, tool, holder, uses, orphans, sweep, untimed>>

\* The process is restarted: the containers stay.
RestartManager ==
  /\ sweep # "unloaded" /\ sweep' = "unloaded"
  /\ session' = [t \in ChatThreads |-> "none"]
  /\ expired' = [t \in ChatThreads |-> FALSE]
  /\ timer' = [t \in ChatThreads |-> "none"]
  /\ stray' = [t \in ChatThreads |-> FALSE]
  /\ tool' = [c \in Tools |-> NoUse]
  /\ holder' = Nobody /\ orphans' = {}
  /\ untimed' = [t \in ChatThreads |-> FALSE]
  /\ UNCHANGED <<container, uses>>

\* cleanup_orphans runs beside the first calls.
ListOrphans ==
  /\ sweep = "listing" /\ sweep' = "removing"
  /\ orphans' = {t \in ChatThreads : container[t]}
  /\ UNCHANGED <<session, expired, timer, stray, container, tool, holder, uses, untimed>>

RemoveOrphan(t) ==
  /\ t \in orphans /\ orphans' = orphans \ {t}
  /\ \/ container' = [container EXCEPT ![t] = FALSE]
     \/ UNCHANGED container
  /\ UNCHANGED <<session, expired, timer, stray, tool, holder, uses, sweep, untimed>>

GetSession(c) ==
  \/ Reuse(c) \/ Rewait(c) \/ LookForRoom(c) \/ CreateContainer(c) \/ CreateFails(c)
  \/ Ready(c) \/ GivesUpWaiting(c)

NextBrowser ==
  \/ RestartManager \/ ListOrphans
  \/ \E c \in Tools : Begin(c) \/ GetSession(c) \/ EndWork(c)
  \/ \E t \in ChatThreads :
       TimerFires(t) \/ StrayFires(t) \/ Expires(t) \/ ContainerDies(t) \/ RemoveOrphan(t)

\* Waits and work are bounded by timeouts, the lock is fair, and time passes.
BrowserFairness ==
  /\ \A c \in Tools : WF_browserVars(GetSession(c) \/ EndWork(c))
  /\ \A t \in ChatThreads : WF_browserVars(TimerFires(t)) /\ WF_browserVars(Expires(t))

-----------------------------------------------------------------------------
\* Every session is removed some time after its last use, unless the call that
\* made it gave up waiting and nobody uses the thread again: that session has
\* no timer and stays.
SessionsEnd == \A t \in ChatThreads : t \in Sessions ~> t \notin Sessions \/ untimed[t]

\* "5분 미사용 시 자동 종료": a session ends after five minutes without use, not
\* while a tool works with its container.  The code looks at the time the last
\* use began, which is not renewed during the work, so another thread's call
\* that looks for room removes it.
InUseKept ==
  [][\A t \in ChatThreads :
       InUse(t) /\ t \in Sessions /\ container[t] /\ sweep' # "unloaded"
         => t \in Sessions']_browserVars
=============================================================================
