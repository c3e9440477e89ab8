---------------------------- MODULE GraphRegistry ----------------------------
(***************************************************************************)
(* The graphs of services/langgraph_service.py: the registry, with the     *)
(* cache of compiled graphs that goes with it, the default assistant of    *)
(* every graph in the database, and the A2A agents of                      *)
(* services/agent_registry_service.py.                                     *)
(*                                                                         *)
(* POST /external-sources/reload runs reload_external_sources, and the     *)
(* start of the process runs the same four phases: clear, load, ensure,    *)
(* register.  Nothing serializes reloads; on the one event loop they       *)
(* interleave wherever the code waits for the database or for an external  *)
(* server.  What runs between two waits is one step here: clearing the     *)
(* dictionaries, putting one graph in, one turn of the loop over the       *)
(* registry, and the whole registration (every graph it gets is cached).   *)
(***************************************************************************)
EXTENDS Naturals, FiniteSets

CONSTANTS
  Internal,    \* graph ids of agents.json
  Broken,      \* those whose file does not give a graph
  Remote,      \* graph ids of agents on external servers
  Reloads      \* calls of the reload in progress at a time: bound of the model

ASSUME RemoteAssumption ==
  Internal \intersect Remote = {} /\ Broken \subseteq Internal
ASSUME FiniteGraphs == IsFiniteSet(Internal \union Remote)

GraphIds == Internal \union Remote

VARIABLES
  registry,    \* _graph_registry; the external ones are in _graph_cache too
  agents,      \* agents listed by the A2A registry
  defaults,    \* graphs with a committed default assistant
  offered,     \* what the external servers offer
  reload,      \* reload[p]: the call p
  failed       \* history: a reload failed, and none that looped over the registry
               \* later has committed the default assistants of all graphs

registryVars == <<registry, agents, defaults, offered, reload, failed>>

\* What a call remembers: its phase, the graphs it still has to load, the one
\* whose configuration it has, those its loop has seen, the length of the
\* dictionary when the loop began, the default assistants it is going to insert
\* and those it is going to update, whether the process is starting with it,
\* and (history) whether its loop began after the last failure.
Rest == [phase |-> "none", todo |-> {}, got |-> {}, seen |-> {}, size |-> 0,
         adds |-> {}, edits |-> {}, boot |-> FALSE, later |-> FALSE]

InitRegistry ==
  /\ registry = {} /\ agents = {} /\ defaults = {}
  /\ offered \in SUBSET Remote
  /\ reload = [p \in Reloads |-> Rest]
  /\ failed = TRUE

Phase(p, f) == reload[p].phase = f
Becomes(p, c) == reload' = [reload EXCEPT ![p] = c]
LoadGraphFromFile(g) == g \notin Broken

\* get_graph: an external graph is never loaded from a file.
GetGraph(g) == g \in registry /\ (g \in Remote \/ LoadGraphFromFile(g))

Registered(graphs) == agents \union graphs
Unregistered(graphs) == agents \ graphs

Quiet == \A p \in Reloads : reload[p] = Rest

-----------------------------------------------------------------------------
\* A graph that leaves the dictionary and comes back is a new entry of it.
Forgotten(c, gone) == [c EXCEPT !.seen = @ \ gone]

(* initialize: a new process reads agents.json and clears, like any reload.*)
StartProcess(p) ==
  /\ registry' = Internal
  /\ agents' = {}
  /\ reload' = [x \in Reloads |->
                 IF x = p THEN [Rest EXCEPT !.phase = "rows", !.boot = TRUE] ELSE Rest]
  /\ failed' = TRUE
  /\ UNCHANGED <<defaults, offered>>

Running == registry # {} /\ \A p \in Reloads : ~reload[p].boot

(* _clear_external_agents, up to its DELETE.                               *)
ClearMemory(p) ==
  /\ Phase(p, "none") /\ Running
  /\ registry' = registry \ Remote
  /\ agents' = Unregistered(Remote)
  /\ reload' = [x \in Reloads |-> IF x = p THEN [Rest EXCEPT !.phase = "rows"]
                                  ELSE Forgotten(reload[x], registry \intersect Remote)]
  /\ UNCHANGED <<defaults, offered, failed>>

ClearRows(p) ==
  /\ Phase(p, "rows")
  /\ \/ defaults' = defaults \ Remote
     \/ UNCHANGED defaults                                \* the error is printed
  /\ Becomes(p, [reload[p] EXCEPT !.phase = "fetch"])
  /\ UNCHANGED <<registry, agents, offered, failed>>

(* _load_external_sources.  A server that does not answer offers nothing,  *)
(* an agent whose configuration cannot be had is skipped.                  *)
FetchAgents(p) ==
  /\ Phase(p, "fetch")
  /\ \E list \in {offered, {}} :
       Becomes(p, [reload[p] EXCEPT !.phase = "load", !.todo = list])
  /\ UNCHANGED <<registry, agents, defaults, offered, failed>>

\* fetch_agent_config: without it the agent is passed over.
FetchAgentConfig(p) ==
  /\ Phase(p, "load") /\ reload[p].got = {}
  /\ \E g \in reload[p].todo, got \in {TRUE, FALSE} :
       Becomes(p, [reload[p] EXCEPT !.todo = @ \ {g}, !.got = IF got THEN {g} ELSE {}])
  /\ UNCHANGED <<registry, agents, defaults, offered, failed>>

\* create_graph: none from a configuration that it cannot make use of.
CreateGraph(g) == SUBSET {g}

\* The graph is put in after more waits, for the checkpointer and the store.
LoadGraph(p) ==
  /\ Phase(p, "load")
  /\ \E g \in reload[p].got : \E made \in CreateGraph(g) : registry' = registry \union made
  /\ Becomes(p, [reload[p] EXCEPT !.got = {}])
  /\ UNCHANGED <<agents, defaults, offered, failed>>

(* _ensure_default_assistants: a loop over the dictionary that waits for   *)
(* the database in every turn.  The dictionary iterator raises             *)
(* RuntimeError when the length is not what it was, or when it finds an    *)
(* entry after as many as there were.                                      *)
Fails(p) ==
  /\ registry' = IF reload[p].boot THEN {} ELSE registry   \* a process that did not start
  /\ reload' = [x \in Reloads |-> IF x = p THEN Rest ELSE [reload[x] EXCEPT !.later = FALSE]]
  /\ failed' = TRUE
  /\ UNCHANGED <<agents, defaults, offered>>

BeginLoop(p) ==
  /\ Phase(p, "load") /\ reload[p].todo = {} /\ reload[p].got = {}
  /\ Becomes(p, [reload[p] EXCEPT !.phase = "ensure", !.later = TRUE,
                                  !.size = Cardinality(registry)])
  /\ UNCHANGED <<registry, agents, defaults, offered, failed>>

Changed(p) == Cardinality(registry) # reload[p].size

\* One turn: an existing assistant is updated when the card has changed.
EnsureDefault(p) ==
  /\ Phase(p, "ensure") /\ ~Changed(p)
  /\ \E g \in registry \ reload[p].seen :
       LET c == [reload[p] EXCEPT !.seen = @ \union {g}]
       IN IF g \notin defaults
          THEN Becomes(p, [c EXCEPT !.adds = @ \union {g}])
          ELSE \/ Becomes(p, c)
               \/ Becomes(p, [c EXCEPT !.edits = @ \union {g}])
  /\ UNCHANGED <<registry, agents, defaults, offered, failed>>

LoopBreaks(p) ==
  /\ Phase(p, "ensure") /\ Changed(p)
  /\ Fails(p)

EndLoop(p) ==
  /\ Phase(p, "ensure") /\ ~Changed(p) /\ registry \subseteq reload[p].seen
  /\ Becomes(p, [reload[p] EXCEPT !.phase = "commit"])
  /\ UNCHANGED <<registry, agents, defaults, offered, failed>>

Repairs(p) == reload[p].later /\ registry \subseteq reload[p].seen

\* Mutant: the inserts are left out of the transaction.
CommitDefaults_NoAdds(p) ==
  /\ Phase(p, "commit")
  /\ defaults' = defaults \intersect registry
  /\ failed' = (failed /\ ~Repairs(p))
  /\ Becomes(p, [reload[p] EXCEPT !.phase = "register"])
  /\ UNCHANGED <<registry, agents, offered>>

\* The transaction: an insert of what somebody else has inserted, or an update
\* of what somebody else has deleted, undoes all of it.  Assistants of graphs
\* that are not in the registry now are deleted with it.
CommitDefaults(p) ==
  /\ Phase(p, "commit")
  /\ reload[p].adds \intersect defaults = {}
  /\ reload[p].edits \subseteq defaults
  /\ defaults' = (defaults \union reload[p].adds) \intersect registry
  /\ failed' = (failed /\ ~Repairs(p))
  /\ Becomes(p, [reload[p] EXCEPT !.phase = "register"])
  /\ UNCHANGED <<registry, agents, offered>>

\* A conflict, or an error of the database.
RollBackDefaults(p) ==
  /\ Phase(p, "commit")
  /\ Fails(p)

(* _register_a2a_agents, and the end of the reload.                        *)
RegisterAgents(p) ==
  /\ Phase(p, "register")
  /\ agents' = Registered({g \in registry : GetGraph(g)})
  /\ Becomes(p, Rest)
  /\ UNCHANGED <<registry, defaults, offered, failed>>

-----------------------------------------------------------------------------
ServersChange ==
  /\ offered' \in SUBSET Remote
  /\ UNCHANGED <<registry, agents, defaults, reload, failed>>

NextRegistry ==
  \/ \E p \in Reloads :
       \/ StartProcess(p)
       \/ ClearMemory(p) \/ ClearRows(p)
       \/ FetchAgents(p) \/ FetchAgentConfig(p) \/ LoadGraph(p)
       \/ BeginLoop(p) \/ EnsureDefault(p) \/ LoopBreaks(p) \/ EndLoop(p)
       \/ CommitDefaults(p) \/ RollBackDefaults(p)
       \/ RegisterAgents(p)
  \/ ServersChange

-----------------------------------------------------------------------------
\* However reloads interleave, once the last one is over the three places agree:
\* every graph has its default assistant and, unless its file is broken, is
\* listed as an agent, and nothing else is.  Left out: a reload that failed (the
\* loop over the registry was disturbed, or its transaction was undone) and was
\* not repeated.
CatalogAgrees ==
  Quiet /\ ~failed => defaults = registry /\ agents = registry \ Broken
=============================================================================
