----------------------------- MODULE Assistants -----------------------------
(***************************************************************************)
(* Assistants and their version history: the operations of                 *)
(* services/assistant_service.py on the rows one user owns.                *)
(*                                                                         *)
(* A request names its assistant by a key that matches the row's id or its *)
(* graph; ids may be chosen by clients, so a key can be both.  An update   *)
(* commits a row of assistant_versions first and changes the assistant     *)
(* itself in a second transaction; a creation commits the assistant first  *)
(* and its version 1 second.  Other requests, a reload of the external     *)
(* agents and a crash may come between any two of these steps.             *)
(* A request whose first look finds nothing to do changes nothing and is   *)
(* left out.                                                               *)
(*                                                                         *)
(* Name, description, metadata and context are written together with the   *)
(* configuration and are not told apart from it.                           *)
(***************************************************************************)
EXTENDS Naturals, FiniteSets, FiniteSetsExt

CONSTANTS
  Ids,         \* assistant ids
  Graphs,      \* graph ids an assistant may name
  External,    \* those loaded from external servers
  Configs,     \* configurations
  Writers,     \* requests in progress at a time: bound of the model
  Last,        \* Last[i]: largest version of assistant i: bound of the model
  Nothing      \* no row, no value

ASSUME ExternalAssumption == External \subseteq Graphs
ASSUME LastAssumption == Last \in [Ids -> Nat \ {0}]

Versions == UNION {1..Last[i] : i \in Ids}
Contents == [graph : Graphs, config : Configs]
Assistant == [content : Contents, version : Versions]

ASSUME NothingAssumption == Nothing \notin Contents \union Assistant

VARIABLES
  assistant,   \* assistant[i]: the row, Nothing without one
  kept,        \* kept[i][v]: content of the row (i, v) of assistant_versions
  call,        \* call[r]: what request r is doing
  loose        \* history: assistants that took a version whose row was gone, or
               \* whose version 1 was stored by somebody else than their creator

assistantVars == <<assistant, kept, call, loose>>

NoCall == [op |-> "none", step |-> "none", id |-> Nothing, content |-> Nothing,
           version |-> 0, alone |-> TRUE]

Exists(i) == assistant[i] # Nothing
Matching(k) == {i \in Ids : Exists(i) /\ (i = k \/ assistant[i].content.graph = k)}
VersionsOf(i) == IF i \in Ids THEN {v \in Versions : kept[i][v] # Nothing} ELSE {}
NoVersions == [v \in Versions |-> Nothing]

\* The unique index over (user_id, graph_id, config).
Distinct(rows) ==
  \A i, j \in Ids : i # j /\ rows[i] # Nothing /\ rows[j] # Nothing
                      => rows[i].content # rows[j].content

InitAssistants ==
  /\ assistant = [i \in Ids |-> Nothing]
  /\ kept = [i \in Ids |-> NoVersions]
  /\ call = [r \in Writers |-> NoCall]
  /\ loose = {}

-----------------------------------------------------------------------------
Is(r, op, step) == call[r].op = op /\ call[r].step = step
Starts(r, c) == call' = [call EXCEPT ![r] = c]
Nowhere == UNCHANGED <<assistant, kept, loose>>

\* An answer, or an error, from a request that has changed nothing.
Declined(r) == Starts(r, NoCall) /\ Nowhere

\* r goes on with c after it changed assistant k: the others that name k have
\* company from here on.
Went(r, c, k) ==
  call' = [x \in Writers |-> IF x = r THEN c
                             ELSE [call[x] EXCEPT !.alone = @ /\ call[x].id # k]]

\* Rows that disappear take their versions with them (ON DELETE CASCADE).
Remove(gone) ==
  /\ assistant' = [i \in Ids |-> IF i \in gone THEN Nothing ELSE assistant[i]]
  /\ kept' = [i \in Ids |-> IF i \in gone THEN NoVersions ELSE kept[i]]
  /\ loose' = loose \ gone

-----------------------------------------------------------------------------
(* create_assistant looks for a duplicate, by content and by id: with one  *)
(* it answers 409 or the duplicate itself.                                 *)
FindExisting(r) ==
  /\ call[r] = NoCall
  /\ \E i \in Ids, c \in Contents :
       /\ ~Exists(i)
       /\ \A j \in Ids : Exists(j) => assistant[j].content # c
       /\ Starts(r, [NoCall EXCEPT !.op = "create", !.step = "insert", !.id = i, !.content = c])
  /\ Nowhere

InsertAssistant(r) ==
  /\ Is(r, "create", "insert")
  /\ LET i == call[r].id
         rows == [assistant EXCEPT ![i] = [content |-> call[r].content, version |-> 1]]
     IN IF Exists(i) \/ ~Distinct(rows)
        THEN Declined(r)                                   \* IntegrityError
        ELSE /\ assistant' = rows
             /\ Went(r, [call[r] EXCEPT !.step = "version"], i)
             /\ UNCHANGED <<kept, loose>>

InsertFirstVersion(r) ==
  /\ Is(r, "create", "version")
  /\ LET i == call[r].id
     IN IF ~Exists(i) \/ kept[i][1] # Nothing
        THEN Declined(r)                                   \* foreign or primary key
        ELSE /\ kept' = [kept EXCEPT ![i][1] = call[r].content]
             /\ loose' = IF call[r].alone THEN loose ELSE loose \union {i}
             /\ Went(r, NoCall, i)
             /\ UNCHANGED assistant

(* update_assistant.  The row is found and the largest version read in two *)
(* statements; a row that disappears between them has no versions, and the *)
(* foreign key then refuses the new one.                                   *)
NewVersion(k) == IF VersionsOf(k) = {} THEN 1 ELSE Max(VersionsOf(k)) + 1

ReadVersion(r) ==
  /\ call[r] = NoCall
  /\ \E k \in Ids \union Graphs, c \in Contents :
       /\ Matching(k) # {}
       /\ k \in Ids => NewVersion(k) \in 1..Last[k]           \* bound of the model
       /\ Starts(r, [NoCall EXCEPT !.op = "update", !.step = "version", !.id = k,
                                   !.content = c, !.version = NewVersion(k)])
  /\ Nowhere

InsertVersion(r) ==
  /\ Is(r, "update", "version")
  /\ LET k == call[r].id  v == call[r].version
     IN IF k \notin Ids \/ ~Exists(k) \/ kept[k][v] # Nothing
        THEN Declined(r)                                   \* foreign or primary key
        ELSE /\ kept' = [kept EXCEPT ![k][v] = call[r].content]
             /\ loose' = IF v = 1 THEN loose \union {k} ELSE loose
             /\ Went(r, [call[r] EXCEPT !.step = "apply"], k)
             /\ UNCHANGED assistant

(* set_assistant_latest reads the version it is asked for.                 *)
ReadLatest(r) ==
  /\ call[r] = NoCall
  /\ \E i \in Ids : \E v \in VersionsOf(i) :
       Starts(r, [NoCall EXCEPT !.op = "latest", !.step = "apply", !.id = i,
                               !.content = kept[i][v], !.version = v])
  /\ Nowhere

\* Mutant: the UPDATE leaves graph_id out.
Values_KeepGraph(r, old) == [content |-> [call[r].content EXCEPT !.graph = old.content.graph],
                             version |-> call[r].version]

\* What the UPDATE statement of a request makes of a row.
Values(r, old) == [content |-> call[r].content, version |-> call[r].version]

\* The UPDATE of every row the key matches, and its commit.
Apply(r) ==
  /\ call[r].op \in {"update", "latest"} /\ call[r].step = "apply"
  /\ LET k == call[r].id
         touched == Matching(k)
         rows == [i \in Ids |-> IF i \in touched THEN Values(r, assistant[i]) ELSE assistant[i]]
         lost == kept[k][call[r].version] # call[r].content
     IN IF touched = {} \/ ~Distinct(rows)
        THEN \* 500: the version stays, the assistant does not change
             /\ Went(r, NoCall, k)
             /\ UNCHANGED <<assistant, kept, loose>>
        ELSE /\ assistant' = rows
             /\ loose' = IF lost THEN loose \union touched ELSE loose \ touched
             /\ Went(r, NoCall, k)
             /\ UNCHANGED kept

(* delete_assistant removes one row the key matches.                       *)
FindVictim(r) ==
  /\ call[r] = NoCall
  /\ \E k \in Ids \union Graphs : \E i \in Matching(k) :
       Starts(r, [NoCall EXCEPT !.op = "delete", !.step = "remove", !.id = i])
  /\ Nowhere

DeleteAssistant(r) ==
  /\ Is(r, "delete", "remove")
  /\ Remove({call[r].id})
  /\ Went(r, NoCall, call[r].id)

(* A reload clears every assistant of an external graph, whoever owns it.  *)
ExternalRows == {i \in Ids : Exists(i) /\ assistant[i].content.graph \in External}
ClearExternalRows ==
  /\ ExternalRows # {}
  /\ Remove(ExternalRows)
  /\ call' = [x \in Writers |-> [call[x] EXCEPT !.alone = @ /\ call[x].id \notin ExternalRows]]

(* The process dies in the middle of a request: what it committed stays.   *)
Dies(r) ==
  /\ call[r] # NoCall
  /\ Starts(r, NoCall)
  /\ Nowhere

NextAssistants ==
  \/ \E r \in Writers :
       \/ FindExisting(r) \/ InsertAssistant(r) \/ InsertFirstVersion(r)
       \/ ReadVersion(r) \/ InsertVersion(r)
       \/ ReadLatest(r) \/ Apply(r)
       \/ FindVictim(r) \/ DeleteAssistant(r)
       \/ Dies(r)
  \/ ClearExternalRows

-----------------------------------------------------------------------------
\* An assistant shows the content of the version it claims to be at, whatever
\* updates, roll-backs and deletions overlapped, as long as that version exists.
\* Left out: a version removed under the request that applies it, and a version
\* 1 that an update, or the creation of an earlier row, stored.
ContentOfVersion ==
  \A i \in Ids : LET a == assistant[i] IN
    Exists(i) /\ i \notin loose => kept[i][a.version] \in {Nothing, a.content}

=============================================================================
