------------------------------ MODULE AgentAuth ------------------------------
(***************************************************************************)
(* Identities of agents and their credentials: the operations of           *)
(* services/agent_auth/service.py behind the routes of api/agent_auth.py.  *)
(*                                                                         *)
(* An operation reads the role of its caller, then the agent, then what it *)
(* is going to write, and commits.  Each read is a statement of its own;   *)
(* the unique index on the fingerprint and the foreign keys are checked    *)
(* with the write.  An identity is always active: no operation of the      *)
(* service writes another status.  list_agents changes nothing.            *)
(***************************************************************************)
EXTENDS Naturals, FiniteSets

CONSTANTS
  Firms,       \* organizations
  Staff,       \* callers
  Agents,      \* agent identities: bound of the model
  Credentials, \* credentials: bound of the model
  Prints,      \* fingerprints
  Calls,       \* requests in progress at a time: bound of the model
  Nobody       \* no value

ASSUME UuidAssumption ==
  /\ Firms \intersect Agents = {} /\ Firms \intersect Credentials = {}
  /\ Agents \intersect Credentials = {}
ASSUME NobodyAssumption == Nobody \notin Firms

VARIABLES
  manages,     \* manages[f]: the callers who are owner or admin of f
  firmOf,      \* firmOf[a]: organization of the identity, Nobody without a row
  issued,      \* issued[c]: [agent, print] of the credential row, or Nobody
  revoked,     \* credentials whose revoked_at is set
  erased,      \* ids of deleted rows, organizations too; uuids are not given again
  call         \* call[r]: what request r is doing

authRows == <<manages, firmOf, issued, revoked, erased>>
authVars == <<authRows, call>>

\* "moved" is history: the caller's role has changed since it was read.
NoCall == [op |-> "none", step |-> "role", by |-> Nobody, firm |-> Nobody,
           agent |-> Nobody, print |-> Nobody, cred |-> Nobody, moved |-> FALSE]

InitAuth ==
  /\ manages \in [Firms -> SUBSET Staff]
  /\ firmOf = [a \in Agents |-> Nobody]
  /\ issued = [c \in Credentials |-> Nobody]
  /\ revoked = {} /\ erased = {}
  /\ call = [r \in Calls |-> NoCall]

-----------------------------------------------------------------------------
CallStep(r, op, step) == call[r].op = op /\ call[r].step = step
Becomes(r, q) == call' = [call EXCEPT ![r] = q] /\ UNCHANGED authRows
Proceed(r, step) == Becomes(r, [call[r] EXCEPT !.step = step])
Refuse(r) == Becomes(r, NoCall)
Taken(p) == \E c \in Credentials : issued[c] # Nobody /\ issued[c].print = p

(* The routes.  Path and body are the caller's: the agent may belong to    *)
(* another organization, the credential to another agent.                  *)
AskRegister(r) ==
  \E u \in Staff, f \in Firms :
    Becomes(r, [NoCall EXCEPT !.op = "register", !.by = u, !.firm = f])

AskIssue(r) ==
  \E u \in Staff, f \in Firms, a \in Agents, p \in Prints :
    Becomes(r, [NoCall EXCEPT !.op = "issue", !.by = u, !.firm = f, !.agent = a, !.print = p])

AskRevoke(r) ==
  \E u \in Staff, f \in Firms, a \in Agents, c \in Credentials :
    Becomes(r, [NoCall EXCEPT !.op = "revoke", !.by = u, !.firm = f, !.agent = a, !.cred = c])

\* _require_role: strangers get 404, members below admin 403.
RequireRole(r) ==
  /\ call[r].op # "none" /\ call[r].step = "role"
  /\ IF call[r].by \in manages[call[r].firm]
     THEN Proceed(r, IF call[r].op = "register" THEN "write" ELSE "agent")
     ELSE Refuse(r)

FindAgent(r) ==
  /\ call[r].step = "agent"
  /\ IF firmOf[call[r].agent] = call[r].firm
     THEN Proceed(r, IF call[r].op = "issue" THEN "print" ELSE "credential")
     ELSE Refuse(r)

FindPrint(r) ==
  /\ CallStep(r, "issue", "print")
  /\ IF Taken(call[r].print) THEN Refuse(r) ELSE Proceed(r, "write")

FindCredential(r) ==
  LET c == call[r].cred IN
  /\ CallStep(r, "revoke", "credential")
  /\ IF issued[c] # Nobody /\ issued[c].agent = call[r].agent /\ c \notin revoked
     THEN Proceed(r, "write") ELSE Refuse(r)

-----------------------------------------------------------------------------
Register(r) ==
  /\ CallStep(r, "register", "write")
  /\ IF call[r].firm \in erased
     THEN Refuse(r)                                     \* foreign key
     ELSE /\ \E a \in Agents \ erased :
               /\ firmOf[a] = Nobody
               /\ firmOf' = [firmOf EXCEPT ![a] = call[r].firm]
          /\ call' = [call EXCEPT ![r] = NoCall]
          /\ UNCHANGED <<manages, issued, revoked, erased>>

\* The unique index refuses the second of two requests that both found the
\* fingerprint free; the foreign key refuses one whose agent is deleted.
Issue(r) ==
  LET q == call[r] IN
  /\ CallStep(r, "issue", "write")
  /\ IF Taken(q.print) \/ firmOf[q.agent] = Nobody
     THEN Refuse(r)
     ELSE /\ \E c \in Credentials \ erased :
               /\ issued[c] = Nobody
               /\ issued' = [issued EXCEPT ![c] = [agent |-> q.agent, print |-> q.print]]
          /\ call' = [call EXCEPT ![r] = NoCall]
          /\ UNCHANGED <<manages, firmOf, revoked, erased>>

\* The UPDATE has no condition: the later of two requests that both found the
\* credential in force sets revoked_at again.
Revoke(r) ==
  LET c == call[r].cred IN
  /\ CallStep(r, "revoke", "write")
  /\ IF issued[c] = Nobody
     THEN Refuse(r)
     ELSE /\ revoked' = revoked \union {c}
          /\ call' = [call EXCEPT ![r] = NoCall]
          /\ UNCHANGED <<manages, firmOf, issued, erased>>

\* A statement fails or the client is gone before the commit.
GiveUp(r) == call[r].op # "none" /\ Refuse(r)

\* update_member_role, remove_member, add_member of the organization service.
ChangeStaff ==
  \E f \in Firms \ erased, u \in Staff :
    /\ manages' = [manages EXCEPT ![f] =
                     IF u \in manages[f] THEN manages[f] \ {u} ELSE manages[f] \union {u}]
    /\ call' = [r \in Calls |->
                  IF call[r].by = u /\ call[r].firm = f /\ call[r].step # "role"
                  THEN [call[r] EXCEPT !.moved = TRUE] ELSE call[r]]
    /\ UNCHANGED <<firmOf, issued, revoked, erased>>

\* delete_organization: members, identities and credentials go with it.
DeleteFirm ==
  \E f \in Firms \ erased :
    LET agents == {a \in Agents : firmOf[a] = f}
        creds == {c \in Credentials : issued[c] # Nobody /\ issued[c].agent \in agents} IN
    /\ manages' = [manages EXCEPT ![f] = {}]
    /\ firmOf' = [a \in Agents |-> IF a \in agents THEN Nobody ELSE firmOf[a]]
    /\ issued' = [c \in Credentials |-> IF c \in creds THEN Nobody ELSE issued[c]]
    /\ erased' = erased \union agents \union creds \union {f}
    /\ call' = [r \in Calls |->
                  IF call[r].firm = f /\ call[r].step # "role"
                  THEN [call[r] EXCEPT !.moved = TRUE] ELSE call[r]]
    /\ revoked' = revoked \ creds

NextAuth ==
  \/ \E r \in Calls :
       \/ call[r] = NoCall /\ (AskRegister(r) \/ AskIssue(r) \/ AskRevoke(r))
       \/ RequireRole(r) \/ FindAgent(r) \/ FindPrint(r) \/ FindCredential(r)
       \/ Register(r) \/ Issue(r) \/ Revoke(r) \/ GiveUp(r)
  \/ ChangeStaff \/ DeleteFirm

-----------------------------------------------------------------------------
AuthTypeOK ==
  /\ manages \in [Firms -> SUBSET Staff]
  /\ firmOf \in [Agents -> Firms \union {Nobody}]
  /\ \A c \in Credentials : issued[c] # Nobody =>
       issued[c].agent \in Agents /\ issued[c].print \in Prints
  /\ revoked \subseteq {c \in Credentials : issued[c] # Nobody}

\* Organizations are kept apart: a credential is issued for an agent, or
\* revoked, only by a request for the organization of that agent whose caller
\* is owner or admin there, now or when the role was read.
Manages(q, a) ==
  firmOf[a] = q.firm /\ (q.by \in manages[q.firm] \/ q.moved)

TenantsApart ==
  [][\A c \in Credentials :
       LET row == IF issued[c] # Nobody THEN issued[c] ELSE issued'[c] IN
       c \in revoked' \ revoked \/ (issued[c] = Nobody /\ issued'[c] # Nobody)
       => \E r \in Calls : call'[r] # call[r] /\ Manages(call[r], row.agent)]_authVars
=============================================================================
