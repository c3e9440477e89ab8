--------------------------- MODULE MCOrganization ---------------------------
(* Instances of Organization, Permissions and AgentAuth for TLC.  They share *)
(* no state: a behaviour runs one of them.                                   *)
EXTENDS Organization, Permissions, AgentAuth, TLC

VARIABLE focus

MCSystemRoles == "viewer" :> {}

MCInit ==
  /\ Init /\ InitPermissions /\ InitAuth
  /\ focus \in {"organization", "permissions", "agents"}
  /\ focus # "permissions" => grants = {} /\ held = [u \in Members |-> "viewer"]
  /\ focus # "agents" => manages = [f \in Firms |-> {}]

MCNext ==
  /\ \/ focus = "organization" /\ Next /\ UNCHANGED <<permVars, authVars>>
     \/ focus = "permissions" /\ NextPermissions /\ UNCHANGED <<vars, authVars>>
     \/ focus = "agents" /\ NextAuth /\ UNCHANGED <<vars, permVars>>
  /\ UNCHANGED focus

MCSpec == MCInit /\ [][MCNext]_<<vars, permVars, authVars, focus>>

\* Whatever a request changes of an organization, its members, settings, keys
\* or the credentials of its agents, its caller is entitled to.
OnlyAuthorized == OnlyEntitled /\ TenantsApart

\* Users and Members are the same set, and so are Requests, Editors and
\* Calls.
Symmetry == Permutations(Users) \union Permutations(Requests) \union Permutations(Fields)
=============================================================================
