----------------------------- MODULE Permissions -----------------------------
(***************************************************************************)
(* Effective permissions of the members of one organization and their      *)
(* cache: services/permission_service.py and the changes of                *)
(* services/rbac_service.py and services/organization_service.py that the  *)
(* answers depend on.                                                      *)
(*                                                                         *)
(* An answer comes from three SELECT statements and is then stored under   *)
(* the member's key.  A change is committed first and the keys it affects  *)
(* are deleted afterwards; core/cache.py swallows every error of Redis, so *)
(* a deletion may silently not happen.                                     *)
(*                                                                         *)
(* A permission is a member of a small set; "*" and "prefix:*" are the     *)
(* sets of the permissions they match.                                     *)
(***************************************************************************)
EXTENDS Naturals, FiniteSets

CONSTANTS
  Members,     \* users
  Permits,     \* permissions
  SystemRoles, \* SystemRoles[x]: the permissions of system role x
  Custom,      \* name of a role the organization defines
  Editors,     \* changes in progress at a time: bound of the model
  Readers,     \* evaluations in progress at a time: bound of the model
  Absent       \* no row, no entry

ASSUME ViewerAssumption == "viewer" \in DOMAIN SystemRoles /\ Custom \notin DOMAIN SystemRoles
ASSUME SystemRolesAssumption == \A x \in DOMAIN SystemRoles : SystemRoles[x] \subseteq Permits

RoleNames == DOMAIN SystemRoles \union {Custom}

VARIABLES
  held,        \* held[u]: role in the membership row, Absent for a stranger
  grants,      \* permissions of the custom role, Absent without the row
  given,       \* given[u]: permissions granted to u and not expired
  denied,      \* denied[u]: permissions denied to u and not expired
  entry,       \* entry[u]: the cached answer, Absent without one
  edit,        \* edit[e]: what change e is doing
  eval,        \* eval[r]: what evaluation r has read
  excused      \* history: users whose entry may be stale

permVars == <<held, grants, given, denied, entry, edit, eval, excused>>

NoEdit == [op |-> "none", user |-> Absent, role |-> Absent, keys |-> {}]
NoEval == [step |-> "none", user |-> Absent, base |-> {}, role |-> Absent, late |-> FALSE]

\* _resolve_permissions: denials win.
Resolve(base, plus, minus) == (base \union plus) \ minus

RoleOf(u) == IF held[u] = Absent THEN "viewer" ELSE held[u]

\* _get_role_permissions: a role nobody defines is a viewer's.
Base(role) ==
  CASE role \in DOMAIN SystemRoles -> SystemRoles[role]
    [] role = Custom /\ grants # Absent -> grants
    [] OTHER -> SystemRoles["viewer"]

Effective(u) == Resolve(Base(RoleOf(u)), given[u], denied[u])

InitPermissions ==
  /\ held \in [Members -> {"viewer", Custom}]
  /\ grants \in SUBSET Permits
  /\ given = [u \in Members |-> {}] /\ denied = [u \in Members |-> {}]
  /\ entry = [u \in Members |-> Absent]
  /\ edit = [e \in Editors |-> NoEdit]
  /\ eval = [r \in Readers |-> NoEval]
  /\ excused = {}

-----------------------------------------------------------------------------
(* get_effective_permissions.  A hit changes nothing.                      *)
EvalStep(r, step) == eval[r].step = step
Unchanged == UNCHANGED <<held, grants, given, denied, edit>>

ReadHeldRole(r) ==
  /\ EvalStep(r, "none")
  /\ \E u \in Members :
       /\ entry[u] = Absent
       /\ eval' = [eval EXCEPT ![r] = [NoEval EXCEPT !.step = "role", !.user = u,
                                                     !.role = RoleOf(u)]]
  /\ Unchanged /\ UNCHANGED <<entry, excused>>

ReadGrants(r) ==
  /\ EvalStep(r, "role")
  /\ eval' = [eval EXCEPT ![r].step = "custom", ![r].base = Base(eval[r].role),
                          ![r].role = Absent]
  /\ Unchanged /\ UNCHANGED <<entry, excused>>

ReadCustom(r) ==
  /\ EvalStep(r, "custom")
  /\ LET u == eval[r].user IN
       eval' = [eval EXCEPT ![r].step = "store",
                            ![r].base = Resolve(@, given[u], denied[u])]
  /\ Unchanged /\ UNCHANGED <<entry, excused>>

\* The answer is stored, or Redis fails, and is returned.
Store(r) ==
  /\ EvalStep(r, "store")
  /\ LET u == eval[r].user IN
       \/ /\ entry' = [entry EXCEPT ![u] = eval[r].base]
          /\ excused' = IF eval[r].late THEN excused \union {u} ELSE excused \ {u}
       \/ UNCHANGED <<entry, excused>>
  /\ eval' = [eval EXCEPT ![r] = NoEval]
  /\ Unchanged

\* setex: an entry lives CACHE_TTL seconds.
Expire(u) ==
  /\ entry[u] # Absent
  /\ entry' = [entry EXCEPT ![u] = Absent]
  /\ excused' = excused \ {u}
  /\ Unchanged /\ UNCHANGED eval

-----------------------------------------------------------------------------
\* The evaluations that have begun before a change of the answers for "users"
\* is committed store what they have read.
Overtake(users) ==
  eval' = [r \in Readers |-> [eval[r] EXCEPT !.late = @ \/ eval[r].user \in users]]

Free(e) == edit[e] = NoEdit
Edits(e, op, keys) == edit' = [edit EXCEPT ![e] = [NoEdit EXCEPT !.op = op, !.keys = keys]]

\* The holders of the custom role, and the entries that are there to go stale.
Holders == {u \in Members : held[u] = Custom}
Excuse(users) == excused' = excused \union {u \in users : entry[u] # Absent}

(* update_role: the permissions are committed, then the role's members are *)
(* looked up and their keys deleted one by one.                            *)
UpdateRole(e) ==
  /\ Free(e) /\ grants # Absent
  /\ grants' \in SUBSET Permits
  /\ Edits(e, "members", {})
  /\ Overtake(Holders)
  /\ UNCHANGED <<held, given, denied, entry, excused>>

(* delete_role: members are looked for first.                              *)
FindMembers(e) ==
  /\ Free(e) /\ grants # Absent
  /\ Holders = {}
  /\ Edits(e, "drop", {})
  /\ UNCHANGED <<held, grants, given, denied, entry, eval, excused>>

DeleteRole(e) ==
  /\ edit[e].op = "drop"
  /\ IF grants = Absent
     THEN Edits(e, "none", {}) /\ UNCHANGED <<grants, eval>>
     ELSE /\ grants' = Absent
          /\ Edits(e, "members", {})
          /\ Overtake(Holders)
  /\ UNCHANGED <<held, given, denied, entry, excused>>

(* create_role: a unique index refuses the second one of a name.           *)
CreateRole ==
  /\ grants = Absent
  /\ grants' \in SUBSET Permits
  /\ Overtake(Holders)
  /\ Excuse(Holders)                                     \* no invalidation
  /\ UNCHANGED <<held, given, denied, entry, edit>>

\* invalidate_role_cache: the members that hold the role now.
LookUpMembers(e) ==
  /\ edit[e].op = "members"
  /\ Edits(e, IF Holders = {} THEN "none" ELSE "delete", Holders)
  /\ UNCHANGED <<held, grants, given, denied, entry, eval, excused>>

\* cache_manager.delete, which does not say whether it has.
DeleteKey(e) ==
  /\ edit[e].op = "delete"
  /\ \E u \in edit[e].keys :
       /\ Edits(e, IF edit[e].keys = {u} THEN "none" ELSE "delete", edit[e].keys \ {u})
       /\ \/ entry' = [entry EXCEPT ![u] = Absent] /\ excused' = excused \ {u}
          \/ UNCHANGED entry /\ Excuse({u})
  /\ UNCHANGED <<held, grants, given, denied, eval>>

(* assign_role: the role is looked up, then the membership row is changed. *)
FindRole(e) ==
  /\ Free(e)
  /\ \E u \in Members, x \in RoleNames :
       /\ held[u] # Absent /\ (x = Custom => grants # Absent)
       /\ edit' = [edit EXCEPT ![e] = [op |-> "assign", user |-> u, role |-> x, keys |-> {}]]
  /\ UNCHANGED <<held, grants, given, denied, entry, eval, excused>>

AssignRole(e) ==
  /\ edit[e].op = "assign"
  /\ LET u == edit[e].user IN
       IF held[u] = Absent
       THEN Edits(e, "none", {}) /\ UNCHANGED <<held, eval>>
       ELSE /\ held' = [held EXCEPT ![u] = edit[e].role]
            /\ Edits(e, "delete", {u})
            /\ Overtake({u})
  /\ UNCHANGED <<grants, given, denied, entry, excused>>

\* The custom permissions of a user that requests ask for: one permission is
\* granted or denied, or the row is deleted.
Grants ==
  {c \in [plus : SUBSET Permits, minus : SUBSET Permits] :
     Cardinality(c.plus \union c.minus) <= 1 /\ c.plus \intersect c.minus = {}}

\* Mutant: the key is not deleted when custom permissions are removed.
ChangeCustom_KeepsEntry(e) ==
  /\ Free(e)
  /\ \E u \in Members, c \in Grants :
       /\ given' = [given EXCEPT ![u] = c.plus] /\ denied' = [denied EXCEPT ![u] = c.minus]
       /\ IF c.plus \union c.minus = {} THEN UNCHANGED edit ELSE Edits(e, "delete", {u})
       /\ Overtake({u})
  /\ UNCHANGED <<held, grants, entry, excused>>

(* update_user_permissions and delete_user_custom_permissions.             *)
ChangeCustom(e) ==
  /\ Free(e)
  /\ \E u \in Members, c \in Grants :
       /\ given' = [given EXCEPT ![u] = c.plus] /\ denied' = [denied EXCEPT ![u] = c.minus]
       /\ Edits(e, "delete", {u})
       /\ Overtake({u})
  /\ UNCHANGED <<held, grants, entry, excused>>

(* Changes nobody tells the cache about: custom permissions that expire,   *)
(* and the member operations of the organization service.                  *)
ExpireCustom(u) ==
  /\ given[u] \union denied[u] # {}
  /\ given' = [given EXCEPT ![u] = {}] /\ denied' = [denied EXCEPT ![u] = {}]
  /\ Overtake({u}) /\ Excuse({u})
  /\ UNCHANGED <<held, grants, entry, edit>>

ChangeMembership(u) ==
  /\ held' \in {[held EXCEPT ![u] = x] : x \in (DOMAIN SystemRoles \union {Absent}) \ {held[u]}}
  /\ Overtake({u}) /\ Excuse({u})
  /\ UNCHANGED <<grants, given, denied, entry, edit>>

NextPermissions ==
  \/ \E r \in Readers : ReadHeldRole(r) \/ ReadGrants(r) \/ ReadCustom(r) \/ Store(r)
  \/ \E e \in Editors :
       \/ UpdateRole(e) \/ FindMembers(e) \/ DeleteRole(e) \/ LookUpMembers(e) \/ DeleteKey(e)
       \/ FindRole(e) \/ AssignRole(e) \/ ChangeCustom(e)
  \/ CreateRole
  \/ \E u \in Members : Expire(u) \/ ExpireCustom(u) \/ ChangeMembership(u)

-----------------------------------------------------------------------------
\* A change that is about to delete the entry of u.
Invalidating(u) ==
  \E e \in Editors : \/ edit[e].op = "members" /\ u \in Holders
                     \/ u \in edit[e].keys

\* A cached answer is what the tables say now, unless its deletion is under way
\* or it has one of these causes: a deletion Redis refused, an evaluation that
\* began before the change and stored after it, permissions that expired, a role
\* created for somebody who already names it, or a change of members that came
\* through the organization service.
StaleHasCause ==
  \A u \in Members :
    entry[u] \notin {Absent, Effective(u)} => u \in excused \/ Invalidating(u)
=============================================================================
