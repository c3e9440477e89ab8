---------------------------- MODULE Organization ----------------------------
(***************************************************************************)
(* Organizations, their members and API keys: the operations of            *)
(* services/organization_service.py, which the routes of                   *)
(* api/organizations.py call with a database session per request.          *)
(*                                                                         *)
(* An operation reads the role of its caller, then what it is going to     *)
(* change, then writes and commits.  Every read is a statement of its own  *)
(* under READ COMMITTED: another request may commit between any two steps. *)
(* Only the unique indexes (slug, member of an organization) and the       *)
(* foreign keys are checked together with the write.                       *)
(*                                                                         *)
(* All organizations ask for the same slug, so one of them exists at a     *)
(* time.  Reading operations (get, list, verify_api_key's lookup) change   *)
(* nothing others see and are left out.                                    *)
(***************************************************************************)
EXTENDS Naturals, FiniteSets

CONSTANTS
  Users,       \* identities of callers and members
  Orgs,        \* organization ids, never reused: bound of the model
  Fields,      \* keys of an organization's settings
  Keys,        \* API key ids: bound of the model
  Requests,    \* requests in progress at a time: bound of the model
  Roles,       \* the roles requests may give
  None         \* no value

ASSUME UsersAssumption == IsFiniteSet(Users)
ASSUME NoneAssumption ==
  None \notin Users \union Orgs \union Fields \union Keys \union Roles \union {"owner"}
ASSUME RolesAssumption == Roles \subseteq {"owner", "admin", "member", "viewer"}

VARIABLES
  org,         \* org[o]: the row is "unused", "live" or "gone"
  role,        \* role[o][u]: role in the membership row, None without a row
  settings,    \* settings[o]: keys of organization.settings
  key,         \* key[k]: "unused", "live", "revoked" or "gone"
  keyOf,       \* keyOf[k]: its organization
  req,         \* req[r]: what request r is doing
  asked,       \* history: asked[o]: keys that acknowledged updates have set
  cut,         \* history: organizations whose creation stopped half-way
  raced,       \* history: organizations where a change or removal of a member
               \* overlapped another change of the members
  merged       \* history: organizations with overlapping updates

keyVars == <<key, keyOf>>
history == <<asked, cut, raced, merged>>
rows == <<org, role, settings, keyVars>>
vars == <<rows, req, history>>

Managers == {"owner", "admin"}
MemberOps == {"change", "remove"}
Ops == MemberOps \union {"create", "update", "delete", "add", "newKey", "revoke"}
Steps == {"begin", "slug", "insert", "owner", "role", "target", "count", "write"}

\* What a request remembers: its operation and arguments, the statement it
\* executes next, the caller's role and the settings it has read, whether the
\* membership row it has read is still there, and (history) whether another
\* request changed what it depends on since its first statement.
Request ==
  [op : Ops \union {"idle"}, step : Steps, by : Users \union {None}, on : Orgs \union {None},
   who : Users \union {None}, want : Roles \union {None}, mine : Roles \union {None, "owner"},
   row : BOOLEAN, field : Fields \union {None}, saw : SUBSET Fields,
   key : Keys \union {None}, moved : BOOLEAN]

Idle == [op |-> "idle", step |-> "begin", by |-> None, on |-> None, who |-> None,
         want |-> None, mine |-> None, row |-> FALSE, field |-> None, saw |-> {},
         key |-> None, moved |-> FALSE]

Owners(o) == {u \in Users : role[o][u] = "owner"}
Live(o) == org[o] = "live"
SlugTaken == \E o \in Orgs : Live(o)

TypeOK ==
  /\ org \in [Orgs -> {"unused", "live", "gone"}]
  /\ role \in [Orgs -> [Users -> Roles \union {None, "owner"}]]
  /\ settings \in [Orgs -> SUBSET Fields]
  /\ key \in [Keys -> {"unused", "live", "revoked", "gone"}]
  /\ keyOf \in [Keys -> Orgs \union {None}]
  /\ req \in [Requests -> Request]
  /\ asked \in [Orgs -> SUBSET Fields]
  /\ cut \subseteq Orgs /\ raced \subseteq Orgs /\ merged \subseteq Orgs

Init ==
  /\ org = [o \in Orgs |-> "unused"]
  /\ role = [o \in Orgs |-> [u \in Users |-> None]]
  /\ settings = [o \in Orgs |-> {}]
  /\ key = [k \in Keys |-> "unused"]
  /\ keyOf = [k \in Keys |-> None]
  /\ req = [r \in Requests |-> Idle]
  /\ asked = [o \in Orgs |-> {}]
  /\ cut = {} /\ raced = {} /\ merged = {}

-----------------------------------------------------------------------------
At(r, ops, step) == req[r].op \in ops /\ req[r].step = step

\* A statement that changes no row: the request remembers q.
Read(r, q) == req' = [req EXCEPT ![r] = q] /\ UNCHANGED <<rows, history>>
Goto(r, step) == Read(r, [req[r] EXCEPT !.step = step])

\* The request ends with an answer or an exception and has changed nothing.
Answer(r) == Read(r, Idle)

\* The requests once r has committed a change of the members of o: all others
\* on o have read an older role, and the rows of "lost" are gone for them.
Ended(r, o, lost) ==
  req' = [x \in Requests |->
    IF x = r THEN Idle
    ELSE [req[x] EXCEPT !.moved = @ \/ req[x].on = o,
                        !.row = @ /\ ~(req[x].on = o /\ req[x].who \in lost)]]

\* Operations that look at the owners first and write later.
Racing(r) == IF req[r].moved THEN {req[r].on} ELSE {}

-----------------------------------------------------------------------------
(* Callers.  Any user may ask for anything; the role is checked later.     *)

Call(r, op, u, o) == [Idle EXCEPT !.op = op, !.step = "role", !.by = u, !.on = o]

Ask(r) ==
  /\ req[r] = Idle
  /\ \E u \in Users :
       \/ /\ \E o \in Orgs : org[o] = "unused"
          /\ Read(r, [Idle EXCEPT !.op = "create", !.step = "slug", !.by = u])
       \/ \E o \in Orgs :
            /\ Live(o)
            /\ \/ \E op \in {"delete", "newKey"} : Read(r, Call(r, op, u, o))
               \/ \E f \in Fields : Read(r, [Call(r, "update", u, o) EXCEPT !.field = f])
               \/ \E w \in Users, want \in Roles, op \in {"add", "change"} :
                    Read(r, [Call(r, op, u, o) EXCEPT !.who = w, !.want = want])
               \/ \E w \in Users : Read(r, [Call(r, "remove", u, o) EXCEPT !.who = w])
               \/ \E k \in Keys : Read(r, [Call(r, "revoke", u, o) EXCEPT !.key = k])

-----------------------------------------------------------------------------
(* create_organization: the slug is looked up, the row is committed, and   *)
(* then the membership of its owner.                                       *)

FindSlug(r) ==
  /\ At(r, {"create"}, "slug")
  /\ IF SlugTaken THEN Answer(r) ELSE Goto(r, "insert")

InsertOrganization(r) ==
  /\ At(r, {"create"}, "insert")
  /\ IF SlugTaken
     THEN Answer(r)                                     \* unique slug
     ELSE \E o \in Orgs :
            /\ org[o] = "unused"
            /\ org' = [org EXCEPT ![o] = "live"]
            /\ req' = [req EXCEPT ![r].step = "owner", ![r].on = o]
            /\ UNCHANGED <<role, settings, keyVars, history>>

InsertOwner(r) ==
  /\ At(r, {"create"}, "owner")
  /\ role' = [role EXCEPT ![req[r].on][req[r].by] = "owner"]
  /\ Ended(r, req[r].on, {})
  /\ UNCHANGED <<org, settings, keyVars, history>>

-----------------------------------------------------------------------------
(* _require_role, and the checks that follow it before the next statement. *)

Allowed(op, self) ==
  CASE op = "delete" -> {"owner"}
    [] (op = "remove" /\ self) -> Roles \union {"owner"}
    [] OTHER -> Managers

ReadRole(r) ==
  LET q == req[r]  mine == role[q.on][q.by] IN
  /\ q.op \in Ops /\ q.step = "role"
  /\ IF \/ mine \notin Allowed(q.op, q.who = q.by)
        \/ (q.op = "add" /\ q.want = "owner" /\ mine # "owner")
     THEN Answer(r)
     ELSE Read(r, [q EXCEPT !.step = IF q.op = "newKey" THEN "write" ELSE "target",
                            !.mine = IF q.op \in MemberOps THEN mine ELSE None])

\* Mutant: update_organization replaces the settings.
ReadOrganization_NoMerge(r) ==
  LET q == req[r] IN
  /\ At(r, {"update", "delete"}, "target")
  /\ IF ~Live(q.on) THEN Answer(r) ELSE Goto(r, "write")

\* update_organization, delete_organization: the row of the organization.
ReadOrganization(r) ==
  LET q == req[r] IN
  /\ At(r, {"update", "delete"}, "target")
  /\ IF ~Live(q.on)
     THEN Answer(r)
     ELSE Read(r, [q EXCEPT !.step = "write",
                            !.saw = IF q.op = "update" THEN settings[q.on] ELSE {}])

\* add_member: an existing member is refused.
ReadDuplicate(r) ==
  LET q == req[r] IN
  /\ At(r, {"add"}, "target")
  /\ IF role[q.on][q.who] # None THEN Answer(r) ELSE Goto(r, "write")

\* Mutant: only taking the role of owner needs an owner, not giving it.
TouchesOwner_WhenTaken(q, his) == his = "owner"

\* Owners are changed and removed by owners only; who stops being one is
\* counted first.
TouchesOwner(q, his) == his = "owner" \/ (q.op = "change" /\ q.want = "owner")
NeedsOwner(q, his) == TouchesOwner(q, his) /\ ~(q.op = "remove" /\ q.who = q.by)
Unseats(q, his) == his = "owner" /\ ~(q.op = "change" /\ q.want = "owner")

ReadMember(r) ==
  LET q == req[r]  his == role[q.on][q.who] IN
  /\ At(r, MemberOps, "target")
  /\ IF his = None \/ (NeedsOwner(q, his) /\ q.mine # "owner")
     THEN Answer(r)
     ELSE Read(r, [q EXCEPT !.step = IF Unseats(q, his) THEN "count" ELSE "write",
                            !.mine = None, !.row = TRUE])

\* Mutant: the last owner is not counted when it is the one who leaves.
CountOwners_ButSelf(r) ==
  /\ At(r, MemberOps, "count")
  /\ IF Cardinality(Owners(req[r].on)) <= 1 /\ req[r].who # req[r].by
     THEN Answer(r) ELSE Goto(r, "write")

CountOwners(r) ==
  /\ At(r, MemberOps, "count")
  /\ IF Cardinality(Owners(req[r].on)) <= 1 THEN Answer(r) ELSE Goto(r, "write")

\* revoke_api_key: a key that is unknown or revoked is refused.
ReadKey(r) ==
  LET q == req[r] IN
  /\ At(r, {"revoke"}, "target")
  /\ IF key[q.key] = "live" /\ keyOf[q.key] = q.on THEN Goto(r, "write") ELSE Answer(r)

-----------------------------------------------------------------------------
(* The writes, each committed at once.                                     *)

\* add_member: the unique index and the foreign key are checked here.
AddMember(r) ==
  LET q == req[r] IN
  /\ At(r, {"add"}, "write")
  /\ IF role[q.on][q.who] # None \/ ~Live(q.on)
     THEN Answer(r)
     ELSE /\ role' = [role EXCEPT ![q.on][q.who] = q.want]
          /\ Ended(r, q.on, {})
          /\ UNCHANGED <<org, settings, keyVars, history>>

\* update_member_role updates by organization and user: a member who left and
\* came back meanwhile is changed all the same.
ChangeMember(r) ==
  LET q == req[r] IN
  /\ At(r, {"change"}, "write")
  /\ IF role[q.on][q.who] = None
     THEN Answer(r)
     ELSE /\ role' = [role EXCEPT ![q.on][q.who] = q.want]
          /\ Ended(r, q.on, {})
          /\ raced' = raced \union Racing(r)
          /\ UNCHANGED <<org, settings, keyVars, asked, cut, merged>>

\* remove_member deletes the row it has read.
RemoveMember(r) ==
  LET q == req[r] IN
  /\ At(r, {"remove"}, "write")
  /\ IF ~q.row
     THEN Answer(r)
     ELSE /\ role' = [role EXCEPT ![q.on][q.who] = None]
          /\ Ended(r, q.on, {q.who})
          /\ raced' = raced \union Racing(r)
          /\ UNCHANGED <<org, settings, keyVars, asked, cut, merged>>

Overlapped(r) ==
  \E x \in Requests \ {r} : At(x, {"update"}, "write") /\ req[x].on = req[r].on

\* The settings written are those read, with the caller's field set.
UpdateOrganization(r) ==
  LET q == req[r] IN
  /\ At(r, {"update"}, "write")
  /\ IF ~Live(q.on)
     THEN Answer(r)
     ELSE /\ settings' = [settings EXCEPT ![q.on] = q.saw \union {q.field}]
          /\ asked' = [asked EXCEPT ![q.on] = @ \union {q.field}]
          /\ merged' = IF Overlapped(r) THEN merged \union {q.on} ELSE merged
          /\ req' = [req EXCEPT ![r] = Idle]
          /\ UNCHANGED <<org, role, keyVars, cut, raced>>

\* delete_organization: members and keys go with it.
DeleteOrganization(r) ==
  LET o == req[r].on IN
  /\ At(r, {"delete"}, "write")
  /\ IF ~Live(o)
     THEN Answer(r)
     ELSE /\ org' = [org EXCEPT ![o] = "gone"]
          /\ role' = [role EXCEPT ![o] = [u \in Users |-> None]]
          /\ settings' = [settings EXCEPT ![o] = {}]
          /\ key' = [k \in Keys |-> IF keyOf[k] = o THEN "gone" ELSE key[k]]
          /\ asked' = [asked EXCEPT ![o] = {}]
          /\ Ended(r, o, Users)
          /\ UNCHANGED <<keyOf, cut, raced, merged>>

CreateKey(r) ==
  LET o == req[r].on IN
  /\ At(r, {"newKey"}, "write")
  /\ IF ~Live(o)
     THEN Answer(r)                                     \* foreign key
     ELSE \E k \in Keys :
            /\ key[k] = "unused"
            /\ key' = [key EXCEPT ![k] = "live"]
            /\ keyOf' = [keyOf EXCEPT ![k] = o]
            /\ req' = [req EXCEPT ![r] = Idle]
            /\ UNCHANGED <<org, role, settings, history>>

RevokeKey(r) ==
  LET q == req[r] IN
  /\ At(r, {"revoke"}, "write")
  /\ IF key[q.key] = "gone"
     THEN Answer(r)
     ELSE /\ key' = [key EXCEPT ![q.key] = "revoked"]
          /\ req' = [req EXCEPT ![r] = Idle]
          /\ UNCHANGED <<org, role, settings, keyOf, history>>

\* A statement fails or the process stops: what is committed stays.
Abort(r) ==
  /\ req[r] # Idle
  /\ req' = [req EXCEPT ![r] = Idle]
  /\ cut' = IF At(r, {"create"}, "owner") THEN cut \union {req[r].on} ELSE cut
  /\ UNCHANGED <<rows, asked, raced, merged>>

-----------------------------------------------------------------------------
Check(r) ==
  \/ FindSlug(r) \/ ReadRole(r) \/ ReadOrganization(r) \/ ReadDuplicate(r)
  \/ ReadMember(r) \/ CountOwners(r) \/ ReadKey(r)

Write(r) ==
  \/ InsertOrganization(r) \/ InsertOwner(r) \/ AddMember(r) \/ ChangeMember(r)
  \/ RemoveMember(r) \/ UpdateOrganization(r) \/ DeleteOrganization(r)
  \/ CreateKey(r) \/ RevokeKey(r)

Next == \E r \in Requests : Ask(r) \/ Check(r) \/ Write(r) \/ Abort(r)

Spec == Init /\ [][Next]_vars

-----------------------------------------------------------------------------
(* Properties.                                                             *)

Creating(o) == \E r \in Requests : At(r, {"create"}, "owner") /\ req[r].on = o

\* The last owner cannot be demoted or removed: an organization keeps an owner
\* from the end of its creation, unless the creation stopped between its two
\* commits or a change of a member overlapped another one (the owners are
\* counted, and the member is read, before the write).
OwnerRemains ==
  \A o \in Orgs : Live(o) /\ o \notin cut \union raced /\ ~Creating(o) => Owners(o) # {}

\* Nobody gains, loses or changes a membership, a key or the organization by a
\* request whose caller does not hold, at the moment of the write, the role
\* the operation asks for: owner where an owner is concerned, and owner or
\* admin elsewhere, except that anybody may leave.  A request that overlapped
\* a change of the members goes by the role it read.
Entitled(q, o) ==
  \/ q.on = o /\ (q.moved \/ q.op = "create")
  \/ q.on = o /\ role[o][q.by] = "owner"
  \/ /\ q.on = o /\ role[o][q.by] = "admin"
     /\ Live(o)' /\ Owners(o)' = Owners(o)
  \/ q.on = o /\ role' = [role EXCEPT ![o][q.by] = None] /\ UNCHANGED <<org, settings, key>>

OnlyEntitled ==
  [][\A o \in Orgs :
       /\ Live(o)
       /\ \/ ~Live(o)' \/ role'[o] # role[o] \/ settings'[o] # settings[o]
          \/ \E k \in Keys : o \in {keyOf[k], keyOf'[k]} /\ key'[k] # key[k]
       => \E r \in Requests : req'[r] # req[r] /\ Entitled(req[r], o)]_vars

\* Settings are merged: a key that an acknowledged update set is there until
\* the organization is deleted, unless two updates overlapped (the settings
\* are read, merged in the process and written back).
SettingsKept ==
  \A o \in Orgs : Live(o) /\ o \notin merged => asked[o] \subseteq settings[o]

=============================================================================
