-------------------------- MODULE OrganizationProofs --------------------------
(***************************************************************************)
(* Organizations, permissions and credentials of agents, for any numbers   *)
(* of users, organizations and requests in progress.  What these promise   *)
(* is not inductive: a request writes several statements after its checks. *)
(* The invariants say what its checks still mean then, and that a change   *)
(* that takes this away marks the request as overtaken.                    *)
(***************************************************************************)
EXTENDS MCOrganization, FiniteSetTheorems, TLAPS

-----------------------------------------------------------------------------
(* Organizations keep an owner.                                             *)

\* What an operation was called with is there when its statements need it.
Args(q) ==
  /\ q.op \in Ops => q.by \in Users
  /\ q.op \in Ops /\ (q.op # "create" \/ q.step = "owner") => q.on \in Orgs
  /\ q.op \in MemberOps \union {"add"} => q.who \in Users
  /\ q.op \in {"change", "add"} => q.want \in Roles
  /\ q.op = "update" => q.field \in Fields
  /\ q.op = "revoke" => q.key \in Keys

\* A request about to unseat an owner leaves another one, unless the members
\* changed since its first statement.
Safe(q) ==
  q.op \in MemberOps /\ q.step = "write" /\ ~q.moved /\ role[q.on][q.who] = "owner"
    /\ Unseats(q, "owner")
  => \E v \in Owners(q.on) : v # q.who

Promises == \A r \in Requests : Args(req[r]) /\ Safe(req[r])

IInv == TypeOK /\ Promises /\ OwnerRemains

\* Idle is a request that asks for nothing.
LEMMA IdleFits == Idle \in Request /\ Args(Idle) /\ Safe(Idle)
  BY DEF Idle, Request, Ops, MemberOps, Steps, Args, Safe

\* Well-formed, and about nobody it could unseat.
Fits(q) == q \in Request /\ Args(q) /\ q.step # "write"

LEMMA FitsIsSafe == ASSUME NEW q, Fits(q) PROVE q \in Request /\ Args(q) /\ Safe(q)
  BY DEF Fits, Safe

\* Requests as their callers make them.
LEMMA CallFits ==
  ASSUME NEW r, NEW u \in Users
  PROVE  /\ Fits([Idle EXCEPT !.op = "create", !.step = "slug", !.by = u])
         /\ \A o \in Orgs, op \in {"delete", "newKey"} : Fits(Call(r, op, u, o))
         /\ \A o \in Orgs, f \in Fields : Fits([Call(r, "update", u, o) EXCEPT !.field = f])
         /\ \A o \in Orgs, w \in Users, want \in Roles, op \in {"add", "change"} :
              Fits([Call(r, op, u, o) EXCEPT !.who = w, !.want = want])
         /\ \A o \in Orgs, w \in Users : Fits([Call(r, "remove", u, o) EXCEPT !.who = w])
         /\ \A o \in Orgs, k \in Keys : Fits([Call(r, "revoke", u, o) EXCEPT !.key = k])
<1> USE DEF Fits, Call, Idle, Request, Ops, MemberOps, Steps, Args
<1>1. Fits([Idle EXCEPT !.op = "create", !.step = "slug", !.by = u])
  OBVIOUS
<1>2. ASSUME NEW o \in Orgs, NEW op \in {"delete", "newKey"} PROVE Fits(Call(r, op, u, o))
  OBVIOUS
<1>3. ASSUME NEW o \in Orgs, NEW f \in Fields
      PROVE  Fits([Call(r, "update", u, o) EXCEPT !.field = f])
  OBVIOUS
<1>4. ASSUME NEW o \in Orgs, NEW w \in Users, NEW want \in Roles, NEW op \in {"add", "change"}
      PROVE  Fits([Call(r, op, u, o) EXCEPT !.who = w, !.want = want])
  OBVIOUS
<1>5. ASSUME NEW o \in Orgs, NEW w \in Users
      PROVE  Fits([Call(r, "remove", u, o) EXCEPT !.who = w])
  OBVIOUS
<1>6. ASSUME NEW o \in Orgs, NEW k \in Keys
      PROVE  Fits([Call(r, "revoke", u, o) EXCEPT !.key = k])
  OBVIOUS
<1> HIDE DEF Fits, Call, Idle, Request, Ops, MemberOps, Steps, Args
<1> QED
  BY <1>1, <1>2, <1>3, <1>4, <1>5, <1>6

\* What the statements change of a request.
LEMMA EditFits ==
  ASSUME NEW q \in Request, NEW s \in Steps, NEW m \in Roles \union {None, "owner"}
  PROVE  /\ [q EXCEPT !.step = s, !.mine = m] \in Request
         /\ \A f \in SUBSET Fields : [q EXCEPT !.step = s, !.saw = f] \in Request
         /\ [q EXCEPT !.step = s, !.mine = m, !.row = TRUE] \in Request
<1>1. [q EXCEPT !.step = s, !.mine = m] \in Request
  BY DEF Request
<1>2. ASSUME NEW f \in SUBSET Fields PROVE [q EXCEPT !.step = s, !.saw = f] \in Request
  BY DEF Request
<1>3. [q EXCEPT !.step = s, !.mine = m, !.row = TRUE] \in Request
  BY DEF Request
<1> QED
  BY <1>1, <1>2, <1>3

\* Two owners are an owner beside any given user.
LEMMA AnotherOwner ==
  ASSUME NEW o \in Orgs, NEW w, ~(Cardinality(Owners(o)) <= 1)
  PROVE  \E v \in Owners(o) : v # w
<1> SUFFICES ASSUME \A v \in Owners(o) : v = w
             PROVE  Cardinality(Owners(o)) <= 1
  OBVIOUS
<1>1. Owners(o) \subseteq {w}
  OBVIOUS
<1>2. IsFiniteSet({w}) /\ Cardinality({w}) = 1
  BY FS_Singleton
<1>3. Cardinality(Owners(o)) <= Cardinality({w})
  BY <1>1, <1>2, FS_Subset
<1> QED
  BY <1>2, <1>3

-----------------------------------------------------------------------------
(* How requests change: one of them, or all after a change of the members. *)

\* A creation that has not inserted the owner yet, other than by r, goes on.
Carried(r) ==
  \A x \in Requests \ {r}, p \in Orgs :
    At(x, {"create"}, "owner") /\ req[x].on = p => Creating(p)'

\* Only r goes on, with what is well-formed and safe, and no role changes.
LEMMA OneKeeps ==
  ASSUME IInv, NEW r \in Requests, NEW q \in Request, Args(q), Safe(q),
         req' = [req EXCEPT ![r] = q], role' = role
  PROVE  req' \in [Requests -> Request] /\ Promises' /\ Carried(r)
<1>1. req' \in [Requests -> Request]
  BY DEF IInv, TypeOK
<1>2. ASSUME NEW x \in Requests PROVE Args(req[x])' /\ Safe(req[x])'
  <2>1. req'[x] = IF x = r THEN q ELSE req[x]
    BY DEF IInv, TypeOK
  <2>2. Args(req[x]) /\ Safe(req[x])
    BY DEF IInv, Promises
  <2>3. Args(req'[x]) /\ Safe(req'[x])
    BY <2>1, <2>2
  <2> QED
    BY <2>3 DEF Args, Safe, Owners, Unseats
<1>3. Carried(r)
  <2> SUFFICES ASSUME NEW x \in Requests \ {r}, NEW p \in Orgs,
                      At(x, {"create"}, "owner"), req[x].on = p
               PROVE  Creating(p)'
    BY DEF Carried
  <2>1. req'[x] = req[x]
    BY DEF IInv, TypeOK
  <2> QED
    BY <2>1 DEF Creating, At
<1> QED
  BY <1>1, <1>2, <1>3 DEF Promises

\* Organizations whose rows do not change keep their owners when r goes on.
LEMMA OthersRemain ==
  ASSUME IInv, NEW r \in Requests, Carried(r), NEW o \in Orgs,
         Live(o), o \notin cut \union raced, ~Creating(o)',
         ~(At(r, {"create"}, "owner") /\ req[r].on = o)
  PROVE  Owners(o) # {}
BY DEF IInv, OwnerRemains, Creating, Carried

\* A statement that only reads keeps the invariant.
LEMMA ReadKeeps ==
  ASSUME IInv, NEW r \in Requests, NEW q \in Request, Read(r, q),
         Args(q), Safe(q), ~At(r, {"create"}, "owner")
  PROVE  IInv'
<1>1. /\ req' = [req EXCEPT ![r] = q]
      /\ UNCHANGED <<org, role, settings, key, keyOf, asked, cut, raced, merged>>
  BY DEF Read, rows, keyVars, history
<1>2. req' \in [Requests -> Request] /\ Promises' /\ Carried(r)
  BY <1>1, OneKeeps
<1>3. TypeOK'
  BY <1>1, <1>2 DEF IInv, TypeOK
<1>4. OwnerRemains'
  BY <1>1, <1>2, OthersRemain DEF OwnerRemains, Live, Owners
<1> QED
  BY <1>2, <1>3, <1>4 DEF IInv

\* A committed change of the members of o makes the other requests on o older
\* than it, so that nothing is promised to them.
LEMMA EndedKeeps ==
  ASSUME IInv, NEW r \in Requests, NEW o \in Orgs, NEW lost, Ended(r, o, lost),
         \A p \in Orgs \ {o} : role'[p] = role[p]
  PROVE  req' \in [Requests -> Request] /\ Promises' /\ Carried(r)
<1> DEFINE Later(x) == [req[x] EXCEPT !.moved = @ \/ req[x].on = o,
                                      !.row = @ /\ ~(req[x].on = o /\ req[x].who \in lost)]
<1>1. req' = [x \in Requests |-> IF x = r THEN Idle ELSE Later(x)]
  BY DEF Ended
<1>2. ASSUME NEW x \in Requests
      PROVE  /\ Later(x) \in Request
             /\ Later(x).op = req[x].op /\ Later(x).step = req[x].step
             /\ Later(x).by = req[x].by /\ Later(x).on = req[x].on
             /\ Later(x).who = req[x].who /\ Later(x).want = req[x].want
             /\ Later(x).field = req[x].field /\ Later(x).key = req[x].key
             /\ Later(x).moved = (req[x].moved \/ req[x].on = o)
  <2>1. req[x] \in Request
    BY DEF IInv, TypeOK
  <2>2. /\ (req[x].moved \/ req[x].on = o) \in BOOLEAN
        /\ (req[x].row /\ ~(req[x].on = o /\ req[x].who \in lost)) \in BOOLEAN
    OBVIOUS
  <2>3. ASSUME NEW m \in BOOLEAN, NEW w \in BOOLEAN
        PROVE  [req[x] EXCEPT !.moved = m, !.row = w] \in Request
    BY <2>1 DEF Request
  <2>4. Later(x) \in Request
    BY <2>2, <2>3
  <2> QED
    BY <2>1, <2>4 DEF Request
<1> HIDE DEF Later
<1>3. req' \in [Requests -> Request]
  BY <1>1, <1>2, IdleFits
<1>4. ASSUME NEW x \in Requests PROVE Args(req[x])' /\ Safe(req[x])'
  <2>1. CASE x = r
    <3>1. req'[x] = Idle
      BY <1>1, <2>1
    <3> QED
      BY <3>1 DEF Args, Safe, Idle, Ops, MemberOps
  <2>2. CASE x # r
    <3>1. req'[x] = Later(x)
      BY <1>1, <2>2
    <3>2. /\ req'[x].op = req[x].op /\ req'[x].step = req[x].step
          /\ req'[x].by = req[x].by /\ req'[x].on = req[x].on
          /\ req'[x].who = req[x].who /\ req'[x].want = req[x].want
          /\ req'[x].field = req[x].field /\ req'[x].key = req[x].key
          /\ req'[x].moved = (req[x].moved \/ req[x].on = o)
      BY <3>1, <1>2
    <3>3. Args(req[x]) /\ Safe(req[x])
      BY DEF IInv, Promises
    <3>4. Args(req[x])'
      BY <3>2, <3>3 DEF Args
    <3>5. Safe(req[x])'
      <4> SUFFICES ASSUME req[x].op \in MemberOps, req[x].step = "write", ~req[x].moved,
                          req[x].on # o, role'[req[x].on][req[x].who] = "owner",
                          Unseats(req[x], "owner")
                   PROVE  \E v \in Owners(req[x].on)' : v # req[x].who
        BY <3>2 DEF Safe, Unseats, Owners
      <4>1. req[x].on \in Orgs
        BY <3>3 DEF Args, Ops, MemberOps
      <4>2. role'[req[x].on] = role[req[x].on]
        BY <4>1
      <4>3. \E v \in Owners(req[x].on) : v # req[x].who
        BY <4>2, <3>3 DEF Safe
      <4> QED
        BY <4>2, <4>3, <3>2 DEF Owners
    <3> QED
      BY <3>4, <3>5
  <2> QED
    BY <2>1, <2>2
<1>5. ASSUME NEW x \in Requests \ {r}, NEW p \in Orgs,
             At(x, {"create"}, "owner"), req[x].on = p
      PROVE  Creating(p)'
  <2>1. req'[x] = Later(x)
    BY <1>1
  <2> QED
    BY <2>1, <1>2, <1>5 DEF Creating, At
<1> QED
  BY <1>3, <1>4, <1>5 DEF Promises, Carried
-----------------------------------------------------------------------------
(* The statements that read.                                               *)

LEMMA ChecksKeep ==
  ASSUME IInv, NEW r \in Requests, Ask(r) \/ Check(r)
  PROVE  IInv'
<1> DEFINE q == req[r]
<1>1. q \in Request /\ Args(q) /\ Safe(q)
  BY DEF IInv, TypeOK, Promises
<1>2. ASSUME Answer(r), ~At(r, {"create"}, "owner") PROVE IInv'
  BY <1>2, IdleFits, ReadKeeps DEF Answer
<1>3. CASE Ask(r)
  <2>1. \E a : Read(r, a) /\ Fits(a)
    <3>1. PICK u \in Users :
            \/ Read(r, [Idle EXCEPT !.op = "create", !.step = "slug", !.by = u])
            \/ \E o \in Orgs :
                 \/ \E op \in {"delete", "newKey"} : Read(r, Call(r, op, u, o))
                 \/ \E f \in Fields : Read(r, [Call(r, "update", u, o) EXCEPT !.field = f])
                 \/ \E w \in Users, want \in Roles, op \in {"add", "change"} :
                      Read(r, [Call(r, op, u, o) EXCEPT !.who = w, !.want = want])
                 \/ \E w \in Users : Read(r, [Call(r, "remove", u, o) EXCEPT !.who = w])
                 \/ \E k \in Keys : Read(r, [Call(r, "revoke", u, o) EXCEPT !.key = k])
      BY <1>3 DEF Ask
    <3>2. CASE Read(r, [Idle EXCEPT !.op = "create", !.step = "slug", !.by = u])
      BY <3>2, CallFits
    <3>3. CASE \E o \in Orgs, op \in {"delete", "newKey"} : Read(r, Call(r, op, u, o))
      BY <3>3, CallFits
    <3>4. CASE \E o \in Orgs, f \in Fields : Read(r, [Call(r, "update", u, o) EXCEPT !.field = f])
      BY <3>4, CallFits
    <3>5. CASE \E o \in Orgs, w \in Users, want \in Roles, op \in {"add", "change"} :
                 Read(r, [Call(r, op, u, o) EXCEPT !.who = w, !.want = want])
      <4>1. PICK o \in Orgs, w \in Users, want \in Roles, op \in {"add", "change"} :
              Read(r, [Call(r, op, u, o) EXCEPT !.who = w, !.want = want])
        BY <3>5
      <4>2. Fits([Call(r, op, u, o) EXCEPT !.who = w, !.want = want])
        BY CallFits
      <4> QED
        BY <4>1, <4>2
    <3>6. CASE \E o \in Orgs, w \in Users : Read(r, [Call(r, "remove", u, o) EXCEPT !.who = w])
      BY <3>6, CallFits
    <3>7. CASE \E o \in Orgs, k \in Keys : Read(r, [Call(r, "revoke", u, o) EXCEPT !.key = k])
      BY <3>7, CallFits
    <3> QED
      BY <3>1, <3>2, <3>3, <3>4, <3>5, <3>6, <3>7
  <2>2. req[r] = Idle
    BY <1>3 DEF Ask
  <2>3. ~At(r, {"create"}, "owner")
    BY <2>2 DEF At, Idle
  <2> QED
    BY <2>1, <2>3, FitsIsSafe, ReadKeeps
<1>4. CASE FindSlug(r)
  <2>1. [q EXCEPT !.step = "insert"] \in Request
    BY <1>1 DEF Request, Steps
  <2>2. Args([q EXCEPT !.step = "insert"]) /\ Safe([q EXCEPT !.step = "insert"])
    BY <1>1, <1>4 DEF FindSlug, At, Args, Safe, Request, Ops, MemberOps
  <2> QED
    BY <1>2, <1>4, <2>1, <2>2, ReadKeeps DEF FindSlug, Goto, At
<1>5. CASE ReadRole(r)
  <2> DEFINE mine == role[q.on][q.by]
             n == [q EXCEPT !.step = IF q.op = "newKey" THEN "write" ELSE "target",
                            !.mine = IF q.op \in MemberOps THEN mine ELSE None]
  <2>1. q.op \in MemberOps => mine \in Roles \union {None, "owner"}
    BY <1>1 DEF IInv, TypeOK, Args, Ops, MemberOps
  <2>2. n \in Request
    <3>1. (IF q.op = "newKey" THEN "write" ELSE "target") \in Steps
      BY DEF Steps
    <3>2. (IF q.op \in MemberOps THEN mine ELSE None) \in Roles \union {None, "owner"}
      BY <2>1
    <3> QED
      BY <1>1, <3>1, <3>2, EditFits
  <2>3. Args(n) /\ Safe(n)
    BY <1>1, <1>5 DEF ReadRole, Args, Safe, Request, Ops, MemberOps
  <2> QED
    BY <1>2, <1>5, <2>2, <2>3, ReadKeeps DEF ReadRole, At
<1>6. CASE ReadOrganization(r)
  <2> DEFINE n == [q EXCEPT !.step = "write",
                            !.saw = IF q.op = "update" THEN settings[q.on] ELSE {}]
  <2>1. settings[q.on] \in SUBSET Fields
    BY <1>1, <1>6 DEF ReadOrganization, At, IInv, TypeOK, Args, Ops
  <2>2. n \in Request
    <3>1. (IF q.op = "update" THEN settings[q.on] ELSE {}) \in SUBSET Fields
      BY <2>1
    <3>2. "write" \in Steps
      BY DEF Steps
    <3> QED
      BY <1>1, <3>1, <3>2, EditFits
  <2>3. Args(n) /\ Safe(n)
    BY <1>1, <1>6 DEF ReadOrganization, At, Args, Safe, Request, Ops, MemberOps
  <2> QED
    BY <1>2, <1>6, <2>2, <2>3, ReadKeeps DEF ReadOrganization, At
<1>7. CASE ReadDuplicate(r) \/ ReadKey(r)
  <2>1. [q EXCEPT !.step = "write"] \in Request
    BY <1>1 DEF Request, Steps
  <2>2. Args([q EXCEPT !.step = "write"]) /\ Safe([q EXCEPT !.step = "write"])
    BY <1>1, <1>7 DEF ReadDuplicate, ReadKey, At, Args, Safe, Request, Ops, MemberOps
  <2> QED
    BY <1>2, <1>7, <2>1, <2>2, ReadKeeps DEF ReadDuplicate, ReadKey, Goto, At
<1>8. CASE ReadMember(r)
  <2> DEFINE his == role[q.on][q.who]
             n == [q EXCEPT !.step = IF Unseats(q, his) THEN "count" ELSE "write",
                            !.mine = None, !.row = TRUE]
  <2>1. n \in Request
    <3>1. (IF Unseats(q, his) THEN "count" ELSE "write") \in Steps
      BY DEF Steps
    <3> QED
      BY <1>1, <3>1, EditFits
  <2>2. Args(n)
    BY <1>1, <1>8 DEF ReadMember, At, Args, Request, Ops, MemberOps
  <2>3. Safe(n)
    BY <1>1 DEF Safe, Unseats, Request
  <2> QED
    BY <1>2, <1>8, <2>1, <2>2, <2>3, ReadKeeps DEF ReadMember, At, MemberOps
<1>9. CASE CountOwners(r)
  <2> DEFINE n == [q EXCEPT !.step = "write"]
  <2>1. n \in Request
    BY <1>1 DEF Request, Steps
  <2>2. Args(n)
    BY <1>1, <1>9 DEF CountOwners, At, Args, Request, Ops, MemberOps
  <2>3. CASE Cardinality(Owners(q.on)) <= 1
    BY <1>2, <1>9, <2>3 DEF CountOwners, At, MemberOps
  <2>4. CASE ~(Cardinality(Owners(q.on)) <= 1)
    <3>1. q.on \in Orgs
      BY <1>1, <1>9 DEF CountOwners, At, Args, Ops, MemberOps
    <3>2. \E v \in Owners(q.on) : v # q.who
      BY <2>4, <3>1, AnotherOwner
    <3>3. Safe(n)
      BY <1>1, <3>2 DEF Safe, Request
    <3> QED
      BY <1>9, <2>1, <2>2, <2>4, <3>3, ReadKeeps DEF CountOwners, Goto, At, MemberOps
  <2> QED
    BY <2>3, <2>4
<1> QED
  BY <1>3, <1>4, <1>5, <1>6, <1>7, <1>8, <1>9 DEF Check
-----------------------------------------------------------------------------
(* The statements that write.                                              *)

\* Writes that leave the members and the state of organizations alone, beside
\* the end of a creation that stops half-way.
LEMMA SmallWritesKeep ==
  ASSUME IInv, NEW r \in Requests,
         Abort(r) \/ UpdateOrganization(r) \/ CreateKey(r) \/ RevokeKey(r)
  PROVE  IInv'
<1> DEFINE q == req[r]
<1>1. q \in Request /\ Args(q)
  BY DEF IInv, TypeOK, Promises
<1>2. ASSUME Answer(r), ~At(r, {"create"}, "owner") PROVE IInv'
  BY <1>2, IdleFits, ReadKeeps DEF Answer
<1>3. ASSUME req' = [req EXCEPT ![r] = Idle], UNCHANGED <<org, role, raced>>, cut \subseteq cut',
             At(r, {"create"}, "owner") => req[r].on \in cut', TypeOK'
      PROVE  IInv'
  <2>1. Promises' /\ Carried(r)
    BY <1>3, IdleFits, OneKeeps
  <2>2. ASSUME NEW o \in Orgs, Live(o)', o \notin (cut \union raced)', ~Creating(o)'
        PROVE  Owners(o)' # {}
    <3>1. Live(o) /\ o \notin cut \union raced /\ Owners(o)' = Owners(o)
      BY <1>3, <2>2 DEF Live, Owners
    <3>2. ~(At(r, {"create"}, "owner") /\ req[r].on = o)
      BY <1>3, <2>2
    <3> QED
      BY <2>1, <2>2, <3>1, <3>2, OthersRemain
  <2> QED
    BY <1>3, <2>1, <2>2 DEF IInv, OwnerRemains
<1>4. CASE Abort(r)
  <2>1. At(r, {"create"}, "owner") => q.on \in Orgs
    BY <1>1 DEF At, Args, Ops
  <2>2. TypeOK'
    BY <1>4, <2>1, IdleFits DEF Abort, IInv, TypeOK, rows, keyVars
  <2> QED
    BY <1>3, <1>4, <2>2 DEF Abort, rows
<1>5. CASE UpdateOrganization(r)
  <2>1. CASE ~Live(q.on)
    BY <1>2, <1>5, <2>1 DEF UpdateOrganization, At
  <2>2. CASE Live(q.on)
    <3>1. q.on \in Orgs /\ q.field \in Fields /\ q.saw \in SUBSET Fields
      BY <1>1, <1>5 DEF UpdateOrganization, At, Args, Ops, Request
    <3>2. settings' \in [Orgs -> SUBSET Fields] /\ asked' \in [Orgs -> SUBSET Fields]
      BY <1>5, <2>2, <3>1 DEF UpdateOrganization, IInv, TypeOK
    <3>3. req' \in [Requests -> Request] /\ merged' \subseteq Orgs
      BY <1>5, <2>2, <3>1, IdleFits DEF UpdateOrganization, IInv, TypeOK
    <3>4. TypeOK'
      BY <1>5, <2>2, <3>2, <3>3 DEF UpdateOrganization, IInv, TypeOK, keyVars
    <3> QED
      BY <1>3, <1>5, <2>2, <3>4 DEF UpdateOrganization, At
  <2> QED
    BY <2>1, <2>2
<1>6. CASE CreateKey(r)
  <2>1. CASE ~Live(q.on)
    BY <1>2, <1>6, <2>1 DEF CreateKey, At
  <2>2. CASE Live(q.on)
    <3>1. q.on \in Orgs
      BY <1>1, <1>6 DEF CreateKey, At, Args, Ops
    <3>2. TypeOK'
      BY <1>6, <2>2, <3>1, IdleFits DEF CreateKey, IInv, TypeOK, history
    <3> QED
      BY <1>3, <1>6, <2>2, <3>2 DEF CreateKey, At, history
  <2> QED
    BY <2>1, <2>2
<1>7. CASE RevokeKey(r)
  <2>1. CASE key[q.key] = "gone"
    BY <1>2, <1>7, <2>1 DEF RevokeKey, At
  <2>2. CASE key[q.key] # "gone"
    <3>1. TypeOK'
      BY ZenonT(60), <1>7, <2>2, IdleFits DEF RevokeKey, IInv, TypeOK, history
    <3> QED
      BY <1>3, <1>7, <2>2, <3>1 DEF RevokeKey, At, history
  <2> QED
    BY <2>1, <2>2
<1> QED
  BY <1>4, <1>5, <1>6, <1>7

\* A new organization has no owner yet, but its creation goes on.
LEMMA InsertKeeps ==
  ASSUME IInv, NEW r \in Requests, InsertOrganization(r)
  PROVE  IInv'
<1>1. req[r] \in Request /\ Args(req[r])
  BY DEF IInv, TypeOK, Promises
<1>2. CASE SlugTaken
  BY <1>2, IdleFits, ReadKeeps DEF InsertOrganization, Answer, At
<1>3. CASE ~SlugTaken
  <2>1. PICK o \in Orgs :
          /\ org[o] = "unused"
          /\ org' = [org EXCEPT ![o] = "live"]
          /\ req' = [req EXCEPT ![r].step = "owner", ![r].on = o]
          /\ UNCHANGED <<role, settings, keyVars, history>>
    BY <1>3 DEF InsertOrganization
  <2> DEFINE n == [req[r] EXCEPT !.step = "owner", !.on = o]
  <2>2. n \in Request
    BY <1>1 DEF Request, Steps
  <2>3. Args(n) /\ Safe(n) /\ n.op = "create" /\ n.step = "owner" /\ n.on = o
    BY <1>1 DEF InsertOrganization, At, Args, Safe, Request, MemberOps
  <2>4. req' = [req EXCEPT ![r] = n]
    BY <2>1
  <2> HIDE DEF n
  <2>5. req' \in [Requests -> Request] /\ Promises' /\ Carried(r)
    BY <2>1, <2>2, <2>3, <2>4, OneKeeps
  <2>6. Creating(o)'
    BY <2>3, <2>4 DEF Creating, At, IInv, TypeOK
  <2>7. TypeOK'
    BY <2>1, <2>5 DEF IInv, TypeOK, keyVars, history
  <2>8. ASSUME NEW p \in Orgs, Live(p)', p \notin (cut \union raced)', ~Creating(p)'
        PROVE  Owners(p)' # {}
    <3>1. p # o
      BY <2>6, <2>8
    <3>2. Live(p) /\ p \notin cut \union raced /\ Owners(p)' = Owners(p)
      BY <2>1, <2>8, <3>1 DEF Live, Owners, history, IInv, TypeOK
    <3> QED
      BY <2>5, <2>8, <3>2, OthersRemain DEF InsertOrganization, At
  <2> QED
    BY <2>5, <2>7, <2>8 DEF IInv, OwnerRemains
<1> QED
  BY <1>2, <1>3

\* A member is changed or removed without unseating the last owner.
LEMMA StillOwned ==
  ASSUME IInv, NEW r \in Requests, NEW o \in Orgs, o = req[r].on, Carried(r),
         req[r].op \in MemberOps, req[r].step = "write",
         UNCHANGED <<org, cut>>, raced' = raced \union Racing(r),
         \A v \in Owners(o) : v # req[r].who \/ ~Unseats(req[r], "owner") => v \in Owners(o)'
  PROVE  Live(o)' /\ o \notin cut \union raced' /\ ~Creating(o)' => Owners(o)' # {}
<1> SUFFICES ASSUME Live(o)', o \notin cut \union raced', ~Creating(o)'
             PROVE  Owners(o)' # {}
  OBVIOUS
<1>1. ~req[r].moved
  BY DEF Racing
<1>2. Owners(o) # {}
  BY OthersRemain DEF Live, At, MemberOps
<1>3. PICK v \in Owners(o) : TRUE
  BY <1>2
<1>4. CASE v # req[r].who \/ ~Unseats(req[r], "owner")
  BY <1>3, <1>4
<1>5. CASE ~(v # req[r].who \/ ~Unseats(req[r], "owner"))
  <2>1. role[o][req[r].who] = "owner"
    BY <1>3, <1>5 DEF Owners
  <2>2. \E w \in Owners(o) : w # req[r].who
    BY <1>1, <1>5, <2>1 DEF IInv, Promises, Safe
  <2> QED
    BY <2>2
<1> QED
  BY <1>4, <1>5

\* Changes of the members of an organization.
LEMMA MembersKeep ==
  ASSUME IInv, NEW r \in Requests,
         InsertOwner(r) \/ AddMember(r) \/ ChangeMember(r) \/ RemoveMember(r) \/ DeleteOrganization(r)
  PROVE  IInv'
<1> DEFINE q == req[r]
<1>1. q \in Request /\ Args(q) /\ Safe(q)
  BY DEF IInv, TypeOK, Promises
<1>2. PICK o \in Orgs : o = q.on /\ q.by \in Users
  BY <1>1 DEF InsertOwner, AddMember, ChangeMember, RemoveMember, DeleteOrganization, At, Args,
              Ops, MemberOps
<1>3. ASSUME Answer(r), ~At(r, {"create"}, "owner") PROVE IInv'
  BY <1>3, IdleFits, ReadKeeps DEF Answer
<1>4. ASSUME NEW lost, Ended(r, o, lost), \A p \in Orgs \ {o} : role'[p] = role[p],
             \A p \in Orgs \ {o} : org'[p] = org[p],
             role' \in [Orgs -> [Users -> Roles \union {None, "owner"}]],
             org' \in [Orgs -> {"unused", "live", "gone"}],
             settings' \in [Orgs -> SUBSET Fields],
             key' \in [Keys -> {"unused", "live", "revoked", "gone"}],
             asked' \in [Orgs -> SUBSET Fields],
             UNCHANGED <<keyOf, cut, merged>>, raced' \subseteq Orgs, raced \subseteq raced',
             Live(o)' /\ o \notin cut \union raced' /\ ~Creating(o)' => Owners(o)' # {}
      PROVE  IInv'
  <2>1. req' \in [Requests -> Request] /\ Promises' /\ Carried(r)
    BY <1>2, <1>4, EndedKeeps
  <2>2. TypeOK'
    BY <1>4, <2>1 DEF IInv, TypeOK
  <2>3. ASSUME NEW p \in Orgs, Live(p)', p \notin (cut \union raced)', ~Creating(p)'
        PROVE  Owners(p)' # {}
    <3>1. CASE p = o
      BY <1>4, <2>3, <3>1
    <3>2. CASE p # o
      <4>1. Live(p) /\ p \notin cut \union raced /\ Owners(p)' = Owners(p)
        BY <1>4, <2>3, <3>2 DEF Live, Owners
      <4> QED
        BY <1>2, <2>1, <2>3, <3>2, <4>1, OthersRemain
    <3> QED
      BY <3>1, <3>2
  <2> QED
    BY <2>1, <2>2, <2>3 DEF IInv, OwnerRemains
<1>5. CASE InsertOwner(r)
  <2>1. role' = [role EXCEPT ![o][q.by] = "owner"] /\ Ended(r, o, {})
    BY <1>2, <1>5 DEF InsertOwner
  <2>2. /\ role' \in [Orgs -> [Users -> Roles \union {None, "owner"}]]
        /\ \A p \in Orgs \ {o} : role'[p] = role[p]
        /\ role'[o][q.by] = "owner"
    BY <1>2, <2>1 DEF IInv, TypeOK
  <2>3. Owners(o)' # {}
    BY <1>2, <2>2 DEF Owners
  <2> QED
    BY <1>4, <1>5, <2>1, <2>2, <2>3 DEF InsertOwner, keyVars, history, IInv, TypeOK
<1>6. CASE AddMember(r)
  <2>1. CASE role[q.on][q.who] # None \/ ~Live(q.on)
    BY <1>3, <1>6, <2>1 DEF AddMember, At
  <2>2. CASE ~(role[q.on][q.who] # None \/ ~Live(q.on))
    <3>1. role' = [role EXCEPT ![o][q.who] = q.want] /\ Ended(r, o, {})
      BY <1>2, <1>6, <2>2 DEF AddMember
    <3>2. q.who \in Users /\ q.want \in Roles /\ q.op = "add"
      BY <1>1, <1>6 DEF AddMember, At, Args
    <3>3. /\ role' \in [Orgs -> [Users -> Roles \union {None, "owner"}]]
          /\ \A p \in Orgs \ {o} : role'[p] = role[p]
      BY <3>1, <3>2 DEF IInv, TypeOK
    <3>4. Owners(o) \subseteq Owners(o)'
      BY <1>2, <2>2, <3>1, <3>2, <3>3, NoneAssumption DEF Owners, IInv, TypeOK
    <3>5. UNCHANGED <<org, settings, keyVars, history>>
      BY <1>6, <2>2 DEF AddMember
    <3>6. Live(o)' /\ o \notin cut \union raced' /\ ~Creating(o)' => Owners(o)' # {}
      <4>1. Carried(r)
        BY <1>2, <3>1, <3>3, EndedKeeps
      <4> QED
        BY <1>2, <3>2, <3>4, <3>5, <4>1, OthersRemain DEF Live, history, At
    <3> QED
      BY <1>4, <3>1, <3>3, <3>5, <3>6 DEF keyVars, history, IInv, TypeOK
  <2> QED
    BY <2>1, <2>2
<1>7. CASE ChangeMember(r)
  <2>1. CASE role[q.on][q.who] = None
    BY <1>3, <1>7, <2>1 DEF ChangeMember, At
  <2>2. CASE role[q.on][q.who] # None
    <3>1. role' = [role EXCEPT ![o][q.who] = q.want] /\ Ended(r, o, {})
      BY <1>2, <1>7, <2>2 DEF ChangeMember
    <3>2. /\ q.who \in Users /\ q.want \in Roles /\ q.op = "change" /\ q.step = "write"
          /\ raced' = raced \union Racing(r)
      BY <1>1, <1>7, <2>2 DEF ChangeMember, At, Args, MemberOps
    <3>3. /\ role' \in [Orgs -> [Users -> Roles \union {None, "owner"}]]
          /\ \A p \in Orgs \ {o} : role'[p] = role[p]
      BY <3>1, <3>2 DEF IInv, TypeOK
    <3>4. UNCHANGED <<org, settings, keyVars, asked, cut, merged>>
      BY <1>7, <2>2 DEF ChangeMember
    <3>5. \A v \in Owners(o) : v # q.who \/ ~Unseats(q, "owner") => v \in Owners(o)'
      BY <3>1, <3>2, <3>3 DEF Owners, Unseats, IInv, TypeOK
    <3>6. Carried(r)
      BY <3>1, <3>3, EndedKeeps
    <3>7. Live(o)' /\ o \notin cut \union raced' /\ ~Creating(o)' => Owners(o)' # {}
      BY <1>2, <3>2, <3>4, <3>5, <3>6, StillOwned DEF MemberOps
    <3> QED
      BY <1>2, <1>4, <3>1, <3>2, <3>3, <3>4, <3>7 DEF keyVars, Racing, IInv, TypeOK
  <2> QED
    BY <2>1, <2>2
<1>8. CASE RemoveMember(r)
  <2>1. CASE ~q.row
    BY <1>3, <1>8, <2>1 DEF RemoveMember, At, MemberOps
  <2>2. CASE q.row
    <3>1. role' = [role EXCEPT ![o][q.who] = None] /\ Ended(r, o, {q.who})
      BY <1>2, <1>8, <2>2 DEF RemoveMember
    <3>2. /\ q.who \in Users /\ q.op = "remove" /\ q.step = "write"
          /\ raced' = raced \union Racing(r)
      BY <1>1, <1>8, <2>2 DEF RemoveMember, At, Args, MemberOps
    <3>3. /\ role' \in [Orgs -> [Users -> Roles \union {None, "owner"}]]
          /\ \A p \in Orgs \ {o} : role'[p] = role[p]
      BY <3>1, <3>2 DEF IInv, TypeOK
    <3>4. UNCHANGED <<org, settings, keyVars, asked, cut, merged>>
      BY <1>8, <2>2 DEF RemoveMember
    <3>5. \A v \in Owners(o) : v # q.who \/ ~Unseats(q, "owner") => v \in Owners(o)'
      BY <3>1, <3>2, <3>3 DEF Owners, Unseats, IInv, TypeOK
    <3>6. Carried(r)
      BY <3>1, <3>3, EndedKeeps
    <3>7. Live(o)' /\ o \notin cut \union raced' /\ ~Creating(o)' => Owners(o)' # {}
      BY <1>2, <3>2, <3>4, <3>5, <3>6, StillOwned DEF MemberOps
    <3> QED
      BY <1>2, <1>4, <3>1, <3>2, <3>3, <3>4, <3>7 DEF keyVars, Racing, IInv, TypeOK
  <2> QED
    BY <2>1, <2>2
<1>9. CASE DeleteOrganization(r)
  <2>1. CASE ~Live(q.on)
    BY <1>3, <1>9, <2>1 DEF DeleteOrganization, At
  <2>2. CASE Live(q.on)
    <3>1. /\ org' = [org EXCEPT ![o] = "gone"]
          /\ role' = [role EXCEPT ![o] = [u \in Users |-> None]]
          /\ settings' = [settings EXCEPT ![o] = {}]
          /\ key' = [k \in Keys |-> IF keyOf[k] = o THEN "gone" ELSE key[k]]
          /\ asked' = [asked EXCEPT ![o] = {}]
          /\ Ended(r, o, Users)
          /\ UNCHANGED <<keyOf, cut, raced, merged>>
      BY <1>2, <1>9, <2>2 DEF DeleteOrganization
    <3>2. /\ role' \in [Orgs -> [Users -> Roles \union {None, "owner"}]]
          /\ org' \in [Orgs -> {"unused", "live", "gone"}]
          /\ \A p \in Orgs \ {o} : role'[p] = role[p] /\ org'[p] = org[p]
          /\ ~Live(o)'
      BY <3>1 DEF IInv, TypeOK, Live
    <3>3. /\ settings' \in [Orgs -> SUBSET Fields] /\ asked' \in [Orgs -> SUBSET Fields]
          /\ key' \in [Keys -> {"unused", "live", "revoked", "gone"}]
      BY <3>1 DEF IInv, TypeOK
    <3> QED
      BY <1>4, <3>1, <3>2, <3>3 DEF IInv, TypeOK
  <2> QED
    BY <2>1, <2>2
<1> QED
  BY <1>5, <1>6, <1>7, <1>8, <1>9

-----------------------------------------------------------------------------
\* Every reachable state satisfies the invariant.
THEOREM InvCorrect == Spec => []IInv
<1>1. Init => IInv
  <2> SUFFICES ASSUME Init PROVE IInv
    OBVIOUS
  <2>1. \A r \in Requests : req[r] = Idle
    BY DEF Init
  <2>2. TypeOK
    BY IdleFits DEF Init, TypeOK
  <2>3. Promises
    BY <2>1, IdleFits DEF Promises
  <2>4. OwnerRemains
    BY DEF Init, OwnerRemains, Live
  <2> QED
    BY <2>2, <2>3, <2>4 DEF IInv
<1>2. IInv /\ [Next]_vars => IInv'
  <2> SUFFICES ASSUME IInv, [Next]_vars PROVE IInv'
    OBVIOUS
  <2>1. CASE UNCHANGED vars
    BY <2>1 DEF vars, rows, keyVars, history, IInv, TypeOK, Promises, Args, Safe, Owners,
                Unseats, OwnerRemains, Creating, At, Live
  <2>2. ASSUME NEW r \in Requests, Ask(r) \/ Check(r) \/ Write(r) \/ Abort(r)
        PROVE  IInv'
    BY <2>2, ChecksKeep, SmallWritesKeep, InsertKeeps, MembersKeep DEF Write
  <2> QED
    BY <2>1, <2>2 DEF Next
<1> QED
  BY <1>1, <1>2, PTL DEF Spec

\* The last owner of an organization is not lost, for any numbers of users,
\* organizations and requests in progress.
THEOREM OwnersRemain == Spec => []OwnerRemains
  BY InvCorrect, PTL DEF IInv

-----------------------------------------------------------------------------
(* What requests know: the role their caller still has, the settings they   *)
(* have read, the key they are about to revoke.                             *)

\* The checks a request has passed still hold, unless the members changed.
Knows(q) ==
  q.op \in Ops \ {"create"} /\ q.step # "role" /\ ~q.moved =>
    LET mine == role[q.on][q.by]  his == role[q.on][q.who] IN
    /\ mine \in Allowed(q.op, q.who = q.by)
    /\ q.op = "add" /\ q.want = "owner" => mine = "owner"
    /\ q.op \in MemberOps /\ q.step = "target" => q.mine = mine
    /\ q.op \in MemberOps /\ q.step # "target" /\ NeedsOwner(q, his) => mine = "owner"

\* While no updates overlap, one is about to write back all that was asked for.
Seen(q) == q.op = "update" /\ q.step = "write" /\ q.on \notin merged => asked[q.on] \subseteq q.saw

Revoking(q) ==
  q.op = "revoke" /\ q.step = "write" => key[q.key] # "unused" /\ keyOf[q.key] = q.on

Knowledge == \A r \in Requests : Knows(req[r]) /\ Seen(req[r]) /\ Revoking(req[r])
Merging == \A o \in Orgs \ merged : asked[o] \subseteq settings[o]
KeysKnown == \A k \in Keys : key[k] = "unused" => keyOf[k] = None

KInv == Knowledge /\ Merging /\ KeysKnown

\* A request at its first statements, and the idle one, know nothing.
LEMMA NothingKnown ==
  ASSUME NEW q, q.step # "write", q.op \in Ops \ {"create"} => q.step = "role"
  PROVE  Knows(q) /\ Seen(q) /\ Revoking(q)
  BY DEF Knows, Seen, Revoking

LEMMA IdleKnows ==
  /\ Knows(Idle) /\ Seen(Idle) /\ Revoking(Idle)
  /\ Knows(Idle)' /\ Seen(Idle)' /\ Revoking(Idle)'
<1>1. Idle.op = "idle" /\ Idle.op \notin Ops /\ Idle.step = "begin"
  BY DEF Idle, Ops, MemberOps
<1> QED
  BY <1>1 DEF Knows, Seen, Revoking

\* A statement that only reads.
LEMMA ReadKnows ==
  ASSUME IInv, KInv, NEW r \in Requests, NEW q, Read(r, q), Knows(q), Seen(q), Revoking(q)
  PROVE  KInv'
<1>1. UNCHANGED <<role, settings, key, keyOf, asked, merged>>
  BY DEF Read, rows, keyVars, history
<1>2. req'[r] = q /\ \A x \in Requests \ {r} : req'[x] = req[x]
  BY DEF Read, IInv, TypeOK
<1>3. \A x : (Knows(x) => Knows(x)') /\ (Seen(x) => Seen(x)') /\ (Revoking(x) => Revoking(x)')
  BY <1>1 DEF Knows, Seen, Revoking
<1>4. \A x \in Requests : Knows(req'[x]) /\ Seen(req'[x]) /\ Revoking(req'[x])
  BY <1>2 DEF KInv, Knowledge
<1>5. Knowledge'
  BY <1>3, <1>4 DEF Knowledge
<1> QED
  BY <1>1, <1>5 DEF KInv, Merging, KeysKnown

LEMMA AnswerKnows == ASSUME IInv, KInv, NEW r \in Requests, Answer(r) PROVE KInv'
  BY IdleKnows, ReadKnows DEF Answer

\* The requests that go on after r has committed.
Same(x) ==
  /\ req'[x].op = req[x].op /\ req'[x].step = req[x].step /\ req'[x].on = req[x].on
  /\ req'[x].by = req[x].by /\ req'[x].who = req[x].who /\ req'[x].want = req[x].want
  /\ req'[x].mine = req[x].mine /\ req'[x].saw = req[x].saw /\ req'[x].key = req[x].key
  /\ req[x].moved => req'[x].moved

LEMMA EndedSame ==
  ASSUME IInv, NEW r \in Requests, NEW o, NEW lost, Ended(r, o, lost)
  PROVE  /\ req'[r] = Idle
         /\ \A x \in Requests \ {r} : Same(x) /\ (req[x].on = o => req'[x].moved)
<1>1. ASSUME NEW x \in Requests \ {r}
      PROVE  Same(x) /\ (req[x].on = o => req'[x].moved)
  <2>1. req'[x] = [req[x] EXCEPT !.moved = @ \/ req[x].on = o,
                                 !.row = @ /\ ~(req[x].on = o /\ req[x].who \in lost)]
    BY DEF Ended
  <2>2. req[x] \in Request
    BY DEF IInv, TypeOK
  <2> QED
    BY <2>1, <2>2 DEF Request, Same
<1> QED
  BY <1>1 DEF Ended

LEMMA IdledSame ==
  ASSUME IInv, NEW r \in Requests, req' = [req EXCEPT ![r] = Idle]
  PROVE  req'[r] = Idle /\ \A x \in Requests \ {r} : Same(x)
  BY DEF IInv, TypeOK, Same

\* A write of r: the members of some organization change only together with
\* the `moved' of the requests on it, keys once used stay used, and updates
\* that are about to write make a merge.
LEMMA WriteKnows ==
  ASSUME IInv, KInv, NEW r \in Requests, req'[r] = Idle,
         \A x \in Requests \ {r} : Same(x),
         \A x \in Requests \ {r} :
           req'[x].moved \/ req[x].on \notin Orgs \/ role'[req[x].on] = role[req[x].on],
         merged \subseteq merged',
         \A x \in Requests \ {r} :
           At(x, {"update"}, "write") /\ req[x].on \notin merged' =>
             asked'[req[x].on] \subseteq asked[req[x].on],
         \A k \in Keys : key[k] # "unused" => key'[k] # "unused" /\ keyOf'[k] = keyOf[k],
         Merging', KeysKnown'
  PROVE  KInv'
<1>1. ASSUME NEW x \in Requests PROVE Knows(req[x])' /\ Seen(req[x])' /\ Revoking(req[x])'
  <2>1. CASE x = r
    <3>1. req'[x] = Idle
      BY <2>1
    <3> QED
      BY <3>1, IdleKnows DEF Knows, Seen, Revoking, Idle, Ops, MemberOps
  <2>2. CASE x # r
    <3>1. Same(x) /\ Knows(req[x]) /\ Seen(req[x]) /\ Revoking(req[x]) /\ Args(req[x])
      BY <2>2 DEF KInv, Knowledge, IInv, Promises
    <3>2. Knows(req[x])'
      <4>1. CASE req[x].op \in Ops \ {"create"} /\ ~req'[x].moved
        <5>1. req[x].on \in Orgs /\ role'[req[x].on] = role[req[x].on] /\ ~req[x].moved
          BY <2>2, <3>1, <4>1 DEF Args, Same
        <5> QED
          BY <3>1, <4>1, <5>1 DEF Knows, Same, NeedsOwner, TouchesOwner
      <4>2. CASE ~(req[x].op \in Ops \ {"create"} /\ ~req'[x].moved)
        BY <3>1, <4>2 DEF Knows, Same
      <4> QED
        BY <4>1, <4>2
    <3>3. Seen(req[x])'
      BY <2>2, <3>1 DEF Seen, Same, At
    <3>4. Revoking(req[x])'
      BY <3>1 DEF Revoking, Same, Args
    <3> QED
      BY <3>2, <3>3, <3>4
  <2> QED
    BY <2>1, <2>2
<1> QED
  BY <1>1 DEF KInv, Knowledge

-----------------------------------------------------------------------------
(* The steps keep it.                                                       *)

LEMMA AskKnows == ASSUME IInv, KInv, NEW r \in Requests, Ask(r) PROVE KInv'
<1> USE DEF Call, Idle, Ops, MemberOps
<1>1. ASSUME NEW q, Read(r, q), q.step # "write", q.op \in Ops \ {"create"} => q.step = "role"
      PROVE  KInv'
  BY <1>1, NothingKnown, ReadKnows
<1>2. PICK u \in Users :
        \/ /\ \E o \in Orgs : org[o] = "unused"
           /\ Read(r, [Idle EXCEPT !.op = "create", !.step = "slug", !.by = u])
        \/ \E o \in Orgs :
             /\ Live(o)
             /\ \/ \E op \in {"delete", "newKey"} : Read(r, Call(r, op, u, o))
                \/ \E f \in Fields : Read(r, [Call(r, "update", u, o) EXCEPT !.field = f])
                \/ \E w \in Users, want \in Roles, op \in {"add", "change"} :
                     Read(r, [Call(r, op, u, o) EXCEPT !.who = w, !.want = want])
                \/ \E w \in Users : Read(r, [Call(r, "remove", u, o) EXCEPT !.who = w])
                \/ \E k \in Keys : Read(r, [Call(r, "revoke", u, o) EXCEPT !.key = k])
  BY DEF Ask
<1>3. CASE Read(r, [Idle EXCEPT !.op = "create", !.step = "slug", !.by = u])
  <2> DEFINE q == [Idle EXCEPT !.op = "create", !.step = "slug", !.by = u]
  <2>1. q.step = "slug" /\ q.op = "create" /\ Read(r, q)
    BY <1>3
  <2> HIDE DEF q
  <2> QED
    BY <1>1, <2>1
<1>4. ASSUME NEW o \in Orgs, NEW op \in {"delete", "newKey"}, Read(r, Call(r, op, u, o)) PROVE KInv'
  <2> DEFINE q == Call(r, op, u, o)
  <2>1. q.step = "role" /\ Read(r, q)
    BY <1>4
  <2> HIDE DEF q
  <2> QED
    BY <1>1, <2>1
<1>5. ASSUME NEW o \in Orgs, NEW f \in Fields, Read(r, [Call(r, "update", u, o) EXCEPT !.field = f])
      PROVE  KInv'
  <2> DEFINE q == [Call(r, "update", u, o) EXCEPT !.field = f]
  <2>1. q.step = "role" /\ Read(r, q)
    BY <1>5
  <2> HIDE DEF q
  <2> QED
    BY <1>1, <2>1
<1>6. ASSUME NEW o \in Orgs, NEW w \in Users, NEW want \in Roles, NEW op \in {"add", "change"},
             Read(r, [Call(r, op, u, o) EXCEPT !.who = w, !.want = want])
      PROVE  KInv'
  <2> DEFINE q == [Call(r, op, u, o) EXCEPT !.who = w, !.want = want]
  <2>1. q.step = "role" /\ Read(r, q)
    BY <1>6
  <2> HIDE DEF q
  <2> QED
    BY <1>1, <2>1
<1>7. ASSUME NEW o \in Orgs, NEW w \in Users, Read(r, [Call(r, "remove", u, o) EXCEPT !.who = w])
      PROVE  KInv'
  <2> DEFINE q == [Call(r, "remove", u, o) EXCEPT !.who = w]
  <2>1. q.step = "role" /\ Read(r, q)
    BY <1>7
  <2> HIDE DEF q
  <2> QED
    BY <1>1, <2>1
<1>8. ASSUME NEW o \in Orgs, NEW k \in Keys, Read(r, [Call(r, "revoke", u, o) EXCEPT !.key = k])
      PROVE  KInv'
  <2> DEFINE q == [Call(r, "revoke", u, o) EXCEPT !.key = k]
  <2>1. q.step = "role" /\ Read(r, q)
    BY <1>8
  <2> HIDE DEF q
  <2> QED
    BY <1>1, <2>1
<1> QED
  BY ZenonT(60), <1>2, <1>3, <1>4, <1>5, <1>6, <1>7, <1>8

LEMMA CheckKnows == ASSUME IInv, KInv, NEW r \in Requests, Check(r) PROVE KInv'
<1> DEFINE q == req[r]
           mine == role[q.on][q.by]
           his == role[q.on][q.who]
<1>1. q \in Request /\ Args(q) /\ Knows(q) /\ Seen(q) /\ Revoking(q)
  BY DEF IInv, TypeOK, Promises, KInv, Knowledge
<1>2. ASSUME Answer(r) PROVE KInv'
  BY <1>2, AnswerKnows
<1>3. ASSUME NEW n, Read(r, n), Knows(n), Seen(n), Revoking(n) PROVE KInv'
  BY <1>3, ReadKnows
<1>4. CASE FindSlug(r)
  <2> DEFINE n == [q EXCEPT !.step = "insert"]
  <2>1. CASE Goto(r, "insert")
    <3>1. n.step = "insert" /\ n.op = "create" /\ Read(r, n)
      BY <1>1, <1>4, <2>1 DEF FindSlug, At, Goto, Request
    <3> HIDE DEF n
    <3> QED
      BY <1>3, <3>1, NothingKnown
  <2> QED
    BY <1>2, <1>4, <2>1 DEF FindSlug
<1>5. CASE ReadRole(r)
  <2> DEFINE n == [q EXCEPT !.step = IF q.op = "newKey" THEN "write" ELSE "target",
                            !.mine = IF q.op \in MemberOps THEN mine ELSE None]
  <2>1. CASE /\ mine \in Allowed(q.op, q.who = q.by)
             /\ ~(q.op = "add" /\ q.want = "owner" /\ mine # "owner")
             /\ Read(r, n)
    <3>1. /\ n.op = q.op /\ n.on = q.on /\ n.by = q.by /\ n.who = q.who /\ n.want = q.want
          /\ n.moved = q.moved
          /\ q.op = "newKey" => n.step = "write"
          /\ q.op # "newKey" => n.step = "target"
          /\ q.op \in MemberOps => n.mine = mine
      BY <1>1 DEF Request
    <3>2. q.op \in MemberOps => q.op # "newKey"
      BY DEF MemberOps
    <3> HIDE DEF n
    <3>3. Knows(n)
      BY <2>1, <3>1, <3>2 DEF Knows
    <3>4. Seen(n) /\ Revoking(n)
      BY <3>1 DEF Seen, Revoking
    <3> QED
      BY <1>3, <2>1, <3>3, <3>4
  <2>2. CASE Answer(r)
    BY <1>2, <2>2
  <2> QED
    BY <1>5, <2>1, <2>2 DEF ReadRole
<1>6. CASE ReadOrganization(r)
  <2> DEFINE n == [q EXCEPT !.step = "write",
                            !.saw = IF q.op = "update" THEN settings[q.on] ELSE {}]
  <2>1. CASE Read(r, n)
    <3>1. /\ n.op = q.op /\ n.on = q.on /\ n.by = q.by /\ n.who = q.who /\ n.want = q.want
          /\ n.moved = q.moved /\ n.step = "write"
          /\ q.op = "update" => n.saw = settings[q.on]
          /\ q.op \in {"update", "delete"} /\ q.step = "target"
      BY <1>1, <1>6 DEF Request, ReadOrganization, At
    <3>2. q.op \notin MemberOps /\ q.op \in Ops \ {"create"} /\ q.on \in Orgs
      BY <1>1, <3>1 DEF MemberOps, Ops, Args
    <3> HIDE DEF n
    <3>3. Knows(n)
      BY <1>1, <3>1, <3>2 DEF Knows
    <3>4. Seen(n) /\ Revoking(n)
      BY <3>1, <3>2 DEF Seen, Revoking, KInv, Merging
    <3> QED
      BY <1>3, <2>1, <3>3, <3>4
  <2> QED
    BY <1>2, <1>6, <2>1 DEF ReadOrganization
<1>7. CASE ReadDuplicate(r)
  <2> DEFINE n == [q EXCEPT !.step = "write"]
  <2>1. CASE Goto(r, "write")
    <3>1. /\ n.op = q.op /\ n.on = q.on /\ n.by = q.by /\ n.who = q.who /\ n.want = q.want
          /\ n.moved = q.moved /\ n.step = "write" /\ q.op = "add" /\ q.step = "target" /\ Read(r, n)
      BY <1>1, <1>7, <2>1 DEF Request, ReadDuplicate, At, Goto
    <3>2. q.op \notin MemberOps
      BY <3>1 DEF MemberOps
    <3> HIDE DEF n
    <3>3. Knows(n)
      BY <1>1, <3>1, <3>2 DEF Knows
    <3>4. Seen(n) /\ Revoking(n)
      BY <3>1 DEF Seen, Revoking
    <3> QED
      BY <1>3, <3>1, <3>3, <3>4
  <2> QED
    BY <1>2, <1>7, <2>1 DEF ReadDuplicate
<1>8. CASE ReadMember(r)
  <2> DEFINE n == [q EXCEPT !.step = IF Unseats(q, his) THEN "count" ELSE "write",
                            !.mine = None, !.row = TRUE]
  <2>1. CASE ~(NeedsOwner(q, his) /\ q.mine # "owner") /\ Read(r, n)
    <3>1. /\ n.op = q.op /\ n.on = q.on /\ n.by = q.by /\ n.who = q.who /\ n.want = q.want
          /\ n.moved = q.moved /\ n.step \in {"count", "write"}
          /\ q.op \in MemberOps /\ q.step = "target"
      BY <1>1, <1>8 DEF Request, ReadMember, At
    <3>2. q.op # "add" /\ q.op # "update" /\ q.op # "revoke" /\ q.op \in Ops \ {"create"}
      BY <3>1 DEF MemberOps, Ops
    <3> HIDE DEF n
    <3>3. Knows(n)
      BY <1>1, <2>1, <3>1, <3>2 DEF Knows, NeedsOwner, TouchesOwner
    <3>4. Seen(n) /\ Revoking(n)
      BY <3>1, <3>2 DEF Seen, Revoking
    <3> QED
      BY <1>3, <2>1, <3>3, <3>4
  <2> QED
    BY <1>2, <1>8, <2>1 DEF ReadMember
<1>9. CASE CountOwners(r)
  <2> DEFINE n == [q EXCEPT !.step = "write"]
  <2>1. CASE Goto(r, "write")
    <3>1. /\ n.op = q.op /\ n.on = q.on /\ n.by = q.by /\ n.who = q.who /\ n.want = q.want
          /\ n.moved = q.moved /\ n.step = "write" /\ q.op \in MemberOps /\ q.step = "count"
          /\ Read(r, n)
      BY <1>1, <1>9, <2>1 DEF Request, CountOwners, At, Goto
    <3>2. q.op # "add" /\ q.op # "update" /\ q.op # "revoke" /\ q.op \in Ops \ {"create"}
      BY <3>1 DEF MemberOps, Ops
    <3> HIDE DEF n
    <3>3. Knows(n)
      BY <1>1, <3>1, <3>2 DEF Knows, NeedsOwner, TouchesOwner
    <3>4. Seen(n) /\ Revoking(n)
      BY <3>1, <3>2 DEF Seen, Revoking
    <3> QED
      BY <1>3, <3>1, <3>3, <3>4
  <2> QED
    BY <1>2, <1>9, <2>1 DEF CountOwners
<1>10. CASE ReadKey(r)
  <2> DEFINE n == [q EXCEPT !.step = "write"]
  <2>1. CASE key[q.key] = "live" /\ keyOf[q.key] = q.on /\ Goto(r, "write")
    <3>1. /\ n.op = q.op /\ n.on = q.on /\ n.by = q.by /\ n.who = q.who /\ n.want = q.want
          /\ n.moved = q.moved /\ n.step = "write" /\ n.key = q.key /\ q.op = "revoke"
          /\ q.step = "target" /\ Read(r, n)
      BY <1>1, <1>10, <2>1 DEF Request, ReadKey, At, Goto
    <3>2. q.op \notin MemberOps
      BY <3>1 DEF MemberOps
    <3> HIDE DEF n
    <3>3. Knows(n)
      BY <1>1, <3>1, <3>2 DEF Knows
    <3>4. Seen(n) /\ Revoking(n)
      BY <2>1, <3>1 DEF Seen, Revoking
    <3> QED
      BY <1>3, <3>1, <3>3, <3>4
  <2> QED
    BY <1>2, <1>10, <2>1 DEF ReadKey
<1> QED
  BY <1>4, <1>5, <1>6, <1>7, <1>8, <1>9, <1>10 DEF Check

\* The writes that concern one organization's rows, keys or settings.
LEMMA RowsKnow ==
  ASSUME IInv, KInv, NEW r \in Requests,
         Abort(r) \/ UpdateOrganization(r) \/ CreateKey(r) \/ RevokeKey(r) \/ InsertOrganization(r)
  PROVE  KInv'
<1> DEFINE q == req[r]
           o == q.on
<1>1. q \in Request /\ Args(q) /\ Knows(q) /\ Seen(q) /\ Revoking(q)
  BY DEF IInv, TypeOK, Promises, KInv, Knowledge
<1>2. ASSUME Answer(r) PROVE KInv'
  BY <1>2, AnswerKnows
<1>3. ASSUME req' = [req EXCEPT ![r] = Idle], role' = role, merged \subseteq merged',
             \A x \in Requests \ {r} :
               At(x, {"update"}, "write") /\ req[x].on \notin merged' =>
                 asked'[req[x].on] \subseteq asked[req[x].on],
             \A k \in Keys : key[k] # "unused" => key'[k] # "unused" /\ keyOf'[k] = keyOf[k],
             Merging', KeysKnown'
      PROVE  KInv'
  <2>1. req'[r] = Idle /\ \A x \in Requests \ {r} : Same(x)
    BY <1>3, IdledSame
  <2> QED
    BY <1>3, <2>1, WriteKnows
<1>4. CASE Abort(r)
  <2>1. UNCHANGED <<role, settings, key, keyOf, asked, merged>>
    BY <1>4 DEF Abort, rows, keyVars
  <2>2. Merging' /\ KeysKnown'
    BY <2>1 DEF KInv, Merging, KeysKnown
  <2> QED
    BY <1>3, <1>4, <2>1, <2>2 DEF Abort
<1>5. CASE UpdateOrganization(r) /\ Live(o)
  <2>1. /\ settings' = [settings EXCEPT ![o] = q.saw \union {q.field}]
        /\ asked' = [asked EXCEPT ![o] = @ \union {q.field}]
        /\ merged' = IF Overlapped(r) THEN merged \union {o} ELSE merged
        /\ req' = [req EXCEPT ![r] = Idle]
        /\ UNCHANGED <<role, key, keyOf>>
        /\ q.op = "update" /\ q.step = "write" /\ o \in Orgs
    BY <1>1, <1>5 DEF UpdateOrganization, keyVars, At, Args, Ops
  <2>2. /\ settings'[o] = q.saw \union {q.field} /\ asked'[o] = asked[o] \union {q.field}
        /\ \A p \in Orgs \ {o} : settings'[p] = settings[p] /\ asked'[p] = asked[p]
    BY <2>1 DEF IInv, TypeOK
  <2>3. Merging'
    BY <1>1, <2>1, <2>2 DEF Merging, KInv, Seen
  <2>4. ASSUME NEW x \in Requests \ {r}, At(x, {"update"}, "write"), req[x].on \notin merged'
        PROVE  asked'[req[x].on] \subseteq asked[req[x].on]
    <3>1. req[x].on # o
      BY <2>1, <2>4 DEF Overlapped
    <3>2. req[x].on \in Orgs
      BY <2>4 DEF IInv, Promises, Args, At, Ops
    <3> QED
      BY <2>2, <3>1, <3>2
  <2>5. KeysKnown'
    BY <2>1 DEF KeysKnown, KInv
  <2> QED
    BY <1>3, <2>1, <2>3, <2>4, <2>5
<1>6. CASE CreateKey(r) /\ Live(o)
  <2>1. PICK k \in Keys :
          /\ key[k] = "unused"
          /\ key' = [key EXCEPT ![k] = "live"]
          /\ keyOf' = [keyOf EXCEPT ![k] = o]
          /\ req' = [req EXCEPT ![r] = Idle]
          /\ UNCHANGED <<role, settings, asked, merged>>
    BY <1>6 DEF CreateKey, history
  <2>2. /\ key'[k] = "live" /\ \A j \in Keys \ {k} : key'[j] = key[j] /\ keyOf'[j] = keyOf[j]
    BY <2>1 DEF IInv, TypeOK
  <2>3. Merging' /\ KeysKnown'
    BY <2>1, <2>2 DEF Merging, KeysKnown, KInv
  <2> QED
    BY <1>3, <2>1, <2>2, <2>3
<1>7. CASE RevokeKey(r) /\ key[q.key] # "gone"
  <2>1. /\ key' = [key EXCEPT ![q.key] = "revoked"]
        /\ req' = [req EXCEPT ![r] = Idle]
        /\ UNCHANGED <<role, settings, keyOf, asked, merged>>
    BY <1>7 DEF RevokeKey, history
  <2>2. \A j \in Keys : key'[j] = key[j] \/ key'[j] = "revoked"
    BY <2>1 DEF IInv, TypeOK
  <2>3. Merging' /\ KeysKnown'
    BY <2>1, <2>2 DEF Merging, KeysKnown, KInv
  <2> QED
    BY <1>3, <2>1, <2>2, <2>3
<1>8. CASE InsertOrganization(r) /\ ~SlugTaken
  <2>1. PICK p \in Orgs :
          /\ req' = [req EXCEPT ![r].step = "owner", ![r].on = p]
          /\ UNCHANGED <<role, settings, key, keyOf, asked, merged>>
    BY <1>8 DEF InsertOrganization, keyVars, history
  <2> DEFINE n == [q EXCEPT !.step = "owner", !.on = p]
  <2>2. n.step = "owner" /\ n.op = "create"
    BY <1>1, <1>8 DEF InsertOrganization, At, Request
  <2>3. req' = [req EXCEPT ![r] = n]
    BY <2>1 DEF IInv, TypeOK
  <2> HIDE DEF n
  <2>4. req'[r] = n /\ \A x \in Requests \ {r} : req'[x] = req[x]
    BY <2>3 DEF IInv, TypeOK
  <2>5. ASSUME NEW x \in Requests PROVE Knows(req[x])' /\ Seen(req[x])' /\ Revoking(req[x])'
    <3>1. Knows(req'[x]) /\ Seen(req'[x]) /\ Revoking(req'[x])
      BY <2>2, <2>4, NothingKnown DEF KInv, Knowledge
    <3> QED
      BY <2>1, <3>1 DEF Knows, Seen, Revoking
  <2>6. Merging' /\ KeysKnown'
    BY <2>1 DEF Merging, KeysKnown, KInv
  <2> QED
    BY <2>5, <2>6 DEF KInv, Knowledge
<1> QED
  BY <1>2, <1>4, <1>5, <1>6, <1>7, <1>8
     DEF UpdateOrganization, CreateKey, RevokeKey, InsertOrganization

\* The writes that change the members.
LEMMA MembersKnow ==
  ASSUME IInv, KInv, NEW r \in Requests,
         \/ InsertOwner(r) \/ AddMember(r) \/ ChangeMember(r) \/ RemoveMember(r)
         \/ DeleteOrganization(r)
  PROVE  KInv'
<1> DEFINE q == req[r]
           o == q.on
<1>1. ASSUME Answer(r) PROVE KInv'
  BY <1>1, AnswerKnows
<1>2. ASSUME NEW lost, Ended(r, o, lost), \A p \in Orgs \ {o} : role'[p] = role[p],
             merged' = merged,
             \A p \in Orgs : asked'[p] \subseteq asked[p],
             \A k \in Keys : key[k] # "unused" => key'[k] # "unused" /\ keyOf'[k] = keyOf[k],
             Merging', KeysKnown'
      PROVE  KInv'
  <2>1. /\ req'[r] = Idle
        /\ \A x \in Requests \ {r} : Same(x) /\ (req[x].on = o => req'[x].moved)
    BY <1>2, EndedSame
  <2>2. \A x \in Requests \ {r} :
          req'[x].moved \/ req[x].on \notin Orgs \/ role'[req[x].on] = role[req[x].on]
    BY <1>2, <2>1
  <2>3. \A x \in Requests \ {r} : At(x, {"update"}, "write") => req[x].on \in Orgs
    BY DEF At, IInv, Promises, Args, Ops
  <2> QED
    BY <1>2, <2>1, <2>2, <2>3, WriteKnows
<1>3. ASSUME UNCHANGED <<settings, key, keyOf, asked, merged>>, NEW lost, Ended(r, o, lost),
             \A p \in Orgs \ {o} : role'[p] = role[p]
      PROVE  KInv'
  <2>1. Merging' /\ KeysKnown'
    BY <1>3 DEF KInv, Merging, KeysKnown
  <2> QED
    BY <1>2, <1>3, <2>1
<1>4. ASSUME NEW u, NEW x, role' = [role EXCEPT ![o][u] = x]
      PROVE  \A p \in Orgs \ {o} : role'[p] = role[p]
  BY <1>4 DEF IInv, TypeOK
<1>5. CASE InsertOwner(r)
  BY <1>3, <1>4, <1>5 DEF InsertOwner, keyVars, history
<1>6. CASE AddMember(r)
  BY <1>1, <1>3, <1>4, <1>6 DEF AddMember, keyVars, history
<1>7. CASE ChangeMember(r)
  BY <1>1, <1>3, <1>4, <1>7 DEF ChangeMember, keyVars
<1>8. CASE RemoveMember(r)
  BY <1>1, <1>3, <1>4, <1>8 DEF RemoveMember, keyVars
<1>9. CASE DeleteOrganization(r) /\ Live(o)
  <2>1. /\ role' = [role EXCEPT ![o] = [u \in Users |-> None]]
        /\ settings' = [settings EXCEPT ![o] = {}]
        /\ key' = [k \in Keys |-> IF keyOf[k] = o THEN "gone" ELSE key[k]]
        /\ asked' = [asked EXCEPT ![o] = {}]
        /\ Ended(r, o, Users)
        /\ UNCHANGED <<keyOf, merged>>
    BY <1>9 DEF DeleteOrganization
  <2>2. /\ \A p \in Orgs \ {o} : role'[p] = role[p]
        /\ \A p \in Orgs : \/ asked'[p] = {}
                           \/ asked'[p] = asked[p] /\ settings'[p] = settings[p]
    BY <2>1 DEF IInv, TypeOK
  <2>3. \A k \in Keys : key'[k] = "gone" \/ key'[k] = key[k]
    BY <2>1
  <2>4. Merging' /\ KeysKnown'
    BY <2>1, <2>2, <2>3 DEF KInv, Merging, KeysKnown
  <2> QED
    BY <1>2, <2>1, <2>2, <2>3, <2>4
<1> QED
  BY <1>1, <1>5, <1>6, <1>7, <1>8, <1>9 DEF DeleteOrganization

LEMMA NextKnows == IInv /\ KInv /\ [Next]_vars => KInv'
<1> SUFFICES ASSUME IInv, KInv, [Next]_vars PROVE KInv'
  OBVIOUS
<1>1. CASE UNCHANGED vars
  BY <1>1 DEF vars, rows, keyVars, history, KInv, Knowledge, Knows, Seen, Revoking, Merging,
     KeysKnown
<1>2. ASSUME NEW r \in Requests, Ask(r) \/ Check(r) \/ Write(r) \/ Abort(r)
      PROVE  KInv'
  BY <1>2, AskKnows, CheckKnows, RowsKnow, MembersKnow DEF Write
<1> QED
  BY <1>1, <1>2 DEF Next

\* What requests know holds in every reachable state.
THEOREM RequestsKnow == Spec => []KInv
<1>1. Init => KInv
  <2> SUFFICES ASSUME Init PROVE KInv
    OBVIOUS
  <2>1. \A r \in Requests : req[r] = Idle
    BY DEF Init
  <2>2. Knowledge
    BY <2>1, IdleKnows DEF Knowledge
  <2> QED
    BY <2>2 DEF Init, KInv, Merging, KeysKnown
<1> QED
  BY <1>1, NextKnows, InvCorrect, PTL DEF Spec

\* Settings are merged (update_organization): what acknowledged updates set
\* stays, for any number of requests, unless two updates overlapped.
THEOREM SettingsAreKept == Spec => []SettingsKept
<1>1. KInv => SettingsKept
  BY DEF KInv, Merging, SettingsKept
<1> QED
  BY <1>1, RequestsKnow, PTL

-----------------------------------------------------------------------------
(* Who may change an organization.                                          *)

Changes(o) ==
  \/ ~Live(o)' \/ role'[o] # role[o] \/ settings'[o] # settings[o]
  \/ \E k \in Keys : o \in {keyOf[k], keyOf'[k]} /\ key'[k] # key[k]

LEMMA ReadsChangeNothing ==
  ASSUME NEW r, NEW q, Read(r, q), NEW o, Live(o)
  PROVE  ~Changes(o)
  BY DEF Read, rows, keyVars, Changes, Live

LEMMA ChecksChangeNothing ==
  ASSUME NEW r, Ask(r) \/ Check(r), NEW o, Live(o)
  PROVE  ~Changes(o)
<1>1. \E q : Read(r, q)
  BY DEF Ask, Check, FindSlug, ReadRole, ReadOrganization, ReadDuplicate, ReadMember,
     CountOwners, ReadKey, Goto, Answer
<1> QED
  BY <1>1, ReadsChangeNothing

\* A request that is about to write is entitled to what it is about to do, or
\* the members have changed since its first statement.
LEMMA WritersKnow ==
  ASSUME IInv, KInv, NEW r \in Requests, req[r].op \in Ops \ {"create"}, req[r].step = "write"
  PROVE  LET q == req[r]  mine == role[q.on][q.by]  his == role[q.on][q.who] IN
         /\ q.on \in Orgs /\ q.by \in Users
         /\ q.moved \/ mine \in Allowed(q.op, q.who = q.by)
         /\ q.moved \/ mine = "owner" \/ ~(q.op = "add" /\ q.want = "owner")
         /\ q.moved \/ mine = "owner" \/ ~(q.op \in MemberOps /\ NeedsOwner(q, his))
  BY DEF IInv, Promises, Args, KInv, Knowledge, Knows

LEMMA ManagersAreEntitled ==
  ASSUME NEW q, NEW o, q.on = o, q.moved \/ role[o][q.by] \in Managers,
         Live(o)', Owners(o)' = Owners(o)
  PROVE  Entitled(q, o)
  BY DEF Entitled, Managers

\* The members.
LEMMA MembersEntitled ==
  ASSUME IInv, KInv, NEW r \in Requests, NEW o \in Orgs, Live(o), Changes(o),
         AddMember(r) \/ ChangeMember(r) \/ RemoveMember(r)
  PROVE  req'[r] # req[r] /\ Entitled(req[r], o)
<1> DEFINE q == req[r]
           p == q.on
           mine == role[p][q.by]
           his == role[p][q.who]
<1>1. ~Answer(r)
  BY ReadsChangeNothing DEF Answer
<1>2. /\ q.op \in {"add", "change", "remove"} /\ q.op \in Ops \ {"create"} /\ q.step = "write"
  BY DEF AddMember, ChangeMember, RemoveMember, At, MemberOps, Ops
<1>3. /\ q.who \in Users
      /\ q.op \in {"add", "change"} => q.want \in Roles
      /\ role \in [Orgs -> [Users -> Roles \union {None, "owner"}]]
  BY <1>2 DEF IInv, Promises, Args, MemberOps, TypeOK
<1>4. /\ p \in Orgs /\ q.by \in Users
      /\ q.moved \/ mine \in Allowed(q.op, q.who = q.by)
      /\ q.moved \/ mine = "owner" \/ ~(q.op = "add" /\ q.want = "owner")
      /\ q.moved \/ mine = "owner" \/ ~(q.op \in MemberOps /\ NeedsOwner(q, his))
  BY <1>2, WritersKnow
<1>5. /\ UNCHANGED <<org, settings, key, keyOf>>
      /\ req'[r] = Idle /\ Idle.step # "write"
      /\ role' = [role EXCEPT ![p][q.who] = IF q.op = "remove" THEN None ELSE q.want]
      /\ q.op = "add" => his = None
  BY <1>1, <1>2 DEF AddMember, ChangeMember, RemoveMember, At, MemberOps, Ended, keyVars, history,
     Idle
<1>6. req'[r] # req[r]
  BY <1>2, <1>5
<1>7. o = p /\ Live(o)'
  <2>1. \A x \in Orgs \ {p} : role'[x] = role[x]
    BY <1>3, <1>5
  <2> QED
    BY <1>5, <2>1 DEF Changes, Live
<1>8. CASE q.moved \/ mine = "owner"
  BY <1>6, <1>7, <1>8 DEF Entitled
<1>9. CASE ~q.moved /\ mine # "owner" /\ q.op = "remove" /\ q.who = q.by
  BY <1>5, <1>6, <1>7, <1>9 DEF Entitled
<1>10. CASE ~q.moved /\ mine # "owner" /\ ~(q.op = "remove" /\ q.who = q.by)
  <2>1. mine \in Managers
    BY <1>2, <1>4, <1>10 DEF Allowed
  <2>2. his # "owner" /\ (q.op # "remove" => q.want # "owner")
    <3>1. CASE q.op = "add"
      BY <1>4, <1>5, <1>10, <3>1, NoneAssumption
    <3>2. CASE q.op \in {"change", "remove"}
      BY <1>4, <1>10, <3>2 DEF MemberOps, NeedsOwner, TouchesOwner
    <3> QED
      BY <1>2, <3>1, <3>2
  <2>3. \A u \in Users : role'[p][u] = "owner" <=> role[p][u] = "owner"
    BY <1>3, <1>4, <1>5, <2>2, NoneAssumption
  <2>4. Owners(o)' = Owners(o)
    BY <1>7, <2>3 DEF Owners
  <2> QED
    BY <1>6, <1>7, <2>1, <2>4, ManagersAreEntitled
<1> QED
  BY <1>6, <1>8, <1>9, <1>10

\* Settings and keys: owners and admins.
LEMMA RowsEntitled ==
  ASSUME IInv, KInv, NEW r \in Requests, NEW o \in Orgs, Live(o), Changes(o),
         UpdateOrganization(r) \/ CreateKey(r) \/ RevokeKey(r)
  PROVE  req'[r] # req[r] /\ Entitled(req[r], o)
<1> DEFINE q == req[r]
           p == q.on
<1>1. ~Answer(r)
  BY ReadsChangeNothing DEF Answer
<1>2. /\ q.op \in {"update", "newKey", "revoke"} /\ q.op \in Ops \ {"create"} /\ q.step = "write"
  BY DEF UpdateOrganization, CreateKey, RevokeKey, At, MemberOps, Ops
<1>3. p \in Orgs /\ (q.moved \/ role[p][q.by] \in Allowed(q.op, q.who = q.by))
  BY <1>2, WritersKnow
<1>4. q.moved \/ role[p][q.by] \in Managers
  BY <1>2, <1>3 DEF Allowed
<1>5. UNCHANGED <<org, role>> /\ req' = [req EXCEPT ![r] = Idle]
  BY <1>1 DEF UpdateOrganization, CreateKey, RevokeKey
<1>6. req'[r] # req[r]
  BY <1>2, <1>5 DEF IInv, TypeOK, Idle
<1>7. Live(o)' /\ Owners(o)' = Owners(o) /\ role'[o] = role[o]
  BY <1>5 DEF Live, Owners
<1>8. o = p
  <2>1. CASE UpdateOrganization(r)
    BY <1>1, <1>7, <2>1 DEF UpdateOrganization, Changes, IInv, TypeOK, keyVars
  <2>2. CASE CreateKey(r)
    <3>1. PICK k \in Keys : /\ key[k] = "unused" /\ key' = [key EXCEPT ![k] = "live"]
                            /\ keyOf' = [keyOf EXCEPT ![k] = p] /\ settings' = settings
      BY <1>1, <2>2 DEF CreateKey
    <3>2. keyOf[k] = None /\ None \notin Orgs
      BY <3>1, NoneAssumption DEF KInv, KeysKnown
    <3>3. keyOf'[k] = p /\ \A j \in Keys \ {k} : key'[j] = key[j]
      BY <3>1 DEF IInv, TypeOK
    <3> QED
      BY <1>7, <3>1, <3>2, <3>3 DEF Changes
  <2>3. CASE RevokeKey(r)
    <3>1. keyOf[q.key] = p
      BY <2>3 DEF RevokeKey, At, KInv, Knowledge, Revoking
    <3>2. key' = [key EXCEPT ![q.key] = "revoked"] /\ UNCHANGED <<settings, keyOf>>
      BY <1>1, <2>3 DEF RevokeKey
    <3>3. \A j \in Keys \ {q.key} : key'[j] = key[j]
      BY <3>2 DEF IInv, TypeOK
    <3> QED
      BY <1>7, <3>1, <3>2, <3>3 DEF Changes
  <2> QED
    BY <2>1, <2>2, <2>3
<1> QED
  BY <1>4, <1>6, <1>7, <1>8, ManagersAreEntitled

\* The organization itself.
LEMMA OrganizationEntitled ==
  ASSUME IInv, KInv, NEW r \in Requests, NEW o \in Orgs, Live(o), Changes(o),
         InsertOrganization(r) \/ InsertOwner(r) \/ DeleteOrganization(r)
  PROVE  req'[r] # req[r] /\ Entitled(req[r], o)
<1> DEFINE q == req[r]
           p == q.on
<1>1. ~Answer(r)
  BY ReadsChangeNothing DEF Answer
<1>2. CASE InsertOrganization(r)
  <2>1. ~SlugTaken
    BY <1>1, <1>2 DEF InsertOrganization
  <2> QED
    BY <2>1 DEF SlugTaken
<1>3. CASE InsertOwner(r)
  <2>1. /\ q.op = "create" /\ q.step = "owner" /\ p \in Orgs
        /\ role' = [role EXCEPT ![p][q.by] = "owner"]
        /\ req'[r] = Idle /\ UNCHANGED <<org, settings, key, keyOf>>
    BY <1>3 DEF InsertOwner, At, Ended, keyVars, IInv, Promises, Args, Ops
  <2>2. o = p
    BY <2>1 DEF Changes, Live, IInv, TypeOK
  <2> QED
    BY <2>1, <2>2 DEF Idle, Entitled
<1>4. CASE DeleteOrganization(r)
  <2>1. /\ q.op = "delete" /\ q.step = "write" /\ q.op \in Ops \ {"create"}
    BY <1>4 DEF DeleteOrganization, At, Ops
  <2>2. p \in Orgs /\ (q.moved \/ role[p][q.by] = "owner")
    BY <2>1, WritersKnow DEF Allowed
  <2>3. /\ org' = [org EXCEPT ![p] = "gone"]
        /\ role' = [role EXCEPT ![p] = [u \in Users |-> None]]
        /\ settings' = [settings EXCEPT ![p] = {}]
        /\ key' = [k \in Keys |-> IF keyOf[k] = p THEN "gone" ELSE key[k]]
        /\ req'[r] = Idle /\ UNCHANGED keyOf
    BY <1>1, <1>4 DEF DeleteOrganization, Ended
  <2>4. o = p
    <3>1. \A x \in Orgs \ {p} : org'[x] = org[x] /\ role'[x] = role[x] /\ settings'[x] = settings[x]
      BY <2>3 DEF IInv, TypeOK
    <3>2. \A k \in Keys : keyOf[k] # p => key'[k] = key[k] /\ keyOf'[k] = keyOf[k]
      BY <2>3
    <3> QED
      BY <2>3, <3>1, <3>2 DEF Changes, Live
  <2> QED
    BY <2>1, <2>2, <2>3, <2>4 DEF Entitled, Idle
<1> QED
  BY <1>2, <1>3, <1>4

\* Nobody changes an organization, its members, its settings or its keys by a
\* request whose caller is not entitled to it (_require_role and the checks after
\* it), for any number of requests that overlap.
THEOREM OnlyTheEntitledWrite == Spec => OnlyEntitled
<1>1. IInv /\ KInv /\ [Next]_vars =>
        [\A o \in Orgs :
           /\ Live(o)
           /\ \/ ~Live(o)' \/ role'[o] # role[o] \/ settings'[o] # settings[o]
              \/ \E k \in Keys : o \in {keyOf[k], keyOf'[k]} /\ key'[k] # key[k]
           => \E r \in Requests : req'[r] # req[r] /\ Entitled(req[r], o)]_vars
  <2> SUFFICES ASSUME IInv, KInv, Next, NEW o \in Orgs, Live(o), Changes(o)
               PROVE  \E r \in Requests : req'[r] # req[r] /\ Entitled(req[r], o)
    BY DEF Changes
  <2>1. PICK r \in Requests : Ask(r) \/ Check(r) \/ Write(r) \/ Abort(r)
    BY DEF Next
  <2>2. ~(Ask(r) \/ Check(r))
    BY ChecksChangeNothing
  <2>3. ~Abort(r)
    BY DEF Abort, rows, keyVars, Changes, Live
  <2> QED
    BY <2>1, <2>2, <2>3, MembersEntitled, RowsEntitled, OrganizationEntitled DEF Write
<1> QED
  BY <1>1, InvCorrect, RequestsKnow, PTL DEF Spec, OnlyEntitled

-----------------------------------------------------------------------------
(* Permissions: what evaluations have read, and what changes still delete.  *)

PermissionsSpec == InitPermissions /\ [][NextPermissions]_permVars

RoleValues == RoleNames \union {Absent}
Edit == [op : {"none", "members", "drop", "delete", "assign"}, user : Members \union {Absent},
         role : RoleValues, keys : SUBSET Members]
Evaluation == [step : {"none", "role", "custom", "store"}, user : Members \union {Absent},
               base : SUBSET Permits, role : RoleValues, late : BOOLEAN]

PermissionTypes ==
  /\ held \in [Members -> RoleValues]
  /\ grants \in (SUBSET Permits) \union {Absent}
  /\ given \in [Members -> SUBSET Permits] /\ denied \in [Members -> SUBSET Permits]
  /\ entry \in [Members -> (SUBSET Permits) \union {Absent}]
  /\ edit \in [Editors -> Edit]
  /\ eval \in [Readers -> Evaluation]

\* An evaluation that no change has overtaken holds what the tables say now.
Reads(q) ==
  /\ q.step = "role" => q.role = RoleOf(q.user)
  /\ q.step = "custom" => q.base = Base(RoleOf(q.user))
  /\ q.step = "store" => q.base = Effective(q.user)
Evaluating ==
  \A r \in Readers :
    eval[r].step # "none" => eval[r].user \in Members /\ (~eval[r].late => Reads(eval[r]))

\* Only a change in its last step has keys to delete.
Editing ==
  \A e \in Editors : /\ edit[e].op # "delete" => edit[e].keys = {}
                     /\ edit[e].op = "assign" => edit[e].user \in Members

PermissionInv == PermissionTypes /\ Editing /\ Evaluating /\ StaleHasCause

LEMMA Answers ==
  ASSUME PermissionTypes
  PROVE  /\ \A x : Base(x) \in SUBSET Permits
         /\ \A u \in Members : RoleOf(u) \in RoleValues /\ Effective(u) \in SUBSET Permits
<1>1. ASSUME NEW x PROVE Base(x) \in SUBSET Permits
  <2>1. SystemRoles["viewer"] \subseteq Permits
    BY ViewerAssumption, SystemRolesAssumption
  <2>2. CASE x \in DOMAIN SystemRoles
    BY <2>2, ViewerAssumption, SystemRolesAssumption DEF Base
  <2>3. CASE x \notin DOMAIN SystemRoles /\ x = Custom /\ grants # Absent
    <3>1. Base(x) = grants
      BY <2>3 DEF Base
    <3> QED
      BY <2>3, <3>1 DEF PermissionTypes
  <2>4. CASE x \notin DOMAIN SystemRoles /\ ~(x = Custom /\ grants # Absent)
    BY <2>1, <2>4 DEF Base
  <2> QED
    BY <2>2, <2>3, <2>4
<1>2. ASSUME NEW u \in Members PROVE RoleOf(u) \in RoleValues
  BY ViewerAssumption DEF PermissionTypes, RoleOf, RoleValues, RoleNames
<1>3. ASSUME NEW u \in Members PROVE Effective(u) \in SUBSET Permits
  <2>1. Base(RoleOf(u)) \in SUBSET Permits
    BY <1>1
  <2> QED
    BY <2>1 DEF PermissionTypes, Effective, Resolve
<1> QED
  BY <1>1, <1>2, <1>3

LEMMA NoEditType == NoEdit \in Edit /\ NoEdit.op = "none" /\ NoEdit.keys = {}
  BY DEF NoEdit, Edit, RoleValues

\* A change goes on to op with these keys.
LEMMA EditMoves ==
  ASSUME PermissionTypes, Editing, NEW e \in Editors,
         NEW op \in {"none", "members", "drop", "delete"}, NEW keys \in SUBSET Members,
         Edits(e, op, keys), op # "delete" => keys = {}
  PROVE  /\ edit' \in [Editors -> Edit] /\ Editing'
         /\ edit'[e].op = op /\ edit'[e].keys = keys
         /\ \A f \in Editors \ {e} : edit'[f] = edit[f]
<1> DEFINE x == [NoEdit EXCEPT !.op = op, !.keys = keys]
<1>1. x \in Edit /\ x.op = op /\ x.keys = keys
  BY DEF NoEdit, Edit, RoleValues
<1>2. edit' = [edit EXCEPT ![e] = x]
  BY DEF Edits
<1> HIDE DEF x
<1>3. edit' \in [Editors -> Edit] /\ edit'[e] = x /\ \A f \in Editors \ {e} : edit'[f] = edit[f]
  BY <1>1, <1>2 DEF PermissionTypes
<1> QED
  BY <1>1, <1>3 DEF Editing

\* A change that had nothing to delete takes no cause from anybody whose role stays.
LEMMA CausesStay ==
  ASSUME NEW e \in Editors, \A f \in Editors \ {e} : edit'[f] = edit[f],
         edit[e].op # "members", edit[e].keys = {},
         NEW users, \A u \in Members \ users : held'[u] = held[u]
  PROVE  \A u \in Members \ users : Invalidating(u) => Invalidating(u)'
  BY DEF Invalidating, Holders

\* The tables change for some users only: their evaluations are overtaken, and
\* their entries have a cause.
LEMMA TablesChange ==
  ASSUME PermissionInv, NEW users, Overtake(users), UNCHANGED entry,
         \A u \in Members \ users : /\ held'[u] = held[u] /\ given'[u] = given[u]
                                    /\ denied'[u] = denied[u]
                                    /\ Base(RoleOf(u))' = Base(RoleOf(u))
                                    /\ Invalidating(u) => Invalidating(u)',
         \A u \in Members \intersect users : entry[u] = Absent \/ u \in excused' \/ Invalidating(u)',
         excused \subseteq excused'
  PROVE  eval' \in [Readers -> Evaluation] /\ Evaluating' /\ StaleHasCause'
<1> USE DEF PermissionInv
<1>1. ASSUME NEW r \in Readers
      PROVE  /\ eval'[r] \in Evaluation
             /\ eval'[r].step = eval[r].step /\ eval'[r].user = eval[r].user
             /\ eval'[r].base = eval[r].base /\ eval'[r].role = eval[r].role
             /\ ~eval'[r].late => ~eval[r].late /\ eval[r].user \notin users
  <2>1. eval[r] \in Evaluation
    BY DEF PermissionTypes
  <2>2. eval'[r] = [eval[r] EXCEPT !.late = @ \/ eval[r].user \in users]
    BY DEF Overtake
  <2> QED
    BY <2>1, <2>2 DEF Evaluation
<1>2. eval' \in [Readers -> Evaluation]
  <2>1. \A r \in Readers : [eval[r] EXCEPT !.late = @ \/ eval[r].user \in users] \in Evaluation
    BY DEF PermissionTypes, Evaluation
  <2> QED
    BY <2>1 DEF Overtake
<1>3. \A u \in Members \ users : RoleOf(u)' = RoleOf(u) /\ Effective(u)' = Effective(u)
  BY DEF RoleOf, Effective
<1>4. Evaluating'
  <2> SUFFICES ASSUME NEW r \in Readers, eval'[r].step # "none"
               PROVE  eval'[r].user \in Members /\ (~eval'[r].late => Reads(eval[r])')
    BY DEF Evaluating
  <2>1. eval[r].user \in Members /\ (~eval[r].late => Reads(eval[r]))
    BY <1>1 DEF Evaluating
  <2> QED
    BY <1>1, <1>3, <2>1 DEF Reads
<1>5. StaleHasCause'
  BY <1>3 DEF StaleHasCause
<1> QED
  BY <1>2, <1>4, <1>5

\* The tables stay: entries are deleted, stored as evaluated, or keep their cause.
LEMMA TablesStay ==
  ASSUME PermissionInv, UNCHANGED <<held, grants, given, denied>>,
         \A u \in Members :
           \/ entry'[u] \in {Absent, Effective(u)} \/ u \in excused'
           \/ /\ entry'[u] = entry[u] /\ (u \in excused => u \in excused')
              /\ Invalidating(u) => Invalidating(u)'
  PROVE  StaleHasCause'
<1>1. \A u \in Members : Effective(u)' = Effective(u)
  BY DEF Effective, RoleOf, Base
<1> QED
  BY <1>1 DEF PermissionInv, StaleHasCause

-----------------------------------------------------------------------------
(* Permissions: the steps.                                                  *)

\* One evaluation goes on.
LEMMA EvalMoves ==
  ASSUME PermissionInv, NEW r \in Readers, NEW q \in Evaluation, eval' = [eval EXCEPT ![r] = q],
         UNCHANGED <<held, grants, given, denied>>,
         q.step # "none" => q.user \in Members /\ (~q.late => Reads(q))
  PROVE  eval' \in [Readers -> Evaluation] /\ Evaluating'
<1>1. eval' \in [Readers -> Evaluation] /\ eval'[r] = q /\ \A x \in Readers \ {r} : eval'[x] = eval[x]
  BY DEF PermissionInv, PermissionTypes
<1>2. \A x : Reads(x)' <=> Reads(x)
  BY DEF Reads, RoleOf, Base, Effective
<1>3. ASSUME NEW x \in Readers, eval'[x].step # "none"
      PROVE  eval'[x].user \in Members /\ (~eval'[x].late => Reads(eval'[x]))
  BY <1>1, <1>3 DEF PermissionInv, Evaluating
<1> QED
  BY <1>1, <1>2, <1>3 DEF Evaluating

LEMMA EvaluationStep ==
  ASSUME PermissionInv, NEW r \in Readers,
         ReadHeldRole(r) \/ ReadGrants(r) \/ ReadCustom(r) \/ Store(r)
  PROVE  PermissionInv'
<1> USE DEF PermissionInv
<1>1. /\ UNCHANGED <<held, grants, given, denied, edit>>
      /\ \A u : Invalidating(u)' <=> Invalidating(u)
  BY DEF ReadHeldRole, ReadGrants, ReadCustom, Store, Unchanged, Invalidating, Holders
<1>2. eval[r] \in Evaluation
  BY DEF PermissionTypes
<1>3. Editing'
  BY <1>1 DEF Editing
<1>4. ASSUME UNCHANGED <<entry, excused>>, eval' \in [Readers -> Evaluation], Evaluating'
      PROVE  PermissionInv'
  <2>1. StaleHasCause'
    BY <1>1, <1>4, TablesStay
  <2> QED
    BY <1>1, <1>3, <1>4, <2>1 DEF PermissionTypes
<1>5. CASE ReadHeldRole(r)
  <2>1. PICK u \in Members :
          eval' = [eval EXCEPT ![r] = [NoEval EXCEPT !.step = "role", !.user = u, !.role = RoleOf(u)]]
    BY <1>5 DEF ReadHeldRole
  <2> DEFINE q == [NoEval EXCEPT !.step = "role", !.user = u, !.role = RoleOf(u)]
  <2>2. RoleOf(u) \in RoleValues
    BY Answers
  <2>3. q \in Evaluation /\ q.step = "role" /\ q.user = u /\ q.role = RoleOf(u)
    BY <2>2 DEF NoEval, Evaluation
  <2> HIDE DEF q
  <2>4. eval' \in [Readers -> Evaluation] /\ Evaluating'
    BY <1>1, <2>1, <2>3, EvalMoves DEF q, Reads
  <2> QED
    BY <1>4, <1>5, <2>4 DEF ReadHeldRole
<1>6. CASE ReadGrants(r)
  <2> DEFINE b == Base(eval[r].role)
             q == [eval[r] EXCEPT !.step = "custom", !.base = b, !.role = Absent]
  <2>1. b \in SUBSET Permits
    BY Answers
  <2> HIDE DEF b
  <2>2. /\ q \in Evaluation /\ q.step = "custom" /\ q.base = b /\ q.user = eval[r].user
        /\ q.late = eval[r].late
    BY <1>2, <2>1 DEF Evaluation, RoleValues
  <2>3. eval' = [eval EXCEPT ![r] = q]
    BY <1>6 DEF ReadGrants, PermissionTypes, b
  <2> HIDE DEF q
  <2>4. q.user \in Members /\ (~q.late => Reads(q))
    BY <1>6, <2>2 DEF ReadGrants, EvalStep, Evaluating, Reads, b
  <2>5. eval' \in [Readers -> Evaluation] /\ Evaluating'
    BY <1>1, <2>2, <2>3, <2>4, EvalMoves
  <2> QED
    BY <1>4, <1>6, <2>5 DEF ReadGrants
<1>7. CASE ReadCustom(r)
  <2> DEFINE u == eval[r].user
             b == Resolve(eval[r].base, given[u], denied[u])
             q == [eval[r] EXCEPT !.step = "store", !.base = b]
  <2>1. u \in Members /\ eval[r].step = "custom"
    BY <1>7 DEF ReadCustom, EvalStep, Evaluating
  <2>2. b \in SUBSET Permits
    BY <1>2, <2>1 DEF Resolve, PermissionTypes, Evaluation
  <2>3. ~eval[r].late => b = Effective(u)
    BY <2>1 DEF Evaluating, Reads, Effective
  <2>4. eval' = [eval EXCEPT ![r] = q]
    BY <1>7 DEF ReadCustom, PermissionTypes
  <2> HIDE DEF b
  <2>5. q \in Evaluation /\ q.step = "store" /\ q.base = b /\ q.user = u /\ q.late = eval[r].late
    BY <1>2, <2>2 DEF Evaluation
  <2> HIDE DEF q, u
  <2>6. eval' \in [Readers -> Evaluation] /\ Evaluating'
    BY <1>1, <2>1, <2>3, <2>4, <2>5, EvalMoves DEF Reads
  <2> QED
    BY <1>4, <1>7, <2>6 DEF ReadCustom
<1>8. CASE Store(r)
  <2> DEFINE u == eval[r].user
  <2>1. /\ u \in Members /\ eval[r].base \in SUBSET Permits
        /\ ~eval[r].late => eval[r].base = Effective(u)
    BY <1>2, <1>8 DEF Store, EvalStep, Evaluating, Reads, Evaluation
  <2>2. NoEval \in Evaluation /\ NoEval.step = "none"
    BY DEF NoEval, Evaluation, RoleValues
  <2>3. eval' \in [Readers -> Evaluation] /\ Evaluating'
    BY <1>1, <1>8, <2>2, EvalMoves DEF Store
  <2>4. CASE UNCHANGED <<entry, excused>>
    BY <1>4, <2>3, <2>4
  <2>5. CASE /\ entry' = [entry EXCEPT ![u] = eval[r].base]
             /\ excused' = IF eval[r].late THEN excused \union {u} ELSE excused \ {u}
    <3>1. /\ entry' \in [Members -> (SUBSET Permits) \union {Absent}]
          /\ entry'[u] = eval[r].base /\ \A w \in Members \ {u} : entry'[w] = entry[w]
      BY <2>1, <2>5 DEF PermissionTypes
    <3>2. StaleHasCause'
      BY <1>1, <2>1, <2>5, <3>1, TablesStay
    <3> QED
      BY <1>1, <1>3, <2>3, <3>1, <3>2 DEF PermissionTypes
  <2> QED
    BY <1>8, <2>4, <2>5 DEF Store
<1> QED
  BY <1>5, <1>6, <1>7, <1>8

LEMMA ExpireStep ==
  ASSUME PermissionInv, NEW u \in Members, Expire(u)
  PROVE  PermissionInv'
<1> USE DEF PermissionInv
<1>1. /\ entry' \in [Members -> (SUBSET Permits) \union {Absent}]
      /\ entry'[u] = Absent /\ \A w \in Members \ {u} : entry'[w] = entry[w]
  <2>1. entry \in [Members -> (SUBSET Permits) \union {Absent}]
    BY DEF PermissionTypes
  <2>2. entry' = [entry EXCEPT ![u] = Absent]
    BY DEF Expire
  <2> QED
    BY <2>1, <2>2
<1>2. UNCHANGED <<held, grants, given, denied, edit, eval>> /\ excused' = excused \ {u}
  BY DEF Expire, Unchanged
<1>3. \A w : Invalidating(w)' <=> Invalidating(w)
  BY <1>2 DEF Invalidating, Holders
<1>4. StaleHasCause'
  BY <1>1, <1>2, <1>3, TablesStay
<1>5. Editing' /\ Evaluating'
  BY <1>2 DEF Editing, Evaluating, Reads, RoleOf, Base, Effective
<1> QED
  BY <1>1, <1>2, <1>4, <1>5 DEF PermissionTypes

\* Steps of a change before and after its commit.
LEMMA EditStep ==
  ASSUME PermissionInv, NEW e \in Editors,
         FindMembers(e) \/ LookUpMembers(e) \/ DeleteKey(e) \/ FindRole(e)
  PROVE  PermissionInv'
<1> USE DEF PermissionInv
<1>1. UNCHANGED <<held, grants, given, denied, eval>>
  BY DEF FindMembers, LookUpMembers, DeleteKey, FindRole
<1>2. Evaluating'
  BY <1>1 DEF Evaluating, Reads, RoleOf, Base, Effective
<1>3. ASSUME edit' \in [Editors -> Edit], Editing', StaleHasCause',
             entry' \in [Members -> (SUBSET Permits) \union {Absent}]
      PROVE  PermissionInv'
  BY <1>1, <1>2, <1>3 DEF PermissionTypes
<1>4. entry \in [Members -> (SUBSET Permits) \union {Absent}]
  BY DEF PermissionTypes
<1>5. Holders \subseteq Members
  BY DEF Holders
<1>6. CASE FindMembers(e) \/ FindRole(e)
  <2>1. edit[e].op = "none" /\ edit[e].keys = {} /\ UNCHANGED <<entry, excused>>
    BY <1>6, NoEditType DEF FindMembers, FindRole, Free
  <2>2. /\ edit' \in [Editors -> Edit] /\ Editing'
        /\ \A f \in Editors \ {e} : edit'[f] = edit[f]
    <3>1. CASE FindMembers(e)
      BY <3>1, EditMoves DEF FindMembers
    <3>2. CASE FindRole(e)
      <4>1. PICK u \in Members, x \in RoleNames :
              edit' = [edit EXCEPT ![e] = [op |-> "assign", user |-> u, role |-> x, keys |-> {}]]
        BY <3>2 DEF FindRole
      <4> DEFINE c == [op |-> "assign", user |-> u, role |-> x, keys |-> {}]
      <4>2. c \in Edit /\ c.op = "assign" /\ c.user = u /\ c.keys = {}
        BY DEF Edit, RoleValues
      <4> HIDE DEF c
      <4>3. /\ edit' \in [Editors -> Edit] /\ edit'[e] = c
            /\ \A f \in Editors \ {e} : edit'[f] = edit[f]
        BY <4>1, <4>2 DEF PermissionTypes, c
      <4> QED
        BY <4>2, <4>3 DEF Editing
    <3> QED
      BY <1>6, <3>1, <3>2
  <2>3. \A u \in Members \ {} : Invalidating(u) => Invalidating(u)'
    BY <1>1, <2>1, <2>2, CausesStay
  <2>4. StaleHasCause'
    BY <1>1, <2>1, <2>3, TablesStay
  <2> QED
    BY <1>3, <1>4, <2>1, <2>2, <2>4
<1>7. CASE LookUpMembers(e)
  <2> DEFINE op == IF Holders = {} THEN "none" ELSE "delete"
  <2>1. /\ edit[e].op = "members" /\ edit[e].keys = {} /\ Edits(e, op, Holders)
        /\ UNCHANGED <<entry, excused>>
    BY <1>7 DEF LookUpMembers, Editing
  <2>2. op \in {"none", "delete"} /\ (op # "delete" => Holders = {})
    OBVIOUS
  <2> HIDE DEF op
  <2>3. /\ edit' \in [Editors -> Edit] /\ Editing' /\ edit'[e].keys = Holders
        /\ \A f \in Editors \ {e} : edit'[f] = edit[f]
    BY <1>5, <2>1, <2>2, EditMoves
  <2>4. \A u \in Members : Invalidating(u) => Invalidating(u)'
    BY <1>1, <2>1, <2>3 DEF Invalidating, Holders
  <2>5. StaleHasCause'
    BY <1>1, <2>1, <2>4, TablesStay
  <2> QED
    BY <1>3, <1>4, <2>1, <2>3, <2>5
<1>8. CASE DeleteKey(e)
  <2>1. PICK u \in edit[e].keys :
          /\ Edits(e, IF edit[e].keys = {u} THEN "none" ELSE "delete", edit[e].keys \ {u})
          /\ \/ entry' = [entry EXCEPT ![u] = Absent] /\ excused' = excused \ {u}
             \/ UNCHANGED entry /\ Excuse({u})
    BY <1>8 DEF DeleteKey
  <2> DEFINE op == IF edit[e].keys = {u} THEN "none" ELSE "delete"
             keys == edit[e].keys \ {u}
  <2>2. /\ edit[e].op = "delete" /\ edit[e].keys \subseteq Members /\ u \in Members
        /\ keys \in SUBSET Members
    BY <1>8 DEF DeleteKey, PermissionTypes, Edit
  <2>3. op \in {"none", "delete"} /\ (op # "delete" => keys = {}) /\ Edits(e, op, keys)
    BY <2>1
  <2>4. \A w \in edit[e].keys : w # u => w \in keys
    OBVIOUS
  <2> HIDE DEF op, keys
  <2>5. /\ edit' \in [Editors -> Edit] /\ Editing' /\ edit'[e].keys = keys
        /\ \A f \in Editors \ {e} : edit'[f] = edit[f]
    BY <2>2, <2>3, EditMoves
  <2>6. \A w \in Members \ {u} : Invalidating(w) => Invalidating(w)'
    BY <1>1, <2>2, <2>4, <2>5 DEF Invalidating, Holders
  <2>7. /\ entry' \in [Members -> (SUBSET Permits) \union {Absent}]
        /\ \A w \in Members \ {u} : entry'[w] = entry[w] /\ (w \in excused => w \in excused')
        /\ entry'[u] = Absent \/ u \in excused'
    <3>1. CASE entry' = [entry EXCEPT ![u] = Absent] /\ excused' = excused \ {u}
      BY <1>4, <2>2, <3>1
    <3>2. CASE UNCHANGED entry /\ Excuse({u})
      BY <1>4, <2>2, <3>2 DEF Excuse
    <3> QED
      BY <2>1, <3>1, <3>2
  <2>8. StaleHasCause'
    BY <1>1, <2>6, <2>7, TablesStay
  <2> QED
    BY <1>3, <2>5, <2>7, <2>8
<1> QED
  BY <1>6, <1>7, <1>8

\* The role of who does not hold the custom one is not a matter of its grants.
LEMMA GrantsOfOthers ==
  ASSUME PermissionTypes, NEW u \in Members \ Holders, held'[u] = held[u]
  PROVE  Base(RoleOf(u))' = Base(RoleOf(u))
<1>1. RoleOf(u) # Custom \/ RoleOf(u) \in DOMAIN SystemRoles
  BY ViewerAssumption DEF RoleOf, Holders
<1> QED
  BY <1>1 DEF Base, RoleOf

\* Changes of the custom role concern those who hold it.
LEMMA RoleStep ==
  ASSUME PermissionInv,
         CreateRole \/ \E e \in Editors : UpdateRole(e) \/ DeleteRole(e)
  PROVE  PermissionInv'
<1> USE DEF PermissionInv
<1>1. UNCHANGED <<held, given, denied, entry>>
  BY DEF CreateRole, UpdateRole, DeleteRole
<1>2. ASSUME grants' \in (SUBSET Permits) \union {Absent}, Overtake(Holders), excused \subseteq excused',
             edit' \in [Editors -> Edit], Editing',
             \A u \in Members : Invalidating(u) => Invalidating(u)',
             \A u \in Holders : entry[u] = Absent \/ u \in excused' \/ Invalidating(u)'
      PROVE  PermissionInv'
  <2>1. \A u \in Members \ Holders : Base(RoleOf(u))' = Base(RoleOf(u))
    BY <1>1, GrantsOfOthers
  <2>2. eval' \in [Readers -> Evaluation] /\ Evaluating' /\ StaleHasCause'
    BY <1>1, <1>2, <2>1, TablesChange
  <2> QED
    BY <1>1, <1>2, <2>2 DEF PermissionTypes
<1>3. CASE CreateRole
  <2>1. /\ edit' = edit /\ grants' \in SUBSET Permits /\ Overtake(Holders)
        /\ excused' = excused \union {u \in Holders : entry[u] # Absent}
    BY <1>3 DEF CreateRole, Excuse
  <2>2. \A u \in Members : Invalidating(u) => Invalidating(u)'
    BY <1>1, <2>1 DEF Invalidating, Holders
  <2>3. edit' \in [Editors -> Edit] /\ Editing'
    BY <2>1 DEF PermissionTypes, Editing
  <2> QED
    BY <1>2, <2>1, <2>2, <2>3
<1>4. ASSUME NEW e \in Editors, UpdateRole(e) \/ DeleteRole(e) PROVE PermissionInv'
  <2>1. /\ edit[e].op # "members" /\ edit[e].keys = {} /\ excused' = excused
    BY <1>4, NoEditType DEF UpdateRole, DeleteRole, Free, Editing
  <2>2. CASE /\ grants' \in (SUBSET Permits) \union {Absent} /\ Overtake(Holders)
             /\ Edits(e, "members", {})
    <3>1. /\ edit' \in [Editors -> Edit] /\ Editing' /\ edit'[e].op = "members"
          /\ \A f \in Editors \ {e} : edit'[f] = edit[f]
      BY <2>2, EditMoves
    <3>2. \A u \in Members \ {} : Invalidating(u) => Invalidating(u)'
      BY <1>1, <2>1, <3>1, CausesStay
    <3>3. \A u \in Holders : Invalidating(u)'
      BY <1>1, <3>1 DEF Invalidating, Holders
    <3> QED
      BY <1>2, <2>1, <2>2, <3>1, <3>2, <3>3
  <2>3. CASE UNCHANGED <<grants, eval>> /\ Edits(e, "none", {})
    <3>1. /\ edit' \in [Editors -> Edit] /\ Editing' /\ \A f \in Editors \ {e} : edit'[f] = edit[f]
      BY <2>3, EditMoves
    <3>2. \A u \in Members \ {} : Invalidating(u) => Invalidating(u)'
      BY <1>1, <2>1, <3>1, CausesStay
    <3>3. StaleHasCause'
      BY <1>1, <2>1, <2>3, <3>2, TablesStay
    <3>4. Evaluating'
      BY <1>1, <2>3 DEF Evaluating, Reads, RoleOf, Base, Effective
    <3> QED
      BY <1>1, <2>3, <3>1, <3>3, <3>4 DEF PermissionTypes
  <2>4. CASE UpdateRole(e)
    BY <2>2, <2>4 DEF UpdateRole
  <2>5. CASE DeleteRole(e)
    BY <2>2, <2>3, <2>5 DEF DeleteRole
  <2> QED
    BY <1>4, <2>4, <2>5
<1> QED
  BY <1>3, <1>4

\* Changes of one user's rows.
LEMMA UserStep ==
  ASSUME PermissionInv, NEW u \in Members, UNCHANGED <<grants, entry>>, Overtake({u}),
         held' \in [Members -> RoleValues],
         given' \in [Members -> SUBSET Permits], denied' \in [Members -> SUBSET Permits],
         \A w \in Members \ {u} : held'[w] = held[w] /\ given'[w] = given[w] /\ denied'[w] = denied[w],
         edit' \in [Editors -> Edit], Editing',
         \A w \in Members \ {u} : Invalidating(w) => Invalidating(w)',
         excused \subseteq excused',
         entry[u] = Absent \/ u \in excused' \/ Invalidating(u)'
  PROVE  PermissionInv'
<1>1. \A w \in Members \ {u} : Base(RoleOf(w))' = Base(RoleOf(w))
  BY DEF Base, RoleOf
<1>2. \A w \in Members \intersect {u} : entry[w] = Absent \/ w \in excused' \/ Invalidating(w)'
  OBVIOUS
<1>3. eval' \in [Readers -> Evaluation] /\ Evaluating' /\ StaleHasCause'
  BY <1>1, <1>2, TablesChange
<1> QED
  BY <1>3 DEF PermissionInv, PermissionTypes

LEMMA UserEditStep ==
  ASSUME PermissionInv, NEW e \in Editors, AssignRole(e) \/ ChangeCustom(e)
  PROVE  PermissionInv'
<1> USE DEF PermissionInv
<1>1. edit[e].op # "members" /\ edit[e].keys = {} /\ UNCHANGED <<grants, entry, excused>>
  BY NoEditType DEF AssignRole, ChangeCustom, Free, Editing
<1>2. ASSUME NEW u \in Members, Edits(e, "delete", {u}),
             \A w \in Members \ {u} : held'[w] = held[w]
      PROVE  /\ edit' \in [Editors -> Edit] /\ Editing' /\ Invalidating(u)'
             /\ \A w \in Members \ {u} : Invalidating(w) => Invalidating(w)'
  <2>1. /\ edit' \in [Editors -> Edit] /\ Editing' /\ edit'[e].keys = {u}
        /\ \A f \in Editors \ {e} : edit'[f] = edit[f]
    BY <1>2, EditMoves
  <2>2. Invalidating(u)'
    BY <2>1 DEF Invalidating
  <2>3. \A w \in Members \ {u} : Invalidating(w) => Invalidating(w)'
    BY <1>1, <1>2, <2>1, CausesStay
  <2> QED
    BY <2>1, <2>2, <2>3
<1>3. CASE AssignRole(e)
  <2> PICK u : u = edit[e].user
    OBVIOUS
  <2>1. u \in Members /\ edit[e].role \in RoleValues /\ UNCHANGED <<given, denied>>
    BY <1>3 DEF AssignRole, Editing, PermissionTypes, Edit
  <2>2. CASE Edits(e, "none", {}) /\ UNCHANGED <<held, eval>>
    <3>1. /\ edit' \in [Editors -> Edit] /\ Editing' /\ \A f \in Editors \ {e} : edit'[f] = edit[f]
      BY <2>2, EditMoves
    <3>2. \A w \in Members \ {} : Invalidating(w) => Invalidating(w)'
      BY <1>1, <2>2, <3>1, CausesStay
    <3>3. StaleHasCause'
      BY <1>1, <2>1, <2>2, <3>2, TablesStay
    <3>4. Evaluating'
      BY <1>1, <2>1, <2>2 DEF Evaluating, Reads, RoleOf, Base, Effective
    <3> QED
      BY <1>1, <2>1, <2>2, <3>1, <3>3, <3>4 DEF PermissionTypes
  <2>3. CASE /\ held' = [held EXCEPT ![u] = edit[e].role] /\ Edits(e, "delete", {u})
             /\ Overtake({u})
    <3>1. held' \in [Members -> RoleValues] /\ \A w \in Members \ {u} : held'[w] = held[w]
      BY <2>1, <2>3 DEF PermissionTypes
    <3>2. /\ given' \in [Members -> SUBSET Permits] /\ denied' \in [Members -> SUBSET Permits]
      BY <2>1 DEF PermissionTypes
    <3>3. /\ edit' \in [Editors -> Edit] /\ Editing' /\ Invalidating(u)'
          /\ \A w \in Members \ {u} : Invalidating(w) => Invalidating(w)'
      BY <1>2, <2>1, <2>3, <3>1
    <3> QED
      BY <1>1, <2>1, <2>3, <3>1, <3>2, <3>3, UserStep
  <2> QED
    BY <1>3, <2>2, <2>3 DEF AssignRole
<1>4. CASE ChangeCustom(e)
  <2>1. PICK u \in Members, c \in Grants :
          /\ given' = [given EXCEPT ![u] = c.plus] /\ denied' = [denied EXCEPT ![u] = c.minus]
          /\ Edits(e, "delete", {u}) /\ Overtake({u})
    BY <1>4 DEF ChangeCustom
  <2>2. held' = held /\ c.plus \in SUBSET Permits /\ c.minus \in SUBSET Permits
    BY <1>4 DEF ChangeCustom, Grants
  <2>3. /\ held' \in [Members -> RoleValues]
        /\ given' \in [Members -> SUBSET Permits] /\ denied' \in [Members -> SUBSET Permits]
        /\ \A w \in Members \ {u} : held'[w] = held[w] /\ given'[w] = given[w] /\ denied'[w] = denied[w]
    BY <2>1, <2>2 DEF PermissionTypes
  <2>4. /\ edit' \in [Editors -> Edit] /\ Editing' /\ Invalidating(u)'
        /\ \A w \in Members \ {u} : Invalidating(w) => Invalidating(w)'
    BY <1>2, <2>1, <2>3
  <2> QED
    BY <1>1, <2>1, <2>3, <2>4, UserStep
<1> QED
  BY <1>3, <1>4

LEMMA SilentStep ==
  ASSUME PermissionInv, NEW u \in Members, ExpireCustom(u) \/ ChangeMembership(u)
  PROVE  PermissionInv'
<1> USE DEF PermissionInv
<1>1. /\ UNCHANGED <<grants, entry, edit>> /\ Overtake({u})
      /\ excused' = excused \union {w \in {u} : entry[w] # Absent}
  BY DEF ExpireCustom, ChangeMembership, Excuse
<1>2. /\ held' \in [Members -> RoleValues]
      /\ given' \in [Members -> SUBSET Permits] /\ denied' \in [Members -> SUBSET Permits]
      /\ \A w \in Members \ {u} : held'[w] = held[w] /\ given'[w] = given[w] /\ denied'[w] = denied[w]
  <2>1. CASE ExpireCustom(u)
    BY <2>1 DEF ExpireCustom, PermissionTypes
  <2>2. CASE ChangeMembership(u)
    <3>1. PICK x \in DOMAIN SystemRoles \union {Absent} : held' = [held EXCEPT ![u] = x]
      BY <2>2 DEF ChangeMembership
    <3> QED
      BY <2>2, <3>1 DEF ChangeMembership, PermissionTypes, RoleValues, RoleNames
  <2> QED
    BY <2>1, <2>2
<1>3. edit' \in [Editors -> Edit] /\ Editing'
  BY <1>1 DEF PermissionTypes, Editing
<1>4. \A w \in Members \ {u} : Invalidating(w) => Invalidating(w)'
  BY <1>1, <1>2 DEF Invalidating, Holders
<1>5. entry[u] = Absent \/ u \in excused'
  BY <1>1
<1> QED
  BY <1>1, <1>2, <1>3, <1>4, <1>5, UserStep

LEMMA InitPermissionInv == InitPermissions => PermissionInv
<1> SUFFICES ASSUME InitPermissions PROVE PermissionInv
  OBVIOUS
<1>1. NoEval \in Evaluation /\ NoEval.step = "none"
  BY DEF NoEval, Evaluation, RoleValues
<1>2. held \in [Members -> RoleValues]
  BY ViewerAssumption DEF InitPermissions, RoleValues, RoleNames
<1>3. PermissionTypes
  <2>1. grants \in (SUBSET Permits) \union {Absent} /\ entry \in [Members -> (SUBSET Permits) \union {Absent}]
    BY DEF InitPermissions
  <2>2. given \in [Members -> SUBSET Permits] /\ denied \in [Members -> SUBSET Permits]
    BY DEF InitPermissions
  <2>3. edit \in [Editors -> Edit] /\ eval \in [Readers -> Evaluation]
    BY <1>1, NoEditType DEF InitPermissions
  <2> QED
    BY <1>2, <2>1, <2>2, <2>3 DEF PermissionTypes
<1>4. Editing /\ Evaluating
  BY <1>1, NoEditType DEF InitPermissions, Editing, Evaluating
<1> QED
  BY <1>3, <1>4 DEF InitPermissions, PermissionInv, StaleHasCause

LEMMA NextPermissionInv == PermissionInv /\ [NextPermissions]_permVars => PermissionInv'
<1> SUFFICES ASSUME PermissionInv, [NextPermissions]_permVars PROVE PermissionInv'
  OBVIOUS
<1>1. CASE NextPermissions
  BY <1>1, EvaluationStep, EditStep, RoleStep, UserEditStep, ExpireStep, SilentStep
     DEF NextPermissions
<1>2. CASE UNCHANGED permVars
  BY <1>2 DEF permVars, PermissionInv, PermissionTypes, Editing, Evaluating, Reads, RoleOf,
     Base, Effective, StaleHasCause, Invalidating, Holders
<1> QED
  BY <1>1, <1>2

\* A cached answer of get_effective_permissions is what the tables say, unless
\* its deletion is under way or it has one of the causes StaleHasCause names, for
\* any number of changes and evaluations that overlap.
THEOREM AnswersHaveCause == PermissionsSpec => []StaleHasCause
<1>1. PermissionInv => StaleHasCause
  BY DEF PermissionInv
<1> QED
  BY <1>1, InitPermissionInv, NextPermissionInv, PTL DEF PermissionsSpec

-----------------------------------------------------------------------------
(* Identities of agents and their credentials.                              *)

AuthSpec == InitAuth /\ [][NextAuth]_authVars

Credential == [agent : Agents, print : Prints]
AuthCall == [op : {"none", "register", "issue", "revoke"},
             step : {"role", "agent", "print", "credential", "write"},
             by : Staff \union {Nobody}, firm : Firms \union {Nobody},
             agent : Agents \union {Nobody}, print : Prints \union {Nobody},
             cred : Credentials \union {Nobody}, moved : BOOLEAN]

AuthTypes ==
  /\ manages \in [Firms -> SUBSET Staff]
  /\ firmOf \in [Agents -> Firms \union {Nobody}]
  /\ issued \in [Credentials -> Credential \union {Nobody}]
  /\ revoked \subseteq {c \in Credentials : issued[c] # Nobody}
  /\ call \in [Calls -> AuthCall]

\* What is deleted does not come back, and a credential goes with its agent.
Deleted ==
  /\ \A a \in Agents \intersect erased : firmOf[a] = Nobody
  /\ \A c \in Credentials \intersect erased : issued[c] = Nobody
  /\ \A c \in Credentials : issued[c] # Nobody => firmOf[issued[c].agent] # Nobody

\* What a request has been asked for, and what its statements have found: its
\* caller manages the organization or that has changed since, its agent is one of
\* the organization or deleted, its credential one of the agent or deleted.
Argued(q) ==
  /\ q.op # "none" => q.by \in Staff /\ q.firm \in Firms
  /\ q.op \in {"issue", "revoke"} => q.agent \in Agents
  /\ q.op = "issue" => q.print \in Prints
  /\ q.op = "revoke" => q.cred \in Credentials
  /\ q.op = "none" => q.step = "role"
Allows(q) == q.step # "role" => q.moved \/ q.by \in manages[q.firm]
Owned(q) ==
  q.op \in {"issue", "revoke"} /\ q.step \notin {"role", "agent"} =>
    firmOf[q.agent] = q.firm \/ q.agent \in erased
Named(q) ==
  q.op = "revoke" /\ q.step = "write" =>
    q.cred \in erased \/ (issued[q.cred] # Nobody /\ issued[q.cred].agent = q.agent)
Found(q) == Argued(q) /\ Allows(q) /\ Owned(q) /\ Named(q)
Finding == \A r \in Calls : Found(call[r])

AuthInv == AuthTypes /\ Deleted /\ Finding

LEMMA NoCallFound ==
  /\ NoCall \in AuthCall /\ NoCall.op = "none" /\ NoCall.step = "role"
  /\ Found(NoCall) /\ Found(NoCall)'
<1>1. NoCall \in AuthCall /\ NoCall.op = "none" /\ NoCall.step = "role"
  BY DEF NoCall, AuthCall
<1> QED
  BY <1>1 DEF Found, Argued, Allows, Owned, Named

\* A request goes on to q without a write.
LEMMA BecomesKeeps ==
  ASSUME AuthInv, NEW r \in Calls, NEW q \in AuthCall, Becomes(r, q), Found(q)
  PROVE  AuthInv'
<1> USE DEF AuthInv
<1>1. /\ UNCHANGED <<manages, firmOf, issued, revoked, erased>>
      /\ call' = [call EXCEPT ![r] = q]
  BY DEF Becomes, authRows
<1>2. /\ call' \in [Calls -> AuthCall]
      /\ \A x \in Calls : call'[x] = IF x = r THEN q ELSE call[x]
  BY <1>1 DEF AuthTypes
<1>3. \A x : Found(x) => Found(x)'
  BY <1>1 DEF Found, Argued, Allows, Owned, Named
<1>4. \A x \in Calls : Found(call'[x])
  BY <1>2 DEF Finding
<1> QED
  BY <1>1, <1>2, <1>3, <1>4 DEF AuthTypes, Deleted, Finding

LEMMA RefuseKeeps == ASSUME AuthInv, NEW r \in Calls, Refuse(r) PROVE AuthInv'
  BY NoCallFound, BecomesKeeps DEF Refuse

LEMMA AsksKeep ==
  ASSUME AuthInv, NEW r \in Calls, AskRegister(r) \/ AskIssue(r) \/ AskRevoke(r)
  PROVE  AuthInv'
<1>1. ASSUME NEW q \in AuthCall, q.step = "role", Argued(q), Becomes(r, q) PROVE AuthInv'
  BY <1>1, BecomesKeeps DEF Found, Allows, Owned, Named
<1>2. CASE AskRegister(r)
  <2>1. PICK u \in Staff, f \in Firms :
          Becomes(r, [NoCall EXCEPT !.op = "register", !.by = u, !.firm = f])
    BY <1>2 DEF AskRegister
  <2> DEFINE q == [NoCall EXCEPT !.op = "register", !.by = u, !.firm = f]
  <2>2. q \in AuthCall /\ q.op = "register" /\ q.step = "role" /\ q.by = u /\ q.firm = f
    BY DEF NoCall, AuthCall
  <2> HIDE DEF q
  <2> QED
    BY <1>1, <2>1, <2>2 DEF Argued, q
<1>3. CASE AskIssue(r)
  <2>1. PICK u \in Staff, f \in Firms, a \in Agents, p \in Prints :
          Becomes(r, [NoCall EXCEPT !.op = "issue", !.by = u, !.firm = f, !.agent = a, !.print = p])
    BY <1>3 DEF AskIssue
  <2> DEFINE q == [NoCall EXCEPT !.op = "issue", !.by = u, !.firm = f, !.agent = a, !.print = p]
  <2>2. /\ q \in AuthCall /\ q.op = "issue" /\ q.step = "role" /\ q.by = u /\ q.firm = f
        /\ q.agent = a /\ q.print = p
    BY DEF NoCall, AuthCall
  <2> HIDE DEF q
  <2> QED
    BY <1>1, <2>1, <2>2 DEF Argued, q
<1>4. CASE AskRevoke(r)
  <2>1. PICK u \in Staff, f \in Firms, a \in Agents, c \in Credentials :
          Becomes(r, [NoCall EXCEPT !.op = "revoke", !.by = u, !.firm = f, !.agent = a, !.cred = c])
    BY <1>4 DEF AskRevoke
  <2> DEFINE q == [NoCall EXCEPT !.op = "revoke", !.by = u, !.firm = f, !.agent = a, !.cred = c]
  <2>2. /\ q \in AuthCall /\ q.op = "revoke" /\ q.step = "role" /\ q.by = u /\ q.firm = f
        /\ q.agent = a /\ q.cred = c
    BY DEF NoCall, AuthCall
  <2> HIDE DEF q
  <2> QED
    BY <1>1, <2>1, <2>2 DEF Argued, q
<1> QED
  BY <1>2, <1>3, <1>4

LEMMA FindsKeep ==
  ASSUME AuthInv, NEW r \in Calls,
         RequireRole(r) \/ FindAgent(r) \/ FindPrint(r) \/ FindCredential(r) \/ GiveUp(r)
  PROVE  AuthInv'
<1> DEFINE q == call[r]
<1>1. q \in AuthCall /\ Found(q)
  BY DEF AuthInv, AuthTypes, Finding
<1>2. ASSUME NEW s \in {"role", "agent", "print", "credential", "write"}, Proceed(r, s),
             q.op # "none", q.moved \/ q.by \in manages[q.firm],
             q.op \in {"issue", "revoke"} /\ s # "agent" => firmOf[q.agent] = q.firm \/ q.agent \in erased,
             q.op = "revoke" /\ s = "write" => issued[q.cred] # Nobody /\ issued[q.cred].agent = q.agent
      PROVE  AuthInv'
  <2> DEFINE n == [q EXCEPT !.step = s]
  <2>1. /\ n \in AuthCall /\ n.step = s /\ n.op = q.op /\ n.by = q.by /\ n.firm = q.firm
        /\ n.agent = q.agent /\ n.print = q.print /\ n.cred = q.cred /\ n.moved = q.moved
    BY <1>1 DEF AuthCall
  <2>2. Becomes(r, n)
    BY <1>2 DEF Proceed
  <2> HIDE DEF n
  <2>3. Argued(n)
    BY <1>1, <1>2, <2>1 DEF Found, Argued
  <2>4. Allows(n)
    BY <1>2, <2>1 DEF Allows
  <2>5. Owned(n) /\ Named(n)
    BY <1>2, <2>1 DEF Owned, Named
  <2> QED
    BY <2>1, <2>2, <2>3, <2>4, <2>5, BecomesKeeps DEF Found
<1>3. CASE RequireRole(r)
  BY <1>2, <1>3, RefuseKeeps DEF RequireRole
<1>4. q.step # "role" => q.op # "none" /\ (q.moved \/ q.by \in manages[q.firm])
  BY <1>1 DEF Found, Argued, Allows
<1>5. CASE FindAgent(r)
  BY <1>2, <1>4, <1>5, RefuseKeeps DEF FindAgent
<1>6. q.op \in {"issue", "revoke"} /\ q.step \notin {"role", "agent"} =>
        firmOf[q.agent] = q.firm \/ q.agent \in erased
  BY <1>1 DEF Found, Owned
<1>7. CASE FindPrint(r)
  BY <1>2, <1>4, <1>6, <1>7, RefuseKeeps DEF FindPrint, CallStep
<1>8. CASE FindCredential(r)
  BY <1>2, <1>4, <1>6, <1>8, RefuseKeeps DEF FindCredential, CallStep
<1>9. CASE GiveUp(r)
  BY <1>9, RefuseKeeps DEF GiveUp
<1> QED
  BY <1>3, <1>5, <1>7, <1>8, <1>9

\* The request r has written and is over; nothing that others found is gone.
LEMMA WriteKeeps ==
  ASSUME AuthInv, NEW r \in Calls, call' = [call EXCEPT ![r] = NoCall],
         UNCHANGED <<manages, erased>>,
         \A a \in Agents : firmOf[a] # Nobody => firmOf'[a] = firmOf[a],
         \A a \in Agents \intersect erased : firmOf'[a] = firmOf[a],
         \A c \in Credentials : issued[c] # Nobody => issued'[c] = issued[c]
  PROVE  call' \in [Calls -> AuthCall] /\ Finding'
<1>1. /\ call' \in [Calls -> AuthCall] /\ call'[r] = NoCall
      /\ \A x \in Calls \ {r} : call'[x] = call[x]
  BY NoCallFound DEF AuthInv, AuthTypes
<1>2. ASSUME NEW x \in Calls \ {r} PROVE Found(call[x])'
  <2>1. Found(call[x]) /\ call'[x] = call[x]
    BY <1>1 DEF AuthInv, Finding
  <2>2. Argued(call[x])' /\ Allows(call[x])'
    BY <2>1 DEF Found, Argued, Allows
  <2>3. Owned(call[x])'
    <3>1. SUFFICES ASSUME call[x].op \in {"issue", "revoke"}, call[x].step \notin {"role", "agent"},
                          call[x].agent \notin erased
                   PROVE  firmOf'[call[x].agent] = call[x].firm
      BY <2>1 DEF Owned
    <3>2. /\ call[x].agent \in Agents /\ firmOf[call[x].agent] = call[x].firm
          /\ call[x].firm \in Firms
      BY <2>1, <3>1 DEF Found, Argued, Owned
    <3> QED
      BY <3>2, NobodyAssumption
  <2>4. Named(call[x])'
    BY <2>1 DEF Found, Argued, Named
  <2> QED
    BY <2>2, <2>3, <2>4 DEF Found
<1> QED
  BY <1>1, <1>2, NoCallFound DEF Finding

LEMMA RegisterKeeps == ASSUME AuthInv, NEW r \in Calls, Register(r) PROVE AuthInv'
<1> USE DEF AuthInv
<1>1. CASE Refuse(r)
  BY <1>1, RefuseKeeps
<1>2. ASSUME ~Refuse(r) PROVE AuthInv'
  <2>1. PICK a \in Agents \ erased : firmOf[a] = Nobody /\ firmOf' = [firmOf EXCEPT ![a] = call[r].firm]
    BY <1>2 DEF Register
  <2>2. call' = [call EXCEPT ![r] = NoCall] /\ UNCHANGED <<manages, issued, revoked, erased>>
    BY <1>2 DEF Register
  <2>3. call[r].firm \in Firms
    BY DEF Register, CallStep, Finding, Found, Argued
  <2>4. /\ firmOf' \in [Agents -> Firms \union {Nobody}] /\ firmOf'[a] # Nobody
        /\ \A b \in Agents \ {a} : firmOf'[b] = firmOf[b]
    BY <2>1, <2>3, NobodyAssumption DEF AuthTypes
  <2>5. call' \in [Calls -> AuthCall] /\ Finding'
    BY <2>1, <2>2, <2>4, WriteKeeps
  <2>6. Deleted'
    BY <2>1, <2>2, <2>4 DEF Deleted, AuthTypes, Credential
  <2> QED
    BY <2>2, <2>4, <2>5, <2>6 DEF AuthTypes
<1> QED
  BY <1>1, <1>2

LEMMA IssueKeeps == ASSUME AuthInv, NEW r \in Calls, Issue(r) PROVE AuthInv'
<1> USE DEF AuthInv
<1>1. CASE Refuse(r)
  BY <1>1, RefuseKeeps
<1>2. ASSUME ~Refuse(r) PROVE AuthInv'
  <2> DEFINE row == [agent |-> call[r].agent, print |-> call[r].print]
  <2>1. PICK c \in Credentials \ erased : issued[c] = Nobody /\ issued' = [issued EXCEPT ![c] = row]
    BY <1>2 DEF Issue
  <2>2. /\ call' = [call EXCEPT ![r] = NoCall] /\ UNCHANGED <<manages, firmOf, revoked, erased>>
        /\ firmOf[call[r].agent] # Nobody
    BY <1>2 DEF Issue
  <2>3. call[r].agent \in Agents /\ call[r].print \in Prints
    BY DEF Issue, CallStep, Finding, Found, Argued
  <2>4. row \in Credential /\ row.agent = call[r].agent
    BY <2>3 DEF Credential
  <2> HIDE DEF row
  <2>5. /\ issued' \in [Credentials -> Credential \union {Nobody}] /\ issued'[c] = row
        /\ \A d \in Credentials \ {c} : issued'[d] = issued[d]
    BY <2>1, <2>4 DEF AuthTypes
  <2>6. call' \in [Calls -> AuthCall] /\ Finding'
    BY <2>1, <2>2, <2>5, WriteKeeps
  <2>7. Deleted'
    BY <2>1, <2>2, <2>4, <2>5 DEF Deleted
  <2>8. revoked' \subseteq {d \in Credentials : issued'[d] # Nobody}
    BY <2>1, <2>2, <2>5 DEF AuthTypes
  <2> QED
    BY <2>2, <2>5, <2>6, <2>7, <2>8 DEF AuthTypes
<1> QED
  BY <1>1, <1>2

LEMMA RevokeKeeps == ASSUME AuthInv, NEW r \in Calls, Revoke(r) PROVE AuthInv'
<1> USE DEF AuthInv
<1>1. CASE Refuse(r)
  BY <1>1, RefuseKeeps
<1>2. ASSUME ~Refuse(r) PROVE AuthInv'
  <2>1. /\ revoked' = revoked \union {call[r].cred} /\ issued[call[r].cred] # Nobody
        /\ call' = [call EXCEPT ![r] = NoCall] /\ UNCHANGED <<manages, firmOf, issued, erased>>
    BY <1>2 DEF Revoke
  <2>2. call[r].cred \in Credentials
    BY DEF Revoke, CallStep, Finding, Found, Argued
  <2>3. call' \in [Calls -> AuthCall] /\ Finding'
    BY <2>1, WriteKeeps
  <2> QED
    BY <2>1, <2>2, <2>3 DEF AuthTypes, Deleted
<1> QED
  BY <1>1, <1>2

\* The requests after a change of an organization: only `moved' is set.
LEMMA MovedKeeps ==
  ASSUME AuthInv, NEW M, call' = [r \in Calls |-> IF r \in M THEN [call[r] EXCEPT !.moved = TRUE]
                                                  ELSE call[r]],
         \A r \in Calls \ M : call[r].step = "role" \/ call[r].firm \notin Firms
                                \/ (call[r].by \in manages[call[r].firm] =>
                                      call[r].by \in manages'[call[r].firm]),
         erased \subseteq erased',
         \A a \in Agents : a \in erased' \/ firmOf'[a] = firmOf[a],
         \A c \in Credentials : c \in erased' \/ issued'[c] = issued[c]
  PROVE  call' \in [Calls -> AuthCall] /\ Finding'
<1>1. ASSUME NEW r \in Calls
      PROVE  /\ call'[r] \in AuthCall
             /\ call'[r].op = call[r].op /\ call'[r].step = call[r].step /\ call'[r].by = call[r].by
             /\ call'[r].firm = call[r].firm /\ call'[r].agent = call[r].agent
             /\ call'[r].print = call[r].print /\ call'[r].cred = call[r].cred
             /\ r \in M => call'[r].moved
             /\ r \notin M => call'[r].moved = call[r].moved
  <2>1. call[r] \in AuthCall
    BY DEF AuthInv, AuthTypes
  <2> QED
    BY <2>1 DEF AuthCall
<1>2. call' \in [Calls -> AuthCall]
  BY <1>1
<1>3. ASSUME NEW r \in Calls PROVE Found(call[r])'
  <2>1. Found(call[r])
    BY DEF AuthInv, Finding
  <2>2. Argued(call[r])'
    BY <1>1, <2>1 DEF Found, Argued
  <2>3. Allows(call[r])'
    BY <1>1, <2>1 DEF Found, Argued, Allows
  <2>4. Owned(call[r])'
    BY <1>1, <2>1 DEF Found, Argued, Owned
  <2>5. Named(call[r])'
    BY <1>1, <2>1 DEF Found, Argued, Named
  <2> QED
    BY <2>2, <2>3, <2>4, <2>5 DEF Found
<1> QED
  BY <1>2, <1>3 DEF Finding

LEMMA StaffKeeps == ASSUME AuthInv, ChangeStaff PROVE AuthInv'
<1> USE DEF AuthInv
<1>1. PICK f \in Firms \ erased, u \in Staff :
        /\ manages' = [manages EXCEPT ![f] =
                         IF u \in manages[f] THEN manages[f] \ {u} ELSE manages[f] \union {u}]
        /\ call' = [r \in Calls |->
                      IF call[r].by = u /\ call[r].firm = f /\ call[r].step # "role"
                      THEN [call[r] EXCEPT !.moved = TRUE] ELSE call[r]]
        /\ UNCHANGED <<firmOf, issued, revoked, erased>>
  BY DEF ChangeStaff
<1>2. /\ manages' \in [Firms -> SUBSET Staff]
      /\ \A g \in Firms \ {f} : manages'[g] = manages[g]
      /\ \A v \in manages[f] \ {u} : v \in manages'[f]
  BY <1>1 DEF AuthTypes
<1> DEFINE M == {r \in Calls : call[r].by = u /\ call[r].firm = f /\ call[r].step # "role"}
<1>3. call' = [r \in Calls |-> IF r \in M THEN [call[r] EXCEPT !.moved = TRUE] ELSE call[r]]
  BY <1>1
<1>4. \A r \in Calls \ M : call[r].step = "role" \/ call[r].firm \notin Firms
                             \/ (call[r].by \in manages[call[r].firm] =>
                                   call[r].by \in manages'[call[r].firm])
  BY <1>2
<1> HIDE DEF M
<1>5. call' \in [Calls -> AuthCall] /\ Finding'
  BY <1>1, <1>3, <1>4, MovedKeeps
<1> QED
  BY <1>1, <1>2, <1>5 DEF AuthTypes, Deleted

LEMMA DeleteKeeps == ASSUME AuthInv, DeleteFirm PROVE AuthInv'
<1> USE DEF AuthInv
<1> DEFINE agents(f) == {a \in Agents : firmOf[a] = f}
           creds(f) == {c \in Credentials : issued[c] # Nobody /\ issued[c].agent \in agents(f)}
<1>1. PICK f \in Firms \ erased :
        /\ manages' = [manages EXCEPT ![f] = {}]
        /\ firmOf' = [a \in Agents |-> IF a \in agents(f) THEN Nobody ELSE firmOf[a]]
        /\ issued' = [c \in Credentials |-> IF c \in creds(f) THEN Nobody ELSE issued[c]]
        /\ erased' = erased \union agents(f) \union creds(f) \union {f}
        /\ call' = [r \in Calls |->
                      IF call[r].firm = f /\ call[r].step # "role"
                      THEN [call[r] EXCEPT !.moved = TRUE] ELSE call[r]]
        /\ revoked' = revoked \ creds(f)
  BY DEF DeleteFirm
<1> DEFINE A == agents(f)
           C == creds(f)
           M == {r \in Calls : call[r].firm = f /\ call[r].step # "role"}
<1>2. A \subseteq Agents /\ C \subseteq Credentials /\ (\A a \in Agents : a \in A <=> firmOf[a] = f)
  OBVIOUS
<1>3. \A c \in Credentials : c \in C <=> issued[c] # Nobody /\ issued[c].agent \in A
  OBVIOUS
<1>4. call' = [r \in Calls |-> IF r \in M THEN [call[r] EXCEPT !.moved = TRUE] ELSE call[r]]
  BY <1>1
<1>5. /\ manages' \in [Firms -> SUBSET Staff] /\ \A g \in Firms \ {f} : manages'[g] = manages[g]
  BY <1>1 DEF AuthTypes
<1>6. \A r \in Calls \ M : call[r].step = "role" \/ call[r].firm \notin Firms
                             \/ (call[r].by \in manages[call[r].firm] =>
                                   call[r].by \in manages'[call[r].firm])
  BY <1>5
<1> HIDE DEF M
<1>7. /\ firmOf' = [a \in Agents |-> IF a \in A THEN Nobody ELSE firmOf[a]]
      /\ issued' = [c \in Credentials |-> IF c \in C THEN Nobody ELSE issued[c]]
      /\ erased' = erased \union A \union C \union {f}
      /\ revoked' = revoked \ C
  BY <1>1
<1> HIDE DEF agents, creds, A, C
<1>8. call' \in [Calls -> AuthCall] /\ Finding'
  BY <1>4, <1>6, <1>7, MovedKeeps
<1>9. /\ firmOf' \in [Agents -> Firms \union {Nobody}]
      /\ issued' \in [Credentials -> Credential \union {Nobody}]
      /\ revoked' \subseteq {c \in Credentials : issued'[c] # Nobody}
  BY <1>7 DEF AuthTypes
<1>10. Deleted'
  <2>1. f \notin Agents /\ f \notin Credentials /\ Agents \intersect Credentials = {}
    BY UuidAssumption
  <2>2. \A a \in Agents \intersect erased' : firmOf'[a] = Nobody
    BY <1>2, <1>7, <2>1 DEF Deleted
  <2>3. \A c \in Credentials \intersect erased' : issued'[c] = Nobody
    BY <1>2, <1>7, <2>1 DEF Deleted
  <2>4. ASSUME NEW c \in Credentials, issued'[c] # Nobody PROVE firmOf'[issued'[c].agent] # Nobody
    <3>1. c \notin C /\ issued'[c] = issued[c] /\ issued[c] # Nobody
      BY <1>7, <2>4
    <3>2. issued[c].agent \in Agents \ A /\ firmOf[issued[c].agent] # Nobody
      BY <1>3, <3>1 DEF AuthTypes, Credential, Deleted
    <3> QED
      BY <1>7, <3>1, <3>2
  <2> QED
    BY <2>2, <2>3, <2>4 DEF Deleted
<1> QED
  BY <1>5, <1>8, <1>9, <1>10 DEF AuthTypes

LEMMA InitAuthInv == InitAuth => AuthInv
  BY NoCallFound DEF InitAuth, AuthInv, AuthTypes, Deleted, Finding

LEMMA NextAuthInv == AuthInv /\ [NextAuth]_authVars => AuthInv'
<1> SUFFICES ASSUME AuthInv, [NextAuth]_authVars PROVE AuthInv'
  OBVIOUS
<1>1. CASE NextAuth
  BY <1>1, AsksKeep, FindsKeep, RegisterKeeps, IssueKeeps, RevokeKeeps, StaffKeeps, DeleteKeeps
     DEF NextAuth
<1>2. CASE UNCHANGED authVars
  BY <1>2 DEF authVars, authRows, AuthInv, AuthTypes, Deleted, Finding, Found, Argued, Allows,
     Owned, Named
<1> QED
  BY <1>1, <1>2

\* What the requests on agents have found holds in every reachable state.
LEMMA AuthInvariant == AuthSpec => []AuthInv
  BY InitAuthInv, NextAuthInv, PTL DEF AuthSpec

\* Which requests write what.
LEMMA IssuedBy ==
  ASSUME AuthInv, NextAuth, NEW c \in Credentials, issued[c] = Nobody, issued'[c] # Nobody
  PROVE  \E r \in Calls : call'[r] # call[r] /\ Manages(call[r], issued'[c].agent)
<1> USE DEF AuthInv
<1>1. PICK r \in Calls : Issue(r) /\ ~Refuse(r)
  <2>1. ~DeleteFirm /\ ~ChangeStaff
    BY DEF DeleteFirm, ChangeStaff
  <2>2. \A r \in Calls : ~Refuse(r) /\ (\A s : ~Proceed(r, s)) /\ (\A q : ~Becomes(r, q))
    BY DEF Refuse, Proceed, Becomes, authRows
  <2>3. \A r \in Calls :
          ~(AskRegister(r) \/ AskIssue(r) \/ AskRevoke(r) \/ GiveUp(r) \/ RequireRole(r)
            \/ FindAgent(r) \/ FindPrint(r) \/ FindCredential(r))
    BY <2>2 DEF AskRegister, AskIssue, AskRevoke, GiveUp, RequireRole, FindAgent, FindPrint,
       FindCredential
  <2>4. \A r \in Calls : ~Register(r) /\ ~Revoke(r)
    BY <2>2 DEF Register, Revoke
  <2> QED
    BY <2>1, <2>2, <2>3, <2>4 DEF NextAuth
<1>2. PICK d \in Credentials :
        issued' = [issued EXCEPT ![d] = [agent |-> call[r].agent, print |-> call[r].print]]
  BY <1>1 DEF Issue
<1>3. /\ call[r].op = "issue" /\ call[r].step = "write" /\ firmOf[call[r].agent] # Nobody
      /\ call' = [call EXCEPT ![r] = NoCall]
  BY <1>1 DEF Issue, CallStep
<1>4. c = d /\ issued'[c].agent = call[r].agent
  BY <1>2 DEF AuthTypes
<1>5. call'[r] # call[r]
  BY <1>3, NoCallFound DEF AuthTypes
<1>6. /\ call[r].agent \in Agents
      /\ call[r].moved \/ call[r].by \in manages[call[r].firm]
      /\ firmOf[call[r].agent] = call[r].firm \/ call[r].agent \in erased
  BY <1>3 DEF Finding, Found, Argued, Allows, Owned
<1> QED
  BY <1>3, <1>4, <1>5, <1>6 DEF Manages, Deleted

LEMMA RevokedBy ==
  ASSUME AuthInv, NextAuth, NEW c \in Credentials, c \in revoked' \ revoked
  PROVE  \E r \in Calls : /\ call'[r] # call[r] /\ issued[c] # Nobody
                          /\ Manages(call[r], issued[c].agent)
<1> USE DEF AuthInv
<1>1. PICK r \in Calls : Revoke(r) /\ ~Refuse(r)
  <2>1. ~DeleteFirm /\ ~ChangeStaff
    BY DEF DeleteFirm, ChangeStaff
  <2>2. \A r \in Calls : ~Refuse(r) /\ (\A s : ~Proceed(r, s)) /\ (\A q : ~Becomes(r, q))
    BY DEF Refuse, Proceed, Becomes, authRows
  <2>3. \A r \in Calls :
          ~(AskRegister(r) \/ AskIssue(r) \/ AskRevoke(r) \/ GiveUp(r) \/ RequireRole(r)
            \/ FindAgent(r) \/ FindPrint(r) \/ FindCredential(r))
    BY <2>2 DEF AskRegister, AskIssue, AskRevoke, GiveUp, RequireRole, FindAgent, FindPrint,
       FindCredential
  <2>4. \A r \in Calls : ~Register(r) /\ ~Issue(r)
    BY <2>2 DEF Register, Issue
  <2> QED
    BY <2>1, <2>2, <2>3, <2>4 DEF NextAuth
<1>2. /\ c = call[r].cred /\ issued[c] # Nobody /\ call' = [call EXCEPT ![r] = NoCall]
      /\ call[r].op = "revoke" /\ call[r].step = "write"
  BY <1>1 DEF Revoke, CallStep
<1>3. call'[r] # call[r]
  BY <1>2, NoCallFound DEF AuthTypes
<1>4. issued[c].agent = call[r].agent /\ firmOf[call[r].agent] # Nobody
  BY <1>2 DEF Finding, Found, Named, Deleted
<1>5. /\ call[r].agent \in Agents
      /\ call[r].moved \/ call[r].by \in manages[call[r].firm]
      /\ firmOf[call[r].agent] = call[r].firm \/ call[r].agent \in erased
  BY <1>2 DEF Finding, Found, Argued, Allows, Owned
<1> QED
  BY <1>2, <1>3, <1>4, <1>5 DEF Manages, Deleted

\* Organizations are kept apart: a credential is issued and revoked only by
\* requests for the organization of its agent whose caller manages it, or did so
\* when the role was read (_require_role), for any number of requests.
THEOREM TenantsStayApart == AuthSpec => TenantsApart
<1>1. AuthInv /\ [NextAuth]_authVars =>
        [\A c \in Credentials :
           LET row == IF issued[c] # Nobody THEN issued[c] ELSE issued'[c] IN
           c \in revoked' \ revoked \/ (issued[c] = Nobody /\ issued'[c] # Nobody)
           => \E r \in Calls : call'[r] # call[r] /\ Manages(call[r], row.agent)]_authVars
  BY IssuedBy, RevokedBy
<1> QED
  BY <1>1, AuthInvariant, PTL DEF AuthSpec, TenantsApart

-----------------------------------------------------------------------------
(* Together.                                                                *)

\* Whatever a request changes of an organization, its members, settings, keys or
\* the credentials of its agents, its caller is entitled to, in the system that
\* holds organizations and agents side by side.
THEOREM OnlyTheAuthorizedWrite == MCSpec => OnlyAuthorized
<1>1. MCInit => Init /\ InitAuth
  BY DEF MCInit
<1>2. [MCNext]_<<vars, permVars, authVars, focus>> => [Next]_vars /\ [NextAuth]_authVars
  BY DEF MCNext
<1>3. MCSpec => Spec
  BY <1>1, <1>2, PTL DEF MCSpec, Spec
<1>4. MCSpec => AuthSpec
  BY <1>1, <1>2, PTL DEF MCSpec, AuthSpec
<1> QED
  BY <1>3, <1>4, OnlyTheEntitledWrite, TenantsStayApart, PTL DEF OnlyAuthorized
=============================================================================
