---------------------------- MODULE FeatureFlags ----------------------------
(***************************************************************************)
(* One feature flag of one organization, its overrides and the cached      *)
(* evaluations: services/feature_flag_service.py.                          *)
(*                                                                         *)
(* Every change is committed, then a row of the change log, then the       *)
(* cached evaluations are deleted.  The log row carries dates that the     *)
(* JSONB column cannot hold (model_dump() without mode="json", and no      *)
(* json_serializer for the engine), and for a deleted flag its foreign key *)
(* fails as well: the request ends with an error after its change and      *)
(* before the deletion.  An evaluation thus stays until its TTL is over.   *)
(*                                                                         *)
(* A value is told apart by where it comes from only.                      *)
(***************************************************************************)
EXTENDS Naturals, FiniteSets

CONSTANTS
  Callers,      \* users flags are evaluated for
  Bucket,       \* Bucket[u]: hash bucket of user u, 0..99
  Percentages,  \* rollout percentages
  Changers,     \* changes in progress at a time: bound of the model
  FlagChanges,  \* changes in all: bound of the model
  Missing       \* no row, no entry

ASSUME BucketAssumption == Bucket \in [Callers -> 0..99]
ASSUME PercentagesAssumption == Percentages \subseteq 0..100

Flag == [enabled : BOOLEAN, active : BOOLEAN, percentage : Percentages]
Sources == {"user", "org", "off", "out", "on"}

VARIABLES
  flag,         \* the row of feature_flags, Missing without one
  userRow,      \* userRow[u]: an enabled override for user u
  orgRows,      \* number of enabled overrides for the whole organization
  cached,       \* cached[u]: source of the cached evaluation, Missing without one
  evaluation,   \* evaluation[u]: what the evaluation in progress for u has read
  creating,     \* changes that looked for an organization override, found
                \* none and are about to insert one
  changes       \* changes committed so far

flagVars == <<flag, userRow, orgRows, cached, evaluation, creating, changes>>

NoEvaluation == [step |-> "none", flag |-> Missing, source |-> Missing]

InitFlags ==
  /\ flag = Missing
  /\ userRow = [u \in Callers |-> FALSE] /\ orgRows = 0
  /\ cached = [u \in Callers |-> Missing]
  /\ evaluation = [u \in Callers |-> NoEvaluation]
  /\ creating = {} /\ changes = 0

\* _check_rollout by user hash.
InRollout(f, u) == Bucket[u] < f.percentage

\* What the flag itself says, without overrides.
FlagSource(f, u) ==
  IF ~f.enabled THEN "off" ELSE IF InRollout(f, u) THEN "on" ELSE "out"

\* The answer the tables give now.
Answer(u) ==
  IF userRow[u] THEN "user" ELSE IF orgRows > 0 THEN "org" ELSE FlagSource(flag, u)

-----------------------------------------------------------------------------
(* evaluate_flags for one user.  The flag is read first; the cache is      *)
(* asked before the status and the overrides are.                          *)
Untouched == UNCHANGED <<flag, userRow, orgRows, creating, changes>>
Evaluates(u, e) == evaluation' = [evaluation EXCEPT ![u] = e]
EvaluationAt(u, step) == evaluation[u].step = step

ReadFlag(u) ==
  /\ EvaluationAt(u, "none")
  /\ flag # Missing /\ cached[u] = Missing
  /\ flag.active                                \* other answers are not cached
  /\ Evaluates(u, [NoEvaluation EXCEPT !.step = "user", !.flag = flag])
  /\ Untouched /\ UNCHANGED cached

ReadUserOverride(u) ==
  /\ EvaluationAt(u, "user")
  /\ Evaluates(u, IF userRow[u]
                  THEN [evaluation[u] EXCEPT !.step = "store", !.source = "user"]
                  ELSE [evaluation[u] EXCEPT !.step = "org"])
  /\ Untouched /\ UNCHANGED cached

\* scalar_one_or_none raises when there are two.
ReadOrgOverride(u) ==
  /\ EvaluationAt(u, "org")
  /\ Evaluates(u, IF orgRows > 1 THEN NoEvaluation
                  ELSE [evaluation[u] EXCEPT !.step = "store", !.source =
                          IF orgRows = 1 THEN "org" ELSE FlagSource(evaluation[u].flag, u)])
  /\ Untouched /\ UNCHANGED cached

StoreEvaluation(u) ==
  /\ EvaluationAt(u, "store")
  /\ \/ cached' = [cached EXCEPT ![u] = evaluation[u].source]
     \/ UNCHANGED cached                        \* Redis fails
  /\ Evaluates(u, NoEvaluation)
  /\ Untouched

\* CACHE_TTL_FLAGS seconds after it was stored.
ExpireEvaluation(u) ==
  /\ cached[u] # Missing
  /\ cached' = [cached EXCEPT ![u] = Missing]
  /\ Untouched /\ UNCHANGED evaluation

-----------------------------------------------------------------------------
(* Changes.  Each is committed and then fails in _log_change.  An override *)
(* that is disabled or expires counts as deleted.                          *)
Commits ==
  /\ changes < FlagChanges /\ changes' = changes + 1
  /\ UNCHANGED <<cached, evaluation>>

CreateFlag ==
  /\ flag = Missing                             \* unique (org_id, key)
  /\ flag' \in {f \in Flag : f.active}
  /\ Commits /\ UNCHANGED <<userRow, orgRows, creating>>

UpdateFlag ==
  /\ flag # Missing
  /\ flag' \in Flag \ {flag}
  /\ Commits /\ UNCHANGED <<userRow, orgRows, creating>>

\* ON DELETE CASCADE; an insertion that is under way loses its flag.
DeleteFlag ==
  /\ flag # Missing
  /\ flag' = Missing /\ creating' = {}
  /\ userRow' = [u \in Callers |-> FALSE] /\ orgRows' = 0
  /\ Commits

\* An override for a user: the unique constraint covers it.
ChangeUserOverride ==
  /\ flag # Missing
  /\ \E u \in Callers : userRow' = [userRow EXCEPT ![u] = ~@]
  /\ Commits /\ UNCHANGED <<flag, orgRows, creating>>

\* create_override for the organization looks for one ...
LookForOrgOverride(c) ==
  /\ flag # Missing /\ c \notin creating
  /\ orgRows = 0
  /\ creating' = creating \union {c}
  /\ UNCHANGED <<flag, userRow, orgRows, cached, evaluation, changes>>

\* ... and inserts one: target_id is NULL, which the constraint lets through.
InsertOrgOverride(c) ==
  /\ c \in creating
  /\ creating' = creating \ {c}
  /\ orgRows' = orgRows + 1
  /\ Commits /\ UNCHANGED <<flag, userRow>>

DeleteOrgOverride ==
  /\ orgRows > 0
  /\ orgRows' = orgRows - 1
  /\ Commits /\ UNCHANGED <<flag, userRow, creating>>

ChangeFlags ==
  \/ CreateFlag \/ UpdateFlag \/ DeleteFlag
  \/ ChangeUserOverride \/ DeleteOrgOverride
  \/ \E c \in Changers : LookForOrgOverride(c) \/ InsertOrgOverride(c)

Evaluate(u) ==
  ReadUserOverride(u) \/ ReadOrgOverride(u) \/ StoreEvaluation(u)

NextFlags ==
  \/ ChangeFlags
  \/ \E u \in Callers : ReadFlag(u) \/ Evaluate(u) \/ ExpireEvaluation(u)

\* An evaluation that has begun goes on, and Redis expires its keys.
FlagFairness ==
  \A u \in Callers : WF_flagVars(Evaluate(u)) /\ WF_flagVars(ExpireEvaluation(u))

-----------------------------------------------------------------------------
\* Although no change ever reaches the cache, once the changes are over every
\* cached evaluation becomes what the tables say.
FlagsSettle ==
  <>[](\A u \in Callers : flag # Missing => cached[u] \in {Missing, Answer(u)})
=============================================================================
