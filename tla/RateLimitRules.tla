--------------------------- MODULE RateLimitRules ---------------------------
(***************************************************************************)
(* The rate limit rules of one organization and the two caches in front of *)
(* them: services/rate_limit_rule_service.py, as                           *)
(* core/rate_limit_enforcer.py asks it for the rule of an endpoint.        *)
(*                                                                         *)
(* An answer is cached under its endpoint; on a miss it is computed from   *)
(* the cached list of enabled rules, which is read from the table on a     *)
(* miss of its own.  A change deletes the list only: cached answers stay   *)
(* until they expire, and may have been computed from an old list.         *)
(***************************************************************************)
EXTENDS Naturals, FiniteSets

CONSTANTS
  Rules,        \* rules of the organization
  Endpoints,    \* endpoints asked about
  Covers,       \* Covers[x]: endpoints rule x matches
  Priorities,   \* priorities of rules
  RuleChanges,  \* changes in all: bound of the model
  NoRule        \* no rule, no entry

ASSUME CoversAssumption == Covers \in [Rules -> SUBSET Endpoints]
ASSUME PrioritiesAssumption == Priorities \subseteq Nat /\ NoRule \notin Priorities

VARIABLES
  rule,         \* rule[x]: priority of the enabled rule x, NoRule otherwise
  list,         \* the cached list of rules with their priorities, {} without
  resolved,     \* resolved[e]: the cached rule, NoRule without an entry
  lookup,       \* lookup[e]: what the resolution in progress for e is doing
  stale,        \* changes that have still to delete the list
  ruleChanges   \* changes committed so far

ruleVars == <<rule, list, resolved, lookup, stale, ruleChanges>>

NoLookup == [step |-> "none", rules |-> {}]

\* The enabled rules as the list holds them.
Current == {[name |-> x, priority |-> rule[x]] : x \in {y \in Rules : rule[y] # NoRule}}

\* The rules resolve_rule may pick: of those that match one with the highest
\* priority, the first in the order of the list.
Matches(rules, e) == {m \in rules : e \in Covers[m.name]}
Best(rules, e) ==
  {m.name : m \in {x \in Matches(rules, e) :
                     \A y \in Matches(rules, e) : y.priority <= x.priority}}

InitRules ==
  /\ rule \in [Rules -> Priorities \union {NoRule}]
  /\ list = {}
  /\ resolved = [e \in Endpoints |-> NoRule]
  /\ lookup = [e \in Endpoints |-> NoLookup]
  /\ stale = 0 /\ ruleChanges = 0

-----------------------------------------------------------------------------
(* resolve_rule and _get_active_rules.                                     *)
Looks(e, l) == lookup' = [lookup EXCEPT ![e] = l]
Same == UNCHANGED <<rule, stale, ruleChanges>>

\* A miss of the answer, then the list: an empty one counts as a miss too.
MissAnswer(e) ==
  /\ lookup[e] = NoLookup /\ resolved[e] = NoRule
  /\ Looks(e, IF list = {} THEN [step |-> "select", rules |-> {}]
              ELSE [step |-> "answer", rules |-> list])
  /\ Same /\ UNCHANGED <<list, resolved>>

SelectRules(e) ==
  /\ lookup[e].step = "select"
  /\ Looks(e, [step |-> "list", rules |-> Current])
  /\ Same /\ UNCHANGED <<list, resolved>>

StoreList(e) ==
  /\ lookup[e].step = "list"
  /\ list' \in {lookup[e].rules, list}            \* Redis may fail
  /\ Looks(e, [lookup[e] EXCEPT !.step = "answer"])
  /\ Same /\ UNCHANGED resolved

\* Without a matching rule nothing is stored.
StoreAnswer(e) ==
  /\ lookup[e].step = "answer"
  /\ IF Matches(lookup[e].rules, e) = {}
     THEN UNCHANGED resolved
     ELSE \E x \in Best(lookup[e].rules, e) \union {NoRule} :  \* NoRule: Redis fails
            resolved' = [resolved EXCEPT ![e] = x]
  /\ Looks(e, NoLookup)
  /\ Same /\ UNCHANGED list

\* Mutant: a hit of the list renews its TTL, so that it outlives its readers.
ExpireList_Sliding ==
  /\ list # {} /\ \A e \in Endpoints : resolved[e] # NoRule
  /\ list' = {}
  /\ Same /\ UNCHANGED <<resolved, lookup>>

ExpireList ==
  /\ list # {}
  /\ list' = {}
  /\ Same /\ UNCHANGED <<resolved, lookup>>

ExpireAnswer(e) ==
  /\ resolved[e] # NoRule
  /\ resolved' = [resolved EXCEPT ![e] = NoRule]
  /\ Same /\ UNCHANGED <<list, lookup>>

-----------------------------------------------------------------------------
(* create_rule, update_rule, delete_rule and the expiry of a rule.         *)
ChangeRule ==
  /\ ruleChanges < RuleChanges
  /\ \E x \in Rules, p \in Priorities \union {NoRule} :
       p # rule[x] /\ rule' = [rule EXCEPT ![x] = p]
  /\ ruleChanges' = ruleChanges + 1
  /\ stale' \in {stale, stale + 1}                \* nothing is deleted on expiry
  /\ UNCHANGED <<list, resolved, lookup>>

\* _invalidate_rules_cache, which Redis may fail to do.
InvalidateRules ==
  /\ stale > 0 /\ stale' = stale - 1
  /\ list' \in {list, {}}
  /\ UNCHANGED <<rule, resolved, lookup, ruleChanges>>

Resolve(e) == SelectRules(e) \/ StoreList(e) \/ StoreAnswer(e)

NextRules ==
  \/ \E e \in Endpoints : MissAnswer(e) \/ Resolve(e) \/ ExpireAnswer(e)
  \/ ExpireList
  \/ ChangeRule \/ InvalidateRules

\* A resolution that has begun goes on, Redis expires its keys, a request that
\* has changed a rule deletes the list.
RuleFairness ==
  /\ \A e \in Endpoints : WF_ruleVars(Resolve(e)) /\ WF_ruleVars(ExpireAnswer(e))
  /\ WF_ruleVars(ExpireList) /\ WF_ruleVars(InvalidateRules)

-----------------------------------------------------------------------------
\* Once the rules stop changing, every endpoint is soon limited by the best of
\* the rules that are there, although a stale answer can be computed from a
\* stale list and then lives as long again.
RulesSettle ==
  <>[](\A e \in Endpoints : resolved[e] = NoRule \/ resolved[e] \in Best(Current, e))
=============================================================================
