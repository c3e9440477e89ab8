------------------------------- MODULE MCLimits -------------------------------
(* Instances of FeatureFlags, RateLimitRules, Limiter, Breaker and         *)
(* BrowserSessions for TLC.  They share no state: a behaviour runs one of  *)
(* Foci, and the initial states of the others are pinned so that none of   *)
(* their fair actions is enabled.                                          *)
EXTENDS FeatureFlags, RateLimitRules, Limiter, Breaker, BrowserSessions, TLC

CONSTANT Foci

VARIABLE focus

MCBucket == [u \in Callers |-> IF u = "u1" THEN 10 ELSE 90]
MCCovers == [x \in Rules |-> IF x = "all" THEN Endpoints ELSE {"a"}]

Init ==
  /\ InitFlags /\ InitRules /\ InitLimiter /\ InitBreaker /\ InitBrowser
  /\ focus \in Foci
  /\ focus # "rules" => rule = [x \in Rules |-> NoRule]
  /\ focus \notin {"fixed", "sliding"} => scripted
  /\ (focus = "breaker") = configured

Next ==
  /\ \/ /\ focus = "flags" /\ NextFlags
        /\ UNCHANGED <<ruleVars, limiterVars, breakerVars, browserVars>>
     \/ /\ focus = "rules" /\ NextRules
        /\ UNCHANGED <<flagVars, limiterVars, breakerVars, browserVars>>
     \/ /\ \/ focus = "fixed" /\ NextFixed
           \/ focus = "sliding" /\ NextSliding
           \/ focus = "memory" /\ NextInMemory
        /\ UNCHANGED <<flagVars, ruleVars, breakerVars, browserVars>>
     \/ /\ focus = "breaker" /\ NextBreaker
        /\ UNCHANGED <<flagVars, ruleVars, limiterVars, browserVars>>
     \/ /\ focus = "browser" /\ NextBrowser
        /\ UNCHANGED <<flagVars, ruleVars, limiterVars, breakerVars>>
  /\ UNCHANGED focus

Spec ==
  /\ Init
  /\ [][Next]_<<flagVars, ruleVars, limiterVars, breakerVars, browserVars, focus>>
  /\ FlagFairness /\ RuleFairness /\ LimiterFairness /\ BreakerFairness /\ BrowserFairness

\* No cache of flags or rules stays stale: once the changes are over, what is
\* cached becomes what the tables say.
CachesSettle == FlagsSettle /\ RulesSettle
=============================================================================
