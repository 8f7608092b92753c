---------------------------- MODULE RoutingPlan ----------------------------
(***************************************************************************)
(* Routing documents (internal/router/model.go) and the fan-out plan of an *)
(* event (internal/router/planner.go).                                     *)
(*                                                                         *)
(* A configuration is a record                                             *)
(*   destinations  name -> [enabled, maxAttempts, fallback]                *)
(*   rules         sequence of [tenant, source, type, severity, tags,      *)
(*                 destinations, stop]                                     *)
(*   fallback      destination of events no rule matches, or None          *)
(* A glob pattern is the set of the values it matches (Any for "" and      *)
(* "*"); an empty severity list is Any.  The tags of a rule and of an      *)
(* event are functions from keys.                                          *)
(***************************************************************************)
EXTENDS Integers, FiniteSets, Sequences

None == ""
Any == {"*"}

glob(pattern, value) == Any \subseteq pattern \/ value \in pattern

ruleMatches(rule, event) ==
    /\ glob(rule.tenant, event.tenant)
    /\ glob(rule.source, event.source)
    /\ glob(rule.type, event.type)
    /\ glob(rule.severity, event.severity)
    /\ \A key \in DOMAIN rule.tags :
          key \in DOMAIN event.tags /\ glob(rule.tags[key], event.tags[key])

\* Following failure_fallback from a destination comes to an end.
validateFallbackCycles(destinations) ==
    \A start \in DOMAIN destinations :
        LET chain[k \in 0..Cardinality(DOMAIN destinations)] ==
                IF k = 0 THEN start
                ELSE IF chain[k - 1] = None THEN None
                ELSE destinations[chain[k - 1]].fallback
        IN chain[Cardinality(DOMAIN destinations)] = None

Usable(destinations, d) == d \in DOMAIN destinations /\ destinations[d].enabled

Validate(config) ==
    /\ DOMAIN config.destinations # {}
    /\ config.fallback # None => Usable(config.destinations, config.fallback)
    /\ \A k \in DOMAIN config.rules :
          /\ config.rules[k].destinations # {}
          /\ \A d \in config.rules[k].destinations : Usable(config.destinations, d)
    /\ \A d \in DOMAIN config.destinations :
          LET fallback == config.destinations[d].fallback
          IN fallback # None => Usable(config.destinations, fallback) /\ fallback # d
    /\ validateFallbackCycles(config.destinations)

EnabledDestinations(config) ==
    {d \in DOMAIN config.destinations : config.destinations[d].enabled}

-----------------------------------------------------------------------------

Matching(config, event) == {k \in DOMAIN config.rules : ruleMatches(config.rules[k], event)}

\* The rules the loop of Plan gets to: a matching rule with stop is the last.
Considered(config, event) ==
    LET matching == Matching(config, event)
    IN {k \in matching : \A j \in matching : j < k => ~config.rules[j].stop}

\* Config.Plan: the destinations of the plan.
Plan(config, event) ==
    IF Matching(config, event) = {}
    THEN IF config.fallback = None THEN {} ELSE {config.fallback}
    ELSE {d \in EnabledDestinations(config) :
             \E k \in Considered(config, event) : d \in config.rules[k].destinations}

\* ComparePlans: the destinations the candidate adds and removes.
ComparePlans(active, shadow) == [added |-> shadow \ active, removed |-> active \ shadow]
Changed(active, shadow) == active # shadow
=============================================================================
