------------------------------ MODULE Shaping ------------------------------
(***************************************************************************)
(* The shaping documents (internal/shaping/model.go) and the decision they *)
(* give for an event (internal/shaping/engine.go), as operators.           *)
(*                                                                         *)
(* An event is a record [tenant, source, type, namesError, severity, tags, *)
(* bytes, latency]; namesError says whether the word error is in its type, *)
(* severity is what severity() returns, latency its value in ms (0 when it *)
(* is not a latency) and tags a function.  A configuration is              *)
(* [rate, protection, pressure, rules]; a rule is [tenant, source, type,   *)
(* severity, tags, rate, minRate, dropTags, renameTags, payloadMax,        *)
(* shapeProtected, stop], its renames a sequence of <<from, to>> in the    *)
(* order of the sorted keys, its payloadMax 0 unless the payload action is *)
(* drop.  A pattern is the set of values it matches.                       *)
(* Rates, factors, pressures and multipliers are integer percentages.      *)
(***************************************************************************)
EXTENDS Integers, FiniteSets, Sequences, Functions

Everything == {"*"}
Unset == -1
Oversize == "telemetryforge.payload_oversize"

glob(pattern, value) == Everything \subseteq pattern \/ value \in pattern

ruleMatches(rule, event) ==
    /\ glob(rule.tenant, event.tenant)
    /\ glob(rule.source, event.source)
    /\ glob(rule.type, event.type)
    /\ glob(rule.severity, event.severity)
    /\ \A key \in DOMAIN rule.tags :
          key \in DOMAIN event.tags /\ glob(rule.tags[key], event.tags[key])

isProtected(protection, event) ==
    \/ /\ protection.errors
       /\ event.namesError \/ event.severity \in {"error", "critical", "fatal"}
    \/ event.severity # "" /\ event.severity \in protection.severities
    \/ glob(protection.types, event.type)
    \/ \E key \in (DOMAIN protection.tags) \cap (DOMAIN event.tags) :
          glob(protection.tags[key], event.tags[key])
    \/ protection.latency > 0 /\ event.latency >= protection.latency

ValidPressure(pressure) ==
    pressure.enabled =>
        /\ 0 < pressure.high /\ pressure.high < pressure.critical /\ pressure.critical <= 100
        /\ 0 < pressure.criticalFactor
        /\ pressure.criticalFactor <= pressure.highFactor /\ pressure.highFactor <= 100

Validate(config) ==
    /\ config.rate \in 0..100
    /\ ValidPressure(config.pressure)
    /\ \A k \in DOMAIN config.rules :
          LET rule == config.rules[k] IN
          /\ rule.rate = Unset \/ rule.rate \in rule.minRate..100
          /\ rule.minRate \in 0..100 /\ rule.payloadMax >= 0
          /\ \A i \in DOMAIN rule.renameTags :
                /\ rule.renameTags[i][1] # rule.renameTags[i][2]
                /\ rule.renameTags[i][1] \notin rule.dropTags
                /\ \A j \in DOMAIN rule.renameTags :
                      rule.renameTags[i][2] = rule.renameTags[j][2] => i = j

-----------------------------------------------------------------------------
(***************************************************************************)
(* evaluateConfig.                                                         *)
(***************************************************************************)

\* A loop over the elements of seq: op is applied to the result so far and each.
Folded(op(_, _), base, seq) ==
    LET result[k \in 0..Len(seq)] == IF k = 0 THEN base ELSE op(result[k - 1], seq[k])
    IN result[Len(seq)]

\* The rules its loop applies: the matching ones, up to the first with stop.
Considered(config, event) ==
    LET Matches(rule) == ruleMatches(rule, event)
        matching == SelectSeq(config.rules, Matches)
        stops == {k \in DOMAIN matching : matching[k].stop}
    IN IF stops = {} THEN matching
       ELSE SubSeq(matching, 1, CHOOSE k \in stops : \A j \in stops : k <= j)

Without(tags, keys) == [key \in (DOMAIN tags) \ keys |-> tags[key]]
With(tags, key, value) == [k \in (DOMAIN tags) \cup {key} |-> IF k = key THEN value ELSE tags[k]]

\* One rename: a tag that already has the new name keeps its value.
Renamed(tags, rename) ==
    LET from == rename[1]
        to == rename[2]
    IN IF from \notin DOMAIN tags THEN tags
       ELSE IF to \in DOMAIN tags THEN Without(tags, {from})
       ELSE Without(With(tags, to, tags[from]), {from})

TooLarge(rule, event) == rule.payloadMax > 0 /\ event.bytes > rule.payloadMax

Transformed(rule, event, tags) ==
    LET shaped == Folded(Renamed, Without(tags, rule.dropTags), rule.renameTags)
    IN IF TooLarge(rule, event) THEN With(shaped, Oversize, "true") ELSE shaped

clamp(value, low, high) ==
    IF value < low THEN low ELSE IF value > high THEN high ELSE value

effectiveRate(pressure, base, minRate, current) ==
    LET factor == IF current >= pressure.critical THEN pressure.criticalFactor
                  ELSE pressure.highFactor
    IN IF ~pressure.enabled \/ current < pressure.high THEN base
       ELSE clamp((base * factor) \div 100, clamp(minRate, 0, base), 100)

\* The multiplier lowers the rate of unprotected events, never under the
\* minimum of their rule.
Scaled(rate, minRate, multiplier) ==
    IF multiplier >= 100 THEN rate ELSE clamp((rate * multiplier) \div 100, minRate, 100)

\* hash is the percentage the event's identity hashes to (deterministicKeep).
evaluateConfig(config, event, pressure, multiplier, hash) ==
    LET protected == isProtected(config.protection, event)
        rules == Considered(config, event)
        Rate(r, rule) == IF rule.rate = Unset THEN r ELSE [base |-> rule.rate, min |-> rule.minRate]
        rate == Folded(Rate, [base |-> config.rate, min |-> 0], rules)
        Shape(tags, rule) == IF protected /\ ~rule.shapeProtected THEN tags
                             ELSE Transformed(rule, event, tags)
        pressured == effectiveRate(config.pressure, rate.base, rate.min, pressure)
        effective == IF protected THEN pressured ELSE Scaled(pressured, rate.min, multiplier)
    IN [keep |-> protected \/ hash < effective, protected |-> protected,
        base |-> rate.base, effective |-> effective, pressure |-> pressure,
        multiplier |-> multiplier, tags |-> Folded(Shape, event.tags, rules)]

\* The decision as the table shaping_decisions holds it: it has no column for
\* the multiplier, and reading it back leaves the field zero.
Stored(decision) == [decision EXCEPT !.multiplier = 0]

sameShapingDecision(left, right) == left = right

=============================================================================
