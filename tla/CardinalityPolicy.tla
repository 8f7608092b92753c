------------------------- MODULE CardinalityPolicy -------------------------
(***************************************************************************)
(* The cardinality policy (internal/policy/model.go) and what the engine   *)
(* concludes from one observation of a tag (internal/policy/engine.go).    *)
(*                                                                         *)
(* A policy is [threshold, action, dangerous, rules]; a rule is            *)
(* [source, type, dimension, threshold, action] and a pattern the set of   *)
(* the values it matches.                                                  *)
(***************************************************************************)
EXTENDS Integers, Sequences

AnyValue == {"*"}
Actions == {"allow", "drop_tag", "quarantine"}

globMatches(pattern, value) == AnyValue \subseteq pattern \/ value \in pattern

validAction(action) == action \in Actions

ValidPolicy(policy) ==
    /\ policy.threshold >= 2 /\ validAction(policy.action)
    /\ \A k \in DOMAIN policy.rules :
          /\ policy.rules[k].dimension # {}
          /\ policy.rules[k].threshold >= 2
          /\ validAction(policy.rules[k].action)

\* Policy.Decision: the first rule that matches, or the defaults.
PolicyDecision(policy, event, dimension) ==
    LET matching == {k \in DOMAIN policy.rules :
                        /\ globMatches(policy.rules[k].source, event.source)
                        /\ globMatches(policy.rules[k].type, event.type)
                        /\ globMatches(policy.rules[k].dimension, dimension)}
        decider == IF matching = {} THEN policy
                   ELSE policy.rules[CHOOSE k \in matching : \A j \in matching : k <= j]
    IN [threshold |-> decider.threshold, action |-> decider.action,
        dangerous |-> dimension \in policy.dangerous]

maxUint64(left, right) == IF left > right THEN left ELSE right

\* Mutation: a threshold is crossed one value late.
crossesLate(decision, observed, projected) ==
    observed > decision.threshold \/ projected > decision.threshold

crosses(decision, observed, projected) ==
    observed >= decision.threshold \/ projected >= decision.threshold

earlyDangerousWarning(decision, observed, projected) ==
    /\ decision.dangerous
    /\ observed >= maxUint64(3, decision.threshold \div 10)
    /\ ~crosses(decision, observed, projected)

NoFinding == "none"

\* Engine.evaluate: the action of the finding, or NoFinding.
evaluate(decision, observed, projected) ==
    IF crosses(decision, observed, projected) THEN decision.action
    ELSE IF earlyDangerousWarning(decision, observed, projected) THEN "allow"
    ELSE NoFinding
=============================================================================
