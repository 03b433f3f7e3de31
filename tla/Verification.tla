----------------------------- MODULE Verification -----------------------------
(***************************************************************************)
(* What the verification adapter says of an action: the constraints, the   *)
(* policies and the simulation it consults at the level a request asks for,*)
(* and the verdict it makes of the violations it finds.                    *)
(*                                                                         *)
(* A request is [type, params, approved_by, context, level].  `params' and *)
(* `context' are functions whose domain is the keys that are present, so   *)
(* that what the conditions take for a missing reading is visible.  A      *)
(* dimmer value and a utilization are in tenths.                           *)
(***************************************************************************)
EXTENDS Integers, Sequences, FiniteSets

LOCAL INSTANCE SequencesExt

Levels == {"basic", "policy", "formal", "comprehensive"}
Configurations == {"none", "default", "framework", "plugin"}

NoKeys == [k \in {} |-> 0]

(* f.get(key, default) *)
Reading(f, key, default) == IF key \in DOMAIN f THEN f[key] ELSE default
Count(r) == Reading(r.params, "count", 1)

-----------------------------------------------------------------------------
(* The shipped constraints and rules.  safe_eval refuses `in', `is' and    *)
(* list displays, and a name that is not in the evaluation context raises. *)

Holds(condition) == IF condition THEN "holds" ELSE "fails"

BugMinServers(r) == Reading(r.context, "active_servers", 1) - Count(r) >= 0
MinServers(r) == Reading(r.context, "active_servers", 1) - Count(r) >= 1

Evaluates(id, r) ==
    CASE id = "max_servers_limit" ->
            Holds(\/ r.type # "ADD_SERVER"
                  \/ Reading(r.context, "active_servers", 0) + Count(r)
                        <= Reading(r.context, "max_servers", 10))
      [] id = "min_servers_requirement" -> Holds(r.type # "REMOVE_SERVER" \/ MinServers(r))
      [] id = "dimmer_range_check" ->
            Holds(r.type # "SET_DIMMER" \/ Reading(r.params, "value", 10) \in 0..10)
      [] id = "utilization_threshold" ->
            Holds(r.type # "REMOVE_SERVER" \/ Reading(r.context, "utilization", 0) < 8)
      [] id = "gradual_scaling" -> Holds(r.type # "ADD_SERVER" \/ Count(r) <= 2)
      [] OTHER -> "raises"

Constraint(id, type, severity) == [id |-> id, type |-> type, severity |-> severity]

PluginConstraints ==
    <<Constraint("max_servers_limit", "resource", "critical"),
      Constraint("min_servers_requirement", "safety", "critical"),
      Constraint("dimmer_range_check", "safety", "high"),
      Constraint("utilization_threshold", "resource", "high")>>

FrameworkConstraints ==
    <<Constraint("cpu_utilization_limit", "resource", "high"),
      Constraint("memory_utilization_limit", "resource", "high"),
      Constraint("concurrent_actions_limit", "safety", "medium"),
      Constraint("system_availability_check", "safety", "critical")>>

DefaultConstraints ==
    <<Constraint("valid_action_type", "safety", "critical"),
      Constraint("required_parameters", "safety", "high")>>

Constraints(config) ==
    CASE config = "plugin" -> PluginConstraints
      [] config = "framework" -> FrameworkConstraints
      [] config = "default" -> DefaultConstraints
      [] config = "none" -> <<>>

(* The rules of each policy; those of the framework's file have none.      *)
PluginPolicies ==
    <<<<Constraint("approval_required_for_removal", "policy", "medium"),
        Constraint("gradual_scaling", "policy", "low")>>>>

DefaultPolicies == <<<<Constraint("action_source_required", "policy", "medium")>>>>

Policies(config) ==
    CASE config = "plugin" -> PluginPolicies
      [] config = "default" -> DefaultPolicies
      [] OTHER -> <<>>

EnableDigitalTwin(config) == config \in {"plugin", "framework"}

-----------------------------------------------------------------------------
(* _evaluate_constraint: a condition that cannot be evaluated is a "high"  *)
(* violation, whatever the constraint's own severity.                      *)
Violation(c, r) ==
    CASE Evaluates(c.id, r) = "holds" -> {}
      [] Evaluates(c.id, r) = "fails" -> {c}
      [] OTHER -> {[c EXCEPT !.severity = "high"]}

(* _check_constraints *)
ConstraintViolations(config, r) ==
    UNION {Violation(Constraints(config)[k], r) : k \in DOMAIN Constraints(config)}

(* _evaluate_policy: the first rule that does not hold is the policy's     *)
(* answer, and one that cannot be evaluated does not hold.                 *)
BrokenRules(rules, r) == SelectSeq(rules, LAMBDA c : Evaluates(c.id, r) # "holds")

PolicyViolation(rules, r) ==
    IF BrokenRules(rules, r) = <<>> THEN {}
    ELSE LET c == Head(BrokenRules(rules, r)) IN
         {IF Evaluates(c.id, r) = "fails" THEN c ELSE [c EXCEPT !.severity = "medium"]}

PolicyViolations(config, r) == UNION {PolicyViolation(p, r) : p \in ToSet(Policies(config))}

(* _check_digital_twin reads current_servers, not active_servers.          *)
TwinViolations(config, r) ==
    IF ~EnableDigitalTwin(config) THEN {}
    ELSE {c \in {Constraint("max_servers_exceeded", "resource", "critical"),
                 Constraint("min_servers_violated", "safety", "critical")} :
            \/ /\ c.id = "max_servers_exceeded" /\ r.type = "ADD_SERVER"
               /\ Reading(r.context, "current_servers", 0) >= Reading(r.context, "max_servers", 10)
            \/ /\ c.id = "min_servers_violated" /\ r.type = "REMOVE_SERVER"
               /\ Reading(r.context, "current_servers", 1) <= Reading(r.context, "min_servers", 1)}

TwinConsulted(config, r) == EnableDigitalTwin(config) /\ r.level \in {"formal", "comprehensive"}

(* The phases of verify_action; the formal one finds nothing yet.          *)
Violations(config, r) ==
    ConstraintViolations(config, r)
        \cup (IF r.level \in {"policy", "comprehensive"} THEN PolicyViolations(config, r) ELSE {})
        \cup (IF TwinConsulted(config, r) THEN TwinViolations(config, r) ELSE {})

OfSeverity(violations, s) == {c \in violations : c.severity = s}

(* The confidence in tenths.                                               *)
Confidence(violations) ==
    LET AtLeast(low, x) == IF x < low THEN low ELSE x IN
    CASE OfSeverity(violations, "critical") # {} -> 0
      [] OfSeverity(violations, "high") # {} ->
            AtLeast(3, 10 - 2 * Cardinality(OfSeverity(violations, "high")))
      [] violations # {} -> AtLeast(7, 10 - Cardinality(violations))
      [] OTHER -> 10

(* _generate_fix_recommendations: every shipped critical constraint has a  *)
(* suggested fix.                                                          *)
FixRecommendations(violations) ==
    {<<"must be modified">>}
        \cup {<<"fix", c.id>> : c \in OfSeverity(violations, "critical")}
        \cup (IF OfSeverity(violations, "high") # {} THEN {<<"consider high">>} ELSE {})

Verdict(config, r) ==
    LET found == Violations(config, r)
        approved == OfSeverity(found, "critical") = {}
    IN  [approved |-> approved, confidence |-> Confidence(found),
         recommendations |->
            (IF TwinConsulted(config, r) /\ TwinViolations(config, r) = {}
             THEN {<<"simulated as safe">>} ELSE {})
            \cup (IF approved THEN {} ELSE FixRecommendations(found))]

(* _worker, when verify_action has not ended in timeout_sec.               *)
TimedOut == [approved |-> FALSE, confidence |-> 0,
             recommendations |-> {<<"rejected by timeout">>}]

(* _request_handler: what the adapter takes a message for.  A decision     *)
(* loses the parameters it came with, and a message that names no type     *)
(* becomes a CUSTOM action.                                                *)
Transformed(message) ==
    CASE message.kind = "decision" -> [message EXCEPT !.params = NoKeys]
      [] message.kind = "typed" -> message
      [] message.kind = "bare" -> [message EXCEPT !.type = "CUSTOM"]

-----------------------------------------------------------------------------
(* What a verdict is worth, over every request that can be told apart.     *)

SomeKeys(keys, values) == UNION {[some -> values] : some \in SUBSET keys}
Requests(level) ==
    [type : {"ADD_SERVER", "REMOVE_SERVER", "SET_DIMMER", "CUSTOM"},
     params : SomeKeys({"count"}, 1..3) \cup SomeKeys({"value"}, {5, 11}),
     context : SomeKeys({"active_servers", "current_servers", "max_servers"}, {1, 3})
                  \cup SomeKeys({"active_servers", "utilization"}, {2, 8}),
     level : {level}]

AtLevel(r, level) == [r EXCEPT !.level = level]

(* With the constraints of the SWIM plugin and the readings at hand, an    *)
(* approved action stays within the pool: whatever the level.              *)
ApprovedStaysInPool(r) ==
    Verdict("plugin", r).approved =>
       /\ (r.type = "ADD_SERVER" /\ {"active_servers", "max_servers"} \subseteq DOMAIN r.context
           => r.context["active_servers"] + Count(r) <= r.context["max_servers"])
       /\ (r.type = "REMOVE_SERVER" /\ "active_servers" \in DOMAIN r.context
           => r.context["active_servers"] - Count(r) >= 1)

(* A level that looks at more never approves what one that looks at less   *)
(* rejects, and is never more confident of it.                             *)
ThoroughIsStricter(config, r) ==
    \A pair \in {<<"basic", "policy">>, <<"basic", "formal">>,
                 <<"policy", "comprehensive">>, <<"formal", "comprehensive">>} :
       LET less == Verdict(config, AtLevel(r, pair[1]))
           more == Verdict(config, AtLevel(r, pair[2]))
       IN  /\ more.approved => less.approved
           /\ more.confidence <= less.confidence

(* Confidence agrees with the verdict, and a rejected action's sender is   *)
(* told what to fix.                                                       *)
VerdictAgrees(config, r) ==
    LET v == Verdict(config, r) IN
    /\ v.approved <=> v.confidence > 0
    /\ v.approved => v.confidence \in 3..10
    /\ ~v.approved => \E advice \in v.recommendations : Len(advice) = 2

(* What no verdict of the deployed configurations may get wrong.           *)
VerdictsHold ==
    \A r \in Requests("policy") :
       /\ \A level \in Levels : ApprovedStaysInPool(AtLevel(r, level))
       /\ \A config \in Configurations :
             ThoroughIsStricter(config, r) /\ VerdictAgrees(config, AtLevel(r, "comprehensive"))
=============================================================================
