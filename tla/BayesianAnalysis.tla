--------------------------- MODULE BayesianAnalysis ---------------------------
(***************************************************************************)
(* What BayesianWorldModel computes from what it has stored: the detectors  *)
(* of the diagnosis, the ranking of its hypotheses, clusters of anomalies,  *)
(* the effects of actions in a simulation. Values are whole percents; a     *)
(* value that is not a number is NaN, and every comparison with it is       *)
(* false, as in the code. Standard deviations are compared squared, so      *)
(* that the comparisons are those of the code and not approximations.       *)
(*                                                                         *)
(* The Kalman filters and the regressions are not computed: what the code   *)
(* makes of their output is modelled by the guards it stands behind.        *)
(***************************************************************************)
EXTENDS Integers, Sequences, FiniteSets, SequencesExt

CONSTANTS
    NaN,               \* a value that is not a number
    Enough,            \* 5: values an anomaly or a health score needs
    Window,            \* 10: values a correlation, a forecast, a shift needs
    Pattern,           \* 20: values the temporal analyses look at
    TurnWindow, Turns, \* 10, 4: thrashing is more than Turns turns among these
    FallWindow, Falls, \* 8, 5: a spiral is more than Falls falls among these
    CycleWindow,       \* 12: values a cycle needs
    Periods,           \* 3, 4, 6: the lags at which a cycle is looked for
    ClusterGap,        \* 30: minutes between anomalies of one cluster
    Stabilization,     \* 10: steps a simulated model switch takes to settle
    SwitchSteps        \* 3: steps of a full transition

ASSUME AnalysisAssumption ==
    /\ NaN \in Int /\ NaN < 0
    /\ {Enough, Window, Pattern, TurnWindow, FallWindow, CycleWindow, SwitchSteps} \subseteq Nat \ {0}
    /\ {Turns, Falls, ClusterGap, Stabilization} \subseteq Nat
    /\ Periods \subseteq Nat \ {0}

Square(x) == x * x
Total(h) == FoldSeq(LAMBDA x, y : x + y, 0, h)
Recent(h, n) == SubSeq(h, Max({1, Len(h) - n + 1}), Len(h))
Numbers(h) == NaN \notin ToSet(h)

(* n^2 times the variance of the n values of h                             *)
Spread(h) == Len(h) * Total([i \in DOMAIN h |-> Square(h[i])]) - Square(Total(h))

-----------------------------------------------------------------------------
(* The detectors                                                           *)

(* _detect_model_thrashing: more than Turns changes of direction           *)
Thrashing(h) ==
    LET r == Recent(h, TurnWindow)
        Turn(i) == /\ Numbers(<<r[i - 2], r[i - 1], r[i]>>)
                   /\ (r[i - 1] - r[i - 2]) * (r[i] - r[i - 1]) < 0
    IN  Len(h) >= TurnWindow /\ Quantify(3..Len(r), Turn) > Turns

(* _detect_utility_spiral                                                  *)
Spiralling(h) ==
    LET r == Recent(h, FallWindow)
        Fall(i) == Numbers(<<r[i - 1], r[i]>>) /\ r[i] < r[i - 1]
    IN  Len(h) >= FallWindow /\ Quantify(2..Len(r), Fall) > Falls

(* _detect_resource_exhaustion                                             *)
Exhausted(h) == h # <<>> /\ Last(h) > 85

(* _detect_model_performance_degradation, for the profile of the model     *)
Degraded(profile, times, confidences) ==
    \/ times # <<>> /\ 100 * Last(times) > 150 * profile.rt
    \/ confidences # <<>> /\ Last(confidences) # NaN /\ 100 * Last(confidences) < 80 * profile.conf

(* _perform_causal_diagnosis: a trend above the standard deviation         *)
Trending(h) ==
    LET r == Recent(h, Enough)
    IN  Len(r) >= 2 /\ Numbers(r) /\ Square(r[Len(r)] - r[1]) > Spread(r)

(* _perform_temporal_diagnosis: the mean of the later values has moved by  *)
(* more than two standard deviations from that of the first Window values  *)
Shifted(h) ==
    LET r == Recent(h, Pattern)
        before == SubSeq(r, 1, Window)
        after == SubSeq(r, Window + 1, Len(r))
    IN  /\ Len(h) >= Window /\ after # <<>> /\ Numbers(r)
        /\ Square((Total(after) * Len(before) - Total(before) * Len(after)) * Len(r))
             > 4 * Square(Len(before) * Len(after)) * Spread(r)

Improved(h) ==
    LET r == Recent(h, Pattern)
        before == SubSeq(r, 1, Window)
        after == SubSeq(r, Window + 1, Len(r))
    IN  Total(after) * Len(before) > Total(before) * Len(after)

(* _detect_cyclical_issues: an autocorrelation above 0.6                   *)
Cyclic(h) ==
    LET Repeats(p) ==
            LET x == SubSeq(h, 1, Len(h) - p)
                y == SubSeq(h, p + 1, Len(h))
                n == Len(x)
                cov == n * Total([i \in 1..n |-> x[i] * y[i]]) - Total(x) * Total(y)
            IN  /\ Len(h) >= 2 * p /\ Spread(x) > 0 /\ Spread(y) > 0
                /\ cov > 0 /\ 25 * cov * cov > 9 * Spread(x) * Spread(y)
    IN  Len(h) >= CycleWindow /\ Numbers(h) /\ \E p \in Periods : Repeats(p)

(* _detect_anomaly_clusters over the minutes of the anomalies: a new       *)
(* cluster begins after a gap, and clusters of one are dropped.            *)
Cluster(c, t) ==
    IF c.open # <<>> /\ t - Last(c.open) <= ClusterGap
    THEN [c EXCEPT !.open = Append(@, t)]
    ELSE [closed |-> IF Len(c.open) >= 2 THEN Append(c.closed, c.open) ELSE c.closed,
          open |-> <<t>>]
Clusters(times) ==
    LET c == FoldLeft(Cluster, [closed |-> <<>>, open |-> <<>>], times)
    IN  IF Len(times) >= 2 /\ Len(c.open) >= 2 THEN Append(c.closed, c.open) ELSE c.closed

(* What the clusters are: the runs of two or more that no gap interrupts   *)
(* and that cannot be made longer.                                         *)
ClusterRuns(times) ==
    LET Close(i) == times[i + 1] - times[i] <= ClusterGap
        Run(a, b) == /\ a < b /\ \A i \in a..(b - 1) : Close(i)
                     /\ (a = 1 \/ ~Close(a - 1)) /\ (b = Len(times) \/ ~Close(b))
    IN  {SubSeq(times, r[1], r[2]) : r \in {s \in (DOMAIN times) \X (DOMAIN times) : Run(s[1], s[2])}}

-----------------------------------------------------------------------------
(* Hypotheses                                                              *)

Hypothesis(what, about, probability, evidence, analysis) ==
    [what |-> what, about |-> about, probability |-> probability, evidence |-> evidence,
     analysis |-> analysis]

(* _rank_diagnostic_hypotheses, in thousandths. No hypothesis speaks of    *)
(* something "recent".                                                     *)
Score(h) ==
    4 * h.probability + Min({300, 100 * h.evidence})
        + IF h.analysis \in {"switch", "causal"} THEN 200 ELSE 0

(* The hypotheses that may stand first: the sort keeps the order of equals. *)
Foremost(hypotheses) == {h \in hypotheses : \A g \in hypotheses : Score(g) <= Score(h)}

(* _assess_diagnostic_urgency, by the words of the hypothesis              *)
Urgency(h) ==
    IF h.what \in {"correlated failure", "exhaustion", "thrashing"} THEN "high"
    ELSE IF h.probability > 80 \/ h.what \in {"anomaly", "causal degradation", "spiral",
                                              "degradation", "model degradation"}
         THEN "medium" ELSE "low"

(* _calculate_diagnostic_confidence: each of the five analyses has a       *)
(* confidence of its own, with hypotheses and without.                     *)
AnalysisConfidence(analysis, finds) ==
    CASE analysis = "anomaly" -> IF finds THEN 80 ELSE 30
      [] analysis = "causal" -> IF finds THEN 75 ELSE 40
      [] analysis = "switch" -> IF finds THEN 80 ELSE 50
      [] analysis = "temporal" -> IF finds THEN 70 ELSE 40
      [] analysis = "correlation" -> IF finds THEN 80 ELSE 30
Analyses == {"anomaly", "causal", "switch", "temporal", "correlation"}
DiagnosticConfidence(finding, evidence) ==
    Min({95, MapThenSumSet(LAMBDA a : AnalysisConfidence(a, a \in finding), Analyses) \div 5
               + Min({20, 2 * evidence}) + Min({10, 2 * Cardinality(Analyses)})})

-----------------------------------------------------------------------------
(* Simulation                                                              *)

(* _calculate_adaptive_timesteps, for a volatility of "high", "medium" or  *)
(* "low"; the first point of the time line is now and is not predicted.    *)
TimeSteps(horizon, volatility) ==
    CASE volatility = "high" -> Min({4 * horizon, 120})
      [] volatility = "medium" -> Min({2 * horizon, 60})
      [] volatility = "low" -> Min({horizon, 30})

(* _calculate_utility_score                                                *)
UtilityScore(rt, conf) ==
    LET fast == IF rt <= 10 THEN 100 ELSE IF rt >= 100 THEN -5 * (rt - 100)
                ELSE 100 - ((rt - 10) * 100) \div 90
        good == IF conf >= 100 THEN 100 ELSE IF conf <= 50 THEN -5 * (50 - conf)
                ELSE 2 * (conf - 50)
    IN  (fast + good) \div 2

(* _apply_switch_model_effects at step i (from 0), on the metrics state    *)
(* has: response time overshoots and confidence dips while the transition  *)
(* is under way. A model without a profile changes nothing.                *)
SwitchEffects(state, profiles, from, to, i) ==
    LET p == Min({SwitchSteps, i + 1})
        Profile(m) == IF m \in DOMAIN profiles THEN profiles[m] ELSE [rt |-> 20, conf |-> 75, cpu |-> 100]
        Between(a, b) == (a * (SwitchSteps - p) + b * p) \div SwitchSteps
        moving == p < SwitchSteps
        old == Profile(from)
        new == Profile(to)
    IN  IF to \notin DOMAIN profiles THEN state
        ELSE [m \in DOMAIN state |->
                CASE m = "image_processing_time" ->
                       (Between(old.rt, new.rt) * (IF moving THEN 120 ELSE 100)) \div 100
                  [] m = "confidence" ->
                       (Between(old.conf, new.conf) * (IF moving THEN 95 ELSE 100)) \div 100
                  [] m = "cpu_usage" -> Min({95, (state[m] * Between(old.cpu, new.cpu)) \div old.cpu})
                  [] OTHER -> state[m]]

(* _apply_dimmer_effects                                                   *)
DimmerEffects(state, dimmer) ==
    [m \in DOMAIN state |->
       CASE m = "image_processing_time" -> (state[m] * (70 + (30 * dimmer) \div 100)) \div 100
         [] m = "confidence" /\ dimmer < 80 -> Max({50, state[m] - (80 - dimmer) \div 10})
         [] OTHER -> state[m]]

(* _apply_enhanced_action_effects: the actions of the plan on the          *)
(* predictions of one step. Every switch is compared with the model the    *)
(* step began with, and the last one that differs from it stays. Actions   *)
(* on servers are unknown here and change nothing.                         *)
ActionEffects(state, plan, profiles, model, i) ==
    LET Apply(acc, action) ==
            CASE action.type = "SWITCH_MODEL" /\ action.model # model ->
                   [state |-> SwitchEffects(acc.state, profiles, model, action.model, i),
                    model |-> action.model]
              [] action.type = "SET_DIMMER" ->
                   [acc EXCEPT !.state = DimmerEffects(@, action.value)]
              [] OTHER -> acc
    IN  FoldLeft(Apply, [state |-> state, model |-> model], plan)

(* _run_deterministic_simulation over n predicted steps, each of which     *)
(* would show state if nothing were done. A step is predicted with less    *)
(* confidence while an earlier switch settles. The utility of a step is    *)
(* that of its time and confidence, when both are predicted.               *)
WithUtility(state) ==
    IF {"image_processing_time", "confidence"} \subseteq DOMAIN state
    THEN ("utility" :> UtilityScore(state["image_processing_time"], state["confidence"])) @@ state
    ELSE state
Simulated(plan, profiles, state, n) ==
    LET Step(s, i) ==
            LET e == ActionEffects(state, plan, profiles, s.model, i - 1)
                switched == e.model # s.model
            IN  [model |-> e.model,
                 settling |-> Max({0, (IF switched THEN Stabilization ELSE s.settling) - 1}),
                 steps |-> Append(s.steps, [metrics |-> WithUtility(e.state),
                                            settling |-> s.settling > 0, switched |-> switched])]
    IN  FoldLeft(Step, [model |-> "yolov5s", settling |-> 0, steps |-> <<>>],
                 [i \in 1..n |-> i]).steps

(* _calculate_enhanced_confidence: what the plan takes off the confidence  *)
PlanPenalty(plan) ==
    LET Of(type) == Cardinality({i \in DOMAIN plan : plan[i].type = type})
    IN  10 * Of("SWITCH_MODEL") + 5 * Of("SET_DIMMER")

(* _estimate_enhanced_action_impacts, in thousandths                       *)
Impacts(plan, profiles) ==
    LET Impact(action) ==
            CASE action.type = "SWITCH_MODEL" /\ action.model \in DOMAIN profiles ->
                   LET p == profiles[action.model]
                   IN  [cost |-> p.cpu - 100, performance |-> 5 * (50 - p.rt),
                        reliability |-> 3 * (p.conf - 75)]
              [] action.type = "SET_DIMMER" ->
                   [cost |-> -((100 - action.value) \div 2), performance |-> 100 - action.value,
                    reliability |-> -((100 - action.value) \div 2)]
              [] OTHER -> [cost |-> 0, performance |-> 0, reliability |-> 0]
        Add(acc, action) == [k \in DOMAIN acc |-> acc[k] + Impact(action)[k]]
    IN  FoldLeft(Add, [cost |-> 0, performance |-> 0, reliability |-> 0], plan)

-----------------------------------------------------------------------------
(***************************************************************************)
(* What a Bayesian answer says beside its confidence: grades, alerts,       *)
(* forecasts and recommendations. They are computed from numbers the        *)
(* filters and regressions give, so that these operators take those numbers *)
(* as arguments, in whole percents; thirds and halves are not divided but   *)
(* compared with thresholds three times and twice as large.                 *)
(***************************************************************************)
CONSTANTS
    DayPeriods,     \* 12, 24, 48: the lags at which a season is looked for
    SeasonWindow    \* 24: values that takes

ASSUME AdviceAssumption == DayPeriods \subseteq Nat \ {0} /\ SeasonWindow \in Nat

Within(x, a, b) == Max({a, Min({x, b})})
OrElse(advice, otherwise) == IF advice = {} THEN {otherwise} ELSE advice

-----------------------------------------------------------------------------
(* model_performance: metrics is a function from names to what was measured *)

(* _calculate_overall_performance_score, for one metric, three times       *)
ValueScore(m, value) ==
    CASE m \in {"utility", "confidence"} -> Within(value, 0, 100)
      [] m = "image_processing_time" -> Within(100 - value, 0, 100)
      [] OTHER -> 50
MetricScore(m, q) == q.stability + Max({0, 100 - 20 * q.anomalies}) + ValueScore(m, q.value)
Performance(metrics) == SumFunction([m \in DOMAIN metrics |-> MetricScore(m, metrics[m])])

(* Is the mean of n metrics' scores at least t percent?                    *)
Scores(metrics, t) ==
    IF DOMAIN metrics = {} THEN 50 >= t ELSE Performance(metrics) >= 3 * t * Cardinality(DOMAIN metrics)

(* _grade_performance                                                      *)
Grade(metrics) ==
    CASE Scores(metrics, 90) -> "A" [] Scores(metrics, 80) -> "B"
      [] Scores(metrics, 70) -> "C" [] Scores(metrics, 60) -> "D" [] OTHER -> "F"

(* _assess_stability                                                       *)
Stability(metrics) ==
    LET total == SumFunction([m \in DOMAIN metrics |-> metrics[m].stability])
        n == Cardinality(DOMAIN metrics)
    IN  IF n = 0 THEN "unknown"
        ELSE IF total >= 80 * n THEN "high" ELSE IF total >= 60 * n THEN "medium" ELSE "low"

(* _generate_performance_recommendations                                   *)
PerformanceAdvice(metrics) ==
    OrElse((IF Scores(metrics, 60) THEN {} ELSE {<<"immediate attention", "all">>})
             \cup {<<"investigate", m>> : m \in {k \in DOMAIN metrics : metrics[k].anomalies > 3}}
             \cup {<<"stabilize", m>> : m \in {k \in DOMAIN metrics : metrics[k].stability < 50}},
           <<"within acceptable ranges", "all">>)

-----------------------------------------------------------------------------
(* utility_optimization: the profiles, and the utility and CPU usage of now *)

ExpectedUtility(p) == UtilityScore(p.rt, p.conf)
Optimal(profiles) ==
    {m \in DOMAIN profiles : \A k \in DOMAIN profiles :
        ExpectedUtility(profiles[k]) <= ExpectedUtility(profiles[m])}
Feasible(p, cpu) == cpu # NaN /\ cpu * p.cpu < 8500

(* _generate_optimization_recommendations for the optimal model m          *)
OptimizationAdvice(profiles, m, utility, cpu) ==
    LET improvement == ExpectedUtility(profiles[m]) - utility
        feasible == {k \in DOMAIN profiles : Feasible(profiles[k], cpu)}
        Best(ms) == {k \in ms : \A j \in ms : ExpectedUtility(profiles[j]) <= ExpectedUtility(profiles[k])}
    IN  IF m \notin feasible
        THEN {<<"not feasible", "all">>} \cup {<<"alternative", k>> : k \in Best(feasible)}
        ELSE IF improvement > 5 THEN {<<"switch", m>>}
        ELSE IF improvement > 1 THEN {<<"consider", m>>} ELSE {<<"current model is optimal", "all">>}

-----------------------------------------------------------------------------
(* system_health                                                           *)

(* The health of one metric, three times, and how many of n such scores    *)
(* call their sum                                                          *)
HealthScore(q) == q.stability + q.trend + Max({0, 100 - 10 * q.anomalies})
BugHealthStatus(total, n) ==
    IF total > 210 THEN "healthy" ELSE IF total > 120 * n THEN "degraded" ELSE "critical"
HealthStatus(total, n) ==
    IF total > 210 * n THEN "healthy" ELSE IF total > 120 * n THEN "degraded" ELSE "critical"
OverallStatus(metrics) ==
    IF DOMAIN metrics = {} THEN "degraded"
    ELSE HealthStatus(SumFunction([m \in DOMAIN metrics |-> HealthScore(metrics[m])]),
                      Cardinality(DOMAIN metrics))
CriticalMetrics(metrics) == {m \in DOMAIN metrics : HealthStatus(HealthScore(metrics[m]), 1) = "critical"}

(* _generate_health_alerts, _generate_health_recommendations               *)
HealthAlerts(metrics) ==
    {<<"system", s>> : s \in {OverallStatus(metrics)} \cap {"critical", "degraded"}}
        \cup IF CriticalMetrics(metrics) = {} THEN {} ELSE {<<"metrics critical", "all">>}
HealthAdvice(metrics) ==
    CASE OverallStatus(metrics) = "critical" -> {"immediate attention", "restart", "review changes"}
      [] OverallStatus(metrics) = "degraded" -> {"monitor closely", "maintenance", "review usage"}
      [] OTHER -> {"continue monitoring"}

(* _analyze_health_trends over the metrics' scores, in the order in which   *)
(* the metrics were first seen: its later scores are those of later         *)
(* metrics, not of later times. Scores are means of two.                   *)
HealthDirection(scores) ==
    LET n == Len(scores)
        recent == IF n >= 3 THEN Recent(scores, 3) ELSE <<Last(scores)>>
        older == IF n >= 6 THEN SubSeq(scores, 1, n - 3) ELSE <<Head(scores)>>
        gain == Total(recent) * Len(older) - Total(older) * Len(recent)
        tenth == 20 * Len(older) * Len(recent)
    IN  IF n < 2 \/ (gain <= tenth /\ gain >= -tenth) THEN "stable"
        ELSE IF gain > tenth THEN "improving" ELSE "degrading"

-----------------------------------------------------------------------------
(* temporal_patterns                                                       *)

(* _analyze_trend_pattern: the line through the values, by its slope, the  *)
(* error of the slope, and the correlation                                 *)
Line(h) ==
    LET n == Len(h)
        xs == [i \in 1..n |-> i]
    IN  [n |-> n, xx |-> Spread(xs), yy |-> Spread(h),
         xy |-> n * Total([i \in 1..n |-> i * h[i]]) - Total(xs) * Total(h)]
Direction(h) ==
    LET l == Line(h)
    IN  IF (l.n - 1) * l.xy * l.xy < l.xx * l.yy THEN "stable"
        ELSE IF l.xy > 0 THEN "increasing" ELSE "decreasing"
StrongTrend(h) == LET l == Line(h) IN 100 * l.xy * l.xy > 49 * l.xx * l.yy

(* _detect_seasonality: an autocorrelation beyond 0.3, either way          *)
Seasonal(h) ==
    LET Repeats(p) ==
            LET x == SubSeq(h, 1, Len(h) - p)
                y == SubSeq(h, p + 1, Len(h))
                cov == Len(x) * Total([i \in DOMAIN x |-> x[i] * y[i]]) - Total(x) * Total(y)
            IN  Len(h) >= 2 * p /\ 100 * cov * cov > 9 * Spread(x) * Spread(y)
    IN  Len(h) >= SeasonWindow /\ Numbers(h) /\ \E p \in DayPeriods : Repeats(p)

(* _calculate_volatility_pattern, by the mean variation of the windows     *)
Volatility(n, variation) ==
    IF n < Window THEN "unknown"
    ELSE IF variation < 10 THEN "low" ELSE IF variation < 30 THEN "medium" ELSE "high"

(* _generate_pattern_insights, _generate_pattern_recommendations           *)
PatternInsights(h, variation, clusters) ==
    (IF StrongTrend(h) THEN {<<"strong", Direction(h)>>} ELSE {})
        \cup {<<"volatility", v>> : v \in {Volatility(Len(h), variation)} \ {"unknown"}}
        \cup (IF Seasonal(h) THEN {<<"seasonal", "all">>} ELSE {})
        \cup (IF clusters > 0 THEN {<<"clusters", "all">>} ELSE {})
PatternAdvice(h, variation, clusters) ==
    OrElse((IF Direction(h) = "decreasing" /\ StrongTrend(h) THEN {"declining"} ELSE {})
             \cup (IF Volatility(Len(h), variation) = "high" THEN {"stabilize"} ELSE {})
             \cup (IF clusters > 2 THEN {"systematic issue"} ELSE {}),
           "patterns normal")

-----------------------------------------------------------------------------
(* performance_forecast: base is a function from metrics to the values a    *)
(* copy of the metric's filter predicts                                    *)

(* _generate_kalman_forecast                                               *)
ForecastSteps(horizon) == Min({horizon \div 5, 20})

(* _generate_optimistic_forecast, _generate_pessimistic_forecast, in        *)
(* hundredths of a percent                                                 *)
Scenario(base, good) ==
    LET Factor(m) == CASE m \in {"utility", "confidence"} -> IF good THEN 115 ELSE 85
                       [] m \in {"image_processing_time", "cpu_usage"} -> IF good THEN 85 ELSE 115
                       [] OTHER -> 100
    IN  [m \in DOMAIN base |-> [i \in DOMAIN base[m] |-> base[m][i] * Factor(m)]]

(* _forecast_model_switch_impact: times and confidences are scaled so that  *)
(* they begin at the profile's (times above zero); the utility is that of   *)
(* the current model.                                                      *)
SwitchForecast(base, p) ==
    LET Scaled(h, expected) == [i \in DOMAIN h |-> (h[i] * expected) \div h[1]]
    IN  [m \in DOMAIN base |->
            CASE base[m] = <<>> -> <<>>
              [] m = "image_processing_time" -> Scaled(base[m], p.rt)
              [] m = "confidence" -> Scaled(base[m], p.conf)
              [] OTHER -> base[m]]

(* _generate_forecast_insights: a forecast that does not move decreases    *)
ForecastTrend(h) == IF Last(h) > h[1] THEN "increasing" ELSE "decreasing"

(* _generate_forecast_recommendations                                      *)
ForecastAdvice(base, profiles, current) ==
    LET utility == IF "utility" \in DOMAIN base THEN base["utility"] ELSE <<>>
        others == DOMAIN profiles \ {current}
    IN  OrElse((IF utility # <<>> /\ Last(utility) < 50 THEN {"decline"} ELSE {})
                 \cup (IF utility # <<>> /\ Last(utility) > -100 /\ others # {}
                       THEN {"consider switching"} ELSE {}),
               "continue monitoring")

(* _analyze_forecast_uncertainty: how far the scenarios lie apart          *)
ScenarioSpread(base) ==
    LET last == {m \in DOMAIN base : base[m] # <<>>}
        Apart(m) == LET d == Last(Scenario(base, TRUE)[m]) - Last(Scenario(base, FALSE)[m])
                    IN  IF d < 0 THEN -d ELSE d
    IN  MapThenSumSet(Apart, last)

-----------------------------------------------------------------------------
(* simulate, "monte_carlo"                                                 *)

(* _aggregate_monte_carlo_scenarios: the means, step by step, over the      *)
(* scenarios that have the step and the metric                             *)
Aggregated(scenarios) ==
    LET At(t) == SelectSeq(scenarios, LAMBDA s : t <= Len(s))
        Mean(xs) == Total(xs) \div Len(xs)
        Names(t) == UNION {DOMAIN At(t)[i][t] : i \in DOMAIN At(t)}
        Values(t, m) == LET s == SelectSeq(At(t), LAMBDA x : m \in DOMAIN x[t])
                        IN  [i \in DOMAIN s |-> s[i][t][m]]
    IN  [t \in 1..Len(scenarios[1]) |-> [m \in Names(t) |-> Mean(Values(t, m))]]

(* _run_monte_carlo_simulation: the noise that would make the scenarios     *)
(* differ is not added.                                                    *)
MonteCarlo(plan, profiles, state, n, scenarios) ==
    LET run == Simulated(plan, profiles, state, n)
    IN  Aggregated([i \in 1..scenarios |-> [t \in DOMAIN run |-> run[t].metrics]])

-----------------------------------------------------------------------------
(* diagnose                                                                *)

(* The words of a hypothesis that anything is made of                      *)
WordsOf(m) ==
    CASE m = "utility" -> {"utility"} [] m = "image_processing_time" -> {"processing"}
      [] m = "cpu_usage" -> {"cpu"} [] OTHER -> {}
Words(h) ==
    CASE h.what = "anomaly" -> {"anomaly"} \cup WordsOf(h.about)
      [] h.what = "causal degradation" ->
           {"degradation"} \cup WordsOf(h.about)
             \cup WordsOf(IF h.about = "cpu_usage" THEN "image_processing_time" ELSE "utility")
      [] h.what = "thrashing" -> {"model", "switching", "thrashing"}
      [] h.what = "spiral" -> {"utility", "degradation", "spiral"}
      [] h.what = "exhaustion" -> {"resource", "exhaustion"}
      [] h.what = "model degradation" -> {"performance", "degradation", "yolo"}
      [] h.what = "degradation" -> {"degradation"} \cup WordsOf(h.about)
      [] h.what = "correlated failure" -> {"failure"} \cup UNION {WordsOf(m) : m \in h.about}
      [] OTHER -> WordsOf(h.about)

(* _generate_diagnostic_recommendations: three for each thing the foremost  *)
(* hypothesis speaks of, five in all                                       *)
DiagnosticAdvice(h) ==
    LET w == Words(h)
        kinds == SelectSeq(<<"thrashing", "utility", "resource", "anomaly">>,
                           LAMBDA k : k \in w /\ (k = "utility" => "degradation" \in w))
        all == FlattenSeq([i \in DOMAIN kinds |-> <<kinds[i], kinds[i], kinds[i]>>])
    IN  IF kinds = <<>> THEN <<"generic", "generic", "generic">>
        ELSE SubSeq(all, 1, Min({5, Len(all)}))

(* _identify_affected_systems by the three foremost hypotheses             *)
ForemostThree(hypotheses) ==
    {top \in kSubset(Min({3, Cardinality(hypotheses)}), hypotheses) :
        \A h \in top, g \in hypotheses \ top : Score(g) <= Score(h)}
AffectedSystems(top) ==
    LET w == UNION {Words(h) : h \in top}
        Found(words, system) == IF w \cap words = {} THEN {} ELSE {system}
    IN  OrElse(Found({"model", "yolo", "switching"}, "model_switching")
                 \cup Found({"utility", "performance"}, "performance_optimization")
                 \cup Found({"cpu", "resource", "memory"}, "resource_management")
                 \cup Found({"processing", "response", "latency"}, "processing_pipeline"),
               "general_system")

-----------------------------------------------------------------------------
(* Properties, over bounded inputs                                         *)

Measured == [stability : {20, 50, 100}, anomalies : {0, 4}, value : {0, 90}]
Healths == [stability : {20, 100}, trend : {0, 50, 100}, anomalies : {0, 10}]

(* What is graded an F, and nothing else, needs immediate attention; what   *)
(* is called fine has no F; and more anomalies never make a better grade.   *)
(* (What is called fine may be of low stability, between 50 and 60.)       *)
GradesAgree ==
    \A u, c \in Measured :
        LET metrics == ("utility" :> u) @@ ("confidence" :> c)
            worse == [metrics EXCEPT !["utility"].anomalies = @ + 1]
        IN  /\ Grade(metrics) = "F" <=> <<"immediate attention", "all">> \in PerformanceAdvice(metrics)
            /\ <<"within acceptable ranges", "all">> \in PerformanceAdvice(metrics) =>
                 Grade(metrics) # "F" /\ (Stability(metrics) = "low" => 50 \in {u.stability, c.stability})
            /\ Performance(worse) <= Performance(metrics)

(* No metric is critical unnoticed; a healthy system that raises no alert   *)
(* has no critical metric, and an alert of the system comes with advice    *)
(* other than to go on.                                                    *)
AlertsAgree ==
    \A u, c \in Healths :
        LET metrics == ("utility" :> u) @@ ("confidence" :> c)
        IN  /\ HealthAlerts(metrics) = {} => CriticalMetrics(metrics) = {} /\ OverallStatus(metrics) = "healthy"
            /\ OverallStatus(metrics) # "healthy" <=> HealthAdvice(metrics) # {"continue monitoring"}
            /\ CriticalMetrics(metrics) = {"utility", "confidence"} => OverallStatus(metrics) = "critical"

(* A trend called strong has a direction, the one its line has; a metric    *)
(* that does not move has none that is strong.                             *)
TrendsAgree(values, n) ==
    \A h \in [1..n -> values] :
        /\ <<"strong", "stable">> \notin PatternInsights(h, 0, 0)
        /\ (\A i \in 1..(n - 1) : h[i] < h[i + 1]) => Direction(h) = "increasing"
        /\ Cardinality(ToSet(h)) = 1 => ~StrongTrend(h) /\ PatternAdvice(h, 0, 0) = {"patterns normal"}

(* Whether health improves is the same question, the other way round, for   *)
(* metrics that are healthier by the score they lack; and it does not      *)
(* change when all are healthier alike.                                    *)
DirectionsAgree(scores, n) ==
    \A k \in 2..n : \A h \in [1..k -> scores] :
        LET worse == [i \in 1..k |-> 200 - h[i]]
            better == [i \in 1..k |-> h[i] + 10]
        IN  /\ HealthDirection(h) = "improving" <=> HealthDirection(worse) = "degrading"
            /\ HealthDirection(better) = HealthDirection(h)

(* As long as nothing is negative, the scenarios enclose the forecast; a    *)
(* switch is forecast to begin at its profile, and to leave the utility     *)
(* alone, for which it is nevertheless recommended.                        *)
ForecastsAgree(profiles) ==
    \A u \in {-20, 0, 40, 90}, t \in {10, 80} :
        LET steps == 1..ForecastSteps(10)
            base == ("utility" :> [i \in steps |-> u + 10 * i])
                      @@ ("image_processing_time" :> [i \in steps |-> t + 5 * i])
            good == Scenario(base, TRUE)
            bad == Scenario(base, FALSE)
        IN  /\ u >= 0 => \A i \in steps : bad["utility"][i] <= 100 * base["utility"][i] /\ 100 * base["utility"][i] <= good["utility"][i]
            /\ ForecastTrend(good["image_processing_time"]) = ForecastTrend(base["image_processing_time"])
            /\ ScenarioSpread(base) >= 0
            /\ \A m \in DOMAIN profiles : LET f == SwitchForecast(base, profiles[m]) IN
                 f["image_processing_time"][1] = profiles[m].rt /\ f["utility"] = base["utility"]
            /\ "consider switching" \in ForecastAdvice(base, profiles, "yolov5s")
                 <=> DOMAIN profiles \ {"yolov5s"} # {}
=============================================================================
