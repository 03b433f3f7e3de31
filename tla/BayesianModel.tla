----------------------------- MODULE BayesianModel -----------------------------
(***************************************************************************)
(* BayesianWorldModel: the metrics it tracks, the noise its filters share,  *)
(* the tasks that correlate metrics and assess the health of the system,    *)
(* and what it answers and diagnoses from them. No method waits for         *)
(* anything while it works on the state, so every operation is one step;    *)
(* a reload waits for its cancelled tasks and is two.                       *)
(*                                                                         *)
(* Whether a value is an anomaly, and how strongly two metrics correlate,   *)
(* is decided by arithmetic that is left out: either outcome is possible    *)
(* wherever the guards before that arithmetic let it be reached.            *)
(***************************************************************************)
EXTENDS BayesianAnalysis

CONSTANTS
    Metrics,           \* names of metrics
    Kept,              \* 1000: values kept of a metric
    AnomaliesKept,     \* 100: anomalies kept of a metric
    Three,             \* 3: metrics that make an answer a confident one
    MaxCalibrations,   \* bound: calibrations that change the noise, each way
    Tracked            \* deployments: what is measured, by whom, with which profiles

ASSUME ModelAssumption ==
    /\ {Kept, AnomaliesKept, Three} \subseteq Nat \ {0} /\ Window <= Kept /\ Enough <= Kept
    /\ MaxCalibrations \in Nat
    /\ \A t \in Tracked :
         /\ t.values \in [Metrics -> SUBSET Int] /\ t.outside \subseteq Metrics
         /\ t.calibrated \in BOOLEAN

VARIABLES
    tracked,      \* the deployment
    phase,        \* "up", or "down" while a reload waits for the cancelled tasks
    history,      \* values of each metric; the metric is known from the first one on
    stamp,        \* kind of time stamp the latest value of a metric came with
    anomalies,    \* kinds of time stamp of a metric's kept anomalies
    poisoned,     \* metrics whose mean has become NaN
    filter,       \* the noise each metric's Kalman filter was given last
    noise,        \* how often measurement noise was raised and lowered
    correlation,  \* what is stored for each pair of metrics
    assessor,     \* the health task: "asleep", "retrying" after an error
    unassessed    \* a value has come since health was assessed last

modelVars == <<tracked, phase, history, stamp, anomalies, poisoned, filter, noise, correlation,
               assessor, unassessed>>

Pairs == {p \in SUBSET Metrics : Cardinality(p) = 2}
Known == {m \in Metrics : history[m] # <<>>}
NoNoise == [raised |-> 0, lowered |-> 0]

BayesianTypeOK ==
    /\ tracked \in Tracked /\ phase \in {"up", "down"}
    /\ \A m \in Metrics :
         /\ Len(history[m]) <= Kept /\ ToSet(history[m]) \subseteq tracked.values[m]
         /\ Len(anomalies[m]) <= AnomaliesKept
    /\ stamp \in [Metrics -> {"aware", "naive"}] /\ poisoned \subseteq Known
    /\ noise \in [raised : 0..MaxCalibrations, lowered : 0..MaxCalibrations]
    /\ correlation \in [Pairs -> {"none", "weak", "strong"}]
    /\ assessor \in {"asleep", "retrying"} /\ unassessed \in BOOLEAN

(* SystemState()                                                           *)
Empty ==
    /\ history' = [m \in Metrics |-> <<>>] /\ stamp' = [m \in Metrics |-> "aware"]
    /\ anomalies' = [m \in Metrics |-> <<>>] /\ poisoned' = {}
    /\ filter' = [m \in Metrics |-> NoNoise]
    /\ correlation' = [p \in Pairs |-> "none"] /\ unassessed' = FALSE

ModelInit ==
    /\ tracked \in Tracked /\ phase = "up" /\ noise = NoNoise /\ assessor = "asleep"
    /\ history = [m \in Metrics |-> <<>>] /\ stamp = [m \in Metrics |-> "aware"]
    /\ anomalies = [m \in Metrics |-> <<>>] /\ poisoned = {}
    /\ filter = [m \in Metrics |-> NoNoise]
    /\ correlation = [p \in Pairs |-> "none"] /\ unassessed = FALSE

AppendKept(s, x, n) == Recent(Append(s, x), n)

-----------------------------------------------------------------------------
(* Learning                                                                *)

(* _detect_anomalies: the mean of equal values is that value, and no       *)
(* distance from a mean that is NaN exceeds anything.                      *)
MayBeAnomaly(m, h, sick) ==
    Len(h) >= Enough /\ ~sick /\ \E i \in DOMAIN h : h[i] # Last(h)

(* update_state with a telemetry event: a value that float() accepts, NaN  *)
(* among them. Values from a monitor are stamped with a time zone; an      *)
(* update message of another source may come without one.                  *)
UpdateState(m, v) ==
    LET h == AppendKept(history[m], v, Kept)
        sick == m \in poisoned \/ v = NaN
    IN  /\ v \in tracked.values[m]
        /\ history' = [history EXCEPT ![m] = h]
        /\ poisoned' = IF sick THEN poisoned \cup {m} ELSE poisoned
        /\ filter' = IF m \in Known THEN filter ELSE [filter EXCEPT ![m] = noise]
        /\ \E s \in IF m \in tracked.outside THEN {"aware", "naive"} ELSE {"aware"} :
             /\ stamp' = [stamp EXCEPT ![m] = s]
             /\ \/ UNCHANGED anomalies
                \/ /\ MayBeAnomaly(m, h, sick)
                   /\ anomalies' = [anomalies EXCEPT ![m] = AppendKept(@, s, AnomaliesKept)]
        /\ unassessed' = TRUE
        /\ UNCHANGED <<tracked, phase, noise, correlation, assessor>>

(* _adjust_model_parameters: the filters of all metrics get the new noise  *)
BugRetuned(new, scored) == [m \in Metrics |-> IF m \in scored THEN new ELSE filter[m]]
Retuned(new, scored) == [m \in Metrics |-> IF m \in Known THEN new ELSE filter[m]]

(* calibrate, with a score below 0.7, above 0.9 or between, that comes     *)
(* from the accuracy of the metrics scored                                 *)
Calibrate(grade, scored) ==
    LET new == CASE grade = "poor" -> [noise EXCEPT !.raised = @ + 1]
                 [] grade = "good" -> [noise EXCEPT !.lowered = @ + 1]
    IN  /\ tracked.calibrated
        /\ new.raised <= MaxCalibrations /\ new.lowered <= MaxCalibrations
        /\ noise' = new
        /\ filter' = Retuned(new, scored)
        /\ UNCHANGED <<tracked, phase, history, stamp, anomalies, poisoned, correlation, assessor,
                       unassessed>>

(* _calculate_correlation stores what is significant and removes nothing   *)
Correlates(p) == \A m \in p : Len(history[m]) >= Window /\ Numbers(history[m]) /\ Spread(history[m]) > 0

(* _periodic_correlation_analysis                                          *)
AnalyseCorrelation ==
    /\ phase = "up" /\ Cardinality(Known) >= 2
    /\ \E new \in [{p \in Pairs : Correlates(p)} -> {"insignificant", "weak", "strong"}] :
         correlation' = [p \in Pairs |->
             IF Correlates(p) /\ new[p] # "insignificant" THEN new[p] ELSE correlation[p]]
    /\ UNCHANGED <<tracked, phase, history, stamp, anomalies, poisoned, filter, noise, assessor,
                   unassessed>>

(* _periodic_health_assessment. The age of a value stamped without a time  *)
(* zone cannot be computed: the assessment fails, for all metrics, and is  *)
(* tried again later.                                                      *)
Assessable == \A m \in Known : stamp[m] = "aware"
AssessHealth ==
    /\ phase = "up" /\ assessor = "asleep" /\ Known # {}
    /\ IF Assessable THEN unassessed' = FALSE /\ UNCHANGED assessor
       ELSE assessor' = "retrying" /\ UNCHANGED unassessed
    /\ UNCHANGED <<tracked, phase, history, stamp, anomalies, poisoned, filter, noise, correlation>>
RetryAssessment ==
    /\ phase = "up" /\ assessor = "retrying"
    /\ assessor' = "asleep"
    /\ UNCHANGED <<tracked, phase, history, stamp, anomalies, poisoned, filter, noise, correlation,
                   unassessed>>

(* reload_model: shutdown cancels the tasks and waits for them; what was   *)
(* learned is dropped, the noise is not, and the tasks start again.        *)
BeginReload ==
    /\ phase = "up"
    /\ phase' = "down" /\ assessor' = "asleep"
    /\ UNCHANGED <<tracked, history, stamp, anomalies, poisoned, filter, noise, correlation, unassessed>>
FinishReload ==
    /\ phase = "down"
    /\ phase' = "up" /\ Empty
    /\ UNCHANGED <<tracked, noise, assessor>>

ModelNext ==
    \/ \E m \in Metrics : \E v \in tracked.values[m] : UpdateState(m, v)
    \/ \E grade \in {"poor", "good"} : \E scored \in SUBSET Metrics : Calibrate(grade, scored)
    \/ AnalyseCorrelation \/ AssessHealth \/ RetryAssessment \/ BeginReload \/ FinishReload

(* The tasks of the model are woken by the event loop, and a reload goes   *)
(* on when the cancelled tasks have ended.                                 *)
ModelFairness ==
    /\ WF_modelVars(AssessHealth) /\ WF_modelVars(RetryAssessment)
    /\ WF_modelVars(FinishReload) /\ WF_modelVars(AnalyseCorrelation)

-----------------------------------------------------------------------------
(* Answers: whether a query succeeds, the confidence it states, and the    *)
(* metrics it rests on                                                     *)

Answered(confidence, over) == [ok |-> TRUE, confidence |-> confidence, over |-> over]
Failed == [ok |-> FALSE, confidence |-> 0, over |-> {}]

Long(n) == {m \in Metrics : Len(history[m]) >= n}
NaiveAnomaly(m) == "naive" \in ToSet(anomalies[m])

(* _query_current_state: each metric has a confidence of at least 10       *)
CurrentState == Answered(IF Known = {} THEN 0 ELSE 10, Known)

(* _query_utility_optimization needs profiles to choose among              *)
UtilityOptimization ==
    IF tracked.profiles = <<>> THEN Failed
    ELSE Answered(IF Cardinality(DOMAIN tracked.profiles) >= Three THEN 85 ELSE 70, Known)

(* _query_model_performance, which also counts the recent anomalies of the *)
(* metrics and cannot when one of them is stamped without a time zone      *)
ModelPerformance ==
    IF \E m \in Long(Enough) : NaiveAnomaly(m) THEN Failed
    ELSE Answered(IF Cardinality(Long(Enough)) >= Three THEN 80 ELSE 60, Long(Enough))

(* _query_temporal_patterns of one metric                                  *)
TemporalPatterns(m) ==
    IF m \notin Long(Pattern) THEN Answered(0, {})
    ELSE IF NaiveAnomaly(m) THEN Failed
    ELSE Answered(Min({90, 50 + Len(history[m])}), {m})

(* _query_system_health                                                    *)
SystemHealth == Answered(IF Cardinality(Long(Enough)) >= Three THEN 85 ELSE 70, Long(Enough))

(* _query_performance_forecast: with another model to switch to, the       *)
(* forecast of the metric "confidence" is taken for a confidence, and the  *)
(* smallest of a number and a dictionary cannot be found.                  *)
PerformanceForecast ==
    LET forecast == Long(Window) \cap {"image_processing_time", "confidence", "utility", "cpu_usage"}
        others == DOMAIN tracked.profiles \ {"yolov5s"}
    IN  IF "confidence" \in forecast /\ others # {} THEN Failed
        ELSE Answered(IF Cardinality(forecast) >= Three THEN 75 ELSE 60, forecast)

(* _query_correlations: as confident when there is none                    *)
Correlations == Answered(90, UNION {p \in Pairs : correlation[p] # "none"})

(* query_state: the analysis of anomalies calls functions that do not      *)
(* exist and always fails, two kinds are not implemented, and an unknown   *)
(* kind is an answer with no confidence.                                   *)
Answer(type, m) ==
    CASE type = "current_state" -> CurrentState
      [] type = "utility_optimization" -> UtilityOptimization
      [] type = "model_performance" -> ModelPerformance
      [] type = "temporal_patterns" -> TemporalPatterns(m)
      [] type = "anomaly_analysis" -> Failed
      [] type = "system_health" -> SystemHealth
      [] type = "performance_forecast" -> PerformanceForecast
      [] type = "correlation" -> Correlations
      [] type \in {"historical", "prediction"} -> Answered(50, {})
      [] OTHER -> Answered(0, {})
QueryTypes == {"current_state", "utility_optimization", "model_performance", "temporal_patterns",
               "anomaly_analysis", "system_health", "performance_forecast", "correlation",
               "historical", "prediction", "natural_language"}

-----------------------------------------------------------------------------
(* diagnose                                                                *)

(* _perform_anomaly_diagnosis: one hypothesis, about the metric furthest   *)
(* off; which that is, is left open                                        *)
Anomalous == {m \in Metrics : anomalies[m] # <<>>}
AnomalyHypotheses == {Hypothesis("anomaly", m, 90, 1, "anomaly") : m \in Anomalous}

(* _perform_causal_diagnosis                                               *)
Causes == ("cpu_usage" :> {"image_processing_time"}) @@ ("image_processing_time" :> {"utility"})
            @@ ("confidence" :> {"utility"})
CausalHypotheses ==
    {Hypothesis("causal degradation", m, 70, 1, "causal") :
        m \in {k \in Metrics \cap DOMAIN Causes :
                 /\ anomalies[k] # <<>> \/ Len(history[k]) > Enough
                 /\ Trending(history[k]) /\ Causes[k] \cap Known # {}}}

HistoryOf(name) == IF name \in Metrics THEN history[name] ELSE <<>>

(* _perform_switch_specific_diagnosis                                      *)
SwitchHypotheses ==
    LET profiles == tracked.profiles
        Found(name, there, h) == IF there THEN {h} ELSE {}
    IN  Found("t", Thrashing(HistoryOf("utility")), Hypothesis("thrashing", "utility", 85, 2, "switch"))
        \cup Found("s", Spiralling(HistoryOf("utility")), Hypothesis("spiral", "utility", 80, 2, "switch"))
        \cup Found("e", Exhausted(HistoryOf("cpu_usage")), Hypothesis("exhaustion", "cpu_usage", 90, 2, "switch"))
        \cup Found("d", /\ "yolov5s" \in DOMAIN profiles
                        /\ Degraded(profiles["yolov5s"], HistoryOf("image_processing_time"),
                                    HistoryOf("confidence")),
                   Hypothesis("model degradation", "confidence", 75, 2, "switch"))

(* _perform_temporal_diagnosis                                             *)
TemporalHypotheses ==
    LET looked == {m \in Metrics \cap {"utility", "image_processing_time", "confidence"} :
                     Len(history[m]) >= Window}
    IN  {Hypothesis(IF Improved(history[m]) THEN "improvement" ELSE "degradation", m, 70, 1, "temporal") :
            m \in {k \in looked : Shifted(history[k])}}
        \cup {Hypothesis("cycle", m, 60, 1, "temporal") :
            m \in {k \in looked : Cyclic(Recent(history[k], Pattern))}}

(* _perform_correlation_diagnosis                                          *)
CorrelationHypotheses ==
    {Hypothesis("correlated failure", p, 90, 1, "correlation") :
        p \in {q \in Pairs : correlation[q] = "strong" /\ q \cap Anomalous # {}}}

Hypotheses ==
    AnomalyHypotheses \cup CausalHypotheses \cup SwitchHypotheses \cup TemporalHypotheses
        \cup CorrelationHypotheses

(* What the analyses add to the evidence of the whole: of a degraded model *)
(* one piece, though its hypothesis names two.                             *)
EvidenceCount ==
    MapThenSumSet(LAMBDA h : IF h.what = "model degradation" THEN 1 ELSE h.evidence, Hypotheses)
Diagnosed == DiagnosticConfidence({h.analysis : h \in Hypotheses}, EvidenceCount)

-----------------------------------------------------------------------------
(* Properties                                                              *)

(* All filters work with the noise the calibrations have led to: those of  *)
(* metrics first seen after a calibration, and those of metrics that were  *)
(* not scored in it.                                                       *)
FiltersAgree == \A m \in Known : filter[m] = noise

(* What is stored about a metric rests on as many values as it needs, and  *)
(* a reload leaves nothing of it behind.                                   *)
LearnedFromValues ==
    /\ \A m \in Anomalous : Len(history[m]) >= Enough
    /\ \A p \in Pairs : correlation[p] # "none" => \A m \in p : Len(history[m]) >= Window

(* A failed answer claims nothing, no answer rests on an unknown metric,   *)
(* and one of more than 70 percent rests on three metrics, on a long       *)
(* pattern, on the profiles alone, or on correlations of metrics that have *)
(* filled a window (of none, when none was found).                         *)
ConfidenceIsFounded ==
    \A type \in QueryTypes, m \in Metrics :
        LET a == Answer(type, m)
        IN  /\ ~a.ok => a.confidence = 0 /\ a.over = {}
            /\ a.over \subseteq Known
            /\ a.confidence > 70 => \/ Cardinality(a.over) >= Three
                                    \/ a.over \cap Long(Pattern) # {}
                                    \/ type = "utility_optimization"
                                    \/ type = "correlation" /\ a.over \subseteq Long(Window)

(* Whatever else the five analyses find, exhaustion and thrashing stand    *)
(* first and make the diagnosis urgent; and a diagnosis that names an      *)
(* issue is more confident than one that names none.                       *)
UrgentFirst ==
    /\ (Exhausted(HistoryOf("cpu_usage")) \/ Thrashing(HistoryOf("utility"))) =>
         \A h \in Foremost(Hypotheses) : Urgency(h) = "high"
    /\ Hypotheses # {} => Diagnosed > DiagnosticConfidence({}, 0)

(* The clusters the loop builds are the uninterrupted runs of anomalies.   *)
ClustersAreRuns(minutes, n) ==
    \A times \in BoundedSeq(minutes, n) :
        IsSorted(times, <=) => ToSet(Clusters(times)) = ClusterRuns(times)

(* A plan with one switch switches once in a simulation, however long, and *)
(* the steps after it are predicted with less confidence until it has      *)
(* settled; less content is neither predicted nor promised to be slower;   *)
(* and what a plan promises does not depend on the order of its actions.   *)
PlansSettle(horizon) ==
    LET state == [m \in {k \in Known : Numbers(history[k])} |-> Last(history[m])]
        Switch(to) == <<[type |-> "SWITCH_MODEL", model |-> to]>>
        Dim(d) == <<[type |-> "SET_DIMMER", value |-> d]>>
        Run(plan, v) == Simulated(plan, tracked.profiles, state, TimeSteps(horizon, v) - 1)
        First(plan, m) == Run(plan, "low")[1].metrics[m]
        Promised(plan) == <<Impacts(plan, tracked.profiles), PlanPenalty(plan)>>
        contents == {0, 50, 100}
    IN  /\ \A to \in {"yolov5n", "yolov5s"}, v \in {"high", "medium", "low"} :
             LET steps == Run(Switch(to), v)
                 settling == {i \in DOMAIN steps : steps[i].settling}
             IN  /\ {i \in DOMAIN steps : steps[i].switched} = IF to = "yolov5s" THEN {} ELSE {1}
                 /\ settling = IF to = "yolov5s" THEN {} ELSE 2..Min({Len(steps), Stabilization})
        /\ \A d, e \in contents : d <= e =>
             /\ Impacts(Dim(d), tracked.profiles).performance >= Impacts(Dim(e), tracked.profiles).performance
             /\ "image_processing_time" \in DOMAIN state =>
                  First(Dim(d), "image_processing_time") <= First(Dim(e), "image_processing_time")
        /\ \A d \in contents : Promised(Switch("yolov5n") \o Dim(d)) = Promised(Dim(d) \o Switch("yolov5n"))

(* What is recommended fits what was found. An urgent diagnosis comes with  *)
(* advice of its own, unless it is a correlated failure, for which there is *)
(* none; exhausted resources are named as affected. A switch that is        *)
(* recommended is not followed by another recommendation once it is made,  *)
(* for models that are no heavier than the current one. A Monte Carlo       *)
(* simulation predicts what a single one does.                             *)
AdviceFits ==
    LET LastOf(m, default) == IF HistoryOf(m) = <<>> THEN default ELSE Last(HistoryOf(m))
        times == HistoryOf("image_processing_time")
        confidences == HistoryOf("confidence")
        utility == IF times = <<>> \/ confidences = <<>> THEN 50
                   ELSE UtilityScore(Last(times), Last(confidences))
        cpu == LastOf("cpu_usage", 50)
        profiles == tracked.profiles
        state == [m \in {k \in Known : Numbers(history[k])} |-> Last(history[m])]
        plan == <<[type |-> "SWITCH_MODEL", model |-> "yolov5n"], [type |-> "SET_DIMMER", value |-> 50]>>
        run == Simulated(plan, profiles, state, 2)
    IN  /\ \A h \in Foremost(Hypotheses) :
             Urgency(h) = "high" /\ h.what # "correlated failure" => DiagnosticAdvice(h)[1] # "generic"
        /\ Exhausted(HistoryOf("cpu_usage")) =>
             \A top \in ForemostThree(Hypotheses) : "resource_management" \in AffectedSystems(top)
        /\ Numbers(<<utility, cpu>>) =>
             \A m \in Optimal(profiles) :
                 /\ <<"switch", m>> \in OptimizationAdvice(profiles, m, utility, cpu)
                 /\ profiles[m].cpu <= 100
                 => OptimizationAdvice(profiles, m, ExpectedUtility(profiles[m]), (cpu * profiles[m].cpu) \div 100)
                      = {<<"current model is optimal", "all">>}
        /\ MonteCarlo(plan, profiles, state, 2, 3) = [i \in 1..2 |-> run[i].metrics]

(* Health is assessed again after every value, once all values bear a time *)
(* zone: an assessment that could not be made does not end the task.       *)
HealthFollows ==
    (unassessed /\ phase = "up" /\ Assessable) ~> ~(unassessed /\ phase = "up" /\ Assessable)
=============================================================================
