----------------------------- MODULE TwinMessages -----------------------------
(***************************************************************************)
(* What a world model's answer becomes on its way to the client: through   *)
(* DigitalTwinService, which the twin serves, or the conversions of        *)
(* proto/wrappers.py, over Protocol Buffers, whose fields take one type.   *)
(*                                                                         *)
(* Of a value only its kind is kept: "zero" is the number 0, "number" any  *)
(* other, and "numeral" a text that reads as another. What raises has no   *)
(* result: a conversion returns the set of its results.                    *)
(***************************************************************************)
EXTENDS Integers, Sequences, FiniteSets

LOCAL INSTANCE SequencesExt

Numbers == {"number", "zero"}
Kinds == Numbers \cup {"numeral", "text", "list", "mapping", "none"}

(* str, float and isinstance(value, str)                                   *)
Str(v) ==
    CASE v \in {"number", "numeral"} -> "numeral"
      [] v \in {"zero", "zero numeral"} -> "zero numeral"
      [] OTHER -> "text"
Float(v) ==
    CASE v \in {"number", "numeral"} -> {"number"}
      [] v \in {"zero", "zero numeral"} -> {"zero"}
      [] OTHER -> {}
IsText(v) == v \in {"numeral", "zero numeral", "text"}

Of(f, key, default) == IF key \in DOMAIN f THEN f[key] ELSE default
Strs(f) == [k \in DOMAIN f |-> Str(f[k])]
When(condition, result) == IF condition THEN {result} ELSE {}
Some(results, otherwise) == IF results = {} THEN otherwise ELSE CHOOSE x \in results : TRUE

(* float, or 0.0                                                           *)
BugSafeFloat(v) == Some(Float(v), "number")
SafeFloat(v) == Some(Float(v), "zero")

(* The identifier of a request, or a new one.                              *)
Identifier(id) == IF id = "" THEN "new" ELSE id

(* What a field of a message takes; None leaves it at its default.         *)
TextField(v) == IsText(v) \/ v = "none"
DoubleField(v) == v \in Numbers \cup {"none"}

(* A response that tells of a failure.                                     *)
Failure(id) == [id |-> id, success |-> FALSE, content |-> <<>>]
Success(a, content) == [id |-> a.id, success |-> a.success, content |-> content]

-----------------------------------------------------------------------------
(* Answers. A world model answers or raises: `answers' is a set of at most *)
(* one [id, success, content].                                             *)

(* query_state: content is the result and the metadata.                    *)
Query(a) ==
    When(TextField(a.content.result),
         Success(a, [result |-> IF a.content.result = "none" THEN "text" ELSE a.content.result,
                     metadata |-> Strs(a.content.metadata)]))

ServeQuery(id, answers) == Some(UNION {Query(a) : a \in answers}, Failure(Identifier(id)))

(* simulate: content has the future states, each a mapping or not, with    *)
(* its entries and those under "metrics", and the estimates of impact.     *)
Predicted(s) ==
    [timestamp |-> Str(Of(s.entries, "timestamp", "text")),
     metrics |-> [k \in DOMAIN s.metrics |-> SafeFloat(s.metrics[k])],
     confidence |-> SafeFloat(Of(s.entries, "confidence", "zero"))]

Simulation(a) ==
    LET mappings == SelectSeq(a.content.states, LAMBDA s : s.kind = "mapping") IN
    When(DoubleField(a.content.impact),
         Success(a, [states |-> [i \in DOMAIN mappings |-> Predicted(mappings[i])],
                     impact |-> a.content.impact]))

ServeSimulation(id, answers) ==
    Some(UNION {Simulation(a) : a \in answers}, Failure(Identifier(id)))

(* diagnose: a hypothesis is a mapping with fields, a text, or something   *)
(* that is left out. A text is given its place as its rank; 0 stands for a *)
(* rank of the model's own.                                                *)
Hypothesis(h, i) ==
    CASE h.kind = "mapping" ->
            When(/\ TextField(Of(h.entries, "hypothesis", "text"))
                 /\ DoubleField(Of(h.entries, "probability", "number"))
                 /\ DoubleField(Of(h.entries, "rank", "number")),
                 [rank |-> IF "rank" \in DOMAIN h.entries THEN 0 ELSE i])
      [] IsText(h.kind) -> {[rank |-> i]}
      [] OTHER -> {}

Diagnosis(a) ==
    LET hypotheses == a.content.hypotheses
        Fits(i) == hypotheses[i].kind = "mapping" => Hypothesis(hypotheses[i], i) # {}
        kept == SelectSeq([i \in DOMAIN hypotheses |-> i],
                          LAMBDA i : Hypothesis(hypotheses[i], i) # {})
    IN  When(\A i \in DOMAIN hypotheses : Fits(i),
             Success(a, [hypotheses |-> [k \in DOMAIN kept |->
                            CHOOSE h \in Hypothesis(hypotheses[kept[k]], kept[k]) : TRUE]]))

ServeDiagnosis(id, answers) ==
    Some(UNION {Diagnosis(a) : a \in answers}, Failure(Identifier(id)))

(* Manage: the metrics of a health status are doubles, and reset_state is  *)
(* not implemented.                                                        *)
Manage(id, operation, health, reloaded) ==
    LET Done(success) == [id |-> Identifier(id), success |-> success, content |-> <<>>] IN
    CASE operation = "health_check" -> Done(\A k \in DOMAIN health : health[k] \in Numbers)
      [] operation = "reload_model" -> Done(reloaded)
      [] operation = "get_metrics" -> Done(TRUE)
      [] OTHER -> Done(FALSE)

-----------------------------------------------------------------------------
(* ProtobufConverter: a state's metrics are its own entries that are       *)
(* numbers, and its time is under another name.                            *)

Named == {"time", "description", "confidence"}

StateToPb(s) ==
    IF /\ s.kind = "mapping"
       /\ IsText(Of(s.entries, "time", "text"))
       /\ Float(Of(s.entries, "confidence", "number")) # {}
    THEN LET numbers == {k \in DOMAIN s.entries \ Named : s.entries[k] \in Numbers} IN
         {[timestamp |-> Of(s.entries, "time", "text"),
           confidence |-> Some(Float(Of(s.entries, "confidence", "number")), "zero"),
           metrics |-> [k \in numbers |-> s.entries[k]]]}
    ELSE {}

StateFromPb(p) ==
    [kind |-> "mapping", metrics |-> [k \in {} |-> ""],
     entries |-> [k \in {"time", "confidence"} \cup DOMAIN p.metrics |->
                    CASE k = "time" -> p.timestamp
                      [] k = "confidence" -> p.confidence
                      [] OTHER -> p.metrics[k]]]

SimulationToPb(a) ==
    LET states == a.content.states IN
    When(/\ \A i \in DOMAIN states : StateToPb(states[i]) # {}
         /\ a.content.impact = "none" \/ Float(a.content.impact) # {},
         Success(a, [states |-> [i \in DOMAIN states |-> CHOOSE p \in StateToPb(states[i]) : TRUE],
                     impact |-> Some(Float(a.content.impact), "zero")]))

SimulationFromPb(p) ==
    Success(p, [states |-> [i \in DOMAIN p.content.states |-> StateFromPb(p.content.states[i])],
                impact |-> p.content.impact])

(* Every hypothesis becomes its text, whatever it was.                     *)
DiagnosisToPb(a) ==
    Success(a, [hypotheses |-> [i \in DOMAIN a.content.hypotheses |-> [rank |-> i]]])
DiagnosisFromPb(p) ==
    Success(p, [hypotheses |-> [i \in DOMAIN p.content.hypotheses |->
                                  [kind |-> "text", entries |-> [k \in {} |-> ""]]]])

(* The result of a query must be a text here.                              *)
QueryToPb(a) ==
    When(IsText(a.content.result),
         Success(a, [result |-> a.content.result, metadata |-> Strs(a.content.metadata)]))

(* GrpcServiceWrapper. A health status is read under another name than the *)
(* models give it, performance_metrics, and numerals pass; and the request *)
(* keeps an empty identifier.                                              *)
Wrapped(id, responses) == Some(responses, Failure(id))
WrappedManage(id, operation, performance, reloaded) ==
    [id |-> id, content |-> <<>>,
     success |-> CASE operation = "health_check" -> \A k \in DOMAIN performance : Float(performance[k]) # {}
                   [] operation = "reload_model" -> reloaded
                   [] OTHER -> operation = "get_metrics"]

(* Requests: the parameters of an action go out as texts; the clients send *)
(* no timeout, which leaves 0.0, the wrappers one that has to be a number. *)
ClientAction(a) ==
    When(TextField(Of(a.entries, "action_type", "text")), [params |-> Strs(a.params), timeout |-> "zero"])
WrapperAction(a) ==
    When(/\ IsText(Of(a.entries, "action_type", "text"))
         /\ Float(Of(a.entries, "timeout", "number")) # {},
         [params |-> Strs(a.params), timeout |-> "number"])

-----------------------------------------------------------------------------
(* ImprovedGRPCDigitalTwinClient and GRPCDigitalTwinClient: the states come *)
(* back as they are.                                                       *)
ClientStates(response) ==
    [i \in DOMAIN response.content.states |->
        [kind |-> "mapping", metrics |-> response.content.states[i].metrics,
         entries |-> [k \in {"timestamp", "confidence"} |->
                        IF k = "timestamp" THEN "text" ELSE response.content.states[i].confidence]]]

-----------------------------------------------------------------------------
(* calculate_accuracy_score, in hundredths: the mean of the metrics that   *)
(* look normalized.                                                        *)
AccuracyScore(metrics) ==
    LET scores == SelectSeq(metrics, LAMBDA m : m \in 0..100)
        sum[i \in 0..Len(scores)] == IF i = 0 THEN 0 ELSE sum[i - 1] + scores[i]
    IN  IF scores = <<>> THEN 0 ELSE sum[Len(scores)] \div Len(scores)

-----------------------------------------------------------------------------
(* Properties, over every shape of answer.                                 *)
LOCAL Functions(keys, values) == UNION {[some -> values] : some \in SUBSET keys}
LOCAL Answers(contents) == [id : {"q"}, success : BOOLEAN, content : contents]
LOCAL Empty == [k \in {} |-> ""]
LOCAL UpToTwo(S) == {<<>>} \cup {<<x>> : x \in S} \cup {<<x, y>> : x \in S, y \in S}

States == [kind : {"mapping"}, entries : Functions({"time", "cpu", "confidence"}, {"number", "numeral", "text"}),
           metrics : Functions({"cpu"}, Kinds)]
            \cup [kind : {"text"}, entries : {Empty}, metrics : {Empty}]
Simulations ==
    Answers([states : {<<>>} \cup {<<s>> : s \in States}, impact : Kinds])
      \cup Answers([states : UpToTwo({s \in States : DOMAIN s.entries = {}}), impact : {"number"}])
QueryAnswers == Answers([result : Kinds, metadata : Functions({"model", "warnings"}, Kinds)])
Hypotheses == [kind : Kinds, entries : Functions({"probability", "rank"}, {"number", "text"})]
Actions == [entries : Functions({"action_type", "timeout"}, Kinds), params : Functions({"count"}, Kinds)]
Diagnoses == Answers([hypotheses : UpToTwo(Hypotheses)])

(* What the mock and the Bayesian model answer: a state has its entries    *)
(* beside the time or its numbers under "metrics".                         *)
MockAnswer ==
    [id |-> "q", success |-> TRUE,
     content |-> [impact |-> "none",
                  states |-> <<[kind |-> "mapping", metrics |-> Empty,
                                entries |-> [time |-> "text", cpu |-> "number"]]>>]]
BayesianAnswer ==
    [id |-> "q", success |-> TRUE,
     content |-> [impact |-> "number",
                  states |-> <<[kind |-> "mapping", metrics |-> [cpu |-> "number"],
                                entries |-> [timestamp |-> "text", confidence |-> "number"]]>>]]

Served(a) == ClientStates(ServeSimulation(a.id, {a}))[1].metrics
Wired(a) == (CHOOSE p \in SimulationToPb(a) : TRUE).content.states[1].metrics

(* Each metric a model predicts under "metrics" arrives under its name,    *)
(* and no other: as the number it is or reads as, or as 0.0 when it reads  *)
(* as none, so that a zero that arrives is not always one that the model   *)
(* predicted, but any other number is. Predictions beside the time, as all *)
(* of the mock's are, do not arrive (digital_twin_service.py:287); the     *)
(* wrappers would carry those, and drop the others.                        *)
PredictionsArrive ==
    /\ Served(BayesianAnswer) = [cpu |-> "number"] /\ Wired(BayesianAnswer) = Empty
    /\ Served(MockAnswer) = Empty /\ Wired(MockAnswer) = [cpu |-> "number"]
    /\ \A a \in Simulations :
          LET response == ServeSimulation(a.id, {a})
              given == SelectSeq(a.content.states, LAMBDA s : s.kind = "mapping")
          IN  /\ response.id = a.id
              /\ response.success => a.success
              /\ response.content # <<>> =>
                    LET arrived == ClientStates(response) IN
                    /\ DOMAIN arrived = DOMAIN given
                    /\ \A i \in DOMAIN given :
                          /\ DOMAIN arrived[i].metrics = DOMAIN given[i].metrics
                          /\ \A k \in DOMAIN given[i].metrics :
                                arrived[i].metrics[k] \in
                                   Float(given[i].metrics[k])
                                     \cup When(Float(given[i].metrics[k]) = {}, "zero")

(* What has gone through the wrappers once goes through them again         *)
(* unchanged.                                                              *)
WireIsStable ==
    /\ \A a \in Simulations : \A p \in SimulationToPb(a) :
          SimulationToPb(SimulationFromPb(p)) = {p}
    /\ \A a \in Diagnoses : DiagnosisToPb(DiagnosisFromPb(DiagnosisToPb(a))) = DiagnosisToPb(a)

(* A parameter reads as a number at the twin if it was one at the reasoner *)
(* or read as one, whichever way it goes; what the wrappers send the       *)
(* clients send too.                                                       *)
RequestsArrive ==
    \A a \in Actions :
       /\ \A sent \in ClientAction(a) \cup WrapperAction(a) :
             \A k \in DOMAIN a.params : Float(sent.params[k]) = Float(a.params[k])
       /\ WrapperAction(a) # {} => ClientAction(a) # {}

(* The twin's own service and the wrappers agree on what both understand:  *)
(* results in text, and hypotheses in text in their order.                 *)
BothWaysAgree ==
    /\ \A a \in QueryAnswers :
          ServeQuery(a.id, {a}) = Wrapped(a.id, QueryToPb(a)) <=> a.content.result # "none"
    /\ \A a \in Diagnoses :
          (\A i \in DOMAIN a.content.hypotheses : IsText(a.content.hypotheses[i].kind)) =>
             ServeDiagnosis(a.id, {a}) = Wrapped(a.id, {DiagnosisToPb(a)})

(* An operator is never told of a success the model did not have, and is   *)
(* told of the health of a model whose metrics are numbers.                *)
ManagementIsHonest ==
    \A health \in Functions({"accuracy", "components"}, Kinds), reloaded \in BOOLEAN :
       /\ Manage("", "reload_model", health, reloaded).success => reloaded
       /\ ~Manage("", "reset_state", health, reloaded).success
       /\ Manage("", "health_check", health, reloaded).success
             <=> \A k \in DOMAIN health : health[k] \in Numbers
       /\ \A operation \in {"health_check", "reload_model", "get_metrics", "reset_state"} :
             Manage("q", operation, health, reloaded).success
                => WrappedManage("q", operation, health, reloaded).success

(* A calibration that is accepted says how accurate a prediction was,      *)
(* between not at all and fully, whatever else its metrics measure.        *)
ScoresAreBounded ==
    \A m \in UpToTwo({-5, 0, 40, 100, 250}) :
       /\ AccuracyScore(m) \in 0..100
       /\ AccuracyScore(m) > 0 => \E i \in DOMAIN m : m[i] \in AccuracyScore(m)..100

MessagesHold ==
    PredictionsArrive /\ RequestsArrive /\ WireIsStable /\ BothWaysAgree /\ ManagementIsHonest /\ ScoresAreBounded
=============================================================================
