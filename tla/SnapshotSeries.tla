---------------------------- MODULE SnapshotSeries ----------------------------
(***************************************************************************)
(* ContextBuilder: what the language model of the LLM reasoner is told of  *)
(* the snapshots the knowledge base returned, each metric's average and    *)
(* rate of change, and of the last actions and how they were judged.       *)
(*                                                                         *)
(* A snapshot is its timestamp, in half seconds, and a function from the   *)
(* metrics it carries to their values.  An average is kept as a numerator  *)
(* over a power of two, a rate as a rise and the time it took.             *)
(***************************************************************************)
EXTENDS Integers, Sequences, FiniteSets

LOCAL INSTANCE SequencesExt

Second == 2
Window == 4          \* bound: stands for time_window_seconds, 300
NoValue == "None"

(* sorted by timestamp, and the readings of a metric in that order.        *)
Sorted(ss) == SortSeq(ss, LAMBDA a, b : a.timestamp < b.timestamp)
Series(ss, metric) ==
    LET carrying == SelectSeq(Sorted(ss), LAMBDA s : metric \in DOMAIN s.current_state)
    IN  [i \in DOMAIN carrying |-> [timestamp |-> carrying[i].timestamp,
                                    value |-> carrying[i].current_state[metric]]]

(* calculate_ewma, for the alpha of 0.5 it is called with.                 *)
Ewma(points) ==
    LET upTo[i \in 1..Len(points)] ==
            IF i = 1 THEN points[1].value ELSE points[i].value * 2^(i - 2) + upTo[i - 1]
    IN  [over |-> 2^(Len(points) - 1), sum |-> upTo[Len(points)]]

(* calculate_rate_of_change: since the first reading in the window that    *)
(* the latest one ends.                                                    *)
ReferencePoint(points) ==
    CHOOSE p \in DOMAIN points :
        /\ points[p].timestamp >= points[Len(points)].timestamp - Window * Second
        /\ \A q \in 1..(p - 1) : points[q].timestamp < points[Len(points)].timestamp - Window * Second

Steady == [rise |-> 0, time |-> Second]
BugRateOfChange(points) ==
    [rise |-> points[Len(points)].value - points[1].value,
     time |-> points[Len(points)].timestamp - points[1].timestamp]
RateOfChange(points) ==
    LET latest == points[Len(points)]
        reference == points[ReferencePoint(points)]
    IN  IF latest.timestamp - reference.timestamp < Second THEN Steady
        ELSE [rise |-> latest.value - reference.value, time |-> latest.timestamp - reference.timestamp]

(* build_context_from_kb_results                                           *)
Metrics(ss) == UNION {DOMAIN ss[i].current_state : i \in DOMAIN ss}
BuildContext(ss) ==
    [current_state |-> Last(Sorted(ss)).current_state,
     trends |-> [m \in Metrics(ss) |->
                    [ewma |-> Ewma(Series(ss, m)),
                     rate |-> IF Len(Series(ss, m)) < 2 THEN NoValue ELSE RateOfChange(Series(ss, m))]]]

(* build_historical_actions_context: of the last ten actions those that    *)
(* SWIM knows are counted, the last three are told with their feedback.    *)
Summarised == 10
Recent == 3
LastOf(h, n) == SubSeq(h, IF Len(h) > n THEN Len(h) - n + 1 ELSE 1, Len(h))
Summary(h) ==
    [t \in {"ADD_SERVER", "REMOVE_SERVER", "SET_DIMMER"} |->
        Cardinality({i \in DOMAIN LastOf(h, Summarised) : LastOf(h, Summarised)[i].type = t})]
RecentActionsWithFeedback(h) ==
    LET recent == LastOf(h, Recent)
    IN  [i \in DOMAIN recent |-> IF recent[i].feedback = NoValue
                                 THEN [action_taken |-> recent[i].type, evaluation |-> "UNKNOWN"]
                                 ELSE [action_taken |-> recent[i].type, evaluation |-> recent[i].feedback]]

-----------------------------------------------------------------------------
Readings == {[m \in {} |-> 0]} \cup [{"metric"} -> {-1, 0, 2}]
Points == [timestamp : {0, 1, 2, 5, 12}, current_state : Readings]
SomeSnapshots ==
    {ss \in UNION {[1..n -> Points] : n \in 1..3} :
        \A i, j \in DOMAIN ss : i # j => ss[i].timestamp # ss[j].timestamp}
Carrying == {ss \in SomeSnapshots : Series(ss, "metric") # <<>>}
Values(ss) == {p.value : p \in {Series(ss, "metric")[i] : i \in DOMAIN Series(ss, "metric")}}
Entries == [type : {"ADD_SERVER", "NO_OP"}, feedback : {NoValue, "FAILED"}]
Histories == UNION {[1..n -> Entries] : n \in 0..4}
             \cup {[i \in 1..11 |-> IF i \in s THEN [type |-> "ADD_SERVER", feedback |-> NoValue]
                                    ELSE [type |-> "NO_OP", feedback |-> "FAILED"]] : s \in SUBSET (1..11)}

(* calculate_ewma: an average lies among the readings it is taken over.    *)
AverageAmongReadings ==
    \A ss \in Carrying :
        LET e == Ewma(Series(ss, "metric"))
        IN  /\ \E v \in Values(ss) : v * e.over <= e.sum
            /\ \E v \in Values(ss) : v * e.over >= e.sum

(* calculate_rate_of_change: a rate is over at least a second and at most  *)
(* the window, and steady readings have none.                              *)
RateOverTheWindow ==
    \A ss \in {measured \in Carrying : Len(Series(measured, "metric")) > 1} :
        LET rate == BuildContext(ss).trends["metric"].rate
        IN  /\ rate.time \in Second..(Window * Second)
            /\ Cardinality(Values(ss)) = 1 => rate.rise = 0

(* build_context_from_kb_results: the order in which the knowledge base    *)
(* returns the snapshots makes no difference.                              *)
OrderMakesNoDifference == \A ss \in SomeSnapshots : BuildContext(ss) = BuildContext(Reverse(ss))

(* build_historical_actions_context: what is told in detail is counted,    *)
(* and no more actions are counted than there are.                         *)
DetailsAreCounted ==
    \A h \in Histories :
        LET recent == RecentActionsWithFeedback(h)
            told(t) == Cardinality({i \in DOMAIN recent : recent[i].action_taken = t})
        IN  \A t \in DOMAIN Summary(h) :
                told(t) <= Summary(h)[t] /\ Summary(h)[t] <= Len(h) - Cardinality({i \in DOMAIN h : h[i].type # t})

(* What holds of the context the language model is told.                   *)
SeriesHold ==
    AverageAmongReadings /\ RateOverTheWindow /\ OrderMakesNoDifference /\ DetailsAreCounted
=============================================================================
