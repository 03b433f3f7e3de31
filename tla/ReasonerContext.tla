---------------------------- MODULE ReasonerContext ----------------------------
(***************************************************************************)
(* What the language model of the agentic reasoner is told and how its     *)
(* reply is read: the trends, past actions and their outcomes that         *)
(* ContextBuilder computes from snapshots, the prompt that is put together *)
(* from a file that others change, and the search of a reply's lines for   *)
(* tool calls and an action.                                               *)
(*                                                                         *)
(* Times are in seconds, response times in milliseconds, utilization and   *)
(* dimmer in hundredths. A snapshot is [at, state], its state a function   *)
(* over the metrics it has.                                                *)
(***************************************************************************)
EXTENDS Integers, Sequences, FiniteSets

LOCAL INSTANCE SequencesExt

Of(f, key, default) == IF key \in DOMAIN f THEN f[key] ELSE default
LastOf(s, n) == SubSeq(s, IF Len(s) > n THEN Len(s) - n + 1 ELSE 1, Len(s))
Distance(a, b) == IF a > b THEN a - b ELSE b - a

-----------------------------------------------------------------------------
(* Trends. Snapshots are in the order of their times.                      *)

(* calculate_ewma with one half: the result times 2^(Len(data) - 1).       *)
Ewma(data) ==
    LET ewma[i \in DOMAIN data] == IF i = 1 THEN data[1] ELSE ewma[i - 1] + data[i] * 2^(i - 2)
    IN  ewma[Len(data)]

(* calculate_rate_of_change: since the first point of the last five        *)
(* minutes; less than a second is steady. The rate is a difference over    *)
(* the seconds it took.                                                    *)
Steady == [difference |-> 0, over |-> 1]
RateOfChange(snapshots, metric) ==
    LET series == SelectSeq(snapshots, LAMBDA s : metric \in DOMAIN s.state)
        latest == series[Len(series)]
        recent == SelectSeq(series, LAMBDA s : s.at >= latest.at - 300)
        over == latest.at - recent[1].at
    IN  CASE Len(snapshots) < 2 \/ Len(series) < 2 -> {}
          [] over < 1 -> {Steady}
          [] OTHER -> {[difference |-> latest.state[metric] - recent[1].state[metric], over |-> over]}

(* build_context_from_kb_results: the current state is the latest's, and   *)
(* every metric of any snapshot has its trend.                             *)
Context(snapshots) ==
    LET sorted == SortSeq(snapshots, LAMBDA s, t : s.at < t.at)
        Values(metric) == LET having == SelectSeq(sorted, LAMBDA s : metric \in DOMAIN s.state)
                          IN  [i \in DOMAIN having |-> having[i].state[metric]]
    IN  [current_state |-> sorted[Len(sorted)].state,
         historical_trends |-> [metric \in UNION {DOMAIN sorted[i].state : i \in DOMAIN sorted} |->
             [ewma |-> Ewma(Values(metric)), rate |-> RateOfChange(sorted, metric)]]]

-----------------------------------------------------------------------------
(* build_historical_actions_context: of the last ten actions, when each    *)
(* type was last taken, and whether the two minutes after an action on     *)
(* servers have passed. An action is [type, at].                           *)
ServerActions == {"ADD_SERVER", "REMOVE_SERVER"}

MostRecent(history) ==
    LET last == LastOf(history, 10)
        Times(type) == {last[i].at : i \in {j \in DOMAIN last : last[j].type = type}}
    IN  [type \in {last[i].type : i \in DOMAIN last} \cap (ServerActions \cup {"SET_DIMMER"}) |->
            CHOOSE t \in Times(type) : \A u \in Times(type) : u <= t]

CooldownStatus(history, now) ==
    LET recent == MostRecent(history) IN
    [type \in DOMAIN recent \cap ServerActions |->
        [expired |-> now - recent[type] >= 120,
         remaining |-> IF now - recent[type] >= 120 THEN 0 ELSE 120 - (now - recent[type])]]

-----------------------------------------------------------------------------
(* generate_feedback_for_action: the snapshot before the action closest to *)
(* ten seconds before it, and the one since closest to ten seconds after.  *)
Closest(snapshots, target) ==
    CHOOSE i \in DOMAIN snapshots :
       \A j \in DOMAIN snapshots :
          /\ Distance(snapshots[i].at, target) <= Distance(snapshots[j].at, target)
          /\ j < i => Distance(snapshots[i].at, target) < Distance(snapshots[j].at, target)

Compared(action, snapshots) ==
    LET before == SelectSeq(snapshots, LAMBDA s : s.at < action.at)
        since == SelectSeq(snapshots, LAMBDA s : s.at >= action.at)
    IN  IF before = <<>> \/ since = <<>> THEN {}
        ELSE {<<before[Closest(before, action.at - 10)], since[Closest(since, action.at + 10)]>>}

Evaluation(action, pre, post) ==
    LET rt == Of(post, "rt", 0) - Of(pre, "rt", 0)
        util == Of(post, "util", 0) - Of(pre, "util", 0)
        lowered == action.value < Of(pre, "dimmer", 100)
    IN  CASE action.type = "ADD_SERVER" /\ rt < -50 -> "SUCCESSFUL"
          [] action.type = "ADD_SERVER" /\ rt > 20 -> "FAILED"
          [] action.type = "REMOVE_SERVER" /\ util > 5 /\ rt < 100 -> "SUCCESSFUL"
          [] action.type = "SET_DIMMER" /\ lowered /\ rt < -20 -> "SUCCESSFUL"
          [] action.type = "SET_DIMMER" /\ rt > 20 -> "FAILED"
          [] OTHER -> "NEUTRAL"

Feedback(action, snapshots) ==
    LET pairs == Compared(action, snapshots) IN
    IF pairs = {} THEN "UNKNOWN"
    ELSE LET pair == CHOOSE p \in pairs : TRUE IN Evaluation(action, pair[1].state, pair[2].state)

-----------------------------------------------------------------------------
(* The system prompt. A file is readable or not; a configuration has fixed *)
(* constraints and thresholds, texts with variables in template_parts, and *)
(* the template. A part is the set of variables it asks for, or one with   *)
(* {"odd"}, which is no text.                                              *)
Odd == {"odd"}
FallbackConfig == [constraints |-> {}, thresholds |-> {}, parts |-> [p \in {} |-> {}], template |-> {}]

(* _load_prompt_config                                                     *)
LoadPromptConfig(file) == IF file.readable THEN file.config ELSE FallbackConfig

(* _build_fallback_prompt: what it is told of the tools.                   *)
FallbackPrompt(told) == [from |-> "fallback", shows |-> {}, tools |-> told]

(* _build_system_prompt: a part that asks for what there is not is put in  *)
(* as it is; a threshold comes before a constraint of its name, and in the *)
(* template a part before both. shows has the values that get into the     *)
(* prompt, as <<variable, where it comes from>>.                           *)
SystemPrompt(config, has_tools) ==
    LET given == config.constraints \cup config.thresholds \cup {"tools_description"}
        Source(v) == IF v \in config.thresholds THEN "threshold"
                     ELSE IF v \in config.constraints THEN "constraint" ELSE "tools"
        filled == {p \in DOMAIN config.parts : config.parts[p] \subseteq given}
        used == (config.template \ DOMAIN config.parts)
                   \cup UNION {config.parts[p] : p \in filled \cap config.template}
    IN  IF \E p \in DOMAIN config.parts : config.parts[p] = Odd THEN FallbackPrompt(FALSE)
        ELSE IF ~(config.template \subseteq given \cup DOMAIN config.parts) THEN FallbackPrompt(has_tools)
        ELSE [from |-> "template", shows |-> {<<v, Source(v)>> : v \in used},
              tools |-> has_tools /\ "tools_description" \in used]

(* reload_prompt_config: an unreadable file is no failure to it.           *)
Reload(file, has_tools) == [success |-> TRUE, prompt |-> SystemPrompt(LoadPromptConfig(file), has_tools)]

(* _add_to_local_history, which the first prompt of a reasoning shows      *)
AddToLocalHistory(history, action) == LastOf(Append(history, action), 3)

-----------------------------------------------------------------------------
(* _parse_llm_response, over the kinds of lines. "call" has TOOL_CALL: and *)
(* a name, "params" PARAMETERS: with an object, "params_apart" without     *)
(* one; "object" and "action" are objects on one line, the second with an  *)
(* action_type; "open", lines of "field" (one the action_type) and "close" *)
(* are an object over several lines.                                       *)
LineKinds == {"text", "call", "params", "params_apart", "object", "action", "open", "field", "close"}
Objects == {"object", "action"}

(* The parameters of a call are looked for in all the lines after it, up   *)
(* to a PARAMETERS: or an object.                                          *)
ParametersAt(lines, i) ==
    LET places == {j \in (i + 1)..Len(lines) : lines[j] \in Objects \cup {"params", "params_apart"}} IN
    IF places = {} THEN Len(lines) + 1 ELSE CHOOSE j \in places : \A k \in places : j <= k

(* The line that has them, 0 for none.                                     *)
ParametersOf(lines, i) ==
    LET at == ParametersAt(lines, i)
        near == {j \in at..(at + 2) \cap DOMAIN lines : lines[j] \in Objects}
    IN  CASE at > Len(lines) -> 0
          [] lines[at] # "params_apart" -> at
          [] near = {} -> 0
          [] OTHER -> CHOOSE j \in near : \A k \in near : j <= k

(* The first pass: the lines of the tool calls, with those of their        *)
(* parameters; it goes on after the place where it stopped looking.        *)
ToolCalls(lines) ==
    LET calls[i \in 1..(Len(lines) + 2)] ==
           CASE i > Len(lines) -> <<>>
             [] lines[i] = "call" -> <<[at |-> i, parameters |-> ParametersOf(lines, i)]>>
                                        \o calls[ParametersAt(lines, i) + 1]
             [] OTHER -> calls[i + 1]
    IN  calls[1]

(* The second pass: the first object that is closed, can be read and has   *)
(* an action_type; 0 for none.                                             *)
Depth(lines, i, j) ==
    Cardinality({k \in i..j : lines[k] = "open"}) - Cardinality({k \in i..j : lines[k] = "close"})

ClosedAt(lines, i) ==
    LET ends == {j \in i..Len(lines) : Depth(lines, i, j) = 0} IN
    IF ends = {} THEN Len(lines) ELSE CHOOSE j \in ends : \A k \in ends : j <= k

HasActionType(lines, i, j) ==
    \/ i = j /\ lines[i] = "action"
    \/ j > i + 1 /\ lines[j] = "close" /\ \A k \in (i + 1)..(j - 1) : lines[k] = "field"

ActionOf(lines) ==
    LET first[i \in 1..(Len(lines) + 1)] ==
           CASE i > Len(lines) -> 0
             [] lines[i] \in Objects \cup {"open"} ->
                   LET j == ClosedAt(lines, i) IN
                   IF HasActionType(lines, i, j) THEN i ELSE first[j + 1]
             [] OTHER -> first[i + 1]
    IN  first[1]

-----------------------------------------------------------------------------
(* The factories: where the client of the twin is told to connect to.      *)
DefaultAddress == [host |-> "localhost", port |-> 50051]
Address(grpc) == Of(grpc, "address", DefaultAddress)
BayesianAddress(grpc) == [host |-> Of(grpc, "host", "localhost"), port |-> Of(grpc, "port", 50051)]

-----------------------------------------------------------------------------
(* Properties, over small inputs.                                          *)
LOCAL UpTo(S, n) == UNION {[1..k -> S] : k \in 0..n}
LOCAL Picked(times, states) ==
    UNION {LET order == SetToSortSeq(chosen, <) IN
           {[i \in DOMAIN order |-> [at |-> order[i], state |-> assigned[order[i]]]] :
              assigned \in [chosen -> states]} : chosen \in SUBSET times}

(* A metric's average is between its least and its greatest value, and its *)
(* rate of change is measured within the last five minutes, over no time   *)
(* only for points of the same second.                                     *)
TrendsAreRecent ==
    \A snapshots \in Picked({0, 200, 300, 501}, {[rt |-> 100], [rt |-> 160], [util |-> 50]}) \ {<<>>} :
       LET trends == Context(snapshots).historical_trends IN
       \A metric \in DOMAIN trends :
          LET having == {i \in DOMAIN snapshots : metric \in DOMAIN snapshots[i].state}
              scale == 2^(Cardinality(having) - 1)
          IN  /\ \E i \in having : scale * snapshots[i].state[metric] <= trends[metric].ewma
              /\ \E i \in having : scale * snapshots[i].state[metric] >= trends[metric].ewma
              /\ \A rate \in trends[metric].rate :
                    /\ rate.over <= 300
                    /\ rate.difference > 0 => \E i, j \in having :
                          i < j /\ snapshots[i].state[metric] < snapshots[j].state[metric]

(* With the pause the reasoner keeps between its own actions, no server    *)
(* action of the last two minutes falls out of the ten that are looked at. *)
CooldownsAreSeen ==
    \A types \in [1..3 -> ServerActions \cup {"SET_DIMMER"}], before \in {0, 6, 9}, now \in {0, 49, 50, 119, 120} :
       LET history == [i \in 1..(before + 3) |->
                         [type |-> IF i > before THEN types[i - before] ELSE "SET_DIMMER", at |-> 70 * i]]
           time == 70 * (before + 3) + now
           status == CooldownStatus(history, time)
       IN  /\ \A i \in DOMAIN history :
                 history[i].type \in ServerActions /\ time - history[i].at < 120 =>
                    /\ history[i].type \in DOMAIN status
                    /\ ~status[history[i].type].expired
           /\ \A type \in DOMAIN status : status[type].expired <=> status[type].remaining = 0

(* An outcome is known once there are snapshots on both sides of the       *)
(* action; a success saw the response time fall or, for a removal, not     *)
(* rise much, a failure saw it rise; and ten seconds after the action the  *)
(* judgement is final.                                                     *)
FeedbackIsFinal ==
    \A snapshots \in Picked({5, 15, 20, 30, 45}, {[rt |-> 100, util |-> 40], [rt |-> 175, util |-> 50]}),
       type \in ServerActions \cup {"SET_DIMMER"}, value \in {50, 100} :
       LET action == [type |-> type, at |-> 20, value |-> value]
           pairs == Compared(action, snapshots)
           result == Feedback(action, snapshots)
           earlier == SelectSeq(snapshots, LAMBDA s : s.at <= 30)
       IN  /\ result # "UNKNOWN" <=> \E i, j \in DOMAIN snapshots : snapshots[i].at < 20 /\ snapshots[j].at >= 20
           /\ \A p \in pairs :
                 LET rise == p[2].state.rt - p[1].state.rt IN
                 /\ p[1].at < p[2].at
                 /\ result = "SUCCESSFUL" => rise < (IF type = "REMOVE_SERVER" THEN 100 ELSE 0)
                 /\ result = "FAILED" => rise > 0
           /\ (\E i \in DOMAIN snapshots : snapshots[i].at = 30) => Feedback(action, earlier) = result

(* A tuned threshold is what the prompt shows, whatever constraint has its *)
(* name; and a prompt with all its parts in text says what tools there are *)
(* if its template asks for it, or is the fallback, which does.            *)
LOCAL Configs ==
    LET needs == SUBSET {"limit", "tools_description"} \cup {Odd} IN
    [constraints : SUBSET {"limit"}, thresholds : SUBSET {"limit"},
     parts : [{"role"} -> needs] \cup {[p \in {} |-> {}]}, template : SUBSET {"role", "limit", "tools_description"}]
PromptIsTuned ==
    \A config \in Configs, has_tools \in BOOLEAN, readable \in BOOLEAN :
       LET prompt == SystemPrompt(config, has_tools)
           reload == Reload([readable |-> readable, config |-> config], has_tools)
       IN  /\ "limit" \in config.thresholds => <<"limit", "constraint">> \notin prompt.shows
           /\ (/\ \A p \in DOMAIN config.parts : config.parts[p] # Odd
               /\ "tools_description" \in config.template /\ has_tools) => prompt.tools
           /\ prompt.tools => has_tools
           /\ readable => reload.prompt = prompt

(* A reply in the format the prompt asks for is read as it was meant: its  *)
(* calls with their own parameters, and its action; with any text between. *)
LOCAL Written(calls, parameters, action) ==
    LET call == <<"call", parameters, "text">>
        block == CASE action = "line" -> <<"action">>
                   [] action = "lines" -> <<"open", "field", "field", "close">>
                   [] OTHER -> <<>>
    IN  <<"text">> \o FlattenSeq([i \in 1..calls |-> call]) \o block
RepliesReadAsMeant ==
    \A calls \in 0..2, parameters \in {"params", "object"}, action \in {"line", "lines", "none"} :
       LET lines == Written(calls, parameters, action) IN
       /\ ToolCalls(lines) = [i \in 1..calls |-> [at |-> 3 * i - 1, parameters |-> 3 * i]]
       /\ ActionOf(lines) = IF action = "none" THEN 0 ELSE 3 * calls + 2

(* Whatever the reply, no call and no action is found that is not in it, a *)
(* call's parameters come after it, and calls are found in their order.    *)
NothingInvented ==
    \A lines \in UpTo(LineKinds, 4) :
       LET calls == ToolCalls(lines) IN
       /\ \A i \in DOMAIN calls :
             /\ lines[calls[i].at] = "call"
             /\ calls[i].parameters > calls[i].at \/ calls[i].parameters = 0
             /\ i > 1 => calls[i].at > calls[i - 1].at
       /\ ActionOf(lines) # 0 => lines[ActionOf(lines)] \in {"action", "open"}
       /\ (\E i \in DOMAIN lines : lines[i] = "action") /\ (\A i \in DOMAIN lines : lines[i] # "open")
             => ActionOf(lines) # 0

(* Both factories reach a twin at the default address, the one for the     *)
(* Bayesian model also one at another port.                                *)
ReachesTheTwin ==
    /\ Address([host |-> "0.0.0.0", port |-> 50051]).port = BayesianAddress([host |-> "0.0.0.0", port |-> 50051]).port
    /\ \A port \in {50051, 50052} : BayesianAddress([host |-> "localhost", port |-> port]).port = port

(* The last three decisions are remembered, in order.                      *)
ThreeDecisions ==
    \A decided \in UpTo({"ADD_SERVER", "SET_DIMMER"}, 5) :
       LET history[i \in 0..Len(decided)] ==
              IF i = 0 THEN <<>> ELSE AddToLocalHistory(history[i - 1], decided[i])
       IN  history[Len(decided)] = LastOf(decided, 3)

ContextHolds ==
    /\ TrendsAreRecent /\ CooldownsAreSeen /\ FeedbackIsFinal /\ PromptIsTuned
    /\ RepliesReadAsMeant /\ NothingInvented /\ ReachesTheTwin /\ ThreeDecisions
=============================================================================
