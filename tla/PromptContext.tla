--------------------------- MODULE PromptContext ---------------------------
(***************************************************************************)
(* What the controller asks a language model (context.py): the segments of *)
(* a prompt in both of its forms, the letters that stand for actions, and  *)
(* the positions of it whose activations are recorded.                     *)
(*                                                                         *)
(* A text is a sequence of tokens, one of which ends a line, and an offset *)
(* into it a number of them.  A dimmer is in hundredths, a response time   *)
(* in tenths of a millisecond; -1 is one not observed yet.                 *)
(***************************************************************************)
EXTENDS Integers, Sequences, TLC

Styles == {"none", "scaffold", "free"}
Modes == {"levels", "step"}
Fields == <<"SLA:", "Capacity:", "Trend:", "Therefore:">>
FieldNames == {"SLA:", "Capacity:", "Trend:", "Therefore:"}

NL == "end of line"
Header == "Reasoning:"
Cue == "Action:"
Absent == <<"absent">>

Largest(S) == CHOOSE i \in S : \A j \in S : j <= i
Smallest(S) == CHOOSE i \in S : \A j \in S : i <= j
Begins(s, t) == Len(s) <= Len(t) /\ SubSeq(t, 1, Len(s)) = s

Numeral(n) == <<ToString(n)>>
Labels(a) == IF Len(a) = 1 THEN a ELSE <<a[1], ToString(a[2])>>

(* strip and rstrip: what ends a line is all there is to strip.            *)
RStrip(t) ==
    LET kept == {i \in DOMAIN t : t[i] # NL}
    IN  IF kept = {} THEN <<>> ELSE SubSeq(t, 1, Largest(kept))
Strip(t) ==
    LET kept == {i \in DOMAIN t : t[i] # NL}
    IN  IF kept = {} THEN <<>> ELSE SubSeq(t, Smallest(kept), Largest(kept))

Concat(ts) ==
    LET upTo[i \in 0..Len(ts)] == IF i = 0 THEN <<>> ELSE upTo[i - 1] \o ts[i]
    IN  upTo[Len(ts)]
(* "\n".join *)
Joined(ts) ==
    LET upTo[i \in 1..Len(ts)] == IF i = 1 THEN ts[1] ELSE upTo[i - 1] \o <<NL>> \o ts[i]
    IN  upTo[Len(ts)]

-----------------------------------------------------------------------------
(* Options: a letter is a place in action_space.                           *)
SetDimmer(v) == <<"set_dimmer", v>>
IsDimmer(a) == a[1] = "set_dimmer"
LevelRepresentatives == <<0, 25, 50, 75, 100>>

ActionSpace(dimmer, mode) ==
    <<<<"add_server">>, <<"remove_server">>, <<"no_op">>>> \o
    IF mode = "levels" THEN [i \in 1..5 |-> SetDimmer(LevelRepresentatives[i])]
    ELSE <<SetDimmer(IF dimmer < 25 THEN 0 ELSE dimmer - 25),
           SetDimmer(IF dimmer > 75 THEN 100 ELSE dimmer + 25)>>

Dimmers(options) == {i \in DOMAIN options : IsDimmer(options[i])}

(* legend_entries: a step is named by its place, not by its value.         *)
Legend(options, mode) ==
    [i \in DOMAIN options |->
        CASE ~IsDimmer(options[i])                 -> options[i]
          [] IsDimmer(options[i]) /\ mode = "step" ->
                <<"one step", IF i = Smallest(Dimmers(options)) THEN "down" ELSE "up">>
          [] OTHER                                 -> options[i]]

(* _letter_for *)
BugLetterFor(a, dimmer, options) == Largest(Dimmers(options))
LetterFor(a, dimmer, options) ==
    LET same == {i \in DOMAIN options : options[i] = a}
    IN  CASE same # {}                               -> Smallest(same)
          [] same = {} /\ a[2] > dimmer         -> Largest(Dimmers(options))
          [] OTHER                                   -> Smallest(Dimmers(options))

-----------------------------------------------------------------------------
(* _objective_lines *)
Rules == <<"keep the SLA", "serve optional content", "run few servers">>
Objectives == {"none", "priority", "formula", "priority-no3", "priority-scaled",
               "priority-paraphrase", "combined"}
Blank == <<"">>
ObjectiveLines(objective) ==
    CASE objective = "none"            -> <<>>
      [] objective = "formula"         -> <<<<"utility">>>> \o <<Blank>>
      [] objective = "combined"        -> <<SubSeq(Rules, 1, 2), <<"utility">>, Blank>>
      [] objective = "priority-no3"    -> <<SubSeq(Rules, 1, 2), Blank>>
      [] objective = "priority-scaled" -> <<Rules, <<"scale">>, Blank>>
      [] OTHER                         -> <<Rules, Blank>>

Constraints(c, options) ==
    <<<<"role">>, Blank, <<"constraints">> \o Numeral(c.max_servers) \o Numeral(c.sla), Blank>>
    \o ObjectiveLines(c.objective) \o <<<<"Actions:">>>>
    \o [i \in DOMAIN options |-> Numeral(i) \o Labels(Legend(options, c.mode)[i])] \o <<Blank>>

(* _reply_instruction *)
ReplyInstruction(style) ==
    CASE style = "none"     -> <<"reply with the letter">>
      [] style = "free"     -> <<"think step by step">>
      [] style = "scaffold" -> Fields

SystemText(c, options) == Joined(Constraints(c, options) \o <<ReplyInstruction(c.style)>>)

-----------------------------------------------------------------------------
(* state_block of a trajectory that ends in the state decided on           *)
Effect(d) ==
    CASE d.rt_after = -1                               -> "not yet observed"
      [] d.rt_after # -1 /\ d.rt_after - d.rt_before \in -4..4 -> "unchanged"
      [] d.rt_after # -1 /\ d.rt_after - d.rt_before < -4      -> "fell"
      [] OTHER                                          -> "rose"

StateBlock(c, p, traj) ==
    LET latest == traj.observations[Len(traj.observations)]
        shown == Len(traj.observations)
    IN  Joined(
            <<<<"---">> \o Numeral(p), Numeral(latest.servers) \o Numeral(c.max_servers),
              Numeral(latest.dimmer),
              Numeral(latest.rt) \o <<IF latest.rt > c.sla THEN "BREACHED" ELSE "met">>>>
            \o IF shown > 1
               THEN <<[i \in 1..shown |-> ToString(traj.observations[i].rt)]>>
               ELSE <<>>
            \o [i \in DOMAIN traj.decisions |->
                   Numeral(traj.decisions[i].period) \o <<Effect(traj.decisions[i])>>])

Observed(n, d, rt) == [servers |-> n, dimmer |-> d, rt |-> rt]

(* period_utility (utility.py), shown per period if the prompt is to; in   *)
(* half hundredths, of an arrival rate in requests a second.               *)
Kappa(max_servers) == 22 * max_servers
PeriodUtility(c, a, o) ==
    LET revenue == a * (200 + o.dimmer)
    IN  CASE o.rt > c.sla                     -> 300 * (IF a < Kappa(c.max_servers)
                                                        THEN a - Kappa(c.max_servers) ELSE 0)
          [] o.rt <= c.sla /\ o.dimmer = 100  -> revenue + 2000 * (c.max_servers - o.servers)
          [] OTHER                            -> revenue

(* DEFAULT_EXEMPLARS *)
Bank ==
    <<[period |-> 17, action |-> <<"add_server">>,
       history |-> <<Observed(3, 90, 5200), Observed(3, 90, 8100), Observed(3, 90, 12400)>>],
      [period |-> 42, action |-> SetDimmer(75),
       history |-> <<Observed(3, 30, 2050), Observed(3, 30, 1980), Observed(3, 30, 2100)>>]>>

Worked(style) ==
    IF style = "free" THEN <<Header, "prose">>
    ELSE Joined(<<<<Header>>>> \o [i \in 1..4 |-> <<Fields[i], "prose">>])

(* exemplar_turns, of the first n of the bank                              *)
ExemplarTurns(c, options) ==
    [i \in 1..c.n |->
        LET ex == Bank[i]
            traj == [observations |-> SubSeq(ex.history, IF c.window < 3 THEN 4 - c.window ELSE 1, 3),
                     decisions |-> <<>>]
        IN  [state     |-> StateBlock(c, ex.period, traj),
             reasoning |-> Worked(c.style),
             letter    |-> LetterFor(ex.action, ex.history[3].dimmer, options)]]

-----------------------------------------------------------------------------
(* The chat form.  assistant_turn: the header is added if it is missing.   *)
AssistantTurn(reasoning) ==
    LET body == Strip(reasoning)
    IN  IF body = <<>> THEN <<Cue>>
        ELSE (IF body[1] = Header THEN body ELSE <<Header, NL>> \o body) \o <<NL, Cue>>

Message(role, content) == [role |-> role, content |-> content]

(* build_messages *)
BuildMessages(c, p, traj, reasoning) ==
    LET options == ActionSpace(traj.observations[Len(traj.observations)].dimmer, c.mode)
        turns == ExemplarTurns(c, options)
        shown(t) == IF c.style = "none" THEN <<>> ELSE RStrip(t.reasoning) \o <<NL>>
        examples == [i \in 1..(2 * c.n) |->
                        LET t == turns[(i + 1) \div 2]
                        IN  IF i % 2 = 1 THEN Message("user", Strip(t.state))
                            ELSE Message("assistant", shown(t) \o <<Cue>> \o Numeral(t.letter))]
    IN  <<Message("system", SystemText(c, options))>> \o examples
        \o <<Message("user", Strip(StateBlock(c, p, traj)))>>
        \o IF reasoning = Absent THEN <<>>
           ELSE <<Message("assistant", AssistantTurn(reasoning))>>

-----------------------------------------------------------------------------
(* The flat form.                                                          *)
StaticPrefix(c, options) ==
    LET turns == ExemplarTurns(c, options)
        example(t) == <<RStrip(t.state)>>
                      \o (IF c.style = "none" THEN <<>> ELSE <<RStrip(t.reasoning)>>)
                      \o <<<<Cue>> \o Numeral(t.letter), Blank>>
    IN  Joined(Constraints(c, options)
               \o (IF c.n = 0 THEN <<>> ELSE <<<<"Worked examples:">>, Blank>>)
               \o Concat([i \in DOMAIN turns |-> example(turns[i])])) \o <<NL>>

(* decision_scaffold *)
DecisionScaffold(style) ==
    CASE style = "none"     -> <<>>
      [] style = "free"     -> <<NL, Header, "step by step">>
      [] style = "scaffold" -> <<NL, Header, NL, Fields[1]>>

(* _locate_scaffold_probes: the first line from there on that starts with  *)
(* the field; one that never does has no probe.                            *)
Marks(text, from, name) == {i \in (from + 1)..Len(text) - 1 : text[i] = NL /\ text[i + 1] = name}
LineEnd(text, i) ==
    LET ends == {j \in (i + 2)..Len(text) : text[j] = NL}
    IN  IF ends = {} THEN Len(text) ELSE Smallest(ends) - 1
LocateScaffoldProbes(text, from) ==
    [name \in {f \in FieldNames : Marks(text, from, f) # {}} |->
        LineEnd(text, Smallest(Marks(text, from, name)))]

(* build *)
Build(c, p, traj, reasoning) ==
    LET options == ActionSpace(traj.observations[Len(traj.observations)].dimmer, c.mode)
        start == StaticPrefix(c, options) \o StateBlock(c, p, traj)
        thought == start \o DecisionScaffold(c.style) \o RStrip(reasoning) \o <<NL>>
    IN  CASE c.style # "none" /\ reasoning = Absent ->
                [text |-> start \o DecisionScaffold(c.style), p0 |-> Len(start),
                 fields |-> [f \in {} |-> 0], action |-> 0]
          [] c.style # "none" /\ reasoning # Absent ->
                [text |-> thought \o <<Cue>>, p0 |-> Len(start),
                 fields |-> LocateScaffoldProbes(thought, Len(start)),
                 action |-> Len(thought) + 1]
          [] OTHER ->
                [text |-> start \o <<NL, Cue>>, p0 |-> Len(start),
                 fields |-> [f \in {} |-> 0], action |-> Len(start) + 2]

-----------------------------------------------------------------------------
(* Inputs: builders, histories and what a model may write.                 *)
Builders == [max_servers : {3, 12}, sla : {7500}, objective : {"none", "combined"},
             style : Styles, mode : Modes, n : 0..2, window : {2, 5}]
LiveDimmers == {0, 25, 30, 50, 75, 90, 100}

Decision(p, before, after) == [period |-> p, rt_before |-> before, rt_after |-> after]
Histories(d) ==
    {[observations |-> <<Observed(3, d, 7500)>>, decisions |-> <<>>],
     [observations |-> <<Observed(3, 90, 7500), Observed(2, d, 7504)>>,
      decisions |-> <<Decision(1, 7500, 7504)>>]}

Written ==
    {<<>>, <<NL>>, <<"prose", NL, NL>>,
     <<"prose", NL, "Capacity:", "prose", NL, "Trend:", "prose", NL, "Therefore:", "prose">>,
     <<"prose", NL, "Trend:", NL, "Capacity:", "prose", NL>>,
     <<"prose", NL, "Therefore:", "prose", NL, "more", NL, "Therefore:", "again", NL>>,
     <<Header, NL, "SLA:", "prose", NL, "Capacity:", "prose">>}

(* An exemplar's dimmer happens to be a step's target: its letter is then  *)
(* the one of that target, whichever way the exemplar went.  "Byte-        *)
(* identical on every decision" (context.py:8) is not so at a dimmer of 1. *)
Coincides(c, dimmer) == c.mode = "step" /\ c.n = 2 /\ dimmer = 100

(* context.py: whatever the state, the segment before it is the same, so   *)
(* that what differs in the model is owed to the state.                    *)
PrefixIsStatic ==
    \A c \in Builders : \A d, e \in {v \in LiveDimmers : ~Coincides(c, v)} :
        LET p == ActionSpace(d, c.mode)
            q == ActionSpace(e, c.mode)
        IN  /\ StaticPrefix(c, p) = StaticPrefix(c, q)
            /\ SystemText(c, p) = SystemText(c, q)

(* _letter_for: a worked example answers a letter of the legend it stands  *)
(* under, and that entry is what the example did or, where the legend      *)
(* offers steps, one in the same direction.                                *)
ExamplesFitTheLegend ==
    \A c \in Builders : \A d \in {v \in LiveDimmers : ~Coincides(c, v)} :
        LET options == ActionSpace(d, c.mode)
        IN  \A i \in 1..c.n :
                LET said == Legend(options, c.mode)[ExemplarTurns(c, options)[i].letter]
                    did == Bank[i].action
                IN  IF IsDimmer(did) /\ c.mode = "step"
                    THEN said = <<"one step",
                                  IF did[2] > Bank[i].history[3].dimmer THEN "up" ELSE "down">>
                    ELSE said = did

(* build and build_messages are called twice: the second text continues    *)
(* the first, so what was recorded of it keeps its position.               *)
SecondContinuesFirst ==
    \A c \in Builders, d \in {30, 100}, r \in Written : \A h \in Histories(d) :
        LET first == Build(c, 9, h, Absent)
            second == Build(c, 9, h, r)
        IN  /\ first.p0 = second.p0
            /\ c.style # "none" => Begins(first.text, second.text)
            /\ Begins(BuildMessages(c, 9, h, Absent), BuildMessages(c, 9, h, r))

(* _locate_scaffold_probes: a field's probe ends a line that starts with   *)
(* that field, after the state and before the cue - never a line of an     *)
(* example - and only the seeded field has one that the model did not      *)
(* write.  The action is scored right after the cue.                       *)
ProbesMarkWhatWasWritten ==
    \A c \in Builders, d \in {30, 100}, r \in Written : \A h \in Histories(d) :
        LET p == Build(c, 9, h, r)
        IN  /\ p.action = Len(p.text) /\ p.text[p.action] = Cue
            /\ \A f \in DOMAIN p.fields :
                  /\ p.p0 < p.fields[f] /\ p.fields[f] < p.action /\ p.text[p.fields[f] + 1] = NL
                  /\ \E i \in (p.p0 + 1)..p.fields[f] :
                        /\ p.text[i] = f /\ p.text[i - 1] = NL
                        /\ \A j \in i..p.fields[f] : p.text[j] # NL
                  /\ \/ \E i \in DOMAIN r : r[i] = f
                     \/ f = Fields[1] /\ c.style = "scaffold"

(* In chat form the roles take turns, the turn that is scored ends in the  *)
(* only cue of it and has one header, written by the model or added.       *)
TurnsAlternate ==
    \A c \in Builders, d \in {30, 100}, r \in Written : \A h \in Histories(d) :
        LET m == BuildMessages(c, 9, h, r)
            turn == m[Len(m)].content
        IN  /\ m[1].role = "system"
            /\ \A i \in 2..Len(m) : m[i].role = IF i % 2 = 0 THEN "user" ELSE "assistant"
            /\ {i \in DOMAIN turn : turn[i] = Cue} = {Len(turn)}
            /\ Strip(r) # <<>> => {i \in DOMAIN turn : turn[i] = Header} = {1}

(* state_block: a fall is called a fall, and a change too small to print   *)
(* none.                                                                   *)
EffectsReadRight ==
    \A before, after \in {0, 4, 5, 7500, 7504, 7505} :
        /\ Effect(Decision(1, before, after)) = "fell" => after < before
        /\ Effect(Decision(1, before, after)) = "rose" => after > before
        /\ Effect(Decision(1, before, -1)) = "not yet observed"

(* utility.py and _PRIORITY (context.py): what a period is shown to earn   *)
(* ranks periods as the rules in words do - the threshold before the       *)
(* dimmer, the dimmer before servers, and servers only at dimmer 1.        *)
UtilityRanksAsTheRules ==
    \A c \in {b \in Builders : b.objective = "combined"}, a \in {0, 10, 100, 300} :
    \A m, n \in 1..3 : \A d, e \in {0, 90, 100} :
        LET kept == PeriodUtility(c, a, Observed(m, d, 7500))
        IN  /\ kept >= PeriodUtility(c, a, Observed(n, e, 7501))
            /\ d > e /\ a > 0 => kept > PeriodUtility(c, a, Observed(n, e, 7500))
            /\ d = e /\ m < n =>
                  IF d = 100 THEN kept > PeriodUtility(c, a, Observed(n, d, 7500))
                  ELSE kept = PeriodUtility(c, a, Observed(n, d, 7500))

(* What the controller asks reads as it is meant.                          *)
PromptsHold ==
    /\ UtilityRanksAsTheRules
    /\ PrefixIsStatic /\ ExamplesFitTheLegend /\ SecondContinuesFirst
    /\ ProbesMarkWhatWasWritten /\ TurnsAlternate /\ EffectsReadRight
=============================================================================
