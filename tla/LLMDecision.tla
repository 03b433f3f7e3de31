---------------------------- MODULE LLMDecision ----------------------------
(***************************************************************************)
(* How the controller decides with a language model (policies.py) over a   *)
(* backend whose calls fail, are retried or come back empty (backends.py), *)
(* and the history that its prompts show (trajectory.py), through the      *)
(* periods of loop.py.  NullPolicy, RandomPolicy and StaticPolicy, which   *)
(* ask nobody, run through the same loop.                                  *)
(*                                                                         *)
(* A letter of the prompt stands for one action of action_space and is     *)
(* represented by it.  A distribution over the letters is the set of those *)
(* it gives any mass: the likeliest may be any member of it.  A response   *)
(* time is the number of the period it was observed in.                    *)
(*                                                                         *)
(* The simulated site does what it is told; what a socket can do to the    *)
(* command is in ControlLoop, and here it may or may not take effect.      *)
(* `log' and `seen' are history: what was decided, and the periods sensed. *)
(*                                                                         *)
(* An operator named Bug... is a plausible mistake in the definition that  *)
(* follows it; nothing uses it.                                            *)
(***************************************************************************)
EXTENDS ReactiveRule, Sequences, FiniteSetsExt

CONSTANTS
    InitialServers,
    DimmerRepresentatives,  \* of DimmerMode.LEVELS, in units
    Setups,                 \* policies and backends the loop may run with
    Window, ActionWindow,   \* of Trajectory
    MaxPeriods,
    PeriodTicks,            \* the length of a period
    CallTicks               \* the longest that one request takes

SetupType == [policy : {"null", "random", "static", "llm"}, decide : {"score", "generate"},
              chat : BOOLEAN, reasoning : BOOLEAN, attempts : Nat \ {0}, tries : Nat \ {0},
              logprobs : BOOLEAN, dimmer_mode : {"levels", "step"},
              servers : Nat, dimmer : 0..One]

(* Six decimals tell a step of the dimmer from none.                       *)
ASSUME LLMDecisionAssumption ==
    /\ InitialServers \in 1..MaxServers /\ Scale < 2 * Step
    /\ DimmerRepresentatives \subseteq 0..One /\ Setups \subseteq SetupType
    /\ Window \in Nat \ {0} /\ ActionWindow \in Nat \ {0}
    /\ MaxPeriods \in Nat /\ PeriodTicks \in Nat \ {0} /\ CallTicks \in Nat

VARIABLES
    setup,
    site,      \* the web site as it is
    obs,       \* and as sensed in this period
    period, at,
    attempt,   \* of the request being made
    asked,     \* times a call has come back empty
    waited,    \* ticks since sensing
    action,    \* PolicyResult.action
    trajectory,
    log, seen

callVars == <<attempt, asked, waited>>
historyVars == <<trajectory, log, seen>>
vars == <<setup, site, obs, period, at, callVars, action, historyVars>>

Calls == {"reason", "score", "generate", "ask_letter", "ask_again"}
NoLetter == [kind |-> "no letter"]
Nothing == [kind |-> "nothing"]

(* action_space                                                            *)
Options ==
    {NoOp, Add, Remove} \cup
    IF setup.dimmer_mode = "levels"
    THEN {SetDimmer(v) : v \in DimmerRepresentatives}
    ELSE {SetDimmer(AtLeastZero(SixDecimals(obs.dimmer - Step))),
          SetDimmer(AtMostOne(SixDecimals(obs.dimmer + Step)))}

(* is_legal                                                                *)
IsLegal(a) ==
    CASE a.kind = "no_op"         -> TRUE
      [] a.kind = "add_server"    -> CanAdd(obs)
      [] a.kind = "remove_server" -> CanRemove(obs)
      [] a.kind = "set_dimmer"    -> a.value \in 0..One /\ a.value # obs.dimmer

Legal == {a \in Options : IsLegal(a)}

(* validate lets a dimmer pass that is set already.                        *)
IsValid(a) ==
    CASE a.kind = "set_dimmer" -> a.value \in 0..One
      [] OTHER                 -> IsLegal(a)

Init ==
    /\ setup \in Setups
    /\ site = [servers |-> InitialServers, booting |-> FALSE, dimmer |-> One]
    /\ obs = site /\ period = 0 /\ at = "top"
    /\ attempt = 0 /\ asked = 0 /\ waited = 0 /\ action = NoOp
    /\ trajectory = [observations |-> <<>>, decisions |-> <<>>, pending |-> Nothing]
    /\ log = <<>> /\ seen = <<>>

-----------------------------------------------------------------------------
(* Trajectory: deques that forget their oldest.                            *)
Appended(q, e, maxlen) == Append(IF Len(q) < maxlen THEN q ELSE Tail(q), e)

BugPendingAfter == trajectory.pending
PendingAfter == Nothing

(* record_observation, of a state whose response time is rt                *)
RecordObservation(rt) ==
    trajectory' =
        [observations |-> Appended(trajectory.observations, rt, Window),
         decisions    |-> IF trajectory.pending = Nothing THEN trajectory.decisions
                          ELSE Appended(trajectory.decisions,
                                        [trajectory.pending EXCEPT !.rt_after = rt],
                                        ActionWindow),
         pending      |-> PendingAfter]

(* record_decision                                                         *)
Decision(p, a) == [kind |-> "decision", period |-> p, action |-> a,
                   rt_before |-> p, rt_after |-> -1]
RecordDecision(a) == trajectory' = [trajectory EXCEPT !.pending = Decision(period, a)]

-----------------------------------------------------------------------------
(* The top of the loop.                                                    *)
Call(next) == at' = next /\ attempt' = 0 /\ asked' = 0

FirstCall ==
    IF setup.policy # "llm" THEN "choose"
    ELSE IF setup.decide = "generate" /\ setup.chat THEN "generate"
    ELSE IF setup.reasoning THEN "reason" ELSE "score"

Sense ==
    /\ at = "top" /\ period < MaxPeriods
    /\ obs' = site /\ waited' = 0
    /\ seen' = Append(seen, period) /\ RecordObservation(period)
    /\ Call(FirstCall)
    /\ UNCHANGED <<setup, site, period, action, log>>

SenseFails ==
    /\ at = "top" /\ period < MaxPeriods
    /\ period' = period + 1
    /\ UNCHANGED <<setup, site, obs, at, callVars, action, historyVars>>

-----------------------------------------------------------------------------
(* The policies that ask nobody.                                           *)
NullDecide == NoOp

StaticDecide ==
    CASE obs.dimmer # setup.dimmer -> SetDimmer(setup.dimmer)
      [] obs.dimmer = setup.dimmer /\ ~obs.booting /\ obs.servers < Min({setup.servers, MaxServers})
            -> Add
      [] obs.dimmer = setup.dimmer /\ ~obs.booting /\ obs.servers > Max({setup.servers, 1})
            -> Remove
      [] OTHER -> NoOp

Decided(a) == action' = a /\ Call("execute")

Choose ==
    /\ at = "choose"
    /\ \E a \in CASE setup.policy = "null"   -> {NullDecide}
                  [] setup.policy = "static" -> {StaticDecide}
                  [] setup.policy = "random" -> Legal : Decided(a)
    /\ UNCHANGED <<setup, site, obs, period, waited, historyVars>>

-----------------------------------------------------------------------------
(* LLMPolicy.  The action chosen is validated once more.                   *)
Chosen(a) == Decided(IF IsValid(a) THEN a ELSE NoOp)

Masked(S) == S \cap Legal

(* __call__: a distribution without a legal letter in it means no_op.      *)
FromScores(S) ==
    IF Masked(S) = {} THEN Chosen(NoOp) ELSE \E a \in Masked(S) : Chosen(a)

(* _decide_by_generation, from `letter = ...' on: an illegal letter is     *)
(* asked about again.                                                      *)
FromLetter(letter, S) ==
    CASE Masked(S) # {}                                   -> FromScores(S)
      [] Masked(S) = {} /\ letter \in Options \ Legal     -> Call("ask_again") /\ UNCHANGED action
      [] Masked(S) = {} /\ letter \in Legal               -> Chosen(letter)
      [] OTHER                                            -> Chosen(NoOp)

(* What comes of the answer to the call under way.  Masses come with the   *)
(* token of a letter, if the backend gives any.                            *)
Masses == IF setup.logprobs THEN SUBSET Options ELSE {{}}

GenerationGives(letter, S) ==
    IF letter = NoLetter THEN Call("ask_letter") /\ UNCHANGED action ELSE FromLetter(letter, S)

Answer ==
    CASE at = "reason"   -> Call("score") /\ UNCHANGED action
      [] at = "score"    -> \E S \in IF setup.chat THEN SUBSET Options \ {{}} ELSE {Options} :
                               FromScores(S)
      [] at = "generate" -> \E letter \in Options \cup {NoLetter}, S \in Masses :
                               GenerationGives(letter, S)
      [] at = "ask_letter" -> \E letter \in Options \cup {NoLetter}, S \in Masses :
                                 FromLetter(letter, S)
      [] at = "ask_again"  -> \E letter \in Options \cup {NoLetter} :
                                 Chosen(IF letter \in Legal THEN letter ELSE NoOp)

(* What comes of an exception in it.                                       *)
Failure ==
    CASE at = "reason"     -> Call("score") /\ UNCHANGED action
      [] at = "score"      -> \E rt \in ResponseTimes, spareAboveOne \in BOOLEAN :
                                 Decided(decide(obs, rt, spareAboveOne))
      [] at = "generate"   -> Call("ask_letter") /\ UNCHANGED action
      [] at = "ask_letter" -> FromLetter(NoLetter, {})
      [] at = "ask_again"  -> Chosen(NoOp)

(* A request takes its time, however it ends.                              *)
TakesTime == \E t \in 0..CallTicks : waited' = waited + t

Answers ==
    /\ at \in Calls /\ Answer /\ TakesTime
    /\ UNCHANGED <<setup, site, obs, period, historyVars>>

CallFails ==
    /\ at \in Calls /\ Failure /\ TakesTime
    /\ UNCHANGED <<setup, site, obs, period, historyVars>>

(* OpenRouterBackend._post: a request is made again unless it is the last  *)
(* of its attempts.                                                        *)
Busy ==
    /\ at \in Calls /\ attempt + 1 < setup.attempts
    /\ attempt' = attempt + 1 /\ TakesTime
    /\ UNCHANGED <<setup, site, obs, period, at, asked, action, historyVars>>

(* OpenRouterBackend.generate_chat: so is one that came back empty; the    *)
(* last of those is an answer.                                             *)
BugAskedAgain == asked
AskedAgain == asked + 1

ComesBackEmpty ==
    /\ at \in {"reason", "ask_again"} /\ asked + 1 < setup.tries
    /\ asked' = AskedAgain /\ attempt' = 0 /\ TakesTime
    /\ UNCHANGED <<setup, site, obs, period, at, action, historyVars>>

-----------------------------------------------------------------------------
(* The rest of the period: nothing is sent when the decision is no_op or   *)
(* comes a period after sensing; what was decided is recorded either way.  *)
Stale == waited > PeriodTicks

(* _sleep_until skips periods that have passed.                            *)
PeriodAfter == period + 1 + IF Stale THEN waited \div PeriodTicks ELSE 0

Execute ==
    /\ at = "execute"
    /\ site' \in {site} \cup
                 IF Stale \/ ~IsValid(action) THEN {} ELSE {Apply(site, action)}
    /\ RecordDecision(action)
    /\ log' = Append(log, [period |-> period, action |-> action])
    /\ at' = "top" /\ period' = PeriodAfter
    /\ waited' = 0 /\ action' = NoOp
    /\ UNCHANGED <<setup, obs, attempt, asked, seen>>

BootEnds ==
    /\ site.booting /\ site' = Booted(site)
    /\ UNCHANGED <<setup, obs, period, at, callVars, action, historyVars>>

Ended == at = "top" /\ period >= MaxPeriods /\ UNCHANGED vars

Decide == Choose \/ Answers \/ CallFails \/ Busy \/ ComesBackEmpty

Next == Sense \/ SenseFails \/ Decide \/ Execute \/ BootEnds \/ Ended

Spec == Init /\ [][Next]_vars

(* A request has a timeout, and the loop does not wait between deciding    *)
(* and executing.                                                          *)
FairSpec == Spec /\ WF_vars(Decide) /\ WF_vars(Execute)

-----------------------------------------------------------------------------
TypeOK ==
    /\ setup \in Setups /\ site \in Sites /\ obs \in Sites
    /\ period \in Nat /\ at \in Calls \cup {"top", "choose", "execute"}
    /\ attempt \in 0..setup.attempts /\ asked \in 0..setup.tries /\ waited \in Nat
    /\ IsTactic(action)
    /\ Len(trajectory.observations) <= Window
    /\ Len(trajectory.decisions) <= ActionWindow

(* policies.py: whatever the model answers, and however its calls fail,    *)
(* what reaches the loop is an action that is legal in the state it was    *)
(* decided on - also for the fallback rule, which nothing validates.       *)
LegalOnEveryPath == at = "execute" => IsLegal(action)

(* trajectory.py: the history a prompt shows is what was decided, in       *)
(* order and none twice, each decision with the response time of the next  *)
(* period that was sensed, however many were missed or skipped; while one  *)
(* is being made every earlier one has its effect.                         *)
After(p) == {q \in {seen[i] : i \in 1..Len(seen)} : q > p}
Shown(i) == [Decision(log[i].period, log[i].action)
                EXCEPT !.rt_after = IF After(log[i].period) = {} THEN -1
                                    ELSE Min(After(log[i].period))]
Last(n, q) == SubSeq(q, IF Len(q) > n THEN Len(q) - n + 1 ELSE 1, Len(q))
HistoryIsTrue ==
    LET open == trajectory.pending # Nothing
        closed == Len(log) - IF open THEN 1 ELSE 0
    IN  /\ trajectory.observations = Last(Window, seen)
        /\ trajectory.decisions = Last(ActionWindow, [i \in 1..closed |-> Shown(i)])
        /\ open => trajectory.pending = Shown(Len(log))
        /\ at # "top" => ~open

(* What the model is asked, which depends on nothing else of this module.  *)
Prompts == INSTANCE PromptContext

(* What holds of every state of a decision.                                *)
DecisionInv == TypeOK /\ LegalOnEveryPath /\ HistoryIsTrue

(* Whenever the language model is asked: what holds of every prompt and of *)
(* how its reply is read.                                                  *)
PromptsHold == at \in Calls => Prompts!PromptsHold

(* Retries and questions asked again come to an end: a decision is made.   *)
DecisionEnds == at \in Calls ~> at = "execute"
=============================================================================
