------------------------------ MODULE LLMReasoner ------------------------------
(***************************************************************************)
(* LLMReasoningImplementation: the reasoner that asks a language model     *)
(* once per reasoning.  It keeps the last actions it decided for, judges   *)
(* the last one by how the snapshots have shifted since, tells the         *)
(* language model, and can be made to load its prompt anew at any time.    *)
(*                                                                         *)
(* The knowledge base and the language model are external: they answer     *)
(* anything, or fail.  Reasonings are handled one after the other, a       *)
(* reload may come while one waits.                                        *)
(***************************************************************************)
EXTENDS Integers, Sequences

CONSTANTS
    RateLimit,         \* the pause from one reasoning to the next, in ticks
    LLMRetries,        \* max_retries
    HistoryLength,     \* maxlen of action_history
    Decisions,         \* what the language model may decide for
    Measured,          \* what the snapshots may show on average
    MaxReasonings, MaxReloads     \* bounds

(* A decision: its type, for a dimmer whether the value is below 1 and     *)
(* whether the parameters can be read at all, and whether it tells of an   *)
(* error.  Snapshots are known by their averages, in ms and percent.       *)
ActionTypes == {"ADD_SERVER", "REMOVE_SERVER", "SET_DIMMER", "ALERT", "NO_ACTION", "NO_OP"}
DecisionType == [type : ActionTypes, lowers : BOOLEAN, readable : BOOLEAN, error : BOOLEAN]
Averages == [response_time : Int, utilization : Int]

ASSUME LLMReasonerAssumption ==
    /\ RateLimit \in Nat /\ LLMRetries \in Nat \ {0} /\ HistoryLength \in Nat \ {0}
    /\ Decisions \subseteq DecisionType /\ Measured \subseteq Averages
    /\ MaxReasonings \in Nat /\ MaxReloads \in Nat

VARIABLES
    reasonings,                 \* how many were not skipped
    since_run,                  \* ticks since last_run_time, at most RateLimit
    reasoning, llm_attempt,     \* what the reasoning waits for
    snapshots,                  \* of the reasoning in progress
    action_history,
    last_inference_action, last_inference_snapshots,
    reloads, prompt             \* the prompt's template and the values it is formatted with

llmVars == <<reasonings, since_run, reasoning, llm_attempt, snapshots, action_history,
             last_inference_action, last_inference_snapshots, reloads, prompt>>
memoryVars == <<action_history, last_inference_action, last_inference_snapshots>>

(* An inference is a decision, and the number of its reasoning.            *)
Inferences == [n : Nat, decision : DecisionType]
Plain(type) == [type |-> type, lowers |-> FALSE, readable |-> TRUE, error |-> FALSE]
NoInference == [n |-> 0, decision |-> Plain("NO_ACTION")]

(* Snapshots by the averages over those that carry the metrics, if any do. *)
Unmeasured == [measured |-> FALSE, average |-> [response_time |-> 0, utilization |-> 0]]
Snapshots == {Unmeasured} \cup [measured : {TRUE}, average : Measured]

Feedback == [of : Nat, action_taken : ActionTypes,
             evaluation : {"none", "UNKNOWN", "FAILED", "NEUTRAL", "SUCCESSFUL"}]
NoFeedback == [of |-> 0, action_taken |-> "NO_ACTION", evaluation |-> "none"]
Entries == [action : Inferences, feedback : Feedback]
PromptType == [template : Nat, format_vars : Nat, formats : BOOLEAN, reloadable : BOOLEAN]

LLMTypeOK ==
    /\ reasonings \in 0..MaxReasonings /\ since_run \in 0..RateLimit
    /\ reasoning \in {"idle", "kb", "llm"} /\ llm_attempt \in 0..(LLMRetries - 1)
    /\ snapshots \in Snapshots
    /\ action_history \in Seq(Entries) /\ Len(action_history) <= HistoryLength
    /\ last_inference_action \in Inferences
    /\ last_inference_snapshots \in Snapshots
    /\ reloads \in 0..MaxReloads /\ prompt \in PromptType

LLMInit ==
    /\ reasonings = 0 /\ since_run = RateLimit /\ reasoning = "idle" /\ llm_attempt = 0
    /\ snapshots = Unmeasured
    /\ action_history = <<>> /\ last_inference_action = NoInference
    /\ last_inference_snapshots = Unmeasured
    /\ reloads = 0
    /\ prompt = [template |-> 0, format_vars |-> 0, formats |-> TRUE, reloadable |-> TRUE]

-----------------------------------------------------------------------------
(* _evaluate_action_from_snapshot_shift: rt is the change in ms, u that of *)
(* the utilization in percent.                                             *)
Evaluation(type, lowers, rt, u) ==
    CASE type = "ADD_SERVER" /\ rt < -50                     -> "SUCCESSFUL"
      [] type = "ADD_SERVER" /\ rt > 20                      -> "FAILED"
      [] type = "REMOVE_SERVER" /\ u > 5 /\ rt < 100         -> "SUCCESSFUL"
      [] type = "REMOVE_SERVER" /\ rt > 200                  -> "FAILED"
      [] type = "SET_DIMMER" /\ rt < -10 /\ lowers           -> "SUCCESSFUL"
      [] type = "SET_DIMMER" /\ rt > 10                      -> "FAILED"
      [] OTHER                                               -> "NEUTRAL"

Compared(prev, new) == prev.measured /\ new.measured

EvaluateAction(a, prev, new) ==
    [of |-> a.n, action_taken |-> a.decision.type,
     evaluation |-> IF Compared(prev, new)
                    THEN Evaluation(a.decision.type, a.decision.lowers,
                                    new.average.response_time - prev.average.response_time,
                                    new.average.utilization - prev.average.utilization)
                    ELSE "UNKNOWN"]

(* A SET_DIMMER without readable parameters cannot be evaluated: it raises.*)
NeedsFeedback(a) == a.decision.type \notin {"NO_ACTION", "NO_OP"}
BugEvaluationRaises(new) == FALSE
EvaluationRaises(new) ==
    LET a == last_inference_action
    IN  a.decision.type = "SET_DIMMER" /\ ~a.decision.readable /\ Compared(last_inference_snapshots, new)

(* The feedback goes to the latest entry.                                  *)
BugGiveFeedback(h, fb) ==
    IF h = <<>> THEN h ELSE [h EXCEPT ![1].feedback = fb]
GiveFeedback(h, fb) ==
    IF h = <<>> THEN h ELSE [h EXCEPT ![Len(h)].feedback = fb]

-----------------------------------------------------------------------------
(* reason                                                                  *)

Prompted == UNCHANGED <<reloads, prompt>>

(* The rate limiter, which passes over what comes too soon; last_run_time  *)
(* is set before anything can fail.                                        *)
Begin ==
    /\ reasoning = "idle" /\ since_run = RateLimit /\ reasonings < MaxReasonings
    /\ reasonings' = reasonings + 1 /\ since_run' = 0 /\ reasoning' = "kb"
    /\ UNCHANGED <<llm_attempt, snapshots, memoryVars>> /\ Prompted

Fallback == reasoning' = "idle" /\ llm_attempt' = 0

(* The knowledge base answers: the last action is judged, and the prompts  *)
(* are built from values of any kind, which may raise.                     *)
KBFails ==
    /\ reasoning = "kb" /\ Fallback
    /\ UNCHANGED <<reasonings, since_run, snapshots, memoryVars>> /\ Prompted

KBAnswers(new) ==
    /\ reasoning = "kb" /\ snapshots' = new
    /\ IF EvaluationRaises(new) THEN Fallback /\ UNCHANGED action_history
       ELSE /\ action_history' =
                  IF NeedsFeedback(last_inference_action)
                  THEN GiveFeedback(action_history, EvaluateAction(last_inference_action,
                                                                   last_inference_snapshots, new))
                  ELSE action_history
            /\ \/ prompt.formats /\ reasoning' = "llm" /\ UNCHANGED <<llm_attempt>>
               \/ Fallback
    /\ UNCHANGED <<reasonings, since_run, last_inference_action, last_inference_snapshots>> /\ Prompted

(* _call_llm: an attempt fails and, after a pause, there is another.       *)
AttemptAgain ==
    /\ reasoning = "llm" /\ llm_attempt < LLMRetries - 1
    /\ llm_attempt' = llm_attempt + 1
    /\ UNCHANGED <<reasonings, since_run, reasoning, snapshots, memoryVars>> /\ Prompted

(* The last attempt fails, or the reply cannot be written to the log file. *)
LLMFails ==
    /\ reasoning = "llm" /\ Fallback
    /\ UNCHANGED <<reasonings, since_run, snapshots, memoryVars>> /\ Prompted

(* _parse_llm_response: what cannot be read is an alert of the parser.     *)
Parsed == Decisions \cup {Plain("ALERT")}

Storable(d) == ~d.error /\ d.type \notin {"ALERT", "NO_ACTION"}

(* A deque with a maxlen.                                                  *)
Remember(h, a) ==
    Append(IF Len(h) = HistoryLength THEN Tail(h) ELSE h, [action |-> a, feedback |-> NoFeedback])

Conclude(a) ==
    /\ last_inference_action' = a /\ last_inference_snapshots' = snapshots
    /\ action_history' = IF Storable(a.decision) THEN Remember(action_history, a) ELSE action_history
    /\ reasoning' = "idle" /\ llm_attempt' = 0
    /\ UNCHANGED <<reasonings, since_run, snapshots>> /\ Prompted

LLMReplies ==
    /\ reasoning = "llm" /\ \E d \in Parsed : Conclude([n |-> reasonings, decision |-> d])

RateTick ==
    /\ since_run < RateLimit /\ since_run' = since_run + 1
    /\ UNCHANGED <<reasonings, reasoning, llm_attempt, snapshots, memoryVars>> /\ Prompted

-----------------------------------------------------------------------------
(* reload_prompt_config                                                    *)

(* The file has a template or not; its values are mappings, of a type that *)
(* can be copied but not unpacked, or absent.                              *)
PromptFiles == [template : {"formats", "broken", "absent"}, values : {"mapping", "list", "null"}]

(* Values and template are taken over one after the other, the values only *)
(* then unpacked; what raises in between leaves the rest as it was.        *)
Loaded(f) ==
    LET kept == [prompt EXCEPT !.reloadable = f.values # "null"]
    IN  IF f.template = "absent" THEN kept
        ELSE [kept EXCEPT !.template = reloads', !.formats = f.template = "formats",
                          !.format_vars = IF f.values = "mapping" THEN reloads' ELSE @]

(* It begins by copying the values it has, which fails where there are     *)
(* none; a file that cannot be read leaves everything as it is.            *)
ReloadPromptConfig ==
    /\ reloads < MaxReloads /\ reloads' = reloads + 1
    /\ \/ prompt' = prompt
       \/ prompt.reloadable /\ \E f \in PromptFiles : prompt' = Loaded(f)
    /\ UNCHANGED <<reasonings, since_run, reasoning, llm_attempt, snapshots, memoryVars>>

-----------------------------------------------------------------------------
Reasons == KBFails \/ (\E new \in Snapshots : KBAnswers(new)) \/ AttemptAgain \/ LLMFails \/ LLMReplies

LLMNext == Begin \/ Reasons \/ RateTick \/ ReloadPromptConfig

LLMSpec == LLMInit /\ [][LLMNext]_llmVars

(* The knowledge base and the language model answer or time out.           *)
LLMFairness == WF_llmVars(Reasons)

-----------------------------------------------------------------------------
(* Properties                                                              *)

(* The history holds actions in the order they were decided for, and the   *)
(* last one if it counts: what is judged next is then its latest entry.    *)
(* (llm_reasoner.py:233)                                                   *)
HistoryIsOfInferences ==
    LET h == action_history
    IN  /\ \A i, j \in DOMAIN h : i < j => h[i].action.n < h[j].action.n
        /\ \A i \in DOMAIN h : h[i].action.n <= last_inference_action.n /\ Storable(h[i].action.decision)
        /\ Storable(last_inference_action.decision) => h # <<>> /\ h[Len(h)].action = last_inference_action

(* Feedback stands at the action it is about, or is about what was decided *)
(* after that action and before the next entry, which was not stored: an   *)
(* alert's feedback replaces that of the action before it.                 *)
(* (llm_reasoner.py:209)                                                   *)
FeedbackAtItsEntry ==
    LET h == action_history
    IN  \A i \in DOMAIN h : h[i].feedback # NoFeedback =>
            /\ h[i].feedback.of >= h[i].action.n
            /\ i < Len(h) => h[i].feedback.of < h[i + 1].action.n
            /\ h[i].feedback.of = h[i].action.n => h[i].feedback.action_taken = h[i].action.decision.type

(* Whatever a file lacks, the template is never formatted with values      *)
(* newer than it, and the language model is only asked in the course of a  *)
(* reasoning that was counted.  (llm_reasoner.py:126)                      *)
TemplateHasItsValues == prompt.format_vars <= prompt.template /\ prompt.template <= reloads

(* What is remembered is no later than the last reasoning that ended.      *)
RemembersThePast ==
    /\ last_inference_action.n <= reasonings
    /\ reasoning # "idle" => last_inference_action.n < reasonings

LLMReasonerInv ==
    /\ LLMTypeOK /\ HistoryIsOfInferences /\ FeedbackAtItsEntry
    /\ TemplateHasItsValues /\ RemembersThePast

(* A SET_DIMMER with parameters that cannot be read makes every reasoning  *)
(* fail before the language model is asked, until one sees snapshots       *)
(* without the metric: only then is it followed by another inference.      *)
(* (llm_reasoner.py:365)                                                   *)
OnlyBlindRecovers ==
    [][last_inference_action.decision.type = "SET_DIMMER" /\ ~last_inference_action.decision.readable
           /\ last_inference_action' # last_inference_action
       => ~Compared(last_inference_snapshots, snapshots)]_llmVars

(* An evaluation is no worse where the response time has fallen further.   *)
(* (llm_reasoner.py:351)                                                   *)
Rank(evaluation) == CASE evaluation = "SUCCESSFUL" -> 2 [] evaluation = "NEUTRAL" -> 1 [] OTHER -> 0
FairAt(type, lowers, rt, other, u) ==
    rt <= other => Rank(Evaluation(type, lowers, other, u)) <= Rank(Evaluation(type, lowers, rt, u))
SomeChanges == {-51, -50, -11, -10, 0, 10, 11, 20, 21, 99, 100, 200, 201}
EvaluationIsFair ==
    \A type \in ActionTypes, lowers \in BOOLEAN, rt, other \in SomeChanges, u \in {0, 5, 6} :
        FairAt(type, lowers, rt, other, u)

(* A reasoning that was taken up ends.                                     *)
ReasoningsConclude == reasoning # "idle" ~> reasoning = "idle"
=============================================================================
