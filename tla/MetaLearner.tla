------------------------------ MODULE MetaLearner ------------------------------
(***************************************************************************)
(* MetaLearnerLLM of POLARIS: learning cycles that ask the knowledge base  *)
(* for observations and decisions and a language model for changes, keep   *)
(* of these what the rules allow, write it into the prompt configuration   *)
(* and announce it; and the reasoner, which reloads its prompt             *)
(* configuration when it hears the announcement.                           *)
(*                                                                         *)
(* Cycles run periodically and on a trigger, as two tasks of one event     *)
(* loop; the reasoner is a process of its own and may read the file while  *)
(* it is being written.  Both are configured with the same file (as        *)
(* start_component.py starts them they are not: the reasoner then reloads  *)
(* its own, which never changes).  A text is accepted or not; what it says *)
(* is left out.  The language model is external: it replies anything of    *)
(* Replies, or fails.                                                      *)
(*                                                                         *)
(* An operator named Bug... is a plausible mistake in the definition that  *)
(* follows it; nothing uses it.                                            *)
(***************************************************************************)
EXTENDS Telemetry

CONSTANTS
    FixedConstraints,          \* FIXED_CONSTRAINTS
    AllowedParts,              \* allowed_parts
    Replies,                   \* what the language model may propose, in its order
    InitialThresholds,         \* the thresholds of the prompt configuration
    MaxChangePercent,          \* max_change_percent
    MaxLearningCycles          \* bound: cycles started

ReplyType == [thresholds : Seq([key : STRING, value : Nat, number : BOOLEAN]),
              parts : Seq([key : STRING, acceptable : BOOLEAN])]

ASSUME MetaLearnerAssumption ==
    /\ Replies \subseteq ReplyType
    /\ \A k \in DOMAIN InitialThresholds : InitialThresholds[k] \in Nat
    /\ MaxChangePercent \in Nat /\ MaxLearningCycles \in Nat

VARIABLES
    prompt,               \* the prompt configuration when it is not torn
    torn,                 \* it is open for writing, or a write of it has failed
    current_thresholds,   \* of the meta-learner
    cycle,                \* run_learning_cycle of each task
    started,              \* cycles so far
    connected,            \* self.nc
    notices,              \* announcements the reasoner has not handled
    prompt_config,        \* the thresholds of the reasoner's
    tuned, unheard        \* history: keys ever saved; the last save went unannounced

metaVars == <<prompt, torn, current_thresholds, cycle, started, connected, notices,
              prompt_config, tuned, unheard>>

Tasks == {"periodic", "trigger"}
NoUpdate == [thresholds |-> <<>>, parts |-> {}]
AtRest == [at |-> "idle", found |-> FALSE, update |-> NoUpdate]
Stages == {"idle", "observations", "decisions", "think", "save", "announce"}

MetaTypeOK ==
    /\ DOMAIN prompt = {"thresholds", "parts"} /\ prompt.parts \subseteq AllowedParts
    /\ torn \in BOOLEAN /\ connected \in BOOLEAN /\ unheard \in BOOLEAN
    /\ \A t \in Tasks : cycle[t].at \in Stages /\ cycle[t].found \in BOOLEAN
    /\ started \in 0..MaxLearningCycles /\ notices \in Nat
    /\ tuned \subseteq DOMAIN prompt.thresholds

MetaInit ==
    /\ prompt = [thresholds |-> InitialThresholds, parts |-> {}] /\ torn = FALSE
    /\ current_thresholds = InitialThresholds
    /\ cycle = [t \in Tasks |-> AtRest] /\ started = 0 /\ connected = TRUE
    /\ notices = 0
    /\ prompt_config = InitialThresholds
    /\ tuned = {} /\ unheard = FALSE

-----------------------------------------------------------------------------
(* _validate_and_constrain_updates                                         *)

(* Of each kind of change only the first.                                  *)
BugFirstOnly(changes) == changes
FirstOnly(changes) == SubSeq(changes, 1, Min({1, Len(changes)}))

(* A known threshold moves by max_change_percent at most, a new one starts *)
(* anywhere.  The model rounds the step down to a whole number.            *)
Constrained(key, new) ==
    IF key \notin DOMAIN current_thresholds THEN new
    ELSE LET value      == current_thresholds[key]
             max_change == (value * MaxChangePercent) \div 100
         IN  Max({value - max_change, Min({value + max_change, new})})

(* The range of a known rule is a hint. That a minimum stays below its     *)
(* maximum is asked of two thresholds of one update, which has only one.   *)
Validated(reply) ==
    LET asked == {c \in ToSet(FirstOnly(reply.thresholds)) :
                     c.key \notin FixedConstraints /\ c.number}
        texts == {p \in ToSet(FirstOnly(reply.parts)) : p.key \in AllowedParts /\ p.acceptable}
    IN  [thresholds |-> [k \in {c.key : c \in asked} |->
                            Constrained(k, (CHOOSE c \in asked : c.key = k).value)],
         parts |-> {p.key : p \in texts}]

IsEmpty(update) == DOMAIN update.thresholds = {} /\ update.parts = {}

-----------------------------------------------------------------------------
(* run_learning_cycle.  From the reply of the language model to the        *)
(* announcement a cycle does not wait, and the other task does not run.    *)
Running(t, stage) == cycle[t].at = stage /\ \A u \in Tasks \ {t} : cycle[u].at # "save"

GoesTo(t, stage) == cycle' = [cycle EXCEPT ![t].at = stage]
Ends(t) == cycle' = [cycle EXCEPT ![t] = AtRest]

(* run, every update_interval; _handle_trigger_request, while connected.   *)
StartCycle(t) ==
    /\ Running(t, "idle") /\ started < MaxLearningCycles /\ started' = started + 1
    /\ t = "trigger" => connected
    /\ GoesTo(t, "observations")
    /\ UNCHANGED <<prompt, torn, current_thresholds, connected, notices, prompt_config, tuned, unheard>>

Waiting == UNCHANGED <<prompt, torn, current_thresholds, started, connected, notices, prompt_config,
                       tuned, unheard>>

(* query_kb_for_meta_learning: without a reply it found nothing.           *)
Finds(data_type) ==
    IF connected THEN {FALSE, StructuredQuery([data_types |-> {data_type}, tags |-> {}, source |-> {},
                                               metric_name |-> {}]) # {}}
    ELSE {FALSE}

QueryObservations(t) ==
    /\ Running(t, "observations")
    /\ \E found \in Finds("observation") :
          cycle' = [cycle EXCEPT ![t].at = "decisions", ![t].found = found]
    /\ Waiting

(* Without any entry the cycle is skipped.                                 *)
QueryDecisions(t) ==
    /\ Running(t, "decisions")
    /\ \E found \in Finds("adaptation_decision") :
          IF found \/ cycle[t].found THEN GoesTo(t, "think") ELSE Ends(t)
    /\ Waiting

ModelFails(t) == Running(t, "think") /\ Ends(t) /\ Waiting

(* The valid changes are saved. _save_prompt_config reads the file first,  *)
(* and cannot read a torn one.                                             *)
ModelReplies(t) ==
    /\ Running(t, "think")
    /\ \E reply \in Replies :
          LET update == Validated(reply)
          IN  IF IsEmpty(update) \/ torn THEN Ends(t) /\ UNCHANGED torn
              ELSE /\ cycle' = [cycle EXCEPT ![t].at = "save", ![t].update = update]
                   /\ torn' = TRUE
    /\ UNCHANGED <<prompt, current_thresholds, started, connected, notices, prompt_config, tuned, unheard>>

(* The file is written, and loaded again.                                  *)
Merged(old, new) ==
    [k \in DOMAIN old \cup DOMAIN new |-> IF k \in DOMAIN new THEN new[k] ELSE old[k]]

BugReloaded == current_thresholds
Reloaded == prompt'.thresholds

EndSave(t) ==
    /\ Running(t, "save")
    /\ LET update == cycle[t].update
       IN  /\ prompt' = [thresholds |-> Merged(prompt.thresholds, update.thresholds),
                         parts |-> prompt.parts \cup update.parts]
           /\ tuned' = tuned \cup DOMAIN update.thresholds
    /\ torn' = FALSE /\ current_thresholds' = Reloaded
    /\ GoesTo(t, "announce")
    /\ UNCHANGED <<started, connected, notices, prompt_config, unheard>>

(* An error while it is written leaves the file as it is then.             *)
SaveFails(t) == Running(t, "save") /\ Ends(t) /\ Waiting

(* _publish_update_notification: a failure is logged.                      *)
Announce(t) ==
    /\ Running(t, "announce") /\ Ends(t)
    /\ notices' = IF connected THEN notices + 1 ELSE notices
    /\ unheard' = ~connected
    /\ UNCHANGED <<prompt, torn, current_thresholds, started, connected, prompt_config, tuned>>

(* _handle_system_notification of a shutdown: run goes on all the same.    *)
Disconnect ==
    /\ connected /\ \A t \in Tasks : cycle[t].at # "save"
    /\ connected' = FALSE
    /\ UNCHANGED <<prompt, torn, current_thresholds, cycle, started, notices, prompt_config, tuned, unheard>>

-----------------------------------------------------------------------------
(* _handle_threshold_update and reload_prompt_config of the reasoner: from *)
(* a file it cannot read it takes the fallback, which has no thresholds.   *)
Loaded == IF torn THEN <<>> ELSE prompt.thresholds

HandleThresholdUpdate ==
    /\ notices > 0 /\ notices' = notices - 1
    /\ prompt_config' = Loaded
    /\ UNCHANGED <<prompt, torn, current_thresholds, cycle, started, connected, tuned, unheard>>

-----------------------------------------------------------------------------
Learn(t) ==
    \/ StartCycle(t) \/ QueryObservations(t) \/ QueryDecisions(t)
    \/ ModelFails(t) \/ ModelReplies(t) \/ EndSave(t) \/ SaveFails(t) \/ Announce(t)

MetaNext == (\E t \in Tasks : Learn(t)) \/ Disconnect \/ HandleThresholdUpdate

TunedInit == Init /\ MetaInit

TunedNext ==
    \/ Next /\ UNCHANGED metaVars
    \/ setup.tuned /\ MetaNext /\ UNCHANGED vars

TunedSpec == TunedInit /\ [][TunedNext]_<<vars, metaVars>>

(* Nothing is assumed of the meta-learner.                                 *)
TunedFairSpec == TunedSpec /\ Fairness

-----------------------------------------------------------------------------
(* A save changes one threshold at most, never a fixed constraint, and by  *)
(* no more than the allowed share of what the file holds at that moment,   *)
(* however the cycles overlap and however old the data they asked the      *)
(* language model about.                                                   *)
Changed(old, new) == {k \in DOMAIN new : k \notin DOMAIN old \/ old[k] # new[k]}

UpdatesAreSmall ==
    [][LET old == prompt.thresholds
           new == prompt'.thresholds
       IN  /\ Cardinality(Changed(old, new)) <= 1
           /\ Changed(old, new) \cap FixedConstraints = {}
           /\ DOMAIN old \subseteq DOMAIN new
           /\ \A k \in DOMAIN old :
                 LET change == Max({old[k], new[k]}) - Min({old[k], new[k]})
                 IN  100 * change <= MaxChangePercent * old[k]]_metaVars

(* What the meta-learner has saved and announced, the reasoner works with  *)
(* once it has handled the announcements, also when it read the file in    *)
(* the middle of a later save.                                             *)
Settled ==
    /\ notices = 0 /\ ~torn /\ ~unheard
    /\ \A t \in Tasks : cycle[t].at # "announce"

TuningTakesHold ==
    Settled => \A k \in tuned : k \in DOMAIN prompt_config /\ prompt_config[k] = prompt.thresholds[k]

(* What holds of every state, of telemetry and of tuning.                  *)
TunedInv == TelemetryInv /\ StructuredQueryIsScan /\ MetaTypeOK /\ TuningTakesHold
=============================================================================
