---------------------------- MODULE PolarisActions ----------------------------
(***************************************************************************)
(* The way of a control action through POLARIS: the kernel, which answers  *)
(* overload by its fast controller and hands everything else to the        *)
(* reasoner; the verification adapter between the reasoner and execution;  *)
(* and the execution adapter, whose worker takes queued actions to SWIM    *)
(* through a connector that retries.  SWIM itself is what ElasticPool      *)
(* promises of it, and a process that ends when a command is not legal.    *)
(*                                                                         *)
(* Components exchange messages on NATS subjects, each delivered in order. *)
(* An action is its index in `acts'; queues hold indices.                  *)
(*                                                                         *)
(* An operator named Bug... is a plausible mistake in the definition that  *)
(* follows it; nothing uses it.                                            *)
(***************************************************************************)
EXTENDS Verification

CONSTANTS
    MaxServers, InitialServers,   \* of SWIM
    FastCooldown, SlowCooldown,   \* action_cooldown_sec, slow_action_cooldown_sec,
    TempDimmerTimeout,            \*    temp_dimmer_timeout: in periods of the monitor
    PersistenceCount,
    QueueSize, MaxRetries,        \* of the execution adapter and its connector
    Setups,                       \* the deployments to consider, see below
    MaxActions, MaxRequests       \* bounds: actions published, requests waiting

(* A deployment: whether there is a reasoner, whether it sends its actions *)
(* for verification, under which constraints, and whether SWIM answers     *)
(* and the adapters finish before the next telemetry; and a bound on the   *)
(* actions it publishes.                                                   *)
SetupType == [reasoner : BOOLEAN, enable_verification : BOOLEAN,
              constraints : Configurations, prompt : BOOLEAN,
              actions : 0..MaxActions]

ASSUME PolarisActionsAssumption ==
    /\ MaxServers \in Nat \ {0} /\ InitialServers \in 1..MaxServers
    /\ FastCooldown \in Nat /\ SlowCooldown \in Nat /\ TempDimmerTimeout \in Nat
    /\ PersistenceCount \in Nat \ {0} /\ QueueSize \in Nat \ {0} /\ MaxRetries \in Nat
    /\ Setups \subseteq SetupType /\ MaxActions \in Nat /\ MaxRequests \in Nat

VARIABLES
    setup,
    serving, reported, change, crashed,      \* SWIM
    controller, sinceFast, sinceSlow,        \* kernel: the age of its last actions at the
                                             \*    next telemetry, in periods
    violation_counter, temp_dimmer,          \* fast controller; periods, or Off
    requests, thinking,                      \* reasoner
    acts,                                    \* every action published, in order
    toVerify, verifying, verifierUp,         \* verification: its queue and worker
    toExecute, action_queue, step, current, attempt,   \* execution adapter
    running, stopping,
    socket,          \* commands SWIM has received and not executed
    executed, result, \* per action: executions by SWIM, result published
    calm             \* history: the pool was settled when an action was last checked
                     \*    against it and has not changed since

swimVars == <<serving, reported, change>>
kernelVars == <<controller, sinceFast, sinceSlow, violation_counter, temp_dimmer>>
reasonerVars == <<requests, thinking>>
verifierVars == <<toVerify, verifying, verifierUp>>
workerVars == <<step, current, attempt>>
executorVars == <<toExecute, action_queue, workerVars, running, stopping>>
outcomeVars == <<executed, result, calm>>
vars == <<setup, swimVars, crashed, kernelVars, reasonerVars, acts, verifierVars,
          executorVars, socket, outcomeVars>>

Actions == 1..MaxActions
(* "other" stands for the types no connector is configured for and for     *)
(* parameters that do not validate, "malformed" for a message that is no   *)
(* ControlAction, such as the error a failed reasoning returns.            *)
(* SCALE_UP, SCALE_DOWN and ADJUST_QOS, which extern/config.yaml gives the *)
(* commands and preconditions of the first three, are left out; to the     *)
(* constraints of Verification they are types of no concern.               *)
Types == {"ADD_SERVER", "REMOVE_SERVER", "SET_DIMMER", "NO_ACTION", "other", "malformed"}
Off == -1

Swim == INSTANCE ElasticPool

TypeOK ==
    /\ setup \in Setups
    /\ serving \in 0..MaxServers /\ reported \in 0..MaxServers
    /\ change \in {"none", "growing", "shrinking"} /\ crashed \in BOOLEAN
    /\ controller \in {"none", "fast", "slow"}
    /\ sinceFast \in 0..FastCooldown /\ sinceSlow \in 0..SlowCooldown
    /\ violation_counter \in 0..(PersistenceCount - 1)
    /\ temp_dimmer \in 0..TempDimmerTimeout \cup {Off}
    /\ requests \in 0..MaxRequests /\ thinking \in BOOLEAN
    /\ Len(acts) <= MaxActions
    /\ \A i \in DOMAIN acts : acts[i] \in [type : Types, source : {"fast_controller", "reasoner"}]
    /\ \A q \in {toVerify, toExecute, action_queue} : \A i \in DOMAIN q : q[i] \in Actions
    /\ Len(action_queue) <= QueueSize
    /\ verifierUp \in BOOLEAN /\ verifying \in Actions \cup {0} /\ current \in Actions \cup {0}
    /\ step \in {"get", "check", "send", "wait", "succeeded", "failed", "ended"}
    /\ attempt \in 0..MaxRetries
    /\ running \in BOOLEAN /\ calm \in BOOLEAN /\ stopping \in {"no", "draining", "stopped"}
    /\ \A i \in DOMAIN socket : socket[i] \in [action : Actions, open : BOOLEAN]
    /\ executed \in [Actions -> Nat]
    /\ result \in [Actions -> {"none", "pending", "succeeded", "failed"}]

Init ==
    /\ setup \in Setups
    /\ Swim!Init /\ crashed = FALSE
    /\ controller = "none" /\ sinceFast = FastCooldown /\ sinceSlow = SlowCooldown
    /\ violation_counter = 0 /\ temp_dimmer = Off
    /\ requests = 0 /\ thinking = FALSE
    /\ acts = <<>>
    /\ toVerify = <<>> /\ verifying = 0 /\ verifierUp = TRUE
    /\ toExecute = <<>> /\ action_queue = <<>>
    /\ step = "get" /\ current = 0 /\ attempt = 0
    /\ running = TRUE /\ stopping = "no"
    /\ socket = <<>>
    /\ executed = [i \in Actions |-> 0] /\ result = [i \in Actions |-> "none"]
    /\ calm = FALSE

-----------------------------------------------------------------------------
(* FastController.  A snapshot is taken when no command is half done, so   *)
(* its average response time and the one the controller computes agree:    *)
(* decide_action is only asked when both are above the threshold.          *)

active_servers == serving + (IF change = "shrinking" THEN 1 ELSE 0)

(* _check_temp_dimmer_deactivation                                         *)
StaysLowered ==
    temp_dimmer # Off /\ active_servers # MaxServers /\ temp_dimmer < TempDimmerTimeout

(* decide_action, once the violation has persisted: the types of the       *)
(* actions, in order (_handle_high_response_time).                         *)
HighResponseTimeActions ==
    IF active_servers >= MaxServers THEN <<"SET_DIMMER">>
    ELSE IF StaysLowered THEN <<"ADD_SERVER">>
    ELSE <<"SET_DIMMER", "ADD_SERVER">>

Aged(periods, limit) == IF periods < limit THEN periods + 1 ELSE periods
Older(lowered) == IF lowered = Off THEN Off ELSE Aged(lowered, TempDimmerTimeout)

(* publish_json on polaris.execution.actions, and the indices it takes.    *)
Publish(types, source) ==
    acts' = acts \o [i \in DOMAIN types |-> [type |-> types[i], source |-> source]]
Published(types) == [i \in DOMAIN types |-> Len(acts) + i]

AllServersActive == active_servers = reported

(* process_telemetry_event_stream above the threshold.                     *)
FastPath ==
    IF sinceFast < FastCooldown
    THEN /\ temp_dimmer' = Older(temp_dimmer)
         /\ UNCHANGED <<controller, violation_counter, acts, toExecute>>
    ELSE /\ controller' = "fast"
         /\ IF ~AllServersActive
            THEN /\ temp_dimmer' = Older(temp_dimmer)
                 /\ UNCHANGED <<violation_counter, acts, toExecute>>
            ELSE IF violation_counter + 1 < PersistenceCount
            THEN /\ violation_counter' = violation_counter + 1
                 /\ temp_dimmer' = IF StaysLowered THEN Older(temp_dimmer) ELSE Off
                 /\ UNCHANGED <<acts, toExecute>>
            ELSE /\ violation_counter' = 0
                 /\ temp_dimmer' = IF active_servers >= MaxServers THEN Off
                                   ELSE IF StaysLowered THEN Older(temp_dimmer)
                                   ELSE Aged(0, TempDimmerTimeout)
                 /\ Publish(HighResponseTimeActions, "fast_controller")
                 /\ toExecute' = toExecute \o Published(HighResponseTimeActions)

ActsFast == Len(acts') > Len(acts)

(* A period of the monitor (_collect_once) and the kernel's handler of its *)
(* snapshot.  In a prompt deployment what the last one set off is done.    *)
PipelineIdle ==
    \/ stopping = "stopped"
    \/ toExecute = <<>> /\ action_queue = <<>> /\ step \in {"get", "ended"} /\ socket = <<>>

HighTelemetry ==
    /\ ~crashed /\ (setup.prompt => PipelineIdle)
    /\ Len(acts) + 2 <= setup.actions
    /\ FastPath
    /\ sinceFast' = Aged(IF ActsFast THEN 0 ELSE sinceFast, FastCooldown)
    /\ sinceSlow' = Aged(sinceSlow, SlowCooldown)
    /\ UNCHANGED <<setup, swimVars, crashed, reasonerVars, verifierVars, action_queue,
                   workerVars, running, stopping, socket, outcomeVars>>

(* A dead SWIM yields no metrics, and no metrics an average of 0.          *)
NormalTelemetry ==
    /\ (setup.prompt => PipelineIdle)
    /\ IF sinceSlow < SlowCooldown
       THEN /\ sinceSlow' = Aged(sinceSlow, SlowCooldown)
            /\ UNCHANGED <<controller, requests>>
       ELSE /\ controller' = "slow" /\ sinceSlow' = Aged(0, SlowCooldown)
            /\ requests' = IF setup.reasoner /\ requests < MaxRequests THEN requests + 1
                           ELSE requests
    /\ sinceFast' = Aged(sinceFast, FastCooldown)
    /\ temp_dimmer' = Older(temp_dimmer)
    /\ UNCHANGED <<setup, swimVars, crashed, violation_counter, thinking, acts, verifierVars,
                   executorVars, socket, outcomeVars>>

(* process_telemetry_event: a batch goes to the reasoner past the cooldown.*)
BatchTelemetry ==
    /\ controller = "slow" /\ setup.reasoner /\ requests < MaxRequests
    /\ requests' = requests + 1
    /\ UNCHANGED <<setup, swimVars, crashed, kernelVars, thinking, acts, verifierVars,
                   executorVars, socket, outcomeVars>>

-----------------------------------------------------------------------------
(* The reasoner handles one request at a time and may answer anything.     *)

StartReasoning ==
    /\ requests > 0 /\ ~thinking
    /\ thinking' = TRUE /\ requests' = requests - 1
    /\ UNCHANGED <<setup, swimVars, crashed, kernelVars, acts, verifierVars, executorVars,
                   socket, outcomeVars>>

(* _publish_action_for_verification, or straight to execution.             *)
PublishAction(t) ==
    /\ Publish(<<t>>, "reasoner")
    /\ IF setup.enable_verification
       THEN toVerify' = toVerify \o Published(<<t>>) /\ UNCHANGED toExecute
       ELSE toExecute' = toExecute \o Published(<<t>>) /\ UNCHANGED toVerify

(* A handler that raises publishes nothing.                                *)
FinishReasoning ==
    /\ thinking /\ thinking' = FALSE
    /\ \/ Len(acts) < setup.actions /\ \E t \in Types : PublishAction(t)
       \/ UNCHANGED <<acts, toVerify, toExecute>>
    /\ UNCHANGED <<setup, swimVars, crashed, kernelVars, requests, verifying, verifierUp,
                   action_queue, workerVars, running, stopping, socket, outcomeVars>>

-----------------------------------------------------------------------------
(* VerificationAdapter at the level the reasoner asks for.                 *)

(* _publish_action_for_verification: no reading of the system goes with it.*)
VerificationRequest(t) ==
    Transformed([kind |-> IF t = "malformed" THEN "bare" ELSE "typed", type |-> t,
                 params |-> NoKeys, context |-> NoKeys, level |-> "policy"])
Approved(t) == Verdict(setup.constraints, VerificationRequest(t)).approved

StartVerification ==
    /\ verifierUp /\ verifying = 0 /\ toVerify # <<>>
    /\ verifying' = Head(toVerify) /\ toVerify' = Tail(toVerify)
    /\ UNCHANGED <<setup, swimVars, crashed, kernelVars, reasonerVars, acts, verifierUp,
                   executorVars, socket, outcomeVars>>

(* A verification ends with a verdict, or without one when it times out.   *)
FinishVerification ==
    /\ verifying # 0
    /\ LET t == acts[verifying].type IN
       \/ /\ Approved(t)
          /\ acts' = [acts EXCEPT ![verifying].type = IF t = "malformed" THEN "other" ELSE t]
          /\ toExecute' = Append(toExecute, verifying)
       \/ /\ ~Approved(t) \/ ~setup.prompt
          /\ UNCHANGED <<acts, toExecute>>
    /\ verifying' = 0
    /\ UNCHANGED <<setup, swimVars, crashed, kernelVars, reasonerVars, toVerify, verifierUp,
                   action_queue, workerVars, running, stopping, socket, outcomeVars>>

(* _stop_processing: the queue is given ten seconds to drain, then the     *)
(* worker is cancelled with the request it holds and what is queued.       *)
StopVerification ==
    /\ setup.enable_verification /\ verifierUp
    /\ setup.prompt => toVerify = <<>> /\ verifying = 0
    /\ verifierUp' = FALSE /\ verifying' = 0
    /\ UNCHANGED <<setup, swimVars, crashed, kernelVars, reasonerVars, acts, toVerify,
                   executorVars, socket, outcomeVars>>

-----------------------------------------------------------------------------
(* ExecutionAdapter.                                                       *)

(* _action_handler: a message that is no action is dropped; put waits for  *)
(* room in the queue, and the subscription with it.                        *)
ReceiveAction ==
    /\ toExecute # <<>> /\ stopping # "stopped"
    /\ toExecute' = Tail(toExecute)
    /\ LET i == Head(toExecute) IN
       IF acts[i].type = "malformed"
       THEN UNCHANGED <<action_queue, outcomeVars>>
       ELSE /\ Len(action_queue) < QueueSize
            /\ action_queue' = Append(action_queue, i)
            /\ result' = [result EXCEPT ![i] = "pending"]
            /\ UNCHANGED <<executed, calm>>
    /\ UNCHANGED <<setup, swimVars, crashed, kernelVars, reasonerVars, acts, verifierVars,
                   workerVars, running, stopping, socket>>

WorkerStep == UNCHANGED <<setup, swimVars, crashed, kernelVars, reasonerVars, acts,
                          verifierVars, toExecute, running, stopping>>

(* _worker: get                                                            *)
GetAction ==
    /\ step = "get" /\ action_queue # <<>>
    /\ current' = Head(action_queue) /\ action_queue' = Tail(action_queue)
    /\ step' = "check"
    /\ UNCHANGED <<attempt, socket, outcomeVars>>
    /\ WorkerStep

(* The end of execute_action; its exceptions are results too.              *)
BugEnds(outcome) == step' = (IF outcome = "failed" THEN "get" ELSE outcome) /\ attempt' = 0
Ends(outcome) == step' = outcome /\ attempt' = 0

(* _check_preconditions of the SWIM plugin, against what SWIM reports.     *)
BugPrecondition(t) == TRUE
Precondition(t) ==
    /\ t = "ADD_SERVER" => reported < MaxServers
    /\ t = "REMOVE_SERVER" => reported > 1

(* execute_action up to the command.  A query may time out too, and waits  *)
(* behind the commands SWIM has not got to; a dead SWIM refuses it.        *)
CheckAction ==
    /\ step = "check"
    /\ LET t == acts[current].type
           needsQuery == t \in {"ADD_SERVER", "REMOVE_SERVER"} IN
       \/ t = "NO_ACTION" /\ Ends("succeeded") /\ UNCHANGED calm
       \/ /\ t = "other" \/ (needsQuery /\ (crashed \/ ~setup.prompt))
             \/ (needsQuery /\ ~crashed /\ socket = <<>> /\ ~Precondition(t))
          /\ Ends("failed") /\ UNCHANGED calm
       \/ /\ \/ t = "SET_DIMMER" /\ UNCHANGED calm
             \/ (needsQuery /\ ~crashed /\ socket = <<>> /\ Precondition(t)
                 /\ calm' = (change = "none"))
          /\ step' = "send" /\ UNCHANGED attempt
    /\ UNCHANGED <<current, action_queue, socket, executed, result>>
    /\ WorkerStep

(* _send_recv: connect and write.                                          *)
SendCommand ==
    /\ step = "send" /\ ~crashed
    /\ socket' = Append(socket, [action |-> current, open |-> TRUE])
    /\ step' = "wait"
    /\ UNCHANGED <<current, attempt, action_queue, outcomeVars>>
    /\ WorkerStep

(* _send_with_retries: the connection is refused, or no reply comes in time*)
(* and the connection is closed; try again or give up.                     *)
Retries == attempt < MaxRetries

BugHangup(q) == q
Hangup(q) == [i \in DOMAIN q |-> [q[i] EXCEPT !.open = FALSE]]

AttemptFails ==
    /\ \/ step = "send" /\ crashed
       \/ step = "wait" /\ ~crashed /\ ~setup.prompt
    /\ socket' = Hangup(socket)
    /\ \/ /\ Retries
          /\ attempt' = attempt + 1 /\ step' = "send"
       \/ ~Retries /\ Ends("failed")
    /\ UNCHANGED <<current, action_queue, outcomeVars>>
    /\ WorkerStep

(* _publish_execution_result, _publish_adaptation_decision, task_done.     *)
GoesOn == running

PublishResult ==
    /\ step \in {"succeeded", "failed"}
    /\ result' = [result EXCEPT ![current] = step]
    /\ current' = 0
    /\ step' = IF GoesOn THEN "get" ELSE "ended"
    /\ UNCHANGED <<attempt, action_queue, socket, executed, calm>>
    /\ WorkerStep

-----------------------------------------------------------------------------
(* SWIM executes the commands it receives one by one.  One that is not     *)
(* legal ends it; its client then reads an empty reply, which holds no     *)
(* "error" and counts as success, or a reset.                              *)
LegalCommand(t) ==
    \/ t = "ADD_SERVER" /\ (Swim!StartGrowing \/ Swim!GrowAtOnce)
    \/ t = "REMOVE_SERVER" /\ Swim!StartShrinking
    \/ t = "SET_DIMMER" /\ UNCHANGED swimVars

AcceptedBySwim(t) ==
    \/ t = "SET_DIMMER"
    \/ change = "none" /\ t = "ADD_SERVER" /\ reported < MaxServers
    \/ change = "none" /\ t = "REMOVE_SERVER" /\ serving > 1

SwimExecutes ==
    /\ socket # <<>> /\ ~crashed
    /\ LET copy  == Head(socket)
           t     == acts[copy.action].type
           heard == step = "wait" /\ copy.open
       IN  /\ executed' = [executed EXCEPT ![copy.action] = @ + 1]
           /\ \/ /\ AcceptedBySwim(t) /\ LegalCommand(t)
                 /\ calm' = (calm /\ t = "SET_DIMMER")
                 /\ socket' = Tail(socket)
                 /\ IF heard THEN Ends("succeeded") ELSE UNCHANGED <<step, attempt>>
                 /\ UNCHANGED crashed
              \/ /\ ~AcceptedBySwim(t)
                 /\ crashed' = TRUE /\ socket' = <<>>
                 /\ \/ heard /\ Ends("succeeded")
                    \/ step = "wait" /\ Ends("failed")
                    \/ step # "wait" /\ UNCHANGED <<step, attempt>>
                 /\ UNCHANGED <<swimVars, calm>>
    /\ UNCHANGED <<setup, kernelVars, reasonerVars, acts, verifierVars, toExecute, action_queue,
                   current, running, stopping, result>>

(* A boot or a drain ends.                                                 *)
ChangeEnds ==
    /\ ~crashed /\ (Swim!FinishGrowing \/ Swim!FinishShrinking)
    /\ calm' = FALSE
    /\ UNCHANGED <<setup, crashed, kernelVars, reasonerVars, acts, verifierVars, executorVars,
                   socket, executed, result>>

-----------------------------------------------------------------------------
(* BaseComponent.stop of the execution adapter.                            *)

RequestStop ==
    /\ stopping = "no"
    /\ stopping' = "draining" /\ running' = FALSE
    /\ UNCHANGED <<setup, swimVars, crashed, kernelVars, reasonerVars, acts, verifierVars,
                   toExecute, action_queue, workerVars, socket, outcomeVars>>

unfinished_tasks == Len(action_queue) + (IF current = 0 THEN 0 ELSE 1)

(* _stop_processing: join returns, or its timeout expires, which it does   *)
(* in a prompt deployment only when nobody works; the worker is cancelled  *)
(* and what it was waiting for with it.                                    *)
JoinTimesOut == ~setup.prompt \/ step = "ended"

FinishStop ==
    /\ stopping = "draining"
    /\ \/ unfinished_tasks = 0
       \/ JoinTimesOut
    /\ stopping' = "stopped" /\ step' = "ended" /\ current' = 0 /\ attempt' = 0
    /\ socket' = Hangup(socket)
    /\ UNCHANGED <<setup, swimVars, crashed, kernelVars, reasonerVars, acts, verifierVars,
                   toExecute, action_queue, running, outcomeVars>>

-----------------------------------------------------------------------------
Telemetry == HighTelemetry \/ NormalTelemetry \/ BatchTelemetry
Reasoner == StartReasoning \/ FinishReasoning
Verifier == StartVerification \/ FinishVerification \/ StopVerification
Executor ==
    \/ ReceiveAction \/ GetAction \/ CheckAction \/ SendCommand \/ AttemptFails
    \/ PublishResult

Next == \/ Telemetry \/ Reasoner \/ Verifier \/ Executor
        \/ SwimExecutes \/ ChangeEnds \/ RequestStop \/ FinishStop

Spec == Init /\ [][Next]_vars

(* The tasks of the adapters run, and so does a SWIM that answers promptly;*)
(* one that does not may be silent for ever.                               *)
FairSpec ==
    /\ Spec /\ WF_vars(Executor) /\ WF_vars(FinishStop)
    /\ WF_vars(setup.prompt /\ SwimExecutes)

-----------------------------------------------------------------------------
(* execute_action checks its preconditions right before the command, and   *)
(* one worker executes one action at a time: a pool that was settled when  *)
(* it was checked, and has not changed since, accepts whatever reaches it. *)
(* Only a change under way, or a command sent again after a timeout, ends  *)
(* SWIM.                                                                   *)
PreconditionsKeepBounds == [][crashed' /\ ~crashed => ~calm]_vars

(* The fast controller alone, which waits for its servers to be active and *)
(* for its cooldown to pass, never sends SWIM a command that ends it.      *)
FastPathDisciplined == ~setup.reasoner /\ setup.prompt => ~crashed

(* A result that says success is of a command that reached SWIM: the reply *)
(* to an attempt that was given up is not taken for another action's.      *)
SuccessWasExecuted ==
    \A i \in DOMAIN acts :
       result[i] = "succeeded" /\ acts[i].type # "NO_ACTION" => executed[i] >= 1

(* With verification enabled, what the reasoner wants reaches execution    *)
(* only if it violates no critical constraint that can be evaluated.       *)
OnlyApprovedReachExecution ==
    setup.enable_verification =>
       \A i \in DOMAIN acts :
          /\ acts[i].source = "reasoner"
          /\ executed[i] > 0 \/ result[i] # "none" \/ \E k \in DOMAIN toExecute : toExecute[k] = i
          => \A k \in DOMAIN Constraints(setup.constraints) :
                LET c == Constraints(setup.constraints)[k] IN
                c.severity = "critical"
                => Evaluates(c.id, VerificationRequest(acts[i].type)) # "fails"

(* What holds of every state of the action path, whatever is deployed.     *)
ActionInv == TypeOK /\ FastPathDisciplined /\ SuccessWasExecuted /\ OnlyApprovedReachExecution

(* Every action the adapter accepts gets its result, unless it is stopped. *)
EveryActionAnswered ==
    \A i \in Actions : result[i] = "pending" ~> result[i] # "pending" \/ stopping # "no"
=============================================================================
