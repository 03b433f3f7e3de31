------------------------------ MODULE Launcher ------------------------------
(***************************************************************************)
(* scripts/start_component.py, the process every component of POLARIS runs *)
(* in: what is checked and built before the component starts, what the     *)
(* switches --validate-only, --dry-run and --health-check leave out, and   *)
(* how the process ends: by a signal of the operator, at any moment, by a  *)
(* check that fails, or with its component. "all" is the mode for the      *)
(* whole framework.                                                        *)
(*                                                                         *)
(* A check or a start may fail for reasons outside: keys, packages, ports, *)
(* NATS. What a component does once it is up is in the other modules.      *)
(***************************************************************************)
EXTENDS Naturals, Sequences

CONSTANTS
    Signals                    \* how often the operator sends SIGINT or SIGTERM

ASSUME LauncherAssumption == Signals \in Nat

Adapters == {"monitor", "execution", "verification"}
Components == Adapters \cup {"reasoner", "agentic-reasoner", "meta-learner", "kernel",
                             "knowledge-base", "digital-twin"}
Modes == {"run", "validate_only", "dry_run", "health_check"}

VARIABLES
    args,             \* the component, the switch it was called with, and what "all"
                      \* has still to validate
    at,               \* how far the procedure of the component has come
    loop,             \* the event loop: what a signal does (handler), stop_event, whether
                      \* the loop has turned since, whether a KeyboardInterrupt is coming
    up,               \* the component itself
    watch,            \* the task of --monitor-performance
    code,             \* how the process has ended
    signals           \* signals sent, and (history) whether one had an effect

vars == <<args, at, loop, up, watch, code, signals>>

-----------------------------------------------------------------------------
(* What is done for each component, in order                               *)

(* start_adapter                                                           *)
StartAdapter == <<"create", "validate", "handlers", "dry", "start", "serve">>

(* start_kernel                                                            *)
BugStartKernel == <<"validate", "handlers", "start", "wait">>
StartKernel == <<"validate", "dry", "handlers", "start", "wait">>

(* start_knowledge_base: it looks at no switch                             *)
StartKnowledgeBase == <<"handlers", "task", "serve">>

(* start_digital_twin                                                      *)
StartDigitalTwin ==
    <<"check", "validate", "create", "health", "dry", "handlers", "start", "serve">>

(* start_reasoner                                                          *)
StartReasoner == <<"validate", "dry", "key", "create", "handlers", "start", "serve">>

(* start_agentic_reasoner                                                  *)
StartAgenticReasoner ==
    <<"validate", "dry", "check", "create", "watch", "handlers", "start", "serve">>

(* start_meta_learner: it connects before its signal handlers are set      *)
StartMetaLearner == <<"validate", "dry", "prompts", "key", "start", "handlers", "serve">>

(* start_all_components: nothing is started                                *)
StartAll == <<"validate_all", "dry", "handlers", "serve">>

(* main_component_handler                                                  *)
Procedure(c) ==
    CASE c \in Adapters         -> StartAdapter
      [] c = "kernel"           -> StartKernel
      [] c = "knowledge-base"   -> StartKnowledgeBase
      [] c = "digital-twin"     -> StartDigitalTwin
      [] c = "reasoner"         -> StartReasoner
      [] c = "agentic-reasoner" -> StartAgenticReasoner
      [] c = "meta-learner"     -> StartMetaLearner
      [] c = "all"              -> StartAll

(* default_order, and what --exclude-components leaves of it: the first    *)
(* goes, or all of them stay                                               *)
DefaultOrder ==
    <<"knowledge-base", "digital-twin", "kernel", "monitor", "execution", "verification",
      "agentic-reasoner", "meta-learner">>
StartupOrder(excluded) == IF excluded = Head(DefaultOrder) THEN Tail(DefaultOrder) ELSE DefaultOrder

LauncherTypeOK ==
    /\ args.component \in Components \cup {"all"} /\ args.mode \in Modes
    /\ args.rest \in Seq(Components) /\ at \in 1..8
    /\ loop \in [handler : {"default", "loop", "plain", "stale"}, stop : BOOLEAN,
                 turned : BOOLEAN, interrupted : BOOLEAN]
    /\ up \in {"down", "starting", "up", "failed", "stopped"} /\ watch \in BOOLEAN
    /\ code \in {"none", "ok", "error", "killed"}
    /\ signals \in [sent : 0..Signals, heard : BOOLEAN]

(* main: --health-check is for the digital twin alone                      *)
Init ==
    /\ args \in [component : Components \cup {"all"}, mode : Modes, rest : {<<>>}]
    /\ args.mode = "health_check" => args.component = "digital-twin"
    /\ at = 1 /\ up = "down" /\ watch = FALSE /\ code = "none"
    /\ loop = [handler |-> "default", stop |-> FALSE, turned |-> FALSE, interrupted |-> FALSE]
    /\ signals = [sent |-> 0, heard |-> FALSE]

-----------------------------------------------------------------------------
Component == args.component
Running(stage) == code = "none" /\ Procedure(Component)[at] = stage

(* A coming interrupt is raised by the next await. start_kernel has none.  *)
Awaits == loop.interrupted => Component = "kernel"

Onward ==
    /\ at' = at + 1
    /\ UNCHANGED <<args, loop, up, watch, code, signals>>

Exit(c) ==
    /\ code' = c /\ watch' = FALSE
    /\ UNCHANGED <<args, at, loop, signals>>

(* "all" goes on with the next component, whose stop_event is a new one    *)
NextComponent ==
    /\ args' = [args EXCEPT !.component = Head(args.rest), !.rest = Tail(@)]
    /\ at' = 1
    /\ loop' = [loop EXCEPT !.handler = IF @ = "default" THEN @ ELSE "stale",
                            !.stop = FALSE, !.turned = FALSE]
    /\ UNCHANGED <<watch, code, signals>>

(* A procedure returns with the component as it then is                    *)
Return(state) ==
    IF args.rest = <<>> THEN Exit("ok") /\ up' = state
    ELSE NextComponent /\ up' = "down"

(* The switches                                                            *)
Validate ==
    /\ Running("validate")
    /\ IF args.mode = "validate_only" THEN Return(up) ELSE Onward

DryRun ==
    /\ Running("dry")
    /\ IF args.mode = "dry_run" THEN Return(up) ELSE Onward

(* What fails ends the process, and "all" with it: sys.exit, or an         *)
(* exception that nobody handles                                           *)
OnwardOrExit == Onward \/ (Exit("error") /\ UNCHANGED up)

(* get_api_key_for_component                                               *)
GetKey == Running("key") /\ OnwardOrExit

(* Keys, packages and ports                                                *)
CheckEnvironment == Running("check") /\ OnwardOrExit

(* The component's configuration and its constructor                       *)
Create == Running("create") /\ OnwardOrExit

(* A prompt file that is not there is logged, and the launcher returns     *)
FindPrompts ==
    /\ Running("prompts")
    /\ Onward \/ Return(up)

(* --monitor-performance                                                   *)
StartWatching ==
    /\ Running("watch") /\ at' = at + 1 /\ watch' \in BOOLEAN
    /\ UNCHANGED <<args, loop, up, code, signals>>

SetHandlers ==
    /\ Running("handlers") /\ at' = at + 1
    /\ loop' = [loop EXCEPT !.handler =
                   IF Component \in {"kernel", "knowledge-base"} THEN "plain" ELSE "loop"]
    /\ UNCHANGED <<args, up, watch, code, signals>>

(* start, connect, __aenter__, Popen: what fails ends the process          *)
BugStart ==
    /\ Running("start") /\ Awaits /\ up' \in {"up", "failed"}
    /\ at' = at + 1
    /\ UNCHANGED <<args, loop, watch, code, signals>>
Start ==
    /\ Running("start") /\ Awaits
    /\ \/ /\ at' = at + 1 /\ up' = "up"
          /\ UNCHANGED <<args, loop, watch, code, signals>>
       \/ Exit("error") /\ up' = "failed"

(* service.start() in a task of its own: nobody waits for what it brings   *)
StartTask ==
    /\ Running("task") /\ at' = at + 1 /\ up' = "starting"
    /\ UNCHANGED <<args, loop, watch, code, signals>>

TaskStarts ==
    /\ code = "none" /\ up = "starting" /\ up' \in {"up", "failed"}
    /\ loop' = [loop EXCEPT !.turned = loop.stop]
    /\ UNCHANGED <<args, at, watch, code, signals>>

(* --health-check starts the agent, asks it and stops it again             *)
CheckHealth ==
    /\ Running("health")
    /\ IF args.mode = "health_check"
       THEN Awaits /\ \/ Exit("ok") /\ up' = "stopped"
                      \/ Exit("error") /\ up' \in {"stopped", "failed"}
       ELSE Onward

(* "all --validate-only"                                                   *)
ValidateAll ==
    /\ Running("validate_all")
    /\ IF args.mode = "validate_only"
       THEN \E excluded \in {"nothing", Head(DefaultOrder)} :
               LET order == StartupOrder(excluded)
               IN  /\ args' = [args EXCEPT !.component = Head(order), !.rest = Tail(order)]
                   /\ UNCHANGED <<at, loop, up, watch, code, signals>>
       ELSE Onward

-----------------------------------------------------------------------------
(* stop_event.wait() and what follows it. The set() of a plain handler     *)
(* does not wake the event loop: it is noticed when the loop next turns,   *)
(* and after a service that did not start nothing makes it turn. What such *)
(* a service raises is then raised here; "all --validate-only" logs it.    *)
Deaf == loop.handler = "plain" /\ up = "failed" /\ ~loop.turned

Shutdown ==
    /\ Running("serve") /\ loop.stop /\ Awaits /\ ~Deaf
    /\ IF up = "failed" /\ args.rest = <<>> THEN Exit("error") /\ UNCHANGED up
       ELSE Return(IF up = "down" THEN up ELSE "stopped")

(* kernel_process.wait(): the kernel leaves with 0 in no case              *)
KernelEnds ==
    /\ code = "none" /\ Component = "kernel" /\ up = "up" /\ up' = "failed"
    /\ UNCHANGED <<args, at, loop, watch, code, signals>>

WaitForKernel ==
    /\ Running("wait") /\ up # "up"
    /\ Exit("error") /\ UNCHANGED up

(* The interrupt goes through the finally blocks and is swallowed          *)
Unwind ==
    /\ code = "none" /\ loop.interrupted
    /\ ~(Component = "kernel" /\ loop.handler = "plain")
    /\ Exit("ok") /\ up' = IF up \in {"starting", "up"} THEN "stopped" ELSE up

(* signal_handler                                                          *)
Handle(sig) ==
    CASE loop.handler = "default" /\ sig = "INT" ->
            loop' = [loop EXCEPT !.interrupted = TRUE] /\ UNCHANGED <<up, watch, code>>
      [] loop.handler = "default" /\ sig = "TERM" ->
            code' = "killed" /\ watch' = FALSE /\ UNCHANGED <<loop, up>>
      [] loop.handler # "default" /\ Component = "kernel" ->
            up' = (IF up = "up" THEN "stopped" ELSE up) /\ UNCHANGED <<loop, watch, code>>
      [] loop.handler # "default" /\ Component # "kernel" ->
            loop' = [loop EXCEPT !.stop = (@ \/ loop.handler # "stale")]
            /\ UNCHANGED <<up, watch, code>>

(* The operator sends a signal, at any moment                              *)
Signal ==
    /\ code = "none" /\ signals.sent < Signals
    /\ \E sig \in {"INT", "TERM"} : Handle(sig)
    /\ signals' = [sent |-> signals.sent + 1,
                   heard |-> signals.heard \/ <<loop, up, code>>' # <<loop, up, code>>]
    /\ UNCHANGED <<args, at>>

Work ==
    \/ Validate \/ DryRun \/ GetKey \/ CheckEnvironment \/ Create \/ FindPrompts
    \/ StartWatching \/ SetHandlers \/ Start \/ StartTask \/ TaskStarts \/ CheckHealth \/ ValidateAll \/ Shutdown
    \/ WaitForKernel \/ Unwind

Next == Work \/ KernelEnds \/ Signal

(* Python and the event loop go on as long as they have something to do    *)
LaunchSpec == Init /\ [][Next]_vars /\ WF_vars(Work)

-----------------------------------------------------------------------------
(* Properties                                                              *)

(* The switches that are there to look and not to start start nothing      *)
(* ("Only validate configuration and exit", line 246); the knowledge base, *)
(* which does not know them (line 639), is the exception. A process        *)
(* that ended leaves no task of its own. It ends with 0 only when it was   *)
(* asked to end, or had nothing to start, and then its component has been  *)
(* stopped: whoever supervises these processes can rely on the code.       *)
(* (start_component.py, every start_ function)                             *)
StartsOnlyWhatItShould ==
    args.mode \in {"validate_only", "dry_run"} /\ Component # "knowledge-base" => up = "down"
CodeTellsTheTruth ==
    code = "ok" =>
        /\ up \in {"down", "stopped"} \/ loop.interrupted
        /\ args.mode = "run" => signals.heard \/ (Component = "meta-learner" /\ up = "down")
LauncherInv ==
    /\ LauncherTypeOK /\ StartsOnlyWhatItShould /\ CodeTellsTheTruth
    /\ code # "none" => ~watch

(* What the process owes an end to, and the end.                           *)
Ended == code # "none"
MustEnd ==
    \/ loop.stop /\ ~Deaf
    \/ loop.interrupted /\ Component # "kernel"
    \/ Component = "kernel" /\ up \in {"stopped", "failed"}
    \/ Component # "knowledge-base" /\ up = "failed"

(* A signal that was noticed ends the process, whatever it was doing, and  *)
(* so does a component that could not start. Two gaps remain: a signal     *)
(* before the kernel's process exists is forgotten, and a knowledge base   *)
(* that could not start leaves a process that no signal reaches.           *)
(* (start_component.py signal_handler, stop_event)                         *)
StopsWhenAsked == MustEnd ~> Ended
=============================================================================
