--------------------------- MODULE WorldModelsProofs ---------------------------
(***************************************************************************)
(* For any number of signals, requests, metrics and values: a process that *)
(* is only to look starts nothing, and the code it ends with is true; the  *)
(* twin it runs serves the model its files name; what the                  *)
(* Bayesian model learned and claims agrees with the values it has; and    *)
(* Gemini's permits are accounted for and its conversation is in order.    *)
(*                                                                         *)
(* One part each for the launcher, Gemini, the Bayesian model, and the     *)
(* process that holds them: each has an inductive invariant of its own.    *)
(***************************************************************************)
EXTENDS WorldModels, SequenceTheorems, FiniteSetTheorems, FunctionTheorems, TLAPS

-----------------------------------------------------------------------------
(* The launcher: what its procedures have in common                        *)

Named == Components \cup {"all"}

(* What comes after a stage and before it                                  *)
LEMMA ProcedureFacts ==
    ASSUME NEW c \in Named, NEW i \in 1..Len(Procedure(c))
    PROVE  LET p == Procedure(c)
           IN  /\ Len(p) \in 1..8
               /\ p[i] \notin {"serve", "wait"} => i + 1 \in 1..Len(p)
               /\ p[i] = "start" => /\ \E j \in 1..(i - 1) : p[j] = "validate"
                                    /\ \E j \in 1..(i - 1) : p[j] = "dry"
               /\ p[i] \in {"validate", "dry", "prompts", "validate_all"} =>
                      \A j \in 1..(i - 1) : p[j] \notin {"start", "task"}
               /\ p[i] = "task" => c = "knowledge-base"
               /\ p[i] = "prompts" => c = "meta-learner"
               /\ p[i] = "validate_all" => i = 1
<1>1. CASE c \in Adapters
  <2>1. Procedure(c) = StartAdapter BY <1>1 DEF Procedure, Adapters
  <2> QED BY <1>1, <2>1 DEF StartAdapter, Adapters
<1>2. CASE c = "kernel" BY <1>2 DEF Procedure, StartKernel, Adapters
<1>3. CASE c = "knowledge-base" BY <1>3 DEF Procedure, StartKnowledgeBase, Adapters
<1>4. CASE c = "digital-twin" BY <1>4 DEF Procedure, StartDigitalTwin, Adapters
<1>5. CASE c = "reasoner" BY <1>5 DEF Procedure, StartReasoner, Adapters
<1>6. CASE c = "agentic-reasoner" BY <1>6 DEF Procedure, StartAgenticReasoner, Adapters
<1>7. CASE c = "meta-learner" BY <1>7 DEF Procedure, StartMetaLearner, Adapters
<1>8. CASE c = "all" BY <1>8 DEF Procedure, StartAll, Adapters
<1> QED BY <1>1, <1>2, <1>3, <1>4, <1>5, <1>6, <1>7, <1>8 DEF Named, Components

-----------------------------------------------------------------------------
(* Its inductive invariant: with --validate-only or --dry-run a procedure  *)
(* never gets past that stage, and every procedure has both before it      *)
(* starts its component; only what was started is not down; and what a     *)
(* signal leaves behind was a signal.                                      *)

Passed(stage) == \E j \in 1..(at - 1) : Procedure(Component)[j] = stage

LaunchTypes ==
    /\ args \in [component : Named, mode : Modes, rest : Seq(Components)]
    /\ at \in 1..Len(Procedure(Component))
    /\ loop \in [handler : {"default", "loop", "plain", "stale"}, stop : BOOLEAN,
                 turned : BOOLEAN, interrupted : BOOLEAN]
    /\ up \in {"down", "starting", "up", "failed", "stopped"} /\ watch \in BOOLEAN
    /\ code \in {"none", "ok", "error", "killed"}
    /\ signals \in [sent : 0..Signals, heard : BOOLEAN]

Switches ==
    /\ args.mode = "validate_only" => ~Passed("validate")
    /\ args.mode = "dry_run" => ~Passed("dry")

Begun == up # "down" /\ code = "none" => Passed("start") \/ Passed("task")
Heard == loop.stop \/ loop.interrupted => signals.heard
Watched == code # "none" => ~watch

LaunchIndInv ==
    /\ LaunchTypes /\ Switches /\ Begun /\ Heard /\ Watched
    /\ StartsOnlyWhatItShould /\ CodeTellsTheTruth

LEMMA LaunchIndImplies == LaunchIndInv => LauncherInv
<1> SUFFICES ASSUME LaunchIndInv PROVE LauncherInv OBVIOUS
<1>1. LaunchTypes BY DEF LaunchIndInv
<1>2. args.component \in Named /\ at \in 1..Len(Procedure(args.component))
  BY <1>1 DEF LaunchTypes, Component
<1>3. at \in 1..8
  <2>1. PICK c : c = args.component OBVIOUS
  <2>2. PICK i : i = at OBVIOUS
  <2>3. c \in Named /\ i \in 1..Len(Procedure(c)) BY <1>2, <2>1, <2>2
  <2>4. PICK n : n = Len(Procedure(c)) OBVIOUS
  <2>5. n \in 1..8 BY <2>3, <2>4, ProcedureFacts
  <2> QED BY <2>2, <2>3, <2>4, <2>5
<1>4. LauncherTypeOK BY <1>1, <1>3 DEF LaunchTypes, LauncherTypeOK, Named
<1> QED BY <1>4 DEF LaunchIndInv, LauncherInv, Watched

LEMMA LaunchInitInd == Init => LaunchIndInv
<1> SUFFICES ASSUME Init PROVE LaunchIndInv OBVIOUS
<1>1. /\ args \in [component : Named, mode : Modes, rest : {<<>>}] /\ at = 1 /\ up = "down" /\ code = "none"
      /\ watch = FALSE /\ signals = [sent |-> 0, heard |-> FALSE]
      /\ loop = [handler |-> "default", stop |-> FALSE, turned |-> FALSE, interrupted |-> FALSE]
  BY DEF Init, Named
<1>2. args \in [component : Named, mode : Modes, rest : Seq(Components)]
  <2>1. <<>> \in Seq(Components) OBVIOUS
  <2> QED BY <1>1, <2>1
<1>3. Len(Procedure(Component)) \in Nat /\ Len(Procedure(Component)) >= 1
  BY <1>2 DEF Component, Procedure, StartAdapter, StartKernel, StartKnowledgeBase, StartDigitalTwin, StartReasoner,
              StartAgenticReasoner, StartMetaLearner, StartAll, Named, Components
<1>4. at \in 1..Len(Procedure(Component)) BY <1>1, <1>3
<1>5. LaunchTypes
  <2>1. signals \in [sent : 0..Signals, heard : BOOLEAN] BY <1>1, LauncherAssumption
  <2>2. loop \in [handler : {"default", "loop", "plain", "stale"}, stop : BOOLEAN,
                 turned : BOOLEAN, interrupted : BOOLEAN]
    BY <1>1
  <2> QED BY <1>1, <1>2, <1>4, <2>1, <2>2 DEF LaunchTypes
<1>6. \A stage : ~Passed(stage) BY <1>1 DEF Passed
<1> QED BY <1>1, <1>5, <1>6 DEF LaunchIndInv, Switches, Begun, Heard, Watched,
          StartsOnlyWhatItShould, CodeTellsTheTruth

-----------------------------------------------------------------------------
(* The launcher: how a stage ends                                          *)

LEMMA StageFacts ==
    ASSUME LaunchTypes, NEW stage, Running(stage)
    PROVE  /\ code = "none" /\ at \in Nat /\ Component \in Named
           /\ stage \notin {"serve", "wait"} => at + 1 \in 1..Len(Procedure(Component))
           /\ stage = "start" => Passed("validate") /\ Passed("dry")
           /\ stage \in {"validate", "dry", "prompts", "validate_all"} => ~Passed("start") /\ ~Passed("task")
           /\ stage = "task" => Component = "knowledge-base"
           /\ stage = "prompts" => Component = "meta-learner"
           /\ stage = "validate_all" => at = 1
<1>1. /\ code = "none" /\ Procedure(Component)[at] = stage
      /\ Component \in Named /\ at \in 1..Len(Procedure(Component))
  BY DEF Running, LaunchTypes, Component
<1>2. PICK c : c = Component OBVIOUS
<1>3. PICK i : i = at OBVIOUS
<1>4. c \in Named /\ i \in 1..Len(Procedure(c)) /\ Procedure(c)[i] = stage BY <1>1, <1>2, <1>3
<1>5. Passed("start") <=> \E j \in 1..(i - 1) : Procedure(c)[j] = "start" BY <1>2, <1>3 DEF Passed
<1>6. Passed("task") <=> \E j \in 1..(i - 1) : Procedure(c)[j] = "task" BY <1>2, <1>3 DEF Passed
<1>7. Passed("validate") <=> \E j \in 1..(i - 1) : Procedure(c)[j] = "validate" BY <1>2, <1>3 DEF Passed
<1>8. Passed("dry") <=> \E j \in 1..(i - 1) : Procedure(c)[j] = "dry" BY <1>2, <1>3 DEF Passed
<1>9. /\ Len(Procedure(c)) \in 1..8
      /\ stage \notin {"serve", "wait"} => i + 1 \in 1..Len(Procedure(c))
      /\ stage = "start" => /\ \E j \in 1..(i - 1) : Procedure(c)[j] = "validate"
                            /\ \E j \in 1..(i - 1) : Procedure(c)[j] = "dry"
      /\ stage \in {"validate", "dry", "prompts", "validate_all"} =>
             \A j \in 1..(i - 1) : Procedure(c)[j] \notin {"start", "task"}
      /\ stage = "task" => c = "knowledge-base"
      /\ stage = "prompts" => c = "meta-learner"
      /\ stage = "validate_all" => i = 1
  BY <1>4, ProcedureFacts
<1>10. i \in Nat BY <1>4, <1>9
<1> QED BY <1>1, <1>2, <1>3, <1>5, <1>6, <1>7, <1>8, <1>9, <1>10

LEMMA PassedNext ==
    ASSUME at \in Nat, at' = at + 1, args' = args, NEW stage
    PROVE  Passed(stage)' <=> (Passed(stage) \/ (at >= 1 /\ Procedure(Component)[at] = stage))
<1>1. Passed(stage)' <=> \E j \in 1..at : Procedure(Component)[j] = stage
  <2>1. at' - 1 = at OBVIOUS
  <2>2. Procedure(Component)' = Procedure(Component) BY DEF Component, Procedure
  <2>3. Passed(stage)' <=> \E j \in 1..(at' - 1) : Procedure(Component)[j] = stage BY <2>2 DEF Passed
  <2> QED BY <2>1, <2>3
<1>2. 1..at = 1..(at - 1) \cup {j \in {at} : at >= 1} OBVIOUS
<1> QED BY <1>1, <1>2 DEF Passed

(* On to the next stage, with what of the rest may change                  *)
LEMMA AdvanceInd ==
    ASSUME LaunchIndInv, NEW stage, Running(stage), stage \notin {"serve", "wait"},
           stage = "validate" => args.mode # "validate_only", stage = "dry" => args.mode # "dry_run",
           at' = at + 1, UNCHANGED <<args, code, signals>>,
           loop' \in [handler : {"default", "loop", "plain", "stale"}, stop : {loop.stop},
                      turned : BOOLEAN, interrupted : {loop.interrupted}],
           watch' \in BOOLEAN,
           \/ up' = up
           \/ stage = "start" /\ up' = "up"
           \/ stage = "task" /\ up' = "starting"
    PROVE  LaunchIndInv'
<1>1. LaunchTypes /\ Switches /\ Begun /\ Heard /\ StartsOnlyWhatItShould BY DEF LaunchIndInv
<1>2. /\ code = "none" /\ at \in Nat /\ at + 1 \in 1..Len(Procedure(Component))
      /\ stage = "start" => Passed("validate") /\ Passed("dry")
      /\ stage = "task" => Component = "knowledge-base"
  BY <1>1, StageFacts
<1>3. Procedure(Component)[at] = stage /\ at >= 1 BY <1>1 DEF Running, LaunchTypes
<1>4. \A s : Passed(s)' <=> (Passed(s) \/ s = stage) BY <1>2, <1>3, PassedNext
<1>5. Component' = Component /\ Procedure(Component)' = Procedure(Component) BY DEF Component, Procedure
<1>6. loop.stop \in BOOLEAN /\ loop.interrupted \in BOOLEAN BY <1>1 DEF LaunchTypes
<1>7. LaunchTypes' BY <1>1, <1>2, <1>5, <1>6 DEF LaunchTypes
<1>8. Switches' BY <1>1, <1>4 DEF Switches
<1>9. Begun' BY <1>1, <1>2, <1>4 DEF Begun
<1>10. Heard' BY <1>1 DEF Heard
<1>11. StartsOnlyWhatItShould'
  <2>1. args.mode \in {"validate_only", "dry_run"} => stage # "start" BY <1>1, <1>2 DEF Switches
  <2> QED BY <1>1, <1>2, <1>5, <2>1 DEF StartsOnlyWhatItShould
<1> QED BY <1>2, <1>7, <1>8, <1>9, <1>10, <1>11 DEF LaunchIndInv, Watched, CodeTellsTheTruth

LEMMA OnwardInd ==
    ASSUME LaunchIndInv, NEW stage, Running(stage), stage \notin {"serve", "wait"},
           stage = "validate" => args.mode # "validate_only", stage = "dry" => args.mode # "dry_run",
           Onward
    PROVE  LaunchIndInv'
<1>1. LaunchTypes BY DEF LaunchIndInv
<1>2. at' = at + 1 /\ UNCHANGED <<args, loop, up, watch, code, signals>> BY DEF Onward
<1>3. loop' \in [handler : {"default", "loop", "plain", "stale"}, stop : {loop.stop},
                 turned : BOOLEAN, interrupted : {loop.interrupted}]
  BY <1>1, <1>2 DEF LaunchTypes
<1>4. watch' \in BOOLEAN BY <1>1, <1>2 DEF LaunchTypes
<1> QED BY <1>2, <1>3, <1>4, AdvanceInd

(* The process ends.                                                       *)
LEMMA ExitInd ==
    ASSUME LaunchIndInv, NEW c \in {"ok", "error"}, Exit(c),
           up' \in {"down", "starting", "up", "failed", "stopped"}, StartsOnlyWhatItShould',
           c = "ok" => /\ up' \in {"down", "stopped"} \/ loop.interrupted
                       /\ args.mode = "run" =>
                              signals.heard \/ (Component = "meta-learner" /\ up' = "down")
    PROVE  LaunchIndInv'
<1>1. LaunchTypes /\ Switches /\ Heard BY DEF LaunchIndInv
<1>2. code' = c /\ watch' = FALSE /\ UNCHANGED <<args, at, loop, signals>> BY DEF Exit
<1>3. Component' = Component /\ Procedure(Component)' = Procedure(Component) BY <1>2 DEF Component, Procedure
<1>4. LaunchTypes' BY <1>1, <1>2, <1>3 DEF LaunchTypes
<1>5. \A s : Passed(s)' <=> Passed(s) BY <1>2, <1>3 DEF Passed
<1>6. Switches' /\ Heard' BY <1>1, <1>2, <1>5 DEF Switches, Heard
<1>7. Begun' /\ Watched' BY <1>2 DEF Begun, Watched
<1>8. CodeTellsTheTruth' BY <1>2, <1>3 DEF CodeTellsTheTruth
<1> QED BY <1>4, <1>6, <1>7, <1>8 DEF LaunchIndInv

(* A procedure returns, to the end or to the next component.               *)
LEMMA ReturnInd ==
    ASSUME LaunchIndInv, code = "none", NEW state \in {"down", "stopped"}, Return(state),
           state # "down" => up # "down",
           args.mode = "run" => signals.heard \/ (Component = "meta-learner" /\ state = "down")
    PROVE  LaunchIndInv'
<1>1. LaunchTypes /\ Switches /\ Heard /\ Watched /\ StartsOnlyWhatItShould BY DEF LaunchIndInv
<1>2. CASE args.rest = <<>>
  <2>1. Exit("ok") /\ up' = state BY <1>2 DEF Return
  <2>2. args' = args BY <2>1 DEF Exit
  <2>3. StartsOnlyWhatItShould' BY <1>1, <2>1, <2>2 DEF StartsOnlyWhatItShould, Component
  <2> QED BY <2>1, <2>3, ExitInd
<1>3. CASE args.rest # <<>>
  <2>1. NextComponent /\ up' = "down" BY <1>3 DEF Return
  <2>2. /\ args' = [args EXCEPT !.component = Head(args.rest), !.rest = Tail(args.rest)]
        /\ at' = 1 /\ UNCHANGED <<watch, code, signals>>
        /\ loop' = [loop EXCEPT !.handler = IF loop.handler = "default" THEN loop.handler ELSE "stale",
                                !.stop = FALSE, !.turned = FALSE]
    BY <2>1 DEF NextComponent
  <2>3. args.rest \in Seq(Components) BY <1>1 DEF LaunchTypes
  <2>4. Head(args.rest) \in Components /\ Tail(args.rest) \in Seq(Components)
    BY <1>3, <2>3, HeadTailProperties
  <2>5. args' \in [component : Named, mode : Modes, rest : Seq(Components)]
    BY <1>1, <2>2, <2>4 DEF LaunchTypes, Named
  <2>6. Component' \in Named BY <2>5 DEF Component
  <2>7. 1 \in 1..Len(Procedure(Component'))
    BY <2>6 DEF Procedure, StartAdapter, StartKernel, StartKnowledgeBase, StartDigitalTwin, StartReasoner,
              StartAgenticReasoner, StartMetaLearner, StartAll, Named, Components
  <2>8. LaunchTypes' BY <1>1, <2>1, <2>2, <2>5, <2>7 DEF LaunchTypes
  <2>9. \A s : ~Passed(s)' BY <2>2 DEF Passed
  <2>10. Heard' BY <1>1, <2>2 DEF Heard, LaunchTypes
  <2> QED BY <1>1, <2>1, <2>2, <2>8, <2>9, <2>10
          DEF LaunchIndInv, Switches, Begun, Watched, StartsOnlyWhatItShould, CodeTellsTheTruth
<1> QED BY <1>2, <1>3

-----------------------------------------------------------------------------
(* The launcher: every step keeps the inductive invariant.                 *)

LEMMA SwitchesInd == ASSUME LaunchIndInv, Validate \/ DryRun PROVE LaunchIndInv'
<1>1. LaunchTypes /\ Begun /\ StartsOnlyWhatItShould BY DEF LaunchIndInv
<1>2. ASSUME NEW stage \in {"validate", "dry"}, Running(stage)
      PROVE  up = "down" /\ code = "none"
  BY <1>1, <1>2, StageFacts DEF Begun
<1>3. CASE Validate
  <2>1. Running("validate") BY <1>3 DEF Validate
  <2>2. CASE args.mode = "validate_only"
    <3>1. Return(up) /\ up = "down" /\ code = "none" BY <1>2, <1>3, <2>1, <2>2 DEF Validate
    <3> QED BY <2>2, <3>1, ReturnInd
  <2>3. CASE args.mode # "validate_only" BY <1>3, <2>1, <2>3, OnwardInd DEF Validate
  <2> QED BY <2>2, <2>3
<1>4. CASE DryRun
  <2>1. Running("dry") BY <1>4 DEF DryRun
  <2>2. CASE args.mode = "dry_run"
    <3>1. Return(up) /\ up = "down" /\ code = "none" BY <1>2, <1>4, <2>1, <2>2 DEF DryRun
    <3> QED BY <2>2, <3>1, ReturnInd
  <2>3. CASE args.mode # "dry_run" BY <1>4, <2>1, <2>3, OnwardInd DEF DryRun
  <2> QED BY <2>2, <2>3
<1> QED BY <1>3, <1>4

LEMMA ChecksInd ==
    ASSUME LaunchIndInv, GetKey \/ CheckEnvironment \/ Create PROVE LaunchIndInv'
<1>1. PICK stage \in {"key", "check", "create"} : Running(stage) /\ OnwardOrExit
  BY DEF GetKey, CheckEnvironment, Create
<1>2. CASE Onward BY <1>1, <1>2, OnwardInd
<1>3. CASE Exit("error") /\ UNCHANGED up
  <2>1. StartsOnlyWhatItShould' BY <1>3 DEF LaunchIndInv, StartsOnlyWhatItShould, Exit, Component
  <2> QED BY <1>3, <2>1, ExitInd DEF LaunchIndInv, LaunchTypes
<1> QED BY <1>1, <1>2, <1>3 DEF OnwardOrExit

LEMMA FindPromptsInd == ASSUME LaunchIndInv, FindPrompts PROVE LaunchIndInv'
<1>1. LaunchTypes /\ Begun /\ Running("prompts") BY DEF LaunchIndInv, FindPrompts
<1>2. CASE Onward BY <1>1, <1>2, OnwardInd
<1>3. CASE Return(up)
  <2>1. up = "down" /\ code = "none" /\ Component = "meta-learner" BY <1>1, StageFacts DEF Begun
  <2> QED BY <1>3, <2>1, ReturnInd
<1> QED BY <1>2, <1>3 DEF FindPrompts

LEMMA StepsOnInd ==
    ASSUME LaunchIndInv, StartWatching \/ SetHandlers \/ StartTask PROVE LaunchIndInv'
<1>1. LaunchTypes BY DEF LaunchIndInv
<1>2. CASE StartWatching
  <2>1. Running("watch") /\ at' = at + 1 /\ watch' \in BOOLEAN /\ UNCHANGED <<args, loop, up, code, signals>>
    BY <1>2 DEF StartWatching
  <2>2. loop' \in [handler : {"default", "loop", "plain", "stale"}, stop : {loop.stop},
                   turned : BOOLEAN, interrupted : {loop.interrupted}]
    BY <1>1, <2>1 DEF LaunchTypes
  <2> QED BY <2>1, <2>2, AdvanceInd
<1>3. CASE SetHandlers
  <2>1. Running("handlers") /\ at' = at + 1 /\ UNCHANGED <<args, up, watch, code, signals>>
    BY <1>3 DEF SetHandlers
  <2>2. PICK h \in {"plain", "loop"} : loop' = [loop EXCEPT !.handler = h] BY <1>3 DEF SetHandlers
  <2>3. loop' \in [handler : {"default", "loop", "plain", "stale"}, stop : {loop.stop},
                   turned : BOOLEAN, interrupted : {loop.interrupted}]
    BY <1>1, <2>2 DEF LaunchTypes
  <2>4. watch' \in BOOLEAN BY <1>1, <2>1 DEF LaunchTypes
  <2> QED BY <2>1, <2>3, <2>4, AdvanceInd
<1>4. CASE StartTask
  <2>1. Running("task") /\ at' = at + 1 /\ up' = "starting" /\ UNCHANGED <<args, loop, watch, code, signals>>
    BY <1>4 DEF StartTask
  <2>2. loop' \in [handler : {"default", "loop", "plain", "stale"}, stop : {loop.stop},
                   turned : BOOLEAN, interrupted : {loop.interrupted}]
    BY <1>1, <2>1 DEF LaunchTypes
  <2>3. watch' \in BOOLEAN BY <1>1, <2>1 DEF LaunchTypes
  <2> QED BY <2>1, <2>2, <2>3, AdvanceInd
<1> QED BY <1>2, <1>3, <1>4

LEMMA StartInd == ASSUME LaunchIndInv, Start PROVE LaunchIndInv'
<1>1. LaunchTypes /\ Switches /\ Running("start") BY DEF LaunchIndInv, Start
<1>2. CASE at' = at + 1 /\ up' = "up" /\ UNCHANGED <<args, loop, watch, code, signals>>
  <2>1. loop' \in [handler : {"default", "loop", "plain", "stale"}, stop : {loop.stop},
                   turned : BOOLEAN, interrupted : {loop.interrupted}]
    BY <1>1, <1>2 DEF LaunchTypes
  <2>2. watch' \in BOOLEAN BY <1>1, <1>2 DEF LaunchTypes
  <2> QED BY <1>1, <1>2, <2>1, <2>2, AdvanceInd
<1>3. CASE Exit("error") /\ up' = "failed"
  <2>1. args.mode \notin {"validate_only", "dry_run"} BY <1>1, StageFacts DEF Switches
  <2>2. StartsOnlyWhatItShould' BY <1>3, <2>1 DEF StartsOnlyWhatItShould, Exit
  <2> QED BY <1>3, <2>2, ExitInd
<1> QED BY <1>2, <1>3 DEF Start

LEMMA CheckHealthInd == ASSUME LaunchIndInv, CheckHealth PROVE LaunchIndInv'
<1>1. Running("health") BY DEF CheckHealth
<1>2. CASE args.mode = "health_check"
  <2>1. /\ Exit("ok") \/ Exit("error")
        /\ up' \in {"stopped", "failed"}
        /\ Exit("ok") => up' = "stopped"
    BY <1>2 DEF CheckHealth, Exit
  <2>2. StartsOnlyWhatItShould' BY <1>2, <2>1 DEF StartsOnlyWhatItShould, Exit
  <2>3. CASE Exit("ok") BY <1>2, <2>1, <2>2, <2>3, ExitInd
  <2>4. CASE Exit("error") BY <1>2, <2>1, <2>2, <2>4, ExitInd
  <2> QED BY <2>1, <2>3, <2>4
<1>3. CASE args.mode # "health_check" BY <1>1, <1>3, OnwardInd DEF CheckHealth
<1> QED BY <1>2, <1>3

LEMMA ValidateAllInd == ASSUME LaunchIndInv, ValidateAll PROVE LaunchIndInv'
<1>1. LaunchTypes /\ Begun /\ Heard /\ Watched /\ Running("validate_all") BY DEF LaunchIndInv, ValidateAll
<1>2. CASE args.mode = "validate_only"
  <2>1. PICK order \in {StartupOrder("nothing"), StartupOrder(Head(DefaultOrder))} :
               /\ args' = [args EXCEPT !.component = Head(order), !.rest = Tail(order)]
               /\ UNCHANGED <<at, loop, up, watch, code, signals>>
    BY <1>2 DEF ValidateAll
  <2>2. order \in Seq(Components) /\ order # <<>>
    <3>1. DefaultOrder \in Seq(Components) BY DEF DefaultOrder, Components, Adapters
    <3>2. Tail(DefaultOrder) \in Seq(Components) /\ Tail(DefaultOrder) # <<>> /\ DefaultOrder # <<>>
      BY <3>1 DEF DefaultOrder
    <3> QED BY <2>1, <3>1, <3>2 DEF StartupOrder
  <2>3. Head(order) \in Components /\ Tail(order) \in Seq(Components) BY <2>2, HeadTailProperties
  <2>4. args' \in [component : Named, mode : Modes, rest : Seq(Components)]
    BY <1>1, <2>1, <2>3 DEF LaunchTypes, Named
  <2>5. at = 1 /\ up = "down" /\ code = "none" BY <1>1, StageFacts DEF Begun
  <2>6. Component' \in Named BY <2>4 DEF Component
  <2>7. 1 \in 1..Len(Procedure(Component'))
    BY <2>6 DEF Procedure, StartAdapter, StartKernel, StartKnowledgeBase, StartDigitalTwin, StartReasoner,
              StartAgenticReasoner, StartMetaLearner, StartAll, Named, Components
  <2>8. LaunchTypes' BY <1>1, <2>1, <2>4, <2>5, <2>7 DEF LaunchTypes
  <2>9. \A s : ~Passed(s)' BY <2>1, <2>5 DEF Passed
  <2>10. Heard' /\ Watched' BY <1>1, <2>1 DEF Heard, Watched
  <2> QED BY <2>1, <2>5, <2>8, <2>9, <2>10
          DEF LaunchIndInv, Switches, Begun, StartsOnlyWhatItShould, CodeTellsTheTruth
<1>3. CASE args.mode # "validate_only" BY <1>1, <1>3, OnwardInd DEF ValidateAll
<1> QED BY <1>2, <1>3

LEMMA ShutdownInd == ASSUME LaunchIndInv, Shutdown PROVE LaunchIndInv'
<1>1. LaunchTypes /\ Heard /\ Begun /\ Running("serve") BY DEF LaunchIndInv, Shutdown
<1>2. signals.heard /\ code = "none" BY <1>1 DEF Shutdown, Heard, Running
<1>3. CASE up = "failed" /\ args.rest = <<>>
  <2>1. Exit("error") /\ UNCHANGED up BY <1>3 DEF Shutdown
  <2>2. StartsOnlyWhatItShould' BY <2>1 DEF LaunchIndInv, StartsOnlyWhatItShould, Exit, Component
  <2> QED BY <1>1, <2>1, <2>2, ExitInd DEF LaunchTypes
<1>4. CASE ~(up = "failed" /\ args.rest = <<>>)
  <2>1. PICK state \in {"down", "stopped"} : Return(state) /\ (state # "down" => up # "down")
    BY <1>4 DEF Shutdown
  <2> QED BY <1>2, <2>1, ReturnInd
<1> QED BY <1>3, <1>4

LEMMA WaitForKernelInd == ASSUME LaunchIndInv, WaitForKernel PROVE LaunchIndInv'
<1>1. Exit("error") /\ UNCHANGED up BY DEF WaitForKernel
<1>2. StartsOnlyWhatItShould' BY <1>1 DEF LaunchIndInv, StartsOnlyWhatItShould, Exit, Component
<1> QED BY <1>1, <1>2, ExitInd DEF LaunchIndInv, LaunchTypes

LEMMA UnwindInd == ASSUME LaunchIndInv, Unwind PROVE LaunchIndInv'
<1>1. LaunchTypes /\ Heard /\ StartsOnlyWhatItShould BY DEF LaunchIndInv
<1>2. /\ loop.interrupted /\ signals.heard /\ Exit("ok")
      /\ up' = IF up \in {"starting", "up"} THEN "stopped" ELSE up
  BY <1>1 DEF Unwind, Heard
<1>3. StartsOnlyWhatItShould' BY <1>1, <1>2 DEF StartsOnlyWhatItShould, Exit, Component
<1>4. up' \in {"down", "starting", "up", "failed", "stopped"} BY <1>1, <1>2 DEF LaunchTypes
<1> QED BY <1>2, <1>3, <1>4, ExitInd

(* What happens to a component that is up, or coming up                    *)
LEMMA ComponentInd ==
    ASSUME LaunchIndInv, code = "none", UNCHANGED <<args, at>>,
           code' \in {"none", "error", "killed"}, watch' \in BOOLEAN, Watched', LaunchTypes', Heard',
           up = "down" => up' = "down"
    PROVE  LaunchIndInv'
<1>1. Component' = Component /\ Procedure(Component)' = Procedure(Component) BY DEF Component, Procedure
<1>2. \A s : Passed(s)' <=> Passed(s) BY <1>1 DEF Passed
<1>3. Switches' /\ Begun' BY <1>2 DEF LaunchIndInv, Switches, Begun
<1>4. StartsOnlyWhatItShould' BY <1>1 DEF LaunchIndInv, StartsOnlyWhatItShould
<1>5. CodeTellsTheTruth' BY DEF CodeTellsTheTruth
<1> QED BY <1>3, <1>4, <1>5 DEF LaunchIndInv

LEMMA TaskStartsInd == ASSUME LaunchIndInv, TaskStarts PROVE LaunchIndInv'
<1>1. LaunchTypes /\ Heard /\ Watched BY DEF LaunchIndInv
<1>2. /\ code = "none" /\ up = "starting" /\ up' \in {"up", "failed"} /\ loop' = [loop EXCEPT !.turned = loop.stop]
      /\ UNCHANGED <<args, at, watch, code, signals>>
  BY DEF TaskStarts
<1>3. Component' = Component /\ Procedure(Component)' = Procedure(Component) BY <1>2 DEF Component, Procedure
<1>4. LaunchTypes' BY <1>1, <1>2, <1>3 DEF LaunchTypes
<1>5. Heard' /\ Watched' BY <1>1, <1>2 DEF Heard, Watched, LaunchTypes
<1>6. watch' \in BOOLEAN BY <1>4 DEF LaunchTypes
<1> QED BY <1>2, <1>4, <1>5, <1>6, ComponentInd

LEMMA KernelEndsInd == ASSUME LaunchIndInv, KernelEnds PROVE LaunchIndInv'
<1>1. LaunchTypes /\ Heard /\ Watched BY DEF LaunchIndInv
<1>2. /\ code = "none" /\ up = "up" /\ up' = "failed" /\ UNCHANGED <<args, at, loop, watch, code, signals>>
  BY DEF KernelEnds
<1>3. Component' = Component /\ Procedure(Component)' = Procedure(Component) BY <1>2 DEF Component, Procedure
<1>4. LaunchTypes' BY <1>1, <1>2, <1>3 DEF LaunchTypes
<1>5. Heard' /\ Watched' BY <1>1, <1>2 DEF Heard, Watched
<1>6. watch' \in BOOLEAN BY <1>4 DEF LaunchTypes
<1> QED BY <1>2, <1>4, <1>5, <1>6, ComponentInd

LEMMA SignalInd == ASSUME LaunchIndInv, Signal PROVE LaunchIndInv'
<1>1. LaunchTypes /\ Heard /\ Watched BY DEF LaunchIndInv
<1>2. PICK sig \in {"INT", "TERM"} : Handle(sig) BY DEF Signal
<1>3. /\ code = "none" /\ signals.sent < Signals /\ UNCHANGED <<args, at>>
      /\ signals' = [sent |-> signals.sent + 1,
                     heard |-> signals.heard \/ <<loop, up, code>>' # <<loop, up, code>>]
  BY DEF Signal
<1>4. /\ code' \in {"none", "killed"} /\ watch' \in {watch, FALSE} /\ (code' = "killed" => watch' = FALSE)
      /\ up' = up \/ (up = "up" /\ up' = "stopped")
      /\ \/ loop' = loop
         \/ loop' = [loop EXCEPT !.interrupted = TRUE]
         \/ \E s \in BOOLEAN : loop' = [loop EXCEPT !.stop = s]
  <2>1. CASE loop.handler = "default" /\ sig = "INT" BY <1>2, <1>3, <2>1 DEF Handle
  <2>2. CASE loop.handler = "default" /\ sig = "TERM" BY <1>2, <1>3, <2>2 DEF Handle
  <2>3. CASE loop.handler # "default" /\ Component = "kernel" BY <1>2, <1>3, <2>3 DEF Handle
  <2>4. CASE loop.handler # "default" /\ Component # "kernel"
    <3>1. /\ loop' = [loop EXCEPT !.stop = (loop.stop \/ loop.handler # "stale")]
          /\ UNCHANGED <<up, watch, code>>
      BY <1>2, <2>4 DEF Handle
    <3> QED BY <1>3, <3>1
  <2> QED BY <1>2, <2>1, <2>2, <2>3, <2>4
<1>5. /\ loop' \in [handler : {"default", "loop", "plain", "stale"}, stop : BOOLEAN,
                    turned : BOOLEAN, interrupted : BOOLEAN]
      /\ signals' \in [sent : 0..Signals, heard : BOOLEAN]
  <2>1. loop' \in [handler : {"default", "loop", "plain", "stale"}, stop : BOOLEAN,
                   turned : BOOLEAN, interrupted : BOOLEAN]
    BY <1>1, <1>4 DEF LaunchTypes
  <2>2. signals.sent + 1 \in 0..Signals BY <1>1, <1>3, LauncherAssumption DEF LaunchTypes
  <2>3. signals.heard \in BOOLEAN BY <1>1 DEF LaunchTypes
  <2>4. PICK h \in BOOLEAN : signals' = [sent |-> signals.sent + 1, heard |-> h] BY <1>3, <2>3
  <2> QED BY <2>1, <2>2, <2>4
<1>6. Component' = Component /\ Procedure(Component)' = Procedure(Component) BY <1>3 DEF Component, Procedure
<1>7. LaunchTypes'
  <2>1. up' \in {"down", "starting", "up", "failed", "stopped"} /\ watch' \in BOOLEAN
        /\ code' \in {"none", "ok", "error", "killed"}
    BY <1>1, <1>4 DEF LaunchTypes
  <2> QED BY <1>1, <1>3, <1>5, <1>6, <2>1 DEF LaunchTypes
<1>8. Heard'
  <2>1. CASE loop' = loop BY <1>1, <1>3, <2>1 DEF Heard
  <2>2. CASE loop' # loop
    <3>1. signals'.heard BY <1>3, <2>2
    <3> QED BY <3>1 DEF Heard
  <2> QED BY <2>1, <2>2
<1>9. Watched' BY <1>1, <1>3, <1>4 DEF Watched
<1>10. watch' \in BOOLEAN BY <1>7 DEF LaunchTypes
<1> QED BY <1>3, <1>4, <1>7, <1>8, <1>9, <1>10, ComponentInd

LEMMA LaunchStutterInd == ASSUME LaunchIndInv, UNCHANGED vars PROVE LaunchIndInv'
<1>1. UNCHANGED <<args, at, loop, up, watch, code, signals>> BY DEF vars
<1>2. Component' = Component /\ Procedure(Component)' = Procedure(Component) BY <1>1 DEF Component, Procedure
<1>3. \A s : Passed(s)' <=> Passed(s) BY <1>1, <1>2 DEF Passed
<1>4. LaunchTypes' BY <1>1, <1>2 DEF LaunchIndInv, LaunchTypes
<1>5. Switches' /\ Begun' BY <1>1, <1>3 DEF LaunchIndInv, Switches, Begun
<1>6. Heard' /\ Watched' BY <1>1 DEF LaunchIndInv, Heard, Watched
<1>7. StartsOnlyWhatItShould' /\ CodeTellsTheTruth'
  BY <1>1, <1>2 DEF LaunchIndInv, StartsOnlyWhatItShould, CodeTellsTheTruth
<1> QED BY <1>4, <1>5, <1>6, <1>7 DEF LaunchIndInv

LEMMA LaunchNextInd == ASSUME LaunchIndInv, [Next]_vars PROVE LaunchIndInv'
<1>1. CASE Validate \/ DryRun BY <1>1, SwitchesInd
<1>2. CASE GetKey \/ CheckEnvironment \/ Create BY <1>2, ChecksInd
<1>3. CASE FindPrompts BY <1>3, FindPromptsInd
<1>4. CASE StartWatching \/ SetHandlers \/ StartTask BY <1>4, StepsOnInd
<1>5. CASE Start BY <1>5, StartInd
<1>6. CASE TaskStarts BY <1>6, TaskStartsInd
<1>7. CASE CheckHealth BY <1>7, CheckHealthInd
<1>8. CASE ValidateAll BY <1>8, ValidateAllInd
<1>9. CASE Shutdown BY <1>9, ShutdownInd
<1>10. CASE WaitForKernel BY <1>10, WaitForKernelInd
<1>11. CASE Unwind BY <1>11, UnwindInd
<1>12. CASE KernelEnds BY <1>12, KernelEndsInd
<1>13. CASE Signal BY <1>13, SignalInd
<1>14. CASE UNCHANGED vars BY <1>14, LaunchStutterInd
<1> QED BY <1>1, <1>2, <1>3, <1>4, <1>5, <1>6, <1>7, <1>8, <1>9, <1>10, <1>11, <1>12, <1>13, <1>14
        DEF Next, Work

(* Whatever signals come and whatever fails: with --validate-only or       *)
(* --dry-run nothing is started, except by the knowledge base; a process   *)
(* that ended left no task; and it ends with 0 only when it was asked to,  *)
(* or had nothing to start, and its component does not run.                *)
THEOREM LaunchesHold == LaunchSpec => []LauncherInv
<1>1. LaunchIndInv /\ [Next]_vars => LaunchIndInv' BY LaunchNextInd
<1> QED BY <1>1, LaunchInitInd, LaunchIndImplies, PTL DEF LaunchSpec

-----------------------------------------------------------------------------
(* Gemini: counting permits                                                *)

TokensOf(h) == {p \in Requests \X (1..2) : p[2] <= h[p[1]]}

LEMMA TokensFinite == ASSUME NEW h PROVE IsFiniteSet(TokensOf(h)) /\ Cardinality(TokensOf(h)) \in Nat
<1>1. IsFiniteSet(Requests) BY GeminiAssumption
<1>2. IsFiniteSet(1..2)
  <2>1. PICK a \in Int : a = 1 OBVIOUS
  <2>2. PICK b \in Int : b = 2 OBVIOUS
  <2>3. IsFiniteSet(a..b) BY FS_Interval, Zenon
  <2> QED BY <2>1, <2>2, <2>3, Zenon
<1>3. IsFiniteSet(Requests \X (1..2)) BY <1>1, <1>2, FS_Product, Zenon
<1>4. TokensOf(h) \in SUBSET (Requests \X (1..2)) BY DEF TokensOf
<1>5. IsFiniteSet(TokensOf(h)) BY <1>3, <1>4, FS_Subset, Zenon
<1> QED BY <1>5, FS_CardinalityType, Zenon

(* Who takes one permit more                                               *)
LEMMA TakeOne ==
    ASSUME NEW h \in [Requests -> 0..2], NEW r \in Requests, h[r] < 2, NEW g,
           g = [h EXCEPT ![r] = h[r] + 1]
    PROVE  Cardinality(TokensOf(g)) = Cardinality(TokensOf(h)) + 1
<1>1. PICK k \in 1..2 : k = h[r] + 1 OBVIOUS
<1>2. TokensOf(g) = TokensOf(h) \cup {<<r, k>>}
  <2>1. ASSUME NEW q \in Requests, NEW i \in 1..2
        PROVE  i <= g[q] <=> (i <= h[q] \/ (q = r /\ i = k))
    BY <1>1, <2>1
  <2> QED BY <2>1, <1>1 DEF TokensOf
<1>3. <<r, k>> \notin TokensOf(h) BY <1>1 DEF TokensOf
<1> QED BY <1>2, <1>3, TokensFinite, FS_AddElement

LEMMA Take ==
    ASSUME NEW h \in [Requests -> 0..2], NEW r \in Requests, NEW n \in 0..2, h[r] + n <= 2,
           NEW g, g = [h EXCEPT ![r] = h[r] + n]
    PROVE  g \in [Requests -> 0..2] /\ Cardinality(TokensOf(g)) = Cardinality(TokensOf(h)) + n
<1>1. g \in [Requests -> 0..2] OBVIOUS
<1>2. Cardinality(TokensOf(h)) \in Nat BY TokensFinite
<1>3. CASE n = 0
  <2>1. g = h BY <1>3
  <2>2. \A c \in Nat : c = c + 0 OBVIOUS
  <2> QED BY <1>1, <1>2, <1>3, <2>1, <2>2, Zenon
<1>4. CASE n = 1
  <2>1. g = [h EXCEPT ![r] = h[r] + 1] /\ h[r] < 2 BY <1>4
  <2>2. Cardinality(TokensOf(g)) = Cardinality(TokensOf(h)) + 1 BY <2>1, TakeOne, Zenon
  <2> QED BY <1>1, <1>4, <2>2
<1>5. CASE n = 2
  <2>1. PICK f : f = [h EXCEPT ![r] = h[r] + 1] OBVIOUS
  <2>2. f \in [Requests -> 0..2] /\ f[r] < 2 /\ h[r] < 2 BY <1>5, <2>1
  <2>3. g = [f EXCEPT ![r] = f[r] + 1] BY <1>1, <1>5, <2>1, <2>2
  <2>4. Cardinality(TokensOf(f)) = Cardinality(TokensOf(h)) + 1 BY <2>1, <2>2, TakeOne, Zenon
  <2>5. Cardinality(TokensOf(g)) = Cardinality(TokensOf(f)) + 1 BY <2>2, <2>3, TakeOne, Zenon
  <2> QED BY <1>1, <1>2, <1>5, <2>4, <2>5
<1> QED BY <1>3, <1>4, <1>5

(* Who gives back all it holds                                             *)
LEMMA GiveBack ==
    ASSUME NEW h \in [Requests -> 0..2], NEW r \in Requests, NEW g, g = [h EXCEPT ![r] = 0]
    PROVE  g \in [Requests -> 0..2] /\ Cardinality(TokensOf(g)) + h[r] = Cardinality(TokensOf(h))
<1>1. g \in [Requests -> 0..2] /\ g[r] = 0 /\ h[r] \in 0..2 OBVIOUS
<1>2. PICK n \in 0..2 : n = h[r] OBVIOUS
<1>3. g[r] + n = n /\ g[r] + n <= 2 BY <1>1
<1>4. h = [g EXCEPT ![r] = n]
  <2>1. ASSUME NEW q \in Requests PROVE h[q] = [g EXCEPT ![r] = n][q] BY <1>1, <1>2
  <2> QED BY <1>1, <2>1
<1>5. h = [g EXCEPT ![r] = g[r] + n] BY <1>3, <1>4
<1>6. Cardinality(TokensOf(h)) = Cardinality(TokensOf(g)) + n
  <2>1. n \in 0..2 BY <1>2
  <2>2. g \in [Requests -> 0..2] /\ g[r] + n <= 2 /\ h = [g EXCEPT ![r] = g[r] + n] BY <1>1, <1>3, <1>5
  <2> QED BY <2>1, <2>2, Take, Zenon
<1>7. Cardinality(TokensOf(g)) \in Nat BY TokensFinite
<1> QED BY <1>1, <1>2, <1>6

(* When each of some is given one                                          *)
LEMMA GiveEach ==
    ASSUME NEW h \in [Requests -> 0..2], NEW W \in SUBSET Requests, \A w \in W : h[w] < 2,
           NEW g, g = [w \in Requests |-> IF w \in W THEN h[w] + 1 ELSE h[w]]
    PROVE  /\ g \in [Requests -> 0..2]
           /\ Cardinality(TokensOf(g)) = Cardinality(TokensOf(h)) + Cardinality(W)
<1> DEFINE new == {<<w, h[w] + 1>> : w \in W}
<1> DEFINE f == [w \in W |-> <<w, h[w] + 1>>]
<1>1. g \in [Requests -> 0..2] OBVIOUS
<1>2. TokensOf(g) = TokensOf(h) \cup new
  <2>1. ASSUME NEW q \in Requests, NEW i \in 1..2
        PROVE  i <= g[q] <=> (i <= h[q] \/ (q \in W /\ i = h[q] + 1))
    BY <2>1
  <2>2. new \subseteq Requests \X (1..2) OBVIOUS
  <2>3. \A q \in Requests, i \in 1..2 : <<q, i>> \in new <=> (q \in W /\ i = h[q] + 1) OBVIOUS
  <2> HIDE DEF new
  <2>4. ASSUME NEW p \in Requests \X (1..2) PROVE p \in TokensOf(g) <=> (p \in TokensOf(h) \/ p \in new)
    <3>1. PICK q \in Requests, i \in 1..2 : p = <<q, i>> OBVIOUS
    <3>2. <<q, i>> \in TokensOf(g) <=> i <= g[q] BY DEF TokensOf
    <3>3. <<q, i>> \in TokensOf(h) <=> i <= h[q] BY DEF TokensOf
    <3> QED BY <2>1, <2>3, <3>1, <3>2, <3>3
  <2>5. TokensOf(g) \subseteq Requests \X (1..2) /\ TokensOf(h) \subseteq Requests \X (1..2) BY DEF TokensOf
  <2> QED BY <2>2, <2>4, <2>5
<1>3. TokensOf(h) \cap new = {} BY DEF TokensOf
<1>4. IsFiniteSet(W) BY GeminiAssumption, FS_Subset
<1>5. f \in Bijection(W, new)
  <2>1. f \in [W -> new] OBVIOUS
  <2>2. \A a, b \in W : f[a] = f[b] => a = b OBVIOUS
  <2>3. \A t \in new : \E s \in W : f[s] = t OBVIOUS
  <2> HIDE DEF f, new
  <2> QED BY <2>1, <2>2, <2>3, Fun_IsBij
<1> HIDE DEF f, new
<1>6. ExistsBijection(W, new) BY <1>5 DEF ExistsBijection
<1>7. IsFiniteSet(new) /\ Cardinality(new) = Cardinality(W) BY <1>4, <1>6, FS_Bijection
<1>8. Cardinality({}) = 0 BY FS_EmptySet
<1>9. /\ IsFiniteSet(TokensOf(h)) /\ Cardinality(TokensOf(h)) \in Nat /\ Cardinality(W) \in Nat
  BY <1>4, TokensFinite, FS_CardinalityType
<1>10. Cardinality(TokensOf(g)) = Cardinality(TokensOf(h)) + Cardinality(new) - Cardinality(TokensOf(h) \cap new)
  BY <1>2, <1>7, <1>9, FS_Union
<1>11. PICK a \in Nat, b \in Nat : a = Cardinality(TokensOf(h)) /\ b = Cardinality(W) BY <1>9
<1>12. Cardinality(TokensOf(g)) = a + b - 0 BY <1>3, <1>7, <1>8, <1>10, <1>11, Zenon
<1>13. a + b - 0 = a + b OBVIOUS
<1> QED BY <1>1, <1>11, <1>12, <1>13, Zenon

-----------------------------------------------------------------------------
(* Gemini: the queue                                                       *)

Injective(q) == \A i, j \in DOMAIN q : q[i] = q[j] => i = j

(* Without r, everyone else waits as before, in the same order.            *)
LEMMA WithoutOne ==
    ASSUME waiters \in Seq(Requests), Injective(waiters), NEW r
    PROVE  /\ Without(r) \in Seq(Requests) /\ Injective(Without(r))
           /\ \A i \in DOMAIN Without(r) : Without(r)[i] # r /\ ~Granted(Without(r)[i])
           /\ \A w : ~Granted(w) /\ w # r => \E i \in DOMAIN Without(r) : Without(r)[i] = w
           /\ Len(Without(r)) <= Len(waiters)
<1>1. CASE Granted(r)
  <2>1. Without(r) = waiters BY <1>1 DEF Without
  <2> QED BY <1>1, <2>1 DEF Granted
<1>2. CASE ~Granted(r)
  <2> DEFINE place == CHOOSE i \in DOMAIN waiters : waiters[i] = r
  <2> DEFINE n == Len(waiters)
  <2> DEFINE q == [j \in 1..(n - 1) |-> waiters[IF j < place THEN j ELSE j + 1]]
  <2>1. Without(r) = q BY <1>2 DEF Without
  <2>2. place \in 1..n /\ waiters[place] = r BY <1>2 DEF Granted
  <2>3. \A i \in 1..n : waiters[i] = r => i = place BY <2>2 DEF Injective
  <2>4. n \in Nat /\ n >= 1 BY <2>2
  <2> HIDE DEF place
  <2>5. ASSUME NEW j \in 1..(n - 1)
        PROVE  /\ (IF j < place THEN j ELSE j + 1) \in 1..n /\ (IF j < place THEN j ELSE j + 1) # place
               /\ q[j] = waiters[IF j < place THEN j ELSE j + 1]
    BY <2>2, <2>4
  <2>6. q \in [1..(n - 1) -> Requests] BY <2>5
  <2>7. q \in Seq(Requests) /\ Len(q) = n - 1 BY <2>4, <2>6
  <2>8. DOMAIN q = 1..(n - 1) OBVIOUS
  <2>9. Injective(q)
    <3>1. ASSUME NEW i \in 1..(n - 1), NEW j \in 1..(n - 1), q[i] = q[j] PROVE i = j
      <4>1. waiters[IF i < place THEN i ELSE i + 1] = waiters[IF j < place THEN j ELSE j + 1]
        BY <2>5, <3>1
      <4>2. (IF i < place THEN i ELSE i + 1) = (IF j < place THEN j ELSE j + 1)
        BY <2>5, <4>1 DEF Injective
      <4> QED BY <2>2, <4>2
    <3> QED BY <2>8, <3>1 DEF Injective
  <2>10. \A i \in 1..(n - 1) : q[i] # r /\ ~Granted(q[i])
    BY <2>3, <2>5 DEF Granted
  <2>11. ASSUME NEW w, ~Granted(w), w # r PROVE \E i \in 1..(n - 1) : q[i] = w
    <3>1. PICK i \in 1..n : waiters[i] = w BY <2>11 DEF Granted
    <3>2. i # place BY <2>2, <2>11, <3>1
    <3>3. CASE i < place
      <4>1. i \in 1..(n - 1) BY <2>2, <3>3
      <4> QED BY <3>1, <3>3, <4>1
    <3>4. CASE i > place
      <4>1. i - 1 \in 1..(n - 1) /\ ~(i - 1 < place) /\ (i - 1) + 1 = i BY <2>2, <3>4
      <4>2. q[i - 1] = w BY <3>1, <4>1
      <4> QED BY <4>1, <4>2
    <3> QED BY <2>2, <3>2, <3>3, <3>4
  <2> HIDE DEF q
  <2> QED BY <2>1, <2>4, <2>7, <2>8, <2>9, <2>10, <2>11
<1> QED BY <1>1, <1>2

(* The first k of a queue, and who is left                                 *)
First(q, k) == {q[i] : i \in 1..k}
Rest(q, k) == SubSeq(q, k + 1, Len(q))
LEMMA Served ==
    ASSUME NEW q \in Seq(Requests), Injective(q), NEW k \in 0..Len(q)
    PROVE  /\ Rest(q, k) \in Seq(Requests) /\ Injective(Rest(q, k)) /\ Len(Rest(q, k)) = Len(q) - k
           /\ First(q, k) \in SUBSET Requests /\ Cardinality(First(q, k)) = k
           /\ \A i \in DOMAIN q : q[i] \in First(q, k) <=> \A j \in DOMAIN Rest(q, k) : Rest(q, k)[j] # q[i]
           /\ \A j \in DOMAIN Rest(q, k) : \E i \in DOMAIN q : Rest(q, k)[j] = q[i]
           /\ \A w \in First(q, k) : \E i \in DOMAIN q : w = q[i]
<1> SUFFICES ASSUME NEW left, left = SubSeq(q, k + 1, Len(q)), NEW woken, woken = {q[i] : i \in 1..k}
             PROVE  /\ left \in Seq(Requests) /\ Injective(left) /\ Len(left) = Len(q) - k
                    /\ woken \in SUBSET Requests /\ Cardinality(woken) = k
                    /\ \A i \in DOMAIN q : q[i] \in woken <=> \A j \in DOMAIN left : left[j] # q[i]
                    /\ \A j \in DOMAIN left : \E i \in DOMAIN q : left[j] = q[i]
                    /\ \A w \in woken : \E i \in DOMAIN q : w = q[i]
  BY Zenon DEF First, Rest
<1>1. Len(q) \in Nat /\ DOMAIN q = 1..Len(q) OBVIOUS
<1>2. /\ left \in Seq(Requests) /\ Len(left) = Len(q) - k
      /\ \A j \in 1..(Len(q) - k) : left[j] = q[k + j]
  <2>1. \A i \in (k + 1)..Len(q) : q[i] \in Requests BY <1>1
  <2>2. /\ left \in Seq(Requests) /\ Len(left) = IF k + 1 <= Len(q) THEN Len(q) - (k + 1) + 1 ELSE 0
        /\ \A i \in 1..(Len(q) - (k + 1) + 1) : left[i] = q[(k + 1) + i - 1]
    BY <1>1, <2>1, SubSeqProperties
  <2>3. PICK n \in Nat : n = Len(q) BY <1>1
  <2>4. k \in 0..n BY <2>3
  <2>5. Len(left) = n - k
    <3>1. Len(left) = IF k + 1 <= n THEN n - (k + 1) + 1 ELSE 0 BY <2>2, <2>3, Zenon
    <3>2. (IF k + 1 <= n THEN n - (k + 1) + 1 ELSE 0) = n - k BY <2>4
    <3> QED BY <3>1, <3>2, Zenon
  <2>6. ASSUME NEW j \in 1..(n - k) PROVE left[j] = q[k + j]
    <3>1. j \in 1..(n - (k + 1) + 1) /\ (k + 1) + j - 1 = k + j BY <2>4
    <3> QED BY <2>2, <2>3, <3>1
  <2> QED BY <2>2, <2>3, <2>5, <2>6
<1>3. DOMAIN left = 1..(Len(q) - k)
  <2>1. DOMAIN left = 1..Len(left) BY <1>2
  <2> QED BY <1>2, <2>1
<1>4. Injective(left)
  <2>1. ASSUME NEW i \in 1..(Len(q) - k), NEW j \in 1..(Len(q) - k), left[i] = left[j] PROVE i = j
    <3>1. k + i \in 1..Len(q) /\ k + j \in 1..Len(q) BY <1>1
    <3>2. left[i] = q[k + i] /\ left[j] = q[k + j] BY <1>2
    <3>3. q[k + i] = q[k + j] BY <2>1, <3>2
    <3>4. k + i = k + j BY <1>1, <3>1, <3>3 DEF Injective
    <3> QED BY <3>4
  <2> QED BY <1>3, <2>1 DEF Injective
<1>5. woken \in SUBSET Requests BY <1>1
<1>6. Cardinality(woken) = k
  <2> DEFINE f == [i \in 1..k |-> q[i]]
  <2>1. f \in [1..k -> woken] OBVIOUS
  <2>2. ASSUME NEW i \in 1..k, NEW j \in 1..k, f[i] = f[j] PROVE i = j
    <3>1. i \in DOMAIN q /\ j \in DOMAIN q /\ q[i] = q[j] BY <1>1, <2>2
    <3> QED BY <3>1 DEF Injective
  <2>3. \A t \in woken : \E s \in 1..k : f[s] = t OBVIOUS
  <2> HIDE DEF f
  <2>4. f \in Bijection(1..k, woken) BY <2>1, <2>2, <2>3, Fun_IsBij
  <2>5. ExistsBijection(1..k, woken) BY <2>4 DEF ExistsBijection
  <2>6. k \in Nat BY <1>1
  <2> QED BY <2>5, <2>6, FS_CountingElements, Zenon
<1>7. \A i \in DOMAIN q : q[i] \in woken <=> \A j \in DOMAIN left : left[j] # q[i]
  <2>1. ASSUME NEW i \in 1..Len(q), q[i] \in woken, NEW j \in 1..(Len(q) - k) PROVE left[j] # q[i]
    <3>1. PICK m \in 1..k : q[i] = q[m] BY <2>1
    <3>2. i = m
      <4>1. i \in DOMAIN q /\ m \in DOMAIN q BY <1>1
      <4> QED BY <3>1, <4>1 DEF Injective
    <3>3. k + j \in 1..Len(q) /\ k + j # i BY <1>1, <3>1, <3>2
    <3>4. k + j \in DOMAIN q /\ i \in DOMAIN q BY <1>1, <3>3
    <3>5. q[k + j] # q[i] BY <3>3, <3>4 DEF Injective
    <3> QED BY <1>2, <3>5
  <2>2. ASSUME NEW i \in 1..Len(q), q[i] \notin woken PROVE \E j \in 1..(Len(q) - k) : left[j] = q[i]
    <3>1. i > k BY <1>1, <2>2
    <3>2. i - k \in 1..(Len(q) - k) /\ k + (i - k) = i BY <1>1, <3>1
    <3>3. left[i - k] = q[i] BY <1>2, <3>2
    <3> QED BY <3>2, <3>3
  <2> QED BY <1>1, <1>3, <2>1, <2>2
<1>8. \A j \in DOMAIN left : \E i \in DOMAIN q : left[j] = q[i]
  <2>1. ASSUME NEW j \in 1..(Len(q) - k) PROVE \E i \in 1..Len(q) : left[j] = q[i]
    <3>1. k + j \in 1..Len(q) BY <1>1
    <3> QED BY <1>2, <3>1
  <2> QED BY <1>1, <1>3, <2>1
<1>9. \A w \in woken : \E i \in DOMAIN q : w = q[i] BY <1>1
<1> QED BY <1>2, <1>4, <1>5, <1>6, <1>7, <1>8, <1>9

-----------------------------------------------------------------------------
(* Gemini: the inductive invariant                                         *)

(* The semaphore: who waits does so in one place and is not at work, and   *)
(* each request holds what its place in the code and in the queue says.    *)
Wanted(r) == IF kind[r] = "simulate" THEN 2 ELSE 1
QueueInOrder ==
    /\ Injective(waiters)
    /\ \A i \in DOMAIN waiters : pc[waiters[i]] \in {"outer", "inner"}
    /\ free > 0 => waiters = <<>>
Shares ==
    \A r \in Requests :
        /\ pc[r] \in {"idle", "done"} => held[r] = 0
        /\ pc[r] \in Working => held[r] = Wanted(r)
        /\ pc[r] = "outer" => kind[r] = "simulate" /\ held[r] = IF Granted(r) THEN 1 ELSE 0
        /\ pc[r] = "inner" => held[r] = IF Granted(r) THEN Wanted(r) ELSE Wanted(r) - 1
Places == {"idle", "outer", "inner", "done"} \cup Working
SemaphoreInv ==
    /\ kind \in [Requests -> {"query", "simulate", "diagnose", "health"}]
    /\ pc \in [Requests -> Places] /\ held \in [Requests -> 0..2]
    /\ free \in Nat /\ waiters \in Seq(Requests)
    /\ QueueInOrder /\ Shares
    /\ free + Cardinality(TokensOf(held)) = Permits

(* The calls: a request that waits to call has attempts left.              *)
CallsInv ==
    /\ attempt \in [Requests -> 0..Attempts]
    /\ \A r \in Requests :
        /\ pc[r] \in {"idle", "outer", "inner", "spacing"} => attempt[r] = 0
        /\ pc[r] = "backoff" => attempt[r] < Attempts

(* The conversation: what was answered has come to its end, which stands.  *)
Entries == [role : {"system", "user", "assistant"}, about : Requests \cup {"model", "event"}]
MemoryInv ==
    /\ outcome \in [Requests -> {"none", "understood", "structured", "raw", "failed", "cancelled"}]
    /\ memory \in Seq(Entries) /\ Len(memory) <= Remembered
    /\ \A i \in DOMAIN memory : memory[i].role = "assistant" =>
         /\ i > 1 => memory[i - 1] = [role |-> "user", about |-> memory[i].about]
         /\ memory[i].about \in Requests /\ pc[memory[i].about] = "done"
         /\ outcome[memory[i].about] \in {"understood", "structured", "raw"}

GeminiIndInv ==
    /\ SemaphoreInv /\ CallsInv /\ MemoryInv
    /\ kind \in Mixes /\ initialized \in BOOLEAN /\ reloading \in BOOLEAN
    /\ notes \in 0..MaxNotes /\ reloads \in 0..MaxReloads

LEMMA GrantedSame == ASSUME waiters' = waiters, NEW r PROVE Granted(r)' <=> Granted(r)
BY DEF Granted

(* r asks for what it still needs.                                         *)
LEMMA AcquireInd ==
    ASSUME SemaphoreInv, NEW r \in Requests, Granted(r), NEW places,
           \/ pc[r] = "idle" /\ places = IF kind[r] = "simulate" THEN <<"outer", "inner">> ELSE <<"inner">>
           \/ pc[r] = "outer" /\ places = <<"inner">>,
           Acquire(r, places, "spacing"), kind' = kind
    PROVE  SemaphoreInv'
<1>1. /\ pc \in [Requests -> Places] /\ held \in [Requests -> 0..2]
      /\ free \in Nat /\ waiters \in Seq(Requests) /\ QueueInOrder /\ Shares
      /\ free + Cardinality(TokensOf(held)) = Permits
  BY DEF SemaphoreInv
<1>2. PICK n \in 1..2 : /\ n = Len(places) /\ held[r] + n = Wanted(r)
                        /\ \A k \in 1..n : places[k] = IF kind[r] = "simulate" /\ held[r] + k = 1 THEN "outer" ELSE "inner"
  <2>1. CASE pc[r] = "idle" /\ kind[r] = "simulate"
    <3>1. Len(places) = 2 /\ held[r] = 0 /\ places[1] = "outer" /\ places[2] = "inner"
      BY <1>1, <2>1 DEF Shares
    <3> QED BY <2>1, <3>1 DEF Wanted
  <2>2. CASE pc[r] = "idle" /\ kind[r] # "simulate"
    <3>1. Len(places) = 1 /\ held[r] = 0 /\ places[1] = "inner" BY <1>1, <2>2 DEF Shares
    <3> QED BY <2>2, <3>1 DEF Wanted
  <2>3. CASE pc[r] = "outer"
    <3>1. Len(places) = 1 /\ held[r] = 1 /\ places[1] = "inner" /\ kind[r] = "simulate"
      BY <1>1, <2>3 DEF Shares
    <3> QED BY <2>3, <3>1 DEF Wanted
  <2> QED BY <2>1, <2>2, <2>3
<1>3. PICK got : /\ got = IF waiters = <<>> /\ free < n THEN free ELSE IF waiters = <<>> THEN n ELSE 0
                 /\ free' = free - got /\ held' = [held EXCEPT ![r] = held[r] + got]
                 /\ IF got = n
                    THEN pc' = [pc EXCEPT ![r] = "spacing"] /\ UNCHANGED waiters
                    ELSE pc' = [pc EXCEPT ![r] = places[got + 1]] /\ waiters' = Append(waiters, r)
  BY <1>2 DEF Acquire
<1>4. /\ got \in 0..n /\ free' \in Nat /\ free' = free - got
      /\ got < n => free' = 0
      /\ got = n => waiters = <<>>
  BY <1>1, <1>2, <1>3 DEF QueueInOrder
<1>5. Wanted(r) \in 1..2 /\ held[r] \in 0..2 /\ held[r] + got \in 0..2 /\ got \in 0..2
  BY <1>1, <1>2, <1>4 DEF Wanted
<1>6. held' \in [Requests -> 0..2] /\ Cardinality(TokensOf(held')) = Cardinality(TokensOf(held)) + got
  <2>1. held[r] + got <= 2 /\ got \in 0..2 BY <1>5
  <2>2. PICK g : g = [held EXCEPT ![r] = held[r] + got] OBVIOUS
  <2>3. g \in [Requests -> 0..2] /\ Cardinality(TokensOf(g)) = Cardinality(TokensOf(held)) + got
    BY <1>1, <2>1, <2>2, Take, Zenon
  <2> QED BY <1>3, <2>2, <2>3, Zenon
<1>7. free' + Cardinality(TokensOf(held')) = Permits
  <2>1. Cardinality(TokensOf(held)) \in Nat BY TokensFinite
  <2> QED BY <1>1, <1>4, <1>6, <2>1
<1>8. \A q \in Requests : q # r => pc'[q] = pc[q] /\ held'[q] = held[q] BY <1>1, <1>3
<1>9. \A q \in Requests : Wanted(q)' = Wanted(q) BY DEF Wanted
<1>10. CASE got = n
  <2>1. pc' = [pc EXCEPT ![r] = "spacing"] /\ waiters' = waiters /\ waiters = <<>> BY <1>3, <1>4, <1>10
  <2>2. pc' \in [Requests -> Places] BY <1>1, <2>1 DEF Places, Working
  <2>3. QueueInOrder' BY <2>1 DEF QueueInOrder, Injective
  <2>4. \A q \in Requests : Granted(q)' <=> Granted(q) BY <2>1 DEF Granted
  <2>5. pc'[r] = "spacing" /\ held'[r] = Wanted(r) BY <1>1, <1>2, <1>3, <1>10, <2>1
  <2>6. Shares' BY <1>1, <1>8, <1>9, <2>4, <2>5 DEF Shares, Working
  <2>7. waiters' \in Seq(Requests) BY <1>1, <2>1
  <2>8. kind' \in [Requests -> {"query", "simulate", "diagnose", "health"}] BY DEF SemaphoreInv
  <2> QED BY <1>4, <1>6, <1>7, <2>2, <2>3, <2>6, <2>7, <2>8 DEF SemaphoreInv
<1>11. CASE got < n
  <2>1. pc' = [pc EXCEPT ![r] = places[got + 1]] /\ waiters' = Append(waiters, r) BY <1>3, <1>4, <1>11
  <2>2. PICK place : place = places[got + 1] OBVIOUS
  <2>3. place = IF kind[r] = "simulate" /\ held[r] + (got + 1) = 1 THEN "outer" ELSE "inner"
    BY <1>2, <1>4, <1>11, <2>2
  <2>4. pc' \in [Requests -> Places] /\ pc'[r] = place BY <1>1, <2>1, <2>2, <2>3 DEF Places
  <2>5. /\ waiters' \in Seq(Requests) /\ DOMAIN waiters' = 1..(Len(waiters) + 1) /\ Len(waiters) \in Nat
        /\ DOMAIN waiters = 1..Len(waiters)
        /\ \A i \in 1..Len(waiters) : waiters'[i] = waiters[i]
        /\ waiters'[Len(waiters) + 1] = r
    BY <1>1, <2>1
  <2>6. \A i \in 1..Len(waiters) : waiters[i] # r BY <2>5 DEF Granted
  <2>7. Injective(waiters')
    <3>1. ASSUME NEW i \in DOMAIN waiters', NEW j \in DOMAIN waiters', waiters'[i] = waiters'[j] PROVE i = j
      <4>1. CASE i \in 1..Len(waiters) /\ j \in 1..Len(waiters)
        <5>1. waiters[i] = waiters[j] BY <2>5, <3>1, <4>1
        <5> QED BY <1>1, <2>5, <4>1, <5>1 DEF QueueInOrder, Injective
      <4>2. CASE i = Len(waiters) + 1 \/ j = Len(waiters) + 1
        BY <2>5, <2>6, <3>1, <4>2
      <4> QED BY <2>5, <4>1, <4>2
    <3> QED BY <3>1 DEF Injective
  <2>8. QueueInOrder'
    <3>1. ASSUME NEW i \in DOMAIN waiters' PROVE pc'[waiters'[i]] \in {"outer", "inner"}
      <4>1. CASE i \in 1..Len(waiters)
        <5>1. waiters'[i] = waiters[i] /\ waiters[i] # r /\ waiters[i] \in Requests BY <1>1, <2>5, <2>6, <4>1
        <5>2. pc[waiters[i]] \in {"outer", "inner"} BY <1>1, <2>5, <4>1 DEF QueueInOrder
        <5> QED BY <1>8, <5>1, <5>2
      <4>2. CASE i = Len(waiters) + 1 BY <2>3, <2>4, <2>5, <4>2
      <4> QED BY <2>5, <4>1, <4>2
    <3> QED BY <1>4, <1>11, <2>7, <3>1 DEF QueueInOrder
  <2>9. \A q \in Requests : Granted(q)' <=> Granted(q) /\ q # r
    <3>1. ASSUME NEW q \in Requests, Granted(q)' PROVE Granted(q) /\ q # r
      <4>1. \A i \in 1..(Len(waiters) + 1) : waiters'[i] # q BY <2>5, <3>1 DEF Granted
      <4>2. Len(waiters) + 1 \in 1..(Len(waiters) + 1) BY <2>5
      <4>3. q # r BY <2>5, <4>1, <4>2
      <4>4. \A i \in 1..Len(waiters) : waiters[i] # q BY <2>5, <4>1
      <4> QED BY <2>5, <4>3, <4>4 DEF Granted
    <3>2. ASSUME NEW q \in Requests, Granted(q), q # r PROVE Granted(q)'
      <4>1. \A i \in 1..Len(waiters) : waiters[i] # q BY <2>5, <3>2 DEF Granted
      <4>2. \A i \in 1..(Len(waiters) + 1) : waiters'[i] # q BY <2>5, <3>2, <4>1
      <4> QED BY <2>5, <4>2 DEF Granted
    <3> QED BY <3>1, <3>2
  <2>10. held'[r] = held[r] + got BY <1>1, <1>3
  <2>11. /\ place = "outer" => kind[r] = "simulate" /\ held'[r] = 0
         /\ place = "inner" => held'[r] = Wanted(r) - 1
    BY <1>2, <1>4, <1>5, <1>11, <2>3, <2>10 DEF Wanted
  <2>12. ASSUME NEW q \in Requests
         PROVE  /\ pc'[q] \in {"idle", "done"} => held'[q] = 0
                /\ pc'[q] \in Working => held'[q] = Wanted(q)'
                /\ pc'[q] = "outer" => kind'[q] = "simulate" /\ held'[q] = IF Granted(q)' THEN 1 ELSE 0
                /\ pc'[q] = "inner" => held'[q] = IF Granted(q)' THEN Wanted(q)' ELSE Wanted(q)' - 1
    <3>1. CASE q = r BY <1>9, <2>3, <2>4, <2>9, <2>11, <3>1 DEF Working
    <3>2. CASE q # r BY <1>1, <1>8, <1>9, <2>9, <3>2 DEF Shares
    <3> QED BY <3>1, <3>2
  <2>13. Shares' BY <2>12 DEF Shares
  <2>14. kind' \in [Requests -> {"query", "simulate", "diagnose", "health"}] BY DEF SemaphoreInv
  <2> QED BY <1>4, <1>6, <1>7, <2>4, <2>5, <2>8, <2>13, <2>14 DEF SemaphoreInv
<1> QED BY <1>2, <1>4, <1>10, <1>11

(* r gives back what it holds, and those who waited longest go on.         *)
LEMMA ReleaseInd ==
    ASSUME SemaphoreInv, NEW r \in Requests, Release(r), pc' = [pc EXCEPT ![r] = "done"], kind' = kind
    PROVE  SemaphoreInv'
<1>1. /\ pc \in [Requests -> Places] /\ held \in [Requests -> 0..2]
      /\ free \in Nat /\ waiters \in Seq(Requests) /\ QueueInOrder /\ Shares
      /\ free + Cardinality(TokensOf(held)) = Permits
  BY DEF SemaphoreInv
<1>2. PICK queue : queue = Without(r) OBVIOUS
<1>3. /\ queue \in Seq(Requests) /\ Injective(queue)
      /\ \A i \in DOMAIN queue : queue[i] # r /\ ~Granted(queue[i])
      /\ \A w : ~Granted(w) /\ w # r => \E i \in DOMAIN queue : queue[i] = w
      /\ Len(queue) <= Len(waiters) /\ Len(queue) \in Nat
  <2>1. Injective(waiters) BY <1>1 DEF QueueInOrder
  <2> QED BY <1>1, <1>2, <2>1, WithoutOne
<1>4. held[r] \in 0..2 BY <1>1
<1>5. PICK given : given = IF Len(queue) < held[r] THEN Len(queue) ELSE held[r] OBVIOUS
<1>6. /\ given \in 0..Len(queue) /\ given <= held[r] /\ (given < Len(queue) => given = held[r])
      /\ given < Len(queue) \/ given = Len(queue)
  BY <1>3, <1>4, <1>5
<1>7. PICK woken : woken = First(queue, given) OBVIOUS
<1>8. /\ waiters' = Rest(queue, given)
      /\ free' = free + held[r] - given
      /\ held' = [w \in Requests |-> IF w = r THEN 0 ELSE IF w \in woken THEN held[w] + 1 ELSE held[w]]
  BY <1>2, <1>5, <1>7 DEF Release, First, Rest
<1>9. /\ waiters' \in Seq(Requests) /\ Injective(waiters') /\ Len(waiters') = Len(queue) - given
      /\ woken \in SUBSET Requests /\ Cardinality(woken) = given
      /\ \A i \in DOMAIN queue : queue[i] \in woken <=> \A j \in DOMAIN waiters' : waiters'[j] # queue[i]
      /\ \A j \in DOMAIN waiters' : \E i \in DOMAIN queue : waiters'[j] = queue[i]
      /\ \A w \in woken : \E i \in DOMAIN queue : w = queue[i]
  <2>1. queue \in Seq(Requests) /\ Injective(queue) /\ given \in 0..Len(queue) BY <1>3, <1>6
  <2>2. waiters' = Rest(queue, given) BY <1>8
  <2> QED BY <1>7, <2>1, <2>2, Served, Zenon
<1>10. \A w \in woken : w # r /\ ~Granted(w) BY <1>3, <1>9
(* Who waits now is who waited and was not woken.                          *)
<1>11. \A w \in Requests : w # r => (Granted(w)' <=> (Granted(w) \/ w \in woken))
  <2>1. ASSUME NEW w \in Requests, w # r, Granted(w)', ~Granted(w) PROVE w \in woken
    <3>1. PICK i \in DOMAIN queue : queue[i] = w BY <1>3, <2>1
    <3>2. \A j \in DOMAIN waiters' : waiters'[j] # queue[i] BY <2>1, <3>1 DEF Granted
    <3> QED BY <1>9, <3>1, <3>2
  <2>2. ASSUME NEW w \in Requests, Granted(w) PROVE Granted(w)'
    <3>1. \A i \in DOMAIN queue : queue[i] # w BY <1>3, <2>2
    <3> QED BY <1>9, <3>1 DEF Granted
  <2>3. ASSUME NEW w \in woken PROVE Granted(w)'
    <3>1. PICK i \in DOMAIN queue : queue[i] = w BY <1>9
    <3>2. \A j \in DOMAIN waiters' : waiters'[j] # queue[i] BY <1>9, <3>1
    <3> QED BY <3>1, <3>2 DEF Granted
  <2> QED BY <2>1, <2>2, <2>3
<1>12. Granted(r)' BY <1>3, <1>9 DEF Granted
<1>13. \A w : ~Granted(w) => w \in Requests /\ pc[w] \in {"outer", "inner"}
  <2>1. ASSUME NEW w, ~Granted(w) PROVE w \in Requests /\ pc[w] \in {"outer", "inner"}
    <3>1. PICK i \in DOMAIN waiters : waiters[i] = w BY <2>1 DEF Granted
    <3>2. waiters[i] \in Requests BY <1>1
    <3> QED BY <1>1, <3>1, <3>2 DEF QueueInOrder
  <2> QED BY <2>1
<1>14. \A w \in woken : held[w] \in {0, 1}
  <2>1. ASSUME NEW w \in woken PROVE held[w] \in {0, 1}
    <3>1. w \in Requests /\ ~Granted(w) /\ pc[w] \in {"outer", "inner"} BY <1>10, <1>13
    <3> QED BY <1>1, <3>1 DEF Shares, Wanted
  <2> QED BY <2>1
<1>15. held' \in [Requests -> 0..2] /\ free' \in Nat /\ free' + Cardinality(TokensOf(held')) = Permits
  <2>1. PICK g : g = [held EXCEPT ![r] = 0] OBVIOUS
  <2>2. g \in [Requests -> 0..2] /\ Cardinality(TokensOf(g)) + held[r] = Cardinality(TokensOf(held))
    BY <1>1, <2>1, GiveBack, Zenon
  <2>3. held' = [w \in Requests |-> IF w \in woken THEN g[w] + 1 ELSE g[w]]
    <3>1. ASSUME NEW w \in Requests
          PROVE  held'[w] = IF w \in woken THEN g[w] + 1 ELSE g[w]
      BY <1>1, <1>8, <1>10, <2>1
    <3>2. held' = [w \in Requests |-> held'[w]] BY <1>8
    <3> QED BY <3>1, <3>2
  <2>4. \A w \in woken : g[w] < 2 BY <1>1, <1>9, <1>10, <1>14, <2>1
  <2>5. held' \in [Requests -> 0..2] /\ Cardinality(TokensOf(held')) = Cardinality(TokensOf(g)) + Cardinality(woken)
    BY <1>9, <2>2, <2>3, <2>4, GiveEach, Zenon
  <2>6. given \in Nat BY <1>3, <1>6
  <2>7. PICK a, b, c \in Nat : a = Cardinality(TokensOf(held)) /\ b = Cardinality(TokensOf(g))
                                        /\ c = Cardinality(TokensOf(held'))
    BY TokensFinite
  <2>8. b + held[r] = a /\ c = b + given /\ free + a = Permits BY <1>1, <1>9, <2>2, <2>5, <2>7, Zenon
  <2>9. \A f \in Nat, n \in 0..2, k \in Nat :
           b + n = a /\ c = b + k /\ k <= n => f + n - k \in Nat /\ (f + n - k) + c = f + a
    BY <2>7
  <2>10. free' \in Nat /\ free' + c = Permits BY <1>1, <1>4, <1>6, <1>8, <2>6, <2>8, <2>9, Zenon
  <2> QED BY <2>5, <2>7, <2>10, Zenon
<1>16. free' > 0 => waiters' = <<>>
  <2>1. ASSUME given < Len(queue) PROVE free' = 0
    <3>1. free' = free BY <1>1, <1>4, <1>6, <1>8, <2>1
    <3>2. waiters # <<>> BY <1>1, <1>3, <1>6, <2>1
    <3> QED BY <1>1, <3>1, <3>2 DEF QueueInOrder
  <2>2. ASSUME ~(given < Len(queue)) PROVE waiters' = <<>>
    <3>1. \A n \in Nat : n - n = 0 OBVIOUS
    <3>2. given = Len(queue) BY <1>6, <2>2, Zenon
    <3>3. Len(waiters') = Len(queue) - Len(queue) BY <1>9, <3>2, Zenon
    <3>4. Len(queue) \in Nat BY <1>3, Zenon
    <3>5. Len(waiters') = 0 BY <3>1, <3>3, <3>4, Zenon
    <3> QED BY <1>9, <3>5
  <2> QED BY <2>1, <2>2
<1>17. QueueInOrder'
  <2>1. ASSUME NEW j \in DOMAIN waiters' PROVE pc'[waiters'[j]] \in {"outer", "inner"}
    <3>1. PICK i \in DOMAIN queue : waiters'[j] = queue[i] BY <1>9
    <3>2. queue[i] # r /\ queue[i] \in Requests /\ pc[queue[i]] \in {"outer", "inner"} BY <1>3, <1>13
    <3> QED BY <1>1, <3>1, <3>2
  <2> QED BY <1>9, <1>16, <2>1 DEF QueueInOrder
<1>18. Shares'
  <2>1. ASSUME NEW q \in Requests
        PROVE  /\ pc'[q] \in {"idle", "done"} => held'[q] = 0
               /\ pc'[q] \in Working => held'[q] = Wanted(q)'
               /\ pc'[q] = "outer" => kind'[q] = "simulate" /\ held'[q] = IF Granted(q)' THEN 1 ELSE 0
               /\ pc'[q] = "inner" => held'[q] = IF Granted(q)' THEN Wanted(q)' ELSE Wanted(q)' - 1
    <3>1. CASE q = r BY <1>1, <1>8, <3>1 DEF Working
    <3>2. CASE q # r
      <4>1. pc'[q] = pc[q] /\ Wanted(q)' = Wanted(q) /\ Wanted(q) \in Nat BY <1>1, <3>2 DEF Wanted
      <4>2. CASE q \in woken
        <5>1. held'[q] = held[q] + 1 /\ Granted(q)' /\ ~Granted(q) BY <1>8, <1>10, <1>11, <3>2, <4>2
        <5>2. pc[q] \in {"outer", "inner"} BY <1>13, <5>1
        <5> QED BY <1>1, <4>1, <5>1, <5>2 DEF Shares, Working
      <4>3. CASE q \notin woken
        <5>1. held'[q] = held[q] /\ (Granted(q)' <=> Granted(q)) BY <1>8, <1>11, <3>2, <4>3
        <5> QED BY <1>1, <4>1, <5>1 DEF Shares
      <4> QED BY <4>2, <4>3
    <3> QED BY <3>1, <3>2
  <2> QED BY <2>1 DEF Shares
<1>19. pc' \in [Requests -> Places] BY <1>1 DEF Places
<1>20. kind' \in [Requests -> {"query", "simulate", "diagnose", "health"}] BY DEF SemaphoreInv
<1> QED BY <1>9, <1>15, <1>17, <1>18, <1>19, <1>20 DEF SemaphoreInv

(* Only the place in the code changes, from a permit's point of view.      *)
LEMMA StaysInd ==
    ASSUME SemaphoreInv, NEW r \in Requests, NEW place \in Working, pc' = [pc EXCEPT ![r] = place],
           pc[r] \in Working \/ (pc[r] = "inner" /\ Granted(r)), UNCHANGED <<kind, held, free, waiters>>
    PROVE  SemaphoreInv'
<1>1. /\ pc \in [Requests -> Places] /\ waiters \in Seq(Requests) /\ QueueInOrder /\ Shares
  BY DEF SemaphoreInv
<1>2. \A q : (Granted(q)' <=> Granted(q)) /\ Wanted(q)' = Wanted(q) BY DEF Granted, Wanted
<1>3. pc' \in [Requests -> Places] /\ \A q \in Requests : q # r => pc'[q] = pc[q] BY <1>1 DEF Places
<1>4. \A i \in DOMAIN waiters : waiters[i] # r
  <2>1. CASE pc[r] \in Working BY <1>1, <2>1 DEF QueueInOrder, Working
  <2>2. CASE Granted(r) BY <2>2 DEF Granted
  <2> QED BY <2>1, <2>2
<1>5. QueueInOrder'
  <2>1. ASSUME NEW i \in DOMAIN waiters PROVE pc'[waiters[i]] \in {"outer", "inner"}
    <3>1. waiters[i] \in Requests /\ waiters[i] # r BY <1>1, <1>4
    <3> QED BY <1>1, <1>3, <3>1 DEF QueueInOrder
  <2> QED BY <1>1, <2>1 DEF QueueInOrder
<1>6. Shares'
  <2>1. held[r] = Wanted(r) BY <1>1 DEF Shares
  <2>2. pc'[r] \in Working BY <1>1
  <2> QED BY <1>1, <1>2, <1>3, <2>1, <2>2 DEF Shares, Working
<1> QED BY <1>3, <1>5, <1>6 DEF SemaphoreInv

LEMMA SemaphoreStutters == ASSUME SemaphoreInv, UNCHANGED <<kind, pc, held, free, waiters>> PROVE SemaphoreInv'
<1>1. \A q : (Granted(q)' <=> Granted(q)) /\ Wanted(q)' = Wanted(q) BY DEF Granted, Wanted
<1> QED BY <1>1 DEF SemaphoreInv, QueueInOrder, Shares

-----------------------------------------------------------------------------
(* Gemini: the conversation                                                *)

(* What is remembered is the end of the old memory and the new entries.    *)
LEMMA Remembering ==
    ASSUME memory \in Seq(Entries), NEW entries \in Seq(Entries), Remember(entries)
    PROVE  /\ memory' \in Seq(Entries) /\ Len(memory') <= Remembered
           /\ \E d \in Nat : \A i \in DOMAIN memory' : \E k \in 1..(Len(memory) + Len(entries)) :
                k = i + d /\ memory'[i] = IF k <= Len(memory) THEN memory[k] ELSE entries[k - Len(memory)]
<1>1. PICK m : m = memory \o entries OBVIOUS
<1>2. PICK d : d = IF Len(m) > Remembered THEN Len(m) - Remembered ELSE 0 OBVIOUS
<1>3. memory' = SubSeq(m, 1 + d, Len(m)) BY <1>1, <1>2 DEF Remember
<1>4. /\ m \in Seq(Entries) /\ Len(m) = Len(memory) + Len(entries) /\ Len(m) \in Nat
      /\ Len(memory) \in Nat /\ Len(entries) \in Nat
      /\ \A i \in 1..(Len(memory) + Len(entries)) :
            m[i] = IF i <= Len(memory) THEN memory[i] ELSE entries[i - Len(memory)]
  BY <1>1, ConcatProperties
<1>5. Remembered \in Nat /\ Remembered > 0 BY GeminiAssumption
<1>6. d \in Nat /\ d <= Len(m) /\ Len(m) - d <= Remembered BY <1>2, <1>4, <1>5
<1>7. \A i \in (1 + d)..Len(m) : m[i] \in Entries BY <1>4, <1>6
<1>8. /\ memory' \in Seq(Entries) /\ Len(memory') = IF 1 + d <= Len(m) THEN Len(m) - (1 + d) + 1 ELSE 0
      /\ \A i \in 1..(Len(m) - (1 + d) + 1) : memory'[i] = m[(1 + d) + i - 1]
  <2>1. 1 + d \in Int /\ Len(m) \in Int BY <1>4, <1>6
  <2> QED BY <1>3, <1>7, <2>1, SubSeqProperties
<1>9. Len(memory') = Len(m) - d
  <2>1. CASE 1 + d <= Len(m)
    <3>1. Len(memory') = Len(m) - (1 + d) + 1 BY <1>8, <2>1, Zenon
    <3>2. \A n, e \in Nat : n - (1 + e) + 1 = n - e OBVIOUS
    <3> QED BY <1>4, <1>6, <3>1, <3>2, Zenon
  <2>2. CASE ~(1 + d <= Len(m))
    <3>1. Len(memory') = 0 BY <1>8, <2>2, Zenon
    <3>2. \A n, e \in Nat : e <= n /\ ~(1 + e <= n) => n - e = 0 OBVIOUS
    <3> QED BY <1>4, <1>6, <2>2, <3>1, <3>2, Zenon
  <2> QED BY <2>1, <2>2
<1>10. ASSUME NEW i \in DOMAIN memory'
       PROVE  \E k \in 1..(Len(memory) + Len(entries)) :
                k = i + d /\ memory'[i] = IF k <= Len(memory) THEN memory[k] ELSE entries[k - Len(memory)]
  <2>1. i \in 1..(Len(m) - d) BY <1>8, <1>9
  <2>2. \A n, e \in Nat : \A j \in 1..(n - e) :
           j \in 1..(n - (1 + e) + 1) /\ (1 + e) + j - 1 = j + e /\ j + e \in 1..n
    OBVIOUS
  <2>3. i \in 1..(Len(m) - (1 + d) + 1) /\ (1 + d) + i - 1 = i + d /\ i + d \in 1..Len(m)
    BY <1>4, <1>6, <2>1, <2>2, Zenon
  <2>4. memory'[i] = m[i + d] BY <1>8, <2>3, Zenon
  <2>5. i + d \in 1..(Len(memory) + Len(entries)) BY <1>4, <2>3, Zenon
  <2>6. PICK k \in 1..(Len(memory) + Len(entries)) : k = i + d BY <2>5
  <2>7. m[k] = IF k <= Len(memory) THEN memory[k] ELSE entries[k - Len(memory)] BY <1>4, <2>6, Zenon
  <2>8. memory'[i] = m[k] BY <2>4, <2>6, Zenon
  <2>9. memory'[i] = IF k <= Len(memory) THEN memory[k] ELSE entries[k - Len(memory)] BY <2>7, <2>8, Zenon
  <2> QED BY <2>6, <2>9, Zenon
<1>11. Len(memory') <= Remembered BY <1>6, <1>9
<1> QED BY <1>6, <1>8, <1>10, <1>11, Zenon

LEMMA MemoryStutters ==
    ASSUME MemoryInv, memory' = memory, outcome' = outcome, \A r \in Requests : pc[r] = "done" => pc'[r] = "done"
    PROVE  MemoryInv'
BY DEF MemoryInv

LEMMA MemoryGrows ==
    ASSUME MemoryInv, NEW entries \in Seq(Entries), Remember(entries),
           outcome' \in [Requests -> {"none", "understood", "structured", "raw", "failed", "cancelled"}],
           \A r \in Requests : pc[r] = "done" => pc'[r] = "done" /\ outcome'[r] = outcome[r],
           \A i \in DOMAIN entries : entries[i].role = "assistant" =>
             /\ i > 1 /\ entries[i - 1] = [role |-> "user", about |-> entries[i].about]
             /\ entries[i].about \in Requests /\ pc'[entries[i].about] = "done"
             /\ outcome'[entries[i].about] \in {"understood", "structured", "raw"}
    PROVE  MemoryInv'
<1>1. memory \in Seq(Entries) BY DEF MemoryInv
<1>2. PICK d \in Nat : \A i \in DOMAIN memory' : \E k \in 1..(Len(memory) + Len(entries)) :
          k = i + d /\ memory'[i] = IF k <= Len(memory) THEN memory[k] ELSE entries[k - Len(memory)]
  BY <1>1, Remembering
<1>3. memory' \in Seq(Entries) /\ Len(memory') <= Remembered BY <1>1, Remembering
<1>4. PICK n \in Nat, k \in Nat : DOMAIN memory = 1..n /\ n = Len(memory) /\ DOMAIN entries = 1..k /\ k = Len(entries)
  BY <1>1
<1>5. PICK z \in Nat : DOMAIN memory' = 1..z BY <1>3
<1>6. \A i \in 1..z : \E j \in 1..(n + k) :
          j = i + d /\ memory'[i] = IF j <= n THEN memory[j] ELSE entries[j - n]
  BY <1>2, <1>4, <1>5, Zenon
<1>7. ASSUME NEW i \in 1..z, memory'[i].role = "assistant"
      PROVE  /\ i > 1 => memory'[i - 1] = [role |-> "user", about |-> memory'[i].about]
             /\ memory'[i].about \in Requests /\ pc'[memory'[i].about] = "done"
             /\ outcome'[memory'[i].about] \in {"understood", "structured", "raw"}
  <2>1. PICK j \in 1..(n + k) : j = i + d /\ memory'[i] = IF j <= n THEN memory[j] ELSE entries[j - n]
    BY <1>6
  <2>2. i > 1 => j > 1 /\ memory'[i - 1] = IF j - 1 <= n THEN memory[j - 1] ELSE entries[j - 1 - n]
    <3>1. ASSUME i > 1 PROVE i - 1 \in 1..z /\ j - 1 = (i - 1) + d /\ j > 1 BY <2>1, <3>1
    <3>2. ASSUME i > 1
          PROVE  memory'[i - 1] = IF j - 1 <= n THEN memory[j - 1] ELSE entries[j - 1 - n]
      <4>1. PICK e \in 1..(n + k) : e = (i - 1) + d /\ memory'[i - 1] = IF e <= n THEN memory[e] ELSE entries[e - n]
        BY <1>6, <3>1, <3>2, Zenon
      <4>2. e = j - 1 BY <3>1, <3>2, <4>1, Zenon
      <4>3. CASE e <= n
        <5>1. memory'[i - 1] = memory[e] BY <4>1, <4>3, Zenon
        <5> QED BY <4>2, <4>3, <5>1
      <4>4. CASE ~(e <= n)
        <5>1. memory'[i - 1] = entries[e - n] BY <4>1, <4>4, Zenon
        <5> QED BY <4>2, <4>4, <5>1
      <4> QED BY <4>3, <4>4
    <3> QED BY <3>1, <3>2, Zenon
  <2>3. CASE j <= n
    <3>1. j \in 1..n /\ j - 1 <= n BY <2>3
    <3>2. memory'[i] = memory[j] BY <2>1, <2>3
    <3>3. /\ j > 1 => memory[j - 1] = [role |-> "user", about |-> memory[j].about]
          /\ memory[j].about \in Requests /\ pc[memory[j].about] = "done"
          /\ outcome[memory[j].about] \in {"understood", "structured", "raw"}
      BY <1>4, <1>7, <3>1, <3>2, Zenon DEF MemoryInv
    <3>4. i > 1 => memory'[i - 1] = memory[j - 1] /\ j > 1 BY <2>2, <3>1, Zenon
    <3> QED BY <3>2, <3>3, <3>4, Zenon
  <2>4. CASE ~(j <= n)
    <3>1. PICK e \in 1..k : e = j - n
      <4>1. j - n \in 1..k BY <2>4
      <4> QED BY <4>1
    <3>2. memory'[i] = entries[e] BY <2>1, <2>4, <3>1
    <3>3. /\ e > 1 /\ entries[e - 1] = [role |-> "user", about |-> entries[e].about]
          /\ entries[e].about \in Requests /\ pc'[entries[e].about] = "done"
          /\ outcome'[entries[e].about] \in {"understood", "structured", "raw"}
      BY <1>4, <1>7, <3>2, Zenon
    <3>4. ~(j - 1 <= n) /\ j - 1 - n = e - 1 BY <3>1, <3>3
    <3> QED BY <2>2, <3>2, <3>3, <3>4, Zenon
  <2> QED BY <2>3, <2>4
<1> QED BY <1>3, <1>5, <1>7 DEF MemoryInv

(* A question and its answer                                               *)
LEMMA ReplyMemory ==
    ASSUME MemoryInv, pc \in [Requests -> Places], NEW r \in Requests, pc[r] = "calling",
           NEW parsed \in {"understood", "structured", "raw", "failed"},
           pc' = [pc EXCEPT ![r] = "done"], outcome' = [outcome EXCEPT ![r] = parsed],
           Remember(<<[role |-> "user", about |-> r]>>
                      \o (IF parsed = "failed" THEN <<>> ELSE <<[role |-> "assistant", about |-> r]>>))
    PROVE  MemoryInv'
<1>1. PICK q : q = [role |-> "user", about |-> r] OBVIOUS
<1>2. PICK a : a = [role |-> "assistant", about |-> r] OBVIOUS
<1>3. q \in Entries /\ a \in Entries /\ q.role # "assistant" /\ a.about = r BY <1>1, <1>2 DEF Entries
<1>4. outcome \in [Requests -> {"none", "understood", "structured", "raw", "failed", "cancelled"}] BY DEF MemoryInv
<1>5. outcome' \in [Requests -> {"none", "understood", "structured", "raw", "failed", "cancelled"}] BY <1>4
<1>6. \A s \in Requests : pc[s] = "done" => pc'[s] = "done" /\ outcome'[s] = outcome[s] BY <1>4
<1>7. CASE parsed = "failed"
  <2>1. PICK e : e = <<q>> OBVIOUS
  <2>2. e \in Seq(Entries) /\ DOMAIN e = {1} /\ e[1] = q BY <1>3, <2>1
  <2>3. <<q>> \o <<>> = <<q>> BY <1>3, ConcatEmptySeq
  <2>4. Remember(e) BY <1>1, <1>7, <2>1, <2>3
  <2> QED BY <1>3, <1>5, <1>6, <2>2, <2>4, MemoryGrows
<1>8. CASE parsed # "failed"
  <2>1. PICK e : e = <<q>> \o <<a>> OBVIOUS
  <2>2. e \in Seq(Entries) /\ DOMAIN e = 1..2 /\ e[1] = q /\ e[2] = a BY <1>3, <2>1
  <2>4. Remember(e) BY <1>1, <1>2, <1>8, <2>1
  <2>5. pc'[r] = "done" /\ outcome'[r] \in {"understood", "structured", "raw"} BY <1>4, <1>8
  <2>6. \A i \in DOMAIN e : e[i].role = "assistant" =>
          /\ i > 1 /\ e[i - 1] = [role |-> "user", about |-> e[i].about]
          /\ e[i].about \in Requests /\ pc'[e[i].about] = "done"
          /\ outcome'[e[i].about] \in {"understood", "structured", "raw"}
    BY <1>1, <1>2, <1>3, <2>2, <2>5
  <2> QED BY <1>5, <1>6, <2>2, <2>4, <2>6, MemoryGrows
<1> QED BY <1>7, <1>8

-----------------------------------------------------------------------------
(* Gemini: the requests                                                    *)

LEMMA GeminiInitInd == GeminiInit => GeminiIndInv
<1> SUFFICES ASSUME GeminiInit PROVE GeminiIndInv OBVIOUS
<1>1. /\ kind \in Mixes /\ pc = [r \in Requests |-> "idle"] /\ attempt = [r \in Requests |-> 0]
      /\ held = [r \in Requests |-> 0] /\ outcome = [r \in Requests |-> "none"]
      /\ free = Permits /\ waiters = <<>> /\ memory = <<System>> /\ initialized = TRUE /\ reloading = FALSE
      /\ notes = 0 /\ reloads = 0
  BY DEF GeminiInit
<1>2. /\ Permits \in Nat /\ Attempts \in Nat /\ Remembered \in Nat /\ Remembered > 0
      /\ MaxNotes \in Nat /\ MaxReloads \in Nat
      /\ kind \in [Requests -> {"query", "simulate", "diagnose", "health"}]
  BY <1>1, GeminiAssumption
<1>3. Cardinality(TokensOf(held)) = 0
  <2>1. TokensOf(held) = {} BY <1>1 DEF TokensOf
  <2> QED BY <2>1, FS_EmptySet
<1>4. SemaphoreInv
  <2>1. pc \in [Requests -> Places] /\ held \in [Requests -> 0..2] BY <1>1 DEF Places
  <2>2. waiters \in Seq(Requests) /\ DOMAIN waiters = {} BY <1>1
  <2>3. QueueInOrder BY <1>1, <2>2 DEF QueueInOrder, Injective
  <2>4. Shares BY <1>1 DEF Shares, Working
  <2>5. free \in Nat /\ free + 0 = Permits BY <1>1, <1>2
  <2>6. free + Cardinality(TokensOf(held)) = Permits BY <1>3, <2>5, Zenon
  <2> QED BY <1>2, <2>1, <2>2, <2>3, <2>4, <2>5, <2>6, Zenon DEF SemaphoreInv
<1>5. CallsInv BY <1>1, <1>2 DEF CallsInv
<1>6. notes \in 0..MaxNotes /\ reloads \in 0..MaxReloads /\ initialized \in BOOLEAN /\ reloading \in BOOLEAN
  <2>1. \A n \in Nat : 0 \in 0..n OBVIOUS
  <2> QED BY <1>1, <1>2, <2>1, Zenon
<1>7. MemoryInv
  <2>1. System \in Entries /\ System.role # "assistant" BY DEF System, Entries
  <2>2. memory \in Seq(Entries) /\ Len(memory) = 1 /\ DOMAIN memory = {1} /\ memory[1] = System BY <1>1, <2>1
  <2> QED BY <1>1, <1>2, <2>1, <2>2 DEF MemoryInv
<1> QED BY <1>1, <1>4, <1>5, <1>6, <1>7, Zenon DEF GeminiIndInv

(* A handler ends.                                                         *)
LEMMA EndInd ==
    ASSUME GeminiIndInv, NEW r \in Requests, pc[r] # "done",
           NEW result \in {"understood", "structured", "raw", "failed", "cancelled"}, End(r, result),
           MemoryInv'
    PROVE  GeminiIndInv'
<1>1. /\ pc' = [pc EXCEPT ![r] = "done"] /\ Release(r)
      /\ UNCHANGED <<kind, attempt, initialized, reloading, notes, reloads>>
  BY DEF End
<1>2. SemaphoreInv' BY <1>1, ReleaseInd DEF GeminiIndInv
<1>3. CallsInv' BY <1>1 DEF GeminiIndInv, SemaphoreInv, CallsInv
<1> QED BY <1>1, <1>2, <1>3 DEF GeminiIndInv

(* One that ends without an answer leaves the conversation as it is.       *)
LEMMA EndSilentlyInd ==
    ASSUME GeminiIndInv, NEW r \in Requests, pc[r] # "done",
           NEW result \in {"understood", "structured", "raw", "failed", "cancelled"}, End(r, result), memory' = memory
    PROVE  GeminiIndInv'
<1>1. /\ pc' = [pc EXCEPT ![r] = "done"] /\ outcome' = [outcome EXCEPT ![r] = result]
      /\ MemoryInv /\ pc \in [Requests -> Places]
  BY DEF End, GeminiIndInv, SemaphoreInv
<1>2. outcome' \in [Requests -> {"none", "understood", "structured", "raw", "failed", "cancelled"}] BY <1>1 DEF MemoryInv
<1>3. \A s \in Requests : pc[s] = "done" => pc'[s] = "done" /\ outcome'[s] = outcome[s] BY <1>1 DEF MemoryInv
<1>4. MemoryInv' BY <1>1, <1>2, <1>3 DEF MemoryInv
<1> QED BY <1>4, EndInd

LEMMA RequestInd ==
    ASSUME GeminiIndInv, NEW r \in Requests,
           \/ Arrive(r) \/ Resume(r) \/ Call(r) \/ CallTimesOut(r) \/ CallFails(r) \/ GiveUp(r) \/ Deadline(r)
           \/ ContextFails(r) \/ HealthReply(r) \/ \E form \in Forms : Reply(r, form)
    PROVE  GeminiIndInv'
<1>1. SemaphoreInv /\ CallsInv /\ MemoryInv /\ pc \in [Requests -> Places] /\ Attempts \in Nat /\ Attempts > 0
  BY GeminiAssumption DEF GeminiIndInv, SemaphoreInv
<1>2. CASE Arrive(r)
  <2>1. /\ pc[r] = "idle"
        /\ Acquire(r, IF kind[r] = "simulate" THEN <<"outer", "inner">> ELSE <<"inner">>, "spacing")
        /\ UNCHANGED <<kind, attempt, outcome, memory, initialized, reloading, notes, reloads>>
    BY <1>2 DEF Arrive
  <2>2. Granted(r) BY <1>1, <2>1 DEF SemaphoreInv, QueueInOrder, Granted
  <2>3. SemaphoreInv' BY <1>1, <2>1, <2>2, AcquireInd
  <2>4. PICK place \in {"outer", "inner", "spacing"} : pc' = [pc EXCEPT ![r] = place]
    <3>1. PICK places : places = IF kind[r] = "simulate" THEN <<"outer", "inner">> ELSE <<"inner">> OBVIOUS
    <3>2. CASE kind[r] = "simulate" BY <1>1, <2>1, <3>1, <3>2 DEF Acquire, SemaphoreInv
    <3>3. CASE kind[r] # "simulate" BY <1>1, <2>1, <3>1, <3>3 DEF Acquire, SemaphoreInv
    <3> QED BY <3>2, <3>3
  <2>5. CallsInv' BY <1>1, <2>1, <2>4 DEF CallsInv
  <2>6. MemoryInv' BY <1>1, <2>1, <2>4, MemoryStutters
  <2> QED BY <2>1, <2>3, <2>5, <2>6 DEF GeminiIndInv
<1>3. CASE Resume(r)
  <2>1. Granted(r) /\ UNCHANGED <<kind, attempt, outcome, memory, initialized, reloading, notes, reloads>>
    BY <1>3 DEF Resume
  <2>2. CASE pc[r] = "outer" /\ Acquire(r, <<"inner">>, "spacing")
    <3>1. SemaphoreInv' BY <1>1, <2>1, <2>2, AcquireInd
    <3>2. PICK place \in {"inner", "spacing"} : pc' = [pc EXCEPT ![r] = place]
      BY <1>1, <2>2 DEF Acquire, SemaphoreInv
    <3>3. CallsInv' BY <1>1, <2>1, <2>2, <3>2 DEF CallsInv
    <3>4. MemoryInv' BY <1>1, <2>1, <2>2, <3>2, MemoryStutters
    <3> QED BY <2>1, <3>1, <3>3, <3>4 DEF GeminiIndInv
  <2>3. CASE pc[r] = "inner" /\ pc' = [pc EXCEPT ![r] = "spacing"] /\ UNCHANGED <<held, free, waiters>>
    <3>1. SemaphoreInv' BY <1>1, <2>1, <2>3, StaysInd DEF Working
    <3>2. CallsInv' BY <1>1, <2>1, <2>3 DEF CallsInv
    <3>3. MemoryInv' BY <1>1, <2>1, <2>3, MemoryStutters
    <3> QED BY <2>1, <3>1, <3>2, <3>3 DEF GeminiIndInv
  <2> QED BY <1>3, <2>2, <2>3 DEF Resume
<1>4. CASE Call(r)
  <2>1. /\ pc[r] \in {"spacing", "backoff"} /\ pc' = [pc EXCEPT ![r] = "calling"]
        /\ attempt' = [attempt EXCEPT ![r] = attempt[r] + 1]
        /\ UNCHANGED <<kind, held, outcome, free, waiters, memory, initialized, reloading, notes, reloads>>
    BY <1>4 DEF Call
  <2>2. SemaphoreInv' BY <1>1, <2>1, StaysInd DEF Working
  <2>3. CallsInv'
    <3>1. attempt[r] + 1 \in 0..Attempts BY <1>1, <2>1 DEF CallsInv
    <3> QED BY <1>1, <2>1, <3>1 DEF CallsInv
  <2>4. MemoryInv' BY <1>1, <2>1, MemoryStutters
  <2> QED BY <2>1, <2>2, <2>3, <2>4 DEF GeminiIndInv
<1>5. CASE CallTimesOut(r)
  <2>1. /\ pc[r] = "calling" /\ attempt[r] < Attempts /\ attempt' = [attempt EXCEPT ![r] = attempt[r] + 1]
        /\ UNCHANGED <<kind, pc, held, outcome, free, waiters, memory, initialized, reloading, notes, reloads>>
    BY <1>5 DEF CallTimesOut
  <2>2. SemaphoreInv' BY <1>1, <2>1, SemaphoreStutters
  <2>3. CallsInv'
    <3>1. attempt[r] + 1 \in 0..Attempts BY <1>1, <2>1 DEF CallsInv
    <3> QED BY <1>1, <2>1, <3>1 DEF CallsInv
  <2>4. MemoryInv' BY <1>1, <2>1, MemoryStutters
  <2> QED BY <2>1, <2>2, <2>3, <2>4 DEF GeminiIndInv
<1>6. CASE CallFails(r)
  <2>1. /\ pc[r] = "calling" /\ attempt[r] < Attempts /\ pc' = [pc EXCEPT ![r] = "backoff"]
        /\ UNCHANGED <<kind, attempt, held, outcome, free, waiters, memory, initialized, reloading, notes, reloads>>
    BY <1>6 DEF CallFails
  <2>2. SemaphoreInv' BY <1>1, <2>1, StaysInd DEF Working
  <2>3. CallsInv' BY <1>1, <2>1 DEF CallsInv
  <2>4. MemoryInv' BY <1>1, <2>1, MemoryStutters
  <2> QED BY <2>1, <2>2, <2>3, <2>4 DEF GeminiIndInv
<1>7. CASE GiveUp(r)
  <2>1. pc[r] = "calling" /\ End(r, "failed") /\ memory' = memory BY <1>7 DEF GiveUp
  <2> QED BY <2>1, EndSilentlyInd
<1>8. CASE Deadline(r)
  <2>1. /\ pc[r] \in {"outer", "inner"} \cup Working /\ memory' = memory
        /\ End(r, IF kind[r] = "health" THEN "failed" ELSE "cancelled")
    BY <1>8 DEF Deadline
  <2>2. PICK result \in {"failed", "cancelled"} : End(r, result) BY <2>1
  <2> QED BY <2>1, <2>2, EndSilentlyInd DEF Working
<1>9. CASE HealthReply(r)
  <2>1. pc[r] = "calling" /\ End(r, IF initialized THEN "understood" ELSE "failed") /\ memory' = memory
    BY <1>9 DEF HealthReply
  <2>2. PICK result \in {"understood", "failed"} : End(r, result) BY <2>1
  <2> QED BY <2>1, <2>2, EndSilentlyInd
<1>10. CASE \E form \in Forms : Reply(r, form)
  <2>1. PICK form \in Forms : Reply(r, form) BY <1>10
  <2>2. PICK parsed \in {"understood", "structured", "raw", "failed"} : parsed = Parsed(kind[r], form)
    BY DEF Parsed, FromText, Forms
  <2>3. /\ pc[r] = "calling" /\ End(r, parsed)
        /\ Remember(<<[role |-> "user", about |-> r]>>
                      \o (IF parsed = "failed" THEN <<>> ELSE <<[role |-> "assistant", about |-> r]>>))
    BY <2>1, <2>2 DEF Reply
  <2>4. pc' = [pc EXCEPT ![r] = "done"] /\ outcome' = [outcome EXCEPT ![r] = parsed] BY <2>3 DEF End
  <2>5. MemoryInv' BY <1>1, <2>3, <2>4, ReplyMemory
  <2> QED BY <2>3, <2>5, EndInd
<1>11. CASE ContextFails(r)
  <2>1. pc[r] = "idle" /\ End(r, "failed") /\ memory' = memory BY <1>11 DEF ContextFails
  <2> QED BY <2>1, EndSilentlyInd
<1> QED BY <1>2, <1>3, <1>4, <1>5, <1>6, <1>7, <1>8, <1>9, <1>10, <1>11

(* Notes and reloads                                                       *)
LEMMA ServiceInd ==
    ASSUME GeminiIndInv, Learn \/ Reload \/ Reloaded
    PROVE  GeminiIndInv'
<1>1. SemaphoreInv /\ CallsInv /\ MemoryInv /\ MaxNotes \in Nat /\ MaxReloads \in Nat /\ Remembered \in Nat
  BY GeminiAssumption DEF GeminiIndInv
<1>2. UNCHANGED <<kind, pc, attempt, held, outcome, free, waiters>> BY DEF Learn, Reload, Reloaded
<1>3. SemaphoreInv' BY <1>1, <1>2, SemaphoreStutters
<1>4. CallsInv' BY <1>1, <1>2 DEF CallsInv
<1>5. ASSUME NEW e \in Entries, e.role # "assistant", Remember(<<e>>) PROVE MemoryInv'
  <2>1. PICK entries : entries = <<e>> OBVIOUS
  <2>2. entries \in Seq(Entries) /\ DOMAIN entries = {1} /\ entries[1] = e BY <1>5, <2>1
  <2>3. outcome' \in [Requests -> {"none", "understood", "structured", "raw", "failed", "cancelled"}] BY <1>1, <1>2 DEF MemoryInv
  <2>4. Remember(entries) BY <1>5, <2>1
  <2> QED BY <1>1, <1>2, <1>5, <2>2, <2>3, <2>4, MemoryGrows
<1>6. CASE Learn
  <2>1. /\ notes < MaxNotes /\ notes' = notes + 1 /\ Remember(<<Note>>)
        /\ UNCHANGED <<initialized, reloading, reloads>>
    BY <1>6 DEF Learn
  <2>2. Note \in Entries /\ Note.role # "assistant" BY DEF Note, Entries
  <2>3. MemoryInv' BY <1>5, <2>1, <2>2
  <2>4. notes' \in 0..MaxNotes BY <1>1, <2>1 DEF GeminiIndInv
  <2> QED BY <1>2, <1>3, <1>4, <2>1, <2>3, <2>4 DEF GeminiIndInv
<1>7. CASE Reload
  <2>1. /\ reloads < MaxReloads /\ reloads' = reloads + 1 /\ reloading' = TRUE
        /\ memory' = <<>> /\ initialized' = FALSE /\ UNCHANGED notes
    BY <1>7 DEF Reload
  <2>2. memory' \in Seq(Entries) /\ DOMAIN memory' = {} /\ Len(memory') = 0 BY <2>1
  <2>3. MemoryInv' BY <1>1, <1>2, <2>2 DEF MemoryInv
  <2>4. reloads' \in 0..MaxReloads BY <1>1, <2>1 DEF GeminiIndInv
  <2> QED BY <1>2, <1>3, <1>4, <2>1, <2>3, <2>4 DEF GeminiIndInv
<1>8. CASE Reloaded
  <2>1. reloading' = FALSE /\ UNCHANGED <<notes, reloads>> BY <1>8 DEF Reloaded
  <2>2. CASE initialized' = TRUE /\ Remember(<<System>>)
    <3>1. System \in Entries /\ System.role # "assistant" BY DEF System, Entries
    <3>2. MemoryInv' BY <1>5, <2>2, <3>1
    <3> QED BY <1>2, <1>3, <1>4, <2>1, <2>2, <3>2 DEF GeminiIndInv
  <2>3. CASE UNCHANGED <<initialized, memory>>
    <3>1. MemoryInv' BY <1>1, <1>2, <2>3, MemoryStutters
    <3> QED BY <1>2, <1>3, <1>4, <2>1, <2>3, <3>1 DEF GeminiIndInv
  <2> QED BY <1>8, <2>2, <2>3 DEF Reloaded
<1> QED BY <1>6, <1>7, <1>8

LEMMA GeminiStutterInd == ASSUME GeminiIndInv, UNCHANGED geminiVars PROVE GeminiIndInv'
<1>1. UNCHANGED <<kind, pc, attempt, held, outcome, free, waiters, memory, initialized, reloading, notes, reloads>>
  BY DEF geminiVars
<1>2. SemaphoreInv' /\ CallsInv' /\ MemoryInv'
  BY <1>1, SemaphoreStutters, MemoryStutters DEF GeminiIndInv, CallsInv
<1> QED BY <1>1, <1>2 DEF GeminiIndInv

LEMMA GeminiIndImplies ==
    ASSUME GeminiIndInv
    PROVE  GeminiTypeOK /\ PermitsAccountedFor /\ BlockedBySimulations /\ AnswersFollowQuestions
<1>1. /\ SemaphoreInv /\ CallsInv /\ MemoryInv /\ QueueInOrder /\ Shares
      /\ pc \in [Requests -> Places] /\ held \in [Requests -> 0..2]
      /\ free \in Nat /\ waiters \in Seq(Requests) /\ free + Cardinality(TokensOf(held)) = Permits
  BY DEF GeminiIndInv, SemaphoreInv
<1>2. Taken = TokensOf(held) BY DEF Taken, TokensOf
<1>3. free \in 0..Permits
  <2>1. \A n \in Nat : free \in 0..(free + n) BY <1>1
  <2>2. Cardinality(TokensOf(held)) \in Nat BY TokensFinite
  <2> QED BY <1>1, <2>1, <2>2, Zenon
<1>4. GeminiTypeOK BY <1>1, <1>3, Zenon DEF GeminiIndInv, GeminiTypeOK, Places, CallsInv, MemoryInv
<1>5. \A r \in Requests : pc[r] \in {"idle", "done"} \cup Working => Granted(r)
  BY <1>1 DEF Granted, QueueInOrder, Working
<1>6. PermitsAccountedFor
  <2>1. free + Cardinality(Taken) = Permits BY <1>1, <1>2, Zenon
  <2>2. free > 0 => waiters = <<>> BY <1>1 DEF QueueInOrder
  <2>3. ASSUME NEW r \in Requests
        PROVE  /\ pc[r] \in Working => held[r] = IF kind[r] = "simulate" THEN 2 ELSE 1
               /\ pc[r] \in {"idle", "done"} => held[r] = 0 /\ Granted(r)
    BY <1>1, <1>5 DEF Shares, Wanted
  <2> QED BY <2>1, <2>2, <2>3, Zenon DEF PermitsAccountedFor
<1>7. BlockedBySimulations
  <2> SUFFICES ASSUME waiters # <<>>,
                      \A r \in Requests : pc[r] \notin Working /\ (pc[r] \in {"outer", "inner"} => ~Granted(r))
               PROVE  Cardinality({r \in Requests : kind[r] = "simulate" /\ pc[r] = "inner"}) = Permits
    BY DEF BlockedBySimulations
  <2> DEFINE S == {r \in Requests : kind[r] = "simulate" /\ pc[r] = "inner"}
  <2>1. free = 0 BY <1>1 DEF QueueInOrder
  <2>2. ASSUME NEW r \in Requests PROVE held[r] = IF r \in S THEN 1 ELSE 0
    <3>1. pc[r] \in {"idle", "outer", "inner", "done"} BY <1>1 DEF Places
    <3> QED BY <1>1, <3>1 DEF Shares, Wanted
  <2>3. S \in SUBSET Requests OBVIOUS
  <2> HIDE DEF S
  <2> DEFINE f == [r \in S |-> <<r, 1>>]
  <2>4. f \in Bijection(S, TokensOf(held))
    <3>1. \A r \in Requests, i \in 1..2 : <<r, i>> \in TokensOf(held) <=> r \in S /\ i = 1
      <4>1. ASSUME NEW r \in Requests, NEW i \in 1..2 PROVE i <= held[r] <=> r \in S /\ i = 1 BY <2>2
      <4> QED BY <4>1 DEF TokensOf
    <3>2. f \in [S -> TokensOf(held)]
      <4>1. \A r \in S : <<r, 1>> \in TokensOf(held) BY <2>2, <2>3 DEF TokensOf
      <4> QED BY <4>1
    <3>3. \A a, b \in S : f[a] = f[b] => a = b OBVIOUS
    <3>4. ASSUME NEW t \in TokensOf(held) PROVE \E a \in S : f[a] = t
      <4>1. PICK r \in Requests, i \in 1..2 : t = <<r, i>> BY DEF TokensOf
      <4>2. r \in S /\ t = <<r, 1>> BY <3>1, <4>1
      <4> QED BY <4>2
    <3> HIDE DEF f
    <3> QED BY <3>2, <3>3, <3>4, Fun_IsBij
  <2> HIDE DEF f
  <2>5. IsFiniteSet(S) BY <2>3, GeminiAssumption, FS_Subset
  <2>6. ExistsBijection(S, TokensOf(held)) BY <2>4 DEF ExistsBijection
  <2>7. Cardinality(TokensOf(held)) = Cardinality(S) BY <2>5, <2>6, FS_Bijection
  <2>8. Cardinality(S) \in Nat BY <2>5, FS_CardinalityType
  <2>9. \A n \in Nat : 0 + n = n OBVIOUS
  <2>10. Cardinality(S) = Permits BY <1>1, <2>1, <2>7, <2>8, <2>9, Zenon
  <2> QED BY <2>10 DEF S
<1>8. AnswersFollowQuestions BY <1>1 DEF MemoryInv, AnswersFollowQuestions
<1> QED BY <1>4, <1>6, <1>7, <1>8

-----------------------------------------------------------------------------
(* The Bayesian model: what a bounded list keeps                           *)

LEMMA MaxOfTwo ==
    ASSUME NEW a \in Int, NEW b \in Int
    PROVE  Max({a, b}) = IF a >= b THEN a ELSE b
<1>1. \E x \in {a, b} : \A y \in {a, b} : x >= y OBVIOUS
<1>2. Max({a, b}) \in {a, b} /\ \A y \in {a, b} : Max({a, b}) >= y BY <1>1 DEF Max
<1> QED BY <1>2

LEMMA MinOfTwo ==
    ASSUME NEW a \in Int, NEW b \in Int
    PROVE  Min({a, b}) \in Int
<1>1. \E x \in {a, b} : \A y \in {a, b} : x <= y OBVIOUS
<1>2. Min({a, b}) \in {a, b} BY <1>1 DEF Min
<1> QED BY <1>2

(* The values of k are x and values of s.                                  *)
Gathered(k, x, s) == \A i \in DOMAIN k : k[i] = x \/ \E j \in DOMAIN s : k[i] = s[j]

LEMMA AppendedAndKept ==
    ASSUME NEW S, NEW s \in Seq(S), NEW x \in S, NEW n \in Nat, n > 0, Len(s) <= n
    PROVE  /\ AppendKept(s, x, n) \in Seq(S)
           /\ Len(AppendKept(s, x, n)) = IF Len(s) < n THEN Len(s) + 1 ELSE n
           /\ Gathered(AppendKept(s, x, n), x, s)
<1>1. PICK h : h = Append(s, x) OBVIOUS
<1>2. PICK l \in Nat : l = Len(s) OBVIOUS
<1>3. /\ h \in Seq(S) /\ Len(h) = l + 1 /\ DOMAIN s = 1..l
      /\ \A i \in 1..(l + 1) : h[i] = IF i <= l THEN s[i] ELSE x
  BY <1>1, <1>2
<1>4. PICK a \in Nat : /\ a = Max({1, (l + 1) - n + 1})
                       /\ a = (IF l < n THEN 1 ELSE (l + 1) - n + 1) /\ a >= 1 /\ a <= l + 1
  <2>1. 1 \in Int /\ (l + 1) - n + 1 \in Int BY <1>2
  <2>2. Max({1, (l + 1) - n + 1}) = IF 1 >= (l + 1) - n + 1 THEN 1 ELSE (l + 1) - n + 1 BY <2>1, MaxOfTwo
  <2>3. l <= n BY <1>2
  <2> QED BY <1>2, <2>2, <2>3
<1>5. AppendKept(s, x, n) = SubSeq(h, a, l + 1) BY <1>1, <1>3, <1>4, Zenon DEF AppendKept, Recent
<1>6. \A i \in a..(l + 1) : h[i] \in S BY <1>3, <1>4
<1>7. PICK k : k = SubSeq(h, a, l + 1) OBVIOUS
<1>8. /\ k \in Seq(S) /\ Len(k) = IF a <= l + 1 THEN (l + 1) - a + 1 ELSE 0
      /\ \A i \in 1..((l + 1) - a + 1) : k[i] = h[a + i - 1]
  <2>1. a \in Int /\ l + 1 \in Int BY <1>2, <1>4
  <2> QED BY <1>6, <1>7, <2>1, SubSeqProperties
<1>9. Len(k) = IF l < n THEN l + 1 ELSE n
  <2>1. (IF a <= l + 1 THEN (l + 1) - a + 1 ELSE 0) = IF l < n THEN l + 1 ELSE n
    <3>1. l <= n BY <1>2
    <3> QED BY <1>2, <1>4, <3>1
  <2> QED BY <1>8, <2>1, Zenon
<1>10. ASSUME NEW i \in DOMAIN k PROVE k[i] = x \/ \E j \in DOMAIN s : k[i] = s[j]
  <2>1. i \in 1..((l + 1) - a + 1)
    <3>1. i \in 1..Len(k) BY <1>8
    <3> QED BY <1>4, <1>8, <3>1
  <2>2. a + i - 1 \in 1..(l + 1) BY <1>4, <2>1
  <2>3. k[i] = h[a + i - 1] BY <1>8, <2>1
  <2> QED BY <1>3, <2>2, <2>3
<1>11. Gathered(k, x, s) BY <1>10 DEF Gathered
<1> QED BY <1>2, <1>5, <1>7, <1>8, <1>9, <1>11, Zenon

-----------------------------------------------------------------------------
(* The Bayesian model: the inductive invariant                             *)

Stamps == {"aware", "naive"}
NoiseLevels == [raised : 0..MaxCalibrations, lowered : 0..MaxCalibrations]

(* Only the values the deployment has are kept, and not too many; filters  *)
(* and correlations belong to metrics.                                     *)
HistoriesInv ==
    /\ tracked \in Tracked
    /\ history \in [Metrics -> Seq(Int)]
    /\ \A m \in Metrics :
         /\ Len(history[m]) <= Kept
         /\ \A i \in DOMAIN history[m] : history[m][i] \in tracked.values[m]
    /\ stamp \in [Metrics -> Stamps] /\ poisoned \subseteq Known
    /\ anomalies \in [Metrics -> Seq(Stamps)]
    /\ \A m \in Metrics : Len(anomalies[m]) <= AnomaliesKept
LevelsInv ==
    /\ noise \in NoiseLevels /\ filter \in [Metrics -> NoiseLevels]
    /\ correlation \in [Pairs -> {"none", "weak", "strong"}]
    /\ phase \in {"up", "down"} /\ assessor \in {"asleep", "retrying"} /\ unassessed \in BOOLEAN
BayesianIndInv == HistoriesInv /\ LevelsInv /\ FiltersAgree /\ LearnedFromValues

LEMMA Constants ==
    /\ Kept \in Nat /\ Kept > 0 /\ AnomaliesKept \in Nat /\ AnomaliesKept > 0
    /\ Three \in Nat /\ Window \in Nat /\ Window > 0 /\ Enough \in Nat /\ Enough > 0 /\ Pattern \in Nat /\ Pattern > 0
    /\ Window <= Kept /\ Enough <= Kept /\ MaxCalibrations \in Nat
BY ModelAssumption, AnalysisAssumption

LEMMA ValuesTracked ==
    ASSUME tracked \in Tracked, NEW m \in Metrics, NEW v \in tracked.values[m] PROVE v \in Int
<1>1. tracked.values \in [Metrics -> SUBSET Int] BY ModelAssumption
<1> QED BY <1>1

LEMMA ModelInitInd == ModelInit => BayesianIndInv
<1> SUFFICES ASSUME ModelInit PROVE BayesianIndInv OBVIOUS
<1>1. /\ tracked \in Tracked /\ phase = "up" /\ noise = NoNoise /\ assessor = "asleep"
      /\ history = [m \in Metrics |-> <<>>] /\ stamp = [m \in Metrics |-> "aware"]
      /\ anomalies = [m \in Metrics |-> <<>>] /\ poisoned = {}
      /\ filter = [m \in Metrics |-> NoNoise]
      /\ correlation = [p \in Pairs |-> "none"] /\ unassessed = FALSE
  BY DEF ModelInit
<1>2. NoNoise \in NoiseLevels
  <2>1. 0 \in 0..MaxCalibrations BY Constants
  <2> QED BY <2>1 DEF NoNoise, NoiseLevels
<1>3. Known = {} /\ Anomalous = {} BY <1>1 DEF Known, Anomalous
<1>4. HistoriesInv
  <2>1. history \in [Metrics -> Seq(Int)] /\ anomalies \in [Metrics -> Seq(Stamps)] BY <1>1
  <2>2. \A m \in Metrics : Len(history[m]) = 0 /\ DOMAIN history[m] = {} /\ Len(anomalies[m]) = 0 BY <1>1
  <2>3. stamp \in [Metrics -> Stamps] BY <1>1 DEF Stamps
  <2> QED BY <1>1, <2>1, <2>2, <2>3, Constants DEF HistoriesInv
<1>5. LevelsInv BY <1>1, <1>2 DEF LevelsInv
<1>6. FiltersAgree /\ LearnedFromValues BY <1>1, <1>3 DEF FiltersAgree, LearnedFromValues
<1> QED BY <1>4, <1>5, <1>6 DEF BayesianIndInv

LEMMA KnownMeansSome ==
    ASSUME HistoriesInv, NEW m \in Metrics
    PROVE  Len(history[m]) \in Nat /\ (m \in Known <=> Len(history[m]) > 0)
<1>1. history[m] \in Seq(Int) BY DEF HistoriesInv
<1> QED BY <1>1 DEF Known

(* A value comes.                                                          *)
LEMMA UpdateInd ==
    ASSUME BayesianIndInv, NEW m \in Metrics, NEW v, UpdateState(m, v) PROVE BayesianIndInv'
<1>1. HistoriesInv /\ LevelsInv /\ FiltersAgree /\ LearnedFromValues BY DEF BayesianIndInv
<1>2. PICK h : h = AppendKept(history[m], v, Kept) OBVIOUS
<1>3. PICK sick \in BOOLEAN : sick = (m \in poisoned \/ v = NaN) OBVIOUS
<1>4. /\ v \in tracked.values[m] /\ history' = [history EXCEPT ![m] = h]
      /\ poisoned' = IF sick THEN poisoned \cup {m} ELSE poisoned
      /\ filter' = IF m \in Known THEN filter ELSE [filter EXCEPT ![m] = noise]
      /\ \E s \in Stamps :
           /\ stamp' = [stamp EXCEPT ![m] = s]
           /\ \/ UNCHANGED anomalies
              \/ /\ Len(h) >= Enough
                 /\ anomalies' = [anomalies EXCEPT ![m] = AppendKept(anomalies[m], s, AnomaliesKept)]
      /\ unassessed' = TRUE
      /\ UNCHANGED <<tracked, phase, noise, correlation, assessor>>
  BY <1>2, <1>3, Zenon DEF UpdateState, MayBeAnomaly, Stamps
<1>5. /\ history \in [Metrics -> Seq(Int)] /\ tracked \in Tracked
      /\ \A q \in Metrics : Len(history[q]) <= Kept /\ \A i \in DOMAIN history[q] : history[q][i] \in tracked.values[q]
      /\ stamp \in [Metrics -> Stamps] /\ poisoned \subseteq Known
      /\ anomalies \in [Metrics -> Seq(Stamps)] /\ \A q \in Metrics : Len(anomalies[q]) <= AnomaliesKept
  BY <1>1 DEF HistoriesInv
<1>6. v \in Int BY <1>4, <1>5, ValuesTracked
<1>7. PICK old : old = history[m] OBVIOUS
<1>8. /\ h \in Seq(Int) /\ Len(h) = (IF Len(old) < Kept THEN Len(old) + 1 ELSE Kept)
      /\ \A i \in DOMAIN h : h[i] = v \/ \E j \in DOMAIN old : h[i] = old[j]
  <2>1. old \in Seq(Int) /\ Len(old) <= Kept BY <1>5, <1>7
  <2>2. h = AppendKept(old, v, Kept) BY <1>2, <1>7
  <2>3. Kept \in Nat /\ Kept > 0 BY Constants
  <2>4. /\ AppendKept(old, v, Kept) \in Seq(Int)
        /\ Len(AppendKept(old, v, Kept)) = (IF Len(old) < Kept THEN Len(old) + 1 ELSE Kept)
        /\ Gathered(AppendKept(old, v, Kept), v, old)
    BY <1>6, <2>1, <2>3, AppendedAndKept
  <2>5. Gathered(h, v, old) BY <2>2, <2>4
  <2> QED BY <2>2, <2>4, <2>5 DEF Gathered
<1>9. Len(h) \in Nat /\ Len(h) > 0 /\ Len(h) <= Kept /\ Len(h) >= Len(history[m]) /\ Len(history[m]) \in Nat
  <2>1. old \in Seq(Int) /\ Len(old) <= Kept /\ Len(old) \in Nat BY <1>5, <1>7
  <2> QED BY <1>7, <1>8, <2>1, Constants
<1>10. history' \in [Metrics -> Seq(Int)] /\ history'[m] = h
       /\ \A q \in Metrics : q # m => history'[q] = history[q]
  BY <1>4, <1>5, <1>8
<1>11. Known' = Known \cup {m}
  <2>1. h # <<>> BY <1>9
  <2> QED BY <1>10, <2>1 DEF Known
<1>12. PICK s \in Stamps :
         /\ stamp' = [stamp EXCEPT ![m] = s]
         /\ \/ UNCHANGED anomalies
            \/ /\ Len(h) >= Enough
               /\ anomalies' = [anomalies EXCEPT ![m] = AppendKept(anomalies[m], s, AnomaliesKept)]
  BY <1>4
<1>13. /\ anomalies' \in [Metrics -> Seq(Stamps)] /\ \A q \in Metrics : Len(anomalies'[q]) <= AnomaliesKept
       /\ \A q \in Metrics : anomalies'[q] = anomalies[q] \/ (q = m /\ Len(h) >= Enough)
  <2>1. CASE UNCHANGED anomalies BY <1>5, <2>1
  <2>2. CASE Len(h) >= Enough /\ anomalies' = [anomalies EXCEPT ![m] = AppendKept(anomalies[m], s, AnomaliesKept)]
    <3>1. PICK b : b = AppendKept(anomalies[m], s, AnomaliesKept) OBVIOUS
    <3>2. PICK a : a = anomalies[m] OBVIOUS
    <3>3. a \in Seq(Stamps) /\ Len(a) <= AnomaliesKept /\ Len(a) \in Nat BY <1>5, <3>2
    <3>4. b \in Seq(Stamps) /\ Len(b) = IF Len(a) < AnomaliesKept THEN Len(a) + 1 ELSE AnomaliesKept
      <4>1. b = AppendKept(a, s, AnomaliesKept) BY <3>1, <3>2
      <4>2. AnomaliesKept \in Nat /\ AnomaliesKept > 0 BY Constants
      <4>3. /\ AppendKept(a, s, AnomaliesKept) \in Seq(Stamps)
            /\ Len(AppendKept(a, s, AnomaliesKept)) = IF Len(a) < AnomaliesKept THEN Len(a) + 1 ELSE AnomaliesKept
        BY <3>3, <4>2, AppendedAndKept
      <4> QED BY <4>1, <4>3, Zenon
    <3>5. Len(b) <= AnomaliesKept BY <3>3, <3>4, Constants
    <3>6. anomalies' = [anomalies EXCEPT ![m] = b] BY <2>2, <3>1
    <3> QED BY <1>5, <2>2, <3>4, <3>5, <3>6
  <2> QED BY <1>12, <2>1, <2>2
<1>14. HistoriesInv'
  <2>1. stamp' \in [Metrics -> Stamps] BY <1>5, <1>12
  <2>2. poisoned' \subseteq Known' BY <1>4, <1>5, <1>11
  <2>3. tracked' = tracked BY <1>4
  <2>4. ASSUME NEW q \in Metrics
        PROVE  Len(history'[q]) <= Kept /\ \A i \in DOMAIN history'[q] : history'[q][i] \in tracked.values[q]
    <3>1. CASE q = m
      <4>1. history'[q] = h BY <1>10, <3>1
      <4>2. Len(h) <= Kept BY <1>9
      <4>3. \A j \in DOMAIN old : old[j] \in tracked.values[m] BY <1>5, <1>7
      <4>4. \A i \in DOMAIN h : h[i] \in tracked.values[m] BY <1>4, <1>8, <4>3, Zenon
      <4> QED BY <3>1, <4>1, <4>2, <4>4, Zenon
    <3>2. CASE q # m BY <1>5, <1>10, <3>2
    <3> QED BY <3>1, <3>2
  <2> QED BY <1>5, <1>10, <1>13, <2>1, <2>2, <2>3, <2>4 DEF HistoriesInv
<1>15. LevelsInv' BY <1>1, <1>4 DEF LevelsInv
<1>16. FiltersAgree'
  <2>1. ASSUME NEW q \in Known' PROVE filter'[q] = noise
    <3>1. q \in Metrics BY DEF Known
    <3>2. CASE m \in Known BY <1>1, <1>4, <1>11, <3>2 DEF FiltersAgree
    <3>3. CASE m \notin Known
      <4>1. filter' = [filter EXCEPT ![m] = noise] /\ filter \in [Metrics -> NoiseLevels]
        BY <1>1, <1>4, <3>3 DEF LevelsInv
      <4> QED BY <1>1, <1>11, <3>1, <4>1 DEF FiltersAgree
    <3> QED BY <3>2, <3>3
  <2> QED BY <1>4, <2>1 DEF FiltersAgree
<1>17. LearnedFromValues'
  <2>1. \A q \in Metrics : Len(history'[q]) >= Len(history[q]) /\ Len(history[q]) \in Nat /\ Len(history'[q]) \in Nat
    <3>1. ASSUME NEW q \in Metrics
          PROVE  Len(history'[q]) >= Len(history[q]) /\ Len(history[q]) \in Nat /\ Len(history'[q]) \in Nat
      <4>1. CASE q = m BY <1>9, <1>10, <4>1
      <4>2. CASE q # m
        <5>1. history'[q] = history[q] /\ history[q] \in Seq(Int) BY <1>5, <1>10, <4>2
        <5> QED BY <5>1
      <4> QED BY <4>1, <4>2
    <3> QED BY <3>1
  <2>2. ASSUME NEW q \in Anomalous' PROVE Len(history'[q]) >= Enough
    <3>1. q \in Metrics /\ anomalies'[q] # <<>> BY DEF Anomalous
    <3>2. CASE anomalies'[q] = anomalies[q]
      <4>1. Len(history[q]) >= Enough BY <1>1, <3>1, <3>2 DEF LearnedFromValues, Anomalous
      <4> QED BY <2>1, <3>1, <4>1, Constants
    <3>3. CASE q = m /\ Len(h) >= Enough BY <1>10, <3>3
    <3> QED BY <1>13, <3>1, <3>2, <3>3
  <2>3. ASSUME NEW p \in Pairs, correlation'[p] # "none", NEW q \in p PROVE Len(history'[q]) >= Window
    <3>1. q \in Metrics BY DEF Pairs
    <3>2. Len(history[q]) >= Window BY <1>1, <1>4, <2>3 DEF LearnedFromValues
    <3> QED BY <2>1, <3>1, <3>2, Constants
  <2> QED BY <2>2, <2>3 DEF LearnedFromValues
<1> QED BY <1>14, <1>15, <1>16, <1>17 DEF BayesianIndInv

(* When the histories stay                                                 *)
LEMMA HistoriesStay ==
    ASSUME HistoriesInv, UNCHANGED <<tracked, history, stamp, anomalies, poisoned>>
    PROVE  HistoriesInv' /\ Known' = Known /\ Anomalous' = Anomalous
<1>1. Known' = Known /\ Anomalous' = Anomalous BY DEF Known, Anomalous
<1> QED BY <1>1 DEF HistoriesInv

LEMMA CalibrateInd ==
    ASSUME BayesianIndInv, NEW grade \in {"poor", "good"}, NEW scored, Calibrate(grade, scored) PROVE BayesianIndInv'
<1>1. HistoriesInv /\ LevelsInv /\ FiltersAgree /\ LearnedFromValues BY DEF BayesianIndInv
<1>2. PICK new : new = CASE grade = "poor" -> [noise EXCEPT !.raised = @ + 1]
                         [] grade = "good" -> [noise EXCEPT !.lowered = @ + 1]
  OBVIOUS
<1>3. /\ new.raised <= MaxCalibrations /\ new.lowered <= MaxCalibrations /\ noise' = new
      /\ filter' = Retuned(new, scored)
      /\ UNCHANGED <<tracked, phase, history, stamp, anomalies, poisoned, correlation, assessor, unassessed>>
  BY <1>2, Zenon DEF Calibrate
<1>4. HistoriesInv' /\ Known' = Known /\ Anomalous' = Anomalous BY <1>1, <1>3, HistoriesStay
<1>5. new \in NoiseLevels
  <2>1. PICK a \in 0..MaxCalibrations, b \in 0..MaxCalibrations : noise = [raised |-> a, lowered |-> b]
    BY <1>1 DEF LevelsInv, NoiseLevels
  <2>2. CASE grade = "poor"
    <3>1. new = [raised |-> a + 1, lowered |-> b] BY <1>2, <2>1, <2>2
    <3>2. a + 1 <= MaxCalibrations BY <1>3, <3>1
    <3>3. a + 1 \in 0..MaxCalibrations BY <3>2, Constants
    <3> QED BY <3>1, <3>3 DEF NoiseLevels
  <2>3. CASE grade = "good"
    <3>1. new = [raised |-> a, lowered |-> b + 1] BY <1>2, <2>1, <2>3
    <3>2. b + 1 <= MaxCalibrations BY <1>3, <3>1
    <3>3. b + 1 \in 0..MaxCalibrations BY <3>2, Constants
    <3> QED BY <3>1, <3>3 DEF NoiseLevels
  <2> QED BY <2>2, <2>3
<1>6. filter' = [m \in Metrics |-> IF m \in Known THEN new ELSE filter[m]] BY <1>3 DEF Retuned
<1>7. LevelsInv' BY <1>1, <1>3, <1>5, <1>6 DEF LevelsInv
<1>8. FiltersAgree' BY <1>3, <1>4, <1>6 DEF FiltersAgree, Known
<1>9. LearnedFromValues' BY <1>1, <1>3, <1>4 DEF LearnedFromValues
<1> QED BY <1>4, <1>7, <1>8, <1>9 DEF BayesianIndInv

LEMMA AnalyseInd == ASSUME BayesianIndInv, AnalyseCorrelation PROVE BayesianIndInv'
<1>1. HistoriesInv /\ LevelsInv /\ FiltersAgree /\ LearnedFromValues BY DEF BayesianIndInv
<1>2. UNCHANGED <<tracked, phase, history, stamp, anomalies, poisoned, filter, noise, assessor, unassessed>>
  BY DEF AnalyseCorrelation
<1>3. HistoriesInv' /\ Known' = Known /\ Anomalous' = Anomalous BY <1>1, <1>2, HistoriesStay
<1>4. PICK new \in [{p \in Pairs : Correlates(p)} -> {"insignificant", "weak", "strong"}] :
          correlation' = [p \in Pairs |->
             IF Correlates(p) /\ new[p] # "insignificant" THEN new[p] ELSE correlation[p]]
  BY DEF AnalyseCorrelation
<1>5. ASSUME NEW p \in Pairs
      PROVE  \/ correlation'[p] = correlation[p]
             \/ Correlates(p) /\ correlation'[p] \in {"weak", "strong"}
  BY <1>4
<1>6. correlation' \in [Pairs -> {"none", "weak", "strong"}]
  <2>1. \A p \in Pairs : correlation'[p] \in {"none", "weak", "strong"} BY <1>1, <1>5 DEF LevelsInv
  <2>2. correlation' = [p \in Pairs |-> correlation'[p]] BY <1>4
  <2> QED BY <2>1, <2>2
<1>7. LevelsInv' BY <1>1, <1>2, <1>6 DEF LevelsInv
<1>8. FiltersAgree' BY <1>1, <1>2, <1>3 DEF FiltersAgree
<1>9. LearnedFromValues'
  <2>1. ASSUME NEW p \in Pairs, correlation'[p] # "none", NEW m \in p PROVE Len(history[m]) >= Window
    BY <1>1, <1>5, <2>1 DEF LearnedFromValues, Correlates
  <2> QED BY <1>1, <1>2, <1>3, <2>1 DEF LearnedFromValues
<1> QED BY <1>3, <1>7, <1>8, <1>9 DEF BayesianIndInv

LEMMA TasksInd == ASSUME BayesianIndInv, AssessHealth \/ RetryAssessment \/ BeginReload PROVE BayesianIndInv'
<1>1. HistoriesInv /\ LevelsInv /\ FiltersAgree /\ LearnedFromValues BY DEF BayesianIndInv
<1>2. UNCHANGED <<tracked, history, stamp, anomalies, poisoned, filter, noise, correlation>>
  BY DEF AssessHealth, RetryAssessment, BeginReload
<1>3. phase' \in {"up", "down"} /\ assessor' \in {"asleep", "retrying"} /\ unassessed' \in BOOLEAN
  BY <1>1 DEF AssessHealth, RetryAssessment, BeginReload, LevelsInv
<1>4. HistoriesInv' /\ Known' = Known /\ Anomalous' = Anomalous BY <1>1, <1>2, HistoriesStay
<1> QED BY <1>1, <1>2, <1>3, <1>4 DEF BayesianIndInv, LevelsInv, FiltersAgree, LearnedFromValues

(* What was learned is dropped, the noise is not.                          *)
LEMMA FinishReloadInd == ASSUME BayesianIndInv, FinishReload PROVE BayesianIndInv'
<1>1. HistoriesInv /\ LevelsInv BY DEF BayesianIndInv
<1>2. /\ history' = [m \in Metrics |-> <<>>] /\ stamp' = [m \in Metrics |-> "aware"]
      /\ anomalies' = [m \in Metrics |-> <<>>] /\ poisoned' = {}
      /\ filter' = [m \in Metrics |-> NoNoise]
      /\ correlation' = [p \in Pairs |-> "none"] /\ unassessed' = FALSE
      /\ phase' = "up" /\ UNCHANGED <<tracked, noise, assessor>>
  BY DEF FinishReload, Empty
<1>3. Known' = {} /\ Anomalous' = {} BY <1>2 DEF Known, Anomalous
<1>4. HistoriesInv'
  <2>1. history' \in [Metrics -> Seq(Int)] /\ anomalies' \in [Metrics -> Seq(Stamps)] BY <1>2
  <2>2. \A m \in Metrics : Len(history'[m]) = 0 /\ DOMAIN history'[m] = {} /\ Len(anomalies'[m]) = 0 BY <1>2
  <2>3. stamp' \in [Metrics -> Stamps] BY <1>2 DEF Stamps
  <2>4. tracked' \in Tracked BY <1>1, <1>2 DEF HistoriesInv
  <2> QED BY <1>2, <2>1, <2>2, <2>3, <2>4, Constants DEF HistoriesInv
<1>5. NoNoise \in NoiseLevels
  <2>1. 0 \in 0..MaxCalibrations BY Constants
  <2> QED BY <2>1 DEF NoNoise, NoiseLevels
<1>6. LevelsInv' BY <1>1, <1>2, <1>5 DEF LevelsInv
<1>7. FiltersAgree' /\ LearnedFromValues' BY <1>2, <1>3 DEF FiltersAgree, LearnedFromValues
<1> QED BY <1>4, <1>6, <1>7 DEF BayesianIndInv

LEMMA ModelStutterInd == ASSUME BayesianIndInv, UNCHANGED modelVars PROVE BayesianIndInv'
<1>1. UNCHANGED <<tracked, phase, history, stamp, anomalies, poisoned, filter, noise, correlation,
                  assessor, unassessed>>
  BY DEF modelVars
<1>2. HistoriesInv' /\ Known' = Known /\ Anomalous' = Anomalous BY <1>1, HistoriesStay DEF BayesianIndInv
<1> QED BY <1>1, <1>2 DEF BayesianIndInv, LevelsInv, FiltersAgree, LearnedFromValues

LEMMA ModelNextInd == ASSUME BayesianIndInv, ModelNext PROVE BayesianIndInv'
BY UpdateInd, CalibrateInd, AnalyseInd, TasksInd, FinishReloadInd DEF ModelNext

(* Whatever is asked, a confident answer rests on metrics with values.     *)
LEMMA LongIsKnown ==
    ASSUME HistoriesInv, NEW n \in Nat, n > 0 PROVE Long(n) \subseteq Known
<1>1. ASSUME NEW m \in Long(n) PROVE m \in Known
  <2>1. m \in Metrics /\ Len(history[m]) >= n BY DEF Long
  <2> QED BY <2>1, KnownMeansSome
<1> QED BY <1>1

Founded(type, a) ==
    /\ ~a.ok => a.confidence = 0 /\ a.over = {}
    /\ a.over \subseteq Known
    /\ a.confidence > 70 => \/ Cardinality(a.over) >= Three
                            \/ a.over \cap Long(Pattern) # {}
                            \/ type = "utility_optimization"
                            \/ type = "correlation" /\ a.over \subseteq Long(Window)

LEMMA FailedIsFounded == \A type : Founded(type, Failed)
BY DEF Founded, Failed

LEMMA AnsweredIsFounded ==
    ASSUME NEW type, NEW c \in Int, NEW over, over \subseteq Known,
           c > 70 => \/ Cardinality(over) >= Three
                     \/ over \cap Long(Pattern) # {}
                     \/ type = "utility_optimization"
                     \/ type = "correlation" /\ over \subseteq Long(Window)
    PROVE  Founded(type, Answered(c, over))
<1>1. /\ Answered(c, over).ok = TRUE /\ Answered(c, over).confidence = c
      /\ Answered(c, over).over = over
  BY DEF Answered
<1> QED BY <1>1 DEF Founded

LEMMA AnswersAreFounded ==
    ASSUME BayesianIndInv, NEW type \in QueryTypes, NEW m \in Metrics
    PROVE  Founded(type, Answer(type, m))
<1>1. HistoriesInv /\ LearnedFromValues BY DEF BayesianIndInv
<1>2. /\ Long(Enough) \subseteq Known /\ Long(Window) \subseteq Known /\ Long(Pattern) \subseteq Known
  BY <1>1, Constants, LongIsKnown
<1>3. CASE type = "current_state"
  <2>1. Answer(type, m) = Answered(IF Known = {} THEN 0 ELSE 10, Known) BY <1>3 DEF Answer, CurrentState
  <2>2. PICK c \in {0, 10} : c = IF Known = {} THEN 0 ELSE 10 OBVIOUS
  <2> QED BY <2>1, <2>2, AnsweredIsFounded
<1>4. CASE type = "utility_optimization"
  <2>1. Answer(type, m) = UtilityOptimization BY <1>4 DEF Answer
  <2>2. PICK c \in {85, 70} : c = IF Cardinality(DOMAIN tracked.profiles) >= Three THEN 85 ELSE 70 OBVIOUS
  <2>3. UtilityOptimization = Failed \/ UtilityOptimization = Answered(c, Known)
    BY <2>2 DEF UtilityOptimization
  <2>4. Founded(type, Answered(c, Known)) BY <1>4, AnsweredIsFounded
  <2> QED BY <2>1, <2>3, <2>4, FailedIsFounded
<1>5. CASE type = "model_performance"
  <2>1. Answer(type, m) = ModelPerformance BY <1>5 DEF Answer
  <2>2. PICK c \in {80, 60} : c = IF Cardinality(Long(Enough)) >= Three THEN 80 ELSE 60 OBVIOUS
  <2>3. ModelPerformance = Failed \/ ModelPerformance = Answered(c, Long(Enough))
    BY <2>2 DEF ModelPerformance
  <2>4. Founded(type, Answered(c, Long(Enough))) BY <1>2, <2>2, AnsweredIsFounded
  <2> QED BY <2>1, <2>3, <2>4, FailedIsFounded
<1>6. CASE type = "temporal_patterns"
  <2>1. Answer(type, m) = TemporalPatterns(m) BY <1>6 DEF Answer
  <2>2. CASE m \notin Long(Pattern)
    <3>1. TemporalPatterns(m) = Answered(0, {}) BY <2>2 DEF TemporalPatterns
    <3>2. Founded(type, Answered(0, {})) BY AnsweredIsFounded
    <3> QED BY <2>1, <3>1, <3>2
  <2>3. CASE m \in Long(Pattern)
    <3>1. PICK c \in Int : c = Min({90, 50 + Len(history[m])})
      <4>1. 50 + Len(history[m]) \in Int BY <1>1, KnownMeansSome
      <4> QED BY <4>1, MinOfTwo
    <3>2. TemporalPatterns(m) = Failed \/ TemporalPatterns(m) = Answered(c, {m})
      BY <2>3, <3>1 DEF TemporalPatterns
    <3>3. {m} \subseteq Known /\ {m} \cap Long(Pattern) # {} BY <1>2, <2>3
    <3>4. Founded(type, Answered(c, {m})) BY <3>3, AnsweredIsFounded
    <3> QED BY <2>1, <3>2, <3>4, FailedIsFounded
  <2> QED BY <2>2, <2>3
<1>7. CASE type = "anomaly_analysis" BY <1>7, FailedIsFounded DEF Answer
<1>8. CASE type = "system_health"
  <2>1. Answer(type, m) = SystemHealth BY <1>8 DEF Answer
  <2>2. PICK c \in {85, 70} : c = IF Cardinality(Long(Enough)) >= Three THEN 85 ELSE 70 OBVIOUS
  <2>3. SystemHealth = Answered(c, Long(Enough)) BY <2>2 DEF SystemHealth
  <2>4. Founded(type, Answered(c, Long(Enough))) BY <1>2, <2>2, AnsweredIsFounded
  <2> QED BY <2>1, <2>3, <2>4
<1>9. CASE type = "performance_forecast"
  <2>1. Answer(type, m) = PerformanceForecast BY <1>9 DEF Answer
  <2>2. PICK forecast :
          forecast = Long(Window) \cap {"image_processing_time", "confidence", "utility", "cpu_usage"}
    OBVIOUS
  <2>3. PICK c \in {75, 60} : c = IF Cardinality(forecast) >= Three THEN 75 ELSE 60 OBVIOUS
  <2>4. PerformanceForecast = Failed \/ PerformanceForecast = Answered(c, forecast)
    BY <2>2, <2>3, Zenon DEF PerformanceForecast
  <2>5. forecast \subseteq Known BY <1>2, <2>2
  <2>6. Founded(type, Answered(c, forecast)) BY <2>3, <2>5, AnsweredIsFounded
  <2> QED BY <2>1, <2>4, <2>6, FailedIsFounded
<1>10. CASE type = "correlation"
  <2>1. Answer(type, m) = Correlations BY <1>10 DEF Answer
  <2>2. PICK over : over = UNION {p \in Pairs : correlation[p] # "none"} OBVIOUS
  <2>3. over \subseteq Long(Window)
    <3>1. ASSUME NEW q \in over PROVE q \in Long(Window)
      <4>1. PICK p \in Pairs : correlation[p] # "none" /\ q \in p BY <2>2
      <4>2. q \in Metrics BY <4>1 DEF Pairs
      <4> QED BY <1>1, <4>1, <4>2 DEF LearnedFromValues, Long
    <3> QED BY <3>1
  <2>4. over \subseteq Known BY <1>2, <2>3
  <2>5. Founded(type, Answered(90, over)) BY <1>10, <2>3, <2>4, AnsweredIsFounded
  <2> QED BY <2>1, <2>2, <2>5 DEF Correlations
<1>11. CASE type \in {"historical", "prediction", "natural_language"}
  <2>1. Answer(type, m) = Answered(50, {}) \/ Answer(type, m) = Answered(0, {}) BY <1>11 DEF Answer
  <2>2. Founded(type, Answered(50, {})) /\ Founded(type, Answered(0, {})) BY AnsweredIsFounded
  <2> QED BY <2>1, <2>2
<1> QED BY <1>3, <1>4, <1>5, <1>6, <1>7, <1>8, <1>9, <1>10, <1>11 DEF QueryTypes

LEMMA BayesianIndImplies ==
    BayesianIndInv => BayesianTypeOK /\ FiltersAgree /\ LearnedFromValues /\ ConfidenceIsFounded
<1> SUFFICES ASSUME BayesianIndInv
             PROVE  BayesianTypeOK /\ FiltersAgree /\ LearnedFromValues /\ ConfidenceIsFounded
  OBVIOUS
<1>1. HistoriesInv /\ LevelsInv /\ FiltersAgree /\ LearnedFromValues BY DEF BayesianIndInv
<1>2. BayesianTypeOK
  <2>1. ASSUME NEW m \in Metrics PROVE ToSet(history[m]) \subseteq tracked.values[m]
    <3>1. \A i \in DOMAIN history[m] : history[m][i] \in tracked.values[m] BY <1>1 DEF HistoriesInv
    <3> QED BY <3>1 DEF ToSet
  <2> QED BY <1>1, <2>1 DEF BayesianTypeOK, HistoriesInv, LevelsInv, NoiseLevels, Stamps
<1>3. \A type \in QueryTypes, m \in Metrics : Founded(type, Answer(type, m)) BY AnswersAreFounded
<1>4. ConfidenceIsFounded BY <1>3, Zenon DEF ConfidenceIsFounded, Founded
<1> QED BY <1>1, <1>2, <1>4

-----------------------------------------------------------------------------
(* The process                                                             *)

(* What is only to look at the health of a twin gets no further, and stops *)
(* the twin it started.                                                    *)
HealthOnly ==
    args.mode = "health_check" =>
        /\ args.component = "digital-twin" /\ args.rest = <<>>
        /\ at \in 1..4 /\ up \notin {"starting", "up"}

LEMMA HealthStages ==
    ASSUME HealthOnly, args.mode = "health_check", NEW stage, Running(stage)
    PROVE  /\ stage \in {"check", "validate", "create", "health"}
           /\ stage # "health" => at + 1 \in 1..4
<1>1. Procedure(Component) = StartDigitalTwin
  <2>1. Component = "digital-twin" BY DEF HealthOnly, Component
  <2> QED BY <2>1 DEF Procedure, Adapters
<1>2. at \in 1..4 /\ StartDigitalTwin[at] = stage BY <1>1 DEF HealthOnly, Running
<1> QED BY <1>2 DEF StartDigitalTwin

LEMMA HealthInd ==
    ASSUME LaunchIndInv, HealthOnly, Work \/ KernelEnds \/ Signal PROVE HealthOnly'
<1> SUFFICES ASSUME args'.mode = "health_check" PROVE HealthOnly' BY DEF HealthOnly
<1>1. args \in [component : Named, mode : Modes, rest : Seq(Components)]
  BY DEF LaunchIndInv, LaunchTypes
<1>2. args.mode = "health_check"
  BY <1>1 DEF Work, Validate, DryRun, GetKey, CheckEnvironment, Create, FindPrompts, StartWatching, SetHandlers,
     Start, StartTask, TaskStarts, CheckHealth, ValidateAll, Shutdown, WaitForKernel, Unwind, KernelEnds, Signal,
     OnwardOrExit, Onward, Exit, Return, NextComponent
<1>3. /\ args.component = "digital-twin" /\ args.rest = <<>>
      /\ at \in 1..4 /\ up \notin {"starting", "up"}
  BY <1>2 DEF HealthOnly
<1>4. \A stage : Running(stage) => /\ stage \in {"check", "validate", "create", "health"}
                                   /\ stage # "health" => at + 1 \in 1..4
  BY <1>2, HealthStages
<1>5. CASE Validate \/ CheckEnvironment \/ Create
  <2>1. Onward \/ (Exit("error") /\ UNCHANGED up)
    BY <1>2, <1>5 DEF Validate, CheckEnvironment, Create, OnwardOrExit
  <2>2. at + 1 \in 1..4 BY <1>4, <1>5 DEF Validate, CheckEnvironment, Create
  <2> QED BY <1>3, <2>1, <2>2 DEF HealthOnly, Onward, Exit
<1>6. CASE CheckHealth
  <2>1. (Exit("ok") \/ Exit("error")) /\ up' \in {"stopped", "failed"} BY <1>2, <1>6 DEF CheckHealth
  <2> QED BY <1>3, <2>1 DEF HealthOnly, Exit
<1>7. CASE DryRun \/ GetKey \/ FindPrompts \/ StartWatching \/ SetHandlers \/ Start \/ StartTask
             \/ ValidateAll \/ Shutdown \/ WaitForKernel
  BY <1>4, <1>7 DEF DryRun, GetKey, FindPrompts, StartWatching, SetHandlers, Start, StartTask, ValidateAll,
                    Shutdown, WaitForKernel
<1>8. CASE TaskStarts \/ KernelEnds BY <1>3, <1>8 DEF TaskStarts, KernelEnds
<1>9. CASE Unwind BY <1>3, <1>9 DEF Unwind, Exit, HealthOnly
<1>10. CASE Signal
  <2>1. UNCHANGED <<args, at>> /\ up' \in {up, "stopped"} BY <1>10 DEF Signal, Handle
  <2> QED BY <1>3, <2>1 DEF HealthOnly
<1> QED BY <1>5, <1>6, <1>7, <1>8, <1>9, <1>10 DEF Work

(* A component is not exchanged while it is up.                            *)
LEMMA UpKeepsComponent ==
    ASSUME LaunchIndInv, Work \/ KernelEnds \/ Signal, up' = "up" PROVE args' = args
<1>1. LaunchTypes /\ Begun BY DEF LaunchIndInv
<1>2. \A state : Return(state) => args' = args BY DEF Return, Exit, NextComponent
<1>3. CASE ValidateAll
  <2>1. CASE args.mode = "validate_only"
    <3>1. up' = up BY <1>3, <2>1 DEF ValidateAll
    <3>2. up = "down" BY <1>1, <1>3, StageFacts DEF ValidateAll, Begun
    <3> QED BY <3>1, <3>2
  <2>2. CASE args.mode # "validate_only" BY <1>3, <2>2 DEF ValidateAll, Onward
  <2> QED BY <2>1, <2>2
<1>4. CASE Validate \/ DryRun \/ FindPrompts \/ Shutdown
  BY <1>2, <1>4 DEF Validate, DryRun, FindPrompts, Shutdown, Onward, Exit
<1>5. CASE GetKey \/ CheckEnvironment \/ Create \/ CheckHealth
  BY <1>5 DEF GetKey, CheckEnvironment, Create, CheckHealth, OnwardOrExit, Onward, Exit
<1>6. CASE StartWatching \/ SetHandlers \/ Start \/ StartTask \/ TaskStarts \/ WaitForKernel \/ Unwind
             \/ KernelEnds \/ Signal
  BY <1>6 DEF StartWatching, SetHandlers, Start, StartTask, TaskStarts, WaitForKernel, Unwind, KernelEnds, Signal, Exit
<1> QED BY <1>3, <1>4, <1>5, <1>6 DEF Work

(* A procedure goes on by one stage, or another one begins.                *)
LEMMA StagesInOrder ==
    ASSUME LaunchIndInv, Work \/ KernelEnds \/ Signal
    PROVE  (args' = args /\ at' \in {at, at + 1}) \/ at' = 1
<1>1. LaunchTypes BY DEF LaunchIndInv
<1>2. \A state : Return(state) => (args' = args /\ at' = at) \/ at' = 1 BY DEF Return, Exit, NextComponent
<1>3. CASE ValidateAll
  <2>1. at = 1 BY <1>1, <1>3, StageFacts DEF ValidateAll
  <2> QED BY <1>3, <2>1 DEF ValidateAll, Onward
<1>4. CASE Validate \/ DryRun \/ FindPrompts \/ Shutdown
  BY <1>2, <1>4 DEF Validate, DryRun, FindPrompts, Shutdown, Onward, Exit
<1>5. CASE GetKey \/ CheckEnvironment \/ Create \/ CheckHealth
  BY <1>5 DEF GetKey, CheckEnvironment, Create, CheckHealth, OnwardOrExit, Onward, Exit
<1>6. CASE StartWatching \/ SetHandlers \/ Start \/ StartTask \/ TaskStarts \/ WaitForKernel \/ Unwind
             \/ KernelEnds \/ Signal
  BY <1>6 DEF StartWatching, SetHandlers, Start, StartTask, TaskStarts, WaitForKernel, Unwind, KernelEnds, Signal, Exit
<1> QED BY <1>3, <1>4, <1>5, <1>6 DEF Work

(* What a twin has loaded when it is past the stages that load.            *)
CopiesFit ==
    /\ copies = [launcher |-> copies.launcher, agent |-> copies.agent]
    /\ Component = "digital-twin" =>
        /\ at > 1 => copies.launcher = Overridden(configuration)
        /\ at > 3 => copies.agent = Implementation(configuration)

LEMMA CopiesInd ==
    ASSUME LaunchIndInv, CopiesFit, Work \/ KernelEnds \/ Signal, LoadConfiguration,
           configuration' = configuration
    PROVE  CopiesFit'
<1>1. (copies = [launcher |-> copies.launcher, agent |-> copies.agent])'
  BY DEF LoadConfiguration
<1> SUFFICES ASSUME Component' = "digital-twin" PROVE CopiesFit' BY <1>1 DEF CopiesFit
<1>2. CASE at' = 1 BY <1>1, <1>2 DEF CopiesFit
<1>3. CASE args' = args /\ at' \in {at, at + 1}
  <2>1. Component = "digital-twin" BY <1>3 DEF Component
  <2>2. Procedure(Component) = StartDigitalTwin BY <2>1 DEF Procedure, Adapters
  <2>3. code = "none" BY DEF Work, Validate, DryRun, GetKey, CheckEnvironment, Create, FindPrompts,
          StartWatching, SetHandlers, Start, StartTask, TaskStarts, CheckHealth, ValidateAll, Shutdown,
          WaitForKernel, Unwind, KernelEnds, Signal, Running
  <2>4. Passes("check") <=> at' = at + 1 /\ StartDigitalTwin[at] = "check"
    BY <2>1, <2>2, <2>3 DEF Passes, Running
  <2>5. Passes("create") <=> at' = at + 1 /\ StartDigitalTwin[at] = "create"
    BY <2>1, <2>2, <2>3 DEF Passes, Running
  <2>6. at \in 1..8 BY <2>2, <2>1 DEF LaunchIndInv, LaunchTypes, StartDigitalTwin
  <2>7. (StartDigitalTwin[at] = "check" <=> at = 1) /\ (StartDigitalTwin[at] = "create" <=> at = 3)
    BY <2>6 DEF StartDigitalTwin
  <2>8. /\ copies'.launcher = IF Passes("check") THEN Overridden(configuration) ELSE copies.launcher
        /\ copies'.agent = IF Passes("create") THEN Implementation(configuration) ELSE copies.agent
    BY DEF LoadConfiguration
  <2>9. /\ Overridden(configuration') = Overridden(configuration)
        /\ Implementation(configuration') = Implementation(configuration)
    OBVIOUS
  <2>10. at' > 1 => copies'.launcher = Overridden(configuration)
    BY <1>3, <2>1, <2>4, <2>6, <2>7, <2>8 DEF CopiesFit
  <2>11. at' > 3 => copies'.agent = Implementation(configuration)
    BY <1>3, <2>1, <2>5, <2>6, <2>7, <2>8 DEF CopiesFit
  <2> QED BY <1>1, <2>9, <2>10, <2>11 DEF CopiesFit
<1> QED BY <1>2, <1>3, StagesInOrder

(* A twin is started, and is up, after both copies have been loaded.       *)
LEMMA LoadedBefore ==
    ASSUME LaunchIndInv, CopiesFit, Work \/ KernelEnds \/ Signal, LoadConfiguration,
           Component = "digital-twin", up' = "up"
    PROVE  /\ copies' = copies /\ copies.launcher = Overridden(configuration)
           /\ copies.agent = Implementation(configuration)
<1>1. LaunchTypes /\ Begun BY DEF LaunchIndInv
<1>2. Procedure(Component) = StartDigitalTwin BY DEF Procedure, Adapters
<1>3. at \in 1..8 BY <1>1, <1>2 DEF LaunchTypes, StartDigitalTwin
<1>4. code = "none"
  BY DEF Work, Validate, DryRun, GetKey, CheckEnvironment, Create, FindPrompts,
         StartWatching, SetHandlers, Start, StartTask, TaskStarts, CheckHealth, ValidateAll, Shutdown,
         WaitForKernel, Unwind, KernelEnds, Signal, Running
<1>5. at > 6
  <2>1. CASE up # "down"
    <3>1. \E j \in 1..(at - 1) : StartDigitalTwin[j] \in {"start", "task"}
      BY <1>1, <1>2, <1>4, <2>1 DEF Begun, Passed
    <3> QED BY <1>3, <3>1 DEF StartDigitalTwin
  <2>2. CASE up = "down"
    <3>1. \A state : Return(state) => up' \in {state, "down"} BY DEF Return
    <3>2. ~(Validate \/ DryRun \/ FindPrompts \/ Shutdown)
      BY <2>2, <3>1 DEF Validate, DryRun, FindPrompts, Shutdown, Onward
    <3>3. ~(GetKey \/ CheckEnvironment \/ Create \/ CheckHealth \/ ValidateAll)
      BY <2>2 DEF GetKey, CheckEnvironment, Create, CheckHealth, ValidateAll, OnwardOrExit, Onward
    <3>4. ~(StartWatching \/ SetHandlers \/ StartTask \/ TaskStarts \/ WaitForKernel \/ Unwind
               \/ KernelEnds \/ Signal)
      BY <2>2 DEF StartWatching, SetHandlers, StartTask, TaskStarts, WaitForKernel, Unwind, KernelEnds,
                  Signal, Handle
    <3>5. StartDigitalTwin[at] = "start" BY <1>2, <3>2, <3>3, <3>4 DEF Work, Start, Running
    <3> QED BY <1>3, <3>5 DEF StartDigitalTwin
  <2> QED BY <2>1, <2>2
<1>6. ~Passes("check") /\ ~Passes("create")
  BY <1>2, <1>3, <1>5 DEF Passes, Running, StartDigitalTwin
<1>7. copies' = [launcher |-> copies.launcher, agent |-> copies.agent]
  BY <1>6 DEF LoadConfiguration
<1>8. copies.launcher = Overridden(configuration) /\ copies.agent = Implementation(configuration)
  BY <1>3, <1>5 DEF CopiesFit
<1> QED BY <1>7, <1>8 DEF CopiesFit

LEMMA LaunchesInd ==
    ASSUME LaunchIndInv, HealthOnly, CopiesFit, TwinRunsItsModel,
           Launches(Work \/ KernelEnds) \/ Launches(Signal)
    PROVE  LaunchIndInv' /\ HealthOnly' /\ CopiesFit' /\ TwinRunsItsModel'
<1>1. /\ Work \/ KernelEnds \/ Signal
      /\ LoadConfiguration /\ LoadWorldModel /\ configuration' = configuration
  BY DEF Launches
<1>2. LaunchIndInv' BY <1>1, LaunchNextInd DEF Next
<1>3. HealthOnly' BY <1>1, HealthInd
<1>a. CopiesFit' BY <1>1, CopiesInd
<1>4. ASSUME Component = "digital-twin", up' = "up" PROVE TwinRunsItsModel'
  <2>1. Valid(copies.agent, configuration.config) /\ world_model' = Registry[copies.agent]
    BY <1>1, <1>4 DEF LoadWorldModel
  <2>2. args' = args BY <1>1, <1>4, UpKeepsComponent
  <2>3. args'.mode \in Modes /\ args'.component = "digital-twin"
    BY <1>2, <1>4, <2>2 DEF LaunchIndInv, LaunchTypes, Component
  <2>4. args'.mode \notin {"validate_only", "dry_run"}
    BY <1>2, <1>4, <2>3 DEF LaunchIndInv, StartsOnlyWhatItShould, Component
  <2>5. args'.mode # "health_check" BY <1>3, <1>4 DEF HealthOnly
  <2>6. args'.mode = "run" BY <2>3, <2>4, <2>5 DEF Modes
  <2>a. copies' = copies /\ copies.launcher = Overridden(configuration)
        /\ copies.agent = Implementation(configuration)
    BY <1>1, <1>4, LoadedBefore
  <2>7. /\ copies.agent \in {"mock", "testable", "bayesian", "kalman", "gemini", "llm"}
        /\ copies.agent \in {"gemini", "llm"} => configuration.config = Fields
    BY <2>1 DEF Valid, Registry
  <2>8. world_model' \in {Registry[i] : i \in DOMAIN Registry} BY <2>1 DEF Valid
  <2>9. world_model' = Registry[Implementation(configuration)] BY <2>1, <2>a
  <2>10. world_model' = "GeminiWorldModel" => Fields \subseteq configuration.config
    BY <2>1, <2>7 DEF Registry
  <2>11. copies'.launcher # copies'.agent =>
             configuration.override # "none" \/ configuration.file \notin {"none", configuration.framework}
    BY <2>a DEF Overridden, Implementation
  <2> QED BY <1>1, <1>4, <2>6, <2>8, <2>9, <2>10, <2>11 DEF TwinRunsItsModel
<1>5. ASSUME ~(Component = "digital-twin" /\ up' = "up") PROVE TwinRunsItsModel'
  <2>1. world_model' = "none" BY <1>1, <1>5 DEF LoadWorldModel
  <2> QED BY <2>1 DEF TwinRunsItsModel
<1> QED BY <1>2, <1>3, <1>a, <1>4, <1>5

LEMMA LaunchersStay ==
    ASSUME LaunchIndInv, HealthOnly, CopiesFit, TwinRunsItsModel, UNCHANGED <<vars, loaderVars>>
    PROVE  LaunchIndInv' /\ HealthOnly' /\ CopiesFit' /\ TwinRunsItsModel'
<1>1. UNCHANGED <<args, at, up, configuration, copies, world_model>> BY DEF vars, loaderVars
<1>2. LaunchIndInv' BY LaunchStutterInd
<1> QED BY <1>1, <1>2 DEF HealthOnly, TwinRunsItsModel, CopiesFit, Component

(* The inductive invariant of the whole: each part keeps its own, and the  *)
(* model that serves is the one of the twin's files.                       *)
ProcessIndInv ==
    /\ LaunchIndInv /\ HealthOnly /\ CopiesFit /\ TwinRunsItsModel
    /\ BayesianIndInv /\ GeminiIndInv

LEMMA ProcessInitInd == ProcessInit => ProcessIndInv
<1> SUFFICES ASSUME ProcessInit PROVE ProcessIndInv OBVIOUS
<1>1. Init /\ world_model = "none" /\ ModelInit /\ GeminiInit BY DEF ProcessInit
<1>2. LaunchIndInv /\ BayesianIndInv /\ GeminiIndInv BY <1>1, LaunchInitInd, ModelInitInd, GeminiInitInd
<1>3. HealthOnly
  <2>1. /\ args \in [component : Components \cup {"all"}, mode : Modes, rest : {<<>>}]
        /\ args.mode = "health_check" => args.component = "digital-twin"
        /\ at = 1 /\ up = "down"
    BY <1>1 DEF Init
  <2> QED BY <2>1 DEF HealthOnly
<1>4. TwinRunsItsModel BY <1>1 DEF TwinRunsItsModel
<1>5. CopiesFit
  <2>1. at = 1 /\ copies = [launcher |-> "none", agent |-> "none"] BY DEF ProcessInit, Init
  <2> QED BY <2>1 DEF CopiesFit
<1> QED BY <1>2, <1>3, <1>4, <1>5 DEF ProcessIndInv

LEMMA ProcessNextInd == ASSUME ProcessIndInv, [ProcessNext]_allVars PROVE ProcessIndInv'
<1>1. LaunchIndInv /\ HealthOnly /\ CopiesFit /\ TwinRunsItsModel /\ BayesianIndInv /\ GeminiIndInv
  BY DEF ProcessIndInv
<1>2. CASE Launches(Work \/ KernelEnds) \/ Launches(Signal)
  <2>1. UNCHANGED modelVars /\ UNCHANGED geminiVars BY <1>2 DEF Launches
  <2> QED BY <1>1, <1>2, <2>1, LaunchesInd, ModelStutterInd, GeminiStutterInd DEF ProcessIndInv
<1>3. CASE ModelNext /\ UNCHANGED <<vars, loaderVars, geminiVars>>
  <2>1. UNCHANGED <<vars, loaderVars>> /\ UNCHANGED geminiVars BY <1>3
  <2> QED BY <1>1, <1>3, <2>1, LaunchersStay, ModelNextInd, GeminiStutterInd DEF ProcessIndInv
<1>4. CASE GeminiNext /\ UNCHANGED <<vars, loaderVars, modelVars>>
  <2>1. UNCHANGED <<vars, loaderVars>> /\ UNCHANGED modelVars BY <1>4
  <2>2. GeminiIndInv'
    <3>1. CASE Learn \/ Reload \/ Reloaded BY <1>1, <3>1, ServiceInd
    <3>2. CASE \E r \in Requests :
                  \/ Arrive(r) \/ Resume(r) \/ Call(r) \/ CallTimesOut(r) \/ CallFails(r) \/ GiveUp(r)
                  \/ Deadline(r) \/ ContextFails(r) \/ HealthReply(r) \/ \E form \in Forms : Reply(r, form)
      BY <1>1, <3>2, RequestInd
    <3> QED BY <1>4, <3>1, <3>2 DEF GeminiNext
  <2> QED BY <1>1, <2>1, <2>2, LaunchersStay, ModelStutterInd DEF ProcessIndInv
<1>5. CASE UNCHANGED allVars
  <2>1. UNCHANGED <<vars, loaderVars>> /\ UNCHANGED modelVars /\ UNCHANGED geminiVars BY <1>5 DEF allVars
  <2> QED BY <1>1, <2>1, LaunchersStay, ModelStutterInd, GeminiStutterInd DEF ProcessIndInv
<1> QED BY <1>2, <1>3, <1>4, <1>5 DEF ProcessNext

LEMMA ProcessIndImplies == ProcessIndInv => WorldModelInv
<1> SUFFICES ASSUME ProcessIndInv PROVE WorldModelInv OBVIOUS
<1> QED BY LaunchIndImplies, BayesianIndImplies, GeminiIndImplies DEF ProcessIndInv, WorldModelInv

(* Whatever a launcher is called with, whenever signals come, and whatever *)
(* the twin it started is asked: the launcher starts only what it should   *)
(* and ends with a true code; a twin that is up runs the model its files   *)
(* name, whatever --world-model says; the Bayesian model's filters, what   *)
(* it learned and the confidence it states agree with the values it has;   *)
(* and Gemini's permits are accounted for, its requests block each other   *)
(* only behind simulations, and its conversation stays in order.           *)
THEOREM WorldModelsHold == ProcessSpec => []WorldModelInv
<1>1. ProcessIndInv /\ [ProcessNext]_allVars => ProcessIndInv' BY ProcessNextInd
<1> QED BY <1>1, ProcessInitInd, ProcessIndImplies, PTL DEF ProcessSpec
=============================================================================
