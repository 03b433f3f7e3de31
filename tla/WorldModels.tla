------------------------------ MODULE WorldModels ------------------------------
(***************************************************************************)
(* The process of a digital twin and the world model it serves. The        *)
(* launcher and the agent each load the configuration, from two files; the *)
(* factory creates the implementation the agent's copy names, and that     *)
(* alone answers, as long as the component is up. Of the implementations   *)
(* the Bayesian model and Gemini keep a state; the mock models answer from *)
(* the last telemetry alone (TwinMessages). The launcher's other           *)
(* components are here too, with nothing behind them.                      *)
(***************************************************************************)
EXTENDS Launcher, BayesianModel, GeminiModel

CONSTANT Configurations
    \* what a twin may find: the implementation the framework's configuration names (or the
    \* environment in its place), the one the world model's own file names ("none" for a file
    \* that names none or is not there), the one of --world-model, or "none", the fields of the
    \* model's configuration, whether the key is in the environment, and what is measured and
    \* asked where the twin is used

Fields == {"api_key_env", "model"}   \* what models that call an LLM must be given

ASSUME ConfigurationAssumption ==
    \A c \in Configurations :
        /\ c.config \subseteq Fields /\ c.key \in BOOLEAN
        /\ c.deployment \in Tracked /\ c.asked \in Mixes

VARIABLES
    configuration,   \* the one of this twin
    copies,          \* the implementation in the launcher's copy of it, and the agent's
    world_model      \* the implementation that runs, or "none"

loaderVars == <<configuration, copies, world_model>>
allVars == <<vars, loaderVars, modelVars, geminiVars>>

-----------------------------------------------------------------------------
(* The configuration is loaded                                             *)

(* DigitalTwinConfigManager: the file's implementation, or the framework's *)
(* when the file names none. That they differ is only logged.              *)
Implementation(c) == IF c.file = "none" THEN c.framework ELSE c.file

(* It refuses a Gemini model without its fields and key; of a name it does *)
(* not know it warns.                                                      *)
Loads(c) == Implementation(c) = "gemini" => c.config = Fields /\ c.key

(* --world-model changes the launcher's copy of the framework's section.   *)
Overridden(c) == IF c.override = "none" THEN c.framework ELSE c.override

Passes(stage) == Component = "digital-twin" /\ Running(stage) /\ at' = at + 1

(* The launcher loads it to check keys, packages and ports, and the agent  *)
(* loads it again, from the same path: it does not see the launcher's.     *)
BugLoadConfiguration ==
    /\ Passes("check") \/ Passes("create") => Loads(configuration)
    /\ copies' = [launcher |-> IF Passes("check") THEN Overridden(configuration) ELSE copies.launcher,
                  agent |-> IF Passes("create") THEN configuration.framework ELSE copies.agent]
LoadConfiguration ==
    /\ Passes("check") \/ Passes("create") => Loads(configuration)
    /\ copies' = [launcher |-> IF Passes("check") THEN Overridden(configuration) ELSE copies.launcher,
                  agent |-> IF Passes("create") THEN Implementation(configuration) ELSE copies.agent]

-----------------------------------------------------------------------------
(* The model is created                                                    *)

(* WorldModelFactory: the names the implementations registered under       *)
Registry == [mock |-> "MockWorldModel", testable |-> "TestableWorldModel",
             bayesian |-> "BayesianWorldModel", kalman |-> "BayesianWorldModel",
             gemini |-> "GeminiWorldModel", llm |-> "GeminiWorldModel"]

(* ConfigurationValidator.validate_world_model_config: only what is        *)
(* registered, and models that call an LLM must say which.                 *)
Valid(implementation, config) ==
    /\ implementation \in DOMAIN Registry
    /\ implementation \in {"gemini", "llm"} => config = Fields

ProcessInit ==
    /\ Init
    /\ configuration \in Configurations /\ world_model = "none"
    /\ Component \notin {"digital-twin", "all"} => configuration = CHOOSE c \in Configurations : TRUE
    /\ copies = [launcher |-> "none", agent |-> "none"]
    /\ ModelInit /\ tracked = configuration.deployment
    /\ GeminiInit /\ kind = configuration.asked

(* _load_world_model, as part of the start of the twin, which fails when   *)
(* the configuration is invalid and may fail for other reasons (no key, no *)
(* answer to the test of the connection); the model is shut down with it.  *)
(* --health-check starts a twin, too.                                      *)
LoadWorldModel ==
    /\ Running("health") /\ up' = "stopped" /\ code' = "ok" =>
           Valid(copies.agent, configuration.config)
    /\ IF Component = "digital-twin" /\ up' = "up"
       THEN Valid(copies.agent, configuration.config) /\ world_model' = Registry[copies.agent]
       ELSE world_model' = "none"

Launches(step) ==
    /\ step /\ LoadConfiguration /\ LoadWorldModel
    /\ UNCHANGED <<configuration, modelVars, geminiVars>>

(* Bound: the operator's signals come before the model has begun to serve, *)
(* and what it does between a signal and its shutdown is not followed; for *)
(* stops of a busy twin see DigitalTwin.                                   *)
Untouched ==
    Known = {} /\ noise = NoNoise /\ phase = "up" /\ notes = 0 /\ reloads = 0
      /\ \A r \in Requests : pc[r] = "idle"
Serving(implementation) == world_model = implementation /\ ~loop.stop

ProcessNext ==
    \/ Launches(Work \/ KernelEnds)
    \/ Untouched /\ Launches(Signal)
    \/ Serving("BayesianWorldModel") /\ ModelNext /\ UNCHANGED <<vars, loaderVars, geminiVars>>
    \/ Serving("GeminiWorldModel") /\ GeminiNext /\ UNCHANGED <<vars, loaderVars, modelVars>>

ProcessSpec ==
    /\ ProcessInit /\ [][ProcessNext]_allVars
    /\ WF_allVars(Launches(Work))
    /\ ModelFairness /\ GeminiFairness

-----------------------------------------------------------------------------
(* Properties                                                              *)

(* A twin that is up runs what its world model file names, or the          *)
(* framework's configuration when the file names nothing, and Gemini only  *)
(* with its fields; --world-model does not count, though its help says     *)
(* "Override World Model implementation" (start_component.py:257): the     *)
(* agent loads the configuration anew (digital_twin_agent.py:64). So the   *)
(* launcher has checked the keys and packages of another model than runs   *)
(* when that option is given, or the two files differ (line 720;           *)
(* digital_twin_config.py:367), and in no other case.                      *)
TwinRunsItsModel ==
    /\ world_model \in {"none"} \cup {Registry[i] : i \in DOMAIN Registry}
    /\ world_model # "none" =>
         /\ up = "up" /\ args.mode = "run"
         /\ world_model = Registry[Implementation(configuration)]
         /\ copies.launcher # copies.agent =>
                \/ configuration.override # "none"
                \/ configuration.file \notin {"none", configuration.framework}
    /\ world_model = "GeminiWorldModel" => Fields \subseteq configuration.config

(* Whatever a launcher is called with and whenever signals come, it starts *)
(* only what it should and its code tells the truth; a twin runs what its  *)
(* files name; and what the two implementations keep stays together:       *)
(* filters that agree with the calibrations, knowledge and confidence      *)
(* founded on values; permits that are accounted for, requests that block  *)
(* each other only in one known way, and a conversation in order.          *)
WorldModelInv ==
    /\ LauncherInv /\ TwinRunsItsModel
    /\ BayesianTypeOK /\ FiltersAgree /\ LearnedFromValues /\ ConfidenceIsFounded
    /\ GeminiTypeOK /\ PermitsAccountedFor /\ BlockedBySimulations /\ AnswersFollowQuestions

(* What the Bayesian model computes agrees with itself: clusters, grades,  *)
(* alerts, trends, forecasts and directions over bounded inputs; and of    *)
(* what it has learned, urgent hypotheses come first, plans settle and the *)
(* advice fits.                                                            *)
AdviceInv ==
    /\ at = 1 /\ signals.sent = 0 =>
         /\ ClustersAreRuns({0, 20, 40, 80, 110}, 3)
         /\ GradesAgree /\ AlertsAgree /\ TrendsAgree({4, 6, 9}, 5)
         /\ ForecastsAgree(tracked.profiles) /\ DirectionsAgree({60, 120, 180}, 4)
    /\ world_model = "BayesianWorldModel" => UrgentFirst /\ PlansSettle(2) /\ AdviceFits

(* A serving world model answers: every request to Gemini ends, and the    *)
(* Bayesian model's health is assessed after every value.                  *)
WorldModelsServe == HealthFollows /\ RequestsEnd
=============================================================================
