---------------------------- MODULE PolarisServices ----------------------------
(***************************************************************************)
(* The action path of POLARIS and what stands around it: the NLA server    *)
(* that may answer its reasoner, the reasoner that asks a language model   *)
(* once, and the NATS client every component talks through.  Each is       *)
(* external to the others, which take any answer or message from it: they  *)
(* share no state, and a behaviour follows one of them.                    *)
(***************************************************************************)
EXTENDS PolarisActions, NLAServer, LLMReasoner, NatsClient

Told == INSTANCE SnapshotSeries

VARIABLE followed

Followed == {"actions", "server", "reasoner", "client"}
servicesVars == <<followed, vars, nlaVars, llmVars, natsVars>>

(* What is not followed starts in one way only.                            *)
ServicesInit ==
    /\ followed \in Followed
    /\ Init /\ (followed # "actions" => setup = CHOOSE s \in Setups : TRUE)
    /\ NLAInit /\ (followed # "server" => nla = CHOOSE s \in NLASetups : TRUE)
    /\ LLMInit
    /\ NatsInit /\ (followed # "client" => server /\ external)

ServicesNext ==
    /\ UNCHANGED followed
    /\ \/ followed = "actions" /\ Next /\ UNCHANGED <<nlaVars, llmVars, natsVars>>
       \/ followed = "server" /\ NLANext /\ UNCHANGED <<vars, llmVars, natsVars>>
       \/ followed = "reasoner" /\ LLMNext /\ UNCHANGED <<vars, nlaVars, natsVars>>
       \/ followed = "client" /\ NatsNext /\ UNCHANGED <<vars, nlaVars, llmVars>>

ServicesSpec == ServicesInit /\ [][ServicesNext]_servicesVars

ServicesFairSpec ==
    /\ ServicesSpec
    /\ WF_vars(Executor) /\ WF_vars(FinishStop) /\ WF_vars(setup.prompt /\ SwimExecutes)
    /\ NLAFairness /\ LLMFairness /\ NatsFairness

-----------------------------------------------------------------------------
(* Properties                                                              *)

(* What holds of every state of the services around the action path.       *)
ServicesInv == NLAInv /\ LLMReasonerInv /\ NatsInv

(* What no step may do: command SWIM out of its bounds from a pool that    *)
(* was settled, connect again what is connected, or recover from an action *)
(* that cannot be judged before the snapshots lack the metric.             *)
StepsKeepPromises == PreconditionsKeepBounds /\ KeepsConnection /\ OnlyBlindRecovers

(* Whenever an action is verified, what a verdict says of any request; and *)
(* whenever a reasoning goes on, what an evaluation says of any change and *)
(* a context of any snapshots.                                             *)
OperatorsHold ==
    /\ verifying # 0 => VerdictsHold
    /\ reasoning # "idle" => EvaluationIsFair /\ Told!SeriesHold

(* Whatever was accepted or taken up is brought to an end: the adapter's   *)
(* actions, the server's calls, reasonings, starts and stops.              *)
EverythingAnswered ==
    EveryActionAnswered /\ EveryCallAnswered /\ ReasoningsConclude /\ StartsAndStops
=============================================================================
