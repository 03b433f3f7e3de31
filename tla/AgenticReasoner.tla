---------------------------- MODULE AgenticReasoner ----------------------------
(***************************************************************************)
(* AgenticLLMReasoner.reason, with the digital twin and the client it asks *)
(* it through: a conversation with a language model that may call tools,   *)
(* several per reply, until it names an action, is asked for one, or has   *)
(* used up its turns; and the pause it keeps after each action.            *)
(*                                                                         *)
(* The language model is external: it replies with any tool calls and any  *)
(* action, or fails.                                                       *)
(***************************************************************************)
EXTENDS TwinClient

(* What becomes of the messages between the two; what the language model   *)
(* is told and how its replies are read.                                   *)
Messages == INSTANCE TwinMessages
Told == INSTANCE ReasonerContext
Sessions == INSTANCE ReasoningSession

CONSTANTS
    MaxToolCalls,              \* max_tool_calls
    CooldownTicks,             \* action_cooldown_seconds
    MaxCallsPerReply           \* bound: tool calls in one reply of the language model

ASSUME ReasonerAssumption ==
    MaxToolCalls \in Nat /\ CooldownTicks \in Nat /\ MaxCallsPerReply \in Nat \ {0}

VARIABLES
    mind,             \* the reasoning in progress, see MindType
    last_action,      \* ticks since last_action_time, at most CooldownTicks
    decision          \* the result of the last reasoning

reasonerVars == <<mind, last_action, decision>>
vars == <<twinVars, clientVars, reasonerVars>>

(* A tool is one of the two there are, or a name that is none of them.     *)
(* An action is none, one that changes nothing, or one that does.          *)
Tools == {"knowledge_base", "digital_twin", "unknown"}
Actions == {"none", "NO_ACTION", "ADAPT"}
Decisions == {"none", "NO_ACTION", "ADAPT", "ALERT"}
Replies == [tools : SeqOf(Tools, MaxCallsPerReply), action : Actions]

(* turn is the iteration, made is tool_calls_made, todo and action what is *)
(* left of the reply, ran the results that go back into the conversation.  *)
MindType == [at : {"idle", "ask", "tools", "twin", "ask_again"}, turn : 0..MaxToolCalls,
             made : Nat, todo : SeqOf(Tools, MaxCallsPerReply), action : Actions,
             ran : 0..MaxCallsPerReply]
AtRest == [at |-> "idle", turn |-> 0, made |-> 0, todo |-> <<>>, action |-> "none", ran |-> 0]

TypeOK ==
    /\ TwinTypeOK /\ ClientTypeOK
    /\ mind \in MindType /\ decision \in Decisions
    /\ last_action \in 0..CooldownTicks

Init ==
    /\ TwinInit /\ ClientInit
    /\ mind = AtRest /\ decision = "none" /\ last_action = CooldownTicks

-----------------------------------------------------------------------------
(* _is_in_cooldown                                                         *)
IsInCooldown == last_action < CooldownTicks

(* reason has a result.                                                    *)
Conclude(result) ==
    /\ mind' = AtRest /\ decision' = result
    /\ last_action' = IF result = "ADAPT" THEN 0 ELSE last_action

(* No action found is one that changes nothing.                            *)
Result(action) == IF action = "none" THEN "NO_ACTION" ELSE action

(* The next iteration, or the end of them without an action.               *)
BugNextTurn == mind' = [AtRest EXCEPT !.at = "ask", !.turn = mind.turn, !.made = mind.made]
               /\ UNCHANGED <<last_action, decision>>
NextTurn ==
    IF mind.turn = MaxToolCalls THEN Conclude("NO_ACTION")
    ELSE /\ mind' = [AtRest EXCEPT !.at = "ask", !.turn = mind.turn + 1, !.made = mind.made]
         /\ UNCHANGED <<last_action, decision>>

(* reason is called. In the pause after an action it decides for none.     *)
Reason ==
    IF IsInCooldown THEN Conclude("NO_ACTION")
    ELSE /\ mind' = [AtRest EXCEPT !.at = "ask"] /\ decision' = "none"
         /\ UNCHANGED last_action

Begin ==
    /\ setup.asked /\ mind.at = "idle" /\ Reason
    /\ UNCHANGED <<twinVars, clientVars>>

(* Whether the tool calls of a reply are made: the budget is looked at     *)
(* once per reply.                                                         *)
WithinBudget == mind.made < MaxToolCalls

Reply(r) ==
    IF r.tools # <<>> /\ WithinBudget
    THEN /\ mind' = [mind EXCEPT !.at = "tools", !.todo = r.tools, !.action = r.action]
         /\ UNCHANGED <<last_action, decision>>
    ELSE IF r.action # "none" THEN Conclude(Result(r.action))
    ELSE IF r.tools = <<>>
    THEN mind' = [mind EXCEPT !.at = "ask_again"] /\ UNCHANGED <<last_action, decision>>
    ELSE NextTurn

ModelReplies ==
    /\ mind.at = "ask" /\ \E r \in Replies : Reply(r)
    /\ UNCHANGED <<twinVars, clientVars>>

(* Asked for a final decision: the action of this reply, if it has one.    *)
ModelDecides ==
    /\ mind.at = "ask_again" /\ \E a \in Actions : Conclude(Result(a))
    /\ UNCHANGED <<twinVars, clientVars>>

(* The language model fails, its action has a type that is no name, or a   *)
(* tool call has parameters of a wrong kind: an alert, and no pause.       *)
ReasoningFails ==
    /\ mind.at \in {"ask", "ask_again"} \/ (mind.at = "tools" /\ mind.todo # <<>>)
    /\ Conclude("ALERT")
    /\ UNCHANGED <<twinVars, clientVars>>

-----------------------------------------------------------------------------
(* The tool calls of a reply, one after the other. One of the knowledge    *)
(* base answers or reports an error; one of the twin is a call of the      *)
(* client; a tool that does not exist is passed over.                      *)
ToolReturns == mind' = [mind EXCEPT !.at = "tools", !.todo = Tail(@), !.made = @ + 1, !.ran = @ + 1]
ToolUnchanged == UNCHANGED <<twinVars, last_action, decision>>

AskKnowledgeBase ==
    /\ mind.at = "tools" /\ mind.todo # <<>> /\ Head(mind.todo) = "knowledge_base"
    /\ ToolReturns
    /\ UNCHANGED clientVars /\ ToolUnchanged

PassOver ==
    /\ mind.at = "tools" /\ mind.todo # <<>> /\ Head(mind.todo) = "unknown"
    /\ mind' = [mind EXCEPT !.todo = Tail(@)]
    /\ UNCHANGED clientVars /\ ToolUnchanged

AskTwin ==
    /\ mind.at = "tools" /\ mind.todo # <<>> /\ Head(mind.todo) = "digital_twin"
    /\ mind' = [mind EXCEPT !.at = "twin"] /\ BeginCall
    /\ ToolUnchanged

TwinCallReturns ==
    /\ mind.at = "twin" /\ call.at = "idle" /\ answer' = "none"
    /\ ToolReturns
    /\ UNCHANGED <<stub, breaker, call, streak>> /\ ToolUnchanged

(* With results the model is asked again; without any, the action of the   *)
(* same reply counts.                                                      *)
ToolsDone ==
    /\ mind.at = "tools" /\ mind.todo = <<>>
    /\ IF mind.ran > 0 \/ mind.action = "none" THEN NextTurn ELSE Conclude(Result(mind.action))
    /\ UNCHANGED <<twinVars, clientVars>>

-----------------------------------------------------------------------------
Thinking == ModelReplies \/ ModelDecides \/ ReasoningFails
UsingTools == AskKnowledgeBase \/ PassOver \/ AskTwin \/ TwinCallReturns \/ ToolsDone

Twin == TwinNext /\ UNCHANGED <<clientVars, reasonerVars>>
Client == setup.asked /\ ClientStep /\ UNCHANGED <<twinVars, reasonerVars>>

(* Time passes while something is waited for; the steps of the tools and   *)
(* of the client in between take none.                                     *)
Tick ==
    /\ setup.asked /\ call.at # "attempt" /\ mind.at # "tools" /\ ClientTick
    /\ last_action' = Min({last_action + 1, CooldownTicks})
    /\ UNCHANGED <<twinVars, mind, decision>>

Next == Twin \/ Client \/ Begin \/ Thinking \/ UsingTools \/ Tick

Spec == Init /\ [][Next]_vars

(* Besides the tasks of the twin: time passes, the client and the reasoner *)
(* go on, the language model replies or fails; and a twin that serves      *)
(* answers in time now and then.                                           *)
FairSpec ==
    /\ Spec /\ TwinFairness
    /\ WF_vars(Tick) /\ WF_vars(Client) /\ WF_vars(Thinking) /\ WF_vars(UsingTools)
    /\ SF_vars(Connected /\ UNCHANGED <<twinVars, reasonerVars>>)
    /\ SF_vars(Answered /\ UNCHANGED <<twinVars, reasonerVars>>)

-----------------------------------------------------------------------------
(* Properties.                                                             *)

(* A reasoning makes less than two replies' worth of tool calls beyond its *)
(* budget, and the budget counts every reply of the conversation.          *)
ToolCallsBounded == mind.made < MaxToolCalls + MaxCallsPerReply

(* What holds of the twin, its client and its reasoner in every state: the *)
(* events, the model and its reloads, the budget.                          *)
ReasonerInv ==
    /\ TypeOK /\ EachEventOnce /\ AppliedInOrder /\ ReloadLeavesItRunning
    /\ ToolCallsBounded

(* What holds of every message between them, of every prompt and reply,    *)
(* and of every session of the reasoner agent.                             *)
ExchangesInv == Messages!MessagesHold /\ Told!ContextHolds /\ Sessions!SessionsHold

(* Every reasoning ends, whatever the language model replies and whatever  *)
(* becomes of the twin meanwhile.                                          *)
ReasoningEnds == mind.at # "idle" ~> mind.at = "idle"
=============================================================================
