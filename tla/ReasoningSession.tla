-------------------------- MODULE ReasoningSession --------------------------
(***************************************************************************)
(* The reasoner agent around its reasoning (reasoner_agent.py): how it     *)
(* connects, takes a request from the kernel through a session to an       *)
(* action and a reply, remembers and reports it, and is shut down; and     *)
(* what its requests to the knowledge base and the twin return.            *)
(*                                                                         *)
(* An agent is a record.  Requests are handled one after the other: what   *)
(* happens to an agent is a sequence of events, and After computes what    *)
(* becomes of it.                                                          *)
(***************************************************************************)
EXTENDS Integers, Sequences, FiniteSets

(* bypass or reject: verification_failure_action; off: no verification,    *)
(* which is how __init__ sets it.                                          *)
Routings == {"off", "bypass", "reject"}

(* A request: its reasoning_type, whether its input passes validation, how *)
(* reasoning ends and whether what it returns can be written as JSON.      *)
Request(type, valid, reasons, writable) ==
    [event |-> "request", type |-> type, valid |-> valid, reasons |-> reasons,
     writable |-> writable]
Requests ==
    {Request(t, TRUE, "answers", TRUE) : t \in {"implemented", "not implemented", "no type"}}
        \cup {Request("implemented", FALSE, "answers", TRUE), Request("implemented", TRUE, "raises", TRUE),
              Request("implemented", TRUE, "answers", FALSE)}

(* Connecting to NATS and then to the twin, whose health is asked for.     *)
HealthChecks == {"healthy", "unhealthy", "not implemented", "fails"}
Connecting == [event : {"connect"}, check : HealthChecks]
Notifications == [event : {"shutdown", "health_check"}]
Events == Requests \cup Connecting \cup Notifications

Created(routing, hasTwin) ==
    [routing |-> routing, nc |-> "none", dt_query |-> hasTwin,
     stub |-> FALSE, reasoning_history |-> 0, active_sessions |-> 0,
     sent |-> <<>>, replies |-> <<>>]

-----------------------------------------------------------------------------
(* publish: nothing can be published on a closed connection, nor what      *)
(* cannot be written.                                                      *)
CanPublish(a, writable) == a.nc = "open" /\ writable
Publish(a, topic) == [a EXCEPT !.sent = Append(@, topic)]

(* msg.respond, likewise; an exception in it ends in the log.              *)
Respond(a, reply) ==
    IF a.nc = "open" THEN [a EXCEPT !.replies = Append(@, reply)] ELSE a

(* GRPCDigitalTwinClient.connect, _test_connection: a channel whose test   *)
(* fails is closed and raises.                                             *)
ConnectTwin(a, check) ==
    [a EXCEPT !.stub = a.dt_query /\ (a.stub \/ check # "fails")]

(* connect: NATS and the subscriptions come first, and stay if the twin    *)
(* cannot be reached.                                                      *)
BugConnect(a, check) ==
    IF a.dt_query /\ check = "fails" THEN a ELSE ConnectTwin([a EXCEPT !.nc = "open"], check)
Connect(a, check) == ConnectTwin([a EXCEPT !.nc = "open"], check)

(* store_reasoning_result: its failure is logged.                          *)
StoreReasoningResult(a) == IF CanPublish(a, TRUE) THEN Publish(a, "telemetry") ELSE a

(* perform_reasoning: the twin is dropped before anything else.  What      *)
(* raises becomes a result that tells of an error.                         *)
Succeeds(r) == r.type = "implemented" /\ r.valid /\ r.reasons = "answers"
PerformReasoning(a, r) ==
    LET session == [a EXCEPT !.dt_query = FALSE, !.active_sessions = @ + 1]
        after == IF Succeeds(r)
                 THEN [StoreReasoningResult(session) EXCEPT !.reasoning_history = @ + 1]
                 ELSE session
    IN  [after EXCEPT !.active_sessions = @ - 1]
Result(r) == IF Succeeds(r) THEN "action" ELSE "error"
Writable(r) == Succeeds(r) => r.writable

(* _publish_action_for_verification, or publish: the topics sent to, none  *)
(* if it raises.                                                           *)
PublishedTo(a, writable) ==
    IF a.routing = "off" THEN IF CanPublish(a, writable) THEN {"execution"} ELSE {}
    ELSE IF CanPublish(a, writable) THEN {"verification"} ELSE {}
Raises(a, writable) == ~CanPublish(a, writable) /\ a.routing # "reject"

(* _handle_kernel_request: the reply carries the result.                   *)
HandleKernelRequest(a, r) ==
    LET after == PerformReasoning(a, r)
        acted == IF PublishedTo(after, Writable(r)) = {} THEN after
                 ELSE Publish(after, CHOOSE t \in PublishedTo(after, Writable(r)) : TRUE)
    IN  CASE r.type = "no type"                              -> Respond(a, "failure")
          [] r.type # "no type" /\ (Raises(after, Writable(r)) \/ ~Writable(r))
                                                             -> Respond(acted, "failure")
          [] OTHER                                           -> Respond(acted, Result(r))

(* _handle_system_notification; disconnect closes what dt_query still has. *)
Disconnect(a) ==
    [a EXCEPT !.nc = IF @ = "open" THEN "closed" ELSE @, !.stub = @ /\ ~a.dt_query]
HandleSystemNotification(a, type) ==
    CASE type = "shutdown" -> Disconnect(a)
      [] OTHER             -> IF CanPublish(a, TRUE) THEN Publish(a, "health") ELSE a

(* A closed connection delivers nothing, and one that was never made.      *)
Handle(a, e) ==
    CASE e.event = "connect" -> IF a.nc = "none" THEN Connect(a, e.check) ELSE a
      [] e.event = "request" -> IF a.nc = "open" THEN HandleKernelRequest(a, e) ELSE a
      [] OTHER               -> IF a.nc = "open" THEN HandleSystemNotification(a, e.event) ELSE a

After(a, es) ==
    LET upTo[i \in 0..Len(es)] == IF i = 0 THEN a ELSE Handle(upTo[i - 1], es[i])
    IN  upTo[Len(es)]

-----------------------------------------------------------------------------
(* query_knowledge_base, _execute_query and query_structured: what the     *)
(* knowledge base answers, or how asking it fails, as the caller sees it.  *)
KBReplies == [success : BOOLEAN, results : {<<>>, <<"entry">>}]
NoAnswer == <<"none">>
QueryKnowledgeBase(replies) == {r \in replies : r.success}
ExecuteQuery(replies) ==
    LET found == {r \in QueryKnowledgeBase(replies) : r.results # <<>>}
    IN  IF found = {} THEN NoAnswer ELSE (CHOOSE r \in found : TRUE).results

(* GRPCDigitalTwinClient.query and diagnose: None without a connection and *)
(* on every error; a result that is no JSON is taken for a text.           *)
TwinReplies == [success : BOOLEAN, result : {"json", "text", "empty"}]
TwinQuery(connected, replies) ==
    IF ~connected THEN {}
    ELSE {[success |-> r.success,
           result |-> CASE r.result = "json" -> "value" [] r.result = "text" -> "text"
                        [] OTHER -> "none"] : r \in replies}
TwinDiagnose(connected, replies) == IF connected THEN replies ELSE {}

-----------------------------------------------------------------------------
Runs == {<<c, x, y, z>> : c \in Connecting, x \in Events, y \in Events, z \in Requests}
Agents == {Created(routing, hasTwin) : routing \in Routings, hasTwin \in BOOLEAN}

Count(s, t) == Cardinality({i \in DOMAIN s : s[i] = t})
Asked(es) == Cardinality({i \in DOMAIN es : es[i].event = "request"
                             /\ \A j \in 1..i : es[j].event # "shutdown"})

(* _handle_kernel_request: until it is shut down the agent answers every   *)
(* request once, and says that there is a result only if that was sent on  *)
(* - where a failure to publish is only logged, too, because the reply     *)
(* would have to carry what could not be written.                          *)
EveryRequestIsAnswered ==
    \A a \in Agents, es \in Runs :
        LET b == After(a, es)
            told == Count(b.replies, "action") + Count(b.replies, "error")
        IN  /\ Len(b.replies) = Asked(es)
            /\ told = Count(b.sent, "execution") + Count(b.sent, "verification")
            /\ Count(b.sent, "execution") > 0 => a.routing = "off"

(* perform_reasoning: what is remembered and reported is every reasoning   *)
(* that came to an action, and no session is left behind.                  *)
SessionsAreClosed ==
    \A a \in Agents, es \in Runs :
        LET b == After(a, es)
        IN  /\ b.active_sessions = 0
            /\ b.reasoning_history = Count(b.sent, "telemetry")
            /\ Count(b.replies, "action") <= b.reasoning_history

(* connect, perform_reasoning: whether there is a twin, and whether it     *)
(* could be reached, changes nothing of what is answered, sent on and      *)
(* remembered; one whose test failed is never asked.                       *)
TwinMakesNoDifference ==
    \A routing \in Routings, es \in Runs :
        LET b == After(Created(routing, TRUE), es)
            without == After(Created(routing, FALSE), es)
        IN  /\ <<b.replies, b.sent, b.reasoning_history>> =
                  <<without.replies, without.sent, without.reasoning_history>>
            /\ es[1].check = "fails" => TwinQuery(b.stub, TwinReplies) = {}

(* query_knowledge_base: what was not found and what could not be asked    *)
(* look the same, and never like an entry.                                 *)
AbsenceIsNoAnswer ==
    \A replies \in {{}} \cup {{r} : r \in KBReplies} :
        ExecuteQuery(replies) # NoAnswer
            <=> \E r \in replies : r.success /\ r.results # <<>>

(* What holds of the agent around its reasoning.                           *)
SessionsHold ==
    EveryRequestIsAnswered /\ SessionsAreClosed /\ TwinMakesNoDifference /\ AbsenceIsNoAnswer
=============================================================================
