------------------------------ MODULE DigitalTwin ------------------------------
(***************************************************************************)
(* DigitalTwinAgent of POLARIS: how it starts and stops, one step per      *)
(* await; the handlers of its subscriptions, which put events into a       *)
(* bounded queue, each after the other on its own subscription; the task   *)
(* that takes them from the queue and hands them to the world model in     *)
(* batches; and the background tasks of the Bayesian world model, which an *)
(* operator may reload over gRPC meanwhile. The process may also crash,    *)
(* and is started again.                                                   *)
(*                                                                         *)
(* An event is a pair of the number of its message and its place in it;    *)
(* <<n, 0>> stands for a message that cannot be read.                      *)
(*                                                                         *)
(* An operator named Bug... is a plausible mistake in the definition that  *)
(* follows it; nothing uses it.                                            *)
(***************************************************************************)
EXTENDS Naturals, FiniteSets, SequencesExt

CONSTANTS
    Channels,                  \* the subscriptions, in the order they are made
    QueueSize, BatchSize,      \* queue_maxsize and batch_size of nats
    Setups,                    \* what happens around the twin, see below
    ReloadsAtOnce              \* bound: reload_model requests served at a time

(* What is published, which may name events the model refuses; how many    *)
(* requests to reload the model come, how often the process crashes, and   *)
(* whether a reasoner asks the twin (module TwinClient).                   *)
MessageType == [channel : ToSet(Channels), events : Seq({"good", "refused"}), readable : BOOLEAN]
SetupType == [traffic : Seq(MessageType), reloads : Nat, crashes : Nat, asked : BOOLEAN]

ASSUME TwinAssumption ==
    /\ Channels \in Seq(ToSet(Channels)) /\ IsInjective(Channels)
    /\ QueueSize \in Nat \ {0} /\ BatchSize \in Nat \ {0} /\ ReloadsAtOnce \in Nat
    /\ Setups \subseteq SetupType

VARIABLES
    setup,
    phase,            \* where start() or stop() is: see Phases
    running,          \* the flag the loop tests
    looping,          \* the task of _process_messages runs
    subscriptions,    \* how many of Channels are subscribed
    serving,          \* the gRPC server accepts requests
    inbox,            \* channel -> messages that wait for the handler
    handler,          \* channel -> events the handler still has to put
    message_queue,
    batch,
    world_model,      \* see ModelType
    published,        \* history: messages published so far
    fate,             \* history: what became of the events that are out of the queue
    restarts          \* history: crashes so far

ingestVars == <<inbox, handler, message_queue, batch>>
lifeVars == <<phase, running, looping, subscriptions, serving>>
historyVars == <<published, fate>>
twinVars == <<setup, lifeVars, ingestVars, world_model, historyVars, restarts>>

Phases == {"new", "connected", "loaded", "subscribed", "served", "up", "failed",
           "stopping", "unserved", "unsubscribed", "shut_down", "stopped"}
Names == ToSet(Channels)
Subscribed == {Channels[i] : i \in 1..subscriptions}

Events(n) ==
    LET m == setup.traffic[n]
    IN  IF m.readable THEN [k \in DOMAIN m.events |-> <<n, k>>] ELSE <<<<n, 0>>>>
Refused(e) == setup.traffic[e[1]].events[e[2]] = "refused"
AllEvents == UNION {ToSet(Events(n)) : n \in DOMAIN setup.traffic}

(* The background tasks of the world model are created and cancelled       *)
(* three at a time: such a set is a number. listed is _background_tasks,   *)
(* alive the sets that run, reloading the requests inside reload_model.    *)
ModelType == [loaded : BOOLEAN, running : BOOLEAN, initialized : BOOLEAN, listed : SUBSET Nat,
              alive : SUBSET Nat, reloading : Nat, requests : Nat]
NoModel == [loaded |-> FALSE, running |-> FALSE, initialized |-> FALSE, listed |-> {}, alive |-> {},
            reloading |-> 0, requests |-> 0]

(* The model has the events applied in the order applied; the sets keep    *)
(* those that raised an error in it, went to the dead-letter subject, or   *)
(* were lost with the process, on their way in, or with nobody subscribed. *)
NoFate == [applied |-> <<>>, failed |-> {}, dead |-> {}, lost |-> {}]

TwinTypeOK ==
    /\ setup \in Setups /\ phase \in Phases
    /\ running \in BOOLEAN /\ looping \in BOOLEAN /\ serving \in BOOLEAN
    /\ subscriptions \in 0..Len(Channels)
    /\ published \in 0..Len(setup.traffic) /\ restarts \in 0..setup.crashes
    /\ inbox \in [Names -> Seq(1..published)] /\ handler \in [Names -> Seq(AllEvents)]
    /\ message_queue \in Seq(AllEvents) /\ Len(message_queue) <= QueueSize
    /\ batch \in Seq(AllEvents) /\ Len(batch) < BatchSize
    /\ fate \in [applied : Seq(AllEvents), failed : SUBSET AllEvents, dead : SUBSET AllEvents,
                 lost : SUBSET AllEvents]
    /\ world_model \in ModelType

TwinInit ==
    /\ setup \in Setups
    /\ phase = "new" /\ running = FALSE /\ looping = FALSE /\ subscriptions = 0 /\ serving = FALSE
    /\ inbox = [c \in Names |-> <<>>] /\ handler = [c \in Names |-> <<>>]
    /\ message_queue = <<>> /\ batch = <<>>
    /\ world_model = NoModel
    /\ published = 0 /\ fate = NoFate /\ restarts = 0

-----------------------------------------------------------------------------
(* The background tasks of the model.                                      *)

Fresh(alive) == CHOOSE g \in 0..Cardinality(alive) : g \notin alive

(* initialize                                                              *)
Initialized(w) ==
    LET g == Fresh(w.alive)
    IN  [w EXCEPT !.loaded = TRUE, !.running = TRUE, !.initialized = TRUE,
                  !.listed = @ \cup {g}, !.alive = @ \cup {g}]

(* shutdown, before it awaits the tasks it has cancelled, and after        *)
Cancelled(w) == [w EXCEPT !.running = FALSE, !.alive = @ \ w.listed]
Cleared(w) == [w EXCEPT !.listed = {}, !.initialized = FALSE]

(* reload_model: after the shutdown the model starts anew.                 *)
BugReloaded(w) == Cleared(Initialized(w))
Reloaded(w) == Initialized(Cleared(w))

RequestReload ==
    /\ serving /\ world_model.requests < setup.reloads /\ world_model.reloading < ReloadsAtOnce
    /\ world_model' = [Cancelled(world_model) EXCEPT !.reloading = @ + 1, !.requests = @ + 1]
    /\ UNCHANGED <<setup, lifeVars, ingestVars, historyVars, restarts>>

FinishReload ==
    /\ world_model.reloading > 0
    /\ world_model' = [Reloaded(world_model) EXCEPT !.reloading = @ - 1]
    /\ UNCHANGED <<setup, lifeVars, ingestVars, historyVars, restarts>>

(* A task that is not in the list any more ends when it wakes and finds    *)
(* the model not running.                                                  *)
TaskEnds ==
    /\ ~world_model.running
    /\ \E g \in world_model.alive : world_model' = [world_model EXCEPT !.alive = @ \ {g}]
    /\ UNCHANGED <<setup, lifeVars, ingestVars, historyVars, restarts>>

-----------------------------------------------------------------------------
(* start. Any step may raise; stop() then returns at once, since the agent *)
(* does not run, and the process ends.                                     *)
StartStep(from, to) ==
    /\ phase = from /\ phase' = to
    /\ UNCHANGED <<setup, ingestVars, historyVars, restarts>>

Connect == /\ StartStep("new", "connected")
           /\ UNCHANGED <<running, looping, subscriptions, serving, world_model>>

LoadWorldModel == /\ StartStep("connected", "loaded")
                  /\ world_model' = Initialized(world_model)
                  /\ UNCHANGED <<running, looping, subscriptions, serving>>

(* _start_nats_ingestion: one subscription after the other                 *)
Subscribe ==
    /\ subscriptions < Len(Channels) /\ subscriptions' = subscriptions + 1
    /\ StartStep("loaded", IF subscriptions' = Len(Channels) THEN "subscribed" ELSE "loaded")
    /\ UNCHANGED <<running, looping, serving, world_model>>

StartGrpcServer == /\ StartStep("subscribed", "served") /\ serving' = TRUE
                   /\ UNCHANGED <<running, looping, subscriptions, world_model>>

(* The task that is created here first runs when the flag is set: there is *)
(* no await between the two. It tests the flag before anything else.       *)
BugLoopStarts == running
LoopStarts == running'

StartProcessing == /\ StartStep("served", "up")
                   /\ running' = TRUE /\ looping' = LoopStarts
                   /\ UNCHANGED <<subscriptions, serving, world_model>>

StartFails ==
    /\ phase \in {"new", "connected", "loaded", "subscribed"} /\ phase' = "failed"
    /\ UNCHANGED <<setup, running, looping, subscriptions, serving, ingestVars, world_model,
                   historyVars, restarts>>

-----------------------------------------------------------------------------
(* stop                                                                    *)

(* The events on their way into the model.                                 *)
OnTheWay ==
    ToSet(message_queue) \cup ToSet(batch)
    \cup UNION {ToSet(handler[c]) \cup UNION {ToSet(Events(n)) : n \in ToSet(inbox[c])} : c \in Names}

(* running is cleared and the task cancelled where it waits, with what it  *)
(* had in its batch; the lines after its loop are not reached.             *)
Stop ==
    /\ phase = "up" /\ phase' = "stopping"
    /\ running' = FALSE /\ looping' = FALSE
    /\ batch' = <<>> /\ fate' = [fate EXCEPT !.lost = @ \cup ToSet(batch)]
    /\ UNCHANGED <<setup, subscriptions, serving, inbox, handler, message_queue, world_model,
                   published, restarts>>

(* _stop_grpc_server lets the requests in progress end, for 5 seconds.     *)
StopGrpcServer ==
    /\ phase = "stopping" /\ serving' = FALSE
    /\ phase' = IF world_model.reloading = 0 THEN "unserved" ELSE phase
    /\ UNCHANGED <<setup, running, looping, subscriptions, ingestVars, world_model, historyVars, restarts>>

(* _stop_nats_ingestion, and with the subscriptions the handlers           *)
StopIngestion ==
    /\ phase = "unserved" /\ phase' = "unsubscribed" /\ subscriptions' = 0
    /\ inbox' = [c \in Names |-> <<>>] /\ handler' = [c \in Names |-> <<>>] /\ message_queue' = <<>>
    /\ fate' = [fate EXCEPT !.lost = @ \cup OnTheWay]
    /\ UNCHANGED <<setup, running, looping, serving, batch, world_model, published, restarts>>

ShutdownModel ==
    /\ phase = "unsubscribed" /\ phase' = "shut_down"
    /\ world_model' = Cleared(Cancelled(world_model))
    /\ UNCHANGED <<setup, running, looping, subscriptions, serving, ingestVars, historyVars, restarts>>

CloseNats == /\ phase = "shut_down" /\ phase' = "stopped"
             /\ UNCHANGED <<setup, running, looping, subscriptions, serving, ingestVars, world_model,
                            historyVars, restarts>>

(* The process ends, by a crash or after a start that failed, and a new    *)
(* one is started.                                                         *)
Crash ==
    /\ phase # "stopped" /\ restarts < setup.crashes /\ restarts' = restarts + 1
    /\ phase' = "new" /\ running' = FALSE /\ looping' = FALSE /\ subscriptions' = 0 /\ serving' = FALSE
    /\ inbox' = [c \in Names |-> <<>>] /\ handler' = [c \in Names |-> <<>>]
    /\ message_queue' = <<>> /\ batch' = <<>>
    /\ world_model' = [NoModel EXCEPT !.requests = world_model.requests]
    /\ fate' = [fate EXCEPT !.lost = @ \cup OnTheWay]
    /\ UNCHANGED <<setup, published>>

-----------------------------------------------------------------------------
(* Ingestion.                                                              *)

(* NATS hands a message to the subscription there is, if there is one.     *)
Publish ==
    /\ published < Len(setup.traffic) /\ published' = published + 1
    /\ LET c == setup.traffic[published'].channel
       IN  IF c \in Subscribed
           THEN inbox' = [inbox EXCEPT ![c] = Append(@, published')] /\ UNCHANGED fate
           ELSE fate' = [fate EXCEPT !.lost = @ \cup ToSet(Events(published'))] /\ UNCHANGED inbox
    /\ UNCHANGED <<setup, lifeVars, handler, message_queue, batch, world_model, restarts>>

(* _send_to_dead_letter_queue: told of on the subject of errors, or in the *)
(* log when that fails, which is the same here.                            *)
DeadLettered(n) == [fate EXCEPT !.dead = @ \cup ToSet(Events(n))]

(* _handle_telemetry_batch_message, _handle_telemetry_stream_message,      *)
(* _handle_execution_result_message, _handle_calibrate_message: a message  *)
(* that cannot be read goes to the dead-letter subject. The next message   *)
(* of a subscription waits until its handler has returned.                 *)
BugHandlerIsFree(c) == TRUE
HandlerIsFree(c) == handler[c] = <<>>

Handle(c) ==
    /\ inbox[c] # <<>> /\ HandlerIsFree(c)
    /\ inbox' = [inbox EXCEPT ![c] = Tail(@)]
    /\ LET n == Head(inbox[c])
       IN  IF setup.traffic[n].readable
           THEN handler' = [handler EXCEPT ![c] = Events(n) \o @] /\ UNCHANGED fate
           ELSE fate' = DeadLettered(n) /\ UNCHANGED handler
    /\ UNCHANGED <<setup, lifeVars, message_queue, batch, world_model, published, restarts>>

(* await _message_queue.put: it waits while the queue is full.             *)
Enqueued(e) ==
    /\ Len(message_queue) < QueueSize
    /\ message_queue' = Append(message_queue, e) /\ UNCHANGED fate

Put(c) ==
    /\ handler[c] # <<>> /\ Enqueued(Head(handler[c]))
    /\ handler' = [handler EXCEPT ![c] = Tail(@)]
    /\ UNCHANGED <<setup, lifeVars, inbox, batch, world_model, published, restarts>>

(* _process_batch: each event goes to the model; one that it refuses is    *)
(* counted and the rest goes on. No model suspends meanwhile.              *)
Taken(b) ==
    LET taken[i \in 0..Len(b)] ==
            IF i = 0 THEN <<>>
            ELSE IF Refused(b[i]) THEN taken[i - 1] ELSE Append(taken[i - 1], b[i])
    IN  taken[Len(b)]
ProcessBatch(b) ==
    [fate EXCEPT !.applied = @ \o Taken(b), !.failed = @ \cup {e \in ToSet(b) : Refused(e)}]

(* _process_messages: a message has come. The batch is due when it is full *)
(* or when the last one was a batch timeout ago.                           *)
Get ==
    /\ looping /\ message_queue # <<>> /\ message_queue' = Tail(message_queue)
    /\ LET b == Append(batch, Head(message_queue))
       IN  \/ fate' = ProcessBatch(b) /\ batch' = <<>>
           \/ Len(b) < BatchSize /\ batch' = b /\ UNCHANGED fate
    /\ UNCHANGED <<setup, lifeVars, inbox, handler, world_model, published, restarts>>

(* No message for a batch timeout: what there is is processed.             *)
BatchTimesOut ==
    /\ looping /\ message_queue = <<>> /\ batch # <<>>
    /\ fate' = ProcessBatch(batch) /\ batch' = <<>>
    /\ UNCHANGED <<setup, lifeVars, inbox, handler, message_queue, world_model, published, restarts>>

-----------------------------------------------------------------------------
Starting == Connect \/ LoadWorldModel \/ Subscribe \/ StartGrpcServer \/ StartProcessing
Stopping == StopGrpcServer \/ StopIngestion \/ ShutdownModel \/ CloseNats
Ingesting == (\E c \in Names : Handle(c) \/ Put(c)) \/ Get \/ BatchTimesOut
Reloading == FinishReload \/ TaskEnds

TwinNext ==
    \/ Starting \/ StartFails \/ Stop \/ Stopping \/ Crash
    \/ Publish \/ Ingesting
    \/ RequestReload \/ Reloading

(* Every task that can run runs, as asyncio schedules them; a batch        *)
(* timeout comes; nothing makes the operator stop or a message come.       *)
TwinFairness ==
    /\ WF_twinVars(Starting) /\ WF_twinVars(Stopping)
    /\ \A c \in Names : WF_twinVars(Handle(c)) /\ WF_twinVars(Put(c))
    /\ WF_twinVars(Get) /\ WF_twinVars(BatchTimesOut) /\ WF_twinVars(FinishReload)

-----------------------------------------------------------------------------
(* Properties.                                                             *)

Occurrences(e, seq) == Cardinality({i \in DOMAIN seq : seq[i] = e})
Places(e) ==
    Occurrences(e, message_queue) + Occurrences(e, batch) + Occurrences(e, fate.applied)
    + Cardinality({s \in {"failed", "dead", "lost"} : e \in fate[s]})
    + Cardinality({c \in Names : e[1] \in ToSet(inbox[c])})
    + Cardinality({c \in Names : e \in ToSet(handler[c])})

(* Every event published is at one place at any time: waiting somewhere,   *)
(* once in the model, counted as failed, a dead letter, or lost; whatever  *)
(* the subscriptions, the queue, the batches and a stop do to it.          *)
EachEventOnce ==
    \A n \in 1..published : \A e \in ToSet(Events(n)) : Places(e) = 1

(* The model sees the events of a subscription in the order they were      *)
(* published, also when several handlers wait for room in the queue.       *)
AppliedInOrder ==
    \A i, j \in DOMAIN fate.applied :
        LET e == fate.applied[i]
            d == fate.applied[j]
        IN  /\ i < j /\ setup.traffic[e[1]].channel = setup.traffic[d[1]].channel
            => e[1] < d[1] \/ (e[1] = d[1] /\ e[2] < d[2])

(* However its reloads interleave, a model that no request is reloading is *)
(* left initialized, with background tasks that shutdown can cancel.       *)
ReloadLeavesItRunning ==
    (phase = "up" /\ world_model.reloading = 0) =>
        /\ world_model.running /\ world_model.initialized
        /\ world_model.listed # {} /\ world_model.listed \subseteq world_model.alive

(* An agent that stays up empties its queue and its batch again and again, *)
(* a batch that is not full included.                                      *)
QueueEmpties ==
    []<>(phase # "up" \/ \A c \in Names : inbox[c] = <<>> /\ handler[c] = <<>>
                                         /\ message_queue = <<>> /\ batch = <<>>)
=============================================================================
