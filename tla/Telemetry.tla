------------------------------- MODULE Telemetry -------------------------------
(***************************************************************************)
(* Telemetry of POLARIS from the monitor to the knowledge base: the        *)
(* collector of MonitorAdapter asks SWIM for its metrics and puts one      *)
(* event per answer into a bounded queue; the publisher takes batches from *)
(* it to NATS, and one by one what cannot be sent as a batch; every event  *)
(* may go out on its own as well; and KnowledgeBaseService stores what     *)
(* arrives on its three telemetry subjects, each in order.                 *)
(*                                                                         *)
(* An event is the number it got when it was collected.                    *)
(*                                                                         *)
(* An operator named Bug... is a plausible mistake in the definition that  *)
(* follows it; nothing uses it.                                            *)
(***************************************************************************)
EXTENDS KnowledgeBase, SequencesExt

CONSTANTS
    CallerIds,                 \* the ids others than the service store entries under
    Derived,                   \* the metrics computed from the others, of Metrics
    Textual,                   \* the metrics whose value is not a number
    QueueSize, BatchSize,      \* queue_maxsize, batch_size of telemetry
    Setups,                    \* the deployments to consider, see below
    MaxCycles                  \* bound: cycles of the collector

(* A deployment: the metrics it asks for, in order, whether events are      *)
(* streamed too, whether NATS takes what is published, whether the         *)
(* knowledge base has callers of its own besides the service, a bound on   *)
(* the cycles of the collector, and whether a meta-learner runs.           *)
SetupType == [metrics : Seq(MetricNames), stream : BOOLEAN, reliable : BOOLEAN,
              callers : BOOLEAN, cycles : 0..MaxCycles, tuned : BOOLEAN]

ASSUME TelemetryAssumption ==
    /\ CallerIds \subseteq DirectIds
    /\ Derived \subseteq MetricNames /\ Textual \subseteq MetricNames
    /\ QueueSize \in Nat \ {0} /\ BatchSize \in Nat \ {0}
    /\ MaxCycles \in Nat /\ Setups \subseteq SetupType
    /\ {"observation", "snapshot", "llm_context", "permanent", "swim_snapshotter",
        "monitor.state.snapshot", "system"} \subseteq STRING   \* of snapshots, for the provers

VARIABLES
    setup,
    cycles,           \* cycles of the collector so far
    metric,           \* event -> its metric; its domain the events collected
    snapshot,         \* "none", or the snapshot of a cycle is still to be published
    telemetry_queue,
    publisher, batch, \* _publisher_loop: where it is, and the batch in its hands
    immediate,        \* _immediate_publish_tasks, in the order they started
    running, stopping,
    stream, batches, snapshots,   \* published and not yet handled by the service
    handled,          \* history: how often the service stored an event,
    lost              \*    and the events that were dropped on the way

monitorVars == <<cycles, metric, snapshot, telemetry_queue, publisher, batch, immediate>>
stopVars == <<running, stopping>>
channelVars == <<stream, batches, snapshots>>
historyVars == <<handled, lost>>
vars == <<setup, kb, monitorVars, stopVars, channelVars, historyVars>>

Events == DOMAIN metric
Numeric == {n \in Events : metric[n] \notin Textual}

TypeOK ==
    /\ setup \in Setups
    /\ \A id \in DOMAIN kb.entries : kb.entries[id] \in EntryType
    /\ \A t \in kb.index : Len(t) = 3
    /\ \A m \in MetricNames : /\ Len(kb.buffers[m]) <= BufferSize
                               /\ ToSet(kb.buffers[m]) \subseteq Events
    /\ cycles \in 0..setup.cycles /\ metric \in Seq(MetricNames) /\ snapshot \in {"none", "due"}
    /\ publisher \in {"get", "fill", "flush", "fallback", "ended"}
    /\ Len(telemetry_queue) <= QueueSize /\ Len(batch) <= BatchSize
    /\ ToSet(telemetry_queue) \cup ToSet(batch) \cup ToSet(immediate) \cup ToSet(stream)
          \subseteq Events
    /\ \A i \in DOMAIN batches : ToSet(batches[i]) \subseteq Events
    /\ snapshots \in Nat
    /\ running \in BOOLEAN /\ stopping \in {"no", "draining", "gathering", "stopped"}
    /\ handled \in [Events -> Nat] /\ lost \subseteq Events

Init ==
    /\ setup \in Setups
    /\ KBInit
    /\ cycles = 0 /\ metric = <<>> /\ snapshot = "none"
    /\ telemetry_queue = <<>> /\ publisher = "get" /\ batch = <<>> /\ immediate = <<>>
    /\ running = TRUE /\ stopping = "no"
    /\ stream = <<>> /\ batches = <<>> /\ snapshots = 0
    /\ handled = <<>> /\ lost = {}

-----------------------------------------------------------------------------
(* The collector.                                                          *)

(* _query_metric and _calculate_derived_metrics: the metrics a cycle gets, *)
(* which leaves out those whose query fails, and what depends on them.     *)
Answers ==
    LET asked == ToSet(setup.metrics)
    IN  {S \in SUBSET asked : S \cap Derived # {} => asked \ Derived \subseteq S}

(* _collect_once: events for the metrics collected go into the queue until *)
(* it is full, which ends the loop and with it the streaming of the rest.  *)
RoomFor(collected) ==
    SubSeq(collected, 1, Min({Len(collected), QueueSize - Len(telemetry_queue)}))

Got(S) ==
    LET among[i \in 0..Len(setup.metrics)] ==
            IF i = 0 THEN <<>>
            ELSE IF setup.metrics[i] \in S THEN Append(among[i - 1], setup.metrics[i])
            ELSE among[i - 1]
    IN  among[Len(setup.metrics)]

Collect(S) ==
    LET got       == Got(S)
        collected == [i \in DOMAIN got |-> Len(metric) + i]
        enqueued  == RoomFor(collected)
    IN  /\ metric' = metric \o got
        /\ handled' = handled \o [i \in DOMAIN got |-> 0]
        /\ telemetry_queue' = telemetry_queue \o enqueued
        /\ immediate' = IF setup.stream THEN immediate \o enqueued ELSE immediate
        /\ lost' = lost \cup (ToSet(collected) \ ToSet(enqueued))

CollectOnce ==
    /\ running /\ snapshot = "none"
    /\ cycles < setup.cycles /\ cycles' = cycles + 1
    /\ \E S \in Answers : Collect(S)
    /\ snapshot' = "due"
    /\ UNCHANGED <<setup, kb, publisher, batch, stopVars, channelVars>>

(* store_system_snapshot                                                   *)
StoreSystemSnapshot ==
    /\ snapshot = "due" /\ snapshot' = "none"
    /\ \/ snapshots' = snapshots + 1
       \/ ~setup.reliable /\ UNCHANGED snapshots
    /\ UNCHANGED <<setup, kb, cycles, metric, telemetry_queue, publisher, batch, immediate,
                   stopVars, stream, batches, historyVars>>

(* _publish_event, by a task of its own                                    *)
PublishEvent ==
    /\ immediate # <<>> /\ immediate' = Tail(immediate)
    /\ \/ stream' = Append(stream, Head(immediate))
       \/ ~setup.reliable /\ UNCHANGED stream
    /\ UNCHANGED <<setup, kb, cycles, metric, snapshot, telemetry_queue, publisher, batch, stopVars,
                   batches, snapshots, historyVars>>

-----------------------------------------------------------------------------
(* _publisher_loop                                                         *)
PublisherStep == UNCHANGED <<setup, kb, cycles, metric, snapshot, immediate, stopVars, snapshots,
                             handled>>

GetFirst ==
    /\ publisher = "get" /\ telemetry_queue # <<>>
    /\ batch' = <<Head(telemetry_queue)>> /\ telemetry_queue' = Tail(telemetry_queue)
    /\ publisher' = IF BatchSize = 1 THEN "flush" ELSE "fill"
    /\ UNCHANGED <<stream, batches, lost>>
    /\ PublisherStep

(* wait_for times out on an empty queue, and the loop looks at `running'.  *)
GetTimesOut ==
    /\ publisher = "get" /\ telemetry_queue = <<>> /\ ~running
    /\ publisher' = "ended"
    /\ UNCHANGED <<telemetry_queue, batch, stream, batches, lost>>
    /\ PublisherStep

FillBatch ==
    /\ publisher = "fill" /\ telemetry_queue # <<>>
    /\ batch' = Append(batch, Head(telemetry_queue)) /\ telemetry_queue' = Tail(telemetry_queue)
    /\ publisher' = IF Len(batch') < BatchSize THEN "fill" ELSE "flush"
    /\ UNCHANGED <<stream, batches, lost>>
    /\ PublisherStep

(* batch_max_wait is over, whatever the queue holds.                       *)
BugBatchWaitOver == Len(batch) = BatchSize
BatchWaitOver == TRUE

BatchWaitEnds ==
    /\ publisher = "fill" /\ BatchWaitOver
    /\ publisher' = "flush"
    /\ UNCHANGED <<telemetry_queue, batch, stream, batches, lost>>
    /\ PublisherStep

NextRound == IF running THEN "get" ELSE "ended"

(* _flush_batch: the batch is published, or its events one by one; a       *)
(* publication that fails was not sent.                                    *)
Flushed ==
    batches' = Append(batches, batch) /\ publisher' = NextRound /\ batch' = <<>>

BugAfterFailure == "get"
AfterFailure == "fallback"

FlushBatch ==
    /\ publisher = "flush"
    /\ \/ Flushed
       \/ ~setup.reliable /\ publisher' = AfterFailure /\ UNCHANGED <<batches, batch>>
    /\ UNCHANGED <<telemetry_queue, stream, lost>>
    /\ PublisherStep

FlushOne ==
    /\ publisher = "fallback"
    /\ batch' = Tail(batch)
    /\ publisher' = IF batch' = <<>> THEN NextRound ELSE "fallback"
    /\ \/ stream' = Append(stream, Head(batch)) /\ UNCHANGED lost
       \/ lost' = lost \cup {Head(batch)} /\ UNCHANGED stream
    /\ UNCHANGED <<telemetry_queue, batches>>
    /\ PublisherStep

-----------------------------------------------------------------------------
(* stop of the monitor: the collector is cancelled, the queue drained; the *)
(* publisher cancelled, the immediate tasks awaited; everything cancelled. *)

RequestStop ==
    /\ stopping = "no"
    /\ stopping' = "draining" /\ running' = FALSE /\ snapshot' = "none"
    /\ UNCHANGED <<setup, kb, cycles, metric, telemetry_queue, publisher, batch, immediate,
                   channelVars, historyVars>>

(* join returns when nothing is unfinished, or its timeout expires.  The   *)
(* publisher loses what it holds when it is cancelled.                     *)
Drained == telemetry_queue = <<>> /\ batch = <<>>

EndDraining ==
    /\ stopping = "draining"
    /\ stopping' = "gathering"
    /\ publisher' = "ended" /\ batch' = <<>>
    /\ lost' = IF Drained THEN lost ELSE lost \cup ToSet(batch) \cup ToSet(telemetry_queue)
    /\ telemetry_queue' = <<>>
    /\ UNCHANGED <<setup, kb, cycles, metric, snapshot, immediate, running, channelVars, handled>>

EndGathering ==
    /\ stopping = "gathering" /\ stopping' = "stopped"
    /\ immediate' = <<>>
    /\ UNCHANGED <<setup, kb, cycles, metric, snapshot, telemetry_queue, publisher, batch, running,
                   channelVars, historyVars>>

-----------------------------------------------------------------------------
(* KnowledgeBaseService: a handler per subject, none of which waits.       *)

(* What storing an event's entry makes of a knowledge base; a value that   *)
(* is no number is left out.                                               *)
WithEvent(k, n) == IF n \in Numeric THEN WithRawTelemetry(k, metric[n], n) ELSE k

Counted(events) ==
    [n \in Events |-> IF n \in Numeric \cap events THEN handled[n] + 1 ELSE handled[n]]

ServiceStep == UNCHANGED <<setup, monitorVars, stopVars, lost>>

(* _handle_telemetry_event                                                 *)
HandleEvent ==
    /\ stream # <<>> /\ stream' = Tail(stream)
    /\ kb' = WithEvent(kb, Head(stream)) /\ handled' = Counted({Head(stream)})
    /\ UNCHANGED <<batches, snapshots>>
    /\ ServiceStep

(* _handle_telemetry_batch: the knowledge base after each event of it.     *)
After(events) ==
    LET after[i \in 0..Len(events)] == IF i = 0 THEN kb ELSE WithEvent(after[i - 1], events[i])
    IN  after[Len(events)]

HandleBatch ==
    /\ batches # <<>> /\ batches' = Tail(batches)
    /\ kb' = After(Head(batches)) /\ handled' = Counted(ToSet(Head(batches)))
    /\ UNCHANGED <<stream, snapshots>>
    /\ ServiceStep

(* _handle_telemetry_snapshots: an entry under a new id for each.          *)
SnapshotEntry ==
    [data_type |-> "observation", tags |-> {"snapshot", "llm_context", "permanent"},
     source |-> "swim_snapshotter", metric_name |-> "monitor.state.snapshot",
     words |-> {"system"}, window |-> <<0, 0>>, total_updates |-> 0]

FreeIds == (DirectIds \ CallerIds) \ DOMAIN kb.entries

HandleSnapshot ==
    /\ snapshots > 0 /\ snapshots' = snapshots - 1
    /\ FreeIds # {}
    /\ kb' = Stored(kb, CHOOSE id \in FreeIds : TRUE, SnapshotEntry)
    /\ UNCHANGED <<stream, batches, handled>>
    /\ ServiceStep

-----------------------------------------------------------------------------
(* Callers of the knowledge base: _handle_adaptation_decision stores the   *)
(* entry it is sent; delete and clear are there for users of the class.    *)
CallerStep == UNCHANGED <<setup, monitorVars, stopVars, channelVars, historyVars>>

StoreEntry ==
    /\ setup.callers
    /\ \E id \in CallerIds, e \in DirectEntries : kb' = Stored(kb, id, e)
    /\ CallerStep

DeleteEntry ==
    /\ setup.callers
    /\ \E id \in DOMAIN kb.entries : kb' = Deleted(kb, id)
    /\ CallerStep

ClearAll == setup.callers /\ kb' = Cleared /\ CallerStep

-----------------------------------------------------------------------------
Collector == CollectOnce \/ StoreSystemSnapshot \/ PublishEvent
Publisher == GetFirst \/ GetTimesOut \/ FillBatch \/ BatchWaitEnds \/ FlushBatch \/ FlushOne
Stop == EndDraining \/ EndGathering
Service == HandleEvent \/ HandleBatch \/ HandleSnapshot
Callers == StoreEntry \/ DeleteEntry \/ ClearAll

Next == Collector \/ Publisher \/ RequestStop \/ Stop \/ Service \/ Callers

Spec == Init /\ [][Next]_vars

(* The tasks of the monitor and the subscriptions of the service all run;  *)
(* nobody has to ask the monitor to collect more, or to stop.              *)
Fairness ==
    /\ WF_vars(StoreSystemSnapshot) /\ WF_vars(PublishEvent) /\ WF_vars(Publisher)
    /\ WF_vars(Stop)
    /\ WF_vars(HandleEvent) /\ WF_vars(HandleBatch) /\ WF_vars(HandleSnapshot)

FairSpec == Spec /\ Fairness

-----------------------------------------------------------------------------
(* The queries of the library's documentation: by type, tags, source and   *)
(* metric, each left out or not.                                           *)
Queries ==
    [data_types : {{}, {"observation"}, {"adaptation_decision"}},
     tags : {{}, {"aggregated"}} \cup {e.tags : e \in DirectEntries},
     source : {{}} \cup {{e.source} : e \in DirectEntries} \cup {{"swim_monitor"}},
     metric_name : {{}} \cup {{e.metric_name} : e \in DirectEntries}]

(* A structured query answers what going through all entries would, after  *)
(* any history of stores, replacements, updates in place and deletions: no *)
(* index has lost an entry it should know.                                 *)
StructuredQueryIsScan == \A q \in Queries : StructuredQuery(q) = Scan(q)

(* A keyword search never stumbles over an id whose entry is gone, and it  *)
(* finds an entry by its words as long as it was not updated in place.     *)
Searches == (SUBSET ({"first", "updated"} \cup UNION {e.words : e \in DirectEntries})) \ {{}}
KeywordSearchFinds ==
    \A ws \in Searches :
       /\ KeywordIds(ws) \subseteq DOMAIN kb.entries
       /\ \A id \in DOMAIN kb.entries :
             kb.entries[id].total_updates <= 1 =>
                (id \in KeywordIds(ws) <=> ws \subseteq kb.entries[id].words)

(* An event enters the knowledge base at most once, twice when it is       *)
(* streamed as well: neither the fallback of a batch nor a stop sends an   *)
(* event again that has been sent.                                         *)
CountedAtMost == \A n \in Events : handled[n] <= IF setup.stream THEN 2 ELSE 1

(* No event vanishes: one that was collected waits somewhere, has been     *)
(* handled, has no number, or is among those the monitor says it dropped.  *)
InSome(queue, n) == \E i \in DOMAIN queue : n \in ToSet(queue[i])
NothingVanishes ==
    \A n \in Numeric :
       \/ handled[n] > 0 \/ n \in lost
       \/ InSome(<<telemetry_queue, batch, stream>>, n) \/ InSome(batches, n)

(* What holds of every event and every state of the two components.        *)
TelemetryInv == TypeOK /\ KeywordSearchFinds /\ CountedAtMost /\ NothingVanishes

(* Without streaming and failures the windows of a metric are in order and *)
(* do not overlap.                                                         *)
InOrder == ~setup.stream /\ setup.reliable
WindowsInOrder ==
    [][InOrder => \A m \in MetricNames \cap DOMAIN kb.entries \cap DOMAIN kb'.entries :
          \/ kb'.entries[m].window = kb.entries[m].window
          \/ kb'.entries[m].window[1] > kb.entries[m].window[2]]_vars

(* What is collected ends up in the knowledge base or among the lost,      *)
(* again and again, however the monitor is stopped.                        *)
Arrived(n) == handled[n] > 0 \/ n \in lost
EventsArrive == []<>(\A n \in Numeric : Arrived(n))
=============================================================================
