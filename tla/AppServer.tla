------------------------------ MODULE AppServer ------------------------------
(***************************************************************************)
(* One AppServer of the simulated web site: the multi-threaded, processor- *)
(* sharing MTServer, the passive queue in front of it, and the path its    *)
(* requests take from the source; with the removal of the server that      *)
(* ExecutionManagerMod starts and a busy signal completes.                 *)
(*                                                                         *)
(* The events of one instant of simulated time are in `fes', in the order  *)
(* the simulator takes them: a message sent without delay goes to its end. *)
(* Advance moves to the next instant.  Times are relative to now.          *)
(*                                                                         *)
(* An operator named Bug... is a plausible mistake in the definition that  *)
(* follows it; nothing uses it.                                            *)
(***************************************************************************)
EXTENDS Integers, Sequences, FiniteSets, FiniteSetsExt, Functions, SequencesExt

CONSTANTS
    NumJobs,         \* requests of the trace: jobs 1..NumJobs in this order
    Threads, Timeouts,   \* parameters of MTServer, one of each; a timeout of 0 is none
    ServiceTimes,    \* what generateJobServiceTime may draw
    MaxGap,          \* bound on the time between two requests of the trace
    Traces,          \* with TRUE, traces with several requests in an instant
    Ties             \* a request may be issued in the instant a job ends

ASSUME AppServerAssumption ==
    /\ NumJobs \in Nat /\ Threads \subseteq Nat \ {0} /\ Timeouts \subseteq Nat
    /\ ServiceTimes \subseteq Nat \ {0} /\ MaxGap \in Nat \ {0}
    /\ Traces \subseteq BOOLEAN /\ Ties \in BOOLEAN

Jobs == 1..NumJobs

VARIABLES
    maxThreads, timeout, bursts,   \* of the server; the trace has bursts
    fes, next,       \* events of this instant; the source's next job
    queue,           \* PassiveQueue
    running,         \* runningJobs: job |-> remainingServiceTime
    endIn,           \* time to the endExecutionMsg, -1 when not scheduled
    elapsed,         \* simTime() - endExecutionMsg->getSendingTime()
    queueing,        \* total queueing time of a job, counted up to timeout
    left,            \* jobs that left the server through `out'
    elsewhere,       \* jobs the load balancer gave to another server
    connected,       \* the load balancer has a gate to this server
    deleted, crashed,
    owed             \* service a running job has yet to get, if threads share fairly

config == <<maxThreads, timeout, bursts>>
sourceVars == <<config, next, elsewhere>>
serverVars == <<running, endIn, elapsed, owed>>
vars == <<fes, sourceVars, queue, serverVars, queueing, left, connected, deleted, crashed>>

(* The messages, by the module they reach.                                 *)
ToJob(module, j) == [to |-> module, job |-> j]
newJobTimer == ToJob("source", 0)
endExecutionMsg == ToJob("self", 0)
completeRemoveMsg == ToJob("executionManager", 0)

TypeOK ==
    /\ maxThreads \in Threads /\ timeout \in Timeouts /\ bursts \in Traces
    /\ \A i \in DOMAIN fes : fes[i] \in
          {newJobTimer, endExecutionMsg, completeRemoveMsg} \cup
          [to : {"arrivalMonitor", "loadBalancer", "queue", "server"}, job : Jobs]
    /\ next \in 1..(NumJobs + 1)
    /\ \A i \in DOMAIN queue : queue[i] \in Jobs
    /\ DOMAIN running \subseteq Jobs /\ \A j \in DOMAIN running : running[j] \in Nat
    /\ endIn \in Nat \cup {-1} /\ elapsed \in Nat
    /\ queueing \in [Jobs -> 0..timeout]
    /\ left \subseteq Jobs /\ elsewhere \subseteq Jobs
    /\ connected \in BOOLEAN /\ deleted \in BOOLEAN /\ crashed \in BOOLEAN
    /\ owed \in [Jobs -> Int]

Init ==
    /\ maxThreads \in Threads /\ timeout \in Timeouts /\ bursts \in Traces
    /\ fes = <<>> /\ next = 1 /\ queue = <<>>
    /\ running = <<>> /\ endIn = -1 /\ elapsed = 0
    /\ queueing = [j \in Jobs |-> 0]
    /\ left = {} /\ elsewhere = {}
    /\ connected = TRUE /\ deleted = FALSE /\ crashed = FALSE
    /\ owed = [j \in Jobs |-> 0]

-----------------------------------------------------------------------------
(* The source, the arrival monitor and the load balancer.                  *)

Take(module) == fes # <<>> /\ Head(fes).to = module /\ ~crashed

(* PredictableSource::handleMessage schedules its timer again before it    *)
(* sends the job.  The timer set at the last entry of the trace sends      *)
(* none and is left out: a trace has one entry more than jobs.             *)
Source ==
    /\ Take("source")
    /\ \E again \in IF bursts /\ next < NumJobs THEN {<<>>, <<newJobTimer>>} ELSE {<<>>} :
          fes' = Tail(fes) \o again \o <<ToJob("arrivalMonitor", next)>>
    /\ next' = next + 1
    /\ UNCHANGED <<config, elsewhere, queue, serverVars, queueing, left, connected, deleted, crashed>>

ArrivalMonitor ==
    /\ Take("arrivalMonitor")
    /\ fes' = Append(Tail(fes), ToJob("loadBalancer", Head(fes).job))
    /\ UNCHANGED <<sourceVars, queue, serverVars, queueing, left, connected, deleted, crashed>>

LoadBalancer ==
    /\ Take("loadBalancer")
    /\ \/ /\ connected
          /\ fes' = Append(Tail(fes), ToJob("queue", Head(fes).job))
          /\ UNCHANGED elsewhere
       \/ /\ fes' = Tail(fes)
          /\ elsewhere' = elsewhere \cup {Head(fes).job}
    /\ UNCHANGED <<config, next, queue, serverVars, queueing, left, connected, deleted, crashed>>

-----------------------------------------------------------------------------
isIdle == Cardinality(DOMAIN running) < maxThreads
isEmpty == DOMAIN running = {}

(* PassiveQueue::handleMessage: past the queue when the server says it can *)
(* take a job.                                                             *)
Enqueue ==
    /\ Take("queue")
    /\ IF isIdle
       THEN /\ fes' = Append(Tail(fes), ToJob("server", Head(fes).job))
            /\ UNCHANGED queue
       ELSE /\ queue' = Append(queue, Head(fes).job)
            /\ fes' = Tail(fes)
    /\ UNCHANGED <<sourceVars, serverVars, queueing, left, connected, deleted, crashed>>

(* updateJobTimes: what is left of the running jobs now.                   *)
updateJobTimes ==
    [j \in DOMAIN running |-> running[j] - elapsed \div Cardinality(DOMAIN running)]

(* The time to the next completion among jobs.                             *)
BugNextCompletion(jobs) == Min({jobs[j] : j \in DOMAIN jobs})
scheduleNextCompletion(jobs) ==
    Min({jobs[j] : j \in DOMAIN jobs}) * Cardinality(DOMAIN jobs)

(* Whether to ask for a job with jobs running.                             *)
BugAsksWhenEmpty(jobs) == DOMAIN jobs = {}
HasFreeThread(jobs) == Cardinality(DOMAIN jobs) < maxThreads

(* The end of MTServer::handleMessage, with jobs running: a free thread    *)
(* asks the queue for a job.                                               *)
Request(jobs, signals) ==
    IF HasFreeThread(jobs) /\ queue # <<>>
    THEN /\ fes' = Tail(fes) \o signals \o <<ToJob("server", Head(queue))>>
         /\ queue' = Tail(queue)
    ELSE /\ fes' = Tail(fes) \o signals
         /\ UNCHANGED queue

(* busy(false), and what ExecutionManagerMod::receiveSignal makes of it.   *)
BugBusyFalse == <<>>
BugBusyFalseEarly == IF ~connected THEN <<completeRemoveMsg>> ELSE <<>>
BusyFalse == IF ~connected /\ queue = <<>> THEN <<completeRemoveMsg>> ELSE <<>>

(* handleMessage(endExecutionMsg): all that have no service time left are  *)
(* sent out.                                                               *)
EndExecution ==
    /\ Take("self")
    /\ LET ended == {j \in DOMAIN running : updateJobTimes[j] = 0}
           jobs  == Restrict(updateJobTimes, DOMAIN running \ ended)
       IN  /\ running' = jobs
           /\ left' = left \cup ended
           /\ IF DOMAIN jobs # {}
              THEN /\ endIn' = scheduleNextCompletion(jobs) /\ elapsed' = 0
                   /\ Request(jobs, <<>>)
              ELSE /\ endIn' = -1 /\ UNCHANGED elapsed
                   /\ Request(jobs, BusyFalse)
    /\ UNCHANGED <<sourceVars, queueing, connected, deleted, crashed, owed>>

timedOut(j) == timeout > 0 /\ queueing[j] >= timeout

JobArrives ==
    /\ Take("server")
    /\ LET j == Head(fes).job IN
       \/ /\ ~isIdle
          /\ crashed' = TRUE
          /\ UNCHANGED <<fes, queue, serverVars, left>>
       \/ /\ isIdle /\ timedOut(j)
          /\ left' = left \cup {j}
          /\ Request(running, <<>>)
          /\ UNCHANGED <<serverVars, crashed>>
       \/ /\ isIdle /\ ~timedOut(j)
          /\ \E s \in ServiceTimes :
                /\ running' = [i \in DOMAIN running \cup {j} |->
                                  IF i = j THEN s ELSE updateJobTimes[i]]
                /\ owed' = [owed EXCEPT ![j] = s]
          /\ endIn' = scheduleNextCompletion(running') /\ elapsed' = 0
          /\ Request(running', <<>>)
          /\ UNCHANGED <<left, crashed>>
    /\ UNCHANGED <<sourceVars, queueing, connected, deleted>>

-----------------------------------------------------------------------------
(* ExecutionManagerMod: doRemoveServer, and the message that deletes the   *)
(* module and all it holds.  A command comes between two instants.         *)
RemoveServer ==
    /\ fes = <<>> /\ connected /\ ~crashed
    /\ connected' = FALSE
    /\ fes' = IF isEmpty /\ queue = <<>> THEN <<completeRemoveMsg>> ELSE <<>>
    /\ UNCHANGED <<sourceVars, queue, serverVars, queueing, left, deleted, crashed>>

(* The messages of this instant that are not to the deleted module.        *)
Undeleted ==
    LET kept[i \in 1..Len(fes)] ==
            IF i = 1 THEN <<>>
            ELSE IF fes[i].to \in {"queue", "server"} THEN kept[i - 1] ELSE Append(kept[i - 1], fes[i])
    IN  kept[Len(fes)]

CompleteRemove ==
    /\ Take("executionManager")
    /\ deleted' = TRUE
    /\ queue' = <<>> /\ running' = <<>> /\ endIn' = -1
    /\ fes' = Undeleted
    /\ UNCHANGED <<sourceVars, elapsed, queueing, left, connected, crashed, owed>>

(* The next instant: t from now, when a job ends, a request is issued, or  *)
(* both, in either order.  A running job gets its share in whole units.    *)
Wait(t) == [j \in Jobs |->
               IF j \in ToSet(queue) THEN Min({queueing[j] + t, timeout}) ELSE queueing[j]]

AdvanceBy(t) ==
    /\ fes = <<>> /\ ~crashed
    /\ \E issued \in BOOLEAN :
          LET n == Cardinality(DOMAIN running)
              ends == t = endIn
          IN  /\ issued => next <= NumJobs /\ (n > 0 => t % n = 0 /\ elapsed % n = 0)
              /\ endIn # -1 => t <= endIn
              /\ issued \/ ends
              /\ issued /\ ends => Ties
              /\ fes' \in {s \in {<<newJobTimer>>, <<endExecutionMsg>>,
                                  <<newJobTimer, endExecutionMsg>>,
                                  <<endExecutionMsg, newJobTimer>>} :
                             ToSet(s) = (IF issued THEN {newJobTimer} ELSE {})
                                        \cup (IF ends THEN {endExecutionMsg} ELSE {})}
              /\ endIn' = IF endIn = -1 \/ ends THEN -1 ELSE endIn - t
              /\ elapsed' = IF n = 0 THEN 0 ELSE elapsed + t
              /\ owed' = [j \in Jobs |-> IF j \in DOMAIN running THEN owed[j] - t \div n
                                         ELSE owed[j]]
              /\ queueing' = Wait(t)
    /\ UNCHANGED <<sourceVars, queue, running, left, connected, deleted, crashed>>

Advance == \E t \in 1..Max({MaxGap, endIn}) : AdvanceBy(t)

Message == Source \/ ArrivalMonitor \/ LoadBalancer \/ Enqueue \/ EndExecution
              \/ JobArrives \/ CompleteRemove

Next == Message \/ RemoveServer \/ Advance
Spec == Init /\ [][Next]_vars

(* The simulator takes every event it has, and its time goes on.           *)
FairSpec == Spec /\ WF_vars(Message) /\ WF_vars(Advance)

-----------------------------------------------------------------------------
InTransit == {fes[i].job : i \in DOMAIN fes} \ {0}
Requested == {fes[i].job : i \in {k \in DOMAIN fes : fes[k].to = "server"}}

(* One request after the other.  What is issued in the instant jobs end    *)
(* comes to the queue four messages later; until then a freed thread asks  *)
(* for one job after the other, and meets it if three threads were freed   *)
(* at once or jobs had timed out.                                          *)
OneByOne == ~bursts /\ (Ties => timeout = 0 /\ maxThreads <= 2)

(* isIdle tells the queue that the server can take one more job; a job     *)
(* that arrives finds the thread it was sent to still free ("job arrived   *)
(* while already full" is never raised), if requests come one by one.      *)
NeverOverfull == OneByOne => ~crashed

(* Queue, threads and messages under way hand jobs on without losing or    *)
(* doubling one, also when the server is deleted: each request is in       *)
(* exactly one place.                                                      *)
EveryJobAccountedFor ==
    /\ 1..(next - 1) = ToSet(queue) \cup DOMAIN running \cup left \cup elsewhere \cup InTransit
    /\ next - 1 = Len(queue) + Cardinality(DOMAIN running) + Cardinality(left)
                    + Cardinality(elsewhere) + Cardinality(InTransit)

(* Requests are asked for only when a thread frees itself: between two     *)
(* instants no job waits while a thread is free.                           *)
NoThreadIdlesWhileJobsWait ==
    fes = <<>> /\ queue # <<>> /\ ~crashed => Cardinality(DOMAIN running) = maxThreads

(* updateJobTimes charges the time since endExecutionMsg was last          *)
(* scheduled, in equal shares to the jobs that ran: whatever arrives and   *)
(* ends in between, each job gets exactly the service it drew, and the     *)
(* next completion is the first that is due.                               *)
SharesProcessor ==
    /\ \A j \in DOMAIN running : owed[j] = updateJobTimes[j]
    /\ endIn # -1 => endIn = Min({owed[j] : j \in DOMAIN running}) * Cardinality(DOMAIN running)
    /\ \A j \in left : owed[j] = 0

(* What holds of every state of the server.                                *)
ServerInv ==
    /\ TypeOK /\ EveryJobAccountedFor /\ NeverOverfull /\ NoThreadIdlesWhileJobsWait
    /\ SharesProcessor

(* No request overtakes an earlier one on its way into the threads, though *)
(* the queue is bypassed when a thread is free, if they come one by one.   *)
StartsInOrder ==
    [][OneByOne => \A j \in DOMAIN running' \ DOMAIN running :
          \A i \in ToSet(queue) \cup Requested : i >= j]_vars

(* A removal ends when the jobs of the server have (receiveSignal).        *)
RemovalCompletes == ~connected ~> deleted \/ crashed

(* It does in every server without a timeout, which never empties without  *)
(* a busy signal.                                                          *)
UntimedRemovalCompletes == timeout = 0 => RemovalCompletes

-----------------------------------------------------------------------------
(* A fresh job under way to a free thread is as good as running.           *)
Load == IF DOMAIN running # {} \/ \E j \in Requested : ~timedOut(j) THEN "running"
        ELSE IF Requested # {} THEN "waiting"
        ELSE "idle"

Abstract == INSTANCE ServerLoad WITH
    load <- Load,
    completing <- Cardinality({i \in DOMAIN fes : fes[i] = completeRemoveMsg}),
    silentFlush <- timeout > 0

(* The server behaves as SwimPool assumes of each of its modules.          *)
ImplementsServerLoad == Abstract!Spec
=============================================================================
