----------------------------- MODULE ControlLoop -----------------------------
(***************************************************************************)
(* The Python controller (loop.py, swim.py) driving the SWIM pool over its *)
(* socket (AdaptInterface).  Three clocks meet here: the controller's      *)
(* absolute schedule of periods, the timeouts of its client, and the time  *)
(* SWIM takes to read its socket and to drain a server.                    *)
(*                                                                         *)
(* A request is a batch of lines on one connection.  When the client times *)
(* out it closes the connection and sends the batch again on a new one;    *)
(* SWIM serves its connections one after the other and still executes what *)
(* it had received on a closed one: `inbox' holds the copies SWIM has not  *)
(* read, oldest first, `open' says whether the client still listens.       *)
(*                                                                         *)
(* Time is a count of ticks, a clock time for the controller and the       *)
(* simulation alike (cSocketRTScheduler pins one to the other).            *)
(*                                                                         *)
(* An operator named Bug... is a plausible mistake in the definition that  *)
(* follows it; nothing uses it.                                            *)
(***************************************************************************)
EXTENDS ManagedPool, Sequences

CONSTANTS
    Period, MaxPeriods,  \* period_seconds, max_periods
    Latencies,           \* times a policy may take to decide
    Timeout, MaxRetries, \* of SwimClient
    DrainTime,           \* time the jobs of a removed server take at most
    Prompt               \* requests SWIM reads in the tick of the send

Commands == {"add_server", "remove_server", "set_dimmer"}
Requests == Commands \cup {"scalars", "utilizations"}

ASSUME ControlLoopAssumption ==
    /\ Period \in Nat \ {0} /\ MaxPeriods \in Nat
    /\ Latencies \subseteq Nat /\ Timeout \in Nat \ {0} /\ MaxRetries \in Nat
    /\ DrainTime \in Nat /\ Prompt \subseteq Requests

VARIABLES
    now,        \* time.monotonic() - started
    pc,         \* where ControlLoop.run is
    stopRequested, period,
    request,    \* the batch SwimClient.command is exchanging, "none" if none
    deadline, attempt,
    inbox, serving,  \* what SWIM has received, and the batch in its handler
    obs,        \* Observation: servers and active_servers
    readAt,     \* when SWIM read out the scalars of obs
    sensedAt, action,
    executed,   \* times SWIM executed the command of the current decision
    drainBy     \* when the jobs of the server being removed have ended

clientVars == <<request, deadline, attempt>>
loopVars == <<now, pc, stopRequested, period, clientVars, inbox,
              serving, obs, readAt, sensedAt, action, executed, drainBy>>
allVars == <<vars, loopVars>>

Batches == [what : Requests, open : BOOLEAN]
NoBatch == [what |-> "none", open |-> FALSE]

LoopTypeOK ==
    /\ TypeOK
    /\ now \in Nat /\ period \in Nat /\ deadline \in Nat /\ attempt \in 0..MaxRetries
    /\ pc \in {"top", "sense", "think", "act", "sleep", "stopped"}
    /\ stopRequested \in BOOLEAN
    /\ request \in Requests \cup {"none"}
    /\ \A i \in DOMAIN inbox : inbox[i] \in Batches
    /\ serving \in Batches \cup {NoBatch}
    /\ obs.servers \in Int /\ obs.active_servers \in Int
    /\ readAt \in Nat /\ sensedAt \in Nat
    /\ action \in Commands \cup {"no_op"}
    /\ executed \in Nat /\ drainBy \in Nat

LoopInit ==
    /\ Init
    /\ now = 0 /\ pc = "top" /\ stopRequested = FALSE /\ period = 0
    /\ request = "none" /\ deadline = 0 /\ attempt = 0 /\ inbox = <<>> /\ serving = NoBatch
    /\ obs = [servers |-> 0, active_servers |-> 0] /\ readAt = 0 /\ sensedAt = 0
    /\ action = "no_op" /\ executed = 0 /\ drainBy = 0

-----------------------------------------------------------------------------
(* SwimClient.                                                             *)

(* _exchange: one sendall for the batch, then the wait for its replies.    *)
Exchange(r) ==
    /\ inbox' = Append(inbox, [what |-> r, open |-> TRUE])
    /\ deadline' = now + Timeout
    /\ request' = r

(* command(r), first attempt.                                              *)
StartRequest(r) == Exchange(r) /\ attempt' = 0

(* close(): nobody reads the replies to what was sent before.              *)
Close(batch) == [batch EXCEPT !.open = FALSE]
Closed(q) == [i \in DOMAIN q |-> Close(q[i])]

BugTimedOut == request # "none"
TimedOut == request # "none" /\ (now >= deadline \/ crashed)

BugOutOfAttempts == attempt > MaxRetries
OutOfAttempts == attempt = MaxRetries

AttemptsLeft == attempt < MaxRetries

(* The socket timed out with attempts left: close, sleep, send again.  The *)
(* 1 to 4 s of sleep are less than a tick and left out.                    *)
RetryRequest ==
    /\ TimedOut /\ AttemptsLeft
    /\ attempt' = attempt + 1
    /\ inbox' = Append(Closed(inbox), [what |-> request, open |-> TRUE])
    /\ serving' = Close(serving)
    /\ deadline' = now + Timeout
    /\ UNCHANGED <<vars, now, pc, stopRequested, period, request, obs,
                    readAt, sensedAt, action, executed, drainBy>>

-----------------------------------------------------------------------------
(* ControlLoop.run                                                         *)

(* The observation's view of legality: is_legal, and validate, which asks  *)
(* the same of a command about to be sent.                                 *)
BugBooting == FALSE
Booting == obs.servers > obs.active_servers

IsLegal(a) ==
    CASE a = "no_op"         -> TRUE
      [] a = "set_dimmer"    -> TRUE
      [] a = "add_server"    -> ~Booting /\ obs.servers < MaxServers
      [] a = "remove_server" -> ~Booting /\ obs.servers > 1

(* _sleep_until(started, period + 1): missed periods are skipped.          *)
BugNextPeriod == period + 1
NextPeriod == IF now > (period + 1) * Period THEN (now \div Period) + 1 ELSE period + 1

GoToSleep == pc' = "sleep" /\ period' = NextPeriod

StartSensing ==
    /\ pc = "top" /\ ~stopRequested /\ period < MaxPeriods
    /\ StartRequest("scalars")
    /\ pc' = "sense"
    /\ UNCHANGED <<vars, now, stopRequested, period, serving, obs, readAt,
                   sensedAt, action, executed, drainBy>>

StopLoop ==
    /\ pc = "top" /\ (stopRequested \/ period >= MaxPeriods)
    /\ pc' = "stopped"
    /\ UNCHANGED <<vars, now, stopRequested, period, clientVars, inbox, serving, obs,
                   readAt, sensedAt, action, executed, drainBy>>

(* Every attempt timed out: ConnectionError.  sense() skips the period; a  *)
(* command is recorded as not sent.                                        *)
RequestFails ==
    /\ TimedOut /\ OutOfAttempts
    /\ inbox' = Closed(inbox) /\ serving' = Close(serving)
    /\ request' = "none"
    /\ GoToSleep
    /\ UNCHANGED <<vars, now, stopRequested, deadline, attempt, obs, readAt, sensedAt,
                   action, executed, drainBy>>

(* The policy returns an action it holds legal; run() does not send one    *)
(* decided more than a period after sensing, nor a no_op.                  *)
BugStale == FALSE
Stale == now - sensedAt > Period

Decide ==
    /\ pc = "think" /\ now - sensedAt \in Latencies
    /\ \E a \in Commands \cup {"no_op"} :
          /\ IsLegal(a)
          /\ action' = a
          /\ executed' = 0
          /\ IF a = "no_op" \/ Stale
             THEN /\ GoToSleep
                  /\ UNCHANGED <<clientVars, inbox>>
             ELSE /\ StartRequest(a)
                  /\ pc' = "act"
                  /\ UNCHANGED period
    /\ UNCHANGED <<vars, now, stopRequested, serving, obs, readAt, sensedAt, drainBy>>

(* The next tick of the schedule, or a stop that ends the sleep early.     *)
WakeUp ==
    /\ pc = "sleep" /\ (now >= period * Period \/ stopRequested)
    /\ pc' = "top"
    /\ UNCHANGED <<vars, now, stopRequested, period, clientVars, inbox, serving, obs,
                   readAt, sensedAt, action, executed, drainBy>>

RequestStop ==
    /\ pc # "stopped" /\ ~stopRequested
    /\ stopRequested' = TRUE
    /\ UNCHANGED <<vars, now, pc, period, clientVars, inbox, serving, obs,
                   readAt, sensedAt, action, executed, drainBy>>

-----------------------------------------------------------------------------
(* AdaptInterface::handleMessage, one batch per handler.                   *)

(* A request is waiting of those SWIM reads at once.                       *)
PromptWaits == \E i \in DOMAIN inbox : inbox[i].what \in Prompt

ReceiveBatch ==
    /\ inbox # <<>>
    /\ BeginHandler
    /\ serving' = Head(inbox) /\ inbox' = Tail(inbox)
    /\ UNCHANGED <<now, pc, stopRequested, period, clientVars, obs, readAt, sensedAt,
                   action, executed, drainBy>>

(* get_servers .. get_arrival_rate: sense() then asks for the utilizations.*)
ServeScalars ==
    /\ serving.what = "scalars" /\ handling /\ ~crashed
    /\ serving' = NoBatch
    /\ IF serving.open
       THEN /\ obs' = [servers |-> getServers, active_servers |-> activeServers]
            /\ readAt' = now
            /\ StartRequest("utilizations")
       ELSE UNCHANGED <<clientVars, inbox, obs, readAt>>
    /\ UNCHANGED <<vars, now, pc, stopRequested, period, sensedAt, action, executed, drainBy>>

ServeUtilizations ==
    /\ serving.what = "utilizations" /\ handling /\ ~crashed
    /\ serving' = NoBatch
    /\ IF serving.open
       THEN request' = "none" /\ sensedAt' = now /\ pc' = "think"
       ELSE UNCHANGED <<request, sensedAt, pc>>
    /\ UNCHANGED <<vars, now, stopRequested, period, deadline, attempt, inbox, obs, readAt,
                   action, executed, drainBy>>

(* cmdAddServer, cmdRemoveServer, cmdSetDimmer; a process that dies sends  *)
(* no reply.                                                               *)
ServeCommand ==
    /\ \/ serving.what = "add_server" /\ AddServer /\ UNCHANGED drainBy
       \/ serving.what = "remove_server" /\ RemoveServer /\ drainBy' = now + DrainTime
       \/ serving.what = "set_dimmer" /\ SetBrownout /\ UNCHANGED drainBy
    /\ serving' = NoBatch
    /\ executed' = executed + 1
    /\ IF serving.open /\ ~crashed'
       THEN request' = "none" /\ GoToSleep
       ELSE UNCHANGED <<request, pc, period>>
    /\ UNCHANGED <<now, stopRequested, deadline, attempt, inbox, obs, readAt, sensedAt, action>>

FinishBatch ==
    /\ serving = NoBatch
    /\ EndHandler
    /\ UNCHANGED loopVars

SwimEvent == Event /\ UNCHANGED loopVars

-----------------------------------------------------------------------------
(* What has no duration happens before time passes; what has a latest time *)
(* happens by then.                                                        *)
Tick ==
    /\ pc \notin {"top", "stopped"}
    /\ pc = "sleep" => now < period * Period /\ ~stopRequested
    /\ pc = "think" => \E l \in Latencies : now - sensedAt < l
    /\ ~TimedOut
    /\ ~crashed => /\ ~handling /\ Quiescent
                   /\ ~PromptWaits
                   /\ serverRemoveInProgress > 0 => now < drainBy
    /\ now' = now + 1
    /\ UNCHANGED <<vars, pc, stopRequested, period, clientVars, inbox, serving, obs,
                   readAt, sensedAt, action, executed, drainBy>>

LoopStep == StartSensing \/ RetryRequest \/ RequestFails \/ Decide \/ WakeUp \/ StopLoop
SwimStep == ReceiveBatch \/ ServeScalars \/ ServeUtilizations \/ ServeCommand \/ FinishBatch

LoopNext == LoopStep \/ SwimStep \/ SwimEvent \/ RequestStop \/ Tick

LoopSpec == LoopInit /\ [][LoopNext]_allVars

(* Both processes run and time passes; of SWIM's reading of its socket no  *)
(* more is assumed than that it comes to the requests that are prompt.     *)
LoopFairSpec ==
    /\ LoopSpec
    /\ WF_allVars(LoopStep) /\ WF_allVars(Tick)
    /\ WF_allVars(FinishBatch \/ ServeScalars \/ ServeUtilizations \/ ServeCommand)
    /\ WF_allVars(PromptWaits /\ ReceiveBatch)
    /\ WF_allVars(CompleteRemove /\ UNCHANGED loopVars)
    /\ SF_allVars(/\ \E m \in Modules : m = serverBeingRemovedModuleId /\ ServerTurnsIdle(m)
                  /\ UNCHANGED loopVars)

-----------------------------------------------------------------------------
(* The loop keeps the discipline of ManagedPool: every scaling command is  *)
(* executed on a pool for which it is legal and that is not draining.      *)
KeepsDiscipline == ManagedSpec

(* run: a decision on a state that has since moved on is not sent.  A      *)
(* command goes out at most a period and the attempts of one exchange      *)
(* after SWIM read out what it was decided on, in the first of two         *)
(* exchanges that may each be repeated.                                    *)
SentOnFreshState ==
    [][pc = "think" /\ pc' = "act" => now - readAt <= Period + (MaxRetries + 1) * Timeout]_allVars

(* _sleep_until: a decision is labelled with the period it senses in.      *)
SensesInItsPeriod ==
    [][pc = "top" /\ pc' = "sense" => now \div Period = period]_allVars

(* Each decided action is executed by SWIM at most once.                   *)
ExecutedAtMostOnce == executed <= 1

(* What holds of every state of the loop and the pool it drives.           *)
LoopInv == LoopTypeOK /\ NeverCrashes /\ ExecutedAtMostOnce

(* is_legal says whether SWIM would accept the action: a command sent      *)
(* legally does not end the simulation.                                    *)
LegalIsAccepted == [][action # "no_op" /\ crashed' => crashed]_allVars

(* However SWIM behaves, the loop reaches its last period.                 *)
LoopEnds == <>(pc = "stopped")
=============================================================================
