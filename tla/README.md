# A verification project for SELAS

SELAS couples several programs. **SWIM** (`src/SWIM`, C++ on OMNeT++) simulates a
web site whose servers can be added and removed and whose optional content can
be dimmed. The **controller** (`src/CONTROLLER`, Python) reads the state of
SWIM over a TCP socket once a period, asks a policy for one action, and sends
it. **NLA** (`src/NLA`) serves a language model and explains its activations.
**POLARIS** (`src/POLARIS`, Python) is the framework for self-adaptation
the project studied before: processes that talk over NATS and gRPC. This
directory holds TLA+ modules of the parts that carry state and protocol, the
TLC configurations that check them, and theorems proved with TLAPS. Paths below
are relative to `src/`; `polaris/` stands for `POLARIS/polaris_poc/src/polaris/`.

## 1. The system

### SWIM and its controller

| component | state it keeps | operations | what makes it correct |
|---|---|---|---|
| Execution manager (`SWIM/src/managers/execution/ExecutionManagerMod*.cc`) | pending boots, removals in progress, its self-messages | addServer, removeServer, setBrownout; BootComplete, completeRemove, the `busy` signal | modules, names, gates and model stay in step; nothing is deleted that still works; a removal ends |
| Model (`SWIM/src/model/Model.cc`) | active servers, expected changes, brownout factor | addServer, serverBecameActive, removeServer, queries for planners | what it reports is what the load balancer can reach |
| AppServer (`SWIM/src/modules/MTServer.cc`, its PassiveQueue, the router) | queued and running jobs, one completion message | a job arrives, a completion message fires, a job times out | threads never overbooked or idle beside a queue, the processor shared fairly, a `busy(false)` when it empties |
| Request source (`SWIM/src/modules/PredictableSource.cc`, `ArrivalMonitor.cc`) | position in the trace | timer | every request enters once |
| Adaptation interface (`SWIM/src/externalControl/AdaptInterface.cc`) | socket buffers | one handler per received buffer | each command executed once, each reply answers its command |
| Reactive managers and their scheduling (`SWIM/src/managers/adaptation`) | a period and a delayed decision | periodEvent, evaluate, decisionCompleteEvent | one decision per period, on data monitored before it; escalates under lasting overload |
| Monitoring (`SWIM/src/managers/monitor`, `SWIM/src/util/TimeWindowStats.cc`) | windows of samples | sampling, queries | a window holds what happened in it |
| Control loop (`CONTROLLER/controller/loop.py`) | period counter, stop flag | run, _execute, _sleep_until | a command is sent on a state that still holds |
| SWIM client (`CONTROLLER/controller/swim.py`) | one connection | command, sense | one command is one effect |
| Actions (`CONTROLLER/controller/actions.py`) | none | is_legal, validate, action_space | legal means SWIM accepts it |
| Policies and backends (`policies.py`, `backends.py`) | history, calls of the model | decide | a legal action on every path, after finitely many calls; the reactive one is SWIM's |
| Prompts (`context.py`), Trajectory (`trajectory.py`), utility (`utility.py`) | the last decisions and what followed | build, second prompt, observe, record_decision | the static prefix is static, the second prompt continues the first, each observation is credited to the decision before it |

### POLARIS

| component | state it keeps | operations | what makes it correct |
|---|---|---|---|
| Monitor adapter (`polaris/adapters/monitor.py`) | a bounded queue, a batch | collect, publish, stop | an event is published once or counted as dropped |
| Knowledge base (`polaris/models/knowledge_base_impl.py`, `services/`) | entries, five indexes, windows of telemetry | store, update, delete, query | indexes answer what a scan would; windows follow each other |
| Kernel, fast controller (`polaris/kernel`, `polaris/controllers`) | a window of telemetry, two cooldowns | process telemetry | the fast path never breaks SWIM alone |
| Execution adapter (`polaris/adapters/execution.py`, `extern/swim_connector.py`) | a bounded queue, an action in hand | enqueue, worker, stop | one action at a time, preconditions first, one result each |
| Verification adapter (`polaris/adapters/verification.py`) | a queue, constraints, policies | verify, publish the verdict | a verdict means what its constraints say |
| Reasoner agent (`polaris/agents/reasoner_agent.py`), agentic reasoner (`agentic_reasoner.py`) | sessions, a conversation, a cooldown | kernel requests, tool calls, prompt reload | every request gets one answer; every reasoning ends |
| Twin client (`polaris/agents/improved_grpc_client.py`) | connection, circuit breaker | requests with retries | spares a failing twin, finds it again |
| Digital twin (`polaris/agents/digital_twin_agent.py`, `services/digital_twin_service.py`) | queue, batch, subscriptions, a world model | start, handlers, worker, reload, stop | events reach the model once and in order |
| World models (`polaris/models/*_world_model.py`) | metrics and filters; permits and a conversation | update, calibrate, query, simulate, diagnose, reload | what is claimed is founded on values; permits are accounted for |
| Meta-learner (`polaris/agents/meta_learner_llm.py`) | the prompt file, a cycle | propose, validate, save, announce | a save is a small change of what the file holds |
| NLA server (`NLA/server`), an LLM for the reasoner | a cache of activations, traces on disk | completions, chat, analyses, list of traces, restart | a trace is whole and of the call it is named for |
| Launcher (`scripts/start_component.py`) | component, tasks, exit code | start, check, signal, stop | a signal ends the process; the exit code tells the truth |

Inside SWIM components interact by calls within one event handler and by
OMNeT++ messages and signals; SWIM and the controller by lines on one TCP
socket; the processes of POLARIS by NATS subjects (one ordered channel per
subscription), by gRPC requests to the twin, by HTTP to the NLA server, and by
files (the prompt configuration the meta-learner writes and the reasoner reads,
the traces).

The hard behaviours, each listed with its line in `PROJECT.json`:

* **A drain nobody reports.** A removed server is deleted when its jobs have
  ended; neither SWIM's replies nor `is_legal` tell that it drains, and the next
  scaling command meanwhile ends the simulation or corrupts the model.
* **Names, gates and counters kept apart**, through any history of commands.
* **Time-outs and retries** of commands that are not idempotent, on the
  controller's socket, in POLARIS' connector and in its gRPC client.
* **Zero-time messages**: arrival, completion and deletion in one instant.
* **Bounded queues** with waiting producers, batches in hand, and a stop or a
  crash in between (monitor, execution, verification, twin).
* **State beside an await**: reloads of a world model, learning cycles, prompt
  files read while written, a semaphore taken twice.
* **One cache for all threads** of the NLA server, and traces of two files each.
* **A language model that answers anything**, or nothing, on every path.
* **Rounding**: six decimals on the wire, windows without a request, levels.

## 2. The modules

```
ElasticPool <-implemented by- ManagedPool --extends--> SwimPool
     ^                          ^
     | (instance)          ControlLoop
PolarisActions --extends--> Verification
     ^
PolarisServices --extends--> NLAServer, LLMReasoner, NatsClient; instance -> SnapshotSeries

ServerLoad <-implemented by- AppServer <--extends-- SimProbe

ReactiveRule <--extends-- AdaptationManager
ReactiveRule <--extends-- LLMDecision         - instance -> PromptContext

KnowledgeBase <-- Telemetry <-- MetaLearner                   (extends)
DigitalTwin <-- TwinClient <-- AgenticReasoner                (extends)
     AgenticReasoner - instance -> TwinMessages, ReasonerContext, ReasoningSession
Launcher, BayesianAnalysis <-- BayesianModel, GeminiModel <-- WorldModels
```

The theorems about X are in XProofs, which extends X: ControlLoopProofs (the pool's
first), AppServerProofs (with SimProbe's), AdaptationManagerProofs, LLMDecisionProofs,
PolarisServicesProofs, MetaLearnerProofs, AgenticReasonerProofs, WorldModelsProofs.

**SwimPool** is the execution manager with the model, the server modules and
the load balancer's gates. A handler is atomic, as in the simulator's event
loop; a socket buffer may carry several command lines, so `BeginHandler` and
`EndHandler` bracket the commands that run with no event in between. Whatever
ends the process (ASSERT, OMNeT++ error, null module, `erase(end())`) sets
`crashed`. What a server holds is `load`: "idle", "running", or "waiting" for
queued jobs whose `busy(false)` has already been sent. **ManagedPool** is
SwimPool with its commands under `is_legal` and none of them while a server
drains. **ElasticPool** is the promise to a user of the pool: a number of
servers that serve and a number reported, one change at a time.

**ControlLoop** extends ManagedPool with the Python process: its schedule of
periods, a batch on the wire (`request`, `deadline`, `attempt`), what SWIM has
received and not read (`inbox`, with copies left by closed connections), the
observation and its age, skipping of missed periods, the stop signal. `Prompt`
is the set of requests SWIM reads at once; the others it reads whenever it
likes. Time is counted in ticks; SWIM runs in real time under
`cSocketRTScheduler`, so it and the controller share the clock.

**AppServer** is one server down to its messages: `fes` is the simulator's event
list of one instant, `Advance` goes to the next. The service a job gets is
computed as in `updateJobTimes`. **SimProbe** adds the probe that listens to its
busy signal and the window from which utilization is computed; `worked` is a
history variable to compare with. **ServerLoad** is what SwimPool assumes of a
server; AppServer implements it, which closes the gap between the two levels.

**ReactiveRule** holds SWIM's `evaluate` and the port's `decide` as operators on a
site. **AdaptationManager** runs them side by side through periods: the
messages of one instant in the order of their priorities, decisions that are
delayed, boots, and two copies of the site that see the same load. It also has
what the model answers to managers that plan: levels and factors, the
configuration, the horizon, the score of a period.

**LLMDecision** runs null, random, static and language-model policies over a
backend whose calls fail, are retried, come back empty or outlast the period,
with the trajectory their prompts show. **PromptContext** is the prompts
themselves, as sequences of tokens: segments, letters, exemplars, the second
prompt and the positions of the probes.

**PolarisActions** is the path of an action from telemetry through kernel, fast
controller, reasoner, verification and execution to SWIM, which is ElasticPool
with a process that ends on an illegal command. **Verification** is the verdict:
constraints and policies over the keys that are present, per level and
configuration. **NLAServer** is the server that may stand behind the reasoner:
one step per access to the shared cache and per opening or closing of a file,
with a request per thread. **LLMReasoner** is the reasoner that asks a language
model once per reasoning: the memory of its actions, how it judges the last one
by the shift of the snapshots, its retries and reloads of its prompt, the values
of which are replaced in two steps. **SnapshotSeries** is what it tells the
language model: averages, rates, the last actions. **NatsClient** is the client
every component talks through, with the component that starts and stops it: a
lock around connecting, tasks that publish meanwhile, outages of the server,
and a library that gives up or reconnects - also while a task awaits its attempt
to connect (`Dials`, `Opened`, `OpenFails`), while `close` drains, and after a
stop, when the drain was cut and the object goes on without its client
(`orphan`). **PolarisServices** puts the three
beside PolarisActions. They share no state: the reasoner of PolarisActions is
modelled with any answer, and its channels are NATS while it is connected. A
behaviour follows one of the four.
**KnowledgeBase**, **Telemetry** and **MetaLearner** lead from the
monitor over NATS into the knowledge base and from there to the prompt file.

**DigitalTwin** is the agent with one step per await, its handlers, queue,
batches, reloads, stop and crash; **TwinClient** the breaker and retries in
front of it; **AgenticReasoner** the conversation that calls tools through it.
**TwinMessages** says what becomes of requests and answers on the way between
them, **ReasonerContext** what the language model is told and how its replies
are read, **ReasoningSession** what the reasoner agent does around a reasoning.

**Launcher** is the process every component runs in. **BayesianModel** is the
Bayesian world model - metrics, noise, tasks, reload - with its computations in
**BayesianAnalysis**; **GeminiModel** the one behind a
language model; **WorldModels** the process of a twin with the one it serves.
Which one that is takes two sections of configuration, an option and the
environment: launcher and agent each load them (`copies`), and the factory knows
the mock models too, which serve from the last telemetry and have no state of
their own here.

*Properties of pure code.* PromptContext, TwinMessages, ReasonerContext,
ReasoningSession and parts of AdaptationManager, Verification and BayesianAnalysis
model code whose outcome is a function of its input. Their properties are
statements without variables, quantified over a set of inputs named beside
them, and part of the invariant of the run whose system they belong to
(`PromptsHold` in the run `llm_decision`, `LevelsHold` in `PeriodInv`, `MessagesHold`,
`ContextHolds` and `SessionsHold` in `ExchangesInv`, `VerdictsHold` and
`SeriesHold` in `OperatorsHold`, the agreements of the world model in `AdviceInv`). They are stated
against an independent reading of the same code or document: a scan for an index, an
explicit rank for a comparison of utilities, a fold for a search.

Operators named `Bug...` stand before the definition they are a plausible
mistake in; no specification uses them. Each property of a passing run was
seen to fail when one of them replaces its definition.

## 3. The runs

The number of distinct states is in brackets; a run takes from five seconds to
about three minutes with two workers.

| run | specification and bounds | what it shows |
|---|---|---|
| `managed_pool` [4 077] | ManagedFairSpec; 3 module ids, up to 3 servers, 3 factors, ASSERTs on, silent flushes possible | legal commands never end the simulation; names, gates, model and factors agree (PoolInv); no job lost; implements ElasticPool, its liveness included unless a queue flushes silently |
| `control_loop` [1 045 016] | LoopFairSpec; 3 periods of 7 ticks, decisions taking 0, 1 or 8, one retry, 2 servers; SWIM executes commands promptly and reads observations whenever it likes | the loop keeps the pool's discipline, one effect per command, fresh states, the right period number, and ends |
| `app_server` [375 698] | 5 requests, 1 or 2 threads, timeout 0 or 2, service 1, 2 or 4, traces with and without bursts, a window of 3 | jobs are conserved, no idle thread beside a queue, fair sharing, order and no overbooking while requests come one by one, the probe's window is true and forgets a deleted server, removals complete, implements ServerLoad |
| `reactive_port` [101 832] | 5 levels, 6 servers, decisions with and without delay | the port follows the manager; decisions on this period's data, all carried out; overload escalates to the end; LevelsHold |
| `llm_decision` [129 303] | 7 policies and backends, 4 periods, 2 attempts, 2 tries | legal actions only; history is true; a decision is always made; PromptsHold |
| `polaris_actions` [254 136] | 5 deployments; 4 servers, queue of 1, 8 actions, 1 retry; 5 deployments of the NLA server: 2 requests, 2 processes; LLM reasoner: 3 reasonings, 2 attempts, a history of 2, 1 reload; NATS client: 2 subjects, 2 publishing tasks, 2 attempts, 2 outages | an action reaches SWIM by its path only, one at a time, and is answered; the fast path never ends SWIM; verdicts; traces are whole and of their call; history and feedback of the reasoner are of their actions; a connection a task made stays while nothing cuts it off and hears its subjects, and a stop leaves nobody connecting; every call, reasoning, start and stop ends |
| `polaris_telemetry` [207 377] | queue and batch of 2, 5 cycles of 3 metrics, windows of 2, 2 learning cycles at once | events stored once or known lost, ordered windows, indexes as a scan, small updates of the prompt file |
| `polaris_twin` [342 102] | 2 channels, queue and batch of 2, 2 reloads at once, 2 retries, a breaker at 2 failures, 2 calls per reply and 2 in all | events once and in order, reloads leave the model running, budgets are kept (ReasonerInv); messages, context and sessions (ExchangesInv); the breaker spares and finds again; reasonings end |
| `polaris_start` [208 185] | every component and switch, 3 signals; behind a twin: Bayesian model with 2 sets of metrics, or Gemini with 3 requests on 2 permits, 8 sets of files, options and keys | the launcher stops, exits and tells the truth, a twin runs what its files name, permits are accounted for, answers follow from what was learned (WorldModelInv); analyses and advice (AdviceInv) |

Three runs end in a counterexample and are the findings of section 4:
`late_decision`, `retried_command`, `missed_busy`.

*Why the bounds are enough.* Three servers are the least that have a first, a
middle and a last name; gates and names move by one at a time, so longer pools
repeat these cases (and section 6 proves it for every size). In `control_loop`
the pool is smaller, because what is new there is time: latencies fall inside
and beyond a period, a retry fits into one. Two threads give sharing and a
thread that frees itself beside another; five requests give a full server, a
queue of two and one arriving in a drain, and beside one thread a queue that
has partly timed out (7 requests on 1 to 3 threads were checked once: 1 711 886
states without the probe). A queue of two with a batch of two
gives a full queue, a waiting producer and a batch in hand at once; two
producers, cycles, reloads or simulations are the least that interleave. A
breaker at two failures needs a call that is retried and one that is not. Long
windows of the Bayesian model (10 values for a trend, 20 for a cycle, and so
on) are constants that the configuration scales down to the least length at
which their conditions still differ from each other.

*Bounds in guards.* `MaxInProgress` caps removals in progress. `MaxPeriods`,
`MaxRetries`, `QueueSize` and the like are parameters of the code. `NumJobs`,
`MaxGap` bound the trace; `MaxActions`, `MaxRequests`, `MaxCycles`,
`MaxLearningCycles`, `ReloadsAtOnce`, `MaxReloads`, `MaxNotes`,
`MaxCalibrations`, `Signals` how often something outside may happen. In
WorldModels signals come only before a model has been used (`Untouched`):
launcher and model share no state after that but the stop itself.
`CHECK_DEADLOCK FALSE` is set where the system may stop: a crashed process, a
trace or bound at its end, an ended process.

## 4. Findings

* `late_decision` violates **LegalIsAccepted**. `is_legal` answers "whether SWIM
  would accept this action" from three numbers, none of which shows a drain. A
  decision that takes most of its period is sent shortly before the next tick;
  if that removes a server, the next legal removal meets it draining.
* `retried_command` violates **ExecutedAtMostOnce**. A command that timed out is
  sent again on a new connection, and SWIM, which was slow, executes both.
* `missed_busy` violates **RemovalCompletes**. With one thread the last running
  job ends (`busy(false)`, queue not empty: ignored), the queued jobs have timed
  out and leave without a signal: the drain never ends. With more threads the
  same takes all of them ending in one event.

Other disagreements met while modelling. The model does what the code does, and
where a property would be broken by one it excludes the case by name.

*SWIM and controller.* Two requests of one instant are both sent to the last free
thread and the second raises `job arrived while already full` (`MTServer.cc:70`;
traces of the repository have none). So may a request issued in the very instant
jobs end, if that frees three threads at once or the jobs that were queued have
timed out: the freed thread asks for one job after the other, and the request,
four messages later, finds a thread free that the next of them is asked for.
`OneByOne` names what NeverOverfull and StartsInOrder leave out; it was found
incomplete while their proof was being planned, for 2 threads and 5 requests do
not show it. At the 10 levels of the published
configuration (`RESULTS.md:678`, `swim_sa_planners.ini:45`, `run_controller.py:55`) the
port, which rounds each step to six decimals (`policies.py:99`), does not follow the
manager: where the manager is at 0 the port has 0.000001 left, and where the
manager, at the top, removes a server, the port at 0.999999 sets the dimmer once more.
Agreement is therefore stated, checked and proved for levels whose step has six
decimals (`StepHasSixDecimals`), such as the 5 of the run. `record_decision` records
refused, stale and failed actions as if taken (`loop.py:160`, `context.py:429`). In step mode at full
dimmer the exemplar that raises the dimmer is answered with the letter that
lowers it, and the prefix is not the same for every state (`context.py:8` and
`test_audit_offline.py:83-85` say it is). Dimmer levels and factors come back to
themselves with a symmetric margin only (`Model.cc:318-332`).

*POLARIS, actions.* "Require 3 consecutive violations" (`fast_controller.py:23`): the
counter is not reset by normal telemetry. "Drain the action queue with timeout"
(`execution.py:734`, likewise `monitor.py:521`) waits for tasks that the ended worker
cannot finish. The default critical constraint cannot be read by `safe_eval` and
approves; SWIM's plugin has one that rejects every removal. Preconditions do not
see a boot or a drain. `enable_verification: true` in `polaris_config.yaml:102` is
overridden by a constant. The agentic prompt speaks of a cooldown of 60 s where
the code keeps 70 (`agentic_reasoner.py:1334`, `765`), and of at most 4 tool calls
where the code allows 5 per check.

*POLARIS, telemetry and prompts.* With `stream: true` each event is stored twice.
An observation updated in place keeps its old keywords. `start_component.py`
gives meta-learner and reasoner different prompt files (1228), so that the
announcement reloads a file nobody changed. A failed write leaves the prompt
file torn; the check that a minimum stays below its maximum is never reached
(`meta_learner_llm.py:997-1012`).

*NLA server.* Two requests at once may record or explain each other's
activations, or those generation left, because the pass and the reading of
`_act_cache` are two steps of a thread (`inference.py:103-105`, `170-192`);
`traces.py:40` says that generation serialises, which nothing does, and
`check_polaris_interface.py` asserts one activation per token. A failed write of
either file reaches no one, though `main.py:341-346` and `server/README.md:132-134`
say that failures surface through `/api/health`; `written` there counts numbers
given out. A run named by `NLA_RUN_ID` numbers from 1 again after a restart and
writes over its earlier traces, of which a sidecar may then name another call's
activations. PairsMatch, AnsweredAreTraced, FailuresShown and ListedOpens are about
directories not `Reused`, OwnActivations about callers that wait for each other.

*NATS client.* `drain` fails while the connection is lost, and `close` then leaves
out `nc.close()` (`nats_client.py:382-383`): the library may reconnect an object
nobody holds, still subscribed, and its callback sets `_is_connected` (94) of a
stopped client; `is_connected` stays false because `nc` is None. StopsGoingOn says
that this takes an outage. `connect` looks for a connection once it has the lock
(73), not again after it has waited (103): what the library has brought back
meanwhile is connected anew and may lose its subscriptions, so KeepsConnection is
about connections a task made. After the library gave up, a task that connects
again hears nothing (59, 168).

*World models.* `--world-model`, "Override World Model implementation"
(`start_component.py:257`), changes the launcher's copy of the configuration (701-704);
the agent loads the file again (`digital_twin_agent.py:64-70`) and runs what the world
model's own file names, at a path that is fixed (`digital_twin_config.py:137-139`). That
the two sections differ is only logged (365-371). So the keys, packages and ports
the launcher checks may be another model's; TwinRunsItsModel says when. The
metrics the mock predicts lie beside the time and do not reach a client
(`digital_twin_service.py:287`); an unreadable metric arrives as 0.0 (293-295), which no
reader can tell from a predicted zero. An answer of Gemini to a query that is a
mapping is kept in the conversation, and queries fail until ten newer messages
have come (`gemini_world_model.py:366`, 528).

*POLARIS, twin.* A failed start of the twin leaves NATS and gRPC open, because
`stop` returns early. Two concurrent reloads leave a second set of background
tasks. After `reload_world_model(force)` the gRPC service still answers from
the old model. The breaker is passed by by connection tests. With
`concurrent_requests = 1` every Gemini simulation waits for itself
(`gemini_world_model.py:568`). `reasoner_agent.py:887` forgets the twin's channel, which
is then never closed. The LLM
reasoner cannot be created: its factory imports a module that is not there
(`llm_reasoner.py:613`). Were it started, the feedback
of an alert would replace that of the action before it (`llm_reasoner.py:209`), a
SET_DIMMER with parameters that are no number would make every reasoning fail
until snapshots lack the metric (365), and a prompt file whose values are null
would be the last one it can load (126).

## 5. Fairness

`SwimPool!Fairness`: the event loop takes events in time order and handles
finitely many before any given time. A handler ends, a zero-time message is
delivered (weak). A boot ends and a server that gets no more requests finishes
its jobs even if handlers keep running in between (strong, because both are
disabled while a handler runs). Nothing is assumed of commands and arrivals.
`AppServer!FairSpec`, `ProbeSpec`: messages are delivered and time goes on;
RemoveServer is free. `ControlLoop!LoopFairSpec`: both processes run and time
passes; of SWIM's reading no more is assumed than of the prompt requests, so
that **LoopEnds** rests on the time-outs alone. `AdaptationManager!FairSpec`: the
messages of a period are handled; boots and delayed decisions end though
periods come in between (strong). `LLMDecision!FairSpec`: the loop's own steps
run; every answer, failure or silence of the backend is a choice.

The tasks of POLARIS run in asyncio event loops, which take every ready task
in turn: weak fairness per task (`PolarisActions`: worker and stop; `Telemetry`:
collector, publisher, handlers, a stop that was called; `DigitalTwin`: starting,
stopping, each handler, the worker, its time-out, a reload under way). A SWIM
that does not answer promptly may be silent for ever, stops, crashes and reloads
are never forced. `TwinClient` needs strong fairness for "a twin that is up
answers in time": it may answer too late any finite number of times, and
**ReachedAgain** is about a twin that stays up. `Launcher`: the process works;
signals are free. `GeminiModel`: deadlines of callers expire, replies may never
come. `NLAServer`: a thread that was given a request goes on, and decoding stops at
`max_new_tokens`. `LLMReasoner`: the knowledge base and the language model answer or
time out. `NatsClient`: the tasks run; outages are free, attempts are counted.
`BayesianModel`: its background tasks run. Nothing is assumed of the meta-learner
or of any language model.

## 6. What is proved

All theorems are for every value of the constants that the named assumptions of
the modules allow. None of the properties below is inductive as the runs state
it; each section names the invariant that is, which TLC has checked too.

**The pool (ControlLoopProofs, first part)**, for every finite or infinite set of module ids,
every `MaxServers`, initial size and set of factors, builds with and without
ASSERT, `bootDelay` zero or not, and servers that may flush silently:
`ManagedPoolInv` and what follows from it (`ManagedTypeOK`, `ManagedNeverCrashes`,
`ManagedNames`, `ManagedModelMatches`,
`ManagedBrownoutUniform`), the action property `ManagedNoJobLost`, and
`ManagedImplementsElastic`, the refinement of `ElasticPool!Spec`. They rest on
`SwimPoolAssumption` alone (1 <= InitialServers <= MaxServers, the initial factor is a
factor, NoModule is no module). That no ASSERT and no lookup fails needs to know
which name is where: `RemoveServer` looks up `server<getServers>` and drops the last
gate, so names must be contiguous and gate k must feed `server<k>`; `BootComplete`
connects the first free gate, which must be the one after the last;
`CompleteRemove` asks the model whether a server is booting, so none may boot
during a drain. **PoolInv** says this by three situations, `Steady`, `Growing` and
`Shrinking`, with one lemma per action.

**The control loop (ControlLoopProofs, second part)**, on top of the pool's. Without any
assumption on SWIM: `LoopKeepsSchedule`, `SentFresh` (SentOnFreshState) and
`SensedInPeriod` (SensesInItsPeriod), from **ScheduleInv**: what the loop waits for is
open, no answer waits on a closed connection, an action is pending only in the
period it was decided in. That the loop keeps the pool's discipline cannot hold
without assumptions, as `late_decision` and `retried_command` show; the theorems
state them:

* `CommandsArePrompt`: SWIM takes a command as soon as it is sent;
* `PeriodSuffices`: a latency l that fits into the period leaves
  `SensingTime + l + DrainTime < Period`, where SensingTime is 0 if SWIM reads all
  requests at once, else twice all attempts of a request until they time out.

Under them `LoopIndHolds`, `LoopHolds` (LoopInv), `LoopKeepsDiscipline`
(KeepsDiscipline), `LegalCommandsAccepted` (LegalIsAccepted, the very property run
`late_decision` violates, where a period of 4 has no room for a latency of 3 and
a drain of 2) and `LoopDrivesElasticPool`: loop and pool together implement
ElasticPool, lose no job, and what the model reports is true. **LoopIndInv** adds to ScheduleInv and PoolInv that one
command at most is under way, that a drain which is under way ends before the
next period can begin (`DrainsInTime`, the invariant that relates clocks, phase
and pool), and that the observation in hand is the pool's state. With the defaults
of the code (period 60 s, time-out 10 s, 3 retries) PeriodSuffices holds when SWIM
reads requests at once; the worst case of all retries, 80 s, is beyond a period.

**One server and its probe (AppServerProofs)**, for every trace with or without bursts,
number of threads, timeout, set of service times and length of the window:
`ServerHolds` (ServerInv), `JobsStartInOrder` (StartsInOrder), `ServerImplementsLoad`
(ImplementsServerLoad) and `ProbeHolds` (ProbeInv). The inductive invariant of the
server, **ServerIndInv**, says what the events of one instant may be, in which order:

* `MessagesInv`: no two messages are about one job; the end of a job is handled before
  anything reaches the server, and where a removal completes nothing is left that
  could. Without it a job could come back to a thread, or to a deleted module.
* `JobsInv`: a request that was issued is in exactly one place.
* `ThreadsInv`: a thread is free beside a queue only while a job is on its way to
  it. NoThreadIdlesWhileJobsWait is what is left of this between two instants.
* `SharingInv`: the time not charged yet is a whole number of shares, as AdvanceBy
  counts it, and the end that is scheduled is the first one due.
* `OrderInv`, while requests come one by one: at most two messages are under way, and how
  many threads are free in each order of them. NeverOverfull and StartsInOrder
  follow; neither is inductive, as both are about a job that is still on its way.

**WindowInv** relates the entries of the window to the units of time in which the
server worked: levels alternate, ages fall, and each unit has the level of the last
entry that is not younger (`Tells`). Signals and time keep it (`Recorded`, `MovesInd`);
`WorkedBetween` counts from one entry to the next, and `AfterIs` shows by
induction on the entries that the pass of getPercentageAboveZero counts the same.
`GoneInv`: a server that is gone has no entries, no last value and sends no signal
more, which needs that nothing under way could come from it.
ServerLoad is implemented step by step (`RefinementStep`, a lemma per action): a fresh
job on its way to a thread counts as running, so most messages are stutters.

**Decisions (LLMDecisionProofs)**: `DecisionsHold`, DecisionInv for every policy,
backend, window, set of reachable configurations and number of periods. The
lemmas are about the arithmetic between dimmer levels and the six decimals on the
wire: that rounding moves a value by half a millionth at most, that the options
offered are within range and legal, that a fallback is legal. They need
`Scale < 2 * Step`, in words: six decimals tell two levels apart, which holds up to
two million levels.

**The reactive manager, its port and planning (AdaptationManagerProofs)**, for every
number of levels and servers, with delayed decisions or not:
`PortAndPlanningAgree` (PeriodInv), `EveryDecisionIsOnThisPeriod`
(DecidesOnThisPeriod) and `EveryDecisionIsCarriedOut` (DecisionCarriedOut).
**PeriodIndInv** adds to the types that messages of one instant are handled in their
order (`InstantInOrder`: once the monitor has run, its observation is this
period's), that a decision under way was made by the rule on a site that is still
there, but for a boot (`DecisionStands`), and that the two copies are the same
except while only the manager has acted (`Lockstep`). Lockstep needs that all
dimmers met are whole multiples of a millionth, which one step of six decimals
keeps (`PortDecidesAsManager`). `PlanningAgrees` is about the model's answers: for every
number of levels, margin, boot delay and period, and levels two thousandths apart or
more, a level comes back from its factor, a remaining boot is one server more,
expectations never shrink, the horizon reaches past all boots, and the score
rewards content and no late period. LevelsHold follows from it.

**The way of an action (PolarisServicesProofs)**:
`ActionsHold` (ActionInv) and `BoundsKept` (PreconditionsKeepBounds) for every
deployment, queue, catalogue of actions and pool. The invariant says where each
action is - in one queue, in hand, verified, answered - that channels are ordered
and disjoint, that counters equal what was counted, and that the pool is settled
whenever the fast path acts alone. `ServicesHold` (ServicesInv) for the NLA server,
the LLM reasoner and the NATS client beside it, `ServicesActionsHold` for the
composition, `PromisesKept` (StepsKeepPromises) for its action properties. The
NLA part needs how far each call is with its trace: a number belongs to one call
while the directory is its own, and a sidecar comes after the whole file it
names. The NATS part needs who holds the lock, at which of its awaits, what a
cancelled attempt leaves behind, and that a connection nobody has cut off since is
the one a task made.

**Components and world models (WorldModelsProofs)**: `LaunchesHold` (LauncherInv)
for every component and any number of signals, from **LaunchIndInv**, which ties the
place in the procedure of a component to what it has started and to the code
it will leave. `WorldModelsHold` (WorldModelInv) for the process of a twin with the
model it serves, from **ProcessIndInv**, which has a part for each:

* `GeminiIndInv`, for every number of permits, requests and attempts: what is free
  and what requests hold adds up to the permits; no request waits twice, none while
  a permit is free, and each holds what its place in the code says, a permit it was
  granted and has not woken up for included. A simulation takes two permits one
  after the other, so that the sum is inductive only with the places of both. An
  answer in memory follows its question and belongs to a request that is over,
  which no later one changes.
* `BayesianIndInv`, for every length of windows and any metrics: histories hold only
  values that were received, filters have the noise of the last calibration,
  what was learned had enough values; so every answer of any confidence is founded.
* `HealthOnly`, `CopiesFit` and `TwinRunsItsModel`: a twin started for a health check
  never gets past it; what launcher and agent hold of the configuration is what the
  files and the option were worth when they loaded it, which they have before they
  go on (`LoadedBefore`); so the model that serves is the one the files name.

**The twin and its reasoner (AgenticReasonerProofs)**: `ReasonerHolds` (ReasonerInv)
and `TwinIsSpared` (FailingTwinIsSpared), for every traffic, size of queue and batches,
number of channels, reloads, crashes, retries, tool calls and threshold of the
breaker. `ReasonerIndHolds` is the inductive invariant **ReasonerIndInv**:

* `EventsFlow`: an event is in one of the stages model, batch, queue, handler and
  unread, or is a dead letter or lost; all of them together are what was
  published; and of two events of a channel the one nearer the model was
  published before (`InStages`). Each action moves a set of events from one stage to
  the next or out of all, and for each such move there is a lemma. That the model
  gets each event once and in order is then read off; the order alone is not
  inductive, as it says nothing of what is still under way.
* `ModelRuns`: no request is served, and none meets a model under reload, before one is
  loaded, and outside a reload the model that is listed is alive.
  A reload takes a fresh name for its model, which is there because only finitely many
  are in use.
* `BreakerCounts`: the breaker's count is the number of failures in a row; at the
  threshold it is open, or half open with one request under way.
* `BudgetKept`: calls made and calls left of a reply stay below the budget of tool calls
  and one reply.

The traffic's numbering of events and the delays between retries are recursive
functions; that they are defined on all numbers is proved by induction with
`LeastNumber` and `Upwards`, which take a set where the library's rule takes an
operator.

**Tuning (MetaLearnerProofs)**: `TuningIndHolds`, `TuningHolds` (types, and
TuningTakesHold) and `TuningIsSmall` (UpdatesAreSmall) for every reply of the
language model. The bound is computed against the thresholds of the meta-learner
before the file is opened, and the property is about the file when it is
written: **MetaIndInv** says that the two agree and that each cycle about to save
carries an update that is small against them, which no other cycle can
invalidate, because none runs between.

**Telemetry and the knowledge base (MetaLearnerProofs)**: `TelemetryIndHolds`,
`TunedHolds` (TunedInv: no event lost without a trace or counted too often, queries
answer what a scan would) and `WindowsStayInOrder` (WindowsInOrder), for every set of
metrics, queue, batch and buffer size, entries stored by others, and with or without
streaming, failing publications and a stop in the middle. What TunedInv says
of the counters says nothing of what is still on its way; **TelInd** adds it:

* `Placed`: where events can be, depending on what the publisher is doing.
* `Ordered`: batches, the batch being filled and the queue hold events in the order of
  their collection, one after the other. An event is therefore in one of them at most.
* `FewCopies`: how often an event was handled, plus its copies in the stream, plus
  those still to be sent, is 1 at most, 2 with streaming. The fallback of a
  batch turns a copy to be sent into one in the stream.
* `NoneLost`: every number collected is handled, under way, or known as dropped.
* `KBKnown`: entries, indexes and buffers of the knowledge base. An entry updated in
  place keeps what the indexes of fields list it under, so that they list
  exactly the entries there are; its words change, so that those it is found by are
  known of other entries only.
* `WindowsBefore`: without streaming and failures what is buffered is later than the window of
  the metric's observation, and what is under way later still.

`TextAssumption` and a part of `TelemetryAssumption` say that texts the code writes into
entries are strings, which the provers do not know of a literal.

`managed_pool`, `app_server`, `control_loop`, `reactive_port`, `llm_decision`, `polaris_actions`,
`polaris_telemetry`, `polaris_twin` and `polaris_start` check the same formulas on small
instances.

## 7. What is only model-checked

*Liveness* (ElasticLiveness, LoopEnds, UntimedRemovalCompletes, EscalatesFully,
DecisionEnds, EverythingAnswered, EventsArrive, QueueEmpties,
ReachedAgain, ReasoningEnds, StopsWhenAsked, WorldModelsServe): TLAPS does not
prove properties under fairness or about ENABLED.

*Data.* What a computation over data yields for every input mostly needs induction
over that data, for which the provers have no rule that takes a formula; the
induction for sets of section 6 covers functions of a number, and what it
covers there is proved. Only checked are the static prefix of prompts and the
agreements of PromptContext (PromptsHold), of Verification and SnapshotSeries
(OperatorsHold), of TwinMessages, ReasonerContext and ReasoningSession
(ExchangesInv) and of BayesianAnalysis (AdviceInv).

No module declares a RECURSIVE operator, so that all of them can be proved about.

## 8. What is left out, and why

*Abstracted.* The wording of prompts, replies and logs, output vectors, the
caching effect and the service distribution (a choice from `ServiceTimes`), the
sleep of 1 to 4 s between retries (less than a tick), the run directory. The
arithmetic of Kalman filters and regressions: what it decides is a choice
wherever the guards before it let it be reached. Field-by-field conversions of
texts are kept as the kinds of value they turn into one another. A command
line that arrives in two pieces (`AdaptInterface.cc:80`): the client writes a batch
of some hundred bytes at once over a local connection. The action types SCALE_UP,
SCALE_DOWN and ADJUST_QOS of `extern/config.yaml`: the same commands and
preconditions as the three modelled, though constraints of verification that name
ADD_SERVER do not apply to them. A dead letter of the twin that cannot be published
either and is only logged (`digital_twin_agent.py:342-346`). What the mock models
answer with, but for the shape of it.

*Not modelled.* The HAProxy managers (an external load balancer; not in the
networks run here); the setters of environment and service times of the Model;
reading of traces; the controller's entry point; POLARIS'
configuration checks, error texts and logging (sequential, and their outcome
is the configurations the components are given), functions nothing calls (`send_action_for_verification`,
`change_world_model_type`), probe tools and examples; the experiments (offline
scripts over recorded runs), NLA's training and web page, and of its server the
health report, list of runs and dashboard proxy, which only read; the start and
stop scripts.

## 9. Plan

1. Done: the modules above with their runs; the proofs of section 6.
2. Next, a NATS client that loses its connection under Telemetry's channels.
