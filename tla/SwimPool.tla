------------------------------ MODULE SwimPool ------------------------------
(***************************************************************************)
(* The elastic server pool of the SWIM simulator: the execution manager    *)
(* (ExecutionManagerModBase, ExecutionManagerMod), the bookkeeping of the  *)
(* model it reports to (Model), the AppServer modules it creates and       *)
(* deletes, and the output gates of the load balancer they hang from.      *)
(*                                                                         *)
(* The simulator is one event loop, so one handler is one atomic step.     *)
(* AdaptInterface::handleMessage runs every command line of one socket     *)
(* buffer inside one handler; `handling' is true from its first command to *)
(* its return and no other event is taken meanwhile.                       *)
(*                                                                         *)
(* Asserts says whether the build keeps OMNeT++'s ASSERT (debug) or not    *)
(* (release, NDEBUG).  Whatever ends the process -- a failed ASSERT, a     *)
(* cRuntimeError, a null module pointer, the erase of events.end() -- sets *)
(* `crashed'.                                                              *)
(*                                                                         *)
(* An operator named Bug... is a plausible mistake in the definition that  *)
(* follows it.  Nothing uses it: it is put in the place of the definition  *)
(* to show that a property notices.                                        *)
(***************************************************************************)
EXTENDS Integers

CONSTANTS
    Modules,        \* identities a module can have (module ids)
    NoModule,       \* the id -1 of ExecutionManagerMod
    MaxServers, InitialServers,
    Factors,        \* brownout factors a command may set
    InitialFactor,  \* brownoutFactor parameter of a fresh MTBrownoutServer
    Asserts,        \* the build evaluates ASSERT
    BootTakesTime,  \* bootDelay # 0
    SilentFlush,    \* threads = 1 and timeout > 0: see ServerTurnsWaiting
    MaxInProgress   \* bound on serverRemoveInProgress (release builds)

ASSUME SwimPoolAssumption ==
    /\ NoModule \notin Modules
    /\ MaxServers \in Nat \ {0}
    /\ InitialServers \in 1..MaxServers
    /\ InitialFactor \in Factors
    /\ Asserts \in BOOLEAN /\ BootTakesTime \in BOOLEAN /\ SilentFlush \in BOOLEAN
    /\ MaxInProgress \in Nat \ {0}

VARIABLES
    (* Model *)
    activeServers, events, brownoutFactor,
    (* ExecutionManagerMod and its base *)
    pendingMessages, serverRemoveInProgress, serverBeingRemovedModuleId,
    completeRemoveMsgs,  \* scheduled completeRemove self-messages
    (* AppServer modules: name[m] = k is "server<k>", 0 is no module *)
    name, factor, load,
    (* load balancer: index of the out gate that feeds m, 0 when none *)
    gate, gates,
    handling, crashed

modelVars  == <<activeServers, events, brownoutFactor>>
execVars   == <<pendingMessages, serverRemoveInProgress,
                serverBeingRemovedModuleId, completeRemoveMsgs>>
moduleVars == <<name, factor, load, gate, gates>>
vars == <<modelVars, execVars, moduleVars, handling, crashed>>

TypeOK ==
    /\ activeServers \in Int
    /\ events \in Nat
    /\ brownoutFactor \in Factors
    /\ pendingMessages \subseteq Modules
    /\ serverRemoveInProgress \in Int
    /\ serverBeingRemovedModuleId \in Modules \cup {NoModule}
    /\ completeRemoveMsgs \in Nat
    /\ name \in [Modules -> Nat]
    /\ factor \in [Modules -> Factors]
    /\ load \in [Modules -> {"idle", "running", "waiting"}]
    /\ gate \in [Modules -> Nat]
    /\ gates \in Nat
    /\ handling \in BOOLEAN
    /\ crashed \in BOOLEAN

-----------------------------------------------------------------------------
(* Model::isServerBooting and Model::getServers, what get_servers answers. *)
isServerBooting == events > 0
BugGetServers == activeServers
getServers == IF isServerBooting THEN activeServers + 1 ELSE activeServers

(* The names a loop over the servers visits, and the next one to give.     *)
ServerNumbers == 1..getServers
NewNumber == getServers + 1

(* getSubmodule("server<k>"): none is the null pointer. *)
ModuleNamed(k) == {m \in Modules : name[m] = k /\ k # 0}

(* cModule::create never reuses an id something still refers to. *)
FreshModules == {m \in Modules : /\ name[m] = 0
                                 /\ m \notin pendingMessages
                                 /\ m # serverBeingRemovedModuleId}

UsedGates == {gate[m] : m \in Modules} \ {0}

(* getOrCreateFirstUnconnectedGate("out", 0, false, true) *)
FirstUnconnectedGate ==
    CHOOSE k \in 1..(gates + 1) :
        /\ k \notin UsedGates
        /\ \A j \in 1..(k - 1) : j \in UsedGates

(* What takes no simulated time comes before the next socket buffer: the   *)
(* completeRemove message is scheduled for now, and a server that asked its*)
(* queue for a job receives it at once.                                    *)
Quiescent == completeRemoveMsgs = 0 /\ \A m \in Modules : load[m] # "waiting"

Crash == /\ crashed' = TRUE
         /\ UNCHANGED <<modelVars, execVars, moduleVars, handling>>

Init ==
    /\ activeServers = InitialServers
    /\ events = 0
    /\ brownoutFactor = InitialFactor
    /\ pendingMessages = {}
    /\ serverRemoveInProgress = 0
    /\ serverBeingRemovedModuleId = NoModule
    /\ completeRemoveMsgs = 0
    /\ name \in [Modules -> 0..InitialServers]
    /\ \A k \in 1..InitialServers : \E m \in Modules : name[m] = k
    /\ \A m, n \in Modules : name[m] = name[n] /\ name[m] # 0 => m = n
    /\ factor = [m \in Modules |-> InitialFactor]
    /\ load = [m \in Modules |-> "idle"]
    /\ gate = name
    /\ gates = InitialServers
    /\ handling = FALSE
    /\ crashed = FALSE

-----------------------------------------------------------------------------
(* The commands; each runs inside a handler that called the manager.       *)

BeginHandler ==
    /\ ~crashed /\ ~handling /\ Quiescent
    /\ handling' = TRUE
    /\ UNCHANGED <<modelVars, execVars, moduleVars, crashed>>

EndHandler ==
    /\ ~crashed /\ handling
    /\ handling' = FALSE
    /\ UNCHANGED <<modelVars, execVars, moduleVars, crashed>>

(* handleMessage(bootComplete), with the new module's gates connected.     *)
ConnectAndActivate(m) ==
    /\ gate' = [gate EXCEPT ![m] = FirstUnconnectedGate]
    /\ gates' = IF FirstUnconnectedGate > gates THEN FirstUnconnectedGate ELSE gates
    /\ activeServers' = activeServers + 1

(* doAddServer: the template is "server1" unless the pool is empty, and    *)
(* then the model takes the new server's own parameters.                   *)
doAddServer(m) ==
    /\ name' = [name EXCEPT ![m] = NewNumber]
    /\ load' = [load EXCEPT ![m] = "idle"]
    /\ IF getServers >= 1
       THEN /\ \E t \in ModuleNamed(1) : factor' = [factor EXCEPT ![m] = factor[t]]
            /\ UNCHANGED brownoutFactor
       ELSE /\ factor' = [factor EXCEPT ![m] = InitialFactor]
            /\ brownoutFactor' = InitialFactor

AddAsserted == getServers < MaxServers /\ ~isServerBooting

AddServer ==
    /\ ~crashed /\ handling
    /\ \/ /\ \/ Asserts /\ ~AddAsserted
             \/ getServers >= 1 /\ ModuleNamed(1) = {}
          /\ Crash
       \/ /\ Asserts => AddAsserted
          /\ \E m \in FreshModules :
                /\ doAddServer(m)
                /\ IF BootTakesTime
                   THEN /\ events' = events + 1
                        /\ pendingMessages' = pendingMessages \cup {m}
                        /\ UNCHANGED <<activeServers, gate, gates>>
                   ELSE /\ ConnectAndActivate(m)
                        /\ UNCHANGED <<events, pendingMessages>>
          /\ UNCHANGED <<serverRemoveInProgress, serverBeingRemovedModuleId,
                         completeRemoveMsgs, handling, crashed>>

RemoveAsserted == getServers > 1 /\ serverRemoveInProgress = 0

(* The vector of out gates once m is disconnected.                         *)
GatesWithout(m) == IF gate[m] = 0 THEN gates ELSE gates - 1

BugServerEmpty(m) == TRUE
isServerBeingRemoveEmpty(m) == load[m] = "idle"

(* removeServer with doRemoveServer: the highest name leaves the load      *)
(* balancer at once, the module only when it is empty.                     *)
RemoveServer ==
    /\ ~crashed /\ handling
    /\ \/ /\ \/ Asserts /\ ~RemoveAsserted
             \/ ModuleNamed(getServers) = {}
             \/ \E m \in ModuleNamed(getServers) : gate[m] \notin {0, gates}
          /\ Crash
       \/ /\ Asserts => RemoveAsserted
          /\ serverRemoveInProgress < MaxInProgress
          /\ serverRemoveInProgress' = serverRemoveInProgress + 1
          /\ \E m \in ModuleNamed(getServers) :
                /\ gate[m] \in {0, gates}
                /\ gate' = [gate EXCEPT ![m] = 0]
                /\ gates' = GatesWithout(m)
                /\ serverBeingRemovedModuleId' = m
                /\ completeRemoveMsgs' =
                      completeRemoveMsgs + (IF isServerBeingRemoveEmpty(m) THEN 1 ELSE 0)
                /\ pendingMessages' = pendingMessages \ {m}
          /\ UNCHANGED <<modelVars, name, factor, load, handling, crashed>>

(* setBrownout: the model first, then "server1" .. "server<getServers>".   *)
SetBrownout ==
    /\ ~crashed /\ handling
    /\ \/ /\ \E k \in ServerNumbers : ModuleNamed(k) = {}
          /\ Crash
       \/ /\ \A k \in ServerNumbers : ModuleNamed(k) # {}
          /\ \E f \in Factors :
                /\ brownoutFactor' = f
                /\ factor' = [m \in Modules |->
                                IF name[m] \in ServerNumbers THEN f ELSE factor[m]]
          /\ UNCHANGED <<activeServers, events, execVars, name, load, gate, gates,
                         handling, crashed>>

-----------------------------------------------------------------------------
(* The events.                                                             *)

(* BootComplete of m; without an expected change the model erases          *)
(* events.end().                                                           *)
BootComplete(m) ==
    /\ ~crashed /\ ~handling /\ m \in pendingMessages
    /\ \/ events = 0 /\ Crash
       \/ /\ events > 0
          /\ ConnectAndActivate(m)
          /\ events' = events - 1
          /\ pendingMessages' = pendingMessages \ {m}
          /\ UNCHANGED <<brownoutFactor, serverRemoveInProgress,
                         serverBeingRemovedModuleId, completeRemoveMsgs,
                         name, factor, load, handling, crashed>>

(* Model::removeServer takes a server that is booting for the removed one. *)
BugRemoveServer == events' = events - 1 /\ UNCHANGED activeServers
removeServer ==
    IF isServerBooting
    THEN events' = events - 1 /\ UNCHANGED activeServers
    ELSE activeServers' = activeServers - 1 /\ UNCHANGED events

(* completeRemoveMsg.  A second one scheduled    *)
(* before it has taken its pointer: the first is then no BootComplete and  *)
(* the cast throws.                                                        *)
CompleteRemove ==
    /\ ~crashed /\ ~handling /\ completeRemoveMsgs > 0
    /\ \/ completeRemoveMsgs > 1 /\ Crash
       \/ /\ completeRemoveMsgs = 1
          /\ removeServer
          /\ serverRemoveInProgress' = serverRemoveInProgress - 1
          /\ name' = [name EXCEPT ![serverBeingRemovedModuleId] = 0]
          /\ serverBeingRemovedModuleId' = NoModule
          /\ completeRemoveMsgs' = 0
          /\ UNCHANGED <<brownoutFactor, pendingMessages, factor, load, gate, gates,
                         handling, crashed>>

(* A request reaches the load balancer; its router divides by the number   *)
(* of its gates.                                                           *)
Arrive ==
    /\ ~crashed /\ ~handling
    /\ \/ gates = 0 /\ Crash
       \/ /\ \E m \in Modules :
                /\ gate[m] # 0 /\ load[m] = "idle"
                /\ load' = [load EXCEPT ![m] = "running"]
          /\ UNCHANGED <<modelVars, execVars, name, factor, gate, gates, handling, crashed>>

(* receiveSignal on busy(false) of an empty server.                        *)
BugCompletesRemoval(m) == FALSE
CompletesRemoval(m) == m = serverBeingRemovedModuleId

(* The last running thread ends with an empty queue: busy(false), which    *)
(* ExecutionManagerMod::receiveSignal turns into the end of a removal.     *)
ServerTurnsIdle(m) ==
    /\ ~crashed /\ ~handling /\ load[m] = "running"
    /\ load' = [load EXCEPT ![m] = "idle"]
    /\ completeRemoveMsgs' =
          completeRemoveMsgs + (IF CompletesRemoval(m) THEN 1 ELSE 0)
    /\ UNCHANGED <<modelVars, pendingMessages, serverRemoveInProgress,
                   serverBeingRemovedModuleId, name, factor, gate, gates,
                   handling, crashed>>

(* The last running thread ends while jobs are queued: busy(false) finds   *)
(* the queue non-empty.  It takes threads = 1, or threads that end in the  *)
(* same event.                                                             *)
ServerTurnsWaiting(m) ==
    /\ SilentFlush
    /\ ~crashed /\ ~handling /\ load[m] = "running"
    /\ load' = [load EXCEPT ![m] = "waiting"]
    /\ UNCHANGED <<modelVars, execVars, name, factor, gate, gates, handling, crashed>>

(* The queued jobs come one by one: one is served (busy(true)), or all of  *)
(* them had timed out and the server is empty without any busy signal.     *)
QueuedJobArrives(m) ==
    /\ ~crashed /\ ~handling /\ load[m] = "waiting"
    /\ \E next \in {"running", "idle"} : load' = [load EXCEPT ![m] = next]
    /\ UNCHANGED <<modelVars, execVars, name, factor, gate, gates, handling, crashed>>

Command == AddServer \/ RemoveServer \/ SetBrownout

Event ==
    \/ CompleteRemove
    \/ Arrive
    \/ \E m \in Modules : \/ BootComplete(m)
                          \/ ServerTurnsIdle(m)
                          \/ ServerTurnsWaiting(m)
                          \/ QueuedJobArrives(m)

Next == BeginHandler \/ EndHandler \/ Command \/ Event

(* The event loop takes events in the order of their times, and finitely   *)
(* many fall before any given time: a boot that is scheduled ends however  *)
(* many handlers run before it, and the jobs of a server that gets no more *)
(* of them end (strong fairness: both wait while a handler runs).  Nothing *)
(* comes between a zero-time event and now (weak fairness).                *)
Fairness ==
    /\ WF_vars(EndHandler)
    /\ WF_vars(CompleteRemove)
    /\ \A m \in Modules :
          /\ SF_vars(BootComplete(m))
          /\ SF_vars(m = serverBeingRemovedModuleId /\ ServerTurnsIdle(m))
          /\ WF_vars(QueuedJobArrives(m))

Spec == Init /\ [][Next]_vars
FairSpec == Spec /\ Fairness
=============================================================================
