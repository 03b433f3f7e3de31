----------------------------- MODULE ManagedPool -----------------------------
(***************************************************************************)
(* SwimPool under the discipline its callers are meant to keep: the rules  *)
(* of actions.is_legal, which mirror the guards of                         *)
(* ReactiveAdaptationManager::evaluate, judged on the state the command    *)
(* meets, and -- what neither can see -- no scaling command while a        *)
(* removed server is still draining.                                       *)
(***************************************************************************)
EXTENDS SwimPool

(* is_legal for add_server and remove_server.                              *)
IsLegalAdd    == ~isServerBooting /\ getServers < MaxServers
BugIsLegalRemove == ~isServerBooting /\ getServers > 0
IsLegalRemove == ~isServerBooting /\ getServers > 1

BugNothingDraining == TRUE
NothingDraining == serverRemoveInProgress = 0

ManagedNext ==
    \/ BeginHandler \/ EndHandler \/ SetBrownout \/ Event
    \/ NothingDraining /\ IsLegalAdd /\ AddServer
    \/ NothingDraining /\ IsLegalRemove /\ RemoveServer

ManagedSpec == Init /\ [][ManagedNext]_vars
ManagedFairSpec == ManagedSpec /\ Fairness

-----------------------------------------------------------------------------
(* No ASSERT fails, no null module is dereferenced, no message is taken    *)
(* for a BootComplete, the load balancer never routes into no gate: the    *)
(* simulator outlives every sequence of managed commands.                  *)
NeverCrashes == ~crashed

(* doAddServer names the new module after getServers, doRemoveServer and   *)
(* doSetBrownout look modules up by 1..getServers: the modules that exist  *)
(* are server1 .. server<getServers>, one each.                            *)
NamesContiguous ==
    /\ \A m \in Modules : name[m] \in 0..getServers
    /\ \A m, n \in Modules : name[m] = name[n] /\ name[m] # 0 => m = n
    /\ \A k \in 1..getServers : \E m \in Modules : name[m] = k

(* The gate of a removed server is dropped off the end of the load         *)
(* balancer's gate vector, which only works if server<k> hangs from gate k *)
(* and no gate in between is unconnected.                                  *)
GatesFollowNames ==
    \A m \in Modules : gate[m] = IF name[m] \in 1..gates THEN name[m] ELSE 0

(* What the model tells the controller agrees with what the load balancer  *)
(* can reach: an active server is connected unless it is draining, a       *)
(* booting one has a pending BootComplete and no gate.                     *)
ModelMatchesModules ==
    /\ activeServers = gates + serverRemoveInProgress
    /\ gates >= 1
    /\ getServers <= MaxServers
    /\ isServerBooting <=> pendingMessages # {}
    /\ \A m \in pendingMessages : name[m] = getServers /\ gate[m] = 0

(* Every server serves with the brownout factor the model reports, also    *)
(* one that was booting or draining when it was set.                       *)
BrownoutUniform == \A m \in Modules : name[m] # 0 => factor[m] = brownoutFactor

(* A module is deleted only when nothing can send to it and it holds no    *)
(* job: CompleteRemove loses no request.                                   *)
NoJobLost ==
    [][\A m \in Modules : name[m] # 0 /\ name'[m] = 0
                             => gate[m] = 0 /\ load[m] = "idle"]_vars

(* The threads of the server being removed have ended and its queued jobs  *)
(* are still on their way to them: if all of those have timed out, no busy *)
(* signal follows them.                                                    *)
FlushesQueue ==
    /\ serverBeingRemovedModuleId \in Modules
    /\ load[serverBeingRemovedModuleId] = "waiting"

-----------------------------------------------------------------------------
(* The three situations of a managed pool, and the inductive invariant the *)
(* proofs of ControlLoopProofs rest on.                                    *)
Steady ==
    /\ events = 0 /\ pendingMessages = {}
    /\ serverRemoveInProgress = 0 /\ serverBeingRemovedModuleId = NoModule
    /\ completeRemoveMsgs = 0
    /\ gates = activeServers

Growing ==
    /\ events = 1
    /\ \E m \in Modules : pendingMessages = {m} /\ name[m] = activeServers + 1
    /\ serverRemoveInProgress = 0 /\ serverBeingRemovedModuleId = NoModule
    /\ completeRemoveMsgs = 0
    /\ gates = activeServers

Shrinking ==
    /\ events = 0 /\ pendingMessages = {}
    /\ serverRemoveInProgress = 1
    /\ serverBeingRemovedModuleId \in Modules
    /\ name[serverBeingRemovedModuleId] = activeServers
    /\ completeRemoveMsgs \in {0, 1}
    /\ completeRemoveMsgs = 1 => load[serverBeingRemovedModuleId] = "idle"
    /\ gates = activeServers - 1

PoolInv ==
    /\ TypeOK
    /\ ~crashed
    /\ NamesContiguous
    /\ GatesFollowNames
    /\ gates >= 1 /\ getServers <= MaxServers
    /\ Steady \/ Growing \/ Shrinking
    /\ BrownoutUniform

-----------------------------------------------------------------------------
PoolChange == IF pendingMessages # {} THEN "growing"
              ELSE IF serverBeingRemovedModuleId # NoModule THEN "shrinking"
              ELSE "none"

Elastic == INSTANCE ElasticPool WITH
    serving <- gates, reported <- getServers, change <- PoolChange

(* The pool keeps the promise of ElasticPool.                              *)
ImplementsElasticPool == Elastic!Spec

(* Every change of the pool ends, a boot and a removal, unless the queue   *)
(* of a removed server flushes.                                            *)
ElasticLiveness == <>FlushesQueue \/ Elastic!Fairness
=============================================================================
