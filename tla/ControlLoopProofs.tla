------------------------- MODULE ControlLoopProofs -------------------------
(***************************************************************************)
(* The pool and the loop that controls it.                                 *)
(*                                                                         *)
(* For every set of module ids, every maximum, every build and every boot  *)
(* delay: a managed pool never crashes, its names, gates and bookkeeping   *)
(* agree, and it implements ElasticPool.                                   *)
(*                                                                         *)
(* For every pool, every period, every timeout and every set of latencies: *)
(* a command is sent on a fresh state and a decision senses in the period  *)
(* it is labelled with; and if SWIM reads commands promptly and a period   *)
(* is long enough for two exchanges, a decision and a drain, the loop      *)
(* keeps the discipline of ManagedPool and the simulation survives it.     *)
(***************************************************************************)
EXTENDS ControlLoop, SequenceTheorems, TLAPS

-----------------------------------------------------------------------------
(* The pool.                                                               *)

(* When names and gates are contiguous, the gates in use are 1 .. gates    *)
(* and getOrCreateFirstUnconnectedGate appends one.                        *)
LEMMA AppendsGate ==
    ASSUME TypeOK, NamesContiguous, GatesFollowNames, gates <= getServers
    PROVE  FirstUnconnectedGate = gates + 1
<1>1. gates \in Nat BY DEF TypeOK
<1>2. UsedGates = 1..gates
  <2>1. ASSUME NEW k \in UsedGates PROVE k \in 1..gates
    BY <2>1 DEF UsedGates, GatesFollowNames
  <2>2. ASSUME NEW k \in 1..gates PROVE k \in UsedGates
    <3>0. getServers \in Int BY DEF getServers, TypeOK
    <3>1. k \in 1..getServers BY <1>1, <3>0
    <3>2. PICK m \in Modules : name[m] = k BY <3>1 DEF NamesContiguous
    <3>3. gate[m] = k BY <3>2 DEF GatesFollowNames
    <3> QED BY <3>3, <2>2 DEF UsedGates
  <2> QED BY <2>1, <2>2
<1> DEFINE First(k) == k \notin UsedGates /\ \A j \in 1..(k - 1) : j \in UsedGates
<1>3. First(gates + 1) /\ gates + 1 \in 1..(gates + 1) BY <1>1, <1>2
<1>4. \A k \in 1..(gates + 1) : First(k) => k = gates + 1 BY <1>1, <1>2
<1> QED BY <1>3, <1>4 DEF FirstUnconnectedGate

THEOREM InitPoolInv == Init => PoolInv
<1> SUFFICES ASSUME Init PROVE PoolInv OBVIOUS
<1>1. getServers = InitialServers BY DEF Init, getServers, isServerBooting
<1> USE SwimPoolAssumption DEF SwimPoolAssumption
<1>n. InitialServers \in Nat /\ InitialServers >= 1 /\ InitialServers <= MaxServers OBVIOUS
<1>r. \A m \in Modules : name[m] \in 0..InitialServers BY DEF Init
<1>2. TypeOK
  <2>1. name \in [Modules -> Nat] BY <1>n DEF Init
  <2>2. gate \in [Modules -> Nat] BY <2>1 DEF Init
  <2>3. /\ factor \in [Modules -> Factors]
        /\ load \in [Modules -> {"idle", "running", "waiting"}]
    BY DEF Init
  <2>4. handling \in BOOLEAN /\ crashed \in BOOLEAN BY DEF Init
  <2>5. /\ activeServers \in Int /\ gates \in Nat
        /\ events \in Nat /\ brownoutFactor \in Factors
        /\ pendingMessages \subseteq Modules
        /\ serverRemoveInProgress \in Int /\ completeRemoveMsgs \in Nat
        /\ serverBeingRemovedModuleId \in Modules \cup {NoModule}
    BY <1>n DEF Init
  <2> QED BY <2>1, <2>2, <2>3, <2>4, <2>5 DEF TypeOK
<1>3. NamesContiguous BY <1>1, <1>r DEF Init, NamesContiguous
<1>4. GatesFollowNames
  <2> SUFFICES ASSUME NEW m \in Modules
               PROVE  gate[m] = IF name[m] \in 1..gates THEN name[m] ELSE 0
    BY DEF GatesFollowNames
  <2>1. gate[m] = name[m] /\ gates = InitialServers BY DEF Init
  <2> QED BY <2>1, <1>r, <1>n
<1>5. Steady BY DEF Init, Steady
<1>6. BrownoutUniform BY DEF Init, BrownoutUniform
<1> QED BY <1>1, <1>2, <1>3, <1>4, <1>5, <1>6 DEF Init, PoolInv

-----------------------------------------------------------------------------
(* A step that leaves names, gates, factors and the model alone has only   *)
(* its types and its situation to answer for.                              *)
LEMMA FramePoolInv ==
    ASSUME PoolInv, TypeOK', (Steady \/ Growing \/ Shrinking)',
           UNCHANGED <<modelVars, name, factor, gate, gates, crashed>>
    PROVE  PoolInv'
<1>1. UNCHANGED getServers BY DEF modelVars, getServers, isServerBooting
<1>2. NamesContiguous' BY <1>1 DEF PoolInv, NamesContiguous
<1>3. GatesFollowNames' BY DEF PoolInv, GatesFollowNames
<1>4. BrownoutUniform' BY DEF PoolInv, BrownoutUniform, modelVars
<1> QED BY <1>1, <1>2, <1>3, <1>4 DEF PoolInv

(* What every step below starts from.                                      *)
LEMMA PoolFacts ==
    ASSUME PoolInv
    PROVE  /\ TypeOK /\ ~crashed
           /\ getServers \in Int /\ getServers >= 1
           /\ gates \in Nat /\ activeServers \in Int
           /\ gates <= getServers
           /\ \E m \in Modules : name[m] = getServers
           /\ \E m \in Modules : name[m] = 1
<1>1. /\ TypeOK /\ ~crashed /\ NamesContiguous /\ gates >= 1
      /\ Steady \/ Growing \/ Shrinking
  BY DEF PoolInv
<1>2. /\ activeServers \in Int /\ gates \in Nat /\ getServers \in Int
      /\ gates <= getServers
  BY <1>1 DEF TypeOK, getServers, isServerBooting, Steady, Growing, Shrinking
<1>3. getServers >= 1 /\ getServers \in 1..getServers /\ 1 \in 1..getServers BY <1>1, <1>2
<1> QED BY <1>1, <1>2, <1>3 DEF NamesContiguous

LEMMA HandlerStep ==
    ASSUME PoolInv, BeginHandler \/ EndHandler PROVE PoolInv'
<1>1. TypeOK'
  <2>1. handling' \in BOOLEAN BY DEF BeginHandler, EndHandler
  <2>2. UNCHANGED <<modelVars, execVars, moduleVars, crashed>>
    BY DEF BeginHandler, EndHandler
  <2> QED BY <2>1, <2>2, PoolFacts DEF TypeOK, modelVars, execVars, moduleVars
<1>2. (Steady \/ Growing \/ Shrinking)'
  BY DEF BeginHandler, EndHandler, modelVars, execVars, moduleVars, PoolInv,
         Steady, Growing, Shrinking
<1>3. UNCHANGED <<modelVars, name, factor, gate, gates, crashed>>
  BY DEF BeginHandler, EndHandler, modelVars, moduleVars
<1> QED BY <1>1, <1>2, <1>3, FramePoolInv

(* The steps of a server's load.  The server being removed has no gate, so *)
(* nothing arrives once completeRemove is scheduled.                       *)
LEMMA LoadStep ==
    ASSUME PoolInv, NEW m \in Modules, NEW l \in {"idle", "running", "waiting"},
           load' = [load EXCEPT ![m] = l],
           UNCHANGED <<modelVars, pendingMessages, serverRemoveInProgress,
                       serverBeingRemovedModuleId, name, factor, gate, gates,
                       handling, crashed>>,
           \/ completeRemoveMsgs' = completeRemoveMsgs /\ load[m] # "idle"
           \/ completeRemoveMsgs' = completeRemoveMsgs /\ gate[m] # 0
           \/ /\ completeRemoveMsgs' = completeRemoveMsgs + 1
              /\ m = serverBeingRemovedModuleId /\ load[m] # "idle" /\ l = "idle"
    PROVE  PoolInv'
<1>1. TypeOK /\ (Steady \/ Growing \/ Shrinking) /\ GatesFollowNames BY DEF PoolInv
<1>2. TypeOK'
  <2>1. completeRemoveMsgs' \in Nat BY <1>1 DEF TypeOK
  <2>2. load' \in [Modules -> {"idle", "running", "waiting"}] BY <1>1 DEF TypeOK
  <2> QED BY <1>1, <2>1, <2>2 DEF TypeOK, modelVars
<1>3. (Steady \/ Growing \/ Shrinking)'
  <2>1. CASE Steady BY <2>1, SwimPoolAssumption DEF SwimPoolAssumption, Steady, modelVars
  <2>2. CASE Growing BY <2>2, SwimPoolAssumption DEF SwimPoolAssumption, Growing, modelVars
  <2>3. CASE Shrinking
    <3>1. gate[serverBeingRemovedModuleId] = 0
      BY <1>1, <2>3 DEF Shrinking, GatesFollowNames, TypeOK
    <3>2. completeRemoveMsgs = 1 => load[serverBeingRemovedModuleId] = "idle"
      BY <2>3 DEF Shrinking
    <3>3. completeRemoveMsgs' \in {0, 1} BY <2>3, <3>2 DEF Shrinking
    <3>4. completeRemoveMsgs' = 1 => load'[serverBeingRemovedModuleId] = "idle"
      BY <1>1, <2>3, <3>1, <3>2 DEF Shrinking, TypeOK
    <3> QED BY <2>3, <3>3, <3>4 DEF Shrinking, modelVars
  <2> QED BY <1>1, <2>1, <2>2, <2>3
<1> QED BY <1>2, <1>3, FramePoolInv

LEMMA ArriveStep == ASSUME PoolInv, Arrive PROVE PoolInv'
<1>1. gates # 0 BY PoolFacts DEF PoolInv
<1>2. PICK m \in Modules : gate[m] # 0 /\ load' = [load EXCEPT ![m] = "running"]
  BY <1>1 DEF Arrive
<1> QED BY <1>1, <1>2, LoadStep DEF Arrive, execVars

LEMMA ServerTurnsIdleStep ==
    ASSUME PoolInv, NEW m \in Modules, ServerTurnsIdle(m) PROVE PoolInv'
<1>1. completeRemoveMsgs \in Nat BY PoolFacts DEF TypeOK
<1>2. load[m] # "idle" /\ load' = [load EXCEPT ![m] = "idle"] BY DEF ServerTurnsIdle
<1>3. UNCHANGED <<modelVars, pendingMessages, serverRemoveInProgress,
                  serverBeingRemovedModuleId, name, factor, gate, gates,
                  handling, crashed>>
  BY DEF ServerTurnsIdle
<1>4. \/ completeRemoveMsgs' = completeRemoveMsgs
      \/ completeRemoveMsgs' = completeRemoveMsgs + 1 /\ m = serverBeingRemovedModuleId
  BY <1>1 DEF ServerTurnsIdle, CompletesRemoval
<1> QED BY <1>2, <1>3, <1>4, LoadStep

LEMMA QueueStep ==
    ASSUME PoolInv, NEW m \in Modules, ServerTurnsWaiting(m) \/ QueuedJobArrives(m)
    PROVE  PoolInv'
<1>1. PICK l \in {"idle", "running", "waiting"} : load' = [load EXCEPT ![m] = l]
  BY DEF ServerTurnsWaiting, QueuedJobArrives
<1>2. load[m] # "idle" BY DEF ServerTurnsWaiting, QueuedJobArrives
<1>3. /\ UNCHANGED <<modelVars, execVars, name, factor, gate, gates, handling, crashed>>
  BY DEF ServerTurnsWaiting, QueuedJobArrives
<1> QED BY <1>1, <1>2, <1>3, LoadStep DEF execVars

-----------------------------------------------------------------------------
(* A new module continues the names, and copies the factor of server1.     *)
LEMMA AddServerStep ==
    ASSUME PoolInv, NothingDraining, IsLegalAdd, AddServer PROVE PoolInv'
<1>1. /\ TypeOK /\ NamesContiguous /\ GatesFollowNames /\ BrownoutUniform
      /\ gates \in Nat /\ gates >= 1 /\ getServers >= 1
      /\ activeServers \in Int /\ ~crashed
  BY PoolFacts DEF PoolInv
<1>2. Steady
  BY SwimPoolAssumption
     DEF PoolInv, Steady, Growing, Shrinking, NothingDraining, IsLegalAdd, isServerBooting
<1>3. events = 0 /\ getServers = activeServers /\ gates = activeServers
  BY <1>2 DEF Steady, getServers, isServerBooting
<1>4. activeServers < MaxServers /\ activeServers + 1 <= MaxServers
  BY <1>1, <1>3, SwimPoolAssumption DEF IsLegalAdd, SwimPoolAssumption
<1>5. AddAsserted BY <1>3, <1>4 DEF AddAsserted, isServerBooting
<1>6. ModuleNamed(1) # {} BY PoolFacts DEF ModuleNamed
<1>7. PICK m \in FreshModules :
         /\ doAddServer(m)
         /\ IF BootTakesTime
            THEN /\ events' = events + 1
                 /\ pendingMessages' = pendingMessages \cup {m}
                 /\ UNCHANGED <<activeServers, gate, gates>>
            ELSE /\ ConnectAndActivate(m)
                 /\ UNCHANGED <<events, pendingMessages>>
         /\ UNCHANGED <<serverRemoveInProgress, serverBeingRemovedModuleId,
                        completeRemoveMsgs, handling, crashed>>
  BY <1>5, <1>6 DEF AddServer
<1>8. m \in Modules /\ name[m] = 0 BY DEF FreshModules
<1>9. name' = [name EXCEPT ![m] = activeServers + 1] BY <1>3, <1>7 DEF doAddServer, NewNumber
<1>10. load' = [load EXCEPT ![m] = "idle"] BY <1>7 DEF doAddServer
<1>11. factor' = [factor EXCEPT ![m] = brownoutFactor] /\ brownoutFactor' = brownoutFactor
  <2>1. PICK t \in ModuleNamed(1) : factor' = [factor EXCEPT ![m] = factor[t]]
    BY <1>1, <1>7 DEF doAddServer
  <2>2. factor[t] = brownoutFactor BY <1>1 DEF ModuleNamed, BrownoutUniform
  <2> QED BY <1>1, <1>7, <2>1, <2>2 DEF doAddServer
<1>12. FirstUnconnectedGate = activeServers + 1
  BY <1>1, <1>3, AppendsGate
<1>t. /\ name' \in [Modules -> Nat] /\ factor' \in [Modules -> Factors]
      /\ load' \in [Modules -> {"idle", "running", "waiting"}]
      /\ brownoutFactor' \in Factors
  BY <1>1, <1>3, <1>8, <1>9, <1>10, <1>11 DEF TypeOK
<1>13. CASE BootTakesTime
  <2>1. events' = 1 /\ pendingMessages' = {m} /\ UNCHANGED <<activeServers, gate, gates>>
    BY <1>2, <1>7, <1>13 DEF Steady
  <2>2. getServers' = activeServers + 1 BY <2>1 DEF getServers, isServerBooting
  <2>3. TypeOK'
    BY <1>1, <1>7, <1>8, <1>t, <2>1 DEF TypeOK
  <2>4. NamesContiguous'
    BY <1>1, <1>3, <1>8, <1>9, <2>2 DEF NamesContiguous, TypeOK
  <2>5. GatesFollowNames'
    BY <1>1, <1>3, <1>8, <1>9, <2>1 DEF GatesFollowNames, TypeOK
  <2>6. Growing'
    BY <1>1, <1>2, <1>7, <1>8, <1>9, <2>1 DEF Growing, Steady, TypeOK
  <2>7. BrownoutUniform'
    BY <1>1, <1>8, <1>9, <1>11 DEF BrownoutUniform, TypeOK
  <2> QED BY <1>1, <1>4, <1>7, <2>1, <2>2, <2>3, <2>4, <2>5, <2>6, <2>7,
             SwimPoolAssumption DEF PoolInv, SwimPoolAssumption
<1>14. CASE ~BootTakesTime
  <2>1. /\ events' = 0 /\ pendingMessages' = {}
        /\ activeServers' = activeServers + 1
        /\ gate' = [gate EXCEPT ![m] = activeServers + 1]
        /\ gates' = activeServers + 1
    BY <1>1, <1>2, <1>3, <1>7, <1>12, <1>14 DEF Steady, ConnectAndActivate
  <2>2. getServers' = activeServers + 1 BY <2>1 DEF getServers, isServerBooting
  <2>3. TypeOK'
    BY <1>1, <1>3, <1>7, <1>8, <1>t, <2>1 DEF TypeOK
  <2>4. NamesContiguous'
    BY <1>1, <1>3, <1>8, <1>9, <2>2 DEF NamesContiguous, TypeOK
  <2>5. GatesFollowNames'
    <3> SUFFICES ASSUME NEW n \in Modules
                 PROVE  gate'[n] = IF name'[n] \in 1..gates' THEN name'[n] ELSE 0
      BY DEF GatesFollowNames
    <3>1. CASE n = m
      <4>1. name'[n] = activeServers + 1 BY <1>1, <1>9, <3>1 DEF TypeOK
      <4>2. gate'[n] = activeServers + 1 BY <1>1, <2>1, <3>1 DEF TypeOK
      <4> QED BY <1>1, <1>3, <2>1, <4>1, <4>2
    <3>2. CASE n # m
      <4>1. name'[n] = name[n] /\ gate'[n] = gate[n] BY <1>1, <1>9, <2>1, <3>2 DEF TypeOK
      <4>2. name[n] \in 0..activeServers BY <1>1, <1>3 DEF NamesContiguous
      <4>3. name[n] \in 1..gates <=> name[n] \in 1..gates' BY <1>1, <1>3, <2>1, <4>2
      <4> QED BY <1>1, <4>1, <4>3 DEF GatesFollowNames
    <3> QED BY <3>1, <3>2
  <2>6. Steady'
    BY <1>2, <1>3, <1>7, <2>1 DEF Steady
  <2>7. BrownoutUniform'
    BY <1>1, <1>8, <1>9, <1>11 DEF BrownoutUniform, TypeOK
  <2>8. gates' >= 1 /\ getServers' <= MaxServers
    <3>1. gates' >= 1 BY <1>1, <1>3, <2>1
    <3>2. getServers' <= MaxServers BY <1>4, <2>2
    <3> QED BY <3>1, <3>2
  <2>9. ~crashed' BY <1>1, <1>7
  <2> QED BY <2>3, <2>4, <2>5, <2>6, <2>7, <2>8, <2>9 DEF PoolInv
<1> QED BY <1>13, <1>14

-----------------------------------------------------------------------------
(* The last server gives up the last gate; its module stays.               *)
LEMMA RemoveServerStep ==
    ASSUME PoolInv, NothingDraining, IsLegalRemove, RemoveServer
    PROVE  PoolInv' /\ Steady /\ gates' = gates - 1
<1>1. /\ TypeOK /\ NamesContiguous /\ GatesFollowNames /\ BrownoutUniform
      /\ gates \in Nat /\ gates >= 1 /\ getServers <= MaxServers
      /\ activeServers \in Int /\ ~crashed
  BY PoolFacts DEF PoolInv
<1>2. Steady
  BY SwimPoolAssumption
     DEF PoolInv, Steady, Growing, Shrinking, NothingDraining, IsLegalRemove, isServerBooting
<1>3. events = 0 /\ getServers = activeServers /\ gates = activeServers /\ activeServers > 1
  BY <1>2 DEF Steady, getServers, isServerBooting, IsLegalRemove
<1>4. \A m \in ModuleNamed(getServers) : m \in Modules /\ name[m] = activeServers /\ gate[m] = gates
  <2>1. \A m \in ModuleNamed(getServers) : m \in Modules /\ name[m] = activeServers
    BY <1>3 DEF ModuleNamed
  <2>2. activeServers \in 1..gates BY <1>1, <1>3
  <2> QED BY <1>1, <1>3, <2>1, <2>2 DEF GatesFollowNames
<1>5. ModuleNamed(getServers) # {}
  BY <1>3, PoolFacts DEF ModuleNamed
<1>6. RemoveAsserted BY <1>2, <1>3 DEF RemoveAsserted, Steady
<1>7. PICK m \in ModuleNamed(getServers) :
         /\ gate' = [gate EXCEPT ![m] = 0]
         /\ gates' = (IF gate[m] = 0 THEN gates ELSE gates - 1)
         /\ serverBeingRemovedModuleId' = m
         /\ completeRemoveMsgs' = completeRemoveMsgs + (IF load[m] = "idle" THEN 1 ELSE 0)
         /\ pendingMessages' = pendingMessages \ {m}
         /\ serverRemoveInProgress' = serverRemoveInProgress + 1
         /\ UNCHANGED <<modelVars, name, factor, load, handling, crashed>>
  <2>1. ~(\E n \in ModuleNamed(getServers) : gate[n] \notin {0, gates}) BY <1>4
  <2> QED BY <2>1, <1>5, <1>6 DEF RemoveServer, GatesWithout, isServerBeingRemoveEmpty
<1>8. /\ m \in Modules /\ name[m] = activeServers /\ gate[m] = gates
      /\ gates' = activeServers - 1 /\ gate' = [gate EXCEPT ![m] = 0]
  <2>1. gate[m] = gates /\ gates # 0 BY <1>1, <1>4
  <2> QED BY <2>1, <1>1, <1>3, <1>4, <1>7
<1>9. /\ pendingMessages' = {} /\ serverRemoveInProgress' = 1
      /\ completeRemoveMsgs' \in {0, 1}
      /\ completeRemoveMsgs' = 1 => load'[m] = "idle"
  BY <1>2, <1>7 DEF Steady
<1>10. TypeOK'
  <2>1. gate' \in [Modules -> Nat] /\ gates' \in Nat BY <1>1, <1>3, <1>8 DEF TypeOK
  <2> QED BY <1>1, <1>7, <1>8, <1>9, <2>1 DEF TypeOK, modelVars
<1>11. getServers' = activeServers /\ UNCHANGED name
  BY <1>3, <1>7 DEF modelVars, getServers, isServerBooting
<1>12. NamesContiguous' BY <1>1, <1>3, <1>11 DEF NamesContiguous
<1>13. GatesFollowNames'
  <2> SUFFICES ASSUME NEW n \in Modules
               PROVE  gate'[n] = IF name'[n] \in 1..gates' THEN name'[n] ELSE 0
    BY DEF GatesFollowNames
  <2>1. CASE n = m
    <3>1. gate'[n] = 0 /\ name'[n] = activeServers BY <1>1, <1>8, <1>11, <2>1 DEF TypeOK
    <3> QED BY <1>1, <1>8, <3>1
  <2>2. CASE n # m
    <3>1. gate'[n] = gate[n] /\ name'[n] = name[n] BY <1>1, <1>8, <1>11, <2>2 DEF TypeOK
    <3>2. name[n] \in 0..activeServers /\ (name[n] = activeServers => n = m)
      BY <1>1, <1>3, <1>8, <2>2 DEF NamesContiguous
    <3>3. name[n] \in 1..gates <=> name[n] \in 1..gates' BY <1>1, <1>3, <1>8, <2>2, <3>2
    <3> QED BY <1>1, <3>1, <3>3 DEF GatesFollowNames
  <2> QED BY <2>1, <2>2
<1>14. Shrinking'
  BY <1>2, <1>3, <1>7, <1>8, <1>9 DEF Shrinking, Steady, modelVars
<1>15. BrownoutUniform' BY <1>1, <1>7 DEF BrownoutUniform, modelVars
<1>16. gates' >= 1 /\ getServers' <= MaxServers BY <1>1, <1>3, <1>8, <1>11
<1>17. gates' = gates - 1 BY <1>3, <1>8
<1> QED BY <1>1, <1>2, <1>7, <1>17, <1>10, <1>12, <1>13, <1>14, <1>15, <1>16 DEF PoolInv

(* Every module exists under a name in 1 .. getServers, so that all of     *)
(* them take the factor.                                                   *)
LEMMA SetBrownoutStep == ASSUME PoolInv, SetBrownout PROVE PoolInv'
<1>1. /\ TypeOK /\ NamesContiguous /\ GatesFollowNames /\ ~crashed
      /\ gates >= 1 /\ getServers <= MaxServers /\ getServers \in Int
      /\ Steady \/ Growing \/ Shrinking
  BY PoolFacts DEF PoolInv
<1>2. \A k \in 1..getServers : ModuleNamed(k) # {}
  BY <1>1 DEF NamesContiguous, ModuleNamed
<1>3. PICK f \in Factors :
         /\ brownoutFactor' = f
         /\ factor' = [m \in Modules |->
                          IF name[m] \in 1..getServers THEN f ELSE factor[m]]
  BY <1>2 DEF SetBrownout, ServerNumbers
<1>4. UNCHANGED <<activeServers, events, execVars, name, load, gate, gates, handling, crashed>>
  BY <1>2 DEF SetBrownout, ServerNumbers
<1>5. TypeOK'
  <2>1. factor' \in [Modules -> Factors] BY <1>1, <1>3 DEF TypeOK
  <2> QED BY <1>1, <1>3, <1>4, <2>1 DEF TypeOK, execVars
<1>6. UNCHANGED getServers BY <1>4 DEF getServers, isServerBooting
<1>7. NamesContiguous' BY <1>1, <1>4, <1>6 DEF NamesContiguous
<1>8. GatesFollowNames' BY <1>1, <1>4 DEF GatesFollowNames
<1>9. (Steady \/ Growing \/ Shrinking)'
  BY <1>1, <1>4 DEF Steady, Growing, Shrinking, execVars
<1>10. BrownoutUniform'
  <2> SUFFICES ASSUME NEW m \in Modules, name[m] # 0
               PROVE  factor'[m] = brownoutFactor'
    BY <1>4 DEF BrownoutUniform
  <2>1. name[m] \in 1..getServers BY <1>1 DEF NamesContiguous
  <2> QED BY <1>3, <2>1
<1> QED BY <1>1, <1>4, <1>5, <1>6, <1>7, <1>8, <1>9, <1>10 DEF PoolInv

-----------------------------------------------------------------------------
(* The booted server is the last one and takes the next gate.              *)
LEMMA BootCompleteStep ==
    ASSUME PoolInv, NEW m \in Modules, BootComplete(m) PROVE PoolInv' /\ Growing
<1>1. /\ TypeOK /\ NamesContiguous /\ GatesFollowNames /\ BrownoutUniform
      /\ gates \in Nat /\ gates >= 1 /\ getServers <= MaxServers
      /\ activeServers \in Int /\ ~crashed
  BY PoolFacts DEF PoolInv
<1>2. Growing /\ m \in pendingMessages
  BY DEF BootComplete, PoolInv, Steady, Growing, Shrinking
<1>3. /\ events = 1 /\ getServers = activeServers + 1 /\ gates = activeServers
      /\ pendingMessages = {m} /\ name[m] = activeServers + 1
  BY <1>2 DEF Growing, getServers, isServerBooting
<1>4. FirstUnconnectedGate = activeServers + 1 BY <1>1, <1>3, AppendsGate
<1>5. /\ gate' = [gate EXCEPT ![m] = activeServers + 1]
      /\ gates' = activeServers + 1 /\ activeServers' = activeServers + 1
      /\ events' = 0 /\ pendingMessages' = {}
  BY <1>1, <1>3, <1>4 DEF BootComplete, ConnectAndActivate
<1>6. UNCHANGED <<brownoutFactor, serverRemoveInProgress, serverBeingRemovedModuleId,
                  completeRemoveMsgs, name, factor, load, handling, crashed>>
  BY <1>3 DEF BootComplete
<1>7. TypeOK'
  <2>1. gate' \in [Modules -> Nat] /\ gates' \in Nat /\ activeServers' \in Int
    BY <1>1, <1>3, <1>5 DEF TypeOK
  <2> QED BY <1>1, <1>5, <1>6, <2>1 DEF TypeOK
<1>8. getServers' = getServers BY <1>3, <1>5 DEF getServers, isServerBooting
<1>9. NamesContiguous' BY <1>1, <1>6, <1>8 DEF NamesContiguous
<1>10. GatesFollowNames'
  <2> SUFFICES ASSUME NEW n \in Modules
               PROVE  gate'[n] = IF name'[n] \in 1..gates' THEN name'[n] ELSE 0
    BY DEF GatesFollowNames
  <2>1. CASE n = m
    <3>1. gate'[n] = activeServers + 1 /\ name'[n] = activeServers + 1
      BY <1>1, <1>3, <1>5, <1>6, <2>1 DEF TypeOK
    <3> QED BY <1>1, <1>3, <1>5, <3>1
  <2>2. CASE n # m
    <3>1. gate'[n] = gate[n] /\ name'[n] = name[n] BY <1>1, <1>5, <1>6, <2>2 DEF TypeOK
    <3>2. name[n] \in 0..(activeServers + 1) /\ name[n] # activeServers + 1
      BY <1>1, <1>3, <2>2 DEF NamesContiguous
    <3>3. name[n] \in 1..gates <=> name[n] \in 1..gates' BY <1>1, <1>3, <1>5, <3>2
    <3> QED BY <1>1, <3>1, <3>3 DEF GatesFollowNames
  <2> QED BY <2>1, <2>2
<1>11. Steady' BY <1>2, <1>5, <1>6 DEF Steady, Growing
<1>12. BrownoutUniform' BY <1>1, <1>6 DEF BrownoutUniform
<1>13. gates' >= 1 /\ getServers' <= MaxServers /\ ~crashed' BY <1>1, <1>3, <1>5, <1>6, <1>8
<1> QED BY <1>2, <1>7, <1>9, <1>10, <1>11, <1>12, <1>13 DEF PoolInv

(* The drained module had the last name and no gate.                       *)
LEMMA CompleteRemoveStep ==
    ASSUME PoolInv, CompleteRemove
    PROVE  /\ PoolInv' /\ Shrinking /\ completeRemoveMsgs = 1
           /\ name' = [name EXCEPT ![serverBeingRemovedModuleId] = 0]
<1>1. /\ TypeOK /\ NamesContiguous /\ GatesFollowNames /\ BrownoutUniform
      /\ gates \in Nat /\ gates >= 1 /\ getServers <= MaxServers
      /\ activeServers \in Int /\ ~crashed
  BY PoolFacts DEF PoolInv
<1>2. Shrinking /\ completeRemoveMsgs = 1
  BY DEF CompleteRemove, PoolInv, Steady, Growing, Shrinking
<1> DEFINE r == serverBeingRemovedModuleId
<1>3. /\ r \in Modules /\ name[r] = activeServers
      /\ events = 0 /\ getServers = activeServers /\ gates = activeServers - 1
      /\ pendingMessages = {} /\ serverRemoveInProgress = 1
  BY <1>2 DEF Shrinking, getServers, isServerBooting
<1>4. /\ activeServers' = activeServers - 1 /\ events' = events
      /\ serverRemoveInProgress' = 0 /\ serverBeingRemovedModuleId' = NoModule
      /\ completeRemoveMsgs' = 0
      /\ name' = [name EXCEPT ![r] = 0]
      /\ UNCHANGED <<brownoutFactor, pendingMessages, factor, load, gate, gates,
                     handling, crashed>>
  BY <1>2, <1>3 DEF CompleteRemove, removeServer, isServerBooting
<1>5. getServers' = activeServers - 1 BY <1>3, <1>4 DEF getServers, isServerBooting
<1>6. TypeOK'
  <2>1. name' \in [Modules -> Nat] /\ activeServers' \in Int BY <1>1, <1>3, <1>4 DEF TypeOK
  <2> QED BY <1>1, <1>3, <1>4, <2>1 DEF TypeOK
<1>7. \A n \in Modules : name'[n] = IF n = r THEN 0 ELSE name[n]
  BY <1>1, <1>4 DEF TypeOK
<1>8. \A n \in Modules : n # r => name[n] \in 0..(activeServers - 1)
  <2> SUFFICES ASSUME NEW n \in Modules, n # r PROVE name[n] \in 0..(activeServers - 1)
    OBVIOUS
  <2>1. name[n] \in 0..activeServers BY <1>1, <1>3 DEF NamesContiguous
  <2>2. name[n] # activeServers BY <1>1, <1>3 DEF NamesContiguous
  <2> QED BY <1>1, <2>1, <2>2
<1>9. NamesContiguous'
  <2>1. \A n \in Modules : name'[n] \in 0..getServers' BY <1>1, <1>3, <1>5, <1>7, <1>8
  <2>2. \A n, o \in Modules : name'[n] = name'[o] /\ name'[n] # 0 => n = o
    BY <1>1, <1>7 DEF NamesContiguous
  <2>3. \A k \in 1..getServers' : \E n \in Modules : name'[n] = k
    BY <1>1, <1>3, <1>5, <1>7 DEF NamesContiguous
  <2> QED BY <2>1, <2>2, <2>3 DEF NamesContiguous
<1>10. GatesFollowNames'
  <2> SUFFICES ASSUME NEW n \in Modules
               PROVE  gate'[n] = IF name'[n] \in 1..gates' THEN name'[n] ELSE 0
    BY DEF GatesFollowNames
  <2>1. gate[n] = IF name[n] \in 1..gates THEN name[n] ELSE 0 BY <1>1 DEF GatesFollowNames
  <2>2. gate'[n] = gate[n] /\ gates' = gates BY <1>4
  <2>3. CASE n = r
    <3>1. gate[n] = 0 BY <1>1, <1>3, <2>1, <2>3
    <3> QED BY <1>1, <1>7, <2>2, <2>3, <3>1
  <2>4. CASE n # r BY <1>7, <2>1, <2>2, <2>4
  <2> QED BY <2>3, <2>4
<1>11. Steady' BY <1>3, <1>4 DEF Steady
<1>12. BrownoutUniform' BY <1>1, <1>4, <1>7 DEF BrownoutUniform
<1>13. gates' >= 1 /\ getServers' <= MaxServers /\ ~crashed'
  BY <1>1, <1>3, <1>4, <1>5, SwimPoolAssumption DEF SwimPoolAssumption
<1> QED BY <1>2, <1>4, <1>6, <1>9, <1>10, <1>11, <1>12, <1>13 DEF PoolInv

-----------------------------------------------------------------------------
LEMMA StepPoolInv == PoolInv /\ [ManagedNext]_vars => PoolInv'
<1> SUFFICES ASSUME PoolInv, [ManagedNext]_vars PROVE PoolInv' OBVIOUS
<1>1. CASE BeginHandler \/ EndHandler BY <1>1, HandlerStep
<1>2. CASE SetBrownout BY <1>2, SetBrownoutStep
<1>3. CASE NothingDraining /\ IsLegalAdd /\ AddServer BY <1>3, AddServerStep
<1>4. CASE NothingDraining /\ IsLegalRemove /\ RemoveServer BY <1>4, RemoveServerStep
<1>5. CASE CompleteRemove BY <1>5, CompleteRemoveStep
<1>6. CASE Arrive BY <1>6, ArriveStep
<1>7. ASSUME NEW m \in Modules, BootComplete(m) PROVE PoolInv' BY <1>7, BootCompleteStep
<1>8. ASSUME NEW m \in Modules, ServerTurnsIdle(m) PROVE PoolInv'
  BY <1>8, ServerTurnsIdleStep
<1>9. ASSUME NEW m \in Modules, ServerTurnsWaiting(m) \/ QueuedJobArrives(m) PROVE PoolInv'
  BY <1>9, QueueStep
<1>10. CASE UNCHANGED vars
  <2>1. TypeOK'
    BY <1>10, PoolFacts DEF TypeOK, vars, modelVars, execVars, moduleVars
  <2>2. (Steady \/ Growing \/ Shrinking)'
    BY <1>10 DEF vars, modelVars, execVars, moduleVars, PoolInv, Steady, Growing, Shrinking
  <2>3. UNCHANGED <<modelVars, name, factor, gate, gates, crashed>>
    BY <1>10 DEF vars, modelVars, moduleVars
  <2> QED BY <2>1, <2>2, <2>3, FramePoolInv
<1> QED BY <1>1, <1>2, <1>3, <1>4, <1>5, <1>6, <1>7, <1>8, <1>9, <1>10 DEF ManagedNext, Event

(* PoolInv holds in every state a managed pool reaches.                    *)
THEOREM ManagedPoolInv == ManagedSpec => []PoolInv
BY InitPoolInv, StepPoolInv, PTL DEF ManagedSpec

(* Every variable keeps its type.                                          *)
THEOREM ManagedTypeOK == ManagedSpec => []TypeOK
<1>1. PoolInv => TypeOK BY DEF PoolInv
<1> QED BY <1>1, ManagedPoolInv, PTL

(* No managed command or event ever ends the simulation.                   *)
THEOREM ManagedNeverCrashes == ManagedSpec => []NeverCrashes
<1>1. PoolInv => NeverCrashes BY DEF PoolInv, NeverCrashes
<1> QED BY <1>1, ManagedPoolInv, PTL

(* The modules are server1 .. server<getServers>, and server<k> hangs from *)
(* gate k.                                                                 *)
THEOREM ManagedNames == ManagedSpec => [](NamesContiguous /\ GatesFollowNames)
<1>1. PoolInv => NamesContiguous /\ GatesFollowNames BY DEF PoolInv
<1> QED BY <1>1, ManagedPoolInv, PTL

(* What the model reports agrees with the modules and the load balancer.   *)
THEOREM ManagedModelMatches == ManagedSpec => []ModelMatchesModules
<1>1. PoolInv => ModelMatchesModules
  <2> SUFFICES ASSUME PoolInv PROVE ModelMatchesModules OBVIOUS
  <2>1. /\ TypeOK /\ GatesFollowNames /\ gates >= 1 /\ getServers <= MaxServers
        /\ gates \in Nat /\ activeServers \in Int
    BY PoolFacts DEF PoolInv
  <2>2. CASE Steady \/ Shrinking
    BY <2>1, <2>2 DEF Steady, Shrinking, ModelMatchesModules, isServerBooting
  <2>3. CASE Growing
    <3>1. getServers = activeServers + 1 /\ gates = activeServers
      BY <2>3 DEF Growing, getServers, isServerBooting
    <3>2. \A m \in pendingMessages : m \in Modules /\ name[m] = getServers
      BY <2>3, <3>1 DEF Growing
    <3>3. \A m \in pendingMessages : gate[m] = 0
      <4>1. getServers \notin 1..gates BY <2>1, <3>1
      <4> QED BY <2>1, <3>2, <4>1 DEF GatesFollowNames
    <3>4. serverRemoveInProgress = 0 /\ events = 1 /\ pendingMessages # {}
      BY <2>3 DEF Growing
    <3> QED BY <2>1, <3>1, <3>2, <3>3, <3>4 DEF ModelMatchesModules, isServerBooting
  <2> QED BY <2>2, <2>3 DEF PoolInv
<1> QED BY <1>1, ManagedPoolInv, PTL

(* Every server serves with the brownout factor the model reports.         *)
THEOREM ManagedBrownoutUniform == ManagedSpec => []BrownoutUniform
<1>1. PoolInv => BrownoutUniform BY DEF PoolInv
<1> QED BY <1>1, ManagedPoolInv, PTL

-----------------------------------------------------------------------------
(* No step deletes a module that still holds a job or a gate.              *)
THEOREM ManagedNoJobLost == ManagedSpec => NoJobLost
<1> DEFINE Kept == \A m \in Modules : name[m] # 0 /\ name'[m] = 0
                                           => gate[m] = 0 /\ load[m] = "idle"
<1>1. PoolInv /\ [ManagedNext]_vars => [Kept]_vars
  <2> SUFFICES ASSUME PoolInv, ManagedNext PROVE Kept OBVIOUS
  <2>0. TypeOK /\ GatesFollowNames /\ gates \in Nat BY PoolFacts DEF PoolInv
  <2>1. CASE CompleteRemove
    <3>1. /\ Shrinking /\ completeRemoveMsgs = 1
          /\ name' = [name EXCEPT ![serverBeingRemovedModuleId] = 0]
      BY <2>1, CompleteRemoveStep
    <3>2. /\ load[serverBeingRemovedModuleId] = "idle"
          /\ gate[serverBeingRemovedModuleId] = 0
      BY <2>0, <3>1 DEF Shrinking, GatesFollowNames, TypeOK
    <3> QED BY <2>0, <3>1, <3>2 DEF TypeOK
  <2>2. CASE AddServer
    <3>1. \/ UNCHANGED name
          \/ \E m \in Modules : name' = [name EXCEPT ![m] = getServers + 1]
      BY <2>2 DEF AddServer, Crash, moduleVars, FreshModules, doAddServer, NewNumber
    <3>2. getServers + 1 # 0 BY PoolFacts
    <3> QED BY <2>0, <3>1, <3>2 DEF TypeOK
  <2>3. CASE \/ BeginHandler \/ EndHandler \/ SetBrownout \/ Arrive \/ RemoveServer
             \/ \E m \in Modules : \/ BootComplete(m) \/ ServerTurnsIdle(m)
                                   \/ ServerTurnsWaiting(m) \/ QueuedJobArrives(m)
    <3>1. UNCHANGED name
      BY <2>3 DEF BeginHandler, EndHandler, SetBrownout, Arrive, RemoveServer, BootComplete,
                  ServerTurnsIdle, ServerTurnsWaiting, QueuedJobArrives, Crash, moduleVars
    <3> QED BY <3>1
  <2> QED BY <2>1, <2>2, <2>3 DEF ManagedNext, Event
<1> QED BY <1>1, ManagedPoolInv, PTL DEF ManagedSpec, NoJobLost

(* What the situations are to ElasticPool.                                 *)
SeenAs ==
    /\ Steady => PoolChange = "none" /\ getServers = gates
    /\ Growing => PoolChange = "growing" /\ getServers = gates + 1
    /\ Shrinking => PoolChange = "shrinking" /\ getServers = gates + 1

LEMMA ElasticView == PoolInv => SeenAs
<1> SUFFICES ASSUME PoolInv PROVE SeenAs OBVIOUS
<1>1. activeServers \in Int /\ gates \in Nat BY PoolFacts
<1>2. ASSUME Steady PROVE PoolChange = "none" /\ getServers = gates
  BY <1>2 DEF Steady, PoolChange, getServers, isServerBooting
<1>3. ASSUME Growing PROVE PoolChange = "growing" /\ getServers = gates + 1
  BY <1>3 DEF Growing, PoolChange, getServers, isServerBooting
<1>4. ASSUME Shrinking PROVE PoolChange = "shrinking" /\ getServers = gates + 1
  <2>1. serverBeingRemovedModuleId # NoModule
    BY <1>4, SwimPoolAssumption DEF SwimPoolAssumption, Shrinking
  <2>2. pendingMessages = {} /\ events = 0 /\ gates = activeServers - 1
    BY <1>4 DEF Shrinking
  <2> QED BY <1>1, <2>1, <2>2 DEF PoolChange, getServers, isServerBooting
<1> QED BY <1>2, <1>3, <1>4 DEF SeenAs

LEMMA ElasticViewNext == PoolInv' => SeenAs'
BY ElasticView, PTL

(* Steps that are no change of the pool are stutters of ElasticPool.       *)
LEMMA ElasticStutter ==
    ASSUME UNCHANGED <<activeServers, events, pendingMessages,
                       serverBeingRemovedModuleId, gates>>
    PROVE  UNCHANGED Elastic!vars
BY DEF Elastic!vars, PoolChange, getServers, isServerBooting

LEMMA ElasticAdd ==
    ASSUME PoolInv, NothingDraining, IsLegalAdd, AddServer
    PROVE  Elastic!Next
<1>1. /\ Steady /\ gates \in Nat /\ getServers < MaxServers /\ TypeOK /\ ~crashed
      /\ gates = activeServers /\ events = 0 /\ GatesFollowNames /\ NamesContiguous
  BY PoolFacts, SwimPoolAssumption DEF SwimPoolAssumption, PoolInv, Steady, Growing,
     Shrinking, NothingDraining, IsLegalAdd, isServerBooting
<1>2. PoolChange = "none" /\ getServers = gates BY <1>1, PoolFacts, ElasticView DEF SeenAs
<1>3. PoolInv' BY AddServerStep
<1>4. serverBeingRemovedModuleId' = NoModule
  BY <1>1 DEF AddServer, Crash, execVars, Steady
<1>5. ~Shrinking' BY <1>4, SwimPoolAssumption DEF SwimPoolAssumption, Shrinking
<1>6. SeenAs' BY <1>3, ElasticViewNext
<1>7. ~crashed' BY <1>3 DEF PoolInv
<1>8. \/ UNCHANGED <<activeServers, gates>> /\ events' = 1
      \/ gates' = gates + 1 /\ UNCHANGED events
  <2>1. FirstUnconnectedGate = gates + 1 BY <1>1, <1>2, AppendsGate
  <2>2. PICK m \in FreshModules :
           IF BootTakesTime
           THEN /\ events' = events + 1
                /\ UNCHANGED <<activeServers, gate, gates>>
           ELSE ConnectAndActivate(m) /\ UNCHANGED <<events, pendingMessages>>
    BY <1>7 DEF AddServer, Crash
  <2>3. CASE BootTakesTime BY <1>1, <2>2, <2>3
  <2>4. CASE ~BootTakesTime
    BY <1>1, <2>1, <2>2, <2>4 DEF ConnectAndActivate
  <2> QED BY <2>3, <2>4
<1>9. CASE UNCHANGED <<activeServers, gates>> /\ events' = 1
  <2>1. Growing' BY <1>3, <1>5, <1>9 DEF PoolInv, Steady
  <2>2. PoolChange' = "growing" /\ getServers' = gates' + 1 BY <1>6, <2>1 DEF SeenAs
  <2> QED BY <1>1, <1>2, <1>9, <2>2 DEF Elastic!Next, Elastic!StartGrowing
<1>10. CASE gates' = gates + 1 /\ UNCHANGED events
  <2>1. Steady' BY <1>1, <1>3, <1>5, <1>10 DEF PoolInv, Growing
  <2>2. PoolChange' = "none" /\ getServers' = gates' BY <1>6, <2>1 DEF SeenAs
  <2> QED BY <1>1, <1>2, <1>10, <2>2 DEF Elastic!Next, Elastic!GrowAtOnce
<1> QED BY <1>8, <1>9, <1>10

LEMMA ElasticRemove ==
    ASSUME PoolInv, NothingDraining, IsLegalRemove, RemoveServer
    PROVE  Elastic!Next
<1>1. PoolInv' /\ Steady BY RemoveServerStep
<1>2. PoolChange = "none" /\ getServers = gates /\ gates > 1 /\ gates \in Nat
  BY <1>1, PoolFacts, ElasticView DEF SeenAs, IsLegalRemove
<1>3. UNCHANGED <<activeServers, events>> BY DEF RemoveServer, Crash, modelVars
<1>4. getServers' = getServers BY <1>3 DEF getServers, isServerBooting
<1>5. ~crashed' BY <1>1 DEF PoolInv
<1>6. serverBeingRemovedModuleId' \in Modules
  BY <1>5 DEF RemoveServer, Crash, ModuleNamed
<1>7. Shrinking'
  BY <1>1, <1>6, SwimPoolAssumption DEF SwimPoolAssumption, PoolInv, Steady, Growing
<1>8. PoolChange' = "shrinking" /\ getServers' = gates' + 1
  BY <1>1, <1>7, ElasticViewNext DEF SeenAs
<1>9. gates' = gates - 1 BY RemoveServerStep
<1> QED BY <1>2, <1>4, <1>8, <1>9 DEF Elastic!Next, Elastic!StartShrinking

LEMMA ElasticBootComplete ==
    ASSUME PoolInv, NEW m \in Modules, BootComplete(m)
    PROVE  Elastic!Next
<1>1. PoolInv' /\ Growing BY BootCompleteStep
<1>2. /\ PoolChange = "growing" /\ getServers = gates + 1 /\ gates \in Nat
      /\ events = 1 /\ serverBeingRemovedModuleId = NoModule /\ gates = activeServers
      /\ activeServers \in Int
  BY <1>1, PoolFacts, ElasticView DEF SeenAs, Growing
<1>3. /\ events' = 0 /\ serverBeingRemovedModuleId' = NoModule
      /\ activeServers' = activeServers + 1
  BY <1>2 DEF BootComplete, ConnectAndActivate
<1>4. Steady'
  BY <1>1, <1>3, SwimPoolAssumption DEF SwimPoolAssumption, PoolInv, Growing, Shrinking
<1>5. PoolChange' = "none" /\ getServers' = gates'
  BY <1>1, <1>4, ElasticViewNext DEF SeenAs
<1>6. gates' = gates + 1 BY <1>2, <1>3, <1>4 DEF Steady
<1> QED BY <1>2, <1>5, <1>6 DEF Elastic!Next, Elastic!FinishGrowing

LEMMA ElasticCompleteRemove ==
    ASSUME PoolInv, CompleteRemove
    PROVE  Elastic!Next
<1>1. PoolInv' /\ Shrinking /\ completeRemoveMsgs = 1 BY CompleteRemoveStep
<1>2. /\ PoolChange = "shrinking" /\ getServers = gates + 1 /\ gates \in Nat /\ events = 0
  BY <1>1, PoolFacts, ElasticView DEF SeenAs, Shrinking
<1>3. UNCHANGED gates /\ events' = 0 /\ serverBeingRemovedModuleId' = NoModule
  BY <1>1, <1>2 DEF CompleteRemove, removeServer, isServerBooting
<1>4. Steady'
  BY <1>1, <1>3, SwimPoolAssumption DEF SwimPoolAssumption, PoolInv, Growing, Shrinking
<1>5. PoolChange' = "none" /\ getServers' = gates'
  BY <1>1, <1>4, ElasticViewNext DEF SeenAs
<1> QED BY <1>2, <1>3, <1>5 DEF Elastic!Next, Elastic!FinishShrinking

(* A managed pool implements ElasticPool: capacity changes by one, one     *)
(* change at a time, and one server more than serves is reported exactly   *)
(* while a change is under way.                                            *)
THEOREM ManagedImplementsElastic == ManagedSpec => ImplementsElasticPool
<1>1. Init => Elastic!Init
  <2> SUFFICES ASSUME Init PROVE Elastic!Init OBVIOUS
  <2>1. PoolInv /\ Steady BY InitPoolInv DEF Init, Steady
  <2>2. PoolChange = "none" /\ getServers = gates BY <2>1, ElasticView DEF SeenAs
  <2> QED BY <2>2 DEF Init, Elastic!Init
<1>2. PoolInv /\ [ManagedNext]_vars => [Elastic!Next]_Elastic!vars
  <2> SUFFICES ASSUME PoolInv, [ManagedNext]_vars
               PROVE  Elastic!Next \/ UNCHANGED Elastic!vars
    OBVIOUS
  <2>1. CASE NothingDraining /\ IsLegalAdd /\ AddServer BY <2>1, ElasticAdd
  <2>2. CASE NothingDraining /\ IsLegalRemove /\ RemoveServer BY <2>2, ElasticRemove
  <2>3. CASE CompleteRemove BY <2>3, ElasticCompleteRemove
  <2>4. ASSUME NEW m \in Modules, BootComplete(m) PROVE Elastic!Next
    BY <2>4, ElasticBootComplete
  <2>5. CASE \/ BeginHandler \/ EndHandler \/ SetBrownout \/ Arrive \/ UNCHANGED vars
             \/ \E m \in Modules : \/ ServerTurnsIdle(m) \/ ServerTurnsWaiting(m)
                                   \/ QueuedJobArrives(m)
    <3>1. UNCHANGED <<activeServers, events, pendingMessages,
                      serverBeingRemovedModuleId, gates>>
      BY <2>5 DEF BeginHandler, EndHandler, SetBrownout, Arrive, ServerTurnsIdle,
                  ServerTurnsWaiting, QueuedJobArrives, Crash, vars, modelVars, execVars,
                  moduleVars
    <3> QED BY <3>1, ElasticStutter
  <2> QED BY <2>1, <2>2, <2>3, <2>4, <2>5 DEF ManagedNext, Event
<1> QED BY <1>1, <1>2, ManagedPoolInv, PTL DEF ManagedSpec, ImplementsElasticPool, Elastic!Spec

-----------------------------------------------------------------------------
(* The schedule and the exchanges.                                         *)

LoopTypes ==
    /\ now \in Nat /\ period \in Nat /\ deadline \in Nat /\ attempt \in 0..MaxRetries
    /\ pc \in {"top", "sense", "think", "act", "sleep", "stopped"}
    /\ stopRequested \in BOOLEAN
    /\ request \in Requests \cup {"none"}
    /\ inbox \in Seq(Batches)
    /\ serving \in Batches \cup {NoBatch}
    /\ readAt \in Nat /\ sensedAt \in Nat
    /\ action \in Commands \cup {"no_op"}
    /\ executed \in Nat /\ drainBy \in Nat

(* The client listens on one connection: the copy it waits for is the one  *)
(* served, or the last that SWIM received.                                 *)
Listening ==
    /\ serving.open => serving.what = request
    /\ \A i \in 1..Len(inbox) :
          inbox[i].open => i = Len(inbox) /\ inbox[i].what = request /\ ~serving.open

(* What ControlLoop.run exchanges where it is.                             *)
Exchanges ==
    /\ pc = "sense" => request \in {"scalars", "utilizations"}
    /\ pc = "act" => request \in Commands
    /\ pc \notin {"sense", "act"} => request = "none"
    /\ request # "none" => now <= deadline

Exchanging == (MaxRetries + 1) * Timeout
PeriodStart == period * Period

(* Every state of a period is reached by a bounded time after its start.   *)
OnSchedule ==
    /\ pc = "top" /\ ~stopRequested => now = PeriodStart
    /\ pc = "sleep" => now <= PeriodStart
    /\ request = "scalars" => deadline <= PeriodStart + (attempt + 1) * Timeout
    /\ request = "utilizations" \/ pc = "think" => readAt <= PeriodStart + Exchanging
    /\ request = "utilizations" => deadline <= readAt + (attempt + 1) * Timeout
    /\ pc = "think" => sensedAt <= readAt + Exchanging

ScheduleInv == LoopTypes /\ Listening /\ Exchanges /\ OnSchedule

-----------------------------------------------------------------------------
(* Arithmetic of the schedule.                                             *)

LEMMA NextPeriodIsLater ==
    ASSUME now \in Nat, period \in Nat
    PROVE  /\ NextPeriod \in Nat /\ NextPeriod >= period + 1
           /\ now <= NextPeriod * Period
           /\ PeriodStart + Period <= NextPeriod * Period
<1>p. Period \in Nat /\ Period > 0 BY ControlLoopAssumption DEF ControlLoopAssumption
<1>1. PICK q \in Nat : q = now \div Period BY <1>p
<1>2. now < (q + 1) * Period BY <1>p, <1>1
<1>3. CASE now > (period + 1) * Period
  <2>1. NextPeriod = q + 1 BY <1>1, <1>3 DEF NextPeriod
  <2>2. (period + 1) * Period < (q + 1) * Period BY <1>p, <1>2, <1>3
  <2>3. period + 1 <= q + 1
    <3> SUFFICES ASSUME q + 1 <= period + 1 PROVE q = period BY <1>p, <1>1
    <3>1. (q + 1) * Period <= (period + 1) * Period BY <1>p
    <3> QED BY <2>2, <3>1, <1>p
  <2>4. (period + 1) * Period = PeriodStart + Period BY <1>p DEF PeriodStart
  <2> QED BY <2>1, <2>2, <2>3, <2>4, <1>2, <1>p
<1>4. CASE ~(now > (period + 1) * Period)
  <2>1. NextPeriod = period + 1 BY <1>4 DEF NextPeriod
  <2>2. (period + 1) * Period = PeriodStart + Period BY <1>p DEF PeriodStart
  <2>3. (period + 1) * Period \in Nat BY <1>p
  <2> QED BY <2>1, <2>2, <2>3, <1>4, <1>p
<1> QED BY <1>3, <1>4

LEMMA AttemptsAreBounded ==
    ASSUME NEW a \in 0..MaxRetries
    PROVE  /\ (a + 1) * Timeout \in Nat
           /\ (a + 1) * Timeout <= Exchanging
           /\ (a + 1 + 1) * Timeout = (a + 1) * Timeout + Timeout
           /\ Exchanging \in Nat
<1>1. Timeout \in Nat /\ MaxRetries \in Nat
  BY ControlLoopAssumption DEF ControlLoopAssumption
<1>2. PICK d \in Nat : MaxRetries = a + d BY <1>1
<1>3. Exchanging = (a + 1) * Timeout + d * Timeout BY <1>1, <1>2 DEF Exchanging
<1>4. (a + 1) * Timeout \in Nat /\ d * Timeout \in Nat BY <1>1
<1>5. (a + 1 + 1) * Timeout = (a + 1) * Timeout + Timeout BY <1>1
<1> QED BY <1>3, <1>4, <1>5

(* The period a period starts in.                                          *)
LEMMA StartsInPeriod ==
    ASSUME now \in Nat, period \in Nat, now = PeriodStart
    PROVE  now \div Period = period
<1>p. Period \in Nat /\ Period > 0 BY ControlLoopAssumption DEF ControlLoopAssumption
<1>1. PICK q \in Nat : q = now \div Period BY <1>p
<1>2. q * Period <= now /\ now < (q + 1) * Period BY <1>p, <1>1
<1>3. period <= q
  <2> SUFFICES ASSUME q + 1 <= period PROVE FALSE BY <1>p, <1>1
  <2>1. (q + 1) * Period <= period * Period BY <1>p
  <2> QED BY <1>2, <2>1, <1>p DEF PeriodStart
<1>4. q <= period
  <2> SUFFICES ASSUME period + 1 <= q PROVE FALSE BY <1>p, <1>1
  <2>1. (period + 1) * Period <= q * Period BY <1>p
  <2>2. (period + 1) * Period = period * Period + Period BY <1>p
  <2> QED BY <1>2, <2>1, <2>2, <1>p DEF PeriodStart
<1> QED BY <1>1, <1>3, <1>4

-----------------------------------------------------------------------------
(* What the client and SWIM do to the connections.                         *)

LEMMA ClosedInbox ==
    ASSUME NEW q \in Seq(Batches)
    PROVE  /\ Closed(q) \in Seq(Batches) /\ Len(Closed(q)) = Len(q)
           /\ \A i \in 1..Len(q) : ~Closed(q)[i].open /\ Closed(q)[i].what = q[i].what
<1>1. Len(q) \in Nat /\ DOMAIN q = 1..Len(q) /\ \A i \in 1..Len(q) : q[i] \in Batches
  BY LenProperties, ElementOfSeq
<1>2. Closed(q) = [i \in 1..Len(q) |-> Close(q[i])] BY <1>1 DEF Closed
<1>3. \A i \in 1..Len(q) : /\ Close(q[i]) \in Batches /\ ~Close(q[i]).open
                           /\ Close(q[i]).what = q[i].what
  BY <1>1 DEF Close, Batches
<1>4. Closed(q) \in [1..Len(q) -> Batches] BY <1>2, <1>3
<1>5. Closed(q) \in Seq(Batches) BY <1>1, <1>4, SeqDef
<1>6. DOMAIN Closed(q) = 1..Len(q) BY <1>2
<1>7. Len(Closed(q)) = Len(q) BY <1>1, <1>5, <1>6, LenProperties
<1> QED BY <1>2, <1>3, <1>5, <1>7

LEMMA CloseBatch ==
    ASSUME NEW b \in Batches
    PROVE  /\ Close(b) \in Batches /\ ~Close(b).open /\ Close(b).what = b.what
           /\ b.what \in Requests /\ b.open \in BOOLEAN /\ b.what # "none"
<1>1. "none" \notin Requests BY DEF Requests, Commands
<1> QED BY <1>1 DEF Close, Batches

LEMMA NoBatchFacts ==
    /\ NoBatch.what = "none" /\ NoBatch.open = FALSE /\ Close(NoBatch) = NoBatch
    /\ "none" \notin Requests /\ NoBatch \notin Batches
<1>1. NoBatch.what = "none" /\ NoBatch.open = FALSE BY DEF NoBatch
<1>2. "none" \notin Requests BY DEF Requests, Commands
<1>3. NoBatch \notin Batches BY <1>1, <1>2 DEF Batches
<1>4. Close(NoBatch) = NoBatch
  <2>1. \A x, y, z : [[what |-> x, open |-> y] EXCEPT !.open = z]
                         = [what |-> x, open |-> z]
    OBVIOUS
  <2> QED BY <2>1, Zenon DEF Close, NoBatch
<1> QED BY <1>1, <1>2, <1>3, <1>4

LEMMA ServedBatch ==
    ASSUME serving \in Batches \cup {NoBatch}
    PROVE  /\ serving.what \in Requests \cup {"none"} /\ serving.open \in BOOLEAN
           /\ serving.open => serving \in Batches
           /\ serving.what \in Requests => serving \in Batches
           /\ serving.what = "none" => serving = NoBatch
           /\ serving # NoBatch => serving \in Batches
           /\ Close(serving) \in Batches \cup {NoBatch} /\ ~Close(serving).open
           /\ Close(serving).what = serving.what
           /\ Close(serving) = NoBatch => serving = NoBatch
<1>1. CASE serving \in Batches
  <2>1. /\ Close(serving) \in Batches /\ ~Close(serving).open
        /\ Close(serving).what = serving.what
        /\ serving.what \in Requests /\ serving.open \in BOOLEAN /\ serving.what # "none"
    BY <1>1, CloseBatch
  <2>2. Close(serving) # NoBatch BY <2>1, NoBatchFacts
  <2> QED BY <1>1, <2>1, <2>2
<1>2. CASE serving = NoBatch
  <2>1. serving.what = "none" /\ serving.open = FALSE /\ Close(serving) = serving
    BY <1>2, NoBatchFacts
  <2> QED BY <1>2, <2>1, NoBatchFacts
<1> QED BY <1>1, <1>2

(* Sending on a connection when no other is listened to.                   *)
LEMMA Sends ==
    ASSUME ScheduleInv, NEW r \in Requests, NEW q \in Seq(Batches),
           \A i \in 1..Len(q) : ~q[i].open,
           inbox' = Append(q, [what |-> r, open |-> TRUE]), request' = r,
           ~serving'.open
    PROVE  /\ inbox' \in Seq(Batches) /\ Listening'
           /\ Len(inbox') = Len(q) + 1
           /\ \A i \in 1..Len(q) : inbox'[i] = q[i]
           /\ inbox'[Len(q) + 1].what = r /\ inbox'[Len(q) + 1].open
<1> DEFINE b == [what |-> r, open |-> TRUE]
<1>1. b \in Batches /\ b.what = r /\ b.open = TRUE BY DEF Batches
<1> HIDE DEF b
<1>2. inbox' = Append(q, b) BY DEF b
<1>3. /\ inbox' \in Seq(Batches) /\ Len(inbox') = Len(q) + 1
      /\ \A i \in 1..Len(q) : inbox'[i] = q[i]
      /\ inbox'[Len(q) + 1] = b
  BY <1>1, <1>2, AppendProperties
<1>4. Len(q) \in Nat BY LenProperties
<1>5. Listening'
  <2>1. \A i \in 1..Len(inbox') : inbox'[i].open => i = Len(inbox') /\ inbox'[i].what = r
    BY <1>1, <1>3, <1>4
  <2> QED BY <2>1 DEF Listening
<1> QED BY <1>1, <1>3, <1>5

(* A client that waits for nothing listens to nothing.                     *)
LEMMA NobodyListens ==
    ASSUME LoopTypes, Listening, request = "none"
    PROVE  ~serving.open /\ \A i \in 1..Len(inbox) : ~inbox[i].open
<1>1. "none" \notin Requests BY DEF Requests, Commands
<1>2. \A i \in 1..Len(inbox) : inbox[i] \in Batches BY ElementOfSeq DEF LoopTypes
<1>3. \A i \in 1..Len(inbox) : inbox[i].what \in Requests BY <1>2, CloseBatch
<1>4. serving.open => serving.what # "none"
  BY ServedBatch, CloseBatch DEF LoopTypes
<1> QED BY <1>1, <1>3, <1>4 DEF Listening

-----------------------------------------------------------------------------
(* The schedule is kept, whatever SWIM and the policy do.                  *)

LEMMA ScheduleInit == LoopInit => ScheduleInv
<1> SUFFICES ASSUME LoopInit PROVE ScheduleInv OBVIOUS
<1>p. Period \in Nat /\ Timeout \in Nat /\ MaxRetries \in Nat
  BY ControlLoopAssumption DEF ControlLoopAssumption
<1>1. inbox \in Seq(Batches) /\ Len(inbox) = 0 BY EmptySeq DEF LoopInit
<1>2. LoopTypes
  <2>1. /\ now = 0 /\ period = 0 /\ deadline = 0 /\ attempt = 0 /\ readAt = 0
        /\ sensedAt = 0 /\ executed = 0 /\ drainBy = 0
    BY DEF LoopInit
  <2>2. stopRequested \in BOOLEAN BY DEF LoopInit
  <2>3. serving \in Batches \cup {NoBatch} BY DEF LoopInit
  <2>4. pc = "top" /\ request = "none" /\ action = "no_op" BY DEF LoopInit
  <2> QED BY <1>1, <1>p, <2>1, <2>2, <2>3, <2>4 DEF LoopTypes
<1>3. Listening BY <1>1, NoBatchFacts DEF LoopInit, Listening
<1>4. Exchanges BY DEF LoopInit, Exchanges
<1>5. OnSchedule BY <1>p DEF LoopInit, OnSchedule, PeriodStart
<1> QED BY <1>2, <1>3, <1>4, <1>5 DEF ScheduleInv

(* What every step below starts from.                                      *)
LEMMA ScheduleFacts ==
    ASSUME ScheduleInv
    PROVE  /\ LoopTypes /\ Listening /\ Exchanges /\ OnSchedule
           /\ PeriodStart \in Nat /\ Timeout \in Nat /\ MaxRetries \in Nat
           /\ Exchanging \in Nat /\ (attempt + 1) * Timeout \in Nat
           /\ (attempt + 1) * Timeout <= Exchanging
           /\ request \in Commands => pc = "act"
           /\ request \in {"scalars", "utilizations"} => pc = "sense"
<1>p. Period \in Nat /\ Timeout \in Nat /\ MaxRetries \in Nat
  BY ControlLoopAssumption DEF ControlLoopAssumption
<1>1. LoopTypes /\ Listening /\ Exchanges /\ OnSchedule BY DEF ScheduleInv
<1>2. period \in Nat /\ attempt \in 0..MaxRetries BY <1>1 DEF LoopTypes
<1>3. PeriodStart \in Nat BY <1>p, <1>2 DEF PeriodStart
<1>4. /\ (attempt + 1) * Timeout \in Nat /\ (attempt + 1) * Timeout <= Exchanging
      /\ Exchanging \in Nat
  BY <1>2, AttemptsAreBounded
<1>5. request \in Commands => pc = "act" BY <1>1 DEF Exchanges, Commands
<1>6. request \in {"scalars", "utilizations"} => pc = "sense"
  BY <1>1 DEF Exchanges, Commands
<1> QED BY <1>p, <1>1, <1>3, <1>4, <1>5, <1>6

LEMMA ScheduleFrame ==
    ASSUME ScheduleInv,
           UNCHANGED <<now, period, clientVars, inbox, serving, readAt, sensedAt,
                       action, executed, drainBy>>,
           pc' \in {"top", "sense", "think", "act", "sleep", "stopped"},
           stopRequested' \in BOOLEAN, stopRequested => stopRequested',
           \/ pc' = pc
           \/ pc \notin {"sense", "act"} /\ pc' \in {"top", "stopped"},
           pc' = "top" /\ ~stopRequested' => now = PeriodStart
    PROVE  ScheduleInv'
<1>1. LoopTypes /\ Listening /\ Exchanges /\ OnSchedule BY DEF ScheduleInv
<1>2. LoopTypes' BY <1>1 DEF LoopTypes, clientVars
<1>3. Listening' BY <1>1 DEF Listening, clientVars
<1>4. Exchanges' BY <1>1 DEF Exchanges, clientVars
<1>5. OnSchedule' BY <1>1 DEF OnSchedule, clientVars, PeriodStart
<1> QED BY <1>2, <1>3, <1>4, <1>5 DEF ScheduleInv

LEMMA StartSensingOnSchedule == ScheduleInv /\ StartSensing => ScheduleInv'
<1> SUFFICES ASSUME ScheduleInv, StartSensing PROVE ScheduleInv' OBVIOUS
<1>f. /\ LoopTypes /\ Listening /\ Exchanges /\ OnSchedule
      /\ PeriodStart \in Nat /\ Timeout \in Nat
  BY ScheduleFacts
<1>1. /\ pc = "top" /\ ~stopRequested /\ pc' = "sense"
      /\ inbox' = Append(inbox, [what |-> "scalars", open |-> TRUE])
      /\ deadline' = now + Timeout /\ request' = "scalars" /\ attempt' = 0
      /\ UNCHANGED <<now, stopRequested, period, serving, readAt, sensedAt, action,
                     executed, drainBy>>
  BY DEF StartSensing, StartRequest, Exchange
<1>2. request = "none" BY <1>f, <1>1 DEF Exchanges
<1>3. ~serving'.open /\ \A i \in 1..Len(inbox) : ~inbox[i].open
  BY <1>f, <1>1, <1>2, NobodyListens
<1>4. inbox \in Seq(Batches) /\ "scalars" \in Requests BY <1>f DEF LoopTypes, Requests
<1>5. inbox' \in Seq(Batches) /\ Listening' BY <1>1, <1>3, <1>4, Sends
<1>6. LoopTypes'
  <2>1. now + Timeout \in Nat /\ 0 \in 0..MaxRetries BY <1>f, ScheduleFacts DEF LoopTypes
  <2> QED BY <1>f, <1>1, <1>4, <1>5, <2>1 DEF LoopTypes
<1>7. now = PeriodStart /\ now \in Nat BY <1>f, <1>1 DEF OnSchedule, LoopTypes
<1>8. Exchanges' BY <1>f, <1>1, <1>7 DEF Exchanges
<1>9. OnSchedule'
  <2>1. PeriodStart' = PeriodStart BY <1>1 DEF PeriodStart
  <2>2. (attempt' + 1) * Timeout = Timeout BY <1>f, <1>1
  <2>3. deadline' <= PeriodStart' + (attempt' + 1) * Timeout BY <1>f, <1>1, <1>7, <2>1, <2>2
  <2> QED BY <1>1, <2>3 DEF OnSchedule
<1> QED BY <1>5, <1>6, <1>8, <1>9 DEF ScheduleInv

LEMMA RetryOnSchedule == ScheduleInv /\ RetryRequest => ScheduleInv'
<1> SUFFICES ASSUME ScheduleInv, RetryRequest PROVE ScheduleInv' OBVIOUS
<1>f. /\ LoopTypes /\ Listening /\ Exchanges /\ OnSchedule
      /\ PeriodStart \in Nat /\ Timeout \in Nat /\ MaxRetries \in Nat
      /\ (attempt + 1) * Timeout \in Nat
  BY ScheduleFacts
<1>1. /\ request # "none" /\ attempt < MaxRetries /\ attempt' = attempt + 1
      /\ inbox' = Append(Closed(inbox), [what |-> request, open |-> TRUE])
      /\ serving' = Close(serving) /\ deadline' = now + Timeout
      /\ UNCHANGED <<now, pc, stopRequested, period, request, readAt, sensedAt, action,
                     executed, drainBy>>
  BY DEF RetryRequest, TimedOut, AttemptsLeft
<1>2. /\ now \in Nat /\ deadline \in Nat /\ readAt \in Nat /\ attempt \in 0..MaxRetries
      /\ inbox \in Seq(Batches) /\ request \in Requests
  BY <1>f, <1>1 DEF LoopTypes
<1>3. /\ Closed(inbox) \in Seq(Batches)
      /\ \A i \in 1..Len(Closed(inbox)) : ~Closed(inbox)[i].open
  BY <1>2, ClosedInbox
<1>4. ~serving'.open /\ serving' \in Batches \cup {NoBatch}
  BY <1>f, <1>1, ServedBatch DEF LoopTypes
<1>5. inbox' \in Seq(Batches) /\ Listening' BY <1>1, <1>2, <1>3, <1>4, Sends
<1>6. now <= deadline BY <1>f, <1>1 DEF Exchanges
<1>7. LoopTypes'
  <2>1. now + Timeout \in Nat /\ attempt + 1 \in 0..MaxRetries BY <1>f, <1>1, <1>2
  <2> QED BY <1>f, <1>1, <1>4, <1>5, <2>1 DEF LoopTypes
<1>8. Exchanges' BY <1>f, <1>1, <1>2 DEF Exchanges
<1>9. OnSchedule'
  <2>1. PeriodStart' = PeriodStart BY <1>1 DEF PeriodStart
  <2>2. (attempt' + 1) * Timeout = (attempt + 1) * Timeout + Timeout
    BY <1>1, <1>2, AttemptsAreBounded
  <2>3. request = "scalars" => deadline' <= PeriodStart' + (attempt' + 1) * Timeout
    <3>1. request = "scalars" => deadline <= PeriodStart + (attempt + 1) * Timeout
      BY <1>f DEF OnSchedule
    <3> QED BY <1>f, <1>1, <1>2, <1>6, <2>1, <2>2, <3>1
  <2>4. request = "utilizations" => deadline' <= readAt + (attempt' + 1) * Timeout
    <3>1. request = "utilizations" => deadline <= readAt + (attempt + 1) * Timeout
      BY <1>f DEF OnSchedule
    <3> QED BY <1>f, <1>1, <1>2, <1>6, <2>2, <3>1
  <2> QED BY <1>f, <1>1, <2>1, <2>3, <2>4 DEF OnSchedule
<1> QED BY <1>5, <1>7, <1>8, <1>9 DEF ScheduleInv

LEMMA FailureOnSchedule == ScheduleInv /\ RequestFails => ScheduleInv'
<1> SUFFICES ASSUME ScheduleInv, RequestFails PROVE ScheduleInv' OBVIOUS
<1>f. LoopTypes /\ Listening /\ Exchanges /\ OnSchedule BY ScheduleFacts
<1>1. /\ inbox' = Closed(inbox) /\ serving' = Close(serving) /\ request' = "none"
      /\ pc' = "sleep" /\ period' = NextPeriod
      /\ UNCHANGED <<now, stopRequested, deadline, attempt, readAt, sensedAt, action,
                     executed, drainBy>>
  BY DEF RequestFails, GoToSleep
<1>2. NextPeriod \in Nat /\ now <= NextPeriod * Period BY <1>f, NextPeriodIsLater DEF LoopTypes
<1>3. ~serving'.open /\ serving' \in Batches \cup {NoBatch}
  BY <1>f, <1>1, ServedBatch DEF LoopTypes
<1>4. inbox \in Seq(Batches) BY <1>f DEF LoopTypes
<1>5. inbox' \in Seq(Batches) /\ \A i \in 1..Len(inbox') : ~inbox'[i].open
  BY <1>1, <1>4, ClosedInbox
<1>6. LoopTypes' BY <1>f, <1>1, <1>2, <1>3, <1>5 DEF LoopTypes
<1>7. Listening' BY <1>3, <1>5 DEF Listening
<1>8. Exchanges' BY <1>1 DEF Exchanges
<1>9. OnSchedule' BY <1>1, <1>2 DEF OnSchedule, PeriodStart
<1> QED BY <1>6, <1>7, <1>8, <1>9 DEF ScheduleInv

LEMMA DecisionOnSchedule == ScheduleInv /\ Decide => ScheduleInv'
<1> SUFFICES ASSUME ScheduleInv, Decide PROVE ScheduleInv' OBVIOUS
<1>f. /\ LoopTypes /\ Listening /\ Exchanges /\ OnSchedule
      /\ Timeout \in Nat /\ MaxRetries \in Nat
  BY ScheduleFacts
<1>1. PICK a \in Commands \cup {"no_op"} :
         /\ action' = a /\ executed' = 0
         /\ IF a = "no_op" \/ Stale
            THEN /\ pc' = "sleep" /\ period' = NextPeriod
                 /\ UNCHANGED <<clientVars, inbox>>
            ELSE /\ inbox' = Append(inbox, [what |-> a, open |-> TRUE])
                 /\ deadline' = now + Timeout /\ request' = a /\ attempt' = 0
                 /\ pc' = "act" /\ UNCHANGED period
  BY DEF Decide, StartRequest, Exchange, GoToSleep
<1>2. /\ pc = "think"
      /\ UNCHANGED <<now, stopRequested, serving, readAt, sensedAt, drainBy>>
  BY DEF Decide
<1>3. request = "none" BY <1>f, <1>2 DEF Exchanges
<1>4. ~serving.open /\ \A i \in 1..Len(inbox) : ~inbox[i].open
  BY <1>f, <1>3, NobodyListens
<1>5. inbox \in Seq(Batches) /\ now \in Nat BY <1>f DEF LoopTypes
<1>6. CASE a = "no_op" \/ Stale
  <2>1. pc' = "sleep" /\ period' = NextPeriod /\ UNCHANGED <<clientVars, inbox>>
    BY <1>1, <1>6
  <2>2. NextPeriod \in Nat /\ now <= NextPeriod * Period
    BY <1>f, NextPeriodIsLater DEF LoopTypes
  <2>3. LoopTypes' BY <1>f, <1>1, <1>2, <2>1, <2>2 DEF LoopTypes, clientVars
  <2>4. Listening' BY <1>f, <1>2, <2>1 DEF Listening, clientVars
  <2>5. Exchanges' BY <1>3, <2>1 DEF Exchanges, clientVars
  <2>6. OnSchedule' BY <1>2, <1>3, <2>1, <2>2 DEF OnSchedule, PeriodStart, clientVars
  <2> QED BY <2>3, <2>4, <2>5, <2>6 DEF ScheduleInv
<1>7. CASE ~(a = "no_op" \/ Stale)
  <2>1. /\ inbox' = Append(inbox, [what |-> a, open |-> TRUE])
        /\ deadline' = now + Timeout /\ request' = a /\ attempt' = 0
        /\ pc' = "act" /\ UNCHANGED period
    BY <1>1, <1>7
  <2>2. a \in Commands /\ a \in Requests BY <1>7 DEF Requests
  <2>3. inbox' \in Seq(Batches) /\ Listening' BY <1>2, <1>4, <1>5, <2>1, <2>2, Sends
  <2>4. LoopTypes'
    <3>1. now + Timeout \in Nat /\ 0 \in 0..MaxRetries BY <1>f, <1>5
    <3> QED BY <1>f, <1>1, <1>2, <2>1, <2>2, <2>3, <3>1 DEF LoopTypes
  <2>5. Exchanges' BY <1>f, <1>2, <1>5, <2>1, <2>2 DEF Exchanges
  <2>6. OnSchedule' BY <2>1, <2>2 DEF OnSchedule, Commands
  <2> QED BY <2>3, <2>4, <2>5, <2>6 DEF ScheduleInv
<1> QED BY <1>6, <1>7

LEMMA ReceiptOnSchedule == ScheduleInv /\ ReceiveBatch => ScheduleInv'
<1> SUFFICES ASSUME ScheduleInv, ReceiveBatch PROVE ScheduleInv' OBVIOUS
<1>f. LoopTypes /\ Listening /\ Exchanges /\ OnSchedule BY ScheduleFacts
<1>1. /\ inbox # <<>> /\ serving' = Head(inbox) /\ inbox' = Tail(inbox)
      /\ UNCHANGED <<now, pc, stopRequested, period, clientVars, readAt, sensedAt, action,
                     executed, drainBy>>
  BY DEF ReceiveBatch
<1>2. inbox \in Seq(Batches) BY <1>f DEF LoopTypes
<1>3. /\ serving' \in Batches /\ inbox' \in Seq(Batches)
      /\ Len(inbox') = Len(inbox) - 1 /\ Len(inbox) \in Nat /\ Len(inbox) >= 1
      /\ \A i \in 1..Len(inbox') : inbox'[i] = inbox[i + 1]
  BY <1>1, <1>2, HeadTailProperties, EmptySeq
<1>4. serving' = inbox[1] BY <1>1, <1>2
<1>5. LoopTypes' BY <1>f, <1>1, <1>3 DEF LoopTypes, clientVars
<1>6. Listening'
  <2>1. serving'.open => Len(inbox) = 1 /\ serving'.what = request
    BY <1>f, <1>3, <1>4 DEF Listening
  <2>2. ASSUME NEW i \in 1..Len(inbox'), inbox'[i].open
        PROVE  i = Len(inbox') /\ inbox'[i].what = request /\ ~serving'.open
    <3>1. i + 1 \in 1..Len(inbox) /\ inbox[i + 1].open BY <1>3, <2>2
    <3>2. i + 1 = Len(inbox) /\ inbox[i + 1].what = request BY <1>f, <3>1 DEF Listening
    <3> QED BY <1>3, <2>1, <3>1, <3>2
  <2> QED BY <1>1, <2>1, <2>2 DEF Listening, clientVars
<1>7. Exchanges' BY <1>f, <1>1 DEF Exchanges, clientVars
<1>8. OnSchedule' BY <1>f, <1>1 DEF OnSchedule, PeriodStart, clientVars
<1> QED BY <1>5, <1>6, <1>7, <1>8 DEF ScheduleInv

(* SWIM is done with a batch nobody listens to any more.                   *)
LEMMA AbandonedOnSchedule ==
    ASSUME ScheduleInv, serving' = NoBatch, executed' \in Nat, drainBy' \in Nat,
           UNCHANGED <<now, pc, stopRequested, period, clientVars, inbox, readAt, sensedAt,
                       action>>
    PROVE  ScheduleInv'
<1>f. LoopTypes /\ Listening /\ Exchanges /\ OnSchedule BY ScheduleFacts
<1>1. LoopTypes' BY <1>f DEF LoopTypes, clientVars
<1>2. Listening'
  <2>1. ~serving'.open BY NoBatchFacts
  <2> QED BY <1>f, <2>1 DEF Listening, clientVars
<1>3. Exchanges' BY <1>f DEF Exchanges, clientVars
<1>4. OnSchedule' BY <1>f DEF OnSchedule, PeriodStart, clientVars
<1> QED BY <1>1, <1>2, <1>3, <1>4 DEF ScheduleInv

LEMMA ScalarsOnSchedule == ScheduleInv /\ ServeScalars => ScheduleInv'
<1> SUFFICES ASSUME ScheduleInv, ServeScalars PROVE ScheduleInv' OBVIOUS
<1>f. /\ LoopTypes /\ Listening /\ Exchanges /\ OnSchedule
      /\ PeriodStart \in Nat /\ Timeout \in Nat /\ MaxRetries \in Nat
      /\ Exchanging \in Nat /\ (attempt + 1) * Timeout \in Nat
      /\ (attempt + 1) * Timeout <= Exchanging
  BY ScheduleFacts
<1>1. /\ serving.what = "scalars" /\ serving' = NoBatch
      /\ UNCHANGED <<now, pc, stopRequested, period, sensedAt, action, executed, drainBy>>
  BY DEF ServeScalars
<1>2. CASE serving.open
  <2>1. /\ readAt' = now
        /\ inbox' = Append(inbox, [what |-> "utilizations", open |-> TRUE])
        /\ deadline' = now + Timeout /\ request' = "utilizations" /\ attempt' = 0
    BY <1>2 DEF ServeScalars, StartRequest, Exchange
  <2>2. /\ request = "scalars" /\ \A i \in 1..Len(inbox) : ~inbox[i].open
    BY <1>f, <1>1, <1>2 DEF Listening
  <2>3. /\ inbox \in Seq(Batches) /\ now \in Nat /\ deadline \in Nat
        /\ "utilizations" \in Requests
    BY <1>f DEF LoopTypes, Requests
  <2>4. ~serving'.open BY <1>1, NoBatchFacts
  <2>5. inbox' \in Seq(Batches) /\ Listening' BY <2>1, <2>2, <2>3, <2>4, Sends
  <2>6. LoopTypes'
    <3>1. now + Timeout \in Nat /\ 0 \in 0..MaxRetries BY <1>f, <2>3
    <3> QED BY <1>f, <1>1, <2>1, <2>3, <2>5, <3>1 DEF LoopTypes
  <2>7. pc = "sense" BY <2>2, ScheduleFacts
  <2>8. Exchanges' BY <1>f, <1>1, <2>1, <2>3, <2>7 DEF Exchanges
  <2>9. OnSchedule'
    <3>1. now <= deadline /\ deadline <= PeriodStart + (attempt + 1) * Timeout
      BY <1>f, <2>2 DEF Exchanges, OnSchedule
    <3>2. readAt' <= PeriodStart + Exchanging BY <1>f, <2>1, <2>3, <3>1
    <3>3. PeriodStart' = PeriodStart BY <1>1 DEF PeriodStart
    <3>4. (attempt' + 1) * Timeout = Timeout BY <1>f, <2>1
    <3>5. deadline' <= readAt' + (attempt' + 1) * Timeout BY <1>f, <2>1, <2>3, <3>4
    <3> QED BY <1>1, <2>1, <2>7, <3>2, <3>3, <3>5 DEF OnSchedule
  <2> QED BY <2>5, <2>6, <2>8, <2>9 DEF ScheduleInv
<1>3. CASE ~serving.open
  <2>1. UNCHANGED <<clientVars, inbox, readAt>> BY <1>3 DEF ServeScalars
  <2>2. executed' \in Nat /\ drainBy' \in Nat BY <1>f, <1>1 DEF LoopTypes
  <2> QED BY <1>1, <2>1, <2>2, AbandonedOnSchedule
<1> QED BY <1>2, <1>3

LEMMA UtilizationsOnSchedule == ScheduleInv /\ ServeUtilizations => ScheduleInv'
<1> SUFFICES ASSUME ScheduleInv, ServeUtilizations PROVE ScheduleInv' OBVIOUS
<1>f. /\ LoopTypes /\ Listening /\ Exchanges /\ OnSchedule
      /\ PeriodStart \in Nat /\ Exchanging \in Nat /\ (attempt + 1) * Timeout \in Nat
      /\ (attempt + 1) * Timeout <= Exchanging
  BY ScheduleFacts
<1>1. /\ serving.what = "utilizations" /\ serving' = NoBatch
      /\ UNCHANGED <<now, stopRequested, period, deadline, attempt, inbox, readAt, action,
                     executed, drainBy>>
  BY DEF ServeUtilizations
<1>2. CASE serving.open
  <2>1. request' = "none" /\ sensedAt' = now /\ pc' = "think" BY <1>2 DEF ServeUtilizations
  <2>2. request = "utilizations" /\ \A i \in 1..Len(inbox) : ~inbox[i].open
    BY <1>f, <1>1, <1>2 DEF Listening
  <2>3. now \in Nat /\ deadline \in Nat /\ readAt \in Nat BY <1>f DEF LoopTypes
  <2>4. LoopTypes' BY <1>f, <1>1, <2>1 DEF LoopTypes
  <2>5. Listening'
    <3>1. ~serving'.open BY <1>1, NoBatchFacts
    <3> QED BY <1>1, <2>2, <3>1 DEF Listening
  <2>6. Exchanges' BY <2>1 DEF Exchanges
  <2>7. OnSchedule'
    <3>1. /\ now <= deadline /\ deadline <= readAt + (attempt + 1) * Timeout
          /\ readAt <= PeriodStart + Exchanging
      BY <1>f, <2>2 DEF Exchanges, OnSchedule
    <3>2. sensedAt' <= readAt + Exchanging BY <1>f, <2>1, <2>3, <3>1
    <3>3. PeriodStart' = PeriodStart BY <1>1 DEF PeriodStart
    <3> QED BY <1>1, <2>1, <3>1, <3>2, <3>3 DEF OnSchedule
  <2> QED BY <2>4, <2>5, <2>6, <2>7 DEF ScheduleInv
<1>3. CASE ~serving.open
  <2>1. UNCHANGED <<request, sensedAt, pc>> BY <1>3 DEF ServeUtilizations
  <2>2. UNCHANGED clientVars BY <1>1, <2>1 DEF clientVars
  <2>3. executed' \in Nat /\ drainBy' \in Nat BY <1>f, <1>1 DEF LoopTypes
  <2> QED BY <1>1, <2>1, <2>2, <2>3, AbandonedOnSchedule
<1> QED BY <1>2, <1>3

LEMMA CommandOnSchedule == ScheduleInv /\ ServeCommand => ScheduleInv'
<1> SUFFICES ASSUME ScheduleInv, ServeCommand PROVE ScheduleInv' OBVIOUS
<1>f. LoopTypes /\ Listening /\ Exchanges /\ OnSchedule BY ScheduleFacts
<1>1. /\ serving.what \in Commands /\ serving' = NoBatch /\ executed' = executed + 1
      /\ drainBy' \in {drainBy, now + DrainTime}
      /\ UNCHANGED <<now, stopRequested, deadline, attempt, inbox, readAt, sensedAt, action>>
  BY DEF ServeCommand, Commands
<1>2. now + DrainTime \in Nat /\ executed + 1 \in Nat
  BY <1>f, ControlLoopAssumption DEF ControlLoopAssumption, LoopTypes
<1>3. executed' \in Nat /\ drainBy' \in Nat BY <1>f, <1>1, <1>2 DEF LoopTypes
<1>4. CASE serving.open /\ ~crashed'
  <2>1. request' = "none" /\ pc' = "sleep" /\ period' = NextPeriod
    BY <1>4 DEF ServeCommand, GoToSleep
  <2>2. \A i \in 1..Len(inbox) : ~inbox[i].open BY <1>f, <1>4 DEF Listening
  <2>3. NextPeriod \in Nat /\ now <= NextPeriod * Period
    BY <1>f, NextPeriodIsLater DEF LoopTypes
  <2>4. LoopTypes' BY <1>f, <1>1, <1>3, <2>1, <2>3 DEF LoopTypes
  <2>5. Listening'
    <3>1. ~serving'.open BY <1>1, NoBatchFacts
    <3> QED BY <1>1, <2>2, <3>1 DEF Listening
  <2>6. Exchanges' BY <2>1 DEF Exchanges
  <2>7. OnSchedule' BY <1>1, <2>1, <2>3 DEF OnSchedule, PeriodStart
  <2> QED BY <2>4, <2>5, <2>6, <2>7 DEF ScheduleInv
<1>5. CASE ~(serving.open /\ ~crashed')
  <2>1. UNCHANGED <<request, pc, period>> BY <1>5 DEF ServeCommand
  <2>2. UNCHANGED clientVars BY <1>1, <2>1 DEF clientVars
  <2> QED BY <1>1, <1>3, <2>1, <2>2, AbandonedOnSchedule
<1> QED BY <1>4, <1>5

LEMMA TickOnSchedule == ScheduleInv /\ Tick => ScheduleInv'
<1> SUFFICES ASSUME ScheduleInv, Tick PROVE ScheduleInv' OBVIOUS
<1>f. LoopTypes /\ Listening /\ Exchanges /\ OnSchedule /\ PeriodStart \in Nat
  BY ScheduleFacts
<1>1. /\ pc \notin {"top", "stopped"} /\ (pc = "sleep" => now < PeriodStart)
      /\ ~TimedOut /\ now' = now + 1
      /\ UNCHANGED <<pc, stopRequested, period, clientVars, inbox, serving, readAt,
                     sensedAt, action, executed, drainBy>>
  BY DEF Tick, PeriodStart
<1>2. now \in Nat /\ deadline \in Nat BY <1>f DEF LoopTypes
<1>3. request # "none" => now < deadline BY <1>1, <1>2 DEF TimedOut
<1>4. LoopTypes' BY <1>f, <1>1, <1>2 DEF LoopTypes, clientVars
<1>5. Listening' BY <1>f, <1>1 DEF Listening, clientVars
<1>6. Exchanges' BY <1>f, <1>1, <1>2, <1>3 DEF Exchanges, clientVars
<1>7. OnSchedule'
  <2>1. PeriodStart' = PeriodStart BY <1>1 DEF PeriodStart
  <2>2. pc' = "sleep" => now' <= PeriodStart' BY <1>f, <1>1, <1>2, <2>1
  <2>3. pc' # "top" BY <1>1
  <2> QED BY <1>f, <1>1, <2>1, <2>2, <2>3 DEF OnSchedule, clientVars
<1> QED BY <1>4, <1>5, <1>6, <1>7 DEF ScheduleInv

LEMMA ScheduleStep == ScheduleInv /\ [LoopNext]_allVars => ScheduleInv'
<1> SUFFICES ASSUME ScheduleInv, [LoopNext]_allVars PROVE ScheduleInv' OBVIOUS
<1>f. LoopTypes /\ Listening /\ Exchanges /\ OnSchedule BY ScheduleFacts
<1>1. CASE StartSensing BY <1>1, StartSensingOnSchedule
<1>2. CASE RetryRequest BY <1>2, RetryOnSchedule
<1>3. CASE RequestFails BY <1>3, FailureOnSchedule
<1>4. CASE Decide BY <1>4, DecisionOnSchedule
<1>5. CASE WakeUp
  <2>1. /\ pc = "sleep" /\ (now >= PeriodStart \/ stopRequested) /\ pc' = "top"
        /\ UNCHANGED <<now, stopRequested, period, clientVars, inbox, serving, readAt,
                       sensedAt, action, executed, drainBy>>
    BY <1>5 DEF WakeUp, PeriodStart
  <2>2. now <= PeriodStart /\ now \in Nat /\ PeriodStart \in Nat
    BY <1>f, <2>1, ScheduleFacts DEF OnSchedule, LoopTypes
  <2>3. stopRequested' \in BOOLEAN /\ (stopRequested => stopRequested')
    BY <1>f, <2>1 DEF LoopTypes
  <2>4. ~stopRequested' => now = PeriodStart BY <2>1, <2>2
  <2> QED BY <2>1, <2>3, <2>4, ScheduleFrame
<1>6. CASE StopLoop
  <2>1. /\ pc = "top" /\ pc' = "stopped"
        /\ UNCHANGED <<now, stopRequested, period, clientVars, inbox, serving, readAt,
                       sensedAt, action, executed, drainBy>>
    BY <1>6 DEF StopLoop
  <2>2. stopRequested' \in BOOLEAN /\ (stopRequested => stopRequested')
    BY <1>f, <2>1 DEF LoopTypes
  <2> QED BY <2>1, <2>2, ScheduleFrame
<1>7. CASE RequestStop
  <2>1. /\ stopRequested' = TRUE
        /\ UNCHANGED <<now, pc, period, clientVars, inbox, serving, readAt, sensedAt,
                       action, executed, drainBy>>
    BY <1>7 DEF RequestStop
  <2>2. pc' \in {"top", "sense", "think", "act", "sleep", "stopped"}
    BY <1>f, <2>1 DEF LoopTypes
  <2> QED BY <2>1, <2>2, ScheduleFrame
<1>8. CASE ReceiveBatch BY <1>8, ReceiptOnSchedule
<1>9. CASE ServeScalars BY <1>9, ScalarsOnSchedule
<1>10. CASE ServeUtilizations BY <1>10, UtilizationsOnSchedule
<1>11. CASE ServeCommand BY <1>11, CommandOnSchedule
<1>12. CASE Tick BY <1>12, TickOnSchedule
<1>13. CASE FinishBatch \/ SwimEvent \/ UNCHANGED allVars
  <2>1. UNCHANGED <<now, pc, stopRequested, period, clientVars, inbox, serving, readAt,
                    sensedAt, action, executed, drainBy>>
    BY <1>13 DEF FinishBatch, SwimEvent, loopVars, allVars
  <2>2. /\ pc' \in {"top", "sense", "think", "act", "sleep", "stopped"}
        /\ stopRequested' \in BOOLEAN /\ (stopRequested => stopRequested')
    BY <1>f, <2>1 DEF LoopTypes
  <2>3. pc' = "top" /\ ~stopRequested' => now = PeriodStart BY <1>f, <2>1 DEF OnSchedule
  <2> QED BY <2>1, <2>2, <2>3, ScheduleFrame
<1> QED BY <1>1, <1>2, <1>3, <1>4, <1>5, <1>6, <1>7, <1>8, <1>9, <1>10, <1>11, <1>12, <1>13
        DEF LoopNext, LoopStep, SwimStep

(* The loop keeps its schedule and its exchanges their deadlines.          *)
THEOREM LoopKeepsSchedule == LoopSpec => []ScheduleInv
BY ScheduleInit, ScheduleStep, PTL DEF LoopSpec

(* A command goes out at most a period and the attempts of one exchange    *)
(* after SWIM read out the state it was decided on.                        *)
THEOREM SentFresh == LoopSpec => SentOnFreshState
<1> DEFINE Fresh == pc = "think" /\ pc' = "act"
                       => now - readAt <= Period + (MaxRetries + 1) * Timeout
<1>1. ScheduleInv /\ [LoopNext]_allVars => [Fresh]_allVars
  <2> SUFFICES ASSUME ScheduleInv, LoopNext, pc = "think", pc' = "act"
               PROVE  now - readAt <= Period + (MaxRetries + 1) * Timeout
    OBVIOUS
  <2>1. Decide
    <3>1. ~StartSensing /\ ~RequestFails /\ ~WakeUp /\ ~StopLoop /\ ~ServeUtilizations
      BY DEF StartSensing, RequestFails, GoToSleep, WakeUp, StopLoop, ServeUtilizations
    <3>2. ~RetryRequest /\ ~RequestStop /\ ~ReceiveBatch /\ ~ServeScalars /\ ~Tick
      BY DEF RetryRequest, RequestStop, ReceiveBatch, ServeScalars, Tick
    <3>3. ~FinishBatch /\ ~SwimEvent BY DEF FinishBatch, SwimEvent, loopVars
    <3>4. ~ServeCommand BY DEF ServeCommand, GoToSleep
    <3> QED BY <3>1, <3>2, <3>3, <3>4 DEF LoopNext, LoopStep, SwimStep
  <2>2. ~Stale BY <2>1 DEF Decide, GoToSleep
  <2>3. /\ sensedAt <= readAt + Exchanging /\ Exchanging \in Nat
        /\ now \in Nat /\ sensedAt \in Nat /\ readAt \in Nat
    BY ScheduleFacts DEF OnSchedule, LoopTypes
  <2>4. now - sensedAt <= Period /\ Period \in Nat
    BY <2>2, <2>3, ControlLoopAssumption DEF ControlLoopAssumption, Stale
  <2>5. now - readAt <= Period + Exchanging BY <2>3, <2>4
  <2> QED BY <2>5 DEF Exchanging
<1> QED BY <1>1, LoopKeepsSchedule, PTL DEF LoopSpec, SentOnFreshState

(* A decision is labelled with the period it senses in.                    *)
THEOREM SensedInPeriod == LoopSpec => SensesInItsPeriod
<1> DEFINE InPeriod == pc = "top" /\ pc' = "sense" => now \div Period = period
<1>1. ScheduleInv /\ [LoopNext]_allVars => [InPeriod]_allVars
  <2> SUFFICES ASSUME ScheduleInv, LoopNext, pc = "top", pc' = "sense"
               PROVE  now \div Period = period
    OBVIOUS
  <2>1. StartSensing
    <3>1. ~RequestFails /\ ~Decide /\ ~WakeUp /\ ~StopLoop /\ ~ServeUtilizations
      BY DEF RequestFails, GoToSleep, Decide, WakeUp, StopLoop, ServeUtilizations
    <3>2. ~RetryRequest /\ ~RequestStop /\ ~ReceiveBatch /\ ~ServeScalars /\ ~Tick
      BY DEF RetryRequest, RequestStop, ReceiveBatch, ServeScalars, Tick
    <3>3. ~FinishBatch /\ ~SwimEvent BY DEF FinishBatch, SwimEvent, loopVars
    <3>4. ~ServeCommand BY DEF ServeCommand, GoToSleep
    <3> QED BY <3>1, <3>2, <3>3, <3>4 DEF LoopNext, LoopStep, SwimStep
  <2>2. ~stopRequested BY <2>1 DEF StartSensing
  <2>3. now = PeriodStart /\ now \in Nat /\ period \in Nat
    BY <2>2, ScheduleFacts DEF OnSchedule, LoopTypes
  <2> QED BY <2>3, StartsInPeriod
<1> QED BY <1>1, LoopKeepsSchedule, PTL DEF LoopSpec, SensesInItsPeriod

-----------------------------------------------------------------------------
(* What the discipline rests on: SWIM reads a command in the tick it is    *)
(* sent, and a period is longer than what sense() may take -- two          *)
(* exchanges, or no time if SWIM reads all requests at once --, the        *)
(* longest decision that is not stale, and the drain of a server.          *)
CommandsArePrompt == Commands \subseteq Prompt

SensingTime == IF Requests \subseteq Prompt THEN 0 ELSE 2 * Exchanging

PeriodSuffices ==
    \A l \in Latencies : l <= Period => SensingTime + l + DrainTime < Period

(* A command exists as one copy, which the client waits for and for which  *)
(* time stands still.                                                      *)
OneCommand ==
    /\ serving # NoBatch => handling
    /\ serving.what \in Commands => pc = "act" /\ serving.open
    /\ \A i \in 1..Len(inbox) : inbox[i].what \in Commands => pc = "act" /\ inbox[i].open
    /\ pc = "act" =>
          /\ executed = 0 /\ deadline = now + Timeout
          /\ request = action
    /\ pc \in {"sense", "act"} => serving.open \/ \E i \in 1..Len(inbox) : inbox[i].open
    /\ executed <= 1

(* A removal is over before the next period starts.                        *)
DrainsInTime ==
    /\ serverRemoveInProgress > 0 =>
          pc \in {"top", "sleep", "stopped"} /\ now <= drainBy /\ drainBy < PeriodStart
    /\ pc = "act" => now + DrainTime < PeriodStart + Period

(* What was read of a pool that had no boot under way is still so.         *)
ObservationHolds ==
    /\ obs.servers \in Int /\ obs.active_servers \in Int
    /\ (request = "utilizations" \/ pc \in {"think", "act"}) /\ ~Booting =>
          ~isServerBooting /\ obs.servers = getServers
    /\ pc = "act" => IsLegal(action)

(* If SWIM reads every request at once, sense() takes no time.             *)
SensesAtOnce ==
    Requests \subseteq Prompt =>
       /\ pc = "sense" => now = PeriodStart
       /\ pc = "think" => sensedAt = PeriodStart

LoopIndInv ==
    /\ ScheduleInv /\ PoolInv
    /\ OneCommand /\ DrainsInTime /\ ObservationHolds /\ SensesAtOnce

LEMMA IndInit == LoopInit => LoopIndInv
<1> SUFFICES ASSUME LoopInit PROVE LoopIndInv OBVIOUS
<1>1. ScheduleInv BY ScheduleInit
<1>2. PoolInv BY InitPoolInv DEF LoopInit
<1>3. serving = NoBatch /\ inbox = <<>> /\ pc = "top" /\ executed = 0 /\ request = "none"
  BY DEF LoopInit
<1>4. OneCommand
  <2>1. Len(inbox) = 0 BY <1>3, EmptySeq
  <2>2. "none" \notin Commands BY DEF Commands
  <2> QED BY <1>3, <2>1, <2>2, NoBatchFacts DEF OneCommand
<1>5. DrainsInTime
  <2>1. serverRemoveInProgress = 0 BY DEF LoopInit, Init
  <2> QED BY <1>3, <2>1 DEF DrainsInTime
<1>6. ObservationHolds
  <2>1. obs.servers = 0 /\ obs.active_servers = 0 BY DEF LoopInit
  <2> QED BY <1>3, <2>1 DEF ObservationHolds
<1>7. SensesAtOnce BY <1>3 DEF SensesAtOnce
<1> QED BY <1>1, <1>2, <1>4, <1>5, <1>6, <1>7 DEF LoopIndInv

(* What every step below starts from.                                      *)
LEMMA IndFacts ==
    ASSUME LoopIndInv
    PROVE  /\ LoopTypes /\ Listening /\ Exchanges /\ OnSchedule
           /\ PoolInv /\ TypeOK /\ ~crashed /\ OneCommand /\ DrainsInTime /\ ObservationHolds
           /\ SensesAtOnce
           /\ serverRemoveInProgress \in {0, 1}
           /\ pc \in {"sense", "think", "act"} => serverRemoveInProgress = 0
           /\ \A i \in 1..Len(inbox) : inbox[i] \in Batches
           /\ inbox \in Seq(Batches) /\ Len(inbox) \in Nat
           /\ now \in Nat /\ drainBy \in Nat /\ PeriodStart \in Nat
           /\ Period \in Nat /\ Timeout \in Nat \ {0} /\ DrainTime \in Nat
           /\ "scalars" \notin Commands /\ "utilizations" \notin Commands
           /\ "none" \notin Commands
<1>1. /\ ScheduleInv /\ PoolInv /\ OneCommand /\ DrainsInTime /\ ObservationHolds
      /\ SensesAtOnce
  BY DEF LoopIndInv
<1>2. LoopTypes /\ Listening /\ Exchanges /\ OnSchedule /\ PeriodStart \in Nat
  BY <1>1, ScheduleFacts
<1>3. TypeOK /\ ~crashed BY <1>1 DEF PoolInv
<1>4. serverRemoveInProgress \in {0, 1} BY <1>1 DEF PoolInv, Steady, Growing, Shrinking
<1>5. pc \in {"sense", "think", "act"} => serverRemoveInProgress = 0
  BY <1>1, <1>4 DEF DrainsInTime
<1>6. inbox \in Seq(Batches) /\ now \in Nat /\ drainBy \in Nat BY <1>2 DEF LoopTypes
<1>7. Len(inbox) \in Nat /\ \A i \in 1..Len(inbox) : inbox[i] \in Batches
  BY <1>6, LenProperties, ElementOfSeq
<1>8. Period \in Nat /\ Timeout \in Nat \ {0} /\ DrainTime \in Nat
  BY ControlLoopAssumption DEF ControlLoopAssumption
<1>9. "scalars" \notin Commands /\ "utilizations" \notin Commands /\ "none" \notin Commands
  BY DEF Commands
<1> QED BY <1>1, <1>2, <1>3, <1>4, <1>5, <1>6, <1>7, <1>8, <1>9

(* A command meets the pool it was decided on.                             *)
LEMMA CommandIsManaged ==
    ASSUME LoopIndInv, ServeCommand
    PROVE  /\ ManagedNext /\ PoolInv' /\ ~crashed'
           /\ pc = "act" /\ serving.open /\ request' = "none"
           /\ pc' = "sleep" /\ period' = NextPeriod
           /\ serverRemoveInProgress' = 0 \/ drainBy' = now + DrainTime
<1>f. /\ Listening /\ OneCommand /\ ObservationHolds
      /\ PoolInv /\ TypeOK /\ ~crashed /\ serverRemoveInProgress \in {0, 1}
      /\ pc \in {"sense", "think", "act"} => serverRemoveInProgress = 0
  BY IndFacts
<1>1. serving.what \in Commands BY DEF ServeCommand, Commands
<1>2. /\ pc = "act" /\ serving.open /\ request = action /\ serving.what = action
      /\ serverRemoveInProgress = 0
  BY <1>f, <1>1 DEF OneCommand, Listening
<1>3. /\ IsLegal(action)
      /\ ~Booting => ~isServerBooting /\ obs.servers = getServers
  BY <1>f, <1>2 DEF ObservationHolds
<1>4. CASE serving.what = "add_server"
  <2>1. AddServer BY <1>4 DEF ServeCommand
  <2>2. ~Booting /\ obs.servers < MaxServers BY <1>2, <1>3, <1>4 DEF IsLegal
  <2>3. NothingDraining /\ IsLegalAdd BY <1>2, <1>3, <2>2 DEF NothingDraining, IsLegalAdd
  <2>4. ManagedNext BY <2>1, <2>3 DEF ManagedNext
  <2>5. PoolInv' BY <1>f, <2>4, StepPoolInv
  <2>6. ~crashed' BY <2>5 DEF PoolInv
  <2>7. serverRemoveInProgress' = 0 BY <1>2, <2>1 DEF AddServer, Crash, execVars
  <2> QED BY <1>2, <2>4, <2>5, <2>6, <2>7 DEF ServeCommand, GoToSleep
<1>5. CASE serving.what = "remove_server"
  <2>1. RemoveServer /\ drainBy' = now + DrainTime BY <1>5 DEF ServeCommand
  <2>2. ~Booting /\ obs.servers > 1 BY <1>2, <1>3, <1>5 DEF IsLegal
  <2>3. NothingDraining /\ IsLegalRemove
    BY <1>2, <1>3, <2>2 DEF NothingDraining, IsLegalRemove
  <2>4. ManagedNext BY <2>1, <2>3 DEF ManagedNext
  <2>5. PoolInv' BY <1>f, <2>4, StepPoolInv
  <2>6. ~crashed' BY <2>5 DEF PoolInv
  <2> QED BY <1>2, <2>1, <2>4, <2>5, <2>6 DEF ServeCommand, GoToSleep
<1>6. CASE serving.what = "set_dimmer"
  <2>1. SetBrownout BY <1>6 DEF ServeCommand
  <2>2. ManagedNext BY <2>1 DEF ManagedNext
  <2>3. PoolInv' BY <1>f, <2>2, StepPoolInv
  <2>4. ~crashed' BY <2>3 DEF PoolInv
  <2>5. serverRemoveInProgress' = 0 BY <1>2, <2>1 DEF SetBrownout, Crash, execVars
  <2> QED BY <1>2, <2>2, <2>3, <2>4, <2>5 DEF ServeCommand, GoToSleep
<1> QED BY <1>1, <1>4, <1>5, <1>6 DEF Commands

(* Every step of the loop is a step of the managed pool, or none of it.    *)
LEMMA LoopIsManaged == LoopIndInv /\ [LoopNext]_allVars => [ManagedNext]_vars
<1> SUFFICES ASSUME LoopIndInv, [LoopNext]_allVars PROVE ManagedNext \/ UNCHANGED vars
  OBVIOUS
<1>1. CASE ServeCommand BY <1>1, CommandIsManaged
<1>2. CASE ReceiveBatch BY <1>2 DEF ReceiveBatch, ManagedNext
<1>3. CASE FinishBatch BY <1>3 DEF FinishBatch, ManagedNext
<1>4. CASE SwimEvent BY <1>4 DEF SwimEvent, ManagedNext
<1>5. CASE StartSensing \/ RetryRequest \/ RequestFails \/ Decide \/ WakeUp \/ StopLoop
  BY <1>5 DEF StartSensing, RetryRequest, RequestFails, Decide, WakeUp, StopLoop
<1>6. CASE ServeScalars \/ ServeUtilizations \/ RequestStop \/ Tick \/ UNCHANGED allVars
  BY <1>6 DEF ServeScalars, ServeUtilizations, RequestStop, Tick, allVars
<1> QED BY <1>1, <1>2, <1>3, <1>4, <1>5, <1>6 DEF LoopNext, LoopStep, SwimStep

(* The rest of the invariant, for the steps that leave the pool alone.     *)
Driving == OneCommand /\ DrainsInTime /\ ObservationHolds /\ SensesAtOnce

LEMMA StartSensingInd == LoopIndInv /\ StartSensing => Driving'
<1> SUFFICES ASSUME LoopIndInv, StartSensing PROVE Driving' OBVIOUS
<1>f. /\ OnSchedule /\ OneCommand /\ DrainsInTime /\ ObservationHolds
      /\ serverRemoveInProgress \in {0, 1}
      /\ \A i \in 1..Len(inbox) : inbox[i] \in Batches
      /\ inbox \in Seq(Batches) /\ Len(inbox) \in Nat
      /\ now \in Nat /\ drainBy \in Nat /\ PeriodStart \in Nat /\ "scalars" \notin Commands
  BY IndFacts
<1>1. /\ pc = "top" /\ ~stopRequested /\ pc' = "sense"
      /\ inbox' = Append(inbox, [what |-> "scalars", open |-> TRUE])
      /\ request' = "scalars"
      /\ UNCHANGED <<vars, now, period, serving, obs, executed, drainBy>>
  BY DEF StartSensing, StartRequest, Exchange
<1>2. OneCommand'
  <2>1. [what |-> "scalars", open |-> TRUE] \in Batches BY DEF Batches, Requests
  <2>2. /\ Len(inbox') = Len(inbox) + 1
        /\ \A i \in 1..Len(inbox) : inbox'[i] = inbox[i]
        /\ inbox'[Len(inbox) + 1] = [what |-> "scalars", open |-> TRUE]
    BY <1>f, <1>1, <2>1, AppendProperties
  <2>3. \A i \in 1..Len(inbox) : inbox[i].what \notin Commands
    BY <1>f, <1>1 DEF OneCommand
  <2>4. inbox'[Len(inbox) + 1].what \notin Commands BY <1>f, <2>2
  <2>5. \A i \in 1..Len(inbox') : inbox'[i].what \notin Commands
    BY <1>f, <2>2, <2>3, <2>4
  <2>6. serving'.what \notin Commands /\ (serving' # NoBatch => handling')
    BY <1>f, <1>1 DEF OneCommand, vars
  <2>7. executed' <= 1 BY <1>f, <1>1 DEF OneCommand
  <2>8. Len(inbox) + 1 \in 1..Len(inbox') /\ inbox'[Len(inbox) + 1].open
    <3>1. inbox'[Len(inbox) + 1].open = TRUE BY <2>2
    <3> QED BY <1>f, <2>2, <3>1
  <2> QED BY <1>1, <2>5, <2>6, <2>7, <2>8 DEF OneCommand
<1>3. DrainsInTime'
  <2>1. now = PeriodStart BY <1>f, <1>1 DEF OnSchedule
  <2>2. ~(serverRemoveInProgress > 0) BY <1>f, <2>1 DEF DrainsInTime
  <2>3. ~(serverRemoveInProgress' > 0) BY <1>1, <2>2 DEF vars, execVars
  <2> QED BY <1>1, <2>3 DEF DrainsInTime
<1>4. ObservationHolds' BY <1>f, <1>1 DEF ObservationHolds
<1>5. SensesAtOnce'
  <2>1. now' = PeriodStart' BY <1>f, <1>1 DEF OnSchedule, PeriodStart
  <2> QED BY <1>1, <2>1 DEF SensesAtOnce
<1> QED BY <1>2, <1>3, <1>4, <1>5 DEF Driving

(* Only sense() runs into a timeout.                                       *)
LEMMA OnlySensingTimesOut == ASSUME LoopIndInv, TimedOut PROVE pc = "sense" /\ request \notin Commands
<1>f. /\ Exchanges /\ OneCommand /\ ~crashed /\ now \in Nat /\ Timeout \in Nat \ {0}
      /\ "scalars" \notin Commands /\ "utilizations" \notin Commands
  BY IndFacts
<1>1. request # "none" /\ now >= deadline BY <1>f DEF TimedOut
<1>2. pc # "act" BY <1>f, <1>1 DEF OneCommand
<1> QED BY <1>f, <1>1, <1>2 DEF Exchanges

(* A client that gives up on sense() leaves no command behind.             *)
LEMMA ClosedHoldsNoCommand ==
    ASSUME LoopIndInv, pc = "sense"
    PROVE  /\ \A i \in 1..Len(Closed(inbox)) : Closed(inbox)[i].what \notin Commands
           /\ Close(serving).what \notin Commands
           /\ Close(serving) # NoBatch => handling
<1>f. OneCommand /\ inbox \in Seq(Batches) /\ LoopTypes BY IndFacts
<1>1. \A i \in 1..Len(inbox) : inbox[i].what \notin Commands BY <1>f DEF OneCommand
<1>2. serving.what \notin Commands /\ (serving # NoBatch => handling) BY <1>f DEF OneCommand
<1>3. serving \in Batches \cup {NoBatch} BY <1>f DEF LoopTypes
<1>4. Close(serving).what = serving.what /\ (serving = NoBatch => Close(serving) = NoBatch)
  BY <1>3, ServedBatch, NoBatchFacts
<1> QED BY <1>f, <1>1, <1>2, <1>4, ClosedInbox

LEMMA RetryInd == LoopIndInv /\ RetryRequest => Driving'
<1> SUFFICES ASSUME LoopIndInv, RetryRequest PROVE Driving' OBVIOUS
<1>f. /\ SensesAtOnce /\ OneCommand /\ DrainsInTime /\ ObservationHolds /\ LoopTypes
      /\ inbox \in Seq(Batches) /\ Len(inbox) \in Nat
  BY IndFacts
<1>1. /\ TimedOut
      /\ inbox' = Append(Closed(inbox), [what |-> request, open |-> TRUE])
      /\ serving' = Close(serving)
      /\ UNCHANGED <<vars, now, pc, period, request, obs, action, executed, drainBy>>
  BY DEF RetryRequest
<1>2. pc = "sense" /\ request \notin Commands /\ request # "none"
  BY <1>1, OnlySensingTimesOut DEF TimedOut
<1>3. /\ \A i \in 1..Len(Closed(inbox)) : Closed(inbox)[i].what \notin Commands
      /\ serving'.what \notin Commands /\ (serving' # NoBatch => handling)
  BY <1>1, <1>2, ClosedHoldsNoCommand
<1>4. OneCommand'
  <2> DEFINE q == Closed(inbox)
  <2>1. q \in Seq(Batches) /\ Len(q) \in Nat BY <1>f, ClosedInbox
  <2>2. request \in Requests BY <1>f, <1>2 DEF LoopTypes
  <2>3. [what |-> request, open |-> TRUE] \in Batches BY <2>2 DEF Batches
  <2> HIDE DEF q
  <2>4. /\ Len(inbox') = Len(q) + 1
        /\ \A i \in 1..Len(q) : inbox'[i] = q[i]
        /\ inbox'[Len(q) + 1] = [what |-> request, open |-> TRUE]
    BY <1>1, <2>1, <2>3, AppendProperties DEF q
  <2>5. \A i \in 1..Len(q) : q[i].what \notin Commands BY <1>3 DEF q
  <2>6. inbox'[Len(q) + 1].what \notin Commands BY <1>2, <2>4
  <2>7. \A i \in 1..Len(inbox') : inbox'[i].what \notin Commands
    BY <2>1, <2>4, <2>5, <2>6
  <2>8. executed' <= 1 /\ handling' = handling BY <1>f, <1>1 DEF OneCommand, vars
  <2>9. Len(q) + 1 \in 1..Len(inbox') /\ inbox'[Len(q) + 1].open
    <3>1. inbox'[Len(q) + 1].open = TRUE BY <2>4
    <3> QED BY <2>1, <2>4, <3>1
  <2> QED BY <1>1, <1>2, <1>3, <2>7, <2>8, <2>9 DEF OneCommand
<1>5. DrainsInTime'
  BY <1>f, <1>1, <1>2 DEF DrainsInTime, vars, execVars, PeriodStart
<1>6. ObservationHolds'
  <2>1. UNCHANGED <<isServerBooting, getServers>>
    BY <1>1 DEF vars, modelVars, isServerBooting, getServers
  <2> QED BY <1>f, <1>1, <1>2, <2>1 DEF ObservationHolds, Booting
<1>7. SensesAtOnce' BY <1>f, <1>1, <1>2 DEF SensesAtOnce, PeriodStart
<1> QED BY <1>4, <1>5, <1>6, <1>7 DEF Driving

LEMMA FailureInd == LoopIndInv /\ RequestFails => Driving'
<1> SUFFICES ASSUME LoopIndInv, RequestFails PROVE Driving' OBVIOUS
<1>f. /\ OneCommand /\ DrainsInTime /\ ObservationHolds /\ LoopTypes
      /\ inbox \in Seq(Batches) /\ Len(inbox) \in Nat
      /\ pc \in {"sense", "think", "act"} => serverRemoveInProgress = 0
  BY IndFacts
<1>1. /\ TimedOut /\ inbox' = Closed(inbox) /\ serving' = Close(serving)
      /\ request' = "none" /\ pc' = "sleep"
      /\ UNCHANGED <<vars, now, obs, action, executed, drainBy>>
  BY DEF RequestFails, GoToSleep
<1>2. pc = "sense" BY <1>1, OnlySensingTimesOut
<1>3. /\ \A i \in 1..Len(inbox') : inbox'[i].what \notin Commands
      /\ serving'.what \notin Commands /\ (serving' # NoBatch => handling)
  BY <1>1, <1>2, ClosedHoldsNoCommand
<1>4. OneCommand'
  <2>1. executed' <= 1 /\ handling' = handling BY <1>f, <1>1 DEF OneCommand, vars
  <2> QED BY <1>1, <1>3, <2>1 DEF OneCommand
<1>5. DrainsInTime'
  <2>1. serverRemoveInProgress' = 0 BY <1>f, <1>1, <1>2 DEF vars, execVars
  <2> QED BY <1>1, <2>1 DEF DrainsInTime
<1>6. ObservationHolds' BY <1>f, <1>1 DEF ObservationHolds
<1>7. SensesAtOnce' BY <1>1 DEF SensesAtOnce
<1> QED BY <1>4, <1>5, <1>6, <1>7 DEF Driving

LEMMA DecisionInd == ASSUME PeriodSuffices, LoopIndInv, Decide PROVE Driving'
<1>f. /\ SensesAtOnce /\ OneCommand /\ DrainsInTime /\ ObservationHolds /\ LoopTypes /\ OnSchedule
      /\ inbox \in Seq(Batches) /\ Len(inbox) \in Nat
      /\ now \in Nat /\ PeriodStart \in Nat /\ Period \in Nat /\ DrainTime \in Nat
      /\ pc \in {"sense", "think", "act"} => serverRemoveInProgress = 0
      /\ "none" \notin Commands
  BY IndFacts
<1>1. PICK a \in Commands \cup {"no_op"} :
         /\ IsLegal(a) /\ action' = a /\ executed' = 0
         /\ IF a = "no_op" \/ Stale
            THEN /\ pc' = "sleep" /\ period' = NextPeriod
                 /\ UNCHANGED <<clientVars, inbox>>
            ELSE /\ inbox' = Append(inbox, [what |-> a, open |-> TRUE])
                 /\ deadline' = now + Timeout /\ request' = a
                 /\ pc' = "act" /\ UNCHANGED period
  BY DEF Decide, StartRequest, Exchange, GoToSleep
<1>2. /\ pc = "think" /\ now - sensedAt \in Latencies
      /\ UNCHANGED <<vars, now, serving, obs, drainBy>>
  BY DEF Decide
<1>3. /\ serving.what \notin Commands /\ (serving # NoBatch => handling)
      /\ \A i \in 1..Len(inbox) : inbox[i].what \notin Commands
  BY <1>f, <1>2 DEF OneCommand
<1>4. /\ serving'.what \notin Commands /\ (serving' # NoBatch => handling')
      /\ serverRemoveInProgress' = 0
      /\ UNCHANGED <<isServerBooting, getServers>>
  BY <1>f, <1>2, <1>3 DEF vars, execVars, modelVars, isServerBooting, getServers
<1>5. CASE a = "no_op" \/ Stale
  <2>1. pc' = "sleep" /\ UNCHANGED <<request, inbox>> BY <1>1, <1>5 DEF clientVars
  <2>2. OneCommand' BY <1>1, <1>3, <1>4, <2>1 DEF OneCommand
  <2>3. DrainsInTime' BY <1>4, <2>1 DEF DrainsInTime
  <2>4. request = "none" BY <1>2, IndFacts DEF Exchanges
  <2>5. ObservationHolds' BY <1>f, <1>2, <2>1, <2>4 DEF ObservationHolds
  <2>6. SensesAtOnce' BY <2>1 DEF SensesAtOnce
  <2> QED BY <2>2, <2>3, <2>5, <2>6 DEF Driving
<1>6. CASE ~(a = "no_op" \/ Stale)
  <2>1. /\ inbox' = Append(inbox, [what |-> a, open |-> TRUE])
        /\ deadline' = now + Timeout /\ request' = a /\ pc' = "act" /\ UNCHANGED period
    BY <1>1, <1>6
  <2>2. a \in Commands /\ a \in Requests BY <1>6 DEF Requests
  <2>3. [what |-> a, open |-> TRUE] \in Batches BY <2>2 DEF Batches
  <2>4. /\ Len(inbox') = Len(inbox) + 1
        /\ \A i \in 1..Len(inbox) : inbox'[i] = inbox[i]
        /\ inbox'[Len(inbox) + 1] = [what |-> a, open |-> TRUE]
    BY <1>f, <2>1, <2>3, AppendProperties
  <2>5. Len(inbox) + 1 \in 1..Len(inbox') /\ inbox'[Len(inbox) + 1].open
    <3>1. inbox'[Len(inbox) + 1].open = TRUE BY <2>4
    <3> QED BY <1>f, <2>4, <3>1
  <2>6. \A i \in 1..Len(inbox') : inbox'[i].what \in Commands => inbox'[i].open
    <3>1. \A i \in 1..Len(inbox) : inbox'[i].what \notin Commands BY <1>3, <2>4
    <3>2. \A i \in 1..Len(inbox') : i \in 1..Len(inbox) \/ i = Len(inbox) + 1
      BY <1>f, <2>4
    <3> QED BY <2>5, <3>1, <3>2
  <2>7. OneCommand'
    <3>1. executed' <= 1 /\ executed' = 0 /\ deadline' = now' + Timeout /\ request' = action'
      BY <1>1, <1>2, <2>1
    <3>2. \E i \in 1..Len(inbox') : inbox'[i].open BY <2>5
    <3> QED BY <1>4, <2>1, <2>6, <3>1, <3>2 DEF OneCommand
  <2>8. DrainsInTime'
    <3>1. /\ readAt <= PeriodStart + Exchanging /\ sensedAt <= readAt + Exchanging
          /\ sensedAt \in Nat /\ readAt \in Nat
      BY <1>f, <1>2 DEF OnSchedule, LoopTypes
    <3>2. now - sensedAt <= Period BY <1>f, <1>6, <3>1 DEF Stale
    <3>3. SensingTime + (now - sensedAt) + DrainTime < Period
      BY <1>2, <3>2 DEF PeriodSuffices
    <3>4. sensedAt <= PeriodStart + SensingTime /\ SensingTime \in Nat
      <4>1. Exchanging \in Nat BY ScheduleFacts DEF LoopIndInv
      <4>2. CASE Requests \subseteq Prompt
        BY <1>f, <1>2, <4>2 DEF SensesAtOnce, SensingTime
      <4>3. CASE ~(Requests \subseteq Prompt)
        BY <1>f, <3>1, <4>1, <4>3 DEF SensingTime
      <4> QED BY <4>2, <4>3
    <3>5. now + DrainTime < PeriodStart + Period BY <1>f, <3>1, <3>3, <3>4
    <3>6. PeriodStart' = PeriodStart BY <2>1 DEF PeriodStart
    <3> QED BY <1>2, <1>4, <3>5, <3>6 DEF DrainsInTime
  <2>9. ObservationHolds'
    <3>1. Booting' = Booting /\ IsLegal(action)' BY <1>1, <1>2 DEF Booting, IsLegal
    <3>2. ~Booting => ~isServerBooting /\ obs.servers = getServers
      BY <1>f, <1>2 DEF ObservationHolds
    <3> QED BY <1>f, <1>2, <1>4, <3>1, <3>2 DEF ObservationHolds
  <2>10. SensesAtOnce' BY <2>1 DEF SensesAtOnce
  <2> QED BY <2>7, <2>8, <2>9, <2>10 DEF Driving
<1> QED BY <1>5, <1>6

(* Waking up, stopping and being asked to stop.                            *)
LEMMA ScheduleOnlyInd ==
    ASSUME LoopIndInv,
           UNCHANGED <<vars, now, period, clientVars, inbox, serving, obs, sensedAt, action,
                       executed, drainBy>>,
           pc' = pc \/ (pc \in {"top", "sleep"} /\ pc' \in {"top", "stopped"})
    PROVE  Driving'
<1>f. SensesAtOnce /\ OneCommand /\ DrainsInTime /\ ObservationHolds /\ Exchanges BY IndFacts
<1>1. UNCHANGED <<isServerBooting, getServers, handling, serverRemoveInProgress, PeriodStart>>
  BY DEF vars, execVars, modelVars, isServerBooting, getServers, PeriodStart
<1>2. OneCommand' BY <1>f, <1>1 DEF OneCommand, clientVars
<1>3. DrainsInTime' BY <1>f, <1>1 DEF DrainsInTime
<1>4. ObservationHolds'
  <2>1. Booting' = Booting /\ (IsLegal(action)' <=> IsLegal(action)) BY DEF Booting, IsLegal
  <2>2. UNCHANGED request BY DEF clientVars
  <2> QED BY <1>f, <1>1, <2>1, <2>2 DEF ObservationHolds
<1>5. SensesAtOnce' BY <1>f, <1>1 DEF SensesAtOnce
<1> QED BY <1>2, <1>3, <1>4, <1>5 DEF Driving

LEMMA ReceiptInd == LoopIndInv /\ ReceiveBatch => Driving'
<1> SUFFICES ASSUME LoopIndInv, ReceiveBatch PROVE Driving' OBVIOUS
<1>f. /\ SensesAtOnce /\ OneCommand /\ DrainsInTime /\ ObservationHolds
      /\ inbox \in Seq(Batches) /\ Len(inbox) \in Nat
  BY IndFacts
<1>1. /\ inbox # <<>> /\ serving' = Head(inbox) /\ inbox' = Tail(inbox)
      /\ ~handling /\ handling' = TRUE
      /\ UNCHANGED <<modelVars, execVars, now, pc, period, clientVars, obs, sensedAt, action,
                     executed, drainBy>>
  BY DEF ReceiveBatch, BeginHandler
<1>2. /\ Len(inbox') = Len(inbox) - 1 /\ Len(inbox) >= 1
      /\ \A i \in 1..Len(inbox') : inbox'[i] = inbox[i + 1]
      /\ serving' = inbox[1]
  BY <1>f, <1>1, HeadTailProperties, EmptySeq
<1>3. ~serving.open BY <1>f, <1>1, NoBatchFacts DEF OneCommand
<1>4. /\ 1 \in 1..Len(inbox)
      /\ \A i \in 1..Len(inbox') : i + 1 \in 1..Len(inbox)
  BY <1>f, <1>2
<1>5. OneCommand'
  <2>1. serving'.what \in Commands => pc' = "act" /\ serving'.open
    BY <1>f, <1>1, <1>2, <1>4 DEF OneCommand
  <2>2. \A i \in 1..Len(inbox') : inbox'[i].what \in Commands => pc' = "act" /\ inbox'[i].open
    BY <1>f, <1>1, <1>2, <1>4 DEF OneCommand
  <2>3. ASSUME pc \in {"sense", "act"} PROVE serving'.open \/ \E i \in 1..Len(inbox') : inbox'[i].open
    <3>1. PICK i \in 1..Len(inbox) : inbox[i].open BY <1>f, <1>3, <2>3 DEF OneCommand
    <3>2. CASE i = 1 BY <1>2, <3>1, <3>2
    <3>3. CASE i # 1
      <4>1. i - 1 \in 1..Len(inbox') /\ (i - 1) + 1 = i BY <1>f, <1>2, <3>3
      <4> QED BY <1>2, <3>1, <4>1
    <3> QED BY <3>2, <3>3
  <2> QED BY <1>f, <1>1, <2>1, <2>2, <2>3 DEF OneCommand, clientVars
<1>6. DrainsInTime' BY <1>f, <1>1 DEF DrainsInTime, execVars, PeriodStart
<1>7. ObservationHolds'
  <2>1. Booting' = Booting /\ (IsLegal(action)' <=> IsLegal(action))
    BY <1>1 DEF Booting, IsLegal
  <2>2. UNCHANGED <<request, isServerBooting, getServers>>
    BY <1>1 DEF clientVars, modelVars, isServerBooting, getServers
  <2> QED BY <1>f, <1>1, <2>1, <2>2 DEF ObservationHolds
<1>8. SensesAtOnce' BY <1>f, <1>1 DEF SensesAtOnce, PeriodStart
<1> QED BY <1>5, <1>6, <1>7, <1>8 DEF Driving

(* SWIM is done with a request of sense() nobody listens to any more.      *)
LEMMA AbandonedInd ==
    ASSUME LoopIndInv, serving.what \notin Commands, ~serving.open, serving' = NoBatch,
           UNCHANGED <<vars, now, pc, period, clientVars, inbox, obs, sensedAt, action, executed,
                       drainBy>>
    PROVE  Driving'
<1>f. SensesAtOnce /\ OneCommand /\ DrainsInTime /\ ObservationHolds BY IndFacts
<1>1. UNCHANGED <<isServerBooting, getServers, handling, serverRemoveInProgress, PeriodStart>>
  BY DEF vars, execVars, modelVars, isServerBooting, getServers, PeriodStart
<1>2. serving'.what \notin Commands /\ serving' = NoBatch
  BY NoBatchFacts DEF Requests
<1>3. OneCommand' BY <1>f, <1>1, <1>2 DEF OneCommand, clientVars
<1>4. DrainsInTime' BY <1>f, <1>1 DEF DrainsInTime
<1>5. ObservationHolds'
  <2>1. Booting' = Booting /\ (IsLegal(action)' <=> IsLegal(action)) BY DEF Booting, IsLegal
  <2>2. UNCHANGED request BY DEF clientVars
  <2> QED BY <1>f, <1>1, <2>1, <2>2 DEF ObservationHolds
<1>6. SensesAtOnce' BY <1>f, <1>1 DEF SensesAtOnce
<1> QED BY <1>3, <1>4, <1>5, <1>6 DEF Driving

LEMMA ScalarsInd == LoopIndInv /\ ServeScalars => Driving'
<1> SUFFICES ASSUME LoopIndInv, ServeScalars PROVE Driving' OBVIOUS
<1>f. /\ SensesAtOnce /\ OneCommand /\ DrainsInTime /\ ObservationHolds /\ Listening /\ TypeOK
      /\ inbox \in Seq(Batches) /\ Len(inbox) \in Nat
      /\ "scalars" \notin Commands /\ "utilizations" \notin Commands /\ "none" \notin Commands
      /\ pc \in {"sense", "think", "act"} => serverRemoveInProgress = 0
  BY IndFacts
<1>1. /\ serving.what = "scalars" /\ serving' = NoBatch
      /\ UNCHANGED <<vars, now, pc, period, sensedAt, action, executed, drainBy>>
  BY DEF ServeScalars
<1>2. CASE serving.open
  <2>1. /\ obs' = [servers |-> getServers, active_servers |-> activeServers]
        /\ inbox' = Append(inbox, [what |-> "utilizations", open |-> TRUE])
        /\ request' = "utilizations"
    BY <1>2 DEF ServeScalars, StartRequest, Exchange
  <2>2. request = "scalars" BY <1>f, <1>1, <1>2 DEF Listening
  <2>3. pc = "sense" BY <2>2, ScheduleFacts DEF LoopIndInv
  <2>4. OneCommand'
    <3>1. [what |-> "utilizations", open |-> TRUE] \in Batches BY DEF Batches, Requests
    <3>2. /\ Len(inbox') = Len(inbox) + 1
          /\ \A i \in 1..Len(inbox) : inbox'[i] = inbox[i]
          /\ inbox'[Len(inbox) + 1] = [what |-> "utilizations", open |-> TRUE]
      BY <1>f, <2>1, <3>1, AppendProperties
    <3>3. \A i \in 1..Len(inbox) : inbox[i].what \notin Commands
      BY <1>f, <2>3 DEF OneCommand
    <3>4. inbox'[Len(inbox) + 1].what \notin Commands BY <1>f, <3>2
    <3>5. \A i \in 1..Len(inbox') : inbox'[i].what \notin Commands
      BY <1>f, <3>2, <3>3, <3>4
    <3>6. serving'.what \notin Commands /\ ~(serving' # NoBatch)
      BY <1>f, <1>1, NoBatchFacts
    <3>7. executed' <= 1 /\ pc' # "act" BY <1>f, <1>1, <2>3 DEF OneCommand
    <3>8. Len(inbox) + 1 \in 1..Len(inbox') /\ inbox'[Len(inbox) + 1].open
      <4>1. inbox'[Len(inbox) + 1].open = TRUE BY <3>2
      <4> QED BY <1>f, <3>2, <4>1
    <3> QED BY <3>5, <3>6, <3>7, <3>8 DEF OneCommand
  <2>5. DrainsInTime'
    <3>1. serverRemoveInProgress' = 0 BY <1>f, <1>1, <2>3 DEF vars, execVars
    <3> QED BY <1>1, <2>3, <3>1 DEF DrainsInTime
  <2>6. ObservationHolds'
    <3>1. obs'.servers = getServers /\ obs'.active_servers = activeServers BY <2>1
    <3>2. activeServers \in Int /\ getServers \in Int
      BY <1>f DEF TypeOK, getServers, isServerBooting
    <3>3. isServerBooting => getServers = activeServers + 1 BY DEF getServers
    <3>4. ~Booting' => ~isServerBooting BY <3>1, <3>2, <3>3 DEF Booting
    <3>5. UNCHANGED <<isServerBooting, getServers>>
      BY <1>1 DEF vars, modelVars, isServerBooting, getServers
    <3>6. pc' # "act" BY <1>1, <2>3
    <3> QED BY <3>1, <3>2, <3>4, <3>5, <3>6 DEF ObservationHolds
  <2>7. SensesAtOnce' BY <1>f, <1>1, <2>3 DEF SensesAtOnce, PeriodStart
  <2> QED BY <2>4, <2>5, <2>6, <2>7 DEF Driving
<1>3. CASE ~serving.open
  <2>1. UNCHANGED <<clientVars, inbox, obs>> BY <1>3 DEF ServeScalars
  <2>2. serving.what \notin Commands BY <1>f, <1>1
  <2> QED BY <1>1, <1>3, <2>1, <2>2, AbandonedInd
<1> QED BY <1>2, <1>3

LEMMA UtilizationsInd == LoopIndInv /\ ServeUtilizations => Driving'
<1> SUFFICES ASSUME LoopIndInv, ServeUtilizations PROVE Driving' OBVIOUS
<1>f. /\ SensesAtOnce /\ OneCommand /\ DrainsInTime /\ ObservationHolds /\ Listening
      /\ "utilizations" \notin Commands /\ "none" \notin Commands
      /\ pc \in {"sense", "think", "act"} => serverRemoveInProgress = 0
  BY IndFacts
<1>1. /\ serving.what = "utilizations" /\ serving' = NoBatch
      /\ UNCHANGED <<vars, now, period, deadline, attempt, inbox, obs, action, executed,
                     drainBy>>
  BY DEF ServeUtilizations
<1>2. CASE serving.open
  <2>1. request' = "none" /\ pc' = "think" /\ sensedAt' = now BY <1>2 DEF ServeUtilizations
  <2>2. request = "utilizations" BY <1>f, <1>1, <1>2 DEF Listening
  <2>3. pc = "sense" BY <2>2, ScheduleFacts DEF LoopIndInv
  <2>4. OneCommand'
    <3>1. \A i \in 1..Len(inbox) : inbox[i].what \notin Commands
      BY <1>f, <2>3 DEF OneCommand
    <3>2. serving'.what \notin Commands /\ ~(serving' # NoBatch)
      BY <1>f, <1>1, NoBatchFacts
    <3>3. executed' <= 1 BY <1>f, <1>1 DEF OneCommand
    <3> QED BY <1>1, <2>1, <3>1, <3>2, <3>3 DEF OneCommand
  <2>5. DrainsInTime'
    <3>1. serverRemoveInProgress' = 0 BY <1>f, <1>1, <2>3 DEF vars, execVars
    <3> QED BY <2>1, <3>1 DEF DrainsInTime
  <2>6. ObservationHolds'
    <3>1. UNCHANGED <<isServerBooting, getServers>> /\ Booting' = Booting
      BY <1>1 DEF vars, modelVars, isServerBooting, getServers, Booting
    <3> QED BY <1>f, <1>1, <2>1, <2>2, <3>1 DEF ObservationHolds
  <2>7. SensesAtOnce' BY <1>f, <1>1, <2>1, <2>3 DEF SensesAtOnce, PeriodStart
  <2> QED BY <2>4, <2>5, <2>6, <2>7 DEF Driving
<1>3. CASE ~serving.open
  <2>1. UNCHANGED <<request, pc, sensedAt>> BY <1>3 DEF ServeUtilizations
  <2>2. UNCHANGED clientVars BY <1>1, <2>1 DEF clientVars
  <2>3. serving.what \notin Commands BY <1>f, <1>1
  <2> QED BY <1>1, <1>3, <2>1, <2>2, <2>3, AbandonedInd
<1> QED BY <1>2, <1>3

LEMMA CommandInd == LoopIndInv /\ ServeCommand => Driving'
<1> SUFFICES ASSUME LoopIndInv, ServeCommand PROVE Driving' OBVIOUS
<1>f. /\ OneCommand /\ DrainsInTime /\ ObservationHolds /\ Listening /\ LoopTypes
      /\ "none" \notin Commands /\ now \in Nat /\ DrainTime \in Nat
      /\ PeriodStart \in Nat /\ Period \in Nat
  BY IndFacts
<1>1. /\ serving' = NoBatch /\ executed' = executed + 1
      /\ UNCHANGED <<now, inbox, obs>>
  BY DEF ServeCommand
<1>2. /\ pc = "act" /\ serving.open /\ request' = "none" /\ pc' = "sleep"
      /\ period' = NextPeriod
      /\ serverRemoveInProgress' = 0 \/ drainBy' = now + DrainTime
  BY CommandIsManaged
<1>3. OneCommand'
  <2>1. \A i \in 1..Len(inbox) : inbox[i].what \notin Commands
    BY <1>f, <1>2 DEF OneCommand, Listening
  <2>2. serving'.what \notin Commands /\ ~(serving' # NoBatch) BY <1>f, <1>1, NoBatchFacts
  <2>3. executed' <= 1 BY <1>f, <1>1, <1>2 DEF OneCommand
  <2> QED BY <1>1, <1>2, <2>1, <2>2, <2>3 DEF OneCommand
<1>4. DrainsInTime'
  <2>1. now + DrainTime < PeriodStart + Period BY <1>f, <1>2 DEF DrainsInTime
  <2>2. PeriodStart + Period <= NextPeriod * Period /\ NextPeriod \in Nat
    BY <1>f, NextPeriodIsLater DEF LoopTypes
  <2>3. PeriodStart' = NextPeriod * Period BY <1>2 DEF PeriodStart
  <2>4. PeriodStart' \in Nat BY <1>f, <2>2, <2>3
  <2>5. drainBy' = now + DrainTime => now' <= drainBy' /\ drainBy' < PeriodStart'
    BY <1>f, <1>1, <2>1, <2>2, <2>3, <2>4
  <2> QED BY <1>2, <2>5 DEF DrainsInTime
<1>5. ObservationHolds' BY <1>f, <1>1, <1>2 DEF ObservationHolds
<1>6. SensesAtOnce' BY <1>2 DEF SensesAtOnce
<1> QED BY <1>3, <1>4, <1>5, <1>6 DEF Driving

LEMMA FinishInd == LoopIndInv /\ FinishBatch => Driving'
<1> SUFFICES ASSUME LoopIndInv, FinishBatch PROVE Driving' OBVIOUS
<1>f. SensesAtOnce /\ OneCommand /\ DrainsInTime /\ ObservationHolds BY IndFacts
<1>1. serving = NoBatch /\ UNCHANGED <<modelVars, execVars, loopVars>>
  BY DEF FinishBatch, EndHandler
<1>2. UNCHANGED <<isServerBooting, getServers, serverRemoveInProgress, PeriodStart>>
  BY <1>1 DEF execVars, modelVars, isServerBooting, getServers, PeriodStart, loopVars
<1>3. OneCommand' BY <1>f, <1>1 DEF OneCommand, loopVars, clientVars
<1>4. DrainsInTime' BY <1>f, <1>1, <1>2 DEF DrainsInTime, loopVars
<1>5. ObservationHolds'
  <2>1. Booting' = Booting /\ (IsLegal(action)' <=> IsLegal(action))
    BY <1>1 DEF Booting, IsLegal, loopVars
  <2> QED BY <1>f, <1>1, <1>2, <2>1 DEF ObservationHolds, loopVars, clientVars
<1>6. SensesAtOnce' BY <1>f, <1>1, <1>2 DEF SensesAtOnce, loopVars
<1> QED BY <1>3, <1>4, <1>5, <1>6 DEF Driving

(* An event of SWIM ends a boot or a removal and starts none.              *)
LEMMA EventInd == LoopIndInv /\ SwimEvent => Driving'
<1> SUFFICES ASSUME LoopIndInv, SwimEvent PROVE Driving' OBVIOUS
<1>f. /\ SensesAtOnce /\ OneCommand /\ DrainsInTime /\ ObservationHolds /\ PoolInv /\ TypeOK
      /\ serverRemoveInProgress \in {0, 1}
      /\ pc \in {"sense", "think", "act"} => serverRemoveInProgress = 0
  BY IndFacts
<1>1. Event /\ UNCHANGED loopVars BY DEF SwimEvent
<1>2. UNCHANGED handling
  BY <1>1 DEF Event, CompleteRemove, Arrive, BootComplete, ServerTurnsIdle,
              ServerTurnsWaiting, QueuedJobArrives, Crash
<1>3. serverRemoveInProgress' > 0 => serverRemoveInProgress > 0
  <2>1. CASE CompleteRemove BY <1>f, <2>1 DEF CompleteRemove, Crash, execVars
  <2>2. CASE ~CompleteRemove
    <3>1. serverRemoveInProgress' = serverRemoveInProgress
      BY <1>1, <2>2 DEF Event, Arrive, BootComplete, ServerTurnsIdle, ServerTurnsWaiting,
                        QueuedJobArrives, Crash, execVars
    <3> QED BY <3>1
  <2> QED BY <2>1, <2>2
<1>4. ASSUME serverRemoveInProgress = 0, ~isServerBooting
      PROVE  UNCHANGED <<isServerBooting, getServers>>
  <2>1. pendingMessages = {} /\ completeRemoveMsgs = 0
    BY <1>f, <1>4 DEF PoolInv, Steady, Growing, Shrinking, isServerBooting
  <2>2. UNCHANGED <<activeServers, events>>
    BY <1>1, <2>1 DEF Event, CompleteRemove, Arrive, BootComplete, ServerTurnsIdle,
                      ServerTurnsWaiting, QueuedJobArrives, Crash, modelVars
  <2> QED BY <2>2 DEF isServerBooting, getServers
<1>5. OneCommand' BY <1>f, <1>1, <1>2 DEF OneCommand, loopVars, clientVars
<1>6. DrainsInTime' BY <1>f, <1>1, <1>3 DEF DrainsInTime, loopVars, PeriodStart
<1>7. ObservationHolds'
  <2>1. Booting' = Booting /\ (IsLegal(action)' <=> IsLegal(action))
    BY <1>1 DEF Booting, IsLegal, loopVars
  <2>2. UNCHANGED <<obs, pc, request, action>> BY <1>1 DEF loopVars, clientVars
  <2>3. request = "utilizations" => pc = "sense" BY ScheduleFacts DEF LoopIndInv
  <2>4. ASSUME request = "utilizations" \/ pc \in {"think", "act"}, ~Booting
        PROVE  ~isServerBooting' /\ obs.servers = getServers'
    <3>1. ~isServerBooting /\ obs.servers = getServers BY <1>f, <2>4 DEF ObservationHolds
    <3>2. serverRemoveInProgress = 0 BY <1>f, <2>3, <2>4
    <3> QED BY <1>4, <3>1, <3>2
  <2> QED BY <1>f, <2>1, <2>2, <2>4 DEF ObservationHolds
<1>8. SensesAtOnce' BY <1>f, <1>1 DEF SensesAtOnce, loopVars, PeriodStart
<1> QED BY <1>5, <1>6, <1>7, <1>8 DEF Driving

(* A command that SWIM reads promptly leaves time no chance.               *)
LEMMA TickInd == ASSUME CommandsArePrompt, LoopIndInv, Tick PROVE Driving'
<1>f. /\ SensesAtOnce /\ OneCommand /\ DrainsInTime /\ ObservationHolds /\ Listening /\ Exchanges
      /\ ~crashed /\ now \in Nat /\ drainBy \in Nat
      /\ inbox \in Seq(Batches) /\ Len(inbox) \in Nat
  BY IndFacts
<1>1. /\ ~handling /\ ~PromptWaits /\ now' = now + 1
      /\ serverRemoveInProgress > 0 => now < drainBy
      /\ UNCHANGED <<vars, pc, period, clientVars, inbox, serving, obs, sensedAt, action,
                     executed, drainBy>>
  BY <1>f DEF Tick
<1>2. /\ pc # "act"
      /\ Requests \subseteq Prompt => pc # "sense"
  <2> SUFFICES ASSUME pc \in {"sense", "act"}
               PROVE  request \notin Prompt
    BY <1>f DEF Exchanges, CommandsArePrompt, Requests
  <2>1. ~serving.open BY <1>f, <1>1, NoBatchFacts DEF OneCommand
  <2>2. PICK i \in 1..Len(inbox) : inbox[i].open BY <1>f, <2>1 DEF OneCommand
  <2>3. inbox[i].what = request BY <1>f, <2>2 DEF Listening
  <2>4. i \in DOMAIN inbox BY <1>f, LenProperties
  <2> QED BY <1>1, <2>3, <2>4 DEF PromptWaits
<1>3. UNCHANGED <<isServerBooting, getServers, handling, serverRemoveInProgress, PeriodStart>>
  BY <1>1 DEF vars, execVars, modelVars, isServerBooting, getServers, PeriodStart
<1>4. OneCommand' BY <1>f, <1>1, <1>2, <1>3 DEF OneCommand
<1>5. DrainsInTime' BY <1>f, <1>1, <1>2, <1>3 DEF DrainsInTime
<1>6. ObservationHolds'
  <2>1. Booting' = Booting BY <1>1 DEF Booting
  <2>2. UNCHANGED request BY <1>1 DEF clientVars
  <2> QED BY <1>f, <1>1, <1>2, <1>3, <2>1, <2>2 DEF ObservationHolds
<1>7. SensesAtOnce' BY <1>f, <1>1, <1>2, <1>3 DEF SensesAtOnce
<1> QED BY <1>4, <1>5, <1>6, <1>7 DEF Driving

LEMMA IndStep ==
    ASSUME CommandsArePrompt, PeriodSuffices
    PROVE  LoopIndInv /\ [LoopNext]_allVars => LoopIndInv'
<1> SUFFICES ASSUME LoopIndInv, [LoopNext]_allVars PROVE LoopIndInv' OBVIOUS
<1>s. ScheduleInv' BY ScheduleStep DEF LoopIndInv
<1>p. PoolInv'
  <2>1. ManagedNext \/ UNCHANGED vars BY LoopIsManaged
  <2> QED BY <2>1, StepPoolInv DEF LoopIndInv
<1>d. Driving'
  <2>1. CASE StartSensing BY <2>1, StartSensingInd
  <2>2. CASE RetryRequest BY <2>2, RetryInd
  <2>3. CASE RequestFails BY <2>3, FailureInd
  <2>4. CASE Decide BY <2>4, DecisionInd
  <2>5. CASE WakeUp \/ StopLoop \/ RequestStop \/ UNCHANGED allVars
    <3>1. /\ UNCHANGED <<vars, now, period, clientVars, inbox, serving, obs, sensedAt,
                         action, executed, drainBy>>
          /\ pc' = pc \/ (pc \in {"top", "sleep"} /\ pc' \in {"top", "stopped"})
      BY <2>5 DEF WakeUp, StopLoop, RequestStop, allVars, loopVars
    <3> QED BY <3>1, ScheduleOnlyInd
  <2>6. CASE ReceiveBatch BY <2>6, ReceiptInd
  <2>7. CASE ServeScalars BY <2>7, ScalarsInd
  <2>8. CASE ServeUtilizations BY <2>8, UtilizationsInd
  <2>9. CASE ServeCommand BY <2>9, CommandInd
  <2>10. CASE FinishBatch BY <2>10, FinishInd
  <2>11. CASE SwimEvent BY <2>11, EventInd
  <2>12. CASE Tick BY <2>12, TickInd
  <2> QED BY <2>1, <2>2, <2>3, <2>4, <2>5, <2>6, <2>7, <2>8, <2>9, <2>10, <2>11, <2>12
          DEF LoopNext, LoopStep, SwimStep
<1> QED BY <1>s, <1>p, <1>d DEF LoopIndInv, Driving

-----------------------------------------------------------------------------
THEOREM LoopIndHolds ==
    ASSUME CommandsArePrompt, PeriodSuffices PROVE LoopSpec => []LoopIndInv
<1>1. LoopInit => LoopIndInv BY IndInit
<1>2. LoopIndInv /\ [LoopNext]_allVars => LoopIndInv' BY IndStep
<1> QED BY <1>1, <1>2, PTL DEF LoopSpec

(* SWIM survives the loop, and executes each decided action at most once.  *)
THEOREM LoopHolds ==
    ASSUME CommandsArePrompt, PeriodSuffices PROVE LoopSpec => []LoopInv
<1>1. LoopIndInv => LoopInv
  <2> SUFFICES ASSUME LoopIndInv PROVE LoopInv OBVIOUS
  <2>1. /\ LoopTypes /\ TypeOK /\ ~crashed /\ OneCommand /\ ObservationHolds
        /\ inbox \in Seq(Batches)
    BY IndFacts
  <2>2. \A i \in DOMAIN inbox : inbox[i] \in Batches
    BY <2>1, LenProperties, ElementOfSeq
  <2>3. LoopTypeOK BY <2>1, <2>2 DEF LoopTypeOK, LoopTypes, ObservationHolds
  <2>4. NeverCrashes /\ ExecutedAtMostOnce
    BY <2>1 DEF NeverCrashes, ExecutedAtMostOnce, OneCommand
  <2> QED BY <2>3, <2>4 DEF LoopInv
<1>2. LoopSpec => []LoopIndInv BY LoopIndHolds
<1> QED BY <1>1, <1>2, PTL

(* Every scaling command is executed on a pool for which it is legal and   *)
(* that is not draining.                                                   *)
THEOREM LoopKeepsDiscipline ==
    ASSUME CommandsArePrompt, PeriodSuffices PROVE LoopSpec => KeepsDiscipline
<1>1. LoopInit => Init BY DEF LoopInit
<1>2. LoopIndInv /\ [LoopNext]_allVars => [ManagedNext]_vars BY LoopIsManaged
<1>3. LoopSpec => []LoopIndInv BY LoopIndHolds
<1> QED BY <1>1, <1>2, <1>3, PTL DEF LoopSpec, KeepsDiscipline, ManagedSpec

(* What is_legal allows and the loop sends, SWIM accepts.                  *)
THEOREM LegalCommandsAccepted ==
    ASSUME CommandsArePrompt, PeriodSuffices PROVE LoopSpec => LegalIsAccepted
<1> DEFINE Accepted == action # "no_op" /\ crashed' => crashed
<1>1. LoopIndInv' => [Accepted]_allVars
  <2> SUFFICES ASSUME LoopIndInv' PROVE Accepted OBVIOUS
  <2>1. ~crashed' BY DEF LoopIndInv, PoolInv
  <2> QED BY <2>1
<1>2. LoopSpec => []LoopIndInv BY LoopIndHolds
<1> QED BY <1>1, <1>2, PTL DEF LegalIsAccepted

(* So the pool the loop drives does what ElasticPool promises.             *)
COROLLARY LoopDrivesElasticPool ==
    ASSUME CommandsArePrompt, PeriodSuffices
    PROVE  LoopSpec => ImplementsElasticPool /\ NoJobLost /\ []ModelMatchesModules
BY LoopKeepsDiscipline, ManagedImplementsElastic, ManagedNoJobLost, ManagedModelMatches, PTL
   DEF KeepsDiscipline
=============================================================================
