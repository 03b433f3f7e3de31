------------------------- MODULE PolarisServicesProofs -------------------------
(***************************************************************************)
(* For every deployment, every bound and every way the tasks interleave:   *)
(* what ActionInv says of the way of an action, and that no command ends   *)
(* SWIM whose preconditions were checked against a settled pool. Then what *)
(* PolarisServices states of the NLA server, the reasoner that asks a      *)
(* language model once, and the NATS client, for every set of requests,    *)
(* decisions, subjects and tasks.                                          *)
(***************************************************************************)
EXTENDS PolarisServices, SequenceTheorems, FiniteSetTheorems, TLAPS

-----------------------------------------------------------------------------
(* What a sequence holds, and how that changes.                            *)

Elems(q) == {q[k] : k \in DOMAIN q}
Increasing(q) == \A j, k \in DOMAIN q : j < k => q[j] < q[k]

LEMMA ElemsEmpty == Elems(<<>>) = {} /\ Increasing(<<>>)
  BY DEF Elems, Increasing

LEMMA ElemsAppend ==
    ASSUME NEW S, NEW q \in Seq(S), NEW x \in S
    PROVE  Append(q, x) \in Seq(S) /\ Elems(Append(q, x)) = Elems(q) \cup {x}
           /\ Len(Append(q, x)) = Len(q) + 1
<1>1. /\ Append(q, x) \in Seq(S) /\ Len(Append(q, x)) = Len(q) + 1 /\ Len(q) \in Nat
      /\ \A k \in 1..Len(q) : Append(q, x)[k] = q[k]
      /\ Append(q, x)[Len(q) + 1] = x
      /\ DOMAIN q = 1..Len(q) /\ DOMAIN Append(q, x) = 1..(Len(q) + 1)
  OBVIOUS
<1> QED BY <1>1 DEF Elems

LEMMA ElemsTail ==
    ASSUME NEW S, NEW q \in Seq(S), q # <<>>
    PROVE  /\ Head(q) \in S /\ Tail(q) \in Seq(S) /\ Len(Tail(q)) = Len(q) - 1
           /\ Elems(q) = Elems(Tail(q)) \cup {Head(q)}
<1>1. /\ Head(q) = q[1] /\ Tail(q) \in Seq(S) /\ Len(Tail(q)) = Len(q) - 1 /\ Len(q) \in Nat /\ Len(q) >= 1
      /\ \A k \in 1..(Len(q) - 1) : Tail(q)[k] = q[k + 1]
      /\ DOMAIN q = 1..Len(q) /\ DOMAIN Tail(q) = 1..(Len(q) - 1)
  OBVIOUS
<1>2. \A k \in 1..Len(q) : k = 1 \/ (k - 1 \in 1..(Len(q) - 1) /\ Tail(q)[k - 1] = q[k])
  BY <1>1
<1>3. \A k \in 1..(Len(q) - 1) : k + 1 \in 1..Len(q) BY <1>1
<1>4. Elems(q) \subseteq Elems(Tail(q)) \cup {Head(q)}
  <2> SUFFICES ASSUME NEW k \in 1..Len(q) PROVE q[k] \in Elems(Tail(q)) \cup {Head(q)}
    BY <1>1 DEF Elems
  <2>1. CASE k = 1 BY <1>1, <2>1
  <2>2. CASE k # 1 BY <1>1, <1>2, <2>2 DEF Elems
  <2> QED BY <2>1, <2>2
<1>5. Elems(Tail(q)) \cup {Head(q)} \subseteq Elems(q) BY <1>1, <1>3 DEF Elems
<1> QED BY <1>1, <1>4, <1>5

LEMMA ElemsConcat ==
    ASSUME NEW S, NEW q \in Seq(S), NEW s \in Seq(S)
    PROVE  q \o s \in Seq(S) /\ Elems(q \o s) = Elems(q) \cup Elems(s) /\ Len(q \o s) = Len(q) + Len(s)
<1>1. /\ q \o s \in Seq(S) /\ Len(q \o s) = Len(q) + Len(s) /\ Len(q) \in Nat /\ Len(s) \in Nat
      /\ \A k \in 1..(Len(q) + Len(s)) : (q \o s)[k] = IF k <= Len(q) THEN q[k] ELSE s[k - Len(q)]
      /\ DOMAIN q = 1..Len(q) /\ DOMAIN s = 1..Len(s) /\ DOMAIN (q \o s) = 1..(Len(q) + Len(s))
  BY ConcatProperties
<1>2. Elems(q \o s) \subseteq Elems(q) \cup Elems(s)
  <2> SUFFICES ASSUME NEW k \in 1..(Len(q) + Len(s)) PROVE (q \o s)[k] \in Elems(q) \cup Elems(s)
    BY <1>1 DEF Elems
  <2>1. CASE k <= Len(q) BY <1>1, <2>1 DEF Elems
  <2>2. CASE ~(k <= Len(q))
    <3>1. k - Len(q) \in 1..Len(s) BY <1>1, <2>2
    <3> QED BY <1>1, <2>2, <3>1 DEF Elems
  <2> QED BY <2>1, <2>2
<1>3. Elems(q) \subseteq Elems(q \o s)
  <2>1. \A k \in 1..Len(q) : k \in 1..(Len(q) + Len(s)) /\ (q \o s)[k] = q[k] BY <1>1
  <2> QED BY <1>1, <2>1 DEF Elems
<1>4. Elems(s) \subseteq Elems(q \o s)
  <2> SUFFICES ASSUME NEW k \in 1..Len(s) PROVE s[k] \in Elems(q \o s) BY <1>1 DEF Elems
  <2>1. k + Len(q) \in 1..(Len(q) + Len(s)) /\ ~(k + Len(q) <= Len(q)) /\ (k + Len(q)) - Len(q) = k BY <1>1
  <2>2. (q \o s)[k + Len(q)] = s[k] BY <1>1, <2>1
  <2> QED BY <1>1, <2>1, <2>2 DEF Elems
<1> QED BY <1>1, <1>2, <1>3, <1>4

LEMMA ElemsType ==
    ASSUME NEW S, NEW q \in Seq(S)
    PROVE  Elems(q) \subseteq S /\ DOMAIN q = 1..Len(q) /\ Len(q) \in Nat /\ (Elems(q) = {} => q = <<>>)
  BY DEF Elems

LEMMA IncreasingAppend ==
    ASSUME NEW q \in Seq(Actions), NEW x \in Actions, Increasing(q), \A y \in Elems(q) : y < x
    PROVE  Increasing(Append(q, x))
<1>1. /\ Len(q) \in Nat /\ \A k \in 1..Len(q) : Append(q, x)[k] = q[k] /\ q[k] \in Elems(q)
      /\ Append(q, x)[Len(q) + 1] = x
      /\ DOMAIN q = 1..Len(q) /\ DOMAIN Append(q, x) = 1..(Len(q) + 1)
  BY DEF Elems
<1> SUFFICES ASSUME NEW j \in 1..(Len(q) + 1), NEW k \in 1..(Len(q) + 1), j < k
             PROVE  Append(q, x)[j] < Append(q, x)[k]
  BY <1>1 DEF Increasing
<1>2. j \in 1..Len(q) BY <1>1
<1>3. CASE k = Len(q) + 1 BY <1>1, <1>2, <1>3
<1>4. CASE k \in 1..Len(q) BY <1>1, <1>2, <1>4 DEF Increasing
<1> QED BY <1>1, <1>3, <1>4

LEMMA IncreasingTail ==
    ASSUME NEW q \in Seq(Actions), q # <<>>, Increasing(q)
    PROVE  Increasing(Tail(q)) /\ \A y \in Elems(Tail(q)) : Head(q) < y
<1>1. /\ Head(q) = q[1] /\ Len(q) \in Nat /\ Len(q) >= 1
      /\ \A k \in 1..(Len(q) - 1) : Tail(q)[k] = q[k + 1] /\ k + 1 \in 1..Len(q)
      /\ DOMAIN q = 1..Len(q) /\ DOMAIN Tail(q) = 1..(Len(q) - 1)
  OBVIOUS
<1>2. Increasing(Tail(q)) BY <1>1 DEF Increasing
<1>3. \A y \in Elems(Tail(q)) : Head(q) < y BY <1>1 DEF Increasing, Elems
<1> QED BY <1>2, <1>3

-----------------------------------------------------------------------------
(* The inductive invariant                                                 *)

ActionType == [type : Types, source : {"fast_controller", "reasoner"}]
CopyType == [action : Actions, open : BOOLEAN]
Commands == {"ADD_SERVER", "REMOVE_SERVER", "SET_DIMMER"}
Busy == {"check", "send", "wait", "succeeded", "failed"}

KernelFits ==
    /\ controller \in {"none", "fast", "slow"}
    /\ sinceFast \in 0..FastCooldown /\ sinceSlow \in 0..SlowCooldown
    /\ violation_counter \in 0..(PersistenceCount - 1)
    /\ temp_dimmer \in 0..TempDimmerTimeout \cup {Off}
    /\ requests \in 0..MaxRequests /\ thinking \in BOOLEAN /\ verifierUp \in BOOLEAN

WorkTypes ==
    /\ setup \in Setups
    /\ serving \in 0..MaxServers /\ reported \in 0..MaxServers
    /\ change \in {"none", "growing", "shrinking"} /\ crashed \in BOOLEAN
    /\ Len(acts) <= MaxActions /\ Len(action_queue) <= QueueSize
    /\ step \in Busy \cup {"get", "ended"} /\ attempt \in 0..MaxRetries
    /\ running \in BOOLEAN /\ calm \in BOOLEAN /\ stopping \in {"no", "draining", "stopped"}
    /\ executed \in [Actions -> Nat]
    /\ result \in [Actions -> {"none", "pending", "succeeded", "failed"}]

(* Whatever is under way is the index of an action that was published.     *)
IndicesFit ==
    /\ acts \in Seq(ActionType)
    /\ toVerify \in Seq(Actions) /\ toExecute \in Seq(Actions) /\ action_queue \in Seq(Actions)
    /\ socket \in Seq(CopyType)
    /\ Elems(toVerify) \cup Elems(toExecute) \cup Elems(action_queue) \subseteq DOMAIN acts
    /\ \A c \in Elems(socket) : c.action \in DOMAIN acts
    /\ verifying \in DOMAIN acts \cup {0}
    /\ IF step \in Busy THEN current \in DOMAIN acts ELSE current = 0

(* What ElasticPool says of the pool.                                      *)
PoolFits ==
    /\ reported = serving + (IF change = "none" THEN 0 ELSE 1)
    /\ serving >= 1 /\ reported <= MaxServers

(* The worker sends commands, and only its last one may be heard of.       *)
WorkerFits ==
    /\ step \in {"send", "wait"} => acts[current].type \in Commands
    /\ \A c \in Elems(socket) : acts[c.action].type \in Commands
    /\ \A k \in DOMAIN socket :
          socket[k].open => k = Len(socket) /\ step = "wait" /\ socket[k].action = current
    /\ stopping = "stopped" => step = "ended"

(* What an action went through is in its result.                           *)
ResultsFit ==
    /\ \A i \in Actions \ DOMAIN acts : result[i] = "none" /\ executed[i] = 0
    /\ \A i \in Elems(action_queue) : result[i] # "none"
    /\ \A c \in Elems(socket) : result[c.action] # "none"
    /\ current # 0 => result[current] # "none"
    /\ step = "succeeded" /\ acts[current].type # "NO_ACTION" => executed[current] >= 1

(* In a settled pool, what is about to reach SWIM was checked against it.  *)
CalmFits ==
    calm =>
        /\ change = "none"
        /\ \A c \in Elems(socket) : Precondition(acts[c.action].type)
        /\ step \in {"send", "wait"} => Precondition(acts[current].type)

(* What was rejected is not executed.                                      *)
Spared(config, t) ==
    \A k \in DOMAIN Constraints(config) :
        Constraints(config)[k].severity = "critical"
        => Evaluates(Constraints(config)[k].id, VerificationRequest(t)) # "fails"

ApprovedFits ==
    setup.enable_verification =>
       \A i \in DOMAIN acts :
          /\ acts[i].source = "reasoner"
          /\ executed[i] > 0 \/ result[i] # "none" \/ i \in Elems(toExecute)
          => Spared(setup.constraints, acts[i].type)

(* A prompt deployment without a reasoner: an action is under way once,    *)
(* in the order of publication, and an ADD_SERVER is the last of them and  *)
(* finds the pool settled.                                                 *)
Pending == Elems(toExecute) \cup Elems(action_queue)
           \cup (IF step \in {"check", "send", "wait"} THEN {current} ELSE {})

InOrder ==
    /\ Increasing(toExecute) /\ Increasing(action_queue)
    /\ \A q \in Elems(action_queue) : current < q /\ \A t \in Elems(toExecute) : q < t
    /\ \A t \in Elems(toExecute) : current < t
    /\ \A i \in Pending : acts[i].type = "ADD_SERVER" => i = Len(acts) /\ change = "none"

FastAlone == ~setup.reasoner /\ setup.prompt

FastFits ==
    FastAlone =>
        /\ ~crashed /\ change # "shrinking"
        /\ toVerify = <<>> /\ verifying = 0 /\ requests = 0 /\ ~thinking
        /\ \A i \in DOMAIN acts : acts[i].type \in {"SET_DIMMER", "ADD_SERVER"}
        /\ socket = IF step = "wait" THEN <<[action |-> current, open |-> TRUE]>> ELSE <<>>
        /\ step # "ended" => InOrder
        /\ step \in {"send", "wait"} => Precondition(acts[current].type)

ActionIndInv ==
    /\ KernelFits /\ WorkTypes /\ IndicesFit /\ PoolFits /\ WorkerFits /\ ResultsFit
    /\ CalmFits /\ ApprovedFits /\ FastFits /\ SuccessWasExecuted

LEMMA ActionIndImplies == ActionIndInv => ActionInv
<1> SUFFICES ASSUME ActionIndInv PROVE ActionInv OBVIOUS
<1>1. KernelFits /\ WorkTypes /\ IndicesFit /\ ApprovedFits /\ FastFits /\ SuccessWasExecuted
  BY DEF ActionIndInv
<1>2. TypeOK
  <2>1. DOMAIN acts \subseteq Actions BY <1>1, PolarisActionsAssumption DEF IndicesFit, WorkTypes, Actions
  <2>2. verifying \in Actions \cup {0} /\ current \in Actions \cup {0} BY <1>1, <2>1 DEF IndicesFit
  <2>3. \A i \in DOMAIN acts : acts[i] \in ActionType BY <1>1 DEF IndicesFit
  <2>4. \A q \in {toVerify, toExecute, action_queue} : \A i \in DOMAIN q : q[i] \in Actions
    BY <1>1 DEF IndicesFit
  <2>5. \A i \in DOMAIN socket : socket[i] \in CopyType BY <1>1 DEF IndicesFit
  <2> QED BY <1>1, <2>2, <2>3, <2>4, <2>5 DEF TypeOK, KernelFits, WorkTypes, Busy, ActionType, CopyType
<1>3. OnlyApprovedReachExecution
  BY <1>1 DEF OnlyApprovedReachExecution, ApprovedFits, Spared, Elems
<1>4. FastPathDisciplined BY <1>1 DEF FastPathDisciplined, FastFits, FastAlone
<1> QED BY <1>1, <1>2, <1>3, <1>4 DEF ActionInv

LEMMA ActionInitInd == Init => ActionIndInv
<1> SUFFICES ASSUME Init PROVE ActionIndInv OBVIOUS
<1> USE PolarisActionsAssumption
<1>1. /\ acts = <<>> /\ toVerify = <<>> /\ toExecute = <<>> /\ action_queue = <<>> /\ socket = <<>>
      /\ serving = InitialServers /\ reported = InitialServers /\ change = "none"
  BY DEF Init, Swim!Init
<1>2. KernelFits
  <2>1. /\ sinceFast \in 0..FastCooldown /\ sinceSlow \in 0..SlowCooldown
        /\ violation_counter \in 0..(PersistenceCount - 1) /\ requests \in 0..MaxRequests
    BY DEF Init
  <2> QED BY <2>1 DEF Init, KernelFits
<1>3. WorkTypes
  <2>1. serving \in 0..MaxServers /\ reported \in 0..MaxServers /\ attempt \in 0..MaxRetries
    BY <1>1 DEF Init
  <2>2. executed \in [Actions -> Nat] /\ result \in [Actions -> {"none", "pending", "succeeded", "failed"}]
    BY DEF Init
  <2>3. Len(acts) <= MaxActions /\ Len(action_queue) <= QueueSize BY <1>1
  <2> QED BY <1>1, <2>1, <2>2, <2>3 DEF Init, WorkTypes
<1>4. IndicesFit BY <1>1, ElemsEmpty DEF Init, IndicesFit, Busy
<1>5. PoolFits BY <1>1 DEF PoolFits
<1>6. WorkerFits BY <1>1, ElemsEmpty DEF Init, WorkerFits
<1>7. ResultsFit BY <1>1, ElemsEmpty DEF Init, ResultsFit
<1>8. CalmFits /\ ApprovedFits /\ SuccessWasExecuted
  BY <1>1, ElemsEmpty DEF Init, CalmFits, ApprovedFits, SuccessWasExecuted
<1>9. FastFits BY <1>1, ElemsEmpty DEF Init, FastFits, InOrder, Pending
<1> QED BY <1>2, <1>3, <1>4, <1>5, <1>6, <1>7, <1>8, <1>9 DEF ActionIndInv

-----------------------------------------------------------------------------
(* Steps that leave the way of the actions alone.                          *)

LEMMA QuietAction ==
    ASSUME ActionIndInv, KernelFits',
           UNCHANGED <<setup, swimVars, crashed, acts, toExecute, action_queue, workerVars, socket, outcomeVars>>,
           toVerify' \in Seq(Actions), Elems(toVerify') \subseteq Elems(toVerify),
           verifying' \in DOMAIN acts \cup {0},
           running' \in BOOLEAN, stopping' \in {stopping, "draining"},
           FastAlone => toVerify' = <<>> /\ verifying' = 0 /\ requests' = 0 /\ ~thinking'
    PROVE  ActionIndInv'
<1>1. /\ KernelFits /\ WorkTypes /\ IndicesFit /\ PoolFits /\ WorkerFits /\ ResultsFit
      /\ CalmFits /\ ApprovedFits /\ FastFits /\ SuccessWasExecuted
  BY DEF ActionIndInv
<1>2. UNCHANGED <<setup, serving, reported, change, crashed, acts, toExecute, action_queue,
                  step, current, attempt, socket, executed, result, calm>>
  BY DEF swimVars, workerVars, outcomeVars
<1>3. WorkTypes' BY <1>1, <1>2 DEF WorkTypes
<1>4. IndicesFit' BY <1>1, <1>2 DEF IndicesFit
<1>5. PoolFits' BY <1>1, <1>2 DEF PoolFits
<1>6. WorkerFits' BY <1>1, <1>2 DEF WorkerFits
<1>7. ResultsFit' BY <1>1, <1>2 DEF ResultsFit
<1>8. CalmFits' BY <1>1, <1>2 DEF CalmFits, Precondition
<1>9. ApprovedFits' /\ SuccessWasExecuted' BY <1>1, <1>2 DEF ApprovedFits, SuccessWasExecuted
<1>10. FastFits' BY <1>1, <1>2 DEF FastFits, FastAlone, InOrder, Pending, Precondition
<1> QED BY <1>3, <1>4, <1>5, <1>6, <1>7, <1>8, <1>9, <1>10 DEF ActionIndInv

LEMMA AgedFits ==
    ASSUME NEW l \in Nat, NEW p \in 0..l PROVE Aged(p, l) \in 0..l
  BY DEF Aged

LEMMA OlderFits ==
    ASSUME temp_dimmer \in 0..TempDimmerTimeout \cup {Off}
    PROVE  Older(temp_dimmer) \in 0..TempDimmerTimeout \cup {Off}
  BY PolarisActionsAssumption, AgedFits DEF Older

LEMMA QuietSteps ==
    ASSUME ActionIndInv,
           \/ NormalTelemetry \/ BatchTelemetry \/ StartReasoning
           \/ StartVerification \/ StopVerification \/ RequestStop \/ UNCHANGED vars
    PROVE  ActionIndInv'
<1> USE PolarisActionsAssumption
<1>1. /\ KernelFits /\ WorkTypes /\ IndicesFit /\ FastFits
  BY DEF ActionIndInv
<1>2. UNCHANGED <<setup, swimVars, crashed, acts, toExecute, action_queue, workerVars, socket, outcomeVars>>
  BY DEF NormalTelemetry, BatchTelemetry, StartReasoning, StartVerification, StopVerification, RequestStop,
         executorVars, vars
<1>3. running' \in BOOLEAN /\ stopping' \in {stopping, "draining"}
  BY <1>1 DEF NormalTelemetry, BatchTelemetry, StartReasoning, StartVerification, StopVerification, RequestStop,
         executorVars, vars, WorkTypes
<1>4. KernelFits'
  <2>1. sinceSlow' \in 0..SlowCooldown /\ sinceFast' \in 0..FastCooldown
    <3>1. /\ Aged(sinceFast, FastCooldown) \in 0..FastCooldown /\ sinceFast \in 0..FastCooldown
          /\ Aged(sinceSlow, SlowCooldown) \in 0..SlowCooldown /\ sinceSlow \in 0..SlowCooldown
          /\ Aged(0, SlowCooldown) \in 0..SlowCooldown
      BY <1>1, AgedFits DEF KernelFits
    <3> QED BY <3>1 DEF NormalTelemetry, BatchTelemetry, StartReasoning, StartVerification,
                        StopVerification, RequestStop, kernelVars, vars
  <2>2. temp_dimmer' \in 0..TempDimmerTimeout \cup {Off}
    BY <1>1, OlderFits DEF NormalTelemetry, BatchTelemetry, StartReasoning, StartVerification, StopVerification,
         RequestStop, kernelVars, vars, KernelFits
  <2>3. requests' \in 0..MaxRequests
    BY <1>1 DEF NormalTelemetry, BatchTelemetry, StartReasoning, StartVerification, StopVerification,
         RequestStop, reasonerVars, vars, KernelFits
  <2>4. controller' \in {"none", "fast", "slow"} /\ UNCHANGED violation_counter
        /\ thinking' \in BOOLEAN /\ verifierUp' \in BOOLEAN
    BY <1>1 DEF NormalTelemetry, BatchTelemetry, StartReasoning, StartVerification, StopVerification,
         RequestStop, reasonerVars, kernelVars, verifierVars, vars, KernelFits
  <2> QED BY <1>1, <2>1, <2>2, <2>3, <2>4 DEF KernelFits
<1>5. /\ toVerify' \in Seq(Actions) /\ Elems(toVerify') \subseteq Elems(toVerify)
      /\ verifying' \in DOMAIN acts \cup {0}
  <2>1. CASE UNCHANGED toVerify /\ verifying' \in {verifying, 0} BY <1>1, <2>1 DEF IndicesFit
  <2>2. CASE StartVerification
    <3>1. /\ toVerify # <<>> /\ toVerify' = Tail(toVerify) /\ verifying' = Head(toVerify)
          /\ toVerify \in Seq(Actions) /\ Elems(toVerify) \subseteq DOMAIN acts
      BY <1>1, <2>2 DEF StartVerification, IndicesFit
    <3> QED BY <3>1, ElemsTail
  <2> QED BY <2>1, <2>2 DEF NormalTelemetry, BatchTelemetry, StartReasoning, StopVerification, RequestStop,
                           verifierVars, vars
<1>6. FastAlone => toVerify' = <<>> /\ verifying' = 0 /\ requests' = 0 /\ ~thinking'
  BY <1>1 DEF FastFits, FastAlone, NormalTelemetry, BatchTelemetry, StartReasoning, StartVerification,
              StopVerification, RequestStop, verifierVars, reasonerVars, vars, KernelFits
<1> QED BY <1>2, <1>3, <1>4, <1>5, <1>6, QuietAction

-----------------------------------------------------------------------------
(* Actions are published.                                                  *)

LEMMA PublishFacts ==
    ASSUME IndicesFit, NEW types \in Seq(Types), NEW source \in {"fast_controller", "reasoner"},
           Publish(types, source), Len(acts) + Len(types) <= MaxActions
    PROVE  /\ acts' \in Seq(ActionType) /\ Len(acts') = Len(acts) + Len(types)
           /\ DOMAIN acts = 1..Len(acts) /\ DOMAIN acts' = 1..(Len(acts) + Len(types))
           /\ Len(acts) \in Nat /\ Len(types) \in Nat
           /\ \A i \in 1..Len(acts) : acts'[i] = acts[i]
           /\ \A i \in DOMAIN types : acts'[Len(acts) + i] = [type |-> types[i], source |-> source]
           /\ Published(types) \in Seq(Actions)
           /\ Elems(Published(types)) = (Len(acts) + 1)..(Len(acts) + Len(types))
           /\ Increasing(Published(types))
<1> USE PolarisActionsAssumption
<1> DEFINE new == [i \in DOMAIN types |-> [type |-> types[i], source |-> source]]
           n == Len(acts)
           m == Len(types)
<1>1. acts \in Seq(ActionType) /\ n \in Nat /\ m \in Nat /\ DOMAIN types = 1..m /\ DOMAIN acts = 1..n
  BY DEF IndicesFit
<1>2. new \in Seq(ActionType) /\ Len(new) = m
  <2>1. new \in [1..m -> ActionType] BY <1>1 DEF ActionType
  <2> HIDE DEF new
  <2> QED BY <1>1, <2>1, SeqDef, LenProperties
<1>3. /\ acts' = acts \o new /\ acts' \in Seq(ActionType) /\ Len(acts') = n + m
      /\ \A i \in 1..(n + m) : acts'[i] = IF i <= n THEN acts[i] ELSE new[i - n]
  <2>1. acts' = acts \o new BY DEF Publish
  <2> HIDE DEF new
  <2>2. PICK a, b \in Seq(ActionType) : a = acts /\ b = new BY <1>1, <1>2
  <2>3. /\ a \o b \in Seq(ActionType) /\ Len(a \o b) = Len(a) + Len(b)
        /\ \A i \in 1..(Len(a) + Len(b)) : (a \o b)[i] = IF i <= Len(a) THEN a[i] ELSE b[i - Len(a)]
    BY ConcatProperties
  <2>4. Len(a) = n /\ Len(b) = m BY <1>1, <1>2, <2>2
  <2> QED BY <2>1, <2>2, <2>3, <2>4
<1>4. \A i \in 1..n : acts'[i] = acts[i] BY <1>1, <1>3
<1>5. ASSUME NEW i \in DOMAIN types PROVE acts'[n + i] = [type |-> types[i], source |-> source]
  <2>1. n + i \in 1..(n + m) /\ ~(n + i <= n) /\ (n + i) - n = i BY <1>1
  <2>2. acts'[n + i] = new[i] BY <1>3, <2>1
  <2> QED BY <2>2
<1>6. Published(types) = [i \in 1..m |-> n + i] BY <1>1 DEF Published
<1>7. Published(types) \in Seq(Actions) /\ DOMAIN Published(types) = 1..m
  <2>1. \A i \in 1..m : n + i \in Actions BY <1>1 DEF Actions
  <2>2. Published(types) \in [1..m -> Actions] BY <1>6, <2>1
  <2> QED BY <1>1, <2>2, SeqDef
<1>8. Elems(Published(types)) = (n + 1)..(n + m)
  <2>1. \A i \in 1..m : n + i \in (n + 1)..(n + m) BY <1>1
  <2>2. \A j \in (n + 1)..(n + m) : j - n \in 1..m /\ n + (j - n) = j BY <1>1
  <2>3. Elems(Published(types)) = {n + i : i \in 1..m} BY <1>6, <1>7 DEF Elems
  <2> QED BY <2>1, <2>2, <2>3
<1>9. Increasing(Published(types)) BY <1>1, <1>6, <1>7 DEF Increasing
<1>10. DOMAIN acts' = 1..(n + m) BY <1>1, <1>3
<1> QED BY <1>1, <1>3, <1>4, <1>5, <1>7, <1>8, <1>9, <1>10

(* What is published is under way to execution, or to verification first.  *)
LEMMA PublishInd ==
    ASSUME ActionIndInv, KernelFits', NEW types \in Seq(Types), NEW source \in {"fast_controller", "reasoner"},
           Publish(types, source), Len(acts) + Len(types) <= MaxActions,
           UNCHANGED <<setup, swimVars, crashed, verifying, action_queue, workerVars, running, stopping,
                       socket, outcomeVars>>,
           \/ /\ toExecute' = toExecute \o Published(types) /\ UNCHANGED toVerify
              /\ setup.enable_verification => source = "fast_controller"
           \/ toVerify' = toVerify \o Published(types) /\ UNCHANGED toExecute /\ ~FastAlone,
           FastAlone =>
              /\ requests' = 0 /\ ~thinking'
              /\ \A i \in DOMAIN types : types[i] \in {"SET_DIMMER", "ADD_SERVER"}
                                        /\ (types[i] = "ADD_SERVER" => i = Len(types))
              /\ step # "ended" => toExecute = <<>> /\ action_queue = <<>> /\ step = "get" /\ change = "none"
    PROVE  ActionIndInv'
<1> USE PolarisActionsAssumption
<1>1. /\ KernelFits /\ WorkTypes /\ IndicesFit /\ PoolFits /\ WorkerFits /\ ResultsFit
      /\ CalmFits /\ ApprovedFits /\ FastFits /\ SuccessWasExecuted
  BY DEF ActionIndInv
<1>2. UNCHANGED <<setup, serving, reported, change, crashed, verifying, action_queue, running, stopping,
                  step, current, attempt, socket, executed, result, calm>>
  BY DEF swimVars, workerVars, outcomeVars
<1> DEFINE n == Len(acts)
           m == Len(types)
<1>3. /\ acts' \in Seq(ActionType) /\ Len(acts') = n + m /\ n \in Nat /\ m \in Nat
      /\ DOMAIN acts = 1..n /\ DOMAIN acts' = 1..(n + m)
      /\ \A i \in 1..n : acts'[i] = acts[i]
      /\ \A i \in DOMAIN types : acts'[n + i] = [type |-> types[i], source |-> source]
      /\ Published(types) \in Seq(Actions) /\ Elems(Published(types)) = (n + 1)..(n + m)
      /\ Increasing(Published(types))
  BY <1>1, PublishFacts
<1> HIDE DEF n, m
<1>4. DOMAIN acts \subseteq DOMAIN acts' /\ (n + 1)..(n + m) \subseteq DOMAIN acts' BY <1>3
<1>5. /\ toVerify' \in Seq(Actions) /\ toExecute' \in Seq(Actions)
      /\ \/ Elems(toExecute') = Elems(toExecute) \cup (n + 1)..(n + m) /\ UNCHANGED toVerify
            /\ toExecute' = toExecute \o Published(types)
            /\ (setup.enable_verification => source = "fast_controller")
         \/ Elems(toVerify') = Elems(toVerify) \cup (n + 1)..(n + m) /\ UNCHANGED toExecute /\ ~FastAlone
  <2>1. toVerify \in Seq(Actions) /\ toExecute \in Seq(Actions) BY <1>1 DEF IndicesFit
  <2>2. \A q \in Seq(Actions) : q \o Published(types) \in Seq(Actions)
                              /\ Elems(q \o Published(types)) = Elems(q) \cup (n + 1)..(n + m)
    BY <1>3, ElemsConcat
  <2> QED BY <2>1, <2>2
<1>6. WorkTypes' BY <1>1, <1>2, <1>3 DEF WorkTypes, n, m
<1>7. IndicesFit' BY <1>1, <1>2, <1>3, <1>4, <1>5 DEF IndicesFit
<1>8. PoolFits' BY <1>1, <1>2 DEF PoolFits
<1>a. \A i \in DOMAIN acts : acts'[i] = acts[i] BY <1>3
<1>b. step \in Busy => current \in DOMAIN acts BY <1>1 DEF IndicesFit
<1>c. \A c \in Elems(socket) : c.action \in DOMAIN acts BY <1>1 DEF IndicesFit
<1>9. WorkerFits'
  <2>1. step \in {"send", "wait"} => acts'[current].type \in Commands
    BY <1>1, <1>a, <1>b DEF WorkerFits, Busy
  <2>2. \A c \in Elems(socket) : acts'[c.action].type \in Commands BY <1>1, <1>a, <1>c DEF WorkerFits
  <2> QED BY <1>1, <1>2, <2>1, <2>2 DEF WorkerFits
<1>10. ResultsFit'
  <2>1. step = "succeeded" /\ acts'[current].type # "NO_ACTION" => executed[current] >= 1
    BY <1>1, <1>a, <1>b DEF ResultsFit, Busy
  <2> QED BY <1>1, <1>2, <1>4, <2>1 DEF ResultsFit
<1>11. CalmFits'
  <2>1. calm => \A c \in Elems(socket) : Precondition(acts[c.action].type)'
    BY <1>1, <1>2, <1>a, <1>c DEF CalmFits, Precondition
  <2>2. calm /\ step \in {"send", "wait"} => Precondition(acts[current].type)'
    BY <1>1, <1>2, <1>a, <1>b DEF CalmFits, Precondition, Busy
  <2> QED BY <1>1, <1>2, <2>1, <2>2 DEF CalmFits
<1>d. \A i \in DOMAIN acts' \ DOMAIN acts : i - n \in DOMAIN types /\ i = n + (i - n)
      /\ i \in Actions /\ result[i] = "none" /\ executed[i] = 0
      /\ acts'[i] = [type |-> types[i - n], source |-> source]
  <2>1. DOMAIN types = 1..m BY DEF m
  <2>2. \A i \in DOMAIN acts' : i \in Actions BY <1>3, <1>6 DEF WorkTypes, Actions
  <2> SUFFICES ASSUME NEW i \in DOMAIN acts' \ DOMAIN acts
               PROVE  i - n \in DOMAIN types /\ i = n + (i - n)
                      /\ i \in Actions /\ result[i] = "none" /\ executed[i] = 0
                      /\ acts'[i] = [type |-> types[i - n], source |-> source]
    OBVIOUS
  <2>3. i - n \in DOMAIN types /\ i = n + (i - n) BY <1>3, <2>1
  <2>4. acts'[n + (i - n)] = [type |-> types[i - n], source |-> source] BY <1>3, <2>3
  <2> QED BY <1>1, <2>2, <2>3, <2>4 DEF ResultsFit
<1>12. ApprovedFits'
  <2> SUFFICES ASSUME setup.enable_verification, NEW i \in DOMAIN acts', acts'[i].source = "reasoner",
                      executed[i] > 0 \/ result[i] # "none" \/ i \in Elems(toExecute')
               PROVE  Spared(setup.constraints, acts'[i].type)
    BY <1>2 DEF ApprovedFits
  <2>1. CASE i \in DOMAIN acts
    <3>1. i \in Elems(toExecute') => i \in Elems(toExecute) BY <1>3, <1>5, <2>1
    <3> QED BY <1>1, <1>a, <2>1, <3>1 DEF ApprovedFits
  <2>2. CASE i \notin DOMAIN acts
    <3>1. acts'[i].source = source BY <1>3, <1>d, <2>2
    <3>2. source = "reasoner" /\ i \in Elems(toExecute') BY <1>d, <2>2, <3>1
    <3>3. UNCHANGED toExecute BY <1>5, <3>2
    <3> QED BY <1>1, <2>2, <3>2, <3>3 DEF IndicesFit
  <2> QED BY <2>1, <2>2
<1>13. SuccessWasExecuted'
  <2>1. \A i \in DOMAIN acts : result[i] = "succeeded" /\ acts'[i].type # "NO_ACTION" => executed[i] >= 1
    BY <1>1, <1>a DEF SuccessWasExecuted
  <2> QED BY <1>2, <1>d, <2>1 DEF SuccessWasExecuted
<1>14. FastFits'
  <2> SUFFICES ASSUME FastAlone PROVE FastFits' BY <1>2 DEF FastFits, FastAlone
  <2>1. /\ ~crashed /\ change # "shrinking" /\ toVerify = <<>> /\ verifying = 0
        /\ \A i \in DOMAIN acts : acts[i].type \in {"SET_DIMMER", "ADD_SERVER"}
        /\ socket = IF step = "wait" THEN <<[action |-> current, open |-> TRUE]>> ELSE <<>>
        /\ step \in {"send", "wait"} => Precondition(acts[current].type)
    BY <1>1 DEF FastFits
  <2>2. toExecute' = toExecute \o Published(types) /\ UNCHANGED toVerify BY <1>5
  <2>3. ASSUME NEW i \in DOMAIN acts' PROVE acts'[i].type \in {"SET_DIMMER", "ADD_SERVER"}
    <3>1. CASE i \in DOMAIN acts BY <1>a, <2>1, <3>1
    <3>2. CASE i \notin DOMAIN acts BY <1>3, <1>d, <3>2
    <3> QED BY <3>1, <3>2
  <2>4. step \in {"send", "wait"} => Precondition(acts[current].type)'
    BY <1>2, <1>a, <1>b, <2>1 DEF Precondition, Busy
  <2>5. ASSUME step # "ended" PROVE InOrder'
    <3>1. toExecute = <<>> /\ action_queue = <<>> /\ step = "get" /\ change = "none" /\ current = 0
      BY <1>1, <2>5 DEF IndicesFit, Busy
    <3>2. toExecute' = Published(types) BY <1>3, <2>2, <3>1, ElemsConcat
    <3>3. Elems(toExecute') = (n + 1)..(n + m) /\ Elems(action_queue') = {} /\ action_queue' = <<>>
      BY <1>2, <1>3, <3>1, <3>2, ElemsEmpty
    <3>4. Increasing(toExecute') /\ Increasing(action_queue') BY <1>3, <3>2, <3>3, ElemsEmpty
    <3>5. \A t \in Elems(toExecute') : current' < t BY <1>2, <1>3, <3>1, <3>3
    <3>6. ASSUME NEW i \in Pending', acts'[i].type = "ADD_SERVER" PROVE i = n + m
      <4>1. i \in (n + 1)..(n + m) BY <1>2, <3>1, <3>3 DEF Pending
      <4>2. i \in DOMAIN acts' \ DOMAIN acts BY <1>3, <4>1
      <4>3. types[i - n] = "ADD_SERVER" BY <1>3, <1>d, <3>6, <4>2
      <4>4. i - n = m BY <1>d, <4>2, <4>3 DEF m
      <4> QED BY <1>3, <4>1, <4>4
    <3>7. \A i \in Pending' : acts'[i].type = "ADD_SERVER" => i = Len(acts') /\ change' = "none"
      BY <1>2, <1>3, <3>1, <3>6
    <3> QED BY <3>3, <3>4, <3>5, <3>7 DEF InOrder
  <2> QED BY <1>2, <2>1, <2>2, <2>3, <2>4, <2>5 DEF FastFits
<1> QED BY <1>6, <1>7, <1>8, <1>9, <1>10, <1>11, <1>12, <1>13, <1>14 DEF ActionIndInv

LEMMA HighTelemetryInd == ASSUME ActionIndInv, HighTelemetry PROVE ActionIndInv'
<1> USE PolarisActionsAssumption
<1>1. /\ KernelFits /\ WorkTypes /\ IndicesFit /\ PoolFits /\ WorkerFits /\ FastFits
  BY DEF ActionIndInv
<1>2. /\ UNCHANGED <<setup, swimVars, crashed, requests, thinking, toVerify, verifying, verifierUp,
                     action_queue, workerVars, running, stopping, socket, outcomeVars>>
      /\ FastPath /\ (setup.prompt => PipelineIdle) /\ Len(acts) + 2 <= setup.actions
      /\ sinceFast' = Aged(IF ActsFast THEN 0 ELSE sinceFast, FastCooldown)
      /\ sinceSlow' = Aged(sinceSlow, SlowCooldown)
  BY DEF HighTelemetry, reasonerVars, verifierVars
<1>3. KernelFits'
  <2>1. sinceFast' \in 0..FastCooldown
    <3>1. (IF ActsFast THEN 0 ELSE sinceFast) \in 0..FastCooldown BY <1>1 DEF KernelFits
    <3> QED BY <1>2, <3>1, AgedFits
  <2>2. sinceSlow' \in 0..SlowCooldown BY <1>1, <1>2, AgedFits DEF KernelFits
  <2>3. temp_dimmer' \in 0..TempDimmerTimeout \cup {Off}
    <3>1. Older(temp_dimmer) \in 0..TempDimmerTimeout \cup {Off} BY <1>1, OlderFits DEF KernelFits
    <3>2. Aged(0, TempDimmerTimeout) \in 0..TempDimmerTimeout \cup {Off} BY AgedFits
    <3> QED BY <1>2, <3>1, <3>2 DEF FastPath
  <2>4. controller' \in {"none", "fast", "slow"} BY <1>1, <1>2 DEF FastPath, KernelFits
  <2>5. violation_counter' \in 0..(PersistenceCount - 1) BY <1>1, <1>2 DEF FastPath, KernelFits
  <2> QED BY <1>1, <1>2, <2>1, <2>2, <2>3, <2>4, <2>5 DEF KernelFits
<1>4. \/ UNCHANGED <<acts, toExecute>>
      \/ /\ AllServersActive /\ Publish(HighResponseTimeActions, "fast_controller")
         /\ toExecute' = toExecute \o Published(HighResponseTimeActions)
  BY <1>2 DEF FastPath
<1>5. FastAlone => toVerify' = <<>> /\ verifying' = 0 /\ requests' = 0 /\ ~thinking'
  BY <1>1, <1>2 DEF FastFits
<1>6. CASE UNCHANGED <<acts, toExecute>>
  <2>1. toVerify' \in Seq(Actions) /\ Elems(toVerify') \subseteq Elems(toVerify) /\ verifying' \in DOMAIN acts \cup {0}
    BY <1>1, <1>2 DEF IndicesFit
  <2>2. running' \in BOOLEAN /\ stopping' \in {stopping, "draining"} BY <1>1, <1>2 DEF WorkTypes
  <2> QED BY <1>2, <1>3, <1>5, <1>6, <2>1, <2>2, QuietAction
<1>7. CASE /\ AllServersActive /\ Publish(HighResponseTimeActions, "fast_controller")
           /\ toExecute' = toExecute \o Published(HighResponseTimeActions)
  <2> DEFINE h == HighResponseTimeActions
  <2>1. /\ h \in Seq(Types) /\ Len(h) <= 2 /\ DOMAIN h = 1..Len(h)
        /\ \A i \in DOMAIN h : h[i] \in {"SET_DIMMER", "ADD_SERVER"} /\ (h[i] = "ADD_SERVER" => i = Len(h))
    <3>1. h \in {<<"SET_DIMMER">>, <<"ADD_SERVER">>, <<"SET_DIMMER", "ADD_SERVER">>}
      BY DEF HighResponseTimeActions
    <3>2. CASE h = <<"SET_DIMMER">> BY <3>2 DEF Types
    <3>3. CASE h = <<"ADD_SERVER">> BY <3>3 DEF Types
    <3>4. CASE h = <<"SET_DIMMER", "ADD_SERVER">>
      <4>1. h \in Seq(Types) /\ Len(h) = 2 /\ h[1] = "SET_DIMMER" /\ h[2] = "ADD_SERVER" /\ DOMAIN h = 1..2
        BY <3>4 DEF Types
      <4> QED BY <4>1
    <3> HIDE DEF h
    <3> QED BY <3>1, <3>2, <3>3, <3>4
  <2>2. Len(acts) + Len(h) <= MaxActions
    <3>1. Len(acts) \in Nat /\ setup.actions \in 0..MaxActions /\ Len(acts) + 2 <= setup.actions
      BY <1>1, <1>2 DEF IndicesFit, WorkTypes, SetupType
    <3>2. Len(h) \in Nat /\ Len(h) <= 2 BY <2>1
    <3> HIDE DEF h
    <3> QED BY <3>1, <3>2
  <2>3. ASSUME FastAlone, step # "ended"
        PROVE  toExecute = <<>> /\ action_queue = <<>> /\ step = "get" /\ change = "none"
    <3>1. stopping # "stopped" BY <1>1, <2>3 DEF WorkerFits
    <3>2. toExecute = <<>> /\ action_queue = <<>> /\ step = "get"
      BY <1>2, <2>3, <3>1 DEF FastAlone, PipelineIdle
    <3>3. change # "shrinking" BY <1>1, <2>3 DEF FastFits
    <3>4. change = "none" BY <1>1, <1>7, <3>3 DEF AllServersActive, active_servers, PoolFits, WorkTypes
    <3> QED BY <3>2, <3>4
  <2> HIDE DEF h
  <2>4. Publish(h, "fast_controller") /\ toExecute' = toExecute \o Published(h) /\ UNCHANGED toVerify
    BY <1>2, <1>7 DEF h
  <2> QED BY <1>2, <1>3, <1>5, <2>1, <2>2, <2>3, <2>4, PublishInd
<1> QED BY <1>4, <1>6, <1>7

LEMMA FinishReasoningInd == ASSUME ActionIndInv, FinishReasoning PROVE ActionIndInv'
<1> USE PolarisActionsAssumption
<1>1. /\ KernelFits /\ WorkTypes /\ IndicesFit /\ FastFits
  BY DEF ActionIndInv
<1>2. /\ thinking /\ thinking' = FALSE
      /\ UNCHANGED <<setup, swimVars, crashed, controller, sinceFast, sinceSlow, violation_counter, temp_dimmer,
                     requests, verifying, verifierUp, action_queue, workerVars, running, stopping, socket,
                     outcomeVars>>
  BY DEF FinishReasoning, kernelVars
<1>3. KernelFits' BY <1>1, <1>2 DEF KernelFits
<1>4. ~FastAlone BY <1>1, <1>2 DEF FastFits
<1>5. CASE UNCHANGED <<acts, toVerify, toExecute>>
  <2>1. toVerify' \in Seq(Actions) /\ Elems(toVerify') \subseteq Elems(toVerify) /\ verifying' \in DOMAIN acts \cup {0}
    BY <1>1, <1>2, <1>5 DEF IndicesFit
  <2>2. running' \in BOOLEAN /\ stopping' \in {stopping, "draining"} BY <1>1, <1>2 DEF WorkTypes
  <2> QED BY <1>2, <1>3, <1>4, <1>5, <2>1, <2>2, QuietAction
<1>6. ASSUME NEW t \in Types, PublishAction(t), Len(acts) < setup.actions PROVE ActionIndInv'
  <2>1. <<t>> \in Seq(Types) /\ Len(<<t>>) = 1 OBVIOUS
  <2>2. Len(acts) + Len(<<t>>) <= MaxActions
    <3>1. Len(acts) \in Nat /\ setup.actions \in 0..MaxActions
      BY <1>1 DEF IndicesFit, WorkTypes, SetupType
    <3> QED BY <1>6, <2>1, <3>1
  <2>3. /\ Publish(<<t>>, "reasoner")
        /\ \/ toExecute' = toExecute \o Published(<<t>>) /\ UNCHANGED toVerify /\ ~setup.enable_verification
           \/ toVerify' = toVerify \o Published(<<t>>) /\ UNCHANGED toExecute
    BY <1>6 DEF PublishAction
  <2> QED BY <1>2, <1>3, <1>4, <2>1, <2>2, <2>3, PublishInd
<1> QED BY <1>5, <1>6 DEF FinishReasoning

-----------------------------------------------------------------------------
(* Verification                                                            *)

(* A critical constraint that fails is a critical violation; a message     *)
(* that is no action becomes one of a type no constraint is about.         *)
LEMMA ApprovedIsSpared ==
    ASSUME NEW t \in Types, Approved(t)
    PROVE  Spared(setup.constraints, IF t = "malformed" THEN "other" ELSE t)
<1> DEFINE config == setup.constraints
           r == VerificationRequest(t)
<1>1. ASSUME NEW k \in DOMAIN Constraints(config), Constraints(config)[k].severity = "critical",
             Evaluates(Constraints(config)[k].id, r) = "fails"
      PROVE  FALSE
  <2> DEFINE c == Constraints(config)[k]
  <2>1. Violation(c, r) = {c} BY <1>1 DEF Violation
  <2>2. c \in ConstraintViolations(config, r) BY <2>1 DEF ConstraintViolations
  <2>3. c \in Violations(config, r) BY <2>2 DEF Violations
  <2>4. c \in OfSeverity(Violations(config, r), "critical") BY <1>1, <2>3 DEF OfSeverity
  <2> QED BY <2>4 DEF Approved, Verdict
<1>2. CASE t # "malformed" BY <1>1, <1>2 DEF Spared
<1>3. CASE t = "malformed"
  <2>1. VerificationRequest("other").type = "other" BY DEF VerificationRequest, Transformed
  <2>2. \A id : Evaluates(id, VerificationRequest("other")) # "fails" BY <2>1 DEF Evaluates, Holds
  <2> QED BY <1>3, <2>2 DEF Spared
<1> QED BY <1>2, <1>3

LEMMA FinishVerificationInd == ASSUME ActionIndInv, FinishVerification PROVE ActionIndInv'
<1> USE PolarisActionsAssumption
<1>1. /\ KernelFits /\ WorkTypes /\ IndicesFit /\ PoolFits /\ WorkerFits /\ ResultsFit
      /\ CalmFits /\ ApprovedFits /\ FastFits /\ SuccessWasExecuted
  BY DEF ActionIndInv
<1>2. /\ verifying # 0 /\ verifying' = 0
      /\ UNCHANGED <<setup, swimVars, crashed, kernelVars, reasonerVars, toVerify, verifierUp, action_queue,
                     workerVars, running, stopping, socket, outcomeVars>>
  BY DEF FinishVerification
<1>3. ~FastAlone /\ verifying \in DOMAIN acts BY <1>1, <1>2 DEF FastFits, IndicesFit
<1>4. KernelFits' BY <1>1, <1>2 DEF KernelFits, kernelVars, reasonerVars
<1>5. CASE UNCHANGED <<acts, toExecute>>
  <2>1. toVerify' \in Seq(Actions) /\ Elems(toVerify') \subseteq Elems(toVerify) /\ verifying' \in DOMAIN acts \cup {0}
    BY <1>1, <1>2, <1>5 DEF IndicesFit
  <2>2. running' \in BOOLEAN /\ stopping' \in {stopping, "draining"} BY <1>1, <1>2 DEF WorkTypes
  <2> QED BY <1>2, <1>3, <1>4, <1>5, <2>1, <2>2, QuietAction
<1> DEFINE v == verifying
           t == acts[v].type
           t2 == IF t = "malformed" THEN "other" ELSE t
<1>6. CASE Approved(t) /\ acts' = [acts EXCEPT ![v].type = t2] /\ toExecute' = Append(toExecute, v)
  <2>1. t \in Types /\ t2 \in Types /\ acts[v] \in ActionType
    <3>1. acts[v] \in ActionType BY <1>1, <1>3 DEF IndicesFit
    <3>2. t \in Types BY <3>1 DEF ActionType
    <3>3. "other" \in Types BY DEF Types
    <3> QED BY <3>1, <3>2, <3>3
  <2>2. Spared(setup.constraints, t2) BY <1>6, <2>1, ApprovedIsSpared
  <2>3. acts' = [acts EXCEPT ![v] = [acts[v] EXCEPT !.type = t2]] BY <1>6
  <2>4. [acts[v] EXCEPT !.type = t2] \in ActionType /\ [acts[v] EXCEPT !.type = t2].type = t2
        /\ [acts[v] EXCEPT !.type = t2].source = acts[v].source
    BY <2>1 DEF ActionType
  <2>5. /\ acts' \in Seq(ActionType) /\ Len(acts') = Len(acts) /\ DOMAIN acts' = DOMAIN acts
        /\ \A i \in DOMAIN acts : i # v => acts'[i] = acts[i]
        /\ acts'[v].type = t2 /\ acts'[v].source = acts[v].source
    <3> DEFINE e == [acts[v] EXCEPT !.type = t2]
    <3>1. acts' = [acts EXCEPT ![v] = e] BY <2>3
    <3>2. e \in ActionType /\ e.type = t2 /\ e.source = acts[v].source BY <2>4
    <3>3. acts \in Seq(ActionType) /\ v \in DOMAIN acts BY <1>1, <1>3 DEF IndicesFit
    <3> HIDE DEF e, v, t2
    <3> QED BY <3>1, <3>2, <3>3
  <2>6. \A i \in DOMAIN acts : acts'[i].source = acts[i].source
                             /\ (acts'[i].type = acts[i].type
                                  \/ (acts[i].type = "malformed" /\ acts'[i].type = "other"))
    <3>1. acts'[v].type = acts[v].type \/ (acts[v].type = "malformed" /\ acts'[v].type = "other")
      BY <2>5
    <3> HIDE DEF v, t, t2
    <3> TAKE i \in DOMAIN acts
    <3>2. CASE i = v BY <2>5, <3>1, <3>2
    <3>3. CASE i # v BY <2>5, <3>3
    <3> QED BY <3>2, <3>3
  <2>7. v \in Actions /\ DOMAIN acts \subseteq Actions
    BY <1>1, <1>3 DEF IndicesFit, WorkTypes, Actions
  <2>8. toExecute' \in Seq(Actions) /\ Elems(toExecute') = Elems(toExecute) \cup {v}
    BY <1>1, <1>6, <2>7, ElemsAppend DEF IndicesFit
  <2> HIDE DEF v, t, t2
  <2>9. UNCHANGED <<setup, serving, reported, change, crashed, action_queue, running, stopping,
                    step, current, attempt, socket, executed, result, calm, toVerify>>
    BY <1>2 DEF swimVars, workerVars, outcomeVars
  <2>10. WorkTypes' BY <1>1, <2>5, <2>9 DEF WorkTypes
  <2>11. IndicesFit' BY <1>1, <1>2, <1>3, <2>5, <2>8, <2>9 DEF IndicesFit, v
  <2>12. PoolFits' BY <1>1, <2>9 DEF PoolFits
  <2>b. step \in Busy => current \in DOMAIN acts BY <1>1 DEF IndicesFit
  <2>c. \A c \in Elems(socket) : c.action \in DOMAIN acts BY <1>1 DEF IndicesFit
  <2>d. \A c \in Elems(socket) : acts'[c.action].type = acts[c.action].type
    BY <1>1, <2>6, <2>c DEF WorkerFits, Commands
  <2>e. step \in {"send", "wait"} => acts'[current].type = acts[current].type
    BY <1>1, <2>6, <2>b DEF WorkerFits, Commands, Busy
  <2>13. WorkerFits' BY <1>1, <2>9, <2>d, <2>e DEF WorkerFits
  <2>14. ResultsFit'
    <3>1. step = "succeeded" /\ acts'[current].type # "NO_ACTION" => executed[current] >= 1
      BY <1>1, <2>6, <2>b DEF ResultsFit, Busy
    <3> QED BY <1>1, <2>5, <2>9, <3>1 DEF ResultsFit
  <2>15. CalmFits'
    <3>1. calm => \A c \in Elems(socket) : Precondition(acts[c.action].type)'
      BY <1>1, <2>9, <2>d DEF CalmFits, Precondition
    <3>2. calm /\ step \in {"send", "wait"} => Precondition(acts[current].type)'
      BY <1>1, <2>9, <2>e DEF CalmFits, Precondition
    <3> QED BY <1>1, <2>9, <3>1, <3>2 DEF CalmFits
  <2>16. ApprovedFits'
    <3> SUFFICES ASSUME setup.enable_verification, NEW i \in DOMAIN acts, acts'[i].source = "reasoner",
                        executed[i] > 0 \/ result[i] # "none" \/ i \in Elems(toExecute')
                 PROVE  Spared(setup.constraints, acts'[i].type)
      BY <2>5, <2>9 DEF ApprovedFits
    <3>1. CASE i = v BY <2>2, <2>5, <3>1
    <3>2. CASE i # v BY <1>1, <2>5, <2>8, <3>2 DEF ApprovedFits
    <3> QED BY <3>1, <3>2
  <2>17. SuccessWasExecuted' BY <1>1, <2>5, <2>6, <2>9 DEF SuccessWasExecuted
  <2>18. FastFits' BY <1>3, <2>9 DEF FastFits, FastAlone
  <2> QED BY <1>4, <2>10, <2>11, <2>12, <2>13, <2>14, <2>15, <2>16, <2>17, <2>18 DEF ActionIndInv
<1> QED BY <1>5, <1>6 DEF FinishVerification

-----------------------------------------------------------------------------
(* The steps of execution leave kernel, reasoner and verification alone.   *)

Upstream == UNCHANGED <<setup, kernelVars, reasonerVars, acts, verifierVars>>

LEMMA UpstreamKeeps ==
    ASSUME ActionIndInv, Upstream
    PROVE  /\ KernelFits' /\ UNCHANGED <<setup, acts, toVerify, verifying, requests, thinking>>
           /\ toVerify' \in Seq(Actions) /\ Elems(toVerify') \subseteq DOMAIN acts
           /\ verifying' \in DOMAIN acts \cup {0}
<1>1. KernelFits /\ IndicesFit BY DEF ActionIndInv
<1>2. UNCHANGED <<setup, acts, controller, sinceFast, sinceSlow, violation_counter, temp_dimmer,
                  requests, thinking, toVerify, verifying, verifierUp>>
  BY DEF Upstream, kernelVars, reasonerVars, verifierVars
<1>3. KernelFits' BY <1>1, <1>2 DEF KernelFits
<1> QED BY <1>1, <1>2, <1>3 DEF IndicesFit

LEMMA ApprovedKeeps ==
    ASSUME ApprovedFits, UNCHANGED <<setup, acts>>,
           \A i \in DOMAIN acts :
              executed'[i] > 0 \/ result'[i] # "none" \/ i \in Elems(toExecute')
              => executed[i] > 0 \/ result[i] # "none" \/ i \in Elems(toExecute)
    PROVE  ApprovedFits'
  BY DEF ApprovedFits

LEMMA HangupFacts ==
    ASSUME NEW q \in Seq(CopyType)
    PROVE  /\ Hangup(q) \in Seq(CopyType) /\ Len(Hangup(q)) = Len(q) /\ DOMAIN Hangup(q) = DOMAIN q
           /\ \A k \in DOMAIN q : ~Hangup(q)[k].open /\ Hangup(q)[k].action = q[k].action
           /\ \A c \in Elems(Hangup(q)) : \E d \in Elems(q) : c.action = d.action
           /\ (q = <<>> => Hangup(q) = <<>>)
<1>1. DOMAIN q = 1..Len(q) /\ Len(q) \in Nat /\ \A k \in DOMAIN q : q[k] \in CopyType OBVIOUS
<1>2. \A k \in DOMAIN q : Hangup(q)[k] = [q[k] EXCEPT !.open = FALSE] BY DEF Hangup
<1>3. \A k \in DOMAIN q : Hangup(q)[k] \in CopyType /\ ~Hangup(q)[k].open /\ Hangup(q)[k].action = q[k].action
  BY <1>1, <1>2 DEF CopyType
<1>4. Hangup(q) \in [1..Len(q) -> CopyType]
  <2>1. Hangup(q) = [k \in 1..Len(q) |-> Hangup(q)[k]] BY <1>1 DEF Hangup
  <2> QED BY <1>1, <1>3, <2>1
<1>5. Hangup(q) \in Seq(CopyType) /\ Len(Hangup(q)) = Len(q) /\ DOMAIN Hangup(q) = DOMAIN q
  BY <1>1, <1>4, SeqDef, LenProperties
<1>6. \A c \in Elems(Hangup(q)) : \E d \in Elems(q) : c.action = d.action
  BY <1>3, <1>5 DEF Elems
<1>7. q = <<>> => Hangup(q) = <<>>
  <2> SUFFICES ASSUME q = <<>> PROVE Hangup(q) = <<>> OBVIOUS
  <2>1. Len(Hangup(q)) = 0 BY <1>5
  <2> QED BY <1>5, <2>1
<1> QED BY <1>3, <1>5, <1>6, <1>7

LEMMA ReceiveActionInd == ASSUME ActionIndInv, ReceiveAction PROVE ActionIndInv'
<1> USE PolarisActionsAssumption
<1>1. /\ KernelFits /\ WorkTypes /\ IndicesFit /\ PoolFits /\ WorkerFits /\ ResultsFit
      /\ CalmFits /\ ApprovedFits /\ FastFits /\ SuccessWasExecuted
  BY DEF ActionIndInv
<1> DEFINE i == Head(toExecute)
<1>2. /\ toExecute # <<>> /\ toExecute' = Tail(toExecute) /\ Upstream
      /\ UNCHANGED <<serving, reported, change, crashed, step, current, attempt, running, stopping, socket,
                     executed, calm>>
      /\ \/ UNCHANGED <<action_queue, result>>
         \/ /\ action_queue' = Append(action_queue, i) /\ Len(action_queue) < QueueSize
            /\ result' = [result EXCEPT ![i] = "pending"]
  BY DEF ReceiveAction, Upstream, swimVars, workerVars, outcomeVars
<1>3. /\ KernelFits' /\ UNCHANGED <<setup, acts, toVerify, verifying, requests, thinking>>
  BY <1>2, UpstreamKeeps
<1>4. /\ toExecute \in Seq(Actions) /\ action_queue \in Seq(Actions)
      /\ i \in Actions /\ toExecute' \in Seq(Actions) /\ Elems(toExecute) = Elems(toExecute') \cup {i}
  BY <1>1, <1>2, ElemsTail DEF IndicesFit
<1>5. /\ action_queue' \in Seq(Actions) /\ Len(action_queue') <= QueueSize
      /\ \/ Elems(action_queue') = Elems(action_queue) /\ UNCHANGED <<action_queue, result>>
         \/ /\ Elems(action_queue') = Elems(action_queue) \cup {i}
            /\ action_queue' = Append(action_queue, i) /\ result' = [result EXCEPT ![i] = "pending"]
  <2>1. CASE UNCHANGED <<action_queue, result>> BY <1>1, <1>4, <2>1 DEF WorkTypes
  <2>2. CASE /\ action_queue' = Append(action_queue, i) /\ Len(action_queue) < QueueSize
             /\ result' = [result EXCEPT ![i] = "pending"]
    <3>1. /\ action_queue' \in Seq(Actions) /\ Elems(action_queue') = Elems(action_queue) \cup {i}
          /\ Len(action_queue') = Len(action_queue) + 1
      BY <1>4, <2>2, ElemsAppend
    <3>2. Len(action_queue) \in Nat BY <1>4
    <3> QED BY <2>2, <3>1, <3>2
  <2> QED BY <1>2, <2>1, <2>2
<1>6. i \in DOMAIN acts /\ i \in Elems(toExecute) BY <1>1, <1>4 DEF IndicesFit
<1> HIDE DEF i
<1>7. \A j \in Actions : result'[j] = result[j] \/ (j = i /\ result'[j] = "pending")
  BY <1>1, <1>4, <1>5 DEF WorkTypes
<1>8. WorkTypes'
  <2>1. result' \in [Actions -> {"none", "pending", "succeeded", "failed"}] BY <1>1, <1>5 DEF WorkTypes
  <2> QED BY <1>1, <1>2, <1>3, <1>5, <2>1 DEF WorkTypes
<1>9. IndicesFit' BY <1>1, <1>2, <1>3, <1>4, <1>5, <1>6 DEF IndicesFit
<1>10. PoolFits' /\ WorkerFits' BY <1>1, <1>2, <1>3 DEF PoolFits, WorkerFits
<1>a. DOMAIN acts \subseteq Actions BY <1>1 DEF IndicesFit, WorkTypes, Actions
<1>11. ResultsFit'
  <2>1. \A j \in Actions \ DOMAIN acts : result'[j] = "none" /\ executed[j] = 0
    BY <1>1, <1>6, <1>7 DEF ResultsFit
  <2>2. \A j \in Actions : result[j] # "none" => result'[j] # "none" BY <1>7
  <2>3. \A j \in Elems(action_queue') : result'[j] # "none"
    <3>1. \A j \in Elems(action_queue) : j \in Actions /\ result[j] # "none"
      BY <1>1, <1>a DEF IndicesFit, ResultsFit
    <3>2. Elems(action_queue') = Elems(action_queue) \/ result'[i] = "pending"
      BY <1>1, <1>4, <1>5 DEF WorkTypes
    <3> QED BY <1>5, <2>2, <3>1, <3>2
  <2>4. \A c \in Elems(socket) : result'[c.action] # "none"
    BY <1>1, <1>a, <2>2 DEF IndicesFit, ResultsFit
  <2>5. current # 0 => result'[current] # "none"
    BY <1>1, <1>a, <2>2 DEF IndicesFit, ResultsFit
  <2> QED BY <1>1, <1>2, <1>3, <2>1, <2>3, <2>4, <2>5 DEF ResultsFit
<1>12. CalmFits' BY <1>1, <1>2, <1>3 DEF CalmFits, Precondition
<1>13. ApprovedFits'
  <2>1. \A j \in DOMAIN acts :
           executed'[j] > 0 \/ result'[j] # "none" \/ j \in Elems(toExecute')
           => executed[j] > 0 \/ result[j] # "none" \/ j \in Elems(toExecute)
    BY <1>2, <1>4, <1>6, <1>7, <1>a
  <2> QED BY <1>1, <1>3, <2>1, ApprovedKeeps
<1>14. SuccessWasExecuted'
  BY <1>1, <1>2, <1>3, <1>7, <1>a DEF SuccessWasExecuted
<1>15. FastFits'
  <2> SUFFICES ASSUME FastAlone PROVE FastFits' BY <1>3 DEF FastFits, FastAlone
  <2>1. ASSUME step # "ended" PROVE InOrder'
    <3>1. InOrder BY <1>1, <2>1 DEF FastFits
    <3>2. Increasing(toExecute') /\ \A y \in Elems(toExecute') : i < y
      BY <1>2, <1>4, <3>1, IncreasingTail DEF InOrder, i
    <3>3. \A q \in Elems(action_queue) : q < i BY <1>6, <3>1 DEF InOrder
    <3>4. Increasing(action_queue')
      BY <1>4, <1>5, <3>1, <3>3, IncreasingAppend DEF InOrder
    <3>5. current < i BY <1>6, <3>1 DEF InOrder
    <3>6. \A q \in Elems(action_queue') : current < q /\ \A t \in Elems(toExecute') : q < t
      BY <1>4, <1>5, <3>1, <3>2, <3>5 DEF InOrder
    <3>7. \A t \in Elems(toExecute') : current < t BY <1>4, <3>1 DEF InOrder
    <3>8. Pending' \subseteq Pending BY <1>2, <1>4, <1>5 DEF Pending
    <3> QED BY <1>2, <1>3, <3>1, <3>2, <3>4, <3>6, <3>7, <3>8 DEF InOrder
  <2> QED BY <1>1, <1>2, <1>3, <2>1 DEF FastFits, Precondition
<1> QED BY <1>3, <1>8, <1>9, <1>10, <1>11, <1>12, <1>13, <1>14, <1>15 DEF ActionIndInv

LEMMA GetActionInd == ASSUME ActionIndInv, GetAction PROVE ActionIndInv'
<1> USE PolarisActionsAssumption
<1>1. /\ KernelFits /\ WorkTypes /\ IndicesFit /\ PoolFits /\ WorkerFits /\ ResultsFit
      /\ CalmFits /\ ApprovedFits /\ FastFits /\ SuccessWasExecuted
  BY DEF ActionIndInv
<1> DEFINE i == Head(action_queue)
<1>2. /\ step = "get" /\ action_queue # <<>> /\ current' = i /\ action_queue' = Tail(action_queue)
      /\ step' = "check" /\ Upstream
      /\ UNCHANGED <<serving, reported, change, crashed, attempt, toExecute, running, stopping, socket,
                     executed, result, calm>>
  BY DEF GetAction, WorkerStep, Upstream, swimVars, outcomeVars
<1>3. /\ KernelFits' /\ UNCHANGED <<setup, acts, toVerify, verifying, requests, thinking>>
  BY <1>2, UpstreamKeeps
<1>4. /\ action_queue \in Seq(Actions) /\ i \in Actions /\ action_queue' \in Seq(Actions)
      /\ Elems(action_queue) = Elems(action_queue') \cup {i}
      /\ Len(action_queue') = Len(action_queue) - 1 /\ Len(action_queue) \in Nat
  BY <1>1, <1>2, ElemsTail DEF IndicesFit
<1>5. i \in DOMAIN acts /\ i \in Elems(action_queue) BY <1>1, <1>4 DEF IndicesFit
<1> HIDE DEF i
<1>6. WorkTypes' BY <1>1, <1>2, <1>3, <1>4 DEF WorkTypes, Busy
<1>7. IndicesFit' BY <1>1, <1>2, <1>3, <1>4, <1>5 DEF IndicesFit, Busy
<1>8. PoolFits' /\ WorkerFits' BY <1>1, <1>2, <1>3 DEF PoolFits, WorkerFits
<1>9. ResultsFit' BY <1>1, <1>2, <1>3, <1>4, <1>5 DEF ResultsFit
<1>10. CalmFits' BY <1>1, <1>2, <1>3 DEF CalmFits, Precondition
<1>11. ApprovedFits' BY <1>1, <1>2, <1>3, ApprovedKeeps
<1>12. SuccessWasExecuted' BY <1>1, <1>2, <1>3 DEF SuccessWasExecuted
<1>13. FastFits'
  <2> SUFFICES ASSUME FastAlone PROVE FastFits' BY <1>3 DEF FastFits, FastAlone
  <2>1. InOrder'
    <3>1. InOrder BY <1>1, <1>2 DEF FastFits
    <3>2. Increasing(action_queue') /\ \A y \in Elems(action_queue') : i < y
      BY <1>2, <1>4, <3>1, IncreasingTail DEF InOrder, i
    <3>3. \A t \in Elems(toExecute) : i < t BY <1>5, <3>1 DEF InOrder
    <3>4. Pending' \subseteq Pending BY <1>2, <1>4 DEF Pending
    <3> QED BY <1>2, <1>3, <1>4, <3>1, <3>2, <3>3, <3>4 DEF InOrder
  <2> QED BY <1>1, <1>2, <1>3, <2>1 DEF FastFits
<1> QED BY <1>3, <1>6, <1>7, <1>8, <1>9, <1>10, <1>11, <1>12, <1>13 DEF ActionIndInv

LEMMA CheckActionInd == ASSUME ActionIndInv, CheckAction PROVE ActionIndInv'
<1> USE PolarisActionsAssumption
<1>1. /\ KernelFits /\ WorkTypes /\ IndicesFit /\ PoolFits /\ WorkerFits /\ ResultsFit
      /\ CalmFits /\ ApprovedFits /\ FastFits /\ SuccessWasExecuted
  BY DEF ActionIndInv
<1> DEFINE t == acts[current].type
<1>2. /\ step = "check" /\ Upstream
      /\ UNCHANGED <<serving, reported, change, crashed, current, action_queue, toExecute, running, stopping,
                     socket, executed, result>>
      /\ attempt' \in {attempt, 0}
      /\ \/ t = "NO_ACTION" /\ step' = "succeeded" /\ calm' = calm
         \/ step' = "failed" /\ calm' = calm
         \/ /\ step' = "send" /\ t \in Commands /\ Precondition(t)
            /\ \/ calm' = calm
               \/ socket = <<>> /\ calm' = (change = "none")
  BY DEF CheckAction, WorkerStep, Upstream, swimVars, Ends, Commands, Precondition
<1>3. /\ KernelFits' /\ UNCHANGED <<setup, acts, toVerify, verifying, requests, thinking>>
  BY <1>2, UpstreamKeeps
<1>4. calm' \in BOOLEAN BY <1>1, <1>2 DEF WorkTypes
<1>5. WorkTypes' BY <1>1, <1>2, <1>3, <1>4 DEF WorkTypes, Busy
<1>6. IndicesFit' BY <1>1, <1>2, <1>3 DEF IndicesFit, Busy
<1>7. PoolFits' BY <1>1, <1>2 DEF PoolFits
<1>8. WorkerFits' BY <1>1, <1>2, <1>3 DEF WorkerFits
<1>9. ResultsFit' BY <1>1, <1>2, <1>3 DEF ResultsFit
<1>10. CalmFits'
  <2>1. step' \in {"send", "wait"} => Precondition(acts[current].type)' BY <1>2, <1>3 DEF Precondition
  <2>2. calm' => change' = "none" BY <1>1, <1>2 DEF CalmFits
  <2>3. calm' => \A c \in Elems(socket) : Precondition(acts[c.action].type)'
    BY <1>1, <1>2, <1>3, ElemsEmpty DEF CalmFits, Precondition
  <2> QED BY <1>2, <2>1, <2>2, <2>3 DEF CalmFits
<1>11. ApprovedFits' BY <1>1, <1>2, <1>3, ApprovedKeeps
<1>12. SuccessWasExecuted' BY <1>1, <1>2, <1>3 DEF SuccessWasExecuted
<1>13. FastFits'
  <2> SUFFICES ASSUME FastAlone PROVE FastFits' BY <1>3 DEF FastFits, FastAlone
  <2>1. InOrder'
    <3>1. InOrder BY <1>1, <1>2 DEF FastFits
    <3>2. Pending' \subseteq Pending BY <1>2 DEF Pending
    <3> QED BY <1>2, <1>3, <3>1, <3>2 DEF InOrder
  <2>2. step' \in {"send", "wait"} => Precondition(acts[current].type)' BY <1>2, <1>3 DEF Precondition
  <2> QED BY <1>1, <1>2, <1>3, <2>1, <2>2 DEF FastFits
<1> QED BY <1>3, <1>5, <1>6, <1>7, <1>8, <1>9, <1>10, <1>11, <1>12, <1>13 DEF ActionIndInv

LEMMA SendCommandInd == ASSUME ActionIndInv, SendCommand PROVE ActionIndInv'
<1> USE PolarisActionsAssumption
<1>1. /\ KernelFits /\ WorkTypes /\ IndicesFit /\ PoolFits /\ WorkerFits /\ ResultsFit
      /\ CalmFits /\ ApprovedFits /\ FastFits /\ SuccessWasExecuted
  BY DEF ActionIndInv
<1> DEFINE copy == [action |-> current, open |-> TRUE]
<1>2. /\ step = "send" /\ step' = "wait" /\ socket' = Append(socket, copy) /\ Upstream
      /\ UNCHANGED <<serving, reported, change, crashed, current, attempt, action_queue, toExecute, running,
                     stopping, executed, result, calm>>
  BY DEF SendCommand, WorkerStep, Upstream, swimVars, outcomeVars
<1>3. /\ KernelFits' /\ UNCHANGED <<setup, acts, toVerify, verifying, requests, thinking>>
  BY <1>2, UpstreamKeeps
<1>4. current \in DOMAIN acts /\ current # 0 BY <1>1, <1>2 DEF IndicesFit, Busy
<1>5. copy \in CopyType /\ copy.action = current
  BY <1>1, <1>4 DEF IndicesFit, WorkTypes, Actions, CopyType
<1> HIDE DEF copy
<1>6. /\ socket \in Seq(CopyType) /\ socket' \in Seq(CopyType) /\ Elems(socket') = Elems(socket) \cup {copy}
      /\ Len(socket') = Len(socket) + 1
  BY <1>1, <1>2, <1>5, ElemsAppend DEF IndicesFit
<1>7. /\ \A k \in DOMAIN socket : ~socket[k].open
      /\ \A k \in DOMAIN socket' : k = Len(socket') \/ (k \in DOMAIN socket /\ socket'[k] = socket[k])
      /\ socket'[Len(socket')] = copy
  BY <1>1, <1>2, <1>6 DEF WorkerFits
<1>8. WorkTypes' BY <1>1, <1>2, <1>3 DEF WorkTypes, Busy
<1>9. IndicesFit' BY <1>1, <1>2, <1>3, <1>4, <1>5, <1>6 DEF IndicesFit, Busy
<1>10. PoolFits' BY <1>1, <1>2 DEF PoolFits
<1>11. WorkerFits'
  <2>1. \A c \in Elems(socket') : acts[c.action].type \in Commands
    BY <1>1, <1>2, <1>5, <1>6 DEF WorkerFits
  <2>2. ASSUME NEW k \in DOMAIN socket', socket'[k].open
        PROVE  k = Len(socket') /\ socket'[k].action = current
    BY <1>5, <1>7, <2>2
  <2> QED BY <1>1, <1>2, <1>3, <2>1, <2>2 DEF WorkerFits
<1>12. ResultsFit' BY <1>1, <1>2, <1>3, <1>4, <1>5, <1>6 DEF ResultsFit
<1>13. CalmFits'
  <2>1. calm => \A c \in Elems(socket') : Precondition(acts[c.action].type)'
    BY <1>1, <1>2, <1>3, <1>5, <1>6 DEF CalmFits, Precondition
  <2>2. calm => Precondition(acts[current].type)' BY <1>1, <1>2, <1>3 DEF CalmFits, Precondition
  <2> QED BY <1>1, <1>2, <1>3, <2>1, <2>2 DEF CalmFits
<1>14. ApprovedFits' BY <1>1, <1>2, <1>3, ApprovedKeeps
<1>15. SuccessWasExecuted' BY <1>1, <1>2, <1>3 DEF SuccessWasExecuted
<1>16. FastFits'
  <2> SUFFICES ASSUME FastAlone PROVE FastFits' BY <1>3 DEF FastFits, FastAlone
  <2>1. socket' = <<copy>> BY <1>1, <1>2 DEF FastFits
  <2>2. InOrder'
    <3>1. InOrder BY <1>1, <1>2 DEF FastFits
    <3>2. Pending' \subseteq Pending BY <1>2 DEF Pending
    <3> QED BY <1>2, <1>3, <3>1, <3>2 DEF InOrder
  <2>3. Precondition(acts[current].type)' BY <1>1, <1>2, <1>3 DEF FastFits, Precondition
  <2> QED BY <1>1, <1>2, <1>3, <2>1, <2>2, <2>3 DEF FastFits, copy
<1> QED BY <1>3, <1>8, <1>9, <1>10, <1>11, <1>12, <1>13, <1>14, <1>15, <1>16 DEF ActionIndInv

(* Whoever gives up an attempt closes its connection.                      *)
LEMMA AttemptFailsInd == ASSUME ActionIndInv, AttemptFails PROVE ActionIndInv'
<1> USE PolarisActionsAssumption
<1>1. /\ KernelFits /\ WorkTypes /\ IndicesFit /\ PoolFits /\ WorkerFits /\ ResultsFit
      /\ CalmFits /\ ApprovedFits /\ FastFits /\ SuccessWasExecuted
  BY DEF ActionIndInv
<1>2. /\ step \in {"send", "wait"} /\ socket' = Hangup(socket) /\ Upstream
      /\ UNCHANGED <<serving, reported, change, crashed, current, action_queue, toExecute, running,
                     stopping, executed, result, calm>>
      /\ \/ attempt < MaxRetries /\ attempt' = attempt + 1 /\ step' = "send"
         \/ attempt' = 0 /\ step' = "failed"
      /\ crashed \/ ~setup.prompt
  BY DEF AttemptFails, Ends, Retries, WorkerStep, Upstream, swimVars, outcomeVars
<1>3. /\ KernelFits' /\ UNCHANGED <<setup, acts, toVerify, verifying, requests, thinking>>
  BY <1>2, UpstreamKeeps
<1>4. /\ socket \in Seq(CopyType) /\ socket' \in Seq(CopyType) /\ DOMAIN socket' = DOMAIN socket
      /\ \A k \in DOMAIN socket' : ~socket'[k].open
      /\ \A c \in Elems(socket') : \E d \in Elems(socket) : c.action = d.action
  <2>1. socket \in Seq(CopyType) BY <1>1 DEF IndicesFit
  <2> QED BY <1>2, <2>1, HangupFacts
<1>5. attempt' \in 0..MaxRetries /\ step' \in Busy BY <1>1, <1>2 DEF WorkTypes, Busy
<1>6. WorkTypes' BY <1>1, <1>2, <1>3, <1>5 DEF WorkTypes
<1>7. IndicesFit'
  <2>1. \A c \in Elems(socket') : c.action \in DOMAIN acts BY <1>1, <1>4 DEF IndicesFit
  <2>2. current \in DOMAIN acts BY <1>1, <1>2 DEF IndicesFit, Busy
  <2> QED BY <1>1, <1>2, <1>3, <1>4, <1>5, <2>1, <2>2 DEF IndicesFit
<1>8. PoolFits' BY <1>1, <1>2 DEF PoolFits
<1>9. WorkerFits'
  <2>1. \A c \in Elems(socket') : acts[c.action].type \in Commands BY <1>1, <1>4 DEF WorkerFits
  <2> QED BY <1>1, <1>2, <1>3, <1>4, <2>1 DEF WorkerFits
<1>10. ResultsFit'
  <2>1. \A c \in Elems(socket') : result[c.action] # "none" BY <1>1, <1>4 DEF ResultsFit
  <2> QED BY <1>1, <1>2, <1>3, <2>1 DEF ResultsFit
<1>11. CalmFits'
  <2>1. calm => \A c \in Elems(socket') : Precondition(acts[c.action].type)'
    BY <1>1, <1>2, <1>3, <1>4 DEF CalmFits, Precondition
  <2>2. calm => Precondition(acts[current].type)' BY <1>1, <1>2, <1>3 DEF CalmFits, Precondition
  <2> QED BY <1>1, <1>2, <1>3, <2>1, <2>2 DEF CalmFits
<1>12. ApprovedFits' BY <1>1, <1>2, <1>3, ApprovedKeeps
<1>13. SuccessWasExecuted' BY <1>1, <1>2, <1>3 DEF SuccessWasExecuted
<1>14. FastFits' BY <1>1, <1>2, <1>3 DEF FastFits, FastAlone
<1> QED BY <1>3, <1>6, <1>7, <1>8, <1>9, <1>10, <1>11, <1>12, <1>13, <1>14 DEF ActionIndInv

LEMMA PublishResultInd == ASSUME ActionIndInv, PublishResult PROVE ActionIndInv'
<1> USE PolarisActionsAssumption
<1>1. /\ KernelFits /\ WorkTypes /\ IndicesFit /\ PoolFits /\ WorkerFits /\ ResultsFit
      /\ CalmFits /\ ApprovedFits /\ FastFits /\ SuccessWasExecuted
  BY DEF ActionIndInv
<1>2. /\ step \in {"succeeded", "failed"} /\ step' \in {"get", "ended"} /\ current' = 0 /\ Upstream
      /\ result' = [result EXCEPT ![current] = step]
      /\ UNCHANGED <<serving, reported, change, crashed, attempt, action_queue, toExecute, running,
                     stopping, socket, executed, calm>>
  BY DEF PublishResult, WorkerStep, Upstream, swimVars
<1>3. /\ KernelFits' /\ UNCHANGED <<setup, acts, toVerify, verifying, requests, thinking>>
  BY <1>2, UpstreamKeeps
<1>4. current \in DOMAIN acts /\ DOMAIN acts \subseteq Actions /\ current # 0
  BY <1>1, <1>2 DEF IndicesFit, Busy, WorkTypes, Actions
<1>5. \A i \in Actions : IF i = current THEN result'[i] = step ELSE result'[i] = result[i]
  BY <1>1, <1>2, <1>4 DEF WorkTypes
<1>6. WorkTypes'
  <2>1. result' \in [Actions -> {"none", "pending", "succeeded", "failed"}] BY <1>1, <1>2 DEF WorkTypes
  <2> QED BY <1>1, <1>2, <1>3, <2>1 DEF WorkTypes
<1>7. IndicesFit' BY <1>1, <1>2, <1>3 DEF IndicesFit, Busy
<1>8. PoolFits' BY <1>1, <1>2 DEF PoolFits
<1>9. WorkerFits' BY <1>1, <1>2, <1>3 DEF WorkerFits
<1>a. result[current] # "none" BY <1>1, <1>4 DEF ResultsFit
<1>b. \A i \in Actions : result[i] # "none" => result'[i] # "none" BY <1>2, <1>5
<1>10. ResultsFit'
  <2>1. \A i \in Actions \ DOMAIN acts : result'[i] = "none" /\ executed[i] = 0
    BY <1>1, <1>4, <1>5 DEF ResultsFit
  <2>2. \A i \in Elems(action_queue) : i \in Actions /\ result[i] # "none"
    BY <1>1, <1>4 DEF IndicesFit, ResultsFit
  <2>3. \A c \in Elems(socket) : c.action \in Actions /\ result[c.action] # "none"
    BY <1>1, <1>4 DEF IndicesFit, ResultsFit
  <2> QED BY <1>2, <1>3, <1>b, <2>1, <2>2, <2>3 DEF ResultsFit
<1>11. CalmFits' BY <1>1, <1>2, <1>3 DEF CalmFits, Precondition
<1>12. ApprovedFits'
  <2>1. \A i \in DOMAIN acts : result'[i] # "none" => result[i] # "none" BY <1>4, <1>5, <1>a
  <2> QED BY <1>1, <1>2, <1>3, <2>1, ApprovedKeeps
<1>13. SuccessWasExecuted'
  <2> SUFFICES ASSUME NEW i \in DOMAIN acts, result'[i] = "succeeded", acts[i].type # "NO_ACTION"
               PROVE  executed[i] >= 1
    BY <1>2, <1>3 DEF SuccessWasExecuted
  <2>1. CASE i = current BY <1>1, <1>4, <1>5, <2>1 DEF ResultsFit
  <2>2. CASE i # current BY <1>1, <1>4, <1>5, <2>2 DEF SuccessWasExecuted
  <2> QED BY <2>1, <2>2
<1>14. FastFits'
  <2> SUFFICES ASSUME FastAlone PROVE FastFits' BY <1>3 DEF FastFits, FastAlone
  <2>1. InOrder'
    <3>1. InOrder BY <1>1, <1>2 DEF FastFits
    <3>2. Pending' \subseteq Pending BY <1>2 DEF Pending
    <3>3. \A q \in Elems(action_queue) \cup Elems(toExecute) : 0 < q
      BY <1>1 DEF IndicesFit
    <3> QED BY <1>2, <1>3, <3>1, <3>2, <3>3 DEF InOrder
  <2> QED BY <1>1, <1>2, <1>3, <2>1 DEF FastFits
<1> QED BY <1>3, <1>6, <1>7, <1>8, <1>9, <1>10, <1>11, <1>12, <1>13, <1>14 DEF ActionIndInv

-----------------------------------------------------------------------------
(* SWIM                                                                    *)

(* An action that was checked against a settled pool is accepted.          *)
LEMMA CheckedIsAccepted ==
    ASSUME WorkTypes, PoolFits, NEW t \in Commands, Precondition(t), change = "none"
    PROVE  AcceptedBySwim(t)
  BY PolarisActionsAssumption DEF WorkTypes, PoolFits, Commands, Precondition, AcceptedBySwim

LEMMA SwimExecutesInd == ASSUME ActionIndInv, SwimExecutes PROVE ActionIndInv' /\ (crashed' => ~calm)
<1> USE PolarisActionsAssumption
<1>1. /\ KernelFits /\ WorkTypes /\ IndicesFit /\ PoolFits /\ WorkerFits /\ ResultsFit
      /\ CalmFits /\ ApprovedFits /\ FastFits /\ SuccessWasExecuted
  BY DEF ActionIndInv
<1> DEFINE copy == Head(socket)
           t == acts[copy.action].type
           isHeard == step = "wait" /\ copy.open
<1>2. /\ socket # <<>> /\ ~crashed /\ Upstream
      /\ executed' = [executed EXCEPT ![copy.action] = @ + 1]
      /\ UNCHANGED <<toExecute, action_queue, current, running, stopping, result>>
      /\ \/ /\ AcceptedBySwim(t) /\ LegalCommand(t)
            /\ calm' = (calm /\ t = "SET_DIMMER") /\ socket' = Tail(socket)
            /\ IF isHeard THEN step' = "succeeded" /\ attempt' = 0 ELSE UNCHANGED <<step, attempt>>
            /\ UNCHANGED crashed
         \/ /\ ~AcceptedBySwim(t) /\ crashed' = TRUE /\ socket' = <<>>
            /\ \/ isHeard /\ step' = "succeeded" /\ attempt' = 0
               \/ step = "wait" /\ step' = "failed" /\ attempt' = 0
               \/ step # "wait" /\ UNCHANGED <<step, attempt>>
            /\ UNCHANGED <<serving, reported, change, calm>>
  BY DEF SwimExecutes, Ends, Upstream, swimVars
<1>3. /\ KernelFits' /\ UNCHANGED <<setup, acts, toVerify, verifying, requests, thinking>>
  BY <1>2, UpstreamKeeps
<1>4. /\ socket \in Seq(CopyType) /\ copy \in CopyType /\ Tail(socket) \in Seq(CopyType)
      /\ Elems(socket) = Elems(Tail(socket)) \cup {copy}
      /\ DOMAIN socket = 1..Len(socket) /\ Len(socket) \in Nat /\ Len(socket) >= 1
      /\ Len(Tail(socket)) = Len(socket) - 1
      /\ \A k \in DOMAIN Tail(socket) : k + 1 \in DOMAIN socket /\ Tail(socket)[k] = socket[k + 1]
      /\ copy = socket[1]
  <2>1. socket \in Seq(CopyType) BY <1>1 DEF IndicesFit
  <2>2. /\ copy \in CopyType /\ Tail(socket) \in Seq(CopyType) /\ Elems(socket) = Elems(Tail(socket)) \cup {copy}
    BY <1>2, <2>1, ElemsTail
  <2>3. /\ DOMAIN socket = 1..Len(socket) /\ Len(socket) \in Nat /\ Len(socket) >= 1
        /\ Len(Tail(socket)) = Len(socket) - 1 /\ DOMAIN Tail(socket) = 1..(Len(socket) - 1)
        /\ \A k \in 1..(Len(socket) - 1) : Tail(socket)[k] = socket[k + 1]
        /\ copy = socket[1]
    BY <1>2, <2>1
  <2> HIDE DEF copy
  <2> QED BY <2>1, <2>2, <2>3
<1>5. copy.action \in DOMAIN acts /\ DOMAIN acts \subseteq Actions /\ t \in Commands
  BY <1>1, <1>4 DEF IndicesFit, WorkTypes, Actions, WorkerFits
<1> HIDE DEF copy
<1>6. isHeard => copy.action = current /\ Len(socket) = 1
  BY <1>1, <1>4 DEF WorkerFits
<1>7. /\ executed' \in [Actions -> Nat]
      /\ \A i \in Actions : executed'[i] = IF i = copy.action THEN executed[i] + 1 ELSE executed[i]
  BY <1>1, <1>2, <1>5 DEF WorkTypes
<1>8. \A i \in Actions : executed'[i] >= executed[i] BY <1>1, <1>7 DEF WorkTypes
<1>9. isHeard => executed'[current] >= 1 BY <1>1, <1>5, <1>6, <1>7 DEF WorkTypes
<1>10. calm => AcceptedBySwim(t)
  <2>1. calm => change = "none" /\ Precondition(t) BY <1>1, <1>4 DEF CalmFits
  <2> HIDE DEF t
  <2> QED BY <1>1, <1>5, <2>1, CheckedIsAccepted
<1>11. FastAlone => AcceptedBySwim(t) /\ isHeard /\ t # "REMOVE_SERVER" /\ current \in Pending /\ step # "ended"
  <2> SUFFICES ASSUME FastAlone
               PROVE  AcceptedBySwim(t) /\ isHeard /\ t # "REMOVE_SERVER" /\ current \in Pending /\ step # "ended"
    OBVIOUS
  <2>1. step = "wait" /\ socket = <<[action |-> current, open |-> TRUE]>>
    BY <1>1, <1>2 DEF FastFits
  <2>2. copy = [action |-> current, open |-> TRUE] BY <1>4, <2>1
  <2>3. isHeard /\ copy.action = current /\ current \in Pending BY <2>1, <2>2 DEF Pending
  <2>4. t \in {"SET_DIMMER", "ADD_SERVER"} /\ Precondition(t) /\ (t = "ADD_SERVER" => change = "none")
    BY <1>1, <1>5, <2>1, <2>3 DEF FastFits, InOrder
  <2>5. AcceptedBySwim(t)
    <3>1. CASE t = "SET_DIMMER" BY <3>1 DEF AcceptedBySwim
    <3>2. CASE t = "ADD_SERVER"
      <4> HIDE DEF t
      <4> QED BY <1>1, <1>5, <2>4, <3>2, CheckedIsAccepted
    <3> QED BY <2>4, <3>1, <3>2
  <2> QED BY <2>1, <2>3, <2>4, <2>5
<1>12. /\ serving' \in 0..MaxServers /\ reported' \in 0..MaxServers /\ change' \in {"none", "growing", "shrinking"}
       /\ PoolFits'
       /\ t = "SET_DIMMER" => UNCHANGED <<serving, reported, change>>
       /\ t # "REMOVE_SERVER" => (change' # "shrinking" \/ change = "shrinking")
  <2>1. CASE UNCHANGED <<serving, reported, change>> BY <1>1, <2>1 DEF WorkTypes, PoolFits
  <2>2. CASE LegalCommand(t)
    <3> HIDE DEF t
    <3> QED BY <1>1, <1>5, <2>2 DEF LegalCommand, swimVars, WorkTypes, PoolFits, Commands, Swim!StartGrowing,
                               Swim!GrowAtOnce, Swim!StartShrinking
  <2> QED BY <1>2, <1>5, <2>1, <2>2 DEF LegalCommand, swimVars, Commands
<1> HIDE DEF t
<1>13. /\ step' \in Busy \cup {"get", "ended"} /\ (step' = step \/ (step = "wait" /\ step' \in {"succeeded", "failed"}))
       /\ attempt' \in 0..MaxRetries
       /\ crashed' \in BOOLEAN
  <2>1. step' = step \/ (step = "wait" /\ step' \in {"succeeded", "failed"}) BY <1>2
  <2>2. attempt' \in {attempt, 0} BY <1>2
  <2>3. crashed' = crashed \/ crashed' = TRUE BY <1>2
  <2>4. crashed' \in BOOLEAN BY <1>1, <2>3 DEF WorkTypes
  <2> QED BY <1>1, <2>1, <2>2, <2>4 DEF WorkTypes, Busy
<1>14. calm' \in BOOLEAN /\ (calm' => calm) /\ (calm' => UNCHANGED <<serving, reported, change>>)
  <2>1. calm \in BOOLEAN BY <1>1 DEF WorkTypes
  <2>2. CASE calm' = (calm /\ t = "SET_DIMMER") BY <1>12, <2>1, <2>2
  <2>3. CASE UNCHANGED <<serving, reported, change, calm>> BY <2>1, <2>3
  <2> QED BY <1>2, <2>2, <2>3
<1>15. /\ socket' \in Seq(CopyType) /\ Elems(socket') \subseteq Elems(socket)
       /\ socket' \in {Tail(socket), <<>>}
  <2>1. socket' = Tail(socket) \/ socket' = <<>> BY <1>2
  <2>2. CASE socket' = Tail(socket) BY <1>4, <2>2
  <2>3. CASE socket' = <<>> BY <2>3, ElemsEmpty
  <2> QED BY <2>1, <2>2, <2>3
<1>16. WorkTypes' BY <1>1, <1>2, <1>3, <1>7, <1>12, <1>13, <1>14 DEF WorkTypes
<1>17. IndicesFit'
  <2>1. step' \in Busy <=> step \in Busy BY <1>13 DEF Busy
  <2> QED BY <1>1, <1>2, <1>3, <1>15, <2>1 DEF IndicesFit
<1>18. WorkerFits'
  <2>1. step' \in {"send", "wait"} => step = step' BY <1>13
  <2>2. ASSUME NEW k \in DOMAIN socket', socket'[k].open
        PROVE  k = Len(socket') /\ step' = "wait" /\ socket'[k].action = current
    <3>1. socket' = Tail(socket) BY <1>15, <2>2
    <3>2. k + 1 \in DOMAIN socket /\ socket'[k] = socket[k + 1] BY <1>4, <2>2, <3>1
    <3>3. k + 1 = Len(socket) /\ step = "wait" /\ socket[k + 1].action = current
      BY <1>1, <2>2, <3>2 DEF WorkerFits
    <3>4. k \in Nat /\ k >= 1 /\ k = Len(socket') BY <1>4, <1>15, <2>2, <3>1, <3>3
    <3>5. ~isHeard /\ socket' # <<>> BY <1>4, <1>6, <3>3, <3>4, <2>2
    <3> QED BY <1>2, <3>2, <3>3, <3>4, <3>5
  <2>3. stopping = "stopped" => step' = "ended" BY <1>1, <1>13 DEF WorkerFits
  <2> QED BY <1>1, <1>2, <1>3, <1>15, <2>1, <2>2, <2>3 DEF WorkerFits
<1>19. ResultsFit'
  <2>1. \A i \in Actions \ DOMAIN acts : result[i] = "none" /\ executed'[i] = 0
    BY <1>1, <1>5, <1>7 DEF ResultsFit
  <2>2. step' = "succeeded" /\ acts[current].type # "NO_ACTION" => executed'[current] >= 1
    <3>1. CASE step' = step
      <4>1. step = "succeeded" => current \in Actions BY <1>1, <1>5 DEF IndicesFit, Busy
      <4>2. step = "succeeded" /\ acts[current].type # "NO_ACTION" => executed[current] >= 1
        BY <1>1 DEF ResultsFit
      <4>3. \A i \in Actions : executed[i] \in Nat /\ executed'[i] \in Nat BY <1>1, <1>7 DEF WorkTypes
      <4> QED BY <1>8, <3>1, <4>1, <4>2, <4>3
    <3>2. CASE step' # step BY <1>2, <1>9, <3>2
    <3> QED BY <3>1, <3>2
  <2> QED BY <1>1, <1>2, <1>3, <1>15, <2>1, <2>2 DEF ResultsFit
<1>20. CalmFits'
  <2>1. calm' => \A c \in Elems(socket') : Precondition(acts[c.action].type)'
    BY <1>1, <1>3, <1>14, <1>15 DEF CalmFits, Precondition
  <2>2. calm' /\ step' \in {"send", "wait"} => Precondition(acts[current].type)'
    <3> SUFFICES ASSUME calm', step' \in {"send", "wait"} PROVE Precondition(acts[current].type)'
      OBVIOUS
    <3>1. Precondition(acts[current].type) BY <1>1, <1>13, <1>14 DEF CalmFits
    <3>2. UNCHANGED <<acts, current, reported>> BY <1>2, <1>3, <1>14
    <3> QED BY <3>1, <3>2 DEF Precondition
  <2> QED BY <1>1, <1>2, <1>3, <1>14, <2>1, <2>2 DEF CalmFits
<1>21. ApprovedFits'
  <2>1. result[copy.action] # "none" BY <1>1, <1>4 DEF ResultsFit
  <2>2. \A i \in DOMAIN acts : executed'[i] > 0 => executed[i] > 0 \/ result[i] # "none"
    BY <1>5, <1>7, <2>1
  <2> QED BY <1>1, <1>2, <1>3, <2>2, ApprovedKeeps
<1>22. SuccessWasExecuted'
  <2>1. \A i \in DOMAIN acts : executed[i] \in Nat /\ executed'[i] \in Nat /\ executed'[i] >= executed[i]
    BY <1>1, <1>5, <1>7, <1>8 DEF WorkTypes
  <2> QED BY <1>1, <1>2, <1>3, <2>1 DEF SuccessWasExecuted
<1>23. FastFits'
  <2> SUFFICES ASSUME FastAlone PROVE FastFits' BY <1>3 DEF FastFits, FastAlone
  <2>1. /\ step' = "succeeded" /\ UNCHANGED crashed /\ socket' = Tail(socket)
    BY <1>2, <1>11
  <2>2. socket' = <<>> BY <1>4, <1>6, <1>11, <2>1
  <2>3. change' # "shrinking" BY <1>1, <1>11, <1>12 DEF FastFits
  <2>4. InOrder'
    <3>1. InOrder BY <1>1, <1>11 DEF FastFits
    <3>2. Pending' = Elems(toExecute) \cup Elems(action_queue) /\ Pending' \subseteq Pending
      BY <1>2, <2>1 DEF Pending
    <3>3. ASSUME NEW i \in Pending', acts[i].type = "ADD_SERVER" PROVE i = Len(acts) /\ change' = "none"
      <4>1. i = Len(acts) /\ change = "none" BY <3>1, <3>2, <3>3 DEF InOrder
      <4>2. current < i BY <3>1, <3>2 DEF InOrder
      <4>3. current # Len(acts) /\ current \in Pending BY <1>1, <1>11, <4>1, <4>2 DEF IndicesFit
      <4>4. t # "ADD_SERVER" BY <1>6, <1>11, <3>1, <4>3 DEF InOrder, t
      <4> QED BY <1>5, <1>11, <1>12, <4>1, <4>4 DEF Commands
    <3> QED BY <1>2, <1>3, <3>1, <3>3 DEF InOrder
  <2> QED BY <1>1, <1>2, <1>3, <2>1, <2>2, <2>3, <2>4 DEF FastFits
<1>24. crashed' => ~calm BY <1>2, <1>10
<1> QED BY <1>3, <1>12, <1>16, <1>17, <1>18, <1>19, <1>20, <1>21, <1>22, <1>23, <1>24 DEF ActionIndInv

LEMMA ChangeEndsInd == ASSUME ActionIndInv, ChangeEnds PROVE ActionIndInv'
<1> USE PolarisActionsAssumption
<1>1. /\ KernelFits /\ WorkTypes /\ IndicesFit /\ PoolFits /\ WorkerFits /\ ResultsFit
      /\ CalmFits /\ ApprovedFits /\ FastFits /\ SuccessWasExecuted
  BY DEF ActionIndInv
<1>2. /\ ~crashed /\ Upstream
      /\ UNCHANGED <<crashed, toExecute, action_queue, step, current, attempt, running, stopping, socket,
                     executed, result>>
      /\ calm' = FALSE /\ change' = "none"
      /\ \/ change = "growing" /\ serving' = serving + 1 /\ reported' = reported
         \/ change = "shrinking" /\ reported' = reported - 1 /\ serving' = serving
  BY DEF ChangeEnds, Upstream, executorVars, workerVars, Swim!FinishGrowing, Swim!FinishShrinking
<1>3. /\ KernelFits' /\ UNCHANGED <<setup, acts, toVerify, verifying, requests, thinking>>
  BY <1>2, UpstreamKeeps
<1>4. PoolFits' /\ serving' \in 0..MaxServers /\ reported' \in 0..MaxServers
  BY <1>1, <1>2 DEF PoolFits, WorkTypes
<1>5. WorkTypes' BY <1>1, <1>2, <1>3, <1>4 DEF WorkTypes
<1>6. IndicesFit' BY <1>1, <1>2, <1>3 DEF IndicesFit
<1>7. WorkerFits' BY <1>1, <1>2, <1>3 DEF WorkerFits
<1>8. ResultsFit' BY <1>1, <1>2, <1>3 DEF ResultsFit
<1>9. CalmFits' BY <1>2 DEF CalmFits
<1>10. ApprovedFits' BY <1>1, <1>2, <1>3, ApprovedKeeps
<1>11. SuccessWasExecuted' BY <1>1, <1>2, <1>3 DEF SuccessWasExecuted
<1>12. FastFits'
  <2> SUFFICES ASSUME FastAlone PROVE FastFits' BY <1>3 DEF FastFits, FastAlone
  <2>1. reported' = reported BY <1>1, <1>2 DEF FastFits
  <2>2. InOrder => InOrder' BY <1>2, <1>3 DEF InOrder, Pending
  <2>3. step \in {"send", "wait"} => Precondition(acts[current].type)'
    BY <1>1, <1>2, <1>3, <2>1 DEF FastFits, Precondition
  <2> QED BY <1>1, <1>2, <1>3, <2>2, <2>3 DEF FastFits
<1> QED BY <1>3, <1>4, <1>5, <1>6, <1>7, <1>8, <1>9, <1>10, <1>11, <1>12 DEF ActionIndInv

LEMMA FinishStopInd == ASSUME ActionIndInv, FinishStop PROVE ActionIndInv'
<1> USE PolarisActionsAssumption
<1>1. /\ KernelFits /\ WorkTypes /\ IndicesFit /\ PoolFits /\ WorkerFits /\ ResultsFit
      /\ CalmFits /\ ApprovedFits /\ FastFits /\ SuccessWasExecuted
  BY DEF ActionIndInv
<1>2. /\ Upstream /\ (unfinished_tasks = 0 \/ JoinTimesOut)
      /\ UNCHANGED <<serving, reported, change, crashed, toExecute, action_queue, running, executed, result, calm>>
      /\ stopping' = "stopped" /\ step' = "ended" /\ current' = 0 /\ attempt' = 0 /\ socket' = Hangup(socket)
  BY DEF FinishStop, Upstream, swimVars, outcomeVars
<1>3. /\ KernelFits' /\ UNCHANGED <<setup, acts, toVerify, verifying, requests, thinking>>
  BY <1>2, UpstreamKeeps
<1>4. /\ socket \in Seq(CopyType) /\ socket' \in Seq(CopyType) /\ DOMAIN socket' = DOMAIN socket
      /\ \A k \in DOMAIN socket' : ~socket'[k].open
      /\ \A c \in Elems(socket') : \E d \in Elems(socket) : c.action = d.action
      /\ (socket = <<>> => socket' = <<>>)
  <2>1. socket \in Seq(CopyType) BY <1>1 DEF IndicesFit
  <2> QED BY <1>2, <2>1, HangupFacts
<1>5. WorkTypes' BY <1>1, <1>2, <1>3 DEF WorkTypes
<1>6. IndicesFit'
  <2>1. \A c \in Elems(socket') : c.action \in DOMAIN acts BY <1>1, <1>4 DEF IndicesFit
  <2> QED BY <1>1, <1>2, <1>3, <1>4, <2>1 DEF IndicesFit, Busy
<1>7. PoolFits' BY <1>1, <1>2 DEF PoolFits
<1>8. WorkerFits'
  <2>1. \A c \in Elems(socket') : acts[c.action].type \in Commands BY <1>1, <1>4 DEF WorkerFits
  <2> QED BY <1>1, <1>2, <1>3, <1>4, <2>1 DEF WorkerFits
<1>9. ResultsFit'
  <2>1. \A c \in Elems(socket') : result[c.action] # "none" BY <1>1, <1>4 DEF ResultsFit
  <2> QED BY <1>1, <1>2, <1>3, <2>1 DEF ResultsFit
<1>10. CalmFits'
  <2>1. calm => \A c \in Elems(socket') : Precondition(acts[c.action].type)'
    BY <1>1, <1>2, <1>3, <1>4 DEF CalmFits, Precondition
  <2> QED BY <1>1, <1>2, <1>3, <2>1 DEF CalmFits
<1>11. ApprovedFits' BY <1>1, <1>2, <1>3, ApprovedKeeps
<1>12. SuccessWasExecuted' BY <1>1, <1>2, <1>3 DEF SuccessWasExecuted
<1>13. FastFits'
  <2> SUFFICES ASSUME FastAlone PROVE FastFits' BY <1>3 DEF FastFits, FastAlone
  <2>1. step # "wait"
    <3>1. CASE unfinished_tasks = 0
      <4>1. Len(action_queue) \in Nat BY <1>1 DEF IndicesFit
      <4>2. current = 0 BY <3>1, <4>1 DEF unfinished_tasks
      <4> QED BY <1>1, <4>2 DEF IndicesFit, Busy
    <3>2. CASE JoinTimesOut BY <3>2 DEF JoinTimesOut, FastAlone
    <3> QED BY <1>2, <3>1, <3>2
  <2>2. socket' = <<>> BY <1>1, <1>4, <2>1 DEF FastFits
  <2> QED BY <1>1, <1>2, <1>3, <2>2 DEF FastFits
<1> QED BY <1>3, <1>5, <1>6, <1>7, <1>8, <1>9, <1>10, <1>11, <1>12, <1>13 DEF ActionIndInv

-----------------------------------------------------------------------------
(* Every step.                                                             *)

LEMMA ActionStepInd == ASSUME ActionIndInv, [Next]_vars PROVE ActionIndInv'
<1>1. CASE Telemetry \/ Reasoner
  BY <1>1, HighTelemetryInd, QuietSteps, FinishReasoningInd DEF Telemetry, Reasoner
<1>2. CASE Verifier BY <1>2, FinishVerificationInd, QuietSteps DEF Verifier
<1>3. CASE Executor
  BY <1>3, ReceiveActionInd, GetActionInd, CheckActionInd, SendCommandInd, AttemptFailsInd, PublishResultInd
  DEF Executor
<1>4. CASE SwimExecutes \/ ChangeEnds \/ RequestStop \/ FinishStop \/ UNCHANGED vars
  BY <1>4, SwimExecutesInd, ChangeEndsInd, FinishStopInd, QuietSteps
<1> QED BY <1>1, <1>2, <1>3, <1>4 DEF Next

(* Only SwimExecutes ends SWIM.                                            *)
LEMMA ActionStepCalm ==
    ASSUME ActionIndInv, [Next]_vars, crashed', ~crashed PROVE ~calm
<1>1. CASE SwimExecutes BY <1>1, SwimExecutesInd
<1>2. CASE ~SwimExecutes
  BY <1>2 DEF Next, Telemetry, HighTelemetry, NormalTelemetry, BatchTelemetry, Reasoner, StartReasoning,
     FinishReasoning, Verifier, StartVerification, FinishVerification, StopVerification, Executor,
     ReceiveAction, GetAction, CheckAction, SendCommand, AttemptFails, PublishResult, WorkerStep,
     ChangeEnds, RequestStop, FinishStop, vars
<1> QED BY <1>1, <1>2

(* Whatever is deployed, a success that is reported was executed, what was *)
(* rejected is not, and the fast controller alone never ends SWIM.         *)
THEOREM ActionsHold == Spec => []ActionInv
<1>1. Init => ActionIndInv BY ActionInitInd
<1>2. ActionIndInv /\ [Next]_vars => ActionIndInv' BY ActionStepInd
<1>3. ActionIndInv => ActionInv BY ActionIndImplies
<1> QED BY <1>1, <1>2, <1>3, PTL DEF Spec

(* What the preconditions were checked for stays true until the command    *)
(* arrives, unless the pool changes in between.                            *)
THEOREM BoundsKept == Spec => PreconditionsKeepBounds
<1>1. Init => ActionIndInv BY ActionInitInd
<1>2. ActionIndInv /\ [Next]_vars => ActionIndInv' BY ActionStepInd
<1>3. ActionIndInv /\ [Next]_vars => [crashed' /\ ~crashed => ~calm]_vars BY ActionStepCalm
<1> QED BY <1>1, <1>2, <1>3, PTL DEF Spec, PreconditionsKeepBounds

-----------------------------------------------------------------------------
(* The NLA server.  The induction needs how far a call is with its trace:  *)
(* while a run's directory is its own, a number belongs to one call, both  *)
(* files of a number are written by the call it belongs to, and a sidecar  *)
(* that names activations comes after the whole file of them.              *)

Waiting == {"unasked", "generate", "number"}
Tracing == {"save", "saving", "describe", "describing"}
Numbered == {r \in NLARequests : file[r] # NoFile}

(* What a call asked decides the stages it goes through.                   *)
StagesFit ==
    \A r \in NLARequests :
        /\ stage[r] = "generate" => asked[r] \in {"completion", "chat"}
        /\ stage[r] = "number" => nla.capture # "off"
        /\ stage[r] \in {"forward", "read"} => asked[r] \in {"completion", "analysis"}
        /\ stage[r] \in {"number"} \cup Tracing => asked[r] = "completion"
        /\ stage[r] \in Waiting \/ asked[r] # "completion" => file[r] = NoFile
        /\ stage[r] \in {"forward", "read"} \cup Tracing /\ asked[r] = "completion"
              => file[r] \in Files
        /\ stage[r] \in {"forward", "read", "save", "saving"} \cup Waiting => sidecar[r] = "text"
        /\ asked[r] = "completion" /\ stage[r] = "answered" /\ nla.capture # "off"
              => file[r] \in Files

(* Numbers are given out one after the other.                              *)
NumbersFit ==
    /\ count <= Cardinality(Numbered)
    /\ ~Reused =>
          /\ \A r \in Numbered : file[r][1] <= starts /\ (file[r][1] = starts => file[r][2] <= count)
          /\ \A r, s \in Numbered : file[r] = file[s] => r = s

(* A file is of the call it was written by.                                *)
FilesFit ==
    /\ \A f \in Files : json[f].written # "no" => json[f].of \in NLARequests
    /\ \A f \in Files : json[f].written = "whole" => stage[json[f].of] = "answered"
    /\ ~Reused =>
          /\ \A f \in Files : json[f].written # "no" => file[json[f].of] = f
          /\ \A r \in NLARequests : sidecar[r] = "activations"
                => file[r] \in Files /\ npz[file[r]] = [written |-> "whole", of |-> r]

(* While one call is served at a time, what is read is its own.            *)
OwnFits ==
    nla.serial =>
        /\ \A r, s \in InHand : r = s
        /\ \A r \in NLARequests :
              LET own == [of |-> r, tokens |-> IF asked[r] = "analysis" THEN "prefix" ELSE "all"]
              IN  /\ stage[r] = "read" => resid = own
                  /\ stage[r] \in {"save", "saving"} => taken[r] = own
                  /\ stage[r] = "answered" /\ asked[r] = "analysis" => taken[r] = own
                  /\ sidecar[r] = "activations" => taken[r] = own /\ asked[r] = "completion"

(* A call that goes without activations has set the flag or its sidecar.   *)
FailuresFit ==
    ~Reused /\ nla.capture = "full" =>
        \A r \in Numbered :
            /\ file[r][1] = Directory /\ sidecar[r] = "text"
            /\ stage[r] \in {"describe", "describing", "answered"}
            => trace_error

NLAIndInv ==
    /\ NLATypeOK /\ StagesFit /\ NumbersFit /\ FilesFit /\ OwnFits /\ FailuresFit
    /\ AnsweredAreTraced /\ ListedOpens

LEMMA FilePairs ==
    /\ NoFile \notin Files
    /\ \A f \in Files : f[1] \in 1..MaxStarts /\ f[2] \in 1..Cardinality(NLARequests) /\ f = <<f[1], f[2]>>
    /\ \A a \in 1..MaxStarts, b \in 1..Cardinality(NLARequests) : <<a, b>> \in Files
  BY DEF Files, NoFile

LEMMA NLAInitInd == NLAInit => NLAIndInv
<1> SUFFICES ASSUME NLAInit PROVE NLAIndInv OBVIOUS
<1> USE NLAAssumption
<1>1. Cardinality(NLARequests) \in Nat BY FS_CardinalityType
<1>2. NLATypeOK
  <2>1. Absent \in [written : {"no", "torn", "whole"}, of : NLARequests \cup {NoRequest}]
    BY DEF Absent
  <2>2. npz \in [Files -> [written : {"no", "torn", "whole"}, of : NLARequests \cup {NoRequest}]]
        /\ json \in [Files -> [written : {"no", "torn", "whole"}, of : NLARequests \cup {NoRequest}]]
    BY <2>1 DEF NLAInit
  <2>3. starts \in 1..MaxStarts /\ count \in 0..Cardinality(NLARequests) BY <1>1 DEF NLAInit
  <2>4. resid = None /\ taken \in [NLARequests -> Activations \cup {None}]
        /\ file \in [NLARequests -> Files \cup {NoFile}]
    BY DEF NLAInit
  <2> QED BY <2>2, <2>3, <2>4 DEF NLAInit, NLATypeOK
<1>3. StagesFit BY DEF NLAInit, StagesFit, Tracing, Waiting
<1>4. Numbered = {} BY DEF NLAInit, Numbered
<1>5. NumbersFit BY <1>4, FS_EmptySet DEF NLAInit, NumbersFit
<1>6. FilesFit BY DEF NLAInit, FilesFit, Absent
<1>7. OwnFits BY DEF NLAInit, OwnFits, InHand
<1>8. FailuresFit BY <1>4 DEF FailuresFit
<1>9. AnsweredAreTraced /\ ListedOpens BY DEF NLAInit, AnsweredAreTraced, ListedOpens
<1> QED BY <1>2, <1>3, <1>5, <1>6, <1>7, <1>8, <1>9 DEF NLAIndInv

(* A call is taken up.                                                     *)
LEMMA AskInd ==
    ASSUME NLAIndInv, NEW r \in NLARequests, Ask(r) PROVE NLAIndInv'
<1> USE NLAAssumption DEF Goes
<1>1. PICK k \in {"completion", "chat", "analysis"} :
        /\ asked' = [asked EXCEPT ![r] = k]
        /\ \/ stage' = [stage EXCEPT ![r] = IF k = "analysis" THEN "forward" ELSE "generate"]
           \/ stage' = [stage EXCEPT ![r] = "refused"]
  BY DEF Ask
<1>2. /\ stage[r] = "unasked" /\ (nla.serial => InHand = {})
      /\ UNCHANGED <<nla, starts, resid, taken, file, sidecar, count, npz, json, trace_error, listed>>
  BY DEF Ask, diskVars
<1>3. NLATypeOK /\ StagesFit /\ NumbersFit /\ FilesFit /\ OwnFits /\ FailuresFit
      /\ AnsweredAreTraced /\ ListedOpens
  BY DEF NLAIndInv
<1>4. NLATypeOK' BY <1>1, <1>2, <1>3 DEF NLATypeOK, Ended
<1>5. file[r] = NoFile /\ sidecar[r] = "text" BY <1>2, <1>3 DEF StagesFit, Waiting
<1>6. StagesFit' BY <1>1, <1>2, <1>3, <1>5 DEF StagesFit, Waiting, Tracing, NLATypeOK
<1>7. NumbersFit' BY <1>2, <1>3 DEF NumbersFit, Numbered, Reused
<1>8. FilesFit' BY <1>1, <1>2, <1>3 DEF FilesFit, Reused, NLATypeOK
<1>9. OwnFits'
  <2> SUFFICES ASSUME nla.serial
               PROVE  /\ \A t, u \in InHand' : t = u
                      /\ \A t \in NLARequests :
                            LET own == [of |-> t, tokens |-> IF asked'[t] = "analysis" THEN "prefix" ELSE "all"]
                            IN  /\ stage'[t] = "read" => resid' = own
                                /\ stage'[t] \in {"save", "saving"} => taken'[t] = own
                                /\ stage'[t] = "answered" /\ asked'[t] = "analysis" => taken'[t] = own
                                /\ sidecar'[t] = "activations"
                                      => taken'[t] = own /\ asked'[t] = "completion"
    BY <1>2 DEF OwnFits
  <2>1. \A t \in NLARequests \ {r} : stage'[t] = stage[t] /\ asked'[t] = asked[t]
    BY <1>1, <1>3 DEF NLATypeOK
  <2>2. stage'[r] \in {"forward", "generate", "refused"} BY <1>1, <1>3 DEF NLATypeOK
  <2>3. InHand = {} BY <1>2
  <2>4. InHand' \subseteq {r} BY <2>1, <2>3 DEF InHand
  <2>5. ASSUME NEW t \in NLARequests \ {r}
        PROVE  LET own == [of |-> t, tokens |-> IF asked'[t] = "analysis" THEN "prefix" ELSE "all"]
               IN  /\ stage'[t] = "read" => resid' = own
                   /\ stage'[t] \in {"save", "saving"} => taken'[t] = own
                   /\ stage'[t] = "answered" /\ asked'[t] = "analysis" => taken'[t] = own
                   /\ sidecar'[t] = "activations" => taken'[t] = own /\ asked'[t] = "completion"
    BY <1>2, <1>3, <2>1, <2>5 DEF OwnFits
  <2> QED BY <1>2, <1>5, <2>2, <2>4, <2>5
<1>10. FailuresFit'
  BY <1>1, <1>2, <1>3, <1>5 DEF FailuresFit, Numbered, Reused, Directory, NLATypeOK
<1>11. AnsweredAreTraced' BY <1>1, <1>2, <1>3 DEF AnsweredAreTraced, Reused, NLATypeOK
<1>12. ListedOpens' BY <1>2, <1>3 DEF ListedOpens, Reused, Opens
<1> QED BY <1>4, <1>6, <1>7, <1>8, <1>9, <1>10, <1>11, <1>12 DEF NLAIndInv

(* Tokens are decoded, to the last one or not.                             *)
LEMMA GenerateInd ==
    ASSUME NLAIndInv, NEW r \in NLARequests, Decode(r) \/ Generated(r) PROVE NLAIndInv'
<1> USE NLAAssumption DEF Goes
<1>3. NLATypeOK /\ StagesFit /\ NumbersFit /\ FilesFit /\ OwnFits /\ FailuresFit
      /\ AnsweredAreTraced /\ ListedOpens
  BY DEF NLAIndInv
<1>1. stage[r] = "generate" /\ resid' \in {resid, [of |-> r, tokens |-> "decoding"]}
      /\ UNCHANGED <<nla, starts, asked, taken, file, sidecar, count, npz, json, trace_error, listed>>
  BY DEF Decode, Generated, requestVars, diskVars
<1>2. \/ UNCHANGED stage
      \/ stage' = [stage EXCEPT ![r] = "error"]
      \/ /\ asked[r] = "chat" \/ nla.capture = "off"
         /\ stage' = [stage EXCEPT ![r] = "answered"]
      \/ /\ asked[r] # "chat" /\ nla.capture # "off"
         /\ stage' = [stage EXCEPT ![r] = "number"]
  BY DEF Decode, Generated, requestVars
<1>4. NLATypeOK' BY <1>1, <1>2, <1>3 DEF NLATypeOK, Ended, Activations
<1>5. file[r] = NoFile /\ sidecar[r] = "text" BY <1>1, <1>3 DEF StagesFit, Waiting
<1>6. StagesFit' BY <1>1, <1>2, <1>3, <1>5 DEF StagesFit, Waiting, Tracing, NLATypeOK
<1>7. NumbersFit' BY <1>1, <1>3 DEF NumbersFit, Numbered, Reused
<1>8. FilesFit' BY <1>1, <1>2, <1>3 DEF FilesFit, Reused, NLATypeOK
<1>9. OwnFits'
  <2>1. nla.serial => \A s \in NLARequests : s # r => s \notin InHand
    BY <1>1, <1>3 DEF OwnFits, InHand, Ended
  <2>2. nla.serial => \A s \in InHand' : s \in InHand
    BY <1>1, <1>2, <1>3 DEF InHand, Ended, NLATypeOK
  <2>3. \A s \in NLARequests : stage'[s] \in {"read", "save", "saving"} => s # r /\ stage'[s] = stage[s] /\ s \in InHand
    BY <1>1, <1>2, <1>3 DEF InHand, Ended, NLATypeOK
  <2>4. \A s \in NLARequests : stage'[s] = "answered" /\ asked[s] = "analysis" => stage[s] = "answered"
    BY <1>1, <1>2, <1>3 DEF StagesFit, NLATypeOK
  <2> QED BY <1>1, <1>3, <2>1, <2>2, <2>3, <2>4 DEF OwnFits
<1>10. FailuresFit'
  BY <1>1, <1>2, <1>3, <1>5 DEF FailuresFit, Numbered, Reused, Directory, NLATypeOK
<1>11. AnsweredAreTraced'
  BY <1>1, <1>2, <1>3 DEF AnsweredAreTraced, Reused, NLATypeOK, StagesFit
<1>12. ListedOpens' BY <1>1, <1>3 DEF ListedOpens, Reused, Opens
<1> QED BY <1>4, <1>6, <1>7, <1>8, <1>9, <1>10, <1>11, <1>12 DEF NLAIndInv

(* A trace gets its number.                                                *)
LEMMA NumberInd ==
    ASSUME NLAIndInv, NEW r \in NLARequests, Number(r) PROVE NLAIndInv'
<1> USE NLAAssumption DEF Goes
<1>3. NLATypeOK /\ StagesFit /\ NumbersFit /\ FilesFit /\ OwnFits /\ FailuresFit
      /\ AnsweredAreTraced /\ ListedOpens
  BY DEF NLAIndInv
<1>1. /\ stage[r] = "number" /\ count' = count + 1
      /\ file' = [file EXCEPT ![r] = <<Directory, count + 1>>]
      /\ stage' = [stage EXCEPT ![r] = IF nla.capture = "full" THEN "forward" ELSE "describe"]
      /\ UNCHANGED <<nla, starts, asked, resid, taken, sidecar, npz, json, trace_error, listed>>
  BY DEF Number, diskVars
<1>2. file[r] = NoFile /\ asked[r] = "completion" /\ sidecar[r] = "text" /\ nla.capture # "off"
  BY <1>1, <1>3 DEF StagesFit, Waiting
<1>a. Numbered \subseteq NLARequests /\ r \notin Numbered BY <1>2 DEF Numbered
<1>b. /\ Cardinality(NLARequests) \in Nat /\ Cardinality(Numbered) \in Nat
      /\ Cardinality(Numbered \cup {r}) = Cardinality(Numbered) + 1
      /\ Cardinality(Numbered \cup {r}) <= Cardinality(NLARequests)
  <2>1. IsFiniteSet(Numbered) BY <1>a, FS_Subset
  <2>2. IsFiniteSet(Numbered \cup {r}) /\ Cardinality(Numbered \cup {r}) = Cardinality(Numbered) + 1
    BY <1>a, <2>1, FS_AddElement
  <2>3. Numbered \cup {r} \subseteq NLARequests BY <1>a
  <2> QED BY <2>1, <2>2, <2>3, FS_CardinalityType, FS_Subset
<1>c. count + 1 \in 1..Cardinality(NLARequests) /\ Directory \in 1..MaxStarts
  BY <1>b, <1>3 DEF NumbersFit, NLATypeOK, Directory
<1>d. <<Directory, count + 1>> \in Files BY <1>c, FilePairs
<1>e. <<Directory, count + 1>> # NoFile BY <1>d, FilePairs
<1>4. NLATypeOK' BY <1>1, <1>3, <1>c, <1>d DEF NLATypeOK
<1>6. StagesFit' BY <1>1, <1>2, <1>3, <1>d DEF StagesFit, Waiting, Tracing, NLATypeOK
<1>f. Numbered' = Numbered \cup {r} BY <1>1, <1>3, <1>e DEF Numbered, NLATypeOK
<1>7. NumbersFit'
  <2>1. count' <= Cardinality(Numbered') BY <1>1, <1>3, <1>b, <1>f DEF NumbersFit, NLATypeOK
  <2>2. ASSUME ~Reused'
        PROVE  /\ \A s \in Numbered' : file'[s][1] <= starts' /\ (file'[s][1] = starts' => file'[s][2] <= count')
               /\ \A s, t \in Numbered' : file'[s] = file'[t] => s = t
    <3>1. ~Reused /\ Directory = starts BY <2>2, <1>1, <1>3 DEF Reused, Directory, NLATypeOK
    <3>2. /\ \A s \in Numbered : file[s][1] <= starts /\ (file[s][1] = starts => file[s][2] <= count)
          /\ \A s, t \in Numbered : file[s] = file[t] => s = t
      BY <3>1, <1>3 DEF NumbersFit
    <3>3. file'[r] = <<starts, count + 1>> BY <1>1, <1>3, <3>1 DEF NLATypeOK
    <3>4. \A s \in Numbered : s # r /\ file'[s] = file[s] /\ file[s] \in Files
      BY <1>1, <1>3, <1>a DEF NLATypeOK, Numbered
    <3>5. \A s \in Numbered : file[s][2] \in Int /\ file[s][1] \in Int BY <3>4, FilePairs
    <3>6. starts \in Int /\ count \in Int /\ count' = count + 1 /\ starts' = starts BY <1>1, <1>3, <1>b DEF NLATypeOK
    <3>7. \A s \in Numbered : file'[s] # file'[r]
      BY <3>2, <3>3, <3>4, <3>5, <3>6
    <3>8. file'[r][1] = starts /\ file'[r][2] = count + 1 BY <3>3
    <3>9. \A s \in Numbered' : file'[s][1] <= starts' /\ (file'[s][1] = starts' => file'[s][2] <= count')
      BY <1>f, <3>2, <3>4, <3>5, <3>6, <3>8
    <3> QED BY <1>f, <3>2, <3>4, <3>7, <3>9
  <2> QED BY <2>1, <2>2 DEF NumbersFit
<1>g. \A f \in Files : ~Reused /\ json[f].written # "no" => json[f].of # r
  BY <1>2, <1>3, FilePairs DEF FilesFit
<1>8. FilesFit'
  BY <1>1, <1>2, <1>3, <1>g DEF FilesFit, Reused, NLATypeOK
<1>9. OwnFits' BY <1>1, <1>2, <1>3 DEF OwnFits, InHand, NLATypeOK, Ended
<1>10. FailuresFit'
  BY <1>1, <1>2, <1>3, <1>f DEF FailuresFit, Reused, Directory, NLATypeOK
<1>11. AnsweredAreTraced'
  BY <1>1, <1>2, <1>3 DEF AnsweredAreTraced, Reused, NLATypeOK
<1>12. ListedOpens' BY <1>1, <1>3 DEF ListedOpens, Reused, Opens
<1> QED BY <1>4, <1>6, <1>7, <1>8, <1>9, <1>10, <1>11, <1>12 DEF NLAIndInv

(* A pass over the tokens, what the hook left of it, and a failure.        *)
LEMMA PassInd ==
    ASSUME NLAIndInv, NEW r \in NLARequests, Forward(r) \/ Read(r) \/ PassFails(r) PROVE NLAIndInv'
<1> USE NLAAssumption DEF Goes
<1>3. NLATypeOK /\ StagesFit /\ NumbersFit /\ FilesFit /\ OwnFits /\ FailuresFit
      /\ AnsweredAreTraced /\ ListedOpens
  BY DEF NLAIndInv
<1>1. /\ stage[r] \in {"forward", "read"}
      /\ UNCHANGED <<nla, starts, asked, file, sidecar, count, npz, json, listed>>
  BY DEF Forward, Read, PassFails, diskVars
<1>2. \/ /\ stage[r] = "forward" /\ stage' = [stage EXCEPT ![r] = "read"]
         /\ resid' = [of |-> r, tokens |-> IF asked[r] = "analysis" THEN "prefix" ELSE "all"]
         /\ UNCHANGED <<taken, trace_error>>
      \/ /\ stage[r] = "read" /\ taken' = [taken EXCEPT ![r] = resid]
         /\ stage' = [stage EXCEPT ![r] = IF asked[r] = "analysis" THEN "answered" ELSE "save"]
         /\ UNCHANGED <<resid, trace_error>>
      \/ /\ asked[r] = "analysis" /\ stage' = [stage EXCEPT ![r] = "error"]
         /\ UNCHANGED <<taken, resid, trace_error>>
      \/ /\ asked[r] # "analysis" /\ stage' = [stage EXCEPT ![r] = "describe"]
         /\ trace_error' = TRUE /\ UNCHANGED <<taken, resid>>
  BY DEF Forward, Pass, Read, PassFails
<1>4. NLATypeOK'
  <2>1. [of |-> r, tokens |-> IF asked[r] = "analysis" THEN "prefix" ELSE "all"] \in Activations
    BY DEF Activations
  <2>2. resid' \in Activations \cup {None} /\ taken' \in [NLARequests -> Activations \cup {None}]
    BY <1>2, <1>3, <2>1 DEF NLATypeOK
  <2> QED BY <1>1, <1>2, <1>3, <2>2 DEF NLATypeOK, Ended
<1>6. StagesFit' BY <1>1, <1>2, <1>3 DEF StagesFit, Waiting, Tracing, NLATypeOK
<1>7. NumbersFit' BY <1>1, <1>3 DEF NumbersFit, Numbered, Reused
<1>8. FilesFit' BY <1>1, <1>2, <1>3 DEF FilesFit, Reused, NLATypeOK
<1>9. OwnFits'
  <2>1. nla.serial => \A s \in NLARequests : s # r => s \notin InHand
    BY <1>1, <1>3 DEF OwnFits, InHand, Ended
  <2>2. \A s \in InHand' : s \in InHand
    BY <1>1, <1>2, <1>3 DEF InHand, Ended, NLATypeOK
  <2>3. \A s \in NLARequests : s # r => stage'[s] = stage[s] /\ taken'[s] = taken[s]
    BY <1>2, <1>3 DEF NLATypeOK
  <2>4. \A s \in NLARequests : stage[s] \in {"read", "save", "saving"} => s \in InHand
    BY DEF InHand, Ended
  <2>5. sidecar[r] = "text" BY <1>1, <1>3 DEF StagesFit
  <2>6. nla.serial => (stage[r] = "read" => resid = [of |-> r, tokens |-> IF asked[r] = "analysis" THEN "prefix" ELSE "all"])
    BY <1>3 DEF OwnFits
  <2>7. /\ stage'[r] = "read" => resid' = [of |-> r, tokens |-> IF asked[r] = "analysis" THEN "prefix" ELSE "all"]
        /\ stage'[r] # "saving"
        /\ stage'[r] \in {"save", "answered"} => taken'[r] = resid /\ stage[r] = "read"
    BY <1>1, <1>2, <1>3 DEF NLATypeOK
  <2> QED BY <1>1, <1>3, <2>1, <2>2, <2>3, <2>4, <2>5, <2>6, <2>7 DEF OwnFits
<1>10. FailuresFit'
  <2>1. asked[r] = "analysis" => file[r] = NoFile BY <1>3 DEF StagesFit
  <2> QED BY <1>1, <1>2, <1>3, <2>1 DEF FailuresFit, Numbered, Reused, Directory, NLATypeOK
<1>11. AnsweredAreTraced'
  BY <1>1, <1>2, <1>3 DEF AnsweredAreTraced, Reused, NLATypeOK
<1>12. ListedOpens' BY <1>1, <1>3 DEF ListedOpens, Reused, Opens
<1> QED BY <1>4, <1>6, <1>7, <1>8, <1>9, <1>10, <1>11, <1>12 DEF NLAIndInv

(* The file of the activations is written, or an exception cuts it short.  *)
LEMMA SaveInd ==
    ASSUME NLAIndInv, NEW r \in NLARequests, SaveActivations(r) PROVE NLAIndInv'
<1> USE NLAAssumption DEF Goes
<1>3. NLATypeOK /\ StagesFit /\ NumbersFit /\ FilesFit /\ OwnFits /\ FailuresFit
      /\ AnsweredAreTraced /\ ListedOpens
  BY DEF NLAIndInv
<1>1. /\ stage[r] \in {"save", "saving"}
      /\ UNCHANGED <<nla, starts, asked, resid, taken, file, count, json, trace_error, listed>>
  BY DEF SaveActivations
<1>2. \/ /\ stage' = [stage EXCEPT ![r] = "saving"]
         /\ npz' = [npz EXCEPT ![file[r]] = [written |-> "torn", of |-> r]]
         /\ UNCHANGED sidecar
      \/ /\ stage' = [stage EXCEPT ![r] = "describe"]
         /\ npz' = [npz EXCEPT ![file[r]] = [written |-> "whole", of |-> r]]
         /\ sidecar' = [sidecar EXCEPT ![r] = "activations"]
         /\ stage[r] = "saving"
      \/ /\ stage' = [stage EXCEPT ![r] = "describe"]
         /\ sidecar' = [sidecar EXCEPT ![r] = "error"] /\ UNCHANGED npz
  BY DEF SaveActivations
<1>a. asked[r] = "completion" /\ file[r] \in Files /\ sidecar[r] = "text"
  BY <1>1, <1>3 DEF StagesFit, Tracing
<1>4. NLATypeOK'
  <2>1. npz' \in [Files -> [written : {"no", "torn", "whole"}, of : NLARequests \cup {NoRequest}]]
    BY <1>2, <1>3, <1>a DEF NLATypeOK
  <2> QED BY <1>1, <1>2, <1>3, <2>1 DEF NLATypeOK, Ended
<1>6. StagesFit' BY <1>1, <1>2, <1>3, <1>a DEF StagesFit, Waiting, Tracing, NLATypeOK
<1>7. NumbersFit' BY <1>1, <1>3 DEF NumbersFit, Numbered, Reused
<1>8. FilesFit'
  <2>1. /\ \A f \in Files : json'[f].written # "no" => json'[f].of \in NLARequests
        /\ \A f \in Files : json'[f].written = "whole" => stage'[json'[f].of] = "answered"
    BY <1>1, <1>2, <1>3 DEF FilesFit, NLATypeOK
  <2>2. ASSUME ~Reused'
        PROVE  /\ \A f \in Files : json'[f].written # "no" => file'[json'[f].of] = f
               /\ \A s \in NLARequests : sidecar'[s] = "activations"
                     => file'[s] \in Files /\ npz'[file'[s]] = [written |-> "whole", of |-> s]
    <3>1. ~Reused BY <2>2, <1>1 DEF Reused
    <3>2. \A f \in Files : json'[f].written # "no" => file'[json'[f].of] = f
      BY <1>1, <1>3, <3>1 DEF FilesFit
    <3>3. ASSUME NEW s \in NLARequests, sidecar'[s] = "activations", s # r
          PROVE  file'[s] \in Files /\ npz'[file'[s]] = [written |-> "whole", of |-> s]
      <4>1. file[s] \in Files /\ npz[file[s]] = [written |-> "whole", of |-> s]
        BY <1>2, <1>3, <3>1, <3>3 DEF FilesFit, NLATypeOK
      <4>2. file[s] # file[r]
        BY <1>3, <1>a, <3>1, <3>3, <4>1, FilePairs DEF NumbersFit, Numbered
      <4> QED BY <1>1, <1>2, <1>3, <4>1, <4>2 DEF NLATypeOK
    <3>4. ASSUME sidecar'[r] = "activations"
          PROVE  file'[r] \in Files /\ npz'[file'[r]] = [written |-> "whole", of |-> r]
      BY <1>1, <1>2, <1>3, <1>a, <3>4 DEF NLATypeOK
    <3> QED BY <3>2, <3>3, <3>4
  <2> QED BY <2>1, <2>2 DEF FilesFit
<1>9. OwnFits'
  <2>1. nla.serial => \A s \in NLARequests : s # r => s \notin InHand
    BY <1>1, <1>3 DEF OwnFits, InHand, Ended
  <2>2. \A s \in InHand' : s \in InHand
    BY <1>1, <1>2, <1>3 DEF InHand, Ended, NLATypeOK
  <2>3. \A s \in NLARequests : s # r => stage'[s] = stage[s] /\ sidecar'[s] = sidecar[s]
    BY <1>2, <1>3 DEF NLATypeOK
  <2>4. stage'[r] # "read" BY <1>2, <1>3 DEF NLATypeOK
  <2> QED BY <1>1, <1>3, <1>a, <2>1, <2>2, <2>3, <2>4 DEF OwnFits
<1>10. FailuresFit'
  BY <1>1, <1>2, <1>3 DEF FailuresFit, Numbered, Reused, Directory, NLATypeOK
<1>11. AnsweredAreTraced'
  BY <1>1, <1>2, <1>3 DEF AnsweredAreTraced, Reused, NLATypeOK
<1>12. ListedOpens' BY <1>1, <1>3 DEF ListedOpens, Reused, Opens
<1> QED BY <1>4, <1>6, <1>7, <1>8, <1>9, <1>10, <1>11, <1>12 DEF NLAIndInv

(* The sidecar is written, or what it is written with raises.              *)
LEMMA DescribeInd ==
    ASSUME NLAIndInv, NEW r \in NLARequests, WriteSidecar(r) PROVE NLAIndInv'
<1> USE NLAAssumption DEF Goes
<1>3. NLATypeOK /\ StagesFit /\ NumbersFit /\ FilesFit /\ OwnFits /\ FailuresFit
      /\ AnsweredAreTraced /\ ListedOpens
  BY DEF NLAIndInv
<1>1. /\ stage[r] \in {"describe", "describing"}
      /\ UNCHANGED <<nla, starts, asked, resid, taken, file, count, npz, trace_error, listed>>
  BY DEF WriteSidecar
<1>2. \/ /\ stage' = [stage EXCEPT ![r] = "describing"] /\ stage[r] = "describe"
         /\ json' = [json EXCEPT ![file[r]] = [written |-> "torn", of |-> r]]
         /\ UNCHANGED sidecar
      \/ /\ stage' = [stage EXCEPT ![r] = "answered"]
         /\ json' = [json EXCEPT ![file[r]] = [written |-> "whole", of |-> r]]
         /\ UNCHANGED sidecar
      \/ /\ stage' = [stage EXCEPT ![r] = "answered"]
         /\ sidecar' = [sidecar EXCEPT ![r] = "unwritten"] /\ UNCHANGED json
  BY DEF WriteSidecar
<1>a. asked[r] = "completion" /\ file[r] \in Files
  BY <1>1, <1>3 DEF StagesFit, Tracing
<1>4. NLATypeOK'
  <2>1. json' \in [Files -> [written : {"no", "torn", "whole"}, of : NLARequests \cup {NoRequest}]]
    BY <1>2, <1>3, <1>a DEF NLATypeOK
  <2> QED BY <1>1, <1>2, <1>3, <2>1 DEF NLATypeOK, Ended
<1>6. StagesFit' BY <1>1, <1>2, <1>3, <1>a DEF StagesFit, Waiting, Tracing, NLATypeOK
<1>7. NumbersFit' BY <1>1, <1>3 DEF NumbersFit, Numbered, Reused
<1>b. \A f \in Files : f # file[r] => json'[f] = json[f] BY <1>2, <1>3 DEF NLATypeOK
<1>c. \A s \in NLARequests : s # r => stage'[s] = stage[s] /\ sidecar'[s] = sidecar[s]
  BY <1>2, <1>3 DEF NLATypeOK
<1>d. \/ json'[file[r]] = [written |-> "torn", of |-> r] /\ stage'[r] = "describing"
      \/ json'[file[r]] = [written |-> "whole", of |-> r] /\ stage'[r] = "answered"
      \/ json'[file[r]] = json[file[r]] /\ stage'[r] = "answered" /\ sidecar'[r] = "unwritten"
  BY <1>2, <1>3, <1>a DEF NLATypeOK
<1>8. FilesFit'
  <2>0. json[file[r]].written # "no" => json[file[r]].of \in NLARequests
    BY <1>3, <1>a DEF FilesFit
  <2>1. \A f \in Files : json'[f].written # "no" => json'[f].of \in NLARequests
    BY <1>3, <1>b, <1>d, <1>a, <2>0 DEF FilesFit
  <2>2. ASSUME NEW f \in Files, json'[f].written = "whole" PROVE stage'[json'[f].of] = "answered"
    <3>1. CASE json'[f] = json[f] /\ stage'[r] = "answered"
      BY <1>3, <1>c, <2>2, <3>1 DEF FilesFit
    <3>2. CASE json'[f] = json[f] /\ f # file[r]
      BY <1>1, <1>3, <1>c, <2>2, <3>2 DEF FilesFit
    <3>3. CASE f = file[r] /\ json'[f] # json[f]
      BY <1>d, <2>2, <3>3
    <3> QED BY <1>b, <1>d, <2>2, <3>1, <3>2, <3>3
  <2>3. ASSUME ~Reused'
        PROVE  /\ \A f \in Files : json'[f].written # "no" => file'[json'[f].of] = f
               /\ \A s \in NLARequests : sidecar'[s] = "activations"
                     => file'[s] \in Files /\ npz'[file'[s]] = [written |-> "whole", of |-> s]
    <3>1. ~Reused BY <2>3, <1>1 DEF Reused
    <3>2. ASSUME NEW f \in Files, json'[f].written # "no" PROVE file'[json'[f].of] = f
      <4>1. json'[f] = json[f] \/ (f = file[r] /\ json'[f].of = r) BY <1>b, <1>d
      <4> QED BY <1>1, <1>3, <3>1, <3>2, <4>1 DEF FilesFit
    <3>3. \A s \in NLARequests : sidecar'[s] = "activations" => sidecar[s] = "activations"
      BY <1>2, <1>3 DEF NLATypeOK
    <3> QED BY <1>1, <1>3, <3>1, <3>2, <3>3 DEF FilesFit
  <2> QED BY <2>1, <2>2, <2>3 DEF FilesFit
<1>9. OwnFits'
  <2>1. nla.serial => \A s \in NLARequests : s # r => s \notin InHand
    BY <1>1, <1>3 DEF OwnFits, InHand, Ended
  <2>2. \A s \in InHand' : s \in InHand
    BY <1>1, <1>2, <1>3 DEF InHand, Ended, NLATypeOK
  <2>3. stage'[r] \notin {"read", "save", "saving"} BY <1>2, <1>3 DEF NLATypeOK
  <2>4. \A s \in NLARequests : sidecar'[s] = "activations" => sidecar[s] = "activations"
    BY <1>2, <1>3 DEF NLATypeOK
  <2> QED BY <1>1, <1>3, <1>a, <1>c, <2>1, <2>2, <2>3, <2>4 DEF OwnFits
<1>10. FailuresFit'
  <2>1. \A s \in NLARequests : sidecar'[s] = "text" => sidecar[s] = "text"
    BY <1>2, <1>3 DEF NLATypeOK
  <2> QED BY <1>1, <1>3, <1>c, <2>1 DEF FailuresFit, Numbered, Reused, Directory
<1>11. AnsweredAreTraced'
  <2> SUFFICES ASSUME ~Reused', nla'.capture # "off", NEW s \in NLARequests,
                      asked'[s] = "completion", stage'[s] = "answered", sidecar'[s] # "unwritten"
               PROVE  json'[file'[s]] = [written |-> "whole", of |-> s]
    BY DEF AnsweredAreTraced
  <2>1. CASE s = r BY <1>1, <1>d, <2>1
  <2>2. CASE s # r
    <3>1. file[s] \in Files /\ stage[s] = "answered" /\ json[file[s]] = [written |-> "whole", of |-> s]
      BY <1>1, <1>3, <1>c, <2>2 DEF AnsweredAreTraced, Reused, StagesFit
    <3>2. file[s] # file[r]
      BY <1>1, <1>3, <1>a, <2>2, <3>1, FilePairs DEF NumbersFit, Numbered, Reused
    <3> QED BY <1>1, <1>b, <3>1, <3>2
  <2> QED BY <2>1, <2>2
<1>12. ListedOpens'
  <2> SUFFICES ASSUME ~Reused', NEW f \in listed' PROVE Opens(f)'
    BY DEF ListedOpens
  <2>1. f \in Files /\ json[f].written = "whole" /\ ~Reused
    BY <1>1, <1>3 DEF ListedOpens, Opens, Reused, NLATypeOK
  <2>2. f = file[r] => json[f].of = r
    <3>1. SUFFICES ASSUME f = file[r] PROVE json[f].of = r OBVIOUS
    <3>2. json[f].of \in NLARequests /\ file[json[f].of] = f
      BY <1>3, <2>1 DEF FilesFit
    <3> QED BY <1>3, <1>a, <2>1, <3>1, <3>2, FilePairs DEF NumbersFit, Numbered
  <2>3. f # file[r] BY <1>1, <1>3, <2>1, <2>2 DEF FilesFit
  <2> QED BY <1>b, <2>1, <2>3 DEF Opens
<1> QED BY <1>4, <1>6, <1>7, <1>8, <1>9, <1>10, <1>11, <1>12 DEF NLAIndInv

(* The next process counts anew, in a directory of its own or not.         *)
LEMMA RestartInd == ASSUME NLAIndInv, Restart PROVE NLAIndInv'
<1> USE NLAAssumption
<1>3. NLATypeOK /\ StagesFit /\ NumbersFit /\ FilesFit /\ OwnFits /\ FailuresFit
      /\ AnsweredAreTraced /\ ListedOpens
  BY DEF NLAIndInv
<1>1. /\ starts < MaxStarts /\ starts' = starts + 1 /\ count' = 0 /\ resid' = None
      /\ stage' = [r \in NLARequests |-> IF r \in InHand THEN "lost" ELSE stage[r]]
      /\ UNCHANGED <<nla, asked, taken, file, sidecar, npz, json, listed>>
      /\ trace_error' = FALSE
  BY DEF Restart, diskVars
<1>2. starts \in Nat /\ starts >= 1 BY <1>3 DEF NLATypeOK
<1>a. Cardinality(NLARequests) \in Nat /\ Cardinality(Numbered) \in Nat
  <2>1. Numbered \subseteq NLARequests BY DEF Numbered
  <2> QED BY <2>1, FS_CardinalityType, FS_Subset
<1>b. \A r \in NLARequests : stage'[r] \in {stage[r], "lost"}
                            /\ (stage'[r] = stage[r] => stage[r] \in Ended \cup {"unasked"})
  BY <1>1 DEF InHand, Ended
<1>c. Reused' <=> nla.named BY <1>1, <1>2 DEF Reused
<1>d. ~Reused' => ~Reused BY <1>1, <1>c DEF Reused
<1>4. NLATypeOK'
  <2>1. starts' \in 1..MaxStarts BY <1>1, <1>3 DEF NLATypeOK
  <2>2. stage' \in [NLARequests -> Ended \cup {"unasked", "generate", "number", "forward", "read",
                                               "save", "saving", "describe", "describing"}]
    BY <1>1, <1>3 DEF NLATypeOK, Ended
  <2>3. count' \in 0..Cardinality(NLARequests) BY <1>1, <1>a
  <2>4. resid' \in Activations \cup {None} /\ trace_error' \in BOOLEAN BY <1>1
  <2> QED BY <1>1, <1>3, <2>1, <2>2, <2>3, <2>4 DEF NLATypeOK
<1>6. StagesFit' BY <1>1, <1>3, <1>b DEF StagesFit, Waiting, Tracing, Ended
<1>7. NumbersFit'
  <2>1. Numbered' = Numbered BY <1>1 DEF Numbered
  <2>2. ASSUME ~Reused', NEW r \in Numbered'
        PROVE  file'[r][1] <= starts' /\ (file'[r][1] = starts' => file'[r][2] <= count')
    <3>1. file[r] \in Files BY <1>3, <2>1, <2>2 DEF NLATypeOK, Numbered
    <3>2. file[r][1] \in Int /\ file[r][1] <= starts
      BY <1>3, <1>d, <2>1, <2>2, <3>1, FilePairs DEF NumbersFit
    <3> QED BY <1>1, <1>2, <3>2
  <2>3. ASSUME ~Reused' PROVE \A r, s \in Numbered' : file'[r] = file'[s] => r = s
    BY <1>1, <1>3, <1>d, <2>1, <2>3 DEF NumbersFit
  <2> QED BY <1>1, <1>a, <2>1, <2>2, <2>3 DEF NumbersFit
<1>8. FilesFit'
  <2>1. \A r \in NLARequests : stage[r] = "answered" => stage'[r] = "answered"
    BY <1>1 DEF InHand, Ended
  <2>2. \A f \in Files : json'[f].written = "whole" => stage'[json'[f].of] = "answered"
    BY <1>1, <1>3, <2>1 DEF FilesFit
  <2> QED BY <1>1, <1>3, <1>d, <2>2 DEF FilesFit
<1>9. OwnFits' BY <1>1, <1>3, <1>b DEF OwnFits, InHand, Ended
<1>10. FailuresFit'
  <2> SUFFICES ASSUME ~Reused', NEW r \in Numbered', file'[r][1] = Directory' PROVE FALSE
    BY DEF FailuresFit
  <2>1. Directory' = starts + 1 /\ ~Reused BY <1>1, <1>c, <1>d DEF Directory
  <2>2. r \in Numbered /\ file[r] \in Files BY <1>1, <1>3 DEF Numbered, NLATypeOK
  <2>3. file[r][1] \in Int /\ file[r][1] <= starts BY <1>3, <2>1, <2>2, FilePairs DEF NumbersFit
  <2> QED BY <1>1, <1>2, <2>1, <2>3
<1>11. AnsweredAreTraced' BY <1>1, <1>3, <1>b, <1>d DEF AnsweredAreTraced
<1>12. ListedOpens' BY <1>1, <1>3, <1>d DEF ListedOpens, Opens
<1> QED BY <1>4, <1>6, <1>7, <1>8, <1>9, <1>10, <1>11, <1>12 DEF NLAIndInv

(* The page lists the traces of a run.                                     *)
LEMMA ListInd == ASSUME NLAIndInv, ListTraces PROVE NLAIndInv'
<1>3. NLATypeOK /\ StagesFit /\ NumbersFit /\ FilesFit /\ OwnFits /\ FailuresFit
      /\ AnsweredAreTraced /\ ListedOpens
  BY DEF NLAIndInv
<1>1. /\ UNCHANGED <<nla, starts, asked, stage, taken, file, sidecar, resid, count, npz, json, trace_error>>
      /\ \A f \in listed' : f \in Files /\ Opens(f)
  BY DEF ListTraces, requestVars, diskVars
<1>4. NLATypeOK' BY <1>1, <1>3 DEF NLATypeOK
<1>6. StagesFit' BY <1>1, <1>3 DEF StagesFit
<1>7. NumbersFit' BY <1>1, <1>3 DEF NumbersFit, Numbered, Reused
<1>8. FilesFit' BY <1>1, <1>3 DEF FilesFit, Reused
<1>9. OwnFits' BY <1>1, <1>3 DEF OwnFits, InHand
<1>10. FailuresFit' BY <1>1, <1>3 DEF FailuresFit, Numbered, Reused, Directory
<1>11. AnsweredAreTraced' BY <1>1, <1>3 DEF AnsweredAreTraced, Reused
<1>12. ListedOpens' BY <1>1 DEF ListedOpens, Opens
<1> QED BY <1>4, <1>6, <1>7, <1>8, <1>9, <1>10, <1>11, <1>12 DEF NLAIndInv

LEMMA NLAStepInd == NLAIndInv /\ [NLANext]_nlaVars => NLAIndInv'
<1> SUFFICES ASSUME NLAIndInv, [NLANext]_nlaVars PROVE NLAIndInv' OBVIOUS
<1>1. CASE UNCHANGED nlaVars
  <2>1. /\ UNCHANGED <<nla, starts, asked, stage, taken, file, sidecar, resid, count, npz, json,
                       trace_error, listed>>
        /\ NLATypeOK /\ StagesFit /\ NumbersFit /\ FilesFit /\ OwnFits /\ FailuresFit
        /\ AnsweredAreTraced /\ ListedOpens
    BY <1>1 DEF nlaVars, requestVars, diskVars, NLAIndInv
  <2>2. NLATypeOK' /\ StagesFit' /\ NumbersFit' BY <2>1 DEF NLATypeOK, StagesFit, NumbersFit, Numbered, Reused
  <2>3. FilesFit' /\ OwnFits' BY <2>1 DEF FilesFit, OwnFits, Reused, InHand
  <2>4. FailuresFit' /\ AnsweredAreTraced' /\ ListedOpens'
    BY <2>1 DEF FailuresFit, Numbered, Directory, AnsweredAreTraced, ListedOpens, Opens, Reused
  <2> QED BY <2>2, <2>3, <2>4 DEF NLAIndInv
<1>2. ASSUME NEW r \in NLARequests, Ask(r) \/ Decode(r) \/ Serve(r) PROVE NLAIndInv'
  BY <1>2, AskInd, GenerateInd, NumberInd, PassInd, SaveInd, DescribeInd DEF Serve
<1> QED BY <1>1, <1>2, RestartInd, ListInd DEF NLANext

LEMMA NLAIndImplies == NLAIndInv => NLAInv
<1> SUFFICES ASSUME NLAIndInv PROVE NLAInv OBVIOUS
<1>1. NLATypeOK /\ StagesFit /\ NumbersFit /\ FilesFit /\ OwnFits /\ FailuresFit
      /\ AnsweredAreTraced /\ ListedOpens
  BY DEF NLAIndInv
<1>2. \A f \in Traces : f \in Files /\ json[f].of \in NLARequests /\ stage[json[f].of] = "answered"
  BY <1>1 DEF Traces, FilesFit
<1>3. PairsMatch BY <1>1, <1>2 DEF PairsMatch, FilesFit, Promises, Traces
<1>4. OwnActivations
  <2> SUFFICES ASSUME nla.serial PROVE OwnActivations BY DEF OwnActivations
  <2>1. \A f \in Traces : Promises(f) => taken[json[f].of] = [of |-> json[f].of, tokens |-> "all"]
    BY <1>1, <1>2 DEF OwnFits, Promises
  <2>2. \A r \in NLARequests : asked[r] = "analysis" /\ stage[r] = "answered"
                              => taken[r] = [of |-> r, tokens |-> "prefix"]
    BY <1>1 DEF OwnFits
  <2> QED BY <2>1, <2>2 DEF OwnActivations
<1>5. FailuresShown
  <2> SUFFICES ASSUME ~Reused, nla.capture = "full", NEW f \in Traces, f[1] = Directory,
                      sidecar[json[f].of] = "text"
               PROVE  trace_error
    BY DEF FailuresShown
  <2>1. f \in Files /\ file[json[f].of] = f BY <1>1, <1>2 DEF FilesFit, Traces
  <2>2. json[f].of \in Numbered BY <1>2, <2>1, FilePairs DEF Numbered
  <2> QED BY <1>1, <1>2, <2>1, <2>2 DEF FailuresFit
<1> QED BY <1>1, <1>3, <1>4, <1>5 DEF NLAInv

-----------------------------------------------------------------------------
(* The NATS client.  The induction needs which tasks there are in which    *)
(* part of the component's life, that what was let go stays so, and what   *)
(* the library's object is while self.nc refers to it: nothing is lost     *)
(* before the server went away, and nobody is connecting what a task has   *)
(* connected.                                                              *)

TasksFit ==
    /\ life \in {"new", "connecting", "subscribing"} => \A p \in Publishers : at[p] = "ended"
    /\ life = "new" => at[Starter] = "idle"
    /\ life \in Letting => at = Cancelled
    /\ life \in {"detaching"} \cup Letting => ~managed

LinkFits ==
    /\ orphan => life = "stopped"
    /\ life = "stopped" /\ nc # "none" => orphan
    /\ outages = 0 => /\ nc \in {"none", "connecting", "connected"} /\ life # "cut"
                      /\ nc = "connected" => server
    /\ fresh => nc = "connected" /\ is_connected /\ ~orphan
    /\ \A c \in Callers : at[c] = "opening" => ~fresh
    /\ life \in {"draining", "cut", "stopped"} => ~fresh

NatsIndInv == NatsInv /\ TasksFit /\ LinkFits

LEMMA NatsParts ==
    NatsIndInv
    <=> NatsTypeOK /\ OneConnects /\ HearsItsSubjects /\ StopsGoingOn /\ TasksFit /\ LinkFits
BY DEF NatsIndInv, NatsInv

LEMMA NatsInitInd == NatsInit => NatsIndInv
<1> SUFFICES ASSUME NatsInit PROVE NatsIndInv OBVIOUS
<1> USE NatsAssumption
<1>1. NatsTypeOK
  <2>1. outages \in 0..MaxOutages /\ tries \in 0..(MaxAttempts - 1) BY DEF NatsInit
  <2>2. at \in [Callers -> {"idle", "ask", "lock", "opening", "retry", "do", "raised", "ended"}]
    BY DEF NatsInit
  <2> QED BY <2>1, <2>2 DEF NatsInit, NatsTypeOK, Callers
<1>2. OneConnects BY DEF NatsInit, OneConnects, Callers
<1>3. HearsItsSubjects /\ StopsGoingOn
  BY DEF NatsInit, HearsItsSubjects, StopsGoingOn, Working, Letting
<1>4. TasksFit /\ LinkFits BY DEF NatsInit, TasksFit, LinkFits, Callers, Letting
<1> QED BY <1>1, <1>2, <1>3, <1>4 DEF NatsIndInv, NatsInv

(* The server and the library do not touch the component.                  *)
LEMMA LibraryInd == ASSUME NatsIndInv, Library PROVE NatsIndInv'
<1> USE NatsAssumption
<1>1. NatsTypeOK /\ OneConnects /\ HearsItsSubjects /\ StopsGoingOn /\ TasksFit /\ LinkFits
  BY NatsParts
<1>2. /\ UNCHANGED <<external, managed, at, connect_lock, tries, subscriptions, remade, orphan>>
      /\ life' = life \/ (life = "draining" /\ life' = "cut")
  BY DEF Library, ServerChanges, Drops, Reconnects, ReconnectedCb, GivesUp, clientVars, Component
<1>3. CASE ServerChanges
  <2>a. UNCHANGED <<nc, heard, is_connected, fresh, life>> /\ server' = ~server
    BY <1>3 DEF ServerChanges, clientVars, Component
  <2>b. server' \in BOOLEAN BY <2>a
  <2>2. /\ outages' = outages \/ outages' = outages + 1
        /\ outages' <= MaxOutages /\ (server => outages' = outages + 1)
    BY <1>3 DEF ServerChanges
  <2>c. outages' \in 0..MaxOutages BY <1>1, <2>2 DEF NatsTypeOK
  <2>d. outages' = 0 => ~server BY <1>1, <2>2 DEF NatsTypeOK
  <2>e. outages' = 0 => outages = 0 BY <1>1, <2>2 DEF NatsTypeOK
  <2>f. outages' = 0 => server' BY <2>a, <2>d
  <2>1. /\ UNCHANGED <<nc, heard, is_connected, fresh, life>> /\ server' \in BOOLEAN
        /\ outages' \in 0..MaxOutages /\ (outages' = 0 => server' /\ outages = 0)
    BY <2>a, <2>b, <2>c, <2>e, <2>f
  <2>3. NatsTypeOK' /\ OneConnects' /\ HearsItsSubjects' /\ TasksFit'
    BY <1>1, <1>2, <2>1 DEF NatsTypeOK, OneConnects, HearsItsSubjects, TasksFit, Cancelled
  <2>4. StopsGoingOn' BY <1>1, <1>2, <2>1, <2>2 DEF StopsGoingOn, IsConnected, NatsTypeOK
  <2>5. LinkFits' BY <1>1, <1>2, <2>1 DEF LinkFits
  <2> QED BY <2>3, <2>4, <2>5 DEF NatsIndInv, NatsInv
<1>4. CASE Drops \/ Reconnects \/ ReconnectedCb \/ GivesUp
  <2>1. /\ UNCHANGED <<server, outages>> /\ nc \in {"connected", "reconnecting"}
        /\ nc' \in {"connected", "reconnecting", "closed"}
        /\ nc' # "closed" => heard' = heard
        /\ heard' \in {heard, {}}
    BY <1>4 DEF Drops, Reconnects, ReconnectedCb, GivesUp
  <2>b. is_connected' \in {is_connected, TRUE, FALSE} /\ fresh' \in {fresh, FALSE}
    BY <1>4 DEF Drops, Reconnects, ReconnectedCb, GivesUp
  <2>c. is_connected \in BOOLEAN /\ fresh \in BOOLEAN BY <1>1 DEF NatsTypeOK
  <2>d. is_connected' \in BOOLEAN BY <2>b, <2>c
  <2>e. fresh' \in BOOLEAN BY <2>b, <2>c
  <2>f. fresh' => fresh BY <2>b, Zenon
  <2>a. is_connected' \in BOOLEAN /\ fresh' \in BOOLEAN /\ (fresh' => fresh)
    BY <2>d, <2>e, <2>f
  <2>2. /\ nc' = "connected" => server \/ (nc = "connected" /\ nc' = nc)
        /\ nc' # "connected" => (nc = "connected" /\ ~server) \/ nc = "reconnecting"
        /\ life' = "cut" => life = "cut" \/ (nc = "connected" /\ ~server)
    BY <1>1, <1>4 DEF Drops, Reconnects, ReconnectedCb, GivesUp, Component
  <2>3. fresh' => nc' = "connected" /\ is_connected'
    BY <1>1, <1>4 DEF Drops, Reconnects, ReconnectedCb, GivesUp, LinkFits
  <2>4. NatsTypeOK' BY <1>1, <1>2, <2>1, <2>a DEF NatsTypeOK, Letting
  <2>5. OneConnects' BY <1>1, <1>2, <2>1 DEF OneConnects
  <2>6. HearsItsSubjects' BY <1>1, <1>2, <2>1 DEF HearsItsSubjects, Working, Letting
  <2>7. TasksFit' BY <1>1, <1>2 DEF TasksFit, Cancelled, Letting
  <2>8. LinkFits' BY <1>1, <1>2, <2>1, <2>2, <2>3, <2>a DEF LinkFits
  <2>9. StopsGoingOn' BY <1>1, <1>2, <2>1 DEF StopsGoingOn, IsConnected, LinkFits
  <2> QED BY <2>4, <2>5, <2>6, <2>7, <2>8, <2>9 DEF NatsIndInv, NatsInv
<1> QED BY <1>3, <1>4 DEF Library

(* connect, of any task: it takes the lock, and waits for the library.     *)
LEMMA ConnectInd == ASSUME NatsIndInv, NEW c \in Callers, Connect(c) \/ Attempt(c) PROVE NatsIndInv'
<1> USE NatsAssumption
<1>1. NatsTypeOK /\ OneConnects /\ HearsItsSubjects /\ StopsGoingOn /\ TasksFit /\ LinkFits
  BY NatsParts
<1>2. /\ at[c] \in {"lock", "retry", "opening"}
      /\ UNCHANGED <<server, outages, orphan, subscriptions, life, external, managed>>
  BY DEF Connect, Attempt, Dials, clientVars
<1>3. \/ Moves(c, "do") /\ UNCHANGED clientVars /\ at[c] = "lock"
      \/ (connect_lock = Nobody \/ connect_lock = c) /\ Dials(c) /\ ~IsConnected
      \/ at[c] = "opening" /\ Opened(c)
      \/ at[c] = "opening" /\ OpenFails(c)
  BY <1>1 DEF Connect, OneConnects, Attempt, StillNeeded, IsConnected
<1>4. life \notin {"new"} \cup Letting
      /\ (c \in Publishers => life \notin {"connecting", "subscribing"})
  BY <1>1, <1>2 DEF TasksFit, Cancelled, Callers
<1>5. StopsGoingOn' BY <1>2, <1>4 DEF StopsGoingOn, Letting
<1>6. TasksFit'
  <2>1. \A p \in Publishers : p # c => at'[p] = at[p]
    BY <1>1, <1>3 DEF Moves, NatsTypeOK, Callers, Dials, Opened, OpenFails
  <2> QED BY <1>1, <1>2, <1>4, <2>1 DEF TasksFit, Letting
<1>7. CASE Moves(c, "do") /\ UNCHANGED clientVars /\ at[c] = "lock"
  <2>1. NatsTypeOK' BY <1>1, <1>2, <1>7 DEF NatsTypeOK, Moves, clientVars
  <2>2. OneConnects' BY <1>1, <1>2, <1>7 DEF OneConnects, Moves, clientVars, NatsTypeOK
  <2>3. HearsItsSubjects' BY <1>1, <1>2, <1>7 DEF HearsItsSubjects, clientVars
  <2>4. LinkFits' BY <1>1, <1>2, <1>7 DEF LinkFits, clientVars, Moves, NatsTypeOK
  <2> QED BY <1>5, <1>6, <2>1, <2>2, <2>3, <2>4 DEF NatsIndInv, NatsInv
<1>8. CASE (connect_lock = Nobody \/ connect_lock = c) /\ Dials(c) /\ ~IsConnected
  <2>1. NatsTypeOK' BY <1>1, <1>2, <1>8 DEF NatsTypeOK, Moves, Dials
  <2>2. OneConnects' BY <1>1, <1>2, <1>8 DEF OneConnects, Moves, Dials, NatsTypeOK, Callers
  <2>3. HearsItsSubjects' BY <1>1, <1>2, <1>8 DEF HearsItsSubjects, Dials
  <2>4. ~fresh BY <1>1, <1>8 DEF LinkFits, IsConnected
  <2>5. LinkFits' BY <1>1, <1>2, <1>4, <1>8, <2>4 DEF LinkFits, Dials, Moves, NatsTypeOK, Letting
  <2> QED BY <1>5, <1>6, <2>1, <2>2, <2>3, <2>5 DEF NatsIndInv, NatsInv
<1>9. CASE at[c] = "opening" /\ Opened(c)
  <2>1. NatsTypeOK' BY <1>1, <1>2, <1>9 DEF NatsTypeOK, Moves, Opened
  <2>2. OneConnects' BY <1>1, <1>2, <1>9 DEF OneConnects, Moves, Opened, NatsTypeOK, Callers
  <2>3. HearsItsSubjects' BY <1>1, <1>2, <1>9 DEF HearsItsSubjects, Opened
  <2>4. \A d \in Callers : at'[d] # "opening"
    BY <1>1, <1>9 DEF OneConnects, Opened, Moves, NatsTypeOK
  <2>5. LinkFits' BY <1>1, <1>2, <1>4, <1>9, <2>4 DEF LinkFits, Opened, Letting
  <2> QED BY <1>5, <1>6, <2>1, <2>2, <2>3, <2>5 DEF NatsIndInv, NatsInv
<1>10. CASE at[c] = "opening" /\ OpenFails(c)
  <2>a. tries' \in 0..(MaxAttempts - 1) BY <1>1, <1>10 DEF NatsTypeOK, OpenFails
  <2>b. /\ connect_lock' \in Callers \cup {Nobody}
        /\ at' \in [Callers -> {"idle", "ask", "lock", "opening", "retry", "do", "raised", "ended"}]
    BY <1>1, <1>10 DEF NatsTypeOK, Moves, OpenFails
  <2>c. /\ nc' = "none" /\ is_connected' = FALSE /\ heard' = {} /\ remade' = remade /\ fresh' = fresh
    BY <1>10 DEF OpenFails
  <2>1. NatsTypeOK' BY <1>1, <1>2, <2>a, <2>b, <2>c DEF NatsTypeOK
  <2>2. OneConnects' BY <1>1, <1>2, <1>10 DEF OneConnects, Moves, OpenFails, NatsTypeOK, Callers
  <2>3. HearsItsSubjects' BY <1>1, <1>2, <2>c DEF HearsItsSubjects
  <2>4. ~fresh BY <1>1, <1>10 DEF LinkFits
  <2>5. LinkFits' BY <1>1, <1>2, <2>c, <2>4 DEF LinkFits
  <2> QED BY <1>5, <1>6, <2>1, <2>2, <2>3, <2>5 DEF NatsIndInv, NatsInv
<1> QED BY <1>3, <1>7, <1>8, <1>9, <1>10

(* A task looks whether there is a connection, publishes and goes on.      *)
LEMMA TaskInd ==
    ASSUME NatsIndInv, NEW c \in Callers,
           EnsureConnected(c) \/ (c \in Publishers /\ PublishMessage(c))
    PROVE  NatsIndInv'
<1> USE NatsAssumption
<1>1. NatsTypeOK /\ OneConnects /\ HearsItsSubjects /\ StopsGoingOn /\ TasksFit /\ LinkFits
  BY NatsParts
<1>2. /\ at[c] \in {"ask", "idle", "do", "raised"}
      /\ \E s \in {"ask", "idle", "do", "lock"} : at' = [at EXCEPT ![c] = s]
      /\ UNCHANGED <<server, outages, nc, orphan, is_connected, connect_lock, tries, subscriptions,
                     heard, remade, fresh, life, external, managed>>
  BY DEF EnsureConnected, PublishMessage, Moves, clientVars
<1>a. /\ life \notin {"new"} \cup Letting
      /\ (c \in Publishers => life \notin {"connecting", "subscribing"})
  BY <1>1 DEF TasksFit, Cancelled, Callers, EnsureConnected, PublishMessage, Working, Letting
<1>3. NatsTypeOK' BY <1>1, <1>2 DEF NatsTypeOK
<1>4. OneConnects' BY <1>1, <1>2 DEF OneConnects, NatsTypeOK
<1>5. HearsItsSubjects' BY <1>1, <1>2 DEF HearsItsSubjects
<1>6. StopsGoingOn' BY <1>2, <1>a DEF StopsGoingOn, Letting
<1>7. TasksFit' BY <1>1, <1>2, <1>a DEF TasksFit, NatsTypeOK, Callers
<1>8. LinkFits' BY <1>1, <1>2 DEF LinkFits, NatsTypeOK
<1> QED BY <1>3, <1>4, <1>5, <1>6, <1>7, <1>8 DEF NatsIndInv, NatsInv

(* The component starts and stops.                                         *)
LEMMA LifeInd ==
    ASSUME NatsIndInv,
           Start \/ StartProcessing \/ Subscribe \/ CreateTasks \/ Attach \/ StartFails \/ Stop
    PROVE  NatsIndInv'
<1> USE NatsAssumption
<1>1. NatsTypeOK /\ OneConnects /\ HearsItsSubjects /\ StopsGoingOn /\ TasksFit /\ LinkFits
  BY NatsParts
<1>s. Starter \in Callers /\ \A p \in Publishers : p \in Callers /\ p # Starter BY DEF Callers
<1>2. ASSUME Start \/ StartProcessing \/ Attach \/ StartFails \/ Stop PROVE NatsIndInv'
  <2>1. /\ UNCHANGED <<server, outages, nc, orphan, is_connected, connect_lock, tries, subscriptions,
                       heard, remade, fresh, external>>
        /\ life' \in {"connecting", "subscribing", "up", "failed", "detaching"} /\ managed' \in BOOLEAN
        /\ at' = at \/ (at[Starter] \in {"idle", "do"}
                        /\ \E s \in {"lock", "ask"} : at' = [at EXCEPT ![Starter] = s])
    BY <1>1, <1>2 DEF Start, StartProcessing, Attach, StartFails, Stop, Moves, clientVars, NatsTypeOK, TasksFit
  <2>2. (life' \in Working => life \in Working) /\ life \notin Letting
    BY <1>2 DEF Start, StartProcessing, Attach, StartFails, Stop, Working, Letting
  <2>3. NatsTypeOK' BY <1>1, <1>s, <2>1 DEF NatsTypeOK, Working
  <2>4. OneConnects' BY <1>1, <1>s, <2>1, <2>2 DEF OneConnects, NatsTypeOK, Letting
  <2>5. HearsItsSubjects' BY <1>1, <2>1, <2>2 DEF HearsItsSubjects, Letting
  <2>6. StopsGoingOn' BY <2>1 DEF StopsGoingOn
  <2>7. TasksFit'
    BY <1>1, <1>2, <1>s, <2>1 DEF TasksFit, Letting, NatsTypeOK, Start, StartProcessing, Attach, StartFails, Stop
  <2>8. LinkFits' BY <1>1, <1>s, <2>1, <2>2 DEF LinkFits, NatsTypeOK, Letting
  <2> QED BY <2>3, <2>4, <2>5, <2>6, <2>7, <2>8 DEF NatsIndInv, NatsInv
<1>3. ASSUME Subscribe PROVE NatsIndInv'
  <2>1. /\ UNCHANGED <<server, outages, nc, orphan, is_connected, connect_lock, tries, remade, fresh,
                       external, managed, life>>
        /\ life = "subscribing" /\ at[Starter] = "do" /\ at' = [at EXCEPT ![Starter] = "ask"]
    BY <1>3 DEF Subscribe, Moves
  <2>2. PICK s \in Subjects \ subscriptions : subscriptions' = subscriptions \cup {s} /\ heard' = heard \cup {s}
    BY <1>3 DEF Subscribe
  <2>3. NatsTypeOK' BY <1>1, <1>s, <2>1, <2>2 DEF NatsTypeOK
  <2>4. OneConnects' BY <1>1, <1>s, <2>1 DEF OneConnects, NatsTypeOK
  <2>5. HearsItsSubjects' BY <1>1, <2>1, <2>2 DEF HearsItsSubjects, Working, Letting
  <2>6. StopsGoingOn' BY <2>1 DEF StopsGoingOn
  <2>7. TasksFit' BY <1>1, <1>s, <2>1 DEF TasksFit, NatsTypeOK, Letting
  <2>8. LinkFits' BY <1>1, <1>s, <2>1 DEF LinkFits, NatsTypeOK, Letting
  <2> QED BY <2>3, <2>4, <2>5, <2>6, <2>7, <2>8 DEF NatsIndInv, NatsInv
<1>4. ASSUME CreateTasks PROVE NatsIndInv'
  <2>1. /\ life = "subscribing" /\ at[Starter] = "ask" /\ subscriptions = Subjects
        /\ life' = "attaching" /\ at' = [c \in Callers |-> "idle"]
        /\ UNCHANGED <<server, outages, nc, orphan, is_connected, connect_lock, tries, subscriptions,
                       heard, remade, fresh, external, managed>>
    BY <1>4 DEF CreateTasks, clientVars
  <2>2. connect_lock = Nobody BY <1>1, <1>s, <2>1 DEF OneConnects, TasksFit, NatsTypeOK, Callers
  <2>3. NatsTypeOK' BY <1>1, <2>1 DEF NatsTypeOK, Working
  <2>4. OneConnects' BY <1>1, <2>1, <2>2 DEF OneConnects, Callers
  <2>5. HearsItsSubjects' BY <1>1, <2>1 DEF HearsItsSubjects, Letting
  <2>6. StopsGoingOn' BY <2>1 DEF StopsGoingOn
  <2>7. TasksFit' BY <2>1 DEF TasksFit, Letting
  <2>8. LinkFits' BY <1>1, <1>s, <2>1 DEF LinkFits, NatsTypeOK, Letting
  <2> QED BY <2>3, <2>4, <2>5, <2>6, <2>7, <2>8 DEF NatsIndInv, NatsInv
<1> QED BY <1>2, <1>3, <1>4

(* The tasks are cancelled, and the connection is closed or left behind.   *)
LEMMA CloseInd == ASSUME NatsIndInv, CancelTasks \/ Close \/ DrainEnds PROVE NatsIndInv'
<1> USE NatsAssumption
<1>1. NatsTypeOK /\ OneConnects /\ HearsItsSubjects /\ StopsGoingOn /\ TasksFit /\ LinkFits
  BY NatsParts
<1>2. /\ Cancelled \in [Callers -> {"idle", "ended"}] /\ \A p \in Publishers : Cancelled[p] = "ended"
      /\ \A c \in Callers : Cancelled[c] \in {"idle", "ended"}
  BY DEF Cancelled, Callers
<1>3. ASSUME CancelTasks PROVE NatsIndInv'
  <2>1. /\ life = "detaching" /\ life' = "closing" /\ at' = Cancelled
        /\ connect_lock' = Nobody /\ tries' = 0
        /\ UNCHANGED <<server, outages, nc, orphan, is_connected, subscriptions, heard, remade, fresh,
                       external, managed>>
    BY <1>3 DEF CancelTasks
  <2>2. NatsTypeOK' BY <1>1, <1>2, <2>1 DEF NatsTypeOK, Letting
  <2>3. OneConnects' BY <1>2, <2>1 DEF OneConnects, Callers
  <2>4. HearsItsSubjects' BY <1>1, <2>1 DEF HearsItsSubjects, Working, Letting
  <2>5. StopsGoingOn' /\ TasksFit' BY <1>1, <2>1 DEF StopsGoingOn, TasksFit, Cancelled, Letting
  <2>6. LinkFits' BY <1>1, <1>2, <2>1 DEF LinkFits
  <2> QED BY <2>2, <2>3, <2>4, <2>5, <2>6 DEF NatsIndInv, NatsInv
<1>4. ASSUME Close \/ DrainEnds PROVE NatsIndInv'
  <2>1. /\ life \in {"closing", "draining", "cut"} /\ life' \in {"draining", "stopped"}
        /\ UNCHANGED <<server, outages, connect_lock, tries, remade, external, managed, at>>
        /\ subscriptions' \in {subscriptions, {}} /\ heard' \in SUBSET heard
        /\ fresh' = FALSE \/ (fresh' = fresh /\ (life # "closing" \/ nc = "none"))
    BY <1>4 DEF Close, DrainEnds, LetGo
  <2>2. \/ /\ life' = "draining" /\ nc = "connected" /\ fresh' = FALSE
           /\ UNCHANGED <<nc, orphan, is_connected>>
        \/ life' = "stopped" /\ nc = "none" /\ UNCHANGED <<nc, orphan, is_connected, fresh>>
        \/ /\ life' = "stopped" /\ is_connected' = FALSE /\ orphan' = (nc' # "none")
           /\ nc' \in {"none", Abandoned}
           /\ nc' # "none" => nc = "reconnecting" \/ life = "cut" \/ (nc = "connected" /\ ~server)
    BY <1>4 DEF Close, DrainEnds, LetGo, Abandoned
  <2>3. at = Cancelled /\ ~managed BY <1>1, <2>1 DEF TasksFit, Letting
  <2>4. connect_lock = Nobody BY <1>1, <1>2, <2>3 DEF OneConnects, NatsTypeOK, Callers
  <2>a. nc' \in {"none", "connected", "reconnecting"}
    BY <2>2 DEF Abandoned
  <2>b. orphan \in BOOLEAN /\ is_connected \in BOOLEAN /\ fresh \in BOOLEAN BY <1>1 DEF NatsTypeOK
  <2>c. orphan' \in BOOLEAN /\ is_connected' \in BOOLEAN
    BY <2>2, <2>b, Zenon
  <2>d. fresh' \in BOOLEAN BY <2>1, <2>b, Zenon
  <2>5. /\ nc' \in {"none", "connected", "reconnecting"} /\ orphan' \in BOOLEAN
        /\ is_connected' \in BOOLEAN /\ fresh' \in BOOLEAN
    BY <2>a, <2>c, <2>d
  <2>6. NatsTypeOK' BY <1>1, <2>1, <2>5 DEF NatsTypeOK, Letting
  <2>7. OneConnects' BY <1>1, <1>2, <2>1, <2>3, <2>5 DEF OneConnects
  <2>8. HearsItsSubjects' BY <2>1 DEF HearsItsSubjects, Working, Letting
  <2>9. TasksFit' BY <2>1, <2>3 DEF TasksFit, Cancelled, Letting
  <2>10. ~fresh'
    <3>1. nc = "none" => ~fresh BY <1>1 DEF LinkFits
    <3>2. life \in {"draining", "cut"} => ~fresh BY <1>1 DEF LinkFits
    <3>3. life # "closing" => life \in {"draining", "cut"} BY <2>1
    <3> QED BY <2>1, <3>1, <3>2, <3>3, Zenon
  <2>11. nc' # "none" /\ life' = "stopped" => outages > 0
    BY <1>1, <2>2 DEF LinkFits, NatsTypeOK
  <2>12. StopsGoingOn' BY <1>1, <1>2, <2>1, <2>2, <2>3, <2>4, <2>11 DEF StopsGoingOn, IsConnected, LinkFits
  <2>13. LinkFits' BY <1>1, <1>2, <2>1, <2>2, <2>3, <2>5, <2>10, <2>11 DEF LinkFits
  <2> QED BY <2>6, <2>7, <2>8, <2>9, <2>12, <2>13 DEF NatsIndInv, NatsInv
<1> QED BY <1>3, <1>4

LEMMA NatsStepInd == NatsIndInv /\ [NatsNext]_natsVars => NatsIndInv'
<1> SUFFICES ASSUME NatsIndInv, [NatsNext]_natsVars PROVE NatsIndInv' OBVIOUS
<1>1. CASE UNCHANGED natsVars
  <2>1. UNCHANGED <<server, outages, nc, orphan, is_connected, connect_lock, tries, subscriptions,
                    heard, remade, fresh, life, external, managed, at>>
    BY <1>1 DEF natsVars, clientVars
  <2>2. NatsTypeOK /\ OneConnects /\ HearsItsSubjects /\ StopsGoingOn /\ TasksFit /\ LinkFits
    BY NatsParts
  <2>3. NatsTypeOK' /\ OneConnects' BY <2>1, <2>2 DEF NatsTypeOK, OneConnects
  <2>4. HearsItsSubjects' /\ StopsGoingOn' /\ TasksFit' /\ LinkFits'
    BY <2>1, <2>2 DEF HearsItsSubjects, StopsGoingOn, IsConnected, TasksFit, LinkFits, Cancelled
  <2> QED BY <2>3, <2>4 DEF NatsIndInv, NatsInv
<1>2. ASSUME NEW p \in Publishers, Task(p) PROVE NatsIndInv'
  BY <1>2, ConnectInd, TaskInd DEF Task, Callers
<1>3. Starter \in Callers BY DEF Callers
<1> QED BY <1>1, <1>2, <1>3, LibraryInd, ConnectInd, TaskInd, LifeInd, CloseInd DEF NatsNext, Lifecycle

(* Nobody waits for an attempt while there is what a task has connected.   *)
LEMMA NatsStepKeeps ==
    NatsIndInv /\ [NatsNext]_natsVars
    => (fresh /\ fresh' => nc' = nc /\ heard \subseteq heard' /\ remade' = remade)
<1> SUFFICES ASSUME NatsIndInv, [NatsNext]_natsVars, fresh, fresh'
             PROVE  nc' = nc /\ heard \subseteq heard' /\ remade' = remade
  OBVIOUS
<1>1. nc = "connected" /\ IsConnected /\ OneConnects /\ LinkFits
  BY NatsParts DEF LinkFits, IsConnected
<1>2. \A c \in Callers : at[c] \notin {"opening", "retry"}
  BY <1>1 DEF OneConnects, LinkFits
<1>3. \A c \in Callers : Connect(c) \/ Attempt(c) => UNCHANGED clientVars
  BY <1>1, <1>2 DEF Connect, Attempt, StillNeeded
<1>4. Library \/ Start \/ Stop \/ StartProcessing \/ Subscribe \/ CreateTasks \/ Attach \/ StartFails
      \/ CancelTasks => nc' = nc /\ heard \subseteq heard' /\ remade' = remade
  BY <1>1 DEF Library, ServerChanges, Drops, Reconnects, ReconnectedCb, GivesUp, Start, Stop,
              StartProcessing, Subscribe, CreateTasks, Attach, StartFails, CancelTasks, clientVars
<1>5. \A c \in Callers : EnsureConnected(c) \/ PublishMessage(c) => UNCHANGED clientVars
  BY DEF EnsureConnected, PublishMessage
<1>6. ~Close BY <1>1 DEF Close
<1>7. ~DrainEnds BY <1>1 DEF DrainEnds, LinkFits
<1>8. Starter \in Callers /\ Publishers \subseteq Callers BY DEF Callers
<1>9. UNCHANGED clientVars \/ UNCHANGED natsVars
      => nc' = nc /\ heard \subseteq heard' /\ remade' = remade
  BY DEF clientVars, natsVars
<1> QED BY <1>3, <1>4, <1>5, <1>6, <1>7, <1>8, <1>9 DEF NatsNext, Lifecycle, Task

-----------------------------------------------------------------------------
(* The reasoner.  The induction needs that feedback is never of a later    *)
(* decision than the last one, that a decision which is not stored came    *)
(* after all that were, and that the language model is only asked while    *)
(* the last decision can be judged.                                        *)

StoredBefore ==
    \A i \in DOMAIN action_history :
        /\ action_history[i].feedback.of <= last_inference_action.n
        /\ ~Storable(last_inference_action.decision)
              => action_history[i].action.n < last_inference_action.n

Unreadable == last_inference_action.decision.type = "SET_DIMMER" /\ ~last_inference_action.decision.readable

AskedOnlyBlind == reasoning = "llm" /\ Unreadable => ~Compared(last_inference_snapshots, snapshots)

LLMIndInv == LLMReasonerInv /\ StoredBefore /\ AskedOnlyBlind

(* A decision that the language model may reply, or that its parser makes. *)
LEMMA ParsedDecisions ==
    /\ Parsed \subseteq DecisionType
    /\ \A t \in ActionTypes : Plain(t) \in DecisionType
    /\ NoInference \in Inferences /\ ~Storable(NoInference.decision)
    /\ Unmeasured \in Snapshots /\ NoFeedback \in Feedback
<1>1. \A t \in ActionTypes : Plain(t) \in DecisionType BY DEF DecisionType, Plain
<1>2. "ALERT" \in ActionTypes /\ "NO_ACTION" \in ActionTypes BY DEF ActionTypes
<1>3. Parsed \subseteq DecisionType BY <1>1, <1>2, LLMReasonerAssumption DEF Parsed
<1>4. NoInference \in Inferences BY <1>1, <1>2 DEF NoInference, Inferences
<1>5. ~Storable(NoInference.decision) BY DEF NoInference, Storable, Plain
<1>6. Unmeasured \in Snapshots BY DEF Snapshots
<1>7. NoFeedback \in Feedback BY <1>2 DEF NoFeedback, Feedback
<1> QED BY <1>1, <1>3, <1>4, <1>5, <1>6, <1>7

LEMMA LLMInitInd == LLMInit => LLMIndInv
<1> SUFFICES ASSUME LLMInit PROVE LLMIndInv OBVIOUS
<1> USE LLMReasonerAssumption
<1>1. action_history = <<>> /\ action_history \in Seq(Entries) /\ Len(action_history) = 0
      /\ DOMAIN action_history = {}
  BY DEF LLMInit
<1>2. LLMTypeOK
  <2>1. prompt \in PromptType BY DEF LLMInit, PromptType
  <2> QED BY <1>1, <2>1, ParsedDecisions DEF LLMInit, LLMTypeOK
<1>3. HistoryIsOfInferences /\ FeedbackAtItsEntry /\ StoredBefore
  BY <1>1, ParsedDecisions DEF LLMInit, HistoryIsOfInferences, FeedbackAtItsEntry, StoredBefore
<1>4. TemplateHasItsValues /\ RemembersThePast BY DEF LLMInit, TemplateHasItsValues, RemembersThePast, NoInference
<1>5. AskedOnlyBlind BY DEF LLMInit, AskedOnlyBlind
<1> QED BY <1>2, <1>3, <1>4, <1>5 DEF LLMIndInv, LLMReasonerInv

(* Steps that touch neither the history nor the prompt.                    *)
LEMMA QuietInd ==
    ASSUME LLMIndInv, Begin \/ KBFails \/ AttemptAgain \/ LLMFails \/ RateTick PROVE LLMIndInv'
<1> USE LLMReasonerAssumption
<1>1. /\ LLMTypeOK /\ HistoryIsOfInferences /\ FeedbackAtItsEntry /\ TemplateHasItsValues
      /\ RemembersThePast /\ StoredBefore /\ AskedOnlyBlind
  BY DEF LLMIndInv, LLMReasonerInv
<1>2. UNCHANGED <<snapshots, action_history, last_inference_action, last_inference_snapshots, reloads, prompt>>
  BY DEF Begin, KBFails, AttemptAgain, LLMFails, RateTick, memoryVars, Prompted
<1>3. /\ reasonings' \in 0..MaxReasonings /\ reasonings <= reasonings'
      /\ since_run' \in 0..RateLimit /\ llm_attempt' \in 0..(LLMRetries - 1)
      /\ \/ reasoning' = "idle"
         \/ reasoning' = reasoning
         \/ reasoning' = "kb" /\ reasonings' = reasonings + 1
  BY <1>1 DEF Begin, KBFails, AttemptAgain, LLMFails, RateTick, Fallback, LLMTypeOK
<1>4. LLMTypeOK' BY <1>1, <1>2, <1>3 DEF LLMTypeOK
<1>5. HistoryIsOfInferences' /\ FeedbackAtItsEntry' /\ TemplateHasItsValues' /\ StoredBefore'
  BY <1>1, <1>2 DEF HistoryIsOfInferences, FeedbackAtItsEntry, TemplateHasItsValues, StoredBefore
<1>6. RemembersThePast'
  BY <1>1, <1>2, <1>3 DEF RemembersThePast, LLMTypeOK, Inferences
<1>7. AskedOnlyBlind' BY <1>1, <1>2, <1>3 DEF AskedOnlyBlind, Unreadable
<1> QED BY <1>4, <1>5, <1>6, <1>7 DEF LLMIndInv, LLMReasonerInv

LEMMA EntryType ==
    ASSUME NEW h \in Seq(Entries), NEW i \in DOMAIN h
    PROVE  h[i].action \in Inferences /\ h[i].action.n \in Nat /\ h[i].feedback.of \in Nat
<1>1. h[i] \in Entries OBVIOUS
<1>2. h[i].action \in Inferences /\ h[i].feedback \in Feedback BY <1>1 DEF Entries
<1> QED BY <1>2 DEF Inferences, Feedback

(* What is judged gets its feedback, at the latest entry.                  *)
LEMMA FeedbackGiven ==
    ASSUME NEW h \in Seq(Entries), NEW fb \in Feedback
    PROVE  /\ GiveFeedback(h, fb) \in Seq(Entries)
           /\ Len(GiveFeedback(h, fb)) = Len(h)
           /\ \A i \in 1..Len(h) :
                 /\ GiveFeedback(h, fb)[i].action = h[i].action
                 /\ GiveFeedback(h, fb)[i].feedback = IF i = Len(h) THEN fb ELSE h[i].feedback
<1>1. CASE h = <<>> BY <1>1 DEF GiveFeedback
<1>2. CASE h # <<>>
  <2> DEFINE e == [h[Len(h)] EXCEPT !.feedback = fb]
  <2>1. Len(h) \in 1..Len(h) /\ h[Len(h)] \in Entries BY <1>2
  <2>2. e \in Entries /\ e.action = h[Len(h)].action /\ e.feedback = fb BY <2>1 DEF Entries
  <2>3. GiveFeedback(h, fb) = [h EXCEPT ![Len(h)] = e] BY <1>2 DEF GiveFeedback
  <2> HIDE DEF e
  <2>4. [h EXCEPT ![Len(h)] = e] \in Seq(Entries) /\ Len([h EXCEPT ![Len(h)] = e]) = Len(h)
    BY <2>1, <2>2
  <2> QED BY <2>1, <2>2, <2>3, <2>4
<1> QED BY <1>1, <1>2

LEMMA EvaluationType ==
    ASSUME NEW a \in Inferences, NEW prev \in Snapshots, NEW new \in Snapshots
    PROVE  EvaluateAction(a, prev, new) \in Feedback
<1>1. \A t, l, rt, u : Evaluation(t, l, rt, u) \in {"FAILED", "NEUTRAL", "SUCCESSFUL"}
  BY DEF Evaluation
<1> QED BY <1>1 DEF EvaluateAction, Feedback, Inferences, DecisionType

LEMMA AnswerInd == ASSUME LLMIndInv, NEW new \in Snapshots, KBAnswers(new) PROVE LLMIndInv'
<1> USE LLMReasonerAssumption
<1> DEFINE h == action_history
           last == last_inference_action
           fb == EvaluateAction(last, last_inference_snapshots, new)
<1>1. /\ LLMTypeOK /\ HistoryIsOfInferences /\ FeedbackAtItsEntry /\ TemplateHasItsValues
      /\ RemembersThePast /\ StoredBefore /\ AskedOnlyBlind
  BY DEF LLMIndInv, LLMReasonerInv
<1>2. /\ reasoning = "kb" /\ snapshots' = new
      /\ UNCHANGED <<reasonings, since_run, last_inference_action, last_inference_snapshots, reloads, prompt>>
      /\ reasoning' \in {"idle", "llm"} /\ llm_attempt' \in {0, llm_attempt}
      /\ reasoning' = "llm" => ~EvaluationRaises(new)
      /\ h' = h \/ (NeedsFeedback(last) /\ h' = GiveFeedback(h, fb))
  BY DEF KBAnswers, Fallback, Prompted
<1>3. h \in Seq(Entries) /\ last \in Inferences /\ fb \in Feedback /\ Len(h) \in Nat
      /\ DOMAIN h = 1..Len(h)
  BY <1>1, EvaluationType DEF LLMTypeOK
<1>4. /\ h' \in Seq(Entries) /\ Len(h') = Len(h) /\ DOMAIN h' = DOMAIN h
      /\ \A i \in DOMAIN h :
            /\ h'[i].action = h[i].action
            /\ \/ h'[i].feedback = h[i].feedback
               \/ i = Len(h) /\ NeedsFeedback(last) /\ h'[i].feedback = fb
  <2>1. CASE h' = h BY <1>3, <2>1
  <2>2. CASE NeedsFeedback(last) /\ h' = GiveFeedback(h, fb)
    <3> HIDE DEF h, last, fb
    <3> QED BY <1>3, <2>2, FeedbackGiven
  <2> QED BY <1>2, <2>1, <2>2
<1>5. LLMTypeOK' BY <1>1, <1>2, <1>4 DEF LLMTypeOK
<1>6. HistoryIsOfInferences'
  <2>1. h' = <<>> <=> h = <<>> BY <1>3, <1>4
  <2>2. h # <<>> => Len(h) \in DOMAIN h BY <1>3
  <2> QED BY <1>1, <1>2, <1>3, <1>4, <2>1, <2>2 DEF HistoryIsOfInferences
<1>7. fb.of = last.n /\ fb.action_taken = last.decision.type BY DEF EvaluateAction
<1>8. \A i \in DOMAIN h : h[i].action \in Inferences /\ h[i].action.n \in Nat /\ h[i].feedback.of \in Nat
  BY <1>3, EntryType
<1>9. FeedbackAtItsEntry'
  <2> SUFFICES ASSUME NEW i \in DOMAIN h, h'[i].feedback # NoFeedback
               PROVE  /\ h'[i].feedback.of >= h[i].action.n
                      /\ i < Len(h) => h'[i].feedback.of < h[i + 1].action.n
                      /\ h'[i].feedback.of = h[i].action.n => h'[i].feedback.action_taken = h[i].action.decision.type
    <3>1. \A i \in DOMAIN h : i < Len(h) => i + 1 \in DOMAIN h BY <1>3
    <3> QED BY <1>4, <3>1 DEF FeedbackAtItsEntry
  <2>1. CASE h'[i].feedback = h[i].feedback BY <1>1, <2>1 DEF FeedbackAtItsEntry
  <2>2. CASE i = Len(h) /\ NeedsFeedback(last) /\ h'[i].feedback = fb
    <3>1. h[i].action.n <= last.n BY <1>1 DEF HistoryIsOfInferences
    <3>2. Storable(last.decision) => h[i].action = last BY <1>1, <2>2 DEF HistoryIsOfInferences
    <3>3. ~Storable(last.decision) => h[i].action.n < last.n BY <1>1 DEF StoredBefore
    <3>4. last.n \in Nat BY <1>3 DEF Inferences
    <3> HIDE DEF h, last, fb
    <3> QED BY <1>3, <1>7, <1>8, <2>2, <3>1, <3>2, <3>3, <3>4
  <2> QED BY <1>4, <2>1, <2>2
<1>10. StoredBefore'
  <2>1. last.n \in Nat BY <1>3 DEF Inferences
  <2> QED BY <1>1, <1>2, <1>4, <1>7, <2>1 DEF StoredBefore
<1>11. TemplateHasItsValues' BY <1>1, <1>2 DEF TemplateHasItsValues
<1>12. RemembersThePast' BY <1>1, <1>2 DEF RemembersThePast
<1>13. AskedOnlyBlind' BY <1>2 DEF AskedOnlyBlind, Unreadable, EvaluationRaises
<1> QED BY <1>5, <1>6, <1>9, <1>10, <1>11, <1>12, <1>13 DEF LLMIndInv, LLMReasonerInv

(* The language model replies, and the decision is stored or not.          *)
LEMMA RememberFacts ==
    ASSUME NEW h \in Seq(Entries), Len(h) <= HistoryLength, NEW a \in Inferences
    PROVE  \E k \in {0, 1} :
              LET g == Remember(h, a)
              IN  /\ g \in Seq(Entries) /\ Len(g) \in 1..HistoryLength /\ Len(h) = Len(g) - 1 + k
                  /\ g[Len(g)] = [action |-> a, feedback |-> NoFeedback]
                  /\ \A i \in 1..(Len(g) - 1) : i + k \in 1..Len(h) /\ g[i] = h[i + k]
<1> USE LLMReasonerAssumption
<1> DEFINE e == [action |-> a, feedback |-> NoFeedback]
<1>1. e \in Entries BY ParsedDecisions DEF Entries
<1> HIDE DEF e
<1>2. CASE Len(h) = HistoryLength
  <2>1. h # <<>> /\ Tail(h) \in Seq(Entries) /\ Len(Tail(h)) = Len(h) - 1
        /\ \A i \in 1..(Len(h) - 1) : Tail(h)[i] = h[i + 1]
    BY <1>2
  <2>2. Remember(h, a) = Append(Tail(h), e) BY <1>2 DEF Remember, e
  <2>3. /\ Append(Tail(h), e) \in Seq(Entries) /\ Len(Append(Tail(h), e)) = Len(h)
        /\ Append(Tail(h), e)[Len(h)] = e
        /\ \A i \in 1..(Len(h) - 1) : Append(Tail(h), e)[i] = Tail(h)[i]
    BY <1>1, <2>1
  <2>4. \A i \in 1..(Len(h) - 1) : i + 1 \in 1..Len(h) BY <1>2
  <2> QED BY <1>2, <2>1, <2>2, <2>3, <2>4 DEF e
<1>3. CASE Len(h) # HistoryLength
  <2>1. Remember(h, a) = Append(h, e) BY <1>3 DEF Remember, e
  <2>2. /\ Append(h, e) \in Seq(Entries) /\ Len(Append(h, e)) = Len(h) + 1
        /\ Append(h, e)[Len(h) + 1] = e
        /\ \A i \in 1..Len(h) : Append(h, e)[i] = h[i]
    BY <1>1
  <2> QED BY <1>3, <2>1, <2>2 DEF e
<1> QED BY <1>2, <1>3

LEMMA ReplyInd == ASSUME LLMIndInv, LLMReplies PROVE LLMIndInv'
<1> USE LLMReasonerAssumption
<1> DEFINE h == action_history
           last == last_inference_action
<1>1. /\ LLMTypeOK /\ HistoryIsOfInferences /\ FeedbackAtItsEntry /\ TemplateHasItsValues
      /\ RemembersThePast /\ StoredBefore /\ AskedOnlyBlind
  BY DEF LLMIndInv, LLMReasonerInv
<1>2. PICK d \in Parsed : Conclude([n |-> reasonings, decision |-> d]) BY DEF LLMReplies
<1> DEFINE a == [n |-> reasonings, decision |-> d]
<1>3. /\ last' = a /\ last_inference_snapshots' = snapshots
      /\ h' = IF Storable(d) THEN Remember(h, a) ELSE h
      /\ reasoning' = "idle" /\ llm_attempt' = 0
      /\ UNCHANGED <<reasonings, since_run, snapshots, reloads, prompt>>
  BY <1>2 DEF Conclude, Prompted
<1>4. a \in Inferences /\ a.n = reasonings /\ reasonings \in Nat /\ last.n \in Nat
  BY <1>1, ParsedDecisions DEF Inferences, LLMTypeOK
<1>5. last.n < reasonings BY <1>1 DEF RemembersThePast, LLMReplies
<1>6. h \in Seq(Entries) /\ Len(h) <= HistoryLength /\ Len(h) \in Nat /\ DOMAIN h = 1..Len(h)
      /\ \A i \in DOMAIN h : h[i].action.n \in Nat /\ h[i].feedback.of \in Nat
  BY <1>1, EntryType DEF LLMTypeOK
<1>7. \A i \in DOMAIN h : h[i].action.n < reasonings /\ h[i].feedback.of < reasonings
                         /\ Storable(h[i].action.decision)
  <2>1. \A i \in DOMAIN h : h[i].action.n <= last.n /\ Storable(h[i].action.decision)
    BY <1>1 DEF HistoryIsOfInferences
  <2>2. \A i \in DOMAIN h : h[i].feedback.of <= last.n BY <1>1 DEF StoredBefore
  <2> HIDE DEF h, last
  <2> QED BY <1>4, <1>5, <1>6, <2>1, <2>2
<1>8. TemplateHasItsValues' /\ RemembersThePast' /\ AskedOnlyBlind'
  BY <1>1, <1>3, <1>4 DEF TemplateHasItsValues, RemembersThePast, AskedOnlyBlind
<1>t. snapshots \in Snapshots /\ 0 \in 0..(LLMRetries - 1) BY <1>1 DEF LLMTypeOK
<1>9. CASE ~Storable(d)
  <2>1. LLMTypeOK' BY <1>1, <1>3, <1>4, <1>t, <1>9 DEF LLMTypeOK
  <2>2. HistoryIsOfInferences' BY <1>1, <1>3, <1>4, <1>6, <1>7, <1>9 DEF HistoryIsOfInferences
  <2>3. FeedbackAtItsEntry' BY <1>1, <1>3, <1>9 DEF FeedbackAtItsEntry
  <2>4. StoredBefore' BY <1>3, <1>4, <1>6, <1>7, <1>9 DEF StoredBefore
  <2> QED BY <1>8, <2>1, <2>2, <2>3, <2>4 DEF LLMIndInv, LLMReasonerInv
<1>10. CASE Storable(d)
  <2> DEFINE g == Remember(h, a)
  <2>0. h' = g BY <1>3, <1>10
  <2>1. PICK k \in {0, 1} :
          /\ g \in Seq(Entries) /\ Len(g) \in 1..HistoryLength /\ Len(h) = Len(g) - 1 + k
          /\ g[Len(g)] = [action |-> a, feedback |-> NoFeedback]
          /\ \A i \in 1..(Len(g) - 1) : i + k \in 1..Len(h) /\ g[i] = h[i + k]
    <3> HIDE DEF h, a
    <3> QED BY <1>4, <1>6, RememberFacts
  <2>2. LLMTypeOK'
    <3> HIDE DEF g
    <3>1. h' \in Seq(Entries) /\ Len(h') <= HistoryLength BY <2>0, <2>1
    <3> QED BY <1>1, <1>3, <1>4, <1>t, <3>1 DEF LLMTypeOK
  <2>3. \A i, j \in DOMAIN h : i < j => h[i].action.n < h[j].action.n BY <1>1 DEF HistoryIsOfInferences
  <2>4. \A i \in DOMAIN h : h[i].feedback # NoFeedback =>
            /\ h[i].feedback.of >= h[i].action.n
            /\ i < Len(h) => h[i].feedback.of < h[i + 1].action.n
            /\ h[i].feedback.of = h[i].action.n => h[i].feedback.action_taken = h[i].action.decision.type
    BY <1>1 DEF FeedbackAtItsEntry
  <2> HIDE DEF g, h
  <2>5. /\ k \in {0, 1} /\ Len(g) \in Nat /\ Len(g) >= 1 /\ DOMAIN g = 1..Len(g) /\ g # <<>>
        /\ Len(h) = Len(g) - 1 + k
        /\ \A i \in DOMAIN g : i = Len(g) \/ i \in 1..(Len(g) - 1)
    <3>1. Len(g) \in Nat /\ Len(g) >= 1 BY <2>1
    <3>2. DOMAIN g = 1..Len(g) /\ g # <<>> BY <2>1, <3>1
    <3> QED BY <2>1, <3>1, <3>2
  <2>e. g[Len(g)].action = a /\ g[Len(g)].feedback = NoFeedback BY <2>1
  <2> HIDE DEF a
  <2>6. \A i, j \in DOMAIN g : i < j => g[i].action.n < g[j].action.n
    <3> SUFFICES ASSUME NEW i \in DOMAIN g, NEW j \in DOMAIN g, i < j
                 PROVE  g[i].action.n < g[j].action.n
      OBVIOUS
    <3>1. i \in 1..(Len(g) - 1) BY <2>5
    <3>2. i + k \in DOMAIN h /\ g[i] = h[i + k] BY <1>6, <2>1, <3>1
    <3>3. CASE j = Len(g) BY <1>4, <1>7, <2>e, <3>2, <3>3
    <3>4. CASE j \in 1..(Len(g) - 1)
      <4>1. j + k \in DOMAIN h /\ g[j] = h[j + k] BY <1>6, <2>1, <3>4
      <4>2. i + k < j + k BY <2>5, <3>1, <3>4
      <4> QED BY <2>3, <3>2, <4>1, <4>2
    <3> QED BY <2>5, <3>3, <3>4
  <2>7. \A i \in DOMAIN g : g[i].action.n <= a.n /\ Storable(g[i].action.decision)
    <3> SUFFICES ASSUME NEW i \in DOMAIN g PROVE g[i].action.n <= a.n /\ Storable(g[i].action.decision)
      OBVIOUS
    <3>1. CASE i = Len(g) BY <1>4, <1>10, <2>e, <3>1 DEF a
    <3>2. CASE i \in 1..(Len(g) - 1)
      <4>1. i + k \in DOMAIN h /\ g[i] = h[i + k] BY <1>6, <2>1, <3>2
      <4>2. h[i + k].action.n \in Nat /\ h[i + k].action.n < reasonings /\ Storable(h[i + k].action.decision)
        BY <1>6, <1>7, <4>1
      <4> QED BY <1>4, <4>1, <4>2
    <3> QED BY <2>5, <3>1, <3>2
  <2>8. HistoryIsOfInferences'
    BY <1>3, <2>0, <2>5, <2>6, <2>7, <2>e DEF HistoryIsOfInferences, h
  <2>9. \A i \in DOMAIN g : g[i].feedback # NoFeedback =>
            /\ g[i].feedback.of >= g[i].action.n
            /\ i < Len(g) => g[i].feedback.of < g[i + 1].action.n
            /\ g[i].feedback.of = g[i].action.n => g[i].feedback.action_taken = g[i].action.decision.type
    <3> SUFFICES ASSUME NEW i \in DOMAIN g, g[i].feedback # NoFeedback
                 PROVE  /\ g[i].feedback.of >= g[i].action.n
                        /\ i < Len(g) => g[i].feedback.of < g[i + 1].action.n
                        /\ g[i].feedback.of = g[i].action.n
                              => g[i].feedback.action_taken = g[i].action.decision.type
      OBVIOUS
    <3>1. i \in 1..(Len(g) - 1) BY <2>5, <2>e
    <3>2. i + k \in DOMAIN h /\ g[i] = h[i + k] BY <1>6, <2>1, <3>1
    <3>3. g[i].feedback.of < g[i + 1].action.n
      <4>1. CASE i + 1 = Len(g) BY <1>4, <1>7, <2>e, <3>2, <4>1
      <4>2. CASE i + 1 # Len(g)
        <5>1. i + 1 \in 1..(Len(g) - 1) BY <2>5, <3>1, <4>2
        <5>a. g[i + 1] = h[(i + 1) + k] BY <2>1, <5>1
        <5>b. i \in Int /\ k \in Int /\ (i + 1) + k = (i + k) + 1 BY <3>1, <2>5
        <5>2. g[i + 1] = h[(i + k) + 1] /\ i + k < Len(h) BY <2>5, <3>1, <5>1, <5>a, <5>b
        <5> QED BY <2>4, <3>2, <5>2
      <4> QED BY <4>1, <4>2
    <3> QED BY <2>4, <3>2, <3>3
  <2>10. FeedbackAtItsEntry' BY <2>0, <2>9 DEF FeedbackAtItsEntry, h
  <2>11. StoredBefore'
    <3>1. \A i \in DOMAIN g : g[i].feedback.of <= a.n
      <4> SUFFICES ASSUME NEW i \in DOMAIN g PROVE g[i].feedback.of <= a.n OBVIOUS
      <4>1. CASE i = Len(g) BY <1>4, <2>e, <4>1 DEF NoFeedback
      <4>2. CASE i \in 1..(Len(g) - 1)
        <5>1. i + k \in DOMAIN h /\ g[i] = h[i + k] BY <1>6, <2>1, <4>2
        <5>2. h[i + k].feedback.of \in Nat /\ h[i + k].feedback.of < reasonings BY <1>6, <1>7, <5>1
        <5> QED BY <1>4, <5>1, <5>2
      <4> QED BY <2>5, <4>1, <4>2
    <3>2. a.decision = d BY DEF a
    <3> QED BY <1>3, <1>10, <2>0, <3>1, <3>2 DEF StoredBefore, h
  <2> QED BY <1>8, <2>2, <2>8, <2>10, <2>11 DEF LLMIndInv, LLMReasonerInv
<1> QED BY <1>9, <1>10

LEMMA ReloadInd == ASSUME LLMIndInv, ReloadPromptConfig PROVE LLMIndInv'
<1> USE LLMReasonerAssumption
<1>1. /\ LLMTypeOK /\ HistoryIsOfInferences /\ FeedbackAtItsEntry /\ TemplateHasItsValues
      /\ RemembersThePast /\ StoredBefore /\ AskedOnlyBlind
  BY DEF LLMIndInv, LLMReasonerInv
<1>2. /\ reloads' \in 0..MaxReloads /\ reloads' = reloads + 1 /\ reloads \in Nat
      /\ UNCHANGED <<reasonings, since_run, reasoning, llm_attempt, snapshots, action_history,
                     last_inference_action, last_inference_snapshots>>
      /\ prompt' = prompt \/ \E f \in PromptFiles : prompt' = Loaded(f)
  BY <1>1 DEF ReloadPromptConfig, memoryVars, LLMTypeOK
<1>3. /\ prompt \in PromptType /\ prompt.format_vars <= prompt.template /\ prompt.template <= reloads
  BY <1>1 DEF LLMTypeOK, TemplateHasItsValues
<1>4. prompt' \in PromptType /\ prompt'.format_vars <= prompt'.template /\ prompt'.template <= reloads'
  <2>1. CASE prompt' = prompt BY <1>2, <1>3, <2>1 DEF PromptType
  <2>2. ASSUME NEW f \in PromptFiles, prompt' = Loaded(f)
        PROVE  prompt' \in PromptType /\ prompt'.format_vars <= prompt'.template /\ prompt'.template <= reloads'
    <3> DEFINE kept == [prompt EXCEPT !.reloadable = f.values # "null"]
    <3>1. /\ kept \in PromptType /\ kept.template = prompt.template /\ kept.format_vars = prompt.format_vars
          /\ prompt.template \in Nat /\ prompt.format_vars \in Nat
      BY <1>3 DEF PromptType
    <3> HIDE DEF kept
    <3>2. CASE f.template = "absent"
      <4>1. prompt' = kept BY <2>2, <3>2 DEF Loaded, kept
      <4> QED BY <1>2, <1>3, <3>1, <4>1
    <3>3. CASE f.template # "absent"
      <4> DEFINE v == IF f.values = "mapping" THEN reloads' ELSE kept.format_vars
                 b == f.template = "formats"
      <4>1. prompt' = [kept EXCEPT !.template = reloads', !.formats = b, !.format_vars = v]
        BY <2>2, <3>3 DEF Loaded, kept
      <4>2. v \in Nat /\ v <= reloads' /\ b \in BOOLEAN BY <1>2, <1>3, <3>1
      <4> HIDE DEF v, b
      <4>3. prompt' = [template |-> reloads', format_vars |-> v, formats |-> b, reloadable |-> kept.reloadable]
            /\ kept.reloadable \in BOOLEAN
        BY <3>1, <4>1 DEF PromptType
      <4>4. prompt' \in PromptType BY <1>2, <4>2, <4>3 DEF PromptType
      <4> QED BY <4>2, <4>3, <4>4, <1>2
    <3> QED BY <3>2, <3>3
  <2> QED BY <1>2, <2>1, <2>2
<1>5. LLMTypeOK' BY <1>1, <1>2, <1>4 DEF LLMTypeOK
<1>6. TemplateHasItsValues' BY <1>4 DEF TemplateHasItsValues
<1>7. HistoryIsOfInferences' /\ FeedbackAtItsEntry' /\ StoredBefore'
  BY <1>1, <1>2 DEF HistoryIsOfInferences, FeedbackAtItsEntry, StoredBefore
<1>8. RemembersThePast' /\ AskedOnlyBlind'
  BY <1>1, <1>2 DEF RemembersThePast, AskedOnlyBlind, Unreadable
<1> QED BY <1>5, <1>6, <1>7, <1>8 DEF LLMIndInv, LLMReasonerInv

LEMMA LLMStepInd == LLMIndInv /\ [LLMNext]_llmVars => LLMIndInv'
<1> SUFFICES ASSUME LLMIndInv, [LLMNext]_llmVars PROVE LLMIndInv' OBVIOUS
<1>1. CASE UNCHANGED llmVars
  <2>1. UNCHANGED <<reasonings, since_run, reasoning, llm_attempt, snapshots, action_history,
                    last_inference_action, last_inference_snapshots, reloads, prompt>>
    BY <1>1 DEF llmVars
  <2>2. /\ LLMTypeOK /\ HistoryIsOfInferences /\ FeedbackAtItsEntry /\ TemplateHasItsValues
        /\ RemembersThePast /\ StoredBefore /\ AskedOnlyBlind
    BY DEF LLMIndInv, LLMReasonerInv
  <2>3. LLMTypeOK' /\ HistoryIsOfInferences' /\ FeedbackAtItsEntry'
    BY <2>1, <2>2 DEF LLMTypeOK, HistoryIsOfInferences, FeedbackAtItsEntry
  <2>4. TemplateHasItsValues' /\ RemembersThePast' /\ StoredBefore' /\ AskedOnlyBlind'
    BY <2>1, <2>2 DEF TemplateHasItsValues, RemembersThePast, StoredBefore, AskedOnlyBlind, Unreadable
  <2> QED BY <2>3, <2>4 DEF LLMIndInv, LLMReasonerInv
<1> QED BY <1>1, QuietInd, AnswerInd, ReplyInd, ReloadInd DEF LLMNext, Reasons

(* Only a reply is another inference, and it is asked for blindly.         *)
LEMMA LLMStepRecovers ==
    LLMIndInv /\ [LLMNext]_llmVars
    => (Unreadable /\ last_inference_action' # last_inference_action
        => ~Compared(last_inference_snapshots, snapshots))
<1> SUFFICES ASSUME LLMIndInv, [LLMNext]_llmVars, Unreadable, last_inference_action' # last_inference_action
             PROVE  ~Compared(last_inference_snapshots, snapshots)
  OBVIOUS
<1>1. reasoning = "llm"
  BY DEF LLMNext, Reasons, Begin, KBFails, KBAnswers, AttemptAgain, LLMFails, LLMReplies, RateTick,
         ReloadPromptConfig, memoryVars, llmVars
<1> QED BY <1>1 DEF LLMIndInv, AskedOnlyBlind

(* The evaluation is fair for any change, not only for those of the run.   *)
LEMMA FairEverywhere ==
    \A type \in ActionTypes, lowers \in BOOLEAN, rt, other, u \in Int : FairAt(type, lowers, rt, other, u)
  BY DEF FairAt, Rank, Evaluation, ActionTypes

LEMMA EvaluationsAreFair == EvaluationIsFair
<1>1. SomeChanges \subseteq Int /\ {0, 5, 6} \subseteq Int BY DEF SomeChanges
<1> QED BY <1>1, FairEverywhere DEF EvaluationIsFair

-----------------------------------------------------------------------------
(* The services together                                                   *)

ServicesIndInv == NLAIndInv /\ LLMIndInv /\ NatsIndInv

LEMMA ServicesInduction ==
    /\ ServicesInit => ServicesIndInv
    /\ ServicesIndInv /\ [ServicesNext]_servicesVars => ServicesIndInv'
<1>1. ServicesInit => ServicesIndInv
  BY NLAInitInd, LLMInitInd, NatsInitInd DEF ServicesInit, ServicesIndInv
<1>2. [ServicesNext]_servicesVars => [NLANext]_nlaVars /\ [LLMNext]_llmVars /\ [NatsNext]_natsVars
  BY DEF ServicesNext, servicesVars
<1>3. ServicesIndInv /\ [ServicesNext]_servicesVars => ServicesIndInv'
  BY <1>2, NLAStepInd, LLMStepInd, NatsStepInd DEF ServicesIndInv
<1> QED BY <1>1, <1>3

(* Whatever the requests, replies, outages and times: traces match their   *)
(* calls, the reasoner's memory is that of its decisions, and one task     *)
(* connects and hears what it subscribed to.                               *)
THEOREM ServicesHold == ServicesSpec => []ServicesInv
<1>1. ServicesIndInv => ServicesInv
  BY NLAIndImplies DEF ServicesIndInv, ServicesInv, LLMIndInv, NatsIndInv
<1> QED BY <1>1, ServicesInduction, PTL DEF ServicesSpec

(* Followed or not, the way of the actions takes its own steps only.       *)
LEMMA ServicesTakeActions ==
    ServicesSpec => []ActionIndInv /\ [][Next]_vars
<1>1. ServicesInit => ActionIndInv BY ActionInitInd DEF ServicesInit
<1>2. [ServicesNext]_servicesVars => [Next]_vars BY DEF ServicesNext, servicesVars
<1>3. ActionIndInv /\ [Next]_vars => ActionIndInv' BY ActionStepInd
<1> QED BY <1>1, <1>2, <1>3, PTL DEF ServicesSpec

(* What is proved of the way of the actions holds beside the services too. *)
THEOREM ServicesActionsHold == ServicesSpec => []ActionInv
BY ServicesTakeActions, ActionIndImplies, PTL

(* No step breaks what actions, connection and reasoner promise of steps.  *)
THEOREM PromisesKept == ServicesSpec => StepsKeepPromises
<1>1. ActionIndInv /\ [Next]_vars => [crashed' /\ ~crashed => ~calm]_vars BY ActionStepCalm
<1>2. ServicesSpec => PreconditionsKeepBounds
  BY <1>1, ServicesTakeActions, PTL DEF PreconditionsKeepBounds
<1>3. [ServicesNext]_servicesVars => [LLMNext]_llmVars /\ [NatsNext]_natsVars
  BY DEF ServicesNext, servicesVars
<1>4. ServicesIndInv => LLMIndInv /\ NatsIndInv BY DEF ServicesIndInv
<1>5. LLMIndInv /\ [LLMNext]_llmVars
      => [last_inference_action.decision.type = "SET_DIMMER" /\ ~last_inference_action.decision.readable
             /\ last_inference_action' # last_inference_action
          => ~Compared(last_inference_snapshots, snapshots)]_llmVars
  BY LLMStepRecovers DEF Unreadable
<1>6. NatsIndInv /\ [NatsNext]_natsVars
      => [fresh /\ fresh' => nc' = nc /\ heard \subseteq heard' /\ remade' = remade]_natsVars
  BY NatsStepKeeps
<1>7. ServicesSpec => KeepsConnection
  BY <1>3, <1>4, <1>6, ServicesInduction, PTL DEF ServicesSpec, KeepsConnection
<1>8. ServicesSpec => OnlyBlindRecovers
  BY <1>3, <1>4, <1>5, ServicesInduction, PTL DEF ServicesSpec, OnlyBlindRecovers
<1> QED BY <1>2, <1>7, <1>8 DEF StepsKeepPromises
=============================================================================
