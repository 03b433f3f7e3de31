------------------------------ MODULE SimProbe ------------------------------
(***************************************************************************)
(* The probe that listens to the busy signal of an AppServer, and the      *)
(* sliding window (TimeWindowStats) from which it computes the server's    *)
(* utilization, which the reactive rule and the controller take for spare  *)
(* capacity.  Signals reach the probe inside the step that emits them.     *)
(*                                                                         *)
(* A timestamp is kept as its age.  An entry that is too old is dropped as *)
(* time goes on: removeOldEntries does it before each use.  `worked' is    *)
(* history: in which of the last units of time the server had a job.       *)
(*                                                                         *)
(* An operator named Bug... is a plausible mistake in the definition that  *)
(* follows it; nothing uses it.                                            *)
(***************************************************************************)
EXTENDS AppServer

CONSTANT Window     \* evaluationPeriod

ASSUME SimProbeAssumption == Window \in Nat \ {0}

VARIABLES
    known,      \* utilization has this server
    entries, lastValue,
    worked

probeVars == <<known, entries, lastValue, worked>>

(* Before it knows the server, the probe ignores the busy(false) that the  *)
(* server emits when it is initialized.                                    *)
ProbeInit ==
    /\ Init
    /\ known = FALSE /\ entries = <<>> /\ lastValue = 0
    /\ worked = [u \in 1..Window |-> FALSE]

(* TimeWindowStats::record                                                 *)
Record(value) ==
    /\ entries' = Append(entries, [age |-> 0, value |-> value])
    /\ lastValue' = value

(* receiveSignal(serverBusySignal)                                         *)
Busy(value) ==
    /\ IF known \/ value = 1 THEN known' = TRUE /\ Record(value)
       ELSE UNCHANGED <<known, entries, lastValue>>
    /\ UNCHANGED worked

(* What MTServer emits in a step of it: going from idle to busy or back.   *)
Emits ==
    CASE running = <<>> /\ running' # <<>> -> Busy(1)
      [] running # <<>> /\ running' = <<>> -> Busy(0)
      [] OTHER                             -> UNCHANGED probeVars

(* receiveSignal(serverRemovedSignal)                                      *)
ServerRemoved ==
    /\ known' = FALSE /\ entries' = <<>> /\ lastValue' = 0
    /\ UNCHANGED worked

(* removeOldEntries, and the window as it moves by t.                      *)
removeOldEntries(q) ==
    LET front == Min({i \in 1..(Len(q) + 1) : i <= Len(q) => q[i].age <= Window})
    IN  SubSeq(q, front, Len(q))

Moves(t) ==
    /\ entries' = removeOldEntries([i \in DOMAIN entries |-> [entries[i] EXCEPT !.age = @ + t]])
    /\ worked' = [u \in 1..Window |-> IF u <= t THEN running # <<>> ELSE worked[u - t]]
    /\ UNCHANGED <<known, lastValue>>

(* getPercentageAboveZero, in units of time; `since' is the age of         *)
(* lastBusyPeriodStart.                                                    *)
NextEntry(e, at) ==
    [busyTime |-> at.busyTime + CASE at.level < 0 /\ e.value = 0 -> Window - e.age
                                  [] at.level > 0 /\ e.value = 0 -> at.since - e.age
                                  [] OTHER                       -> 0,
     since    |-> IF at.level <= 0 /\ e.value > 0 THEN e.age ELSE at.since,
     level    |-> e.value]

WithoutEntries == IF lastValue > 0 THEN Window ELSE 0

After[k \in 0..Len(entries)] ==
    IF k = 0 THEN [busyTime |-> 0, since |-> Window, level |-> -1]
    ELSE NextEntry(entries[k], After[k - 1])

getPercentageAboveZero ==
    IF entries = <<>> THEN WithoutEntries
    ELSE LET at == After[Len(entries)]
         IN  at.busyTime + IF at.level > 0 THEN at.since ELSE 0

Utilization == IF known THEN getPercentageAboveZero ELSE 0

ProbeNext ==
    \/ (EndExecution \/ JobArrives) /\ Emits
    \/ CompleteRemove /\ ServerRemoved
    \/ (Source \/ ArrivalMonitor \/ LoadBalancer \/ Enqueue \/ RemoveServer)
       /\ UNCHANGED probeVars
    \/ \E t \in 1..Max({MaxGap, endIn}) : AdvanceBy(t) /\ Moves(t)

allVars == <<vars, probeVars>>
ProbeSpec ==
    /\ ProbeInit /\ [][ProbeNext]_allVars
    /\ WF_allVars(Message /\ ProbeNext) /\ WF_allVars(Advance /\ ProbeNext)

(* TimeWindowStats: from entries that say when a level changed, and from   *)
(* the last value once these are out of the window, the probe computes how *)
(* long the server was busy in exactly the last evaluation period, also    *)
(* when it has just been added; and of a server that is gone it keeps      *)
(* nothing, however late the last messages of its requests: the next one   *)
(* of that name is not measured by its entries.                            *)
WindowIsTrue ==
    /\ ~deleted => Utilization = Cardinality({u \in 1..Window : worked[u]})
    /\ deleted => ~known /\ entries = <<>> /\ lastValue = 0

(* What holds of every state of the server and of its probe.               *)
ProbeInv == ServerInv /\ WindowIsTrue
=============================================================================
