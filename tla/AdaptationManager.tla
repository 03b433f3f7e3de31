-------------------------- MODULE AdaptationManager --------------------------
(***************************************************************************)
(* A period of SWIM (BaseAdaptationManager with SimpleMonitor, their       *)
(* messages ordered by ModulePriorities.h) next to a period of the Python  *)
(* controller running ReactivePolicy: two copies of the site that see the  *)
(* same response times and the same spare capacity, and do their own to    *)
(* servers and dimmer.                                                     *)
(*                                                                         *)
(* `due' holds the messages of the instant at which a period begins; the   *)
(* one with the smallest scheduling priority goes first, and of those with *)
(* the same the one scheduled first (all are scheduled a period ahead      *)
(* but decisionCompleteEvent, which `due' has when the delay of a decision *)
(* ends in this very instant).  With simulateDecisionDelay a decision may  *)
(* be carried out an instant, a part of a period or some periods later;    *)
(* the port, whose own delays are in ControlLoop, is left out then.        *)
(* Last come the answers of SWIM's model to a manager that plans.          *)
(*                                                                         *)
(* An operator named Bug... is a plausible mistake in the definition that  *)
(* follows it; nothing uses it.                                            *)
(***************************************************************************)
EXTENDS ReactiveRule, Sequences

CONSTANTS
    InitialServers,
    InitialDimmer,  \* millionths
    Delays          \* values of simulateDecisionDelay

ASSUME AdaptationManagerAssumption ==
    /\ InitialServers \in 1..MaxServers
    /\ InitialDimmer \in Nat /\ InitialDimmer * Scale <= One
    /\ Delays \subseteq BOOLEAN

VARIABLES
    simulateDecisionDelay,
    due,           \* messages of this instant still to be handled
    sees,          \* what a probe would measure now
    observations,  \* Model.observations: of which measurement, and taken now
    manager, managerDid,
    pTactic,       \* the decision under way, with what it was decided on
    port, portDid, portActed

periodVars == <<due, sees>>
managerVars == <<manager, managerDid, pTactic>>
portVars == <<port, portDid, portActed>>
vars == <<simulateDecisionDelay, periodVars, observations, managerVars, portVars>>

Measurements == [rt : ResponseTimes, spareAboveOne : BOOLEAN]
PeriodMessages == {"bootComplete", "monitorPre", "adaptMgr", "monitorPost"}
Messages == PeriodMessages \cup {"decisionComplete"}

None == [tactic |-> NoOp, on |-> NoOp]

InitialSite ==
    [servers |-> InitialServers, booting |-> FALSE, dimmer |-> InitialDimmer * Scale]

Init ==
    /\ simulateDecisionDelay \in Delays
    /\ due = {} /\ sees = [rt |-> "nan", spareAboveOne |-> FALSE]
    /\ observations = [of |-> sees, fresh |-> FALSE]
    /\ manager = InitialSite /\ managerDid = NoOp /\ pTactic = None
    /\ port = InitialSite /\ portDid = NoOp /\ portActed = TRUE

-----------------------------------------------------------------------------
(* ModulePriorities.h                                                      *)
BugPriority(m) ==
    CASE m = "bootComplete"                    -> 0
      [] m \in {"adaptMgr", "decisionComplete"} -> 2
      [] m = "monitorPre"                      -> 3
      [] m = "monitorPost"                     -> 4
Priority(m) ==
    CASE m = "bootComplete"                    -> 0
      [] m = "monitorPre"                      -> 2
      [] m \in {"adaptMgr", "decisionComplete"} -> 3
      [] m = "monitorPost"                     -> 4

(* The simulator takes m next.  A decision's completion was scheduled      *)
(* before the manager's next period was (handleMessage).                   *)
Takes(m) ==
    /\ m \in due
    /\ \A n \in due : Priority(m) <= Priority(n)
    /\ m = "adaptMgr" => "decisionComplete" \notin due
    /\ due' = due \ {m}

Deciding == pTactic # None

(* The instant of the next period.  A boot may end in it, in both copies;  *)
(* so may the delay of a decision.                                         *)
NextPeriod(seen) ==
    /\ due = {} /\ portActed
    /\ sees' = seen
    /\ \E also \in SUBSET {"bootComplete", "decisionComplete"} :
          /\ "bootComplete" \in also => manager.booting \/ port.booting
          /\ "decisionComplete" \in also => Deciding
          /\ due' = {"monitorPre", "adaptMgr", "monitorPost"} \cup also
    /\ observations' = [observations EXCEPT !.fresh = FALSE]
    /\ portActed' = simulateDecisionDelay
    /\ UNCHANGED <<simulateDecisionDelay, managerVars, port, portDid>>

(* A boot takes the same time in both copies.                              *)
BootsEnd ==
    /\ manager' = Booted(manager) /\ port' = Booted(port)
    /\ UNCHANGED <<simulateDecisionDelay, sees, observations, managerDid, pTactic,
                   portDid, portActed>>

BootComplete == Takes("bootComplete") /\ BootsEnd

(* periodicHandler                                                         *)
MonitorPeriod ==
    /\ Takes("monitorPre")
    /\ observations' = [of |-> sees, fresh |-> TRUE]
    /\ UNCHANGED <<simulateDecisionDelay, sees, managerVars, portVars>>

(* postPeriodHandler emits statistics only.                                *)
MonitorPost ==
    /\ Takes("monitorPost")
    /\ UNCHANGED <<simulateDecisionDelay, sees, observations, managerVars, portVars>>

(* decisionComplete                                                        *)
CarryOut(tactic) ==
    /\ manager' = Apply(manager, tactic)
    /\ pTactic' = None

(* handleMessage(periodEvent): the decision is skipped while one is under  *)
(* way, and carried out at once unless its delay is simulated.             *)
BugSkips == FALSE
Skips == Deciding

AdaptationPeriod ==
    /\ Takes("adaptMgr")
    /\ IF Skips
       THEN UNCHANGED managerVars
       ELSE LET tactic == evaluate(manager, observations.of.rt, observations.of.spareAboveOne)
            IN  /\ managerDid' = tactic
                /\ IF simulateDecisionDelay
                   THEN pTactic' = [tactic |-> tactic, on |-> manager] /\ UNCHANGED manager
                   ELSE CarryOut(tactic)
    /\ UNCHANGED <<simulateDecisionDelay, sees, observations, portVars>>

(* handleMessage(decisionCompleteEvent), in the instant of a period or     *)
(* between two.                                                            *)
DecisionComplete ==
    /\ Deciding
    /\ IF due = {} THEN UNCHANGED due ELSE Takes("decisionComplete")
    /\ CarryOut(pTactic.tactic)
    /\ UNCHANGED <<simulateDecisionDelay, sees, observations, managerDid, portVars>>

(* The controller senses over the socket, between two instants.            *)
PortPeriod ==
    /\ due = {} /\ ~portActed
    /\ portDid' = decide(port, sees.rt, sees.spareAboveOne)
    /\ port' = Apply(port, portDid') /\ portActed' = TRUE
    /\ UNCHANGED <<simulateDecisionDelay, periodVars, observations, managerVars>>

(* A boot that ends between two periods.                                   *)
BootEnds ==
    /\ due = {} /\ portActed /\ (manager.booting \/ port.booting)
    /\ BootsEnd /\ UNCHANGED due

HandleMessage ==
    BootComplete \/ MonitorPeriod \/ AdaptationPeriod \/ DecisionComplete \/ MonitorPost

Next == HandleMessage \/ PortPeriod \/ BootEnds \/ \E seen \in Measurements : NextPeriod(seen)

Spec == Init /\ [][Next]_vars

(* Periods come, and while the site is overloaded they show it; the        *)
(* messages of an instant are handled, the controller acts, boots end, and *)
(* so does the time a decision takes.                                      *)
Overloaded == \E spare \in BOOLEAN : NextPeriod([rt |-> "above", spareAboveOne |-> spare])
FairSpec ==
    /\ Spec
    /\ WF_vars(Overloaded) /\ WF_vars(HandleMessage) /\ WF_vars(PortPeriod)
    /\ SF_vars(BootEnds) /\ SF_vars(DecisionComplete)

-----------------------------------------------------------------------------
(* What SWIM's model (Model.cc) answers to managers that plan with it:     *)
(* dimmer and brownout as levels, the servers there will be, the           *)
(* configuration with its remaining boot time, the horizon - and the score *)
(* of a period (UtilityScorer.cc). A factor is in thousandths. Times are   *)
(* in ticks, `now' among them; a model is a record, its events the times   *)
(* at which servers come online.                                           *)

Unit == 1000
Larger(a, b) == IF a > b THEN a ELSE b

(* round: half away from zero; ceil.                                       *)
Rounded(a, b) == IF a >= 0 THEN (2 * a + b) \div (2 * b) ELSE -((b - 2 * a) \div (2 * b))
Ceiling(a, b) == -((-a) \div b)

brownoutLevelToFactor(m, level) ==
    IF m.lowerDimmerMargin
    THEN ((Unit - m.dimmerMargin) * (level - 1)) \div (m.levels - 1)
    ELSE m.dimmerMargin + ((Unit - 2 * m.dimmerMargin) * (level - 1)) \div (m.levels - 1)

brownoutFactorToLevel(m, factor) ==
    1 + IF m.lowerDimmerMargin
        THEN Rounded(factor * (m.levels - 1), Unit - m.dimmerMargin)
        ELSE Rounded((factor - m.dimmerMargin) * (m.levels - 1), Unit - 2 * m.dimmerMargin)

dimmerLevelToFactor(m, level) == brownoutLevelToFactor(m, m.levels - level + 1)
dimmerFactorToLevel(m, factor) == brownoutFactorToLevel(m, Unit - factor)

(* initialize, unless the parameter is set                                 *)
Horizon(m) == Larger(5, Ceiling(m.bootDelay, m.period) * (m.maxServers - 1) + 1)

(* A negative delay asks for the instant before this one.                  *)
getActiveServerCountIn(m, now, delay) ==
    IF delay < 0
    THEN IF m.timeLast < now THEN m.active ELSE m.activeLast
    ELSE m.active + IF \E i \in DOMAIN m.events : m.events[i] <= now + delay THEN 1 ELSE 0

getConfiguration(m, now) ==
    [active |-> m.active, level |-> brownoutFactorToLevel(m, m.brownoutFactor),
     bootRemain |-> IF m.events = <<>> THEN 0
                    ELSE Larger(1, Ceiling(m.events[1] - now, m.period))]

(* Configuration::getServers                                               *)
ConfiguredServers(c) == c.active + IF c.bootRemain > 0 THEN 1 ELSE 0

(* getAccruedUtility, a period of it, of `arrivals' requests a second that *)
(* took rt: "late" (or negative), "in time", or "nan" if there were none.  *)
(* MAX_SERVICE_RATE is 22.                                                 *)
getAccruedUtility(m, arrivals, rt) ==
    LET factor == brownoutLevelToFactor(m, brownoutFactorToLevel(m, m.brownoutFactor))
        normal == 1500
        gained == arrivals * normal - m.maxServers * 22 * normal
    IN  IF rt = "late" THEN (IF gained < 0 THEN gained ELSE 0)
        ELSE Unit * Rounded(arrivals * (factor * Unit + (Unit - factor) * normal), Unit * Unit)

-----------------------------------------------------------------------------
TypeOK ==
    /\ simulateDecisionDelay \in BOOLEAN /\ due \subseteq Messages
    /\ sees \in Measurements
    /\ observations \in [of : Measurements, fresh : BOOLEAN]
    /\ manager \in Sites /\ port \in Sites
    /\ IsTactic(managerDid) /\ IsTactic(portDid)
    /\ IsTactic(pTactic.tactic) /\ portActed \in BOOLEAN

(* policies.py calls decide a line-for-line port of evaluate: given the    *)
(* same observations, period after period, the port takes the same kind of *)
(* action - if the step of the dimmer is a number of six decimals, as it   *)
(* is with 5 levels. With 10 the port counts down in steps of 0.111111:    *)
(* where the manager has reached 0 it has 0.000001 left to take away, and  *)
(* where the manager is at 1 and removes a server it has as much to add.   *)
StepHasSixDecimals == Step % Scale = 0
PortFollowsManager ==
    StepHasSixDecimals /\ due = {} /\ portActed /\ ~simulateDecisionDelay =>
        managerDid.kind = portDid.kind

(* ModulePriorities.h: all measurements are collected before the manager   *)
(* decides, and boots that end in the same instant are over: a decision is *)
(* made on what the monitor has just seen.                                 *)
DecidesOnThisPeriod ==
    [][AdaptationPeriod /\ ~Deciding =>
          observations.fresh /\ observations.of = sees /\ "bootComplete" \notin due]_vars

(* assert(pTactic == nullptr), and what it is for: every decision is       *)
(* carried out once, however late, on a site that still has the servers    *)
(* and the dimmer it was made on, so that it is one the rule would allow.  *)
DecisionCarriedOut ==
    [][Deciding /\ pTactic' # pTactic =>
          /\ manager = pTactic.on \/ manager = Booted(pTactic.on)
          /\ manager' = Apply(manager, pTactic.tactic)]_vars

(* The models the agreements of levels, boots and scores are stated for.   *)
Models ==
    {m \in [levels : {2, 3, 5}, dimmerMargin : {0, 100}, lowerDimmerMargin : BOOLEAN,
            maxServers : {3}, active : 1..3, activeLast : 1..3, timeLast : {0, 10},
            events : {<<>>} \cup {<<t>> : t \in {8, 10, 11, 19, 20, 21, 130}},
            bootDelay : {0, 10, 120}, period : {10}, brownoutFactor : {0, 250, 1000}] :
        m.active = 3 => m.events = <<>>}
Now == 10

(* Model.cc: levels and factors are each other's inverse, with either      *)
(* margin - for dimmer levels, whose factor is a brownout's and taken for  *)
(* a dimmer's, with the symmetric one only.                                *)
LevelsComeBack ==
    \A m \in Models : \A level \in 1..m.levels :
        /\ brownoutFactorToLevel(m, brownoutLevelToFactor(m, level)) = level
        /\ ~m.lowerDimmerMargin \/ m.dimmerMargin = 0 =>
              dimmerFactorToLevel(m, dimmerLevelToFactor(m, level)) = level

(* getConfiguration: a boot that is late still counts as one, so that the  *)
(* configuration has as many servers as the model (getServers), and the    *)
(* boot remaining is what the model expects, in periods begun.             *)
BootRemains ==
    \A m \in Models :
        LET c == getConfiguration(m, Now)
        IN  /\ ConfiguredServers(c) = m.active + Len(m.events)
            /\ c.bootRemain = 0 <=> m.events = <<>>
            /\ m.events # <<>> =>
                  getActiveServerCountIn(m, Now, c.bootRemain * m.period) = m.active + 1

(* getActiveServerCountIn: what is expected never goes down as one looks   *)
(* further, and the instant before now has the count of before a change    *)
(* that was made in it.                                                    *)
ExpectedServersGrow ==
    \A m \in Models :
        /\ \A s, t \in {0, 1, 9, 10, 11, 120} : s <= t =>
              getActiveServerCountIn(m, Now, s) <= getActiveServerCountIn(m, Now, t)
        /\ getActiveServerCountIn(m, Now, -1) = IF m.timeLast = Now THEN m.activeLast ELSE m.active

(* initialize: a plan reaches past the boots of all servers but the first, *)
(* one after the other.                                                    *)
HorizonSeesAllBoots ==
    \A m \in Models : m.period * (Horizon(m) - 1) >= m.bootDelay * (m.maxServers - 1)

(* UtilityScorer: a late period never earns and one in time never costs;   *)
(* more optional content never earns less.                                 *)
ScoreRewardsContent ==
    \A m \in Models, a \in {0, 10, 66, 100} :
        /\ getAccruedUtility(m, a, "late") <= 0
        /\ \A rt \in {"in time", "nan"} :
              /\ getAccruedUtility(m, a, rt) >= 0
              /\ \A f \in {0, 250, 1000} : f <= m.brownoutFactor =>
                    getAccruedUtility([m EXCEPT !.brownoutFactor = f], a, rt)
                        >= getAccruedUtility(m, a, rt)

(* What the model tells planners is consistent.                            *)
LevelsHold ==
    /\ LevelsComeBack /\ BootRemains /\ ExpectedServersGrow
    /\ HorizonSeesAllBoots /\ ScoreRewardsContent

(* What holds of every state of the two copies; and what the model tells a *)
(* manager that plans, with the score of a period.                         *)
PeriodInv == TypeOK /\ PortFollowsManager /\ LevelsHold

(* Lasting overload drives the site to all its servers and to dimmer 0,    *)
(* wherever the rule stood before and however decisions are delayed.       *)
Exhausted(c) == c.servers = MaxServers /\ ~c.booting /\ c.dimmer = 0
EscalatesFully ==
    <>[][\A seen \in Measurements : NextPeriod(seen) => seen.rt = "above"]_vars =>
        <>[](Exhausted(manager) /\ (Exhausted(port) \/ simulateDecisionDelay))
=============================================================================
