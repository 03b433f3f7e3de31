----------------------- MODULE AdaptationManagerProofs -----------------------
(***************************************************************************)
(* For every number of levels and servers, with and without delays of      *)
(* decisions: the manager decides on what the monitor has just seen,       *)
(* carries every decision out on the site it was made for, and the port    *)
(* does the same if the step of the dimmer has six decimals. And for every *)
(* model: levels and factors, configuration, horizon and score agree.      *)
(***************************************************************************)
EXTENDS AdaptationManager, TLAPS

-----------------------------------------------------------------------------
(* The rule and its port                                                   *)

LEMMA Widths == Scale \in Nat \ {0} /\ Step \in Nat /\ One \in Nat /\ MaxServers \in Nat \ {0}
BY ReactiveRuleAssumption DEF Scale, Step, One

(* What the rule decides is possible on the site it was decided for.       *)
LEMMA RuleDecides ==
    ASSUME NEW c \in Sites, NEW rt, NEW spare
    PROVE  LET t == evaluate(c, rt, spare)
           IN  \/ t = NoOp
               \/ t = Add /\ CanAdd(c)
               \/ t = Remove /\ CanRemove(c)
               \/ \E v \in 0..One : t = SetDimmer(v) /\ v \in {0, One, c.dimmer - Step, c.dimmer + Step}
<1> DEFINE t == evaluate(c, rt, spare)
<1>1. c.dimmer \in 0..One BY DEF Sites
<1>2. AtLeastZero(c.dimmer - Step) \in 0..One
        /\ AtLeastZero(c.dimmer - Step) \in {0, c.dimmer - Step}
  BY <1>1, Widths DEF AtLeastZero
<1>3. AtMostOne(c.dimmer + Step) \in 0..One
        /\ AtMostOne(c.dimmer + Step) \in {One, c.dimmer + Step}
  BY <1>1, Widths DEF AtMostOne
<1>4. t \in {Add, Remove, NoOp, SetDimmer(AtLeastZero(c.dimmer - Step)),
             SetDimmer(AtMostOne(c.dimmer + Step))}
  BY DEF evaluate
<1>5. t = Add => CanAdd(c) BY DEF evaluate, Add, NoOp, Remove, SetDimmer
<1>6. t = Remove => CanRemove(c) BY DEF evaluate, Add, NoOp, Remove, SetDimmer
<1>7. CASE t \in {Add, Remove, NoOp} BY <1>5, <1>6, <1>7
<1>8. CASE t = SetDimmer(AtLeastZero(c.dimmer - Step)) BY <1>2, <1>8
<1>9. CASE t = SetDimmer(AtMostOne(c.dimmer + Step)) BY <1>3, <1>9
<1> QED
  <2> HIDE DEF t
  <2> QED BY <1>4, <1>7, <1>8, <1>9

LEMMA AreTactics ==
    /\ IsTactic(NoOp) /\ IsTactic(Add) /\ IsTactic(Remove)
    /\ \A v \in 0..One : IsTactic(SetDimmer(v))
BY DEF IsTactic, SetDimmer

LEMMA RuleIsPossible ==
    ASSUME NEW c \in Sites, NEW rt, NEW spare, NEW d \in {c, Booted(c)}
    PROVE  LET t == evaluate(c, rt, spare) IN IsTactic(t) /\ Apply(d, t) \in Sites
<1> DEFINE t == evaluate(c, rt, spare)
<1>1. d \in [servers : {c.servers}, booting : BOOLEAN, dimmer : {c.dimmer}]
  BY DEF Sites, Booted
<1>2. c.servers \in 1..MaxServers /\ c.dimmer \in 0..One /\ d \in Sites BY <1>1 DEF Sites
<1>7. \/ t = NoOp
      \/ t = Add /\ CanAdd(c)
      \/ t = Remove /\ CanRemove(c)
      \/ \E v \in 0..One : t = SetDimmer(v)
  BY RuleDecides DEF t
<1> HIDE DEF t
<1>3. ASSUME t = NoOp PROVE IsTactic(t) /\ Apply(d, t) \in Sites
  <2>1. Apply(d, NoOp) = d BY DEF Apply, NoOp
  <2> QED BY <1>2, <1>3, <2>1, AreTactics
<1>4. ASSUME t = Add, CanAdd(c) PROVE IsTactic(t) /\ Apply(d, t) \in Sites
  <2>1. c.servers + 1 \in 1..MaxServers BY <1>2, <1>4, Widths DEF CanAdd
  <2>2. [d EXCEPT !.servers = @ + 1, !.booting = TRUE] \in Sites BY <1>1, <1>2, <2>1 DEF Sites
  <2>3. Apply(d, Add) = [d EXCEPT !.servers = @ + 1, !.booting = TRUE] BY DEF Apply, Add
  <2> QED BY <1>4, <2>2, <2>3, AreTactics
<1>5. ASSUME t = Remove, CanRemove(c) PROVE IsTactic(t) /\ Apply(d, t) \in Sites
  <2>1. c.servers - 1 \in 1..MaxServers BY <1>2, <1>5, Widths DEF CanRemove
  <2>2. [d EXCEPT !.servers = @ - 1] \in Sites BY <1>1, <1>2, <2>1 DEF Sites
  <2>3. Apply(d, Remove) = [d EXCEPT !.servers = @ - 1] BY DEF Apply, Remove
  <2> QED BY <1>5, <2>2, <2>3, AreTactics
<1>6. ASSUME NEW v \in 0..One, t = SetDimmer(v)
      PROVE  IsTactic(t) /\ Apply(d, t) \in Sites
  <2>1. [d EXCEPT !.dimmer = v] \in Sites BY <1>2 DEF Sites
  <2>2. Apply(d, SetDimmer(v)) = [d EXCEPT !.dimmer = v] BY DEF Apply, SetDimmer
  <2> QED BY <1>6, <2>1, <2>2, AreTactics
<1>8. IsTactic(t) /\ Apply(d, t) \in Sites BY <1>3, <1>4, <1>5, <1>6, <1>7
<1> QED BY <1>8 DEF t

LEMMA BootedSite == ASSUME NEW c \in Sites PROVE Booted(c) \in Sites /\ Booted(Booted(c)) = Booted(c)
BY DEF Sites, Booted

(* A dimmer of six decimals                                                *)
Whole(c) == c.dimmer % Scale = 0

(* Rounding to six decimals changes nothing that has no more of them.      *)
LEMMA WholeIsKept ==
    ASSUME NEW v \in Int, v % Scale = 0
    PROVE  SixDecimals(v) = v
<1>1. PICK s \in Nat \ {0} : s = Scale BY Widths
<1>2. PICK q \in Int : v = s * q BY <1>1, SMT
<1>3. (2 * v + s) \div (2 * s) = q
  <2>1. 2 * v + s = (2 * s) * q + s BY <1>2, SMT
  <2>2. ASSUME NEW b \in Nat \ {0}, NEW r \in 0..(b - 1), NEW a \in Int, a = b * q + r
        PROVE  a \div b = q
    BY <2>2, SMT
  <2> QED BY <2>1, <2>2, SMT
<1> QED BY <1>1, <1>2, <1>3, SMT DEF SixDecimals

LEMMA PortDecidesAsManager ==
    ASSUME StepHasSixDecimals, NEW c \in Sites, Whole(c),
           NEW rt \in ResponseTimes, NEW spare
    PROVE  /\ decide(c, rt, spare) = evaluate(c, rt, spare)
           /\ Whole(Apply(c, evaluate(c, rt, spare)))
<1> DEFINE t == evaluate(c, rt, spare)
<1>1. c.dimmer \in 0..One BY DEF Sites
<1>2. PICK s \in Nat \ {0} : s = Scale BY Widths
<1>3. PICK q \in Int : Step = s * q BY <1>2, Widths, SMT DEF StepHasSixDecimals
<1>4. PICK k \in Int : c.dimmer = s * k BY <1>1, <1>2, Widths, SMT DEF Whole
<1>5. /\ (c.dimmer - Step) % Scale = 0 /\ (c.dimmer + Step) % Scale = 0
      /\ 0 % Scale = 0 /\ One % Scale = 0
  <2>1. ASSUME NEW j \in Int PROVE (s * j) % s = 0 BY SMT
  <2>2. c.dimmer - Step = s * (k - q) /\ c.dimmer + Step = s * (k + q) BY <1>3, <1>4, SMT
  <2>3. 0 = s * 0 /\ One = s * 1000000 BY <1>2, SMT DEF One
  <2> QED BY <1>2, <2>1, <2>2, <2>3, SMT
<1>6. /\ SixDecimals(c.dimmer - Step) = c.dimmer - Step
      /\ SixDecimals(c.dimmer + Step) = c.dimmer + Step
  BY <1>1, <1>5, Widths, WholeIsKept
<1>7. decide(c, rt, spare) = evaluate(c, rt, spare)
  BY <1>6 DEF decide, evaluate, ResponseTimes
<1>8. Whole(Apply(c, t))
  <2>1. \/ t \in {NoOp, Add, Remove}
        \/ \E v \in 0..One : t = SetDimmer(v) /\ v \in {0, One, c.dimmer - Step, c.dimmer + Step}
    BY RuleDecides DEF t
  <2> HIDE DEF t
  <2>2. CASE t \in {NoOp, Add, Remove}
    <3>1. Apply(c, t) \in {c, [c EXCEPT !.servers = @ + 1, !.booting = TRUE],
                           [c EXCEPT !.servers = @ - 1]}
      BY <2>2 DEF Apply, NoOp, Add, Remove
    <3>2. Apply(c, t).dimmer = c.dimmer BY <3>1 DEF Sites
    <3> QED BY <3>2 DEF Whole
  <2>3. ASSUME NEW v \in 0..One, t = SetDimmer(v), v \in {0, One, c.dimmer - Step, c.dimmer + Step}
        PROVE  Whole(Apply(c, t))
    <3>1. Apply(c, t) = [c EXCEPT !.dimmer = v] BY <2>3 DEF Apply, SetDimmer
    <3>2. Apply(c, t).dimmer = v BY <3>1 DEF Sites
    <3> QED BY <1>5, <2>3, <3>2 DEF Whole
  <2> QED BY <2>1, <2>2, <2>3
<1> QED BY <1>7, <1>8

-----------------------------------------------------------------------------
(* The inductive invariant                                                 *)

(* The instant: the measurement of this period is taken first; a boot and  *)
(* the end of a decision's delay come before the manager's period.         *)
InstantInOrder ==
    /\ due # {} /\ "monitorPre" \notin due => observations = [of |-> sees, fresh |-> TRUE]
    /\ "bootComplete" \in due => "adaptMgr" \in due
    /\ "decisionComplete" \in due => Deciding
    /\ portActed /\ ~simulateDecisionDelay => due = {}

(* A decision under way is one the rule has made, and the site is still    *)
(* the one it was made for, but for a boot that has ended.                 *)
DecisionStands ==
    Deciding =>
        /\ simulateDecisionDelay /\ pTactic.on \in Sites
        /\ \E seen \in Measurements :
              pTactic.tactic = evaluate(pTactic.on, seen.rt, seen.spareAboveOne)
        /\ manager \in {pTactic.on, Booted(pTactic.on)}

(* Where the port can compute as the manager does, the two copies are the  *)
(* same but for the period in which only the manager has acted.            *)
Lockstep ==
    StepHasSixDecimals /\ ~simulateDecisionDelay =>
        /\ Whole(manager) /\ Whole(port)
        /\ portActed => manager = port /\ managerDid.kind = portDid.kind
        /\ "adaptMgr" \in due => manager = port
        /\ ~portActed /\ "adaptMgr" \notin due =>
              /\ observations.of = sees
              /\ managerDid = evaluate(port, sees.rt, sees.spareAboveOne)
              /\ manager = Apply(port, managerDid)

PeriodIndInv == TypeOK /\ InstantInOrder /\ DecisionStands /\ Lockstep

-----------------------------------------------------------------------------
(* The steps keep it                                                       *)

LEMMA RoundedStaysIn ==
    ASSUME NEW v \in Int
    PROVE  /\ v <= One => SixDecimals(v) \in Int /\ SixDecimals(v) <= One
           /\ v >= 0 => SixDecimals(v) \in Int /\ SixDecimals(v) >= 0
<1>1. PICK s \in Nat \ {0} : s = Scale BY Widths
<1>2. PICK q \in Int : q = (2 * v + s) \div (2 * s) BY SMT
<1>3. (2 * s) * q <= 2 * v + s /\ 2 * v + s < (2 * s) * q + 2 * s BY <1>2, SMT
<1>4. SixDecimals(v) = q * s BY <1>1, <1>2 DEF SixDecimals
<1>5. PICK million \in Nat : One = s * million BY <1>1, SMT DEF One
<1>6. ASSUME v <= One PROVE q * s <= One
  <2>1. s * (2 * q) <= s * (2 * million + 1) BY <1>3, <1>5, <1>6, SMT
  <2>2. 2 * q <= 2 * million + 1 BY <2>1, SMT
  <2>3. q <= million BY <2>2, SMT
  <2> QED BY <1>5, <2>3, SMT
<1>7. ASSUME v >= 0 PROVE q * s >= 0
  <2>1. s * (2 * q + 1) > 0 BY <1>3, <1>7, SMT
  <2>2. 2 * q + 1 > 0 BY <2>1, SMT
  <2>3. q >= 0 BY <2>2, SMT
  <2> QED BY <2>3, SMT
<1> QED BY <1>4, <1>6, <1>7, SMT

(* With or without six decimals, the port decides what can be done.        *)
LEMMA PortIsPossible ==
    ASSUME NEW c \in Sites, NEW rt, NEW spare
    PROVE  LET t == decide(c, rt, spare) IN IsTactic(t) /\ Apply(c, t) \in Sites
<1> DEFINE t == decide(c, rt, spare)
<1>1. c.servers \in 1..MaxServers /\ c.dimmer \in 0..One /\ c.dimmer \in Int /\ One \in Int
  BY Widths DEF Sites
<1>2. AtLeastZero(SixDecimals(c.dimmer - Step)) \in 0..One
  BY <1>1, Widths, RoundedStaysIn, SMT DEF AtLeastZero, Step
<1>3. AtMostOne(SixDecimals(c.dimmer + Step)) \in 0..One
  BY <1>1, Widths, RoundedStaysIn, SMT DEF AtMostOne, Step
<1>4. t \in {Add, Remove, NoOp, SetDimmer(AtLeastZero(SixDecimals(c.dimmer - Step))),
             SetDimmer(AtMostOne(SixDecimals(c.dimmer + Step)))}
  BY DEF decide
<1>5. t = Add => CanAdd(c) BY DEF decide, Add, NoOp, Remove, SetDimmer
<1>6. t = Remove => CanRemove(c) BY DEF decide, Add, NoOp, Remove, SetDimmer
<1> HIDE DEF t
<1>7. ASSUME t = NoOp PROVE IsTactic(t) /\ Apply(c, t) \in Sites
  <2>1. Apply(c, NoOp) = c BY DEF Apply, NoOp
  <2> QED BY <1>7, <2>1, AreTactics
<1>8. ASSUME t = Add PROVE IsTactic(t) /\ Apply(c, t) \in Sites
  <2>1. c.servers + 1 \in 1..MaxServers BY <1>1, <1>5, <1>8, Widths DEF CanAdd
  <2>2. [c EXCEPT !.servers = @ + 1, !.booting = TRUE] \in Sites BY <2>1 DEF Sites
  <2>3. Apply(c, Add) = [c EXCEPT !.servers = @ + 1, !.booting = TRUE] BY DEF Apply, Add
  <2> QED BY <1>8, <2>2, <2>3, AreTactics
<1>9. ASSUME t = Remove PROVE IsTactic(t) /\ Apply(c, t) \in Sites
  <2>1. c.servers - 1 \in 1..MaxServers BY <1>1, <1>6, <1>9, Widths DEF CanRemove
  <2>2. [c EXCEPT !.servers = @ - 1] \in Sites BY <2>1 DEF Sites
  <2>3. Apply(c, Remove) = [c EXCEPT !.servers = @ - 1] BY DEF Apply, Remove
  <2> QED BY <1>9, <2>2, <2>3, AreTactics
<1>10. ASSUME NEW v \in 0..One, t = SetDimmer(v)
       PROVE  IsTactic(t) /\ Apply(c, t) \in Sites
  <2>1. [c EXCEPT !.dimmer = v] \in Sites BY DEF Sites
  <2>2. Apply(c, SetDimmer(v)) = [c EXCEPT !.dimmer = v] BY DEF Apply, SetDimmer
  <2> QED BY <1>10, <2>1, <2>2, AreTactics
<1>11. IsTactic(t) /\ Apply(c, t) \in Sites BY <1>2, <1>3, <1>4, <1>7, <1>8, <1>9, <1>10
<1> QED BY <1>11 DEF t

LEMMA Initially == Init => PeriodIndInv
<1> SUFFICES ASSUME Init PROVE PeriodIndInv OBVIOUS
<1>1. PICK s \in Nat \ {0} : s = Scale BY Widths
<1>2. PICK d \in Nat : d = InitialDimmer BY AdaptationManagerAssumption
<1>3. d * s \in 0..One /\ One \in Nat BY <1>1, <1>2, AdaptationManagerAssumption, Widths, SMT
<1>4. d * s = s * d /\ (s * d) % s = 0 BY SMT
<1>5. (d * s) % s = 0 BY <1>4
<1>6. InitialSite \in Sites /\ Whole(InitialSite)
  BY <1>1, <1>2, <1>3, <1>5, AdaptationManagerAssumption DEF InitialSite, Sites, Whole
<1>7. TypeOK
  BY <1>6, AreTactics, AdaptationManagerAssumption
  DEF Init, TypeOK, Measurements, ResponseTimes, None
<1> QED BY <1>6, <1>7 DEF Init, PeriodIndInv, InstantInOrder, DecisionStands, Lockstep, Deciding

LEMMA Taken ==
    ASSUME TypeOK, NEW m, Takes(m)
    PROVE  /\ m \in due /\ due' = due \ {m} /\ due' \subseteq Messages
           /\ m \in {"adaptMgr", "decisionComplete"} =>
                 "bootComplete" \notin due /\ "monitorPre" \notin due
           /\ m = "adaptMgr" => "decisionComplete" \notin due
           /\ m = "monitorPre" => "bootComplete" \notin due
           /\ m = "monitorPost" => due' \cap PeriodMessages \subseteq {}
BY DEF TypeOK, Takes, Priority, Messages, PeriodMessages

LEMMA StepNextPeriod ==
    ASSUME PeriodIndInv, NEW seen \in Measurements, NextPeriod(seen)
    PROVE  PeriodIndInv'
<1> USE DEF PeriodIndInv
<1>1. due' \subseteq Messages /\ {"monitorPre", "adaptMgr", "monitorPost"} \subseteq due'
        /\ ("decisionComplete" \in due' => Deciding)
  BY DEF NextPeriod, Messages, PeriodMessages
<1>2. TypeOK' BY <1>1 DEF NextPeriod, TypeOK, managerVars
<1>3. InstantInOrder'
  BY <1>1 DEF NextPeriod, TypeOK, InstantInOrder, managerVars, Deciding
<1>4. DecisionStands' BY DEF NextPeriod, DecisionStands, managerVars, Deciding
<1>5. Lockstep' BY <1>1 DEF NextPeriod, Lockstep, managerVars, TypeOK
<1> QED BY <1>2, <1>3, <1>4, <1>5

(* A boot that ends leaves both copies with what was decided on them.      *)
LEMMA BootsKeepSites ==
    ASSUME PeriodIndInv, BootsEnd
    PROVE  /\ manager' \in Sites /\ port' \in Sites
           /\ DecisionStands'
           /\ Whole(manager) => Whole(manager)'
           /\ Whole(port) => Whole(port)'
           /\ manager = port => manager' = port'
<1> USE DEF PeriodIndInv, TypeOK, BootsEnd
<1>1. manager' \in Sites /\ port' \in Sites BY BootedSite
<1>2. DecisionStands'
  <2> SUFFICES ASSUME Deciding' PROVE DecisionStands' BY DEF DecisionStands
  <2>1. Deciding /\ pTactic' = pTactic BY DEF Deciding
  <2>2. manager' = Booted(pTactic.on) BY <2>1, BootedSite DEF DecisionStands
  <2> QED BY <2>1, <2>2 DEF DecisionStands
<1>3. manager'.dimmer = manager.dimmer /\ port'.dimmer = port.dimmer BY DEF Booted, Sites
<1> QED BY <1>1, <1>2, <1>3 DEF Whole

LEMMA StepBootComplete == ASSUME PeriodIndInv, BootComplete PROVE PeriodIndInv'
<1> USE DEF PeriodIndInv, BootComplete
<1>1. "bootComplete" \in due /\ due' = due \ {"bootComplete"} /\ due' \subseteq Messages
  BY Taken
<1>2. BootsEnd OBVIOUS
<1>3. TypeOK' BY <1>1, <1>2, BootsKeepSites DEF TypeOK, BootsEnd
<1>4. InstantInOrder' BY <1>1 DEF BootsEnd, InstantInOrder, Deciding
<1>5. Lockstep'
  BY <1>1, <1>2, BootsKeepSites DEF BootsEnd, InstantInOrder, Lockstep
<1> QED BY <1>2, <1>3, <1>4, <1>5, BootsKeepSites

LEMMA StepBootEnds == ASSUME PeriodIndInv, BootEnds PROVE PeriodIndInv'
<1> USE DEF PeriodIndInv, BootEnds
<1>2. BootsEnd OBVIOUS
<1>3. TypeOK' BY <1>2, BootsKeepSites DEF TypeOK, BootsEnd
<1>4. InstantInOrder' BY DEF BootsEnd, InstantInOrder, Deciding
<1>5. Lockstep'
  BY <1>2, BootsKeepSites DEF BootsEnd, InstantInOrder, Lockstep
<1> QED BY <1>2, <1>3, <1>4, <1>5, BootsKeepSites

LEMMA StepMonitorPeriod == ASSUME PeriodIndInv, MonitorPeriod PROVE PeriodIndInv'
<1> USE DEF PeriodIndInv, MonitorPeriod, managerVars, portVars
<1>1. "monitorPre" \in due /\ due' = due \ {"monitorPre"} /\ due' \subseteq Messages
        /\ "bootComplete" \notin due
  BY Taken
<1>3. TypeOK' BY <1>1 DEF TypeOK
<1>4. InstantInOrder' BY <1>1 DEF InstantInOrder, Deciding
<1>5. DecisionStands' BY DEF DecisionStands, Deciding
<1>6. Lockstep' BY <1>1 DEF Lockstep
<1> QED BY <1>3, <1>4, <1>5, <1>6

LEMMA StepMonitorPost == ASSUME PeriodIndInv, MonitorPost PROVE PeriodIndInv'
<1> USE DEF PeriodIndInv, MonitorPost, managerVars, portVars
<1>1. "monitorPost" \in due /\ due' = due \ {"monitorPost"} /\ due' \subseteq Messages
  BY Taken
<1>3. TypeOK' BY <1>1 DEF TypeOK
<1>4. InstantInOrder' BY <1>1 DEF InstantInOrder, Deciding
<1>5. DecisionStands' BY DEF DecisionStands, Deciding
<1>6. Lockstep' BY <1>1 DEF Lockstep
<1> QED BY <1>3, <1>4, <1>5, <1>6

LEMMA StepAdaptationPeriod == ASSUME PeriodIndInv, AdaptationPeriod PROVE PeriodIndInv'
<1> USE DEF PeriodIndInv, AdaptationPeriod, portVars
<1>1. /\ "adaptMgr" \in due /\ due' = due \ {"adaptMgr"} /\ due' \subseteq Messages
      /\ "bootComplete" \notin due /\ "monitorPre" \notin due /\ "decisionComplete" \notin due
  BY Taken
<1> DEFINE t == evaluate(manager, observations.of.rt, observations.of.spareAboveOne)
<1>2. observations = [of |-> sees, fresh |-> TRUE] /\ sees \in Measurements
  BY <1>1 DEF InstantInOrder, TypeOK
<1>3. IsTactic(t) /\ Apply(manager, t) \in Sites BY RuleIsPossible DEF TypeOK
<1>4. CASE Deciding
  <2>1. UNCHANGED managerVars BY <1>4 DEF Skips
  <2>2. TypeOK' BY <1>1, <2>1 DEF TypeOK, managerVars
  <2>3. InstantInOrder' BY <1>1, <2>1 DEF InstantInOrder, Deciding, managerVars
  <2>4. DecisionStands' BY <2>1 DEF DecisionStands, Deciding, managerVars
  <2>5. Lockstep' BY <1>4, <2>1 DEF Lockstep, DecisionStands, managerVars
  <2> QED BY <2>2, <2>3, <2>4, <2>5
<1>5. CASE ~Deciding /\ simulateDecisionDelay
  <2>1. managerDid' = t /\ pTactic' = [tactic |-> t, on |-> manager] /\ UNCHANGED manager
    BY <1>5 DEF Skips
  <2>2. TypeOK' BY <1>1, <1>3, <2>1 DEF TypeOK
  <2>3. InstantInOrder' BY <1>1, <1>5 DEF InstantInOrder
  <2>4. DecisionStands' BY <1>2, <1>5, <2>1 DEF DecisionStands, TypeOK
  <2>5. Lockstep' BY <1>5 DEF Lockstep
  <2> QED BY <2>2, <2>3, <2>4, <2>5
<1>6. CASE ~Deciding /\ ~simulateDecisionDelay
  <2>1. managerDid' = t /\ pTactic' = None /\ manager' = Apply(manager, t)
    BY <1>6 DEF Skips, CarryOut
  <2>2. TypeOK' BY <1>1, <1>3, <2>1, AreTactics DEF TypeOK, None
  <2>3. InstantInOrder' BY <1>1, <1>6 DEF InstantInOrder
  <2>4. DecisionStands' BY <2>1 DEF DecisionStands, Deciding
  <2>5. Lockstep'
    <3> SUFFICES ASSUME StepHasSixDecimals PROVE Lockstep' BY DEF Lockstep, StepHasSixDecimals
    <3>1. manager = port /\ Whole(manager) /\ Whole(port) /\ ~portActed
      BY <1>1, <1>6 DEF Lockstep, InstantInOrder
    <3>2. Whole(manager')
      BY <2>1, <3>1, <1>2, PortDecidesAsManager DEF TypeOK, Measurements
    <3>3. managerDid' = evaluate(port, sees.rt, sees.spareAboveOne)
      BY <1>2, <2>1, <3>1
    <3> QED BY <1>1, <1>2, <2>1, <3>1, <3>2, <3>3 DEF Lockstep, Whole
  <2> QED BY <2>2, <2>3, <2>4, <2>5
<1> QED BY <1>4, <1>5, <1>6

LEMMA StepDecisionComplete == ASSUME PeriodIndInv, DecisionComplete PROVE PeriodIndInv'
<1> USE DEF PeriodIndInv, DecisionComplete, CarryOut, portVars
<1>1. due' \subseteq due /\ "decisionComplete" \notin due' /\ due' \subseteq Messages
        /\ ("adaptMgr" \in due => "adaptMgr" \in due')
        /\ "bootComplete" \notin due'
        /\ (due' # {} /\ "monitorPre" \notin due' => due # {} /\ "monitorPre" \notin due)
  BY Taken DEF TypeOK
<1>2. simulateDecisionDelay BY DEF DecisionStands
<1>3. Apply(manager, pTactic.tactic) \in Sites BY RuleIsPossible DEF DecisionStands
<1>4. TypeOK' BY <1>1, <1>3, AreTactics DEF TypeOK, None
<1>5. InstantInOrder' BY <1>1, <1>2 DEF InstantInOrder
<1>6. DecisionStands' BY DEF DecisionStands, Deciding
<1>7. Lockstep' BY <1>2 DEF Lockstep
<1> QED BY <1>4, <1>5, <1>6, <1>7

LEMMA StepPortPeriod == ASSUME PeriodIndInv, PortPeriod PROVE PeriodIndInv'
<1> USE DEF PeriodIndInv, PortPeriod, managerVars, periodVars
<1>1. IsTactic(portDid') /\ port' \in Sites BY PortIsPossible DEF TypeOK
<1>2. TypeOK' BY <1>1 DEF TypeOK
<1>3. InstantInOrder' BY DEF InstantInOrder, Deciding
<1>4. DecisionStands' BY DEF DecisionStands, Deciding
<1>5. Lockstep'
  <2> SUFFICES ASSUME StepHasSixDecimals, ~simulateDecisionDelay PROVE Lockstep'
    BY DEF Lockstep, StepHasSixDecimals
  <2>1. portDid' = managerDid
    BY PortDecidesAsManager DEF Lockstep, TypeOK, Measurements
  <2>2. port' = manager BY <2>1 DEF Lockstep
  <2> QED BY <2>1, <2>2 DEF Lockstep, Whole
<1> QED BY <1>2, <1>3, <1>4, <1>5

LEMMA Stutters == ASSUME PeriodIndInv, UNCHANGED vars PROVE PeriodIndInv'
BY DEF PeriodIndInv, TypeOK, InstantInOrder, DecisionStands, Lockstep, Deciding, Whole,
       vars, periodVars, managerVars, portVars

LEMMA PeriodIsInductive == PeriodIndInv /\ [Next]_vars => PeriodIndInv'
<1> SUFFICES ASSUME PeriodIndInv, [Next]_vars PROVE PeriodIndInv' OBVIOUS
<1>1. CASE HandleMessage
  BY <1>1, StepBootComplete, StepMonitorPeriod, StepAdaptationPeriod, StepDecisionComplete,
     StepMonitorPost DEF HandleMessage
<1> QED BY <1>1, StepPortPeriod, StepBootEnds, StepNextPeriod, Stutters DEF Next

LEMMA PeriodInduction == Spec => []PeriodIndInv
BY Initially, PeriodIsInductive, PTL DEF Spec

-----------------------------------------------------------------------------
(* What the periods promise                                                *)

LEMMA PortFollows == PeriodIndInv => TypeOK /\ PortFollowsManager
BY DEF PeriodIndInv, Lockstep, PortFollowsManager

LEMMA FreshWhenDeciding ==
    ASSUME PeriodIndInv, AdaptationPeriod
    PROVE  observations.fresh /\ observations.of = sees /\ "bootComplete" \notin due
<1>1. "adaptMgr" \in due /\ "bootComplete" \notin due /\ "monitorPre" \notin due
  BY Taken DEF PeriodIndInv, AdaptationPeriod
<1> QED BY <1>1 DEF PeriodIndInv, InstantInOrder

(* SimpleMonitor, ModulePriorities.h: in every history, whatever boots and *)
(* delays end in the instant of a period, a decision is made on what the   *)
(* monitor has measured in this very period.                               *)
THEOREM EveryDecisionIsOnThisPeriod == Spec => DecidesOnThisPeriod
<1>1. PeriodIndInv /\ [Next]_vars =>
        [AdaptationPeriod /\ ~Deciding =>
            observations.fresh /\ observations.of = sees /\ "bootComplete" \notin due]_vars
  BY FreshWhenDeciding
<1> QED BY <1>1, PeriodInduction, PTL DEF Spec, DecidesOnThisPeriod

LEMMA CarriedOut ==
    ASSUME PeriodIndInv, Next, Deciding, pTactic' # pTactic
    PROVE  /\ manager = pTactic.on \/ manager = Booted(pTactic.on)
           /\ manager' = Apply(manager, pTactic.tactic)
<1>1. AdaptationPeriod => UNCHANGED pTactic BY DEF AdaptationPeriod, Skips, managerVars
<1>2. DecisionComplete
  BY <1>1 DEF Next, HandleMessage, BootComplete, BootsEnd, MonitorPeriod, MonitorPost,
              PortPeriod, BootEnds, NextPeriod, managerVars
<1> QED BY <1>2 DEF DecisionComplete, CarryOut, PeriodIndInv, DecisionStands

(* BaseAdaptationManager: for every delay, the decision under way is       *)
(* carried out as decided, on the site it was decided on but for a boot    *)
(* that has ended; none is dropped and none replaced by another.           *)
THEOREM EveryDecisionIsCarriedOut == Spec => DecisionCarriedOut
<1>1. PeriodIndInv /\ [Next]_vars =>
        [Deciding /\ pTactic' # pTactic =>
            /\ manager = pTactic.on \/ manager = Booted(pTactic.on)
            /\ manager' = Apply(manager, pTactic.tactic)]_vars
  BY CarriedOut
<1> QED BY <1>1, PeriodInduction, PTL DEF Spec, DecisionCarriedOut

-----------------------------------------------------------------------------
(* Rounding and dividing                                                   *)

LEMMA Division ==
    ASSUME NEW a \in Int, NEW b \in Nat \ {0}
    PROVE  a \div b \in Int /\ b * (a \div b) <= a /\ a < b * (a \div b) + b
BY SMT

LEMMA Quotient ==
    ASSUME NEW a \in Int, NEW b \in Nat \ {0}, NEW q \in Int, b * q <= a, a < b * q + b
    PROVE  a \div b = q
BY SMT

LEMMA QuotientGrows ==
    ASSUME NEW a \in Int, NEW c \in Int, NEW b \in Nat \ {0}, a <= c
    PROVE  a \div b <= c \div b
<1>1. PICK q \in Int : q = a \div b /\ b * q <= a BY Division
<1>2. PICK r \in Int : r = c \div b /\ c < b * r + b BY Division
<1>3. b * q < b * (r + 1) BY <1>1, <1>2, SMT
<1>4. q < r + 1 BY <1>3, SMT
<1> QED BY <1>1, <1>2, <1>4, SMT

LEMMA CeilingReaches ==
    ASSUME NEW a \in Int, NEW b \in Nat \ {0}
    PROVE  Ceiling(a, b) \in Int /\ b * Ceiling(a, b) >= a
<1>1. PICK q \in Int : q = (-a) \div b /\ b * q <= -a BY Division, SMT
<1>2. b * (-q) >= a BY <1>1, SMT
<1> QED BY <1>1, <1>2, SMT DEF Ceiling

(* Rounded(a, b) is the whole number nearest to a over b.                  *)
LEMMA RoundedIsNearest ==
    ASSUME NEW a \in Int, NEW b \in Nat \ {0}
    PROVE  /\ Rounded(a, b) \in Int
           /\ 2 * (b * Rounded(a, b)) <= 2 * a + b
           /\ 2 * a - b <= 2 * (b * Rounded(a, b))
<1>1. CASE a >= 0
  <2>1. PICK q \in Int : /\ q = (2 * a + b) \div (2 * b)
                         /\ (2 * b) * q <= 2 * a + b /\ 2 * a + b < (2 * b) * q + 2 * b
    BY Division, SMT
  <2>2. Rounded(a, b) = q BY <1>1, <2>1, SMT DEF Rounded
  <2>3. (2 * b) * q = 2 * (b * q) BY SMT
  <2> QED BY <2>1, <2>2, <2>3, SMT
<1>2. CASE a < 0
  <2>1. PICK q \in Int : /\ q = (b - 2 * a) \div (2 * b)
                         /\ (2 * b) * q <= b - 2 * a /\ b - 2 * a < (2 * b) * q + 2 * b
    BY Division, SMT
  <2>2. Rounded(a, b) = -q BY <1>2, <2>1, SMT DEF Rounded
  <2>3. (2 * b) * q = 2 * (b * q) /\ b * (-q) = -(b * q) BY SMT
  <2> QED BY <2>1, <2>2, <2>3, SMT
<1> QED BY <1>1, <1>2, SMT

LEMMA RoundsTo ==
    ASSUME NEW a \in Nat, NEW b \in Nat \ {0}, NEW j \in Int, NEW e \in Int,
           a = b * j + e, -b <= 2 * e, 2 * e < b
    PROVE  Rounded(a, b) = j
<1>1. (2 * b) * j <= 2 * a + b /\ 2 * a + b < (2 * b) * j + 2 * b BY SMT
<1>2. (2 * a + b) \div (2 * b) = j BY <1>1, Quotient, SMT
<1> QED BY <1>2, SMT DEF Rounded

LEMMA RoundedGrows ==
    ASSUME NEW a \in Int, NEW c \in Int, NEW b \in Nat \ {0}, a <= c
    PROVE  Rounded(a, b) <= Rounded(c, b)
<1>1. CASE a >= 0
  <2>1. (2 * a + b) \div (2 * b) <= (2 * c + b) \div (2 * b) BY QuotientGrows, SMT
  <2> QED BY <1>1, <2>1, SMT DEF Rounded
<1>2. CASE c < 0
  <2>1. (b - 2 * c) \div (2 * b) <= (b - 2 * a) \div (2 * b) BY QuotientGrows, SMT
  <2>2. (b - 2 * c) \div (2 * b) \in Int /\ (b - 2 * a) \div (2 * b) \in Int BY SMT
  <2> QED BY <1>2, <2>1, <2>2, SMT DEF Rounded
<1>3. CASE a < 0 /\ c >= 0
  <2>1. PICK r \in Int : r = Rounded(a, b) /\ 2 * (b * r) <= 2 * a + b BY RoundedIsNearest
  <2>2. PICK s \in Int : s = Rounded(c, b) /\ 2 * c - b <= 2 * (b * s) BY RoundedIsNearest
  <2>3. r <= 0
    <3>1. b * (2 * r) < b BY <1>3, <2>1, SMT
    <3>2. ~(r >= 1) BY <3>1, SMT
    <3> QED BY <3>2, SMT
  <2>4. s >= 0
    <3>1. -b <= b * (2 * s) BY <1>3, <2>2, SMT
    <3>2. ~(s <= -1) BY <3>1, SMT
    <3> QED BY <3>2, SMT
  <2> QED BY <2>1, <2>2, <2>3, <2>4, SMT
<1> QED BY <1>1, <1>2, <1>3, SMT

-----------------------------------------------------------------------------
(* A model of any size whose levels are far enough apart to be told from   *)
(* each other in thousandths.                                              *)
AnyModel(m) ==
    /\ m \in [levels : Nat, dimmerMargin : Nat, lowerDimmerMargin : BOOLEAN,
              maxServers : Nat \ {0}, active : Nat, activeLast : Nat, timeLast : Nat,
              events : {<<>>} \cup {<<t>> : t \in Nat},
              bootDelay : Nat, period : Nat \ {0}, brownoutFactor : 0..Unit]
    /\ m.levels >= 2 /\ 2 * (m.levels - 1) <= Unit - 2 * m.dimmerMargin

Width(m) == IF m.lowerDimmerMargin THEN Unit - m.dimmerMargin ELSE Unit - 2 * m.dimmerMargin
Offset(m) == IF m.lowerDimmerMargin THEN 0 ELSE m.dimmerMargin

LEMMA LevelsAndFactors ==
    ASSUME NEW m, AnyModel(m)
    PROVE  /\ Width(m) \in Nat \ {0} /\ 2 * (m.levels - 1) <= Width(m)
           /\ m.levels - 1 \in Nat \ {0} /\ Offset(m) \in Nat
           /\ \A level \in Int : brownoutLevelToFactor(m, level)
                = Offset(m) + (Width(m) * (level - 1)) \div (m.levels - 1)
           /\ \A factor \in Int : brownoutFactorToLevel(m, factor)
                = 1 + Rounded((factor - Offset(m)) * (m.levels - 1), Width(m))
<1>1. Width(m) \in Nat \ {0} /\ m.levels - 1 \in Nat \ {0} /\ Offset(m) \in Nat
        /\ 2 * (m.levels - 1) <= Width(m)
  <2>1. PICK n \in Nat : n = m.levels /\ n >= 2 BY DEF AnyModel
  <2>2. PICK d \in Nat : d = m.dimmerMargin BY DEF AnyModel
  <2>3. 2 * (n - 1) <= Unit - 2 * d BY <2>1, <2>2 DEF AnyModel
  <2>4. /\ Unit - d \in Nat \ {0} /\ Unit - 2 * d \in Nat \ {0}
        /\ 2 * (n - 1) <= Unit - d /\ n - 1 \in Nat \ {0}
    BY <2>1, <2>3, SMT DEF Unit
  <2> QED BY <2>1, <2>2, <2>3, <2>4 DEF Width, Offset
<1>2. CASE m.lowerDimmerMargin
  <2>1. ASSUME NEW x \in Int PROVE x - 0 = x /\ 0 + x = x BY SMT
  <2>2. ASSUME NEW level \in Int PROVE (Width(m) * (level - 1)) \div (m.levels - 1) \in Int
    <3>1. PICK a \in Int : a = Width(m) * (level - 1) BY <1>1, SMT
    <3>2. a \div (m.levels - 1) \in Int BY <1>1, Division
    <3> QED BY <3>1, <3>2
  <2> QED
    BY <1>1, <1>2, <2>1, <2>2, Zenon
    DEF Width, Offset, brownoutLevelToFactor, brownoutFactorToLevel
<1>3. CASE ~m.lowerDimmerMargin
  BY <1>1, <1>3, Zenon DEF Width, Offset, brownoutLevelToFactor, brownoutFactorToLevel
<1> QED BY <1>2, <1>3

(* The k-th of n parts of a width w, rounded down, is still the k-th part; *)
(* so is what is left of the width the n - k-th.                           *)
LEMMA PartsComeBack ==
    ASSUME NEW n \in Nat \ {0}, NEW w \in Nat \ {0}, 2 * n <= w, NEW k \in 0..n
    PROVE  LET f == (w * k) \div n
           IN  f \in Nat /\ Rounded(f * n, w) = k /\ f <= w /\ Rounded((w - f) * n, w) = n - k
<1>1. PICK f \in Int : f = (w * k) \div n /\ n * f <= w * k /\ w * k < n * f + n
  <2>1. PICK a \in Int : a = w * k BY SMT
  <2>2. PICK f \in Int : f = a \div n /\ n * f <= a /\ a < n * f + n BY Division
  <2>3. f = (w * k) \div n /\ n * f <= w * k /\ w * k < n * f + n BY <2>1, <2>2
  <2> QED BY <2>3
<1>2. w * k >= 0 /\ w * k <= w * n BY SMT
<1>3. f >= 0
  <2>1. n * (f + 1) > 0 BY <1>1, <1>2, SMT
  <2> QED BY <2>1, SMT
<1>4. f <= w
  <2>1. n * f <= n * w BY <1>1, <1>2, SMT
  <2> QED BY <2>1, SMT
<1>5. PICK r \in 0..(n - 1) : w * k = n * f + r BY <1>1, SMT
<1>6. Rounded(f * n, w) = k
  <2>1. f * n = w * k + (-r) /\ f * n >= 0 BY <1>3, <1>5, SMT
  <2> QED BY <2>1, RoundsTo, SMT
<1>7. Rounded((w - f) * n, w) = n - k
  <2>1. (w - f) * n = w * (n - k) + r /\ (w - f) * n >= 0 BY <1>4, <1>5, SMT
  <2> QED BY <2>1, RoundsTo, SMT
<1> QED BY <1>1, <1>3, <1>4, <1>6, <1>7

LEMMA LevelComesBack ==
    ASSUME NEW m, AnyModel(m), NEW level \in 1..m.levels
    PROVE  /\ brownoutFactorToLevel(m, brownoutLevelToFactor(m, level)) = level
           /\ ~m.lowerDimmerMargin \/ m.dimmerMargin = 0 =>
                 dimmerFactorToLevel(m, dimmerLevelToFactor(m, level)) = level
<1> DEFINE w == Width(m)
           n == m.levels - 1
           o == Offset(m)
<1>1. w \in Nat \ {0} /\ n \in Nat \ {0} /\ o \in Nat /\ 2 * n <= w /\ m.levels \in Nat
  BY LevelsAndFactors DEF AnyModel
<1>2. \A l, f \in Int : /\ brownoutLevelToFactor(m, l) = o + (w * (l - 1)) \div n
                        /\ brownoutFactorToLevel(m, f) = 1 + Rounded((f - o) * n, w)
  BY LevelsAndFactors
<1>3. brownoutFactorToLevel(m, brownoutLevelToFactor(m, level)) = level
  <2>1. PICK f \in Nat : f = (w * (level - 1)) \div n /\ Rounded(f * n, w) = level - 1
    <3>1. level - 1 \in 0..n BY <1>1, SMT
    <3> HIDE DEF w, n
    <3> QED BY <1>1, <3>1, PartsComeBack
  <2> HIDE DEF w, n, o
  <2>2. brownoutLevelToFactor(m, level) = o + f BY <1>2, <2>1
  <2>3. o + f \in Int /\ (o + f) - o = f BY <1>1
  <2>4. brownoutFactorToLevel(m, o + f) = 1 + Rounded(f * n, w) BY <1>2, <2>3
  <2> QED BY <2>1, <2>2, <2>4
<1>4. ASSUME ~m.lowerDimmerMargin \/ m.dimmerMargin = 0
      PROVE  dimmerFactorToLevel(m, dimmerLevelToFactor(m, level)) = level
  <2>1. w = Unit - 2 * o /\ Unit \in Int
    BY <1>4, SMT DEF Width, Offset, AnyModel, Unit
  <2>2. n - (level - 1) \in 0..n /\ m.levels - level + 1 \in Int
          /\ (m.levels - level + 1) - 1 = n - (level - 1)
    BY <1>1, SMT
  <2>3. PICK k \in 0..n : k = n - (level - 1) BY <2>2
  <2> HIDE DEF w, n, o
  <2>4. PICK f \in Nat : f = (w * k) \div n /\ Rounded((w - f) * n, w) = n - k
    BY <1>1, PartsComeBack
  <2>5. dimmerLevelToFactor(m, level) = o + f BY <1>2, <2>2, <2>3, <2>4 DEF dimmerLevelToFactor
  <2>6. Unit - (o + f) \in Int /\ (Unit - (o + f)) - o = w - f BY <1>1, <2>1, SMT
  <2>7. brownoutFactorToLevel(m, Unit - (o + f)) = 1 + (n - k) BY <1>2, <2>4, <2>6
  <2> QED BY <1>1, <2>3, <2>5, <2>7, SMT DEF dimmerFactorToLevel
<1> QED BY <1>3, <1>4

LEMMA BootRemainsFor ==
    ASSUME NEW m, AnyModel(m), NEW now \in Int
    PROVE  LET c == getConfiguration(m, now)
           IN  /\ ConfiguredServers(c) = m.active + Len(m.events)
               /\ c.bootRemain = 0 <=> m.events = <<>>
               /\ m.events # <<>> =>
                     getActiveServerCountIn(m, now, c.bootRemain * m.period) = m.active + 1
<1> DEFINE c == getConfiguration(m, now)
           Goal == /\ ConfiguredServers(c) = m.active + Len(m.events)
                   /\ c.bootRemain = 0 <=> m.events = <<>>
                   /\ m.events # <<>> =>
                         getActiveServerCountIn(m, now, c.bootRemain * m.period) = m.active + 1
<1>0. m.active \in Nat /\ m.period \in Nat \ {0} BY DEF AnyModel
<1>1. c.active = m.active BY DEF getConfiguration
<1>2. ASSUME m.events = <<>> PROVE Goal
  <2>1. c.bootRemain = 0 /\ Len(m.events) = 0 BY <1>2 DEF getConfiguration
  <2>2. ~(c.bootRemain > 0) BY <2>1, SMT
  <2>3. ConfiguredServers(c) = m.active + 0 BY <1>1, <2>2 DEF ConfiguredServers
  <2> QED BY <1>2, <2>1, <2>3
<1>3. ASSUME m.events # <<>> PROVE Goal
  <2>1. PICK t \in Nat : m.events = <<t>> BY <1>3 DEF AnyModel
  <2>2. Len(m.events) = 1 /\ m.events[1] = t /\ 1 \in DOMAIN m.events BY <2>1
  <2>3. PICK q \in Int : q = Ceiling(t - now, m.period) /\ m.period * q >= t - now
    <3>1. t - now \in Int BY SMT
    <3>2. Ceiling(t - now, m.period) \in Int /\ m.period * Ceiling(t - now, m.period) >= t - now
      BY <1>0, <3>1, CeilingReaches
    <3> QED BY <3>2
  <2>4. PICK b \in Nat \ {0} : b = c.bootRemain /\ b >= q
    <3>1. c.bootRemain = Larger(1, q) BY <1>3, <2>2, <2>3 DEF getConfiguration
    <3>2. Larger(1, q) \in Nat \ {0} /\ Larger(1, q) >= q BY <2>3, SMT DEF Larger
    <3> QED BY <3>1, <3>2
  <2>5. PICK p \in Nat \ {0} : p = m.period BY <1>0
  <2>6. b * p \in Nat /\ t <= now + b * p
    <3>1. p * q <= p * b BY <2>4, SMT
    <3>2. p * b = b * p /\ p * b \in Nat BY SMT
    <3> QED BY <2>3, <2>5, <3>1, <3>2, SMT
  <2>7. getActiveServerCountIn(m, now, b * p) = m.active + 1
    <3>1. ~(b * p < 0) BY <2>6, SMT
    <3>2. \E i \in DOMAIN m.events : m.events[i] <= now + b * p BY <2>2, <2>6
    <3> QED BY <3>1, <3>2 DEF getActiveServerCountIn
  <2>8. c.bootRemain > 0 BY <2>4, SMT
  <2>10. ConfiguredServers(c) = m.active + 1 BY <1>1, <2>8 DEF ConfiguredServers
  <2>9. c.bootRemain # 0 BY <2>4
  <2> QED BY <1>0, <1>3, <2>2, <2>4, <2>5, <2>7, <2>9, <2>10
<1> QED BY <1>2, <1>3

LEMMA ExpectedServersGrowFor ==
    ASSUME NEW m, AnyModel(m), NEW now \in Int, NEW s \in Nat, NEW t \in Nat, s <= t
    PROVE  getActiveServerCountIn(m, now, s) <= getActiveServerCountIn(m, now, t)
<1>1. \A x \in Int : x <= now + s => x <= now + t BY SMT
<1>2. \A i \in DOMAIN m.events : m.events[i] \in Int
  <2>1. CASE m.events = <<>> BY <2>1
  <2>2. ASSUME NEW u \in Nat, m.events = <<u>> PROVE \A i \in DOMAIN m.events : m.events[i] \in Int
    BY <2>2
  <2> QED BY <2>1, <2>2 DEF AnyModel
<1>3. (\E i \in DOMAIN m.events : m.events[i] <= now + s)
        => \E i \in DOMAIN m.events : m.events[i] <= now + t
  BY <1>1, <1>2
<1>4. ~(s < 0) /\ ~(t < 0) /\ m.active \in Nat BY SMT DEF AnyModel
<1> QED BY <1>3, <1>4 DEF getActiveServerCountIn

LEMMA HorizonSeesAllBootsOf ==
    ASSUME NEW m, AnyModel(m)
    PROVE  m.period * (Horizon(m) - 1) >= m.bootDelay * (m.maxServers - 1)
<1>1. PICK p \in Nat \ {0} : p = m.period BY DEF AnyModel
<1>2. PICK d \in Nat : d = m.bootDelay BY DEF AnyModel
<1>3. PICK k \in Nat : k = m.maxServers - 1 BY SMT DEF AnyModel
<1>4. PICK q \in Int : q = Ceiling(d, p) /\ p * q >= d
  <2>1. d \in Int OBVIOUS
  <2>2. Ceiling(d, p) \in Int /\ p * Ceiling(d, p) >= d BY <2>1, CeilingReaches
  <2> QED BY <2>2
<1>5. PICK h \in Int : h = Horizon(m) /\ h - 1 >= q * k
  <2>1. q * k + 1 \in Int BY SMT
  <2> QED BY <1>1, <1>2, <1>3, <1>4, <2>1, SMT DEF Horizon, Larger
<1>6. p * (h - 1) >= p * (q * k) BY <1>5, SMT
<1>7. p * (q * k) = (p * q) * k BY SMT
<1>8. (p * q) * k >= d * k
  <2>1. PICK x \in Int : x = p * q /\ x >= d BY <1>4
  <2>2. x * k >= d * k BY <2>1, SMT
  <2> QED BY <2>1, <2>2
<1> QED BY <1>1, <1>2, <1>3, <1>5, <1>6, <1>7, <1>8, SMT

(* The factor of the level of a factor: within half a width of it, and     *)
(* more of one is not less of the other.                                   *)
LevelledFactor(m, factor) == brownoutLevelToFactor(m, brownoutFactorToLevel(m, factor))

LEMMA LevelledFactorIs ==
    ASSUME NEW m, AnyModel(m), NEW factor \in Int
    PROVE  /\ (factor - Offset(m)) * (m.levels - 1) \in Int
           /\ Rounded((factor - Offset(m)) * (m.levels - 1), Width(m)) \in Int
           /\ LevelledFactor(m, factor)
                = Offset(m) + (Width(m) * Rounded((factor - Offset(m)) * (m.levels - 1), Width(m)))
                                \div (m.levels - 1)
<1>1. PICK w \in Nat \ {0} : w = Width(m) BY LevelsAndFactors
<1>2. PICK n \in Nat \ {0} : n = m.levels - 1 BY LevelsAndFactors
<1>3. PICK o \in Nat : o = Offset(m) BY LevelsAndFactors
<1>4. PICK a \in Int : a = (factor - o) * n BY SMT
<1>5. PICK r \in Int : r = Rounded(a, w) BY RoundedIsNearest
<1>6. brownoutFactorToLevel(m, factor) = 1 + r /\ 1 + r \in Int /\ (1 + r) - 1 = r
  <2>1. 1 + r \in Int /\ (1 + r) - 1 = r BY SMT
  <2> QED BY <1>1, <1>2, <1>3, <1>4, <1>5, <2>1, LevelsAndFactors
<1>7. brownoutLevelToFactor(m, 1 + r) = o + (w * r) \div n
  BY <1>1, <1>2, <1>3, <1>6, LevelsAndFactors
<1> QED BY <1>1, <1>2, <1>3, <1>4, <1>5, <1>6, <1>7 DEF LevelledFactor

LEMMA LevelledFactorIsNear ==
    ASSUME NEW m, AnyModel(m), NEW factor \in 0..Unit
    PROVE  LevelledFactor(m, factor) \in Int /\ 2 * LevelledFactor(m, factor) <= 3 * Unit
<1>1. PICK w \in Nat \ {0} : w = Width(m) BY LevelsAndFactors
<1>2. PICK n \in Nat \ {0} : n = m.levels - 1 BY LevelsAndFactors
<1>3. PICK o \in Nat : o = Offset(m) BY LevelsAndFactors
<1>4. PICK u \in Nat : u = Unit BY DEF Unit
<1>5. factor \in Int /\ factor <= u BY <1>4, SMT
<1>6. PICK a \in Int : a = (factor - o) * n BY <1>5, SMT
<1>7. PICK r \in Int : r = Rounded(a, w) /\ 2 * (w * r) <= 2 * a + w BY RoundedIsNearest
<1>8. PICK x \in Int : x = w * r BY SMT
<1>9. PICK q \in Int : q = x \div n /\ n * q <= x BY Division
<1>10. LevelledFactor(m, factor) = o + q
  BY <1>1, <1>2, <1>3, <1>5, <1>6, <1>7, <1>8, <1>9, LevelledFactorIs
<1>11. w <= u
  <2>1. PICK d \in Nat : d = m.dimmerMargin BY DEF AnyModel
  <2>2. u - d <= u /\ u - 2 * d <= u BY SMT
  <2> QED BY <1>1, <1>4, <2>1, <2>2 DEF Width
<1>12. 2 * (n * q) <= 2 * ((factor - o) * n) + w BY <1>6, <1>7, <1>8, <1>9, SMT
<1>13. w <= u * n BY <1>11, SMT
<1>14. n * (2 * q) <= n * (2 * (factor - o) + u) BY <1>5, <1>12, <1>13, SMT
<1>15. 2 * q <= 2 * (factor - o) + u BY <1>5, <1>14, SMT
<1>16. 2 * (o + q) <= 3 * u BY <1>5, <1>15, SMT
<1> QED BY <1>4, <1>10, <1>16, SMT

LEMMA LevelledFactorGrows ==
    ASSUME NEW m, AnyModel(m), NEW f \in Int, NEW g \in Int, f <= g
    PROVE  LevelledFactor(m, f) <= LevelledFactor(m, g)
<1>1. PICK w \in Nat \ {0} : w = Width(m) BY LevelsAndFactors
<1>2. PICK n \in Nat \ {0} : n = m.levels - 1 BY LevelsAndFactors
<1>3. PICK o \in Nat : o = Offset(m) BY LevelsAndFactors
<1>4. PICK a \in Int : a = (f - o) * n BY SMT
<1>5. PICK b \in Int : b = (g - o) * n BY SMT
<1>6. a <= b BY <1>4, <1>5, SMT
<1>7. PICK r \in Int : r = Rounded(a, w) BY RoundedIsNearest
<1>8. PICK s \in Int : s = Rounded(b, w) BY RoundedIsNearest
<1>9. r <= s BY <1>6, <1>7, <1>8, RoundedGrows
<1>10. PICK x \in Int : x = w * r BY SMT
<1>11. PICK y \in Int : y = w * s BY SMT
<1>12. x <= y BY <1>9, <1>10, <1>11, SMT
<1>13. x \div n <= y \div n BY <1>12, QuotientGrows
<1>14. LevelledFactor(m, f) = o + x \div n
  BY <1>1, <1>2, <1>3, <1>4, <1>7, <1>10, LevelledFactorIs
<1>15. LevelledFactor(m, g) = o + y \div n
  BY <1>1, <1>2, <1>3, <1>5, <1>8, <1>11, LevelledFactorIs
<1>16. x \div n \in Int /\ y \div n \in Int BY Division
<1> QED BY <1>13, <1>14, <1>15, <1>16, SMT

(* What a period in time gains, in thousandths of thousandths.             *)
Gain(a, factor) == a * (factor * Unit + (Unit - factor) * 1500)

LEMMA GainFalls ==
    ASSUME NEW a \in Nat, NEW f \in Int, NEW g \in Int, f <= g, 2 * g <= 3 * Unit
    PROVE  Gain(a, f) \in Nat /\ Gain(a, g) \in Nat /\ Gain(a, g) <= Gain(a, f)
<1>1. PICK x \in Int : x = f * Unit + (Unit - f) * 1500 BY SMT DEF Unit
<1>2. PICK y \in Int : y = g * Unit + (Unit - g) * 1500 BY SMT DEF Unit
<1>3. 0 <= y /\ y <= x BY <1>1, <1>2, SMT DEF Unit
<1>4. 0 <= a * y /\ a * y <= a * x BY <1>3, SMT
<1> QED BY <1>1, <1>2, <1>4, SMT DEF Gain

LEMMA ScoreIs ==
    ASSUME NEW m, AnyModel(m), NEW a \in Nat
    PROVE  /\ \A rt \in {"in time", "nan"} :
                 getAccruedUtility(m, a, rt)
                    = Unit * Rounded(Gain(a, LevelledFactor(m, m.brownoutFactor)), Unit * Unit)
           /\ getAccruedUtility(m, a, "late") <= 0
<1>1. ASSUME NEW rt \in {"in time", "nan"}
      PROVE  getAccruedUtility(m, a, rt)
               = Unit * Rounded(Gain(a, LevelledFactor(m, m.brownoutFactor)), Unit * Unit)
  <2>1. rt # "late" OBVIOUS
  <2> QED BY <2>1, Zenon DEF getAccruedUtility, LevelledFactor, Gain
<1>2. getAccruedUtility(m, a, "late") <= 0
  <2>1. PICK k \in Nat : k = m.maxServers BY DEF AnyModel
  <2> DEFINE g == a * 1500 - k * 22 * 1500
  <2>2. g \in Int BY SMT
  <2>3. getAccruedUtility(m, a, "late") = IF g < 0 THEN g ELSE 0
    BY <2>1 DEF getAccruedUtility
  <2> HIDE DEF g
  <2>4. (IF g < 0 THEN g ELSE 0) <= 0 BY <2>2, SMT
  <2> QED BY <2>3, <2>4
<1> QED BY <1>1, <1>2

LEMMA ScoresCompare ==
    ASSUME NEW u \in Nat \ {0}, NEW b \in Nat \ {0}, NEW g \in Nat, NEW h \in Nat, h <= g
    PROVE  /\ u * Rounded(h, b) \in Int /\ u * Rounded(h, b) >= 0
           /\ u * Rounded(g, b) >= u * Rounded(h, b)
<1>1. g \in Int /\ h \in Int OBVIOUS
<1>2. PICK r \in Int : r = Rounded(g, b) BY <1>1, RoundedIsNearest
<1>3. PICK s \in Int : s = Rounded(h, b) /\ 2 * h - b <= 2 * (b * s) BY <1>1, RoundedIsNearest
<1>4. s <= r BY <1>1, <1>2, <1>3, RoundedGrows
<1>5. s >= 0
  <2>1. -b <= b * (2 * s) BY <1>3, SMT
  <2>2. ~(s <= -1) BY <2>1, SMT
  <2> QED BY <2>2, SMT
<1>6. u * s >= 0 /\ u * r >= u * s /\ u * s \in Int BY <1>4, <1>5, SMT
<1> QED BY <1>2, <1>3, <1>6

LEMMA UnitIsPositive ==
    Unit \in Nat \ {0} /\ Unit * Unit \in Nat \ {0} /\ \A i \in 0..Unit : i \in Int
BY SMT DEF Unit

LEMMA ScoreRewardsContentIn ==
    ASSUME NEW m, AnyModel(m), NEW a \in Nat, NEW f \in 0..Unit, f <= m.brownoutFactor,
           NEW rt \in {"in time", "nan"}
    PROVE  /\ getAccruedUtility(m, a, "late") <= 0
           /\ getAccruedUtility(m, a, rt) >= 0
           /\ getAccruedUtility([m EXCEPT !.brownoutFactor = f], a, rt)
                 >= getAccruedUtility(m, a, rt)
<1> DEFINE l == [m EXCEPT !.brownoutFactor = f]
           x == LevelledFactor(m, f)
           y == LevelledFactor(m, m.brownoutFactor)
<1>1. l.brownoutFactor = f /\ AnyModel(l) /\ LevelledFactor(l, f) = x
  <2>1. /\ l.levels = m.levels /\ l.dimmerMargin = m.dimmerMargin
        /\ l.lowerDimmerMargin = m.lowerDimmerMargin /\ l.brownoutFactor = f
    BY DEF AnyModel
  <2>2. AnyModel(l)
    <3> HIDE DEF Unit
    <3> QED BY <2>1 DEF AnyModel
  <2> HIDE DEF l
  <2>3. LevelledFactor(l, f) = LevelledFactor(m, f)
    BY <2>1 DEF LevelledFactor, brownoutLevelToFactor, brownoutFactorToLevel
  <2> QED BY <2>1, <2>2, <2>3
<1>3. x \in Int /\ y \in Int /\ 2 * y <= 3 * Unit BY LevelledFactorIsNear DEF AnyModel
<1>4. x <= y
  <2>1. f \in Int /\ m.brownoutFactor \in Int BY UnitIsPositive DEF AnyModel
  <2> QED BY <2>1, LevelledFactorGrows
<1> HIDE DEF l, x, y
<1>5. Gain(a, x) \in Nat /\ Gain(a, y) \in Nat /\ Gain(a, y) <= Gain(a, x)
  BY <1>3, <1>4, GainFalls
<1>6. getAccruedUtility(m, a, rt) = Unit * Rounded(Gain(a, y), Unit * Unit)
  BY ScoreIs DEF y
<1>7. getAccruedUtility(l, a, rt) = Unit * Rounded(Gain(a, x), Unit * Unit)
  BY <1>1, ScoreIs
<1>8. getAccruedUtility(m, a, "late") <= 0 BY ScoreIs
<1> QED BY <1>5, <1>6, <1>7, <1>8, UnitIsPositive, ScoresCompare, Zenon DEF l

-----------------------------------------------------------------------------
(* What the model answers                                                  *)

(* Model.cc, UtilityScorer.cc: for every model, of whatever size, times    *)
(* and margins, whose levels are two thousandths apart or more: a level    *)
(* comes back from its factor, a boot that remains is one server more,     *)
(* what is expected never shrinks, the horizon reaches past all boots, and *)
(* the score rewards content and never a late period.                      *)
THEOREM PlanningAgrees ==
    ASSUME NEW m, AnyModel(m)
    PROVE  /\ \A level \in 1..m.levels :
                 brownoutFactorToLevel(m, brownoutLevelToFactor(m, level)) = level
           /\ \A now \in Int :
                 ConfiguredServers(getConfiguration(m, now)) = m.active + Len(m.events)
           /\ \A now \in Int, s, t \in Nat : s <= t =>
                 getActiveServerCountIn(m, now, s) <= getActiveServerCountIn(m, now, t)
           /\ m.period * (Horizon(m) - 1) >= m.bootDelay * (m.maxServers - 1)
           /\ \A a \in Nat, f \in 0..Unit : f <= m.brownoutFactor =>
                 /\ getAccruedUtility(m, a, "late") <= 0
                 /\ \A rt \in {"in time", "nan"} :
                       /\ getAccruedUtility(m, a, rt) >= 0
                       /\ getAccruedUtility([m EXCEPT !.brownoutFactor = f], a, rt)
                             >= getAccruedUtility(m, a, rt)
<1>1. \A level \in 1..m.levels :
         brownoutFactorToLevel(m, brownoutLevelToFactor(m, level)) = level
  BY LevelComesBack
<1>2. \A now \in Int : ConfiguredServers(getConfiguration(m, now)) = m.active + Len(m.events)
  BY BootRemainsFor
<1>3. \A now \in Int, s, t \in Nat : s <= t =>
         getActiveServerCountIn(m, now, s) <= getActiveServerCountIn(m, now, t)
  BY ExpectedServersGrowFor
<1>4. m.period * (Horizon(m) - 1) >= m.bootDelay * (m.maxServers - 1)
  BY HorizonSeesAllBootsOf
<1>5. ASSUME NEW a \in Nat, NEW f \in 0..Unit, f <= m.brownoutFactor
      PROVE  /\ getAccruedUtility(m, a, "late") <= 0
             /\ \A rt \in {"in time", "nan"} :
                   /\ getAccruedUtility(m, a, rt) >= 0
                   /\ getAccruedUtility([m EXCEPT !.brownoutFactor = f], a, rt)
                         >= getAccruedUtility(m, a, rt)
  BY <1>5, ScoreRewardsContentIn
<1> QED BY <1>1, <1>2, <1>3, <1>4, <1>5

LEMMA Zero == 0 \in 0..Unit /\ \A x \in 0..Unit : 0 <= x
BY SMT DEF Unit

LEMMA ModelsAreModels == ASSUME NEW m \in Models PROVE AnyModel(m)
<1>1. /\ m \in [levels : {2, 3, 5}, dimmerMargin : {0, 100}, lowerDimmerMargin : BOOLEAN,
                maxServers : {3}, active : 1..3, activeLast : 1..3, timeLast : {0, 10},
                events : {<<>>} \cup {<<t>> : t \in {8, 10, 11, 19, 20, 21, 130}},
                bootDelay : {0, 10, 120}, period : {10}, brownoutFactor : {0, 250, 1000}]
  BY DEF Models
<1>2. /\ {2, 3, 5} \subseteq Nat /\ {0, 100} \subseteq Nat /\ {3} \subseteq Nat \ {0}
      /\ 1..3 \subseteq Nat /\ {0, 10} \subseteq Nat /\ {8, 10, 11, 19, 20, 21, 130} \subseteq Nat
      /\ {0, 10, 120} \subseteq Nat /\ {10} \subseteq Nat \ {0} /\ {0, 250, 1000} \subseteq 0..Unit
  BY SMT DEF Unit
<1>3. {<<>>} \cup {<<t>> : t \in {8, 10, 11, 19, 20, 21, 130}} \subseteq {<<>>} \cup {<<t>> : t \in Nat}
  BY <1>2
<1>4. \A l \in {2, 3, 5}, d \in {0, 100} : l >= 2 /\ 2 * (l - 1) <= Unit - 2 * d
  BY SMT DEF Unit
<1>5. m.levels \in {2, 3, 5} /\ m.dimmerMargin \in {0, 100} BY <1>1
<1> QED BY <1>1, <1>2, <1>3, <1>4, <1>5 DEF AnyModel

LEMMA PlanningHolds == LevelsHold
<1>1. LevelsComeBack BY ModelsAreModels, LevelComesBack DEF LevelsComeBack
<1>2. BootRemains
  <2>1. Now \in Int BY DEF Now
  <2> QED BY <2>1, ModelsAreModels, BootRemainsFor DEF BootRemains
<1>3. ExpectedServersGrow
  <2>1. Now \in Int /\ {0, 1, 9, 10, 11, 120} \subseteq Nat BY DEF Now
  <2>2. ASSUME NEW m \in Models
        PROVE  getActiveServerCountIn(m, Now, -1) = IF m.timeLast = Now THEN m.activeLast ELSE m.active
    <3>1. m.timeLast \in {0, 10} BY DEF Models
    <3>2. (m.timeLast < Now) <=> ~(m.timeLast = Now) BY <3>1 DEF Now
    <3>3. -1 < 0 BY SMT
    <3> QED BY <3>2, <3>3 DEF getActiveServerCountIn
  <2> QED BY <2>1, <2>2, ModelsAreModels, ExpectedServersGrowFor DEF ExpectedServersGrow
<1>4. HorizonSeesAllBoots
  BY ModelsAreModels, HorizonSeesAllBootsOf DEF HorizonSeesAllBoots
<1>5. ScoreRewardsContent
  <2> DEFINE Arrivals == {0, 10, 66, 100}
             Factors == {0, 250, 1000}
             OnTime == {"in time", "nan"}
             Rewards(m, a) ==
                /\ getAccruedUtility(m, a, "late") <= 0
                /\ \A rt \in OnTime :
                      /\ getAccruedUtility(m, a, rt) >= 0
                      /\ \A f \in Factors : f <= m.brownoutFactor =>
                            getAccruedUtility([m EXCEPT !.brownoutFactor = f], a, rt)
                              >= getAccruedUtility(m, a, rt)
  <2>1. Arrivals \subseteq Nat OBVIOUS
  <2>2. Factors \subseteq 0..Unit BY DEF Unit
  <2>3. \E rt \in OnTime : TRUE OBVIOUS
  <2>4. ASSUME NEW m, AnyModel(m), NEW a \in Nat, NEW f \in 0..Unit, f <= m.brownoutFactor,
               NEW rt \in OnTime
        PROVE  /\ getAccruedUtility(m, a, "late") <= 0 /\ getAccruedUtility(m, a, rt) >= 0
               /\ getAccruedUtility([m EXCEPT !.brownoutFactor = f], a, rt)
                     >= getAccruedUtility(m, a, rt)
    BY <2>4, ScoreRewardsContentIn
  <2>5. ScoreRewardsContent <=> \A m \in Models, a \in Arrivals : Rewards(m, a)
    BY DEF ScoreRewardsContent
  <2> HIDE DEF Arrivals, Factors, OnTime
  <2>6. ASSUME NEW m, AnyModel(m), NEW a \in Nat PROVE Rewards(m, a)
    <3>1. 0 \in 0..Unit /\ 0 <= m.brownoutFactor BY <2>6, Zero DEF AnyModel
    <3> QED BY <2>2, <2>3, <2>4, <2>6, <3>1
  <2> QED BY <2>1, <2>5, <2>6, ModelsAreModels
<1> QED BY <1>1, <1>2, <1>3, <1>4, <1>5 DEF LevelsHold

(* ReactivePolicy.decide is a port of evaluate: for every number of        *)
(* servers, and every number of levels whose step has six decimals, the    *)
(* controller's site and the manager's never part; and what the model      *)
(* tells a manager that plans agrees.                                      *)
THEOREM PortAndPlanningAgree == Spec => []PeriodInv
<1>1. PeriodIndInv => PeriodInv BY PortFollows, PlanningHolds DEF PeriodInv
<1> QED BY <1>1, PeriodInduction, PTL
=============================================================================
