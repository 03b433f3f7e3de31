--------------------------- MODULE LLMDecisionProofs ---------------------------
(***************************************************************************)
(* For every policy, backend, window and number of periods: whatever the   *)
(* model answers and however its calls fail, what is executed was legal    *)
(* when it was decided, and the history that prompts show is true.         *)
(***************************************************************************)
EXTENDS LLMDecision, SequenceTheorems, TLAPS

-----------------------------------------------------------------------------
(* Integers: quotients, and the rounding to six decimals.                  *)

LEMMA QuotientFacts ==
    ASSUME NEW a \in Int, NEW b \in Nat \ {0}
    PROVE  /\ a \div b \in Int /\ b * (a \div b) <= a /\ a < b * (a \div b) + b
           /\ (a >= 0 => a \div b \in Nat)
<1>1. a \div b \in Int /\ (a >= 0 => a \div b \in Nat) OBVIOUS
<1>2. a = b * (a \div b) + (a % b) /\ a % b \in 0..(b - 1) BY SMT
<1> QED BY <1>1, <1>2, SMT

LEMMA ScaleFacts == /\ Scale \in Nat \ {0} /\ One \in Nat /\ Step \in Nat /\ Step <= One /\ Scale < 2 * Step
  BY ReactiveRuleAssumption, LLMDecisionAssumption DEF Scale, One, Step

(* What is written with six decimals is off by half of the last at most.   *)
LEMMA SixDecimalsNear ==
    ASSUME NEW v \in Int
    PROVE  /\ SixDecimals(v) \in Int
           /\ 2 * SixDecimals(v) <= 2 * v + Scale /\ 2 * v - Scale < 2 * SixDecimals(v)
<1> DEFINE q == (2 * v + Scale) \div (2 * Scale)
<1>1. Scale \in Nat \ {0} /\ 2 * v + Scale \in Int /\ 2 * Scale \in Nat \ {0} BY ScaleFacts
<1>2. q \in Int /\ (2 * Scale) * q <= 2 * v + Scale /\ 2 * v + Scale < (2 * Scale) * q + 2 * Scale
  BY <1>1, QuotientFacts
<1>3. SixDecimals(v) = q * Scale BY DEF SixDecimals
<1> HIDE DEF q
<1>4. ASSUME NEW s \in Nat \ {0}, (2 * s) * q <= 2 * v + s, 2 * v + s < (2 * s) * q + 2 * s
      PROVE  q * s \in Int /\ 2 * (q * s) <= 2 * v + s /\ 2 * v - s < 2 * (q * s)
  BY <1>2, <1>4
<1> QED BY <1>1, <1>2, <1>3, <1>4

-----------------------------------------------------------------------------
(* Sequences: the last n of one, and how a deque keeps them.               *)

LEMMA LastFacts ==
    ASSUME NEW S, NEW q \in Seq(S), NEW n \in Nat \ {0}
    PROVE  /\ Last(n, q) \in Seq(S) /\ Len(Last(n, q)) <= n
           /\ Len(q) < n => Last(n, q) = q
           /\ Len(q) >= n => /\ Len(Last(n, q)) = n
                             /\ \A i \in 1..n : Last(n, q)[i] = q[Len(q) - n + i]
<1>1. Len(q) \in Nat /\ DOMAIN q = 1..Len(q) /\ \A i \in 1..Len(q) : q[i] \in S OBVIOUS
<1>2. CASE Len(q) < n
  <2>1. ~(Len(q) > n) BY <1>1, <1>2
  <2>2. Last(n, q) = SubSeq(q, 1, Len(q)) BY <2>1 DEF Last
  <2>3. Last(n, q) = q BY <2>2, SubSeqFull
  <2>4. Last(n, q) \in Seq(S) /\ Len(Last(n, q)) <= n BY <1>1, <1>2, <2>3
  <2>5. ~(Len(q) >= n) BY <1>1, <1>2
  <2> QED BY <1>2, <2>3, <2>4, <2>5
<1>3. CASE Len(q) >= n
  <2> DEFINE m == Len(q) - n + 1
  <2>1. Last(n, q) = SubSeq(q, m, Len(q))
    <3>1. Len(q) > n \/ m = 1 BY <1>1, <1>3
    <3> QED BY <3>1 DEF Last
  <2>2. m \in 1..(Len(q) + 1) /\ Len(q) \in (m - 1)..Len(q) /\ Len(q) - m + 1 = n BY <1>1, <1>3
  <2>3. /\ SubSeq(q, m, Len(q)) \in Seq(S) /\ Len(SubSeq(q, m, Len(q))) = n
        /\ \A i \in 1..n : SubSeq(q, m, Len(q))[i] = q[m + i - 1]
    <3> HIDE DEF m
    <3> QED BY <2>2, SubSeqProperties
  <2>4. \A i \in 1..n : m + i - 1 = Len(q) - n + i BY <1>1
  <2> QED BY <1>1, <1>3, <2>1, <2>3, <2>4
<1> QED BY <1>1, <1>2, <1>3

LEMMA AppendedLast ==
    ASSUME NEW S, NEW q \in Seq(S), NEW e \in S, NEW n \in Nat \ {0}
    PROVE  Appended(Last(n, q), e, n) = Last(n, Append(q, e))
<1> DEFINE r == Append(q, e)
           l == Last(n, q)
<1>1. /\ Len(q) \in Nat /\ r \in Seq(S) /\ Len(r) = Len(q) + 1
      /\ \A i \in 1..Len(q) : r[i] = q[i]
      /\ r[Len(q) + 1] = e
  OBVIOUS
<1>2. /\ l \in Seq(S) /\ Len(l) <= n
      /\ Len(q) < n => l = q
      /\ Len(q) >= n => Len(l) = n /\ \A i \in 1..n : l[i] = q[Len(q) - n + i]
      /\ Last(n, r) \in Seq(S)
      /\ Len(r) < n => Last(n, r) = r
      /\ Len(r) >= n => Len(Last(n, r)) = n /\ \A i \in 1..n : Last(n, r)[i] = r[Len(r) - n + i]
  BY <1>1, LastFacts
<1>3. CASE Len(q) < n
  <2>1. Appended(l, e, n) = r BY <1>2, <1>3 DEF Appended
  <2>2. CASE Len(r) < n BY <1>2, <2>1, <2>2
  <2>3. CASE Len(r) = n
    <3>1. Len(Last(n, r)) = n /\ \A i \in 1..n : Last(n, r)[i] = r[i]
      BY <1>1, <1>2, <2>3
    <3> HIDE DEF r
    <3>2. Last(n, r) = r BY <1>1, <1>2, <2>3, <3>1, SeqEqual
    <3> QED BY <2>1, <3>2 DEF r
  <2> QED BY <1>1, <1>3, <2>2, <2>3
<1>4. CASE Len(q) >= n
  <2>1. Appended(l, e, n) = Append(Tail(l), e) BY <1>1, <1>2, <1>4 DEF Appended
  <2>2. l # <<>> /\ Len(l) = n BY <1>1, <1>2, <1>4
  <2> HIDE DEF l
  <2>3. /\ Tail(l) \in Seq(S) /\ Len(Tail(l)) = n - 1 /\ \A i \in 1..(n - 1) : Tail(l)[i] = l[i + 1]
    BY <1>2, <2>2
  <2>4. /\ Append(Tail(l), e) \in Seq(S) /\ Len(Append(Tail(l), e)) = n
        /\ \A i \in 1..(n - 1) : Append(Tail(l), e)[i] = l[i + 1]
        /\ Append(Tail(l), e)[n] = e
    BY <2>3
  <2>5. Len(r) >= n /\ Len(Last(n, r)) = n BY <1>1, <1>2, <1>4
  <2>6. ASSUME NEW i \in 1..n PROVE Append(Tail(l), e)[i] = Last(n, r)[i]
    <3>1. Last(n, r)[i] = r[Len(r) - n + i] BY <1>2, <2>5
    <3>2. CASE i = n
      <4>1. Len(r) - n + i = Len(q) + 1 BY <1>1, <3>2
      <4> QED BY <1>1, <2>4, <3>1, <3>2, <4>1
    <3>3. CASE i # n
      <4>1. i \in 1..(n - 1) /\ i + 1 \in 1..n BY <3>3
      <4>2. Len(r) - n + i = Len(q) - n + (i + 1) /\ Len(q) - n + (i + 1) \in 1..Len(q) BY <1>1, <1>4, <4>1
      <4>3. l[i + 1] = q[Len(q) - n + (i + 1)] BY <1>2, <1>4, <4>1
      <4> QED BY <1>1, <2>4, <3>1, <4>1, <4>2, <4>3
    <3> QED BY <3>2, <3>3
  <2> HIDE DEF r
  <2>7. Append(Tail(l), e) = Last(n, r) BY <1>2, <2>4, <2>5, <2>6, SeqEqual
  <2> QED BY <2>1, <2>7 DEF r, l
<1> QED BY <1>1, <1>3, <1>4

-----------------------------------------------------------------------------
(* The inductive invariant                                                 *)

Tactics == {NoOp, Add, Remove} \cup {SetDimmer(v) : v \in 0..One}
Entries == [period : Nat, action : Tactics]

DecisionTypes ==
    /\ setup \in Setups /\ site \in Sites /\ obs \in Sites
    /\ period \in Nat /\ at \in Calls \cup {"top", "choose", "execute"}
    /\ attempt \in 0..setup.attempts /\ asked \in 0..setup.tries /\ waited \in Nat
    /\ action \in Tactics /\ (at = "choose" => setup.policy # "llm")

(* While a decision is made, the site changes only by a boot that ends.    *)
SiteIsSensed ==
    at # "top" => /\ site.servers = obs.servers /\ site.dimmer = obs.dimmer
                  /\ site.booting => obs.booting

Open == trajectory.pending # Nothing
Closed == Len(log) - IF Open THEN 1 ELSE 0
ShownUpTo(n) == [i \in 1..n |-> Shown(i)]

(* The parts of HistoryIsTrue, with what they need: periods only grow, a   *)
(* closed decision was followed by a period that was sensed and an open    *)
(* one was not.                                                            *)
HasLeast(S) == \E x \in S : \A y \in S : x <= y

HistoryFits ==
    /\ seen \in Seq(Nat) /\ log \in Seq(Entries)
    /\ trajectory = [observations |-> Last(Window, seen),
                     decisions    |-> Last(ActionWindow, ShownUpTo(Closed)),
                     pending      |-> IF Open THEN Shown(Len(log)) ELSE Nothing]
    /\ at # "top" => ~Open
    /\ \A k \in 1..Len(seen) : IF at = "top" THEN seen[k] < period ELSE seen[k] <= period
    /\ \A i \in 1..Closed : HasLeast(After(log[i].period))
    /\ Open => /\ Len(log) >= 1 /\ log[Len(log)].period < period
               /\ After(log[Len(log)].period) = {}

DecisionIndInv == DecisionTypes /\ LegalOnEveryPath /\ SiteIsSensed /\ HistoryFits

LEMMA DecisionIndImplies == DecisionIndInv => DecisionInv
<1> SUFFICES ASSUME DecisionIndInv PROVE DecisionInv OBVIOUS
<1> USE LLMDecisionAssumption
<1>1. DecisionTypes /\ LegalOnEveryPath /\ HistoryFits BY DEF DecisionIndInv
<1>2. /\ Len(log) \in Nat /\ Closed \in Nat
      /\ trajectory.observations = Last(Window, seen)
      /\ trajectory.decisions = Last(ActionWindow, ShownUpTo(Closed))
      /\ Open => trajectory.pending = Shown(Len(log))
  BY <1>1 DEF HistoryFits, Closed
<1>3. ShownUpTo(Closed) \in Seq({Shown(i) : i \in 1..Closed})
  <2>1. ShownUpTo(Closed) \in [1..Closed -> {Shown(i) : i \in 1..Closed}] BY DEF ShownUpTo
  <2> QED BY <1>2, <2>1, SeqDef
<1>4. Len(Last(Window, seen)) <= Window BY <1>1, LastFacts DEF HistoryFits
<1>5. Len(Last(ActionWindow, ShownUpTo(Closed))) <= ActionWindow BY <1>3, LastFacts
<1>6. IsTactic(action)
  <2>1. \A v \in 0..One : IsTactic(SetDimmer(v)) BY DEF IsTactic, SetDimmer
  <2> QED BY <1>1, <2>1 DEF DecisionTypes, Tactics, IsTactic
<1>7. TypeOK BY <1>1, <1>2, <1>4, <1>5, <1>6 DEF TypeOK, DecisionTypes
<1>8. HistoryIsTrue
  <2>1. at # "top" => ~Open BY <1>1 DEF HistoryFits
  <2> QED BY <1>2, <2>1 DEF HistoryIsTrue, Open, Closed, ShownUpTo
<1> QED BY <1>1, <1>7, <1>8 DEF DecisionInv

LEMMA DecisionInitInd == Init => DecisionIndInv
<1> SUFFICES ASSUME Init PROVE DecisionIndInv OBVIOUS
<1> USE LLMDecisionAssumption, ReactiveRuleAssumption
<1>1. site \in Sites /\ obs \in Sites
  <2>1. One \in 0..One BY ScaleFacts
  <2> QED BY <2>1 DEF Init, Sites
<1>2. setup.attempts \in Nat /\ setup.tries \in Nat BY DEF Init, SetupType
<1>3. DecisionTypes
  <2>1. attempt \in 0..setup.attempts /\ asked \in 0..setup.tries /\ period \in Nat /\ waited \in Nat
    BY <1>2 DEF Init
  <2> QED BY <1>1, <2>1 DEF Init, DecisionTypes, Tactics
<1>4. SiteIsSensed /\ LegalOnEveryPath BY DEF Init, SiteIsSensed, LegalOnEveryPath
<1>5. HistoryFits
  <2>1. ~Open BY DEF Init, Open
  <2>2. Len(log) = 0 /\ Len(seen) = 0 /\ Closed = 0 /\ log = <<>> /\ seen = <<>> BY <2>1 DEF Init, Closed
  <2>3. ShownUpTo(Closed) = <<>> BY <2>2 DEF ShownUpTo
  <2>4. \A n \in Nat \ {0} : Last(n, <<>>) = <<>>
    <3> TAKE n \in Nat \ {0}
    <3>1. <<>> \in Seq(Nat) /\ Len(<<>>) = 0 /\ 0 < n OBVIOUS
    <3>2. Len(<<>>) < n => Last(n, <<>>) = <<>> BY <3>1, LastFacts
    <3> QED BY <3>1, <3>2
  <2>5. trajectory = [observations |-> <<>>, decisions |-> <<>>, pending |-> Nothing] BY DEF Init
  <2>6. trajectory = [observations |-> Last(Window, seen), decisions |-> Last(ActionWindow, ShownUpTo(Closed)),
                      pending |-> IF Open THEN Shown(Len(log)) ELSE Nothing]
    BY <2>1, <2>2, <2>3, <2>4, <2>5
  <2> QED BY <2>1, <2>2, <2>6 DEF HistoryFits
<1> QED BY <1>3, <1>4, <1>5 DEF DecisionIndInv

-----------------------------------------------------------------------------
(* Whatever a policy chooses is legal.                                     *)

LEMMA LegalIsTactic == \A a \in Legal : a \in Tactics /\ IsLegal(a)
<1> SUFFICES ASSUME NEW a \in Legal PROVE a \in Tactics /\ IsLegal(a) OBVIOUS
<1>1. a \in Options /\ IsLegal(a) BY DEF Legal
<1>2. a \in {NoOp, Add, Remove} \/ \E v : a = SetDimmer(v) BY <1>1 DEF Options
<1>3. ASSUME NEW v, a = SetDimmer(v) PROVE v \in 0..One
  <2>1. a.kind = "set_dimmer" /\ a.value = v BY <1>3 DEF SetDimmer
  <2> QED BY <1>1, <2>1 DEF IsLegal
<1> QED BY <1>1, <1>2, <1>3 DEF Tactics

LEMMA NoOpIsLegal == NoOp \in Tactics /\ IsLegal(NoOp)
  BY DEF Tactics, IsLegal, NoOp

LEMMA AddIsLegal == CanAdd(obs) => Add \in Tactics /\ IsLegal(Add)
  BY DEF Tactics, IsLegal, Add

LEMMA RemoveIsLegal == CanRemove(obs) => Remove \in Tactics /\ IsLegal(Remove)
  BY DEF Tactics, IsLegal, Remove

LEMMA DimmerIsLegal ==
    ASSUME NEW v \in 0..One, v # obs.dimmer
    PROVE  SetDimmer(v) \in Tactics /\ IsLegal(SetDimmer(v))
<1>1. SetDimmer(v).kind = "set_dimmer" /\ SetDimmer(v).value = v BY DEF SetDimmer
<1>2. IsLegal(SetDimmer(v)) BY <1>1 DEF IsLegal
<1> QED BY <1>2 DEF Tactics

(* The rule that is fallen back on, which nothing validates.               *)
LEMMA FallbackIsLegal ==
    ASSUME obs \in Sites, NEW rt \in ResponseTimes, NEW spare \in BOOLEAN
    PROVE  decide(obs, rt, spare) \in Tactics /\ IsLegal(decide(obs, rt, spare))
<1> DEFINE lower == AtLeastZero(SixDecimals(obs.dimmer - Step))
           higher == AtMostOne(SixDecimals(obs.dimmer + Step))
<1>1. obs.dimmer \in 0..One BY DEF Sites
<1>2. obs.dimmer > 0 => lower \in 0..One /\ lower # obs.dimmer
  <2>1. obs.dimmer - Step \in Int /\ One \in Nat /\ Scale \in Nat BY <1>1, ScaleFacts
  <2>2. /\ SixDecimals(obs.dimmer - Step) \in Int
        /\ 2 * SixDecimals(obs.dimmer - Step) <= 2 * (obs.dimmer - Step) + Scale
    BY <2>1, SixDecimalsNear
  <2>3. SixDecimals(obs.dimmer - Step) < obs.dimmer BY <1>1, <2>1, <2>2, ScaleFacts
  <2> QED BY <1>1, <2>1, <2>2, <2>3 DEF AtLeastZero
<1>3. obs.dimmer < One => higher \in 0..One /\ higher # obs.dimmer
  <2>1. obs.dimmer + Step \in Int /\ One \in Nat /\ Scale \in Nat BY <1>1, ScaleFacts
  <2>2. /\ SixDecimals(obs.dimmer + Step) \in Int
        /\ 2 * (obs.dimmer + Step) - Scale < 2 * SixDecimals(obs.dimmer + Step)
    BY <2>1, SixDecimalsNear
  <2>3. SixDecimals(obs.dimmer + Step) > obs.dimmer BY <1>1, <2>1, <2>2, ScaleFacts
  <2> QED BY <1>1, <2>1, <2>2, <2>3 DEF AtMostOne
<1> HIDE DEF lower, higher
<1>4. \/ decide(obs, rt, spare) = NoOp
      \/ decide(obs, rt, spare) = Add /\ CanAdd(obs)
      \/ decide(obs, rt, spare) = Remove /\ CanRemove(obs)
      \/ decide(obs, rt, spare) = SetDimmer(lower) /\ obs.dimmer > 0
      \/ decide(obs, rt, spare) = SetDimmer(higher) /\ obs.dimmer < One
  BY DEF decide, lower, higher
<1> QED BY <1>2, <1>3, <1>4, NoOpIsLegal, AddIsLegal, RemoveIsLegal, DimmerIsLegal

LEMMA StaticIsLegal ==
    ASSUME obs \in Sites, setup \in Setups
    PROVE  StaticDecide \in Tactics /\ IsLegal(StaticDecide)
<1>1. /\ setup.dimmer \in 0..One /\ setup.servers \in Int /\ MaxServers \in Int
      /\ obs.servers \in 1..MaxServers
  BY LLMDecisionAssumption, ReactiveRuleAssumption DEF SetupType, Sites
<1>2. PICK lower, higher : lower = Min({setup.servers, MaxServers}) /\ higher = Max({setup.servers, 1})
  OBVIOUS
<1>3. lower \in Int /\ lower <= MaxServers /\ higher \in Int /\ higher >= 1
  <2>1. \E x \in {setup.servers, MaxServers} : \A y \in {setup.servers, MaxServers} : x <= y BY <1>1
  <2>2. \E x \in {setup.servers, 1} : \A y \in {setup.servers, 1} : x >= y BY <1>1
  <2>3. lower \in {setup.servers, MaxServers} /\ \A y \in {setup.servers, MaxServers} : lower <= y
    BY <1>2, <2>1 DEF Min
  <2>4. higher \in {setup.servers, 1} /\ \A y \in {setup.servers, 1} : higher >= y
    BY <1>2, <2>2 DEF Max
  <2> QED BY <1>1, <2>3, <2>4
<1>4. ~obs.booting /\ obs.servers < lower => CanAdd(obs) BY <1>1, <1>3 DEF CanAdd
<1>5. ~obs.booting /\ obs.servers > higher => CanRemove(obs) BY <1>1, <1>3 DEF CanRemove
<1>6. \/ StaticDecide = SetDimmer(setup.dimmer) /\ obs.dimmer # setup.dimmer
      \/ StaticDecide = Add /\ CanAdd(obs)
      \/ StaticDecide = Remove /\ CanRemove(obs)
      \/ StaticDecide = NoOp
  BY <1>2, <1>4, <1>5 DEF StaticDecide
<1> QED BY <1>1, <1>6, NoOpIsLegal, AddIsLegal, RemoveIsLegal, DimmerIsLegal

(* How a step of a decision ends: in another call or in a legal action.    *)
Concludes ==
    /\ attempt' = 0 /\ asked' = 0
    /\ \/ at' \in Calls /\ action' = action
       \/ at' = "execute" /\ action' \in Tactics /\ IsLegal(action')

LEMMA DecidedConcludes ==
    ASSUME NEW a \in Tactics, IsLegal(a), Decided(a) PROVE Concludes
  BY DEF Decided, Call, Concludes

LEMMA ChosenConcludes ==
    ASSUME NEW a \in Tactics, IsLegal(a), Chosen(a) PROVE Concludes
<1>1. CASE IsValid(a) BY <1>1, DecidedConcludes DEF Chosen
<1>2. CASE ~IsValid(a) BY <1>2, DecidedConcludes, NoOpIsLegal DEF Chosen
<1> QED BY <1>1, <1>2

LEMMA FromScoresConcludes == ASSUME NEW S, FromScores(S) PROVE Concludes
<1>1. CASE Masked(S) = {} BY <1>1, ChosenConcludes, NoOpIsLegal DEF FromScores
<1>2. CASE Masked(S) # {}
  <2>1. PICK a \in Masked(S) : Chosen(a) BY <1>2 DEF FromScores
  <2>2. a \in Legal BY DEF Masked
  <2> QED BY <2>1, <2>2, LegalIsTactic, ChosenConcludes
<1> QED BY <1>1, <1>2

LEMMA CallConcludes == ASSUME NEW c \in Calls, Call(c), UNCHANGED action PROVE Concludes
  BY DEF Call, Concludes

LEMMA FromLetterConcludes == ASSUME NEW letter, NEW S, FromLetter(letter, S) PROVE Concludes
<1>1. CASE Masked(S) # {} BY <1>1, FromScoresConcludes DEF FromLetter
<1>2. CASE Masked(S) = {} /\ letter \in Options \ Legal
  BY <1>2, CallConcludes DEF FromLetter, Calls
<1>3. CASE Masked(S) = {} /\ letter \in Legal
  <2>1. Chosen(letter) BY <1>3 DEF FromLetter
  <2> QED BY <1>3, <2>1, LegalIsTactic, ChosenConcludes
<1>4. CASE Masked(S) = {} /\ letter \notin Options
  <2>1. letter \notin Legal BY <1>4 DEF Legal
  <2>2. Chosen(NoOp) BY <1>4, <2>1 DEF FromLetter
  <2> QED BY <2>2, NoOpIsLegal, ChosenConcludes
<1>5. Legal \subseteq Options BY DEF Legal
<1> QED BY <1>1, <1>2, <1>3, <1>4, <1>5

LEMMA AnswerConcludes == ASSUME at \in Calls, Answer PROVE Concludes
<1>1. CASE at = "reason" BY <1>1, CallConcludes DEF Answer, Calls
<1>2. CASE at = "score" BY <1>2, FromScoresConcludes DEF Answer
<1>3. CASE at = "generate"
  <2>1. PICK letter \in Options \cup {NoLetter}, S \in Masses : GenerationGives(letter, S)
    BY <1>3 DEF Answer
  <2>2. CASE letter = NoLetter BY <2>1, <2>2, CallConcludes DEF GenerationGives, Calls
  <2>3. CASE letter # NoLetter BY <2>1, <2>3, FromLetterConcludes DEF GenerationGives
  <2> QED BY <2>2, <2>3
<1>4. CASE at = "ask_letter" BY <1>4, FromLetterConcludes DEF Answer
<1>5. CASE at = "ask_again"
  <2>1. PICK letter \in Options \cup {NoLetter} : Chosen(IF letter \in Legal THEN letter ELSE NoOp)
    BY <1>5 DEF Answer
  <2> QED BY <2>1, ChosenConcludes, LegalIsTactic, NoOpIsLegal
<1> QED BY <1>1, <1>2, <1>3, <1>4, <1>5 DEF Calls

LEMMA FailureConcludes == ASSUME obs \in Sites, at \in Calls, Failure PROVE Concludes
<1>1. CASE at = "reason" BY <1>1, CallConcludes DEF Failure, Calls
<1>2. CASE at = "score"
  <2>1. PICK rt \in ResponseTimes, spare \in BOOLEAN : Decided(decide(obs, rt, spare))
    BY <1>2 DEF Failure
  <2> QED BY <2>1, FallbackIsLegal, DecidedConcludes
<1>3. CASE at = "generate" BY <1>3, CallConcludes DEF Failure, Calls
<1>4. CASE at = "ask_letter" BY <1>4, FromLetterConcludes DEF Failure
<1>5. CASE at = "ask_again" BY <1>5, ChosenConcludes, NoOpIsLegal DEF Failure
<1> QED BY <1>1, <1>2, <1>3, <1>4, <1>5 DEF Calls

LEMMA ChoiceConcludes ==
    ASSUME obs \in Sites, setup \in Setups, setup.policy # "llm", Choose PROVE Concludes
<1>1. setup.policy \in {"null", "random", "static"} BY LLMDecisionAssumption DEF SetupType
<1>2. CASE setup.policy = "null" BY <1>2, NoOpIsLegal, DecidedConcludes DEF Choose, NullDecide
<1>3. CASE setup.policy = "static" BY <1>3, StaticIsLegal, DecidedConcludes DEF Choose
<1>4. CASE setup.policy = "random" BY <1>4, LegalIsTactic, DecidedConcludes DEF Choose
<1> QED BY <1>1, <1>2, <1>3, <1>4

-----------------------------------------------------------------------------
(* The history                                                             *)

LEMMA LeastKept ==
    ASSUME NEW S \in SUBSET Nat, HasLeast(S), NEW n \in Nat, \A y \in S : y < n
    PROVE  S # {} /\ HasLeast(S \cup {n}) /\ Min(S \cup {n}) = Min(S)
<1>1. PICK x \in S : \A y \in S : x <= y BY DEF HasLeast
<1>2. x \in S \cup {n} /\ \A y \in S \cup {n} : x <= y BY <1>1
<1>3. PICK T : T = S \cup {n} OBVIOUS
<1>4. x \in T /\ \A y \in T : x <= y BY <1>2, <1>3
<1>5. PICK m : m = Min(S) OBVIOUS
<1>6. PICK k : k = Min(T) OBVIOUS
<1>7. m \in S /\ \A y \in S : m <= y BY <1>1, <1>5 DEF Min
<1>8. k \in T /\ \A y \in T : k <= y BY <1>4, <1>6 DEF Min
<1>9. m = x BY <1>1, <1>7
<1>10. k = x
  <2>1. k \in T /\ k <= x BY <1>4, <1>8
  <2>2. k \in S \cup {n} BY <1>3, <2>1
  <2> QED BY <1>1, <2>1, <2>2
<1>11. HasLeast(T) BY <1>4 DEF HasLeast
<1> QED BY <1>1, <1>3, <1>5, <1>6, <1>9, <1>10, <1>11

LEMMA LeastOfOne == \A n \in Nat : Min({n}) = n /\ HasLeast({n})
<1> SUFFICES ASSUME NEW n \in Nat PROVE Min({n}) = n /\ HasLeast({n}) OBVIOUS
<1>1. n \in {n} /\ \A y \in {n} : n <= y OBVIOUS
<1>2. Min({n}) \in {n} BY <1>1 DEF Min
<1> QED BY <1>1, <1>2 DEF HasLeast

LEMMA GrowsBy ==
    ASSUME NEW n \in Nat, NEW f, NEW g,
           f = [i \in 1..n |-> f[i]], g = [i \in 1..(n + 1) |-> g[i]], \A i \in 1..n : g[i] = f[i]
    PROVE  LET S == {g[i] : i \in 1..(n + 1)} IN f \in Seq(S) /\ g[n + 1] \in S /\ g = Append(f, g[n + 1])
<1> DEFINE S == {g[i] : i \in 1..(n + 1)}
<1>1. \A i \in 1..n : i \in 1..(n + 1) /\ g[i] = f[i] OBVIOUS
<1>2. f \in [1..n -> S] /\ g \in [1..(n + 1) -> S] /\ g[n + 1] \in S BY <1>1
<1>3. f \in Seq(S) /\ g \in Seq(S) /\ Len(f) = n /\ Len(g) = n + 1
  <2> HIDE DEF S
  <2> QED BY <1>2, SeqDef, LenProperties
<1> HIDE DEF S
<1>4. /\ Append(f, g[n + 1]) \in Seq(S) /\ Len(Append(f, g[n + 1])) = n + 1
      /\ \A i \in 1..n : Append(f, g[n + 1])[i] = f[i]
      /\ Append(f, g[n + 1])[n + 1] = g[n + 1]
  BY <1>2, <1>3
<1>5. ASSUME NEW i \in 1..(n + 1) PROVE g[i] = Append(f, g[n + 1])[i]
  <2>1. CASE i = n + 1 BY <1>4, <2>1
  <2>2. CASE i \in 1..n BY <1>1, <1>4, <2>2
  <2> QED BY <2>1, <2>2
<1>6. g = Append(f, g[n + 1]) BY <1>3, <1>4, <1>5, SeqEqual
<1> QED BY <1>2, <1>3, <1>6 DEF S

(* A period that is sensed closes the decision that is open.               *)
LEMMA SenseKeepsHistory ==
    ASSUME HistoryFits, period \in Nat, at = "top", at' # "top",
           seen' = Append(seen, period), RecordObservation(period), UNCHANGED <<period, log>>
    PROVE  HistoryFits'
<1> USE LLMDecisionAssumption
<1>1. /\ seen \in Seq(Nat) /\ log \in Seq(Entries) /\ Len(log) \in Nat /\ Closed \in Nat
      /\ trajectory = [observations |-> Last(Window, seen), decisions |-> Last(ActionWindow, ShownUpTo(Closed)),
                       pending |-> IF Open THEN Shown(Len(log)) ELSE Nothing]
      /\ \A k \in 1..Len(seen) : seen[k] < period
      /\ \A i \in 1..Closed : HasLeast(After(log[i].period))
      /\ Open => /\ Len(log) >= 1 /\ log[Len(log)].period < period
                 /\ After(log[Len(log)].period) = {}
  BY DEF HistoryFits, Closed
<1>2. /\ seen' \in Seq(Nat) /\ Len(seen') = Len(seen) + 1 /\ Len(seen) \in Nat
      /\ \A k \in 1..Len(seen) : seen'[k] = seen[k]
      /\ seen'[Len(seen) + 1] = period
  BY <1>1
<1>3. ASSUME NEW p \in Nat
      PROVE  /\ After(p) \in SUBSET Nat /\ \A y \in After(p) : y < period
             /\ After(p)' = IF period > p THEN After(p) \cup {period} ELSE After(p)
  <2>1. \A k \in 1..Len(seen) : seen[k] \in Nat BY <1>1
  <2>2. {seen'[i] : i \in 1..Len(seen')} = {seen[i] : i \in 1..Len(seen)} \cup {period}
    BY <1>2
  <2> DEFINE X == {seen[i] : i \in 1..Len(seen)}
  <2>3. X \in SUBSET Nat /\ \A y \in X : y < period BY <1>1, <2>1
  <2>4. After(p) = {q \in X : q > p} /\ After(p)' = {q \in X \cup {period} : q > p}
    BY <2>2 DEF After
  <2> HIDE DEF X
  <2>5. {q \in X \cup {period} : q > p}
         = IF period > p THEN {q \in X : q > p} \cup {period} ELSE {q \in X : q > p}
    OBVIOUS
  <2>6. After(p) \in SUBSET Nat /\ (\A y \in After(p) : y < period) BY <2>3, <2>4
  <2>7. After(p)' = IF period > p THEN After(p) \cup {period} ELSE After(p) BY <2>4, <2>5
  <2> QED BY <2>6, <2>7
<1>4. \A i \in 1..Len(log) : log[i].period \in Nat
  <2>1. \A i \in 1..Len(log) : log[i] \in Entries BY <1>1
  <2> QED BY <2>1 DEF Entries
<1>5. ASSUME NEW i \in 1..Closed
      PROVE  Shown(i)' = Shown(i) /\ HasLeast(After(log[i].period)')
  <2> DEFINE S == After(log[i].period)
  <2>1. i \in 1..Len(log) BY <1>1 DEF Closed
  <2>2. S \in SUBSET Nat /\ HasLeast(S) /\ (\A y \in S : y < period)
        /\ S' = IF period > log[i].period THEN S \cup {period} ELSE S
    BY <1>1, <1>3, <1>4, <2>1
  <2> HIDE DEF S
  <2>3. S # {} /\ S' # {} /\ Min(S') = Min(S) /\ HasLeast(S')
    BY <2>2, LeastKept
  <2> QED BY <2>3 DEF S, Shown
<1>6. Open => /\ Shown(Len(log))' = [Shown(Len(log)) EXCEPT !.rt_after = period]
              /\ HasLeast(After(log[Len(log)].period)')
  <2> SUFFICES ASSUME Open PROVE /\ Shown(Len(log))' = [Shown(Len(log)) EXCEPT !.rt_after = period]
                                 /\ HasLeast(After(log[Len(log)].period)')
    OBVIOUS
  <2>1. Len(log) \in 1..Len(log) /\ log[Len(log)].period \in Nat BY <1>1, <1>4
  <2>2. After(log[Len(log)].period)' = {period} BY <1>1, <1>3, <2>1
  <2>3. Min({period}) = period /\ HasLeast({period}) BY LeastOfOne
  <2>4. Shown(Len(log))' = [Decision(log[Len(log)].period, log[Len(log)].action) EXCEPT !.rt_after = period]
    BY <2>2, <2>3 DEF Shown, Decision
  <2>5. Shown(Len(log)) = [Decision(log[Len(log)].period, log[Len(log)].action) EXCEPT !.rt_after = -1]
    BY <1>1 DEF Shown
  <2> QED BY <2>2, <2>3, <2>4, <2>5 DEF Decision
<1>7. /\ trajectory'.observations = Appended(Last(Window, seen), period, Window)
      /\ trajectory'.decisions = IF Open THEN Appended(Last(ActionWindow, ShownUpTo(Closed)), Shown(Len(log))',
                                                       ActionWindow)
                                 ELSE Last(ActionWindow, ShownUpTo(Closed))
      /\ trajectory'.pending = Nothing
      /\ trajectory' = [observations |-> trajectory'.observations, decisions |-> trajectory'.decisions,
                        pending |-> trajectory'.pending]
  <2>1. PICK o, d, l : /\ o = Last(Window, seen) /\ d = Last(ActionWindow, ShownUpTo(Closed))
                       /\ l = Shown(Len(log))
    OBVIOUS
  <2>2. trajectory = [observations |-> o, decisions |-> d, pending |-> IF Open THEN l ELSE Nothing]
    BY <1>1, <2>1
  <2>3. /\ trajectory.observations = o /\ trajectory.decisions = d
        /\ trajectory.pending = IF Open THEN l ELSE Nothing
    BY ONLY <2>2
  <2>4. Open <=> trajectory.pending # Nothing BY DEF Open
  <2>5. PICK O, D : /\ O = Appended(trajectory.observations, period, Window)
                    /\ D = Appended(trajectory.decisions,
                                    [trajectory.pending EXCEPT !.rt_after = period], ActionWindow)
    OBVIOUS
  <2>6. PICK E : E = IF trajectory.pending = Nothing THEN trajectory.decisions ELSE D OBVIOUS
  <2>7. trajectory' = [observations |-> O, decisions |-> E, pending |-> Nothing]
    BY <2>5, <2>6 DEF RecordObservation, PendingAfter
  <2>8. /\ trajectory'.observations = O /\ trajectory'.decisions = E
        /\ trajectory'.pending = Nothing
    BY ONLY <2>7
  <2>9. Open => [trajectory.pending EXCEPT !.rt_after = period] = Shown(Len(log))'
    BY ONLY <1>6, <2>1, <2>3
  <2>10. E = IF Open THEN Appended(d, Shown(Len(log))', ActionWindow) ELSE d
    BY <2>3, <2>4, <2>5, <2>6, <2>9
  <2>11. O = Appended(Last(Window, seen), period, Window) BY <2>1, <2>3, <2>5
  <2> QED BY ONLY <2>1, <2>7, <2>8, <2>10, <2>11
<1>8. ~Open' /\ Closed' = Len(log) BY <1>7 DEF Open, Closed
<1>9. trajectory'.observations = Last(Window, seen')
  BY <1>1, <1>7, AppendedLast
<1>10. trajectory'.decisions = Last(ActionWindow, ShownUpTo(Closed)')
  <2> DEFINE f == ShownUpTo(Closed)
             g == ShownUpTo(Closed)'
  <2>1. f = [i \in 1..Closed |-> Shown(i)] /\ g = [i \in 1..Len(log) |-> Shown(i)']
    BY <1>8 DEF ShownUpTo
  <2>2. CASE ~Open
    <3>1. Closed = Len(log) BY <1>1, <2>2 DEF Closed
    <3>2. f = g BY <1>5, <2>1, <3>1
    <3> QED BY <1>7, <2>2, <3>2
  <2>3. CASE Open
    <3>1. Len(log) = Closed + 1 BY <1>1, <2>3 DEF Closed
    <3>2. /\ f = [i \in 1..Closed |-> f[i]] /\ g = [i \in 1..(Closed + 1) |-> g[i]]
          /\ \A i \in 1..Closed : g[i] = f[i]
          /\ g[Closed + 1] = Shown(Len(log))'
      BY <1>1, <1>5, <2>1, <3>1
    <3> HIDE DEF f, g
    <3>3. PICK S : f \in Seq(S) /\ g[Closed + 1] \in S /\ g = Append(f, g[Closed + 1])
      BY <1>1, <3>2, GrowsBy
    <3>4. Appended(Last(ActionWindow, f), g[Closed + 1], ActionWindow) = Last(ActionWindow, g)
      BY <3>3, AppendedLast
    <3>5. PICK e : e = g[Closed + 1] OBVIOUS
    <3>6. e = Shown(Len(log))' BY <3>2, <3>5
    <3>7. trajectory'.decisions = Appended(Last(ActionWindow, f), e, ActionWindow)
      BY <1>7, <2>3, <3>6 DEF f
    <3> QED BY <3>4, <3>5, <3>7 DEF g
  <2> QED BY <2>2, <2>3
<1>11. \A i \in 1..Closed' : HasLeast(After(log[i].period)')
  <2>1. \A i \in 1..Len(log) : i \in 1..Closed \/ (Open /\ i = Len(log)) BY <1>1 DEF Closed
  <2> QED BY <1>5, <1>6, <1>8, <2>1
<1>12. \A k \in 1..Len(seen') : seen'[k] <= period'
  <2>1. \A k \in 1..Len(seen') : k \in 1..Len(seen) \/ k = Len(seen) + 1 BY <1>2
  <2>2. \A k \in 1..Len(seen) : seen[k] \in Nat BY <1>1
  <2> QED BY <1>1, <1>2, <2>1, <2>2
<1>13. /\ trajectory' = [observations |-> Last(Window, seen'), decisions |-> Last(ActionWindow, ShownUpTo(Closed)'),
                         pending |-> IF Open' THEN Shown(Len(log))' ELSE Nothing]
  BY <1>7, <1>8, <1>9, <1>10
<1> QED BY <1>1, <1>2, <1>8, <1>11, <1>12, <1>13 DEF HistoryFits

(* A decision is recorded after every period that was sensed.              *)
LEMMA LaterPeriod == ASSUME DecisionTypes PROVE PeriodAfter \in Nat /\ PeriodAfter > period
<1>1. period \in Nat /\ waited \in Nat /\ PeriodTicks \in Nat \ {0}
  BY LLMDecisionAssumption DEF DecisionTypes
<1>2. waited \div PeriodTicks \in Nat BY <1>1, QuotientFacts
<1>3. PICK d : d = waited \div PeriodTicks OBVIOUS
<1>4. PeriodAfter = period + 1 + IF Stale THEN d ELSE 0 BY <1>3 DEF PeriodAfter
<1> QED BY <1>1, <1>2, <1>3, <1>4

LEMMA ExecuteKeepsHistory ==
    ASSUME HistoryFits, DecisionTypes, Execute
    PROVE  HistoryFits'
<1> DEFINE entry == [period |-> period, action |-> action]
<1>1. /\ at = "execute" /\ at' = "top" /\ log' = Append(log, entry) /\ seen' = seen
      /\ trajectory' = [trajectory EXCEPT !.pending = Decision(period, action)]
      /\ period \in Nat /\ period' \in Nat /\ period' > period /\ entry \in Entries
  BY LaterPeriod DEF Execute, RecordDecision, DecisionTypes, Entries
<1>2. /\ seen \in Seq(Nat) /\ log \in Seq(Entries) /\ Len(log) \in Nat /\ ~Open /\ Closed = Len(log)
      /\ trajectory = [observations |-> Last(Window, seen), decisions |-> Last(ActionWindow, ShownUpTo(Closed)),
                       pending |-> Nothing]
      /\ \A k \in 1..Len(seen) : seen[k] \in Nat /\ seen[k] <= period
      /\ \A i \in 1..Closed : HasLeast(After(log[i].period))
  <2>1. ~Open /\ log \in Seq(Entries) /\ Len(log) \in Nat BY <1>1 DEF HistoryFits
  <2> QED BY <1>1, <2>1 DEF HistoryFits, Closed
<1>3. /\ log' \in Seq(Entries) /\ Len(log') = Len(log) + 1
      /\ \A i \in 1..Len(log) : log'[i] = log[i]
      /\ log'[Len(log) + 1] = entry
  <2> HIDE DEF entry
  <2> QED BY <1>1, <1>2
<1>4. \A q : After(q)' = After(q) BY <1>1 DEF After
<1>5. After(period) = {} BY <1>1, <1>2 DEF After
<1>6. ASSUME NEW i \in 1..Len(log) PROVE Shown(i)' = Shown(i)
  <2>1. log'[i] = log[i] BY <1>3
  <2> QED BY <1>1, <2>1 DEF Shown, After
<1>7. Shown(Len(log))' = Decision(period, action)
  <2>1. log'[Len(log')].period = period /\ log'[Len(log')].action = action BY <1>3
  <2>2. After(log[Len(log)].period)' = {} BY <1>4, <1>5, <2>1
  <2>3. Shown(Len(log))' = [Decision(period, action) EXCEPT !.rt_after = -1] BY <2>1, <2>2 DEF Shown
  <2> QED BY <2>3 DEF Decision
<1>8. Open' /\ Closed' = Closed
  <2>1. trajectory'.pending = Decision(period, action) BY <1>1, <1>2
  <2>2. trajectory'.pending # Nothing
    <3>1. Decision(period, action).kind = "decision" /\ Nothing.kind = "nothing" BY DEF Decision, Nothing
    <3> QED BY <2>1, <3>1
  <2> QED BY <1>2, <1>3, <2>2 DEF Open, Closed
<1>9. ShownUpTo(Closed)' = ShownUpTo(Closed) BY <1>2, <1>6, <1>8 DEF ShownUpTo
<1>10. /\ trajectory' = [observations |-> Last(Window, seen'), decisions |-> Last(ActionWindow, ShownUpTo(Closed)'),
                         pending |-> IF Open' THEN Shown(Len(log))' ELSE Nothing]
  BY <1>1, <1>2, <1>3, <1>7, <1>8, <1>9
<1>11. \A i \in 1..Closed' : HasLeast(After(log[i].period)') BY <1>2, <1>3, <1>4, <1>8
<1>12. \A k \in 1..Len(seen') : seen'[k] < period' BY <1>1, <1>2
<1>13. /\ Len(log') >= 1 /\ log'[Len(log')].period < period'
       /\ After(log[Len(log)].period)' = {}
  <2>1. log'[Len(log')].period = period BY <1>3
  <2> QED BY <1>1, <1>2, <1>3, <1>4, <1>5, <2>1
<1> QED BY <1>1, <1>2, <1>3, <1>8, <1>10, <1>11, <1>12, <1>13 DEF HistoryFits

(* Nothing else writes the history.                                        *)
LEMMA OthersKeepHistory ==
    ASSUME HistoryFits, DecisionTypes, UNCHANGED historyVars, period' \in Nat, period' >= period,
           (at' = "top") <=> (at = "top")
    PROVE  HistoryFits'
<1>1. \A q : After(q)' = After(q) BY DEF After, historyVars
<1>2. \A i : Shown(i)' = Shown(i) BY DEF Shown, After, historyVars
<1>3. (Open' <=> Open) /\ Closed' = Closed BY DEF Open, Closed, historyVars
<1>4. ShownUpTo(Closed)' = ShownUpTo(Closed) BY <1>2, <1>3 DEF ShownUpTo
<1>5. seen' = seen /\ log' = log /\ trajectory' = trajectory BY DEF historyVars
<1>6. log \in Seq(Entries) /\ Len(log) \in Nat BY DEF HistoryFits
<1>7. trajectory' = [observations |-> Last(Window, seen'), decisions |-> Last(ActionWindow, ShownUpTo(Closed)'),
                    pending |-> IF Open' THEN Shown(Len(log))' ELSE Nothing]
  BY <1>2, <1>3, <1>4, <1>5 DEF HistoryFits
<1>8. \A k \in 1..Len(seen') : IF at' = "top" THEN seen'[k] < period' ELSE seen'[k] <= period'
  <2>1. \A k \in 1..Len(seen) : seen[k] \in Nat BY DEF HistoryFits
  <2>2. period \in Nat BY DEF DecisionTypes
  <2> QED BY <1>5, <2>1, <2>2 DEF HistoryFits
<1>9. \A i \in 1..Closed' : HasLeast(After(log[i].period)') BY <1>1, <1>3, <1>5 DEF HistoryFits
<1>10. Open' => /\ Len(log') >= 1 /\ log'[Len(log')].period < period'
                /\ After(log[Len(log)].period)' = {}
  <2> SUFFICES ASSUME Open PROVE /\ Len(log) >= 1 /\ log[Len(log)].period < period'
                                 /\ After(log[Len(log)].period) = {}
    BY <1>1, <1>3, <1>5
  <2>1. Len(log) >= 1 /\ log[Len(log)].period < period /\ After(log[Len(log)].period) = {}
    BY DEF HistoryFits
  <2>2. log[Len(log)] \in Entries BY <1>6, <2>1
  <2>3. log[Len(log)].period \in Nat BY <2>2 DEF Entries
  <2> QED BY <2>1, <2>3 DEF DecisionTypes
<1> QED BY <1>3, <1>5, <1>7, <1>8, <1>9, <1>10 DEF HistoryFits

-----------------------------------------------------------------------------
(* Every step keeps the inductive invariant.                               *)

LEMMA SetupFacts ==
    ASSUME DecisionTypes
    PROVE  /\ setup.attempts \in Nat \ {0} /\ setup.tries \in Nat \ {0}
           /\ PeriodTicks \in Nat /\ CallTicks \in Nat
  BY LLMDecisionAssumption DEF DecisionTypes, SetupType

LEMMA SenseInd == ASSUME DecisionIndInv, Sense PROVE DecisionIndInv'
<1>1. DecisionTypes /\ HistoryFits BY DEF DecisionIndInv
<1>2. /\ at = "top" /\ at' \in Calls \cup {"choose"} /\ (at' = "choose" => setup.policy # "llm")
      /\ attempt' = 0 /\ asked' = 0 /\ waited' = 0 /\ obs' = site /\ action' = action
      /\ setup' = setup /\ site' = site /\ period' = period /\ log' = log
      /\ seen' = Append(seen, period) /\ RecordObservation(period)
  BY DEF Sense, Call, FirstCall, Calls
<1>3. at' # "top" /\ at' # "execute" BY <1>2 DEF Calls
<1>4. DecisionTypes' BY <1>1, <1>2, SetupFacts DEF DecisionTypes
<1>5. SiteIsSensed' /\ LegalOnEveryPath' BY <1>2, <1>3 DEF SiteIsSensed, LegalOnEveryPath
<1>6. period \in Nat BY <1>1 DEF DecisionTypes
<1>7. HistoryFits' BY <1>1, <1>2, <1>3, <1>6, SenseKeepsHistory
<1> QED BY <1>4, <1>5, <1>7 DEF DecisionIndInv

LEMMA SenseFailsInd == ASSUME DecisionIndInv, SenseFails PROVE DecisionIndInv'
<1>1. DecisionTypes /\ HistoryFits BY DEF DecisionIndInv
<1>2. /\ at = "top" /\ at' = "top" /\ period' = period + 1 /\ UNCHANGED historyVars
      /\ UNCHANGED <<setup, site, obs, attempt, asked, waited, action>>
  BY DEF SenseFails, callVars, historyVars
<1>3. period \in Nat /\ period' \in Nat /\ period' >= period BY <1>1, <1>2 DEF DecisionTypes
<1>4. DecisionTypes' BY <1>1, <1>2, <1>3 DEF DecisionTypes
<1>5. SiteIsSensed' /\ LegalOnEveryPath' BY <1>2 DEF SiteIsSensed, LegalOnEveryPath
<1>6. HistoryFits' BY <1>1, <1>2, <1>3, OthersKeepHistory
<1> QED BY <1>4, <1>5, <1>6 DEF DecisionIndInv

(* A step of a decision that asks again or comes to an action.             *)
LEMMA ConcludesInd ==
    ASSUME DecisionIndInv, Concludes, at # "top", waited' \in Nat,
           UNCHANGED <<setup, site, obs, period, historyVars>>
    PROVE  DecisionIndInv'
<1>1. DecisionTypes /\ HistoryFits /\ SiteIsSensed BY DEF DecisionIndInv
<1>2. /\ at' \in Calls \cup {"execute"} /\ at' # "top" /\ at' # "choose" /\ action' \in Tactics
      /\ (at' = "execute" => IsLegal(action'))
      /\ attempt' = 0 /\ asked' = 0
  BY <1>1 DEF Concludes, Calls, DecisionTypes
<1>3. DecisionTypes' BY <1>1, <1>2, SetupFacts DEF DecisionTypes
<1>4. SiteIsSensed' BY <1>1 DEF SiteIsSensed
<1>5. LegalOnEveryPath' BY <1>2 DEF LegalOnEveryPath, IsLegal
<1>6. period \in Nat /\ period' = period BY <1>1 DEF DecisionTypes
<1>7. HistoryFits' BY <1>1, <1>2, <1>6, OthersKeepHistory
<1> QED BY <1>3, <1>4, <1>5, <1>7 DEF DecisionIndInv

LEMMA WaitIsCounted == ASSUME DecisionTypes, TakesTime PROVE waited' \in Nat
<1>1. PICK t \in 0..CallTicks : waited' = waited + t BY DEF TakesTime
<1>2. waited \in Nat /\ t \in Nat BY SetupFacts DEF DecisionTypes
<1> QED BY <1>1, <1>2

LEMMA DecideInd == ASSUME DecisionIndInv, Decide PROVE DecisionIndInv'
<1>1. DecisionTypes /\ HistoryFits /\ SiteIsSensed /\ LegalOnEveryPath BY DEF DecisionIndInv
<1>2. obs \in Sites /\ setup \in Setups /\ waited \in Nat BY <1>1 DEF DecisionTypes
<1>3. CASE Choose
  <2>1. at = "choose" /\ waited' = waited /\ UNCHANGED <<setup, site, obs, period, historyVars>>
    BY <1>3 DEF Choose
  <2>2. setup.policy # "llm" BY <1>1, <2>1 DEF DecisionTypes
  <2>3. Concludes BY <1>2, <1>3, <2>2, ChoiceConcludes
  <2> QED BY <1>2, <2>1, <2>3, ConcludesInd
<1>4. CASE Answers
  <2>1. at \in Calls /\ Answer /\ TakesTime /\ UNCHANGED <<setup, site, obs, period, historyVars>>
    BY <1>4 DEF Answers
  <2>2. Concludes BY <2>1, AnswerConcludes
  <2>3. at # "top" /\ waited' \in Nat BY <1>1, <2>1, WaitIsCounted DEF Calls
  <2> QED BY <2>1, <2>2, <2>3, ConcludesInd
<1>5. CASE CallFails
  <2>1. at \in Calls /\ Failure /\ TakesTime /\ UNCHANGED <<setup, site, obs, period, historyVars>>
    BY <1>5 DEF CallFails
  <2>2. Concludes BY <1>2, <2>1, FailureConcludes
  <2>3. at # "top" /\ waited' \in Nat BY <1>1, <2>1, WaitIsCounted DEF Calls
  <2> QED BY <2>1, <2>2, <2>3, ConcludesInd
<1>6. CASE Busy \/ ComesBackEmpty
  <2>1. /\ at \in Calls /\ TakesTime /\ attempt' \in 0..setup.attempts /\ asked' \in 0..setup.tries
        /\ UNCHANGED <<setup, site, obs, period, at, action, historyVars>>
    <3>1. CASE Busy
      <4>1. attempt' = attempt + 1 /\ asked' = asked /\ attempt + 1 < setup.attempts BY <3>1 DEF Busy
      <4>2. attempt' \in 0..setup.attempts /\ asked' \in 0..setup.tries
        BY <1>1, <4>1, SetupFacts DEF DecisionTypes
      <4> QED BY <3>1, <4>2 DEF Busy
    <3>2. CASE ComesBackEmpty
      <4>1. asked' = asked + 1 /\ attempt' = 0 /\ asked + 1 < setup.tries
        BY <3>2 DEF ComesBackEmpty, AskedAgain
      <4>2. attempt' \in 0..setup.attempts /\ asked' \in 0..setup.tries
        BY <1>1, <4>1, SetupFacts DEF DecisionTypes
      <4> QED BY <3>2, <4>2 DEF ComesBackEmpty, Calls
    <3> QED BY <1>6, <3>1, <3>2
  <2>2. waited' \in Nat /\ at # "top" /\ at # "execute" BY <1>1, <2>1, WaitIsCounted DEF Calls
  <2>3. DecisionTypes' BY <1>1, <2>1, <2>2 DEF DecisionTypes
  <2>4. SiteIsSensed' /\ LegalOnEveryPath' BY <1>1, <2>1, <2>2 DEF SiteIsSensed, LegalOnEveryPath
  <2>5. period \in Nat /\ period' = period /\ at' = at BY <1>1, <2>1 DEF DecisionTypes
  <2>6. HistoryFits' BY <1>1, <2>1, <2>5, OthersKeepHistory
  <2> QED BY <2>3, <2>4, <2>6 DEF DecisionIndInv
<1> QED BY <1>3, <1>4, <1>5, <1>6 DEF Decide

(* What is valid in the state that was sensed leaves the site a site, also *)
(* when a server's boot has ended since.                                   *)
LEMMA ValidLeavesSite ==
    ASSUME site \in Sites, obs \in Sites, site.servers = obs.servers, action \in Tactics, IsValid(action)
    PROVE  Apply(site, action) \in Sites
<1>1. MaxServers \in Nat /\ site.servers \in 1..MaxServers /\ site.booting \in BOOLEAN /\ site.dimmer \in 0..One
      /\ site = [servers |-> site.servers, booting |-> site.booting, dimmer |-> site.dimmer]
  BY ReactiveRuleAssumption DEF Sites
<1>2. CASE action = NoOp BY <1>2 DEF NoOp, Apply
<1>3. CASE action = Add
  <2>1. CanAdd(obs) BY <1>3 DEF Add, IsValid, IsLegal
  <2>2. site.servers + 1 \in 1..MaxServers BY <1>1, <2>1 DEF CanAdd
  <2>3. Apply(site, action) = [site EXCEPT !.servers = site.servers + 1, !.booting = TRUE]
    BY <1>3 DEF Add, Apply
  <2> QED BY <1>1, <2>2, <2>3 DEF Sites
<1>4. CASE action = Remove
  <2>1. CanRemove(obs) BY <1>4 DEF Remove, IsValid, IsLegal
  <2>2. site.servers - 1 \in 1..MaxServers BY <1>1, <2>1 DEF CanRemove
  <2>3. Apply(site, action) = [site EXCEPT !.servers = site.servers - 1] BY <1>4 DEF Remove, Apply
  <2> QED BY <1>1, <2>2, <2>3 DEF Sites
<1>5. ASSUME NEW v \in 0..One, action = SetDimmer(v) PROVE Apply(site, action) \in Sites
  <2>1. Apply(site, action) = [site EXCEPT !.dimmer = v] BY <1>5 DEF SetDimmer, Apply
  <2> QED BY <1>1, <2>1 DEF Sites
<1> QED BY <1>2, <1>3, <1>4, <1>5 DEF Tactics

LEMMA ExecuteInd == ASSUME DecisionIndInv, Execute PROVE DecisionIndInv'
<1>1. DecisionTypes /\ HistoryFits /\ SiteIsSensed BY DEF DecisionIndInv
<1>2. /\ at = "execute" /\ at' = "top" /\ waited' = 0 /\ action' = NoOp /\ period' = PeriodAfter
      /\ UNCHANGED <<setup, obs, attempt, asked>>
  BY DEF Execute
<1>3. site' \in Sites
  <2>1. site \in Sites /\ obs \in Sites /\ action \in Tactics /\ site.servers = obs.servers
    BY <1>1, <1>2 DEF DecisionTypes, SiteIsSensed
  <2>2. site' = site \/ (IsValid(action) /\ site' = Apply(site, action)) BY DEF Execute
  <2> QED BY <2>1, <2>2, ValidLeavesSite
<1>4. PeriodAfter \in Nat BY <1>1, LaterPeriod
<1>5. DecisionTypes' BY <1>1, <1>2, <1>3, <1>4, NoOpIsLegal DEF DecisionTypes
<1>6. SiteIsSensed' /\ LegalOnEveryPath' BY <1>2 DEF SiteIsSensed, LegalOnEveryPath
<1>7. HistoryFits' BY <1>1, ExecuteKeepsHistory
<1> QED BY <1>5, <1>6, <1>7 DEF DecisionIndInv

LEMMA BootEndsInd == ASSUME DecisionIndInv, BootEnds PROVE DecisionIndInv'
<1>1. DecisionTypes /\ HistoryFits /\ SiteIsSensed /\ LegalOnEveryPath BY DEF DecisionIndInv
<1>2. /\ site' = [site EXCEPT !.booting = FALSE] /\ UNCHANGED historyVars
      /\ UNCHANGED <<setup, obs, period, at, attempt, asked, waited, action>>
  BY DEF BootEnds, Booted, callVars, historyVars
<1>3. site \in Sites /\ period \in Nat BY <1>1 DEF DecisionTypes
<1>4. /\ site' \in Sites /\ site'.servers = site.servers /\ site'.dimmer = site.dimmer
      /\ site'.booting = FALSE
  BY <1>2, <1>3 DEF Sites
<1>5. DecisionTypes' BY <1>1, <1>2, <1>4 DEF DecisionTypes
<1>6. SiteIsSensed' BY <1>1, <1>2, <1>4 DEF SiteIsSensed
<1>7. LegalOnEveryPath' BY <1>1, <1>2 DEF LegalOnEveryPath, IsLegal
<1>8. HistoryFits' BY <1>1, <1>2, <1>3, OthersKeepHistory
<1> QED BY <1>5, <1>6, <1>7, <1>8 DEF DecisionIndInv

LEMMA StutterInd == ASSUME DecisionIndInv, UNCHANGED vars PROVE DecisionIndInv'
<1>1. DecisionTypes /\ HistoryFits /\ SiteIsSensed /\ LegalOnEveryPath BY DEF DecisionIndInv
<1>2. /\ UNCHANGED historyVars /\ UNCHANGED <<setup, site, obs, period, at, attempt, asked, waited, action>>
  BY DEF vars, callVars
<1>3. period \in Nat BY <1>1 DEF DecisionTypes
<1>4. DecisionTypes' BY <1>1, <1>2 DEF DecisionTypes
<1>5. SiteIsSensed' BY <1>1, <1>2 DEF SiteIsSensed
<1>6. LegalOnEveryPath' BY <1>1, <1>2 DEF LegalOnEveryPath, IsLegal
<1>7. HistoryFits' BY <1>1, <1>2, <1>3, OthersKeepHistory
<1> QED BY <1>4, <1>5, <1>6, <1>7 DEF DecisionIndInv

(* Whatever the language model answers and however its calls fail, for     *)
(* every window, length of a period and number of retries: what is         *)
(* executed is legal in the state it was decided on, also when the rule    *)
(* that nothing validates chose it, and the history that the next prompt   *)
(* shows is what was decided, each action with the response time of the    *)
(* next period that was sensed.                                            *)
THEOREM DecisionsHold == Spec => []DecisionInv
<1>1. DecisionIndInv /\ [Next]_vars => DecisionIndInv'
  <2> SUFFICES ASSUME DecisionIndInv, [Next]_vars PROVE DecisionIndInv' OBVIOUS
  <2>1. CASE Sense BY <2>1, SenseInd
  <2>2. CASE SenseFails BY <2>2, SenseFailsInd
  <2>3. CASE Decide BY <2>3, DecideInd
  <2>4. CASE Execute BY <2>4, ExecuteInd
  <2>5. CASE BootEnds BY <2>5, BootEndsInd
  <2>6. CASE Ended \/ UNCHANGED vars BY <2>6, StutterInd DEF Ended
  <2> QED BY <2>1, <2>2, <2>3, <2>4, <2>5, <2>6 DEF Next
<1> QED BY <1>1, DecisionInitInd, DecisionIndImplies, PTL DEF Spec
=============================================================================
