------------------------- MODULE MetaLearnerProofs -------------------------
(***************************************************************************)
(* For every reply of the language model, every threshold and every share  *)
(* it may move by: a save of the meta-learner changes little, however the  *)
(* cycles overlap; and what it saved and announced is what the reasoner    *)
(* works with.  And for every window, buffer, batch and deadband of the    *)
(* telemetry it reads: no measurement of the monitor is lost, doubled or   *)
(* overtaken between the adapter and the knowledge base.                   *)
(***************************************************************************)
EXTENDS MetaLearner, FiniteSetTheorems, FunctionTheorems, SequenceTheorems,
        TLAPS

-----------------------------------------------------------------------------
(* The operators an update is built from.                                  *)

LEMMA MinOfTwo == \A a, b \in Int : Min({a, b}) = IF a <= b THEN a ELSE b
<1> SUFFICES ASSUME NEW a \in Int, NEW b \in Int
             PROVE  Min({a, b}) = IF a <= b THEN a ELSE b
  OBVIOUS
<1> DEFINE m == IF a <= b THEN a ELSE b
<1>1. m \in {a, b} /\ \A y \in {a, b} : m <= y OBVIOUS
<1>2. PICK k : k = Min({a, b}) OBVIOUS
<1>3. k \in {a, b} /\ \A y \in {a, b} : k <= y BY <1>1, <1>2 DEF Min
<1> QED BY <1>1, <1>2, <1>3

LEMMA MaxOfTwo == \A a, b \in Int : Max({a, b}) = IF a >= b THEN a ELSE b
<1> SUFFICES ASSUME NEW a \in Int, NEW b \in Int
             PROVE  Max({a, b}) = IF a >= b THEN a ELSE b
  OBVIOUS
<1> DEFINE m == IF a >= b THEN a ELSE b
<1>1. m \in {a, b} /\ \A y \in {a, b} : m >= y OBVIOUS
<1>2. PICK k : k = Max({a, b}) OBVIOUS
<1>3. k \in {a, b} /\ \A y \in {a, b} : k >= y BY <1>1, <1>2 DEF Max
<1> QED BY <1>1, <1>2, <1>3

(* Of a list of changes the first is left, if there is one.                *)
LEMMA FirstIsAlone ==
    ASSUME NEW S, NEW changes \in Seq(S)
    PROVE  /\ ToSet(FirstOnly(changes)) \subseteq S
           /\ \A c, d \in ToSet(FirstOnly(changes)) : c = d
<1>1. Len(changes) \in Nat BY LenProperties
<1>2. PICK n : n = Min({1, Len(changes)}) OBVIOUS
<1>3. n \in {0, 1} /\ n <= Len(changes) BY <1>1, <1>2, MinOfTwo
<1>4. \A i \in 1..n : changes[i] \in S BY <1>1, <1>3, ElementOfSeq
<1>5. FirstOnly(changes) = SubSeq(changes, 1, n) BY <1>2 DEF FirstOnly
<1>6. /\ FirstOnly(changes) \in Seq(S)
      /\ Len(FirstOnly(changes)) = n
  BY <1>3, <1>4, <1>5, SubSeqProperties
<1>7. PICK f \in Seq(S) : f = FirstOnly(changes) BY <1>6
<1>8. DOMAIN f = 1..n /\ \A i \in 1..n : f[i] \in S
  BY <1>6, <1>7, LenProperties, ElementOfSeq
<1>9. ToSet(f) = {f[i] : i \in 1..n} BY <1>8 DEF ToSet
<1>10. \A i, j \in 1..n : i = j BY <1>3
<1> QED BY <1>7, <1>8, <1>9, <1>10

(* The rules of a change of one threshold.                                 *)
Little(old, new) ==
    LET change == Max({old, new}) - Min({old, new}) IN 100 * change <= MaxChangePercent * old

LEMMA UnchangedIsLittle == \A v \in Nat : Little(v, v)
<1> SUFFICES ASSUME NEW v \in Nat PROVE Little(v, v) OBVIOUS
<1>1. Max({v, v}) = v /\ Min({v, v}) = v BY MaxOfTwo, MinOfTwo
<1>2. MaxChangePercent * v \in Nat BY MetaLearnerAssumption DEF MetaLearnerAssumption
<1>3. 100 * (v - v) = 0 OBVIOUS
<1> QED BY <1>1, <1>2, <1>3 DEF Little

LEMMA ConstrainedIsLittle ==
    ASSUME NEW key, NEW new \in Nat,
           \A k \in DOMAIN current_thresholds : current_thresholds[k] \in Nat
    PROVE  /\ Constrained(key, new) \in Nat
           /\ key \in DOMAIN current_thresholds =>
                 Little(current_thresholds[key], Constrained(key, new))
<1>1. CASE key \notin DOMAIN current_thresholds BY <1>1 DEF Constrained
<1>2. CASE key \in DOMAIN current_thresholds
  <2>1. PICK value \in Nat : value = current_thresholds[key] BY <1>2
  <2>2. MaxChangePercent \in Nat BY MetaLearnerAssumption DEF MetaLearnerAssumption
  <2>3. PICK share \in Nat : share = value * MaxChangePercent BY <2>2
  <2>4. PICK change \in Nat : change = share \div 100 OBVIOUS
  <2>5. 100 * change <= share BY <2>4
  <2>6. PICK low : low = Min({value + change, new}) OBVIOUS
  <2>7. low \in Nat /\ low <= value + change BY <2>6, MinOfTwo
  <2>8. PICK result : result = Max({value - change, low}) OBVIOUS
  <2>9. result \in Nat /\ value - change <= result /\ result <= value + change
    BY <2>7, <2>8, MaxOfTwo
  <2>10. Constrained(key, new) = result
    BY <1>2, <2>1, <2>3, <2>4, <2>6, <2>8 DEF Constrained
  <2>11. PICK above, below : above = Max({value, result}) /\ below = Min({value, result})
    OBVIOUS
  <2>12. /\ above \in Nat /\ below \in Nat /\ above - below <= change
    BY <2>9, <2>11, MaxOfTwo, MinOfTwo
  <2>13. 100 * (above - below) <= share BY <2>5, <2>12
  <2>14. share = MaxChangePercent * value BY <2>2, <2>3
  <2>15. Little(value, result) BY <2>11, <2>13, <2>14 DEF Little
  <2> QED BY <2>1, <2>9, <2>10, <2>15
<1> QED BY <1>1, <1>2

(* What a cycle may save: one threshold at most, never a fixed constraint, *)
(* and a known one not far from where it is.                               *)
SmallUpdate(update) ==
    /\ \E k : DOMAIN update.thresholds \subseteq {k}
    /\ DOMAIN update.thresholds \cap FixedConstraints = {}
    /\ \A k \in DOMAIN update.thresholds :
          /\ update.thresholds[k] \in Nat
          /\ k \in DOMAIN current_thresholds =>
                Little(current_thresholds[k], update.thresholds[k])
    /\ update.parts \subseteq AllowedParts

LEMMA ValidatedIsSmall ==
    ASSUME NEW reply \in Replies,
           \A k \in DOMAIN current_thresholds : current_thresholds[k] \in Nat
    PROVE  SmallUpdate(Validated(reply))
<1> DEFINE first == ToSet(FirstOnly(reply.thresholds))
           asked == {c \in first : c.key \notin FixedConstraints /\ c.number}
           texts == {p \in ToSet(FirstOnly(reply.parts)) : p.key \in AllowedParts /\ p.acceptable}
           ValueOf(k) == (CHOOSE c \in asked : c.key = k).value
           thresholds == [k \in {c.key : c \in asked} |-> Constrained(k, ValueOf(k))]
<1>1. /\ reply.thresholds \in Seq([key : STRING, value : Nat, number : BOOLEAN])
      /\ reply.parts \in Seq([key : STRING, acceptable : BOOLEAN])
  BY MetaLearnerAssumption DEF MetaLearnerAssumption, ReplyType
<1>2. /\ first \subseteq [key : STRING, value : Nat, number : BOOLEAN]
      /\ \A c, d \in first : c = d
  BY <1>1, FirstIsAlone
<1>3. Validated(reply) = [thresholds |-> thresholds, parts |-> {p.key : p \in texts}]
  BY DEF Validated
<1>4. /\ Validated(reply).thresholds = thresholds
      /\ Validated(reply).parts = {p.key : p \in texts}
  BY <1>3
<1>5. {p.key : p \in texts} \subseteq AllowedParts OBVIOUS
<1>6. DOMAIN thresholds = {c.key : c \in asked} OBVIOUS
<1>7. \A c \in asked : c \in first /\ c.value \in Nat /\ c.key \notin FixedConstraints
  BY <1>2
<1>8. \E k : DOMAIN thresholds \subseteq {k}
  <2> HIDE DEF first
  <2> QED BY <1>2, <1>6
<1>9. DOMAIN thresholds \cap FixedConstraints = {}
  <2> HIDE DEF first
  <2> QED BY <1>6, <1>7
<1>10. ASSUME NEW k \in DOMAIN thresholds
       PROVE  /\ thresholds[k] \in Nat
              /\ k \in DOMAIN current_thresholds => Little(current_thresholds[k], thresholds[k])
  <2>1. PICK new : new = ValueOf(k) OBVIOUS
  <2>2. new \in Nat
    <3>1. \E c \in asked : c.key = k BY <1>6, <1>10
    <3> HIDE DEF asked
    <3> QED BY <2>1, <3>1, <1>7
  <2>3. thresholds[k] = Constrained(k, new)
    <3> HIDE DEF asked
    <3> QED BY <2>1, <1>6, <1>10
  <2>4. /\ Constrained(k, new) \in Nat
        /\ k \in DOMAIN current_thresholds => Little(current_thresholds[k], Constrained(k, new))
    BY <2>2, ConstrainedIsLittle
  <2> QED BY <2>3, <2>4
<1> HIDE DEF thresholds, texts
<1> QED BY <1>4, <1>5, <1>8, <1>9, <1>10 DEF SmallUpdate

-----------------------------------------------------------------------------
(* The invariant.  What a cycle is about to save it validated against the  *)
(* thresholds of the meta-learner, which are those of the file as long as  *)
(* no other cycle saves.                                                   *)
Shaped ==
    /\ DOMAIN cycle = Tasks
    /\ \A t \in Tasks : DOMAIN cycle[t] = {"at", "found", "update"}

FileIsKnown ==
    /\ current_thresholds = prompt.thresholds
    /\ \A k \in DOMAIN prompt.thresholds : prompt.thresholds[k] \in Nat

SavesAreSmall == \A t \in Tasks : cycle[t].at = "save" => SmallUpdate(cycle[t].update)

MetaIndInv == MetaTypeOK /\ Shaped /\ FileIsKnown /\ SavesAreSmall /\ TuningTakesHold

LEMMA MetaInitially == MetaInit => MetaIndInv
<1> SUFFICES ASSUME MetaInit PROVE MetaIndInv OBVIOUS
<1> USE MetaLearnerAssumption DEF MetaLearnerAssumption, MetaInit
<1>1. \A t \in Tasks : cycle[t] = [at |-> "idle", found |-> FALSE, update |-> NoUpdate]
  BY DEF AtRest
<1>2. Shaped
  <2>1. DOMAIN cycle = Tasks OBVIOUS
  <2>2. ASSUME NEW t \in Tasks PROVE DOMAIN cycle[t] = {"at", "found", "update"}
    <3>1. \A u : DOMAIN [at |-> "idle", found |-> FALSE, update |-> u] = {"at", "found", "update"}
      OBVIOUS
    <3>2. cycle[t] = [at |-> "idle", found |-> FALSE, update |-> NoUpdate] BY ONLY <1>1, <2>2
    <3> QED BY ONLY <3>1, <3>2
  <2> QED BY <2>1, <2>2 DEF Shaped
<1>3. \A t \in Tasks : cycle[t].at = "idle" /\ cycle[t].found = FALSE BY <1>1
<1>4. MetaTypeOK
  <2>1. DOMAIN prompt = {"thresholds", "parts"} /\ prompt.parts = {}
    BY ONLY MetaInit DEF MetaInit
  <2>2. started \in 0..MaxLearningCycles OBVIOUS
  <2>3. torn \in BOOLEAN /\ connected \in BOOLEAN /\ unheard \in BOOLEAN OBVIOUS
  <2>4. notices \in Nat /\ tuned = {} OBVIOUS
  <2>5. \A t \in Tasks : cycle[t].at \in Stages /\ cycle[t].found \in BOOLEAN
    BY ONLY <1>3 DEF Stages
  <2> QED BY ONLY <2>1, <2>2, <2>3, <2>4, <2>5 DEF MetaTypeOK
<1>5. FileIsKnown BY DEF FileIsKnown
<1>6. SavesAreSmall BY <1>3 DEF SavesAreSmall
<1>7. TuningTakesHold BY DEF TuningTakesHold
<1> QED BY <1>2, <1>4, <1>5, <1>6, <1>7 DEF MetaIndInv

LEMMA CycleMoves ==
    ASSUME Shaped, NEW t \in Tasks, NEW stage, cycle' = [cycle EXCEPT ![t].at = stage]
    PROVE  /\ Shaped'
           /\ cycle'[t].at = stage
           /\ cycle'[t].found = cycle[t].found
           /\ cycle'[t].update = cycle[t].update
           /\ \A u \in Tasks \ {t} : cycle'[u] = cycle[u]
BY DEF Shaped

LEMMA CycleEnds ==
    ASSUME Shaped, NEW t \in Tasks, Ends(t)
    PROVE  /\ Shaped'
           /\ cycle'[t].at = "idle"
           /\ cycle'[t].found = FALSE
           /\ \A u \in Tasks \ {t} : cycle'[u] = cycle[u]
BY DEF Shaped, Ends, AtRest

-----------------------------------------------------------------------------
(* Steps that leave the file, the thresholds and the announcements alone   *)
(* and bring no cycle to a save or out of an announcement.                 *)
Quiet == UNCHANGED <<prompt, torn, current_thresholds, notices, prompt_config, tuned, unheard>>

LEMMA SmallAsBefore ==
    ASSUME NEW update, SmallUpdate(update), UNCHANGED current_thresholds
    PROVE  SmallUpdate(update)'
BY DEF SmallUpdate

LEMMA QuietStep ==
    ASSUME MetaIndInv, Quiet, (MetaTypeOK /\ Shaped)',
           \A t \in Tasks : cycle'[t].at = "save" => cycle'[t] = cycle[t],
           \A t \in Tasks : cycle[t].at = "announce" => cycle'[t].at = "announce"
    PROVE  MetaIndInv'
<1> USE DEF Quiet
<1>1. FileIsKnown' BY DEF MetaIndInv, FileIsKnown
<1>2. SavesAreSmall'
  <2>1. SUFFICES ASSUME NEW t \in Tasks, cycle'[t].at = "save"
                 PROVE  SmallUpdate(cycle[t].update)' /\ cycle'[t].update = cycle[t].update
    BY DEF SavesAreSmall, SmallUpdate
  <2>2. cycle'[t] = cycle[t] BY <2>1
  <2>3. SmallUpdate(cycle[t].update) BY <2>1, <2>2 DEF MetaIndInv, SavesAreSmall
  <2> QED BY <2>2, <2>3 DEF SmallUpdate
<1>3. TuningTakesHold'
  <2>1. Settled' => Settled
    <3>1. UNCHANGED <<notices, torn, unheard>> OBVIOUS
    <3> QED BY <3>1 DEF Settled
  <2>2. TuningTakesHold BY DEF MetaIndInv
  <2>3. UNCHANGED <<prompt, prompt_config, tuned>> OBVIOUS
  <2> QED BY ONLY <2>1, <2>2, <2>3 DEF TuningTakesHold
<1>4. MetaTypeOK' /\ Shaped' OBVIOUS
<1> QED BY ONLY <1>1, <1>2, <1>3, <1>4 DEF MetaIndInv

LEMMA StartKept == ASSUME MetaIndInv, NEW t \in Tasks, StartCycle(t) PROVE MetaIndInv'
<1> USE DEF StartCycle
<1>1. Shaped BY DEF MetaIndInv
<1>2. Shaped' /\ cycle'[t].at = "observations" /\ cycle'[t].found = cycle[t].found
  BY <1>1, CycleMoves DEF GoesTo
<1>3. \A u \in Tasks \ {t} : cycle'[u] = cycle[u] BY <1>1, CycleMoves DEF GoesTo
<1>4. started' \in 0..MaxLearningCycles
  BY MetaLearnerAssumption DEF MetaLearnerAssumption, MetaIndInv, MetaTypeOK
<1>5. MetaTypeOK' BY <1>2, <1>3, <1>4 DEF MetaIndInv, MetaTypeOK, Stages
<1>6. cycle[t].at = "idle" BY DEF Running
<1> QED BY <1>2, <1>3, <1>5, <1>6, QuietStep DEF Quiet

(* A cycle that waits goes on to a stage before the save, or ends.         *)
LEMMA WaitingKept ==
    ASSUME MetaIndInv, NEW t \in Tasks, Waiting, Shaped', cycle[t].at # "announce",
           cycle'[t].at \in Stages \ {"save"}, cycle'[t].found \in BOOLEAN,
           \A u \in Tasks \ {t} : cycle'[u] = cycle[u]
    PROVE  MetaIndInv'
<1> USE DEF Waiting
<1>1. MetaTypeOK' BY DEF MetaIndInv, MetaTypeOK
<1> QED BY <1>1, QuietStep DEF Quiet

LEMMA ObservationsKept == ASSUME MetaIndInv, NEW t \in Tasks, QueryObservations(t) PROVE MetaIndInv'
<1>1. Shaped BY DEF MetaIndInv
<1>2. PICK found \in Finds("observation") :
         cycle' = [cycle EXCEPT ![t].at = "decisions", ![t].found = found]
  BY DEF QueryObservations
<1>3. found \in BOOLEAN BY <1>2 DEF Finds
<1>4. Shaped' /\ cycle'[t].at = "decisions" /\ cycle'[t].found = found
  BY <1>1, <1>2 DEF Shaped
<1>5. \A u \in Tasks \ {t} : cycle'[u] = cycle[u] BY <1>1, <1>2 DEF Shaped
<1>6. cycle[t].at = "observations" /\ Waiting BY DEF QueryObservations, Running
<1> QED BY <1>3, <1>4, <1>5, <1>6, WaitingKept DEF Stages

LEMMA EndsKept ==
    ASSUME MetaIndInv, NEW t \in Tasks, Ends(t), Waiting, cycle[t].at # "announce"
    PROVE  MetaIndInv'
<1>1. Shaped BY DEF MetaIndInv
<1>2. Shaped' /\ cycle'[t].at = "idle" /\ cycle'[t].found = FALSE BY <1>1, CycleEnds
<1>3. \A u \in Tasks \ {t} : cycle'[u] = cycle[u] BY <1>1, CycleEnds
<1> QED BY <1>2, <1>3, WaitingKept DEF Stages

LEMMA DecisionsKept == ASSUME MetaIndInv, NEW t \in Tasks, QueryDecisions(t) PROVE MetaIndInv'
<1>1. Shaped BY DEF MetaIndInv
<1>2. GoesTo(t, "think") \/ Ends(t) BY DEF QueryDecisions
<1>3. cycle[t].at = "decisions" /\ Waiting BY DEF QueryDecisions, Running
<1>4. CASE Ends(t) BY <1>3, <1>4, EndsKept
<1>5. CASE GoesTo(t, "think")
  <2>1. Shaped' /\ cycle'[t].at = "think" /\ cycle'[t].found = cycle[t].found
    BY <1>1, <1>5, CycleMoves DEF GoesTo
  <2>2. \A u \in Tasks \ {t} : cycle'[u] = cycle[u] BY <1>1, <1>5, CycleMoves DEF GoesTo
  <2>3. cycle[t].found \in BOOLEAN BY DEF MetaIndInv, MetaTypeOK
  <2> QED BY <1>3, <2>1, <2>2, <2>3, WaitingKept DEF Stages
<1> QED BY <1>2, <1>4, <1>5

LEMMA RepliesKept == ASSUME MetaIndInv, NEW t \in Tasks, ModelReplies(t) PROVE MetaIndInv'
<1>1. PICK reply \in Replies :
         IF IsEmpty(Validated(reply)) \/ torn THEN Ends(t) /\ UNCHANGED torn
         ELSE /\ cycle' = [cycle EXCEPT ![t].at = "save", ![t].update = Validated(reply)]
              /\ torn' = TRUE
  BY DEF ModelReplies
<1>2. /\ cycle[t].at = "think"
      /\ UNCHANGED <<prompt, current_thresholds, started, connected, notices, prompt_config,
                     tuned, unheard>>
  BY DEF ModelReplies, Running
<1>3. CASE IsEmpty(Validated(reply)) \/ torn
  BY <1>1, <1>2, <1>3, EndsKept DEF Waiting
<1>4. CASE ~(IsEmpty(Validated(reply)) \/ torn)
  <2>1. PICK update : update = Validated(reply) OBVIOUS
  <2>2. cycle' = [cycle EXCEPT ![t].at = "save", ![t].update = update] /\ torn' = TRUE
    BY <1>1, <1>4, <2>1
  <2>3. /\ Shaped' /\ cycle'[t].at = "save" /\ cycle'[t].update = update
        /\ cycle'[t].found = cycle[t].found
    BY <2>2 DEF MetaIndInv, Shaped
  <2>4. \A u \in Tasks \ {t} : cycle'[u] = cycle[u] BY <2>2 DEF MetaIndInv, Shaped
  <2>5. MetaTypeOK' BY <1>2, <2>2, <2>3, <2>4 DEF MetaIndInv, MetaTypeOK, Stages
  <2>6. FileIsKnown' BY <1>2 DEF MetaIndInv, FileIsKnown
  <2>7. SmallUpdate(update) BY <2>1, ValidatedIsSmall DEF MetaIndInv, FileIsKnown
  <2>8. SavesAreSmall'
    <3>1. \A v : SmallUpdate(v) => SmallUpdate(v)' BY <1>2, SmallAsBefore
    <3>2. \A u \in Tasks : cycle[u].at = "save" => SmallUpdate(cycle[u].update)
      BY DEF MetaIndInv, SavesAreSmall
    <3> QED BY <1>2, <2>3, <2>4, <2>7, <3>2 DEF SavesAreSmall, SmallUpdate
  <2>9. TuningTakesHold' BY <2>2 DEF TuningTakesHold, Settled
  <2> QED BY <2>3, <2>5, <2>6, <2>8, <2>9 DEF MetaIndInv
<1> QED BY <1>3, <1>4

LEMMA EndSaveKept == ASSUME MetaIndInv, NEW t \in Tasks, EndSave(t) PROVE MetaIndInv'
<1>1. PICK update : update = cycle[t].update OBVIOUS
<1>2. PICK thresholds : thresholds = Merged(prompt.thresholds, update.thresholds) OBVIOUS
<1>3. /\ prompt' = [thresholds |-> thresholds, parts |-> prompt.parts \cup update.parts]
      /\ tuned' = tuned \cup DOMAIN update.thresholds
      /\ torn' = FALSE /\ current_thresholds' = prompt'.thresholds
      /\ UNCHANGED <<started, connected, notices, prompt_config, unheard>>
  BY <1>1, <1>2 DEF EndSave, Reloaded
<1>4. /\ prompt'.thresholds = thresholds /\ prompt'.parts = prompt.parts \cup update.parts
      /\ DOMAIN prompt' = {"thresholds", "parts"}
  BY <1>3
<1>5. SmallUpdate(update) BY <1>1 DEF EndSave, Running, MetaIndInv, SavesAreSmall
<1>6. /\ DOMAIN thresholds = DOMAIN prompt.thresholds \cup DOMAIN update.thresholds
      /\ \A k \in DOMAIN thresholds :
            thresholds[k] = IF k \in DOMAIN update.thresholds THEN update.thresholds[k]
                            ELSE prompt.thresholds[k]
  BY <1>2 DEF Merged
<1>7. /\ Shaped' /\ cycle'[t].at = "announce" /\ cycle'[t].found = cycle[t].found
      /\ \A u \in Tasks \ {t} : cycle'[u] = cycle[u]
  BY CycleMoves DEF MetaIndInv, EndSave, GoesTo
<1>8. MetaTypeOK'
  <2>1. prompt'.parts \subseteq AllowedParts
    BY <1>4, <1>5 DEF MetaIndInv, MetaTypeOK, SmallUpdate
  <2>2. tuned' \subseteq DOMAIN prompt'.thresholds
    BY <1>3, <1>4, <1>6 DEF MetaIndInv, MetaTypeOK
  <2>3. torn' \in BOOLEAN /\ connected' \in BOOLEAN /\ unheard' \in BOOLEAN
    BY <1>3 DEF MetaIndInv, MetaTypeOK
  <2>4. \A u \in Tasks : cycle'[u].at \in Stages /\ cycle'[u].found \in BOOLEAN
    BY <1>7 DEF MetaIndInv, MetaTypeOK, Stages
  <2>5. started' \in 0..MaxLearningCycles /\ notices' \in Nat
    BY <1>3 DEF MetaIndInv, MetaTypeOK
  <2> QED BY <1>4, <2>1, <2>2, <2>3, <2>4, <2>5 DEF MetaTypeOK
<1>9. FileIsKnown'
  <2>1. \A k \in DOMAIN thresholds : thresholds[k] \in Nat
    BY <1>5, <1>6 DEF MetaIndInv, FileIsKnown, SmallUpdate
  <2> QED BY <1>3, <1>4, <2>1 DEF FileIsKnown
<1>10. SavesAreSmall'
  <2>1. \A u \in Tasks : cycle'[u].at # "save" BY <1>7 DEF EndSave, Running
  <2> QED BY <2>1 DEF SavesAreSmall
<1>11. TuningTakesHold'
  <2>1. ~ Settled' BY <1>7 DEF Settled
  <2> QED BY <2>1 DEF TuningTakesHold
<1> QED BY <1>7, <1>8, <1>9, <1>10, <1>11 DEF MetaIndInv

LEMMA SaveFailsKept == ASSUME MetaIndInv, NEW t \in Tasks, SaveFails(t) PROVE MetaIndInv'
BY EndsKept DEF SaveFails, Running

LEMMA ModelFailsKept == ASSUME MetaIndInv, NEW t \in Tasks, ModelFails(t) PROVE MetaIndInv'
BY EndsKept DEF ModelFails, Running

(* Once announced, a change is one the reasoner has still to handle, or it *)
(* is known to be unheard.                                                 *)
LEMMA AnnounceKept == ASSUME MetaIndInv, NEW t \in Tasks, Announce(t) PROVE MetaIndInv'
<1>1. /\ Shaped' /\ cycle'[t].at = "idle" /\ cycle'[t].found = FALSE
      /\ \A u \in Tasks \ {t} : cycle'[u] = cycle[u]
  BY CycleEnds DEF MetaIndInv, Announce
<1>2. UNCHANGED <<prompt, torn, current_thresholds, started, connected, prompt_config, tuned>>
  BY DEF Announce
<1>3. notices \in Nat /\ connected \in BOOLEAN BY DEF MetaIndInv, MetaTypeOK
<1>4. notices' \in Nat /\ unheard' \in BOOLEAN BY <1>3 DEF Announce
<1>5. MetaTypeOK'
  <2>1. \A u \in Tasks : cycle'[u].at \in Stages /\ cycle'[u].found \in BOOLEAN
    BY <1>1 DEF MetaIndInv, MetaTypeOK, Stages
  <2> QED BY <1>2, <1>4, <2>1 DEF MetaIndInv, MetaTypeOK
<1>6. FileIsKnown' BY <1>2 DEF MetaIndInv, FileIsKnown
<1>7. SavesAreSmall' BY <1>1, <1>2 DEF MetaIndInv, SavesAreSmall, SmallUpdate
<1>8. TuningTakesHold'
  <2> SUFFICES ~ Settled' BY DEF TuningTakesHold
  <2>1. CASE connected
    <3>1. notices' # 0 BY <1>3, <2>1 DEF Announce
    <3> QED BY <3>1 DEF Settled
  <2>2. CASE ~connected
    <3>1. unheard' BY <2>2 DEF Announce
    <3> QED BY <3>1 DEF Settled
  <2> QED BY <2>1, <2>2
<1> QED BY <1>1, <1>5, <1>6, <1>7, <1>8 DEF MetaIndInv

LEMMA DisconnectKept == ASSUME MetaIndInv, Disconnect PROVE MetaIndInv'
<1> USE DEF Disconnect
<1>1. MetaTypeOK' BY DEF MetaIndInv, MetaTypeOK
<1>2. Shaped' BY DEF MetaIndInv, Shaped
<1> QED BY <1>1, <1>2, QuietStep DEF Quiet

(* The reasoner takes over the file when it is whole; when it is torn,     *)
(* nothing is settled.                                                     *)
LEMMA HandleKept == ASSUME MetaIndInv, HandleThresholdUpdate PROVE MetaIndInv'
<1>1. UNCHANGED <<prompt, torn, current_thresholds, cycle, started, connected, tuned, unheard>>
  BY DEF HandleThresholdUpdate
<1>2. notices' \in Nat BY DEF HandleThresholdUpdate, MetaIndInv, MetaTypeOK
<1>3. MetaTypeOK' BY <1>1, <1>2 DEF MetaIndInv, MetaTypeOK
<1>4. Shaped' BY <1>1 DEF MetaIndInv, Shaped
<1>5. FileIsKnown' BY <1>1 DEF MetaIndInv, FileIsKnown
<1>6. SavesAreSmall' BY <1>1 DEF MetaIndInv, SavesAreSmall, SmallUpdate
<1>7. TuningTakesHold'
  <2>1. CASE torn
    <3>1. ~ Settled' BY <1>1, <2>1 DEF Settled
    <3> QED BY <3>1 DEF TuningTakesHold
  <2>2. CASE ~torn
    <3>1. prompt_config' = prompt.thresholds BY <2>2 DEF HandleThresholdUpdate, Loaded
    <3>2. tuned \subseteq DOMAIN prompt.thresholds BY DEF MetaIndInv, MetaTypeOK
    <3> QED BY <1>1, <3>1, <3>2 DEF TuningTakesHold
  <2> QED BY <2>1, <2>2
<1> QED BY <1>3, <1>4, <1>5, <1>6, <1>7 DEF MetaIndInv

(* Telemetry and whatever changes nothing of the meta-learner.             *)
LEMMA MetaStutters == ASSUME MetaIndInv, UNCHANGED metaVars PROVE MetaIndInv'
<1>1. Quiet /\ UNCHANGED <<cycle, started, connected>> BY DEF metaVars, Quiet
<1>2. MetaTypeOK' BY <1>1 DEF MetaIndInv, MetaTypeOK, Quiet
<1>3. Shaped' BY <1>1 DEF MetaIndInv, Shaped
<1> QED BY <1>1, <1>2, <1>3, QuietStep

LEMMA MetaStepKept == MetaIndInv /\ MetaNext => MetaIndInv'
<1> SUFFICES ASSUME MetaIndInv, MetaNext PROVE MetaIndInv' OBVIOUS
<1>1. CASE Disconnect BY <1>1, DisconnectKept
<1>2. CASE HandleThresholdUpdate BY <1>2, HandleKept
<1>3. ASSUME NEW t \in Tasks, Learn(t) PROVE MetaIndInv'
  BY <1>3, StartKept, ObservationsKept, DecisionsKept, ModelFailsKept, RepliesKept, EndSaveKept,
     SaveFailsKept, AnnounceKept DEF Learn
<1> QED BY <1>1, <1>2, <1>3 DEF MetaNext

LEMMA TunedStepKept == MetaIndInv /\ [TunedNext]_<<vars, metaVars>> => MetaIndInv'
BY MetaStepKept, MetaStutters DEF TunedNext

(* The prompt file, the thresholds of the meta-learner and the changes it  *)
(* is about to save fit together in every state.                           *)
THEOREM TuningIndHolds == TunedSpec => []MetaIndInv
<1>1. TunedInit => MetaIndInv BY MetaInitially DEF TunedInit
<1>2. MetaIndInv /\ [TunedNext]_<<vars, metaVars>> => MetaIndInv' BY TunedStepKept
<1> QED BY <1>1, <1>2, PTL DEF TunedSpec

(* Type correctness, and that what was saved and announced is what the     *)
(* reasoner works with once nothing is under way.                          *)
THEOREM TuningHolds == TunedSpec => [](MetaTypeOK /\ TuningTakesHold)
<1>1. MetaIndInv => MetaTypeOK /\ TuningTakesHold BY DEF MetaIndInv
<1>2. TunedSpec => []MetaIndInv BY TuningIndHolds
<1> QED BY <1>1, <1>2, PTL

-----------------------------------------------------------------------------
(* What a step does to the file.                                           *)
SmallStep ==
    LET old == prompt.thresholds
        new == prompt'.thresholds
    IN  /\ Cardinality(Changed(old, new)) <= 1
        /\ Changed(old, new) \cap FixedConstraints = {}
        /\ DOMAIN old \subseteq DOMAIN new
        /\ \A k \in DOMAIN old :
              LET change == Max({old[k], new[k]}) - Min({old[k], new[k]})
              IN  100 * change <= MaxChangePercent * old[k]

LEMMA FewChange ==
    ASSUME NEW S, NEW k, S \subseteq {k} PROVE Cardinality(S) <= 1
<1>1. CASE S = {} BY <1>1, FS_EmptySet
<1>2. CASE S = {k} BY <1>2, FS_Singleton
<1> QED BY <1>1, <1>2

LEMMA UnchangedIsSmall == ASSUME MetaIndInv, prompt' = prompt PROVE SmallStep
<1>1. Changed(prompt.thresholds, prompt'.thresholds) = {} BY DEF Changed
<1>2. \A k \in DOMAIN prompt.thresholds : Little(prompt.thresholds[k], prompt.thresholds[k])
  BY UnchangedIsLittle DEF MetaIndInv, FileIsKnown
<1>3. Cardinality({}) <= 1 BY FS_EmptySet
<1>4. DOMAIN prompt.thresholds \subseteq DOMAIN prompt'.thresholds OBVIOUS
<1> QED BY <1>1, <1>2, <1>3, <1>4 DEF SmallStep, Little

LEMMA SaveIsSmall == ASSUME MetaIndInv, NEW t \in Tasks, EndSave(t) PROVE SmallStep
<1>1. PICK old : old = prompt.thresholds OBVIOUS
<1>2. PICK update : update = cycle[t].update OBVIOUS
<1>3. PICK new : new = Merged(old, update.thresholds) OBVIOUS
<1>4. prompt'.thresholds = new BY <1>1, <1>2, <1>3 DEF EndSave
<1>5. SmallUpdate(update) BY <1>2 DEF EndSave, Running, MetaIndInv, SavesAreSmall
<1>6. /\ DOMAIN new = DOMAIN old \cup DOMAIN update.thresholds
      /\ \A k \in DOMAIN new :
            new[k] = IF k \in DOMAIN update.thresholds THEN update.thresholds[k] ELSE old[k]
  BY <1>3 DEF Merged
<1>7. Changed(old, new) \subseteq DOMAIN update.thresholds BY <1>6 DEF Changed
<1>8. Cardinality(Changed(old, new)) <= 1 BY <1>5, <1>7, FewChange DEF SmallUpdate
<1>9. Changed(old, new) \cap FixedConstraints = {} BY <1>5, <1>7 DEF SmallUpdate
<1>10. ASSUME NEW k \in DOMAIN old PROVE Little(old[k], new[k])
  <2>1. old = current_thresholds /\ old[k] \in Nat BY <1>1, <1>10 DEF MetaIndInv, FileIsKnown
  <2>2. CASE k \in DOMAIN update.thresholds
    BY <1>5, <1>6, <1>10, <2>1, <2>2 DEF SmallUpdate
  <2>3. CASE k \notin DOMAIN update.thresholds
    BY <1>6, <1>10, <2>1, <2>3, UnchangedIsLittle
  <2> QED BY <2>2, <2>3
<1> QED BY <1>1, <1>4, <1>6, <1>8, <1>9, <1>10 DEF SmallStep, Little

LEMMA TunedStepIsSmall == MetaIndInv /\ [TunedNext]_<<vars, metaVars>> => SmallStep
<1> SUFFICES ASSUME MetaIndInv, [TunedNext]_<<vars, metaVars>> PROVE SmallStep OBVIOUS
<1>1. CASE UNCHANGED metaVars BY <1>1, UnchangedIsSmall DEF metaVars
<1>2. CASE MetaNext
  <2>1. CASE \E t \in Tasks : EndSave(t) BY <2>1, SaveIsSmall
  <2>2. CASE ~ \E t \in Tasks : EndSave(t)
    <3>1. prompt' = prompt
      BY <1>2, <2>2 DEF MetaNext, Learn, StartCycle, QueryObservations, QueryDecisions, ModelFails,
         ModelReplies, SaveFails, Announce, Waiting, Disconnect, HandleThresholdUpdate
    <3> QED BY <3>1, UnchangedIsSmall
  <2> QED BY <2>1, <2>2
<1> QED BY <1>1, <1>2 DEF TunedNext

(* A save changes one threshold at most, never a fixed constraint, and by  *)
(* no more than the allowed share of what the file holds at that moment.   *)
THEOREM TuningIsSmall == TunedSpec => UpdatesAreSmall
<1>1. MetaIndInv /\ [TunedNext]_<<vars, metaVars>> => [SmallStep]_metaVars
  BY TunedStepIsSmall
<1>2. TunedSpec => []MetaIndInv BY TuningIndHolds
<1>3. TunedSpec => [][TunedNext]_<<vars, metaVars>> BY PTL DEF TunedSpec
<1>4. TunedSpec => [][SmallStep]_metaVars BY <1>1, <1>2, <1>3, PTL
<1> QED BY <1>4 DEF SmallStep, UpdatesAreSmall

-----------------------------------------------------------------------------
(* The indexes of a knowledge base                                         *)

(* An entry is to be found under the key of a field.                       *)
Has(field, key, e) ==
    \/ field = "data_type" /\ key = e.data_type
    \/ field = "tag" /\ key \in e.tags
    \/ field = "source" /\ key = e.source /\ key # ""
    \/ field = "metric_name" /\ key = e.metric_name /\ key # ""

(* The fields are indexed as the entries have them; keywords as the entry  *)
(* had them when it was stored, which its updates in place do not change.  *)
Indexed(E, I) ==
    /\ \A t \in I : \E field, key, id : t = <<field, key, id>>
    /\ \A field, key, id : field # "keyword" =>
          (<<field, key, id>> \in I <=> id \in DOMAIN E /\ Has(field, key, E[id]))
    /\ \A w, id : <<"keyword", w, id>> \in I => id \in DOMAIN E
    /\ \A w : \A id \in DOMAIN E :
          E[id].total_updates <= 1 => (<<"keyword", w, id>> \in I <=> w \in E[id].words)

LEMMA FieldsAre ==
    ASSUME NEW i, NEW e
    PROVE  /\ \A t \in FieldTriples(i, e) : \E field, key, id : t = <<field, key, id>>
           /\ \A field, key, id :
                 <<field, key, id>> \in FieldTriples(i, e) <=> id = i /\ Has(field, key, e)
BY DEF FieldTriples, Has

LEMMA TriplesAre ==
    ASSUME NEW i, NEW e
    PROVE  /\ \A t \in Triples(i, e) : \E field, key, id : t = <<field, key, id>>
           /\ \A field, key, id : field # "keyword" =>
                 (<<field, key, id>> \in Triples(i, e) <=> id = i /\ Has(field, key, e))
           /\ \A w, id : <<"keyword", w, id>> \in Triples(i, e) <=> id = i /\ w \in e.words
<1>1. \A field, key, id :
         <<field, key, id>> \in Triples(i, e) <=>
         \/ <<field, key, id>> \in FieldTriples(i, e)
         \/ field = "keyword" /\ key \in e.words /\ id = i
  BY DEF Triples
<1>2. \A t \in Triples(i, e) : t \in FieldTriples(i, e) \/ \E w : t = <<"keyword", w, i>>
  BY DEF Triples
<1>3. \A key : ~Has("keyword", key, e) BY DEF Has
<1> QED BY <1>1, <1>2, <1>3, FieldsAre

(* Nothing is left of an entry that is taken out of the indexes.           *)
LEMMA UnindexedAre ==
    ASSUME NEW E, NEW I, Indexed(E, I), NEW i \in DOMAIN E
    PROVE  /\ Unindexed(I, i, E[i]) \subseteq I
           /\ \A field, key, id :
                 <<field, key, id>> \in Unindexed(I, i, E[i]) <=> <<field, key, id>> \in I /\ id # i
<1>1. \A t : t \in Unindexed(I, i, E[i]) <=>
             t \in I /\ ~(t \in FieldTriples(i, E[i])) /\ ~(t[1] = "keyword" /\ t[3] = i)
  BY DEF Unindexed
<1>2. ASSUME NEW field, NEW key, NEW id
      PROVE  <<field, key, id>> \in Unindexed(I, i, E[i]) <=> <<field, key, id>> \in I /\ id # i
  <2> PICK t : t = <<field, key, id>> OBVIOUS
  <2>1. t = <<field, key, id>> /\ t[1] = field /\ t[3] = id OBVIOUS
  <2>2. t \in FieldTriples(i, E[i]) <=> id = i /\ Has(field, key, E[i]) BY <2>1, FieldsAre
  <2>3. CASE field = "keyword" BY <1>1, <2>1, <2>2, <2>3 DEF Has
  <2>4. CASE field # "keyword"
    <3>1. t \in I => id \in DOMAIN E /\ Has(field, key, E[id]) BY <2>1, <2>4 DEF Indexed
    <3> QED BY <1>1, <2>1, <2>2, <2>4, <3>1
  <2> QED BY <2>3, <2>4
<1> QED BY <1>1, <1>2

LEMMA StoredIndexed ==
    ASSUME NEW k, NEW i, NEW e, Indexed(k.entries, k.index)
    PROVE  Indexed(EntriesWith(k, i, e), IndexWith(k, i, e))
<1>1. PICK E, I : E = k.entries /\ I = k.index OBVIOUS
<1>2. PICK J : J = IF i \in DOMAIN E THEN Unindexed(I, i, E[i]) ELSE I OBVIOUS
<1>3. IndexWith(k, i, e) = J \cup Triples(i, e) BY <1>1, <1>2 DEF IndexWith
<1>4. PICK F : F = EntriesWith(k, i, e) OBVIOUS
<1>5. /\ DOMAIN F = DOMAIN E \cup {i} /\ F[i] = e
      /\ \A id \in DOMAIN E : id # i => F[id] = E[id]
  BY <1>1, <1>4 DEF EntriesWith
<1>6. Indexed(E, I) BY <1>1
<1>7. J \subseteq I BY <1>2, <1>6, UnindexedAre
<1>8. \A field, key, id : <<field, key, id>> \in J <=> <<field, key, id>> \in I /\ id # i
  <2>1. CASE i \in DOMAIN E BY <1>2, <1>6, <2>1, UnindexedAre
  <2>2. CASE i \notin DOMAIN E
    <3>1. \A field, key, id : <<field, key, id>> \in I => id \in DOMAIN E
      BY <1>6 DEF Indexed
    <3> QED BY <1>2, <2>2, <3>1
  <2> QED BY <2>1, <2>2
<1>9. PICK K : K = J \cup Triples(i, e) OBVIOUS
<1>10. \A t \in K : \E field, key, id : t = <<field, key, id>>
  BY <1>6, <1>7, <1>9, TriplesAre DEF Indexed
<1>11. ASSUME NEW field, NEW key, NEW id, field # "keyword"
       PROVE  <<field, key, id>> \in K <=> id \in DOMAIN F /\ Has(field, key, F[id])
  <2>1. <<field, key, id>> \in I <=> id \in DOMAIN E /\ Has(field, key, E[id])
    BY <1>6, <1>11 DEF Indexed
  <2>2. <<field, key, id>> \in Triples(i, e) <=> id = i /\ Has(field, key, e)
    BY <1>11, TriplesAre
  <2> QED BY <1>5, <1>8, <1>9, <2>1, <2>2
<1>12. \A w, id : <<"keyword", w, id>> \in K <=>
                  (<<"keyword", w, id>> \in I /\ id # i) \/ (id = i /\ w \in e.words)
  BY <1>8, <1>9, TriplesAre
<1>13. \A w, id : <<"keyword", w, id>> \in K => id \in DOMAIN F
  BY <1>5, <1>6, <1>12 DEF Indexed
<1>14. ASSUME NEW w, NEW id \in DOMAIN F, F[id].total_updates <= 1
       PROVE  <<"keyword", w, id>> \in K <=> w \in F[id].words
  <2>1. CASE id = i BY <1>5, <1>12, <2>1
  <2>2. CASE id # i
    <3>1. id \in DOMAIN E /\ F[id] = E[id] BY <1>5, <2>2
    <3>2. <<"keyword", w, id>> \in I <=> w \in E[id].words BY <1>6, <1>14, <3>1 DEF Indexed
    <3> QED BY <1>12, <2>2, <3>1, <3>2
  <2> QED BY <2>1, <2>2
<1>15. Indexed(F, K) BY <1>10, <1>11, <1>13, <1>14 DEF Indexed
<1> QED BY <1>3, <1>4, <1>9, <1>15

LEMMA DeletedIndexed ==
    ASSUME NEW k, NEW i \in DOMAIN k.entries, Indexed(k.entries, k.index)
    PROVE  Indexed([id \in DOMAIN k.entries \ {i} |-> k.entries[id]], IndexWithout(k, i))
<1>1. PICK E, I : E = k.entries /\ I = k.index OBVIOUS
<1>2. PICK K : K = Unindexed(I, i, E[i]) OBVIOUS
<1>3. IndexWithout(k, i) = K BY <1>1, <1>2 DEF IndexWithout
<1>4. PICK F : F = [id \in DOMAIN E \ {i} |-> E[id]] OBVIOUS
<1>5. DOMAIN F = DOMAIN E \ {i} /\ \A id \in DOMAIN F : F[id] = E[id] BY <1>4
<1>6. Indexed(E, I) /\ i \in DOMAIN E BY <1>1
<1>7. /\ K \subseteq I
      /\ \A field, key, id : <<field, key, id>> \in K <=> <<field, key, id>> \in I /\ id # i
  BY <1>2, <1>6, UnindexedAre
<1>8. Indexed(F, K)
  <2>1. \A t \in K : \E field, key, id : t = <<field, key, id>> BY <1>6, <1>7 DEF Indexed
  <2>2. ASSUME NEW field, NEW key, NEW id, field # "keyword"
        PROVE  <<field, key, id>> \in K <=> id \in DOMAIN F /\ Has(field, key, F[id])
    <3>1. <<field, key, id>> \in I <=> id \in DOMAIN E /\ Has(field, key, E[id])
      BY <1>6, <2>2 DEF Indexed
    <3> QED BY <1>5, <1>7, <3>1
  <2>3. \A w, id : <<"keyword", w, id>> \in K => id \in DOMAIN F
    BY <1>5, <1>6, <1>7 DEF Indexed
  <2>4. ASSUME NEW w, NEW id \in DOMAIN F, F[id].total_updates <= 1
        PROVE  <<"keyword", w, id>> \in K <=> w \in F[id].words
    <3>1. id \in DOMAIN E /\ id # i /\ F[id] = E[id] BY <1>5
    <3>2. <<"keyword", w, id>> \in I <=> w \in E[id].words BY <1>6, <2>4, <3>1 DEF Indexed
    <3> QED BY <1>7, <3>1, <3>2
  <2> QED BY <2>1, <2>2, <2>3, <2>4 DEF Indexed
<1> QED BY <1>1, <1>3, <1>4, <1>8

LEMMA EmptyIndexed == Indexed(NoEntries, {})
BY DEF Indexed, NoEntries

(* An update in place, which leaves the indexes alone.                     *)
LEMMA UpdatedIndexed ==
    ASSUME NEW E, NEW I, Indexed(E, I), NEW i \in DOMAIN E, NEW F,
           DOMAIN F = DOMAIN E, \A id \in DOMAIN E : id # i => F[id] = E[id],
           \A field, key : Has(field, key, F[i]) <=> Has(field, key, E[i]),
           ~(F[i].total_updates <= 1)
    PROVE  Indexed(F, I)
<1>1. ASSUME NEW field, NEW key, NEW id, field # "keyword"
      PROVE  <<field, key, id>> \in I <=> id \in DOMAIN F /\ Has(field, key, F[id])
  <2>1. <<field, key, id>> \in I <=> id \in DOMAIN E /\ Has(field, key, E[id])
    BY <1>1 DEF Indexed
  <2>2. CASE id = i BY <2>1, <2>2
  <2>3. CASE id # i BY <2>1, <2>3
  <2> QED BY <2>2, <2>3
<1>2. \A w, id : <<"keyword", w, id>> \in I => id \in DOMAIN F BY DEF Indexed
<1>3. ASSUME NEW w, NEW id \in DOMAIN F, F[id].total_updates <= 1
      PROVE  <<"keyword", w, id>> \in I <=> w \in F[id].words
  <2>1. id # i /\ F[id] = E[id] BY <1>3
  <2> QED BY <1>3, <2>1 DEF Indexed
<1>4. \A t \in I : \E field, key, id : t = <<field, key, id>> BY DEF Indexed
<1> QED BY <1>1, <1>2, <1>3, <1>4 DEF Indexed

-----------------------------------------------------------------------------
(* What a knowledge base is, whatever it has stored.                       *)
KBIs(k) ==
    /\ k = [entries |-> k.entries, index |-> k.index, buffers |-> k.buffers]
    /\ DOMAIN k.entries \subseteq MetricNames \cup DirectIds
    /\ \A id \in DOMAIN k.entries : k.entries[id] \in EntryType
    /\ \A m \in MetricNames : m \in DOMAIN k.entries => k.entries[m].total_updates >= 1
    /\ Indexed(k.entries, k.index)
    /\ DOMAIN k.buffers = MetricNames
    /\ \A m \in MetricNames : k.buffers[m] \in Seq(Nat) /\ Len(k.buffers[m]) <= BufferSize

(* A knowledge base whose entries changed and whose buffers did not.       *)
LEMMA EntriesKept ==
    ASSUME NEW k, KBIs(k), NEW E, NEW I,
           DOMAIN E \subseteq MetricNames \cup DirectIds,
           \A id \in DOMAIN E : E[id] \in EntryType,
           \A m \in MetricNames : m \in DOMAIN E => E[m].total_updates >= 1,
           Indexed(E, I)
    PROVE  KBIs([entries |-> E, index |-> I, buffers |-> k.buffers])
BY DEF KBIs

LEMMA KBStored ==
    ASSUME NEW k, KBIs(k), NEW i \in MetricNames \cup DirectIds, NEW e \in EntryType,
           i \in MetricNames => e.total_updates >= 1
    PROVE  /\ KBIs(Stored(k, i, e))
           /\ Stored(k, i, e).entries = EntriesWith(k, i, e)
           /\ Stored(k, i, e).buffers = k.buffers
<1>1. PICK E, I : E = EntriesWith(k, i, e) /\ I = IndexWith(k, i, e) OBVIOUS
<1>2. Indexed(E, I) BY <1>1, StoredIndexed DEF KBIs
<1>3. /\ DOMAIN E = DOMAIN k.entries \cup {i} /\ E[i] = e
      /\ \A id \in DOMAIN k.entries : id # i => E[id] = k.entries[id]
  BY <1>1 DEF EntriesWith
<1>4. Stored(k, i, e) = [entries |-> E, index |-> I, buffers |-> k.buffers]
  BY <1>1 DEF Stored
<1>5. DOMAIN E \subseteq MetricNames \cup DirectIds BY <1>3 DEF KBIs
<1>6. \A id \in DOMAIN E : E[id] \in EntryType BY <1>3 DEF KBIs
<1>7. \A m \in MetricNames : m \in DOMAIN E => E[m].total_updates >= 1 BY <1>3 DEF KBIs
<1>8. KBIs([entries |-> E, index |-> I, buffers |-> k.buffers])
  BY <1>2, <1>5, <1>6, <1>7, EntriesKept
<1> QED BY <1>1, <1>4, <1>8

LEMMA KBDeleted ==
    ASSUME NEW k, KBIs(k), NEW i \in DOMAIN k.entries
    PROVE  /\ KBIs(Deleted(k, i))
           /\ Deleted(k, i).entries = [id \in DOMAIN k.entries \ {i} |-> k.entries[id]]
           /\ Deleted(k, i).buffers = k.buffers
<1>1. PICK E : E = [id \in DOMAIN k.entries \ {i} |-> k.entries[id]] OBVIOUS
<1>2. PICK I : I = IndexWithout(k, i) OBVIOUS
<1>3. Indexed(E, I) BY <1>1, <1>2, DeletedIndexed DEF KBIs
<1>4. DOMAIN E = DOMAIN k.entries \ {i} /\ \A id \in DOMAIN E : E[id] = k.entries[id] BY <1>1
<1>5. Deleted(k, i) = [entries |-> E, index |-> I, buffers |-> k.buffers]
  BY <1>1, <1>2 DEF Deleted
<1>6. DOMAIN E \subseteq MetricNames \cup DirectIds BY <1>4 DEF KBIs
<1>7. \A id \in DOMAIN E : E[id] \in EntryType BY <1>4 DEF KBIs
<1>8. \A m \in MetricNames : m \in DOMAIN E => E[m].total_updates >= 1 BY <1>4 DEF KBIs
<1>9. KBIs([entries |-> E, index |-> I, buffers |-> k.buffers])
  BY <1>3, <1>6, <1>7, <1>8, EntriesKept
<1> QED BY <1>1, <1>5, <1>9

LEMMA KBCleared == KBIs(Cleared)
<1>1. \A S : <<>> \in Seq(S) OBVIOUS
<1>2. Cleared = [entries |-> NoEntries, index |-> {}, buffers |-> EmptyBuffers] BY DEF Cleared
<1>3. DOMAIN NoEntries = {} BY DEF NoEntries
<1>4. DOMAIN EmptyBuffers = MetricNames /\ \A m \in MetricNames : EmptyBuffers[m] = <<>>
  BY DEF EmptyBuffers
<1>5. Len(<<>>) <= BufferSize BY KnowledgeBaseAssumption
<1> QED BY <1>1, <1>2, <1>3, <1>4, <1>5, EmptyIndexed DEF KBIs

(* The observation of a metric, new or updated in place.                   *)
LEMMA FirstIsEntry ==
    ASSUME NEW m \in MetricNames, NEW w \in Nat \X Nat
    PROVE  /\ FirstObservation(m, w) \in EntryType
           /\ FirstObservation(m, w).window = w
           /\ FirstObservation(m, w).total_updates >= 1
<1>1. m \in STRING BY KnowledgeBaseAssumption
<1>2. /\ {"aggregated", "observation", m} \subseteq STRING /\ {"first", m} \subseteq STRING
      /\ "observation" \in STRING /\ "swim_monitor" \in STRING
  BY <1>1, TextAssumption
<1>3. PICK tags, words : tags = {"aggregated", "observation", m} /\ words = {"first", m} OBVIOUS
<1>4. FirstObservation(m, w) =
         [data_type |-> "observation", tags |-> tags, source |-> "swim_monitor",
          metric_name |-> m, words |-> words, window |-> w, total_updates |-> 1]
  BY <1>3 DEF FirstObservation
<1> QED BY <1>1, <1>2, <1>3, <1>4 DEF EntryType

LEMMA UpdatedIsEntry ==
    ASSUME NEW m \in MetricNames, NEW w \in Nat \X Nat, NEW e \in EntryType, e.total_updates >= 1
    PROVE  /\ UpdatedObservation(e, m, w) \in EntryType
           /\ UpdatedObservation(e, m, w).window = w
           /\ UpdatedObservation(e, m, w).total_updates >= 1
           /\ ~(UpdatedObservation(e, m, w).total_updates <= 1)
           /\ \A field, key : Has(field, key, UpdatedObservation(e, m, w)) <=> Has(field, key, e)
<1>1. m \in STRING BY KnowledgeBaseAssumption
<1>2. PICK u : u = UpdatedObservation(e, m, w) OBVIOUS
<1>3. /\ u.data_type = e.data_type /\ u.tags = e.tags /\ u.source = e.source
      /\ u.metric_name = e.metric_name
      /\ u.window = w /\ u.total_updates = e.total_updates + 1
  BY <1>2 DEF UpdatedObservation, EntryType
<1>4. u \in EntryType
  <2>1. {"updated", m} \subseteq STRING BY <1>1, TextAssumption
  <2>2. PICK words \in SUBSET STRING : words = {"updated", m} BY <2>1
  <2>3. u = [e EXCEPT !.words = words, !.window = w, !.total_updates = @ + 1]
    BY <1>2, <2>2 DEF UpdatedObservation
  <2>4. PICK n \in Nat : n = e.total_updates + 1 BY DEF EntryType
  <2>5. u = [e EXCEPT !.words = words, !.window = w, !.total_updates = n] BY <2>3, <2>4
  <2> QED BY <2>5 DEF EntryType
<1>5. PICK n \in Nat : n = e.total_updates BY DEF EntryType
<1>6. u.total_updates >= 1 /\ ~(u.total_updates <= 1) BY <1>3, <1>5
<1>7. \A field, key : Has(field, key, u) <=> Has(field, key, e) BY <1>3 DEF Has
<1> QED BY <1>2, <1>3, <1>4, <1>6, <1>7

LEMMA KBAggregated ==
    ASSUME NEW k, KBIs(k), NEW m \in MetricNames, NEW w \in Nat \X Nat
    PROVE  /\ KBIs(Aggregated(k, m, w))
           /\ Aggregated(k, m, w).buffers = k.buffers
           /\ DOMAIN Aggregated(k, m, w).entries = DOMAIN k.entries \cup {m}
           /\ Aggregated(k, m, w).entries[m].window = w
           /\ \A id \in DOMAIN k.entries :
                 id # m => Aggregated(k, m, w).entries[id] = k.entries[id]
<1>1. CASE m \in DOMAIN k.entries
  <2>1. PICK e : e = k.entries[m] OBVIOUS
  <2>2. e \in EntryType /\ e.total_updates >= 1 BY <1>1, <2>1 DEF KBIs
  <2>3. PICK u : u = UpdatedObservation(e, m, w) OBVIOUS
  <2>4. /\ u \in EntryType /\ u.window = w /\ u.total_updates >= 1 /\ ~(u.total_updates <= 1)
        /\ \A field, key : Has(field, key, u) <=> Has(field, key, e)
    BY <2>2, <2>3, UpdatedIsEntry
  <2>5. PICK E : E = [k.entries EXCEPT ![m] = u] OBVIOUS
  <2>6. /\ DOMAIN E = DOMAIN k.entries /\ E[m] = u
        /\ \A id \in DOMAIN k.entries : id # m => E[id] = k.entries[id]
    BY <1>1, <2>5
  <2>7. Aggregated(k, m, w) = [entries |-> E, index |-> k.index, buffers |-> k.buffers]
    BY <1>1, <2>1, <2>3, <2>5 DEF Aggregated, KBIs
  <2>8. Indexed(E, k.index) BY <1>1, <2>1, <2>4, <2>6, UpdatedIndexed DEF KBIs
  <2>9. DOMAIN E \subseteq MetricNames \cup DirectIds BY <2>6 DEF KBIs
  <2>10. \A id \in DOMAIN E : E[id] \in EntryType BY <2>4, <2>6 DEF KBIs
  <2>11. \A l \in MetricNames : l \in DOMAIN E => E[l].total_updates >= 1
    BY <2>4, <2>6 DEF KBIs
  <2>12. KBIs([entries |-> E, index |-> k.index, buffers |-> k.buffers])
    BY <2>8, <2>9, <2>10, <2>11, EntriesKept
  <2> QED BY <1>1, <2>4, <2>6, <2>7, <2>12
<1>2. CASE m \notin DOMAIN k.entries
  <2>1. PICK e : e = FirstObservation(m, w) OBVIOUS
  <2>2. e \in EntryType /\ e.window = w /\ e.total_updates >= 1 BY <2>1, FirstIsEntry
  <2>3. Aggregated(k, m, w) = Stored(k, m, e) BY <1>2, <2>1 DEF Aggregated
  <2>4. /\ KBIs(Stored(k, m, e)) /\ Stored(k, m, e).buffers = k.buffers
        /\ Stored(k, m, e).entries = EntriesWith(k, m, e)
    BY <2>2, KBStored
  <2>5. /\ DOMAIN EntriesWith(k, m, e) = DOMAIN k.entries \cup {m}
        /\ EntriesWith(k, m, e)[m] = e
        /\ \A id \in DOMAIN k.entries : id # m => EntriesWith(k, m, e)[id] = k.entries[id]
    BY DEF EntriesWith
  <2> QED BY <2>2, <2>3, <2>4, <2>5
<1> QED BY <1>1, <1>2

(* What raw telemetry makes of the observations: all are as before, or the *)
(* one of its metric has the window of a buffer that was full.             *)
Observed(E, k, m) ==
    IF Len(k.buffers[m]) = BufferSize
    THEN /\ DOMAIN E = DOMAIN k.entries \cup {m}
         /\ E[m].window = Window(k.buffers[m])
         /\ \A id \in DOMAIN k.entries : id # m => E[id] = k.entries[id]
    ELSE E = k.entries

LEMMA NextBufferIs ==
    ASSUME NEW b \in Seq(Nat), Len(b) <= BufferSize, NEW n \in Nat
    PROVE  NextBuffer(b, n) \in Seq(Nat) /\ Len(NextBuffer(b, n)) <= BufferSize
<1>1. BufferSize \in Nat \ {0} BY KnowledgeBaseAssumption
<1>2. CASE Len(b) = BufferSize
  <2>1. <<n>> \in Seq(Nat) /\ Len(<<n>>) = 1 OBVIOUS
  <2> QED BY <1>1, <1>2, <2>1 DEF NextBuffer
<1>3. CASE Len(b) # BufferSize
  <2>1. Append(b, n) \in Seq(Nat) /\ Len(Append(b, n)) = Len(b) + 1 OBVIOUS
  <2>2. Len(b) \in Nat OBVIOUS
  <2> QED BY <1>1, <1>3, <2>1, <2>2 DEF NextBuffer
<1> QED BY <1>2, <1>3

LEMMA KBRaw ==
    ASSUME NEW k, KBIs(k), NEW m \in MetricNames, NEW n \in Nat
    PROVE  /\ KBIs(WithRawTelemetry(k, m, n))
           /\ WithRawTelemetry(k, m, n).buffers
                 = [k.buffers EXCEPT ![m] = NextBuffer(k.buffers[m], n)]
           /\ Observed(WithRawTelemetry(k, m, n).entries, k, m)
<1>1. PICK b : b = k.buffers[m] OBVIOUS
<1>2. b \in Seq(Nat) /\ Len(b) <= BufferSize BY <1>1 DEF KBIs
<1>3. PICK a : a = IF Len(b) = BufferSize THEN Aggregated(k, m, Window(b)) ELSE k OBVIOUS
<1>4. KBIs(a) /\ a.buffers = k.buffers /\ Observed(a.entries, k, m)
  <2>1. CASE Len(b) = BufferSize
    <3>1. Window(b) \in Nat \X Nat BY <1>2, <2>1, KnowledgeBaseAssumption DEF Window
    <3> QED BY <1>1, <1>3, <2>1, <3>1, KBAggregated DEF Observed
  <2>2. CASE Len(b) # BufferSize BY <1>1, <1>3, <2>2 DEF Observed
  <2> QED BY <2>1, <2>2
<1>5. PICK B : B = [k.buffers EXCEPT ![m] = NextBuffer(b, n)] OBVIOUS
<1>6. /\ DOMAIN B = MetricNames /\ B[m] = NextBuffer(b, n)
      /\ \A l \in MetricNames : l # m => B[l] = k.buffers[l]
  BY <1>5 DEF KBIs
<1>7. PICK E, I : E = a.entries /\ I = a.index OBVIOUS
<1>8. a = [entries |-> E, index |-> I, buffers |-> k.buffers] BY <1>4, <1>7 DEF KBIs
<1>9. WithRawTelemetry(k, m, n) = [a EXCEPT !.buffers[m] = NextBuffer(b, n)]
  BY <1>1, <1>3, <1>4 DEF WithRawTelemetry
<1>10. [a EXCEPT !.buffers[m] = NextBuffer(b, n)] = [entries |-> E, index |-> I, buffers |-> B]
  BY <1>5, <1>8
<1>11. KBIs([entries |-> E, index |-> I, buffers |-> B])
  <2>1. NextBuffer(b, n) \in Seq(Nat) /\ Len(NextBuffer(b, n)) <= BufferSize
    BY <1>2, NextBufferIs
  <2>2. \A l \in MetricNames : B[l] \in Seq(Nat) /\ Len(B[l]) <= BufferSize
    BY <1>6, <2>1 DEF KBIs
  <2> QED BY <1>4, <1>6, <1>7, <2>2 DEF KBIs
<1> QED BY <1>1, <1>4, <1>5, <1>7, <1>9, <1>10, <1>11

-----------------------------------------------------------------------------
(* What is found                                                           *)

LEMMA IdsAre ==
    ASSUME Indexed(kb.entries, kb.index), NEW field, NEW key
    PROVE  \A id : id \in Ids(field, key) <=> <<field, key, id>> \in kb.index
<1>1. PICK I : I = kb.index OBVIOUS
<1>2. \A t \in I : \E f, y, i : t = <<f, y, i>> BY <1>1 DEF Indexed
<1>3. ASSUME NEW id, id \in Ids(field, key) PROVE <<field, key, id>> \in I
  <2>1. PICK u \in I : u[1] = field /\ u[2] = key /\ u[3] = id BY <1>1, <1>3 DEF Ids
  <2>2. PICK f, y, i : u = <<f, y, i>> BY <1>2
  <2>3. f = field /\ y = key /\ i = id BY <2>1, <2>2
  <2> QED BY <2>2, <2>3
<1>4. ASSUME NEW id, <<field, key, id>> \in I PROVE id \in Ids(field, key)
  <2> PICK u \in I : u = <<field, key, id>> BY <1>4
  <2>1. u[1] = field /\ u[2] = key /\ u[3] = id OBVIOUS
  <2> QED BY <1>1, <2>1 DEF Ids
<1> QED BY <1>1, <1>3, <1>4

LEMMA FoundAre ==
    ASSUME Indexed(kb.entries, kb.index)
    PROVE  /\ \A key, id : id \in Ids("data_type", key) <=>
                 id \in DOMAIN kb.entries /\ key = kb.entries[id].data_type
           /\ \A key, id : id \in Ids("tag", key) <=>
                 id \in DOMAIN kb.entries /\ key \in kb.entries[id].tags
           /\ \A key, id : id \in Ids("source", key) <=>
                 id \in DOMAIN kb.entries /\ key = kb.entries[id].source /\ key # ""
           /\ \A key, id : id \in Ids("metric_name", key) <=>
                 id \in DOMAIN kb.entries /\ key = kb.entries[id].metric_name /\ key # ""
<1>1. \A field, key, id : field # "keyword" =>
          (<<field, key, id>> \in kb.index <=> id \in DOMAIN kb.entries /\ Has(field, key, kb.entries[id]))
  BY DEF Indexed
<1>2. \A field, key, id : field # "keyword" =>
          (id \in Ids(field, key) <=> id \in DOMAIN kb.entries /\ Has(field, key, kb.entries[id]))
  BY <1>1, IdsAre
<1>3. \A key, id : id \in Ids("data_type", key) <=>
         id \in DOMAIN kb.entries /\ key = kb.entries[id].data_type
  BY <1>2 DEF Has
<1>4. \A key, id : id \in Ids("tag", key) <=>
         id \in DOMAIN kb.entries /\ key \in kb.entries[id].tags
  BY <1>2 DEF Has
<1>5. \A key, id : id \in Ids("source", key) <=>
         id \in DOMAIN kb.entries /\ key = kb.entries[id].source /\ key # ""
  <2>1. \A key, e : Has("source", key, e) <=> key = e.source /\ key # "" BY DEF Has
  <2> QED BY <1>2, <2>1
<1>6. \A key, id : id \in Ids("metric_name", key) <=>
         id \in DOMAIN kb.entries /\ key = kb.entries[id].metric_name /\ key # ""
  <2>1. \A key, e : Has("metric_name", key, e) <=> key = e.metric_name /\ key # ""
    BY DEF Has
  <2> QED BY <1>2, <2>1
<1> QED BY <1>3, <1>4, <1>5, <1>6

(* Narrowing by what an index has for a filter leaves every entry that     *)
(* passes the filter.                                                      *)
LEMMA NarrowedKeeps ==
    ASSUME NEW C, NEW F, NEW id \in C, F # {} => id \in F
    PROVE  id \in Narrowed(C, F)
BY DEF Narrowed

LEMMA NarrowedIsLess == \A C, F : Narrowed(C, F) \subseteq C
BY DEF Narrowed

LEMMA QueriesAre ==
    ASSUME NEW q \in Queries
    PROVE  /\ q.source = {} \/ \E s : q.source = {s}
           /\ q.metric_name = {} \/ \E m : q.metric_name = {m}
BY DEF Queries

LEMMA ScanIsFound ==
    ASSUME Indexed(kb.entries, kb.index), NEW q \in Queries
    PROVE  StructuredQuery(q) = Scan(q)
<1> DEFINE E       == kb.entries
           typed   == IF q.data_types = {} THEN DOMAIN E
                      ELSE DOMAIN E \cap UNION {Ids("data_type", d) : d \in q.data_types}
           tagged  == IF q.tags = {} THEN typed ELSE Narrowed(typed, TaggedAll(q.tags))
           sources == UNION {Ids("source", s) : s \in q.source}
           sourced == Narrowed(tagged, sources)
           names   == UNION {Ids("metric_name", m) : m \in q.metric_name}
           named   == Narrowed(sourced, names)
<1>1. StructuredQuery(q) = {id \in named : MatchesFilters(id, q)} BY DEF StructuredQuery
<1>2. \A id : id \in typed <=>
         id \in DOMAIN E /\ (q.data_types = {} \/ E[id].data_type \in q.data_types)
  <2>1. CASE q.data_types = {} BY <2>1
  <2>2. CASE q.data_types # {}
    <3>1. \A d, id : id \in Ids("data_type", d) <=> id \in DOMAIN E /\ d = E[id].data_type
      BY FoundAre
    <3>2. \A id : id \in UNION {Ids("data_type", d) : d \in q.data_types} <=>
                  \E d \in q.data_types : id \in Ids("data_type", d)
      OBVIOUS
    <3> HIDE DEF E
    <3> QED BY <2>2, <3>1, <3>2
  <2> QED BY <2>1, <2>2
<1>3. ASSUME NEW id \in typed, q.tags # {}, q.tags \subseteq E[id].tags
      PROVE  id \in TaggedAll(q.tags)
  <2>1. id \in DOMAIN E BY <1>2, <1>3
  <2>2. \A t \in q.tags : id \in Ids("tag", t) BY <1>3, <2>1, FoundAre
  <2>3. PICK t \in q.tags : TRUE BY <1>3
  <2>4. id \in {u[3] : u \in kb.index} BY <2>2, <2>3 DEF Ids
  <2> QED BY <2>2, <2>4 DEF TaggedAll
<1>4. ASSUME NEW id \in DOMAIN E, E[id].source \in q.source, sources # {} PROVE id \in sources
  <2>1. PICK s : q.source = {s} BY <1>4, QueriesAre
  <2>2. sources = Ids("source", s) BY <2>1
  <2>3. s # "" /\ E[id].source = s BY <1>4, <2>1, <2>2, FoundAre
  <2> QED BY <2>2, <2>3, FoundAre
<1>5. ASSUME NEW id \in DOMAIN E, E[id].metric_name \in q.metric_name, names # {}
      PROVE  id \in names
  <2>1. PICK m : q.metric_name = {m} BY <1>5, QueriesAre
  <2>2. names = Ids("metric_name", m) BY <2>1
  <2>3. m # "" /\ E[id].metric_name = m BY <1>5, <2>1, <2>2, FoundAre
  <2> QED BY <2>2, <2>3, FoundAre
<1>6. named \subseteq typed BY NarrowedIsLess
<1>7. q.source = {} => sources = {} OBVIOUS
<1>8. q.metric_name = {} => names = {} OBVIOUS
<1>9. \A id : MatchesFilters(id, q) <=>
         /\ q.tags \subseteq E[id].tags
         /\ q.source = {} \/ E[id].source \in q.source
         /\ q.metric_name = {} \/ E[id].metric_name \in q.metric_name
  BY DEF MatchesFilters
<1> HIDE DEF sources, names
<1>10. ASSUME NEW id \in typed, MatchesFilters(id, q) PROVE id \in named
  <2>1. id \in DOMAIN E BY <1>2
  <2>2. id \in tagged BY <1>3, <1>9, <1>10, NarrowedKeeps
  <2>3. id \in sourced BY <1>4, <1>7, <1>9, <1>10, <2>1, <2>2, NarrowedKeeps
  <2> QED BY <1>5, <1>8, <1>9, <1>10, <2>1, <2>3, NarrowedKeeps
<1>11. Scan(q) = {id \in DOMAIN E : /\ q.data_types = {} \/ E[id].data_type \in q.data_types
                                    /\ MatchesFilters(id, q)}
  BY DEF Scan
<1> HIDE DEF typed, named, E
<1> QED BY <1>1, <1>2, <1>6, <1>10, <1>11

LEMMA SearchFinds == Indexed(kb.entries, kb.index) => KeywordSearchFinds
<1> SUFFICES ASSUME Indexed(kb.entries, kb.index) PROVE KeywordSearchFinds OBVIOUS
<1>1. PICK E, I : E = kb.entries /\ I = kb.index OBVIOUS
<1>2. \A ws, id : id \in KeywordIds(ws) <=>
         id \in {t[3] : t \in I} /\ \A w \in ws : <<"keyword", w, id>> \in I
  BY <1>1 DEF KeywordIds
<1>3. \A w, id : <<"keyword", w, id>> \in I => id \in {t[3] : t \in I}
  <2> TAKE w, id
  <2> PICK u : u = <<"keyword", w, id>> OBVIOUS
  <2>1. u[3] = id OBVIOUS
  <2> QED BY <2>1
<1>4. ASSUME NEW ws, ws # {}
      PROVE  \A id : id \in KeywordIds(ws) <=> \A w \in ws : <<"keyword", w, id>> \in I
  BY <1>2, <1>3, <1>4
<1>5. \A w, id : <<"keyword", w, id>> \in I => id \in DOMAIN E BY <1>1 DEF Indexed
<1>6. \A w : \A id \in DOMAIN E :
          E[id].total_updates <= 1 => (<<"keyword", w, id>> \in I <=> w \in E[id].words)
  BY <1>1 DEF Indexed
<1>7. \A ws \in Searches : ws # {} BY DEF Searches
<1>8. ASSUME NEW ws, ws # {}
      PROVE  /\ KeywordIds(ws) \subseteq DOMAIN E
             /\ \A id \in DOMAIN E : E[id].total_updates <= 1 =>
                   (id \in KeywordIds(ws) <=> ws \subseteq E[id].words)
  <2>1. ASSUME NEW id \in KeywordIds(ws) PROVE id \in DOMAIN E
    <3>1. PICK w \in ws : TRUE BY <1>8
    <3>2. <<"keyword", w, id>> \in I BY <1>4, <1>8, <3>1
    <3> QED BY <1>5, <3>2
  <2>2. ASSUME NEW id \in DOMAIN E, E[id].total_updates <= 1
        PROVE  id \in KeywordIds(ws) <=> ws \subseteq E[id].words
    <3>1. \A w : <<"keyword", w, id>> \in I <=> w \in E[id].words BY <1>6, <2>2
    <3> QED BY <1>4, <1>8, <3>1
  <2> QED BY <2>1, <2>2
<1> QED BY <1>1, <1>7, <1>8 DEF KeywordSearchFinds

-----------------------------------------------------------------------------
(* Sequences and what is in them                                           *)

LEMMA LeastNumber ==
    ASSUME NEW T, T \subseteq Nat, T # {}
    PROVE  \E x \in T : \A y \in T : x <= y
<1>1. IsWellFoundedOn({ss \in Nat \X Nat : ss[1] < ss[2]}, Nat)
  BY NatLessThanWellFounded DEF OpToRel
<1>2. PICK x \in T : \A y \in T : ~(<<y, x>> \in {ss \in Nat \X Nat : ss[1] < ss[2]})
  BY <1>1, WFMin
<1>3. \A y \in T : ~(y < x) BY <1>2
<1> QED BY <1>3

LEMMA Upwards ==
    ASSUME NEW S, 0 \in S, \A n \in Nat : n \in S => n + 1 \in S
    PROVE  Nat \subseteq S
<1> SUFFICES ASSUME Nat \ S # {} PROVE FALSE OBVIOUS
<1>1. PICK x \in Nat \ S : \A y \in Nat \ S : x <= y BY LeastNumber
<1>2. x # 0 /\ x - 1 \in Nat BY <1>1
<1>3. x - 1 \in S BY <1>1, <1>2
<1> QED BY <1>1, <1>2, <1>3

LEMMA Elements == ASSUME NEW S, NEW s \in Seq(S) PROVE ToSet(s) \subseteq S
BY ElementOfSeq, LenProperties DEF ToSet

LEMMA ToSetAppend ==
    ASSUME NEW S, NEW s \in Seq(S), NEW x \in S
    PROVE  ToSet(Append(s, x)) = ToSet(s) \cup {x}
<1>1. PICK t \in Seq(S) : t = Append(s, x) BY AppendProperties
<1>2. PICK n \in Nat : n = Len(s) OBVIOUS
<1>3. /\ DOMAIN s = 1..n /\ DOMAIN t = 1..(n + 1) /\ t[n + 1] = x
      /\ \A i \in 1..n : t[i] = s[i]
  BY <1>1, <1>2
<1>4. \A y : y \in ToSet(t) <=> \E i \in 1..(n + 1) : t[i] = y BY <1>3 DEF ToSet
<1>5. \A y : y \in ToSet(s) <=> \E i \in 1..n : s[i] = y BY <1>3 DEF ToSet
<1>6. 1..(n + 1) = 1..n \cup {n + 1} OBVIOUS
<1> QED BY <1>1, <1>3, <1>4, <1>5, <1>6

LEMMA ToSetConcat ==
    ASSUME NEW S, NEW s \in Seq(S), NEW t \in Seq(S)
    PROVE  ToSet(s \o t) = ToSet(s) \cup ToSet(t)
<1>1. PICK n \in Nat, m \in Nat : n = Len(s) /\ m = Len(t) OBVIOUS
<1>2. PICK u \in Seq(S) : u = s \o t BY ConcatProperties
<1>3. /\ DOMAIN s = 1..n /\ DOMAIN t = 1..m /\ DOMAIN u = 1..(n + m)
      /\ \A i \in 1..n : u[i] = s[i]
      /\ \A i \in 1..m : u[n + i] = t[i]
  BY <1>1, <1>2
<1>4. ASSUME NEW y \in ToSet(u) PROVE y \in ToSet(s) \cup ToSet(t)
  <2>1. PICK i \in 1..(n + m) : u[i] = y BY <1>3 DEF ToSet
  <2>2. CASE i <= n BY <1>3, <2>1, <2>2 DEF ToSet
  <2>3. CASE i > n
    <3>1. i - n \in 1..m /\ n + (i - n) = i BY <2>3
    <3> QED BY <1>3, <2>1, <3>1 DEF ToSet
  <2> QED BY <2>2, <2>3
<1>5. ToSet(s) \subseteq ToSet(u) BY <1>3 DEF ToSet
<1>6. ToSet(t) \subseteq ToSet(u) BY <1>3 DEF ToSet
<1> QED BY <1>2, <1>4, <1>5, <1>6

LEMMA ToSetHead ==
    ASSUME NEW S, NEW s \in Seq(S), s # <<>>
    PROVE  /\ Head(s) \in S /\ Tail(s) \in Seq(S) /\ Len(Tail(s)) = Len(s) - 1
           /\ ToSet(s) = {Head(s)} \cup ToSet(Tail(s))
<1>1. PICK n \in Nat : n = Len(s) OBVIOUS
<1>2. PICK t \in Seq(S) : t = Tail(s) BY HeadTailProperties
<1>3. /\ n >= 1 /\ DOMAIN s = 1..n /\ DOMAIN t = 1..(n - 1) /\ Head(s) = s[1]
      /\ \A i \in 1..(n - 1) : t[i] = s[i + 1]
  BY <1>1, <1>2
<1>4. ASSUME NEW y \in ToSet(s) PROVE y \in {Head(s)} \cup ToSet(t)
  <2>1. PICK i \in 1..n : s[i] = y BY <1>3 DEF ToSet
  <2>2. CASE i = 1 BY <1>3, <2>1, <2>2
  <2>3. CASE i # 1
    <3>1. i - 1 \in 1..(n - 1) /\ (i - 1) + 1 = i BY <2>3
    <3> QED BY <1>3, <2>1, <3>1 DEF ToSet
  <2> QED BY <2>2, <2>3
<1>5. {Head(s)} \cup ToSet(t) \subseteq ToSet(s)
  <2>1. \A i \in 1..(n - 1) : i + 1 \in 1..n BY <1>3
  <2> QED BY <1>3, <2>1 DEF ToSet
<1> QED BY <1>1, <1>2, <1>3, <1>4, <1>5, HeadTailProperties

LEMMA ToSetEmpty == ToSet(<<>>) = {}
BY DEF ToSet

LEMMA ToSetOne == \A x : ToSet(<<x>>) = {x}
<1> TAKE x
<1>1. PICK s : s = <<x>> OBVIOUS
<1>2. DOMAIN s = {1} /\ s[1] = x BY <1>1
<1> QED BY <1>1, <1>2 DEF ToSet

Increasing(s) == \A i, j \in DOMAIN s : i < j => s[i] < s[j]
Below(S, T) == \A x \in S, y \in T : x < y

LEMMA IncreasingConcat ==
    ASSUME NEW s \in Seq(Nat), NEW t \in Seq(Nat), Increasing(s), Increasing(t),
           Below(ToSet(s), ToSet(t))
    PROVE  Increasing(s \o t)
<1>1. PICK n \in Nat, m \in Nat : n = Len(s) /\ m = Len(t) OBVIOUS
<1>2. PICK u \in Seq(Nat) : u = s \o t BY ConcatProperties
<1>3. /\ DOMAIN s = 1..n /\ DOMAIN t = 1..m /\ DOMAIN u = 1..(n + m)
      /\ \A i \in 1..n : u[i] = s[i]
      /\ \A i \in 1..m : u[n + i] = t[i]
  BY <1>1, <1>2
<1>4. ASSUME NEW i \in 1..(n + m), NEW j \in 1..(n + m), i < j PROVE u[i] < u[j]
  <2>1. \A l \in 1..(n + m) : l > n => l - n \in 1..m /\ u[l] = t[l - n]
    <3> TAKE l \in 1..(n + m)
    <3>1. l > n => l - n \in 1..m /\ n + (l - n) = l OBVIOUS
    <3> QED BY <1>3, <3>1
  <2>2. CASE j <= n
    <3>1. i \in 1..n /\ j \in 1..n BY <1>4, <2>2
    <3> QED BY <1>3, <1>4, <3>1 DEF Increasing
  <2>3. CASE i > n
    <3>1. i - n \in 1..m /\ j - n \in 1..m /\ i - n < j - n BY <1>4, <2>3
    <3>2. j > n BY <1>4, <2>3
    <3>3. u[i] = t[i - n] /\ u[j] = t[j - n] BY <2>1, <2>3, <3>2
    <3> QED BY <1>3, <3>1, <3>3 DEF Increasing
  <2>4. CASE i <= n /\ j > n
    <3>1. u[i] = s[i] /\ u[j] = t[j - n] /\ j - n \in 1..m /\ i \in 1..n
      BY <1>3, <2>1, <2>4
    <3> QED BY <1>3, <3>1 DEF Below, ToSet
  <2> QED BY <2>2, <2>3, <2>4
<1> QED BY <1>2, <1>3, <1>4 DEF Increasing

LEMMA IncreasingAppend ==
    ASSUME NEW s \in Seq(Nat), NEW x \in Nat, Increasing(s), Below(ToSet(s), {x})
    PROVE  Increasing(Append(s, x))
<1>1. PICK n \in Nat : n = Len(s) OBVIOUS
<1>2. PICK t \in Seq(Nat) : t = Append(s, x) BY AppendProperties
<1>3. /\ DOMAIN s = 1..n /\ DOMAIN t = 1..(n + 1) /\ t[n + 1] = x
      /\ \A i \in 1..n : t[i] = s[i]
  BY <1>1, <1>2
<1>4. \A i \in 1..n : s[i] < x BY <1>3 DEF Below, ToSet
<1>5. ASSUME NEW i \in 1..(n + 1), NEW j \in 1..(n + 1), i < j PROVE t[i] < t[j]
  <2>1. i \in 1..n BY <1>5
  <2>2. CASE j \in 1..n BY <1>3, <1>5, <2>1, <2>2 DEF Increasing
  <2>3. CASE j = n + 1 BY <1>3, <1>4, <2>1, <2>3
  <2> QED BY <2>2, <2>3
<1> QED BY <1>2, <1>3, <1>5 DEF Increasing

LEMMA IncreasingTail ==
    ASSUME NEW s \in Seq(Nat), s # <<>>, Increasing(s)
    PROVE  Increasing(Tail(s)) /\ Below({Head(s)}, ToSet(Tail(s)))
<1>1. PICK n \in Nat : n = Len(s) OBVIOUS
<1>2. PICK t \in Seq(Nat) : t = Tail(s) BY HeadTailProperties
<1>3. /\ n >= 1 /\ DOMAIN s = 1..n /\ DOMAIN t = 1..(n - 1) /\ Head(s) = s[1]
      /\ \A i \in 1..(n - 1) : t[i] = s[i + 1]
  BY <1>1, <1>2
<1>4. ASSUME NEW i \in 1..(n - 1), NEW j \in 1..(n - 1), i < j PROVE t[i] < t[j]
  <2>1. i + 1 \in 1..n /\ j + 1 \in 1..n /\ i + 1 < j + 1 BY <1>3, <1>4
  <2> QED BY <1>3, <2>1 DEF Increasing
<1>5. ASSUME NEW i \in 1..(n - 1) PROVE s[1] < t[i]
  <2>1. 1 \in 1..n /\ i + 1 \in 1..n /\ 1 < i + 1 BY <1>3
  <2> QED BY <1>3, <2>1 DEF Increasing
<1> QED BY <1>2, <1>3, <1>4, <1>5 DEF Increasing, Below, ToSet

-----------------------------------------------------------------------------
(* Batches on their way, and how often an event is in a stream.            *)
InBatches(bs) == UNION {ToSet(bs[i]) : i \in DOMAIN bs}

InTurn(bs) ==
    \A i \in DOMAIN bs :
       /\ Increasing(bs[i])
       /\ \A j \in DOMAIN bs : i < j => Below(ToSet(bs[i]), ToSet(bs[j]))

Sequences == Seq(Nat)

LEMMA BatchesAppend ==
    ASSUME NEW bs \in Seq(Sequences), NEW b \in Sequences
    PROVE  /\ InBatches(Append(bs, b)) = InBatches(bs) \cup ToSet(b)
           /\ InTurn(bs) /\ Increasing(b) /\ Below(InBatches(bs), ToSet(b)) =>
                 InTurn(Append(bs, b))
<1>1. PICK n \in Nat : n = Len(bs) OBVIOUS
<1>2. PICK cs \in Seq(Sequences) : cs = Append(bs, b) BY AppendProperties
<1>3. /\ DOMAIN bs = 1..n /\ DOMAIN cs = 1..(n + 1) /\ cs[n + 1] = b
      /\ \A i \in 1..n : cs[i] = bs[i]
  BY <1>1, <1>2
<1>4. 1..(n + 1) = 1..n \cup {n + 1} OBVIOUS
<1>5. InBatches(cs) = InBatches(bs) \cup ToSet(b) BY <1>3, <1>4 DEF InBatches
<1>6. ASSUME InTurn(bs), Increasing(b), Below(InBatches(bs), ToSet(b)) PROVE InTurn(cs)
  <2>1. ASSUME NEW i \in 1..(n + 1) PROVE Increasing(cs[i])
    BY <1>3, <1>4, <1>6 DEF InTurn
  <2>2. ASSUME NEW i \in 1..(n + 1), NEW j \in 1..(n + 1), i < j
        PROVE  Below(ToSet(cs[i]), ToSet(cs[j]))
    <3>1. i \in 1..n BY <2>2
    <3>2. CASE j \in 1..n BY <1>3, <1>6, <2>2, <3>1, <3>2 DEF InTurn
    <3>3. CASE j = n + 1
      <4>1. cs[i] = bs[i] /\ cs[j] = b BY <1>3, <3>1, <3>3
      <4>2. ToSet(bs[i]) \subseteq InBatches(bs) BY <1>3, <3>1 DEF InBatches
      <4> QED BY <1>6, <4>1, <4>2 DEF Below
    <3> QED BY <3>2, <3>3
  <2> QED BY <1>3, <2>1, <2>2 DEF InTurn
<1> QED BY <1>2, <1>5, <1>6

LEMMA BatchesTail ==
    ASSUME NEW bs \in Seq(Sequences), bs # <<>>
    PROVE  /\ Head(bs) \in Sequences /\ Tail(bs) \in Seq(Sequences)
           /\ InBatches(bs) = ToSet(Head(bs)) \cup InBatches(Tail(bs))
           /\ InTurn(bs) =>
                 /\ Increasing(Head(bs)) /\ InTurn(Tail(bs))
                 /\ Below(ToSet(Head(bs)), InBatches(Tail(bs)))
<1>1. PICK n \in Nat : n = Len(bs) OBVIOUS
<1>2. PICK cs \in Seq(Sequences) : cs = Tail(bs) BY HeadTailProperties
<1>3. /\ n >= 1 /\ DOMAIN bs = 1..n /\ DOMAIN cs = 1..(n - 1) /\ Head(bs) = bs[1]
      /\ \A i \in 1..(n - 1) : cs[i] = bs[i + 1]
  BY <1>1, <1>2
<1>4. \A i \in 1..(n - 1) : i + 1 \in 1..n /\ 1 < i + 1 /\ cs[i] = bs[i + 1] BY <1>3
<1>5. InBatches(bs) = ToSet(Head(bs)) \cup InBatches(cs)
  <2>1. ASSUME NEW y \in InBatches(bs) PROVE y \in ToSet(Head(bs)) \cup InBatches(cs)
    <3>1. PICK i \in 1..n : y \in ToSet(bs[i]) BY <1>3, <2>1 DEF InBatches
    <3>2. CASE i = 1 BY <1>3, <3>1, <3>2
    <3>3. CASE i # 1
      <4>1. i - 1 \in 1..(n - 1) /\ (i - 1) + 1 = i BY <3>3
      <4> QED BY <1>3, <3>1, <4>1 DEF InBatches
    <3> QED BY <3>2, <3>3
  <2>2. ToSet(Head(bs)) \subseteq InBatches(bs)
    <3>1. 1 \in DOMAIN bs BY <1>3
    <3> QED BY <1>3, <3>1 DEF InBatches
  <2>3. InBatches(cs) \subseteq InBatches(bs) BY <1>3, <1>4 DEF InBatches
  <2> QED BY <2>1, <2>2, <2>3
<1>6. ASSUME InTurn(bs)
      PROVE  Increasing(bs[1]) /\ InTurn(cs) /\ Below(ToSet(bs[1]), InBatches(cs))
  <2>1. 1 \in 1..n BY <1>3
  <2>2. ASSUME NEW i \in 1..(n - 1) PROVE Below(ToSet(bs[1]), ToSet(cs[i]))
    BY <1>3, <1>4, <1>6, <2>1 DEF InTurn
  <2>3. ASSUME NEW i \in 1..(n - 1) PROVE Increasing(cs[i])
    BY <1>3, <1>4, <1>6 DEF InTurn
  <2>4. ASSUME NEW i \in 1..(n - 1), NEW j \in 1..(n - 1), i < j
        PROVE  Below(ToSet(cs[i]), ToSet(cs[j]))
    <3>1. i + 1 < j + 1 BY <2>4
    <3> QED BY <1>3, <1>4, <1>6, <3>1 DEF InTurn
  <2>5. Below(ToSet(bs[1]), InBatches(cs)) BY <1>3, <2>2 DEF Below, InBatches
  <2> QED BY <1>3, <1>6, <2>1, <2>3, <2>4, <2>5 DEF InTurn
<1> QED BY <1>2, <1>3, <1>5, <1>6, HeadTailProperties

LEMMA NoBatches == InBatches(<<>>) = {} /\ InTurn(<<>>)
BY DEF InBatches, InTurn

Spots(s, n) == {i \in DOMAIN s : s[i] = n}
Times(s, n) == Cardinality(Spots(s, n))

LEMMA TimesIsNumber ==
    ASSUME NEW s \in Sequences, NEW n
    PROVE  /\ Times(s, n) \in Nat /\ IsFiniteSet(Spots(s, n))
           /\ n \notin ToSet(s) => Times(s, n) = 0
<1>1. PICK l \in Nat : l = Len(s) BY DEF Sequences
<1>2. DOMAIN s = 1..l BY <1>1 DEF Sequences
<1>3. IsFiniteSet(1..l) BY FS_Interval
<1>4. Spots(s, n) \subseteq 1..l BY <1>2 DEF Spots
<1>5. IsFiniteSet(Spots(s, n)) BY <1>3, <1>4, FS_Subset
<1>6. Times(s, n) \in Nat BY <1>5, FS_CardinalityType DEF Times
<1>7. ASSUME n \notin ToSet(s) PROVE Times(s, n) = 0
  <2>1. Spots(s, n) = {} BY <1>7 DEF Spots, ToSet
  <2> QED BY <2>1, FS_EmptySet DEF Times
<1> QED BY <1>5, <1>6, <1>7

LEMMA TimesAppend ==
    ASSUME NEW s \in Sequences, NEW x \in Nat, NEW n
    PROVE  Times(Append(s, x), n) = IF x = n THEN Times(s, n) + 1 ELSE Times(s, n)
<1>1. PICK l \in Nat : l = Len(s) BY DEF Sequences
<1>2. PICK t \in Sequences : t = Append(s, x) BY AppendProperties DEF Sequences
<1>3. /\ DOMAIN s = 1..l /\ DOMAIN t = 1..(l + 1) /\ t[l + 1] = x
      /\ \A i \in 1..l : t[i] = s[i]
  BY <1>1, <1>2 DEF Sequences
<1>4. 1..(l + 1) = 1..l \cup {l + 1} /\ l + 1 \notin 1..l OBVIOUS
<1>5. CASE x = n
  <2>1. Spots(t, n) = Spots(s, n) \cup {l + 1} BY <1>3, <1>4, <1>5 DEF Spots
  <2>2. l + 1 \notin Spots(s, n) BY <1>3, <1>4 DEF Spots
  <2>3. Cardinality(Spots(t, n)) = Cardinality(Spots(s, n)) + 1
    BY <2>1, <2>2, TimesIsNumber, FS_AddElement
  <2> QED BY <1>2, <1>5, <2>3 DEF Times
<1>6. CASE x # n
  <2>1. Spots(t, n) = Spots(s, n) BY <1>3, <1>4, <1>6 DEF Spots
  <2> QED BY <1>2, <1>6, <2>1 DEF Times
<1> QED BY <1>5, <1>6

LEMMA TimesTail ==
    ASSUME NEW s \in Sequences, s # <<>>, NEW n
    PROVE  Times(s, n) = IF Head(s) = n THEN Times(Tail(s), n) + 1 ELSE Times(Tail(s), n)
<1>1. PICK l \in Nat : l = Len(s) BY DEF Sequences
<1>2. PICK t \in Sequences : t = Tail(s) BY HeadTailProperties DEF Sequences
<1>3. /\ l >= 1 /\ DOMAIN s = 1..l /\ DOMAIN t = 1..(l - 1) /\ Head(s) = s[1]
      /\ \A i \in 1..(l - 1) : t[i] = s[i + 1]
  BY <1>1, <1>2 DEF Sequences
<1>4. PICK A, B : A = Spots(t, n) /\ B = Spots(s, n) \ {1} OBVIOUS
<1>5. A \subseteq 1..(l - 1) /\ B \subseteq 2..l
  <2>1. \A i \in 1..l : i # 1 => i \in 2..l OBVIOUS
  <2> QED BY <1>3, <1>4, <2>1 DEF Spots
<1>6. PICK f : f = [i \in A |-> i + 1] OBVIOUS
<1>7. f \in Bijection(A, B)
  <2>1. f \in [A -> B]
    <3>1. ASSUME NEW i \in A PROVE i + 1 \in B
      <4>1. i \in 1..(l - 1) /\ t[i] = n BY <1>3, <1>4, <3>1 DEF Spots
      <4>2. i + 1 \in 1..l /\ i + 1 # 1 /\ s[i + 1] = n BY <1>3, <4>1
      <4> QED BY <1>3, <1>4, <4>2 DEF Spots
    <3> QED BY <1>6, <3>1
  <2>2. \A i, j \in A : f[i] = f[j] => i = j BY <1>5, <1>6
  <2>3. ASSUME NEW j \in B PROVE \E i \in A : f[i] = j
    <3>1. j \in 2..l /\ s[j] = n BY <1>3, <1>4, <1>5, <2>3 DEF Spots
    <3>2. j - 1 \in 1..(l - 1) /\ (j - 1) + 1 = j BY <3>1
    <3>3. t[j - 1] = n BY <1>3, <3>1, <3>2
    <3>4. j - 1 \in A BY <1>3, <1>4, <3>2, <3>3 DEF Spots
    <3> QED BY <1>6, <3>2, <3>4
  <2> QED BY <2>1, <2>2, <2>3, Fun_IsBij
<1>8. ExistsBijection(A, B) BY <1>7 DEF ExistsBijection
<1>9. IsFiniteSet(A) BY <1>2, <1>4, TimesIsNumber
<1>10. IsFiniteSet(B) /\ Cardinality(B) = Cardinality(A) BY <1>8, <1>9, FS_Bijection
<1>11. CASE Head(s) = n
  <2>1. Spots(s, n) = B \cup {1} /\ 1 \notin B BY <1>3, <1>4, <1>11 DEF Spots
  <2>2. Cardinality(Spots(s, n)) = Cardinality(B) + 1 BY <1>10, <2>1, FS_AddElement
  <2> QED BY <1>2, <1>4, <1>10, <1>11, <2>2 DEF Times
<1>12. CASE Head(s) # n
  <2>1. Spots(s, n) = B BY <1>3, <1>4, <1>12 DEF Spots
  <2> QED BY <1>2, <1>4, <1>10, <1>12, <2>1 DEF Times
<1> QED BY <1>11, <1>12

-----------------------------------------------------------------------------
(* A batch of events, one after the other                                  *)

Steps(g, b, n) == g = [i \in 0..n |-> IF i = 0 THEN kb ELSE WithEvent(g[i - 1], b[i])]

LEMMA StepsExist == ASSUME NEW b PROVE \A n \in Nat : \E g : Steps(g, b, n)
<1> DEFINE S == {n \in Nat : \E g : Steps(g, b, n)}
<1>1. 0 \in S
  <2>1. PICK g : g = [i \in 0..0 |-> kb] OBVIOUS
  <2>2. \A i \in 0..0 : i = 0 OBVIOUS
  <2>3. g = [i \in 0..0 |-> IF i = 0 THEN kb ELSE WithEvent(g[i - 1], b[i])] BY <2>1, <2>2
  <2> QED BY <2>3 DEF Steps
<1>2. ASSUME NEW n \in Nat, n \in S PROVE n + 1 \in S
  <2>1. PICK g : Steps(g, b, n) BY <1>2
  <2>2. PICK h : h = [i \in 0..(n + 1) |-> IF i = n + 1 THEN WithEvent(g[n], b[n + 1]) ELSE g[i]]
    OBVIOUS
  <2>3. \A i \in 0..n : h[i] = g[i] BY <2>2
  <2>4. \A i \in 0..n : g[i] = IF i = 0 THEN kb ELSE WithEvent(g[i - 1], b[i])
    BY <2>1 DEF Steps
  <2>5. ASSUME NEW i \in 0..(n + 1)
        PROVE  h[i] = IF i = 0 THEN kb ELSE WithEvent(h[i - 1], b[i])
    <3>1. CASE i = n + 1
      <4>1. h[i] = WithEvent(g[n], b[n + 1]) BY <2>2, <3>1
      <4>2. i # 0 /\ i - 1 = n /\ h[n] = g[n] BY <2>3, <3>1
      <4> QED BY <3>1, <4>1, <4>2
    <3>2. CASE i # n + 1
      <4>1. i \in 0..n /\ (i # 0 => i - 1 \in 0..n) BY <3>2
      <4> QED BY <2>3, <2>4, <4>1
    <3> QED BY <3>1, <3>2
  <2>6. h = [i \in 0..(n + 1) |-> IF i = 0 THEN kb ELSE WithEvent(h[i - 1], b[i])]
    BY <2>2, <2>5
  <2> QED BY <2>6 DEF Steps
<1> HIDE DEF S
<1>3. Nat \subseteq S BY <1>1, <1>2, Upwards
<1> QED BY <1>3 DEF S

LEMMA AfterIs ==
    ASSUME NEW b \in Sequences
    PROVE  \E g : Steps(g, b, Len(b)) /\ After(b) = g[Len(b)]
<1>1. PICK n \in Nat : n = Len(b) BY DEF Sequences
<1> DEFINE after == CHOOSE g : g = [i \in 0..n |-> IF i = 0 THEN kb ELSE WithEvent(g[i - 1], b[i])]
<1>2. Steps(after, b, n) BY StepsExist DEF Steps
<1>3. After(b) = after[n] BY <1>1 DEF After
<1> QED BY <1>1, <1>2, <1>3

(* What the knowledge base holds of an event, and in which order.          *)
KBIn(k, S) ==
    \A m \in MetricNames :
       /\ ToSet(k.buffers[m]) \subseteq S
       /\ m \in DOMAIN k.entries => k.entries[m].window[2] \in S

KBInTurn(k) ==
    \A m \in MetricNames :
       /\ Increasing(k.buffers[m])
       /\ m \in DOMAIN k.entries =>
             /\ k.entries[m].window[1] <= k.entries[m].window[2]
             /\ Below({k.entries[m].window[2]}, ToSet(k.buffers[m]))

KBBefore(k, S) ==
    \A m \in MetricNames :
       /\ Below(ToSet(k.buffers[m]), S)
       /\ m \in DOMAIN k.entries => Below({k.entries[m].window[2]}, S)

Follows(l, k) ==
    \A m \in MetricNames : m \in DOMAIN k.entries =>
       /\ m \in DOMAIN l.entries
       /\ \/ l.entries[m].window = k.entries[m].window
          \/ l.entries[m].window[1] > k.entries[m].window[2]

LEMMA EndsOfBuffer ==
    ASSUME NEW b \in Seq(Nat), Len(b) = BufferSize
    PROVE  /\ Window(b)[1] \in ToSet(b) /\ Window(b)[2] \in ToSet(b)
           /\ Increasing(b) => Window(b)[1] <= Window(b)[2]
<1>1. PICK l \in Nat : l = Len(b) OBVIOUS
<1>2. l >= 1 BY <1>1, KnowledgeBaseAssumption
<1>3. DOMAIN b = 1..l /\ 1 \in 1..l /\ l \in 1..l BY <1>1, <1>2
<1>4. b[1] \in Nat /\ b[l] \in Nat BY <1>3
<1>5. b[1] \in ToSet(b) /\ b[l] \in ToSet(b) BY <1>3 DEF ToSet
<1>6. ASSUME Increasing(b) PROVE b[1] <= b[l]
  <2>1. CASE l = 1 BY <1>4, <2>1
  <2>2. CASE l # 1
    <3>1. 1 < l BY <1>2, <2>2
    <3> QED BY <1>3, <1>4, <1>6, <3>1 DEF Increasing
  <2> QED BY <2>1, <2>2
<1>7. Window(b)[1] = b[1] /\ Window(b)[2] = b[l] BY <1>1 DEF Window
<1> QED BY <1>5, <1>6, <1>7

LEMMA EventStored ==
    ASSUME metric \in Seq(MetricNames), NEW k, KBIs(k), NEW n \in Events
    PROVE  /\ KBIs(WithEvent(k, n))
           /\ KBIn(k, Events) => KBIn(WithEvent(k, n), Events)
<1>1. n \in Nat /\ metric[n] \in MetricNames BY DEF Events
<1>2. CASE n \notin Numeric BY <1>2 DEF WithEvent
<1>3. CASE n \in Numeric
  <2>1. PICK m \in MetricNames : m = metric[n] BY <1>1
  <2>2. PICK l : l = WithRawTelemetry(k, m, n) OBVIOUS
  <2>3. WithEvent(k, n) = l BY <1>3, <2>1, <2>2 DEF WithEvent
  <2>4. /\ KBIs(l) /\ l.buffers = [k.buffers EXCEPT ![m] = NextBuffer(k.buffers[m], n)]
        /\ Observed(l.entries, k, m)
    BY <1>1, <2>2, KBRaw
  <2>5. DOMAIN k.buffers = MetricNames /\ k.buffers[m] \in Seq(Nat) BY DEF KBIs
  <2>6. PICK b \in Seq(Nat) : b = k.buffers[m] BY <2>5
  <2>7. ToSet(NextBuffer(b, n)) \subseteq ToSet(b) \cup {n}
    BY <1>1, ToSetAppend, ToSetOne DEF NextBuffer
  <2>8. ASSUME KBIn(k, Events) PROVE KBIn(l, Events)
    <3>1. \A j \in MetricNames : l.buffers[j] = IF j = m THEN NextBuffer(b, n) ELSE k.buffers[j]
      BY <2>4, <2>5, <2>6
    <3>2. \A j \in MetricNames : ToSet(l.buffers[j]) \subseteq Events
      BY <2>6, <2>7, <2>8, <3>1 DEF KBIn
    <3>3. CASE Len(b) = BufferSize
      <4>1. Window(b)[2] \in Events BY <2>6, <2>8, <3>3, EndsOfBuffer DEF KBIn
      <4>2. /\ DOMAIN l.entries = DOMAIN k.entries \cup {m} /\ l.entries[m].window = Window(b)
            /\ \A id \in DOMAIN k.entries : id # m => l.entries[id] = k.entries[id]
        BY <2>4, <2>6, <3>3 DEF Observed
      <4>3. \A j \in MetricNames : j \in DOMAIN l.entries => l.entries[j].window[2] \in Events
        BY <2>8, <4>1, <4>2 DEF KBIn
      <4> QED BY <3>2, <4>3 DEF KBIn
    <3>4. CASE Len(b) # BufferSize
      <4>1. l.entries = k.entries BY <2>4, <2>6, <3>4 DEF Observed
      <4> QED BY <2>8, <3>2, <4>1 DEF KBIn
    <3> QED BY <3>3, <3>4
  <2> QED BY <2>3, <2>4, <2>8
<1> QED BY <1>2, <1>3

LEMMA BeforeLess == ASSUME NEW k, NEW S, NEW T, T \subseteq S, KBBefore(k, S) PROVE KBBefore(k, T)
BY DEF KBBefore, Below

(* An event that comes after all the knowledge base has seen.              *)
LEMMA EventInTurn ==
    ASSUME metric \in Seq(MetricNames), NEW k, KBIs(k), NEW n \in Events,
           KBInTurn(k), KBBefore(k, {n})
    PROVE  /\ KBInTurn(WithEvent(k, n)) /\ Follows(WithEvent(k, n), k)
           /\ \A S : KBBefore(k, S) /\ Below({n}, S) => KBBefore(WithEvent(k, n), S)
<1>1. n \in Nat /\ metric[n] \in MetricNames BY DEF Events
<1>2. CASE n \notin Numeric BY <1>2 DEF WithEvent, Follows
<1>3. CASE n \in Numeric
  <2>1. PICK m \in MetricNames : m = metric[n] BY <1>1
  <2>2. PICK l : l = WithRawTelemetry(k, m, n) OBVIOUS
  <2>3. WithEvent(k, n) = l BY <1>3, <2>1, <2>2 DEF WithEvent
  <2>4. /\ KBIs(l) /\ l.buffers = [k.buffers EXCEPT ![m] = NextBuffer(k.buffers[m], n)]
        /\ Observed(l.entries, k, m)
    BY <1>1, <2>2, KBRaw
  <2>5. DOMAIN k.buffers = MetricNames /\ k.buffers[m] \in Seq(Nat) BY DEF KBIs
  <2>6. PICK b \in Seq(Nat) : b = k.buffers[m] BY <2>5
  <2>7. \A j \in MetricNames : l.buffers[j] = IF j = m THEN NextBuffer(b, n) ELSE k.buffers[j]
    BY <2>4, <2>5, <2>6
  <2>8. /\ Increasing(b) /\ Below(ToSet(b), {n})
        /\ m \in DOMAIN k.entries =>
              /\ k.entries[m].window[1] <= k.entries[m].window[2]
              /\ Below({k.entries[m].window[2]}, ToSet(b))
              /\ Below({k.entries[m].window[2]}, {n})
    BY <2>6 DEF KBInTurn, KBBefore
  <2>9. CASE Len(b) = BufferSize
    <3>1. l.buffers[m] = <<n>> BY <2>7, <2>9 DEF NextBuffer
    <3>2. /\ DOMAIN l.entries = DOMAIN k.entries \cup {m} /\ l.entries[m].window = Window(b)
          /\ \A id \in DOMAIN k.entries : id # m => l.entries[id] = k.entries[id]
      BY <2>4, <2>6, <2>9 DEF Observed
    <3>3. /\ Window(b)[1] \in ToSet(b) /\ Window(b)[2] \in ToSet(b)
          /\ Window(b)[1] <= Window(b)[2]
      BY <2>8, <2>9, EndsOfBuffer
    <3>4. PICK v, w : v = Window(b)[1] /\ w = Window(b)[2] OBVIOUS
    <3>5. Increasing(<<n>>) BY DEF Increasing
    <3>6. ToSet(<<n>>) = {n} BY ToSetOne
    <3>7. KBInTurn(l)
      <4>1. ASSUME NEW j \in MetricNames, j # m
            PROVE  /\ Increasing(l.buffers[j])
                   /\ j \in DOMAIN l.entries =>
                        /\ l.entries[j].window[1] <= l.entries[j].window[2]
                        /\ Below({l.entries[j].window[2]}, ToSet(l.buffers[j]))
        BY <2>7, <3>2, <4>1 DEF KBInTurn
      <4>2. Below({w}, {n}) BY <2>8, <3>3, <3>4 DEF Below
      <4> QED BY <3>1, <3>2, <3>3, <3>4, <3>5, <3>6, <4>1, <4>2 DEF KBInTurn
    <3>8. Follows(l, k)
      <4>1. ASSUME m \in DOMAIN k.entries PROVE v > k.entries[m].window[2]
        BY <2>8, <3>3, <3>4, <4>1, Elements DEF Below
      <4> QED BY <3>2, <3>4, <4>1 DEF Follows
    <3>9. ASSUME NEW S, KBBefore(k, S), Below({n}, S) PROVE KBBefore(l, S)
      <4>1. Below(ToSet(b), S) BY <2>6, <3>9 DEF KBBefore
      <4>2. Below({w}, S) BY <3>3, <3>4, <4>1 DEF Below
      <4>3. ASSUME NEW j \in MetricNames, j # m
            PROVE  /\ Below(ToSet(l.buffers[j]), S)
                   /\ j \in DOMAIN l.entries => Below({l.entries[j].window[2]}, S)
        BY <2>7, <3>2, <3>9, <4>3 DEF KBBefore
      <4> QED BY <3>1, <3>2, <3>4, <3>6, <3>9, <4>2, <4>3 DEF KBBefore
    <3> QED BY <2>3, <3>7, <3>8, <3>9
  <2>10. CASE Len(b) # BufferSize
    <3>1. l.buffers[m] = Append(b, n) BY <2>7, <2>10 DEF NextBuffer
    <3>2. l.entries = k.entries BY <2>4, <2>6, <2>10 DEF Observed
    <3>3. ToSet(Append(b, n)) = ToSet(b) \cup {n} BY <1>1, ToSetAppend
    <3>4. Increasing(Append(b, n)) BY <1>1, <2>8, IncreasingAppend
    <3>5. KBInTurn(l)
      <4>1. m \in DOMAIN k.entries => Below({k.entries[m].window[2]}, ToSet(b) \cup {n})
        BY <2>8 DEF Below
      <4> QED BY <2>7, <3>1, <3>2, <3>3, <3>4, <4>1 DEF KBInTurn
    <3>6. Follows(l, k) BY <3>2 DEF Follows
    <3>7. ASSUME NEW S, KBBefore(k, S), Below({n}, S) PROVE KBBefore(l, S)
      <4>1. Below(ToSet(b) \cup {n}, S) BY <2>6, <3>7 DEF KBBefore, Below
      <4> QED BY <2>7, <3>1, <3>2, <3>3, <3>7, <4>1 DEF KBBefore
    <3> QED BY <2>3, <3>5, <3>6, <3>7
  <2> QED BY <2>9, <2>10
<1> QED BY <1>2, <1>3

LEMMA BatchStored ==
    ASSUME metric \in Seq(MetricNames), NEW b \in Sequences, ToSet(b) \subseteq Events,
           KBIs(kb), KBIn(kb, Events)
    PROVE  KBIs(After(b)) /\ KBIn(After(b), Events)
<1>1. PICK l \in Nat : l = Len(b) BY DEF Sequences
<1>2. PICK g : Steps(g, b, l) /\ After(b) = g[l] BY <1>1, AfterIs
<1>3. \A i \in 0..l : g[i] = IF i = 0 THEN kb ELSE WithEvent(g[i - 1], b[i])
  BY <1>2 DEF Steps
<1>4. \A i \in 1..l : b[i] \in Events BY <1>1 DEF Sequences, ToSet
<1> DEFINE T == {i \in Nat : i <= l => KBIs(g[i]) /\ KBIn(g[i], Events)}
<1>5. 0 \in T BY <1>3
<1>6. ASSUME NEW i \in Nat, i \in T PROVE i + 1 \in T
  <2> SUFFICES ASSUME i + 1 <= l PROVE KBIs(g[i + 1]) /\ KBIn(g[i + 1], Events) OBVIOUS
  <2>1. i + 1 \in 0..l /\ i + 1 \in 1..l /\ i <= l /\ i + 1 # 0 /\ (i + 1) - 1 = i OBVIOUS
  <2>2. KBIs(g[i]) /\ KBIn(g[i], Events) BY <1>6, <2>1
  <2>3. g[i + 1] = WithEvent(g[i], b[i + 1]) BY <1>3, <2>1
  <2>4. b[i + 1] \in Events BY <1>4, <2>1
  <2> QED BY <2>2, <2>3, <2>4, EventStored
<1> HIDE DEF T
<1>7. Nat \subseteq T BY <1>5, <1>6, Upwards
<1>8. l \in T BY <1>7
<1> QED BY <1>2, <1>8 DEF T

LEMMA FollowsOn ==
    ASSUME NEW k, NEW l, NEW o, KBIs(k), KBIs(l), KBIs(o), KBInTurn(l), Follows(l, k), Follows(o, l)
    PROVE  Follows(o, k)
<1> SUFFICES ASSUME NEW m \in MetricNames, m \in DOMAIN k.entries
             PROVE  /\ m \in DOMAIN o.entries
                    /\ \/ o.entries[m].window = k.entries[m].window
                       \/ o.entries[m].window[1] > k.entries[m].window[2]
  BY DEF Follows
<1>1. m \in DOMAIN l.entries /\ m \in DOMAIN o.entries BY DEF Follows
<1>2. PICK u \in Nat \X Nat, v \in Nat \X Nat, w \in Nat \X Nat :
         u = k.entries[m].window /\ v = l.entries[m].window /\ w = o.entries[m].window
  BY <1>1 DEF KBIs, EntryType
<1>3. /\ v = u \/ v[1] > u[2]
      /\ w = v \/ w[1] > v[2]
      /\ v[1] <= v[2]
  BY <1>1, <1>2 DEF Follows, KBInTurn
<1>4. u[2] \in Nat /\ v[1] \in Nat /\ v[2] \in Nat /\ w[1] \in Nat BY <1>2
<1>5. w = u \/ w[1] > u[2]
  <2>1. CASE v = u BY <1>3, <2>1
  <2>2. CASE w = v BY <1>3, <2>2
  <2>3. CASE v[1] > u[2] /\ w[1] > v[2] BY <1>3, <1>4, <2>3
  <2> QED BY <1>3, <2>1, <2>2, <2>3
<1> QED BY <1>1, <1>2, <1>5

(* The events of a batch from its i-th on, which is number i + 1.          *)
Rest(b, i) == {b[j] : j \in {c \in DOMAIN b : c > i}}

LEMMA BatchInTurn ==
    ASSUME metric \in Seq(MetricNames), NEW b \in Sequences, ToSet(b) \subseteq Events,
           Increasing(b), KBIs(kb), KBIn(kb, Events), KBInTurn(kb), KBBefore(kb, ToSet(b))
    PROVE  /\ KBInTurn(After(b)) /\ Follows(After(b), kb)
           /\ \A S : KBBefore(kb, S) /\ Below(ToSet(b), S) => KBBefore(After(b), S)
<1>1. PICK l \in Nat : l = Len(b) BY DEF Sequences
<1>2. PICK g : Steps(g, b, l) /\ After(b) = g[l] BY <1>1, AfterIs
<1>3. \A i \in 0..l : g[i] = IF i = 0 THEN kb ELSE WithEvent(g[i - 1], b[i])
  BY <1>2 DEF Steps
<1>4. /\ DOMAIN b = 1..l
      /\ \A i \in 1..l : b[i] \in Events /\ b[i] \in ToSet(b)
  BY <1>1 DEF Sequences, ToSet
<1> DEFINE Good(k, i) ==
              /\ KBIs(k) /\ KBInTurn(k) /\ Follows(k, kb) /\ KBBefore(k, Rest(b, i))
              /\ \A S : KBBefore(kb, S) /\ Below(ToSet(b), S) => KBBefore(k, S)
           T == {i \in Nat : i <= l => Good(g[i], i)}
<1>5. 0 \in T
  <2>1. g[0] = kb BY <1>3
  <2>2. Rest(b, 0) \subseteq ToSet(b) BY DEF Rest, ToSet
  <2>3. KBBefore(kb, Rest(b, 0)) BY <2>2, BeforeLess
  <2>4. Follows(kb, kb) BY DEF Follows
  <2> QED BY <2>1, <2>3, <2>4
<1>6. ASSUME NEW i \in Nat, i \in T PROVE i + 1 \in T
  <2> SUFFICES ASSUME i + 1 <= l PROVE Good(g[i + 1], i + 1) OBVIOUS
  <2>1. i + 1 \in 0..l /\ i + 1 \in 1..l /\ i <= l /\ i + 1 # 0 /\ (i + 1) - 1 = i OBVIOUS
  <2>2. Good(g[i], i) BY <1>6, <2>1
  <2>3. g[i + 1] = WithEvent(g[i], b[i + 1]) BY <1>3, <2>1
  <2>4. PICK n \in Events : n = b[i + 1] BY <1>4, <2>1
  <2>5. n \in ToSet(b) BY <1>4, <2>1, <2>4
  <2>6. i + 1 > i OBVIOUS
  <2>7. {n} \subseteq Rest(b, i) BY <1>4, <2>1, <2>4, <2>6 DEF Rest
  <2>8. KBBefore(g[i], {n}) BY <2>2, <2>7, BeforeLess
  <2>9. PICK o : o = g[i + 1] OBVIOUS
  <2>10. PICK k : k = g[i] OBVIOUS
  <2>11. KBIs(k) /\ KBInTurn(k) /\ Follows(k, kb) /\ KBBefore(k, {n}) /\ o = WithEvent(k, n)
    BY <2>2, <2>3, <2>4, <2>8, <2>9, <2>10
  <2>12. KBIs(o) BY <2>11, EventStored
  <2>13. /\ KBInTurn(o) /\ Follows(o, k)
         /\ \A S : KBBefore(k, S) /\ Below({n}, S) => KBBefore(o, S)
    BY <2>11, EventInTurn
  <2>14. Follows(o, kb) BY <2>11, <2>12, <2>13, FollowsOn
  <2>15. KBBefore(o, Rest(b, i + 1))
    <3>1. \A j \in 1..l : j > i + 1 => j > i OBVIOUS
    <3>2. Rest(b, i + 1) \subseteq Rest(b, i) BY <1>4, <3>1 DEF Rest
    <3>3. KBBefore(k, Rest(b, i + 1)) BY <2>2, <2>10, <3>2, BeforeLess
    <3>4. Below({n}, Rest(b, i + 1)) BY <1>4, <2>1, <2>4 DEF Rest, Below, Increasing
    <3> QED BY <2>13, <3>3, <3>4
  <2>16. ASSUME NEW S, KBBefore(kb, S), Below(ToSet(b), S) PROVE KBBefore(o, S)
    <3>1. KBBefore(k, S) BY <2>2, <2>10, <2>16
    <3>2. Below({n}, S) BY <2>5, <2>16 DEF Below
    <3> QED BY <2>13, <3>1, <3>2
  <2> QED BY <2>9, <2>12, <2>13, <2>14, <2>15, <2>16
<1> HIDE DEF T
<1>7. Nat \subseteq T BY <1>5, <1>6, Upwards
<1>8. l \in T BY <1>7
<1>9. Good(g[l], l) BY <1>8 DEF T
<1> QED BY <1>2, <1>9

-----------------------------------------------------------------------------
(* What a cycle collects                                                   *)

Gathered(g, s, S, n) ==
    g = [i \in 0..n |-> IF i = 0 THEN <<>>
                        ELSE IF s[i] \in S THEN Append(g[i - 1], s[i]) ELSE g[i - 1]]

LEMMA GatheredExist == ASSUME NEW s, NEW S PROVE \A n \in Nat : \E g : Gathered(g, s, S, n)
<1> DEFINE T == {n \in Nat : \E g : Gathered(g, s, S, n)}
<1>1. 0 \in T
  <2>1. PICK g : g = [i \in 0..0 |-> <<>>] OBVIOUS
  <2>2. \A i \in 0..0 : i = 0 OBVIOUS
  <2>3. g = [i \in 0..0 |-> IF i = 0 THEN <<>>
                            ELSE IF s[i] \in S THEN Append(g[i - 1], s[i]) ELSE g[i - 1]]
    BY <2>1, <2>2
  <2> QED BY <2>3 DEF Gathered
<1>2. ASSUME NEW n \in Nat, n \in T PROVE n + 1 \in T
  <2>1. PICK g : Gathered(g, s, S, n) BY <1>2
  <2>2. PICK last : last = IF s[n + 1] \in S THEN Append(g[n], s[n + 1]) ELSE g[n] OBVIOUS
  <2>3. PICK h : h = [i \in 0..(n + 1) |-> IF i = n + 1 THEN last ELSE g[i]] OBVIOUS
  <2>4. \A i \in 0..n : h[i] = g[i] BY <2>3
  <2>5. \A i \in 0..n : g[i] = IF i = 0 THEN <<>>
                               ELSE IF s[i] \in S THEN Append(g[i - 1], s[i]) ELSE g[i - 1]
    BY <2>1 DEF Gathered
  <2>6. ASSUME NEW i \in 0..(n + 1)
        PROVE  h[i] = IF i = 0 THEN <<>>
                      ELSE IF s[i] \in S THEN Append(h[i - 1], s[i]) ELSE h[i - 1]
    <3>1. CASE i = n + 1
      <4>1. h[i] = last BY <2>3, <3>1
      <4>2. i # 0 /\ i - 1 = n /\ h[n] = g[n] BY <2>4, <3>1
      <4> QED BY <2>2, <3>1, <4>1, <4>2
    <3>2. CASE i # n + 1
      <4>1. i \in 0..n /\ (i # 0 => i - 1 \in 0..n) BY <3>2
      <4> QED BY <2>4, <2>5, <4>1
    <3> QED BY <3>1, <3>2
  <2>7. h = [i \in 0..(n + 1) |-> IF i = 0 THEN <<>>
                ELSE IF s[i] \in S THEN Append(h[i - 1], s[i]) ELSE h[i - 1]]
    BY <2>3, <2>6
  <2>8. Gathered(h, s, S, n + 1) BY <2>7 DEF Gathered
  <2>9. \E f : Gathered(f, s, S, n + 1) BY <2>8
  <2> QED BY <2>9
<1> HIDE DEF T
<1>3. Nat \subseteq T BY <1>1, <1>2, Upwards
<1> QED BY <1>3 DEF T

LEMMA GotIs ==
    ASSUME setup.metrics \in Seq(MetricNames), NEW S
    PROVE  Got(S) \in Seq(MetricNames)
<1>1. PICK s \in Seq(MetricNames) : s = setup.metrics OBVIOUS
<1>2. PICK l \in Nat : l = Len(s) OBVIOUS
<1> DEFINE among == CHOOSE g : g = [i \in 0..l |-> IF i = 0 THEN <<>>
                        ELSE IF s[i] \in S THEN Append(g[i - 1], s[i]) ELSE g[i - 1]]
<1>3. Gathered(among, s, S, l)
  <2>1. \E g : Gathered(g, s, S, l) BY GatheredExist
  <2>2. PICK g : g = [i \in 0..l |-> IF i = 0 THEN <<>>
                        ELSE IF s[i] \in S THEN Append(g[i - 1], s[i]) ELSE g[i - 1]]
    BY <2>1 DEF Gathered
  <2>3. among = [i \in 0..l |-> IF i = 0 THEN <<>>
                        ELSE IF s[i] \in S THEN Append(among[i - 1], s[i]) ELSE among[i - 1]]
    BY <2>2
  <2> QED BY <2>3 DEF Gathered
<1>4. Got(S) = among[l] BY <1>1, <1>2 DEF Got
<1> HIDE DEF among
<1>5. \A i \in 0..l : among[i] = IF i = 0 THEN <<>>
                                 ELSE IF s[i] \in S THEN Append(among[i - 1], s[i])
                                 ELSE among[i - 1]
  BY <1>3 DEF Gathered
<1> DEFINE T == {i \in Nat : i <= l => among[i] \in Seq(MetricNames)}
<1>6. 0 \in T
  <2>1. among[0] = <<>> BY <1>5
  <2> QED BY <2>1, EmptySeq
<1>7. ASSUME NEW i \in Nat, i \in T PROVE i + 1 \in T
  <2> SUFFICES ASSUME i + 1 <= l PROVE among[i + 1] \in Seq(MetricNames) OBVIOUS
  <2>1. i + 1 \in 0..l /\ i + 1 \in 1..l /\ i <= l /\ i + 1 # 0 /\ (i + 1) - 1 = i OBVIOUS
  <2>2. among[i] \in Seq(MetricNames) /\ s[i + 1] \in MetricNames BY <1>2, <1>7, <2>1
  <2>3. Append(among[i], s[i + 1]) \in Seq(MetricNames) BY <2>2, AppendProperties
  <2> QED BY <1>5, <2>1, <2>2, <2>3
<1> HIDE DEF T
<1>8. Nat \subseteq T BY <1>6, <1>7, Upwards
<1>9. l \in T BY <1>8
<1> QED BY <1>4, <1>9 DEF T

(* What goes into the queue is the beginning of it.                        *)
LEMMA RoomIs ==
    ASSUME NEW c \in Seq(Nat), Increasing(c), telemetry_queue \in Seq(Nat),
           Len(telemetry_queue) <= QueueSize
    PROVE  /\ RoomFor(c) \in Seq(Nat) /\ Increasing(RoomFor(c))
           /\ ToSet(RoomFor(c)) \subseteq ToSet(c)
           /\ Len(telemetry_queue) + Len(RoomFor(c)) <= QueueSize
<1>1. PICK l \in Nat, q \in Nat : l = Len(c) /\ q = Len(telemetry_queue) OBVIOUS
<1>2. QueueSize \in Nat BY TelemetryAssumption
<1>3. PICK n : n = Min({l, QueueSize - q}) OBVIOUS
<1>4. n \in 0..l /\ q + n <= QueueSize
  <2>1. PICK room \in Int : room = QueueSize - q BY <1>2
  <2>2. room >= 0 BY <1>1, <1>2, <2>1
  <2>3. n = IF l <= room THEN l ELSE room BY <1>3, <2>1, MinOfTwo
  <2>4. n \in 0..l /\ n <= room BY <2>2, <2>3
  <2> QED BY <1>2, <2>1, <2>4
<1>5. PICK r : r = SubSeq(c, 1, n) OBVIOUS
<1>6. \A i \in 1..n : c[i] \in Nat BY <1>1, <1>4
<1>7. r \in Seq(Nat) /\ Len(r) = n /\ \A i \in 1..n : r[i] = c[i]
  BY <1>4, <1>5, <1>6, SubSeqProperties
<1>8. DOMAIN r = 1..n /\ DOMAIN c = 1..l /\ 1..n \subseteq 1..l BY <1>1, <1>4, <1>7
<1>9. Increasing(r) BY <1>7, <1>8 DEF Increasing
<1>10. ToSet(r) \subseteq ToSet(c) BY <1>7, <1>8 DEF ToSet
<1>11. RoomFor(c) = r BY <1>1, <1>3, <1>5 DEF RoomFor
<1> QED BY <1>1, <1>4, <1>7, <1>9, <1>10, <1>11

-----------------------------------------------------------------------------
(* The invariant of telemetry and the knowledge base                       *)

UnderWay == InBatches(batches) \cup ToSet(batch) \cup ToSet(telemetry_queue)

Controls ==
    /\ setup \in Setups /\ cycles \in 0..setup.cycles /\ snapshot \in {"none", "due"}
    /\ publisher \in {"get", "fill", "flush", "fallback", "ended"} /\ snapshots \in Nat
    /\ running \in BOOLEAN /\ stopping \in {"no", "draining", "gathering", "stopped"}

Collected ==
    metric \in Seq(MetricNames) /\ handled \in [Events -> Nat] /\ lost \subseteq Events

Placed ==
    /\ telemetry_queue \in Sequences /\ batch \in Sequences /\ immediate \in Sequences
    /\ stream \in Sequences /\ batches \in Seq(Sequences)
    /\ UnderWay \subseteq Events /\ ToSet(immediate) \subseteq Events
    /\ ToSet(stream) \subseteq Events
    /\ Len(telemetry_queue) <= QueueSize /\ Len(batch) <= BatchSize
    /\ publisher = "fill" => Len(batch) < BatchSize
    /\ publisher \in {"fill", "flush", "fallback"} => batch # <<>>
    /\ publisher \in {"get", "ended"} => batch = <<>>
    /\ ~setup.stream => immediate = <<>>

(* The events on the way through the batches are in the order they were    *)
(* collected in, and so are those that go out on their own.                *)
Ordered ==
    /\ InTurn(batches) /\ Increasing(batch) /\ Increasing(telemetry_queue)
    /\ Increasing(immediate)
    /\ Below(InBatches(batches), ToSet(batch) \cup ToSet(telemetry_queue))
    /\ Below(ToSet(batch), ToSet(telemetry_queue))

(* An event is handled or still to come as often as it may be, in all.     *)
Coming(n) ==
    (IF n \in UnderWay THEN 1 ELSE 0) + (IF n \in ToSet(immediate) THEN 1 ELSE 0)
Copies(n) == handled[n] + (Times(stream, n) + Coming(n))
Limit == IF setup.stream THEN 2 ELSE 1
FewCopies == \A n \in Events : Copies(n) <= Limit

(* What was collected is handled, dropped or still to come.                *)
NoneLost ==
    \A n \in Numeric : handled[n] > 0 \/ n \in lost \/ n \in UnderWay \/ n \in ToSet(stream)

KBKnown == KBIs(kb) /\ KBIn(kb, Events)

WindowsBefore ==
    InOrder => /\ publisher # "fallback" /\ stream = <<>>
               /\ KBInTurn(kb) /\ KBBefore(kb, UnderWay)

TelInd == /\ Controls /\ Collected /\ Placed /\ Ordered /\ FewCopies /\ NoneLost
          /\ KBKnown /\ WindowsBefore

LEMMA EventsAre ==
    ASSUME Collected
    PROVE  /\ Events \subseteq Nat
           /\ \E l \in Nat : l = Len(metric) /\ Events = 1..l
BY LenProperties DEF Collected, Events

LEMMA TelInitially == Init => TelInd
<1> SUFFICES ASSUME Init PROVE TelInd OBVIOUS
<1>1. \A S : <<>> \in Seq(S) OBVIOUS
<1>2. DOMAIN metric = {} BY DEF Init
<1>3. Controls
  <2>1. \A c \in 0..MaxCycles : 0 \in 0..c BY TelemetryAssumption
  <2>2. setup.cycles \in 0..MaxCycles BY TelemetryAssumption DEF Init, SetupType
  <2> QED BY <2>1, <2>2 DEF Init, Controls
<1>4. Collected BY <1>1, <1>2 DEF Init, Collected, Events
<1>5. UnderWay = {} /\ InTurn(batches) BY NoBatches, ToSetEmpty DEF Init, UnderWay
<1>6. Placed
  <2>1. Len(<<>>) <= QueueSize /\ Len(<<>>) <= BatchSize BY TelemetryAssumption
  <2> QED BY <1>1, <1>5, <2>1, ToSetEmpty DEF Init, Placed, Sequences
<1>7. Increasing(<<>>) BY DEF Increasing
<1>8. Ordered BY <1>5, <1>7, NoBatches, ToSetEmpty DEF Init, Ordered, Below
<1>9. FewCopies BY <1>2 DEF FewCopies, Events
<1>10. NoneLost BY <1>2 DEF NoneLost, Numeric, Events
<1>11. kb = Cleared BY DEF Init, KBInit, Cleared
<1>12. KBIs(kb) BY <1>11, KBCleared
<1>13. \A m \in MetricNames : kb.buffers[m] = <<>> /\ m \notin DOMAIN kb.entries
  BY <1>11 DEF Cleared, EmptyBuffers, NoEntries
<1>14. KBIn(kb, Events) BY <1>13, ToSetEmpty DEF KBIn
<1>15. KBInTurn(kb) BY <1>7, <1>13, ToSetEmpty DEF KBInTurn
<1>16. KBBefore(kb, UnderWay) BY <1>13, ToSetEmpty DEF KBBefore, Below
<1> QED BY <1>3, <1>4, <1>6, <1>8, <1>9, <1>10, <1>12, <1>14, <1>15, <1>16
     DEF TelInd, KBKnown, WindowsBefore, Init

-----------------------------------------------------------------------------
(* What most steps leave as it is                                          *)

LEMMA CopiesAre ==
    ASSUME Collected, Placed, NEW n \in Events
    PROVE  handled[n] \in Nat /\ Times(stream, n) \in Nat /\ Coming(n) \in 0..2
           /\ Copies(n) \in Nat
<1>1. handled[n] \in Nat BY DEF Collected
<1>2. Times(stream, n) \in Nat BY TimesIsNumber DEF Placed
<1>3. Coming(n) \in 0..2 BY DEF Coming
<1> QED BY <1>1, <1>2, <1>3 DEF Copies

(* Events go on or are dropped, and nothing is stored.                     *)
LEMMA MovedOn ==
    ASSUME TelInd, UnderWay' \subseteq UnderWay, ToSet(immediate') \subseteq ToSet(immediate),
           UnderWay \subseteq UnderWay' \cup lost', lost \subseteq lost', lost' \subseteq Events,
           UNCHANGED <<setup, metric, kb, stream, handled>>,
           InOrder => publisher' # "fallback"
    PROVE  Collected' /\ FewCopies' /\ NoneLost' /\ KBKnown' /\ WindowsBefore'
<1> USE DEF TelInd
<1>1. Events' = Events /\ Numeric' = Numeric BY DEF Events, Numeric
<1>2. Collected' BY <1>1 DEF Collected
<1>3. FewCopies'
  <2>1. ASSUME NEW n \in Events PROVE Copies(n)' <= Copies(n)
    <3>1. Coming(n)' \in 0..2 /\ Coming(n)' <= Coming(n) BY DEF Coming
    <3>2. Copies(n)' = handled[n] + (Times(stream, n) + Coming(n)') BY DEF Copies
    <3>3. handled[n] \in Nat /\ Times(stream, n) \in Nat /\ Coming(n) \in 0..2 BY CopiesAre
    <3> QED BY <3>1, <3>2, <3>3 DEF Copies
  <2>2. ASSUME NEW n \in Events PROVE Copies(n)' <= Limit'
    <3>1. Copies(n)' \in Nat
      <4>1. Coming(n)' \in 0..2 BY DEF Coming
      <4>2. Copies(n)' = handled[n] + (Times(stream, n) + Coming(n)') BY DEF Copies
      <4> QED BY <4>1, <4>2, CopiesAre
    <3>2. Limit' = Limit /\ Limit \in Nat BY DEF Limit
    <3>3. Copies(n) <= Limit /\ Copies(n) \in Nat BY CopiesAre DEF FewCopies
    <3> QED BY <2>1, <3>1, <3>2, <3>3
  <2> QED BY <1>1, <2>2 DEF FewCopies
<1>4. NoneLost' BY <1>1 DEF NoneLost
<1>5. KBKnown' BY <1>1 DEF KBKnown
<1>6. WindowsBefore' BY BeforeLess DEF WindowsBefore, InOrder
<1> QED BY <1>2, <1>3, <1>4, <1>5, <1>6

Queues == <<setup, metric, telemetry_queue, batch, immediate, stream, batches, publisher>>

LEMMA QueuesStay ==
    ASSUME TelInd, UNCHANGED Queues
    PROVE  Placed' /\ Ordered' /\ UnderWay' = UnderWay
<1>1. Events' = Events BY DEF Events, Queues
<1>2. UnderWay' = UnderWay BY DEF UnderWay, Queues
<1>3. Placed' BY <1>1, <1>2 DEF TelInd, Placed, Queues
<1>4. Ordered' BY DEF TelInd, Ordered, Queues
<1> QED BY <1>2, <1>3, <1>4

(* A step of which telemetry sees nothing but its controls.                *)
LEMMA AllStays ==
    ASSUME TelInd, UNCHANGED <<Queues, kb, handled, lost>>, Controls'
    PROVE  TelInd'
<1>1. Placed' /\ Ordered' /\ UnderWay' = UnderWay BY QueuesStay
<1>2. InOrder => publisher' # "fallback" BY DEF TelInd, WindowsBefore, Queues
<1>3. UNCHANGED <<setup, metric, kb, stream, handled, immediate, lost>> BY DEF Queues
<1>4. lost \subseteq Events BY DEF TelInd, Collected
<1>5. Collected' /\ FewCopies' /\ NoneLost' /\ KBKnown' /\ WindowsBefore'
  BY <1>1, <1>2, <1>3, <1>4, MovedOn
<1> QED BY <1>1, <1>5 DEF TelInd

(* Of the knowledge base only entries change that are no observations of   *)
(* raw telemetry, or observations go.                                      *)
Fewer(l, k) ==
    /\ KBIs(l) /\ DOMAIN l.buffers = MetricNames
    /\ \A m \in MetricNames :
          /\ l.buffers[m] \in {k.buffers[m], <<>>}
          /\ m \in DOMAIN l.entries => m \in DOMAIN k.entries /\ l.entries[m] = k.entries[m]

LEMMA FewerStays ==
    ASSUME TelInd, UNCHANGED <<Queues, handled, lost>>, Controls', Fewer(kb', kb)
    PROVE  TelInd'
<1>1. Placed' /\ Ordered' /\ UnderWay' = UnderWay BY QueuesStay
<1>2. Events' = Events /\ Numeric' = Numeric BY DEF Events, Numeric, Queues
<1>3. Collected' BY <1>2 DEF TelInd, Collected, Queues
<1>4. FewCopies'
  <2>1. \A n : Copies(n)' = Copies(n) BY <1>1 DEF Copies, Coming, Queues
  <2>2. Limit' = Limit BY DEF Limit, Queues
  <2> QED BY <1>2, <2>1, <2>2 DEF TelInd, FewCopies
<1>5. NoneLost' BY <1>1, <1>2 DEF TelInd, NoneLost, Queues
<1>6. \A m \in MetricNames : ToSet(kb'.buffers[m]) \subseteq ToSet(kb.buffers[m])
  BY ToSetEmpty DEF Fewer
<1>7. KBKnown'
  <2>1. KBIn(kb', Events) BY <1>6 DEF TelInd, KBKnown, KBIn, Fewer
  <2> QED BY <1>2, <2>1 DEF KBKnown, Fewer
<1>8. WindowsBefore'
  <2> SUFFICES ASSUME InOrder PROVE WindowsBefore' BY DEF WindowsBefore, InOrder, Queues
  <2>1. publisher # "fallback" /\ stream = <<>> /\ KBInTurn(kb) /\ KBBefore(kb, UnderWay)
    BY DEF TelInd, WindowsBefore
  <2>2. Increasing(<<>>) BY DEF Increasing
  <2>3. KBInTurn(kb') BY <1>6, <2>1, <2>2 DEF KBInTurn, Fewer, Below
  <2>4. KBBefore(kb', UnderWay) BY <1>6, <2>1 DEF KBBefore, Fewer, Below
  <2> QED BY <1>1, <2>1, <2>3, <2>4 DEF WindowsBefore, Queues
<1> QED BY <1>1, <1>3, <1>4, <1>5, <1>7, <1>8 DEF TelInd

-----------------------------------------------------------------------------
(* Steps that store no telemetry                                           *)

LEMMA SnapshotStoredKept == ASSUME TelInd, StoreSystemSnapshot PROVE TelInd'
<1>1. Controls'
  <2>1. snapshots' \in Nat BY DEF TelInd, Controls, StoreSystemSnapshot
  <2> QED BY <2>1 DEF TelInd, Controls, StoreSystemSnapshot, stopVars
<1>2. UNCHANGED <<Queues, kb, handled, lost>>
  BY DEF StoreSystemSnapshot, Queues, historyVars
<1> QED BY <1>1, <1>2, AllStays

LEMMA RequestStopKept == ASSUME TelInd, RequestStop PROVE TelInd'
<1>1. Controls' BY DEF TelInd, Controls, RequestStop, channelVars
<1>2. UNCHANGED <<Queues, kb, handled, lost>>
  BY DEF RequestStop, Queues, historyVars, channelVars
<1> QED BY <1>1, <1>2, AllStays

LEMMA StoredIsFewer ==
    ASSUME KBIs(kb), NEW i \in DirectIds, NEW e \in EntryType
    PROVE  Fewer(Stored(kb, i, e), kb)
<1>1. i \notin MetricNames BY KnowledgeBaseAssumption
<1>2. PICK l : l = Stored(kb, i, e) OBVIOUS
<1>3. KBIs(l) /\ l.entries = EntriesWith(kb, i, e) /\ l.buffers = kb.buffers
  BY <1>1, <1>2, KBStored
<1>4. \A m \in MetricNames :
         m \in DOMAIN l.entries => m \in DOMAIN kb.entries /\ l.entries[m] = kb.entries[m]
  BY <1>1, <1>3 DEF EntriesWith
<1>5. DOMAIN l.buffers = MetricNames BY <1>3 DEF KBIs
<1> QED BY <1>2, <1>3, <1>4, <1>5 DEF Fewer

LEMMA DeletedIsFewer ==
    ASSUME KBIs(kb), NEW i \in DOMAIN kb.entries
    PROVE  Fewer(Deleted(kb, i), kb)
<1>1. PICK l : l = Deleted(kb, i) OBVIOUS
<1>2. /\ KBIs(l) /\ l.buffers = kb.buffers
      /\ l.entries = [id \in DOMAIN kb.entries \ {i} |-> kb.entries[id]]
  BY <1>1, KBDeleted
<1>3. DOMAIN l.buffers = MetricNames BY <1>2 DEF KBIs
<1> QED BY <1>1, <1>2, <1>3 DEF Fewer

LEMMA ClearedIsFewer == Fewer(Cleared, kb)
<1>1. KBIs(Cleared) BY KBCleared
<1>2. DOMAIN Cleared.buffers = MetricNames /\ \A m \in MetricNames : Cleared.buffers[m] = <<>>
  BY DEF Cleared, EmptyBuffers
<1>3. DOMAIN Cleared.entries = {} BY DEF Cleared, NoEntries
<1> QED BY <1>1, <1>2, <1>3 DEF Fewer

LEMMA CallersKept == ASSUME TelInd, Callers PROVE TelInd' /\ Fewer(kb', kb)
<1>1. KBIs(kb) BY DEF TelInd, KBKnown
<1>2. Fewer(kb', kb)
  <2>1. CASE StoreEntry
    <3>1. PICK id \in CallerIds, e \in DirectEntries : kb' = Stored(kb, id, e)
      BY <2>1 DEF StoreEntry
    <3>2. id \in DirectIds /\ e \in EntryType BY TelemetryAssumption, KnowledgeBaseAssumption
    <3> QED BY <1>1, <3>1, <3>2, StoredIsFewer
  <2>2. CASE DeleteEntry
    <3>1. PICK id \in DOMAIN kb.entries : kb' = Deleted(kb, id) BY <2>2 DEF DeleteEntry
    <3> QED BY <1>1, <3>1, DeletedIsFewer
  <2>3. CASE ClearAll BY <2>3, ClearedIsFewer DEF ClearAll
  <2> QED BY <2>1, <2>2, <2>3 DEF Callers
<1>3. CallerStep BY DEF Callers, StoreEntry, DeleteEntry, ClearAll
<1>4. Controls'
  BY <1>3 DEF TelInd, Controls, CallerStep, monitorVars, stopVars, channelVars
<1>5. UNCHANGED <<Queues, handled, lost>>
  BY <1>3 DEF CallerStep, Queues, monitorVars, channelVars, historyVars
<1> QED BY <1>2, <1>4, <1>5, FewerStays

LEMMA SnapshotIsEntry == SnapshotEntry \in EntryType
<1>1. /\ {"snapshot", "llm_context", "permanent"} \subseteq STRING /\ {"system"} \subseteq STRING
      /\ "observation" \in STRING /\ "swim_snapshotter" \in STRING
      /\ "monitor.state.snapshot" \in STRING
  BY TelemetryAssumption
<1>2. <<0, 0>> \in Nat \X Nat OBVIOUS
<1>3. PICK tags, words :
         tags = {"snapshot", "llm_context", "permanent"} /\ words = {"system"}
  OBVIOUS
<1>4. SnapshotEntry = [data_type |-> "observation", tags |-> tags, source |-> "swim_snapshotter",
                       metric_name |-> "monitor.state.snapshot", words |-> words,
                       window |-> <<0, 0>>, total_updates |-> 0]
  BY <1>3 DEF SnapshotEntry
<1> QED BY <1>1, <1>2, <1>3, <1>4 DEF EntryType

LEMMA HandleSnapshotKept == ASSUME TelInd, HandleSnapshot PROVE TelInd' /\ Fewer(kb', kb)
<1>1. PICK i : i = CHOOSE id \in FreeIds : TRUE OBVIOUS
<1>2. i \in FreeIds BY <1>1 DEF HandleSnapshot
<1>3. i \in DirectIds BY <1>2 DEF FreeIds
<1>4. kb' = Stored(kb, i, SnapshotEntry) BY <1>1 DEF HandleSnapshot
<1>5. Fewer(kb', kb)
  BY <1>3, <1>4, SnapshotIsEntry, StoredIsFewer DEF TelInd, KBKnown
<1>6. Controls'
  <2>1. snapshots' \in Nat BY DEF TelInd, Controls, HandleSnapshot
  <2> QED BY <2>1 DEF TelInd, Controls, HandleSnapshot, ServiceStep, monitorVars, stopVars
<1>7. UNCHANGED <<Queues, handled, lost>>
  BY DEF HandleSnapshot, ServiceStep, Queues, monitorVars
<1> QED BY <1>5, <1>6, <1>7, FewerStays

-----------------------------------------------------------------------------
(* Events move on                                                          *)

LEMMA GetFirstKept == ASSUME TelInd, GetFirst PROVE TelInd'
<1> DEFINE n == Head(telemetry_queue)
           q == Tail(telemetry_queue)
<1> USE DEF TelInd
<1>1. /\ publisher = "get" /\ telemetry_queue # <<>> /\ batch' = <<n>> /\ telemetry_queue' = q
      /\ publisher' = IF BatchSize = 1 THEN "flush" ELSE "fill"
      /\ UNCHANGED <<stream, batches, lost>>
      /\ PublisherStep
  BY DEF GetFirst
<1>2. telemetry_queue \in Sequences BY DEF Placed
<1>3. /\ n \in Nat /\ q \in Sequences /\ Len(q) = Len(telemetry_queue) - 1
      /\ ToSet(telemetry_queue) = {n} \cup ToSet(q)
  BY <1>1, <1>2, ToSetHead DEF Sequences
<1>4. Increasing(q) /\ Below({n}, ToSet(q))
  BY <1>1, <1>2, IncreasingTail DEF Sequences, Ordered
<1>5. batch = <<>> /\ ToSet(batch) = {} BY <1>1, ToSetEmpty DEF Placed
<1>6. ToSet(batch') = {n} /\ Len(batch') = 1 /\ batch' # <<>> /\ batch' \in Sequences
  BY <1>1, <1>3, ToSetOne DEF Sequences
<1> HIDE DEF n, q
<1>7. UnderWay' = UnderWay BY <1>1, <1>3, <1>5, <1>6 DEF UnderWay
<1>8. Events' = Events BY <1>1 DEF PublisherStep, Events
<1>9. Placed'
  <2>1. Len(telemetry_queue') <= QueueSize
    <3>1. PICK l \in Nat : l = Len(telemetry_queue) BY <1>2 DEF Sequences
    <3>2. l <= QueueSize BY <3>1 DEF Placed
    <3> QED BY <1>1, <1>3, <3>1, <3>2, TelemetryAssumption
  <2>2. Len(batch') <= BatchSize /\ (publisher' = "fill" => Len(batch') < BatchSize)
    BY <1>1, <1>6, TelemetryAssumption
  <2> QED BY <1>1, <1>3, <1>6, <1>7, <1>8, <2>1, <2>2 DEF Placed, PublisherStep
<1>10. Ordered'
  <2>1. Increasing(batch') BY <1>1 DEF Increasing
  <2>2. Below(InBatches(batches), {n} \cup ToSet(q)) BY <1>3, <1>5 DEF Ordered
  <2> QED BY <1>1, <1>4, <1>6, <2>1, <2>2 DEF Ordered, PublisherStep
<1>11. Controls' BY <1>1 DEF Controls, PublisherStep, stopVars
<1>12. Collected' /\ FewCopies' /\ NoneLost' /\ KBKnown' /\ WindowsBefore'
  <2>1. lost' \subseteq Events BY <1>1 DEF Collected
  <2> QED BY <1>1, <1>7, <2>1, MovedOn DEF PublisherStep
<1> QED BY <1>9, <1>10, <1>11, <1>12

LEMMA FillBatchKept == ASSUME TelInd, FillBatch PROVE TelInd'
<1> DEFINE n == Head(telemetry_queue)
           q == Tail(telemetry_queue)
<1> USE DEF TelInd
<1>1. /\ publisher = "fill" /\ telemetry_queue # <<>> /\ batch' = Append(batch, n)
      /\ telemetry_queue' = q
      /\ publisher' = IF Len(batch') < BatchSize THEN "fill" ELSE "flush"
      /\ UNCHANGED <<stream, batches, lost>>
      /\ PublisherStep
  BY DEF FillBatch
<1>2. telemetry_queue \in Sequences /\ batch \in Sequences BY DEF Placed
<1>3. /\ n \in Nat /\ q \in Sequences /\ Len(q) = Len(telemetry_queue) - 1
      /\ ToSet(telemetry_queue) = {n} \cup ToSet(q)
  BY <1>1, <1>2, ToSetHead DEF Sequences
<1>4. Increasing(q) /\ Below({n}, ToSet(q))
  BY <1>1, <1>2, IncreasingTail DEF Sequences, Ordered
<1>5. ToSet(batch') = ToSet(batch) \cup {n} BY <1>1, <1>2, <1>3, ToSetAppend DEF Sequences
<1>6. batch' \in Sequences /\ Len(batch') = Len(batch) + 1
  BY <1>1, <1>2, <1>3, AppendProperties DEF Sequences
<1>7. Below(ToSet(batch), {n}) BY <1>3 DEF Ordered, Below
<1>8. Increasing(batch') BY <1>1, <1>2, <1>3, <1>7, IncreasingAppend DEF Sequences, Ordered
<1> HIDE DEF n, q
<1>9. UnderWay' = UnderWay BY <1>1, <1>3, <1>5 DEF UnderWay
<1>10. Events' = Events BY <1>1 DEF PublisherStep, Events
<1>11. Placed'
  <2>1. PICK l \in Nat, b \in Nat : l = Len(telemetry_queue) /\ b = Len(batch)
    BY <1>2 DEF Sequences
  <2>2. l <= QueueSize /\ b < BatchSize BY <1>1, <2>1 DEF Placed
  <2>3. Len(telemetry_queue') <= QueueSize BY <1>1, <1>3, <2>1, <2>2, TelemetryAssumption
  <2>4. Len(batch') = b + 1 /\ b + 1 <= BatchSize BY <1>6, <2>1, <2>2, TelemetryAssumption
  <2>5. batch' # <<>>
    <3>1. b + 1 # 0 /\ Len(<<>>) = 0 BY <2>1
    <3> QED BY <2>4, <3>1
  <2> QED BY <1>1, <1>3, <1>6, <1>9, <1>10, <2>3, <2>4, <2>5 DEF Placed, PublisherStep
<1>12. Ordered'
  <2>1. Below(InBatches(batches), (ToSet(batch) \cup {n}) \cup ToSet(q))
    BY <1>3 DEF Ordered, Below
  <2>2. Below(ToSet(batch) \cup {n}, ToSet(q)) BY <1>3, <1>4 DEF Ordered, Below
  <2> QED BY <1>1, <1>4, <1>5, <1>8, <2>1, <2>2 DEF Ordered, PublisherStep
<1>13. Controls' BY <1>1 DEF Controls, PublisherStep, stopVars
<1>14. Collected' /\ FewCopies' /\ NoneLost' /\ KBKnown' /\ WindowsBefore'
  <2>1. lost' \subseteq Events BY <1>1 DEF Collected
  <2> QED BY <1>1, <1>9, <2>1, MovedOn DEF PublisherStep
<1> QED BY <1>11, <1>12, <1>13, <1>14

LEMMA WaitKept ==
    ASSUME TelInd, GetTimesOut \/ BatchWaitEnds
    PROVE  TelInd'
<1> USE DEF TelInd
<1>1. /\ UNCHANGED <<telemetry_queue, batch, stream, batches, lost>> /\ PublisherStep
      /\ \/ publisher = "get" /\ publisher' = "ended"
         \/ publisher = "fill" /\ publisher' = "flush"
  BY DEF GetTimesOut, BatchWaitEnds
<1>2. UnderWay' = UnderWay /\ Events' = Events
  BY <1>1 DEF UnderWay, Events, PublisherStep
<1>3. Placed' BY <1>1, <1>2 DEF Placed, PublisherStep
<1>4. Ordered' BY <1>1 DEF Ordered, PublisherStep
<1>5. Controls' BY <1>1 DEF Controls, PublisherStep, stopVars
<1>6. Collected' /\ FewCopies' /\ NoneLost' /\ KBKnown' /\ WindowsBefore'
  <2>1. lost' \subseteq Events BY <1>1 DEF Collected
  <2> QED BY <1>1, <1>2, <2>1, MovedOn DEF PublisherStep
<1> QED BY <1>3, <1>4, <1>5, <1>6

LEMMA RoundIs == NextRound \in {"get", "ended"}
BY DEF NextRound

LEMMA FlushBatchKept == ASSUME TelInd, FlushBatch PROVE TelInd'
<1> USE DEF TelInd
<1>1. /\ publisher = "flush" /\ UNCHANGED <<telemetry_queue, stream, lost>> /\ PublisherStep
      /\ \/ Flushed
         \/ ~setup.reliable /\ publisher' = "fallback" /\ UNCHANGED <<batches, batch>>
  BY DEF FlushBatch, AfterFailure
<1>2. Events' = Events BY <1>1 DEF Events, PublisherStep
<1>3. Controls'
  <2>1. publisher' \in {"get", "ended", "fallback"} BY <1>1, RoundIs DEF Flushed
  <2> QED BY <1>1, <2>1 DEF Controls, PublisherStep, stopVars
<1>4. lost' \subseteq Events BY <1>1 DEF Collected
<1>5. CASE Flushed
  <2>1. /\ batches' = Append(batches, batch) /\ publisher' \in {"get", "ended"}
        /\ batch' = <<>>
    BY <1>5, RoundIs DEF Flushed
  <2>2. batches \in Seq(Sequences) /\ batch \in Sequences BY DEF Placed
  <2>3. Below(InBatches(batches), ToSet(batch)) BY DEF Ordered, Below
  <2>4. /\ InBatches(batches') = InBatches(batches) \cup ToSet(batch)
        /\ InTurn(batches')
    BY <2>1, <2>2, <2>3, BatchesAppend DEF Ordered
  <2>5. batches' \in Seq(Sequences) BY <2>1, <2>2, AppendProperties
  <2>6. UnderWay' = UnderWay BY <1>1, <2>1, <2>4, ToSetEmpty DEF UnderWay
  <2>7. batch' \in Sequences /\ Len(batch') <= BatchSize
    BY <2>1, EmptySeq, TelemetryAssumption DEF Sequences
  <2>8. Placed' BY <1>1, <1>2, <2>1, <2>5, <2>6, <2>7 DEF Placed, PublisherStep
  <2>9. Ordered'
    <3>1. Increasing(batch') BY <2>1 DEF Increasing
    <3>2. Below(InBatches(batches'), ToSet(batch') \cup ToSet(telemetry_queue))
      BY <2>1, <2>4, ToSetEmpty DEF Ordered, Below
    <3>3. Below(ToSet(batch'), ToSet(telemetry_queue)) BY <2>1, ToSetEmpty DEF Below
    <3> QED BY <1>1, <2>4, <3>1, <3>2, <3>3 DEF Ordered, PublisherStep
  <2>10. Collected' /\ FewCopies' /\ NoneLost' /\ KBKnown' /\ WindowsBefore'
    BY <1>1, <1>4, <2>1, <2>6, MovedOn DEF PublisherStep
  <2> QED BY <1>3, <2>8, <2>9, <2>10
<1>6. CASE ~setup.reliable /\ publisher' = "fallback" /\ UNCHANGED <<batches, batch>>
  <2>1. UnderWay' = UnderWay BY <1>1, <1>6 DEF UnderWay
  <2>2. Placed' BY <1>1, <1>2, <1>6, <2>1 DEF Placed, PublisherStep
  <2>3. Ordered' BY <1>1, <1>6 DEF Ordered, PublisherStep
  <2>4. Collected' /\ FewCopies' /\ NoneLost' /\ KBKnown' /\ WindowsBefore'
    BY <1>1, <1>4, <1>6, <2>1, MovedOn DEF PublisherStep, InOrder
  <2> QED BY <1>3, <2>2, <2>3, <2>4
<1> QED BY <1>1, <1>5, <1>6

LEMMA EndDrainingKept == ASSUME TelInd, EndDraining PROVE TelInd'
<1> USE DEF TelInd
<1>1. /\ publisher' = "ended" /\ batch' = <<>> /\ telemetry_queue' = <<>>
      /\ stopping' = "gathering"
      /\ lost' = IF Drained THEN lost ELSE lost \cup ToSet(batch) \cup ToSet(telemetry_queue)
      /\ UNCHANGED <<setup, kb, cycles, metric, snapshot, immediate, running, stream, batches,
                     snapshots, handled>>
  BY DEF EndDraining, channelVars
<1>2. Events' = Events BY <1>1 DEF Events
<1>3. UnderWay' = InBatches(batches) BY <1>1, ToSetEmpty DEF UnderWay
<1>4. /\ ToSet(batch) \cup ToSet(telemetry_queue) \subseteq lost'
      /\ lost \subseteq lost' /\ lost' \subseteq Events
  BY <1>1, ToSetEmpty DEF Drained, Collected, Placed, UnderWay
<1>5. Placed'
  <2>1. <<>> \in Sequences /\ Len(<<>>) <= BatchSize /\ Len(<<>>) <= QueueSize
    BY EmptySeq, TelemetryAssumption DEF Sequences
  <2>2. UnderWay' \subseteq Events BY <1>3 DEF Placed, UnderWay
  <2> QED BY <1>1, <1>2, <2>1, <2>2 DEF Placed
<1>6. Ordered'
  <2>1. Increasing(<<>>) BY DEF Increasing
  <2> QED BY <1>1, <2>1, ToSetEmpty DEF Ordered, Below
<1>7. Controls' BY <1>1 DEF Controls
<1>8. Collected' /\ FewCopies' /\ NoneLost' /\ KBKnown' /\ WindowsBefore'
  <2>1. UnderWay' \subseteq UnderWay /\ UnderWay \subseteq UnderWay' \cup lost'
    BY <1>3, <1>4 DEF UnderWay
  <2> QED BY <1>1, <1>4, <2>1, MovedOn
<1> QED BY <1>5, <1>6, <1>7, <1>8

LEMMA EndGatheringKept == ASSUME TelInd, EndGathering PROVE TelInd'
<1> USE DEF TelInd
<1>1. /\ immediate' = <<>> /\ stopping' = "stopped"
      /\ UNCHANGED <<setup, kb, cycles, metric, snapshot, telemetry_queue, publisher, batch,
                     running, stream, batches, snapshots, handled, lost>>
  BY DEF EndGathering, channelVars, historyVars
<1>2. Events' = Events /\ UnderWay' = UnderWay BY <1>1 DEF Events, UnderWay
<1>3. ToSet(immediate') = {} BY <1>1, ToSetEmpty
<1>4. Placed'
  <2>1. immediate' \in Sequences BY <1>1, EmptySeq DEF Sequences
  <2> QED BY <1>1, <1>2, <1>3, <2>1 DEF Placed
<1>5. Ordered'
  <2>1. Increasing(immediate') BY <1>1 DEF Increasing
  <2> QED BY <1>1, <2>1 DEF Ordered
<1>6. Controls' BY <1>1 DEF Controls
<1>7. Collected' /\ FewCopies' /\ NoneLost' /\ KBKnown' /\ WindowsBefore'
  <2>1. InOrder => publisher' # "fallback" BY <1>1 DEF WindowsBefore
  <2>2. lost' \subseteq Events BY <1>1 DEF Collected
  <2> QED BY <1>1, <1>2, <1>3, <2>1, <2>2, MovedOn
<1> QED BY <1>4, <1>5, <1>6, <1>7

-----------------------------------------------------------------------------
(* Events change into the stream, or are handled                           *)

LEMMA CopiesFall ==
    ASSUME TelInd, UNCHANGED <<setup, metric>>,
           \A n \in Events : Copies(n)' \in Nat /\ Copies(n)' <= Copies(n)
    PROVE  FewCopies'
<1>1. Events' = Events /\ Limit' = Limit /\ Limit \in Nat BY DEF Events, Limit
<1>2. \A n \in Events : Copies(n) \in Nat /\ Copies(n) <= Limit
  BY CopiesAre DEF TelInd, FewCopies
<1>3. \A n \in Events : Copies(n)' <= Limit BY <1>1, <1>2
<1> QED BY <1>1, <1>3 DEF FewCopies

(* A stream t that is s, or s and one event more.                          *)
GrownBy(t, s, n) ==
    /\ t \in Sequences /\ ToSet(s) \subseteq ToSet(t) /\ ToSet(t) \subseteq ToSet(s) \cup {n}
    /\ \A x : Times(t, x) = Times(s, x) \/ (x = n /\ Times(t, x) = Times(s, x) + 1)

LEMMA Grows ==
    ASSUME NEW s \in Sequences, NEW n \in Nat
    PROVE  GrownBy(Append(s, n), s, n) /\ GrownBy(s, s, n) /\ n \in ToSet(Append(s, n))
<1>1. PICK t : t = Append(s, n) OBVIOUS
<1>2. t \in Sequences BY <1>1, AppendProperties DEF Sequences
<1>3. ToSet(t) = ToSet(s) \cup {n} BY <1>1, ToSetAppend DEF Sequences
<1>4. \A x : Times(t, x) = IF n = x THEN Times(s, x) + 1 ELSE Times(s, x)
  BY <1>1, TimesAppend
<1>5. \A x : Times(t, x) = Times(s, x) \/ (x = n /\ Times(t, x) = Times(s, x) + 1) BY <1>4
<1>6. GrownBy(t, s, n) BY <1>2, <1>3, <1>5 DEF GrownBy
<1>7. GrownBy(s, s, n) BY DEF GrownBy
<1> QED BY <1>1, <1>3, <1>6, <1>7

LEMMA PublishEventKept == ASSUME TelInd, PublishEvent PROVE TelInd'
<1> USE DEF TelInd
<1> DEFINE n == Head(immediate)
           rest == Tail(immediate)
<1>1. /\ immediate # <<>> /\ immediate' = rest
      /\ stream' = Append(stream, n) \/ stream' = stream
      /\ UNCHANGED <<setup, kb, cycles, metric, snapshot, telemetry_queue, publisher, batch, running,
                     stopping, batches, snapshots, handled, lost>>
  BY DEF PublishEvent, stopVars, historyVars
<1>2. immediate \in Sequences /\ stream \in Sequences BY DEF Placed
<1>3. n \in Nat /\ rest \in Sequences /\ ToSet(immediate) = {n} \cup ToSet(rest)
  BY <1>1, <1>2, ToSetHead DEF Sequences
<1>4. Increasing(rest) /\ Below({n}, ToSet(rest))
  BY <1>1, <1>2, IncreasingTail DEF Sequences, Ordered
<1>5. n \notin ToSet(rest) /\ n \in Events BY <1>3, <1>4 DEF Below, Placed
<1> HIDE DEF n, rest
<1>6. GrownBy(stream', stream, n) BY <1>1, <1>2, <1>3, Grows
<1>7. /\ stream' \in Sequences /\ ToSet(stream) \subseteq ToSet(stream')
      /\ ToSet(stream') \subseteq ToSet(stream) \cup {n}
  BY <1>6 DEF GrownBy
<1>8. Events' = Events /\ UnderWay' = UnderWay /\ Numeric' = Numeric
  BY <1>1 DEF Events, UnderWay, Numeric
<1>9. setup.stream BY <1>1 DEF Placed
<1>10. Placed' BY <1>1, <1>3, <1>5, <1>7, <1>8, <1>9 DEF Placed
<1>11. Ordered' BY <1>1, <1>4 DEF Ordered
<1>12. Controls' BY <1>1 DEF Controls
<1>13. Collected' BY <1>1, <1>8 DEF Collected
<1>14. FewCopies'
  <2>1. ASSUME NEW x \in Events PROVE Copies(x)' \in Nat /\ Copies(x)' <= Copies(x)
    <3>1. PICK h \in Nat, t \in Nat : h = handled[x] /\ t = Times(stream, x) BY CopiesAre
    <3>2. PICK u \in 0..1 : u = IF x \in UnderWay THEN 1 ELSE 0 OBVIOUS
    <3>3. PICK i \in 0..1 : i = IF x \in ToSet(rest) THEN 1 ELSE 0 OBVIOUS
    <3>4. Times(stream', x) = t \/ (x = n /\ Times(stream', x) = t + 1)
      BY <1>6, <3>1 DEF GrownBy
    <3>5. Copies(x)' = h + (Times(stream', x) + (u + i))
      BY <1>1, <1>8, <3>1, <3>2, <3>3 DEF Copies, Coming
    <3>6. Copies(x) = h + (t + (u + (IF x = n THEN 1 ELSE i)))
      BY <1>3, <3>1, <3>2, <3>3 DEF Copies, Coming
    <3>7. x = n => i = 0 BY <1>5, <3>3
    <3> QED BY <3>4, <3>5, <3>6, <3>7
  <2> QED BY <1>1, <2>1, CopiesFall
<1>15. NoneLost' BY <1>1, <1>7, <1>8 DEF NoneLost
<1>16. KBKnown' BY <1>1, <1>8 DEF KBKnown
<1>17. WindowsBefore' BY <1>1, <1>9 DEF WindowsBefore, InOrder
<1> QED BY <1>10, <1>11, <1>12, <1>13, <1>14, <1>15, <1>16, <1>17

LEMMA FlushOneKept == ASSUME TelInd, FlushOne PROVE TelInd'
<1> USE DEF TelInd
<1> DEFINE n == Head(batch)
           rest == Tail(batch)
<1>1. /\ publisher = "fallback" /\ batch' = rest
      /\ publisher' = IF batch' = <<>> THEN NextRound ELSE "fallback"
      /\ \/ stream' = Append(stream, n) /\ UNCHANGED lost
         \/ lost' = lost \cup {n} /\ UNCHANGED stream
      /\ UNCHANGED <<setup, kb, cycles, metric, snapshot, immediate, telemetry_queue, batches,
                     running, stopping, snapshots, handled>>
  BY DEF FlushOne, PublisherStep, stopVars
<1>2. batch # <<>> /\ batch \in Sequences /\ stream \in Sequences BY <1>1 DEF Placed
<1>3. /\ n \in Nat /\ rest \in Sequences /\ ToSet(batch) = {n} \cup ToSet(rest)
      /\ Len(rest) = Len(batch) - 1
  BY <1>2, ToSetHead DEF Sequences
<1>4. Increasing(rest) /\ Below({n}, ToSet(rest))
  BY <1>2, IncreasingTail DEF Sequences, Ordered
<1> HIDE DEF n, rest
<1>5. UnderWay = UnderWay' \cup {n} BY <1>1, <1>3 DEF UnderWay
<1>6. n \notin UnderWay' /\ n \in Events
  <2>1. n \notin ToSet(rest) BY <1>3, <1>4 DEF Below
  <2>2. n \in ToSet(batch) /\ ~(n < n) BY <1>3
  <2>3. n \notin InBatches(batches) /\ n \notin ToSet(telemetry_queue)
    BY <2>2 DEF Ordered, Below
  <2> QED BY <1>1, <1>5, <2>1, <2>3 DEF UnderWay, Placed
<1>7. GrownBy(stream', stream, n) BY <1>1, <1>2, <1>3, Grows
<1>8. /\ stream' \in Sequences /\ ToSet(stream) \subseteq ToSet(stream')
      /\ ToSet(stream') \subseteq ToSet(stream) \cup {n}
  BY <1>7 DEF GrownBy
<1>9. n \in ToSet(stream') \/ n \in lost' BY <1>1, <1>2, <1>3, Grows
<1>10. Events' = Events /\ Numeric' = Numeric BY <1>1 DEF Events, Numeric
<1>11. lost \subseteq lost' /\ lost' \subseteq Events BY <1>1, <1>6 DEF Collected
<1>12. publisher' \in {"get", "ended", "fallback"} BY <1>1, RoundIs
<1>13. Placed'
  <2>1. Len(batch') <= BatchSize
    <3>1. PICK l \in Nat : l = Len(batch) BY <1>2 DEF Sequences
    <3>2. l <= BatchSize BY <3>1 DEF Placed
    <3> QED BY <1>1, <1>3, <3>1, <3>2, TelemetryAssumption
  <2>2. publisher' \in {"get", "ended"} => batch' = <<>> BY <1>1
  <2>3. publisher' = "fallback" => batch' # <<>> BY <1>1, RoundIs
  <2> QED BY <1>1, <1>3, <1>5, <1>6, <1>8, <1>10, <1>12, <2>1, <2>2, <2>3 DEF Placed
<1>14. Ordered' BY <1>1, <1>3, <1>4 DEF Ordered, Below
<1>15. Controls' BY <1>1, <1>12 DEF Controls
<1>16. Collected' BY <1>1, <1>10, <1>11 DEF Collected
<1>17. FewCopies'
  <2>1. ASSUME NEW x \in Events PROVE Copies(x)' \in Nat /\ Copies(x)' <= Copies(x)
    <3>1. PICK h \in Nat, t \in Nat : h = handled[x] /\ t = Times(stream, x) BY CopiesAre
    <3>2. PICK u \in 0..1 : u = IF x \in UnderWay' THEN 1 ELSE 0 OBVIOUS
    <3>3. PICK i \in 0..1 : i = IF x \in ToSet(immediate) THEN 1 ELSE 0 OBVIOUS
    <3>4. Times(stream', x) = t \/ (x = n /\ Times(stream', x) = t + 1)
      BY <1>7, <3>1 DEF GrownBy
    <3>5. Copies(x)' = h + (Times(stream', x) + (u + i))
      BY <1>1, <3>1, <3>2, <3>3 DEF Copies, Coming
    <3>6. Copies(x) = h + (t + ((IF x = n THEN 1 ELSE u) + i))
      BY <1>5, <3>1, <3>2, <3>3 DEF Copies, Coming
    <3>7. x = n => u = 0 BY <1>6, <3>2
    <3> QED BY <3>4, <3>5, <3>6, <3>7
  <2> QED BY <1>1, <2>1, CopiesFall
<1>18. NoneLost' BY <1>1, <1>5, <1>8, <1>9, <1>10, <1>11 DEF NoneLost
<1>19. KBKnown' BY <1>1, <1>10 DEF KBKnown
<1>20. WindowsBefore' BY <1>1 DEF WindowsBefore, InOrder
<1> QED BY <1>13, <1>14, <1>15, <1>16, <1>17, <1>18, <1>19, <1>20

LEMMA CountedIs ==
    ASSUME Collected, NEW S
    PROVE  /\ Counted(S) \in [Events -> Nat]
           /\ \A x \in Events :
                 Counted(S)[x] = IF x \in Numeric /\ x \in S THEN handled[x] + 1 ELSE handled[x]
BY DEF Collected, Counted

LEMMA HandleEventKept == ASSUME TelInd, HandleEvent PROVE TelInd'
<1> USE DEF TelInd
<1> DEFINE n == Head(stream)
           rest == Tail(stream)
<1>1. /\ stream # <<>> /\ stream' = rest
      /\ kb' = WithEvent(kb, n) /\ handled' = Counted({n})
      /\ UNCHANGED <<setup, cycles, metric, snapshot, telemetry_queue, publisher, batch, immediate,
                     running, stopping, batches, snapshots, lost>>
  BY DEF HandleEvent, ServiceStep, monitorVars, stopVars
<1>2. stream \in Sequences BY DEF Placed
<1>3. n \in Nat /\ rest \in Sequences /\ ToSet(stream) = {n} \cup ToSet(rest)
  BY <1>1, <1>2, ToSetHead DEF Sequences
<1>4. \A x : Times(stream, x) = IF n = x THEN Times(rest, x) + 1 ELSE Times(rest, x)
  BY <1>1, <1>2, TimesTail
<1>5. \A x : Times(rest, x) \in Nat BY <1>3, TimesIsNumber
<1>6. n \in Events BY <1>3 DEF Placed
<1> HIDE DEF n, rest
<1>7. Events' = Events /\ UnderWay' = UnderWay /\ Numeric' = Numeric
  BY <1>1 DEF Events, UnderWay, Numeric
<1>8. /\ handled' \in [Events -> Nat]
      /\ \A x \in Events : handled'[x] =
            IF x \in Numeric /\ x \in {n} THEN handled[x] + 1 ELSE handled[x]
  BY <1>1, CountedIs
<1>9. Placed' BY <1>1, <1>3, <1>7 DEF Placed
<1>10. Ordered' BY <1>1 DEF Ordered
<1>11. Controls' BY <1>1 DEF Controls
<1>12. Collected' BY <1>1, <1>7, <1>8 DEF Collected
<1>13. FewCopies'
  <2>1. ASSUME NEW x \in Events PROVE Copies(x)' \in Nat /\ Copies(x)' <= Copies(x)
    <3>1. PICK h \in Nat, c \in 0..2 : h = handled[x] /\ c = Coming(x) BY CopiesAre
    <3>2. PICK t \in Nat : t = Times(rest, x) BY <1>5
    <3>3. Copies(x) = h + ((IF n = x THEN t + 1 ELSE t) + c) BY <1>4, <3>1, <3>2 DEF Copies
    <3>4. handled'[x] = h \/ (n = x /\ handled'[x] = h + 1) BY <1>8, <3>1
    <3>5. Copies(x)' = handled'[x] + (t + c) BY <1>1, <1>7, <3>1, <3>2 DEF Copies, Coming
    <3> QED BY <3>3, <3>4, <3>5
  <2> QED BY <1>1, <2>1, CopiesFall
<1>14. NoneLost'
  <2> SUFFICES ASSUME NEW x \in Numeric
               PROVE  handled'[x] > 0 \/ x \in lost \/ x \in UnderWay \/ x \in ToSet(rest)
    BY <1>1, <1>7 DEF NoneLost
  <2>1. x \in Events /\ handled[x] \in Nat BY DEF Numeric, Collected
  <2>2. CASE x = n BY <1>8, <2>1, <2>2
  <2>3. CASE x # n BY <1>3, <1>8, <2>1, <2>3 DEF NoneLost
  <2> QED BY <2>2, <2>3
<1>15. KBKnown' BY <1>1, <1>6, <1>7, EventStored DEF KBKnown, Collected
<1>16. WindowsBefore' BY <1>1 DEF WindowsBefore, InOrder
<1> QED BY <1>9, <1>10, <1>11, <1>12, <1>13, <1>14, <1>15, <1>16

LEMMA HandleBatchKept == ASSUME TelInd, HandleBatch PROVE TelInd' /\ (InOrder => Follows(kb', kb))
<1> USE DEF TelInd
<1> DEFINE b == Head(batches)
           rest == Tail(batches)
<1>1. /\ batches # <<>> /\ batches' = rest
      /\ kb' = After(b) /\ handled' = Counted(ToSet(b))
      /\ UNCHANGED <<setup, cycles, metric, snapshot, telemetry_queue, publisher, batch, immediate,
                     running, stopping, stream, snapshots, lost>>
  BY DEF HandleBatch, ServiceStep, monitorVars, stopVars
<1>2. batches \in Seq(Sequences) BY DEF Placed
<1>3. /\ b \in Sequences /\ rest \in Seq(Sequences)
      /\ InBatches(batches) = ToSet(b) \cup InBatches(rest)
      /\ Increasing(b) /\ InTurn(rest) /\ Below(ToSet(b), InBatches(rest))
  BY <1>1, <1>2, BatchesTail DEF Ordered
<1> HIDE DEF b, rest
<1>4. UnderWay = UnderWay' \cup ToSet(b) BY <1>1, <1>3 DEF UnderWay
<1>5. Below(ToSet(b), UnderWay') BY <1>1, <1>3 DEF UnderWay, Ordered, Below
<1>6. ToSet(b) \subseteq Events BY <1>4 DEF Placed
<1>7. Events' = Events /\ Numeric' = Numeric BY <1>1 DEF Events, Numeric
<1>8. \A x \in ToSet(b) : x \notin UnderWay'
  <2>1. ToSet(b) \subseteq Nat BY <1>3, Elements DEF Sequences
  <2>2. \A x \in Nat : ~(x < x) OBVIOUS
  <2> QED BY <1>5, <2>1, <2>2 DEF Below
<1>9. /\ handled' \in [Events -> Nat]
      /\ \A x \in Events : handled'[x] =
            IF x \in Numeric /\ x \in ToSet(b) THEN handled[x] + 1 ELSE handled[x]
  BY <1>1, CountedIs
<1>10. Placed' BY <1>1, <1>3, <1>4, <1>7 DEF Placed
<1>11. Ordered' BY <1>1, <1>3 DEF Ordered, Below
<1>12. Controls' BY <1>1 DEF Controls
<1>13. Collected' BY <1>1, <1>7, <1>9 DEF Collected
<1>14. FewCopies'
  <2>1. ASSUME NEW x \in Events PROVE Copies(x)' \in Nat /\ Copies(x)' <= Copies(x)
    <3>1. PICK h \in Nat, t \in Nat : h = handled[x] /\ t = Times(stream, x) BY CopiesAre
    <3>2. PICK u \in 0..1 : u = IF x \in UnderWay' THEN 1 ELSE 0 OBVIOUS
    <3>3. PICK i \in 0..1 : i = IF x \in ToSet(immediate) THEN 1 ELSE 0 OBVIOUS
    <3>4. Copies(x) = h + (t + ((IF x \in ToSet(b) THEN 1 ELSE u) + i))
      BY <1>4, <3>1, <3>2, <3>3 DEF Copies, Coming
    <3>5. Copies(x)' = handled'[x] + (t + (u + i))
      BY <1>1, <3>1, <3>2, <3>3 DEF Copies, Coming
    <3>6. handled'[x] = h \/ (x \in ToSet(b) /\ handled'[x] = h + 1) BY <1>9, <3>1
    <3>7. x \in ToSet(b) => u = 0 BY <1>8, <3>2
    <3> QED BY <3>4, <3>5, <3>6, <3>7
  <2> QED BY <1>1, <2>1, CopiesFall
<1>15. NoneLost'
  <2> SUFFICES ASSUME NEW x \in Numeric
               PROVE  handled'[x] > 0 \/ x \in lost \/ x \in UnderWay' \/ x \in ToSet(stream)
    BY <1>1, <1>7 DEF NoneLost
  <2>1. x \in Events /\ handled[x] \in Nat BY DEF Numeric, Collected
  <2>2. CASE x \in ToSet(b) BY <1>9, <2>1, <2>2
  <2>3. CASE x \notin ToSet(b) BY <1>4, <1>9, <2>1, <2>3 DEF NoneLost
  <2> QED BY <2>2, <2>3
<1>16. KBKnown' BY <1>1, <1>3, <1>6, <1>7, BatchStored DEF KBKnown, Collected
<1>17. ASSUME InOrder
       PROVE  /\ publisher # "fallback" /\ stream = <<>> /\ Follows(kb', kb)
              /\ KBInTurn(kb') /\ KBBefore(kb', UnderWay')
  <2>1. /\ publisher # "fallback" /\ stream = <<>> /\ KBInTurn(kb)
        /\ KBBefore(kb, UnderWay)
    BY <1>17 DEF WindowsBefore
  <2>2. KBBefore(kb, ToSet(b)) /\ KBBefore(kb, UnderWay') BY <1>4, <2>1, BeforeLess
  <2>3. /\ KBInTurn(After(b)) /\ Follows(After(b), kb)
        /\ \A S : KBBefore(kb, S) /\ Below(ToSet(b), S) => KBBefore(After(b), S)
    BY <1>3, <1>6, <2>1, <2>2, BatchInTurn DEF Collected, KBKnown
  <2> QED BY <1>1, <1>5, <2>1, <2>2, <2>3
<1>18. WindowsBefore' BY <1>1, <1>17 DEF WindowsBefore, InOrder
<1> QED BY <1>10, <1>11, <1>12, <1>13, <1>14, <1>15, <1>16, <1>17, <1>18

-----------------------------------------------------------------------------
(* Events are collected                                                    *)

LEMMA SettingsAre ==
    ASSUME setup \in Setups
    PROVE  setup.metrics \in Seq(MetricNames) /\ setup.cycles \in Nat
BY TelemetryAssumption DEF SetupType

(* The new events follow on all that were collected before.                *)
Numbered(c, n, m) ==
    c \in Sequences /\ Increasing(c) /\ ToSet(c) = (n + 1)..(n + m)

LEMMA NewEvents ==
    ASSUME NEW got \in Seq(MetricNames), NEW n \in Nat
    PROVE  Numbered([i \in DOMAIN got |-> n + i], n, Len(got))
<1>1. PICK m \in Nat : m = Len(got) OBVIOUS
<1>2. DOMAIN got = 1..m BY <1>1
<1>3. PICK c : c = [i \in 1..m |-> n + i] OBVIOUS
<1>4. c \in Sequences BY <1>3 DEF Sequences
<1>5. DOMAIN c = 1..m /\ \A i \in 1..m : c[i] = n + i BY <1>3
<1>6. Increasing(c) BY <1>5 DEF Increasing
<1>7. ToSet(c) = (n + 1)..(n + m)
  <2>1. ASSUME NEW x \in (n + 1)..(n + m) PROVE x \in ToSet(c)
    <3>1. x - n \in 1..m /\ n + (x - n) = x OBVIOUS
    <3> QED BY <1>5, <3>1 DEF ToSet
  <2>2. ToSet(c) \subseteq (n + 1)..(n + m) BY <1>5 DEF ToSet
  <2> QED BY <2>1, <2>2
<1> QED BY <1>1, <1>2, <1>3, <1>4, <1>6, <1>7 DEF Numbered

(* The counts of the new events are zero.                                  *)
Lengthened(t, h, n, m) ==
    /\ t \in [1..(n + m) -> Nat]
    /\ \A x \in 1..n : t[x] = h[x]
    /\ \A x \in (n + 1)..(n + m) : t[x] = 0

LEMMA HandledGrows ==
    ASSUME NEW n \in Nat, NEW m \in Nat, NEW h, h \in [1..n -> Nat]
    PROVE  Lengthened(h \o [i \in 1..m |-> 0], h, n, m)
<1>1. h \in Seq(Nat) /\ Len(h) = n OBVIOUS
<1>2. PICK z : z = [i \in 1..m |-> 0] OBVIOUS
<1>3. z \in Seq(Nat) /\ Len(z) = m /\ \A i \in 1..m : z[i] = 0 BY <1>2
<1>4. PICK t \in Seq(Nat) : t = h \o z BY <1>1, <1>3, ConcatProperties
<1>5. /\ Len(t) = n + m /\ \A x \in 1..n : t[x] = h[x]
      /\ \A i \in 1..m : t[n + i] = z[i]
  BY <1>1, <1>3, <1>4
<1>6. \A x \in (n + 1)..(n + m) : x - n \in 1..m /\ n + (x - n) = x OBVIOUS
<1>7. \A x \in (n + 1)..(n + m) : t[x] = 0 BY <1>3, <1>5, <1>6
<1>8. t \in [1..(n + m) -> Nat]
  <2>1. t \in [1..Len(t) -> Nat] BY LenProperties
  <2> QED BY <1>5, <2>1
<1> QED BY <1>2, <1>4, <1>5, <1>7, <1>8 DEF Lengthened

LEMMA CollectOnceKept == ASSUME TelInd, CollectOnce PROVE TelInd'
<1> USE DEF TelInd
<1>1. PICK S : Collect(S) BY DEF CollectOnce
<1>2. PICK got \in Seq(MetricNames) : got = Got(S) BY GotIs, SettingsAre DEF Controls
<1>3. PICK l \in Nat, m \in Nat : l = Len(metric) /\ m = Len(got) BY DEF Collected
<1>4. Events = 1..l /\ DOMAIN got = 1..m BY <1>3 DEF Collected, Events
<1>5. PICK c : c = [i \in DOMAIN got |-> l + i] OBVIOUS
<1>6. Numbered(c, l, m) BY <1>3, <1>5, NewEvents
<1>7. c \in Sequences /\ Increasing(c) /\ ToSet(c) = (l + 1)..(l + m) BY <1>6 DEF Numbered
<1>8. PICK e : e = RoomFor(c) OBVIOUS
<1>9. telemetry_queue \in Sequences /\ immediate \in Sequences BY DEF Placed
<1>10. /\ e \in Sequences /\ Increasing(e) /\ ToSet(e) \subseteq (l + 1)..(l + m)
       /\ Len(telemetry_queue) + Len(e) <= QueueSize
  <2>1. Len(telemetry_queue) <= QueueSize BY DEF Placed
  <2> QED BY <1>7, <1>8, <1>9, <2>1, RoomIs DEF Sequences
<1>11. /\ metric' = metric \o got
       /\ handled' = handled \o [i \in 1..m |-> 0]
       /\ telemetry_queue' = telemetry_queue \o e
       /\ immediate' = IF setup.stream THEN immediate \o e ELSE immediate
       /\ lost' = lost \cup (((l + 1)..(l + m)) \ ToSet(e))
  BY <1>1, <1>2, <1>3, <1>4, <1>5, <1>7, <1>8 DEF Collect
<1>12. /\ cycles < setup.cycles /\ cycles' = cycles + 1 /\ snapshot' = "due"
       /\ UNCHANGED <<setup, kb, publisher, batch, running, stopping, stream, batches, snapshots>>
  BY DEF CollectOnce, stopVars, channelVars
<1>13. /\ metric' \in Seq(MetricNames) /\ Len(metric') = l + m
       /\ \A x \in 1..l : metric'[x] = metric[x]
  BY <1>3, <1>11, ConcatProperties DEF Collected
<1>14. Events' = 1..(l + m) BY <1>13 DEF Events
<1>15. 1..(l + m) = 1..l \cup (l + 1)..(l + m) OBVIOUS
<1>16. \A x \in 1..l, y \in (l + 1)..(l + m) : x < y OBVIOUS
<1>17. /\ handled' \in [1..(l + m) -> Nat]
       /\ \A x \in 1..l : handled'[x] = handled[x]
       /\ \A x \in (l + 1)..(l + m) : handled'[x] = 0
  <2>1. handled \in [1..l -> Nat] BY <1>4 DEF Collected
  <2>2. Lengthened(handled \o [i \in 1..m |-> 0], handled, l, m) BY <1>3, <2>1, HandledGrows
  <2> QED BY <1>11, <2>2 DEF Lengthened
<1>18. Collected'
  <2>1. lost' \subseteq 1..(l + m) BY <1>4, <1>11, <1>15 DEF Collected
  <2> QED BY <1>13, <1>14, <1>17, <2>1 DEF Collected
<1>19. Controls'
  <2>1. cycles' \in 0..setup.cycles BY <1>12, SettingsAre DEF Controls
  <2> QED BY <1>12, <2>1 DEF Controls
<1>20. /\ telemetry_queue' \in Sequences
       /\ ToSet(telemetry_queue') = ToSet(telemetry_queue) \cup ToSet(e)
       /\ Len(telemetry_queue') = Len(telemetry_queue) + Len(e)
  BY <1>9, <1>10, <1>11, ToSetConcat, ConcatProperties DEF Sequences
<1>21. UnderWay' = UnderWay \cup ToSet(e) BY <1>12, <1>20 DEF UnderWay
<1>22. /\ immediate' \in Sequences /\ ToSet(immediate') \subseteq ToSet(immediate) \cup ToSet(e)
       /\ ~setup.stream => immediate' = <<>>
  <2>1. CASE setup.stream
    BY <1>9, <1>10, <1>11, <2>1, ToSetConcat, ConcatProperties DEF Sequences
  <2>2. CASE ~setup.stream BY <1>9, <1>11, <2>2 DEF Placed
  <2> QED BY <2>1, <2>2
<1>23. Below(1..l, ToSet(e)) BY <1>10, <1>16 DEF Below
<1>24. UnderWay \subseteq 1..l /\ ToSet(immediate) \subseteq 1..l /\ ToSet(stream) \subseteq 1..l
  BY <1>4 DEF Placed
<1>25. Placed'
  <2>1. UnderWay' \subseteq Events' /\ ToSet(immediate') \subseteq Events'
        /\ ToSet(stream') \subseteq Events'
    BY <1>10, <1>12, <1>14, <1>15, <1>21, <1>22, <1>24
  <2> QED BY <1>10, <1>12, <1>20, <1>22, <2>1 DEF Placed
<1>26. Ordered'
  <2>1. InBatches(batches) \subseteq 1..l /\ ToSet(batch) \subseteq 1..l
        /\ ToSet(telemetry_queue) \subseteq 1..l
    BY <1>24 DEF UnderWay
  <2>2. Below(ToSet(telemetry_queue), ToSet(e)) /\ Below(ToSet(immediate), ToSet(e))
        /\ Below(ToSet(batch), ToSet(e)) /\ Below(InBatches(batches), ToSet(e))
    BY <1>23, <1>24, <2>1 DEF Below
  <2>3. Increasing(telemetry_queue')
    BY <1>9, <1>10, <1>11, <2>2, IncreasingConcat DEF Sequences, Ordered
  <2>4. Increasing(immediate')
    BY <1>9, <1>10, <1>11, <2>2, IncreasingConcat DEF Sequences, Ordered
  <2>5. Below(InBatches(batches), ToSet(batch) \cup ToSet(telemetry_queue'))
    BY <1>20, <2>2 DEF Ordered, Below
  <2>6. Below(ToSet(batch), ToSet(telemetry_queue')) BY <1>20, <2>2 DEF Ordered, Below
  <2> QED BY <1>12, <2>3, <2>4, <2>5, <2>6 DEF Ordered
<1>27. FewCopies'
  <2>1. Limit' = Limit BY <1>12 DEF Limit
  <2>2. ASSUME NEW x \in 1..l PROVE Copies(x)' <= Limit
    <3>1. x \notin ToSet(e) BY <1>10, <1>16
    <3>2. x \in ToSet(immediate') => x \in ToSet(immediate) BY <1>22, <3>1
    <3>3. x \in UnderWay' <=> x \in UnderWay BY <1>21, <3>1
    <3>4. Coming(x)' \in 0..2 /\ Coming(x)' <= Coming(x) BY <3>2, <3>3 DEF Coming
    <3>5. PICK h \in Nat, t \in Nat, d \in 0..2 :
             h = handled[x] /\ t = Times(stream, x) /\ d = Coming(x)
      BY <1>4, CopiesAre
    <3>6. Copies(x)' = h + (t + Coming(x)') BY <1>12, <1>17, <3>5 DEF Copies
    <3>7. Copies(x) = h + (t + d) BY <3>5 DEF Copies
    <3>8. Copies(x) <= Limit BY <1>4 DEF FewCopies
    <3>9. Limit \in Nat BY DEF Limit
    <3> QED BY <3>4, <3>5, <3>6, <3>7, <3>8, <3>9
  <2>3. ASSUME NEW x \in (l + 1)..(l + m) PROVE Copies(x)' <= Limit
    <3>1. x \notin 1..l BY <1>16
    <3>2. Times(stream, x) = 0 BY <1>24, <3>1, TimesIsNumber DEF Placed
    <3>3. Copies(x)' = 0 + (0 + Coming(x)') BY <1>12, <1>17, <3>2 DEF Copies
    <3>4. CASE setup.stream
      <4>1. Coming(x)' \in 0..2 BY DEF Coming
      <4> QED BY <3>3, <3>4, <4>1 DEF Limit
    <3>5. CASE ~setup.stream
      <4>1. ToSet(immediate') = {} BY <1>22, <3>5, ToSetEmpty
      <4>2. Coming(x)' \in 0..1 BY <4>1 DEF Coming
      <4> QED BY <3>3, <3>5, <4>2 DEF Limit
    <3> QED BY <3>4, <3>5
  <2> QED BY <1>14, <1>15, <2>1, <2>2, <2>3 DEF FewCopies
<1>28. NoneLost'
  <2> SUFFICES ASSUME NEW x \in Numeric'
               PROVE  handled'[x] > 0 \/ x \in lost' \/ x \in UnderWay' \/ x \in ToSet(stream)
    BY <1>12 DEF NoneLost
  <2>1. x \in 1..(l + m) /\ metric'[x] \notin Textual BY <1>14 DEF Numeric
  <2>2. CASE x \in 1..l
    <3>1. x \in Numeric BY <1>4, <1>13, <2>1, <2>2 DEF Numeric
    <3> QED BY <1>11, <1>17, <1>21, <2>2, <3>1 DEF NoneLost
  <2>3. CASE x \in (l + 1)..(l + m) BY <1>11, <1>21, <2>3
  <2> QED BY <1>15, <2>1, <2>2, <2>3
<1>29. KBKnown' BY <1>4, <1>12, <1>14, <1>15 DEF KBKnown, KBIn
<1>30. WindowsBefore'
  <2> SUFFICES ASSUME InOrder PROVE WindowsBefore' BY <1>12 DEF WindowsBefore, InOrder
  <2>1. /\ publisher # "fallback" /\ stream = <<>> /\ KBInTurn(kb)
        /\ KBBefore(kb, UnderWay)
    BY DEF WindowsBefore
  <2>2. KBBefore(kb, ToSet(e)) BY <1>4, <1>23 DEF KBKnown, KBIn, KBBefore, Below
  <2>3. KBBefore(kb, UnderWay') BY <1>21, <2>1, <2>2 DEF KBBefore, Below
  <2> QED BY <1>12, <2>1, <2>3 DEF WindowsBefore
<1> QED BY <1>18, <1>19, <1>25, <1>26, <1>27, <1>28, <1>29, <1>30

-----------------------------------------------------------------------------
(* Every step                                                              *)

LEMMA TelStutters == ASSUME TelInd, UNCHANGED vars PROVE TelInd'
<1>1. UNCHANGED <<Queues, kb, handled, lost>>
  BY DEF vars, Queues, monitorVars, stopVars, channelVars, historyVars
<1>2. Controls' BY DEF TelInd, Controls, vars, monitorVars, stopVars, channelVars
<1> QED BY <1>1, <1>2, AllStays

LEMMA TelNextKept == ASSUME TelInd, Next PROVE TelInd'
<1>1. CASE Collector
  BY <1>1, CollectOnceKept, SnapshotStoredKept, PublishEventKept DEF Collector
<1>2. CASE Publisher
  BY <1>2, GetFirstKept, WaitKept, FillBatchKept, FlushBatchKept, FlushOneKept DEF Publisher
<1>3. CASE RequestStop BY <1>3, RequestStopKept
<1>4. CASE Stop BY <1>4, EndDrainingKept, EndGatheringKept DEF Stop
<1>5. CASE Service
  BY <1>5, HandleEventKept, HandleBatchKept, HandleSnapshotKept DEF Service
<1>6. CASE Callers BY <1>6, CallersKept
<1> QED BY <1>1, <1>2, <1>3, <1>4, <1>5, <1>6 DEF Next

LEMMA TelStepKept == TelInd /\ [TunedNext]_<<vars, metaVars>> => TelInd'
BY TelNextKept, TelStutters DEF TunedNext

(* What the invariant says, in the words of the properties.                *)
LEMMA NoneLostSays == NoneLost => NothingVanishes
<1> SUFFICES ASSUME NoneLost, NEW n \in Numeric
             PROVE  \/ handled[n] > 0 \/ n \in lost
                    \/ InSome(<<telemetry_queue, batch, stream>>, n) \/ InSome(batches, n)
  BY DEF NothingVanishes
<1>1. handled[n] > 0 \/ n \in lost \/ n \in UnderWay \/ n \in ToSet(stream) BY DEF NoneLost
<1>2. PICK three : three = <<telemetry_queue, batch, stream>> OBVIOUS
<1>3. /\ 1 \in DOMAIN three /\ 2 \in DOMAIN three /\ 3 \in DOMAIN three
      /\ three[1] = telemetry_queue /\ three[2] = batch /\ three[3] = stream
  BY <1>2
<1>4. n \in ToSet(telemetry_queue) \cup ToSet(batch) \cup ToSet(stream) => InSome(three, n)
  BY <1>3 DEF InSome
<1>5. n \in InBatches(batches) => InSome(batches, n) BY DEF InSome, InBatches
<1> QED BY <1>1, <1>2, <1>4, <1>5 DEF UnderWay

LEMMA FewCopiesSay == TelInd => CountedAtMost
<1> SUFFICES ASSUME TelInd, NEW n \in Events PROVE handled[n] <= Limit
  BY DEF CountedAtMost, Limit
<1>1. PICK h \in Nat, t \in Nat, d \in 0..2 :
         h = handled[n] /\ t = Times(stream, n) /\ d = Coming(n)
  BY CopiesAre DEF TelInd
<1>2. h + (t + d) <= Limit BY <1>1 DEF TelInd, FewCopies, Copies
<1>3. Limit \in Nat BY DEF Limit
<1> QED BY <1>1, <1>2, <1>3

LEMMA IndexIsTriples == ASSUME NEW E, NEW I, Indexed(E, I) PROVE \A t \in I : Len(t) = 3
<1> SUFFICES ASSUME NEW t \in I PROVE Len(t) = 3 OBVIOUS
<1>1. PICK field, key, id : t = <<field, key, id>> BY DEF Indexed
<1> QED BY <1>1

LEMMA TelIsTyped == TelInd => TypeOK
<1> SUFFICES ASSUME TelInd PROVE TypeOK OBVIOUS
<1> USE DEF TelInd
<1>1. KBIs(kb) /\ KBIn(kb, Events) BY DEF KBKnown
<1>2. \A id \in DOMAIN kb.entries : kb.entries[id] \in EntryType BY <1>1 DEF KBIs
<1>3. \A t \in kb.index : Len(t) = 3 BY <1>1, IndexIsTriples DEF KBIs
<1>4. \A m \in MetricNames : /\ Len(kb.buffers[m]) <= BufferSize
                             /\ ToSet(kb.buffers[m]) \subseteq Events
  BY <1>1 DEF KBIs, KBIn
<1>5. \A i \in DOMAIN batches : ToSet(batches[i]) \subseteq Events
  BY DEF Placed, UnderWay, InBatches
<1>6. ToSet(telemetry_queue) \cup ToSet(batch) \cup ToSet(immediate) \cup ToSet(stream)
         \subseteq Events
  BY DEF Placed, UnderWay
<1>7. Len(telemetry_queue) <= QueueSize /\ Len(batch) <= BatchSize BY DEF Placed
<1> QED BY <1>2, <1>3, <1>4, <1>5, <1>6, <1>7 DEF TypeOK, Controls, Collected

LEMMA TelSays == TelInd => TelemetryInv /\ StructuredQueryIsScan
<1> SUFFICES ASSUME TelInd PROVE TelemetryInv /\ StructuredQueryIsScan OBVIOUS
<1>1. Indexed(kb.entries, kb.index) BY DEF TelInd, KBKnown, KBIs
<1>2. StructuredQueryIsScan BY <1>1, ScanIsFound DEF StructuredQueryIsScan
<1>3. KeywordSearchFinds BY <1>1, SearchFinds
<1> QED BY <1>2, <1>3, TelIsTyped, FewCopiesSay, NoneLostSays DEF TelemetryInv, TelInd

(* Telemetry, the knowledge base and its indexes hang together in every    *)
(* state, whatever is collected, dropped, stored, replaced or deleted.     *)
THEOREM TelemetryIndHolds == TunedSpec => []TelInd
<1>1. TunedInit => TelInd BY TelInitially DEF TunedInit
<1>2. TelInd /\ [TunedNext]_<<vars, metaVars>> => TelInd' BY TelStepKept
<1> QED BY <1>1, <1>2, PTL DEF TunedSpec

(* Everything that is checked of the states of telemetry and tuning: no    *)
(* event is lost or counted too often, every search finds what it should,  *)
(* and what was saved is what the reasoner works with.                     *)
THEOREM TunedHolds == TunedSpec => []TunedInv
<1>1. TelInd /\ MetaTypeOK /\ TuningTakesHold => TunedInv BY TelSays DEF TunedInv
<1>2. TunedSpec => []TelInd BY TelemetryIndHolds
<1>3. TunedSpec => [](MetaTypeOK /\ TuningTakesHold) BY TuningHolds
<1> QED BY <1>1, <1>2, <1>3, PTL

-----------------------------------------------------------------------------
(* The windows of the observations                                         *)
Forward ==
    InOrder => \A m \in MetricNames \cap DOMAIN kb.entries \cap DOMAIN kb'.entries :
       \/ kb'.entries[m].window = kb.entries[m].window
       \/ kb'.entries[m].window[1] > kb.entries[m].window[2]

LEMMA StepForward == TelInd /\ [TunedNext]_<<vars, metaVars>> => Forward
<1> SUFFICES ASSUME TelInd, [TunedNext]_<<vars, metaVars>>, InOrder PROVE Forward
  BY DEF Forward
<1>1. CASE kb' = kb BY <1>1 DEF Forward
<1>2. CASE Fewer(kb', kb) BY <1>2 DEF Forward, Fewer
<1>3. CASE Next
  <2>1. CASE Callers BY <1>2, <2>1, CallersKept
  <2>2. CASE HandleSnapshot BY <1>2, <2>2, HandleSnapshotKept
  <2>3. CASE HandleEvent
    <3>1. stream # <<>> BY <2>3 DEF HandleEvent
    <3> QED BY <3>1 DEF TelInd, WindowsBefore
  <2>4. CASE HandleBatch
    <3>1. Follows(kb', kb) BY <2>4, HandleBatchKept
    <3> QED BY <3>1 DEF Follows, Forward
  <2>5. CASE Collector
    BY <1>1, <2>5 DEF Collector, CollectOnce, StoreSystemSnapshot, PublishEvent
  <2>6. CASE Publisher
    BY <1>1, <2>6 DEF Publisher, PublisherStep, GetFirst, GetTimesOut, FillBatch, BatchWaitEnds,
       FlushBatch, FlushOne
  <2>7. CASE RequestStop \/ Stop
    BY <1>1, <2>7 DEF Stop, RequestStop, EndDraining, EndGathering
  <2> QED BY <1>3, <2>1, <2>2, <2>3, <2>4, <2>5, <2>6, <2>7 DEF Next, Service
<1>4. CASE UNCHANGED vars BY <1>1, <1>4 DEF vars
<1> QED BY <1>3, <1>4 DEF TunedNext

(* Without streaming and failures the windows of a metric are in order and *)
(* do not overlap.                                                         *)
THEOREM WindowsStayInOrder == TunedSpec => WindowsInOrder
<1>1. TelInd /\ [TunedNext]_<<vars, metaVars>> => [Forward]_vars BY StepForward
<1>2. TunedSpec => []TelInd BY TelemetryIndHolds
<1>3. TunedSpec => [][TunedNext]_<<vars, metaVars>> BY PTL DEF TunedSpec
<1>4. TunedSpec => [][Forward]_vars BY <1>1, <1>2, <1>3, PTL
<1> QED BY <1>4 DEF Forward, WindowsInOrder
=============================================================================
