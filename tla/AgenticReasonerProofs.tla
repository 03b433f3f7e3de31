------------------------ MODULE AgenticReasonerProofs ------------------------
(***************************************************************************)
(* The digital twin, its client and the agentic reasoner, for every        *)
(* traffic, every size of the queue and the batches and every number of    *)
(* subscriptions, reloads, crashes, retries and tool calls: an event is at *)
(* one place at any time and the model gets those of a subscription in the *)
(* order of their publication; reloads leave the model running; a failing  *)
(* twin is spared; the budget of tool calls is kept.                       *)
(***************************************************************************)
EXTENDS AgenticReasoner, FiniteSetTheorems, WellFoundedInduction, TLAPS

-----------------------------------------------------------------------------
(* Induction over the natural numbers, for sets                            *)

LEMMA LeastNumber ==
    ASSUME NEW T, T \subseteq Nat, T # {}
    PROVE  \E x \in T : \A y \in T : x <= y
<1>1. IsWellFoundedOn({ss \in Nat \X Nat : ss[1] < ss[2]}, Nat)
  BY NatLessThanWellFounded DEF OpToRel
<1>2. PICK x \in T : \A y \in T : ~(<<y, x>> \in {ss \in Nat \X Nat : ss[1] < ss[2]})
  BY <1>1, WFMin
<1>3. \A y \in T : ~(y < x) BY <1>2
<1> QED BY <1>3

LEMMA Upwards ==
    ASSUME NEW S, 0 \in S, \A n \in Nat : n \in S => n + 1 \in S
    PROVE  Nat \subseteq S
<1> SUFFICES ASSUME Nat \ S # {} PROVE FALSE OBVIOUS
<1>1. PICK x \in Nat \ S : \A y \in Nat \ S : x <= y BY LeastNumber
<1>2. x # 0 /\ x - 1 \in Nat BY <1>1
<1>3. x - 1 \in S BY <1>1, <1>2
<1> QED BY <1>1, <1>2, <1>3

-----------------------------------------------------------------------------
(* Sequences of events, in the order of publication                        *)

Channel(tr, e) == tr[e[1]].channel
Before(e, d) == e[1] < d[1] \/ (e[1] = d[1] /\ e[2] < d[2])
Precedes(tr, e, d) == Channel(tr, e) = Channel(tr, d) => Before(e, d)
Ordered(tr, s) == \A i, j \in DOMAIN s : i < j => Precedes(tr, s[i], s[j])
InOrder(tr, A, B) == \A e \in A, d \in B : Precedes(tr, e, d)
Pairs == Nat \X Nat

LEMMA Irreflexive == \A tr : \A e \in Pairs : ~Precedes(tr, e, e)
BY DEF Precedes, Before, Pairs

LEMMA NothingOrdered ==
    ASSUME NEW tr, NEW S
    PROVE  <<>> \in Seq(S) /\ ToSet(<<>>) = {} /\ Ordered(tr, <<>>)
<1>1. DOMAIN <<>> = {} OBVIOUS
<1>2. ToSet(<<>>) = {} BY <1>1 DEF ToSet
<1>3. Ordered(tr, <<>>) BY <1>1 DEF Ordered
<1>4. <<>> \in Seq(S) OBVIOUS
<1> QED BY <1>2, <1>3, <1>4

LEMMA Elements == ASSUME NEW S, NEW s \in Seq(S) PROVE ToSet(s) \subseteq S
BY DEF ToSet

LEMMA Wider == ASSUME NEW A, NEW B, A \subseteq B, NEW s \in Seq(A) PROVE s \in Seq(B)
<1>1. Len(s) \in Nat /\ \A i \in 1..Len(s) : s[i] \in A OBVIOUS
<1>2. \A i \in 1..Len(s) : s[i] \in B BY <1>1
<1>3. s = [i \in 1..Len(s) |-> s[i]] OBVIOUS
<1> QED BY <1>1, <1>2, <1>3

LEMMA AppendedTo ==
    ASSUME NEW S, NEW s \in Seq(S), NEW x \in S
    PROVE  Append(s, x) \in Seq(S) /\ ToSet(Append(s, x)) = ToSet(s) \cup {x}
<1>1. DOMAIN Append(s, x) = 1..(Len(s) + 1) /\ DOMAIN s = 1..Len(s) /\ Len(s) \in Nat OBVIOUS
<1>2. \A i \in 1..Len(s) : Append(s, x)[i] = s[i] OBVIOUS
<1>3. Append(s, x)[Len(s) + 1] = x OBVIOUS
<1> QED BY <1>1, <1>2, <1>3 DEF ToSet

LEMMA AppendOrdered ==
    ASSUME NEW tr, NEW S, NEW s \in Seq(S), NEW x \in S, Ordered(tr, s), InOrder(tr, ToSet(s), {x})
    PROVE  Ordered(tr, Append(s, x))
<1> SUFFICES ASSUME NEW i \in 1..(Len(s) + 1), NEW j \in 1..(Len(s) + 1), i < j
             PROVE  Precedes(tr, Append(s, x)[i], Append(s, x)[j])
  BY DEF Ordered
<1>1. Append(s, x)[i] = s[i] /\ i \in DOMAIN s OBVIOUS
<1>2. CASE j = Len(s) + 1
  <2>1. Append(s, x)[j] = x BY <1>2
  <2>2. s[i] \in ToSet(s) BY <1>1 DEF ToSet
  <2> QED BY <1>1, <2>1, <2>2 DEF InOrder
<1>3. CASE j # Len(s) + 1
  <2>1. Append(s, x)[j] = s[j] /\ j \in DOMAIN s BY <1>3
  <2> QED BY <1>1, <2>1 DEF Ordered
<1> QED BY <1>2, <1>3

LEMMA HeadAndTail ==
    ASSUME NEW S, NEW s \in Seq(S), s # <<>>
    PROVE  /\ Head(s) \in S /\ Tail(s) \in Seq(S) /\ Len(Tail(s)) = Len(s) - 1
           /\ ToSet(s) = {Head(s)} \cup ToSet(Tail(s))
<1>1. /\ DOMAIN Tail(s) = 1..(Len(s) - 1) /\ DOMAIN s = 1..Len(s) /\ Len(s) \in Nat \ {0}
      /\ Head(s) = s[1] /\ \A i \in 1..(Len(s) - 1) : Tail(s)[i] = s[i + 1]
  OBVIOUS
<1>2. ToSet(Tail(s)) \subseteq ToSet(s) /\ Head(s) \in ToSet(s)
  BY <1>1 DEF ToSet
<1>3. ASSUME NEW i \in DOMAIN s PROVE s[i] \in {Head(s)} \cup ToSet(Tail(s))
  <2>1. CASE i = 1 BY <1>1, <2>1
  <2>2. CASE i # 1
    <3>1. i - 1 \in 1..(Len(s) - 1) BY <1>1, <2>2
    <3>2. Tail(s)[i - 1] = s[i] BY <1>1, <3>1
    <3> QED BY <1>1, <3>1, <3>2 DEF ToSet
  <2> QED BY <2>1, <2>2
<1>4. ToSet(s) \subseteq {Head(s)} \cup ToSet(Tail(s)) BY <1>3 DEF ToSet
<1> QED BY <1>2, <1>4

LEMMA TailOrdered ==
    ASSUME NEW tr, NEW S, NEW s \in Seq(S), s # <<>>, Ordered(tr, s)
    PROVE  Ordered(tr, Tail(s)) /\ InOrder(tr, {Head(s)}, ToSet(Tail(s)))
<1>1. /\ DOMAIN Tail(s) = 1..(Len(s) - 1) /\ DOMAIN s = 1..Len(s) /\ Len(s) \in Nat \ {0}
      /\ Head(s) = s[1] /\ \A i \in 1..(Len(s) - 1) : Tail(s)[i] = s[i + 1]
  OBVIOUS
<1>2. \A i \in 1..(Len(s) - 1) : i + 1 \in DOMAIN s /\ 1 < i + 1 /\ 1 \in DOMAIN s BY <1>1
<1>3. \A i, j \in 1..(Len(s) - 1) : i < j => i + 1 < j + 1 BY <1>1
<1> QED BY <1>1, <1>2, <1>3 DEF Ordered, InOrder, ToSet

LEMMA Concatenated ==
    ASSUME NEW S, NEW s \in Seq(S), NEW t \in Seq(S)
    PROVE  s \o t \in Seq(S) /\ ToSet(s \o t) = ToSet(s) \cup ToSet(t)
<1>1. /\ DOMAIN (s \o t) = 1..(Len(s) + Len(t)) /\ DOMAIN s = 1..Len(s) /\ DOMAIN t = 1..Len(t)
      /\ Len(s) \in Nat /\ Len(t) \in Nat
  OBVIOUS
<1>2. \A i \in 1..Len(s) : (s \o t)[i] = s[i] OBVIOUS
<1>3. \A i \in 1..Len(t) : (s \o t)[Len(s) + i] = t[i] OBVIOUS
<1>4. \A i \in 1..Len(s) : i \in DOMAIN (s \o t) BY <1>1
<1>5. \A i \in 1..Len(t) : Len(s) + i \in DOMAIN (s \o t) BY <1>1
<1>6. ToSet(s) \cup ToSet(t) \subseteq ToSet(s \o t)
  BY <1>1, <1>2, <1>3, <1>4, <1>5 DEF ToSet
<1>7. ASSUME NEW i \in DOMAIN (s \o t) PROVE (s \o t)[i] \in ToSet(s) \cup ToSet(t)
  <2>1. CASE i <= Len(s) BY <1>1, <1>2, <2>1 DEF ToSet
  <2>2. CASE i > Len(s)
    <3>1. i - Len(s) \in 1..Len(t) /\ Len(s) + (i - Len(s)) = i BY <1>1, <2>2
    <3>2. (s \o t)[i] = t[i - Len(s)] BY <1>3, <3>1
    <3> QED BY <1>1, <3>1, <3>2 DEF ToSet
  <2> QED BY <1>1, <2>1, <2>2
<1>8. ToSet(s \o t) \subseteq ToSet(s) \cup ToSet(t) BY <1>7 DEF ToSet
<1> QED BY <1>6, <1>8

LEMMA ConcatenatedOrdered ==
    ASSUME NEW tr, NEW S, NEW s \in Seq(S), NEW t \in Seq(S), Ordered(tr, s), Ordered(tr, t),
           InOrder(tr, ToSet(s), ToSet(t))
    PROVE  Ordered(tr, s \o t)
<1>1. /\ DOMAIN (s \o t) = 1..(Len(s) + Len(t)) /\ DOMAIN s = 1..Len(s) /\ DOMAIN t = 1..Len(t)
      /\ Len(s) \in Nat /\ Len(t) \in Nat
  OBVIOUS
<1>2. \A i \in 1..Len(s) : (s \o t)[i] = s[i] OBVIOUS
<1>3. \A i \in 1..Len(t) : (s \o t)[Len(s) + i] = t[i] OBVIOUS
<1> SUFFICES ASSUME NEW i \in 1..(Len(s) + Len(t)), NEW j \in 1..(Len(s) + Len(t)), i < j
             PROVE  Precedes(tr, (s \o t)[i], (s \o t)[j])
  BY <1>1 DEF Ordered
<1>4. CASE j <= Len(s)
  <2>1. i \in DOMAIN s /\ j \in DOMAIN s /\ (s \o t)[i] = s[i] /\ (s \o t)[j] = s[j]
    BY <1>1, <1>2, <1>4
  <2> QED BY <2>1 DEF Ordered
<1>5. ASSUME NEW k \in 1..(Len(s) + Len(t)), k > Len(s)
      PROVE  k - Len(s) \in DOMAIN t /\ (s \o t)[k] = t[k - Len(s)]
  <2>1. k - Len(s) \in 1..Len(t) /\ Len(s) + (k - Len(s)) = k BY <1>1, <1>5
  <2> QED BY <1>1, <1>3, <2>1
<1>6. CASE i <= Len(s) /\ j > Len(s)
  <2>1. i \in DOMAIN s /\ (s \o t)[i] = s[i] BY <1>1, <1>2, <1>6
  <2>2. j - Len(s) \in DOMAIN t /\ (s \o t)[j] = t[j - Len(s)] BY <1>5, <1>6
  <2>3. s[i] \in ToSet(s) /\ t[j - Len(s)] \in ToSet(t) BY <2>1, <2>2 DEF ToSet
  <2> QED BY <2>1, <2>2, <2>3 DEF InOrder
<1>7. CASE i > Len(s)
  <2>1. i - Len(s) \in DOMAIN t /\ (s \o t)[i] = t[i - Len(s)] BY <1>5, <1>7
  <2>2. j > Len(s) BY <1>1, <1>7
  <2>3. j - Len(s) \in DOMAIN t /\ (s \o t)[j] = t[j - Len(s)] BY <1>5, <2>2
  <2>4. i - Len(s) < j - Len(s) BY <1>1
  <2> QED BY <2>1, <2>3, <2>4 DEF Ordered
<1> QED BY <1>1, <1>4, <1>6, <1>7

-----------------------------------------------------------------------------
(* What _process_batch makes of a batch                                    *)

LEMMA TakenOf ==
    ASSUME NEW tr, NEW S, NEW b \in Seq(S), Ordered(tr, b)
    PROVE  /\ Taken(b) \in Seq(S) /\ Ordered(tr, Taken(b))
           /\ ToSet(Taken(b)) = {e \in ToSet(b) : ~Refused(e)}
<1> DEFINE Next1(t, i) == IF Refused(b[i]) THEN t ELSE Append(t, b[i])
           Rule(f, n) == f = [i \in 0..n |-> IF i = 0 THEN <<>>
                                            ELSE IF Refused(b[i]) THEN f[i - 1] ELSE Append(f[i - 1], b[i])]
           taken[i \in 0..Len(b)] ==
               IF i = 0 THEN <<>>
               ELSE IF Refused(b[i]) THEN taken[i - 1] ELSE Append(taken[i - 1], b[i])
<1>1. \E f : Rule(f, 0)
  <2>1. Rule([i \in 0..0 |-> <<>>], 0)
    <3>1. \A i \in 0..0 : i = 0 OBVIOUS
    <3> QED BY <3>1
  <2> QED BY <2>1
<1>2. ASSUME NEW n \in Nat, NEW f, Rule(f, n) PROVE \E g : Rule(g, n + 1)
  <2>1. PICK g : g = [i \in 0..(n + 1) |-> IF i = n + 1 THEN Next1(f[n], n + 1) ELSE f[i]]
    OBVIOUS
  <2>2. ASSUME NEW i \in 0..(n + 1)
        PROVE  g[i] = IF i = 0 THEN <<>>
                      ELSE IF Refused(b[i]) THEN g[i - 1] ELSE Append(g[i - 1], b[i])
    <3>1. CASE i = n + 1
      <4>1. n \in 0..(n + 1) /\ n # n + 1 /\ i - 1 = n /\ i # 0 BY <3>1
      <4>2. g[n] = f[n] BY <2>1, <4>1
      <4>3. g[i] = Next1(f[n], n + 1) BY <2>1, <3>1
      <4> QED BY <3>1, <4>1, <4>2, <4>3
    <3>2. CASE i = 0
      <4>1. 0 \in 0..n /\ 0 # n + 1 OBVIOUS
      <4>2. f[0] = <<>> BY <1>2, <4>1
      <4> QED BY <2>1, <3>2, <4>1, <4>2
    <3>3. CASE i # n + 1 /\ i # 0
      <4>1. i \in 0..n /\ i - 1 \in 0..(n + 1) /\ i - 1 # n + 1 BY <3>3
      <4>2. g[i] = f[i] /\ g[i - 1] = f[i - 1] BY <2>1, <3>3, <4>1
      <4>3. f[i] = IF i = 0 THEN <<>>
                   ELSE IF Refused(b[i]) THEN f[i - 1] ELSE Append(f[i - 1], b[i])
        BY <1>2, <4>1
      <4> QED BY <4>2, <4>3
    <3> QED BY <3>1, <3>2, <3>3
  <2>3. Rule(g, n + 1) BY <2>1, <2>2
  <2> QED BY <2>3
<1>3. \A n \in Nat : \E f : Rule(f, n)
  <2> DEFINE T == {n \in Nat : \E f : Rule(f, n)}
  <2> HIDE DEF Rule
  <2>1. 0 \in T BY <1>1
  <2>2. \A n \in Nat : n \in T => n + 1 \in T
    <3> SUFFICES ASSUME NEW n \in T PROVE \E g : Rule(g, n + 1) OBVIOUS
    <3>1. PICK f : Rule(f, n) OBVIOUS
    <3> QED BY <1>2, <3>1
  <2> HIDE DEF T
  <2>3. Nat \subseteq T BY <2>1, <2>2, Upwards
  <2> QED BY <2>3 DEF T
<1>4. Len(b) \in Nat OBVIOUS
<1>5. Rule(taken, Len(b))
  <2>1. PICK f : Rule(f, Len(b)) BY <1>3, <1>4
  <2> QED BY <2>1
<1>6. Taken(b) = taken[Len(b)] BY DEF Taken
<1> DEFINE Kept(n) == {b[k] : k \in {m \in 1..n : ~Refused(b[m])}}
           Good(n) == /\ taken[n] \in Seq(S) /\ Ordered(tr, taken[n])
                      /\ ToSet(taken[n]) = Kept(n)
<1> HIDE DEF taken
<1>7. taken[0] = <<>> BY <1>4, <1>5
<1>8. Good(0)
  <2>1. Kept(0) = {} OBVIOUS
  <2>2. <<>> \in Seq(S) /\ ToSet(<<>>) = {} /\ Ordered(tr, <<>>) BY NothingOrdered
  <2> QED BY <1>7, <2>1, <2>2
<1>9. ASSUME NEW n \in Nat, n + 1 <= Len(b), Good(n) PROVE Good(n + 1)
  <2>1. n + 1 \in 0..Len(b) /\ n + 1 # 0 /\ (n + 1) - 1 = n /\ n + 1 \in 1..Len(b)
    BY <1>4, <1>9
  <2>2. taken[n + 1] = IF Refused(b[n + 1]) THEN taken[n] ELSE Append(taken[n], b[n + 1])
    BY <1>5, <2>1
  <2>3. \A m : m \in 1..(n + 1) <=> m \in 1..n \/ m = n + 1 OBVIOUS
  <2>4. CASE Refused(b[n + 1])
    <3>1. Kept(n + 1) = Kept(n) BY <2>3, <2>4
    <3> QED BY <1>9, <2>2, <2>4, <3>1
  <2>5. CASE ~Refused(b[n + 1])
    <3>1. Kept(n + 1) = Kept(n) \cup {b[n + 1]} BY <2>3, <2>5
    <3>2. b[n + 1] \in S BY <2>1
    <3>3. InOrder(tr, Kept(n), {b[n + 1]})
      <4>1. \A m \in 1..n : m \in DOMAIN b /\ n + 1 \in DOMAIN b /\ m < n + 1 BY <1>4, <2>1
      <4>2. \A m \in 1..n : Precedes(tr, b[m], b[n + 1]) BY <4>1 DEF Ordered
      <4> QED BY <4>2 DEF InOrder
    <3>4. Ordered(tr, Append(taken[n], b[n + 1])) BY <1>9, <3>2, <3>3, AppendOrdered
    <3>5. /\ Append(taken[n], b[n + 1]) \in Seq(S)
          /\ ToSet(Append(taken[n], b[n + 1])) = ToSet(taken[n]) \cup {b[n + 1]}
      BY <1>9, <3>2, AppendedTo
    <3> QED BY <1>9, <2>2, <2>5, <3>1, <3>4, <3>5
  <2> QED BY <2>4, <2>5
<1>10. Good(Len(b))
  <2> DEFINE T == {n \in Nat : n <= Len(b) => Good(n)}
  <2> HIDE DEF Good
  <2>1. 0 \in T BY <1>8
  <2>2. \A n \in Nat : n \in T => n + 1 \in T
    <3> SUFFICES ASSUME NEW n \in T, n + 1 <= Len(b) PROVE Good(n + 1) OBVIOUS
    <3>1. n \in Nat /\ n <= Len(b) BY <1>4
    <3> QED BY <1>9, <3>1
  <2> HIDE DEF T
  <2>3. Nat \subseteq T BY <2>1, <2>2, Upwards
  <2> QED BY <1>4, <2>3 DEF T
<1>11. Kept(Len(b)) = {e \in ToSet(b) : ~Refused(e)} BY <1>4 DEF ToSet
<1> QED BY <1>6, <1>10, <1>11

-----------------------------------------------------------------------------
(***************************************************************************)
(* Where events are: in the model (H, handed over), the batch (B), the     *)
(* queue (Q), the handlers (P, being put) or unread (U); or dead letters    *)
(* (D) or lost (L). All of them together are the events published (N), no   *)
(* event is at two places, and those nearer the model come first.          *)
(***************************************************************************)
InStages(tr, N, H, B, Q, P, U, D, L) ==
    /\ InOrder(tr, H, B) /\ InOrder(tr, H, Q) /\ InOrder(tr, H, P) /\ InOrder(tr, H, U)
    /\ InOrder(tr, B, Q) /\ InOrder(tr, B, P) /\ InOrder(tr, B, U)
    /\ InOrder(tr, Q, P) /\ InOrder(tr, Q, U) /\ InOrder(tr, P, U)
    /\ D \cap L = {} /\ (D \cup L) \cap (H \cup B \cup Q \cup P \cup U) = {}
    /\ H \cup B \cup Q \cup P \cup U \cup D \cup L = N

LEMMA OrderedUnion ==
    ASSUME NEW tr, NEW A, NEW B, NEW C
    PROVE  /\ InOrder(tr, A, B \cup C) <=> InOrder(tr, A, B) /\ InOrder(tr, A, C)
           /\ InOrder(tr, A \cup B, C) <=> InOrder(tr, A, C) /\ InOrder(tr, B, C)
           /\ InOrder(tr, {}, A) /\ InOrder(tr, A, {})
BY DEF InOrder

LEMMA OrderedDisjoint ==
    ASSUME NEW tr, NEW A, NEW B, A \subseteq Pairs, InOrder(tr, A, B)
    PROVE  A \cap B = {}
BY Irreflexive DEF InOrder

(* An event is published: it comes after all others.                       *)
LEMMA StagesPublish ==
    ASSUME NEW tr, NEW N, NEW H, NEW B, NEW Q, NEW P, NEW U, NEW D, NEW L, NEW X,
           InStages(tr, N, H, B, Q, P, U, D, L), InOrder(tr, N, X), N \cap X = {}
    PROVE  /\ InStages(tr, N \cup X, H, B, Q, P, U \cup X, D, L)
           /\ InStages(tr, N \cup X, H, B, Q, P, U, D, L \cup X)
<1>1. \A S : S \subseteq N => InOrder(tr, S, X) /\ S \cap X = {} BY DEF InOrder
<1>2. InOrder(tr, H, X) /\ InOrder(tr, B, X) /\ InOrder(tr, Q, X) /\ InOrder(tr, P, X)
  BY <1>1 DEF InStages
<1> QED BY <1>1, <1>2, OrderedUnion DEF InStages

LEMMA StagesHandle ==
    ASSUME NEW tr, NEW N, NEW H, NEW B, NEW Q, NEW P, NEW U, NEW D, NEW L, NEW X,
           InStages(tr, N, H, B, Q, P, U \cup X, D, L), InOrder(tr, X, U)
    PROVE  InStages(tr, N, H, B, Q, P \cup X, U, D, L)
BY OrderedUnion DEF InStages

LEMMA StagesDeadLetter ==
    ASSUME NEW tr, NEW N, NEW H, NEW B, NEW Q, NEW P, NEW U, NEW D, NEW L, NEW X,
           N \subseteq Pairs, InStages(tr, N, H, B, Q, P, U \cup X, D, L), InOrder(tr, X, U)
    PROVE  InStages(tr, N, H, B, Q, P, U, D \cup X, L)
<1>1. /\ H \subseteq Pairs /\ B \subseteq Pairs /\ Q \subseteq Pairs /\ P \subseteq Pairs
      /\ X \subseteq Pairs
  BY DEF InStages
<1>2. InOrder(tr, H, X) /\ InOrder(tr, B, X) /\ InOrder(tr, Q, X) /\ InOrder(tr, P, X)
  BY OrderedUnion DEF InStages
<1>3. H \cap X = {} /\ B \cap X = {} /\ Q \cap X = {} /\ P \cap X = {} /\ X \cap U = {}
  BY <1>1, <1>2, OrderedDisjoint
<1>4. /\ InOrder(tr, H, U) /\ InOrder(tr, B, U) /\ InOrder(tr, Q, U) /\ InOrder(tr, P, U)
  BY OrderedUnion DEF InStages
<1> QED BY <1>3, <1>4 DEF InStages

LEMMA StagesPut ==
    ASSUME NEW tr, NEW N, NEW H, NEW B, NEW Q, NEW P, NEW U, NEW D, NEW L, NEW X,
           InStages(tr, N, H, B, Q, P \cup X, U, D, L), InOrder(tr, X, P)
    PROVE  InStages(tr, N, H, B, Q \cup X, P, U, D, L)
BY OrderedUnion DEF InStages

LEMMA StagesGet ==
    ASSUME NEW tr, NEW N, NEW H, NEW B, NEW Q, NEW P, NEW U, NEW D, NEW L, NEW X,
           InStages(tr, N, H, B, Q \cup X, P, U, D, L), InOrder(tr, X, Q)
    PROVE  InStages(tr, N, H, B \cup X, Q, P, U, D, L)
BY OrderedUnion DEF InStages

LEMMA StagesProcess ==
    ASSUME NEW tr, NEW N, NEW H, NEW B, NEW Q, NEW P, NEW U, NEW D, NEW L,
           InStages(tr, N, H, B, Q, P, U, D, L)
    PROVE  InStages(tr, N, H \cup B, {}, Q, P, U, D, L)
BY OrderedUnion DEF InStages

(* A stop loses the batch, then the rest; a crash all at once.             *)
LEMMA StagesLose ==
    ASSUME NEW tr, NEW N, NEW H, NEW B, NEW Q, NEW P, NEW U, NEW D, NEW L,
           N \subseteq Pairs, InStages(tr, N, H, B, Q, P, U, D, L)
    PROVE  /\ InStages(tr, N, H, {}, Q, P, U, D, L \cup B)
           /\ InStages(tr, N, H, {}, {}, {}, {}, D, L \cup (Q \cup B \cup P \cup U))
<1>1. H \subseteq Pairs /\ B \subseteq Pairs BY DEF InStages
<1>2. /\ H \cap B = {} /\ H \cap Q = {} /\ H \cap P = {} /\ H \cap U = {}
      /\ B \cap Q = {} /\ B \cap P = {} /\ B \cap U = {}
  BY <1>1, OrderedDisjoint DEF InStages
<1> QED BY <1>2, OrderedUnion DEF InStages

-----------------------------------------------------------------------------
(* Retries                                                                 *)

LEMMA DelayGrows ==
    /\ \A n \in 0..MaxRetries : Delay[n] \in Nat \ {0} /\ Delay[n] <= Delay[MaxRetries]
<1> DEFINE Rule(f, n) == f = [i \in 0..n |-> IF i = 0 THEN 1 ELSE 2 * f[i - 1]]
<1>1. \E f : Rule(f, 0)
  <2>1. \A i \in 0..0 : i = 0 OBVIOUS
  <2>2. Rule([i \in 0..0 |-> 1], 0) BY <2>1
  <2> QED BY <2>2
<1>2. ASSUME NEW n \in Nat, NEW f, Rule(f, n) PROVE \E g : Rule(g, n + 1)
  <2>1. PICK g : g = [i \in 0..(n + 1) |-> IF i = n + 1 THEN 2 * f[n] ELSE f[i]] OBVIOUS
  <2>2. ASSUME NEW i \in 0..(n + 1) PROVE g[i] = IF i = 0 THEN 1 ELSE 2 * g[i - 1]
    <3>1. CASE i = n + 1
      <4>1. n \in 0..(n + 1) /\ n # n + 1 /\ i - 1 = n /\ i # 0 BY <3>1
      <4> QED BY <2>1, <3>1, <4>1
    <3>2. CASE i = 0
      <4>1. 0 \in 0..n /\ 0 # n + 1 OBVIOUS
      <4>2. f[0] = 1 BY <1>2, <4>1
      <4> QED BY <2>1, <3>2, <4>1, <4>2
    <3>3. CASE i # n + 1 /\ i # 0
      <4>1. i \in 0..n /\ i - 1 \in 0..(n + 1) /\ i - 1 # n + 1 BY <3>3
      <4>2. g[i] = f[i] /\ g[i - 1] = f[i - 1] BY <2>1, <3>3, <4>1
      <4>3. f[i] = IF i = 0 THEN 1 ELSE 2 * f[i - 1] BY <1>2, <4>1
      <4> QED BY <4>2, <4>3
    <3> QED BY <3>1, <3>2, <3>3
  <2>3. Rule(g, n + 1) BY <2>1, <2>2
  <2> QED BY <2>3
<1>3. \A n \in Nat : \E f : Rule(f, n)
  <2> DEFINE T == {n \in Nat : \E f : Rule(f, n)}
  <2> HIDE DEF Rule
  <2>1. 0 \in T BY <1>1
  <2>2. \A n \in Nat : n \in T => n + 1 \in T
    <3> SUFFICES ASSUME NEW n \in T PROVE \E g : Rule(g, n + 1) OBVIOUS
    <3>1. PICK f : Rule(f, n) OBVIOUS
    <3> QED BY <1>2, <3>1
  <2> HIDE DEF T
  <2>3. Nat \subseteq T BY <2>1, <2>2, Upwards
  <2> QED BY <2>3 DEF T
<1>4. MaxRetries \in Nat BY ClientAssumption
<1>5. Rule(Delay, MaxRetries)
  <2>1. PICK f : Rule(f, MaxRetries) BY <1>3, <1>4
  <2> QED BY <2>1 DEF Delay
<1> HIDE DEF Rule
<1>6. /\ Delay[0] = 1
      /\ \A n \in Nat : n + 1 <= MaxRetries => Delay[n + 1] = 2 * Delay[n]
  <2>1. 0 \in 0..MaxRetries BY <1>4
  <2>2. \A n \in Nat : n + 1 <= MaxRetries =>
            n + 1 \in 0..MaxRetries /\ n + 1 # 0 /\ (n + 1) - 1 = n
    BY <1>4
  <2> QED BY <1>5, <2>1, <2>2 DEF Rule
<1> DEFINE T == {n \in Nat : n <= MaxRetries =>
                    \A m \in 0..n : Delay[m] \in Nat \ {0} /\ Delay[m] <= Delay[n]}
<1>7. 0 \in T
  <2>1. \A m \in 0..0 : m = 0 OBVIOUS
  <2> QED BY <1>6, <2>1
<1>8. \A n \in Nat : n \in T => n + 1 \in T
  <2> SUFFICES ASSUME NEW n \in Nat, n \in T, n + 1 <= MaxRetries, NEW m \in 0..(n + 1)
               PROVE  Delay[m] \in Nat \ {0} /\ Delay[m] <= Delay[n + 1]
    OBVIOUS
  <2>1. n <= MaxRetries /\ n \in 0..n BY <1>4
  <2>2. Delay[n] \in Nat \ {0} BY <2>1
  <2>3. Delay[n + 1] = 2 * Delay[n] BY <1>6
  <2>4. CASE m = n + 1 BY <2>2, <2>3, <2>4
  <2>5. CASE m # n + 1
    <3>1. m \in 0..n BY <2>5
    <3>2. Delay[m] \in Nat \ {0} /\ Delay[m] <= Delay[n] BY <2>1, <3>1
    <3> QED BY <2>2, <2>3, <3>2
  <2> QED BY <2>4, <2>5
<1> HIDE DEF T
<1>9. Nat \subseteq T BY <1>7, <1>8, Upwards
<1> QED BY <1>4, <1>9 DEF T
-----------------------------------------------------------------------------
(* The inductive invariant                                                 *)

Handed == ToSet(fate.applied) \cup fate.failed
Putting == UNION {ToSet(handler[c]) : c \in Names}
Unhandled == UNION {ToSet(inbox[c]) : c \in Names}
Unread == UNION {ToSet(Events(n)) : n \in Unhandled}
Published == UNION {ToSet(Events(n)) : n \in 1..published}
Increasing(s) == \A i, j \in DOMAIN s : i < j => s[i] < s[j]

EventsFlow ==
    /\ InStages(setup.traffic, Published, Handed, ToSet(batch), ToSet(message_queue), Putting, Unread,
                fate.dead, fate.lost)
    /\ Ordered(setup.traffic, fate.applied) /\ Ordered(setup.traffic, batch)
    /\ Ordered(setup.traffic, message_queue)
    /\ \A c \in Names :
          /\ Ordered(setup.traffic, handler[c])
          /\ \A e \in ToSet(handler[c]) : Channel(setup.traffic, e) = c
          /\ Increasing(inbox[c]) /\ \A n \in ToSet(inbox[c]) : setup.traffic[n].channel = c
    /\ \A e \in ToSet(fate.applied) : ~Refused(e)
    /\ \A e \in fate.failed : Refused(e)

(* The loop runs only in an agent that is up, and no request meets a model *)
(* that has not been loaded or is shut down.                               *)
ModelRuns ==
    /\ looping => phase = "up"
    /\ ~looping => batch = <<>>
    /\ serving \/ world_model.reloading # 0 => phase \in {"served", "up", "stopping"}
    /\ phase \in {"new", "connected"} => world_model.listed = {}
    /\ phase \in {"loaded", "subscribed", "served", "up", "stopping"} /\ world_model.reloading = 0 =>
          /\ world_model.running /\ world_model.initialized
          /\ world_model.listed # {} /\ world_model.listed \subseteq world_model.alive
    /\ IsFiniteSet(world_model.alive)

(* The breaker has counted what has failed; when it lets a request through  *)
(* that may fail again, that one is the only one.                          *)
BreakerCounts ==
    /\ call.at = "sleep" => call.attempt < MaxRetries
    /\ breaker.age = streak.age /\ breaker.failures = streak.failures
    /\ streak.failures = FailureThreshold =>
          breaker.state = "open" \/ (breaker.state = "half_open" /\ call.at = "request")

(* What is left of a reply fits into it, and into the budget it was found  *)
(* within.                                                                 *)
BudgetKept ==
    /\ mind.at # "twin" => call.at = "idle"
    /\ mind.at = "ask" => mind.ran = 0
    /\ mind.at = "twin" => mind.todo # <<>>
    /\ mind.at \in {"tools", "twin"} =>
          /\ mind.ran + Len(mind.todo) <= MaxCallsPerReply
          /\ mind.made + Len(mind.todo) < MaxToolCalls + MaxCallsPerReply
    /\ ToolCallsBounded

ReasonerIndInv == TypeOK /\ EventsFlow /\ ModelRuns /\ BreakerCounts /\ BudgetKept
-----------------------------------------------------------------------------
(* Events and what is published                                            *)

LEMMA SetupTyped ==
    ASSUME TwinTypeOK
    PROVE  /\ setup \in SetupType /\ setup.traffic \in Seq(MessageType)
           /\ published \in Nat /\ published <= Len(setup.traffic) /\ Len(setup.traffic) \in Nat
           /\ DOMAIN setup.traffic = 1..Len(setup.traffic)
BY TwinAssumption DEF TwinTypeOK, SetupType

LEMMA SameEvents ==
    ASSUME setup' = setup
    PROVE  /\ \A n : Events(n)' = Events(n)
           /\ \A e : Refused(e)' <=> Refused(e)
           /\ AllEvents' = AllEvents
BY DEF Events, Refused, AllEvents

LEMMA EventsOf ==
    ASSUME TwinTypeOK, NEW n \in DOMAIN setup.traffic
    PROVE  /\ Events(n) \in Seq(AllEvents) /\ Ordered(setup.traffic, Events(n))
           /\ \A e \in ToSet(Events(n)) : e \in Pairs /\ e[1] = n
<1> DEFINE m == setup.traffic[n]
<1>1. n \in Nat /\ m \in MessageType BY SetupTyped
<1>2. m.events \in Seq({"good", "refused"}) /\ m.readable \in BOOLEAN BY <1>1 DEF MessageType
<1>3. CASE m.readable
  <2> DEFINE s == [k \in 1..Len(m.events) |-> <<n, k>>]
  <2>1. Events(n) = s BY <1>2, <1>3 DEF Events
  <2>2. Len(m.events) \in Nat BY <1>2
  <2>3. \A k \in 1..Len(m.events) : k \in Nat /\ <<n, k>> \in Pairs BY <1>1, <2>2 DEF Pairs
  <2>4. DOMAIN s = 1..Len(m.events) /\ \A k \in 1..Len(m.events) : s[k] = <<n, k>> OBVIOUS
  <2>5. \A e \in ToSet(s) : e \in Pairs /\ e[1] = n
    <3> SUFFICES ASSUME NEW e \in ToSet(s) PROVE e \in Pairs /\ e[1] = n OBVIOUS
    <3>1. PICK k \in 1..Len(m.events) : e = s[k] BY <2>4 DEF ToSet
    <3> QED BY <2>3, <2>4, <3>1
  <2>6. ToSet(s) \subseteq AllEvents BY <2>1 DEF AllEvents
  <2>7. s \in Seq(AllEvents)
    <3>1. \A k \in 1..Len(m.events) : s[k] \in AllEvents BY <2>4, <2>6 DEF ToSet
    <3> HIDE DEF s
    <3>2. s = [k \in 1..Len(m.events) |-> s[k]] BY <2>4 DEF s
    <3> QED BY <2>2, <3>1, <3>2
  <2>8. Ordered(setup.traffic, s)
    <3> SUFFICES ASSUME NEW i \in 1..Len(m.events), NEW j \in 1..Len(m.events), i < j
                 PROVE  Before(<<n, i>>, <<n, j>>)
      BY <2>4 DEF Ordered, Precedes
    <3> QED BY DEF Before
  <2> QED BY <2>1, <2>5, <2>7, <2>8
<1>4. CASE ~m.readable
  <2>1. Events(n) = <<<<n, 0>>>> BY <1>4 DEF Events
  <2>2. DOMAIN <<<<n, 0>>>> = 1..1 /\ <<<<n, 0>>>>[1] = <<n, 0>> OBVIOUS
  <2>3. \A k \in 1..1 : k = 1 OBVIOUS
  <2>4. ToSet(Events(n)) = {<<n, 0>>} BY <2>1, <2>2, <2>3 DEF ToSet
  <2>5. <<n, 0>> \in AllEvents BY <2>4 DEF AllEvents
  <2>6. Events(n) \in Seq(AllEvents)
    <3> DEFINE e == <<n, 0>>
    <3>1. e \in AllEvents /\ Events(n) = <<e>> BY <2>1, <2>5
    <3> HIDE DEF e
    <3> QED BY <3>1
  <2>7. Ordered(setup.traffic, Events(n))
    <3>1. \A i, j \in 1..1 : ~(i < j) OBVIOUS
    <3> QED BY <2>1, <2>2, <3>1 DEF Ordered
  <2>8. <<n, 0>> \in Pairs BY <1>1 DEF Pairs
  <2> QED BY <2>4, <2>6, <2>7, <2>8
<1> QED BY <1>2, <1>3, <1>4

LEMMA PublishedTyped ==
    ASSUME TwinTypeOK
    PROVE  /\ AllEvents \subseteq Pairs
           /\ \A e \in Published : e \in Pairs /\ e[1] \in 1..published
           /\ \A n \in 1..published : n \in DOMAIN setup.traffic
<1>1. \A n \in 1..published : n \in DOMAIN setup.traffic BY SetupTyped
<1>2. \A n \in DOMAIN setup.traffic : \A e \in ToSet(Events(n)) : e \in Pairs /\ e[1] = n
  BY EventsOf
<1> QED BY <1>1, <1>2 DEF AllEvents, Published

LEMMA AppendIncreasing ==
    ASSUME NEW s \in Seq(Nat), NEW n \in Nat, Increasing(s), \A m \in ToSet(s) : m < n
    PROVE  Increasing(Append(s, n))
<1>1. DOMAIN Append(s, n) = 1..(Len(s) + 1) /\ DOMAIN s = 1..Len(s) /\ Len(s) \in Nat OBVIOUS
<1>2. \A i \in 1..Len(s) : Append(s, n)[i] = s[i] /\ s[i] < n BY DEF ToSet
<1>3. Append(s, n)[Len(s) + 1] = n OBVIOUS
<1>4. \A i, j \in 1..(Len(s) + 1) : i < j => i \in 1..Len(s) /\ (j \in 1..Len(s) \/ j = Len(s) + 1)
  BY <1>1
<1> QED BY <1>1, <1>2, <1>3, <1>4 DEF Increasing

LEMMA TailIncreasing ==
    ASSUME NEW s \in Seq(Nat), s # <<>>, Increasing(s)
    PROVE  Increasing(Tail(s)) /\ \A m \in ToSet(Tail(s)) : Head(s) < m
<1>1. /\ DOMAIN Tail(s) = 1..(Len(s) - 1) /\ DOMAIN s = 1..Len(s) /\ Len(s) \in Nat \ {0}
      /\ Head(s) = s[1] /\ \A i \in 1..(Len(s) - 1) : Tail(s)[i] = s[i + 1]
  OBVIOUS
<1>2. \A i \in 1..(Len(s) - 1) : i + 1 \in DOMAIN s /\ 1 < i + 1 /\ 1 \in DOMAIN s BY <1>1
<1>3. \A i, j \in 1..(Len(s) - 1) : i < j => i + 1 < j + 1 BY <1>1
<1> QED BY <1>1, <1>2, <1>3 DEF Increasing, ToSet

-----------------------------------------------------------------------------
(* The flow of events, step by step                                        *)

LEMMA FlowUnchanged ==
    ASSUME EventsFlow, UNCHANGED <<setup, ingestVars, historyVars>>
    PROVE  EventsFlow'
<1>1. /\ \A n : Events(n)' = Events(n)
      /\ \A e : Refused(e)' <=> Refused(e)
  BY SameEvents
<1>2. Published' = Published /\ Putting' = Putting /\ Unread' = Unread /\ Handed' = Handed
  BY <1>1 DEF Published, Putting, Unread, Unhandled, Handed, ingestVars, historyVars
<1> QED BY <1>1, <1>2 DEF EventsFlow, ingestVars, historyVars

LEMMA PublishFlow ==
    ASSUME TwinTypeOK, EventsFlow, Publish
    PROVE  EventsFlow'
<1> DEFINE n == published + 1
           X == ToSet(Events(n))
           c == setup.traffic[n].channel
<1>1. /\ n \in DOMAIN setup.traffic /\ published \in Nat /\ published' = n
      /\ setup' = setup /\ batch' = batch /\ message_queue' = message_queue /\ handler' = handler
  BY SetupTyped DEF Publish
<1>2. /\ \A k : Events(k)' = Events(k)
      /\ \A e : Refused(e)' <=> Refused(e)
  BY <1>1, SameEvents
<1>3. Published' = Published \cup X
  <2>1. \A k : k \in 1..published' <=> k \in 1..published \/ k = n BY <1>1
  <2> QED BY <1>2, <2>1 DEF Published
<1>4. InOrder(setup.traffic, Published, X) /\ Published \cap X = {}
  <2>1. \A e \in Published : e[1] < n BY <1>1, PublishedTyped
  <2>2. \A d \in X : d[1] = n BY <1>1, EventsOf
  <2>3. \A e \in Published, d \in X : e[1] < d[1] BY <2>1, <2>2
  <2>4. n # published /\ ~(n < n) BY <1>1
  <2> QED BY <2>1, <2>2, <2>3, <2>4 DEF InOrder, Precedes, Before
<1>5. Putting' = Putting BY <1>1 DEF Putting
<1>6. CASE c \in Subscribed
  <2>1. inbox' = [inbox EXCEPT ![c] = Append(@, n)] /\ fate' = fate
    BY <1>1, <1>6 DEF Publish
  <2>2. c \in Names /\ inbox \in [Names -> Seq(1..published)] BY <1>6 DEF TwinTypeOK, Subscribed, Names, ToSet
  <2>3. inbox'[c] = Append(inbox[c], n) /\ \A d \in Names \ {c} : inbox'[d] = inbox[d]
    BY <2>1, <2>2
  <2>4. inbox[c] \in Seq(Nat) /\ n \in Nat BY <1>1, <2>2
  <2>5. ToSet(inbox'[c]) = ToSet(inbox[c]) \cup {n} BY <2>3, <2>4, AppendedTo
  <2>6. Unread' = Unread \cup X
    <3>1. Unhandled' = Unhandled \cup {n}
      <4>1. \A k : k \in Unhandled' <=> \E d \in Names : k \in ToSet(inbox'[d]) BY DEF Unhandled
      <4>2. \A k : k \in Unhandled <=> \E d \in Names : k \in ToSet(inbox[d]) BY DEF Unhandled
      <4>3. \A d \in Names : d # c => ToSet(inbox'[d]) = ToSet(inbox[d]) BY <2>3
      <4> QED BY <2>2, <2>5, <4>1, <4>2, <4>3
    <3>2. Unread' = UNION {ToSet(Events(k)) : k \in Unhandled'} BY <1>2 DEF Unread
    <3> QED BY <3>1, <3>2 DEF Unread
  <2>7. Increasing(inbox'[c])
    <3>1. ToSet(inbox[c]) \subseteq 1..published BY <2>2, Elements
    <3>2. \A m \in ToSet(inbox[c]) : m < n BY <1>1, <3>1
    <3> QED BY <2>2, <2>3, <2>4, <3>2, AppendIncreasing DEF EventsFlow
  <2>8. Handed' = Handed BY <2>1 DEF Handed
  <2>9. \A d \in Names : Increasing(inbox'[d]) /\ \A m \in ToSet(inbox'[d]) : setup.traffic[m].channel = d
    BY <2>2, <2>3, <2>5, <2>7 DEF EventsFlow
  <2>10. InStages(setup.traffic, Published \cup X, Handed, ToSet(batch), ToSet(message_queue), Putting,
                  Unread \cup X, fate.dead, fate.lost)
    BY <1>4, StagesPublish DEF EventsFlow
  <2> QED BY <1>1, <1>2, <1>3, <1>5, <2>1, <2>6, <2>8, <2>9, <2>10 DEF EventsFlow
<1>7. CASE c \notin Subscribed
  <2>1. inbox' = inbox /\ fate' = [fate EXCEPT !.lost = @ \cup X]
    BY <1>1, <1>2, <1>7 DEF Publish
  <2>2. /\ fate'.lost = fate.lost \cup X /\ fate'.dead = fate.dead /\ fate'.applied = fate.applied
        /\ fate'.failed = fate.failed
    BY <2>1 DEF TwinTypeOK
  <2>3. Handed' = Handed /\ Unread' = Unread BY <1>2, <2>1, <2>2 DEF Handed, Unread, Unhandled
  <2>4. InStages(setup.traffic, Published \cup X, Handed, ToSet(batch), ToSet(message_queue), Putting,
                 Unread, fate.dead, fate.lost \cup X)
    BY <1>4, StagesPublish DEF EventsFlow
  <2> QED BY <1>1, <1>2, <1>3, <1>5, <2>1, <2>2, <2>3, <2>4 DEF EventsFlow
<1> QED BY <1>6, <1>7

(* The next message of a subscription: its events come before what stays   *)
(* unread.                                                                 *)
LEMMA HandleReads ==
    ASSUME TwinTypeOK, EventsFlow, setup' = setup, NEW c \in Names, inbox[c] # <<>>,
           inbox' = [inbox EXCEPT ![c] = Tail(@)]
    PROVE  /\ Head(inbox[c]) \in DOMAIN setup.traffic
           /\ setup.traffic[Head(inbox[c])].channel = c
           /\ Unread = Unread' \cup ToSet(Events(Head(inbox[c])))
           /\ InOrder(setup.traffic, ToSet(Events(Head(inbox[c]))), Unread')
           /\ \A d \in Names : /\ Increasing(inbox'[d])
                               /\ \A m \in ToSet(inbox'[d]) : setup.traffic[m].channel = d
<1> DEFINE n == Head(inbox[c])
           X == ToSet(Events(n))
<1>1. inbox \in [Names -> Seq(1..published)] BY DEF TwinTypeOK
<1>2. inbox'[c] = Tail(inbox[c]) /\ \A d \in Names \ {c} : inbox'[d] = inbox[d] BY <1>1
<1>3. inbox[c] \in Seq(1..published) /\ published \in Nat BY <1>1, SetupTyped
<1>4. n \in 1..published /\ ToSet(inbox[c]) = {n} \cup ToSet(inbox'[c]) BY <1>2, <1>3, HeadAndTail
<1>5. n \in DOMAIN setup.traffic BY <1>4, PublishedTyped
<1>6. inbox[c] \in Seq(Nat) BY <1>3
<1>7. Increasing(inbox'[c]) /\ \A m \in ToSet(inbox'[c]) : n < m
  BY <1>2, <1>6, TailIncreasing DEF EventsFlow
<1>8. setup.traffic[n].channel = c BY <1>4 DEF EventsFlow
<1>9. \A d \in Names : /\ Increasing(inbox'[d])
                       /\ \A m \in ToSet(inbox'[d]) : setup.traffic[m].channel = d
  BY <1>2, <1>4, <1>7 DEF EventsFlow
<1>10. \A d \in Names : ToSet(inbox'[d]) \subseteq DOMAIN setup.traffic
  <2>1. \A d \in Names : ToSet(inbox[d]) \subseteq 1..published BY <1>1, Elements
  <2>2. \A d \in Names : ToSet(inbox'[d]) \subseteq 1..published BY <1>2, <1>4, <2>1
  <2> QED BY <2>2, PublishedTyped
<1>11. Unread' = UNION {ToSet(Events(k)) : k \in Unhandled'}
  <2>1. \A k : Events(k)' = Events(k) BY SameEvents
  <2> QED BY <2>1 DEF Unread
<1>12. Unhandled = Unhandled' \cup {n}
  <2>1. \A k : k \in Unhandled' <=> \E d \in Names : k \in ToSet(inbox'[d]) BY DEF Unhandled
  <2>2. \A k : k \in Unhandled <=> \E d \in Names : k \in ToSet(inbox[d]) BY DEF Unhandled
  <2>3. \A d \in Names : d # c => ToSet(inbox'[d]) = ToSet(inbox[d]) BY <1>2
  <2> QED BY <1>4, <2>1, <2>2, <2>3
<1>13. Unread = Unread' \cup X BY <1>11, <1>12 DEF Unread
<1>14. InOrder(setup.traffic, X, Unread')
  <2> SUFFICES ASSUME NEW e \in X, NEW d \in Unread',
                      Channel(setup.traffic, e) = Channel(setup.traffic, d)
               PROVE  e[1] < d[1]
    BY DEF InOrder, Precedes, Before
  <2>1. PICK b \in Names : \E k \in ToSet(inbox'[b]) : d \in ToSet(Events(k))
    BY <1>11 DEF Unhandled
  <2>2. PICK k \in ToSet(inbox'[b]) : d \in ToSet(Events(k)) BY <2>1
  <2>3. d[1] = k BY <1>10, <2>2, EventsOf
  <2>4. e[1] = n BY <1>5, EventsOf
  <2>5. b = c BY <1>8, <1>9, <2>2, <2>3, <2>4 DEF Channel
  <2> QED BY <1>7, <2>2, <2>3, <2>4, <2>5
<1> QED BY <1>5, <1>8, <1>9, <1>13, <1>14

LEMMA HandleFlow ==
    ASSUME TwinTypeOK, EventsFlow, NEW c \in Names, Handle(c)
    PROVE  EventsFlow'
<1> DEFINE n == Head(inbox[c])
           X == ToSet(Events(n))
<1>1. /\ setup' = setup /\ published' = published /\ message_queue' = message_queue
      /\ batch' = batch /\ inbox[c] # <<>> /\ handler[c] = <<>>
      /\ inbox' = [inbox EXCEPT ![c] = Tail(@)]
  BY DEF Handle, HandlerIsFree
<1>2. /\ \A k : Events(k)' = Events(k)
      /\ \A e : Refused(e)' <=> Refused(e)
  BY <1>1, SameEvents
<1>3. /\ n \in DOMAIN setup.traffic /\ setup.traffic[n].channel = c
      /\ Unread = Unread' \cup X /\ InOrder(setup.traffic, X, Unread')
      /\ \A d \in Names : /\ Increasing(inbox'[d])
                          /\ \A m \in ToSet(inbox'[d]) : setup.traffic[m].channel = d
  BY <1>1, HandleReads
<1>4. Published' = Published BY <1>1, <1>2 DEF Published
<1>5. InStages(setup.traffic, Published, Handed, ToSet(batch), ToSet(message_queue), Putting,
               Unread' \cup X, fate.dead, fate.lost)
  BY <1>3 DEF EventsFlow
<1>6. CASE setup.traffic[n].readable
  <2>1. handler' = [handler EXCEPT ![c] = Events(n) \o @] /\ fate' = fate BY <1>6 DEF Handle
  <2>2. handler \in [Names -> Seq(AllEvents)] BY DEF TwinTypeOK
  <2>3. Events(n) \in Seq(AllEvents) /\ Ordered(setup.traffic, Events(n))
        /\ \A e \in X : e \in Pairs /\ e[1] = n
    BY <1>3, EventsOf
  <2>4. Events(n) \o <<>> = Events(n) BY <2>3
  <2>5. handler'[c] = Events(n) /\ \A d \in Names \ {c} : handler'[d] = handler[d]
    BY <1>1, <2>1, <2>2, <2>4
  <2>6. Putting' = Putting \cup X
    <3>1. \A e : e \in Putting' <=> \E d \in Names : e \in ToSet(handler'[d]) BY DEF Putting
    <3>2. \A e : e \in Putting <=> \E d \in Names : e \in ToSet(handler[d]) BY DEF Putting
    <3>3. \A d \in Names : d # c => ToSet(handler'[d]) = ToSet(handler[d]) BY <2>5
    <3>4. ToSet(handler'[c]) = X /\ ToSet(handler[c]) = {} BY <1>1, <2>5, NothingOrdered
    <3> QED BY <3>1, <3>2, <3>3, <3>4
  <2>7. InStages(setup.traffic, Published, Handed, ToSet(batch), ToSet(message_queue), Putting \cup X,
                 Unread', fate.dead, fate.lost)
    BY <1>3, <1>5, StagesHandle
  <2>8. \A d \in Names : /\ Ordered(setup.traffic, handler'[d])
                         /\ \A e \in ToSet(handler'[d]) : Channel(setup.traffic, e) = d
    BY <1>3, <2>3, <2>5 DEF EventsFlow, Channel
  <2>9. Handed' = Handed BY <2>1 DEF Handed
  <2> QED BY <1>1, <1>2, <1>3, <1>4, <2>1, <2>6, <2>7, <2>8, <2>9 DEF EventsFlow
<1>7. CASE ~setup.traffic[n].readable
  <2>1. handler' = handler /\ fate' = [fate EXCEPT !.dead = @ \cup X]
    BY <1>7 DEF Handle, DeadLettered
  <2>2. /\ fate'.dead = fate.dead \cup X /\ fate'.lost = fate.lost /\ fate'.applied = fate.applied
        /\ fate'.failed = fate.failed
    BY <2>1 DEF TwinTypeOK
  <2>3. Handed' = Handed /\ Putting' = Putting BY <2>1, <2>2 DEF Handed, Putting
  <2>4. InStages(setup.traffic, Published, Handed, ToSet(batch), ToSet(message_queue), Putting,
                 Unread', fate.dead \cup X, fate.lost)
    <3>1. Published \subseteq Pairs BY PublishedTyped
    <3> QED BY <1>3, <1>5, <3>1, StagesDeadLetter
  <2> QED BY <1>1, <1>2, <1>3, <1>4, <2>1, <2>2, <2>3, <2>4 DEF EventsFlow
<1> QED BY <1>6, <1>7

LEMMA PutFlow ==
    ASSUME TwinTypeOK, EventsFlow, NEW c \in Names, Put(c)
    PROVE  EventsFlow'
<1> DEFINE x == Head(handler[c])
           X == {x}
<1>1. /\ setup' = setup /\ published' = published /\ inbox' = inbox /\ fate' = fate
      /\ batch' = batch /\ handler[c] # <<>>
      /\ handler' = [handler EXCEPT ![c] = Tail(@)] /\ message_queue' = Append(message_queue, x)
  BY DEF Put, Enqueued
<1>2. /\ \A k : Events(k)' = Events(k)
      /\ \A e : Refused(e)' <=> Refused(e)
  BY <1>1, SameEvents
<1>3. handler \in [Names -> Seq(AllEvents)] /\ message_queue \in Seq(AllEvents) BY DEF TwinTypeOK
<1>4. handler[c] \in Seq(AllEvents) BY <1>3
<1>5. handler'[c] = Tail(handler[c]) /\ \A d \in Names \ {c} : handler'[d] = handler[d]
  BY <1>1, <1>3
<1>6. x \in AllEvents /\ ToSet(handler[c]) = X \cup ToSet(handler'[c])
  BY <1>1, <1>4, <1>5, HeadAndTail
<1>7. Ordered(setup.traffic, handler'[c]) /\ InOrder(setup.traffic, X, ToSet(handler'[c]))
  BY <1>1, <1>4, <1>5, TailOrdered DEF EventsFlow
<1>8. ToSet(message_queue') = ToSet(message_queue) \cup X BY <1>1, <1>3, <1>6, AppendedTo
<1>9. Putting = Putting' \cup X
  <2>1. \A e : e \in Putting' <=> \E d \in Names : e \in ToSet(handler'[d]) BY DEF Putting
  <2>2. \A e : e \in Putting <=> \E d \in Names : e \in ToSet(handler[d]) BY DEF Putting
  <2>3. \A d \in Names : d # c => ToSet(handler'[d]) = ToSet(handler[d]) BY <1>5
  <2> QED BY <1>6, <2>1, <2>2, <2>3
<1>10. \A d \in Names : /\ Ordered(setup.traffic, handler'[d])
                        /\ \A e \in ToSet(handler'[d]) : Channel(setup.traffic, e) = d
  BY <1>5, <1>6, <1>7 DEF EventsFlow
<1>11. InOrder(setup.traffic, X, Putting')
  <2> SUFFICES ASSUME NEW e \in Putting' PROVE Precedes(setup.traffic, x, e) BY DEF InOrder
  <2>1. PICK d \in Names : e \in ToSet(handler'[d]) BY DEF Putting
  <2>2. CASE d = c BY <1>7, <2>1, <2>2 DEF InOrder
  <2>3. CASE d # c
    <3>1. Channel(setup.traffic, e) = d BY <1>10, <2>1
    <3>2. Channel(setup.traffic, x) = c BY <1>6 DEF EventsFlow
    <3> QED BY <2>3, <3>1, <3>2 DEF Precedes
  <2> QED BY <2>2, <2>3
<1>12. InStages(setup.traffic, Published, Handed, ToSet(batch), ToSet(message_queue) \cup X, Putting',
                Unread, fate.dead, fate.lost)
  <2>1. InStages(setup.traffic, Published, Handed, ToSet(batch), ToSet(message_queue), Putting' \cup X,
                 Unread, fate.dead, fate.lost)
    BY <1>9 DEF EventsFlow
  <2> QED BY <1>11, <2>1, StagesPut
<1>13. Ordered(setup.traffic, message_queue')
  <2>1. x \in Putting BY <1>9
  <2>2. InOrder(setup.traffic, ToSet(message_queue), X) BY <2>1 DEF EventsFlow, InStages, InOrder
  <2> QED BY <1>1, <1>3, <1>6, <2>2, AppendOrdered DEF EventsFlow
<1>14. Published' = Published /\ Handed' = Handed /\ Unread' = Unread
  BY <1>1, <1>2 DEF Published, Handed, Unread, Unhandled
<1> QED BY <1>1, <1>2, <1>8, <1>10, <1>12, <1>13, <1>14 DEF EventsFlow

LEMMA BatchProcessed ==
    ASSUME TwinTypeOK, EventsFlow, NEW b \in Seq(AllEvents), Ordered(setup.traffic, b),
           InOrder(setup.traffic, Handed, ToSet(b)), NEW f, f = ProcessBatch(b)
    PROVE  /\ f \in [applied : Seq(AllEvents), failed : SUBSET AllEvents, dead : SUBSET AllEvents,
                     lost : SUBSET AllEvents]
           /\ f.dead = fate.dead /\ f.lost = fate.lost
           /\ Ordered(setup.traffic, f.applied)
           /\ ToSet(f.applied) \cup f.failed = Handed \cup ToSet(b)
           /\ \A e \in ToSet(f.applied) : ~Refused(e)
           /\ \A e \in f.failed : Refused(e)
<1> DEFINE R == {e \in ToSet(b) : Refused(e)}
<1>1. fate \in [applied : Seq(AllEvents), failed : SUBSET AllEvents, dead : SUBSET AllEvents,
                lost : SUBSET AllEvents]
  BY DEF TwinTypeOK
<1>2. /\ f.applied = fate.applied \o Taken(b) /\ f.failed = fate.failed \cup R
      /\ f.dead = fate.dead /\ f.lost = fate.lost
      /\ DOMAIN f = DOMAIN fate
      /\ f = [fate EXCEPT !.applied = fate.applied \o Taken(b), !.failed = fate.failed \cup R]
  BY <1>1 DEF ProcessBatch
<1>3. /\ Taken(b) \in Seq(AllEvents) /\ Ordered(setup.traffic, Taken(b))
      /\ ToSet(Taken(b)) = {e \in ToSet(b) : ~Refused(e)}
  BY TakenOf
<1>4. ToSet(b) \subseteq AllEvents BY Elements
<1>5. fate.applied \in Seq(AllEvents) /\ fate.failed \subseteq AllEvents BY <1>1
<1>6. /\ f.applied \in Seq(AllEvents)
      /\ ToSet(f.applied) = ToSet(fate.applied) \cup {e \in ToSet(b) : ~Refused(e)}
  BY <1>2, <1>3, <1>5, Concatenated
<1>7. f.failed \in SUBSET AllEvents BY <1>2, <1>4, <1>5
<1>8. f \in [applied : Seq(AllEvents), failed : SUBSET AllEvents, dead : SUBSET AllEvents,
             lost : SUBSET AllEvents]
  <2> DEFINE a == fate.applied \o Taken(b)
             g == fate.failed \cup R
  <2>1. a \in Seq(AllEvents) /\ g \in SUBSET AllEvents BY <1>2, <1>6, <1>7
  <2>2. f = [fate EXCEPT !.applied = a, !.failed = g] BY <1>2
  <2> HIDE DEF a, g
  <2> QED BY <1>1, <2>1, <2>2
<1>9. Ordered(setup.traffic, f.applied)
  <2>1. InOrder(setup.traffic, ToSet(fate.applied), ToSet(Taken(b))) BY <1>3 DEF InOrder, Handed
  <2>2. Ordered(setup.traffic, fate.applied) BY DEF EventsFlow
  <2>3. Ordered(setup.traffic, fate.applied \o Taken(b))
    BY <1>3, <1>5, <2>1, <2>2, ConcatenatedOrdered
  <2> QED BY <1>2, <2>3
<1>10. ToSet(f.applied) \cup f.failed = Handed \cup ToSet(b) BY <1>2, <1>6 DEF Handed
<1>11. /\ \A e \in ToSet(f.applied) : ~Refused(e)
       /\ \A e \in f.failed : Refused(e)
  BY <1>2, <1>6 DEF EventsFlow
<1> QED BY <1>2, <1>8, <1>9, <1>10, <1>11

LEMMA GetTakes ==
    ASSUME TwinTypeOK, EventsFlow, message_queue # <<>>, message_queue' = Tail(message_queue),
           NEW b, b = Append(batch, Head(message_queue))
    PROVE  /\ b \in Seq(AllEvents) /\ Ordered(setup.traffic, b)
           /\ InStages(setup.traffic, Published, Handed, ToSet(b), ToSet(message_queue'), Putting, Unread,
                       fate.dead, fate.lost)
           /\ Ordered(setup.traffic, message_queue')
<1> DEFINE x == Head(message_queue)
<1>1. message_queue \in Seq(AllEvents) /\ batch \in Seq(AllEvents) BY DEF TwinTypeOK
<1>2. x \in AllEvents /\ ToSet(message_queue) = {x} \cup ToSet(message_queue')
  BY <1>1, HeadAndTail
<1>3. Ordered(setup.traffic, message_queue') /\ InOrder(setup.traffic, {x}, ToSet(message_queue'))
  BY <1>1, TailOrdered DEF EventsFlow
<1>4. b \in Seq(AllEvents) /\ ToSet(b) = ToSet(batch) \cup {x} BY <1>1, <1>2, AppendedTo
<1>5. InOrder(setup.traffic, ToSet(batch), {x}) BY <1>2 DEF EventsFlow, InStages, InOrder
<1>6. Ordered(setup.traffic, b) BY <1>1, <1>2, <1>5, AppendOrdered DEF EventsFlow
<1>7. InStages(setup.traffic, Published, Handed, ToSet(batch), ToSet(message_queue') \cup {x}, Putting,
               Unread, fate.dead, fate.lost)
  BY <1>2 DEF EventsFlow
<1>8. InStages(setup.traffic, Published, Handed, ToSet(batch) \cup {x}, ToSet(message_queue'), Putting,
               Unread, fate.dead, fate.lost)
  BY <1>3, <1>7, StagesGet
<1> QED BY <1>3, <1>4, <1>6, <1>8

LEMMA ProcessFlow ==
    ASSUME TwinTypeOK, EventsFlow, UNCHANGED <<setup, inbox, handler, published>>,
           NEW b \in Seq(AllEvents), Ordered(setup.traffic, b), batch' = <<>>, fate' = ProcessBatch(b),
           Ordered(setup.traffic, message_queue'),
           InStages(setup.traffic, Published, Handed, ToSet(b), ToSet(message_queue'), Putting, Unread,
                    fate.dead, fate.lost)
    PROVE  EventsFlow' /\ fate' \in [applied : Seq(AllEvents), failed : SUBSET AllEvents,
                                     dead : SUBSET AllEvents, lost : SUBSET AllEvents]
<1>1. /\ \A k : Events(k)' = Events(k)
      /\ \A e : Refused(e)' <=> Refused(e)
  BY SameEvents
<1>2. Published' = Published /\ Putting' = Putting /\ Unread' = Unread
  BY <1>1 DEF Published, Putting, Unread, Unhandled
<1>3. InOrder(setup.traffic, Handed, ToSet(b)) BY DEF InStages
<1>4. /\ fate' \in [applied : Seq(AllEvents), failed : SUBSET AllEvents, dead : SUBSET AllEvents,
                    lost : SUBSET AllEvents]
      /\ fate'.dead = fate.dead /\ fate'.lost = fate.lost
      /\ Ordered(setup.traffic, fate'.applied)
      /\ ToSet(fate'.applied) \cup fate'.failed = Handed \cup ToSet(b)
      /\ \A e \in ToSet(fate'.applied) : ~Refused(e)
      /\ \A e \in fate'.failed : Refused(e)
  BY <1>3, BatchProcessed
<1>5. Handed' = Handed \cup ToSet(b) BY <1>4 DEF Handed
<1>6. ToSet(batch') = {} /\ Ordered(setup.traffic, batch') BY NothingOrdered
<1>7. InStages(setup.traffic, Published, Handed \cup ToSet(b), {}, ToSet(message_queue'), Putting, Unread,
               fate.dead, fate.lost)
  BY StagesProcess
<1> QED BY <1>1, <1>2, <1>4, <1>5, <1>6, <1>7 DEF EventsFlow

LEMMA GetFlow ==
    ASSUME TwinTypeOK, EventsFlow, Get
    PROVE  EventsFlow' /\ fate' \in [applied : Seq(AllEvents), failed : SUBSET AllEvents,
                                     dead : SUBSET AllEvents, lost : SUBSET AllEvents]
<1>1. PICK b : b = Append(batch, Head(message_queue)) OBVIOUS
<1>2. /\ UNCHANGED <<setup, inbox, handler, published>>
      /\ message_queue # <<>> /\ message_queue' = Tail(message_queue)
      /\ \/ fate' = ProcessBatch(b) /\ batch' = <<>>
         \/ batch' = b /\ fate' = fate
  BY <1>1 DEF Get
<1>3. /\ b \in Seq(AllEvents) /\ Ordered(setup.traffic, b)
      /\ InStages(setup.traffic, Published, Handed, ToSet(b), ToSet(message_queue'), Putting, Unread,
                  fate.dead, fate.lost)
      /\ Ordered(setup.traffic, message_queue')
  BY <1>1, <1>2, GetTakes
<1>4. CASE fate' = ProcessBatch(b) /\ batch' = <<>> BY <1>2, <1>3, <1>4, ProcessFlow
<1>5. CASE batch' = b /\ fate' = fate
  <2>1. /\ \A k : Events(k)' = Events(k)
        /\ \A e : Refused(e)' <=> Refused(e)
    BY <1>2, SameEvents
  <2>2. Published' = Published /\ Putting' = Putting /\ Unread' = Unread /\ Handed' = Handed
    BY <1>2, <1>5, <2>1 DEF Published, Putting, Unread, Unhandled, Handed
  <2> QED BY <1>2, <1>3, <1>5, <2>1, <2>2 DEF EventsFlow, TwinTypeOK
<1> QED BY <1>2, <1>4, <1>5

LEMMA BatchTimesOutFlow ==
    ASSUME TwinTypeOK, EventsFlow, BatchTimesOut
    PROVE  EventsFlow' /\ fate' \in [applied : Seq(AllEvents), failed : SUBSET AllEvents,
                                     dead : SUBSET AllEvents, lost : SUBSET AllEvents]
<1>1. /\ UNCHANGED <<setup, inbox, handler, message_queue, published>>
      /\ fate' = ProcessBatch(batch) /\ batch' = <<>>
  BY DEF BatchTimesOut
<1>2. batch \in Seq(AllEvents) BY DEF TwinTypeOK
<1>3. /\ Ordered(setup.traffic, batch) /\ Ordered(setup.traffic, message_queue')
      /\ InStages(setup.traffic, Published, Handed, ToSet(batch), ToSet(message_queue'), Putting, Unread,
                  fate.dead, fate.lost)
  BY <1>1 DEF EventsFlow
<1> QED BY <1>1, <1>2, <1>3, ProcessFlow

LEMMA OnTheWayIs == OnTheWay = ToSet(message_queue) \cup ToSet(batch) \cup Putting \cup Unread
<1>1. \A e : e \in Unread <=> \E c \in Names : \E n \in ToSet(inbox[c]) : e \in ToSet(Events(n))
  BY DEF Unread, Unhandled
<1>2. \A e : e \in Putting <=> \E c \in Names : e \in ToSet(handler[c]) BY DEF Putting
<1>3. \A e : e \in OnTheWay <=> \/ e \in ToSet(message_queue) \/ e \in ToSet(batch)
                                \/ \E c \in Names : \/ e \in ToSet(handler[c])
                                                    \/ \E n \in ToSet(inbox[c]) : e \in ToSet(Events(n))
  BY DEF OnTheWay
<1> QED BY <1>1, <1>2, <1>3

LEMMA StopFlow ==
    ASSUME TwinTypeOK, EventsFlow, Stop
    PROVE  EventsFlow'
<1>1. /\ UNCHANGED <<setup, inbox, handler, message_queue, published>> /\ batch' = <<>>
      /\ fate' = [fate EXCEPT !.lost = @ \cup ToSet(batch)]
  BY DEF Stop
<1>2. /\ fate'.lost = fate.lost \cup ToSet(batch) /\ fate'.dead = fate.dead
      /\ fate'.applied = fate.applied /\ fate'.failed = fate.failed
  BY <1>1 DEF TwinTypeOK
<1>3. /\ \A k : Events(k)' = Events(k)
      /\ \A e : Refused(e)' <=> Refused(e)
  BY <1>1, SameEvents
<1>4. Published' = Published /\ Putting' = Putting /\ Unread' = Unread /\ Handed' = Handed
  BY <1>1, <1>2, <1>3 DEF Published, Putting, Unread, Unhandled, Handed
<1>5. ToSet(batch') = {} /\ Ordered(setup.traffic, batch') BY <1>1, NothingOrdered
<1>6. InStages(setup.traffic, Published, Handed, {}, ToSet(message_queue), Putting, Unread, fate.dead,
               fate.lost \cup ToSet(batch))
  <2>1. Published \subseteq Pairs BY PublishedTyped
  <2> QED BY <2>1, StagesLose DEF EventsFlow
<1> QED BY <1>1, <1>2, <1>3, <1>4, <1>5, <1>6 DEF EventsFlow

LEMMA EverythingLost ==
    ASSUME TwinTypeOK, EventsFlow, UNCHANGED <<setup, published>>,
           inbox' = [c \in Names |-> <<>>], handler' = [c \in Names |-> <<>>],
           message_queue' = <<>>, batch' = <<>>, fate' = [fate EXCEPT !.lost = @ \cup OnTheWay]
    PROVE  EventsFlow'
<1>1. /\ fate'.lost = fate.lost \cup OnTheWay /\ fate'.dead = fate.dead
      /\ fate'.applied = fate.applied /\ fate'.failed = fate.failed
  BY DEF TwinTypeOK
<1>2. /\ \A k : Events(k)' = Events(k)
      /\ \A e : Refused(e)' <=> Refused(e)
  BY SameEvents
<1>3. Published' = Published /\ Handed' = Handed BY <1>1, <1>2 DEF Published, Handed
<1>4. \A c \in Names : inbox'[c] = <<>> /\ handler'[c] = <<>> OBVIOUS
<1>5. ToSet(<<>>) = {} /\ Ordered(setup.traffic, <<>>) BY NothingOrdered
<1>6. Putting' = {} BY <1>4, <1>5 DEF Putting
<1>7. Unread' = {}
  <2>1. Unhandled' = {} BY <1>4, <1>5 DEF Unhandled
  <2> QED BY <2>1 DEF Unread
<1>8. Increasing(<<>>) BY DEF Increasing
<1>9. InStages(setup.traffic, Published, Handed, {}, {}, {}, {}, fate.dead, fate.lost \cup OnTheWay)
  <2>1. Published \subseteq Pairs BY PublishedTyped
  <2>2. InStages(setup.traffic, Published, Handed, {}, {}, {}, {}, fate.dead, fate.lost \cup
                   (ToSet(message_queue) \cup ToSet(batch) \cup Putting \cup Unread))
    BY <2>1, StagesLose DEF EventsFlow
  <2> QED BY <2>2, OnTheWayIs
<1> QED BY <1>1, <1>2, <1>3, <1>4, <1>5, <1>6, <1>7, <1>8, <1>9 DEF EventsFlow

-----------------------------------------------------------------------------
(* The world model and its background tasks                                *)

LEMMA FreshIs ==
    ASSUME NEW S, IsFiniteSet(S)
    PROVE  Fresh(S) \in Nat /\ Fresh(S) \notin S
<1> DEFINE n == Cardinality(S)
<1>1. n \in Nat BY FS_CardinalityType
<1>2. IsFiniteSet(0..n) /\ Cardinality(0..n) = n + 1 BY <1>1, FS_Interval
<1>3. ~(0..n \subseteq S)
  <2> SUFFICES ASSUME 0..n \subseteq S PROVE FALSE OBVIOUS
  <2>1. Cardinality(0..n) <= Cardinality(S) BY FS_Subset
  <2> QED BY <1>1, <1>2, <2>1
<1>4. \E g \in 0..n : g \notin S BY <1>3
<1>5. Fresh(S) \in 0..n /\ Fresh(S) \notin S BY <1>4 DEF Fresh
<1> QED BY <1>1, <1>5

LEMMA InitializedIs ==
    ASSUME NEW w \in ModelType, IsFiniteSet(w.alive), NEW v, v = Initialized(w)
    PROVE  /\ v \in ModelType /\ IsFiniteSet(v.alive)
           /\ v.running /\ v.initialized /\ v.listed # {}
           /\ w.listed \subseteq w.alive => v.listed \subseteq v.alive
           /\ v.reloading = w.reloading /\ v.requests = w.requests
<1>1. PICK g : g = Fresh(w.alive) OBVIOUS
<1>2. g \in Nat BY <1>1, FreshIs
<1>3. PICK l : l = w.listed \cup {g} OBVIOUS
<1>4. PICK a : a = w.alive \cup {g} OBVIOUS
<1>5. v = [w EXCEPT !.loaded = TRUE, !.running = TRUE, !.initialized = TRUE, !.listed = l, !.alive = a]
  BY <1>1, <1>3, <1>4 DEF Initialized
<1>6. w.listed \in SUBSET Nat /\ w.alive \in SUBSET Nat BY DEF ModelType
<1>7. l \in SUBSET Nat /\ a \in SUBSET Nat BY <1>2, <1>3, <1>4, <1>6
<1>8. v \in ModelType BY <1>5, <1>7 DEF ModelType
<1>9. /\ v.running /\ v.initialized /\ v.listed = l /\ v.alive = a
      /\ v.reloading = w.reloading /\ v.requests = w.requests
  BY <1>5 DEF ModelType
<1>10. IsFiniteSet(v.alive) BY <1>4, <1>9, FS_AddElement
<1> QED BY <1>3, <1>4, <1>8, <1>9, <1>10

LEMMA CancelledIs ==
    ASSUME NEW w \in ModelType, IsFiniteSet(w.alive), NEW v, v = Cancelled(w)
    PROVE  /\ v \in ModelType /\ IsFiniteSet(v.alive)
           /\ v.listed = w.listed /\ v.reloading = w.reloading /\ v.requests = w.requests
<1>1. /\ v \in ModelType /\ v.alive = w.alive \ w.listed
      /\ v.listed = w.listed /\ v.reloading = w.reloading /\ v.requests = w.requests
  BY DEF Cancelled, ModelType
<1>2. IsFiniteSet(v.alive) BY <1>1, FS_Subset
<1> QED BY <1>1, <1>2

LEMMA ClearedIs ==
    ASSUME NEW w \in ModelType, NEW v, v = Cleared(w)
    PROVE  /\ v \in ModelType /\ v.alive = w.alive /\ v.listed = {}
           /\ v.reloading = w.reloading /\ v.requests = w.requests
BY DEF Cleared, ModelType

LEMMA IngestionTyped ==
    ASSUME TwinTypeOK, UNCHANGED <<setup, ingestVars, historyVars, restarts>>, phase' \in Phases,
           running' \in BOOLEAN, looping' \in BOOLEAN, serving' \in BOOLEAN,
           subscriptions' \in 0..Len(Channels), world_model' \in ModelType
    PROVE  TwinTypeOK'
<1>1. /\ setup' = setup /\ inbox' = inbox /\ handler' = handler /\ message_queue' = message_queue
      /\ batch' = batch /\ published' = published /\ fate' = fate /\ restarts' = restarts
  BY DEF ingestVars, historyVars
<1>2. AllEvents' = AllEvents BY <1>1, SameEvents
<1>3. setup' \in Setups /\ published' \in 0..Len(setup'.traffic) /\ restarts' \in 0..setup'.crashes
  BY <1>1 DEF TwinTypeOK
<1>4. inbox' \in [Names -> Seq(1..published')] /\ handler' \in [Names -> Seq(AllEvents')]
  BY <1>1, <1>2 DEF TwinTypeOK
<1>5. /\ message_queue' \in Seq(AllEvents') /\ Len(message_queue') <= QueueSize
      /\ batch' \in Seq(AllEvents') /\ Len(batch') < BatchSize
  BY <1>1, <1>2 DEF TwinTypeOK
<1>6. fate' \in [applied : Seq(AllEvents'), failed : SUBSET AllEvents', dead : SUBSET AllEvents',
                 lost : SUBSET AllEvents']
  BY <1>1, <1>2 DEF TwinTypeOK
<1> QED BY <1>3, <1>4, <1>5, <1>6 DEF TwinTypeOK

LEMMA ReloadTyped ==
    ASSUME TwinTypeOK, ModelRuns, RequestReload
    PROVE  TwinTypeOK' /\ ModelRuns'
<1>1. /\ UNCHANGED <<setup, lifeVars, ingestVars, historyVars, restarts>> /\ serving
      /\ world_model' = [Cancelled(world_model) EXCEPT !.reloading = @ + 1, !.requests = @ + 1]
  BY DEF RequestReload
<1>2. PICK v : v = Cancelled(world_model) OBVIOUS
<1>3. v \in ModelType /\ IsFiniteSet(v.alive) /\ v.listed = world_model.listed
  BY <1>2, CancelledIs DEF TwinTypeOK, ModelRuns
<1>4. /\ world_model' \in ModelType /\ world_model'.alive = v.alive /\ world_model'.listed = v.listed
      /\ world_model'.reloading # 0
  <2>1. PICK r : r = v.reloading + 1 OBVIOUS
  <2>2. PICK q : q = v.requests + 1 OBVIOUS
  <2>3. world_model' = [v EXCEPT !.reloading = r, !.requests = q] BY <1>1, <1>2, <2>1, <2>2
  <2>4. r \in Nat \ {0} /\ q \in Nat BY <1>3, <2>1, <2>2 DEF ModelType
  <2> QED BY <1>3, <2>3, <2>4 DEF ModelType
<1>5. TwinTypeOK'
  <2>1. /\ phase' \in Phases /\ running' \in BOOLEAN /\ looping' \in BOOLEAN
        /\ serving' \in BOOLEAN /\ subscriptions' \in 0..Len(Channels)
    BY <1>1 DEF TwinTypeOK, lifeVars
  <2> QED BY <1>1, <1>4, <2>1, IngestionTyped
<1> QED BY <1>1, <1>3, <1>4, <1>5 DEF ModelRuns, lifeVars, ingestVars

LEMMA FinishReloadTyped ==
    ASSUME TwinTypeOK, ModelRuns, FinishReload
    PROVE  TwinTypeOK' /\ ModelRuns'
<1>1. /\ UNCHANGED <<setup, lifeVars, ingestVars, historyVars, restarts>> /\ world_model.reloading > 0
      /\ world_model' = [Reloaded(world_model) EXCEPT !.reloading = @ - 1]
  BY DEF FinishReload
<1>2. PICK v : v = Cleared(world_model) OBVIOUS
<1>3. PICK u : u = Initialized(v) OBVIOUS
<1>4. v \in ModelType /\ v.listed = {} /\ IsFiniteSet(v.alive) /\ v.reloading = world_model.reloading
  BY <1>2, ClearedIs DEF TwinTypeOK, ModelRuns
<1>5. /\ u \in ModelType /\ IsFiniteSet(u.alive) /\ u.running /\ u.initialized /\ u.listed # {}
      /\ u.listed \subseteq u.alive /\ u.reloading = world_model.reloading
  BY <1>3, <1>4, InitializedIs
<1>6. world_model' = [u EXCEPT !.reloading = @ - 1] BY <1>1, <1>2, <1>3 DEF Reloaded
<1>7. /\ world_model' \in ModelType /\ world_model'.alive = u.alive /\ world_model'.listed = u.listed
      /\ world_model'.running = u.running /\ world_model'.initialized = u.initialized
  <2>1. PICK r : r = u.reloading - 1 OBVIOUS
  <2>2. r \in Nat BY <1>1, <1>5, <2>1 DEF ModelType
  <2>3. world_model' = [u EXCEPT !.reloading = r] BY <1>6, <2>1
  <2> QED BY <1>5, <2>2, <2>3 DEF ModelType
<1>8. TwinTypeOK'
  <2>1. /\ phase' \in Phases /\ running' \in BOOLEAN /\ looping' \in BOOLEAN
        /\ serving' \in BOOLEAN /\ subscriptions' \in 0..Len(Channels)
    BY <1>1 DEF TwinTypeOK, lifeVars
  <2> QED BY <1>1, <1>7, <2>1, IngestionTyped
<1>9. world_model.reloading # 0 BY <1>1 DEF TwinTypeOK, ModelType
<1> QED BY <1>1, <1>5, <1>7, <1>8, <1>9 DEF ModelRuns, lifeVars, ingestVars

LEMMA TaskEndsTyped ==
    ASSUME TwinTypeOK, ModelRuns, TaskEnds
    PROVE  TwinTypeOK' /\ ModelRuns'
<1>1. UNCHANGED <<setup, lifeVars, ingestVars, historyVars, restarts>> /\ ~world_model.running
  BY DEF TaskEnds
<1>2. PICK g \in world_model.alive : world_model' = [world_model EXCEPT !.alive = @ \ {g}]
  BY DEF TaskEnds
<1>3. /\ world_model' \in ModelType /\ world_model'.alive = world_model.alive \ {g}
      /\ world_model'.listed = world_model.listed /\ world_model'.reloading = world_model.reloading
  BY <1>2 DEF TwinTypeOK, ModelType
<1>4. IsFiniteSet(world_model'.alive) BY <1>3, FS_Subset DEF ModelRuns
<1>5. TwinTypeOK'
  <2>1. /\ phase' \in Phases /\ running' \in BOOLEAN /\ looping' \in BOOLEAN
        /\ serving' \in BOOLEAN /\ subscriptions' \in 0..Len(Channels)
    BY <1>1 DEF TwinTypeOK, lifeVars
  <2> QED BY <1>1, <1>3, <2>1, IngestionTyped
<1> QED BY <1>1, <1>3, <1>4, <1>5 DEF ModelRuns, lifeVars, ingestVars

-----------------------------------------------------------------------------
(* The life of the agent                                                   *)

LEMMA StartingTyped ==
    ASSUME TwinTypeOK, ModelRuns, Starting
    PROVE  TwinTypeOK' /\ ModelRuns' /\ UNCHANGED <<setup, ingestVars, historyVars>>
<1>1. UNCHANGED <<setup, ingestVars, historyVars, restarts>>
  BY DEF Starting, Connect, LoadWorldModel, Subscribe, StartGrpcServer, StartProcessing, StartStep
<1>2. Len(Channels) \in Nat BY TwinAssumption
<1>3. ASSUME Connect PROVE TwinTypeOK' /\ ModelRuns'
  <2>1. /\ phase = "new" /\ phase' = "connected"
        /\ UNCHANGED <<running, looping, subscriptions, serving, world_model>>
    BY <1>3 DEF Connect, StartStep
  <2>2. TwinTypeOK' BY <1>1, <2>1, IngestionTyped DEF TwinTypeOK, Phases
  <2> QED BY <1>1, <2>1, <2>2 DEF ModelRuns, ingestVars
<1>4. ASSUME LoadWorldModel PROVE TwinTypeOK' /\ ModelRuns'
  <2>1. /\ phase = "connected" /\ phase' = "loaded" /\ world_model' = Initialized(world_model)
        /\ UNCHANGED <<running, looping, subscriptions, serving>>
    BY <1>4 DEF LoadWorldModel, StartStep
  <2>2. world_model \in ModelType /\ IsFiniteSet(world_model.alive) /\ world_model.listed = {}
    BY <2>1 DEF TwinTypeOK, ModelRuns
  <2>3. PICK v : v = Initialized(world_model) OBVIOUS
  <2>4. /\ v \in ModelType /\ IsFiniteSet(v.alive) /\ v.running /\ v.initialized /\ v.listed # {}
        /\ v.listed \subseteq v.alive /\ v.reloading = world_model.reloading
    BY <2>2, <2>3, InitializedIs
  <2>5. world_model' = v BY <2>1, <2>3
  <2>6. TwinTypeOK' BY <1>1, <2>1, <2>4, <2>5, IngestionTyped DEF TwinTypeOK, Phases
  <2> QED BY <1>1, <2>1, <2>4, <2>5, <2>6 DEF ModelRuns, ingestVars
<1>5. ASSUME Subscribe PROVE TwinTypeOK' /\ ModelRuns'
  <2>1. /\ phase = "loaded" /\ phase' \in {"loaded", "subscribed"}
        /\ subscriptions < Len(Channels) /\ subscriptions' = subscriptions + 1
        /\ UNCHANGED <<running, looping, serving, world_model>>
    BY <1>5 DEF Subscribe, StartStep
  <2>2. subscriptions' \in 0..Len(Channels) BY <1>2, <2>1 DEF TwinTypeOK
  <2>3. TwinTypeOK' BY <1>1, <2>1, <2>2, IngestionTyped DEF TwinTypeOK, Phases
  <2> QED BY <1>1, <2>1, <2>3 DEF ModelRuns, ingestVars
<1>6. ASSUME StartGrpcServer PROVE TwinTypeOK' /\ ModelRuns'
  <2>1. /\ phase = "subscribed" /\ phase' = "served" /\ serving' = TRUE
        /\ UNCHANGED <<running, looping, subscriptions, world_model>>
    BY <1>6 DEF StartGrpcServer, StartStep
  <2>2. TwinTypeOK' BY <1>1, <2>1, IngestionTyped DEF TwinTypeOK, Phases
  <2> QED BY <1>1, <2>1, <2>2 DEF ModelRuns, ingestVars
<1>7. ASSUME StartProcessing PROVE TwinTypeOK' /\ ModelRuns'
  <2>1. /\ phase = "served" /\ phase' = "up" /\ running' = TRUE /\ looping' = TRUE
        /\ UNCHANGED <<subscriptions, serving, world_model>>
    BY <1>7 DEF StartProcessing, StartStep, LoopStarts
  <2>2. TwinTypeOK' BY <1>1, <2>1, IngestionTyped DEF TwinTypeOK, Phases
  <2> QED BY <1>1, <2>1, <2>2 DEF ModelRuns, ingestVars
<1> QED BY <1>1, <1>3, <1>4, <1>5, <1>6, <1>7 DEF Starting

LEMMA StartFailsTyped ==
    ASSUME TwinTypeOK, ModelRuns, StartFails
    PROVE  TwinTypeOK' /\ ModelRuns' /\ UNCHANGED <<setup, ingestVars, historyVars>>
<1>1. /\ phase \in {"new", "connected", "loaded", "subscribed"} /\ phase' = "failed"
      /\ UNCHANGED <<setup, running, looping, subscriptions, serving, ingestVars, world_model,
                     historyVars, restarts>>
  BY DEF StartFails
<1>2. TwinTypeOK' BY <1>1, IngestionTyped DEF TwinTypeOK, Phases
<1> QED BY <1>1, <1>2 DEF ModelRuns, ingestVars

LEMMA StopGrpcServerTyped ==
    ASSUME TwinTypeOK, ModelRuns, StopGrpcServer
    PROVE  TwinTypeOK' /\ ModelRuns' /\ UNCHANGED <<setup, ingestVars, historyVars>>
<1>1. /\ phase = "stopping" /\ serving' = FALSE
      /\ phase' = IF world_model.reloading = 0 THEN "unserved" ELSE phase
      /\ UNCHANGED <<setup, running, looping, subscriptions, ingestVars, world_model, historyVars, restarts>>
  BY DEF StopGrpcServer
<1>2. TwinTypeOK' BY <1>1, IngestionTyped DEF TwinTypeOK, Phases
<1> QED BY <1>1, <1>2 DEF ModelRuns, ingestVars

LEMMA ShutdownTyped ==
    ASSUME TwinTypeOK, ModelRuns, ShutdownModel \/ CloseNats
    PROVE  TwinTypeOK' /\ ModelRuns' /\ UNCHANGED <<setup, ingestVars, historyVars>>
<1>1. ASSUME ShutdownModel PROVE TwinTypeOK' /\ ModelRuns' /\ UNCHANGED <<setup, ingestVars, historyVars>>
  <2>1. /\ phase = "unsubscribed" /\ phase' = "shut_down"
        /\ world_model' = Cleared(Cancelled(world_model))
        /\ UNCHANGED <<setup, running, looping, subscriptions, serving, ingestVars, historyVars, restarts>>
    BY <1>1 DEF ShutdownModel
  <2>2. PICK v : v = Cancelled(world_model) OBVIOUS
  <2>3. PICK u : u = Cleared(v) OBVIOUS
  <2>4. v \in ModelType /\ IsFiniteSet(v.alive) /\ v.reloading = world_model.reloading
    BY <2>2, CancelledIs DEF TwinTypeOK, ModelRuns
  <2>5. u \in ModelType /\ u.alive = v.alive /\ u.reloading = v.reloading BY <2>3, <2>4, ClearedIs
  <2>6. world_model' = u BY <2>1, <2>2, <2>3
  <2>7. TwinTypeOK' BY <2>1, <2>5, <2>6, IngestionTyped DEF TwinTypeOK, Phases
  <2> QED BY <2>1, <2>4, <2>5, <2>6, <2>7 DEF ModelRuns, ingestVars
<1>2. ASSUME CloseNats PROVE TwinTypeOK' /\ ModelRuns' /\ UNCHANGED <<setup, ingestVars, historyVars>>
  <2>1. /\ phase = "shut_down" /\ phase' = "stopped"
        /\ UNCHANGED <<setup, running, looping, subscriptions, serving, ingestVars, world_model,
                       historyVars, restarts>>
    BY <1>2 DEF CloseNats
  <2>2. TwinTypeOK' BY <2>1, IngestionTyped DEF TwinTypeOK, Phases
  <2> QED BY <2>1, <2>2 DEF ModelRuns, ingestVars
<1> QED BY <1>1, <1>2

LEMMA LostTyped ==
    ASSUME TwinTypeOK, setup' = setup, NEW X, X \subseteq AllEvents,
           fate' = [fate EXCEPT !.lost = @ \cup X]
    PROVE  fate' \in [applied : Seq(AllEvents'), failed : SUBSET AllEvents', dead : SUBSET AllEvents',
                      lost : SUBSET AllEvents']
<1>1. AllEvents' = AllEvents BY SameEvents
<1>2. PICK l : l = fate.lost \cup X OBVIOUS
<1>3. fate \in [applied : Seq(AllEvents), failed : SUBSET AllEvents, dead : SUBSET AllEvents,
                lost : SUBSET AllEvents]
  BY DEF TwinTypeOK
<1>4. l \in SUBSET AllEvents BY <1>2, <1>3
<1>5. fate' = [fate EXCEPT !.lost = l] BY <1>2
<1> QED BY <1>1, <1>3, <1>4, <1>5

LEMMA StopTyped ==
    ASSUME TwinTypeOK, ModelRuns, Stop
    PROVE  TwinTypeOK' /\ ModelRuns'
<1>1. /\ phase = "up" /\ phase' = "stopping" /\ running' = FALSE /\ looping' = FALSE /\ batch' = <<>>
      /\ fate' = [fate EXCEPT !.lost = @ \cup ToSet(batch)]
      /\ UNCHANGED <<setup, subscriptions, serving, inbox, handler, message_queue, world_model,
                     published, restarts>>
  BY DEF Stop
<1>2. AllEvents' = AllEvents BY <1>1, SameEvents
<1>3. ToSet(batch) \subseteq AllEvents BY Elements DEF TwinTypeOK
<1>4. fate' \in [applied : Seq(AllEvents'), failed : SUBSET AllEvents', dead : SUBSET AllEvents',
                 lost : SUBSET AllEvents']
  BY <1>1, <1>3, LostTyped
<1>5. batch' \in Seq(AllEvents') /\ Len(batch') < BatchSize BY <1>1, TwinAssumption
<1>6. TwinTypeOK' BY <1>1, <1>2, <1>4, <1>5 DEF TwinTypeOK, Phases
<1> QED BY <1>1, <1>6 DEF ModelRuns

LEMMA OnTheWayTyped == ASSUME TwinTypeOK PROVE OnTheWay \subseteq AllEvents
<1>1. ToSet(message_queue) \subseteq AllEvents /\ ToSet(batch) \subseteq AllEvents
  BY Elements DEF TwinTypeOK
<1>2. Putting \subseteq AllEvents
  <2>1. \A c \in Names : handler[c] \in Seq(AllEvents) BY DEF TwinTypeOK
  <2> QED BY <2>1, Elements DEF Putting
<1>3. Unread \subseteq AllEvents
  <2>1. \A c \in Names : inbox[c] \in Seq(1..published) BY DEF TwinTypeOK
  <2>2. Unhandled \subseteq 1..published BY <2>1, Elements DEF Unhandled
  <2>3. \A n \in Unhandled : n \in DOMAIN setup.traffic BY <2>2, PublishedTyped
  <2> QED BY <2>3 DEF Unread, AllEvents
<1> QED BY <1>1, <1>2, <1>3, OnTheWayIs

LEMMA StopIngestionStep ==
    ASSUME TwinTypeOK, EventsFlow, ModelRuns, StopIngestion
    PROVE  TwinTypeOK' /\ ModelRuns' /\ EventsFlow'
<1>1. /\ phase = "unserved" /\ phase' = "unsubscribed" /\ subscriptions' = 0
      /\ inbox' = [c \in Names |-> <<>>] /\ handler' = [c \in Names |-> <<>>] /\ message_queue' = <<>>
      /\ fate' = [fate EXCEPT !.lost = @ \cup OnTheWay]
      /\ UNCHANGED <<setup, running, looping, serving, batch, world_model, published, restarts>>
  BY DEF StopIngestion
<1>2. batch = <<>> BY <1>1 DEF ModelRuns
<1>3. EventsFlow' BY <1>1, <1>2, EverythingLost
<1>4. AllEvents' = AllEvents BY <1>1, SameEvents
<1>5. OnTheWay \subseteq AllEvents BY OnTheWayTyped
<1>6. fate' \in [applied : Seq(AllEvents'), failed : SUBSET AllEvents', dead : SUBSET AllEvents',
                 lost : SUBSET AllEvents']
  BY <1>1, <1>5, LostTyped
<1>7. /\ inbox' \in [Names -> Seq(1..published')] /\ handler' \in [Names -> Seq(AllEvents')]
      /\ message_queue' \in Seq(AllEvents') /\ Len(message_queue') <= QueueSize
  BY <1>1, TwinAssumption
<1>8. subscriptions' \in 0..Len(Channels) BY <1>1, TwinAssumption
<1>9. TwinTypeOK' BY <1>1, <1>4, <1>6, <1>7, <1>8 DEF TwinTypeOK, Phases
<1> QED BY <1>1, <1>3, <1>9 DEF ModelRuns

LEMMA CrashStep ==
    ASSUME TwinTypeOK, EventsFlow, ModelRuns, Crash
    PROVE  TwinTypeOK' /\ ModelRuns' /\ EventsFlow'
<1>1. /\ restarts < setup.crashes /\ restarts' = restarts + 1
      /\ phase' = "new" /\ running' = FALSE /\ looping' = FALSE /\ subscriptions' = 0 /\ serving' = FALSE
      /\ inbox' = [c \in Names |-> <<>>] /\ handler' = [c \in Names |-> <<>>]
      /\ message_queue' = <<>> /\ batch' = <<>>
      /\ world_model' = [NoModel EXCEPT !.requests = world_model.requests]
      /\ fate' = [fate EXCEPT !.lost = @ \cup OnTheWay]
      /\ UNCHANGED <<setup, published>>
  BY DEF Crash
<1>2. EventsFlow' BY <1>1, EverythingLost
<1>3. AllEvents' = AllEvents BY <1>1, SameEvents
<1>4. OnTheWay \subseteq AllEvents BY OnTheWayTyped
<1>5. fate' \in [applied : Seq(AllEvents'), failed : SUBSET AllEvents', dead : SUBSET AllEvents',
                 lost : SUBSET AllEvents']
  BY <1>1, <1>4, LostTyped
<1>6. /\ inbox' \in [Names -> Seq(1..published')] /\ handler' \in [Names -> Seq(AllEvents')]
      /\ message_queue' \in Seq(AllEvents') /\ Len(message_queue') <= QueueSize
      /\ batch' \in Seq(AllEvents') /\ Len(batch') < BatchSize
  BY <1>1, TwinAssumption
<1>7. subscriptions' \in 0..Len(Channels) BY <1>1, TwinAssumption
<1>8. restarts' \in 0..setup'.crashes
  <2>1. setup.crashes \in Nat BY SetupTyped DEF SetupType
  <2> QED BY <1>1, <2>1 DEF TwinTypeOK
<1>9. /\ world_model' \in ModelType /\ world_model'.listed = {} /\ world_model'.alive = {}
      /\ world_model'.reloading = 0
  BY <1>1 DEF NoModel, ModelType, TwinTypeOK
<1>10. TwinTypeOK' BY <1>1, <1>3, <1>5, <1>6, <1>7, <1>8, <1>9 DEF TwinTypeOK, Phases
<1>11. IsFiniteSet(world_model'.alive) BY <1>9, FS_EmptySet
<1> QED BY <1>1, <1>2, <1>9, <1>10, <1>11 DEF ModelRuns

-----------------------------------------------------------------------------
(* Ingestion                                                               *)

LEMMA PublishTyped ==
    ASSUME TwinTypeOK, Publish
    PROVE  TwinTypeOK'
<1> DEFINE n == published + 1
           c == setup.traffic[n].channel
<1>1. /\ published < Len(setup.traffic) /\ published' = n
      /\ UNCHANGED <<setup, lifeVars, handler, message_queue, batch, world_model, restarts>>
  BY DEF Publish
<1>2. /\ published' \in 0..Len(setup'.traffic) /\ published \in Nat /\ n \in DOMAIN setup.traffic
  BY <1>1, SetupTyped
<1>3. AllEvents' = AllEvents BY <1>1, SameEvents
<1>4. inbox \in [Names -> Seq(1..published)] BY DEF TwinTypeOK
<1>5. 1..published \subseteq 1..n /\ n \in 1..n BY <1>2
<1>6. inbox \in [Names -> Seq(1..n)]
  <2>1. ASSUME NEW d \in Names PROVE inbox[d] \in Seq(1..n)
    <3>1. inbox[d] \in Seq(1..published) BY <1>4
    <3> HIDE DEF n
    <3> QED BY <1>5, <3>1, Wider
  <2> QED BY <1>4, <2>1
<1>7. ASSUME c \in Subscribed PROVE inbox' \in [Names -> Seq(1..n)] /\ fate' = fate
  <2>1. inbox' = [inbox EXCEPT ![c] = Append(@, n)] /\ fate' = fate BY <1>1, <1>7 DEF Publish
  <2>2. PICK s : s = Append(inbox[c], n) OBVIOUS
  <2>3. ASSUME c \in Names PROVE s \in Seq(1..n) BY <1>5, <1>6, <2>2, <2>3
  <2>4. inbox' = [inbox EXCEPT ![c] = s] BY <2>1, <2>2
  <2> QED BY <1>6, <2>1, <2>3, <2>4
<1>8. ASSUME c \notin Subscribed
      PROVE  /\ inbox' = inbox
             /\ fate' \in [applied : Seq(AllEvents'), failed : SUBSET AllEvents', dead : SUBSET AllEvents',
                           lost : SUBSET AllEvents']
  <2>1. inbox' = inbox /\ fate' = [fate EXCEPT !.lost = @ \cup ToSet(Events(n))]
    BY <1>1, <1>8 DEF Publish
  <2>2. ToSet(Events(n)) \subseteq AllEvents BY <1>2 DEF AllEvents
  <2> QED BY <1>1, <2>1, <2>2, LostTyped
<1>9. fate' \in [applied : Seq(AllEvents'), failed : SUBSET AllEvents', dead : SUBSET AllEvents',
                 lost : SUBSET AllEvents']
  BY <1>3, <1>7, <1>8 DEF TwinTypeOK
<1>10. inbox' \in [Names -> Seq(1..published')] BY <1>1, <1>6, <1>7, <1>8
<1>11. UNCHANGED <<phase, running, looping, subscriptions, serving, setup, handler, message_queue, batch,
                   world_model, restarts>>
  BY <1>1 DEF lifeVars
<1> HIDE DEF n, c
<1> QED BY <1>2, <1>3, <1>9, <1>10, <1>11 DEF TwinTypeOK

LEMMA HandleTyped ==
    ASSUME TwinTypeOK, EventsFlow, NEW c \in Names, Handle(c)
    PROVE  TwinTypeOK'
<1> DEFINE n == Head(inbox[c])
<1>1. /\ inbox[c] # <<>> /\ handler[c] = <<>> /\ inbox' = [inbox EXCEPT ![c] = Tail(@)]
      /\ UNCHANGED <<setup, lifeVars, message_queue, batch, world_model, published, restarts>>
  BY DEF Handle, HandlerIsFree
<1>2. AllEvents' = AllEvents BY <1>1, SameEvents
<1>3. inbox \in [Names -> Seq(1..published)] /\ handler \in [Names -> Seq(AllEvents)]
  BY DEF TwinTypeOK
<1>4. Tail(inbox[c]) \in Seq(1..published) BY <1>1, <1>3, HeadAndTail
<1>5. inbox' \in [Names -> Seq(1..published')] BY <1>1, <1>3, <1>4
<1>6. n \in DOMAIN setup.traffic BY <1>1, HandleReads
<1>7. Events(n) \in Seq(AllEvents) /\ ToSet(Events(n)) \subseteq AllEvents BY <1>6, EventsOf, Elements
<1>8. /\ handler' \in [Names -> Seq(AllEvents')]
      /\ fate' \in [applied : Seq(AllEvents'), failed : SUBSET AllEvents', dead : SUBSET AllEvents',
                    lost : SUBSET AllEvents']
  <2>1. CASE setup.traffic[n].readable
    <3>1. handler' = [handler EXCEPT ![c] = Events(n) \o @] /\ fate' = fate BY <2>1 DEF Handle
    <3>2. PICK s : s = Events(n) \o handler[c] OBVIOUS
    <3>3. s \in Seq(AllEvents) BY <1>3, <1>7, <3>2, Concatenated
    <3>4. handler' = [handler EXCEPT ![c] = s] BY <3>1, <3>2
    <3>5. handler' \in [Names -> Seq(AllEvents)] BY <1>3, <3>3, <3>4
    <3> QED BY <1>2, <3>1, <3>5 DEF TwinTypeOK
  <2>2. CASE ~setup.traffic[n].readable
    <3>1. handler' = handler /\ fate' = [fate EXCEPT !.dead = @ \cup ToSet(Events(n))]
      BY <2>2 DEF Handle, DeadLettered
    <3>2. PICK d : d = fate.dead \cup ToSet(Events(n)) OBVIOUS
    <3>3. fate \in [applied : Seq(AllEvents), failed : SUBSET AllEvents, dead : SUBSET AllEvents,
                    lost : SUBSET AllEvents]
      BY DEF TwinTypeOK
    <3>4. d \in SUBSET AllEvents BY <1>7, <3>2, <3>3
    <3>5. fate' = [fate EXCEPT !.dead = d] BY <3>1, <3>2
    <3> QED BY <1>2, <1>3, <3>1, <3>3, <3>4, <3>5
  <2> QED BY <2>1, <2>2
<1>9. UNCHANGED <<phase, running, looping, subscriptions, serving, setup, message_queue, batch,
                  world_model, published, restarts>>
  BY <1>1 DEF lifeVars
<1> QED BY <1>2, <1>5, <1>8, <1>9 DEF TwinTypeOK

LEMMA PutTyped ==
    ASSUME TwinTypeOK, NEW c \in Names, Put(c)
    PROVE  TwinTypeOK'
<1>1. /\ handler[c] # <<>> /\ handler' = [handler EXCEPT ![c] = Tail(@)]
      /\ Len(message_queue) < QueueSize /\ message_queue' = Append(message_queue, Head(handler[c]))
      /\ UNCHANGED <<setup, lifeVars, inbox, batch, world_model, published, restarts>> /\ fate' = fate
  BY DEF Put, Enqueued
<1>2. AllEvents' = AllEvents BY <1>1, SameEvents
<1>3. handler \in [Names -> Seq(AllEvents)] /\ message_queue \in Seq(AllEvents) BY DEF TwinTypeOK
<1>4. Head(handler[c]) \in AllEvents /\ Tail(handler[c]) \in Seq(AllEvents)
  BY <1>1, <1>3, HeadAndTail
<1>5. handler' \in [Names -> Seq(AllEvents')] BY <1>1, <1>2, <1>3, <1>4
<1>6. message_queue' \in Seq(AllEvents') /\ Len(message_queue') <= QueueSize
  <2>1. message_queue' \in Seq(AllEvents) BY <1>1, <1>3, <1>4, AppendedTo
  <2>2. Len(message_queue') = Len(message_queue) + 1 /\ Len(message_queue) \in Nat BY <1>1, <1>3
  <2> QED BY <1>1, <1>2, <2>1, <2>2, TwinAssumption
<1>7. UNCHANGED <<phase, running, looping, subscriptions, serving, setup, inbox, batch,
                  world_model, published, restarts, fate>>
  BY <1>1 DEF lifeVars
<1> QED BY <1>2, <1>5, <1>6, <1>7 DEF TwinTypeOK

LEMMA GetTyped ==
    ASSUME TwinTypeOK, EventsFlow, Get
    PROVE  TwinTypeOK'
<1>1. /\ message_queue # <<>> /\ message_queue' = Tail(message_queue)
      /\ \/ batch' = <<>>
         \/ Len(Append(batch, Head(message_queue))) < BatchSize /\ batch' = Append(batch, Head(message_queue))
      /\ UNCHANGED <<setup, lifeVars, inbox, handler, world_model, published, restarts>>
  BY DEF Get
<1>2. AllEvents' = AllEvents BY <1>1, SameEvents
<1>3. fate' \in [applied : Seq(AllEvents), failed : SUBSET AllEvents, dead : SUBSET AllEvents,
                 lost : SUBSET AllEvents]
  BY GetFlow
<1>4. message_queue \in Seq(AllEvents) /\ Len(message_queue) <= QueueSize /\ batch \in Seq(AllEvents)
  BY DEF TwinTypeOK
<1>5. /\ Head(message_queue) \in AllEvents /\ Tail(message_queue) \in Seq(AllEvents)
      /\ Len(Tail(message_queue)) = Len(message_queue) - 1
  BY <1>1, <1>4, HeadAndTail
<1>6. message_queue' \in Seq(AllEvents) /\ Len(message_queue') <= QueueSize
  BY <1>1, <1>4, <1>5, TwinAssumption
<1>7. batch' \in Seq(AllEvents) /\ Len(batch') < BatchSize
  <2>1. CASE batch' = <<>> BY <2>1, TwinAssumption
  <2>2. CASE /\ Len(Append(batch, Head(message_queue))) < BatchSize
             /\ batch' = Append(batch, Head(message_queue))
    BY <1>4, <1>5, <2>2, AppendedTo
  <2> QED BY <1>1, <2>1, <2>2
<1>8. UNCHANGED <<phase, running, looping, subscriptions, serving, setup, inbox, handler,
                  world_model, published, restarts>>
  BY <1>1 DEF lifeVars
<1> QED BY <1>2, <1>3, <1>6, <1>7, <1>8 DEF TwinTypeOK

LEMMA BatchTimesOutTyped ==
    ASSUME TwinTypeOK, EventsFlow, BatchTimesOut
    PROVE  TwinTypeOK'
<1>1. /\ batch' = <<>>
      /\ UNCHANGED <<setup, lifeVars, inbox, handler, message_queue, world_model, published, restarts>>
  BY DEF BatchTimesOut
<1>2. AllEvents' = AllEvents BY <1>1, SameEvents
<1>3. fate' \in [applied : Seq(AllEvents), failed : SUBSET AllEvents, dead : SUBSET AllEvents,
                 lost : SUBSET AllEvents]
  BY BatchTimesOutFlow
<1>4. batch' \in Seq(AllEvents) /\ Len(batch') < BatchSize BY <1>1, TwinAssumption
<1>5. UNCHANGED <<phase, running, looping, subscriptions, serving, setup, inbox, handler, message_queue,
                  world_model, published, restarts>>
  BY <1>1 DEF lifeVars
<1> QED BY <1>2, <1>3, <1>4, <1>5 DEF TwinTypeOK

(* Ingestion leaves the model as it is, and works only while the loop runs *)
(* on what is in the batch.                                                *)
LEMMA IngestingModel ==
    ASSUME ModelRuns, Publish \/ Ingesting
    PROVE  ModelRuns'
<1>1. phase' = phase /\ looping' = looping /\ serving' = serving /\ world_model' = world_model
  BY DEF Publish, Ingesting, Handle, Put, Get, BatchTimesOut, lifeVars
<1>2. batch' = batch \/ looping
  BY DEF Publish, Ingesting, Handle, Put, Get, BatchTimesOut
<1> QED BY <1>1, <1>2 DEF ModelRuns

(* Every step of the twin                                                  *)
LEMMA TwinStep ==
    ASSUME TwinTypeOK, EventsFlow, ModelRuns, TwinNext
    PROVE  TwinTypeOK' /\ EventsFlow' /\ ModelRuns'
<1>1. CASE Starting \/ StartFails \/ StopGrpcServer \/ ShutdownModel \/ CloseNats
  BY <1>1, StartingTyped, StartFailsTyped, StopGrpcServerTyped, ShutdownTyped, FlowUnchanged
<1>2. CASE Stop BY <1>2, StopTyped, StopFlow
<1>3. CASE StopIngestion BY <1>3, StopIngestionStep
<1>4. CASE Crash BY <1>4, CrashStep
<1>5. CASE Publish BY <1>5, PublishTyped, PublishFlow, IngestingModel
<1>6. CASE Ingesting
  <2>1. ModelRuns' BY <1>6, IngestingModel
  <2>2. ASSUME NEW c \in Names, Handle(c) PROVE TwinTypeOK' /\ EventsFlow'
    BY <2>2, HandleTyped, HandleFlow
  <2>3. ASSUME NEW c \in Names, Put(c) PROVE TwinTypeOK' /\ EventsFlow' BY <2>3, PutTyped, PutFlow
  <2>4. ASSUME Get PROVE TwinTypeOK' /\ EventsFlow' BY <2>4, GetTyped, GetFlow
  <2>5. ASSUME BatchTimesOut PROVE TwinTypeOK' /\ EventsFlow'
    BY <2>5, BatchTimesOutTyped, BatchTimesOutFlow
  <2> QED BY <1>6, <2>1, <2>2, <2>3, <2>4, <2>5 DEF Ingesting
<1>7. CASE RequestReload \/ Reloading
  <2>1. TwinTypeOK' /\ ModelRuns'
    BY <1>7, ReloadTyped, FinishReloadTyped, TaskEndsTyped DEF Reloading
  <2>2. UNCHANGED <<setup, ingestVars, historyVars>>
    BY <1>7 DEF Reloading, RequestReload, FinishReload, TaskEnds
  <2> QED BY <2>1, <2>2, FlowUnchanged
<1> QED BY <1>1, <1>2, <1>3, <1>4, <1>5, <1>6, <1>7 DEF TwinNext, Stopping

(* What is not a step of the twin leaves it as it is.                      *)
LEMMA TwinRests ==
    ASSUME TwinTypeOK, EventsFlow, ModelRuns, UNCHANGED twinVars
    PROVE  TwinTypeOK' /\ EventsFlow' /\ ModelRuns'
<1>1. UNCHANGED <<setup, lifeVars, ingestVars, world_model, historyVars, restarts>>
  BY DEF twinVars
<1>2. UNCHANGED <<phase, running, looping, subscriptions, serving>> BY <1>1 DEF lifeVars
<1>3. EventsFlow' BY <1>1, FlowUnchanged
<1>4. TwinTypeOK' BY <1>1, <1>2, IngestionTyped DEF TwinTypeOK
<1>5. ModelRuns' BY <1>1, <1>2 DEF ModelRuns, ingestVars
<1> QED BY <1>3, <1>4, <1>5

-----------------------------------------------------------------------------
(* The client: attempts, the breaker and what it has counted               *)

LEMMA MinOf ==
    ASSUME NEW a \in Nat, NEW b \in Nat
    PROVE  Min({a, b}) = IF a <= b THEN a ELSE b
<1>1. \E x \in {a, b} : \A y \in {a, b} : x <= y OBVIOUS
<1>2. Min({a, b}) \in {a, b} /\ \A y \in {a, b} : Min({a, b}) <= y BY <1>1 DEF Min
<1> QED BY <1>2

CallType == [at : {"idle", "tool_connect", "attempt", "connect", "request", "sleep"},
             attempt : 0..MaxRetries, sleep : 0..Delay[MaxRetries]]
BreakerType == [state : {"closed", "open", "half_open"}, failures : Nat, age : 0..RecoveryTicks]
StreakType == [failures : 0..FailureThreshold, age : 0..RecoveryTicks]

LEMMA IdleIs == Idle \in CallType /\ Idle.at = "idle"
<1>1. MaxRetries \in Nat /\ MaxRetries \in 0..MaxRetries BY ClientAssumption
<1>2. Delay[MaxRetries] \in Nat BY <1>1, DelayGrows
<1> QED BY <1>1, <1>2 DEF Idle, CallType

LEMMA MovesTo ==
    ASSUME NEW c \in CallType, NEW at \in {"idle", "tool_connect", "attempt", "connect", "request", "sleep"},
           NEW d, d = [c EXCEPT !.at = at]
    PROVE  d \in CallType /\ d.at = at /\ d.attempt = c.attempt
BY DEF CallType

LEMMA AttemptFailsIs ==
    ASSUME ClientTypeOK, NEW u \in BOOLEAN, AttemptFails(u)
    PROVE  /\ stub' \in BOOLEAN /\ call' \in CallType /\ answer' \in {"none", "reply", "failed"}
           /\ call'.at \in {"idle", "sleep"}
           /\ call'.at = "sleep" => call'.attempt < MaxRetries
<1>1. call \in CallType /\ stub \in BOOLEAN /\ answer \in {"none", "reply", "failed"}
  BY DEF ClientTypeOK, CallType
<1>2. MaxRetries \in Nat BY ClientAssumption
<1>3. CASE call.attempt = MaxRetries
  <2>1. call' = Idle /\ answer' = "failed" /\ stub' = stub BY <1>3 DEF AttemptFails
  <2> QED BY <1>1, <2>1, IdleIs
<1>4. CASE call.attempt # MaxRetries
  <2>1. call.attempt \in 0..MaxRetries /\ call.attempt < MaxRetries BY <1>1, <1>2, <1>4 DEF CallType
  <2>2. PICK d : d = Delay[call.attempt] OBVIOUS
  <2>3. d \in 0..Delay[MaxRetries]
    <3>1. Delay[MaxRetries] \in Nat /\ d \in Nat /\ d <= Delay[MaxRetries]
      BY <1>2, <2>1, <2>2, DelayGrows
    <3> QED BY <3>1
  <2>4. /\ call' = [at |-> "sleep", attempt |-> call.attempt, sleep |-> d]
        /\ stub' = (stub /\ ~u) /\ answer' = answer
    BY <1>4, <2>2 DEF AttemptFails
  <2> QED BY <1>1, <2>1, <2>3, <2>4 DEF CallType
<1> QED BY <1>3, <1>4

LEMMA ClientStepKeeps ==
    ASSUME ClientTypeOK, BreakerCounts, ClientStep
    PROVE  ClientTypeOK' /\ BreakerCounts'
<1>1. /\ call \in CallType /\ breaker \in BreakerType /\ streak \in StreakType
      /\ stub \in BOOLEAN /\ answer \in {"none", "reply", "failed"}
  BY DEF ClientTypeOK, CallType, BreakerType, StreakType
<1>2. SUFFICES /\ call' \in CallType /\ breaker' \in BreakerType /\ streak' \in StreakType
               /\ stub' \in BOOLEAN /\ answer' \in {"none", "reply", "failed"} /\ BreakerCounts'
  BY DEF ClientTypeOK, CallType, BreakerType, StreakType
<1>3. CASE NeedsConnection
  <2>1. call' = [call EXCEPT !.at = "connect"] /\ UNCHANGED <<stub, breaker, answer, streak>>
        /\ call.at = "attempt"
    BY <1>3 DEF NeedsConnection
  <2>2. call' \in CallType /\ call'.at = "connect" BY <1>1, <2>1, MovesTo
  <2> QED BY <1>1, <2>1, <2>2 DEF BreakerCounts
<1>4. CASE Connected
  <2>1. /\ call' = [call EXCEPT !.at = "attempt"] /\ UNCHANGED <<breaker, answer, streak>>
        /\ stub' = TRUE /\ call.at \in {"tool_connect", "connect"}
    BY <1>4 DEF Connected
  <2>2. call' \in CallType /\ call'.at = "attempt" BY <1>1, <2>1, MovesTo
  <2> QED BY <1>1, <2>1, <2>2 DEF BreakerCounts
<1>5. CASE ConnectionFails
  <2>1. UNCHANGED <<breaker, streak>> /\ call.at # "request" BY <1>5 DEF ConnectionFails
  <2>2. /\ stub' \in BOOLEAN /\ call' \in CallType /\ answer' \in {"none", "reply", "failed"}
        /\ call'.at \in {"idle", "sleep"} /\ (call'.at = "sleep" => call'.attempt < MaxRetries)
    <3>1. CASE call.at = "connect" /\ AttemptFails(TRUE) BY <3>1, AttemptFailsIs
    <3>2. CASE call' = Idle /\ answer' = "failed" /\ UNCHANGED stub BY <1>1, <3>2, IdleIs
    <3> QED BY <1>5, <3>1, <3>2 DEF ConnectionFails
  <2> QED BY <1>1, <2>1, <2>2 DEF BreakerCounts
<1>6. CASE Request
  <2>1. /\ call.at = "attempt" /\ call' = [call EXCEPT !.at = "request"]
        /\ breaker' = Admitted(breaker) /\ UNCHANGED <<stub, answer, streak>>
    BY <1>6 DEF Request
  <2>2. call' \in CallType /\ call'.at = "request" BY <1>1, <2>1, MovesTo
  <2>3. /\ breaker' \in BreakerType /\ breaker'.failures = breaker.failures /\ breaker'.age = breaker.age
        /\ breaker.state = "open" => breaker'.state = "half_open"
    BY <1>1, <2>1 DEF Admitted, BreakerType
  <2> QED BY <1>1, <2>1, <2>2, <2>3 DEF BreakerCounts
<1>7. CASE TurnAway
  <2>1. AttemptFails(FALSE) /\ breaker' = breaker /\ streak' = streak /\ call.at = "attempt"
    BY <1>7 DEF TurnAway, TurnedAway
  <2>2. /\ stub' \in BOOLEAN /\ call' \in CallType /\ answer' \in {"none", "reply", "failed"}
        /\ call'.at \in {"idle", "sleep"} /\ (call'.at = "sleep" => call'.attempt < MaxRetries)
    BY <2>1, AttemptFailsIs
  <2> QED BY <1>1, <2>1, <2>2 DEF BreakerCounts
<1>8. CASE Answered
  <2>1. /\ call' = Idle /\ answer' = "reply" /\ stub' = stub
        /\ breaker' = [breaker EXCEPT !.state = "closed", !.failures = 0]
        /\ streak' = [streak EXCEPT !.failures = 0]
    BY <1>8 DEF Answered, OnSuccess
  <2>2. FailureThreshold \in Nat /\ FailureThreshold # 0 BY ClientAssumption
  <2>3. breaker' \in BreakerType /\ breaker'.failures = 0 /\ breaker'.age = breaker.age
    BY <1>1, <2>1 DEF BreakerType
  <2>4. streak' \in StreakType /\ streak'.failures = 0 /\ streak'.age = streak.age
    BY <1>1, <2>1, <2>2 DEF StreakType
  <2> QED BY <1>1, <2>1, <2>2, <2>3, <2>4, IdleIs DEF BreakerCounts
<1>9. CASE RequestFails
  <2>1. PICK u \in BOOLEAN : AttemptFails(u) BY <1>9 DEF RequestFails
  <2>2. /\ stub' \in BOOLEAN /\ call' \in CallType /\ answer' \in {"none", "reply", "failed"}
        /\ call'.at \in {"idle", "sleep"} /\ (call'.at = "sleep" => call'.attempt < MaxRetries)
    BY <2>1, AttemptFailsIs
  <2>3. FailureThreshold \in Nat /\ RecoveryTicks \in Nat BY ClientAssumption
  <2>4. breaker.failures = streak.failures /\ streak.failures \in 0..FailureThreshold
    BY <1>1 DEF BreakerCounts, StreakType
  <2>5. PICK f : f = Min({streak.failures + 1, FailureThreshold}) OBVIOUS
  <2>6. f = IF streak.failures + 1 <= FailureThreshold THEN streak.failures + 1 ELSE FailureThreshold
    BY <2>3, <2>4, <2>5, MinOf
  <2>7. f \in 0..FailureThreshold /\ (f = FailureThreshold => streak.failures + 1 >= FailureThreshold)
    BY <2>3, <2>4, <2>6
  <2>8. streak' = [failures |-> f, age |-> 0] BY <1>9, <2>5 DEF RequestFails
  <2>9. PICK st : st = IF breaker.failures + 1 >= FailureThreshold THEN "open" ELSE breaker.state
    OBVIOUS
  <2>10. breaker' = [breaker EXCEPT !.failures = f, !.age = 0, !.state = st]
    BY <1>9, <2>4, <2>5, <2>9 DEF RequestFails, OnFailure
  <2>11. st \in {"closed", "open", "half_open"} BY <1>1, <2>9 DEF BreakerType
  <2>12. breaker' \in BreakerType /\ breaker'.failures = f /\ breaker'.age = 0 /\ breaker'.state = st
    <3>1. f \in Nat /\ 0 \in 0..RecoveryTicks BY <2>3, <2>7
    <3>2. PICK z : z = 0 OBVIOUS
    <3>3. breaker' = [breaker EXCEPT !.failures = f, !.age = z, !.state = st] BY <2>10, <3>2
    <3> QED BY <1>1, <2>11, <3>1, <3>2, <3>3 DEF BreakerType
  <2>13. streak' \in StreakType /\ streak'.failures = f /\ streak'.age = 0
    BY <2>3, <2>7, <2>8 DEF StreakType
  <2> QED BY <2>2, <2>4, <2>7, <2>9, <2>12, <2>13 DEF BreakerCounts
<1>10. CASE Retry
  <2>1. /\ call.at = "sleep" /\ UNCHANGED <<stub, breaker, answer, streak>>
        /\ call' = [call EXCEPT !.at = "attempt", !.attempt = @ + 1]
    BY <1>10 DEF Retry
  <2>2. call.attempt < MaxRetries BY <2>1 DEF BreakerCounts
  <2>3. PICK n : n = call.attempt + 1 OBVIOUS
  <2>4. n \in 0..MaxRetries BY <1>1, <2>2, <2>3, ClientAssumption DEF CallType
  <2>5. call' = [call EXCEPT !.at = "attempt", !.attempt = n] BY <2>1, <2>3
  <2>6. call' \in CallType /\ call'.at = "attempt" BY <1>1, <2>4, <2>5 DEF CallType
  <2> QED BY <1>1, <2>1, <2>6 DEF BreakerCounts
<1> QED BY <1>3, <1>4, <1>5, <1>6, <1>7, <1>8, <1>9, <1>10 DEF ClientStep

LEMMA OlderIs ==
    ASSUME NEW a \in 0..RecoveryTicks
    PROVE  Older(a) \in 0..RecoveryTicks
<1>1. RecoveryTicks \in Nat /\ a + 1 \in Nat BY ClientAssumption
<1> QED BY <1>1, MinOf DEF Older

LEMMA ClientTickKeeps ==
    ASSUME ClientTypeOK, BreakerCounts, ClientTick
    PROVE  ClientTypeOK' /\ BreakerCounts' /\ call'.at = call.at
<1>1. /\ call \in CallType /\ breaker \in BreakerType /\ streak \in StreakType
      /\ stub \in BOOLEAN /\ answer \in {"none", "reply", "failed"}
  BY DEF ClientTypeOK, CallType, BreakerType, StreakType
<1>2. breaker.age = streak.age /\ breaker.age \in 0..RecoveryTicks BY <1>1 DEF BreakerCounts, BreakerType
<1>3. PICK a : a = Older(breaker.age) OBVIOUS
<1>4. a \in 0..RecoveryTicks BY <1>2, <1>3, OlderIs
<1>5. PICK s : s = IF call.sleep = 0 THEN 0 ELSE call.sleep - 1 OBVIOUS
<1>6. s \in 0..Delay[MaxRetries]
  <2>1. MaxRetries \in 0..MaxRetries BY ClientAssumption
  <2>2. Delay[MaxRetries] \in Nat BY <2>1, DelayGrows
  <2>3. call.sleep \in 0..Delay[MaxRetries] BY <1>1 DEF CallType
  <2> QED BY <1>5, <2>2, <2>3
<1>7. /\ breaker' = [breaker EXCEPT !.age = a] /\ streak' = [streak EXCEPT !.age = a]
      /\ call' = [call EXCEPT !.sleep = s] /\ UNCHANGED <<stub, answer>>
  BY <1>2, <1>3, <1>5 DEF ClientTick
<1>8. breaker' \in BreakerType /\ breaker'.age = a /\ breaker'.failures = breaker.failures
      /\ breaker'.state = breaker.state
  BY <1>1, <1>4, <1>7 DEF BreakerType
<1>9. streak' \in StreakType /\ streak'.age = a /\ streak'.failures = streak.failures
  BY <1>1, <1>4, <1>7 DEF StreakType
<1>10. call' \in CallType /\ call'.at = call.at /\ call'.attempt = call.attempt
  BY <1>1, <1>6, <1>7 DEF CallType
<1>11. ClientTypeOK' BY <1>1, <1>7, <1>8, <1>9, <1>10 DEF ClientTypeOK, CallType, BreakerType, StreakType
<1> QED BY <1>8, <1>9, <1>10, <1>11 DEF BreakerCounts

LEMMA BeginCallKeeps ==
    ASSUME ClientTypeOK, BreakerCounts, call.at = "idle", BeginCall
    PROVE  ClientTypeOK' /\ BreakerCounts'
<1>1. /\ call \in CallType /\ breaker \in BreakerType /\ streak \in StreakType /\ stub \in BOOLEAN
  BY DEF ClientTypeOK, CallType, BreakerType, StreakType
<1>2. PICK at : at = IF stub THEN "attempt" ELSE "tool_connect" OBVIOUS
<1>3. /\ call' = [Idle EXCEPT !.at = at] /\ answer' = "none" /\ UNCHANGED <<stub, breaker, streak>>
  BY <1>2 DEF BeginCall
<1>4. call' \in CallType /\ call'.at \in {"attempt", "tool_connect"} BY <1>2, <1>3, IdleIs, MovesTo
<1>5. ClientTypeOK' BY <1>1, <1>3, <1>4 DEF ClientTypeOK, CallType, BreakerType, StreakType
<1> QED BY <1>3, <1>4, <1>5 DEF BreakerCounts

LEMMA ClientRests ==
    ASSUME ClientTypeOK, BreakerCounts, UNCHANGED <<stub, breaker, call, streak>>,
           answer' \in {"none", answer}
    PROVE  ClientTypeOK' /\ BreakerCounts'
BY DEF ClientTypeOK, BreakerCounts

-----------------------------------------------------------------------------
(* The reasoning and its budget                                            *)

LEMMA SeqOfIs ==
    ASSUME NEW S, NEW n \in Nat, NEW s
    PROVE  s \in SeqOf(S, n) <=> s \in Seq(S) /\ Len(s) <= n
<1>1. ASSUME s \in SeqOf(S, n) PROVE s \in Seq(S) /\ Len(s) <= n
  <2>1. PICK m \in 0..n : s \in [1..m -> S] BY <1>1 DEF SeqOf
  <2>2. m \in Nat /\ s \in Seq(S) BY <2>1
  <2>3. Len(s) = m BY <2>1, <2>2
  <2> QED BY <2>1, <2>2, <2>3
<1>2. ASSUME s \in Seq(S), Len(s) <= n PROVE s \in SeqOf(S, n)
  <2>1. Len(s) \in 0..n /\ s \in [1..Len(s) -> S] BY <1>2
  <2> QED BY <2>1 DEF SeqOf
<1> QED BY <1>1, <1>2

LEMMA AtRestIs == AtRest \in MindType
<1>1. 0 \in 0..MaxToolCalls /\ 0 \in 0..MaxCallsPerReply BY ReasonerAssumption
<1>2. PICK s : s = <<>> OBVIOUS
<1>3. s \in SeqOf(Tools, MaxCallsPerReply)
  <2>1. s \in Seq(Tools) BY <1>2
  <2>2. Len(s) <= MaxCallsPerReply /\ MaxCallsPerReply \in Nat BY <1>2, ReasonerAssumption
  <2> QED BY <2>1, <2>2, SeqOfIs
<1>4. AtRest = [at |-> "idle", turn |-> 0, made |-> 0, todo |-> s, action |-> "none", ran |-> 0]
  BY <1>2 DEF AtRest
<1> QED BY <1>1, <1>3, <1>4 DEF MindType, Actions

ReasonerType == mind \in MindType /\ decision \in Decisions /\ last_action \in 0..CooldownTicks

LEMMA ConcludeKeeps ==
    ASSUME ReasonerType, NEW r \in Decisions, Conclude(r), call'.at = "idle"
    PROVE  ReasonerType' /\ BudgetKept'
<1>1. mind' = AtRest /\ decision' = r /\ last_action' = IF r = "ADAPT" THEN 0 ELSE last_action
  BY DEF Conclude
<1>2. last_action' \in 0..CooldownTicks BY <1>1, ReasonerAssumption DEF ReasonerType
<1>3. mind'.at = "idle" /\ mind'.made = 0 BY <1>1 DEF AtRest
<1>4. 0 < MaxToolCalls + MaxCallsPerReply BY ReasonerAssumption
<1> QED BY <1>1, <1>2, <1>3, <1>4, AtRestIs DEF ReasonerType, BudgetKept, ToolCallsBounded

LEMMA AsksAgain ==
    ASSUME ReasonerType, UNCHANGED <<last_action, decision>>, NEW t \in 0..MaxToolCalls,
           NEW m \in Nat, m < MaxToolCalls + MaxCallsPerReply,
           mind' = [AtRest EXCEPT !.at = "ask", !.turn = t, !.made = m], call'.at = "idle"
    PROVE  ReasonerType' /\ BudgetKept'
<1>1. /\ mind' \in MindType /\ mind'.at = "ask" /\ mind'.made = m /\ mind'.ran = 0
  BY AtRestIs DEF MindType, AtRest
<1> QED BY <1>1 DEF ReasonerType, BudgetKept, ToolCallsBounded

LEMMA NextTurnKeeps ==
    ASSUME ReasonerType, BudgetKept, NextTurn, call'.at = "idle"
    PROVE  ReasonerType' /\ BudgetKept'
<1>1. mind.turn \in 0..MaxToolCalls /\ mind.made \in Nat /\ MaxToolCalls \in Nat
  BY ReasonerAssumption DEF ReasonerType, MindType
<1>2. CASE mind.turn = MaxToolCalls
  <2>1. Conclude("NO_ACTION") BY <1>2 DEF NextTurn
  <2> QED BY <2>1, ConcludeKeeps DEF Decisions
<1>3. CASE mind.turn # MaxToolCalls
  <2>1. PICK t : t = mind.turn + 1 OBVIOUS
  <2>2. t \in 0..MaxToolCalls BY <1>1, <1>3, <2>1
  <2>3. /\ mind' = [AtRest EXCEPT !.at = "ask", !.turn = t, !.made = mind.made]
        /\ UNCHANGED <<last_action, decision>>
    BY <1>3, <2>1 DEF NextTurn
  <2>4. mind.made < MaxToolCalls + MaxCallsPerReply BY DEF BudgetKept, ToolCallsBounded
  <2> QED BY <1>1, <2>2, <2>3, <2>4, AsksAgain
<1> QED BY <1>2, <1>3

LEMMA ResultIs == ASSUME NEW a \in Actions PROVE Result(a) \in Decisions
BY DEF Actions, Decisions, Result

LEMMA BeginKeeps ==
    ASSUME ReasonerType, BudgetKept, Begin
    PROVE  ReasonerType' /\ BudgetKept'
<1>1. mind.at = "idle" /\ Reason /\ call' = call BY DEF Begin, clientVars
<1>2. call'.at = "idle" BY <1>1 DEF BudgetKept
<1>3. CASE IsInCooldown
  <2>1. Conclude("NO_ACTION") BY <1>1, <1>3 DEF Reason
  <2> QED BY <1>2, <2>1, ConcludeKeeps DEF Decisions
<1>4. CASE ~IsInCooldown
  <2>1. mind' = [AtRest EXCEPT !.at = "ask"] /\ decision' = "none" /\ last_action' = last_action
    BY <1>1, <1>4 DEF Reason
  <2>2. mind' \in MindType /\ mind'.at = "ask" /\ mind'.made = 0 /\ mind'.ran = 0
    BY <2>1, AtRestIs DEF MindType, AtRest
  <2>3. 0 < MaxToolCalls + MaxCallsPerReply BY ReasonerAssumption
  <2> QED BY <1>2, <2>1, <2>2, <2>3 DEF ReasonerType, Decisions, BudgetKept, ToolCallsBounded
<1> QED BY <1>3, <1>4

LEMMA ModelRepliesKeeps ==
    ASSUME ReasonerType, BudgetKept, ModelReplies
    PROVE  ReasonerType' /\ BudgetKept'
<1>1. PICK r \in Replies : Reply(r) BY DEF ModelReplies
<1>2. mind.at = "ask" /\ call' = call /\ mind.ran = 0 BY DEF ModelReplies, clientVars, BudgetKept
<1>3. call'.at = "idle" BY <1>2 DEF BudgetKept
<1>4. r.tools \in SeqOf(Tools, MaxCallsPerReply) /\ r.action \in Actions BY DEF Replies
<1>5. r.tools \in Seq(Tools) /\ Len(r.tools) \in Nat /\ Len(r.tools) <= MaxCallsPerReply
  <2>1. r.tools \in Seq(Tools) /\ Len(r.tools) <= MaxCallsPerReply
    BY <1>4, SeqOfIs, ReasonerAssumption
  <2> QED BY <2>1
<1>6. /\ mind \in MindType /\ mind.made \in Nat /\ MaxToolCalls \in Nat /\ MaxCallsPerReply \in Nat
  BY ReasonerAssumption DEF ReasonerType, MindType
<1>7. CASE r.tools # <<>> /\ WithinBudget
  <2>1. PICK s : s = r.tools OBVIOUS
  <2>2. PICK a : a = r.action OBVIOUS
  <2>3. /\ mind' = [mind EXCEPT !.at = "tools", !.todo = s, !.action = a]
        /\ UNCHANGED <<last_action, decision>>
    BY <1>1, <1>7, <2>1, <2>2 DEF Reply
  <2>4. /\ mind' \in MindType /\ mind'.at = "tools" /\ mind'.todo = s /\ mind'.made = mind.made
        /\ mind'.ran = mind.ran
    BY <1>4, <1>6, <2>1, <2>2, <2>3 DEF MindType
  <2>5. mind.made < MaxToolCalls BY <1>7 DEF WithinBudget
  <2>6. /\ mind'.ran + Len(s) <= MaxCallsPerReply
        /\ mind'.made + Len(s) < MaxToolCalls + MaxCallsPerReply
        /\ mind'.made < MaxToolCalls + MaxCallsPerReply
    BY <1>2, <1>5, <1>6, <2>1, <2>4, <2>5
  <2> QED BY <1>3, <2>3, <2>4, <2>6 DEF ReasonerType, BudgetKept, ToolCallsBounded
<1>8. CASE ~(r.tools # <<>> /\ WithinBudget) /\ r.action # "none"
  <2>1. Conclude(Result(r.action)) BY <1>1, <1>8 DEF Reply
  <2> QED BY <1>3, <1>4, <2>1, ResultIs, ConcludeKeeps
<1>9. CASE r.action = "none" /\ r.tools = <<>>
  <2>1. mind' = [mind EXCEPT !.at = "ask_again"] /\ UNCHANGED <<last_action, decision>>
    BY <1>1, <1>9 DEF Reply
  <2>2. mind' \in MindType /\ mind'.at = "ask_again" /\ mind'.made = mind.made
    BY <1>6, <2>1 DEF MindType
  <2> QED BY <1>3, <2>1, <2>2 DEF ReasonerType, BudgetKept, ToolCallsBounded
<1>10. CASE r.action = "none" /\ r.tools # <<>> /\ ~WithinBudget
  <2>1. NextTurn BY <1>1, <1>10 DEF Reply
  <2> QED BY <1>3, <2>1, NextTurnKeeps
<1> QED BY <1>7, <1>8, <1>9, <1>10

LEMMA ThinkingKeeps ==
    ASSUME ReasonerType, BudgetKept, Thinking
    PROVE  ReasonerType' /\ BudgetKept'
<1>1. CASE ModelReplies BY <1>1, ModelRepliesKeeps
<1>2. CASE ModelDecides
  <2>1. PICK a \in Actions : Conclude(Result(a)) BY <1>2 DEF ModelDecides
  <2>2. call'.at = "idle" BY <1>2 DEF ModelDecides, clientVars, BudgetKept
  <2> QED BY <2>1, <2>2, ResultIs, ConcludeKeeps
<1>3. CASE ReasoningFails
  <2>1. Conclude("ALERT") /\ call'.at = "idle" BY <1>3 DEF ReasoningFails, clientVars, BudgetKept
  <2> QED BY <2>1, ConcludeKeeps DEF Decisions
<1> QED BY <1>1, <1>2, <1>3 DEF Thinking

(* A tool has returned: what is left of the reply gets shorter by what the *)
(* budget and the results get longer.                                      *)
LEMMA ToolReturnsKeeps ==
    ASSUME ReasonerType, BudgetKept, ToolReturns, mind.at \in {"tools", "twin"}, mind.todo # <<>>,
           call'.at = "idle", UNCHANGED <<last_action, decision>>
    PROVE  ReasonerType' /\ BudgetKept'
<1>1. mind \in MindType /\ mind.made \in Nat /\ mind.ran \in Nat BY DEF ReasonerType, MindType
<1>2. MaxToolCalls \in Nat /\ MaxCallsPerReply \in Nat BY ReasonerAssumption
<1>3. mind.todo \in Seq(Tools) /\ Len(mind.todo) <= MaxCallsPerReply
  <2>1. mind.todo \in SeqOf(Tools, MaxCallsPerReply) BY <1>1 DEF MindType
  <2> QED BY <1>2, <2>1, SeqOfIs
<1>4. PICK s : s = Tail(mind.todo) OBVIOUS
<1>5. s \in Seq(Tools) /\ Len(s) = Len(mind.todo) - 1 /\ Len(s) \in Nat /\ Len(mind.todo) \in Nat
  <2>1. s \in Seq(Tools) /\ Len(s) = Len(mind.todo) - 1 BY <1>3, <1>4, HeadAndTail
  <2> QED BY <1>3, <2>1
<1>6. s \in SeqOf(Tools, MaxCallsPerReply)
  <2>1. Len(s) <= MaxCallsPerReply BY <1>2, <1>3, <1>5
  <2> QED BY <1>2, <1>5, <2>1, SeqOfIs
<1>7. PICK m : m = mind.made + 1 OBVIOUS
<1>8. PICK r : r = mind.ran + 1 OBVIOUS
<1>9. /\ mind.ran + Len(mind.todo) <= MaxCallsPerReply
      /\ mind.made + Len(mind.todo) < MaxToolCalls + MaxCallsPerReply
  BY DEF BudgetKept
<1>10. /\ m \in Nat /\ r \in 0..MaxCallsPerReply /\ r + Len(s) <= MaxCallsPerReply
       /\ m + Len(s) < MaxToolCalls + MaxCallsPerReply /\ m < MaxToolCalls + MaxCallsPerReply
  <2>1. PICK k \in Nat : k = Len(mind.todo) BY <1>5
  <2>2. PICK l \in Nat : l = Len(s) BY <1>5
  <2>3. PICK a \in Nat : a = mind.made BY <1>1
  <2>4. PICK b \in Nat : b = mind.ran BY <1>1
  <2>5. l = k - 1 /\ m = a + 1 /\ r = b + 1 BY <1>5, <1>7, <1>8, <2>1, <2>2, <2>3, <2>4
  <2>6. b + k <= MaxCallsPerReply /\ a + k < MaxToolCalls + MaxCallsPerReply
    BY <1>9, <2>1, <2>3, <2>4
  <2>7. /\ m \in Nat /\ r \in 0..MaxCallsPerReply /\ r + l <= MaxCallsPerReply
        /\ m + l < MaxToolCalls + MaxCallsPerReply /\ m < MaxToolCalls + MaxCallsPerReply
    BY <1>2, <2>5, <2>6
  <2> QED BY <2>2, <2>7
<1>11. mind' = [mind EXCEPT !.at = "tools", !.todo = s, !.made = m, !.ran = r]
  BY <1>4, <1>7, <1>8 DEF ToolReturns
<1>12. /\ mind' \in MindType /\ mind'.at = "tools" /\ mind'.todo = s /\ mind'.made = m /\ mind'.ran = r
  BY <1>1, <1>6, <1>10, <1>11 DEF MindType
<1> QED BY <1>10, <1>12 DEF ReasonerType, BudgetKept, ToolCallsBounded

LEMMA PassOverKeeps ==
    ASSUME ReasonerType, BudgetKept, PassOver
    PROVE  ReasonerType' /\ BudgetKept'
<1>1. /\ mind.at = "tools" /\ mind.todo # <<>> /\ mind' = [mind EXCEPT !.todo = Tail(@)]
      /\ call' = call /\ UNCHANGED <<last_action, decision>>
  BY DEF PassOver, clientVars, ToolUnchanged
<1>2. mind \in MindType /\ mind.made \in Nat /\ mind.ran \in Nat BY DEF ReasonerType, MindType
<1>3. MaxToolCalls \in Nat /\ MaxCallsPerReply \in Nat BY ReasonerAssumption
<1>4. mind.todo \in Seq(Tools) /\ Len(mind.todo) <= MaxCallsPerReply
  <2>1. mind.todo \in SeqOf(Tools, MaxCallsPerReply) BY <1>2 DEF MindType
  <2> QED BY <1>3, <2>1, SeqOfIs
<1>5. PICK s : s = Tail(mind.todo) OBVIOUS
<1>6. s \in Seq(Tools) /\ Len(s) = Len(mind.todo) - 1 /\ Len(s) \in Nat /\ Len(mind.todo) \in Nat
  <2>1. s \in Seq(Tools) /\ Len(s) = Len(mind.todo) - 1 BY <1>1, <1>4, <1>5, HeadAndTail
  <2> QED BY <1>4, <2>1
<1>7. s \in SeqOf(Tools, MaxCallsPerReply)
  <2>1. Len(s) <= MaxCallsPerReply BY <1>3, <1>4, <1>6
  <2> QED BY <1>3, <1>6, <2>1, SeqOfIs
<1>8. mind' = [mind EXCEPT !.todo = s] BY <1>1, <1>5
<1>9. /\ mind' \in MindType /\ mind'.at = "tools" /\ mind'.todo = s /\ mind'.made = mind.made
      /\ mind'.ran = mind.ran
  BY <1>1, <1>2, <1>7, <1>8 DEF MindType
<1>10. /\ mind.ran + Len(s) <= MaxCallsPerReply
       /\ mind.made + Len(s) < MaxToolCalls + MaxCallsPerReply
  <2>1. /\ mind.ran + Len(mind.todo) <= MaxCallsPerReply
        /\ mind.made + Len(mind.todo) < MaxToolCalls + MaxCallsPerReply
    BY <1>1 DEF BudgetKept
  <2> QED BY <1>2, <1>3, <1>6, <2>1
<1>11. call'.at = "idle" /\ mind.made < MaxToolCalls + MaxCallsPerReply
  BY <1>1 DEF BudgetKept, ToolCallsBounded
<1> QED BY <1>1, <1>9, <1>10, <1>11 DEF ReasonerType, BudgetKept, ToolCallsBounded

LEMMA AskTwinKeeps ==
    ASSUME ReasonerType, BudgetKept, AskTwin
    PROVE  ReasonerType' /\ BudgetKept'
<1>1. /\ mind.at = "tools" /\ mind.todo # <<>> /\ mind' = [mind EXCEPT !.at = "twin"]
      /\ UNCHANGED <<last_action, decision>>
  BY DEF AskTwin, ToolUnchanged
<1>2. /\ mind' \in MindType /\ mind'.at = "twin" /\ mind'.todo = mind.todo /\ mind'.made = mind.made
      /\ mind'.ran = mind.ran
  BY <1>1 DEF ReasonerType, MindType
<1> QED BY <1>1, <1>2 DEF ReasonerType, BudgetKept, ToolCallsBounded

LEMMA UsingToolsKeeps ==
    ASSUME ReasonerType, BudgetKept, UsingTools
    PROVE  ReasonerType' /\ BudgetKept'
<1>1. CASE AskKnowledgeBase
  <2>1. /\ mind.at = "tools" /\ mind.todo # <<>> /\ ToolReturns /\ call' = call
        /\ UNCHANGED <<last_action, decision>>
    BY <1>1 DEF AskKnowledgeBase, clientVars, ToolUnchanged
  <2>2. call'.at = "idle" BY <2>1 DEF BudgetKept
  <2> QED BY <2>1, <2>2, ToolReturnsKeeps
<1>2. CASE PassOver BY <1>2, PassOverKeeps
<1>3. CASE AskTwin BY <1>3, AskTwinKeeps
<1>4. CASE TwinCallReturns
  <2>1. /\ mind.at = "twin" /\ ToolReturns /\ call' = call /\ call.at = "idle"
        /\ UNCHANGED <<last_action, decision>>
    BY <1>4 DEF TwinCallReturns, ToolUnchanged
  <2>2. mind.todo # <<>> BY <2>1 DEF BudgetKept
  <2> QED BY <2>1, <2>2, ToolReturnsKeeps
<1>5. CASE ToolsDone
  <2>1. mind.at = "tools" /\ call' = call BY <1>5 DEF ToolsDone, clientVars
  <2>2. call'.at = "idle" BY <2>1 DEF BudgetKept
  <2>3. CASE mind.ran > 0 \/ mind.action = "none"
    <3>1. NextTurn BY <1>5, <2>3 DEF ToolsDone
    <3> QED BY <2>2, <3>1, NextTurnKeeps
  <2>4. CASE ~(mind.ran > 0 \/ mind.action = "none")
    <3>1. Conclude(Result(mind.action)) BY <1>5, <2>4 DEF ToolsDone
    <3>2. mind.action \in Actions BY DEF ReasonerType, MindType
    <3> QED BY <2>2, <3>1, <3>2, ResultIs, ConcludeKeeps
  <2> QED BY <2>3, <2>4
<1> QED BY <1>1, <1>2, <1>3, <1>4, <1>5 DEF UsingTools

-----------------------------------------------------------------------------
(* Every step of all three                                                 *)

LEMMA ReasonerStep == ReasonerIndInv /\ [Next]_vars => ReasonerIndInv'
<1> SUFFICES ASSUME ReasonerIndInv, [Next]_vars PROVE ReasonerIndInv' OBVIOUS
<1>1. TwinTypeOK /\ EventsFlow /\ ModelRuns /\ ClientTypeOK /\ BreakerCounts /\ ReasonerType /\ BudgetKept
  BY DEF ReasonerIndInv, TypeOK, ReasonerType
<1> SUFFICES /\ TwinTypeOK' /\ EventsFlow' /\ ModelRuns'
             /\ ClientTypeOK' /\ BreakerCounts'
             /\ ReasonerType' /\ BudgetKept'
  BY DEF ReasonerIndInv, TypeOK, ReasonerType
<1>2. ASSUME UNCHANGED reasonerVars, call'.at = call.at \/ mind.at = "twin"
      PROVE  ReasonerType' /\ BudgetKept'
  <2>1. UNCHANGED <<mind, last_action, decision>> BY <1>2 DEF reasonerVars
  <2> QED BY <1>1, <1>2, <2>1 DEF ReasonerType, BudgetKept, ToolCallsBounded
<1>3. ASSUME UNCHANGED clientVars PROVE ClientTypeOK' /\ BreakerCounts' /\ call'.at = call.at
  <2>1. UNCHANGED <<stub, breaker, call, streak>> /\ answer' \in {"none", answer} /\ call'.at = call.at
    BY <1>3 DEF clientVars
  <2> QED BY <1>1, <2>1, ClientRests
<1>4. ASSUME UNCHANGED twinVars PROVE TwinTypeOK' /\ EventsFlow' /\ ModelRuns'
  BY <1>1, <1>4, TwinRests
<1>5. CASE Twin
  <2>1. TwinNext /\ UNCHANGED clientVars /\ UNCHANGED reasonerVars BY <1>5 DEF Twin
  <2>2. TwinTypeOK' /\ EventsFlow' /\ ModelRuns' BY <1>1, <2>1, TwinStep
  <2> QED BY <1>2, <1>3, <2>1, <2>2
<1>6. CASE Client
  <2>1. ClientStep /\ UNCHANGED twinVars /\ UNCHANGED reasonerVars BY <1>6 DEF Client
  <2>2. ClientTypeOK' /\ BreakerCounts' BY <1>1, <2>1, ClientStepKeeps
  <2>3. call.at # "idle"
    BY <2>1 DEF ClientStep, NeedsConnection, Connected, ConnectionFails, Request, TurnAway, Answered,
                RequestFails, Retry
  <2>4. mind.at = "twin" BY <1>1, <2>3 DEF BudgetKept
  <2> QED BY <1>2, <1>4, <2>1, <2>2, <2>4
<1>7. CASE Begin
  <2>1. UNCHANGED twinVars /\ UNCHANGED clientVars BY <1>7 DEF Begin
  <2>2. ReasonerType' /\ BudgetKept' BY <1>1, <1>7, BeginKeeps
  <2> QED BY <1>3, <1>4, <2>1, <2>2
<1>8. CASE Thinking
  <2>1. UNCHANGED twinVars /\ UNCHANGED clientVars
    BY <1>8 DEF Thinking, ModelReplies, ModelDecides, ReasoningFails
  <2>2. ReasonerType' /\ BudgetKept' BY <1>1, <1>8, ThinkingKeeps
  <2> QED BY <1>3, <1>4, <2>1, <2>2
<1>9. CASE UsingTools
  <2>1. UNCHANGED twinVars
    BY <1>9 DEF UsingTools, AskKnowledgeBase, PassOver, AskTwin, TwinCallReturns, ToolsDone, ToolUnchanged
  <2>2. ReasonerType' /\ BudgetKept' BY <1>1, <1>9, UsingToolsKeeps
  <2>3. ClientTypeOK' /\ BreakerCounts'
    <3>1. CASE AskTwin
      <4>1. mind.at = "tools" /\ BeginCall BY <3>1 DEF AskTwin
      <4>2. call.at = "idle" BY <1>1, <4>1 DEF BudgetKept
      <4> QED BY <1>1, <4>1, <4>2, BeginCallKeeps
    <3>2. CASE TwinCallReturns
      <4>1. UNCHANGED <<stub, breaker, call, streak>> /\ answer' \in {"none", answer}
        BY <3>2 DEF TwinCallReturns
      <4> QED BY <1>1, <4>1, ClientRests
    <3>3. CASE AskKnowledgeBase \/ PassOver \/ ToolsDone
      <4>1. UNCHANGED clientVars BY <3>3 DEF AskKnowledgeBase, PassOver, ToolsDone
      <4> QED BY <1>3, <4>1
    <3> QED BY <1>9, <3>1, <3>2, <3>3 DEF UsingTools
  <2> QED BY <1>4, <2>1, <2>2, <2>3
<1>10. CASE Tick
  <2>1. /\ ClientTick /\ UNCHANGED twinVars /\ UNCHANGED <<mind, decision>>
        /\ last_action' = Min({last_action + 1, CooldownTicks})
    BY <1>10 DEF Tick
  <2>2. ClientTypeOK' /\ BreakerCounts' /\ call'.at = call.at BY <1>1, <2>1, ClientTickKeeps
  <2>3. last_action' \in 0..CooldownTicks
    <3>1. CooldownTicks \in Nat /\ last_action + 1 \in Nat BY <1>1, ReasonerAssumption DEF ReasonerType
    <3> QED BY <2>1, <3>1, MinOf
  <2>4. ReasonerType' /\ BudgetKept' BY <1>1, <2>1, <2>2, <2>3 DEF ReasonerType, BudgetKept, ToolCallsBounded
  <2> QED BY <1>4, <2>1, <2>2, <2>4
<1>11. CASE UNCHANGED vars
  <2>1. UNCHANGED twinVars /\ UNCHANGED clientVars /\ UNCHANGED reasonerVars BY <1>11 DEF vars
  <2> QED BY <1>2, <1>3, <1>4, <2>1
<1> QED BY <1>5, <1>6, <1>7, <1>8, <1>9, <1>10, <1>11 DEF Next

-----------------------------------------------------------------------------
(* The start                                                               *)

LEMMA ReasonerStarts == Init => ReasonerIndInv
<1> SUFFICES ASSUME Init PROVE ReasonerIndInv OBVIOUS
<1>1. TwinInit /\ ClientInit /\ mind = AtRest /\ decision = "none" /\ last_action = CooldownTicks
  BY DEF Init
<1>2. /\ setup \in Setups
      /\ phase = "new" /\ running = FALSE /\ looping = FALSE /\ subscriptions = 0 /\ serving = FALSE
      /\ inbox = [c \in Names |-> <<>>] /\ handler = [c \in Names |-> <<>>]
      /\ message_queue = <<>> /\ batch = <<>> /\ world_model = NoModel
      /\ published = 0 /\ fate = NoFate /\ restarts = 0
  BY <1>1 DEF TwinInit
<1>3. TwinTypeOK
  <2>1. setup.crashes \in Nat /\ setup.traffic \in Seq(MessageType) /\ Len(setup.traffic) \in Nat
    <3>1. setup \in SetupType BY <1>2, TwinAssumption
    <3>2. setup.crashes \in Nat /\ setup.traffic \in Seq(MessageType) BY <3>1 DEF SetupType
    <3> QED BY <3>2
  <2>2. published \in 0..Len(setup.traffic) /\ restarts \in 0..setup.crashes BY <1>2, <2>1
  <2>3. inbox \in [Names -> Seq(1..published)] /\ handler \in [Names -> Seq(AllEvents)] BY <1>2
  <2>4. /\ message_queue \in Seq(AllEvents) /\ Len(message_queue) <= QueueSize
        /\ batch \in Seq(AllEvents) /\ Len(batch) < BatchSize
    BY <1>2, TwinAssumption
  <2>5. fate \in [applied : Seq(AllEvents), failed : SUBSET AllEvents, dead : SUBSET AllEvents,
                  lost : SUBSET AllEvents]
    <3>1. PICK a : a = <<>> OBVIOUS
    <3>2. a \in Seq(AllEvents) BY <3>1
    <3>3. fate = [applied |-> a, failed |-> {}, dead |-> {}, lost |-> {}] BY <1>2, <3>1 DEF NoFate
    <3> QED BY <3>2, <3>3
  <2>6. world_model \in ModelType BY <1>2 DEF NoModel, ModelType
  <2>7. subscriptions \in 0..Len(Channels) BY <1>2, TwinAssumption
  <2>8. phase \in Phases BY <1>2 DEF Phases
  <2> QED BY <1>2, <2>2, <2>3, <2>4, <2>5, <2>6, <2>7, <2>8 DEF TwinTypeOK
<1>4. ToSet(<<>>) = {} /\ Ordered(setup.traffic, <<>>) BY NothingOrdered
<1>5. EventsFlow
  <2>1. \A c \in Names : inbox[c] = <<>> /\ handler[c] = <<>> BY <1>2
  <2>2. Putting = {} BY <1>4, <2>1 DEF Putting
  <2>3. Unread = {}
    <3>1. Unhandled = {} BY <1>4, <2>1 DEF Unhandled
    <3> QED BY <3>1 DEF Unread
  <2>4. Handed = {} /\ fate.applied = <<>> /\ fate.failed = {} /\ fate.dead = {} /\ fate.lost = {}
    BY <1>2, <1>4 DEF Handed, NoFate
  <2>5. Published = {}
    <3>1. 1..published = {} BY <1>2
    <3> QED BY <3>1 DEF Published
  <2>6. Increasing(<<>>) BY DEF Increasing
  <2>7. InStages(setup.traffic, {}, {}, {}, {}, {}, {}, {}, {}) BY OrderedUnion DEF InStages
  <2> QED BY <1>2, <1>4, <2>1, <2>2, <2>3, <2>4, <2>5, <2>6, <2>7 DEF EventsFlow
<1>6. ModelRuns BY <1>2, FS_EmptySet DEF ModelRuns, NoModel
<1>7. /\ stub = FALSE /\ call = Idle /\ answer = "none"
      /\ breaker = [state |-> "closed", failures |-> 0, age |-> RecoveryTicks]
      /\ streak = [failures |-> 0, age |-> RecoveryTicks]
  BY <1>1 DEF ClientInit
<1>8. RecoveryTicks \in Nat /\ FailureThreshold \in Nat \ {0} /\ CooldownTicks \in Nat
  BY ClientAssumption, ReasonerAssumption
<1>9. ClientTypeOK
  <2>1. RecoveryTicks \in 0..RecoveryTicks /\ 0 \in 0..FailureThreshold BY <1>8
  <2>2. call \in CallType BY <1>7, IdleIs
  <2>3. breaker \in BreakerType /\ streak \in StreakType
    BY <1>7, <2>1 DEF BreakerType, StreakType
  <2> QED BY <1>7, <2>2, <2>3 DEF ClientTypeOK, CallType, BreakerType, StreakType
<1>10. BreakerCounts BY <1>7, <1>8, IdleIs DEF BreakerCounts
<1>11. mind \in MindType /\ decision \in Decisions /\ last_action \in 0..CooldownTicks
  BY <1>1, <1>8, AtRestIs DEF Decisions
<1>12. BudgetKept
  <2>1. mind.at = "idle" /\ mind.made = 0 BY <1>1 DEF AtRest
  <2>2. 0 < MaxToolCalls + MaxCallsPerReply BY ReasonerAssumption
  <2> QED BY <1>7, <2>1, <2>2, IdleIs DEF BudgetKept, ToolCallsBounded
<1> QED BY <1>3, <1>5, <1>6, <1>9, <1>10, <1>11, <1>12 DEF ReasonerIndInv, TypeOK

(* However the tasks of the twin, the client and the reasoner interleave:  *)
(* types; every event is at one of its stages; the loop runs and the model *)
(* is loaded only where the agent is; the breaker has counted the requests *)
(* that failed; what is left of a reply fits into the budget.              *)
THEOREM ReasonerIndHolds == Spec => []ReasonerIndInv
<1>1. Init => ReasonerIndInv BY ReasonerStarts
<1>2. ReasonerIndInv /\ [Next]_vars => ReasonerIndInv' BY ReasonerStep
<1> QED BY <1>1, <1>2, PTL DEF Spec

-----------------------------------------------------------------------------
(* What follows: an event is at one place only                             *)

LEMMA OccursOnce ==
    ASSUME NEW tr, NEW S, S \subseteq Pairs, NEW s \in Seq(S), Ordered(tr, s), NEW e
    PROVE  Occurrences(e, s) = IF e \in ToSet(s) THEN 1 ELSE 0
<1> DEFINE I == {i \in DOMAIN s : s[i] = e}
<1>1. CASE e \notin ToSet(s)
  <2>1. I = {} BY <1>1 DEF ToSet
  <2> QED BY <1>1, <2>1, FS_EmptySet DEF Occurrences
<1>2. CASE e \in ToSet(s)
  <2>1. PICK i \in DOMAIN s : s[i] = e BY <1>2 DEF ToSet
  <2>2. DOMAIN s \subseteq Nat /\ e \in Pairs BY <2>1
  <2>3. \A j \in DOMAIN s : s[j] = e => j = i
    <3> SUFFICES ASSUME NEW j \in DOMAIN s, s[j] = e, j # i PROVE FALSE OBVIOUS
    <3>1. i < j \/ j < i BY <2>2
    <3>2. Precedes(tr, e, e) BY <2>1, <3>1 DEF Ordered
    <3> QED BY <2>2, <3>2, Irreflexive
  <2>4. I = {i} BY <2>1, <2>3
  <2> QED BY <1>2, <2>4, FS_Singleton DEF Occurrences
<1> QED BY <1>1, <1>2

(* The stages are disjoint and have every event that is published.         *)
LEMMA OneStage ==
    ASSUME NEW tr, NEW N, NEW H, NEW B, NEW Q, NEW P, NEW U, NEW D, NEW L, NEW e \in N,
           N \subseteq Pairs, InStages(tr, N, H, B, Q, P, U, D, L)
    PROVE  \/ e \in H /\ e \notin B \cup Q \cup P \cup U \cup D \cup L
           \/ e \in B /\ e \notin H \cup Q \cup P \cup U \cup D \cup L
           \/ e \in Q /\ e \notin H \cup B \cup P \cup U \cup D \cup L
           \/ e \in P /\ e \notin H \cup B \cup Q \cup U \cup D \cup L
           \/ e \in U /\ e \notin H \cup B \cup Q \cup P \cup D \cup L
           \/ e \in D /\ e \notin H \cup B \cup Q \cup P \cup U \cup L
           \/ e \in L /\ e \notin H \cup B \cup Q \cup P \cup U \cup D
<1>1. H \subseteq Pairs /\ B \subseteq Pairs /\ Q \subseteq Pairs /\ P \subseteq Pairs BY DEF InStages
<1>2. /\ H \cap B = {} /\ H \cap Q = {} /\ H \cap P = {} /\ H \cap U = {}
      /\ B \cap Q = {} /\ B \cap P = {} /\ B \cap U = {}
      /\ Q \cap P = {} /\ Q \cap U = {} /\ P \cap U = {}
  BY <1>1, OrderedDisjoint DEF InStages
<1> QED BY <1>2 DEF InStages

LEMMA OneAtMost ==
    ASSUME NEW S, NEW x, S \subseteq {x}
    PROVE  Cardinality(S) = IF x \in S THEN 1 ELSE 0
<1>1. CASE x \in S
  <2>1. S = {x} BY <1>1
  <2> QED BY <1>1, <2>1, FS_Singleton
<1>2. CASE x \notin S
  <2>1. S = {} BY <1>2
  <2> QED BY <1>2, <2>1, FS_EmptySet
<1> QED BY <1>1, <1>2

LEMMA PlacesOf ==
    ASSUME TwinTypeOK, EventsFlow, NEW n \in 1..published, NEW e \in ToSet(Events(n))
    PROVE  /\ Occurrences(e, message_queue) = IF e \in ToSet(message_queue) THEN 1 ELSE 0
           /\ Occurrences(e, batch) = IF e \in ToSet(batch) THEN 1 ELSE 0
           /\ Occurrences(e, fate.applied) = IF e \in ToSet(fate.applied) THEN 1 ELSE 0
           /\ Cardinality({c \in Names : e[1] \in ToSet(inbox[c])}) = IF e \in Unread THEN 1 ELSE 0
           /\ Cardinality({c \in Names : e \in ToSet(handler[c])}) = IF e \in Putting THEN 1 ELSE 0
<1>1. AllEvents \subseteq Pairs /\ n \in DOMAIN setup.traffic BY PublishedTyped
<1>2. e \in Pairs /\ e[1] = n BY <1>1, EventsOf
<1>3. Occurrences(e, message_queue) = IF e \in ToSet(message_queue) THEN 1 ELSE 0
  <2>1. message_queue \in Seq(AllEvents) BY DEF TwinTypeOK
  <2>2. Ordered(setup.traffic, message_queue) BY DEF EventsFlow
  <2> QED BY <1>1, <2>1, <2>2, OccursOnce
<1>4. Occurrences(e, batch) = IF e \in ToSet(batch) THEN 1 ELSE 0
  <2>1. batch \in Seq(AllEvents) BY DEF TwinTypeOK
  <2>2. Ordered(setup.traffic, batch) BY DEF EventsFlow
  <2> QED BY <1>1, <2>1, <2>2, OccursOnce
<1>5. Occurrences(e, fate.applied) = IF e \in ToSet(fate.applied) THEN 1 ELSE 0
  <2>1. fate.applied \in Seq(AllEvents) BY DEF TwinTypeOK
  <2>2. Ordered(setup.traffic, fate.applied) BY DEF EventsFlow
  <2> QED BY <1>1, <2>1, <2>2, OccursOnce
<1>6. Cardinality({c \in Names : e \in ToSet(handler[c])}) = IF e \in Putting THEN 1 ELSE 0
  <2> DEFINE S == {c \in Names : e \in ToSet(handler[c])}
             x == Channel(setup.traffic, e)
  <2>1. S \subseteq {x} BY DEF EventsFlow
  <2>2. e \in Putting <=> \E c \in Names : e \in ToSet(handler[c]) BY DEF Putting
  <2>3. e \in Putting <=> x \in S BY <2>1, <2>2
  <2> HIDE DEF S, x
  <2>4. Cardinality(S) = IF x \in S THEN 1 ELSE 0 BY <2>1, OneAtMost
  <2> QED BY <2>3, <2>4 DEF S
<1>7. Cardinality({c \in Names : e[1] \in ToSet(inbox[c])}) = IF e \in Unread THEN 1 ELSE 0
  <2> DEFINE S == {c \in Names : e[1] \in ToSet(inbox[c])}
             x == setup.traffic[n].channel
  <2>1. S \subseteq {x} BY <1>2 DEF EventsFlow
  <2>2. e \in Unread <=> n \in Unhandled
    <3>1. ASSUME n \in Unhandled PROVE e \in Unread BY <3>1 DEF Unread
    <3>2. ASSUME e \in Unread PROVE n \in Unhandled
      <4>1. PICK m \in Unhandled : e \in ToSet(Events(m)) BY <3>2 DEF Unread
      <4>2. m \in 1..published
        <5>1. \A c \in Names : inbox[c] \in Seq(1..published) BY DEF TwinTypeOK
        <5> QED BY <5>1, Elements DEF Unhandled
      <4>3. m \in DOMAIN setup.traffic BY <4>2, PublishedTyped
      <4>4. e[1] = m BY <4>1, <4>3, EventsOf
      <4> QED BY <1>2, <4>4
    <3> QED BY <3>1, <3>2
  <2>3. n \in Unhandled <=> \E c \in Names : n \in ToSet(inbox[c]) BY DEF Unhandled
  <2>4. e \in Unread <=> x \in S BY <1>2, <2>1, <2>2, <2>3
  <2> HIDE DEF S, x
  <2>5. Cardinality(S) = IF x \in S THEN 1 ELSE 0 BY <2>1, OneAtMost
  <2> QED BY <2>4, <2>5 DEF S
<1> QED BY <1>3, <1>4, <1>5, <1>6, <1>7

LEMMA OutOfTheQueue ==
    ASSUME NEW e, NEW f, e \notin f["failed"] \/ e \notin f["dead"], e \notin f["failed"] \/ e \notin f["lost"],
           e \notin f["dead"] \/ e \notin f["lost"]
    PROVE  Cardinality({s \in {"failed", "dead", "lost"} : e \in f[s]})
               = IF e \in f["failed"] \/ e \in f["dead"] \/ e \in f["lost"] THEN 1 ELSE 0
<1> DEFINE S == {s \in {"failed", "dead", "lost"} : e \in f[s]}
<1>1. CASE e \in f["failed"]
  <2>1. S = {"failed"} BY <1>1
  <2> QED BY <1>1, <2>1, FS_Singleton
<1>2. CASE e \in f["dead"]
  <2>1. S = {"dead"} BY <1>2
  <2> QED BY <1>2, <2>1, FS_Singleton
<1>3. CASE e \in f["lost"]
  <2>1. S = {"lost"} BY <1>3
  <2> QED BY <1>3, <2>1, FS_Singleton
<1>4. CASE e \notin f["failed"] /\ e \notin f["dead"] /\ e \notin f["lost"]
  <2>1. S = {} BY <1>4
  <2> QED BY <1>4, <2>1, FS_EmptySet
<1> QED BY <1>1, <1>2, <1>3, <1>4

LEMMA ReasonerIndImpliesOnce ==
    ASSUME TwinTypeOK, EventsFlow
    PROVE  EachEventOnce
<1> SUFFICES ASSUME NEW n \in 1..published, NEW e \in ToSet(Events(n)) PROVE Places(e) = 1
  BY DEF EachEventOnce
<1>1. e \in Published /\ Published \subseteq Pairs
  <2>1. e \in Published BY DEF Published
  <2> QED BY <2>1, PublishedTyped
<1> DEFINE H == Handed
           B == ToSet(batch)
           Q == ToSet(message_queue)
           A == ToSet(fate.applied)
<1>2. \/ e \in H /\ e \notin B \cup Q \cup Putting \cup Unread \cup fate.dead \cup fate.lost
      \/ e \in B /\ e \notin H \cup Q \cup Putting \cup Unread \cup fate.dead \cup fate.lost
      \/ e \in Q /\ e \notin H \cup B \cup Putting \cup Unread \cup fate.dead \cup fate.lost
      \/ e \in Putting /\ e \notin H \cup B \cup Q \cup Unread \cup fate.dead \cup fate.lost
      \/ e \in Unread /\ e \notin H \cup B \cup Q \cup Putting \cup fate.dead \cup fate.lost
      \/ e \in fate.dead /\ e \notin H \cup B \cup Q \cup Putting \cup Unread \cup fate.lost
      \/ e \in fate.lost /\ e \notin H \cup B \cup Q \cup Putting \cup Unread \cup fate.dead
  <2>1. InStages(setup.traffic, Published, H, B, Q, Putting, Unread, fate.dead, fate.lost)
    BY DEF EventsFlow
  <2> HIDE DEF H, B, Q
  <2> QED BY <1>1, <2>1, OneStage
<1>3. /\ e \in H <=> e \in A \/ e \in fate.failed
      /\ ~(e \in A /\ e \in fate.failed)
  BY DEF Handed, EventsFlow
<1>4. Cardinality({s \in {"failed", "dead", "lost"} : e \in fate[s]})
        = IF e \in fate.failed \/ e \in fate.dead \/ e \in fate.lost THEN 1 ELSE 0
  BY <1>2, <1>3, OutOfTheQueue
<1>5. /\ Occurrences(e, message_queue) = IF e \in Q THEN 1 ELSE 0
      /\ Occurrences(e, batch) = IF e \in B THEN 1 ELSE 0
      /\ Occurrences(e, fate.applied) = IF e \in A THEN 1 ELSE 0
      /\ Cardinality({c \in Names : e[1] \in ToSet(inbox[c])}) = IF e \in Unread THEN 1 ELSE 0
      /\ Cardinality({c \in Names : e \in ToSet(handler[c])}) = IF e \in Putting THEN 1 ELSE 0
  BY PlacesOf
<1> HIDE DEF H, B, Q, A
<1> QED BY <1>2, <1>3, <1>4, <1>5 DEF Places

-----------------------------------------------------------------------------
(* The theorems                                                            *)

LEMMA InOrderApplied == ASSUME EventsFlow PROVE AppliedInOrder
BY DEF EventsFlow, Ordered, Precedes, Before, Channel, AppliedInOrder

(* In every reachable state of the twin, its client and its reasoner each  *)
(* event that was published is at one place: in a subscription, a handler, *)
(* the queue or the batch, once in the model, refused, a dead letter or    *)
(* lost. The model has got the events of a subscription in the order of    *)
(* their publication. A model that no request is reloading runs, with      *)
(* tasks that shutdown can cancel. And a reasoning has made less than a    *)
(* reply's worth of tool calls beyond max_tool_calls.                      *)
THEOREM ReasonerHolds == Spec => []ReasonerInv
<1>1. ReasonerIndInv => ReasonerInv
  <2> SUFFICES ASSUME ReasonerIndInv PROVE ReasonerInv OBVIOUS
  <2>1. TypeOK /\ TwinTypeOK /\ EventsFlow /\ ModelRuns /\ BudgetKept BY DEF ReasonerIndInv, TypeOK
  <2>2. EachEventOnce BY <2>1, ReasonerIndImpliesOnce
  <2>3. AppliedInOrder BY <2>1, InOrderApplied
  <2>4. ReloadLeavesItRunning BY <2>1 DEF ModelRuns, ReloadLeavesItRunning
  <2>5. ToolCallsBounded BY <2>1 DEF BudgetKept
  <2> QED BY <2>1, <2>2, <2>3, <2>4, <2>5 DEF ReasonerInv
<1> QED BY <1>1, ReasonerIndHolds, PTL

LEMMA OnlyARequestGoesOut ==
    ASSUME call.at # "request", call'.at = "request", [Next]_vars, ReasonerIndInv
    PROVE  Request
<1>1. call \in CallType /\ ClientTypeOK BY DEF ReasonerIndInv, TypeOK, ClientTypeOK, CallType
<1>2. ASSUME UNCHANGED clientVars PROVE FALSE BY <1>2 DEF clientVars
<1>3. CASE Twin \/ Begin \/ Thinking \/ UNCHANGED vars
  BY <1>2, <1>3 DEF Twin, Begin, Thinking, ModelReplies, ModelDecides, ReasoningFails, vars
<1>4. CASE Client
  <2>1. ASSUME NEW u \in BOOLEAN, AttemptFails(u) PROVE FALSE BY <1>1, <2>1, AttemptFailsIs
  <2>2. ~TurnAway BY <2>1 DEF TurnAway
  <2>3. ~RequestFails BY <2>1 DEF RequestFails
  <2>4. ~ConnectionFails BY <2>1, IdleIs DEF ConnectionFails
  <2>5. ~Answered BY IdleIs DEF Answered
  <2>6. ~NeedsConnection
    <3>1. ASSUME NeedsConnection PROVE FALSE
      <4>1. call' = [call EXCEPT !.at = "connect"] BY <3>1 DEF NeedsConnection
      <4>2. call'.at = "connect" BY <1>1, <4>1, MovesTo
      <4> QED BY <4>2
    <3> QED BY <3>1
  <2>7. ~Connected
    <3>1. ASSUME Connected PROVE FALSE
      <4>1. call' = [call EXCEPT !.at = "attempt"] BY <3>1 DEF Connected
      <4>2. call'.at = "attempt" BY <1>1, <4>1, MovesTo
      <4> QED BY <4>2
    <3> QED BY <3>1
  <2>8. ~Retry
    <3>1. ASSUME Retry PROVE FALSE
      <4>1. PICK n : n = call.attempt + 1 OBVIOUS
      <4>2. call' = [call EXCEPT !.at = "attempt", !.attempt = n] BY <3>1, <4>1 DEF Retry
      <4>3. call'.at = "attempt" BY <1>1, <4>2 DEF CallType
      <4> QED BY <4>3
    <3> QED BY <3>1
  <2> QED BY <1>4, <2>2, <2>3, <2>4, <2>5, <2>6, <2>7, <2>8 DEF Client, ClientStep
<1>5. CASE UsingTools
  <2>1. ASSUME AskTwin PROVE FALSE
    <3>1. PICK at : at = IF stub THEN "attempt" ELSE "tool_connect" OBVIOUS
    <3>2. call' = [Idle EXCEPT !.at = at] BY <2>1, <3>1 DEF AskTwin, BeginCall
    <3>3. call'.at = at BY <3>1, <3>2, IdleIs, MovesTo
    <3> QED BY <3>1, <3>3
  <2>2. ~TwinCallReturns BY DEF TwinCallReturns
  <2> QED BY <1>2, <1>5, <2>1, <2>2 DEF UsingTools, AskKnowledgeBase, PassOver, ToolsDone
<1>6. CASE Tick
  <2>1. call' = [call EXCEPT !.sleep = IF @ = 0 THEN 0 ELSE @ - 1] BY <1>6 DEF Tick, ClientTick
  <2>2. call'.at = call.at
    <3>1. PICK s : s = IF call.sleep = 0 THEN 0 ELSE call.sleep - 1 OBVIOUS
    <3>2. call' = [call EXCEPT !.sleep = s] BY <2>1, <3>1
    <3> QED BY <1>1, <3>2 DEF CallType
  <2> QED BY <2>2
<1> QED BY <1>3, <1>4, <1>5, <1>6 DEF Next

(* When failure_threshold requests have failed in a row, the breaker lets  *)
(* no further one to the twin before recovery_timeout has passed since the *)
(* last of them, through all retries, calls, reasonings, and crashes of    *)
(* the twin.                                                               *)
THEOREM TwinIsSpared == Spec => FailingTwinIsSpared
<1>1. ASSUME ReasonerIndInv, [Next]_vars, call.at # "request", call'.at = "request",
             streak.failures >= FailureThreshold
      PROVE  streak.age >= RecoveryTicks
  <2>1. Admits BY <1>1, OnlyARequestGoesOut DEF Request
  <2>2. BreakerCounts /\ streak.failures \in 0..FailureThreshold
    BY <1>1 DEF ReasonerIndInv, TypeOK, ClientTypeOK
  <2>3. streak.failures = FailureThreshold BY <1>1, <2>2, ClientAssumption
  <2>4. breaker.state = "open" /\ breaker.age = streak.age BY <1>1, <2>2, <2>3 DEF BreakerCounts
  <2> QED BY <2>1, <2>4 DEF Admits, ShouldAttemptReset
<1>2. ReasonerIndInv /\ [Next]_vars =>
          [(call.at # "request" /\ call'.at = "request" /\ streak.failures >= FailureThreshold)
              => streak.age >= RecoveryTicks]_<<twinVars, clientVars>>
  BY <1>1
<1> QED BY <1>2, ReasonerIndHolds, PTL DEF Spec, FailingTwinIsSpared
=============================================================================
