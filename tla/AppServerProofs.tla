--------------------------- MODULE AppServerProofs ---------------------------
(***************************************************************************)
(* For every trace, with or without bursts, every number of threads, every *)
(* timeout and every draw of service times: a server neither loses nor     *)
(* doubles a job, shares its processor fairly, leaves no thread idle       *)
(* beside a queue, starts jobs in order and is never overbooked while      *)
(* requests come one by one, implements ServerLoad; and the window of the  *)
(* probe, of whatever length, says how long the server was busy.           *)
(***************************************************************************)
EXTENDS SimProbe, FiniteSetTheorems, SequenceTheorems, WellFoundedInduction, TLAPS

-----------------------------------------------------------------------------
(* The inductive invariant                                                 *)

Pipeline == {"source", "arrivalMonitor", "loadBalancer", "queue"}
Events ==
    {newJobTimer, endExecutionMsg, completeRemoveMsg} \cup
    [to : {"arrivalMonitor", "loadBalancer", "queue", "server"}, job : Jobs]

Running == DOMAIN running
Free == maxThreads - Cardinality(Running)
Distinct(s) == \A i, j \in DOMAIN s : s[i] = s[j] => i = j

ServerTypes ==
    /\ maxThreads \in Threads /\ timeout \in Timeouts /\ bursts \in Traces
    /\ fes \in Seq(Events) /\ next \in 1..(NumJobs + 1) /\ queue \in Seq(Jobs)
    /\ Running \subseteq Jobs /\ running \in [Running -> Nat]
    /\ endIn \in Nat \cup {-1} /\ elapsed \in Nat
    /\ queueing \in [Jobs -> 0..timeout] /\ owed \in [Jobs -> Nat]
    /\ left \subseteq Jobs /\ elsewhere \subseteq Jobs
    /\ connected \in BOOLEAN /\ deleted \in BOOLEAN /\ crashed \in BOOLEAN

(* The events of an instant: none is there twice, no two are about a job.  *)
(* Jobs end before anything reaches the server; a removal completes when   *)
(* nothing is left that could reach it. What comes to the queue is fresh.  *)
MessagesInv ==
    /\ Distinct(fes)
    /\ \A e, f \in ToSet(fes) : e.job = f.job /\ e.job # 0 => e = f
    /\ newJobTimer \in ToSet(fes) => next <= NumJobs
    /\ endExecutionMsg \in ToSet(fes) =>
          /\ endIn = -1 /\ Running # {}
          /\ \A e \in ToSet(fes) : e.to \in {"source", "self", "arrivalMonitor"}
          /\ \/ fes[1] = endExecutionMsg
             \/ fes[1] = newJobTimer /\ Len(fes) >= 2 /\ fes[2] = endExecutionMsg
    /\ completeRemoveMsg \in ToSet(fes) =>
          /\ ~connected /\ Running = {} /\ queue = <<>>
          /\ \A e \in ToSet(fes) :
                e.to \in {"source", "arrivalMonitor", "loadBalancer", "executionManager"}
    /\ \A e \in ToSet(fes) : e.to = "queue" => connected
    /\ \A e \in ToSet(fes) : e.to \in Pipeline \ {"source"} => queueing[e.job] = 0
    /\ \A j \in Jobs : j >= next => queueing[j] = 0

(* Each request that was issued is in exactly one place.                   *)
Apart(Q, R, L, E, T) ==
    /\ Q \cap R = {} /\ Q \cap L = {} /\ Q \cap E = {} /\ Q \cap T = {}
    /\ R \cap L = {} /\ R \cap E = {} /\ R \cap T = {}
    /\ L \cap E = {} /\ L \cap T = {} /\ E \cap T = {}
JobsInv ==
    /\ Distinct(queue)
    /\ Apart(ToSet(queue), Running, left, elsewhere, InTransit)
    /\ 1..(next - 1) = ToSet(queue) \cup Running \cup left \cup elsewhere \cup InTransit

(* A thread is free beside a queue only while a job is under way to it;    *)
(* jobs that run have an end that is scheduled or due.                     *)
ThreadsInv ==
    /\ Free >= 0
    /\ queue # <<>> /\ Free > 0 /\ ~crashed => Requested # {}
    /\ Running = {} => endIn = -1
    /\ Running # {} /\ endIn = -1 => endExecutionMsg \in ToSet(fes)

(* Time is charged in whole shares, and nobody owes what did not run.      *)
SharingInv ==
    /\ Running # {} => \E k \in Nat : elapsed = k * Cardinality(Running)
    /\ \A j \in Running : owed[j] = updateJobTimes[j]
    /\ \A j \in Jobs \ Running : owed[j] = 0
    /\ endIn # -1 =>
          /\ endIn = Min({owed[j] : j \in Running}) * Cardinality(Running)
          /\ \A j \in Running : owed[j] > 0

(* Requests one by one: what is under way, and how many threads are still  *)
(* free when a request that is about to reach the queue meets a job that   *)
(* is under way to the server.                                             *)
OrderInv ==
    OneByOne =>
      /\ ~crashed
      /\ Len(fes) <= IF Ties THEN 2 ELSE 1
      /\ \A e, f \in ToSet(fes) : e.to \in Pipeline /\ f.to \in Pipeline => e = f
      /\ \A e, f \in ToSet(fes) : e.to = "server" /\ f.to = "server" => e = f
      /\ \A e \in ToSet(fes) : e.to = "server" => Free > 0
      /\ Len(fes) = 2 =>
            /\ fes[1].to = "loadBalancer" /\ fes[2].to = "server" => Free <= 1
            /\ fes[1].to = "server" /\ fes[2].to = "queue" => Free <= 1
            /\ ~(fes[1].to = "queue" /\ fes[2].to = "server")
      /\ \A i, j \in DOMAIN queue : i < j => queue[i] < queue[j]
      /\ \A e \in ToSet(fes) : e.to = "server" => \A q \in ToSet(queue) : e.job < q
      /\ \A e \in ToSet(fes) : e.to \in Pipeline \ {"source"} => e.job = next - 1

ServerIndInv ==
    ServerTypes /\ MessagesInv /\ JobsInv /\ ThreadsInv /\ SharingInv /\ OrderInv

-----------------------------------------------------------------------------
(* Sequences without repetition, least elements, shares                    *)

LEMMA Elements == ASSUME NEW S, NEW s \in Seq(S) PROVE ToSet(s) \subseteq S
BY DEF ToSet

LEMMA Few ==
    ASSUME NEW S, NEW a \in S, NEW b \in S, a # b
    PROVE  /\ <<>> \in Seq(S) /\ Distinct(<<>>) /\ ToSet(<<>>) = {}
           /\ <<a>> \in Seq(S) /\ Distinct(<<a>>) /\ ToSet(<<a>>) = {a}
           /\ <<a, b>> \in Seq(S) /\ Distinct(<<a, b>>) /\ ToSet(<<a, b>>) = {a, b}
<1>1. DOMAIN <<>> = {} /\ DOMAIN <<a>> = {1} /\ DOMAIN <<a, b>> = {1, 2} OBVIOUS
<1>2. <<a>>[1] = a /\ <<a, b>>[1] = a /\ <<a, b>>[2] = b OBVIOUS
<1>3. Distinct(<<a, b>>) BY <1>1, <1>2 DEF Distinct
<1>4. Distinct(<<>>) /\ Distinct(<<a>>) BY <1>1 DEF Distinct
<1>5. ToSet(<<>>) = {} /\ ToSet(<<a>>) = {a} /\ ToSet(<<a, b>>) = {a, b}
  BY <1>1, <1>2 DEF ToSet
<1>6. <<>> \in Seq(S) /\ <<a>> \in Seq(S) /\ <<a, b>> \in Seq(S) OBVIOUS
<1> QED BY <1>3, <1>4, <1>5, <1>6

LEMMA Single ==
    ASSUME NEW S, NEW a \in S
    PROVE  <<a>> \in Seq(S) /\ Distinct(<<a>>) /\ ToSet(<<a>>) = {a}
<1>1. DOMAIN <<a>> = {1} /\ <<a>>[1] = a /\ <<a>> \in Seq(S) OBVIOUS
<1> QED BY <1>1 DEF Distinct, ToSet

LEMMA HeadAndTail ==
    ASSUME NEW S, NEW s \in Seq(S), s # <<>>, Distinct(s)
    PROVE  /\ Head(s) \in S /\ Head(s) = s[1] /\ Head(s) \in ToSet(s) /\ Len(s) \in Nat \ {0}
           /\ Tail(s) \in Seq(S) /\ Distinct(Tail(s)) /\ Len(Tail(s)) = Len(s) - 1
           /\ \A i \in 1..(Len(s) - 1) : Tail(s)[i] = s[i + 1]
           /\ ToSet(Tail(s)) = ToSet(s) \ {Head(s)}
<1>1. Len(s) \in Nat \ {0} /\ DOMAIN s = 1..Len(s) OBVIOUS
<1>2. Tail(s) \in Seq(S) /\ Len(Tail(s)) = Len(s) - 1 BY <1>1
<1>3. \A i \in 1..(Len(s) - 1) : Tail(s)[i] = s[i + 1] BY <1>1
<1>4. Head(s) = s[1] /\ s[1] \in S BY <1>1
<1>5. DOMAIN Tail(s) = 1..(Len(s) - 1) BY <1>2
<1>6. Distinct(Tail(s))
  <2>1. SUFFICES ASSUME NEW i \in 1..(Len(s) - 1), NEW j \in 1..(Len(s) - 1), Tail(s)[i] = Tail(s)[j]
                 PROVE  i = j
    BY <1>5 DEF Distinct
  <2>2. i + 1 \in DOMAIN s /\ j + 1 \in DOMAIN s /\ s[i + 1] = s[j + 1] BY <1>1, <1>3, <2>1
  <2>3. i + 1 = j + 1 BY <2>2 DEF Distinct
  <2> QED BY <2>3
<1>7. ToSet(Tail(s)) \subseteq ToSet(s) \ {Head(s)}
  <2>1. ASSUME NEW i \in 1..(Len(s) - 1) PROVE Tail(s)[i] \in ToSet(s) \ {Head(s)}
    <3>1. i + 1 \in DOMAIN s /\ 1 \in DOMAIN s /\ i + 1 # 1 BY <1>1
    <3>2. s[i + 1] # s[1] BY <3>1 DEF Distinct
    <3> QED BY <1>3, <1>4, <3>1, <3>2 DEF ToSet
  <2> QED BY <1>5, <2>1 DEF ToSet
<1>8. ToSet(s) \ {Head(s)} \subseteq ToSet(Tail(s))
  <2>1. ASSUME NEW i \in 1..Len(s), s[i] # Head(s) PROVE s[i] \in ToSet(Tail(s))
    <3>1. i # 1 /\ i - 1 \in 1..(Len(s) - 1) BY <1>1, <1>4, <2>1
    <3>2. Tail(s)[i - 1] = s[i]
      <4>1. (i - 1) + 1 = i OBVIOUS
      <4> QED BY <1>3, <3>1, <4>1
    <3> QED BY <1>5, <3>1, <3>2 DEF ToSet
  <2> QED BY <1>1, <2>1 DEF ToSet
<1>9. Head(s) \in ToSet(s) BY <1>1, <1>4 DEF ToSet
<1> QED BY <1>1, <1>2, <1>3, <1>4, <1>6, <1>7, <1>8, <1>9

LEMMA Joined ==
    ASSUME NEW S, NEW s \in Seq(S), Distinct(s), NEW x \in Seq(S), Distinct(x),
           ToSet(s) \cap ToSet(x) = {}
    PROVE  /\ s \o x \in Seq(S) /\ Distinct(s \o x) /\ ToSet(s \o x) = ToSet(s) \cup ToSet(x)
           /\ Len(s \o x) = Len(s) + Len(x)
           /\ \A i \in 1..Len(s) : (s \o x)[i] = s[i]
           /\ \A i \in 1..Len(x) : (s \o x)[Len(s) + i] = x[i]
<1>1. /\ s \o x \in Seq(S) /\ Len(s \o x) = Len(s) + Len(x) /\ Len(s) \in Nat /\ Len(x) \in Nat
      /\ DOMAIN (s \o x) = 1..(Len(s) + Len(x)) /\ DOMAIN s = 1..Len(s) /\ DOMAIN x = 1..Len(x)
  OBVIOUS
<1>2. \A i \in 1..Len(s) : (s \o x)[i] = s[i] OBVIOUS
<1>3. \A i \in 1..Len(x) : (s \o x)[Len(s) + i] = x[i] OBVIOUS
<1>4. ASSUME NEW i \in 1..(Len(s) + Len(x))
      PROVE  \/ i \in 1..Len(s) /\ (s \o x)[i] = s[i] /\ s[i] \in ToSet(s)
             \/ i - Len(s) \in 1..Len(x) /\ (s \o x)[i] = x[i - Len(s)] /\ x[i - Len(s)] \in ToSet(x)
  <2>1. CASE i <= Len(s)
    <3>1. i \in 1..Len(s) BY <1>1, <2>1
    <3> QED BY <1>1, <1>2, <3>1 DEF ToSet
  <2>2. CASE ~(i <= Len(s))
    <3>1. i - Len(s) \in 1..Len(x) /\ Len(s) + (i - Len(s)) = i BY <1>1, <2>2
    <3>2. (s \o x)[i] = x[i - Len(s)] BY <1>3, <3>1
    <3> QED BY <1>1, <3>1, <3>2 DEF ToSet
  <2> QED BY <2>1, <2>2
<1>5. Distinct(s \o x)
  <2>1. SUFFICES ASSUME NEW i \in 1..(Len(s) + Len(x)), NEW j \in 1..(Len(s) + Len(x)),
                        (s \o x)[i] = (s \o x)[j]
                 PROVE  i = j
    BY <1>1 DEF Distinct
  <2>2. CASE i \in 1..Len(s) /\ j \in 1..Len(s)
    <3>1. s[i] = s[j] BY <1>2, <2>1, <2>2
    <3> QED BY <1>1, <2>2, <3>1 DEF Distinct
  <2>3. CASE i - Len(s) \in 1..Len(x) /\ j - Len(s) \in 1..Len(x)
    <3>1. ~(i \in 1..Len(s)) /\ ~(j \in 1..Len(s)) BY <1>1, <2>3
    <3>2. x[i - Len(s)] = x[j - Len(s)] BY <1>4, <2>1, <3>1
    <3>3. i - Len(s) = j - Len(s) BY <1>1, <2>3, <3>2 DEF Distinct
    <3> QED BY <1>1, <3>3
  <2> QED BY <1>4, <2>1, <2>2, <2>3
<1>6. ToSet(s \o x) \subseteq ToSet(s) \cup ToSet(x) BY <1>1, <1>4 DEF ToSet
<1>7. ToSet(s) \subseteq ToSet(s \o x)
  <2>1. \A i \in 1..Len(s) : i \in 1..(Len(s) + Len(x)) BY <1>1
  <2> QED BY <1>1, <1>2, <2>1 DEF ToSet
<1>8. ToSet(x) \subseteq ToSet(s \o x)
  <2>1. \A i \in 1..Len(x) : Len(s) + i \in 1..(Len(s) + Len(x)) BY <1>1
  <2> QED BY <1>1, <1>3, <2>1 DEF ToSet
<1> QED BY <1>1, <1>2, <1>3, <1>5, <1>6, <1>7, <1>8

(* The first of s is handled, and x comes of it.                           *)
LEMMA Replaced ==
    ASSUME NEW S, NEW s \in Seq(S), s # <<>>, Distinct(s), NEW x \in Seq(S), Distinct(x),
           (ToSet(s) \ {Head(s)}) \cap ToSet(x) = {}
    PROVE  /\ Tail(s) \o x \in Seq(S) /\ Distinct(Tail(s) \o x)
           /\ ToSet(Tail(s) \o x) = (ToSet(s) \ {Head(s)}) \cup ToSet(x)
           /\ Len(Tail(s) \o x) = Len(s) - 1 + Len(x)
           /\ \A i \in 1..(Len(s) - 1) : (Tail(s) \o x)[i] = s[i + 1]
           /\ \A i \in 1..Len(x) : (Tail(s) \o x)[Len(s) - 1 + i] = x[i]
<1>1. /\ Tail(s) \in Seq(S) /\ Distinct(Tail(s)) /\ Len(Tail(s)) = Len(s) - 1
      /\ \A i \in 1..(Len(s) - 1) : Tail(s)[i] = s[i + 1]
      /\ ToSet(Tail(s)) = ToSet(s) \ {Head(s)}
  BY HeadAndTail
<1> DEFINE t == Tail(s)
<1>2. t \in Seq(S) /\ Distinct(t) /\ ToSet(t) \cap ToSet(x) = {} BY <1>1
<1> HIDE DEF t
<1>3. /\ t \o x \in Seq(S) /\ Distinct(t \o x) /\ ToSet(t \o x) = ToSet(t) \cup ToSet(x)
      /\ Len(t \o x) = Len(t) + Len(x)
      /\ \A i \in 1..Len(t) : (t \o x)[i] = t[i]
      /\ \A i \in 1..Len(x) : (t \o x)[Len(t) + i] = x[i]
  BY <1>2, Joined
<1> QED BY <1>1, <1>3 DEF t

LEMMA LeastNumber ==
    ASSUME NEW T, T \subseteq Nat, T # {}
    PROVE  Min(T) \in T /\ \A y \in T : Min(T) <= y
<1>1. IsWellFoundedOn({ss \in Nat \X Nat : ss[1] < ss[2]}, Nat)
  BY NatLessThanWellFounded DEF OpToRel
<1>2. PICK x \in T : \A y \in T : ~(<<y, x>> \in {ss \in Nat \X Nat : ss[1] < ss[2]})
  BY <1>1, WFMin
<1>3. \A y \in T : ~(y < x) BY <1>2
<1>4. \A y \in T : x <= y BY <1>3
<1> QED BY <1>4 DEF Min

LEMMA Upwards ==
    ASSUME NEW S, 0 \in S, \A n \in Nat : n \in S => n + 1 \in S
    PROVE  Nat \subseteq S
<1> SUFFICES ASSUME Nat \ S # {} PROVE FALSE OBVIOUS
<1>1. PICK x \in Nat \ S : \A y \in Nat \ S : x <= y
  <2>1. Nat \ S \subseteq Nat OBVIOUS
  <2> QED BY <2>1, LeastNumber
<1>2. x # 0 /\ x - 1 \in Nat BY <1>1
<1>3. x - 1 \in S BY <1>1, <1>2
<1> QED BY <1>1, <1>2, <1>3

LEMMA WholeShares ==
    ASSUME NEW n \in Nat \ {0}, NEW k \in Int
    PROVE  (k * n) \div n = k
<1>1. ASSUME NEW b \in Nat \ {0}, NEW r \in 0..(b - 1), NEW a \in Int, a = b * k + r
      PROVE  a \div b = k
  BY <1>1, SMT
<1>2. 0 \in 0..(n - 1) /\ k * n \in Int /\ k * n = n * k + 0 BY SMT
<1> QED BY <1>1, <1>2

-----------------------------------------------------------------------------
(* Messages                                                                *)

LEMMA Modules ==
    /\ newJobTimer \in Events /\ endExecutionMsg \in Events /\ completeRemoveMsg \in Events
    /\ newJobTimer.to = "source" /\ endExecutionMsg.to = "self"
    /\ completeRemoveMsg.to = "executionManager"
    /\ newJobTimer.job = 0 /\ endExecutionMsg.job = 0 /\ completeRemoveMsg.job = 0
    /\ \A m \in {"arrivalMonitor", "loadBalancer", "queue", "server"}, j \in Jobs :
          /\ ToJob(m, j) \in Events /\ ToJob(m, j).to = m /\ ToJob(m, j).job = j
    /\ \A e \in Events :
          /\ e.to = "source" => e = newJobTimer
          /\ e.to = "self" => e = endExecutionMsg
          /\ e.to = "executionManager" => e = completeRemoveMsg
          /\ e.to \in {"arrivalMonitor", "loadBalancer", "queue", "server"} => e = ToJob(e.to, e.job) /\ e.job \in Jobs
          /\ e.job # 0 => e.to \in {"arrivalMonitor", "loadBalancer", "queue", "server"}
          /\ e.to \in {"source", "self", "executionManager", "arrivalMonitor", "loadBalancer", "queue", "server"}
BY DEF Events, newJobTimer, endExecutionMsg, completeRemoveMsg, ToJob

LEMMA JobsArePositive == /\ \A j \in Jobs : j \in Nat \ {0} /\ j <= NumJobs
                         /\ NumJobs \in Nat
BY AppServerAssumption DEF Jobs

LEMMA OfMessages ==
    ASSUME NEW f
    PROVE  /\ {f[i].job : i \in DOMAIN f} = {e.job : e \in ToSet(f)}
           /\ {f[i].job : i \in {k \in DOMAIN f : f[k].to = "server"}}
                 = {e.job : e \in {d \in ToSet(f) : d.to = "server"}}
BY DEF ToSet

LEMMA Literals ==
    ASSUME NEW a, NEW b
    PROVE  /\ <<a>> \o <<b>> = <<a, b>> /\ <<a>> # <<>> /\ Len(<<a>>) = 1 /\ <<a>>[1] = a
           /\ <<>> \o <<b>> = <<b>>
<1> DEFINE s == <<a>> \o <<b>>
<1>1. s \in Seq({a, b}) /\ Len(s) = 2 /\ s[1] = a /\ s[2] = b OBVIOUS
<1>2. <<a, b>> \in Seq({a, b}) /\ Len(<<a, b>>) = 2 /\ <<a, b>>[1] = a /\ <<a, b>>[2] = b OBVIOUS
<1> HIDE DEF s
<1>3. \A i \in 1..2 : i = 1 \/ i = 2 OBVIOUS
<1>4. s = <<a, b>> BY <1>1, <1>2, <1>3, SeqEqual
<1>5. <<>> \o <<b>> = <<b>> OBVIOUS
<1>6. <<a>> # <<>> /\ Len(<<a>>) = 1 /\ <<a>>[1] = a OBVIOUS
<1> QED BY <1>4, <1>5, <1>6 DEF s

(* The first message is handled, and those of x are sent.                  *)
LEMMA Handled ==
    ASSUME ServerTypes, MessagesInv, NEW m, Take(m), NEW x \in Seq(Events), Distinct(x),
           (ToSet(fes) \ {Head(fes)}) \cap ToSet(x) = {}, fes' = Tail(fes) \o x
    PROVE  /\ fes' \in Seq(Events) /\ Distinct(fes')
           /\ ToSet(fes') = (ToSet(fes) \ {Head(fes)}) \cup ToSet(x)
           /\ Len(fes') = Len(fes) - 1 + Len(x)
           /\ \A i \in 1..(Len(fes) - 1) : fes'[i] = fes[i + 1]
           /\ \A i \in 1..Len(x) : fes'[Len(fes) - 1 + i] = x[i]
<1>1. fes \in Seq(Events) /\ fes # <<>> /\ Distinct(fes) BY DEF ServerTypes, MessagesInv, Take
<1> QED BY <1>1, Replaced

LEMMA TakenIs ==
    ASSUME ServerTypes, MessagesInv, NEW m, Take(m)
    PROVE  /\ Head(fes) \in Events /\ Head(fes) = fes[1] /\ Head(fes) \in ToSet(fes)
           /\ Head(fes).to = m /\ ~crashed /\ fes # <<>> /\ Len(fes) \in Nat \ {0}
           /\ ToSet(fes) \subseteq Events
           /\ Tail(fes) \in Seq(Events) /\ fes \in Seq(Events)
<1>1. fes \in Seq(Events) /\ fes # <<>> /\ Distinct(fes) BY DEF ServerTypes, MessagesInv, Take
<1>2. ToSet(fes) \subseteq Events BY <1>1, Elements
<1> QED BY <1>1, <1>2, HeadAndTail DEF Take

LEMMA ThreadsSame ==
    ASSUME ThreadsInv, UNCHANGED <<maxThreads, running, endIn, queue, crashed>>,
           Requested \subseteq Requested',
           endExecutionMsg \in ToSet(fes) => endExecutionMsg \in ToSet(fes')
    PROVE  ThreadsInv'
BY DEF ThreadsInv, Free, Running

LEMMA SharingSame ==
    ASSUME SharingInv, UNCHANGED <<running, endIn, elapsed, owed>> PROVE SharingInv'
BY DEF SharingInv, Running, updateJobTimes

LEMMA InitInd == Init => ServerIndInv
<1> SUFFICES ASSUME Init PROVE ServerIndInv OBVIOUS
<1>1. NumJobs \in Nat /\ 1 \in 1..(NumJobs + 1) /\ Threads \subseteq Nat \ {0} /\ Timeouts \subseteq Nat
  BY AppServerAssumption
<1>2. ToSet(<<>>) = {} /\ Distinct(<<>>) /\ <<>> \in Seq(Events) /\ <<>> \in Seq(Jobs)
  <2>1. DOMAIN <<>> = {} OBVIOUS
  <2> QED BY <2>1 DEF ToSet, Distinct
<1>3. Running = {} /\ running \in [Running -> Nat]
  <2>1. running = <<>> /\ DOMAIN <<>> = {} BY DEF Init
  <2>2. <<>> = [i \in {} |-> 0] OBVIOUS
  <2> QED BY <2>1, <2>2 DEF Running
<1>4. maxThreads \in Nat \ {0} /\ timeout \in Nat BY <1>1 DEF Init
<1>5. ServerTypes
  <2>1. queueing \in [Jobs -> 0..timeout] /\ owed \in [Jobs -> Nat] BY <1>4 DEF Init
  <2> QED BY <1>1, <1>2, <1>3, <2>1 DEF Init, ServerTypes
<1>6. MessagesInv BY <1>2 DEF Init, MessagesInv
<1>7. InTransit = {} BY <1>2 DEF Init, InTransit
<1>8. JobsInv
  <2>1. 1..(next - 1) = {} BY DEF Init
  <2> QED BY <1>2, <1>3, <1>7, <2>1 DEF Init, JobsInv, Apart
<1>9. ThreadsInv
  <2>1. Cardinality(Running) = 0 BY <1>3, FS_EmptySet
  <2> QED BY <1>3, <1>4, <2>1 DEF Init, ThreadsInv, Free
<1>10. SharingInv BY <1>3 DEF Init, SharingInv
<1>11. OrderInv
  <2>1. Len(<<>>) = 0 /\ DOMAIN <<>> = {} OBVIOUS
  <2> QED BY <1>2, <2>1 DEF Init, OrderInv
<1> QED BY <1>5, <1>6, <1>8, <1>9, <1>10, <1>11 DEF ServerIndInv

-----------------------------------------------------------------------------
(* The way to the queue                                                    *)

LEMMA SourceInd == ASSUME ServerIndInv, Source PROVE ServerIndInv'
<1>1. ServerTypes /\ MessagesInv /\ JobsInv /\ ThreadsInv /\ SharingInv /\ OrderInv BY DEF ServerIndInv
<1>2. Take("source") BY DEF Source
<1>3. /\ Head(fes) \in Events /\ Head(fes) = fes[1] /\ Head(fes) \in ToSet(fes)
      /\ Head(fes).to = "source" /\ ~crashed /\ fes # <<>> /\ Len(fes) \in Nat \ {0}
      /\ ToSet(fes) \subseteq Events
      /\ Tail(fes) \in Seq(Events) /\ fes \in Seq(Events)
  BY <1>1, <1>2, TakenIs
<1>4. Head(fes) = newJobTimer BY <1>3, Modules
<1>5. next \in Nat /\ next \in Jobs /\ next <= NumJobs /\ next + 1 \in 1..(NumJobs + 1)
  <2>1. next <= NumJobs BY <1>1, <1>3, <1>4 DEF MessagesInv
  <2> QED BY <1>1, <2>1, JobsArePositive DEF ServerTypes, Jobs
<1> DEFINE e0 == ToJob("arrivalMonitor", next)
<1>6. e0 \in Events /\ e0.to = "arrivalMonitor" /\ e0.job = next /\ next # 0 /\ e0 # newJobTimer
  BY <1>5, Modules, JobsArePositive
<1>7. \A e \in ToSet(fes) : e.job # next
  <2>1. \A e \in ToSet(fes) : e.job # 0 => e.job \in InTransit BY OfMessages DEF InTransit
  <2>2. next \notin 1..(next - 1) BY <1>5
  <2> QED BY <1>1, <1>6, <2>1, <2>2 DEF JobsInv
<1>8. PICK again : /\ again \in {<<>>, <<newJobTimer>>}
                   /\ again # <<>> => bursts /\ next < NumJobs
                   /\ fes' = Tail(fes) \o again \o <<e0>>
  BY DEF Source
<1> DEFINE x == again \o <<e0>>
<1> HIDE DEF e0
<1>9. /\ x \in Seq(Events) /\ Distinct(x)
      /\ x = <<e0>> \/ (x = <<newJobTimer, e0>> /\ again # <<>>)
      /\ ToSet(x) = {e0} \/ (ToSet(x) = {newJobTimer, e0} /\ again # <<>>)
      /\ again = <<>> => x = <<e0>>
  <2>1. again = <<>> => x = <<e0>> BY Literals
  <2>2. again = <<newJobTimer>> => x = <<newJobTimer, e0>> /\ again # <<>> BY Literals
  <2>3. newJobTimer \in Events BY Modules
  <2>4. <<e0>> \in Seq(Events) /\ Distinct(<<e0>>) /\ ToSet(<<e0>>) = {e0}
    BY <1>6, Single
  <2>5. /\ <<newJobTimer, e0>> \in Seq(Events) /\ Distinct(<<newJobTimer, e0>>)
        /\ ToSet(<<newJobTimer, e0>>) = {newJobTimer, e0}
    BY <1>6, <2>3, Few
  <2> HIDE DEF x
  <2>6. again = <<>> \/ again = <<newJobTimer>> BY <1>8
  <2>7. CASE again = <<>>
    <3>1. x = <<e0>> BY <2>1, <2>7
    <3> QED BY <2>4, <2>7, <3>1
  <2>8. CASE again = <<newJobTimer>>
    <3>1. x = <<newJobTimer, e0>> /\ again # <<>> BY <2>2, <2>8
    <3> QED BY <2>5, <3>1
  <2> QED BY <2>6, <2>7, <2>8
<1>10. fes' = Tail(fes) \o x
  <2>1. <<>> \in Seq(Events) /\ <<e0>> \in Seq(Events) /\ <<newJobTimer>> \in Seq(Events)
    BY <1>6, Modules, Single
  <2>2. again \in Seq(Events) BY <1>8, <2>1
  <2> QED BY <1>3, <1>8, <2>1, <2>2
<1>11. (ToSet(fes) \ {Head(fes)}) \cap ToSet(x) = {} BY <1>4, <1>6, <1>7, <1>9
<1> HIDE DEF x
<1>12. /\ fes' \in Seq(Events) /\ Distinct(fes')
       /\ ToSet(fes') = (ToSet(fes) \ {Head(fes)}) \cup ToSet(x)
       /\ Len(fes') = Len(fes) - 1 + Len(x)
       /\ \A i \in 1..(Len(fes) - 1) : fes'[i] = fes[i + 1]
       /\ \A i \in 1..Len(x) : fes'[Len(fes) - 1 + i] = x[i]
  BY <1>1, <1>2, <1>9, <1>10, <1>11, Handled
<1>13. /\ next' = next + 1
       /\ UNCHANGED <<maxThreads, timeout, bursts, elsewhere, queue, running, endIn, elapsed, owed, queueing, left,
                      connected, deleted, crashed>>
  BY DEF Source, config, serverVars
<1>14. ServerTypes' BY <1>1, <1>5, <1>12, <1>13 DEF ServerTypes, Running
<1>15. \A e \in ToSet(fes') : e \in ToSet(fes) \/ e = e0 \/ e = newJobTimer BY <1>9, <1>12
<1>16. newJobTimer \in ToSet(fes') => again # <<>> BY <1>4, <1>6, <1>9, <1>12
<1>17. endExecutionMsg \in ToSet(fes') <=> endExecutionMsg \in ToSet(fes)
  BY <1>4, <1>6, <1>9, <1>12, Modules
<1>18. MessagesInv'
  <2>1. \A e, f \in ToSet(fes') : e.job = f.job /\ e.job # 0 => e = f
    BY <1>1, <1>6, <1>7, <1>15, Modules DEF MessagesInv
  <2>2. newJobTimer \in ToSet(fes') => next' <= NumJobs
    BY <1>5, <1>8, <1>13, <1>16, JobsArePositive
  <2>3. ASSUME endExecutionMsg \in ToSet(fes')
        PROVE  /\ endIn' = -1 /\ Running' # {}
               /\ \A e \in ToSet(fes') : e.to \in {"source", "self", "arrivalMonitor"}
               /\ fes'[1] = endExecutionMsg
    <3>1. endExecutionMsg \in ToSet(fes) BY <1>17, <2>3
    <3>2. endIn' = -1 /\ Running' # {} BY <1>1, <1>13, <3>1 DEF MessagesInv, Running
    <3>3. \A e \in ToSet(fes') : e.to \in {"source", "self", "arrivalMonitor"}
      BY <1>1, <1>6, <1>15, <3>1, Modules DEF MessagesInv
    <3>4. Len(fes) >= 2 /\ fes[2] = endExecutionMsg
      BY <1>1, <1>3, <1>4, <3>1, Modules DEF MessagesInv
    <3>5. fes'[1] = fes[2] BY <1>3, <1>12, <3>4
    <3> QED BY <3>2, <3>3, <3>4, <3>5
  <2>4. ASSUME completeRemoveMsg \in ToSet(fes')
        PROVE  /\ ~connected' /\ Running' = {} /\ queue' = <<>>
               /\ \A e \in ToSet(fes') :
                     e.to \in {"source", "arrivalMonitor", "loadBalancer", "executionManager"}
    <3>1. completeRemoveMsg \in ToSet(fes) BY <1>6, <1>15, <2>4, Modules
    <3> QED BY <1>1, <1>6, <1>13, <1>15, <3>1, Modules DEF MessagesInv, Running
  <2>5. \A e \in ToSet(fes') : e.to = "queue" => connected'
    BY <1>1, <1>6, <1>13, <1>15, Modules DEF MessagesInv
  <2>6. queueing[next] = 0 BY <1>1, <1>5 DEF MessagesInv
  <2>7. \A e \in ToSet(fes') : e.to \in Pipeline \ {"source"} => queueing'[e.job] = 0
    BY <1>1, <1>6, <1>13, <1>15, <2>6, Modules DEF MessagesInv
  <2>8. \A j \in Jobs : j >= next' => queueing'[j] = 0
    BY <1>1, <1>5, <1>13, JobsArePositive DEF MessagesInv
  <2> QED BY <1>12, <2>1, <2>2, <2>3, <2>4, <2>5, <2>7, <2>8 DEF MessagesInv
<1>19. InTransit' = InTransit \cup {next}
  <2>1. {e.job : e \in ToSet(fes')} \ {0} = ({e.job : e \in ToSet(fes)} \ {0}) \cup {next}
    <3>1. \A e \in ToSet(fes) : e = Head(fes) \/ e \in ToSet(fes') BY <1>12
    <3>2. e0 \in ToSet(fes') BY <1>9, <1>12
    <3> QED BY <1>4, <1>6, <1>15, <3>1, <3>2, Modules
  <2> QED BY <2>1, OfMessages DEF InTransit
<1>20. JobsInv'
  <2>1. 1..(next' - 1) = 1..(next - 1) \cup {next}
    <3>1. PICK k \in Nat \ {0} : k = next BY <1>5, JobsArePositive
    <3>2. next' - 1 = k BY <1>13, <3>1
    <3>3. 1..k = 1..(k - 1) \cup {k} OBVIOUS
    <3> QED BY <3>1, <3>2, <3>3
  <2>2. next \notin 1..(next - 1) BY <1>5
  <2> QED BY <1>1, <1>13, <1>19, <2>1, <2>2 DEF JobsInv, Apart, Running
<1>21. Requested' = Requested
  <2>1. \A e : e \in ToSet(fes') /\ e.to = "server" <=> e \in ToSet(fes) /\ e.to = "server"
    BY <1>3, <1>6, <1>12, <1>15, Modules
  <2>2. {e \in ToSet(fes') : e.to = "server"} = {e \in ToSet(fes) : e.to = "server"} BY <2>1
  <2> QED BY <2>2, OfMessages DEF Requested
<1>22. ThreadsInv' BY <1>1, <1>13, <1>17, <1>21, ThreadsSame
<1>23. SharingInv' BY <1>1, <1>13, SharingSame
<1>24. OrderInv'
  <2> SUFFICES ASSUME OneByOne' PROVE OrderInv' BY DEF OrderInv
  <2>1. OneByOne /\ ~bursts BY <1>13 DEF OneByOne
  <2>2. again = <<>> /\ x = <<e0>> BY <1>8, <1>9, <2>1
  <2>3. Len(x) = 1 /\ x[1] = e0 /\ Len(fes') = Len(fes) BY <1>3, <1>12, <2>2
  <2>4. fes'[Len(fes)] = e0 BY <1>3, <1>12, <2>3
  <2>5. \A e \in ToSet(fes') : (e \in ToSet(fes) /\ e # newJobTimer) \/ e = e0
    BY <1>15, <1>16, <2>2
  <2>6. Free' = Free BY <1>13 DEF Free, Running
  <2>7. \A e \in ToSet(fes') : e.to \in Pipeline => e = e0
    BY <1>1, <1>3, <1>4, <2>1, <2>5, Modules DEF OrderInv, Pipeline
  <2>8. \A e \in ToSet(fes') : e.to = "server" => e \in ToSet(fes) BY <1>6, <2>5
  <2>9. next = next' - 1 BY <1>5, <1>13
  <2>10. Len(fes) = 2 => fes'[2].to = "arrivalMonitor" BY <1>6, <2>4
  <2> QED BY <1>1, <1>6, <1>13, <2>1, <2>3, <2>6, <2>7, <2>8, <2>9, <2>10 DEF OrderInv
<1> QED BY <1>14, <1>18, <1>20, <1>22, <1>23, <1>24 DEF ServerIndInv

LEMMA NoEndBehind ==
    ASSUME ServerTypes, MessagesInv, NEW m, Take(m), m \notin {"source", "self"}
    PROVE  endExecutionMsg \notin ToSet(fes)
<1>1. Head(fes) = fes[1] /\ Head(fes).to = m BY TakenIs
<1> QED BY <1>1, Modules DEF MessagesInv

(* A job is passed on to the next module.                                  *)
LEMMA PassedOn ==
    ASSUME ServerIndInv, NEW m, NEW n, Take(m),
           \/ m = "arrivalMonitor" /\ n = "loadBalancer"
           \/ m = "loadBalancer" /\ n = "queue" /\ connected
           \/ m = "queue" /\ n = "server",
           fes' = Append(Tail(fes), ToJob(n, Head(fes).job)),
           UNCHANGED <<sourceVars, queue, serverVars, queueing, left, connected, deleted, crashed>>
    PROVE  /\ ServerTypes' /\ MessagesInv' /\ JobsInv' /\ ThreadsInv' /\ SharingInv'
           /\ \A e \in ToSet(fes') : (e \in ToSet(fes) /\ e # Head(fes)) \/ e = ToJob(n, Head(fes).job)
           /\ Len(fes') = Len(fes) /\ fes'[Len(fes)] = ToJob(n, Head(fes).job)
           /\ \A i \in 1..(Len(fes) - 1) : fes'[i] = fes[i + 1]
           /\ Head(fes).job \in Jobs /\ Head(fes).to = m /\ Head(fes) \in ToSet(fes)
           /\ Head(fes) = fes[1] /\ Len(fes) \in Nat \ {0} /\ ToSet(fes) \subseteq Events
           /\ ToJob(n, Head(fes).job).to = n /\ ToJob(n, Head(fes).job).job = Head(fes).job
<1>1. ServerTypes /\ MessagesInv /\ JobsInv /\ ThreadsInv /\ SharingInv BY DEF ServerIndInv
<1>2. /\ Head(fes) \in Events /\ Head(fes) = fes[1] /\ Head(fes) \in ToSet(fes)
      /\ Head(fes).to = m /\ ~crashed /\ fes # <<>> /\ Len(fes) \in Nat \ {0}
      /\ ToSet(fes) \subseteq Events
      /\ Tail(fes) \in Seq(Events) /\ fes \in Seq(Events)
  BY <1>1, TakenIs
<1>3. PICK h \in Events : h = Head(fes) BY <1>2
<1>4. h.job \in Jobs /\ h.job # 0 /\ h = ToJob(m, h.job) BY <1>2, <1>3, Modules, JobsArePositive
<1>5. PICK e1 \in Events : e1 = ToJob(n, h.job) BY <1>4, Modules
<1>6. e1.to = n /\ e1.job = h.job /\ e1 # h BY <1>2, <1>3, <1>4, <1>5, Modules
<1>7. /\ <<e1>> \in Seq(Events) /\ Distinct(<<e1>>) /\ ToSet(<<e1>>) = {e1}
      /\ Len(<<e1>>) = 1 /\ <<e1>>[1] = e1
  BY Single, Literals
<1>8. \A e \in ToSet(fes) : e # h => e.job # h.job BY <1>1, <1>2, <1>3, <1>4 DEF MessagesInv
<1>9. (ToSet(fes) \ {Head(fes)}) \cap ToSet(<<e1>>) = {} BY <1>3, <1>6, <1>7, <1>8
<1>10. fes' = Tail(fes) \o <<e1>>
  <2>1. Append(Tail(fes), e1) = Tail(fes) \o <<e1>> BY <1>2, AppendIsConcat
  <2> QED BY <1>3, <1>5, <2>1
<1>11. /\ fes' \in Seq(Events) /\ Distinct(fes')
       /\ ToSet(fes') = (ToSet(fes) \ {Head(fes)}) \cup ToSet(<<e1>>)
       /\ Len(fes') = Len(fes) - 1 + Len(<<e1>>)
       /\ \A i \in 1..(Len(fes) - 1) : fes'[i] = fes[i + 1]
       /\ \A i \in 1..Len(<<e1>>) : fes'[Len(fes) - 1 + i] = <<e1>>[i]
  BY <1>1, <1>7, <1>9, <1>10, Handled
<1>12. Len(fes') = Len(fes) /\ fes'[Len(fes)] = e1 BY <1>2, <1>7, <1>11
<1>13. /\ \A e : e \in ToSet(fes') <=> (e \in ToSet(fes) /\ e # h) \/ e = e1
       /\ \A e \in ToSet(fes') : (e \in ToSet(fes) /\ e # Head(fes)) \/ e = e1
  BY <1>3, <1>7, <1>11
<1>14. UNCHANGED <<maxThreads, timeout, bursts, next, elsewhere, queue, running, endIn, elapsed, owed,
                   queueing, left, connected, deleted, crashed>>
  BY DEF sourceVars, config, serverVars
<1>15. ServerTypes' BY <1>1, <1>11, <1>14 DEF ServerTypes, Running
<1>16. endExecutionMsg \notin ToSet(fes) /\ endExecutionMsg \notin ToSet(fes')
  BY <1>1, <1>6, <1>13, NoEndBehind, Modules
<1>17. MessagesInv'
  <2>1. \A e, f \in ToSet(fes') : e.job = f.job /\ e.job # 0 => e = f
    BY <1>1, <1>6, <1>8, <1>13 DEF MessagesInv
  <2>2. newJobTimer \in ToSet(fes') => next' <= NumJobs
    BY <1>1, <1>6, <1>13, <1>14, Modules DEF MessagesInv
  <2>3. ASSUME completeRemoveMsg \in ToSet(fes')
        PROVE  /\ ~connected' /\ Running' = {} /\ queue' = <<>>
               /\ \A e \in ToSet(fes') :
                     e.to \in {"source", "arrivalMonitor", "loadBalancer", "executionManager"}
    <3>1. completeRemoveMsg \in ToSet(fes) BY <1>6, <1>13, <2>3, Modules
    <3>2. /\ ~connected /\ Running = {} /\ queue = <<>>
          /\ \A e \in ToSet(fes) :
                e.to \in {"source", "arrivalMonitor", "loadBalancer", "executionManager"}
      BY <1>1, <3>1 DEF MessagesInv
    <3>3. n = "loadBalancer" BY <1>2, <3>2
    <3> QED BY <1>6, <1>13, <1>14, <3>2, <3>3 DEF Running
  <2>4. \A e \in ToSet(fes') : e.to = "queue" => connected'
    BY <1>1, <1>6, <1>13, <1>14 DEF MessagesInv
  <2>5. \A e \in ToSet(fes') : e.to \in Pipeline \ {"source"} => queueing'[e.job] = 0
    <3>1. queueing[h.job] = 0 BY <1>1, <1>2, <1>3 DEF MessagesInv, Pipeline
    <3> QED BY <1>1, <1>6, <1>13, <1>14, <3>1 DEF MessagesInv
  <2>6. \A j \in Jobs : j >= next' => queueing'[j] = 0 BY <1>1, <1>14 DEF MessagesInv
  <2> QED BY <1>11, <1>16, <2>1, <2>2, <2>3, <2>4, <2>5, <2>6 DEF MessagesInv
<1>18. InTransit' = InTransit
  <2>1. {e.job : e \in ToSet(fes')} = {e.job : e \in ToSet(fes)}
    <3>1. ASSUME NEW e \in ToSet(fes') PROVE \E f \in ToSet(fes) : f.job = e.job
      BY <1>2, <1>3, <1>6, <1>13
    <3>2. ASSUME NEW e \in ToSet(fes) PROVE \E f \in ToSet(fes') : f.job = e.job
      BY <1>6, <1>13
    <3> QED BY <3>1, <3>2
  <2> QED BY <2>1, OfMessages DEF InTransit
<1>19. JobsInv' BY <1>1, <1>14, <1>18 DEF JobsInv, Running
<1>20. Requested \subseteq Requested'
  <2>1. \A e \in ToSet(fes) : e.to = "server" => e \in ToSet(fes') BY <1>2, <1>3, <1>13
  <2>2. {e.job : e \in {d \in ToSet(fes) : d.to = "server"}}
          \subseteq {e.job : e \in {d \in ToSet(fes') : d.to = "server"}}
    BY <2>1
  <2>3. /\ Requested = {e.job : e \in {d \in ToSet(fes) : d.to = "server"}}
        /\ Requested' = {e.job : e \in {d \in ToSet(fes') : d.to = "server"}}
    BY OfMessages DEF Requested
  <2> QED BY <2>2, <2>3
<1>21. ThreadsInv' BY <1>1, <1>14, <1>16, <1>20, ThreadsSame
<1>22. SharingInv' BY <1>1, <1>14, SharingSame
<1> QED BY <1>2, <1>3, <1>4, <1>5, <1>6, <1>11, <1>12, <1>13, <1>15, <1>17, <1>19, <1>21, <1>22

LEMMA ArrivalMonitorInd == ASSUME ServerIndInv, ArrivalMonitor PROVE ServerIndInv'
<1> DEFINE e1 == ToJob("loadBalancer", Head(fes).job)
<1>1. UNCHANGED <<sourceVars, queue, serverVars, queueing, left, connected, deleted, crashed>>
  BY DEF ArrivalMonitor
<1>2. /\ ServerTypes' /\ MessagesInv' /\ JobsInv' /\ ThreadsInv' /\ SharingInv'
      /\ \A e \in ToSet(fes') : (e \in ToSet(fes) /\ e # Head(fes)) \/ e = e1
      /\ Len(fes') = Len(fes) /\ fes'[Len(fes)] = e1
      /\ \A i \in 1..(Len(fes) - 1) : fes'[i] = fes[i + 1]
      /\ Head(fes).job \in Jobs /\ Head(fes).to = "arrivalMonitor" /\ Head(fes) \in ToSet(fes)
      /\ Head(fes) = fes[1] /\ Len(fes) \in Nat \ {0} /\ ToSet(fes) \subseteq Events
      /\ e1.to = "loadBalancer" /\ e1.job = Head(fes).job
  BY PassedOn DEF ArrivalMonitor
<1> HIDE DEF e1
<1>3. OrderInv'
  <2> SUFFICES ASSUME OneByOne' PROVE OrderInv' BY DEF OrderInv
  <2>1. UNCHANGED <<maxThreads, timeout, bursts, next, queue, running, crashed>>
    BY <1>1 DEF sourceVars, config, serverVars
  <2>2. OneByOne /\ OrderInv BY <2>1 DEF OneByOne, ServerIndInv
  <2>3. Free' = Free BY <2>1 DEF Free, Running
  <2>4. \A e \in ToSet(fes') : e.to \in Pipeline => e = e1
    BY <1>2, <2>2 DEF OrderInv, Pipeline
  <2>5. e1.job = next - 1 BY <1>2, <2>2 DEF OrderInv, Pipeline
  <2>6. \A e \in ToSet(fes') : e.to = "server" => e \in ToSet(fes) BY <1>2
  <2>7. Len(fes) = 2 => fes'[2].to = "loadBalancer" /\ fes'[1].to \notin Pipeline
    <3>1. ASSUME Len(fes) = 2 PROVE fes'[2].to = "loadBalancer" /\ fes'[1].to \notin Pipeline
      <4>1. fes'[2] = e1 BY <1>2, <3>1
      <4>2. fes'[1] \in ToSet(fes') /\ fes'[2] \in ToSet(fes') /\ fes'[1] # fes'[2]
        <5>1. fes' \in Seq(Events) /\ Distinct(fes') BY <1>2 DEF ServerTypes, MessagesInv
        <5>2. 1 \in DOMAIN fes' /\ 2 \in DOMAIN fes' /\ Len(fes') = 2 BY <1>2, <3>1, <5>1
        <5> QED BY <5>1, <5>2 DEF Distinct, ToSet
      <4> QED BY <1>2, <2>4, <4>1, <4>2
    <3> QED BY <3>1
  <2> QED BY <1>2, <2>1, <2>2, <2>3, <2>4, <2>5, <2>6, <2>7 DEF OrderInv, Pipeline
<1> QED BY <1>2, <1>3 DEF ServerIndInv

LEMMA LoadBalancerInd == ASSUME ServerIndInv, LoadBalancer PROVE ServerIndInv'
<1> DEFINE e1 == ToJob("queue", Head(fes).job)
<1>1. ServerTypes /\ MessagesInv /\ JobsInv /\ ThreadsInv /\ SharingInv /\ OrderInv BY DEF ServerIndInv
<1>2. /\ UNCHANGED <<config, next, queue, serverVars, queueing, left, connected, deleted, crashed>>
      /\ Take("loadBalancer")
  BY DEF LoadBalancer
<1>3. ASSUME connected, fes' = Append(Tail(fes), e1), UNCHANGED elsewhere PROVE ServerIndInv'
  <2>1. UNCHANGED <<sourceVars, queue, serverVars, queueing, left, connected, deleted, crashed>>
    BY <1>2, <1>3 DEF sourceVars
  <2>2. /\ ServerTypes' /\ MessagesInv' /\ JobsInv' /\ ThreadsInv' /\ SharingInv'
        /\ \A e \in ToSet(fes') : (e \in ToSet(fes) /\ e # Head(fes)) \/ e = e1
        /\ Len(fes') = Len(fes) /\ fes'[Len(fes)] = e1
        /\ \A i \in 1..(Len(fes) - 1) : fes'[i] = fes[i + 1]
        /\ Head(fes).job \in Jobs /\ Head(fes).to = "loadBalancer" /\ Head(fes) \in ToSet(fes)
        /\ Head(fes) = fes[1] /\ Len(fes) \in Nat \ {0} /\ ToSet(fes) \subseteq Events
        /\ e1.to = "queue" /\ e1.job = Head(fes).job
    BY <1>2, <1>3, <2>1, PassedOn
  <2> HIDE DEF e1
  <2>3. OrderInv'
    <3> SUFFICES ASSUME OneByOne' PROVE OrderInv' BY DEF OrderInv
    <3>1. UNCHANGED <<maxThreads, timeout, bursts, next, queue, running, crashed>>
      BY <2>1 DEF sourceVars, config, serverVars
    <3>2. OneByOne BY <3>1 DEF OneByOne
    <3>3. Free' = Free BY <3>1 DEF Free, Running
    <3>4. \A e \in ToSet(fes') : e.to \in Pipeline => e = e1
      BY <1>1, <2>2, <3>2 DEF OrderInv, Pipeline
    <3>5. e1.job = next - 1 BY <1>1, <2>2, <3>2 DEF OrderInv, Pipeline
    <3>6. \A e \in ToSet(fes') : e.to = "server" => e \in ToSet(fes) BY <2>2
    <3>7. ASSUME Len(fes) = 2
          PROVE  /\ fes'[2].to = "queue" /\ fes'[1].to \notin Pipeline
                 /\ fes'[1].to = "server" => Free <= 1
      <4>1. fes'[2] = e1 /\ fes'[1] = fes[2] BY <2>2, <3>7
      <4>2. fes'[1] \in ToSet(fes') /\ fes'[2] \in ToSet(fes') /\ fes'[1] # fes'[2]
        <5>1. fes' \in Seq(Events) /\ Distinct(fes') BY <2>2 DEF ServerTypes, MessagesInv
        <5>2. 1 \in DOMAIN fes' /\ 2 \in DOMAIN fes' /\ Len(fes') = 2 BY <2>2, <3>7, <5>1
        <5> QED BY <5>1, <5>2 DEF Distinct, ToSet
      <4>3. fes[2].to = "server" => Free <= 1 BY <1>1, <2>2, <3>2, <3>7 DEF OrderInv
      <4> QED BY <2>2, <3>4, <4>1, <4>2, <4>3
    <3> QED BY <1>1, <2>2, <3>1, <3>2, <3>3, <3>4, <3>5, <3>6, <3>7 DEF OrderInv, Pipeline
  <2> QED BY <2>2, <2>3 DEF ServerIndInv
<1>4. ASSUME fes' = Tail(fes), elsewhere' = elsewhere \cup {Head(fes).job} PROVE ServerIndInv'
  <2>1. /\ Head(fes) \in Events /\ Head(fes) = fes[1] /\ Head(fes) \in ToSet(fes)
        /\ Head(fes).to = "loadBalancer" /\ ~crashed /\ fes # <<>> /\ Len(fes) \in Nat \ {0}
        /\ ToSet(fes) \subseteq Events
        /\ Tail(fes) \in Seq(Events) /\ fes \in Seq(Events)
    BY <1>1, <1>2, TakenIs
  <2>2. PICK h \in Events : h = Head(fes) BY <2>1
  <2>3. h.job \in Jobs /\ h.job # 0 /\ h.to = "loadBalancer" BY <2>1, <2>2, Modules, JobsArePositive
  <2>4. /\ Distinct(fes') /\ Len(fes') = Len(fes) - 1
        /\ \A i \in 1..(Len(fes) - 1) : fes'[i] = fes[i + 1]
        /\ ToSet(fes') = ToSet(fes) \ {h}
    <3>1. Distinct(fes) BY <1>1 DEF MessagesInv
    <3> QED BY <1>4, <2>1, <2>2, <3>1, HeadAndTail
  <2>5. UNCHANGED <<maxThreads, timeout, bursts, next, queue, running, endIn, elapsed, owed,
                    queueing, left, connected, deleted, crashed>>
    BY <1>2 DEF sourceVars, config, serverVars
  <2>6. ServerTypes' BY <1>1, <1>4, <2>1, <2>2, <2>3, <2>5 DEF ServerTypes, Running
  <2>7. endExecutionMsg \notin ToSet(fes) BY <1>1, <1>2, NoEndBehind
  <2>8. MessagesInv'
    <3>1. endExecutionMsg \notin ToSet(fes') BY <2>4, <2>7
    <3>2. \A e \in ToSet(fes') : e \in ToSet(fes) BY <2>4
    <3> QED BY <1>1, <2>4, <2>5, <3>1, <3>2 DEF MessagesInv, Running
  <2>9. \A e \in ToSet(fes) : e # h => e.job # h.job BY <1>1, <2>1, <2>2, <2>3 DEF MessagesInv
  <2>10. InTransit' = InTransit \ {h.job} /\ h.job \in InTransit
    <3>1. {e.job : e \in ToSet(fes')} \ {0} = ({e.job : e \in ToSet(fes)} \ {0}) \ {h.job}
      BY <2>4, <2>9
    <3>2. h.job \in {e.job : e \in ToSet(fes)} \ {0} BY <2>1, <2>2, <2>3
    <3> QED BY <3>1, <3>2, OfMessages DEF InTransit
  <2>11. JobsInv'
    <3>1. UNCHANGED <<Running, queue, left, next>> /\ elsewhere' = elsewhere \cup {h.job}
      BY <1>4, <2>2, <2>5 DEF Running
    <3> QED BY <1>1, <2>10, <3>1 DEF JobsInv, Apart
  <2>12. Requested \subseteq Requested'
    <3>1. {e.job : e \in {d \in ToSet(fes) : d.to = "server"}}
            \subseteq {e.job : e \in {d \in ToSet(fes') : d.to = "server"}}
      BY <2>3, <2>4
    <3>2. /\ Requested = {e.job : e \in {d \in ToSet(fes) : d.to = "server"}}
          /\ Requested' = {e.job : e \in {d \in ToSet(fes') : d.to = "server"}}
      BY OfMessages DEF Requested
    <3> QED BY <3>1, <3>2
  <2>13. ThreadsInv' BY <1>1, <2>5, <2>7, <2>12, ThreadsSame
  <2>14. SharingInv' BY <1>1, <2>5, SharingSame
  <2>15. OrderInv'
    <3> SUFFICES ASSUME OneByOne' PROVE OrderInv' BY DEF OrderInv
    <3>1. OneByOne BY <2>5 DEF OneByOne
    <3>2. Free' = Free BY <2>5 DEF Free, Running
    <3>3. Len(fes') < 2 /\ Len(fes') < Len(fes) BY <1>1, <2>1, <2>4, <3>1 DEF OrderInv
    <3>4. \A e \in ToSet(fes') : e \in ToSet(fes) BY <2>4
    <3>5. Len(fes') <= IF Ties THEN 2 ELSE 1 BY <1>1, <2>1, <2>4, <3>1 DEF OrderInv
    <3> QED BY <1>1, <2>5, <3>1, <3>2, <3>3, <3>4, <3>5 DEF OrderInv
  <2> QED BY <2>6, <2>8, <2>11, <2>13, <2>14, <2>15 DEF ServerIndInv
<1> QED BY <1>3, <1>4 DEF LoadBalancer

-----------------------------------------------------------------------------
(* The queue                                                               *)

(* Requests that come one by one reach the queue alone.                    *)
LEMMA AloneAtQueue ==
    ASSUME ServerIndInv, Take("queue"), OneByOne
    PROVE  Len(fes) = 1 /\ Requested = {} /\ ToSet(fes) = {Head(fes)}
<1>1. ServerTypes /\ MessagesInv /\ OrderInv BY DEF ServerIndInv
<1>2. /\ Head(fes) \in Events /\ Head(fes) = fes[1] /\ Head(fes) \in ToSet(fes)
      /\ Head(fes).to = "queue" /\ ~crashed /\ fes # <<>> /\ Len(fes) \in Nat \ {0}
      /\ ToSet(fes) \subseteq Events
      /\ Tail(fes) \in Seq(Events) /\ fes \in Seq(Events)
  BY <1>1, TakenIs
<1>3. Len(fes) <= 2 BY <1>1 DEF OrderInv
<1>4. ASSUME Len(fes) = 2 PROVE FALSE
  <2>1. fes[2] \in ToSet(fes) /\ fes[2] # fes[1]
    <3>1. 1 \in DOMAIN fes /\ 2 \in DOMAIN fes BY <1>2, <1>4
    <3> QED BY <1>1, <3>1 DEF MessagesInv, Distinct, ToSet
  <2>2. fes[2].to # "server" BY <1>1, <1>2, <1>4 DEF OrderInv
  <2>3. fes[2].to \notin Pipeline BY <1>1, <1>2, <2>1 DEF OrderInv, Pipeline
  <2>4. fes[2] \in Events BY <1>2, <2>1
  <2>5. fes[2].to = "self" \/ fes[2].to = "executionManager"
    BY <2>2, <2>3, <2>4, Modules DEF Pipeline
  <2>6. fes[2] # endExecutionMsg BY <1>1, <2>1, NoEndBehind
  <2>7. fes[2] # completeRemoveMsg BY <1>1, <1>2, <2>1 DEF MessagesInv
  <2> QED BY <2>4, <2>5, <2>6, <2>7, Modules
<1>5. Len(fes) = 1
  <2>1. PICK k \in Nat \ {0} : k = Len(fes) BY <1>2
  <2>2. k <= 2 /\ k # 2 BY <1>3, <1>4, <2>1
  <2>3. k = 1 BY <2>2
  <2> QED BY <2>1, <2>3
<1>6. ToSet(fes) = {Head(fes)}
  <2>1. DOMAIN fes = {1} BY <1>2, <1>5
  <2> QED BY <1>2, <2>1 DEF ToSet
<1>7. Requested = {}
  <2>1. {e \in ToSet(fes) : e.to = "server"} = {} BY <1>2, <1>6
  <2> QED BY <2>1, OfMessages DEF Requested
<1> QED BY <1>5, <1>6, <1>7

LEMMA ThreadCount ==
    ASSUME ServerTypes
    PROVE  /\ maxThreads \in Nat \ {0} /\ timeout \in Nat
           /\ IsFiniteSet(Running) /\ Cardinality(Running) \in Nat
           /\ Running # {} => Cardinality(Running) \in Nat \ {0}
           /\ Running = {} => Cardinality(Running) = 0
<1>1. maxThreads \in Nat \ {0} /\ timeout \in Nat BY AppServerAssumption DEF ServerTypes
<1>2. IsFiniteSet(Running)
  <2>1. IsFiniteSet(1..NumJobs) BY JobsArePositive, FS_Interval
  <2>2. Running \subseteq 1..NumJobs BY DEF ServerTypes, Jobs
  <2> QED BY <2>1, <2>2, FS_Subset
<1>3. Cardinality(Running) \in Nat BY <1>2, FS_CardinalityType
<1>4. Cardinality(Running) = 0 <=> Running = {} BY <1>2, FS_EmptySet
<1> QED BY <1>1, <1>2, <1>3, <1>4

LEMMA TransitAfter ==
    ASSUME ServerTypes, MessagesInv, fes # <<>>,
           NEW X, ToSet(fes') = (ToSet(fes) \ {Head(fes)}) \cup X
    PROVE  InTransit' = (InTransit \ {Head(fes).job}) \cup ({e.job : e \in X} \ {0})
<1>1. InTransit = {e.job : e \in ToSet(fes)} \ {0} /\ InTransit' = {e.job : e \in ToSet(fes')} \ {0}
  BY OfMessages DEF InTransit
<1>2. Head(fes) \in ToSet(fes) BY HeadAndTail DEF ServerTypes, MessagesInv
<1>3. \A e \in ToSet(fes) : e.job # 0 /\ e # Head(fes) => e.job # Head(fes).job
  BY <1>2 DEF MessagesInv
<1>4. ASSUME NEW j, j # 0, NEW e \in ToSet(fes'), e.job = j
      PROVE  j \in (InTransit \ {Head(fes).job}) \cup ({d.job : d \in X} \ {0})
  BY <1>1, <1>3, <1>4
<1>5. ASSUME NEW j \in (InTransit \ {Head(fes).job}) \cup ({d.job : d \in X} \ {0})
      PROVE  j # 0 /\ \E e \in ToSet(fes') : e.job = j
  BY <1>1, <1>5
<1> QED BY <1>1, <1>4, <1>5

LEMMA RequestedIs == Requested = {e.job : e \in {d \in ToSet(fes) : d.to = "server"}}
BY OfMessages DEF Requested

LEMMA EnqueueInd == ASSUME ServerIndInv, Enqueue PROVE ServerIndInv'
<1>1. ServerTypes /\ MessagesInv /\ JobsInv /\ ThreadsInv /\ SharingInv /\ OrderInv BY DEF ServerIndInv
<1>2. /\ UNCHANGED <<sourceVars, serverVars, queueing, left, connected, deleted, crashed>>
      /\ Take("queue")
  BY DEF Enqueue
<1>3. UNCHANGED <<maxThreads, timeout, bursts, next, elsewhere, running, endIn, elapsed, owed,
                  queueing, left, connected, deleted, crashed>>
  BY <1>2 DEF sourceVars, config, serverVars
<1>4. /\ maxThreads \in Nat \ {0} /\ Cardinality(Running) \in Nat BY <1>1, ThreadCount
<1>5. OneByOne' = OneByOne /\ Free' = Free BY <1>3 DEF OneByOne, Free, Running
<1>6. ASSUME isIdle, fes' = Append(Tail(fes), ToJob("server", Head(fes).job)), UNCHANGED queue
      PROVE  ServerIndInv'
  <2> DEFINE e1 == ToJob("server", Head(fes).job)
  <2>1. UNCHANGED <<sourceVars, queue, serverVars, queueing, left, connected, deleted, crashed>>
    BY <1>2, <1>6
  <2>2. /\ ServerTypes' /\ MessagesInv' /\ JobsInv' /\ ThreadsInv' /\ SharingInv'
        /\ \A e \in ToSet(fes') : (e \in ToSet(fes) /\ e # Head(fes)) \/ e = e1
        /\ Len(fes') = Len(fes) /\ e1.to = "server"
    BY <1>2, <1>6, <2>1, PassedOn
  <2> HIDE DEF e1
  <2>3. OrderInv'
    <3> SUFFICES ASSUME OneByOne' PROVE OrderInv' BY DEF OrderInv
    <3>1. Len(fes) = 1 /\ Requested = {} /\ ToSet(fes) = {Head(fes)} BY <1>2, <1>5, AloneAtQueue
    <3>2. \A e \in ToSet(fes') : e = e1 BY <2>2, <3>1
    <3>3. Free > 0 BY <1>4, <1>6 DEF isIdle, Free, Running
    <3>4. queue = <<>> BY <1>1, <1>2, <3>1, <3>3 DEF ThreadsInv, Take
    <3>5. ToSet(queue) = {} /\ DOMAIN queue = {} BY <3>4 DEF ToSet
    <3>6. Len(fes') = 1 BY <2>2, <3>1
    <3>7. ~crashed' /\ Free' > 0 BY <1>2, <1>3, <1>5, <3>3 DEF Take
    <3>8. Len(fes') # 2 /\ Len(fes') <= IF Ties THEN 2 ELSE 1 BY <3>6
    <3>9. ToSet(queue') = {} /\ DOMAIN queue' = {} BY <1>6, <3>5
    <3>10. \A e \in ToSet(fes') : e.to = "server" BY <2>2, <3>2
    <3> HIDE DEF ToSet
    <3> QED BY <1>5, <3>2, <3>7, <3>8, <3>9, <3>10 DEF OrderInv, Pipeline
  <2> QED BY <2>2, <2>3 DEF ServerIndInv
<1>7. ASSUME ~isIdle, queue' = Append(queue, Head(fes).job), fes' = Tail(fes) PROVE ServerIndInv'
  <2>1. /\ Head(fes) \in Events /\ Head(fes) = fes[1] /\ Head(fes) \in ToSet(fes)
        /\ Head(fes).to = "queue" /\ ~crashed /\ fes # <<>> /\ Len(fes) \in Nat \ {0}
        /\ ToSet(fes) \subseteq Events
        /\ Tail(fes) \in Seq(Events) /\ fes \in Seq(Events)
    BY <1>1, <1>2, TakenIs
  <2>2. PICK h \in Events : h = Head(fes) BY <2>1
  <2>3. h.job \in Jobs /\ h.job # 0 /\ h.to = "queue" BY <2>1, <2>2, Modules, JobsArePositive
  <2>4. /\ Distinct(fes') /\ Len(fes') = Len(fes) - 1 /\ ToSet(fes') = (ToSet(fes) \ {Head(fes)}) \cup {}
    <3>1. Distinct(fes) BY <1>1 DEF MessagesInv
    <3> QED BY <1>7, <2>1, <3>1, HeadAndTail
  <2>5. PICK j \in Jobs : j = h.job BY <2>3
  <2>6. InTransit' = InTransit \ {j}
    <3>1. {e.job : e \in {}} \ {0} = {} OBVIOUS
    <3>2. InTransit' = (InTransit \ {Head(fes).job}) \cup ({e.job : e \in {}} \ {0})
      BY <1>1, <2>1, <2>4, TransitAfter
    <3> QED BY <2>2, <2>5, <3>1, <3>2
  <2>7. j \in InTransit
    <3>1. j \in {e.job : e \in ToSet(fes)} \ {0} BY <2>1, <2>2, <2>3, <2>5
    <3> QED BY <3>1, OfMessages DEF InTransit
  <2>8. /\ queue' \in Seq(Jobs) /\ Distinct(queue') /\ ToSet(queue') = ToSet(queue) \cup {j}
        /\ Len(queue') = Len(queue) + 1 /\ queue'[Len(queue) + 1] = j
        /\ \A i \in 1..Len(queue) : queue'[i] = queue[i]
    <3>1. queue \in Seq(Jobs) /\ Distinct(queue) BY <1>1 DEF ServerTypes, JobsInv
    <3>2. <<j>> \in Seq(Jobs) /\ Distinct(<<j>>) /\ ToSet(<<j>>) = {j} BY Single
    <3>3. ToSet(queue) \cap ToSet(<<j>>) = {} BY <1>1, <2>7, <3>2 DEF JobsInv, Apart
    <3>4. queue' = queue \o <<j>>
      <4>1. Append(queue, j) = queue \o <<j>> BY <3>1, AppendIsConcat
      <4> QED BY <1>7, <2>2, <2>5, <4>1
    <3>5. Len(<<j>>) = 1 /\ <<j>>[1] = j BY Literals
    <3>6. PICK x : x = <<j>> OBVIOUS
    <3>7. /\ x \in Seq(Jobs) /\ Distinct(x) /\ ToSet(x) = {j} /\ Len(x) = 1 /\ x[1] = j
          /\ ToSet(queue) \cap ToSet(x) = {} /\ queue' = queue \o x
      BY <3>2, <3>3, <3>4, <3>5, <3>6
    <3>8. /\ queue \o x \in Seq(Jobs) /\ Distinct(queue \o x)
          /\ ToSet(queue \o x) = ToSet(queue) \cup ToSet(x)
          /\ Len(queue \o x) = Len(queue) + Len(x)
          /\ \A i \in 1..Len(queue) : (queue \o x)[i] = queue[i]
          /\ \A i \in 1..Len(x) : (queue \o x)[Len(queue) + i] = x[i]
      BY <3>1, <3>7, Joined
    <3> QED BY <3>7, <3>8
  <2>9. ServerTypes' BY <1>1, <1>3, <1>7, <2>1, <2>8 DEF ServerTypes, Running
  <2>10. \A e \in ToSet(fes') : e \in ToSet(fes) /\ e # Head(fes) BY <2>4
  <2>11. endExecutionMsg \notin ToSet(fes) BY <1>1, <1>2, NoEndBehind
  <2>12. completeRemoveMsg \notin ToSet(fes) BY <1>1, <2>1 DEF MessagesInv
  <2>13. MessagesInv' BY <1>1, <1>3, <2>4, <2>10, <2>11, <2>12 DEF MessagesInv, Running
  <2>14. JobsInv' BY <1>1, <1>3, <2>6, <2>7, <2>8 DEF JobsInv, Apart, Running
  <2>15. Free = 0 BY <1>1, <1>4, <1>7 DEF isIdle, Free, Running, ThreadsInv
  <2>16. ThreadsInv' BY <1>1, <1>3, <1>5, <2>11, <2>15 DEF ThreadsInv, Running
  <2>17. SharingInv' BY <1>1, <1>3, SharingSame
  <2>18. OrderInv'
    <3> SUFFICES ASSUME OneByOne' PROVE OrderInv' BY DEF OrderInv
    <3>1. Len(fes) = 1 /\ ToSet(fes) = {Head(fes)} BY <1>2, <1>5, AloneAtQueue
    <3>2. ToSet(fes') = {} /\ Len(fes') = 0 BY <2>4, <3>1
    <3>3. j = next - 1 BY <1>1, <1>5, <2>1, <2>2, <2>5 DEF OrderInv, Pipeline
    <3>4. \A q \in ToSet(queue) : q \in Nat /\ q < j
      <4>1. next \in Nat /\ ToSet(queue) \subseteq 1..(next - 1) /\ j \notin ToSet(queue)
        BY <1>1, <2>7, JobsArePositive DEF JobsInv, Apart, ServerTypes
      <4> QED BY <3>3, <4>1
    <3>5. \A a, b \in DOMAIN queue' : a < b => queue'[a] < queue'[b]
      <4>1. PICK n \in Nat : n = Len(queue) /\ DOMAIN queue = 1..n /\ DOMAIN queue' = 1..(n + 1)
        BY <1>1, <2>8 DEF ServerTypes
      <4>2. SUFFICES ASSUME NEW a \in 1..(n + 1), NEW b \in 1..(n + 1), a < b PROVE queue'[a] < queue'[b]
        BY <4>1
      <4>3. a \in 1..n /\ queue'[a] = queue[a] /\ queue[a] \in ToSet(queue) BY <2>8, <4>1, <4>2 DEF ToSet
      <4>4. CASE b = n + 1 BY <2>8, <3>4, <4>1, <4>3, <4>4
      <4>5. CASE b # n + 1
        <5>1. b \in 1..n BY <4>5
        <5> QED BY <1>1, <1>5, <2>8, <4>1, <4>2, <4>3, <5>1 DEF OrderInv
      <4> QED BY <4>4, <4>5
    <3> QED BY <1>2, <1>3, <1>5, <3>2, <3>5 DEF OrderInv, Take
  <2> QED BY <2>9, <2>13, <2>14, <2>16, <2>17, <2>18 DEF ServerIndInv
<1> QED BY <1>6, <1>7 DEF Enqueue

-----------------------------------------------------------------------------
(* The threads                                                             *)

(* What Request makes of the events and the queue: it asks, or it does not.*)
Rest == ToSet(fes) \ {Head(fes)}
Asks(jobs) == Cardinality(DOMAIN jobs) < maxThreads /\ queue # <<>>

Asked(jobs) ==
    /\ Asks(jobs)
    /\ queue[1] \in ToSet(queue) /\ queue[1] \in Jobs
    /\ ToSet(fes') = Rest \cup {ToJob("server", queue[1])} /\ Len(fes') = Len(fes)
    /\ fes'[Len(fes)] = ToJob("server", queue[1])
    /\ ToSet(queue') = ToSet(queue) \ {queue[1]} /\ Len(queue') = Len(queue) - 1
    /\ \A i \in 1..(Len(queue) - 1) : queue'[i] = queue[i + 1]

NotAsked(jobs, signals) ==
    /\ ~Asks(jobs)
    /\ UNCHANGED queue
    /\ ToSet(fes') = Rest \cup ToSet(signals)
    /\ Len(fes') = Len(fes) - 1 + Len(signals)

LEMMA NothingToRemove ==
    ASSUME ServerTypes, MessagesInv, NEW m \in {"self", "server"}, Take(m)
    PROVE  completeRemoveMsg \notin ToSet(fes)
<1>1. Head(fes) \in ToSet(fes) /\ Head(fes).to = m BY TakenIs
<1> QED BY <1>1 DEF MessagesInv

LEMMA RequestDoes ==
    ASSUME ServerTypes, MessagesInv, JobsInv, NEW m \in {"self", "server"}, Take(m),
           NEW jobs, NEW signals,
           signals = <<>> \/ (signals = <<completeRemoveMsg>> /\ queue = <<>>),
           Request(jobs, signals)
    PROVE  /\ fes' \in Seq(Events) /\ Distinct(fes') /\ queue' \in Seq(Jobs) /\ Distinct(queue')
           /\ \A i \in 1..(Len(fes) - 1) : fes'[i] = fes[i + 1]
           /\ (Asked(jobs) /\ signals = <<>>) \/ NotAsked(jobs, signals)
<1>1. queue \in Seq(Jobs) /\ Distinct(queue) BY DEF ServerTypes, JobsInv
<1>2. /\ Tail(fes) \in Seq(Events) /\ Len(fes) \in Nat \ {0} /\ ToSet(fes) \subseteq Events
      /\ Head(fes) \in ToSet(fes)
  BY TakenIs
<1>3. completeRemoveMsg \notin ToSet(fes) BY NothingToRemove
<1>4. /\ signals \in Seq(Events) /\ Distinct(signals)
      /\ ToSet(signals) \subseteq {completeRemoveMsg}
  <2>1. completeRemoveMsg \in Events /\ endExecutionMsg \in Events /\ completeRemoveMsg # endExecutionMsg
    BY Modules
  <2>2. <<>> \in Seq(Events) /\ Distinct(<<>>) /\ ToSet(<<>>) = {} BY <2>1, Few
  <2>3. /\ <<completeRemoveMsg>> \in Seq(Events) /\ Distinct(<<completeRemoveMsg>>)
        /\ ToSet(<<completeRemoveMsg>>) = {completeRemoveMsg}
    BY <2>1, Single
  <2> QED BY <2>2, <2>3
<1>5. CASE Asks(jobs)
  <2>1. signals = <<>> BY <1>5 DEF Asks
  <2>2. fes' = Tail(fes) \o signals \o <<ToJob("server", Head(queue))>> /\ queue' = Tail(queue)
    BY <1>5 DEF Asks, Request, HasFreeThread
  <2>3. /\ Head(queue) \in Jobs /\ Head(queue) = queue[1] /\ Head(queue) \in ToSet(queue)
        /\ Tail(queue) \in Seq(Jobs) /\ Distinct(Tail(queue)) /\ Len(Tail(queue)) = Len(queue) - 1
        /\ \A i \in 1..(Len(queue) - 1) : Tail(queue)[i] = queue[i + 1]
        /\ ToSet(Tail(queue)) = ToSet(queue) \ {Head(queue)}
    <3>1. queue # <<>> BY <1>5 DEF Asks
    <3> QED BY <1>1, <3>1, HeadAndTail
  <2>4. PICK q \in Jobs : q = queue[1] BY <2>3
  <2>5. PICK e1 \in Events : e1 = ToJob("server", q) /\ e1.job = q BY Modules
  <2>6. q \notin InTransit /\ q # 0 BY <2>3, <2>4, JobsArePositive DEF JobsInv, Apart
  <2>7. e1 \notin ToSet(fes)
    <3>1. InTransit = {e.job : e \in ToSet(fes)} \ {0} BY OfMessages DEF InTransit
    <3> QED BY <2>5, <2>6, <3>1
  <2>8. PICK x : x = <<e1>> OBVIOUS
  <2>9. /\ x \in Seq(Events) /\ Distinct(x) /\ ToSet(x) = {e1} /\ Len(x) = 1 /\ x[1] = e1
        /\ (ToSet(fes) \ {Head(fes)}) \cap ToSet(x) = {}
    BY <2>5, <2>7, <2>8, Single, Literals
  <2>10. fes' = Tail(fes) \o x
    <3>1. Tail(fes) \o <<>> = Tail(fes) BY <1>2
    <3> QED BY <2>1, <2>2, <2>3, <2>4, <2>5, <2>8, <3>1
  <2>11. /\ fes' \in Seq(Events) /\ Distinct(fes')
         /\ ToSet(fes') = (ToSet(fes) \ {Head(fes)}) \cup ToSet(x)
         /\ Len(fes') = Len(fes) - 1 + Len(x)
         /\ \A i \in 1..(Len(fes) - 1) : fes'[i] = fes[i + 1]
         /\ \A i \in 1..Len(x) : fes'[Len(fes) - 1 + i] = x[i]
    BY <2>9, <2>10, Handled
  <2>12. Len(fes') = Len(fes) /\ fes'[Len(fes)] = e1 BY <1>2, <2>9, <2>11
  <2>13. queue' \in Seq(Jobs) /\ Distinct(queue') BY <2>2, <2>3
  <2>14. Asked(jobs) BY <1>5, <2>2, <2>3, <2>4, <2>5, <2>9, <2>11, <2>12 DEF Asked, Rest
  <2> QED BY <2>1, <2>11, <2>13, <2>14
<1>6. CASE ~Asks(jobs)
  <2>1. fes' = Tail(fes) \o signals /\ queue' = queue BY <1>6 DEF Asks, Request, HasFreeThread
  <2>2. (ToSet(fes) \ {Head(fes)}) \cap ToSet(signals) = {} BY <1>3, <1>4
  <2>3. /\ fes' \in Seq(Events) /\ Distinct(fes')
        /\ ToSet(fes') = (ToSet(fes) \ {Head(fes)}) \cup ToSet(signals)
        /\ Len(fes') = Len(fes) - 1 + Len(signals)
        /\ \A i \in 1..(Len(fes) - 1) : fes'[i] = fes[i + 1]
    BY <1>4, <2>1, <2>2, Handled
  <2> QED BY <1>1, <1>6, <2>1, <2>3 DEF NotAsked, Rest
<1> QED BY <1>5, <1>6

LEMMA FewerThreads ==
    ASSUME NEW S, IsFiniteSet(S), NEW T, T \subseteq S
    PROVE  /\ Cardinality(T) \in Nat /\ Cardinality(S) \in Nat /\ Cardinality(T) <= Cardinality(S)
           /\ T # {} => Cardinality(T) \in Nat \ {0}
<1>1. IsFiniteSet(T) /\ Cardinality(T) <= Cardinality(S) BY FS_Subset
<1>2. Cardinality(T) \in Nat /\ Cardinality(S) \in Nat BY <1>1, FS_CardinalityType
<1>3. Cardinality(T) = 0 <=> T = {} BY <1>1, FS_EmptySet
<1> QED BY <1>1, <1>2, <1>3

(* Jobs that have just been charged, and what they have yet to get.        *)
LEMMA Charged ==
    ASSUME NEW D, IsFiniteSet(D), D # {}, NEW jobs \in [D -> Nat], NEW o \in [Jobs -> Nat],
           \A j \in D : jobs[j] = o[j],
           running' = jobs, elapsed' = 0, endIn' = scheduleNextCompletion(jobs)
    PROVE  /\ endIn' \in Nat /\ Running' = D
           /\ \A j \in D : updateJobTimes'[j] = o[j]
           /\ endIn' = Min({o[j] : j \in D}) * Cardinality(D)
           /\ \E k \in Nat : elapsed' = k * Cardinality(D)
<1>1. Running' = D /\ DOMAIN jobs = D BY DEF Running
<1>2. PICK n \in Nat \ {0} : n = Cardinality(D) BY FewerThreads
<1>3. {jobs[j] : j \in D} = {o[j] : j \in D} OBVIOUS
<1>4. Min({jobs[j] : j \in D}) \in Nat
  <2>1. {jobs[j] : j \in D} \subseteq Nat /\ {jobs[j] : j \in D} # {} OBVIOUS
  <2>2. Min({jobs[j] : j \in D}) \in {jobs[j] : j \in D} BY <2>1, LeastNumber
  <2> QED BY <2>1, <2>2
<1>5. endIn' = Min({o[j] : j \in D}) * n BY <1>1, <1>2, <1>3 DEF scheduleNextCompletion
<1>6. endIn' \in Nat BY <1>3, <1>4, <1>5
<1>7. ASSUME NEW j \in D PROVE updateJobTimes'[j] = o[j]
  <2>1. updateJobTimes'[j] = jobs[j] - 0 \div n BY <1>1, <1>2 DEF updateJobTimes, Running
  <2>2. 0 \div n = 0
    <3>1. 0 * n = 0 BY <1>2
    <3> QED BY <1>2, <3>1, WholeShares
  <2>3. PICK v \in Nat : v = jobs[j] OBVIOUS
  <2>4. v - 0 = v OBVIOUS
  <2> QED BY <2>1, <2>2, <2>3, <2>4
<1>8. elapsed' = 0 * Cardinality(D) /\ 0 \in Nat BY <1>2
<1> QED BY <1>1, <1>2, <1>5, <1>6, <1>7, <1>8

LEMMA QueueOrder ==
    ASSUME ServerTypes, ServerTypes', \A i, j \in DOMAIN queue : i < j => queue[i] < queue[j],
           NEW jobs, NEW signals, Asked(jobs) \/ NotAsked(jobs, signals)
    PROVE  /\ \A i, j \in DOMAIN queue' : i < j => queue'[i] < queue'[j]
           /\ Asked(jobs) => \A z \in ToSet(queue') : queue[1] < z
<1>1. PICK n \in Nat : n = Len(queue) /\ DOMAIN queue = 1..n BY DEF ServerTypes
<1>2. \A i, j \in 1..n : i < j => queue[i] < queue[j] BY <1>1
<1>3. CASE NotAsked(jobs, signals)
  <2>1. ~Asked(jobs) /\ queue' = queue BY <1>3 DEF NotAsked, Asked
  <2> QED BY <1>1, <1>2, <2>1
<1>4. CASE Asked(jobs)
  <2>1. Len(queue') = n - 1 /\ DOMAIN queue' = 1..(n - 1)
    <3>1. Len(queue') = n - 1 /\ DOMAIN queue' = 1..Len(queue') BY <1>1, <1>4 DEF Asked, ServerTypes
    <3> QED BY <3>1
  <2>2. \A i \in 1..(n - 1) : queue'[i] = queue[i + 1] BY <1>1, <1>4 DEF Asked
  <2>3. \A i, j \in 1..(n - 1) : i < j => queue'[i] < queue'[j]
    <3>1. \A i \in 1..(n - 1) : i + 1 \in 1..n OBVIOUS
    <3>2. \A i, j \in 1..(n - 1) : i < j => i + 1 < j + 1 OBVIOUS
    <3> QED BY <1>2, <2>2, <3>1, <3>2
  <2>4. \A i \in 1..(n - 1) : queue[1] < queue'[i]
    <3>1. \A i \in 1..(n - 1) : i + 1 \in 1..n /\ 1 < i + 1 /\ 1 \in 1..n OBVIOUS
    <3> QED BY <1>2, <2>2, <3>1
  <2> QED BY <2>1, <2>3, <2>4 DEF ToSet
<1> QED BY <1>3, <1>4

(* A thread that is free beside the queue has asked for a job.             *)
LEMMA AsksIfItCan ==
    ASSUME NEW jobs, NEW signals, Asked(jobs) \/ NotAsked(jobs, signals),
           queue' # <<>>, Cardinality(DOMAIN jobs) < maxThreads
    PROVE  Requested' # {}
<1>1. Asked(jobs) BY DEF NotAsked, Asks
<1>2. ToJob("server", queue[1]) \in ToSet(fes') /\ ToJob("server", queue[1]).to = "server"
  BY <1>1, Modules DEF Asked
<1>3. Requested' = {e.job : e \in {d \in ToSet(fes') : d.to = "server"}} BY OfMessages DEF Requested
<1> QED BY <1>2, <1>3

LEMMA EndExecutionInd == ASSUME ServerIndInv, EndExecution PROVE ServerIndInv'
<1> DEFINE ended == {j \in Running : updateJobTimes[j] = 0}
           jobs  == Restrict(updateJobTimes, Running \ ended)
           D     == Running \ ended
<1>1. ServerTypes /\ MessagesInv /\ JobsInv /\ ThreadsInv /\ SharingInv /\ OrderInv BY DEF ServerIndInv
<1>2. Take("self") /\ UNCHANGED <<maxThreads, timeout, bursts, next, elsewhere, queueing, connected,
                                  deleted, crashed, owed>>
  BY DEF EndExecution, sourceVars, config
<1>3. /\ Head(fes) \in Events /\ Head(fes) = fes[1] /\ Head(fes) \in ToSet(fes)
      /\ Head(fes).to = "self" /\ ~crashed /\ fes # <<>> /\ Len(fes) \in Nat \ {0}
      /\ ToSet(fes) \subseteq Events
      /\ Tail(fes) \in Seq(Events) /\ fes \in Seq(Events)
  BY <1>1, <1>2, TakenIs
<1>4. Head(fes) = endExecutionMsg /\ endExecutionMsg \in ToSet(fes) BY <1>3, Modules
<1>5. /\ endIn = -1 /\ Running # {}
      /\ \A e \in ToSet(fes) : e.to \in {"source", "self", "arrivalMonitor"}
  BY <1>1, <1>4 DEF MessagesInv
<1>6. /\ maxThreads \in Nat \ {0} /\ IsFiniteSet(Running) /\ Cardinality(Running) \in Nat
      /\ Running \subseteq Jobs
  BY <1>1, ThreadCount DEF ServerTypes
<1>7. /\ \A j \in Running : updateJobTimes[j] = owed[j] /\ owed[j] \in Nat
      /\ DOMAIN updateJobTimes = Running
  BY <1>1, <1>6 DEF SharingInv, ServerTypes, updateJobTimes, Running
<1>8. /\ jobs \in [D -> Nat] /\ DOMAIN jobs = D /\ D \subseteq Running /\ ended \subseteq Running
      /\ \A j \in D : jobs[j] = owed[j] /\ owed[j] > 0
      /\ \A j \in ended : owed[j] = 0
  <2>1. jobs = [j \in D |-> updateJobTimes[j]] BY DEF Restrict
  <2>2. \A j \in D : updateJobTimes[j] # 0 OBVIOUS
  <2>3. \A j \in ended : updateJobTimes[j] = 0 OBVIOUS
  <2> QED BY <1>7, <2>1, <2>2, <2>3
<1>9. Cardinality(D) \in Nat /\ Cardinality(D) <= Cardinality(Running) /\ IsFiniteSet(D)
  <2>1. IsFiniteSet(D) BY <1>6, <1>8, FS_Subset
  <2> HIDE DEF D
  <2> QED BY <1>6, <1>8, <2>1, FewerThreads
<1>10. /\ running' = jobs /\ left' = left \cup ended
       /\ D # {} => /\ endIn' = scheduleNextCompletion(jobs) /\ elapsed' = 0
                    /\ Request(jobs, <<>>)
       /\ D = {} => endIn' = -1 /\ UNCHANGED elapsed /\ Request(jobs, BusyFalse)
  BY <1>8 DEF EndExecution, Running
<1> HIDE DEF jobs, D, ended
<1>11. PICK signals : /\ Request(jobs, signals)
                      /\ signals = <<>> \/ /\ signals = <<completeRemoveMsg>>
                                           /\ ~connected /\ queue = <<>> /\ D = {}
  BY <1>10 DEF BusyFalse
<1>12. /\ fes' \in Seq(Events) /\ Distinct(fes') /\ queue' \in Seq(Jobs) /\ Distinct(queue')
       /\ \A i \in 1..(Len(fes) - 1) : fes'[i] = fes[i + 1]
       /\ (Asked(jobs) /\ signals = <<>>) \/ NotAsked(jobs, signals)
  BY <1>1, <1>2, <1>11, RequestDoes
<1>13. Running' = D /\ Free' = maxThreads - Cardinality(D) BY <1>2, <1>8, <1>10 DEF Running, Free
<1>14. D = Running \ ended BY DEF D
<1>15. D # {} => /\ endIn' \in Nat
                 /\ \A j \in D : updateJobTimes'[j] = owed[j]
                 /\ endIn' = Min({owed[j] : j \in D}) * Cardinality(D)
                 /\ \E k \in Nat : elapsed' = k * Cardinality(D)
                 /\ elapsed' = 0
  <2>1. SUFFICES ASSUME D # {}
                 PROVE  /\ endIn' \in Nat
                        /\ \A j \in D : updateJobTimes'[j] = owed[j]
                        /\ endIn' = Min({owed[j] : j \in D}) * Cardinality(D)
                        /\ \E k \in Nat : elapsed' = k * Cardinality(D)
                        /\ elapsed' = 0
    OBVIOUS
  <2>2. /\ jobs \in [D -> Nat] /\ \A j \in D : jobs[j] = owed[j] /\ IsFiniteSet(D)
        /\ running' = jobs /\ elapsed' = 0 /\ endIn' = scheduleNextCompletion(jobs)
        /\ owed \in [Jobs -> Nat]
    BY <1>1, <1>8, <1>9, <1>10, <2>1 DEF ServerTypes
  <2>3. /\ endIn' \in Nat
        /\ \A j \in D : updateJobTimes'[j] = owed[j]
        /\ endIn' = Min({owed[j] : j \in D}) * Cardinality(D)
        /\ \E k \in Nat : elapsed' = k * Cardinality(D)
    BY <2>1, <2>2, Charged
  <2> QED BY <2>2, <2>3
<1>16. ServerTypes'
  <2>1. endIn' \in Nat \cup {-1} /\ elapsed' \in Nat BY <1>1, <1>10, <1>15 DEF ServerTypes
  <2>2. Running' \subseteq Jobs /\ running' \in [Running' -> Nat] BY <1>6, <1>8, <1>10, <1>13
  <2>3. left' \subseteq Jobs BY <1>1, <1>6, <1>8, <1>10 DEF ServerTypes
  <2> QED BY <1>1, <1>2, <1>12, <2>1, <2>2, <2>3 DEF ServerTypes
<1>17. PICK q : q = queue[1] OBVIOUS
<1>18. ToSet(signals) \subseteq {completeRemoveMsg}
  <2>1. completeRemoveMsg \in Events /\ endExecutionMsg \in Events /\ completeRemoveMsg # endExecutionMsg
    BY Modules
  <2>2. ToSet(<<>>) = {} /\ ToSet(<<completeRemoveMsg>>) = {completeRemoveMsg} BY <2>1, Few, Single
  <2> QED BY <1>11, <2>2
<1>19. /\ signals = <<>> => ToSet(signals) = {} /\ Len(signals) = 0
       /\ Len(signals) \in Nat /\ Len(signals) <= 1
  <2>1. Len(<<>>) = 0 /\ Len(<<completeRemoveMsg>>) = 1 BY Literals
  <2>2. ToSet(<<>>) = {} BY DEF ToSet
  <2>3. CASE signals = <<>> BY <2>1, <2>2, <2>3
  <2>4. CASE signals = <<completeRemoveMsg>> BY <2>1, <2>4
  <2> QED BY <1>11, <2>3, <2>4
<1>20. \A e \in Rest : e \in ToSet(fes) /\ e.to \in {"source", "arrivalMonitor"}
  BY <1>3, <1>4, <1>5, Modules DEF Rest
(* What is under way now: what was behind the message, and one of two.     *)
<1>21. \/ /\ Asked(jobs) /\ q \in Jobs /\ q \in ToSet(queue)
          /\ \A e \in ToSet(fes') : e \in Rest \/ e = ToJob("server", q)
       \/ /\ NotAsked(jobs, signals)
          /\ \A e \in ToSet(fes') : e \in Rest \/ (e = completeRemoveMsg /\ signals # <<>>)
  BY <1>12, <1>17, <1>18, <1>19 DEF Asked, NotAsked
<1>22. \A e \in ToSet(fes') :
         \/ e \in Rest
         \/ e.to = "server" /\ e.job = q /\ q \in ToSet(queue) /\ q \in Jobs /\ Asked(jobs)
         \/ e = completeRemoveMsg /\ signals # <<>> /\ NotAsked(jobs, signals)
  BY <1>21, Modules
<1>23. MessagesInv'
  <2>1. \A e \in Rest : e.job # 0 => e.job \in InTransit /\ e.job \notin ToSet(queue)
    <3>1. InTransit = {e.job : e \in ToSet(fes)} \ {0} BY OfMessages DEF InTransit
    <3> QED BY <1>1, <1>20, <3>1 DEF JobsInv, Apart
  <2>2. \A e, f \in ToSet(fes') : e.job = f.job /\ e.job # 0 => e = f
    BY <1>1, <1>20, <1>21, <2>1, Modules DEF MessagesInv
  <2>3. newJobTimer \in ToSet(fes') => next' <= NumJobs
    BY <1>1, <1>2, <1>20, <1>22, Modules DEF MessagesInv
  <2>4. endExecutionMsg \notin ToSet(fes') BY <1>20, <1>22, Modules
  <2>5. ASSUME completeRemoveMsg \in ToSet(fes')
        PROVE  /\ ~connected' /\ Running' = {} /\ queue' = <<>>
               /\ \A e \in ToSet(fes') :
                     e.to \in {"source", "arrivalMonitor", "loadBalancer", "executionManager"}
    <3>1. signals # <<>> /\ NotAsked(jobs, signals) BY <1>20, <1>22, <2>5, Modules
    <3>2. ~connected' /\ Running' = {} /\ queue' = <<>> BY <1>2, <1>11, <1>13, <3>1 DEF NotAsked
    <3>3. ~Asked(jobs) BY <3>1 DEF NotAsked, Asked
    <3> QED BY <1>20, <1>22, <3>2, <3>3, Modules
  <2>6. \A e \in ToSet(fes') : e.to # "queue" BY <1>20, <1>22, Modules
  <2>7. \A e \in ToSet(fes') : e.to \in Pipeline \ {"source"} => queueing'[e.job] = 0
    BY <1>1, <1>2, <1>20, <1>22, Modules DEF MessagesInv, Pipeline
  <2>8. \A j \in Jobs : j >= next' => queueing'[j] = 0 BY <1>1, <1>2 DEF MessagesInv
  <2> QED BY <1>12, <2>2, <2>3, <2>4, <2>5, <2>6, <2>7, <2>8 DEF MessagesInv
<1>24. InTransit \ {0} = InTransit /\ Head(fes).job = 0 BY <1>4, Modules DEF InTransit
<1>25. JobsInv'
  <2>1. CASE Asked(jobs)
    <3>1. ToSet(fes') = (ToSet(fes) \ {Head(fes)}) \cup {ToJob("server", q)} BY <1>17, <2>1 DEF Asked, Rest
    <3>2. InTransit' = (InTransit \ {Head(fes).job}) \cup ({e.job : e \in {ToJob("server", q)}} \ {0})
      BY <1>1, <1>3, <3>1, TransitAfter
    <3>3. q \in Jobs /\ q # 0 /\ q \in ToSet(queue) BY <1>17, <2>1, JobsArePositive DEF Asked
    <3>4. {e.job : e \in {ToJob("server", q)}} \ {0} = {q}
      <4>1. ToJob("server", q).job = q BY <3>3, Modules
      <4> QED BY <3>3, <4>1
    <3>5. InTransit' = InTransit \cup {q} BY <1>24, <3>2, <3>4
    <3>6. ToSet(queue') = ToSet(queue) \ {q} BY <1>17, <2>1 DEF Asked
    <3> QED BY <1>1, <1>2, <1>8, <1>10, <1>12, <1>13, <1>14, <3>3, <3>5, <3>6 DEF JobsInv, Apart
  <2>2. CASE NotAsked(jobs, signals)
    <3>1. ToSet(fes') = (ToSet(fes) \ {Head(fes)}) \cup ToSet(signals) BY <2>2 DEF NotAsked, Rest
    <3>2. InTransit' = (InTransit \ {Head(fes).job}) \cup ({e.job : e \in ToSet(signals)} \ {0})
      BY <1>1, <1>3, <3>1, TransitAfter
    <3>3. {e.job : e \in ToSet(signals)} \ {0} = {} BY <1>18, Modules
    <3>4. InTransit' = InTransit BY <1>24, <3>2, <3>3
    <3>5. queue' = queue BY <2>2 DEF NotAsked
    <3> QED BY <1>1, <1>2, <1>8, <1>10, <1>13, <1>14, <3>4, <3>5 DEF JobsInv, Apart
  <2> QED BY <1>12, <2>1, <2>2
<1>26. ThreadsInv'
  <2>1. Free' >= 0
    <3>1. PICK a \in Nat, b \in Nat, c \in Nat :
             a = Cardinality(D) /\ b = Cardinality(Running) /\ c = maxThreads
      BY <1>6, <1>9
    <3>2. a <= b /\ c - b >= 0 BY <1>1, <1>9, <3>1 DEF ThreadsInv, Free
    <3> QED BY <1>13, <3>1, <3>2
  <2>2. queue' # <<>> /\ Free' > 0 /\ ~crashed' => Requested' # {}
    <3>1. ASSUME queue' # <<>>, Free' > 0 PROVE Requested' # {}
      <4>1. Cardinality(DOMAIN jobs) < maxThreads BY <1>6, <1>8, <1>9, <1>13, <3>1
      <4> QED BY <1>12, <3>1, <4>1, AsksIfItCan
    <3> QED BY <3>1
  <2>3. Running' = {} => endIn' = -1 BY <1>10, <1>13
  <2>4. Running' # {} => endIn' # -1 BY <1>13, <1>15
  <2> QED BY <2>1, <2>2, <2>3, <2>4 DEF ThreadsInv
<1>27. SharingInv'
  <2>1. \A j \in Jobs \ Running' : owed'[j] = 0 BY <1>1, <1>2, <1>8, <1>13, <1>14 DEF SharingInv
  <2>2. CASE D = {} BY <1>10, <1>13, <2>1, <2>2 DEF SharingInv
  <2>3. CASE D # {} BY <1>2, <1>8, <1>13, <1>15, <2>1, <2>3 DEF SharingInv
  <2> QED BY <2>2, <2>3
<1>28. OrderInv'
  <2> SUFFICES ASSUME OneByOne' PROVE OrderInv' BY DEF OrderInv
  <2>1. OneByOne /\ ~crashed' BY <1>2, <1>3 DEF OneByOne
  <2>2. Len(fes') <= IF Ties THEN 2 ELSE 1
    <3>1. PICK a \in Nat \ {0}, b \in Nat : a = Len(fes) /\ b = Len(signals) BY <1>3, <1>19
    <3>2. Len(fes') = a \/ Len(fes') = a - 1 + b BY <1>12, <3>1 DEF Asked, NotAsked
    <3>3. b <= 1 /\ a <= IF Ties THEN 2 ELSE 1 BY <1>1, <1>19, <2>1, <3>1 DEF OrderInv
    <3> QED BY <3>1, <3>2, <3>3
  <2>3. \A e, f \in ToSet(fes') : e.to \in Pipeline /\ f.to \in Pipeline => e = f
    BY <1>1, <1>20, <1>22, <2>1, Modules DEF OrderInv, Pipeline
  <2>4. \A e, f \in ToSet(fes') : e.to = "server" /\ f.to = "server" => e = f
    BY <1>20, <1>21, Modules
  <2>5. \A e \in ToSet(fes') : e.to = "server" => Free' > 0 /\ Asked(jobs) /\ e.job = q
    <3>1. Asked(jobs) => Free' > 0
      <4>1. Asked(jobs) => Cardinality(D) < maxThreads BY <1>8 DEF Asked, Asks
      <4> QED BY <1>6, <1>9, <1>13, <4>1
    <3> QED BY <1>20, <1>22, <3>1, Modules
  <2>6. ASSUME Len(fes') = 2
        PROVE  ~(fes'[1].to = "loadBalancer") /\ ~(fes'[1].to = "server") /\ ~(fes'[1].to = "queue")
    <3>1. Len(fes) = 2
      <4>1. PICK a \in Nat \ {0}, b \in Nat : a = Len(fes) /\ b = Len(signals) BY <1>3, <1>19
      <4>2. Len(fes') = a \/ Len(fes') = a - 1 + b BY <1>12, <4>1 DEF Asked, NotAsked
      <4>3. b <= 1 /\ a <= IF Ties THEN 2 ELSE 1 BY <1>1, <1>19, <2>1, <4>1 DEF OrderInv
      <4>4. a = 2 BY <2>6, <4>2, <4>3
      <4> QED BY <4>1, <4>4
    <3>2. fes'[1] = fes[2] /\ fes[2] \in ToSet(fes) BY <1>3, <1>12, <3>1 DEF ToSet
    <3> QED BY <1>5, <3>2
  <2>7. /\ \A i, j \in DOMAIN queue' : i < j => queue'[i] < queue'[j]
        /\ Asked(jobs) => \A z \in ToSet(queue') : q < z
    <3>1. \A i, j \in DOMAIN queue : i < j => queue[i] < queue[j] BY <1>1, <2>1 DEF OrderInv
    <3> QED BY <1>1, <1>12, <1>16, <1>17, <3>1, QueueOrder
  <2>8. \A e \in ToSet(fes') : e.to \in Pipeline \ {"source"} => e.job = next' - 1
    BY <1>1, <1>2, <1>20, <1>22, <2>1, Modules DEF OrderInv, Pipeline
  <2> QED BY <2>1, <2>2, <2>3, <2>4, <2>5, <2>6, <2>7, <2>8 DEF OrderInv
<1> QED BY <1>16, <1>23, <1>25, <1>26, <1>27, <1>28 DEF ServerIndInv

(* A job arrived, and runs or is sent out.                                 *)
LEMMA ArrivedInd ==
    ASSUME ServerTypes, MessagesInv, JobsInv, Take("server"), Request(running', <<>>),
           UNCHANGED <<maxThreads, timeout, bursts, next, elsewhere, queueing, connected, deleted, crashed>>,
           running' \in [Running' -> Nat], endIn' \in Nat \cup {-1}, elapsed' \in Nat,
           owed' \in [Jobs -> Nat],
           \/ Running' = Running \cup {Head(fes).job} /\ left' = left
           \/ Running' = Running /\ left' = left \cup {Head(fes).job}
    PROVE  /\ ServerTypes' /\ MessagesInv' /\ JobsInv'
           /\ endExecutionMsg \notin ToSet(fes) /\ Head(fes).job \in Jobs \ Running
           /\ Len(fes) \in Nat \ {0} /\ Head(fes) = fes[1] /\ Head(fes) \in ToSet(fes)
           /\ Head(fes).to = "server"
           /\ \A i \in 1..(Len(fes) - 1) : fes'[i] = fes[i + 1]
           /\ Asked(running') \/ NotAsked(running', <<>>)
           /\ NotAsked(running', <<>>) => Len(fes') = Len(fes) - 1
           /\ \A e \in ToSet(fes') :
                 \/ e \in ToSet(fes) /\ e # Head(fes)
                 \/ e = ToJob("server", queue[1]) /\ e.to = "server" /\ e.job = queue[1] /\ Asked(running')
<1> DEFINE signals == <<>>
<1>1. /\ Head(fes) \in Events /\ Head(fes) = fes[1] /\ Head(fes) \in ToSet(fes)
      /\ Head(fes).to = "server" /\ ~crashed /\ fes # <<>> /\ Len(fes) \in Nat \ {0}
      /\ ToSet(fes) \subseteq Events
      /\ Tail(fes) \in Seq(Events) /\ fes \in Seq(Events)
  BY TakenIs
<1>2. PICK j \in Jobs : j = Head(fes).job /\ j # 0 BY <1>1, Modules, JobsArePositive
<1>3. endExecutionMsg \notin ToSet(fes) /\ completeRemoveMsg \notin ToSet(fes)
  BY NoEndBehind, NothingToRemove
<1>4. ToSet(signals) = {} /\ Len(signals) = 0 /\ (\A e : e \notin ToSet(signals)) BY DEF ToSet
<1>5. /\ fes' \in Seq(Events) /\ Distinct(fes') /\ queue' \in Seq(Jobs) /\ Distinct(queue')
      /\ \A i \in 1..(Len(fes) - 1) : fes'[i] = fes[i + 1]
      /\ Asked(running') \/ NotAsked(running', signals)
  <2>1. signals = <<>> /\ Request(running', signals) BY DEF signals
  <2> HIDE DEF signals
  <2> QED BY <2>1, RequestDoes
<1>6. PICK q : q = queue[1] OBVIOUS
<1>7. \A e \in Rest : e \in ToSet(fes) /\ e # Head(fes) /\ e \in Events BY <1>1 DEF Rest
<1>8. Asked(running') => q \in Jobs /\ q \in ToSet(queue) BY <1>6 DEF Asked
<1>9. \A e \in ToSet(fes') :
         \/ e \in Rest
         \/ e = ToJob("server", q) /\ e.to = "server" /\ e.job = q /\ q \in Jobs /\ Asked(running')
  <2>1. Asked(running') => ToSet(fes') = Rest \cup {ToJob("server", q)} BY <1>6 DEF Asked
  <2>2. NotAsked(running', signals) => ToSet(fes') = Rest \cup ToSet(signals) BY DEF NotAsked
  <2> QED BY <1>4, <1>5, <1>8, <2>1, <2>2, Modules
<1>10. InTransit = {e.job : e \in ToSet(fes)} \ {0} BY OfMessages DEF InTransit
<1>11. j \in InTransit /\ j \notin Running /\ \A e \in Rest : e.job # j
  <2>1. j \in InTransit BY <1>1, <1>2, <1>10
  <2> QED BY <1>1, <1>2, <1>7, <2>1 DEF JobsInv, Apart, MessagesInv
<1>12. ServerTypes'
  <2>1. left' \subseteq Jobs /\ Running' \subseteq Jobs BY <1>2 DEF ServerTypes
  <2> QED BY <1>5, <2>1 DEF ServerTypes
<1>13. MessagesInv'
  <2>1. \A e \in Rest : e.job # 0 => e.job \in InTransit /\ e.job \notin ToSet(queue)
    BY <1>7, <1>10 DEF JobsInv, Apart
  <2>2. \A e, f \in ToSet(fes') : e.job = f.job /\ e.job # 0 => e = f
    <3>1. \A e \in ToSet(fes') :
             \/ e \in Rest
             \/ e = ToJob("server", q) /\ e.job = q /\ q \in ToSet(queue) /\ q # 0
      BY <1>8, <1>9, JobsArePositive
    <3> QED BY <1>7, <2>1, <3>1 DEF MessagesInv
  <2>3. newJobTimer \in ToSet(fes') => next' <= NumJobs
    BY <1>7, <1>9, Modules DEF MessagesInv
  <2>4. endExecutionMsg \notin ToSet(fes') /\ completeRemoveMsg \notin ToSet(fes')
    BY <1>3, <1>7, <1>9, Modules
  <2>5. \A e \in ToSet(fes') : e.to = "queue" => connected' BY <1>7, <1>9 DEF MessagesInv
  <2>6. \A e \in ToSet(fes') : e.to \in Pipeline \ {"source"} => queueing'[e.job] = 0
    BY <1>7, <1>9 DEF MessagesInv, Pipeline
  <2>7. \A i \in Jobs : i >= next' => queueing'[i] = 0 BY DEF MessagesInv
  <2> QED BY <1>5, <2>2, <2>3, <2>4, <2>5, <2>6, <2>7 DEF MessagesInv
<1>14. JobsInv'
  <2>1. CASE Asked(running')
    <3>1. ToSet(fes') = (ToSet(fes) \ {Head(fes)}) \cup {ToJob("server", q)} BY <1>6, <2>1 DEF Asked, Rest
    <3>2. InTransit' = (InTransit \ {Head(fes).job}) \cup ({e.job : e \in {ToJob("server", q)}} \ {0})
      BY <1>1, <3>1, TransitAfter
    <3>3. q \in Jobs /\ q # 0 /\ q \in ToSet(queue) BY <1>8, <2>1, JobsArePositive
    <3>4. {e.job : e \in {ToJob("server", q)}} \ {0} = {q}
      <4>1. ToJob("server", q).job = q BY <3>3, Modules
      <4> QED BY <3>3, <4>1
    <3>5. InTransit' = (InTransit \ {j}) \cup {q} BY <1>2, <3>2, <3>4
    <3>6. ToSet(queue') = ToSet(queue) \ {q} BY <1>6, <2>1 DEF Asked
    <3> QED BY <1>2, <1>5, <1>11, <3>3, <3>5, <3>6 DEF JobsInv, Apart
  <2>2. CASE NotAsked(running', signals)
    <3>1. ToSet(fes') = (ToSet(fes) \ {Head(fes)}) \cup {} BY <1>4, <2>2 DEF NotAsked, Rest
    <3>2. InTransit' = (InTransit \ {Head(fes).job}) \cup ({e.job : e \in {}} \ {0})
      BY <1>1, <3>1, TransitAfter
    <3>3. {e.job : e \in {}} \ {0} = {} OBVIOUS
    <3>4. InTransit' = InTransit \ {j} BY <1>2, <3>2, <3>3
    <3>5. queue' = queue BY <2>2 DEF NotAsked
    <3> QED BY <1>2, <1>11, <3>4, <3>5 DEF JobsInv, Apart
  <2> QED BY <1>5, <2>1, <2>2
<1>15. NotAsked(running', signals) => Len(fes') = Len(fes) - 1
  <2>1. PICK a \in Nat : a = Len(fes) BY <1>1
  <2>2. NotAsked(running', signals) => Len(fes') = a - 1 + 0 BY <1>4, <2>1 DEF NotAsked
  <2> QED BY <2>1, <2>2
<1> QED BY <1>1, <1>2, <1>3, <1>5, <1>6, <1>7, <1>9, <1>11, <1>12, <1>13, <1>14, <1>15 DEF signals

LEMMA JobArrivesInd == ASSUME ServerIndInv, JobArrives PROVE ServerIndInv'
<1>1. ServerTypes /\ MessagesInv /\ JobsInv /\ ThreadsInv /\ SharingInv /\ OrderInv BY DEF ServerIndInv
<1>2. Take("server") /\ UNCHANGED <<maxThreads, timeout, bursts, next, elsewhere, queueing, connected,
                                    deleted>>
  BY DEF JobArrives, sourceVars, config
<1>3. /\ Head(fes) \in Events /\ Head(fes) \in ToSet(fes) /\ Head(fes).to = "server"
      /\ ~crashed /\ fes # <<>> /\ Len(fes) \in Nat \ {0}
  BY <1>1, <1>2, TakenIs
<1>4. PICK j \in Jobs : j = Head(fes).job BY <1>3, Modules
<1>5. /\ maxThreads \in Nat \ {0} /\ timeout \in Nat /\ IsFiniteSet(Running)
      /\ Cardinality(Running) \in Nat
  BY <1>1, ThreadCount
<1>6. endExecutionMsg \notin ToSet(fes) BY <1>1, <1>2, NoEndBehind
<1>7. Running # {} => endIn # -1 /\ (\A i \in Running : owed[i] > 0)
  BY <1>1, <1>6 DEF ThreadsInv, SharingInv
<1>8. OneByOne' = OneByOne BY <1>2 DEF OneByOne
<1>9. ASSUME ~isIdle, crashed' = TRUE, UNCHANGED <<fes, queue, serverVars, left>>
      PROVE  ServerIndInv'
  <2>1. UNCHANGED <<fes, queue, running, endIn, elapsed, owed, left>> BY <1>9 DEF serverVars
  <2>2. ServerTypes' /\ MessagesInv' /\ JobsInv'
    <3>1. InTransit' = InTransit /\ Running' = Running BY <2>1 DEF InTransit, Running
    <3> QED BY <1>1, <1>2, <1>9, <2>1, <3>1 DEF ServerTypes, MessagesInv, JobsInv
  <2>3. ThreadsInv' BY <1>1, <1>2, <1>9, <2>1 DEF ThreadsInv, Free, Running
  <2>4. SharingInv' BY <1>1, <2>1, SharingSame
  <2>5. ~OneByOne
    <3>1. OneByOne => Free > 0 BY <1>1, <1>3 DEF OrderInv
    <3> QED BY <1>5, <1>9, <3>1 DEF isIdle, Free, Running
  <2>6. OrderInv' BY <1>8, <2>5 DEF OrderInv
  <2> QED BY <2>2, <2>3, <2>4, <2>6 DEF ServerIndInv
<1>10. ASSUME crashed' = crashed, Request(running', <<>>), running' \in [Running' -> Nat],
              endIn' \in Nat \cup {-1}, elapsed' \in Nat, owed' \in [Jobs -> Nat],
              \/ Running' = Running \cup {j} /\ left' = left
              \/ Running' = Running /\ left' = left \cup {j} /\ timeout > 0,
              Free' >= 0, SharingInv', Running' = {} => endIn' = -1, Running' # {} => endIn' # -1,
              OneByOne => Free' <= Free
       PROVE  ServerIndInv'
  <2>1. /\ ServerTypes' /\ MessagesInv' /\ JobsInv'
        /\ Len(fes) \in Nat \ {0} /\ Head(fes) = fes[1]
        /\ \A i \in 1..(Len(fes) - 1) : fes'[i] = fes[i + 1]
        /\ Asked(running') \/ NotAsked(running', <<>>)
        /\ NotAsked(running', <<>>) => Len(fes') = Len(fes) - 1
        /\ \A e \in ToSet(fes') :
                 \/ e \in ToSet(fes) /\ e # Head(fes)
                 \/ e = ToJob("server", queue[1]) /\ e.to = "server" /\ e.job = queue[1] /\ Asked(running')
    BY <1>1, <1>2, <1>4, <1>10, ArrivedInd
  <2>2. Cardinality(Running') \in Nat /\ maxThreads' = maxThreads /\ DOMAIN running' = Running'
    <3>1. IsFiniteSet(Running') BY <1>5, <1>10, FS_AddElement
    <3>2. Cardinality(Running') \in Nat BY <3>1, FS_CardinalityType
    <3> QED BY <1>2, <3>2 DEF Running
  <2>3. ThreadsInv'
    <3>1. ASSUME queue' # <<>>, Free' > 0 PROVE Requested' # {}
      <4>1. Cardinality(DOMAIN running') < maxThreads BY <1>5, <2>2, <3>1 DEF Free
      <4> QED BY <2>1, <3>1, <4>1, AsksIfItCan
    <3> QED BY <1>10, <3>1 DEF ThreadsInv
  <2>4. OrderInv'
    <3> SUFFICES ASSUME OneByOne' PROVE OrderInv' BY DEF OrderInv
    <3>1. OneByOne /\ ~crashed' BY <1>3, <1>8, <1>10
    <3>2. PICK a \in Nat \ {0} : a = Len(fes) /\ (a <= IF Ties THEN 2 ELSE 1)
      BY <1>1, <2>1, <3>1 DEF OrderInv
    <3>3. Len(fes') = a \/ Len(fes') = a - 1 BY <2>1, <3>2 DEF Asked
    <3>4. Len(fes') <= IF Ties THEN 2 ELSE 1 BY <3>2, <3>3
    <3>5. \A e, f \in ToSet(fes') : e.to \in Pipeline /\ f.to \in Pipeline => e = f
      BY <1>1, <2>1, <3>1 DEF OrderInv, Pipeline
    <3>6. \A e \in ToSet(fes) : e # Head(fes) => e.to # "server" BY <1>1, <1>3, <3>1 DEF OrderInv
    <3>7. \A e, f \in ToSet(fes') : e.to = "server" /\ f.to = "server" => e = f BY <2>1, <3>6
    <3>8. Asked(running') => Free' > 0
      <4>1. Asked(running') => Cardinality(Running') < maxThreads BY <2>2 DEF Asked, Asks
      <4> QED BY <1>5, <2>2, <4>1 DEF Free
    <3>9. \A e \in ToSet(fes') : e.to = "server" => Free' > 0 /\ Asked(running') /\ e.job = queue[1]
      BY <2>1, <3>6, <3>8
    <3>10. ASSUME Len(fes') = 2
           PROVE  /\ Free' <= 1
                  /\ ~(fes'[1].to = "queue" /\ fes'[2].to = "server")
                  /\ fes'[2].to # "queue"
      <4>1. a = 2 /\ Ties /\ Len(fes) = 2 /\ timeout = 0 /\ maxThreads <= 2
        BY <3>1, <3>2, <3>3, <3>10 DEF OneByOne
      <4>2. Asked(running')
        <5>1. ~NotAsked(running', <<>>) BY <2>1, <3>10, <4>1
        <5> QED BY <2>1, <5>1
      <4>3. Running' = Running \cup {j} BY <1>10, <4>1
      <4>4. Cardinality(Running') # 0
        <5>1. IsFiniteSet(Running') BY <1>5, <4>3, FS_AddElement
        <5>2. Cardinality(Running') = 0 <=> Running' = {} BY <5>1, FS_EmptySet
        <5> QED BY <4>3, <5>2
      <4>5. Free' <= 1 BY <1>5, <2>2, <4>1, <4>4 DEF Free
      <4>6. fes'[1] = fes[2] /\ fes'[2].to = "server"
        <5>1. fes'[2] = ToJob("server", queue[1]) /\ queue[1] \in Jobs BY <4>1, <4>2 DEF Asked
        <5>2. ToJob("server", queue[1]).to = "server" BY <5>1, Modules
        <5> QED BY <2>1, <4>1, <5>1, <5>2
      <4>7. ~(fes'[1].to = "queue")
        <5>1. SUFFICES ASSUME fes[2].to = "queue" PROVE FALSE BY <4>6
        <5>2. Free <= 1 BY <1>1, <1>3, <2>1, <3>1, <4>1, <5>1 DEF OrderInv
        <5>3. Cardinality(Running') = Cardinality(Running) + 1
          <6>1. j \notin Running BY <1>1, <1>2, <1>4, <1>10, ArrivedInd
          <6> QED BY <1>5, <4>3, <6>1, FS_AddElement
        <5>4. Free' = Free - 1 BY <1>5, <2>2, <5>3 DEF Free
        <5>5. Free' > 0 BY <3>8, <4>2
        <5>6. Free \in Int BY <1>5 DEF Free
        <5> QED BY <5>2, <5>4, <5>5, <5>6
      <4> QED BY <4>5, <4>6, <4>7
    <3>11. /\ \A i, k \in DOMAIN queue' : i < k => queue'[i] < queue'[k]
           /\ Asked(running') => \A z \in ToSet(queue') : queue[1] < z
      <4>1. \A i, k \in DOMAIN queue : i < k => queue[i] < queue[k] BY <1>1, <3>1 DEF OrderInv
      <4> QED BY <1>1, <2>1, <4>1, QueueOrder
    <3>12. \A e \in ToSet(fes') : e.to \in Pipeline \ {"source"} => e.job = next' - 1
      BY <1>1, <1>2, <2>1, <3>1 DEF OrderInv, Pipeline
    <3> QED BY <3>1, <3>4, <3>5, <3>7, <3>9, <3>10, <3>11, <3>12 DEF OrderInv
  <2> QED BY <1>10, <2>1, <2>3, <2>4 DEF ServerIndInv
<1>11. ASSUME isIdle, timedOut(j), left' = left \cup {j}, Request(running, <<>>),
              UNCHANGED <<serverVars, crashed>>
       PROVE  ServerIndInv'
  <2>1. UNCHANGED <<running, endIn, elapsed, owed, crashed>> BY <1>11 DEF serverVars
  <2>2. Running' = Running /\ Free' = Free BY <1>2, <2>1 DEF Running, Free
  <2>3. SharingInv' BY <1>1, <2>1, SharingSame
  <2>4. timeout > 0 BY <1>11 DEF timedOut
  <2>5. /\ running' \in [Running' -> Nat] /\ endIn' \in Nat \cup {-1} /\ elapsed' \in Nat
        /\ owed' \in [Jobs -> Nat]
    BY <1>1, <2>1, <2>2 DEF ServerTypes
  <2>6. Request(running', <<>>) BY <1>11, <2>1
  <2>7. Free' >= 0 /\ (Running' = {} => endIn' = -1) BY <1>1, <2>1, <2>2 DEF ThreadsInv
  <2>8. Running' # {} => endIn' # -1 BY <1>7, <2>1, <2>2
  <2>9. Free' <= Free BY <1>5, <2>2 DEF Free
  <2> QED BY <1>10, <1>11, <2>1, <2>2, <2>3, <2>4, <2>5, <2>6, <2>7, <2>8, <2>9
<1>12. ASSUME isIdle, NEW s \in ServiceTimes,
              running' = [i \in DOMAIN running \cup {j} |-> IF i = j THEN s ELSE updateJobTimes[i]],
              owed' = [owed EXCEPT ![j] = s],
              endIn' = scheduleNextCompletion(running'), elapsed' = 0, Request(running', <<>>),
              UNCHANGED <<left, crashed>>
       PROVE  ServerIndInv'
  <2> DEFINE D == Running \cup {j}
  <2>1. s \in Nat \ {0} BY AppServerAssumption
  <2>2. j \notin Running
    <3>1. InTransit = {e.job : e \in ToSet(fes)} \ {0} BY OfMessages DEF InTransit
    <3>2. j \in InTransit BY <1>3, <1>4, <3>1, JobsArePositive
    <3> QED BY <1>1, <3>2 DEF JobsInv, Apart
  <2>3. \A i \in Running : updateJobTimes[i] = owed[i] /\ owed[i] \in Nat /\ i \in Jobs
    BY <1>1 DEF SharingInv, ServerTypes
  <2>4. /\ Running' = D /\ running' \in [D -> Nat]
        /\ owed' \in [Jobs -> Nat] /\ \A i \in D : running'[i] = owed'[i] /\ owed'[i] > 0
    <3>1. owed \in [Jobs -> Nat] BY <1>1 DEF ServerTypes
    <3>2. owed' \in [Jobs -> Nat] /\ owed'[j] = s /\ \A i \in Running : owed'[i] = owed[i]
      BY <1>4, <1>12, <2>1, <2>2, <2>3, <3>1
    <3>3. DOMAIN running' = D /\ running'[j] = s /\ \A i \in Running : running'[i] = owed[i]
      BY <1>12, <2>2, <2>3 DEF Running
    <3>4. running' = [i \in D |-> running'[i]] BY <1>12 DEF Running
    <3>5. \A i \in D : running'[i] \in Nat BY <2>1, <2>3, <3>3
    <3>6. running' \in [D -> Nat] BY <3>4, <3>5
    <3>7. \A i \in Running : owed[i] > 0 BY <1>7
    <3> QED BY <2>1, <3>2, <3>3, <3>6, <3>7 DEF Running
  <2>5. IsFiniteSet(D) /\ D # {} /\ Cardinality(D) = Cardinality(Running) + 1
    BY <1>5, <2>2, FS_AddElement
  <2>6. Free' = Free - 1 /\ Free > 0 /\ Free \in Int
    BY <1>2, <1>5, <1>12, <2>4, <2>5 DEF Free, isIdle, Running
  <2>7. /\ endIn' \in Nat
        /\ \A i \in D : updateJobTimes'[i] = owed'[i]
        /\ endIn' = Min({owed'[i] : i \in D}) * Cardinality(D)
        /\ \E k \in Nat : elapsed' = k * Cardinality(D)
    <3>1. PICK rr : rr = running' OBVIOUS
    <3>2. PICK oo : oo = owed' OBVIOUS
    <3>3. rr \in [D -> Nat] /\ (\A i \in D : rr[i] = oo[i]) /\ endIn' = scheduleNextCompletion(rr)
      BY <1>12, <2>4, <3>1, <3>2
    <3> HIDE DEF D
    <3>4. /\ endIn' \in Nat
          /\ \A i \in D : updateJobTimes'[i] = oo[i]
          /\ endIn' = Min({oo[i] : i \in D}) * Cardinality(D)
          /\ \E k \in Nat : elapsed' = k * Cardinality(D)
      <4>1. /\ rr \in [D -> Nat] /\ (\A i \in D : rr[i] = oo[i]) /\ IsFiniteSet(D) /\ D # {}
            /\ running' = rr /\ elapsed' = 0 /\ endIn' = scheduleNextCompletion(rr)
            /\ oo \in [Jobs -> Nat]
        BY <1>12, <2>4, <3>2, <2>5, <3>1, <3>3
      <4> QED BY <4>1, Charged
    <3> QED BY <3>2, <3>4
  <2>8. SharingInv'
    <3>1. \A i \in Jobs \ D : owed'[i] = 0
      <4>1. owed \in [Jobs -> Nat] /\ \A i \in Jobs \ Running : owed[i] = 0
        BY <1>1 DEF ServerTypes, SharingInv
      <4> QED BY <1>12, <4>1
    <3> QED BY <2>4, <2>7, <3>1 DEF SharingInv
  <2>9. Running' # {} /\ endIn' # -1 /\ Free' >= 0 /\ Free' <= Free BY <2>4, <2>5, <2>6, <2>7
  <2>10. endIn' \in Nat \cup {-1} /\ elapsed' \in Nat BY <1>12, <2>7
  <2> HIDE DEF D
  <2>11. Running' = Running \cup {j} /\ running' \in [Running' -> Nat] BY <2>4 DEF D
  <2> QED BY <1>10, <1>12, <2>4, <2>8, <2>9, <2>10, <2>11
<1> QED BY <1>4, <1>9, <1>11, <1>12 DEF JobArrives

-----------------------------------------------------------------------------
(* Removal                                                                 *)

LEMMA RemoveServerInd == ASSUME ServerIndInv, RemoveServer PROVE ServerIndInv'
<1>1. ServerTypes /\ MessagesInv /\ JobsInv /\ ThreadsInv /\ SharingInv /\ OrderInv BY DEF ServerIndInv
<1>2. /\ fes = <<>> /\ ~crashed /\ connected' = FALSE
      /\ UNCHANGED <<maxThreads, timeout, bursts, next, elsewhere, queue, running, endIn, elapsed, owed,
                     queueing, left, deleted, crashed>>
  BY DEF RemoveServer, sourceVars, config, serverVars
<1>3. \/ fes' = <<>>
      \/ fes' = <<completeRemoveMsg>> /\ Running = {} /\ queue = <<>>
  BY DEF RemoveServer, isEmpty, Running
<1>4. /\ fes' \in Seq(Events) /\ Distinct(fes') /\ ToSet(fes') \subseteq {completeRemoveMsg}
      /\ ToSet(fes) = {} /\ Len(fes') <= 1 /\ Len(fes') \in Nat
  <2>1. completeRemoveMsg \in Events /\ endExecutionMsg \in Events /\ completeRemoveMsg # endExecutionMsg
    BY Modules
  <2>2. <<>> \in Seq(Events) /\ Distinct(<<>>) /\ ToSet(<<>>) = {} BY <2>1, Few
  <2>3. /\ <<completeRemoveMsg>> \in Seq(Events) /\ Distinct(<<completeRemoveMsg>>)
        /\ ToSet(<<completeRemoveMsg>>) = {completeRemoveMsg}
    BY <2>1, Single
  <2>4. Len(<<>>) = 0 /\ Len(<<completeRemoveMsg>>) = 1 BY Literals
  <2>5. CASE fes' = <<>> BY <1>2, <2>2, <2>4, <2>5
  <2>6. CASE fes' = <<completeRemoveMsg>> BY <1>2, <2>2, <2>3, <2>4, <2>6
  <2> QED BY <1>3, <2>5, <2>6
<1>5. completeRemoveMsg \in ToSet(fes') => Running = {} /\ queue = <<>>
  <2>1. ToSet(<<>>) = {} BY <1>2, <1>4
  <2> QED BY <1>3, <2>1
<1>6. Running' = Running /\ Free' = Free BY <1>2 DEF Running, Free
<1>7. ServerTypes' BY <1>1, <1>2, <1>4, <1>6 DEF ServerTypes
<1>8. MessagesInv' BY <1>1, <1>2, <1>4, <1>5, <1>6, Modules DEF MessagesInv, Pipeline
<1>9. InTransit' = {} /\ InTransit = {}
  <2>1. InTransit = {e.job : e \in ToSet(fes)} \ {0} /\ InTransit' = {e.job : e \in ToSet(fes')} \ {0}
    BY OfMessages DEF InTransit
  <2> QED BY <1>4, <2>1, Modules
<1>10. JobsInv' BY <1>1, <1>2, <1>6, <1>9 DEF JobsInv
<1>11. Requested = {} BY <1>4, RequestedIs
<1>12. ThreadsInv' BY <1>1, <1>2, <1>4, <1>11, ThreadsSame
<1>13. SharingInv' BY <1>1, <1>2, SharingSame
<1>14. OrderInv'
  <2>1. OneByOne' = OneByOne BY <1>2 DEF OneByOne
  <2>2. PICK n \in Nat : n = Len(fes') /\ n <= 1 BY <1>4
  <2>3. Len(fes') # 2 /\ Len(fes') <= IF Ties THEN 2 ELSE 1 BY <2>2
  <2> QED BY <1>1, <1>2, <1>4, <1>6, <2>1, <2>3, Modules DEF OrderInv, Pipeline
<1> QED BY <1>7, <1>8, <1>10, <1>12, <1>13, <1>14 DEF ServerIndInv

(* Nothing is under way to a module that is about to be deleted.           *)
LEMMA UndeletedIsTail ==
    ASSUME ServerTypes, MessagesInv, Take("executionManager")
    PROVE  Undeleted = Tail(fes) /\ Head(fes) = completeRemoveMsg /\ completeRemoveMsg \in ToSet(fes)
<1>1. /\ Head(fes) \in Events /\ Head(fes) \in ToSet(fes) /\ Head(fes).to = "executionManager"
      /\ fes # <<>> /\ Len(fes) \in Nat \ {0} /\ fes \in Seq(Events)
  BY TakenIs
<1>2. Head(fes) = completeRemoveMsg BY <1>1, Modules
<1>3. \A i \in 1..Len(fes) : ~(fes[i].to \in {"queue", "server"})
  <2>1. \A i \in 1..Len(fes) : fes[i] \in ToSet(fes) BY <1>1 DEF ToSet
  <2> QED BY <1>1, <1>2, <2>1 DEF MessagesInv
<1> DEFINE kept[i \in 1..Len(fes)] ==
               IF i = 1 THEN <<>>
               ELSE IF fes[i].to \in {"queue", "server"} THEN kept[i - 1] ELSE Append(kept[i - 1], fes[i])
           g == [i \in 1..Len(fes) |-> SubSeq(fes, 2, i)]
           Rule(f) == f = [i \in 1..Len(fes) |->
                              IF i = 1 THEN <<>>
                              ELSE IF fes[i].to \in {"queue", "server"} THEN f[i - 1]
                              ELSE Append(f[i - 1], fes[i])]
<1>4. SubSeq(fes, 2, 1) = <<>> BY SubSeqEmpty
<1>5. \A i \in 2..Len(fes) : SubSeq(fes, 2, i) = Append(SubSeq(fes, 2, i - 1), fes[i])
  <2>1. SUFFICES ASSUME NEW i \in 2..Len(fes)
                 PROVE  SubSeq(fes, 2, i) = Append(SubSeq(fes, 2, i - 1), fes[i])
    OBVIOUS
  <2>2. 2 \in 1..Len(fes) /\ i \in 2..Len(fes) /\ i \in Int /\ i - 1 \in Int BY <1>1
  <2>3. SubSeq(fes, 2, i) = SubSeq(fes, 2, i - 1) \o <<fes[i]>> BY <1>1, <2>2, SubSeqRecursiveSecond
  <2>4. SubSeq(fes, 2, i - 1) \in Seq(Events) /\ fes[i] \in Events
    <3>1. \A k \in 1..Len(fes) : fes[k] \in Events BY <1>1
    <3>2. \A k \in 2..(i - 1) : fes[k] \in Events BY <1>1, <2>2, <3>1
    <3>3. SubSeq(fes, 2, i - 1) \in Seq(Events) BY <2>2, <3>2, SubSeqProperties
    <3> QED BY <1>1, <2>2, <3>1, <3>3
  <2>5. Append(SubSeq(fes, 2, i - 1), fes[i]) = SubSeq(fes, 2, i - 1) \o <<fes[i]>>
    BY <2>4, AppendIsConcat
  <2> QED BY <2>3, <2>5
<1>6. Rule(g)
  <2>1. ASSUME NEW i \in 1..Len(fes)
        PROVE  g[i] = IF i = 1 THEN <<>>
                      ELSE IF fes[i].to \in {"queue", "server"} THEN g[i - 1]
                      ELSE Append(g[i - 1], fes[i])
    <3>1. CASE i = 1 BY <1>1, <1>4, <3>1
    <3>2. CASE i # 1
      <4>1. i \in 2..Len(fes) /\ i - 1 \in 1..Len(fes) BY <1>1, <3>2
      <4>2. g[i] = SubSeq(fes, 2, i) /\ g[i - 1] = SubSeq(fes, 2, i - 1) BY <4>1
      <4>3. ~(fes[i].to \in {"queue", "server"}) BY <1>3
      <4> QED BY <1>5, <3>2, <4>1, <4>2, <4>3
    <3> QED BY <3>1, <3>2
  <2> QED BY <2>1
<1>7. Rule(kept) BY <1>6
<1>8. Undeleted = kept[Len(fes)] BY DEF Undeleted
<1> HIDE DEF kept
<1>9. \A n \in Nat : n + 1 <= Len(fes) => kept[n + 1] = SubSeq(fes, 2, n + 1)
  <2> DEFINE T == {n \in Nat : n + 1 <= Len(fes) => kept[n + 1] = SubSeq(fes, 2, n + 1)}
  <2>1. 0 \in T
    <3>1. 1 \in 1..Len(fes) /\ 0 + 1 = 1 BY <1>1
    <3>2. kept[1] = <<>> BY <1>7, <3>1
    <3> QED BY <1>4, <3>1, <3>2
  <2>2. ASSUME NEW n \in Nat, n \in T PROVE n + 1 \in T
    <3>1. SUFFICES ASSUME (n + 1) + 1 <= Len(fes) PROVE kept[(n + 1) + 1] = SubSeq(fes, 2, (n + 1) + 1)
      OBVIOUS
    <3>2. PICK i \in 2..Len(fes) : i = (n + 1) + 1 /\ i - 1 = n + 1 /\ i # 1 /\ i \in 1..Len(fes)
      BY <1>1, <3>1
    <3>3. n + 1 <= Len(fes) BY <1>1, <3>1
    <3>4. kept[i - 1] = SubSeq(fes, 2, i - 1) BY <2>2, <3>2, <3>3
    <3>5. kept[i] = IF fes[i].to \in {"queue", "server"} THEN kept[i - 1] ELSE Append(kept[i - 1], fes[i])
      BY <1>7, <3>2
    <3>6. kept[i] = Append(SubSeq(fes, 2, i - 1), fes[i]) BY <1>3, <3>2, <3>4, <3>5
    <3> QED BY <1>5, <3>2, <3>6
  <2>3. \A n \in Nat : n \in T => n + 1 \in T BY <2>2
  <2> HIDE DEF T
  <2>4. Nat \subseteq T BY <2>1, <2>3, Upwards
  <2> QED BY <2>4 DEF T
<1>10. kept[Len(fes)] = SubSeq(fes, 2, Len(fes))
  <2>1. PICK n \in Nat : n + 1 = Len(fes)
    <3>1. Len(fes) - 1 \in Nat /\ (Len(fes) - 1) + 1 = Len(fes) BY <1>1
    <3> QED BY <3>1
  <2>2. n + 1 <= Len(fes) BY <1>1, <2>1
  <2> QED BY <1>9, <2>1, <2>2
<1>11. Tail(fes) = SubSeq(fes, 2, Len(fes)) BY <1>1, TailIsSubSeq
<1> QED BY <1>1, <1>2, <1>8, <1>10, <1>11

LEMMA CompleteRemoveInd == ASSUME ServerIndInv, CompleteRemove PROVE ServerIndInv'
<1>1. ServerTypes /\ MessagesInv /\ JobsInv /\ ThreadsInv /\ SharingInv /\ OrderInv BY DEF ServerIndInv
<1>2. /\ Take("executionManager") /\ deleted' = TRUE /\ queue' = <<>> /\ running' = <<>> /\ endIn' = -1
      /\ fes' = Undeleted
      /\ UNCHANGED <<maxThreads, timeout, bursts, next, elsewhere, elapsed, owed, queueing, left,
                     connected, crashed>>
  BY DEF CompleteRemove, sourceVars, config
<1>3. Undeleted = Tail(fes) /\ Head(fes) = completeRemoveMsg /\ completeRemoveMsg \in ToSet(fes)
  BY <1>1, <1>2, UndeletedIsTail
<1>4. ~connected /\ Running = {} /\ queue = <<>> BY <1>1, <1>3 DEF MessagesInv
<1>5. Running' = {} /\ running' \in [Running' -> Nat]
  <2>1. DOMAIN <<>> = {} /\ <<>> = [i \in {} |-> 0] OBVIOUS
  <2> QED BY <1>2, <2>1 DEF Running
<1>6. /\ fes # <<>> /\ Len(fes) \in Nat \ {0}
      /\ fes' \in Seq(Events) /\ Distinct(fes') /\ Len(fes') = Len(fes) - 1
      /\ ToSet(fes') = (ToSet(fes) \ {Head(fes)}) \cup {}
  <2>1. fes \in Seq(Events) /\ fes # <<>> /\ Distinct(fes) BY <1>1, <1>2 DEF ServerTypes, MessagesInv, Take
  <2> QED BY <1>2, <1>3, <2>1, HeadAndTail
<1>7. \A e \in ToSet(fes') : e \in ToSet(fes) /\ e # completeRemoveMsg BY <1>3, <1>6
<1>8. ServerTypes'
  <2>1. <<>> \in Seq(Jobs) OBVIOUS
  <2> QED BY <1>1, <1>2, <1>5, <1>6, <2>1 DEF ServerTypes
<1>9. endExecutionMsg \notin ToSet(fes) BY <1>1, <1>2, NoEndBehind
<1>10. MessagesInv' BY <1>1, <1>2, <1>6, <1>7, <1>9 DEF MessagesInv
<1>11. InTransit' = InTransit
  <2>1. InTransit' = (InTransit \ {Head(fes).job}) \cup ({e.job : e \in {}} \ {0})
    BY <1>1, <1>6, TransitAfter
  <2>2. {e.job : e \in {}} \ {0} = {} /\ Head(fes).job = 0 /\ 0 \notin InTransit
    BY <1>3, Modules DEF InTransit
  <2> QED BY <2>1, <2>2
<1>12. JobsInv' BY <1>1, <1>2, <1>4, <1>5, <1>11 DEF JobsInv
<1>13. ThreadsInv'
  <2>1. Cardinality({}) = 0 BY FS_EmptySet
  <2>2. maxThreads \in Nat BY <1>1, ThreadCount
  <2> QED BY <1>2, <1>5, <2>1, <2>2 DEF ThreadsInv, Free
<1>14. SharingInv' BY <1>1, <1>2, <1>4, <1>5 DEF SharingInv
<1>15. OrderInv'
  <2> SUFFICES ASSUME OneByOne' PROVE OrderInv' BY DEF OrderInv
  <2>1. OneByOne /\ ~crashed' BY <1>2 DEF OneByOne, Take
  <2>2. Len(fes') < 2 /\ Len(fes') <= IF Ties THEN 2 ELSE 1
    <3>1. PICK a \in Nat \ {0} : a = Len(fes) BY <1>6
    <3>2. Len(fes') = a - 1 /\ (a <= IF Ties THEN 2 ELSE 1) BY <1>1, <1>6, <2>1, <3>1 DEF OrderInv
    <3> QED BY <3>2
  <2>3. \A e \in ToSet(fes') : e.to # "server" BY <1>1, <1>3, <1>7 DEF MessagesInv
  <2>4. DOMAIN queue' = {} BY <1>2
  <2> QED BY <1>1, <1>2, <1>7, <2>1, <2>2, <2>3, <2>4 DEF OrderInv
<1> QED BY <1>8, <1>10, <1>12, <1>13, <1>14, <1>15 DEF ServerIndInv

-----------------------------------------------------------------------------
(* Time                                                                    *)

LEMMA TwoNumbers ==
    ASSUME NEW a \in Int, NEW b \in Int
    PROVE  /\ Max({a, b}) \in Int /\ Max({a, b}) >= a /\ Max({a, b}) >= b
           /\ Min({a, b}) \in {a, b} /\ Min({a, b}) <= a /\ Min({a, b}) <= b
<1>1. \E x \in {a, b} : \A y \in {a, b} : x >= y
  <2>1. CASE a >= b BY <2>1
  <2>2. CASE b >= a BY <2>2
  <2> QED BY <2>1, <2>2
<1>2. \E x \in {a, b} : \A y \in {a, b} : x <= y
  <2>1. CASE a >= b BY <2>1
  <2>2. CASE b >= a BY <2>2
  <2> QED BY <2>1, <2>2
<1>3. Max({a, b}) \in {a, b} /\ \A y \in {a, b} : Max({a, b}) >= y BY <1>1 DEF Max
<1>4. Min({a, b}) \in {a, b} /\ \A y \in {a, b} : Min({a, b}) <= y BY <1>2 DEF Min
<1> QED BY <1>3, <1>4

(* The least of what is owed falls by the share that all get.              *)
LEMMA LeastFalls ==
    ASSUME NEW O \in SUBSET Nat, NEW P \in SUBSET Nat, NEW c \in Nat, O # {}, c <= Min(O),
           \A x \in O : x - c \in P, \A y \in P : \E x \in O : y = x - c
    PROVE  Min(P) = Min(O) - c
<1>1. PICK m \in O : m = Min(O) /\ \A y \in O : m <= y BY LeastNumber
<1>2. m - c \in P /\ m \in Nat BY <1>1
<1>3. PICK l \in P : l = Min(P) /\ \A y \in P : l <= y BY <1>2, LeastNumber
<1>4. PICK x \in O : l = x - c BY <1>3
<1>5. l <= m - c /\ m <= x /\ l \in Nat /\ x \in Nat BY <1>1, <1>2, <1>3, <1>4
<1>6. l = m - c BY <1>2, <1>4, <1>5
<1> QED BY <1>1, <1>3, <1>6

LEMMA Multiples ==
    ASSUME NEW n \in Nat \ {0}, NEW a \in Int, NEW b \in Int
    PROVE  /\ (a < b) <=> (a * n < b * n)
           /\ (a = b) <=> (a * n = b * n)
           /\ a * n + b * n = (a + b) * n /\ a * n - b * n = (a - b) * n
           /\ a * n \in Int
<1>1. ASSUME NEW x \in Int, NEW y \in Int, x < y PROVE x * n < y * n
  <2>1. PICK d \in Nat \ {0} : y = x + d
    <3>1. y - x \in Nat \ {0} /\ y = x + (y - x) BY <1>1
    <3> QED BY <3>1
  <2>2. y * n = x * n + d * n /\ x * n \in Int BY <2>1
  <2>3. d * n \in Nat \ {0}
    <3>1. d * n \in Int /\ d >= 1 /\ n >= 1 OBVIOUS
    <3>2. d * n = (d - 1) * n + n /\ (d - 1) \in Nat BY <2>1
    <3>3. (d - 1) * n \in Nat BY <3>2
    <3> QED BY <3>1, <3>2, <3>3
  <2> QED BY <2>2, <2>3
<1>2. a * n \in Int /\ b * n \in Int OBVIOUS
<1>3. a < b \/ a = b \/ b < a OBVIOUS
<1>4. a < b => a * n < b * n BY <1>1
<1>5. b < a => b * n < a * n BY <1>1
<1>6. a * n + b * n = (a + b) * n /\ a * n - b * n = (a - b) * n OBVIOUS
<1> QED BY <1>2, <1>3, <1>4, <1>5, <1>6

(* What running jobs get of t units of time, which is whole: the jobs that *)
(* run share them equally.                                                 *)
LEMMA SharesOfTime ==
    ASSUME ServerTypes, SharingInv, Running # {}, NEW t \in Nat \ {0}, endIn # -1, t <= endIn,
           t = endIn \/ (t % Cardinality(Running) = 0)
    PROVE  \E n \in Nat \ {0}, k \in Nat, c \in Nat \ {0} :
              /\ n = Cardinality(Running) /\ elapsed = k * n /\ t = c * n /\ t \div n = c
              /\ elapsed + t = (k + c) * n
              /\ \A j \in Running : /\ owed[j] \in Nat /\ owed[j] - c \in Nat
                                    /\ running[j] - (k + c) = owed[j] - c
                                    /\ t < endIn => owed[j] - c > 0
                                    /\ running[j] \in Nat /\ j \in Jobs
              /\ \A p \in [Jobs -> Nat] : (\A j \in Running : p[j] = owed[j] - c)
                           => endIn - t = Min({p[j] : j \in Running}) * n
<1>1. PICK n \in Nat \ {0} : n = Cardinality(Running) BY ThreadCount
<1>2. PICK k \in Nat : elapsed = k * n BY <1>1 DEF SharingInv
<1>3. elapsed \div n = k BY <1>2, WholeShares
<1> DEFINE D == Running
           o == [j \in D |-> owed[j]]
           M == Min({o[j] : j \in D})
<1>4. \A j \in D : owed[j] \in Nat /\ running[j] \in Nat /\ j \in Jobs BY DEF ServerTypes
<1>5. \A j \in D : owed[j] = running[j] - k
  <2>1. \A j \in D : updateJobTimes[j] = running[j] - elapsed \div n BY <1>1 DEF updateJobTimes, Running
  <2> QED BY <1>3, <2>1 DEF SharingInv
<1>6. o \in [D -> Nat] /\ \A j \in D : o[j] = owed[j] BY <1>4
<1>7. {owed[j] : j \in D} = {o[j] : j \in D} BY <1>6
<1>8. M \in {o[j] : j \in D} /\ M \in Nat
  <2>1. {o[j] : j \in D} \subseteq Nat /\ {o[j] : j \in D} # {} BY <1>6
  <2> QED BY <2>1, LeastNumber
<1>9. endIn = M * n BY <1>1, <1>7 DEF SharingInv
<1> HIDE DEF D, o
<1>10. PICK m \in Nat : m = M BY <1>8
<1>11. PICK c \in Nat \ {0} : t = c * n /\ c <= m /\ (t < endIn => c < m)
  <2>1. PICK c \in Int : t = c * n
    <3>1. CASE t = endIn
      <4>1. m \in Int /\ t = m * n BY <1>9, <1>10, <3>1
      <4> QED BY <4>1
    <3>2. CASE t % n = 0
      <4>1. t = n * (t \div n) + (t % n) /\ t \div n \in Int BY SMT
      <4>2. t = (t \div n) * n BY <3>2, <4>1
      <4> QED BY <4>1, <4>2
    <3> QED BY <1>1, <3>1, <3>2
  <2>2. 0 * n = 0 /\ 0 \in Int OBVIOUS
  <2>3. c > 0
    <3>1. 0 * n < c * n BY <2>1, <2>2
    <3> QED BY <2>2, <3>1, Multiples
  <2>4. ~(m < c)
    <3>1. ~(m * n < c * n)
      <4>1. m * n \in Int BY <1>10
      <4> QED BY <1>9, <1>10, <2>1, <4>1
    <3> QED BY <3>1, Multiples
  <2>5. t < endIn => c < m
    <3>1. t < endIn => c * n < m * n BY <1>9, <1>10, <2>1
    <3> QED BY <3>1, Multiples
  <2> QED BY <2>1, <2>3, <2>4, <2>5
<1>12. t \div n = c BY <1>11, WholeShares
<1>13. elapsed + t = (k + c) * n BY <1>2, <1>11, Multiples
<1>14. ASSUME NEW j \in D
       PROVE  /\ owed[j] - c \in Nat
              /\ running[j] - (k + c) = owed[j] - c
              /\ t < endIn => owed[j] - c > 0
  <2>1. o[j] \in {o[i] : i \in D} OBVIOUS
  <2>2. {o[i] : i \in D} \subseteq Nat /\ {o[i] : i \in D} # {} BY <1>6
  <2>3. M <= o[j] BY <2>1, <2>2, LeastNumber
  <2>4. PICK r \in Nat, w \in Nat : r = running[j] /\ w = owed[j] BY <1>4
  <2>5. m <= w /\ w = r - k BY <1>5, <1>6, <1>10, <2>3, <2>4
  <2>6. w - c \in Nat /\ r - (k + c) = w - c /\ (t < endIn => w - c > 0) BY <1>11, <2>5
  <2> QED BY <2>4, <2>6
<1>15. ASSUME NEW p \in [Jobs -> Nat], \A j \in D : p[j] = owed[j] - c
       PROVE  endIn - t = Min({p[j] : j \in D}) * n
  <2>1. \A j \in D : p[j] = o[j] - c BY <1>6, <1>15
  <2>2. c <= Min({o[j] : j \in D}) /\ D # {} BY <1>10, <1>11 DEF D
  <2>3. PICK O : O = {o[j] : j \in D} OBVIOUS
  <2>4. PICK P : P = {p[j] : j \in D} OBVIOUS
  <2>5. /\ O \in SUBSET Nat /\ P \in SUBSET Nat /\ O # {} /\ c <= Min(O)
        /\ \A x \in O : x - c \in P
        /\ \A y \in P : \E x \in O : y = x - c
    <3>1. O \in SUBSET Nat /\ O # {} BY <1>6, <2>2, <2>3
    <3>2. P \in SUBSET Nat BY <1>4, <1>15, <2>4
    <3>3. c <= Min(O) BY <2>2, <2>3
    <3>4. ASSUME NEW x \in O PROVE x - c \in P
      <4>1. PICK j \in D : x = o[j] BY <2>3
      <4> QED BY <2>1, <2>4, <4>1
    <3>5. ASSUME NEW y \in P PROVE \E x \in O : y = x - c
      <4>1. PICK j \in D : y = p[j] BY <2>4
      <4> QED BY <2>1, <2>3, <4>1
    <3> QED BY <3>1, <3>2, <3>3, <3>4, <3>5
  <2>6. Min(P) = Min(O) - c BY <2>5, LeastFalls
  <2>7. Min({p[j] : j \in D}) = m - c BY <1>10, <2>3, <2>4, <2>6
  <2>8. m * n - c * n = (m - c) * n BY Multiples
  <2> QED BY <1>9, <1>10, <1>11, <2>7, <2>8
<1>16. /\ n = Cardinality(Running) /\ elapsed = k * n /\ t = c * n /\ t \div n = c
       /\ elapsed + t = (k + c) * n
  BY <1>1, <1>2, <1>11, <1>12, <1>13
<1>17. \A j \in Running : /\ owed[j] \in Nat /\ owed[j] - c \in Nat
                          /\ running[j] - (k + c) = owed[j] - c
                          /\ t < endIn => owed[j] - c > 0
                          /\ running[j] \in Nat /\ j \in Jobs
  BY <1>4, <1>14 DEF D
<1>18. \A p \in [Jobs -> Nat] : (\A j \in Running : p[j] = owed[j] - c)
                           => endIn - t = Min({p[j] : j \in Running}) * n
  BY <1>15 DEF D
<1> HIDE DEF M
<1> WITNESS n \in Nat \ {0}, k \in Nat, c \in Nat \ {0}
<1> QED BY <1>16, <1>17, <1>18

LEMMA AdvanceInd ==
    ASSUME ServerIndInv, NEW t \in 1..Max({MaxGap, endIn}), AdvanceBy(t) PROVE ServerIndInv'
<1>1. ServerTypes /\ MessagesInv /\ JobsInv /\ ThreadsInv /\ SharingInv /\ OrderInv BY DEF ServerIndInv
<1>2. t \in Nat \ {0}
  <2>1. MaxGap \in Int /\ endIn \in Int BY <1>1, AppServerAssumption DEF ServerTypes
  <2>2. Max({MaxGap, endIn}) \in Int BY <2>1, TwoNumbers
  <2> QED BY <2>2
<1> DEFINE n == Cardinality(Running)
<1>3. PICK issued \in BOOLEAN, ends \in BOOLEAN :
        /\ ends <=> t = endIn
        /\ issued => next <= NumJobs /\ (n > 0 => t % n = 0 /\ elapsed % n = 0)
        /\ endIn # -1 => t <= endIn
        /\ issued \/ ends
        /\ issued /\ ends => Ties
        /\ fes' \in {<<newJobTimer>>, <<endExecutionMsg>>,
                     <<newJobTimer, endExecutionMsg>>, <<endExecutionMsg, newJobTimer>>}
        /\ ToSet(fes') = (IF issued THEN {newJobTimer} ELSE {}) \cup (IF ends THEN {endExecutionMsg} ELSE {})
        /\ endIn' = IF endIn = -1 \/ ends THEN -1 ELSE endIn - t
        /\ elapsed' = IF n = 0 THEN 0 ELSE elapsed + t
        /\ owed' = [j \in Jobs |-> IF j \in Running THEN owed[j] - t \div n ELSE owed[j]]
        /\ queueing' = Wait(t)
  BY DEF AdvanceBy, Running
<1>4. /\ fes = <<>> /\ ~crashed
      /\ UNCHANGED <<maxThreads, timeout, bursts, next, elsewhere, queue, running, left, connected,
                     deleted, crashed>>
  BY DEF AdvanceBy, sourceVars, config
<1>5. /\ n \in Nat /\ maxThreads \in Nat \ {0} /\ timeout \in Nat
      /\ (Running # {} => n \in Nat \ {0}) /\ (Running = {} => n = 0)
  BY <1>1, ThreadCount
<1> HIDE DEF n
<1>6. ToSet(fes) = {} /\ InTransit = {} /\ Requested = {}
  <2>1. ToSet(fes) = {} BY <1>4 DEF ToSet
  <2>2. InTransit = {e.job : e \in ToSet(fes)} \ {0} BY OfMessages DEF InTransit
  <2> QED BY <2>1, <2>2, RequestedIs
<1>7. Running' = Running /\ Free' = Free BY <1>4 DEF Running, Free
<1>8. /\ Running = {} => endIn = -1
      /\ Running # {} => endIn \in Nat \ {0} /\ endIn # -1
  <2>1. Running = {} => endIn = -1 BY <1>1 DEF ThreadsInv
  <2>2. Running # {} => endIn # -1 BY <1>1, <1>6 DEF ThreadsInv
  <2>3. endIn # -1 => endIn \in Nat /\ t <= endIn BY <1>1, <1>3 DEF ServerTypes
  <2> QED BY <1>2, <2>1, <2>2, <2>3
<1>9. /\ newJobTimer \in Events /\ endExecutionMsg \in Events /\ newJobTimer # endExecutionMsg
      /\ newJobTimer.to = "source" /\ endExecutionMsg.to = "self"
      /\ newJobTimer.job = 0 /\ endExecutionMsg.job = 0
      /\ completeRemoveMsg # newJobTimer /\ completeRemoveMsg # endExecutionMsg
  BY Modules
<1>10. /\ fes' \in Seq(Events) /\ Distinct(fes')
       /\ ToSet(fes') \subseteq {newJobTimer, endExecutionMsg}
       /\ newJobTimer \in ToSet(fes') => issued
       /\ endExecutionMsg \in ToSet(fes') <=> ends
       /\ Len(fes') \in Nat /\ Len(fes') <= 2 /\ (Len(fes') = 2 => issued /\ ends)
       /\ endExecutionMsg \in ToSet(fes') =>
             \/ fes'[1] = endExecutionMsg
             \/ fes'[1] = newJobTimer /\ Len(fes') >= 2 /\ fes'[2] = endExecutionMsg
  <2>1. ToSet(fes') \subseteq {newJobTimer, endExecutionMsg} BY <1>3
  <2>2. (newJobTimer \in ToSet(fes') => issued) /\ (endExecutionMsg \in ToSet(fes') <=> ends)
    BY <1>3, <1>9
  <2>3. CASE fes' = <<newJobTimer>>
    <3>1. <<newJobTimer>> \in Seq(Events) /\ Distinct(<<newJobTimer>>) /\ ToSet(<<newJobTimer>>) = {newJobTimer}
      BY <1>9, Single
    <3>2. Len(<<newJobTimer>>) = 1 BY Literals
    <3> QED BY <1>9, <2>1, <2>2, <2>3, <3>1, <3>2
  <2>4. CASE fes' = <<endExecutionMsg>>
    <3>1. <<endExecutionMsg>> \in Seq(Events) /\ Distinct(<<endExecutionMsg>>) BY <1>9, Single
    <3>2. Len(<<endExecutionMsg>>) = 1 /\ <<endExecutionMsg>>[1] = endExecutionMsg BY Literals
    <3> QED BY <1>9, <2>1, <2>2, <2>4, <3>1, <3>2
  <2>5. CASE fes' = <<newJobTimer, endExecutionMsg>>
    <3>1. /\ <<newJobTimer, endExecutionMsg>> \in Seq(Events) /\ Distinct(<<newJobTimer, endExecutionMsg>>)
          /\ ToSet(<<newJobTimer, endExecutionMsg>>) = {newJobTimer, endExecutionMsg}
      <4>1. PICK a \in Events, b \in Events : a = newJobTimer /\ b = endExecutionMsg /\ a # b BY <1>9
      <4>2. a # b BY <4>1
      <4>3. <<a, b>> \in Seq(Events) /\ Distinct(<<a, b>>) /\ ToSet(<<a, b>>) = {a, b} BY <4>2, Few
      <4> QED BY <4>1, <4>3
    <3>2. /\ Len(<<newJobTimer, endExecutionMsg>>) = 2
          /\ <<newJobTimer, endExecutionMsg>>[1] = newJobTimer
          /\ <<newJobTimer, endExecutionMsg>>[2] = endExecutionMsg
      OBVIOUS
    <3> QED BY <1>9, <2>1, <2>2, <2>5, <3>1, <3>2
  <2>6. CASE fes' = <<endExecutionMsg, newJobTimer>>
    <3>1. /\ <<endExecutionMsg, newJobTimer>> \in Seq(Events) /\ Distinct(<<endExecutionMsg, newJobTimer>>)
          /\ ToSet(<<endExecutionMsg, newJobTimer>>) = {endExecutionMsg, newJobTimer}
      <4>1. PICK a \in Events, b \in Events : a = endExecutionMsg /\ b = newJobTimer /\ a # b BY <1>9
      <4>2. a # b BY <4>1
      <4>3. <<a, b>> \in Seq(Events) /\ Distinct(<<a, b>>) /\ ToSet(<<a, b>>) = {a, b} BY <4>2, Few
      <4> QED BY <4>1, <4>3
    <3>2. /\ Len(<<endExecutionMsg, newJobTimer>>) = 2
          /\ <<endExecutionMsg, newJobTimer>>[1] = endExecutionMsg
      OBVIOUS
    <3> QED BY <1>9, <2>1, <2>2, <2>6, <3>1, <3>2
  <2> QED BY <1>3, <2>3, <2>4, <2>5, <2>6
<1>11. ends => endIn' = -1 /\ Running # {} BY <1>2, <1>3, <1>8
<1>12. /\ \A j \in Jobs : queueing'[j] \in 0..timeout
       /\ queueing' \in [Jobs -> 0..timeout]
       /\ \A j \in Jobs : j \notin ToSet(queue) => queueing'[j] = queueing[j]
  <2>1. queueing' = [j \in Jobs |->
               IF j \in ToSet(queue) THEN Min({queueing[j] + t, timeout}) ELSE queueing[j]]
    BY <1>3 DEF Wait
  <2>2. ASSUME NEW j \in Jobs PROVE queueing[j] \in 0..timeout /\ Min({queueing[j] + t, timeout}) \in 0..timeout
    <3>1. PICK q \in Nat : q = queueing[j] /\ q <= timeout BY <1>1, <1>5 DEF ServerTypes
    <3>2. q + t \in Int /\ timeout \in Int /\ q + t >= 0 BY <1>2, <1>5
    <3>3. /\ Min({q + t, timeout}) \in {q + t, timeout} /\ Min({q + t, timeout}) <= timeout
      BY <3>2, TwoNumbers
    <3>4. Min({q + t, timeout}) \in 0..timeout BY <1>5, <3>2, <3>3
    <3> QED BY <1>5, <3>1, <3>4
  <2> QED BY <2>1, <2>2
(* The jobs that run have their shares.                                    *)
<1>13. /\ elapsed' \in Nat /\ endIn' \in Nat \cup {-1} /\ owed' \in [Jobs -> Nat]
       /\ Running # {} /\ ~ends => endIn' # -1
       /\ SharingInv'
  <2>1. CASE Running = {}
    <3>1. owed \in [Jobs -> Nat] BY <1>1 DEF ServerTypes
    <3>2. owed' = owed BY <1>3, <2>1, <3>1
    <3>3. elapsed' = 0 /\ endIn' = -1 BY <1>3, <1>5, <1>8, <2>1
    <3>4. SharingInv' BY <1>1, <1>7, <2>1, <3>2, <3>3 DEF SharingInv
    <3> QED BY <2>1, <3>1, <3>2, <3>3, <3>4
  <2>2. CASE Running # {}
    <3>1. t = endIn \/ t % n = 0 BY <1>3, <1>5, <2>2
    <3>2. endIn # -1 /\ t <= endIn BY <1>3, <1>8, <2>2
    <3>3. PICK b \in Nat \ {0}, k \in Nat, c \in Nat \ {0} :
              /\ b = Cardinality(Running) /\ elapsed = k * b /\ t = c * b /\ t \div b = c
              /\ elapsed + t = (k + c) * b
              /\ \A j \in Running : /\ owed[j] \in Nat /\ owed[j] - c \in Nat
                                    /\ running[j] - (k + c) = owed[j] - c
                                    /\ t < endIn => owed[j] - c > 0
                                    /\ running[j] \in Nat /\ j \in Jobs
              /\ \A p \in [Jobs -> Nat] : (\A j \in Running : p[j] = owed[j] - c)
                           => endIn - t = Min({p[j] : j \in Running}) * b
      BY <1>1, <1>2, <2>2, <3>1, <3>2, SharesOfTime DEF n
    <3>4. b = n BY <3>3 DEF n
    <3>5. /\ owed' \in [Jobs -> Nat]
          /\ \A j \in Running : owed'[j] = owed[j] - c
          /\ \A j \in Jobs \ Running : owed'[j] = owed[j]
      <4>1. owed' = [j \in Jobs |-> IF j \in Running THEN owed[j] - c ELSE owed[j]]
        BY <1>3, <3>3, <3>4
      <4>2. \A j \in Jobs : owed[j] \in Nat BY <1>1 DEF ServerTypes
      <4> QED BY <3>3, <4>1, <4>2
    <3>6. elapsed' = (k + c) * n /\ k + c \in Nat BY <1>3, <1>5, <2>2, <3>3, <3>4
    <3>7. elapsed' \in Nat
      <4>1. elapsed \in Nat BY <1>1 DEF ServerTypes
      <4> QED BY <1>2, <1>3, <1>5, <2>2, <4>1
    <3>8. \A j \in Running : updateJobTimes'[j] = owed'[j]
      <4>1. ((k + c) * n) \div n = k + c BY <1>5, <2>2, <3>6, WholeShares
      <4>2. \A j \in Running : updateJobTimes'[j] = running[j] - elapsed' \div n
        BY <1>4, <1>7 DEF updateJobTimes, Running, n
      <4>3. elapsed' \div n = k + c BY <3>6, <4>1
      <4> QED BY <3>3, <3>5, <4>2, <4>3
    <3>9. endIn' = IF ends THEN -1 ELSE endIn - t BY <1>3, <3>2
    <3>10. ~ends => endIn' \in Nat \ {0} /\ t < endIn /\ endIn' = endIn - t
      BY <1>2, <1>3, <1>8, <2>2, <3>2, <3>9
    <3>11. ~ends => /\ endIn' = Min({owed'[j] : j \in Running}) * n
                    /\ \A j \in Running : owed'[j] > 0
      <4>1. PICK p : p = owed' OBVIOUS
      <4>2. endIn - t = Min({p[j] : j \in Running}) * b BY <3>3, <3>5, <4>1
      <4> QED BY <3>3, <3>4, <3>5, <3>10, <4>1, <4>2
    <3>12. SharingInv'
      <4>1. \A j \in Jobs \ Running : owed'[j] = 0 BY <1>1, <3>5 DEF SharingInv
      <4> QED BY <1>7, <3>6, <3>8, <3>9, <3>11, <4>1 DEF SharingInv, n
    <3> QED BY <3>5, <3>7, <3>9, <3>10, <3>12
  <2> QED BY <2>1, <2>2
<1>14. ServerTypes' BY <1>1, <1>4, <1>7, <1>10, <1>12, <1>13 DEF ServerTypes
<1>15. MessagesInv'
  <2>1. \A e, f \in ToSet(fes') : e.job = f.job /\ e.job # 0 => e = f BY <1>9, <1>10
  <2>2. newJobTimer \in ToSet(fes') => next' <= NumJobs BY <1>3, <1>4, <1>10
  <2>3. endExecutionMsg \in ToSet(fes') => endIn' = -1 /\ Running' # {} BY <1>7, <1>10, <1>11
  <2>4. \A e \in ToSet(fes') : e.to \in {"source", "self"} BY <1>9, <1>10
  <2>5. completeRemoveMsg \notin ToSet(fes') BY <1>9, <1>10
  <2>6. \A j \in Jobs : j >= next' => queueing'[j] = 0
    <3>1. SUFFICES ASSUME NEW j \in Jobs, j >= next PROVE queueing'[j] = 0 BY <1>4
    <3>2. next \in Nat /\ j \in Nat BY <1>1, JobsArePositive DEF ServerTypes
    <3>3. j \notin 1..(next - 1) BY <3>1, <3>2
    <3>4. j \notin ToSet(queue) BY <1>1, <3>3 DEF JobsInv
    <3> QED BY <1>1, <1>12, <3>1, <3>4 DEF MessagesInv
  <2> QED BY <1>10, <2>1, <2>2, <2>3, <2>4, <2>5, <2>6 DEF MessagesInv, Pipeline
<1>16. JobsInv'
  <2>1. InTransit' = {e.job : e \in ToSet(fes')} \ {0} BY OfMessages DEF InTransit
  <2>2. InTransit' = {} BY <1>9, <1>10, <2>1
  <2> QED BY <1>1, <1>4, <1>6, <1>7, <2>2 DEF JobsInv
<1>17. ThreadsInv' BY <1>1, <1>4, <1>6, <1>7, <1>8, <1>10, <1>11, <1>13, <1>3 DEF ThreadsInv
<1>18. OrderInv'
  <2> SUFFICES ASSUME OneByOne' PROVE OrderInv' BY DEF OrderInv
  <2>1. OneByOne /\ ~crashed' BY <1>4 DEF OneByOne
  <2>2. Len(fes') <= IF Ties THEN 2 ELSE 1
    <3>1. PICK a \in Nat : a = Len(fes') BY <1>10
    <3>2. a <= 2 /\ (a = 2 => Ties) BY <1>3, <1>10, <3>1
    <3> QED BY <3>1, <3>2
  <2>3. \A e \in ToSet(fes') : e = newJobTimer \/ e = endExecutionMsg BY <1>10
  <2>4. Len(fes') = 2 => fes'[1] \in ToSet(fes') /\ fes'[2] \in ToSet(fes')
    <3>1. Len(fes') = 2 => 1 \in DOMAIN fes' /\ 2 \in DOMAIN fes' BY <1>10
    <3> QED BY <3>1 DEF ToSet
  <2>5. Len(fes') = 2 => fes'[1].to \in {"source", "self"} /\ fes'[2].to \in {"source", "self"}
    BY <1>9, <2>3, <2>4
  <2> QED BY <1>1, <1>4, <1>9, <2>1, <2>2, <2>3, <2>5 DEF OrderInv, Pipeline
<1> QED BY <1>14, <1>15, <1>16, <1>17, <1>13, <1>18 DEF ServerIndInv

-----------------------------------------------------------------------------
(* What follows of a server                                                *)

LEMMA StepInd == ServerIndInv /\ [Next]_vars => ServerIndInv'
<1>1. ASSUME ServerIndInv, UNCHANGED vars PROVE ServerIndInv'
  <2>1. /\ UNCHANGED <<fes, maxThreads, timeout, bursts, next, elsewhere, queue, running, endIn, elapsed,
                       owed, queueing, left, connected, deleted, crashed>>
    BY <1>1 DEF vars, sourceVars, config, serverVars
  <2>2. Running' = Running /\ InTransit' = InTransit /\ Requested' = Requested /\ OneByOne' = OneByOne
        /\ updateJobTimes' = updateJobTimes
    BY <2>1 DEF Running, InTransit, Requested, OneByOne, updateJobTimes
  <2>3. Free' = Free BY <2>1, <2>2 DEF Free
  <2>4. ServerTypes' /\ MessagesInv' BY <1>1, <2>1, <2>2 DEF ServerIndInv, ServerTypes, MessagesInv
  <2>5. JobsInv' /\ ThreadsInv' BY <1>1, <2>1, <2>2, <2>3 DEF ServerIndInv, JobsInv, ThreadsInv
  <2>6. SharingInv' BY <1>1, <2>1, SharingSame DEF ServerIndInv
  <2>7. OrderInv' BY <1>1, <2>1, <2>2, <2>3 DEF ServerIndInv, OrderInv
  <2> QED BY <2>4, <2>5, <2>6, <2>7 DEF ServerIndInv
<1> QED BY <1>1, SourceInd, ArrivalMonitorInd, LoadBalancerInd, EnqueueInd, EndExecutionInd,
           JobArrivesInd, CompleteRemoveInd, RemoveServerInd, AdvanceInd
        DEF Next, Message, Advance

LEMMA AsManyAsLong ==
    ASSUME NEW S, NEW s \in Seq(S), Distinct(s)
    PROVE  IsFiniteSet(ToSet(s)) /\ Cardinality(ToSet(s)) = Len(s) /\ Len(s) \in Nat
<1>1. PICK n \in Nat : n = Len(s) /\ DOMAIN s = 1..n OBVIOUS
<1>2. s \in [1..n -> ToSet(s)] BY <1>1 DEF ToSet
<1>3. \A a, b \in 1..n : s[a] = s[b] => a = b BY <1>1 DEF Distinct
<1>4. \A t \in ToSet(s) : \E a \in 1..n : s[a] = t BY <1>1 DEF ToSet
<1>5. ExistsBijection(1..n, ToSet(s))
  BY <1>2, <1>3, <1>4 DEF ExistsBijection, Bijection, Injection, Surjection, IsInjective
<1>6. IsFiniteSet(1..n) /\ Cardinality(1..n) = n
  <2>1. IsFiniteSet(1..n) /\ Cardinality(1..n) = IF 1 > n THEN 0 ELSE n - 1 + 1 BY FS_Interval
  <2> QED BY <2>1
<1>7. IsFiniteSet(ToSet(s)) /\ Cardinality(ToSet(s)) = n BY <1>5, <1>6, FS_Bijection
<1> QED BY <1>1, <1>7

LEMMA ApartCounts ==
    ASSUME NEW A, NEW B, IsFiniteSet(A), IsFiniteSet(B), A \cap B = {}
    PROVE  /\ IsFiniteSet(A \cup B) /\ Cardinality(A) \in Nat /\ Cardinality(B) \in Nat
           /\ Cardinality(A \cup B) = Cardinality(A) + Cardinality(B)
<1>1. Cardinality(A) \in Nat /\ Cardinality(B) \in Nat BY FS_CardinalityType
<1>2. Cardinality({}) = 0 BY FS_EmptySet
<1>3. /\ IsFiniteSet(A \cup B)
      /\ Cardinality(A \cup B) = Cardinality(A) + Cardinality(B) - Cardinality(A \cap B)
  BY FS_Union
<1>4. Cardinality(A \cap B) = 0 BY <1>2
<1>5. PICK a \in Nat, b \in Nat : a = Cardinality(A) /\ b = Cardinality(B) BY <1>1
<1>6. Cardinality(A \cup B) = a + b - 0 BY <1>3, <1>4, <1>5
<1>7. a + b - 0 = a + b OBVIOUS
<1> QED BY <1>3, <1>5, <1>6, <1>7

LEMMA ServerInvOf == ServerIndInv => ServerInv
<1> SUFFICES ASSUME ServerIndInv PROVE ServerInv OBVIOUS
<1>1. ServerTypes /\ MessagesInv /\ JobsInv /\ ThreadsInv /\ SharingInv /\ OrderInv BY DEF ServerIndInv
<1>2. TypeOK
  <2>1. \A i \in DOMAIN fes : fes[i] \in Events BY <1>1 DEF ServerTypes
  <2>2. \A i \in DOMAIN queue : queue[i] \in Jobs BY <1>1 DEF ServerTypes
  <2>3. \A j \in DOMAIN running : running[j] \in Nat BY <1>1 DEF ServerTypes, Running
  <2>4. owed \in [Jobs -> Int] BY <1>1 DEF ServerTypes
  <2> QED BY <1>1, <2>1, <2>2, <2>3, <2>4 DEF ServerTypes, TypeOK, Running, Events
<1>3. NeverOverfull BY <1>1 DEF NeverOverfull, OrderInv
<1>4. NoThreadIdlesWhileJobsWait
  <2>1. SUFFICES ASSUME fes = <<>>, queue # <<>>, ~crashed PROVE Cardinality(Running) = maxThreads
    BY DEF NoThreadIdlesWhileJobsWait, Running
  <2>2. ToSet(fes) = {} BY <2>1 DEF ToSet
  <2>3. Requested = {} BY <2>2, RequestedIs
  <2>4. Free >= 0 /\ ~(Free > 0) BY <1>1, <2>1, <2>3 DEF ThreadsInv
  <2>5. maxThreads \in Nat /\ Cardinality(Running) \in Nat BY <1>1, ThreadCount
  <2> QED BY <2>4, <2>5 DEF Free
<1>5. SharesProcessor
  <2>1. \A j \in left : owed[j] = 0
    BY <1>1 DEF SharingInv, JobsInv, Apart, ServerTypes
  <2> QED BY <1>1, <2>1 DEF SharingInv, SharesProcessor, Running
<1>6. EveryJobAccountedFor
  <2>1. PICK m \in Nat : m = next - 1
    <3>1. next - 1 \in Nat BY <1>1, JobsArePositive DEF ServerTypes
    <3> QED BY <3>1
  <2>2. IsFiniteSet(1..m) /\ Cardinality(1..m) = m
    <3>1. IsFiniteSet(1..m) /\ Cardinality(1..m) = IF 1 > m THEN 0 ELSE m - 1 + 1 BY FS_Interval
    <3> QED BY <3>1
  <2> DEFINE Q == ToSet(queue)
  <2>3. 1..m = Q \cup Running \cup left \cup elsewhere \cup InTransit /\ Apart(Q, Running, left, elsewhere, InTransit)
    BY <1>1, <2>1 DEF JobsInv
  <2>4. IsFiniteSet(Q) /\ Cardinality(Q) = Len(queue) /\ Len(queue) \in Nat
    BY <1>1, AsManyAsLong DEF ServerTypes, JobsInv
  <2> HIDE DEF Q
  <2>5. IsFiniteSet(Running) /\ IsFiniteSet(left) /\ IsFiniteSet(elsewhere) /\ IsFiniteSet(InTransit)
    <3>1. Running \subseteq 1..m /\ left \subseteq 1..m /\ elsewhere \subseteq 1..m /\ InTransit \subseteq 1..m
      BY <2>3
    <3> QED BY <2>2, <3>1, FS_Subset
  <2> DEFINE A == Q \cup Running
             B == A \cup left
             C == B \cup elsewhere
  <2>6. A \cap left = {} /\ B \cap elsewhere = {} /\ C \cap InTransit = {} /\ Q \cap Running = {}
    BY <2>3 DEF Apart
  <2>7. /\ IsFiniteSet(A) /\ Cardinality(A) = Cardinality(Q) + Cardinality(Running)
        /\ Cardinality(Running) \in Nat
    BY <2>4, <2>5, <2>6, ApartCounts
  <2>8. C \cup InTransit = 1..m BY <2>3
  <2> HIDE DEF A
  <2>9. /\ IsFiniteSet(B) /\ Cardinality(B) = Cardinality(A) + Cardinality(left)
        /\ Cardinality(left) \in Nat
    BY <2>5, <2>6, <2>7, ApartCounts
  <2> HIDE DEF B
  <2>10. /\ IsFiniteSet(C) /\ Cardinality(C) = Cardinality(B) + Cardinality(elsewhere)
         /\ Cardinality(elsewhere) \in Nat
    BY <2>5, <2>6, <2>9, ApartCounts
  <2> HIDE DEF C
  <2>11. /\ Cardinality(C \cup InTransit) = Cardinality(C) + Cardinality(InTransit)
         /\ Cardinality(InTransit) \in Nat
    BY <2>5, <2>6, <2>10, ApartCounts
  <2>12. m = Len(queue) + Cardinality(Running) + Cardinality(left) + Cardinality(elsewhere)
             + Cardinality(InTransit)
    BY <2>2, <2>4, <2>7, <2>8, <2>9, <2>10, <2>11
  <2> QED BY <2>1, <2>3, <2>12 DEF EveryJobAccountedFor, Running, Q
<1> QED BY <1>2, <1>3, <1>4, <1>5, <1>6 DEF ServerInv

LEMMA ProbeStepIsServerStep == [ProbeNext]_allVars => [Next]_vars
BY DEF ProbeNext, Next, Message, Advance, allVars

LEMMA ServerIndHolds == ProbeSpec => []ServerIndInv
<1>1. ProbeInit => ServerIndInv BY InitInd DEF ProbeInit
<1>2. ServerIndInv /\ [ProbeNext]_allVars => ServerIndInv' BY StepInd, ProbeStepIsServerStep
<1> QED BY <1>1, <1>2, PTL DEF ProbeSpec

(* Of whatever trace, threads, timeout and service times: no request is    *)
(* lost or doubled, no thread idles beside a queue, the processor is       *)
(* shared in equal parts, and none is overbooked while requests come one   *)
(* by one (MTServer, PassiveQueue).                                        *)
THEOREM ServerHolds == Spec => []ServerInv
<1>1. Init => ServerIndInv BY InitInd
<1>2. Spec => []ServerIndInv BY <1>1, StepInd, PTL DEF Spec
<1> QED BY <1>2, ServerInvOf, PTL

LEMMA OrderStep ==
    ASSUME ServerIndInv, [Next]_vars, OneByOne, NEW j \in Running' \ Running,
           NEW i \in ToSet(queue) \cup Requested
    PROVE  i >= j
<1>1. ServerTypes /\ MessagesInv /\ OrderInv BY DEF ServerIndInv
<1>2. JobArrives
  <2>1. Running' \subseteq Running \/ JobArrives
    <3>1. CASE EndExecution
      <4>1. running' = Restrict(updateJobTimes, Running \ {k \in Running : updateJobTimes[k] = 0})
        BY <3>1 DEF EndExecution, Running
      <4>2. Running' \subseteq Running BY <4>1 DEF Running, Restrict
      <4> QED BY <4>2
    <3>2. CASE CompleteRemove
      <4>1. running' = <<>> /\ DOMAIN <<>> = {} BY <3>2 DEF CompleteRemove
      <4> QED BY <4>1 DEF Running
    <3>3. CASE Source \/ ArrivalMonitor \/ LoadBalancer \/ Enqueue \/ RemoveServer \/ UNCHANGED vars
      <4>1. running' = running
        BY <3>3 DEF Source, ArrivalMonitor, LoadBalancer, Enqueue, RemoveServer, vars, serverVars
      <4> QED BY <4>1 DEF Running
    <3>4. CASE Advance BY <3>4 DEF Advance, AdvanceBy, Running
    <3> QED BY <3>1, <3>2, <3>3, <3>4 DEF Next, Message
  <2> QED BY <2>1
<1>3. Take("server") BY <1>2 DEF JobArrives
<1>4. Head(fes) \in ToSet(fes) /\ Head(fes).to = "server" /\ Head(fes) \in Events BY <1>1, <1>3, TakenIs
<1>5. j = Head(fes).job BY <1>2 DEF JobArrives, Running, serverVars
<1>6. \A q \in ToSet(queue) : j < q BY <1>1, <1>4, <1>5 DEF OrderInv
<1>7. Requested = {j}
  <2>1. {e \in ToSet(fes) : e.to = "server"} = {Head(fes)} BY <1>1, <1>4 DEF OrderInv
  <2> QED BY <1>5, <2>1, RequestedIs
<1>8. j \in Nat /\ \A q \in ToSet(queue) : q \in Nat
  <2>1. j \in Jobs BY <1>4, <1>5, Modules
  <2>2. ToSet(queue) \subseteq Jobs BY <1>1, Elements DEF ServerTypes
  <2> QED BY <2>1, <2>2, JobsArePositive
<1> QED BY <1>6, <1>7, <1>8

(* Requests start in the order in which they were issued, while they come  *)
(* one by one (PassiveQueue::handleMessage passes some by the queue).      *)
THEOREM JobsStartInOrder == ProbeSpec => StartsInOrder
<1>1. ServerIndInv /\ [ProbeNext]_allVars =>
        [OneByOne => \A j \in DOMAIN running' \ DOMAIN running :
            \A i \in ToSet(queue) \cup Requested : i >= j]_vars
  BY OrderStep, ProbeStepIsServerStep DEF Running
<1> QED BY <1>1, ServerIndHolds, PTL DEF ProbeSpec, StartsInOrder

-----------------------------------------------------------------------------
(* The server as SwimPool sees it                                          *)

Completing == IF completeRemoveMsg \in ToSet(fes) THEN 1 ELSE 0
FreshRequested == \E j \in Requested : ~timedOut(j)

LEMMA CompletingIs ==
    ASSUME NEW f, Distinct(f)
    PROVE  Cardinality({i \in DOMAIN f : f[i] = completeRemoveMsg}) = IF completeRemoveMsg \in ToSet(f) THEN 1 ELSE 0
<1>1. CASE completeRemoveMsg \in ToSet(f)
  <2>1. PICK k \in DOMAIN f : f[k] = completeRemoveMsg BY <1>1 DEF ToSet
  <2>2. {i \in DOMAIN f : f[i] = completeRemoveMsg} = {k} BY <2>1 DEF Distinct
  <2> QED BY <1>1, <2>2, FS_Singleton
<1>2. CASE completeRemoveMsg \notin ToSet(f)
  <2>1. {i \in DOMAIN f : f[i] = completeRemoveMsg} = {} BY <1>2 DEF ToSet
  <2> QED BY <1>2, <2>1, FS_EmptySet
<1> QED BY <1>1, <1>2

LEMMA LoadIs ==
    /\ Load = "running" <=> (Running # {} \/ FreshRequested)
    /\ Load = "waiting" <=> (Running = {} /\ ~FreshRequested /\ Requested # {})
    /\ Load = "idle" <=> (Running = {} /\ Requested = {})
    /\ Load \in {"running", "waiting", "idle"}
BY DEF Load, FreshRequested, Running

(* The steps of ServerLoad, in terms of the server.                        *)
LEMMA ServerLoadSteps ==
    ASSUME Distinct(fes), Distinct(fes'), timeout' = timeout, timeout \in Nat,
           \/ UNCHANGED <<Load, connected, Completing, deleted>>
           \/ /\ connected /\ Load = "idle" /\ Load' = "running"
              /\ UNCHANGED <<connected, Completing, deleted>>
           \/ /\ Load = "running" /\ Load' = "idle"
              /\ Completing' = IF connected THEN Completing ELSE Completing + 1
              /\ UNCHANGED <<connected, deleted>>
           \/ /\ timeout > 0 /\ Load = "running" /\ Load' = "waiting"
              /\ UNCHANGED <<connected, Completing, deleted>>
           \/ /\ Load = "waiting" /\ Load' \in {"running", "idle"}
              /\ UNCHANGED <<connected, Completing, deleted>>
           \/ /\ connected /\ connected' = FALSE /\ Load # "waiting"
              /\ Completing' = Completing + (IF Load = "idle" THEN 1 ELSE 0)
              /\ UNCHANGED <<Load, deleted>>
           \/ /\ Completing = 1 /\ Completing' = 0 /\ deleted' = TRUE
              /\ UNCHANGED <<Load, connected>>
    PROVE  [Abstract!Next]_(Abstract!vars)
<1> DEFINE count == Cardinality({i \in DOMAIN fes : fes[i] = completeRemoveMsg})
           count1 == Cardinality({i \in DOMAIN fes' : fes'[i] = completeRemoveMsg})
           silent == timeout > 0
<1>1. count = Completing /\ count1 = Completing' BY CompletingIs DEF Completing
<1>2. silent' = silent /\ count' = count1 BY DEF completeRemoveMsg, ToJob
<1> HIDE DEF count, count1
<1>3. \/ UNCHANGED <<silent, Load, connected, count, deleted>>
      \/ /\ connected /\ Load = "idle" /\ Load' = "running"
         /\ UNCHANGED <<silent, connected, count, deleted>>
      \/ /\ Load = "running" /\ Load' = "idle"
         /\ count' = IF connected THEN count ELSE count + 1
         /\ UNCHANGED <<silent, connected, deleted>>
      \/ /\ silent /\ Load = "running" /\ Load' = "waiting"
         /\ UNCHANGED <<silent, connected, count, deleted>>
      \/ /\ Load = "waiting" /\ Load' \in {"running", "idle"}
         /\ UNCHANGED <<silent, connected, count, deleted>>
      \/ /\ connected /\ connected' = FALSE /\ Load # "waiting"
         /\ count' = count + (IF Load = "idle" THEN 1 ELSE 0)
         /\ UNCHANGED <<silent, Load, deleted>>
      \/ /\ count = 1 /\ count' = 0 /\ deleted' = TRUE
         /\ UNCHANGED <<silent, Load, connected>>
  BY <1>1, <1>2
<1> QED
  BY <1>3 DEF count, Abstract!vars, Abstract!Next, Abstract!Arrive, Abstract!TurnsIdle,
              Abstract!TurnsWaiting, Abstract!QueuedJobArrives, Abstract!Remove, Abstract!CompleteRemove

LEMMA SentBehind ==
    ASSUME NEW S, NEW s \in Seq(S), NEW x \in Seq(S)
    PROVE  s \o x \in Seq(S) /\ ToSet(s \o x) = ToSet(s) \cup ToSet(x)
<1>1. /\ s \o x \in Seq(S) /\ Len(s) \in Nat /\ Len(x) \in Nat
      /\ DOMAIN (s \o x) = 1..(Len(s) + Len(x)) /\ DOMAIN s = 1..Len(s) /\ DOMAIN x = 1..Len(x)
  OBVIOUS
<1>2. \A i \in 1..Len(s) : (s \o x)[i] = s[i] OBVIOUS
<1>3. \A i \in 1..Len(x) : (s \o x)[Len(s) + i] = x[i] OBVIOUS
<1>4. ASSUME NEW i \in 1..(Len(s) + Len(x)) PROVE (s \o x)[i] \in ToSet(s) \cup ToSet(x)
  <2>1. CASE i <= Len(s)
    <3>1. i \in 1..Len(s) BY <1>1, <2>1
    <3> QED BY <1>1, <1>2, <3>1 DEF ToSet
  <2>2. CASE ~(i <= Len(s))
    <3>1. i - Len(s) \in 1..Len(x) /\ Len(s) + (i - Len(s)) = i BY <1>1, <2>2
    <3> QED BY <1>1, <1>3, <3>1 DEF ToSet
  <2> QED BY <2>1, <2>2
<1>5. ToSet(s \o x) \subseteq ToSet(s) \cup ToSet(x) BY <1>1, <1>4 DEF ToSet
<1>6. ToSet(s) \subseteq ToSet(s \o x)
  <2>1. \A i \in 1..Len(s) : i \in 1..(Len(s) + Len(x)) BY <1>1
  <2> QED BY <1>1, <1>2, <2>1 DEF ToSet
<1>7. ToSet(x) \subseteq ToSet(s \o x)
  <2>1. \A i \in 1..Len(x) : Len(s) + i \in 1..(Len(s) + Len(x)) BY <1>1
  <2> QED BY <1>1, <1>3, <2>1 DEF ToSet
<1> QED BY <1>1, <1>5, <1>6, <1>7

(* A message is taken and another sent.                                    *)
LEMMA Sent ==
    ASSUME ServerTypes, MessagesInv, NEW m, Take(m), NEW e \in Events
    PROVE  ToSet(Append(Tail(fes), e)) = (ToSet(fes) \ {Head(fes)}) \cup {e}
<1>1. Tail(fes) \in Seq(Events) /\ ToSet(Tail(fes)) = ToSet(fes) \ {Head(fes)}
  BY HeadAndTail DEF ServerTypes, MessagesInv, Take
<1>2. PICK t \in Seq(Events) : t = Tail(fes) BY <1>1
<1>3. <<e>> \in Seq(Events) /\ ToSet(<<e>>) = {e} BY Single
<1>4. Append(t, e) = t \o <<e>> BY AppendIsConcat
<1>5. PICK x \in Seq(Events) : x = <<e>> BY <1>3
<1>6. ToSet(t \o x) = ToSet(t) \cup ToSet(x) BY SentBehind
<1> QED BY <1>1, <1>2, <1>3, <1>4, <1>5, <1>6

(* Nothing that ServerLoad sees of the messages has changed.               *)
LEMMA LooksTheSame ==
    ASSUME UNCHANGED <<maxThreads, timeout, running, queueing>>,
           \A e \in ToSet(fes') : e.to \in {"server", "executionManager"} => e \in ToSet(fes),
           \A e \in ToSet(fes) : e.to \in {"server", "executionManager"} => e \in ToSet(fes')
    PROVE  Load' = Load /\ Completing' = Completing
<1>1. {d \in ToSet(fes') : d.to = "server"} = {d \in ToSet(fes) : d.to = "server"} OBVIOUS
<1>2. Requested' = Requested
  <2>1. Requested' = {e.job : e \in {d \in ToSet(fes') : d.to = "server"}} BY OfMessages DEF Requested
  <2> QED BY <1>1, <2>1, RequestedIs
<1>3. Load' = Load BY <1>2 DEF Load, timedOut
<1>4. completeRemoveMsg \in ToSet(fes') <=> completeRemoveMsg \in ToSet(fes) BY Modules
<1> QED BY <1>3, <1>4 DEF Completing, completeRemoveMsg, ToJob

(* Before the queue: what is sent is no message to the server.             *)
LEMMA UpstreamSends ==
    ASSUME ServerIndInv, Source \/ ArrivalMonitor \/ LoadBalancer
    PROVE  \E X : /\ ToSet(fes') = (ToSet(fes) \ {Head(fes)}) \cup X
                  /\ \A e \in X : e.to \in {"source", "arrivalMonitor", "loadBalancer", "queue"}
<1>1. ServerTypes /\ MessagesInv BY DEF ServerIndInv
<1>3. PICK m \in {"source", "arrivalMonitor", "loadBalancer"} :
        /\ Take(m)
        /\ \/ m = "source" /\ Source
           \/ m = "arrivalMonitor" /\ ArrivalMonitor
           \/ m = "loadBalancer" /\ LoadBalancer
  BY DEF Source, ArrivalMonitor, LoadBalancer
<1>4. /\ Head(fes) \in Events /\ Head(fes).to = m /\ fes # <<>> /\ Tail(fes) \in Seq(Events)
  BY <1>1, <1>3, TakenIs
<1>5. ToSet(Tail(fes)) = ToSet(fes) \ {Head(fes)}
  BY <1>1, <1>4, HeadAndTail DEF ServerTypes, MessagesInv
<1>6. \E X : /\ ToSet(fes') = (ToSet(fes) \ {Head(fes)}) \cup X
             /\ \A e \in X : e.to \in {"source", "arrivalMonitor", "loadBalancer", "queue"}
  <2>1. CASE m = "source"
    <3>1. next \in Jobs
      <4>1. next <= NumJobs
        <5>1. newJobTimer \in ToSet(fes)
          <6>1. Head(fes) \in ToSet(fes) BY <1>1, <1>3, TakenIs
          <6> QED BY <1>4, <2>1, <6>1, Modules
        <5> QED BY <1>1, <5>1 DEF MessagesInv
      <4> QED BY <1>1, <4>1, JobsArePositive DEF ServerTypes, Jobs
    <3>2. PICK e0 \in Events : e0 = ToJob("arrivalMonitor", next) /\ e0.to = "arrivalMonitor"
      BY <3>1, Modules
    <3>3. PICK again : /\ again \in {<<>>, <<newJobTimer>>} /\ fes' = Tail(fes) \o again \o <<e0>>
      BY <1>3, <2>1, <3>2 DEF Source
    <3>4. again \in Seq(Events) /\ \A e \in ToSet(again) : e.to = "source"
      <4>1. /\ <<>> \in Seq(Events) /\ ToSet(<<>>) = {}
            /\ <<newJobTimer>> \in Seq(Events) /\ ToSet(<<newJobTimer>>) = {newJobTimer}
        <5>1. DOMAIN <<>> = {} OBVIOUS
        <5> QED BY <5>1, Modules, Single DEF ToSet
      <4>2. CASE again = <<>> BY <4>1, <4>2
      <4>3. CASE again = <<newJobTimer>> BY <4>1, <4>3, Modules
      <4> QED BY <3>3, <4>2, <4>3
    <3>5. PICK t \in Seq(Events) : t = Tail(fes) BY <1>4
    <3>6. PICK x \in Seq(Events) : x = <<e0>> /\ ToSet(x) = {e0} BY Single
    <3>7. t \o again \in Seq(Events) /\ ToSet(t \o again) = ToSet(t) \cup ToSet(again) BY <3>4, SentBehind
    <3>8. ToSet((t \o again) \o x) = ToSet(t \o again) \cup ToSet(x)
      <4>1. PICK u \in Seq(Events) : u = t \o again BY <3>7
      <4>2. ToSet(u \o x) = ToSet(u) \cup ToSet(x) BY SentBehind
      <4> QED BY <4>1, <4>2
    <3>9. ToSet(fes') = (ToSet(fes) \ {Head(fes)}) \cup (ToSet(again) \cup {e0})
      BY <1>5, <3>3, <3>5, <3>6, <3>7, <3>8
    <3>10. \A e \in ToSet(again) \cup {e0} : e.to \in {"source", "arrivalMonitor", "loadBalancer", "queue"}
      BY <3>2, <3>4
    <3> QED BY <3>9, <3>10
  <2>2. CASE m # "source"
    <3>1. PICK n \in {"loadBalancer", "queue"} :
             \/ fes' = Append(Tail(fes), ToJob(n, Head(fes).job))
             \/ fes' = Tail(fes)
      BY <1>3, <2>2 DEF ArrivalMonitor, LoadBalancer
    <3>2. CASE fes' = Tail(fes)
      <4>1. PICK X : X = {} OBVIOUS
      <4>2. ToSet(fes') = (ToSet(fes) \ {Head(fes)}) \cup X BY <1>5, <3>2, <4>1
      <4>3. \A e \in X : e.to \in {"source", "arrivalMonitor", "loadBalancer", "queue"} BY <4>1
      <4> QED BY <4>2, <4>3
    <3>3. CASE fes' = Append(Tail(fes), ToJob(n, Head(fes).job))
      <4>1. Head(fes).job \in Jobs BY <1>3, <1>4, <2>2, Modules
      <4>2. PICK e1 \in Events : e1 = ToJob(n, Head(fes).job) /\ e1.to = n BY <4>1, Modules
      <4>3. ToSet(fes') = (ToSet(fes) \ {Head(fes)}) \cup {e1} BY <1>1, <1>3, <3>3, <4>2, Sent
      <4> QED BY <4>2, <4>3
    <3> QED BY <3>1, <3>2, <3>3
  <2> QED BY <2>1, <2>2
<1> QED BY <1>6

(* Before the queue a request is no concern of the server.                 *)
LEMMA UpstreamLooksTheSame ==
    ASSUME ServerIndInv, Source \/ ArrivalMonitor \/ LoadBalancer
    PROVE  UNCHANGED <<timeout, Load, connected, Completing, deleted>>
<1>1. ServerTypes /\ MessagesInv BY DEF ServerIndInv
<1>2. UNCHANGED <<maxThreads, timeout, running, queueing, connected, deleted>>
  BY DEF Source, ArrivalMonitor, LoadBalancer, sourceVars, config, serverVars
<1>3. PICK m \in {"source", "arrivalMonitor", "loadBalancer"} : Take(m)
  BY DEF Source, ArrivalMonitor, LoadBalancer
<1>4. Head(fes).to = m BY <1>1, <1>3, TakenIs
<1>5. \E X : /\ ToSet(fes') = (ToSet(fes) \ {Head(fes)}) \cup X
             /\ \A e \in X : e.to \in {"source", "arrivalMonitor", "loadBalancer", "queue"}
  BY UpstreamSends
<1>6. Load' = Load /\ Completing' = Completing BY <1>2, <1>3, <1>4, <1>5, LooksTheSame
<1> QED BY <1>2, <1>6

LEMMA EnqueueLooks ==
    ASSUME ServerIndInv, Enqueue
    PROVE  /\ UNCHANGED <<timeout, connected, Completing, deleted>>
           /\ \/ UNCHANGED Load
              \/ connected /\ Load' = "running"
<1>1. ServerTypes /\ MessagesInv BY DEF ServerIndInv
<1>2. Take("queue") /\ UNCHANGED <<maxThreads, timeout, running, queueing, connected, deleted>>
  BY DEF Enqueue, sourceVars, config, serverVars
<1>3. /\ Head(fes) \in Events /\ Head(fes) \in ToSet(fes) /\ Head(fes).to = "queue"
      /\ fes # <<>> /\ Tail(fes) \in Seq(Events)
  BY <1>1, <1>2, TakenIs
<1>4. connected /\ queueing[Head(fes).job] = 0 /\ Head(fes).job \in Jobs
  BY <1>1, <1>3, Modules DEF MessagesInv, Pipeline
<1>5. CASE ~isIdle
  <2>1. fes' = Tail(fes) BY <1>5 DEF Enqueue
  <2>2. ToSet(fes') = ToSet(fes) \ {Head(fes)}
    BY <1>1, <1>3, <2>1, HeadAndTail DEF ServerTypes, MessagesInv
  <2>3. /\ \A e \in ToSet(fes') : e.to \in {"server", "executionManager"} => e \in ToSet(fes)
        /\ \A e \in ToSet(fes) : e.to \in {"server", "executionManager"} => e \in ToSet(fes')
    BY <1>3, <2>2
  <2>4. Load' = Load /\ Completing' = Completing BY <1>2, <2>3, LooksTheSame
  <2> QED BY <1>2, <2>4
<1>6. CASE isIdle
  <2>1. PICK e1 \in Events : /\ e1 = ToJob("server", Head(fes).job) /\ e1.to = "server"
                             /\ e1.job = Head(fes).job
    BY <1>4, Modules
  <2>2. fes' = Append(Tail(fes), e1) BY <1>6, <2>1 DEF Enqueue
  <2>3. ToSet(fes') = (ToSet(fes) \ {Head(fes)}) \cup {e1} BY <1>1, <1>2, <2>2, Sent
  <2>4. completeRemoveMsg \in ToSet(fes') <=> completeRemoveMsg \in ToSet(fes)
    BY <1>3, <2>1, <2>3, Modules
  <2>5. Completing' = Completing BY <2>4 DEF Completing, completeRemoveMsg, ToJob
  <2>6. Load' = "running"
    <3>1. Requested' = {e.job : e \in {d \in ToSet(fes') : d.to = "server"}} BY OfMessages DEF Requested
    <3>2. PICK j \in Jobs : j = Head(fes).job BY <1>4
    <3>3. j \in Requested' BY <2>1, <2>3, <3>1, <3>2
    <3>4. ~(timeout > 0 /\ queueing[j] >= timeout)
      <4>1. timeout \in Nat BY <1>1, ThreadCount
      <4> QED BY <1>4, <3>2, <4>1
    <3>5. ~(timeout' > 0 /\ queueing'[j] >= timeout') BY <1>2, <3>4
    <3> QED BY <3>3, <3>5 DEF Load, timedOut
  <2> QED BY <1>2, <1>4, <2>5, <2>6
<1> QED BY <1>5, <1>6

LEMMA EndExecutionLooks ==
    ASSUME ServerIndInv, EndExecution
    PROVE  /\ UNCHANGED <<timeout, connected, deleted>> /\ Load = "running"
           /\ \/ UNCHANGED <<Load, Completing>>
              \/ Load' = "idle" /\ Completing' = IF connected THEN Completing ELSE Completing + 1
              \/ timeout > 0 /\ Load' = "waiting" /\ UNCHANGED Completing
<1>1. ServerTypes /\ MessagesInv /\ JobsInv BY DEF ServerIndInv
<1>2. Take("self") /\ UNCHANGED <<maxThreads, timeout, queueing, connected, deleted>>
  BY DEF EndExecution, sourceVars, config
<1>3. Head(fes) \in ToSet(fes) /\ Head(fes) = endExecutionMsg
  <2>1. Head(fes) \in Events /\ Head(fes) \in ToSet(fes) /\ Head(fes).to = "self" BY <1>1, <1>2, TakenIs
  <2> QED BY <2>1, Modules
<1>4. Running # {} /\ \A e \in ToSet(fes) : e.to \in {"source", "self", "arrivalMonitor"}
  BY <1>1, <1>3 DEF MessagesInv
<1>5. completeRemoveMsg \notin ToSet(fes) BY <1>1, <1>2, NothingToRemove
<1>6. Load = "running" /\ Completing = 0 BY <1>4, <1>5, LoadIs DEF Completing
<1>7. PICK signals : /\ signals = IF Running' = {} THEN BusyFalse ELSE <<>>
                     /\ Request(running', signals)
  <2>1. DEFINE ended == {j \in Running : updateJobTimes[j] = 0}
               jobs  == Restrict(updateJobTimes, Running \ ended)
  <2>2. /\ running' = jobs
        /\ DOMAIN jobs # {} => Request(jobs, <<>>)
        /\ DOMAIN jobs = {} => Request(jobs, BusyFalse)
    BY DEF EndExecution, Running
  <2> HIDE DEF jobs
  <2> QED BY <2>2 DEF Running
<1>8. signals = <<>> \/ (signals = <<completeRemoveMsg>> /\ queue = <<>>) BY <1>7 DEF BusyFalse
<1>9. (Asked(running') /\ signals = <<>>) \/ NotAsked(running', signals)
  BY <1>1, <1>2, <1>7, <1>8, RequestDoes
<1>10. \A e \in Rest : e.to \notin {"server", "executionManager"} /\ e # completeRemoveMsg
  BY <1>4, <1>5 DEF Rest
<1>11. /\ ToSet(<<>>) = {} /\ ToSet(<<completeRemoveMsg>>) = {completeRemoveMsg}
  <2>1. DOMAIN <<>> = {} OBVIOUS
  <2> QED BY <2>1, Modules, Single DEF ToSet
<1>12. Requested' = {e.job : e \in {d \in ToSet(fes') : d.to = "server"}} BY OfMessages DEF Requested
<1>13. CASE Asked(running') /\ signals = <<>>
  <2>1. PICK q \in Jobs : q = queue[1] BY <1>13 DEF Asked
  <2>2. PICK e1 \in Events : e1 = ToJob("server", q) /\ e1.to = "server" /\ e1.job = q BY Modules
  <2>3. ToSet(fes') = Rest \cup {e1} BY <1>13, <2>1, <2>2 DEF Asked
  <2>4. Requested' = {q} BY <1>10, <1>12, <2>2, <2>3
  <2>5. completeRemoveMsg \notin ToSet(fes') BY <1>10, <2>2, <2>3, Modules
  <2>6. Completing' = 0 BY <2>5 DEF Completing, completeRemoveMsg, ToJob
  <2>7. Load' = "running" \/ (Load' = "waiting" /\ timeout > 0)
    <3>1. CASE timeout > 0 BY <2>4, <3>1 DEF Load
    <3>2. CASE ~(timeout > 0)
      <4>1. ~(timeout' > 0 /\ queueing'[q] >= timeout') BY <1>2, <3>2
      <4> QED BY <2>4, <4>1 DEF Load, timedOut
    <3> QED BY <3>1, <3>2
  <2> QED BY <1>2, <1>6, <2>6, <2>7
<1>14. CASE NotAsked(running', signals)
  <2>1. ToSet(fes') = Rest \cup ToSet(signals) BY <1>14 DEF NotAsked
  <2>2. Requested' = {}
    <3>1. \A e \in ToSet(signals) : e = completeRemoveMsg BY <1>8, <1>11
    <3>2. {d \in ToSet(fes') : d.to = "server"} = {} BY <1>10, <2>1, <3>1, Modules
    <3> QED BY <1>12, <3>2
  <2>3. completeRemoveMsg \in ToSet(fes') <=> signals = <<completeRemoveMsg>>
    <3>1. CASE signals = <<>>
      <4>1. <<>> # <<completeRemoveMsg>> OBVIOUS
      <4> QED BY <1>10, <1>11, <2>1, <3>1, <4>1
    <3>2. CASE signals = <<completeRemoveMsg>> BY <1>10, <1>11, <2>1, <3>2
    <3> QED BY <1>8, <3>1, <3>2
  <2>4. Completing' = IF signals = <<completeRemoveMsg>> THEN 1 ELSE 0
    BY <2>3 DEF Completing, completeRemoveMsg, ToJob
  <2>5. CASE Running' # {}
    <3>1. <<>> # <<completeRemoveMsg>> OBVIOUS
    <3>2. Completing' = 0 BY <1>7, <2>4, <2>5, <3>1
    <3>3. Load' = "running" BY <2>5 DEF Load, Running
    <3> QED BY <1>2, <1>6, <3>2, <3>3
  <2>6. CASE Running' = {}
    <3>1. Load' = "idle" BY <2>2, <2>6 DEF Load, Running
    <3>2. queue = <<>>
      <4>1. Cardinality({}) = 0 /\ maxThreads \in Nat \ {0} BY <1>1, FS_EmptySet, ThreadCount
      <4>2. Cardinality(DOMAIN running') < maxThreads BY <2>6, <4>1 DEF Running
      <4> QED BY <1>14, <4>2 DEF NotAsked, Asks
    <3>3. signals = IF ~connected THEN <<completeRemoveMsg>> ELSE <<>> BY <1>7, <2>6, <3>2 DEF BusyFalse
    <3>4. <<>> # <<completeRemoveMsg>> OBVIOUS
    <3>5. Completing' = IF connected THEN 0 ELSE 0 + 1 BY <2>4, <3>3, <3>4
    <3> QED BY <1>2, <1>6, <3>1, <3>5
  <2> QED BY <2>5, <2>6
<1> QED BY <1>9, <1>13, <1>14

LEMMA JobArrivesLooks ==
    ASSUME ServerIndInv, JobArrives
    PROVE  /\ UNCHANGED <<timeout, connected, Completing, deleted>>
           /\ \/ UNCHANGED Load
              \/ timeout > 0 /\ Load = "running" /\ Load' = "waiting"
              \/ Load = "waiting" /\ Load' \in {"running", "idle"}
<1>1. ServerTypes /\ MessagesInv /\ JobsInv BY DEF ServerIndInv
<1>2. Take("server") /\ UNCHANGED <<maxThreads, timeout, queueing, connected, deleted>>
  BY DEF JobArrives, sourceVars, config
<1>3. Head(fes) \in ToSet(fes) /\ Head(fes) \in Events /\ Head(fes).to = "server" BY <1>1, <1>2, TakenIs
<1>4. PICK j \in Jobs : j = Head(fes).job BY <1>3, Modules
<1>5. j \in Requested BY <1>3, <1>4, RequestedIs
<1>6. completeRemoveMsg \notin ToSet(fes) BY <1>1, <1>2, NothingToRemove
<1>7. Requested' = {e.job : e \in {d \in ToSet(fes') : d.to = "server"}} BY OfMessages DEF Requested
<1>8. CASE UNCHANGED <<fes, queue, serverVars, left>>
  <2>1. running' = running /\ fes' = fes BY <1>8 DEF serverVars
  <2>2. Load' = Load /\ Completing' = Completing BY <1>2, <2>1, LooksTheSame
  <2> QED BY <1>2, <2>2
<1>9. ASSUME Request(running', <<>>)
      PROVE  /\ completeRemoveMsg \notin ToSet(fes') /\ Completing' = Completing
             /\ \A e \in Rest : e \in ToSet(fes')
             /\ \A i \in Requested : i # j => i \in Requested'
  <2>1. PICK signals : signals = <<>> OBVIOUS
  <2>2. Asked(running') \/ NotAsked(running', signals) BY <1>1, <1>2, <1>9, <2>1, RequestDoes
  <2>3. ToSet(signals) = {} BY <2>1 DEF ToSet
  <2>4. ToSet(fes') = Rest \/ (Asked(running') /\ ToSet(fes') = Rest \cup {ToJob("server", queue[1])})
    BY <2>2, <2>3 DEF Asked, NotAsked
  <2>5. Asked(running') => completeRemoveMsg # ToJob("server", queue[1]) BY Modules DEF Asked
  <2>6. completeRemoveMsg \notin ToSet(fes') BY <1>6, <2>4, <2>5 DEF Rest
  <2>7. Completing' = Completing BY <1>6, <2>6 DEF Completing, completeRemoveMsg, ToJob
  <2>8. \A e \in Rest : e \in ToSet(fes') BY <2>4
  <2>9. ASSUME NEW i \in Requested, i # j PROVE i \in Requested'
    <3>1. PICK e \in ToSet(fes) : e.to = "server" /\ e.job = i BY RequestedIs
    <3>2. e # Head(fes) BY <1>4, <2>9, <3>1
    <3>3. e \in ToSet(fes') BY <2>8, <3>2 DEF Rest
    <3> QED BY <1>7, <3>1, <3>3
  <2> QED BY <2>6, <2>7, <2>8, <2>9
<1>10. CASE /\ timedOut(j) /\ Request(running, <<>>)
            /\ UNCHANGED serverVars
  <2>1. running' = running BY <1>10 DEF serverVars
  <2>2. /\ Completing' = Completing
        /\ \A i \in Requested : i # j => i \in Requested'
    BY <1>9, <1>10, <2>1
  <2>3. timeout > 0 BY <1>10 DEF timedOut
  <2>4. Load = "running" \/ Load = "waiting" BY <1>5, LoadIs
  <2>5. Load' \in {"running", "waiting", "idle"} BY DEF Load
  <2>6. Load = "running" => Load' # "idle"
    <3>1. SUFFICES ASSUME Load = "running" PROVE Load' # "idle" OBVIOUS
    <3>2. CASE Running # {}
      <4>1. DOMAIN running' # {} BY <2>1, <3>2 DEF Running
      <4> QED BY <4>1 DEF Load
    <3>3. CASE FreshRequested
      <4>1. PICK i \in Requested : ~timedOut(i) BY <3>3 DEF FreshRequested
      <4>2. i # j BY <1>10, <4>1
      <4>3. i \in Requested' BY <2>2, <4>2
      <4> QED BY <4>3 DEF Load
    <3> QED BY <3>1, <3>2, <3>3, LoadIs
  <2> QED BY <1>2, <2>2, <2>3, <2>4, <2>5, <2>6
<1>11. ASSUME ~timedOut(j), Request(running', <<>>), j \in DOMAIN running'
       PROVE  Completing' = Completing /\ Load = "running" /\ Load' = "running"
  <2>1. Completing' = Completing BY <1>9, <1>11
  <2>2. Load = "running" BY <1>5, <1>11, LoadIs DEF FreshRequested
  <2>3. Load' = "running" BY <1>11 DEF Load
  <2> QED BY <2>1, <2>2, <2>3
<1> QED BY <1>2, <1>4, <1>8, <1>10, <1>11 DEF JobArrives

LEMMA RemoveServerLooks ==
    ASSUME ServerIndInv, RemoveServer
    PROVE  /\ connected /\ connected' = FALSE /\ Load # "waiting"
           /\ Completing' = Completing + (IF Load = "idle" THEN 1 ELSE 0)
           /\ UNCHANGED <<timeout, Load, deleted>>
<1>1. ServerTypes /\ ThreadsInv BY DEF ServerIndInv
<1>2. /\ fes = <<>> /\ connected /\ ~crashed /\ connected' = FALSE
      /\ UNCHANGED <<maxThreads, timeout, running, queueing, deleted>>
      /\ fes' = IF isEmpty /\ queue = <<>> THEN <<completeRemoveMsg>> ELSE <<>>
  BY DEF RemoveServer, sourceVars, config, serverVars
<1>3. /\ ToSet(<<>>) = {} /\ ToSet(<<completeRemoveMsg>>) = {completeRemoveMsg}
  <2>1. DOMAIN <<>> = {} OBVIOUS
  <2> QED BY <2>1, Modules, Single DEF ToSet
<1>4. ToSet(fes) = {} /\ Completing = 0 BY <1>2, <1>3 DEF Completing
<1>5. Requested = {} BY <1>4, RequestedIs
<1>6. Requested' = {}
  <2>1. Requested' = {e.job : e \in {d \in ToSet(fes') : d.to = "server"}} BY OfMessages DEF Requested
  <2>2. \A e \in ToSet(fes') : e = completeRemoveMsg BY <1>2, <1>3
  <2>3. {d \in ToSet(fes') : d.to = "server"} = {} BY <2>2, Modules
  <2> QED BY <2>1, <2>3
<1>7. Load' = Load /\ Load # "waiting" /\ (Load = "idle" <=> Running = {})
  BY <1>2, <1>5, <1>6 DEF Load, Running
<1>8. Running = {} => queue = <<>>
  <2>1. SUFFICES ASSUME Running = {} PROVE queue = <<>> OBVIOUS
  <2>2. Free > 0 BY <1>1, <2>1, ThreadCount DEF Free
  <2> QED BY <1>1, <1>2, <1>5, <2>2 DEF ThreadsInv
<1>9. Completing' = IF Running = {} THEN 1 ELSE 0
  <2>1. isEmpty /\ queue = <<>> <=> Running = {} BY <1>8 DEF isEmpty, Running
  <2>2. CASE Running = {}
    <3>1. fes' = <<completeRemoveMsg>> BY <1>2, <2>1, <2>2
    <3>2. completeRemoveMsg \in ToSet(fes') BY <1>3, <3>1
    <3> QED BY <2>2, <3>2 DEF Completing, completeRemoveMsg, ToJob
  <2>3. CASE Running # {}
    <3>1. fes' = <<>> BY <1>2, <2>1, <2>3
    <3>2. completeRemoveMsg \notin ToSet(fes') BY <1>3, <3>1
    <3> QED BY <2>3, <3>2 DEF Completing, completeRemoveMsg, ToJob
  <2> QED BY <2>2, <2>3
<1>10. Completing' = Completing + (IF Load = "idle" THEN 1 ELSE 0)
  <2>1. 0 + 1 = 1 /\ 0 + 0 = 0 OBVIOUS
  <2> QED BY <1>4, <1>7, <1>9, <2>1
<1> QED BY <1>2, <1>7, <1>10

LEMMA CompleteRemoveLooks ==
    ASSUME ServerIndInv, CompleteRemove
    PROVE  Completing = 1 /\ Completing' = 0 /\ deleted' = TRUE /\ UNCHANGED <<timeout, Load, connected>>
<1>1. ServerTypes /\ MessagesInv BY DEF ServerIndInv
<1>2. /\ Take("executionManager") /\ deleted' = TRUE /\ running' = <<>> /\ fes' = Undeleted
      /\ UNCHANGED <<timeout, connected>>
  BY DEF CompleteRemove, sourceVars, config
<1>3. Undeleted = Tail(fes) /\ Head(fes) = completeRemoveMsg /\ completeRemoveMsg \in ToSet(fes)
  BY <1>1, <1>2, UndeletedIsTail
<1>4. /\ Running = {}
      /\ \A e \in ToSet(fes) : e.to \in {"source", "arrivalMonitor", "loadBalancer", "executionManager"}
  BY <1>1, <1>3 DEF MessagesInv
<1>5. ToSet(fes') = ToSet(fes) \ {completeRemoveMsg}
  BY <1>1, <1>2, <1>3, HeadAndTail DEF ServerTypes, MessagesInv, Take
<1>6. Completing = 1 /\ Completing' = 0 BY <1>3, <1>5 DEF Completing, completeRemoveMsg, ToJob
<1>7. Requested = {}
  <2>1. {d \in ToSet(fes) : d.to = "server"} = {} BY <1>4
  <2> QED BY <2>1, RequestedIs
<1>8. Requested' = {}
  <2>1. Requested' = {e.job : e \in {d \in ToSet(fes') : d.to = "server"}} BY OfMessages DEF Requested
  <2>2. {d \in ToSet(fes') : d.to = "server"} = {} BY <1>4, <1>5
  <2> QED BY <2>1, <2>2
<1>9. DOMAIN running' = {}
  <2>1. DOMAIN <<>> = {} OBVIOUS
  <2> QED BY <1>2, <2>1
<1>10. Load' = "idle" /\ Load = "idle" BY <1>4, <1>7, <1>8, <1>9 DEF Load, Running
<1> QED BY <1>2, <1>6, <1>10

LEMMA AdvanceLooks ==
    ASSUME ServerIndInv, Advance
    PROVE  UNCHANGED <<timeout, Load, connected, Completing, deleted>>
<1>1. /\ fes = <<>> /\ UNCHANGED <<timeout, running, connected, deleted>>
      /\ fes' \in {<<newJobTimer>>, <<endExecutionMsg>>, <<newJobTimer, endExecutionMsg>>,
                   <<endExecutionMsg, newJobTimer>>}
  BY DEF Advance, AdvanceBy, sourceVars, config
<1>2. \A e \in ToSet(fes') : e = newJobTimer \/ e = endExecutionMsg
  <2>1. /\ DOMAIN <<newJobTimer>> = {1} /\ DOMAIN <<endExecutionMsg>> = {1}
        /\ DOMAIN <<newJobTimer, endExecutionMsg>> = {1, 2}
        /\ DOMAIN <<endExecutionMsg, newJobTimer>> = {1, 2}
    OBVIOUS
  <2>2. \A i \in DOMAIN fes' : fes'[i] = newJobTimer \/ fes'[i] = endExecutionMsg
    <3>1. CASE fes' = <<newJobTimer>> BY <2>1, <3>1
    <3>2. CASE fes' = <<endExecutionMsg>> BY <2>1, <3>2
    <3>3. CASE fes' = <<newJobTimer, endExecutionMsg>> BY <2>1, <3>3
    <3>4. CASE fes' = <<endExecutionMsg, newJobTimer>> BY <2>1, <3>4
    <3> QED BY <1>1, <3>1, <3>2, <3>3, <3>4
  <2> QED BY <2>2 DEF ToSet
<1>3. ToSet(fes) = {} BY <1>1 DEF ToSet
<1>4. Requested = {} BY <1>3, RequestedIs
<1>5. Requested' = {}
  <2>1. Requested' = {e.job : e \in {d \in ToSet(fes') : d.to = "server"}} BY OfMessages DEF Requested
  <2>2. {d \in ToSet(fes') : d.to = "server"} = {} BY <1>2, Modules
  <2> QED BY <2>1, <2>2
<1>6. Load' = Load BY <1>1, <1>4, <1>5 DEF Load
<1>7. completeRemoveMsg \notin ToSet(fes) /\ completeRemoveMsg \notin ToSet(fes') BY <1>2, <1>3, Modules
<1>8. Completing' = Completing BY <1>7 DEF Completing, completeRemoveMsg, ToJob
<1> QED BY <1>1, <1>6, <1>8

LEMMA RefinementStep ==
    ASSUME ServerIndInv, ServerIndInv', [Next]_vars
    PROVE  [Abstract!Next]_(Abstract!vars)
<1>1. Distinct(fes) /\ Distinct(fes') BY DEF ServerIndInv, MessagesInv
<1>2. timeout \in Nat BY ThreadCount DEF ServerIndInv
<1>3. CASE Source \/ ArrivalMonitor \/ LoadBalancer
  BY <1>1, <1>2, <1>3, UpstreamLooksTheSame, ServerLoadSteps
<1>4. CASE Enqueue
  <2>1. Load \in {"running", "waiting", "idle"} BY LoadIs
  <2> QED BY <1>1, <1>2, <1>4, <2>1, EnqueueLooks, ServerLoadSteps
<1>5. CASE EndExecution BY <1>1, <1>2, <1>5, EndExecutionLooks, ServerLoadSteps
<1>6. CASE JobArrives BY <1>1, <1>2, <1>6, JobArrivesLooks, ServerLoadSteps
<1>7. CASE RemoveServer BY <1>1, <1>2, <1>7, RemoveServerLooks, ServerLoadSteps
<1>8. CASE CompleteRemove BY <1>1, <1>2, <1>8, CompleteRemoveLooks, ServerLoadSteps
<1>9. CASE Advance BY <1>1, <1>2, <1>9, AdvanceLooks, ServerLoadSteps
<1>10. CASE UNCHANGED vars
  <2>1. UNCHANGED <<fes, maxThreads, timeout, running, queueing, connected, deleted>>
    BY <1>10 DEF vars, sourceVars, config, serverVars
  <2>2. Load' = Load /\ Completing' = Completing BY <2>1, LooksTheSame
  <2> QED BY <1>1, <1>2, <2>1, <2>2, ServerLoadSteps
<1> QED BY <1>3, <1>4, <1>5, <1>6, <1>7, <1>8, <1>9, <1>10 DEF Next, Message

(* Each server, with its queue and the messages of an instant, behaves as  *)
(* the pool assumes: it turns idle and waiting, and its removal completes  *)
(* once, only as ServerLoad says.                                          *)
THEOREM ServerImplementsLoad == ProbeSpec => ImplementsServerLoad
<1>1. ProbeInit => Abstract!Init
  <2>1. SUFFICES ASSUME Init PROVE Abstract!Init BY DEF ProbeInit
  <2>2. /\ fes = <<>> /\ connected = TRUE /\ deleted = FALSE /\ running = <<>> /\ DOMAIN <<>> = {}
    BY <2>1 DEF Init
  <2>3. Requested = {} BY <2>2 DEF Requested
  <2>4. Load = "idle" BY <2>2, <2>3 DEF Load
  <2>5. {i \in DOMAIN fes : fes[i] = completeRemoveMsg} = {} BY <2>2
  <2>6. Cardinality({i \in DOMAIN fes : fes[i] = completeRemoveMsg}) = 0 BY <2>5, FS_EmptySet
  <2> QED BY <2>2, <2>4, <2>6 DEF Abstract!Init
<1>2. ServerIndInv /\ ServerIndInv' /\ [ProbeNext]_allVars => [Abstract!Next]_(Abstract!vars)
  BY RefinementStep, ProbeStepIsServerStep
<1> QED BY <1>1, <1>2, ServerIndHolds, PTL DEF ProbeSpec, ImplementsServerLoad, Abstract!Spec
-----------------------------------------------------------------------------
(* The probe's window: the invariant                                       *)

(* What a window says of the units in which the server worked: entries of  *)
(* ages a and values v, oldest first, the value l of the last of all.  The *)
(* levels alternate, and a unit of time has the level of the last entry    *)
(* that is not younger; before the first of them, the other one.           *)
Tells(n, a, v, l, B) ==
    /\ \A i \in 1..(n - 1) : v[i] # v[i + 1]
    /\ \A i, j \in 1..n : i <= j => a[j] <= a[i]
    /\ n > 0 => v[n] = l
    /\ n = 0 => \A u \in 1..Window : u \in B <=> l = 1
    /\ n > 0 => \A u \in 1..Window : u > a[1] => (u \in B <=> v[1] = 0)
    /\ \A i \in 1..n : \A u \in 1..a[i] :
          (i < n => u > a[i + 1]) => (u \in B <=> v[i] = 1)

Marks == [age : 0..Window, value : {0, 1}]
Ages == [i \in 1..Len(entries) |-> entries[i].age]
Values == [i \in 1..Len(entries) |-> entries[i].value]
Worked == {u \in 1..Window : worked[u]}

WindowTypes ==
    /\ known \in BOOLEAN /\ worked \in [1..Window -> BOOLEAN] /\ lastValue \in {0, 1}
    /\ entries \in Seq(Marks)

(* The last level is that of the server; a server that the probe does not  *)
(* know has not had a job.                                                 *)
WindowInv ==
    ~deleted =>
       /\ WindowTypes
       /\ lastValue = 1 <=> Running # {}
       /\ ~known => entries = <<>> /\ lastValue = 0
       /\ Tells(Len(entries), Ages, Values, lastValue, Worked)

LEMMA NothingRuns ==
    ASSUME NEW r, r = [j \in DOMAIN r |-> r[j]] PROVE r = <<>> <=> DOMAIN r = {}
<1>1. DOMAIN <<>> = {} OBVIOUS
<1>2. ASSUME DOMAIN r = {} PROVE r = <<>>
  <2>1. <<>> = [j \in {} |-> r[j]] OBVIOUS
  <2> QED BY <1>2, <2>1
<1> QED BY <1>1, <1>2

LEMMA WindowSizes == Window \in Nat \ {0} /\ 0 \in 0..Window BY SimProbeAssumption

LEMMA OfEntry ==
    ASSUME NEW e \in Marks
    PROVE  e.age \in 0..Window /\ e.value \in {0, 1}
BY DEF Marks

(* The ages and the values of a window.                                    *)
LEMMA Reading ==
    ASSUME WindowTypes
    PROVE  /\ Len(entries) \in Nat
           /\ Ages \in [1..Len(entries) -> 0..Window] /\ Values \in [1..Len(entries) -> {0, 1}]
           /\ Worked \subseteq 1..Window
<1>1. Len(entries) \in Nat BY DEF WindowTypes
<1>2. \A i \in 1..Len(entries) : entries[i].age \in 0..Window /\ entries[i].value \in {0, 1}
  <2>1. \A i \in 1..Len(entries) : entries[i] \in Marks
    BY DEF WindowTypes
  <2> QED BY <2>1, OfEntry
<1> QED BY <1>1, <1>2 DEF Ages, Values, Worked

LEMMA WindowInit == ProbeInit => WindowInv
<1> SUFFICES ASSUME ProbeInit PROVE WindowInv OBVIOUS
<1>1. entries = <<>> /\ lastValue = 0 /\ known = FALSE /\ running = <<>>
      /\ worked = [u \in 1..Window |-> FALSE]
  BY DEF ProbeInit, Init
<1>2. WindowTypes
  <2>1. \A S : <<>> \in Seq(S) OBVIOUS
  <2> QED BY <1>1, <2>1 DEF WindowTypes
<1>3. Len(entries) = 0 /\ Worked = {} /\ Running = {} BY <1>1 DEF Worked, Running
<1>4. Tells(0, Ages, Values, 0, {}) BY DEF Tells
<1> QED BY <1>1, <1>2, <1>3, <1>4 DEF WindowInv

-----------------------------------------------------------------------------
(* A signal                                                                *)

(* A record of a level that the server did not have.                       *)
LEMMA Recorded ==
    ASSUME ServerTypes, ServerTypes', WindowInv, ~deleted, NEW x \in {0, 1}, x # lastValue,
           Record(x), known' = TRUE, worked' = worked, x = 1 <=> Running' # {}
    PROVE  WindowInv'
<1>1. WindowTypes /\ Tells(Len(entries), Ages, Values, lastValue, Worked) BY DEF WindowInv
<1>2. PICK n \in Nat : n = Len(entries) BY <1>1 DEF WindowTypes
<1>21. PICK m \in Nat : m = n + 1 OBVIOUS
<1>3. PICK r \in Marks : r = [age |-> 0, value |-> x]
  BY WindowSizes DEF Marks
<1>4. entries' = Append(entries, r) /\ lastValue' = x BY <1>3 DEF Record
<1>5. /\ entries' \in Seq(Marks) /\ Len(entries') = m
      /\ \A i \in 1..n : entries'[i] = entries[i]
      /\ entries'[m] = r
  BY <1>1, <1>2, <1>4, <1>21 DEF WindowTypes
<1>6. WindowTypes' BY <1>1, <1>4, <1>5 DEF WindowTypes
<1>7. /\ Ages \in [1..n -> 0..Window] /\ Values \in [1..n -> {0, 1}] /\ Worked \subseteq 1..Window
  BY <1>1, <1>2, Reading
<1>8. Worked' = Worked BY DEF Worked
<1>9. /\ \A i \in 1..m : Ages'[i] = entries'[i].age /\ Values'[i] = entries'[i].value
      /\ Ages' = [i \in 1..m |-> entries'[i].age] /\ Values' = [i \in 1..m |-> entries'[i].value]
  BY <1>5 DEF Ages, Values
<1>10. Ages' \in [1..m -> 0..Window] /\ Values' \in [1..m -> {0, 1}]
  <2>1. \A i \in 1..m : entries'[i] \in Marks BY <1>5
  <2>2. \A i \in 1..m : entries'[i].age \in 0..Window /\ entries'[i].value \in {0, 1}
    BY <2>1, OfEntry
  <2> QED BY <1>9, <2>2
<1>11. lastValue \in {0, 1} /\ Worked \in SUBSET (1..Window) BY <1>1, <1>7 DEF WindowTypes
<1>12. PICK a \in [1..n -> 0..Window], v \in [1..n -> {0, 1}], l \in {0, 1}, B \in SUBSET (1..Window) :
           a = Ages /\ v = Values /\ l = lastValue /\ B = Worked
  BY <1>7, <1>11
<1>13. PICK b \in [1..m -> 0..Window], w \in [1..m -> {0, 1}] : b = Ages' /\ w = Values'
  BY <1>10
<1>14. \A i \in 1..n : b[i] = a[i] /\ w[i] = v[i]
  BY <1>2, <1>5, <1>9, <1>12, <1>13, <1>21 DEF Ages, Values
<1>15. b[m] = 0 /\ w[m] = x
  <2>1. m \in 1..m BY <1>21
  <2> QED BY <1>3, <1>5, <1>9, <1>13, <2>1
<1>16. Tells(n, a, v, l, B) /\ x # l BY <1>1, <1>2, <1>12
<1>17. Tells(m, b, w, x, B)
  <2>0. Window \in Nat BY WindowSizes
  <2>1. \A i \in 1..(m - 1) : w[i] # w[i + 1]
    <3>1. SUFFICES ASSUME NEW i \in 1..n PROVE w[i] # w[i + 1] BY <1>21
    <3>2. CASE i = n BY <1>14, <1>15, <1>16, <1>21, <3>1, <3>2 DEF Tells
    <3>3. CASE i # n
      <4>1. i \in 1..(n - 1) /\ i + 1 \in 1..n BY <3>1, <3>3
      <4> QED BY <1>14, <1>16, <4>1 DEF Tells
    <3> QED BY <3>2, <3>3
  <2>2. \A i, j \in 1..m : i <= j => b[j] <= b[i]
    <3>1. SUFFICES ASSUME NEW i \in 1..m, NEW j \in 1..m, i <= j PROVE b[j] <= b[i]
      OBVIOUS
    <3>2. CASE j = m BY <1>15, <2>0, <3>1, <3>2
    <3>3. CASE j # m
      <4>1. i \in 1..n /\ j \in 1..n BY <1>21, <3>1, <3>3
      <4> QED BY <1>14, <1>16, <3>1, <4>1 DEF Tells
    <3> QED BY <3>2, <3>3
  <2>3. ASSUME NEW u \in 1..Window, u > b[1] PROVE u \in B <=> w[1] = 0
    <3>1. CASE n = 0 BY <1>15, <1>16, <1>21, <2>0, <2>3, <3>1 DEF Tells
    <3>2. CASE n # 0
      <4>1. 1 \in 1..n /\ n > 0 BY <3>2
      <4> QED BY <1>14, <1>16, <2>3, <4>1 DEF Tells
    <3> QED BY <3>1, <3>2
  <2>4. ASSUME NEW i \in 1..m, NEW u \in 1..b[i], i < m => u > b[i + 1]
        PROVE  u \in B <=> w[i] = 1
    <3>1. i # m BY <1>15, <2>4
    <3>2. i \in 1..n /\ u \in 1..a[i] BY <1>14, <1>21, <2>4, <3>1
    <3>3. i < n => u > a[i + 1]
      <4>1. SUFFICES ASSUME i < n PROVE u > a[i + 1] OBVIOUS
      <4>2. i + 1 \in 1..n BY <3>2, <4>1
      <4> QED BY <1>14, <1>21, <2>4, <3>2, <4>1, <4>2
    <3> QED BY <1>14, <1>16, <3>2, <3>3 DEF Tells
  <2>5. m > 0 BY <1>21
  <2> QED BY <1>15, <2>1, <2>2, <2>3, <2>4, <2>5 DEF Tells
<1>18. Tells(Len(entries), Ages, Values, lastValue, Worked)'
  BY <1>4, <1>5, <1>8, <1>12, <1>13, <1>17
<1> QED BY <1>4, <1>6, <1>18 DEF WindowInv

LEMMA SameWindow ==
    ASSUME WindowInv, ~deleted, UNCHANGED probeVars, Running' = {} <=> Running = {}
    PROVE  WindowInv'
<1>1. known' = known /\ entries' = entries /\ lastValue' = lastValue /\ worked' = worked
  BY DEF probeVars
<1>2. Ages' = Ages /\ Values' = Values /\ Worked' = Worked
  BY <1>1 DEF Ages, Values, Worked
<1>3. WindowTypes' <=> WindowTypes BY <1>1 DEF WindowTypes
<1> QED BY <1>1, <1>2, <1>3 DEF WindowInv

(* A step of the server, with the signals that it emits.                   *)
LEMMA EmitsInd ==
    ASSUME ServerTypes, ServerTypes', WindowInv, ~deleted, Emits
    PROVE  WindowInv'
<1>1. running = [j \in DOMAIN running |-> running[j]] BY DEF ServerTypes, Running
<1>2. running' = [j \in DOMAIN running' |-> running'[j]] BY DEF ServerTypes, Running
<1>3. (running = <<>> <=> Running = {}) /\ (running' = <<>> <=> Running' = {})
  BY <1>1, <1>2, NothingRuns DEF Running
<1>4. /\ lastValue \in {0, 1} /\ known \in BOOLEAN
      /\ lastValue = 1 <=> Running # {}
      /\ ~known => lastValue = 0
  BY DEF WindowInv, WindowTypes
<1>5. ASSUME Running = {}, Running' # {} PROVE WindowInv'
  <2>1. Busy(1) BY <1>3, <1>5 DEF Emits
  <2>2. Record(1) /\ known' = TRUE /\ worked' = worked BY <2>1 DEF Busy
  <2>3. 1 # lastValue /\ 1 \in {0, 1} BY <1>4, <1>5
  <2>4. 1 = 1 <=> Running' # {} BY <1>5
  <2> QED BY <2>2, <2>3, <2>4, Recorded
<1>6. ASSUME Running # {}, Running' = {} PROVE WindowInv'
  <2>1. Busy(0) BY <1>3, <1>6 DEF Emits
  <2>2. known BY <1>4, <1>6
  <2>3. Record(0) /\ known' = TRUE /\ worked' = worked BY <2>1, <2>2 DEF Busy
  <2>4. 0 # lastValue /\ 0 \in {0, 1} BY <1>4, <1>6
  <2>5. 0 = 1 <=> Running' # {} BY <1>6
  <2> QED BY <2>3, <2>4, <2>5, Recorded
<1>7. ASSUME Running' = {} <=> Running = {} PROVE WindowInv'
  <2>1. UNCHANGED probeVars BY <1>3, <1>7 DEF Emits
  <2> QED BY <1>7, <2>1, SameWindow
<1> QED BY <1>5, <1>6, <1>7

-----------------------------------------------------------------------------
(* Time goes on                                                            *)

Aged(t) == [i \in DOMAIN entries |-> [entries[i] EXCEPT !.age = @ + t]]

Falling(n) == \A i, j \in 1..n : i <= j => Ages[j] <= Ages[i]

(* After time t, the entries from f on are those that are not too old.     *)
Remain(f, n, t) ==
    /\ \A i \in 1..n : i < f => Ages[i] + t > Window
    /\ \A i \in 1..n : i >= f => Ages[i] + t <= Window
    /\ removeOldEntries(Aged(t)) \in Seq(Marks)
    /\ Len(removeOldEntries(Aged(t))) = (n + 1) - f
    /\ \A i \in 1..((n + 1) - f) :
          /\ removeOldEntries(Aged(t))[i].age = Ages[(f - 1) + i] + t
          /\ removeOldEntries(Aged(t))[i].value = Values[(f - 1) + i]

(* The entries that are not too old are the last ones.                     *)
LEMMA RemovedAre ==
    ASSUME WindowTypes, NEW t \in Nat, NEW n \in Nat, n = Len(entries),
           Falling(n)
    PROVE  \E f \in 1..(n + 1) : Remain(f, n, t)
<1>1. PICK a \in [1..n -> 0..Window], v \in [1..n -> {0, 1}] : a = Ages /\ v = Values
  BY Reading
<1>2. entries \in Seq(Marks) /\ DOMAIN entries = 1..n /\ Window \in Nat
  BY WindowSizes DEF WindowTypes
<1>3. PICK q : q = Aged(t) OBVIOUS
<1>4. DOMAIN q = 1..n BY <1>2, <1>3 DEF Aged
<1>5. \A i \in 1..n : q[i] \in [age : Nat, value : {0, 1}] /\ q[i].age = a[i] + t /\ q[i].value = v[i]
  <2>1. SUFFICES ASSUME NEW i \in 1..n
                 PROVE  /\ q[i] \in [age : Nat, value : {0, 1}]
                        /\ q[i].age = a[i] + t /\ q[i].value = v[i]
    OBVIOUS
  <2>2. PICK e \in Marks : e = entries[i] BY <1>2
  <2>3. e.age = a[i] /\ e.value = v[i] BY <1>1, <2>2 DEF Ages, Values
  <2>4. q[i] = [e EXCEPT !.age = @ + t] BY <1>2, <1>3, <2>2 DEF Aged
  <2>5. e = [age |-> a[i], value |-> v[i]] BY <2>3 DEF Marks
  <2>6. q[i] = [age |-> a[i] + t, value |-> v[i]] BY <2>4, <2>5
  <2>7. a[i] + t \in Nat /\ v[i] \in {0, 1} BY <1>2
  <2> QED BY <2>6, <2>7
<1>6. Len(q) = n
  <2>1. q = [i \in 1..n |-> q[i]] BY <1>2, <1>3 DEF Aged
  <2>2. \A i \in 1..n : q[i] \in [age : Nat, value : {0, 1}] BY <1>5
  <2>3. q \in Seq([age : Nat, value : {0, 1}]) BY <2>1, <2>2
  <2> QED BY <1>4, <2>3
<1> DEFINE T == {i \in 1..(n + 1) : i <= n => q[i].age <= Window}
<1>7. PICK f \in 1..(n + 1) : f = Min(T) /\ f \in T /\ \A y \in T : f <= y
  <2>1. T \subseteq Nat /\ n + 1 \in T OBVIOUS
  <2>2. Min(T) \in T /\ \A y \in T : Min(T) <= y BY <2>1, LeastNumber
  <2> QED BY <2>2
<1>8. removeOldEntries(q) = SubSeq(q, f, n) BY <1>6, <1>7 DEF removeOldEntries
<1>9. \A i \in 1..n : i < f => a[i] + t > Window
  <2>1. SUFFICES ASSUME NEW i \in 1..n, i < f PROVE a[i] + t > Window OBVIOUS
  <2>2. ~(i \in T) BY <1>7, <2>1
  <2>3. ~(q[i].age <= Window) BY <2>1, <2>2
  <2> QED BY <1>2, <1>5, <2>3
<1>10. \A i \in 1..n : i >= f => a[i] + t <= Window
  <2>1. SUFFICES ASSUME NEW i \in 1..n, i >= f PROVE a[i] + t <= Window OBVIOUS
  <2>2. f \in 1..n BY <2>1
  <2>3. q[f].age <= Window BY <1>7, <2>2
  <2>4. a[f] + t <= Window BY <1>5, <2>2, <2>3
  <2>5. a[i] <= a[f] BY <1>1, <2>1, <2>2 DEF Falling
  <2> QED BY <1>2, <2>2, <2>4, <2>5
<1>11. \A i \in f..n : q[i] \in Marks
  <2>1. SUFFICES ASSUME NEW i \in f..n PROVE q[i] \in Marks OBVIOUS
  <2>2. i \in 1..n /\ i >= f OBVIOUS
  <2>3. q[i] \in [age : Nat, value : {0, 1}] /\ q[i].age <= Window BY <1>5, <1>10, <2>2
  <2>4. PICK e \in [age : Nat, value : {0, 1}] : e = q[i] BY <2>3
  <2>5. e.age \in 0..Window BY <1>2, <2>3, <2>4
  <2> QED BY <2>4, <2>5 DEF Marks
<1> HIDE DEF T
<1>12. PICK p : p = SubSeq(q, f, n) OBVIOUS
<1>13. /\ p \in Seq(Marks) /\ Len(p) = IF f <= n THEN (n - f) + 1 ELSE 0
       /\ \A i \in 1..((n - f) + 1) : p[i] = q[(f + i) - 1]
  <2>1. f \in Int /\ n \in Int OBVIOUS
  <2> QED BY <1>11, <1>12, <2>1, SubSeqProperties
<1>14. Len(p) = (n + 1) - f BY <1>13
<1>15. \A i \in 1..((n + 1) - f) : p[i].age = a[(f - 1) + i] + t /\ p[i].value = v[(f - 1) + i]
  <2>1. SUFFICES ASSUME NEW i \in 1..((n + 1) - f)
                 PROVE  p[i].age = a[(f - 1) + i] + t /\ p[i].value = v[(f - 1) + i]
    OBVIOUS
  <2>2. PICK k \in 1..n : k = (f - 1) + i BY <2>1
  <2>3. k = (f + i) - 1 /\ i \in 1..((n - f) + 1) BY <2>1, <2>2
  <2>4. p[i] = q[k] BY <1>13, <2>3
  <2> QED BY <1>5, <2>2, <2>4
<1>16. removeOldEntries(Aged(t)) = p BY <1>3, <1>8, <1>12
<1>17. /\ \A i \in 1..n : i < f => Ages[i] + t > Window
       /\ \A i \in 1..n : i >= f => Ages[i] + t <= Window
  BY <1>1, <1>9, <1>10
<1>18. /\ removeOldEntries(Aged(t)) \in Seq(Marks)
       /\ Len(removeOldEntries(Aged(t))) = (n + 1) - f
  BY <1>13, <1>14, <1>16
<1>19. \A i \in 1..((n + 1) - f) :
          /\ removeOldEntries(Aged(t))[i].age = Ages[(f - 1) + i] + t
          /\ removeOldEntries(Aged(t))[i].value = Values[(f - 1) + i]
  BY <1>1, <1>15, <1>16
<1>20. Remain(f, n, t) BY <1>17, <1>18, <1>19 DEF Remain
<1> QED BY <1>20

LEMMA MovesInd ==
    ASSUME ServerTypes, WindowInv, ~deleted, deleted' = deleted, running' = running,
           NEW t \in Nat \ {0}, Moves(t)
    PROVE  WindowInv'
<1>1. /\ WindowTypes /\ Tells(Len(entries), Ages, Values, lastValue, Worked)
      /\ lastValue = 1 <=> Running # {}
      /\ ~known => entries = <<>> /\ lastValue = 0
  BY DEF WindowInv
<1>2. PICK n \in Nat : n = Len(entries) BY <1>1 DEF WindowTypes
<1>3. PICK a \in [1..n -> 0..Window], v \in [1..n -> {0, 1}], l \in {0, 1}, B \in SUBSET (1..Window) :
          a = Ages /\ v = Values /\ l = lastValue /\ B = Worked
  <2>1. lastValue \in {0, 1} BY <1>1 DEF WindowTypes
  <2> QED BY <1>1, <1>2, <2>1, Reading
<1>4. Tells(n, a, v, l, B) BY <1>1, <1>2, <1>3
<1>5. \A i, j \in 1..n : i <= j => a[j] <= a[i] BY <1>4 DEF Tells
<1>6. PICK f \in 1..(n + 1) : Remain(f, n, t)
  <2>1. Falling(n) BY <1>3, <1>5 DEF Falling
  <2>2. t \in Nat OBVIOUS
  <2> QED BY <1>1, <1>2, <2>1, <2>2, RemovedAre
<1>7. entries' = removeOldEntries(Aged(t)) /\ known' = known /\ lastValue' = lastValue
  BY DEF Moves, Aged
<1>8. PICK m \in Nat : m = (n + 1) - f OBVIOUS
<1>9. /\ entries' \in Seq(Marks) /\ Len(entries') = m
      /\ \A i \in 1..m : /\ entries'[i].age = a[(f - 1) + i] + t
                         /\ entries'[i].value = v[(f - 1) + i]
  BY <1>3, <1>6, <1>7, <1>8 DEF Remain
<1>10. worked' = [u \in 1..Window |-> IF u <= t THEN running # <<>> ELSE worked[u - t]]
  BY DEF Moves
<1>11. running # <<>> <=> l = 1
  <2>1. running = [j \in DOMAIN running |-> running[j]] BY DEF ServerTypes, Running
  <2> QED BY <1>1, <1>3, <2>1, NothingRuns DEF Running
<1>12. WindowTypes'
  <2>1. \A u \in 1..Window : (IF u <= t THEN running # <<>> ELSE worked[u - t]) \in BOOLEAN
    <3>1. ASSUME NEW u \in 1..Window, ~(u <= t) PROVE worked[u - t] \in BOOLEAN
      <4>1. u - t \in 1..Window BY <3>1, WindowSizes
      <4> QED BY <1>1, <4>1 DEF WindowTypes
    <3> QED BY <3>1
  <2>2. worked' \in [1..Window -> BOOLEAN] BY <1>10, <2>1
  <2> QED BY <1>1, <1>7, <1>9, <2>2 DEF WindowTypes
<1>13. PICK b \in [1..m -> 0..Window], w \in [1..m -> {0, 1}], C \in SUBSET (1..Window) :
           b = Ages' /\ w = Values' /\ C = Worked'
  <2>1. Ages' = [i \in 1..m |-> entries'[i].age] /\ Values' = [i \in 1..m |-> entries'[i].value]
    BY <1>9 DEF Ages, Values
  <2>2. \A i \in 1..m : entries'[i] \in Marks BY <1>9
  <2>3. \A i \in 1..m : entries'[i].age \in 0..Window /\ entries'[i].value \in {0, 1}
    BY <2>2, OfEntry
  <2>4. Worked' \in SUBSET (1..Window) BY DEF Worked
  <2> QED BY <2>1, <2>3, <2>4
<1>14. \A i \in 1..m : b[i] = a[(f - 1) + i] + t /\ w[i] = v[(f - 1) + i]
  BY <1>9, <1>13 DEF Ages, Values
<1>15. \A i \in 1..n : (i < f => a[i] + t > Window) /\ (i >= f => a[i] + t <= Window)
  BY <1>3, <1>6 DEF Remain
<1>16. \A u \in 1..Window : u <= t => (u \in C <=> l = 1)
  BY <1>10, <1>11, <1>13 DEF Worked
<1>17. \A u \in 1..Window : u > t => (u - t \in 1..Window /\ (u \in C <=> u - t \in B))
  <2>1. SUFFICES ASSUME NEW u \in 1..Window, u > t
                 PROVE  u - t \in 1..Window /\ (u \in C <=> u - t \in B)
    OBVIOUS
  <2>2. u - t \in 1..Window /\ ~(u <= t) BY <2>1, WindowSizes
  <2>3. worked'[u] = worked[u - t] BY <1>10, <2>2
  <2> QED BY <1>3, <1>13, <2>2, <2>3 DEF Worked
<1>18. Tells(m, b, w, l, C)
  <2>0. Window \in Nat BY WindowSizes
  <2>1. \A i \in 1..(m - 1) : w[i] # w[i + 1]
    <3>1. SUFFICES ASSUME NEW i \in 1..(m - 1) PROVE w[i] # w[i + 1] OBVIOUS
    <3>2. PICK k \in 1..(n - 1) : k = (f - 1) + i /\ k + 1 = (f - 1) + (i + 1)
      BY <1>8, <3>1
    <3>3. i \in 1..m /\ i + 1 \in 1..m BY <3>1
    <3>4. w[i] = v[k] /\ w[i + 1] = v[k + 1] BY <1>14, <3>2, <3>3
    <3>5. v[k] # v[k + 1] BY <1>4 DEF Tells
    <3> QED BY <3>4, <3>5
  <2>2. \A i, j \in 1..m : i <= j => b[j] <= b[i]
    <3>1. SUFFICES ASSUME NEW i \in 1..m, NEW j \in 1..m, i <= j PROVE b[j] <= b[i]
      OBVIOUS
    <3>2. PICK k \in 1..n, h \in 1..n : k = (f - 1) + i /\ h = (f - 1) + j /\ k <= h
      BY <1>8, <3>1
    <3>3. b[i] = a[k] + t /\ b[j] = a[h] + t BY <1>14, <3>2
    <3>4. a[h] <= a[k] BY <1>5, <3>2
    <3> QED BY <2>0, <3>3, <3>4
  <2>3. m > 0 => w[m] = l
    <3>1. SUFFICES ASSUME m > 0 PROVE w[m] = l OBVIOUS
    <3>2. n = (f - 1) + m /\ n > 0 /\ m \in 1..m BY <1>8, <3>1
    <3>3. w[m] = v[n] BY <1>14, <3>2
    <3> QED BY <1>4, <3>2, <3>3 DEF Tells
  <2>4. ASSUME m = 0, NEW u \in 1..Window PROVE u \in C <=> l = 1
    <3>1. CASE u <= t BY <1>16, <3>1
    <3>2. CASE u > t
      <4>1. PICK x \in 1..Window : x = u - t /\ (u \in C <=> x \in B) BY <1>17, <3>2
      <4>2. CASE n = 0 BY <1>4, <4>1, <4>2 DEF Tells
      <4>3. CASE n # 0
        <5>1. n \in 1..n /\ n < f BY <1>8, <2>4, <4>3
        <5>2. a[n] + t > Window BY <1>15, <5>1
        <5>3. x \in 1..a[n] BY <2>0, <3>2, <4>1, <5>1, <5>2
        <5>4. x \in B <=> v[n] = 1 BY <1>4, <5>1, <5>3 DEF Tells
        <5>5. v[n] = l BY <1>4, <5>1 DEF Tells
        <5> QED BY <4>1, <5>4, <5>5
      <4> QED BY <4>2, <4>3
    <3> QED BY <3>1, <3>2
  <2>5. ASSUME m > 0, NEW u \in 1..Window, u > b[1] PROVE u \in C <=> w[1] = 0
    <3>1. f \in 1..n /\ f = (f - 1) + 1 /\ 1 \in 1..m BY <1>8, <2>5
    <3>2. b[1] = a[f] + t /\ w[1] = v[f] BY <1>14, <3>1
    <3>3. u > t /\ u - t > a[f] BY <2>0, <2>5, <3>1, <3>2
    <3>4. PICK x \in 1..Window : x = u - t /\ (u \in C <=> x \in B) BY <1>17, <3>3
    <3>5. CASE f = 1
      <4>1. n > 0 /\ x > a[1] BY <3>1, <3>3, <3>4, <3>5
      <4>2. x \in B <=> v[1] = 0 BY <1>4, <4>1 DEF Tells
      <4> QED BY <3>2, <3>4, <3>5, <4>2
    <3>6. CASE f # 1
      <4>1. PICK k \in 1..(n - 1) : k + 1 = f /\ k < f BY <3>1, <3>6
      <4>2. k \in 1..n OBVIOUS
      <4>3. a[k] + t > Window BY <1>15, <4>1, <4>2
      <4>4. x \in 1..a[k] /\ x > a[k + 1] BY <2>0, <3>3, <3>4, <4>1, <4>2, <4>3
      <4>5. x \in B <=> v[k] = 1 BY <1>4, <4>2, <4>4 DEF Tells
      <4>6. v[k] # v[f] BY <1>4, <4>1 DEF Tells
      <4>7. v[k] = 1 <=> v[f] = 0 BY <3>1, <4>2, <4>6
      <4> QED BY <3>2, <3>4, <4>5, <4>7
    <3> QED BY <3>5, <3>6
  <2>6. ASSUME NEW i \in 1..m, NEW u \in 1..b[i], i < m => u > b[i + 1]
        PROVE  u \in C <=> w[i] = 1
    <3>1. PICK k \in 1..n : k = (f - 1) + i BY <1>8
    <3>2. b[i] = a[k] + t /\ w[i] = v[k] BY <1>14, <3>1
    <3>3. u \in 1..Window BY <2>0, <2>6
    <3>4. CASE u <= t
      <4>1. i = m
        <5>1. SUFFICES ASSUME i < m PROVE FALSE OBVIOUS
        <5>2. i + 1 \in 1..m /\ b[i + 1] < t BY <2>0, <2>6, <3>3, <3>4, <5>1
        <5>3. b[i + 1] = a[(f - 1) + (i + 1)] + t BY <1>14, <5>2
        <5>4. PICK h \in 1..n : h = (f - 1) + (i + 1) BY <1>8, <5>2
        <5> QED BY <2>0, <5>2, <5>3, <5>4
      <4>2. w[m] = l BY <2>3, <4>1
      <4> QED BY <1>16, <3>3, <3>4, <4>1, <4>2
    <3>5. CASE u > t
      <4>1. PICK x \in 1..Window : x = u - t /\ (u \in C <=> x \in B) BY <1>17, <3>3, <3>5
      <4>2. x \in 1..a[k] BY <2>0, <2>6, <3>1, <3>2, <4>1
      <4>3. k < n => x > a[k + 1]
        <5>1. SUFFICES ASSUME k < n PROVE x > a[k + 1] OBVIOUS
        <5>2. i + 1 \in 1..m /\ i < m /\ k + 1 \in 1..n /\ k + 1 = (f - 1) + (i + 1)
          BY <1>8, <3>1, <5>1
        <5>3. b[i + 1] = a[k + 1] + t BY <1>14, <5>2
        <5> QED BY <2>0, <2>6, <3>3, <4>1, <5>2, <5>3
      <4>4. x \in B <=> v[k] = 1 BY <1>4, <4>2, <4>3 DEF Tells
      <4> QED BY <3>2, <4>1, <4>4
    <3> QED BY <3>3, <3>4, <3>5
  <2> QED BY <2>1, <2>2, <2>3, <2>4, <2>5, <2>6 DEF Tells
<1>19. Tells(Len(entries), Ages, Values, lastValue, Worked)'
  BY <1>3, <1>7, <1>9, <1>13, <1>18
<1>20. ~known' => entries' = <<>> /\ lastValue' = 0
  <2>1. SUFFICES ASSUME ~known' PROVE entries' = <<>> /\ lastValue' = 0 OBVIOUS
  <2>2. n = 0 /\ lastValue = 0 BY <1>1, <1>2, <1>7, <2>1
  <2> QED BY <1>7, <1>8, <1>9, <2>2
<1>21. lastValue' = 1 <=> Running' # {} BY <1>1, <1>7 DEF Running
<1> QED BY <1>12, <1>19, <1>20, <1>21 DEF WindowInv

LEMMA WindowStep == ServerIndInv /\ WindowInv /\ [ProbeNext]_allVars => WindowInv'
<1> SUFFICES ASSUME ServerIndInv, WindowInv, [ProbeNext]_allVars, ~deleted'
             PROVE  WindowInv'
  BY DEF WindowInv
<1>1. ServerTypes /\ ServerTypes' BY StepInd, ProbeStepIsServerStep DEF ServerIndInv
<1>2. ASSUME UNCHANGED allVars PROVE WindowInv'
  <2>1. UNCHANGED probeVars /\ running' = running /\ deleted' = deleted
    BY <1>2 DEF allVars, vars, serverVars
  <2>2. ~deleted BY <2>1
  <2>3. Running' = {} <=> Running = {} BY <2>1 DEF Running
  <2> QED BY <2>1, <2>2, <2>3, SameWindow
<1>3. ASSUME (EndExecution \/ JobArrives) /\ Emits PROVE WindowInv'
  <2>1. ~deleted BY <1>3 DEF EndExecution, JobArrives
  <2> QED BY <1>1, <1>3, <2>1, EmitsInd
<1>4. ASSUME CompleteRemove PROVE WindowInv' BY <1>4 DEF CompleteRemove
<1>5. ASSUME Source \/ ArrivalMonitor \/ LoadBalancer \/ Enqueue \/ RemoveServer,
             UNCHANGED probeVars
      PROVE  WindowInv'
  <2>1. running' = running /\ deleted' = deleted
    BY <1>5 DEF Source, ArrivalMonitor, LoadBalancer, Enqueue, RemoveServer, serverVars
  <2>2. ~deleted BY <2>1
  <2>3. Running' = {} <=> Running = {} BY <2>1 DEF Running
  <2> QED BY <1>5, <2>2, <2>3, SameWindow
<1>6. ASSUME NEW t \in 1..Max({MaxGap, endIn}), AdvanceBy(t), Moves(t) PROVE WindowInv'
  <2>1. running' = running /\ deleted' = deleted BY <1>6 DEF AdvanceBy
  <2>2. ~deleted BY <2>1
  <2>3. t \in Nat \ {0}
    <3>1. MaxGap \in Int /\ endIn \in Int BY <1>1, AppServerAssumption DEF ServerTypes
    <3>2. Max({MaxGap, endIn}) \in Int BY <3>1, TwoNumbers
    <3> QED BY <3>2
  <2> QED BY <1>1, <1>6, <2>1, <2>2, <2>3, MovesInd
<1> QED BY <1>2, <1>3, <1>4, <1>5, <1>6 DEF ProbeNext

(* What is left of a deleted server: no thread, no message that could      *)
(* reach it, and no entry of the probe.                                    *)
GoneInv ==
    deleted =>
       /\ ~connected /\ Running = {} /\ \A e \in ToSet(fes) : e.to # "server"
       /\ ~known /\ entries = <<>> /\ lastValue = 0

LEMMA GoneStep == ServerIndInv /\ GoneInv /\ [ProbeNext]_allVars => GoneInv'
<1> SUFFICES ASSUME ServerIndInv, GoneInv, [ProbeNext]_allVars, deleted' PROVE GoneInv'
  BY DEF GoneInv
<1>1. ServerTypes /\ MessagesInv BY DEF ServerIndInv
<1>2. ASSUME UNCHANGED allVars PROVE GoneInv'
  <2>1. UNCHANGED <<probeVars, running, deleted, connected, fes>> BY <1>2 DEF allVars, vars, serverVars
  <2> QED BY <2>1 DEF GoneInv, Running, probeVars
<1>3. ~((EndExecution \/ JobArrives) /\ Emits)
  <2>1. ASSUME EndExecution \/ JobArrives PROVE FALSE
    <3>1. deleted BY <2>1 DEF EndExecution, JobArrives
    <3>2. PICK m \in {"self", "server"} : Take(m) BY <2>1 DEF EndExecution, JobArrives
    <3>3. Head(fes) \in ToSet(fes) /\ Head(fes) \in Events /\ Head(fes).to = m BY <1>1, <3>2, TakenIs
    <3>4. m = "self" BY <3>1, <3>2, <3>3 DEF GoneInv
    <3>5. Head(fes) = endExecutionMsg BY <3>3, <3>4, Modules
    <3> QED BY <1>1, <3>1, <3>3, <3>5 DEF GoneInv, MessagesInv
  <2> QED BY <2>1
<1>4. ASSUME CompleteRemove, ServerRemoved PROVE GoneInv'
  <2>1. Take("executionManager") /\ fes' = Undeleted /\ running' = <<>> /\ connected' = connected
    BY <1>4 DEF CompleteRemove
  <2>2. Undeleted = Tail(fes) /\ Head(fes) = completeRemoveMsg /\ completeRemoveMsg \in ToSet(fes)
    BY <1>1, <2>1, UndeletedIsTail
  <2>3. ~connected /\ \A e \in ToSet(fes) : e.to # "server" BY <1>1, <2>2 DEF MessagesInv
  <2>4. ToSet(Tail(fes)) = ToSet(fes) \ {Head(fes)}
    BY <1>1, <2>1, HeadAndTail DEF ServerTypes, MessagesInv, Take
  <2>5. Running' = {}
    <3>1. DOMAIN <<>> = {} OBVIOUS
    <3> QED BY <2>1, <3>1 DEF Running
  <2>6. \A e \in ToSet(fes)' : e.to # "server" BY <2>1, <2>2, <2>3, <2>4
  <2> QED BY <1>4, <2>1, <2>3, <2>5, <2>6 DEF GoneInv, ServerRemoved
<1>5. ASSUME Source \/ ArrivalMonitor \/ LoadBalancer, UNCHANGED probeVars PROVE GoneInv'
  <2>1. UNCHANGED <<running, deleted, connected>>
    BY <1>5 DEF Source, ArrivalMonitor, LoadBalancer, serverVars
  <2>2. PICK X : /\ ToSet(fes') = (ToSet(fes) \ {Head(fes)}) \cup X
                 /\ \A e \in X : e.to \in {"source", "arrivalMonitor", "loadBalancer", "queue"}
    BY <1>5, UpstreamSends
  <2>3. \A e \in ToSet(fes') : e.to # "server" BY <2>1, <2>2 DEF GoneInv
  <2> QED BY <1>5, <2>1, <2>3 DEF GoneInv, Running, probeVars
<1>6. ~(Enqueue \/ RemoveServer)
  <2>1. ~RemoveServer BY DEF RemoveServer, GoneInv
  <2>2. ASSUME Enqueue PROVE FALSE
    <3>1. Take("queue") /\ deleted BY <2>2 DEF Enqueue
    <3>2. Head(fes) \in ToSet(fes) /\ Head(fes).to = "queue" BY <1>1, <3>1, TakenIs
    <3> QED BY <1>1, <3>1, <3>2 DEF GoneInv, MessagesInv
  <2> QED BY <2>1, <2>2
<1>7. ASSUME NEW t \in 1..Max({MaxGap, endIn}), AdvanceBy(t), Moves(t) PROVE GoneInv'
  <2>1. UNCHANGED <<running, deleted, connected, known, lastValue>> BY <1>7 DEF AdvanceBy, Moves
  <2>2. ToSet(fes') \subseteq {newJobTimer, endExecutionMsg} BY <1>7 DEF AdvanceBy
  <2>3. \A e \in ToSet(fes') : e.to # "server" BY <2>2, Modules
  <2>4. entries' = <<>>
    <3>1. entries = <<>> BY <2>1 DEF GoneInv
    <3> DEFINE q == [i \in DOMAIN entries |-> [entries[i] EXCEPT !.age = @ + t]]
    <3>2. q = <<>> BY <3>1
    <3>3. entries' = removeOldEntries(q) BY <1>7 DEF Moves
    <3>4. removeOldEntries(<<>>) = <<>>
      <4> DEFINE front == Min({i \in 1..(Len(<<>>) + 1) : i <= Len(<<>>) => <<>>[i].age <= Window})
      <4>1. {i \in 1..(Len(<<>>) + 1) : i <= Len(<<>>) => <<>>[i].age <= Window} = {1} OBVIOUS
      <4>2. front = 1 BY <4>1 DEF Min
      <4>3. SubSeq(<<>>, 1, Len(<<>>)) = <<>> OBVIOUS
      <4> QED BY <4>2, <4>3 DEF removeOldEntries
    <3> QED BY <3>2, <3>3, <3>4
  <2> QED BY <2>1, <2>3, <2>4 DEF GoneInv, Running
<1> QED BY <1>2, <1>3, <1>4, <1>5, <1>6, <1>7 DEF ProbeNext

-----------------------------------------------------------------------------
(* How much of the window was worked                                       *)

Later(x) == {u \in Worked : u > x}

LEMMA Grows ==
    ASSUME NEW B, IsFiniteSet(B), NEW x \in Nat, NEW y \in Nat, x <= y,
           B \cap ((x + 1)..y) = {}
    PROVE  Cardinality(B \cup ((x + 1)..y)) = Cardinality(B) + (y - x)
<1>1. x + 1 \in Int /\ y \in Int OBVIOUS
<1>2. /\ IsFiniteSet((x + 1)..y)
      /\ Cardinality((x + 1)..y) = IF x + 1 > y THEN 0 ELSE y - (x + 1) + 1
  BY <1>1, FS_Interval
<1>3. (IF x + 1 > y THEN 0 ELSE y - (x + 1) + 1) = y - x OBVIOUS
<1> QED BY <1>2, <1>3, ApartCounts

LEMMA FewUnits ==
    ASSUME WindowTypes, NEW x
    PROVE  IsFiniteSet(Later(x)) /\ IsFiniteSet(Worked) /\ Cardinality(Later(x)) \in Nat
<1>1. 1 \in Int /\ Window \in Int BY WindowSizes
<1>2. IsFiniteSet(1..Window) BY <1>1, FS_Interval
<1>3. Worked \in SUBSET (1..Window) /\ Later(x) \in SUBSET (1..Window) BY DEF Worked, Later
<1>4. IsFiniteSet(Worked) /\ IsFiniteSet(Later(x)) BY <1>2, <1>3, FS_Subset
<1> QED BY <1>4, FS_CardinalityType

(* An entry with value v counts what was worked up to the next entry.      *)
LEMMA WorkedBetween ==
    ASSUME WindowTypes, NEW n \in Nat \ {0}, n = Len(entries),
           Tells(n, Ages, Values, lastValue, Worked)
    PROVE  /\ Cardinality(Later(Ages[1])) = IF Values[1] = 0 THEN Window - Ages[1] ELSE 0
           /\ \A k \in 1..(n - 1) :
                 Cardinality(Later(Ages[k + 1])) =
                 Cardinality(Later(Ages[k])) + IF Values[k] = 1 THEN Ages[k] - Ages[k + 1] ELSE 0
           /\ Cardinality(Worked) =
              Cardinality(Later(Ages[n])) + IF Values[n] = 1 THEN Ages[n] ELSE 0
<1>1. PICK a \in [1..n -> 0..Window], v \in [1..n -> {0, 1}], B \in SUBSET (1..Window) :
          a = Ages /\ v = Values /\ B = Worked
  BY Reading
<1>2. Tells(n, a, v, lastValue, B) /\ Window \in Nat BY <1>1, WindowSizes
<1>3. /\ \A x : /\ IsFiniteSet(Later(x)) /\ Cardinality(Later(x)) \in Nat
                /\ \A u : u \in Later(x) <=> u \in B /\ u > x
      /\ \A u \in B : u \in Nat \ {0} /\ u <= Window
  <2>1. \A x : IsFiniteSet(Later(x)) /\ Cardinality(Later(x)) \in Nat BY FewUnits
  <2>2. \A x, u : u \in Later(x) <=> u \in B /\ u > x BY <1>1 DEF Later
  <2>3. \A u \in B : u \in Nat \ {0} /\ u <= Window BY WindowSizes
  <2> QED BY <2>1, <2>2, <2>3
<1>4. Cardinality({}) = 0 /\ IsFiniteSet({}) BY FS_EmptySet
<1>5. Cardinality(Later(a[1])) = IF v[1] = 0 THEN Window - a[1] ELSE 0
  <2>1. 1 \in 1..n /\ a[1] \in Nat /\ a[1] <= Window /\ v[1] \in {0, 1} BY <1>2
  <2>2. \A u \in 1..Window : u > a[1] => (u \in B <=> v[1] = 0) BY <1>2, <2>1 DEF Tells
  <2>3. CASE v[1] = 0
    <3>1. Later(a[1]) = {} \cup ((a[1] + 1)..Window)
      <4>1. ASSUME NEW u \in Later(a[1]) PROVE u \in (a[1] + 1)..Window
        <5>1. u \in Nat /\ u <= Window /\ u > a[1] BY <1>3, <4>1
        <5> QED BY <1>2, <2>1, <5>1
      <4>2. ASSUME NEW u \in (a[1] + 1)..Window PROVE u \in Later(a[1])
        <5>1. u \in 1..Window /\ u > a[1] BY <1>2, <2>1, <4>2
        <5> QED BY <1>3, <2>2, <2>3, <5>1
      <4> QED BY <4>1, <4>2
    <3>2. Cardinality({} \cup ((a[1] + 1)..Window)) = Cardinality({}) + (Window - a[1])
      BY <1>2, <1>4, <2>1, Grows
    <3> QED BY <1>2, <1>4, <2>1, <2>3, <3>1, <3>2
  <2>4. CASE v[1] = 1
    <3>1. Later(a[1]) = {}
      <4>1. SUFFICES ASSUME NEW u \in Later(a[1]) PROVE FALSE OBVIOUS
      <4>2. u \in B /\ u > a[1] /\ u \in 1..Window BY <1>2, <1>3
      <4> QED BY <2>2, <2>4, <4>2
    <3> QED BY <1>4, <2>4, <3>1
  <2> QED BY <2>1, <2>3, <2>4
<1>6. ASSUME NEW k \in 1..(n - 1)
      PROVE  Cardinality(Later(a[k + 1])) =
             Cardinality(Later(a[k])) + IF v[k] = 1 THEN a[k] - a[k + 1] ELSE 0
  <2>1. /\ k \in 1..n /\ k + 1 \in 1..n /\ a[k] \in Nat /\ a[k + 1] \in Nat /\ v[k] \in {0, 1}
        /\ a[k] <= Window /\ a[k + 1] <= a[k]
    BY <1>2 DEF Tells
  <2>2. \A u \in 1..a[k] : u > a[k + 1] => (u \in B <=> v[k] = 1) BY <1>2, <2>1 DEF Tells
  <2>5. \A u : u \in Later(a[k]) => u \in Later(a[k + 1])
    <3>1. SUFFICES ASSUME NEW u, u \in Later(a[k]) PROVE u \in Later(a[k + 1]) OBVIOUS
    <3>2. u \in B /\ u \in Nat /\ u > a[k] BY <1>3, <3>1
    <3>3. u > a[k + 1] BY <2>1, <3>2
    <3> QED BY <1>3, <3>2, <3>3
  <2>3. CASE v[k] = 1
    <3>1. Later(a[k + 1]) = Later(a[k]) \cup ((a[k + 1] + 1)..a[k])
      <4>1. ASSUME NEW u \in Later(a[k + 1]) PROVE u \in Later(a[k]) \cup ((a[k + 1] + 1)..a[k])
        <5>1. u \in B /\ u \in Nat /\ u > a[k + 1] BY <1>3, <4>1
        <5>2. CASE u > a[k] BY <1>3, <5>1, <5>2
        <5>3. CASE ~(u > a[k]) BY <2>1, <5>1, <5>3
        <5> QED BY <5>2, <5>3
      <4>2. ASSUME NEW u \in (a[k + 1] + 1)..a[k] PROVE u \in Later(a[k + 1])
        <5>1. u \in 1..a[k] /\ u > a[k + 1] BY <2>1, <4>2
        <5>2. u \in B BY <2>2, <2>3, <5>1
        <5> QED BY <1>3, <5>1, <5>2
      <4> QED BY <2>5, <4>1, <4>2
    <3>2. Later(a[k]) \cap ((a[k + 1] + 1)..a[k]) = {} BY <1>3, <2>1
    <3>3. Cardinality(Later(a[k]) \cup ((a[k + 1] + 1)..a[k])) =
          Cardinality(Later(a[k])) + (a[k] - a[k + 1])
      BY <1>3, <2>1, <3>2, Grows
    <3> QED BY <2>3, <3>1, <3>3
  <2>4. CASE v[k] = 0
    <3>1. Later(a[k + 1]) = Later(a[k])
      <4>1. ASSUME NEW u \in Later(a[k + 1]) PROVE u \in Later(a[k])
        <5>1. u \in B /\ u > a[k + 1] /\ u \in 1..Window BY <1>3, <4>1
        <5>2. ~(u \in 1..a[k]) BY <2>2, <2>4, <5>1
        <5> QED BY <1>2, <1>3, <2>1, <5>1, <5>2
      <4> QED BY <2>5, <4>1
    <3>2. Cardinality(Later(a[k])) + 0 = Cardinality(Later(a[k])) BY <1>3
    <3> QED BY <2>4, <3>1, <3>2
  <2> QED BY <2>1, <2>3, <2>4
<1>7. Cardinality(B) = Cardinality(Later(a[n])) + IF v[n] = 1 THEN a[n] ELSE 0
  <2>1. n \in 1..n /\ a[n] \in Nat /\ v[n] \in {0, 1} /\ a[n] <= Window BY <1>2
  <2>2. \A u \in 1..a[n] : u \in B <=> v[n] = 1 BY <1>2, <2>1 DEF Tells
  <2>3. CASE v[n] = 1
    <3>1. B = Later(a[n]) \cup ((0 + 1)..a[n])
      <4>1. ASSUME NEW u \in B PROVE u \in Later(a[n]) \cup ((0 + 1)..a[n])
        BY <1>2, <1>3, <2>1, <4>1
      <4>2. ASSUME NEW u \in (0 + 1)..a[n] PROVE u \in B
        <5>1. u \in 1..a[n] BY <2>1, <4>2
        <5> QED BY <2>2, <2>3, <5>1
      <4>3. ASSUME NEW u \in Later(a[n]) PROVE u \in B BY <1>3, <4>3
      <4> QED BY <4>1, <4>2, <4>3
    <3>2. Later(a[n]) \cap ((0 + 1)..a[n]) = {} BY <1>3, <2>1
    <3>3. 0 \in Nat /\ 0 <= a[n] /\ a[n] - 0 = a[n] BY <2>1
    <3>4. Cardinality(Later(a[n]) \cup ((0 + 1)..a[n])) = Cardinality(Later(a[n])) + (a[n] - 0)
      BY <1>3, <2>1, <3>2, <3>3, Grows
    <3> QED BY <2>3, <3>1, <3>3, <3>4
  <2>4. CASE v[n] = 0
    <3>1. B = Later(a[n])
      <4>1. ASSUME NEW u \in B PROVE u \in Later(a[n])
        <5>1. u \in 1..Window /\ ~(u \in 1..a[n]) BY <2>2, <2>4
        <5> QED BY <1>2, <1>3, <2>1, <5>1
      <4>2. Later(a[n]) \subseteq B BY <1>3
      <4> QED BY <4>1, <4>2
    <3>2. Cardinality(Later(a[n])) + 0 = Cardinality(Later(a[n])) BY <1>3
    <3> QED BY <2>4, <3>1, <3>2
  <2> QED BY <2>1, <2>3, <2>4
<1> QED BY <1>1, <1>5, <1>6, <1>7

(* Before the first entry nothing is counted.                              *)
Counted(k) ==
    [busyTime |-> IF k = 0 THEN 0 ELSE Cardinality(Later(Ages[k])),
     since    |-> IF k = 0 THEN Window
                  ELSE IF Values[k] = 1 THEN Ages[k]
                  ELSE IF k = 1 THEN Window ELSE Ages[k - 1],
     level    |-> IF k = 0 THEN -1 ELSE Values[k]]

LEMMA CountsNext ==
    ASSUME WindowTypes, NEW n \in Nat, n = Len(entries),
           Tells(n, Ages, Values, lastValue, Worked), NEW k \in 1..n
    PROVE  NextEntry(entries[k], Counted(k - 1)) = Counted(k)
<1>1. PICK a \in [1..n -> 0..Window], v \in [1..n -> {0, 1}] : a = Ages /\ v = Values
  BY Reading
<1>2. Window \in Nat /\ n \in Nat \ {0} BY WindowSizes
<1>3. PICK x \in 0..Window, y \in {0, 1} : x = a[k] /\ y = v[k] OBVIOUS
<1>4. entries[k].age = x /\ entries[k].value = y BY <1>1, <1>3 DEF Ages, Values
<1>5. PICK c \in [1..n -> Nat] : \A i \in 1..n : c[i] = Cardinality(Later(Ages[i]))
  <2>1. \A i \in 1..n : Cardinality(Later(Ages[i])) \in Nat BY FewUnits
  <2>2. [i \in 1..n |-> Cardinality(Later(Ages[i]))] \in [1..n -> Nat] BY <2>1
  <2> QED BY <2>2
<1>6. /\ c[1] = IF v[1] = 0 THEN Window - a[1] ELSE 0
      /\ \A i \in 1..(n - 1) : c[i + 1] = c[i] + IF v[i] = 1 THEN a[i] - a[i + 1] ELSE 0
  <2>1. 1 \in 1..n /\ \A i \in 1..(n - 1) : i \in 1..n /\ i + 1 \in 1..n BY <1>2
  <2>2. /\ Cardinality(Later(Ages[1])) = IF Values[1] = 0 THEN Window - Ages[1] ELSE 0
        /\ \A i \in 1..(n - 1) :
              Cardinality(Later(Ages[i + 1])) =
              Cardinality(Later(Ages[i])) + IF Values[i] = 1 THEN Ages[i] - Ages[i + 1] ELSE 0
    BY <1>2, WorkedBetween
  <2> QED BY <1>1, <1>5, <2>1, <2>2
<1>7. CASE k = 1
  <2>1. Counted(k - 1) = [busyTime |-> 0, since |-> Window, level |-> -1] BY <1>7 DEF Counted
  <2>2. NextEntry(entries[k], Counted(k - 1)) =
        [busyTime |-> 0 + IF y = 0 THEN Window - x ELSE 0,
         since |-> IF y > 0 THEN x ELSE Window, level |-> y]
    BY <1>2, <1>4, <2>1 DEF NextEntry
  <2>3. Counted(k) = [busyTime |-> c[1], since |-> IF y = 1 THEN x ELSE Window, level |-> y]
    BY <1>1, <1>3, <1>5, <1>7 DEF Counted
  <2>4. 0 + (IF y = 0 THEN Window - x ELSE 0) = c[1] BY <1>2, <1>3, <1>6, <1>7
  <2>5. y > 0 <=> y = 1 OBVIOUS
  <2> QED BY <2>2, <2>3, <2>4, <2>5
<1>8. CASE k # 1
  <2>1. PICK i \in 1..(n - 1) : i = k - 1 /\ i + 1 = k /\ i # 0 /\ i \in 1..n BY <1>8
  <2>2. PICK z \in 0..Window, d \in {0, 1}, s \in 0..Window :
            z = a[i] /\ d = v[i] /\ s = Counted(i).since /\ (d = 1 => s = z)
    <3>1. Counted(i).since = IF v[i] = 1 THEN a[i] ELSE IF i = 1 THEN Window ELSE a[i - 1]
      BY <1>1, <2>1 DEF Counted
    <3>2. i # 1 => i - 1 \in 1..n BY <2>1
    <3>3. Counted(i).since \in 0..Window BY <1>2, <2>1, <3>1, <3>2
    <3> QED BY <2>1, <3>1, <3>3
  <2>3. PICK p \in Nat : p = c[i] BY <2>1
  <2>4. Counted(i) = [busyTime |-> p, since |-> s, level |-> d]
    BY <1>1, <1>5, <2>1, <2>2, <2>3 DEF Counted
  <2>5. d # y BY <1>1, <1>3, <2>1, <2>2 DEF Tells
  <2>6. NextEntry(entries[k], Counted(i)) =
        [busyTime |-> p + IF d > 0 /\ y = 0 THEN s - x ELSE 0,
         since |-> IF d <= 0 /\ y > 0 THEN x ELSE s, level |-> y]
    <3>1. ~(d < 0) OBVIOUS
    <3> QED BY <1>4, <2>4, <3>1 DEF NextEntry
  <2>7. Counted(k) = [busyTime |-> c[k], since |-> IF y = 1 THEN x ELSE z, level |-> y]
    BY <1>1, <1>3, <1>5, <1>8, <2>1, <2>2 DEF Counted
  <2>8. c[k] = p + IF d > 0 /\ y = 0 THEN s - x ELSE 0
    <3>1. c[k] = p + IF d = 1 THEN z - x ELSE 0 BY <1>3, <1>6, <2>1, <2>2, <2>3
    <3> QED BY <2>2, <2>5, <3>1
  <2>9. (IF d <= 0 /\ y > 0 THEN x ELSE s) = (IF y = 1 THEN x ELSE z) BY <2>2, <2>5
  <2> QED BY <2>1, <2>6, <2>7, <2>8, <2>9
<1> QED BY <1>7, <1>8

(* The pass over the entries, from the oldest on.                          *)
LEMMA AfterIs ==
    ASSUME WindowTypes, NEW n \in Nat, n = Len(entries),
           Tells(n, Ages, Values, lastValue, Worked)
    PROVE  After[n] = Counted(n)
<1> DEFINE g == [k \in 0..n |-> Counted(k)]
           Rule(f) == f = [k \in 0..Len(entries) |->
                              IF k = 0 THEN [busyTime |-> 0, since |-> Window, level |-> -1]
                              ELSE NextEntry(entries[k], f[k - 1])]
<1>1. Rule(g)
  <2>1. ASSUME NEW k \in 0..n
        PROVE  g[k] = IF k = 0 THEN [busyTime |-> 0, since |-> Window, level |-> -1]
                      ELSE NextEntry(entries[k], g[k - 1])
    <3>1. CASE k = 0 BY <3>1 DEF Counted
    <3>2. CASE k # 0
      <4>1. k \in 1..n /\ k - 1 \in 0..n BY <3>2
      <4>2. g[k - 1] = Counted(k - 1) /\ g[k] = Counted(k) BY <4>1
      <4> QED BY <3>2, <4>1, <4>2, CountsNext
    <3> QED BY <3>1, <3>2
  <2> QED BY <2>1
<1>2. Rule(After) BY <1>1 DEF After
<1>3. \A k \in 0..n : k # 0 => After[k] = NextEntry(entries[k], After[k - 1]) BY <1>2
<1>4. After[0] = Counted(0) BY <1>2 DEF Counted
<1> HIDE DEF g, Rule
<1> DEFINE T == {k \in Nat : k <= n => After[k] = Counted(k)}
<1>5. 0 \in T BY <1>4
<1>6. ASSUME NEW k \in Nat, k \in T PROVE k + 1 \in T
  <2>1. SUFFICES ASSUME k + 1 <= n PROVE After[k + 1] = Counted(k + 1) OBVIOUS
  <2>2. PICK h \in 1..n : h = k + 1 /\ h - 1 = k /\ h \in 0..n /\ h # 0 BY <2>1
  <2>3. After[h - 1] = Counted(h - 1) BY <1>6, <2>1, <2>2
  <2>4. After[h] = NextEntry(entries[h], Counted(h - 1)) BY <1>3, <2>2, <2>3
  <2> QED BY <2>2, <2>4, CountsNext
<1>7. \A k \in Nat : k \in T => k + 1 \in T BY <1>6
<1> HIDE DEF T
<1>8. Nat \subseteq T BY <1>5, <1>7, Upwards
<1> QED BY <1>8 DEF T

LEMMA WindowIsTrueOf == WindowInv /\ GoneInv => WindowIsTrue
<1> SUFFICES ASSUME WindowInv, ~deleted PROVE Utilization = Cardinality(Worked)
  BY DEF WindowIsTrue, Worked, GoneInv
<1>1. /\ WindowTypes /\ Tells(Len(entries), Ages, Values, lastValue, Worked)
      /\ ~known => entries = <<>> /\ lastValue = 0
      /\ lastValue \in {0, 1} /\ Window \in Nat
  BY WindowSizes DEF WindowInv, WindowTypes
<1>2. PICK n \in Nat : n = Len(entries) BY <1>1 DEF WindowTypes
<1>3. entries = <<>> <=> n = 0 BY <1>1, <1>2 DEF WindowTypes
<1>4. CASE n = 0
  <2>1. \A u \in 1..Window : u \in Worked <=> lastValue = 1 BY <1>1, <1>2, <1>4 DEF Tells
  <2>2. Worked \subseteq 1..Window BY DEF Worked
  <2>3. Cardinality(Worked) = IF lastValue = 1 THEN Window ELSE 0
    <3>1. CASE lastValue = 1
      <4>1. Worked = 1..Window BY <2>1, <2>2, <3>1
      <4>2. 1 \in Int /\ Window \in Int BY <1>1
      <4>3. Cardinality(1..Window) = IF 1 > Window THEN 0 ELSE (Window - 1) + 1
        BY <4>2, FS_Interval
      <4> QED BY <1>1, <3>1, <4>1, <4>3
    <3>2. CASE lastValue = 0
      <4>1. Worked = {} BY <2>1, <2>2, <3>2
      <4> QED BY <3>2, <4>1, FS_EmptySet
    <3> QED BY <1>1, <3>1, <3>2
  <2>4. getPercentageAboveZero = IF lastValue = 1 THEN Window ELSE 0
    BY <1>1, <1>3, <1>4 DEF getPercentageAboveZero, WithoutEntries
  <2> QED BY <1>1, <2>3, <2>4 DEF Utilization
<1>5. CASE n # 0
  <2>1. n \in Nat \ {0} /\ Tells(n, Ages, Values, lastValue, Worked) BY <1>1, <1>2, <1>5
  <2>2. Cardinality(Worked) = Cardinality(Later(Ages[n])) + IF Values[n] = 1 THEN Ages[n] ELSE 0
    BY <1>1, <1>2, <2>1, WorkedBetween
  <2>3. After[n] = Counted(n) BY <1>1, <1>2, <2>1, AfterIs
  <2>4. Values[n] \in {0, 1} BY <1>1, <1>2, <2>1, Reading
  <2>5. /\ Counted(n).busyTime = Cardinality(Later(Ages[n])) /\ Counted(n).level = Values[n]
        /\ Values[n] = 1 => Counted(n).since = Ages[n]
    BY <1>5 DEF Counted
  <2>6. Values[n] > 0 <=> Values[n] = 1 BY <2>4
  <2>7. getPercentageAboveZero =
        Counted(n).busyTime + IF Counted(n).level > 0 THEN Counted(n).since ELSE 0
    BY <1>2, <1>3, <1>5, <2>3 DEF getPercentageAboveZero
  <2>8. getPercentageAboveZero = Cardinality(Worked)
    <3>1. PICK d \in {0, 1} : d = Values[n] BY <2>4
    <3>2. CASE d = 1 BY <2>2, <2>5, <2>7, <3>1, <3>2
    <3>3. CASE d = 0 BY <2>2, <2>5, <2>7, <3>1, <3>3
    <3> QED BY <3>2, <3>3
  <2>9. known BY <1>1, <1>3, <1>5
  <2> QED BY <2>8, <2>9 DEF Utilization
<1> QED BY <1>4, <1>5

(* Of whatever trace, server and length of window: what holds of the       *)
(* server, and the busy signals and the pass over the entries give exactly *)
(* the time that it was busy in the last evaluation period, and nothing    *)
(* once it is gone (SimProbe::receiveSignal, TimeWindowStats).             *)
THEOREM ProbeHolds == ProbeSpec => []ProbeInv
<1>1. ProbeInit => WindowInv /\ GoneInv
  <2>1. ProbeInit => ~deleted BY DEF ProbeInit, Init
  <2> QED BY <2>1, WindowInit DEF GoneInv
<1>2. ServerIndInv /\ WindowInv /\ [ProbeNext]_allVars => WindowInv' BY WindowStep
<1>3. ServerIndInv /\ GoneInv /\ [ProbeNext]_allVars => GoneInv' BY GoneStep
<1>4. ProbeSpec => [](WindowInv /\ GoneInv) BY <1>1, <1>2, <1>3, ServerIndHolds, PTL DEF ProbeSpec
<1>5. ServerIndInv /\ WindowInv /\ GoneInv => ProbeInv BY ServerInvOf, WindowIsTrueOf DEF ProbeInv
<1> QED BY <1>4, <1>5, ServerIndHolds, PTL
=============================================================================
