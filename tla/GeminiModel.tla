------------------------------ MODULE GeminiModel ------------------------------
(***************************************************************************)
(* GeminiWorldModel: requests that share the permits of one asyncio         *)
(* semaphore, calls of the language model that time out or fail and are     *)
(* made again, and the memory of the conversation the requests write to.    *)
(* The handlers run in one event loop: a step is what a handler does        *)
(* between two awaits. A simulation takes a permit and then, like every     *)
(* request, another one for its call.                                       *)
(*                                                                         *)
(* The semaphore serves in the order of arrival: a permit that is given     *)
(* back goes to the first who waits. Prompts and replies are text; of a     *)
(* reply only its form is kept. The pause that spaces calls is a choice.    *)
(***************************************************************************)
EXTENDS Integers, Sequences, FiniteSets, SequencesExt

CONSTANTS
    Requests,     \* the requests of a behaviour
    Mixes,        \* what they may ask for
    Permits,      \* concurrent_requests, 5 by default
    Attempts,     \* retry_attempts, 3 by default
    Remembered,   \* max_conversation_memory, 50 by default
    InContext,    \* max_messages of _get_conversation_context, 10
    MaxNotes,     \* bound: events and calibrations
    MaxReloads    \* bound: reloads

ASSUME GeminiAssumption ==
    /\ IsFiniteSet(Requests) /\ {Permits, Attempts, Remembered, InContext} \subseteq Nat \ {0}
    /\ {MaxNotes, MaxReloads} \subseteq Nat
    /\ Mixes \subseteq [Requests -> {"query", "simulate", "diagnose", "health"}]

VARIABLES
    kind,         \* what each request asks for
    pc,           \* where its handler is
    attempt,      \* the call it makes, from 1
    held,         \* how many permits it holds
    outcome,      \* what it has come to
    free,         \* permits nobody holds
    waiters,      \* who waits for a permit, first come first served
    memory,       \* _conversation_memory, as role and request
    initialized,  \* is_initialized
    reloading,    \* reload_model tests the connection
    notes,        \* events and calibrations so far
    reloads       \* reloads so far

geminiVars == <<kind, pc, attempt, held, outcome, free, waiters, memory, initialized, reloading,
                notes, reloads>>

Working == {"spacing", "calling", "backoff"}

GeminiTypeOK ==
    /\ kind \in Mixes
    /\ pc \in [Requests -> {"idle", "outer", "inner", "done"} \cup Working]
    /\ attempt \in [Requests -> 0..Attempts] /\ held \in [Requests -> 0..2]
    /\ outcome \in [Requests -> {"none", "understood", "structured", "raw", "failed", "cancelled"}]
    /\ free \in 0..Permits /\ waiters \in Seq(Requests) /\ Len(memory) <= Remembered
    /\ initialized \in BOOLEAN /\ reloading \in BOOLEAN
    /\ notes \in 0..MaxNotes /\ reloads \in 0..MaxReloads

System == [role |-> "system", about |-> "model"]
Note == [role |-> "user", about |-> "event"]
Remember(entries) == LET m == memory \o entries IN
    memory' = SubSeq(m, 1 + (IF Len(m) > Remembered THEN Len(m) - Remembered ELSE 0), Len(m))

(* After initialize: the connection was tested and the memory says so.     *)
GeminiInit ==
    /\ kind \in Mixes /\ pc = [r \in Requests |-> "idle"]
    /\ attempt = [r \in Requests |-> 0] /\ held = [r \in Requests |-> 0]
    /\ outcome = [r \in Requests |-> "none"] /\ free = Permits /\ waiters = <<>>
    /\ memory = <<System>> /\ initialized = TRUE /\ reloading = FALSE
    /\ notes = 0 /\ reloads = 0

-----------------------------------------------------------------------------
(* The semaphore                                                           *)

(* r asks for n permits one after the other and goes to next with the      *)
(* last; it waits, at the place given for it, for the first that is taken. *)
Acquire(r, places, next) ==
    LET n == Len(places)
        got == IF waiters = <<>> /\ free < n THEN free ELSE IF waiters = <<>> THEN n ELSE 0
    IN  /\ free' = free - got
        /\ held' = [held EXCEPT ![r] = @ + got]
        /\ IF got = n
           THEN pc' = [pc EXCEPT ![r] = next] /\ UNCHANGED waiters
           ELSE pc' = [pc EXCEPT ![r] = places[got + 1]] /\ waiters' = Append(waiters, r)

Granted(r) == \A i \in DOMAIN waiters : waiters[i] # r

(* The queue without r, which waits in one place of it at most             *)
Without(r) ==
    IF Granted(r) THEN waiters
    ELSE LET place == CHOOSE i \in DOMAIN waiters : waiters[i] = r
         IN  [j \in 1..(Len(waiters) - 1) |-> waiters[IF j < place THEN j ELSE j + 1]]

(* r gives back all it holds and leaves the queue, at the end of its       *)
(* blocks; each permit goes to the next who waits.                         *)
Release(r) ==
    LET queue == Without(r)
        given == IF Len(queue) < held[r] THEN Len(queue) ELSE held[r]
        woken == {queue[i] : i \in 1..given}
    IN  /\ waiters' = SubSeq(queue, given + 1, Len(queue))
        /\ free' = free + held[r] - given
        /\ held' = [w \in Requests |-> IF w = r THEN 0 ELSE IF w \in woken THEN held[w] + 1 ELSE held[w]]

(* A handler ends, with an answer, with a failure it reports, or because   *)
(* its caller's deadline has cancelled it.                                 *)
End(r, result) ==
    /\ pc' = [pc EXCEPT ![r] = "done"] /\ outcome' = [outcome EXCEPT ![r] = result]
    /\ Release(r)
    /\ UNCHANGED <<kind, attempt, initialized, reloading, notes, reloads>>

-----------------------------------------------------------------------------
(* Requests                                                                *)

(* The context of a query is the end of the conversation, each message cut *)
(* to a length, which an answer that was a mapping cannot be.              *)
ContextReads ==
    \A i \in DOMAIN memory :
       Len(memory) - i < InContext /\ memory[i].role = "assistant" => outcome[memory[i].about] # "structured"

(* query_state, simulate, diagnose, get_health_status, up to their first   *)
(* await: taking a permit that is free does not wait.                      *)
Arrive(r) ==
    /\ pc[r] = "idle" /\ (kind[r] = "query" => ContextReads)
    /\ Acquire(r, IF kind[r] = "simulate" THEN <<"outer", "inner">> ELSE <<"inner">>, "spacing")
    /\ UNCHANGED <<kind, attempt, outcome, memory, initialized, reloading, notes, reloads>>

ContextFails(r) ==
    /\ pc[r] = "idle" /\ kind[r] = "query" /\ ~ContextReads
    /\ End(r, "failed") /\ UNCHANGED memory

(* The handler that was given a permit goes on: a simulation that got its  *)
(* first one asks for the second.                                          *)
Resume(r) ==
    /\ Granted(r)
    /\ \/ pc[r] = "outer" /\ Acquire(r, <<"inner">>, "spacing")
       \/ /\ pc[r] = "inner" /\ pc' = [pc EXCEPT ![r] = "spacing"]
          /\ UNCHANGED <<held, free, waiters>>
    /\ UNCHANGED <<kind, attempt, outcome, memory, initialized, reloading, notes, reloads>>

(* _generate_response calls, after the pause or after the backoff          *)
Call(r) ==
    /\ pc[r] \in {"spacing", "backoff"}
    /\ pc' = [pc EXCEPT ![r] = "calling"] /\ attempt' = [attempt EXCEPT ![r] = @ + 1]
    /\ UNCHANGED <<kind, held, outcome, free, waiters, memory, initialized, reloading, notes, reloads>>

(* What the extractors make of text: a diagnosis needs a module that was   *)
(* not imported.                                                           *)
FromText(k) == IF k = "diagnose" THEN "raw" ELSE "understood"

(* The parsers: what is not understood is still a success, with the reply  *)
(* as its explanation, but JSON whose fields are not texts and lists ends  *)
(* the handler when it counts what they hold. The answer to a query may be *)
(* a mapping.                                                              *)
Parsed(k, form) ==
    CASE form = "json" -> "understood"
      [] form = "mapping" -> "structured"
      [] form = "text" -> FromText(k)
      [] form = "broken" -> "raw"
      [] form = "odd" -> "failed"

Forms == {"json", "mapping", "text", "broken", "odd"}

(* query_state: the question and its answer are remembered together, the   *)
(* question alone when the answer was none.                                *)
Reply(r, form) ==
    /\ pc[r] = "calling" /\ kind[r] # "health" /\ (form = "mapping" => kind[r] = "query")
    /\ LET parsed == Parsed(kind[r], form) IN
       /\ Remember(<<[role |-> "user", about |-> r]>>
                    \o (IF parsed = "failed" THEN <<>> ELSE <<[role |-> "assistant", about |-> r]>>))
       /\ End(r, parsed)

(* get_health_status remembers nothing.                                    *)
HealthReply(r) ==
    /\ pc[r] = "calling" /\ kind[r] = "health"
    /\ End(r, IF initialized THEN "understood" ELSE "failed") /\ UNCHANGED memory

(* No reply in request_timeout_sec: the next attempt follows at once.      *)
CallTimesOut(r) ==
    /\ pc[r] = "calling" /\ attempt[r] < Attempts
    /\ attempt' = [attempt EXCEPT ![r] = @ + 1]
    /\ UNCHANGED <<kind, pc, held, outcome, free, waiters, memory, initialized, reloading, notes, reloads>>

(* An error, or a reply without content: the next attempt follows later.   *)
CallFails(r) ==
    /\ pc[r] = "calling" /\ attempt[r] < Attempts
    /\ pc' = [pc EXCEPT ![r] = "backoff"]
    /\ UNCHANGED <<kind, attempt, held, outcome, free, waiters, memory, initialized, reloading, notes, reloads>>

(* The last attempt was in vain: the request is answered with a failure.   *)
GiveUp(r) ==
    /\ pc[r] = "calling" /\ attempt[r] = Attempts
    /\ End(r, "failed") /\ UNCHANGED memory

(* The caller of a query, a simulation or a diagnosis cancels it when its  *)
(* deadline is over; the check of health gives up after 10 s and reports.  *)
BugDeadline(r) ==
    /\ pc[r] \in {"outer"} \cup Working
    /\ End(r, IF kind[r] = "health" THEN "failed" ELSE "cancelled") /\ UNCHANGED memory
Deadline(r) ==
    /\ pc[r] \in {"outer", "inner"} \cup Working
    /\ End(r, IF kind[r] = "health" THEN "failed" ELSE "cancelled") /\ UNCHANGED memory

-----------------------------------------------------------------------------
(* update_state and calibrate note in the memory what has come.            *)
Learn ==
    /\ notes < MaxNotes
    /\ notes' = notes + 1 /\ Remember(<<Note>>)
    /\ UNCHANGED <<kind, pc, attempt, held, outcome, free, waiters, initialized, reloading, reloads>>

(* reload_model: shutdown forgets the conversation, not the model, so that *)
(* requests go on; initialize tests the connection, outside the semaphore. *)
Reload ==
    /\ ~reloading /\ reloads < MaxReloads
    /\ reloads' = reloads + 1 /\ reloading' = TRUE
    /\ memory' = <<>> /\ initialized' = FALSE
    /\ UNCHANGED <<kind, pc, attempt, held, outcome, free, waiters, notes>>
Reloaded ==
    /\ reloading /\ reloading' = FALSE
    /\ \/ initialized' = TRUE /\ Remember(<<System>>)
       \/ UNCHANGED <<initialized, memory>>
    /\ UNCHANGED <<kind, pc, attempt, held, outcome, free, waiters, notes, reloads>>

GeminiNext ==
    \/ \E r \in Requests :
         \/ Arrive(r) \/ Resume(r) \/ Call(r) \/ CallTimesOut(r) \/ CallFails(r) \/ GiveUp(r) \/ Deadline(r)
         \/ ContextFails(r) \/ HealthReply(r) \/ \E form \in Forms : Reply(r, form)
    \/ Learn \/ Reload \/ Reloaded

(* Callers give every request a deadline, and the event loop cancels it.   *)
GeminiFairness == \A r \in Requests : WF_geminiVars(Deadline(r))

-----------------------------------------------------------------------------
(* Properties                                                              *)

(* The permits that are held: the first, or the first and second, of each. *)
Taken == {p \in Requests \X (1..2) : p[2] <= held[p[1]]}

(* However requests end, no permit is lost or given twice, nobody waits    *)
(* while one is free, and who makes calls holds what its kind takes.       *)
PermitsAccountedFor ==
    /\ free + Cardinality(Taken) = Permits
    /\ free > 0 => waiters = <<>>
    /\ \A r \in Requests :
         /\ pc[r] \in Working => held[r] = IF kind[r] = "simulate" THEN 2 ELSE 1
         /\ pc[r] \in {"idle", "done"} => held[r] = 0 /\ Granted(r)

(* Requests stand still, waiting with nobody at work, only when every      *)
(* permit is held by a simulation that waits for its second.               *)
BlockedBySimulations ==
    (waiters # <<>> /\ \A r \in Requests : pc[r] \notin Working /\ (pc[r] \in {"outer", "inner"} => ~Granted(r)))
      => Cardinality({r \in Requests : kind[r] = "simulate" /\ pc[r] = "inner"}) = Permits

(* In the memory, which is what the next prompts show, an answer follows   *)
(* the question it answers, whatever else was asked in between, and is one *)
(* that was given.                                                         *)
AnswersFollowQuestions ==
    \A i \in DOMAIN memory : memory[i].role = "assistant" =>
        /\ i > 1 => memory[i - 1] = [role |-> "user", about |-> memory[i].about]
        /\ outcome[memory[i].about] \in {"understood", "structured", "raw"}

(* Every request ends, those that block each other at their deadlines.     *)
RequestsEnd == \A r \in Requests : pc[r] # "idle" ~> pc[r] = "done"
=============================================================================
