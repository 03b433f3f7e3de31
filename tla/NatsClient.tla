------------------------------ MODULE NatsClient ------------------------------
(***************************************************************************)
(* NATSClient and the component that owns it (BaseComponent and            *)
(* ExternalAdapter): connecting under a lock with a bounded number of      *)
(* attempts, subscribing, publishing from several tasks that each make     *)
(* sure there is a connection, and stopping.                               *)
(*                                                                         *)
(* The NATS library and the server are external: a connection is lost when *)
(* the server goes away, the library reconnects it with its subscriptions  *)
(* or gives up, and connecting an object again that was connected before   *)
(* may or may not keep its subscriptions. All of this also happens while a *)
(* task awaits a connection, and to an object nobody closed.               *)
(***************************************************************************)
EXTENDS Naturals

CONSTANTS
    Subjects,        \* what the component subscribes to
    Publishers,      \* its tasks that publish
    Starter,         \* the task that starts and stops it
    Nobody,
    MaxAttempts,     \* max_reconnect_attempts
    MaxOutages       \* bound: how often the server goes away

ASSUME NatsAssumption ==
    /\ Starter \notin Publishers /\ Nobody \notin Publishers \cup {Starter}
    /\ MaxAttempts \in Nat \ {0} /\ MaxOutages \in Nat

VARIABLES
    server, outages,       \* whether NATS is up, and how often it has gone away
    nc,                    \* the library's object: self.nc, or what is left of it
    orphan,                \* self.nc is None, and the object goes on without it
    is_connected,          \* _is_connected
    connect_lock, tries,   \* who is in connect(), and its failed attempts
    subscriptions,         \* _subscriptions
    heard,                 \* the subjects nc is subscribed to
    life, external,        \* the component, and whether it has a connector of its own
    managed,               \* the managed system's connector is connected
    at,                    \* per task: how far its call of the client is
    remade,                \* history: connected again after it had subscribed
    fresh                  \* history: a task has connected, and nothing was lost since

clientVars ==
    <<nc, orphan, is_connected, connect_lock, tries, subscriptions, heard, remade, fresh>>
natsVars == <<server, outages, clientVars, life, external, managed, at>>

Callers == Publishers \cup {Starter}
Working == {"attaching", "up", "detaching"}
Letting == {"closing", "draining", "cut", "stopped"}

NatsTypeOK ==
    /\ server \in BOOLEAN /\ outages \in 0..MaxOutages
    /\ nc \in {"none", "connecting", "connected", "reconnecting", "closed"}
    /\ orphan \in BOOLEAN /\ is_connected \in BOOLEAN
    /\ connect_lock \in Callers \cup {Nobody} /\ tries \in 0..(MaxAttempts - 1)
    /\ subscriptions \subseteq Subjects /\ heard \subseteq Subjects
    /\ life \in {"new", "connecting", "subscribing", "failed"} \cup Working \cup Letting
    /\ external \in BOOLEAN /\ managed \in BOOLEAN /\ remade \in BOOLEAN /\ fresh \in BOOLEAN
    /\ at \in [Callers -> {"idle", "ask", "lock", "opening", "retry", "do", "raised", "ended"}]

NatsInit ==
    /\ server \in BOOLEAN /\ outages = 0
    /\ nc = "none" /\ orphan = FALSE /\ is_connected = FALSE
    /\ connect_lock = Nobody /\ tries = 0
    /\ subscriptions = {} /\ heard = {} /\ remade = FALSE /\ fresh = FALSE
    /\ life = "new" /\ external \in BOOLEAN /\ managed = FALSE
    /\ at = [c \in Callers |-> IF c = Starter THEN "idle" ELSE "ended"]

-----------------------------------------------------------------------------
(* The server and the library                                              *)

Component == UNCHANGED <<life, external, managed, at>>

ServerChanges ==
    /\ server' = ~server
    /\ outages' = IF server THEN outages + 1 ELSE outages
    /\ outages' <= MaxOutages
    /\ UNCHANGED clientVars /\ Component

(* disconnected_cb comes before the library tries to reconnect; the flag   *)
(* and nc.is_connected are only read together. A drain is cut by it.       *)
Drops ==
    /\ nc = "connected" /\ ~server
    /\ nc' = "reconnecting" /\ is_connected' = FALSE /\ fresh' = FALSE
    /\ life' = IF life = "draining" THEN "cut" ELSE life
    /\ UNCHANGED <<server, outages, orphan, connect_lock, tries, subscriptions, heard, remade>>
    /\ UNCHANGED <<external, managed, at>>

Reconnects ==
    /\ nc = "reconnecting" /\ server
    /\ nc' = "connected"
    /\ UNCHANGED <<server, outages, orphan, is_connected, connect_lock, tries, subscriptions>>
    /\ UNCHANGED <<heard, remade, fresh>> /\ Component

(* The callback is the object's, and sets the flag of a client that has    *)
(* let the object go, too.                                                 *)
ReconnectedCb ==
    /\ nc = "connected" /\ ~is_connected
    /\ is_connected' = TRUE
    /\ UNCHANGED <<server, outages, nc, orphan, connect_lock, tries, subscriptions, heard>>
    /\ UNCHANGED <<remade, fresh>> /\ Component

(* closed_cb, after max_reconnect_attempts of the library's own.           *)
GivesUp ==
    /\ nc = "reconnecting"
    /\ nc' = "closed" /\ heard' = {} /\ is_connected' = FALSE
    /\ UNCHANGED <<server, outages, orphan, connect_lock, tries, subscriptions, remade, fresh>>
    /\ Component

-----------------------------------------------------------------------------
(* NATSClient                                                              *)

(* is_connected                                                            *)
IsConnected == is_connected /\ nc = "connected" /\ ~orphan

Moves(c, stage) == at' = [at EXCEPT ![c] = stage]

(* An attempt of connect: it calls nc.connect of the object there is, or   *)
(* of a new one, and waits. Meanwhile the library may bring back the old   *)
(* one, or give it up, and the task may be cancelled.                      *)
Dials(c) ==
    /\ nc' = IF nc = "none" THEN "connecting" ELSE nc
    /\ connect_lock' = c /\ Moves(c, "opening")
    /\ UNCHANGED <<orphan, is_connected, tries, subscriptions, heard, remade, fresh>>

(* connect looks again once it has the lock.                               *)
BugStillNeeded == TRUE
StillNeeded == ~IsConnected

Connect(c) ==
    /\ \/ at[c] = "lock" /\ connect_lock = Nobody /\ StillNeeded /\ Dials(c)
       \/ at[c] = "lock" /\ connect_lock = Nobody /\ ~StillNeeded /\ Moves(c, "do")
          /\ UNCHANGED clientVars
       \/ at[c] = "retry" /\ Dials(c)
    /\ UNCHANGED <<server, outages, life, external, managed>>

Opened(c) ==
    /\ server
    /\ nc' = "connected" /\ is_connected' = TRUE /\ fresh' = TRUE
    /\ heard' \in IF nc = "connecting" THEN {{}} ELSE {heard, {}}
    /\ remade' = (remade \/ subscriptions # {})
    /\ connect_lock' = Nobody /\ tries' = 0 /\ Moves(c, "do")

(* What fails is closed, and the next attempt has an object of its own,    *)
(* which has no subscriptions.                                             *)
OpenFails(c) ==
    /\ nc' = "none" /\ is_connected' = FALSE /\ heard' = {}
    /\ UNCHANGED <<remade, fresh>>
    /\ IF tries = MaxAttempts - 1
       THEN connect_lock' = Nobody /\ tries' = 0 /\ Moves(c, "raised")
       ELSE connect_lock' = c /\ tries' = tries + 1 /\ Moves(c, "retry")

Attempt(c) ==
    /\ at[c] = "opening" /\ (Opened(c) \/ OpenFails(c))
    /\ UNCHANGED <<server, outages, orphan, subscriptions, life, external, managed>>

EnsureConnected(c) ==
    /\ at[c] = "ask" /\ (c = Starter => subscriptions # Subjects)
    /\ Moves(c, IF IsConnected THEN "do" ELSE "lock")
    /\ UNCHANGED <<server, outages, clientVars, life, external, managed>>

(* A task publishes, or waits for a reply; what fails is raised and logged,*)
(* and the task goes on.                                                   *)
PublishMessage(p) ==
    /\ life \in Working
    /\ \/ at[p] = "idle" /\ Moves(p, "ask")
       \/ at[p] \in {"do", "raised"} /\ Moves(p, "idle")
    /\ UNCHANGED <<server, outages, clientVars, life, external, managed>>

-----------------------------------------------------------------------------
(* BaseComponent and ExternalAdapter                                       *)

Start ==
    /\ life = "new" /\ life' = "connecting" /\ Moves(Starter, "lock")
    /\ UNCHANGED <<server, outages, clientVars, external, managed>>

StartProcessing ==
    /\ life = "connecting" /\ at[Starter] = "do"
    /\ life' = "subscribing" /\ Moves(Starter, "ask")
    /\ UNCHANGED <<server, outages, clientVars, external, managed>>

(* One subject after the other, each over a connection that is there.      *)
Subscribe ==
    /\ life = "subscribing" /\ at[Starter] = "do" /\ nc \in {"connected", "reconnecting"}
    /\ \E s \in Subjects \ subscriptions :
          subscriptions' = subscriptions \cup {s} /\ heard' = heard \cup {s}
    /\ Moves(Starter, "ask")
    /\ UNCHANGED <<server, outages, nc, orphan, is_connected, connect_lock, tries, remade, fresh>>
    /\ UNCHANGED <<life, external, managed>>

(* The tasks that publish are created last.                                *)
CreateTasks ==
    /\ life = "subscribing" /\ at[Starter] = "ask" /\ subscriptions = Subjects
    /\ life' = "attaching" /\ at' = [c \in Callers |-> "idle"]
    /\ UNCHANGED <<server, outages, clientVars, external, managed>>

(* connector.connect, of an ExternalAdapter.                               *)
Attach ==
    /\ life = "attaching" /\ life' = "up" /\ managed' = external
    /\ UNCHANGED <<server, outages, clientVars, external, at>>

(* A start that fails is not undone: the launcher ends the process.        *)
StartFails ==
    /\ \/ life \in {"connecting", "subscribing"} /\ at[Starter] = "raised"
       \/ life = "subscribing" /\ at[Starter] = "do"
       \/ life = "attaching" /\ external
    /\ life' = "failed"
    /\ UNCHANGED <<server, outages, clientVars, external, managed, at>>

(* connector.disconnect, whose errors are logged.                          *)
Stop ==
    /\ life = "up" /\ life' = "detaching" /\ managed' = FALSE
    /\ UNCHANGED <<server, outages, clientVars, external, at>>

(* The tasks are cancelled and waited for, also one that is connecting.    *)
BugCancelled == at
Cancelled == [c \in Callers |-> IF c = Starter THEN "idle" ELSE "ended"]

CancelTasks ==
    /\ life = "detaching" /\ life' = "closing" /\ at' = Cancelled
    /\ connect_lock' = Nobody /\ tries' = 0
    /\ UNCHANGED <<server, outages, nc, orphan, is_connected, subscriptions, heard, remade, fresh>>
    /\ UNCHANGED <<external, managed>>

(* NATSClient.close unsubscribes, which may fail or do nothing, and drains.*)
(* A connection that is not there cannot be drained, and one that is lost  *)
(* on the way may not: drain raises, nc.close() is left out, and self.nc   *)
(* is None in any case.                                                    *)
LetGo(rest) ==
    /\ nc' = rest /\ orphan' = (rest # "none") /\ is_connected' = FALSE /\ life' = "stopped"

Abandoned == IF nc \in {"connected", "reconnecting"} THEN nc ELSE "none"

Close ==
    /\ life = "closing"
    /\ \/ /\ nc = "none" /\ life' = "stopped"
          /\ UNCHANGED <<nc, orphan, is_connected, subscriptions, heard, fresh>>
       \/ /\ nc # "none" /\ subscriptions' = {} /\ heard' \in SUBSET heard /\ fresh' = FALSE
          /\ IF nc = "connected"
             THEN life' = "draining" /\ UNCHANGED <<nc, orphan, is_connected>>
             ELSE LetGo(Abandoned)
    /\ UNCHANGED <<server, outages, connect_lock, tries, remade, external, managed, at>>

DrainEnds ==
    /\ \/ /\ life \in {"draining", "cut"} /\ nc = "connected" /\ server
          /\ LetGo("none") /\ heard' = {}
       \/ /\ life = "cut" \/ (life = "draining" /\ ~server)
          /\ LetGo(Abandoned) /\ heard' \in SUBSET heard
    /\ UNCHANGED <<server, outages, connect_lock, tries, subscriptions, remade, fresh>>
    /\ UNCHANGED <<external, managed, at>>

-----------------------------------------------------------------------------
Library == ServerChanges \/ Drops \/ Reconnects \/ ReconnectedCb \/ GivesUp
Lifecycle == Connect(Starter) \/ Attempt(Starter) \/ EnsureConnected(Starter)
             \/ StartProcessing \/ Subscribe \/ CreateTasks \/ Attach \/ StartFails
             \/ CancelTasks \/ Close \/ DrainEnds
Task(p) == Connect(p) \/ Attempt(p) \/ EnsureConnected(p) \/ PublishMessage(p)

NatsNext ==
    life # "failed" /\ (Library \/ Start \/ Lifecycle \/ Stop \/ \E p \in Publishers : Task(p))

NatsSpec == NatsInit /\ [][NatsNext]_natsVars

(* The event loop goes on with the task that starts or stops.              *)
NatsFairness == WF_natsVars(Lifecycle)

-----------------------------------------------------------------------------
(* Properties                                                              *)

(* One task at a time is in connect (nats_client.py:72), whatever the      *)
(* library does meanwhile; between its attempts there is no connection,    *)
(* and one that is not yet made is its own, or was when it was cancelled.  *)
OneConnects ==
    /\ \A c \in Callers : at[c] \in {"opening", "retry"} <=> connect_lock = c
    /\ \A c \in Callers : at[c] = "retry" => nc = "none"
    /\ nc = "connecting" => connect_lock # Nobody \/ life = "closing"

(* A component that is up hears everything it subscribed to as long as the *)
(* library alone has reconnected it.  A connection made by a task, which   *)
(* ensure_connected does once the library gave up, hears nothing though    *)
(* _subscriptions still lists it (nats_client.py:59, 168).                 *)
HearsItsSubjects ==
    /\ life \in Working => subscriptions = Subjects
    /\ life \notin Letting =>
         /\ nc \in {"connected", "reconnecting"} /\ ~remade => heard = subscriptions
         /\ heard \subseteq subscriptions

(* No task of a component that was stopped goes on or connects again, the  *)
(* managed system has been let go, and the client does not pass for        *)
(* connected, whatever a connection left behind reports. A stop leaves one *)
(* behind only when the server went away: close() then skips nc.close()    *)
(* (nats_client.py:382), the library may bring the connection back, and    *)
(* the callback of line 94 sets _is_connected. (core.py:136, 274)          *)
StopsGoingOn ==
    life = "stopped" =>
        /\ ~IsConnected /\ ~managed /\ connect_lock = Nobody
        /\ \A p \in Publishers : at[p] = "ended"
        /\ nc # "none" => outages > 0

NatsInv == NatsTypeOK /\ OneConnects /\ HearsItsSubjects /\ StopsGoingOn

(* What a task has connected and nothing has cut off since stays as it is, *)
(* with all that it hears, until it is closed: who saw the connection gone *)
(* and waited for the lock while another task connected looks once more    *)
(* (nats_client.py:73). What the library has brought back while a task     *)
(* waits for its attempt is connected again all the same.                  *)
KeepsConnection ==
    [][fresh /\ fresh' => nc' = nc /\ heard \subseteq heard' /\ remade' = remade]_natsVars

(* A start ends, if only because it failed, and so does a stop.            *)
StartsAndStops ==
    /\ life = "connecting" ~> life \notin {"connecting", "subscribing", "attaching"}
    /\ life = "detaching" ~> life = "stopped"
=============================================================================
