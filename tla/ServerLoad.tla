----------------------------- MODULE ServerLoad -----------------------------
(***************************************************************************)
(* What the pool needs to know of one AppServer: whether it holds jobs,    *)
(* and when a removal may complete.  These are the actions of SwimPool on  *)
(* one module (Arrive, ServerTurnsIdle, ServerTurnsWaiting,                *)
(* QueuedJobArrives, RemoveServer, CompleteRemove); AppServer is shown to  *)
(* implement them.                                                         *)
(***************************************************************************)
EXTENDS Naturals

VARIABLES
    silentFlush,    \* the server has a timeout (SwimPool's SilentFlush)
    load, connected, completing, deleted

vars == <<silentFlush, load, connected, completing, deleted>>

Init == silentFlush \in BOOLEAN /\ load = "idle" /\ connected = TRUE /\ completing = 0 /\ deleted = FALSE

Arrive ==
    /\ connected /\ load = "idle"
    /\ load' = "running"
    /\ UNCHANGED <<silentFlush, connected, completing, deleted>>

TurnsIdle ==
    /\ load = "running"
    /\ load' = "idle"
    /\ completing' = IF connected THEN completing ELSE completing + 1
    /\ UNCHANGED <<silentFlush, connected, deleted>>

TurnsWaiting ==
    /\ silentFlush
    /\ load = "running"
    /\ load' = "waiting"
    /\ UNCHANGED <<silentFlush, connected, completing, deleted>>

QueuedJobArrives ==
    /\ load = "waiting"
    /\ load' \in {"running", "idle"}
    /\ UNCHANGED <<silentFlush, connected, completing, deleted>>

Remove ==
    /\ connected /\ load # "waiting"
    /\ connected' = FALSE
    /\ completing' = completing + (IF load = "idle" THEN 1 ELSE 0)
    /\ UNCHANGED <<silentFlush, load, deleted>>

CompleteRemove ==
    /\ completing = 1
    /\ completing' = 0 /\ deleted' = TRUE
    /\ UNCHANGED <<silentFlush, load, connected>>

Next == Arrive \/ TurnsIdle \/ TurnsWaiting \/ QueuedJobArrives \/ Remove \/ CompleteRemove

Spec == Init /\ [][Next]_vars
=============================================================================
