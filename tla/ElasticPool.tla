----------------------------- MODULE ElasticPool -----------------------------
(***************************************************************************)
(* What the pool promises to whoever adapts it: a number of servers in     *)
(* service, never 0 and never above the maximum, that changes by one; one  *)
(* change at a time; capacity is gained when a change ends and lost when   *)
(* one starts; and while a change is under way one server more is reported *)
(* than serves.                                                            *)
(***************************************************************************)
EXTENDS Integers

CONSTANTS MaxServers, InitialServers

VARIABLES serving, reported, change

vars == <<serving, reported, change>>

Init == serving = InitialServers /\ reported = InitialServers /\ change = "none"

StartGrowing ==
    /\ change = "none" /\ reported < MaxServers
    /\ reported' = reported + 1 /\ change' = "growing"
    /\ UNCHANGED serving

FinishGrowing ==
    /\ change = "growing"
    /\ serving' = serving + 1 /\ change' = "none"
    /\ UNCHANGED reported

GrowAtOnce ==
    /\ change = "none" /\ reported < MaxServers
    /\ serving' = serving + 1 /\ reported' = reported + 1
    /\ UNCHANGED change

StartShrinking ==
    /\ change = "none" /\ serving > 1
    /\ serving' = serving - 1 /\ change' = "shrinking"
    /\ UNCHANGED reported

FinishShrinking ==
    /\ change = "shrinking"
    /\ reported' = reported - 1 /\ change' = "none"
    /\ UNCHANGED serving

Next == StartGrowing \/ FinishGrowing \/ GrowAtOnce \/ StartShrinking \/ FinishShrinking

Fairness == WF_vars(FinishGrowing) /\ WF_vars(FinishShrinking)

Spec == Init /\ [][Next]_vars
FairSpec == Spec /\ Fairness
=============================================================================
