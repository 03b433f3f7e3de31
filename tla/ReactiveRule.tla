---------------------------- MODULE ReactiveRule ----------------------------
(***************************************************************************)
(* The reactive adaptation rule twice: SWIM's own                          *)
(* ReactiveAdaptationManager::evaluate (and ReactiveAdaptationManager2's   *)
(* when RequireSpare is FALSE) and its Python port ReactivePolicy.decide,  *)
(* with the actions both choose from and what those do to a site.          *)
(*                                                                         *)
(* A site is a record of servers, whether one of them boots, and a dimmer. *)
(* A dimmer is a whole number of units, Scale of them to 1/1000000 and     *)
(* Step of them to one step of the rule, so that both the exact step and   *)
(* the six decimals of the port and of its wire format are whole.          *)
(*                                                                         *)
(* An operator named Bug... is a plausible mistake in the definition that  *)
(* follows it; nothing uses it.                                            *)
(***************************************************************************)
EXTENDS Integers

CONSTANTS
    Levels,         \* numberOfBrownoutLevels, dimmer_levels
    MaxServers,
    RequireSpare

ASSUME ReactiveRuleAssumption ==
    /\ Levels \in Nat /\ Levels >= 2
    /\ MaxServers \in Nat \ {0}
    /\ RequireSpare \in BOOLEAN

Scale == Levels - 1
Step  == 1000000
One   == Scale * 1000000

Sites == [servers : 1..MaxServers, booting : BOOLEAN, dimmer : 0..One]

NoOp == [kind |-> "no_op"]
Add  == [kind |-> "add_server"]
Remove == [kind |-> "remove_server"]
SetDimmer(v) == [kind |-> "set_dimmer", value |-> v]
IsTactic(t) == \/ t \in {NoOp, Add, Remove}
               \/ t.kind = "set_dimmer" /\ t.value \in 0..One

(* avgResponseTime against the threshold; no request is completed: 0/0.    *)
ResponseTimes == {"above", "at", "below", "nan"}

AtMostOne(v) == IF v > One THEN One ELSE v
AtLeastZero(v) == IF v < 0 THEN 0 ELSE v

-----------------------------------------------------------------------------
(* evaluate: every comparison with NaN is false.                           *)
BugCanAdd(c) == ~c.booting /\ c.servers < MaxServers - 1
CanAdd(c) == ~c.booting /\ c.servers < MaxServers
CanRemove(c) == ~c.booting /\ c.servers > 1

evaluate(c, rt, spareAboveOne) ==
    CASE rt = "above" /\ CanAdd(c)                  -> Add
      [] rt = "above" /\ ~CanAdd(c) /\ c.dimmer > 0 -> SetDimmer(AtLeastZero(c.dimmer - Step))
      [] rt = "below" /\ (RequireSpare => spareAboveOne) /\ c.dimmer < One
            -> SetDimmer(AtMostOne(c.dimmer + Step))
      [] rt = "below" /\ (RequireSpare => spareAboveOne) /\ c.dimmer = One /\ CanRemove(c)
            -> Remove
      [] OTHER -> NoOp

(* round(v, 6).  Six digits are what the socket carries either way, so the *)
(* port reads back the dimmer it set.                                      *)
BugSixDecimals(v) == (v \div (100000 * Scale)) * 100000 * Scale
SixDecimals(v) == ((2 * v + Scale) \div (2 * Scale)) * Scale

decide(c, rt, spareAboveOne) ==
    CASE rt = "nan"                                 -> NoOp
      [] rt = "above" /\ CanAdd(c)                  -> Add
      [] rt = "above" /\ ~CanAdd(c) /\ c.dimmer > 0
            -> SetDimmer(AtLeastZero(SixDecimals(c.dimmer - Step)))
      [] rt = "below" /\ (RequireSpare => spareAboveOne) /\ c.dimmer < One
            -> SetDimmer(AtMostOne(SixDecimals(c.dimmer + Step)))
      [] rt = "below" /\ (RequireSpare => spareAboveOne) /\ c.dimmer = One /\ CanRemove(c)
            -> Remove
      [] OTHER -> NoOp

-----------------------------------------------------------------------------
(* What an action does to a site, once a removal has ended.                *)
Apply(c, tactic) ==
    CASE tactic.kind = "add_server"    -> [c EXCEPT !.servers = @ + 1, !.booting = TRUE]
      [] tactic.kind = "remove_server" -> [c EXCEPT !.servers = @ - 1]
      [] tactic.kind = "set_dimmer"    -> [c EXCEPT !.dimmer = tactic.value]
      [] OTHER                         -> c

Booted(c) == [c EXCEPT !.booting = FALSE]
=============================================================================
