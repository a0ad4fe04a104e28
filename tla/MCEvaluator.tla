----------------------------- MODULE MCEvaluator -----------------------------
(* Instances of Evaluator for TLC.                                         *)
EXTENDS Evaluator

CONSTANTS d1, m1    \* the device and the metric the definitions name

OneValue  == {1}
TwoValues == {0, 1}

Def(duration, cooldown, channels) ==
    [metric |-> m1, operator |-> "gt", threshold |-> 0,
     duration |-> duration, cooldown |-> cooldown, scope |-> Devices,
     channels |-> channels]

(* One rule, as it is created and as it may be changed to.                 *)
OneDefinition  == {Def(1, 1, {"log"})}
TwoDefinitions == {Def(1, 0, {"log"}), Def(0, 1, {"log"})}

(* A rule with an unknown channel, next to known ones or alone.            *)
SomeChannels == {Def(1, 1, {"webhook", "other"}), Def(1, 1, {"other"})}
=============================================================================
