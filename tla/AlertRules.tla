----------------------------- MODULE AlertRules -----------------------------
(***************************************************************************)
(* The decision table of the alert engine, as pure operators: what one     *)
(* evaluation of one rule for one device decides, and what it then writes. *)
(*                                                                         *)
(* A moment is a natural number of ticks; ZeroTime is Go's zero time.Time. *)
(* A window average is a member of a finite set of values, or NoSample     *)
(* when the window holds no point (WindowSample.Has = false).              *)
(***************************************************************************)
EXTENDS Integers

CONSTANT NoSample   \* what reading an empty window returns

ZeroTime == 0

InstanceStates == {"normal", "pending", "triggered", "recovered"}
EventTypes     == {"triggered", "continuing", "recovered"}
AlarmTypes     == {"triggered", "continuing"}
Operators      == {"gt", "gte", "lt", "lte", "eq"}

(* An Instance is the persisted state of one rule on one device; the fresh *)
(* instance also stands for "no row in alert_states".                      *)
Instances(Times) == [state : InstanceStates, since : Times, last : Times]
NormalInstance   == [state |-> "normal", since |-> ZeroTime, last |-> ZeroTime]

Compare(value, op, threshold) ==
    \/ op = "gt"  /\ value > threshold
    \/ op = "gte" /\ value >= threshold
    \/ op = "lt"  /\ value < threshold
    \/ op = "lte" /\ value =< threshold
    \/ op = "eq"  /\ value = threshold

Breaches(value, def) ==
    /\ value # NoSample
    /\ Compare(value, def.operator, def.threshold)

(* Mutant: !now.Before instead of now.After.                               *)
CooledDownAtOnce(inst, def, at) == inst.last = ZeroTime \/ at >= inst.last + def.cooldown

(* now.After(LastEventAt.Add(Cooldown)); a zero LastEventAt is in the far  *)
(* past.                                                                   *)
CooledDown(inst, def, at) == inst.last = ZeroTime \/ at > inst.last + def.cooldown

(* Mutant: the held time is rounded up.                                    *)
HeldAlmost(inst, def, at) == at + 1 >= inst.since + def.duration

HeldLongEnough(inst, def, at) == at >= inst.since + def.duration

(* A row whose Since is zero is read as a fresh instance.                  *)
Loaded(row) == IF row.since = ZeroTime THEN NormalInstance ELSE row

Verdicts == EventTypes \cup {"none", "armed"}

(* What evaluateRuleForDevice decides from the loaded instance, whether    *)
(* the sample breaches, and the time captured when the evaluation began.   *)
Verdict(inst, breach, def, at) ==
    CASE ~breach /\ inst.state # "normal"                 -> "recovered"
      [] breach /\ inst.state \in {"normal", "recovered"} -> "armed"
      [] breach /\ inst.state = "pending"
                /\ HeldLongEnough(inst, def, at)
                /\ CooledDown(inst, def, at)              -> "triggered"
      [] breach /\ inst.state = "triggered"
                /\ CooledDown(inst, def, at)              -> "continuing"
      [] OTHER                                            -> "none"

(* Mutant: a triggered alarm keeps its pending state.                      *)
AppliedStillPending(inst, verdict, at) ==
    CASE verdict = "armed"     -> [inst EXCEPT !.state = "pending", !.since = at]
      [] verdict = "recovered" -> [inst EXCEPT !.state = "recovered", !.last = at]
      [] verdict \in AlarmTypes -> [inst EXCEPT !.last = at]
      [] OTHER                 -> inst

(* Mutant: arming sets Since but not State.                                *)
AppliedNeverPending(inst, verdict, at) ==
    CASE verdict = "armed"      -> [inst EXCEPT !.since = at]
      [] verdict = "triggered"  -> [inst EXCEPT !.state = "triggered", !.last = at]
      [] verdict = "continuing" -> [inst EXCEPT !.last = at]
      [] verdict = "recovered"  -> [inst EXCEPT !.state = "recovered", !.last = at]
      [] OTHER                  -> inst

(* Mutant: arming counts as an event.                                      *)
AppliedArmedAsEvent(inst, verdict, at) ==
    CASE verdict = "armed"      -> [inst EXCEPT !.state = "pending", !.since = at, !.last = at]
      [] verdict = "triggered"  -> [inst EXCEPT !.state = "triggered", !.last = at]
      [] verdict = "continuing" -> [inst EXCEPT !.last = at]
      [] verdict = "recovered"  -> [inst EXCEPT !.state = "recovered", !.last = at]
      [] OTHER                  -> inst

(* The instance the evaluation upserts once the verdict's event is out.    *)
Applied(inst, verdict, at) ==
    CASE verdict = "armed"      -> [inst EXCEPT !.state = "pending", !.since = at]
      [] verdict = "triggered"  -> [inst EXCEPT !.state = "triggered", !.last = at]
      [] verdict = "continuing" -> [inst EXCEPT !.last = at]
      [] verdict = "recovered"  -> [inst EXCEPT !.state = "recovered", !.last = at]
      [] OTHER                  -> inst
=============================================================================
