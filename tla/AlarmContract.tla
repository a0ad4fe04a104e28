---------------------------- MODULE AlarmContract ----------------------------
(***************************************************************************)
(* What the evaluator promises of one key, without goroutines, tables or   *)
(* pending states: an alarm is raised when it is off, goes on while it is  *)
(* on, each time more than a cooldown after the key's last event, and is   *)
(* off again after a recovery.  Nothing is forgotten but with its rule.    *)
(***************************************************************************)
EXTENDS Naturals

CONSTANTS Rules,     \* rule ids; an id is never used again once deleted
          Keys,      \* what has an alarm; a key's first component is its rule
          Cooldowns  \* what an operator may ask for

VARIABLES fate,  \* of each rule: "unused", "live" or "deleted"
          on,    \* keys with an alarm that has not recovered
          last   \* per key: the time of its last event, 0 if it has none

contractVars == <<fate, on, last>>

Init ==
    /\ fate = [r \in Rules |-> "unused"]
    /\ on = {}
    /\ last = [k \in Keys |-> 0]

Create(r) ==
    /\ fate[r] = "unused"
    /\ fate' = [fate EXCEPT ![r] = "live"]
    /\ UNCHANGED <<on, last>>

Delete(r) ==
    /\ fate[r] = "live"
    /\ fate' = [fate EXCEPT ![r] = "deleted"]
    /\ on' = {k \in on : k[1] # r}
    /\ last' = [k \in Keys |-> IF k[1] = r THEN 0 ELSE last[k]]

CooledDown(k, at) == last[k] = 0 \/ \E c \in Cooldowns : last[k] + c < at

EventAt(k, at) ==
    /\ fate[k[1]] = "live"
    /\ last' = [last EXCEPT ![k] = at]
    /\ UNCHANGED fate

Raise(k, at) ==
    /\ k \notin on /\ CooledDown(k, at)
    /\ on' = on \cup {k}
    /\ EventAt(k, at)

Continue(k, at) ==
    /\ k \in on /\ CooledDown(k, at)
    /\ UNCHANGED on
    /\ EventAt(k, at)

(* Also of a key whose alarm is off: a recovery may be reported again.     *)
Recover(k, at) ==
    /\ last[k] =< at
    /\ on' = on \ {k}
    /\ EventAt(k, at)

Next ==
    \/ \E r \in Rules : Create(r) \/ Delete(r)
    \/ \E k \in Keys, at \in Nat : Raise(k, at) \/ Continue(k, at) \/ Recover(k, at)

Spec == Init /\ [][Next]_contractVars
=============================================================================
