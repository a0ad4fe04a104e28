-------------------------- MODULE DeliveryContract --------------------------
(***************************************************************************)
(* What the notification layer promises for one event on one channel:      *)
(* at-least-once delivery with an honest record.  It is reported           *)
(* "succeeded" only if a send reached the channel, "failed" only after a   *)
(* configured number of sends, and otherwise stays pending.                *)
(***************************************************************************)
EXTENDS Naturals

CONSTANTS Ids,       \* delivery attempts (rows)
          Limits,    \* the limits on sends that may be configured
          Reopens    \* whether a settled delivery may be pending again

VARIABLES outcome, sends, delivered

contractVars == <<outcome, sends, delivered>>

Outcomes == {"none", "pending", "succeeded", "failed", "gone"}

TypeOK ==
    /\ outcome \in [Ids -> Outcomes]
    /\ sends \in [Ids -> Nat]
    /\ delivered \subseteq Ids

Init ==
    /\ outcome = [id \in Ids |-> "none"]
    /\ sends = [id \in Ids |-> 0]
    /\ delivered = {}

Accept(id) ==
    /\ outcome[id] = "none"
    /\ outcome' = [outcome EXCEPT ![id] = "pending"]
    /\ UNCHANGED <<sends, delivered>>

(* A send reaches the channel or does not.                                 *)
Send(id) ==
    /\ outcome[id] # "none"
    /\ sends' = [sends EXCEPT ![id] = @ + 1]
    /\ delivered' \in {delivered, delivered \cup {id}}
    /\ UNCHANGED outcome

Earned(id, result) ==
    \/ result = "pending"
    \/ result = "succeeded" /\ id \in delivered
    \/ result = "failed" /\ \E limit \in Limits : sends[id] >= limit

Settle(id, result) ==
    /\ outcome[id] \in {"pending", "succeeded", "failed"}
    /\ outcome[id] = "pending" \/ Reopens
    /\ Earned(id, result)
    /\ outcome' = [outcome EXCEPT ![id] = result]
    /\ UNCHANGED <<sends, delivered>>

(* Retention, or the deletion of the rule or device.                       *)
Forget(id) ==
    /\ outcome[id] # "none"
    /\ outcome' = [outcome EXCEPT ![id] = "gone"]
    /\ UNCHANGED <<sends, delivered>>

Next ==
    \E id \in Ids :
        \/ Accept(id) \/ Send(id) \/ Forget(id)
        \/ \E result \in {"pending", "succeeded", "failed"} : Settle(id, result)

Spec == Init /\ [][Next]_contractVars
=============================================================================
