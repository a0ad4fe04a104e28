----------------------------- MODULE TokenBucket -----------------------------
(***************************************************************************)
(* The ingest rate limiter: one bucket per device, refilled with the time  *)
(* that has passed whenever it is asked.  Allow holds the mutex from its   *)
(* clock reading to its answer, so a call is one action.                   *)
(*                                                                         *)
(* A token is a point.  The code keeps tokens and seconds as floats; here  *)
(* both are integers, a tick being a time in which Rate tokens arrive.     *)
(***************************************************************************)
EXTENDS Integers

CONSTANTS Keys,       \* "tenant/device"
          Rate,       \* tokens per tick
          Capacity,   \* ingest_burst
          MaxBatch,   \* the largest batch a caller asks for
          MaxTime,    \* bound: the last tick
          None        \* no bucket yet

(* NewTokenBucketLimiter replaces values that are not positive.            *)
ASSUME BucketAssumption ==
    /\ Rate \in Nat \ {0}
    /\ Capacity \in Nat \ {0}
    /\ MaxBatch \in Nat
    /\ MaxTime \in Nat
    /\ None \notin [tokens : Nat, lastSeen : Nat]

VARIABLES now,
          buckets,   \* TokenBucketLimiter.buckets
          mark,      \* history: the moment the window looked at begins
          admitted,  \* history: points admitted per key since mark
          fullAt,    \* history: when the bucket was last brim-full
          spent      \* history: points admitted per key since fullAt

vars == <<now, buckets, mark, admitted, fullAt, spent>>

Buckets == [tokens : 0..Capacity, lastSeen : Nat]

TypeOK ==
    /\ now \in Nat
    /\ buckets \in [Keys -> Buckets \cup {None}]
    /\ \A k \in Keys : buckets[k] # None => buckets[k].lastSeen =< now
    /\ mark \in 0..now
    /\ admitted \in [Keys -> Nat]
    /\ fullAt \in [Keys -> 0..now]
    /\ spent \in [Keys -> Nat]

Init ==
    /\ now = 0
    /\ buckets = [k \in Keys |-> None]
    /\ mark = 0
    /\ admitted = [k \in Keys |-> 0]
    /\ fullAt = [k \in Keys |-> 0]
    /\ spent = [k \in Keys |-> 0]
-----------------------------------------------------------------------------
(* Mutant: the refill is not capped.                                       *)
UncappedTokens(b) == IF b = None THEN Capacity ELSE b.tokens + (now - b.lastSeen) * Rate

(* Mutant: a bucket is never refilled.                                     *)
UnfilledTokens(b) == IF b = None THEN Capacity ELSE b.tokens

Capped(n) == IF n > Capacity THEN Capacity ELSE n

(* What a bucket holds after its refill; a new one is full.                *)
Tokens(b) ==
    IF b = None THEN Capacity ELSE Capped(b.tokens + (now - b.lastSeen) * Rate)

(* Mutant: an admitted batch is not taken out.                             *)
AfterFree(tokens, n) == tokens

After(tokens, n) == IF tokens < n THEN tokens ELSE tokens - n

Brimful(k) == Tokens(buckets[k]) = Capacity

Admits(k, n) == Tokens(buckets[k]) >= n

(* Allow of n > 0 points; n =< 0 is allowed without looking.               *)
Allow(k, n) ==
    LET take == IF Admits(k, n) THEN n ELSE 0
    IN  /\ buckets' = [buckets EXCEPT ![k] =
               [tokens |-> After(Tokens(buckets[k]), n), lastSeen |-> now]]
        /\ admitted' = [admitted EXCEPT ![k] = @ + take]
        /\ fullAt' = [fullAt EXCEPT ![k] = IF Brimful(k) THEN now ELSE @]
        /\ spent' = [spent EXCEPT ![k] = IF Brimful(k) THEN take ELSE @ + take]
        /\ UNCHANGED <<now, mark>>

Tick ==
    /\ now < MaxTime
    /\ now' = now + 1
    /\ UNCHANGED <<buckets, mark, admitted, fullAt, spent>>

(* The window to be looked at begins here.                                 *)
Mark ==
    /\ mark' = now
    /\ admitted' = [k \in Keys |-> 0]
    /\ UNCHANGED <<now, buckets, fullAt, spent>>

Next == Tick \/ Mark \/ \E k \in Keys, n \in 1..MaxBatch : Allow(k, n)

Spec == Init /\ [][Next]_vars
-----------------------------------------------------------------------------
(* Properties.                                                             *)

(* In no window of time, wherever it begins, does a device get more points *)
(* in than a full bucket and what arrives during the window.               *)
WindowBound ==
    \A k \in Keys : admitted[k] =< Capacity + (now - mark) * Rate

(* A call is refused only when its points, with those admitted since the   *)
(* bucket was last full, exceed what arrived: neither a refused call nor   *)
(* the time between two calls costs the device anything.                   *)
RefusalIsEarned ==
    [][\A k \in Keys, n \in 1..MaxBatch :
          Allow(k, n) /\ ~Admits(k, n) =>
              spent'[k] + n > Capacity + (now - fullAt'[k]) * Rate]_vars
=============================================================================
