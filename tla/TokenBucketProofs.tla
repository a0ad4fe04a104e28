-------------------------- MODULE TokenBucketProofs --------------------------
(***************************************************************************)
(* TokenBucket is type correct, and its two promises hold for every rate,  *)
(* capacity, batch size and set of devices.  Both rest on what a bucket    *)
(* would hold if it were asked now, Tokens: together with the points       *)
(* admitted in a window it never exceeds what the window can give, and     *)
(* together with the points spent since it was full it is never less.      *)
(***************************************************************************)
EXTENDS TokenBucket, TLAPS

Holds(k) == Tokens(buckets[k])

(* What a window has given out and what it could still give at once.       *)
Conserves ==
    \A k \in Keys : admitted[k] + Holds(k) =< Capacity + (now - mark) * Rate

(* What arrived since the bucket was full is still in it, or was spent.    *)
Keeps ==
    \A k \in Keys :
        \/ Holds(k) = Capacity
        \/ spent[k] + Holds(k) >= Capacity + (now - fullAt[k]) * Rate

IInv == TypeOK /\ Conserves /\ Keeps
-----------------------------------------------------------------------------
LEMMA TokensType ==
    ASSUME TypeOK, NEW k \in Keys
    PROVE  Tokens(buckets[k]) \in 0..Capacity
<1>1. CASE buckets[k] = None
  BY <1>1, BucketAssumption DEF Tokens
<1>2. CASE buckets[k] # None
  <2>1. /\ buckets[k].tokens \in 0..Capacity
        /\ buckets[k].lastSeen \in Nat
        /\ now - buckets[k].lastSeen \in Nat
    BY <1>2 DEF TypeOK, Buckets
  <2>2. (now - buckets[k].lastSeen) * Rate \in Nat
    BY <2>1, BucketAssumption
  <2> QED
    BY <1>2, <2>1, <2>2, BucketAssumption DEF Tokens, Capped
<1> QED
  BY <1>1, <1>2

LEMMA PrimedTokensType ==
    ASSUME TypeOK', NEW k \in Keys
    PROVE  Tokens(buckets[k])' \in 0..Capacity
<1>1. CASE buckets'[k] = None
  BY <1>1, BucketAssumption DEF Tokens
<1>2. CASE buckets'[k] # None
  <2>1. /\ buckets'[k].tokens \in 0..Capacity
        /\ buckets'[k].lastSeen \in Nat
        /\ now' - buckets'[k].lastSeen \in Nat
    BY <1>2 DEF TypeOK, Buckets
  <2>2. (now' - buckets'[k].lastSeen) * Rate \in Nat
    BY <2>1, BucketAssumption
  <2> QED
    BY <1>2, <2>1, <2>2, BucketAssumption DEF Tokens, Capped
<1> QED
  BY <1>1, <1>2

(* A tick adds no more than the rate.                                      *)
LEMMA TickAdds ==
    ASSUME TypeOK, Tick, NEW k \in Keys
    PROVE  /\ Holds(k)' =< Holds(k) + Rate
           /\ Holds(k)' >= Holds(k)
<1>1. now' = now + 1 /\ buckets' = buckets /\ now \in Nat
  BY DEF Tick, TypeOK
<1>2. CASE buckets[k] = None
  BY <1>1, <1>2, BucketAssumption DEF Holds, Tokens
<1>3. CASE buckets[k] # None
  <2> DEFINE elapsed == now - buckets[k].lastSeen
  <2>1. /\ buckets[k].tokens \in 0..Capacity
        /\ buckets[k].lastSeen \in Nat
        /\ elapsed \in Nat
    BY <1>3 DEF TypeOK, Buckets
  <2>2. now' - buckets[k].lastSeen = elapsed + 1
    BY <1>1, <2>1
  <2>3. (elapsed + 1) * Rate = elapsed * Rate + Rate /\ elapsed * Rate \in Nat
    BY <2>1, BucketAssumption
  <2>4. Holds(k) = Capped(buckets[k].tokens + elapsed * Rate)
    BY <1>3 DEF Holds, Tokens
  <2>5. Holds(k)' = Capped(buckets[k].tokens + (elapsed * Rate + Rate))
    BY <1>1, <1>3, <2>2, <2>3 DEF Holds, Tokens
  <2> HIDE DEF elapsed
  <2> QED
    BY <2>1, <2>3, <2>4, <2>5, BucketAssumption DEF Capped
<1> QED
  BY <1>2, <1>3

LEMMA AllowTakes ==
    ASSUME TypeOK, NEW k \in Keys, NEW n \in 1..MaxBatch, Allow(k, n)
    PROVE  /\ Admits(k, n) => /\ Holds(k)' = Holds(k) - n
                              /\ admitted'[k] = admitted[k] + n
           /\ ~Admits(k, n) => /\ Holds(k)' = Holds(k)
                               /\ admitted'[k] = admitted[k]
           /\ buckets'[k] \in Buckets /\ buckets'[k].lastSeen = now
           /\ \A j \in Keys \ {k} : buckets'[j] = buckets[j] /\ admitted'[j] = admitted[j]
           /\ now' = now /\ mark' = mark
<1>1. Holds(k) \in 0..Capacity /\ now \in Nat /\ n \in Nat
  BY TokensType, BucketAssumption DEF Holds, TypeOK
<1>2. /\ buckets'[k] = [tokens |-> After(Holds(k), n), lastSeen |-> now]
      /\ \A j \in Keys \ {k} : buckets'[j] = buckets[j] /\ admitted'[j] = admitted[j]
      /\ admitted'[k] = admitted[k] + IF Admits(k, n) THEN n ELSE 0
      /\ now' = now /\ mark' = mark
  BY DEF Allow, TypeOK, Holds
<1>3. After(Holds(k), n) \in 0..Capacity
  BY <1>1, BucketAssumption DEF After
<1>4. /\ buckets'[k] \in Buckets /\ buckets'[k].lastSeen = now
      /\ buckets'[k].tokens = After(Holds(k), n)
  BY <1>1, <1>2, <1>3 DEF Buckets
<1>5. buckets'[k] # None
  BY <1>4, BucketAssumption DEF Buckets
<1>6. (now - now) * Rate = 0
  BY <1>1, BucketAssumption
<1>7. Holds(k)' = Capped(After(Holds(k), n))
  BY <1>1, <1>2, <1>3, <1>4, <1>5, <1>6 DEF Holds, Tokens
<1>8. Holds(k)' = After(Holds(k), n)
  BY <1>3, <1>7, BucketAssumption DEF Capped
<1>9. admitted[k] \in Nat
  BY DEF TypeOK
<1> QED
  BY <1>1, <1>2, <1>4, <1>8, <1>9 DEF After, Admits, Holds
(* Short of the brim the ticks of a bucket add exactly the rate.           *)
LEMMA TickRefills ==
    ASSUME TypeOK, Tick, NEW k \in Keys
    PROVE  Holds(k)' = Capacity \/ Holds(k)' = Holds(k) + Rate
<1>1. now' = now + 1 /\ buckets' = buckets /\ now \in Nat
  BY DEF Tick, TypeOK
<1>2. CASE buckets[k] = None
  BY <1>1, <1>2 DEF Holds, Tokens
<1>3. CASE buckets[k] # None
  <2> DEFINE elapsed == now - buckets[k].lastSeen
  <2>1. /\ buckets[k].tokens \in 0..Capacity
        /\ buckets[k].lastSeen \in Nat
        /\ elapsed \in Nat
    BY <1>3 DEF TypeOK, Buckets
  <2>2. now' - buckets[k].lastSeen = elapsed + 1
    BY <1>1, <2>1
  <2>3. (elapsed + 1) * Rate = elapsed * Rate + Rate /\ elapsed * Rate \in Nat
    BY <2>1, BucketAssumption
  <2>4. Holds(k) = Capped(buckets[k].tokens + elapsed * Rate)
    BY <1>3 DEF Holds, Tokens
  <2>5. Holds(k)' = Capped(buckets[k].tokens + (elapsed * Rate + Rate))
    BY <1>1, <1>3, <2>2, <2>3 DEF Holds, Tokens
  <2> HIDE DEF elapsed
  <2> QED
    BY <2>1, <2>3, <2>4, <2>5, BucketAssumption DEF Capped
<1> QED
  BY <1>2, <1>3

(* An asked bucket is full from now, or spends what it gives.              *)
LEMMA AllowSpends ==
    ASSUME TypeOK, NEW k \in Keys, NEW n \in 1..MaxBatch, Allow(k, n),
           \/ Holds(k) = Capacity
           \/ spent[k] + Holds(k) >= Capacity + (now - fullAt[k]) * Rate
    PROVE  spent'[k] + Holds(k)' >= Capacity + (now' - fullAt'[k]) * Rate
<1> DEFINE take == IF Admits(k, n) THEN n ELSE 0
<1>1. /\ Holds(k) \in 0..Capacity /\ now \in Nat /\ n \in Nat /\ take \in Nat
      /\ spent[k] \in Nat /\ fullAt[k] \in 0..now
  BY TokensType, BucketAssumption DEF Holds, TypeOK
<1>2. Holds(k)' = Holds(k) - take /\ now' = now
  BY <1>1, AllowTakes
<1>3. CASE Holds(k) = Capacity
  <2>1. fullAt'[k] = now /\ spent'[k] = take
    BY <1>3 DEF Allow, Brimful, Holds, TypeOK
  <2>2. (now - now) * Rate = 0
    BY <1>1, BucketAssumption
  <2> HIDE DEF take
  <2> QED
    BY <1>1, <1>2, <1>3, <2>1, <2>2, BucketAssumption
<1>4. CASE Holds(k) # Capacity
  <2>1. fullAt'[k] = fullAt[k] /\ spent'[k] = spent[k] + take
    BY <1>4 DEF Allow, Brimful, Holds, TypeOK
  <2>2. (now - fullAt[k]) * Rate \in Nat
    BY <1>1, BucketAssumption
  <2> HIDE DEF take
  <2> QED
    BY <1>1, <1>2, <1>4, <2>1, <2>2, BucketAssumption
<1> QED
  BY <1>3, <1>4
-----------------------------------------------------------------------------
(* Type correctness, for every value of the constants.                     *)
LEMMA TypeStep == TypeOK /\ [Next]_vars => TypeOK'
<1> SUFFICES ASSUME TypeOK, [Next]_vars
             PROVE  TypeOK'
  OBVIOUS
<1> USE BucketAssumption
<1>1. CASE Tick
  <2>1. /\ now' = now + 1 /\ buckets' = buckets /\ mark' = mark /\ admitted' = admitted
        /\ fullAt' = fullAt /\ spent' = spent /\ now \in Nat
    BY <1>1 DEF Tick, TypeOK
  <2>2. \A j \in Keys : buckets[j] # None => buckets[j].lastSeen =< now + 1
    <3> SUFFICES ASSUME NEW j \in Keys, buckets[j] # None
                 PROVE  buckets[j].lastSeen =< now + 1
      OBVIOUS
    <3>1. buckets[j].lastSeen \in Nat /\ buckets[j].lastSeen =< now
      BY DEF TypeOK, Buckets
    <3> QED
      BY <2>1, <3>1
  <2>3. mark' \in 0..now' /\ fullAt' \in [Keys -> 0..now']
    BY <2>1 DEF TypeOK
  <2> QED
    BY <2>1, <2>2, <2>3 DEF TypeOK
<1>2. CASE Mark
  BY <1>2 DEF TypeOK, Mark
<1>3. ASSUME NEW k \in Keys, NEW n \in 1..MaxBatch, Allow(k, n)
      PROVE  TypeOK'
  <2>1. buckets' \in [Keys -> Buckets \cup {None}]
    BY <1>3, AllowTakes DEF TypeOK, Allow
  <2>2. \A j \in Keys : buckets'[j] # None => buckets'[j].lastSeen =< now'
    BY <1>3, AllowTakes DEF TypeOK
  <2>3. /\ admitted' \in [Keys -> Nat]
        /\ spent' \in [Keys -> Nat]
        /\ fullAt' \in [Keys -> 0..now']
    BY <1>3 DEF TypeOK, Allow
  <2> QED
    BY <1>3, <2>1, <2>2, <2>3 DEF TypeOK, Allow
<1>4. CASE UNCHANGED vars
  BY <1>4 DEF TypeOK, vars
<1> QED
  BY <1>1, <1>2, <1>3, <1>4 DEF Next

LEMMA InitType == Init => TypeOK
  BY BucketAssumption DEF Init, TypeOK

(* The limiter's state has its type.                                       *)
THEOREM TypeCorrect == Spec => []TypeOK
  BY InitType, TypeStep, PTL DEF Spec
-----------------------------------------------------------------------------
LEMMA ConservesStep == TypeOK /\ TypeOK' /\ Conserves /\ [Next]_vars => Conserves'
<1> SUFFICES ASSUME TypeOK, TypeOK', Conserves, [Next]_vars, NEW k \in Keys
             PROVE  admitted'[k] + Holds(k)' =< Capacity + (now' - mark') * Rate
  BY DEF Conserves, Holds
<1> USE BucketAssumption
<1>0. /\ admitted[k] \in Nat /\ now \in Nat /\ mark \in 0..now
      /\ Holds(k) \in 0..Capacity /\ Holds(k)' \in 0..Capacity
      /\ admitted[k] + Holds(k) =< Capacity + (now - mark) * Rate
  <2>1. Holds(k) \in 0..Capacity /\ Holds(k)' \in 0..Capacity
    BY TokensType, PrimedTokensType DEF Holds
  <2> QED
    BY <2>1 DEF TypeOK, Conserves
<1>1. CASE Tick
  <2>1. now' = now + 1 /\ mark' = mark /\ admitted' = admitted
    BY <1>1 DEF Tick
  <2>2. (now' - mark') * Rate = (now - mark) * Rate + Rate /\ (now - mark) * Rate \in Nat
    BY <1>0, <2>1
  <2>3. Holds(k)' =< Holds(k) + Rate
    BY <1>1, TickAdds
  <2> QED
    BY <1>0, <2>1, <2>2, <2>3
<1>2. CASE Mark
  <2>1. mark' = now /\ now' = now /\ buckets' = buckets /\ admitted'[k] = 0
    BY <1>2 DEF Mark
  <2>2. (now' - mark') * Rate = 0
    BY <1>0, <2>1
  <2> QED
    BY <1>0, <2>1, <2>2
<1>3. ASSUME NEW j \in Keys, NEW n \in 1..MaxBatch, Allow(j, n)
      PROVE  admitted'[k] + Holds(k)' =< Capacity + (now' - mark') * Rate
  <2>1. now' = now /\ mark' = mark /\ (now - mark) * Rate \in Nat /\ n \in Nat
    BY <1>0, <1>3 DEF Allow
  <2>2. admitted'[k] + Holds(k)' = admitted[k] + Holds(k)
    <3>1. CASE j = k
      BY <1>0, <1>3, <2>1, <3>1, AllowTakes
    <3>2. CASE j # k
      <4>1. admitted'[k] = admitted[k] /\ buckets'[k] = buckets[k] /\ now' = now
        BY <1>3, <3>2, AllowTakes
      <4> QED
        BY <4>1 DEF Holds, Tokens
    <3> QED
      BY <3>1, <3>2
  <2> QED
    BY <1>0, <2>1, <2>2
<1>4. CASE UNCHANGED vars
  <2>1. /\ now' = now /\ mark' = mark /\ admitted' = admitted /\ buckets' = buckets
    BY <1>4 DEF vars
  <2> QED
    BY <1>0, <2>1 DEF Holds, Tokens
<1> QED
  BY <1>1, <1>2, <1>3, <1>4 DEF Next

LEMMA InitConserves == Init => Conserves
<1> SUFFICES ASSUME Init, NEW k \in Keys
             PROVE  admitted[k] + Holds(k) =< Capacity + (now - mark) * Rate
  BY DEF Conserves
<1>1. now = 0 /\ mark = 0 /\ admitted[k] = 0 /\ Holds(k) = Capacity
  BY DEF Init, Holds, Tokens
<1>2. (now - mark) * Rate = 0
  BY <1>1, BucketAssumption
<1> QED
  BY <1>1, <1>2, BucketAssumption

LEMMA ConservesBound == TypeOK /\ Conserves => WindowBound
<1> SUFFICES ASSUME TypeOK, Conserves, NEW k \in Keys
             PROVE  admitted[k] =< Capacity + (now - mark) * Rate
  BY DEF WindowBound
<1>1. /\ admitted[k] \in Nat /\ Holds(k) \in 0..Capacity
      /\ now \in Nat /\ mark \in 0..now
      /\ admitted[k] + Holds(k) =< Capacity + (now - mark) * Rate
  BY TokensType DEF TypeOK, Conserves, Holds
<1>2. (now - mark) * Rate \in Nat
  BY <1>1, BucketAssumption
<1> QED
  BY <1>1, <1>2, BucketAssumption

LEMMA KeepsStep == TypeOK /\ TypeOK' /\ Keeps /\ [Next]_vars => Keeps'
<1> SUFFICES ASSUME TypeOK, TypeOK', Keeps, [Next]_vars, NEW k \in Keys
             PROVE  \/ Holds(k)' = Capacity
                    \/ spent'[k] + Holds(k)' >= Capacity + (now' - fullAt'[k]) * Rate
  BY DEF Keeps, Holds
<1> USE BucketAssumption
<1>0. /\ spent[k] \in Nat /\ now \in Nat /\ fullAt[k] \in 0..now
      /\ Holds(k) \in 0..Capacity /\ Holds(k)' \in 0..Capacity
      /\ \/ Holds(k) = Capacity
         \/ spent[k] + Holds(k) >= Capacity + (now - fullAt[k]) * Rate
  <2>1. Holds(k) \in 0..Capacity /\ Holds(k)' \in 0..Capacity
    BY TokensType, PrimedTokensType DEF Holds
  <2> QED
    BY <2>1 DEF TypeOK, Keeps
<1>1. CASE Tick
  <2>1. now' = now + 1 /\ fullAt' = fullAt /\ spent' = spent
    BY <1>1 DEF Tick
  <2> DEFINE elapsed == now - fullAt[k]
  <2>5. elapsed \in Nat /\ now' - fullAt'[k] = elapsed + 1
    BY <1>0, <2>1
  <2>6. (elapsed + 1) * Rate = elapsed * Rate + Rate /\ elapsed * Rate \in Nat
    BY <2>5
  <2>2. /\ (now' - fullAt'[k]) * Rate = (now - fullAt[k]) * Rate + Rate
        /\ (now - fullAt[k]) * Rate \in Nat
    BY <2>5, <2>6
  <2>3. Holds(k)' = Capacity \/ Holds(k)' = Holds(k) + Rate
    BY <1>1, TickRefills
  <2>4. Holds(k)' >= Holds(k)
    BY <1>1, TickAdds
  <2> QED
    BY <1>0, <2>1, <2>2, <2>3, <2>4
<1>2. CASE Mark
  <2>1. now' = now /\ buckets' = buckets /\ fullAt' = fullAt /\ spent' = spent
    BY <1>2 DEF Mark
  <2> QED
    BY <1>0, <2>1 DEF Holds, Tokens
<1>3. ASSUME NEW j \in Keys, NEW n \in 1..MaxBatch, Allow(j, n)
      PROVE  \/ Holds(k)' = Capacity
             \/ spent'[k] + Holds(k)' >= Capacity + (now' - fullAt'[k]) * Rate
  <2>1. CASE j = k
    BY <1>0, <1>3, <2>1, AllowSpends
  <2>2. CASE j # k
    <3>1. /\ buckets'[k] = buckets[k] /\ now' = now
          /\ fullAt'[k] = fullAt[k] /\ spent'[k] = spent[k]
      BY <1>3, <2>2 DEF Allow, TypeOK
    <3> QED
      BY <1>0, <3>1 DEF Holds, Tokens
  <2> QED
    BY <2>1, <2>2
<1>4. CASE UNCHANGED vars
  <2>1. /\ now' = now /\ buckets' = buckets /\ fullAt' = fullAt /\ spent' = spent
    BY <1>4 DEF vars
  <2> QED
    BY <1>0, <2>1 DEF Holds, Tokens
<1> QED
  BY <1>1, <1>2, <1>3, <1>4 DEF Next

LEMMA InitKeeps == Init => Keeps
  BY DEF Init, Keeps, Holds, Tokens

LEMMA Inductive ==
    /\ Init => IInv
    /\ IInv /\ [Next]_vars => IInv'
<1>1. Init => IInv
  BY InitType, InitConserves, InitKeeps DEF IInv
<1>2. IInv /\ [Next]_vars => IInv'
  BY TypeStep, ConservesStep, KeepsStep DEF IInv
<1> QED
  BY <1>1, <1>2

(* In every window of time a device gets in at most a full bucket and what *)
(* arrived meanwhile.                                                      *)
THEOREM WindowBoundHolds == Spec => []WindowBound
<1>1. IInv => WindowBound
  BY ConservesBound DEF IInv
<1> QED
  BY <1>1, Inductive, PTL DEF Spec

(* A refused call asked for more than arrived since the bucket was full    *)
(* and was not spent.                                                      *)
THEOREM RefusalIsEarnedHolds == Spec => RefusalIsEarned
<1>1. ASSUME IInv, [Next]_vars,
             NEW k \in Keys, NEW n \in 1..MaxBatch, Allow(k, n), ~Admits(k, n)
      PROVE  spent'[k] + n > Capacity + (now - fullAt'[k]) * Rate
  <2>1. /\ spent[k] \in Nat /\ now \in Nat /\ fullAt[k] \in 0..now /\ n \in Nat
        /\ Holds(k) \in 0..Capacity
        /\ \/ Holds(k) = Capacity
           \/ spent[k] + Holds(k) >= Capacity + (now - fullAt[k]) * Rate
    BY <1>1, TokensType, BucketAssumption DEF IInv, TypeOK, Keeps, Holds
  <2>2. Holds(k) < n
    BY <1>1, <2>1 DEF Admits, Holds
  <2>3. /\ fullAt'[k] = IF Holds(k) = Capacity THEN now ELSE fullAt[k]
        /\ spent'[k] = IF Holds(k) = Capacity THEN 0 ELSE spent[k]
    BY <1>1, <2>1 DEF Allow, Brimful, Holds, IInv, TypeOK
  <2>4. (now - now) * Rate = 0
    BY <2>1, BucketAssumption
  <2>5. (now - fullAt[k]) * Rate \in Nat
    BY <2>1, BucketAssumption
  <2> QED
    BY <2>1, <2>2, <2>3, <2>4, <2>5, BucketAssumption
<1>2. IInv /\ [Next]_vars =>
        [\A k \in Keys, n \in 1..MaxBatch : Allow(k, n) /\ ~Admits(k, n) =>
             spent'[k] + n > Capacity + (now - fullAt'[k]) * Rate]_vars
  BY <1>1
<1> QED
  BY <1>2, Inductive, PTL DEF Spec, RefusalIsEarned
=============================================================================
