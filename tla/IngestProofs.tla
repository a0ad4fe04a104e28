----------------------------- MODULE IngestProofs -----------------------------
(***************************************************************************)
(* Proofs about Ingest, for every set of samples and keys, number of       *)
(* requests, size of batches, and every choice of the four durations.      *)
(*                                                                         *)
(* A key is remembered by a row, and the row may be purged.  The inductive *)
(* invariant says that a sample without a row but in the aggregates is as  *)
(* old as the retention, up to the second the texts of times are wrong by, *)
(* and that the samples a request has checked are no older than a point    *)
(* may be, as long as the request keeps its deadline.                      *)
(***************************************************************************)
EXTENDS Ingest, FiniteSetTheorems, SequenceTheorems, WellFoundedInduction, TLAPS

Before(q) == request[q].pc \in {"age", "key", "insert"}

Timely(q) == Before(q) => request[q].at =< clock /\ clock =< request[q].at + MaxRequest

(* The positions of the batch that have passed the test of their age.      *)
Passed(q) ==
    IF request[q].pc = "age" THEN 1..(request[q].next - 1) ELSE 1..request[q].next

Checked(q) ==
    Before(q) => \A i \in Passed(q) :
        request[q].at - MaxPointAge =< timestamp[request[q].batch[i]]

Whole(q) == request[q].pc = "insert" => request[q].next = Len(request[q].batch)

Counted(q) ==
    request[q].pc = "answer" =>
        \A i \in DOMAIN request[q].batch : IsCounted(request[q].batch[i])

RequestInv == \A q \in Requests : Timely(q) /\ Checked(q) /\ Whole(q) /\ Counted(q)

(* A row has been counted; what was counted and has no row is expired.     *)
TableInv ==
    \A s \in Samples :
        /\ points[s] =< aggregates[s]
        /\ points[s] = 0 /\ aggregates[s] > 0 => timestamp[s] < clock - RawRetention + Second

IInv == TypeOK /\ RequestInv /\ TableInv /\ ConfirmedIsCounted
-----------------------------------------------------------------------------
LEMMA BatchFacts ==
    ASSUME NEW batch \in Batches
    PROVE  /\ Len(batch) \in 1..MaxBatch
           /\ DOMAIN batch = 1..Len(batch)
           /\ \A i \in 1..Len(batch) : batch[i] \in Samples
<1>1. PICK n \in 1..MaxBatch : batch \in [1..n -> Samples]
  BY DEF Batches
<1>2. n \in Nat
  BY <1>1, IngestAssumption
<1>3. batch \in Seq(Samples) /\ Len(batch) = n
  BY <1>1, <1>2
<1> QED
  BY <1>1, <1>2, <1>3

(* The text of a time stands for one within a second after it.             *)
LEMMA TextBounds ==
    ASSUME NEW t \in Int
    PROVE  Text(t) \in Int /\ t =< Text(t) /\ Text(t) =< t + Second
BY IngestAssumption DEF Text

(* A row that has a key has it as it was sent.                             *)
LEMMA StoredAsSent ==
    ASSUME NEW x, NEW key, StoredKey(x) = key, key # NoKey
    PROVE  SampleKey[x] = key /\ key \notin BlankKeys
BY DEF StoredKey

LEMMA Smallest ==
    ASSUME NEW T, T \subseteq Nat, T # {}
    PROVE  \E x \in T : \A y \in T : x =< y
<1> DEFINE R == OpToRel(<, Nat)
<1>1. IsWellFoundedOn(R, Nat)
  BY NatLessThanWellFounded
<1>2. ASSUME NEW x \in Nat, NEW y \in Nat, y < x
      PROVE  <<y, x>> \in R
  BY <1>2 DEF OpToRel
<1> HIDE DEF R
<1>3. PICK x \in T : \A y \in T : ~(<<y, x>> \in R)
  BY <1>1, WFMin
<1>4. ASSUME NEW y \in T
      PROVE  x =< y
  <2>1. x \in Nat /\ y \in Nat
    BY <1>3
  <2>2. ~(y < x)
    BY <1>2, <1>3, <2>1
  <2> QED
    BY <2>1, <2>2
<1> QED
  BY <1>3, <1>4

LEMMA InsertsFacts ==
    ASSUME NEW batch \in Batches
    PROVE  /\ Inserts(batch) \subseteq 1..Len(batch)
           /\ IsFiniteSet(Inserts(batch))
<1>1. Inserts(batch) \subseteq 1..Len(batch) /\ Len(batch) \in Nat
  BY BatchFacts, IngestAssumption DEF Inserts
<1>2. IsFiniteSet(1..Len(batch))
  BY <1>1, FS_Interval
<1> QED
  BY <1>1, <1>2, FS_Subset

(* The positions of s that are inserted.                                   *)
Of(batch, s) == {i \in Inserts(batch) : batch[i] = s}

LEMMA OfFacts ==
    ASSUME NEW batch \in Batches, NEW s
    PROVE  /\ IsFiniteSet(Of(batch, s)) /\ Cardinality(Of(batch, s)) \in Nat
           /\ Of(batch, s) = {} <=> Cardinality(Of(batch, s)) = 0
<1>1. IsFiniteSet(Of(batch, s))
  <2>1. Of(batch, s) \subseteq Inserts(batch)
    BY DEF Of
  <2> QED
    BY <2>1, InsertsFacts, FS_Subset
<1> QED
  BY <1>1, FS_CardinalityType, FS_EmptySet

LEMMA AddedValue ==
    ASSUME NEW table, NEW batch, NEW s \in Samples
    PROVE  Added(table, batch)[s] = table[s] + Cardinality(Of(batch, s))
BY DEF Added, Of

LEMMA AddedType ==
    ASSUME NEW table \in [Samples -> Nat], NEW batch \in Batches
    PROVE  /\ Added(table, batch) \in [Samples -> Nat]
           /\ \A s \in Samples : table[s] =< Added(table, batch)[s]
<1>1. ASSUME NEW s \in Samples
      PROVE  /\ table[s] + Cardinality(Of(batch, s)) \in Nat
             /\ table[s] =< table[s] + Cardinality(Of(batch, s))
  BY OfFacts
<1>2. Added(table, batch) = [s \in Samples |-> table[s] + Cardinality(Of(batch, s))]
  BY DEF Added, Of
<1> QED
  BY <1>1, <1>2

(* A key is inserted at one position at most.                              *)
LEMMA KeyedOnce ==
    ASSUME NEW batch \in Batches, NEW s \in Keyed
    PROVE  Cardinality(Of(batch, s)) =< 1
<1>0. SampleKey[s] # NoKey /\ StoredKey(s) = SampleKey[s]
  BY StoredAsSent DEF Keyed
<1>1. ASSUME NEW i \in Of(batch, s), NEW j \in Of(batch, s)
      PROVE  i = j
  <2>1. i \in Nat /\ j \in Nat /\ i >= 1 /\ j >= 1
    BY InsertsFacts, BatchFacts, IngestAssumption DEF Of
  <2>2. ~(i < j)
    BY <2>1, <1>0 DEF Of, Inserts
  <2>3. ~(j < i)
    BY <2>1, <1>0 DEF Of, Inserts
  <2> QED
    BY <2>1, <2>2, <2>3
<1>2. CASE Of(batch, s) = {}
  BY <1>2, FS_EmptySet
<1>3. CASE Of(batch, s) # {}
  <2>1. PICK i : Of(batch, s) = {i}
    BY <1>1, <1>3
  <2>2. Cardinality({i}) = 1
    BY FS_Singleton
  <2>3. Cardinality(Of(batch, s)) = 1
    BY <2>1, <2>2
  <2> QED
    BY <2>3
<1> QED
  BY <1>2, <1>3

LEMMA RequestFacts ==
    ASSUME TypeOK, NEW q \in Requests, request[q].pc # "idle"
    PROVE  /\ request[q].pc \in {"age", "key", "insert", "answer"}
           /\ request[q].batch \in Batches
           /\ request[q].next \in 1..Len(request[q].batch)
           /\ request[q].next \in 1..MaxBatch
           /\ request[q].at \in Nat
           /\ Point(q) \in Samples
<1>1. request[q] \in RequestStates /\ request[q].next \in DOMAIN request[q].batch
  BY DEF TypeOK
<1>2. request[q].batch # <<>>
  BY <1>1
<1>3. request[q].batch \in Batches
  BY <1>1, <1>2 DEF RequestStates
<1> QED
  BY <1>1, <1>3, BatchFacts DEF RequestStates, Point

LEMMA NoRequestType == NoRequest \in RequestStates
BY IngestAssumption DEF NoRequest, RequestStates

(* What the actions do to the requests: one changes, the others do not.    *)
OthersStay(q) == \A x \in Requests \ {q} : request'[x] = request[x]

LEMMA EndsType ==
    ASSUME TypeOK, NEW q \in Requests, request' = [request EXCEPT ![q] = NoRequest]
    PROVE  /\ request' \in [Requests -> RequestStates]
           /\ request'[q] = NoRequest /\ OthersStay(q)
BY NoRequestType DEF TypeOK, OthersStay

LEMMA GoesType ==
    ASSUME TypeOK, NEW q \in Requests, request[q].pc # "idle",
           NEW pc \in {"age", "key", "insert", "answer"},
           NEW next \in 1..Len(request[q].batch), request' = Goes(q, pc, next)
    PROVE  /\ request' \in [Requests -> RequestStates]
           /\ request'[q].pc = pc /\ request'[q].next = next
           /\ request'[q].batch = request[q].batch /\ request'[q].at = request[q].at
           /\ OthersStay(q)
<1> DEFINE new == [pc |-> pc, batch |-> request[q].batch, next |-> next, at |-> request[q].at]
<1>1. next \in 1..MaxBatch
  BY RequestFacts, BatchFacts, IngestAssumption
<1>2. new \in RequestStates
  BY <1>1, RequestFacts DEF RequestStates
<1>3. request \in [Requests -> RequestStates] /\ request' = [request EXCEPT ![q] = new]
  BY DEF TypeOK, Goes
<1>4. new.pc = pc /\ new.next = next /\ new.batch = request[q].batch /\ new.at = request[q].at
  OBVIOUS
<1> HIDE DEF new
<1>5. request' \in [Requests -> RequestStates] /\ request'[q] = new
      /\ \A x \in Requests \ {q} : request'[x] = request[x]
  BY <1>2, <1>3
<1> QED
  BY <1>4, <1>5 DEF OthersStay

LEMMA SendType ==
    ASSUME TypeOK, NEW q \in Requests, NEW batch \in Batches,
           request' = [request EXCEPT ![q] =
               [pc |-> "age", batch |-> batch, next |-> 1, at |-> clock]]
    PROVE  /\ request' \in [Requests -> RequestStates]
           /\ request'[q] = [pc |-> "age", batch |-> batch, next |-> 1, at |-> clock]
           /\ 1 \in DOMAIN batch
           /\ OthersStay(q)
<1> DEFINE new == [pc |-> "age", batch |-> batch, next |-> 1, at |-> clock]
<1>1. new \in RequestStates
  BY IngestAssumption DEF RequestStates, TypeOK
<1>2. 1 \in DOMAIN batch
  BY BatchFacts, IngestAssumption
<1>3. request \in [Requests -> RequestStates]
  BY DEF TypeOK
<1> HIDE DEF new
<1>4. request' = [request EXCEPT ![q] = new]
  BY DEF new
<1>5. request' \in [Requests -> RequestStates] /\ request'[q] = new
      /\ \A x \in Requests \ {q} : request'[x] = request[x]
  BY <1>1, <1>3, <1>4
<1> QED
  BY <1>2, <1>5 DEF OthersStay, new

(* What one step does to one request.                                      *)
Same(q)  == request'[q] = request[q]
Ends(q)  == request'[q] = NoRequest
Sends(q) ==
    /\ request'[q].pc = "age" /\ request'[q].next = 1 /\ request'[q].at = clock
    /\ request'[q].batch \in Batches
Moves(q, from, to) ==
    /\ request[q].pc = from /\ request'[q].pc = to
    /\ request'[q].batch = request[q].batch /\ request'[q].at = request[q].at
Ages(q) ==
    Moves(q, "age", "key") /\ Acceptable(Point(q)) /\ request'[q].next = request[q].next
Keys(q) ==
    \/ Moves(q, "key", "insert") /\ IsLast(q) /\ request'[q].next = request[q].next
    \/ /\ Moves(q, "key", "age") /\ request'[q].next = request[q].next + 1
       /\ request'[q].next =< Len(request[q].batch)
Inserted(q) ==
    /\ Moves(q, "insert", "answer") /\ request'[q].next = request[q].next
    /\ points' = Added(points, request[q].batch)
    /\ aggregates' = Added(aggregates, request[q].batch)
    /\ Inserts(request[q].batch) # {} \/ Len(request[q].batch) = 1

RequestStep ==
    /\ request' \in [Requests -> RequestStates]
    /\ \A q \in Requests : Same(q) \/ Ends(q) \/ Sends(q) \/ Ages(q) \/ Keys(q) \/ Inserted(q)

LEMMA OneStep ==
    ASSUME TypeOK, NEW q \in Requests, request' \in [Requests -> RequestStates], OthersStay(q),
           Same(q) \/ Ends(q) \/ Sends(q) \/ Ages(q) \/ Keys(q) \/ Inserted(q)
    PROVE  RequestStep
BY DEF RequestStep, OthersStay, Same

LEMMA RequestStepHolds ==
    ASSUME TypeOK, [Next]_vars
    PROVE  RequestStep
<1>1. CASE UNCHANGED request
  BY <1>1 DEF RequestStep, Same, TypeOK
<1>2. ASSUME NEW q \in Requests, request' = [request EXCEPT ![q] = NoRequest]
      PROVE  RequestStep
  BY <1>2, EndsType, OneStep DEF Ends
<1>3. ASSUME NEW q \in Requests, Send(q)
      PROVE  RequestStep
  <2>1. PICK batch \in Batches : request' = [request EXCEPT ![q] =
               [pc |-> "age", batch |-> batch, next |-> 1, at |-> clock]]
    BY <1>3 DEF Send
  <2> QED
    BY <2>1, SendType, OneStep DEF Sends
<1>4. ASSUME NEW q \in Requests, CheckAge(q)
      PROVE  RequestStep
  <2>1. CASE Acceptable(Point(q))
    <3>1. request' = Goes(q, "key", request[q].next) /\ request[q].pc = "age"
      BY <1>4, <2>1 DEF CheckAge
    <3>2. request[q].next \in 1..Len(request[q].batch)
      BY <3>1, RequestFacts
    <3>3. /\ request' \in [Requests -> RequestStates] /\ OthersStay(q)
          /\ request'[q].pc = "key" /\ request'[q].next = request[q].next
          /\ request'[q].batch = request[q].batch /\ request'[q].at = request[q].at
      BY <3>1, <3>2, GoesType
    <3> QED
      BY <2>1, <3>1, <3>3, OneStep DEF Ages, Moves
  <2>2. CASE ~Acceptable(Point(q))
    BY <1>2, <1>4, <2>2 DEF CheckAge
  <2> QED
    BY <2>1, <2>2
<1>5. ASSUME NEW q \in Requests, CheckKey(q)
      PROVE  RequestStep
  <2>0. request[q].pc = "key"
    BY <1>5 DEF CheckKey
  <2>1. /\ request[q].next \in 1..Len(request[q].batch)
        /\ Len(request[q].batch) \in Nat
    BY <2>0, RequestFacts, BatchFacts, IngestAssumption
  <2>2. CASE IsLast(q) /\ request' = Goes(q, "insert", request[q].next)
    <3>1. /\ request' \in [Requests -> RequestStates] /\ OthersStay(q)
          /\ request'[q].pc = "insert" /\ request'[q].next = request[q].next
          /\ request'[q].batch = request[q].batch /\ request'[q].at = request[q].at
      BY <2>0, <2>1, <2>2, GoesType
    <3> QED
      BY <2>0, <2>2, <3>1, OneStep DEF Keys, Moves
  <2>3. CASE ~IsLast(q) /\ request' = Goes(q, "age", request[q].next + 1)
    <3>1. request[q].next + 1 \in 1..Len(request[q].batch)
      BY <2>1, <2>3 DEF IsLast
    <3>2. /\ request' \in [Requests -> RequestStates] /\ OthersStay(q)
          /\ request'[q].pc = "age" /\ request'[q].next = request[q].next + 1
          /\ request'[q].batch = request[q].batch /\ request'[q].at = request[q].at
      BY <2>0, <2>3, <3>1, GoesType
    <3> QED
      BY <2>0, <3>1, <3>2, OneStep DEF Keys, Moves
  <2> QED
    BY <1>2, <1>5, <2>2, <2>3 DEF CheckKey
<1>6. ASSUME NEW q \in Requests, InsertBatch(q)
      PROVE  RequestStep
  <2>0. /\ request[q].pc = "insert"
        /\ points' = Added(points, request[q].batch)
        /\ aggregates' = Added(aggregates, request[q].batch)
    BY <1>6 DEF InsertBatch
  <2>1. request[q].next \in 1..Len(request[q].batch)
    BY <2>0, RequestFacts
  <2>2. CASE /\ Inserts(request[q].batch) # {} \/ Len(request[q].batch) = 1
             /\ request' = Goes(q, "answer", request[q].next)
    <3>1. /\ request' \in [Requests -> RequestStates] /\ OthersStay(q)
          /\ request'[q].pc = "answer" /\ request'[q].next = request[q].next
          /\ request'[q].batch = request[q].batch /\ request'[q].at = request[q].at
      BY <2>0, <2>1, <2>2, GoesType
    <3> QED
      BY <2>0, <2>2, <3>1, OneStep DEF Inserted, Moves
  <2> QED
    BY <1>2, <1>6, <2>2 DEF InsertBatch
<1>7. CASE Crash
  BY <1>7, NoRequestType DEF Crash, RequestStep, Ends
<1> QED
  BY <1>1, <1>2, <1>3, <1>4, <1>5, <1>6, <1>7
     DEF Next, vars, Answer, RequestFails, PurgeRaw, Tick

(* What one step does to the tables and the clock.                         *)
Steady == points' = points /\ aggregates' = aggregates
Commits(q) ==
    /\ request[q].pc = "insert"
    /\ points' = Added(points, request[q].batch)
    /\ aggregates' = Added(aggregates, request[q].batch)
    /\ clock' = clock
Purges ==
    /\ points' \in [Samples -> Nat] /\ aggregates' = aggregates /\ clock' = clock
    /\ \A s \in Samples :
           \/ points'[s] = points[s]
           \/ points'[s] = 0 /\ timestamp[s] < clock - RawRetention + Second
Waits ==
    /\ clock' = clock + 1 /\ Steady /\ request' = request
    /\ \A q \in Requests : Before(q) => clock < request[q].at + MaxRequest

TableStep ==
    /\ timestamp' = timestamp
    /\ Steady \/ Purges \/ \E q \in Requests : Commits(q)
    /\ clock' = clock \/ Waits

LEMMA TableStepHolds ==
    ASSUME TypeOK, [Next]_vars
    PROVE  TableStep
<1>1. CASE Steady /\ clock' = clock /\ timestamp' = timestamp
  BY <1>1 DEF TableStep
<1>2. ASSUME NEW q \in Requests, InsertBatch(q)
      PROVE  TableStep
  <2>1. Commits(q) /\ timestamp' = timestamp /\ clock' = clock
    BY <1>2 DEF InsertBatch, Commits
  <2> QED
    BY <2>1 DEF TableStep
<1>3. CASE PurgeRaw
  <2>1. PICK gone \in SUBSET Expired :
            points' = [s \in Samples |-> IF s \in gone THEN 0 ELSE points[s]]
    BY <1>3 DEF PurgeRaw
  <2>2. points \in [Samples -> Nat] /\ gone \subseteq Expired
    BY <2>1 DEF TypeOK
  <2>3. ASSUME NEW s \in Samples
        PROVE  /\ points'[s] \in Nat
               /\ \/ points'[s] = points[s]
                  \/ points'[s] = 0 /\ timestamp[s] < clock - RawRetention + Second
    <3>1. points[s] \in Nat
      BY <2>2
    <3>2. CASE s \in gone
      <4>1. points'[s] = 0
        BY <2>1, <3>2
      <4>2. timestamp[s] < clock - RawRetention + Second
        <5>1. Text(timestamp[s]) < Text(clock - RawRetention)
          BY <2>2, <3>2 DEF Expired
        <5>2. timestamp[s] \in Int /\ clock - RawRetention \in Int
          BY IngestAssumption DEF TypeOK
        <5> QED
          BY <5>1, <5>2, TextBounds, IngestAssumption
      <4> QED
        BY <4>1, <4>2
    <3>3. CASE s \notin gone
      BY <2>1, <3>1, <3>3
    <3> QED
      BY <3>2, <3>3
  <2>4. points' \in [Samples -> Nat]
    BY <2>1, <2>3
  <2> QED
    <3>1. aggregates' = aggregates /\ clock' = clock /\ timestamp' = timestamp
      BY <1>3 DEF PurgeRaw
    <3>2. Purges
      BY <2>3, <2>4, <3>1 DEF Purges
    <3> QED
      BY <3>1, <3>2 DEF TableStep
<1>4. CASE Tick
  BY <1>4 DEF Tick, TableStep, Waits, Steady, Before
<1> QED
  BY <1>1, <1>2, <1>3, <1>4
     DEF Next, vars, Steady, Send, CheckAge, CheckKey, Answer, RequestFails, Crash

(* Rows never outnumber what was counted, and counts never go back.        *)
LEMMA CountsGrow ==
    ASSUME TypeOK, TableStep
    PROVE  /\ points' \in [Samples -> Nat] /\ aggregates' \in [Samples -> Nat]
           /\ \A s \in Samples : aggregates[s] =< aggregates'[s]
<1>1. points \in [Samples -> Nat] /\ aggregates \in [Samples -> Nat]
  BY DEF TypeOK
<1>2. CASE Steady
  BY <1>1, <1>2 DEF Steady
<1>3. CASE Purges
  BY <1>1, <1>3 DEF Purges
<1>4. ASSUME NEW q \in Requests, Commits(q)
      PROVE  /\ points' \in [Samples -> Nat] /\ aggregates' \in [Samples -> Nat]
             /\ \A s \in Samples : aggregates[s] =< aggregates'[s]
  <2>1. request[q].batch \in Batches
    BY <1>4, RequestFacts DEF Commits
  <2> QED
    BY <1>1, <1>4, <2>1, AddedType DEF Commits
<1> QED
  BY <1>2, <1>3, <1>4 DEF TableStep

LEMMA CountedStays ==
    ASSUME TypeOK, TableStep, NEW s \in Samples, IsCounted(s)
    PROVE  IsCounted(s)'
<1>1. PICK x \in Samples :
          aggregates[x] > 0 /\ (x # s => s \in Keyed /\ SampleKey[x] = SampleKey[s])
  BY DEF IsCounted
<1>2. aggregates[x] =< aggregates'[x] /\ aggregates[x] \in Nat /\ aggregates'[x] \in Nat
  BY CountsGrow DEF TypeOK
<1>3. aggregates'[x] > 0
  BY <1>1, <1>2
<1> QED
  BY <1>1, <1>3 DEF IsCounted, Keyed

(* A position that is inserted counts its sample.                          *)
LEMMA PositionCounts ==
    ASSUME TypeOK, NEW q \in Requests, Commits(q), NEW i \in Inserts(request[q].batch)
    PROVE  request[q].batch[i] \in Samples /\ aggregates'[request[q].batch[i]] > 0
<1> DEFINE batch == request[q].batch
           s == batch[i]
<1>1. batch \in Batches
  BY RequestFacts DEF Commits
<1>2. i \in 1..Len(batch) /\ s \in Samples
  BY <1>1, InsertsFacts, BatchFacts
<1>3. i \in Of(batch, s)
  BY DEF Of
<1>4. Cardinality(Of(batch, s)) \in Nat /\ Cardinality(Of(batch, s)) # 0
  BY <1>1, <1>3, OfFacts
<1>5. aggregates'[s] = aggregates[s] + Cardinality(Of(batch, s))
  BY <1>2, AddedValue DEF Commits
<1>6. aggregates[s] \in Nat
  BY <1>2 DEF TypeOK
<1> HIDE DEF s, batch
<1>7. aggregates'[s] > 0
  BY <1>4, <1>5, <1>6
<1> QED
  BY <1>2, <1>7 DEF s, batch

(* Every sample of a batch that commits is counted: itself, or the first   *)
(* of its key in the batch, or the one whose row holds the key.            *)
LEMMA CommitCounts ==
    ASSUME IInv, NEW q \in Requests, Commits(q), TableStep,
           NEW i \in DOMAIN request[q].batch, NEW s, s = request[q].batch[i]
    PROVE  IsCounted(s)'
<1> DEFINE batch == request[q].batch
<1>0. s = batch[i]
  OBVIOUS
<1>1. TypeOK /\ batch \in Batches
  BY RequestFacts DEF Commits, IInv
<1>2. /\ i \in 1..Len(batch) /\ s \in Samples /\ DOMAIN batch = 1..Len(batch)
      /\ Len(batch) \in Nat
  BY <1>0, <1>1, BatchFacts, IngestAssumption
<1>b. ASSUME NEW j \in Inserts(batch)
      PROVE  batch[j] \in Samples /\ aggregates'[batch[j]] > 0
  BY <1>1, <1>b, PositionCounts
<1> HIDE DEF batch
<1>3. CASE i \in Inserts(batch)
  <2>1. aggregates'[s] > 0
    BY <1>0, <1>3, <1>b
  <2> QED
    BY <1>2, <2>1 DEF IsCounted
<1>4. CASE KeyTaken(s)
  <2>1. PICK x \in Samples : s \in Keyed /\ SampleKey[x] = SampleKey[s] /\ points[x] > 0
    <3>1. PICK x \in Samples : StoredKey(x) = SampleKey[s] /\ points[x] > 0
      BY <1>4 DEF KeyTaken
    <3>2. SampleKey[s] # NoKey
      BY <1>4 DEF KeyTaken
    <3>3. SampleKey[x] = SampleKey[s] /\ SampleKey[s] \notin BlankKeys
      BY <3>1, <3>2, StoredAsSent
    <3>4. s \in Keyed
      BY <1>2, <3>2, <3>3 DEF Keyed, StoredKey
    <3> QED
      BY <3>1, <3>3, <3>4
  <2>2. points[x] \in Nat /\ aggregates[x] \in Nat /\ points[x] =< aggregates[x]
    BY <1>1 DEF TypeOK, IInv, TableInv
  <2>3. aggregates[x] > 0
    BY <2>1, <2>2
  <2>4. IsCounted(s)
    BY <2>1, <2>3 DEF IsCounted
  <2>5. IsCounted(s)'
    BY <1>1, <1>2, <2>4, CountedStays
  <2> QED
    BY <2>5
<1>5. CASE i \notin Inserts(batch) /\ ~KeyTaken(s)
  <2> DEFINE T == {j \in 1..Len(batch) : StoredKey(batch[j]) = SampleKey[s]}
  <2>0. PICK e \in 1..(i - 1) : StoredKey(batch[e]) = SampleKey[s]
    BY <1>0, <1>2, <1>5 DEF Inserts
  <2>1. SampleKey[s] # NoKey /\ SampleKey[s] \notin BlankKeys /\ s \in Keyed
    <3>1. SampleKey[s] # NoKey
      BY <1>0, <1>2, <1>5 DEF Inserts
    <3>2. SampleKey[s] \notin BlankKeys
      BY <2>0, <3>1, StoredAsSent
    <3> QED
      BY <1>2, <3>1, <3>2 DEF Keyed, StoredKey
  <2>2. T \subseteq Nat /\ T # {}
    <3>1. e \in 1..Len(batch)
      BY <1>2, <2>0
    <3> QED
      BY <2>0, <3>1
  <2>3. PICK j \in T : \A y \in T : j =< y
    BY <2>2, Smallest
  <2>4. j \in 1..Len(batch) /\ SampleKey[batch[j]] = SampleKey[s]
    BY <2>1, <2>3, StoredAsSent
  <2>5. \A y \in 1..(j - 1) : StoredKey(batch[y]) # SampleKey[s]
    <3>1. SUFFICES ASSUME NEW y \in 1..(j - 1), StoredKey(batch[y]) = SampleKey[s]
                   PROVE  FALSE
      OBVIOUS
    <3>2. y \in T
      BY <1>2, <2>4, <3>1
    <3>3. j =< y /\ j \in Nat /\ y \in Nat
      BY <2>3, <2>4, <3>1, <3>2
    <3> QED
      BY <3>1, <3>3
  <2> HIDE DEF T
  <2>6. ~KeyTaken(batch[j])
    BY <1>5, <2>4 DEF KeyTaken
  <2>7. j \in Inserts(batch)
    BY <1>2, <2>4, <2>5, <2>6 DEF Inserts
  <2>8. batch[j] \in Samples /\ aggregates'[batch[j]] > 0
    BY <2>7, <1>b
  <2>9. IsCounted(s)'
    BY <2>1, <2>4, <2>8 DEF IsCounted, Keyed
  <2> QED
    BY <2>9
<1> QED
  BY <1>3, <1>4, <1>5
-----------------------------------------------------------------------------
(* The steps preserve each part of the invariant.                          *)
LEMMA TypeStep ==
    ASSUME TypeOK, [Next]_vars
    PROVE  TypeOK'
<1>1. RequestStep /\ TableStep
  BY RequestStepHolds, TableStepHolds
<1>2. points' \in [Samples -> Nat] /\ aggregates' \in [Samples -> Nat]
  BY <1>1, CountsGrow
<1>3. clock' \in Nat /\ timestamp' \in [Samples -> Nat]
  BY <1>1 DEF TypeOK, TableStep, Waits
<1>4. request' \in [Requests -> RequestStates]
  BY <1>1 DEF RequestStep
<1>5. ASSUME NEW q \in Requests, request'[q].pc # "idle"
      PROVE  request'[q].next \in DOMAIN request'[q].batch
  <2>1. CASE Same(q)
    BY <1>5, <2>1 DEF Same, TypeOK
  <2>2. CASE Ends(q)
    BY <1>5, <2>2 DEF Ends, NoRequest
  <2>3. CASE Sends(q)
    <3>1. 1 \in DOMAIN request'[q].batch
      BY <2>3, BatchFacts, IngestAssumption DEF Sends
    <3> QED
      BY <2>3, <3>1 DEF Sends
  <2>4. CASE Ages(q) \/ Keys(q) \/ Inserted(q)
    <3>1. request[q].pc # "idle" /\ request'[q].batch = request[q].batch
      BY <2>4 DEF Ages, Keys, Inserted, Moves
    <3>2. /\ request[q].next \in 1..Len(request[q].batch)
          /\ DOMAIN request[q].batch = 1..Len(request[q].batch)
          /\ Len(request[q].batch) \in Nat
      BY <3>1, RequestFacts, BatchFacts, IngestAssumption
    <3>3. \/ request'[q].next = request[q].next
          \/ /\ request'[q].next = request[q].next + 1
             /\ request'[q].next =< Len(request[q].batch)
      BY <2>4 DEF Ages, Keys, Inserted
    <3>4. request'[q].next \in 1..Len(request[q].batch)
      BY <3>2, <3>3
    <3> QED
      BY <3>1, <3>2, <3>4
  <2> QED
    BY <1>1, <2>1, <2>2, <2>3, <2>4 DEF RequestStep
<1>6. confirmed' \subseteq Samples
  <2>1. ASSUME NEW q \in Requests, Answer(q)
        PROVE  confirmed' \subseteq Samples
    <3>1. /\ request[q].pc # "idle"
          /\ confirmed' = confirmed \cup {request[q].batch[i] : i \in DOMAIN request[q].batch}
      BY <2>1 DEF Answer
    <3>2. \A i \in DOMAIN request[q].batch : request[q].batch[i] \in Samples
      BY <3>1, RequestFacts, BatchFacts
    <3> QED
      BY <3>1, <3>2 DEF TypeOK
  <2> QED
    BY <2>1 DEF TypeOK, Next, vars, Send, CheckAge, CheckKey, InsertBatch, RequestFails,
                PurgeRaw, Tick, Crash
<1>7. sends' \in 0..MaxSends /\ faults' \in 0..MaxFaults
  BY IngestAssumption
     DEF TypeOK, Next, vars, Send, CheckAge, CheckKey, InsertBatch, Answer, RequestFails,
         PurgeRaw, Tick, Crash
<1> QED
  BY <1>2, <1>3, <1>4, <1>5, <1>6, <1>7 DEF TypeOK

LEMMA TableInvStep ==
    ASSUME IInv, TableStep, TypeOK'
    PROVE  TableInv'
<1> SUFFICES ASSUME NEW s \in Samples
             PROVE  /\ points'[s] =< aggregates'[s]
                    /\ points'[s] = 0 /\ aggregates'[s] > 0 =>
                           timestamp[s] < clock' - RawRetention + Second
  BY DEF TableInv, TableStep
<1>1. /\ points[s] \in Nat /\ aggregates[s] \in Nat /\ points[s] =< aggregates[s]
      /\ points[s] = 0 /\ aggregates[s] > 0 => timestamp[s] < clock - RawRetention + Second
      /\ clock \in Nat /\ timestamp[s] \in Nat /\ RawRetention \in Nat /\ Second \in Nat
  BY IngestAssumption DEF IInv, TypeOK, TableInv
<1>2. clock' = clock \/ clock' = clock + 1
  BY DEF TableStep, Waits
<1>3. CASE Steady
  BY <1>1, <1>2, <1>3 DEF Steady
<1>4. CASE Purges
  <2>1. aggregates'[s] = aggregates[s] /\ clock' = clock
    BY <1>4 DEF Purges
  <2>2. \/ points'[s] = points[s]
        \/ points'[s] = 0 /\ timestamp[s] < clock - RawRetention + Second
    BY <1>4 DEF Purges
  <2> QED
    BY <1>1, <2>1, <2>2
<1>5. ASSUME NEW q \in Requests, Commits(q)
      PROVE  /\ points'[s] =< aggregates'[s]
             /\ points'[s] = 0 /\ aggregates'[s] > 0 =>
                    timestamp[s] < clock' - RawRetention + Second
  <2> DEFINE n == Cardinality(Of(request[q].batch, s))
  <2>1. request[q].batch \in Batches
    BY <1>5, RequestFacts DEF Commits, IInv
  <2>2. n \in Nat /\ points'[s] = points[s] + n /\ aggregates'[s] = aggregates[s] + n
    BY <1>5, <2>1, OfFacts, AddedValue DEF Commits
  <2>3. clock' = clock
    BY <1>5 DEF Commits
  <2> HIDE DEF n
  <2> QED
    BY <1>1, <2>2, <2>3
<1> QED
  BY <1>3, <1>4, <1>5 DEF TableStep

(* A sample that commits has no row, so what was counted of it before is   *)
(* as old as the retention; its request has found it young enough.         *)
Recount(s) ==
    /\ aggregates'[s] = aggregates[s] + 1
    /\ aggregates[s] > 0 =>
          /\ timestamp[s] < clock - RawRetention + Second
          /\ clock - (MaxPointAge + MaxRequest) =< timestamp[s]

LEMMA RecountStep ==
    ASSUME IInv, TableStep, NEW s \in Keyed, aggregates'[s] # aggregates[s]
    PROVE  Recount(s)
<1>1. /\ s \in Samples /\ points[s] \in Nat /\ aggregates[s] \in Nat
      /\ points[s] = 0 /\ aggregates[s] > 0 => timestamp[s] < clock - RawRetention + Second
      /\ clock \in Nat /\ timestamp[s] \in Nat
  BY DEF IInv, TypeOK, TableInv, Keyed
<1>2. PICK q \in Requests : Commits(q)
  <2>1. Steady \/ Purges => aggregates' = aggregates
    BY DEF Steady, Purges
  <2> QED
    BY <2>1 DEF TableStep
<1> DEFINE batch == request[q].batch
           n == Cardinality(Of(batch, s))
<1>3. /\ batch \in Batches /\ request[q].at \in Nat
      /\ request[q].next \in 1..Len(batch)
      /\ Before(q) /\ request[q].pc = "insert"
  BY <1>2, RequestFacts DEF Commits, IInv, Before
<1>4. /\ request[q].at =< clock /\ clock =< request[q].at + MaxRequest
      /\ request[q].next = Len(batch)
      /\ \A i \in 1..request[q].next : request[q].at - MaxPointAge =< timestamp[batch[i]]
  BY <1>3 DEF IInv, RequestInv, Timely, Checked, Whole, Passed
<1>5. n \in Nat /\ n =< 1 /\ aggregates'[s] = aggregates[s] + n
  BY <1>1, <1>2, <1>3, OfFacts, KeyedOnce, AddedValue DEF Commits
<1>6. n # 0
  <2> HIDE DEF n
  <2> QED
    BY <1>1, <1>5
<1>7. Of(batch, s) # {}
  BY <1>3, <1>6, OfFacts
<1>8. PICK i \in Inserts(batch) : batch[i] = s
  BY <1>7 DEF Of
<1>9. i \in 1..Len(batch)
  BY <1>3, InsertsFacts
<1>10. points[s] = 0
  <2>1. ~KeyTaken(s)
    BY <1>8 DEF Inserts
  <2>2. SampleKey[s] # NoKey /\ StoredKey(s) = SampleKey[s]
    BY StoredAsSent DEF Keyed
  <2> QED
    BY <1>1, <2>1, <2>2 DEF KeyTaken
<1>11. request[q].at - MaxPointAge =< timestamp[s]
  BY <1>4, <1>8, <1>9
<1>12. clock - (MaxPointAge + MaxRequest) =< timestamp[s]
  BY <1>1, <1>3, <1>4, <1>11, IngestAssumption
<1>13. n = 1
  <2> HIDE DEF n
  <2> QED
    BY <1>5, <1>6
<1>14. aggregates'[s] = aggregates[s] + 1
  BY <1>5, <1>13
<1> QED
  BY <1>1, <1>10, <1>12, <1>14 DEF Recount

LEMMA TimelyStep ==
    ASSUME IInv, RequestStep, TableStep, NEW q \in Requests
    PROVE  Timely(q)'
<1> SUFFICES ASSUME Before(q)'
             PROVE  request'[q].at =< clock' /\ clock' =< request'[q].at + MaxRequest
  BY DEF Timely
<1>1. clock \in Nat /\ MaxRequest \in Nat
  BY IngestAssumption DEF IInv, TypeOK
<1>2. CASE Sends(q) /\ clock' = clock
  BY <1>1, <1>2 DEF Sends
<1>3. CASE /\ Before(q) /\ request'[q].at = request[q].at
  <2>1. /\ request[q].at =< clock /\ clock =< request[q].at + MaxRequest
        /\ request[q].at \in Nat
    BY <1>3, RequestFacts DEF IInv, RequestInv, Timely, Before
  <2>2. clock' = clock \/ (clock' = clock + 1 /\ clock < request[q].at + MaxRequest)
    BY <1>3 DEF TableStep, Waits
  <2> QED
    BY <1>1, <1>3, <2>1, <2>2
<1>4. CASE Waits
  BY <1>3, <1>4 DEF Waits, Before
<1>5. CASE Same(q) \/ Ages(q) \/ Keys(q)
  <2>1. Before(q) /\ request'[q].at = request[q].at
    BY <1>5 DEF Same, Ages, Keys, Moves, Before
  <2> QED
    BY <1>3, <2>1
<1>6. CASE Ends(q) \/ Inserted(q)
  BY <1>6 DEF Ends, NoRequest, Inserted, Moves, Before
<1> QED
  BY <1>2, <1>4, <1>5, <1>6 DEF RequestStep, TableStep

LEMMA CheckedStep ==
    ASSUME IInv, RequestStep, TableStep, NEW q \in Requests
    PROVE  Checked(q)'
<1> SUFFICES ASSUME Before(q)', NEW i \in Passed(q)'
             PROVE  request'[q].at - MaxPointAge =< timestamp[request'[q].batch[i]]
  BY DEF Checked, TableStep
<1>1. CASE Same(q)
  <2>1. Before(q) /\ i \in Passed(q)
    BY <1>1 DEF Same, Before, Passed
  <2> QED
    BY <1>1, <2>1 DEF Same, IInv, RequestInv, Checked
<1>2. CASE Ends(q) \/ Inserted(q)
  BY <1>2 DEF Ends, NoRequest, Inserted, Moves, Before
<1>3. CASE Sends(q)
  BY <1>3 DEF Sends, Passed
<1>4. CASE Ages(q)
  <2>1. /\ request[q].pc = "age" /\ Before(q) /\ request'[q].pc = "key"
        /\ request'[q].next = request[q].next
        /\ request'[q].at = request[q].at /\ request'[q].batch = request[q].batch
    BY <1>4 DEF Ages, Moves, Before
  <2>2. request[q].next \in 1..MaxBatch /\ request[q].at \in Nat /\ Point(q) \in Samples
    BY <2>1, RequestFacts DEF IInv
  <2>3. i \in 1..request[q].next
    BY <2>1 DEF Passed
  <2>4. CASE i = request[q].next
    <3>1. clock - MaxPointAge =< timestamp[Point(q)] /\ request[q].at =< clock
      BY <1>4, <2>1 DEF Ages, Acceptable, IInv, RequestInv, Timely
    <3>2. clock \in Nat /\ timestamp[Point(q)] \in Nat /\ MaxPointAge \in Nat
      BY <2>2, IngestAssumption DEF IInv, TypeOK
    <3>3. request[q].at - MaxPointAge =< timestamp[Point(q)]
      BY <2>2, <3>1, <3>2
    <3> QED
      BY <2>1, <2>4, <3>3 DEF Point
  <2>5. CASE i # request[q].next
    <3>1. i \in Passed(q)
      BY <2>1, <2>2, <2>3, <2>5, IngestAssumption DEF Passed
    <3> QED
      BY <2>1, <3>1 DEF IInv, RequestInv, Checked
  <2> QED
    BY <2>4, <2>5
<1>5. CASE Keys(q)
  <2>1. /\ request[q].pc = "key" /\ Before(q)
        /\ request'[q].at = request[q].at /\ request'[q].batch = request[q].batch
    BY <1>5 DEF Keys, Moves, Before
  <2>2. request[q].next \in 1..MaxBatch
    BY <2>1, RequestFacts DEF IInv
  <2>3. i \in 1..request[q].next
    BY <1>5, <2>2, IngestAssumption DEF Keys, Moves, Passed
  <2> QED
    BY <2>1, <2>3 DEF IInv, RequestInv, Checked, Passed
<1> QED
  BY <1>1, <1>2, <1>3, <1>4, <1>5 DEF RequestStep

LEMMA WholeStep ==
    ASSUME IInv, RequestStep, NEW q \in Requests
    PROVE  Whole(q)'
<1>1. CASE Same(q)
  BY <1>1 DEF Same, Whole, IInv, RequestInv
<1>2. CASE Ends(q) \/ Sends(q) \/ Ages(q) \/ Inserted(q)
  BY <1>2 DEF Ends, NoRequest, Sends, Ages, Inserted, Moves, Whole
<1>3. CASE Keys(q)
  BY <1>3 DEF Keys, Moves, IsLast, Whole
<1> QED
  BY <1>1, <1>2, <1>3 DEF RequestStep


(* The actions that change a request to "answer" are those that commit.    *)
LEMMA InsertedCommits ==
    ASSUME TypeOK, [Next]_vars, RequestStep, NEW q \in Requests, Inserted(q)
    PROVE  Commits(q)
<1>1. request[q].pc = "insert" /\ request'[q].pc = "answer"
  BY DEF Inserted, Moves
<1>2. clock' = clock
  BY <1>1 DEF Next, vars, Send, CheckAge, CheckKey, InsertBatch, Answer, RequestFails,
              PurgeRaw, Tick, Crash
<1> QED
  BY <1>1, <1>2 DEF Inserted, Commits

LEMMA CountedStep ==
    ASSUME IInv, [Next]_vars, RequestStep, TableStep, NEW q \in Requests
    PROVE  Counted(q)'
<1> SUFFICES ASSUME request'[q].pc = "answer", NEW i \in DOMAIN request'[q].batch,
                    NEW s, s = request'[q].batch[i]
             PROVE  IsCounted(s)'
  BY DEF Counted, IsCounted, Keyed
<1>1. CASE Same(q)
  <2>1. request[q].pc = "answer" /\ i \in DOMAIN request[q].batch /\ s = request[q].batch[i]
    BY <1>1 DEF Same
  <2>2. IsCounted(s)
    BY <2>1 DEF IInv, RequestInv, Counted
  <2>3. s \in Samples
    BY <2>1, RequestFacts, BatchFacts DEF IInv
  <2> QED
    BY <2>2, <2>3, CountedStays DEF IInv
<1>2. CASE Ends(q) \/ Sends(q) \/ Ages(q) \/ Keys(q)
  BY <1>2 DEF Ends, NoRequest, Sends, Ages, Keys, Moves
<1>3. CASE Inserted(q)
  <2>1. i \in DOMAIN request[q].batch /\ s = request[q].batch[i]
    BY <1>3 DEF Inserted, Moves
  <2>2. Commits(q)
    BY <1>3, InsertedCommits DEF IInv
  <2> QED
    BY <2>1, <2>2, CommitCounts
<1> QED
  BY <1>1, <1>2, <1>3 DEF RequestStep

LEMMA ConfirmedStep ==
    ASSUME IInv, [Next]_vars, TableStep
    PROVE  ConfirmedIsCounted'
<1> SUFFICES ASSUME NEW s \in confirmed'
             PROVE  IsCounted(s)'
  BY DEF ConfirmedIsCounted, IsCounted, Keyed
<1>1. CASE s \in confirmed
  <2>1. IsCounted(s) /\ s \in Samples
    BY <1>1 DEF IInv, ConfirmedIsCounted, TypeOK
  <2> QED
    BY <2>1, CountedStays DEF IInv
<1>2. CASE s \notin confirmed
  <2>1. PICK q \in Requests : Answer(q)
    BY <1>2 DEF Next, vars, Send, CheckAge, CheckKey, InsertBatch, RequestFails,
                PurgeRaw, Tick, Crash
  <2>2. request[q].pc = "answer"
    BY <2>1 DEF Answer
  <2>3. PICK i \in DOMAIN request[q].batch : s = request[q].batch[i]
    BY <1>2, <2>1 DEF Answer
  <2>4. IsCounted(s)
    BY <2>2, <2>3 DEF IInv, RequestInv, Counted
  <2>5. s \in Samples
    BY <2>2, <2>3, RequestFacts, BatchFacts DEF IInv
  <2> QED
    BY <2>4, <2>5, CountedStays DEF IInv
<1> QED
  BY <1>1, <1>2
-----------------------------------------------------------------------------
LEMMA InvInit ==
    ASSUME Init
    PROVE  IInv
<1>1. TypeOK
  BY NoRequestType, IngestAssumption DEF Init, TypeOK, NoRequest
<1>2. RequestInv
  BY DEF Init, NoRequest, RequestInv, Timely, Checked, Whole, Counted, Before
<1>3. TableInv /\ ConfirmedIsCounted
  BY DEF Init, TableInv, ConfirmedIsCounted
<1> QED
  BY <1>1, <1>2, <1>3 DEF IInv

LEMMA InvNext ==
    ASSUME IInv, [Next]_vars
    PROVE  IInv'
<1>1. TypeOK /\ RequestStep /\ TableStep /\ TypeOK'
  BY RequestStepHolds, TableStepHolds, TypeStep DEF IInv
<1>2. RequestInv'
  BY <1>1, TimelyStep, CheckedStep, WholeStep, CountedStep DEF RequestInv
<1>3. TableInv' /\ ConfirmedIsCounted'
  BY <1>1, TableInvStep, ConfirmedStep
<1> QED
  BY <1>1, <1>2, <1>3 DEF IInv

THEOREM Invariant == Spec => []IInv
<1>1. Init => IInv
  BY InvInit
<1>2. IInv /\ [Next]_vars => IInv'
  BY InvNext
<1> QED
  BY <1>1, <1>2, PTL DEF Spec

(* Ingest keeps its tables and its requests well formed.                   *)
THEOREM TypeCorrect == Spec => []TypeOK
<1>1. IInv => TypeOK
  BY DEF IInv
<1> QED
  BY <1>1, Invariant, PTL

(* A keyed point is counted again only when the row that remembered its    *)
(* key had reached the retention, by a request that was sent while the     *)
(* point was young enough; whatever is retried or runs in parallel, and    *)
(* whatever the configuration.                                             *)
THEOREM RecountNeedsPurgeHolds == Spec => RecountNeedsPurge
<1>1. IInv /\ [Next]_vars => [\A s \in Keyed : aggregates'[s] # aggregates[s] => Recount(s)]_vars
  BY TableStepHolds, RecountStep DEF IInv
<1>2. Spec => [][\A s \in Keyed : aggregates'[s] # aggregates[s] => Recount(s)]_vars
  BY <1>1, Invariant, PTL DEF Spec
<1> QED
  BY <1>2 DEF RecountNeedsPurge, Recount

(* So a retention that exceeds the age of points by a request and a second *)
(* keeps every keyed point from being counted twice.                       *)
THEOREM CountedOnceWithSlack ==
    ASSUME MaxPointAge + MaxRequest + Second =< RawRetention
    PROVE  Spec => [](\A s \in Keyed : aggregates[s] =< 1)
<1> DEFINE Once == \A s \in Keyed : aggregates[s] =< 1
<1>1. Init => Once
  BY DEF Init, Keyed
<1>2. IInv /\ Once /\ [Next]_vars => Once'
  <2> SUFFICES ASSUME IInv, Once, [Next]_vars, NEW s \in Keyed
               PROVE  aggregates'[s] =< 1
    BY DEF Keyed, StoredKey
  <2>1. TableStep /\ aggregates[s] \in Nat /\ clock \in Nat /\ timestamp[s] \in Nat
    BY TableStepHolds DEF IInv, TypeOK, Keyed
  <2>2. CASE aggregates'[s] = aggregates[s]
    BY <2>2
  <2>3. CASE aggregates'[s] # aggregates[s]
    <3>1. Recount(s)
      BY <2>1, <2>3, RecountStep
    <3>2. ~(aggregates[s] > 0)
      BY <2>1, <3>1, IngestAssumption DEF Recount
    <3> QED
      BY <2>1, <3>1, <3>2 DEF Recount
  <2> QED
    BY <2>2, <2>3
<1> QED
  BY <1>1, <1>2, Invariant, PTL DEF Spec

(* A 201 is never given for a point that is not in the aggregates, itself  *)
(* or by another point of its key.                                         *)
THEOREM ConfirmedIsCountedHolds == Spec => []ConfirmedIsCounted
<1>1. IInv => ConfirmedIsCounted
  BY DEF IInv
<1> QED
  BY <1>1, Invariant, PTL
=============================================================================
