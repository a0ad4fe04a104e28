-------------------------------- MODULE Ingest --------------------------------
(***************************************************************************)
(* Telemetry ingest: single points and batches are checked one by one,     *)
(* then inserted with their aggregates in one transaction, while other     *)
(* requests, retries of the same points and the retention job run.  An     *)
(* idempotency key is looked up twice: before the transaction and in it.   *)
(*                                                                         *)
(* One tenant.  The rate limiter, which stands before all this, is         *)
(* TokenBucket; a request it refuses changes nothing here.  The counters   *)
(* of Metrics are left out.                                                *)
(***************************************************************************)
EXTENDS Integers, Sequences, FiniteSets

CONSTANTS Samples,       \* what the devices measured and want stored
          SampleKey,     \* the idempotency key each is sent with, or NoKey
          DeviceOf,      \* the device each comes from
          NoKey,
          BlankKeys,     \* keys of white space only
          Requests,      \* HTTP requests that may be in flight
          MaxBatch,      \* telemetry.max_batch_size
          MaxPointAge,   \* telemetry.max_point_age
          MaxSkew,       \* telemetry.max_future_skew
          RawRetention,  \* retention.raw_retention
          MaxRequest,    \* a request's deadline (30 s in the router)
          Second,        \* ticks per second
          MaxTime,       \* bound: the last tick
          MaxSends,      \* bound: requests
          MaxFaults      \* bound: failed statements and crashes

ASSUME IngestAssumption ==
    /\ DOMAIN SampleKey = Samples /\ DOMAIN DeviceOf = Samples
    /\ MaxBatch \in Nat \ {0}
    /\ MaxPointAge \in Nat /\ MaxSkew \in Nat /\ RawRetention \in Nat
    /\ MaxRequest \in Nat \ {0} /\ Second \in Nat \ {0}
    /\ NoKey \notin BlankKeys
    /\ MaxTime \in Nat /\ MaxSends \in Nat /\ MaxFaults \in Nat

VARIABLES clock,
          timestamp,   \* of each sample; fixed by its device
          points,      \* table telemetry_points: the rows of each sample
          aggregates,  \* table telemetry_aggregates: what each sample has
                       \* added to the count of its buckets
          request,     \* requests in flight
          confirmed,   \* history: samples answered with 201
          sends, faults

vars == <<clock, timestamp, points, aggregates, request, confirmed, sends, faults>>

(* The batches a device may send; one point is IngestSingle's.             *)
Batches ==
    {b \in UNION {[1..n -> Samples] : n \in 1..MaxBatch} :
        \A i, j \in DOMAIN b : DeviceOf[b[i]] = DeviceOf[b[j]]}

NoRequest == [pc |-> "idle", batch |-> <<>>, next |-> 1, at |-> 0]

RequestStates ==
    [pc : {"idle", "age", "key", "insert", "answer"}, batch : Batches \cup {<<>>},
     next : 1..MaxBatch, at : Nat]

TypeOK ==
    /\ clock \in Nat
    /\ timestamp \in [Samples -> Nat]
    /\ points \in [Samples -> Nat]
    /\ aggregates \in [Samples -> Nat]
    /\ request \in [Requests -> RequestStates]
    /\ \A q \in Requests : request[q].pc # "idle" => request[q].next \in DOMAIN request[q].batch
    /\ confirmed \subseteq Samples
    /\ sends \in 0..MaxSends /\ faults \in 0..MaxFaults

Init ==
    /\ clock = 0
    /\ timestamp \in [Samples -> 0..MaxTime]
    /\ points = [s \in Samples |-> 0]
    /\ aggregates = [s \in Samples |-> 0]
    /\ request = [q \in Requests |-> NoRequest]
    /\ confirmed = {}
    /\ sends = 0
    /\ faults = 0
-----------------------------------------------------------------------------
(* A batch passes the size test and the limiter; it may be a retry.        *)
Send(q) ==
    /\ sends < MaxSends
    /\ sends' = sends + 1
    /\ request[q].pc = "idle"
    /\ \E batch \in Batches :
           request' = [request EXCEPT ![q] =
               [pc |-> "age", batch |-> batch, next |-> 1, at |-> clock]]
    /\ UNCHANGED <<clock, timestamp, points, aggregates, confirmed, faults>>

Goes(q, pc, next) ==
    [request EXCEPT ![q] = [pc |-> pc, batch |-> request[q].batch, next |-> next,
                            at |-> request[q].at]]

Point(q) == request[q].batch[request[q].next]

(* Mutant: only points from the future are refused.                        *)
AcceptableAnyAge(s) == timestamp[s] =< clock + MaxSkew

Acceptable(s) == clock - MaxPointAge =< timestamp[s] /\ timestamp[s] =< clock + MaxSkew

(* ingestOne, first half: the clock; a point too old or too early is a     *)
(* ValidationError for the whole request.                                  *)
CheckAge(q) ==
    /\ request[q].pc = "age"
    /\ request' = IF Acceptable(Point(q))
                    THEN Goes(q, "key", request[q].next)
                    ELSE [request EXCEPT ![q] = NoRequest]
    /\ UNCHANGED <<clock, timestamp, points, aggregates, confirmed, sends, faults>>

(* nullableString: the key a row is stored with.  A blank one passes the   *)
(* tests for "" below, but becomes NULL here.                              *)
StoredKey(s) == IF SampleKey[s] \in BlankKeys THEN NoKey ELSE SampleKey[s]

(* SELECT EXISTS of the tenant's rows with the key of s.                   *)
KeyTaken(s) ==
    /\ SampleKey[s] # NoKey
    /\ \E x \in Samples : StoredKey(x) = SampleKey[s] /\ points[x] > 0

(* Mutant: the loop over the batch runs one step too far.                  *)
PastLast(q) == request[q].next > Len(request[q].batch)

IsLast(q) == request[q].next = Len(request[q].batch)

(* ingestOne, second half: ErrConflict for a key that is taken, else the   *)
(* next point or, after the last, the transaction.                         *)
CheckKey(q) ==
    /\ request[q].pc = "key"
    /\ \/ /\ KeyTaken(Point(q))
          /\ request' = [request EXCEPT ![q] = NoRequest]
       \/ /\ ~KeyTaken(Point(q)) /\ IsLast(q)
          /\ request' = Goes(q, "insert", request[q].next)
       \/ /\ ~KeyTaken(Point(q)) /\ ~IsLast(q)
          /\ request' = Goes(q, "age", request[q].next + 1)
    /\ UNCHANGED <<clock, timestamp, points, aggregates, confirmed, sends, faults>>

(* Mutant: the loop over the batch ends one point early.                   *)
InsertsBarLast(batch) ==
    {i \in 1..(Len(batch) - 1) :
        /\ ~KeyTaken(batch[i])
        /\ SampleKey[batch[i]] # NoKey =>
               \A j \in 1..(i - 1) : StoredKey(batch[j]) # SampleKey[batch[i]]}

(* insertPoint skips a point whose key is taken, by a stored row or by an  *)
(* earlier point of the batch; these are the positions it inserts.  None   *)
(* of them breaks the unique index on the tenant's keys.                   *)
Inserts(batch) ==
    {i \in DOMAIN batch :
        /\ ~KeyTaken(batch[i])
        /\ SampleKey[batch[i]] # NoKey =>
               \A j \in 1..(i - 1) : StoredKey(batch[j]) # SampleKey[batch[i]]}

Added(table, batch) ==
    [s \in Samples |-> table[s] + Cardinality({i \in Inserts(batch) : batch[i] = s})]

(* InsertBatch: the rows and their aggregates commit together.  A batch    *)
(* none of whose points was inserted is ErrConflict; a point that came     *)
(* alone to IngestSingle is answered as stored either way.                 *)
InsertBatch(q) ==
    LET batch == request[q].batch
    IN  /\ request[q].pc = "insert"
        /\ points' = Added(points, batch)
        /\ aggregates' = Added(aggregates, batch)
        /\ \/ /\ (Inserts(batch) # {} \/ Len(batch) = 1)
              /\ request' = Goes(q, "answer", request[q].next)
           \/ /\ Inserts(batch) = {}
              /\ request' = [request EXCEPT ![q] = NoRequest]
        /\ UNCHANGED <<clock, timestamp, confirmed, sends, faults>>

(* The evaluation of the device is queued (Evaluator), the points are      *)
(* confirmed: all of them, those that were skipped included.               *)
Answer(q) ==
    LET batch == request[q].batch
    IN  /\ request[q].pc = "answer"
        /\ confirmed' = confirmed \cup {batch[i] : i \in DOMAIN batch}
        /\ request' = [request EXCEPT ![q] = NoRequest]
        /\ UNCHANGED <<clock, timestamp, points, aggregates, sends, faults>>

(* A statement fails, another writer holds the database, the deadline      *)
(* passes: an error before the commit leaves nothing.                      *)
RequestFails(q) ==
    /\ faults < MaxFaults
    /\ faults' = faults + 1
    /\ request[q].pc # "idle"
    /\ request' = [request EXCEPT ![q] = NoRequest]
    /\ UNCHANGED <<clock, timestamp, points, aggregates, confirmed, sends>>
-----------------------------------------------------------------------------
(* The order of times as they are stored and compared, RFC 3339 text that  *)
(* drops the zeros of a fraction (TimeText has it digit by digit): a whole *)
(* second sorts after the rest of its second.                              *)
Text(t) == IF t % Second = 0 THEN t + Second ELSE t

Expired == {s \in Samples : points[s] > 0 /\ Text(timestamp[s]) < Text(clock - RawRetention)}

(* Retention deletes the oldest expired rows, as many as its batch takes;  *)
(* aggregates live longer than any run of this model.                      *)
PurgeRaw ==
    /\ \E gone \in (SUBSET Expired) \ {{}} :
           /\ \A s \in gone, x \in Expired \ gone : Text(timestamp[s]) =< Text(timestamp[x])
           /\ points' = [s \in Samples |-> IF s \in gone THEN 0 ELSE points[s]]
    /\ UNCHANGED <<clock, timestamp, aggregates, request, confirmed, sends, faults>>

(* No statement of a request runs after its deadline, which its context    *)
(* carries; the answer may be late.                                        *)
Tick ==
    /\ clock < MaxTime
    /\ \A q \in Requests : request[q].pc \in {"age", "key", "insert"} =>
                             clock < request[q].at + MaxRequest
    /\ clock' = clock + 1
    /\ UNCHANGED <<timestamp, points, aggregates, request, confirmed, sends, faults>>

(* The process dies and starts again: only the tables are left.            *)
Crash ==
    /\ faults < MaxFaults
    /\ faults' = faults + 1
    /\ request' = [q \in Requests |-> NoRequest]
    /\ UNCHANGED <<clock, timestamp, points, aggregates, confirmed, sends>>

Next ==
    \/ \E q \in Requests :
           Send(q) \/ CheckAge(q) \/ CheckKey(q) \/ InsertBatch(q) \/ Answer(q) \/ RequestFails(q)
    \/ PurgeRaw \/ Tick \/ Crash

Spec == Init /\ [][Next]_vars
-----------------------------------------------------------------------------
(* Properties.                                                             *)

(* The samples whose key their row remembers.                              *)
Keyed == {s \in Samples : StoredKey(s) # NoKey}

(* Nothing makes raw_retention exceed max_point_age, and the configuration *)
(* in the repository sets both to 720h: a retry may find the row that      *)
(* would remember its key purged.  A keyed point is counted a second time  *)
(* in that case only: no earlier than in the second in which its row       *)
(* reaches the retention, and no later than a request that was sent while  *)
(* it was young enough may last.  Where the retention exceeds the age by a *)
(* second and a request there is no such moment.                           *)
RecountNeedsPurge ==
    [][\A s \in Keyed : aggregates'[s] # aggregates[s] =>
          /\ aggregates'[s] = aggregates[s] + 1
          /\ aggregates[s] > 0 =>
                /\ timestamp[s] < clock - RawRetention + Second
                /\ clock - (MaxPointAge + MaxRequest) =< timestamp[s]]_vars

IsCounted(s) ==
    \E x \in Samples :
        /\ aggregates[x] > 0
        /\ x # s => s \in Keyed /\ SampleKey[x] = SampleKey[s]

(* A point confirmed with 201 is in the aggregates, or another point of    *)
(* the key its row would have is; one with a blank key is there itself.    *)
ConfirmedIsCounted == \A s \in confirmed : IsCounted(s)
=============================================================================
