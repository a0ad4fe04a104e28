------------------------- MODULE NotificationProofs -------------------------
(***************************************************************************)
(* Proofs about Notification, for every number of rows, workers, faults    *)
(* and every setting of the limits and the backoff.                        *)
(*                                                                         *)
(* Two workers may hold copies of one row and overwrite each other, so     *)
(* nothing can be said of a row that does not also hold of every copy: the *)
(* invariant states the same backing for both.  While they never do (Apart *)
(* holds all along), a settled row stays settled, sends are within their   *)
(* budget, and the contract holds without its reopening.                   *)
(***************************************************************************)
EXTENDS Notification, TLAPS

(* What a row, or a copy of it, claims did happen.                         *)
Backed(id, row) ==
    /\ row.attempts =< sends[id]
    /\ row.status = "failed" => \E n \in Limits : row.attempts >= n
    /\ row.status = "succeeded" => id \in delivered

InHand == {"send", "record", "expire"}

CopyOK(w) ==
    LET a == worker[w]
    IN  a.pc \in InHand =>
          /\ Backed(a.id, a.copy)
          /\ a.copy.status \in Stored
          /\ rows[a.id].status # "none"
          /\ a.pc = "send" => a.copy.attempts < limit

NInv ==
    /\ TypeOK
    /\ \A id \in Ids : Backed(id, rows[id])
    /\ \A w \in Workers : CopyOK(w)

LEMMA DelayTypes ==
    /\ FirstDelay \in Nat \ {0} /\ LastDelay \in Nat /\ FirstDelay =< LastDelay
    /\ \A n \in Nat : Backoff(n) \in 0..LastDelay
<1>1. FirstDelay \in Nat \ {0}
  BY NotificationAssumption DEF FirstDelay
<1>2. LastDelay \in Nat /\ FirstDelay =< LastDelay
  BY <1>1, NotificationAssumption DEF LastDelay
<1>3. ASSUME NEW n \in Nat PROVE Backoff(n) \in 0..LastDelay
  <2>1. LastDelay \in 0..LastDelay
    BY <1>2
  <2> HIDE DEF LastDelay
  <2>2. \A d : (IF d \in 0..LastDelay THEN d ELSE LastDelay) \in 0..LastDelay
    BY <2>1
  <2> QED BY <2>2 DEF Backoff
<1> QED BY <1>1, <1>2, <1>3

LEMMA RowTypes == NoRow \in Rows /\ FreshRow \in Rows /\ Idle \in WorkerStates
BY NotificationAssumption, DelayTypes
   DEF NoRow, FreshRow, Idle, Rows, Statuses, WorkerStates

LEMMA NInit == Init => NInv
BY NotificationAssumption, RowTypes
   DEF Init, NInv, TypeOK, Backed, CopyOK, InHand, NoRow, Idle

LEMMA EarlierFacts ==
    ASSUME NEW row \in Rows
    PROVE  /\ Earlier(row) \in Rows
           /\ Earlier(row).status = row.status
           /\ Earlier(row).attempts = row.attempts
BY DelayTypes DEF Earlier, Rows

LEMMA LoadedFacts ==
    ASSUME NInv, NEW id \in Ids,
           NEW a, a = Loaded(id, rows[id])
    PROVE  /\ a \in WorkerStates
           /\ a.pc \in InHand => /\ a.id = id /\ a.copy.status \in Stored
                                 /\ rows[id].status # "none"
                                 /\ Backed(id, a.copy)
           /\ a.pc = "send" => a.copy.attempts < limit /\ a.copy = rows[id]
<1>1. rows[id] \in Rows /\ Backed(id, rows[id]) /\ limit \in Limits /\ limit \in Nat
  BY NotificationAssumption DEF NInv, TypeOK
<1>2. CASE a = Idle
  BY <1>2, RowTypes DEF Idle, InHand
<1>3. CASE a = [pc |-> "send", id |-> id, copy |-> rows[id]]
           /\ rows[id].status \in Stored /\ ~MayNotSend(rows[id])
  <2>1. rows[id].attempts < limit
    BY <1>1, <1>3 DEF MayNotSend, Rows
  <2> QED
    BY <1>1, <1>3, <2>1, NotificationAssumption DEF WorkerStates, Stored, InHand
<1>4. CASE a = [pc |-> "expire", id |-> id, copy |-> [rows[id] EXCEPT !.status = "failed"]]
           /\ rows[id].status = "pending" /\ MayNotSend(rows[id])
  <2>1. rows[id].attempts >= limit
    BY <1>1, <1>4 DEF MayNotSend
  <2>2. /\ [rows[id] EXCEPT !.status = "failed"] \in Rows
        /\ [rows[id] EXCEPT !.status = "failed"].status = "failed"
    BY <1>1 DEF Rows, Statuses
  <2>3. Backed(id, [rows[id] EXCEPT !.status = "failed"])
    BY <1>1, <2>1 DEF Backed, Rows
  <2>4. /\ a.pc = "expire" /\ a.id = id /\ id # NoId
        /\ a.copy = [rows[id] EXCEPT !.status = "failed"]
    BY <1>4, NotificationAssumption
  <2>5. a \in WorkerStates
    BY <1>4, <2>2, <2>4 DEF WorkerStates
  <2> QED
    BY <1>4, <2>2, <2>3, <2>4, <2>5 DEF Stored
<1> QED
  BY <1>2, <1>3, <1>4 DEF Loaded

LEMMA AfterSendFacts ==
    ASSUME NInv, NEW id \in Ids, NEW row \in Rows, Backed(id, row), row.attempts < limit
    PROVE  /\ AfterFailure(row) \in Rows /\ AfterSuccess(row) \in Rows
           /\ AfterFailure(row).attempts = row.attempts + 1
           /\ AfterSuccess(row).attempts = row.attempts + 1
           /\ AfterFailure(row).status \in {"pending", "failed"}
           /\ AfterSuccess(row).status = "succeeded"
           /\ AfterFailure(row).status = "failed" =>
                  \E n \in Limits : AfterFailure(row).attempts >= n
<1>1. limit \in Limits /\ limit \in Nat /\ row.attempts + 1 \in 1..limit
  BY NotificationAssumption DEF NInv, TypeOK, Rows
<1>2. Backoff(row.attempts + 1) \in 0..LastDelay
  BY <1>1, DelayTypes
<1>3. AfterSuccess(row) \in Rows /\ AfterSuccess(row).attempts = row.attempts + 1
      /\ AfterSuccess(row).status = "succeeded"
  BY <1>1 DEF AfterSuccess, Rows, Statuses
<1>4. CASE row.attempts + 1 < limit
  BY <1>1, <1>2, <1>3, <1>4 DEF AfterFailure, Rows, Statuses
<1>5. CASE ~(row.attempts + 1 < limit)
  <2>1. AfterFailure(row) = [status |-> "failed", attempts |-> row.attempts + 1, wait |-> row.wait]
    BY <1>5 DEF AfterFailure
  <2> QED
    BY <1>1, <1>3, <1>5, <2>1 DEF Rows, Statuses
<1> QED
  BY <1>4, <1>5

(* How one step of the system looks to a row and to a worker.              *)
LEMMA NInvNext == NInv /\ [Next]_vars => NInv'
<1> SUFFICES ASSUME NInv, [Next]_vars PROVE NInv'
  OBVIOUS
<1> USE NotificationAssumption
<1>1. CASE UNCHANGED vars
  BY <1>1 DEF vars, NInv, TypeOK, Backed, CopyOK
<1>2. ASSUME NEW id \in Ids, CreateAttempt(id)
      PROVE  NInv'
  <2>1. TypeOK'
    BY <1>2, RowTypes DEF NInv, TypeOK, CreateAttempt
  <2>2. \A x \in Ids : Backed(x, rows[x])'
    BY <1>2 DEF NInv, TypeOK, CreateAttempt, Backed, FreshRow
  <2>3. \A w \in Workers : CopyOK(w)'
    BY <1>2 DEF NInv, TypeOK, CreateAttempt, CopyOK, Backed, FreshRow
  <2> QED
    BY <2>1, <2>2, <2>3 DEF NInv
<1>3. ASSUME NEW id \in Ids, Enqueue(id)
      PROVE  NInv'
  BY <1>3 DEF NInv, TypeOK, Enqueue, HasRoom, Backed, CopyOK
<1>4. ASSUME NEW id \in Ids, Purge(id)
      PROVE  NInv'
  <2>1. TypeOK'
    BY <1>4, RowTypes DEF NInv, TypeOK, Purge, Rows, Statuses
  <2>2. \A x \in Ids : Backed(x, rows[x])'
    BY <1>4 DEF NInv, TypeOK, Purge, Backed, NoRow
  <2>3. \A w \in Workers : CopyOK(w)'
    BY <1>4 DEF NInv, TypeOK, Purge, CopyOK, Backed, NoRow
  <2> QED
    BY <2>1, <2>2, <2>3 DEF NInv
<1>5. CASE RetryList
  BY <1>5 DEF NInv, TypeOK, RetryList, Due, Backed, CopyOK
<1>6. CASE RetryPush
  <2>1. PICK id \in retry : IF HasRoom
                             THEN jobs' = Append(jobs, id) /\ retry' = retry \ {id}
                             ELSE UNCHANGED jobs /\ retry' = {}
    BY <1>6 DEF RetryPush
  <2>2. jobs' \in Seq(Ids) /\ Len(jobs') =< QueueCap
    <3>1. id \in Ids /\ jobs \in Seq(Ids) /\ Len(jobs) =< QueueCap
      BY DEF NInv, TypeOK
    <3>2. CASE HasRoom
      <4>1. Append(jobs, id) \in Seq(Ids) /\ Len(Append(jobs, id)) = Len(jobs) + 1
        BY <3>1
      <4> QED
        BY <2>1, <3>1, <3>2, <4>1 DEF HasRoom
    <3>3. CASE ~HasRoom
      BY <2>1, <3>1, <3>3
    <3> QED
      BY <3>2, <3>3
  <2>3. retry' \subseteq Ids
    BY <2>1 DEF NInv, TypeOK
  <2>4. TypeOK'
    BY <1>6, <2>2, <2>3 DEF NInv, TypeOK, RetryPush
  <2> QED
    BY <1>6, <2>4 DEF NInv, RetryPush, Backed, CopyOK
<1>7. ASSUME NEW w \in Workers, Take(w)
      PROVE  NInv'
  <2>1. TypeOK'
    <3>1. Head(jobs) \in Ids /\ Tail(jobs) \in Seq(Ids) /\ Len(Tail(jobs)) =< QueueCap
      BY <1>7 DEF NInv, TypeOK, Take
    <3>2. [Idle EXCEPT !.pc = "load", !.id = Head(jobs)] \in WorkerStates
      BY <3>1, RowTypes DEF WorkerStates, Idle
    <3> QED
      BY <1>7, <3>1, <3>2 DEF NInv, TypeOK, Take
  <2>2. \A v \in Workers : CopyOK(v)'
    BY <1>7 DEF NInv, TypeOK, Take, CopyOK, Backed, InHand, Idle
  <2> QED
    BY <1>7, <2>1, <2>2 DEF NInv, Take, Backed
<1>8. ASSUME NEW w \in Workers, Load(w)
      PROVE  NInv'
  <2>1. PICK id \in Ids, a \in {Loaded(worker[w].id, rows[worker[w].id])} :
          /\ id = worker[w].id /\ a = Loaded(id, rows[id])
          /\ worker' = [worker EXCEPT ![w] = a]
    BY <1>8 DEF NInv, TypeOK, Load, WorkerStates
  <2>2. TypeOK'
    BY <1>8, <2>1, LoadedFacts DEF NInv, TypeOK, Load
  <2>3. \A v \in Workers : CopyOK(v)'
    BY <1>8, <2>1, LoadedFacts DEF NInv, TypeOK, Load, CopyOK, Backed
  <2> QED
    BY <1>8, <2>2, <2>3 DEF NInv, Load, Backed
<1>9. ASSUME NEW w \in Workers, SendSucceeds(w) \/ SendFails(w)
      PROVE  NInv'
  <2>1. PICK id \in Ids, copy \in Rows,
            row \in {AfterSuccess(worker[w].copy), AfterFailure(worker[w].copy)} :
          /\ id = worker[w].id /\ copy = worker[w].copy /\ worker[w].pc = "send"
          /\ \/ row = AfterSuccess(copy) /\ delivered' = delivered \cup {id}
             \/ row = AfterFailure(copy) /\ delivered' \in {delivered, delivered \cup {id}}
          /\ worker' = [worker EXCEPT ![w] = [worker[w] EXCEPT !.pc = "record", !.copy = row]]
          /\ sends' = [sends EXCEPT ![id] = @ + 1]
          /\ UNCHANGED <<rows, limit, created, jobs, retry, faults>>
    BY <1>9 DEF NInv, TypeOK, SendSucceeds, SendFails, Sent, WorkerStates
  <2>2. Backed(id, copy) /\ copy.attempts < limit /\ rows[id].status # "none"
    BY <2>1 DEF NInv, CopyOK, InHand
  <2>3. row \in Rows /\ row.attempts = copy.attempts + 1 /\ row.status \in Stored
        /\ (row.status = "failed" => \E n \in Limits : row.attempts >= n)
        /\ (row.status = "succeeded" => id \in delivered')
    BY <2>1, <2>2, AfterSendFacts DEF Stored
  <2>4. worker' \in [Workers -> WorkerStates]
    <3>1. [worker[w] EXCEPT !.pc = "record", !.copy = row] \in WorkerStates
      BY <2>1, <2>3 DEF NInv, TypeOK, WorkerStates
    <3> QED
      BY <2>1, <3>1 DEF NInv, TypeOK
  <2>5. TypeOK'
    BY <2>1, <2>4 DEF NInv, TypeOK
  <2>6. \A x \in Ids : /\ sends[x] \in Nat /\ sends'[x] \in Nat /\ sends[x] =< sends'[x]
                       /\ x \in delivered => x \in delivered'
    BY <2>1 DEF NInv, TypeOK
  <2>7. ASSUME NEW x \in Ids, NEW r \in Rows, Backed(x, r)
        PROVE  Backed(x, r)'
    <3>1. r.attempts =< sends'[x]
      BY <2>6, <2>7 DEF Backed, Rows
    <3> QED
      BY <2>6, <2>7, <3>1 DEF Backed
  <2>8. Backed(id, row)'
    <3>1. row.attempts =< sends'[id]
      <4>1. sends'[id] = sends[id] + 1
        BY <2>1 DEF NInv, TypeOK
      <4> QED
        BY <2>2, <2>3, <2>6, <4>1 DEF Backed, Rows
    <3> QED
      BY <2>3, <3>1 DEF Backed
  <2>9. \A v \in Workers : CopyOK(v)'
    <3>1. ASSUME NEW v \in Workers, v # w
          PROVE  CopyOK(v)'
      BY <2>1, <2>7, <3>1 DEF NInv, TypeOK, CopyOK, WorkerStates, InHand, Backed
    <3>2. CopyOK(w)'
      BY <2>1, <2>2, <2>3, <2>8 DEF NInv, TypeOK, CopyOK, Backed
    <3> QED
      BY <3>1, <3>2
  <2>10. \A x \in Ids : Backed(x, rows[x])'
    BY <2>1, <2>7 DEF NInv, TypeOK, Backed
  <2> QED
    BY <2>5, <2>9, <2>10 DEF NInv
<1>10. ASSUME NEW w \in Workers, Record(w)
       PROVE  NInv'
  <2>1. PICK id \in Ids, copy \in Rows :
          /\ id = worker[w].id /\ copy = worker[w].copy
          /\ Backed(id, copy) /\ copy.status \in Stored
          /\ rows' = [rows EXCEPT ![id] = copy] \/ rows' = rows
    BY <1>10 DEF NInv, TypeOK, Record, WorkerStates, CopyOK, InHand
  <2>2. TypeOK'
    BY <1>10, <2>1, RowTypes DEF NInv, TypeOK, Record
  <2>3. \A x \in Ids : Backed(x, rows[x])'
    BY <1>10, <2>1 DEF NInv, TypeOK, Record, Backed
  <2>4. \A v \in Workers : CopyOK(v)'
    BY <1>10, <2>1 DEF NInv, TypeOK, Record, CopyOK, Backed, Idle, InHand, Stored
  <2> QED
    BY <2>2, <2>3, <2>4 DEF NInv
<1>11. ASSUME NEW w \in Workers, Fail(w)
       PROVE  NInv'
  BY <1>11, RowTypes DEF NInv, TypeOK, Fail, Backed, CopyOK, Idle, InHand
<1>12. CASE Tick
  <2>1. TypeOK'
    <3>1. rows' \in [Ids -> Rows]
      BY <1>12, EarlierFacts DEF NInv, TypeOK, Tick
    <3>2. worker' \in [Workers -> WorkerStates]
      BY <1>12, EarlierFacts DEF NInv, TypeOK, Tick, WorkerStates
    <3> QED
      BY <1>12, <3>1, <3>2 DEF NInv, TypeOK, Tick
  <2>2. \A x \in Ids : Backed(x, rows[x])'
    BY <1>12, EarlierFacts DEF NInv, TypeOK, Tick, Backed
  <2>3. \A v \in Workers : CopyOK(v)'
    <3> TAKE v \in Workers
    <3>1. /\ worker'[v].pc = worker[v].pc /\ worker'[v].id = worker[v].id
          /\ worker'[v].copy.status = worker[v].copy.status
          /\ worker'[v].copy.attempts = worker[v].copy.attempts
      BY <1>12, EarlierFacts DEF NInv, TypeOK, Tick, WorkerStates
    <3>2. worker[v].pc # "idle" => rows'[worker[v].id].status = rows[worker[v].id].status
      BY <1>12, EarlierFacts DEF NInv, TypeOK, Tick, WorkerStates
    <3> QED
      BY <1>12, <3>1, <3>2 DEF NInv, Tick, CopyOK, Backed, InHand
  <2> QED
    BY <2>1, <2>2, <2>3 DEF NInv
<1>13. CASE Crash
  BY <1>13, RowTypes DEF NInv, TypeOK, Crash, Backed, CopyOK, Idle, InHand
<1> QED
  BY <1>1, <1>2, <1>3, <1>4, <1>5, <1>6, <1>7, <1>8, <1>9, <1>10, <1>11, <1>12, <1>13
     DEF Next, Process

(* The dispatcher's state is well formed in every behaviour.               *)
THEOREM TypeCorrect == Spec => []TypeOK
<1>1. NInv => TypeOK
  BY DEF NInv
<1> QED
  BY <1>1, NInit, NInvNext, PTL DEF Spec

LEMMA NInvMeans == NInv => FailureIsEarned /\ SucceededWasDelivered
<1> SUFFICES ASSUME NInv, NEW id \in Ids
             PROVE  /\ rows[id].attempts =< sends[id]
                    /\ rows[id].status = "failed" => \E n \in Limits : sends[id] >= n
                    /\ rows[id].status = "succeeded" => id \in delivered
  BY DEF FailureIsEarned, SucceededWasDelivered
<1>1. Backed(id, rows[id]) /\ rows[id].attempts \in Nat /\ sends[id] \in Nat
  BY DEF NInv, TypeOK, Rows
<1>2. \A n \in Limits : n \in Nat
  BY NotificationAssumption
<1> QED
  BY <1>1, <1>2 DEF Backed

(* With any number of workers, duplicate queue entries, stale copies and   *)
(* restarts under another limit, no delivery is reported failed before a   *)
(* configured number of sends was really made.                             *)
THEOREM FailureIsEarnedHolds == Spec => []FailureIsEarned
BY NInvMeans, NInit, NInvNext, PTL DEF Spec

(* ... and none is reported succeeded that did not reach its channel.      *)
THEOREM SucceededWasDeliveredHolds == Spec => []SucceededWasDelivered
BY NInvMeans, NInit, NInvNext, PTL DEF Spec
-----------------------------------------------------------------------------
(* While no two workers have one row in hand each copy is current: nobody  *)
(* else settles its row meanwhile, and a row that failed is not sent from  *)
(* an old queue entry.  A single worker is always apart.                   *)
Sole == \A v, w \in Workers : v = w

(* No row is in the hands of two workers.                                  *)
Apart ==
    \A v, w \in Workers :
        worker[v].pc \in InHand /\ worker[w].pc \in InHand /\ worker[v].id = worker[w].id =>
            v = w

Referenced(id) ==
    \/ id \in created \/ id \in retry
    \/ \E i \in 1..Len(jobs) : jobs[i] = id
    \/ \E w \in Workers : worker[w].pc = "load" /\ worker[w].id = id

ApartInv ==
    /\ \A id \in Ids : rows[id].status = "failed" /\ Referenced(id) =>
           rows[id].attempts >= limit
    /\ \A w \in Workers : worker[w].pc \in InHand =>
           /\ rows[worker[w].id].status \in {"pending", "gone"}
           /\ worker[w].copy.status = "failed" => worker[w].copy.attempts >= limit

LEMMA ApartInit == Init => ApartInv
BY DEF Init, ApartInv, Idle, InHand, NoRow

LEMMA ApartNext == NInv /\ ApartInv /\ Apart /\ [Next]_vars => ApartInv'
<1> SUFFICES ASSUME NInv, ApartInv, Apart, [Next]_vars PROVE ApartInv'
  OBVIOUS
<1> USE NotificationAssumption
<1>1. CASE UNCHANGED vars
  BY <1>1 DEF vars, ApartInv, Referenced
<1>2. ASSUME NEW id \in Ids, CreateAttempt(id)
      PROVE  ApartInv'
  BY <1>2 DEF NInv, TypeOK, CopyOK, CreateAttempt, ApartInv, Referenced, FreshRow, InHand
<1>3. ASSUME NEW id \in Ids, Enqueue(id)
      PROVE  ApartInv'
  <2>1. \A x \in Ids : Referenced(x)' => Referenced(x)
    BY <1>3 DEF NInv, TypeOK, Enqueue, Referenced
  <2> QED
    BY <1>3, <2>1 DEF Enqueue, ApartInv
<1>4. ASSUME NEW id \in Ids, Purge(id)
      PROVE  ApartInv'
  BY <1>4 DEF NInv, TypeOK, Purge, ApartInv, Referenced, NoRow
<1>5. CASE RetryList
  <2>1. \A x \in Ids : Referenced(x)' => Referenced(x) \/ rows[x].status = "pending"
    BY <1>5 DEF RetryList, Referenced, Due
  <2> QED
    BY <1>5, <2>1 DEF RetryList, ApartInv
<1>6. CASE RetryPush
  <2>1. \A x \in Ids : Referenced(x)' => Referenced(x)
    <3>1. PICK id \in retry : IF HasRoom
                               THEN jobs' = Append(jobs, id) /\ retry' = retry \ {id}
                               ELSE UNCHANGED jobs /\ retry' = {}
      BY <1>6 DEF RetryPush
    <3>2. jobs \in Seq(Ids) /\ id \in Ids
      BY DEF NInv, TypeOK
    <3>3. \A i \in 1..Len(jobs') : jobs'[i] = id \/ (i \in 1..Len(jobs) /\ jobs'[i] = jobs[i])
      BY <3>1, <3>2
    <3> QED
      BY <1>6, <3>1, <3>3 DEF RetryPush, Referenced
  <2> QED
    BY <1>6, <2>1 DEF RetryPush, ApartInv
<1>7. ASSUME NEW w \in Workers, Take(w)
      PROVE  ApartInv'
  <2>1. \A x \in Ids : Referenced(x)' => Referenced(x)
    <3>1. /\ jobs \in Seq(Ids) /\ jobs # <<>> /\ jobs' = Tail(jobs)
          /\ worker' = [worker EXCEPT ![w] = [Idle EXCEPT !.pc = "load", !.id = Head(jobs)]]
          /\ UNCHANGED <<created, retry>>
      BY <1>7 DEF NInv, TypeOK, Take
    <3>2. 1 \in 1..Len(jobs) /\ Head(jobs) = jobs[1]
      BY <3>1
    <3>3. \A i \in 1..Len(jobs') : i + 1 \in 1..Len(jobs) /\ jobs'[i] = jobs[i + 1]
      BY <3>1
    <3>4. worker'[w].id = jobs[1] /\ \A v \in Workers : v # w => worker'[v] = worker[v]
      BY <3>1, <3>2 DEF NInv, TypeOK, Idle
    <3> QED
      BY <3>1, <3>2, <3>3, <3>4 DEF Referenced
  <2>2. \A v \in Workers : worker'[v] = worker[v] \/ worker'[v].pc = "load"
    BY <1>7 DEF NInv, TypeOK, Take, Idle
  <2> QED
    BY <1>7, <2>1, <2>2 DEF Take, ApartInv, InHand
<1>8. ASSUME NEW w \in Workers, Load(w)
      PROVE  ApartInv'
  <2>1. PICK id \in Ids, a \in {Loaded(worker[w].id, rows[worker[w].id])} :
          /\ id = worker[w].id /\ a = Loaded(id, rows[id])
          /\ worker' = [worker EXCEPT ![w] = a]
    BY <1>8 DEF NInv, TypeOK, Load, WorkerStates
  <2>2. a.pc # "load"
    BY <2>1 DEF Loaded, Idle
  <2>3. \A x \in Ids : Referenced(x)' => Referenced(x)
    BY <1>8, <2>1, <2>2 DEF NInv, TypeOK, Load, Referenced
  <2>4. Referenced(id)
    BY <1>8, <2>1 DEF Load, Referenced
  <2>5. a.pc \in InHand => /\ a.id = id
                           /\ rows[id].status = "pending"
                           /\ a.copy.status = "failed" => a.copy.attempts >= limit
    <3>1. rows[id] \in Rows
      BY DEF NInv, TypeOK
    <3> QED
      BY <2>1, <2>4, <3>1 DEF Loaded, ApartInv, InHand, Idle, MayNotSend, Stored, Rows,
         NInv, TypeOK
  <2> QED
    BY <1>8, <2>1, <2>3, <2>5 DEF NInv, TypeOK, Load, ApartInv
<1>9. ASSUME NEW w \in Workers, SendSucceeds(w) \/ SendFails(w)
      PROVE  ApartInv'
  <2>1. PICK id \in Ids, copy \in Rows,
            row \in {AfterSuccess(worker[w].copy), AfterFailure(worker[w].copy)} :
          /\ id = worker[w].id /\ copy = worker[w].copy /\ worker[w].pc = "send"
          /\ row = AfterSuccess(copy) \/ row = AfterFailure(copy)
          /\ worker' = [worker EXCEPT ![w] = [worker[w] EXCEPT !.pc = "record", !.copy = row]]
          /\ UNCHANGED <<rows, limit, created, jobs, retry>>
    BY <1>9 DEF NInv, TypeOK, SendSucceeds, SendFails, Sent, WorkerStates
  <2>2. row.status = "failed" => row.attempts >= limit
    <3>1. copy.attempts \in Nat /\ limit \in Nat
      BY DEF NInv, TypeOK, Rows
    <3> QED
      BY <2>1, <3>1 DEF AfterSuccess, AfterFailure
  <2>3. /\ worker'[w].pc = "record" /\ worker'[w].id = id /\ worker'[w].copy = row
        /\ \A v \in Workers : v # w => worker'[v] = worker[v]
    BY <2>1 DEF NInv, TypeOK, WorkerStates
  <2>4. \A x \in Ids : Referenced(x)' => Referenced(x)
    BY <2>1, <2>3 DEF Referenced
  <2> QED
    BY <2>1, <2>2, <2>3, <2>4 DEF ApartInv, InHand
<1>10. ASSUME NEW w \in Workers, Record(w)
       PROVE  ApartInv'
  <2>1. PICK id \in Ids, copy \in Rows :
          /\ id = worker[w].id /\ copy = worker[w].copy /\ worker[w].pc \in InHand
          /\ \/ rows' = rows
             \/ rows' = [rows EXCEPT ![id] = copy]
          /\ worker' = [worker EXCEPT ![w] = Idle]
          /\ UNCHANGED <<limit, created, jobs, retry>>
    BY <1>10 DEF NInv, TypeOK, WorkerStates, Record, InHand
  <2>2. \A x \in Ids : Referenced(x)' => Referenced(x)
    BY <2>1 DEF Referenced, Idle, NInv, TypeOK
  <2>3. \A v \in Workers : worker'[v].pc \in InHand =>
            worker'[v] = worker[v] /\ worker[v].id \in Ids /\ worker[v].id # id
    BY <2>1 DEF Apart, NInv, TypeOK, WorkerStates, Idle, InHand
  <2>4. copy.status = "failed" => copy.attempts >= limit
    BY <2>1 DEF ApartInv
  <2>5. ASSUME NEW x \in Ids, rows'[x].status = "failed", Referenced(x)'
        PROVE  rows'[x].attempts >= limit'
    BY <2>1, <2>2, <2>4, <2>5 DEF NInv, TypeOK, ApartInv
  <2>6. ASSUME NEW v \in Workers, worker'[v].pc \in InHand
        PROVE  /\ rows'[worker'[v].id].status \in {"pending", "gone"}
               /\ worker'[v].copy.status = "failed" => worker'[v].copy.attempts >= limit'
    <3>1. rows'[worker[v].id] = rows[worker[v].id] /\ worker'[v] = worker[v]
      BY <2>1, <2>3, <2>6 DEF NInv, TypeOK
    <3> QED
      BY <2>1, <2>6, <3>1 DEF ApartInv
  <2> QED
    BY <2>5, <2>6 DEF ApartInv
<1>11. ASSUME NEW w \in Workers, Fail(w)
       PROVE  ApartInv'
  <2>1. \A x \in Ids : Referenced(x)' => Referenced(x)
    BY <1>11 DEF NInv, TypeOK, Fail, Referenced, Idle
  <2> QED
    BY <1>11, <2>1 DEF NInv, TypeOK, Fail, ApartInv, Idle, InHand
<1>12. CASE Tick
  <2>1. \A x \in Ids : rows'[x].status = rows[x].status /\ rows'[x].attempts = rows[x].attempts
    BY <1>12, EarlierFacts DEF NInv, TypeOK, Tick
  <2>2. \A v \in Workers : /\ worker'[v].pc = worker[v].pc /\ worker'[v].id = worker[v].id
                           /\ worker'[v].copy.status = worker[v].copy.status
                           /\ worker'[v].copy.attempts = worker[v].copy.attempts
    BY <1>12, EarlierFacts DEF NInv, TypeOK, Tick, WorkerStates
  <2>3. \A x \in Ids : Referenced(x)' => Referenced(x)
    BY <1>12, <2>2 DEF Tick, Referenced
  <2>4. \A v \in Workers : worker[v].pc \in InHand => worker[v].id \in Ids
    BY DEF NInv, TypeOK, WorkerStates, InHand
  <2> QED
    BY <1>12, <2>1, <2>2, <2>3, <2>4 DEF Tick, ApartInv
<1>13. CASE Crash
  BY <1>13 DEF Crash, ApartInv, Referenced, Idle, InHand
<1> QED
  BY <1>1, <1>2, <1>3, <1>4, <1>5, <1>6, <1>7, <1>8, <1>9, <1>10, <1>11, <1>12, <1>13
     DEF Next, Process
-----------------------------------------------------------------------------
(* One step of the dispatcher, as the contract sees it.                    *)
LEMMA ContractStep ==
    ASSUME NInv, Sole => ApartInv, [Next]_vars
    PROVE  [Contract!Next]_(Contract!contractVars)
<1> DEFINE outcome == [id \in Ids |-> rows[id].status]
<1>1. ASSUME UNCHANGED <<outcome, sends, delivered>>
      PROVE  [Contract!Next]_(Contract!contractVars)
  BY <1>1 DEF Contract!contractVars
<1>2. ASSUME NEW id \in Ids, CreateAttempt(id)
      PROVE  Contract!Accept(id)
  BY <1>2 DEF NInv, TypeOK, CreateAttempt, FreshRow, Contract!Accept
<1>3. ASSUME NEW id \in Ids, Purge(id)
      PROVE  Contract!Forget(id)
  BY <1>3 DEF NInv, TypeOK, Purge, NoRow, Stored, Contract!Forget
<1>4. ASSUME NEW w \in Workers, SendSucceeds(w) \/ SendFails(w)
      PROVE  \E id \in Ids : Contract!Send(id)
  <2>1. PICK id \in Ids : id = worker[w].id /\ rows[id].status # "none"
    BY <1>4 DEF NInv, TypeOK, SendSucceeds, SendFails, WorkerStates, CopyOK, InHand
  <2> QED
    BY <1>4, <2>1 DEF SendSucceeds, SendFails, Sent, Contract!Send
<1>5. ASSUME NEW w \in Workers, Record(w)
      PROVE  [Contract!Next]_(Contract!contractVars)
  <2>1. PICK id \in Ids, copy \in Rows :
          /\ id = worker[w].id /\ copy = worker[w].copy
          /\ Backed(id, copy) /\ copy.status \in Stored
    BY <1>5, NotificationAssumption
       DEF NInv, TypeOK, Record, WorkerStates, CopyOK, InHand
  <2>2. CASE rows' = rows
    BY <1>1, <1>5, <2>2 DEF Record
  <2>3. CASE rows[id].status \in Stored /\ rows' = [rows EXCEPT ![id] = copy]
    <3>1. rows[id].status = "pending" \/ \E u, v \in Workers : u # v
      BY <1>5, <2>1, <2>3 DEF Sole, ApartInv, Record, InHand, Stored
    <3>2. Contract!Earned(id, copy.status)
      <4>1. /\ copy.attempts \in Nat /\ sends[id] \in Nat
            /\ \A n \in Limits : n \in Nat
        BY NotificationAssumption DEF NInv, TypeOK, Rows
      <4> QED
        BY <2>1, <4>1 DEF Backed, Stored, Contract!Earned
    <3>3. outcome' = [outcome EXCEPT ![id] = copy.status]
      BY <2>3 DEF NInv, TypeOK
    <3>4. Contract!Settle(id, copy.status)
      BY <1>5, <2>3, <3>1, <3>2, <3>3 DEF Record, Stored, Contract!Settle
    <3> QED
      BY <2>1, <3>4 DEF Contract!Next, Stored
  <2> QED
    BY <1>5, <2>1, <2>2, <2>3 DEF Record
<1>6. CASE Tick
  <2>1. outcome' = outcome
    BY <1>6, EarlierFacts DEF NInv, TypeOK, Tick
  <2> QED
    BY <1>1, <1>6, <2>1 DEF Tick
<1> QED
  BY <1>1, <1>2, <1>3, <1>4, <1>5, <1>6
     DEF Next, vars, Enqueue, RetryList, RetryPush, Take, Process, Load, Fail, Crash,
         Contract!Next

LEMMA ContractInit == Init => Contract!Init
BY DEF Init, NoRow, Contract!Init

(* The dispatcher keeps the delivery contract, with any number of workers; *)
(* a settled delivery is only ever reopened when there are several.        *)
THEOREM ImplementsContractHolds == Spec => ImplementsContract
<1>1. CASE Sole
  <2>1. NInv /\ ApartInv /\ [Next]_vars => [Contract!Next]_(Contract!contractVars)
    BY ContractStep
  <2>2. Apart
    BY <1>1 DEF Sole, Apart
  <2>3. NInv /\ ApartInv /\ [Next]_vars => ApartInv'
    BY <2>2, ApartNext
  <2> QED
    BY <2>1, <2>3, NInit, NInvNext, ApartInit, ContractInit, PTL
       DEF Spec, ImplementsContract, Contract!Spec
<1>2. CASE ~Sole
  <2>1. NInv /\ [Next]_vars => [Contract!Next]_(Contract!contractVars)
    BY <1>2, ContractStep
  <2> QED
    BY <2>1, NInit, NInvNext, ContractInit, PTL
       DEF Spec, ImplementsContract, Contract!Spec
<1> QED
  BY <1>1, <1>2

LEMMA SettledStep ==
    ASSUME NInv, ApartInv, [Next]_vars, NEW id \in Ids,
           rows[id].status \in {"succeeded", "failed"}
    PROVE  rows'[id].status \in {rows[id].status, "gone"}
<1>1. CASE UNCHANGED rows
  BY <1>1
<1>2. ASSUME NEW x \in Ids, CreateAttempt(x)
      PROVE  rows'[id].status = rows[id].status
  BY <1>2 DEF NInv, TypeOK, CreateAttempt
<1>3. ASSUME NEW x \in Ids, Purge(x)
      PROVE  rows'[id].status \in {rows[id].status, "gone"}
  BY <1>3 DEF NInv, TypeOK, Purge, NoRow
<1>4. ASSUME NEW w \in Workers, Record(w)
      PROVE  rows'[id].status = rows[id].status
  BY <1>4 DEF NInv, TypeOK, Record, ApartInv, InHand, Stored
<1>5. CASE Tick
  BY <1>5, EarlierFacts DEF NInv, TypeOK, Tick
<1> QED
  BY <1>1, <1>2, <1>3, <1>4, <1>5
     DEF Next, vars, Enqueue, RetryList, RetryPush, Take, Process, Load, SendSucceeds,
         SendFails, Sent, Fail, Crash

LEMMA ApartHolds == Spec /\ []Apart => [](NInv /\ ApartInv)
<1>1. NInv /\ ApartInv /\ Apart /\ [Next]_vars => ApartInv'
  BY ApartNext
<1> QED
  BY <1>1, NInit, NInvNext, ApartInit, PTL DEF Spec

(* While no two workers have one row in hand a settled delivery is never   *)
(* reopened: what an operator reads as succeeded or failed stays so until  *)
(* retention deletes it.                                                   *)
THEOREM SettledIsFinalApart == Spec /\ []Apart => SettledIsFinal
<1>1. NInv /\ ApartInv /\ [Next]_vars =>
          [\A id \in Ids : rows[id].status \in {"succeeded", "failed"} =>
               rows'[id].status \in {rows[id].status, "gone"}]_vars
  BY SettledStep
<1> QED
  BY <1>1, ApartHolds, PTL DEF Spec, SettledIsFinal

(* A single worker never reopens a settled delivery.                       *)
THEOREM SettledIsFinalAlone == ASSUME Sole PROVE Spec => SettledIsFinal
<1>1. Apart
  BY DEF Sole, Apart
<1> QED
  BY <1>1, SettledIsFinalApart, PTL

(* The contract without the clause that lets a delivery be reopened.       *)
Strict == INSTANCE DeliveryContract WITH
    outcome <- [id \in Ids |-> rows[id].status],
    Reopens <- FALSE

LEMMA StrictStep ==
    ASSUME NInv, ApartInv, [Next]_vars
    PROVE  [Strict!Next]_(Strict!contractVars)
<1> DEFINE outcome == [id \in Ids |-> rows[id].status]
<1>1. [Contract!Next]_(Contract!contractVars)
  BY ContractStep
<1>2. CASE UNCHANGED <<outcome, sends, delivered>>
  BY <1>2 DEF Strict!contractVars
<1>3. ASSUME NEW id \in Ids, Contract!Accept(id)
      PROVE  Strict!Next
  BY <1>3 DEF Contract!Accept, Strict!Accept, Strict!Next
<1>4. ASSUME NEW id \in Ids, Contract!Send(id)
      PROVE  Strict!Next
  BY <1>4 DEF Contract!Send, Strict!Send, Strict!Next
<1>5. ASSUME NEW id \in Ids, Contract!Forget(id)
      PROVE  Strict!Next
  BY <1>5 DEF Contract!Forget, Strict!Forget, Strict!Next
<1>6. ASSUME NEW id \in Ids, NEW result \in {"pending", "succeeded", "failed"},
             Contract!Settle(id, result)
      PROVE  [Strict!Next]_(Strict!contractVars)
  <2>1. /\ outcome' = [outcome EXCEPT ![id] = result] /\ UNCHANGED <<sends, delivered>>
        /\ outcome[id] \in {"pending", "succeeded", "failed"}
    BY <1>6 DEF Contract!Settle
  <2>2. CASE outcome[id] = "pending"
    <3>1. Strict!Settle(id, result)
      BY <1>6, <2>2 DEF Contract!Settle, Contract!Earned, Strict!Settle, Strict!Earned
    <3> QED
      BY <3>1 DEF Strict!Next
  <2>3. CASE outcome[id] \in {"succeeded", "failed"}
    <3>1. outcome'[id] \in {outcome[id], "gone"}
      BY <2>3, SettledStep
    <3>2. outcome'[id] = result
      BY <2>1
    <3>3. result = outcome[id]
      BY <3>1, <3>2
    <3>4. outcome' = outcome
      BY <2>1, <3>3
    <3> QED
      BY <1>2, <2>1, <3>4
  <2> QED
    BY <2>1, <2>2, <2>3
<1> QED
  BY <1>1, <1>2, <1>3, <1>4, <1>5, <1>6 DEF Contract!Next, Contract!contractVars

(* Then the dispatcher implements the contract in which a delivery is      *)
(* settled once, with any number of workers.                               *)
THEOREM ImplementsStrictContract == Spec /\ []Apart => Strict!Spec
<1>1. NInv /\ ApartInv /\ [Next]_vars => [Strict!Next]_(Strict!contractVars)
  BY StrictStep
<1>2. Init => Strict!Init
  BY DEF Init, NoRow, Strict!Init
<1> QED
  BY <1>1, <1>2, ApartHolds, PTL DEF Spec, Strict!Spec
-----------------------------------------------------------------------------
(* A row and the copy that is about to replace it wait no longer than      *)
(* their counter calls for.                                                *)
WaitOK(row) ==
    row.status = "pending" =>
        row.wait =< IF row.attempts = 0 THEN 0 ELSE Backoff(row.attempts)

WaitInv ==
    /\ \A id \in Ids : WaitOK(rows[id])
    /\ \A w \in Workers : worker[w].pc \in {"record", "expire"} => WaitOK(worker[w].copy)

LEMMA EarlierWaits ==
    ASSUME NEW row \in Rows, WaitOK(row)
    PROVE  WaitOK(Earlier(row))
<1>1. Earlier(row).wait =< row.wait /\ Earlier(row).wait \in Nat /\ row.wait \in Nat
  BY DelayTypes DEF Earlier, Rows
<1>2. row.attempts \in Nat /\ Backoff(row.attempts) \in Int
  BY DelayTypes DEF Rows
<1>3. CASE row.attempts = 0
  BY <1>1, <1>3, EarlierFacts DEF WaitOK
<1>4. CASE row.attempts # 0
  BY <1>1, <1>2, <1>4, EarlierFacts DEF WaitOK
<1> QED BY <1>3, <1>4

LEMMA WaitNext == NInv /\ WaitInv /\ [Next]_vars => WaitInv'
<1> SUFFICES ASSUME NInv, WaitInv, [Next]_vars PROVE WaitInv'
  OBVIOUS
<1>1. CASE UNCHANGED <<rows, worker>>
  BY <1>1 DEF WaitInv, WaitOK
<1>2. ASSUME NEW id \in Ids, CreateAttempt(id) \/ Purge(id)
      PROVE  WaitInv'
  <2>1. /\ rows' = [rows EXCEPT ![id] = rows'[id]] /\ WaitOK(rows'[id])
        /\ worker' = worker
    BY <1>2 DEF NInv, TypeOK, CreateAttempt, Purge, FreshRow, NoRow, WaitOK
  <2> QED BY <2>1 DEF NInv, TypeOK, WaitInv, WaitOK
<1>3. ASSUME NEW w \in Workers, Take(w) \/ Fail(w)
      PROVE  WaitInv'
  <2>1. /\ rows' = rows
        /\ \A v \in Workers : worker'[v] = worker[v] \/ worker'[v].pc \in {"idle", "load"}
    <3>1. worker \in [Workers -> WorkerStates]
      BY DEF NInv, TypeOK
    <3>2. CASE Take(w)
      <4>1. [Idle EXCEPT !.pc = "load", !.id = Head(jobs)].pc = "load"
        BY DEF Idle
      <4> QED BY <3>1, <3>2, <4>1 DEF Take
    <3>3. CASE Fail(w)
      BY <3>1, <3>3 DEF Fail, Idle
    <3> QED BY <1>3, <3>2, <3>3
  <2> QED BY <2>1 DEF WaitInv, WaitOK
<1>4. ASSUME NEW w \in Workers, Load(w)
      PROVE  WaitInv'
  <2>1. worker' = [worker EXCEPT ![w] = Loaded(worker[w].id, rows[worker[w].id])]
    BY <1>4 DEF Load
  <2>2. worker[w].id \in Ids /\ rows[worker[w].id] \in Rows
    BY <1>4 DEF NInv, TypeOK, Load, WorkerStates
  <2>3. Loaded(worker[w].id, rows[worker[w].id]).pc \in {"record", "expire"} =>
          Loaded(worker[w].id, rows[worker[w].id]).copy.status = "failed"
    BY <2>2 DEF Loaded, Idle, Rows, Stored
  <2> QED BY <1>4, <2>1, <2>3 DEF NInv, TypeOK, Load, WaitInv, WaitOK
<1>5. ASSUME NEW w \in Workers, SendSucceeds(w) \/ SendFails(w)
      PROVE  WaitInv'
  <2>1. PICK row \in {AfterSuccess(worker[w].copy), AfterFailure(worker[w].copy)} :
          /\ worker' = [worker EXCEPT ![w] = [worker[w] EXCEPT !.pc = "record", !.copy = row]]
          /\ rows' = rows
    BY <1>5 DEF SendSucceeds, SendFails, Sent
  <2>2. worker[w].copy \in Rows /\ worker[w] \in WorkerStates
    BY DEF NInv, TypeOK, WorkerStates
  <2>3. worker[w].copy.attempts + 1 \in Nat /\ worker[w].copy.attempts + 1 # 0
    BY <2>2 DEF Rows
  <2>4. WaitOK(AfterSuccess(worker[w].copy))
    BY DEF WaitOK, AfterSuccess
  <2>5. WaitOK(AfterFailure(worker[w].copy))
    <3>1. Backoff(worker[w].copy.attempts + 1) \in Int
      BY <2>3, DelayTypes
    <3>2. CASE worker[w].copy.attempts + 1 < limit
      BY <2>3, <3>1, <3>2 DEF WaitOK, AfterFailure
    <3>3. CASE ~(worker[w].copy.attempts + 1 < limit)
      BY <3>3 DEF WaitOK, AfterFailure
    <3> QED BY <3>2, <3>3
  <2>6. worker'[w].copy = row /\ \A v \in Workers : v # w => worker'[v] = worker[v]
    BY <2>1, <2>2 DEF NInv, TypeOK, WorkerStates
  <2>7. WaitOK(row)
    BY <2>1, <2>4, <2>5
  <2> QED BY <2>1, <2>6, <2>7 DEF WaitInv, WaitOK
<1>6. ASSUME NEW w \in Workers, Record(w)
      PROVE  WaitInv'
  <2>1. WaitOK(worker[w].copy)
    BY <1>6 DEF Record, WaitInv
  <2>2. \/ rows' = rows
        \/ rows' = [rows EXCEPT ![worker[w].id] = worker[w].copy]
    BY <1>6 DEF Record
  <2>3. worker' = [worker EXCEPT ![w] = Idle]
    BY <1>6 DEF Record
  <2> QED BY <2>1, <2>2, <2>3 DEF NInv, TypeOK, WaitInv, WaitOK, Idle
<1>7. CASE Tick
  <2>1. \A id \in Ids : rows'[id] = Earlier(rows[id]) /\ rows[id] \in Rows
    BY <1>7 DEF NInv, TypeOK, Tick
  <2>2. \A w \in Workers : /\ worker'[w].pc = worker[w].pc
                           /\ worker'[w].copy = Earlier(worker[w].copy)
                           /\ worker[w].copy \in Rows
    BY <1>7 DEF NInv, TypeOK, Tick, WorkerStates
  <2>3. \A id \in Ids : WaitOK(rows'[id])
    BY <2>1, EarlierWaits DEF WaitInv
  <2>4. \A w \in Workers :
          worker'[w].pc \in {"record", "expire"} => WaitOK(worker'[w].copy)
    BY <2>2, EarlierWaits DEF WaitInv
  <2> QED BY <2>3, <2>4 DEF WaitInv, WaitOK
<1>8. CASE Crash
  BY <1>8 DEF Crash, Idle, WaitInv, WaitOK
<1> QED
  BY <1>1, <1>2, <1>3, <1>4, <1>5, <1>6, <1>7, <1>8
     DEF Next, vars, Process, Enqueue, RetryList, RetryPush

(* With any number of workers, and for every configured backoff, the wait  *)
(* of a pending row stays within that of its counter.                      *)
THEOREM WaitIsEarnedHolds == Spec => []WaitIsEarned
<1>1. Init => WaitInv
  BY DEF Init, WaitInv, WaitOK, NoRow, Idle
<1>2. WaitInv => WaitIsEarned
  BY DEF WaitInv, WaitOK, WaitIsEarned
<1> QED BY <1>1, <1>2, NInit, NInvNext, WaitNext, PTL DEF Spec
-----------------------------------------------------------------------------
(* Workers apart, again.  What was sent but not counted in the table is    *)
(* the send in hand, and one for each statement or process that failed.    *)
CoveredBy(id, n) == sends[id] =< n + faults

WithinLimits(n) == \E m \in Limits : n =< m

RecordsFor(id) == \E w \in Workers : worker[w].pc = "record" /\ worker[w].id = id

BudgetInv ==
    /\ \A id \in Ids :
          /\ WithinLimits(rows[id].attempts)
          /\ \E m \in Limits : CoveredBy(id, m)
          /\ rows[id].status = "none" => rows[id].attempts = 0
          /\ rows[id].status # "gone" /\ ~RecordsFor(id) => CoveredBy(id, rows[id].attempts)
    /\ \A w \in Workers : worker[w].pc \in InHand =>
          LET a == worker[w]
              n == IF a.pc = "record" THEN a.copy.attempts - 1 ELSE a.copy.attempts
          IN  /\ WithinLimits(a.copy.attempts)
              /\ CoveredBy(a.id, a.copy.attempts)
              /\ rows[a.id].status # "gone" => rows[a.id].attempts = n

LEMMA BudgetInit == Init => BudgetInv
<1> SUFFICES ASSUME Init PROVE BudgetInv
  OBVIOUS
<1>1. \A id \in Ids : rows[id].attempts = 0 /\ sends[id] = 0 /\ faults = 0
  BY DEF Init, NoRow
<1>2. PICK m \in Limits : m \in Nat
  BY NotificationAssumption
<1>3. \A w \in Workers : worker[w].pc = "idle"
  BY DEF Init, Idle
<1> QED BY <1>1, <1>2, <1>3 DEF BudgetInv, CoveredBy, WithinLimits, InHand

(* Steps that leave the counters alone.                                    *)
SameCount(id) ==
    /\ \/ rows'[id].attempts = rows[id].attempts
       \/ rows'[id].attempts = 0 /\ rows'[id].status = "gone"
    /\ rows[id].status = "gone" => rows'[id].status = "gone"
    /\ rows'[id].status = "none" => rows[id].status = "none"

SameWork(w) ==
    \/ worker'[w].pc \notin InHand /\ worker[w].pc # "record"
    \/ /\ worker'[w].pc = worker[w].pc /\ worker'[w].id = worker[w].id
       /\ worker'[w].copy.attempts = worker[w].copy.attempts

LEMMA BudgetKept ==
    ASSUME NInv, BudgetInv, TypeOK', UNCHANGED <<sends, faults>>,
           \A id \in Ids : SameCount(id), \A w \in Workers : SameWork(w)
    PROVE  BudgetInv'
<1> USE NotificationAssumption
<1>1. /\ faults \in Nat /\ faults' \in Nat
      /\ \A id \in Ids : sends[id] \in Nat /\ rows[id].attempts \in Nat
      /\ \A m \in Limits : m \in Nat
  BY DEF NInv, TypeOK, Rows
<1> \A id \in Ids : RecordsFor(id) => RecordsFor(id)'
  BY DEF RecordsFor, SameWork, InHand
<1>2. ASSUME NEW id \in Ids, NEW n \in Nat, CoveredBy(id, n)
      PROVE  CoveredBy(id, n)'
  BY <1>1, <1>2 DEF CoveredBy
<1>3. ASSUME NEW id \in Ids
      PROVE  /\ WithinLimits(rows'[id].attempts)
             /\ rows'[id].status = "none" => rows'[id].attempts = 0
             /\ \E m \in Limits : CoveredBy(id, m)'
             /\ rows'[id].status # "gone" /\ ~RecordsFor(id)' => CoveredBy(id, rows[id].attempts)'
  <2>1. WithinLimits(rows'[id].attempts)
    BY <1>1 DEF BudgetInv, WithinLimits, SameCount
  <2>2. \E m \in Limits : CoveredBy(id, m)'
    BY <1>1, <1>2 DEF BudgetInv
  <2>3. ASSUME rows'[id].status # "gone", ~RecordsFor(id)'
        PROVE  CoveredBy(id, rows[id].attempts)'
    <3>1. rows'[id].attempts = rows[id].attempts /\ rows[id].status # "gone" /\ ~RecordsFor(id)
      BY <2>3 DEF SameCount
    <3>2. CoveredBy(id, rows[id].attempts)
      BY <3>1 DEF BudgetInv
    <3> QED BY <1>1, <3>1, <3>2 DEF CoveredBy
  <2>4. rows'[id].status = "none" => rows'[id].attempts = 0
    BY DEF BudgetInv, SameCount
  <2> QED BY <2>1, <2>2, <2>3, <2>4
<1>4. ASSUME NEW w \in Workers, worker'[w].pc \in InHand
      PROVE  LET a == worker'[w]
                 n == IF a.pc = "record" THEN a.copy.attempts - 1 ELSE a.copy.attempts
             IN  /\ WithinLimits(a.copy.attempts)
                 /\ sends'[a.id] =< a.copy.attempts + faults'
                 /\ rows'[a.id].status # "gone" => rows'[a.id].attempts = n
  <2>1. /\ worker[w].pc \in InHand /\ worker'[w].pc = worker[w].pc
        /\ worker'[w].id = worker[w].id /\ worker[w].id \in Ids
        /\ worker'[w].copy.attempts = worker[w].copy.attempts
        /\ worker[w].copy.attempts \in Nat
    BY <1>4 DEF NInv, TypeOK, WorkerStates, InHand, Rows, SameWork
  <2>2. WithinLimits(worker'[w].copy.attempts)
    BY <2>1 DEF BudgetInv, WithinLimits
  <2>3. sends'[worker'[w].id] =< worker'[w].copy.attempts + faults'
    BY <1>1, <2>1 DEF BudgetInv, CoveredBy
  <2>4. rows'[worker[w].id].status # "gone" =>
          /\ rows[worker[w].id].status # "gone"
          /\ rows'[worker[w].id].attempts = rows[worker[w].id].attempts
    BY <2>1 DEF SameCount
  <2> QED BY <2>1, <2>2, <2>3, <2>4 DEF BudgetInv
<1> QED BY <1>3, <1>4 DEF BudgetInv, CoveredBy, WithinLimits

LEMMA BudgetLoad ==
    ASSUME Apart', NInv, BudgetInv, TypeOK', NEW w \in Workers, Load(w)
    PROVE  BudgetInv'
<1>1. PICK id \in Ids, a \in {Loaded(worker[w].id, rows[worker[w].id])} :
        /\ id = worker[w].id /\ a = Loaded(id, rows[id])
        /\ worker' = [worker EXCEPT ![w] = a]
        /\ UNCHANGED <<rows, sends, faults>>
  BY DEF NInv, TypeOK, Load, WorkerStates
<1>2. /\ rows[id] \in Rows /\ a.pc # "record"
      /\ a.pc \in InHand => /\ a.id = id /\ a.copy.attempts = rows[id].attempts
                            /\ rows[id].status # "gone"
  <2>1. rows[id] \in Rows
    BY DEF NInv, TypeOK
  <2> QED BY <1>1, <2>1 DEF Loaded, Idle, InHand, Stored, Rows
<1>3. /\ worker[w].pc = "load" /\ worker'[w] = a
      /\ \A v \in Workers : v # w => worker'[v] = worker[v]
  BY <1>1 DEF Load, NInv, TypeOK
<1>4. /\ \A x \in Ids : RecordsFor(x) = RecordsFor(x)'
      /\ a.pc \in InHand => ~RecordsFor(id)
  BY <1>2, <1>3 DEF RecordsFor, Apart, InHand
<1>5. a.pc \in InHand => CoveredBy(id, rows[id].attempts)
  BY <1>2, <1>4 DEF BudgetInv
<1>6. ASSUME a.pc \in InHand
      PROVE  /\ WithinLimits(a.copy.attempts) /\ CoveredBy(id, a.copy.attempts)'
             /\ rows'[id].attempts = a.copy.attempts
  BY <1>1, <1>2, <1>5, <1>6 DEF BudgetInv, CoveredBy
<1>7. \A x \in Ids :
          /\ WithinLimits(rows[x].attempts)'
          /\ rows'[x].status = "none" => rows'[x].attempts = 0
          /\ \E m \in Limits : CoveredBy(x, m)'
          /\ rows'[x].status # "gone" /\ ~RecordsFor(x)' => CoveredBy(x, rows[x].attempts)'
  BY <1>1, <1>4 DEF BudgetInv, CoveredBy, WithinLimits
<1>8. ASSUME NEW v \in Workers, worker'[v].pc \in InHand
      PROVE  LET b == worker'[v]
                 n == IF b.pc = "record" THEN b.copy.attempts - 1 ELSE b.copy.attempts
             IN  /\ WithinLimits(b.copy.attempts)
                 /\ sends'[b.id] =< b.copy.attempts + faults'
                 /\ rows'[b.id].status # "gone" => rows'[b.id].attempts = n
  <2>1. CASE v = w
    BY <1>2, <1>3, <1>6, <1>8, <2>1 DEF CoveredBy
  <2>2. CASE v # w
    <3>1. worker'[v] = worker[v]
      BY <1>3, <2>2
    <3> QED BY <1>1, <1>8, <3>1 DEF BudgetInv, CoveredBy
  <2> QED BY <2>1, <2>2
<1> QED BY <1>7, <1>8 DEF BudgetInv, CoveredBy, WithinLimits

LEMMA BudgetSend ==
    ASSUME Apart, NInv, BudgetInv, TypeOK', NEW w \in Workers, SendSucceeds(w) \/ SendFails(w)
    PROVE  BudgetInv'
<1> USE NotificationAssumption
<1>1. PICK id \in Ids, copy \in Rows,
          row \in {AfterSuccess(worker[w].copy), AfterFailure(worker[w].copy)} :
        /\ id = worker[w].id /\ copy = worker[w].copy /\ worker[w].pc = "send"
        /\ row = AfterSuccess(copy) \/ row = AfterFailure(copy)
        /\ worker' = [worker EXCEPT ![w] = [worker[w] EXCEPT !.pc = "record", !.copy = row]]
        /\ sends' = [sends EXCEPT ![id] = @ + 1]
        /\ UNCHANGED <<rows, faults>>
  BY DEF NInv, TypeOK, SendSucceeds, SendFails, Sent, WorkerStates
<1>2. /\ CoveredBy(id, copy.attempts) /\ copy.attempts < limit /\ limit \in Limits
      /\ rows[id].status # "gone" => rows[id].attempts = copy.attempts
  BY <1>1 DEF BudgetInv, InHand, NInv, TypeOK, CopyOK
<1>3. row.attempts = copy.attempts + 1 /\ copy.attempts \in Nat /\ limit \in Nat
  BY <1>1, <1>2 DEF AfterSuccess, AfterFailure, Rows
<1>4. /\ worker'[w].pc = "record" /\ worker'[w].id = id /\ worker'[w].copy = row
      /\ \A v \in Workers : v # w => worker'[v] = worker[v]
  BY <1>1 DEF NInv, TypeOK, WorkerStates
<1>5. /\ RecordsFor(id)'
      /\ \A x \in Ids : x # id => RecordsFor(x) = RecordsFor(x)'
  BY <1>1, <1>4 DEF RecordsFor
<1>6. /\ sends'[id] = sends[id] + 1 /\ sends[id] \in Nat /\ faults \in Nat
      /\ \A x \in Ids : x # id => sends'[x] = sends[x]
  BY <1>1 DEF NInv, TypeOK
<1>7. WithinLimits(row.attempts) /\ sends'[id] =< row.attempts + faults
  BY <1>2, <1>3, <1>6 DEF CoveredBy, WithinLimits
<1>8. sends'[id] =< limit + faults
  BY <1>2, <1>3, <1>6 DEF CoveredBy
<1>9. ASSUME NEW x \in Ids
      PROVE  /\ WithinLimits(rows[x].attempts)'
             /\ rows'[x].status = "none" => rows'[x].attempts = 0
             /\ \E m \in Limits : CoveredBy(x, m)'
             /\ rows'[x].status # "gone" /\ ~RecordsFor(x)' => CoveredBy(x, rows[x].attempts)'
  <2>1. CASE x = id
    BY <1>1, <1>2, <1>5, <1>8, <2>1 DEF BudgetInv, CoveredBy, WithinLimits
  <2>2. CASE x # id
    BY <1>1, <1>5, <1>6, <2>2 DEF BudgetInv, CoveredBy, WithinLimits
  <2> QED BY <2>1, <2>2
<1>10. rows'[id].status # "gone" => rows'[id].attempts = row.attempts - 1
  BY <1>1, <1>2, <1>3
<1>11. ASSUME NEW v \in Workers, v # w, worker'[v].pc \in InHand
       PROVE  LET a == worker'[v]
                  n == IF a.pc = "record" THEN a.copy.attempts - 1 ELSE a.copy.attempts
              IN  /\ WithinLimits(a.copy.attempts)
                  /\ sends'[a.id] =< a.copy.attempts + faults'
                  /\ rows'[a.id].status # "gone" => rows'[a.id].attempts = n
  <2>1. worker'[v] = worker[v] /\ worker[v].id \in Ids /\ worker[v].id # id
    BY <1>1, <1>4, <1>11 DEF Apart, InHand, NInv, TypeOK, WorkerStates
  <2>2. sends'[worker[v].id] = sends[worker[v].id]
    BY <1>6, <2>1
  <2> QED BY <1>1, <1>11, <2>1, <2>2 DEF BudgetInv, CoveredBy
<1>12. ASSUME NEW v \in Workers, worker'[v].pc \in InHand
       PROVE  LET a == worker'[v]
                  n == IF a.pc = "record" THEN a.copy.attempts - 1 ELSE a.copy.attempts
              IN  /\ WithinLimits(a.copy.attempts)
                  /\ sends'[a.id] =< a.copy.attempts + faults'
                  /\ rows'[a.id].status # "gone" => rows'[a.id].attempts = n
  <2>1. CASE v = w
    BY <1>1, <1>4, <1>7, <1>10, <2>1
  <2>2. CASE v # w
    BY <1>11, <1>12, <2>2
  <2> QED BY <2>1, <2>2
<1> QED BY <1>9, <1>12 DEF BudgetInv, CoveredBy, WithinLimits

LEMMA BudgetRecord ==
    ASSUME Apart, NInv, BudgetInv, TypeOK', NEW w \in Workers, Record(w)
    PROVE  BudgetInv'
<1>1. PICK id \in Ids :
        /\ id = worker[w].id /\ worker[w].pc \in InHand
        /\ rows' = IF rows[id].status \in Stored
                     THEN [rows EXCEPT ![id] = worker[w].copy] ELSE rows
        /\ worker' = [worker EXCEPT ![w] = Idle]
        /\ UNCHANGED <<sends, faults>>
  BY DEF NInv, TypeOK, Record, WorkerStates, InHand
<1>2. /\ CoveredBy(id, worker[w].copy.attempts) /\ WithinLimits(worker[w].copy.attempts)
      /\ rows[id].status # "none" /\ rows[id].status \in Statuses
      /\ worker[w].copy.status \in Stored
  BY <1>1 DEF BudgetInv, NInv, CopyOK, TypeOK, Rows
<1>3. worker'[w] = Idle /\ \A v \in Workers : v # w => worker'[v] = worker[v]
  BY <1>1 DEF NInv, TypeOK
<1>4. \A x \in Ids : x # id => RecordsFor(x) = RecordsFor(x)'
  BY <1>1, <1>3 DEF RecordsFor, Idle
<1>5. ASSUME NEW x \in Ids
      PROVE  /\ WithinLimits(rows[x].attempts)'
             /\ rows'[x].status = "none" => rows'[x].attempts = 0
             /\ \E m \in Limits : CoveredBy(x, m)'
             /\ rows'[x].status # "gone" /\ ~RecordsFor(x)' => CoveredBy(x, rows[x].attempts)'
  <2>1. CASE x = id /\ rows[id].status \in Stored
    <3>1. rows'[id] = worker[w].copy
      BY <1>1, <2>1 DEF NInv, TypeOK
    <3> QED BY <1>1, <1>2, <2>1, <3>1 DEF BudgetInv, CoveredBy, WithinLimits, Stored
  <2>2. CASE x = id /\ rows[id].status \notin Stored
    <3>1. rows[id].status = "gone" /\ rows' = rows
      BY <1>1, <1>2, <2>2 DEF Stored, Statuses
    <3> QED BY <1>1, <2>2, <3>1 DEF BudgetInv, CoveredBy, WithinLimits
  <2>3. CASE x # id
    <3>1. rows'[x] = rows[x]
      <4>1. rows \in [Ids -> Rows]
        BY DEF NInv, TypeOK
      <4> QED BY <1>1, <2>3, <4>1
    <3>2. RecordsFor(x) = RecordsFor(x)'
      BY <1>4, <2>3
    <3> QED BY <1>1, <3>1, <3>2 DEF BudgetInv, CoveredBy, WithinLimits
  <2> QED BY <2>1, <2>2, <2>3
<1>6. ASSUME NEW v \in Workers, worker'[v].pc \in InHand
      PROVE  LET a == worker'[v]
                 n == IF a.pc = "record" THEN a.copy.attempts - 1 ELSE a.copy.attempts
             IN  /\ WithinLimits(a.copy.attempts)
                 /\ sends'[a.id] =< a.copy.attempts + faults'
                 /\ rows'[a.id].status # "gone" => rows'[a.id].attempts = n
  <2>1. worker'[v] = worker[v] /\ worker[v].id \in Ids /\ worker[v].id # id
    BY <1>1, <1>3, <1>6 DEF Apart, Idle, InHand, NInv, TypeOK, WorkerStates
  <2>2. rows'[worker[v].id] = rows[worker[v].id]
    BY <1>1, <2>1 DEF NInv, TypeOK
  <2> QED BY <1>1, <1>6, <2>1, <2>2 DEF BudgetInv, CoveredBy
<1> QED BY <1>5, <1>6 DEF BudgetInv, CoveredBy, WithinLimits

(* A failed statement or a crash loses at most one count.                  *)
LEMMA BudgetFault ==
    ASSUME NInv, BudgetInv, TypeOK', faults' = faults + 1, UNCHANGED <<rows, sends>>,
           \A v \in Workers : worker'[v].pc = "idle" \/ worker'[v] = worker[v]
    PROVE  BudgetInv'
<1> USE NotificationAssumption
<1>1. /\ faults \in Nat
      /\ \A x \in Ids : sends[x] \in Nat /\ rows[x].attempts \in Nat
      /\ \A m \in Limits : m \in Nat
      /\ \A v \in Workers : worker[v].pc \in InHand =>
             worker[v].id \in Ids /\ worker[v].copy.attempts \in Nat
  BY DEF NInv, TypeOK, Rows, WorkerStates, InHand
<1>2. ASSUME NEW x \in Ids
      PROVE  /\ WithinLimits(rows[x].attempts)'
             /\ rows'[x].status = "none" => rows'[x].attempts = 0
             /\ \E m \in Limits : CoveredBy(x, m)'
             /\ rows'[x].status # "gone" => CoveredBy(x, rows[x].attempts)'
  <2>1. WithinLimits(rows[x].attempts)'
    BY DEF BudgetInv, WithinLimits
  <2>2. \E m \in Limits : CoveredBy(x, m)'
    <3>1. PICK m \in Limits : CoveredBy(x, m)
      BY DEF BudgetInv
    <3>2. CoveredBy(x, m)'
      BY <1>1, <3>1 DEF CoveredBy
    <3> QED BY <3>2
  <2>3. ASSUME rows[x].status # "gone" PROVE CoveredBy(x, rows[x].attempts)'
    <3>1. CASE RecordsFor(x)
      <4>1. PICK v \in Workers : worker[v].pc = "record" /\ worker[v].id = x
        BY <3>1 DEF RecordsFor
      <4>2. rows[x].attempts = worker[v].copy.attempts - 1 /\ CoveredBy(x, worker[v].copy.attempts)
        BY <2>3, <4>1 DEF BudgetInv, InHand
      <4> QED BY <1>1, <4>1, <4>2 DEF CoveredBy, InHand
    <3>2. CASE ~RecordsFor(x)
      <4>1. CoveredBy(x, rows[x].attempts)
        BY <2>3, <3>2 DEF BudgetInv
      <4> QED BY <1>1, <4>1 DEF CoveredBy
    <3> QED BY <3>1, <3>2
  <2>4. rows'[x].status = "none" => rows'[x].attempts = 0
    BY DEF BudgetInv
  <2> QED BY <2>1, <2>2, <2>3, <2>4
<1>3. ASSUME NEW v \in Workers, worker'[v].pc \in InHand
      PROVE  LET a == worker'[v]
                 n == IF a.pc = "record" THEN a.copy.attempts - 1 ELSE a.copy.attempts
             IN  /\ WithinLimits(a.copy.attempts)
                 /\ sends'[a.id] =< a.copy.attempts + faults'
                 /\ rows'[a.id].status # "gone" => rows'[a.id].attempts = n
  <2>1. worker'[v] = worker[v] /\ worker[v].pc \in InHand
    BY <1>3 DEF InHand
  <2>2. /\ sends[worker[v].id] \in Nat /\ worker[v].copy.attempts \in Nat
    BY <1>1, <2>1
  <2>3. sends'[worker[v].id] =< worker[v].copy.attempts + faults'
    BY <1>1, <2>1, <2>2 DEF BudgetInv, CoveredBy
  <2> QED BY <2>1, <2>3 DEF BudgetInv, WithinLimits
<1> QED BY <1>2, <1>3 DEF BudgetInv, CoveredBy, WithinLimits

LEMMA BudgetNext == NInv /\ BudgetInv /\ Apart /\ Apart' /\ [Next]_vars => BudgetInv'
<1> SUFFICES ASSUME NInv, BudgetInv, Apart, Apart', [Next]_vars PROVE BudgetInv'
  OBVIOUS
<1>1. TypeOK'
  BY NInvNext DEF NInv
<1>2. faults \in Nat
  BY DEF NInv, TypeOK
<1>3. CASE UNCHANGED <<rows, worker, sends, faults>>
  <2>1. (\A id \in Ids : SameCount(id)) /\ (\A w \in Workers : SameWork(w))
    BY <1>3 DEF SameCount, SameWork
  <2> QED BY <1>1, <1>3, <2>1, BudgetKept
<1>4. ASSUME NEW id \in Ids, CreateAttempt(id) \/ Purge(id)
      PROVE  BudgetInv'
  <2>1. rows \in [Ids -> Rows] /\ UNCHANGED <<worker, sends, faults>>
    BY <1>4 DEF NInv, TypeOK, CreateAttempt, Purge
  <2>2. \A x \in Ids : x # id => rows'[x] = rows[x]
    BY <1>4, <2>1 DEF CreateAttempt, Purge
  <2>3. CASE Purge(id)
    <3>1. rows'[id].status = "gone" /\ rows'[id].attempts = 0 /\ rows[id].status # "gone"
      BY <2>1, <2>3 DEF Purge, NoRow, Stored
    <3>2. (\A x \in Ids : SameCount(x)) /\ (\A w \in Workers : SameWork(w))
      BY <2>1, <2>2, <3>1 DEF SameCount, SameWork
    <3> QED BY <1>1, <2>1, <3>2, BudgetKept
  <2>4. CASE CreateAttempt(id)
    <3>1. /\ rows'[id].status = "pending" /\ rows'[id].attempts = 0
          /\ rows[id].status = "none"
      BY <2>1, <2>4 DEF CreateAttempt, FreshRow
    <3>2. ~RecordsFor(id) /\ \A w \in Workers : worker[w].pc \in InHand => worker[w].id # id
      BY <3>1 DEF NInv, CopyOK, RecordsFor, InHand
    <3>3. rows[id].attempts = 0 /\ CoveredBy(id, 0)
      BY <3>1, <3>2 DEF BudgetInv
    <3>4. WithinLimits(0) /\ \E m \in Limits : CoveredBy(id, m)
      BY <3>3 DEF BudgetInv
    <3>5. \A x \in Ids : RecordsFor(x)' = RecordsFor(x)
      BY <2>1 DEF RecordsFor
    <3>6. \A x \in Ids :
             /\ WithinLimits(rows'[x].attempts)
             /\ rows'[x].status = "none" => rows'[x].attempts = 0
             /\ \E m \in Limits : sends'[x] =< m + faults'
             /\ rows'[x].status # "gone" /\ ~RecordsFor(x)' =>
                    sends'[x] =< rows'[x].attempts + faults'
      <4> TAKE x \in Ids
      <4>1. CASE x = id
        BY <2>1, <3>1, <3>3, <3>4, <4>1 DEF CoveredBy
      <4>2. CASE x # id
        BY <2>1, <2>2, <3>5, <4>2 DEF BudgetInv, CoveredBy
      <4> QED BY <4>1, <4>2
    <3>7. ASSUME NEW w \in Workers, worker[w].pc \in InHand
          PROVE  worker[w].id \in Ids /\ rows'[worker[w].id] = rows[worker[w].id]
      BY <2>2, <3>2, <3>7 DEF NInv, TypeOK, WorkerStates, InHand
    <3>8. \A w \in Workers : worker'[w].pc \in InHand =>
             LET a == worker'[w]
                 n == IF a.pc = "record" THEN a.copy.attempts - 1 ELSE a.copy.attempts
             IN  /\ WithinLimits(a.copy.attempts)
                 /\ sends'[a.id] =< a.copy.attempts + faults'
                 /\ rows'[a.id].status # "gone" => rows'[a.id].attempts = n
      BY <2>1, <3>7 DEF BudgetInv, CoveredBy
    <3> QED BY <3>6, <3>8 DEF BudgetInv, CoveredBy, WithinLimits
  <2> QED BY <1>4, <2>3, <2>4
<1>5. ASSUME NEW w \in Workers, Take(w)
      PROVE  BudgetInv'
  <2>1. /\ worker'[w].pc = "load" /\ worker[w].pc = "idle"
        /\ \A v \in Workers : v # w => worker'[v] = worker[v]
        /\ UNCHANGED <<rows, sends, faults>>
    BY <1>5 DEF NInv, TypeOK, Take, Idle
  <2>2. (\A x \in Ids : SameCount(x)) /\ (\A v \in Workers : SameWork(v))
    BY <2>1 DEF SameCount, SameWork, InHand
  <2> QED BY <1>1, <2>1, <2>2, BudgetKept
<1>6. ASSUME NEW w \in Workers, Load(w)
      PROVE  BudgetInv'
  BY <1>1, <1>6, BudgetLoad
<1>7. ASSUME NEW w \in Workers, SendSucceeds(w) \/ SendFails(w)
      PROVE  BudgetInv'
  BY <1>1, <1>7, BudgetSend
<1>8. ASSUME NEW w \in Workers, Record(w)
      PROVE  BudgetInv'
  BY <1>1, <1>8, BudgetRecord
<1>9. ASSUME Crash \/ \E w \in Workers : Fail(w)
      PROVE  BudgetInv'
  <2>1. /\ faults' = faults + 1 /\ UNCHANGED <<rows, sends>>
        /\ \A v \in Workers : worker'[v].pc = "idle" \/ worker'[v] = worker[v]
    BY <1>9 DEF Crash, Fail, Idle, NInv, TypeOK
  <2> QED BY <1>1, <2>1, BudgetFault
<1>10. CASE Tick
  <2>1. \A x \in Ids : rows'[x].attempts = rows[x].attempts /\ rows'[x].status = rows[x].status
    BY <1>10, EarlierFacts DEF NInv, TypeOK, Tick
  <2>2. \A v \in Workers : /\ worker'[v].pc = worker[v].pc /\ worker'[v].id = worker[v].id
                           /\ worker'[v].copy.attempts = worker[v].copy.attempts
    BY <1>10, EarlierFacts DEF NInv, TypeOK, Tick, WorkerStates
  <2>3. UNCHANGED <<sends, faults>>
    BY <1>10 DEF Tick
  <2>4. (\A x \in Ids : SameCount(x)) /\ (\A v \in Workers : SameWork(v))
    BY <2>1, <2>2 DEF SameCount, SameWork
  <2> QED BY <1>1, <2>3, <2>4, BudgetKept
<1> QED
  BY <1>3, <1>4, <1>5, <1>6, <1>7, <1>8, <1>9, <1>10
     DEF Next, vars, Process, Enqueue, RetryList, RetryPush

(* While no two workers have one row in hand max_attempts is a budget:     *)
(* whatever is queued twice or lost, only a lost write or a crash costs a  *)
(* send more.                                                              *)
THEOREM SendBudgetApart == Spec /\ []Apart => []SendBudget
<1>1. BudgetInv => SendBudget
  BY DEF BudgetInv, SendBudget, CoveredBy
<1>2. NInv /\ BudgetInv /\ Apart /\ Apart' /\ [Next]_vars => BudgetInv'
  BY BudgetNext
<1> QED
  BY <1>1, <1>2, NInit, NInvNext, BudgetInit, PTL DEF Spec

(* A single worker keeps to it.                                            *)
THEOREM SendBudgetAlone == ASSUME Sole PROVE Spec => []SendBudget
<1>1. Apart
  BY DEF Sole, Apart
<1> QED
  BY <1>1, SendBudgetApart, PTL
=============================================================================
