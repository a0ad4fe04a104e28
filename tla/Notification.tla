---------------------------- MODULE Notification ----------------------------
(***************************************************************************)
(* The notification dispatcher: one row of notification_attempts per event *)
(* and channel, a bounded queue of row ids, workers that load a row, send, *)
(* and write the whole row back, and a ticker that queues pending rows     *)
(* again.  Nothing ties a row to one queue entry or to one worker.         *)
(***************************************************************************)
EXTENDS Integers, Sequences, FiniteSets

CONSTANTS Ids,          \* rows: one event on one of the channels webhook, log
          Workers,      \* delivery goroutines (notification.worker_count)
          QueueCap,     \* capacity of Dispatcher.jobs (4096 in the code)
          Limits,       \* values max_attempts may be configured to
          InitialBackoff, MaxBackoff,  \* as configured, in ticks of a second
          RetryBatch,   \* LIMIT of ListPending (500 in the code)
          MaxFaults,    \* bound: failed statements and process crashes
          NoId          \* no row

ASSUME NotificationAssumption ==
    /\ NoId \notin Ids
    /\ QueueCap \in Nat \ {0}
    /\ Limits \subseteq Nat \ {0} /\ Limits # {}
    /\ InitialBackoff \in Int /\ MaxBackoff \in Int
    /\ RetryBatch \in Nat \ {0}
    /\ MaxFaults \in Nat

(* backoff: a second if none is configured, and a maximum below the first  *)
(* delay is raised to it; the delay doubles until it reaches the maximum.  *)
FirstDelay == IF InitialBackoff =< 0 THEN 1 ELSE InitialBackoff
LastDelay  == IF MaxBackoff < FirstDelay THEN FirstDelay ELSE MaxBackoff

Backoff(n) ==
    LET delay == FirstDelay * 2^(n - 1)
    IN  IF delay \in 0..LastDelay THEN delay ELSE LastDelay

Statuses == {"none", "pending", "succeeded", "failed", "gone"}
Stored   == {"pending", "succeeded", "failed"}

(* wait is the time left until next_attempt_at.                            *)
Rows     == [status : Statuses, attempts : Nat, wait : 0..LastDelay]
NoRow    == [status |-> "none", attempts |-> 0, wait |-> 0]
FreshRow == [status |-> "pending", attempts |-> 0, wait |-> 0]

VARIABLES rows,       \* table notification_attempts
          limit,      \* Config.MaxAttempts of the running process
          created,    \* Dispatch calls between repo.Create and the enqueue
          jobs,       \* channel Dispatcher.jobs
          retry,      \* RetryPending: the listed rows it has yet to enqueue
          worker,     \* per goroutine: the row it is processing, its copy
          faults,
          sends,      \* history: sends made for each row
          delivered   \* history: rows whose channel got the event

vars == <<rows, limit, created, jobs, retry, worker, faults, sends, delivered>>

Idle == [pc |-> "idle", id |-> NoId, copy |-> NoRow]

WorkerStates ==
    {a \in [pc : {"idle", "load", "expire", "send", "record"}, id : Ids \cup {NoId},
            copy : Rows] :
        a.pc # "idle" => a.id # NoId}

TypeOK ==
    /\ rows \in [Ids -> Rows]
    /\ limit \in Limits
    /\ created \subseteq Ids
    /\ jobs \in Seq(Ids) /\ Len(jobs) =< QueueCap
    /\ retry \subseteq Ids
    /\ worker \in [Workers -> WorkerStates]
    /\ faults \in 0..MaxFaults
    /\ sends \in [Ids -> Nat]
    /\ delivered \subseteq Ids

Init ==
    /\ rows = [id \in Ids |-> NoRow]
    /\ limit \in Limits
    /\ created = {}
    /\ jobs = <<>>
    /\ retry = {}
    /\ worker = [w \in Workers |-> Idle]
    /\ faults = 0
    /\ sends = [id \in Ids |-> 0]
    /\ delivered = {}
-----------------------------------------------------------------------------
(* Mutant: the capacity of the channel is not looked at.                   *)
HasRoomAlways == TRUE

HasRoom == Len(jobs) < QueueCap

(* Dispatch: the pending row is stored first ...                           *)
CreateAttempt(id) ==
    /\ rows[id].status = "none"
    /\ rows' = [rows EXCEPT ![id] = FreshRow]
    /\ created' = created \cup {id}
    /\ UNCHANGED <<limit, jobs, retry, worker, faults, sends, delivered>>

(* ... then its id is queued, unless the channel is full: the row is left  *)
(* for RetryPending.                                                       *)
Enqueue(id) ==
    /\ id \in created
    /\ created' = created \ {id}
    /\ jobs' = IF HasRoom THEN Append(jobs, id) ELSE jobs
    /\ UNCHANGED <<rows, limit, retry, worker, faults, sends, delivered>>

(* Mutant: only rows that were sent before are listed for a retry.         *)
DueAgain == {id \in Ids : /\ rows[id].status = "pending" /\ rows[id].wait = 0
                          /\ rows[id].attempts > 0}

Due == {id \in Ids : rows[id].status = "pending" /\ rows[id].wait = 0}

(* RetryPending: the due rows are listed, at most RetryBatch of them, ...  *)
RetryList ==
    /\ retry = {}
    /\ Due # {}
    /\ \E batch \in SUBSET Due :
           /\ batch = Due \/ Cardinality(batch) = RetryBatch
           /\ Cardinality(batch) =< RetryBatch
           /\ retry' = batch
    /\ UNCHANGED <<rows, limit, created, jobs, worker, faults, sends, delivered>>

(* ... and queued one by one, whoever else has them queued or in hand; a   *)
(* full channel ends the round.                                            *)
RetryPush ==
    /\ \E id \in retry :
           IF HasRoom
             THEN jobs' = Append(jobs, id) /\ retry' = retry \ {id}
             ELSE UNCHANGED jobs /\ retry' = {}
    /\ UNCHANGED <<rows, limit, created, worker, faults, sends, delivered>>
-----------------------------------------------------------------------------
(* process, one call per action.                                           *)

Take(w) ==
    /\ worker[w].pc = "idle"
    /\ jobs # <<>>
    /\ jobs' = Tail(jobs)
    /\ worker' = [worker EXCEPT ![w] = [Idle EXCEPT !.pc = "load", !.id = Head(jobs)]]
    /\ UNCHANGED <<rows, limit, created, retry, faults, sends, delivered>>

(* Mutant: one attempt too few.                                            *)
MayNotSendEarly(row) == row.status = "succeeded" \/ row.attempts + 1 >= limit

(* Mutant: a delivered row is not recognised.                              *)
MayNotSendSpent(row) == row.attempts >= limit

(* A row that succeeded or has used up its attempts is not sent again, and *)
(* closed if it still was pending.  The time it was due plays no part.     *)
MayNotSend(row) == row.status = "succeeded" \/ row.attempts >= limit

Loaded(id, row) ==
    CASE row.status \notin Stored  -> Idle
      [] row.status \in Stored /\ ~MayNotSend(row) ->
             [pc |-> "send", id |-> id, copy |-> row]
      [] row.status = "pending" /\ MayNotSend(row) ->
             [pc |-> "expire", id |-> id, copy |-> [row EXCEPT !.status = "failed"]]
      [] OTHER -> Idle

Load(w) ==
    /\ worker[w].pc = "load"
    /\ worker' = [worker EXCEPT ![w] = Loaded(@.id, rows[@.id])]
    /\ UNCHANGED <<rows, limit, created, jobs, retry, faults, sends, delivered>>

(* Mutant: a failed send is not counted.                                   *)
AfterFailureUncounted(row) == [row EXCEPT !.wait = Backoff(1)]

(* Mutant: the counter is not the one the delay is taken for.              *)
AfterFailureLate(row) ==
    LET n == row.attempts + 1
    IN  IF n < limit
          THEN [status |-> "pending", attempts |-> n, wait |-> Backoff(n + 1)]
          ELSE [status |-> "failed", attempts |-> n, wait |-> row.wait]

(* Mutant: the status is set before the error is looked at.                *)
AfterFailureAsSent(row) ==
    [status |-> "succeeded", attempts |-> row.attempts + 1, wait |-> row.wait]

AfterFailure(row) ==
    LET n == row.attempts + 1
    IN  IF n < limit
          THEN [status |-> "pending", attempts |-> n, wait |-> Backoff(n)]
          ELSE [status |-> "failed", attempts |-> n, wait |-> row.wait]

AfterSuccess(row) ==
    [status |-> "succeeded", attempts |-> row.attempts + 1, wait |-> row.wait]

Sent(w, row) ==
    /\ worker' = [worker EXCEPT ![w] = [@ EXCEPT !.pc = "record", !.copy = row]]
    /\ sends' = [sends EXCEPT ![worker[w].id] = @ + 1]
    /\ UNCHANGED <<rows, limit, created, jobs, retry, faults>>

SendSucceeds(w) ==
    /\ worker[w].pc = "send"
    /\ Sent(w, AfterSuccess(worker[w].copy))
    /\ delivered' = delivered \cup {worker[w].id}

(* The channel refuses, or takes the event and its answer is lost.         *)
SendFails(w) ==
    /\ worker[w].pc = "send"
    /\ Sent(w, AfterFailure(worker[w].copy))
    /\ delivered' \in {delivered, delivered \cup {worker[w].id}}

(* repo.Update writes the whole row from the worker's copy; ErrNotFound    *)
(* for a row that is gone is only logged.                                  *)
Record(w) ==
    /\ worker[w].pc \in {"record", "expire"}
    /\ rows' = IF rows[worker[w].id].status \in Stored
                 THEN [rows EXCEPT ![worker[w].id] = worker[w].copy]
                 ELSE rows
    /\ worker' = [worker EXCEPT ![w] = Idle]
    /\ UNCHANGED <<limit, created, jobs, retry, faults, sends, delivered>>

(* A failed statement is logged and the row left as it is: repo.Get or     *)
(* events.Get before the send, repo.Update after it.                       *)
Fail(w) ==
    /\ faults < MaxFaults
    /\ faults' = faults + 1
    /\ worker[w].pc # "idle"
    /\ worker' = [worker EXCEPT ![w] = Idle]
    /\ UNCHANGED <<rows, limit, created, jobs, retry, sends, delivered>>
-----------------------------------------------------------------------------
Earlier(row) == [row EXCEPT !.wait = IF @ > 0 THEN @ - 1 ELSE 0]

Tick ==
    /\ \/ \E id \in Ids : rows[id].wait > 0
       \/ \E w \in Workers : worker[w].copy.wait > 0
    /\ rows' = [id \in Ids |-> Earlier(rows[id])]
    /\ worker' = [w \in Workers |-> [worker[w] EXCEPT !.copy = Earlier(@)]]
    /\ UNCHANGED <<limit, created, jobs, retry, faults, sends, delivered>>

(* Retention and the cascade from events take rows of any status.          *)
Purge(id) ==
    /\ rows[id].status \in Stored
    /\ rows' = [rows EXCEPT ![id] = [NoRow EXCEPT !.status = "gone"]]
    /\ UNCHANGED <<limit, created, jobs, retry, worker, faults, sends, delivered>>

(* The process dies and starts again, perhaps with another max_attempts:   *)
(* only the table is left.                                                 *)
Crash ==
    /\ faults < MaxFaults
    /\ faults' = faults + 1
    /\ limit' \in Limits
    /\ created' = {}
    /\ jobs' = <<>>
    /\ retry' = {}
    /\ worker' = [w \in Workers |-> Idle]
    /\ UNCHANGED <<rows, sends, delivered>>
-----------------------------------------------------------------------------
Process(w) == Load(w) \/ SendSucceeds(w) \/ SendFails(w) \/ Record(w)

Next ==
    \/ \E id \in Ids : CreateAttempt(id) \/ Enqueue(id) \/ Purge(id)
    \/ RetryList \/ RetryPush
    \/ \E w \in Workers : Take(w) \/ Process(w) \/ Fail(w)
    \/ Tick
    \/ Crash

Spec == Init /\ [][Next]_vars

(* Time passes, the retry ticker fires, the goroutines run and every send  *)
(* returns: the HTTP client and the context bound it.                      *)
Fairness ==
    /\ WF_vars(Tick)
    /\ WF_vars(RetryList)
    /\ WF_vars(RetryPush)
    /\ \A w \in Workers : WF_vars(Take(w)) /\ WF_vars(Process(w))

FairSpec == Spec /\ Fairness
-----------------------------------------------------------------------------
(* Properties.                                                             *)

(* The counter that the limit is compared with never runs ahead of the     *)
(* sends that were really made, and a row is reported failed only after as *)
(* many sends as a configured limit asks for: duplicate queue entries,     *)
(* stale copies and restarts never make the dispatcher give up early.      *)
FailureIsEarned ==
    \A id \in Ids :
        /\ rows[id].attempts =< sends[id]
        /\ rows[id].status = "failed" => \E n \in Limits : sends[id] >= n

(* A row reported succeeded was delivered, whatever stale copy a second    *)
(* worker writes over it.                                                  *)
SucceededWasDelivered ==
    \A id \in Ids : rows[id].status = "succeeded" => id \in delivered

(* max_attempts bounds the sends of a row: each lost write costs at most   *)
(* one more.                                                               *)
SendBudget == \A id \in Ids : \E n \in Limits : sends[id] =< n + faults

(* A pending row never waits longer than its counter calls for, and not at *)
(* all before its first send: stale copies and restarts never postpone it. *)
WaitIsEarned ==
    \A id \in Ids :
        rows[id].status = "pending" =>
            rows[id].wait =< IF rows[id].attempts = 0 THEN 0 ELSE Backoff(rows[id].attempts)

(* A settled row stays settled until it is deleted: no late or duplicate   *)
(* queue entry reopens it.                                                 *)
SettledIsFinal ==
    [][\A id \in Ids : rows[id].status \in {"succeeded", "failed"} =>
          rows'[id].status \in {rows[id].status, "gone"}]_vars

(* Every stored delivery is settled in the end, whatever was dropped by    *)
(* the full queue or lost in a crash.                                      *)
DeliveriesSettle ==
    \A id \in Ids : rows[id].status = "pending" ~> rows[id].status # "pending"

Contract == INSTANCE DeliveryContract WITH
    outcome <- [id \in Ids |-> rows[id].status],
    Reopens <- \E v, w \in Workers : v # w

ImplementsContract == Contract!Spec
=============================================================================
