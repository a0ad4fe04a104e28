------------------------------ MODULE Lifecycle ------------------------------
(***************************************************************************)
(* The life of the process: the settings are loaded, App.New opens the     *)
(* database, App.Run starts worker pools, background loops and the HTTP    *)
(* server, waits for a failure of the server or for the signal, and stops  *)
(* everything in an order of its own.                                      *)
(*                                                                         *)
(* What requests, evaluations and sends do is the subject of other         *)
(* modules; here they are in progress or not, and feed the next queue.     *)
(***************************************************************************)
EXTENDS Integers, FiniteSets

CONSTANTS Settings,        \* what file and environment may say of an interval
          Counts,          \* what they may say of notification.worker_count
          DefaultWorkers,  \* what the pools make of a count that is not positive (2)
          QueueCap,        \* capacity of a pool's channel (1024, 4096 in the code)
          MaxHandlers,     \* bound: HTTP requests in flight
          Unit,            \* the multiplier of an environment variable (1s in ns)
          Half,            \* time.Duration is -Half .. Half-1 (2^63 in the code)
          MaxFaults,       \* bound: server failures, expired shutdowns, failed closes
          None             \* an environment variable that is unset or no number

Pools == {"evaluator", "dispatcher"}
Loops == {"sweep", "retry", "purge"}

(* yaml holds the default where the file says nothing.                     *)
ASSUME LifecycleAssumption ==
    /\ Half \in Nat \ {0, 1} /\ Unit \in Nat \ {0} /\ None \notin Int
    /\ Settings \subseteq [yaml : -Half..(Half - 1), env : Int \cup {None}]
    /\ Counts \subseteq Int
    /\ DefaultWorkers \in Nat \ {0}
    /\ QueueCap \in Nat \ {0} /\ MaxHandlers \in Nat /\ MaxFaults \in Nat

(* Where App.New and App.Run are; the last three are their outcomes.       *)
Stages == {"load", "new", "evaluator", "dispatcher", "ready", "loops", "listen", "select",
           "shutdown", "drain", "stopEvaluator", "awaitEvaluator", "stopDispatcher",
           "awaitDispatcher", "awaitLoops", "close", "returned", "failed", "panicked"}
Ended  == {"returned", "failed", "panicked"}

VARIABLES stage,      \* of the goroutine that calls New and Run
          given,      \* per configurable loop: what the operator asked for
          interval,   \* per loop: the interval its ticker gets
          count,      \* notification.worker_count
          signalled,  \* ctx is done, and bgCtx with it
          db, ready,  \* the database handle, App.ready
          server,     \* httpServer; "failed" is an error in errCh
          handlers,   \* requests in flight
          pool,       \* per pool: stop channel closed, queue length, goroutines
          loop,       \* per background loop: its goroutine
          faults

vars == <<stage, given, interval, count, signalled, db, ready, server, handlers,
          pool, loop, faults>>
config == <<given, interval, count>>

NoWorkers == [stop |-> FALSE, queue |-> 0, idle |-> 0, busy |-> 0]

PoolStates == [stop : BOOLEAN, queue : 0..QueueCap, idle : Nat, busy : Nat]

TypeOK ==
    /\ stage \in Stages
    /\ given \in [Loops \ {"retry"} -> Settings]
    /\ interval \in [Loops -> -Half..(Half - 1)]
    /\ count \in Counts
    /\ signalled \in BOOLEAN /\ ready \in BOOLEAN
    /\ db \in {"none", "open", "closed"}
    /\ server \in {"off", "starting", "listening", "closed", "failed"}
    /\ handlers \in 0..MaxHandlers
    /\ pool \in [Pools -> PoolStates]
    /\ loop \in [Loops -> {"off", "new", "idle", "busy", "gone"}]
    /\ faults \in 0..MaxFaults

Init ==
    /\ stage = "load"
    /\ given \in [Loops \ {"retry"} -> Settings]
    /\ interval = [l \in Loops |-> 0]
    /\ count \in Counts
    /\ signalled = FALSE
    /\ db = "none"
    /\ ready = FALSE
    /\ server = "off"
    /\ handlers = 0
    /\ pool = [p \in Pools |-> NoWorkers]
    /\ loop = [l \in Loops |-> "off"]
    /\ faults = 0
-----------------------------------------------------------------------------
(* Settings.                                                               *)

Wrap(n) == ((n + Half) % (2 * Half)) - Half

(* Mutant: any number in the environment overrides the file.               *)
InForceAnyNumber(s) == IF s.env # None THEN Wrap(s.env * Unit) ELSE s.yaml

(* setInt: only a positive number overrides the file; the product is a     *)
(* 64-bit one.  Values of the file are taken as they are.                  *)
InForce(s) == IF s.env # None /\ s.env > 0 THEN Wrap(s.env * Unit) ELSE s.yaml

(* Load; the retry loop has a fixed interval of a second.                  *)
Load ==
    /\ stage = "load"
    /\ stage' = "new"
    /\ interval' = [l \in Loops |-> IF l = "retry" THEN 1 ELSE InForce(given[l])]
    /\ UNCHANGED <<given, count, signalled, db, ready, server, handlers, pool, loop, faults>>

(* The file cannot be read or parsed.                                      *)
LoadFails ==
    /\ stage = "load"
    /\ stage' = "failed"
    /\ UNCHANGED <<config, signalled, db, ready, server, handlers, pool, loop, faults>>

New ==
    /\ stage = "new"
    /\ stage' = "evaluator"
    /\ db' = "open"
    /\ UNCHANGED <<config, signalled, ready, server, handlers, pool, loop, faults>>

(* An unsupported driver or a path without directory leaves no handle; a   *)
(* failed ping or migration closes it.                                     *)
NewFails ==
    /\ stage = "new"
    /\ stage' = "failed"
    /\ db' \in {"none", "closed"}
    /\ UNCHANGED <<config, signalled, ready, server, handlers, pool, loop, faults>>
-----------------------------------------------------------------------------
(* Run, statement by statement.                                            *)

Becomes(p, stop, queue, idle, busy) ==
    [pool EXCEPT ![p] = [stop |-> stop, queue |-> queue, idle |-> idle, busy |-> busy]]

(* NewEvaluator, NewDispatcher.                                            *)
Staff(n) == IF n =< 0 THEN DefaultWorkers ELSE n

StartPool(p, next) ==
    /\ stage = p
    /\ stage' = next
    /\ pool' = Becomes(p, FALSE, 0, Staff(count), 0)
    /\ UNCHANGED <<config, signalled, db, ready, server, handlers, loop, faults>>

SetReady ==
    /\ stage = "ready"
    /\ stage' = "loops"
    /\ ready' = TRUE
    /\ UNCHANGED <<config, signalled, db, server, handlers, pool, loop, faults>>

StartLoop(l) ==
    /\ stage = "loops"
    /\ loop[l] = "off"
    /\ loop' = [loop EXCEPT ![l] = "new"]
    /\ stage' = IF \A k \in Loops \ {l} : loop[k] # "off" THEN "listen" ELSE "loops"
    /\ UNCHANGED <<config, signalled, db, ready, server, handlers, pool, faults>>

StartServer ==
    /\ stage = "listen"
    /\ stage' = "select"
    /\ server' = "starting"
    /\ UNCHANGED <<config, signalled, db, ready, handlers, pool, loop, faults>>

(* An error of the server ends Run; nothing that was started is stopped.   *)
ServerError ==
    /\ stage = "select" /\ server = "failed"
    /\ stage' = "failed"
    /\ UNCHANGED <<config, signalled, db, ready, server, handlers, pool, loop, faults>>

(* Mutant: ready is left as it is.                                         *)
UnreadyNot ==
    /\ stage = "select" /\ signalled
    /\ stage' = "shutdown"
    /\ UNCHANGED <<config, signalled, db, ready, server, handlers, pool, loop, faults>>

Unready ==
    /\ stage = "select" /\ signalled
    /\ stage' = "shutdown"
    /\ ready' = FALSE
    /\ UNCHANGED <<config, signalled, db, server, handlers, pool, loop, faults>>

(* Shutdown closes the listener, or keeps it from being opened ...         *)
BeginShutdown ==
    /\ stage = "shutdown"
    /\ stage' = "drain"
    /\ server' = IF server = "failed" THEN "failed" ELSE "closed"
    /\ UNCHANGED <<config, signalled, db, ready, handlers, pool, loop, faults>>

(* Mutant: Shutdown does not wait for the requests in flight.              *)
DrainedAtOnce == stage = "drain"

Drained == stage = "drain" /\ handlers = 0

(* ... and waits for the requests in flight.                               *)
Drain ==
    /\ Drained
    /\ stage' = "stopEvaluator"
    /\ UNCHANGED <<config, signalled, db, ready, server, handlers, pool, loop, faults>>

(* shutdown_timeout expires first: Run returns, with all of it running.    *)
DrainExpires ==
    /\ faults < MaxFaults
    /\ faults' = faults + 1
    /\ stage = "drain" /\ handlers > 0
    /\ stage' = "failed"
    /\ UNCHANGED <<config, signalled, db, ready, server, handlers, pool, loop>>

StopPool(p, at, next) ==
    /\ stage = at
    /\ stage' = next
    /\ pool' = Becomes(p, TRUE, pool[p].queue, pool[p].idle, pool[p].busy)
    /\ UNCHANGED <<config, signalled, db, ready, server, handlers, loop, faults>>

Staffed(p) == pool[p].idle + pool[p].busy > 0

AwaitPool(p, at, next) ==
    /\ stage = at
    /\ ~Staffed(p)
    /\ stage' = next
    /\ UNCHANGED <<config, signalled, db, ready, server, handlers, pool, loop, faults>>

(* Mutant: a loop between two runs counts as ended.                        *)
LoopsEndedBarIdle == \A l \in Loops : loop[l] # "busy"

LoopsEnded == \A l \in Loops : loop[l] = "gone"

AwaitLoops ==
    /\ stage = "awaitLoops"
    /\ LoopsEnded
    /\ stage' = "close"
    /\ UNCHANGED <<config, signalled, db, ready, server, handlers, pool, loop, faults>>

(* Mutant: the handle is left to the end of the process.                   *)
CloseNot ==
    /\ stage = "close"
    /\ stage' = "returned"
    /\ UNCHANGED <<config, signalled, db, ready, server, handlers, pool, loop, faults>>

(* Close may report an error; the handle is closed all the same.           *)
Close ==
    /\ stage = "close"
    /\ db' = "closed"
    /\ \/ stage' = "returned" /\ UNCHANGED faults
       \/ stage' = "failed" /\ faults < MaxFaults /\ faults' = faults + 1
    /\ UNCHANGED <<config, signalled, ready, server, handlers, pool, loop>>

Stop ==
    \/ Unready \/ BeginShutdown \/ Drain
    \/ StopPool("evaluator", "stopEvaluator", "awaitEvaluator")
    \/ AwaitPool("evaluator", "awaitEvaluator", "stopDispatcher")
    \/ StopPool("dispatcher", "stopDispatcher", "awaitDispatcher")
    \/ AwaitPool("dispatcher", "awaitDispatcher", "awaitLoops")
    \/ AwaitLoops \/ Close

Start ==
    \/ Load \/ New \/ SetReady \/ StartServer \/ ServerError
    \/ StartPool("evaluator", "dispatcher") \/ StartPool("dispatcher", "ready")
    \/ \E l \in Loops : StartLoop(l)
-----------------------------------------------------------------------------
(* The other goroutines.  They do not end with Run: only a panic takes     *)
(* them all.                                                               *)
Alive == stage # "panicked"

(* SIGINT or SIGTERM, at any moment once there is a context.               *)
Signal ==
    /\ Alive /\ ~signalled
    /\ signalled' = TRUE
    /\ UNCHANGED <<stage, config, db, ready, server, handlers, pool, loop, faults>>

(* ListenAndServe; once Shutdown was called it returns at once.            *)
Listen ==
    /\ Alive /\ server = "starting"
    /\ server' = "listening"
    /\ UNCHANGED <<stage, config, signalled, db, ready, handlers, pool, loop, faults>>

ServerFails ==
    /\ faults < MaxFaults
    /\ faults' = faults + 1
    /\ Alive /\ server \in {"starting", "listening"}
    /\ server' = "failed"
    /\ UNCHANGED <<stage, config, signalled, db, ready, handlers, pool, loop>>

BeginRequest ==
    /\ Alive /\ server = "listening" /\ handlers < MaxHandlers
    /\ handlers' = handlers + 1
    /\ UNCHANGED <<stage, config, signalled, db, ready, server, pool, loop, faults>>

EndRequest ==
    /\ Alive /\ handlers > 0
    /\ handlers' = handlers - 1
    /\ UNCHANGED <<stage, config, signalled, db, ready, server, pool, loop, faults>>

(* Mutant: the send on the channel has no default case.                    *)
QueuedAlways(length) == length + 1

(* Both channels drop what they have no room for.                          *)
Queued(length) == IF length < QueueCap THEN length + 1 ELSE length

Moved(p, queue, idle, busy) == Becomes(p, pool[p].stop, queue, idle, busy)

Feed(p) ==
    /\ pool' = Moved(p, Queued(pool[p].queue), pool[p].idle, pool[p].busy)
    /\ UNCHANGED <<stage, config, signalled, db, ready, server, handlers, loop, faults>>

(* A request stores telemetry; an evaluation, by a worker or by the sweep, *)
(* raises an alarm; the retry loop finds a pending row.                    *)
FeedEvaluator  == Alive /\ handlers > 0 /\ Feed("evaluator")
FeedDispatcher ==
    /\ Alive
    /\ pool["evaluator"].busy > 0 \/ loop["sweep"] = "busy" \/ loop["retry"] = "busy"
    /\ Feed("dispatcher")

(* The two cases of a worker's select, and the end of a job.               *)
TakeJob(p) ==
    /\ Alive /\ pool[p].idle > 0 /\ pool[p].queue > 0
    /\ pool' = Moved(p, pool[p].queue - 1, pool[p].idle - 1, pool[p].busy + 1)
    /\ UNCHANGED <<stage, config, signalled, db, ready, server, handlers, loop, faults>>

EndJob(p) ==
    /\ Alive /\ pool[p].busy > 0
    /\ pool' = Moved(p, pool[p].queue, pool[p].idle + 1, pool[p].busy - 1)
    /\ UNCHANGED <<stage, config, signalled, db, ready, server, handlers, loop, faults>>

WorkerReturns(p) ==
    /\ Alive /\ pool[p].idle > 0 /\ pool[p].stop
    /\ pool' = Moved(p, pool[p].queue, pool[p].idle - 1, pool[p].busy)
    /\ UNCHANGED <<stage, config, signalled, db, ready, server, handlers, loop, faults>>

LoopBecomes(l, from, to) ==
    /\ Alive /\ loop[l] = from
    /\ loop' = [loop EXCEPT ![l] = to]
    /\ UNCHANGED <<stage, config, signalled, db, ready, server, handlers, pool, faults>>

(* time.NewTicker panics on an interval that is not positive, and takes    *)
(* the process with it.                                                    *)
MakeTicker(l) == interval[l] > 0 /\ LoopBecomes(l, "new", "idle")

TickerPanics(l) ==
    /\ Alive /\ loop[l] = "new" /\ interval[l] =< 0
    /\ stage' = "panicked"
    /\ UNCHANGED <<config, signalled, db, ready, server, handlers, pool, loop, faults>>

(* Mutant: bgCtx is made from a background context, and cancelled only     *)
(* when Run is done.                                                       *)
BackgroundDoneLate == stage \in Ended

(* bgCtx is done when ctx is.                                              *)
BackgroundDone == signalled

(* The two cases of a loop's select, and the end of a run.                 *)
LoopRuns(l)    == LoopBecomes(l, "idle", "busy")
LoopRests(l)   == LoopBecomes(l, "busy", "idle")
LoopReturns(l) == BackgroundDone /\ LoopBecomes(l, "idle", "gone")
-----------------------------------------------------------------------------
Worker(p) == TakeJob(p) \/ EndJob(p) \/ WorkerReturns(p)

BackgroundLoop(l) ==
    MakeTicker(l) \/ TickerPanics(l) \/ LoopRuns(l) \/ LoopRests(l) \/ LoopReturns(l)

Next ==
    \/ Start \/ LoadFails \/ NewFails
    \/ Stop \/ DrainExpires
    \/ Signal
    \/ Listen \/ ServerFails \/ BeginRequest \/ EndRequest
    \/ FeedEvaluator \/ FeedDispatcher
    \/ \E p \in Pools : Worker(p)
    \/ \E l \in Loops : BackgroundLoop(l)

Spec == Init /\ [][Next]_vars

(* Every goroutine goes on, and requests, jobs and runs end: each has a    *)
(* time limit.  The select of a loop, whose ticker is ready again and      *)
(* again, chooses at random: the case that ends the loop is not passed     *)
(* over for ever.  That of a worker runs out of jobs instead.              *)
Fairness ==
    /\ WF_vars(Start) /\ WF_vars(Stop) /\ WF_vars(EndRequest)
    /\ \A p \in Pools : WF_vars(EndJob(p)) /\ WF_vars(WorkerReturns(p))
    /\ \A l \in Loops : /\ WF_vars(MakeTicker(l) \/ TickerPanics(l))
                        /\ WF_vars(LoopRests(l)) /\ SF_vars(LoopReturns(l))

FairSpec == Spec /\ Fairness
-----------------------------------------------------------------------------
(* Properties.                                                             *)

(* The database is closed under nobody: no request, evaluation, send,      *)
(* sweep or cleanup that was under way at the signal meets a closed        *)
(* handle.                                                                 *)
CloseIsLast ==
    db = "closed" =>
        /\ handlers = 0
        /\ \A p \in Pools : ~Staffed(p)
        /\ \A l \in Loops : loop[l] \in {"off", "gone"}

(* A worker's select may take the stop with jobs queued, and nobody takes  *)
(* these any more.  A job of the evaluator is only in memory: its channel  *)
(* gets none once it was told to stop.  One of the dispatcher has a row,   *)
(* pending for the next process: its channel may still get some, from the  *)
(* sweep and the retry loop, which outlive it, and from them only while    *)
(* the database is there to store the row.                                 *)
LateWorkIsStored ==
    [][\A p \in Pools :
          pool[p].stop /\ pool'[p].queue > pool[p].queue =>
             /\ p = "dispatcher"
             /\ ~Staffed("evaluator")
             /\ loop["sweep"] = "busy" \/ loop["retry"] = "busy"
             /\ db = "open"]_vars

(* /readyz says so only while both pools have workers and none of them has *)
(* been told to stop, also after Run gave up without stopping anything.    *)
ReadyMeansStaffed ==
    ready => \A p \in Pools : Staffed(p) /\ ~pool[p].stop

(* Run leaves the database open only when the server failed or requests    *)
(* outlived shutdown_timeout.                                              *)
LeftOpenNeedsFault ==
    stage \in {"returned", "failed"} /\ db = "open" => faults > 0

(* The process dies of a ticker only for an interval of the file that is   *)
(* not positive, or a number of the environment too large for a Duration.  *)
PanicNeedsBadSetting ==
    stage = "panicked" => \E l \in Loops \ {"retry"} :
        IF given[l].env # None /\ given[l].env > 0
          THEN given[l].env * Unit >= Half
          ELSE given[l].yaml =< 0

(* Run ends after the signal, whatever queues hold and loops are at: no    *)
(* wait group waits for ever.                                              *)
StopReturns == signalled ~> stage \in Ended
=============================================================================
