--------------------------- MODULE LifecycleProofs ---------------------------
(***************************************************************************)
(* Proofs about Lifecycle, for every setting, number of workers, queue     *)
(* length and number of requests and faults.                               *)
(*                                                                         *)
(* The properties speak of the end of the process; what makes them true is *)
(* how far Run has come, so the inductive invariant says what holds from   *)
(* each stage on, and what a stopped pool and a closed database imply in   *)
(* the outcomes that have left the sequence of stages.                     *)
(***************************************************************************)
EXTENDS Lifecycle, TLAPS

BeforeRun    == {"load", "new"}
BeforeListen == BeforeRun \cup {"evaluator", "dispatcher", "ready", "loops", "listen"}
Quiescing    == {"stopEvaluator", "awaitEvaluator", "stopDispatcher", "awaitDispatcher",
                 "awaitLoops", "close", "returned"}
NoEvaluator  == {"stopDispatcher", "awaitDispatcher", "awaitLoops", "close", "returned"}
NoDispatcher == {"awaitLoops", "close", "returned"}

NoServer == server \in {"closed", "failed"}

NothingStarted ==
    /\ pool = [p \in Pools |-> NoWorkers]
    /\ loop = [l \in Loops |-> "off"]

(* The server, and the requests it lets in.                                *)
ServerInv ==
    /\ stage \in BeforeListen => server = "off" /\ handlers = 0
    /\ stage = "drain" => NoServer
    /\ stage \in Quiescing => NoServer /\ handlers = 0
    /\ server = "failed" => faults > 0

(* The pools, their workers and what they were told.                       *)
PoolInv ==
    /\ stage \in BeforeRun => NothingStarted
    /\ stage = "dispatcher" => Staffed("evaluator")
    /\ stage = "ready" => \A p \in Pools : Staffed(p)
    /\ stage \in NoEvaluator => ~Staffed("evaluator")
    /\ stage \in NoDispatcher => ~Staffed("dispatcher")
    /\ \A p \in Pools : pool[p].stop =>
          /\ stage \in Quiescing \cup {"failed", "panicked"}
          /\ NoServer /\ handlers = 0
    /\ pool["dispatcher"].stop => ~Staffed("evaluator")

ReadyInv ==
    /\ stage \in {"shutdown", "drain"} \cup Quiescing => ~ready
    /\ stage \in BeforeListen \ {"loops", "listen"} => ~ready
    /\ ReadyMeansStaffed

(* The database, and who is left when it is closed.                        *)
CloseInv ==
    /\ stage \in {"close", "returned"} => LoopsEnded
    /\ stage \in BeforeRun => db = "none"
    /\ stage = "returned" => db = "closed"
    /\ db = "closed" => stage \in Ended /\ server \in {"off", "closed", "failed"}
    /\ CloseIsLast
    /\ stage = "failed" /\ db = "open" => faults > 0
    /\ db = "none" => /\ stage \in BeforeRun \cup {"failed", "panicked"}
                      /\ \A p \in Pools : ~pool[p].stop

(* The intervals.                                                          *)
Asked == [l \in Loops |-> IF l = "retry" THEN 1 ELSE InForce(given[l])]

IntervalInv ==
    /\ stage \notin {"load", "failed", "panicked"} => interval = Asked
    /\ \A l \in Loops : loop[l] # "off" => interval[l] = Asked[l]

LInv ==
    /\ TypeOK /\ ServerInv /\ PoolInv /\ ReadyInv /\ CloseInv /\ IntervalInv
    /\ PanicNeedsBadSetting
-----------------------------------------------------------------------------
LEMMA WrapType == ASSUME NEW n \in Int PROVE Wrap(n) \in -Half..(Half - 1)
<1>1. 2 * Half \in Nat \ {0} /\ n + Half \in Int
  BY LifecycleAssumption
<1>2. (n + Half) % (2 * Half) \in 0..(2 * Half - 1)
  BY <1>1
<1> QED
  BY <1>2, LifecycleAssumption DEF Wrap

(* A product that fits a Duration is not changed.                          *)
LEMMA WrapSmall == ASSUME NEW n \in Nat, n < Half PROVE Wrap(n) = n
<1> DEFINE m == 2 * Half
<1>1. m \in Nat \ {0} /\ n + Half \in Nat /\ n + Half < m
  BY LifecycleAssumption
<1>2. (n + Half) % m = n + Half
  <2> HIDE DEF m
  <2> QED
    BY <1>1
<1> QED
  BY <1>2, LifecycleAssumption DEF Wrap

LEMMA InForceType == ASSUME NEW s \in Settings PROVE InForce(s) \in -Half..(Half - 1)
<1>1. s.yaml \in -Half..(Half - 1) /\ s.env \in Int \cup {None}
  BY LifecycleAssumption
<1>2. CASE s.env # None /\ s.env > 0
  <2>1. s.env * Unit \in Int
    BY <1>1, <1>2, LifecycleAssumption
  <2> QED
    BY <1>2, <2>1, WrapType DEF InForce
<1>3. CASE ~(s.env # None /\ s.env > 0)
  BY <1>1, <1>3 DEF InForce
<1> QED
  BY <1>2, <1>3

(* What an interval that is not positive tells of its setting.             *)
LEMMA InForceBad ==
    ASSUME NEW s \in Settings, InForce(s) =< 0
    PROVE  IF s.env # None /\ s.env > 0 THEN s.env * Unit >= Half ELSE s.yaml =< 0
<1>1. s.yaml \in Int /\ s.env \in Int \cup {None}
  BY LifecycleAssumption
<1>2. CASE s.env # None /\ s.env > 0
  <2>1. s.env \in Nat \ {0} /\ Unit \in Nat \ {0} /\ Half \in Nat
    BY <1>1, <1>2, LifecycleAssumption
  <2>2. s.env * Unit \in Nat /\ s.env * Unit > 0
    BY <2>1
  <2>3. ASSUME s.env * Unit < Half PROVE FALSE
    <3>1. Wrap(s.env * Unit) = s.env * Unit
      BY <2>2, <2>3, WrapSmall
    <3>2. Wrap(s.env * Unit) =< 0
      BY <1>2 DEF InForce
    <3> QED
      BY <2>2, <3>1, <3>2
  <2> QED
    BY <1>2, <2>1, <2>2, <2>3
<1>3. CASE ~(s.env # None /\ s.env > 0)
  BY <1>1, <1>3 DEF InForce
<1> QED
  BY <1>2, <1>3

LEMMA AskedType == TypeOK => Asked \in [Loops -> -Half..(Half - 1)]
BY InForceType, LifecycleAssumption DEF TypeOK, Asked, Loops

LEMMA StaffType == TypeOK => Staff(count) \in Nat \ {0}
BY LifecycleAssumption DEF TypeOK, Staff
-----------------------------------------------------------------------------
(* What the workers and those who feed them do to the pools.               *)
PoolsWork ==
    /\ pool' \in [Pools -> PoolStates]
    /\ \A p \in Pools :
          /\ pool'[p].stop = pool[p].stop
          /\ pool'[p].idle + pool'[p].busy > 0 => Staffed(p)
          /\ Staffed(p) /\ ~pool[p].stop => pool'[p].idle + pool'[p].busy > 0

LEMMA PoolStateFacts ==
    ASSUME TypeOK, NEW p \in Pools
    PROVE  /\ pool[p].stop \in BOOLEAN /\ pool[p].queue \in 0..QueueCap
           /\ pool[p].idle \in Nat /\ pool[p].busy \in Nat
BY DEF TypeOK, PoolStates

LEMMA BecomesDoes ==
    ASSUME TypeOK, NEW p \in Pools, NEW stop \in BOOLEAN, NEW queue \in 0..QueueCap,
           NEW idle \in Nat, NEW busy \in Nat, pool' = Becomes(p, stop, queue, idle, busy)
    PROVE  /\ pool' \in [Pools -> PoolStates]
           /\ pool'[p].stop = stop /\ pool'[p].queue = queue
           /\ pool'[p].idle = idle /\ pool'[p].busy = busy
           /\ \A x \in Pools \ {p} : pool'[x] = pool[x]
BY DEF TypeOK, Becomes, PoolStates

LEMMA MovedWorks ==
    ASSUME TypeOK, NEW p \in Pools, NEW queue \in 0..QueueCap, NEW idle \in Nat,
           NEW busy \in Nat, pool' = Moved(p, queue, idle, busy),
           \/ idle + busy = pool[p].idle + pool[p].busy
           \/ idle + busy < pool[p].idle + pool[p].busy /\ pool[p].stop
    PROVE  PoolsWork
<1>1. pool' = Becomes(p, pool[p].stop, queue, idle, busy)
  BY DEF Moved
<1>2. /\ pool' \in [Pools -> PoolStates]
      /\ pool'[p].stop = pool[p].stop /\ pool'[p].idle = idle /\ pool'[p].busy = busy
      /\ \A x \in Pools \ {p} : pool'[x] = pool[x]
  BY <1>1, PoolStateFacts, BecomesDoes
<1> QED
  BY <1>2, PoolStateFacts DEF PoolsWork, Staffed

Works == FeedEvaluator \/ FeedDispatcher \/ \E p \in Pools : Worker(p)

LEMMA WorksOnly ==
    ASSUME TypeOK, Works
    PROVE  /\ PoolsWork /\ stage # "panicked"
           /\ UNCHANGED <<stage, config, signalled, db, ready, server, handlers, loop, faults>>
<1>1. ASSUME NEW p \in Pools, Feed(p) PROVE PoolsWork
  <2>1. Queued(pool[p].queue) \in 0..QueueCap
    BY PoolStateFacts, LifecycleAssumption DEF Queued
  <2> QED
    BY <1>1, <2>1, PoolStateFacts, MovedWorks DEF Feed
<1>2. ASSUME NEW p \in Pools, TakeJob(p) PROVE PoolsWork
  <2> DEFINE q == pool[p].queue - 1
             i == pool[p].idle - 1
             b == pool[p].busy + 1
  <2>1. q \in 0..QueueCap /\ i \in Nat /\ b \in Nat /\ i + b = pool[p].idle + pool[p].busy
    BY <1>2, PoolStateFacts, LifecycleAssumption DEF TakeJob
  <2>2. pool' = Moved(p, q, i, b)
    BY <1>2 DEF TakeJob
  <2> QED
    BY <2>1, <2>2, MovedWorks
<1>3. ASSUME NEW p \in Pools, EndJob(p) PROVE PoolsWork
  <2> DEFINE q == pool[p].queue
             i == pool[p].idle + 1
             b == pool[p].busy - 1
  <2>1. q \in 0..QueueCap /\ i \in Nat /\ b \in Nat /\ i + b = pool[p].idle + pool[p].busy
    BY <1>3, PoolStateFacts, LifecycleAssumption DEF EndJob
  <2>2. pool' = Moved(p, q, i, b)
    BY <1>3 DEF EndJob
  <2> QED
    BY <2>1, <2>2, MovedWorks
<1>4. ASSUME NEW p \in Pools, WorkerReturns(p) PROVE PoolsWork
  <2> DEFINE q == pool[p].queue
             i == pool[p].idle - 1
             b == pool[p].busy
  <2>1. q \in 0..QueueCap /\ i \in Nat /\ b \in Nat
    BY <1>4, PoolStateFacts DEF WorkerReturns
  <2>2. i + b < pool[p].idle + pool[p].busy /\ pool[p].stop
    BY <1>4, PoolStateFacts DEF WorkerReturns
  <2>3. pool' = Moved(p, q, i, b)
    BY <1>4 DEF WorkerReturns
  <2> QED
    BY <2>1, <2>2, <2>3, MovedWorks
<1>5. PoolsWork
  BY <1>1, <1>2, <1>3, <1>4 DEF Works, Worker, FeedEvaluator, FeedDispatcher, Pools
<1>6. /\ stage # "panicked"
      /\ UNCHANGED <<stage, config, signalled, db, ready, server, handlers, loop, faults>>
  BY DEF Works, Worker, FeedEvaluator, FeedDispatcher, Feed, TakeJob, EndJob, WorkerReturns,
     Alive
<1> QED
  BY <1>5, <1>6

(* What Run does to the pools.                                             *)
LEMMA StartPoolDoes ==
    ASSUME TypeOK, NEW p \in Pools, NEW next, StartPool(p, next)
    PROVE  /\ pool' \in [Pools -> PoolStates]
           /\ pool'[p].stop = FALSE /\ pool'[p].idle + pool'[p].busy > 0
           /\ \A x \in Pools \ {p} : pool'[x] = pool[x]
<1>1. Staff(count) \in Nat \ {0} /\ 0 \in 0..QueueCap
  BY StaffType, LifecycleAssumption
<1>2. pool' = Becomes(p, FALSE, 0, Staff(count), 0)
  BY DEF StartPool
<1> HIDE DEF Staff
<1>3. /\ pool' \in [Pools -> PoolStates]
      /\ pool'[p].stop = FALSE /\ pool'[p].idle = Staff(count) /\ pool'[p].busy = 0
      /\ \A x \in Pools \ {p} : pool'[x] = pool[x]
  BY <1>1, <1>2 DEF TypeOK, Becomes, PoolStates
<1> QED
  BY <1>1, <1>3

LEMMA StopPoolDoes ==
    ASSUME TypeOK, NEW p \in Pools, NEW at, NEW next, StopPool(p, at, next)
    PROVE  /\ pool' \in [Pools -> PoolStates]
           /\ pool'[p].stop = TRUE
           /\ pool'[p].idle = pool[p].idle /\ pool'[p].busy = pool[p].busy
           /\ \A x \in Pools \ {p} : pool'[x] = pool[x]
<1>1. pool' = Becomes(p, TRUE, pool[p].queue, pool[p].idle, pool[p].busy)
  BY DEF StopPool
<1> QED
  BY <1>1, PoolStateFacts DEF TypeOK, Becomes, PoolStates
-----------------------------------------------------------------------------
(* The invariant is inductive.                                             *)

LEMMA TypeNext ==
    ASSUME LInv, Next
    PROVE  TypeOK'
<1> USE DEF LInv, TypeOK, config, Stages
<1>1. CASE Works
  BY <1>1, WorksOnly DEF PoolsWork
<1>2. CASE StartPool("evaluator", "dispatcher")
  BY <1>2, StartPoolDoes DEF StartPool, Pools
<1>3. CASE StartPool("dispatcher", "ready")
  BY <1>3, StartPoolDoes DEF StartPool, Pools
<1>4. CASE StopPool("evaluator", "stopEvaluator", "awaitEvaluator")
  BY <1>4, StopPoolDoes DEF StopPool, Pools
<1>5. CASE StopPool("dispatcher", "stopDispatcher", "awaitDispatcher")
  BY <1>5, StopPoolDoes DEF StopPool, Pools
<1>6. CASE AwaitPool("evaluator", "awaitEvaluator", "stopDispatcher")
  BY <1>6 DEF AwaitPool
<1>7. CASE AwaitPool("dispatcher", "awaitDispatcher", "awaitLoops")
  BY <1>7 DEF AwaitPool
<1>8. CASE Load
  BY <1>8, AskedType DEF Load, Asked
<1>9. CASE LoadFails
  BY <1>9 DEF LoadFails
<1>10. CASE New
  BY <1>10 DEF New
<1>11. CASE NewFails
  BY <1>11 DEF NewFails
<1>12. CASE SetReady
  BY <1>12 DEF SetReady
<1>13. CASE StartServer
  BY <1>13 DEF StartServer
<1>14. CASE ServerError
  BY <1>14 DEF ServerError
<1>15. CASE Unready
  BY <1>15 DEF Unready
<1>16. CASE BeginShutdown
  BY <1>16 DEF BeginShutdown
<1>17. CASE Drain
  BY <1>17 DEF Drain, Drained
<1>18. CASE DrainExpires
  BY <1>18, LifecycleAssumption DEF DrainExpires
<1>19. CASE AwaitLoops
  BY <1>19 DEF AwaitLoops, LoopsEnded
<1>20. CASE Close
  BY <1>20, LifecycleAssumption DEF Close
<1>21. CASE Signal
  BY <1>21 DEF Signal
<1>22. CASE Listen
  BY <1>22 DEF Listen
<1>23. CASE ServerFails
  BY <1>23, LifecycleAssumption DEF ServerFails
<1>24. CASE BeginRequest
  BY <1>24, LifecycleAssumption DEF BeginRequest
<1>25. CASE EndRequest
  BY <1>25, LifecycleAssumption DEF EndRequest
<1>26. ASSUME NEW l \in Loops, StartLoop(l)
      PROVE  TypeOK'
  BY <1>26 DEF StartLoop
<1>27. ASSUME NEW l \in Loops, BackgroundLoop(l)
      PROVE  TypeOK'
  BY <1>27 DEF BackgroundLoop, MakeTicker, TickerPanics, LoopRuns, LoopRests,
       LoopReturns, LoopBecomes
<1> QED
  BY <1>1, <1>2, <1>3, <1>4, <1>5, <1>6, <1>7, <1>8, <1>9, <1>10, <1>11, <1>12, <1>13,
     <1>14, <1>15, <1>16, <1>17, <1>18, <1>19, <1>20, <1>21, <1>22, <1>23, <1>24,
     <1>25, <1>26, <1>27
     DEF Next, Start, Stop, Works

LEMMA ServerNext ==
    ASSUME LInv, Next
    PROVE  ServerInv'
<1> USE DEF LInv, TypeOK, ServerInv, NoServer, BeforeListen, BeforeRun, Quiescing, Ended
<1>1. CASE Works
  BY <1>1, WorksOnly DEF PoolsWork
<1>2. CASE StartPool("evaluator", "dispatcher")
  BY <1>2, StartPoolDoes DEF StartPool, Pools
<1>3. CASE StartPool("dispatcher", "ready")
  BY <1>3, StartPoolDoes DEF StartPool, Pools
<1>4. CASE StopPool("evaluator", "stopEvaluator", "awaitEvaluator")
  BY <1>4, StopPoolDoes DEF StopPool, Pools
<1>5. CASE StopPool("dispatcher", "stopDispatcher", "awaitDispatcher")
  BY <1>5, StopPoolDoes DEF StopPool, Pools
<1>6. CASE AwaitPool("evaluator", "awaitEvaluator", "stopDispatcher")
  BY <1>6 DEF AwaitPool
<1>7. CASE AwaitPool("dispatcher", "awaitDispatcher", "awaitLoops")
  BY <1>7 DEF AwaitPool
<1>8. CASE Load
  BY <1>8 DEF Load
<1>9. CASE LoadFails
  BY <1>9 DEF LoadFails
<1>10. CASE New
  BY <1>10 DEF New
<1>11. CASE NewFails
  BY <1>11 DEF NewFails
<1>12. CASE SetReady
  BY <1>12 DEF SetReady
<1>13. CASE StartServer
  BY <1>13 DEF StartServer
<1>14. CASE ServerError
  BY <1>14 DEF ServerError
<1>15. CASE Unready
  BY <1>15 DEF Unready
<1>16. CASE BeginShutdown
  BY <1>16 DEF BeginShutdown
<1>17. CASE Drain
  BY <1>17 DEF Drain, Drained
<1>18. CASE DrainExpires
  BY <1>18 DEF DrainExpires
<1>19. CASE AwaitLoops
  BY <1>19 DEF AwaitLoops, LoopsEnded
<1>20. CASE Close
  BY <1>20 DEF Close
<1>21. CASE Signal
  BY <1>21 DEF Signal
<1>22. CASE Listen
  BY <1>22 DEF Listen
<1>23. CASE ServerFails
  BY <1>23 DEF ServerFails
<1>24. CASE BeginRequest
  BY <1>24 DEF BeginRequest
<1>25. CASE EndRequest
  BY <1>25 DEF EndRequest
<1>26. ASSUME NEW l \in Loops, StartLoop(l)
      PROVE  ServerInv'
  BY <1>26 DEF StartLoop
<1>27. ASSUME NEW l \in Loops, BackgroundLoop(l)
      PROVE  ServerInv'
  BY <1>27 DEF BackgroundLoop, MakeTicker, TickerPanics, LoopRuns, LoopRests,
       LoopReturns, LoopBecomes
<1> QED
  BY <1>1, <1>2, <1>3, <1>4, <1>5, <1>6, <1>7, <1>8, <1>9, <1>10, <1>11, <1>12, <1>13,
     <1>14, <1>15, <1>16, <1>17, <1>18, <1>19, <1>20, <1>21, <1>22, <1>23, <1>24,
     <1>25, <1>26, <1>27
     DEF Next, Start, Stop, Works

LEMMA PoolNext ==
    ASSUME LInv, Next
    PROVE  PoolInv'
<1> USE DEF LInv, TypeOK, ServerInv, PoolInv, NothingStarted, Staffed, NoServer,
     BeforeRun, BeforeListen, Quiescing, NoEvaluator, NoDispatcher, Ended
<1>1. CASE Works
  <2>1. /\ PoolsWork /\ stage # "panicked"
        /\ UNCHANGED <<stage, server, handlers, loop, faults>>
    BY <1>1, WorksOnly
  <2>2. stage \in BeforeRun => pool' = pool
    <3> SUFFICES ASSUME stage \in BeforeRun PROVE FALSE
      OBVIOUS
    <3> QED
      BY <1>1 DEF Works, Worker, FeedEvaluator, FeedDispatcher, TakeJob, EndJob,
           WorkerReturns, NoWorkers, Pools, Loops
  <2> QED
    BY <2>1, <2>2 DEF PoolsWork, Pools
<1>2. CASE StartPool("evaluator", "dispatcher")
  BY <1>2, StartPoolDoes DEF StartPool, Pools
<1>3. CASE StartPool("dispatcher", "ready")
  BY <1>3, StartPoolDoes DEF StartPool, Pools
<1>4. CASE StopPool("evaluator", "stopEvaluator", "awaitEvaluator")
  BY <1>4, StopPoolDoes DEF StopPool, Pools
<1>5. CASE StopPool("dispatcher", "stopDispatcher", "awaitDispatcher")
  BY <1>5, StopPoolDoes DEF StopPool, Pools
<1>6. CASE AwaitPool("evaluator", "awaitEvaluator", "stopDispatcher")
  BY <1>6 DEF AwaitPool
<1>7. CASE AwaitPool("dispatcher", "awaitDispatcher", "awaitLoops")
  BY <1>7 DEF AwaitPool
<1>8. CASE Load
  BY <1>8 DEF Load
<1>9. CASE LoadFails
  BY <1>9 DEF LoadFails
<1>10. CASE New
  BY <1>10 DEF New
<1>11. CASE NewFails
  BY <1>11 DEF NewFails
<1>12. CASE SetReady
  BY <1>12 DEF SetReady
<1>13. CASE StartServer
  BY <1>13 DEF StartServer
<1>14. CASE ServerError
  BY <1>14 DEF ServerError
<1>15. CASE Unready
  BY <1>15 DEF Unready
<1>16. CASE BeginShutdown
  BY <1>16 DEF BeginShutdown
<1>17. CASE Drain
  BY <1>17 DEF Drain, Drained
<1>18. CASE DrainExpires
  BY <1>18 DEF DrainExpires
<1>19. CASE AwaitLoops
  BY <1>19 DEF AwaitLoops, LoopsEnded
<1>20. CASE Close
  BY <1>20 DEF Close
<1>21. CASE Signal
  BY <1>21 DEF Signal
<1>22. CASE Listen
  BY <1>22 DEF Listen
<1>23. CASE ServerFails
  BY <1>23 DEF ServerFails
<1>24. CASE BeginRequest
  BY <1>24 DEF BeginRequest
<1>25. CASE EndRequest
  BY <1>25 DEF EndRequest
<1>26. ASSUME NEW l \in Loops, StartLoop(l)
      PROVE  PoolInv'
  BY <1>26 DEF StartLoop
<1>27. ASSUME NEW l \in Loops, BackgroundLoop(l)
      PROVE  PoolInv'
  BY <1>27 DEF BackgroundLoop, MakeTicker, TickerPanics, LoopRuns, LoopRests,
       LoopReturns, LoopBecomes
<1> QED
  BY <1>1, <1>2, <1>3, <1>4, <1>5, <1>6, <1>7, <1>8, <1>9, <1>10, <1>11, <1>12, <1>13,
     <1>14, <1>15, <1>16, <1>17, <1>18, <1>19, <1>20, <1>21, <1>22, <1>23, <1>24,
     <1>25, <1>26, <1>27
     DEF Next, Start, Stop, Works

LEMMA ReadyNext ==
    ASSUME LInv, Next
    PROVE  ReadyInv'
<1> USE DEF LInv, TypeOK, PoolInv, ReadyInv, ReadyMeansStaffed, Staffed, BeforeRun,
     BeforeListen, Quiescing, NoDispatcher, NoEvaluator
<1>1. CASE Works
  BY <1>1, WorksOnly DEF PoolsWork
<1>2. CASE StartPool("evaluator", "dispatcher")
  BY <1>2, StartPoolDoes DEF StartPool, Pools
<1>3. CASE StartPool("dispatcher", "ready")
  BY <1>3, StartPoolDoes DEF StartPool, Pools
<1>4. CASE StopPool("evaluator", "stopEvaluator", "awaitEvaluator")
  BY <1>4, StopPoolDoes DEF StopPool, Pools
<1>5. CASE StopPool("dispatcher", "stopDispatcher", "awaitDispatcher")
  BY <1>5, StopPoolDoes DEF StopPool, Pools
<1>6. CASE AwaitPool("evaluator", "awaitEvaluator", "stopDispatcher")
  BY <1>6 DEF AwaitPool
<1>7. CASE AwaitPool("dispatcher", "awaitDispatcher", "awaitLoops")
  BY <1>7 DEF AwaitPool
<1>8. CASE Load
  BY <1>8 DEF Load
<1>9. CASE LoadFails
  BY <1>9 DEF LoadFails
<1>10. CASE New
  BY <1>10 DEF New
<1>11. CASE NewFails
  BY <1>11 DEF NewFails
<1>12. CASE SetReady
  BY <1>12 DEF SetReady
<1>13. CASE StartServer
  BY <1>13 DEF StartServer
<1>14. CASE ServerError
  BY <1>14 DEF ServerError
<1>15. CASE Unready
  BY <1>15 DEF Unready
<1>16. CASE BeginShutdown
  BY <1>16 DEF BeginShutdown
<1>17. CASE Drain
  BY <1>17 DEF Drain, Drained
<1>18. CASE DrainExpires
  BY <1>18 DEF DrainExpires
<1>19. CASE AwaitLoops
  BY <1>19 DEF AwaitLoops, LoopsEnded
<1>20. CASE Close
  BY <1>20 DEF Close
<1>21. CASE Signal
  BY <1>21 DEF Signal
<1>22. CASE Listen
  BY <1>22 DEF Listen
<1>23. CASE ServerFails
  BY <1>23 DEF ServerFails
<1>24. CASE BeginRequest
  BY <1>24 DEF BeginRequest
<1>25. CASE EndRequest
  BY <1>25 DEF EndRequest
<1>26. ASSUME NEW l \in Loops, StartLoop(l)
      PROVE  ReadyInv'
  BY <1>26 DEF StartLoop
<1>27. ASSUME NEW l \in Loops, BackgroundLoop(l)
      PROVE  ReadyInv'
  BY <1>27 DEF BackgroundLoop, MakeTicker, TickerPanics, LoopRuns, LoopRests,
       LoopReturns, LoopBecomes
<1> QED
  BY <1>1, <1>2, <1>3, <1>4, <1>5, <1>6, <1>7, <1>8, <1>9, <1>10, <1>11, <1>12, <1>13,
     <1>14, <1>15, <1>16, <1>17, <1>18, <1>19, <1>20, <1>21, <1>22, <1>23, <1>24,
     <1>25, <1>26, <1>27
     DEF Next, Start, Stop, Works

LEMMA CloseNext ==
    ASSUME LInv, Next
    PROVE  CloseInv'
<1> USE DEF LInv, TypeOK, ServerInv, PoolInv, CloseInv, CloseIsLast, LoopsEnded,
     NothingStarted, Staffed, NoServer, BeforeRun, BeforeListen, Quiescing,
     NoEvaluator, NoDispatcher, Ended
<1>1. CASE Works
  BY <1>1, WorksOnly DEF PoolsWork
<1>2. CASE StartPool("evaluator", "dispatcher")
  BY <1>2, StartPoolDoes DEF StartPool, Pools
<1>3. CASE StartPool("dispatcher", "ready")
  BY <1>3, StartPoolDoes DEF StartPool, Pools
<1>4. CASE StopPool("evaluator", "stopEvaluator", "awaitEvaluator")
  BY <1>4, StopPoolDoes DEF StopPool, Pools
<1>5. CASE StopPool("dispatcher", "stopDispatcher", "awaitDispatcher")
  BY <1>5, StopPoolDoes DEF StopPool, Pools
<1>6. CASE AwaitPool("evaluator", "awaitEvaluator", "stopDispatcher")
  BY <1>6 DEF AwaitPool
<1>7. CASE AwaitPool("dispatcher", "awaitDispatcher", "awaitLoops")
  BY <1>7 DEF AwaitPool
<1>8. CASE Load
  BY <1>8 DEF Load
<1>9. CASE LoadFails
  BY <1>9 DEF LoadFails
<1>10. CASE New
  BY <1>10 DEF New
<1>11. CASE NewFails
  BY <1>11 DEF NewFails, NoWorkers, Pools
<1>12. CASE SetReady
  BY <1>12 DEF SetReady
<1>13. CASE StartServer
  BY <1>13 DEF StartServer
<1>14. CASE ServerError
  BY <1>14 DEF ServerError
<1>15. CASE Unready
  BY <1>15 DEF Unready
<1>16. CASE BeginShutdown
  BY <1>16 DEF BeginShutdown
<1>17. CASE Drain
  BY <1>17 DEF Drain, Drained
<1>18. CASE DrainExpires
  BY <1>18 DEF DrainExpires
<1>19. CASE AwaitLoops
  BY <1>19 DEF AwaitLoops, LoopsEnded
<1>20. CASE Close
  BY <1>20 DEF Close, Pools
<1>21. CASE Signal
  BY <1>21 DEF Signal
<1>22. CASE Listen
  BY <1>22 DEF Listen
<1>23. CASE ServerFails
  BY <1>23 DEF ServerFails
<1>24. CASE BeginRequest
  BY <1>24 DEF BeginRequest
<1>25. CASE EndRequest
  BY <1>25 DEF EndRequest
<1>26. ASSUME NEW l \in Loops, StartLoop(l)
      PROVE  CloseInv'
  BY <1>26 DEF StartLoop
<1>27. ASSUME NEW l \in Loops, BackgroundLoop(l)
      PROVE  CloseInv'
  BY <1>27 DEF BackgroundLoop, MakeTicker, TickerPanics, LoopRuns, LoopRests,
       LoopReturns, LoopBecomes
<1> QED
  BY <1>1, <1>2, <1>3, <1>4, <1>5, <1>6, <1>7, <1>8, <1>9, <1>10, <1>11, <1>12, <1>13,
     <1>14, <1>15, <1>16, <1>17, <1>18, <1>19, <1>20, <1>21, <1>22, <1>23, <1>24,
     <1>25, <1>26, <1>27
     DEF Next, Start, Stop, Works

LEMMA IntervalNext ==
    ASSUME LInv, Next
    PROVE  IntervalInv'
<1> USE DEF LInv, TypeOK, PoolInv, CloseInv, IntervalInv, NothingStarted, BeforeRun,
     Asked, config, Ended
<1>1. CASE Works
  BY <1>1, WorksOnly DEF PoolsWork
<1>2. CASE StartPool("evaluator", "dispatcher")
  BY <1>2, StartPoolDoes DEF StartPool, Pools
<1>3. CASE StartPool("dispatcher", "ready")
  BY <1>3, StartPoolDoes DEF StartPool, Pools
<1>4. CASE StopPool("evaluator", "stopEvaluator", "awaitEvaluator")
  BY <1>4, StopPoolDoes DEF StopPool, Pools
<1>5. CASE StopPool("dispatcher", "stopDispatcher", "awaitDispatcher")
  BY <1>5, StopPoolDoes DEF StopPool, Pools
<1>6. CASE AwaitPool("evaluator", "awaitEvaluator", "stopDispatcher")
  BY <1>6 DEF AwaitPool
<1>7. CASE AwaitPool("dispatcher", "awaitDispatcher", "awaitLoops")
  BY <1>7 DEF AwaitPool
<1>8. CASE Load
  BY <1>8 DEF Load
<1>9. CASE LoadFails
  BY <1>9 DEF LoadFails
<1>10. CASE New
  BY <1>10 DEF New
<1>11. CASE NewFails
  BY <1>11 DEF NewFails
<1>12. CASE SetReady
  BY <1>12 DEF SetReady
<1>13. CASE StartServer
  BY <1>13 DEF StartServer
<1>14. CASE ServerError
  BY <1>14 DEF ServerError
<1>15. CASE Unready
  BY <1>15 DEF Unready
<1>16. CASE BeginShutdown
  BY <1>16 DEF BeginShutdown
<1>17. CASE Drain
  BY <1>17 DEF Drain, Drained
<1>18. CASE DrainExpires
  BY <1>18 DEF DrainExpires
<1>19. CASE AwaitLoops
  BY <1>19 DEF AwaitLoops, LoopsEnded
<1>20. CASE Close
  BY <1>20 DEF Close
<1>21. CASE Signal
  BY <1>21 DEF Signal
<1>22. CASE Listen
  BY <1>22 DEF Listen
<1>23. CASE ServerFails
  BY <1>23 DEF ServerFails
<1>24. CASE BeginRequest
  BY <1>24 DEF BeginRequest
<1>25. CASE EndRequest
  BY <1>25 DEF EndRequest
<1>26. ASSUME NEW l \in Loops, StartLoop(l)
      PROVE  IntervalInv'
  BY <1>26 DEF StartLoop
<1>27. ASSUME NEW l \in Loops, BackgroundLoop(l)
      PROVE  IntervalInv'
  BY <1>27 DEF BackgroundLoop, MakeTicker, TickerPanics, LoopRuns, LoopRests,
       LoopReturns, LoopBecomes
<1> QED
  BY <1>1, <1>2, <1>3, <1>4, <1>5, <1>6, <1>7, <1>8, <1>9, <1>10, <1>11, <1>12, <1>13,
     <1>14, <1>15, <1>16, <1>17, <1>18, <1>19, <1>20, <1>21, <1>22, <1>23, <1>24,
     <1>25, <1>26, <1>27
     DEF Next, Start, Stop, Works

LEMMA PanicNext ==
    ASSUME LInv, Next
    PROVE  PanicNeedsBadSetting'
<1> USE DEF LInv, PanicNeedsBadSetting, config
<1>1. CASE Works
  BY <1>1, WorksOnly DEF PoolsWork
<1>2. CASE StartPool("evaluator", "dispatcher")
  BY <1>2, StartPoolDoes DEF StartPool, Pools
<1>3. CASE StartPool("dispatcher", "ready")
  BY <1>3, StartPoolDoes DEF StartPool, Pools
<1>4. CASE StopPool("evaluator", "stopEvaluator", "awaitEvaluator")
  BY <1>4, StopPoolDoes DEF StopPool, Pools
<1>5. CASE StopPool("dispatcher", "stopDispatcher", "awaitDispatcher")
  BY <1>5, StopPoolDoes DEF StopPool, Pools
<1>6. CASE AwaitPool("evaluator", "awaitEvaluator", "stopDispatcher")
  BY <1>6 DEF AwaitPool
<1>7. CASE AwaitPool("dispatcher", "awaitDispatcher", "awaitLoops")
  BY <1>7 DEF AwaitPool
<1>8. CASE Load
  BY <1>8 DEF Load
<1>9. CASE LoadFails
  BY <1>9 DEF LoadFails
<1>10. CASE New
  BY <1>10 DEF New
<1>11. CASE NewFails
  BY <1>11 DEF NewFails
<1>12. CASE SetReady
  BY <1>12 DEF SetReady
<1>13. CASE StartServer
  BY <1>13 DEF StartServer
<1>14. CASE ServerError
  BY <1>14 DEF ServerError
<1>15. CASE Unready
  BY <1>15 DEF Unready
<1>16. CASE BeginShutdown
  BY <1>16 DEF BeginShutdown
<1>17. CASE Drain
  BY <1>17 DEF Drain, Drained
<1>18. CASE DrainExpires
  BY <1>18 DEF DrainExpires
<1>19. CASE AwaitLoops
  BY <1>19 DEF AwaitLoops, LoopsEnded
<1>20. CASE Close
  BY <1>20 DEF Close
<1>21. CASE Signal
  BY <1>21 DEF Signal
<1>22. CASE Listen
  BY <1>22 DEF Listen
<1>23. CASE ServerFails
  BY <1>23 DEF ServerFails
<1>24. CASE BeginRequest
  BY <1>24 DEF BeginRequest
<1>25. CASE EndRequest
  BY <1>25 DEF EndRequest
<1>26. ASSUME NEW l \in Loops, StartLoop(l)
      PROVE  PanicNeedsBadSetting'
  BY <1>26 DEF StartLoop
<1>27. ASSUME NEW l \in Loops, BackgroundLoop(l)
      PROVE  PanicNeedsBadSetting'
  <2>1. CASE TickerPanics(l)
    <3>1. interval[l] =< 0 /\ interval[l] = Asked[l] /\ given' = given
      BY <2>1 DEF TickerPanics, IntervalInv, config
    <3>2. l # "retry" /\ InForce(given[l]) =< 0
      BY <3>1 DEF Asked
    <3>3. given[l] \in Settings
      BY <3>2 DEF TypeOK
    <3> QED
      BY <3>1, <3>2, <3>3, InForceBad
  <2>2. CASE ~TickerPanics(l)
    BY <1>27, <2>2 DEF BackgroundLoop, MakeTicker, LoopRuns, LoopRests, LoopReturns,
         LoopBecomes
  <2> QED
    BY <2>1, <2>2
<1> QED
  BY <1>1, <1>2, <1>3, <1>4, <1>5, <1>6, <1>7, <1>8, <1>9, <1>10, <1>11, <1>12, <1>13,
     <1>14, <1>15, <1>16, <1>17, <1>18, <1>19, <1>20, <1>21, <1>22, <1>23, <1>24,
     <1>25, <1>26, <1>27
     DEF Next, Start, Stop, Works

LEMMA LInit == Init => LInv
<1> SUFFICES ASSUME Init PROVE LInv
  OBVIOUS
<1> DEFINE none == NoWorkers
<1>0. none \in PoolStates
  BY LifecycleAssumption DEF NoWorkers, PoolStates
<1> HIDE DEF none
<1>a. pool \in [Pools -> PoolStates]
  <2>1. pool = [p \in Pools |-> none]
    BY DEF Init, none
  <2> QED
    BY <1>0, <2>1
<1>b. interval \in [Loops -> -Half..(Half - 1)] /\ 0 \in 0..MaxFaults /\ 0 \in 0..MaxHandlers
  BY LifecycleAssumption DEF Init
<1>1. TypeOK
  BY <1>a, <1>b DEF Init, TypeOK, Stages
<1>2. ServerInv /\ ReadyInv /\ IntervalInv /\ PanicNeedsBadSetting
  BY DEF Init, ServerInv, ReadyInv, ReadyMeansStaffed, IntervalInv,
       PanicNeedsBadSetting,
         BeforeListen, BeforeRun, Quiescing, Loops
<1>3. PoolInv /\ CloseInv
  BY DEF Init, PoolInv, CloseInv, CloseIsLast, NothingStarted, BeforeRun, Quiescing,
         NoEvaluator, NoDispatcher, NoWorkers, Pools
<1> QED
  BY <1>1, <1>2, <1>3 DEF LInv

LEMMA LStutter == LInv /\ UNCHANGED vars => LInv'
BY DEF LInv, vars, TypeOK, ServerInv, PoolInv, ReadyInv, ReadyMeansStaffed, CloseInv,
       CloseIsLast, IntervalInv, PanicNeedsBadSetting, NothingStarted, NoServer, Staffed,
       LoopsEnded, Asked

LEMMA LNext == LInv /\ [Next]_vars => LInv'
<1> SUFFICES ASSUME LInv, Next PROVE LInv'
  BY LStutter
<1> QED
  BY TypeNext, ServerNext, PoolNext, ReadyNext, CloseNext, IntervalNext, PanicNext DEF
       LInv

LEMMA LInvHolds == Spec => []LInv
BY LInit, LNext, PTL DEF Spec
-----------------------------------------------------------------------------
(* Every reachable state is well typed: no pool counter is driven below    *)
(* zero, no channel beyond its capacity, no interval out of a Duration.    *)
THEOREM TypeCorrect == Spec => []TypeOK
<1>1. LInv => TypeOK
  BY DEF LInv
<1> QED
  BY <1>1, LInvHolds, PTL

(* The database is closed under no request, worker or background loop,     *)
(* from whichever failure or signal the process ends.                      *)
THEOREM CloseIsLastHolds == Spec => []CloseIsLast
<1>1. LInv => CloseIsLast
  BY DEF LInv, CloseInv
<1> QED
  BY <1>1, LInvHolds, PTL

(* A queue grows only where a request, an evaluation or the retry loop     *)
(* feeds it.                                                               *)
LEMMA LateStepFeeds ==
    ASSUME TypeOK, Next, NEW p \in Pools, pool[p].stop, pool'[p].queue > pool[p].queue
    PROVE  \/ FeedEvaluator /\ p = "evaluator"
           \/ FeedDispatcher /\ p = "dispatcher"
<1>1. pool[p].queue \in 0..QueueCap /\ 0..QueueCap \subseteq Int /\ pool'[p] # pool[p]
  BY PoolStateFacts, LifecycleAssumption
<1>2. ASSUME NEW x \in Pools, Feed(x) PROVE p = x
  BY <1>1, <1>2 DEF Feed, Moved, Becomes, TypeOK
<1>3. ASSUME NEW x \in Pools, Worker(x) PROVE FALSE
  <2>1. /\ pool[x].queue \in 0..QueueCap
        /\ \E q \in {pool[x].queue, pool[x].queue - 1}, i, b \in Int :
              pool' = Moved(x, q, i, b)
    BY <1>3, PoolStateFacts DEF Worker, TakeJob, EndJob, WorkerReturns
  <2> QED
    BY <1>1, <2>1 DEF Moved, Becomes, TypeOK
<1>4. ASSUME NEW x \in Pools, NEW next, StartPool(x, next) PROVE FALSE
  <2>1. pool' = Becomes(x, FALSE, 0, Staff(count), 0)
    BY <1>4 DEF StartPool
  <2> HIDE DEF Staff
  <2> QED
    BY <1>1, <2>1 DEF Becomes, TypeOK
<1>5. ASSUME NEW x \in Pools, NEW at, NEW next, StopPool(x, at, next) PROVE FALSE
  BY <1>1, <1>5 DEF StopPool, Becomes, TypeOK
<1>6. CASE pool' = pool
  BY <1>1, <1>6
<1> QED
  BY <1>2, <1>3, <1>4, <1>5, <1>6
     DEF Next, Start, Stop, FeedEvaluator, FeedDispatcher, Pools, Load, LoadFails, New,
         NewFails, SetReady, StartServer, ServerError, Unready, BeginShutdown, Drain,
         DrainExpires, AwaitPool, AwaitLoops, Close, Signal, Listen, ServerFails,
         BeginRequest, EndRequest, StartLoop, BackgroundLoop, MakeTicker, TickerPanics,
         LoopRuns, LoopRests, LoopReturns, LoopBecomes

(* Work reaches a stopped pool from the sweep and the retry loop only, and *)
(* only while there is a database that keeps it for the next process.      *)
THEOREM LateWorkIsStoredHolds == Spec => LateWorkIsStored
<1>1. ASSUME LInv, [Next]_vars, NEW p \in Pools, pool[p].stop,
             pool'[p].queue > pool[p].queue
      PROVE  /\ p = "dispatcher" /\ ~Staffed("evaluator")
             /\ loop["sweep"] = "busy" \/ loop["retry"] = "busy"
             /\ db = "open"
  <2>1. TypeOK /\ PoolInv /\ CloseInv
    BY <1>1 DEF LInv
  <2>2. Next
    <3>1. pool[p].queue \in 0..QueueCap /\ 0..QueueCap \subseteq Int
      BY <2>1, PoolStateFacts, LifecycleAssumption
    <3> QED
      BY <1>1, <3>1 DEF vars
  <2>3. handlers = 0 /\ db # "none"
    BY <1>1, <2>1 DEF PoolInv, CloseInv
  <2>4. FeedDispatcher /\ p = "dispatcher"
    BY <1>1, <2>1, <2>2, <2>3, LateStepFeeds DEF FeedEvaluator
  <2>5. ~Staffed("evaluator")
    BY <1>1, <2>1, <2>4 DEF PoolInv
  <2>6. ~(pool["evaluator"].busy > 0)
    BY <2>1, <2>5, PoolStateFacts DEF Staffed, Pools
  <2>7. loop["sweep"] = "busy" \/ loop["retry"] = "busy"
    BY <2>4, <2>6 DEF FeedDispatcher
  <2>8. db # "closed"
    BY <2>1, <2>7 DEF CloseInv, CloseIsLast, Loops
  <2> QED
    BY <2>1, <2>3, <2>4, <2>5, <2>7, <2>8 DEF TypeOK
<1>2. LInv /\ [Next]_vars =>
       [\A p \in Pools :
          pool[p].stop /\ pool'[p].queue > pool[p].queue =>
             /\ p = "dispatcher"
             /\ ~Staffed("evaluator")
             /\ loop["sweep"] = "busy" \/ loop["retry"] = "busy"
             /\ db = "open"]_vars
  BY <1>1
<1>3. Spec => [][\A p \in Pools :
          pool[p].stop /\ pool'[p].queue > pool[p].queue =>
             /\ p = "dispatcher"
             /\ ~Staffed("evaluator")
             /\ loop["sweep"] = "busy" \/ loop["retry"] = "busy"
             /\ db = "open"]_vars
  BY <1>2, LInvHolds, PTL DEF Spec
<1> QED
  BY <1>3 DEF LateWorkIsStored

(* Readiness is never reported for pools without workers.                  *)
THEOREM ReadyMeansStaffedHolds == Spec => []ReadyMeansStaffed
<1>1. LInv => ReadyMeansStaffed
  BY DEF LInv, ReadyInv
<1> QED
  BY <1>1, LInvHolds, PTL

(* Without a failure of the server or an expired shutdown the database is  *)
(* closed when Run ends.                                                   *)
THEOREM LeftOpenNeedsFaultHolds == Spec => []LeftOpenNeedsFault
<1>1. LInv => LeftOpenNeedsFault
  BY DEF LInv, CloseInv, LeftOpenNeedsFault
<1> QED
  BY <1>1, LInvHolds, PTL

(* A ticker panics only on what the operator wrote, with the arithmetic of *)
(* a Duration of any width.                                                *)
THEOREM PanicNeedsBadSettingHolds == Spec => []PanicNeedsBadSetting
<1>1. LInv => PanicNeedsBadSetting
  BY DEF LInv
<1> QED
  BY <1>1, LInvHolds, PTL
=============================================================================
