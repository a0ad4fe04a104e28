---------------------------- MODULE SpacingProofs ----------------------------
(***************************************************************************)
(* Proofs about Evaluator's two action properties on the events of one     *)
(* key: that alarms are spaced by the cooldown, and that two triggered     *)
(* events have a recovered one between them.                               *)
(*                                                                         *)
(* Neither holds of the evaluator as it is: two goroutines that overlap on *)
(* a key, a state that is reset while its rule goes on, and an evaluation  *)
(* that is cut off between its event and its state each break them.  They  *)
(* are proved of the behaviours in which none of the three happens, which  *)
(* is to say that nothing else breaks them.                                *)
(***************************************************************************)
EXTENDS EvaluatorProofs

(* No two goroutines evaluate one rule on one device at a time.            *)
NoOverlap ==
    \A p \in Processes, q \in Processes :
        p # q /\ eval[p].pc # "idle" /\ eval[q].pc # "idle" =>
            KeyOf(eval[p].task) # KeyOf(eval[q].task)

(* p has stored an event whose state it is still to save.                  *)
HasEmitted(p) == eval[p].pc \in {"dispatch", "save"} /\ eval[p].verdict \in EventTypes

(* A step that resets no state but with its rule, and that ends no         *)
(* evaluation between its event and its save.                              *)
Quiet ==
    /\ \A k \in Keys : rows'[k] = NormalInstance =>
           rows[k] = NormalInstance \/ rules'[k[1]].status \notin Exists
    /\ \A p \in Processes : HasEmitted(p) /\ eval'[p].pc = "idle" => SaveState(p)

Undisturbed == []NoOverlap /\ [][Quiet]_vars
-----------------------------------------------------------------------------
(* In such a behaviour what an evaluation has loaded is what is stored,    *)
(* and is older than the evaluation.                                       *)
Current(p) ==
    LET e == eval[p]
        k == KeyOf(e.task)
    IN  e.pc # "idle" /\ RuleRowExists(p) =>
            /\ 1 =< e.at /\ e.at =< clock
            /\ rows[k].last =< e.at
            /\ e.pc \in {"emit", "dispatch", "save"} => e.inst = rows[k]

InHand(p, ev) == HasEmitted(p) /\ ev = EmittedEvent(eval[p])

(* Every event is remembered by the state of its key, or about to be.      *)
Remembered(ev) == ev.at =< rows[ev.key].last \/ \E p \in Processes : InHand(p, ev)

(* An alarm is on until an event says that it has recovered.               *)
OnOrOver(ev) ==
    \/ rows[ev.key].state = "triggered"
    \/ \E p \in Processes : InHand(p, ev)
    \/ \E r \in events : r.key = ev.key /\ r.type = "recovered" /\ ev.at =< r.at

RowsInOrder ==
    \A k \in Keys : /\ rows[k].since = ZeroTime => rows[k] = NormalInstance
                    /\ rows[k].last =< clock

EventsInOrder ==
    \A ev \in events : /\ rules[ev.key[1]].status \in Exists /\ 1 =< ev.at
                       /\ Remembered(ev)
                       /\ ev.type = "triggered" => OnOrOver(ev)

SpacingInv == RowsInOrder /\ (\A p \in Processes : Current(p)) /\ EventsInOrder
-----------------------------------------------------------------------------
(* The clock, and the existence of rules, in one step.                     *)
LEMMA ClockStep ==
    ASSUME TypeOK, [Next]_vars
    PROVE  clock \in Nat /\ clock' \in Nat /\ 1 =< clock /\ clock =< clock'
<1>1. clock \in Nat /\ 1 =< clock
  BY ConstantsAssumption DEF TypeOK, Times, ZeroTime
<1>2. clock' = clock \/ clock' = clock + 1
  BY DEF Next, vars, Environment, Tick, WindowMoves, Ingest, StartSweep, StartJob, JobFails,
         Evaluate, ReadWindow, LoadState, CreateEvent, Dispatch, SaveState, Fail, Crash,
         Administer, CreateRule, BeginUpdate, BeginSetEnabled, WriteRule, DeleteRule,
         ResetStates, RequestFails
<1> QED
  BY <1>1, <1>2

(* An evaluation that begins takes the time of the clock.                  *)
LEMMA BeginsNow ==
    ASSUME TypeOK, [Next]_vars, NEW p \in Processes, eval[p].pc = "idle", eval'[p].pc # "idle"
    PROVE  /\ eval'[p].pc = "load" /\ eval'[p].at = clock
           /\ UNCHANGED <<rows, events, rules, clock>>
<1>1. ASSUME NEW x \in Processes, ReadWindow(x)
      PROVE  /\ eval'[p].pc = "load" /\ eval'[p].at = clock
             /\ UNCHANGED <<rows, events, rules, clock>>
  <2>1. PICK e : e.pc = "load" /\ e.at = clock /\ eval' = [eval EXCEPT ![x] = e]
    BY <1>1 DEF ReadWindow, Idle
  <2>2. x = p
    BY <2>1 DEF TypeOK
  <2> QED
    BY <1>1, <2>1, <2>2 DEF TypeOK, ReadWindow
<1>2. EvalStep(p)
  BY EvalStepHolds
<1>3. ~(eval'[p] = eval[p] \/ eval'[p] = Idle \/ Decides(p) \/ Creates(p) \/ Dispatches(p))
  BY DEF Idle, Decides, Creates, Dispatches
<1>4. eval' # eval
  BY <1>3
<1>5. ASSUME NEW x \in Processes,
             LoadState(x) \/ CreateEvent(x) \/ Dispatch(x) \/ SaveState(x) \/ Fail(x)
      PROVE  FALSE
  <2>1. \E e : eval' = [eval EXCEPT ![x] = e]
    <3>1. \A pc : [eval EXCEPT ![x].pc = pc] = [eval EXCEPT ![x] = [eval[x] EXCEPT !.pc = pc]]
      OBVIOUS
    <3> QED
      BY <1>5, <3>1 DEF LoadState, CreateEvent, Dispatch, SaveState, Fail, Abandon
  <2>2. x = p
    BY <1>3, <2>1 DEF TypeOK
  <2>3. eval[x].pc # "idle"
    BY <1>5 DEF LoadState, CreateEvent, Dispatch, SaveState, Fail
  <2> QED
    BY <2>2, <2>3
<1>6. ~Crash
  BY <1>3 DEF Crash
<1> QED
  BY <1>1, <1>4, <1>5, <1>6
     DEF Next, vars, Environment, Tick, WindowMoves, Ingest, StartSweep, StartJob, JobFails,
         Evaluate, Administer, CreateRule, BeginUpdate, BeginSetEnabled, WriteRule, DeleteRule,
         ResetStates, RequestFails

LEMMA EvalFacts ==
    ASSUME TypeOK, NEW p \in Processes, eval[p].pc # "idle"
    PROVE  /\ eval[p] \in Evaluations /\ eval[p].task \in Tasks /\ eval[p].at \in Times
           /\ eval[p].inst \in Instances(Times) /\ eval[p].breach \in BOOLEAN
           /\ KeyOf(eval[p].task) \in Keys
           /\ KeyOf(eval[p].task)[1] = eval[p].task.rule /\ eval[p].task.rule \in Rules
<1>1. eval[p] \in Evaluations /\ eval[p].task \in Tasks
  BY DEF TypeOK, Evaluations
<1> QED
  BY <1>1, TaskFacts DEF Evaluations

(* An evaluation under way keeps its task and its time until it ends.      *)
LEMMA StaysOnTask ==
    ASSUME TypeOK, [Next]_vars, NEW p \in Processes, eval[p].pc # "idle", eval'[p].pc # "idle"
    PROVE  /\ eval'[p].task = eval[p].task /\ eval'[p].at = eval[p].at
           /\ \/ eval'[p] = eval[p]
              \/ Decides(p)
              \/ /\ eval'[p].inst = eval[p].inst /\ eval'[p].verdict = eval[p].verdict
                 /\ \/ eval[p].pc = "emit" /\ eval'[p].pc = "dispatch"
                    \/ eval[p].pc = "dispatch" /\ eval'[p].pc = "save"
<1>1. eval[p] \in Evaluations /\ EvalStep(p)
  BY EvalFacts, EvalStepHolds
<1>2. eval'[p] # Idle /\ ~Reads(p)
  BY DEF Idle, Reads
<1>3. CASE eval'[p] = eval[p]
  BY <1>3
<1>4. CASE Decides(p)
  BY <1>1, <1>4 DEF Decides, Evaluations
<1>5. CASE Creates(p)
  BY <1>1, <1>5 DEF Creates, Evaluations
<1>6. CASE Dispatches(p)
  BY <1>1, <1>6 DEF Dispatches, Evaluations
<1> QED
  BY <1>1, <1>2, <1>3, <1>4, <1>5, <1>6 DEF EvalStep

(* An event in hand stays in hand until its state is saved.                *)
LEMMA EmittedStays ==
    ASSUME TypeOK, [Next]_vars, Quiet, NEW p \in Processes, NEW ev, InHand(p, ev)
    PROVE  SaveState(p) \/ InHand(p, ev)'
<1>1. HasEmitted(p) /\ ev = EmittedEvent(eval[p])
  BY DEF InHand
<1>2. CASE eval'[p].pc = "idle"
  BY <1>1, <1>2 DEF Quiet
<1>3. CASE eval'[p].pc # "idle"
  <2>1. /\ eval'[p].task = eval[p].task /\ eval'[p].at = eval[p].at
        /\ eval'[p].verdict = eval[p].verdict /\ eval'[p].pc \in {"dispatch", "save"}
    BY <1>1, <1>3, StaysOnTask DEF HasEmitted, Decides
  <2> QED
    BY <1>1, <2>1 DEF InHand, HasEmitted, EmittedEvent
<1> QED
  BY <1>2, <1>3

SavesKey(p, k) == SaveState(p) /\ KeyOf(eval[p].task) = k

LEMMA RowKept ==
    ASSUME Structure, [Next]_vars, Quiet, NEW k \in Keys, rules'[k[1]].status \in Exists,
           \A p \in Processes : ~SavesKey(p, k)
    PROVE  rows'[k] = rows[k]
<1>1. CASE rows' = rows
  BY <1>1
<1>2. ASSUME NEW p \in Processes, SaveState(p)
      PROVE  rows'[k] = rows[k]
  BY <1>2 DEF SaveState, Structure, TypeOK, SavesKey
<1>3. ASSUME NEW r, rows' = RowsReset(r)
      PROVE  rows'[k] = rows[k]
  BY <1>3 DEF RowsReset, Quiet
<1> QED
  BY <1>1, <1>2, <1>3
     DEF Next, vars, Environment, Tick, WindowMoves, Ingest, StartSweep, StartJob, JobFails,
         Evaluate, ReadWindow, LoadState, CreateEvent, Dispatch, Fail, Crash,
         Administer, CreateRule, BeginUpdate, BeginSetEnabled, WriteRule, DeleteRule,
         ResetStates, RequestFails

LEMMA RowSaved ==
    ASSUME TypeOK, NEW p \in Processes, NEW k \in Keys, SavesKey(p, k),
           rules'[k[1]].status \in Exists
    PROVE  /\ rules[k[1]].status \in Exists /\ RuleRowExists(p)
           /\ rows'[k] = Applied(eval[p].inst, eval[p].verdict, eval[p].at)
           /\ UNCHANGED <<rules, events, clock>>
<1>1. eval[p].pc = "save" /\ UNCHANGED <<rules, events, clock>>
  BY DEF SavesKey, SaveState
<1>2. eval[p].task.rule = k[1]
  BY <1>1, EvalFacts DEF SavesKey
<1> QED
  BY <1>1, <1>2 DEF SavesKey, SaveState, RuleRowExists, TypeOK

LEMMA NewEvent ==
    ASSUME TypeOK, [Next]_vars, NEW ev \in events', ev \notin events
    PROVE  \E p \in Processes : CreateEvent(p) /\ RuleRowExists(p) /\ ev = EmittedEvent(eval[p])
<1>1. ASSUME NEW p \in Processes, CreateEvent(p)
      PROVE  RuleRowExists(p) /\ ev = EmittedEvent(eval[p])
  BY <1>1 DEF CreateEvent
<1>2. ~(events' \subseteq events)
  OBVIOUS
<1>3. \E p \in Processes : CreateEvent(p)
  BY <1>2
     DEF Next, vars, Environment, Tick, WindowMoves, Ingest, StartSweep, StartJob, JobFails,
         Evaluate, ReadWindow, LoadState, Dispatch, SaveState, Fail, Crash,
         Administer, CreateRule, BeginUpdate, BeginSetEnabled, WriteRule, DeleteRule,
         ResetStates, RequestFails, WithoutRule
<1> QED
  BY <1>1, <1>3

(* The rules with events, and the events of a rule, stay but for a delete. *)
LEMMA EventRuleStays ==
    ASSUME Structure, [Next]_vars, NEW ev \in events, ev \in events',
           rules[ev.key[1]].status \in Exists
    PROVE  rules'[ev.key[1]].status \in Exists
<1> DEFINE r == ev.key[1]
<1>1. TypeOK /\ r \in Rules
  BY DEF Structure, TypeOK, Events, Keys
<1>2. ASSUME NEW q \in Requests, CreateRule(q)
      PROVE  rules'[r].status \in Exists
  BY <1>1, <1>2 DEF CreateRule, TypeOK, Exists
<1>3. ASSUME NEW q \in Requests, WriteRule(q)
      PROVE  rules'[r].status \in Exists
  <2>1. request[q].copy.status \in Exists
    BY <1>3 DEF Structure, CopiesExist, WriteRule
  <2> QED
    BY <1>1, <1>3, <2>1 DEF WriteRule, TypeOK
<1>4. ASSUME NEW q \in Requests, DeleteRule(q)
      PROVE  rules'[r].status \in Exists
  <2>1. PICK x \in Rules : /\ rules' = [rules EXCEPT ![x].status = "deleted"]
                           /\ events' = WithoutRule(events, x)
    BY <1>4 DEF DeleteRule
  <2>2. x # r
    BY <2>1 DEF WithoutRule
  <2> QED
    BY <1>1, <2>1, <2>2 DEF TypeOK
<1>5. CASE rules' = rules
  BY <1>5
<1> QED
  BY <1>2, <1>3, <1>4, <1>5
     DEF Next, vars, Environment, Tick, WindowMoves, Ingest, StartSweep, StartJob, JobFails,
         Evaluate, ReadWindow, LoadState, CreateEvent, Dispatch, SaveState, Fail, Crash,
         Administer, BeginUpdate, BeginSetEnabled, ResetStates, RequestFails
-----------------------------------------------------------------------------
LEMMA InitSpacing == Init => SpacingInv
BY ConstantsAssumption
   DEF Init, SpacingInv, RowsInOrder, Current, EventsInOrder, NormalInstance, Idle,
       ZeroTime

(* The rule of an evaluation under way still existed if it exists now.     *)
LEMMA RuleWasThere ==
    ASSUME Structure, [Next]_vars, NEW p \in Processes, eval[p].pc # "idle",
           rules'[eval[p].task.rule].status \in Exists
    PROVE  RuleRowExists(p)
BY RulesStep, RuleStays, EvalFacts DEF Structure, WorkIsListed, RuleRowExists

(* What an evaluation has loaded is not overtaken by another save.         *)
LEMMA NextCurrent ==
    ASSUME IInv, SpacingInv, NoOverlap, [Next]_vars, Quiet, NEW p \in Processes
    PROVE  Current(p)'
<1> SUFFICES ASSUME eval'[p].pc # "idle", RuleRowExists(p)'
             PROVE  Current(p)'
  BY DEF Current
<1>1. TypeOK /\ TypeOK' /\ Structure
  BY IInvNext DEF IInv, Structure
<1>2. PICK e \in Evaluations, k \in Keys :
          e = eval'[p] /\ k = KeyOf(e.task) /\ k[1] = e.task.rule
  <2>1. eval'[p] \in Evaluations /\ eval'[p].task \in Tasks
    BY <1>1 DEF TypeOK, Evaluations
  <2> QED
    BY <2>1, TaskFacts
<1>3. clock \in Nat /\ clock' \in Nat /\ 1 =< clock /\ clock =< clock'
  BY <1>1, ClockStep
<1>4. /\ rows[k] \in Instances(Times) /\ rows[k].last =< clock
      /\ rows[k].since = ZeroTime => rows[k] = NormalInstance
  BY <1>1 DEF SpacingInv, RowsInOrder, TypeOK
<1>5. CASE eval[p].pc = "idle"
  <2>1. e.pc = "load" /\ e.at = clock /\ rows' = rows /\ clock' = clock
    BY <1>1, <1>2, <1>5, BeginsNow
  <2> QED
    BY <1>2, <1>3, <1>4, <2>1 DEF Current
<1>6. CASE eval[p].pc # "idle"
  <2>1. /\ e.task = eval[p].task /\ e.at = eval[p].at
        /\ \/ e = eval[p]
           \/ Decides(p)
           \/ e.inst = eval[p].inst /\ eval[p].pc \in {"emit", "dispatch"}
    BY <1>1, <1>2, <1>6, StaysOnTask
  <2>2. RuleRowExists(p) /\ rules'[k[1]].status \in Exists
    BY <1>1, <1>2, <1>6, <2>1, RuleWasThere DEF RuleRowExists
  <2>3. ASSUME NEW x \in Processes, SavesKey(x, k)
        PROVE  FALSE
    <3>1. eval[x].pc = "save" /\ KeyOf(eval[x].task) = KeyOf(eval[p].task)
      BY <1>2, <2>1, <2>3 DEF SavesKey, SaveState
    <3>2. x = p
      BY <1>6, <3>1 DEF NoOverlap
    <3>3. RuleRowExists(p) /\ SaveState(p)
      BY <2>2, <2>3, <3>2 DEF SavesKey
    <3>4. eval'[p] = Idle
      BY <1>1, <3>3 DEF SaveState, TypeOK
    <3> QED
      BY <3>4 DEF Idle
  <2>4. rows'[k] = rows[k]
    BY <1>1, <2>2, <2>3, RowKept
  <2>5. /\ 1 =< e.at /\ e.at =< clock /\ rows[k].last =< e.at
        /\ eval[p].pc \in {"emit", "dispatch", "save"} => eval[p].inst = rows[k]
    BY <1>2, <1>6, <2>1, <2>2 DEF SpacingInv, Current
  <2>6. e.at \in Nat
    BY <1>1, <1>2 DEF TypeOK, Evaluations, Times
  <2>7. e.pc \in {"emit", "dispatch", "save"} => e.inst = rows[k]
    <3>1. CASE Decides(p)
      <4>1. e.inst = Loaded(rows[k])
        BY <1>1, <1>2, <1>6, <2>1, <3>1, EvalFacts DEF Decides, Evaluations
      <4> QED
        BY <1>4, <4>1 DEF Loaded
    <3> QED
      BY <2>1, <2>5, <3>1
  <2> QED
    BY <1>2, <1>3, <2>4, <2>5, <2>6, <2>7 DEF Current
<1> QED
  BY <1>5, <1>6

(* What a save makes of the row it has loaded.                             *)
LEMMA SavedRow ==
    ASSUME IInv, SpacingInv, NEW p \in Processes, NEW k \in Keys, SavesKey(p, k),
           rules'[k[1]].status \in Exists
    PROVE  /\ eval[p].verdict \in EventTypes \cup {"armed"}
           /\ rows[k].last =< eval[p].at /\ eval[p].at =< clock
           /\ rows'[k].since # ZeroTime
           /\ rows'[k].last =
                  IF eval[p].verdict \in EventTypes THEN eval[p].at ELSE rows[k].last
           /\ eval[p].verdict = "armed" => rows[k].state \in {"normal", "recovered"}
           /\ eval[p].verdict \in AlarmTypes <=> rows'[k].state = "triggered"
           /\ eval[p].verdict \in EventTypes => EmittedEvent(eval[p]) \in events
<1>1. TypeOK /\ RuleRowExists(p)
  BY RowSaved DEF IInv, Structure
<1>2. PICK e \in Evaluations :
          /\ e = eval[p] /\ e.pc = "save" /\ e.inst \in Instances(Times) /\ e.at \in Times
          /\ e.breach \in BOOLEAN
  BY <1>1, EvalFacts DEF SavesKey, SaveState
<1>3. /\ e.verdict = Verdict(e.inst, e.breach, e.task.def, e.at)
      /\ e.verdict \in EventTypes \cup {"armed"}
      /\ e.verdict \in EventTypes => EmittedEvent(e) \in events
  BY <1>1, <1>2 DEF IInv, Carries, RuleRowExists
<1>4. 1 =< e.at /\ e.at =< clock /\ rows[k].last =< e.at /\ e.inst = rows[k]
  BY <1>1, <1>2 DEF SpacingInv, Current, SavesKey
<1>5. rows'[k] = Applied(e.inst, e.verdict, e.at)
  BY <1>1, <1>2, RowSaved
<1>6. PICK i \in Instances(Times) : i = e.inst
  BY <1>2
<1>7. i.since = ZeroTime => i = NormalInstance
  <2>1. i = rows[k]
    BY <1>4, <1>6
  <2> QED
    BY <2>1 DEF SpacingInv, RowsInOrder
<1>8. e.verdict = "armed" => i.state \in {"normal", "recovered"}
  BY <1>3, <1>6 DEF Verdict
<1>9. e.verdict \in EventTypes => i.state # "normal"
  BY <1>3, <1>6 DEF Verdict, EventTypes
<1>10. CASE e.verdict = "armed"
  <2>1. rows'[k] = [i EXCEPT !.state = "pending", !.since = e.at]
    BY <1>5, <1>6, <1>10 DEF Applied
  <2>2. rows'[k].since = e.at /\ rows'[k].last = i.last /\ rows'[k].state = "pending"
    BY <2>1 DEF Instances
  <2> QED
    BY <1>2, <1>3, <1>4, <1>6, <1>8, <1>10, <2>2 DEF ZeroTime, EventTypes, AlarmTypes
<1>11. CASE e.verdict \in EventTypes
  <2>1. i.since # ZeroTime
    BY <1>7, <1>9, <1>11 DEF NormalInstance
  <2>2. /\ rows'[k].since = i.since /\ rows'[k].last = e.at
        /\ e.verdict \in AlarmTypes <=> rows'[k].state = "triggered"
    <3>1. CASE e.verdict = "triggered"
      BY <1>5, <1>6, <3>1 DEF Applied, Instances, AlarmTypes
    <3>2. CASE e.verdict = "continuing"
      <4>1. i.state = "triggered"
        BY <1>3, <1>6, <3>2 DEF Verdict
      <4> QED
        BY <1>5, <1>6, <3>2, <4>1 DEF Applied, Instances, AlarmTypes
    <3>3. CASE e.verdict = "recovered"
      BY <1>5, <1>6, <3>3 DEF Applied, Instances, AlarmTypes
    <3> QED
      BY <1>11, <3>1, <3>2, <3>3 DEF EventTypes
  <2> QED
    BY <1>2, <1>3, <1>4, <1>11, <2>1, <2>2 DEF EventTypes
<1> QED
  BY <1>3, <1>10, <1>11

LEMMA NextRowsInOrder ==
    ASSUME IInv, SpacingInv, [Next]_vars, Quiet
    PROVE  RowsInOrder'
<1> SUFFICES ASSUME NEW k \in Keys
             PROVE  /\ rows'[k].since = ZeroTime => rows'[k] = NormalInstance
                    /\ rows'[k].last =< clock'
  BY DEF RowsInOrder
<1>1. TypeOK /\ TypeOK' /\ Structure /\ Structure'
  BY IInvNext DEF IInv, Structure
<1>2. clock \in Nat /\ clock' \in Nat /\ 1 =< clock /\ clock =< clock'
  BY <1>1, ClockStep
<1>3. /\ rows[k].last \in Nat /\ rows[k].last =< clock
      /\ rows[k].since = ZeroTime => rows[k] = NormalInstance
  BY <1>1 DEF SpacingInv, RowsInOrder, TypeOK, Instances, Times
<1>4. CASE rules'[k[1]].status \notin Exists
  <2>1. rows'[k] = NormalInstance
    BY <1>1, <1>4 DEF Structure, DeletedRuleLeavesNoState
  <2> QED
    BY <1>2, <2>1 DEF NormalInstance, ZeroTime
<1>5. CASE rules'[k[1]].status \in Exists
  <2>1. ASSUME NEW p \in Processes, SavesKey(p, k)
        PROVE  /\ rows'[k].since = ZeroTime => rows'[k] = NormalInstance
               /\ rows'[k].last =< clock'
    <3>1. eval[p].at \in Nat
      BY <1>1, <2>1, EvalFacts DEF SavesKey, SaveState, Times
    <3> QED
      BY <1>2, <1>3, <1>5, <2>1, <3>1, SavedRow
  <2>2. CASE \A p \in Processes : ~SavesKey(p, k)
    <3>1. rows'[k] = rows[k]
      BY <1>1, <1>5, <2>2, RowKept
    <3> QED
      BY <1>2, <1>3, <3>1
  <2> QED
    BY <2>1, <2>2
<1> QED
  BY <1>4, <1>5

(* A new event is in hand.                                                 *)
LEMMA NextNewEvent ==
    ASSUME IInv, SpacingInv, [Next]_vars, NEW ev \in events', ev \notin events
    PROVE  /\ rules'[ev.key[1]].status \in Exists /\ 1 =< ev.at
           /\ \E p \in Processes : InHand(p, ev)'
<1>1. TypeOK
  BY DEF IInv, Structure
<1>2. PICK p \in Processes : /\ CreateEvent(p) /\ RuleRowExists(p)
                             /\ ev = EmittedEvent(eval[p])
  BY <1>1, NewEvent
<1>3. PICK e \in Evaluations : e = eval[p] /\ e.pc = "emit" /\ KeyOf(e.task)[1] = e.task.rule
  BY <1>1, <1>2, EvalFacts DEF CreateEvent
<1>4. ev.key = KeyOf(e.task) /\ ev.at = e.at
  BY <1>2, <1>3 DEF EmittedEvent, Event
<1>5. rules' = rules /\ eval' = [eval EXCEPT ![p].pc = "dispatch"]
  BY <1>2 DEF CreateEvent
<1>6. 1 =< e.at
  BY <1>2, <1>3 DEF SpacingInv, Current
<1>7. e.verdict \in EventTypes
  BY <1>3 DEF Evaluations
<1>8. /\ eval'[p].task = e.task /\ eval'[p].at = e.at /\ eval'[p].verdict = e.verdict
      /\ eval'[p].pc = "dispatch"
  BY <1>1, <1>3, <1>5 DEF TypeOK, Evaluations
<1>9. InHand(p, ev)'
  BY <1>2, <1>3, <1>7, <1>8 DEF InHand, HasEmitted, EmittedEvent
<1> QED
  BY <1>2, <1>3, <1>4, <1>5, <1>6, <1>9 DEF RuleRowExists

(* The event in hand whose state is saved is of the key saved.             *)
LEMMA InHandOfKey ==
    ASSUME TypeOK, NEW p \in Processes, NEW ev, InHand(p, ev)
    PROVE  /\ ev.key = KeyOf(eval[p].task) /\ ev.at = eval[p].at
           /\ ev.type = eval[p].verdict /\ eval[p].pc # "idle"
           /\ eval[p].verdict \in EventTypes
BY DEF InHand, HasEmitted, EmittedEvent, Event

(* A save of the key is made by whoever has an event of it in hand.        *)
LEMMA SaverHasIt ==
    ASSUME TypeOK, NoOverlap, NEW p \in Processes, NEW q \in Processes, NEW ev,
           InHand(p, ev), SavesKey(q, ev.key)
    PROVE  q = p
BY InHandOfKey DEF NoOverlap, SavesKey, SaveState

LEMMA NextRemembered ==
    ASSUME IInv, SpacingInv, NoOverlap, [Next]_vars, Quiet, NEW ev \in events,
           rules'[ev.key[1]].status \in Exists
    PROVE  Remembered(ev)'
<1>1. TypeOK /\ TypeOK' /\ Structure
  BY IInvNext DEF IInv, Structure
<1>2. PICK k \in Keys : k = ev.key
  BY <1>1 DEF TypeOK, Events
<1>3. ev.at \in Nat /\ rows[k].last \in Nat /\ Remembered(ev)
  BY <1>1 DEF TypeOK, Events, Times, Instances, SpacingInv, EventsInOrder
<1>4. ASSUME NEW p \in Processes, InHand(p, ev)
      PROVE  Remembered(ev)'
  <2>1. CASE SaveState(p)
    <3>1. SavesKey(p, k) /\ ev.at = eval[p].at /\ eval[p].verdict \in EventTypes
      BY <1>1, <1>2, <1>4, <2>1, InHandOfKey DEF SavesKey
    <3>2. rows'[k].last = ev.at
      BY <1>2, <3>1, SavedRow
    <3> QED
      BY <1>2, <1>3, <3>2 DEF Remembered
  <2>2. CASE InHand(p, ev)'
    BY <2>2 DEF Remembered
  <2> QED
    BY <1>1, <1>4, <2>1, <2>2, EmittedStays
<1>5. CASE ev.at =< rows[k].last
  <2>1. ASSUME NEW p \in Processes, SavesKey(p, k)
        PROVE  Remembered(ev)'
    <3>1. eval[p].at \in Nat
      BY <1>1, <2>1, EvalFacts DEF SavesKey, SaveState, Times
    <3>2. ev.at =< rows'[k].last
      BY <1>2, <1>3, <1>5, <2>1, <3>1, SavedRow
    <3> QED
      BY <1>2, <3>2 DEF Remembered
  <2>2. CASE \A p \in Processes : ~SavesKey(p, k)
    <3>1. rows'[k] = rows[k]
      BY <1>1, <1>2, <2>2, RowKept
    <3> QED
      BY <1>2, <1>5, <3>1 DEF Remembered
  <2> QED
    BY <2>1, <2>2
<1> QED
  BY <1>2, <1>3, <1>4, <1>5 DEF Remembered

LEMMA NextOnOrOver ==
    ASSUME IInv, SpacingInv, NoOverlap, [Next]_vars, Quiet, NEW ev \in events,
           rules'[ev.key[1]].status \in Exists, ev.type = "triggered"
    PROVE  OnOrOver(ev)'
<1>1. TypeOK /\ TypeOK' /\ Structure
  BY IInvNext DEF IInv, Structure
<1>2. PICK k \in Keys : k = ev.key
  BY <1>1 DEF TypeOK, Events
<1>3. ev.at \in Nat /\ rows[k].last \in Nat /\ Remembered(ev) /\ OnOrOver(ev)
  BY <1>1 DEF TypeOK, Events, Times, Instances, SpacingInv, EventsInOrder
<1>4. ASSUME NEW p \in Processes, InHand(p, ev)
      PROVE  OnOrOver(ev)'
  <2>1. CASE SaveState(p)
    <3>1. SavesKey(p, k) /\ eval[p].verdict \in AlarmTypes
      BY <1>1, <1>2, <1>4, <2>1, InHandOfKey DEF SavesKey, AlarmTypes
    <3>2. rows'[k].state = "triggered"
      BY <1>2, <3>1, SavedRow
    <3> QED
      BY <1>2, <3>2 DEF OnOrOver
  <2>2. CASE InHand(p, ev)'
    BY <2>2 DEF OnOrOver
  <2> QED
    BY <1>1, <1>4, <2>1, <2>2, EmittedStays
<1>5. ASSUME NEW r \in events, r.key = ev.key, r.type = "recovered", ev.at =< r.at
      PROVE  OnOrOver(ev)'
  <2>1. r \in events'
    BY <1>1, <1>5, TablesStepHolds DEF TablesStep
  <2> QED
    BY <1>5, <2>1 DEF OnOrOver
<1>6. CASE rows[k].state = "triggered" /\ ~\E p \in Processes : InHand(p, ev)
  <2>1. ev.at =< rows[k].last
    BY <1>2, <1>3, <1>6 DEF Remembered
  <2>2. ASSUME NEW p \in Processes, SavesKey(p, k)
        PROVE  OnOrOver(ev)'
    <3>1. eval[p].at \in Nat
      BY <1>1, <2>2, EvalFacts DEF SavesKey, SaveState, Times
    <3>2. /\ eval[p].verdict # "armed" /\ eval[p].verdict \in EventTypes \cup {"armed"}
          /\ rows[k].last =< eval[p].at
          /\ eval[p].verdict \in AlarmTypes => rows'[k].state = "triggered"
          /\ eval[p].verdict \in EventTypes => EmittedEvent(eval[p]) \in events
      BY <1>2, <1>6, <2>2, SavedRow
    <3>3. CASE eval[p].verdict \in AlarmTypes
      BY <1>2, <3>2, <3>3 DEF OnOrOver
    <3>4. CASE eval[p].verdict = "recovered"
      <4>1. PICK r \in events : r = EmittedEvent(eval[p])
        BY <3>2, <3>4 DEF EventTypes
      <4>2. r.key = k /\ r.type = "recovered" /\ r.at = eval[p].at
        BY <2>2, <3>4, <4>1 DEF EmittedEvent, Event, SavesKey
      <4>3. ev.at =< r.at
        BY <1>3, <2>1, <3>1, <3>2, <4>2
      <4> QED
        BY <1>2, <1>5, <4>2, <4>3
    <3> QED
      BY <3>2, <3>3, <3>4 DEF EventTypes, AlarmTypes
  <2>3. CASE \A p \in Processes : ~SavesKey(p, k)
    <3>1. rows'[k] = rows[k]
      BY <1>1, <1>2, <2>3, RowKept
    <3> QED
      BY <1>2, <1>6, <3>1 DEF OnOrOver
  <2> QED
    BY <2>2, <2>3
<1> QED
  BY <1>2, <1>3, <1>4, <1>5, <1>6 DEF OnOrOver

LEMMA NextSpacing ==
    ASSUME IInv, SpacingInv, NoOverlap, [Next]_vars, Quiet
    PROVE  SpacingInv'
<1>1. RowsInOrder' /\ \A p \in Processes : Current(p)'
  BY NextRowsInOrder, NextCurrent
<1>2. ASSUME NEW ev \in events'
      PROVE  /\ rules'[ev.key[1]].status \in Exists /\ 1 =< ev.at
             /\ Remembered(ev)'
             /\ ev.type = "triggered" => OnOrOver(ev)'
  <2>1. CASE ev \in events
    <3>1. rules[ev.key[1]].status \in Exists /\ 1 =< ev.at
      BY <2>1 DEF SpacingInv, EventsInOrder
    <3>2. rules'[ev.key[1]].status \in Exists
      BY <1>2, <2>1, <3>1, EventRuleStays DEF IInv
    <3> QED
      BY <2>1, <3>1, <3>2, NextRemembered, NextOnOrOver
  <2>2. CASE ev \notin events
    BY <1>2, <2>2, NextNewEvent DEF Remembered, OnOrOver
  <2> QED
    BY <2>1, <2>2
<1> QED
  BY <1>1, <1>2 DEF SpacingInv, EventsInOrder

(* What the two properties ask of a step.                                  *)
SpacedStep ==
    \A p \in Processes : Emits(p) /\ eval[p].verdict \in AlarmTypes =>
        \A e \in events : e.key = KeyOf(eval[p].task) =>
            e.at + eval[p].task.def.cooldown < eval[p].at

SeparatedStep ==
    \A p \in Processes : Emits(p) /\ eval[p].verdict = "triggered" =>
        \A e \in events : e.key = KeyOf(eval[p].task) /\ e.type = "triggered" =>
            \E r \in events : /\ r.key = e.key /\ r.type = "recovered"
                              /\ e.at =< r.at /\ r.at =< eval[p].at

(* The step that stores an event.                                          *)
LEMMA EmitsIsCreate ==
    ASSUME TypeOK, [Next]_vars, NEW p \in Processes, Emits(p)
    PROVE  CreateEvent(p) /\ RuleRowExists(p)
<1>1. eval[p].pc = "emit" /\ eval'[p].pc = "dispatch"
  BY DEF Emits
<1>2. ASSUME NEW x \in Processes, CreateEvent(x)
      PROVE  CreateEvent(p) /\ RuleRowExists(p)
  <2>1. CASE RuleRowExists(x)
    <3>1. eval' = [eval EXCEPT ![x].pc = "dispatch"]
      BY <1>2, <2>1 DEF CreateEvent
    <3>2. x = p
      BY <1>1, <3>1 DEF TypeOK
    <3> QED
      BY <1>2, <2>1, <3>2
  <2>2. CASE ~RuleRowExists(x)
    <3>1. eval' = [eval EXCEPT ![x] = Idle]
      BY <1>2, <2>2 DEF CreateEvent, Abandon
    <3> QED
      BY <1>1, <3>1 DEF TypeOK, Idle
  <2> QED
    BY <2>1, <2>2
<1>3. ASSUME NEW x \in Processes, ReadWindow(x) \/ LoadState(x) \/ Dispatch(x) \/ SaveState(x)
      PROVE  eval'[p].pc # "dispatch"
  <2>1. eval[x].pc # "emit"
    BY <1>3 DEF ReadWindow, LoadState, Dispatch, SaveState
  <2>2. eval'[p] = eval[p]
    BY <1>1, <1>3, <2>1 DEF ReadWindow, LoadState, Dispatch, SaveState, Abandon, TypeOK
  <2> QED
    BY <1>1, <2>2
<1>4. ASSUME NEW x \in Processes, Fail(x)
      PROVE  eval'[p].pc # "dispatch"
  BY <1>1, <1>4 DEF Fail, Abandon, TypeOK, Idle
<1>5. ~Crash
  BY <1>1 DEF Crash, Idle
<1>6. eval' # eval
  BY <1>1
<1> QED
  BY <1>1, <1>2, <1>3, <1>4, <1>5, <1>6
     DEF Next, vars, Environment, Tick, WindowMoves, Ingest, StartSweep, StartJob, JobFails,
         Evaluate, Administer, CreateRule, BeginUpdate, BeginSetEnabled, WriteRule,
         DeleteRule, ResetStates, RequestFails

(* An emitting evaluation has its key to itself: what it loaded says all.  *)
LEMMA EmitsFromRow ==
    ASSUME IInv, SpacingInv, NoOverlap, [Next]_vars, NEW p \in Processes, Emits(p)
    PROVE  LET k == KeyOf(eval[p].task)
           IN  /\ k \in Keys /\ eval[p].task \in Tasks /\ eval[p].at \in Nat
               /\ rows[k] \in Instances(Times) /\ rows[k].last =< eval[p].at
               /\ eval[p].verdict = Verdict(rows[k], eval[p].breach, eval[p].task.def, eval[p].at)
               /\ \A e \in events : e.key = k =>
                      /\ e.at \in Nat /\ e.at =< rows[k].last /\ 1 =< e.at
                      /\ ~\E q \in Processes : InHand(q, e)
<1> DEFINE k == KeyOf(eval[p].task)
<1>1. TypeOK
  BY DEF IInv, Structure
<1>2. eval[p].pc = "emit" /\ eval'[p].pc = "dispatch"
  BY DEF Emits
<1>3. /\ k \in Keys /\ eval[p].task \in Tasks /\ eval[p].at \in Nat
      /\ rows[k] \in Instances(Times)
  BY <1>1, <1>2, EvalFacts DEF TypeOK, Times
<1>4. RuleRowExists(p)
  BY <1>1, EmitsIsCreate
<1>5. rows[k].last =< eval[p].at /\ eval[p].inst = rows[k]
  BY <1>2, <1>4 DEF SpacingInv, Current
<1>6. eval[p].verdict = Verdict(eval[p].inst, eval[p].breach, eval[p].task.def, eval[p].at)
  BY <1>2 DEF IInv, Carries
<1>7. ASSUME NEW e \in events, e.key = k
      PROVE  /\ e.at \in Nat /\ e.at =< rows[k].last /\ 1 =< e.at
             /\ ~\E q \in Processes : InHand(q, e)
  <2>1. ASSUME NEW q \in Processes, InHand(q, e)
        PROVE  FALSE
    <3>1. KeyOf(eval[q].task) = k /\ eval[q].pc \in {"dispatch", "save"}
      BY <1>1, <1>7, <2>1, InHandOfKey DEF InHand, HasEmitted
    <3> QED
      BY <1>2, <3>1 DEF NoOverlap
  <2>2. Remembered(e) /\ 1 =< e.at /\ e.at \in Nat
    BY <1>1 DEF SpacingInv, EventsInOrder, TypeOK, Events, Times
  <2> QED
    BY <1>7, <2>1, <2>2 DEF Remembered
<1> QED
  BY <1>3, <1>5, <1>6, <1>7

LEMMA StepIsSpaced ==
    ASSUME IInv, SpacingInv, NoOverlap, [Next]_vars
    PROVE  SpacedStep
<1> SUFFICES ASSUME NEW p \in Processes, Emits(p), eval[p].verdict \in AlarmTypes,
                    NEW e \in events, e.key = KeyOf(eval[p].task)
             PROVE  e.at + eval[p].task.def.cooldown < eval[p].at
  BY DEF SpacedStep
<1>1. PICK at \in Nat, row \in Instances(Times), def \in Definitions :
          /\ at = eval[p].at /\ row = rows[KeyOf(eval[p].task)] /\ def = eval[p].task.def
          /\ def.cooldown \in Nat
          /\ eval[p].verdict = Verdict(row, eval[p].breach, def, at)
          /\ e.at \in Nat /\ e.at =< row.last /\ 1 =< e.at
  BY EmitsFromRow, TaskFacts
<1>2. CooledDown(row, def, at)
  BY <1>1 DEF Verdict, AlarmTypes
<1>3. row.last \in Nat
  BY <1>1 DEF Instances, Times
<1>4. at > row.last + def.cooldown
  BY <1>1, <1>2, <1>3 DEF CooledDown, ZeroTime
<1> QED
  BY <1>1, <1>3, <1>4

LEMMA StepIsSeparated ==
    ASSUME IInv, SpacingInv, NoOverlap, [Next]_vars
    PROVE  SeparatedStep
<1> SUFFICES ASSUME NEW p \in Processes, Emits(p), eval[p].verdict = "triggered",
                    NEW e \in events, e.key = KeyOf(eval[p].task), e.type = "triggered"
             PROVE  \E r \in events : /\ r.key = e.key /\ r.type = "recovered"
                                      /\ e.at =< r.at /\ r.at =< eval[p].at
  BY DEF SeparatedStep
<1>1. PICK k \in Keys : k = e.key /\ k = KeyOf(eval[p].task)
  BY EmitsFromRow
<1>2. /\ eval[p].at \in Nat /\ rows[k] \in Instances(Times) /\ rows[k].last =< eval[p].at
      /\ eval[p].verdict = Verdict(rows[k], eval[p].breach, eval[p].task.def, eval[p].at)
      /\ ~\E q \in Processes : InHand(q, e)
  BY <1>1, EmitsFromRow
<1>3. rows[k].state = "pending"
  BY <1>2 DEF Verdict
<1>4. OnOrOver(e)
  BY DEF SpacingInv, EventsInOrder
<1>5. PICK r \in events : r.key = e.key /\ r.type = "recovered" /\ e.at =< r.at
  BY <1>1, <1>2, <1>3, <1>4 DEF OnOrOver
<1>6. r.at \in Nat /\ r.at =< rows[k].last
  BY <1>1, <1>5, EmitsFromRow
<1>7. rows[k].last \in Nat
  BY <1>2 DEF Instances, Times
<1>8. r.at =< eval[p].at
  BY <1>2, <1>6, <1>7
<1> QED
  BY <1>5, <1>8

LEMMA SpacingHolds == Spec /\ Undisturbed => [](IInv /\ SpacingInv)
<1>1. IInv /\ SpacingInv /\ NoOverlap /\ [Next]_vars /\ [Quiet]_vars => (IInv /\ SpacingInv)'
  <2> SUFFICES ASSUME IInv, SpacingInv, NoOverlap, [Next]_vars, [Quiet]_vars
               PROVE  (IInv /\ SpacingInv)'
    OBVIOUS
  <2>1. Quiet
    BY DEF Quiet, vars, HasEmitted
  <2> QED
    BY <2>1, IInvNext, NextSpacing
<1> QED
  BY <1>1, IInit, InitSpacing, PTL DEF Spec, Undisturbed

(* Rule.Cooldown: while no two goroutines overlap on a rule and device, no *)
(* state is reset under a rule that goes on and no evaluation is cut off   *)
(* between its event and its state, an alarm is raised only when every     *)
(* stored event of its key is more than a cooldown old.                    *)
THEOREM AlarmsAreSpaced == Spec /\ Undisturbed => SpacedByCooldown
<1>1. IInv /\ SpacingInv /\ NoOverlap /\ [Next]_vars => [SpacedStep]_vars
  BY StepIsSpaced
<1>2. Spec /\ Undisturbed => [][SpacedStep]_vars
  BY <1>1, SpacingHolds, PTL DEF Spec, Undisturbed
<1> QED
  BY <1>2 DEF SpacedByCooldown, SpacedStep

(* Under the same conditions an alarm that was triggered is triggered      *)
(* again only after a recovered event was stored in between.               *)
THEOREM AlarmsRecoverBetween == Spec /\ Undisturbed => TriggersAreSeparated
<1>1. IInv /\ SpacingInv /\ NoOverlap /\ [Next]_vars => [SeparatedStep]_vars
  BY StepIsSeparated
<1>2. Spec /\ Undisturbed => [][SeparatedStep]_vars
  BY <1>1, SpacingHolds, PTL DEF Spec, Undisturbed
<1> QED
  BY <1>2 DEF TriggersAreSeparated, SeparatedStep
-----------------------------------------------------------------------------
(* The contract.  An event counts from the moment it is stored, whether    *)
(* its state is saved yet or still in the hands of its evaluation.         *)
Holds(p, k) == HasEmitted(p) /\ KeyOf(eval[p].task) = k /\ RuleRowExists(p)

Fate(r) == IF rules[r].status \in Exists THEN "live" ELSE rules[r].status

On(k) ==
    IF \E p \in Processes : Holds(p, k)
      THEN \E p \in Processes : Holds(p, k) /\ eval[p].verdict \in AlarmTypes
      ELSE rows[k].state = "triggered"

LastOf(k) ==
    IF \E p \in Processes : Holds(p, k)
      THEN eval[CHOOSE p \in Processes : Holds(p, k)].at
      ELSE rows[k].last

Alarms == INSTANCE AlarmContract WITH
    Cooldowns <- {def.cooldown : def \in Definitions},
    fate <- [r \in Rules |-> Fate(r)],
    on <- {k \in Keys : On(k)},
    last <- [k \in Keys |-> LastOf(k)]

LEMMA HeldOn ==
    NoOverlap => \A p \in Processes, k \in Keys : Holds(p, k) =>
        (On(k) <=> eval[p].verdict \in AlarmTypes) /\ LastOf(k) = eval[p].at
<1> SUFFICES ASSUME NoOverlap, NEW p \in Processes, NEW k \in Keys, Holds(p, k)
             PROVE  (On(k) <=> eval[p].verdict \in AlarmTypes) /\ LastOf(k) = eval[p].at
  OBVIOUS
<1>1. ASSUME NEW q \in Processes, Holds(q, k)
      PROVE  q = p
  BY <1>1 DEF NoOverlap, Holds, HasEmitted
<1>2. (CHOOSE q \in Processes : Holds(q, k)) = p
  BY <1>1
<1> QED
  BY <1>1, <1>2 DEF On, LastOf

LEMMA RowOn ==
    \A k \in Keys : (\A p \in Processes : ~Holds(p, k)) =>
        (On(k) <=> rows[k].state = "triggered") /\ LastOf(k) = rows[k].last
BY DEF On, LastOf

LEMMA HeldOnNext ==
    (NoOverlap => \A p \in Processes, k \in Keys : Holds(p, k) =>
        (On(k) <=> eval[p].verdict \in AlarmTypes) /\ LastOf(k) = eval[p].at)'
BY HeldOn, PTL

LEMMA RowOnNext ==
    (\A k \in Keys : (\A p \in Processes : ~Holds(p, k)) =>
        (On(k) <=> rows[k].state = "triggered") /\ LastOf(k) = rows[k].last)'
BY RowOn, PTL

(* An event in hand is one that was in hand, or that is being stored.      *)
LEMMA HoldsBefore ==
    ASSUME Structure, [Next]_vars, NEW p \in Processes, NEW k \in Keys, Holds(p, k)'
    PROVE  /\ eval'[p].verdict = eval[p].verdict /\ eval'[p].at = eval[p].at
           /\ Holds(p, k) \/ (Emits(p) /\ KeyOf(eval[p].task) = k)
<1>1. TypeOK /\ TypeOK'
  BY TypeNext DEF Structure
<1>2. eval'[p].pc \in {"dispatch", "save"} /\ eval'[p].verdict \in EventTypes
  BY DEF Holds, HasEmitted
<1>3. eval[p].pc # "idle"
  BY <1>1, <1>2, BeginsNow
<1>4. eval'[p].task = eval[p].task /\ eval'[p].at = eval[p].at
  BY <1>1, <1>2, <1>3, StaysOnTask
<1>5. ~Decides(p)
  BY <1>1, <1>2, <1>3, EvalFacts DEF Decides, Evaluations, EventTypes
<1>6. /\ eval'[p].verdict = eval[p].verdict
      /\ eval[p].pc \in {"dispatch", "save"} \/ Emits(p)
  BY <1>1, <1>2, <1>3, <1>5, StaysOnTask DEF Emits
<1>7. RuleRowExists(p) /\ KeyOf(eval[p].task) = k
  BY <1>3, <1>4, RuleWasThere DEF Holds, RuleRowExists
<1> QED
  BY <1>2, <1>4, <1>6, <1>7 DEF Holds, HasEmitted

(* A key whose rule goes on, in a step that stores no event on it.         *)
LEMMA AlarmStays ==
    ASSUME IInv, SpacingInv, NoOverlap, NoOverlap', [Next]_vars, Quiet, NEW k \in Keys,
           rules'[k[1]].status \in Exists,
           \A p \in Processes : Emits(p) => KeyOf(eval[p].task) # k
    PROVE  (On(k)' <=> On(k)) /\ LastOf(k)' = LastOf(k)
<1>1. Structure /\ Structure' /\ TypeOK
  BY IInvNext DEF IInv, Structure
<1>2. ASSUME NEW p \in Processes, Holds(p, k)
      PROVE  (On(k)' <=> On(k)) /\ LastOf(k)' = LastOf(k)
  <2>1. (On(k) <=> eval[p].verdict \in AlarmTypes) /\ LastOf(k) = eval[p].at
    BY <1>2, HeldOn
  <2>2. PICK ev : ev = EmittedEvent(eval[p]) /\ InHand(p, ev) /\ eval[p].verdict \in EventTypes
    BY <1>2 DEF Holds, InHand, HasEmitted
  <2>3. CASE SaveState(p)
    <3>1. SavesKey(p, k)
      BY <1>2, <2>3 DEF SavesKey, Holds
    <3>2. ASSUME NEW q \in Processes
          PROVE  ~Holds(q, k)'
      <4>1. SUFFICES ASSUME Holds(q, k)' PROVE FALSE
        OBVIOUS
      <4>2. Holds(q, k)
        BY <1>1, <4>1, HoldsBefore
      <4>3. q = p
        BY <1>2, <4>2 DEF NoOverlap, Holds, HasEmitted
      <4>4. eval'[p].pc = "idle"
        BY <1>1, <1>2, <2>3 DEF SaveState, Holds, TypeOK, Idle
      <4> QED
        BY <4>1, <4>3, <4>4 DEF Holds, HasEmitted
    <3>3. (On(k)' <=> rows'[k].state = "triggered") /\ LastOf(k)' = rows'[k].last
      BY <3>2, RowOnNext
    <3>4. /\ rows'[k].state = "triggered" <=> eval[p].verdict \in AlarmTypes
          /\ rows'[k].last = eval[p].at
      BY <2>2, <3>1, SavedRow
    <3> QED
      BY <2>1, <3>3, <3>4
  <2>4. CASE InHand(p, ev)'
    <3>1. eval'[p].task = eval[p].task
      BY <1>1, <1>2, <2>4, StaysOnTask DEF InHand, Holds, HasEmitted
    <3>2. k[1] = eval[p].task.rule
      BY <1>1, <1>2, EvalFacts DEF Holds, HasEmitted
    <3>3. Holds(p, k)'
      BY <1>2, <2>4, <3>1, <3>2 DEF Holds, InHand, RuleRowExists
    <3>4. eval'[p].verdict = eval[p].verdict /\ eval'[p].at = eval[p].at
      BY <1>1, <3>3, HoldsBefore
    <3>5. (On(k)' <=> eval'[p].verdict \in AlarmTypes) /\ LastOf(k)' = eval'[p].at
      BY <3>3, HeldOnNext
    <3> QED
      BY <2>1, <3>4, <3>5
  <2> QED
    BY <1>1, <2>2, <2>3, <2>4, EmittedStays
<1>3. CASE \A p \in Processes : ~Holds(p, k)
  <2>1. \A p \in Processes : ~Holds(p, k)'
    BY <1>1, <1>3, HoldsBefore
  <2>2. (On(k) <=> rows[k].state = "triggered") /\ LastOf(k) = rows[k].last
    BY <1>3, RowOn
  <2>3. (On(k)' <=> rows'[k].state = "triggered") /\ LastOf(k)' = rows'[k].last
    BY <2>1, RowOnNext
  <2>4. ASSUME NEW p \in Processes, SavesKey(p, k)
        PROVE  /\ rows'[k].state = "triggered" <=> rows[k].state = "triggered"
               /\ rows'[k].last = rows[k].last
    <3>1. RuleRowExists(p) /\ eval[p].pc = "save" /\ KeyOf(eval[p].task) = k
      BY <1>1, <2>4, RowSaved DEF SavesKey, SaveState
    <3>2. eval[p].verdict \notin EventTypes
      BY <1>3, <3>1 DEF Holds, HasEmitted
    <3>3. eval[p].verdict = "armed" /\ eval[p].verdict \notin AlarmTypes
      BY <2>4, <3>2, SavedRow DEF AlarmTypes, EventTypes
    <3> QED
      BY <2>4, <3>2, <3>3, SavedRow
  <2>5. CASE \A p \in Processes : ~SavesKey(p, k)
    BY <1>1, <2>2, <2>3, <2>5, RowKept
  <2> QED
    BY <2>2, <2>3, <2>4, <2>5
<1> QED
  BY <1>2, <1>3

(* A key without its rule has no alarm.                                    *)
LEMMA NoRuleNoAlarm ==
    Structure => \A k \in Keys : rules[k[1]].status \notin Exists => ~On(k) /\ LastOf(k) = 0
<1> SUFFICES ASSUME Structure, NEW k \in Keys, rules[k[1]].status \notin Exists
             PROVE  ~On(k) /\ LastOf(k) = 0
  OBVIOUS
<1>1. \A p \in Processes : ~Holds(p, k)
  BY EvalFacts DEF Holds, HasEmitted, RuleRowExists, Structure
<1>2. rows[k] = NormalInstance
  BY DEF Structure, DeletedRuleLeavesNoState
<1> QED
  BY <1>1, <1>2, RowOn DEF NormalInstance, ZeroTime

LEMMA NoRuleNoAlarmNext ==
    (Structure => \A k \in Keys : rules[k[1]].status \notin Exists => ~On(k) /\ LastOf(k) = 0)'
BY NoRuleNoAlarm, PTL

(* One rule at a time comes to life or is deleted.                         *)
LEMMA FateStep ==
    ASSUME Structure, [Next]_vars
    PROVE  \/ \A r \in Rules : Fate(r)' = Fate(r)
           \/ \E r \in Rules : /\ Fate(r) = "unused" /\ Fate(r)' = "live"
                               /\ \A x \in Rules : x # r => Fate(x)' = Fate(x)
           \/ \E r \in Rules : /\ Fate(r) = "live" /\ Fate(r)' = "deleted"
                               /\ \A x \in Rules : x # r => Fate(x)' = Fate(x)
<1>1. TypeOK
  BY DEF Structure
<1>2. CASE rules' = rules
  BY <1>2 DEF Fate
<1>3. ASSUME NEW q \in Requests, CreateRule(q)
      PROVE  \E r \in Rules : /\ Fate(r) = "unused" /\ Fate(r)' = "live"
                              /\ \A x \in Rules : x # r => Fate(x)' = Fate(x)
  <2>1. PICK r \in Rules, def \in Definitions :
          /\ rules[r].status = "unused"
          /\ rules' = [rules EXCEPT ![r] = [status |-> "enabled", def |-> def]]
    BY <1>3 DEF CreateRule
  <2>2. rules'[r].status = "enabled" /\ \A x \in Rules : x # r => rules'[x] = rules[x]
    BY <1>1, <2>1 DEF TypeOK
  <2> QED
    BY <2>1, <2>2 DEF Fate, Exists
<1>4. ASSUME NEW q \in Requests, DeleteRule(q)
      PROVE  \E r \in Rules : /\ Fate(r) = "live" /\ Fate(r)' = "deleted"
                              /\ \A x \in Rules : x # r => Fate(x)' = Fate(x)
  <2>1. PICK r \in Rules : /\ rules[r].status \in Exists
                           /\ rules' = [rules EXCEPT ![r].status = "deleted"]
    BY <1>4 DEF DeleteRule
  <2>2. rules'[r].status = "deleted" /\ \A x \in Rules : x # r => rules'[x] = rules[x]
    BY <1>1, <2>1 DEF TypeOK, RuleRows
  <2> QED
    BY <2>1, <2>2 DEF Fate, Exists
<1>5. ASSUME NEW q \in Requests, WriteRule(q)
      PROVE  \A r \in Rules : Fate(r)' = Fate(r)
  <2>1. request[q].rule \in Rules /\ request[q].copy.status \in Exists
    BY <1>1, <1>5 DEF WriteRule, TypeOK, RequestStates, Structure, CopiesExist
  <2>2. \A r \in Rules : \/ rules'[r] = rules[r]
                         \/ rules[r].status \in Exists /\ rules'[r].status \in Exists
    BY <1>1, <1>5, <2>1 DEF WriteRule, TypeOK
  <2> QED
    BY <2>2 DEF Fate
<1> QED
  BY <1>2, <1>3, <1>4, <1>5
     DEF Next, vars, Environment, Tick, WindowMoves, Ingest, StartSweep, StartJob, JobFails,
         Evaluate, ReadWindow, LoadState, CreateEvent, Dispatch, SaveState, Fail, Crash,
         Administer, BeginUpdate, BeginSetEnabled, ResetStates, RequestFails

LEMMA FateExists ==
    ASSUME TypeOK, NEW r \in Rules
    PROVE  rules[r].status \in Exists <=> Fate(r) = "live"
<1>1. rules[r].status \in RuleStatus
  BY StatusType
<1> QED
  BY <1>1 DEF Fate, RuleStatus, Exists

LEMMA FateExistsNext ==
    ASSUME TypeOK', NEW r \in Rules
    PROVE  rules'[r].status \in Exists <=> Fate(r)' = "live"
<1>1. rules'[r].status \in RuleStatus
  BY DEF TypeOK, RuleRows
<1> QED
  BY <1>1 DEF Fate, RuleStatus, Exists

(* A stored event is one event of the contract.                            *)
LEMMA EmitIsContractStep ==
    ASSUME IInv, SpacingInv, NoOverlap, NoOverlap', [Next]_vars, Quiet,
           NEW p \in Processes, Emits(p)
    PROVE  Alarms!Next
<1> DEFINE on   == {k \in Keys : On(k)}
           last == [k \in Keys |-> LastOf(k)]
           fate == [r \in Rules |-> Fate(r)]
<1>1. Structure /\ Structure' /\ TypeOK
  BY IInvNext DEF IInv, Structure
<1>2. CreateEvent(p) /\ RuleRowExists(p) /\ eval[p].pc = "emit"
  BY <1>1, EmitsIsCreate DEF Emits
<1>3. PICK k \in Keys, at \in Nat, def \in Definitions :
        /\ k = KeyOf(eval[p].task) /\ at = eval[p].at /\ def = eval[p].task.def
        /\ k[1] = eval[p].task.rule /\ k[1] \in Rules /\ def.cooldown \in Nat
        /\ rows[k] \in Instances(Times) /\ rows[k].last =< at
        /\ eval[p].verdict = Verdict(rows[k], eval[p].breach, def, at)
  BY <1>1, <1>2, EmitsFromRow, EvalFacts, TaskFacts
<1>4. rules' = rules /\ eval' = [eval EXCEPT ![p].pc = "dispatch"]
  BY <1>2 DEF CreateEvent
<1>5. fate' = fate /\ fate[k[1]] = "live"
  BY <1>2, <1>3, <1>4 DEF Fate, RuleRowExists
<1>6. (On(k) <=> rows[k].state = "triggered") /\ LastOf(k) = rows[k].last
  <2>1. ASSUME NEW q \in Processes, Holds(q, k)
        PROVE  FALSE
    BY <1>2, <1>3, <2>1 DEF NoOverlap, Holds, HasEmitted
  <2> QED
    BY <2>1, RowOn
<1>7. (On(k)' <=> eval[p].verdict \in AlarmTypes) /\ LastOf(k)' = at
  <2>1. /\ eval'[p].pc = "dispatch" /\ eval'[p].task = eval[p].task /\ eval'[p].at = at
        /\ eval'[p].verdict = eval[p].verdict /\ eval[p].verdict \in EventTypes
    BY <1>1, <1>2, <1>3, <1>4 DEF TypeOK, Evaluations
  <2>2. Holds(p, k)'
    BY <1>2, <1>3, <1>4, <2>1 DEF Holds, HasEmitted, RuleRowExists
  <2> QED
    BY <2>1, <2>2, HeldOnNext
<1>8. ASSUME NEW x \in Keys, x # k
      PROVE  (On(x)' <=> On(x)) /\ LastOf(x)' = LastOf(x)
  <2>1. CASE rules'[x[1]].status \in Exists
    <3>1. ASSUME NEW q \in Processes, Emits(q)
          PROVE  KeyOf(eval[q].task) # x
      <4>1. q = p
        BY <1>1, <1>4, <3>1 DEF Emits, TypeOK
      <4> QED
        BY <1>3, <1>8, <4>1
    <3> QED
      BY <2>1, <3>1, AlarmStays
  <2>2. CASE rules'[x[1]].status \notin Exists
    BY <1>1, <1>4, <2>2, NoRuleNoAlarm, NoRuleNoAlarmNext
  <2> QED
    BY <2>1, <2>2
<1>9. last' = [last EXCEPT ![k] = at]
  BY <1>7, <1>8
<1>10. on' = IF eval[p].verdict \in AlarmTypes THEN on \cup {k} ELSE on \ {k}
  BY <1>7, <1>8
<1>11. last[k] = rows[k].last /\ (k \in on <=> rows[k].state = "triggered")
  BY <1>6
<1> HIDE DEF on, last, fate
<1>12. eval[p].verdict \in EventTypes
  BY <1>1, <1>2 DEF TypeOK, Evaluations
<1>13. CASE eval[p].verdict \in AlarmTypes
  <2>1. CooledDown(rows[k], def, at)
    BY <1>3, <1>13 DEF Verdict, AlarmTypes
  <2>2. last[k] = 0 \/ \E c \in {d.cooldown : d \in Definitions} : last[k] + c < at
    <3>1. rows[k].last \in Nat
      BY <1>3 DEF Instances, Times
    <3>2. rows[k].last = 0 \/ rows[k].last + def.cooldown < at
      BY <1>3, <2>1, <3>1 DEF CooledDown, ZeroTime
    <3> QED
      BY <1>11, <3>2
  <2>3. CASE eval[p].verdict = "triggered"
    <3>1. rows[k].state = "pending"
      BY <1>3, <2>3 DEF Verdict
    <3>2. k \notin on /\ on' = on \cup {k}
      BY <1>10, <1>11, <1>13, <3>1
    <3>3. Alarms!Raise(k, at)
      BY <1>5, <1>9, <2>2, <3>2
         DEF Alarms!Raise, Alarms!EventAt, Alarms!CooledDown, on, last, fate
    <3> QED
      BY <3>3 DEF Alarms!Next
  <2>4. CASE eval[p].verdict = "continuing"
    <3>1. rows[k].state = "triggered"
      BY <1>3, <2>4 DEF Verdict
    <3>2. k \in on /\ on' = on
      BY <1>10, <1>11, <1>13, <3>1
    <3>3. Alarms!Continue(k, at)
      BY <1>5, <1>9, <2>2, <3>2
         DEF Alarms!Continue, Alarms!EventAt, Alarms!CooledDown, on, last, fate
    <3> QED
      BY <3>3 DEF Alarms!Next
  <2> QED
    BY <1>13, <2>3, <2>4 DEF AlarmTypes
<1>14. CASE eval[p].verdict \notin AlarmTypes
  <2>1. on' = on \ {k} /\ last[k] =< at
    BY <1>3, <1>10, <1>11, <1>14
  <2>2. Alarms!Recover(k, at)
    BY <1>5, <1>9, <2>1 DEF Alarms!Recover, Alarms!EventAt, on, last, fate
  <2> QED
    BY <2>2 DEF Alarms!Next
<1> QED
  BY <1>13, <1>14

LEMMA ContractStep ==
    ASSUME IInv, SpacingInv, NoOverlap, NoOverlap', [Next]_vars, Quiet
    PROVE  [Alarms!Next]_(Alarms!contractVars)
<1> DEFINE on   == {k \in Keys : On(k)}
           last == [k \in Keys |-> LastOf(k)]
           fate == [r \in Rules |-> Fate(r)]
<1>1. Structure /\ Structure' /\ TypeOK /\ TypeOK'
  BY IInvNext DEF IInv, Structure
<1>2. CASE \E p \in Processes : Emits(p)
  BY <1>2, EmitIsContractStep
<1>3. CASE ~\E p \in Processes : Emits(p)
  <2>1. ASSUME NEW k \in Keys, Fate(k[1])' = "live"
        PROVE  (On(k)' <=> On(k)) /\ LastOf(k)' = LastOf(k)
    <3>1. rules'[k[1]].status \in Exists
      BY <1>1, <2>1, FateExistsNext DEF Keys
    <3> QED
      BY <1>3, <3>1, AlarmStays
  <2>2. ASSUME NEW k \in Keys, Fate(k[1]) # "live"
        PROVE  ~On(k) /\ LastOf(k) = 0
    BY <1>1, <2>2, NoRuleNoAlarm, FateExists DEF Keys
  <2>3. ASSUME NEW k \in Keys, Fate(k[1])' # "live"
        PROVE  ~On(k)' /\ LastOf(k)' = 0
    BY <1>1, <2>3, NoRuleNoAlarmNext, FateExistsNext DEF Keys
  <2>4. ASSUME NEW k \in Keys, Fate(k[1])' = Fate(k[1]) \/ Fate(k[1]) # "live"
        PROVE  (On(k)' <=> On(k)) /\ LastOf(k)' = LastOf(k)
    <3>1. CASE Fate(k[1])' = "live"
      BY <2>1, <3>1
    <3>2. CASE Fate(k[1])' # "live"
      <4>1. Fate(k[1]) # "live"
        BY <2>4, <3>2
      <4> QED
        BY <2>2, <2>3, <3>2, <4>1
    <3> QED
      BY <3>1, <3>2
  <2>5. \A k \in Keys : k[1] \in Rules
    BY DEF Keys
  <2>6. CASE \A r \in Rules : Fate(r)' = Fate(r)
    <3>1. on' = on /\ last' = last /\ fate' = fate
      BY <2>4, <2>5, <2>6
    <3> QED
      BY <3>1 DEF Alarms!contractVars
  <2>7. ASSUME NEW r \in Rules, Fate(r) = "unused", Fate(r)' = "live",
               \A x \in Rules : x # r => Fate(x)' = Fate(x)
        PROVE  Alarms!Next
    <3>1. ASSUME NEW k \in Keys
          PROVE  (On(k)' <=> On(k)) /\ LastOf(k)' = LastOf(k)
      <4>1. Fate(k[1])' = Fate(k[1]) \/ Fate(k[1]) # "live"
        BY <2>5, <2>7
      <4> QED
        BY <2>4, <4>1
    <3>2. on' = on /\ last' = last
      BY <3>1
    <3>3. fate' = [fate EXCEPT ![r] = "live"]
      BY <2>7
    <3>4. Alarms!Create(r)
      BY <2>7, <3>2, <3>3 DEF Alarms!Create
    <3> QED
      BY <3>4 DEF Alarms!Next
  <2>8. ASSUME NEW r \in Rules, Fate(r) = "live", Fate(r)' = "deleted",
               \A x \in Rules : x # r => Fate(x)' = Fate(x)
        PROVE  Alarms!Next
    <3>1. ASSUME NEW k \in Keys, k[1] # r
          PROVE  (On(k)' <=> On(k)) /\ LastOf(k)' = LastOf(k)
      BY <2>4, <2>5, <2>8, <3>1
    <3>2. ASSUME NEW k \in Keys, k[1] = r
          PROVE  ~On(k)' /\ LastOf(k)' = 0
      BY <2>3, <2>8, <3>2
    <3>3. on' = {k \in on : k[1] # r}
      BY <3>1, <3>2
    <3>4. last' = [k \in Keys |-> IF k[1] = r THEN 0 ELSE last[k]]
      BY <3>1, <3>2
    <3>5. fate' = [fate EXCEPT ![r] = "deleted"]
      BY <2>8
    <3>6. Alarms!Delete(r)
      BY <2>8, <3>3, <3>4, <3>5 DEF Alarms!Delete
    <3> QED
      BY <3>6 DEF Alarms!Next
  <2> QED
    BY <1>1, <2>6, <2>7, <2>8, FateStep
<1> QED
  BY <1>2, <1>3

LEMMA ContractInit == Init => Alarms!Init
<1> SUFFICES ASSUME Init PROVE Alarms!Init
  OBVIOUS
<1>1. \A r \in Rules : Fate(r) = "unused"
  BY DEF Init, Fate, Exists
<1>2. \A k \in Keys, p \in Processes : ~Holds(p, k)
  BY DEF Init, Holds, HasEmitted, Idle
<1>3. \A k \in Keys : ~On(k) /\ LastOf(k) = 0
  BY <1>2, RowOn DEF Init, NormalInstance, ZeroTime
<1> QED
  BY <1>1, <1>3 DEF Alarms!Init

(* Under the same conditions the evaluator keeps AlarmContract: what its   *)
(* statements do one by one is, key by key, an alarm that is raised, goes  *)
(* on and recovers, and is forgotten with its rule only.                   *)
THEOREM ImplementsAlarmContract == Spec /\ Undisturbed => Alarms!Spec
<1>1. IInv /\ SpacingInv /\ NoOverlap /\ NoOverlap' /\ [Next]_vars /\ [Quiet]_vars
          => [Alarms!Next]_(Alarms!contractVars)
  <2> SUFFICES ASSUME IInv, SpacingInv, NoOverlap, NoOverlap', [Next]_vars, [Quiet]_vars
               PROVE  [Alarms!Next]_(Alarms!contractVars)
    OBVIOUS
  <2>1. Quiet
    BY DEF Quiet, vars, HasEmitted
  <2> QED
    BY <2>1, ContractStep
<1> QED
  BY <1>1, SpacingHolds, ContractInit, PTL DEF Spec, Undisturbed, Alarms!Spec
-----------------------------------------------------------------------------
(* The last two conditions in terms of what happens to the process: they   *)
(* are met as long as no fault has occurred and no request that updates or *)
(* disables a rule is under way, whatever the number of goroutines.        *)
RulesKept ==
    \A q \in Requests : request[q].pc # "idle" => request[q].kind \notin {"update", "disable"}

(* A request that is not of these writes to enable, or resets a rule gone. *)
RequestsInOrder ==
    \A q \in Requests :
        /\ request[q].pc = "write" => request[q].kind \in {"update", "disable", "enable"}
        /\ request[q].pc = "reset" /\ request[q].kind \notin {"update", "disable"} =>
               rules[request[q].rule].status = "deleted"

LEMMA NextRequestsInOrder ==
    ASSUME Structure, RequestsInOrder, [Next]_vars
    PROVE  RequestsInOrder'
<1>1. TypeOK /\ TypeOK' /\ RuleFates
  BY TypeNext, RulesStep DEF Structure
<1>2. ASSUME UNCHANGED request
      PROVE  RequestsInOrder'
  <2> SUFFICES ASSUME NEW q \in Requests, request[q].pc = "reset",
                      request[q].kind \notin {"update", "disable"}
               PROVE  rules'[request[q].rule].status = "deleted"
    BY <1>2 DEF RequestsInOrder
  <2>1. request[q].rule \in Rules
    BY <1>1 DEF TypeOK, RequestStates
  <2> QED
    BY <1>1, <2>1 DEF RequestsInOrder, RuleFates
<1>3. ASSUME NEW q \in Requests, BeginUpdate(q) \/ BeginSetEnabled(q)
      PROVE  RequestsInOrder'
  BY <1>1, <1>3 DEF BeginUpdate, BeginSetEnabled, RequestsInOrder, TypeOK
<1>4. ASSUME NEW q \in Requests, DeleteRule(q)
      PROVE  RequestsInOrder'
  <2>1. PICK r \in Rules :
          /\ rules' = [rules EXCEPT ![r].status = "deleted"]
          /\ request' = [request EXCEPT ![q] =
                 [pc |-> "reset", rule |-> r, kind |-> "delete", copy |-> None]]
    BY <1>4 DEF DeleteRule
  <2> SUFFICES ASSUME NEW x \in Requests
               PROVE  /\ request'[x].pc = "write" =>
                             request'[x].kind \in {"update", "disable", "enable"}
                      /\ request'[x].pc = "reset" /\ request'[x].kind \notin {"update", "disable"}
                             => rules'[request'[x].rule].status = "deleted"
    BY DEF RequestsInOrder
  <2>2. CASE x = q
    BY <1>1, <2>1, <2>2 DEF TypeOK, RuleRows
  <2>3. CASE x # q
    <3>1. request'[x] = request[x] /\ (request[x].pc # "idle" => request[x].rule \in Rules)
      BY <1>1, <2>1, <2>3 DEF TypeOK, RequestStates
    <3> QED
      BY <1>1, <3>1 DEF RequestsInOrder, RuleFates
  <2> QED
    BY <2>2, <2>3
<1>5. ASSUME NEW q \in Requests, WriteRule(q)
      PROVE  RequestsInOrder'
  <2> SUFFICES ASSUME NEW x \in Requests
               PROVE  /\ request'[x].pc = "write" =>
                             request'[x].kind \in {"update", "disable", "enable"}
                      /\ request'[x].pc = "reset" /\ request'[x].kind \notin {"update", "disable"}
                             => rules'[request'[x].rule].status = "deleted"
    BY DEF RequestsInOrder
  <2>1. CASE x = q
    <3>1. request[q].pc = "write" /\ request[q].kind \in {"update", "disable", "enable"}
      BY <1>5 DEF WriteRule, RequestsInOrder
    <3>2. \/ request'[q] = NoRequest
          \/ /\ request[q].kind # "enable"
             /\ request'[q] = [request[q] EXCEPT !.pc = "reset"]
      BY <1>1, <1>5 DEF WriteRule, Reset, TypeOK
    <3> QED
      BY <1>1, <2>1, <3>1, <3>2 DEF NoRequest, TypeOK, RequestStates
  <2>2. CASE x # q
    <3>1. request'[x] = request[x] /\ (request[x].pc # "idle" => request[x].rule \in Rules)
      BY <1>1, <1>5, <2>2 DEF WriteRule, Reset, TypeOK, RequestStates
    <3> QED
      BY <1>1, <3>1 DEF RequestsInOrder, RuleFates
  <2> QED
    BY <2>1, <2>2
<1>6. ASSUME NEW q \in Requests, ResetStates(q) \/ RequestFails(q)
      PROVE  RequestsInOrder'
  BY <1>1, <1>6 DEF ResetStates, RequestFails, RequestsInOrder, TypeOK, NoRequest
<1>7. CASE Crash
  BY <1>7 DEF Crash, RequestsInOrder, NoRequest
<1> QED
  BY <1>2, <1>3, <1>4, <1>5, <1>6, <1>7
     DEF Next, vars, Environment, Tick, WindowMoves, Ingest, StartSweep, StartJob, JobFails,
         Evaluate, ReadWindow, LoadState, CreateEvent, Dispatch, SaveState, Fail,
         Administer, CreateRule

LEMMA InitRequestsInOrder == Init => RequestsInOrder
BY DEF Init, RequestsInOrder, NoRequest

Calm == NoOverlap /\ RulesKept /\ faults = 0

(* Then no evaluation is cut off and no state is reset under its rule.     *)
LEMMA CalmIsQuiet ==
    ASSUME IInv, RequestsInOrder, RulesKept, [Next]_vars, faults = 0, faults' = 0
    PROVE  Quiet
<1>1. Structure /\ TypeOK
  BY DEF IInv, Structure
<1>2. ~Crash /\ \A p \in Processes : ~Fail(p)
  BY DEF Crash, Fail
<1>3. ASSUME NEW k \in Keys, rows'[k] = NormalInstance, rows[k] # NormalInstance,
             rules'[k[1]].status \in Exists
      PROVE  FALSE
  <2>1. ASSUME NEW p \in Processes, SaveState(p)
        PROVE  FALSE
    <3>1. SavesKey(p, k)
      BY <1>1, <1>3, <2>1 DEF SaveState, TypeOK, SavesKey
    <3>2. RuleRowExists(p) /\ rows'[k] = Applied(eval[p].inst, eval[p].verdict, eval[p].at)
      BY <1>1, <1>3, <3>1, RowSaved
    <3>3. /\ eval[p].inst \in Instances(Times)
          /\ eval[p].verdict = Verdict(eval[p].inst, eval[p].breach, eval[p].task.def, eval[p].at)
          /\ eval[p].verdict \in EventTypes \cup {"armed"}
      BY <1>1, <2>1, EvalFacts DEF IInv, Carries, SaveState
    <3>4. eval[p].verdict = "continuing" => eval[p].inst.state = "triggered"
      BY <3>3 DEF Verdict
    <3>5. PICK i \in Instances(Times) : i = eval[p].inst
      BY <3>3
    <3>6. rows'[k].state # "normal"
      BY <3>2, <3>3, <3>4, <3>5 DEF Applied, EventTypes, Instances
    <3> QED
      BY <1>3, <3>6 DEF NormalInstance
  <2>2. ASSUME NEW q \in Requests, DeleteRule(q)
        PROVE  FALSE
    <3>1. PICK r \in Rules : rules' = [rules EXCEPT ![r].status = "deleted"] /\ rows' = RowsReset(r)
      BY <2>2 DEF DeleteRule
    <3>2. k[1] = r
      BY <1>3, <3>1 DEF RowsReset
    <3> QED
      BY <1>1, <1>3, <3>1, <3>2 DEF TypeOK, Exists, RuleRows
  <2>3. ASSUME NEW q \in Requests, ResetStates(q)
        PROVE  FALSE
    <3>1. rules[request[q].rule].status = "deleted"
      BY <2>3 DEF ResetStates, RequestsInOrder, RulesKept
    <3>2. k[1] = request[q].rule
      BY <1>3, <2>3 DEF ResetStates, RowsReset
    <3> QED
      BY <1>1, <1>3, <3>1, <3>2 DEF Structure, DeletedRuleLeavesNoState, Exists
  <2>4. rows' # rows
    BY <1>3
  <2> QED
    BY <1>2, <2>1, <2>2, <2>3, <2>4
       DEF Next, vars, Environment, Tick, WindowMoves, Ingest, StartSweep, StartJob, JobFails,
           Evaluate, ReadWindow, LoadState, CreateEvent, Dispatch,
           Administer, CreateRule, BeginUpdate, BeginSetEnabled, WriteRule, RequestFails
<1>4. ASSUME NEW p \in Processes, HasEmitted(p), eval'[p].pc = "idle"
      PROVE  SaveState(p)
  <2>1. eval[p].pc \in {"dispatch", "save"}
    BY <1>4 DEF HasEmitted
  <2>2. ASSUME NEW x \in Processes, SaveState(x)
        PROVE  x = p
    BY <1>1, <1>4, <2>1, <2>2 DEF SaveState, Abandon, TypeOK
  <2>3. ASSUME NEW x \in Processes, ReadWindow(x) \/ LoadState(x) \/ CreateEvent(x)
        PROVE  FALSE
    <3>1. x # p
      BY <2>1, <2>3 DEF ReadWindow, LoadState, CreateEvent
    <3>2. eval'[p] = eval[p]
      BY <1>1, <2>3, <3>1 DEF ReadWindow, LoadState, CreateEvent, Abandon, TypeOK
    <3> QED
      BY <1>4, <2>1, <3>2
  <2>4. ASSUME NEW x \in Processes, Dispatch(x)
        PROVE  FALSE
    BY <1>1, <1>4, <2>1, <2>4 DEF Dispatch, TypeOK
  <2>5. eval' # eval
    BY <1>4, <2>1
  <2> QED
    BY <1>2, <2>2, <2>3, <2>4, <2>5
       DEF Next, vars, Environment, Tick, WindowMoves, Ingest, StartSweep, StartJob, JobFails,
           Evaluate, Administer, CreateRule, BeginUpdate, BeginSetEnabled, WriteRule,
           DeleteRule, ResetStates, RequestFails
<1> QED
  BY <1>3, <1>4 DEF Quiet

LEMMA CalmIsUndisturbed == Spec /\ []Calm => Undisturbed
<1>1. IInv /\ RequestsInOrder /\ [Next]_vars => RequestsInOrder'
  BY NextRequestsInOrder DEF IInv
<1>2. IInv /\ RequestsInOrder /\ Calm /\ Calm' /\ [Next]_vars => [Quiet]_vars
  <2>1. Calm' => faults' = 0
    BY DEF Calm
  <2> QED
    BY <2>1, CalmIsQuiet DEF Calm
<1>3. Calm => NoOverlap
  BY DEF Calm
<1> QED
  BY <1>1, <1>2, <1>3, IInit, IInvNext, InitRequestsInOrder, PTL DEF Spec, Undisturbed

(* In a behaviour without a fault in which rules are only created, enabled *)
(* and deleted, any number of evaluation goroutines that never meet on a   *)
(* rule and a device keep the promise of an alarm: spaced by the cooldown, *)
(* no two triggers without a recovery, and the contract they add up to.    *)
THEOREM CalmKeepsThePromise ==
    Spec /\ []Calm => SpacedByCooldown /\ TriggersAreSeparated /\ Alarms!Spec
BY CalmIsUndisturbed, AlarmsAreSpaced, AlarmsRecoverBetween, ImplementsAlarmContract
=============================================================================
