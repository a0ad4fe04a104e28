--------------------------- MODULE EvaluatorProofs ---------------------------
(***************************************************************************)
(* Proofs about Evaluator, for every number of rules, devices, goroutines, *)
(* requests, faults and ticks.                                             *)
(*                                                                         *)
(* The safety invariants are statements about the tables.  What keeps them *)
(* true is what each goroutine carries from one statement to the next, so  *)
(* the inductive invariant adds a clause on every evaluation in flight.    *)
(***************************************************************************)
EXTENDS Evaluator, FiniteSetTheorems, TLAPS

(* What an evaluation works on was an existing rule when it was listed.    *)
WorkIsListed ==
    \A p \in Processes :
        /\ \A t \in tasks[p] : rules[t.rule].status # "unused"
        /\ eval[p].pc # "idle" => rules[eval[p].task.rule].status # "unused"

CopiesExist ==
    \A q \in Requests : request[q].pc = "write" => request[q].copy.status \in Exists

SinceABreach(k, inst) ==
    inst.state = "pending" => [key |-> k, at |-> inst.since] \in breached

RowsHaveBreach == \A k \in Keys : SinceABreach(k, rows[k])

HasEvent(k, inst) == inst.last # ZeroTime => EventOf(k, inst)

(* The evaluation in flight carries a breach that was read, an instance    *)
(* that was backed by an event, a verdict taken on them, and past          *)
(* CreateEvent an event that is still there unless its rule is gone.       *)
Carries(p) ==
    LET e == eval[p]
        k == KeyOf(e.task)
        ruleExists == rules[e.task.rule].status \in Exists
    IN  /\ e.pc # "idle" /\ e.breach => [key |-> k, at |-> e.at] \in breached
        /\ e.pc \in {"emit", "dispatch", "save"} =>
              /\ e.verdict = Verdict(e.inst, e.breach, e.task.def, e.at)
              /\ SinceABreach(k, e.inst)
              /\ ruleExists => HasEvent(k, e.inst)
        /\ e.pc \in {"emit", "dispatch"} => e.verdict \in EventTypes
        /\ e.pc = "save" => e.verdict \in EventTypes \cup {"armed"}
        /\ e.pc \in {"dispatch", "save"} /\ e.verdict \in EventTypes /\ ruleExists =>
              EmittedEvent(e) \in events
-----------------------------------------------------------------------------
(* The operators of AlertRules and Evaluator stay in their types.          *)

LEMMA TaskFacts ==
    ASSUME NEW t \in Tasks
    PROVE  /\ t.rule \in Rules /\ t.device \in Devices /\ t.def \in Definitions
           /\ t.def.metric \in Metrics /\ t.def.duration \in Nat /\ t.def.cooldown \in Nat
           /\ KeyOf(t) \in Keys
           /\ KeyOf(t)[1] = t.rule
BY ConstantsAssumption DEF Tasks, KeyOf, Keys, DefinitionFields

LEMMA NormalInstanceType == NormalInstance \in Instances(Times)
BY ConstantsAssumption DEF NormalInstance, Instances, InstanceStates, Times, ZeroTime

LEMMA LoadedType ==
    ASSUME NEW row \in Instances(Times)
    PROVE  Loaded(row) \in Instances(Times)
BY NormalInstanceType DEF Loaded

LEMMA VerdictType ==
    ASSUME NEW inst, NEW breach, NEW def, NEW at
    PROVE  Verdict(inst, breach, def, at) \in Verdicts
BY DEF Verdict, Verdicts, EventTypes

LEMMA AppliedType ==
    ASSUME NEW inst \in Instances(Times), NEW verdict, NEW at \in Times
    PROVE  Applied(inst, verdict, at) \in Instances(Times)
BY DEF Applied, Instances, InstanceStates

LEMMA BreachesType ==
    ASSUME NEW value, NEW def
    PROVE  Breaches(value, def) \in BOOLEAN
BY DEF Breaches

LEMMA EmittedEventType ==
    ASSUME NEW e \in Evaluations, e.pc \in {"emit", "dispatch"}
    PROVE  EmittedEvent(e) \in Events
<1>1. e.task \in Tasks /\ e.at \in Times /\ e.verdict \in EventTypes
  BY DEF Evaluations
<1>2. KeyOf(e.task) \in Keys /\ e.task.def \in Definitions
  BY <1>1, TaskFacts
<1> QED
  BY <1>1, <1>2 DEF EmittedEvent, Event, Events

LEMMA IdleType == Idle \in Evaluations
BY NormalInstanceType, ConstantsAssumption
   DEF Idle, Evaluations, Times, ZeroTime, Verdicts, EventTypes

LEMMA EnabledTasksType == \A ds : EnabledTasks(ds) \subseteq Tasks
BY DEF EnabledTasks

LEMMA AbandonType ==
    ASSUME TypeOK, NEW p \in Processes, Abandon(p)
    PROVE  /\ tasks' \in [Processes -> SUBSET Tasks]
           /\ eval' \in [Processes -> Evaluations]
BY IdleType DEF TypeOK, Abandon, Idle

LEMMA RowsResetType ==
    ASSUME TypeOK, NEW r
    PROVE  RowsReset(r) \in [Keys -> Instances(Times)]
BY NormalInstanceType DEF TypeOK, RowsReset

(* The type invariant holds at first, and every action keeps it.           *)
LEMMA TypeInit == Init => TypeOK
BY ConstantsAssumption, NormalInstanceType, IdleType
   DEF Init, TypeOK, Times, ZeroTime, RuleRows, RuleStatus, RequestStates,
       NoRequest, Idle

LEMMA TypeNext == TypeOK /\ [Next]_vars => TypeOK'
<1> SUFFICES ASSUME TypeOK, [Next]_vars PROVE TypeOK'
  OBVIOUS
<1> USE ConstantsAssumption
<1>1. CASE Environment
  <2>1. CASE Tick
    BY <2>1 DEF TypeOK, Tick, Times, ZeroTime
  <2>2. ASSUME NEW d \in Devices, NEW m \in Metrics, WindowMoves(d, m)
        PROVE  TypeOK'
    BY <2>2 DEF TypeOK, WindowMoves
  <2>3. ASSUME NEW d \in Devices, NEW m \in Metrics, Ingest(d, m)
        PROVE  TypeOK'
    BY <2>3 DEF TypeOK, Ingest, EvaluateDevice
  <2> QED
    BY <1>1, <2>1, <2>2, <2>3 DEF Environment
<1>2. CASE StartSweep
  BY <1>2, EnabledTasksType DEF TypeOK, StartSweep, Processes
<1>3. ASSUME NEW w \in Workers, StartJob(w)
      PROVE  TypeOK'
  BY <1>3, EnabledTasksType DEF TypeOK, StartJob, Processes
<1>4. ASSUME NEW w \in Workers, JobFails(w)
      PROVE  TypeOK'
  BY <1>4 DEF TypeOK, JobFails
<1>5. ASSUME NEW p \in Processes, ReadWindow(p)
      PROVE  TypeOK'
  <2>1. PICK t \in tasks[p] :
          /\ tasks' = [tasks EXCEPT ![p] = @ \ {t}]
          /\ eval' = [eval EXCEPT ![p] =
                 [Idle EXCEPT !.pc = "load", !.task = t, !.at = clock,
                     !.breach = Breaches(reading[<<t.device, t.def.metric>>], t.def)]]
          /\ breached' \subseteq breached \cup {[key |-> KeyOf(t), at |-> clock]}
    BY <1>5 DEF ReadWindow
  <2>2. t \in Tasks /\ t # None
    BY <2>1 DEF TypeOK, Tasks
  <2>3. [Idle EXCEPT !.pc = "load", !.task = t, !.at = clock,
            !.breach = Breaches(reading[<<t.device, t.def.metric>>], t.def)] \in Evaluations
    <3>1. Breaches(reading[<<t.device, t.def.metric>>], t.def) \in BOOLEAN
      BY BreachesType
    <3>2. clock \in Times
      BY DEF TypeOK
    <3> QED
      BY <3>1, <3>2, <2>2, IdleType DEF Evaluations, Idle
  <2> QED
    BY <1>5, <2>1, <2>2, <2>3, TaskFacts DEF TypeOK, ReadWindow
<1>6. ASSUME NEW p \in Processes, LoadState(p)
      PROVE  TypeOK'
  <2> DEFINE e == eval[p]
             inst == Loaded(rows[KeyOf(e.task)])
             verdict == Verdict(inst, e.breach, e.task.def, e.at)
  <2>1. e \in Evaluations /\ e.task \in Tasks /\ e.task # None
    BY <1>6 DEF TypeOK, LoadState, Evaluations
  <2>2. inst \in Instances(Times)
    BY <2>1, TaskFacts, LoadedType DEF TypeOK
  <2>3. verdict \in Verdicts
    BY VerdictType
  <2>8. verdict \notin {"none", "armed"} => verdict \in EventTypes
    BY <2>3 DEF Verdicts
  <2>4. /\ UNCHANGED <<clock, reading, rules, rows, events, notified, jobs,
                       tasks, request, faults, edits, breached>>
        /\ \/ eval' = [eval EXCEPT ![p] = Idle]
           \/ eval' = [eval EXCEPT ![p] = [e EXCEPT !.pc = "save", !.inst = inst,
                                                      !.verdict = verdict]]
           \/ /\ eval' = [eval EXCEPT ![p] = [e EXCEPT !.pc = "emit", !.inst = inst,
                                                         !.verdict = verdict]]
              /\ verdict \notin {"none", "armed"}
    BY <1>6 DEF LoadState
  <2> HIDE DEF inst, verdict
  <2>5. /\ [e EXCEPT !.pc = "save", !.inst = inst, !.verdict = verdict] \in Evaluations
        /\ verdict \in EventTypes =>
             [e EXCEPT !.pc = "emit", !.inst = inst, !.verdict = verdict] \in Evaluations
    BY <2>1, <2>2, <2>3 DEF Evaluations
  <2>6. eval' \in [Processes -> Evaluations]
    BY <2>4, <2>5, <2>8, IdleType DEF TypeOK
  <2> QED
    BY <2>4, <2>6 DEF TypeOK
<1>7. ASSUME NEW p \in Processes, CreateEvent(p)
      PROVE  TypeOK'
  <2>1. CASE RuleRowExists(p)
    <3>1. eval[p] \in Evaluations /\ eval[p].pc = "emit"
      BY <1>7 DEF TypeOK, CreateEvent
    <3>2. EmittedEvent(eval[p]) \in Events
      BY <3>1, EmittedEventType
    <3>3. [eval[p] EXCEPT !.pc = "dispatch"] \in Evaluations
      BY <3>1 DEF Evaluations
    <3>4. /\ eval' = [eval EXCEPT ![p] = [eval[p] EXCEPT !.pc = "dispatch"]]
          /\ events' = events \cup {EmittedEvent(eval[p])}
      BY <1>7, <2>1 DEF CreateEvent
    <3>5. eval' \in [Processes -> Evaluations]
      BY <3>3, <3>4 DEF TypeOK
    <3> QED
      BY <1>7, <2>1, <3>2, <3>4, <3>5 DEF TypeOK, CreateEvent
  <2>2. CASE ~RuleRowExists(p)
    BY <1>7, <2>2, AbandonType DEF TypeOK, CreateEvent
  <2> QED
    BY <2>1, <2>2
<1>8. ASSUME NEW p \in Processes, Dispatch(p)
      PROVE  TypeOK'
  <2>1. /\ [eval[p] EXCEPT !.pc = "save"] \in Evaluations
        /\ eval' = [eval EXCEPT ![p] = [eval[p] EXCEPT !.pc = "save"]]
    BY <1>8 DEF TypeOK, Dispatch, Evaluations
  <2>2. eval' \in [Processes -> Evaluations]
    BY <2>1 DEF TypeOK
  <2>3. notified' \subseteq events' \X KnownChannels
    <3>1. PICK made \in SUBSET Outlets(EmittedEvent(eval[p])) :
             notified' = notified
                 \cup (({EmittedEvent(eval[p])} \cap events) \X made)
      BY <1>8 DEF Dispatch
    <3>2. made \subseteq KnownChannels /\ events' = events
      BY <1>8, <3>1 DEF Outlets, Dispatch
    <3> QED
      BY <3>1, <3>2 DEF TypeOK
  <2>4. faults' \in 0..MaxFaults
    <3>1. faults' = faults \/ (faults < MaxFaults /\ faults' = faults + 1)
      BY <1>8 DEF Dispatch
    <3> QED
      BY <3>1, ConstantsAssumption DEF TypeOK
  <2> QED
    BY <1>8, <2>2, <2>3, <2>4 DEF TypeOK, Dispatch
<1>9. ASSUME NEW p \in Processes, SaveState(p)
      PROVE  TypeOK'
  <2>1. CASE RuleRowExists(p)
    <3>1. /\ KeyOf(eval[p].task) \in Keys
          /\ eval[p].inst \in Instances(Times)
          /\ eval[p].at \in Times
      BY <1>9, TaskFacts DEF TypeOK, SaveState, Evaluations
    <3>2. Applied(eval[p].inst, eval[p].verdict, eval[p].at) \in Instances(Times)
      BY <3>1, AppliedType
    <3>3. /\ rows' = [rows EXCEPT ![KeyOf(eval[p].task)] =
                          Applied(eval[p].inst, eval[p].verdict, eval[p].at)]
          /\ eval' = [eval EXCEPT ![p] = Idle]
      BY <1>9, <2>1 DEF SaveState
    <3>4. /\ rows' \in [Keys -> Instances(Times)]
          /\ eval' \in [Processes -> Evaluations]
      BY <3>2, <3>3, IdleType DEF TypeOK
    <3> QED
      BY <1>9, <2>1, <3>4 DEF TypeOK, SaveState
  <2>2. CASE ~RuleRowExists(p)
    BY <1>9, <2>2, AbandonType DEF TypeOK, SaveState
  <2> QED
    BY <2>1, <2>2
<1>10. ASSUME NEW p \in Processes, Fail(p)
       PROVE  TypeOK'
  BY <1>10, AbandonType DEF TypeOK, Fail
<1>11. ASSUME NEW q \in Requests, Administer(q)
       PROVE  TypeOK'
  <2>1. CASE CreateRule(q)
    BY <2>1 DEF TypeOK, CreateRule, NewRequest, RuleRows, RuleStatus
  <2>2. CASE BeginUpdate(q)
    BY <2>2 DEF TypeOK, BeginUpdate, NewRequest, RuleRows, RequestStates
  <2>3. CASE BeginSetEnabled(q)
    <3>1. PICK r \in Rules, kind \in {"enable", "disable"} :
             request' = [request EXCEPT ![q] =
                [pc |-> "write", rule |-> r, kind |-> kind,
                 copy |-> [rules[r] EXCEPT !.status =
                     IF kind = "enable" THEN "enabled" ELSE "disabled"]]]
      BY <2>3 DEF BeginSetEnabled
    <3> DEFINE s == IF kind = "enable" THEN "enabled" ELSE "disabled"
               row == [rules[r] EXCEPT !.status = s]
               a == [pc |-> "write", rule |-> r, kind |-> kind, copy |-> row]
    <3>2. s \in RuleStatus /\ rules[r] \in RuleRows
      BY DEF TypeOK, RuleStatus
    <3>3. row \in RuleRows
      BY <3>2 DEF RuleRows
    <3>4. a \in RequestStates
      BY <3>3 DEF RequestStates
    <3>5. request' \in [Requests -> RequestStates]
      BY <3>1, <3>4 DEF TypeOK
    <3>6. edits' \in 0..MaxEdits
      BY <2>3, ConstantsAssumption DEF TypeOK, BeginSetEnabled, NewRequest
    <3> HIDE DEF s, row, a
    <3> QED
      BY <2>3, <3>5, <3>6 DEF TypeOK, BeginSetEnabled
  <2>4. CASE DeleteRule(q)
    <3>1. notified' \subseteq events' \X KnownChannels
      <4>1. PICK r \in Rules : /\ events' = WithoutRule(events, r)
                               /\ notified' = {n \in notified : n[1].key[1] # r}
        BY <2>4 DEF DeleteRule
      <4>2. ASSUME NEW n \in notified' PROVE n \in events' \X KnownChannels
        <5>1. n \in events \X KnownChannels /\ n[1].key[1] # r
          BY <4>1, <4>2 DEF TypeOK
        <5> QED
          BY <4>1, <5>1 DEF WithoutRule
      <4> QED
        BY <4>2
    <3>2. PICK r \in Rules :
             /\ rules' = [rules EXCEPT ![r].status = "deleted"]
             /\ rows' = RowsReset(r)
             /\ events' = WithoutRule(events, r)
             /\ request' = [request EXCEPT ![q] =
                    [pc |-> "reset", rule |-> r, kind |-> "delete", copy |-> None]]
      BY <2>4 DEF DeleteRule
    <3>3. rules' \in [Rules -> RuleRows]
      BY <3>2 DEF TypeOK, RuleRows, RuleStatus
    <3>4. request' \in [Requests -> RequestStates]
      BY <3>2 DEF TypeOK, RequestStates
    <3>5. rows' \in [Keys -> Instances(Times)] /\ events' \subseteq Events
      BY <3>2, RowsResetType DEF TypeOK, WithoutRule
    <3>6. edits' \in 0..MaxEdits
      BY <2>4, ConstantsAssumption DEF TypeOK, DeleteRule, NewRequest
    <3> QED
      BY <2>4, <3>1, <3>3, <3>4, <3>5, <3>6 DEF TypeOK, DeleteRule
  <2>5. CASE WriteRule(q)
    <3>1. request[q].rule \in Rules /\ request[q].copy \in RuleRows
      BY <2>5 DEF TypeOK, WriteRule, RequestStates
    <3>2. NoRequest \in RequestStates
      BY DEF NoRequest, RequestStates
    <3>3. [request[q] EXCEPT !.pc = "reset"] \in RequestStates
      BY <2>5 DEF TypeOK, WriteRule, RequestStates
    <3>4. /\ \/ rules' = [rules EXCEPT ![request[q].rule] = request[q].copy]
             \/ rules' = rules
          /\ \/ request' = [request EXCEPT ![q] = NoRequest]
             \/ request' = [request EXCEPT ![q] = [request[q] EXCEPT !.pc = "reset"]]
      BY <2>5 DEF WriteRule, Reset
    <3>5. rules' \in [Rules -> RuleRows] /\ request' \in [Requests -> RequestStates]
      BY <3>1, <3>2, <3>3, <3>4 DEF TypeOK
    <3> QED
      BY <2>5, <3>5 DEF TypeOK, WriteRule
  <2>6. CASE ResetStates(q)
    BY <2>6, RowsResetType DEF TypeOK, ResetStates, NoRequest, RequestStates
  <2>7. CASE RequestFails(q)
    BY <2>7 DEF TypeOK, RequestFails, NoRequest, RequestStates
  <2> QED
    BY <1>11, <2>1, <2>2, <2>3, <2>4, <2>5, <2>6, <2>7 DEF Administer
<1>12. CASE Crash
  BY <1>12, IdleType DEF TypeOK, Crash, Idle, RequestStates, NoRequest
<1>13. CASE UNCHANGED vars
  BY <1>13 DEF TypeOK, vars
<1> QED
  BY <1>1, <1>2, <1>3, <1>4, <1>5, <1>6, <1>7, <1>8, <1>9, <1>10, <1>11, <1>12, <1>13
     DEF Next, Evaluate

(* For any constants that meet ConstantsAssumption, the evaluator's state  *)
(* is well formed in every behaviour: the job queue within its capacity,   *)
(* and no goroutine emitting without a task or an event type.              *)
THEOREM TypeCorrect == Spec => []TypeOK
BY TypeInit, TypeNext, PTL DEF Spec
-----------------------------------------------------------------------------
(* Rule ids live once: unused, then existing, then deleted.                *)
RuleFates ==
    \A r \in Rules :
        /\ rules[r].status # "unused" => rules'[r].status # "unused"
        /\ rules[r].status = "deleted" => rules'[r].status = "deleted"

Structure == TypeOK /\ WorkIsListed /\ CopiesExist /\ DeletedRuleLeavesNoState

LEMMA StatusType == TypeOK => \A r \in Rules : rules[r].status \in RuleStatus
BY DEF TypeOK, RuleRows

LEMMA RulesStep ==
    ASSUME Structure, [Next]_vars
    PROVE  RuleFates /\ CopiesExist'
<1> USE DEF Structure, CopiesExist, RuleFates
<1>1. ASSUME UNCHANGED <<rules, request>>
      PROVE  RuleFates /\ CopiesExist'
  BY <1>1
<1>2. ASSUME NEW q \in Requests, CreateRule(q)
      PROVE  RuleFates /\ CopiesExist'
  BY <1>2 DEF TypeOK, CreateRule, NewRequest, RuleRows
<1>3. ASSUME NEW q \in Requests, BeginUpdate(q)
      PROVE  RuleFates /\ CopiesExist'
  BY <1>3 DEF TypeOK, BeginUpdate, NewRequest, RuleRows
<1>4. ASSUME NEW q \in Requests, BeginSetEnabled(q)
      PROVE  RuleFates /\ CopiesExist'
  BY <1>4 DEF TypeOK, BeginSetEnabled, NewRequest, RuleRows, Exists
<1>5. ASSUME NEW q \in Requests, DeleteRule(q)
      PROVE  RuleFates /\ CopiesExist'
  BY <1>5 DEF TypeOK, DeleteRule, NewRequest, RuleRows, Exists
<1>6. ASSUME NEW q \in Requests, WriteRule(q)
      PROVE  RuleFates /\ CopiesExist'
  <2>1. request[q].rule \in Rules /\ request[q].copy.status \in Exists
    BY <1>6 DEF TypeOK, WriteRule, RequestStates
  <2>2. \/ rules' = rules
        \/ /\ rules[request[q].rule].status \in Exists
           /\ rules' = [rules EXCEPT ![request[q].rule] = request[q].copy]
    BY <1>6 DEF WriteRule
  <2>3. RuleFates
    BY <2>1, <2>2 DEF TypeOK, Exists
  <2>4. CopiesExist'
    <3>1. \/ request' = [request EXCEPT ![q] = NoRequest]
          \/ request' = [request EXCEPT ![q] = [request[q] EXCEPT !.pc = "reset"]]
      BY <1>6 DEF WriteRule, Reset
    <3>2. ASSUME NEW x \in Requests, request'[x].pc = "write"
          PROVE  request'[x] = request[x]
      BY <3>1, <3>2 DEF TypeOK, NoRequest, RequestStates
    <3> QED
      BY <3>2
  <2> QED
    BY <2>3, <2>4
<1>7. ASSUME NEW q \in Requests, ResetStates(q) \/ RequestFails(q)
      PROVE  RuleFates /\ CopiesExist'
  BY <1>7 DEF TypeOK, ResetStates, RequestFails, NoRequest
<1>8. CASE Crash
  BY <1>8 DEF TypeOK, Crash, NoRequest
<1> QED
  BY <1>1, <1>2, <1>3, <1>4, <1>5, <1>6, <1>7, <1>8
     DEF Next, vars, Environment, Tick, WindowMoves, Ingest, StartSweep, StartJob,
         JobFails, Evaluate, ReadWindow, LoadState, CreateEvent, Dispatch, SaveState,
         Fail, Administer

(* What one step may do to the two alert tables and to the history.        *)
Saves(p, k) ==
    /\ eval[p].pc = "save"
    /\ k = KeyOf(eval[p].task)
    /\ rules[eval[p].task.rule].status \in Exists
    /\ rows'[k] = Applied(eval[p].inst, eval[p].verdict, eval[p].at)

TablesStep ==
    /\ breached \subseteq breached'
    /\ \A k \in Keys : \/ rows'[k] = rows[k]
                       \/ rows'[k] = NormalInstance
                       \/ \E p \in Processes : Saves(p, k)
    /\ \A e \in events : e \in events' \/ rules'[e.key[1]].status \notin Exists
    /\ \A e \in events' : \/ e \in events
                          \/ \E p \in Processes : /\ eval[p].pc = "emit"
                                                  /\ e = EmittedEvent(eval[p])

LEMMA TablesStepHolds ==
    ASSUME Structure, [Next]_vars
    PROVE  TablesStep
<1> USE DEF Structure
<1>1. ASSUME UNCHANGED <<rows, events>>, breached \subseteq breached'
      PROVE  TablesStep
  BY <1>1 DEF TablesStep
<1>2. ASSUME NEW p \in Processes, CreateEvent(p)
      PROVE  TablesStep
  BY <1>2 DEF CreateEvent, TablesStep
<1>3. ASSUME NEW p \in Processes, SaveState(p)
      PROVE  TablesStep
  <2>1. CASE RuleRowExists(p)
    <3>1. rows' = [rows EXCEPT ![KeyOf(eval[p].task)] =
                       Applied(eval[p].inst, eval[p].verdict, eval[p].at)]
      BY <1>3, <2>1 DEF SaveState
    <3>2. ASSUME NEW k \in Keys, rows'[k] # rows[k]
          PROVE  Saves(p, k)
      BY <1>3, <2>1, <3>1, <3>2 DEF TypeOK, SaveState, Saves, RuleRowExists
    <3> QED
      BY <1>3, <3>2 DEF SaveState, TablesStep
  <2>2. CASE ~RuleRowExists(p)
    BY <1>1, <1>3, <2>2 DEF SaveState
  <2> QED
    BY <2>1, <2>2
<1>4. ASSUME NEW q \in Requests, DeleteRule(q)
      PROVE  TablesStep
  BY <1>4 DEF TypeOK, DeleteRule, TablesStep, RowsReset, WithoutRule, Exists, RuleRows,
     Events, Keys
<1>5. ASSUME NEW q \in Requests, ResetStates(q)
      PROVE  TablesStep
  BY <1>5 DEF TypeOK, ResetStates, TablesStep, RowsReset
<1>6. ASSUME NEW p \in Processes, ReadWindow(p)
      PROVE  TablesStep
  BY <1>1, <1>6 DEF ReadWindow
<1> QED
  BY <1>1, <1>2, <1>3, <1>4, <1>5, <1>6
     DEF Next, vars, Environment, Tick, WindowMoves, Ingest, StartSweep, StartJob,
         JobFails, Evaluate, LoadState, Dispatch, Fail, Administer, CreateRule,
         BeginUpdate, BeginSetEnabled, WriteRule, RequestFails, Crash

(* What one step may do to the evaluations.                                *)
Reads(p) ==
    /\ eval[p].pc = "idle" /\ eval'[p].pc = "load"
    /\ eval'[p].task \in tasks[p]
    /\ eval'[p].breach => [key |-> KeyOf(eval'[p].task), at |-> eval'[p].at] \in breached'

Decides(p) ==
    LET e == eval[p]
        k == KeyOf(e.task)
        inst == Loaded(rows[k])
        verdict == Verdict(inst, e.breach, e.task.def, e.at)
        pc == IF verdict = "armed" THEN "save" ELSE "emit"
    IN  /\ e.pc = "load"
        /\ verdict # "none"
        /\ eval'[p] = [e EXCEPT !.pc = pc, !.inst = inst, !.verdict = verdict]

Creates(p) ==
    /\ eval[p].pc = "emit"
    /\ eval'[p] = [eval[p] EXCEPT !.pc = "dispatch"]
    /\ EmittedEvent(eval[p]) \in events'

Dispatches(p) ==
    /\ eval[p].pc = "dispatch"
    /\ eval'[p] = [eval[p] EXCEPT !.pc = "save"]

EvalStep(p) ==
    eval'[p] = eval[p] \/ eval'[p] = Idle \/ Reads(p) \/ Decides(p) \/ Creates(p) \/ Dispatches(p)

LEMMA EvalStepHolds ==
    ASSUME TypeOK, [Next]_vars
    PROVE  \A x \in Processes : EvalStep(x)
<1>1. ASSUME UNCHANGED eval
      PROVE  \A x \in Processes : EvalStep(x)
  BY <1>1 DEF EvalStep
<1>2. ASSUME NEW p \in Processes, ReadWindow(p)
      PROVE  \A x \in Processes : EvalStep(x)
  BY <1>2 DEF TypeOK, ReadWindow, EvalStep, Reads, Idle
<1>3. ASSUME NEW p \in Processes, LoadState(p)
      PROVE  \A x \in Processes : EvalStep(x)
  BY <1>3 DEF TypeOK, LoadState, EvalStep, Decides
<1>4. ASSUME NEW p \in Processes, Abandon(p)
      PROVE  \A x \in Processes : EvalStep(x)
  BY <1>4 DEF TypeOK, Abandon, EvalStep
<1>5. ASSUME NEW p \in Processes, CreateEvent(p)
      PROVE  \A x \in Processes : EvalStep(x)
  BY <1>4, <1>5 DEF TypeOK, CreateEvent, EvalStep, Creates
<1>6. ASSUME NEW p \in Processes, Dispatch(p)
      PROVE  \A x \in Processes : EvalStep(x)
  BY <1>6 DEF TypeOK, Dispatch, EvalStep, Dispatches
<1>7. ASSUME NEW p \in Processes, SaveState(p)
      PROVE  \A x \in Processes : EvalStep(x)
  BY <1>4, <1>7 DEF TypeOK, SaveState, EvalStep
<1>8. CASE Crash
  BY <1>8 DEF Crash, EvalStep
<1> QED
  BY <1>1, <1>2, <1>3, <1>4, <1>5, <1>6, <1>7, <1>8
     DEF Next, vars, Environment, Tick, WindowMoves, Ingest, StartSweep, StartJob,
         JobFails, Evaluate, Fail, Administer, CreateRule, BeginUpdate,
         BeginSetEnabled, DeleteRule, WriteRule, ResetStates, RequestFails

(* The work a goroutine has in hand was listed while its rule existed.     *)
LEMMA TasksStep ==
    ASSUME TypeOK, [Next]_vars
    PROVE  \A p \in Processes : \A t \in tasks'[p] :
               t \in tasks[p] \/ (t \in Tasks /\ rules[t.rule].status = "enabled")
<1> DEFINE Goal == \A p \in Processes : \A t \in tasks'[p] :
               t \in tasks[p] \/ (t \in Tasks /\ rules[t.rule].status = "enabled")
<1>1. ASSUME UNCHANGED tasks
      PROVE  Goal
  BY <1>1
<1>2. ASSUME NEW p \in Processes, ReadWindow(p)
      PROVE  Goal
  BY <1>2 DEF TypeOK, ReadWindow
<1>3. ASSUME NEW p \in Processes, Abandon(p)
      PROVE  Goal
  BY <1>3 DEF TypeOK, Abandon
<1>4. CASE StartSweep
  BY <1>4 DEF TypeOK, StartSweep, EnabledTasks, Processes
<1>5. ASSUME NEW w \in Workers, StartJob(w)
      PROVE  Goal
  BY <1>5 DEF TypeOK, StartJob, EnabledTasks, Processes
<1>6. CASE Crash
  BY <1>6 DEF Crash
<1> QED
  BY <1>1, <1>2, <1>3, <1>4, <1>5, <1>6
     DEF Next, vars, Environment, Tick, WindowMoves, Ingest, JobFails, Evaluate,
         LoadState, CreateEvent, Dispatch, SaveState, Fail, Administer, CreateRule,
         BeginUpdate, BeginSetEnabled, DeleteRule, WriteRule, ResetStates, RequestFails

LEMMA StructureInit == Init => Structure
BY TypeInit DEF Init, Structure, WorkIsListed, CopiesExist, DeletedRuleLeavesNoState,
   Idle, NoRequest

LEMMA StructureNext == Structure /\ [Next]_vars => Structure'
<1> SUFFICES ASSUME Structure, [Next]_vars PROVE Structure'
  OBVIOUS
<1>1. TypeOK /\ TypeOK'
  BY TypeNext DEF Structure
<1>2. RuleFates /\ CopiesExist'
  BY RulesStep
<1>3. WorkIsListed'
  <2>1. ASSUME NEW p \in Processes, NEW t \in tasks'[p]
        PROVE  rules'[t.rule].status # "unused"
    <3>1. t \in Tasks
      BY <1>1, <2>1 DEF TypeOK
    <3>2. rules[t.rule].status # "unused"
      BY <1>1, <2>1, TasksStep DEF Structure, WorkIsListed
    <3> QED
      BY <1>2, <3>1, <3>2, TaskFacts DEF RuleFates
  <2>2. ASSUME NEW p \in Processes, eval'[p].pc # "idle"
        PROVE  rules'[eval'[p].task.rule].status # "unused"
    <3>1. eval'[p].task \in Tasks
      BY <1>1, <2>2 DEF TypeOK, Evaluations
    <3>2. rules[eval'[p].task.rule].status # "unused"
      <4>1. EvalStep(p)
        BY <1>1, EvalStepHolds
      <4>2. CASE eval'[p] = eval[p]
        BY <2>2, <4>2 DEF Structure, WorkIsListed
      <4>3. CASE eval'[p] = Idle
        BY <2>2, <4>3 DEF Idle
      <4>4. CASE Reads(p)
        BY <4>4 DEF Reads, Structure, WorkIsListed
      <4>5. CASE Decides(p) \/ Creates(p) \/ Dispatches(p)
        <5>1. eval'[p].task = eval[p].task /\ eval[p].pc # "idle"
          BY <4>5, <1>1 DEF Decides, Creates, Dispatches, TypeOK, Evaluations
        <5> QED
          BY <5>1 DEF Structure, WorkIsListed
      <4> QED
        BY <4>1, <4>2, <4>3, <4>4, <4>5 DEF EvalStep
    <3> QED
      BY <1>2, <3>1, <3>2, TaskFacts DEF RuleFates
  <2> QED
    BY <2>1, <2>2 DEF WorkIsListed
<1>4. DeletedRuleLeavesNoState'
  <2> SUFFICES ASSUME NEW k \in Keys, rules'[k[1]].status \notin Exists
               PROVE  rows'[k] = NormalInstance
    BY DEF DeletedRuleLeavesNoState
  <2>1. k[1] \in Rules
    BY DEF Keys
  <2>2. CASE rules[k[1]].status \notin Exists
    <3>1. rows[k] = NormalInstance
      BY <2>2 DEF Structure, DeletedRuleLeavesNoState
    <3>2. ASSUME NEW p \in Processes, Saves(p, k)
          PROVE  FALSE
      BY <2>2, <3>2, <1>1, TaskFacts DEF Saves, TypeOK, Evaluations
    <3> QED
      BY <3>1, <3>2, TablesStepHolds DEF TablesStep
  <2>3. CASE rules[k[1]].status \in Exists
    <3>1. PICK q \in Requests : DeleteRule(q) /\ rows' = RowsReset(k[1])
      <4>1. rules' # rules
        BY <2>3
      <4>2. PICK q \in Requests : CreateRule(q) \/ WriteRule(q) \/ DeleteRule(q)
        BY <4>1 DEF Next, vars, Environment, Tick, WindowMoves, Ingest, StartSweep,
           StartJob, JobFails, Evaluate, ReadWindow, LoadState, CreateEvent, Dispatch,
           SaveState, Fail, Administer, BeginUpdate, BeginSetEnabled, ResetStates,
           RequestFails, Crash
      <4>3. ~CreateRule(q)
        BY <2>1, <2>3, <1>1 DEF CreateRule, TypeOK, Exists
      <4>4. ~WriteRule(q)
        <5>1. ASSUME WriteRule(q) PROVE FALSE
          <6>1. request[q].rule \in Rules /\ request[q].copy.status \in Exists
            BY <1>1, <5>1 DEF WriteRule, TypeOK, RequestStates, Structure, CopiesExist
          <6> QED
            BY <6>1, <5>1, <2>1, <2>3, <1>1 DEF WriteRule, TypeOK
        <5> QED
          BY <5>1
      <4>5. DeleteRule(q) => rows' = RowsReset(k[1])
        BY <2>1, <2>3, <1>1 DEF DeleteRule, TypeOK
      <4> QED
        BY <4>2, <4>3, <4>4, <4>5
    <3> QED
      BY <3>1 DEF RowsReset
  <2> QED
    BY <2>2, <2>3
<1> QED
  BY <1>1, <1>2, <1>3, <1>4 DEF Structure

(* A deleted rule keeps no alert state, whatever evaluations, resets and   *)
(* crashes were under way when it was deleted.                             *)
THEOREM DeletedRuleHolds == Spec => []DeletedRuleLeavesNoState
<1>1. Structure => DeletedRuleLeavesNoState
  BY DEF Structure
<1> QED
  BY <1>1, StructureInit, StructureNext, PTL DEF Spec
-----------------------------------------------------------------------------
(* The inductive invariant: the tables agree, and so does every evaluation *)
(* in flight.                                                              *)
IInv ==
    /\ Structure
    /\ RowsHaveBreach
    /\ \A p \in Processes : Carries(p)
    /\ EventBeforeState
    /\ TriggerNeedsHeldBreach

LEMMA VerdictFacts ==
    ASSUME NEW inst \in Instances(Times), NEW breach \in BOOLEAN, NEW def, NEW at,
           NEW verdict, verdict = Verdict(inst, breach, def, at)
    PROVE  /\ verdict = "armed" => breach /\ inst.state \in {"normal", "recovered"}
           /\ verdict = "triggered" => /\ breach /\ inst.state = "pending"
                                       /\ at >= inst.since + def.duration
           /\ verdict = "continuing" => breach /\ inst.state = "triggered"
BY DEF Verdict, HeldLongEnough, Instances, InstanceStates

LEMMA LoadedKeeps ==
    ASSUME NEW k, NEW row \in Instances(Times)
    PROVE  /\ SinceABreach(k, row) => SinceABreach(k, Loaded(row))
           /\ HasEvent(k, row) => HasEvent(k, Loaded(row))
BY DEF Loaded, SinceABreach, HasEvent, NormalInstance

(* A step takes an event away only with its rule.                          *)
LEMMA EventKept ==
    ASSUME Structure, [Next]_vars, NEW k \in Keys, NEW inst,
           rules'[k[1]].status \in Exists, HasEvent(k, inst)
    PROVE  HasEvent(k, inst)'
BY TablesStepHolds DEF TablesStep, HasEvent, EventOf

LEMMA RuleStays ==
    ASSUME TypeOK, RuleFates, NEW r \in Rules, rules[r].status # "unused",
           rules'[r].status \in Exists
    PROVE  rules[r].status \in Exists
BY DEF TypeOK, RuleRows, RuleStatus, RuleFates, Exists

LEMMA IInit == Init => IInv
BY StructureInit
   DEF Init, IInv, RowsHaveBreach, SinceABreach, Carries, EventBeforeState,
       TriggerNeedsHeldBreach, NormalInstance, Idle, ZeroTime

LEMMA CarriesNext ==
    ASSUME IInv, [Next]_vars, NEW p \in Processes
    PROVE  Carries(p)'
<1>1. /\ Structure /\ Structure' /\ TypeOK /\ TypeOK' /\ RuleFates
      /\ Carries(p) /\ EvalStep(p) /\ TablesStep
  BY StructureNext, RulesStep, EvalStepHolds, TablesStepHolds DEF IInv, Structure
<1>2. CASE eval'[p] = Idle
  BY <1>2 DEF Carries, Idle
<1>3. CASE Reads(p)
  BY <1>3 DEF Carries, Reads
<1> SUFFICES ASSUME eval'[p] = eval[p] \/ Decides(p) \/ Creates(p) \/ Dispatches(p),
                    eval[p].pc # "idle"
             PROVE  Carries(p)'
  BY <1>1, <1>2, <1>3 DEF EvalStep, Carries, Decides, Creates, Dispatches
<1>4. PICK t \in Tasks, k \in Keys, e \in Evaluations :
         /\ e = eval[p] /\ t = e.task /\ k = KeyOf(t) /\ k[1] = t.rule /\ t.rule \in Rules
         /\ e \in Evaluations
  <2>1. eval[p] \in Evaluations /\ eval[p].task \in Tasks
    BY <1>1 DEF TypeOK, Evaluations
  <2> QED
    BY <2>1, TaskFacts
<1>5. rules'[t.rule].status \in Exists => rules[t.rule].status \in Exists
  BY <1>1, <1>4, RuleStays DEF Structure, WorkIsListed
<1>6. e.breach => [key |-> k, at |-> e.at] \in breached'
  BY <1>1, <1>4 DEF Carries, TablesStep
<1>7. ASSUME NEW inst, SinceABreach(k, inst)
      PROVE  SinceABreach(k, inst)'
  BY <1>1, <1>7 DEF SinceABreach, TablesStep
<1>8. ASSUME NEW inst, HasEvent(k, inst), rules'[t.rule].status \in Exists
      PROVE  HasEvent(k, inst)'
  BY <1>1, <1>4, <1>8, EventKept
<1>9. ASSUME rules'[t.rule].status \in Exists, EmittedEvent(e) \in events
      PROVE  EmittedEvent(e) \in events'
  <2>1. EmittedEvent(e).key[1] = t.rule
    BY <1>4 DEF EmittedEvent, Event
  <2> QED
    BY <1>1, <1>9, <2>1 DEF TablesStep
<1>10. ASSUME eval'[p] = [e EXCEPT !.pc = eval'[p].pc], e.pc \in {"emit", "dispatch", "save"}
       PROVE  /\ e.verdict = Verdict(e.inst, e.breach, t.def, e.at)
              /\ SinceABreach(k, e.inst)'
              /\ rules'[t.rule].status \in Exists => HasEvent(k, e.inst)'
  BY <1>1, <1>4, <1>5, <1>7, <1>8, <1>10 DEF Carries
<1>11. ASSUME eval'[p] = [e EXCEPT !.pc = eval'[p].pc]
       PROVE  /\ eval'[p].task = t /\ eval'[p].at = e.at /\ eval'[p].breach = e.breach
              /\ eval'[p].inst = e.inst /\ eval'[p].verdict = e.verdict
  BY <1>4, <1>11 DEF Evaluations
<1>12. CASE eval'[p] = eval[p]
  <2>1. eval'[p] = [e EXCEPT !.pc = eval'[p].pc]
    BY <1>4, <1>12 DEF Evaluations
  <2> QED
    BY <1>1, <1>4, <1>5, <1>6, <1>9, <1>10, <1>11, <1>12, <2>1 DEF Carries, EmittedEvent
<1>13. CASE Decides(p)
  <2>1. PICK inst, verdict : /\ inst = Loaded(rows[k])
                             /\ verdict = Verdict(inst, e.breach, t.def, e.at)
    OBVIOUS
  <2>2. SinceABreach(k, inst) /\ HasEvent(k, inst)
    <3>1. rows[k] \in Instances(Times) /\ SinceABreach(k, rows[k]) /\ HasEvent(k, rows[k])
      BY <1>1 DEF IInv, TypeOK, RowsHaveBreach, EventBeforeState, HasEvent
    <3> QED
      BY <3>1, <2>1, LoadedKeeps
  <2>3. /\ eval'[p].task = t /\ eval'[p].at = e.at /\ eval'[p].breach = e.breach
        /\ eval'[p].inst = inst /\ eval'[p].verdict = verdict
        /\ eval'[p].pc = IF verdict = "armed" THEN "save" ELSE "emit"
        /\ verdict # "none"
    BY <1>4, <1>13, <2>1 DEF Decides, Evaluations
  <2>4. verdict # "armed" => verdict \in EventTypes
    BY <2>1, <2>3, VerdictType DEF Verdicts
  <2>5. SinceABreach(k, inst)' /\ (rules'[t.rule].status \in Exists => HasEvent(k, inst)')
    BY <1>7, <1>8, <2>2
  <2> QED
    BY <1>4, <1>6, <2>1, <2>3, <2>4, <2>5 DEF Carries, EventTypes
<1>14. CASE Creates(p)
  <2>1. eval'[p] = [e EXCEPT !.pc = eval'[p].pc] /\ eval'[p].pc = "dispatch" /\ e.pc = "emit"
    BY <1>4, <1>14 DEF Creates, Evaluations
  <2>2. e.verdict \in EventTypes /\ EmittedEvent(e) \in events'
    BY <1>1, <1>4, <1>14 DEF Creates, Carries
  <2> QED
    BY <1>4, <1>6, <1>10, <1>11, <2>1, <2>2 DEF Carries, EmittedEvent
<1>15. CASE Dispatches(p)
  <2>1. eval'[p] = [e EXCEPT !.pc = eval'[p].pc] /\ eval'[p].pc = "save" /\ e.pc = "dispatch"
    BY <1>4, <1>15 DEF Dispatches, Evaluations
  <2>2. /\ e.verdict \in EventTypes
        /\ rules'[t.rule].status \in Exists => EmittedEvent(e) \in events'
    BY <1>1, <1>4, <1>5, <1>9, <2>1 DEF Carries
  <2> QED
    BY <1>4, <1>6, <1>10, <1>11, <2>1, <2>2 DEF Carries, EmittedEvent
<1> QED
  BY <1>12, <1>13, <1>14, <1>15

(* What a save writes is backed as the invariant asks: by the breach its   *)
(* own evaluation read, or by the event its evaluation emitted before.     *)
LEMMA SaveIsBacked ==
    ASSUME IInv, [Next]_vars, NEW p \in Processes, NEW k \in Keys, Saves(p, k)
    PROVE  SinceABreach(k, rows[k])' /\ HasEvent(k, rows[k])'
<1>1. Structure /\ TypeOK /\ TablesStep /\ Structure'
  BY StructureNext, TablesStepHolds DEF IInv, Structure
<1>2. PICK e, row : /\ e = eval[p] /\ e \in Evaluations /\ e.task \in Tasks
                    /\ row = rows'[k] /\ row = Applied(e.inst, e.verdict, e.at)
                    /\ k = KeyOf(e.task) /\ k[1] = e.task.rule /\ k[1] \in Rules
  <2>1. eval[p] \in Evaluations /\ eval[p].task \in Tasks
    BY <1>1 DEF TypeOK, Evaluations, Saves
  <2> QED
    BY <2>1, TaskFacts DEF Saves
<1>3. /\ SinceABreach(k, e.inst) /\ HasEvent(k, e.inst)
      /\ e.breach => [key |-> k, at |-> e.at] \in breached
      /\ e.verdict = Verdict(e.inst, e.breach, e.task.def, e.at)
      /\ e.verdict \in EventTypes \cup {"armed"}
      /\ e.verdict \in EventTypes => EmittedEvent(e) \in events
  BY <1>2 DEF IInv, Carries, Saves
<1>4. e.inst \in Instances(Times) /\ e.breach \in BOOLEAN
  BY <1>2 DEF Evaluations
<1>5. SinceABreach(k, row)
  BY <1>2, <1>3, <1>4, VerdictFacts DEF Applied, SinceABreach, Instances, EventTypes
<1>6. HasEvent(k, row)
  <2>1. CASE e.verdict = "armed"
    <3>1. row.last = e.inst.last /\ row.state = "pending"
      BY <1>2, <1>4, <2>1 DEF Applied, Instances
    <3>2. e.inst.state \in {"normal", "recovered"}
      BY <1>3, <1>4, <2>1 DEF Verdict, Instances, InstanceStates
    <3> QED
      BY <1>3, <3>1, <3>2 DEF HasEvent, EventOf, StateShows
  <2>2. CASE e.verdict \in EventTypes
    <3>1. /\ EmittedEvent(e).key = k /\ EmittedEvent(e).at = e.at
          /\ EmittedEvent(e).type = e.verdict /\ EmittedEvent(e) \in events
      BY <1>2, <1>3, <2>2 DEF EmittedEvent, Event
    <3>2. row.last = e.at /\ StateShows(row.state, e.verdict)
      BY <1>2, <1>3, <1>4, <2>2, VerdictFacts
         DEF Applied, Instances, EventTypes, StateShows, AlarmTypes
    <3> QED
      BY <3>1, <3>2 DEF HasEvent, EventOf
  <2> QED
    BY <1>3, <2>1, <2>2
<1>7. SinceABreach(k, row)'
  BY <1>1, <1>5 DEF SinceABreach, TablesStep
<1>8. HasEvent(k, row)'
  <2>1. CASE rules'[k[1]].status \in Exists
    BY <1>1, <1>6, <2>1, EventKept
  <2>2. CASE rules'[k[1]].status \notin Exists
    <3>1. row = NormalInstance
      BY <1>1, <1>2, <2>2 DEF Structure, DeletedRuleLeavesNoState
    <3> QED
      BY <3>1 DEF HasEvent, NormalInstance
  <2> QED
    BY <2>1, <2>2
<1> QED
  BY <1>2, <1>7, <1>8 DEF SinceABreach, HasEvent, EventOf

LEMMA IInvNext == IInv /\ [Next]_vars => IInv'
<1> SUFFICES ASSUME IInv, [Next]_vars PROVE IInv'
  OBVIOUS
<1>1. Structure /\ TypeOK /\ TablesStep /\ Structure'
  BY StructureNext, TablesStepHolds DEF IInv, Structure
<1>2. ASSUME NEW k \in Keys
      PROVE  SinceABreach(k, rows[k])' /\ HasEvent(k, rows[k])'
  <2>1. CASE \E p \in Processes : Saves(p, k)
    BY <2>1, SaveIsBacked
  <2>2. CASE rows'[k] = NormalInstance
    BY <2>2 DEF SinceABreach, HasEvent, NormalInstance
  <2>3. CASE rows'[k] = rows[k] /\ rows'[k] # NormalInstance
    <3>1. PICK row : row = rows[k] /\ row = rows'[k] /\ SinceABreach(k, row) /\ HasEvent(k, row)
      BY <2>3 DEF IInv, RowsHaveBreach, EventBeforeState, HasEvent
    <3>2. rules'[k[1]].status \in Exists
      BY <1>1, <2>3 DEF Structure, DeletedRuleLeavesNoState
    <3>3. SinceABreach(k, row)' /\ HasEvent(k, row)'
      BY <1>1, <3>1, <3>2, EventKept DEF SinceABreach, TablesStep
    <3> QED
      BY <3>1, <3>3 DEF SinceABreach, HasEvent, EventOf
  <2> QED
    BY <1>1, <2>1, <2>2, <2>3 DEF TablesStep
<1>3. RowsHaveBreach' /\ EventBeforeState'
  BY <1>2 DEF RowsHaveBreach, EventBeforeState, SinceABreach, HasEvent, EventOf
<1>4. TriggerNeedsHeldBreach'
  <2> SUFFICES ASSUME NEW ev \in events', ev.type = "triggered"
               PROVE  /\ [key |-> ev.key, at |-> ev.at] \in breached'
                      /\ \E b \in breached' : b.key = ev.key
                                              /\ b.at + ev.def.duration =< ev.at
    BY DEF TriggerNeedsHeldBreach
  <2>1. CASE ev \in events
    BY <1>1, <2>1 DEF IInv, TriggerNeedsHeldBreach, TablesStep
  <2>2. CASE \E p \in Processes : eval[p].pc = "emit" /\ ev = EmittedEvent(eval[p])
    <3>1. PICK p \in Processes, e \in {eval[x] : x \in Processes} :
              e = eval[p] /\ e.pc = "emit" /\ ev = EmittedEvent(e)
      BY <2>2
    <3>2. e \in Evaluations /\ e.inst \in Instances(Times) /\ e.breach \in BOOLEAN
          /\ e.task \in Tasks /\ e.at \in Nat /\ e.inst.since \in Nat
      BY <1>1, <3>1, ConstantsAssumption DEF TypeOK, Evaluations, Instances, Times
    <3>3. /\ ev.key = KeyOf(e.task) /\ ev.at = e.at /\ ev.def = e.task.def
          /\ e.verdict = "triggered" /\ ev.def.duration \in Nat
      BY <3>1, <3>2, TaskFacts DEF EmittedEvent, Event
    <3>4. /\ e.verdict = Verdict(e.inst, e.breach, e.task.def, e.at)
          /\ SinceABreach(KeyOf(e.task), e.inst)
          /\ e.breach => [key |-> KeyOf(e.task), at |-> e.at] \in breached
      BY <3>1 DEF IInv, Carries
    <3>5. e.breach /\ e.inst.state = "pending" /\ e.at >= e.inst.since + e.task.def.duration
      BY <3>2, <3>3, <3>4, VerdictFacts
    <3>6. /\ [key |-> ev.key, at |-> ev.at] \in breached'
          /\ [key |-> ev.key, at |-> e.inst.since] \in breached'
      BY <1>1, <3>3, <3>4, <3>5 DEF SinceABreach, TablesStep
    <3>7. e.inst.since + ev.def.duration =< ev.at
      BY <3>2, <3>3, <3>5
    <3> QED
      BY <3>6, <3>7
  <2> QED
    BY <1>1, <2>1, <2>2 DEF TablesStep
<1> QED
  BY <1>1, <1>3, <1>4, CarriesNext DEF IInv

(* Emit before save: a stored state that remembers an event has that event *)
(* in the event table, for any interleaving of goroutines, requests and    *)
(* crashes.                                                                *)
THEOREM EventBeforeStateHolds == Spec => []EventBeforeState
<1>1. IInv => EventBeforeState
  BY DEF IInv
<1> QED
  BY <1>1, IInit, IInvNext, PTL DEF Spec

(* No alarm is raised on a breach that was not held for the rule's         *)
(* duration, however evaluations of one rule and device overlap.           *)
THEOREM TriggerNeedsHeldBreachHolds == Spec => []TriggerNeedsHeldBreach
<1>1. IInv => TriggerNeedsHeldBreach
  BY DEF IInv
<1> QED
  BY <1>1, IInit, IInvNext, PTL DEF Spec

(* EventsRecordTransitions fails (run EvaluatorRepeats), but only for      *)
(* recoveries: whatever the goroutines, requests and failures, an event    *)
(* that is neither a change of state nor an alarm that goes on reports the *)
(* recovery of an alarm that had already recovered.                        *)
THEOREM OnlyRecoveriesRepeat ==
    Spec => [][\A p \in Processes : Emits(p) =>
                  \/ eval[p].verdict = "continuing"
                  \/ eval[p].inst.state # Applied(eval[p].inst, eval[p].verdict, eval[p].at).state
                  \/ eval[p].verdict = "recovered" /\ eval[p].inst.state = "recovered"]_vars
<1> DEFINE Explained ==
        \A p \in Processes : Emits(p) =>
            \/ eval[p].verdict = "continuing"
            \/ eval[p].inst.state # Applied(eval[p].inst, eval[p].verdict, eval[p].at).state
            \/ eval[p].verdict = "recovered" /\ eval[p].inst.state = "recovered"
<1>1. IInv => Explained
  <2>1. SUFFICES ASSUME IInv, NEW p \in Processes, eval[p].pc = "emit",
                        eval[p].verdict # "continuing"
                 PROVE  \/ eval[p].inst.state #
                              Applied(eval[p].inst, eval[p].verdict, eval[p].at).state
                        \/ eval[p].verdict = "recovered" /\ eval[p].inst.state = "recovered"
    BY DEF Emits
  <2>2. /\ eval[p].inst \in Instances(Times) /\ eval[p].verdict \in EventTypes
        /\ eval[p].verdict = Verdict(eval[p].inst, eval[p].breach, eval[p].task.def, eval[p].at)
    <3>1. TypeOK /\ Carries(p)
      BY <2>1 DEF IInv, Structure
    <3>2. eval[p] \in Evaluations
      BY <2>1, <3>1 DEF TypeOK
    <3>3. eval[p].inst \in Instances(Times) /\ eval[p].verdict \in EventTypes
      BY <2>1, <3>2 DEF Evaluations
    <3> QED
      BY <2>1, <3>1, <3>3 DEF Carries
  <2>3. CASE eval[p].verdict = "triggered"
    <3>1. eval[p].inst.state = "pending"
      BY <2>2, <2>3 DEF Verdict
    <3> QED
      BY <2>2, <2>3, <3>1 DEF Applied, Instances
  <2>4. CASE eval[p].verdict = "recovered"
    BY <2>2, <2>4 DEF Applied, Instances
  <2> QED
    BY <2>1, <2>2, <2>3, <2>4 DEF EventTypes
<1>2. Spec => []IInv
  BY IInit, IInvNext, PTL DEF Spec
<1>3. Spec => [][Explained]_vars
  BY <1>1, <1>2, PTL DEF Spec
<1> QED
  BY <1>3
-----------------------------------------------------------------------------
(* Events nobody hears of.  Between two faults the set only shrinks; a     *)
(* fault adds at most what the goroutines are about to dispatch.           *)
FiniteProcesses == IsFiniteSet(Processes)

UnheardStep ==
    \/ faults' = faults /\ Unheard' \subseteq Unheard
    \/ faults' = faults + 1 /\ Unheard' \subseteq Unheard \cup InDispatch

(* Every evaluation stays in dispatch but perhaps that of p, which is not. *)
OthersStay(p) == \A x \in Processes \ {p} : eval'[x] = eval[x]

LEMMA InDispatchKept ==
    ASSUME NEW p \in Processes, OthersStay(p), eval[p].pc # "dispatch"
    PROVE  InDispatch \subseteq InDispatch'
BY DEF OthersStay, InDispatch, EmittedEvent

LEMMA OneMoves ==
    ASSUME TypeOK, NEW p \in Processes, NEW e, eval' = [eval EXCEPT ![p] = e]
    PROVE  OthersStay(p)
BY DEF TypeOK, OthersStay

LEMMA UnheardStepHolds ==
    ASSUME TypeOK, [Next]_vars
    PROVE  UnheardStep
<1> USE DEF UnheardStep
<1>1. ASSUME UNCHANGED <<events, notified, eval, faults>>
      PROVE  UnheardStep
  BY <1>1 DEF Unheard, InDispatch
<1>2. ASSUME UNCHANGED <<events, notified, eval>>, faults' = faults + 1
      PROVE  UnheardStep
  BY <1>2 DEF Unheard, InDispatch
<1>3. ASSUME NEW p \in Processes, OthersStay(p), eval[p].pc # "dispatch",
             UNCHANGED <<events, notified>>, faults' = faults \/ faults' = faults + 1
      PROVE  UnheardStep
  BY <1>3, InDispatchKept DEF Unheard
<1>4. ASSUME NEW p \in Processes, ReadWindow(p)
      PROVE  UnheardStep
  BY <1>3, <1>4, OneMoves DEF ReadWindow
<1>5. ASSUME NEW p \in Processes, LoadState(p)
      PROVE  UnheardStep
  BY <1>3, <1>5, OneMoves DEF LoadState
<1>6. ASSUME NEW p \in Processes, CreateEvent(p)
      PROVE  UnheardStep
  <2>1. CASE RuleRowExists(p)
    <3>1. /\ events' = events \cup {EmittedEvent(eval[p])}
          /\ eval' = [eval EXCEPT ![p].pc = "dispatch"]
          /\ notified' = notified /\ faults' = faults
          /\ eval[p].pc = "emit"
      BY <1>6, <2>1 DEF CreateEvent
    <3>2. eval' = [eval EXCEPT ![p] = [eval[p] EXCEPT !.pc = "dispatch"]]
      BY <3>1
    <3>3. eval'[p] = [eval[p] EXCEPT !.pc = "dispatch"] /\ eval[p] \in Evaluations
      BY <3>2 DEF TypeOK
    <3>4. EmittedEvent(eval'[p]) = EmittedEvent(eval[p]) /\ eval'[p].pc = "dispatch"
      BY <3>3 DEF Evaluations, EmittedEvent
    <3>5. EmittedEvent(eval[p]) \in InDispatch'
      BY <3>4 DEF InDispatch, EmittedEvent
    <3>6. InDispatch \subseteq InDispatch'
      BY <3>1, <3>2, OneMoves, InDispatchKept
    <3> QED
      BY <3>1, <3>5, <3>6 DEF Unheard
  <2>2. CASE ~RuleRowExists(p)
    BY <1>3, <1>6, <2>2, OneMoves DEF CreateEvent, Abandon
  <2> QED
    BY <2>1, <2>2
<1>7. ASSUME NEW p \in Processes, Dispatch(p)
      PROVE  UnheardStep
  <2>1. /\ eval' = [eval EXCEPT ![p] = [eval[p] EXCEPT !.pc = "save"]]
        /\ events' = events
        /\ eval[p].pc = "dispatch"
    BY <1>7 DEF Dispatch
  <2>2. OthersStay(p)
    BY <2>1, OneMoves
  <2>3. InDispatch \subseteq InDispatch' \cup {EmittedEvent(eval[p])}
    BY <2>2 DEF OthersStay, InDispatch, EmittedEvent
  <2>4. EmittedEvent(eval[p]) \in InDispatch
    BY <2>1 DEF InDispatch
  <2>5. PICK made \in SUBSET Outlets(EmittedEvent(eval[p])) :
            /\ notified' = notified
                   \cup (({EmittedEvent(eval[p])} \cap events) \X made)
            /\ \/ made = Outlets(EmittedEvent(eval[p])) /\ faults' = faults
               \/ faults' = faults + 1
    BY <1>7 DEF Dispatch
  <2>6. CASE faults' = faults + 1
    BY <2>1, <2>3, <2>4, <2>5, <2>6 DEF Unheard
  <2>7. CASE made = Outlets(EmittedEvent(eval[p])) /\ faults' = faults
    <3>1. ASSUME NEW ev \in Unheard' PROVE ev \in Unheard
      <4>1. /\ ev \in events /\ ev \notin InDispatch'
            /\ \E c \in Outlets(ev) : <<ev, c>> \notin notified'
        BY <2>1, <3>1 DEF Unheard, Outlets
      <4>2. ev # EmittedEvent(eval[p])
        BY <2>5, <2>7, <4>1
      <4> QED
        BY <2>3, <2>5, <4>1, <4>2 DEF Unheard
    <3> QED
      BY <2>7, <3>1
  <2> QED
    BY <2>5, <2>6, <2>7
<1>8. ASSUME NEW p \in Processes, SaveState(p)
      PROVE  UnheardStep
  BY <1>3, <1>8, OneMoves DEF SaveState, Abandon
<1>9. ASSUME NEW p \in Processes, Fail(p)
      PROVE  UnheardStep
  BY <1>3, <1>9, OneMoves DEF Fail, Abandon
<1>10. CASE Crash
  BY <1>10 DEF Crash, Unheard
<1>11. ASSUME NEW q \in Requests, DeleteRule(q)
      PROVE  UnheardStep
  <2>1. PICK r \in Rules : /\ events' = WithoutRule(events, r)
                           /\ notified' = {n \in notified : n[1].key[1] # r}
    BY <1>11 DEF DeleteRule
  <2>2. eval' = eval /\ faults' = faults
    BY <1>11 DEF DeleteRule
  <2>3. InDispatch' = InDispatch
    BY <2>2 DEF InDispatch
  <2>4. ASSUME NEW ev \in Unheard' PROVE ev \in Unheard
    <3>1. PICK c \in Outlets(ev) : <<ev, c>> \notin notified'
      BY <2>4 DEF Unheard, Outlets
    <3>2. ev \in events /\ ev.key[1] # r /\ ev \notin InDispatch
      BY <2>1, <2>3, <2>4 DEF WithoutRule, Unheard
    <3>3. <<ev, c>> \notin notified
      BY <2>1, <3>1, <3>2
    <3> QED
      BY <3>2, <3>3 DEF Unheard
  <2> QED
    BY <2>2, <2>4
<1> QED
  BY <1>1, <1>2, <1>4, <1>5, <1>6, <1>7, <1>8, <1>9, <1>10, <1>11
     DEF Next, vars, Environment, Tick, WindowMoves, Ingest, StartSweep, StartJob,
         JobFails, Evaluate, Administer, CreateRule, BeginUpdate, BeginSetEnabled,
         WriteRule, ResetStates, RequestFails

(* One event in hand per goroutine.                                        *)
LEMMA InDispatchSize ==
    ASSUME FiniteProcesses
    PROVE  /\ IsFiniteSet(InDispatch)
           /\ Cardinality(InDispatch) =< Cardinality(Processes)
<1> DEFINE P == {x \in Processes : eval[x].pc = "dispatch"}
           f == [x \in P |-> EmittedEvent(eval[x])]
<1>1. IsFiniteSet(P) /\ Cardinality(P) =< Cardinality(Processes)
  BY FS_Subset DEF FiniteProcesses
<1>2. f \in Surjection(P, InDispatch)
  BY DEF Surjection, InDispatch
<1>3. IsFiniteSet(InDispatch) /\ Cardinality(InDispatch) =< Cardinality(P)
  BY <1>1, <1>2, FS_Surjection
<1>4. Cardinality(InDispatch) \in Nat /\ Cardinality(P) \in Nat /\ Cardinality(Processes) \in Nat
  BY <1>1, <1>3, FS_CardinalityType DEF FiniteProcesses
<1> QED
  BY <1>1, <1>3, <1>4

UnheardInv == IsFiniteSet(Unheard) /\ UnheardPerFault

LEMMA UnheardNext ==
    ASSUME FiniteProcesses, TypeOK, UnheardInv, [Next]_vars
    PROVE  UnheardInv'
<1> DEFINE n == Cardinality(Processes)
<1>1. n \in Nat /\ faults \in Nat /\ Cardinality(Unheard) \in Nat
  BY ConstantsAssumption, FS_CardinalityType DEF FiniteProcesses, TypeOK, UnheardInv
<1>2. Cardinality(Unheard) =< faults * n
  BY DEF UnheardInv, UnheardPerFault
<1>3. CASE faults' = faults /\ Unheard' \subseteq Unheard
  <2>1. IsFiniteSet(Unheard') /\ Cardinality(Unheard') =< Cardinality(Unheard)
    BY <1>3, FS_Subset DEF UnheardInv
  <2>2. Cardinality(Unheard') \in Nat
    BY <2>1, FS_CardinalityType
  <2>3. Cardinality(Unheard') =< faults' * n
    <3> HIDE DEF n
    <3>1. faults * n \in Nat
      BY <1>1
    <3> QED
      BY <1>1, <1>2, <1>3, <2>1, <2>2, <3>1
  <2> QED
    BY <2>1, <2>3 DEF UnheardInv, UnheardPerFault
<1>4. CASE faults' = faults + 1 /\ Unheard' \subseteq Unheard \cup InDispatch
  <2> DEFINE U == Unheard \cup InDispatch
  <2>1. /\ IsFiniteSet(U)
        /\ Cardinality(U) = Cardinality(Unheard) + Cardinality(InDispatch)
                               - Cardinality(Unheard \cap InDispatch)
    BY InDispatchSize, FS_Union DEF UnheardInv
  <2>2. Cardinality(Unheard \cap InDispatch) \in Nat /\ Cardinality(InDispatch) \in Nat
    BY InDispatchSize, FS_Intersection, FS_CardinalityType DEF UnheardInv
  <2>3. IsFiniteSet(Unheard') /\ Cardinality(Unheard') =< Cardinality(U)
    BY <1>4, <2>1, FS_Subset
  <2>4. Cardinality(Unheard') \in Nat /\ Cardinality(U) \in Nat
    BY <2>1, <2>3, FS_CardinalityType
  <2>5. Cardinality(InDispatch) =< n
    BY InDispatchSize
  <2>6. Cardinality(Unheard') =< faults' * n
    <3> HIDE DEF n, U
    <3>1. faults' * n = faults * n + n /\ faults * n \in Nat
      BY <1>1, <1>4
    <3>2. Cardinality(U) =< Cardinality(Unheard) + n
      BY <1>1, <2>1, <2>2, <2>4, <2>5
    <3> QED
      BY <1>1, <1>2, <2>3, <2>4, <3>1, <3>2
  <2> QED
    BY <2>3, <2>6 DEF UnheardInv, UnheardPerFault
<1> QED
  BY <1>3, <1>4, UnheardStepHolds DEF UnheardStep

(* Only faults silence an event, and each at most one per goroutine:       *)
(* whatever evaluations, requests and deletions interleave, an event is    *)
(* handed to the dispatcher by the goroutine that stored it.               *)
THEOREM UnheardPerFaultHolds ==
    ASSUME FiniteProcesses
    PROVE  Spec => []UnheardPerFault
<1>1. Init => UnheardInv
  <2> SUFFICES ASSUME Init PROVE UnheardInv
    OBVIOUS
  <2>1. Unheard = {}
    BY DEF Init, Unheard
  <2>2. IsFiniteSet(Unheard) /\ Cardinality(Unheard) = 0
    BY <2>1, FS_EmptySet
  <2>3. faults * Cardinality(Processes) = 0
    BY FS_CardinalityType DEF Init, FiniteProcesses
  <2> QED
    BY <2>2, <2>3 DEF UnheardInv, UnheardPerFault
<1>2. TypeOK /\ UnheardInv /\ [Next]_vars => UnheardInv'
  BY UnheardNext
<1>3. UnheardInv => UnheardPerFault
  BY DEF UnheardInv
<1> QED
  BY <1>1, <1>2, <1>3, TypeCorrect, PTL DEF Spec
=============================================================================
