------------------------------ MODULE Evaluator ------------------------------
(***************************************************************************)
(* The alert evaluator and the rule administration it races with.          *)
(*                                                                         *)
(* Worker goroutines take device jobs from a bounded channel; one sweeper  *)
(* goroutine visits every enabled rule on every device of its scope; HTTP  *)
(* requests edit rules.  They share only the database, one statement at a  *)
(* time, so an action here is one statement (or one channel operation) of  *)
(* one goroutine.                                                          *)
(***************************************************************************)
EXTENDS AlertRules, Sequences, FiniteSets

CONSTANTS Rules,        \* rule ids; an id is never used again once deleted
          Devices,      \* active devices of the tenant
          Metrics,      \* metric names
          Values,       \* the averages a window may have
          Definitions,  \* what an operator may ask a rule to be
          Workers,      \* evaluation goroutines
          Sweeper,      \* the alert-sweep ticker goroutine
          Requests,     \* HTTP requests on rules that may be in flight
          QueueCap,     \* capacity of Evaluator.jobs (1024 in the code)
          MaxTime,      \* bound: the last moment of the run
          MaxFaults,    \* bound: failed statements and process crashes
          MaxEdits,     \* bound: requests on rules
          None          \* no task, no rule

Processes == Workers \cup {Sweeper}
Times     == 0..MaxTime

(* What the dispatcher can deliver to; the rule service takes any name,    *)
(* and "other" stands for all the others.  Blank names are dropped after   *)
(* the list was found not to be empty, so a rule may have no channel.      *)
KnownChannels == {"webhook", "log"}
Channels      == KnownChannels \cup {"other"}

(* A definition carries its target resolved to the devices it covers:      *)
(* DeviceID is a singleton, DeviceTag the matching devices, else all.      *)
DefinitionFields == [metric : Metrics, operator : Operators, threshold : Int,
                     duration : Nat, cooldown : Nat, scope : SUBSET Devices,
                     channels : SUBSET Channels]

Keys  == Rules \X Devices \X Metrics
Tasks == [rule : Rules, def : Definitions, device : Devices]

RuleStatus == {"unused", "enabled", "disabled", "deleted"}
Exists     == {"enabled", "disabled"}
RuleRows   == [status : RuleStatus, def : Definitions]

ASSUME ConstantsAssumption ==
    /\ Sweeper \notin Workers
    /\ Values \subseteq Int
    /\ NoSample \notin Values
    /\ Definitions \subseteq DefinitionFields
    /\ QueueCap \in Nat \ {0}
    /\ MaxTime \in Nat \ {0}
    /\ MaxFaults \in Nat
    /\ MaxEdits \in Nat
    /\ None \notin Rules \cup Tasks \cup RuleRows

VARIABLES clock,     \* now, in ticks; the first moment is 1
          reading,   \* the average each window holds now
          rules,     \* table alert_rules
          rows,      \* table alert_states; a fresh instance is no row
          events,    \* table alert_events
          notified,  \* table notification_attempts: <<event, channel>>
          jobs,      \* channel Evaluator.jobs
          tasks,     \* per goroutine: the evaluations its loops have left
          eval,      \* per goroutine: the evaluation in progress
          request,   \* per HTTP request: what it still has to write
          faults, edits,
          breached   \* history: [key, at] of every breach an evaluation read

vars == <<clock, reading, rules, rows, events, notified, jobs, tasks, eval,
          request, faults, edits, breached>>

Idle == [pc |-> "idle", task |-> None, at |-> ZeroTime, breach |-> FALSE,
         inst |-> NormalInstance, verdict |-> "none"]

NoRequest == [pc |-> "idle", rule |-> None, kind |-> None, copy |-> None]

KeyOf(task) == <<task.rule, task.device, task.def.metric>>

(* at is the time the evaluation captured, which LastEventAt is set to;    *)
(* created_at, read a little later, decides nothing and is left out.       *)
Event(task, verdict, at) ==
    [key |-> KeyOf(task), type |-> verdict, at |-> at, def |-> task.def]

(* From the moment a task is taken the evaluation has one, and an event is *)
(* only emitted for a verdict that has an event type.                      *)
Evaluations ==
    {e \in [pc : {"idle", "load", "emit", "dispatch", "save"}, task : Tasks \cup {None},
            at : Times, breach : BOOLEAN, inst : Instances(Times), verdict : Verdicts] :
        /\ e.pc # "idle" => e.task # None
        /\ e.pc \in {"emit", "dispatch"} => e.verdict \in EventTypes}

Events == [key : Keys, type : EventTypes, at : Times, def : Definitions]

RequestStates ==
    {a \in [pc : {"idle", "write", "reset"}, rule : Rules \cup {None},
            kind : {None, "update", "disable", "enable", "delete"},
            copy : RuleRows \cup {None}] :
        /\ a.pc # "idle" => a.rule # None
        /\ a.pc = "write" => a.copy # None}

TypeOK ==
    /\ clock \in Times \ {ZeroTime}
    /\ reading \in [Devices \X Metrics -> Values \cup {NoSample}]
    /\ rules \in [Rules -> RuleRows]
    /\ rows \in [Keys -> Instances(Times)]
    /\ events \subseteq Events
    /\ notified \subseteq events \X KnownChannels
    /\ jobs \in Seq(Devices) /\ Len(jobs) =< QueueCap
    /\ tasks \in [Processes -> SUBSET Tasks]
    /\ eval \in [Processes -> Evaluations]
    /\ request \in [Requests -> RequestStates]
    /\ faults \in 0..MaxFaults
    /\ edits \in 0..MaxEdits
    /\ breached \subseteq [key : Keys, at : Times]
-----------------------------------------------------------------------------
Init ==
    /\ clock = 1
    /\ reading = [w \in Devices \X Metrics |-> NoSample]
    /\ rules \in [Rules -> [status : {"unused"}, def : Definitions]]
    /\ rows = [k \in Keys |-> NormalInstance]
    /\ events = {}
    /\ notified = {}
    /\ jobs = <<>>
    /\ tasks = [p \in Processes |-> {}]
    /\ eval = [p \in Processes |-> Idle]
    /\ request = [q \in Requests |-> NoRequest]
    /\ faults = 0
    /\ edits = 0
    /\ breached = {}
-----------------------------------------------------------------------------
(* The environment: time, and the telemetry that fills or leaves windows.  *)

Tick ==
    /\ clock < MaxTime
    /\ clock' = clock + 1
    /\ UNCHANGED <<reading, rules, rows, events, notified, jobs, tasks, eval,
                   request, faults, edits, breached>>

(* Points age out of a window: its average changes with no evaluation job. *)
WindowMoves(d, m) ==
    /\ \E v \in Values \cup {NoSample} :
           /\ reading[<<d, m>>] # v
           /\ reading' = [reading EXCEPT ![<<d, m>>] = v]
    /\ UNCHANGED <<clock, rules, rows, events, notified, jobs, tasks, eval,
                   request, faults, edits, breached>>

(* Mutant: the send on the channel has no default case.                    *)
EvaluateDeviceUnbounded(d) == jobs' = Append(jobs, d)

(* EvaluateDevice: a job for which the channel has no room is dropped.     *)
EvaluateDevice(d) ==
    jobs' = IF Len(jobs) < QueueCap THEN Append(jobs, d) ELSE jobs

(* An accepted point is stored, then its device is queued for evaluation.  *)
Ingest(d, m) ==
    /\ \E v \in Values : reading' = [reading EXCEPT ![<<d, m>>] = v]
    /\ EvaluateDevice(d)
    /\ UNCHANGED <<clock, rules, rows, events, notified, tasks, eval, request,
                   faults, edits, breached>>
-----------------------------------------------------------------------------
(* The two loops that call evaluateRuleForDevice; the order in which a     *)
(* loop takes its rules and devices is left open.                          *)

EnabledTasks(ds) ==
    {t \in Tasks : /\ rules[t.rule].status = "enabled"
                   /\ t.def = rules[t.rule].def
                   /\ t.device \in ds \cap t.def.scope}

Ready(p) == eval[p].pc = "idle" /\ tasks[p] = {}

(* worker, evaluateDevice: the enabled rules are listed once per job.      *)
StartJob(w) ==
    /\ Ready(w)
    /\ jobs # <<>>
    /\ jobs' = Tail(jobs)
    /\ tasks' = [tasks EXCEPT ![w] = EnabledTasks({Head(jobs)})]
    /\ UNCHANGED <<clock, reading, rules, rows, events, notified, eval, request,
                   faults, edits, breached>>

(* Sweep: the enabled rules of every tenant are listed once per sweep.     *)
StartSweep ==
    /\ Ready(Sweeper)
    /\ tasks' = [tasks EXCEPT ![Sweeper] = EnabledTasks(Devices)]
    /\ tasks' # tasks
    /\ UNCHANGED <<clock, reading, rules, rows, events, notified, jobs, eval,
                   request, faults, edits, breached>>
-----------------------------------------------------------------------------
(* evaluateRuleForDevice, one database call per action.                    *)

(* The clock is read and then the metric window.                           *)
ReadWindow(p) ==
    /\ eval[p].pc = "idle"
    /\ \E t \in tasks[p] :
         LET breach == Breaches(reading[<<t.device, t.def.metric>>], t.def)
         IN  /\ tasks' = [tasks EXCEPT ![p] = @ \ {t}]
             /\ eval' = [eval EXCEPT ![p] =
                    [Idle EXCEPT !.pc = "load", !.task = t, !.at = clock,
                                 !.breach = breach]]
             /\ breached' = IF breach
                              THEN breached \cup {[key |-> KeyOf(t), at |-> clock]}
                              ELSE breached
    /\ UNCHANGED <<clock, reading, rules, rows, events, notified, jobs, request,
                   faults, edits>>

(* The instance is loaded and the decision taken on it; every alarm and    *)
(* every recovery emits its event before the new state is saved.           *)
LoadState(p) ==
    LET e == eval[p]
        inst == Loaded(rows[KeyOf(e.task)])
        verdict == Verdict(inst, e.breach, e.task.def, e.at)
    IN  /\ e.pc = "load"
        /\ eval' = [eval EXCEPT ![p] =
               CASE verdict = "none"  -> Idle
                 [] verdict = "armed" -> [e EXCEPT !.pc = "save", !.inst = inst,
                                                   !.verdict = verdict]
                 [] OTHER             -> [e EXCEPT !.pc = "emit", !.inst = inst,
                                                   !.verdict = verdict]]
        /\ UNCHANGED <<clock, reading, rules, rows, events, notified, jobs,
                       tasks, request, faults, edits, breached>>

(* An error ends this evaluation.  A worker only logs it and goes on; the  *)
(* sweep gives up the remaining devices of the rule.                       *)
Abandon(p) ==
    /\ eval' = [eval EXCEPT ![p] = Idle]
    /\ tasks' = IF p = Sweeper
                  THEN [tasks EXCEPT ![p] = {t \in @ : t.rule # eval[p].task.rule}]
                  ELSE tasks

(* Mutant: foreign keys are not enforced on inserts.                       *)
RuleRowNotChecked(p) == TRUE

(* The foreign keys of alert_states and alert_events: no row for a rule    *)
(* that is gone.                                                           *)
RuleRowExists(p) == rules[eval[p].task.rule].status \in Exists

EmittedEvent(e) == Event(e.task, e.verdict, e.at)

(* emit, first half: events.Create.                                        *)
CreateEvent(p) ==
    /\ eval[p].pc = "emit"
    /\ IF RuleRowExists(p)
         THEN /\ events' = events \cup {EmittedEvent(eval[p])}
              /\ eval' = [eval EXCEPT ![p].pc = "dispatch"]
              /\ UNCHANGED tasks
         ELSE Abandon(p) /\ UNCHANGED events
    /\ UNCHANGED <<clock, reading, rules, rows, notified, jobs, request, faults,
                   edits, breached>>

Outlets(ev) == ev.def.channels \cap KnownChannels

(* Mutant: the loop over the channels ends at an unknown one.              *)
DispatchKnownOnly(p) ==
    LET ev == EmittedEvent(eval[p])
        given == IF "other" \in ev.def.channels THEN {} ELSE Outlets(ev)
    IN  /\ eval[p].pc = "dispatch"
        /\ notified' = notified \cup (({ev} \cap events) \X given)
        /\ eval' = [eval EXCEPT ![p].pc = "save"]
        /\ UNCHANGED <<clock, reading, rules, rows, events, jobs, tasks, request,
                       faults, edits, breached>>

(* emit, second half: Dispatch writes an attempt per channel and skips the *)
(* channels it does not know.  An insert that fails, as those of an event  *)
(* that is gone do, is logged; the others are made and the evaluation goes *)
(* on.                                                                     *)
Dispatch(p) ==
    LET ev == EmittedEvent(eval[p])
    IN  /\ eval[p].pc = "dispatch"
        /\ \E made \in SUBSET Outlets(ev) :
               /\ notified' = notified \cup (({ev} \cap events) \X made)
               /\ \/ made = Outlets(ev) /\ UNCHANGED faults
                  \/ made # Outlets(ev) /\ faults < MaxFaults /\ faults' = faults + 1
        /\ eval' = [eval EXCEPT ![p].pc = "save"]
        /\ UNCHANGED <<clock, reading, rules, rows, events, jobs, tasks, request,
                       edits, breached>>

SaveState(p) ==
    /\ eval[p].pc = "save"
    /\ IF RuleRowExists(p)
         THEN LET e == eval[p]
              IN  /\ rows' = [rows EXCEPT ![KeyOf(e.task)] =
                                  Applied(e.inst, e.verdict, e.at)]
                  /\ eval' = [eval EXCEPT ![p] = Idle]
                  /\ UNCHANGED tasks
         ELSE Abandon(p) /\ UNCHANGED rows
    /\ UNCHANGED <<clock, reading, rules, events, notified, jobs, request,
                   faults, edits, breached>>

(* ListEnabled fails: the worker gives up the job.                         *)
JobFails(w) ==
    /\ faults < MaxFaults
    /\ faults' = faults + 1
    /\ Ready(w)
    /\ jobs # <<>>
    /\ jobs' = Tail(jobs)
    /\ UNCHANGED <<clock, reading, rules, rows, events, notified, tasks, eval,
                   request, edits, breached>>

(* A read or write that fails: a busy database, the ten-second limit of a  *)
(* worker's job, a cancelled sweep.                                        *)
Fail(p) ==
    /\ faults < MaxFaults
    /\ faults' = faults + 1
    /\ eval[p].pc \in {"load", "emit", "save"}
    /\ Abandon(p)
    /\ UNCHANGED <<clock, reading, rules, rows, events, notified, jobs, request,
                   edits, breached>>

(* The process dies and is started again: what was in memory is lost.      *)
Crash ==
    /\ faults < MaxFaults
    /\ faults' = faults + 1
    /\ jobs' = <<>>
    /\ tasks' = [p \in Processes |-> {}]
    /\ eval' = [p \in Processes |-> Idle]
    /\ request' = [q \in Requests |-> NoRequest]
    /\ UNCHANGED <<clock, reading, rules, rows, events, notified, edits, breached>>
-----------------------------------------------------------------------------
(* The rule service: every request is a chain of separate statements.      *)

NewRequest(q) ==
    /\ edits < MaxEdits
    /\ edits' = edits + 1
    /\ request[q].pc = "idle"

CreateRule(q) ==
    /\ NewRequest(q)
    /\ \E r \in Rules, def \in Definitions :
           /\ rules[r].status = "unused"
           /\ rules' = [rules EXCEPT ![r] = [status |-> "enabled", def |-> def]]
    /\ UNCHANGED <<clock, reading, rows, events, notified, jobs, tasks, eval,
                   request, faults, breached>>

(* Update and SetEnabled first read the row they are about to write back.  *)
BeginUpdate(q) ==
    /\ NewRequest(q)
    /\ \E r \in Rules, def \in Definitions :
           /\ rules[r].status \in Exists
           /\ request' = [request EXCEPT ![q] =
                  [pc |-> "write", rule |-> r, kind |-> "update",
                   copy |-> [rules[r] EXCEPT !.def = def]]]
    /\ UNCHANGED <<clock, reading, rules, rows, events, notified, jobs, tasks,
                   eval, faults, breached>>

BeginSetEnabled(q) ==
    /\ NewRequest(q)
    /\ \E r \in Rules, kind \in {"enable", "disable"} :
           /\ rules[r].status \in Exists
           /\ request' = [request EXCEPT ![q] =
                  [pc |-> "write", rule |-> r, kind |-> kind,
                   copy |-> [rules[r] EXCEPT !.status =
                       IF kind = "enable" THEN "enabled" ELSE "disabled"]]]
    /\ UNCHANGED <<clock, reading, rules, rows, events, notified, jobs, tasks,
                   eval, faults, breached>>

Reset(q) == [request EXCEPT ![q].pc = "reset"]

(* The whole row is written back, the columns another request has changed  *)
(* since included; a rule deleted meanwhile is ErrNotFound.                *)
WriteRule(q) ==
    LET a == request[q]
    IN  /\ a.pc = "write"
        /\ IF rules[a.rule].status \in Exists
             THEN /\ rules' = [rules EXCEPT ![a.rule] = a.copy]
                  /\ request' = IF a.kind = "enable"
                                  THEN [request EXCEPT ![q] = NoRequest]
                                  ELSE Reset(q)
             ELSE /\ request' = [request EXCEPT ![q] = NoRequest]
                  /\ UNCHANGED rules
        /\ UNCHANGED <<clock, reading, rows, events, notified, jobs, tasks, eval,
                       faults, edits, breached>>

WithoutRule(es, r) == {e \in es : e.key[1] # r}

RowsReset(r) == [k \in Keys |-> IF k[1] = r THEN NormalInstance ELSE rows[k]]

(* Delete: the foreign keys take the rule's states, events and delivery    *)
(* attempts with it.                                                       *)
DeleteRule(q) ==
    /\ NewRequest(q)
    /\ \E r \in Rules :
           /\ rules[r].status \in Exists
           /\ rules' = [rules EXCEPT ![r].status = "deleted"]
           /\ rows' = RowsReset(r)
           /\ events' = WithoutRule(events, r)
           /\ notified' = {n \in notified : n[1].key[1] # r}
           /\ request' = [request EXCEPT ![q] =
                  [pc |-> "reset", rule |-> r, kind |-> "delete", copy |-> None]]
    /\ UNCHANGED <<clock, reading, jobs, tasks, eval, faults, breached>>

(* DeleteByRule: the last statement of Update, Delete and disabling.       *)
ResetStates(q) ==
    /\ request[q].pc = "reset"
    /\ rows' = RowsReset(request[q].rule)
    /\ request' = [request EXCEPT ![q] = NoRequest]
    /\ UNCHANGED <<clock, reading, rules, events, notified, jobs, tasks, eval,
                   faults, edits, breached>>

(* A statement of a request fails: the request ends with an error there.   *)
RequestFails(q) ==
    /\ faults < MaxFaults
    /\ faults' = faults + 1
    /\ request[q].pc # "idle"
    /\ request' = [request EXCEPT ![q] = NoRequest]
    /\ UNCHANGED <<clock, reading, rules, rows, events, notified, jobs, tasks,
                   eval, edits, breached>>
-----------------------------------------------------------------------------
Evaluate(p) == ReadWindow(p) \/ LoadState(p) \/ CreateEvent(p) \/ Dispatch(p) \/ SaveState(p)

Environment == Tick \/ \E d \in Devices, m \in Metrics : WindowMoves(d, m) \/ Ingest(d, m)

Administer(q) ==
    \/ CreateRule(q) \/ BeginUpdate(q) \/ BeginSetEnabled(q) \/ DeleteRule(q)
    \/ WriteRule(q) \/ ResetStates(q) \/ RequestFails(q)

Next ==
    \/ Environment
    \/ StartSweep
    \/ \E w \in Workers : StartJob(w) \/ JobFails(w)
    \/ \E p \in Processes : Evaluate(p) \/ Fail(p)
    \/ \E q \in Requests : Administer(q)
    \/ Crash

Spec == Init /\ [][Next]_vars

(* The sweep ticker keeps firing and no goroutine or request stops between *)
(* two statements; telemetry, time and new requests owe nothing.           *)
Fairness ==
    /\ WF_vars(StartSweep)
    /\ \A w \in Workers : WF_vars(StartJob(w))
    /\ \A p \in Processes : WF_vars(Evaluate(p))
    /\ \A q \in Requests : WF_vars(WriteRule(q) \/ ResetStates(q))

FairSpec == Spec /\ Fairness
-----------------------------------------------------------------------------
(* Properties.                                                             *)

StateShows(state, type) ==
    \/ state = "triggered" /\ type \in AlarmTypes
    \/ state \in {"recovered", "pending"} /\ type = "recovered"

EventOf(k, inst) ==
    \E e \in events : e.key = k /\ e.at = inst.last /\ StateShows(inst.state, e.type)

(* emit comes before the upsert in every branch: whatever two goroutines,  *)
(* a crash or a rule request do between the statements, a saved alarm or   *)
(* recovery has its event in alert_events.                                 *)
EventBeforeState ==
    \A k \in Keys : rows[k].last # ZeroTime => EventOf(k, rows[k])

(* Rule.Duration: a triggered event was preceded by a breach read at least *)
(* that long before, and the evaluation that raised it read a breach too,  *)
(* also when the pending state is another goroutine's or another version   *)
(* of the rule's.                                                          *)
TriggerNeedsHeldBreach ==
    \A e \in events : e.type = "triggered" =>
        /\ [key |-> e.key, at |-> e.at] \in breached
        /\ \E b \in breached : b.key = e.key /\ b.at + e.def.duration =< e.at

(* A deleted rule never gets a state back from an evaluation, or a reset,  *)
(* that was already running.                                               *)
DeletedRuleLeavesNoState ==
    \A k \in Keys : rules[k[1]].status \notin Exists => rows[k] = NormalInstance

InDispatch == {EmittedEvent(eval[p]) : p \in {x \in Processes : eval[x].pc = "dispatch"}}

(* Events one of whose known channels has no delivery attempt, nor is      *)
(* about to get one.                                                       *)
Unheard ==
    {ev \in events : \E c \in Outlets(ev) : <<ev, c>> \notin notified} \ InDispatch

(* A channel the dispatcher does not know is never served, and says so to  *)
(* nobody.  A known one that has no delivery attempt for an event is the   *)
(* price of a fault, whatever other channels the rule has: a failed insert *)
(* or a crash costs no more than the event each goroutine had in hand,     *)
(* which is never looked for again.                                        *)
UnheardPerFault == Cardinality(Unheard) =< faults * Cardinality(Processes)

Emits(p) == eval[p].pc = "emit" /\ eval'[p].pc = "dispatch"

(* Every event records a change of state, or an alarm that goes on.        *)
EventsRecordTransitions ==
    [][\A p \in Processes : Emits(p) =>
          \/ eval[p].verdict = "continuing"
          \/ eval[p].inst.state # Applied(eval[p].inst, eval[p].verdict, eval[p].at).state]_vars

(* Rule.Cooldown: an alarm is raised only when the last event of its key   *)
(* is more than a cooldown old.                                            *)
SpacedByCooldown ==
    [][\A p \in Processes : Emits(p) /\ eval[p].verdict \in AlarmTypes =>
          \A e \in events : e.key = KeyOf(eval[p].task) =>
              e.at + eval[p].task.def.cooldown < eval[p].at]_vars

(* Two triggered events of a key have a recovered one between them.        *)
TriggersAreSeparated ==
    [][\A p \in Processes : Emits(p) /\ eval[p].verdict = "triggered" =>
          \A e \in events : e.key = KeyOf(eval[p].task) /\ e.type = "triggered" =>
              \E r \in events : /\ r.key = e.key /\ r.type = "recovered"
                                /\ e.at =< r.at /\ r.at =< eval[p].at]_vars

(* An evaluation of k would raise an alarm now.                            *)
Overdue(k) ==
    LET rule == rules[k[1]]
    IN  /\ rule.status = "enabled"
        /\ rule.def.metric = k[3] /\ k[2] \in rule.def.scope
        /\ Breaches(reading[<<k[2], k[3]>>], rule.def)
        /\ Verdict(rows[k], TRUE, rule.def, clock) \in AlarmTypes \cup {"armed"}

Breaching(k) ==
    /\ rules[k[1]].status = "enabled"
    /\ Breaches(reading[<<k[2], k[3]>>], rules[k[1]].def)

(* The sweep is the backstop of dropped jobs, failed evaluations and       *)
(* crashes: while a rule stays breached, no alarm stays due for ever.      *)
BreachIsAlarmed ==
    \A k \in Keys : <>[]Breaching(k) => []<>~Overdue(k)
=============================================================================
