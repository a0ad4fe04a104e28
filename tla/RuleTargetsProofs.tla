-------------------------- MODULE RuleTargetsProofs --------------------------
(***************************************************************************)
(* Proofs about RuleTargets, for any devices, rules, tags, workers, pages  *)
(* and limits.                                                             *)
(*                                                                         *)
(* Rules and devices are read at one time and used at another.  The        *)
(* inductive invariant says of every target in use, in the table or in a   *)
(* snapshot, that it was asked for, or is what the foreign key left of one *)
(* that was; and of every device the sweep has found, that it was wanted.  *)
(* A second one, Reaching, says of every device that was on target all     *)
(* along that the sweep of a small tenant has found it or will.            *)
(***************************************************************************)
EXTENDS RuleTargets, FiniteSetTheorems, TLAPS

Gone(target) == target.device # None /\ devices[target.device].status = "deleted"

Backed(rule, target) == \E a \in asked[rule] : a = target \/ Gone(a)

BackedTasks(S) == \A t \in S : Backed(t.rule, t.target)

TargetsBacked ==
    /\ \A r \in Rules : rules[r] # None => Backed(r, rules[r])
    /\ BackedTasks(sweep.todo)
    /\ sweep.pc \in {"resolve", "visit"} =>
           sweep.task \in Tasks /\ Backed(sweep.task.rule, sweep.task.target)
    /\ \A w \in Workers : BackedTasks(worker[w].todo)

FoundWanted ==
    sweep.pc \in {"resolve", "visit"} =>
        \A d \in sweep.found : Wanted(sweep.task.target, d)

WordsHad == \A d \in Devices : devices[d].words \subseteq had[d]

(* A copy in a request's hand is of a row that was there.                  *)
CopiesPresent ==
    \A q \in Requests : request[q].device # None =>
        request[q].copy.status \in {"active", "inactive"}

(* Who works on something works on a device.                               *)
Employed == \A w \in Workers : worker[w].todo # {} => worker[w].device \in Devices

IInv == /\ TypeOK /\ TargetsBacked /\ FoundWanted /\ WordsHad /\ CopiesPresent /\ Employed
        /\ OnlyDeletionWidens
-----------------------------------------------------------------------------
Sweepers == [pc : {"idle", "rules", "resolve", "visit"}, todo : SUBSET Tasks,
             task : Tasks \cup {NoTask}, offset : Nat, found : SUBSET Devices]
Jobs     == [device : Devices \cup {None}, todo : SUBSET Tasks]
Calls    == [device : Devices \cup {None}, copy : DeviceRows]

LEMMA AtType ==
    ASSUME NEW pc \in {"idle", "rules", "resolve", "visit"}, NEW todo \in SUBSET Tasks,
           NEW task \in Tasks \cup {NoTask}, NEW offset \in Nat, NEW found \in SUBSET Devices
    PROVE  /\ At(pc, todo, task, offset, found) \in Sweepers
           /\ At(pc, todo, task, offset, found).pc = pc
           /\ At(pc, todo, task, offset, found).todo = todo
           /\ At(pc, todo, task, offset, found).task = task
           /\ At(pc, todo, task, offset, found).found = found
BY DEF At, Sweepers

LEMMA EnabledType ==
    ASSUME TypeOK
    PROVE  /\ EnabledTasks \subseteq Tasks
           /\ \A t \in EnabledTasks : t.rule \in Rules /\ rules[t.rule] # None
                                      /\ t.target = rules[t.rule]
BY DEF TypeOK, EnabledTasks, Tasks

LEMMA TaskFacts ==
    ASSUME NEW t \in Tasks
    PROVE  t.rule \in Rules /\ t.target \in Targets
BY DEF Tasks

LEMMA NextRuleType ==
    ASSUME TypeOK
    PROVE  /\ NextRule \in Sweepers
           /\ NextRule.pc \in {"idle", "rules"} /\ NextRule.todo = sweep.todo
           /\ NextRule.task = NoTask /\ NextRule.found = {}
BY DEF TypeOK, NextRule, At, Sweepers

(* What one step does to the sweep.                                        *)
SweepStep ==
    /\ sweep' \in Sweepers
    /\ sweep'.todo \subseteq sweep.todo \cup EnabledTasks
    /\ sweep'.pc \in {"resolve", "visit"} =>
           \/ sweep'.task \in sweep.todo /\ sweep'.found = {}
           \/ /\ sweep.pc \in {"resolve", "visit"} /\ sweep'.task = sweep.task
              /\ \A d \in sweep'.found \ sweep.found :
                     /\ Visitable(sweep.task.target, d)
                     /\ sweep.task.target.device # None => d = sweep.task.target.device

LEMMA SweepStepHolds ==
    ASSUME TypeOK, [Next]_vars
    PROVE  SweepStep
<1>0. sweep \in Sweepers
  BY DEF TypeOK, Sweepers
<1>a. /\ sweep.todo \in SUBSET Tasks /\ sweep.task \in Tasks \cup {NoTask}
      /\ sweep.offset \in Nat /\ sweep.found \in SUBSET Devices
  BY <1>0 DEF Sweepers
<1>1. CASE UNCHANGED sweep
  BY <1>0, <1>1 DEF SweepStep, Sweepers
<1>2. CASE StartSweep
  BY <1>2, AtType, EnabledType DEF StartSweep, SweepStep
<1>3. CASE StartRule
  <2>1. PICK t \in sweep.todo : sweep' = At("resolve", sweep.todo \ {t}, t, 0, {})
    BY <1>3 DEF StartRule
  <2>2. sweep.todo \in SUBSET Tasks /\ t \in Tasks
    BY <1>0, <2>1 DEF Sweepers
  <2>3. /\ sweep' \in Sweepers /\ sweep'.todo = sweep.todo \ {t}
        /\ sweep'.task = t /\ sweep'.found = {}
    BY <2>1, <2>2, AtType
  <2> QED
    BY <2>1, <2>3 DEF SweepStep
<1>4. CASE sweep' = NextRule
  BY <1>4, NextRuleType DEF SweepStep
<1>5. CASE ResolveDevice /\ Present(sweep.task.target.device)
  <2> DEFINE found == {d \in {sweep.task.target.device} : Visitable(sweep.task.target, d)}
  <2>1. /\ sweep.pc = "resolve" /\ sweep.task.target.device # None
        /\ sweep' = At("visit", sweep.todo, sweep.task, sweep.offset, found)
    BY <1>5 DEF ResolveDevice
  <2>2. sweep.task.target.device \in Devices
    BY <1>0, <2>1 DEF Sweepers, Tasks, Targets, NoTask, NoTarget
  <2>3. found \in SUBSET Devices
    BY <2>2
  <2>4. \A d \in found : Visitable(sweep.task.target, d) /\ d = sweep.task.target.device
    OBVIOUS
  <2> HIDE DEF found
  <2>5. /\ sweep' \in Sweepers /\ sweep'.pc = "visit" /\ sweep'.todo = sweep.todo
        /\ sweep'.task = sweep.task /\ sweep'.found = found
    BY <1>a, <2>1, <2>3, AtType
  <2> QED
    BY <2>1, <2>4, <2>5 DEF SweepStep
<1>6. CASE ResolvePage
  <2> DEFINE page  == Page(PageSize, sweep.offset)
             found == sweep.found \cup {d \in page : Visitable(sweep.task.target, d)}
             pc    == IF Cardinality(page) < PageSize THEN "visit" ELSE "resolve"
  <2>1. /\ sweep.pc = "resolve" /\ sweep.task.target.device = None
        /\ sweep' = At(pc, sweep.todo, sweep.task, sweep.offset + PageSize, found)
    BY <1>6 DEF ResolvePage
  <2>2. page \subseteq Devices
    BY DEF Page
  <2>3. found \in SUBSET Devices /\ sweep.offset + PageSize \in Nat
    BY <1>0, <2>2, TargetsAssumption DEF Sweepers
  <2>4. \A d \in found \ sweep.found : Visitable(sweep.task.target, d)
    OBVIOUS
  <2>5. pc \in {"resolve", "visit"}
    OBVIOUS
  <2> HIDE DEF found, page, pc
  <2>6. /\ sweep' \in Sweepers /\ sweep'.pc = pc /\ sweep'.todo = sweep.todo
        /\ sweep'.task = sweep.task /\ sweep'.found = found
    BY <1>a, <2>1, <2>3, <2>5, AtType
  <2> QED
    BY <2>1, <2>4, <2>6 DEF SweepStep
<1>7. CASE Visit
  <2>1. PICK d \in sweep.found : /\ sweep.pc = "visit"
            /\ sweep' = At("visit", sweep.todo, sweep.task, sweep.offset, sweep.found \ {d})
    BY <1>7 DEF Visit
  <2>2. /\ sweep' \in Sweepers /\ sweep'.todo = sweep.todo
        /\ sweep'.task = sweep.task /\ sweep'.found = sweep.found \ {d}
    BY <1>a, <2>1, AtType
  <2> QED
    BY <2>1, <2>2 DEF SweepStep
<1> QED
  BY <1>1, <1>2, <1>3, <1>4, <1>5, <1>6, <1>7
     DEF Next, vars, Sweeps, ResolveDevice, EndRule, VisitFails, ResolveFails,
         JobRuleFails, StartJob, JobRule,
         CreateDevice, DeleteDevice, SetTarget, BeginWrite, Write

(* What one step does to the workers and the evaluations.                  *)
WorkerStep ==
    /\ worker' \in [Workers -> Jobs]
    /\ \A w \in Workers :
           \/ worker'[w].device = worker[w].device /\ worker'[w].todo \subseteq worker[w].todo
           \/ worker'[w].device \in Devices /\ worker'[w].todo \subseteq EnabledTasks

LEMMA WorkerStepHolds ==
    ASSUME TypeOK, [Next]_vars
    PROVE  WorkerStep
<1>0. worker \in [Workers -> Jobs]
  BY DEF TypeOK, Jobs
<1>1. CASE UNCHANGED worker
  BY <1>0, <1>1 DEF WorkerStep
<1>2. ASSUME NEW w \in Workers, NEW device \in Devices \cup {None}, NEW todo \in SUBSET Tasks,
             worker' = [worker EXCEPT ![w] = [device |-> device, todo |-> todo]],
             \/ device = worker[w].device /\ todo \subseteq worker[w].todo
             \/ device \in Devices /\ todo \subseteq EnabledTasks
      PROVE  WorkerStep
  <2> DEFINE new == [device |-> device, todo |-> todo]
  <2>1. new \in Jobs /\ new.device = device /\ new.todo = todo
    BY DEF Jobs
  <2>2. worker' = [worker EXCEPT ![w] = new]
    BY <1>2
  <2> HIDE DEF new
  <2>3. /\ worker' \in [Workers -> Jobs] /\ worker'[w] = new
        /\ \A v \in Workers \ {w} : worker'[v] = worker[v]
    BY <1>0, <2>1, <2>2
  <2> QED
    BY <1>2, <2>1, <2>3 DEF WorkerStep
<1>3. ASSUME NEW w \in Workers, StartJob(w)
      PROVE  WorkerStep
  <2>1. PICK d \in Devices :
            worker' = [worker EXCEPT ![w] = [device |-> d, todo |-> EnabledTasks]]
    BY <1>3 DEF StartJob
  <2> QED
    BY <1>2, <2>1, EnabledType
<1>4. ASSUME NEW w \in Workers, JobRule(w) \/ JobRuleFails(w)
      PROVE  WorkerStep
  <2>1. PICK t \in worker[w].todo :
            worker' = [worker EXCEPT ![w] = [device |-> worker[w].device,
                                             todo |-> worker[w].todo \ {t}]]
    BY <1>4 DEF JobRule, JobRuleFails
  <2>2. worker[w].device \in Devices \cup {None} /\ worker[w].todo \ {t} \in SUBSET Tasks
    BY <1>0 DEF Jobs
  <2> QED
    BY <1>2, <2>1, <2>2
<1> QED
  BY <1>1, <1>3, <1>4
     DEF Next, vars, Sweeps, StartSweep, StartRule, ResolveDevice, ResolvePage, Visit, EndRule,
         VisitFails, ResolveFails, CreateDevice, DeleteDevice, SetTarget, BeginWrite,
         Write

(* What one step does to the table of devices: unused rows are created,    *)
(* present ones overwritten or deleted, and deleted ones left alone.       *)
DeviceStep ==
    /\ devices' \in [Devices -> DeviceRows]
    /\ \/ devices' = devices /\ had' = had
       \/ /\ had' = [d \in Devices |-> had[d] \cup devices'[d].words]
          /\ \A d \in Devices : devices[d].status = "deleted" => devices'[d] = devices[d]
    /\ \A d \in Devices : devices'[d].status # devices[d].status =>
           devices'[d].status = "deleted" \/ (devices'[d].status \in {"active", "inactive"})

LEMMA DeviceStepHolds ==
    ASSUME TypeOK, CopiesPresent, [Next]_vars
    PROVE  DeviceStep
<1>0. devices \in [Devices -> DeviceRows]
  BY DEF TypeOK
<1>1. CASE devices' = devices /\ had' = had
  BY <1>0, <1>1 DEF DeviceStep
<1>2. ASSUME NEW d \in Devices, NEW row \in DeviceRows, devices[d].status # "deleted",
             row.status \in {"active", "inactive", "deleted"},
             DevicesBecome([devices EXCEPT ![d] = row])
      PROVE  DeviceStep
  <2>1. devices' = [devices EXCEPT ![d] = row]
    BY <1>2 DEF DevicesBecome
  <2>2. /\ devices' \in [Devices -> DeviceRows] /\ devices'[d] = row
        /\ \A x \in Devices \ {d} : devices'[x] = devices[x]
    BY <1>0, <2>1
  <2>3. had' = [x \in Devices |-> had[x] \cup devices'[x].words]
    BY <1>2, <2>1 DEF DevicesBecome
  <2> QED
    BY <1>2, <2>2, <2>3 DEF DeviceStep
<1>3. CASE CreateDevice
  <2>1. PICK d \in Devices, words \in SUBSET Tags :
            /\ devices[d].status = "unused"
            /\ DevicesBecome([devices EXCEPT ![d] = [status |-> "active", words |-> words]])
    BY <1>3 DEF CreateDevice
  <2> DEFINE row == [status |-> "active", words |-> words]
  <2>2. row \in DeviceRows /\ row.status = "active"
    BY DEF DeviceRows
  <2>3. DevicesBecome([devices EXCEPT ![d] = row]) /\ devices[d].status = "unused"
    BY <2>1
  <2> HIDE DEF row
  <2> QED
    BY <1>2, <2>2, <2>3
<1>4. CASE DeleteDevice
  <2>1. PICK d \in Devices :
            /\ Present(d)
            /\ DevicesBecome([devices EXCEPT ![d] = [status |-> "deleted",
                                                     words |-> devices[d].words]])
    BY <1>4 DEF DeleteDevice
  <2> DEFINE row == [status |-> "deleted", words |-> devices[d].words]
  <2>2. row \in DeviceRows /\ row.status = "deleted"
    BY <1>0 DEF DeviceRows
  <2>3. DevicesBecome([devices EXCEPT ![d] = row]) /\ devices[d].status # "deleted"
    BY <2>1 DEF Present
  <2> HIDE DEF row
  <2> QED
    BY <1>2, <2>2, <2>3
<1>5. ASSUME NEW q \in Requests, Write(q)
      PROVE  DeviceStep
  <2>1. CASE ~Present(request[q].device)
    BY <1>1, <1>5, <2>1 DEF Write
  <2>2. CASE Present(request[q].device)
    <3>1. /\ request[q].device # None
          /\ DevicesBecome([devices EXCEPT ![request[q].device] = request[q].copy])
      BY <1>5, <2>2 DEF Write
    <3>2. request[q].device \in Devices /\ request[q].copy \in DeviceRows
      BY <3>1 DEF TypeOK
    <3>3. request[q].copy.status \in {"active", "inactive"}
      BY <3>1 DEF CopiesPresent
    <3>4. devices[request[q].device].status # "deleted"
      BY <2>2 DEF Present
    <3> QED
      BY <1>2, <3>1, <3>2, <3>3, <3>4
  <2> QED
    BY <2>1, <2>2
<1> QED
  BY <1>1, <1>3, <1>4, <1>5
     DEF Next, vars, stored, history, Sweeps, StartSweep, StartRule, ResolveDevice,
         ResolvePage, Visit, EndRule, VisitFails, ResolveFails, JobRuleFails, StartJob,
         JobRule, SetTarget, BeginWrite

(* What one step does to the rules: a target is set, or loses its device.  *)
RuleStep ==
    /\ asked' \in [Rules -> SUBSET Targets]
    /\ rules' \in [Rules -> Targets \cup {None}]
    /\ \A r \in Rules :
           /\ asked[r] \subseteq asked'[r]
           /\ (rules'[r] # None /\ rules'[r].device # None)
                  => devices'[rules'[r].device].status \in {"active", "inactive"}
           /\ \/ rules'[r] = rules[r]
              \/ rules'[r] \in asked'[r]
              \/ /\ rules[r] # None /\ rules[r].device \in Devices
                 /\ devices'[rules[r].device].status = "deleted"
                 /\ rules'[r] = [device |-> None, tag |-> rules[r].tag]

LEMMA RuleStepHolds ==
    ASSUME TypeOK, CopiesPresent, [Next]_vars
    PROVE  RuleStep
<1>0. /\ rules \in [Rules -> Targets \cup {None}] /\ asked \in [Rules -> SUBSET Targets]
      /\ devices \in [Devices -> DeviceRows]
  BY DEF TypeOK
<1>n. \A r \in Rules : (rules[r] # None /\ rules[r].device # None)
          => (rules[r].device \in Devices
              /\ devices[rules[r].device].status \in {"active", "inactive"})
  BY DEF TypeOK, Present, Targets
<1>1. CASE /\ rules' = rules /\ asked' = asked
           /\ \A d \in Devices : devices[d].status \in {"active", "inactive"}
                  => devices'[d].status \in {"active", "inactive"}
  BY <1>0, <1>n, <1>1 DEF RuleStep
<1>2. CASE SetTarget
  <2>1. PICK r \in Rules, target \in Targets :
            /\ target.device # None => Present(target.device)
            /\ rules' = [rules EXCEPT ![r] = target]
            /\ asked' = [asked EXCEPT ![r] = @ \cup {target}]
    BY <1>2 DEF SetTarget
  <2>2. devices' = devices
    BY <1>2 DEF SetTarget
  <2>3. /\ rules' \in [Rules -> Targets \cup {None}] /\ rules'[r] = target
        /\ asked' \in [Rules -> SUBSET Targets] /\ asked'[r] = asked[r] \cup {target}
        /\ \A x \in Rules \ {r} : rules'[x] = rules[x] /\ asked'[x] = asked[x]
    BY <1>0, <2>1
  <2>4. target.device # None => devices'[target.device].status \in {"active", "inactive"}
    BY <2>1, <2>2 DEF Present
  <2> QED
    BY <1>n, <2>2, <2>3, <2>4 DEF RuleStep
<1>3. CASE DeleteDevice
  <2>1. PICK d \in Devices :
            /\ DevicesBecome([devices EXCEPT ![d] = [status |-> "deleted",
                                                     words |-> devices[d].words]])
            /\ rules' = [r \in Rules |-> Orphaned(rules[r], d)]
    BY <1>3 DEF DeleteDevice
  <2>2. asked' = asked
    BY <1>3 DEF DeleteDevice
  <2>3. /\ devices'[d].status = "deleted"
        /\ \A x \in Devices \ {d} : devices'[x] = devices[x]
    BY <1>0, <2>1 DEF DevicesBecome
  <2>4. ASSUME NEW r \in Rules
        PROVE  /\ rules'[r] \in Targets \cup {None}
               /\ \/ rules'[r] = rules[r] /\ (rules[r] # None => rules[r].device # d)
                  \/ /\ rules[r] # None /\ rules[r].device = d
                     /\ rules'[r] = [device |-> None, tag |-> rules[r].tag]
    BY <1>0, <2>1 DEF Orphaned, Targets
  <2>5. rules' \in [Rules -> Targets \cup {None}]
    BY <2>1, <2>4
  <2> QED
    BY <1>0, <1>n, <2>2, <2>3, <2>4, <2>5 DEF RuleStep
<1>4. CASE CreateDevice
  <2>1. PICK d \in Devices, words \in SUBSET Tags :
            devices' = [devices EXCEPT ![d] = [status |-> "active", words |-> words]]
    BY <1>4 DEF CreateDevice, DevicesBecome
  <2>2. rules' = rules /\ asked' = asked
    BY <1>4 DEF CreateDevice
  <2> QED
    BY <1>0, <1>1, <2>1, <2>2
<1>5. ASSUME NEW q \in Requests, Write(q)
      PROVE  RuleStep
  <2>1. rules' = rules /\ asked' = asked
    BY <1>5 DEF Write
  <2>2. CASE devices' = devices
    BY <1>1, <2>1, <2>2
  <2>3. CASE devices' = [devices EXCEPT ![request[q].device] = request[q].copy]
    <3>1. request[q].copy.status \in {"active", "inactive"}
      BY <1>5 DEF Write, CopiesPresent
    <3> QED
      BY <1>0, <1>1, <2>1, <2>3, <3>1
  <2> QED
    BY <1>5, <2>2, <2>3 DEF Write, DevicesBecome
<1> QED
  BY <1>1, <1>2, <1>3, <1>4, <1>5
     DEF Next, vars, stored, history, Sweeps, StartSweep, StartRule, ResolveDevice,
         ResolvePage, Visit, EndRule, VisitFails, ResolveFails, JobRuleFails, StartJob,
         JobRule, BeginWrite

(* What one step does to the requests, the counters and the sweep's        *)
(* history.                                                                *)
RestStep ==
    /\ created' \in [Devices -> Nat]
    /\ request' \in [Requests -> Calls] /\ CopiesPresent'
    /\ edits' \in 0..MaxEdits /\ faults' \in 0..MaxFaults
    /\ steady' \subseteq Devices /\ covered' \subseteq Devices

LEMMA RestStepHolds ==
    ASSUME TypeOK, CopiesPresent, [Next]_vars
    PROVE  RestStep
<1>0. /\ created \in [Devices -> Nat] /\ request \in [Requests -> Calls]
      /\ edits \in 0..MaxEdits /\ faults \in 0..MaxFaults
      /\ steady \subseteq Devices /\ covered \subseteq Devices
      /\ MaxEdits \in Nat /\ MaxFaults \in Nat
      /\ \A q \in Requests : request[q].device # None =>
             request[q].copy.status \in {"active", "inactive"}
  BY TargetsAssumption DEF TypeOK, Calls, CopiesPresent
<1>1. created' \in [Devices -> Nat]
  <2>1. CASE UNCHANGED created
    BY <1>0, <2>1
  <2>2. CASE CreateDevice
    <3>1. PICK d \in Devices : created' = [created EXCEPT ![d] = CreatedAt]
      BY <2>2 DEF CreateDevice
    <3> DEFINE used == {x \in Devices : devices[x].status # "unused"}
    <3>2. CreatedAt \in Nat
      <4>1. IsFiniteSet(used)
        BY TargetsAssumption, FS_Subset
      <4> QED
        BY <4>1, FS_CardinalityType DEF CreatedAt
    <3> QED
      BY <1>0, <3>1, <3>2
  <2> QED
    BY <2>1, <2>2 DEF Next, vars, stored, Sweeps, StartSweep, StartRule, ResolveDevice,
         ResolvePage, Visit, EndRule, VisitFails, ResolveFails, JobRuleFails, StartJob,
         JobRule, DeleteDevice, SetTarget,
         BeginWrite, Write
<1>2. request' \in [Requests -> Calls] /\ CopiesPresent'
  <2>1. CASE UNCHANGED request
    BY <1>0, <2>1 DEF CopiesPresent
  <2>2. ASSUME NEW q \in Requests, BeginWrite(q)
        PROVE  request' \in [Requests -> Calls] /\ CopiesPresent'
    <3>1. PICK d \in Devices, copy \in DeviceRows :
              /\ Present(d)
              /\ \/ copy.status = devices[d].status
                 \/ copy.words = devices[d].words /\ copy.status \in {"active", "inactive"}
              /\ request' = [request EXCEPT ![q] = [device |-> d, copy |-> copy]]
      BY <2>2 DEF BeginWrite
    <3>2. copy.status \in {"active", "inactive"}
      BY <3>1 DEF Present
    <3> DEFINE call == [device |-> d, copy |-> copy]
    <3>3. call \in Calls /\ call.copy = copy /\ request' = [request EXCEPT ![q] = call]
      BY <3>1 DEF Calls
    <3> HIDE DEF call
    <3> QED
      BY <1>0, <3>2, <3>3 DEF CopiesPresent
  <2>3. ASSUME NEW q \in Requests, Write(q)
        PROVE  request' \in [Requests -> Calls] /\ CopiesPresent'
    <3>1. request' = [request EXCEPT ![q] = NoRequest]
      BY <2>3 DEF Write
    <3>2. NoRequest \in Calls /\ NoRequest.device = None
      BY DEF NoRequest, Calls, DeviceRows
    <3> QED
      BY <1>0, <3>1, <3>2 DEF CopiesPresent
  <2> QED
    BY <2>1, <2>2, <2>3 DEF Next, vars, Sweeps, StartSweep, StartRule, ResolveDevice,
         ResolvePage, Visit, EndRule, VisitFails, ResolveFails, JobRuleFails, StartJob,
         JobRule, CreateDevice,
         DeleteDevice, SetTarget
<1>3. edits' \in 0..MaxEdits
  <2>1. edits' = edits \/ Edit
    BY DEF Next, vars, Sweeps, StartSweep, StartRule, ResolveDevice, ResolvePage, Visit,
         EndRule, VisitFails, ResolveFails, JobRuleFails, StartJob, JobRule, CreateDevice,
         DeleteDevice, SetTarget,
         BeginWrite, Write
  <2> QED
    BY <1>0, <2>1 DEF Edit
<1>4. faults' \in 0..MaxFaults
  <2>1. faults' = faults \/ (faults < MaxFaults /\ faults' = faults + 1)
    BY DEF Next, vars, Sweeps, StartSweep, StartRule, ResolveDevice, ResolvePage, Visit,
         EndRule, VisitFails, ResolveFails, JobRuleFails, StartJob, JobRule, CreateDevice,
         DeleteDevice, SetTarget,
         BeginWrite, Write
  <2> QED
    BY <1>0, <2>1
<1>5. steady' \subseteq Devices
  BY <1>0 DEF Next, vars, history, DevicesBecome, OnTarget, Sweeps, StartSweep, StartRule,
         ResolveDevice, ResolvePage, Visit, EndRule, VisitFails, ResolveFails,
         JobRuleFails, StartJob, JobRule,
         CreateDevice, DeleteDevice, SetTarget, BeginWrite, Write
<1>6. covered' \subseteq Devices
  BY <1>0 DEF Next, vars, history, TypeOK, Sweeps, StartSweep, StartRule,
         ResolveDevice, ResolvePage, Visit, EndRule, VisitFails, ResolveFails,
         JobRuleFails, StartJob, JobRule,
         CreateDevice, DeleteDevice, SetTarget, BeginWrite, Write
<1> QED
  BY <1>1, <1>2, <1>3, <1>4, <1>5, <1>6 DEF RestStep

(* Every evaluation is of a device wanted by a target that is backed.      *)
EvaluatedStep ==
    \/ evaluated' = evaluated
    \/ \E rule \in Rules, target \in Targets, d \in Devices :
           /\ evaluated' = evaluated \cup {<<rule, d>>}
           /\ Backed(rule, target) /\ Wanted(target, d)

LEMMA EvaluatedStepHolds ==
    ASSUME IInv, [Next]_vars
    PROVE  EvaluatedStep
<1>1. CASE UNCHANGED evaluated
  BY <1>1 DEF EvaluatedStep
<1>2. CASE Visit
  <2>1. PICK d \in sweep.found : /\ sweep.pc = "visit"
                                 /\ evaluated' = evaluated \cup {<<sweep.task.rule, d>>}
    BY <1>2 DEF Visit
  <2>2. sweep.task \in Tasks /\ Backed(sweep.task.rule, sweep.task.target)
    BY <2>1 DEF IInv, TargetsBacked
  <2>3. d \in Devices /\ Wanted(sweep.task.target, d)
    BY <2>1 DEF IInv, FoundWanted, TypeOK
  <2> QED
    BY <2>1, <2>2, <2>3, TaskFacts DEF EvaluatedStep
<1>3. ASSUME NEW w \in Workers, JobRule(w)
      PROVE  EvaluatedStep
  <2>1. PICK t \in worker[w].todo :
            evaluated' = IF Applies(t.target, worker[w].device)
                           THEN evaluated \cup {<<t.rule, worker[w].device>>}
                           ELSE evaluated
    BY <1>3 DEF JobRule
  <2>2. t \in Tasks /\ worker[w].device \in Devices /\ Backed(t.rule, t.target)
    BY <2>1 DEF IInv, TypeOK, Employed, TargetsBacked, BackedTasks
  <2>3. CASE Applies(t.target, worker[w].device)
    <3>1. Wanted(t.target, worker[w].device)
      BY <2>2, <2>3 DEF Applies, Wanted, MatchesTag, IInv, WordsHad
    <3> QED
      BY <2>1, <2>2, <2>3, <3>1, TaskFacts DEF EvaluatedStep
  <2> QED
    BY <2>1, <2>3 DEF EvaluatedStep
<1> QED
  BY <1>1, <1>2, <1>3
     DEF Next, vars, history, Sweeps, StartSweep, StartRule, ResolveDevice, ResolvePage,
         EndRule, VisitFails, ResolveFails, JobRuleFails, StartJob, CreateDevice,
         DeleteDevice, SetTarget, BeginWrite, Write
-----------------------------------------------------------------------------
(* What is backed, wanted or gone stays so.                                *)
LEMMA HistoryGrows ==
    ASSUME IInv, DeviceStep, RuleStep
    PROVE  /\ \A r \in Rules : asked[r] \subseteq asked'[r]
           /\ \A d \in Devices : /\ had[d] \subseteq had'[d]
                                 /\ devices'[d].words \subseteq had'[d]
                                 /\ devices[d].status = "deleted"
                                        => devices'[d].status = "deleted"
           /\ had' \in [Devices -> SUBSET Tags]
           /\ \A r \in Rules : \A a \in asked[r] : a \in Targets
<1>1. /\ \A r \in Rules : asked[r] \subseteq asked'[r]
      /\ \A r \in Rules : \A a \in asked[r] : a \in Targets
  BY DEF RuleStep, IInv, TypeOK
<1>0. /\ had \in [Devices -> SUBSET Tags] /\ devices' \in [Devices -> DeviceRows]
      /\ \A d \in Devices : devices'[d].words \in SUBSET Tags
      /\ \A d \in Devices : devices[d].words \subseteq had[d]
  BY DEF IInv, TypeOK, WordsHad, DeviceStep, DeviceRows
<1>2. CASE devices' = devices /\ had' = had
  BY <1>0, <1>1, <1>2
<1>3. CASE /\ had' = [d \in Devices |-> had[d] \cup devices'[d].words]
           /\ \A d \in Devices : devices[d].status = "deleted" => devices'[d] = devices[d]
  BY <1>0, <1>1, <1>3
<1> QED
  BY <1>2, <1>3 DEF DeviceStep

LEMMA GoneStays ==
    ASSUME IInv, DeviceStep, RuleStep, NEW a \in Targets, Gone(a)
    PROVE  Gone(a)'
BY HistoryGrows DEF Gone, Targets

LEMMA BackedStays ==
    ASSUME IInv, DeviceStep, RuleStep, NEW r \in Rules, NEW t, Backed(r, t)
    PROVE  Backed(r, t)'
BY HistoryGrows, GoneStays DEF Backed

LEMMA WantedStays ==
    ASSUME IInv, DeviceStep, RuleStep, NEW t, NEW d \in Devices, Wanted(t, d)
    PROVE  Wanted(t, d)'
BY HistoryGrows DEF Wanted

(* A target in the table is still backed, by the foreign key if need be.   *)
LEMMA RulesBacked ==
    ASSUME IInv, DeviceStep, RuleStep, NEW r \in Rules, rules'[r] # None
    PROVE  \E a \in asked'[r] : a = rules'[r] \/ Gone(a)'
<1>1. CASE rules'[r] \in asked'[r]
  BY <1>1
<1>2. ASSUME rules[r] # None
      PROVE  \/ rules[r] \in asked'[r]
             \/ \E a \in asked'[r] : Gone(a)'
  <2>1. PICK a \in asked[r] : a = rules[r] \/ Gone(a)
    BY <1>2 DEF IInv, TargetsBacked, Backed
  <2> QED
    BY <2>1, HistoryGrows, GoneStays
<1>3. CASE rules'[r] = rules[r]
  BY <1>2, <1>3
<1>4. CASE /\ rules[r] # None /\ rules[r].device \in Devices
           /\ devices'[rules[r].device].status = "deleted"
  <2>1. CASE rules[r] \in asked'[r]
    BY <1>4, <2>1, TargetsAssumption DEF Gone
  <2> QED
    BY <1>2, <1>4, <2>1
<1> QED
  BY <1>1, <1>3, <1>4 DEF RuleStep

(* The invariant holds at first ...                                        *)
LEMMA InitIInv == Init => IInv
<1> SUFFICES ASSUME Init PROVE IInv
  OBVIOUS
<1>1. TypeOK
  BY TargetsAssumption
     DEF Init, TypeOK, DeviceRows, IdleSweep, At, IdleWorker, NoRequest, NoTask, NoTarget
<1>2. TargetsBacked /\ FoundWanted /\ Employed
  BY DEF Init, TargetsBacked, BackedTasks, FoundWanted, Employed, IdleSweep, At, IdleWorker
<1>3. WordsHad /\ CopiesPresent /\ OnlyDeletionWidens
  BY DEF Init, WordsHad, CopiesPresent, OnlyDeletionWidens, NoRequest
<1> QED
  BY <1>1, <1>2, <1>3 DEF IInv

(* ... and every step keeps it.                                            *)
LEMMA NextIInv == IInv /\ [Next]_vars => IInv'
<1> SUFFICES ASSUME IInv, [Next]_vars PROVE IInv'
  OBVIOUS
<1>0. TypeOK /\ CopiesPresent
  BY DEF IInv
<1>1. SweepStep /\ WorkerStep
  BY <1>0, SweepStepHolds, WorkerStepHolds
<1>2. DeviceStep /\ RuleStep /\ RestStep
  BY <1>0, DeviceStepHolds, RuleStepHolds, RestStepHolds
<1>3. EvaluatedStep
  BY EvaluatedStepHolds
<1>4. TypeOK'
  <2>1. evaluated' \subseteq Rules \X Devices
    BY <1>0, <1>3 DEF EvaluatedStep, TypeOK
  <2>2. had' \in [Devices -> SUBSET Tags]
    BY <1>2, HistoryGrows
  <2>3. \A r \in Rules : rules'[r] # None /\ rules'[r].device # None
                             => devices'[rules'[r].device].status \in {"active", "inactive"}
    BY <1>2 DEF RuleStep
  <2> QED
    BY <1>1, <1>2, <2>1, <2>2, <2>3
       DEF TypeOK, SweepStep, Sweepers, WorkerStep, Jobs, DeviceStep, RuleStep, RestStep,
           Calls, Present
<1>5. ASSUME NEW t \in Tasks, Backed(t.rule, t.target)
      PROVE  Backed(t.rule, t.target)'
  BY <1>2, <1>5, BackedStays, TaskFacts
<1>6. ASSUME NEW t \in EnabledTasks
      PROVE  t \in Tasks /\ Backed(t.rule, t.target)
  BY <1>0, EnabledType DEF IInv, TargetsBacked
<1>7. TargetsBacked'
  <2>1. \A r \in Rules : rules'[r] # None => Backed(r, rules[r])'
    BY <1>2, RulesBacked DEF Backed
  <2>2. \A t \in sweep'.todo : Backed(t.rule, t.target)'
    BY <1>0, <1>1, <1>5, <1>6 DEF SweepStep, IInv, TargetsBacked, BackedTasks, TypeOK
  <2>3. sweep'.pc \in {"resolve", "visit"} =>
            sweep'.task \in Tasks /\ Backed(sweep.task.rule, sweep.task.target)'
    <3>1. SUFFICES ASSUME sweep'.pc \in {"resolve", "visit"}
                   PROVE  sweep'.task \in Tasks /\ Backed(sweep.task.rule, sweep.task.target)'
      OBVIOUS
    <3>2. PICK t \in Tasks : sweep'.task = t /\ Backed(t.rule, t.target)
      BY <1>0, <1>1, <3>1 DEF SweepStep, IInv, TargetsBacked, BackedTasks, TypeOK
    <3> QED
      BY <1>5, <3>2 DEF Backed
  <2>4. ASSUME NEW w \in Workers, NEW t \in worker'[w].todo
        PROVE  Backed(t.rule, t.target)'
    BY <1>0, <1>1, <1>5, <1>6 DEF WorkerStep, IInv, TargetsBacked, BackedTasks, TypeOK
  <2> QED
    BY <2>1, <2>2, <2>3, <2>4 DEF TargetsBacked, BackedTasks
<1>8. FoundWanted'
  <2> SUFFICES ASSUME sweep'.pc \in {"resolve", "visit"}, NEW d \in sweep'.found
               PROVE  Wanted(sweep.task.target, d)'
    BY DEF FoundWanted
  <2>1. d \in Devices
    BY <1>4 DEF TypeOK
  <2>2. PICK t : t = sweep.task.target
    OBVIOUS
  <2>3. sweep.pc \in {"resolve", "visit"} /\ sweep'.task = sweep.task
    BY <1>1 DEF SweepStep
  <2>4. Wanted(t, d)' => Wanted(sweep.task.target, d)'
    BY <2>2, <2>3 DEF Wanted
  <2>5. Wanted(t, d)
    <3>1. CASE d \in sweep.found
      BY <2>2, <2>3, <3>1 DEF IInv, FoundWanted
    <3>2. CASE d \notin sweep.found
      <4>1. Visitable(t, d) /\ (t.device # None => d = t.device)
        BY <1>1, <2>2, <2>3, <3>2 DEF SweepStep
      <4> QED
        BY <2>1, <4>1 DEF Visitable, Wanted, MatchesTag, IInv, WordsHad
    <3> QED
      BY <3>1, <3>2
  <2> QED
    BY <1>2, <2>1, <2>4, <2>5, WantedStays
<1>9. WordsHad' /\ CopiesPresent' /\ Employed'
  BY <1>0, <1>1, <1>2, HistoryGrows
     DEF WordsHad, RestStep, WorkerStep, IInv, Employed
<1>10. OnlyDeletionWidens'
  <2> DEFINE Fine(r, d) == \E target \in asked[r] : Wanted(target, d) \/ Gone(target)
  <2>1. ASSUME NEW r \in Rules, NEW d \in Devices, Fine(r, d)
        PROVE  Fine(r, d)'
    BY <1>2, <2>1, HistoryGrows, GoneStays, WantedStays
  <2>2. ASSUME NEW r \in Rules, NEW d \in Devices, NEW target \in Targets,
               Backed(r, target), Wanted(target, d)
        PROVE  Fine(r, d)
    BY <2>2 DEF Backed
  <2>3. \A e \in evaluated : e[1] \in Rules /\ e[2] \in Devices /\ Fine(e[1], e[2])
    BY <1>0 DEF TypeOK, IInv, OnlyDeletionWidens, Gone
  <2> HIDE DEF Fine
  <2>4. ASSUME NEW e \in evaluated'
        PROVE  e[1] \in Rules /\ e[2] \in Devices /\ Fine(e[1], e[2])
    BY <1>3, <2>2, <2>3 DEF EvaluatedStep
  <2>5. \A e \in evaluated' : Fine(e[1], e[2])'
    BY <2>1, <2>4
  <2> QED
    BY <2>5 DEF Fine, OnlyDeletionWidens, Gone
<1> QED
  BY <1>4, <1>7, <1>8, <1>9, <1>10 DEF IInv

THEOREM Invariant == Spec => []IInv
<1>1. IInv /\ [Next]_vars => IInv'
  BY NextIInv
<1> QED
  BY <1>1, InitIInv, PTL DEF Spec

(* Devices, rules, snapshots and requests keep their form, and no rule     *)
(* names a device that is gone.                                            *)
THEOREM TypeCorrect == Spec => []TypeOK
<1>1. IInv => TypeOK
  BY DEF IInv
<1> QED
  BY <1>1, Invariant, PTL

(* However stale the snapshots, a rule is evaluated only on devices that   *)
(* one of the targets given to it covers, until its device is deleted.     *)
THEOREM OnlyDeletionWidensHolds == Spec => []OnlyDeletionWidens
<1>1. IInv => OnlyDeletionWidens
  BY DEF IInv
<1> QED
  BY <1>1, Invariant, PTL
-----------------------------------------------------------------------------
(* The sweep reaches every device as long as the first page it asks for    *)
(* can hold them all.                                                      *)
PresentDevices == {d \in Devices : Present(d)}

FewDevices == Cardinality(PresentDevices) =< Granted(PageSize)

(* What has been on target since the rule's turn began is on target now,   *)
(* and once the first page is read it is in the sweep's hands or done.     *)
Reaching ==
    /\ sweep.pc \in {"resolve", "visit"} => steady \subseteq OnTarget(devices, sweep.task.target)
    /\ sweep.pc = "visit" \/ (sweep.pc = "resolve" /\ sweep.offset # 0) =>
           steady \subseteq sweep.found \cup covered

(* A device has fewer younger ones before it than there are devices.       *)
LEMMA PositionBelow ==
    ASSUME TypeOK, NEW d \in Devices, Present(d)
    PROVE  Position(d) \in Nat /\ Position(d) < Cardinality(PresentDevices)
<1> DEFINE before == {x \in Devices : Present(x) /\ created[x] > created[d]}
<1>1. IsFiniteSet(PresentDevices)
  BY TargetsAssumption, FS_Subset DEF PresentDevices
<1>2. before \in SUBSET PresentDevices /\ d \in PresentDevices
  BY DEF PresentDevices
<1>3. d \notin before
  BY DEF TypeOK
<1> QED
  BY <1>1, <1>2, <1>3, FS_Subset, FS_CardinalityType DEF Position

LEMMA FirstPageHasAll ==
    ASSUME TypeOK, FewDevices, NEW d \in Devices, Present(d)
    PROVE  d \in Page(PageSize, 0)
<1>1. Granted(PageSize) \in Int
  BY TargetsAssumption DEF Granted
<1>2. Cardinality(PresentDevices) \in Nat
  BY TargetsAssumption, FS_Subset, FS_CardinalityType DEF PresentDevices
<1>3. Position(d) \in 0..(0 + Granted(PageSize) - 1)
  BY <1>1, <1>2, PositionBelow DEF FewDevices
<1> QED
  BY <1>3 DEF Page

(* What the page at the sweep's offset adds: the first page adds every     *)
(* device that is on target.                                               *)
LEMMA PageAdds ==
    ASSUME TypeOK, FewDevices, NEW target, target.device = None,
           NEW d \in OnTarget(devices, target)
    PROVE  d \in {x \in Page(PageSize, 0) : Visitable(target, x)}
BY FirstPageHasAll DEF OnTarget, Visitable, Present

LEMMA InitReaching == Init => Reaching
BY DEF Init, Reaching, IdleSweep, At

(* Requests on devices only ever take devices off target.                  *)
LEMMA RequestsKeepReaching ==
    ASSUME Reaching, sweep' = sweep, covered' = covered,
           \/ devices' = devices /\ steady' = steady
           \/ \E table : DevicesBecome(table)
    PROVE  Reaching'
<1>1. PICK target : target = sweep.task.target
  OBVIOUS
<1>2. steady' \subseteq steady
  BY DEF DevicesBecome
<1>3. sweep.pc \in {"resolve", "visit"} => steady' \subseteq OnTarget(devices', target)
  BY <1>1 DEF DevicesBecome, Reaching
<1>4. OnTarget(devices', target) = OnTarget(devices, target)'
  BY DEF OnTarget
<1> QED
  BY <1>1, <1>2, <1>3 DEF Reaching

LEMMA NextReaching ==
    ASSUME TypeOK, FewDevices, Reaching, [Next]_vars
    PROVE  Reaching'
<1>a. sweep \in Sweepers
  BY DEF TypeOK, Sweepers
<1> DEFINE Requested == /\ sweep' = sweep /\ covered' = covered
                        /\ \/ devices' = devices /\ steady' = steady
                           \/ \E table : DevicesBecome(table)
<1>1. CASE Requested
  BY <1>1, RequestsKeepReaching
<1>2. CASE sweep'.pc \in {"idle", "rules"}
  BY <1>2 DEF Reaching
<1>3. CASE StartRule
  <2>1. PICK t \in sweep.todo : /\ sweep' = At("resolve", sweep.todo \ {t}, t, 0, {})
                                /\ steady' = OnTarget(devices, t.target)
    BY <1>3 DEF StartRule
  <2>2. sweep'.pc = "resolve" /\ sweep'.offset = 0 /\ sweep'.task = t /\ devices' = devices
    BY <1>3, <2>1 DEF At, StartRule, stored
  <2> QED
    BY <2>1, <2>2 DEF Reaching, OnTarget
<1>4. CASE ResolveDevice /\ Present(sweep.task.target.device)
  <2> DEFINE target == sweep.task.target
  <2>1. /\ sweep.pc = "resolve" /\ target.device # None
        /\ sweep'.task = sweep.task
        /\ sweep'.found = {d \in {target.device} : Visitable(target, d)}
        /\ devices' = devices /\ steady' = steady
    BY <1>4 DEF ResolveDevice, At, stored, history
  <2>2. steady \subseteq OnTarget(devices, target)
    BY <2>1 DEF Reaching
  <2>3. OnTarget(devices, target) \subseteq sweep'.found
    BY <2>1 DEF OnTarget, Visitable
  <2> QED
    BY <2>1, <2>2, <2>3 DEF Reaching, OnTarget
<1>5. CASE ResolvePage
  <2> DEFINE target == sweep.task.target
             page   == Page(PageSize, sweep.offset)
             fresh  == {d \in page : Visitable(target, d)}
  <2>1. /\ sweep.pc = "resolve" /\ target.device = None
        /\ sweep'.task = sweep.task
        /\ sweep'.found = sweep.found \cup fresh
        /\ devices' = devices /\ steady' = steady /\ covered' = covered
    BY <1>5 DEF ResolvePage, At, stored, history
  <2>2. steady \subseteq OnTarget(devices, target)
    BY <2>1 DEF Reaching
  <2>3. steady \subseteq sweep'.found \cup covered
    <3>1. CASE sweep.offset = 0
      BY <2>1, <2>2, <3>1, PageAdds
    <3>2. CASE sweep.offset # 0
      BY <2>1, <3>2 DEF Reaching
    <3> QED
      BY <3>1, <3>2
  <2> QED
    BY <2>1, <2>2, <2>3 DEF Reaching, OnTarget
<1>6. CASE Visit
  <2>1. PICK d \in sweep.found :
            /\ sweep.pc = "visit" /\ covered' = covered \cup {d}
            /\ sweep'.pc = "visit" /\ sweep'.task = sweep.task
            /\ sweep'.found = sweep.found \ {d}
            /\ devices' = devices /\ steady' = steady
    BY <1>6 DEF Visit, At, stored
  <2> QED
    BY <2>1 DEF Reaching, OnTarget
<1>7. sweep' = NextRule => sweep'.pc \in {"idle", "rules"}
  BY DEF NextRule, At
<1>8. StartSweep => sweep'.pc \in {"idle", "rules"}
  BY DEF StartSweep, At
<1>9. \/ Requested
      \/ StartSweep \/ StartRule \/ ResolveDevice \/ ResolvePage \/ Visit
      \/ sweep' = NextRule
  <2>1. ASSUME \/ UNCHANGED vars \/ SetTarget \/ DeleteDevice \/ CreateDevice
               \/ \E w \in Workers : StartJob(w) \/ JobRule(w) \/ JobRuleFails(w)
               \/ \E q \in Requests : BeginWrite(q)
        PROVE  Requested
    BY <2>1 DEF vars, stored, history, SetTarget, DeleteDevice, CreateDevice, StartJob,
         JobRule, JobRuleFails, BeginWrite
  <2>2. ASSUME NEW q \in Requests, Write(q)
        PROVE  Requested
    BY <2>2 DEF Write
  <2>3. EndRule \/ VisitFails \/ ResolveFails => sweep' = NextRule
    BY DEF EndRule, VisitFails, ResolveFails
  <2> QED
    BY <2>1, <2>2, <2>3 DEF Next, Sweeps
<1> QED
  BY <1>1, <1>2, <1>3, <1>4, <1>5, <1>6, <1>7, <1>8, <1>9 DEF ResolveDevice

(* While no more devices exist than the device service grants a caller     *)
(* that asks for PageSize, the sweep misses none that was on target all    *)
(* the time: whatever is created, edited and deleted between its pages,    *)
(* and whichever rules change under it.                                    *)
THEOREM SweepReachesWhileFew == Spec /\ []FewDevices => []SweepReaches
<1>1. TypeOK /\ FewDevices /\ Reaching /\ [Next]_vars => Reaching'
  BY NextReaching
<1>2. Reaching => SweepReaches
  BY DEF Reaching, SweepReaches
<1> QED
  BY <1>1, <1>2, InitReaching, TypeCorrect, PTL DEF Spec

(* The same of a tenant that never has more devices than that: the         *)
(* condition on the constants under which the run checks it.               *)
THEOREM SweepReachesSmallTenant ==
    ASSUME Cardinality(Devices) =< Granted(PageSize)
    PROVE  Spec => []SweepReaches
<1>1. FewDevices
  <2>1. PresentDevices \in SUBSET Devices
    BY DEF PresentDevices
  <2>2. IsFiniteSet(Devices) /\ IsFiniteSet(PresentDevices)
    BY <2>1, TargetsAssumption, FS_Subset
  <2>3. /\ Cardinality(PresentDevices) \in Nat /\ Cardinality(Devices) \in Nat
        /\ Granted(PageSize) \in Nat
    BY <2>2, TargetsAssumption, FS_CardinalityType DEF Granted
  <2> QED
    BY <2>1, <2>2, <2>3, FS_Subset DEF FewDevices
<1> QED
  BY <1>1, SweepReachesWhileFew, PTL
=============================================================================
