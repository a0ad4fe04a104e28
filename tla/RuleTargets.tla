----------------------------- MODULE RuleTargets -----------------------------
(***************************************************************************)
(* Which devices a rule is evaluated on.  A rule names a device, a tag, or *)
(* neither (every device of the tenant).  The sweep resolves the name by   *)
(* paging through the device service; a worker tests the one device it was *)
(* queued for.  Devices are created, edited and deleted meanwhile.         *)
(*                                                                         *)
(* One tenant.  What an evaluation does is Evaluator's subject: here it    *)
(* succeeds or fails.                                                      *)
(***************************************************************************)
EXTENDS Integers, FiniteSets

CONSTANTS Devices, Rules, Tags,
          Workers,         \* evaluation goroutines
          Requests,        \* HTTP requests on devices that may be in flight
          PageSize,        \* what evaluateRule asks List for (500 in the code)
          ServiceMax,      \* the most the device service grants (200)
          ServiceDefault,  \* what it grants a caller that asks for more (100)
          MaxEdits,        \* bound: requests on devices and rules
          MaxFaults,       \* bound: reads and evaluations that fail
          None             \* no device, no tag, no rule

ASSUME TargetsAssumption ==
    /\ None \notin Devices \cup Tags \cup Rules
    /\ IsFiniteSet(Devices)
    /\ PageSize \in Nat /\ ServiceMax \in Nat
    /\ ServiceDefault \in 1..ServiceMax
    /\ MaxEdits \in Nat /\ MaxFaults \in Nat

(* words: the tag values, type, name and location a tag is compared with.  *)
DeviceRows == [status : {"unused", "active", "inactive", "deleted"}, words : SUBSET Tags]
Targets    == [device : Devices \cup {None}, tag : Tags \cup {None}]
Tasks      == [rule : Rules, target : Targets]
NoTarget   == [device |-> None, tag |-> None]
NoTask     == [rule |-> None, target |-> NoTarget]
NoRequest  == [device |-> None, copy |-> [status |-> "unused", words |-> {}]]

VARIABLES devices,    \* table devices
          created,    \* their created_at, as a rank
          rules,      \* table alert_rules: the target of each enabled rule
          sweep,      \* the sweep goroutine: its loops in Sweep, evaluateRule
          worker,     \* per worker: the device and the rules it has left
          request,    \* Update, SetStatus between the read and the write
          edits, faults,
          asked,      \* history: the targets requests gave each rule
          had,        \* history: the words each device ever had
          steady,     \* history: devices on target since the rule's turn began
          covered,    \* history: devices the sweep has evaluated this turn
          evaluated   \* history: every <<rule, device>> evaluated

stored == <<devices, created, rules>>
history == <<asked, had, steady, covered, evaluated>>
vars == <<stored, sweep, worker, request, edits, faults, history>>

Present(d) == devices[d].status \in {"active", "inactive"}

At(pc, todo, task, offset, found) ==
    [pc |-> pc, todo |-> todo, task |-> task, offset |-> offset, found |-> found]

IdleSweep == At("idle", {}, NoTask, 0, {})
IdleWorker == [device |-> None, todo |-> {}]

(* A rule names no device that is gone: the foreign key sees to it.        *)
TypeOK ==
    /\ devices \in [Devices -> DeviceRows]
    /\ created \in [Devices -> Nat]
    /\ rules \in [Rules -> Targets \cup {None}]
    /\ \A r \in Rules : rules[r] # None /\ rules[r].device # None => Present(rules[r].device)
    /\ sweep \in [pc : {"idle", "rules", "resolve", "visit"}, todo : SUBSET Tasks,
                  task : Tasks \cup {NoTask}, offset : Nat, found : SUBSET Devices]
    /\ worker \in [Workers -> [device : Devices \cup {None}, todo : SUBSET Tasks]]
    /\ request \in [Requests -> [device : Devices \cup {None}, copy : DeviceRows]]
    /\ edits \in 0..MaxEdits /\ faults \in 0..MaxFaults
    /\ asked \in [Rules -> SUBSET Targets]
    /\ had \in [Devices -> SUBSET Tags]
    /\ steady \subseteq Devices /\ covered \subseteq Devices
    /\ evaluated \subseteq Rules \X Devices

Init ==
    /\ devices = [d \in Devices |-> [status |-> "unused", words |-> {}]]
    /\ created = [d \in Devices |-> 0]
    /\ rules = [r \in Rules |-> None]
    /\ sweep = IdleSweep
    /\ worker = [w \in Workers |-> IdleWorker]
    /\ request = [q \in Requests |-> NoRequest]
    /\ edits = 0
    /\ faults = 0
    /\ asked = [r \in Rules |-> {}]
    /\ had = [d \in Devices |-> {}]
    /\ steady = {}
    /\ covered = {}
    /\ evaluated = {}
-----------------------------------------------------------------------------
(* deviceMatchesTag.                                                       *)
MatchesTag(row, tag) == tag \in row.words

(* A device on target in a table of devices: active, and named by the      *)
(* rule, bearing its tag, or any when the rule names nothing.              *)
OnTarget(table, target) ==
    {d \in Devices :
        /\ table[d].status = "active"
        /\ target.device # None => d = target.device
        /\ target.device = None /\ target.tag # None => MatchesTag(table[d], target.tag)}

(* The rules ListEnabled and ListEnabledAll return, read once per loop.    *)
EnabledTasks == {[rule |-> r, target |-> rules[r]] : r \in {x \in Rules : rules[x] # None}}

StartSweep ==
    /\ sweep.pc = "idle"
    /\ EnabledTasks # {}
    /\ sweep' = At("rules", EnabledTasks, NoTask, 0, {})
    /\ UNCHANGED <<stored, worker, request, edits, faults, history>>

StartRule ==
    /\ sweep.pc = "rules"
    /\ \E t \in sweep.todo :
           /\ sweep' = At("resolve", sweep.todo \ {t}, t, 0, {})
           /\ steady' = OnTarget(devices, t.target)
    /\ covered' = {}
    /\ UNCHANGED <<stored, worker, request, edits, faults, asked, had, evaluated>>

NextRule ==
    At(IF sweep.todo = {} THEN "idle" ELSE "rules", sweep.todo, NoTask, 0, {})

(* The device service grants a limit out of bounds its default.            *)
Granted(limit) == IF limit > ServiceMax THEN ServiceDefault ELSE limit

(* ORDER BY created_at DESC LIMIT ? OFFSET ?                               *)
Position(d) == Cardinality({x \in Devices : Present(x) /\ created[x] > created[d]})

Page(limit, offset) ==
    {d \in Devices : Present(d) /\ Position(d) \in offset..(offset + Granted(limit) - 1)}

(* Mutant: the tag is compared for rules that name a device too.           *)
VisitableByTag(target, d) ==
    /\ target.tag # None => MatchesTag(devices[d], target.tag)
    /\ devices[d].status = "active"

(* A listed row is visited if it bears the tag and was active when read.   *)
Visitable(target, d) ==
    /\ target.device = None /\ target.tag # None => MatchesTag(devices[d], target.tag)
    /\ devices[d].status = "active"

(* Rules that name a device get that one row; ErrNotFound ends the rule.   *)
ResolveDevice ==
    LET target == sweep.task.target
    IN  /\ sweep.pc = "resolve" /\ target.device # None
        /\ sweep' = IF Present(target.device)
                      THEN At("visit", sweep.todo, sweep.task, sweep.offset,
                              {d \in {target.device} : Visitable(target, d)})
                      ELSE NextRule
        /\ UNCHANGED <<stored, worker, request, edits, faults, history>>

(* The others page through the device service until a page is short.  In   *)
(* which order the devices are visited, and whether twice, is left open.   *)
ResolvePage ==
    LET target == sweep.task.target
        page == Page(PageSize, sweep.offset)
    IN  /\ sweep.pc = "resolve" /\ target.device = None
        /\ sweep' = At(IF Cardinality(page) < PageSize THEN "visit" ELSE "resolve",
                       sweep.todo, sweep.task, sweep.offset + PageSize,
                       sweep.found \cup {d \in page : Visitable(target, d)})
        /\ UNCHANGED <<stored, worker, request, edits, faults, history>>

(* A read that fails, the device's or any page's, ends the rule too: none  *)
(* of the devices found so far is visited.                                 *)
ResolveFails ==
    /\ faults < MaxFaults
    /\ faults' = faults + 1
    /\ sweep.pc = "resolve"
    /\ sweep' = NextRule
    /\ UNCHANGED <<stored, worker, request, edits, history>>

Visit ==
    /\ sweep.pc = "visit"
    /\ \E d \in sweep.found :
           /\ covered' = covered \cup {d}
           /\ evaluated' = evaluated \cup {<<sweep.task.rule, d>>}
           /\ sweep' = At("visit", sweep.todo, sweep.task, sweep.offset, sweep.found \ {d})
    /\ UNCHANGED <<stored, worker, request, edits, faults, asked, had, steady>>

(* An evaluation that fails takes the rule's remaining devices with it.    *)
VisitFails ==
    /\ faults < MaxFaults
    /\ faults' = faults + 1
    /\ sweep.pc = "visit" /\ sweep.found # {}
    /\ sweep' = NextRule
    /\ UNCHANGED <<stored, worker, request, edits, history>>

EndRule ==
    /\ sweep.pc = "visit" /\ sweep.found = {}
    /\ sweep' = NextRule
    /\ UNCHANGED <<stored, worker, request, edits, faults, history>>
-----------------------------------------------------------------------------
(* evaluateDevice: a job for a device that sent telemetry at some time.    *)
StartJob(w) ==
    /\ worker[w].todo = {}
    /\ EnabledTasks # {}
    /\ \E d \in Devices :
           /\ devices[d].status # "unused"
           /\ worker' = [worker EXCEPT ![w] = [device |-> d, todo |-> EnabledTasks]]
    /\ UNCHANGED <<stored, sweep, request, edits, faults, history>>

(* Mutant: the device id of the rule is not compared.                      *)
AppliesByTag(target, d) ==
    target.tag # None => Present(d) /\ MatchesTag(devices[d], target.tag)

(* Neither the status of the device nor its existence is looked at, except *)
(* for the row a tag is compared with.                                     *)
Applies(target, d) ==
    /\ target.device # None => target.device = d
    /\ target.device = None /\ target.tag # None =>
           Present(d) /\ MatchesTag(devices[d], target.tag)

JobRule(w) ==
    /\ \E t \in worker[w].todo :
           /\ worker' = [worker EXCEPT ![w] = [device |-> worker[w].device,
                                              todo |-> worker[w].todo \ {t}]]
           /\ evaluated' = IF Applies(t.target, worker[w].device)
                             THEN evaluated \cup {<<t.rule, worker[w].device>>}
                             ELSE evaluated
    /\ UNCHANGED <<stored, sweep, request, edits, faults, asked, had, steady, covered>>

(* A failing read of the device counts as no match, a failing evaluation   *)
(* is only logged: the job goes on with the next rule.                     *)
JobRuleFails(w) ==
    /\ faults < MaxFaults
    /\ faults' = faults + 1
    /\ \E t \in worker[w].todo :
           worker' = [worker EXCEPT ![w] = [device |-> worker[w].device,
                                            todo |-> worker[w].todo \ {t}]]
    /\ UNCHANGED <<stored, sweep, request, edits, history>>
-----------------------------------------------------------------------------
(* Requests on devices and rules.                                          *)
Edit == edits < MaxEdits /\ edits' = edits + 1

(* Every write to the table: the ghosts follow.                            *)
DevicesBecome(table) ==
    /\ devices' = table
    /\ steady' = steady \cap OnTarget(table, sweep.task.target)
    /\ had' = [d \in Devices |-> had[d] \cup table[d].words]

CreatedAt == Cardinality({d \in Devices : devices[d].status # "unused"}) + 1

CreateDevice ==
    /\ Edit
    /\ \E d \in Devices, words \in SUBSET Tags :
           /\ devices[d].status = "unused"
           /\ DevicesBecome([devices EXCEPT ![d] = [status |-> "active", words |-> words]])
           /\ created' = [created EXCEPT ![d] = CreatedAt]
    /\ UNCHANGED <<rules, sweep, worker, request, faults, asked, covered, evaluated>>

(* Update and SetStatus read the row ...                                   *)
BeginWrite(q) ==
    /\ Edit
    /\ request[q].device = None
    /\ \E d \in Devices, copy \in DeviceRows :
           /\ Present(d)
           /\ \/ copy.status = devices[d].status
              \/ copy.words = devices[d].words /\ copy.status \in {"active", "inactive"}
           /\ request' = [request EXCEPT ![q] = [device |-> d, copy |-> copy]]
    /\ UNCHANGED <<stored, sweep, worker, faults, history>>

(* ... and write all of it back, whatever was written since.               *)
Write(q) ==
    LET a == request[q]
    IN  /\ a.device # None
        /\ request' = [request EXCEPT ![q] = NoRequest]
        /\ IF Present(a.device)
             THEN DevicesBecome([devices EXCEPT ![a.device] = a.copy])
             ELSE UNCHANGED <<devices, steady, had>>
        /\ UNCHANGED <<created, rules, sweep, worker, edits, faults, asked, covered, evaluated>>

(* Mutant: foreign keys are not enforced.                                  *)
OrphanedNot(target, d) == target

(* ON DELETE SET NULL of alert_rules.device_id.                            *)
Orphaned(target, d) ==
    IF target # None /\ target.device = d THEN [device |-> None, tag |-> target.tag] ELSE target

DeleteDevice ==
    /\ Edit
    /\ \E d \in Devices :
           /\ Present(d)
           /\ DevicesBecome([devices EXCEPT ![d] = [status |-> "deleted",
                                                    words |-> devices[d].words]])
           /\ rules' = [r \in Rules |-> Orphaned(rules[r], d)]
    /\ UNCHANGED <<created, sweep, worker, request, faults, asked, covered, evaluated>>

(* Create and Update of a rule: any combination of device and tag is       *)
(* accepted, but the foreign key wants the device to exist.                *)
SetTarget ==
    /\ Edit
    /\ \E r \in Rules, target \in Targets :
           /\ target.device # None => Present(target.device)
           /\ rules' = [rules EXCEPT ![r] = target]
           /\ asked' = [asked EXCEPT ![r] = @ \cup {target}]
    /\ UNCHANGED <<devices, created, sweep, worker, request, faults, had, steady,
                   covered, evaluated>>
-----------------------------------------------------------------------------
Sweeps == StartRule \/ ResolveDevice \/ ResolvePage \/ Visit \/ EndRule

Next ==
    \/ StartSweep \/ Sweeps \/ ResolveFails \/ VisitFails
    \/ \E w \in Workers : StartJob(w) \/ JobRule(w) \/ JobRuleFails(w)
    \/ CreateDevice \/ DeleteDevice \/ SetTarget
    \/ \E q \in Requests : BeginWrite(q) \/ Write(q)

Spec == Init /\ [][Next]_vars
-----------------------------------------------------------------------------
(* Properties.                                                             *)

(* "The sweep will catch up": when the sweep is done with a rule, every    *)
(* device that was on target all that time has been evaluated.             *)
SweepReaches ==
    sweep.pc = "visit" /\ sweep.found = {} => steady \subseteq covered

Wanted(target, d) ==
    /\ target.device # None => target.device = d
    /\ target.device = None /\ target.tag # None => target.tag \in had[d]

(* A rule is evaluated only on devices that a target somebody gave it      *)
(* covers, or everywhere once its device is deleted: stale snapshots of    *)
(* rules and of devices never widen a rule, only the foreign key does.     *)
OnlyDeletionWidens ==
    \A e \in evaluated : \E target \in asked[e[1]] :
        \/ Wanted(target, e[2])
        \/ target.device # None /\ devices[target.device].status = "deleted"
=============================================================================
