------------------------------ MODULE History -------------------------------
(***************************************************************************)
(* The tables that grow with time, and what reads and deletes them by      *)
(* time while they are written: a client that pages through raw telemetry, *)
(* the window an evaluation reads, and the retention job with its bounded  *)
(* batch per table.  One tenant, device and metric.                        *)
(***************************************************************************)
EXTENDS TimeText, FiniteSets

CONSTANTS Keep,         \* retention of each table, in seconds
          Batch,        \* retention.delete_batch_size
          MaxAge,       \* telemetry.max_point_age, in seconds
          MaxSkew,      \* telemetry.max_future_skew, in seconds
          Granularity,  \* of the aggregates, in seconds: one of the four
          Limit,        \* rows a page may have
          MaxRows,      \* bound: rows each table is ever given
          MaxFaults,    \* bound: runs of the retention job that fail
          Instants,     \* bound: the times of the clock and of the points
          Queries       \* bound: the intervals a client asks for

Tables == {"points", "aggregates", "events", "attempts"}

ASSUME HistoryAssumption ==
    /\ Keep \in [Tables -> Nat] /\ MaxRows \in [Tables -> Nat]
    /\ Batch \in Nat \ {0} /\ Limit \in Nat \ {0} /\ Granularity \in Nat \ {0}
    /\ MaxAge \in Nat /\ MaxSkew \in Nat /\ MaxFaults \in Nat
    /\ Instants \subseteq Times /\ Queries \subseteq Times \X Times

(* A row's id is its rowid; event is that of an attempt's event, else 0.   *)
Rows == [id : Nat \ {0}, at : Times, event : Nat]

VARIABLES now,       \* the clock
          rows,      \* the tables, each a set of rows
          given,     \* rows each table was given so far
          cleaner,   \* Clean: the statement it is at, 0 if none; its plan's now
          reader,    \* the client: its query, its offset, the rows it got
          faults

vars == <<now, rows, given, cleaner, reader, faults>>

(* The statements of Clean, in order.                                      *)
Statement == <<"points", "aggregates", "events", "attempts">>

(* Of the rows in the interval asked for: got and twice, the rows read     *)
(* once or more and again; base, lost and late, those there at the first   *)
(* page, deleted since and inserted since.                                 *)
Readers ==
    [pc : {"idle", "paging", "done"}, start : Times, end : Times, offset : Nat,
     got : SUBSET Rows, twice : SUBSET Rows,
     base : SUBSET Rows, lost : SUBSET Rows, late : SUBSET Rows]

(* Every row has been given, under an id of its own; a run of the cleaner  *)
(* has read the clock in the past.                                         *)
TypeOK ==
    /\ now \in Times
    /\ rows \in [Tables -> SUBSET Rows]
    /\ given \in [Tables -> Nat]
    /\ \A t \in Tables : \A r \in rows[t] :
           /\ r.id =< given[t]
           /\ \A x \in rows[t] : x.id = r.id => x = r
    /\ cleaner \in [at : 0..4, now : Times]
    /\ ~Before(now, cleaner.now)
    /\ reader \in Readers
    /\ faults \in 0..MaxFaults

NoReader(a, b) ==
    [pc |-> "idle", start |-> a, end |-> b, offset |-> 0, got |-> {}, twice |-> {},
     base |-> {}, lost |-> {}, late |-> {}]

Init ==
    /\ now \in {t \in Instants : \A u \in Instants : ~Before(u, t)}
    /\ rows = [t \in Tables |-> {}]
    /\ given = [t \in Tables |-> 0]
    /\ cleaner = [at |-> 0, now |-> now]
    /\ reader = NoReader(now, now)
    /\ faults = 0
-----------------------------------------------------------------------------
Asked(r) == reader.pc = "paging" /\ InText(r.at, reader.start, reader.end)

(* Mutant: rowids from 0 on.                                               *)
NewRowFromZero(table, at, event) == [id |-> given[table], at |-> at, event |-> event]

NewRow(table, at, event) == [id |-> given[table] + 1, at |-> at, event |-> event]

Acceptable(t) == ~Before(t, Plus(now, -MaxAge)) /\ ~Before(Plus(now, MaxSkew), t)

Truncate(t) == [sec |-> t.sec - (t.sec % Granularity), d1 |-> 0, d2 |-> 0]

Aggregated(at) == \E b \in rows["aggregates"] : b.at = Truncate(at)

(* One transaction inserts a point, stamped by its device, and creates or  *)
(* updates the bucket it falls in.                                         *)
StorePoint ==
    /\ given["points"] < MaxRows["points"]
    /\ \E at \in {t \in Instants : Acceptable(t)} :
           LET p     == NewRow("points", at, 0)
               b     == NewRow("aggregates", Truncate(at), 0)
               isNew == ~Aggregated(at)
           IN  /\ rows' = [t \in Tables |->
                              IF t = "points" THEN rows[t] \cup {p}
                              ELSE IF t = "aggregates" /\ isNew THEN rows[t] \cup {b}
                              ELSE rows[t]]
               /\ given' = [t \in Tables |->
                              IF t = "points" \/ (t = "aggregates" /\ isNew)
                                THEN given[t] + 1 ELSE given[t]]
               /\ reader' = [reader EXCEPT !.late = IF Asked(p) THEN @ \cup {p} ELSE @]
    /\ UNCHANGED <<now, cleaner, faults>>

(* An alert event, and an attempt to notify of one, are stamped by the     *)
(* clock; the attempt refers to an event that is stored.                   *)
StoreEvent ==
    /\ given["events"] < MaxRows["events"]
    /\ rows' = [rows EXCEPT !["events"] = @ \cup {NewRow("events", now, 0)}]
    /\ given' = [given EXCEPT !["events"] = @ + 1]
    /\ UNCHANGED <<now, cleaner, reader, faults>>

StoreAttempt ==
    /\ given["attempts"] < MaxRows["attempts"]
    /\ \E e \in rows["events"] :
           rows' = [rows EXCEPT !["attempts"] = @ \cup {NewRow("attempts", now, e.id)}]
    /\ given' = [given EXCEPT !["attempts"] = @ + 1]
    /\ UNCHANGED <<now, cleaner, reader, faults>>

(* A delivery or a retry moves updated_at.                                 *)
TouchAttempt ==
    /\ \E a \in rows["attempts"] :
           rows' = [rows EXCEPT !["attempts"] = (@ \ {a}) \cup {[a EXCEPT !.at = now]}]
    /\ UNCHANGED <<now, given, cleaner, reader, faults>>
-----------------------------------------------------------------------------
(* Service.Run reads the clock once; four statements follow.               *)
StartClean ==
    /\ cleaner.at = 0
    /\ cleaner' = [at |-> 1, now |-> now]
    /\ UNCHANGED <<now, rows, given, reader, faults>>

(* Mutant: each statement has the retention of raw telemetry.              *)
ExpiredOneKeep(table, at) ==
    {r \in rows[table] : TextBefore(r.at, Plus(at, -Keep["points"]))}

(* Mutant: the young go and the old stay.                                  *)
ExpiredInverted(table, at) ==
    {r \in rows[table] : TextBefore(Plus(at, -Keep[table]), r.at)}

Expired(table, at) == {r \in rows[table] : TextBefore(r.at, Plus(at, -Keep[table]))}

(* Mutant: a failing LIMIT deletes nothing.                                *)
BatchesNone(S) == {{}}

(* ORDER BY ... LIMIT: the oldest by their texts, all or a full batch.     *)
Batches(S) ==
    {D \in SUBSET S : /\ \A d \in D, s \in S \ D : ~TextBefore(s.at, d.at)
                      /\ \/ Cardinality(D) = Batch
                         \/ D = S /\ Cardinality(S) < Batch}

(* Mutant: foreign keys are not enforced.                                  *)
CascadeNone(table, D) == {}

(* Deleting events deletes their attempts, of whatever age and status.     *)
Cascade(table, D) ==
    {a \in rows["attempts"] : table = "events" /\ \E d \in D : a.event = d.id}

CleanTable ==
    /\ cleaner.at > 0
    /\ LET table == Statement[cleaner.at]
       IN  \E D \in Batches(Expired(table, cleaner.now)) :
              /\ rows' = [t \in Tables |->
                             rows[t] \ ((IF t = table THEN D ELSE {}) \cup
                                        (IF t = "attempts" THEN Cascade(table, D) ELSE {}))]
              /\ reader' = [reader EXCEPT !.lost = @ \cup
                              {r \in D : table = "points" /\ Asked(r)}]
    /\ cleaner' = [cleaner EXCEPT !.at = (cleaner.at + 1) % 5]
    /\ UNCHANGED <<now, given, faults>>

(* A statement fails, or the context is cancelled: the rest of the run is  *)
(* left out, and the next starts again with the first table.               *)
CleanFails ==
    /\ cleaner.at > 0
    /\ faults < MaxFaults
    /\ faults' = faults + 1
    /\ cleaner' = [cleaner EXCEPT !.at = 0]
    /\ UNCHANGED <<now, rows, given, reader>>
-----------------------------------------------------------------------------
Found(a, b) == {r \in rows["points"] : InText(r.at, a, b)}

OpenQuery ==
    /\ reader.pc = "idle"
    /\ \E q \in Queries :
           reader' = [NoReader(q[1], q[2]) EXCEPT
                         !.pc = "paging", !.base = Found(q[1], q[2])]
    /\ UNCHANGED <<now, rows, given, cleaner, faults>>

(* ORDER BY timestamp.  A query by device and metric is answered from      *)
(* idx_telemetry_query (tenant, device, metric, timestamp), which SQLite   *)
(* walks in order; an index has the rows of one time by their rowids.      *)
Precedes(x, y) ==
    \/ TextBefore(x.at, y.at)
    \/ x.at = y.at /\ x.id < y.id

Position(r, S) == Cardinality({x \in S : Precedes(x, r)})

Page(S, offset) == {r \in S : Position(r, S) \in offset..(offset + Limit - 1)}

(* Mutant: the next offset is one too high.                                *)
NextOffsetSkips(offset) == offset + Limit + 1

(* Mutant: the next page starts at the last row of this one.               *)
NextOffsetRepeats(offset) == offset + Limit - 1

NextOffset(offset) == offset + Limit

(* The client asks for one page after another until one is not full.       *)
ReadPage ==
    LET page == Page(Found(reader.start, reader.end), reader.offset)
    IN  /\ reader.pc = "paging"
        /\ reader' = [reader EXCEPT
               !.pc = IF Cardinality(page) < Limit THEN "done" ELSE "paging",
               !.offset = NextOffset(reader.offset),
               !.got = reader.got \cup page,
               !.twice = reader.twice \cup (reader.got \cap page)]
        /\ UNCHANGED <<now, rows, given, cleaner, faults>>

(* Mutant: since and until swapped.                                        *)
InWindowSwapped(since, until) == Found(until, since)

(* WindowStats, for an evaluation: since is a rule's window, of whatever   *)
(* length, before its clock; until is read from the clock again by         *)
(* WindowReader.ReadWindow.                                                *)
InWindow(since, until) == Found(since, until)

Tick ==
    /\ now' \in {t \in Instants : Before(now, t)}
    /\ UNCHANGED <<rows, given, cleaner, reader, faults>>

Next ==
    \/ StorePoint \/ StoreEvent \/ StoreAttempt \/ TouchAttempt
    \/ StartClean \/ CleanTable \/ CleanFails
    \/ OpenQuery \/ ReadPage
    \/ Tick

Spec == Init /\ [][Next]_vars

(* The retention ticker fires again and again and its statements end.      *)
Fairness == WF_vars(StartClean) /\ WF_vars(CleanTable)

FairSpec == Spec /\ Fairness
-----------------------------------------------------------------------------
(* The windows an evaluation may ask for now, or have begun to ask for:    *)
(* of any length, up to a reading of the clock.                            *)
Windows == {w \in Instants \X Instants : Before(w[1], w[2]) /\ ~Before(now, w[2])}

(* An evaluation's window is read by text.  It has every point that lies   *)
(* in it, and no other, but for points in the very second in which the     *)
(* window begins or ends.                                                  *)
WindowOffBySecond ==
    \A w \in Windows, r \in rows["points"] :
        r.at.sec \notin {w[1].sec, w[2].sec} =>
            (r \in InWindow(w[1], w[2]) <=> InTime(r.at, w[1], w[2]))

(* "The engine evaluates after every write": a point that a device stamped *)
(* before the evaluation, and well after the window's beginning, is seen.  *)
WrittenIsSeen ==
    \A w \in Windows, r \in rows["points"] :
        w[1].sec < r.at.sec /\ Before(r.at, w[2]) => r \in InWindow(w[1], w[2])

(* Paging by offset while rows are deleted: of the rows that are there     *)
(* from the first page to the last, no more are missed than were deleted.  *)
MissedPerPurge ==
    reader.pc = "done" =>
        Cardinality((reader.base \ reader.lost) \ reader.got) =< Cardinality(reader.lost)

(* Paging by offset while rows are inserted, at any time of the interval:  *)
(* no more rows are returned a second time than were inserted.             *)
RepeatedPerLate == Cardinality(reader.twice) =< Cardinality(reader.late)

(* An attempt never outlives its event, so that no retry reports of an     *)
(* event that cannot be looked up.                                         *)
AttemptsHaveEvents ==
    \A a \in rows["attempts"] : \E e \in rows["events"] : e.id = a.event

(* Raw points and aggregates are purged apart: whatever the retention of   *)
(* raw points, a point that is stored has its bucket until that bucket is  *)
(* as old as aggregates may get.                                           *)
PointsAggregated ==
    \A p \in rows["points"] :
        Truncate(p.at).sec > now.sec - Keep["aggregates"] => Aggregated(p.at)

(* Retention never takes a row of which not even the second is old enough, *)
(* except an attempt that goes with its event.                             *)
RetentionSparesTheYoung ==
    [][\A t \in Tables : \A r \in rows[t] :
           (\A x \in rows'[t] : x.id # r.id) =>
               \/ r.at.sec =< now.sec - Keep[t]
               \/ t = "attempts" /\ \A e \in rows'["events"] : e.id # r.event]_vars

Overdue(t, r) == r.at.sec < now.sec - Keep[t]

(* Once no more rows are stored that are overdue from the start, however   *)
(* small the batch and wherever runs fail, again and again there is no row *)
(* that is more than a second overdue.                                     *)
BacklogDrains == []<>(\A t \in Tables : \A r \in rows[t] : ~Overdue(t, r))
=============================================================================
