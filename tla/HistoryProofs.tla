--------------------------- MODULE HistoryProofs ----------------------------
(***************************************************************************)
(* What TimeText's order of texts preserves of the order of times, and the *)
(* invariants of History, for any retention, batch and number of rows.     *)
(*                                                                         *)
(* What a client that pages has missed or was given twice is counted by    *)
(* positions: the rows behind its offset that it was not given, and those  *)
(* ahead of it that it was (PagingInv).                                    *)
(***************************************************************************)
EXTENDS History, FiniteSetTheorems, TLAPS

(* SQL's comparison of stored times is a total order, as that of times is: *)
(* pages and batches are well defined.  It is that of times wherever the   *)
(* seconds differ.                                                         *)
THEOREM TextIsTotalOrder ==
    ASSUME NEW a \in Times, NEW b \in Times, NEW c \in Times
    PROVE  /\ ~TextBefore(a, a)
           /\ a = b \/ TextBefore(a, b) \/ TextBefore(b, a)
           /\ TextBefore(a, b) /\ TextBefore(b, c) => TextBefore(a, c)
           /\ a.sec # b.sec => (TextBefore(a, b) <=> Before(a, b))
<1>1. /\ a.sec \in Int /\ a.d1 \in 0..(Base - 1) /\ a.d2 \in 0..(Base - 1)
      /\ b.sec \in Int /\ b.d1 \in 0..(Base - 1) /\ b.d2 \in 0..(Base - 1)
      /\ c.sec \in Int /\ c.d1 \in 0..(Base - 1) /\ c.d2 \in 0..(Base - 1)
      /\ a = [sec |-> a.sec, d1 |-> a.d1, d2 |-> a.d2]
      /\ b = [sec |-> b.sec, d1 |-> b.d1, d2 |-> b.d2]
  BY DEF Times, Digits
<1>2. Base \in Nat \ {0, 1}
  BY TimeTextAssumption
<1>3. First(a) \in Int /\ First(b) \in Int /\ First(c) \in Int
  BY <1>1, <1>2 DEF First
<1>4. Second(a) \in Int /\ Second(b) \in Int /\ Second(c) \in Int
  BY <1>1, <1>2 DEF Second
<1>5. ~TextBefore(a, a)
  BY <1>1, <1>3, <1>4 DEF TextBefore
<1>6. TextBefore(a, b) /\ TextBefore(b, c) => TextBefore(a, c)
  BY <1>1, <1>3, <1>4 DEF TextBefore
<1>7. a = b \/ TextBefore(a, b) \/ TextBefore(b, a)
  <2>1. SUFFICES ASSUME a.sec = b.sec, First(a) = First(b), Second(a) = Second(b)
                 PROVE  a = b
    BY <1>1, <1>3, <1>4 DEF TextBefore
  <2>2. a.d2 = b.d2
    BY <1>1, <1>2, <2>1 DEF Second
  <2>3. a.d1 = b.d1
    BY <1>1, <1>2, <2>1, <2>2 DEF First
  <2> QED BY <1>1, <2>1, <2>2, <2>3
<1>8. a.sec # b.sec => (TextBefore(a, b) <=> Before(a, b))
  BY <1>1 DEF TextBefore, Before
<1> QED BY <1>5, <1>6, <1>7, <1>8

(* Text and time differ only on times of the same second.                  *)
LEMMA TextAgreesAcrossSeconds ==
    ASSUME NEW a \in Times, NEW b \in Times
    PROVE  /\ a.sec < b.sec => TextBefore(a, b) /\ Before(a, b)
           /\ TextBefore(a, b) => a.sec =< b.sec
           /\ Before(a, b) => a.sec =< b.sec
           /\ a.sec # b.sec => (TextBefore(a, b) <=> Before(a, b))
BY DEF Times, TextBefore, Before

LEMMA PlusType ==
    ASSUME NEW t \in Times, NEW s \in Int
    PROVE  Plus(t, s) \in Times /\ Plus(t, s).sec = t.sec + s
BY DEF Plus, Times

LEMMA TruncateType ==
    ASSUME NEW t \in Times
    PROVE  Truncate(t) \in Times
<1>1. 0 \in Digits
  BY TimeTextAssumption DEF Digits
<1>2. Granularity \in Nat \ {0}
  BY HistoryAssumption
<1>3. t.sec - (t.sec % Granularity) \in Int
  BY <1>2 DEF Times
<1> QED BY <1>1, <1>3 DEF Truncate, Times

LEMMA StatementIsTable == \A i \in 1..4 : Statement[i] \in Tables
<1>1. SUFFICES ASSUME NEW i \in 1..4 PROVE Statement[i] \in Tables
  OBVIOUS
<1>2. i = 1 \/ i = 2 \/ i = 3 \/ i = 4
  OBVIOUS
<1> QED BY <1>2 DEF Statement, Tables

(* What a statement may delete is old by the clock, to the second.         *)
LEMMA ExpiredIsOld ==
    ASSUME TypeOK, NEW t \in Tables, NEW r \in Expired(t, cleaner.now)
    PROVE  r \in rows[t] /\ r.at.sec =< now.sec - Keep[t]
<1>1. r \in rows[t] /\ TextBefore(r.at, Plus(cleaner.now, -Keep[t]))
  BY DEF Expired
<1>2. r.at \in Times /\ cleaner.now \in Times /\ now \in Times
  BY <1>1 DEF TypeOK, Rows
<1>3. -Keep[t] \in Int /\ Keep[t] \in Nat
  BY HistoryAssumption
<1>4. r.at.sec =< cleaner.now.sec - Keep[t]
  BY <1>1, <1>2, <1>3, PlusType, TextAgreesAcrossSeconds DEF Times
<1>5. cleaner.now.sec =< now.sec
  BY <1>2, TextAgreesAcrossSeconds DEF TypeOK, Times, Before
<1> QED BY <1>1, <1>2, <1>3, <1>4, <1>5 DEF Times

(* What CleanTable does to the tables.                                     *)
LEMMA CleanEffect ==
    ASSUME TypeOK, CleanTable
    PROVE  \E table \in Tables : \E D \in SUBSET Expired(table, cleaner.now) :
              rows' = [t \in Tables |->
                         rows[t] \ ((IF t = table THEN D ELSE {}) \cup
                                    (IF t = "attempts" THEN Cascade(table, D) ELSE {}))]
<1>1. cleaner.at \in 1..4
  BY DEF TypeOK, CleanTable
<1>2. Statement[cleaner.at] \in Tables
  BY <1>1, StatementIsTable
<1> QED BY <1>2 DEF CleanTable, Batches
-----------------------------------------------------------------------------
LEMMA InitTypeOK == Init => TypeOK
<1>1. SUFFICES ASSUME Init PROVE TypeOK
  OBVIOUS
<1>2. now \in Times
  BY <1>1, HistoryAssumption DEF Init
<1>3. NoReader(now, now) \in Readers
  BY <1>2 DEF NoReader, Readers
<1>4. ~Before(now, now)
  BY <1>2, TextIsTotalOrder, TimeTextAssumption DEF Before, Times, Digits
<1>5. rows \in [Tables -> SUBSET Rows] /\ given \in [Tables -> Nat]
  BY <1>1 DEF Init
<1>6. \A t \in Tables : rows[t] = {}
  BY <1>1 DEF Init
<1>7. cleaner \in [at : 0..4, now : Times] /\ cleaner.now = now
  BY <1>1, <1>2 DEF Init
<1>8. faults \in 0..MaxFaults /\ reader \in Readers
  BY <1>1, <1>3, HistoryAssumption DEF Init
<1> QED BY <1>2, <1>4, <1>5, <1>6, <1>7, <1>8 DEF TypeOK

LEMMA NewRowType ==
    ASSUME TypeOK, NEW t \in Tables, NEW at \in Times, NEW e \in Nat
    PROVE  /\ NewRow(t, at, e) \in Rows
           /\ NewRow(t, at, e).id = given[t] + 1
           /\ NewRow(t, at, e).at = at /\ NewRow(t, at, e).event = e
BY DEF NewRow, Rows, TypeOK

(* The ids of a table stay distinct when it is given a row, and when rows  *)
(* are taken.                                                              *)
Numbered(S, n) == \A r \in S : r.id =< n /\ \A x \in S : x.id = r.id => x = r

LEMMA NumberedAdd ==
    ASSUME NEW S \in SUBSET Rows, NEW n \in Nat, Numbered(S, n),
           NEW r \in Rows, r.id = n + 1
    PROVE  Numbered(S \cup {r}, n + 1)
BY DEF Numbered, Rows

LEMMA TypeNumbers == TypeOK => \A t \in Tables : Numbered(rows[t], given[t])
BY DEF TypeOK, Numbered

LEMMA StorePointType == TypeOK /\ StorePoint => TypeOK'
<1> SUFFICES ASSUME TypeOK, StorePoint PROVE TypeOK'
  OBVIOUS
<1> USE DEF Tables
<1>1. PICK at \in Instants :
         LET p     == NewRow("points", at, 0)
             b     == NewRow("aggregates", Truncate(at), 0)
             isNew == ~Aggregated(at)
         IN  /\ rows' = [t \in Tables |->
                            IF t = "points" THEN rows[t] \cup {p}
                            ELSE IF t = "aggregates" /\ isNew THEN rows[t] \cup {b}
                            ELSE rows[t]]
             /\ given' = [t \in Tables |->
                            IF t = "points" \/ (t = "aggregates" /\ isNew)
                              THEN given[t] + 1 ELSE given[t]]
             /\ reader' = [reader EXCEPT !.late = IF Asked(p) THEN @ \cup {p} ELSE @]
  BY DEF StorePoint
<1> DEFINE p     == NewRow("points", at, 0)
           b     == NewRow("aggregates", Truncate(at), 0)
           isNew == ~Aggregated(at)
<1>2. at \in Times
  BY HistoryAssumption
<1>3. p \in Rows /\ p.id = given["points"] + 1
  BY <1>2, NewRowType
<1>4. b \in Rows /\ b.id = given["aggregates"] + 1
  BY <1>2, TruncateType, NewRowType
<1> HIDE DEF p, b, isNew
<1>5. rows' \in [Tables -> SUBSET Rows] /\ given' \in [Tables -> Nat]
  BY <1>1, <1>3, <1>4 DEF TypeOK, p, b, isNew
<1>6. ASSUME NEW t \in Tables PROVE Numbered(rows'[t], given'[t])
  <2>1. Numbered(rows[t], given[t]) /\ rows[t] \in SUBSET Rows /\ given[t] \in Nat
    BY TypeNumbers DEF TypeOK
  <2>2. CASE t = "points"
    <3>1. rows'[t] = rows[t] \cup {p} /\ given'[t] = given[t] + 1
      BY <1>1, <2>2 DEF p
    <3> QED BY <3>1, <2>1, <2>2, <1>3, NumberedAdd
  <2>3. CASE t = "aggregates" /\ isNew
    <3>1. rows'[t] = rows[t] \cup {b} /\ given'[t] = given[t] + 1
      BY <1>1, <2>3 DEF b, isNew
    <3> QED BY <3>1, <2>1, <2>3, <1>4, NumberedAdd
  <2>4. CASE t # "points" /\ ~(t = "aggregates" /\ isNew)
    <3>1. rows'[t] = rows[t] /\ given'[t] = given[t]
      BY <1>1, <2>4 DEF isNew
    <3> QED BY <3>1, <2>1
  <2> QED BY <2>2, <2>3, <2>4
<1>7. reader' \in Readers
  <2>1. reader' = [reader EXCEPT !.late = IF Asked(p) THEN reader.late \cup {p} ELSE reader.late]
    BY <1>1 DEF p
  <2>2. reader.late \in SUBSET Rows
    BY DEF TypeOK, Readers
  <2>3. (IF Asked(p) THEN reader.late \cup {p} ELSE reader.late) \in SUBSET Rows
    BY <1>3, <2>2
  <2> QED BY <2>1, <2>3 DEF TypeOK, Readers
<1> QED BY <1>5, <1>6, <1>7 DEF StorePoint, TypeOK, Numbered

LEMMA StoreEventType == TypeOK /\ StoreEvent => TypeOK'
<1> SUFFICES ASSUME TypeOK, StoreEvent PROVE TypeOK'
  OBVIOUS
<1> USE DEF Tables
<1> DEFINE e == NewRow("events", now, 0)
<1>1. e \in Rows /\ e.id = given["events"] + 1
  BY NewRowType DEF TypeOK
<1>2. /\ rows' = [rows EXCEPT !["events"] = rows["events"] \cup {e}]
      /\ given' = [given EXCEPT !["events"] = given["events"] + 1]
  BY DEF StoreEvent
<1> HIDE DEF e
<1>3. rows' \in [Tables -> SUBSET Rows] /\ given' \in [Tables -> Nat]
  BY <1>1, <1>2 DEF TypeOK
<1>4. ASSUME NEW t \in Tables PROVE Numbered(rows'[t], given'[t])
  <2>1. Numbered(rows[t], given[t]) /\ rows[t] \in SUBSET Rows /\ given[t] \in Nat
    BY TypeNumbers DEF TypeOK
  <2>2. CASE t = "events"
    <3>1. rows'[t] = rows[t] \cup {e} /\ given'[t] = given[t] + 1
      BY <1>2, <2>2 DEF TypeOK
    <3> QED BY <3>1, <2>1, <2>2, <1>1, NumberedAdd
  <2>3. CASE t # "events"
    BY <1>2, <2>1, <2>3 DEF TypeOK
  <2> QED BY <2>2, <2>3
<1> QED BY <1>3, <1>4 DEF StoreEvent, TypeOK, Numbered

LEMMA StoreAttemptType == TypeOK /\ StoreAttempt => TypeOK'
<1> SUFFICES ASSUME TypeOK, StoreAttempt PROVE TypeOK'
  OBVIOUS
<1> USE DEF Tables
<1>1. PICK e \in rows["events"] :
         rows' = [rows EXCEPT !["attempts"] =
                     rows["attempts"] \cup {NewRow("attempts", now, e.id)}]
  BY DEF StoreAttempt
<1> DEFINE a == NewRow("attempts", now, e.id)
<1>2. given' = [given EXCEPT !["attempts"] = given["attempts"] + 1]
  BY DEF StoreAttempt
<1>3. e.id \in Nat
  BY DEF TypeOK, Rows
<1>4. a \in Rows /\ a.id = given["attempts"] + 1
  BY <1>3, NewRowType DEF TypeOK
<1> HIDE DEF a
<1>5. rows' = [rows EXCEPT !["attempts"] = rows["attempts"] \cup {a}]
  BY <1>1 DEF a
<1>6. rows' \in [Tables -> SUBSET Rows] /\ given' \in [Tables -> Nat]
  BY <1>2, <1>4, <1>5 DEF TypeOK
<1>7. ASSUME NEW t \in Tables PROVE Numbered(rows'[t], given'[t])
  <2>1. Numbered(rows[t], given[t]) /\ rows[t] \in SUBSET Rows /\ given[t] \in Nat
    BY TypeNumbers DEF TypeOK
  <2>2. CASE t = "attempts"
    <3>1. rows'[t] = rows[t] \cup {a} /\ given'[t] = given[t] + 1
      BY <1>2, <1>5, <2>2 DEF TypeOK
    <3> QED BY <3>1, <2>1, <2>2, <1>4, NumberedAdd
  <2>3. CASE t # "attempts"
    BY <1>2, <1>5, <2>1, <2>3 DEF TypeOK
  <2> QED BY <2>2, <2>3
<1> QED BY <1>6, <1>7 DEF StoreAttempt, TypeOK, Numbered

LEMMA TouchAttemptType == TypeOK /\ TouchAttempt => TypeOK'
<1> SUFFICES ASSUME TypeOK, TouchAttempt PROVE TypeOK'
  OBVIOUS
<1> USE DEF Tables
<1>1. PICK a \in rows["attempts"] :
         rows' = [rows EXCEPT !["attempts"] =
                     (rows["attempts"] \ {a}) \cup {[a EXCEPT !.at = now]}]
  BY DEF TouchAttempt
<1> DEFINE c == [a EXCEPT !.at = now]
<1>2. a \in Rows
  BY DEF TypeOK
<1>3. c \in Rows /\ c.id = a.id
  BY <1>2 DEF TypeOK, Rows
<1> HIDE DEF c
<1>4. rows' = [rows EXCEPT !["attempts"] = (rows["attempts"] \ {a}) \cup {c}]
  BY <1>1 DEF c
<1>5. rows' \in [Tables -> SUBSET Rows] /\ given' = given
  BY <1>3, <1>4 DEF TypeOK, TouchAttempt
<1>6. ASSUME NEW t \in Tables PROVE Numbered(rows'[t], given'[t])
  <2>1. Numbered(rows[t], given[t]) /\ rows[t] \in SUBSET Rows
    BY TypeNumbers DEF TypeOK
  <2>2. CASE t = "attempts"
    <3>1. rows'[t] = (rows[t] \ {a}) \cup {c} /\ a \in rows[t]
      BY <1>4, <2>2 DEF TypeOK
    <3> QED BY <3>1, <2>1, <1>3, <1>5 DEF Numbered
  <2>3. CASE t # "attempts"
    BY <1>4, <1>5, <2>1, <2>3 DEF TypeOK
  <2> QED BY <2>2, <2>3
<1> QED BY <1>5, <1>6 DEF TouchAttempt, TypeOK, Numbered

LEMMA CleanTableType == TypeOK /\ CleanTable => TypeOK'
<1> SUFFICES ASSUME TypeOK, CleanTable PROVE TypeOK'
  OBVIOUS
<1>1. PICK table \in Tables : \E D \in SUBSET Expired(table, cleaner.now) :
         rows' = [t \in Tables |->
                    rows[t] \ ((IF t = table THEN D ELSE {}) \cup
                               (IF t = "attempts" THEN Cascade(table, D) ELSE {}))]
  BY CleanEffect
<1>2. \A t \in Tables : rows'[t] \subseteq rows[t]
  BY <1>1
<1>3. rows' \in [Tables -> SUBSET Rows] /\ given' = given
  BY <1>1 DEF TypeOK, CleanTable
<1>4. \A t \in Tables : Numbered(rows'[t], given'[t])
  BY <1>2, <1>3, TypeNumbers DEF Numbered
<1>5. cleaner' \in [at : 0..4, now : Times] /\ cleaner'.now = cleaner.now
  BY DEF TypeOK, CleanTable
<1>6. Statement[cleaner.at] \in Tables
  BY StatementIsTable DEF TypeOK, CleanTable
<1>7. reader' \in Readers
  <2>1. PICK D \in Batches(Expired(Statement[cleaner.at], cleaner.now)) :
           reader' = [reader EXCEPT !.lost = reader.lost \cup
                        {r \in D : Statement[cleaner.at] = "points" /\ Asked(r)}]
    BY DEF CleanTable
  <2>2. D \in SUBSET Rows
    BY <1>6 DEF Batches, Expired, TypeOK
  <2>3. (reader.lost \cup {r \in D : Statement[cleaner.at] = "points" /\ Asked(r)})
            \in SUBSET Rows
    BY <2>2 DEF TypeOK, Readers
  <2> QED BY <2>1, <2>3 DEF TypeOK, Readers
<1> QED BY <1>3, <1>4, <1>5, <1>7 DEF CleanTable, TypeOK, Numbered

LEMMA ReadPageType == TypeOK /\ ReadPage => TypeOK'
<1> SUFFICES ASSUME TypeOK, ReadPage PROVE TypeOK'
  OBVIOUS
<1> DEFINE page == Page(Found(reader.start, reader.end), reader.offset)
<1>1. page \in SUBSET Rows
  BY DEF Page, Found, TypeOK, Tables
<1>2. reader' = [reader EXCEPT
               !.pc = IF Cardinality(page) < Limit THEN "done" ELSE "paging",
               !.offset = NextOffset(reader.offset),
               !.got = reader.got \cup page,
               !.twice = reader.twice \cup (reader.got \cap page)]
  BY DEF ReadPage
<1> HIDE DEF page
<1>3. /\ reader.got \cup page \in SUBSET Rows
      /\ reader.twice \cup (reader.got \cap page) \in SUBSET Rows
  BY <1>1 DEF TypeOK, Readers
<1>4. NextOffset(reader.offset) \in Nat
  BY HistoryAssumption DEF NextOffset, TypeOK, Readers
<1>5. (IF Cardinality(page) < Limit THEN "done" ELSE "paging") \in {"idle", "paging", "done"}
  OBVIOUS
<1>6. reader' \in Readers
  BY <1>2, <1>3, <1>4, <1>5 DEF TypeOK, Readers
<1> QED BY <1>6 DEF ReadPage, TypeOK

LEMMA OpenQueryType == TypeOK /\ OpenQuery => TypeOK'
<1> SUFFICES ASSUME TypeOK, OpenQuery PROVE TypeOK'
  OBVIOUS
<1>1. PICK q \in Queries :
         reader' = [NoReader(q[1], q[2]) EXCEPT
                       !.pc = "paging", !.base = Found(q[1], q[2])]
  BY DEF OpenQuery
<1>2. q[1] \in Times /\ q[2] \in Times
  BY HistoryAssumption
<1>3. Found(q[1], q[2]) \in SUBSET Rows
  BY DEF Found, TypeOK, Tables
<1>4. reader' \in Readers
  BY <1>1, <1>2, <1>3 DEF NoReader, Readers
<1> QED BY <1>4 DEF OpenQuery, TypeOK

LEMMA RestType ==
    TypeOK /\ (StartClean \/ CleanFails \/ Tick \/ UNCHANGED vars) => TypeOK'
<1> SUFFICES ASSUME TypeOK, StartClean \/ CleanFails \/ Tick \/ UNCHANGED vars PROVE TypeOK'
  OBVIOUS
<1>1. CASE StartClean
  <2>1. ~Before(now, now)
    BY TimeTextAssumption DEF TypeOK, Before, Times, Digits
  <2> QED BY <1>1, <2>1 DEF StartClean, TypeOK
<1>2. CASE CleanFails
  BY <1>2, HistoryAssumption DEF CleanFails, TypeOK
<1>3. CASE Tick
  <2>1. now' \in Times /\ Before(now, now')
    BY <1>3, HistoryAssumption DEF Tick
  <2>2. ~Before(now', cleaner.now)
    BY <2>1, TimeTextAssumption DEF TypeOK, Before, Times, Digits
  <2> QED BY <1>3, <2>1, <2>2 DEF Tick, TypeOK
<1>4. CASE UNCHANGED vars
  BY <1>4 DEF vars, TypeOK
<1> QED BY <1>1, <1>2, <1>3, <1>4

LEMMA NextTypeOK == TypeOK /\ [Next]_vars => TypeOK'
BY StorePointType, StoreEventType, StoreAttemptType, TouchAttemptType, CleanTableType,
   ReadPageType, OpenQueryType, RestType DEF Next

(* The types, for any number of rows and times: ids are never given twice, *)
(* and a run of the cleaner never has a clock ahead of the system's.       *)
THEOREM TypeCorrect == Spec => []TypeOK
BY InitTypeOK, NextTypeOK, PTL DEF Spec
-----------------------------------------------------------------------------
(* A point of another second than the window's bounds is in it exactly     *)
(* when its time is.                                                       *)
THEOREM WindowIsOffBySecond == Spec => []WindowOffBySecond
<1>1. TypeOK => WindowOffBySecond
  <2> SUFFICES ASSUME TypeOK, NEW w \in Windows, NEW r \in rows["points"],
                      r.at.sec \notin {w[1].sec, w[2].sec}
               PROVE  r \in InWindow(w[1], w[2]) <=> InTime(r.at, w[1], w[2])
    BY DEF WindowOffBySecond
  <2>1. r.at \in Times /\ w[1] \in Times /\ w[2] \in Times
    BY HistoryAssumption DEF TypeOK, Rows, Tables, Windows
  <2>2. /\ TextBefore(r.at, w[1]) <=> Before(r.at, w[1])
        /\ TextBefore(r.at, w[2]) <=> Before(r.at, w[2])
    BY <2>1, TextAgreesAcrossSeconds
  <2> QED BY <2>2 DEF InWindow, Found, InText, InTime
<1> QED BY <1>1, TypeCorrect, PTL

(* Attempts go with their events, whatever is purged in whatever order.    *)
THEOREM AttemptsKeepEvents == Spec => []AttemptsHaveEvents
<1> USE DEF Tables
<1>1. Init => AttemptsHaveEvents
  BY DEF Init, AttemptsHaveEvents
<1>2. TypeOK /\ AttemptsHaveEvents /\ [Next]_vars => AttemptsHaveEvents'
  <2> SUFFICES ASSUME TypeOK, AttemptsHaveEvents, [Next]_vars
               PROVE  AttemptsHaveEvents'
    OBVIOUS
  <2>1. CASE StorePoint
    <3>1. rows'["attempts"] = rows["attempts"] /\ rows'["events"] = rows["events"]
      BY <2>1 DEF StorePoint
    <3> QED BY <3>1 DEF AttemptsHaveEvents
  <2>2. CASE StoreEvent
    <3>1. /\ rows'["attempts"] = rows["attempts"]
          /\ rows["events"] \subseteq rows'["events"]
      BY <2>2 DEF StoreEvent, TypeOK
    <3> QED BY <3>1 DEF AttemptsHaveEvents
  <2>3. CASE StoreAttempt
    <3>1. PICK e \in rows["events"] :
             rows' = [rows EXCEPT !["attempts"] =
                         rows["attempts"] \cup {NewRow("attempts", now, e.id)}]
      BY <2>3 DEF StoreAttempt
    <3>2. /\ rows'["attempts"] = rows["attempts"] \cup {NewRow("attempts", now, e.id)}
          /\ rows'["events"] = rows["events"]
      BY <3>1 DEF TypeOK
    <3>3. NewRow("attempts", now, e.id).event = e.id
      BY DEF NewRow
    <3> QED BY <3>2, <3>3 DEF AttemptsHaveEvents
  <2>4. CASE TouchAttempt
    <3>1. PICK a \in rows["attempts"] :
             rows' = [rows EXCEPT !["attempts"] =
                         (rows["attempts"] \ {a}) \cup {[a EXCEPT !.at = now]}]
      BY <2>4 DEF TouchAttempt
    <3>2. /\ rows'["attempts"] = (rows["attempts"] \ {a}) \cup {[a EXCEPT !.at = now]}
          /\ rows'["events"] = rows["events"]
      BY <3>1 DEF TypeOK
    <3>3. [a EXCEPT !.at = now].event = a.event
      BY DEF TypeOK, Rows
    <3> QED BY <3>2, <3>3 DEF AttemptsHaveEvents
  <2>5. CASE CleanTable
    <3>1. PICK table \in Tables : \E D \in SUBSET Expired(table, cleaner.now) :
             rows' = [t \in Tables |->
                        rows[t] \ ((IF t = table THEN D ELSE {}) \cup
                                   (IF t = "attempts" THEN Cascade(table, D) ELSE {}))]
      BY <2>5, CleanEffect
    <3>2. PICK D \in SUBSET Expired(table, cleaner.now) :
             rows' = [t \in Tables |->
                        rows[t] \ ((IF t = table THEN D ELSE {}) \cup
                                   (IF t = "attempts" THEN Cascade(table, D) ELSE {}))]
      BY <3>1
    <3>3. SUFFICES ASSUME NEW a \in rows'["attempts"]
                   PROVE  \E e \in rows'["events"] : e.id = a.event
      BY DEF AttemptsHaveEvents
    <3>4. a \in rows["attempts"] /\ a \notin Cascade(table, D)
      BY <3>2
    <3>5. PICK e \in rows["events"] : e.id = a.event
      BY <3>4 DEF AttemptsHaveEvents
    <3>6. ~(table = "events" /\ e \in D)
      BY <3>4, <3>5 DEF Cascade
    <3>7. e \in rows'["events"]
      BY <3>2, <3>5, <3>6
    <3> QED BY <3>5, <3>7
  <2>6. CASE UNCHANGED rows
    BY <2>6 DEF AttemptsHaveEvents
  <2> QED BY <2>1, <2>2, <2>3, <2>4, <2>5, <2>6
          DEF Next, vars, StartClean, CleanFails, OpenQuery, ReadPage, Tick
<1> QED BY <1>1, <1>2, TypeCorrect, PTL DEF Spec

(* Retention spares what is young, and what it takes besides is attempts   *)
(* of events that go in the same step.                                     *)
THEOREM YoungAreSpared == Spec => RetentionSparesTheYoung
<1> USE DEF Tables
<1>1. ASSUME TypeOK, [Next]_vars, NEW t \in Tables, NEW r \in rows[t],
             \A x \in rows'[t] : x.id # r.id
      PROVE  \/ r.at.sec =< now.sec - Keep[t]
             \/ t = "attempts" /\ \A e \in rows'["events"] : e.id # r.event
  <2>1. CASE StorePoint
    <3>1. rows[t] \subseteq rows'[t]
      BY <2>1 DEF StorePoint
    <3> QED BY <3>1, <1>1
  <2>2. CASE StoreEvent \/ StoreAttempt
    <3>1. rows[t] \subseteq rows'[t]
      BY <1>1, <2>2 DEF StoreEvent, StoreAttempt, TypeOK
    <3> QED BY <3>1, <1>1
  <2>3. CASE TouchAttempt
    <3>1. PICK a \in rows["attempts"] :
             rows' = [rows EXCEPT !["attempts"] =
                         (rows["attempts"] \ {a}) \cup {[a EXCEPT !.at = now]}]
      BY <2>3 DEF TouchAttempt
    <3>2. [a EXCEPT !.at = now].id = a.id
      BY <1>1 DEF TypeOK, Rows
    <3>3. CASE t = "attempts"
      <4>1. rows'[t] = (rows[t] \ {a}) \cup {[a EXCEPT !.at = now]}
        BY <1>1, <3>1, <3>3 DEF TypeOK
      <4> QED BY <4>1, <3>2, <1>1
    <3>4. CASE t # "attempts"
      BY <1>1, <3>1, <3>4 DEF TypeOK
    <3> QED BY <3>3, <3>4
  <2>4. CASE CleanTable
    <3>1. PICK table \in Tables : \E D \in SUBSET Expired(table, cleaner.now) :
             rows' = [u \in Tables |->
                        rows[u] \ ((IF u = table THEN D ELSE {}) \cup
                                   (IF u = "attempts" THEN Cascade(table, D) ELSE {}))]
      BY <1>1, <2>4, CleanEffect
    <3>2. PICK D \in SUBSET Expired(table, cleaner.now) :
             rows' = [u \in Tables |->
                        rows[u] \ ((IF u = table THEN D ELSE {}) \cup
                                   (IF u = "attempts" THEN Cascade(table, D) ELSE {}))]
      BY <3>1
    <3>3. r \notin rows'[t]
      BY <1>1
    <3>4. CASE t = table /\ r \in D
      <4>1. r \in Expired(t, cleaner.now)
        BY <3>4
      <4> QED BY <1>1, <4>1, ExpiredIsOld
    <3>5. CASE t = "attempts" /\ r \in Cascade(table, D)
      <4>1. table = "events"
        BY <3>5 DEF Cascade
      <4>2. PICK d \in D : r.event = d.id
        BY <3>5 DEF Cascade
      <4>3. d \in rows["events"]
        BY <4>1 DEF Expired
      <4>4. rows'["events"] = rows["events"] \ D
        BY <3>2, <4>1
      <4>5. \A e \in rows["events"] : e.id = d.id => e = d
        BY <1>1, <4>3 DEF TypeOK
      <4> QED BY <3>5, <4>2, <4>4, <4>5
    <3> QED BY <3>2, <3>3, <3>4, <3>5
  <2>5. CASE UNCHANGED rows
    BY <1>1, <2>5
  <2> QED BY <1>1, <2>1, <2>2, <2>3, <2>4, <2>5
          DEF Next, vars, StartClean, CleanFails, OpenQuery, ReadPage, Tick
<1>2. TypeOK /\ [Next]_vars =>
         [\A t \in Tables : \A r \in rows[t] :
             (\A x \in rows'[t] : x.id # r.id) =>
               \/ r.at.sec =< now.sec - Keep[t]
               \/ t = "attempts" /\ \A e \in rows'["events"] : e.id # r.event]_vars
  BY <1>1
<1> QED BY <1>2, TypeCorrect, PTL DEF Spec, RetentionSparesTheYoung

LEMMA KeptPointsAggregated ==
    ASSUME TypeOK, PointsAggregated, TypeOK',
           rows'["points"] \subseteq rows["points"],
           rows["aggregates"] \subseteq rows'["aggregates"],
           now.sec =< now'.sec
    PROVE  PointsAggregated'
<1>1. SUFFICES ASSUME NEW p \in rows'["points"],
                      Truncate(p.at).sec > now'.sec - Keep["aggregates"]
               PROVE  \E b \in rows'["aggregates"] : b.at = Truncate(p.at)
  BY DEF PointsAggregated, Aggregated
<1>2. p \in rows["points"] /\ p.at \in Times
  BY <1>1 DEF TypeOK, Rows, Tables
<1>3. /\ Truncate(p.at).sec \in Int /\ now.sec \in Int /\ now'.sec \in Int
      /\ Keep["aggregates"] \in Int
  BY <1>2, TruncateType, HistoryAssumption DEF TypeOK, Times, Tables
<1>4. Truncate(p.at).sec > now.sec - Keep["aggregates"]
  BY <1>1, <1>3
<1>5. \E b \in rows["aggregates"] : b.at = Truncate(p.at)
  BY <1>2, <1>4 DEF PointsAggregated, Aggregated
<1> QED BY <1>5

(* A point's bucket is there until it is as old as aggregates may get, for *)
(* any pair of retentions and any batch.                                   *)
THEOREM PointsAreAggregated == Spec => []PointsAggregated
<1> USE DEF Tables
<1>1. Init => PointsAggregated
  BY DEF Init, PointsAggregated
<1>2. TypeOK /\ PointsAggregated /\ [Next]_vars => PointsAggregated'
  <2> SUFFICES ASSUME TypeOK, PointsAggregated, [Next]_vars PROVE PointsAggregated'
    OBVIOUS
  <2> TypeOK'
    BY NextTypeOK
  <2>1. now.sec =< now.sec
    BY DEF TypeOK, Times
  <2>2. CASE StorePoint
    <3>1. PICK at \in Instants :
             LET p     == NewRow("points", at, 0)
                 b     == NewRow("aggregates", Truncate(at), 0)
                 isNew == ~Aggregated(at)
             IN  rows' = [t \in Tables |->
                            IF t = "points" THEN rows[t] \cup {p}
                            ELSE IF t = "aggregates" /\ isNew THEN rows[t] \cup {b}
                            ELSE rows[t]]
      BY <2>2 DEF StorePoint
    <3>2. /\ rows'["points"] = rows["points"] \cup {NewRow("points", at, 0)}
          /\ rows["aggregates"] \subseteq rows'["aggregates"]
          /\ ~Aggregated(at) => NewRow("aggregates", Truncate(at), 0) \in rows'["aggregates"]
      BY <3>1
    <3>3. \E b \in rows'["aggregates"] : b.at = Truncate(at)
      BY <3>2 DEF Aggregated, NewRow
    <3>4. NewRow("points", at, 0).at = at
      BY DEF NewRow
    <3>5. now' = now
      BY <2>2 DEF StorePoint
    <3>6. SUFFICES ASSUME NEW p \in rows'["points"],
                          Truncate(p.at).sec > now.sec - Keep["aggregates"]
                   PROVE  \E b \in rows'["aggregates"] : b.at = Truncate(p.at)
      BY <3>5 DEF PointsAggregated, Aggregated
    <3>7. CASE p = NewRow("points", at, 0)
      BY <3>3, <3>4, <3>7
    <3>8. CASE p \in rows["points"]
      <4>1. \E b \in rows["aggregates"] : b.at = Truncate(p.at)
        BY <3>6, <3>8 DEF PointsAggregated, Aggregated
      <4> QED BY <4>1, <3>2
    <3> QED BY <3>2, <3>7, <3>8
  <2>3. CASE StoreEvent \/ StoreAttempt \/ TouchAttempt
    <3>1. /\ rows'["points"] = rows["points"] /\ now' = now
          /\ rows'["aggregates"] = rows["aggregates"]
      BY <2>3 DEF StoreEvent, StoreAttempt, TouchAttempt, TypeOK
    <3> QED BY <3>1, <2>1, KeptPointsAggregated
  <2>4. CASE CleanTable
    <3>1. PICK table \in Tables : \E D \in SUBSET Expired(table, cleaner.now) :
             rows' = [t \in Tables |->
                        rows[t] \ ((IF t = table THEN D ELSE {}) \cup
                                   (IF t = "attempts" THEN Cascade(table, D) ELSE {}))]
      BY <2>4, CleanEffect
    <3>2. PICK D \in SUBSET Expired(table, cleaner.now) :
             rows' = [t \in Tables |->
                        rows[t] \ ((IF t = table THEN D ELSE {}) \cup
                                   (IF t = "attempts" THEN Cascade(table, D) ELSE {}))]
      BY <3>1
    <3>3. now' = now
      BY <2>4 DEF CleanTable
    <3>4. SUFFICES ASSUME NEW p \in rows'["points"],
                          Truncate(p.at).sec > now.sec - Keep["aggregates"]
                   PROVE  \E b \in rows'["aggregates"] : b.at = Truncate(p.at)
      BY <3>3 DEF PointsAggregated, Aggregated
    <3>5. p \in rows["points"] /\ p.at \in Times
      BY <3>2 DEF TypeOK, Rows
    <3>6. PICK b \in rows["aggregates"] : b.at = Truncate(p.at)
      BY <3>4, <3>5 DEF PointsAggregated, Aggregated
    <3>7. ~(table = "aggregates" /\ b \in D)
      <4>1. SUFFICES ASSUME table = "aggregates", b \in D PROVE FALSE
        OBVIOUS
      <4>2. b.at.sec =< now.sec - Keep["aggregates"]
        BY <4>1, ExpiredIsOld
      <4>3. b.at.sec \in Int /\ now.sec \in Int /\ Keep["aggregates"] \in Int
        BY <3>6, HistoryAssumption DEF TypeOK, Rows, Times
      <4> QED BY <3>4, <3>6, <4>2, <4>3
    <3>8. b \in rows'["aggregates"]
      BY <3>2, <3>6, <3>7
    <3> QED BY <3>6, <3>8
  <2>5. CASE Tick
    <3>1. rows' = rows /\ now.sec =< now'.sec
      BY <2>5, HistoryAssumption, TextAgreesAcrossSeconds DEF Tick, TypeOK
    <3> QED BY <3>1, KeptPointsAggregated
  <2>6. CASE UNCHANGED <<rows, now>>
    BY <2>1, <2>6, KeptPointsAggregated
  <2> QED BY <2>2, <2>3, <2>4, <2>5, <2>6
          DEF Next, vars, StartClean, CleanFails, OpenQuery, ReadPage
<1> QED BY <1>1, <1>2, TypeCorrect, PTL DEF Spec
-----------------------------------------------------------------------------
(* Paging by offset.  A row's position is its rank among the rows of the   *)
(* interval, and the offset is a rank: deleting n rows moves at most n     *)
(* others to below the offset, and inserting one moves at most one to      *)
(* above it.  The invariant counts, while the client pages, the rows it is *)
(* yet to get that are already behind it, and those it has got that are    *)
(* still ahead of it.                                                      *)
Selected(P, a, b) == {r \in P : InText(r.at, a, b)}

Behind(T, S, offset) == {r \in T : Position(r, S) < offset}

Ahead(T, S, offset) == {r \in T \cap S : Position(r, S) >= offset}

(* P: the points; n: how many were ever given; rd: the reader.             *)
PagingOK(P, n, rd) ==
    LET S == Selected(P, rd.start, rd.end)
    IN  /\ rd.base \ rd.lost \subseteq S /\ rd.lost \cap P = {}
        /\ IsFiniteSet(rd.base) /\ IsFiniteSet(rd.lost) /\ IsFiniteSet(rd.late)
        /\ IsFiniteSet(rd.got) /\ IsFiniteSet(rd.twice)
        /\ \A r \in rd.lost \cup rd.late \cup rd.got : r.id =< n
        /\ Cardinality(Behind((rd.base \ rd.lost) \ rd.got, S, rd.offset)) =< Cardinality(rd.lost)
        /\ Cardinality(rd.twice \cup Ahead(rd.got, S, rd.offset)) =< Cardinality(rd.late)

PagingInv ==
    /\ IsFiniteSet(rows["points"])
    /\ reader.pc = "idle" => reader.twice = {} /\ reader.late = {}
    /\ reader.pc = "paging" => PagingOK(rows["points"], given["points"], reader)
    /\ MissedPerPurge /\ RepeatedPerLate

(* The order of a page, among rows with ids of their own.                  *)
Distinct(S) == \A x \in S, y \in S : x.id = y.id => x = y

LEMMA PrecedesOrders ==
    ASSUME NEW x \in Rows, NEW y \in Rows, NEW z \in Rows
    PROVE  /\ ~Precedes(x, x)
           /\ x.id # y.id => Precedes(x, y) \/ Precedes(y, x)
           /\ Precedes(x, y) /\ Precedes(y, z) => Precedes(x, z)
<1>1. /\ x.at \in Times /\ y.at \in Times /\ z.at \in Times
      /\ x.id \in Nat /\ y.id \in Nat /\ z.id \in Nat
  BY DEF Rows
<1>2. ~TextBefore(x.at, x.at)
  BY <1>1, TextIsTotalOrder
<1>3. x.at = y.at \/ TextBefore(x.at, y.at) \/ TextBefore(y.at, x.at)
  BY <1>1, TextIsTotalOrder
<1>4. TextBefore(x.at, y.at) /\ TextBefore(y.at, z.at) => TextBefore(x.at, z.at)
  BY <1>1, TextIsTotalOrder
<1> QED
  BY <1>1, <1>2, <1>3, <1>4 DEF Precedes

LEMMA PositionType ==
    ASSUME NEW S, IsFiniteSet(S), NEW r
    PROVE  Position(r, S) \in Nat
<1>1. {x \in S : Precedes(x, r)} \in SUBSET S
  OBVIOUS
<1>2. IsFiniteSet({x \in S : Precedes(x, r)})
  BY <1>1, FS_Subset
<1> QED
  BY <1>2, FS_CardinalityType DEF Position

(* A row's position is above that of the rows before it.                   *)
LEMMA PositionRises ==
    ASSUME NEW S \in SUBSET Rows, IsFiniteSet(S), NEW x \in S, NEW y \in S, Precedes(x, y)
    PROVE  Position(x, S) < Position(y, S)
<1> DEFINE X == {z \in S : Precedes(z, x)}
           Y == {z \in S : Precedes(z, y)}
<1>1. X \in SUBSET Y /\ Y \in SUBSET S
  BY PrecedesOrders
<1>2. x \in Y /\ x \notin X
  BY PrecedesOrders
<1>3. IsFiniteSet(X) /\ IsFiniteSet(Y)
  BY <1>1, FS_Subset
<1>4. Cardinality(X) \in Nat /\ Cardinality(Y) \in Nat
  BY <1>3, FS_CardinalityType
<1>5. Cardinality(X) =< Cardinality(Y) /\ Cardinality(X) # Cardinality(Y)
  BY <1>1, <1>2, <1>3, FS_Subset
<1> HIDE DEF X, Y
<1>6. Cardinality(X) < Cardinality(Y)
  BY <1>4, <1>5
<1> QED
  BY <1>6 DEF Position, X, Y

(* No two rows have one position: no row is on two pages of a listing that *)
(* nobody changes.                                                         *)
LEMMA PositionInjective ==
    ASSUME NEW S \in SUBSET Rows, IsFiniteSet(S), Distinct(S),
           NEW x \in S, NEW y \in S, Position(x, S) = Position(y, S)
    PROVE  x = y
<1>1. Position(x, S) \in Nat /\ Position(y, S) \in Nat
  BY PositionType
<1>2. ~Precedes(x, y) /\ ~Precedes(y, x)
  BY <1>1, PositionRises
<1> QED
  BY <1>2, PrecedesOrders DEF Distinct

(* At most n rows have n successive positions.                             *)
LEMMA FewAtPositions ==
    ASSUME NEW S \in SUBSET Rows, IsFiniteSet(S), Distinct(S),
           NEW T \in SUBSET S, NEW lo \in Nat, NEW n \in Nat,
           \A x \in T : Position(x, S) \in lo..(lo + n - 1)
    PROVE  IsFiniteSet(T) /\ Cardinality(T) =< n
<1> DEFINE f == [x \in T |-> Position(x, S)]
           I == lo..(lo + n - 1)
<1>1. IsFiniteSet(I) /\ Cardinality(I) = n
  BY FS_Interval
<1>2. f \in Injection(T, I)
  BY PositionInjective DEF Injection, IsInjective
<1> HIDE DEF f, I
<1> QED
  BY <1>1, <1>2, FS_Injection

(* A page that is not full is the last.                                    *)
LEMMA ShortPageIsLast ==
    ASSUME NEW S \in SUBSET Rows, IsFiniteSet(S), Distinct(S), NEW o \in Nat,
           Cardinality(Page(S, o)) < Limit, NEW r \in S
    PROVE  Position(r, S) < o + Limit
<1>1. Limit \in Nat /\ Position(r, S) \in Nat
  BY HistoryAssumption, PositionType
<1>2. SUFFICES ASSUME Position(r, S) >= o + Limit PROVE FALSE
  BY <1>1
<1> DEFINE D == {x \in S : Precedes(x, r)}
           n == Position(r, S)
           f == [x \in D |-> Position(x, S)]
<1>3. IsFiniteSet(D) /\ Cardinality(D) = n
  BY FS_Subset DEF Position
<1>4. f \in Injection(D, 0..(n - 1))
  <2>1. \A x \in D : Position(x, S) \in 0..(n - 1)
    BY <1>1, PositionType, PositionRises
  <2> QED
    BY <2>1, PositionInjective DEF Injection, IsInjective
<1>5. IsFiniteSet(0..(n - 1)) /\ Cardinality(0..(n - 1)) = n
  <2>1. n \in Nat
    BY <1>1
  <2> HIDE DEF n
  <2>2. 0 \in Int /\ n - 1 \in Int
    BY <2>1
  <2>3. Cardinality(0..(n - 1)) = IF 0 > n - 1 THEN 0 ELSE (n - 1) - 0 + 1
    BY <2>2, FS_Interval
  <2> QED
    BY <2>1, <2>2, <2>3, FS_Interval
<1>6. f \in Surjection(D, 0..(n - 1))
  <2> HIDE DEF f, D, n
  <2> QED
    BY <1>3, <1>4, <1>5, FS_Injection
<1> DEFINE page == Page(S, o)
           I    == o..(o + Limit - 1)
           g    == [x \in page |-> Position(x, S)]
<1>7. \A i \in I : \E x \in page : Position(x, S) = i
  <2>1. SUFFICES ASSUME NEW i \in I PROVE \E x \in page : Position(x, S) = i
    OBVIOUS
  <2>2. i \in 0..(n - 1)
    BY <1>1, <1>2
  <2>3. PICK x \in D : f[x] = i
    BY <1>6, <2>2 DEF Surjection
  <2>4. Position(x, S) = i
    BY <2>3
  <2> QED
    BY <2>1, <2>4 DEF Page
<1>8. g \in Surjection(page, I)
  BY <1>7 DEF Surjection, Page
<1>9. IsFiniteSet(page)
  BY FS_Subset DEF Page
<1>10. Cardinality(I) = Limit
  BY <1>1, FS_Interval
<1>11. Cardinality(I) =< Cardinality(page)
  <2> HIDE DEF g, I, page
  <2> QED
    BY <1>8, <1>9, FS_Surjection
<1>12. Cardinality(page) \in Nat /\ Cardinality(page) < Limit
  BY <1>9, FS_CardinalityType
<1> HIDE DEF I, page
<1> QED
  BY <1>1, <1>10, <1>11, <1>12

(* What a deletion does to the positions of the rows that stay.            *)
LEMMA PositionWithout ==
    ASSUME NEW S \in SUBSET Rows, IsFiniteSet(S), NEW D \in SUBSET S, NEW r \in S
    PROVE  /\ Position(r, S \ D) =< Position(r, S)
           /\ Position(r, S) =< Position(r, S \ D) + Cardinality(D)
<1> DEFINE A == {x \in S \ D : Precedes(x, r)}
           B == {x \in S : Precedes(x, r)}
<1>1. A \in SUBSET B /\ A \in SUBSET S /\ B \in SUBSET S /\ B \in SUBSET (A \cup D)
  OBVIOUS
<1>2. IsFiniteSet(A) /\ IsFiniteSet(B) /\ IsFiniteSet(D)
  BY <1>1, FS_Subset
<1>3. /\ Cardinality(A) \in Nat /\ Cardinality(B) \in Nat /\ Cardinality(D) \in Nat
      /\ Position(r, S \ D) = Cardinality(A) /\ Position(r, S) = Cardinality(B)
  BY <1>2, FS_CardinalityType DEF Position
<1> HIDE DEF A, B
<1>4. Cardinality(A) =< Cardinality(B)
  BY <1>1, <1>2, FS_Subset
<1>5. IsFiniteSet(A \cup D) /\ IsFiniteSet(A \cap D)
  BY <1>2, FS_Union, FS_Intersection
<1>6. Cardinality(B) =< Cardinality(A \cup D)
  BY <1>1, <1>5, FS_Subset
<1>7. Cardinality(A \cup D) = Cardinality(A) + Cardinality(D) - Cardinality(A \cap D)
  BY <1>2, FS_Union
<1>8. Cardinality(A \cap D) \in Nat /\ Cardinality(A \cup D) \in Nat
  BY <1>5, FS_CardinalityType
<1>9. Cardinality(B) =< Cardinality(A) + Cardinality(D)
  BY <1>3, <1>6, <1>7, <1>8
<1> QED
  BY <1>3, <1>4, <1>9

LEMMA UnionSize ==
    ASSUME NEW A, IsFiniteSet(A), NEW B, IsFiniteSet(B)
    PROVE  /\ IsFiniteSet(A \cup B) /\ Cardinality(A \cup B) \in Nat
           /\ Cardinality(A \cup B) =< Cardinality(A) + Cardinality(B)
           /\ A \cap B = {} => Cardinality(A \cup B) = Cardinality(A) + Cardinality(B)
<1>1. IsFiniteSet(A \cup B) /\ IsFiniteSet(A \cap B)
  BY FS_Union, FS_Intersection
<1>2. /\ Cardinality(A) \in Nat /\ Cardinality(B) \in Nat
      /\ Cardinality(A \cup B) \in Nat /\ Cardinality(A \cap B) \in Nat
  BY <1>1, FS_CardinalityType
<1>3. Cardinality(A \cup B) = Cardinality(A) + Cardinality(B) - Cardinality(A \cap B)
  BY FS_Union
<1>4. A \cap B = {} => Cardinality(A \cap B) = 0
  BY FS_EmptySet
<1> QED
  BY <1>1, <1>2, <1>3, <1>4

(* Rows pass the offset when others are deleted: no more than those.       *)
LEMMA DeletedLetFewPass ==
    ASSUME NEW S \in SUBSET Rows, IsFiniteSet(S), Distinct(S), NEW D \in SUBSET S,
           NEW T \in SUBSET S, NEW o \in Nat
    PROVE  Cardinality(Behind(T \ D, S \ D, o)) =< Cardinality(Behind(T, S, o)) + Cardinality(D)
<1> DEFINE old  == Behind(T, S, o)
           new  == Behind(T \ D, S \ D, o)
           pass == {r \in new : Position(r, S) >= o}
<1>1. IsFiniteSet(D) /\ IsFiniteSet(S \ D) /\ Cardinality(D) \in Nat
  BY FS_Subset, FS_CardinalityType
<1>2. \A r \in S : Position(r, S) \in Nat /\ Position(r, S \ D) \in Nat
  BY <1>1, PositionType
<1>3. pass \in SUBSET S
  BY DEF Behind
<1>4. ASSUME NEW r \in pass
      PROVE  Position(r, S) \in o..(o + Cardinality(D) - 1)
  <2>1. Position(r, S \ D) < o /\ Position(r, S) >= o /\ r \in S
    BY <1>3 DEF Behind
  <2>2. Position(r, S) =< Position(r, S \ D) + Cardinality(D)
    BY <2>1, PositionWithout
  <2>3. PICK a \in Nat, b \in Nat, n \in Nat :
            a = Position(r, S) /\ b = Position(r, S \ D) /\ n = Cardinality(D)
    BY <1>1, <1>2, <2>1
  <2>4. b < o /\ a >= o /\ a =< b + n
    BY <2>1, <2>2, <2>3
  <2>5. a \in o..(o + n - 1)
    BY <2>4
  <2> QED
    BY <2>3, <2>5
<1>5. IsFiniteSet(pass) /\ Cardinality(pass) =< Cardinality(D)
  <2> HIDE DEF pass
  <2> QED
    BY <1>1, <1>3, <1>4, FewAtPositions
<1>6. new \in SUBSET (old \cup pass)
  BY <1>2 DEF Behind
<1>7. IsFiniteSet(old)
  BY FS_Subset DEF Behind
<1> HIDE DEF new, old, pass
<1>8. /\ IsFiniteSet(old \cup pass) /\ Cardinality(old \cup pass) \in Nat
      /\ Cardinality(old \cup pass) =< Cardinality(old) + Cardinality(pass)
  BY <1>5, <1>7, UnionSize
<1>9. IsFiniteSet(new) /\ Cardinality(new) =< Cardinality(old \cup pass)
  BY <1>6, <1>8, FS_Subset
<1>10. /\ Cardinality(new) \in Nat /\ Cardinality(old) \in Nat /\ Cardinality(pass) \in Nat
  BY <1>5, <1>7, <1>9, FS_CardinalityType
<1>11. Cardinality(new) =< Cardinality(old) + Cardinality(D)
  BY <1>1, <1>5, <1>8, <1>9, <1>10
<1> QED
  BY <1>11 DEF new, old

(* A row that is inserted pushes at most one other over the offset.        *)
LEMMA InsertedPushesOne ==
    ASSUME NEW S \in SUBSET Rows, IsFiniteSet(S), NEW p \in Rows, p \notin S,
           Distinct(S), NEW T, p \notin T, NEW o \in Nat, NEW W, IsFiniteSet(W)
    PROVE  Cardinality(W \cup Ahead(T, S \cup {p}, o))
               =< Cardinality(W \cup Ahead(T, S, o)) + 1
<1> DEFINE old  == W \cup Ahead(T, S, o)
           new  == W \cup Ahead(T, S \cup {p}, o)
           push == {r \in T \cap S : Position(r, S) = o - 1}
<1>1. IsFiniteSet(S \cup {p}) /\ (S \cup {p}) \in SUBSET Rows /\ {p} \in SUBSET (S \cup {p})
  BY FS_AddElement
<1>2. Cardinality({p}) = 1 /\ (S \cup {p}) \ {p} = S
  <2>1. {} \cup {p} = {p} /\ p \notin {}
    OBVIOUS
  <2>2. Cardinality({} \cup {p}) = 0 + 1
    BY <2>1, FS_EmptySet, FS_AddElement
  <2> QED
    BY <2>1, <2>2
<1>3. \A r \in S : Position(r, S) \in Nat /\ Position(r, S \cup {p}) \in Nat
  BY <1>1, PositionType
<1>4. ASSUME NEW r \in S
      PROVE  Position(r, S \cup {p}) =< Position(r, S) + 1
  <2>1. r \in S \cup {p}
    OBVIOUS
  <2>2. Position(r, S \cup {p}) =< Position(r, (S \cup {p}) \ {p}) + Cardinality({p})
    BY <1>1, <2>1, PositionWithout
  <2> QED
    BY <1>2, <2>2
<1>5. new \in SUBSET (old \cup push)
  <2>1. SUFFICES ASSUME NEW r \in T \cap S, Position(r, S \cup {p}) >= o,
                        ~(Position(r, S) >= o)
                 PROVE  Position(r, S) = o - 1
    BY DEF Ahead
  <2>2. Position(r, S \cup {p}) =< Position(r, S) + 1
    BY <1>4
  <2> QED
    BY <1>3, <2>1, <2>2
<1>6. IsFiniteSet(push) /\ Cardinality(push) =< 1
  <2>1. push \in SUBSET S /\ (\A r \in push : Position(r, S) = o - 1)
    OBVIOUS
  <2> HIDE DEF push
  <2>2. CASE o = 0
    <3>1. push = {}
      BY <1>3, <2>1, <2>2
    <3> QED
      BY <3>1, FS_EmptySet
  <2>3. CASE o # 0
    <3>1. o - 1 \in Nat /\ 1 \in Nat
      BY <2>3
    <3>2. \A r \in push : Position(r, S) \in (o - 1)..((o - 1) + 1 - 1)
      BY <2>1, <3>1
    <3> QED
      BY <2>1, <3>1, <3>2, FewAtPositions
  <2> QED
    BY <2>2, <2>3
<1>7. IsFiniteSet(old)
  <2>1. IsFiniteSet(Ahead(T, S, o))
    BY FS_Subset DEF Ahead
  <2> QED
    BY <2>1, FS_Union
<1> HIDE DEF new, old, push
<1>8. /\ IsFiniteSet(old \cup push) /\ Cardinality(old \cup push) \in Nat
      /\ Cardinality(old \cup push) =< Cardinality(old) + Cardinality(push)
  BY <1>6, <1>7, UnionSize
<1>9. IsFiniteSet(new) /\ Cardinality(new) =< Cardinality(old \cup push)
  BY <1>5, <1>8, FS_Subset
<1>10. Cardinality(new) \in Nat /\ Cardinality(old) \in Nat /\ Cardinality(push) \in Nat
  BY <1>6, <1>7, <1>9, FS_CardinalityType
<1>11. Cardinality(new) =< Cardinality(old) + 1
  BY <1>6, <1>8, <1>9, <1>10
<1> QED
  BY <1>11 DEF new, old
-----------------------------------------------------------------------------
(* What one step does to the points and to the reader.                     *)
Points == rows["points"]

LEMMA PointsDistinct ==
    ASSUME TypeOK
    PROVE  /\ Points \in SUBSET Rows /\ Distinct(Points)
           /\ given["points"] \in Nat /\ \A r \in Points : r.id =< given["points"]
           /\ \A a, b : Selected(Points, a, b) \in SUBSET Points
           /\ \A a, b : Found(a, b) = Selected(Points, a, b)
BY DEF TypeOK, Distinct, Tables, Points, Selected, Found

(* With a point and a deletion the ghosts follow; else neither the points  *)
(* nor the reader change, but for a page.                                  *)
Stored ==
    \E p \in Rows :
        /\ p.id = given["points"] + 1
        /\ Points' = Points \cup {p} /\ given'["points"] = given["points"] + 1
        /\ reader' = [reader EXCEPT !.late = IF Asked(p) THEN reader.late \cup {p}
                                                         ELSE reader.late]

Purged ==
    \E D \in SUBSET Points :
        /\ Points' = Points \ D /\ given'["points"] = given["points"]
        /\ reader' = [reader EXCEPT !.lost = reader.lost \cup {r \in D : Asked(r)}]

LEMMA PointSteps ==
    ASSUME TypeOK, [Next]_vars
    PROVE  \/ Stored \/ Purged
           \/ /\ UNCHANGED Points /\ given'["points"] = given["points"]
              /\ OpenQuery \/ ReadPage \/ UNCHANGED reader
<1> USE DEF Tables, Points
<1>1. CASE StorePoint
  <2>1. PICK at \in Instants :
            /\ rows'["points"] = rows["points"] \cup {NewRow("points", at, 0)}
            /\ given'["points"] = given["points"] + 1
            /\ reader' = [reader EXCEPT !.late =
                             IF Asked(NewRow("points", at, 0))
                               THEN reader.late \cup {NewRow("points", at, 0)}
                               ELSE reader.late]
    BY <1>1 DEF StorePoint
  <2>2. NewRow("points", at, 0) \in Rows /\ NewRow("points", at, 0).id = given["points"] + 1
    BY HistoryAssumption, NewRowType
  <2> QED
    BY <2>1, <2>2 DEF Stored
<1>2. CASE CleanTable
  <2> DEFINE table == Statement[cleaner.at]
  <2>1. PICK D \in Batches(Expired(table, cleaner.now)) :
            /\ rows' = [t \in Tables |->
                           rows[t] \ ((IF t = table THEN D ELSE {}) \cup
                                      (IF t = "attempts" THEN Cascade(table, D) ELSE {}))]
            /\ reader' = [reader EXCEPT !.lost = reader.lost \cup
                             {r \in D : table = "points" /\ Asked(r)}]
    BY <1>2 DEF CleanTable
  <2>2. given' = given
    BY <1>2 DEF CleanTable
  <2>3. CASE table = "points"
    <3>1. D \in SUBSET rows["points"]
      BY <2>3 DEF Batches, Expired
    <3>2. rows'["points"] = rows["points"] \ D
      BY <2>1, <2>3
    <3>3. {r \in D : table = "points" /\ Asked(r)} = {r \in D : Asked(r)}
      BY <2>3
    <3> HIDE DEF table
    <3> QED
      BY <2>1, <2>2, <3>1, <3>2, <3>3 DEF Purged
  <2>4. CASE table # "points"
    <3>1. rows'["points"] = rows["points"] \ {}
      BY <2>1, <2>4
    <3>2. {r \in D : table = "points" /\ Asked(r)} = {r \in {} : Asked(r)}
      BY <2>4
    <3> HIDE DEF table
    <3>3. {} \in SUBSET rows["points"]
      OBVIOUS
    <3>4. reader' = [reader EXCEPT !.lost = reader.lost \cup {r \in {} : Asked(r)}]
      BY <2>1, <3>2
    <3> QED
      BY <2>2, <3>1, <3>3, <3>4 DEF Purged
  <2> QED
    BY <2>3, <2>4
<1>3. CASE StoreEvent \/ StoreAttempt \/ TouchAttempt
  <2>1. /\ rows'["points"] = rows["points"] /\ given'["points"] = given["points"]
        /\ reader' = reader
    BY <1>3 DEF StoreEvent, StoreAttempt, TouchAttempt, TypeOK
  <2> QED
    BY <2>1
<1> QED
  BY <1>1, <1>2, <1>3 DEF Next, vars, StartClean, CleanFails, OpenQuery, ReadPage, Tick

(* Only the sets matter to the counts: sets that shrink count no more.     *)
LEMMA CountsShrink ==
    ASSUME NEW A, IsFiniteSet(A), NEW B \in SUBSET A, NEW n \in Nat, Cardinality(A) =< n
    PROVE  Cardinality(B) =< n
<1>1. IsFiniteSet(B) /\ Cardinality(B) =< Cardinality(A)
  BY FS_Subset
<1>2. Cardinality(A) \in Nat /\ Cardinality(B) \in Nat
  BY <1>1, FS_CardinalityType
<1> QED
  BY <1>1, <1>2

(* What a paging client's sets are.                                        *)
LEMMA PagingSets ==
    ASSUME NEW P \in SUBSET Rows, IsFiniteSet(P), Distinct(P), NEW n \in Nat,
           NEW rd \in Readers, PagingOK(P, n, rd)
    PROVE  LET S == Selected(P, rd.start, rd.end)
               T == (rd.base \ rd.lost) \ rd.got
           IN  /\ S \in SUBSET Rows /\ IsFiniteSet(S) /\ Distinct(S)
               /\ rd.offset \in Nat /\ T \in SUBSET S
               /\ IsFiniteSet(Behind(T, S, rd.offset))
               /\ IsFiniteSet(rd.twice \cup Ahead(rd.got, S, rd.offset))
               /\ Cardinality(rd.lost) \in Nat /\ Cardinality(rd.late) \in Nat
<1> DEFINE S == Selected(P, rd.start, rd.end)
           T == (rd.base \ rd.lost) \ rd.got
<1>1. S \in SUBSET P
  BY DEF Selected
<1>2. S \in SUBSET Rows /\ IsFiniteSet(S) /\ Distinct(S)
  BY <1>1, FS_Subset DEF Distinct
<1>3. T \in SUBSET S /\ rd.offset \in Nat
  BY DEF PagingOK, Readers
<1>4. Behind(T, S, rd.offset) \in SUBSET S /\ Ahead(rd.got, S, rd.offset) \in SUBSET S
  BY <1>3 DEF Behind, Ahead
<1>5. IsFiniteSet(Behind(T, S, rd.offset)) /\ IsFiniteSet(Ahead(rd.got, S, rd.offset))
  BY <1>2, <1>4, FS_Subset
<1>6. IsFiniteSet(rd.twice) /\ IsFiniteSet(rd.lost) /\ IsFiniteSet(rd.late)
  BY DEF PagingOK
<1>7. IsFiniteSet(rd.twice \cup Ahead(rd.got, S, rd.offset))
  BY <1>5, <1>6, FS_Union
<1>8. Cardinality(rd.lost) \in Nat /\ Cardinality(rd.late) \in Nat
  BY <1>6, FS_CardinalityType
<1> QED
  BY <1>2, <1>3, <1>5, <1>7, <1>8

(* A point that is stored is one more late row, or none of the query's.    *)
LEMMA PagingStored ==
    ASSUME NEW P \in SUBSET Rows, IsFiniteSet(P), Distinct(P), NEW n \in Nat,
           \A r \in P : r.id =< n, NEW rd \in Readers, PagingOK(P, n, rd),
           NEW p \in Rows, p.id = n + 1, NEW new \in Readers,
           new = [rd EXCEPT !.late = IF InText(p.at, rd.start, rd.end) THEN rd.late \cup {p}
                                                                       ELSE rd.late]
    PROVE  PagingOK(P \cup {p}, n + 1, new)
<1> DEFINE S == Selected(P, rd.start, rd.end)
           Z == Selected(P \cup {p}, rd.start, rd.end)
           T == (rd.base \ rd.lost) \ rd.got
           o == rd.offset
<1>1. /\ new.start = rd.start /\ new.end = rd.end /\ new.offset = o
      /\ new.base = rd.base /\ new.lost = rd.lost /\ new.got = rd.got /\ new.twice = rd.twice
      /\ new.late = IF InText(p.at, rd.start, rd.end) THEN rd.late \cup {p} ELSE rd.late
  BY DEF Readers
<1>2. /\ S \in SUBSET Rows /\ IsFiniteSet(S) /\ Distinct(S) /\ o \in Nat /\ T \in SUBSET S
      /\ IsFiniteSet(Behind(T, S, o)) /\ IsFiniteSet(rd.twice \cup Ahead(rd.got, S, o))
      /\ Cardinality(rd.lost) \in Nat /\ Cardinality(rd.late) \in Nat
  BY PagingSets
<1>3. /\ rd.base \ rd.lost \subseteq S /\ rd.lost \cap P = {}
      /\ IsFiniteSet(rd.base) /\ IsFiniteSet(rd.lost) /\ IsFiniteSet(rd.late)
      /\ IsFiniteSet(rd.got) /\ IsFiniteSet(rd.twice)
      /\ \A r \in rd.lost \cup rd.late \cup rd.got : r.id =< n
      /\ Cardinality(Behind(T, S, o)) =< Cardinality(rd.lost)
      /\ Cardinality(rd.twice \cup Ahead(rd.got, S, o)) =< Cardinality(rd.late)
  BY DEF PagingOK
<1>4. \A r \in Rows : r.id \in Nat
  BY DEF Rows
<1>5. /\ rd.lost \in SUBSET Rows /\ rd.late \in SUBSET Rows /\ rd.got \in SUBSET Rows
  BY DEF Readers
<1>6. p \notin P /\ p \notin rd.lost /\ p \notin rd.late /\ p \notin rd.got /\ p \notin S
  BY <1>3, <1>4, <1>5 DEF Selected
<1>7. /\ rd.lost \cap (P \cup {p}) = {}
      /\ \A r \in rd.lost \cup rd.late \cup {p} \cup rd.got : r.id =< n + 1
  BY <1>3, <1>4, <1>5, <1>6
<1>8. CASE ~InText(p.at, rd.start, rd.end)
  <2>1. Z = S /\ new.late = rd.late
    BY <1>1, <1>8 DEF Selected
  <2> HIDE DEF S, Z, T
  <2> QED
    BY <1>1, <1>3, <1>7, <2>1 DEF PagingOK, Z, T
<1>9. CASE InText(p.at, rd.start, rd.end)
  <2>1. Z = S \cup {p} /\ new.late = rd.late \cup {p}
    BY <1>1, <1>9 DEF Selected
  <2> HIDE DEF S, Z, T, o
  <2>2. IsFiniteSet(Z) /\ Z \in SUBSET Rows /\ Z \ {p} = S /\ {p} \in SUBSET Z
    <3>1. IsFiniteSet(S \cup {p})
      BY <1>2, FS_AddElement
    <3> QED
      BY <1>2, <1>6, <2>1, <3>1
  <2>3. Behind(T, Z, o) \in SUBSET Behind(T, S, o)
    <3>1. SUFFICES ASSUME NEW r \in T, Position(r, Z) < o
                   PROVE  Position(r, S) < o
      BY DEF Behind
    <3>2. r \in Z
      BY <1>2, <2>1
    <3>3. Position(r, Z \ {p}) =< Position(r, Z)
      BY <2>2, <3>2, PositionWithout
    <3>4. Position(r, S) \in Nat /\ Position(r, Z) \in Nat
      BY <1>2, <2>2, PositionType
    <3> QED
      BY <1>2, <2>2, <3>1, <3>3, <3>4
  <2>4. Cardinality(Behind(T, Z, o)) =< Cardinality(rd.lost)
    <3>1. Cardinality(Behind(T, S, o)) =< Cardinality(rd.lost)
      BY <1>3
    <3> QED
      BY <1>2, <2>3, <3>1, CountsShrink
  <2>5. Cardinality(rd.twice \cup Ahead(rd.got, Z, o))
            =< Cardinality(rd.twice \cup Ahead(rd.got, S, o)) + 1
    BY <1>2, <1>3, <1>6, <2>1, InsertedPushesOne
  <2>6. IsFiniteSet(new.late) /\ Cardinality(new.late) = Cardinality(rd.late) + 1
    <3>1. IsFiniteSet(rd.late) /\ p \notin rd.late
      BY <1>3, <1>6
    <3>2. /\ IsFiniteSet(rd.late \cup {p})
          /\ Cardinality(rd.late \cup {p}) = Cardinality(rd.late) + 1
      BY <3>1, FS_AddElement
    <3> QED
      BY <2>1, <3>2
  <2>7. Cardinality(rd.twice \cup Ahead(rd.got, S, o)) \in Nat
    BY <1>2, FS_CardinalityType
  <2>8. Ahead(rd.got, Z, o) \in SUBSET Z
    BY DEF Ahead
  <2>9. IsFiniteSet(rd.twice \cup Ahead(rd.got, Z, o))
    BY <1>3, <2>2, <2>8, FS_Subset, FS_Union
  <2>10. Cardinality(rd.twice \cup Ahead(rd.got, Z, o)) \in Nat
    BY <2>9, FS_CardinalityType
  <2>11. Cardinality(rd.twice \cup Ahead(rd.got, Z, o)) =< Cardinality(new.late)
    BY <1>2, <1>3, <2>5, <2>6, <2>7, <2>10
  <2> QED
    BY <1>1, <1>3, <1>7, <2>1, <2>4, <2>6, <2>11 DEF PagingOK, Z, T, o
<1> QED
  BY <1>8, <1>9

(* A purge adds what it takes of the query's rows to the lost ones.        *)
LEMMA PagingPurged ==
    ASSUME NEW P \in SUBSET Rows, IsFiniteSet(P), Distinct(P), NEW n \in Nat,
           \A r \in P : r.id =< n, NEW rd \in Readers, PagingOK(P, n, rd),
           NEW D \in SUBSET P, NEW new \in Readers,
           new = [rd EXCEPT !.lost = rd.lost \cup {r \in D : InText(r.at, rd.start, rd.end)}]
    PROVE  PagingOK(P \ D, n, new)
<1> DEFINE S == Selected(P, rd.start, rd.end)
           Z == Selected(P \ D, rd.start, rd.end)
           E == {r \in D : InText(r.at, rd.start, rd.end)}
           T == (rd.base \ rd.lost) \ rd.got
           o == rd.offset
<1>1. /\ new.start = rd.start /\ new.end = rd.end /\ new.offset = o
      /\ new.base = rd.base /\ new.got = rd.got /\ new.twice = rd.twice /\ new.late = rd.late
      /\ new.lost = rd.lost \cup E
  BY DEF Readers
<1>2. /\ S \in SUBSET Rows /\ IsFiniteSet(S) /\ Distinct(S) /\ o \in Nat /\ T \in SUBSET S
      /\ IsFiniteSet(Behind(T, S, o)) /\ IsFiniteSet(rd.twice \cup Ahead(rd.got, S, o))
      /\ Cardinality(rd.lost) \in Nat /\ Cardinality(rd.late) \in Nat
  BY PagingSets
<1>3. /\ rd.base \ rd.lost \subseteq S /\ rd.lost \cap P = {}
      /\ IsFiniteSet(rd.base) /\ IsFiniteSet(rd.lost) /\ IsFiniteSet(rd.late)
      /\ IsFiniteSet(rd.got) /\ IsFiniteSet(rd.twice)
      /\ \A r \in rd.lost \cup rd.late \cup rd.got : r.id =< n
      /\ Cardinality(Behind(T, S, o)) =< Cardinality(rd.lost)
      /\ Cardinality(rd.twice \cup Ahead(rd.got, S, o)) =< Cardinality(rd.late)
  BY DEF PagingOK
<1>4. Z = S \ E /\ E \in SUBSET S /\ E \in SUBSET P /\ rd.lost \cap E = {}
  BY <1>3 DEF Selected
<1>5. /\ rd.base \ (rd.lost \cup E) \subseteq Z
      /\ (rd.lost \cup E) \cap (P \ D) = {}
      /\ \A r \in rd.lost \cup E \cup rd.late \cup rd.got : r.id =< n
  BY <1>3, <1>4
<1>6. (rd.base \ (rd.lost \cup E)) \ rd.got = T \ E
  OBVIOUS
<1> HIDE DEF S, Z, E, T, o
<1>7. IsFiniteSet(E) /\ Cardinality(E) \in Nat
  BY <1>2, <1>4, FS_Subset, FS_CardinalityType
<1>8. /\ IsFiniteSet(rd.lost \cup E)
      /\ Cardinality(rd.lost \cup E) = Cardinality(rd.lost) + Cardinality(E)
  BY <1>3, <1>4, <1>7, UnionSize
<1>9. Cardinality(Behind(T \ E, Z, o)) =< Cardinality(rd.lost \cup E)
  <2>1. Cardinality(Behind(T \ E, Z, o)) =< Cardinality(Behind(T, S, o)) + Cardinality(E)
    BY <1>2, <1>4, DeletedLetFewPass
  <2>2. Behind(T \ E, Z, o) \in SUBSET S
    BY <1>2 DEF Behind
  <2>3. IsFiniteSet(Behind(T \ E, Z, o))
    BY <1>2, <2>2, FS_Subset
  <2>4. /\ Cardinality(Behind(T \ E, Z, o)) \in Nat /\ Cardinality(Behind(T, S, o)) \in Nat
    BY <1>2, <2>3, FS_CardinalityType
  <2>5. Cardinality(Behind(T, S, o)) =< Cardinality(rd.lost)
    BY <1>3
  <2> QED
    BY <1>2, <1>7, <1>8, <2>1, <2>4, <2>5
<1>10. Ahead(rd.got, Z, o) \in SUBSET Ahead(rd.got, S, o)
  <2>1. SUFFICES ASSUME NEW r \in S, r \in Z, Position(r, Z) >= o
                 PROVE  Position(r, S) >= o
    BY <1>4 DEF Ahead
  <2>2. Position(r, S \ E) =< Position(r, S)
    BY <1>2, <1>4, PositionWithout
  <2>3. IsFiniteSet(Z)
    BY <1>2, <1>4, FS_Subset
  <2>4. Position(r, S) \in Nat /\ Position(r, Z) \in Nat
    BY <1>2, <2>3, PositionType
  <2> QED
    BY <1>2, <1>4, <2>1, <2>2, <2>4
<1>11. Cardinality(rd.twice \cup Ahead(rd.got, Z, o)) =< Cardinality(rd.late)
  <2>1. (rd.twice \cup Ahead(rd.got, Z, o)) \in SUBSET (rd.twice \cup Ahead(rd.got, S, o))
    BY <1>10
  <2>2. Cardinality(rd.twice \cup Ahead(rd.got, S, o)) =< Cardinality(rd.late)
    BY <1>3
  <2> QED
    BY <1>2, <2>1, <2>2, CountsShrink
<1> QED
  BY <1>1, <1>3, <1>5, <1>6, <1>8, <1>9, <1>11 DEF PagingOK, Z, o

(* Where a query begins, nothing is behind the offset and nothing is got.  *)
LEMMA PagingOpened ==
    ASSUME NEW P \in SUBSET Rows, IsFiniteSet(P), NEW n \in Nat,
           NEW a, NEW b, NEW new \in Readers,
           /\ new.start = a /\ new.end = b /\ new.offset = 0 /\ new.base = Selected(P, a, b)
           /\ new.lost = {} /\ new.late = {} /\ new.got = {} /\ new.twice = {}
    PROVE  PagingOK(P, n, new)
<1> DEFINE S == Selected(P, a, b)
<1>1. IsFiniteSet(S)
  BY FS_Subset DEF Selected
<1> HIDE DEF S
<1>2. Behind((S \ {}) \ {}, S, 0) = {}
  BY <1>1, PositionType DEF Behind
<1>3. {} \cup Ahead({}, S, 0) = {}
  BY DEF Ahead
<1>4. IsFiniteSet({}) /\ Cardinality({}) = 0
  BY FS_EmptySet
<1>5. (S \ {}) \subseteq S
  OBVIOUS
<1> QED
  BY <1>1, <1>2, <1>3, <1>4, <1>5 DEF PagingOK, S

(* A page moves the offset past the rows that it returns.  When it is the  *)
(* last, all rows that are not got are behind.                             *)
LEMMA PagingRead ==
    ASSUME NEW P \in SUBSET Rows, IsFiniteSet(P), Distinct(P), NEW n \in Nat,
           \A r \in P : r.id =< n, NEW rd \in Readers, PagingOK(P, n, rd),
           NEW page, page = Page(Selected(P, rd.start, rd.end), rd.offset),
           NEW new \in Readers,
           /\ new.start = rd.start /\ new.end = rd.end
           /\ new.offset = rd.offset + Limit
           /\ new.base = rd.base /\ new.lost = rd.lost /\ new.late = rd.late
           /\ new.got = rd.got \cup page
           /\ new.twice = rd.twice \cup (rd.got \cap page)
    PROVE  /\ PagingOK(P, n, new)
           /\ Cardinality(new.twice) =< Cardinality(new.late)
           /\ Cardinality(page) < Limit =>
                  Cardinality((new.base \ new.lost) \ new.got) =< Cardinality(new.lost)
<1> DEFINE S == Selected(P, rd.start, rd.end)
           T == (rd.base \ rd.lost) \ rd.got
           U == (rd.base \ rd.lost) \ (rd.got \cup page)
           o == rd.offset
<1>1. /\ S \in SUBSET Rows /\ IsFiniteSet(S) /\ Distinct(S) /\ o \in Nat /\ T \in SUBSET S
      /\ IsFiniteSet(Behind(T, S, o)) /\ IsFiniteSet(rd.twice \cup Ahead(rd.got, S, o))
      /\ Cardinality(rd.lost) \in Nat /\ Cardinality(rd.late) \in Nat
  BY PagingSets
<1>2. /\ rd.base \ rd.lost \subseteq S /\ rd.lost \cap P = {}
      /\ IsFiniteSet(rd.base) /\ IsFiniteSet(rd.lost) /\ IsFiniteSet(rd.late)
      /\ IsFiniteSet(rd.got) /\ IsFiniteSet(rd.twice)
      /\ \A r \in rd.lost \cup rd.late \cup rd.got : r.id =< n
      /\ Cardinality(Behind(T, S, o)) =< Cardinality(rd.lost)
      /\ Cardinality(rd.twice \cup Ahead(rd.got, S, o)) =< Cardinality(rd.late)
  BY DEF PagingOK
<1>3. page \in SUBSET S /\ S \in SUBSET P
  BY DEF Page, Selected
<1>4. /\ \A r \in page : Position(r, S) \in o..(o + Limit - 1)
      /\ \A r \in S : r \in page <=> Position(r, S) \in o..(o + Limit - 1)
  BY DEF Page
<1>5. Limit \in Nat \ {0}
  BY HistoryAssumption
<1> HIDE DEF S, o
<1>6. \A r \in S : Position(r, S) \in Nat
  BY <1>1, PositionType
<1>7. IsFiniteSet(page)
  BY <1>1, <1>3, FS_Subset
<1>8. U \in SUBSET T /\ U \in SUBSET S
  BY <1>1
<1>9. Behind(U, S, o + Limit) \in SUBSET Behind(T, S, o)
  <2>1. SUFFICES ASSUME NEW r \in U, Position(r, S) < o + Limit
                 PROVE  Position(r, S) < o
    BY <1>8 DEF Behind
  <2>2. r \notin page /\ r \in S
    BY <1>8
  <2> QED
    BY <1>1, <1>4, <1>5, <1>6, <2>1, <2>2
<1>10. Cardinality(Behind(U, S, o + Limit)) =< Cardinality(rd.lost)
  <2>1. Cardinality(Behind(T, S, o)) =< Cardinality(rd.lost)
    BY <1>2
  <2> QED
    BY <1>1, <1>9, <2>1, CountsShrink
<1> DEFINE again == rd.twice \cup (rd.got \cap page)
           old   == rd.twice \cup Ahead(rd.got, S, o)
<1>11. again \in SUBSET old
  <2>1. SUFFICES ASSUME NEW r \in page PROVE r \in S /\ Position(r, S) >= o
    BY DEF Ahead
  <2> QED
    BY <1>1, <1>3, <1>4, <1>5, <1>6
<1>12. Ahead(rd.got \cup page, S, o + Limit) \in SUBSET old
  <2>1. SUFFICES ASSUME NEW r \in S, Position(r, S) >= o + Limit
                 PROVE  r \notin page /\ Position(r, S) >= o
    BY DEF Ahead
  <2> QED
    BY <1>1, <1>4, <1>5, <1>6, <2>1
<1>13. /\ Cardinality(again \cup Ahead(rd.got \cup page, S, o + Limit)) =< Cardinality(rd.late)
       /\ Cardinality(again) =< Cardinality(rd.late)
  <2>1. Cardinality(old) =< Cardinality(rd.late) /\ IsFiniteSet(old)
    BY <1>1, <1>2
  <2>2. (again \cup Ahead(rd.got \cup page, S, o + Limit)) \in SUBSET old
    BY <1>11, <1>12
  <2> HIDE DEF again, old
  <2> QED
    BY <1>1, <1>11, <2>1, <2>2, CountsShrink
<1>14. IsFiniteSet(rd.got \cup page) /\ IsFiniteSet(again)
  BY <1>2, <1>7, FS_Union, FS_Intersection
<1>15. \A r \in rd.lost \cup rd.late \cup (rd.got \cup page) : r.id =< n
  BY <1>2, <1>3
<1>16. PagingOK(P, n, new)
  BY <1>2, <1>10, <1>13, <1>14, <1>15 DEF PagingOK, S, o
<1>17. ASSUME Cardinality(page) < Limit
       PROVE  Cardinality(U) =< Cardinality(rd.lost)
  <2>1. page = Page(S, o)
    BY DEF S, o
  <2>2. \A r \in S : Position(r, S) < o + Limit
    BY <1>1, <1>17, <2>1, ShortPageIsLast
  <2>3. U = Behind(U, S, o + Limit)
    BY <1>8, <2>2 DEF Behind
  <2> QED
    BY <1>10, <2>3
<1> QED
  BY <1>13, <1>16, <1>17

LEMMA InitPagingInv == Init => PagingInv
<1> SUFFICES ASSUME Init PROVE PagingInv
  OBVIOUS
<1>1. /\ reader.pc = "idle" /\ reader.twice = {} /\ reader.late = {}
      /\ rows["points"] = {}
  BY DEF Init, NoReader, Tables
<1>2. IsFiniteSet({}) /\ Cardinality({}) = 0
  BY FS_EmptySet
<1> QED
  BY <1>1, <1>2 DEF PagingInv, MissedPerPurge, RepeatedPerLate

(* While rows come and go the reader's own claims are those of a moment    *)
(* ago: they are about what it has got.                                    *)
LEMMA IdleOrDoneStays ==
    ASSUME TypeOK, PagingInv, Stored \/ Purged \/ (UNCHANGED Points /\ UNCHANGED reader),
           reader.pc # "paging"
    PROVE  reader' = reader /\ IsFiniteSet(Points') /\ PagingInv'
<1> USE DEF Points
<1>0. reader \in Readers /\ IsFiniteSet(rows["points"])
  BY DEF TypeOK, PagingInv
<1>1. CASE Stored
  <2>1. PICK p \in Rows :
            /\ rows'["points"] = rows["points"] \cup {p}
            /\ reader' = [reader EXCEPT !.late = IF Asked(p) THEN reader.late \cup {p}
                                                             ELSE reader.late]
    BY <1>1 DEF Stored
  <2>2. reader' = reader
    BY <1>0, <2>1 DEF Asked, Readers
  <2>3. IsFiniteSet(rows'["points"])
    BY <1>0, <2>1, FS_AddElement
  <2> QED
    BY <2>2, <2>3 DEF PagingInv, MissedPerPurge, RepeatedPerLate
<1>2. CASE Purged
  <2>1. PICK D \in SUBSET rows["points"] :
            /\ rows'["points"] = rows["points"] \ D
            /\ reader' = [reader EXCEPT !.lost = reader.lost \cup {r \in D : Asked(r)}]
    BY <1>2 DEF Purged
  <2>2. {r \in D : Asked(r)} = {}
    BY DEF Asked
  <2>3. reader' = reader
    BY <1>0, <2>1, <2>2 DEF Readers
  <2>4. IsFiniteSet(rows'["points"])
    BY <1>0, <2>1, FS_Subset
  <2> QED
    BY <2>3, <2>4 DEF PagingInv, MissedPerPurge, RepeatedPerLate
<1>3. CASE UNCHANGED Points /\ UNCHANGED reader
  BY <1>0, <1>3 DEF PagingInv, MissedPerPurge, RepeatedPerLate
<1> QED
  BY <1>1, <1>2, <1>3

LEMMA NextPagingInv ==
    ASSUME TypeOK, TypeOK', PagingInv, [Next]_vars
    PROVE  PagingInv'
<1> DEFINE n == given["points"]
<1>0. /\ reader \in Readers /\ reader' \in Readers /\ n \in Nat
      /\ Points \in SUBSET Rows /\ Distinct(Points) /\ IsFiniteSet(Points)
      /\ \A r \in Points : r.id =< n
  BY PointsDistinct DEF TypeOK, PagingInv, Points
<1>a. RepeatedPerLate
  BY DEF PagingInv
<1>1. CASE reader.pc # "paging" /\ (Stored \/ Purged \/ (UNCHANGED Points /\ UNCHANGED reader))
  BY <1>1, IdleOrDoneStays
<1>2. CASE reader.pc = "paging" /\ Stored
  <2>1. PICK p \in Rows :
            /\ p.id = n + 1
            /\ Points' = Points \cup {p} /\ given'["points"] = n + 1
            /\ reader' = [reader EXCEPT !.late = IF Asked(p) THEN reader.late \cup {p}
                                                             ELSE reader.late]
    BY <1>2 DEF Stored
  <2>2. Asked(p) <=> InText(p.at, reader.start, reader.end)
    BY <1>2 DEF Asked
  <2>3. reader' = [reader EXCEPT !.late =
                      IF InText(p.at, reader.start, reader.end) THEN reader.late \cup {p}
                                                                ELSE reader.late]
    BY <2>1, <2>2
  <2>4. PagingOK(Points, n, reader)
    BY <1>2 DEF PagingInv, Points
  <2>5. PagingOK(Points \cup {p}, n + 1, reader')
    BY <1>0, <2>1, <2>3, <2>4, PagingStored
  <2>6. PagingOK(rows'["points"], given'["points"], reader')
    BY <2>1, <2>5 DEF Points
  <2>7. IsFiniteSet(rows'["points"])
    BY <1>0, <2>1, FS_AddElement DEF Points
  <2>8. reader'.pc = "paging" /\ reader'.twice = reader.twice
    BY <1>0, <1>2, <2>3 DEF Readers
  <2>9. RepeatedPerLate'
    <3>1. Cardinality(reader.twice) =< Cardinality(reader.late)
      BY <1>a DEF RepeatedPerLate
    <3>2. reader'.late = reader.late \/ reader'.late = reader.late \cup {p}
      BY <1>0, <2>3 DEF Readers
    <3>3. IsFiniteSet(reader.late) /\ IsFiniteSet(reader.twice)
      BY <2>4 DEF PagingOK
    <3>4. /\ Cardinality(reader.late) \in Nat /\ Cardinality(reader.twice) \in Nat
          /\ \/ Cardinality(reader.late \cup {p}) = Cardinality(reader.late)
             \/ Cardinality(reader.late \cup {p}) = Cardinality(reader.late) + 1
      BY <3>3, FS_CardinalityType, FS_AddElement
    <3>5. Cardinality(reader.twice) =< Cardinality(reader.late \cup {p})
      BY <3>1, <3>4
    <3>6. Cardinality(reader.twice) =< Cardinality(reader'.late)
      <4>1. CASE reader'.late = reader.late
        BY <3>1, <4>1
      <4>2. CASE reader'.late = reader.late \cup {p}
        BY <3>5, <4>2
      <4> QED
        BY <3>2, <4>1, <4>2
    <3> QED
      BY <2>8, <3>6 DEF RepeatedPerLate
  <2> QED
    BY <2>6, <2>7, <2>8, <2>9 DEF PagingInv, MissedPerPurge
<1>3. CASE reader.pc = "paging" /\ Purged
  <2>1. PICK D \in SUBSET Points :
            /\ Points' = Points \ D /\ given'["points"] = n
            /\ reader' = [reader EXCEPT !.lost = reader.lost \cup {r \in D : Asked(r)}]
    BY <1>3 DEF Purged
  <2>2. {r \in D : Asked(r)} = {r \in D : InText(r.at, reader.start, reader.end)}
    BY <1>3 DEF Asked
  <2>3. reader' = [reader EXCEPT !.lost = reader.lost \cup
                      {r \in D : InText(r.at, reader.start, reader.end)}]
    BY <2>1, <2>2
  <2>4. PagingOK(Points, n, reader)
    BY <1>3 DEF PagingInv, Points
  <2>5. PagingOK(Points \ D, n, reader')
    BY <1>0, <2>3, <2>4, PagingPurged
  <2>6. PagingOK(rows'["points"], given'["points"], reader')
    BY <2>1, <2>5 DEF Points
  <2>7. IsFiniteSet(rows'["points"])
    BY <1>0, <2>1, FS_Subset DEF Points
  <2>8. reader'.pc = "paging" /\ reader'.twice = reader.twice /\ reader'.late = reader.late
    BY <1>0, <1>3, <2>3 DEF Readers
  <2> QED
    BY <1>a, <2>6, <2>7, <2>8 DEF PagingInv, MissedPerPurge, RepeatedPerLate
<1>4. CASE UNCHANGED Points /\ given'["points"] = n /\ reader.pc = "paging" /\ UNCHANGED reader
  <2>1. PagingOK(rows'["points"], given'["points"], reader')
    BY <1>4 DEF PagingInv, Points
  <2> QED
    BY <1>0, <1>a, <1>4, <2>1 DEF PagingInv, Points, MissedPerPurge, RepeatedPerLate
<1>5. CASE UNCHANGED Points /\ given'["points"] = n /\ OpenQuery
  <2>1. PICK q \in Queries :
            reader' = [NoReader(q[1], q[2]) EXCEPT
                          !.pc = "paging", !.base = Found(q[1], q[2])]
    BY <1>5 DEF OpenQuery
  <2>2. /\ reader'.start = q[1] /\ reader'.end = q[2] /\ reader'.offset = 0
        /\ reader'.base = Selected(Points, q[1], q[2]) /\ reader'.pc = "paging"
        /\ reader'.lost = {} /\ reader'.late = {} /\ reader'.got = {} /\ reader'.twice = {}
    BY <2>1, PointsDistinct DEF NoReader
  <2>3. PagingOK(Points, n, reader')
    BY <1>0, <2>2, PagingOpened
  <2>4. PagingOK(rows'["points"], given'["points"], reader')
    BY <1>5, <2>3 DEF Points
  <2>5. Cardinality({}) = 0
    BY FS_EmptySet
  <2> QED
    BY <1>0, <1>5, <2>2, <2>4, <2>5 DEF PagingInv, Points, MissedPerPurge, RepeatedPerLate
<1>6. CASE UNCHANGED Points /\ given'["points"] = n /\ ReadPage
  <2>1. PICK page : page = Page(Found(reader.start, reader.end), reader.offset)
    OBVIOUS
  <2>2. /\ reader.pc = "paging"
        /\ reader' = [reader EXCEPT
               !.pc = IF Cardinality(page) < Limit THEN "done" ELSE "paging",
               !.offset = NextOffset(reader.offset),
               !.got = reader.got \cup page,
               !.twice = reader.twice \cup (reader.got \cap page)]
    BY <1>6, <2>1 DEF ReadPage
  <2>3. /\ reader'.start = reader.start /\ reader'.end = reader.end
        /\ reader'.offset = reader.offset + Limit
        /\ reader'.base = reader.base /\ reader'.lost = reader.lost
        /\ reader'.late = reader.late
        /\ reader'.got = reader.got \cup page
        /\ reader'.twice = reader.twice \cup (reader.got \cap page)
        /\ reader'.pc = IF Cardinality(page) < Limit THEN "done" ELSE "paging"
    BY <1>0, <2>2 DEF Readers, NextOffset
  <2>4. page = Page(Selected(Points, reader.start, reader.end), reader.offset)
    BY <2>1, PointsDistinct
  <2>5. PagingOK(Points, n, reader)
    BY <2>2 DEF PagingInv, Points
  <2>6. /\ PagingOK(Points, n, reader')
        /\ Cardinality(reader'.twice) =< Cardinality(reader'.late)
        /\ Cardinality(page) < Limit =>
               Cardinality((reader'.base \ reader'.lost) \ reader'.got)
                   =< Cardinality(reader'.lost)
    BY <1>0, <2>3, <2>4, <2>5, PagingRead
  <2>7. PagingOK(rows'["points"], given'["points"], reader')
    BY <1>6, <2>6 DEF Points
  <2> QED
    BY <1>0, <1>6, <2>3, <2>6, <2>7 DEF PagingInv, Points, MissedPerPurge, RepeatedPerLate
<1> QED
  BY <1>1, <1>2, <1>3, <1>4, <1>5, <1>6, PointSteps

(* Paging by offset over points that are purged and stored meanwhile, in   *)
(* pages and batches of any size, over any number of rows.                 *)
THEOREM PagingCorrect == Spec => []PagingInv
<1>1. TypeOK /\ TypeOK' /\ PagingInv /\ [Next]_vars => PagingInv'
  BY NextPagingInv
<1> QED
  BY <1>1, InitPagingInv, TypeCorrect, PTL DEF Spec

(* A client that pages to the end misses, of the rows that were there all  *)
(* the time, no more than the retention job deleted under its query.       *)
THEOREM MissesNoMoreThanPurged == Spec => []MissedPerPurge
<1>1. PagingInv => MissedPerPurge
  BY DEF PagingInv
<1> QED
  BY <1>1, PagingCorrect, PTL

(* At any time it has been given no more rows a second time than were      *)
(* inserted under its query.                                               *)
THEOREM RepeatsNoMoreThanInserted == Spec => []RepeatedPerLate
<1>1. PagingInv => RepeatedPerLate
  BY DEF PagingInv
<1> QED
  BY <1>1, PagingCorrect, PTL
=============================================================================
