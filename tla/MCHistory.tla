----------------------------- MODULE MCHistory ------------------------------
(* Instances of History for TLC.                                           *)
EXTENDS History

T(sec, d1, d2) == [sec |-> sec, d1 |-> d1, d2 |-> d2]

(* 0Z, 0.1Z, 1.1Z and 3Z: as text 0.1Z comes before 0Z.                   *)
SomeInstants == {T(0, 0, 0), T(0, 1, 0), T(1, 1, 0), T(3, 0, 0)}

(* With a time for the window to begin at, a second earlier.               *)
EarlierInstants == SomeInstants \cup {T(-1, 0, 0)}

(* An interval that begins and ends at a whole second.                    *)
SomeQueries == {<<T(0, 0, 0), T(3, 0, 0)>>}

Retentions ==
    [t \in Tables |-> CASE t = "aggregates" -> 2 [] t = "events" -> 1 [] OTHER -> 0]

FewRows == [t \in Tables |-> IF t \in {"points", "aggregates"} THEN 2 ELSE 1]
=============================================================================
