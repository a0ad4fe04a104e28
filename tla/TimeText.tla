------------------------------ MODULE TimeText ------------------------------
(***************************************************************************)
(* Times are stored and compared as RFC 3339 text whose fraction loses its *)
(* trailing zeros: 05.12Z, 05.1Z, 05Z.  Seconds have a fixed width, so the *)
(* texts of two times in different seconds sort as the times do.  Within a *)
(* second the Z stands where a dropped digit, or the point, would be; it   *)
(* sorts above the digits and the point.  Two digits stand for nine.       *)
(***************************************************************************)
EXTENDS Integers

CONSTANT Base   \* digits are 0 .. Base - 1 (10 in the code)

ASSUME TimeTextAssumption == Base \in Nat \ {0, 1}

Digits == 0..(Base - 1)
Times  == [sec : Int, d1 : Digits, d2 : Digits]

(* time.Time.Before.                                                       *)
Before(a, b) ==
    \/ a.sec < b.sec
    \/ a.sec = b.sec /\ a.d1 < b.d1
    \/ a.sec = b.sec /\ a.d1 = b.d1 /\ a.d2 < b.d2

(* What the text has in the place of each digit, Base being the Z.         *)
First(t)  == IF t.d1 = 0 /\ t.d2 = 0 THEN Base ELSE t.d1
Second(t) == IF t.d2 = 0 THEN Base ELSE t.d2

(* < on the texts in SQL.                                                  *)
TextBefore(a, b) ==
    \/ a.sec < b.sec
    \/ a.sec = b.sec /\ First(a) < First(b)
    \/ a.sec = b.sec /\ First(a) = First(b) /\ Second(a) < Second(b)

(* Add of a duration, which configurations and rules give in seconds.      *)
Plus(t, s) == [t EXCEPT !.sec = @ + s]

(* The half-open interval of a query, as SQL sees it and as it is meant.   *)
InText(t, a, b) == ~TextBefore(t, a) /\ TextBefore(t, b)
InTime(t, a, b) == ~Before(t, a) /\ Before(t, b)
=============================================================================
