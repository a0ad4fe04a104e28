------------------------------- MODULE MCIngest -------------------------------
(* Instances of Ingest for TLC.                                            *)
EXTENDS Ingest, TLC

CONSTANTS s1, s2, k1, blank, d1

(* One sample with a key, one with a blank key.                           *)
OneKey == [s \in {s1, s2} |-> IF s = s1 THEN k1 ELSE blank]

OneDevice == [s \in {s1, s2} |-> d1]

RequestSymmetry == Permutations(Requests)
=============================================================================
