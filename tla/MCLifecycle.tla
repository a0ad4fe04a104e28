----------------------------- MODULE MCLifecycle -----------------------------
(* Instances of Lifecycle for TLC.                                         *)
EXTENDS Lifecycle

(* A number that is no override, a bad value of the file, an override of   *)
(* one that wraps (3 * 3 of -8 .. 7).                                      *)
SomeSettings ==
    {[yaml |-> 1, env |-> 0], [yaml |-> 0, env |-> None], [yaml |-> 0, env |-> 3]}

(* A count that is not positive stands for the default of two workers.     *)
SomeCounts == {0, 1}
=============================================================================
