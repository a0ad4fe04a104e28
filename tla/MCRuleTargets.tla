---------------------------- MODULE MCRuleTargets ----------------------------
(* Instances of RuleTargets for TLC.                                       *)
EXTENDS RuleTargets, TLC

Symmetry == Permutations(Devices) \cup Permutations(Tags)
=============================================================================
