---------------------------- MODULE MCRuleEngine ----------------------------
(* Small instances of RuleEngine for TLC. *)
EXTENDS RuleEngine, TLC

Symmetry == Permutations(Workers) \cup Permutations(Admins)
=============================================================================
