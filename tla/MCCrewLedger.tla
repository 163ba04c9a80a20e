---------------------------- MODULE MCCrewLedger ----------------------------
(* One crew, its submitter, the collector and one or two more requests.     *)
EXTENDS CrewLedger, TLC

Symmetry == Permutations(Pollers)
=============================================================================
