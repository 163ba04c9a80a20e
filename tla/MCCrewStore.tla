---------------------------- MODULE MCCrewStore ----------------------------
(* Two crews of one task or one crew of two, over one or two restarts.      *)
EXTENDS CrewStore, TLC

Symmetry == Permutations(Crews) \cup Permutations(Tasks)
=============================================================================
