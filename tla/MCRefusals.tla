----------------------------- MODULE MCRefusals -----------------------------
(* Refusals on a small instance: two workers, a budget of one entry and a   *)
(* window of two ticks.                                                     *)
EXTENDS Refusals
=============================================================================
