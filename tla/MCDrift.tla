------------------------------- MODULE MCDrift -------------------------------
(* Names the issues of the instances of Drift. *)
EXTENDS Drift

CONSTANTS epic, sub
=============================================================================
