----------------------------- MODULE MCRunners -----------------------------
(* Names the processes of the instances of Runners. *)
EXTENDS Runners

CONSTANTS c, r1, r2
=============================================================================
