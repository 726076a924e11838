----------------------------- MODULE MCTickLock -----------------------------
(* Names the processes of the bounded instances of TickLock.               *)
EXTENDS TickLock

CONSTANTS p1, p2, p3
=============================================================================
