----------------------------- MODULE MCDeviceHub -----------------------------
(* Names the callers, jobs and connections of the instances of DeviceHub.    *)
EXTENDS DeviceHub, TLC

CONSTANTS j1, j2, j3, c1, c2, k1, k2, k3

HubSymmetry == Permutations(Callers) \cup Permutations(HubJobs) \cup Permutations(Conns)
=============================================================================
