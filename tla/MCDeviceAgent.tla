---------------------------- MODULE MCDeviceAgent ----------------------------
(* Names the jobs of the bounded instances of DeviceAgent.                   *)
EXTENDS DeviceAgent

CONSTANTS stop, other
=============================================================================
