---------------------------- MODULE MCIssueWrites ----------------------------
(***************************************************************************)
(* Instances of IssueWrites: the gos of a person and of the tick, and a    *)
(* requirement for the web and the api.                                    *)
(***************************************************************************)
EXTENDS IssueWrites, TLC

CONSTANTS person, tick, web, api, hub

GoSymmetry == Permutations(Goers)
=============================================================================
