----------------------------- MODULE Lifecycle -----------------------------
(***************************************************************************)
(* The states of a requirement's session and the table of legal            *)
(* transitions: src/statemachine/states.ts and src/statemachine/engine.ts. *)
(***************************************************************************)

ALLOWED ==
  [ INTAKE                    |-> {"GATE_A_RUNNING", "GATE_A_FAILED"},
    GATE_A_RUNNING            |-> {"AWAITING_PM_CONFIRM", "GATE_A_ADVERSARIAL", "CONFIRMED",
                                   "GATE_A_STALLED", "GATE_A_FAILED"},
    AWAITING_PM_CONFIRM       |-> {"GATE_A_REVISION_REQUESTED", "CONFIRMED"},
    GATE_A_REVISION_REQUESTED |-> {"GATE_A_RUNNING", "GATE_A_FAILED"},
    GATE_A_ADVERSARIAL        |-> {"GATE_A_ADVERSARIAL", "AWAITING_PM_CONFIRM", "CONFIRMED",
                                   "GATE_A_STALLED", "GATE_A_FAILED"},
    GATE_A_STALLED            |-> {"CONFIRMED", "GATE_A_REVISION_REQUESTED"},
    CONFIRMED                 |-> {"GATE_B_REQUESTED"},
    GATE_B_REQUESTED          |-> {"GATE_B_RUNNING", "GATE_B_FAILED"},
    GATE_B_RUNNING            |-> {"ADVERSARIAL_LOOP", "GATE_B_FAILED"},
    ADVERSARIAL_LOOP          |-> {"ADVERSARIAL_LOOP", "AWAITING_GO", "AWAITING_GATE_B_INPUT",
                                   "GATE_B_STALLED", "GATE_B_FAILED"},
    AWAITING_GATE_B_INPUT     |-> {"GATE_B_REVISION_REQUESTED"},
    GATE_B_REVISION_REQUESTED |-> {"ADVERSARIAL_LOOP", "GATE_B_FAILED"},
    GATE_B_STALLED            |-> {"AWAITING_GO", "GATE_B_REVISION_REQUESTED"},
    AWAITING_GO               |-> {"WRITING", "GO_DENIED"},
    WRITING                   |-> {"DONE", "WRITE_FAILED"},
    DONE                      |-> {"GATE_C_REQUESTED"},
    GATE_C_REQUESTED          |-> {"GATE_C_RUNNING", "GATE_C_FAILED"},
    GATE_C_RUNNING            |-> {"GATE_C_LOOP", "GATE_C_FAILED"},
    GATE_C_LOOP               |-> {"GATE_C_LOOP", "AWAITING_GATE_D", "AWAITING_GATE_C_INPUT",
                                   "GATE_C_STALLED", "GATE_C_FAILED"},
    AWAITING_GATE_C_INPUT     |-> {"GATE_C_REVISION_REQUESTED"},
    GATE_C_REVISION_REQUESTED |-> {"GATE_C_LOOP", "GATE_C_FAILED"},
    GATE_C_STALLED            |-> {"GATE_C_REVISION_REQUESTED"},
    AWAITING_GATE_D           |-> {"GATE_D_REQUESTED"},
    GATE_D_REQUESTED          |-> {"GATE_D_LOOP", "GATE_D_FAILED"},
    GATE_D_LOOP               |-> {"GATE_D_LOOP", "GATE_D_HARDENING", "AWAITING_GATE_D_INPUT",
                                   "GATE_D_STALLED", "GATE_D_FAILED"},
    AWAITING_GATE_D_INPUT     |-> {"GATE_D_REVISION_REQUESTED"},
    GATE_D_REVISION_REQUESTED |-> {"GATE_D_LOOP", "GATE_D_FAILED"},
    GATE_D_HARDENING          |-> {"AWAITING_HUMAN_MERGE", "GATE_D_LOOP", "GATE_D_FAILED"},
    GATE_D_STALLED            |-> {"AWAITING_HUMAN_MERGE", "GATE_D_REVISION_REQUESTED"},
    AWAITING_HUMAN_MERGE      |-> {"SHIPPED", "GATE_D_REVISION_REQUESTED"},
    SHIPPED                   |-> {},
    GATE_A_FAILED             |-> {"GATE_A_RUNNING", "INTAKE", "GATE_A_REVISION_REQUESTED",
                                   "GATE_A_ADVERSARIAL"},
    GATE_B_FAILED             |-> {"GATE_B_RUNNING", "GATE_B_REQUESTED", "ADVERSARIAL_LOOP",
                                   "GATE_B_REVISION_REQUESTED"},
    GATE_C_FAILED             |-> {"GATE_C_REQUESTED", "GATE_C_RUNNING", "GATE_C_LOOP",
                                   "GATE_C_REVISION_REQUESTED"},
    GATE_D_FAILED             |-> {"GATE_D_REQUESTED", "GATE_D_LOOP", "GATE_D_REVISION_REQUESTED",
                                   "GATE_D_HARDENING"},
    GO_DENIED                 |-> {"AWAITING_GO"},
    WRITE_FAILED              |-> {"WRITING"} ]

STATES == DOMAIN ALLOWED

\* self-transitions are always allowed
canTransition(from, to) == from = to \/ to \in ALLOWED[from]

\* the states a tick advances without a human
POLLER_DRIVEN ==
  {"INTAKE", "GATE_A_REVISION_REQUESTED", "GATE_A_ADVERSARIAL",
   "GATE_B_REQUESTED", "ADVERSARIAL_LOOP", "GATE_B_REVISION_REQUESTED",
   "GATE_C_REQUESTED", "GATE_C_LOOP", "GATE_C_REVISION_REQUESTED",
   "GATE_D_REQUESTED", "GATE_D_LOOP", "GATE_D_REVISION_REQUESTED", "GATE_D_HARDENING"}

\* the pause points waiting on a human
HUMAN_GATES ==
  {"AWAITING_PM_CONFIRM", "GATE_A_STALLED", "CONFIRMED",
   "AWAITING_GATE_B_INPUT", "GATE_B_STALLED", "AWAITING_GO",
   "AWAITING_GATE_C_INPUT", "GATE_C_STALLED", "AWAITING_GATE_D",
   "AWAITING_GATE_D_INPUT", "GATE_D_STALLED", "AWAITING_HUMAN_MERGE"}

TERMINAL ==
  {"DONE", "SHIPPED", "GATE_A_FAILED", "GATE_B_FAILED", "GATE_C_FAILED",
   "GATE_D_FAILED", "GO_DENIED", "WRITE_FAILED"}
=============================================================================
