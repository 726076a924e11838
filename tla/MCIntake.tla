------------------------------ MODULE MCIntake ------------------------------
(* Gives the messages of the instances of Intake their documents: the first *)
(* and the last link the same one.                                          *)
EXTENDS Intake

CONSTANTS a, b, h1, h2

\* nobody can say whether the second mentions the bot
Readings == {[m \in Msgs |-> IF m = 2 THEN "unconfirmable" ELSE "admit"]}
Links == [m \in Msgs |-> IF m = 2 THEN b ELSE a]
=============================================================================
