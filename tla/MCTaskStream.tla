------------------------------ MODULE MCTaskStream ------------------------------
(* Instances of TaskStream for TLC. *)
EXTENDS TaskStream

CONSTANTS reporter, engine, ender, noone

OneReporter == {reporter}
=============================================================================
