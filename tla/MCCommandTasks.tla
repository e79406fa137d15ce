--------------------------- MODULE MCCommandTasks ---------------------------
(* Instances of CommandTasks for TLC.                                       *)
EXTENDS CommandTasks
=============================================================================
