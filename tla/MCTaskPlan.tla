----------------------------- MODULE MCTaskPlan -----------------------------
(* Instances of TaskPlan for TLC.                                           *)
EXTENDS TaskPlan
=============================================================================
