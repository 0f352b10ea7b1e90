---------------------------- MODULE MCTaskManger ----------------------------
(***************************************************************************)
(* TaskManger on small instances.                                          *)
(***************************************************************************)
EXTENDS TaskMangerInvariant
=============================================================================
