------------------------------ MODULE MCVMTimer ------------------------------
(***************************************************************************)
(* Instance of VMTimer for TLC.  Interrupt 0 is the timer's, 1 is raised   *)
(* by the host and 2 by nobody; two thread identities let a second timer   *)
(* thread be started if the code ever allowed it.                          *)
(***************************************************************************)
EXTENDS VMTimer

MCHostIrqs == {1}
=============================================================================
