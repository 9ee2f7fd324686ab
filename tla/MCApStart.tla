----------------------------- MODULE MCApStart ------------------------------
(***************************************************************************)
(* A machine with three APs, one MADT entry that is disabled, and the BSP  *)
(* listed in the middle.                                                   *)
(***************************************************************************)
EXTENDS ApStart

CONSTANTS cpu0, cpu1, cpu2, cpu3, cpu4

MCAPs  == {cpu1, cpu2, cpu3}
MCMadt == <<cpu1, cpu4, cpu0, cpu2, cpu3>>
=============================================================================
