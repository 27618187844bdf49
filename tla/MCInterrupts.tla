---------------------------- MODULE MCInterrupts ----------------------------
(***************************************************************************)
(* Interrupts with the lines that tell the cases apart: the keyboard (1)   *)
(* and line 7 on the master, the mouse (12) and line 15 on the slave.      *)
(* Lines 7 and 15 share their vectors with the spurious interrupts.        *)
(***************************************************************************)
EXTENDS Interrupts

MCLines == {1, 7, 12, 15}
=============================================================================
