---------------------------- MODULE MCControlLoop ----------------------------
(* ControlLoop with limits no multiple of the steps, answers on both sides  *)
(* of every threshold, and every optimiser.                                 *)
EXTENDS ControlLoop

MCLinResults == -4 .. 4
MCAngResults == {-9, -3, -1, 0, 2, 9}
=============================================================================
