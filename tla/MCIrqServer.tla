---------------------------- MODULE MCIrqServer ----------------------------
(* The IRQ server for TLC: its threads wait for all of their bits.          *)
EXTENDS IrqServer

NoMasks == {{}}
===============================================================================
