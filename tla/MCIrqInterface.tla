--------------------------- MODULE MCIrqInterface ---------------------------
(* The IRQ interface for TLC: an application that waits for everything, or  *)
(* one that waits for any part of its bits.                                 *)
EXTENDS IrqInterface

AllOrAny == {{Bits}, SUBSET Bits}

Any == {SUBSET Bits}
===============================================================================
