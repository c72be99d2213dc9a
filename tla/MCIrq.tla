-------------------------------- MODULE MCIrq -------------------------------
(* Small instances of the interrupt handles over the scheduler. *)
EXTENDS Irq
=============================================================================
