-------------------------------- MODULE MCTty -------------------------------
(* The serial terminal: one client, one UART. *)
EXTENDS Tty

ReadWriteMap == [m \in TransferMode |-> CASE m = "READ" -> 1 [] m = "WRITE" -> 2 [] OTHER -> 0]
=============================================================================
