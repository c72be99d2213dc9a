-------------------------------- MODULE MCIpc -------------------------------
(* Small instances of message passing over the scheduler. *)
EXTENDS Ipc

\* Long strings are not taken (EIPCNX), everything else comes on one channel.
OneChannel == [m \in TransferMode |-> IF m = "LARGESTR" THEN 0 ELSE 1]

req(op, tx, len, rx, frag) ==
    [op |-> op, tx |-> tx, len |-> len, rx |-> rx, frag |-> frag]

\* One request of each kind, and those that meet an error
SomeRequests ==
    {req("ipc_call", FALSE, 1, TRUE, FALSE),
     req("ipc_call", TRUE, 2, FALSE, FALSE),
     req("ipc_call", TRUE, 2, TRUE, TRUE),
     req("read", FALSE, 1, FALSE, FALSE),
     req("write", FALSE, 2, FALSE, FALSE)}
=============================================================================
