-------------------------------- MODULE Rpc ---------------------------------
(***************************************************************************)
(* What message passing promises (user/ipc.cxx seen from its users): a     *)
(* call is accepted by one server, ends when that server responds, and is  *)
(* given up by the kernel only before it was accepted.  Module Ipc is      *)
(* checked to implement it.                                                *)
(***************************************************************************)
CONSTANTS Threads, Nobody

VARIABLES
    phase,      \* of the call a thread is making, if any
    serving     \* the thread whose call a thread has accepted

rpcVars == <<phase, serving>>

Init ==
    /\ phase = [t \in Threads |-> "idle"]
    /\ serving = [t \in Threads |-> Nobody]

\* Thread c makes a call, and waits for a server.
Call(c) ==
    /\ phase[c] = "idle"
    /\ phase' = [phase EXCEPT ![c] = "pending"]
    /\ UNCHANGED serving

\* Server l, which is neither calling nor serving, accepts the call of c.
Accept(c, l) ==
    /\ phase[c] \in {"idle", "pending"}
    /\ c # l
    /\ phase[l] = "idle"
    /\ serving[l] = Nobody
    /\ phase' = [phase EXCEPT ![c] = "served"]
    /\ serving' = [serving EXCEPT ![l] = c]

\* Server l responds, and the call it serves ends.
Respond(l) ==
    /\ phase[l] = "idle"
    /\ serving[l] # Nobody
    /\ phase' = [phase EXCEPT ![serving[l]] = "idle"]
    /\ serving' = [serving EXCEPT ![l] = Nobody]

\* Calls that no server has accepted are given up.
GiveUp(S) ==
    /\ \A c \in S : phase[c] = "pending"
    /\ phase' = [t \in Threads |-> IF t \in S THEN "idle" ELSE phase[t]]
    /\ UNCHANGED serving

Next ==
    \/ \E c \in Threads : Call(c)
    \/ \E c, l \in Threads : Accept(c, l)
    \/ \E l \in Threads : Respond(l)
    \/ \E S \in SUBSET Threads : GiveUp(S)

Spec == Init /\ [][Next]_rpcVars

-----------------------------------------------------------------------------
TypeOK ==
    /\ phase \in [Threads -> {"idle", "pending", "served"}]
    /\ serving \in [Threads -> Threads \cup {Nobody}]

\* No two servers hold the same call, and a call that was not accepted is held by
\* none.
OneServer ==
    \A l \in Threads :
        serving[l] # Nobody =>
            /\ phase[serving[l]] = "served"
            /\ \A m \in Threads : serving[m] = serving[l] => m = l

\* Accepted calls never wait for each other in a circle, however servers call
\* other servers while they serve.
NoCallCycle ==
    \A S \in SUBSET Threads :
        S # {} => \E c \in S : \A l \in S : serving[l] # c
=============================================================================
