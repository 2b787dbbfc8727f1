---------------------------- MODULE CoreService ----------------------------
(***************************************************************************)
(* What the Runtime promises its clients: at any time it serves one Core   *)
(* instance or none, a call begins on the instance being served, and an    *)
(* instance is not withdrawn while a call is running on it.                *)
(***************************************************************************)
CONSTANTS Clients, Cores, None

VARIABLES core, call

vars == <<core, call>>

Init ==
    /\ core = None
    /\ call = [c \in Clients |-> None]

Offer(b) ==
    /\ core = None
    /\ core' = b
    /\ UNCHANGED call

Withdraw ==
    /\ \A c \in Clients : call[c] # core
    /\ core' = None
    /\ UNCHANGED call

Begin(c) ==
    /\ core # None
    /\ call' = [call EXCEPT ![c] = core]
    /\ UNCHANGED core

End(c) ==
    /\ call' = [call EXCEPT ![c] = None]
    /\ UNCHANGED core

Next ==
    \/ \E b \in Cores : Offer(b)
    \/ Withdraw
    \/ \E c \in Clients : Begin(c) \/ End(c)

Spec == Init /\ [][Next]_vars
=============================================================================
