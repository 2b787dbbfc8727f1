----------------------------- MODULE MCDreaming -----------------------------
EXTENDS Dreaming
CONSTANTS s1, s2, s3

(* Every fault once.                                                       *)
FaultsAll == [f \in FaultKinds |-> 1]
=============================================================================
