--------------------------- MODULE DurableReplica ---------------------------
(***************************************************************************)
(* What the outbox promises of the derived stores, whatever the jobs, the  *)
(* batches and the failures: an item has a version in the source of truth, *)
(* each store durably shows some version of it, and "settled" is said of   *)
(* an item only while every store shows its current version.               *)
(***************************************************************************)
EXTENDS Naturals

CONSTANTS Items, Replicas

VARIABLES version, shown, settled

vars == <<version, shown, settled>>

Init ==
    /\ version = [i \in Items |-> 0]
    /\ shown = [r \in Replicas |-> [i \in Items |-> 0]]
    /\ settled = [i \in Items |-> FALSE]

(* The source of truth changes some items: none of them is settled.        *)
Change(I) ==
    /\ version' = [i \in Items |-> IF i \in I THEN version[i] + 1 ELSE version[i]]
    /\ settled' = [i \in Items |-> settled[i] /\ i \notin I]
    /\ UNCHANGED shown

(* The replicas catch up, each item as far as its version at most and      *)
(* never backwards.                                                        *)
CatchUp ==
    /\ shown' \in [Replicas -> [Items -> Nat]]
    /\ \A r \in Replicas : \A i \in Items :
            shown[r][i] <= shown'[r][i] /\ shown'[r][i] <= version[i]
    /\ UNCHANGED <<version, settled>>

Settle(i) ==
    /\ \A r \in Replicas : shown[r][i] = version[i]
    /\ settled' = [settled EXCEPT ![i] = TRUE]
    /\ UNCHANGED <<version, shown>>

Next ==
    \/ \E I \in SUBSET Items : Change(I)
    \/ CatchUp
    \/ \E i \in Items : Settle(i)

Spec == Init /\ [][Next]_vars
=============================================================================
