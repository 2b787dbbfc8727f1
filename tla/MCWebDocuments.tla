--------------------------- MODULE MCWebDocuments ---------------------------
EXTENDS WebDocuments

FilterSet == {"all", "failed"}
OrderSet == {"asc", "desc"}
SizeSet == {1, 2}

File(n, ok) == [name |-> n, fits |-> ok]
DropSet == {<<File(1, FALSE), File(2, TRUE)>>, <<File(1, TRUE)>>}

(* A slow operation among a choice and an arrival; an upload among one of  *)
(* them; or uploads in a row.                                              *)
MCInit ==
    /\ DocumentsInit
    /\ \/ choices = 0 /\ arrivals = 0 /\ slow = 0 /\ drops = MaxDrops
       \/ choices + arrivals = 1 /\ slow = MaxLate /\ drops = MaxDrops - 1
       \/ choices = MaxChoices /\ arrivals = MaxArrivals /\ slow = MaxLate /\ drops = 0
MCSpec == MCInit /\ [][DocumentsNext]_docVars /\ DocumentsFairness
=============================================================================
