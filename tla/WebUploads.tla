------------------------------ MODULE WebUploads ------------------------------
(***************************************************************************)
(* The upload dialog: UploadDocumentsDialog.tsx and the cards of           *)
(* ui/FileUploader.tsx.                                                    *)
(*                                                                         *)
(* The files of a drop that are acceptable are uploaded one after the      *)
(* other, by name; the others are refused at once.  Errors are kept by     *)
(* name, cards by file.  What is done with an accepted upload is for the   *)
(* module that has the list of documents.                                  *)
(*                                                                         *)
(* The percentages, the texts of the errors and the previews are left out. *)
(* External: which names and sizes are acceptable (lib/fileTypes), and     *)
(* whether the server takes a file.                                        *)
(***************************************************************************)
EXTENDS Integers, FiniteSets, Sequences, KeptSequences

CONSTANTS
    Drops,      \* what can be dropped at once: a sequence of files, each with
                \* its name (its place in the order of the collator) and
                \* whether it is acceptable
    NoBatch,
    MaxDrops    \* bound

ASSUME UploadsAssumption ==
    /\ \A d \in Drops : d \in Seq([name : Nat, fits : BOOLEAN])
    /\ MaxDrops \in Nat

VARIABLES
    fileTypes,  \* "idle" while the dialog is closed
    files,      \* every file dropped since it opened: its name, whether its
                \* card is there, and (history) what became of it
    errors,     \* the names in fileErrors
    batch,      \* isUploading: the callbacks' query, and hasSuccessfulUpload
    drops

uploadVars == <<fileTypes, files, errors, batch, drops>>

UploadsTypeOK ==
    /\ fileTypes \in {"idle", "loading", "known"}
    /\ files \in Seq([name : Nat, listed : BOOLEAN,
                      verdict : {"waiting", "taken", "refused"}])
    /\ errors \subseteq Nat
    /\ fileTypes = "idle" => files = <<>> /\ errors = {} /\ batch = NoBatch

UploadsInit ==
    /\ fileTypes = "idle" /\ files = <<>> /\ errors = {} /\ batch = NoBatch
    /\ drops \in 0 .. MaxDrops

(* ----------------------------- the dialog ------------------------------ *)
OpenUploads ==
    /\ fileTypes = "idle" /\ drops < MaxDrops
    /\ fileTypes' = "loading"
    /\ UNCHANGED <<files, errors, batch, drops>>

(* The types, or the static ones when the request fails; what comes for a  *)
(* dialog that was closed is dropped.                                      *)
TypesAnswer ==
    /\ fileTypes = "loading"
    /\ fileTypes' = "known"
    /\ UNCHANGED <<files, errors, batch, drops>>

(* Not while a batch is uploaded; the cards go with the dialog.            *)
CloseUploads ==
    /\ fileTypes # "idle" /\ batch = NoBatch
    /\ fileTypes' = "idle" /\ files' = <<>> /\ errors' = {}
    /\ UNCHANGED <<batch, drops>>

(* onRemove: the card only; the upload goes on.                            *)
RemoveCard(i) ==
    /\ files[i].listed
    /\ files' = [files EXCEPT ![i].listed = FALSE]
    /\ UNCHANGED <<fileTypes, errors, batch, drops>>

(* ------------------------------- a batch ------------------------------- *)
NamesOf(fs) == {fs[i].name : i \in DOMAIN fs}
Card(f, verdict) == [name |-> f.name, listed |-> TRUE, verdict |-> verdict]
Cards(fs, verdict) == [i \in DOMAIN fs |-> Card(fs[i], verdict)]

(* Mutant: a new batch clears every error.                                 *)
ErrorsOver(accepted, rejected) == IF accepted = {} THEN errors \cup rejected ELSE {}

(* handleRejectedFiles, then handleDocumentsUpload: the errors of the      *)
(* names that are uploaded are cleared, those of the others stay.          *)
ErrorsAfter(accepted, rejected) == (errors \cup rejected) \ accepted

(* The files the validator accepts, or rejects.                            *)
Droppable(fits) == [name : Nat, fits : {fits}]

DropBatch(d, q) ==
    LET good == Kept(d, Droppable(TRUE))
        bad == Kept(d, Droppable(FALSE))
    IN  /\ fileTypes = "known" /\ batch = NoBatch
        /\ drops < MaxDrops /\ drops' = drops + 1
        /\ files' = files \o Cards(good, "waiting") \o Cards(bad, "refused")
        /\ errors' = ErrorsAfter(NamesOf(good), NamesOf(bad))
        /\ batch' = IF good = <<>> THEN NoBatch ELSE [query |-> q, taken |-> FALSE]
        /\ UNCHANGED fileTypes

(* The file that is uploaded: the first by name of those that wait         *)
Waiting == {i \in DOMAIN files : files[i].verdict = "waiting"}
UploadTurn(i) ==
    /\ i \in Waiting
    /\ \A j \in Waiting \ {i} : files[i].name < files[j].name
                                \/ (files[i].name = files[j].name /\ i < j)

(* The server takes the file, or an error is put to its name.              *)
Uploaded(i, taken) ==
    /\ UploadTurn(i)
    /\ files' = [files EXCEPT ![i].verdict = IF taken THEN "taken" ELSE "refused"]
    /\ errors' = IF taken THEN errors ELSE errors \cup {files[i].name}
    /\ batch' = IF Waiting = {i} THEN NoBatch
                ELSE [batch EXCEPT !.taken = @ \/ taken]
    /\ UNCHANGED <<fileTypes, drops>>

UploadsUser ==
    OpenUploads \/ CloseUploads \/ \E i \in DOMAIN files : RemoveCard(i)

(* A card shows an error if, and only if, its file was refused, by the     *)
(* page or by the server: while later batches come and go, and other cards *)
(* are removed; unless another file of the same name was dropped, since    *)
(* the errors are kept by name.                                            *)
VerdictsShown ==
    \A i \in DOMAIN files :
        \/ files[i].name \in errors <=> files[i].verdict = "refused"
        \/ \E j \in DOMAIN files \ {i} : files[j].name = files[i].name
=============================================================================
