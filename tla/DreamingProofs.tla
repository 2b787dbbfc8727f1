--------------------------- MODULE DreamingProofs ---------------------------
(***************************************************************************)
(* Proofs about Dreaming, for any runs and any bounds on faults.           *)
(*                                                                         *)
(* The argument: a SQLite transaction looks at the status it finds, so the *)
(* rows of a run agree whichever of the runner, the call it left behind    *)
(* and the repair of a restart comes first.  In a serving process the task *)
(* that holds the slot writes to the graph alone: what it published is     *)
(* still there when it confirms, and what it read as the previous snapshot *)
(* is still the latest when it restores.                                   *)
(***************************************************************************)
EXTENDS Dreaming, TLAPS

RowsTypeOK ==
    /\ run \in [Runs -> {"none", "running", "succeeded", "failed"}]
    /\ snap \in [Runs -> {"none", "prepared", "published", "failed"}]

(* What the graph relies on: a snapshot once stored stays stored.          *)
Kept == \A r \in Runs : snap[r] # "none" => snap'[r] # "none"

-----------------------------------------------------------------------------
(* The transactions of SQLite keep the rows in agreement.                  *)

(* prepare_dreaming_snapshot stages only for an active run.                *)
LEMMA StagedRows ==
    ASSUME RowsTypeOK, RowsAgree, NEW q \in Runs, Staged(q), run' = run
    PROVE  RowsTypeOK' /\ RowsAgree' /\ Kept
BY DEF RowsTypeOK, RowsAgree, Kept, Staged

(* publish_dreaming_snapshot publishes only what is prepared.              *)
LEMMA ConfirmedRows ==
    ASSUME RowsTypeOK, RowsAgree, NEW q \in Runs, Confirmed(q)
    PROVE  RowsTypeOK' /\ RowsAgree' /\ Kept
BY DEF RowsTypeOK, RowsAgree, Kept, Confirmed, Prepared, sqlVars

(* A recorded failure takes the prepared snapshot with the active run.     *)
LEMMA RecordedRows ==
    ASSUME RowsTypeOK, RowsAgree, NEW R \in SUBSET Runs, Recorded(R)
    PROVE  RowsTypeOK' /\ RowsAgree' /\ Kept
BY DEF RowsTypeOK, RowsAgree, Kept, Recorded

-----------------------------------------------------------------------------
(* The inductive invariant.                                                *)

LEMMA InitInvariant == Init => DreamingInvariant
<1> SUFFICES ASSUME Init PROVE DreamingInvariant
  OBVIOUS
<1>1. TypeOK
  BY DEF Init, TypeOK, FaultKinds, Steps
<1>2. RowsAgree /\ GraphIsStaged
  BY DEF Init, RowsAgree, GraphIsStaged
<1>3. TaskOfProcess /\ SlotOfTask /\ StoredByTask /\ GraphOfTask
  BY DEF Init, TaskOfProcess, SlotOfTask, StoredByTask, GraphOfTask
<1> QED BY <1>1, <1>2, <1>3 DEF DreamingInvariant

(* A fault of kind f is counted, and no count ever falls.                  *)
LEMMA FaultCounts ==
    ASSUME TypeOK, NEW f \in FaultKinds, Fault(f)
    PROVE  /\ faults' \in [FaultKinds -> Nat]
           /\ faults'[f] > 0
           /\ \A g \in FaultKinds : faults'[g] = 0 => faults[g] = 0
BY DEF TypeOK, Fault

(* The repair of a restart finds no task and no call left behind.          *)
LEMMA ProcStartStep ==
    ASSUME DreamingInvariant, ProcStart
    PROVE  DreamingInvariant'
<1> USE DreamingAssumption DEF DreamingInvariant
<1>1. faults' = faults /\ faults \in [FaultKinds -> Nat]
  BY DEF ProcStart, TypeOK, sqlVars, taskVars
<1>2. RowsTypeOK' /\ RowsAgree' /\ Kept /\ latest' = latest
  BY RecordedRows DEF ProcStart, TypeOK, RowsTypeOK
<1>3. TypeOK'
  BY <1>1, <1>2 DEF ProcStart, TypeOK, RowsTypeOK, Steps, sqlVars, taskVars
<1>4. GraphIsStaged'
  BY <1>2
     DEF ProcStart, TypeOK, GraphIsStaged, StoredByTask, Kept, sqlVars, taskVars
<1>5. TaskOfProcess'
  BY <1>1 DEF ProcStart, TypeOK, TaskOfProcess, FaultKinds, sqlVars, taskVars
<1>6. SlotOfTask'
  BY <1>1, <1>2
     DEF ProcStart, TypeOK, RowsAgree, TaskOfProcess, SlotOfTask, FaultKinds,
         Recorded, sqlVars, taskVars
<1>7. StoredByTask'
  BY <1>2
     DEF ProcStart, TypeOK, RowsAgree, StoredByTask, Kept, Recorded, sqlVars,
         taskVars
<1>8. GraphOfTask'
  BY <1>1, <1>2
     DEF ProcStart, TypeOK, TaskOfProcess, SlotOfTask, GraphOfTask, Undisturbed,
         FaultKinds, sqlVars, taskVars
<1> QED BY <1>2, <1>3, <1>4, <1>5, <1>6, <1>7, <1>8

(* A run starts in a serving process, in a free slot.                      *)
LEMMA StartStep ==
    ASSUME DreamingInvariant, NEW q \in Runs, Start(q)
    PROVE  DreamingInvariant'
<1> USE DreamingAssumption DEF DreamingInvariant
<1>1. faults' = faults /\ faults \in [FaultKinds -> Nat]
  BY DEF Start, SlotFree, TypeOK, sqlVars, taskVars
<1>2. RowsTypeOK' /\ RowsAgree' /\ Kept /\ snap' = snap /\ latest' = latest
  BY DEF Start, SlotFree, TypeOK, RowsTypeOK, RowsAgree, Kept
<1>3. TypeOK'
  BY <1>1, <1>2
     DEF Start, SlotFree, TypeOK, RowsTypeOK, Steps, sqlVars, taskVars
<1>4. GraphIsStaged'
  BY <1>2
     DEF Start, SlotFree, TypeOK, GraphIsStaged, StoredByTask, Kept, sqlVars,
         taskVars
<1>5. TaskOfProcess'
  BY <1>1
     DEF Start, SlotFree, TypeOK, TaskOfProcess, FaultKinds, sqlVars, taskVars
<1>6. SlotOfTask'
  BY <1>1, <1>2
     DEF Start, SlotFree, TypeOK, RowsAgree, TaskOfProcess, SlotOfTask,
         FaultKinds, sqlVars, taskVars
<1>7. StoredByTask'
  BY <1>2
     DEF Start, SlotFree, TypeOK, RowsAgree, StoredByTask, Kept, sqlVars,
         taskVars
<1>8. GraphOfTask'
  BY <1>1, <1>2
     DEF Start, SlotFree, TypeOK, TaskOfProcess, SlotOfTask, GraphOfTask,
         Undisturbed, FaultKinds, sqlVars, taskVars
<1> QED BY <1>2, <1>3, <1>4, <1>5, <1>6, <1>7, <1>8

(* Computing writes nothing.                                               *)
LEMMA WorkStep ==
    ASSUME DreamingInvariant, NEW q \in Runs, Work(q)
    PROVE  DreamingInvariant'
<1> USE DreamingAssumption DEF DreamingInvariant
<1>1. faults' = faults /\ faults \in [FaultKinds -> Nat]
  BY DEF Work, Runner, Goto, TypeOK, sqlVars, taskVars
<1>2. RowsTypeOK' /\ RowsAgree' /\ Kept /\ snap' = snap /\ run' = run /\ latest' = latest
  BY DEF Work, Runner, Goto, TypeOK, RowsTypeOK, RowsAgree, Kept, sqlVars
<1>3. TypeOK'
  BY <1>1, <1>2
     DEF Work, Runner, Goto, TypeOK, RowsTypeOK, Steps, sqlVars, taskVars
<1>4. GraphIsStaged'
  BY <1>2
     DEF Work, Runner, Goto, TypeOK, GraphIsStaged, StoredByTask, Kept, sqlVars,
         taskVars
<1>5. TaskOfProcess'
  BY <1>1
     DEF Work, Runner, Goto, TypeOK, TaskOfProcess, FaultKinds, sqlVars,
         taskVars
<1>6. SlotOfTask'
  BY <1>1, <1>2
     DEF Work, Runner, Goto, TypeOK, RowsAgree, TaskOfProcess, SlotOfTask,
         FaultKinds, sqlVars, taskVars
<1>7. StoredByTask'
  BY <1>2
     DEF Work, Runner, Goto, TypeOK, RowsAgree, StoredByTask, Kept, sqlVars,
         taskVars
<1>8. GraphOfTask'
  BY <1>1, <1>2
     DEF Work, Runner, Goto, TypeOK, TaskOfProcess, SlotOfTask, GraphOfTask,
         Undisturbed, FaultKinds, sqlVars, taskVars
<1> QED BY <1>2, <1>3, <1>4, <1>5, <1>6, <1>7, <1>8

(* Staging stores the snapshot before anything shows it.                   *)
LEMMA StageStep ==
    ASSUME DreamingInvariant, NEW q \in Runs, Stage(q)
    PROVE  DreamingInvariant'
<1> USE DreamingAssumption DEF DreamingInvariant
<1>1. faults' = faults /\ faults \in [FaultKinds -> Nat]
  BY DEF Stage, Runner, Goto, TypeOK, sqlVars, taskVars
<1>2. RowsTypeOK' /\ RowsAgree' /\ Kept /\ run' = run /\ latest' = latest
  BY StagedRows DEF Stage, TypeOK, RowsTypeOK
<1>3. TypeOK'
  BY <1>1, <1>2
     DEF Stage, Runner, Goto, TypeOK, RowsTypeOK, Steps, sqlVars, taskVars
<1>4. GraphIsStaged'
  BY <1>2
     DEF Stage, Runner, Goto, TypeOK, GraphIsStaged, StoredByTask, Kept,
         sqlVars, taskVars
<1>5. TaskOfProcess'
  BY <1>1
     DEF Stage, Runner, Goto, TypeOK, TaskOfProcess, FaultKinds, sqlVars,
         taskVars
<1>6. SlotOfTask'
  BY <1>1, <1>2
     DEF Stage, Runner, Goto, TypeOK, RowsAgree, TaskOfProcess, SlotOfTask,
         FaultKinds, Staged, sqlVars, taskVars
<1>7. StoredByTask'
  BY <1>2
     DEF Stage, Runner, Goto, TypeOK, RowsAgree, StoredByTask, Kept, Staged,
         sqlVars, taskVars
<1>8. GraphOfTask'
  BY <1>1, <1>2
     DEF Stage, Runner, Goto, TypeOK, TaskOfProcess, SlotOfTask, GraphOfTask,
         Undisturbed, FaultKinds, sqlVars, taskVars
<1> QED BY <1>2, <1>3, <1>4, <1>5, <1>6, <1>7, <1>8

(* The previous snapshot is the one published last.                        *)
LEMMA LoadStep ==
    ASSUME DreamingInvariant, NEW q \in Runs, Load(q)
    PROVE  DreamingInvariant'
<1> USE DreamingAssumption DEF DreamingInvariant
<1>1. faults' = faults /\ faults \in [FaultKinds -> Nat]
  BY DEF Load, Runner, TypeOK, sqlVars, taskVars
<1>2. RowsTypeOK' /\ RowsAgree' /\ Kept /\ snap' = snap /\ run' = run /\ latest' = latest
  BY DEF Load, Runner, TypeOK, RowsTypeOK, RowsAgree, Kept, sqlVars
<1>3. TypeOK'
  BY <1>1, <1>2 DEF Load, Runner, TypeOK, RowsTypeOK, Steps, sqlVars, taskVars
<1>4. GraphIsStaged'
  BY <1>2
     DEF Load, Runner, TypeOK, GraphIsStaged, StoredByTask, Kept, sqlVars,
         taskVars
<1>5. TaskOfProcess'
  BY <1>1 DEF Load, Runner, TypeOK, TaskOfProcess, FaultKinds, sqlVars, taskVars
<1>6. SlotOfTask'
  BY <1>1, <1>2
     DEF Load, Runner, TypeOK, RowsAgree, TaskOfProcess, SlotOfTask, FaultKinds,
         sqlVars, taskVars
<1>7. StoredByTask'
  BY <1>2
     DEF Load, Runner, TypeOK, RowsAgree, StoredByTask, Kept, sqlVars, taskVars
<1>8. GraphOfTask'
  BY <1>1, <1>2
     DEF Load, Runner, TypeOK, TaskOfProcess, SlotOfTask, GraphOfTask,
         Undisturbed, FaultKinds, sqlVars, taskVars
<1> QED BY <1>2, <1>3, <1>4, <1>5, <1>6, <1>7, <1>8

(* The graph shows the staged snapshot, the runner confirms it next.       *)
LEMMA PublishStep ==
    ASSUME DreamingInvariant, NEW q \in Runs, Publish(q)
    PROVE  DreamingInvariant'
<1> USE DreamingAssumption DEF DreamingInvariant
<1>1. faults' = faults /\ faults \in [FaultKinds -> Nat]
  BY DEF Publish, Runner, Goto, TypeOK, sqlVars, taskVars
<1>2. RowsTypeOK' /\ RowsAgree' /\ Kept /\ snap' = snap /\ run' = run /\ latest' = latest
  BY DEF Publish, Runner, Goto, TypeOK, RowsTypeOK, RowsAgree, Kept, sqlVars
<1>3. TypeOK'
  BY <1>1, <1>2
     DEF Publish, Runner, Goto, TypeOK, RowsTypeOK, Steps, sqlVars, taskVars
<1>4. GraphIsStaged'
  BY <1>2
     DEF Publish, Runner, Goto, TypeOK, GraphIsStaged, StoredByTask, Kept,
         sqlVars, taskVars
<1>5. TaskOfProcess'
  BY <1>1
     DEF Publish, Runner, Goto, TypeOK, TaskOfProcess, FaultKinds, sqlVars,
         taskVars
<1>6. SlotOfTask'
  BY <1>1, <1>2
     DEF Publish, Runner, Goto, TypeOK, RowsAgree, TaskOfProcess, SlotOfTask,
         FaultKinds, sqlVars, taskVars
<1>7. StoredByTask'
  BY <1>2
     DEF Publish, Runner, Goto, TypeOK, RowsAgree, StoredByTask, Kept, sqlVars,
         taskVars
<1>8. GraphOfTask'
  BY <1>1, <1>2
     DEF Publish, Runner, Goto, TypeOK, TaskOfProcess, SlotOfTask, GraphOfTask,
         Undisturbed, FaultKinds, sqlVars, taskVars
<1> QED BY <1>2, <1>3, <1>4, <1>5, <1>6, <1>7, <1>8

(* The confirmed snapshot is the one the graph shows.                      *)
LEMMA ConfirmStep ==
    ASSUME DreamingInvariant, NEW q \in Runs, Confirm(q)
    PROVE  DreamingInvariant'
<1> USE DreamingAssumption DEF DreamingInvariant
<1>1. faults' = faults /\ faults \in [FaultKinds -> Nat]
  BY DEF Confirm, Runner, Goto, TypeOK, sqlVars, taskVars
<1>2. RowsTypeOK' /\ RowsAgree' /\ Kept
  BY ConfirmedRows DEF Confirm, TypeOK, RowsTypeOK
<1>3. TypeOK'
  BY <1>1, <1>2
     DEF Confirm, Runner, Goto, TypeOK, RowsTypeOK, Steps, Confirmed, Prepared,
         sqlVars, taskVars
<1>4. GraphIsStaged'
  BY <1>2
     DEF Confirm, Runner, Goto, TypeOK, GraphIsStaged, StoredByTask, Kept,
         sqlVars, taskVars
<1>5. TaskOfProcess'
  BY <1>1
     DEF Confirm, Runner, Goto, TypeOK, TaskOfProcess, FaultKinds, sqlVars,
         taskVars
<1>6. SlotOfTask'
  BY <1>1, <1>2
     DEF Confirm, Runner, Goto, TypeOK, RowsAgree, TaskOfProcess, SlotOfTask,
         FaultKinds, Confirmed, Prepared, sqlVars, taskVars
<1>7. StoredByTask'
  BY <1>2
     DEF Confirm, Runner, Goto, TypeOK, RowsAgree, StoredByTask, Kept,
         Confirmed, Prepared, sqlVars, taskVars
<1>8. GraphOfTask'
  BY <1>1, <1>2
     DEF Confirm, Runner, Goto, TypeOK, TaskOfProcess, SlotOfTask, GraphOfTask,
         Undisturbed, FaultKinds, Confirmed, Prepared, sqlVars, taskVars
<1> QED BY <1>2, <1>3, <1>4, <1>5, <1>6, <1>7, <1>8

(* A confirmed run has nothing left to do.                                 *)
LEMMA ReadStatusStep ==
    ASSUME DreamingInvariant, NEW q \in Runs, ReadStatus(q)
    PROVE  DreamingInvariant'
<1> USE DreamingAssumption DEF DreamingInvariant
<1>1. faults' = faults /\ faults \in [FaultKinds -> Nat]
  BY DEF ReadStatus, Runner, Goto, TypeOK, sqlVars, taskVars
<1>2. RowsTypeOK' /\ RowsAgree' /\ Kept /\ snap' = snap /\ run' = run /\ latest' = latest
  BY DEF ReadStatus, Runner, Goto, TypeOK, RowsTypeOK, RowsAgree, Kept, sqlVars
<1>3. TypeOK'
  BY <1>1, <1>2
     DEF ReadStatus, Runner, Goto, TypeOK, RowsTypeOK, Steps, sqlVars, taskVars
<1>4. GraphIsStaged'
  BY <1>2
     DEF ReadStatus, Runner, Goto, TypeOK, GraphIsStaged, StoredByTask, Kept,
         sqlVars, taskVars
<1>5. TaskOfProcess'
  BY <1>1
     DEF ReadStatus, Runner, Goto, TypeOK, TaskOfProcess, FaultKinds, sqlVars,
         taskVars
<1>6. SlotOfTask'
  BY <1>1, <1>2
     DEF ReadStatus, Runner, Goto, TypeOK, RowsAgree, TaskOfProcess, SlotOfTask,
         FaultKinds, sqlVars, taskVars
<1>7. StoredByTask'
  BY <1>2
     DEF ReadStatus, Runner, Goto, TypeOK, RowsAgree, StoredByTask, Kept,
         sqlVars, taskVars
<1>8. GraphOfTask'
  BY <1>1, <1>2
     DEF ReadStatus, Runner, Goto, TypeOK, TaskOfProcess, SlotOfTask,
         GraphOfTask, Undisturbed, FaultKinds, sqlVars, taskVars
<1> QED BY <1>2, <1>3, <1>4, <1>5, <1>6, <1>7, <1>8

(* A restoration brings back what SQLite published last.                   *)
LEMMA RestoreStep ==
    ASSUME DreamingInvariant, NEW q \in Runs, Restore(q)
    PROVE  DreamingInvariant'
<1> USE DreamingAssumption DEF DreamingInvariant
<1>1. faults' = faults /\ faults \in [FaultKinds -> Nat]
  BY DEF Restore, Runner, Goto, TypeOK, sqlVars, taskVars
<1>2. RowsTypeOK' /\ RowsAgree' /\ Kept /\ snap' = snap /\ run' = run /\ latest' = latest
  BY DEF Restore, Runner, Goto, TypeOK, RowsTypeOK, RowsAgree, Kept, sqlVars
<1>3. TypeOK'
  BY <1>1, <1>2
     DEF Restore, Runner, Goto, TypeOK, RowsTypeOK, Steps, sqlVars, taskVars
<1>4. GraphIsStaged'
  BY <1>2
     DEF Restore, Runner, Goto, TypeOK, GraphIsStaged, StoredByTask, Kept,
         sqlVars, taskVars
<1>5. TaskOfProcess'
  BY <1>1
     DEF Restore, Runner, Goto, TypeOK, TaskOfProcess, FaultKinds, sqlVars,
         taskVars
<1>6. SlotOfTask'
  BY <1>1, <1>2
     DEF Restore, Runner, Goto, TypeOK, RowsAgree, TaskOfProcess, SlotOfTask,
         FaultKinds, sqlVars, taskVars
<1>7. StoredByTask'
  BY <1>2
     DEF Restore, Runner, Goto, TypeOK, RowsAgree, StoredByTask, Kept, sqlVars,
         taskVars
<1>8. GraphOfTask'
  BY <1>1, <1>2
     DEF Restore, Runner, Goto, TypeOK, TaskOfProcess, SlotOfTask, GraphOfTask,
         Undisturbed, FaultKinds, sqlVars, taskVars
<1> QED BY <1>2, <1>3, <1>4, <1>5, <1>6, <1>7, <1>8

(* Recording the failure leaves the graph alone.                           *)
LEMMA RecordStep ==
    ASSUME DreamingInvariant, NEW q \in Runs, Record(q)
    PROVE  DreamingInvariant'
<1> USE DreamingAssumption DEF DreamingInvariant
<1>1. faults' = faults /\ faults \in [FaultKinds -> Nat]
  BY DEF Record, Runner, Goto, TypeOK, sqlVars, taskVars
<1>2. RowsTypeOK' /\ RowsAgree' /\ Kept /\ latest' = latest
  BY {q} \in SUBSET Runs, RecordedRows DEF Record, TypeOK, RowsTypeOK
<1>3. TypeOK'
  BY ZenonT(60), <1>1, <1>2
     DEF Record, Runner, Goto, TypeOK, RowsTypeOK, Steps, sqlVars, taskVars
<1>4. GraphIsStaged'
  BY <1>2
     DEF Record, Runner, Goto, TypeOK, GraphIsStaged, StoredByTask, Kept,
         sqlVars, taskVars
<1>5. TaskOfProcess'
  BY <1>1
     DEF Record, Runner, Goto, TypeOK, TaskOfProcess, FaultKinds, sqlVars,
         taskVars
<1>6. SlotOfTask'
  BY <1>1, <1>2
     DEF Record, Runner, Goto, TypeOK, RowsAgree, TaskOfProcess, SlotOfTask,
         FaultKinds, Recorded, sqlVars, taskVars
<1>7. StoredByTask'
  BY <1>2
     DEF Record, Runner, Goto, TypeOK, RowsAgree, StoredByTask, Kept, Recorded,
         sqlVars, taskVars
<1>8. GraphOfTask'
  BY <1>1, <1>2
     DEF Record, Runner, Goto, TypeOK, TaskOfProcess, SlotOfTask, GraphOfTask,
         Undisturbed, FaultKinds, sqlVars, taskVars
<1> QED BY <1>2, <1>3, <1>4, <1>5, <1>6, <1>7, <1>8

(* A failure before the publication leaves the graph alone.                *)
LEMMA WorkFailsStep ==
    ASSUME DreamingInvariant, NEW q \in Runs, WorkFails(q)
    PROVE  DreamingInvariant'
<1> USE DreamingAssumption DEF DreamingInvariant
<1>1. /\ faults' \in [FaultKinds -> Nat]
      /\ faults'["work"] > 0
      /\ \A g \in FaultKinds : faults'[g] = 0 => faults[g] = 0
  <2>1. Fault("work") /\ "work" \in FaultKinds
    BY DEF WorkFails, Fails, FaultKinds
  <2> QED BY <2>1, FaultCounts
<1>2. RowsTypeOK' /\ RowsAgree' /\ Kept /\ snap' = snap /\ run' = run /\ latest' = latest
  BY
     DEF WorkFails, Fails, Runner, Goto, TypeOK, RowsTypeOK, RowsAgree, Kept,
         sqlVars
<1>3. TypeOK'
  BY <1>1, <1>2
     DEF WorkFails, Fails, Runner, Goto, TypeOK, RowsTypeOK, Steps, sqlVars,
         taskVars
<1>4. GraphIsStaged'
  BY <1>2
     DEF WorkFails, Fails, Runner, Goto, TypeOK, GraphIsStaged, StoredByTask,
         Kept, sqlVars, taskVars
<1>5. TaskOfProcess'
  BY <1>1
     DEF WorkFails, Fails, Runner, Goto, TypeOK, TaskOfProcess, FaultKinds,
         sqlVars, taskVars
<1>6. SlotOfTask'
  BY <1>1, <1>2
     DEF WorkFails, Fails, Runner, Goto, TypeOK, RowsAgree, TaskOfProcess,
         SlotOfTask, FaultKinds, sqlVars, taskVars
<1>7. StoredByTask'
  BY <1>2
     DEF WorkFails, Fails, Runner, Goto, TypeOK, RowsAgree, StoredByTask, Kept,
         sqlVars, taskVars
<1>8. GraphOfTask'
  BY <1>1, <1>2
     DEF WorkFails, Fails, Runner, Goto, TypeOK, TaskOfProcess, SlotOfTask,
         GraphOfTask, Undisturbed, FaultKinds, sqlVars, taskVars
<1> QED BY <1>2, <1>3, <1>4, <1>5, <1>6, <1>7, <1>8

(* A publication rolled back leaves the graph alone.                       *)
LEMMA PublishFailsStep ==
    ASSUME DreamingInvariant, NEW q \in Runs, PublishFails(q)
    PROVE  DreamingInvariant'
<1> USE DreamingAssumption DEF DreamingInvariant
<1>1. /\ faults' \in [FaultKinds -> Nat]
      /\ faults'["graph"] > 0
      /\ \A g \in FaultKinds : faults'[g] = 0 => faults[g] = 0
  <2>1. Fault("graph") /\ "graph" \in FaultKinds
    BY DEF PublishFails, Fails, FaultKinds
  <2> QED BY <2>1, FaultCounts
<1>2. RowsTypeOK' /\ RowsAgree' /\ Kept /\ snap' = snap /\ run' = run /\ latest' = latest
  BY
     DEF PublishFails, Fails, Runner, Goto, TypeOK, RowsTypeOK, RowsAgree, Kept,
         sqlVars
<1>3. TypeOK'
  BY <1>1, <1>2
     DEF PublishFails, Fails, Runner, Goto, TypeOK, RowsTypeOK, Steps, sqlVars,
         taskVars
<1>4. GraphIsStaged'
  BY <1>2
     DEF PublishFails, Fails, Runner, Goto, TypeOK, GraphIsStaged, StoredByTask,
         Kept, sqlVars, taskVars
<1>5. TaskOfProcess'
  BY <1>1
     DEF PublishFails, Fails, Runner, Goto, TypeOK, TaskOfProcess, FaultKinds,
         sqlVars, taskVars
<1>6. SlotOfTask'
  BY <1>1, <1>2
     DEF PublishFails, Fails, Runner, Goto, TypeOK, RowsAgree, TaskOfProcess,
         SlotOfTask, FaultKinds, sqlVars, taskVars
<1>7. StoredByTask'
  BY <1>2
     DEF PublishFails, Fails, Runner, Goto, TypeOK, RowsAgree, StoredByTask,
         Kept, sqlVars, taskVars
<1>8. GraphOfTask'
  BY <1>1, <1>2
     DEF PublishFails, Fails, Runner, Goto, TypeOK, TaskOfProcess, SlotOfTask,
         GraphOfTask, Undisturbed, FaultKinds, sqlVars, taskVars
<1> QED BY <1>2, <1>3, <1>4, <1>5, <1>6, <1>7, <1>8

(* A lost answer is a disturbance.                                         *)
LEMMA PublishLostStep ==
    ASSUME DreamingInvariant, NEW q \in Runs, PublishLost(q)
    PROVE  DreamingInvariant'
<1> USE DreamingAssumption DEF DreamingInvariant
<1>1. /\ faults' \in [FaultKinds -> Nat]
      /\ faults'["lost"] > 0
      /\ \A g \in FaultKinds : faults'[g] = 0 => faults[g] = 0
  <2>1. Fault("lost") /\ "lost" \in FaultKinds
    BY DEF PublishLost, Fails, FaultKinds
  <2> QED BY <2>1, FaultCounts
<1>2. RowsTypeOK' /\ RowsAgree' /\ Kept /\ snap' = snap /\ run' = run /\ latest' = latest
  BY
     DEF PublishLost, Fails, Runner, Goto, TypeOK, RowsTypeOK, RowsAgree, Kept,
         sqlVars
<1>3. TypeOK'
  BY <1>1, <1>2
     DEF PublishLost, Fails, Runner, Goto, TypeOK, RowsTypeOK, Steps, sqlVars,
         taskVars
<1>4. GraphIsStaged'
  BY <1>2
     DEF PublishLost, Fails, Runner, Goto, TypeOK, GraphIsStaged, StoredByTask,
         Kept, sqlVars, taskVars
<1>5. TaskOfProcess'
  BY <1>1
     DEF PublishLost, Fails, Runner, Goto, TypeOK, TaskOfProcess, FaultKinds,
         sqlVars, taskVars
<1>6. SlotOfTask'
  BY <1>1, <1>2
     DEF PublishLost, Fails, Runner, Goto, TypeOK, RowsAgree, TaskOfProcess,
         SlotOfTask, FaultKinds, sqlVars, taskVars
<1>7. StoredByTask'
  BY <1>2
     DEF PublishLost, Fails, Runner, Goto, TypeOK, RowsAgree, StoredByTask,
         Kept, sqlVars, taskVars
<1>8. GraphOfTask'
  BY <1>1, <1>2
     DEF PublishLost, Fails, Runner, Goto, TypeOK, TaskOfProcess, SlotOfTask,
         GraphOfTask, Undisturbed, FaultKinds, sqlVars, taskVars
<1> QED BY <1>2, <1>3, <1>4, <1>5, <1>6, <1>7, <1>8

(* A failed confirmation goes on to the restoration.                       *)
LEMMA ConfirmFailsStep ==
    ASSUME DreamingInvariant, NEW q \in Runs, ConfirmFails(q)
    PROVE  DreamingInvariant'
<1> USE DreamingAssumption DEF DreamingInvariant
<1>1. /\ faults' \in [FaultKinds -> Nat]
      /\ faults'["confirm"] > 0
      /\ \A g \in FaultKinds : faults'[g] = 0 => faults[g] = 0
  <2>1. Fault("confirm") /\ "confirm" \in FaultKinds
    BY DEF ConfirmFails, Fails, FaultKinds
  <2> QED BY <2>1, FaultCounts
<1>2. RowsTypeOK' /\ RowsAgree' /\ Kept /\ snap' = snap /\ run' = run /\ latest' = latest
  BY
     DEF ConfirmFails, Fails, Runner, Goto, TypeOK, RowsTypeOK, RowsAgree, Kept,
         sqlVars
<1>3. TypeOK'
  BY <1>1, <1>2
     DEF ConfirmFails, Fails, Runner, Goto, TypeOK, RowsTypeOK, Steps, sqlVars,
         taskVars
<1>4. GraphIsStaged'
  BY <1>2
     DEF ConfirmFails, Fails, Runner, Goto, TypeOK, GraphIsStaged, StoredByTask,
         Kept, sqlVars, taskVars
<1>5. TaskOfProcess'
  BY <1>1
     DEF ConfirmFails, Fails, Runner, Goto, TypeOK, TaskOfProcess, FaultKinds,
         sqlVars, taskVars
<1>6. SlotOfTask'
  BY <1>1, <1>2
     DEF ConfirmFails, Fails, Runner, Goto, TypeOK, RowsAgree, TaskOfProcess,
         SlotOfTask, FaultKinds, sqlVars, taskVars
<1>7. StoredByTask'
  BY <1>2
     DEF ConfirmFails, Fails, Runner, Goto, TypeOK, RowsAgree, StoredByTask,
         Kept, sqlVars, taskVars
<1>8. GraphOfTask'
  BY <1>1, <1>2
     DEF ConfirmFails, Fails, Runner, Goto, TypeOK, TaskOfProcess, SlotOfTask,
         GraphOfTask, Undisturbed, FaultKinds, sqlVars, taskVars
<1> QED BY <1>2, <1>3, <1>4, <1>5, <1>6, <1>7, <1>8

(* A status that cannot be read is a disturbance.                          *)
LEMMA StatusFailsStep ==
    ASSUME DreamingInvariant, NEW q \in Runs, StatusFails(q)
    PROVE  DreamingInvariant'
<1> USE DreamingAssumption DEF DreamingInvariant
<1>1. /\ faults' \in [FaultKinds -> Nat]
      /\ faults'["status"] > 0
      /\ \A g \in FaultKinds : faults'[g] = 0 => faults[g] = 0
  <2>1. Fault("status") /\ "status" \in FaultKinds
    BY DEF StatusFails, Fails, FaultKinds
  <2> QED BY <2>1, FaultCounts
<1>2. RowsTypeOK' /\ RowsAgree' /\ Kept /\ snap' = snap /\ run' = run /\ latest' = latest
  BY
     DEF StatusFails, Fails, Runner, Goto, TypeOK, RowsTypeOK, RowsAgree, Kept,
         sqlVars
<1>3. TypeOK'
  BY <1>1, <1>2
     DEF StatusFails, Fails, Runner, Goto, TypeOK, RowsTypeOK, Steps, sqlVars,
         taskVars
<1>4. GraphIsStaged'
  BY <1>2
     DEF StatusFails, Fails, Runner, Goto, TypeOK, GraphIsStaged, StoredByTask,
         Kept, sqlVars, taskVars
<1>5. TaskOfProcess'
  BY <1>1
     DEF StatusFails, Fails, Runner, Goto, TypeOK, TaskOfProcess, FaultKinds,
         sqlVars, taskVars
<1>6. SlotOfTask'
  BY <1>1, <1>2
     DEF StatusFails, Fails, Runner, Goto, TypeOK, RowsAgree, TaskOfProcess,
         SlotOfTask, FaultKinds, sqlVars, taskVars
<1>7. StoredByTask'
  BY <1>2
     DEF StatusFails, Fails, Runner, Goto, TypeOK, RowsAgree, StoredByTask,
         Kept, sqlVars, taskVars
<1>8. GraphOfTask'
  BY <1>1, <1>2
     DEF StatusFails, Fails, Runner, Goto, TypeOK, TaskOfProcess, SlotOfTask,
         GraphOfTask, Undisturbed, FaultKinds, sqlVars, taskVars
<1> QED BY <1>2, <1>3, <1>4, <1>5, <1>6, <1>7, <1>8

(* A failed restoration is a disturbance.                                  *)
LEMMA RestoreFailsStep ==
    ASSUME DreamingInvariant, NEW q \in Runs, RestoreFails(q)
    PROVE  DreamingInvariant'
<1> USE DreamingAssumption DEF DreamingInvariant
<1>1. /\ faults' \in [FaultKinds -> Nat]
      /\ faults'["restore"] > 0
      /\ \A g \in FaultKinds : faults'[g] = 0 => faults[g] = 0
  <2>1. Fault("restore") /\ "restore" \in FaultKinds
    BY DEF RestoreFails, Fails, FaultKinds
  <2> QED BY <2>1, FaultCounts
<1>2. RowsTypeOK' /\ RowsAgree' /\ Kept /\ snap' = snap /\ run' = run /\ latest' = latest
  BY
     DEF RestoreFails, Fails, Runner, Goto, TypeOK, RowsTypeOK, RowsAgree, Kept,
         sqlVars
<1>3. TypeOK'
  BY <1>1, <1>2
     DEF RestoreFails, Fails, Runner, Goto, TypeOK, RowsTypeOK, Steps, sqlVars,
         taskVars
<1>4. GraphIsStaged'
  BY <1>2
     DEF RestoreFails, Fails, Runner, Goto, TypeOK, GraphIsStaged, StoredByTask,
         Kept, sqlVars, taskVars
<1>5. TaskOfProcess'
  BY <1>1
     DEF RestoreFails, Fails, Runner, Goto, TypeOK, TaskOfProcess, FaultKinds,
         sqlVars, taskVars
<1>6. SlotOfTask'
  BY <1>1, <1>2
     DEF RestoreFails, Fails, Runner, Goto, TypeOK, RowsAgree, TaskOfProcess,
         SlotOfTask, FaultKinds, sqlVars, taskVars
<1>7. StoredByTask'
  BY <1>2
     DEF RestoreFails, Fails, Runner, Goto, TypeOK, RowsAgree, StoredByTask,
         Kept, sqlVars, taskVars
<1>8. GraphOfTask'
  BY <1>1, <1>2
     DEF RestoreFails, Fails, Runner, Goto, TypeOK, TaskOfProcess, SlotOfTask,
         GraphOfTask, Undisturbed, FaultKinds, sqlVars, taskVars
<1> QED BY <1>2, <1>3, <1>4, <1>5, <1>6, <1>7, <1>8

(* A failure that is not recorded leaves the run active.                   *)
LEMMA RecordFailsStep ==
    ASSUME DreamingInvariant, NEW q \in Runs, RecordFails(q)
    PROVE  DreamingInvariant'
<1> USE DreamingAssumption DEF DreamingInvariant
<1>1. /\ faults' \in [FaultKinds -> Nat]
      /\ faults'["record"] > 0
      /\ \A g \in FaultKinds : faults'[g] = 0 => faults[g] = 0
  <2>1. Fault("record") /\ "record" \in FaultKinds
    BY DEF RecordFails, Fails, FaultKinds
  <2> QED BY <2>1, FaultCounts
<1>2. RowsTypeOK' /\ RowsAgree' /\ Kept /\ snap' = snap /\ run' = run /\ latest' = latest
  BY
     DEF RecordFails, Fails, Runner, Goto, TypeOK, RowsTypeOK, RowsAgree, Kept,
         sqlVars
<1>3. TypeOK'
  BY <1>1, <1>2
     DEF RecordFails, Fails, Runner, Goto, TypeOK, RowsTypeOK, Steps, sqlVars,
         taskVars
<1>4. GraphIsStaged'
  BY <1>2
     DEF RecordFails, Fails, Runner, Goto, TypeOK, GraphIsStaged, StoredByTask,
         Kept, sqlVars, taskVars
<1>5. TaskOfProcess'
  BY <1>1
     DEF RecordFails, Fails, Runner, Goto, TypeOK, TaskOfProcess, FaultKinds,
         sqlVars, taskVars
<1>6. SlotOfTask'
  BY <1>1, <1>2
     DEF RecordFails, Fails, Runner, Goto, TypeOK, RowsAgree, TaskOfProcess,
         SlotOfTask, FaultKinds, sqlVars, taskVars
<1>7. StoredByTask'
  BY <1>2
     DEF RecordFails, Fails, Runner, Goto, TypeOK, RowsAgree, StoredByTask,
         Kept, sqlVars, taskVars
<1>8. GraphOfTask'
  BY <1>1, <1>2
     DEF RecordFails, Fails, Runner, Goto, TypeOK, TaskOfProcess, SlotOfTask,
         GraphOfTask, Undisturbed, FaultKinds, sqlVars, taskVars
<1> QED BY <1>2, <1>3, <1>4, <1>5, <1>6, <1>7, <1>8

(* A shutdown is a disturbance.                                            *)
LEMMA ShutdownStep ==
    ASSUME DreamingInvariant, Shutdown
    PROVE  DreamingInvariant'
<1> USE DreamingAssumption DEF DreamingInvariant
<1>1. /\ faults' \in [FaultKinds -> Nat]
      /\ faults'["shutdown"] > 0
      /\ \A g \in FaultKinds : faults'[g] = 0 => faults[g] = 0
  <2>1. Fault("shutdown") /\ "shutdown" \in FaultKinds
    BY DEF Shutdown, FaultKinds
  <2> QED BY <2>1, FaultCounts
<1>2. RowsTypeOK' /\ RowsAgree' /\ Kept /\ snap' = snap /\ run' = run /\ latest' = latest
  BY DEF Shutdown, TypeOK, RowsTypeOK, RowsAgree, Kept, sqlVars
<1>3. TypeOK'
  BY <1>1, <1>2 DEF Shutdown, TypeOK, RowsTypeOK, Steps, sqlVars, taskVars
<1>4. GraphIsStaged'
  BY <1>2
     DEF Shutdown, TypeOK, GraphIsStaged, StoredByTask, Kept, sqlVars, taskVars
<1>5. TaskOfProcess'
  BY <1>1 DEF Shutdown, TypeOK, TaskOfProcess, FaultKinds, sqlVars, taskVars
<1>6. SlotOfTask'
  BY <1>1, <1>2
     DEF Shutdown, TypeOK, RowsAgree, TaskOfProcess, SlotOfTask, FaultKinds,
         sqlVars, taskVars
<1>7. StoredByTask'
  BY <1>2 DEF Shutdown, TypeOK, RowsAgree, StoredByTask, Kept, sqlVars, taskVars
<1>8. GraphOfTask'
  BY <1>1, <1>2
     DEF Shutdown, TypeOK, TaskOfProcess, SlotOfTask, GraphOfTask, Undisturbed,
         FaultKinds, sqlVars, taskVars
<1> QED BY <1>2, <1>3, <1>4, <1>5, <1>6, <1>7, <1>8

(* Only a stopping server cancels; what it leaves behind keeps its run.    *)
LEMMA CancelledStep ==
    ASSUME DreamingInvariant, NEW q \in Runs, Cancelled(q)
    PROVE  DreamingInvariant'
<1> USE DreamingAssumption DEF DreamingInvariant
<1>1. faults' = faults /\ faults \in [FaultKinds -> Nat]
  BY DEF Cancelled, Handle, TypeOK, sqlVars, taskVars
<1>2. RowsTypeOK' /\ RowsAgree' /\ Kept /\ snap' = snap /\ run' = run /\ latest' = latest
  BY DEF Cancelled, Handle, TypeOK, RowsTypeOK, RowsAgree, Kept, sqlVars
<1>3. TypeOK'
  BY <1>1, <1>2
     DEF Cancelled, Handle, TypeOK, RowsTypeOK, Steps, sqlVars, taskVars
<1>4. GraphIsStaged'
  BY <1>2
     DEF Cancelled, Handle, TypeOK, GraphIsStaged, StoredByTask, Kept, sqlVars,
         taskVars
<1>5. TaskOfProcess'
  BY <1>1
     DEF Cancelled, Handle, TypeOK, TaskOfProcess, FaultKinds, sqlVars, taskVars
<1>6. SlotOfTask'
  BY <1>1, <1>2
     DEF Cancelled, Handle, TypeOK, RowsAgree, TaskOfProcess, SlotOfTask,
         FaultKinds, sqlVars, taskVars
<1>7. StoredByTask'
  BY <1>2
     DEF Cancelled, Handle, TypeOK, RowsAgree, StoredByTask, Kept, sqlVars,
         taskVars
<1>8. GraphOfTask'
  BY <1>1, <1>2
     DEF Cancelled, Handle, TypeOK, TaskOfProcess, SlotOfTask, GraphOfTask,
         Undisturbed, FaultKinds, sqlVars, taskVars
<1> QED BY <1>2, <1>3, <1>4, <1>5, <1>6, <1>7, <1>8

(* The call left behind runs only while the server stops.                  *)
LEMMA LeftBehindStep ==
    ASSUME DreamingInvariant, NEW q \in Runs, LeftBehind(q)
    PROVE  DreamingInvariant'
<1> USE DreamingAssumption DEF DreamingInvariant
<1>1. faults' = faults /\ faults \in [FaultKinds -> Nat]
  BY DEF LeftBehind, TypeOK, sqlVars, taskVars
<1>2. RowsTypeOK' /\ RowsAgree' /\ Kept
  <2>1. (Staged(q) /\ run' = run) \/ Confirmed(q) \/ Recorded({q})
    BY DEF LeftBehind
  <2> QED BY <2>1, {q} \in SUBSET Runs, StagedRows, ConfirmedRows, RecordedRows
          DEF TypeOK, RowsTypeOK
<1>3. TypeOK'
  BY <1>1, <1>2
     DEF LeftBehind, TypeOK, RowsTypeOK, Steps, Confirmed, Prepared, sqlVars,
         taskVars
<1>4. GraphIsStaged'
  BY <1>2
     DEF LeftBehind, TypeOK, GraphIsStaged, StoredByTask, Kept, sqlVars,
         taskVars
<1>5. TaskOfProcess'
  BY <1>1 DEF LeftBehind, TypeOK, TaskOfProcess, FaultKinds, sqlVars, taskVars
<1>6. SlotOfTask'
  BY <1>1, <1>2
     DEF LeftBehind, TypeOK, RowsAgree, TaskOfProcess, SlotOfTask, FaultKinds,
         Confirmed, Prepared, Staged, Recorded, sqlVars, taskVars
<1>7. StoredByTask'
  BY <1>2
     DEF LeftBehind, TypeOK, RowsAgree, StoredByTask, Kept, Confirmed, Prepared,
         Staged, Recorded, sqlVars, taskVars
<1>8. GraphOfTask'
  BY <1>1, <1>2
     DEF LeftBehind, TypeOK, TaskOfProcess, SlotOfTask, GraphOfTask,
         Undisturbed, FaultKinds, Confirmed, Prepared, sqlVars, taskVars
<1> QED BY <1>2, <1>3, <1>4, <1>5, <1>6, <1>7, <1>8

(* Nothing is left of the task when the server exits.                      *)
LEMMA ExitStep ==
    ASSUME DreamingInvariant, Exit
    PROVE  DreamingInvariant'
<1> USE DreamingAssumption DEF DreamingInvariant
<1>1. faults' = faults /\ faults \in [FaultKinds -> Nat]
  BY DEF Exit, Ended, TypeOK, sqlVars, taskVars
<1>2. RowsTypeOK' /\ RowsAgree' /\ Kept /\ snap' = snap /\ run' = run /\ latest' = latest
  BY DEF Exit, Ended, TypeOK, RowsTypeOK, RowsAgree, Kept, sqlVars
<1>3. TypeOK'
  BY <1>1, <1>2 DEF Exit, Ended, TypeOK, RowsTypeOK, Steps, sqlVars, taskVars
<1>4. GraphIsStaged'
  BY <1>2
     DEF Exit, Ended, TypeOK, GraphIsStaged, StoredByTask, Kept, sqlVars,
         taskVars
<1>5. TaskOfProcess'
  BY <1>1 DEF Exit, Ended, TypeOK, TaskOfProcess, FaultKinds, sqlVars, taskVars
<1>6. SlotOfTask'
  BY <1>1, <1>2
     DEF Exit, Ended, TypeOK, RowsAgree, TaskOfProcess, SlotOfTask, FaultKinds,
         sqlVars, taskVars
<1>7. StoredByTask'
  BY <1>2
     DEF Exit, Ended, TypeOK, RowsAgree, StoredByTask, Kept, sqlVars, taskVars
<1>8. GraphOfTask'
  BY <1>1, <1>2
     DEF Exit, Ended, TypeOK, TaskOfProcess, SlotOfTask, GraphOfTask,
         Undisturbed, FaultKinds, sqlVars, taskVars
<1> QED BY <1>2, <1>3, <1>4, <1>5, <1>6, <1>7, <1>8

(* A crash is a disturbance and leaves nothing of the task.                *)
LEMMA CrashStep ==
    ASSUME DreamingInvariant, Crash
    PROVE  DreamingInvariant'
<1> USE DreamingAssumption DEF DreamingInvariant
<1>1. /\ faults' \in [FaultKinds -> Nat]
      /\ faults'["crash"] > 0
      /\ \A g \in FaultKinds : faults'[g] = 0 => faults[g] = 0
  <2>1. Fault("crash") /\ "crash" \in FaultKinds
    BY DEF Crash, FaultKinds
  <2> QED BY <2>1, FaultCounts
<1>2. RowsTypeOK' /\ RowsAgree' /\ Kept /\ snap' = snap /\ run' = run /\ latest' = latest
  BY DEF Crash, Ended, TypeOK, RowsTypeOK, RowsAgree, Kept, sqlVars
<1>3. TypeOK'
  BY <1>1, <1>2 DEF Crash, Ended, TypeOK, RowsTypeOK, Steps, sqlVars, taskVars
<1>4. GraphIsStaged'
  BY <1>2
     DEF Crash, Ended, TypeOK, GraphIsStaged, StoredByTask, Kept, sqlVars,
         taskVars
<1>5. TaskOfProcess'
  BY <1>1 DEF Crash, Ended, TypeOK, TaskOfProcess, FaultKinds, sqlVars, taskVars
<1>6. SlotOfTask'
  BY <1>1, <1>2
     DEF Crash, Ended, TypeOK, RowsAgree, TaskOfProcess, SlotOfTask, FaultKinds,
         sqlVars, taskVars
<1>7. StoredByTask'
  BY <1>2
     DEF Crash, Ended, TypeOK, RowsAgree, StoredByTask, Kept, sqlVars, taskVars
<1>8. GraphOfTask'
  BY <1>1, <1>2
     DEF Crash, Ended, TypeOK, TaskOfProcess, SlotOfTask, GraphOfTask,
         Undisturbed, FaultKinds, sqlVars, taskVars
<1> QED BY <1>2, <1>3, <1>4, <1>5, <1>6, <1>7, <1>8

-----------------------------------------------------------------------------
(* Results.                                                                *)

LEMMA StepInvariant == DreamingInvariant /\ [Next]_vars => DreamingInvariant'
<1>1. CASE UNCHANGED vars
  BY <1>1
     DEF DreamingInvariant, TypeOK, RowsAgree, GraphIsStaged, TaskOfProcess,
              SlotOfTask, StoredByTask, GraphOfTask, Undisturbed, vars, sqlVars, taskVars
<1>2. CASE Next
  BY <1>2, ProcStartStep, StartStep, WorkStep, StageStep, LoadStep,
         PublishStep, ConfirmStep, ReadStatusStep, RestoreStep, RecordStep,
         WorkFailsStep, PublishFailsStep, PublishLostStep,
         ConfirmFailsStep, StatusFailsStep, RestoreFailsStep,
         RecordFailsStep, ShutdownStep, CancelledStep, LeftBehindStep,
         ExitStep, CrashStep
     DEF Next, Proceed, Failure
<1> QED BY <1>1, <1>2

(* The rows, the graph, the runner and the call it left behind agree in    *)
(* every reachable state, in whatever order the transactions commit.       *)
THEOREM DreamingInvariantHolds == Spec => []DreamingInvariant
BY InitInvariant, StepInvariant, PTL DEF Spec

(* A run has succeeded exactly when its snapshot is published.             *)
THEOREM RowsAlwaysAgree == Spec => []RowsAgree
<1>1. DreamingInvariant => RowsAgree
  BY DEF DreamingInvariant
<1> QED BY <1>1, DreamingInvariantHolds, PTL

(* The graph shows only snapshots that SQLite holds in full.               *)
THEOREM GraphAlwaysStaged == Spec => []GraphIsStaged
<1>1. DreamingInvariant => GraphIsStaged
  BY DEF DreamingInvariant
<1> QED BY <1>1, DreamingInvariantHolds, PTL

(* Undisturbed, the graph shows between runs what SQLite published last.   *)
THEOREM CompensationRestores == Spec => []GraphShowsLatest
<1>1. DreamingInvariant => GraphShowsLatest
  <2> SUFFICES ASSUME DreamingInvariant, Undisturbed, SlotFree
               PROVE  graph = latest
    BY DEF GraphShowsLatest
  <2>1. mode # "stopping"
    BY DEF DreamingInvariant, TypeOK, TaskOfProcess, Undisturbed, FaultKinds
  <2>2. ASSUME NEW r \in Runs PROVE pc[r] \notin {"confirm", "restore"}
    <3>1. CASE mode = "down"
      BY <3>1 DEF DreamingInvariant, TaskOfProcess
    <3>2. CASE mode = "up"
      <4>1. run[r] # "running" /\ ~(faults["status"] > 0)
        BY DEF SlotFree, Undisturbed
      <4> QED BY <3>2, <4>1 DEF DreamingInvariant, SlotOfTask
    <3> QED BY <2>1, <3>1, <3>2 DEF DreamingInvariant, TypeOK
  <2> QED BY <2>2 DEF DreamingInvariant, GraphOfTask
<1> QED BY <1>1, DreamingInvariantHolds, PTL

(* A run confirmed by a serving process is the one the graph shows, unless *)
(* an earlier run could not read its status.                               *)
THEOREM SuccessLeavesAgreement == Spec => SuccessAgrees
<1>1. DreamingInvariant /\ [Next]_vars =>
          [mode = "up" /\ faults["status"] = 0 /\ latest' # latest
               => graph' = latest']_vars
  <2> SUFFICES ASSUME DreamingInvariant, Next, mode = "up", faults["status"] = 0,
                      latest' # latest
               PROVE  graph' = latest'
    OBVIOUS
  <2>1. PICK r \in Runs : Confirm(r)
    <3>1. ~ProcStart /\ ~Shutdown /\ ~Exit /\ ~Crash
      BY DEF ProcStart, Shutdown, Exit, Crash, Ended, sqlVars
    <3>2. \A r \in Runs : ~Start(r) /\ ~Cancelled(r) /\ ~LeftBehind(r)
      BY
         DEF Start, Cancelled, LeftBehind, DreamingInvariant, TaskOfProcess,
             sqlVars
    <3>3. \A r \in Runs : Proceed(r) => Confirm(r)
      BY
         DEF Proceed, Work, Stage, Load, Publish, ReadStatus, Restore, Record,
             sqlVars
    <3>4. \A r \in Runs : ~Failure(r)
      BY DEF Failure, WorkFails, PublishFails, PublishLost, ConfirmFails,
             StatusFails, RestoreFails, RecordFails, Fails, sqlVars
    <3> QED BY <3>1, <3>2, <3>3, <3>4 DEF Next
  <2> QED BY <2>1
     DEF DreamingInvariant, GraphOfTask, Confirm, Runner, Confirmed, sqlVars
<1> QED BY <1>1, DreamingInvariantHolds, PTL DEF Spec, SuccessAgrees

-----------------------------------------------------------------------------
(* The slot.                                                               *)

(* In a serving process somebody works on the run that holds the slot,     *)
(* until a failure could not be recorded: no other step leaves the slot    *)
(* taken by a run whose task has ended.                                    *)
SlotHasTask ==
    mode = "up" /\ faults["record"] = 0 =>
        \A r \in Runs : run[r] = "running" => pc[r] \notin {"idle", "status"}

(* A task is in a handler of its cancellation only in a stopping server.   *)
CancelledStopping == \A r \in Runs : cancelled[r] => mode = "stopping"

SlotInvariant == SlotHasTask /\ CancelledStopping

LEMMA InitSlot == Init => SlotInvariant
BY DEF Init, SlotInvariant, SlotHasTask, CancelledStopping

(* A step of the runner goes to idle or status only if its run has left    *)
(* the slot.                                                               *)
LEMMA ProceedSlot ==
    ASSUME DreamingInvariant, SlotInvariant, NEW q \in Runs, Proceed(q)
    PROVE  SlotInvariant'
<1> USE DEF DreamingInvariant, TypeOK, RowsAgree, SlotInvariant, SlotHasTask,
        CancelledStopping, Runner, Goto, sqlVars
<1>1. CASE Work(q) \/ Load(q) \/ Publish(q) \/ Restore(q)
  BY <1>1 DEF Work, Load, Publish, Restore
<1>2. CASE Stage(q)
  BY <1>2 DEF Stage, Staged
<1>3. CASE Confirm(q)
  BY <1>3 DEF Confirm, Confirmed, Prepared
<1>4. CASE ReadStatus(q)
  BY <1>4 DEF ReadStatus
<1>5. CASE Record(q)
  BY <1>5 DEF Record, Recorded
<1> QED BY <1>1, <1>2, <1>3, <1>4, <1>5 DEF Proceed

(* A failure leads to a handler, and only one that cannot be recorded ends *)
(* the task of a serving process.                                          *)
LEMMA FailureSlot ==
    ASSUME DreamingInvariant, SlotInvariant, NEW q \in Runs, Failure(q)
    PROVE  SlotInvariant'
<1> USE DEF DreamingInvariant, TypeOK, SlotInvariant, SlotHasTask, CancelledStopping
<1>1. PICK f \in FaultKinds, to \in Steps :
        /\ Fault(f)
        /\ run' = run /\ mode' = mode /\ cancelled' = cancelled
        /\ mode = "up" \/ cancelled[q]
        /\ pc' = [pc EXCEPT ![q] = to]
        /\ to \in {"idle", "status"} => f = "record" \/ cancelled[q]
  BY DEF Failure, WorkFails, PublishFails, PublishLost, ConfirmFails, StatusFails,
         RestoreFails, RecordFails, Fails, Runner, Goto, FaultKinds, Steps, sqlVars
<1>2. faults'[f] > 0 /\ (faults'["record"] = 0 => faults["record"] = 0)
  BY <1>1, FaultCounts DEF FaultKinds
<1> QED BY <1>1, <1>2

LEMMA SlotStep ==
    ASSUME DreamingInvariant, SlotInvariant, [Next]_vars
    PROVE  SlotInvariant'
<1> USE DEF DreamingInvariant, TypeOK, TaskOfProcess, SlotInvariant, SlotHasTask,
        CancelledStopping, sqlVars, taskVars
<1>1. CASE ProcStart
  BY <1>1 DEF ProcStart, Recorded
<1>2. ASSUME NEW r \in Runs, Start(r) PROVE SlotInvariant'
  BY <1>2 DEF Start
<1>3. ASSUME NEW r \in Runs, Cancelled(r) PROVE SlotInvariant'
  BY <1>3 DEF Cancelled
<1>4. ASSUME NEW r \in Runs, LeftBehind(r) PROVE SlotInvariant'
  BY <1>4 DEF LeftBehind
<1>5. CASE Shutdown
  BY <1>5 DEF Shutdown
<1>6. CASE Exit \/ Crash
  BY <1>6 DEF Exit, Crash, Ended
<1>7. CASE UNCHANGED vars
  BY <1>7 DEF vars
<1> HIDE DEF DreamingInvariant, SlotInvariant
<1> QED BY <1>1, <1>2, <1>3, <1>4, <1>5, <1>6, <1>7, ProceedSlot, FailureSlot DEF Next

(* The slot of a serving process is never taken by a run that nobody works *)
(* on, whichever steps fail, as long as failures can be recorded.          *)
THEOREM SlotIsWorkedOn == Spec => []SlotHasTask
<1>1. DreamingInvariant /\ SlotInvariant /\ [Next]_vars => SlotInvariant'
  BY SlotStep
<1>2. SlotInvariant => SlotHasTask
  BY DEF SlotInvariant
<1> QED BY <1>1, <1>2, InitSlot, DreamingInvariantHolds, PTL DEF Spec
=============================================================================
