------------------------------ MODULE Dreaming ------------------------------
(***************************************************************************)
(* Dreaming partitions the graph into communities and publishes the        *)
(* partition twice: to the graph, which serves it, and in SQLite, which    *)
(* keeps the runs and the snapshots.  No transaction spans the two.        *)
(* DreamingRunner stages the snapshot in SQLite, replaces the graph's      *)
(* partition in one transaction, confirms in SQLite, and puts the previous *)
(* partition back when the confirmation fails.                             *)
(*                                                                         *)
(* A snapshot is identified with its run.  Each run is a task of the event *)
(* loop, which reads the status once more after its confirmation: by then  *)
(* the slot is free and the next run may have begun.  A SQLite call runs   *)
(* in a thread, which a cancellation of the task leaves behind to finish   *)
(* on its own.  The tasks are cancelled only when the server shuts down.   *)
(***************************************************************************)
EXTENDS Naturals

CONSTANTS
    Runs,      \* bound: the runs that are ever requested
    None,
    MaxFaults  \* bound: how often each kind of fault happens

FaultKinds == {"work", "graph", "lost", "confirm", "status", "restore",
               "record", "shutdown", "crash"}

ASSUME DreamingAssumption ==
    /\ None \notin Runs
    /\ MaxFaults \in [FaultKinds -> Nat]

VARIABLES
    run,        \* dreaming_runs.status
    snap,       \* dreaming_snapshots.status, by run
    latest,     \* the snapshot SQLite published last
    graph,      \* the snapshot the graph shows
    mode,       \* the server process: down, up, stopping
    pc,         \* by run: the runner's next step
    prev,       \* by run: previous_snapshot
    cancelled,  \* by run: the runner handles a CancelledError
    thread,     \* by run: the SQLite call a cancelled runner has left behind
    faults

sqlVars == <<run, snap, latest>>
taskVars == <<pc, prev, cancelled, thread>>
vars == <<sqlVars, graph, mode, taskVars, faults>>

Steps == {"idle", "work", "stage", "load", "publish", "confirm",
          "status", "restore", "record"}

TypeOK ==
    /\ run \in [Runs -> {"none", "running", "succeeded", "failed"}]
    /\ snap \in [Runs -> {"none", "prepared", "published", "failed"}]
    /\ latest \in Runs \cup {None}
    /\ graph \in Runs \cup {None}
    /\ mode \in {"down", "up", "stopping"}
    /\ pc \in [Runs -> Steps]
    /\ prev \in [Runs -> Runs \cup {None}]
    /\ cancelled \in [Runs -> BOOLEAN]
    /\ thread \in [Runs -> {"none", "stage", "confirm", "record"}]
    /\ faults \in [FaultKinds -> Nat]

Init ==
    /\ run = [r \in Runs |-> "none"]
    /\ snap = [r \in Runs |-> "none"]
    /\ latest = None
    /\ graph = None
    /\ mode = "down"
    /\ pc = [r \in Runs |-> "idle"]
    /\ prev = [r \in Runs |-> None]
    /\ cancelled = [r \in Runs |-> FALSE]
    /\ thread = [r \in Runs |-> "none"]
    /\ faults = [f \in FaultKinds |-> 0]

-----------------------------------------------------------------------------
(* Transactions of SQLite.  Each looks at the status it finds.             *)

(* prepare_dreaming_snapshot                                               *)
Staged(r) ==
    snap' = IF run[r] = "running" THEN [snap EXCEPT ![r] = "prepared"] ELSE snap

(* publish_dreaming_snapshot raises for a snapshot that is not prepared.   *)
Prepared(r) == snap[r] = "prepared"

Confirmed(r) ==
    IF Prepared(r)
    THEN /\ snap' = [snap EXCEPT ![r] = "published"]
         /\ run' = [run EXCEPT ![r] = IF @ = "running" THEN "succeeded" ELSE @]
         /\ latest' = r
    ELSE UNCHANGED sqlVars

(* Faulty: a failed run keeps its snapshot prepared.                       *)
RecordedRunOnly(R) ==
    /\ run' = [r \in Runs |-> IF r \in R /\ run[r] = "running" THEN "failed" ELSE run[r]]
    /\ UNCHANGED snap

(* fail_dreaming_run, and the repair of an interrupted run at a start.     *)
Recorded(R) ==
    /\ run' = [r \in Runs |-> IF r \in R /\ run[r] = "running" THEN "failed" ELSE run[r]]
    /\ snap' = [r \in Runs |-> IF r \in R /\ snap[r] = "prepared" THEN "failed"
                                                                  ELSE snap[r]]

-----------------------------------------------------------------------------
(* The server.                                                             *)

(* Faulty: the start repairs nothing.                                      *)
ProcStartUnrepaired ==
    /\ mode = "down"
    /\ mode' = "up"
    /\ UNCHANGED <<sqlVars, graph, taskVars, faults>>

(* SQLite's initialization gives up what an earlier process left active.   *)
ProcStart ==
    /\ mode = "down"
    /\ mode' = "up"
    /\ Recorded(Runs)
    /\ UNCHANGED <<latest, graph, taskVars, faults>>

SlotFree == \A r \in Runs : run[r] # "running"

(* POST /dreaming/runs: reserve the slot, then create the task.            *)
Start(r) ==
    /\ mode = "up"
    /\ SlotFree
    /\ run[r] = "none"
    /\ run' = [run EXCEPT ![r] = "running"]
    /\ pc' = [pc EXCEPT ![r] = "work"]
    /\ UNCHANGED <<snap, latest, graph, mode, prev, cancelled, thread, faults>>

-----------------------------------------------------------------------------
(* The runner.                                                             *)

(* When the server stops, a task goes on only in a handler.                *)
Runner(r, from) == pc[r] = from /\ (mode = "up" \/ cancelled[r])

Goto(r, to) == pc' = [pc EXCEPT ![r] = to] /\ UNCHANGED <<prev, cancelled, thread>>

(* Communities and their reports are computed; nothing is written.         *)
Work(r) ==
    /\ Runner(r, "work")
    /\ Goto(r, "stage")
    /\ UNCHANGED <<sqlVars, graph, mode, faults>>

(* A refusal of SQLite is an exception like any other.                     *)
Stage(r) ==
    /\ Runner(r, "stage")
    /\ Staged(r)
    /\ Goto(r, IF run[r] = "running" THEN "load" ELSE "record")
    /\ UNCHANGED <<run, latest, graph, mode, faults>>

Load(r) ==
    /\ Runner(r, "load")
    /\ prev' = [prev EXCEPT ![r] = latest]
    /\ pc' = [pc EXCEPT ![r] = "publish"]
    /\ UNCHANGED <<sqlVars, graph, mode, cancelled, thread, faults>>

Publish(r) ==
    /\ Runner(r, "publish")
    /\ graph' = r
    /\ Goto(r, "confirm")
    /\ UNCHANGED <<sqlVars, mode, faults>>

Confirm(r) ==
    /\ Runner(r, "confirm")
    /\ Confirmed(r)
    /\ Goto(r, IF Prepared(r) THEN "status" ELSE "restore")
    /\ UNCHANGED <<graph, mode, faults>>

(* get_dreaming_status, inside the same try.                               *)
ReadStatus(r) ==
    /\ Runner(r, "status")
    /\ Goto(r, "idle")
    /\ UNCHANGED <<sqlVars, graph, mode, faults>>

Restore(r) ==
    /\ Runner(r, "restore")
    /\ graph' = prev[r]
    /\ Goto(r, "record")
    /\ UNCHANGED <<sqlVars, mode, faults>>

Record(r) ==
    /\ Runner(r, "record")
    /\ Recorded({r})
    /\ Goto(r, "idle")
    /\ UNCHANGED <<latest, graph, mode, faults>>

-----------------------------------------------------------------------------
(* Failures.                                                               *)

Fault(f) ==
    /\ faults[f] < MaxFaults[f]
    /\ faults' = [faults EXCEPT ![f] = @ + 1]

(* A step from fails as f and the runner goes on at step to.               *)
Fails(r, from, f, to) ==
    /\ Runner(r, from)
    /\ Fault(f)
    /\ Goto(r, to)
    /\ UNCHANGED <<sqlVars, mode>>

(* Faulty: a snapshot that could not be staged is published all the same.  *)
WorkFailsOn(r) ==
    /\ \/ Fails(r, "work", "work", "record")
       \/ Fails(r, "stage", "work", "load")
       \/ Fails(r, "load", "work", "record")
    /\ UNCHANGED graph

WorkFails(r) ==
    /\ \E from \in {"work", "stage", "load"} : Fails(r, from, "work", "record")
    /\ UNCHANGED graph

(* The graph's transaction is rolled back.                                 *)
PublishFails(r) == Fails(r, "publish", "graph", "record") /\ UNCHANGED graph

(* The transaction commits and its answer is lost: graph_published stays   *)
(* FALSE and nothing is put back.                                          *)
PublishLost(r) == Fails(r, "publish", "lost", "record") /\ graph' = r

(* Faulty: a failed confirmation is recorded without a restoration.        *)
ConfirmFailsUnrestored(r) ==
    Fails(r, "confirm", "confirm", "record") /\ UNCHANGED graph

ConfirmFails(r) == Fails(r, "confirm", "confirm", "restore") /\ UNCHANGED graph

(* The handler cannot tell this from a failed confirmation.                *)
StatusFails(r) == Fails(r, "status", "status", "restore") /\ UNCHANGED graph

(* A failed restoration is logged; in the handler of a cancellation it     *)
(* ends the task before the failure is recorded.                           *)
RestoreFails(r) ==
    /\ Fails(r, "restore", "restore", IF cancelled[r] THEN "idle" ELSE "record")
    /\ UNCHANGED graph

RecordFails(r) == Fails(r, "record", "record", "idle") /\ UNCHANGED graph

-----------------------------------------------------------------------------
(* Shutdown and crash.                                                     *)

Shutdown ==
    /\ mode = "up"
    /\ Fault("shutdown")
    /\ mode' = "stopping"
    /\ UNCHANGED <<sqlVars, graph, taskVars>>

(* The runner handles the CancelledError at step to, and leaves the SQLite *)
(* call left behind.                                                       *)
Handle(r, to, left) ==
    /\ pc' = [pc EXCEPT ![r] = to]
    /\ thread' = [thread EXCEPT ![r] = left]

(* The cancellation reaches a task: one that has not run yet never does, a *)
(* transaction of the graph may have committed, and a second exception     *)
(* inside a handler ends the task.                                         *)
Cancelled(r) ==
    /\ mode = "stopping"
    /\ ~cancelled[r]
    /\ cancelled' = [cancelled EXCEPT ![r] = TRUE]
    /\ \/ /\ pc[r] = "work"
          /\ Handle(r, "record", "none") \/ Handle(r, "idle", "none")
          /\ UNCHANGED graph
       \/ /\ pc[r] = "stage"
          /\ Handle(r, "record", "stage")
          /\ UNCHANGED graph
       \/ /\ pc[r] = "load"
          /\ Handle(r, "record", "none")
          /\ UNCHANGED graph
       \/ /\ pc[r] = "publish"
          /\ graph' \in {graph, r}
          /\ Handle(r, "record", "none")
       \/ /\ pc[r] = "confirm"
          /\ Handle(r, "restore", "confirm")
          /\ UNCHANGED graph
       \/ /\ pc[r] = "status"
          /\ Handle(r, "restore", "none")
          /\ UNCHANGED graph
       \/ /\ pc[r] = "restore"
          /\ graph' \in {graph, prev[r]}
          /\ Handle(r, "idle", "none")
       \/ /\ pc[r] = "record"
          /\ Handle(r, "idle", "record")
          /\ UNCHANGED graph
    /\ UNCHANGED <<sqlVars, mode, prev, faults>>

(* The call that was left behind.                                          *)
LeftBehind(r) ==
    /\ thread[r] # "none"
    /\ thread' = [thread EXCEPT ![r] = "none"]
    /\ \/ thread[r] = "stage" /\ Staged(r) /\ UNCHANGED <<run, latest>>
       \/ thread[r] = "confirm" /\ Confirmed(r)
       \/ thread[r] = "record" /\ Recorded({r}) /\ UNCHANGED latest
    /\ UNCHANGED <<graph, mode, pc, prev, cancelled, faults>>

Ended ==
    /\ mode' = "down"
    /\ pc' = [r \in Runs |-> "idle"]
    /\ prev' = [r \in Runs |-> None]
    /\ cancelled' = [r \in Runs |-> FALSE]
    /\ thread' = [r \in Runs |-> "none"]
    /\ UNCHANGED <<sqlVars, graph>>

(* The server joins its tasks and its threads before it exits.             *)
Exit ==
    /\ mode = "stopping"
    /\ \A r \in Runs : pc[r] = "idle" /\ thread[r] = "none"
    /\ Ended
    /\ UNCHANGED faults

Crash ==
    /\ mode # "down"
    /\ Fault("crash")
    /\ Ended

-----------------------------------------------------------------------------
Proceed(r) == \/ Work(r) \/ Stage(r) \/ Load(r) \/ Publish(r) \/ Confirm(r)
              \/ ReadStatus(r) \/ Restore(r) \/ Record(r)
Failure(r) == \/ WorkFails(r) \/ PublishFails(r) \/ PublishLost(r)
              \/ ConfirmFails(r) \/ StatusFails(r) \/ RestoreFails(r)
              \/ RecordFails(r)

Next ==
    \/ ProcStart
    \/ \E r \in Runs : \/ Start(r) \/ Proceed(r) \/ Failure(r)
                       \/ Cancelled(r) \/ LeftBehind(r)
    \/ Shutdown \/ Exit \/ Crash

Spec == Init /\ [][Next]_vars

FairSpec == /\ Spec
            /\ WF_vars(ProcStart) /\ WF_vars(Exit)
            /\ \A r \in Runs : /\ WF_vars(Proceed(r)) /\ WF_vars(Cancelled(r))
                               /\ WF_vars(LeftBehind(r))

-----------------------------------------------------------------------------
(* Properties.                                                             *)

(* Whatever a cancelled call that was left behind, the handler of its      *)
(* cancellation and the repair of a restart do in whatever order, a run    *)
(* has succeeded exactly when its snapshot is published, and a prepared    *)
(* snapshot belongs to an active run.                                      *)
RowsAgree ==
    \A r \in Runs :
        /\ run[r] = "succeeded" <=> snap[r] = "published"
        /\ snap[r] = "prepared" => run[r] = "running"

(* The graph never shows a snapshot that SQLite does not hold in full: a   *)
(* reader who looks its reports up finds them, also after a restoration.   *)
GraphIsStaged == graph # None => snap[graph] # "none"

(* Faults between the two publications that no compensation reaches.       *)
Undisturbed ==
    \A f \in {"lost", "status", "restore", "shutdown", "crash"} : faults[f] = 0

(* Between runs the graph shows what SQLite published last, whichever step *)
(* of a run failed: a failed confirmation is compensated.                  *)
GraphShowsLatest == Undisturbed /\ SlotFree => graph = latest

(* Whatever earlier runs left in the graph, a run that a serving process   *)
(* confirms leaves the graph and SQLite in agreement, unless an earlier    *)
(* run could not read its status and still writes to the graph.            *)
SuccessAgrees ==
    [][mode = "up" /\ faults["status"] = 0 /\ latest' # latest
           => graph' = latest']_vars

(* The workspace's only slot becomes free again, by the run's end or by    *)
(* the repair of a restart, unless its failure could not be recorded.      *)
SlotFreed ==
    \A r \in Runs :
        run[r] = "running" /\ faults["record"] = 0
            ~> run[r] # "running" \/ faults["record"] > 0

-----------------------------------------------------------------------------
(* The inductive invariant.                                                *)

(* A task and the call it left behind belong to a process, and a call is   *)
(* left behind only by a shutdown.                                         *)
TaskOfProcess ==
    /\ mode = "down" => \A r \in Runs : pc[r] = "idle"
    /\ \A r \in Runs : thread[r] # "none" => mode = "stopping"
    /\ mode = "stopping" => faults["shutdown"] > 0

(* A task of a serving process holds the slot until it has confirmed, and  *)
(* comes back from there only when it could not read the status.           *)
SlotOfTask ==
    /\ \A r, q \in Runs : run[r] = "running" /\ run[q] = "running" => r = q
    /\ mode = "up" =>
        \A r \in Runs :
            \/ pc[r] \in {"idle", "status"}
            \/ run[r] = "running"
            \/ pc[r] \in {"restore", "record"} /\ faults["status"] > 0

(* What the graph is given, or was given back, is stored.                  *)
StoredByTask ==
    /\ \A r \in Runs :
        /\ pc[r] \in {"load", "publish", "confirm", "status", "restore"}
               => snap[r] # "none"
        /\ prev[r] # None => snap[prev[r]] # "none"
    /\ latest # None => snap[latest] # "none"

(* No other task writes to the graph while one is about to confirm, and    *)
(* the previous snapshot it has read stays the latest.                     *)
GraphOfTask ==
    /\ mode = "up" /\ faults["status"] = 0 =>
        \A r \in Runs : pc[r] = "confirm" => graph = r
    /\ Undisturbed =>
        /\ \A r \in Runs :
            pc[r] \in {"publish", "confirm", "restore"} => prev[r] = latest
        /\ (\A r \in Runs : pc[r] \notin {"confirm", "restore"}) => graph = latest

DreamingInvariant ==
    /\ TypeOK
    /\ RowsAgree
    /\ GraphIsStaged
    /\ TaskOfProcess
    /\ SlotOfTask
    /\ StoredByTask
    /\ GraphOfTask
=============================================================================
