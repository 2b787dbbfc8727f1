------------------------------ MODULE Runtime ------------------------------
(***************************************************************************)
(* MagiRuntime: one Core instance (a BackendBundle over one workspace),    *)
(* any number of public handles, and the operations that start, stop,      *)
(* switch and delete.                                                      *)
(*                                                                         *)
(* Everything runs on one asyncio loop: a coroutine keeps the loop until   *)
(* it suspends.  turn is the coroutine that holds the loop between two     *)
(* actions that the code runs without a suspension; None when the loop     *)
(* picks anyone.  _handle_lock is not modelled: no coroutine suspends      *)
(* while it holds it, so taking it never suspends either.                  *)
(***************************************************************************)
EXTENDS Naturals, Sequences

CONSTANTS
    Tasks,       \* coroutines of the clients of the Runtime
    Handles,
    Workspaces,
    Default,     \* the default workspace
    Deletable,   \* the workspaces clients ask to delete
    MaxBundles,  \* bound on the bundles at one time
    MaxFaults,   \* bounds on the failures of each kind
    None

Bundles == 1 .. MaxBundles
FaultKinds == {"build", "registry", "clear", "finalize", "timeout"}

ASSUME RuntimeAssumption ==
    /\ Default \in Workspaces
    /\ Deletable \subseteq Workspaces \ {Default}
    /\ None \notin Workspaces \cup Handles \cup Tasks \cup Bundles
    /\ MaxBundles \in Nat
    /\ MaxFaults \in [FaultKinds -> Nat]

VARIABLES
    state,     \* RuntimeState
    active,    \* active_workspace_id
    backend,   \* the bundle calls are given
    known,     \* _handles
    hstate,    \* HandleState
    lock,      \* holder of _lifecycle_lock
    queue,     \* coroutines waiting for it, first come first served
    stage,     \* of every bundle: starting, up, or down
    registry,  \* workspaces.json: the registered workspaces
    chosen,    \* workspaces.json: active_workspace_id
    turn,      \* the coroutine running
    pc,        \* what a coroutine does next
    op,        \* the operation it belongs to
    tgt,       \* the workspace it is about
    mine,      \* delete_workspace: is_active
    bun,       \* the bundle it works on
    hnd,       \* the handle it uses or closes
    drain,     \* the handles it waits for
    faults

lifeVars   == <<state, active, backend>>
handleVars == <<known, hstate>>
lockVars   == <<lock, queue>>
discVars   == <<registry, chosen>>
taskVars   == <<turn, pc, op, tgt, mine, bun, hnd, drain>>
vars == <<lifeVars, handleVars, lockVars, stage, discVars, taskVars, faults>>

States == {"new", "initializing", "ready", "draining", "finalizing",
           "finalized", "failed"}
Labels == {"idle", "destroy", "drain", "finalize", "init", "start",
           "tempStart", "clear", "tempFinalize", "remove", "call", "close"}
Ops == {"none", "boot", "destroy", "switch", "delete", "restore", "giveup"}

InstanceTypeOK ==
    /\ state \in States
    /\ active \in Workspaces \cup {None}
    /\ backend \in Bundles \cup {None}
    /\ known \in SUBSET Handles
    /\ hstate \in [Handles -> {"unused", "open", "closing", "closed"}]
    /\ lock \in Tasks \cup {None}
    /\ queue \in Seq(Tasks)
    /\ stage \in [Bundles -> {"starting", "up", "down"}]
    /\ registry \in SUBSET Workspaces
    /\ chosen \in Workspaces
    /\ faults \in [FaultKinds -> Nat]

TaskTypeOK ==
    /\ turn \in Tasks \cup {None}
    /\ pc \in [Tasks -> Labels]
    /\ op \in [Tasks -> Ops]
    /\ tgt \in [Tasks -> Workspaces \cup {None}]
    /\ mine \in [Tasks -> BOOLEAN]
    /\ bun \in [Tasks -> Bundles \cup {None}]
    /\ hnd \in [Tasks -> Handles \cup {None}]
    /\ drain \in [Tasks -> SUBSET Handles]

TypeOK == InstanceTypeOK /\ TaskTypeOK

Init ==
    /\ state = "new"
    /\ active = None
    /\ backend = None
    /\ known = {}
    /\ hstate = [h \in Handles |-> "unused"]
    /\ lock = None
    /\ queue = <<>>
    /\ stage = [b \in Bundles |-> "down"]
    /\ registry \in {W \in SUBSET Workspaces : Default \in W}
    /\ chosen \in registry
    /\ turn = None
    /\ pc = [t \in Tasks |-> "idle"]
    /\ op = [t \in Tasks |-> "none"]
    /\ tgt = [t \in Tasks |-> None]
    /\ mine = [t \in Tasks |-> FALSE]
    /\ bun = [t \in Tasks |-> None]
    /\ hnd = [t \in Tasks |-> None]
    /\ drain = [t \in Tasks |-> {}]
    /\ faults = [f \in FaultKinds |-> 0]

-----------------------------------------------------------------------------
(* The coroutines.                                                         *)

Idle(t) == turn = None /\ pc[t] = "idle"
Resumes(t, l) == turn = None /\ pc[t] = l
Continues(t, l) == turn = t /\ pc[t] = l

Goto(t, l) == pc' = [pc EXCEPT ![t] = l]

(* The operation returns or raises.                                        *)
Finish(t) ==
    /\ Goto(t, "idle")
    /\ turn' = None
    /\ op' = [op EXCEPT ![t] = "none"]
    /\ tgt' = [tgt EXCEPT ![t] = None]
    /\ mine' = [mine EXCEPT ![t] = FALSE]
    /\ bun' = [bun EXCEPT ![t] = None]
    /\ hnd' = [hnd EXCEPT ![t] = None]
    /\ drain' = [drain EXCEPT ![t] = {}]

Begins(t, o, w, l) ==
    /\ Idle(t)
    /\ op' = [op EXCEPT ![t] = o]
    /\ tgt' = [tgt EXCEPT ![t] = w]
    /\ Goto(t, l)

Fault(f) ==
    /\ faults[f] < MaxFaults[f]
    /\ faults' = [faults EXCEPT ![f] = @ + 1]

(* async with _lifecycle_lock: at once if it is free and nobody waits,     *)
(* else in turn.                                                           *)
Wants(t) == pc[t] \in {"destroy", "init"} /\ lock # t
LockFree == lock = None /\ queue = <<>>

TakeLock(t) ==
    /\ Wants(t)
    /\ turn = t
    /\ LockFree
    /\ lock' = t
    /\ UNCHANGED <<lifeVars, handleVars, queue, stage, discVars, taskVars, faults>>

WaitForLock(t) ==
    /\ Wants(t)
    /\ turn = t
    /\ ~LockFree
    /\ queue' = Append(queue, t)
    /\ turn' = None
    /\ UNCHANGED <<lifeVars, handleVars, lock, stage, discVars, pc, op, tgt, mine, bun,
                   hnd, drain, faults>>

GetLock(t) ==
    /\ Wants(t)
    /\ turn = None
    /\ lock = None /\ queue # <<>>
    /\ Head(queue) = t
    /\ lock' = t
    /\ queue' = Tail(queue)
    /\ turn' = t
    /\ UNCHANGED <<lifeVars, handleVars, stage, discVars, pc, op, tgt, mine, bun, hnd,
                   drain, faults>>

(* Bundles are numbered; a number is used again once its bundle is down    *)
(* and nobody refers to it.                                                *)
Free(b) == stage[b] = "down" /\ \A t \in Tasks : bun[t] # b
Fresh(b) == Free(b) /\ \A c \in Bundles : c < b => ~Free(c)

-----------------------------------------------------------------------------
(* instance_init.                                                          *)

Boot(t) ==
    /\ state = "new"
    /\ Begins(t, "boot", None, "init")
    /\ turn' = t
    /\ UNCHANGED <<lifeVars, handleVars, lockVars, stage, discVars, mine, bun, hnd,
                   drain, faults>>

Selected(t) == IF tgt[t] = None THEN chosen ELSE tgt[t]

InitFails(t) ==
    /\ state' = "failed"
    /\ backend' = None
    /\ active' = None
    /\ lock' = None
    /\ Finish(t)

(* Faulty: initialization is refused only while another one is under way.  *)
AnyState(t) == state # "initializing" /\ pc[t] = "init"

MayInitialize(t) == state = "new"

InitRefused(t) ==
    /\ Continues(t, "init")
    /\ lock = t
    /\ ~MayInitialize(t)
    /\ lock' = None
    /\ Finish(t)
    /\ UNCHANGED <<lifeVars, handleVars, queue, stage, discVars, faults>>

InitUnknown(t) ==
    /\ Continues(t, "init")
    /\ lock = t
    /\ MayInitialize(t)
    /\ Selected(t) \notin registry
    /\ InitFails(t)
    /\ UNCHANGED <<handleVars, queue, stage, discVars, faults>>

Build(t, b) ==
    /\ Continues(t, "init")
    /\ lock = t
    /\ MayInitialize(t)
    /\ Selected(t) \in registry
    /\ Fresh(b)
    /\ state' = "initializing"
    /\ stage' = [stage EXCEPT ![b] = "starting"]
    /\ bun' = [bun EXCEPT ![t] = b]
    /\ tgt' = [tgt EXCEPT ![t] = Selected(t)]
    /\ Goto(t, "start")
    /\ turn' = None
    /\ UNCHANGED <<active, backend, handleVars, lockVars, discVars, op, mine, hnd, drain,
                   faults>>

(* Faulty: the new workspace is not made the one a restart selects.        *)
NotChosen(t) == chosen

Chosen(t) == tgt[t]

(* The bundle is up, and the registry takes the workspace as active.       *)
Ready(t) ==
    /\ Resumes(t, "start")
    /\ tgt[t] \in registry
    /\ stage' = [stage EXCEPT ![bun[t]] = "up"]
    /\ chosen' = Chosen(t)
    /\ backend' = bun[t]
    /\ active' = tgt[t]
    /\ state' = "ready"
    /\ lock' = None
    /\ Finish(t)
    /\ UNCHANGED <<handleVars, queue, registry, faults>>

(* BackendBundle.initialize raises and undoes what it did.                 *)
BuildFails(t) ==
    /\ Resumes(t, "start")
    /\ Fault("build")
    /\ stage' = [stage EXCEPT ![bun[t]] = "down"]
    /\ InitFails(t)
    /\ UNCHANGED <<handleVars, queue, discVars>>

(* set_active raises when the bundle is up: the workspace is not           *)
(* registered any more, or the registry cannot be written.                 *)
SetActiveFails(t) ==
    /\ Resumes(t, "start")
    /\ \/ tgt[t] \notin registry /\ UNCHANGED faults
       \/ Fault("registry")
    /\ stage' = [stage EXCEPT ![bun[t]] = "up"]
    /\ InitFails(t)
    /\ UNCHANGED <<handleVars, queue, discVars>>

-----------------------------------------------------------------------------
(* instance_destroy.  initializing and finalizing never outlive the lock,  *)
(* so its RuntimeError is not reached.                                     *)

Shutdown(t) ==
    /\ Begins(t, "destroy", None, "destroy")
    /\ turn' = t
    /\ UNCHANGED <<lifeVars, handleVars, lockVars, stage, discVars, mine, bun, hnd,
                   drain, faults>>

(* instance_destroy returned: what its caller does next.                   *)
Destroyed(t) ==
    IF op[t] = "destroy"
    THEN Finish(t)
    ELSE /\ Goto(t, IF op[t] = "switch" THEN "init" ELSE "remove")
         /\ turn' = t
         /\ drain' = [drain EXCEPT ![t] = {}]
         /\ UNCHANGED <<op, tgt, mine, bun, hnd>>

DestroyNothing(t) ==
    /\ Continues(t, "destroy")
    /\ lock = t
    /\ state \in {"new", "finalized"}
    /\ state' = IF op[t] = "destroy" THEN "finalized" ELSE state
    /\ lock' = None
    /\ Destroyed(t)
    /\ UNCHANGED <<active, backend, handleVars, queue, stage, discVars, faults>>

StartDrain(t) ==
    /\ Continues(t, "destroy")
    /\ lock = t
    /\ state \in {"ready", "failed", "draining"}
    /\ state' = "draining"
    /\ hstate' = [h \in Handles |-> IF h \in known /\ state # "draining"
                                    THEN "closing" ELSE hstate[h]]
    /\ drain' = [drain EXCEPT ![t] = known]
    /\ Goto(t, "drain")
    /\ turn' = IF known = {} THEN t ELSE None
    /\ UNCHANGED <<active, backend, known, lockVars, stage, discVars, op, tgt, mine, bun,
                   hnd, faults>>

(* in_flight = 0 *)
Quiet(h) == \A t \in Tasks : pc[t] = "call" => hnd[t] # h

(* Faulty: the drain waits only for the handles that are still open.       *)
DrainsOpen(t) == \A h \in drain[t] : hstate[h] = "open" => Quiet(h)

AllIdle(t) == \A h \in drain[t] : Quiet(h)

Drained(t) ==
    /\ pc[t] = "drain"
    /\ turn \in {None, t}
    /\ AllIdle(t)
    /\ hstate' = [h \in Handles |-> IF h \in drain[t] THEN "closed" ELSE hstate[h]]
    /\ known' = {}
    /\ state' = "finalizing"
    /\ Goto(t, "finalize")
    /\ turn' = IF backend = None THEN t ELSE None
    /\ UNCHANGED <<active, backend, lockVars, stage, discVars, op, tgt, mine, bun, hnd,
                   drain, faults>>

(* The caller's timeout: the Runtime stays draining.                       *)
TimedOut(t) ==
    /\ Resumes(t, "drain")
    /\ ~AllIdle(t)
    /\ Fault("timeout")
    /\ lock' = None
    /\ Finish(t)
    /\ UNCHANGED <<lifeVars, handleVars, queue, stage, discVars>>

Torn(t) ==
    /\ pc[t] = "finalize"
    /\ turn \in {None, t}
    /\ stage' = [b \in Bundles |-> IF b = backend THEN "down" ELSE stage[b]]
    /\ backend' = None
    /\ active' = None
    /\ state' = IF op[t] = "destroy" THEN "finalized" ELSE "new"
    /\ lock' = None
    /\ UNCHANGED <<handleVars, queue, discVars>>

Finalized(t) ==
    /\ Torn(t)
    /\ Destroyed(t)
    /\ UNCHANGED faults

(* finalize raises when it has closed everything; so does the operation.   *)
FinalizeFails(t) ==
    /\ backend # None
    /\ Fault("finalize")
    /\ Torn(t)
    /\ Finish(t)

-----------------------------------------------------------------------------
(* switch_workspace and create_workspace.                                  *)

Switch(t, w) ==
    /\ w # active
    /\ w \in registry
    /\ known = {}
    /\ Begins(t, "switch", w, "destroy")
    /\ turn' = t
    /\ UNCHANGED <<lifeVars, handleVars, lockVars, stage, discVars, mine, bun, hnd,
                   drain, faults>>

Create(w) ==
    /\ turn = None
    /\ w \notin registry
    /\ registry' = registry \cup {w}
    /\ UNCHANGED <<lifeVars, handleVars, lockVars, stage, chosen, taskVars, faults>>

-----------------------------------------------------------------------------
(* delete_workspace.                                                       *)

MayDelete(w) ==
    /\ state = "ready"
    /\ w \in registry \cap Deletable
    /\ known = {}

DeleteActive(t, w) ==
    /\ MayDelete(w)
    /\ w = active
    /\ Begins(t, "delete", w, "clear")
    /\ mine' = [mine EXCEPT ![t] = TRUE]
    /\ bun' = [bun EXCEPT ![t] = backend]
    /\ UNCHANGED <<lifeVars, handleVars, lockVars, stage, discVars, turn, hnd, drain,
                   faults>>

(* An inactive workspace is cleared through a bundle of its own.           *)
DeleteOther(t, w, b) ==
    /\ MayDelete(w)
    /\ w # active
    /\ Fresh(b)
    /\ Begins(t, "delete", w, "tempStart")
    /\ bun' = [bun EXCEPT ![t] = b]
    /\ stage' = [stage EXCEPT ![b] = "starting"]
    /\ UNCHANGED <<lifeVars, handleVars, lockVars, discVars, turn, mine, hnd, drain,
                   faults>>

TempStarted(t) ==
    /\ Resumes(t, "tempStart")
    /\ stage' = [stage EXCEPT ![bun[t]] = "up"]
    /\ Goto(t, "clear")
    /\ UNCHANGED <<lifeVars, handleVars, lockVars, discVars, turn, op, tgt, mine, bun,
                   hnd, drain, faults>>

TempStartFails(t) ==
    /\ Resumes(t, "tempStart")
    /\ Fault("build")
    /\ stage' = [stage EXCEPT ![bun[t]] = "down"]
    /\ Finish(t)
    /\ UNCHANGED <<lifeVars, handleVars, lockVars, discVars>>

(* aclear_workspace_data returns or raises; it may raise when the bundle   *)
(* was finalized meanwhile.                                                *)
Cleared(t) ==
    /\ Resumes(t, "clear")
    /\ Goto(t, IF mine[t] THEN "destroy" ELSE "tempFinalize")
    /\ turn' = IF mine[t] THEN t ELSE None
    /\ UNCHANGED <<lifeVars, handleVars, lockVars, stage, discVars, op, tgt, mine, bun,
                   hnd, drain, faults>>

ClearFault(t) ==
    /\ Resumes(t, "clear")
    /\ \/ Fault("clear")
       \/ stage[bun[t]] = "down" /\ UNCHANGED faults
    /\ UNCHANGED <<lifeVars, handleVars, lockVars, stage, discVars>>

ClearFails(t) == mine[t] /\ ClearFault(t) /\ Finish(t)

TempClearFails(t) ==
    /\ ~mine[t]
    /\ ClearFault(t)
    /\ op' = [op EXCEPT ![t] = "giveup"]
    /\ Goto(t, "tempFinalize")
    /\ UNCHANGED <<turn, tgt, mine, bun, hnd, drain>>

TempFinalized(t) ==
    /\ Resumes(t, "tempFinalize")
    /\ op[t] = "delete"
    /\ stage' = [stage EXCEPT ![bun[t]] = "down"]
    /\ Goto(t, "remove")
    /\ turn' = t
    /\ UNCHANGED <<lifeVars, handleVars, lockVars, discVars, op, tgt, mine, bun, hnd,
                   drain, faults>>

(* The clearing raised, or the finalization does.                          *)
TempGivenUp(t) ==
    /\ Resumes(t, "tempFinalize")
    /\ \/ op[t] = "giveup" /\ UNCHANGED faults
       \/ Fault("finalize")
    /\ stage' = [stage EXCEPT ![bun[t]] = "down"]
    /\ Finish(t)
    /\ UNCHANGED <<lifeVars, handleVars, lockVars, discVars>>

Drop(w) ==
    /\ registry' = registry \ {w}
    /\ chosen' = IF chosen = w THEN Default ELSE chosen

(* After WorkspaceManager.delete, a Runtime that served the workspace      *)
(* initializes again: with the workspace a restart would select, or with   *)
(* the same one if the deletion raised.                                    *)
Replace(t, w, o) ==
    IF mine[t]
    THEN /\ Goto(t, "init")
         /\ op' = [op EXCEPT ![t] = o]
         /\ tgt' = [tgt EXCEPT ![t] = w]
         /\ UNCHANGED <<turn, mine, bun, hnd, drain>>
    ELSE Finish(t)

Removed(t) ==
    /\ Continues(t, "remove")
    /\ tgt[t] \in registry
    /\ Drop(tgt[t])
    /\ Replace(t, chosen', "switch")
    /\ UNCHANGED <<lifeVars, handleVars, lockVars, stage, faults>>

(* The workspace is gone already; or the registry cannot be written and    *)
(* keeps it; or its directory cannot be removed, after the registry has    *)
(* dropped it.                                                             *)
RemoveFails(t) ==
    /\ Continues(t, "remove")
    /\ \/ tgt[t] \notin registry /\ UNCHANGED <<discVars, faults>>
       \/ tgt[t] \in registry /\ Fault("registry") /\ UNCHANGED discVars
       \/ tgt[t] \in registry /\ Fault("registry") /\ Drop(tgt[t])
    /\ Replace(t, tgt[t], "restore")
    /\ UNCHANGED <<lifeVars, handleVars, lockVars, stage>>

-----------------------------------------------------------------------------
(* Handles and the calls made through them.                                *)

OpenHandle(h) ==
    /\ turn = None
    /\ state = "ready"
    /\ hstate[h] = "unused"
    /\ known' = known \cup {h}
    /\ hstate' = [hstate EXCEPT ![h] = "open"]
    /\ UNCHANGED <<lifeVars, lockVars, stage, discVars, taskVars, faults>>

CloseHandle(t, h) ==
    /\ Idle(t)
    /\ h \in known
    /\ hstate' = [hstate EXCEPT ![h] = "closing"]
    /\ hnd' = [hnd EXCEPT ![t] = h]
    /\ Goto(t, "close")
    /\ turn' = IF Quiet(h) THEN t ELSE None
    /\ UNCHANGED <<lifeVars, known, lockVars, stage, discVars, op, tgt, mine, bun,
                   drain, faults>>

CloseDone(t) ==
    /\ pc[t] = "close"
    /\ turn \in {None, t}
    /\ Quiet(hnd[t])
    /\ hstate' = [hstate EXCEPT ![hnd[t]] = "closed"]
    /\ known' = known \ {hnd[t]}
    /\ Finish(t)
    /\ UNCHANGED <<lifeVars, lockVars, stage, discVars, faults>>

(* Faulty: a closing handle still takes calls.                             *)
Listed(h) == h \in known

Usable(h) == h \in known /\ hstate[h] = "open"

UseBegin(t, h) ==
    /\ Idle(t)
    /\ state = "ready"
    /\ Usable(h)
    /\ Goto(t, "call")
    /\ hnd' = [hnd EXCEPT ![t] = h]
    /\ bun' = [bun EXCEPT ![t] = backend]
    /\ UNCHANGED <<lifeVars, handleVars, lockVars, stage, discVars, turn, op, tgt, mine,
                   drain, faults>>

UseEnd(t) ==
    /\ Resumes(t, "call")
    /\ Finish(t)
    /\ UNCHANGED <<lifeVars, handleVars, lockVars, stage, discVars, faults>>

-----------------------------------------------------------------------------
Request(t) ==
    \/ Boot(t) \/ Shutdown(t)
    \/ \E w \in Workspaces :
        \/ Switch(t, w) \/ DeleteActive(t, w)
        \/ \E b \in Bundles : DeleteOther(t, w, b)
    \/ \E h \in Handles : CloseHandle(t, h) \/ UseBegin(t, h)

(* What the loop runs once an operation has begun.                         *)
Proceed(t) ==
    \/ TakeLock(t) \/ WaitForLock(t) \/ GetLock(t)
    \/ InitRefused(t) \/ InitUnknown(t) \/ \E b \in Bundles : Build(t, b)
    \/ Ready(t)
    \/ DestroyNothing(t) \/ StartDrain(t) \/ Drained(t) \/ Finalized(t)
    \/ TempStarted(t) \/ Cleared(t) \/ TempFinalized(t) \/ Removed(t)
    \/ CloseDone(t) \/ UseEnd(t)

Failure(t) ==
    \/ BuildFails(t) \/ SetActiveFails(t) \/ TimedOut(t) \/ FinalizeFails(t)
    \/ TempStartFails(t) \/ ClearFails(t) \/ TempClearFails(t) \/ TempGivenUp(t)
    \/ RemoveFails(t)

Next ==
    \/ \E t \in Tasks : Request(t) \/ Proceed(t) \/ Failure(t)
    \/ \E w \in Workspaces : Create(w)
    \/ \E h \in Handles : OpenHandle(h)

Spec == Init /\ [][Next]_vars

(* The loop runs what is ready in the order it became ready, and a call    *)
(* returns.                                                                *)
FairSpec == Spec /\ \A t \in Tasks : SF_vars(Proceed(t) \/ Failure(t))

-----------------------------------------------------------------------------
(* Properties.                                                             *)

(* A call runs on a started bundle from its first step to its last, the    *)
(* one being served: the drain of instance_destroy waits for it.           *)
CallsOnLiveBackend ==
    \A t \in Tasks : pc[t] = "call" => bun[t] = backend /\ stage[bun[t]] = "up"

(* A finalized Runtime is finalized for good: no operation that was under  *)
(* way brings it back.                                                     *)
FinalizedForGood == [][state = "finalized" => state' = "finalized"]_vars

(* At most one bundle is up: the class promises exactly one active Core.   *)
OneCore == \A b, c \in Bundles : stage[b] = "up" /\ stage[c] = "up" => b = c

(* A ready Runtime serves the workspace a restart would select.            *)
ReadyIsChosen == state = "ready" => active = chosen

(* Only a failure puts the Runtime out of service.                         *)
OfflineByFault == state = "failed" => \E f \in FaultKinds : faults[f] > 0

(* Every operation returns: no coroutine waits for the lock or for a       *)
(* handle to become idle for ever.                                         *)
EveryoneReturns == \A t \in Tasks : pc[t] # "idle" ~> pc[t] = "idle"

(* The Runtime implements the service its clients see.                     *)
Service == INSTANCE CoreService WITH
    Clients <- Tasks, Cores <- Bundles,
    core <- backend,
    call <- [t \in Tasks |-> IF pc[t] = "call" THEN bun[t] ELSE None]

(* A call begins on the instance being served, and no instance is          *)
(* withdrawn under a call, whatever is switched, deleted or timed out.     *)
ImplementsService == Service!Spec

-----------------------------------------------------------------------------
(* The inductive invariant: why no call outlives its instance.             *)

Locked == {"start", "drain", "finalize"}

(* What suspends inside instance_init and instance_destroy holds the lock, *)
(* and the state says which of them is under way.                          *)
LockHeld ==
    \A t \in Tasks :
        /\ pc[t] \in Locked => lock = t
        /\ pc[t] = "start" => state = "initializing"
        /\ pc[t] = "drain" => state = "draining"
        /\ pc[t] = "finalize" => state = "finalizing"

(* A ready Runtime has a started bundle, which it keeps until finalize.    *)
Serving ==
    /\ state = "ready" => backend # None
    /\ backend # None =>
        state \in {"ready", "draining", "finalizing"} /\ stage[backend] = "up"

(* Handles live no longer than the instance, and a drain waits for all.    *)
HandlesServed ==
    /\ known # {} => state \in {"ready", "draining"}
    /\ \A t \in Tasks : pc[t] = "drain" => known \subseteq drain[t]

CallsServed ==
    \A t \in Tasks :
        /\ pc[t] = "call" => /\ hnd[t] \in known
                            /\ backend # None /\ bun[t] = backend
        /\ pc[t] = "close" => hnd[t] \in Handles

(* A coroutine that starts or finalizes a bundle shares it with nobody.    *)
Owns(t) ==
    \/ pc[t] \in {"start", "tempStart", "tempFinalize"}
    \/ pc[t] = "clear" /\ ~mine[t]

OwnBundles ==
    \A t \in Tasks :
        Owns(t) => /\ bun[t] \in Bundles /\ bun[t] # backend
                   /\ \A u \in Tasks \ {t} : bun[u] # bun[t]

RuntimeInvariant ==
    /\ TypeOK
    /\ LockHeld
    /\ Serving
    /\ HandlesServed
    /\ CallsServed
    /\ OwnBundles
=============================================================================
