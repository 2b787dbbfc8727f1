---------------------------- MODULE GraphLayouts ----------------------------
(***************************************************************************)
(* The layouts of the graph view and their single owner: the initial       *)
(* ForceAtlas2 of GraphControl.tsx, the worker layout of LayoutsControl.tsx*)
(* and the slot activeLayoutSupervisor of stores/graph.ts, which may hold  *)
(* either.  A layout moves the nodes while it "runs".                      *)
(*                                                                         *)
(* Which sync or worker layout it is, coordinates, the camera and the      *)
(* loading overlay are left out.  External: a supervisor that was killed   *)
(* cannot be started again.                                                *)
(***************************************************************************)
CONSTANT None

ASSUME LayoutsAssumption == None \notin {"initial", "worker"}

VARIABLES
    drawn,      \* is there a graph
    mode,       \* the layout chosen: "sync" or "worker"
    initial,    \* the initial layout of this graph
    worker,     \* the supervisor of WorkerLayoutControl
    playing,    \* running of WorkerLayoutControl
    slot        \* activeLayoutSupervisor

layoutVars == <<drawn, mode, initial, worker, playing, slot>>

Moving == {"armed", "runs"}

Killed(s) == IF s \in Moving THEN "killed" ELSE s

(* Mutant: the slot is taken without a look at who had it.                 *)
OwnOnly(next, i, w) == slot' = next /\ initial' = i /\ worker' = w

(* setActiveLayoutSupervisor(next), once next is in state i or w           *)
Own(next, i, w) ==
    /\ slot' = next
    /\ initial' = IF slot = "initial" /\ next # "initial" THEN Killed(i) ELSE i
    /\ worker' = IF slot = "worker" /\ next # "worker" THEN Killed(w) ELSE w

LayoutTypeOK ==
    /\ drawn \in BOOLEAN
    /\ mode \in {"sync", "worker"}
    /\ initial \in {"none", "runs", "killed", "settled"}
    /\ worker \in {"none", "armed", "runs", "killed", "stopped"}
    /\ playing \in BOOLEAN
    /\ slot \in {None, "initial", "worker"}

LayoutInit ==
    /\ drawn = FALSE
    /\ mode = "sync"
    /\ initial = "none" /\ worker = "none"
    /\ playing = FALSE
    /\ slot = None

(* The graph is replaced or cleared: both components release what they     *)
(* have, then GraphControl starts the initial layout, and WorkerLayout-    *)
(* Control, if it is mounted, takes over.                                  *)
GraphReplaced(exists) ==
    /\ drawn' = exists
    /\ IF ~exists
       THEN initial' = "none" /\ worker' = "none" /\ slot' = None /\ playing' = FALSE
       ELSE IF mode = "worker"
       THEN initial' = "killed" /\ worker' = "armed" /\ slot' = "worker" /\ playing' = TRUE
       ELSE initial' = "runs" /\ worker' = "none" /\ slot' = "initial" /\ playing' = FALSE
    /\ UNCHANGED mode

(* A new sigma instance draws the same graph: a theme, or the edge limit.  *)
Rebuilt ==
    /\ drawn /\ initial # "settled"
    /\ Own("initial", "runs", worker)
    /\ UNCHANGED <<drawn, mode, playing>>

(* The time budget of the initial layout ends; another layout may have     *)
(* killed it before.                                                       *)
InitialSettles ==
    /\ initial \in {"runs", "killed"}
    /\ initial' = "settled"
    /\ slot' = IF slot = "initial" THEN None ELSE slot
    /\ UNCHANGED <<drawn, mode, worker, playing>>

(* start() of WorkerLayoutControl                                          *)
Start ==
    IF drawn
    THEN Own("worker", initial, "armed") /\ playing' = TRUE
    ELSE /\ worker' = "none" /\ slot' = (IF slot = "worker" THEN None ELSE slot)
         /\ playing' = FALSE /\ UNCHANGED initial

(* stop() of WorkerLayoutControl, by its button or by its budget           *)
Stop ==
    /\ worker' = IF worker = "none" THEN "none" ELSE "stopped"
    /\ slot' = IF slot = "worker" THEN None ELSE slot
    /\ playing' = FALSE
    /\ UNCHANGED <<drawn, mode, initial>>

ChooseWorker ==
    /\ mode' = "worker"
    /\ Start
    /\ UNCHANGED drawn

(* A sync layout kills what runs and unmounts WorkerLayoutControl.         *)
ChooseSync ==
    /\ drawn
    /\ mode' = "sync"
    /\ slot' = None
    /\ initial' = IF slot = "initial" THEN "killed" ELSE initial
    /\ worker' = "none"
    /\ playing' = FALSE
    /\ UNCHANGED drawn

Play ==
    /\ mode = "worker" /\ ~playing
    /\ Start
    /\ UNCHANGED <<drawn, mode>>

Pause ==
    /\ mode = "worker" /\ playing
    /\ Stop

(* The deferred supervisor.start(): it throws if the supervisor is dead.   *)
WorkerStarts ==
    /\ worker = "armed"
    /\ worker' = "runs"
    /\ UNCHANGED <<drawn, mode, initial, playing, slot>>

WorkerDead ==
    /\ worker = "killed" /\ playing
    /\ Stop

WorkerEnds ==
    /\ worker = "runs"
    /\ Stop

LayoutStep ==
    \/ Rebuilt \/ InitialSettles
    \/ ChooseWorker \/ ChooseSync \/ Play \/ Pause
    \/ WorkerStarts \/ WorkerDead \/ WorkerEnds

LayoutNext == LayoutStep \/ \E exists \in BOOLEAN : GraphReplaced(exists)

LayoutSpec == LayoutInit /\ [][LayoutNext]_layoutVars

-----------------------------------------------------------------------------

(* Only one layout moves the nodes at a time, and it is the one in the     *)
(* slot; a taken slot means that a layout runs or is about to.  About      *)
(* setActiveLayoutSupervisor and releaseLayoutSupervisor (graph.ts) and    *)
(* the cleanups of both components.                                        *)
SingleOwner ==
    /\ initial = "runs" <=> slot = "initial"
    /\ worker \in Moving <=> slot = "worker"
=============================================================================
