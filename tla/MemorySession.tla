---------------------------- MODULE MemorySession ----------------------------
(***************************************************************************)
(* A session of the DSH plugin "magi-memo": the /memory command that sets  *)
(* its memory mode, the recall whose result an exploration of the same     *)
(* turn may start from, the approval an exploration needs in auto mode,    *)
(* and the tools that create and activate workspaces on a MAGI server that *)
(* other clients use too.  The exploration itself is MemoryExplorer.       *)
(*                                                                         *)
(* The plugin is one JavaScript thread: an action runs from one await to   *)
(* the next.  External, modelled from how the plugin uses them: the host,  *)
(* which gives the agent one tool call at a time, aborts the one that runs *)
(* when the user interrupts the turn, and opens no turn before an approval *)
(* of an earlier one is settled; the MAGI server.                          *)
(***************************************************************************)
EXTENDS Naturals, Sequences

CONSTANTS
    Commands,   \* ids of the /memory commands ever given
    Args,       \* what the user types after /memory
    Legacy,     \* logs a session may be resumed with
    Calls,      \* the calls of magi_memory_explore
    Workspaces,
    None,
    MaxTurns,   \* bound: turns
    MaxOthers   \* bound: workspace changes by other clients

Modes == {"auto", "manual", "explore", "off"}
Outcomes == {"allowed-once", "rejected", "cancelled", "unavailable"}
Steps == {"creating", "listing", "activating", "done"}
Events == [type : {"run"}, id : Commands, arg : Args]
          \cup [type : {"done"}, id : Commands, kind : {"success", "error"}]

ASSUME SessionAssumption ==
    /\ None \notin Commands \cup Modes \cup Workspaces \cup Steps
    /\ None \notin [turn : 0 .. MaxTurns, outcome : Outcomes]
    /\ None \notin {"create", "activate"}
    /\ Legacy \subseteq Seq(Events)
    /\ MaxTurns \in Nat
    /\ MaxOthers \in Nat

VARIABLES
    log,        \* the session's durable /memory events
    projected,  \* the registered projection of the log
    turn,       \* number of the last turn opened
    open,       \* is that turn open
    recall,     \* is an ordinary recall waiting for its answer
    handoff,    \* recallHandoffs: the turn of the last recall, or None
    decision,   \* exploreApprovalDecisions: turn and outcome, or None
    asked,      \* history: approvals requested in the current turn
    explore,    \* by call: its phase, turn, and if it was made in auto mode
    aborted,    \* by call: exec.signal.aborted
    exists,     \* the server's workspaces
    active,     \* the server's active workspace, or None
    others,     \* how often other clients changed the workspaces
    tool        \* the workspace tool call in progress

modeVars == <<log, projected>>
turnVars == <<turn, open>>
exploreVars == <<recall, handoff, decision, asked, explore, aborted>>
serverVars == <<exists, active, others, tool>>
vars == <<modeVars, turnVars, exploreVars, serverVars>>

-----------------------------------------------------------------------------
(* Memory mode: the durable log, and the two ways it is read.              *)

Parsed(arg) == IF arg \in Modes THEN arg ELSE None

(* Old logs spell auto as active; the command itself does not accept it.   *)
ParsedLogged(arg) == IF arg = "active" THEN "auto" ELSE Parsed(arg)

(* What the command's handler returns: "" shows the mode.                  *)
Reply(arg) == IF arg = "" \/ Parsed(arg) # None THEN "success" ELSE "error"

NoMode(default) == [mode |-> default, pending |-> [c \in Commands |-> None]]

FoldEvent(state, event) ==
    LET selected == state.pending[event.id]
    IN  IF event.type = "run"
        THEN IF ParsedLogged(event.arg) = None THEN state
             ELSE [state EXCEPT !.pending[event.id] = ParsedLogged(event.arg)]
        ELSE [mode |-> IF selected # None /\ event.kind = "success"
                       THEN selected ELSE state.mode,
              pending |-> [state.pending EXCEPT ![event.id] = None]]

Folded(events) ==
    LET r[n \in 0 .. Len(events)] ==
            IF n = 0 THEN NoMode("auto") ELSE FoldEvent(r[n - 1], events[n])
    IN  r[Len(events)]
FoldMode(events) == Folded(events).mode

(* Mutant: the mode of a command that failed is applied.                   *)
ApplyAnyOutcome(state, event) ==
    LET selected == IF event.type = "run" THEN ParsedLogged(event.arg)
                    ELSE state.pending[event.id]
    IN  IF selected = None THEN state
        ELSE IF event.type = "run"
        THEN [state EXCEPT !.pending[event.id] = selected]
        ELSE [mode |-> selected, pending |-> [state.pending EXCEPT ![event.id] = None]]

(* The projection's apply: what the host runs on every appended event.     *)
Apply(state, event) ==
    LET selected == IF event.type = "run" THEN ParsedLogged(event.arg)
                    ELSE state.pending[event.id]
    IN  IF selected = None THEN state
        ELSE IF event.type = "run"
        THEN [state EXCEPT !.pending[event.id] = selected]
        ELSE [mode |-> IF event.kind = "success" THEN selected ELSE state.mode,
              pending |-> [state.pending EXCEPT ![event.id] = None]]

(* What the host makes of the log of a session that is resumed             *)
Replayed(events) ==
    LET r[n \in 0 .. Len(events)] ==
            IF n = 0 THEN NoMode("auto") ELSE Apply(r[n - 1], events[n])
    IN  r[Len(events)]

Record(event) ==
    /\ log' = Append(log, event)
    /\ projected' = Apply(projected, event)
    /\ UNCHANGED <<turnVars, exploreVars, serverVars>>

Ran(c) == \E i \in DOMAIN log : log[i].id = c /\ log[i].type = "run"
Done(c) == \E i \in DOMAIN log : log[i].id = c /\ log[i].type = "done"

CommandRun(c, arg) ==
    /\ ~Ran(c)
    /\ Record([type |-> "run", id |-> c, arg |-> arg])

CommandDone(c) ==
    \E i \in DOMAIN log :
        /\ log[i].type = "run" /\ log[i].id = c
        /\ ~Done(c)
        /\ Record([type |-> "done", id |-> c, kind |-> Reply(log[i].arg)])

(* The command dies with the session before its handler returned.          *)
CommandLost(c) ==
    /\ Ran(c) /\ ~Done(c)
    /\ Record([type |-> "done", id |-> c, kind |-> "error"])

-----------------------------------------------------------------------------
(* Turns, the ordinary recall and its handoff.                             *)

Working(c) == explore[c].phase \in {"asking", "recalling", "exploring"}

Idle == [op |-> None, workspace |-> None, phase |-> None, was |-> FALSE]

FreeForTool ==
    /\ open
    /\ ~recall
    /\ tool.op = None
    /\ \A c \in Calls : Working(c) => aborted[c]

OpenTurn ==
    /\ ~open
    /\ turn < MaxTurns
    /\ \A c \in Calls : explore[c].phase # "asking"
    /\ turn' = turn + 1
    /\ open' = TRUE
    /\ asked' = 0
    /\ UNCHANGED <<modeVars, recall, handoff, decision, explore, aborted, serverVars>>

(* A turn that ends while a tool runs has been interrupted.                *)
EndTurn ==
    /\ open
    /\ open' = FALSE
    /\ aborted' = [c \in Calls |-> aborted[c] \/ Working(c)]
    /\ UNCHANGED <<modeVars, turn, recall, handoff, decision, asked, explore, serverVars>>

RecallStart ==
    /\ FreeForTool
    /\ recall' = TRUE
    /\ UNCHANGED <<modeVars, turnVars, handoff, decision, asked, explore,
                   aborted, serverVars>>

(* The turn is read after the wait: the handoff carries the turn that is   *)
(* open when the answer arrives, and none is made between turns.           *)
RecallAnswers ==
    /\ recall
    /\ recall' = FALSE
    /\ handoff' = IF open THEN turn ELSE handoff
    /\ UNCHANGED <<modeVars, turnVars, decision, asked, explore, aborted, serverVars>>

RecallFails ==
    /\ recall
    /\ recall' = FALSE
    /\ UNCHANGED <<modeVars, turnVars, handoff, decision, asked, explore,
                   aborted, serverVars>>

-----------------------------------------------------------------------------
(* magi_memory_explore: refusals change nothing and are the guards.        *)

Decided == decision # None /\ decision.turn = turn

ExploreBegin(c, hot) ==
    LET auto == FoldMode(log) = "auto"
    IN  /\ FreeForTool
        /\ explore[c].phase = "unused"
        /\ hot => handoff = turn
        /\ auto => hot /\ ~Decided
        /\ explore' = [explore EXCEPT ![c] =
              [phase |-> IF auto THEN "asking"
                         ELSE IF hot THEN "exploring" ELSE "recalling",
               turn |-> turn, auto |-> auto]]
        /\ asked' = IF auto THEN asked + 1 ELSE asked
        /\ UNCHANGED <<modeVars, turnVars, recall, handoff, decision, aborted, serverVars>>

Phase(c, from, to) ==
    /\ explore[c].phase = from
    /\ explore' = [explore EXCEPT ![c].phase = to]

(* Mutant: only an approval is remembered.                                 *)
DecideAllowed(c, outcome) ==
    /\ Phase(c, "asking", IF outcome = "allowed-once" THEN "exploring" ELSE "over")
    /\ decision' = IF outcome = "allowed-once"
                   THEN [turn |-> explore[c].turn, outcome |-> outcome] ELSE decision
    /\ UNCHANGED <<modeVars, turnVars, recall, handoff, asked, aborted, serverVars>>

Decide(c, outcome) ==
    /\ Phase(c, "asking", IF outcome = "allowed-once" THEN "exploring" ELSE "over")
    /\ decision' = [turn |-> explore[c].turn, outcome |-> outcome]
    /\ UNCHANGED <<modeVars, turnVars, recall, handoff, asked, aborted, serverVars>>

(* The approver gives up when the signal is aborted: nothing is recorded.  *)
ApprovalThrows(c) ==
    /\ aborted[c]
    /\ Phase(c, "asking", "over")
    /\ UNCHANGED <<modeVars, turnVars, recall, handoff, decision, asked,
                   aborted, serverVars>>

(* The cold recall is answered, or fails; the exploration ends.            *)
ExploreGoesOn(c) ==
    /\ \/ Phase(c, "recalling", "exploring")
       \/ Phase(c, "recalling", "over")
       \/ Phase(c, "exploring", "over")
    /\ UNCHANGED <<modeVars, turnVars, recall, handoff, decision, asked,
                   aborted, serverVars>>

-----------------------------------------------------------------------------
(* magi_workspace_create and magi_workspace_activate.                      *)

Calling(t) ==
    /\ tool' = t
    /\ UNCHANGED <<modeVars, turnVars, exploreVars, others>>

WorkspaceTool(op, w) ==
    /\ FreeForTool
    /\ Calling([op |-> op, workspace |-> w, was |-> active = w,
                phase |-> IF op = "create" THEN "creating" ELSE "listing"])
    /\ UNCHANGED <<exists, active>>

(* A new workspace is not active; an existing one is answered with 409.    *)
CreateAnswers ==
    /\ tool.phase = "creating"
    /\ IF tool.workspace \in exists
       THEN Calling([tool EXCEPT !.phase = "listing"]) /\ UNCHANGED exists
       ELSE /\ Calling([tool EXCEPT !.phase = "activating"])
            /\ exists' = exists \cup {tool.workspace}
    /\ UNCHANGED active

(* Mutant: a workspace that is listed is taken for the active one.         *)
ListAnswersListed ==
    /\ tool.phase = "listing"
    /\ tool.workspace \in exists
    /\ Calling([tool EXCEPT !.phase = "done"])
    /\ UNCHANGED <<exists, active>>

(* The list says if the workspace is active: if so there is nothing to do. *)
ListAnswers ==
    /\ tool.phase = "listing"
    /\ tool.workspace \in exists
    /\ Calling([tool EXCEPT !.phase =
                   IF active = tool.workspace THEN "done" ELSE "activating"])
    /\ UNCHANGED <<exists, active>>

ActivateAnswers ==
    /\ tool.phase = "activating"
    /\ tool.workspace \in exists
    /\ active' = tool.workspace
    /\ Calling([tool EXCEPT !.phase = "done", !.was = TRUE])
    /\ UNCHANGED exists

(* The workspace is not found, the request fails or is aborted.            *)
WorkspaceToolFails ==
    /\ tool.phase \in {"creating", "listing", "activating"}
    /\ Calling(Idle)
    /\ UNCHANGED <<exists, active>>

WorkspaceToolReturns ==
    /\ tool.phase = "done"
    /\ Calling(Idle)
    /\ UNCHANGED <<exists, active>>

(* Another client creates, activates or deletes a workspace, the last only *)
(* while it is not active.                                                 *)
OtherClient(w) ==
    /\ others < MaxOthers
    /\ others' = others + 1
    /\ \/ w \notin exists /\ exists' = exists \cup {w} /\ UNCHANGED active
       \/ w \in exists /\ active # w /\ active' = w /\ UNCHANGED exists
       \/ w \in exists /\ active # w /\ exists' = exists \ {w} /\ UNCHANGED active
    /\ tool' = [tool EXCEPT !.was = @ \/ (tool.op # None /\ active' = tool.workspace)]
    /\ UNCHANGED <<modeVars, turnVars, exploreVars>>

-----------------------------------------------------------------------------
Init ==
    /\ log \in Legacy
    /\ projected = Replayed(log)
    /\ turn = 0
    /\ open = FALSE
    /\ recall = FALSE
    /\ handoff = None
    /\ decision = None
    /\ asked = 0
    /\ explore = [c \in Calls |-> [phase |-> "unused", turn |-> 0, auto |-> FALSE]]
    /\ aborted = [c \in Calls |-> FALSE]
    /\ exists \in SUBSET Workspaces
    /\ active \in exists \cup {None}
    /\ others = 0
    /\ tool = Idle

Command(c) ==
    \/ \E arg \in Args : CommandRun(c, arg)
    \/ CommandDone(c)
    \/ CommandLost(c)

Exploring(c) ==
    \/ \E hot \in BOOLEAN : ExploreBegin(c, hot)
    \/ \E outcome \in Outcomes : Decide(c, outcome)
    \/ ApprovalThrows(c)
    \/ ExploreGoesOn(c)

Next ==
    \/ \E c \in Commands : Command(c)
    \/ OpenTurn \/ EndTurn
    \/ RecallStart \/ RecallAnswers \/ RecallFails
    \/ \E c \in Calls : Exploring(c)
    \/ \E op \in {"create", "activate"}, w \in Workspaces : WorkspaceTool(op, w)
    \/ CreateAnswers \/ ListAnswers \/ ActivateAnswers
    \/ WorkspaceToolFails \/ WorkspaceToolReturns
    \/ \E w \in Workspaces : OtherClient(w)

Spec == Init /\ [][Next]_vars

-----------------------------------------------------------------------------
TypeOK ==
    /\ log \in Seq(Events)
    /\ projected \in [mode : Modes, pending : [Commands -> Modes \cup {None}]]
    /\ turn \in 0 .. MaxTurns
    /\ open \in BOOLEAN /\ recall \in BOOLEAN
    /\ handoff \in 0 .. MaxTurns \cup {None}
    /\ decision \in [turn : 0 .. MaxTurns, outcome : Outcomes] \cup {None}
    /\ asked \in Nat
    /\ explore \in [Calls -> [phase : {"unused", "asking", "recalling", "exploring", "over"},
                              turn : 0 .. MaxTurns, auto : BOOLEAN]]
    /\ aborted \in [Calls -> BOOLEAN]
    /\ exists \in SUBSET Workspaces
    /\ active \in exists \cup {None}
    /\ others \in 0 .. MaxOthers
    /\ tool \in [op : {"create", "activate", None}, workspace : Workspaces \cup {None},
                 phase : Steps \cup {None}, was : BOOLEAN]

(* The mode the plugin folds from the log when a tool runs is the mode the *)
(* registered projection shows the host.                                   *)
ProjectionAgrees == projected.mode = FoldMode(log)

(* In auto mode the user is asked at most once in a turn, and nothing      *)
(* explores in the turn unless that answer allowed it.                     *)
ApprovedOnly ==
    /\ asked <= 1
    /\ \A c \in Calls :
          explore[c].auto /\ explore[c].turn = turn /\ explore[c].phase = "exploring"
          => decision = [turn |-> turn, outcome |-> "allowed-once"]

(* A workspace tool that reports success was right at some moment of the   *)
(* call: the workspace was the server's active one.                        *)
ActivatedMeanwhile == tool.phase = "done" => tool.was
=============================================================================
