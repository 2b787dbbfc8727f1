------------------------- MODULE MemorySessionProofs -------------------------
(***************************************************************************)
(* Proofs about a session of the DSH plugin: the approval an exploration   *)
(* needs in auto mode, and the report of a workspace tool, which need      *)
(* nothing of the memory mode's log; then the log, read in two ways, and   *)
(* with all three the type of every variable.                              *)
(***************************************************************************)
EXTENDS MemorySession, Integers, SequenceTheorems, WellFoundedInduction, TLAPS

ExploreType ==
    [phase : {"unused", "asking", "recalling", "exploring", "over"},
     turn : 0 .. MaxTurns, auto : BOOLEAN]

ApprovalType ==
    /\ turn \in 0 .. MaxTurns
    /\ open \in BOOLEAN
    /\ asked \in Nat
    /\ decision \in [turn : 0 .. MaxTurns, outcome : Outcomes] \cup {None}
    /\ explore \in [Calls -> ExploreType]
    /\ aborted \in [Calls -> BOOLEAN]

Asking(c) == explore[c].phase = "asking"

(* A call that asks is of the current turn and alone, and an answer of the *)
(* turn comes after it; an interrupted one asks only between turns.        *)
Asks ==
    /\ \A c \in Calls : Asking(c) =>
          /\ explore[c].turn = turn
          /\ ~Decided
          /\ asked = 1
          /\ aborted[c] => ~open
    /\ \A c, d \in Calls : Asking(c) /\ Asking(d) => c = d
    /\ \A c \in Calls : explore[c].phase = "unused" => ~aborted[c]

(* In an open turn every approval that was requested is pending or known.  *)
Accounted ==
    /\ asked <= 1
    /\ open /\ asked = 1 => Decided \/ \E c \in Calls : Asking(c)

(* Nothing is of a turn to come; a cold start is not of auto mode.         *)
Dated ==
    /\ \A c \in Calls :
          /\ explore[c].turn <= turn
          /\ explore[c].phase = "recalling" => ~explore[c].auto
    /\ decision # None => decision.turn <= turn

ApprovalInvariant ==
    ApprovalType /\ Asks /\ Accounted /\ Dated /\ ApprovedOnly

-----------------------------------------------------------------------------
(* The approval.                                                           *)

LEMMA ApprovalStarts == Init => ApprovalInvariant
  <1> SUFFICES ASSUME Init
               PROVE  ApprovalInvariant
    OBVIOUS
  <1>1. /\ turn = 0 /\ open = FALSE /\ asked = 0 /\ decision = None
        /\ explore \in [Calls -> ExploreType] /\ aborted \in [Calls -> BOOLEAN]
        /\ \A c \in Calls :
              /\ explore[c].phase = "unused" /\ explore[c].turn = 0 /\ ~explore[c].auto
              /\ ~aborted[c]
    <2>1. 0 \in 0 .. MaxTurns
      BY SessionAssumption DEF SessionAssumption
    <2>2. [phase |-> "unused", turn |-> 0, auto |-> FALSE] \in ExploreType
      BY <2>1 DEF ExploreType
    <2>3. explore = [c \in Calls |-> [phase |-> "unused", turn |-> 0, auto |-> FALSE]]
      BY DEF Init
    <2>4. aborted = [c \in Calls |-> FALSE]
      BY DEF Init
    <2>5. explore \in [Calls -> ExploreType] /\ aborted \in [Calls -> BOOLEAN]
      BY <2>2, <2>3, <2>4
    <2>6. turn = 0 /\ open = FALSE /\ asked = 0 /\ decision = None
      BY DEF Init
    <2> QED
      BY <2>3, <2>4, <2>5, <2>6
  <1>2. ApprovalType
    <2>1. MaxTurns \in Nat
      BY SessionAssumption DEF SessionAssumption
    <2>2. turn \in 0 .. MaxTurns /\ asked \in Nat
      BY <1>1, <2>1
    <2>3. open \in BOOLEAN
      BY <1>1
    <2>4. decision \in [turn : 0 .. MaxTurns, outcome : Outcomes] \cup {None}
      BY <1>1
    <2> QED
      BY <1>1, <2>2, <2>3, <2>4 DEF ApprovalType
  <1>3. Asks
    BY <1>1 DEF Asks, Asking
  <1>4. Accounted /\ Dated /\ ApprovedOnly
    BY <1>1 DEF Accounted, Dated, ApprovedOnly
  <1> QED
    BY <1>2, <1>3, <1>4 DEF ApprovalInvariant

LEMMA ApprovalLeft ==
    ASSUME ApprovalInvariant, UNCHANGED <<turnVars, decision, asked, explore, aborted>>
    PROVE  ApprovalInvariant'
  BY DEF ApprovalInvariant, ApprovalType, ExploreType, Asks, Asking, Accounted, Dated,
         ApprovedOnly, Decided, turnVars

LEMMA OpenTurnKeeps == ApprovalInvariant /\ OpenTurn => ApprovalInvariant'
  <1> SUFFICES ASSUME ApprovalInvariant, OpenTurn
               PROVE  ApprovalInvariant'
    OBVIOUS
  <1> USE DEF ApprovalInvariant, OpenTurn
  <1>1. ApprovalType' /\ turn' = turn + 1 /\ turn \in Nat
    BY SessionAssumption DEF SessionAssumption, ApprovalType
  <1>2. \A c \in Calls : ~Asking(c)'
    BY DEF Asking
  <1>3. \A c \in Calls : explore'[c].turn <= turn /\ explore'[c].turn \in Nat
    BY DEF Dated, ApprovalType, ExploreType
  <1>4. Dated'
    BY <1>1, <1>3 DEF Dated, ApprovalType
  <1>5. ApprovedOnly'
    BY <1>1, <1>3 DEF ApprovedOnly
  <1> QED
    BY <1>1, <1>2, <1>4, <1>5 DEF Asks, Accounted

LEMMA EndTurnKeeps == ApprovalInvariant /\ EndTurn => ApprovalInvariant'
  BY DEF ApprovalInvariant, ApprovalType, ExploreType, Asks, Asking, Accounted, Dated,
         ApprovedOnly, Decided, EndTurn, Working

(* A tool that begins finds no approval pending: an interrupted one would  *)
(* have closed the turn.                                                   *)
LEMMA NobodyAsks == ApprovalInvariant /\ FreeForTool => \A c \in Calls : ~Asking(c)
  BY DEF ApprovalInvariant, Asks, Asking, FreeForTool, Working

LEMMA ExploreBeginKeeps ==
    ASSUME ApprovalInvariant, NEW c \in Calls, NEW hot \in BOOLEAN, ExploreBegin(c, hot)
    PROVE  ApprovalInvariant'
  <1> DEFINE auto == FoldMode(log) = "auto"
             new == [phase |-> IF auto THEN "asking"
                               ELSE IF hot THEN "exploring" ELSE "recalling",
                     turn |-> turn, auto |-> auto]
  <1>1. /\ \A d \in Calls : ~Asking(d)
        /\ explore' = [explore EXCEPT ![c] = new]
        /\ new.turn = turn /\ new.auto = auto /\ new.auto \in BOOLEAN
        /\ new.phase = IF auto THEN "asking" ELSE IF hot THEN "exploring" ELSE "recalling"
        /\ asked' = IF auto THEN asked + 1 ELSE asked
        /\ auto => ~Decided
        /\ UNCHANGED <<turn, open, decision, aborted>>
        /\ open /\ ~Decided => asked = 0
        /\ open
    BY NobodyAsks DEF ExploreBegin, ApprovalInvariant, Accounted, turnVars, FreeForTool,
       ApprovalType
  <1> HIDE DEF auto
  <1>2. new \in ExploreType
    BY <1>1 DEF ExploreType, ApprovalInvariant, ApprovalType
  <1> HIDE DEF new
  <1>3. \A d \in Calls : explore'[d] = IF d = c THEN new ELSE explore[d]
    BY <1>1 DEF ApprovalInvariant, ApprovalType
  <1>4. ApprovalType'
    BY <1>1, <1>2 DEF ApprovalInvariant, ApprovalType
  <1>5. ~aborted[c] /\ new.phase # "unused"
    BY <1>1 DEF ApprovalInvariant, Asks, ExploreBegin
  <1>6. Asks'
    BY <1>1, <1>3, <1>5 DEF Asks, Asking, Decided, ApprovalInvariant
  <1>7. Accounted'
    BY <1>1, <1>3 DEF Accounted, Asking, Decided, ApprovalInvariant
  <1>8. Dated'
    BY <1>1, <1>3 DEF Dated, ApprovalInvariant, ApprovalType
  <1>9. ApprovedOnly'
    BY <1>1, <1>3, <1>7 DEF ApprovedOnly, Accounted, ApprovalInvariant
  <1> QED
    BY <1>4, <1>6, <1>7, <1>8, <1>9 DEF ApprovalInvariant

(* An approval is answered, or its phase ends without an answer.           *)
LEMMA DecideKeeps ==
    ASSUME ApprovalInvariant, NEW c \in Calls, NEW outcome \in Outcomes, Decide(c, outcome)
    PROVE  ApprovalInvariant'
  <1>1. /\ Asking(c)
        /\ explore[c].turn = turn
        /\ ~Decided
        /\ decision' = [turn |-> turn, outcome |-> outcome]
        /\ UNCHANGED <<turn, open, asked, aborted>>
    BY DEF Decide, Phase, ApprovalInvariant, Asks, Asking, turnVars
  <1>2. \A d \in Calls :
            /\ explore'[d].turn = explore[d].turn /\ explore'[d].auto = explore[d].auto
            /\ explore'[d].phase = IF d # c THEN explore[d].phase
                                   ELSE IF outcome = "allowed-once" THEN "exploring" ELSE "over"
    BY DEF Decide, Phase, ApprovalInvariant, ApprovalType, ExploreType
  <1>3. ApprovalType'
    BY <1>1 DEF Decide, Phase, ApprovalInvariant, ApprovalType, ExploreType
  <1>4. \A d \in Calls : ~Asking(d)'
    BY <1>1, <1>2 DEF Asking, ApprovalInvariant, Asks
  <1>5. Decided' /\ decision' # None /\ decision'.turn = turn
    BY <1>1, SessionAssumption DEF Decided, SessionAssumption, ApprovalInvariant, ApprovalType
  <1>6. ApprovedOnly'
    <2>1. \A d \in Calls :
            ~(explore[d].auto /\ explore[d].turn = turn /\ explore[d].phase = "exploring")
      <3>1. [turn |-> turn, outcome |-> "allowed-once"]
              \in [turn : 0 .. MaxTurns, outcome : Outcomes]
        BY DEF ApprovalInvariant, ApprovalType, Outcomes
      <3>2. [turn |-> turn, outcome |-> "allowed-once"] # None
        BY <3>1, SessionAssumption DEF SessionAssumption
      <3> QED
        BY <1>1, <3>2 DEF ApprovedOnly, ApprovalInvariant, Decided
    <2> QED
      BY <1>1, <1>2, <2>1 DEF ApprovedOnly, ApprovalInvariant
  <1>7. Dated'
    BY <1>1, <1>2, <1>5 DEF Dated, ApprovalInvariant, ApprovalType
  <1> QED
    BY <1>1, <1>2, <1>3, <1>4, <1>5, <1>6, <1>7 DEF ApprovalInvariant, Asks, Accounted

LEMMA ThrowsKeeps ==
    ASSUME ApprovalInvariant, NEW c \in Calls, ApprovalThrows(c)
    PROVE  ApprovalInvariant'
  <1>1. ~open /\ UNCHANGED <<turn, open, decision, asked, aborted>>
    BY DEF ApprovalThrows, Phase, ApprovalInvariant, Asks, Asking, turnVars
  <1>2. \A d \in Calls :
            /\ explore'[d].turn = explore[d].turn /\ explore'[d].auto = explore[d].auto
            /\ explore'[d].phase = IF d # c THEN explore[d].phase ELSE "over"
    BY DEF ApprovalThrows, Phase, ApprovalInvariant, ApprovalType, ExploreType
  <1>3. ApprovalType'
    BY <1>1 DEF ApprovalThrows, Phase, ApprovalInvariant, ApprovalType, ExploreType
  <1> QED
    BY <1>1, <1>2, <1>3
    DEF ApprovalInvariant, Asks, Asking, Accounted, Dated, ApprovedOnly, Decided

LEMMA GoesOnKeeps ==
    ASSUME ApprovalInvariant, NEW c \in Calls, ExploreGoesOn(c)
    PROVE  ApprovalInvariant'
  <1>1. UNCHANGED <<turn, open, decision, asked, aborted>>
    BY DEF ExploreGoesOn, turnVars
  <1>2. /\ explore[c].phase \in {"recalling", "exploring"}
        /\ explore'[c].phase \in {"exploring", "over"}
        /\ explore[c].phase = "exploring" => explore'[c].phase = "over"
        /\ \A d \in Calls :
            /\ explore'[d].turn = explore[d].turn /\ explore'[d].auto = explore[d].auto
            /\ d # c => explore'[d].phase = explore[d].phase
    BY DEF ExploreGoesOn, Phase, ApprovalInvariant, ApprovalType, ExploreType
  <1>3. ApprovalType'
    BY <1>1 DEF ExploreGoesOn, Phase, ApprovalInvariant, ApprovalType, ExploreType
  <1>4. \A d \in Calls : Asking(d)' <=> Asking(d)
    BY <1>2 DEF Asking
  <1>5. Dated' /\ ApprovedOnly'
    BY <1>1, <1>2 DEF ApprovalInvariant, Dated, ApprovedOnly
  <1> QED
    BY <1>1, <1>2, <1>3, <1>4, <1>5 DEF ApprovalInvariant, Asks, Accounted, Decided

LEMMA ApprovalSteps == ApprovalInvariant /\ [Next]_vars => ApprovalInvariant'
  <1> SUFFICES ASSUME ApprovalInvariant, [Next]_vars
               PROVE  ApprovalInvariant'
    OBVIOUS
  <1>1. CASE \E c \in Commands : Command(c)
    BY <1>1, ApprovalLeft DEF Command, CommandRun, CommandDone, CommandLost, Record, exploreVars
  <1>2. CASE RecallStart \/ RecallAnswers \/ RecallFails
    BY <1>2, ApprovalLeft DEF RecallStart, RecallAnswers, RecallFails
  <1>3. CASE \E op \in {"create", "activate"}, w \in Workspaces : WorkspaceTool(op, w)
    BY <1>3, ApprovalLeft DEF WorkspaceTool, Calling, exploreVars
  <1>4. CASE CreateAnswers \/ ListAnswers \/ ActivateAnswers
    BY <1>4, ApprovalLeft DEF CreateAnswers, ListAnswers, ActivateAnswers, Calling, exploreVars
  <1>5. CASE WorkspaceToolFails \/ WorkspaceToolReturns
    BY <1>5, ApprovalLeft DEF WorkspaceToolFails, WorkspaceToolReturns, Calling, exploreVars
  <1>6. CASE \E w \in Workspaces : OtherClient(w)
    BY <1>6, ApprovalLeft DEF OtherClient, exploreVars
  <1>7. CASE \E c \in Calls : Exploring(c)
    BY <1>7, ExploreBeginKeeps, DecideKeeps, ThrowsKeeps, GoesOnKeeps DEF Exploring
  <1>8. CASE UNCHANGED vars
    BY <1>8, ApprovalLeft DEF vars, exploreVars
  <1> QED
    BY <1>1, <1>2, <1>3, <1>4, <1>5, <1>6, <1>7, <1>8, OpenTurnKeeps, EndTurnKeeps DEF Next

(* In auto mode the user is asked at most once in a turn, and an           *)
(* exploration of the turn runs only if the answer allowed it, for any     *)
(* number of turns, calls and interruptions.                               *)
THEOREM NothingUnapproved == Spec => []ApprovedOnly
  <1>1. ApprovalInvariant => ApprovedOnly
    BY DEF ApprovalInvariant
  <1> QED
    BY <1>1, ApprovalStarts, ApprovalSteps, PTL DEF Spec

-----------------------------------------------------------------------------
(* The workspace tools.                                                    *)

(* A tool under way remembers if its workspace has been active; only one   *)
(* under way has a phase.                                                  *)
ToolInvariant ==
    /\ tool \in [op : {"create", "activate", None}, workspace : Workspaces \cup {None},
                 phase : Steps \cup {None}, was : BOOLEAN]
    /\ tool.phase # None => tool.op # None
    /\ tool.op # None /\ active = tool.workspace => tool.was
    /\ ActivatedMeanwhile

LEMMA ToolStarts == Init => ToolInvariant
  BY SessionAssumption
  DEF SessionAssumption, Init, Idle, ToolInvariant, ActivatedMeanwhile, Steps

LEMMA ToolSteps == ToolInvariant /\ [Next]_vars => ToolInvariant'
  <1> SUFFICES ASSUME ToolInvariant, [Next]_vars
               PROVE  ToolInvariant'
    OBVIOUS
  <1> USE SessionAssumption DEF SessionAssumption, ToolInvariant, ActivatedMeanwhile, Steps
  <1>1. CASE UNCHANGED serverVars
    BY <1>1 DEF serverVars
  <1>2. ASSUME NEW op \in {"create", "activate"}, NEW w \in Workspaces, WorkspaceTool(op, w)
        PROVE  ToolInvariant'
    BY <1>2 DEF WorkspaceTool, Calling
  <1>3. CASE CreateAnswers
    BY <1>3 DEF CreateAnswers, Calling
  <1>4. CASE ListAnswers
    BY <1>4 DEF ListAnswers, Calling
  <1>5. CASE ActivateAnswers
    BY <1>5 DEF ActivateAnswers, Calling
  <1>6. CASE WorkspaceToolFails \/ WorkspaceToolReturns
    <2>1. tool' = [op |-> None, workspace |-> None, phase |-> None, was |-> FALSE]
      BY <1>6 DEF WorkspaceToolFails, WorkspaceToolReturns, Calling, Idle
    <2>2. None # "done"
      OBVIOUS
    <2>3. tool'.phase = None /\ tool'.op = None
      BY <2>1
    <2>4. tool' \in [op : {"create", "activate", None}, workspace : Workspaces \cup {None},
                     phase : Steps \cup {None}, was : BOOLEAN]
      BY <2>1
    <2> QED
      BY <2>2, <2>3, <2>4
  <1>7. ASSUME NEW w \in Workspaces, OtherClient(w)
        PROVE  ToolInvariant'
    BY <1>7 DEF OtherClient
  <1>8. CASE \E c \in Commands : Command(c)
    BY <1>1, <1>8 DEF Command, CommandRun, CommandDone, CommandLost, Record
  <1>9. CASE OpenTurn \/ EndTurn \/ RecallStart \/ RecallAnswers \/ RecallFails
    BY <1>1, <1>9 DEF OpenTurn, EndTurn, RecallStart, RecallAnswers, RecallFails
  <1>10. CASE \E c \in Calls : Exploring(c)
    BY <1>1, <1>10 DEF Exploring, ExploreBegin, Decide, ApprovalThrows, ExploreGoesOn
  <1>11. CASE UNCHANGED vars
    BY <1>1, <1>11 DEF vars
  <1> QED
    BY <1>2, <1>3, <1>4, <1>5, <1>6, <1>7, <1>8, <1>9, <1>10, <1>11 DEF Next

(* A workspace tool reports success only if its workspace was active at    *)
(* some moment of the call, whatever other clients did meanwhile.          *)
THEOREM ReportsAreTrue == Spec => []ActivatedMeanwhile
  <1>1. ToolInvariant => ActivatedMeanwhile
    BY DEF ToolInvariant
  <1> QED
    BY <1>1, ToolStarts, ToolSteps, PTL DEF Spec

-----------------------------------------------------------------------------
(* The mode.                                                               *)

States == [mode : Modes, pending : [Commands -> Modes \cup {None}]]

(* foldMemoryMode and the registered projection make the same of an event: *)
(* an outcome of a command that chose no mode changes nothing in either.   *)
LEMMA EventsAlike ==
    ASSUME NEW state \in States, NEW event \in Events
    PROVE  FoldEvent(state, event) \in States /\ Apply(state, event) = FoldEvent(state, event)
<1>1. state = [mode |-> state.mode, pending |-> state.pending]
  BY DEF States
<1>2. /\ None \notin Modes /\ "auto" \in Modes
      /\ state.mode \in Modes /\ state.pending \in [Commands -> Modes \cup {None}]
      /\ event.id \in Commands
  BY SessionAssumption DEF States, Events, Modes
<1>3. CASE event.type = "run"
  <2>1. ParsedLogged(event.arg) \in Modes \cup {None}
    BY <1>2 DEF ParsedLogged, Parsed
  <2>2. CASE ParsedLogged(event.arg) = None
    BY <1>3, <2>2 DEF FoldEvent, Apply
  <2>3. CASE ParsedLogged(event.arg) # None
    <3>1. FoldEvent(state, event) = [state EXCEPT !.pending[event.id] = ParsedLogged(event.arg)]
      BY <1>3, <2>3 DEF FoldEvent
    <3>2. Apply(state, event) = [state EXCEPT !.pending[event.id] = ParsedLogged(event.arg)]
      BY <1>3, <2>3 DEF Apply
    <3>3. FoldEvent(state, event) =
             [mode |-> state.mode,
              pending |-> [state.pending EXCEPT ![event.id] = ParsedLogged(event.arg)]]
      BY <1>1, <3>1
    <3> QED BY <1>2, <2>1, <3>2, <3>1, <3>3 DEF States
  <2> QED BY <2>2, <2>3
<1>4. CASE event.type # "run"
  <2> DEFINE selected == state.pending[event.id]
             cleared == [state.pending EXCEPT ![event.id] = None]
  <2>1. FoldEvent(state, event) =
           [mode |-> IF selected # None /\ event.kind = "success" THEN selected ELSE state.mode,
            pending |-> cleared]
    BY <1>4 DEF FoldEvent
  <2>2. selected \in Modes \cup {None} /\ cleared \in [Commands -> Modes \cup {None}]
    BY <1>2
  <2>3. FoldEvent(state, event) \in States
    BY <1>2, <2>1, <2>2 DEF States
  <2>4. CASE selected = None
    <3>1. cleared = state.pending
      BY <1>2, <2>4
    <3>2. Apply(state, event) = state
      BY <1>4, <2>4 DEF Apply
    <3> QED BY <1>1, <2>1, <2>3, <2>4, <3>1, <3>2
  <2>5. CASE selected # None
    <3>1. Apply(state, event) =
             [mode |-> IF event.kind = "success" THEN selected ELSE state.mode,
              pending |-> cleared]
      BY <1>4, <2>5 DEF Apply
    <3> QED BY <2>1, <2>3, <2>5, <3>1
  <2> QED BY <2>4, <2>5
<1> QED BY <1>3, <1>4

(* A set of numbers that is not empty has a least one: with it a recursion *)
(* is reasoned about without an induction rule.                            *)
LEMMA Least ==
    ASSUME NEW T \in SUBSET Nat, T # {}
    PROVE  \E n \in T : \A m \in T : ~(m < n)
<1> DEFINE R == OpToRel(<, Nat)
<1>1. \E x \in T : \A y \in T : ~(<<y, x>> \in R)
  <2>1. IsWellFoundedOn(R, Nat)  BY NatLessThanWellFounded
  <2> QED BY <2>1, WFMin
<1>2. \A x, y \in Nat : x < y => <<x, y>> \in R  BY DEF OpToRel
<1> QED BY <1>1, <1>2

(* r is the recursion of foldMemoryMode over the first n events of s.      *)
Folding(r, n, s) ==
    r = [k \in 0 .. n |-> IF k = 0 THEN NoMode("auto") ELSE FoldEvent(r[k - 1], s[k])]

(* That recursion is a function of its own for every n.                    *)
LEMMA FoldingThere ==
    ASSUME NEW s, NEW n \in Nat
    PROVE  \E r : Folding(r, n, s)
<1> DEFINE T == {k \in Nat : ~ \E r : Folding(r, k, s)}
<1>1. SUFFICES ASSUME T # {} PROVE FALSE
  OBVIOUS
<1>2. PICK k \in T : \A m \in T : ~(m < k)
  BY <1>1, Least
<1>3. CASE k = 0
  <2>1. Folding([j \in 0 .. 0 |-> NoMode("auto")], 0, s)
    BY DEF Folding
  <2> QED BY <1>2, <1>3, <2>1
<1>4. CASE k # 0
  <2>1. k \in Nat /\ k - 1 \in Nat /\ k - 1 < k
    BY <1>2, <1>4
  <2>2. PICK q : Folding(q, k - 1, s)
    BY <1>2, <2>1
  <2> DEFINE r == [j \in 0 .. k |-> IF j = k THEN FoldEvent(q[k - 1], s[k]) ELSE q[j]]
  <2>3. \A j \in 0 .. (k - 1) : r[j] = q[j]
    BY <2>1
  <2>4. \A j \in 0 .. (k - 1) :
           q[j] = IF j = 0 THEN NoMode("auto") ELSE FoldEvent(q[j - 1], s[j])
    BY <2>2 DEF Folding
  <2>5. \A j \in 0 .. k :
           r[j] = IF j = 0 THEN NoMode("auto") ELSE FoldEvent(r[j - 1], s[j])
    <3> SUFFICES ASSUME NEW j \in 0 .. k
                 PROVE  r[j] = IF j = 0 THEN NoMode("auto") ELSE FoldEvent(r[j - 1], s[j])
      OBVIOUS
    <3>1. CASE j = k
      <4>1. r[j] = FoldEvent(q[k - 1], s[k]) BY <3>1
      <4>2. r[k - 1] = q[k - 1] BY <2>1, <2>3
      <4> QED BY <3>1, <4>1, <4>2, <1>4
    <3>2. CASE j # k
      <4>1. j \in 0 .. (k - 1) BY <2>1, <3>2
      <4>2. j # 0 => j - 1 \in 0 .. (k - 1) BY <4>1, <2>1
      <4>3. r[j] = q[j] /\ (j # 0 => r[j - 1] = q[j - 1]) BY <4>1, <4>2, <2>3
      <4> QED BY <4>1, <4>3, <2>4
    <3> QED BY <3>1, <3>2
  <2>6. r = [j \in 0 .. k |-> r[j]]
    OBVIOUS
  <2> HIDE DEF r
  <2>7. Folding(r, k, s)
    BY <2>5, <2>6 DEF Folding
  <2> QED BY <1>2, <2>7
<1> QED BY <1>3, <1>4

(* Folded is its last value.                                               *)
LEMMA FoldedIs ==
    ASSUME NEW s \in Seq(Events)
    PROVE  \E r : Folding(r, Len(s), s) /\ Folded(s) = r[Len(s)]
<1> DEFINE r == CHOOSE r : Folding(r, Len(s), s)
<1>1. Folding(r, Len(s), s)
  BY FoldingThere
<1>2. Folded(s) = r[Len(s)]
  BY DEF Folded, Folding
<1> QED BY <1>1, <1>2

(* Logs that agree so far are read alike so far.                           *)
LEMMA FoldingsAgree ==
    ASSUME NEW n \in Nat, NEW m \in Nat, n <= m, NEW s, NEW t, NEW q, NEW r,
           \A k \in 1 .. n : s[k] = t[k],
           Folding(q, n, s), Folding(r, m, t)
    PROVE  q[n] = r[n]
<1> DEFINE T == {k \in 0 .. n : q[k] # r[k]}
<1>1. SUFFICES ASSUME T # {} PROVE FALSE
  OBVIOUS
<1>2. PICK k \in T : \A j \in T : ~(j < k)
  <2>1. T \in SUBSET Nat OBVIOUS
  <2> QED BY <1>1, <2>1, Least
<1>3. k \in 0 .. n /\ k \in 0 .. m
  BY <1>2
<1>4. /\ q[k] = IF k = 0 THEN NoMode("auto") ELSE FoldEvent(q[k - 1], s[k])
      /\ r[k] = IF k = 0 THEN NoMode("auto") ELSE FoldEvent(r[k - 1], t[k])
  BY <1>3 DEF Folding
<1>5. CASE k = 0
  BY <1>2, <1>4, <1>5
<1>6. CASE k # 0
  <2>1. k - 1 \in 0 .. n /\ k - 1 < k /\ k \in 1 .. n
    BY <1>3, <1>6
  <2>2. q[k - 1] = r[k - 1]
    BY <1>2, <2>1
  <2> QED BY <1>2, <1>4, <1>6, <2>1, <2>2
<1> QED BY <1>5, <1>6

(* One event more is one step of the reading more.                         *)
LEMMA FoldedAppend ==
    ASSUME NEW s \in Seq(Events), NEW event \in Events
    PROVE  Folded(Append(s, event)) = FoldEvent(Folded(s), event)
<1> DEFINE n == Len(s)
           t == Append(s, event)
<1>1. /\ t \in Seq(Events) /\ Len(t) = n + 1 /\ n \in Nat
      /\ t[n + 1] = event /\ \A k \in 1 .. n : s[k] = t[k]
  BY AppendProperties
<1>2. PICK q : Folding(q, n, s) /\ Folded(s) = q[n]
  BY FoldedIs
<1>3. PICK r : Folding(r, n + 1, t) /\ Folded(t) = r[n + 1]
  BY <1>1, FoldedIs
<1> HIDE DEF n, t
<1>4. n + 1 \in Nat /\ n <= n + 1 /\ n \in 0 .. n /\ (n + 1) - 1 = n
      /\ n + 1 \in 0 .. (n + 1) /\ n + 1 # 0 /\ n \in Nat
  BY <1>1
<1>5. q[n] = r[n]
  <2> DEFINE m == n + 1
  <2>1. n \in Nat /\ m \in Nat /\ n <= m
    BY <1>4
  <2>2. \A k \in 1 .. n : s[k] = t[k]
    BY <1>1
  <2>3. Folding(q, n, s) /\ Folding(r, m, t)
    BY <1>2, <1>3
  <2> HIDE DEF m
  <2> QED BY <2>1, <2>2, <2>3, FoldingsAgree
<1>6. r[n + 1] = FoldEvent(r[(n + 1) - 1], t[n + 1])
  BY <1>3, <1>4 DEF Folding
<1> QED BY <1>1, <1>2, <1>3, <1>4, <1>5, <1>6 DEF n, t

(* The host's reading of a whole log is foldMemoryMode's.                  *)
LEMMA ReplayedIsFolded ==
    ASSUME NEW s \in Seq(Events)
    PROVE  Replayed(s) = Folded(s) /\ Folded(s) \in States
<1> DEFINE n == Len(s)
<1>1. n \in Nat /\ \A k \in 1 .. n : s[k] \in Events
  OBVIOUS
<1>2. PICK r : Folding(r, n, s) /\ Folded(s) = r[n]
  BY FoldedIs
<1>3. \A k \in 0 .. n : r[k] \in States
  <2> DEFINE T == {k \in 0 .. n : r[k] \notin States}
  <2>1. SUFFICES ASSUME T # {} PROVE FALSE
    OBVIOUS
  <2>2. PICK k \in T : \A j \in T : ~(j < k)
    <3>1. T \in SUBSET Nat OBVIOUS
    <3> QED BY <2>1, <3>1, Least
  <2>3. k \in 0 .. n /\ r[k] = IF k = 0 THEN NoMode("auto") ELSE FoldEvent(r[k - 1], s[k])
    BY <1>2, <2>2 DEF Folding
  <2>4. CASE k = 0
    BY <2>2, <2>3, <2>4 DEF NoMode, States, Modes
  <2>5. CASE k # 0
    <3>1. k - 1 \in 0 .. n /\ k - 1 < k /\ k \in 1 .. n
      BY <1>1, <2>3, <2>5
    <3>2. r[k - 1] \in States /\ s[k] \in Events
      BY <1>1, <2>2, <3>1
    <3>3. FoldEvent(r[k - 1], s[k]) \in States
      BY <3>2, EventsAlike
    <3> QED BY <2>2, <2>3, <2>5, <3>3
  <2> QED BY <2>4, <2>5
<1> DEFINE Replaying(f) ==
               f = [k \in 0 .. n |-> IF k = 0 THEN NoMode("auto") ELSE Apply(f[k - 1], s[k])]
           p == CHOOSE f : Replaying(f)
<1>4. Replaying(r)
  <2>1. \A k \in 0 .. n :
           r[k] = IF k = 0 THEN NoMode("auto") ELSE Apply(r[k - 1], s[k])
    <3> SUFFICES ASSUME NEW k \in 0 .. n
                 PROVE  r[k] = IF k = 0 THEN NoMode("auto") ELSE Apply(r[k - 1], s[k])
      OBVIOUS
    <3>1. r[k] = IF k = 0 THEN NoMode("auto") ELSE FoldEvent(r[k - 1], s[k])
      BY <1>2 DEF Folding
    <3>2. ASSUME k # 0
          PROVE  Apply(r[k - 1], s[k]) = FoldEvent(r[k - 1], s[k])
      <4>1. k - 1 \in 0 .. n /\ k \in 1 .. n
        BY <1>1, <3>2
      <4>2. r[k - 1] \in States /\ s[k] \in Events
        BY <1>1, <1>3, <4>1
      <4> QED BY <4>2, EventsAlike
    <3> QED BY <3>1, <3>2
  <2>2. r = [k \in 0 .. n |-> r[k]]
    BY <1>2 DEF Folding
  <2> QED BY <2>1, <2>2
<1>5. Replaying(p)
  BY <1>4
<1>6. Replayed(s) = p[n]
  BY DEF Replayed
<1> HIDE DEF p
<1>7. p[n] = r[n]
  <2> DEFINE T == {k \in 0 .. n : p[k] # r[k]}
  <2>1. T = {}
    <3>1. SUFFICES ASSUME T # {} PROVE FALSE
      OBVIOUS
    <3>2. PICK k \in T : \A j \in T : ~(j < k)
      <4>1. T \in SUBSET Nat OBVIOUS
      <4> QED BY <3>1, <4>1, Least
    <3>3. /\ k \in 0 .. n
          /\ p[k] = IF k = 0 THEN NoMode("auto") ELSE Apply(p[k - 1], s[k])
          /\ r[k] = IF k = 0 THEN NoMode("auto") ELSE Apply(r[k - 1], s[k])
      BY <1>4, <1>5, <3>2
    <3>4. CASE k = 0
      BY <3>2, <3>3, <3>4
    <3>5. CASE k # 0
      <4>1. k - 1 \in 0 .. n /\ k - 1 < k
        BY <1>1, <3>3, <3>5
      <4>2. p[k - 1] = r[k - 1]
        BY <3>2, <4>1
      <4> QED BY <3>2, <3>3, <3>5, <4>2
    <3> QED BY <3>4, <3>5
  <2> QED BY <1>1, <2>1
<1> QED BY <1>1, <1>2, <1>3, <1>6, <1>7

(* The projection of the host is foldMemoryMode of the log, with all that  *)
(* is pending and not only its mode.                                       *)
LogInvariant == log \in Seq(Events) /\ projected = Folded(log) /\ projected \in States

LEMMA LogStarts == Init => LogInvariant
  BY SessionAssumption, ReplayedIsFolded DEF Init, LogInvariant

(* An event that is logged is applied by the host in the same moment.      *)
LEMMA RecordKeeps ==
    ASSUME LogInvariant, NEW event \in Events, Record(event)
    PROVE  LogInvariant'
<1>1. log' = Append(log, event) /\ projected' = Apply(projected, event)
  BY DEF Record
<1>2. log' \in Seq(Events)
  BY <1>1, AppendProperties DEF LogInvariant
<1>3. Folded(log') = FoldEvent(Folded(log), event)
  BY <1>1, FoldedAppend DEF LogInvariant
<1>4. Apply(projected, event) = FoldEvent(projected, event) /\ FoldEvent(projected, event) \in States
  BY EventsAlike DEF LogInvariant
<1> QED BY <1>1, <1>2, <1>3, <1>4 DEF LogInvariant

LEMMA CommandKeeps ==
    ASSUME LogInvariant, NEW c \in Commands, Command(c)
    PROVE  LogInvariant'
<1>1. ASSUME NEW arg \in Args, CommandRun(c, arg)
      PROVE  LogInvariant'
  <2>1. [type |-> "run", id |-> c, arg |-> arg] \in Events
    BY DEF Events
  <2> QED BY <1>1, <2>1, RecordKeeps DEF CommandRun
<1>2. ASSUME NEW kind \in {"success", "error"},
             Record([type |-> "done", id |-> c, kind |-> kind])
      PROVE  LogInvariant'
  <2>1. [type |-> "done", id |-> c, kind |-> kind] \in Events
    BY DEF Events
  <2> QED BY <1>2, <2>1, RecordKeeps
<1>3. CASE CommandDone(c)
  <2>1. PICK i \in DOMAIN log : Record([type |-> "done", id |-> c, kind |-> Reply(log[i].arg)])
    BY <1>3 DEF CommandDone
  <2>2. Reply(log[i].arg) \in {"success", "error"}
    BY DEF Reply
  <2> QED BY <1>2, <2>1, <2>2
<1>4. CASE CommandLost(c)
  BY <1>2, <1>4 DEF CommandLost
<1> QED BY <1>1, <1>3, <1>4 DEF Command

LEMMA LogSteps == LogInvariant /\ [Next]_vars => LogInvariant'
<1> SUFFICES ASSUME LogInvariant, [Next]_vars
             PROVE  LogInvariant'
  OBVIOUS
<1>1. ASSUME UNCHANGED modeVars
      PROVE  LogInvariant'
  BY <1>1 DEF LogInvariant, modeVars
<1>2. ASSUME NEW c \in Commands, Command(c)
      PROVE  LogInvariant'
  BY <1>2, CommandKeeps
<1>3. ASSUME NEW c \in Calls, Exploring(c)
      PROVE  UNCHANGED modeVars
  BY <1>3 DEF Exploring, ExploreBegin, Decide, ApprovalThrows, ExploreGoesOn
<1>4. ASSUME \/ OpenTurn \/ EndTurn \/ RecallStart \/ RecallAnswers \/ RecallFails
             \/ CreateAnswers \/ ListAnswers \/ ActivateAnswers
             \/ WorkspaceToolFails \/ WorkspaceToolReturns
      PROVE  UNCHANGED modeVars
  BY <1>4 DEF OpenTurn, EndTurn, RecallStart, RecallAnswers, RecallFails, CreateAnswers,
              ListAnswers, ActivateAnswers, WorkspaceToolFails, WorkspaceToolReturns, Calling
<1>5. ASSUME NEW op, NEW w, WorkspaceTool(op, w) \/ OtherClient(w)
      PROVE  UNCHANGED modeVars
  BY <1>5 DEF WorkspaceTool, OtherClient, Calling
<1>6. CASE UNCHANGED vars
  BY <1>1, <1>6 DEF vars
<1> QED BY <1>1, <1>2, <1>3, <1>4, <1>5, <1>6 DEF Next

(* On every prefix of the log, the mode the plugin acts on is the one the  *)
(* host shows, whatever commands succeed, fail or get lost.                *)
THEOREM ModesAgree == Spec => []ProjectionAgrees
<1>1. LogInvariant => ProjectionAgrees
  BY DEF LogInvariant, ProjectionAgrees, FoldMode
<1> QED BY <1>1, LogStarts, LogSteps, PTL DEF Spec

-----------------------------------------------------------------------------
(* The types.                                                              *)

(* What the invariants above say nothing of: the recall, the workspaces,   *)
(* and that a tool under way has one.                                      *)
ServerInvariant ==
    /\ recall \in BOOLEAN
    /\ handoff \in 0 .. MaxTurns \cup {None}
    /\ exists \in SUBSET Workspaces
    /\ active \in exists \cup {None}
    /\ others \in 0 .. MaxOthers
    /\ tool.phase # None => tool.workspace \in Workspaces

LEMMA ServerStarts == Init => ServerInvariant
  <1> SUFFICES ASSUME Init
               PROVE  ServerInvariant
    OBVIOUS
  <1>1. recall = FALSE /\ handoff = None /\ tool.phase = None
    BY DEF Init, Idle
  <1>2. exists \in SUBSET Workspaces /\ active \in exists \cup {None} /\ others \in 0 .. MaxOthers
    BY SessionAssumption DEF Init
  <1> QED
    BY <1>1, <1>2 DEF ServerInvariant

(* The tools of the server, and other clients: nobody deletes the active   *)
(* workspace, nor activates one that is not there.                         *)
LEMMA ToolsKeep ==
    ASSUME ServerInvariant, ToolInvariant,
           \/ \E op \in {"create", "activate"}, w \in Workspaces : WorkspaceTool(op, w)
           \/ CreateAnswers \/ ListAnswers \/ ActivateAnswers
           \/ WorkspaceToolFails \/ WorkspaceToolReturns
    PROVE  ServerInvariant'
  <1> USE SessionAssumption
  <1>0. UNCHANGED <<recall, handoff, others>>
    BY DEF WorkspaceTool, CreateAnswers, ListAnswers, ActivateAnswers, WorkspaceToolFails,
           WorkspaceToolReturns, Calling, exploreVars
  <1>1. ASSUME NEW op \in {"create", "activate"}, NEW w \in Workspaces, WorkspaceTool(op, w)
        PROVE  ServerInvariant'
    <2>1. tool'.workspace = w /\ w \in Workspaces /\ exists' = exists /\ active' = active
      BY <1>1 DEF WorkspaceTool, Calling
    <2> QED
      BY <1>0, <2>1 DEF ServerInvariant
  <1>2. CASE CreateAnswers
    <2>1. tool.workspace \in Workspaces
      BY <1>2 DEF CreateAnswers, ServerInvariant, Steps
    <2>2. tool'.workspace = tool.workspace
      BY <1>2 DEF CreateAnswers, Calling, ToolInvariant
    <2>3. active' = active /\ exists' \in {exists, exists \cup {tool.workspace}}
      BY <1>2 DEF CreateAnswers
    <2> QED
      BY <1>0, <2>1, <2>2, <2>3 DEF ServerInvariant
  <1>3. CASE ListAnswers
    BY <1>0, <1>3 DEF ListAnswers, Calling, ServerInvariant, ToolInvariant, Steps
  <1>4. CASE ActivateAnswers
    BY <1>0, <1>4 DEF ActivateAnswers, Calling, ServerInvariant, ToolInvariant, Steps
  <1>5. CASE WorkspaceToolFails \/ WorkspaceToolReturns
    BY <1>0, <1>5 DEF WorkspaceToolFails, WorkspaceToolReturns, Calling, Idle, ServerInvariant
  <1> QED
    BY <1>1, <1>2, <1>3, <1>4, <1>5

LEMMA OthersKeep ==
    ASSUME ServerInvariant, ToolInvariant, NEW w \in Workspaces, OtherClient(w)
    PROVE  ServerInvariant'
  <1>1. recall' = recall /\ handoff' = handoff
    BY DEF OtherClient, exploreVars
  <1>2. others' \in 0 .. MaxOthers
    BY SessionAssumption DEF OtherClient, ServerInvariant
  <1>3. tool'.phase = tool.phase /\ tool'.workspace = tool.workspace
    BY DEF OtherClient, ToolInvariant
  <1>4. exists' \in SUBSET Workspaces /\ active' \in exists' \cup {None}
    BY DEF OtherClient, ServerInvariant
  <1> QED
    BY <1>1, <1>2, <1>3, <1>4 DEF ServerInvariant

LEMMA ServerSteps ==
    ApprovalInvariant /\ ToolInvariant /\ ServerInvariant /\ [Next]_vars => ServerInvariant'
  <1> SUFFICES ASSUME ApprovalInvariant, ToolInvariant, ServerInvariant, [Next]_vars
               PROVE  ServerInvariant'
    OBVIOUS
  <1>1. ASSUME UNCHANGED <<recall, handoff, serverVars>>
        PROVE  ServerInvariant'
    BY <1>1 DEF ServerInvariant, serverVars
  <1>2. ASSUME NEW c \in Commands, Command(c)
        PROVE  ServerInvariant'
    BY <1>1, <1>2 DEF Command, CommandRun, CommandDone, CommandLost, Record, exploreVars
  <1>3. CASE OpenTurn \/ EndTurn
    BY <1>1, <1>3 DEF OpenTurn, EndTurn
  <1>4. CASE RecallStart \/ RecallAnswers \/ RecallFails
    BY <1>4 DEF RecallStart, RecallAnswers, RecallFails, ServerInvariant, serverVars,
                ApprovalInvariant, ApprovalType
  <1>5. CASE \E c \in Calls : Exploring(c)
    BY <1>1, <1>5 DEF Exploring, ExploreBegin, Decide, ApprovalThrows, ExploreGoesOn
  <1>6. CASE UNCHANGED vars
    BY <1>1, <1>6 DEF vars, exploreVars
  <1> QED
    BY <1>2, <1>3, <1>4, <1>5, <1>6, ToolsKeep, OthersKeep DEF Next

(* Every variable of the plugin stays in its domain, for any commands,     *)
(* calls and workspaces: the server's active workspace exists, and a       *)
(* handoff is of a turn there has been.                                    *)
THEOREM SessionTyped == Spec => []TypeOK
  <1> DEFINE Inv == ApprovalInvariant /\ ToolInvariant /\ LogInvariant /\ ServerInvariant
  <1>1. Init => Inv
    BY ApprovalStarts, ToolStarts, LogStarts, ServerStarts
  <1>2. Inv /\ [Next]_vars => Inv'
    BY ApprovalSteps, ToolSteps, LogSteps, ServerSteps
  <1>3. Inv => TypeOK
    BY DEF ApprovalInvariant, ApprovalType, ExploreType, ToolInvariant, LogInvariant, States,
           ServerInvariant, TypeOK
  <1> QED
    BY <1>1, <1>2, <1>3, PTL DEF Spec
=============================================================================
