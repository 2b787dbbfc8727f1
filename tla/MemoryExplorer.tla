--------------------------- MODULE MemoryExplorer ---------------------------
(***************************************************************************)
(* The exploration of the DSH plugin "magi-memo": a coordinator subagent   *)
(* that walks the graph or delegates to concurrent workers, all of them    *)
(* through the plugin's expand, describe and note tools.  When one may     *)
(* begin is the subject of MemorySession.                                  *)
(*                                                                         *)
(* The plugin is one JavaScript thread: an action runs from one await to   *)
(* the next.  A tool call that waits for MAGI keeps the context it found   *)
(* before the wait.  An owner is an entity {n} or a relation {m, n}.       *)
(*                                                                         *)
(* External, modelled from how the plugin uses them: the session host,     *)
(* which gives an agent one tool call at a time and aborts; the subagent   *)
(* provider, whose subagents make no call before they are registered;      *)
(* MAGI's answers, which are any.                                          *)
(***************************************************************************)
EXTENDS Naturals, FiniteSets

CONSTANTS
    Names,        \* entity names
    Coordinators, \* one for each call of magi_memory_explore
    Workers,      \* the subagents a delegate may start
    None,
    Shown,        \* bound: the owners a recall may show
    MaxCalls      \* bound, by agent: its graph tool calls

ASSUME ExplorerAssumption ==
    /\ None \notin Names \cup Coordinators \cup Workers
    /\ Coordinators \cap Workers = {}
    /\ Shown \subseteq {o \in SUBSET Names : Cardinality(o) \in {1, 2}}
    /\ MaxCalls \in [Coordinators \cup Workers -> Nat]
    /\ None \notin [tool : {"expand", "describe", "delegate"},
                   of : Coordinators \cup Workers, owner : SUBSET Names]

VARIABLES
    explore,    \* by coordinator: its magi_memory_explore call
    aborted,    \* by coordinator: exec.signal.aborted
    life,       \* by worker
    boss,       \* by worker: the coordinator that delegated to it
    context,    \* by agent: the object explorationAgents holds
    known,      \* keys of explorationAgents
    call,       \* by agent: the graph tool call that waits for MAGI
    calls,      \* by agent: how many calls it made
    batch,      \* by coordinator: workers of its last delegate call
    told        \* history, by agent: the owners it learned a note about

runVars == <<explore, aborted, life, boss, batch>>
graphVars == <<context, known, call, calls, told>>
vars == <<runVars, graphVars>>

Agents == Coordinators \cup Workers
Owners == {o \in SUBSET Names : Cardinality(o) \in {1, 2}}

-----------------------------------------------------------------------------
(* The call of the tool, once approved.                                    *)

Ends(o) == {{n} : n \in o}

NoSeeds == [visit |-> {}, findings |-> {}]

(* parseRecallSeeds, of a recall that shows one owner, with or without a   *)
(* description.                                                            *)
Seed(o, described) ==
    [visit |-> {o} \cup Ends(o), findings |-> IF described THEN {o} ELSE {}]

Seeds == {NoSeeds} \cup {Seed(o, described) : o \in Shown, described \in BOOLEAN}

Running == {"registering", "running"}
Working(c) == explore[c].phase \in {"starting", "disposing", "breaking"} \cup Running

(* The seeds are the turn's recall or that of a cold start: any.           *)
ExploreBegin(c, seeds, wide) ==
    /\ explore[c].phase = "unused"
    /\ \A d \in Coordinators : Working(d) => aborted[d]
    /\ explore' = [explore EXCEPT ![c] =
           [phase |-> "starting", wide |-> wide, seeds |-> seeds, answer |-> {}]]
    /\ UNCHANGED <<aborted, life, boss, batch, graphVars>>

(* The user interrupts the turn: the signal of the call is aborted.        *)
Interrupt(c) ==
    /\ Working(c)
    /\ ~aborted[c]
    /\ aborted' = [aborted EXCEPT ![c] = TRUE]
    /\ UNCHANGED <<explore, life, boss, batch, graphVars>>

Phase(c, from, to) ==
    /\ explore[c].phase = from
    /\ explore' = [explore EXCEPT ![c].phase = to]

StartFails(c) ==
    /\ Phase(c, "starting", "failed")
    /\ UNCHANGED <<aborted, life, boss, batch, graphVars>>

Fresh(seeds) == [visit |-> seeds.visit, findings |-> seeds.findings,
                 expanded |-> {}, pending |-> FALSE]

CoordinatorStart(c) ==
    /\ Phase(c, "starting", "registering")
    /\ context' = [context EXCEPT ![c] = Fresh(explore[c].seeds)]
    /\ known' = known \cup {c}
    /\ UNCHANGED <<aborted, life, boss, batch, call, calls, told>>

(* A trace that cannot be registered is only warned about.                 *)
TraceRegistered(c) ==
    /\ Phase(c, "registering", "running")
    /\ UNCHANGED <<aborted, life, boss, batch, graphVars>>

(* A subagent that settles on its own has no call in progress.             *)
MaySettle(a, c) == call[a] = None \/ aborted[c]

(* run.result settles, the findings are taken and the context is deleted.  *)
CoordinatorResolves(c) ==
    /\ explore[c].phase = "running"
    /\ MaySettle(c, c)
    /\ explore' = [explore EXCEPT ![c].phase = "disposing",
                                  ![c].answer = context[c].findings]
    /\ known' = known \ {c}
    /\ UNCHANGED <<aborted, life, boss, batch, context, call, calls, told>>

CoordinatorRejects(c) ==
    /\ MaySettle(c, c)
    /\ Phase(c, "running", "breaking")
    /\ known' = known \ {c}
    /\ UNCHANGED <<aborted, life, boss, batch, context, call, calls, told>>

CoordinatorDisposed(c) ==
    /\ \/ Phase(c, "disposing", "returned")
       \/ Phase(c, "breaking", "failed")
    /\ UNCHANGED <<aborted, life, boss, batch, graphVars>>

-----------------------------------------------------------------------------
(* The graph tools of a coordinator that explores alone and of a worker.   *)

Active(a) == IF a \in Coordinators THEN explore[a].phase \in Running
             ELSE life[a] = "running"

(* explorationForAgent                                                     *)
Holder(a) == IF a \in known THEN a
             ELSE IF a \in Workers /\ boss[a] \in known THEN boss[a]
             ELSE None

MayCall(a) ==
    /\ Active(a)
    /\ a \in Coordinators => ~explore[a].wide
    /\ Holder(a) # None
    /\ call[a] = None
    /\ calls[a] < MaxCalls[a]

(* Adds an owner and, with a note, a finding about it.                     *)
AddFinding(x, o, noted) ==
    [x EXCEPT !.visit = @ \cup {o} \cup Ends(o),
              !.findings = IF noted THEN @ \cup {o} ELSE @]

(* Mutant of Merged: the worker's findings replace the coordinator's.      *)
MergedOver(x, findings) ==
    [x EXCEPT !.visit = @ \cup findings \cup UNION {Ends(o) : o \in findings},
              !.findings = findings]

Merged(x, findings) ==
    [x EXCEPT !.visit = @ \cup findings \cup UNION {Ends(o) : o \in findings},
              !.findings = @ \cup findings]

(* Another frontier is refused while candidates wait for a describe, and   *)
(* a frontier once sent is never sent again, even if the request fails.    *)
ExpandSend(a, n) ==
    LET h == Holder(a)
    IN  /\ MayCall(a)
        /\ ~context[h].pending
        /\ n \notin context[h].expanded
        /\ context' = [context EXCEPT ![h].expanded = @ \cup {n}]
        /\ call' = [call EXCEPT ![a] = [tool |-> "expand", of |-> h, owner |-> {n}]]
        /\ calls' = [calls EXCEPT ![a] = @ + 1]
        /\ UNCHANGED <<runVars, known, told>>

ExpandAnswers(a, candidates) ==
    /\ call[a] # None /\ call[a].tool = "expand"
    /\ context' = [context EXCEPT ![call[a].of].pending = candidates]
    /\ call' = [call EXCEPT ![a] = None]
    /\ UNCHANGED <<runVars, known, calls, told>>

DescribeSend(a, o) ==
    /\ MayCall(a)
    /\ call' = [call EXCEPT ![a] = [tool |-> "describe", of |-> Holder(a), owner |-> o]]
    /\ calls' = [calls EXCEPT ![a] = @ + 1]
    /\ UNCHANGED <<runVars, context, known, told>>

(* The owner is described, known without a description, or not returned;   *)
(* a blank description adds nothing.                                       *)
DescribeAnswers(a, description) ==
    /\ call[a] # None /\ call[a].tool = "describe"
    /\ LET x == [context[call[a].of] EXCEPT !.pending = FALSE]
           o == call[a].owner
       IN  context' = [context EXCEPT ![call[a].of] =
               IF description = "nothing" THEN x
               ELSE AddFinding(x, o, description = "text")]
    /\ told' = IF description = "text"
               THEN [told EXCEPT ![a] = @ \cup {call[a].owner}] ELSE told
    /\ call' = [call EXCEPT ![a] = None]
    /\ UNCHANGED <<runVars, known, calls>>

CallFails(a) ==
    /\ call[a] # None /\ call[a].tool \in {"expand", "describe"}
    /\ call' = [call EXCEPT ![a] = None]
    /\ UNCHANGED <<runVars, context, known, calls, told>>

(* Notes do not wait for MAGI.                                             *)
Note(a, o) ==
    /\ MayCall(a)
    /\ context' = [context EXCEPT ![Holder(a)] = AddFinding(@, o, TRUE)]
    /\ told' = [told EXCEPT ![a] = @ \cup {o}]
    /\ calls' = [calls EXCEPT ![a] = @ + 1]
    /\ UNCHANGED <<runVars, known, call>>

-----------------------------------------------------------------------------
(* magi_memory_delegate.  A worker stands for its task, so a task is never *)
(* delegated twice.                                                        *)

Delegate(c, ws) ==
    /\ Active(c)
    /\ explore[c].wide
    /\ Holder(c) = c
    /\ call[c] = None
    /\ ws # {} /\ \A w \in ws : life[w] = "unused"
    /\ call' = [call EXCEPT ![c] = [tool |-> "delegate", of |-> c, owner |-> {}]]
    /\ batch' = [batch EXCEPT ![c] = ws]
    /\ life' = [w \in Workers |-> IF w \in ws THEN "starting" ELSE life[w]]
    /\ boss' = [w \in Workers |-> IF w \in ws THEN c ELSE boss[w]]
    /\ UNCHANGED <<explore, aborted, context, known, calls, told>>

Life(w, from, to) ==
    /\ life[w] = from
    /\ life' = [life EXCEPT ![w] = to]

WorkerStart(w) ==
    /\ Life(w, "starting", "running")
    /\ context' = [context EXCEPT ![w] =
           Fresh([visit |-> context[boss[w]].visit, findings |-> {}])]
    /\ known' = known \cup {w}
    /\ UNCHANGED <<explore, aborted, boss, batch, call, calls, told>>

(* An error is reported as an abnormal result, unless the call is aborted. *)
WorkerStartFails(w) ==
    /\ Life(w, "starting", IF aborted[boss[w]] THEN "threw" ELSE "failed")
    /\ UNCHANGED <<explore, aborted, boss, batch, graphVars>>

WorkerResolves(w) ==
    /\ Life(w, "running", "disposing")
    /\ MaySettle(w, boss[w])
    /\ context' = [context EXCEPT ![boss[w]] = Merged(@, context[w].findings)]
    /\ known' = known \ {w}
    /\ UNCHANGED <<explore, aborted, boss, batch, call, calls, told>>

(* Mutant: a worker that fails keeps its context.                          *)
WorkerRejectsHeld(w) ==
    /\ Life(w, "running", IF aborted[boss[w]] THEN "throwing" ELSE "failing")
    /\ MaySettle(w, boss[w])
    /\ UNCHANGED <<explore, aborted, boss, batch, graphVars>>

WorkerRejects(w) ==
    /\ Life(w, "running", IF aborted[boss[w]] THEN "throwing" ELSE "failing")
    /\ MaySettle(w, boss[w])
    /\ known' = known \ {w}
    /\ UNCHANGED <<explore, aborted, boss, batch, context, call, calls, told>>

WorkerDisposed(w) ==
    /\ \/ Life(w, "disposing", "merged")
       \/ Life(w, "failing", "failed")
       \/ Life(w, "throwing", "threw")
    /\ UNCHANGED <<explore, aborted, boss, batch, graphVars>>

(* Mutant: Promise.race.                                                   *)
DelegateSettlesEarly(c) ==
    /\ call[c] # None /\ call[c].tool = "delegate"
    /\ \E w \in batch[c] : life[w] \in {"merged", "failed", "threw"}
    /\ call' = [call EXCEPT ![c] = None]
    /\ UNCHANGED <<runVars, context, known, calls, told>>

(* Promise.all: the call returns when every worker has, or fails with the  *)
(* first that throws while the others go on.                               *)
DelegateSettles(c) ==
    /\ call[c] # None /\ call[c].tool = "delegate"
    /\ \/ \A w \in batch[c] : life[w] \in {"merged", "failed"}
       \/ \E w \in batch[c] : life[w] = "threw"
    /\ call' = [call EXCEPT ![c] = None]
    /\ UNCHANGED <<runVars, context, known, calls, told>>

-----------------------------------------------------------------------------
NotCalled == [phase |-> "unused", wide |-> FALSE, seeds |-> NoSeeds, answer |-> {}]

Init ==
    /\ explore = [c \in Coordinators |-> NotCalled]
    /\ aborted = [c \in Coordinators |-> FALSE]
    /\ life = [w \in Workers |-> "unused"]
    /\ boss = [w \in Workers |-> None]
    /\ batch = [c \in Coordinators |-> {}]
    /\ context = [a \in Agents |-> Fresh(NoSeeds)]
    /\ known = {}
    /\ call = [a \in Agents |-> None]
    /\ calls = [a \in Agents |-> 0]
    /\ told = [a \in Agents |-> {}]

Starting(c) ==
    \/ CoordinatorStart(c)
    \/ StartFails(c)

Settling(c) == CoordinatorResolves(c) \/ CoordinatorRejects(c)

Exploring(c) ==
    \/ \E seeds \in Seeds, wide \in BOOLEAN : ExploreBegin(c, seeds, wide)
    \/ Interrupt(c)
    \/ Starting(c)
    \/ TraceRegistered(c)
    \/ Settling(c)
    \/ CoordinatorDisposed(c)
    \/ \E ws \in SUBSET Workers : Delegate(c, ws)
    \/ DelegateSettles(c)

WorkerStarting(w) == WorkerStart(w) \/ WorkerStartFails(w)
WorkerSettling(w) == WorkerResolves(w) \/ WorkerRejects(w)

Answer(a) ==
    \/ \E candidates \in BOOLEAN : ExpandAnswers(a, candidates)
    \/ \E description \in {"text", "missing", "nothing"} : DescribeAnswers(a, description)
    \/ CallFails(a)

Graph(a) ==
    \/ \E n \in Names : ExpandSend(a, n)
    \/ \E o \in Owners : DescribeSend(a, o) \/ Note(a, o)
    \/ Answer(a)

Next ==
    \/ \E c \in Coordinators : Exploring(c)
    \/ \E w \in Workers : WorkerStarting(w) \/ WorkerSettling(w) \/ WorkerDisposed(w)
    \/ \E a \in Agents : Graph(a)

Spec == Init /\ [][Next]_vars

(* A request is answered or times out; a subagent has a token budget and   *)
(* the signal.                                                             *)
Fairness ==
    /\ \A c \in Coordinators :
          /\ WF_vars(Starting(c))
          /\ WF_vars(TraceRegistered(c))
          /\ WF_vars(Settling(c))
          /\ WF_vars(CoordinatorDisposed(c))
          /\ WF_vars(DelegateSettles(c))
    /\ \A w \in Workers :
          WF_vars(WorkerStarting(w)) /\ WF_vars(WorkerSettling(w)) /\ WF_vars(WorkerDisposed(w))
    /\ \A a \in Agents : WF_vars(Answer(a))

FairSpec == Spec /\ Fairness

-----------------------------------------------------------------------------
ContextType == [visit : SUBSET Owners, findings : SUBSET Owners,
                expanded : SUBSET Names, pending : BOOLEAN]

Phases == {"unused", "starting", "returned", "failed", "disposing", "breaking"}
          \cup Running

Lives == {"unused", "starting", "running", "disposing", "failing", "throwing",
          "merged", "failed", "threw"}

(* The variables have their types, and a finding is about an owner the     *)
(* agent has visited.                                                      *)
TypeOK ==
    /\ explore \in [Coordinators ->
          [phase : Phases, wide : BOOLEAN,
           seeds : [visit : SUBSET Owners, findings : SUBSET Owners],
           answer : SUBSET Owners]]
    /\ aborted \in [Coordinators -> BOOLEAN]
    /\ life \in [Workers -> Lives]
    /\ boss \in [Workers -> Coordinators \cup {None}]
    /\ batch \in [Coordinators -> SUBSET Workers]
    /\ context \in [Agents -> ContextType]
    /\ \A a \in Agents : context[a].findings \subseteq context[a].visit
    /\ known \subseteq Agents
    /\ calls \in [Agents -> Nat]
    /\ told \in [Agents -> SUBSET Owners]

Team(c) == {w \in Workers : boss[w] = c}

(* The findings an exploration returns are the seeds' and everything its   *)
(* coordinator and the workers that came back with a result noted, no      *)
(* matter in which order the workers end: nothing is lost or added.        *)
ReportsAll ==
    \A c \in Coordinators :
        explore[c].phase \in {"disposing", "returned"} /\ ~aborted[c] =>
            explore[c].answer =
                explore[c].seeds.findings \cup told[c]
                \cup UNION {told[w] : w \in {v \in Team(c) : life[v] = "merged"}}

(* An exploration that was not aborted returns with no agent of its own    *)
(* registered or still at work.                                            *)
CleanReturn ==
    \A c \in Coordinators :
        explore[c].phase = "returned" /\ ~aborted[c] =>
            /\ c \notin known
            /\ \A w \in Team(c) : w \notin known /\ life[w] \in {"merged", "failed"}

(* Every exploration that started ends, and releases the contexts of its   *)
(* coordinator and of all its workers, those left behind by an abort too.  *)
Released ==
    \A c \in Coordinators :
        explore[c].phase \in Running ~>
            /\ explore[c].phase \in {"returned", "failed"}
            /\ known \cap ({c} \cup Team(c)) = {}
=============================================================================
