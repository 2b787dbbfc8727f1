------------------------ MODULE MemoryExplorerProofs ------------------------
(***************************************************************************)
(* An exploration that is not aborted reports all that was found for it    *)
(* and leaves nobody behind, for any number of coordinators, workers,      *)
(* calls and owners.                                                       *)
(***************************************************************************)
EXTENDS MemoryExplorer, FiniteSetTheorems, TLAPS

CallType == [tool : {"expand", "describe", "delegate"}, of : Agents, owner : SUBSET Names]

Waits(c) == call[c] # None /\ call[c].tool = "delegate"

(* Every call is answered into the context of the agent that made it.      *)
CallShape ==
    /\ call \in [Agents -> CallType \cup {None}]
    /\ \A a \in Agents : call[a] # None => call[a].of = a
    /\ \A a \in Agents : call[a] # None /\ call[a].tool = "describe" => call[a].owner \in Owners
    /\ \A w \in Workers : call[w] # None => call[w].tool # "delegate"

(* What was found for coordinator c: the seeds, its own notes, and those   *)
(* of its workers in one of these lives.                                   *)
Learned(c, o, lives) ==
    \/ o \in explore[c].seeds.findings
    \/ o \in told[c]
    \/ \E w \in Workers : boss[w] = c /\ life[w] \in lives /\ o \in told[w]

WorkerInvariant(w) ==
    /\ w \in known <=> life[w] = "running"
    /\ life[w] = "unused" <=> boss[w] = None
    /\ life[w] \in {"unused", "starting"} => told[w] = {} /\ call[w] = None
    /\ life[w] = "running" => context[w].findings = told[w]
    /\ life[w] # "unused" /\ ~aborted[boss[w]] =>
        /\ life[w] \notin {"throwing", "threw"}
        /\ life[w] # "running" => call[w] = None

(* A coordinator that is not aborted has workers at work only while it     *)
(* waits for them; what it will report grows with what they note.          *)
CoordinatorInvariant(c) ==
    /\ explore[c].seeds.findings \subseteq explore[c].seeds.visit
    /\ c \in known <=> explore[c].phase \in Running
    /\ explore[c].phase \in {"unused", "starting"} =>
        told[c] = {} /\ call[c] = None /\ \A w \in Workers : boss[w] # c
    /\ ~aborted[c] =>
        /\ explore[c].phase \notin Running => call[c] = None
        /\ Waits(c) => \A w \in batch[c] : boss[w] = c
        /\ \A w \in Workers :
              boss[w] = c => life[w] \in {"merged", "failed"} \/ (Waits(c) /\ w \in batch[c])
        /\ explore[c].phase \in Running =>
            \A o \in Owners :
                o \in context[c].findings <=> Learned(c, o, {"disposing", "merged"})
        /\ explore[c].phase \in {"disposing", "returned"} =>
            \A o \in Owners : o \in explore[c].answer <=> Learned(c, o, {"merged"})

ExplorerInvariant ==
    /\ TypeOK
    /\ CallShape
    /\ \A w \in Workers : WorkerInvariant(w)
    /\ \A c \in Coordinators : CoordinatorInvariant(c)

-----------------------------------------------------------------------------
(* Types.                                                                  *)

(* The ends of an owner are owners themselves.                             *)
LEMMA EndsAreOwners == \A o \in Owners : o \subseteq Names /\ Ends(o) \subseteq Owners
  <1> SUFFICES ASSUME NEW o \in Owners, NEW n \in o
               PROVE  o \subseteq Names /\ {n} \in Owners
    BY DEF Ends, Owners
  <1>1. Cardinality({n}) = 1
    BY FS_Singleton
  <1> QED
    BY <1>1 DEF Owners

LEMMA NamesAreOwners == \A n \in Names : {n} \in Owners
  BY FS_Singleton DEF Owners

FindingSets == [visit : SUBSET Owners, findings : SUBSET Owners]

LEMMA SeedsTyped == \A s \in Seeds : s \in FindingSets /\ s.findings \subseteq s.visit
  <1> SUFFICES ASSUME NEW s \in Seeds
               PROVE  s \in FindingSets /\ s.findings \subseteq s.visit
    OBVIOUS
  <1>1. CASE s = NoSeeds
    BY <1>1 DEF NoSeeds, FindingSets
  <1>2. ASSUME NEW o \in Shown, NEW described \in BOOLEAN, s = Seed(o, described)
        PROVE  s \in FindingSets /\ s.findings \subseteq s.visit
    <2>1. o \in Owners
      BY ExplorerAssumption DEF Owners
    <2>2. {o} \cup Ends(o) \subseteq Owners
      BY <2>1, EndsAreOwners
    <2> QED
      BY <1>2, <2>1, <2>2 DEF Seed, FindingSets
  <1> QED
    BY <1>1, <1>2 DEF Seeds

(* A context that is started, told of an owner or merged is a context, and *)
(* what it has found it has visited.                                       *)
Sound(x) == x \in ContextType /\ x.findings \subseteq x.visit

LEMMA FreshSound ==
    ASSUME NEW s \in FindingSets, s.findings \subseteq s.visit
    PROVE  Sound(Fresh(s)) /\ Fresh(s).findings = s.findings
  BY DEF Fresh, Sound, ContextType, FindingSets

LEMMA AddFindingSound ==
    ASSUME NEW x, Sound(x), NEW o \in Owners, NEW noted \in BOOLEAN
    PROVE  /\ Sound(AddFinding(x, o, noted))
           /\ AddFinding(x, o, noted).findings =
                 IF noted THEN x.findings \cup {o} ELSE x.findings
  <1>1. {o} \cup Ends(o) \subseteq Owners
    BY EndsAreOwners
  <1> QED
    BY <1>1 DEF AddFinding, Sound, ContextType

LEMMA MergedSound ==
    ASSUME NEW x, Sound(x), NEW fs \in SUBSET Owners
    PROVE  Sound(Merged(x, fs)) /\ Merged(x, fs).findings = x.findings \cup fs
  <1>1. UNION {Ends(o) : o \in fs} \subseteq Owners
    BY EndsAreOwners
  <1> QED
    BY <1>1 DEF Merged, Sound, ContextType

(* What an agent holds is its own context: only an agent that is not       *)
(* registered would use its coordinator's.                                 *)
Registered ==
    /\ \A c \in Coordinators : c \in known <=> explore[c].phase \in Running
    /\ \A w \in Workers : w \in known <=> life[w] = "running"

LEMMA OwnContext ==
    ASSUME Registered, NEW a \in Agents, MayCall(a)
    PROVE  a \in known /\ Holder(a) = a /\ call[a] = None
  BY DEF Registered, MayCall, Active, Holder, Agents

-----------------------------------------------------------------------------
(* Everything a call, its answer or a note does, of an agent with its own  *)
(* context: its findings grow by what it is told, and nothing else does.   *)

Learns(a, x, new) ==
    /\ x \in ContextType /\ x.findings \subseteq x.visit
    /\ x.findings = context[a].findings \cup new
    /\ context' = [context EXCEPT ![a] = x]
    /\ told' = [told EXCEPT ![a] = @ \cup new]

Calls(a, c) ==
    /\ c # None => /\ a \in known /\ c \in CallType /\ c.of = a /\ c.tool # "delegate"
                   /\ c.tool = "describe" => c.owner \in Owners
    /\ call' = [call EXCEPT ![a] = c]

GraphEffect(a) ==
    /\ UNCHANGED <<explore, aborted, life, boss, batch, known>>
    /\ a \in known \/ call[a] # None
    /\ ~Waits(a)
    /\ calls' \in [Agents -> Nat]
    /\ \E c \in CallType \cup {None} : Calls(a, c)
    /\ \E x \in ContextType, new \in SUBSET Owners : Learns(a, x, new)

(* Nothing is learnt.                                                      *)
LEMMA LearnsNothing ==
    ASSUME TypeOK, NEW a \in Agents, NEW x \in ContextType,
           x.findings = context[a].findings, x.findings \subseteq x.visit,
           context' = [context EXCEPT ![a] = x], told' = told
    PROVE  \E y \in ContextType, new \in SUBSET Owners : Learns(a, y, new)
  <1>1. told' = [told EXCEPT ![a] = @ \cup {}]
    BY DEF TypeOK
  <1>2. Learns(a, x, {})
    BY <1>1 DEF Learns
  <1> QED
    BY <1>2

LEMMA GraphHasEffect ==
    ASSUME TypeOK, CallShape, Registered, NEW a \in Agents, Graph(a)
    PROVE  GraphEffect(a)
  <1> USE DEF CallShape
  <1>0. /\ context \in [Agents -> ContextType] /\ told \in [Agents -> SUBSET Owners]
        /\ calls \in [Agents -> Nat]
        /\ context[a] \in ContextType /\ context[a].findings \subseteq context[a].visit
    BY DEF TypeOK
  <1>1. ASSUME NEW n \in Names, ExpandSend(a, n)
        PROVE  GraphEffect(a)
    <2> DEFINE x == [context[a] EXCEPT !.expanded = @ \cup {n}]
               c == [tool |-> "expand", of |-> a, owner |-> {n}]
    <2>1. a \in known /\ Holder(a) = a /\ call[a] = None
      BY <1>1, OwnContext DEF ExpandSend
    <2>2. /\ context' = [context EXCEPT ![a] = x] /\ told' = told
          /\ x \in ContextType /\ x.findings = context[a].findings /\ x.visit = context[a].visit
      BY <1>0, <1>1, <2>1 DEF ExpandSend, ContextType
    <2>3. \E y \in ContextType, new \in SUBSET Owners : Learns(a, y, new)
      BY <1>0, <2>2, LearnsNothing
    <2>4. c \in CallType /\ Calls(a, c)
      BY <1>1, <2>1 DEF ExpandSend, Calls, CallType
    <2>5. calls' \in [Agents -> Nat] /\ UNCHANGED <<explore, aborted, life, boss, batch, known>>
      BY <1>0, <1>1 DEF ExpandSend, runVars
    <2> QED
      BY <2>1, <2>3, <2>4, <2>5 DEF GraphEffect, Waits
  <1>2. ASSUME NEW candidates \in BOOLEAN, ExpandAnswers(a, candidates)
        PROVE  GraphEffect(a)
    <2> DEFINE x == [context[a] EXCEPT !.pending = candidates]
    <2>1. call[a] # None /\ call[a].of = a /\ ~Waits(a)
      BY <1>2 DEF ExpandAnswers, Waits
    <2>2. /\ context' = [context EXCEPT ![a] = x] /\ told' = told
          /\ x \in ContextType /\ x.findings = context[a].findings /\ x.visit = context[a].visit
      BY <1>0, <1>2, <2>1 DEF ExpandAnswers, ContextType
    <2>3. \E y \in ContextType, new \in SUBSET Owners : Learns(a, y, new)
      BY <1>0, <2>2, LearnsNothing
    <2>4. Calls(a, None)
      BY <1>2 DEF ExpandAnswers, Calls
    <2>5. calls' \in [Agents -> Nat] /\ UNCHANGED <<explore, aborted, life, boss, batch, known>>
      BY <1>0, <1>2 DEF ExpandAnswers, runVars
    <2> QED
      BY <2>1, <2>3, <2>4, <2>5 DEF GraphEffect
  <1>3. ASSUME NEW o \in Owners, DescribeSend(a, o)
        PROVE  GraphEffect(a)
    <2> DEFINE c == [tool |-> "describe", of |-> a, owner |-> o]
    <2>1. a \in known /\ Holder(a) = a /\ call[a] = None
      BY <1>3, OwnContext DEF DescribeSend
    <2>2. context' = [context EXCEPT ![a] = context[a]] /\ told' = told
      BY <1>0, <1>3 DEF DescribeSend
    <2>3. \E y \in ContextType, new \in SUBSET Owners : Learns(a, y, new)
      BY <1>0, <2>2, LearnsNothing
    <2>4. c \in CallType /\ Calls(a, c)
      BY <1>3, <2>1, EndsAreOwners DEF DescribeSend, Calls, CallType
    <2>5. calls' \in [Agents -> Nat] /\ UNCHANGED <<explore, aborted, life, boss, batch, known>>
      BY <1>0, <1>3 DEF DescribeSend, runVars
    <2> QED
      BY <2>1, <2>3, <2>4, <2>5 DEF GraphEffect, Waits
  <1>4. ASSUME NEW description \in {"text", "missing", "nothing"}, DescribeAnswers(a, description)
        PROVE  GraphEffect(a)
    <2> DEFINE x == [context[a] EXCEPT !.pending = FALSE]
               o == call[a].owner
               noted == description = "text"
               y == IF description = "nothing" THEN x ELSE AddFinding(x, o, noted)
               new == IF noted THEN {o} ELSE {}
    <2>1. call[a] # None /\ call[a].of = a /\ call[a].tool = "describe" /\ ~Waits(a)
      BY <1>4 DEF DescribeAnswers, Waits
    <2>2. Sound(x) /\ x.findings = context[a].findings
      BY <1>0 DEF Sound, ContextType
    <2>3. o \in Owners
      BY <2>1 DEF CallShape
    <2>4. Sound(y) /\ y.findings = context[a].findings \cup new
      <3>1. noted \in BOOLEAN
        OBVIOUS
      <3>2. /\ Sound(AddFinding(x, o, noted))
            /\ AddFinding(x, o, noted).findings =
                  IF noted THEN x.findings \cup {o} ELSE x.findings
        BY ZenonT(60), <2>2, <2>3, <3>1, AddFindingSound
      <3> QED
        BY <2>2, <3>2
    <2>5. context' = [context EXCEPT ![a] = y]
      BY <1>4, <2>1 DEF DescribeAnswers
    <2>6. told' = [told EXCEPT ![a] = @ \cup new]
      BY <1>0, <1>4 DEF DescribeAnswers
    <2>7. Learns(a, y, new) /\ y \in ContextType /\ new \in SUBSET Owners
      BY <2>3, <2>4, <2>5, <2>6 DEF Learns, Sound
    <2>8. Calls(a, None)
      BY <1>4 DEF DescribeAnswers, Calls
    <2>9. calls' \in [Agents -> Nat] /\ UNCHANGED <<explore, aborted, life, boss, batch, known>>
      BY <1>0, <1>4 DEF DescribeAnswers, runVars
    <2> HIDE DEF y, new
    <2> QED
      BY <2>1, <2>7, <2>8, <2>9 DEF GraphEffect
  <1>5. CASE CallFails(a)
    <2>1. call[a] # None /\ ~Waits(a)
      BY <1>5 DEF CallFails, Waits
    <2>2. context' = [context EXCEPT ![a] = context[a]] /\ told' = told
      BY <1>0, <1>5 DEF CallFails
    <2>3. \E y \in ContextType, new \in SUBSET Owners : Learns(a, y, new)
      BY <1>0, <2>2, LearnsNothing
    <2>4. Calls(a, None)
      BY <1>5 DEF CallFails, Calls
    <2>5. calls' \in [Agents -> Nat] /\ UNCHANGED <<explore, aborted, life, boss, batch, known>>
      BY <1>0, <1>5 DEF CallFails, runVars
    <2> QED
      BY <2>1, <2>3, <2>4, <2>5 DEF GraphEffect
  <1>6. ASSUME NEW o \in Owners, Note(a, o)
        PROVE  GraphEffect(a)
    <2> DEFINE y == AddFinding(context[a], o, TRUE)
    <2>1. a \in known /\ Holder(a) = a /\ call[a] = None
      BY <1>6, OwnContext DEF Note
    <2>2. Sound(y) /\ y.findings = context[a].findings \cup {o}
      BY ZenonT(60), <1>0, AddFindingSound DEF Sound
    <2>3. context' = [context EXCEPT ![a] = y] /\ told' = [told EXCEPT ![a] = @ \cup {o}]
      BY <1>6, <2>1 DEF Note
    <2>4. Learns(a, y, {o}) /\ y \in ContextType /\ {o} \in SUBSET Owners
      BY <2>2, <2>3 DEF Learns, Sound
    <2>5. Calls(a, None)
      BY <1>6, <2>1 DEF Note, Calls
    <2>6. calls' \in [Agents -> Nat] /\ UNCHANGED <<explore, aborted, life, boss, batch, known>>
      BY <1>0, <1>6 DEF Note, runVars
    <2> HIDE DEF y
    <2> QED
      BY <2>1, <2>4, <2>5, <2>6 DEF GraphEffect, Waits
  <1> QED
    BY <1>1, <1>2, <1>3, <1>4, <1>5, <1>6 DEF Graph, Answer

-----------------------------------------------------------------------------
(* Frames: what a step leaves alone keeps its invariant.                   *)

WorkerUntouched(w) ==
    /\ life'[w] = life[w] /\ boss'[w] = boss[w] /\ told'[w] = told[w]
    /\ call'[w] = call[w] /\ context'[w].findings = context[w].findings
    /\ w \in known' <=> w \in known

Aborting == \A c \in Coordinators : aborted[c] => aborted'[c]

LEMMA WorkerFrame ==
    ASSUME NEW w \in Workers, WorkerInvariant(w), WorkerUntouched(w), Aborting,
           boss[w] \in Coordinators \cup {None}
    PROVE  WorkerInvariant(w)'
  BY DEF WorkerInvariant, WorkerUntouched, Aborting

(* The notes of workers that are still at work do not count yet.           *)
Back == {"disposing", "merged"}

TeamUntouched(c) ==
    \A w \in Workers :
        boss[w] = c \/ boss'[w] = c =>
            /\ life'[w] = life[w] /\ boss'[w] = boss[w]
            /\ ~aborted[c] /\ life[w] \in Back => told'[w] = told[w]

LEMMA LearnedFrame ==
    ASSUME NEW c \in Coordinators, TeamUntouched(c), ~aborted[c],
           explore'[c] = explore[c], told'[c] = told[c], NEW o, NEW lives \in SUBSET Back
    PROVE  Learned(c, o, lives)' <=> Learned(c, o, lives)
  BY DEF TeamUntouched, Learned

CoordinatorUntouched(c) ==
    /\ explore'[c] = explore[c] /\ told'[c] = told[c]
    /\ call'[c] = call[c] /\ batch'[c] = batch[c]
    /\ context'[c].findings = context[c].findings
    /\ c \in known' <=> c \in known

LEMMA CoordinatorFrame ==
    ASSUME NEW c \in Coordinators, CoordinatorInvariant(c),
           CoordinatorUntouched(c), TeamUntouched(c), aborted[c] => aborted'[c],
           batch[c] \subseteq Workers
    PROVE  CoordinatorInvariant(c)'
  <1>1. ~aborted[c] =>
            \A o : /\ Learned(c, o, {"disposing", "merged"})' <=> Learned(c, o, {"disposing", "merged"})
                   /\ Learned(c, o, {"merged"})' <=> Learned(c, o, {"merged"})
    BY LearnedFrame DEF CoordinatorUntouched, Back
  <1>2. Waits(c)' <=> Waits(c)
    BY DEF Waits, CoordinatorUntouched
  <1> USE DEF CoordinatorUntouched
  <1>3. \A w \in Workers : boss'[w] = c <=> boss[w] = c
    BY DEF TeamUntouched
  <1>4. \A w \in Workers : boss'[w] = c => life'[w] = life[w]
    BY DEF TeamUntouched
  <1>5. (~aborted[c])' => ~aborted[c]
    OBVIOUS
  <1>6. explore[c].phase \in {"unused", "starting"} =>
            told'[c] = {} /\ call'[c] = None /\ \A w \in Workers : boss'[w] # c
    BY <1>3 DEF CoordinatorInvariant
  <1>7. ~aborted[c] =>
            /\ explore[c].phase \notin Running => call'[c] = None
            /\ Waits(c)' => \A w \in batch'[c] : boss'[w] = c
            /\ \A w \in Workers :
                  boss'[w] = c => life'[w] \in {"merged", "failed"} \/ (Waits(c)' /\ w \in batch'[c])
    BY <1>2, <1>3, <1>4 DEF CoordinatorInvariant
  <1>8. ~aborted[c] =>
            /\ explore[c].phase \in Running =>
                \A o \in Owners : o \in context'[c].findings
                                     <=> Learned(c, o, {"disposing", "merged"})'
            /\ explore[c].phase \in {"disposing", "returned"} =>
                \A o \in Owners : o \in explore[c].answer <=> Learned(c, o, {"merged"})'
    BY <1>1 DEF CoordinatorInvariant
  <1>9. c \in known' <=> explore[c].phase \in Running
    BY DEF CoordinatorInvariant
  <1> HIDE DEF CoordinatorUntouched
  <1> QED
    BY <1>3, <1>5, <1>6, <1>7, <1>8, <1>9 DEF CoordinatorInvariant, CoordinatorUntouched

-----------------------------------------------------------------------------
(* The steps of the graph tools.                                           *)

LEMMA InvariantRegisters == ExplorerInvariant => Registered
  BY DEF ExplorerInvariant, Registered, WorkerInvariant, CoordinatorInvariant

LEMMA GraphKeeps ==
    ASSUME ExplorerInvariant, NEW a \in Agents, GraphEffect(a)
    PROVE  ExplorerInvariant'
  <1> PICK c \in CallType \cup {None} : Calls(a, c)
    BY DEF GraphEffect
  <1> PICK x \in ContextType, new \in SUBSET Owners : Learns(a, x, new)
    BY DEF GraphEffect
  <1>1. /\ UNCHANGED <<explore, aborted, life, boss, batch, known>>
        /\ a \in known \/ call[a] # None
        /\ ~Waits(a)
        /\ calls' \in [Agents -> Nat]
    BY DEF GraphEffect
  <1>2. /\ TypeOK /\ CallShape
        /\ \A w \in Workers : WorkerInvariant(w)
        /\ \A d \in Coordinators : CoordinatorInvariant(d)
    BY DEF ExplorerInvariant
  <1>3. /\ context' = [context EXCEPT ![a] = x] /\ told' = [told EXCEPT ![a] = @ \cup new]
        /\ call' = [call EXCEPT ![a] = c]
        /\ context \in [Agents -> ContextType] /\ told \in [Agents -> SUBSET Owners]
        /\ call \in [Agents -> CallType \cup {None}]
    BY <1>2 DEF Learns, Calls, TypeOK, CallShape
  <1>4. TypeOK'
    <2>1. /\ context' \in [Agents -> ContextType] /\ told' \in [Agents -> SUBSET Owners]
          /\ \A b \in Agents : context'[b].findings \subseteq context'[b].visit
      BY <1>2, <1>3 DEF Learns, TypeOK
    <2> QED
      BY <1>1, <1>2, <2>1 DEF TypeOK
  <1>5. CallShape'
    BY <1>2, <1>3 DEF CallShape, Calls, Agents
  <1>6. /\ \A b \in Agents : b # a => /\ context'[b] = context[b] /\ told'[b] = told[b]
                                      /\ call'[b] = call[b]
        /\ call'[a] = c /\ told'[a] = told[a] \cup new
        /\ context'[a].findings = context[a].findings \cup new
        /\ ~Waits(a)'
    BY <1>3 DEF Learns, Calls, Waits
  <1>7. Aborting /\ aborted' = aborted
    BY <1>1 DEF Aborting
  <1>8. ASSUME NEW w \in Workers PROVE WorkerInvariant(w)'
    <2>1. CASE w = a
      <3>1. life[w] \notin {"unused", "starting"} /\ (c # None => w \in known)
        BY <1>1, <1>2, <2>1 DEF WorkerInvariant, Calls
      <3> QED
        BY <1>1, <1>2, <1>6, <2>1, <3>1 DEF WorkerInvariant
    <2>2. CASE w # a
      <3>1. WorkerUntouched(w) /\ boss[w] \in Coordinators \cup {None}
        BY <1>1, <1>2, <1>6, <2>2 DEF WorkerUntouched, TypeOK, Agents
      <3> QED
        BY <1>2, <1>7, <3>1, WorkerFrame
    <2> QED
      BY <2>1, <2>2
  <1>9. ASSUME NEW d \in Coordinators PROVE CoordinatorInvariant(d)'
    <2>0. d \in Agents /\ batch[d] \subseteq Workers /\ \A w \in Workers : w \in Agents
      BY <1>2 DEF TypeOK, Agents
    <2>1. CASE a = d
      <3>1. explore[d].phase \notin {"unused", "starting"}
        BY <1>1, <1>2, <2>1 DEF CoordinatorInvariant, Running
      <3>2. ~aborted[d] => explore[d].phase \in Running
        BY <1>1, <1>2, <2>1 DEF CoordinatorInvariant
      <3>3. \A w \in Workers : told'[w] = told[w]
        BY <1>6, <2>0, <2>1, ExplorerAssumption
      <3>4. \A o, ls : Learned(d, o, ls)' <=> Learned(d, o, ls) \/ o \in new
        BY <1>1, <1>6, <2>1, <3>3 DEF Learned
      <3>5. ~aborted[d] => /\ \A w \in Workers : boss[w] = d => life[w] \in {"merged", "failed"}
                           /\ \A o \in Owners : o \in context'[d].findings
                                   <=> Learned(d, o, {"disposing", "merged"})'
        BY <1>1, <1>2, <1>6, <2>1, <3>2, <3>4 DEF CoordinatorInvariant
      <3>6. explore[d].phase \in Running => explore[d].phase \notin {"disposing", "returned"}
        BY DEF Running
      <3> QED
        BY <1>1, <1>2, <1>6, <2>1, <3>1, <3>2, <3>5, <3>6 DEF CoordinatorInvariant
    <2>2. CASE a # d
      <3>1. ~aborted[d] /\ a \in Workers /\ boss[a] = d => life[a] = "running"
        BY <1>1, <1>2, ExplorerAssumption DEF WorkerInvariant
      <3>2. CoordinatorUntouched(d)
        BY <1>1, <1>6, <2>0, <2>2 DEF CoordinatorUntouched
      <3>3. TeamUntouched(d)
        BY <1>1, <1>6, <2>0, <3>1 DEF TeamUntouched, Back
      <3> QED
        BY <1>2, <1>7, <2>0, <3>2, <3>3, CoordinatorFrame
    <2> QED
      BY <2>1, <2>2
  <1> QED
    BY <1>4, <1>5, <1>8, <1>9 DEF ExplorerInvariant

-----------------------------------------------------------------------------
(* The steps of an exploration.                                            *)

(* A step of coordinator c's own call leaves everybody else alone.         *)
LEMMA PhaseKeeps ==
    ASSUME ExplorerInvariant, NEW c \in Coordinators,
           UNCHANGED <<aborted, life, boss, batch, call, calls, told>>,
           \A d \in Coordinators : d # c => explore'[d] = explore[d],
           \A a \in Agents : a # c => /\ context'[a] = context[a]
                                      /\ a \in known' <=> a \in known,
           TypeOK', CoordinatorInvariant(c)'
    PROVE  ExplorerInvariant'
  <1>1. /\ TypeOK /\ CallShape /\ Aborting
        /\ \A w \in Workers : WorkerInvariant(w)
        /\ \A d \in Coordinators : CoordinatorInvariant(d)
    BY DEF ExplorerInvariant, Aborting
  <1>2. CallShape'
    BY <1>1 DEF CallShape
  <1>3. ASSUME NEW w \in Workers PROVE WorkerInvariant(w)'
    <2>1. w \in Agents /\ w # c /\ boss[w] \in Coordinators \cup {None}
      BY <1>1, ExplorerAssumption DEF TypeOK, Agents
    <2>2. WorkerUntouched(w)
      BY <2>1 DEF WorkerUntouched
    <2> QED
      BY <1>1, <2>1, <2>2, WorkerFrame
  <1>4. ASSUME NEW d \in Coordinators, d # c PROVE CoordinatorInvariant(d)'
    <2>1. CoordinatorUntouched(d) /\ TeamUntouched(d) /\ batch[d] \subseteq Workers
      BY <1>1, <1>4 DEF CoordinatorUntouched, TeamUntouched, TypeOK, Agents
    <2> QED
      BY <1>1, <2>1, CoordinatorFrame
  <1> QED
    BY <1>2, <1>3, <1>4 DEF ExplorerInvariant

LEMMA BeginKeeps ==
    ASSUME ExplorerInvariant, NEW c \in Coordinators,
           NEW seeds \in Seeds, NEW wide \in BOOLEAN, ExploreBegin(c, seeds, wide)
    PROVE  ExplorerInvariant'
  <1>1. TypeOK /\ CoordinatorInvariant(c) /\ explore[c].phase = "unused"
    BY DEF ExplorerInvariant, ExploreBegin
  <1>2. seeds \in FindingSets /\ seeds.findings \subseteq seeds.visit
    BY SeedsTyped
  <1>3. /\ explore' = [explore EXCEPT ![c] =
               [phase |-> "starting", wide |-> wide, seeds |-> seeds, answer |-> {}]]
        /\ UNCHANGED <<aborted, life, boss, batch, context, known, call, calls, told>>
    BY DEF ExploreBegin, graphVars
  <1>4. TypeOK'
    BY <1>1, <1>2, <1>3 DEF TypeOK, FindingSets, Phases
  <1>5. /\ explore'[c].phase = "starting" /\ explore'[c].seeds = seeds
        /\ \A d \in Coordinators : d # c => explore'[d] = explore[d]
    BY <1>1, <1>3 DEF TypeOK
  <1>6. c \notin known /\ told[c] = {} /\ call[c] = None /\ \A w \in Workers : boss[w] # c
    BY <1>1 DEF CoordinatorInvariant, Running
  <1>7. CoordinatorInvariant(c)'
    BY <1>2, <1>3, <1>5, <1>6 DEF CoordinatorInvariant, Running, Waits
  <1> QED
    BY <1>3, <1>4, <1>5, <1>7, PhaseKeeps

LEMMA InterruptKeeps ==
    ASSUME ExplorerInvariant, NEW c \in Coordinators, Interrupt(c)
    PROVE  ExplorerInvariant'
  <1>1. /\ TypeOK /\ CallShape
        /\ \A w \in Workers : WorkerInvariant(w)
        /\ \A d \in Coordinators : CoordinatorInvariant(d)
    BY DEF ExplorerInvariant
  <1>2. /\ aborted' = [aborted EXCEPT ![c] = TRUE]
        /\ UNCHANGED <<explore, life, boss, batch, context, known, call, calls, told>>
    BY DEF Interrupt, graphVars
  <1>3. TypeOK' /\ CallShape' /\ Aborting
    BY <1>1, <1>2 DEF TypeOK, CallShape, Aborting
  <1>4. ASSUME NEW w \in Workers PROVE WorkerInvariant(w)'
    <2>1. WorkerUntouched(w) /\ boss[w] \in Coordinators \cup {None}
      BY <1>1, <1>2 DEF WorkerUntouched, TypeOK
    <2> QED
      BY <1>1, <1>3, <2>1, WorkerFrame
  <1>5. ASSUME NEW d \in Coordinators PROVE CoordinatorInvariant(d)'
    <2>1. CoordinatorUntouched(d) /\ TeamUntouched(d) /\ batch[d] \subseteq Workers
      BY <1>1, <1>2 DEF CoordinatorUntouched, TeamUntouched, TypeOK
    <2> QED
      BY <1>1, <1>3, <2>1, CoordinatorFrame DEF Aborting
  <1> QED
    BY <1>3, <1>4, <1>5 DEF ExplorerInvariant

(* What the plugin keeps of a call of magi_memory_explore                  *)
Explorations ==
    [phase : Phases, wide : BOOLEAN, seeds : [visit : SUBSET Owners, findings : SUBSET Owners],
     answer : SUBSET Owners]

(* The phases before and after the agent is at work.                       *)
LEMMA OutsideKeeps ==
    ASSUME ExplorerInvariant, NEW c \in Coordinators,
           StartFails(c) \/ TraceRegistered(c) \/ CoordinatorDisposed(c)
    PROVE  ExplorerInvariant'
  <1> DEFINE p == explore'[c].phase
  <1>1. TypeOK /\ CoordinatorInvariant(c)
    BY DEF ExplorerInvariant
  <1>2. UNCHANGED <<aborted, life, boss, batch, context, known, call, calls, told>>
    BY DEF StartFails, TraceRegistered, CoordinatorDisposed, graphVars
  <1>3. /\ p \in Phases
        /\ explore' = [explore EXCEPT ![c].phase = p]
        /\ \/ explore[c].phase = "starting" /\ p = "failed"
           \/ explore[c].phase = "registering" /\ p = "running"
           \/ explore[c].phase = "disposing" /\ p = "returned"
           \/ explore[c].phase = "breaking" /\ p = "failed"
    BY <1>1 DEF StartFails, TraceRegistered, CoordinatorDisposed, Phase, TypeOK, Phases, Running
  <1>4. /\ TypeOK'
        /\ explore'[c].seeds = explore[c].seeds /\ explore'[c].answer = explore[c].answer
        /\ \A d \in Coordinators : d # c => explore'[d] = explore[d]
    <2> HIDE DEF p
    <2>1. explore \in [Coordinators -> Explorations]
      BY <1>1 DEF TypeOK, Explorations
    <2> DEFINE e == [explore[c] EXCEPT !.phase = p]
    <2>2. e \in Explorations /\ e.seeds = explore[c].seeds /\ e.answer = explore[c].answer
      BY <1>3, <2>1 DEF Explorations
    <2>3. explore' = [explore EXCEPT ![c] = e]
      BY <1>3
    <2> HIDE DEF e
    <2>4. /\ explore' \in [Coordinators -> Explorations] /\ explore'[c] = e
          /\ \A d \in Coordinators : d # c => explore'[d] = explore[d]
      BY <2>1, <2>2, <2>3
    <2>5. TypeOK'
      BY <1>1, <1>2, <2>4 DEF TypeOK, Explorations
    <2> QED
      BY <2>2, <2>4, <2>5
  <1> HIDE DEF p
  <1>5. \A o, ls : Learned(c, o, ls)' <=> Learned(c, o, ls)
    BY <1>2, <1>4 DEF Learned
  <1>6. Waits(c)' <=> Waits(c)
    BY <1>2 DEF Waits
  <1>7. CoordinatorInvariant(c)'
    <2>1. p = explore'[c].phase
      BY DEF p
    <2> QED
      BY <1>1, <1>2, <1>3, <1>4, <1>5, <1>6, <2>1 DEF CoordinatorInvariant, Running
  <1> QED
    BY <1>2, <1>4, <1>7, PhaseKeeps

(* The coordinator is registered with the seeds, and nobody works for it.  *)
LEMMA StartKeeps ==
    ASSUME ExplorerInvariant, NEW c \in Coordinators, CoordinatorStart(c)
    PROVE  ExplorerInvariant'
  <1> DEFINE x == Fresh(explore[c].seeds)
  <1>1. TypeOK /\ CoordinatorInvariant(c) /\ c \in Agents
    BY DEF ExplorerInvariant, Agents
  <1>2. /\ explore[c].phase = "starting"
        /\ explore' = [explore EXCEPT ![c].phase = "registering"]
        /\ context' = [context EXCEPT ![c] = x]
        /\ known' = known \cup {c}
        /\ UNCHANGED <<aborted, life, boss, batch, call, calls, told>>
    BY DEF CoordinatorStart, Phase
  <1>3. explore[c].seeds \in FindingSets /\ explore[c].seeds.findings \subseteq explore[c].seeds.visit
    BY <1>1 DEF TypeOK, FindingSets, CoordinatorInvariant
  <1>4. x \in ContextType /\ x.findings \subseteq x.visit /\ x.findings = explore[c].seeds.findings
    BY <1>3, FreshSound DEF Sound
  <1> HIDE DEF x
  <1>5. TypeOK'
    <2>1. explore \in [Coordinators -> Explorations]
      BY <1>1 DEF TypeOK, Explorations
    <2>2. explore' \in [Coordinators -> Explorations]
      BY <1>2, <2>1 DEF Explorations, Phases, Running
    <2>3. context' \in [Agents -> ContextType] /\ known' \subseteq Agents
          /\ \A a \in Agents : context'[a].findings \subseteq context'[a].visit
      BY <1>1, <1>2, <1>4 DEF TypeOK, Agents
    <2> QED
      BY <1>1, <1>2, <2>2, <2>3 DEF TypeOK, Explorations
  <1>6. /\ explore'[c].phase = "registering"
        /\ explore'[c].seeds = explore[c].seeds
        /\ context'[c] = x
        /\ \A d \in Coordinators : d # c => explore'[d] = explore[d]
        /\ \A a \in Agents : a # c => context'[a] = context[a]
    BY <1>1, <1>2 DEF TypeOK
  <1>7. told[c] = {} /\ call[c] = None /\ \A w \in Workers : boss[w] # c
    BY <1>1, <1>2 DEF CoordinatorInvariant
  <1>8. \A o, ls : Learned(c, o, ls)' <=> o \in x.findings
    BY <1>2, <1>4, <1>6, <1>7 DEF Learned
  <1>9. CoordinatorInvariant(c)'
    BY <1>2, <1>3, <1>6, <1>7, <1>8 DEF CoordinatorInvariant, Running, Waits
  <1> QED
    BY <1>2, <1>5, <1>6, <1>9, PhaseKeeps

(* The call settles: without an abort it waits for nobody, so that every   *)
(* worker is back and what it noted is among the findings that are taken.  *)
LEMMA SettleKeeps ==
    ASSUME ExplorerInvariant, NEW c \in Coordinators, Settling(c)
    PROVE  ExplorerInvariant'
  <1>1. TypeOK /\ CoordinatorInvariant(c) /\ c \in Agents
    BY DEF ExplorerInvariant, Agents
  <1>2. /\ explore[c].phase = "running" /\ (call[c] = None \/ aborted[c])
        /\ known' = known \ {c}
        /\ UNCHANGED <<aborted, life, boss, batch, context, call, calls, told>>
        /\ \/ explore' = [explore EXCEPT ![c].phase = "disposing",
                                         ![c].answer = context[c].findings]
           \/ explore' = [explore EXCEPT ![c].phase = "breaking"]
    BY DEF Settling, CoordinatorResolves, CoordinatorRejects, MaySettle, Phase
  <1>3. context[c].findings \in SUBSET Owners
    BY <1>1 DEF TypeOK, ContextType
  <1>4. TypeOK'
    <2>1. explore \in [Coordinators -> Explorations]
      BY <1>1 DEF TypeOK, Explorations
    <2>2. explore' \in [Coordinators -> Explorations]
      BY <1>2, <1>3, <2>1 DEF Explorations, Phases
    <2> QED
      BY <1>1, <1>2, <2>2 DEF TypeOK, Explorations
  <1>5. /\ \A d \in Coordinators : d # c => explore'[d] = explore[d]
        /\ explore'[c].seeds = explore[c].seeds
        /\ \/ explore'[c].phase = "disposing" /\ explore'[c].answer = context[c].findings
           \/ explore'[c].phase = "breaking"
    BY <1>1, <1>2 DEF TypeOK
  <1>6. \A o, ls : Learned(c, o, ls)' <=> Learned(c, o, ls)
    BY <1>2, <1>5 DEF Learned
  <1>7. ASSUME ~aborted[c]
        PROVE  /\ \A w \in Workers : boss[w] = c => life[w] \in {"merged", "failed"}
               /\ \A o : Learned(c, o, {"disposing", "merged"}) <=> Learned(c, o, {"merged"})
    <2>1. \A w \in Workers : boss[w] = c => life[w] \in {"merged", "failed"}
      BY <1>1, <1>2, <1>7 DEF CoordinatorInvariant, Waits
    <2> QED
      BY <2>1 DEF Learned
  <1>8. ~aborted[c] => \A o \in Owners : o \in context[c].findings <=> Learned(c, o, {"merged"})'
    BY <1>1, <1>2, <1>6, <1>7 DEF CoordinatorInvariant, Running
  <1>9. CoordinatorInvariant(c)'
    BY <1>1, <1>2, <1>5, <1>7, <1>8 DEF CoordinatorInvariant, Running, Waits
  <1> QED
    BY <1>2, <1>4, <1>5, <1>9, PhaseKeeps

-----------------------------------------------------------------------------
(* The steps of a delegation.                                              *)

LEMMA DelegateKeeps ==
    ASSUME ExplorerInvariant, NEW c \in Coordinators, NEW ws \in SUBSET Workers,
           Delegate(c, ws)
    PROVE  ExplorerInvariant'
  <1> DEFINE r == [tool |-> "delegate", of |-> c, owner |-> {}]
  <1>1. /\ TypeOK /\ CallShape /\ c \in Agents
        /\ \A w \in Workers : WorkerInvariant(w)
        /\ \A d \in Coordinators : CoordinatorInvariant(d)
    BY DEF ExplorerInvariant, Agents
  <1>2. /\ explore[c].phase \in Running /\ call[c] = None
        /\ \A w \in ws : life[w] = "unused"
        /\ call' = [call EXCEPT ![c] = r]
        /\ batch' = [batch EXCEPT ![c] = ws]
        /\ life' = [w \in Workers |-> IF w \in ws THEN "starting" ELSE life[w]]
        /\ boss' = [w \in Workers |-> IF w \in ws THEN c ELSE boss[w]]
        /\ UNCHANGED <<explore, aborted, context, known, calls, told>>
    BY DEF Delegate, Active
  <1>3. r \in CallType /\ r # None
    BY <1>1, ExplorerAssumption DEF CallType, Agents
  <1>4. TypeOK'
    BY <1>1, <1>2 DEF TypeOK, Lives
  <1>5. CallShape'
    BY <1>1, <1>2, <1>3, ExplorerAssumption DEF CallShape, Agents
  <1>6. /\ \A a \in Agents : a # c => call'[a] = call[a]
        /\ call'[c] # None /\ call'[c].tool = "delegate"
        /\ \A d \in Coordinators : d # c => batch'[d] = batch[d]
        /\ batch'[c] = ws
        /\ \A w \in ws : boss[w] = None /\ None \notin Coordinators
    BY <1>1, <1>2, <1>3, ExplorerAssumption DEF TypeOK, CallShape, WorkerInvariant
  <1> HIDE DEF r
  <1>7. ASSUME NEW w \in Workers PROVE WorkerInvariant(w)'
    <2>1. w # c /\ w \in Agents /\ call'[w] = call[w]
      BY <1>6, ExplorerAssumption DEF Agents
    <2>2. CASE w \in ws
      <3>1. told[w] = {} /\ call[w] = None /\ w \notin known
        BY <1>1, <1>2, <2>2 DEF WorkerInvariant
      <3>2. life'[w] = "starting" /\ boss'[w] = c
        BY <1>2, <2>2
      <3> QED
        BY <1>2, <2>1, <3>1, <3>2, ExplorerAssumption DEF WorkerInvariant
    <2>3. CASE w \notin ws
      <3>1. WorkerUntouched(w) /\ Aborting /\ boss[w] \in Coordinators \cup {None}
        BY <1>1, <1>2, <2>1, <2>3 DEF WorkerUntouched, Aborting, TypeOK
      <3> QED
        BY <1>1, <3>1, WorkerFrame
    <2> QED
      BY <2>2, <2>3
  <1>8. ASSUME NEW d \in Coordinators, d # c PROVE CoordinatorInvariant(d)'
    <2>1. CoordinatorUntouched(d)
      BY <1>2, <1>6, <1>8 DEF CoordinatorUntouched, Agents
    <2>2. TeamUntouched(d) /\ batch[d] \subseteq Workers
      BY <1>1, <1>2, <1>6, <1>8 DEF TeamUntouched, TypeOK
    <2> QED
      BY <1>1, <1>2, <2>1, <2>2, CoordinatorFrame
  <1>9. CoordinatorInvariant(c)'
    <2>1. ~aborted[c] => \A w \in Workers : boss[w] = c => life[w] \in {"merged", "failed"}
      BY <1>1, <1>2 DEF CoordinatorInvariant, Waits
    <2>2. \A w \in Workers : w \in ws => boss'[w] = c /\ life'[w] = "starting" /\ boss[w] # c
      BY <1>2, <1>6
    <2>3. \A w \in Workers : w \notin ws => boss'[w] = boss[w] /\ life'[w] = life[w]
      BY <1>2
    <2>4. \A o : Learned(c, o, {"disposing", "merged"})' <=> Learned(c, o, {"disposing", "merged"})
      BY <1>2, <2>2, <2>3 DEF Learned
    <2>5. Waits(c)'
      BY <1>6 DEF Waits
    <2>6. explore[c].phase \notin {"unused", "starting", "disposing", "returned"}
      BY <1>2 DEF Running
    <2> QED
      BY <1>1, <1>2, <1>6, <2>1, <2>2, <2>3, <2>4, <2>5, <2>6 DEF CoordinatorInvariant
  <1> QED
    BY <1>4, <1>5, <1>7, <1>8, <1>9 DEF ExplorerInvariant

(* Unless the call is aborted no worker has thrown, so all are back.       *)
LEMMA DelegateSettlesKeeps ==
    ASSUME ExplorerInvariant, NEW c \in Coordinators, DelegateSettles(c)
    PROVE  ExplorerInvariant'
  <1>1. /\ TypeOK /\ CallShape /\ c \in Agents
        /\ \A w \in Workers : WorkerInvariant(w)
        /\ \A d \in Coordinators : CoordinatorInvariant(d)
    BY DEF ExplorerInvariant, Agents
  <1>2. /\ Waits(c)
        /\ \/ \A w \in batch[c] : life[w] \in {"merged", "failed"}
           \/ \E w \in batch[c] : life[w] = "threw"
        /\ call' = [call EXCEPT ![c] = None]
        /\ UNCHANGED <<explore, aborted, life, boss, batch, context, known, calls, told>>
    BY DEF DelegateSettles, Waits, runVars
  <1>3. TypeOK' /\ CallShape'
    BY <1>1, <1>2 DEF TypeOK, CallShape
  <1>4. call'[c] = None /\ \A a \in Agents : a # c => call'[a] = call[a]
    BY <1>1, <1>2 DEF CallShape
  <1>5. ASSUME NEW w \in Workers PROVE WorkerInvariant(w)'
    <2>1. WorkerUntouched(w) /\ Aborting /\ boss[w] \in Coordinators \cup {None}
      BY <1>1, <1>2, <1>4, ExplorerAssumption DEF WorkerUntouched, Aborting, TypeOK, Agents
    <2> QED
      BY <1>1, <2>1, WorkerFrame
  <1>6. ASSUME NEW d \in Coordinators, d # c PROVE CoordinatorInvariant(d)'
    <2>1. CoordinatorUntouched(d) /\ TeamUntouched(d) /\ batch[d] \subseteq Workers
      BY <1>1, <1>2, <1>4, <1>6 DEF CoordinatorUntouched, TeamUntouched, TypeOK, Agents
    <2> QED
      BY <1>1, <1>2, <2>1, CoordinatorFrame
  <1>7. CoordinatorInvariant(c)'
    <2>1. ASSUME ~aborted[c], NEW w \in Workers, boss[w] = c
          PROVE  life[w] \in {"merged", "failed"}
      <3>1. \A v \in batch[c] : v \in Workers /\ boss[v] = c
        BY <1>1, <1>2, <2>1 DEF CoordinatorInvariant, TypeOK
      <3>2. \A v \in batch[c] : life[v] # "threw"
        BY <1>1, <2>1, <3>1 DEF WorkerInvariant
      <3>3. \A v \in batch[c] : life[v] \in {"merged", "failed"}
        BY <1>2, <3>2
      <3> QED
        BY <1>1, <2>1, <3>3 DEF CoordinatorInvariant
    <2>2. \A o, ls : Learned(c, o, ls)' <=> Learned(c, o, ls)
      BY <1>2 DEF Learned
    <2>3. ~Waits(c)'
      BY <1>4 DEF Waits
    <2> QED
      BY <1>1, <1>2, <1>4, <2>1, <2>2, <2>3 DEF CoordinatorInvariant
  <1> QED
    BY <1>3, <1>5, <1>6, <1>7 DEF ExplorerInvariant

-----------------------------------------------------------------------------
(* The steps of a worker.                                                  *)

(* A worker's step changes its own context and, when it brings a result,   *)
(* the findings of the coordinator it works for.                           *)
LEMMA WorkerKeeps ==
    ASSUME ExplorerInvariant, NEW w \in Workers, NEW b \in Coordinators, boss[w] = b,
           UNCHANGED <<explore, aborted, boss, batch, call, calls, told>>,
           \A v \in Workers : v # w => life'[v] = life[v],
           \A a \in Agents : a # w => a \in known' <=> a \in known,
           \A a \in Agents : a # w /\ a # b => context'[a] = context[a],
           \A o \in Owners :
               o \in context'[b].findings
                   <=> o \in context[b].findings
                       \/ (life[w] \notin Back /\ life'[w] \in Back /\ o \in told[w]),
           life[w] \notin {"merged", "failed"},
           life[w] \in Back => life'[w] \in Back,
           TypeOK', WorkerInvariant(w)'
    PROVE  ExplorerInvariant'
  <1>1. /\ TypeOK /\ CallShape /\ Aborting
        /\ b \in Agents /\ b # w /\ \A v \in Workers : v \in Agents /\ v # b
        /\ \A v \in Workers : WorkerInvariant(v)
        /\ \A d \in Coordinators : CoordinatorInvariant(d)
    BY ExplorerAssumption DEF ExplorerInvariant, Agents, Aborting
  <1>2. CallShape'
    BY <1>1 DEF CallShape
  <1>3. ASSUME NEW v \in Workers, v # w PROVE WorkerInvariant(v)'
    <2>1. WorkerUntouched(v) /\ boss[v] \in Coordinators \cup {None}
      BY <1>1, <1>3 DEF WorkerUntouched, TypeOK
    <2> QED
      BY <1>1, <2>1, WorkerFrame
  <1>4. ASSUME NEW d \in Coordinators, d # b PROVE CoordinatorInvariant(d)'
    <2>1. d \in Agents /\ d # w
      BY ExplorerAssumption DEF Agents
    <2>2. CoordinatorUntouched(d) /\ TeamUntouched(d) /\ batch[d] \subseteq Workers
      BY <1>1, <1>4, <2>1 DEF CoordinatorUntouched, TeamUntouched, TypeOK
    <2> QED
      BY <1>1, <2>2, CoordinatorFrame
  <1>5. CoordinatorInvariant(b)'
    <2>1. Waits(b)' <=> Waits(b)
      BY DEF Waits
    <2>2. ~aborted[b] => Waits(b) /\ w \in batch[b] /\ explore[b].phase \in Running
      BY <1>1 DEF CoordinatorInvariant, Waits
    <2>3. \A o : Learned(b, o, Back)'
                    <=> Learned(b, o, Back) \/ (life'[w] \in Back /\ o \in told[w])
      BY DEF Learned
    <2>4. ~aborted[b] => \A o \in Owners : o \in context[b].findings <=> Learned(b, o, Back)
      BY <1>1, <2>2 DEF CoordinatorInvariant, Back
    <2>5. ~aborted[b] => \A o \in Owners : o \in context'[b].findings <=> Learned(b, o, Back)'
      <3>1. \A o : life[w] \in Back /\ o \in told[w] => Learned(b, o, Back)
        BY DEF Learned
      <3> QED
        BY <2>3, <2>4, <3>1
    <2>6. ~aborted[b] =>
            /\ \A v \in batch[b] : boss[v] = b
            /\ \A v \in Workers :
                  boss[v] = b => life'[v] \in {"merged", "failed"} \/ (Waits(b) /\ v \in batch[b])
      BY <1>1, <2>2 DEF CoordinatorInvariant
    <2>7. explore[b].phase \in Running => explore[b].phase \notin {"disposing", "returned"}
      BY DEF Running
    <2>8. b \in known' <=> b \in known
      BY <1>1
    <2> QED
      BY <1>1, <2>1, <2>2, <2>5, <2>6, <2>7, <2>8 DEF CoordinatorInvariant, Back
  <1> QED
    BY <1>2, <1>3, <1>4, <1>5 DEF ExplorerInvariant

LEMMA WorkerStepsKeep ==
    ASSUME ExplorerInvariant, NEW w \in Workers,
           WorkerStarting(w) \/ WorkerSettling(w) \/ WorkerDisposed(w)
    PROVE  ExplorerInvariant'
  <1> DEFINE b == boss[w]
             l == life'[w]
  <1>1. /\ TypeOK /\ CallShape /\ WorkerInvariant(w) /\ w \in Agents
        /\ context[w] \in ContextType /\ context[w].findings \subseteq context[w].visit
        /\ UNCHANGED <<explore, aborted, boss, batch, call, calls, told>>
    BY DEF ExplorerInvariant, Agents, TypeOK, WorkerStarting, WorkerSettling, WorkerStart,
           WorkerStartFails, WorkerResolves, WorkerRejects, WorkerDisposed, graphVars
  <1>2. life[w] \in {"starting", "running", "disposing", "failing", "throwing"}
    BY DEF WorkerStarting, WorkerSettling, WorkerStart, WorkerStartFails, WorkerResolves,
           WorkerRejects, WorkerDisposed, Life
  <1>3. /\ b \in Coordinators /\ b \in Agents /\ b # w
        /\ context[b] \in ContextType /\ context[b].findings \subseteq context[b].visit
    BY <1>1, <1>2, ExplorerAssumption DEF WorkerInvariant, TypeOK, Agents
  <1>4. CASE WorkerStart(w)
    <2> DEFINE s == [visit |-> context[b].visit, findings |-> {}]
               x == Fresh(s)
    <2>1. /\ life[w] = "starting" /\ life' = [life EXCEPT ![w] = "running"]
          /\ context' = [context EXCEPT ![w] = x] /\ known' = known \cup {w}
      BY <1>4 DEF WorkerStart, Life
    <2>2. s \in FindingSets /\ s.findings = {}
      BY <1>3 DEF FindingSets, ContextType
    <2>3. x \in ContextType /\ x.findings \subseteq x.visit /\ x.findings = {}
      BY <2>2, FreshSound DEF Sound
    <2> HIDE DEF x, s
    <2>4. TypeOK'
      BY <1>1, <2>1, <2>3 DEF TypeOK, Lives
    <2>5. /\ l = "running" /\ context'[w] = x
          /\ \A v \in Workers : v # w => life'[v] = life[v]
          /\ \A a \in Agents : a # w => context'[a] = context[a]
      BY <1>1, <2>1 DEF TypeOK
    <2>6. WorkerInvariant(w)'
      BY <1>1, <1>3, <2>1, <2>3, <2>5 DEF WorkerInvariant
    <2> QED
      BY <1>1, <1>3, <2>1, <2>4, <2>5, <2>6, WorkerKeeps DEF Back
  <1>5. CASE WorkerResolves(w)
    <2> DEFINE x == Merged(context[b], context[w].findings)
    <2>1. /\ life[w] = "running" /\ life' = [life EXCEPT ![w] = "disposing"]
          /\ call[w] = None \/ aborted[b]
          /\ context' = [context EXCEPT ![b] = x] /\ known' = known \ {w}
      BY <1>5 DEF WorkerResolves, Life, MaySettle
    <2>2. context[w].findings = told[w] /\ told[w] \in SUBSET Owners
      BY <1>1, <2>1 DEF WorkerInvariant, TypeOK
    <2>3. x \in ContextType /\ x.findings \subseteq x.visit /\ x.findings = context[b].findings \cup told[w]
      BY <1>3, <2>2, MergedSound DEF Sound
    <2> HIDE DEF x
    <2>4. TypeOK'
      BY <1>1, <2>1, <2>3 DEF TypeOK, Lives
    <2>5. /\ l = "disposing" /\ context'[b] = x
          /\ \A v \in Workers : v # w => life'[v] = life[v]
          /\ \A a \in Agents : a # b => context'[a] = context[a]
      BY <1>1, <1>3, <2>1 DEF TypeOK
    <2>6. WorkerInvariant(w)'
      BY <1>1, <1>3, <2>1, <2>5, ExplorerAssumption DEF WorkerInvariant
    <2> QED
      BY <1>1, <1>3, <2>1, <2>3, <2>4, <2>5, <2>6, WorkerKeeps DEF Back
  <1>6. CASE WorkerStartFails(w) \/ WorkerRejects(w) \/ WorkerDisposed(w)
    <2>1. /\ life' = [life EXCEPT ![w] = l] /\ l \in Lives
          /\ context' = context
          /\ known' = known \/ known' = known \ {w}
          /\ \/ /\ life[w] = "starting" /\ known' = known
                /\ l = IF aborted[b] THEN "threw" ELSE "failed"
             \/ /\ life[w] = "running" /\ known' = known \ {w}
                /\ l = (IF aborted[b] THEN "throwing" ELSE "failing")
                /\ call[w] = None \/ aborted[b]
             \/ life[w] = "disposing" /\ l = "merged" /\ known' = known
             \/ life[w] = "failing" /\ l = "failed" /\ known' = known
             \/ life[w] = "throwing" /\ l = "threw" /\ known' = known
      BY <1>1, <1>6 DEF WorkerStartFails, WorkerRejects, WorkerDisposed, Life, MaySettle,
                        graphVars, TypeOK, Lives
    <2> HIDE DEF l
    <2>2. TypeOK'
      BY <1>1, <2>1 DEF TypeOK
    <2>3. l = life'[w] /\ \A v \in Workers : v # w => life'[v] = life[v]
      BY <1>1, <2>1 DEF TypeOK, l
    <2>4. WorkerInvariant(w)'
      BY <1>1, <1>3, <2>1, <2>3 DEF WorkerInvariant
    <2> QED
      BY <1>1, <1>2, <1>3, <2>1, <2>2, <2>3, <2>4, WorkerKeeps DEF Back
  <1> QED
    BY <1>4, <1>5, <1>6 DEF WorkerStarting, WorkerSettling

-----------------------------------------------------------------------------
(* The invariant, and what follows from it.                                *)

LEMMA ExplorerStarts == Init => ExplorerInvariant
  <1> SUFFICES ASSUME Init PROVE ExplorerInvariant
    OBVIOUS
  <1>1. /\ NoSeeds \in FindingSets /\ NoSeeds.findings = {} /\ NoSeeds.visit = {}
        /\ NotCalled \in [phase : Phases, wide : BOOLEAN, seeds : FindingSets,
                          answer : SUBSET Owners]
        /\ NotCalled.phase = "unused" /\ NotCalled.seeds = NoSeeds
    BY DEF NoSeeds, NotCalled, FindingSets, Phases
  <1>2. Fresh(NoSeeds) \in ContextType /\ Fresh(NoSeeds).findings = {}
    BY <1>1, FreshSound DEF Sound
  <1>3. TypeOK
    BY <1>1, <1>2 DEF Init, TypeOK, FindingSets, Lives
  <1>4. CallShape
    BY ExplorerAssumption DEF Init, CallShape, Agents
  <1>5. \A w \in Workers : WorkerInvariant(w)
    BY <1>2 DEF Init, WorkerInvariant, Agents
  <1>6. \A c \in Coordinators : CoordinatorInvariant(c)
    BY <1>1, ExplorerAssumption DEF Init, CoordinatorInvariant, Running, Waits, Agents
  <1> QED
    BY <1>3, <1>4, <1>5, <1>6 DEF ExplorerInvariant

LEMMA ExplorerSteps ==
    ASSUME ExplorerInvariant, [Next]_vars
    PROVE  ExplorerInvariant'
  <1>1. ASSUME NEW c \in Coordinators, Exploring(c)
        PROVE  ExplorerInvariant'
    BY <1>1, BeginKeeps, InterruptKeeps, OutsideKeeps, StartKeeps, SettleKeeps,
       DelegateKeeps, DelegateSettlesKeeps
    DEF Exploring, Starting
  <1>2. ASSUME NEW w \in Workers, WorkerStarting(w) \/ WorkerSettling(w) \/ WorkerDisposed(w)
        PROVE  ExplorerInvariant'
    BY <1>2, WorkerStepsKeep
  <1>3. ASSUME NEW a \in Agents, Graph(a)
        PROVE  ExplorerInvariant'
    BY <1>3, InvariantRegisters, GraphHasEffect, GraphKeeps DEF ExplorerInvariant
  <1>4. CASE UNCHANGED vars
    <2>1. UNCHANGED <<explore, aborted, life, boss, batch, context, known, call, calls, told>>
      BY <1>4 DEF vars, runVars, graphVars
    <2> QED
      BY <2>1 DEF ExplorerInvariant, TypeOK, CallShape, WorkerInvariant, CoordinatorInvariant,
                  Learned, Waits
  <1> QED
    BY <1>1, <1>2, <1>3, <1>4 DEF Next

(* Contexts, calls, workers and explorations of the plugin stay in step.   *)
THEOREM ExplorerInvariantHolds == Spec => []ExplorerInvariant
  BY ExplorerStarts, ExplorerSteps, PTL DEF Spec

(* An exploration that was not aborted returns the findings of its seeds,  *)
(* of its coordinator and of every worker that came back, and no others,   *)
(* in whatever order they end.                                             *)
THEOREM NothingIsLost == Spec => []ReportsAll
  <1>1. ASSUME ExplorerInvariant PROVE ReportsAll
    <2> SUFFICES ASSUME NEW c \in Coordinators,
                        explore[c].phase \in {"disposing", "returned"}, ~aborted[c]
                 PROVE  explore[c].answer =
                            explore[c].seeds.findings \cup told[c]
                            \cup UNION {told[w] : w \in {v \in Team(c) : life[v] = "merged"}}
      BY DEF ReportsAll
    <2>1. /\ explore[c].answer \subseteq Owners /\ explore[c].seeds.findings \subseteq Owners
          /\ \A a \in Agents : told[a] \subseteq Owners
      BY <1>1 DEF ExplorerInvariant, TypeOK
    <2>2. \A o \in Owners : o \in explore[c].answer <=> Learned(c, o, {"merged"})
      BY <1>1 DEF ExplorerInvariant, CoordinatorInvariant
    <2>3. \A o : Learned(c, o, {"merged"})
                    <=> o \in explore[c].seeds.findings \cup told[c]
                              \cup UNION {told[w] : w \in {v \in Team(c) : life[v] = "merged"}}
      BY DEF Learned, Team
    <2>4. c \in Agents /\ \A v \in Team(c) : v \in Agents
      BY DEF Agents, Team
    <2> QED
      BY <2>1, <2>2, <2>3, <2>4
  <1> QED
    BY <1>1, ExplorerInvariantHolds, PTL

(* It leaves no agent of its own registered or at work.                    *)
THEOREM NobodyIsLeft == Spec => []CleanReturn
  <1>1. ASSUME ExplorerInvariant PROVE CleanReturn
    <2> SUFFICES ASSUME NEW c \in Coordinators, explore[c].phase = "returned", ~aborted[c]
                 PROVE  /\ c \notin known
                        /\ \A w \in Team(c) : w \notin known /\ life[w] \in {"merged", "failed"}
      BY DEF CleanReturn
    <2>1. c \notin known /\ call[c] = None
      BY <1>1 DEF ExplorerInvariant, CoordinatorInvariant, Running
    <2>2. \A w \in Team(c) : life[w] \in {"merged", "failed"}
      BY <1>1, <2>1 DEF ExplorerInvariant, CoordinatorInvariant, Waits, Team
    <2> QED
      BY <1>1, <2>1, <2>2 DEF ExplorerInvariant, WorkerInvariant, Team
  <1> QED
    BY <1>1, ExplorerInvariantHolds, PTL

-----------------------------------------------------------------------------
(* What the release of the contexts rests on.                              *)

(* explorationAgents holds the contexts of the agents at work, and of no   *)
(* other: also when an abort ends an exploration before its workers.       *)
KnownAreAtWork ==
    known = {c \in Coordinators : explore[c].phase \in Running}
            \cup {w \in Workers : life[w] = "running"}

(* A coordinator whose delegate call waits has an agent to wait for that   *)
(* does not wait for it, unless the call can return.                       *)
DelegateIsServed ==
    \A c \in Coordinators :
        Waits(c) /\ ~aborted[c] =>
            \/ \A w \in batch[c] : life[w] \in {"merged", "failed"}
            \/ \E w \in batch[c] :
                /\ boss[w] = c
                /\ life[w] \in {"starting", "running", "disposing", "failing"}
                /\ call[w] # None => life[w] = "running" /\ call[w].tool \in {"expand", "describe"}

(* No context stays registered once its agent has ended, however it ended, *)
(* and none is taken from an agent that goes on.                           *)
THEOREM ContextsFollowAgents == Spec => []KnownAreAtWork
  <1>1. ExplorerInvariant => KnownAreAtWork
    <2> SUFFICES ASSUME ExplorerInvariant PROVE KnownAreAtWork
      OBVIOUS
    <2>1. known \subseteq Coordinators \cup Workers
      BY DEF ExplorerInvariant, TypeOK, Agents
    <2>2. \A c \in Coordinators : c \in known <=> explore[c].phase \in Running
      BY DEF ExplorerInvariant, CoordinatorInvariant
    <2>3. \A w \in Workers : w \in known <=> life[w] = "running"
      BY DEF ExplorerInvariant, WorkerInvariant
    <2> QED
      BY <2>1, <2>2, <2>3 DEF KnownAreAtWork
  <1> QED
    BY <1>1, ExplorerInvariantHolds, PTL

(* Coordinators and workers never wait for each other in a circle: a       *)
(* worker waits for MAGI only.                                             *)
THEOREM DelegatesAreServed == Spec => []DelegateIsServed
  <1>1. ASSUME ExplorerInvariant PROVE DelegateIsServed
    <2>1. \A d \in Coordinators : batch[d] \subseteq Workers
      BY <1>1 DEF ExplorerInvariant, TypeOK
    <2>2. ASSUME NEW c \in Coordinators, Waits(c), ~aborted[c],
                 NEW w \in Workers, w \in batch[c], life[w] \notin {"merged", "failed"}
          PROVE  /\ boss[w] = c
                 /\ life[w] \in {"starting", "running", "disposing", "failing"}
                 /\ call[w] # None =>
                     life[w] = "running" /\ call[w].tool \in {"expand", "describe"}
      <3>1. boss[w] = c
        BY <1>1, <2>2 DEF ExplorerInvariant, CoordinatorInvariant
      <3>2. life[w] \in Lives /\ c # None /\ w \in Agents
        BY <1>1, ExplorerAssumption DEF ExplorerInvariant, TypeOK, Agents
      <3>3. /\ life[w] \notin {"unused", "throwing", "threw"}
            /\ life[w] # "running" => call[w] = None
        BY <1>1, <2>2, <3>1, <3>2 DEF ExplorerInvariant, WorkerInvariant
      <3>4. call[w] # None => call[w].tool \in {"expand", "describe"}
        BY <1>1, <3>2 DEF ExplorerInvariant, CallShape, CallType
      <3> QED
        BY <2>2, <3>1, <3>2, <3>3, <3>4 DEF Lives
    <2> QED
      BY <2>1, <2>2 DEF DelegateIsServed
  <1> QED
    BY <1>1, ExplorerInvariantHolds, PTL
=============================================================================
