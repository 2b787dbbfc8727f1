---------------------- MODULE ProjectionOutboxProofs ----------------------
(***************************************************************************)
(* Proofs about the projection outbox: its types, for any number of        *)
(* processes; then, when one process owns the workspace, why an            *)
(* acknowledgement is safe, that the outbox implements DurableReplica, why *)
(* an acknowledged owner can be found, and when nothing the memory has     *)
(* dropped stays in a store; at last, why no job is left with the lock and *)
(* nothing to do, and why no change is forgotten.                          *)
(***************************************************************************)
EXTENDS ProjectionOutbox, TLAPS

-----------------------------------------------------------------------------
(* Types, and the shape of the jobs, for any number of processes.          *)

Typed == TypeOK /\ JobShape

LEMMA InitTyped == Init => Typed
<1> SUFFICES ASSUME Init PROVE Typed
  OBVIOUS
<1> USE OwnersAssumption DEF Init, View, Unseen, Listing, NotListed
<1>1. SqlTypeOK /\ StoreTypeOK
  BY DEF SqlTypeOK, StoreTypeOK
<1>2. JobTypeOK /\ JobShape
  BY DEF JobTypeOK, JobShape, Steps, Kinds
<1>3. mode \in [Procs -> Modes] /\ faults \in [FaultKinds -> Nat]
  BY DEF Modes
<1> QED BY <1>1, <1>2, <1>3 DEF Typed, TypeOK

LEMMA QueueTyped ==
    ASSUME Typed, NEW Q, Queue(Q, live)
    PROVE  /\ rev' \in [Owners -> Nat]
           /\ status' \in [Owners -> {"none", "pending", "failed", "applied"}]
           /\ due' \in [Owners -> BOOLEAN]
           /\ loc' \in [Owners -> BOOLEAN]
           /\ kept' \in [Owners -> BOOLEAN]
<1> USE DEF Typed, TypeOK, SqlTypeOK, StoreTypeOK, Queue
<1>1. rev' \in [Owners -> Nat]
  OBVIOUS
<1>2. status' \in [Owners -> {"none", "pending", "failed", "applied"}]
  OBVIOUS
<1>3. due' \in [Owners -> BOOLEAN]
  OBVIOUS
<1>4. loc' \in [Owners -> BOOLEAN]
  OBVIOUS
<1>5. kept' \in [Owners -> BOOLEAN]
  OBVIOUS
<1> QED BY <1>1, <1>2, <1>3, <1>4, <1>5

LEMMA OwnersUpdated ==
    ASSUME NEW f \in [Procs -> SUBSET Owners], NEW p \in Procs, NEW S \in SUBSET Owners
    PROVE  [f EXCEPT ![p] = S] \in [Procs -> SUBSET Owners]
  OBVIOUS

LEMMA FlagUpdated ==
    ASSUME NEW f \in [Owners -> BOOLEAN], NEW o, NEW b \in BOOLEAN
    PROVE  [f EXCEPT ![o] = b] \in [Owners -> BOOLEAN]
  OBVIOUS

LEMMA ListingTyped ==
    ASSUME Typed, NEW T
    PROVE  ListingOf(T) \in [Owners -> Listing]
  BY DEF Typed, TypeOK, SqlTypeOK, ListingOf, Listing, NotListed

LEMMA FaultTyped ==
    ASSUME Typed, NEW f \in FaultKinds, Fault(f)
    PROVE  faults' \in [FaultKinds -> Nat]
<1>1. faults \in [FaultKinds -> Nat]
  BY DEF Typed, TypeOK
<1>2. faults' = [faults EXCEPT ![f] = faults[f] + 1]
  BY DEF Fault
<1> QED BY <1>1, <1>2

LEMMA ReleaseTyped ==
    ASSUME Typed, NEW p \in Procs, Release(p)
    PROVE  JobTypeOK' /\ JobShape'
  BY DEF Typed, TypeOK, JobTypeOK, JobShape, Release, Listing, NotListed, View, Unseen,
     Steps, Kinds

LEMMA ProcStartTyped ==
    ASSUME Typed, NEW p \in Procs,
           ProcStart(p)
    PROVE  Typed'
<1> USE DEF Typed, TypeOK, ProcStart
<1>1. SqlTypeOK'
  BY DEF SqlTypeOK, Prune, rowVars
<1>2. StoreTypeOK' /\ mode' \in [Procs -> Modes] /\ faults' \in [FaultKinds -> Nat]
  BY DEF StoreTypeOK, storeVars, Modes
<1>3. JobTypeOK'
  BY DEF JobTypeOK, jobVars
<1>4. JobShape'
  BY DEF JobTypeOK, JobShape, jobVars
<1> QED BY <1>1, <1>2, <1>3, <1>4

LEMMA ReconcileNothingTyped ==
    ASSUME Typed, NEW p \in Procs,
           ReconcileNothing(p)
    PROVE  Typed'
<1> USE DEF Typed, TypeOK, ReconcileNothing
<1>1. SqlTypeOK'
  BY DEF SqlTypeOK, sqlVars
<1>2. StoreTypeOK' /\ mode' \in [Procs -> Modes] /\ faults' \in [FaultKinds -> Nat]
  BY DEF StoreTypeOK, storeVars, Modes, Serve
<1>3. JobTypeOK'
  BY DEF JobTypeOK, jobVars
<1>4. JobShape'
  BY DEF JobTypeOK, JobShape, jobVars
<1> QED BY <1>1, <1>2, <1>3, <1>4

LEMMA ReconcileTyped ==
    ASSUME Typed, NEW p \in Procs,
           Reconcile(p)
    PROVE  Typed'
<1> USE DEF Typed, TypeOK, Reconcile
<1>1. SqlTypeOK'
  BY DEF SqlTypeOK, sqlVars
<1>2. StoreTypeOK' /\ mode' \in [Procs -> Modes] /\ faults' \in [FaultKinds -> Nat]
  BY DEF StoreTypeOK, storeVars
<1>3. JobTypeOK'
  BY ListingTyped DEF JobTypeOK, Batches, Reconcilable, Steps, Kinds
<1>4. JobShape'
  BY DEF JobTypeOK, JobShape
<1> QED BY <1>1, <1>2, <1>3, <1>4

LEMMA ListTasksTyped ==
    ASSUME Typed, NEW p \in Procs,
           ListTasks(p)
    PROVE  Typed'
<1> USE DEF Typed, TypeOK, ListTasks
<1>1. SqlTypeOK'
  BY DEF SqlTypeOK, sqlVars
<1>2. StoreTypeOK' /\ mode' \in [Procs -> Modes] /\ faults' \in [FaultKinds -> Nat]
  BY DEF StoreTypeOK, storeVars
<1>3. JobTypeOK'
  <2>1. listed' \in [Procs -> [Owners -> Listing]]
    BY ListingTyped DEF JobTypeOK
  <2>0. {o \in todo[p] : Outstanding(o)} \in SUBSET Owners
    BY DEF JobTypeOK
  <2>2. todo' \in [Procs -> SUBSET Owners]
    BY ZenonT(90), <2>0, OwnersUpdated DEF JobTypeOK
  <2>3. step' \in [Procs -> Steps]
    BY ZenonT(90) DEF JobTypeOK, Steps
  <2> QED BY <2>1, <2>2, <2>3 DEF JobTypeOK
<1>4. JobShape'
  BY DEF JobTypeOK, JobShape
<1> QED BY <1>1, <1>2, <1>3, <1>4

LEMMA DescribeTyped ==
    ASSUME Typed, NEW p \in Procs,
           Describe(p)
    PROVE  Typed'
<1> USE DEF Typed, TypeOK, Describe
<1>1. SqlTypeOK'
  BY DEF SqlTypeOK, sqlVars
<1>2. StoreTypeOK' /\ mode' \in [Procs -> Modes] /\ faults' \in [FaultKinds -> Nat]
  BY DEF StoreTypeOK, storeVars
<1>3. JobTypeOK'
  BY DEF JobTypeOK, Steps, View, SqlTypeOK
<1>4. JobShape'
  BY DEF JobTypeOK, JobShape
<1> QED BY <1>1, <1>2, <1>3, <1>4

LEMMA EndsReadyTyped ==
    ASSUME Typed, NEW p \in Procs,
           EndsReady(p)
    PROVE  Typed'
<1> USE DEF Typed, TypeOK, EndsReady
<1>1. SqlTypeOK'
  BY DEF SqlTypeOK, sqlVars
<1>2. StoreTypeOK' /\ mode' \in [Procs -> Modes] /\ faults' \in [FaultKinds -> Nat]
  BY DEF StoreTypeOK, storeVars
<1>3. JobTypeOK'
  BY DEF JobTypeOK, Steps
<1>4. JobShape'
  BY DEF JobTypeOK, JobShape
<1> QED BY <1>1, <1>2, <1>3, <1>4

LEMMA RegisterTyped ==
    ASSUME Typed, NEW p \in Procs, NEW o \in Owners,
           Register(p, o)
    PROVE  Typed'
<1> USE DEF Typed, TypeOK, Register
<1>1. SqlTypeOK'
  BY DEF SqlTypeOK, rowVars
<1>2. StoreTypeOK' /\ mode' \in [Procs -> Modes] /\ faults' \in [FaultKinds -> Nat]
  BY DEF StoreTypeOK, storeVars
<1>3. JobTypeOK'
  <2>0. done[p] \cup {o} \in SUBSET Owners /\ {} \in SUBSET Owners
    BY DEF JobTypeOK
  <2>a. \/ done' = [done EXCEPT ![p] = done[p] \cup {o}]
        \/ done' = [done EXCEPT ![p] = {}]
    OBVIOUS
  <2>b. done \in [Procs -> SUBSET Owners]
    BY DEF JobTypeOK
  <2>1. done' \in [Procs -> SUBSET Owners]
    <3> HIDE DEF Typed, TypeOK, Register
    <3> QED BY <2>0, <2>a, <2>b, OwnersUpdated
  <2>2. step' \in [Procs -> Steps]
    BY DEF JobTypeOK, Steps
  <2> QED BY <2>1, <2>2 DEF JobTypeOK
<1>4. JobShape'
  BY ZenonT(90) DEF JobTypeOK, JobShape
<1> QED BY <1>1, <1>2, <1>3, <1>4

LEMMA StoreAtomTyped ==
    ASSUME Typed, NEW p \in Procs, NEW o \in Owners,
           StoreAtom(p, o)
    PROVE  Typed'
<1> USE DEF Typed, TypeOK, StoreAtom
<1>1. SqlTypeOK'
  BY QueueTyped DEF SqlTypeOK
<1>2. StoreTypeOK' /\ mode' \in [Procs -> Modes] /\ faults' \in [FaultKinds -> Nat]
  BY QueueTyped DEF StoreTypeOK
<1>3. JobTypeOK'
  BY DEF JobTypeOK, Steps
<1>4. JobShape'
  BY DEF JobTypeOK, JobShape
<1> QED BY <1>1, <1>2, <1>3, <1>4

LEMMA MergeTyped ==
    ASSUME Typed, NEW p \in Procs, NEW o \in Owners,
           Merge(p, o)
    PROVE  Typed'
<1> USE DEF Typed, TypeOK, Merge
<1>1. SqlTypeOK'
  BY DEF SqlTypeOK, sqlVars
<1>2. StoreTypeOK' /\ mode' \in [Procs -> Modes] /\ faults' \in [FaultKinds -> Nat]
  BY DEF StoreTypeOK, storeVars
<1>3. JobTypeOK'
  BY DEF JobTypeOK, Steps, Begin
<1>4. JobShape'
  BY DEF JobTypeOK, JobShape, Begin
<1> QED BY <1>1, <1>2, <1>3, <1>4

LEMMA MergeKeepsTyped ==
    ASSUME Typed, NEW p \in Procs, NEW o \in Owners,
           MergeKeeps(p, o)
    PROVE  Typed'
<1> USE DEF Typed, TypeOK, MergeKeeps
<1>1. SqlTypeOK'
  BY DEF SqlTypeOK, sqlVars
<1>2. StoreTypeOK' /\ mode' \in [Procs -> Modes] /\ faults' \in [FaultKinds -> Nat]
  BY DEF StoreTypeOK, storeVars
<1>3. JobTypeOK'
  BY DEF JobTypeOK, Steps, Begin
<1>4. JobShape'
  BY DEF JobTypeOK, JobShape, Begin
<1> QED BY <1>1, <1>2, <1>3, <1>4

LEMMA MergeRefusedTyped ==
    ASSUME Typed, NEW p \in Procs, NEW o \in Owners,
           MergeRefused(p, o)
    PROVE  Typed'
<1>1. Release(p) /\ UNCHANGED <<sqlVars, storeVars, mode, faults>>
  BY DEF MergeRefused
<1>2. JobTypeOK' /\ JobShape'
  BY <1>1, ReleaseTyped
<1> QED BY <1>1, <1>2 DEF Typed, TypeOK, SqlTypeOK, StoreTypeOK, sqlVars, storeVars

LEMMA FetchTyped ==
    ASSUME Typed, NEW p \in Procs, NEW o \in Owners,
           Fetch(p, o)
    PROVE  Typed'
<1> USE DEF Typed, TypeOK, Fetch
<1>1. SqlTypeOK'
  BY DEF SqlTypeOK, sqlVars
<1>2. StoreTypeOK' /\ mode' \in [Procs -> Modes] /\ faults' \in [FaultKinds -> Nat]
  BY DEF StoreTypeOK, storeVars
<1>3. JobTypeOK'
  BY DEF JobTypeOK, Steps, Begin, View, SqlTypeOK
<1>4. JobShape'
  BY DEF JobTypeOK, JobShape, Begin
<1> QED BY <1>1, <1>2, <1>3, <1>4

LEMMA FetchUnlocatedTyped ==
    ASSUME Typed, NEW p \in Procs, NEW o \in Owners,
           FetchUnlocated(p, o)
    PROVE  Typed'
<1> USE DEF Typed, TypeOK, FetchUnlocated
<1>1. SqlTypeOK'
  BY DEF SqlTypeOK, sqlVars
<1>2. StoreTypeOK' /\ mode' \in [Procs -> Modes] /\ faults' \in [FaultKinds -> Nat]
  BY DEF StoreTypeOK, storeVars
<1>3. JobTypeOK'
  BY DEF JobTypeOK, Steps, Begin
<1>4. JobShape'
  BY DEF JobTypeOK, JobShape, Begin
<1> QED BY <1>1, <1>2, <1>3, <1>4

LEMMA DeleteEpisodeTyped ==
    ASSUME Typed, NEW p \in Procs, NEW A \in SUBSET Owners, NEW K \in SUBSET A,
           DeleteEpisode(p, A, K)
    PROVE  Typed'
<1> USE DEF Typed, TypeOK, DeleteEpisode
<1>1. SqlTypeOK'
  BY QueueTyped DEF SqlTypeOK
<1>2. StoreTypeOK' /\ mode' \in [Procs -> Modes] /\ faults' \in [FaultKinds -> Nat]
  BY QueueTyped DEF StoreTypeOK
<1>3. JobTypeOK'
  <2>1. UNION {Ends[r] : r \in A \cap Relations} \subseteq Entities
    BY OwnersAssumption
  <2>2. todo' \in [Procs -> SUBSET Owners]
    BY <2>1 DEF JobTypeOK, Owners
  <2>3. step' \in [Procs -> Steps] /\ kind' \in [Procs -> Kinds]
    BY DEF JobTypeOK, Steps, Kinds
  <2> QED BY <2>2, <2>3 DEF JobTypeOK
<1>4. JobShape'
  BY DEF JobTypeOK, JobShape
<1> QED BY <1>1, <1>2, <1>3, <1>4

LEMMA CommitStartTyped ==
    ASSUME Typed, NEW p \in Procs, NEW T \in SUBSET Owners, NEW A \in SUBSET T,
           CommitStart(p, T, A)
    PROVE  Typed'
<1> USE DEF Typed, TypeOK, CommitStart
<1>1. SqlTypeOK'
  BY DEF SqlTypeOK, sqlVars
<1>2. StoreTypeOK' /\ mode' \in [Procs -> Modes] /\ faults' \in [FaultKinds -> Nat]
  BY DEF StoreTypeOK, storeVars
<1>3. JobTypeOK'
  BY DEF JobTypeOK, Steps, Kinds
<1>4. JobShape'
  BY DEF JobTypeOK, JobShape
<1> QED BY <1>1, <1>2, <1>3, <1>4

LEMMA ResolveConflictTyped ==
    ASSUME Typed, NEW o \in Owners,
           ResolveConflict(o)
    PROVE  Typed'
<1> USE DEF Typed, TypeOK, ResolveConflict
<1>1. SqlTypeOK'
  BY QueueTyped DEF SqlTypeOK
<1>2. StoreTypeOK' /\ mode' \in [Procs -> Modes] /\ faults' \in [FaultKinds -> Nat]
  BY QueueTyped DEF StoreTypeOK
<1>3. JobTypeOK'
  BY DEF JobTypeOK, jobVars
<1>4. JobShape'
  BY DEF JobTypeOK, JobShape, jobVars
<1> QED BY <1>1, <1>2, <1>3, <1>4

LEMMA RetryDueTyped ==
    ASSUME Typed, NEW o \in Owners,
           RetryDue(o)
    PROVE  Typed'
<1> USE DEF Typed, TypeOK, RetryDue
<1>1. SqlTypeOK'
  BY DEF SqlTypeOK
<1>2. StoreTypeOK' /\ mode' \in [Procs -> Modes] /\ faults' \in [FaultKinds -> Nat]
  BY DEF StoreTypeOK, storeVars
<1>3. JobTypeOK'
  BY DEF JobTypeOK, jobVars
<1>4. JobShape'
  BY DEF JobTypeOK, JobShape, jobVars
<1> QED BY <1>1, <1>2, <1>3, <1>4

LEMMA FlushTyped ==
    ASSUME Typed, NEW p \in Procs,
           Flush(p)
    PROVE  Typed'
<1> USE DEF Typed, TypeOK, Flush
<1>1. SqlTypeOK'
  BY DEF SqlTypeOK, sqlVars
<1>2. StoreTypeOK' /\ mode' \in [Procs -> Modes] /\ faults' \in [FaultKinds -> Nat]
  BY DEF StoreTypeOK, FlushStore, Stores
<1>3. JobTypeOK'
  BY DEF JobTypeOK, Steps
<1>4. JobShape'
  BY SMTT(60) DEF JobTypeOK, JobShape
<1> QED BY <1>1, <1>2, <1>3, <1>4
LEMMA FetchEndTyped ==
    ASSUME Typed, NEW p \in Procs, NEW e \in Owners, FetchEnd(p, e)
    PROVE  Typed'
<1> USE DEF Typed, TypeOK, FetchEnd
<1>0. e \in Entities
  BY OwnersAssumption DEF JobTypeOK, JobShape, MissingEnds
<1>1. SqlTypeOK'
  BY DEF SqlTypeOK, sqlVars
<1>2. StoreTypeOK' /\ mode' \in [Procs -> Modes] /\ faults' \in [FaultKinds -> Nat]
  BY DEF StoreTypeOK, storeVars
<1>3. JobTypeOK'
  BY <1>0 DEF JobTypeOK, Steps, View, SqlTypeOK
<1>4. JobShape'
  BY DEF JobTypeOK, JobShape
<1> QED BY <1>1, <1>2, <1>3, <1>4

LEMMA WrittenTyped ==
    ASSUME NEW s \in Stores, NEW t, NEW v \in View, NEW g \in [Owners -> View]
    PROVE  Written(s, t, v, g) \in [Owners -> View]
  BY DEF Written, Shown, View

LEMMA TargetOwner ==
    ASSUME Typed, NEW p \in Procs, step[p] \in {"graph", "vdb"}
    PROVE  Target(p) \in Owners /\ cur[p] \in Owners
  BY DEF Typed, TypeOK, JobTypeOK, JobShape, Target, Owners

LEMMA WriteStoreTyped ==
    ASSUME Typed, NEW p \in Procs, step[p] \in {"graph", "vdb"},
           NEW s \in Stores, WriteStore(p, s), UNCHANGED kept
    PROVE  StoreTypeOK'
<1>1. view[p][Target(p)] \in View
  BY TargetOwner DEF Typed, TypeOK, JobTypeOK
<1> QED BY <1>1, WrittenTyped DEF Typed, TypeOK, StoreTypeOK, WriteStore

LEMMA ProjectedTyped ==
    ASSUME Typed, NEW p \in Procs, step[p] \in {"graph", "vdb"}, Projected(p),
           UNCHANGED <<kind, listed, bad, puts, skips, view>>
    PROVE  JobTypeOK' /\ JobShape'
<1> USE TargetOwner DEF Typed, TypeOK, Projected
<1>1. CASE end[p] = None
  <2>1. JobTypeOK'
    <3>0. done[p] \cup {cur[p]} \in SUBSET Owners /\ todo[p] \ {cur[p]} \in SUBSET Owners
      BY TargetOwner DEF JobTypeOK
    <3>a. /\ done' = [done EXCEPT ![p] = done[p] \cup {cur[p]}]
          /\ todo' = [todo EXCEPT ![p] = todo[p] \ {cur[p]}]
      BY <1>1
    <3>b. done \in [Procs -> SUBSET Owners] /\ todo \in [Procs -> SUBSET Owners]
      BY DEF JobTypeOK
    <3>1. done' \in [Procs -> SUBSET Owners] /\ todo' \in [Procs -> SUBSET Owners]
      <4> HIDE DEF Typed, TypeOK, Projected
      <4> QED BY <3>0, <3>a, <3>b, OwnersUpdated
    <3>2. step' = [step EXCEPT ![p] = "project"]
      BY <1>1
    <3>3. cur' \in [Procs -> Owners \cup {None}] /\ end' = end
      BY <1>1 DEF JobTypeOK
    <3> QED BY <3>1, <3>2, <3>3 DEF JobTypeOK, Steps
  <2>2. JobShape'
    BY SMTT(60), <1>1 DEF JobTypeOK, JobShape
  <2> QED BY <2>1, <2>2
<1>2. CASE end[p] # None
  <2>1. JobTypeOK'
    <3>1. /\ end' = [end EXCEPT ![p] = None]
          /\ step' = [step EXCEPT ![p] = "ends"]
          /\ UNCHANGED <<kind, todo, listed, done, bad, puts, skips, cur, view>>
      BY <1>2
    <3> HIDE DEF Projected
    <3> QED BY <3>1 DEF JobTypeOK, Steps
  <2>2. (step[p] = "graph" \/ step[p] = "vdb") /\ cur[p] \in Relations
    BY <1>2 DEF JobTypeOK, JobShape
  <2>3. JobShape'
    BY <1>2, <2>2 DEF JobTypeOK, JobShape
  <2> QED BY <2>1, <2>3
<1> QED BY <1>1, <1>2

LEMMA WriteGraphTyped ==
    ASSUME Typed, NEW p \in Procs, WriteGraph(p)
    PROVE  Typed'
<1> USE DEF Typed, TypeOK, WriteGraph
<1>1. SqlTypeOK'
  BY DEF SqlTypeOK, sqlVars
<1>2. StoreTypeOK' /\ mode' \in [Procs -> Modes] /\ faults' \in [FaultKinds -> Nat]
  BY WriteStoreTyped DEF Stores
<1>3. CASE view[p][Target(p)].live
  <2>1. JobTypeOK'
    BY <1>3 DEF JobTypeOK, Steps
  <2>2. JobShape'
    <3>1. /\ step[p] = "graph"
          /\ step' = [step EXCEPT ![p] = "vdb"]
          /\ UNCHANGED <<kind, todo, listed, done, bad, puts, skips, cur, end, view>>
      BY <1>3
    <3> HIDE DEF WriteGraph
    <3> QED BY <3>1 DEF JobTypeOK, JobShape
  <2> QED BY <1>1, <1>2, <2>1, <2>2
<1>4. CASE ~view[p][Target(p)].live
  BY <1>1, <1>2, <1>4, ProjectedTyped
<1> QED BY <1>3, <1>4

LEMMA WriteVdbTyped ==
    ASSUME Typed, NEW p \in Procs, WriteVdb(p)
    PROVE  Typed'
<1> USE DEF Typed, TypeOK, WriteVdb
<1>1. SqlTypeOK'
  BY DEF SqlTypeOK, sqlVars
<1>2. StoreTypeOK' /\ mode' \in [Procs -> Modes] /\ faults' \in [FaultKinds -> Nat]
  BY WriteStoreTyped DEF Stores
<1>3. CASE ~view[p][Target(p)].live
  <2>1. JobTypeOK'
    BY <1>3 DEF JobTypeOK, Steps
  <2>2. JobShape'
    <3>1. /\ step[p] = "vdb"
          /\ step' = [step EXCEPT ![p] = "graph"]
          /\ UNCHANGED <<kind, todo, listed, done, bad, puts, skips, cur, end, view>>
      BY <1>3
    <3> HIDE DEF WriteVdb
    <3> QED BY <3>1 DEF JobTypeOK, JobShape
  <2> QED BY <1>1, <1>2, <2>1, <2>2
<1>4. CASE view[p][Target(p)].live
  BY <1>1, <1>2, <1>4, ProjectedTyped
<1> QED BY <1>3, <1>4

LEMMA BatchDoneTyped ==
    ASSUME Typed, NEW p \in Procs, BatchDone(p)
    PROVE  Typed'
<1> USE DEF Typed, TypeOK, BatchDone
<1>1. SqlTypeOK'
  BY DEF SqlTypeOK, sqlVars
<1>2. StoreTypeOK' /\ mode' \in [Procs -> Modes] /\ faults' \in [FaultKinds -> Nat]
  BY DEF StoreTypeOK, storeVars, Serve, Modes
<1>3. CASE done[p] # {}
  <2>1. JobTypeOK'
    BY <1>3 DEF JobTypeOK, Steps
  <2>2. JobShape'
    BY <1>3 DEF JobTypeOK, JobShape
  <2> QED BY <1>1, <1>2, <2>1, <2>2
<1>4. CASE done[p] = {}
  BY <1>1, <1>2, <1>4, ReleaseTyped
<1> QED BY <1>3, <1>4

LEMMA AcknowledgeTyped ==
    ASSUME Typed, NEW p \in Procs, NEW o \in Owners, Acknowledge(p, o)
    PROVE  Typed'
<1> USE DEF Typed, TypeOK, Acknowledge
<1>1. SqlTypeOK'
  BY DEF SqlTypeOK
<1>2. StoreTypeOK' /\ mode' \in [Procs -> Modes] /\ faults' \in [FaultKinds -> Nat]
  <2>1. kept' \in [Owners -> BOOLEAN]
    <3>1. \/ kept' = kept
          \/ kept' = [kept EXCEPT ![o] = o \in skips[p]]
      OBVIOUS
    <3>2. kept \in [Owners -> BOOLEAN]
      BY DEF StoreTypeOK
    <3>3. (o \in skips[p]) \in BOOLEAN
      OBVIOUS
    <3> HIDE DEF Typed, TypeOK, Acknowledge
    <3> QED BY Zenon, <3>1, <3>2, <3>3, FlagUpdated
  <2>2. UNCHANGED <<mem, dur, faults>> /\ mode' \in [Procs -> Modes]
    BY DEF Serve, Modes
  <2> QED BY <2>1, <2>2 DEF StoreTypeOK
<1>3. CASE done[p] # {o}
  <2>1. JobTypeOK'
    <3>1. done' = [done EXCEPT ![p] = done[p] \ {o}]
      BY <1>3
    <3>2. UNCHANGED <<step, kind, todo, listed, bad, puts, skips, cur, end, view>>
      BY <1>3
    <3> HIDE DEF Acknowledge
    <3> QED BY <3>1, <3>2 DEF JobTypeOK
  <2>2. JobShape'
    BY ZenonT(60), <1>3 DEF JobTypeOK, JobShape
  <2> QED BY <1>1, <1>2, <2>1, <2>2
<1>4. CASE done[p] = {o}
  BY <1>1, <1>2, <1>4, ReleaseTyped
<1> QED BY <1>3, <1>4

LEMMA StoreFailsTyped ==
    ASSUME Typed, NEW p \in Procs, StoreFails(p)
    PROVE  Typed'
<1> USE DEF Typed, TypeOK, StoreFails
<1>1. SqlTypeOK'
  BY DEF SqlTypeOK, sqlVars
<1>2. StoreTypeOK'
  BY WriteStoreTyped DEF Stores, StoreTypeOK, storeVars
<1>3. mode' \in [Procs -> Modes] /\ faults' \in [FaultKinds -> Nat]
  BY FaultTyped DEF FaultKinds
<1>4. CASE kind[p] # "commit"
  <2>1. JobTypeOK'
    <3>0. {cur[p]} \in SUBSET Owners /\ todo[p] \ {cur[p]} \in SUBSET Owners
      BY TargetOwner DEF JobTypeOK
    <3>a. /\ bad' = [bad EXCEPT ![p] = {cur[p]}]
          /\ todo' = [todo EXCEPT ![p] = todo[p] \ {cur[p]}]
      BY <1>4
    <3>b. bad \in [Procs -> SUBSET Owners] /\ todo \in [Procs -> SUBSET Owners]
      BY DEF JobTypeOK
    <3>1. bad' \in [Procs -> SUBSET Owners] /\ todo' \in [Procs -> SUBSET Owners]
      <4> HIDE DEF Typed, TypeOK, StoreFails
      <4> QED BY <3>0, <3>a, <3>b, OwnersUpdated
    <3>2. step' \in [Procs -> Steps]
      BY ZenonT(90), <1>4 DEF JobTypeOK, Steps
    <3>3. cur' \in [Procs -> Owners \cup {None}] /\ end' \in [Procs -> Entities \cup {None}]
      BY <1>4 DEF JobTypeOK
    <3> QED BY <1>4, <3>1, <3>2, <3>3 DEF JobTypeOK
  <2>2. JobShape'
    <3>1. /\ step' = [step EXCEPT ![p] = "failing"]
          /\ bad' = [bad EXCEPT ![p] = {cur[p]}]
          /\ todo' = [todo EXCEPT ![p] = todo[p] \ {cur[p]}]
          /\ cur' = [cur EXCEPT ![p] = None]
          /\ end' = [end EXCEPT ![p] = None]
          /\ UNCHANGED <<kind, listed, done, skips>>
      BY <1>4
    <3> HIDE DEF StoreFails
    <3> QED BY <1>4, <3>1 DEF JobTypeOK, JobShape
  <2> QED BY <1>1, <1>2, <1>3, <2>1, <2>2
<1>5. CASE kind[p] = "commit"
  BY <1>1, <1>2, <1>3, <1>5, ReleaseTyped
<1> QED BY <1>4, <1>5

LEMMA FlushFailsTyped ==
    ASSUME Typed, NEW p \in Procs, FlushFails(p)
    PROVE  Typed'
<1> USE DEF Typed, TypeOK, FlushFails
<1>1. SqlTypeOK' /\ StoreTypeOK'
  BY DEF SqlTypeOK, StoreTypeOK, sqlVars, storeVars
<1>2. mode' \in [Procs -> Modes] /\ faults' \in [FaultKinds -> Nat]
  BY FaultTyped DEF FaultKinds
<1>3. CASE kind[p] # "commit"
  <2>1. JobTypeOK'
    BY ZenonT(60), <1>3 DEF JobTypeOK, Steps
  <2>2. JobShape'
    BY SMTT(90), <1>3 DEF JobTypeOK, JobShape
  <2> QED BY <1>1, <1>2, <2>1, <2>2
<1>4. CASE kind[p] = "commit"
  BY <1>1, <1>2, <1>4, ReleaseTyped
<1> QED BY <1>3, <1>4

LEMMA MarkFailedTyped ==
    ASSUME Typed, NEW p \in Procs, NEW o \in Owners, MarkFailed(p, o)
    PROVE  Typed'
<1> USE DEF Typed, TypeOK, MarkFailed
<1>1. SqlTypeOK'
  BY DEF SqlTypeOK
<1>2. StoreTypeOK' /\ mode' \in [Procs -> Modes] /\ faults' \in [FaultKinds -> Nat]
  BY DEF StoreTypeOK, storeVars
<1>3. CASE bad[p] # {o}
  <2>1. JobTypeOK'
    <3>0. bad[p] \ {o} \in SUBSET Owners
      BY DEF JobTypeOK
    <3>1. bad' \in [Procs -> SUBSET Owners]
      BY ZenonT(90), <1>3, <3>0, OwnersUpdated DEF JobTypeOK
    <3> QED BY <1>3, <3>1 DEF JobTypeOK
  <2>2. JobShape'
    BY ZenonT(60), <1>3 DEF JobTypeOK, JobShape
  <2> QED BY <1>1, <1>2, <2>1, <2>2
<1>4. CASE bad[p] = {o} /\ kind[p] # "delete"
  <2>1. JobTypeOK'
    BY <1>4 DEF JobTypeOK, Steps
  <2>2. /\ step' = [step EXCEPT ![p] = "project"]
        /\ bad' = [bad EXCEPT ![p] = {}]
        /\ UNCHANGED <<mode, kind, todo, listed, done, puts, skips, cur, end, view>>
    BY <1>4
  <2>3. step[p] = "failing"
    OBVIOUS
  <2>4. JobShape'
    <3> HIDE DEF MarkFailed
    <3> QED BY SMTT(60), <1>4, <2>2, <2>3 DEF JobTypeOK, JobShape
  <2> QED BY <1>1, <1>2, <2>1, <2>4
<1>5. CASE bad[p] = {o} /\ kind[p] = "delete"
  BY <1>1, <1>2, <1>5, ReleaseTyped
<1> QED BY <1>3, <1>4, <1>5

LEMMA AbortTyped ==
    ASSUME Typed, NEW p \in Procs, Abort(p)
    PROVE  Typed'
<1> USE DEF Typed, TypeOK, Abort
<1>1. SqlTypeOK' /\ StoreTypeOK'
  BY DEF SqlTypeOK, StoreTypeOK, sqlVars, storeVars
<1>2. mode' \in [Procs -> Modes]
  BY DEF Modes
<1> QED BY <1>1, <1>2, FaultTyped, ReleaseTyped DEF FaultKinds

LEMMA CrashTyped ==
    ASSUME Typed, NEW p \in Procs, Crash(p)
    PROVE  Typed'
<1> USE DEF Typed, TypeOK, Crash
<1>1. SqlTypeOK' /\ StoreTypeOK'
  BY DEF SqlTypeOK, StoreTypeOK, sqlVars
<1>2. mode' \in [Procs -> Modes]
  BY DEF Modes
<1> QED BY <1>1, <1>2, FaultTyped, ReleaseTyped DEF FaultKinds

(* Every step keeps the types and the shape of the jobs, whatever the      *)
(* number of processes.                                                    *)
LEMMA NextTyped == Typed /\ [Next]_vars => Typed'
<1> SUFFICES ASSUME Typed, [Next]_vars PROVE Typed'
  OBVIOUS
<1>1. CASE Write
  BY <1>1, DeleteEpisodeTyped, CommitStartTyped, ResolveConflictTyped DEF Write
<1>2. ASSUME NEW p \in Procs, Progress(p) PROVE Typed'
  BY <1>2, ReconcileNothingTyped, ReconcileTyped, ListTasksTyped, DescribeTyped,
     EndsReadyTyped, WriteGraphTyped, WriteVdbTyped, BatchDoneTyped, FlushTyped,
     RegisterTyped, StoreAtomTyped, MergeTyped, MergeKeepsTyped, MergeRefusedTyped, FetchTyped, FetchUnlocatedTyped,
     FetchEndTyped, AcknowledgeTyped, MarkFailedTyped DEF Progress
<1>3. ASSUME NEW p \in Procs, Failure(p) PROVE Typed'
  BY <1>3, StoreFailsTyped, FlushFailsTyped, AbortTyped, CrashTyped DEF Failure
<1>4. ASSUME NEW p \in Procs, ProcStart(p) PROVE Typed'
  BY <1>4, ProcStartTyped
<1>5. ASSUME NEW o \in Owners, RetryDue(o) PROVE Typed'
  BY <1>5, RetryDueTyped
<1>6. CASE UNCHANGED vars
  BY <1>6 DEF Typed, TypeOK, SqlTypeOK, StoreTypeOK, JobTypeOK, JobShape, vars,
        sqlVars, storeVars, jobVars
<1> QED BY <1>1, <1>2, <1>3, <1>4, <1>5, <1>6 DEF Next

(* The state of the outbox, the stores and the jobs keeps its types, and a *)
(* job works only on owners it took, for any number of processes.          *)
THEOREM TypeCorrect == Spec => [](TypeOK /\ JobShape)
<1>1. Spec => []Typed
  BY InitTyped, NextTyped, PTL DEF Spec
<1> QED BY <1>1 DEF Typed

-----------------------------------------------------------------------------
(* One process: why an acknowledgement is safe.  The inductive invariant,  *)
(* and what follows from it.                                               *)

SingleProcess == \A p, q \in Procs : p = q

LEMMA InitFence == Init => OutboxInvariant
<1> SUFFICES ASSUME Init PROVE OutboxInvariant
  OBVIOUS
<1>1. TypeOK /\ JobShape
  BY InitTyped DEF Typed
<1> USE DEF Init, Unseen, NotListed
<1>2. Registered
  BY DEF Registered, AtomsRegistered, Owners
<1>3. CopiesBehind
  BY DEF CopiesBehind, Seen, Flushed
<1>4. ReadingFresh /\ DoneProjected /\ NotYetApplied
  BY DEF ReadingFresh, DoneProjected, NotYetApplied
<1>5. AppliedIsCurrent
  BY DEF AppliedIsCurrent
<1> QED BY <1>1, <1>2, <1>3, <1>4, <1>5 DEF OutboxInvariant

LEMMA Numbers ==
    ASSUME TypeOK
    PROVE  /\ \A o \in Owners : rev[o] \in Nat
           /\ \A s \in Stores, o \in Owners : Seen(s, o) \in Nat /\ Flushed(s, o) \in Nat
           /\ \A p \in Procs, o \in Owners : view[p][o].at \in Nat /\ listed[p][o].rev \in Nat
  BY DEF TypeOK, SqlTypeOK, StoreTypeOK, JobTypeOK, Seen, Flushed, View, Listing

LEMMA QueueCopies ==
    ASSUME OutboxInvariant, Typed', NEW Q, Queue(Q, live),
           UNCHANGED <<mem, dur, view, listed>>
    PROVE  CopiesBehind'
<1>1. \A o \in Owners : rev[o] \in Nat /\ rev[o] <= rev'[o]
  BY DEF OutboxInvariant, TypeOK, SqlTypeOK, Queue
<1>2. \A o \in Owners : rev'[o] \in Nat
  BY DEF Typed, TypeOK, SqlTypeOK
<1>3. \A s \in Stores, o \in Owners : Seen(s, o)' = Seen(s, o) /\ Flushed(s, o)' = Flushed(s, o)
  BY DEF Seen, Flushed
<1>4. UNCHANGED <<view, listed>>
  OBVIOUS
<1> QED BY <1>1, <1>2, <1>3, <1>4, Numbers DEF OutboxInvariant, CopiesBehind

LEMMA FlushEffect ==
    ASSUME OutboxInvariant, NEW p \in Procs, Flush(p)
    PROVE  /\ \A s \in Stores, o \in Owners :
                /\ Seen(s, o)' = Seen(s, o)
                /\ Flushed(s, o)' \in {Flushed(s, o), Seen(s, o)}
           /\ step[p] = "flushGraph" =>
                \A o \in Owners : Flushed("graph", o)' = Seen("graph", o)
           /\ step[p] = "flushEntities" =>
                \A o \in Owners : /\ Flushed("graph", o)' = Flushed("graph", o)
                                  /\ o \in Entities => Flushed("vdb", o)' = Seen("vdb", o)
           /\ step[p] = "flushRelations" =>
                \A o \in Owners : /\ Flushed("graph", o)' = Flushed("graph", o)
                                  /\ Flushed("vdb", o)' = IF o \in Relations THEN Seen("vdb", o)
                                                          ELSE Flushed("vdb", o)
  BY DEF OutboxInvariant, TypeOK, StoreTypeOK, Stores, Flush, FlushStore, Seen, Flushed

LEMMA ProcStartFence ==
    ASSUME SingleProcess, OutboxInvariant, Typed', NEW p \in Procs,
           ProcStart(p)
    PROVE  OutboxInvariant'
<1> USE DEF OutboxInvariant, ProcStart, Prune, rowVars, storeVars, jobVars
<1>1. Registered'
  BY OwnersAssumption DEF TypeOK, SqlTypeOK, JobTypeOK, JobShape, Registered, AtomsRegistered, SingleProcess, Owners
<1>2. CopiesBehind'
  BY DEF TypeOK, SqlTypeOK, StoreTypeOK, JobTypeOK, JobShape, CopiesBehind, Seen, Flushed, SingleProcess
<1>3. ReadingFresh'
  BY DEF TypeOK, SqlTypeOK, StoreTypeOK, JobTypeOK, JobShape, ReadingFresh, CopiesBehind, Seen, Flushed, SingleProcess
<1>4. DoneProjected'
  BY DEF TypeOK, SqlTypeOK, StoreTypeOK, JobTypeOK, JobShape, DoneProjected, CopiesBehind, Seen, Flushed, SingleProcess
<1>5. NotYetApplied'
  BY DEF TypeOK, SqlTypeOK, StoreTypeOK, JobTypeOK, JobShape, NotYetApplied, SingleProcess
<1>6. AppliedIsCurrent'
  BY DEF TypeOK, SqlTypeOK, StoreTypeOK, JobTypeOK, JobShape, AppliedIsCurrent
<1> QED BY <1>1, <1>2, <1>3, <1>4, <1>5, <1>6 DEF Typed

LEMMA ReconcileNothingFence ==
    ASSUME SingleProcess, OutboxInvariant, Typed', NEW p \in Procs,
           ReconcileNothing(p)
    PROVE  OutboxInvariant'
<1> USE DEF OutboxInvariant, ReconcileNothing, Serve, sqlVars, storeVars, jobVars
<1>1. Registered'
  BY DEF TypeOK, SqlTypeOK, StoreTypeOK, JobTypeOK, JobShape, Registered, AtomsRegistered, SingleProcess
<1>2. CopiesBehind'
  BY DEF TypeOK, SqlTypeOK, StoreTypeOK, JobTypeOK, JobShape, CopiesBehind, Seen, Flushed, SingleProcess
<1>3. ReadingFresh'
  BY DEF TypeOK, SqlTypeOK, StoreTypeOK, JobTypeOK, JobShape, ReadingFresh, CopiesBehind, Seen, Flushed, SingleProcess
<1>4. DoneProjected'
  BY DEF TypeOK, SqlTypeOK, StoreTypeOK, JobTypeOK, JobShape, DoneProjected, CopiesBehind, Seen, Flushed, SingleProcess
<1>5. NotYetApplied'
  BY DEF TypeOK, SqlTypeOK, StoreTypeOK, JobTypeOK, JobShape, NotYetApplied, SingleProcess
<1>6. AppliedIsCurrent'
  BY DEF TypeOK, SqlTypeOK, StoreTypeOK, JobTypeOK, JobShape, AppliedIsCurrent
<1> QED BY <1>1, <1>2, <1>3, <1>4, <1>5, <1>6 DEF Typed

LEMMA ReconcileFence ==
    ASSUME SingleProcess, OutboxInvariant, Typed', NEW p \in Procs,
           Reconcile(p)
    PROVE  OutboxInvariant'
<1> USE DEF OutboxInvariant, Reconcile, Batches, Reconcilable, ListingOf, NotListed, Outstanding, sqlVars, storeVars
<1>1. Registered'
  BY DEF TypeOK, SqlTypeOK, StoreTypeOK, JobTypeOK, JobShape, Registered, AtomsRegistered, SingleProcess
<1>2. CopiesBehind'
  BY DEF TypeOK, SqlTypeOK, StoreTypeOK, JobTypeOK, JobShape, CopiesBehind, Seen, Flushed, SingleProcess
<1>3. ReadingFresh'
  BY DEF TypeOK, SqlTypeOK, StoreTypeOK, JobTypeOK, JobShape, ReadingFresh, CopiesBehind, Seen, Flushed, SingleProcess
<1>4. DoneProjected'
  BY DEF TypeOK, SqlTypeOK, StoreTypeOK, JobTypeOK, JobShape, DoneProjected, CopiesBehind, Seen, Flushed, SingleProcess
<1>5. NotYetApplied'
  <2>1. done'[p] = {} /\ bad'[p] = {}
    BY DEF JobShape
  <2>2. todo'[p] \subseteq {x \in Owners : status[x] # "applied"} /\ status' = status
    BY DEF TypeOK, JobTypeOK
  <2> HIDE DEF Reconcile
  <2> QED BY <2>1, <2>2 DEF NotYetApplied, SingleProcess
<1>6. AppliedIsCurrent'
  BY DEF TypeOK, SqlTypeOK, StoreTypeOK, JobTypeOK, JobShape, AppliedIsCurrent
<1> QED BY <1>1, <1>2, <1>3, <1>4, <1>5, <1>6 DEF Typed

LEMMA ListTasksFence ==
    ASSUME SingleProcess, OutboxInvariant, Typed', NEW p \in Procs,
           ListTasks(p)
    PROVE  OutboxInvariant'
<1> USE DEF OutboxInvariant, ListTasks, ListingOf, NotListed, Outstanding, sqlVars, storeVars
<1>1. Registered'
  BY DEF TypeOK, SqlTypeOK, StoreTypeOK, JobTypeOK, JobShape, Registered, AtomsRegistered, SingleProcess
<1>2. CopiesBehind'
  BY DEF TypeOK, SqlTypeOK, StoreTypeOK, JobTypeOK, JobShape, CopiesBehind, Seen, Flushed, SingleProcess
<1>3. ReadingFresh'
  BY DEF TypeOK, SqlTypeOK, StoreTypeOK, JobTypeOK, JobShape, ReadingFresh, CopiesBehind, Seen, Flushed, SingleProcess
<1>4. DoneProjected'
  BY DEF TypeOK, SqlTypeOK, StoreTypeOK, JobTypeOK, JobShape, DoneProjected, CopiesBehind, Seen, Flushed, SingleProcess
<1>5. NotYetApplied'
  <2>1. CASE kind[p] = "commit"
    BY <2>1 DEF NotYetApplied, SingleProcess
  <2>2. CASE kind[p] # "commit"
    <3>0. kind[p] = "delete"
      BY <2>2 DEF JobShape
    <3>1. todo'[p] = {x \in todo[p] : Outstanding(x)} /\ status' = status
      BY <3>0 DEF TypeOK, JobTypeOK
    <3>2. done'[p] = {} /\ bad'[p] = {}
      BY DEF JobShape
    <3> HIDE DEF ListTasks
    <3> QED BY <3>1, <3>2 DEF NotYetApplied, SingleProcess
  <2> QED BY <2>1, <2>2
<1>6. AppliedIsCurrent'
  BY DEF TypeOK, SqlTypeOK, StoreTypeOK, JobTypeOK, JobShape, AppliedIsCurrent
<1> QED BY <1>1, <1>2, <1>3, <1>4, <1>5, <1>6 DEF Typed

LEMMA DescribeFence ==
    ASSUME SingleProcess, OutboxInvariant, Typed', NEW p \in Procs,
           Describe(p)
    PROVE  OutboxInvariant'
<1> USE DEF OutboxInvariant, Describe, sqlVars, storeVars
<1>1. Registered'
  BY SMTT(60) DEF TypeOK, SqlTypeOK, StoreTypeOK, JobTypeOK, JobShape, Registered, AtomsRegistered, SingleProcess
<1>2. CopiesBehind'
  BY SMTT(60) DEF TypeOK, SqlTypeOK, StoreTypeOK, JobTypeOK, JobShape, CopiesBehind, Seen, Flushed,
     SingleProcess
<1>3. ReadingFresh'
  BY DEF TypeOK, SqlTypeOK, StoreTypeOK, JobTypeOK, JobShape, ReadingFresh, CopiesBehind, Seen, Flushed, SingleProcess
<1>4. DoneProjected'
  BY DEF TypeOK, SqlTypeOK, StoreTypeOK, JobTypeOK, JobShape, DoneProjected, CopiesBehind, Seen, Flushed, SingleProcess
<1>5. NotYetApplied'
  BY DEF TypeOK, SqlTypeOK, StoreTypeOK, JobTypeOK, JobShape, NotYetApplied, SingleProcess
<1>6. AppliedIsCurrent'
  BY DEF TypeOK, SqlTypeOK, StoreTypeOK, JobTypeOK, JobShape, AppliedIsCurrent
<1> QED BY <1>1, <1>2, <1>3, <1>4, <1>5, <1>6 DEF Typed

LEMMA EndsReadyFence ==
    ASSUME SingleProcess, OutboxInvariant, Typed', NEW p \in Procs,
           EndsReady(p)
    PROVE  OutboxInvariant'
<1> USE DEF OutboxInvariant, EndsReady, sqlVars, storeVars
<1>1. Registered'
  BY DEF TypeOK, SqlTypeOK, StoreTypeOK, JobTypeOK, JobShape, Registered, AtomsRegistered, SingleProcess
<1>2. CopiesBehind'
  BY DEF TypeOK, SqlTypeOK, StoreTypeOK, JobTypeOK, JobShape, CopiesBehind, Seen, Flushed, SingleProcess
<1>3. ReadingFresh'
  BY DEF TypeOK, SqlTypeOK, StoreTypeOK, JobTypeOK, JobShape, ReadingFresh, CopiesBehind, Seen, Flushed, SingleProcess
<1>4. DoneProjected'
  BY DEF TypeOK, SqlTypeOK, StoreTypeOK, JobTypeOK, JobShape, DoneProjected, CopiesBehind, Seen, Flushed, SingleProcess
<1>5. NotYetApplied'
  BY DEF TypeOK, SqlTypeOK, StoreTypeOK, JobTypeOK, JobShape, NotYetApplied, SingleProcess
<1>6. AppliedIsCurrent'
  BY DEF TypeOK, SqlTypeOK, StoreTypeOK, JobTypeOK, JobShape, AppliedIsCurrent
<1> QED BY <1>1, <1>2, <1>3, <1>4, <1>5, <1>6 DEF Typed

LEMMA RegisterFence ==
    ASSUME SingleProcess, OutboxInvariant, Typed', NEW p \in Procs, NEW o \in Owners,
           Register(p, o)
    PROVE  OutboxInvariant'
<1> USE DEF OutboxInvariant, Register, rowVars, storeVars
<1>1. Registered'
  BY OwnersAssumption DEF TypeOK, SqlTypeOK, JobTypeOK, JobShape, Registered, AtomsRegistered, SingleProcess, Owners
<1>2. CopiesBehind'
  BY DEF TypeOK, SqlTypeOK, StoreTypeOK, JobTypeOK, JobShape, CopiesBehind, Seen, Flushed, SingleProcess
<1>3. ReadingFresh'
  BY DEF TypeOK, SqlTypeOK, StoreTypeOK, JobTypeOK, JobShape, ReadingFresh, CopiesBehind, Seen, Flushed, SingleProcess
<1>4. DoneProjected'
  <2>1. \A x \in Owners : listed'[p][x].rev = 0
    BY DEF TypeOK, JobTypeOK, JobShape, NotListed
  <2>2. step'[p] \in {"register", "store"} /\ done' \in [Procs -> SUBSET Owners]
    BY DEF TypeOK, JobTypeOK, Typed
  <2>3. \A s \in Stores, x \in Owners : Seen(s, x)' \in Nat
    BY Numbers DEF Seen
  <2> HIDE DEF Register
  <2> QED BY <2>1, <2>2, <2>3 DEF DoneProjected, SingleProcess, Owners
<1>5. NotYetApplied'
  BY DEF TypeOK, SqlTypeOK, StoreTypeOK, JobTypeOK, JobShape, NotYetApplied, SingleProcess
<1>6. AppliedIsCurrent'
  BY DEF TypeOK, SqlTypeOK, StoreTypeOK, JobTypeOK, JobShape, AppliedIsCurrent
<1> QED BY <1>1, <1>2, <1>3, <1>4, <1>5, <1>6 DEF Typed

LEMMA StoreAtomFence ==
    ASSUME SingleProcess, OutboxInvariant, Typed', NEW p \in Procs, NEW o \in Owners,
           StoreAtom(p, o)
    PROVE  OutboxInvariant'
<1> USE DEF OutboxInvariant, StoreAtom, Queue, storeVars
<1>1. Registered'
  BY DEF TypeOK, SqlTypeOK, StoreTypeOK, JobTypeOK, JobShape, Registered, AtomsRegistered, SingleProcess
<1>2. CopiesBehind'
  BY QueueCopies
<1>3. ReadingFresh'
  BY DEF TypeOK, SqlTypeOK, StoreTypeOK, JobTypeOK, JobShape, ReadingFresh, CopiesBehind, Seen, Flushed, SingleProcess
<1>4. DoneProjected'
  BY DEF TypeOK, SqlTypeOK, StoreTypeOK, JobTypeOK, JobShape, DoneProjected, CopiesBehind, Seen, Flushed, SingleProcess
<1>5. NotYetApplied'
  BY DEF TypeOK, SqlTypeOK, StoreTypeOK, JobTypeOK, JobShape, NotYetApplied, SingleProcess
<1>6. AppliedIsCurrent'
  BY DEF TypeOK, SqlTypeOK, StoreTypeOK, JobTypeOK, JobShape, AppliedIsCurrent
<1> QED BY <1>1, <1>2, <1>3, <1>4, <1>5, <1>6 DEF Typed

LEMMA MergeFence ==
    ASSUME SingleProcess, OutboxInvariant, Typed', NEW p \in Procs, NEW o \in Owners,
           Merge(p, o)
    PROVE  OutboxInvariant'
<1> USE DEF OutboxInvariant, Merge, Begin, sqlVars, storeVars
<1>1. Registered'
  BY SMTT(60) DEF TypeOK, SqlTypeOK, StoreTypeOK, JobTypeOK, JobShape, Registered, AtomsRegistered,
     SingleProcess
<1>2. CopiesBehind'
  BY DEF TypeOK, SqlTypeOK, StoreTypeOK, JobTypeOK, JobShape, CopiesBehind, Seen, Flushed, SingleProcess
<1>3. ReadingFresh'
  BY SMTT(30) DEF TypeOK, SqlTypeOK, StoreTypeOK, JobTypeOK, JobShape, ReadingFresh, CopiesBehind, Seen, Flushed, SingleProcess
<1>4. DoneProjected'
  BY DEF TypeOK, SqlTypeOK, StoreTypeOK, JobTypeOK, JobShape, DoneProjected, CopiesBehind, Seen, Flushed, SingleProcess
<1>5. NotYetApplied'
  BY DEF TypeOK, SqlTypeOK, StoreTypeOK, JobTypeOK, JobShape, NotYetApplied, SingleProcess
<1>6. AppliedIsCurrent'
  BY DEF TypeOK, SqlTypeOK, StoreTypeOK, JobTypeOK, JobShape, AppliedIsCurrent
<1> QED BY <1>1, <1>2, <1>3, <1>4, <1>5, <1>6 DEF Typed

LEMMA MergeKeepsFence ==
    ASSUME SingleProcess, OutboxInvariant, Typed', NEW p \in Procs, NEW o \in Owners,
           MergeKeeps(p, o)
    PROVE  OutboxInvariant'
<1> USE DEF OutboxInvariant, MergeKeeps, Begin, sqlVars, storeVars
<1>1. Registered'
  BY DEF TypeOK, SqlTypeOK, StoreTypeOK, JobTypeOK, JobShape, Registered, AtomsRegistered, SingleProcess
<1>2. CopiesBehind'
  BY DEF TypeOK, SqlTypeOK, StoreTypeOK, JobTypeOK, JobShape, CopiesBehind, Seen, Flushed, SingleProcess
<1>3. ReadingFresh'
  BY DEF TypeOK, SqlTypeOK, StoreTypeOK, JobTypeOK, JobShape, ReadingFresh, CopiesBehind, Seen, Flushed, SingleProcess
<1>4. DoneProjected'
  BY DEF TypeOK, SqlTypeOK, StoreTypeOK, JobTypeOK, View, Listing, Registered, DoneProjected, Seen, Flushed, SingleProcess, Stores
<1>5. NotYetApplied'
  BY DEF TypeOK, SqlTypeOK, StoreTypeOK, JobTypeOK, JobShape, NotYetApplied, SingleProcess
<1>6. AppliedIsCurrent'
  BY DEF TypeOK, SqlTypeOK, StoreTypeOK, JobTypeOK, JobShape, AppliedIsCurrent
<1> QED BY <1>1, <1>2, <1>3, <1>4, <1>5, <1>6 DEF Typed

LEMMA MergeRefusedFence ==
    ASSUME SingleProcess, OutboxInvariant, Typed', NEW p \in Procs, NEW o \in Owners,
           MergeRefused(p, o)
    PROVE  OutboxInvariant'
<1> USE DEF OutboxInvariant, MergeRefused, Begin, Release, NotListed, Unseen, sqlVars, storeVars
<1>1. Registered'
  BY DEF TypeOK, SqlTypeOK, StoreTypeOK, JobTypeOK, JobShape, Registered, AtomsRegistered, SingleProcess
<1>2. CopiesBehind'
  BY DEF TypeOK, SqlTypeOK, StoreTypeOK, JobTypeOK, JobShape, CopiesBehind, Seen, Flushed, SingleProcess
<1>3. ReadingFresh'
  <2>1. \A q \in Procs : step'[q] = "free" /\ end'[q] = None
    BY SMTT(30) DEF SingleProcess, TypeOK, JobTypeOK
  <2> HIDE DEF MergeRefused, Release, OutboxInvariant
  <2> QED BY <2>1 DEF ReadingFresh
<1>4. DoneProjected'
  BY DEF TypeOK, SqlTypeOK, StoreTypeOK, JobTypeOK, JobShape, DoneProjected, CopiesBehind, Seen, Flushed, SingleProcess
<1>5. NotYetApplied'
  BY DEF TypeOK, SqlTypeOK, StoreTypeOK, JobTypeOK, JobShape, NotYetApplied, SingleProcess
<1>6. AppliedIsCurrent'
  BY DEF TypeOK, SqlTypeOK, StoreTypeOK, JobTypeOK, JobShape, AppliedIsCurrent
<1> QED BY <1>1, <1>2, <1>3, <1>4, <1>5, <1>6 DEF Typed

LEMMA FetchFence ==
    ASSUME SingleProcess, OutboxInvariant, Typed', NEW p \in Procs, NEW o \in Owners,
           Fetch(p, o)
    PROVE  OutboxInvariant'
<1> USE DEF OutboxInvariant, Fetch, Begin, sqlVars, storeVars
<1>1. Registered'
  BY SMTT(60) DEF TypeOK, SqlTypeOK, StoreTypeOK, JobTypeOK, JobShape, Registered, AtomsRegistered, SingleProcess
<1>2. CopiesBehind'
  BY SMTT(60) DEF TypeOK, SqlTypeOK, StoreTypeOK, JobTypeOK, JobShape, CopiesBehind, Seen, Flushed,
     SingleProcess
<1>3. ReadingFresh'
  BY DEF TypeOK, SqlTypeOK, StoreTypeOK, JobTypeOK, JobShape, ReadingFresh, CopiesBehind, Seen, Flushed, SingleProcess
<1>4. DoneProjected'
  BY DEF TypeOK, SqlTypeOK, StoreTypeOK, JobTypeOK, JobShape, DoneProjected, CopiesBehind, Seen, Flushed, SingleProcess
<1>5. NotYetApplied'
  BY DEF TypeOK, SqlTypeOK, StoreTypeOK, JobTypeOK, JobShape, NotYetApplied, SingleProcess
<1>6. AppliedIsCurrent'
  BY DEF TypeOK, SqlTypeOK, StoreTypeOK, JobTypeOK, JobShape, AppliedIsCurrent
<1> QED BY <1>1, <1>2, <1>3, <1>4, <1>5, <1>6 DEF Typed

LEMMA FetchUnlocatedFence ==
    ASSUME SingleProcess, OutboxInvariant, Typed', NEW p \in Procs, NEW o \in Owners,
           FetchUnlocated(p, o)
    PROVE  OutboxInvariant'
<1> USE DEF OutboxInvariant, FetchUnlocated, Begin, sqlVars, storeVars
<1>1. Registered'
  BY DEF TypeOK, SqlTypeOK, StoreTypeOK, JobTypeOK, JobShape, Registered, AtomsRegistered, SingleProcess
<1>2. CopiesBehind'
  BY DEF TypeOK, SqlTypeOK, StoreTypeOK, JobTypeOK, JobShape, CopiesBehind, Seen, Flushed, SingleProcess
<1>3. ReadingFresh'
  BY DEF TypeOK, SqlTypeOK, StoreTypeOK, JobTypeOK, JobShape, ReadingFresh, CopiesBehind, Seen, Flushed, SingleProcess
<1>4. DoneProjected'
  BY DEF TypeOK, SqlTypeOK, StoreTypeOK, JobTypeOK, View, Listing, Registered, DoneProjected, Seen, Flushed, SingleProcess, Stores
<1>5. NotYetApplied'
  BY DEF TypeOK, SqlTypeOK, StoreTypeOK, JobTypeOK, JobShape, NotYetApplied, SingleProcess
<1>6. AppliedIsCurrent'
  BY DEF TypeOK, SqlTypeOK, StoreTypeOK, JobTypeOK, JobShape, AppliedIsCurrent
<1> QED BY <1>1, <1>2, <1>3, <1>4, <1>5, <1>6 DEF Typed

LEMMA FetchEndFence ==
    ASSUME SingleProcess, OutboxInvariant, Typed', NEW p \in Procs, NEW o \in Owners,
           FetchEnd(p, o)
    PROVE  OutboxInvariant'
<1> USE DEF OutboxInvariant, FetchEnd, MissingEnds, sqlVars, storeVars
<1>1. Registered'
  BY OwnersAssumption DEF TypeOK, SqlTypeOK, StoreTypeOK, JobTypeOK, JobShape, Registered, AtomsRegistered, SingleProcess
<1>2. CopiesBehind'
  BY SMTT(60), OwnersAssumption DEF TypeOK, SqlTypeOK, StoreTypeOK, JobTypeOK, JobShape,
     CopiesBehind, Seen, Flushed, SingleProcess
<1>3. ReadingFresh'
  BY OwnersAssumption DEF TypeOK, SqlTypeOK, StoreTypeOK, JobTypeOK, JobShape, ReadingFresh, CopiesBehind, Seen, Flushed, SingleProcess
<1>4. DoneProjected'
  BY OwnersAssumption DEF TypeOK, SqlTypeOK, StoreTypeOK, JobTypeOK, JobShape, DoneProjected, CopiesBehind, Seen, Flushed, SingleProcess
<1>5. NotYetApplied'
  BY OwnersAssumption DEF TypeOK, SqlTypeOK, StoreTypeOK, JobTypeOK, JobShape, NotYetApplied, SingleProcess
<1>6. AppliedIsCurrent'
  BY OwnersAssumption DEF TypeOK, SqlTypeOK, StoreTypeOK, JobTypeOK, JobShape, AppliedIsCurrent
<1> QED BY <1>1, <1>2, <1>3, <1>4, <1>5, <1>6 DEF Typed

LEMMA DeleteEpisodeFence ==
    ASSUME SingleProcess, OutboxInvariant, Typed', NEW p \in Procs, NEW A \in SUBSET Owners, NEW K \in SUBSET A,
           DeleteEpisode(p, A, K)
    PROVE  OutboxInvariant'
<1> USE DEF OutboxInvariant, DeleteEpisode, Queue, storeVars
<1>1. Registered'
  BY SMTT(60), OwnersAssumption DEF TypeOK, SqlTypeOK, JobTypeOK, JobShape, Registered,
     AtomsRegistered, SingleProcess, Owners
<1>2. CopiesBehind'
  BY QueueCopies
<1>3. ReadingFresh'
  BY DEF TypeOK, SqlTypeOK, StoreTypeOK, JobTypeOK, JobShape, ReadingFresh, CopiesBehind, Seen, Flushed, SingleProcess
<1>4. DoneProjected'
  BY DEF TypeOK, SqlTypeOK, StoreTypeOK, JobTypeOK, JobShape, DoneProjected, CopiesBehind, Seen, Flushed, SingleProcess
<1>5. NotYetApplied'
  BY DEF TypeOK, SqlTypeOK, StoreTypeOK, JobTypeOK, JobShape, NotYetApplied, SingleProcess
<1>6. AppliedIsCurrent'
  BY DEF TypeOK, SqlTypeOK, StoreTypeOK, JobTypeOK, JobShape, AppliedIsCurrent
<1> QED BY <1>1, <1>2, <1>3, <1>4, <1>5, <1>6 DEF Typed

LEMMA CommitStartFence ==
    ASSUME SingleProcess, OutboxInvariant, Typed', NEW p \in Procs, NEW T \in SUBSET Owners, NEW A \in SUBSET T,
           CommitStart(p, T, A)
    PROVE  OutboxInvariant'
<1> USE DEF OutboxInvariant, CommitStart, CommitPlan, sqlVars, storeVars
<1>1. Registered'
  BY SMTT(60), OwnersAssumption DEF TypeOK, SqlTypeOK, JobTypeOK, JobShape, Registered,
     AtomsRegistered, SingleProcess, Owners
<1>2. CopiesBehind'
  BY DEF TypeOK, SqlTypeOK, StoreTypeOK, JobTypeOK, JobShape, CopiesBehind, Seen, Flushed, SingleProcess
<1>3. ReadingFresh'
  BY DEF TypeOK, SqlTypeOK, StoreTypeOK, JobTypeOK, JobShape, ReadingFresh, CopiesBehind, Seen, Flushed, SingleProcess
<1>4. DoneProjected'
  BY DEF TypeOK, SqlTypeOK, StoreTypeOK, JobTypeOK, JobShape, DoneProjected, CopiesBehind, Seen, Flushed, SingleProcess
<1>5. NotYetApplied'
  BY DEF TypeOK, SqlTypeOK, StoreTypeOK, JobTypeOK, JobShape, NotYetApplied, SingleProcess
<1>6. AppliedIsCurrent'
  BY DEF TypeOK, SqlTypeOK, StoreTypeOK, JobTypeOK, JobShape, AppliedIsCurrent
<1> QED BY <1>1, <1>2, <1>3, <1>4, <1>5, <1>6 DEF Typed

LEMMA ResolveConflictFence ==
    ASSUME SingleProcess, OutboxInvariant, Typed', NEW o \in Owners,
           ResolveConflict(o)
    PROVE  OutboxInvariant'
<1> USE DEF OutboxInvariant, ResolveConflict, Queue, storeVars, jobVars
<1>1. Registered'
  BY DEF TypeOK, SqlTypeOK, StoreTypeOK, JobTypeOK, JobShape, Registered, AtomsRegistered, SingleProcess
<1>2. CopiesBehind'
  BY QueueCopies
<1>3. ReadingFresh'
  BY DEF TypeOK, SqlTypeOK, StoreTypeOK, JobTypeOK, JobShape, ReadingFresh, CopiesBehind, Seen, Flushed, SingleProcess
<1>4. DoneProjected'
  BY DEF TypeOK, SqlTypeOK, StoreTypeOK, JobTypeOK, JobShape, DoneProjected, CopiesBehind, Seen, Flushed, SingleProcess
<1>5. NotYetApplied'
  BY DEF TypeOK, SqlTypeOK, StoreTypeOK, JobTypeOK, JobShape, NotYetApplied, SingleProcess
<1>6. AppliedIsCurrent'
  BY DEF TypeOK, SqlTypeOK, StoreTypeOK, JobTypeOK, JobShape, AppliedIsCurrent
<1> QED BY <1>1, <1>2, <1>3, <1>4, <1>5, <1>6 DEF Typed

LEMMA RetryDueFence ==
    ASSUME SingleProcess, OutboxInvariant, Typed', NEW o \in Owners,
           RetryDue(o)
    PROVE  OutboxInvariant'
<1> USE DEF OutboxInvariant, RetryDue, storeVars, jobVars
<1>1. Registered'
  BY DEF TypeOK, SqlTypeOK, StoreTypeOK, JobTypeOK, JobShape, Registered, AtomsRegistered, SingleProcess
<1>2. CopiesBehind'
  BY DEF TypeOK, SqlTypeOK, StoreTypeOK, JobTypeOK, JobShape, CopiesBehind, Seen, Flushed, SingleProcess
<1>3. ReadingFresh'
  BY DEF TypeOK, SqlTypeOK, StoreTypeOK, JobTypeOK, JobShape, ReadingFresh, CopiesBehind, Seen, Flushed, SingleProcess
<1>4. DoneProjected'
  BY DEF TypeOK, SqlTypeOK, StoreTypeOK, JobTypeOK, JobShape, DoneProjected, CopiesBehind, Seen, Flushed, SingleProcess
<1>5. NotYetApplied'
  BY DEF TypeOK, SqlTypeOK, StoreTypeOK, JobTypeOK, JobShape, NotYetApplied, SingleProcess
<1>6. AppliedIsCurrent'
  BY DEF TypeOK, SqlTypeOK, StoreTypeOK, JobTypeOK, JobShape, AppliedIsCurrent
<1> QED BY <1>1, <1>2, <1>3, <1>4, <1>5, <1>6 DEF Typed

LEMMA BatchDoneFence ==
    ASSUME SingleProcess, OutboxInvariant, Typed', NEW p \in Procs,
           BatchDone(p)
    PROVE  OutboxInvariant'
<1> USE DEF OutboxInvariant, BatchDone, Release, Serve, NotListed, Unseen, sqlVars, storeVars
<1>1. Registered'
  BY DEF TypeOK, SqlTypeOK, StoreTypeOK, JobTypeOK, JobShape, Registered, AtomsRegistered, SingleProcess
<1>2. CopiesBehind'
  BY DEF TypeOK, SqlTypeOK, StoreTypeOK, JobTypeOK, JobShape, CopiesBehind, Seen, Flushed, SingleProcess
<1>3. ReadingFresh'
  BY DEF TypeOK, SqlTypeOK, StoreTypeOK, JobTypeOK, JobShape, ReadingFresh, CopiesBehind, Seen, Flushed, SingleProcess
<1>4. DoneProjected'
  BY DEF TypeOK, SqlTypeOK, StoreTypeOK, JobTypeOK, JobShape, DoneProjected, CopiesBehind, Seen, Flushed, SingleProcess
<1>5. NotYetApplied'
  <2>1. CASE done[p] = {}
    BY <2>1 DEF NotYetApplied, SingleProcess, TypeOK, JobTypeOK
  <2>2. CASE done[p] # {}
    <3>1. UNCHANGED <<kind, todo, listed, done, bad, rev, status>>
      BY <2>2
    <3>2. step[p] = "project"
      OBVIOUS
    <3> HIDE DEF BatchDone, Release
    <3> QED BY <3>1, <3>2 DEF NotYetApplied, SingleProcess
  <2> QED BY <2>1, <2>2
<1>6. AppliedIsCurrent'
  BY DEF TypeOK, SqlTypeOK, StoreTypeOK, JobTypeOK, JobShape, AppliedIsCurrent
<1> QED BY <1>1, <1>2, <1>3, <1>4, <1>5, <1>6 DEF Typed

LEMMA FlushFence ==
    ASSUME SingleProcess, OutboxInvariant, Typed', NEW p \in Procs,
           Flush(p)
    PROVE  OutboxInvariant'
<1> USE DEF OutboxInvariant, Flush, FlushStore, Stores, sqlVars
<1>1. Registered'
  BY DEF TypeOK, SqlTypeOK, StoreTypeOK, JobTypeOK, JobShape, Registered, AtomsRegistered, SingleProcess
<1>2. CopiesBehind'
  <2>1. UNCHANGED <<rev, view, listed>>
    BY SMTT(60)
  <2> HIDE DEF Flush
  <2> QED BY <2>1, FlushEffect, Numbers DEF CopiesBehind
<1>3. ReadingFresh'
  BY DEF TypeOK, SqlTypeOK, StoreTypeOK, JobTypeOK, JobShape, ReadingFresh, CopiesBehind, Seen, Flushed, SingleProcess
<1>4. DoneProjected'
  <2>1. UNCHANGED <<done, skips, listed>>
    OBVIOUS
  <2>2. /\ step[p] = "flushGraph" => step'[p] = "flushEntities"
        /\ step[p] = "flushEntities" => step'[p] = "flushRelations"
        /\ step[p] = "flushRelations" => step'[p] = "ack"
        /\ step[p] \in {"flushGraph", "flushEntities", "flushRelations"}
    BY DEF TypeOK, JobTypeOK
  <2>3. \A q \in Procs : q = p
    BY DEF SingleProcess
  <2>4. \A o \in done[p] : o \in Owners
    BY DEF TypeOK, JobTypeOK
  <2> HIDE DEF Flush
  <2> QED BY <2>1, <2>2, <2>3, <2>4, FlushEffect, Numbers DEF DoneProjected, Stores, Owners
<1>5. NotYetApplied'
  <2>1. UNCHANGED <<kind, todo, done, bad, listed, rev, status>>
    BY DEF sqlVars
  <2>2. step[p] \notin {"free", "list"}
    OBVIOUS
  <2> HIDE DEF Flush
  <2> QED BY <2>1, <2>2 DEF NotYetApplied, SingleProcess
<1>6. AppliedIsCurrent'
  <2>1. UNCHANGED <<rev, status, kept>>
    OBVIOUS
  <2> HIDE DEF Flush
  <2> QED BY <2>1, FlushEffect DEF AppliedIsCurrent, Seen, Flushed
<1> QED BY <1>1, <1>2, <1>3, <1>4, <1>5, <1>6 DEF Typed

LEMMA AcknowledgeFence ==
    ASSUME SingleProcess, OutboxInvariant, Typed', NEW p \in Procs, NEW o \in Owners,
           Acknowledge(p, o)
    PROVE  OutboxInvariant'
<1> USE DEF OutboxInvariant, Acknowledge, Release, Serve, NotListed, Unseen, Current, storeVars
<1>1. Registered'
  BY SMTT(60) DEF TypeOK, SqlTypeOK, StoreTypeOK, JobTypeOK, JobShape, Registered, AtomsRegistered,
     SingleProcess
<1>2. CopiesBehind'
  BY DEF TypeOK, SqlTypeOK, StoreTypeOK, JobTypeOK, JobShape, CopiesBehind, Seen, Flushed, SingleProcess
<1>3. ReadingFresh'
  BY DEF TypeOK, SqlTypeOK, StoreTypeOK, JobTypeOK, JobShape, ReadingFresh, CopiesBehind, Seen, Flushed, SingleProcess
<1>4. DoneProjected'
  BY DEF TypeOK, SqlTypeOK, StoreTypeOK, JobTypeOK, JobShape, DoneProjected, CopiesBehind, Seen, Flushed, SingleProcess
<1>5. NotYetApplied'
  <2>1. todo[p] = {} /\ bad[p] = {}
    BY DEF JobShape
  <2>2. CASE done[p] = {o}
    BY <2>2 DEF NotYetApplied, SingleProcess, TypeOK, JobTypeOK
  <2>3. CASE done[p] # {o}
    <3>1. /\ done'[p] = done[p] \ {o}
          /\ UNCHANGED <<step, kind, todo, bad, listed, rev>>
          /\ \A x \in Owners : x # o => status'[x] = status[x]
      <4>1. done'[p] = done[p] \ {o}
        BY <2>3 DEF TypeOK, JobTypeOK
      <4>2. UNCHANGED <<step, kind, todo, bad, listed, rev>>
        BY <2>3
      <4>3. \A x \in Owners : x # o => status'[x] = status[x]
        <5>1. CASE Outstanding(o) /\ Current(p, o)
          BY <5>1 DEF TypeOK, SqlTypeOK
        <5>2. CASE ~(Outstanding(o) /\ Current(p, o))
          <6> HIDE DEF Outstanding, Current
          <6> QED BY <5>2
        <5> QED BY <5>1, <5>2
      <4> QED BY <4>1, <4>2, <4>3
    <3>2. step[p] = "ack"
      OBVIOUS
    <3> HIDE DEF Acknowledge, Release
    <3> QED BY SMTT(60), <2>1, <3>1, <3>2 DEF NotYetApplied, SingleProcess, TypeOK, JobTypeOK
  <2> QED BY <2>2, <2>3
<1>6. AppliedIsCurrent'
  <2> SUFFICES ASSUME NEW x \in Owners, status'[x] = "applied", ~kept'[x], NEW s \in Stores
               PROVE  Flushed(s, x) = rev[x] /\ Seen(s, x) = rev[x]
    BY DEF AppliedIsCurrent, Seen, Flushed
  <2>1. CASE Outstanding(o) /\ Current(p, o) /\ x = o
    <3>1. rev[o] = listed[p][o].rev /\ step[p] = "ack" /\ o \in done[p]
      BY <2>1
    <3>2. kept'[o] = (o \in skips[p])
      BY <2>1 DEF TypeOK, StoreTypeOK
    <3>3. listed[p][o].rev <= Flushed(s, o)
      <4> HIDE DEF Acknowledge, Release
      <4>1. listed[p][o].rev <= Flushed("graph", o) /\ listed[p][o].rev <= Flushed("vdb", o)
        BY <2>1, <3>1, <3>2 DEF DoneProjected
      <4> QED BY <4>1 DEF Stores
    <3>4. Flushed(s, o) <= Seen(s, o) /\ Seen(s, o) <= rev[o]
      BY DEF CopiesBehind
    <3> HIDE DEF Acknowledge, Release
    <3> QED BY <2>1, <3>1, <3>3, <3>4, Numbers
  <2>2. CASE ~(Outstanding(o) /\ Current(p, o) /\ x = o)
    <3>1. status'[x] = status[x] /\ kept'[x] = kept[x]
      <4>1. CASE Outstanding(o) /\ Current(p, o)
        BY <2>2, <4>1 DEF TypeOK, SqlTypeOK, StoreTypeOK
      <4>2. CASE ~(Outstanding(o) /\ Current(p, o))
        <5> HIDE DEF Outstanding, Current
        <5> QED BY <4>2
      <4> QED BY <4>1, <4>2
    <3> QED BY <3>1 DEF AppliedIsCurrent, Seen, Flushed
  <2> QED BY <2>1, <2>2
<1> QED BY <1>1, <1>2, <1>3, <1>4, <1>5, <1>6 DEF Typed

LEMMA FlushFailsFence ==
    ASSUME SingleProcess, OutboxInvariant, Typed', NEW p \in Procs,
           FlushFails(p)
    PROVE  OutboxInvariant'
<1> USE DEF OutboxInvariant, FlushFails, Release, NotListed, Unseen, sqlVars, storeVars
<1>1. Registered'
  BY SMTT(60) DEF TypeOK, SqlTypeOK, StoreTypeOK, JobTypeOK, JobShape, Registered, AtomsRegistered,
     SingleProcess
<1>2. CopiesBehind'
  BY DEF TypeOK, SqlTypeOK, StoreTypeOK, JobTypeOK, JobShape, CopiesBehind, Seen, Flushed, SingleProcess
<1>3. ReadingFresh'
  BY DEF TypeOK, SqlTypeOK, StoreTypeOK, JobTypeOK, JobShape, ReadingFresh, CopiesBehind, Seen, Flushed, SingleProcess
<1>4. DoneProjected'
  BY DEF TypeOK, SqlTypeOK, StoreTypeOK, JobTypeOK, JobShape, DoneProjected, CopiesBehind, Seen, Flushed, SingleProcess
<1>5. NotYetApplied'
  <2> SUFFICES ASSUME kind'[p] # "commit", step'[p] \notin {"free", "list"},
                      NEW x \in todo'[p] \cup done'[p] \cup bad'[p],
                      listed'[p][x].rev = rev'[x]
               PROVE  status'[x] # "applied"
    BY DEF NotYetApplied, SingleProcess
  <2> QED BY DEF TypeOK, JobTypeOK, JobShape, SqlTypeOK, NotYetApplied
<1>6. AppliedIsCurrent'
  BY DEF TypeOK, SqlTypeOK, StoreTypeOK, JobTypeOK, JobShape, AppliedIsCurrent
<1> QED BY <1>1, <1>2, <1>3, <1>4, <1>5, <1>6 DEF Typed

LEMMA MarkFailedFence ==
    ASSUME SingleProcess, OutboxInvariant, Typed', NEW p \in Procs, NEW o \in Owners,
           MarkFailed(p, o)
    PROVE  OutboxInvariant'
<1> USE DEF OutboxInvariant, MarkFailed, Release, NotListed, Unseen, storeVars
<1>1. Registered'
  BY SMTT(60) DEF TypeOK, SqlTypeOK, StoreTypeOK, JobTypeOK, JobShape, Registered, AtomsRegistered,
     SingleProcess
<1>2. CopiesBehind'
  BY DEF TypeOK, SqlTypeOK, StoreTypeOK, JobTypeOK, JobShape, CopiesBehind, Seen, Flushed, SingleProcess
<1>3. ReadingFresh'
  BY DEF TypeOK, SqlTypeOK, StoreTypeOK, JobTypeOK, JobShape, ReadingFresh, CopiesBehind, Seen, Flushed, SingleProcess
<1>4. DoneProjected'
  BY DEF TypeOK, SqlTypeOK, StoreTypeOK, JobTypeOK, JobShape, DoneProjected, CopiesBehind, Seen, Flushed, SingleProcess
<1>5. NotYetApplied'
  <2>1. CASE bad[p] = {o} /\ kind[p] = "delete"
    BY <2>1 DEF NotYetApplied, SingleProcess, TypeOK, JobTypeOK
  <2>2. CASE ~(bad[p] = {o} /\ kind[p] = "delete")
    <3>1. UNCHANGED <<kind, todo, listed, done, rev>> /\ bad'[p] \subseteq bad[p]
      BY <2>2 DEF TypeOK, JobTypeOK
    <3>2. step[p] = "failing" /\ \A x \in Owners : status'[x] = status[x] \/ status'[x] = "failed"
      BY DEF TypeOK, SqlTypeOK
    <3> HIDE DEF MarkFailed, Release
    <3> QED BY SMTT(60), <3>1, <3>2 DEF NotYetApplied, SingleProcess, TypeOK, JobTypeOK
  <2> QED BY <2>1, <2>2
<1>6. AppliedIsCurrent'
  <2> SUFFICES ASSUME NEW x \in Owners, status'[x] = "applied", ~kept'[x],
                      NEW s \in Stores
               PROVE  dur'[s][x].at = rev'[x] /\ mem'[s][x].at = rev'[x]
    BY DEF AppliedIsCurrent
  <2>1. UNCHANGED <<rev, mem, dur, kept>>
    OBVIOUS
  <2>2. status'[x] = status[x]
    <3>1. status' = status \/ status' = [status EXCEPT ![o] = "failed"]
      BY Zenon
    <3> QED BY <3>1 DEF TypeOK, SqlTypeOK
  <2> HIDE DEF MarkFailed, Release
  <2> QED BY <2>1, <2>2 DEF AppliedIsCurrent
<1> QED BY <1>1, <1>2, <1>3, <1>4, <1>5, <1>6 DEF Typed

LEMMA AbortFence ==
    ASSUME SingleProcess, OutboxInvariant, Typed', NEW p \in Procs,
           Abort(p)
    PROVE  OutboxInvariant'
<1> USE DEF OutboxInvariant, Abort, Release, NotListed, Unseen, sqlVars, storeVars
<1>1. Registered'
  BY DEF TypeOK, SqlTypeOK, StoreTypeOK, JobTypeOK, JobShape, Registered, AtomsRegistered, SingleProcess
<1>2. CopiesBehind'
  BY DEF TypeOK, SqlTypeOK, StoreTypeOK, JobTypeOK, JobShape, CopiesBehind, Seen, Flushed, SingleProcess
<1>3. ReadingFresh'
  <2>1. \A q \in Procs : step'[q] = "free" /\ end'[q] = None
    BY SMTT(30) DEF SingleProcess, TypeOK, JobTypeOK
  <2> HIDE DEF Abort, Release, OutboxInvariant
  <2> QED BY <2>1 DEF ReadingFresh
<1>4. DoneProjected'
  BY DEF TypeOK, SqlTypeOK, StoreTypeOK, JobTypeOK, JobShape, DoneProjected, CopiesBehind, Seen, Flushed, SingleProcess
<1>5. NotYetApplied'
  BY DEF TypeOK, SqlTypeOK, StoreTypeOK, JobTypeOK, JobShape, NotYetApplied, SingleProcess
<1>6. AppliedIsCurrent'
  BY DEF TypeOK, SqlTypeOK, StoreTypeOK, JobTypeOK, JobShape, AppliedIsCurrent
<1> QED BY <1>1, <1>2, <1>3, <1>4, <1>5, <1>6 DEF Typed

LEMMA CrashFence ==
    ASSUME SingleProcess, OutboxInvariant, Typed', NEW p \in Procs,
           Crash(p)
    PROVE  OutboxInvariant'
<1> USE DEF OutboxInvariant, Crash, Release, NotListed, Unseen, sqlVars
<1>1. Registered'
  BY DEF TypeOK, SqlTypeOK, StoreTypeOK, JobTypeOK, JobShape, Registered, AtomsRegistered, SingleProcess
<1>2. CopiesBehind'
  <2>1. \A z \in Stores, x \in Owners :
            /\ Seen(z, x)' \in {Seen(z, x), Flushed(z, x)}
            /\ Flushed(z, x)' = Flushed(z, x)
    BY SMTT(30) DEF Seen, Flushed
  <2>2. rev' = rev /\ \A q \in Procs, x \in Owners : view'[q][x].at = 0 /\ listed'[q][x].rev = 0
    BY SMTT(30) DEF SingleProcess, TypeOK, JobTypeOK
  <2> HIDE DEF Crash, Release
  <2> QED BY <2>1, <2>2, Numbers DEF CopiesBehind
<1>3. ReadingFresh'
  <2>1. \A q \in Procs : step'[q] = "free" /\ end'[q] = None
    BY SMTT(30) DEF SingleProcess, TypeOK, JobTypeOK
  <2> HIDE DEF Crash, Release, OutboxInvariant
  <2> QED BY <2>1 DEF ReadingFresh
<1>4. DoneProjected'
  BY DEF TypeOK, SqlTypeOK, StoreTypeOK, JobTypeOK, JobShape, DoneProjected, CopiesBehind, Seen, Flushed, SingleProcess
<1>5. NotYetApplied'
  BY DEF TypeOK, SqlTypeOK, StoreTypeOK, JobTypeOK, JobShape, NotYetApplied, SingleProcess
<1>6. AppliedIsCurrent'
  BY DEF TypeOK, SqlTypeOK, StoreTypeOK, JobTypeOK, JobShape, AppliedIsCurrent
<1> QED BY <1>1, <1>2, <1>3, <1>4, <1>5, <1>6 DEF Typed

LEMMA WrittenAt ==
    ASSUME NEW s, NEW t, NEW v \in View, NEW g \in [Owners -> View], NEW o \in Owners
    PROVE  Written(s, t, v, g)[o].at = IF o = t THEN v.at ELSE g[o].at
  BY DEF Written, Shown, View

(* A store operation writes the reading of one owner, which is not older   *)
(* than what the store holds.                                              *)
LEMMA WriteEffect ==
    ASSUME OutboxInvariant, NEW p \in Procs, step[p] \in {"graph", "vdb"},
           NEW s \in Stores, WriteStore(p, s)
    PROVE  /\ Target(p) \in Owners
           /\ mem'[s][Target(p)].at = view[p][Target(p)].at
           /\ \A z \in Stores, o \in Owners :
                /\ z # s \/ o # Target(p) => Seen(z, o)' = Seen(z, o)
                /\ Seen(z, o) <= Seen(z, o)' /\ Seen(z, o)' <= rev[o]
                /\ Flushed(z, o)' \in {Flushed(z, o), Seen(z, o)'}
<1> USE DEF OutboxInvariant
<1>1. Target(p) \in Owners
  BY TargetOwner DEF Typed
<1>2. view[p] \in [Owners -> View] /\ view[p][Target(p)] \in View
  BY <1>1 DEF TypeOK, JobTypeOK
<1>3. Seen(s, Target(p)) <= view[p][Target(p)].at
  BY DEF ReadingFresh, Target
<1>4. view[p][Target(p)].at <= rev[Target(p)]
  BY <1>1 DEF CopiesBehind
<1>5. /\ mem \in [Stores -> [Owners -> View]] /\ dur \in [Stores -> [Owners -> View]]
      /\ mem[s] \in [Owners -> View] /\ dur[s] \in [Owners -> View]
  BY DEF TypeOK, StoreTypeOK
<1>6. \A z \in Stores, o \in Owners :
        Seen(z, o)' = IF z = s /\ o = Target(p) THEN view[p][Target(p)].at ELSE Seen(z, o)
  BY <1>2, <1>5, WrittenAt DEF WriteStore, Seen
<1>7. \A z \in Stores, o \in Owners :
        Flushed(z, o)' \in {Flushed(z, o), IF o = Target(p) THEN Seen(z, o)' ELSE Flushed(z, o)}
  BY <1>1, <1>2, <1>5, <1>6, WrittenAt DEF WriteStore, Flushed
<1>8. \A z \in Stores, o \in Owners :
        /\ Seen(z, o) <= Seen(z, o)' /\ Seen(z, o)' <= rev[o]
  <2> SUFFICES ASSUME NEW z \in Stores, NEW o \in Owners
               PROVE  Seen(z, o) <= Seen(z, o)' /\ Seen(z, o)' <= rev[o]
    OBVIOUS
  <2>1. CASE z = s /\ o = Target(p)
    BY <1>1, <1>3, <1>4, <1>6, <2>1
  <2>2. CASE ~(z = s /\ o = Target(p))
    <3>1. Seen(z, o)' = Seen(z, o) /\ Seen(z, o) \in Nat /\ rev[o] \in Nat
      BY <1>6, <2>2, Numbers
    <3>2. Seen(z, o) <= rev[o]
      BY DEF CopiesBehind
    <3> QED BY <3>1, <3>2
  <2> QED BY <2>1, <2>2
<1>9. mem'[s][Target(p)].at = view[p][Target(p)].at
  BY <1>1, <1>6 DEF Seen
<1> QED BY <1>1, <1>6, <1>7, <1>8, <1>9

LEMMA WriteKeeps ==
    ASSUME OutboxInvariant, Typed', NEW p \in Procs, step[p] \in {"graph", "vdb"},
           NEW s \in Stores, WriteStore(p, s), UNCHANGED <<rev, status, kept, view, listed>>
    PROVE  /\ CopiesBehind' /\ AppliedIsCurrent'
           /\ \A z \in Stores, o \in Owners : /\ Seen(z, o) <= Seen(z, o)'
                                              /\ Flushed(z, o) <= Flushed(z, o)'
           /\ \A z \in Stores, o \in Owners :
                Seen(z, o) <= view[p][o].at => Seen(z, o)' <= view[p][o].at
<1> USE DEF OutboxInvariant
<1>1. \A z \in Stores, o \in Owners : Seen(z, o)' \in Nat /\ Flushed(z, o)' \in Nat
  BY DEF Typed, TypeOK, StoreTypeOK, View, Seen, Flushed
<1>2. \A z \in Stores, o \in Owners :
        /\ Seen(z, o) <= Seen(z, o)' /\ Flushed(z, o) <= Flushed(z, o)'
        /\ Flushed(z, o)' <= Seen(z, o)' /\ Seen(z, o)' <= rev[o]
  BY <1>1, WriteEffect, Numbers DEF CopiesBehind
<1>3. CopiesBehind'
  BY <1>2 DEF CopiesBehind
<1>4. AppliedIsCurrent'
  <2> SUFFICES ASSUME NEW o \in Owners, status[o] = "applied", ~kept[o], NEW z \in Stores
               PROVE  Flushed(z, o)' = rev[o] /\ Seen(z, o)' = rev[o]
    BY DEF AppliedIsCurrent, Seen, Flushed
  <2>1. Flushed(z, o) = rev[o]
    BY DEF AppliedIsCurrent, Flushed
  <2> QED BY <1>1, <1>2, <2>1, Numbers
<1>5. \A z \in Stores, o \in Owners :
        Seen(z, o) <= view[p][o].at => Seen(z, o)' <= view[p][o].at
  <2> SUFFICES ASSUME NEW z \in Stores, NEW o \in Owners, Seen(z, o) <= view[p][o].at
               PROVE  Seen(z, o)' <= view[p][o].at
    OBVIOUS
  <2>1. CASE z = s /\ o = Target(p)
    <3>1. Seen(z, o)' = view[p][o].at
      BY <2>1, WriteEffect DEF Seen
    <3> QED BY <3>1, Numbers
  <2>2. CASE ~(z = s /\ o = Target(p))
    <3>1. Seen(z, o)' = Seen(z, o)
      BY <2>2, WriteEffect
    <3> QED BY <3>1
  <2> QED BY <2>1, <2>2
<1> QED BY <1>2, <1>3, <1>4, <1>5

(* The last write of an owner: what was read of it is now in both stores.  *)
LEMMA ProjectedFence ==
    ASSUME SingleProcess, OutboxInvariant, Typed', NEW p \in Procs,
           step[p] \in {"graph", "vdb"}, NEW s \in Stores, WriteStore(p, s), Projected(p),
           s = IF view[p][Target(p)].live THEN "vdb" ELSE "graph",
           s = step[p],
           UNCHANGED <<sqlVars, kept, mode, kind, listed, bad, puts, skips, view, faults>>
    PROVE  OutboxInvariant'
<1> USE DEF OutboxInvariant
<1>u. UNCHANGED <<live, atoms, rev, status, loc, kept, mode, kind, listed, bad, puts, skips,
                  view>>
  BY DEF sqlVars
<1>w. /\ CopiesBehind' /\ AppliedIsCurrent'
      /\ \A z \in Stores, o \in Owners : Seen(z, o) <= Seen(z, o)'
      /\ \A z \in Stores, o \in Owners :
            Seen(z, o) <= view[p][o].at => Seen(z, o)' <= view[p][o].at
  BY <1>u, WriteKeeps
<1>e. /\ mem'[s][Target(p)].at = view[p][Target(p)].at
      /\ \A z \in Stores, o \in Owners :
            z # s \/ o # Target(p) => Seen(z, o)' = Seen(z, o)
  BY WriteEffect
<1>n. \A z \in Stores, o \in Owners : Seen(z, o)' \in Nat
  BY DEF Typed, TypeOK, StoreTypeOK, View, Seen
<1>t. /\ step \in [Procs -> Steps] /\ todo \in [Procs -> SUBSET Owners]
      /\ done \in [Procs -> SUBSET Owners] /\ end \in [Procs -> Entities \cup {None}]
      /\ cur \in [Procs -> Owners \cup {None}] /\ cur[p] \in Owners /\ cur[p] \in todo[p]
      /\ step[p] \in {"graph", "vdb"}
  BY TargetOwner DEF Typed, TypeOK, JobTypeOK, JobShape
<1>1. CASE end[p] # None
  <2>1. /\ end'[p] = None /\ step'[p] = "ends" /\ UNCHANGED <<cur, todo, done>>
    BY <1>1, <1>t DEF Projected
  <2>2. kind[p] # "commit" /\ view[p][cur[p]].live
    BY SMTT(60), <1>1 DEF JobShape, ReadingFresh
  <2>3. Registered'
    BY <1>u, <2>1, <1>t DEF Registered, AtomsRegistered, SingleProcess
  <2>4. ReadingFresh'
    BY <1>u, <1>w, <1>t, <2>1, <2>2 DEF ReadingFresh, SingleProcess
  <2>5. DoneProjected'
    BY <1>u, <1>w, <1>n, <1>t, <2>1, Numbers DEF DoneProjected, SingleProcess
  <2>6. NotYetApplied'
    BY <1>u, <1>t, <2>1 DEF NotYetApplied, SingleProcess
  <2> QED BY <1>w, <2>3, <2>4, <2>5, <2>6 DEF Typed
<1>2. CASE end[p] = None
  <2>1. /\ end'[p] = None /\ step'[p] = "project" /\ cur'[p] = None
        /\ todo'[p] = todo[p] \ {cur[p]} /\ done'[p] = done[p] \cup {cur[p]}
    BY <1>2, <1>t DEF Projected
  <2>2. Target(p) = cur[p]
    BY <1>2 DEF Target
  <2>3. \A z \in Stores : mem'[z][cur[p]].at = view[p][cur[p]].at
    <3>1. mem'[s][cur[p]].at = view[p][cur[p]].at
      BY <1>e, <2>2
    <3>2. \A z \in Stores : z # s => mem'[z][cur[p]].at = Seen(z, cur[p])
      BY <1>e, <1>t DEF Seen
    <3>3. \A z \in Stores : z # s => Seen(z, cur[p]) = view[p][cur[p]].at
      BY <1>2, <1>t, <2>2 DEF ReadingFresh, Stores
    <3> QED BY <3>1, <3>2, <3>3
  <2>4. Registered'
    BY <1>u, <2>1, <1>t DEF Registered, AtomsRegistered, SingleProcess
  <2>5. ReadingFresh'
    BY <1>u, <1>w, <1>t, <2>1 DEF ReadingFresh, SingleProcess
  <2>6. DoneProjected'
    <3>1. \A z \in Stores : listed[p][cur[p]].rev <= mem'[z][cur[p]].at
      BY <2>3, <1>t DEF ReadingFresh
    <3>2. \A z \in Stores, o \in done[p] \ skips[p] : listed[p][o].rev <= Seen(z, o)'
      <4> SUFFICES ASSUME NEW z \in Stores, NEW o \in done[p] \ skips[p]
                   PROVE  listed[p][o].rev <= Seen(z, o)'
        OBVIOUS
      <4>1. o \in Owners
        BY <1>t
      <4>2. listed[p][o].rev <= Seen(z, o) /\ Seen(z, o) <= Seen(z, o)'
        BY <1>w, <4>1 DEF DoneProjected
      <4> QED BY <1>n, <4>1, <4>2, Numbers
    <3> QED BY <1>u, <1>t, <2>1, <3>1, <3>2 DEF DoneProjected, SingleProcess, Seen
  <2>7. NotYetApplied'
    BY <1>u, <1>t, <2>1 DEF NotYetApplied, SingleProcess
  <2> QED BY <1>w, <2>4, <2>5, <2>6, <2>7 DEF Typed
<1> QED BY <1>1, <1>2

(* The first write of an owner: the other store follows.                   *)
LEMMA HalfProjectedFence ==
    ASSUME SingleProcess, OutboxInvariant, Typed', NEW p \in Procs,
           step[p] \in {"graph", "vdb"}, NEW s \in Stores, WriteStore(p, s),
           s = step[p], s = IF view[p][Target(p)].live THEN "graph" ELSE "vdb",
           step' = [step EXCEPT ![p] = IF s = "graph" THEN "vdb" ELSE "graph"],
           UNCHANGED <<sqlVars, kept, mode, kind, todo, listed, done, bad, puts, skips, cur,
                       end, view, faults>>
    PROVE  OutboxInvariant'
<1> USE DEF OutboxInvariant
<1>u. UNCHANGED <<live, atoms, rev, status, loc, kept, mode, kind, todo, listed, done, bad,
                  puts, skips, cur, end, view>>
  BY DEF sqlVars
<1>w. /\ CopiesBehind' /\ AppliedIsCurrent'
      /\ \A z \in Stores, o \in Owners : Seen(z, o) <= Seen(z, o)'
      /\ \A z \in Stores, o \in Owners :
            Seen(z, o) <= view[p][o].at => Seen(z, o)' <= view[p][o].at
  BY <1>u, WriteKeeps
<1>n. \A z \in Stores, o \in Owners : Seen(z, o)' \in Nat
  BY DEF Typed, TypeOK, StoreTypeOK, View, Seen
<1>t. /\ todo[p] \in SUBSET Owners /\ done[p] \in SUBSET Owners
      /\ end[p] \in Entities \cup {None} /\ cur[p] \in Owners
      /\ step[p] \in {"graph", "vdb"} /\ step'[p] = IF s = "graph" THEN "vdb" ELSE "graph"
  BY TargetOwner DEF Typed, TypeOK, JobTypeOK
<1>1. Registered'
  <2>1. step'[p] \notin {"free", "register", "store"} /\ mode[p] # "down"
    <3>1. step'[p] \in {"graph", "vdb"} /\ step[p] # "free"
      BY <1>t
    <3>2. mode[p] = "down" => step[p] = "free"
      BY DEF Registered
    <3> QED BY <3>1, <3>2
  <2> QED BY <1>u, <2>1 DEF Registered, AtomsRegistered, SingleProcess
<1>2. end[p] = None => mem'[s][cur[p]].at = view[p][cur[p]].at
  BY WriteEffect DEF Target
<1>3. ReadingFresh'
  <2>1. kind[p] = "commit" =>
            \A o \in todo[p] : /\ view[p][o].live
                               /\ listed[p][o].rev <= view[p][o].at
                               /\ \A z \in Stores : Seen(z, o)' <= view[p][o].at
    BY <1>w, <1>t DEF ReadingFresh
  <2>2. /\ listed[p][cur[p]].rev <= view[p][cur[p]].at
        /\ \A z \in Stores : mem'[z][cur[p]].at <= view[p][cur[p]].at
    BY <1>w, <1>t DEF ReadingFresh, Seen
  <2>3. end[p] # None => /\ view[p][cur[p]].live /\ view[p][end[p]].live
                         /\ \A z \in Stores : mem'[z][end[p]].at <= view[p][end[p]].at
    BY <1>w, <1>t DEF ReadingFresh, Owners, Seen
  <2>4. end[p] = None => Target(p) = cur[p]
    BY DEF Target
  <2> QED BY SMTT(40), <1>u, <1>t, <1>2, <2>1, <2>2, <2>3, <2>4 DEF ReadingFresh, SingleProcess, Seen
<1>4. DoneProjected'
  BY <1>u, <1>w, <1>n, <1>t, Numbers DEF DoneProjected, SingleProcess
<1>5. NotYetApplied'
  BY <1>u, <1>t DEF NotYetApplied, SingleProcess
<1> QED BY <1>w, <1>1, <1>3, <1>4, <1>5 DEF Typed

LEMMA WriteGraphFence ==
    ASSUME SingleProcess, OutboxInvariant, Typed', NEW p \in Procs, WriteGraph(p)
    PROVE  OutboxInvariant'
<1>1. CASE view[p][Target(p)].live
  BY <1>1, HalfProjectedFence DEF WriteGraph, Stores
<1>2. CASE ~view[p][Target(p)].live
  BY <1>2, ProjectedFence DEF WriteGraph, Stores
<1> QED BY <1>1, <1>2

LEMMA WriteVdbFence ==
    ASSUME SingleProcess, OutboxInvariant, Typed', NEW p \in Procs, WriteVdb(p)
    PROVE  OutboxInvariant'
<1>1. CASE ~view[p][Target(p)].live
  BY <1>1, HalfProjectedFence DEF WriteVdb, Stores
<1>2. CASE view[p][Target(p)].live
  BY <1>2, ProjectedFence DEF WriteVdb, Stores
<1> QED BY <1>1, <1>2

LEMMA StoreFailsFence ==
    ASSUME SingleProcess, OutboxInvariant, Typed', NEW p \in Procs, StoreFails(p)
    PROVE  OutboxInvariant'
<1> USE DEF OutboxInvariant
<1>u. UNCHANGED <<live, atoms, rev, status, loc, kept, mode>> /\ step[p] \in {"graph", "vdb"}
  BY DEF StoreFails, sqlVars
<1>w. /\ \A z \in Stores, o \in Owners : Seen(z, o) <= Seen(z, o)' /\ Seen(z, o)' <= rev[o]
      /\ \A z \in Stores, o \in Owners : Flushed(z, o)' <= Seen(z, o)'
      /\ AppliedIsCurrent'
  <2>1. CASE WriteStore(p, step[p]) /\ UNCHANGED <<view, listed>>
    BY <1>u, <2>1, WriteKeeps, WriteEffect DEF Stores, CopiesBehind
  <2>2. CASE WriteStore(p, step[p])
    <3>1. \A z \in Stores, o \in Owners : Seen(z, o)' \in Nat /\ Flushed(z, o)' \in Nat
      BY DEF Typed, TypeOK, StoreTypeOK, View, Seen, Flushed
    <3>2. \A z \in Stores, o \in Owners :
            /\ Seen(z, o) <= Seen(z, o)' /\ Seen(z, o)' <= rev[o]
            /\ Flushed(z, o) <= Flushed(z, o)' /\ Flushed(z, o)' <= Seen(z, o)'
      BY <1>u, <2>2, <3>1, WriteEffect, Numbers DEF Stores, CopiesBehind
    <3>3. AppliedIsCurrent'
      <4> SUFFICES ASSUME NEW o \in Owners, status[o] = "applied", ~kept[o], NEW z \in Stores
                   PROVE  Flushed(z, o)' = rev[o] /\ Seen(z, o)' = rev[o]
        BY <1>u DEF AppliedIsCurrent, Seen, Flushed
      <4>1. Flushed(z, o) = rev[o]
        BY DEF AppliedIsCurrent, Flushed
      <4> QED BY <3>1, <3>2, <4>1, Numbers
    <3> QED BY <3>2, <3>3
  <2>3. CASE UNCHANGED storeVars
    <3>1. \A z \in Stores, o \in Owners :
            Seen(z, o)' = Seen(z, o) /\ Flushed(z, o)' = Flushed(z, o)
      BY <2>3 DEF storeVars, Seen, Flushed
    <3>2. AppliedIsCurrent'
      BY <1>u, <2>3 DEF AppliedIsCurrent, storeVars
    <3> QED BY <3>1, <3>2, Numbers DEF CopiesBehind
  <2> QED BY <2>2, <2>3 DEF StoreFails
<1>n. \A z \in Stores, o \in Owners : Seen(z, o)' \in Nat
  BY DEF Typed, TypeOK, StoreTypeOK, View, Seen
<1>1. CASE kind[p] = "commit"
  <2>1. /\ step'[p] = "free" /\ done'[p] = {}
        /\ \A o \in Owners : /\ listed'[p][o].rev = 0 /\ view'[p][o].at = 0
    BY <1>1 DEF StoreFails, Release, NotListed, Unseen, TypeOK, JobTypeOK
  <2>2. Registered'
    BY <1>u, <2>1 DEF Registered, AtomsRegistered, SingleProcess
  <2>3. CopiesBehind'
    BY <1>u, <1>w, <2>1, Numbers DEF CopiesBehind, SingleProcess
  <2>4. ReadingFresh'
    <3>1. end'[p] = None
      BY <1>1 DEF StoreFails, Release, TypeOK, JobTypeOK
    <3> QED BY <2>1, <3>1 DEF ReadingFresh, SingleProcess
  <2>5. DoneProjected' /\ NotYetApplied'
    BY <2>1 DEF DoneProjected, NotYetApplied, SingleProcess
  <2> QED BY <1>w, <2>2, <2>3, <2>4, <2>5 DEF Typed
<1>2. CASE kind[p] # "commit"
  <2>1. UNCHANGED <<kind, listed, done, puts, skips, view>> /\ step'[p] = "failing"
    BY <1>2 DEF StoreFails, TypeOK, JobTypeOK
  <2>2. todo'[p] \cup bad'[p] \subseteq todo[p] /\ todo[p] \subseteq Owners
    BY <1>2 DEF StoreFails, TypeOK, JobTypeOK, JobShape
  <2>3. Registered'
    BY <1>u, <2>1 DEF Registered, AtomsRegistered, SingleProcess
  <2>4. CopiesBehind'
    BY <1>u, <1>w, <2>1, Numbers DEF CopiesBehind, SingleProcess
  <2>5. ReadingFresh'
    <3>1. end'[p] = None
      BY <1>2 DEF StoreFails, TypeOK, JobTypeOK
    <3> QED BY <1>2, <2>1, <3>1 DEF ReadingFresh, SingleProcess
  <2>6. DoneProjected'
    <3>1. done[p] \subseteq Owners
      BY DEF TypeOK, JobTypeOK
    <3> QED BY <1>w, <1>n, <2>1, <3>1, Numbers DEF DoneProjected, SingleProcess
  <2>7. NotYetApplied'
    BY <1>u, <2>1, <2>2 DEF NotYetApplied, SingleProcess
  <2> QED BY <1>w, <2>3, <2>4, <2>5, <2>6, <2>7 DEF Typed
<1> QED BY <1>1, <1>2

LEMMA NextFence == SingleProcess /\ OutboxInvariant /\ [Next]_vars => OutboxInvariant'
<1> SUFFICES ASSUME SingleProcess, OutboxInvariant, [Next]_vars PROVE OutboxInvariant'
  OBVIOUS
<1>0. Typed'
  BY NextTyped DEF OutboxInvariant, Typed
<1>1. CASE Write
  BY <1>0, <1>1, DeleteEpisodeFence, CommitStartFence, ResolveConflictFence DEF Write
<1>2. ASSUME NEW p \in Procs, Progress(p) PROVE OutboxInvariant'
  BY <1>0, <1>2, ReconcileNothingFence, ReconcileFence, ListTasksFence, DescribeFence,
     EndsReadyFence, WriteGraphFence, WriteVdbFence, BatchDoneFence, FlushFence,
     RegisterFence, StoreAtomFence, MergeFence, MergeKeepsFence, MergeRefusedFence, FetchFence, FetchUnlocatedFence,
     FetchEndFence, AcknowledgeFence, MarkFailedFence DEF Progress
<1>3. ASSUME NEW p \in Procs, Failure(p) PROVE OutboxInvariant'
  BY <1>0, <1>3, StoreFailsFence, FlushFailsFence, AbortFence, CrashFence DEF Failure
<1>4. ASSUME NEW p \in Procs, ProcStart(p) PROVE OutboxInvariant'
  BY <1>0, <1>4, ProcStartFence
<1>5. ASSUME NEW o \in Owners, RetryDue(o) PROVE OutboxInvariant'
  BY <1>0, <1>5, RetryDueFence
<1>6. CASE UNCHANGED vars
  <2> USE <1>6 DEF vars, sqlVars, storeVars, jobVars
  <2>1. Registered' /\ NotYetApplied' /\ AppliedIsCurrent'
    BY DEF OutboxInvariant, Registered, AtomsRegistered, NotYetApplied, AppliedIsCurrent
  <2>2. CopiesBehind' /\ ReadingFresh' /\ DoneProjected'
    BY DEF OutboxInvariant, CopiesBehind, ReadingFresh, DoneProjected, Seen, Flushed
  <2> QED BY <1>0, <2>1, <2>2 DEF OutboxInvariant, Typed
<1> QED BY <1>1, <1>2, <1>3, <1>4, <1>5, <1>6 DEF Next

(* With one process, every state of the outbox satisfies its inductive     *)
(* invariant: what a job has done, but for the owners whose merge returned *)
(* early, is in the stores as new as its listing, and on disk once their   *)
(* store was flushed.                                                      *)
THEOREM FenceInvariant == SingleProcess => (Spec => []OutboxInvariant)
<1>1. SUFFICES ASSUME SingleProcess PROVE Spec => []OutboxInvariant
  OBVIOUS
<1>2. OutboxInvariant /\ [Next]_vars => OutboxInvariant'
  BY <1>1, NextFence
<1> QED BY <1>2, InitFence, PTL DEF Spec

(* With one process over the workspace, an acknowledged owner is durably   *)
(* projected at its current revision, whatever the failures, crashes and   *)
(* unlocked conflict resolutions, unless the merge of the commit that      *)
(* acknowledged it returned early at the limit of sources (KEEP).          *)
THEOREM AcknowledgedIsCurrent == SingleProcess => (Spec => []AppliedIsCurrent)
<1>1. OutboxInvariant => AppliedIsCurrent
  BY DEF OutboxInvariant
<1> QED BY <1>1, FenceInvariant, PTL

(* With one process, an owner that holds Atoms keeps its registry row: no  *)
(* startup repair and no hard delete takes it away.                        *)
THEOREM AtomsKeepTheirOwner == SingleProcess => (Spec => []AtomsRegistered)
<1>1. OutboxInvariant => AtomsRegistered
  BY DEF OutboxInvariant, Registered
<1> QED BY <1>1, FenceInvariant, PTL

-----------------------------------------------------------------------------
(* One process: the outbox implements DurableReplica.  The derived stores  *)
(* never show a revision SQLite has not committed, never go back, and an   *)
(* owner is settled only while both hold its latest revision.              *)

ShownMap == [s \in Stores |-> [o \in Owners |-> dur[s][o].at]]
SettledMap == [o \in Owners |-> status[o] = "applied" /\ ~kept[o]]

Quiet == UNCHANGED <<rev, status, kept, dur>>

LEMMA QuietStutters == Quiet => UNCHANGED Replica!vars
  BY DEF Quiet, Replica!vars

LEMMA QueueChanges ==
    ASSUME NEW Q \in SUBSET Owners, Queue(Q, live), UNCHANGED dur, TypeOK
    PROVE  Replica!Change(Q)
<1>1. rev' = [o \in Owners |-> IF o \in Q THEN rev[o] + 1 ELSE rev[o]]
  BY DEF Queue
<1>2. \A o \in Owners :
        (status'[o] = "applied" /\ ~kept'[o])
            <=> (status[o] = "applied" /\ ~kept[o] /\ o \notin Q)
  BY DEF Queue, TypeOK, SqlTypeOK
<1>3. SettledMap' = [o \in Owners |-> SettledMap[o] /\ o \notin Q]
  BY <1>2 DEF SettledMap
<1> QED BY <1>1, <1>3 DEF Replica!Change, SettledMap

LEMMA GrowthCatchesUp ==
    ASSUME OutboxInvariant, OutboxInvariant', UNCHANGED <<rev, status, kept>>,
           \A s \in Stores, o \in Owners : Flushed(s, o) <= Flushed(s, o)'
    PROVE  Replica!CatchUp
<1>1. \A s \in Stores, o \in Owners : Flushed(s, o)' \in Nat /\ Flushed(s, o)' <= rev[o]
  <2>1. \A s \in Stores, o \in Owners :
            Flushed(s, o)' \in Nat /\ Seen(s, o)' \in Nat /\ rev[o] \in Nat
    BY Numbers DEF OutboxInvariant, TypeOK, StoreTypeOK, SqlTypeOK, View, Seen, Flushed
  <2>2. \A s \in Stores, o \in Owners : Flushed(s, o)' <= Seen(s, o)' /\ Seen(s, o)' <= rev[o]
    BY DEF OutboxInvariant, CopiesBehind
  <2> QED BY <2>1, <2>2
<1>2. ShownMap' \in [Stores -> [Owners -> Nat]]
  BY <1>1 DEF ShownMap, Flushed
<1>3. \A s \in Stores : \A o \in Owners :
        ShownMap[s][o] <= ShownMap'[s][o] /\ ShownMap'[s][o] <= rev[o]
  BY <1>1 DEF ShownMap, Flushed
<1> QED BY <1>2, <1>3 DEF Replica!CatchUp, ShownMap

LEMMA WritesCatchUp ==
    ASSUME OutboxInvariant, OutboxInvariant', NEW p \in Procs,
           WriteGraph(p) \/ WriteVdb(p) \/ StoreFails(p) \/ Flush(p)
    PROVE  Replica!CatchUp
<1>1. UNCHANGED <<rev, status, kept>>
  BY DEF WriteGraph, WriteVdb, StoreFails, Flush, sqlVars
<1>2. \A s \in Stores, o \in Owners :
        /\ Flushed(s, o)' \in Nat
        /\ Flushed(s, o) <= Seen(s, o)
  BY DEF OutboxInvariant, CopiesBehind, TypeOK, StoreTypeOK, View, Flushed
<1>3. ASSUME NEW z \in Stores, step[p] \in {"graph", "vdb"}, WriteStore(p, z)
      PROVE  \A s \in Stores, o \in Owners : Flushed(s, o) <= Flushed(s, o)'
  <2>1. \A s \in Stores, o \in Owners : Flushed(s, o)' \in {Flushed(s, o), Seen(s, o)'}
    BY <1>3, WriteEffect
  <2>2. \A s \in Stores, o \in Owners : Seen(s, o) <= Seen(s, o)' /\ Seen(s, o)' \in Nat
    BY <1>3, WriteEffect DEF OutboxInvariant, TypeOK, StoreTypeOK, View, Seen
  <2> QED BY <1>2, <2>1, <2>2, Numbers DEF OutboxInvariant
<1>4. CASE WriteGraph(p) \/ WriteVdb(p)
  BY <1>1, <1>3, <1>4, GrowthCatchesUp DEF WriteGraph, WriteVdb, Stores
<1>5. CASE StoreFails(p)
  <2>1. CASE UNCHANGED storeVars
    <3>1. \A s \in Stores, o \in Owners : Flushed(s, o) <= Flushed(s, o)'
      BY <2>1, Numbers DEF OutboxInvariant, storeVars, Flushed
    <3> QED BY <1>1, <3>1, GrowthCatchesUp
  <2>2. CASE WriteStore(p, step[p])
    BY <1>1, <1>3, <1>5, <2>2, GrowthCatchesUp DEF StoreFails, Stores
  <2> QED BY <1>5, <2>1, <2>2 DEF StoreFails
<1>6. CASE Flush(p)
  <2>1. \A s \in Stores, o \in Owners : Flushed(s, o) <= Flushed(s, o)'
    BY <1>2, <1>6, FlushEffect, Numbers DEF OutboxInvariant
  <2> QED BY <1>1, <2>1, GrowthCatchesUp
<1> QED BY <1>4, <1>5, <1>6

LEMMA AcknowledgeSettles ==
    ASSUME OutboxInvariant, OutboxInvariant', NEW p \in Procs, NEW o \in Owners,
           Acknowledge(p, o)
    PROVE  Replica!Settle(o) \/ UNCHANGED Replica!vars
<1>0. UNCHANGED <<rev, dur>>
  BY DEF Acknowledge
<1>1. CASE Outstanding(o) /\ Current(p, o)
  <2>1. /\ status' = [status EXCEPT ![o] = "applied"]
        /\ kept' = [kept EXCEPT ![o] = o \in skips[p]]
    BY <1>1 DEF Acknowledge
  <2>2. /\ status'[o] = "applied" /\ kept'[o] = (o \in skips[p])
        /\ \A x \in Owners \ {o} : status'[x] = status[x] /\ kept'[x] = kept[x]
    BY <2>1 DEF OutboxInvariant, TypeOK, SqlTypeOK, StoreTypeOK
  <2>3. CASE o \notin skips[p]
    <3>1. SettledMap' = [SettledMap EXCEPT ![o] = TRUE]
      BY <2>2, <2>3 DEF SettledMap
    <3>2. \A s \in Stores : ShownMap[s][o] = rev[o]
      BY <1>0, <2>2, <2>3 DEF OutboxInvariant, AppliedIsCurrent, ShownMap
    <3> QED BY <1>0, <3>1, <3>2 DEF Replica!Settle, SettledMap, ShownMap
  <2>4. CASE o \in skips[p]
    <3>1. status[o] # "applied"
      BY <1>1 DEF Outstanding
    <3>2. SettledMap' = SettledMap
      BY <2>2, <2>4, <3>1 DEF SettledMap
    <3> QED BY <1>0, <3>2 DEF Replica!vars, SettledMap
  <2> QED BY <2>3, <2>4
<1>2. CASE ~(Outstanding(o) /\ Current(p, o))
  BY <1>0, <1>2, QuietStutters DEF Acknowledge, Quiet
<1> QED BY <1>1, <1>2

LEMMA MarkFailedStutters ==
    ASSUME OutboxInvariant, NEW p \in Procs, NEW o \in Owners, MarkFailed(p, o)
    PROVE  UNCHANGED Replica!vars
<1>0. UNCHANGED <<rev, kept, dur>>
  BY DEF MarkFailed, storeVars
<1>1. CASE Current(p, o)
  <2>1. status' = [status EXCEPT ![o] = "failed"]
    BY <1>1 DEF MarkFailed
  <2>2. status[o] # "applied"
    BY <1>1 DEF MarkFailed, Current, OutboxInvariant, NotYetApplied, JobShape
  <2>3. \A x \in Owners : (status'[x] = "applied") = (status[x] = "applied")
    BY <2>1, <2>2 DEF OutboxInvariant, TypeOK, SqlTypeOK
  <2>4. SettledMap' = SettledMap
    BY <1>0, <2>3 DEF SettledMap
  <2> QED BY <1>0, <2>4 DEF Replica!vars, SettledMap
<1>2. CASE ~Current(p, o)
  BY <1>0, <1>2, QuietStutters DEF MarkFailed, Quiet
<1> QED BY <1>1, <1>2

LEMMA DeleteChanges ==
    ASSUME OutboxInvariant, NEW p \in Procs, NEW A \in SUBSET Owners, NEW K \in SUBSET A,
           DeleteEpisode(p, A, K)
    PROVE  Replica!Next
<1> DEFINE Q == A \cup UNION {Ends[r] : r \in A \cap Relations}
<1>1. Q \in SUBSET Owners
  BY OwnersAssumption DEF Owners
<1>2. Queue(Q, live) /\ UNCHANGED dur
  BY DEF DeleteEpisode, storeVars
<1>3. Replica!Change(Q)
  BY <1>1, <1>2, QueueChanges DEF OutboxInvariant
<1> QED BY <1>1, <1>3 DEF Replica!Next

LEMMA NextRefines ==
    SingleProcess /\ OutboxInvariant /\ OutboxInvariant' /\ [Next]_vars
        => [Replica!Next]_(Replica!vars)
<1> SUFFICES ASSUME OutboxInvariant, OutboxInvariant', [Next]_vars
             PROVE  Replica!Next \/ UNCHANGED Replica!vars
  OBVIOUS
<1>1. CASE Write
  <2>1. ASSUME NEW o \in Owners, ResolveConflict(o) PROVE Replica!Next
    <3>1. Replica!Change({o})
      BY <2>1, QueueChanges DEF ResolveConflict, storeVars, OutboxInvariant
    <3> QED BY <3>1 DEF Replica!Next
  <2>2. ASSUME NEW p \in Procs, NEW T, NEW A, CommitStart(p, T, A)
        PROVE  UNCHANGED Replica!vars
    BY <2>2, QuietStutters DEF CommitStart, Quiet, sqlVars, storeVars
  <2> QED BY <1>1, <2>1, <2>2, DeleteChanges DEF Write
<1>2. ASSUME NEW p \in Procs, Progress(p) PROVE Replica!Next \/ UNCHANGED Replica!vars
  <2>1. CASE \/ ReconcileNothing(p) \/ Reconcile(p) \/ ListTasks(p) \/ Describe(p)
             \/ EndsReady(p) \/ BatchDone(p)
    <3>1. Quiet
      BY <2>1 DEF Quiet, sqlVars, storeVars, ReconcileNothing, Reconcile, ListTasks,
         Describe, EndsReady, BatchDone
    <3> QED BY <3>1, QuietStutters
  <2>2. CASE WriteGraph(p) \/ WriteVdb(p) \/ Flush(p)
    BY <2>2, WritesCatchUp DEF Replica!Next
  <2>3. ASSUME NEW o \in Owners,
               \/ Register(p, o) \/ Merge(p, o) \/ MergeKeeps(p, o)
               \/ MergeRefused(p, o) \/ Fetch(p, o) \/ FetchUnlocated(p, o)
               \/ FetchEnd(p, o)
        PROVE  UNCHANGED Replica!vars
    <3>1. Quiet
      BY <2>3 DEF Quiet, sqlVars, rowVars, storeVars, Register, Merge, MergeKeeps,
       MergeRefused, Fetch, FetchUnlocated,
         FetchEnd
    <3> QED BY <3>1, QuietStutters
  <2>4. ASSUME NEW o \in Owners, StoreAtom(p, o) PROVE Replica!Next
    <3>1. Replica!Change({o})
      BY <2>4, QueueChanges DEF StoreAtom, storeVars, OutboxInvariant
    <3> QED BY <3>1 DEF Replica!Next
  <2> QED BY <1>2, <2>1, <2>2, <2>3, <2>4, AcknowledgeSettles, MarkFailedStutters
          DEF Progress, Replica!Next
<1>3. ASSUME NEW p \in Procs, Failure(p) PROVE Replica!Next \/ UNCHANGED Replica!vars
  <2>1. CASE FlushFails(p) \/ Abort(p) \/ Crash(p)
    <3>1. Quiet
      BY <2>1 DEF Quiet, sqlVars, storeVars, FlushFails, Abort, Crash
    <3> QED BY <3>1, QuietStutters
  <2> QED BY <1>3, <2>1, WritesCatchUp DEF Failure, Replica!Next
<1>4. ASSUME NEW p \in Procs, ProcStart(p) PROVE UNCHANGED Replica!vars
  BY <1>4, QuietStutters DEF Quiet, ProcStart, rowVars, storeVars
<1>5. ASSUME NEW o \in Owners, RetryDue(o) PROVE UNCHANGED Replica!vars
  BY <1>5, QuietStutters DEF Quiet, RetryDue, storeVars
<1>6. CASE UNCHANGED vars
  BY <1>6, QuietStutters DEF Quiet, vars, sqlVars, storeVars
<1> QED BY <1>1, <1>2, <1>3, <1>4, <1>5, <1>6 DEF Next

LEMMA InitRefines == Init => Replica!Init
<1> SUFFICES ASSUME Init PROVE Replica!Init
  OBVIOUS
<1>1. rev = [o \in Owners |-> 0]
  BY DEF Init
<1>2. ShownMap = [s \in Stores |-> [o \in Owners |-> 0]]
  BY DEF Init, Unseen, ShownMap
<1>3. \A o \in Owners : (status[o] = "applied") = FALSE
  BY DEF Init
<1>4. SettledMap = [o \in Owners |-> FALSE]
  BY <1>3 DEF SettledMap
<1> QED BY <1>1, <1>2, <1>4 DEF Replica!Init, ShownMap, SettledMap

(* With one process over the workspace, the outbox implements the abstract *)
(* replica, through every failure, crash, restart and concurrent change; a *)
(* row acknowledged by a merge that kept the old copy settles nothing.     *)
THEOREM OutboxImplementsReplica == SingleProcess => (Spec => ImplementsReplica)
<1>1. SUFFICES ASSUME SingleProcess PROVE Spec => Replica!Spec
  BY DEF ImplementsReplica
<1>2. OutboxInvariant /\ OutboxInvariant' /\ [Next]_vars => [Replica!Next]_(Replica!vars)
  BY <1>1, NextRefines
<1>3. Spec => []OutboxInvariant
  BY <1>1, FenceInvariant
<1> QED BY <1>2, <1>3, InitRefines, PTL DEF Spec, Replica!Spec

(* With one process, the durable copy of an owner never goes back to an    *)
(* older state.                                                            *)
THEOREM CopiesNeverGoBack == SingleProcess => (Spec => NoStaleOverwrite)
<1>1. SUFFICES ASSUME SingleProcess PROVE Spec => NoStaleOverwrite
  OBVIOUS
<1>2. OutboxInvariant /\ OutboxInvariant' /\ [Next]_vars =>
        [\A s \in Stores : \A o \in Owners : dur'[s][o].at >= dur[s][o].at]_vars
  <2> SUFFICES ASSUME OutboxInvariant, OutboxInvariant', [Next]_vars,
                      NEW s \in Stores, NEW o \in Owners
               PROVE  dur'[s][o].at >= dur[s][o].at
    OBVIOUS
  <2>1. dur[s][o].at \in Nat
    BY DEF OutboxInvariant, TypeOK, StoreTypeOK, View
  <2>2. Replica!Next \/ UNCHANGED Replica!vars
    BY <1>1, NextRefines
  <2>3. ShownMap[s][o] = dur[s][o].at /\ ShownMap'[s][o] = dur'[s][o].at
    BY DEF ShownMap
  <2>4. ShownMap' = ShownMap \/ ShownMap[s][o] <= ShownMap'[s][o]
    BY <2>2 DEF Replica!Next, Replica!Change, Replica!CatchUp, Replica!Settle, Replica!vars,
       ShownMap
  <2> QED BY <2>1, <2>3, <2>4
<1>3. Spec => []OutboxInvariant
  BY <1>1, FenceInvariant
<1> QED BY <1>2, <1>3, PTL DEF Spec, NoStaleOverwrite

-----------------------------------------------------------------------------
(* One process: an acknowledged owner can be found.                        *)

LEMMA InitVisible == Init => VisibleInvariant
<1> SUFFICES ASSUME Init PROVE VisibleInvariant
  OBVIOUS
<1> USE DEF Init, Unseen
<1>1. RowsNumbered /\ CommitCovers /\ ReadHolds
  BY DEF RowsNumbered, CommitCovers, ReadHolds
<1>2. HalfShown /\ DoneShown /\ AppliedIsVisible
  BY DEF HalfShown, DoneShown, Answered, AppliedIsVisible
<1> QED BY <1>1, <1>2 DEF VisibleInvariant

(* A job that writes an owner has read what is registered of it.           *)
LEMMA TargetRead ==
    ASSUME OutboxInvariant, VisibleInvariant, NEW p \in Procs, step[p] \in {"graph", "vdb"}
    PROVE  view[p][Target(p)].live = live[Target(p)]
  BY DEF OutboxInvariant, VisibleInvariant, ReadHolds, ReadingFresh, Target

LEMMA WrittenLive ==
    ASSUME NEW s, NEW t, NEW v \in View, NEW g \in [Owners -> View], NEW o \in Owners
    PROVE  Written(s, t, v, g)[o].live =
              IF o = t
              THEN v.live /\ (s = "graph" /\ o \in Relations =>
                                \A e \in Ends[o] : mem["graph"][e].live)
              ELSE g[o].live /\ ~(s = "graph" /\ t \in Entities /\ Detached(o, t, v))
<1>1. \A w \in View, b \in BOOLEAN : [w EXCEPT !.live = b].live = b
  BY DEF View
<1>2. g[o] \in View /\ v.live \in BOOLEAN /\ g[o].live \in BOOLEAN
  BY DEF View
<1>3. CASE o = t
  BY <1>1, <1>2, <1>3 DEF Written, Shown
<1>4. CASE o # t
  BY <1>1, <1>2, <1>4 DEF Written
<1> QED BY <1>3, <1>4

(* A store operation leaves a copy's visibility alone, or makes it that of *)
(* the registry; the owner it writes is then visible exactly when it is    *)
(* registered.                                                             *)
LEMMA WriteShows ==
    ASSUME OutboxInvariant, VisibleInvariant, NEW p \in Procs,
           NEW s \in Stores, s = step[p], WriteStore(p, s)
    PROVE  /\ mem'[s][Target(p)].live = live[Target(p)]
           /\ \A z \in Stores, o \in Owners :
                /\ mem'[z][o].live \in {mem[z][o].live, live[o]}
                /\ dur'[z][o].live \in {dur[z][o].live, live[o]}
           /\ \A z \in Stores \ {s}, o \in Owners : mem'[z][o] = mem[z][o]
<1> USE DEF OutboxInvariant
<1> DEFINE t == Target(p)
<1>0. step[p] \in {"graph", "vdb"}
  BY DEF Stores
<1>1. t \in Owners /\ cur[p] \in Owners
  BY <1>0, TargetOwner DEF Typed
<1>2. view[p] \in [Owners -> View] /\ view[p][t] \in View
  BY <1>1 DEF TypeOK, JobTypeOK
<1>3. view[p][t].live = live[t]
  BY <1>0, TargetRead
<1>4. /\ mem \in [Stores -> [Owners -> View]] /\ dur \in [Stores -> [Owners -> View]]
      /\ mem[s] \in [Owners -> View] /\ dur[s] \in [Owners -> View]
      /\ live \in [Owners -> BOOLEAN]
  BY DEF TypeOK, StoreTypeOK, SqlTypeOK
<1>5. /\ mem' = [mem EXCEPT ![s] = Written(s, t, view[p][t], mem[s])]
      /\ dur' = [dur EXCEPT ![s] = Written(s, t, view[p][t], dur[s])] \/ dur' = dur
  BY DEF WriteStore
<1>6. live[t] /\ s = "graph" /\ t \in Relations => \A e \in Ends[t] : mem["graph"][e].live
  <2>1. CASE end[p] = None
    BY <1>3, <2>1 DEF Target, VisibleInvariant, HalfShown
  <2>2. CASE end[p] # None
    <3>1. t \in Entities
      BY <2>2 DEF Target, TypeOK, JobTypeOK
    <3> QED BY <3>1, OwnersAssumption
  <2> QED BY <2>1, <2>2
<1>7. \A o \in Owners : s = "graph" /\ t \in Entities /\ Detached(o, t, view[p][t]) => ~live[o]
  <2> SUFFICES ASSUME NEW o \in Owners, Detached(o, t, view[p][t])
               PROVE  ~live[o]
    OBVIOUS
  <2>1. o \in Relations /\ t \in Ends[o] /\ ~live[t]
    BY <1>3 DEF Detached
  <2> QED BY <2>1 DEF Registered
<1>8. ASSUME NEW g \in [Owners -> View], NEW o \in Owners
      PROVE  /\ Written(s, t, view[p][t], g)[o].live \in {g[o].live, live[o]}
             /\ o = t => Written(s, t, view[p][t], g)[o].live = live[o]
  <2>1. live[o] \in BOOLEAN /\ g[o].live \in BOOLEAN
    BY <1>4 DEF View
  <2>2. CASE o = t
    BY <1>2, <1>3, <1>6, <2>1, <2>2, WrittenLive
  <2>3. CASE o # t
    BY <1>2, <1>7, <2>1, <2>3, WrittenLive
  <2> QED BY <2>2, <2>3
<1> HIDE DEF t
<1>9. \A z \in Stores, o \in Owners :
         /\ mem'[z][o] = IF z = s THEN Written(s, t, view[p][t], mem[s])[o] ELSE mem[z][o]
         /\ dur'[z][o] \in {dur[z][o], IF z = s THEN Written(s, t, view[p][t], dur[s])[o]
                                       ELSE dur[z][o]}
  BY <1>4, <1>5
<1>10. mem'[s][t].live = live[t]
  <2>1. mem'[s][t] = Written(s, t, view[p][t], mem[s])[t]
    BY <1>1, <1>9
  <2>2. Written(s, t, view[p][t], mem[s])[t].live = live[t]
    BY <1>1, <1>4, <1>8
  <2> QED BY <2>1, <2>2
<1>11. \A z \in Stores, o \in Owners :
          /\ mem'[z][o].live \in {mem[z][o].live, live[o]}
          /\ dur'[z][o].live \in {dur[z][o].live, live[o]}
  BY <1>4, <1>8, <1>9
<1> QED BY <1>9, <1>10, <1>11 DEF t

LEMMA ProcStartVisible ==
    ASSUME SingleProcess, OutboxInvariant, VisibleInvariant, Typed', NEW p \in Procs,
           ProcStart(p)
    PROVE  VisibleInvariant'
<1> USE DEF OutboxInvariant, VisibleInvariant, ProcStart, Prune, rowVars, storeVars, jobVars
<1>1. RowsNumbered'
  BY DEF TypeOK, SqlTypeOK, StoreTypeOK, JobTypeOK, JobShape, SingleProcess, RowsNumbered
<1>2. CommitCovers'
  BY DEF TypeOK, SqlTypeOK, StoreTypeOK, JobTypeOK, JobShape, SingleProcess, CommitCovers, Registered
<1>3. ReadHolds'
  BY DEF TypeOK, SqlTypeOK, StoreTypeOK, JobTypeOK, JobShape, SingleProcess, ReadHolds, Registered
<1>4. HalfShown'
  BY DEF TypeOK, SqlTypeOK, StoreTypeOK, JobTypeOK, JobShape, SingleProcess, HalfShown
<1>5. DoneShown'
  BY DEF TypeOK, SqlTypeOK, StoreTypeOK, JobTypeOK, JobShape, SingleProcess, DoneShown, Answered, Registered
<1>6. AppliedIsVisible'
  BY DEF TypeOK, SqlTypeOK, StoreTypeOK, JobTypeOK, JobShape, SingleProcess, AppliedIsVisible
<1> QED BY <1>1, <1>2, <1>3, <1>4, <1>5, <1>6

LEMMA ReconcileNothingVisible ==
    ASSUME SingleProcess, OutboxInvariant, VisibleInvariant, Typed', NEW p \in Procs,
           ReconcileNothing(p)
    PROVE  VisibleInvariant'
<1> USE DEF OutboxInvariant, VisibleInvariant, ReconcileNothing, sqlVars, storeVars, jobVars
<1>1. RowsNumbered'
  BY DEF TypeOK, SqlTypeOK, StoreTypeOK, JobTypeOK, JobShape, SingleProcess, RowsNumbered
<1>2. CommitCovers'
  BY DEF TypeOK, SqlTypeOK, StoreTypeOK, JobTypeOK, JobShape, SingleProcess, CommitCovers
<1>3. ReadHolds'
  BY DEF TypeOK, SqlTypeOK, StoreTypeOK, JobTypeOK, JobShape, SingleProcess, ReadHolds
<1>4. HalfShown'
  BY DEF TypeOK, SqlTypeOK, StoreTypeOK, JobTypeOK, JobShape, SingleProcess, HalfShown
<1>5. DoneShown'
  BY DEF TypeOK, SqlTypeOK, StoreTypeOK, JobTypeOK, JobShape, SingleProcess, DoneShown, Answered
<1>6. AppliedIsVisible'
  BY DEF TypeOK, SqlTypeOK, StoreTypeOK, JobTypeOK, JobShape, SingleProcess, AppliedIsVisible
<1> QED BY <1>1, <1>2, <1>3, <1>4, <1>5, <1>6

LEMMA ReconcileVisible ==
    ASSUME SingleProcess, OutboxInvariant, VisibleInvariant, Typed', NEW p \in Procs,
           Reconcile(p)
    PROVE  VisibleInvariant'
<1> USE DEF OutboxInvariant, VisibleInvariant, Reconcile, Batches, Reconcilable, ListingOf, Outstanding, sqlVars, storeVars
<1>1. RowsNumbered'
  <2>1. \A x \in todo'[p] : Outstanding(x) /\ listed'[p][x].rev = rev[x]
    BY DEF TypeOK, JobTypeOK, Listing
  <2>2. done'[p] = {} /\ bad'[p] = {} /\ UNCHANGED <<rev, status>> /\ todo'[p] \subseteq Owners
    BY ZenonT(60) DEF TypeOK, JobTypeOK, JobShape
  <2> HIDE DEF Reconcile
  <2> QED BY <2>1, <2>2 DEF RowsNumbered, SingleProcess
<1>2. CommitCovers'
  BY DEF TypeOK, SqlTypeOK, StoreTypeOK, JobTypeOK, JobShape, SingleProcess, CommitCovers
<1>3. ReadHolds'
  BY DEF TypeOK, SqlTypeOK, StoreTypeOK, JobTypeOK, JobShape, SingleProcess, ReadHolds
<1>4. HalfShown'
  BY DEF TypeOK, SqlTypeOK, StoreTypeOK, JobTypeOK, JobShape, SingleProcess, HalfShown
<1>5. DoneShown'
  BY DEF TypeOK, SqlTypeOK, StoreTypeOK, JobTypeOK, JobShape, SingleProcess, DoneShown, Answered
<1>6. AppliedIsVisible'
  BY DEF TypeOK, SqlTypeOK, StoreTypeOK, JobTypeOK, JobShape, SingleProcess, AppliedIsVisible
<1> QED BY <1>1, <1>2, <1>3, <1>4, <1>5, <1>6

LEMMA ListTasksVisible ==
    ASSUME SingleProcess, OutboxInvariant, VisibleInvariant, Typed', NEW p \in Procs,
           ListTasks(p)
    PROVE  VisibleInvariant'
<1> USE DEF OutboxInvariant, VisibleInvariant, ListTasks, ListingOf, Outstanding, sqlVars, storeVars
<1>1. RowsNumbered'
  <2>1. CASE kind[p] = "commit"
    BY <2>1 DEF RowsNumbered, SingleProcess
  <2>2. CASE kind[p] # "commit"
    <3>1. \A x \in todo'[p] : Outstanding(x) /\ listed'[p][x].rev = rev[x]
      BY <2>2 DEF TypeOK, JobTypeOK, JobShape
    <3>2. done'[p] = {} /\ bad'[p] = {} /\ UNCHANGED <<rev, status>> /\ todo'[p] \subseteq Owners
      BY DEF TypeOK, JobTypeOK, JobShape, Typed
    <3> HIDE DEF ListTasks
    <3> QED BY <3>1, <3>2 DEF RowsNumbered, SingleProcess
  <2> QED BY <2>1, <2>2
<1>2. CommitCovers'
  <2>1. /\ UNCHANGED <<kind, done, live>> /\ step[p] = "list"
        /\ kind[p] = "commit" => todo' = todo
    OBVIOUS
  <2> HIDE DEF ListTasks
  <2> QED BY <2>1 DEF CommitCovers, SingleProcess
<1>3. ReadHolds'
  BY DEF TypeOK, SqlTypeOK, StoreTypeOK, JobTypeOK, JobShape, SingleProcess, ReadHolds
<1>4. HalfShown'
  BY DEF TypeOK, SqlTypeOK, StoreTypeOK, JobTypeOK, JobShape, SingleProcess, HalfShown
<1>5. DoneShown'
  BY DEF TypeOK, SqlTypeOK, StoreTypeOK, JobTypeOK, JobShape, SingleProcess, DoneShown, Answered
<1>6. AppliedIsVisible'
  BY DEF TypeOK, SqlTypeOK, StoreTypeOK, JobTypeOK, JobShape, SingleProcess, AppliedIsVisible
<1> QED BY <1>1, <1>2, <1>3, <1>4, <1>5, <1>6

LEMMA DescribeVisible ==
    ASSUME SingleProcess, OutboxInvariant, VisibleInvariant, Typed', NEW p \in Procs,
           Describe(p)
    PROVE  VisibleInvariant'
<1> USE DEF OutboxInvariant, VisibleInvariant, Describe, sqlVars, storeVars
<1>1. RowsNumbered'
  BY DEF TypeOK, SqlTypeOK, StoreTypeOK, JobTypeOK, JobShape, SingleProcess, RowsNumbered
<1>2. CommitCovers'
  BY SMTT(60) DEF TypeOK, SqlTypeOK, StoreTypeOK, JobTypeOK, JobShape, SingleProcess, CommitCovers
<1>3. ReadHolds'
  BY DEF TypeOK, SqlTypeOK, StoreTypeOK, JobTypeOK, JobShape, SingleProcess, ReadHolds
<1>4. HalfShown'
  BY DEF TypeOK, SqlTypeOK, StoreTypeOK, JobTypeOK, JobShape, SingleProcess, HalfShown
<1>5. DoneShown'
  BY DEF TypeOK, SqlTypeOK, StoreTypeOK, JobTypeOK, JobShape, SingleProcess, DoneShown, Answered
<1>6. AppliedIsVisible'
  BY DEF TypeOK, SqlTypeOK, StoreTypeOK, JobTypeOK, JobShape, SingleProcess, AppliedIsVisible
<1> QED BY <1>1, <1>2, <1>3, <1>4, <1>5, <1>6

LEMMA EndsReadyVisible ==
    ASSUME SingleProcess, OutboxInvariant, VisibleInvariant, Typed', NEW p \in Procs,
           EndsReady(p)
    PROVE  VisibleInvariant'
<1> USE DEF OutboxInvariant, VisibleInvariant, EndsReady, MissingEnds, sqlVars, storeVars
<1>1. RowsNumbered'
  BY DEF TypeOK, SqlTypeOK, StoreTypeOK, JobTypeOK, JobShape, SingleProcess, RowsNumbered
<1>2. CommitCovers'
  BY DEF TypeOK, SqlTypeOK, StoreTypeOK, JobTypeOK, JobShape, SingleProcess, CommitCovers
<1>3. ReadHolds'
  BY DEF TypeOK, SqlTypeOK, StoreTypeOK, JobTypeOK, JobShape, SingleProcess, ReadHolds
<1>4. HalfShown'
  BY DEF TypeOK, SqlTypeOK, StoreTypeOK, JobTypeOK, JobShape, SingleProcess, HalfShown, ReadingFresh, ReadHolds, Registered
<1>5. DoneShown'
  BY DEF TypeOK, SqlTypeOK, StoreTypeOK, JobTypeOK, JobShape, SingleProcess, DoneShown, Answered
<1>6. AppliedIsVisible'
  BY DEF TypeOK, SqlTypeOK, StoreTypeOK, JobTypeOK, JobShape, SingleProcess, AppliedIsVisible
<1> QED BY <1>1, <1>2, <1>3, <1>4, <1>5, <1>6

LEMMA RegisterVisible ==
    ASSUME SingleProcess, OutboxInvariant, VisibleInvariant, Typed', NEW p \in Procs, NEW o \in Owners,
           Register(p, o)
    PROVE  VisibleInvariant'
<1> USE DEF OutboxInvariant, VisibleInvariant, Register, rowVars, storeVars
<1>1. RowsNumbered'
  BY DEF TypeOK, SqlTypeOK, StoreTypeOK, JobTypeOK, JobShape, SingleProcess, RowsNumbered
<1>2. CommitCovers'
  BY DEF TypeOK, SqlTypeOK, StoreTypeOK, JobTypeOK, JobShape, SingleProcess, CommitCovers, Registered
<1>3. ReadHolds'
  BY DEF TypeOK, SqlTypeOK, StoreTypeOK, JobTypeOK, JobShape, SingleProcess, ReadHolds
<1>4. HalfShown'
  BY DEF TypeOK, SqlTypeOK, StoreTypeOK, JobTypeOK, JobShape, SingleProcess, HalfShown
<1>5. DoneShown'
  BY DEF TypeOK, SqlTypeOK, StoreTypeOK, JobTypeOK, JobShape, SingleProcess, DoneShown, Answered
<1>6. AppliedIsVisible'
  BY DEF TypeOK, SqlTypeOK, StoreTypeOK, JobTypeOK, JobShape, SingleProcess, AppliedIsVisible
<1> QED BY <1>1, <1>2, <1>3, <1>4, <1>5, <1>6

LEMMA StoreAtomVisible ==
    ASSUME SingleProcess, OutboxInvariant, VisibleInvariant, Typed', NEW p \in Procs, NEW o \in Owners,
           StoreAtom(p, o)
    PROVE  VisibleInvariant'
<1> USE DEF OutboxInvariant, VisibleInvariant, StoreAtom, Queue, storeVars
<1>1. RowsNumbered'
  BY DEF TypeOK, SqlTypeOK, StoreTypeOK, JobTypeOK, JobShape, SingleProcess, RowsNumbered
<1>2. CommitCovers'
  BY DEF TypeOK, SqlTypeOK, StoreTypeOK, JobTypeOK, JobShape, SingleProcess, CommitCovers, Registered
<1>3. ReadHolds'
  BY DEF TypeOK, SqlTypeOK, StoreTypeOK, JobTypeOK, JobShape, SingleProcess, ReadHolds
<1>4. HalfShown'
  BY DEF TypeOK, SqlTypeOK, StoreTypeOK, JobTypeOK, JobShape, SingleProcess, HalfShown
<1>5. DoneShown'
  BY DEF TypeOK, SqlTypeOK, StoreTypeOK, JobTypeOK, JobShape, SingleProcess, DoneShown, Answered
<1>6. AppliedIsVisible'
  BY DEF TypeOK, SqlTypeOK, StoreTypeOK, JobTypeOK, JobShape, SingleProcess, AppliedIsVisible
<1> QED BY <1>1, <1>2, <1>3, <1>4, <1>5, <1>6

LEMMA MergeVisible ==
    ASSUME SingleProcess, OutboxInvariant, VisibleInvariant, Typed', NEW p \in Procs, NEW o \in Owners,
           Merge(p, o)
    PROVE  VisibleInvariant'
<1> USE DEF OutboxInvariant, VisibleInvariant, Merge, Begin, EntitiesFirst, sqlVars, storeVars
<1>1. RowsNumbered'
  BY DEF TypeOK, SqlTypeOK, StoreTypeOK, JobTypeOK, JobShape, SingleProcess, RowsNumbered
<1>2. CommitCovers'
  BY DEF TypeOK, SqlTypeOK, StoreTypeOK, JobTypeOK, JobShape, SingleProcess, CommitCovers
<1>3. ReadHolds'
  <2>1. view[p][o].live /\ live[o]
    BY DEF ReadingFresh, CommitCovers, JobShape
  <2>2. cur'[p] = o /\ end'[p] = None /\ UNCHANGED <<view, live>>
    BY DEF TypeOK, JobTypeOK, JobShape
  <2>3. live[o] = TRUE /\ view[p][o].live = TRUE
    BY <2>1 DEF TypeOK, SqlTypeOK, JobTypeOK, View
  <2> QED BY <2>2, <2>3 DEF ReadHolds, SingleProcess
<1>4. HalfShown'
  <2>1. view[p][o].live
    BY DEF ReadingFresh
  <2>2. /\ cur'[p] = o /\ step'[p] = "graph" /\ UNCHANGED <<view, mem>>
    BY DEF TypeOK, JobTypeOK
  <2>3. ASSUME o \in Relations, NEW e \in Ends[o] PROVE mem["graph"][e].live
    <3>1. e \in done[p] /\ live[e]
      BY <2>3, OwnersAssumption DEF CommitCovers
    <3>2. mem["graph"][e].live = live[e]
      BY <3>1 DEF DoneShown, Answered, Stores
    <3> QED BY <3>1, <3>2
  <2> QED BY <2>1, <2>2, <2>3 DEF HalfShown, SingleProcess
<1>5. DoneShown'
  BY DEF TypeOK, SqlTypeOK, StoreTypeOK, JobTypeOK, JobShape, SingleProcess, DoneShown, Answered
<1>6. AppliedIsVisible'
  BY DEF TypeOK, SqlTypeOK, StoreTypeOK, JobTypeOK, JobShape, SingleProcess, AppliedIsVisible
<1> QED BY <1>1, <1>2, <1>3, <1>4, <1>5, <1>6

LEMMA MergeKeepsVisible ==
    ASSUME SingleProcess, OutboxInvariant, VisibleInvariant, Typed', NEW p \in Procs, NEW o \in Owners,
           MergeKeeps(p, o)
    PROVE  VisibleInvariant'
<1> USE DEF OutboxInvariant, VisibleInvariant, MergeKeeps, Begin, sqlVars, storeVars
<1>1. RowsNumbered'
  BY DEF TypeOK, SqlTypeOK, StoreTypeOK, JobTypeOK, JobShape, SingleProcess, RowsNumbered
<1>2. CommitCovers'
  BY DEF TypeOK, SqlTypeOK, StoreTypeOK, JobTypeOK, JobShape, SingleProcess, CommitCovers
<1>3. ReadHolds'
  BY DEF TypeOK, SqlTypeOK, StoreTypeOK, JobTypeOK, JobShape, SingleProcess, ReadHolds
<1>4. HalfShown'
  BY DEF TypeOK, SqlTypeOK, StoreTypeOK, JobTypeOK, JobShape, SingleProcess, HalfShown
<1>5. DoneShown'
  <2>1. o \in Owners /\ live[o] /\ mem["graph"][o].live /\ step[p] = "project"
    BY DEF CommitCovers
  <2>2. live[o] = TRUE /\ mem["graph"][o].live = TRUE
    BY <2>1 DEF TypeOK, SqlTypeOK, StoreTypeOK, View, Stores
  <2>3. /\ done'[p] = done[p] \cup {o} /\ skips'[p] = skips[p] \cup {o}
        /\ UNCHANGED <<step, live, mem, dur>>
    BY DEF TypeOK, JobTypeOK
  <2>4. ASSUME NEW x \in done'[p], NEW s \in Stores, s = "graph" \/ x \notin skips'[p]
        PROVE  mem[s][x].live = live[x]
    <3>1. CASE x = o
      BY <2>2, <2>3, <2>4, <3>1
    <3>2. CASE x # o
      BY <2>1, <2>3, <2>4, <3>2 DEF DoneShown, Answered
    <3> QED BY <3>1, <3>2
  <2> HIDE DEF MergeKeeps
  <2> QED BY <2>1, <2>3, <2>4 DEF DoneShown, Answered, SingleProcess
<1>6. AppliedIsVisible'
  BY DEF TypeOK, SqlTypeOK, StoreTypeOK, JobTypeOK, JobShape, SingleProcess, AppliedIsVisible
<1> QED BY <1>1, <1>2, <1>3, <1>4, <1>5, <1>6

LEMMA MergeRefusedVisible ==
    ASSUME SingleProcess, OutboxInvariant, VisibleInvariant, Typed', NEW p \in Procs, NEW o \in Owners,
           MergeRefused(p, o)
    PROVE  VisibleInvariant'
<1> USE DEF OutboxInvariant, VisibleInvariant, MergeRefused, Begin, Release, sqlVars, storeVars
<1>1. RowsNumbered'
  BY DEF TypeOK, SqlTypeOK, StoreTypeOK, JobTypeOK, JobShape, SingleProcess, RowsNumbered
<1>2. CommitCovers'
  BY DEF TypeOK, SqlTypeOK, StoreTypeOK, JobTypeOK, JobShape, SingleProcess, CommitCovers
<1>3. ReadHolds'
  BY DEF TypeOK, SqlTypeOK, StoreTypeOK, JobTypeOK, JobShape, SingleProcess, ReadHolds
<1>4. HalfShown'
  BY SMTT(60) DEF TypeOK, SqlTypeOK, StoreTypeOK, JobTypeOK, JobShape, SingleProcess, HalfShown
<1>5. DoneShown'
  BY DEF TypeOK, SqlTypeOK, StoreTypeOK, JobTypeOK, JobShape, SingleProcess, DoneShown, Answered
<1>6. AppliedIsVisible'
  BY DEF TypeOK, SqlTypeOK, StoreTypeOK, JobTypeOK, JobShape, SingleProcess, AppliedIsVisible
<1> QED BY <1>1, <1>2, <1>3, <1>4, <1>5, <1>6

LEMMA FetchVisible ==
    ASSUME SingleProcess, OutboxInvariant, VisibleInvariant, Typed', NEW p \in Procs, NEW o \in Owners,
           Fetch(p, o)
    PROVE  VisibleInvariant'
<1> USE DEF OutboxInvariant, VisibleInvariant, Fetch, Begin, sqlVars, storeVars
<1>1. RowsNumbered'
  BY DEF TypeOK, SqlTypeOK, StoreTypeOK, JobTypeOK, JobShape, SingleProcess, RowsNumbered
<1>2. CommitCovers'
  BY SMTT(60) DEF TypeOK, SqlTypeOK, StoreTypeOK, JobTypeOK, JobShape, SingleProcess, CommitCovers
<1>3. ReadHolds'
  BY SMTT(60) DEF TypeOK, SqlTypeOK, StoreTypeOK, JobTypeOK, JobShape, SingleProcess, ReadHolds
<1>4. HalfShown'
  BY DEF TypeOK, SqlTypeOK, StoreTypeOK, JobTypeOK, JobShape, SingleProcess, HalfShown
<1>5. DoneShown'
  BY DEF TypeOK, SqlTypeOK, StoreTypeOK, JobTypeOK, JobShape, SingleProcess, DoneShown, Answered
<1>6. AppliedIsVisible'
  BY DEF TypeOK, SqlTypeOK, StoreTypeOK, JobTypeOK, JobShape, SingleProcess, AppliedIsVisible
<1> QED BY <1>1, <1>2, <1>3, <1>4, <1>5, <1>6

LEMMA FetchUnlocatedVisible ==
    ASSUME SingleProcess, OutboxInvariant, VisibleInvariant, Typed', NEW p \in Procs, NEW o \in Owners,
           FetchUnlocated(p, o)
    PROVE  VisibleInvariant'
<1> USE DEF OutboxInvariant, VisibleInvariant, FetchUnlocated, Begin, sqlVars, storeVars
<1>1. RowsNumbered'
  BY DEF TypeOK, SqlTypeOK, StoreTypeOK, JobTypeOK, JobShape, SingleProcess, RowsNumbered
<1>2. CommitCovers'
  BY DEF TypeOK, SqlTypeOK, StoreTypeOK, JobTypeOK, JobShape, SingleProcess, CommitCovers
<1>3. ReadHolds'
  BY DEF TypeOK, SqlTypeOK, StoreTypeOK, JobTypeOK, JobShape, SingleProcess, ReadHolds
<1>4. HalfShown'
  BY DEF TypeOK, SqlTypeOK, StoreTypeOK, JobTypeOK, JobShape, SingleProcess, HalfShown
<1>5. DoneShown'
  BY DEF TypeOK, SqlTypeOK, StoreTypeOK, JobTypeOK, JobShape, SingleProcess, DoneShown, Answered, RowsNumbered, Registered
<1>6. AppliedIsVisible'
  BY DEF TypeOK, SqlTypeOK, StoreTypeOK, JobTypeOK, JobShape, SingleProcess, AppliedIsVisible
<1> QED BY <1>1, <1>2, <1>3, <1>4, <1>5, <1>6

LEMMA FetchEndVisible ==
    ASSUME SingleProcess, OutboxInvariant, VisibleInvariant, Typed', NEW p \in Procs, NEW e \in Owners,
           FetchEnd(p, e)
    PROVE  VisibleInvariant'
<1> USE DEF OutboxInvariant, VisibleInvariant, FetchEnd, MissingEnds, sqlVars, storeVars
<1>1. RowsNumbered'
  BY DEF TypeOK, SqlTypeOK, StoreTypeOK, JobTypeOK, JobShape, SingleProcess, RowsNumbered
<1>2. CommitCovers'
  BY DEF TypeOK, SqlTypeOK, StoreTypeOK, JobTypeOK, JobShape, SingleProcess, CommitCovers
<1>3. ReadHolds'
  <2>1. cur[p] \in Relations /\ e \in Ends[cur[p]] /\ live[e]
    BY DEF JobShape
  <2>2. e # cur[p]
    BY <2>1, OwnersAssumption
  <2>3. /\ end'[p] = e /\ UNCHANGED <<cur, live>> /\ view'[p][cur[p]] = view[p][cur[p]]
    BY <2>2 DEF TypeOK, JobTypeOK
  <2> QED BY ZenonT(60), <2>1, <2>3 DEF ReadHolds, SingleProcess
<1>4. HalfShown'
  <2>1. end'[p] = e /\ e # None
    BY OwnersAssumption DEF TypeOK, JobTypeOK
  <2> QED BY <2>1 DEF HalfShown, SingleProcess
<1>5. DoneShown'
  BY DEF TypeOK, SqlTypeOK, StoreTypeOK, JobTypeOK, JobShape, SingleProcess, DoneShown, Answered
<1>6. AppliedIsVisible'
  BY DEF TypeOK, SqlTypeOK, StoreTypeOK, JobTypeOK, JobShape, SingleProcess, AppliedIsVisible
<1> QED BY <1>1, <1>2, <1>3, <1>4, <1>5, <1>6

LEMMA BatchDoneVisible ==
    ASSUME SingleProcess, OutboxInvariant, VisibleInvariant, Typed', NEW p \in Procs,
           BatchDone(p)
    PROVE  VisibleInvariant'
<1> USE DEF OutboxInvariant, VisibleInvariant, BatchDone, Release, sqlVars, storeVars
<1>1. RowsNumbered'
  <2>1. CASE done[p] # {}
    BY <2>1 DEF RowsNumbered, SingleProcess, TypeOK, JobTypeOK
  <2>2. CASE done[p] = {}
    <3>1. step'[p] = "free" /\ UNCHANGED <<rev, status>>
      BY <2>2 DEF TypeOK, JobTypeOK
    <3> QED BY <3>1 DEF RowsNumbered, SingleProcess
  <2> QED BY <2>1, <2>2
<1>2. CommitCovers'
  <2>1. CASE done[p] # {}
    BY SMTT(60), <2>1 DEF CommitCovers, SingleProcess, TypeOK, JobTypeOK
  <2>2. CASE done[p] = {}
    <3>1. step'[p] = "free" /\ UNCHANGED live
      BY <2>2 DEF TypeOK, JobTypeOK
    <3> QED BY <3>1 DEF CommitCovers, SingleProcess
  <2> QED BY <2>1, <2>2
<1>3. ReadHolds'
  BY DEF TypeOK, SqlTypeOK, StoreTypeOK, JobTypeOK, JobShape, SingleProcess, ReadHolds
<1>4. HalfShown'
  BY DEF TypeOK, SqlTypeOK, StoreTypeOK, JobTypeOK, JobShape, SingleProcess, HalfShown
<1>5. DoneShown'
  BY SMTT(30) DEF TypeOK, SqlTypeOK, StoreTypeOK, JobTypeOK, JobShape, SingleProcess, DoneShown, Answered
<1>6. AppliedIsVisible'
  BY DEF TypeOK, SqlTypeOK, StoreTypeOK, JobTypeOK, JobShape, SingleProcess, AppliedIsVisible
<1> QED BY <1>1, <1>2, <1>3, <1>4, <1>5, <1>6

LEMMA AcknowledgeVisible ==
    ASSUME SingleProcess, OutboxInvariant, VisibleInvariant, Typed', NEW p \in Procs, NEW o \in Owners,
           Acknowledge(p, o)
    PROVE  VisibleInvariant'
<1> USE DEF OutboxInvariant, VisibleInvariant, Acknowledge, Outstanding, Release, storeVars
<1>1. RowsNumbered'
  BY DEF TypeOK, SqlTypeOK, StoreTypeOK, JobTypeOK, JobShape, SingleProcess, RowsNumbered
<1>2. CommitCovers'
  BY DEF TypeOK, SqlTypeOK, StoreTypeOK, JobTypeOK, JobShape, SingleProcess, CommitCovers
<1>3. ReadHolds'
  BY DEF TypeOK, SqlTypeOK, StoreTypeOK, JobTypeOK, JobShape, SingleProcess, ReadHolds
<1>4. HalfShown'
  BY DEF TypeOK, SqlTypeOK, StoreTypeOK, JobTypeOK, JobShape, SingleProcess, HalfShown
<1>5. DoneShown'
  BY DEF TypeOK, SqlTypeOK, StoreTypeOK, JobTypeOK, JobShape, SingleProcess, DoneShown, Answered
<1>6. AppliedIsVisible'
  BY DEF TypeOK, SqlTypeOK, StoreTypeOK, JobTypeOK, JobShape, SingleProcess, AppliedIsVisible, DoneShown, Answered, Registered, AtomsRegistered, Stores
<1> QED BY <1>1, <1>2, <1>3, <1>4, <1>5, <1>6

LEMMA DeleteEpisodeVisible ==
    ASSUME SingleProcess, OutboxInvariant, VisibleInvariant, Typed', NEW p \in Procs, NEW A \in SUBSET Owners, NEW K \in SUBSET A,
           DeleteEpisode(p, A, K)
    PROVE  VisibleInvariant'
<1> USE DEF OutboxInvariant, VisibleInvariant, DeleteEpisode, Queue, storeVars
<1>1. RowsNumbered'
  BY DEF TypeOK, SqlTypeOK, StoreTypeOK, JobTypeOK, JobShape, SingleProcess, RowsNumbered
<1>2. CommitCovers'
  BY DEF TypeOK, SqlTypeOK, StoreTypeOK, JobTypeOK, JobShape, SingleProcess, CommitCovers
<1>3. ReadHolds'
  BY SMTT(60) DEF TypeOK, SqlTypeOK, StoreTypeOK, JobTypeOK, JobShape, SingleProcess, ReadHolds
<1>4. HalfShown'
  BY DEF TypeOK, SqlTypeOK, StoreTypeOK, JobTypeOK, JobShape, SingleProcess, HalfShown
<1>5. DoneShown'
  BY DEF TypeOK, SqlTypeOK, StoreTypeOK, JobTypeOK, JobShape, SingleProcess, DoneShown, Answered
<1>6. AppliedIsVisible'
  BY DEF TypeOK, SqlTypeOK, StoreTypeOK, JobTypeOK, JobShape, SingleProcess, AppliedIsVisible
<1> QED BY <1>1, <1>2, <1>3, <1>4, <1>5, <1>6

LEMMA CommitStartVisible ==
    ASSUME SingleProcess, OutboxInvariant, VisibleInvariant, Typed', NEW p \in Procs, NEW T \in SUBSET Owners, NEW A \in SUBSET T,
           CommitStart(p, T, A)
    PROVE  VisibleInvariant'
<1> USE DEF OutboxInvariant, VisibleInvariant, CommitStart, sqlVars, storeVars
<1>1. RowsNumbered'
  BY DEF TypeOK, SqlTypeOK, StoreTypeOK, JobTypeOK, JobShape, SingleProcess, RowsNumbered
<1>2. CommitCovers'
  BY DEF TypeOK, SqlTypeOK, StoreTypeOK, JobTypeOK, JobShape, SingleProcess, CommitCovers
<1>3. ReadHolds'
  BY DEF TypeOK, SqlTypeOK, StoreTypeOK, JobTypeOK, JobShape, SingleProcess, ReadHolds
<1>4. HalfShown'
  BY DEF TypeOK, SqlTypeOK, StoreTypeOK, JobTypeOK, JobShape, SingleProcess, HalfShown
<1>5. DoneShown'
  BY DEF TypeOK, SqlTypeOK, StoreTypeOK, JobTypeOK, JobShape, SingleProcess, DoneShown, Answered
<1>6. AppliedIsVisible'
  BY DEF TypeOK, SqlTypeOK, StoreTypeOK, JobTypeOK, JobShape, SingleProcess, AppliedIsVisible
<1> QED BY <1>1, <1>2, <1>3, <1>4, <1>5, <1>6

LEMMA ResolveConflictVisible ==
    ASSUME SingleProcess, OutboxInvariant, VisibleInvariant, Typed', NEW o \in Owners,
           ResolveConflict(o)
    PROVE  VisibleInvariant'
<1> USE DEF OutboxInvariant, VisibleInvariant, ResolveConflict, Queue, storeVars, jobVars
<1>1. RowsNumbered'
  BY DEF TypeOK, SqlTypeOK, StoreTypeOK, JobTypeOK, JobShape, SingleProcess, RowsNumbered
<1>2. CommitCovers'
  BY DEF TypeOK, SqlTypeOK, StoreTypeOK, JobTypeOK, JobShape, SingleProcess, CommitCovers
<1>3. ReadHolds'
  BY DEF TypeOK, SqlTypeOK, StoreTypeOK, JobTypeOK, JobShape, SingleProcess, ReadHolds
<1>4. HalfShown'
  BY DEF TypeOK, SqlTypeOK, StoreTypeOK, JobTypeOK, JobShape, SingleProcess, HalfShown
<1>5. DoneShown'
  BY DEF TypeOK, SqlTypeOK, StoreTypeOK, JobTypeOK, JobShape, SingleProcess, DoneShown, Answered
<1>6. AppliedIsVisible'
  BY DEF TypeOK, SqlTypeOK, StoreTypeOK, JobTypeOK, JobShape, SingleProcess, AppliedIsVisible
<1> QED BY <1>1, <1>2, <1>3, <1>4, <1>5, <1>6

LEMMA RetryDueVisible ==
    ASSUME SingleProcess, OutboxInvariant, VisibleInvariant, Typed', NEW o \in Owners,
           RetryDue(o)
    PROVE  VisibleInvariant'
<1> USE DEF OutboxInvariant, VisibleInvariant, RetryDue, storeVars, jobVars
<1>1. RowsNumbered'
  BY DEF TypeOK, SqlTypeOK, StoreTypeOK, JobTypeOK, JobShape, SingleProcess, RowsNumbered
<1>2. CommitCovers'
  BY DEF TypeOK, SqlTypeOK, StoreTypeOK, JobTypeOK, JobShape, SingleProcess, CommitCovers
<1>3. ReadHolds'
  BY DEF TypeOK, SqlTypeOK, StoreTypeOK, JobTypeOK, JobShape, SingleProcess, ReadHolds
<1>4. HalfShown'
  BY DEF TypeOK, SqlTypeOK, StoreTypeOK, JobTypeOK, JobShape, SingleProcess, HalfShown
<1>5. DoneShown'
  BY DEF TypeOK, SqlTypeOK, StoreTypeOK, JobTypeOK, JobShape, SingleProcess, DoneShown, Answered
<1>6. AppliedIsVisible'
  BY DEF TypeOK, SqlTypeOK, StoreTypeOK, JobTypeOK, JobShape, SingleProcess, AppliedIsVisible
<1> QED BY <1>1, <1>2, <1>3, <1>4, <1>5, <1>6

LEMMA FlushVisible ==
    ASSUME SingleProcess, OutboxInvariant, VisibleInvariant, Typed', NEW p \in Procs,
           Flush(p)
    PROVE  VisibleInvariant'
<1> USE DEF OutboxInvariant, VisibleInvariant, Flush, FlushStore, sqlVars, Stores
<1>1. RowsNumbered'
  <2>1. /\ UNCHANGED <<rev, status, kind, todo, listed, done, bad>>
        /\ step[p] \in {"flushGraph", "flushEntities", "flushRelations"}
    OBVIOUS
  <2> HIDE DEF Flush
  <2> QED BY <2>1 DEF RowsNumbered, SingleProcess
<1>2. CommitCovers'
  BY SMTT(30) DEF TypeOK, SqlTypeOK, StoreTypeOK, JobTypeOK, JobShape, SingleProcess, CommitCovers
<1>3. ReadHolds'
  BY DEF TypeOK, SqlTypeOK, StoreTypeOK, JobTypeOK, JobShape, SingleProcess, ReadHolds
<1>4. HalfShown'
  BY DEF TypeOK, SqlTypeOK, StoreTypeOK, JobTypeOK, JobShape, SingleProcess, HalfShown
<1>5. DoneShown'
  <2>1. UNCHANGED <<mem, live, done, skips>> /\ done[p] \subseteq Owners
    BY DEF TypeOK, JobTypeOK
  <2>2. CASE step[p] = "flushGraph"
    <3>1. step'[p] = "flushEntities" /\ \A x \in Owners : dur'["graph"][x] = mem["graph"][x]
      BY <2>2 DEF TypeOK, JobTypeOK, StoreTypeOK
    <3> HIDE DEF Flush
    <3> QED BY <2>1, <2>2, <3>1 DEF DoneShown, Answered, SingleProcess, Stores
  <2>3. CASE step[p] = "flushEntities"
    <3>1. /\ step'[p] = "flushRelations" /\ dur'["graph"] = dur["graph"]
          /\ \A x \in Entities : dur'["vdb"][x] = mem["vdb"][x]
      BY <2>3 DEF TypeOK, JobTypeOK, StoreTypeOK, Owners
    <3> HIDE DEF Flush
    <3> QED BY <2>1, <2>3, <3>1 DEF DoneShown, Answered, SingleProcess, Stores
  <2>4. CASE step[p] = "flushRelations"
    <3>1. /\ step'[p] = "ack" /\ dur'["graph"] = dur["graph"]
          /\ \A x \in Owners : dur'["vdb"][x] = IF x \in Relations THEN mem["vdb"][x]
                                                                ELSE dur["vdb"][x]
      BY <2>4 DEF TypeOK, JobTypeOK, StoreTypeOK
    <3> HIDE DEF Flush
    <3> QED BY <2>1, <2>4, <3>1 DEF DoneShown, Answered, SingleProcess, Stores, Owners
  <2> QED BY <2>2, <2>3, <2>4
<1>6. AppliedIsVisible'
  <2>1. \A s \in Stores, x \in Owners : dur'[s][x] \in {dur[s][x], mem[s][x]}
    BY DEF TypeOK, StoreTypeOK
  <2>2. UNCHANGED <<mem, status, kept, atoms>>
    OBVIOUS
  <2> HIDE DEF Flush
  <2> QED BY <2>1, <2>2 DEF AppliedIsVisible
<1> QED BY <1>1, <1>2, <1>3, <1>4, <1>5, <1>6

LEMMA FlushFailsVisible ==
    ASSUME SingleProcess, OutboxInvariant, VisibleInvariant, Typed', NEW p \in Procs,
           FlushFails(p)
    PROVE  VisibleInvariant'
<1> USE DEF OutboxInvariant, VisibleInvariant, FlushFails, Release, sqlVars, storeVars
<1>1. RowsNumbered'
  <2>1. CASE kind[p] = "commit"
    <3>1. step'[p] = "free" /\ UNCHANGED <<rev, status>>
      BY <2>1 DEF TypeOK, JobTypeOK
    <3> QED BY <3>1 DEF RowsNumbered, SingleProcess
  <2>2. CASE kind[p] # "commit"
    <3>1. /\ UNCHANGED <<rev, status, listed, todo, kind>>
          /\ bad'[p] = done[p] /\ done'[p] = {}
      BY <2>2 DEF TypeOK, JobTypeOK
    <3> HIDE DEF FlushFails, Release
    <3>2. step[p] \in {"flushGraph", "flushEntities", "flushRelations"}
      BY DEF FlushFails
    <3> QED BY <2>2, <3>1, <3>2 DEF RowsNumbered, SingleProcess
  <2> QED BY <2>1, <2>2
<1>2. CommitCovers'
  BY DEF TypeOK, SqlTypeOK, StoreTypeOK, JobTypeOK, JobShape, SingleProcess, CommitCovers
<1>3. ReadHolds'
  BY DEF TypeOK, SqlTypeOK, StoreTypeOK, JobTypeOK, JobShape, SingleProcess, ReadHolds
<1>4. HalfShown'
  BY DEF TypeOK, SqlTypeOK, StoreTypeOK, JobTypeOK, JobShape, SingleProcess, HalfShown
<1>5. DoneShown'
  BY DEF TypeOK, SqlTypeOK, StoreTypeOK, JobTypeOK, JobShape, SingleProcess, DoneShown, Answered
<1>6. AppliedIsVisible'
  BY DEF TypeOK, SqlTypeOK, StoreTypeOK, JobTypeOK, JobShape, SingleProcess, AppliedIsVisible
<1> QED BY <1>1, <1>2, <1>3, <1>4, <1>5, <1>6

LEMMA MarkFailedVisible ==
    ASSUME SingleProcess, OutboxInvariant, VisibleInvariant, Typed', NEW p \in Procs, NEW o \in Owners,
           MarkFailed(p, o)
    PROVE  VisibleInvariant'
<1> USE DEF OutboxInvariant, VisibleInvariant, MarkFailed, Current, Release, storeVars
<1>1. RowsNumbered'
  <2>0. step[p] = "failing" /\ kind[p] # "commit" /\ listed[p][o].rev > 0
    BY DEF RowsNumbered, JobShape
  <2>1. rev' = rev /\ \A x \in Owners : status'[x] # "none" => rev[x] > 0
    BY <2>0 DEF RowsNumbered, TypeOK, SqlTypeOK
  <2>2. CASE bad[p] = {o} /\ kind[p] = "delete"
    BY <2>1, <2>2 DEF RowsNumbered, SingleProcess, TypeOK, JobTypeOK
  <2>3. CASE ~(bad[p] = {o} /\ kind[p] = "delete")
    <3>1. UNCHANGED <<kind, todo, listed, done, rev>> /\ bad'[p] \subseteq bad[p]
      BY <2>3 DEF TypeOK, JobTypeOK
    <3> HIDE DEF MarkFailed, Release
    <3> QED BY <2>0, <2>1, <3>1 DEF RowsNumbered, SingleProcess
  <2> QED BY <2>2, <2>3
<1>2. CommitCovers'
  BY DEF TypeOK, SqlTypeOK, StoreTypeOK, JobTypeOK, JobShape, SingleProcess, CommitCovers
<1>3. ReadHolds'
  BY DEF TypeOK, SqlTypeOK, StoreTypeOK, JobTypeOK, JobShape, SingleProcess, ReadHolds
<1>4. HalfShown'
  BY DEF TypeOK, SqlTypeOK, StoreTypeOK, JobTypeOK, JobShape, SingleProcess, HalfShown
<1>5. DoneShown'
  BY DEF TypeOK, SqlTypeOK, StoreTypeOK, JobTypeOK, JobShape, SingleProcess, DoneShown, Answered
<1>6. AppliedIsVisible'
  <2>1. /\ UNCHANGED <<atoms, mem, dur, kept>>
        /\ \A x \in Owners : status'[x] = "applied" => status[x] = "applied"
    BY DEF TypeOK, SqlTypeOK
  <2> HIDE DEF MarkFailed
  <2> QED BY <2>1 DEF AppliedIsVisible
<1> QED BY <1>1, <1>2, <1>3, <1>4, <1>5, <1>6

LEMMA AbortVisible ==
    ASSUME SingleProcess, OutboxInvariant, VisibleInvariant, Typed', NEW p \in Procs,
           Abort(p)
    PROVE  VisibleInvariant'
<1> USE DEF OutboxInvariant, VisibleInvariant, Abort, Release, sqlVars, storeVars
<1>1. RowsNumbered'
  BY DEF TypeOK, SqlTypeOK, StoreTypeOK, JobTypeOK, JobShape, SingleProcess, RowsNumbered
<1>2. CommitCovers'
  BY DEF TypeOK, SqlTypeOK, StoreTypeOK, JobTypeOK, JobShape, SingleProcess, CommitCovers
<1>3. ReadHolds'
  BY DEF TypeOK, SqlTypeOK, StoreTypeOK, JobTypeOK, JobShape, SingleProcess, ReadHolds
<1>4. HalfShown'
  BY SMTT(60) DEF TypeOK, SqlTypeOK, StoreTypeOK, JobTypeOK, JobShape, SingleProcess, HalfShown
<1>5. DoneShown'
  BY DEF TypeOK, SqlTypeOK, StoreTypeOK, JobTypeOK, JobShape, SingleProcess, DoneShown, Answered
<1>6. AppliedIsVisible'
  BY DEF TypeOK, SqlTypeOK, StoreTypeOK, JobTypeOK, JobShape, SingleProcess, AppliedIsVisible
<1> QED BY <1>1, <1>2, <1>3, <1>4, <1>5, <1>6

LEMMA CrashVisible ==
    ASSUME SingleProcess, OutboxInvariant, VisibleInvariant, Typed', NEW p \in Procs,
           Crash(p)
    PROVE  VisibleInvariant'
<1> USE DEF OutboxInvariant, VisibleInvariant, Crash, Release, sqlVars
<1>1. RowsNumbered'
  BY DEF TypeOK, SqlTypeOK, StoreTypeOK, JobTypeOK, JobShape, SingleProcess, RowsNumbered
<1>2. CommitCovers'
  BY DEF TypeOK, SqlTypeOK, StoreTypeOK, JobTypeOK, JobShape, SingleProcess, CommitCovers
<1>3. ReadHolds'
  BY SMTT(60) DEF TypeOK, SqlTypeOK, StoreTypeOK, JobTypeOK, JobShape, SingleProcess, ReadHolds
<1>4. HalfShown'
  BY SMTT(60) DEF TypeOK, SqlTypeOK, StoreTypeOK, JobTypeOK, JobShape, SingleProcess, HalfShown
<1>5. DoneShown'
  BY DEF TypeOK, SqlTypeOK, StoreTypeOK, JobTypeOK, JobShape, SingleProcess, DoneShown, Answered
<1>6. AppliedIsVisible'
  BY DEF TypeOK, SqlTypeOK, StoreTypeOK, JobTypeOK, JobShape, SingleProcess, AppliedIsVisible
<1> QED BY <1>1, <1>2, <1>3, <1>4, <1>5, <1>6

(* The last write of an owner.                                             *)
LEMMA ProjectedVisible ==
    ASSUME SingleProcess, OutboxInvariant, VisibleInvariant, Typed', NEW p \in Procs,
           NEW s \in Stores, s = step[p], WriteStore(p, s), Projected(p),
           s = IF view[p][Target(p)].live THEN "vdb" ELSE "graph",
           UNCHANGED <<sqlVars, kept, mode, kind, listed, bad, puts, skips, view, faults>>
    PROVE  VisibleInvariant'
<1> USE DEF OutboxInvariant, VisibleInvariant
<1>u. UNCHANGED <<live, atoms, rev, status, kept, kind, listed, bad, skips, view>>
  BY DEF sqlVars
<1>w. /\ mem'[s][Target(p)].live = live[Target(p)]
      /\ \A z \in Stores, o \in Owners :
            /\ mem'[z][o].live \in {mem[z][o].live, live[o]}
            /\ dur'[z][o].live \in {dur[z][o].live, live[o]}
      /\ \A z \in Stores \ {s}, o \in Owners : mem'[z][o] = mem[z][o]
  BY WriteShows
<1>s. step[p] \in {"graph", "vdb"}
  BY DEF Stores
<1>t. /\ step \in [Procs -> Steps] /\ todo \in [Procs -> SUBSET Owners]
      /\ done \in [Procs -> SUBSET Owners] /\ end \in [Procs -> Entities \cup {None}]
      /\ cur \in [Procs -> Owners \cup {None}] /\ cur[p] \in Owners /\ cur[p] \in todo[p]
  BY <1>s, TargetOwner DEF Typed, TypeOK, JobTypeOK, JobShape
<1>1. AppliedIsVisible'
  <2> SUFFICES ASSUME NEW o \in Owners, status[o] = "applied", atoms[o], NEW z \in Stores,
                      z = "graph" \/ ~kept[o]
               PROVE  dur'[z][o].live /\ mem'[z][o].live
    BY <1>u DEF AppliedIsVisible
  <2>1. live[o] /\ dur[z][o].live /\ mem[z][o].live
    BY DEF Registered, AtomsRegistered, AppliedIsVisible
  <2> QED BY <2>1, <1>w
<1>2. CASE end[p] # None
  <2>1. /\ end'[p] = None /\ step'[p] = "ends" /\ UNCHANGED <<cur, todo, done>>
    BY <1>2, <1>t DEF Projected
  <2>2. kind[p] # "commit" /\ view[p][cur[p]].live = live[cur[p]]
    BY <1>2, <1>s DEF JobShape, ReadHolds
  <2>3. RowsNumbered'
    BY <1>u, <1>s, <2>1 DEF RowsNumbered, SingleProcess
  <2>4. CommitCovers' /\ ReadHolds'
    BY <1>u, <2>1, <2>2 DEF CommitCovers, ReadHolds, SingleProcess
  <2>5. HalfShown'
    BY <2>1 DEF HalfShown, SingleProcess
  <2>6. DoneShown'
    <3>1. step[p] # "register" /\ step'[p] \notin {"flushEntities", "flushRelations", "ack"}
      BY <1>s, <2>1
    <3>2. \A z \in Stores, o \in done[p] : Answered(p, z, o) => mem'[z][o].live = live[o]
      BY ZenonT(60), <1>w, <1>t, <3>1 DEF DoneShown, Answered
    <3> QED BY <1>u, <2>1, <3>1, <3>2 DEF DoneShown, Answered, SingleProcess
  <2> QED BY <1>1, <2>3, <2>4, <2>5, <2>6
<1>3. CASE end[p] = None
  <2>1. /\ end'[p] = None /\ step'[p] = "project" /\ cur'[p] = None
        /\ todo'[p] = todo[p] \ {cur[p]} /\ done'[p] = done[p] \cup {cur[p]}
    BY <1>3, <1>t DEF Projected
  <2>2. Target(p) = cur[p] /\ view[p][cur[p]].live = live[cur[p]]
    BY <1>3, <1>s DEF Target, ReadHolds
  <2>3. \A z \in Stores : mem'[z][cur[p]].live = live[cur[p]]
    <3>1. mem'[s][cur[p]].live = live[cur[p]]
      BY <1>w, <2>2
    <3>2. live[cur[p]] \in BOOLEAN /\ \A z \in Stores : mem[z][cur[p]].live \in BOOLEAN
      BY <1>t DEF TypeOK, SqlTypeOK, StoreTypeOK, View
    <3>3. \A z \in Stores \ {s} : mem[z][cur[p]].live = live[cur[p]]
      BY <1>3, <1>s, <2>2, <3>2 DEF HalfShown, Stores
    <3>4. \A z \in Stores \ {s} : mem'[z][cur[p]] = mem[z][cur[p]]
      BY <1>w, <1>t
    <3> QED BY <3>1, <3>3, <3>4
  <2>r. /\ step[p] \notin {"free", "list", "register"} /\ cur[p] \in todo[p]
        /\ todo'[p] \cup done'[p] = todo[p] \cup done[p] /\ todo'[p] \subseteq todo[p]
    BY <1>s, <1>t, <2>1
  <2>4. RowsNumbered'
    BY <1>u, <2>r DEF RowsNumbered, SingleProcess
  <2>5. CommitCovers'
    BY <1>u, <2>r DEF CommitCovers, SingleProcess
  <2>6. ReadHolds' /\ HalfShown'
    BY <2>1 DEF ReadHolds, HalfShown, SingleProcess
  <2>7. DoneShown'
    <3>1. step'[p] \notin {"flushEntities", "flushRelations", "ack"}
      BY <2>1
    <3>2. \A z \in Stores, o \in done[p] : Answered(p, z, o) => mem'[z][o].live = live[o]
      BY ZenonT(60), <1>w, <1>t, <2>r DEF DoneShown, Answered
    <3> QED BY <1>u, <2>1, <2>3, <3>1, <3>2 DEF DoneShown, Answered, SingleProcess
  <2> QED BY <1>1, <2>4, <2>5, <2>6, <2>7
<1> QED BY <1>2, <1>3

(* The first write of an owner.                                            *)
LEMMA HalfProjectedVisible ==
    ASSUME SingleProcess, OutboxInvariant, VisibleInvariant, Typed', NEW p \in Procs,
           NEW s \in Stores, s = step[p], WriteStore(p, s),
           s = IF view[p][Target(p)].live THEN "graph" ELSE "vdb",
           step' = [step EXCEPT ![p] = IF s = "graph" THEN "vdb" ELSE "graph"],
           UNCHANGED <<sqlVars, kept, mode, kind, todo, listed, done, bad, puts, skips, cur,
                       end, view, faults>>
    PROVE  VisibleInvariant'
<1> USE DEF OutboxInvariant, VisibleInvariant
<1>u. UNCHANGED <<live, atoms, rev, status, kept, kind, todo, listed, done, bad, skips, cur,
                  end, view>>
  BY DEF sqlVars
<1>w. /\ mem'[s][Target(p)].live = live[Target(p)]
      /\ \A z \in Stores, o \in Owners :
            /\ mem'[z][o].live \in {mem[z][o].live, live[o]}
            /\ dur'[z][o].live \in {dur[z][o].live, live[o]}
  BY WriteShows
<1>s. /\ step[p] \in {"graph", "vdb"} /\ step'[p] \in {"graph", "vdb"}
      /\ step'[p] = "vdb" <=> s = "graph"
  BY DEF Stores, TypeOK, JobTypeOK
<1>t. done[p] \in SUBSET Owners
  BY DEF TypeOK, JobTypeOK
<1>1. AppliedIsVisible'
  <2> SUFFICES ASSUME NEW o \in Owners, status[o] = "applied", atoms[o], NEW z \in Stores,
                      z = "graph" \/ ~kept[o]
               PROVE  dur'[z][o].live /\ mem'[z][o].live
    BY <1>u DEF AppliedIsVisible
  <2>1. live[o] /\ dur[z][o].live /\ mem[z][o].live
    BY DEF Registered, AtomsRegistered, AppliedIsVisible
  <2> QED BY <2>1, <1>w
<1>2. RowsNumbered' /\ CommitCovers' /\ ReadHolds'
  BY ZenonT(60), <1>u, <1>s DEF RowsNumbered, CommitCovers, ReadHolds, SingleProcess
<1>3. HalfShown'
  <2> SUFFICES ASSUME end[p] = None
               PROVE  /\ step'[p] = "graph" => s = "vdb" /\ ~view[p][cur[p]].live
                                               /\ ~mem'["vdb"][cur[p]].live
                      /\ step'[p] = "vdb" => mem'["graph"][cur[p]].live
    BY <1>u DEF HalfShown, SingleProcess
  <2>1. Target(p) = cur[p] /\ view[p][cur[p]].live = live[cur[p]]
    BY <1>s DEF Target, ReadHolds
  <2>2. mem'[s][cur[p]].live = view[p][cur[p]].live
    BY <1>w, <2>1
  <2>3. s \in {"graph", "vdb"}
    BY <1>s
  <2>4. CASE s = "graph"
    BY <1>s, <2>1, <2>2, <2>4
  <2>5. CASE s = "vdb"
    BY <1>s, <2>1, <2>2, <2>5
  <2> QED BY <2>3, <2>4, <2>5
<1>4. DoneShown'
  <2>0. step[p] # "register"
    BY <1>s
  <2>1. ASSUME NEW z \in Stores, NEW o \in done[p], Answered(p, z, o)
        PROVE  mem'[z][o].live = live[o]
    <3>1. o \in Owners /\ mem[z][o].live = live[o]
      BY <1>t, <2>0, <2>1 DEF DoneShown
    <3>2. mem'[z][o].live \in {mem[z][o].live, live[o]}
      BY <1>w, <3>1
    <3> QED BY <3>1, <3>2
  <2> QED BY <1>u, <1>s, <2>1 DEF DoneShown, Answered, SingleProcess
<1> QED BY <1>1, <1>2, <1>3, <1>4

LEMMA WriteGraphVisible ==
    ASSUME SingleProcess, OutboxInvariant, VisibleInvariant, Typed', NEW p \in Procs,
           WriteGraph(p)
    PROVE  VisibleInvariant'
<1>1. "graph" \in Stores
  BY DEF Stores
<1>2. CASE view[p][Target(p)].live
  BY <1>1, <1>2, HalfProjectedVisible DEF WriteGraph
<1>3. CASE ~view[p][Target(p)].live
  BY <1>1, <1>3, ProjectedVisible DEF WriteGraph
<1> QED BY <1>2, <1>3

LEMMA WriteVdbVisible ==
    ASSUME SingleProcess, OutboxInvariant, VisibleInvariant, Typed', NEW p \in Procs,
           WriteVdb(p)
    PROVE  VisibleInvariant'
<1>1. "vdb" \in Stores
  BY DEF Stores
<1>2. CASE view[p][Target(p)].live
  BY <1>1, <1>2, ProjectedVisible DEF WriteVdb
<1>3. CASE ~view[p][Target(p)].live
  BY <1>1, <1>3, HalfProjectedVisible DEF WriteVdb
<1> QED BY <1>2, <1>3

LEMMA StoreFailsVisible ==
    ASSUME SingleProcess, OutboxInvariant, VisibleInvariant, Typed', NEW p \in Procs,
           StoreFails(p)
    PROVE  VisibleInvariant'
<1> USE DEF OutboxInvariant, VisibleInvariant
<1>s. step[p] \in {"graph", "vdb"} /\ step[p] \in Stores
  BY DEF StoreFails, Stores
<1>u. UNCHANGED <<live, atoms, rev, status, kept>>
  BY DEF StoreFails, sqlVars
<1>w. \A z \in Stores, o \in Owners :
         /\ mem'[z][o].live \in {mem[z][o].live, live[o]}
         /\ dur'[z][o].live \in {dur[z][o].live, live[o]}
  <2>1. CASE UNCHANGED storeVars
    BY <2>1 DEF storeVars
  <2>2. CASE WriteStore(p, step[p])
    BY <1>s, <2>2, WriteShows
  <2> QED BY <2>1, <2>2 DEF StoreFails
<1>1. AppliedIsVisible'
  <2> SUFFICES ASSUME NEW o \in Owners, status[o] = "applied", atoms[o], NEW z \in Stores,
                      z = "graph" \/ ~kept[o]
               PROVE  dur'[z][o].live /\ mem'[z][o].live
    BY <1>u DEF AppliedIsVisible
  <2>1. live[o] /\ dur[z][o].live /\ mem[z][o].live
    BY DEF Registered, AtomsRegistered, AppliedIsVisible
  <2> QED BY <2>1, <1>w
<1>2. CASE kind[p] = "commit"
  <2>1. step'[p] = "free" /\ done'[p] = {} /\ kind'[p] = "reconcile"
    BY <1>2 DEF StoreFails, Release, TypeOK, JobTypeOK
  <2>2. RowsNumbered' /\ CommitCovers'
    BY <1>u, <2>1 DEF RowsNumbered, CommitCovers, SingleProcess
  <2>3. ReadHolds' /\ HalfShown' /\ DoneShown'
    BY <2>1 DEF ReadHolds, HalfShown, DoneShown, Answered, SingleProcess
  <2> QED BY <1>1, <2>2, <2>3
<1>3. CASE kind[p] # "commit"
  <2>1. /\ UNCHANGED <<kind, listed, done, skips>> /\ step'[p] = "failing"
        /\ todo'[p] \cup bad'[p] \subseteq todo[p] /\ done[p] \subseteq Owners
    BY <1>3, <1>s DEF StoreFails, TypeOK, JobTypeOK, JobShape
  <2>2. RowsNumbered' /\ CommitCovers'
    BY <1>3, <1>s, <1>u, <2>1 DEF RowsNumbered, CommitCovers, SingleProcess
  <2>3. ReadHolds' /\ HalfShown'
    BY <2>1 DEF ReadHolds, HalfShown, SingleProcess
  <2>4. DoneShown'
    BY <1>s, <1>u, <1>w, <2>1 DEF DoneShown, Answered, SingleProcess
  <2> QED BY <1>1, <2>2, <2>3, <2>4
<1> QED BY <1>2, <1>3

LEMMA NextVisible ==
    SingleProcess /\ OutboxInvariant /\ VisibleInvariant /\ [Next]_vars => VisibleInvariant'
<1> SUFFICES ASSUME SingleProcess, OutboxInvariant, VisibleInvariant, [Next]_vars
             PROVE  VisibleInvariant'
  OBVIOUS
<1>0. Typed'
  BY NextTyped DEF OutboxInvariant, Typed
<1>1. CASE Write
  BY <1>0, <1>1, DeleteEpisodeVisible, CommitStartVisible, ResolveConflictVisible DEF Write
<1>2. ASSUME NEW p \in Procs, Progress(p) PROVE VisibleInvariant'
  BY <1>0, <1>2, ReconcileNothingVisible, ReconcileVisible, ListTasksVisible, DescribeVisible,
     EndsReadyVisible, WriteGraphVisible, WriteVdbVisible, BatchDoneVisible, FlushVisible,
     RegisterVisible, StoreAtomVisible, MergeVisible, MergeKeepsVisible, MergeRefusedVisible, FetchVisible, FetchUnlocatedVisible,
     FetchEndVisible, AcknowledgeVisible, MarkFailedVisible DEF Progress
<1>3. ASSUME NEW p \in Procs, Failure(p) PROVE VisibleInvariant'
  BY <1>0, <1>3, StoreFailsVisible, FlushFailsVisible, AbortVisible, CrashVisible DEF Failure
<1>4. ASSUME NEW p \in Procs, ProcStart(p) PROVE VisibleInvariant'
  BY <1>0, <1>4, ProcStartVisible
<1>5. ASSUME NEW o \in Owners, RetryDue(o) PROVE VisibleInvariant'
  BY <1>0, <1>5, RetryDueVisible
<1>6. CASE UNCHANGED vars
  <2> USE <1>6 DEF vars, sqlVars, storeVars, jobVars
  <2>1. RowsNumbered' /\ CommitCovers' /\ ReadHolds'
    BY DEF VisibleInvariant, RowsNumbered, CommitCovers, ReadHolds
  <2>2. HalfShown' /\ DoneShown' /\ AppliedIsVisible'
    BY DEF VisibleInvariant, HalfShown, DoneShown, Answered, AppliedIsVisible
  <2> QED BY <2>1, <2>2 DEF VisibleInvariant
<1> QED BY <1>1, <1>2, <1>3, <1>4, <1>5, <1>6 DEF Next

LEMMA VisibleAlways == SingleProcess => (Spec => []VisibleInvariant)
<1>1. SUFFICES ASSUME SingleProcess PROVE Spec => []VisibleInvariant
  OBVIOUS
<1>2. OutboxInvariant /\ VisibleInvariant /\ [Next]_vars => VisibleInvariant'
  BY <1>1, NextVisible
<1>3. Spec => []OutboxInvariant
  BY <1>1, FenceInvariant
<1> QED BY <1>2, <1>3, InitVisible, PTL DEF Spec

(* With one process, an acknowledged owner that holds Atoms is found in    *)
(* the graph, and in the vector store unless the commit that acknowledged  *)
(* it kept the old copy, on disk and by the readers of the running         *)
(* process: its endpoints were in the graph when its edge was written.     *)
THEOREM AcknowledgedIsVisible == SingleProcess => (Spec => []AppliedIsVisible)
<1>1. VisibleInvariant => AppliedIsVisible
  BY DEF VisibleInvariant
<1> QED BY <1>1, VisibleAlways, PTL

-----------------------------------------------------------------------------
(* One process: nothing the memory has dropped stays in a store.           *)

LEMMA InitGhost == Init => GhostInvariant
<1> SUFFICES ASSUME Init PROVE GhostInvariant
  OBVIOUS
<1> USE DEF Init, Unseen
<1>1. Strayless /\ Ghostless
  BY DEF Strayless, Ghostless, Hidden
<1>2. Needful /\ NobodyBeforeServing
  BY DEF Needful, NobodyBeforeServing
<1> QED BY <1>1, <1>2 DEF GhostInvariant

LEMMA NeededGrows ==
    ASSUME \A o \in Owners : (live[o] => live'[o]) /\ (atoms[o] => atoms'[o])
    PROVE  \A o \in Owners : Needed(o) => Needed(o)'
  BY DEF Needed, Owners

LEMMA HiddenStays ==
    ASSUME NEW o \in Owners, Hidden(o),
           \A s \in Stores : mem'[s][o] \in {mem[s][o], dur[s][o]} /\ dur'[s][o] \in {mem[s][o], dur[s][o]}
    PROVE  Hidden(o)'
  BY DEF Hidden

(* Outside the first two steps of a commit, what is registered is needed.  *)
LEMMA NeedfulStays ==
    ASSUME SingleProcess, Needful, NEW p \in Procs, mode[p] # "down",
           step[p] \notin {"register", "store"}, step'[p] \notin {"register", "store"},
           UNCHANGED <<live, atoms>>
    PROVE  Needful'
<1>1. \A o \in Owners : live[o] => Needed(o)
  BY DEF Needful
<1>2. \A o \in Owners : live'[o] => Needed(o)'
  BY <1>1 DEF Needed
<1> QED BY <1>2 DEF Needful, SingleProcess

(* A startup repair keeps the needed owners, and they stay needed.         *)
LEMMA PruneKeepsNeeded ==
    ASSUME TypeOK, Prune, UNCHANGED atoms, NEW o \in Owners
    PROVE  /\ live'[o] <=> Needed(o)
           /\ Needed(o)' <=> Needed(o)
<1>1. \A x \in Owners : live'[x] <=> Needed(x)
  BY DEF Prune, Needed
<1>2. \A r \in Relations : live'[r] /\ atoms[r] <=> live[r] /\ atoms[r]
  BY <1>1 DEF Needed, Owners
<1> QED BY <1>1, <1>2 DEF Needed

(* A hard delete queues every owner that is no longer needed, and leaves   *)
(* nothing registered that is not.                                         *)
LEMMA DeleteKeepsNeeded ==
    ASSUME TypeOK, NEW p \in Procs, NEW A \in SUBSET Owners, NEW K \in SUBSET A,
           DeleteEpisode(p, A, K), NEW o \in Owners
    PROVE  /\ Needed(o) => Needed(o)' \/ Outstanding(o)'
           /\ ~Needed(o)' => Outstanding(o)' \/ (~Needed(o) /\ status'[o] = status[o])
           /\ (\A x \in Owners : live[x] => Needed(x)) => (live'[o] => Needed(o)')
<1> DEFINE Q == A \cup UNION {Ends[r] : r \in A \cap Relations}
           stays(r) == live[r] /\ ~(r \in K)
           used(e) == \E r \in Relations : stays(r) /\ e \in Ends[r]
           gone == (K \cap Relations) \cup
                   {e \in Q \cap Entities : (e \in K \/ ~atoms[e]) /\ ~used(e)}
<1>1. /\ \A x \in Owners : atoms'[x] <=> atoms[x] /\ x \notin K
      /\ \A x \in Owners : live'[x] <=> live[x] /\ x \notin gone
      /\ \A x \in Owners : status'[x] = IF x \in Q THEN "pending" ELSE status[x]
  BY DEF DeleteEpisode, Queue
<1>2. \A r \in Relations : r \in Owners /\ r \notin Entities
  BY OwnersAssumption DEF Owners
<1>3. \A x \in Owners : x \in Q => Outstanding(x)'
  BY <1>1 DEF Outstanding
<1>4. \A r \in Relations : live[r] /\ atoms[r] /\ r \notin K => live'[r] /\ atoms'[r]
  BY <1>1, <1>2
<1>5. ASSUME Needed(o), o \notin Q PROVE Needed(o)'
  <2>1. o \notin K /\ o \notin gone
    BY <1>5
  <2>2. live'[o]
    BY <1>1, <1>5, <2>1 DEF Needed
  <2>3. CASE atoms[o]
    BY <1>1, <2>1, <2>2, <2>3 DEF Needed
  <2>4. CASE ~atoms[o]
    <3>1. PICK r \in Relations : live[r] /\ atoms[r] /\ o \in Ends[r]
      BY <1>5, <2>4 DEF Needed
    <3>2. r \notin K
      BY <1>5, <3>1
    <3> QED BY <1>4, <1>5, <2>2, <2>4, <3>1, <3>2 DEF Needed
  <2> QED BY <2>3, <2>4
<1>6. ASSUME \A x \in Owners : live[x] => Needed(x), live'[o] PROVE Needed(o)'
  <2>1. live[o] /\ o \notin gone /\ Needed(o)
    BY <1>1, <1>6
  <2>2. CASE o \in Relations
    BY <1>1, <1>2, <1>6, <2>1, <2>2 DEF Needed
  <2>3. CASE o \in Entities /\ o \in Q
    <3>1. CASE atoms[o] /\ o \notin K
      BY <1>1, <1>6, <3>1 DEF Needed
    <3>2. CASE ~(atoms[o] /\ o \notin K)
      <4>1. PICK r \in Relations : stays(r) /\ o \in Ends[r]
        BY <2>1, <2>3, <3>2
      <4>2. atoms[r]
        BY <1>2, <1>6, <4>1 DEF Needed
      <4> QED BY <1>4, <1>6, <2>3, <4>1, <4>2 DEF Needed
    <3> QED BY <3>1, <3>2
  <2>4. CASE o \notin Q
    BY <1>5, <2>1, <2>4
  <2> QED BY <2>2, <2>3, <2>4 DEF Owners
<1> QED BY <1>1, <1>3, <1>5, <1>6

LEMMA ProcStartGhost ==
    ASSUME SingleProcess, OutboxInvariant, VisibleInvariant, GhostInvariant, Typed', NEW p \in Procs,
           ProcStart(p)
    PROVE  GhostInvariant'
<1> USE DEF OutboxInvariant, GhostInvariant, ProcStart, Prune, rowVars, storeVars, jobVars
<1>1. (\A q \in Procs : kind[q] # "reconcile" => mode[q] = "up")'
  BY DEF TypeOK, SqlTypeOK, StoreTypeOK, JobTypeOK, JobShape, SingleProcess
<1>2. (faults["abort"] = 0 => Strayless)'
  <2>1. \A o \in Owners : Needed(o)' <=> Needed(o)
    BY PruneKeepsNeeded
  <2> QED BY <2>1 DEF Strayless, Outstanding, Hidden
<1>3. (faults["abort"] = 0 => Needful)'
  <2>1. \A o \in Owners : live'[o] => Needed(o)'
    BY PruneKeepsNeeded
  <2>2. step'[p] = "free"
    BY DEF Registered
  <2> QED BY <2>1, <2>2 DEF Needful, SingleProcess
<1>4. (faults["crash"] = 0 => Ghostless)'
  <2>1. faults["crash"] = 0 => \A o \in Owners : ~live[o]
    BY DEF NobodyBeforeServing
  <2> QED BY <2>1 DEF Ghostless, Outstanding, Hidden
<1>5. (faults["crash"] = 0 => NobodyBeforeServing)'
  BY DEF TypeOK, SqlTypeOK, StoreTypeOK, JobTypeOK, JobShape, SingleProcess, NobodyBeforeServing
<1> QED BY <1>1, <1>2, <1>3, <1>4, <1>5

LEMMA ReconcileNothingGhost ==
    ASSUME SingleProcess, OutboxInvariant, VisibleInvariant, GhostInvariant, Typed', NEW p \in Procs,
           ReconcileNothing(p)
    PROVE  GhostInvariant'
<1> USE DEF OutboxInvariant, GhostInvariant, ReconcileNothing, sqlVars, storeVars, jobVars, Serve
<1>1. (\A q \in Procs : kind[q] # "reconcile" => mode[q] = "up")'
  BY DEF TypeOK, SqlTypeOK, StoreTypeOK, JobTypeOK, JobShape, SingleProcess
<1>2. (faults["abort"] = 0 => Strayless)'
  BY DEF TypeOK, SqlTypeOK, StoreTypeOK, JobTypeOK, JobShape, SingleProcess, Strayless, Needed, Outstanding, Hidden
<1>3. (faults["abort"] = 0 => Needful)'
  BY DEF TypeOK, SqlTypeOK, StoreTypeOK, JobTypeOK, JobShape, SingleProcess, Needful, Needed
<1>4. (faults["crash"] = 0 => Ghostless)'
  BY DEF TypeOK, SqlTypeOK, StoreTypeOK, JobTypeOK, JobShape, SingleProcess, Ghostless, Outstanding, Hidden
<1>5. (faults["crash"] = 0 => NobodyBeforeServing)'
  BY DEF TypeOK, SqlTypeOK, StoreTypeOK, JobTypeOK, JobShape, SingleProcess, NobodyBeforeServing
<1> QED BY <1>1, <1>2, <1>3, <1>4, <1>5

LEMMA ReconcileGhost ==
    ASSUME SingleProcess, OutboxInvariant, VisibleInvariant, GhostInvariant, Typed', NEW p \in Procs,
           Reconcile(p)
    PROVE  GhostInvariant'
<1> USE DEF OutboxInvariant, GhostInvariant, Reconcile, Batches, Reconcilable, ListingOf, sqlVars, storeVars
<1>1. (\A q \in Procs : kind[q] # "reconcile" => mode[q] = "up")'
  BY DEF TypeOK, SqlTypeOK, StoreTypeOK, JobTypeOK, JobShape, SingleProcess
<1>2. (faults["abort"] = 0 => Strayless)'
  BY DEF TypeOK, SqlTypeOK, StoreTypeOK, JobTypeOK, JobShape, SingleProcess, Strayless, Needed, Outstanding, Hidden
<1>3. (faults["abort"] = 0 => Needful)'
  BY DEF TypeOK, SqlTypeOK, StoreTypeOK, JobTypeOK, JobShape, SingleProcess, Needful, Needed
<1>4. (faults["crash"] = 0 => Ghostless)'
  BY DEF TypeOK, SqlTypeOK, StoreTypeOK, JobTypeOK, JobShape, SingleProcess, Ghostless, Outstanding, Hidden
<1>5. (faults["crash"] = 0 => NobodyBeforeServing)'
  BY DEF TypeOK, SqlTypeOK, StoreTypeOK, JobTypeOK, JobShape, SingleProcess, NobodyBeforeServing
<1> QED BY <1>1, <1>2, <1>3, <1>4, <1>5

LEMMA ListTasksGhost ==
    ASSUME SingleProcess, OutboxInvariant, VisibleInvariant, GhostInvariant, Typed', NEW p \in Procs,
           ListTasks(p)
    PROVE  GhostInvariant'
<1> USE DEF OutboxInvariant, GhostInvariant, ListTasks, ListingOf, sqlVars, storeVars
<1>1. (\A q \in Procs : kind[q] # "reconcile" => mode[q] = "up")'
  BY DEF TypeOK, SqlTypeOK, StoreTypeOK, JobTypeOK, JobShape, SingleProcess
<1>2. (faults["abort"] = 0 => Strayless)'
  BY DEF TypeOK, SqlTypeOK, StoreTypeOK, JobTypeOK, JobShape, SingleProcess, Strayless, Needed, Outstanding, Hidden
<1>3. (faults["abort"] = 0 => Needful)'
  <2>1. /\ UNCHANGED <<mode, live, atoms, puts>> /\ step[p] = "list"
        /\ step'[p] \in {"project", "describe"} /\ UNCHANGED faults
    BY DEF TypeOK, JobTypeOK
  <2>2. \A x \in Owners : Needed(x)' <=> Needed(x)
    BY <2>1 DEF Needed
  <2> HIDE DEF ListTasks
  <2> QED BY <2>1, <2>2 DEF Needful, SingleProcess
<1>4. (faults["crash"] = 0 => Ghostless)'
  BY DEF TypeOK, SqlTypeOK, StoreTypeOK, JobTypeOK, JobShape, SingleProcess, Ghostless, Outstanding, Hidden
<1>5. (faults["crash"] = 0 => NobodyBeforeServing)'
  BY DEF TypeOK, SqlTypeOK, StoreTypeOK, JobTypeOK, JobShape, SingleProcess, NobodyBeforeServing
<1> QED BY <1>1, <1>2, <1>3, <1>4, <1>5

LEMMA DescribeGhost ==
    ASSUME SingleProcess, OutboxInvariant, VisibleInvariant, GhostInvariant, Typed', NEW p \in Procs,
           Describe(p)
    PROVE  GhostInvariant'
<1> USE DEF OutboxInvariant, GhostInvariant, Describe, sqlVars, storeVars
<1>1. (\A q \in Procs : kind[q] # "reconcile" => mode[q] = "up")'
  BY DEF TypeOK, SqlTypeOK, StoreTypeOK, JobTypeOK, JobShape, SingleProcess
<1>2. (faults["abort"] = 0 => Strayless)'
  BY DEF TypeOK, SqlTypeOK, StoreTypeOK, JobTypeOK, JobShape, SingleProcess, Strayless, Needed, Outstanding, Hidden
<1>3. (faults["abort"] = 0 => Needful)'
  BY DEF TypeOK, SqlTypeOK, StoreTypeOK, JobTypeOK, JobShape, SingleProcess, Needful, Needed
<1>4. (faults["crash"] = 0 => Ghostless)'
  BY DEF TypeOK, SqlTypeOK, StoreTypeOK, JobTypeOK, JobShape, SingleProcess, Ghostless, Outstanding, Hidden
<1>5. (faults["crash"] = 0 => NobodyBeforeServing)'
  BY DEF TypeOK, SqlTypeOK, StoreTypeOK, JobTypeOK, JobShape, SingleProcess, NobodyBeforeServing
<1> QED BY <1>1, <1>2, <1>3, <1>4, <1>5

LEMMA EndsReadyGhost ==
    ASSUME SingleProcess, OutboxInvariant, VisibleInvariant, GhostInvariant, Typed', NEW p \in Procs,
           EndsReady(p)
    PROVE  GhostInvariant'
<1> USE DEF OutboxInvariant, GhostInvariant, EndsReady, MissingEnds, sqlVars, storeVars
<1>1. (\A q \in Procs : kind[q] # "reconcile" => mode[q] = "up")'
  BY DEF TypeOK, SqlTypeOK, StoreTypeOK, JobTypeOK, JobShape, SingleProcess
<1>2. (faults["abort"] = 0 => Strayless)'
  BY DEF TypeOK, SqlTypeOK, StoreTypeOK, JobTypeOK, JobShape, SingleProcess, Strayless, Needed, Outstanding, Hidden
<1>3. (faults["abort"] = 0 => Needful)'
  BY DEF TypeOK, SqlTypeOK, StoreTypeOK, JobTypeOK, JobShape, SingleProcess, Needful, Needed
<1>4. (faults["crash"] = 0 => Ghostless)'
  BY DEF TypeOK, SqlTypeOK, StoreTypeOK, JobTypeOK, JobShape, SingleProcess, Ghostless, Outstanding, Hidden
<1>5. (faults["crash"] = 0 => NobodyBeforeServing)'
  BY DEF TypeOK, SqlTypeOK, StoreTypeOK, JobTypeOK, JobShape, SingleProcess, NobodyBeforeServing
<1> QED BY <1>1, <1>2, <1>3, <1>4, <1>5

LEMMA RegisterGhost ==
    ASSUME SingleProcess, OutboxInvariant, VisibleInvariant, GhostInvariant, Typed', NEW p \in Procs, NEW o \in Owners,
           Register(p, o)
    PROVE  GhostInvariant'
<1> USE DEF OutboxInvariant, GhostInvariant, Register, rowVars, storeVars
<1>1. (\A q \in Procs : kind[q] # "reconcile" => mode[q] = "up")'
  BY DEF TypeOK, SqlTypeOK, StoreTypeOK, JobTypeOK, JobShape, SingleProcess
<1>2. (faults["abort"] = 0 => Strayless)'
  <2>1. \A x \in Owners : Needed(x) => Needed(x)'
    BY NeededGrows DEF TypeOK, SqlTypeOK
  <2>2. UNCHANGED <<status, mem, dur, faults>>
    OBVIOUS
  <2> HIDE DEF Register
  <2> QED BY <2>1, <2>2 DEF Strayless, Outstanding, Hidden
<1>3. (faults["abort"] = 0 => Needful)'
  <2>1. \A x \in Owners : Needed(x) => Needed(x)'
    BY NeededGrows DEF TypeOK, SqlTypeOK
  <2>2. /\ UNCHANGED <<mode, todo, puts, atoms, faults>>
        /\ step'[p] \in {"register", "store"}
        /\ \A x \in Owners : live'[x] => live[x] \/ x = o
    BY DEF TypeOK, SqlTypeOK, JobTypeOK
  <2>3. step[p] = "register" /\ o \in todo[p] /\ mode[p] # "down"
    BY DEF Registered
  <2> HIDE DEF Register
  <2> QED BY <2>1, <2>2, <2>3 DEF Needful, SingleProcess
<1>4. (faults["crash"] = 0 => Ghostless)'
  BY DEF TypeOK, SqlTypeOK, StoreTypeOK, JobTypeOK, JobShape, SingleProcess, Ghostless, Outstanding, Hidden
<1>5. (faults["crash"] = 0 => NobodyBeforeServing)'
  BY DEF TypeOK, SqlTypeOK, StoreTypeOK, JobTypeOK, JobShape, SingleProcess, NobodyBeforeServing, Registered
<1> QED BY <1>1, <1>2, <1>3, <1>4, <1>5

LEMMA StoreAtomGhost ==
    ASSUME SingleProcess, OutboxInvariant, VisibleInvariant, GhostInvariant, Typed', NEW p \in Procs, NEW o \in Owners,
           StoreAtom(p, o)
    PROVE  GhostInvariant'
<1> USE DEF OutboxInvariant, GhostInvariant, StoreAtom, Queue, storeVars
<1>1. (\A q \in Procs : kind[q] # "reconcile" => mode[q] = "up")'
  BY DEF TypeOK, SqlTypeOK, StoreTypeOK, JobTypeOK, JobShape, SingleProcess
<1>2. (faults["abort"] = 0 => Strayless)'
  <2>1. \A x \in Owners : Needed(x) => Needed(x)'
    BY NeededGrows DEF TypeOK, SqlTypeOK
  <2>2. \A x \in Owners : Outstanding(x) => Outstanding(x)'
    BY DEF Outstanding
  <2> QED BY <2>1, <2>2 DEF Strayless, Hidden
<1>3. (faults["abort"] = 0 => Needful)'
  <2> SUFFICES ASSUME faults["abort"] = 0 PROVE Needful'
    OBVIOUS
  <2>0. Needful /\ mode[p] # "down" /\ step[p] = "store" /\ \A x \in todo[p] : live[x]
    BY DEF Registered
  <2>1. \A x \in Owners : Needed(x) => Needed(x)'
    BY NeededGrows DEF TypeOK, SqlTypeOK
  <2>2. /\ UNCHANGED <<mode, todo, live>> /\ puts'[p] = puts[p] \ {o}
        /\ step'[p] = IF puts[p] = {o} THEN "list" ELSE "store"
        /\ \A x \in Owners : atoms'[x] <=> atoms[x] \/ x = o
        /\ todo[p] \subseteq Owners
    BY DEF TypeOK, SqlTypeOK, JobTypeOK
  <2>3. \A x \in todo[p] :
           \/ atoms[x] \/ x \in puts[p]
           \/ x \in Entities /\ \E r \in todo[p] \cap Relations : x \in Ends[r]
    BY <2>0 DEF Needful
  <2>4. \A x \in Owners : live[x] /\ ~Needed(x)' => x \in todo[p]
    BY <2>0, <2>1 DEF Needful
  <2> HIDE DEF StoreAtom
  <2>5. CASE puts[p] # {o}
    BY <2>2, <2>3, <2>4, <2>5 DEF Needful, SingleProcess
  <2>6. CASE puts[p] = {o}
    <3>1. \A r \in todo[p] \cap Relations : live'[r] /\ atoms'[r]
      BY <2>0, <2>2, <2>3, <2>6, OwnersAssumption
    <3>2. \A x \in todo[p] : Needed(x)'
      BY <2>0, <2>2, <2>3, <2>6, <3>1 DEF Needed
    <3>3. step'[p] = "list" /\ \A x \in Owners : live'[x] => Needed(x)'
      BY <2>2, <2>4, <2>6, <3>2
    <3> QED BY <3>3 DEF Needful, SingleProcess
  <2> QED BY <2>5, <2>6
<1>4. (faults["crash"] = 0 => Ghostless)'
  BY DEF TypeOK, SqlTypeOK, StoreTypeOK, JobTypeOK, JobShape, SingleProcess, Ghostless, Outstanding, Hidden
<1>5. (faults["crash"] = 0 => NobodyBeforeServing)'
  BY DEF TypeOK, SqlTypeOK, StoreTypeOK, JobTypeOK, JobShape, SingleProcess, NobodyBeforeServing
<1> QED BY <1>1, <1>2, <1>3, <1>4, <1>5

LEMMA MergeGhost ==
    ASSUME SingleProcess, OutboxInvariant, VisibleInvariant, GhostInvariant, Typed', NEW p \in Procs, NEW o \in Owners,
           Merge(p, o)
    PROVE  GhostInvariant'
<1> USE DEF OutboxInvariant, GhostInvariant, Merge, Begin, EntitiesFirst, sqlVars, storeVars
<1>1. (\A q \in Procs : kind[q] # "reconcile" => mode[q] = "up")'
  BY DEF TypeOK, SqlTypeOK, StoreTypeOK, JobTypeOK, JobShape, SingleProcess
<1>2. (faults["abort"] = 0 => Strayless)'
  BY DEF TypeOK, SqlTypeOK, StoreTypeOK, JobTypeOK, JobShape, SingleProcess, Strayless, Needed, Outstanding, Hidden
<1>3. (faults["abort"] = 0 => Needful)'
  BY DEF TypeOK, SqlTypeOK, StoreTypeOK, JobTypeOK, JobShape, SingleProcess, Needful, Needed
<1>4. (faults["crash"] = 0 => Ghostless)'
  BY DEF TypeOK, SqlTypeOK, StoreTypeOK, JobTypeOK, JobShape, SingleProcess, Ghostless, Outstanding, Hidden
<1>5. (faults["crash"] = 0 => NobodyBeforeServing)'
  BY DEF TypeOK, SqlTypeOK, StoreTypeOK, JobTypeOK, JobShape, SingleProcess, NobodyBeforeServing
<1> QED BY <1>1, <1>2, <1>3, <1>4, <1>5

LEMMA MergeKeepsGhost ==
    ASSUME SingleProcess, OutboxInvariant, VisibleInvariant, GhostInvariant, Typed', NEW p \in Procs, NEW o \in Owners,
           MergeKeeps(p, o)
    PROVE  GhostInvariant'
<1> USE DEF OutboxInvariant, GhostInvariant, MergeKeeps, Begin, sqlVars, storeVars
<1>1. (\A q \in Procs : kind[q] # "reconcile" => mode[q] = "up")'
  BY DEF TypeOK, SqlTypeOK, StoreTypeOK, JobTypeOK, JobShape, SingleProcess
<1>2. (faults["abort"] = 0 => Strayless)'
  BY DEF TypeOK, SqlTypeOK, StoreTypeOK, JobTypeOK, JobShape, SingleProcess, Strayless, Needed, Outstanding, Hidden
<1>3. (faults["abort"] = 0 => Needful)'
  BY DEF TypeOK, SqlTypeOK, StoreTypeOK, JobTypeOK, JobShape, SingleProcess, Needful, Needed
<1>4. (faults["crash"] = 0 => Ghostless)'
  BY DEF TypeOK, SqlTypeOK, StoreTypeOK, JobTypeOK, JobShape, SingleProcess, Ghostless, Outstanding, Hidden
<1>5. (faults["crash"] = 0 => NobodyBeforeServing)'
  BY DEF TypeOK, SqlTypeOK, StoreTypeOK, JobTypeOK, JobShape, SingleProcess, NobodyBeforeServing
<1> QED BY <1>1, <1>2, <1>3, <1>4, <1>5

LEMMA MergeRefusedGhost ==
    ASSUME SingleProcess, OutboxInvariant, VisibleInvariant, GhostInvariant, Typed', NEW p \in Procs, NEW o \in Owners,
           MergeRefused(p, o)
    PROVE  GhostInvariant'
<1> USE DEF OutboxInvariant, GhostInvariant, MergeRefused, Begin, Release, sqlVars, storeVars, Fault
<1>1. (\A q \in Procs : kind[q] # "reconcile" => mode[q] = "up")'
  BY DEF TypeOK, SqlTypeOK, StoreTypeOK, JobTypeOK, JobShape, SingleProcess
<1>2. (faults["abort"] = 0 => Strayless)'
  BY DEF TypeOK, SqlTypeOK, StoreTypeOK, JobTypeOK, JobShape, SingleProcess, Strayless, Needed, Outstanding, Hidden
<1>3. (faults["abort"] = 0 => Needful)'
  BY DEF TypeOK, SqlTypeOK, StoreTypeOK, JobTypeOK, JobShape, SingleProcess, Needful, Needed
<1>4. (faults["crash"] = 0 => Ghostless)'
  BY DEF TypeOK, SqlTypeOK, StoreTypeOK, JobTypeOK, JobShape, SingleProcess, Ghostless, Outstanding, Hidden
<1>5. (faults["crash"] = 0 => NobodyBeforeServing)'
  BY DEF TypeOK, SqlTypeOK, StoreTypeOK, JobTypeOK, JobShape, SingleProcess, NobodyBeforeServing
<1> QED BY <1>1, <1>2, <1>3, <1>4, <1>5

LEMMA FetchGhost ==
    ASSUME SingleProcess, OutboxInvariant, VisibleInvariant, GhostInvariant, Typed', NEW p \in Procs, NEW o \in Owners,
           Fetch(p, o)
    PROVE  GhostInvariant'
<1> USE DEF OutboxInvariant, GhostInvariant, Fetch, Begin, sqlVars, storeVars
<1>1. (\A q \in Procs : kind[q] # "reconcile" => mode[q] = "up")'
  BY DEF TypeOK, SqlTypeOK, StoreTypeOK, JobTypeOK, JobShape, SingleProcess
<1>2. (faults["abort"] = 0 => Strayless)'
  BY DEF TypeOK, SqlTypeOK, StoreTypeOK, JobTypeOK, JobShape, SingleProcess, Strayless, Needed, Outstanding, Hidden
<1>3. (faults["abort"] = 0 => Needful)'
  BY DEF TypeOK, SqlTypeOK, StoreTypeOK, JobTypeOK, JobShape, SingleProcess, Needful, Needed
<1>4. (faults["crash"] = 0 => Ghostless)'
  BY DEF TypeOK, SqlTypeOK, StoreTypeOK, JobTypeOK, JobShape, SingleProcess, Ghostless, Outstanding, Hidden
<1>5. (faults["crash"] = 0 => NobodyBeforeServing)'
  BY DEF TypeOK, SqlTypeOK, StoreTypeOK, JobTypeOK, JobShape, SingleProcess, NobodyBeforeServing
<1> QED BY <1>1, <1>2, <1>3, <1>4, <1>5

LEMMA FetchUnlocatedGhost ==
    ASSUME SingleProcess, OutboxInvariant, VisibleInvariant, GhostInvariant, Typed', NEW p \in Procs, NEW o \in Owners,
           FetchUnlocated(p, o)
    PROVE  GhostInvariant'
<1> USE DEF OutboxInvariant, GhostInvariant, FetchUnlocated, Begin, sqlVars, storeVars
<1>1. (\A q \in Procs : kind[q] # "reconcile" => mode[q] = "up")'
  BY DEF TypeOK, SqlTypeOK, StoreTypeOK, JobTypeOK, JobShape, SingleProcess
<1>2. (faults["abort"] = 0 => Strayless)'
  BY DEF TypeOK, SqlTypeOK, StoreTypeOK, JobTypeOK, JobShape, SingleProcess, Strayless, Needed, Outstanding, Hidden
<1>3. (faults["abort"] = 0 => Needful)'
  BY DEF TypeOK, SqlTypeOK, StoreTypeOK, JobTypeOK, JobShape, SingleProcess, Needful, Needed
<1>4. (faults["crash"] = 0 => Ghostless)'
  BY DEF TypeOK, SqlTypeOK, StoreTypeOK, JobTypeOK, JobShape, SingleProcess, Ghostless, Outstanding, Hidden
<1>5. (faults["crash"] = 0 => NobodyBeforeServing)'
  BY DEF TypeOK, SqlTypeOK, StoreTypeOK, JobTypeOK, JobShape, SingleProcess, NobodyBeforeServing
<1> QED BY <1>1, <1>2, <1>3, <1>4, <1>5

LEMMA FetchEndGhost ==
    ASSUME SingleProcess, OutboxInvariant, VisibleInvariant, GhostInvariant, Typed', NEW p \in Procs, NEW e \in Owners,
           FetchEnd(p, e)
    PROVE  GhostInvariant'
<1> USE DEF OutboxInvariant, GhostInvariant, FetchEnd, MissingEnds, sqlVars, storeVars
<1>1. (\A q \in Procs : kind[q] # "reconcile" => mode[q] = "up")'
  BY DEF TypeOK, SqlTypeOK, StoreTypeOK, JobTypeOK, JobShape, SingleProcess
<1>2. (faults["abort"] = 0 => Strayless)'
  BY DEF TypeOK, SqlTypeOK, StoreTypeOK, JobTypeOK, JobShape, SingleProcess, Strayless, Needed, Outstanding, Hidden
<1>3. (faults["abort"] = 0 => Needful)'
  BY DEF TypeOK, SqlTypeOK, StoreTypeOK, JobTypeOK, JobShape, SingleProcess, Needful, Needed
<1>4. (faults["crash"] = 0 => Ghostless)'
  BY DEF TypeOK, SqlTypeOK, StoreTypeOK, JobTypeOK, JobShape, SingleProcess, Ghostless, Outstanding, Hidden
<1>5. (faults["crash"] = 0 => NobodyBeforeServing)'
  BY DEF TypeOK, SqlTypeOK, StoreTypeOK, JobTypeOK, JobShape, SingleProcess, NobodyBeforeServing
<1> QED BY <1>1, <1>2, <1>3, <1>4, <1>5

LEMMA BatchDoneGhost ==
    ASSUME SingleProcess, OutboxInvariant, VisibleInvariant, GhostInvariant, Typed', NEW p \in Procs,
           BatchDone(p)
    PROVE  GhostInvariant'
<1> USE DEF OutboxInvariant, GhostInvariant, BatchDone, Release, sqlVars, storeVars, Serve
<1>1. (\A q \in Procs : kind[q] # "reconcile" => mode[q] = "up")'
  BY DEF TypeOK, SqlTypeOK, StoreTypeOK, JobTypeOK, JobShape, SingleProcess
<1>2. (faults["abort"] = 0 => Strayless)'
  BY DEF TypeOK, SqlTypeOK, StoreTypeOK, JobTypeOK, JobShape, SingleProcess, Strayless, Needed, Outstanding, Hidden
<1>3. (faults["abort"] = 0 => Needful)'
  <2>1. /\ mode[p] # "down" /\ step[p] = "project" /\ UNCHANGED <<live, atoms, faults>>
        /\ step'[p] \in {"flushGraph", "free"}
    BY DEF Registered, TypeOK, JobTypeOK
  <2> QED BY <2>1, NeedfulStays
<1>4. (faults["crash"] = 0 => Ghostless)'
  BY DEF TypeOK, SqlTypeOK, StoreTypeOK, JobTypeOK, JobShape, SingleProcess, Ghostless, Outstanding, Hidden
<1>5. (faults["crash"] = 0 => NobodyBeforeServing)'
  BY DEF TypeOK, SqlTypeOK, StoreTypeOK, JobTypeOK, JobShape, SingleProcess, NobodyBeforeServing
<1> QED BY <1>1, <1>2, <1>3, <1>4, <1>5

LEMMA AcknowledgeGhost ==
    ASSUME SingleProcess, OutboxInvariant, VisibleInvariant, GhostInvariant, Typed', NEW p \in Procs, NEW o \in Owners,
           Acknowledge(p, o)
    PROVE  GhostInvariant'
<1> USE DEF OutboxInvariant, GhostInvariant, Acknowledge, Release, storeVars, Serve
<1>1. (\A q \in Procs : kind[q] # "reconcile" => mode[q] = "up")'
  BY DEF TypeOK, SqlTypeOK, StoreTypeOK, JobTypeOK, JobShape, SingleProcess
<1>2. (faults["abort"] = 0 => Strayless)'
  <2>0. step[p] = "ack" /\ o \in done[p] /\ mode[p] # "down"
    BY DEF Registered
  <2>1. ASSUME faults["abort"] = 0, ~Needed(o) PROVE Hidden(o)
    <3>1. ~live[o]
      BY <2>0, <2>1 DEF Needful
    <3>2. o \notin skips[p]
      BY <2>0, <3>1 DEF JobShape, VisibleInvariant, CommitCovers
    <3> QED BY <2>0, <3>1, <3>2 DEF VisibleInvariant, DoneShown, Answered, Hidden, Stores
  <2>2. UNCHANGED <<live, atoms, mem, dur, faults>> /\ \A x \in Owners \ {o} : status'[x] = status[x]
    BY DEF TypeOK, SqlTypeOK
  <2> HIDE DEF Acknowledge
  <2> QED BY <2>1, <2>2 DEF Strayless, Needed, Outstanding, Hidden
<1>3. (faults["abort"] = 0 => Needful)'
  <2>1. /\ mode[p] # "down" /\ step[p] = "ack" /\ UNCHANGED <<live, atoms, faults>>
        /\ step'[p] \in {"ack", "free"}
    BY DEF Registered, TypeOK, JobTypeOK
  <2> QED BY <2>1, NeedfulStays
<1>4. (faults["crash"] = 0 => Ghostless)'
  <2>1. step[p] = "ack" /\ o \in done[p]
    OBVIOUS
  <2>2. ~live[o] => o \notin skips[p]
    BY <2>1 DEF JobShape, VisibleInvariant, CommitCovers
  <2>4. ~live[o] => Hidden(o)
    BY <2>1, <2>2 DEF VisibleInvariant, DoneShown, Answered, Hidden, Stores
  <2>3. UNCHANGED <<live, mem, dur, faults>> /\ \A x \in Owners \ {o} : status'[x] = status[x]
    BY DEF TypeOK, SqlTypeOK
  <2> HIDE DEF Acknowledge
  <2> QED BY <2>3, <2>4 DEF Ghostless, Outstanding, Hidden
<1>5. (faults["crash"] = 0 => NobodyBeforeServing)'
  BY DEF TypeOK, SqlTypeOK, StoreTypeOK, JobTypeOK, JobShape, SingleProcess, NobodyBeforeServing
<1> QED BY <1>1, <1>2, <1>3, <1>4, <1>5

LEMMA DeleteEpisodeGhost ==
    ASSUME SingleProcess, OutboxInvariant, VisibleInvariant, GhostInvariant, Typed', NEW p \in Procs, NEW A \in SUBSET Owners, NEW K \in SUBSET A,
           DeleteEpisode(p, A, K)
    PROVE  GhostInvariant'
<1> USE DEF OutboxInvariant, GhostInvariant, DeleteEpisode, Queue, storeVars
<1>1. (\A q \in Procs : kind[q] # "reconcile" => mode[q] = "up")'
  BY DEF TypeOK, SqlTypeOK, StoreTypeOK, JobTypeOK, JobShape, SingleProcess
<1>2. (faults["abort"] = 0 => Strayless)'
  <2>1. \A o \in Owners :
           ~Needed(o)' => Outstanding(o)' \/ (~Needed(o) /\ status'[o] = status[o])
    BY DeleteKeepsNeeded
  <2> HIDE DEF Queue
  <2>2. UNCHANGED <<mem, dur, faults>>
    OBVIOUS
  <2> HIDE DEF DeleteEpisode
  <2> QED BY <2>1, <2>2 DEF Strayless, Outstanding, Hidden
<1>3. (faults["abort"] = 0 => Needful)'
  <2>1. step[p] = "free" /\ mode[p] = "up" /\ step'[p] = "list" /\ UNCHANGED faults
    BY DEF TypeOK, JobTypeOK
  <2>2. faults["abort"] = 0 => \A o \in Owners : live[o] => Needed(o)
    BY <2>1 DEF Needful
  <2>3. faults["abort"] = 0 => \A o \in Owners : live'[o] => Needed(o)'
    BY <2>2, DeleteKeepsNeeded
  <2> HIDE DEF DeleteEpisode, Queue
  <2> QED BY <2>1, <2>3 DEF Needful, SingleProcess
<1>4. (faults["crash"] = 0 => Ghostless)'
  BY DEF TypeOK, SqlTypeOK, StoreTypeOK, JobTypeOK, JobShape, SingleProcess, Ghostless, Outstanding, Hidden
<1>5. (faults["crash"] = 0 => NobodyBeforeServing)'
  BY DEF TypeOK, SqlTypeOK, StoreTypeOK, JobTypeOK, JobShape, SingleProcess, NobodyBeforeServing
<1> QED BY <1>1, <1>2, <1>3, <1>4, <1>5

LEMMA CommitStartGhost ==
    ASSUME SingleProcess, OutboxInvariant, VisibleInvariant, GhostInvariant, Typed', NEW p \in Procs, NEW T \in SUBSET Owners, NEW A \in SUBSET T,
           CommitStart(p, T, A)
    PROVE  GhostInvariant'
<1> USE DEF OutboxInvariant, GhostInvariant, CommitStart, sqlVars, storeVars
<1>1. (\A q \in Procs : kind[q] # "reconcile" => mode[q] = "up")'
  BY DEF TypeOK, SqlTypeOK, StoreTypeOK, JobTypeOK, JobShape, SingleProcess
<1>2. (faults["abort"] = 0 => Strayless)'
  BY DEF TypeOK, SqlTypeOK, StoreTypeOK, JobTypeOK, JobShape, SingleProcess, Strayless, Needed, Outstanding, Hidden
<1>3. (faults["abort"] = 0 => Needful)'
  <2>1. /\ step[p] = "free" /\ mode[p] = "up" /\ step'[p] = "register"
        /\ todo'[p] = T /\ puts'[p] = A /\ UNCHANGED <<live, atoms, mode, faults>>
    BY DEF TypeOK, JobTypeOK
  <2>2. faults["abort"] = 0 => \A o \in Owners : live[o] => Needed(o)
    BY <2>1 DEF Needful
  <2>3. \A o \in T : o \in A \/ (o \in Entities /\ \E r \in T \cap Relations : o \in Ends[r])
    BY OwnersAssumption DEF CommitPlan
  <2> HIDE DEF CommitStart
  <2> QED BY <2>1, <2>2, <2>3 DEF Needful, Needed, SingleProcess
<1>4. (faults["crash"] = 0 => Ghostless)'
  BY DEF TypeOK, SqlTypeOK, StoreTypeOK, JobTypeOK, JobShape, SingleProcess, Ghostless, Outstanding, Hidden
<1>5. (faults["crash"] = 0 => NobodyBeforeServing)'
  BY DEF TypeOK, SqlTypeOK, StoreTypeOK, JobTypeOK, JobShape, SingleProcess, NobodyBeforeServing
<1> QED BY <1>1, <1>2, <1>3, <1>4, <1>5

LEMMA ResolveConflictGhost ==
    ASSUME SingleProcess, OutboxInvariant, VisibleInvariant, GhostInvariant, Typed', NEW o \in Owners,
           ResolveConflict(o)
    PROVE  GhostInvariant'
<1> USE DEF OutboxInvariant, GhostInvariant, ResolveConflict, Queue, storeVars, jobVars
<1>1. (\A q \in Procs : kind[q] # "reconcile" => mode[q] = "up")'
  BY DEF TypeOK, SqlTypeOK, StoreTypeOK, JobTypeOK, JobShape, SingleProcess
<1>2. (faults["abort"] = 0 => Strayless)'
  BY DEF TypeOK, SqlTypeOK, StoreTypeOK, JobTypeOK, JobShape, SingleProcess, Strayless, Needed, Outstanding, Hidden
<1>3. (faults["abort"] = 0 => Needful)'
  BY DEF TypeOK, SqlTypeOK, StoreTypeOK, JobTypeOK, JobShape, SingleProcess, Needful, Needed
<1>4. (faults["crash"] = 0 => Ghostless)'
  BY DEF TypeOK, SqlTypeOK, StoreTypeOK, JobTypeOK, JobShape, SingleProcess, Ghostless, Outstanding, Hidden
<1>5. (faults["crash"] = 0 => NobodyBeforeServing)'
  BY DEF TypeOK, SqlTypeOK, StoreTypeOK, JobTypeOK, JobShape, SingleProcess, NobodyBeforeServing
<1> QED BY <1>1, <1>2, <1>3, <1>4, <1>5

LEMMA RetryDueGhost ==
    ASSUME SingleProcess, OutboxInvariant, VisibleInvariant, GhostInvariant, Typed', NEW o \in Owners,
           RetryDue(o)
    PROVE  GhostInvariant'
<1> USE DEF OutboxInvariant, GhostInvariant, RetryDue, storeVars, jobVars
<1>1. (\A q \in Procs : kind[q] # "reconcile" => mode[q] = "up")'
  BY DEF TypeOK, SqlTypeOK, StoreTypeOK, JobTypeOK, JobShape, SingleProcess
<1>2. (faults["abort"] = 0 => Strayless)'
  BY DEF TypeOK, SqlTypeOK, StoreTypeOK, JobTypeOK, JobShape, SingleProcess, Strayless, Needed, Outstanding, Hidden
<1>3. (faults["abort"] = 0 => Needful)'
  BY DEF TypeOK, SqlTypeOK, StoreTypeOK, JobTypeOK, JobShape, SingleProcess, Needful, Needed
<1>4. (faults["crash"] = 0 => Ghostless)'
  BY DEF TypeOK, SqlTypeOK, StoreTypeOK, JobTypeOK, JobShape, SingleProcess, Ghostless, Outstanding, Hidden
<1>5. (faults["crash"] = 0 => NobodyBeforeServing)'
  BY DEF TypeOK, SqlTypeOK, StoreTypeOK, JobTypeOK, JobShape, SingleProcess, NobodyBeforeServing
<1> QED BY <1>1, <1>2, <1>3, <1>4, <1>5

LEMMA FlushGhost ==
    ASSUME SingleProcess, OutboxInvariant, VisibleInvariant, GhostInvariant, Typed', NEW p \in Procs,
           Flush(p)
    PROVE  GhostInvariant'
<1> USE DEF OutboxInvariant, GhostInvariant, Flush, FlushStore, sqlVars, Stores
<1>1. (\A q \in Procs : kind[q] # "reconcile" => mode[q] = "up")'
  BY DEF TypeOK, SqlTypeOK, StoreTypeOK, JobTypeOK, JobShape, SingleProcess
<1>2. (faults["abort"] = 0 => Strayless)'
  <2>1. \A s \in Stores, x \in Owners :
           mem'[s][x] = mem[s][x] /\ dur'[s][x] \in {dur[s][x], mem[s][x]}
    BY DEF TypeOK, StoreTypeOK
  <2>2. UNCHANGED <<live, atoms, status, faults>>
    OBVIOUS
  <2> HIDE DEF Flush
  <2> QED BY <2>1, <2>2, HiddenStays DEF Strayless, Needed, Outstanding
<1>3. (faults["abort"] = 0 => Needful)'
  BY DEF TypeOK, SqlTypeOK, StoreTypeOK, JobTypeOK, JobShape, SingleProcess, Needful, Needed
<1>4. (faults["crash"] = 0 => Ghostless)'
  <2>1. \A s \in Stores, x \in Owners :
           mem'[s][x] = mem[s][x] /\ dur'[s][x] \in {dur[s][x], mem[s][x]}
    BY DEF TypeOK, StoreTypeOK
  <2>2. UNCHANGED <<live, status, faults>>
    OBVIOUS
  <2> HIDE DEF Flush
  <2> QED BY <2>1, <2>2, HiddenStays DEF Ghostless, Outstanding
<1>5. (faults["crash"] = 0 => NobodyBeforeServing)'
  BY DEF TypeOK, SqlTypeOK, StoreTypeOK, JobTypeOK, JobShape, SingleProcess, NobodyBeforeServing
<1> QED BY <1>1, <1>2, <1>3, <1>4, <1>5

LEMMA FlushFailsGhost ==
    ASSUME SingleProcess, OutboxInvariant, VisibleInvariant, GhostInvariant, Typed', NEW p \in Procs,
           FlushFails(p)
    PROVE  GhostInvariant'
<1> USE DEF OutboxInvariant, GhostInvariant, FlushFails, Release, sqlVars, storeVars, Fault
<1>1. (\A q \in Procs : kind[q] # "reconcile" => mode[q] = "up")'
  BY DEF TypeOK, SqlTypeOK, StoreTypeOK, JobTypeOK, JobShape, SingleProcess
<1>2. (faults["abort"] = 0 => Strayless)'
  BY DEF TypeOK, SqlTypeOK, StoreTypeOK, JobTypeOK, JobShape, SingleProcess, Strayless, Needed, Outstanding, Hidden
<1>3. (faults["abort"] = 0 => Needful)'
  BY DEF TypeOK, SqlTypeOK, StoreTypeOK, JobTypeOK, JobShape, SingleProcess, Needful, Needed
<1>4. (faults["crash"] = 0 => Ghostless)'
  BY DEF TypeOK, SqlTypeOK, StoreTypeOK, JobTypeOK, JobShape, SingleProcess, Ghostless, Outstanding, Hidden
<1>5. (faults["crash"] = 0 => NobodyBeforeServing)'
  BY DEF TypeOK, SqlTypeOK, StoreTypeOK, JobTypeOK, JobShape, SingleProcess, NobodyBeforeServing
<1> QED BY <1>1, <1>2, <1>3, <1>4, <1>5

LEMMA MarkFailedGhost ==
    ASSUME SingleProcess, OutboxInvariant, VisibleInvariant, GhostInvariant, Typed', NEW p \in Procs, NEW o \in Owners,
           MarkFailed(p, o)
    PROVE  GhostInvariant'
<1> USE DEF OutboxInvariant, GhostInvariant, MarkFailed, Current, Release, storeVars
<1>1. (\A q \in Procs : kind[q] # "reconcile" => mode[q] = "up")'
  BY DEF TypeOK, SqlTypeOK, StoreTypeOK, JobTypeOK, JobShape, SingleProcess
<1>2. (faults["abort"] = 0 => Strayless)'
  <2>1. \A x \in Owners : Outstanding(x) => Outstanding(x)'
    BY DEF Outstanding, TypeOK, SqlTypeOK
  <2>2. UNCHANGED <<live, atoms, mem, dur, faults>>
    OBVIOUS
  <2> HIDE DEF MarkFailed
  <2> QED BY <2>1, <2>2 DEF Strayless, Needed, Hidden
<1>3. (faults["abort"] = 0 => Needful)'
  BY DEF TypeOK, SqlTypeOK, StoreTypeOK, JobTypeOK, JobShape, SingleProcess, Needful, Needed
<1>4. (faults["crash"] = 0 => Ghostless)'
  <2>1. \A x \in Owners : Outstanding(x) => Outstanding(x)'
    BY DEF Outstanding, TypeOK, SqlTypeOK
  <2>2. UNCHANGED <<live, atoms, mem, dur, faults>>
    OBVIOUS
  <2> HIDE DEF MarkFailed
  <2> QED BY <2>1, <2>2 DEF Ghostless, Hidden
<1>5. (faults["crash"] = 0 => NobodyBeforeServing)'
  BY DEF TypeOK, SqlTypeOK, StoreTypeOK, JobTypeOK, JobShape, SingleProcess, NobodyBeforeServing
<1> QED BY <1>1, <1>2, <1>3, <1>4, <1>5

LEMMA AbortGhost ==
    ASSUME SingleProcess, OutboxInvariant, VisibleInvariant, GhostInvariant, Typed', NEW p \in Procs,
           Abort(p)
    PROVE  GhostInvariant'
<1> USE DEF OutboxInvariant, GhostInvariant, Abort, Release, sqlVars, storeVars, Fault
<1>1. (\A q \in Procs : kind[q] # "reconcile" => mode[q] = "up")'
  BY DEF TypeOK, SqlTypeOK, StoreTypeOK, JobTypeOK, JobShape, SingleProcess
<1>2. (faults["abort"] = 0 => Strayless)'
  BY DEF TypeOK, SqlTypeOK, StoreTypeOK, JobTypeOK, JobShape, SingleProcess, Strayless, Needed, Outstanding, Hidden
<1>3. (faults["abort"] = 0 => Needful)'
  <2>1. faults'["abort"] # 0
    BY DEF TypeOK, FaultKinds
  <2> QED BY <2>1
<1>4. (faults["crash"] = 0 => Ghostless)'
  BY DEF TypeOK, SqlTypeOK, StoreTypeOK, JobTypeOK, JobShape, SingleProcess, Ghostless, Outstanding, Hidden
<1>5. (faults["crash"] = 0 => NobodyBeforeServing)'
  BY DEF TypeOK, SqlTypeOK, StoreTypeOK, JobTypeOK, JobShape, SingleProcess, NobodyBeforeServing
<1> QED BY <1>1, <1>2, <1>3, <1>4, <1>5

LEMMA CrashGhost ==
    ASSUME SingleProcess, OutboxInvariant, VisibleInvariant, GhostInvariant, Typed', NEW p \in Procs,
           Crash(p)
    PROVE  GhostInvariant'
<1> USE DEF OutboxInvariant, GhostInvariant, Crash, Release, sqlVars, Fault
<1>1. (\A q \in Procs : kind[q] # "reconcile" => mode[q] = "up")'
  BY SMTT(60) DEF TypeOK, SqlTypeOK, StoreTypeOK, JobTypeOK, JobShape, SingleProcess
<1>2. (faults["abort"] = 0 => Strayless)'
  BY SMTT(60) DEF TypeOK, SqlTypeOK, StoreTypeOK, JobTypeOK, JobShape, SingleProcess, Strayless, Needed, Outstanding, Hidden
<1>3. (faults["abort"] = 0 => Needful)'
  BY DEF TypeOK, SqlTypeOK, StoreTypeOK, JobTypeOK, JobShape, SingleProcess, Needful, Needed
<1>4. (faults["crash"] = 0 => Ghostless)'
  BY DEF TypeOK, SqlTypeOK, StoreTypeOK, JobTypeOK, JobShape, SingleProcess, Ghostless, Outstanding, Hidden
<1>5. (faults["crash"] = 0 => NobodyBeforeServing)'
  <2>1. faults'["crash"] # 0
    BY DEF TypeOK, FaultKinds
  <2> QED BY <2>1
<1> QED BY SMTT(60), <1>1, <1>2, <1>3, <1>4, <1>5

(* A store operation shows nothing that is not registered, and what is     *)
(* registered while it runs is needed.                                     *)
LEMMA WriteGhost ==
    ASSUME SingleProcess, OutboxInvariant, VisibleInvariant, GhostInvariant, NEW p \in Procs,
           step[p] \in {"graph", "vdb"},
           step'[p] \in {"graph", "vdb", "ends", "project", "failing", "free"},
           WriteStore(p, step[p]) \/ UNCHANGED storeVars,
           \A q \in Procs : kind'[q] \in {kind[q], "reconcile"},
           UNCHANGED <<live, atoms, status, mode, faults["abort"], faults["crash"]>>
    PROVE  GhostInvariant'
<1> USE DEF OutboxInvariant, GhostInvariant
<1>s. step[p] \in Stores /\ mode[p] # "down"
  BY DEF Stores, Registered
<1>w. \A z \in Stores, o \in Owners :
         /\ mem'[z][o].live \in {mem[z][o].live, live[o]}
         /\ dur'[z][o].live \in {dur[z][o].live, live[o]}
  <2>1. CASE UNCHANGED storeVars
    BY <2>1 DEF storeVars
  <2>2. CASE WriteStore(p, step[p])
    BY <1>s, <2>2, WriteShows
  <2> QED BY <2>1, <2>2
<1>1. (\A q \in Procs : kind[q] # "reconcile" => mode[q] = "up")'
  OBVIOUS
<1>2. (faults["abort"] = 0 => Strayless)'
  <2>1. faults["abort"] = 0 => \A o \in Owners : live[o] => Needed(o)
    BY <1>s DEF Needful
  <2> QED BY <1>w, <2>1 DEF Strayless, Needed, Outstanding, Hidden
<1>3. (faults["abort"] = 0 => Needful)'
  BY <1>s, NeedfulStays
<1>4. (faults["crash"] = 0 => Ghostless)'
  BY <1>w DEF Ghostless, Outstanding, Hidden
<1>5. (faults["crash"] = 0 => NobodyBeforeServing)'
  BY DEF NobodyBeforeServing
<1> QED BY <1>1, <1>2, <1>3, <1>4, <1>5

LEMMA WriteGraphGhost ==
    ASSUME SingleProcess, OutboxInvariant, VisibleInvariant, GhostInvariant, NEW p \in Procs,
           WriteGraph(p)
    PROVE  GhostInvariant'
<1>1. step'[p] \in {"vdb", "ends", "project"}
  BY DEF WriteGraph, Projected, OutboxInvariant, TypeOK, JobTypeOK
<1>2. WriteStore(p, step[p]) /\ step[p] = "graph" /\ kind' = kind
  BY DEF WriteGraph
<1>3. UNCHANGED <<live, atoms, status, mode, faults["abort"], faults["crash"]>>
  BY DEF WriteGraph, sqlVars
<1> QED BY <1>1, <1>2, <1>3, WriteGhost

LEMMA WriteVdbGhost ==
    ASSUME SingleProcess, OutboxInvariant, VisibleInvariant, GhostInvariant, NEW p \in Procs,
           WriteVdb(p)
    PROVE  GhostInvariant'
<1>1. step'[p] \in {"graph", "ends", "project"}
  BY DEF WriteVdb, Projected, OutboxInvariant, TypeOK, JobTypeOK
<1>2. WriteStore(p, step[p]) /\ step[p] = "vdb" /\ kind' = kind
  BY DEF WriteVdb
<1>3. UNCHANGED <<live, atoms, status, mode, faults["abort"], faults["crash"]>>
  BY DEF WriteVdb, sqlVars
<1> QED BY <1>1, <1>2, <1>3, WriteGhost

LEMMA StoreFailsGhost ==
    ASSUME SingleProcess, OutboxInvariant, VisibleInvariant, GhostInvariant, NEW p \in Procs,
           StoreFails(p)
    PROVE  GhostInvariant'
<1>1. step'[p] \in {"failing", "free"} /\ step[p] \in {"graph", "vdb"}
  BY DEF StoreFails, Release, OutboxInvariant, TypeOK, JobTypeOK
<1>2. /\ WriteStore(p, step[p]) \/ UNCHANGED storeVars
      /\ \A q \in Procs : kind'[q] \in {kind[q], "reconcile"}
  BY DEF StoreFails, Release, OutboxInvariant, TypeOK, JobTypeOK
<1>3. UNCHANGED <<live, atoms, status, mode, faults["abort"], faults["crash"]>>
  BY DEF StoreFails, Fault, sqlVars, OutboxInvariant, TypeOK, FaultKinds
<1> QED BY <1>1, <1>2, <1>3, WriteGhost

LEMMA NextGhost ==
    SingleProcess /\ OutboxInvariant /\ VisibleInvariant /\ GhostInvariant /\ [Next]_vars
        => GhostInvariant'
<1> SUFFICES ASSUME SingleProcess, OutboxInvariant, VisibleInvariant, GhostInvariant,
                    [Next]_vars
             PROVE  GhostInvariant'
  OBVIOUS
<1>0. Typed'
  BY NextTyped DEF OutboxInvariant, Typed
<1>1. CASE Write
  BY <1>0, <1>1, DeleteEpisodeGhost, CommitStartGhost, ResolveConflictGhost DEF Write
<1>2. ASSUME NEW p \in Procs, Progress(p) PROVE GhostInvariant'
  BY <1>0, <1>2, ReconcileNothingGhost, ReconcileGhost, ListTasksGhost, DescribeGhost,
     EndsReadyGhost, WriteGraphGhost, WriteVdbGhost, BatchDoneGhost, FlushGhost,
     RegisterGhost, StoreAtomGhost, MergeGhost, MergeKeepsGhost, MergeRefusedGhost, FetchGhost, FetchUnlocatedGhost,
     FetchEndGhost, AcknowledgeGhost, MarkFailedGhost DEF Progress
<1>3. ASSUME NEW p \in Procs, Failure(p) PROVE GhostInvariant'
  BY <1>0, <1>3, StoreFailsGhost, FlushFailsGhost, AbortGhost, CrashGhost DEF Failure
<1>4. ASSUME NEW p \in Procs, ProcStart(p) PROVE GhostInvariant'
  BY <1>0, <1>4, ProcStartGhost
<1>5. ASSUME NEW o \in Owners, RetryDue(o) PROVE GhostInvariant'
  BY <1>0, <1>5, RetryDueGhost
<1>6. CASE UNCHANGED vars
  <2> USE <1>6 DEF vars, sqlVars, storeVars, jobVars
  <2>1. (faults["abort"] = 0 => Strayless /\ Needful)'
    BY DEF GhostInvariant, Strayless, Needful, Needed, Outstanding, Hidden
  <2>2. (faults["crash"] = 0 => Ghostless /\ NobodyBeforeServing)'
    BY DEF GhostInvariant, Ghostless, NobodyBeforeServing, Outstanding, Hidden
  <2> QED BY <2>1, <2>2 DEF GhostInvariant
<1> QED BY <1>1, <1>2, <1>3, <1>4, <1>5, <1>6 DEF Next

(* With one process, until both an aborted job and a crash have occurred,  *)
(* no store durably shows an owner that SQLite has dropped and no row will *)
(* remove: a hard delete queues all it may remove, and the startup repair, *)
(* which queues nothing, finds only owners that were never projected.      *)
THEOREM DroppedLeavesTheStores ==
    SingleProcess =>
        (Spec => [](faults["abort"] = 0 \/ faults["crash"] = 0 => NoGhostProjection))
<1>1. SUFFICES ASSUME SingleProcess
               PROVE  Spec => [](faults["abort"] = 0 \/ faults["crash"] = 0 => NoGhostProjection)
  OBVIOUS
<1>2. OutboxInvariant /\ VisibleInvariant /\ GhostInvariant /\ [Next]_vars => GhostInvariant'
  BY <1>1, NextGhost
<1>3. Spec => []OutboxInvariant /\ []VisibleInvariant
  BY <1>1, FenceInvariant, VisibleAlways
<1>4. GhostInvariant => (faults["abort"] = 0 \/ faults["crash"] = 0 => NoGhostProjection)
  <2>1. Strayless => NoGhostProjection
    BY DEF Strayless, NoGhostProjection, Needed, Hidden
  <2>2. Ghostless => NoGhostProjection
    BY DEF Ghostless, NoGhostProjection, Hidden
  <2> QED BY <2>1, <2>2 DEF GhostInvariant
<1> QED BY <1>2, <1>3, <1>4, InitGhost, PTL DEF Spec

-----------------------------------------------------------------------------
(* Why the retries get anywhere, for any number of processes: no job is    *)
(* left with the lock and nothing to do, and no row is out of the worker's *)
(* sight for longer than a backoff.                                        *)

(* What the job of p does next is there to be done.                        *)
GoesOn(p) ==
    \/ /\ step[p] = "register"
       /\ \E o \in todo[p] \ done[p] : o \in Relations => todo[p] \cap Entities \subseteq done[p]
    \/ step[p] = "store" /\ puts[p] # {}
    \/ step[p] = "project" /\ (todo[p] = {} \/ \E o \in todo[p] : EntitiesFirst(p, o))
    \/ step[p] = "failing" /\ bad[p] # {}
    \/ step[p] = "ack" /\ done[p] # {}
    \/ step[p] \in {"list", "describe", "ends", "graph", "vdb",
                    "flushGraph", "flushEntities", "flushRelations"}

(* The lock is held only in a running process, by a job that can go on.    *)
LockIsWorkedUnder == \A p \in Procs : step[p] # "free" => mode[p] # "down" /\ GoesOn(p)

(* A row whose retry time has not come has failed since it was queued.     *)
BackoffIsEarned == \A o \in Owners : Outstanding(o) => due[o] \/ status[o] = "failed"

(* What a step of a job leaves for the next one.                           *)
WorkLeft(p) ==
    /\ step[p] # "free" => mode[p] # "down"
    /\ step[p] = "register" => /\ puts[p] # {}
                               /\ done[p] \subseteq todo[p]
                               /\ done[p] # todo[p]
    /\ step[p] = "store" => puts[p] # {}
    /\ step[p] = "failing" => bad[p] # {}
    /\ step[p] \in {"flushGraph", "flushEntities", "flushRelations", "ack"} => done[p] # {}

RetryInvariant == (\A p \in Procs : WorkLeft(p)) /\ BackoffIsEarned

-----------------------------------------------------------------------------
(* Every action keeps what is left to do, for the process whose job it is. *)

LEMMA ReleaseKeepsWork ==
    ASSUME Typed, \A q \in Procs : WorkLeft(q), NEW p \in Procs, Release(p),
           \A q \in Procs \ {p} : mode'[q] = mode[q]
    PROVE  \A q \in Procs : WorkLeft(q)'
  BY DEF Typed, TypeOK, JobTypeOK, Release, WorkLeft

LEMMA ReconcileWork ==
    ASSUME Typed, \A q \in Procs : WorkLeft(q), NEW p \in Procs,
           Reconcile(p)
    PROVE  \A q \in Procs : WorkLeft(q)'
  BY DEF Typed, TypeOK, JobTypeOK, JobShape, WorkLeft, Reconcile, Batches, Reconcilable

LEMMA ListTasksWork ==
    ASSUME Typed, \A q \in Procs : WorkLeft(q), NEW p \in Procs,
           ListTasks(p)
    PROVE  \A q \in Procs : WorkLeft(q)'
  BY DEF Typed, TypeOK, JobTypeOK, JobShape, WorkLeft, ListTasks

LEMMA DescribeWork ==
    ASSUME Typed, \A q \in Procs : WorkLeft(q), NEW p \in Procs,
           Describe(p)
    PROVE  \A q \in Procs : WorkLeft(q)'
  BY DEF Typed, TypeOK, JobTypeOK, JobShape, WorkLeft, Describe

LEMMA EndsReadyWork ==
    ASSUME Typed, \A q \in Procs : WorkLeft(q), NEW p \in Procs,
           EndsReady(p)
    PROVE  \A q \in Procs : WorkLeft(q)'
  BY DEF Typed, TypeOK, JobTypeOK, JobShape, WorkLeft, EndsReady

LEMMA WriteGraphWork ==
    ASSUME Typed, \A q \in Procs : WorkLeft(q), NEW p \in Procs,
           WriteGraph(p)
    PROVE  \A q \in Procs : WorkLeft(q)'
<1>1. /\ step[p] # "free" /\ UNCHANGED <<mode, puts, bad>>
      /\ step'[p] \in {"project", "ends", "graph", "vdb"}
  BY DEF Typed, TypeOK, JobTypeOK, WriteGraph, Projected
<1>2. \A q \in Procs \ {p} : step'[q] = step[q] /\ todo'[q] = todo[q] /\ done'[q] = done[q]
  BY DEF Typed, TypeOK, JobTypeOK, WriteGraph, Projected
<1>3. WorkLeft(p)'
  BY <1>1 DEF WorkLeft
<1>4. ASSUME NEW q \in Procs \ {p} PROVE WorkLeft(q)'
  BY <1>1, <1>2 DEF WorkLeft
<1> QED BY <1>3, <1>4

LEMMA WriteVdbWork ==
    ASSUME Typed, \A q \in Procs : WorkLeft(q), NEW p \in Procs,
           WriteVdb(p)
    PROVE  \A q \in Procs : WorkLeft(q)'
<1>1. /\ step[p] # "free" /\ UNCHANGED <<mode, puts, bad>>
      /\ step'[p] \in {"project", "ends", "graph", "vdb"}
  BY DEF Typed, TypeOK, JobTypeOK, WriteVdb, Projected
<1>2. \A q \in Procs \ {p} : step'[q] = step[q] /\ todo'[q] = todo[q] /\ done'[q] = done[q]
  BY DEF Typed, TypeOK, JobTypeOK, WriteVdb, Projected
<1>3. WorkLeft(p)'
  BY <1>1 DEF WorkLeft
<1>4. ASSUME NEW q \in Procs \ {p} PROVE WorkLeft(q)'
  BY <1>1, <1>2 DEF WorkLeft
<1> QED BY <1>3, <1>4

LEMMA BatchDoneWork ==
    ASSUME Typed, \A q \in Procs : WorkLeft(q), NEW p \in Procs,
           BatchDone(p)
    PROVE  \A q \in Procs : WorkLeft(q)'
  BY SMTT(90) DEF Typed, TypeOK, JobTypeOK, JobShape, WorkLeft, BatchDone, Release, Serve

LEMMA FlushWork ==
    ASSUME Typed, \A q \in Procs : WorkLeft(q), NEW p \in Procs,
           Flush(p)
    PROVE  \A q \in Procs : WorkLeft(q)'
  BY DEF Typed, TypeOK, JobTypeOK, JobShape, WorkLeft, Flush

LEMMA RegisterWork ==
    ASSUME Typed, \A q \in Procs : WorkLeft(q), NEW p \in Procs, NEW o \in Owners,
           Register(p, o)
    PROVE  \A q \in Procs : WorkLeft(q)'
<1> USE DEF Typed, TypeOK, JobTypeOK
<1>1. \A q \in Procs \ {p} : WorkLeft(q)'
  BY DEF Register, WorkLeft
<1>2. /\ step[p] = "register" /\ o \in todo[p]
      /\ UNCHANGED <<todo[p], puts[p], mode[p]>>
  BY DEF Register
<1>3. CASE done[p] \cup {o} = todo[p]
  BY <1>2, <1>3 DEF Register, WorkLeft
<1>4. CASE done[p] \cup {o} # todo[p]
  <2>1. step'[p] = "register" /\ done'[p] = done[p] \cup {o}
    BY <1>2, <1>4 DEF Register
  <2>2. mode[p] # "down" /\ puts[p] # {} /\ done[p] \subseteq todo[p]
    BY <1>2 DEF WorkLeft
  <2>3. done'[p] \subseteq todo[p] /\ done'[p] # todo[p]
    BY <1>2, <1>4, <2>1, <2>2
  <2>4. WorkLeft(p)'
    BY <1>2, <2>1, <2>2, <2>3 DEF WorkLeft
  <2> QED BY <1>1, <2>4
<1> QED BY <1>1, <1>3, <1>4

LEMMA StoreAtomWork ==
    ASSUME Typed, \A q \in Procs : WorkLeft(q), NEW p \in Procs, NEW o \in Owners,
           StoreAtom(p, o)
    PROVE  \A q \in Procs : WorkLeft(q)'
  BY DEF Typed, TypeOK, JobTypeOK, JobShape, WorkLeft, StoreAtom

LEMMA MergeWork ==
    ASSUME Typed, \A q \in Procs : WorkLeft(q), NEW p \in Procs, NEW o \in Owners,
           Merge(p, o)
    PROVE  \A q \in Procs : WorkLeft(q)'
  BY DEF Typed, TypeOK, JobTypeOK, JobShape, WorkLeft, Merge, Begin

LEMMA MergeKeepsWork ==
    ASSUME Typed, \A q \in Procs : WorkLeft(q), NEW p \in Procs, NEW o \in Owners,
           MergeKeeps(p, o)
    PROVE  \A q \in Procs : WorkLeft(q)'
  BY DEF Typed, TypeOK, JobTypeOK, JobShape, WorkLeft, MergeKeeps, Begin

LEMMA MergeRefusedWork ==
    ASSUME Typed, \A q \in Procs : WorkLeft(q), NEW p \in Procs, NEW o \in Owners,
           MergeRefused(p, o)
    PROVE  \A q \in Procs : WorkLeft(q)'
<1>1. Release(p) /\ UNCHANGED mode
  BY DEF MergeRefused
<1> QED BY <1>1, ReleaseKeepsWork

LEMMA FetchWork ==
    ASSUME Typed, \A q \in Procs : WorkLeft(q), NEW p \in Procs, NEW o \in Owners,
           Fetch(p, o)
    PROVE  \A q \in Procs : WorkLeft(q)'
  BY DEF Typed, TypeOK, JobTypeOK, JobShape, WorkLeft, Fetch, Begin

LEMMA FetchUnlocatedWork ==
    ASSUME Typed, \A q \in Procs : WorkLeft(q), NEW p \in Procs, NEW o \in Owners,
           FetchUnlocated(p, o)
    PROVE  \A q \in Procs : WorkLeft(q)'
  BY DEF Typed, TypeOK, JobTypeOK, JobShape, WorkLeft, FetchUnlocated, Begin

LEMMA FetchEndWork ==
    ASSUME Typed, \A q \in Procs : WorkLeft(q), NEW p \in Procs, NEW o \in Owners,
           FetchEnd(p, o)
    PROVE  \A q \in Procs : WorkLeft(q)'
  BY DEF Typed, TypeOK, JobTypeOK, JobShape, WorkLeft, FetchEnd

LEMMA AcknowledgeWork ==
    ASSUME Typed, \A q \in Procs : WorkLeft(q), NEW p \in Procs, NEW o \in Owners,
           Acknowledge(p, o)
    PROVE  \A q \in Procs : WorkLeft(q)'
<1>1. CASE done[p] = {o}
  <2>1. Release(p) /\ Serve(p)
    BY <1>1 DEF Acknowledge
  <2> QED BY <2>1 DEF Typed, TypeOK, JobTypeOK, WorkLeft, Release, Serve
<1>2. CASE done[p] # {o}
  <2>1. /\ done' = [done EXCEPT ![p] = done[p] \ {o}]
        /\ UNCHANGED <<mode, step, todo, bad, puts>>
        /\ step[p] = "ack" /\ o \in done[p]
    BY <1>2 DEF Acknowledge
  <2> QED BY <1>2, <2>1 DEF Typed, TypeOK, JobTypeOK, WorkLeft
<1> QED BY <1>1, <1>2

LEMMA MarkFailedWork ==
    ASSUME Typed, \A q \in Procs : WorkLeft(q), NEW p \in Procs, NEW o \in Owners,
           MarkFailed(p, o)
    PROVE  \A q \in Procs : WorkLeft(q)'
  BY DEF Typed, TypeOK, JobTypeOK, JobShape, WorkLeft, MarkFailed, Release

LEMMA StoreFailsWork ==
    ASSUME Typed, \A q \in Procs : WorkLeft(q), NEW p \in Procs,
           StoreFails(p)
    PROVE  \A q \in Procs : WorkLeft(q)'
<1>1. CASE kind[p] = "commit"
  <2>1. Release(p) /\ UNCHANGED mode
    BY <1>1 DEF StoreFails
  <2> QED BY <2>1, ReleaseKeepsWork
<1>2. CASE kind[p] # "commit"
  <2>1. /\ step' = [step EXCEPT ![p] = "failing"] /\ bad' = [bad EXCEPT ![p] = {cur[p]}]
        /\ \A q \in Procs \ {p} : todo'[q] = todo[q]
        /\ UNCHANGED <<mode, done, puts>>
        /\ step[p] \in {"graph", "vdb"}
    BY <1>2 DEF StoreFails, Typed, TypeOK, JobTypeOK
  <2> QED BY <2>1 DEF Typed, TypeOK, JobTypeOK, WorkLeft
<1> QED BY <1>1, <1>2

LEMMA FlushFailsWork ==
    ASSUME Typed, \A q \in Procs : WorkLeft(q), NEW p \in Procs,
           FlushFails(p)
    PROVE  \A q \in Procs : WorkLeft(q)'
  BY SMTT(30) DEF Typed, TypeOK, JobTypeOK, JobShape, WorkLeft, FlushFails, Release

LEMMA AbortWork ==
    ASSUME Typed, \A q \in Procs : WorkLeft(q), NEW p \in Procs,
           Abort(p)
    PROVE  \A q \in Procs : WorkLeft(q)'
  BY DEF Typed, TypeOK, JobTypeOK, JobShape, WorkLeft, Abort, Release

LEMMA CrashWork ==
    ASSUME Typed, \A q \in Procs : WorkLeft(q), NEW p \in Procs,
           Crash(p)
    PROVE  \A q \in Procs : WorkLeft(q)'
  BY DEF Typed, TypeOK, JobTypeOK, JobShape, WorkLeft, Crash, Release

LEMMA DeleteEpisodeWork ==
    ASSUME Typed, \A q \in Procs : WorkLeft(q), NEW p \in Procs,
           NEW A \in SUBSET Owners, NEW K \in SUBSET A, DeleteEpisode(p, A, K)
    PROVE  \A q \in Procs : WorkLeft(q)'
<1>1. /\ step' = [step EXCEPT ![p] = "list"] /\ mode[p] = "up"
      /\ \A q \in Procs \ {p} : todo'[q] = todo[q]
      /\ UNCHANGED <<mode, done, bad, puts>>
  BY DEF DeleteEpisode, Typed, TypeOK, JobTypeOK
<1> QED BY <1>1 DEF Typed, TypeOK, JobTypeOK, WorkLeft

LEMMA CommitStartWork ==
    ASSUME Typed, \A q \in Procs : WorkLeft(q), NEW p \in Procs,
           NEW T \in SUBSET Owners, NEW A \in SUBSET T, CommitStart(p, T, A)
    PROVE  \A q \in Procs : WorkLeft(q)'
<1>1. /\ step' = [step EXCEPT ![p] = "register"] /\ mode[p] = "up" /\ done[p] = {}
      /\ todo' = [todo EXCEPT ![p] = T] /\ puts' = [puts EXCEPT ![p] = A]
      /\ UNCHANGED <<mode, done, bad>>
      /\ A # {} /\ T # {}
  BY DEF CommitStart, CommitPlan, Typed, JobShape
<1> QED BY <1>1 DEF Typed, TypeOK, JobTypeOK, WorkLeft

LEMMA WorkStays ==
    ASSUME Typed, \A q \in Procs : WorkLeft(q), [Next]_vars
    PROVE  \A q \in Procs : WorkLeft(q)'
<1> DEFINE Goal == \A q \in Procs : WorkLeft(q)'
<1>1. CASE Write
  <2>1. ASSUME NEW o \in Owners, ResolveConflict(o) PROVE Goal
    BY <2>1 DEF ResolveConflict, WorkLeft, jobVars
  <2> QED BY <1>1, <2>1, DeleteEpisodeWork, CommitStartWork DEF Write
<1>2. ASSUME NEW p \in Procs, Progress(p) PROVE Goal
  <2>1. CASE ReconcileNothing(p)
    BY <2>1 DEF ReconcileNothing, Serve, WorkLeft, Typed, TypeOK, jobVars
  <2> QED
    BY <1>2, <2>1, ReconcileWork, ListTasksWork, DescribeWork, EndsReadyWork, WriteGraphWork,
       WriteVdbWork, BatchDoneWork, FlushWork, RegisterWork, StoreAtomWork, MergeWork, MergeKeepsWork, MergeRefusedWork,
       FetchWork, FetchUnlocatedWork, FetchEndWork, AcknowledgeWork, MarkFailedWork
       DEF Progress
<1>3. ASSUME NEW p \in Procs, Failure(p) PROVE Goal
  BY <1>3, StoreFailsWork, FlushFailsWork, AbortWork, CrashWork DEF Failure
<1>4. ASSUME NEW p \in Procs, ProcStart(p) PROVE Goal
  BY <1>4 DEF ProcStart, WorkLeft, Typed, TypeOK, jobVars
<1>5. ASSUME NEW o \in Owners, RetryDue(o) PROVE Goal
  BY <1>5 DEF RetryDue, WorkLeft, jobVars
<1>6. CASE UNCHANGED vars
  BY <1>6 DEF WorkLeft, vars, jobVars
<1> QED BY <1>1, <1>2, <1>3, <1>4, <1>5, <1>6 DEF Next

-----------------------------------------------------------------------------
(* A row is queued due at once, and put off only with its failure.         *)

LEMMA QueueIsDue ==
    ASSUME Typed, BackoffIsEarned, NEW Q, Queue(Q, live)
    PROVE  BackoffIsEarned'
  BY DEF Typed, TypeOK, SqlTypeOK, Queue, BackoffIsEarned, Outstanding

LEMMA BackoffStays ==
    ASSUME Typed, BackoffIsEarned, [Next]_vars
    PROVE  BackoffIsEarned'
<1>u. ASSUME UNCHANGED <<status, due>> PROVE BackoffIsEarned'
  BY <1>u DEF BackoffIsEarned, Outstanding
<1> USE DEF sqlVars, rowVars
<1>1. CASE Write
  <2>1. ASSUME NEW p \in Procs, NEW A \in SUBSET Owners, NEW K \in SUBSET A,
               DeleteEpisode(p, A, K)
        PROVE  BackoffIsEarned'
    BY <2>1, QueueIsDue DEF DeleteEpisode
  <2>2. ASSUME NEW o \in Owners, ResolveConflict(o) PROVE BackoffIsEarned'
    BY <2>2, QueueIsDue DEF ResolveConflict
  <2>3. ASSUME NEW p \in Procs, NEW T \in SUBSET Owners, NEW A \in SUBSET T,
               CommitStart(p, T, A)
        PROVE  BackoffIsEarned'
    BY <2>3, <1>u DEF CommitStart
  <2> QED BY <1>1, <2>1, <2>2, <2>3 DEF Write
<1>2. ASSUME NEW p \in Procs, NEW o \in Owners, StoreAtom(p, o) PROVE BackoffIsEarned'
  BY <1>2, QueueIsDue DEF StoreAtom
<1>3. ASSUME NEW p \in Procs, NEW o \in Owners, Acknowledge(p, o) PROVE BackoffIsEarned'
  BY <1>3 DEF Acknowledge, BackoffIsEarned, Outstanding, Typed, TypeOK, SqlTypeOK
<1>4. ASSUME NEW p \in Procs, NEW o \in Owners, MarkFailed(p, o) PROVE BackoffIsEarned'
  BY <1>4 DEF MarkFailed, BackoffIsEarned, Outstanding, Typed, TypeOK, SqlTypeOK
<1>5. ASSUME NEW o \in Owners, RetryDue(o) PROVE BackoffIsEarned'
  BY <1>5 DEF RetryDue, BackoffIsEarned, Outstanding, Typed, TypeOK, SqlTypeOK
<1>6. ASSUME NEW p \in Procs, ProcStart(p) \/ Failure(p) PROVE BackoffIsEarned'
  BY <1>6, <1>u DEF ProcStart, Failure, StoreFails, FlushFails, Abort, Crash
<1>7. ASSUME NEW p \in Procs, Progress(p),
             \A o \in Owners : ~StoreAtom(p, o) /\ ~Acknowledge(p, o) /\ ~MarkFailed(p, o)
      PROVE  BackoffIsEarned'
  <2>1. UNCHANGED <<status, due>>
    BY <1>7 DEF Progress, ReconcileNothing, Reconcile, ListTasks, Describe, EndsReady,
       WriteGraph, WriteVdb, BatchDone, Flush, Register, Merge, MergeKeeps,
       MergeRefused, Fetch, FetchUnlocated,
       FetchEnd
  <2> QED BY <2>1, <1>u
<1>8. CASE UNCHANGED vars
  BY <1>8, <1>u DEF vars
<1> QED BY <1>1, <1>2, <1>3, <1>4, <1>5, <1>6, <1>7, <1>8 DEF Next

LEMMA RetryInvariantHolds == Spec => [](Typed /\ RetryInvariant)
<1>1. Init => Typed /\ RetryInvariant
  BY InitTyped DEF Init, RetryInvariant, WorkLeft, BackoffIsEarned, Outstanding
<1>2. Typed /\ RetryInvariant /\ [Next]_vars => (Typed /\ RetryInvariant)'
  BY NextTyped, WorkStays, BackoffStays DEF RetryInvariant
<1> QED BY <1>1, <1>2, PTL DEF Spec

(* For any number of processes, the projection lock is held only by a job  *)
(* of a running process whose next step is there to be done - an owner to  *)
(* register, store, project, acknowledge or report - and a row is kept     *)
(* from the worker only by a backoff its own failure earned: a new change  *)
(* of the owner makes it due again at once.                                *)
THEOREM RetriesGoOn == Spec => [](LockIsWorkedUnder /\ BackoffIsEarned)
<1>1. ASSUME Typed, RetryInvariant PROVE LockIsWorkedUnder
  <2> SUFFICES ASSUME NEW p \in Procs, step[p] # "free"
               PROVE  mode[p] # "down" /\ GoesOn(p)
    BY DEF LockIsWorkedUnder
  <2>1. WorkLeft(p)
    BY <1>1 DEF RetryInvariant
  <2>2. mode[p] # "down"
    BY <2>1 DEF WorkLeft
  <2>3. todo[p] \subseteq Entities \cup Relations /\ step[p] \in Steps
    BY <1>1 DEF Typed, TypeOK, JobTypeOK, Owners
  <2>4. CASE step[p] = "register"
    <3>1. PICK o \in todo[p] : o \notin done[p]
      BY <2>1, <2>4 DEF WorkLeft
    <3>2. \E x \in todo[p] \ done[p] :
             x \in Relations => todo[p] \cap Entities \subseteq done[p]
      <4>1. CASE todo[p] \cap Entities \subseteq done[p]
        BY <3>1, <4>1
      <4>2. ASSUME NEW e \in todo[p] \cap Entities, e \notin done[p]
            PROVE  e \in todo[p] \ done[p] /\ e \notin Relations
        BY <4>2, OwnersAssumption
      <4> QED BY <4>1, <4>2
    <3> QED BY <2>2, <2>4, <3>2 DEF GoesOn
  <2>5. CASE step[p] = "project"
    <3>1. CASE todo[p] \cap Entities = {}
      <4>1. \A o \in todo[p] : EntitiesFirst(p, o)
        BY <3>1 DEF EntitiesFirst
      <4>2. todo[p] = {} \/ \E o \in todo[p] : EntitiesFirst(p, o)
        BY <4>1
      <4> QED BY <2>2, <2>5, <4>2 DEF GoesOn
    <3>2. CASE todo[p] \cap Entities # {}
      <4>1. PICK e \in todo[p] : e \in Entities
        BY <3>2
      <4>2. EntitiesFirst(p, e)
        BY <4>1, OwnersAssumption DEF EntitiesFirst
      <4> QED BY <2>2, <2>5, <4>1, <4>2 DEF GoesOn
    <3> QED BY <3>1, <3>2
  <2>6. CASE step[p] \notin {"register", "project"}
    BY <2>1, <2>3, <2>6 DEF WorkLeft, GoesOn, Steps
  <2> QED BY <2>2, <2>4, <2>5, <2>6
<1>2. Typed /\ RetryInvariant => LockIsWorkedUnder /\ BackoffIsEarned
  BY <1>1 DEF RetryInvariant
<1> QED BY <1>2, RetryInvariantHolds, PTL

(* A change of an owner that a store does not durably show has a row the   *)
(* worker will list, at once or after its backoff, or it was acknowledged  *)
(* without a write under KEEP.                                             *)
NothingForgotten ==
    \A o \in Owners : (\E s \in Stores : dur[s][o].at # rev[o]) =>
        \/ Outstanding(o) /\ (due[o] \/ status[o] = "failed")
        \/ status[o] = "applied" /\ kept[o]

ChangedHaveRows == \A o \in Owners : status[o] = "none" => rev[o] = 0

LEMMA RowsStay ==
    ASSUME Typed, ChangedHaveRows, [Next]_vars
    PROVE  ChangedHaveRows'
<1>q. ASSUME NEW Q, Queue(Q, live) PROVE ChangedHaveRows'
  BY <1>q DEF Typed, TypeOK, SqlTypeOK, Queue, ChangedHaveRows
<1>u. ASSUME UNCHANGED <<status, rev>> PROVE ChangedHaveRows'
  BY <1>u DEF ChangedHaveRows
<1> USE DEF sqlVars, rowVars
<1>1. CASE Write
  <2>1. ASSUME NEW p \in Procs, NEW A \in SUBSET Owners, NEW K \in SUBSET A,
               DeleteEpisode(p, A, K)
        PROVE  ChangedHaveRows'
    BY <2>1, <1>q DEF DeleteEpisode
  <2>2. ASSUME NEW o \in Owners, ResolveConflict(o) PROVE ChangedHaveRows'
    BY <2>2, <1>q DEF ResolveConflict
  <2>3. ASSUME NEW p \in Procs, NEW T \in SUBSET Owners, NEW A \in SUBSET T,
               CommitStart(p, T, A)
        PROVE  ChangedHaveRows'
    BY <2>3, <1>u DEF CommitStart
  <2> QED BY <1>1, <2>1, <2>2, <2>3 DEF Write
<1>2. ASSUME NEW p \in Procs, NEW o \in Owners, StoreAtom(p, o) PROVE ChangedHaveRows'
  BY <1>2, <1>q DEF StoreAtom
<1>3. ASSUME NEW p \in Procs, NEW o \in Owners, Acknowledge(p, o) PROVE ChangedHaveRows'
  BY <1>3 DEF Acknowledge, ChangedHaveRows, Outstanding, Typed, TypeOK, SqlTypeOK
<1>4. ASSUME NEW p \in Procs, NEW o \in Owners, MarkFailed(p, o) PROVE ChangedHaveRows'
  BY <1>4 DEF MarkFailed, ChangedHaveRows, Typed, TypeOK, SqlTypeOK
<1>5. ASSUME NEW o \in Owners, RetryDue(o) PROVE ChangedHaveRows'
  BY <1>5, <1>u DEF RetryDue
<1>6. ASSUME NEW p \in Procs, ProcStart(p) \/ Failure(p) PROVE ChangedHaveRows'
  BY <1>6, <1>u DEF ProcStart, Failure, StoreFails, FlushFails, Abort, Crash
<1>7. ASSUME NEW p \in Procs, Progress(p),
             \A o \in Owners : ~StoreAtom(p, o) /\ ~Acknowledge(p, o) /\ ~MarkFailed(p, o)
      PROVE  ChangedHaveRows'
  <2>1. UNCHANGED <<status, rev>>
    BY <1>7 DEF Progress, ReconcileNothing, Reconcile, ListTasks, Describe, EndsReady,
       WriteGraph, WriteVdb, BatchDone, Flush, Register, Merge, MergeKeeps,
       MergeRefused, Fetch, FetchUnlocated,
       FetchEnd
  <2> QED BY <2>1, <1>u
<1>8. CASE UNCHANGED vars
  BY <1>8, <1>u DEF vars
<1> QED BY <1>1, <1>2, <1>3, <1>4, <1>5, <1>6, <1>7, <1>8 DEF Next

(* With one process, whenever a store does not durably show the latest     *)
(* state of an owner - a write never flushed, a failed batch, a commit     *)
(* that gave up, a change made behind the job's back - the owner has an    *)
(* outstanding row, due or waiting only for a backoff, or a commit whose   *)
(* merge returned early at the limit of sources acknowledged it.           *)
THEOREM NoChangeIsForgotten == SingleProcess => (Spec => []NothingForgotten)
<1>1. ASSUME OutboxInvariant, RetryInvariant, ChangedHaveRows PROVE NothingForgotten
  <2> SUFFICES ASSUME NEW o \in Owners, NEW s \in Stores, dur[s][o].at # rev[o]
               PROVE  \/ Outstanding(o) /\ (due[o] \/ status[o] = "failed")
                      \/ status[o] = "applied" /\ kept[o]
    BY DEF NothingForgotten
  <2>1. status[o] = "applied" => kept[o]
    BY <1>1 DEF OutboxInvariant, AppliedIsCurrent
  <2>2. status[o] # "none"
    <3>1. dur[s][o].at \in Nat /\ rev[o] \in Nat /\ dur[s][o].at <= rev[o]
      BY <1>1, Numbers DEF OutboxInvariant, CopiesBehind, Seen, Flushed
    <3> QED BY <1>1, <3>1 DEF ChangedHaveRows
  <2>3. status[o] \in {"none", "pending", "failed", "applied"}
    BY <1>1 DEF OutboxInvariant, TypeOK, SqlTypeOK
  <2>4. status[o] # "applied" => Outstanding(o)
    BY <2>2, <2>3 DEF Outstanding
  <2> QED BY <1>1, <2>1, <2>4 DEF RetryInvariant, BackoffIsEarned
<1>2. Spec => []ChangedHaveRows
  <2>1. Init => ChangedHaveRows
    BY DEF Init, ChangedHaveRows
  <2>2. Typed /\ ChangedHaveRows /\ [Next]_vars => ChangedHaveRows'
    BY RowsStay
  <2>3. Spec => []Typed
    BY RetryInvariantHolds, PTL
  <2> QED BY <2>1, <2>2, <2>3, PTL DEF Spec
<1>3. OutboxInvariant /\ RetryInvariant /\ ChangedHaveRows => NothingForgotten
  BY <1>1
<1>4. SUFFICES ASSUME SingleProcess PROVE Spec => []NothingForgotten
  OBVIOUS
<1>5. Spec => []OutboxInvariant
  BY <1>4, FenceInvariant
<1>6. Spec => []RetryInvariant
  BY RetryInvariantHolds, PTL
<1> QED BY <1>2, <1>3, <1>5, <1>6, PTL
=============================================================================
