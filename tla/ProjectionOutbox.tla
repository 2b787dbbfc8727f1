-------------------------- MODULE ProjectionOutbox --------------------------
(***************************************************************************)
(* The projection outbox of MAGI-Memo.  SQLite owns the memory; the graph  *)
(* store and the vector stores hold a derived copy of every owner (entity  *)
(* or relation).  A SQLite transaction that changes an owner also queues   *)
(* the owner in projection_outbox; a job that holds the adapter's          *)
(* _projection_lock re-reads the owner, writes the stores, flushes them    *)
(* and only then acknowledges the revision it had listed.  Four kinds of   *)
(* job take the lock: the startup reconcile, the worker's reconcile, a     *)
(* hard delete and an ingestion commit.  Conflict resolution does not.     *)
(*                                                                         *)
(* A step's atomicity is that of the code: one SQLite transaction, or one *)
(* store operation, between two awaits.                                    *)
(***************************************************************************)
EXTENDS Naturals, FiniteSets

CONSTANTS
    Procs,         \* server processes over one workspace, one adapter each
    Entities,
    Relations,
    Ends,          \* Ends[r]: the entities a relation joins
    WriteThrough,  \* the stores whose writes are durable without a flush
    Limited,       \* owners whose list of sources may be at max_source_ids
                   \* under the default KEEP; none of them under FIFO
    BatchLimit,    \* LIMIT of list_projection_tasks in a reconcile
    MaxRev,        \* bound on the changes of one owner
    MaxFaults,     \* bounds on the store failures, aborts and crashes
    None

Owners == Entities \cup Relations
Stores == {"graph", "vdb"}
FaultKinds == {"store", "abort", "crash"}

ASSUME OwnersAssumption ==
    /\ Entities \cap Relations = {}
    /\ None \notin Owners
    /\ Ends \in [Relations -> SUBSET Entities]
ASSUME BoundsAssumption ==
    /\ BatchLimit \in Nat \ {0}
    /\ MaxRev \in Nat
    /\ MaxFaults \in [FaultKinds -> Nat]
    /\ WriteThrough \subseteq Stores
    /\ Limited \subseteq Owners

(***************************************************************************)
(* What a store shows of an owner: the revision it was read at, and        *)
(* whether a node (an edge) is there.                                      *)
(***************************************************************************)
View == [at : Nat, live : BOOLEAN]
Unseen == [at |-> 0, live |-> FALSE]
Listing == [rev : Nat, loc : BOOLEAN]
NotListed == [rev |-> 0, loc |-> FALSE]

VARIABLES
    \* SQLite
    live,    \* the owner has a registry row
    atoms,   \* the owner has an Atom
    rev,     \* target_revision of its outbox row, 0 without a row
    status,  \* status of its outbox row
    due,     \* next_attempt_at is NULL or past
    loc,     \* owner_snapshot_json locates the projected node or edge
    \* the derived stores
    mem,     \* what a reader of the store sees
    dur,     \* what the store holds after a restart
    kept,    \* history: the row was acknowledged by a commit whose merge
             \* had left the stores as they were
    \* a process and the job that holds its _projection_lock
    mode,    \* the process: down, starting (reconcile before serving), up
    step,    \* the job's next step; "free": the lock is not held
    kind,    \* reconcile, delete or commit
    todo,    \* owners the job still has to project
    listed,  \* the outbox rows the job listed
    done,    \* owners projected, not yet acknowledged
    bad,     \* owners whose failure is still to be recorded
    puts,    \* owners a commit still has to store Atoms for
    skips,   \* owners whose merge returned early, without a write
    cur,     \* the owner being projected
    end,     \* the endpoint of cur being projected first
    view,    \* what the job has read of an owner
    faults

sqlVars   == <<live, atoms, rev, status, due, loc>>
rowVars   == <<rev, status, due, loc>>
storeVars == <<mem, dur, kept>>
jobVars   == <<step, kind, todo, listed, done, bad, puts, skips, cur, end, view>>
vars      == <<sqlVars, storeVars, mode, jobVars, faults>>

Modes == {"down", "starting", "up"}
Kinds == {"reconcile", "delete", "commit"}
Steps == {"free", "register", "store", "list", "describe", "project", "ends",
          "graph", "vdb", "failing",
          "flushGraph", "flushEntities", "flushRelations", "ack"}

SqlTypeOK ==
    /\ live \in [Owners -> BOOLEAN]
    /\ atoms \in [Owners -> BOOLEAN]
    /\ rev \in [Owners -> Nat]
    /\ status \in [Owners -> {"none", "pending", "failed", "applied"}]
    /\ due \in [Owners -> BOOLEAN]
    /\ loc \in [Owners -> BOOLEAN]

StoreTypeOK ==
    /\ mem \in [Stores -> [Owners -> View]]
    /\ dur \in [Stores -> [Owners -> View]]
    /\ kept \in [Owners -> BOOLEAN]

JobTypeOK ==
    /\ step \in [Procs -> Steps]
    /\ kind \in [Procs -> Kinds]
    /\ todo \in [Procs -> SUBSET Owners]
    /\ listed \in [Procs -> [Owners -> Listing]]
    /\ done \in [Procs -> SUBSET Owners]
    /\ bad \in [Procs -> SUBSET Owners]
    /\ puts \in [Procs -> SUBSET Owners]
    /\ skips \in [Procs -> SUBSET Owners]
    /\ cur \in [Procs -> Owners \cup {None}]
    /\ end \in [Procs -> Entities \cup {None}]
    /\ view \in [Procs -> [Owners -> View]]

TypeOK ==
    /\ SqlTypeOK
    /\ StoreTypeOK
    /\ mode \in [Procs -> Modes]
    /\ JobTypeOK
    /\ faults \in [FaultKinds -> Nat]

Init ==
    /\ live = [o \in Owners |-> FALSE]
    /\ atoms = [o \in Owners |-> FALSE]
    /\ rev = [o \in Owners |-> 0]
    /\ status = [o \in Owners |-> "none"]
    /\ due = [o \in Owners |-> TRUE]
    /\ loc = [o \in Owners |-> FALSE]
    /\ mem = [s \in Stores |-> [o \in Owners |-> Unseen]]
    /\ dur = [s \in Stores |-> [o \in Owners |-> Unseen]]
    /\ kept = [o \in Owners |-> FALSE]
    /\ mode = [p \in Procs |-> "down"]
    /\ step = [p \in Procs |-> "free"]
    /\ kind = [p \in Procs |-> "reconcile"]
    /\ todo = [p \in Procs |-> {}]
    /\ listed = [p \in Procs |-> [o \in Owners |-> NotListed]]
    /\ done = [p \in Procs |-> {}]
    /\ bad = [p \in Procs |-> {}]
    /\ puts = [p \in Procs |-> {}]
    /\ skips = [p \in Procs |-> {}]
    /\ cur = [p \in Procs |-> None]
    /\ end = [p \in Procs |-> None]
    /\ view = [p \in Procs |-> [o \in Owners |-> Unseen]]
    /\ faults = [f \in FaultKinds |-> 0]

-----------------------------------------------------------------------------
(* The outbox rows.                                                        *)

Outstanding(o) == status[o] \in {"pending", "failed"}

(* Mark the owners of Q dirty inside the caller's transaction.  A row      *)
(* keeps its locator when the owner has no registry row to take it from.   *)
Queue(Q, located) ==
    /\ rev' = [o \in Owners |-> IF o \in Q THEN rev[o] + 1 ELSE rev[o]]
    /\ status' = [o \in Owners |-> IF o \in Q THEN "pending" ELSE status[o]]
    /\ due' = [o \in Owners |-> IF o \in Q THEN TRUE ELSE due[o]]
    /\ loc' = [o \in Owners |-> IF o \in Q THEN loc[o] \/ located[o] ELSE loc[o]]
    /\ kept' = [o \in Owners |-> kept[o] /\ o \notin Q]

ListingOf(T) ==
    [o \in Owners |-> IF o \in T THEN [rev |-> rev[o], loc |-> loc[o]]
                                 ELSE NotListed]

(* A LIMITed listing takes entities before relations.                      *)
Batches(C) ==
    {T \in SUBSET C :
        /\ Cardinality(T) = (IF Cardinality(C) < BatchLimit THEN Cardinality(C)
                                                           ELSE BatchLimit)
        /\ T \cap Relations # {} => C \cap Entities \subseteq T}

-----------------------------------------------------------------------------
(* Taking and leaving the lock.                                            *)

(* The job ends, by returning, by an exception or by a cancellation.  A    *)
(* startup reconcile that ended lets the process serve.                    *)
Release(p) ==
    /\ step' = [step EXCEPT ![p] = "free"]
    /\ todo' = [todo EXCEPT ![p] = {}]
    /\ done' = [done EXCEPT ![p] = {}]
    /\ bad' = [bad EXCEPT ![p] = {}]
    /\ puts' = [puts EXCEPT ![p] = {}]
    /\ skips' = [skips EXCEPT ![p] = {}]
    /\ cur' = [cur EXCEPT ![p] = None]
    /\ end' = [end EXCEPT ![p] = None]
    /\ kind' = [kind EXCEPT ![p] = "reconcile"]
    /\ listed' = [listed EXCEPT ![p] = [o \in Owners |-> NotListed]]
    /\ view' = [view EXCEPT ![p] = [o \in Owners |-> Unseen]]

Serve(p) == mode' = [mode EXCEPT ![p] = "up"]

(* Faulty: the repair drops every entity without a relation.               *)
PruneUnrelated ==
    live' = [o \in Owners |-> /\ live[o]
                              /\ \/ o \in Relations /\ atoms[o]
                                 \/ \E r \in Relations :
                                        live[r] /\ atoms[r] /\ o \in Ends[r]]

(* initialize deletes registry rows that own no Atom, relations first, and *)
(* queues nothing.                                                         *)
Prune ==
    LET held(r) == live[r] /\ atoms[r]
        used(e) == \E r \in Relations : held(r) /\ e \in Ends[r]
    IN  live' = [o \in Owners |-> /\ live[o]
                                  /\ \/ atoms[o]
                                     \/ o \in Entities /\ used(o)]

ProcStart(p) ==
    /\ mode[p] = "down"
    /\ mode' = [mode EXCEPT ![p] = "starting"]
    /\ Prune
    /\ UNCHANGED <<atoms, rowVars, storeVars, jobVars, faults>>

(* Faulty: a reconcile takes up no row that failed before.                 *)
NeverFailed(p) == {o \in Owners : status[o] = "pending" /\ mode[p] # "down"}

(* The startup reconcile takes every outstanding row, the worker only the  *)
(* rows whose retry time has come.                                         *)
Reconcilable(p) ==
    {o \in Owners : Outstanding(o) /\ (mode[p] = "starting" \/ due[o])}

ReconcileNothing(p) ==
    /\ mode[p] = "starting"
    /\ step[p] = "free"
    /\ Reconcilable(p) = {}
    /\ Serve(p)
    /\ UNCHANGED <<sqlVars, storeVars, jobVars, faults>>

Reconcile(p) ==
    /\ mode[p] \in {"starting", "up"}
    /\ step[p] = "free"
    /\ Reconcilable(p) # {}
    /\ \E T \in Batches(Reconcilable(p)) :
        /\ todo' = [todo EXCEPT ![p] = T]
        /\ listed' = [listed EXCEPT ![p] = ListingOf(T)]
    /\ kind' = [kind EXCEPT ![p] = "reconcile"]
    /\ step' = [step EXCEPT ![p] = "project"]
    /\ UNCHANGED <<sqlVars, storeVars, mode, done, bad, puts, skips, cur, end, view, faults>>

-----------------------------------------------------------------------------
(* Changes of the memory.                                                  *)

(* Faulty: a hard delete does not queue the endpoints it may remove.       *)
DeleteEndsUnqueued(p, A, K) ==
    LET Q == A \cup UNION {Ends[r] : r \in A \cap Relations}
        stays(r) == live[r] /\ ~(r \in K)
        used(e) == \E r \in Relations : stays(r) /\ e \in Ends[r]
        gone == (K \cap Relations) \cup
                {e \in Q \cap Entities : (e \in K \/ ~atoms[e]) /\ ~used(e)}
    IN  /\ mode[p] = "up"
        /\ step[p] = "free"
        /\ \A o \in A : atoms[o] /\ rev[o] < MaxRev
        /\ atoms' = [o \in Owners |-> atoms[o] /\ o \notin K]
        /\ live' = [o \in Owners |-> live[o] /\ o \notin gone]
        /\ Queue(A, live)
        /\ kind' = [kind EXCEPT ![p] = "delete"]
        /\ step' = [step EXCEPT ![p] = "list"]
        /\ todo' = [todo EXCEPT ![p] = A]
        /\ UNCHANGED <<mem, dur, mode, listed, done, bad, puts, skips, cur, end, view, faults>>

(* Hard delete of an Episode that supports Atoms of the owners A, the last *)
(* Atoms of the owners K.  Relations left without an Atom go, then the     *)
(* entities of the transaction left without Atom and relation.             *)
DeleteEpisode(p, A, K) ==
    LET Q == A \cup UNION {Ends[r] : r \in A \cap Relations}
        stays(r) == live[r] /\ ~(r \in K)
        used(e) == \E r \in Relations : stays(r) /\ e \in Ends[r]
        gone == (K \cap Relations) \cup
                {e \in Q \cap Entities : (e \in K \/ ~atoms[e]) /\ ~used(e)}
    IN  /\ mode[p] = "up"
        /\ step[p] = "free"
        /\ \A o \in A : atoms[o]
        /\ \A o \in Q : rev[o] < MaxRev
        /\ atoms' = [o \in Owners |-> atoms[o] /\ o \notin K]
        /\ live' = [o \in Owners |-> live[o] /\ o \notin gone]
        /\ Queue(Q, live)
        /\ kind' = [kind EXCEPT ![p] = "delete"]
        /\ step' = [step EXCEPT ![p] = "list"]
        /\ todo' = [todo EXCEPT ![p] = Q]
        /\ UNCHANGED <<mem, dur, mode, listed, done, bad, puts, skips, cur, end, view, faults>>

(* A commit of one Episode touches the owners T; those of A get Atoms, the *)
(* other entities are only endpoints.                                      *)
CommitPlan(T, A) ==
    /\ A # {} /\ A \subseteq T
    /\ T \cap Relations \subseteq A
    /\ T \ A \subseteq UNION {Ends[r] : r \in T \cap Relations}
    /\ UNION {Ends[r] : r \in T \cap Relations} \subseteq T

CommitStart(p, T, A) ==
    /\ mode[p] = "up"
    /\ step[p] = "free"
    /\ CommitPlan(T, A)
    /\ \A o \in A : rev[o] < MaxRev
    /\ kind' = [kind EXCEPT ![p] = "commit"]
    /\ step' = [step EXCEPT ![p] = "register"]
    /\ todo' = [todo EXCEPT ![p] = T]
    /\ puts' = [puts EXCEPT ![p] = A]
    /\ UNCHANGED <<sqlVars, storeVars, mode, listed, done, bad, skips, cur, end, view,
                   faults>>

(* put_entity and put_relation: a registry row, no outbox row.             *)
Register(p, o) ==
    /\ step[p] = "register"
    /\ o \in todo[p] \ done[p]
    /\ o \in Relations => todo[p] \cap Entities \subseteq done[p]
    /\ live' = [live EXCEPT ![o] = TRUE]
    /\ IF done[p] \cup {o} = todo[p]
       THEN /\ step' = [step EXCEPT ![p] = "store"]
            /\ done' = [done EXCEPT ![p] = {}]
       ELSE /\ done' = [done EXCEPT ![p] = @ \cup {o}]
            /\ UNCHANGED step
    /\ UNCHANGED <<atoms, rowVars, storeVars, mode, kind, todo, listed, bad, puts, skips,
                   cur, end, view, faults>>

(* put_atom: the Atom, its evidence and the outbox row in one transaction. *)
StoreAtom(p, o) ==
    /\ step[p] = "store"
    /\ o \in puts[p]
    /\ atoms' = [atoms EXCEPT ![o] = TRUE]
    /\ Queue({o}, live)
    /\ puts' = [puts EXCEPT ![p] = @ \ {o}]
    /\ step' = [step EXCEPT ![p] = IF puts[p] = {o} THEN "list" ELSE "store"]
    /\ UNCHANGED <<live, mem, dur, mode, kind, todo, listed, done, bad, skips, cur, end,
                   view, faults>>

(* resolve_atom_conflict, from a request that never takes the lock.        *)
ResolveConflict(o) ==
    /\ \E p \in Procs : mode[p] = "up"
    /\ atoms[o]
    /\ rev[o] < MaxRev
    /\ Queue({o}, live)
    /\ UNCHANGED <<live, atoms, mem, dur, mode, jobVars, faults>>

(* The rows of a delete's or a commit's owners.  A delete projects what it *)
(* listed; a commit projects every owner it touched.                       *)
ListTasks(p) ==
    LET T == {o \in todo[p] : Outstanding(o)}
    IN  /\ step[p] = "list"
        /\ listed' = [listed EXCEPT ![p] = ListingOf(T)]
        /\ IF kind[p] = "delete"
           THEN /\ todo' = [todo EXCEPT ![p] = T]
                /\ step' = [step EXCEPT ![p] = "project"]
           ELSE /\ step' = [step EXCEPT ![p] = "describe"]
                /\ UNCHANGED todo
        /\ UNCHANGED <<sqlVars, storeVars, mode, kind, done, bad, puts, skips, cur, end, view,
                       faults>>

(* A commit reads the descriptions of all its owners before it merges any. *)
Describe(p) ==
    /\ step[p] = "describe"
    /\ view' = [view EXCEPT ![p] =
                   [o \in Owners |-> IF o \in todo[p]
                                     THEN [at |-> rev[o], live |-> TRUE]
                                     ELSE view[p][o]]]
    /\ step' = [step EXCEPT ![p] = "project"]
    /\ UNCHANGED <<sqlVars, storeVars, mode, kind, todo, listed, done, bad, puts, skips, cur,
                   end, faults>>

-----------------------------------------------------------------------------
(* Projecting one owner.                                                   *)

(* Faulty: a batch projects its owners in any order.                       *)
AnyOrder(p, o) == o \in todo[p]

EntitiesFirst(p, o) == o \in Relations => todo[p] \cap Entities = {}

Begin(p, o) ==
    /\ step[p] = "project"
    /\ o \in todo[p]
    /\ EntitiesFirst(p, o)

(* merge_nodes_and_edges: nodes first; the description is already read.    *)
(* The source of the commit has a place in the owner's list, or was in it: *)
(* a source whose commit is tried again, even one beyond the limit.        *)
Merge(p, o) ==
    /\ Begin(p, o)
    /\ kind[p] = "commit"
    /\ cur' = [cur EXCEPT ![p] = o]
    /\ step' = [step EXCEPT ![p] = "graph"]
    /\ UNCHANGED <<sqlVars, storeVars, mode, kind, todo, listed, done, bad, puts, skips, end,
                   view, faults>>

(* Under KEEP a list that was at its limit takes no new source: the merge  *)
(* returns the copy the graph holds and writes nothing, neither there nor  *)
(* in the vector store.  The commit goes on and acknowledges the owner.    *)
MergeKeeps(p, o) ==
    /\ Begin(p, o)
    /\ kind[p] = "commit"
    /\ o \in Limited
    /\ mem["graph"][o].live
    /\ todo' = [todo EXCEPT ![p] = @ \ {o}]
    /\ done' = [done EXCEPT ![p] = @ \cup {o}]
    /\ skips' = [skips EXCEPT ![p] = @ \cup {o}]
    /\ UNCHANGED <<sqlVars, storeVars, mode, step, kind, listed, bad, puts, cur, end,
                   view, faults>>

(* The same without a copy in the graph is a ValueError: the commit gives  *)
(* up.                                                                     *)
MergeRefused(p, o) ==
    /\ Begin(p, o)
    /\ kind[p] = "commit"
    /\ o \in Limited
    /\ ~mem["graph"][o].live
    /\ Release(p)
    /\ UNCHANGED <<sqlVars, storeVars, mode, faults>>

(* _project_owner: the registry row decides between writing and removing.  *)
(* The read of the row stands for all the reads of the owner: what is read *)
(* later is at least as new.                                               *)
Fetch(p, o) ==
    /\ Begin(p, o)
    /\ kind[p] # "commit"
    /\ live[o] \/ listed[p][o].loc
    /\ cur' = [cur EXCEPT ![p] = o]
    /\ view' = [view EXCEPT ![p][o] = [at |-> rev[o], live |-> live[o]]]
    /\ step' = [step EXCEPT ![p] = IF ~live[o] THEN "vdb"
                                   ELSE IF o \in Relations THEN "ends" ELSE "graph"]
    /\ UNCHANGED <<sqlVars, storeVars, mode, kind, todo, listed, done, bad, puts, skips, end,
                   faults>>

(* A removed owner without a locator: there is nothing to remove.          *)
FetchUnlocated(p, o) ==
    /\ Begin(p, o)
    /\ kind[p] # "commit"
    /\ ~live[o] /\ ~listed[p][o].loc
    /\ todo' = [todo EXCEPT ![p] = @ \ {o}]
    /\ done' = [done EXCEPT ![p] = @ \cup {o}]
    /\ UNCHANGED <<sqlVars, storeVars, mode, step, kind, listed, bad, puts, skips, cur, end,
                   view, faults>>

(* A relation's endpoints come first, those the graph does not hold.       *)
MissingEnds(p) == {e \in Ends[cur[p]] : live[e] /\ ~mem["graph"][e].live}

FetchEnd(p, e) ==
    /\ step[p] = "ends"
    /\ e \in MissingEnds(p)
    /\ end' = [end EXCEPT ![p] = e]
    /\ view' = [view EXCEPT ![p][e] = [at |-> rev[e], live |-> TRUE]]
    /\ step' = [step EXCEPT ![p] = "graph"]
    /\ UNCHANGED <<sqlVars, storeVars, mode, kind, todo, listed, done, bad, puts, skips, cur,
                   faults>>

EndsReady(p) ==
    /\ step[p] = "ends"
    /\ MissingEnds(p) = {}
    /\ step' = [step EXCEPT ![p] = "graph"]
    /\ UNCHANGED <<sqlVars, storeVars, mode, kind, todo, listed, done, bad, puts, skips, cur,
                   end, view, faults>>

Target(p) == IF end[p] = None THEN cur[p] ELSE end[p]

(* Neo4j matches both endpoints before it merges an edge, and removes the  *)
(* edges of a node it deletes.                                             *)
Shown(o, v, g) ==
    IF o \in Relations THEN [v EXCEPT !.live = v.live /\ \A e \in Ends[o] : g[e].live]
                       ELSE v
Detached(o, e, v) == o \in Relations /\ e \in Entities /\ e \in Ends[o] /\ ~v.live

Written(s, t, v, g) ==
    [o \in Owners |-> IF o = t THEN (IF s = "graph" THEN Shown(o, v, mem["graph"]) ELSE v)
                      ELSE IF s = "graph" /\ t \in Entities /\ Detached(o, t, v)
                           THEN [g[o] EXCEPT !.live = FALSE]
                           ELSE g[o]]

WriteStore(p, s) ==
    LET t == Target(p)
    IN  /\ mem' = [mem EXCEPT ![s] = Written(s, t, view[p][t], @)]
        /\ dur' = IF s \in WriteThrough
                  THEN [dur EXCEPT ![s] = Written(s, t, view[p][t], @)] ELSE dur

(* After its last write an endpoint returns to its relation, an owner to   *)
(* the batch.                                                              *)
Projected(p) ==
    IF end[p] # None
    THEN /\ end' = [end EXCEPT ![p] = None]
         /\ step' = [step EXCEPT ![p] = "ends"]
         /\ UNCHANGED <<cur, todo, done>>
    ELSE /\ cur' = [cur EXCEPT ![p] = None]
         /\ todo' = [todo EXCEPT ![p] = @ \ {cur[p]}]
         /\ done' = [done EXCEPT ![p] = @ \cup {cur[p]}]
         /\ step' = [step EXCEPT ![p] = "project"]
         /\ UNCHANGED end

(* A live owner is written to the graph, then to the vector store; a       *)
(* removed one leaves the vector store first.                              *)
WriteGraph(p) ==
    /\ step[p] = "graph"
    /\ WriteStore(p, "graph")
    /\ IF view[p][Target(p)].live
       THEN /\ step' = [step EXCEPT ![p] = "vdb"]
            /\ UNCHANGED <<cur, end, todo, done>>
       ELSE Projected(p)
    /\ UNCHANGED <<sqlVars, kept, mode, kind, listed, bad, puts, skips, view, faults>>

WriteVdb(p) ==
    /\ step[p] = "vdb"
    /\ WriteStore(p, "vdb")
    /\ IF view[p][Target(p)].live
       THEN Projected(p)
       ELSE /\ step' = [step EXCEPT ![p] = "graph"]
            /\ UNCHANGED <<cur, end, todo, done>>
    /\ UNCHANGED <<sqlVars, kept, mode, kind, listed, bad, puts, skips, view, faults>>

BatchDone(p) ==
    /\ step[p] = "project"
    /\ todo[p] = {}
    /\ IF done[p] # {}
       THEN /\ step' = [step EXCEPT ![p] = "flushGraph"]
            /\ UNCHANGED <<mode, kind, todo, listed, done, bad, puts, skips, cur, end, view>>
       ELSE Release(p) /\ Serve(p)
    /\ UNCHANGED <<sqlVars, storeVars, faults>>

-----------------------------------------------------------------------------
(* Flush and acknowledge.                                                  *)

FlushStore(s, S) ==
    dur' = [dur EXCEPT ![s] = [o \in Owners |-> IF o \in S THEN mem[s][o] ELSE dur[s][o]]]

(* index_done_callback of the graph, the entity vectors and the relation   *)
(* vectors, in this order.                                                 *)
Flush(p) ==
    /\ \/ /\ step[p] = "flushGraph"
          /\ FlushStore("graph", Owners)
          /\ step' = [step EXCEPT ![p] = "flushEntities"]
       \/ /\ step[p] = "flushEntities"
          /\ FlushStore("vdb", Entities)
          /\ step' = [step EXCEPT ![p] = "flushRelations"]
       \/ /\ step[p] = "flushRelations"
          /\ FlushStore("vdb", Relations)
          /\ step' = [step EXCEPT ![p] = "ack"]
    /\ UNCHANGED <<sqlVars, mem, kept, mode, kind, todo, listed, done, bad, puts, skips, cur, end,
                   view, faults>>

(* Faulty: the acknowledgement forgets which revision was listed.          *)
AnyRevision(p, o) == o \in Owners

(* mark_projection_applied: only the revision that was listed.             *)
Current(p, o) == rev[o] = listed[p][o].rev

Acknowledge(p, o) ==
    /\ step[p] = "ack"
    /\ o \in done[p]
    /\ IF Outstanding(o) /\ Current(p, o)
       THEN /\ status' = [status EXCEPT ![o] = "applied"]
            /\ kept' = [kept EXCEPT ![o] = o \in skips[p]]
       ELSE UNCHANGED <<status, kept>>
    /\ IF done[p] = {o}
       THEN Release(p) /\ Serve(p)
       ELSE /\ done' = [done EXCEPT ![p] = @ \ {o}]
            /\ UNCHANGED <<mode, step, kind, todo, listed, bad, puts, skips, cur, end, view>>
    /\ UNCHANGED <<live, atoms, rev, due, loc, mem, dur, faults>>

-----------------------------------------------------------------------------
(* Failures.                                                               *)

Fault(f) ==
    /\ faults[f] < MaxFaults[f]
    /\ faults' = [faults EXCEPT ![f] = @ + 1]

(* A store operation raises; its effect may have landed.  A commit gives   *)
(* up; the other jobs record the failure of the owner.                     *)
StoreFails(p) ==
    /\ step[p] \in {"graph", "vdb"}
    /\ Fault("store")
    /\ WriteStore(p, step[p]) \/ UNCHANGED storeVars
    /\ IF kind[p] = "commit"
       THEN Release(p)
       ELSE /\ step' = [step EXCEPT ![p] = "failing"]
            /\ bad' = [bad EXCEPT ![p] = {cur[p]}]
            /\ todo' = [todo EXCEPT ![p] = @ \ {cur[p]}]
            /\ cur' = [cur EXCEPT ![p] = None]
            /\ end' = [end EXCEPT ![p] = None]
            /\ UNCHANGED <<kind, listed, done, puts, skips, view>>
    /\ UNCHANGED <<sqlVars, kept, mode>>

(* A flush raises: every owner of the batch failed.                        *)
FlushFails(p) ==
    /\ step[p] \in {"flushGraph", "flushEntities", "flushRelations"}
    /\ Fault("store")
    /\ IF kind[p] = "commit"
       THEN Release(p)
       ELSE /\ step' = [step EXCEPT ![p] = "failing"]
            /\ bad' = [bad EXCEPT ![p] = done[p]]
            /\ done' = [done EXCEPT ![p] = {}]
            /\ UNCHANGED <<kind, todo, listed, puts, skips, cur, end, view>>
    /\ UNCHANGED <<sqlVars, storeVars, mode>>

(* mark_projection_failed checks the revision, not the status.  Then a     *)
(* delete raises and a reconcile goes on with its batch.                   *)
MarkFailed(p, o) ==
    /\ step[p] = "failing"
    /\ o \in bad[p]
    /\ IF Current(p, o)
       THEN /\ status' = [status EXCEPT ![o] = "failed"]
            /\ due' = [due EXCEPT ![o] = FALSE]
       ELSE UNCHANGED <<status, due>>
    /\ IF bad[p] # {o}
       THEN /\ bad' = [bad EXCEPT ![p] = @ \ {o}]
            /\ UNCHANGED <<step, kind, todo, listed, done, puts, skips, cur, end, view>>
       ELSE IF kind[p] = "delete"
       THEN Release(p)
       ELSE /\ bad' = [bad EXCEPT ![p] = {}]
            /\ step' = [step EXCEPT ![p] = "project"]
            /\ UNCHANGED <<kind, todo, listed, done, puts, skips, cur, end, view>>
    /\ UNCHANGED <<live, atoms, rev, loc, storeVars, mode, faults>>

(* The backoff of a failed row runs out.                                   *)
RetryDue(o) ==
    /\ status[o] = "failed"
    /\ ~due[o]
    /\ due' = [due EXCEPT ![o] = TRUE]
    /\ UNCHANGED <<live, atoms, rev, status, loc, storeVars, mode, jobVars, faults>>

(* A cancellation, or an exception of SQLite or of the decision provider,  *)
(* ends a job anywhere.  It fails the start of a process that has not yet  *)
(* served.                                                                 *)
Abort(p) ==
    /\ step[p] # "free"
    /\ Fault("abort")
    /\ Release(p)
    /\ mode' = [mode EXCEPT ![p] = IF @ = "starting" THEN "down" ELSE @]
    /\ UNCHANGED <<sqlVars, storeVars>>

(* A process dies: unflushed writes are lost, SQLite is not.               *)
Crash(p) ==
    /\ mode[p] # "down"
    /\ Fault("crash")
    /\ Release(p)
    /\ mode' = [mode EXCEPT ![p] = "down"]
    /\ mem' = [s \in Stores |-> IF s \in WriteThrough THEN mem[s] ELSE dur[s]]
    /\ UNCHANGED <<sqlVars, dur, kept>>

-----------------------------------------------------------------------------
Write ==
    \/ \E p \in Procs :
        \/ \E A \in SUBSET Owners \ {{}} : \E K \in SUBSET A : DeleteEpisode(p, A, K)
        \/ \E T \in SUBSET Owners : \E A \in SUBSET T : CommitStart(p, T, A)
    \/ \E o \in Owners : ResolveConflict(o)

(* What a process does by itself once started and once a job has begun.    *)
Progress(p) ==
    \/ ReconcileNothing(p) \/ Reconcile(p)
    \/ ListTasks(p) \/ Describe(p) \/ EndsReady(p)
    \/ WriteGraph(p) \/ WriteVdb(p) \/ BatchDone(p) \/ Flush(p)
    \/ \E o \in Owners :
        \/ Register(p, o) \/ StoreAtom(p, o)
        \/ Merge(p, o) \/ MergeKeeps(p, o) \/ MergeRefused(p, o)
        \/ Fetch(p, o) \/ FetchUnlocated(p, o) \/ FetchEnd(p, o)
        \/ Acknowledge(p, o) \/ MarkFailed(p, o)

Failure(p) == StoreFails(p) \/ FlushFails(p) \/ Abort(p) \/ Crash(p)

Next ==
    \/ Write
    \/ \E p \in Procs : ProcStart(p) \/ Progress(p) \/ Failure(p)
    \/ \E o \in Owners : RetryDue(o)

Spec == Init /\ [][Next]_vars

(* The event loop keeps scheduling the worker and the running job, a       *)
(* backoff runs out, and a process that died is started again.             *)
FairSpec ==
    /\ Spec
    /\ \A p \in Procs : WF_vars(ProcStart(p)) /\ WF_vars(Progress(p))
    /\ \A o \in Owners : WF_vars(RetryDue(o))

-----------------------------------------------------------------------------
(* Properties.                                                             *)

(* An acknowledged owner is durably projected, in the graph and in the     *)
(* vector store, from its current SQLite state: mark_projection_applied    *)
(* after the flush, with the revision listed before the reads.  Only an    *)
(* owner acknowledged by a commit that kept its old copy, the list of its  *)
(* sources being full, may be behind, until a job that projects it has its *)
(* row acknowledged again.                                                 *)
AppliedIsCurrent ==
    \A o \in Owners : status[o] = "applied" /\ ~kept[o] =>
        \A s \in Stores : /\ dur[s][o].at = rev[o]
                          /\ mem[s][o].at = rev[o]

(* An acknowledged owner that holds Atoms can be found in the graph, and in *)
(* the vector store unless the commit that acknowledged it kept the old    *)
(* copy; a reader of the running process sees it too.                      *)
AppliedIsVisible ==
    \A o \in Owners : status[o] = "applied" /\ atoms[o] =>
        \A s \in Stores : s = "graph" \/ ~kept[o] => dur[s][o].live /\ mem[s][o].live

(* Once SQLite has dropped an owner and nothing is outstanding for it, no  *)
(* store still shows it.                                                   *)
NoGhostProjection ==
    \A o \in Owners : ~live[o] /\ ~Outstanding(o) =>
        \A s \in Stores : ~dur[s][o].live

(* The durable copy of an owner never goes back to an older state, across  *)
(* the restarts of the process included.                                   *)
NoStaleOverwrite ==
    [][\A s \in Stores : \A o \in Owners : dur'[s][o].at >= dur[s][o].at]_vars

(* An owner that holds Atoms has a registry row to be projected from.      *)
AtomsRegistered == \A o \in Owners : atoms[o] => live[o]

(* Every change of an owner is acknowledged in the end, whatever failed    *)
(* meanwhile: the worker retries the failed rows.                          *)
EventuallyApplied ==
    \A o \in Owners : Outstanding(o) ~> status[o] = "applied"

(* The outbox implements the abstract replica.                             *)
Replica == INSTANCE DurableReplica WITH
    Items <- Owners, Replicas <- Stores,
    version <- rev,
    shown <- [s \in Stores |-> [o \in Owners |-> dur[s][o].at]],
    settled <- [o \in Owners |-> status[o] = "applied" /\ ~kept[o]]

(* Whatever the jobs, batches, failures and restarts, an owner is settled  *)
(* only while both stores durably show its latest revision.  An            *)
(* acknowledgement settles it, but for that of a commit that kept the old  *)
(* copy.                                                                   *)
ImplementsReplica == Replica!Spec

-----------------------------------------------------------------------------
(* The inductive invariant of one process: why an acknowledgement is safe. *)

Seen(s, o) == mem[s][o].at
Flushed(s, o) == dur[s][o].at

(* No copy and no reading is ahead of SQLite; a store never has on disk    *)
(* what its readers do not see.                                            *)
CopiesBehind ==
    /\ \A s \in Stores : \A o \in Owners :
            Flushed(s, o) <= Seen(s, o) /\ Seen(s, o) <= rev[o]
    /\ \A p \in Procs : \A o \in Owners :
            view[p][o].at <= rev[o] /\ listed[p][o].rev <= rev[o]

(* What each step of a job leaves empty, and the owner it works on.        *)
JobShape ==
    \A p \in Procs :
        /\ step[p] \in {"free", "register", "store", "list"} =>
                listed[p] = [o \in Owners |-> NotListed]
        /\ step[p] \in {"ends", "graph", "vdb"} => cur[p] \in todo[p]
        /\ step[p] = "ends" \/ end[p] # None => cur[p] \in Relations
        /\ step[p] \notin {"graph", "vdb"} => end[p] = None
        /\ step[p] \in {"register", "store", "describe"} => kind[p] = "commit"
        /\ step[p] = "list" => kind[p] \in {"commit", "delete"}
        /\ step[p] \in {"ends", "failing"} \/ end[p] # None => kind[p] # "commit"
        /\ step[p] # "failing" => bad[p] = {}
        /\ step[p] = "free" \/ kind[p] # "commit" => skips[p] = {}
        /\ step[p] \in {"free", "store", "list", "describe"} => done[p] = {}
        /\ step[p] \in {"flushGraph", "flushEntities", "flushRelations", "ack"} =>
                todo[p] = {}

(* The reading about to be written is at least as new as the listed row    *)
(* and as what the stores hold.                                            *)
ReadingFresh ==
    \A p \in Procs :
        /\ kind[p] = "commit" /\ step[p] \in {"project", "graph", "vdb"} =>
            \A o \in todo[p] :
                /\ view[p][o].live
                /\ listed[p][o].rev <= view[p][o].at
                /\ \A s \in Stores : Seen(s, o) <= view[p][o].at
        /\ step[p] \in {"ends", "graph", "vdb"} =>
                /\ listed[p][cur[p]].rev <= view[p][cur[p]].at
                /\ \A s \in Stores : Seen(s, cur[p]) <= view[p][cur[p]].at
        /\ step[p] = "ends" \/ end[p] # None => view[p][cur[p]].live
        /\ step[p] \in {"graph", "vdb"} /\ end[p] # None =>
                /\ view[p][end[p]].live
                /\ \A s \in Stores : Seen(s, end[p]) <= view[p][end[p]].at
        /\ step[p] = "vdb" /\ end[p] = None /\ view[p][cur[p]].live =>
                Seen("graph", cur[p]) = view[p][cur[p]].at
        /\ step[p] = "graph" /\ end[p] = None /\ ~view[p][cur[p]].live =>
                Seen("vdb", cur[p]) = view[p][cur[p]].at

(* What a job calls done, and did not skip, is in the stores, at the       *)
(* listed revision or a later one; on disk, once its store was flushed.    *)
DoneProjected ==
    \A p \in Procs : \A o \in done[p] \ skips[p] :
        /\ \A s \in Stores : listed[p][o].rev <= Seen(s, o)
        /\ step[p] \in {"flushEntities", "flushRelations", "ack"} =>
                listed[p][o].rev <= Flushed("graph", o)
        /\ step[p] = "ack" \/ (step[p] = "flushRelations" /\ o \in Entities) =>
                listed[p][o].rev <= Flushed("vdb", o)

(* The owners a job may report as failed are not acknowledged at the       *)
(* revision it listed.                                                     *)
NotYetApplied ==
    \A p \in Procs :
        kind[p] # "commit" /\ step[p] \notin {"free", "list"} =>
            \A o \in todo[p] \cup done[p] \cup bad[p] :
                listed[p][o].rev = rev[o] => status[o] # "applied"

(* One process never has an outbox row it cannot locate: what is queued is *)
(* registered, or was when its row was first written.                      *)
Registered ==
    /\ AtomsRegistered
    /\ \A r \in Relations : live[r] => \A e \in Ends[r] : live[e]
    /\ \A o \in Owners : rev[o] > 0 => loc[o]
    /\ \A p \in Procs :
        /\ \A o \in Owners : listed[p][o].rev > 0 => listed[p][o].loc
        /\ mode[p] = "down" => step[p] = "free"
        /\ step[p] \in {"register", "store"} => puts[p] \subseteq todo[p]
        /\ step[p] = "register" =>
                /\ \A o \in done[p] : live[o]
                /\ \A r \in todo[p] \cap Relations : Ends[r] \subseteq todo[p]
        /\ step[p] = "store" => \A o \in todo[p] : live[o]

OutboxInvariant ==
    /\ TypeOK /\ JobShape
    /\ Registered
    /\ CopiesBehind
    /\ ReadingFresh
    /\ DoneProjected
    /\ NotYetApplied
    /\ AppliedIsCurrent
-----------------------------------------------------------------------------
(* One process: why an acknowledged owner can be found.                    *)

(* A row that was queued has a revision, and a job that is not a commit    *)
(* works only on rows it listed.                                           *)
RowsNumbered ==
    /\ \A o \in Owners : status[o] # "none" => rev[o] > 0
    /\ \A p \in Procs :
        kind[p] # "commit" /\ step[p] \notin {"free", "list"} =>
            \A o \in todo[p] \cup done[p] \cup bad[p] : listed[p][o].rev > 0

(* Once its owners are registered, a commit loses none of them, and it     *)
(* holds the endpoints of its relations.                                   *)
CommitCovers ==
    \A p \in Procs :
        kind[p] = "commit" /\ step[p] \notin {"free", "register"} =>
            /\ \A o \in todo[p] \cup done[p] : live[o]
            /\ \A r \in todo[p] \cap Relations : Ends[r] \subseteq todo[p] \cup done[p]

(* What a job has read of an owner's registry row holds while it writes.   *)
ReadHolds ==
    \A p \in Procs :
        step[p] \in {"ends", "graph", "vdb"} =>
            /\ view[p][cur[p]].live = live[cur[p]]
            /\ end[p] # None => live[end[p]]

(* Half way through an owner: the endpoints of an edge about to be written *)
(* are in the graph, and the first store shows what was read.              *)
HalfShown ==
    \A p \in Procs : end[p] = None =>
        /\ step[p] = "graph" /\ view[p][cur[p]].live /\ cur[p] \in Relations =>
                \A e \in Ends[cur[p]] : mem["graph"][e].live
        /\ step[p] = "graph" /\ ~view[p][cur[p]].live => ~mem["vdb"][cur[p]].live
        /\ step[p] = "vdb" /\ view[p][cur[p]].live => mem["graph"][cur[p]].live

(* A merge that was skipped looked at the graph only.                      *)
Answered(p, s, o) == s = "graph" \/ o \notin skips[p]

(* The stores show an owner that is done exactly when it is registered, as *)
(* far as the job answers for them.                                        *)
DoneShown ==
    \A p \in Procs : step[p] # "register" =>
        \A o \in done[p] :
            /\ \A s \in Stores : Answered(p, s, o) => mem[s][o].live = live[o]
            /\ step[p] \in {"flushEntities", "flushRelations", "ack"} =>
                    dur["graph"][o].live = live[o]
            /\ Answered(p, "vdb", o)
               /\ (step[p] = "ack" \/ (step[p] = "flushRelations" /\ o \in Entities)) =>
                    dur["vdb"][o].live = live[o]

VisibleInvariant ==
    /\ RowsNumbered
    /\ CommitCovers
    /\ ReadHolds
    /\ HalfShown
    /\ DoneShown
    /\ AppliedIsVisible

-----------------------------------------------------------------------------
(* One process: why nothing the memory has dropped stays in a store.       *)

(* The owners the startup repair keeps.                                    *)
Needed(o) ==
    /\ live[o]
    /\ \/ atoms[o]
       \/ /\ o \in Entities
          /\ \E r \in Relations : live[r] /\ atoms[r] /\ o \in Ends[r]

Hidden(o) == \A s \in Stores : ~mem[s][o].live /\ ~dur[s][o].live

(* A store shows nothing the repair would drop, unless a row will remove   *)
(* it.                                                                     *)
Strayless == \A o \in Owners : ~Needed(o) /\ ~Outstanding(o) => Hidden(o)

(* A running process has registered nothing the repair would drop, but for *)
(* the owners of a commit that is still storing its Atoms.                 *)
Needful ==
    \A p \in Procs :
        /\ mode[p] # "down" =>
            \A o \in Owners : live[o] /\ ~Needed(o) =>
                step[p] \in {"register", "store"} /\ o \in todo[p]
        /\ step[p] \in {"register", "store"} =>
            \A o \in todo[p] :
                \/ atoms[o] \/ o \in puts[p]
                \/ /\ o \in Entities
                   /\ \E r \in todo[p] \cap Relations : o \in Ends[r]

(* Nothing is registered before the process serves.                        *)
NobodyBeforeServing ==
    \A p \in Procs : mode[p] # "up" => \A o \in Owners : ~live[o]

Ghostless == \A o \in Owners : ~live[o] /\ ~Outstanding(o) => Hidden(o)

GhostInvariant ==
    /\ \A p \in Procs : kind[p] # "reconcile" => mode[p] = "up"
    /\ faults["abort"] = 0 => Strayless /\ Needful
    /\ faults["crash"] = 0 => Ghostless /\ NobodyBeforeServing
=============================================================================
