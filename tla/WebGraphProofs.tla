--------------------------- MODULE WebGraphProofs ---------------------------
(***************************************************************************)
(* One layout at a time moves the nodes of the graph view, whatever the    *)
(* graph, the names and the bounds are.  The layouts see of the view only  *)
(* that its graph is replaced or cleared, so the property is proved of     *)
(* GraphLayouts alone, and the view is shown to be one of its behaviours.  *)
(* Then the view itself: what the user asked for last is what was fetched  *)
(* last, the counts are those of the graph that is shown, and every        *)
(* variable has its type.                                                  *)
(***************************************************************************)
EXTENDS WebGraph, FiniteSetTheorems, TLAPS

LayoutInvariant == LayoutTypeOK /\ SingleOwner

(* At the start nothing is drawn, nothing moves and nobody has the slot.   *)
LEMMA LayoutStarts == LayoutInit => LayoutInvariant
  BY LayoutsAssumption DEF LayoutInit, LayoutInvariant, LayoutTypeOK, SingleOwner, Moving

(* setActiveLayoutSupervisor kills the former owner, and with a next that  *)
(* moves leaves exactly that one moving.                                   *)
LEMMA OwnerIsAlone ==
    ASSUME LayoutInvariant,
           NEW i, NEW w, NEW next \in {"initial", "worker"},
           next = "initial" => i = "runs" /\ w = worker,
           next = "worker" => i = initial /\ w = "armed",
           Own(next, i, w)
    PROVE  /\ SingleOwner'
           /\ slot' = next
           /\ initial' \in {"none", "runs", "killed", "settled"}
           /\ worker' \in {"none", "armed", "runs", "killed", "stopped"}
  <1>1. CASE next = "initial"
    BY <1>1, LayoutsAssumption
    DEF LayoutInvariant, LayoutTypeOK, SingleOwner, Own, Killed, Moving
  <1>2. CASE next = "worker"
    BY <1>2, LayoutsAssumption
    DEF LayoutInvariant, LayoutTypeOK, SingleOwner, Own, Killed, Moving
  <1> QED
    BY <1>1, <1>2

(* start() of WorkerLayoutControl, with a graph or without one.            *)
LEMMA StartKeeps ==
    ASSUME LayoutInvariant, Start, drawn' \in BOOLEAN, mode' \in {"sync", "worker"}
    PROVE  LayoutInvariant'
  <1>1. CASE drawn
    <2>1. Own("worker", initial, "armed") /\ playing' = TRUE
      BY <1>1 DEF Start
    <2> QED
      BY <2>1, OwnerIsAlone DEF LayoutInvariant, LayoutTypeOK
  <1>2. CASE ~drawn
    BY <1>2, LayoutsAssumption
    DEF Start, LayoutInvariant, LayoutTypeOK, SingleOwner, Moving
  <1> QED
    BY <1>1, <1>2

(* stop() leaves the slot to whoever else has it.                          *)
LEMMA StopKeeps ==
    ASSUME LayoutInvariant, Stop
    PROVE  LayoutInvariant'
  BY LayoutsAssumption DEF Stop, LayoutInvariant, LayoutTypeOK, SingleOwner, Moving

LEMMA LayoutSteps ==
    ASSUME LayoutInvariant, [LayoutNext]_layoutVars
    PROVE  LayoutInvariant'
  <1>1. CASE Rebuilt
    <2>1. Own("initial", "runs", worker) /\ UNCHANGED <<drawn, mode, playing>>
      BY <1>1 DEF Rebuilt
    <2> QED
      BY <2>1, OwnerIsAlone DEF LayoutInvariant, LayoutTypeOK
  <1>2. CASE InitialSettles
    BY <1>2, LayoutsAssumption
    DEF InitialSettles, LayoutInvariant, LayoutTypeOK, SingleOwner, Moving
  <1>3. CASE ChooseWorker
    BY <1>3, StartKeeps DEF ChooseWorker, LayoutInvariant, LayoutTypeOK
  <1>4. CASE ChooseSync
    BY <1>4, LayoutsAssumption
    DEF ChooseSync, LayoutInvariant, LayoutTypeOK, SingleOwner, Moving
  <1>5. CASE Play
    BY <1>5, StartKeeps DEF Play, LayoutInvariant, LayoutTypeOK
  <1>6. CASE Pause
    BY <1>6, StopKeeps DEF Pause
  <1>7. CASE WorkerStarts
    BY <1>7 DEF WorkerStarts, LayoutInvariant, LayoutTypeOK, SingleOwner, Moving
  <1>8. CASE WorkerDead
    BY <1>8, StopKeeps DEF WorkerDead
  <1>9. CASE WorkerEnds
    BY <1>9, StopKeeps DEF WorkerEnds
  <1>10. ASSUME NEW exists \in BOOLEAN, GraphReplaced(exists)
         PROVE  LayoutInvariant'
    BY <1>10, LayoutsAssumption
    DEF GraphReplaced, LayoutInvariant, LayoutTypeOK, SingleOwner, Moving
  <1>11. CASE UNCHANGED layoutVars
    BY <1>11 DEF layoutVars, LayoutInvariant, LayoutTypeOK, SingleOwner
  <1> QED
    BY <1>1, <1>2, <1>3, <1>4, <1>5, <1>6, <1>7, <1>8, <1>9, <1>10, <1>11
    DEF LayoutNext, LayoutStep

(* Of the layouts alone: a layout moves the nodes exactly while it has the *)
(* slot of stores/graph.ts, and one at a time has it.                      *)
THEOREM LayoutsHaveOneOwner == LayoutSpec => []SingleOwner
  <1>1. LayoutInvariant => SingleOwner
    BY DEF LayoutInvariant
  <1> QED
    BY <1>1, LayoutStarts, LayoutSteps, PTL DEF LayoutSpec

(* What the view does to the layouts is what they allow: a graph that is   *)
(* fetched, emptied or dropped replaces the one that is drawn.             *)
LEMMA ViewMovesLayouts ==
    ASSUME [Next]_vars
    PROVE  [LayoutNext]_layoutVars
  <1>1. CASE GraphStep /\ Follow
    <2>1. CASE (view.graph = None) = (view'.graph = None)
      BY <1>1, <2>1 DEF Follow
    <2>2. CASE ~((view.graph = None) = (view'.graph = None))
      <3>1. GraphReplaced(view'.graph # None)
        BY <1>1, <2>2 DEF Follow
      <3>2. (view'.graph # None) \in BOOLEAN
        OBVIOUS
      <3> QED
        BY <3>1, <3>2 DEF LayoutNext
    <2> QED
      BY <2>1, <2>2
  <1>2. CASE LayoutStep /\ UNCHANGED graphVars
    BY <1>2 DEF LayoutNext
  <1>3. CASE UNCHANGED vars
    BY <1>3 DEF vars
  <1> QED
    BY <1>1, <1>2, <1>3 DEF Next

(* The graph view implements the layouts.                                  *)
THEOREM ViewImplementsLayouts == Spec => LayoutSpec
  <1>1. Init => LayoutInit
    BY DEF Init
  <1> QED
    BY <1>1, ViewMovesLayouts, PTL DEF Spec, LayoutSpec

(* Whatever is fetched, expanded, edited, rebuilt or chosen in the graph   *)
(* view, one layout at a time moves its nodes.                             *)
THEOREM ViewHasOneOwner == Spec => []SingleOwner
  BY LayoutsHaveOneOwner, ViewImplementsLayouts, PTL
-----------------------------------------------------------------------------
(* What is fetched, and what is counted.                                   *)

Kept(v) ==
    /\ v = [graph |-> v.graph, counts |-> v.counts, selected |-> v.selected]
    /\ v.graph \in Drawings \cup {None}
    /\ v.selected # None => v.graph # None

Counted(v) == v.counts = IF v.graph = None THEN NoCounts ELSE Size(v.graph)

Hooks ==
    [attempted : BOOLEAN, fetch : Fetches \cup {None}, signature : AllQueries \cup {None},
     stamped : BOOLEAN, tries : [query : AllQueries \cup {None}, attempts : Nat],
     timer : BOOLEAN, emptied : BOOLEAN, mounted : BOOLEAN, placed : BOOLEAN,
     strays : Nat, lost : BOOLEAN]

Expansions(es, v) ==
    \A e \in es :
        /\ e = [id |-> e.id, node |-> e.node, on |-> e.on]
        /\ e.on \in Drawings \cup {None}
        /\ e.on = None => v.graph # None

(* A request or a signature that answers what is asked since refresh d.    *)
Answers(r, q, d) == r.depth = q.depth /\ r.version >= d

(* What is asked is being fetched, will be tried again, lost its retry to  *)
(* a hidden panel, or was the last thing fetched.                          *)
Closed(q, h, d) ==
    IF h.fetch # None THEN Answers(h.fetch.query, q, d)
    ELSE h.timer \/ h.lost \/ (h.signature # None /\ Answers(h.signature, q, d))

(* So it is behind a closed gate, and wherever a panel that is shown rests *)
(* with a label.                                                           *)
Gated(q, h, d) ==
    h.attempted \/ (h.mounted /\ h.fetch = None /\ q.label # NoLabel) => Closed(q, h, d)

GraphInvariant ==
    /\ query \in AllQueries /\ due \in Nat /\ due <= query.version
    /\ restores \in Seq(Names \cup {Star, NoLabel})
    /\ Kept(view) /\ (~late => Counted(view))
    /\ hook \in Hooks
    /\ Gated(query, hook, due)
    /\ Expansions(expands, view)
    /\ edit = None \/ (/\ edit = [from |-> edit.from, to |-> edit.to, phase |-> edit.phase]
                       /\ edit.phase = "merged" => edit.to \in Names)
    /\ server \in Drawings
    /\ late \in BOOLEAN

(* What the relations become when an entity is renamed, and how many there *)
(* are, when nothing had the new name.                                     *)
LEMMA RenamedSize ==
    ASSUME NEW g \in Drawings, NEW a \in g.nodes, NEW b \in Names \ g.nodes
    PROVE  Renamed(g, a, b) \in Drawings /\ Size(Renamed(g, a, b)) = Size(g)
  <1> DEFINE move(n) == IF n = a THEN b ELSE n
             back(n) == IF n = b THEN a ELSE n
             nodes == {move(n) : n \in g.nodes}
             image(t) == {move(n) : n \in t}
             ties == {image(t) : t \in g.ties}
  <1>1. g.nodes \subseteq Names /\ g.ties \subseteq SUBSET g.nodes
    BY DEF Drawings
  <1>2. IsFiniteSet(g.nodes) /\ IsFiniteSet(nodes)
    <2>1. IsFiniteSet(g.nodes)
      BY <1>1, FS_Subset, GraphAssumption
    <2>2. IsFiniteSet(Names \cup {b})
      BY FS_AddElement, GraphAssumption
    <2>3. nodes \subseteq Names
      BY <1>1
    <2> QED
      BY <2>1, <2>3, FS_Subset, GraphAssumption
  <1>3. Cardinality(nodes) = Cardinality(g.nodes)
    <2> DEFINE f == [n \in g.nodes |-> move(n)]
    <2>1. f \in Bijection(g.nodes, nodes)
      <3>1. f \in [g.nodes -> nodes]
        OBVIOUS
      <3>2. \A m, n \in g.nodes : f[m] = f[n] => m = n
        OBVIOUS
      <3>3. \A m \in nodes : \E n \in g.nodes : f[n] = m
        OBVIOUS
      <3> QED
        BY <3>1, <3>2, <3>3 DEF Bijection, Injection, Surjection, IsInjective
    <2> QED
      BY <2>1, <1>2, FS_Bijection DEF ExistsBijection
  <1>4. \A s, t \in g.ties : image(s) = image(t) => s = t
    <2> SUFFICES ASSUME NEW s \in g.ties, NEW t \in g.ties, image(s) = image(t)
                 PROVE  s = t
      OBVIOUS
    <2>1. s \subseteq g.nodes /\ t \subseteq g.nodes
      BY <1>1
    <2>2. \A m \in s : \E k \in t : move(m) = move(k)
      <3> TAKE m \in s
      <3>1. move(m) \in image(s)
        OBVIOUS
      <3> QED
        BY <3>1
    <2>3. \A m \in t : \E k \in s : move(m) = move(k)
      <3> TAKE m \in t
      <3>1. move(m) \in image(t)
        OBVIOUS
      <3> QED
        BY <3>1
    <2>4. \A m, k \in g.nodes : move(m) = move(k) => m = k
      OBVIOUS
    <2> HIDE DEF move, image
    <2>5. \A n \in s : n \in t
      BY <2>1, <2>2, <2>4
    <2>6. \A n \in t : n \in s
      BY <2>1, <2>3, <2>4
    <2> QED
      BY <2>5, <2>6
  <1>5. Cardinality(ties) = Cardinality(g.ties)
    <2> DEFINE f == [t \in g.ties |-> image(t)]
    <2> HIDE DEF image
    <2>1. f \in Bijection(g.ties, ties)
      <3>1. f \in [g.ties -> ties]
        OBVIOUS
      <3>2. \A s, t \in g.ties : f[s] = f[t] => s = t
        BY <1>4
      <3>3. \A s \in ties : \E t \in g.ties : f[t] = s
        OBVIOUS
      <3> QED
        BY <3>1, <3>2, <3>3 DEF Bijection, Injection, Surjection, IsInjective
    <2>2. IsFiniteSet(g.ties)
      <3>1. IsFiniteSet(SUBSET g.nodes)
        BY <1>2, FS_SUBSET
      <3> QED
        BY <3>1, <1>1, FS_Subset
    <2> QED
      BY <2>1, <2>2, FS_Bijection DEF ExistsBijection
  <1>6. Renamed(g, a, b) = [nodes |-> nodes, ties |-> ties]
    BY DEF Renamed
  <1>7. nodes \subseteq Names /\ ties \subseteq SUBSET nodes
    BY <1>1
  <1>8. Renamed(g, a, b) \in Drawings
    <2>1. ties \in SUBSET SUBSET Names
      BY <1>7
    <2> HIDE DEF nodes, ties
    <2> QED
      BY <1>6, <1>7, <2>1 DEF Drawings
  <1> HIDE DEF nodes, ties
  <1> QED
    BY <1>3, <1>5, <1>6, <1>8 DEF Size
(* The graphs that the server and the view compute are graphs.             *)
LEMMA Shapes ==
    ASSUME NEW g \in Drawings
    PROVE  /\ \A ns \in SUBSET Names : \A ts : Graph(ns, ts) \in Drawings
           /\ \A n : Near(g, n) \subseteq g.nodes
           /\ \A a, b \in Names : Renamed(g, a, b) \in Drawings
           /\ \A a, b \in Names : Merged(g, a, b) \in Drawings
  <1>1. g.nodes \subseteq Names /\ g.ties \subseteq SUBSET g.nodes
    BY DEF Drawings
  <1>2. ASSUME NEW ns \in SUBSET Names, NEW ts
        PROVE  Graph(ns, ts) \in Drawings
    BY DEF Graph, Drawings
  <1>3. ASSUME NEW n
        PROVE  Near(g, n) \subseteq g.nodes
    BY <1>1 DEF Near
  <1>4. ASSUME NEW a \in Names, NEW b \in Names
        PROVE  Renamed(g, a, b) \in Drawings /\ Merged(g, a, b) \in Drawings
    <2> DEFINE move(n) == IF n = a THEN b ELSE n
               nodes == {move(n) : n \in g.nodes}
               ties == {{move(n) : n \in t} : t \in g.ties}
    <2>1. nodes \subseteq Names /\ ties \subseteq SUBSET nodes
      BY <1>1
    <2>2. Renamed(g, a, b) = [nodes |-> nodes, ties |-> ties]
      BY DEF Renamed
    <2>3. ties \in SUBSET SUBSET Names
      BY <2>1
    <2> HIDE DEF nodes, ties
    <2>4. Renamed(g, a, b) \in Drawings
      BY <2>1, <2>2, <2>3 DEF Drawings
    <2>5. Merged(g, a, b) = [nodes |-> nodes, ties |-> {t \in ties : Cardinality(t) = 2}]
      BY <2>2 DEF Merged
    <2> QED
      BY <2>1, <2>3, <2>4, <2>5 DEF Drawings
  <1> QED
    BY <1>2, <1>3, <1>4

LEMMA GrownShape ==
    ASSUME NEW g \in Drawings, NEW n, server \in Drawings
    PROVE  Grown(g, n) \in Drawings
  <1> DEFINE new == IF n \in server.nodes THEN Near(server, n) \ g.nodes ELSE {}
             all == g.nodes \cup new
             more == {t \in server.ties : t \subseteq all}
  <1>1. all \subseteq Names
    BY Shapes DEF Drawings
  <1>2. g.ties \subseteq SUBSET g.nodes /\ g.nodes \subseteq all
    BY DEF Drawings
  <1>3. Grown(g, n) = g \/ Grown(g, n) = [nodes |-> all, ties |-> g.ties \cup more]
    BY DEF Grown
  <1> HIDE DEF all
  <1>4. g.ties \cup more \subseteq SUBSET all
    BY <1>2
  <1>5. g.ties \cup more \in SUBSET SUBSET Names
    BY <1>1, <1>4
  <1> HIDE DEF more
  <1> QED
    BY <1>1, <1>3, <1>4, <1>5 DEF Drawings

(* What the label finds is a graph, or nothing.                            *)
LEMMA FoundShape ==
    ASSUME NEW q \in AllQueries, server \in Drawings
    PROVE  Found(q) \in Drawings
  <1>1. server.nodes \subseteq Names
    BY DEF Drawings
  <1>2. Near(server, q.label) \subseteq Names
    BY <1>1, Shapes
  <1>3. CASE q.label \in server.nodes /\ q.label # Star
    <2>1. {q.label} \cup Near(server, q.label) \in SUBSET Names
      BY <1>1, <1>2, <1>3
    <2> QED
      BY <2>1, <1>3, Shapes DEF Found
  <1>4. CASE ~(q.label \in server.nodes) \/ q.label = Star
    BY <1>4, Shapes DEF Found
  <1> QED
    BY <1>3, <1>4

(* A view that drops its graph leaves it to the expansions that started on *)
(* it.                                                                     *)
LEMMA ExpansionsFollow ==
    ASSUME Expansions(expands, view), Kept(view), Kept(view'),
           expands' = IF view'.graph = None THEN Detached ELSE expands
    PROVE  Expansions(expands', view')
  <1>1. CASE view'.graph = None
    <2>1. expands' = {IF e.on = None THEN [e EXCEPT !.on = view.graph] ELSE e : e \in expands}
      BY <1>1 DEF Detached
    <2> SUFFICES ASSUME NEW e \in expands
                 PROVE  LET f == IF e.on = None THEN [e EXCEPT !.on = view.graph] ELSE e
                        IN  /\ f = [id |-> f.id, node |-> f.node, on |-> f.on]
                            /\ f.on \in Drawings /\ f.on # None
      BY <2>1 DEF Expansions
    <2>2. None \notin Drawings
      BY GraphAssumption
    <2>3. e = [id |-> e.id, node |-> e.node, on |-> e.on] /\ e.on \in Drawings \cup {None}
      BY DEF Expansions
    <2>4. CASE e.on = None
      <3>1. view.graph \in Drawings
        BY <2>4 DEF Expansions, Kept
      <3>2. [e EXCEPT !.on = view.graph] = [id |-> e.id, node |-> e.node, on |-> view.graph]
        BY <2>3
      <3> QED
        BY <2>2, <2>4, <3>1, <3>2
    <2>5. CASE e.on # None
      BY <2>2, <2>3, <2>5
    <2> QED
      BY <2>4, <2>5
  <1>2. CASE view'.graph # None
    BY <1>2 DEF Expansions
  <1> QED
    BY <1>1, <1>2

LEMMA NoneApart ==
    /\ None \notin Drawings /\ None \notin AllQueries /\ None \notin Fetches
    /\ NoLabel # Star /\ NoLabel \notin Names
  BY GraphAssumption

(* One render of useLightragGraph: whatever it does with the query, the    *)
(* view is kept, cleared or deselected, and the gate is in order after it. *)
LEMMA RenderKeeps ==
    ASSUME NEW q \in AllQueries, NEW v, Kept(v), NEW h \in Hooks, Rendered(q, v, h),
           NEW d \in Nat, d <= q.version,
           h.attempted => Closed(q, h, d)
    PROVE  /\ view' \in {v, Cleared, [v EXCEPT !.selected = None]}
           /\ hook' \in Hooks
           /\ Gated(q, hook', d)
  <1> DEFINE blank == q.label = NoLabel /\ (v.graph # None \/ h.placed)
             w == IF blank THEN Cleared ELSE v
             k == IF blank THEN [h EXCEPT !.attempted = FALSE, !.placed = FALSE] ELSE h
             closed == k.fetch # None \/ k.attempted \/ (q.label = NoLabel /\ k.emptied)
             known == k.stamped /\ k.signature = q
  <1>2. \/ closed /\ view' = w /\ hook' = k
        \/ /\ ~closed /\ known
           /\ view' = w /\ hook' = [k EXCEPT !.attempted = TRUE]
        \/ /\ ~closed /\ ~known /\ q.label = NoLabel
           /\ view' = Cleared /\ hook' = Emptied(q, k)
        \/ /\ ~closed /\ ~known /\ q.label # NoLabel
           /\ view' = [w EXCEPT !.selected = None] /\ hook' = Fetching(q, k)
    BY DEF Rendered
  <1>5. [Cleared EXCEPT !.selected = None] = Cleared
    BY DEF Cleared
  <1>6. view' \in {v, Cleared, [v EXCEPT !.selected = None]}
    BY <1>2, <1>5
  <1>9. /\ k \in Hooks
        /\ k.fetch = h.fetch /\ k.timer = h.timer /\ k.signature = h.signature
        /\ k.lost = h.lost
        /\ k.attempted => h.attempted
    BY DEF Hooks
  <1>10. k.attempted => Closed(q, k, d)
    BY <1>9 DEF Closed
  <1> HIDE DEF k, blank, w
  <1>11. ASSUME closed /\ hook' = k
        PROVE  hook' \in Hooks /\ Gated(q, hook', d)
    <2>1. ~k.attempted /\ k.fetch = None => q.label = NoLabel
      BY <1>11
    <2>2. Gated(q, k, d)
      BY <1>10, <2>1, Zenon DEF Gated
    <2> QED
      BY <1>9, <1>11, <2>2
  <1>12. ASSUME ~closed /\ known /\ hook' = [k EXCEPT !.attempted = TRUE]
        PROVE  hook' \in Hooks /\ Gated(q, hook', d)
    <2>1. /\ hook' \in Hooks /\ hook'.fetch = None /\ hook'.signature = q
      BY <1>9, <1>12 DEF Hooks
    <2>2. q.depth = q.depth /\ q.version >= d /\ q # None
      BY NoneApart DEF AllQueries
    <2>3. Closed(q, hook', d)
      BY <2>1, <2>2 DEF Closed, Answers
    <2> QED
      BY <2>1, <2>3 DEF Gated
  <1>13. ASSUME ~closed /\ q.label = NoLabel /\ hook' = Emptied(q, k)
        PROVE  hook' \in Hooks /\ Gated(q, hook', d)
    <2>1. hook' \in Hooks /\ hook'.attempted = FALSE
      BY <1>9, <1>13 DEF Hooks, Emptied, Unasked
    <2> QED
      BY <1>13, <2>1 DEF Gated
  <1>14. ASSUME hook' = Fetching(q, k)
        PROVE  hook' \in Hooks /\ Gated(q, hook', d)
    <2> DEFINE r == [query |-> q, graph |-> None, tries |-> Retries(q, k), own |-> TRUE]
    <2>1. r \in Fetches /\ r.query = q
      <3>1. Retries(q, k) \in Nat
        BY <1>9 DEF Retries, Hooks
      <3> QED
        BY <3>1 DEF Fetches
    <2>2. hook' = [k EXCEPT !.attempted = TRUE, !.timer = FALSE, !.lost = FALSE, !.fetch = r]
      BY <1>14 DEF Fetching
    <2> HIDE DEF r
    <2>3. hook' \in Hooks /\ hook'.fetch = r
      BY <1>9, <2>1, <2>2 DEF Hooks
    <2>4. hook'.fetch # None /\ hook'.fetch.query = q
      BY <2>1, <2>3, NoneApart
    <2>5. q.version >= d
      BY DEF AllQueries
    <2>6. Closed(q, hook', d)
      BY <2>4, <2>5 DEF Closed, Answers
    <2> QED
      BY <2>3, <2>6 DEF Gated
  <1>15. hook' \in Hooks /\ Gated(q, hook', d)
    BY <1>2, <1>11, <1>12, <1>13, <1>14
  <1> QED
    BY <1>6, <1>15

(* The same of a step that may render nothing: the panel is hidden, or     *)
(* nothing that the effects depend on has changed.                         *)
LEMMA EffectsKeep ==
    ASSUME NEW q \in AllQueries, NEW v, Kept(v), NEW h \in Hooks, Effects(q, v, h),
           NEW d \in Nat, d <= q.version,
           h.attempted => Closed(q, h, d),
           Gated(query, hook, d) \/ q # query,
           Kept(view), Expansions(expands, view)
    PROVE  /\ query' = q
           /\ view' \in {v, Cleared, [v EXCEPT !.selected = None]}
           /\ Kept(view') /\ (Counted(v) => Counted(view'))
           /\ hook' \in Hooks
           /\ Gated(q, hook', d)
           /\ Expansions(expands', view')
  <1>1. /\ query' = q
        /\ expands' = IF view'.graph = None THEN Detached ELSE expands
    BY DEF Effects
  <1>2. Kept(Cleared) /\ Counted(Cleared)
    BY DEF Kept, Counted, Cleared
  <1>3. [v EXCEPT !.selected = None] = [graph |-> v.graph, counts |-> v.counts, selected |-> None]
    BY DEF Kept
  <1>4. /\ view' \in {v, Cleared, [v EXCEPT !.selected = None]}
        /\ hook' \in Hooks
        /\ Gated(q, hook', d)
    <2>1. CASE h.mounted /\ (q # query \/ h # hook)
      BY <2>1, RenderKeeps DEF Effects
    <2>2. CASE ~(h.mounted /\ (q # query \/ h # hook))
      <3>1. view' = v /\ hook' = h
        BY <2>2 DEF Effects
      <3>2. CASE ~h.mounted
        BY <3>1, <3>2 DEF Gated
      <3>3. CASE q = query /\ h = hook
        BY <3>1, <3>3
      <3> QED
        BY <2>2, <3>1, <3>2, <3>3
    <2> QED
      BY <2>1, <2>2
  <1>5. Kept(view') /\ (Counted(v) => Counted(view'))
    BY <1>2, <1>3, <1>4 DEF Kept, Counted
  <1>6. Expansions(expands', view')
    BY <1>1, <1>5, ExpansionsFollow
  <1> QED
    BY <1>1, <1>4, <1>5, <1>6

LEMMA GraphStarts == Init => GraphInvariant
  <1> SUFFICES ASSUME Init
               PROVE  GraphInvariant
    OBVIOUS
  <1>1. Start0 \in AllQueries /\ Start0.version = 0 /\ Start0.depth = 1
    BY DEF Start0, AllQueries
  <1>2. query \in AllQueries /\ due \in Nat /\ due <= query.version /\ late \in BOOLEAN
    <2>1. query = Start0 /\ due = 0 /\ late = FALSE
      BY DEF Init
    <2>2. query \in AllQueries /\ due \in Nat /\ due <= query.version
      BY <1>1, <2>1
    <2> QED
      BY <2>1, <2>2
  <1>3. restores \in Seq(Names \cup {Star, NoLabel})
    BY DEF Init
  <1>4. Kept(view) /\ Counted(view)
    BY DEF Init, Kept, Counted, Cleared
  <1>5. hook \in Hooks /\ Gated(query, hook, due)
    <2> DEFINE r == [query |-> Start0, graph |-> None, tries |-> 0, own |-> TRUE]
    <2>1. r \in Fetches /\ r.query = Start0
      BY <1>1 DEF Fetches
    <2>2. hook \in Hooks /\ hook.attempted = TRUE /\ hook.fetch = r
      BY <2>1 DEF Init, Hooks, Unasked
    <2> HIDE DEF r
    <2>3. hook.fetch # None /\ hook.fetch.query = Start0
      BY <2>1, <2>2, NoneApart
    <2>4. Closed(query, hook, due)
      BY <1>1, <2>3 DEF Init, Closed, Answers
    <2> QED
      BY <2>2, <2>4 DEF Gated
  <1>6. Expansions(expands, view) /\ edit = None
    BY DEF Init, Expansions
  <1>7. server \in Drawings
    BY DEF Init, Graph, Drawings
  <1> QED
    BY <1>2, <1>3, <1>4, <1>5, <1>6, <1>7 DEF GraphInvariant

(* What the request in progress leaves behind when it ends.                *)
LEMMA RequestEnds ==
    ASSUME GraphInvariant, hook.fetch # None
    PROVE  /\ hook.fetch \in Fetches
           /\ hook.fetch.query \in AllQueries
           /\ Ended(hook) \in Hooks
           /\ Ended(hook).attempted => Closed(query, Ended(hook), due)
           /\ Failed(hook) \in Hooks
           /\ Failed(hook).attempted => Closed(query, Failed(hook), due)
  <1> DEFINE q == hook.fetch.query
             n == hook.fetch.tries
  <1>1. hook \in Hooks /\ hook.fetch \in Fetches /\ q \in AllQueries
    BY DEF GraphInvariant, Hooks, Fetches
  <1>2. hook.attempted => Answers(q, query, due)
    BY DEF GraphInvariant, Gated, Closed
  <1>3. n \in Nat /\ q # None /\ hook.fetch.own \in BOOLEAN
    BY <1>1, NoneApart DEF Fetches
  <1>4. /\ Ended(hook) \in Hooks
        /\ Ended(hook).fetch = None /\ Ended(hook).signature = q
        /\ Ended(hook).attempted = hook.attempted
    BY <1>1, <1>3 DEF Ended, Hooks, Unasked
  <1>5. Ended(hook).attempted => Closed(query, Ended(hook), due)
    BY <1>2, <1>3, <1>4 DEF Closed
  <1> HIDE DEF n
  <1>6. CASE n < MaxRetries /\ hook.fetch.own
    <2> DEFINE t == [query |-> q, attempts |-> n + 1]
    <2>0. t \in [query : AllQueries \cup {None}, attempts : Nat]
      BY <1>1, <1>3
    <2>1. Failed(hook) = [hook EXCEPT !.fetch = None, !.timer = TRUE,
                                      !.tries = t]
      BY <1>6 DEF Failed, n
    <2> HIDE DEF t
    <2>2. Failed(hook) \in Hooks /\ Failed(hook).fetch = None /\ Failed(hook).timer = TRUE
      BY <1>1, <2>0, <2>1 DEF Hooks
    <2>3. Closed(query, Failed(hook), due)
      BY <2>2 DEF Closed
    <2> QED
      BY <1>1, <1>4, <1>5, <2>2, <2>3
  <1>7. CASE n < MaxRetries /\ ~hook.fetch.own
    <2> DEFINE m == hook.strays + 1
    <2>0. m \in Nat
      BY <1>1 DEF Hooks
    <2>1. Failed(hook) = [hook EXCEPT !.fetch = None, !.strays = m, !.lost = TRUE]
      BY <1>7 DEF Failed, n
    <2> HIDE DEF m
    <2>2. Failed(hook) \in Hooks /\ Failed(hook).fetch = None /\ Failed(hook).lost = TRUE
      BY <1>1, <2>0, <2>1 DEF Hooks
    <2>3. Closed(query, Failed(hook), due)
      BY <2>2 DEF Closed
    <2> QED
      BY <1>1, <1>4, <1>5, <2>2, <2>3
  <1>8. CASE ~(n < MaxRetries)
    <2>1. Failed(hook) = [hook EXCEPT !.fetch = None, !.signature = q,
                                      !.stamped = hook.fetch.own]
      BY <1>8 DEF Failed, n
    <2>2. /\ Failed(hook) \in Hooks /\ Failed(hook).fetch = None
          /\ Failed(hook).signature = q /\ Failed(hook).attempted = hook.attempted
      BY <1>1, <1>3, <2>1 DEF Hooks
    <2>3. Failed(hook).attempted => Closed(query, Failed(hook), due)
      BY <1>2, <1>3, <2>2 DEF Closed
    <2> QED
      BY <1>1, <1>4, <1>5, <2>2, <2>3
  <1> QED
    BY <1>6, <1>7, <1>8

(* The steps of the fetch and of its retries.                              *)
LEMMA FetchKeeps ==
    ASSUME GraphInvariant, Fetch \/ RetryFires \/ StrayFires
    PROVE  GraphInvariant'
  <1> USE DEF GraphInvariant
  <1>1. CASE Arrives
    <2> DEFINE g == Found(hook.fetch.query)
    <2>1. hook.fetch \in Fetches /\ hook.fetch.query \in AllQueries
      BY <1>1, RequestEnds DEF Arrives
    <2>2. g \in Drawings
      BY <2>1, FoundShape
    <2> HIDE DEF g
    <2>3. /\ hook' = [hook EXCEPT !.fetch.graph = g, !.placed = FALSE]
          /\ view' = Cleared /\ expands' = Detached
      BY <1>1 DEF Arrives, g
    <2>4. [hook.fetch EXCEPT !.graph = g] \in Fetches
      BY <2>1, <2>2 DEF Fetches
    <2>5. /\ hook' \in Hooks /\ hook'.fetch # None
          /\ hook'.fetch.query = hook.fetch.query /\ hook'.attempted = hook.attempted
      <3>1. hook'.fetch = [hook.fetch EXCEPT !.graph = g]
        BY <2>3 DEF Hooks
      <3>2. hook' \in Hooks
        BY <2>3, <2>4 DEF Hooks
      <3>3. hook'.attempted = hook.attempted
        BY <2>3 DEF Hooks
      <3>4. hook'.fetch.query = hook.fetch.query
        BY <2>1, <3>1 DEF Fetches
      <3> QED
        BY <2>4, <3>1, <3>2, <3>3, <3>4, NoneApart
    <2>6. Gated(query, hook', due)
      BY <1>1, <2>5 DEF Gated, Closed, Arrives
    <2>7. Kept(view') /\ Counted(view') /\ view'.graph = None
      BY <2>3 DEF Kept, Counted, Cleared
    <2>8. Expansions(expands', view')
      BY <2>3, <2>7, ExpansionsFollow
    <2> QED
      BY <1>1, <2>5, <2>6, <2>7, <2>8 DEF Arrives
  <1>2. CASE ArrivesEmpty
    <2> DEFINE q == [query EXCEPT !.label = NoLabel]
               h == [Ended(hook) EXCEPT !.placed = TRUE]
    <2>1. q \in AllQueries /\ q.version = query.version /\ q.depth = query.depth
      BY DEF AllQueries
    <2>2. h \in Hooks /\ (h.attempted => Closed(q, h, due))
      <3>1. Ended(hook) \in Hooks /\ (Ended(hook).attempted => Closed(query, Ended(hook), due))
        BY <1>2, RequestEnds DEF ArrivesEmpty
      <3>2. /\ h \in Hooks /\ h.attempted = Ended(hook).attempted
            /\ h.fetch = Ended(hook).fetch /\ h.timer = Ended(hook).timer
            /\ h.lost = Ended(hook).lost /\ h.signature = Ended(hook).signature
        BY <3>1 DEF Hooks
      <3> HIDE DEF h, q
      <3> QED
        BY <2>1, <3>1, <3>2 DEF Closed, Answers
    <2>3. Kept(Cleared) /\ Counted(Cleared)
      BY DEF Kept, Counted, Cleared
    <2>4. Effects(q, Cleared, h)
      BY <1>2 DEF ArrivesEmpty
    <2> HIDE DEF q, h
    <2>5. /\ query' = q /\ Kept(view') /\ Counted(view') /\ hook' \in Hooks
          /\ Gated(q, hook', due) /\ Expansions(expands', view')
      BY <2>1, <2>2, <2>3, <2>4, EffectsKeep
    <2> QED
      BY <1>2, <2>1, <2>5 DEF ArrivesEmpty
  <1>3. CASE Built
    <2> DEFINE g == hook.fetch.graph
               v == [graph |-> g, counts |-> Size(g), selected |-> view.selected]
    <2>1. g \in Drawings /\ g # None
      BY <1>3, RequestEnds DEF Built, Fetches
    <2>2. Kept(v) /\ Counted(v)
      BY <2>1 DEF Kept, Counted
    <2>3. /\ Ended(hook) \in Hooks
          /\ Ended(hook).attempted => Closed(query, Ended(hook), due)
      BY <1>3, RequestEnds DEF Built
    <2>4. Effects(query, v, Ended(hook))
      BY <1>3 DEF Built
    <2> HIDE DEF v
    <2>5. /\ query' = query /\ Kept(view') /\ Counted(view') /\ hook' \in Hooks
          /\ Gated(query, hook', due) /\ Expansions(expands', view')
      BY <2>2, <2>3, <2>4, EffectsKeep
    <2> QED
      BY <1>3, <2>5 DEF Built
  <1>4. CASE BuildFails
    <2>1. /\ Ended(hook) \in Hooks
          /\ Ended(hook).attempted => Closed(query, Ended(hook), due)
      BY <1>4, RequestEnds DEF BuildFails
    <2>2. Effects(query, view, Ended(hook))
      BY <1>4 DEF BuildFails
    <2>3. /\ query' = query /\ Kept(view') /\ (Counted(view) => Counted(view'))
          /\ hook' \in Hooks /\ Gated(query, hook', due) /\ Expansions(expands', view')
      BY <2>1, <2>2, EffectsKeep
    <2> QED
      BY <1>4, <2>3 DEF BuildFails
  <1>5. CASE FetchFails
    <2>1. /\ Failed(hook) \in Hooks
          /\ Failed(hook).attempted => Closed(query, Failed(hook), due)
      BY <1>5, RequestEnds DEF FetchFails
    <2>2. Effects(query, view, Failed(hook))
      BY <1>5 DEF FetchFails
    <2>3. /\ query' = query /\ Kept(view') /\ (Counted(view) => Counted(view'))
          /\ hook' \in Hooks /\ Gated(query, hook', due) /\ Expansions(expands', view')
      BY <2>1, <2>2, EffectsKeep
    <2> QED
      BY <1>5, <2>3 DEF FetchFails
  <1>6. CASE RetryFires
    <2> DEFINE h == [hook EXCEPT !.timer = FALSE, !.attempted = FALSE]
    <2>1. h \in Hooks /\ h.attempted = FALSE
      BY DEF Hooks
    <2>2. Effects(query, view, h)
      BY <1>6 DEF RetryFires
    <2> HIDE DEF h
    <2>3. /\ query' = query /\ Kept(view') /\ (Counted(view) => Counted(view'))
          /\ hook' \in Hooks /\ Gated(query, hook', due) /\ Expansions(expands', view')
      BY <2>1, <2>2, EffectsKeep
    <2> QED
      BY <1>6, <2>3 DEF RetryFires
  <1>7. CASE StrayFires
    <2> DEFINE m == hook.strays - 1
    <2>0. m \in Nat
      BY <1>7 DEF StrayFires, Hooks
    <2>1. hook' = [hook EXCEPT !.strays = m, !.attempted = FALSE]
      BY <1>7 DEF StrayFires
    <2> HIDE DEF m
    <2>2. /\ hook' \in Hooks /\ hook'.attempted = FALSE /\ hook'.mounted = hook.mounted
          /\ hook'.fetch = hook.fetch /\ hook'.timer = hook.timer
          /\ hook'.lost = hook.lost /\ hook'.signature = hook.signature
      BY <2>0, <2>1 DEF Hooks
    <2>3. Gated(query, hook', due)
      BY <2>2 DEF Gated, Closed
    <2> QED
      BY <1>7, <2>2, <2>3 DEF StrayFires
  <1> QED
    BY <1>1, <1>2, <1>3, <1>4, <1>5, <1>6, <1>7 DEF Fetch

(* What the user asks of the graph.                                        *)
LEMMA ChoicesKeep ==
    ASSUME GraphInvariant, User
    PROVE  GraphInvariant'
  <1> USE DEF GraphInvariant
  <1>0. ASSUME NEW l \in Names \cup {Star, NoLabel}
        PROVE  LET q == [query EXCEPT !.label = l, !.version = @ + 1]
               IN  q \in AllQueries /\ q.version = query.version + 1
    <2>1. query \in AllQueries /\ query.version + 1 \in Nat
      BY DEF AllQueries
    <2> QED
      BY <2>1 DEF AllQueries
  <1>1. CASE Refresh
    <2> DEFINE l == IF query.label = NoLabel THEN Star ELSE query.label
               q == [query EXCEPT !.label = l, !.version = @ + 1]
    <2>1. q \in AllQueries /\ q.version = query.version + 1
      <3>1. l \in Names \cup {Star, NoLabel}
        BY DEF AllQueries
      <3> HIDE DEF l
      <3> QED
        BY <3>1, <1>0
    <2>2. Open(hook) \in Hooks /\ Open(hook).attempted = FALSE
      BY DEF Open, Hooks
    <2>3. Effects(q, view, Open(hook)) /\ due' = query.version + 1
      BY <1>1 DEF Refresh, AllQueries
    <2>4. due' \in Nat /\ due' <= q.version
      BY <2>1, <2>3 DEF AllQueries
    <2> HIDE DEF q
    <2>6. q # query
      BY <2>1 DEF AllQueries
    <2>5. /\ query' = q /\ Kept(view') /\ (Counted(view) => Counted(view'))
          /\ hook' \in Hooks /\ Gated(q, hook', due') /\ Expansions(expands', view')
      BY <2>1, <2>2, <2>3, <2>4, <2>6, EffectsKeep
    <2> QED
      BY <1>1, <2>1, <2>4, <2>5 DEF Refresh
  <1>2. ASSUME NEW d \in Depths, SetDepth(d)
        PROVE  GraphInvariant'
    <2> DEFINE q == [query EXCEPT !.depth = d]
    <2>1. q \in AllQueries /\ q.version = query.version
      BY GraphAssumption DEF AllQueries
    <2>2. Open(hook) \in Hooks /\ Open(hook).attempted = FALSE
      BY DEF Open, Hooks
    <2>3. Effects(q, view, Open(hook))
      BY <1>2 DEF SetDepth
    <2> HIDE DEF q
    <2>4. /\ query' = q /\ Kept(view') /\ (Counted(view) => Counted(view'))
          /\ hook' \in Hooks /\ Gated(q, hook', due) /\ Expansions(expands', view')
      BY <2>1, <2>2, <2>3, EffectsKeep
    <2> QED
      BY <1>2, <2>1, <2>4 DEF SetDepth
  <1>3. ASSUME NEW n \in Limits, SetMaxNodes(n)
        PROVE  GraphInvariant'
    <2> DEFINE q == [query EXCEPT !.limit = n, !.label = NoLabel]
    <2>1. q \in AllQueries /\ q.version = query.version /\ q.depth = query.depth
      BY GraphAssumption DEF AllQueries
    <2>2. hook.attempted => Closed(q, hook, due)
      BY <2>1 DEF Gated, Closed, Answers
    <2>3. Effects(q, view, hook) /\ restores' = Append(restores, query.label)
      BY <1>3 DEF SetMaxNodes
    <2> HIDE DEF q
    <2>4. /\ query' = q /\ Kept(view') /\ (Counted(view) => Counted(view'))
          /\ hook' \in Hooks /\ Gated(q, hook', due) /\ Expansions(expands', view')
      BY <2>1, <2>2, <2>3, EffectsKeep
    <2>5. restores' \in Seq(Names \cup {Star, NoLabel})
      BY <2>3 DEF AllQueries
    <2> QED
      BY <1>3, <2>1, <2>4, <2>5 DEF SetMaxNodes
  <1>4. ASSUME NEW n, Select(n), view.graph # None
        PROVE  GraphInvariant'
    <2>1. view' = [graph |-> view.graph, counts |-> view.counts, selected |-> n]
      BY <1>4 DEF Select, Kept
    <2> QED
      BY <1>4, <2>1 DEF Select, Kept, Counted, Expansions
  <1>5. CASE Expand
    <2>1. Expansions(expands', view)
      <3> DEFINE f == [id |-> choices, node |-> view.selected, on |-> None]
      <3>1. view.graph # None
        BY <1>5 DEF Expand, PanelShows, Kept
      <3>2. expands' = expands \cup {f}
        BY <1>5 DEF Expand
      <3> QED
        BY <3>1, <3>2 DEF Expansions
    <2> QED
      BY <1>5, <2>1 DEF Expand
  <1>6. CASE Prune
    <2> DEFINE h == Graph(view.graph.nodes \ Doomed(view.graph, view.selected), view.graph.ties)
    <2>1. view' = IF h.nodes = {} THEN view
                  ELSE [graph |-> h, counts |-> Size(h), selected |-> None]
      BY <1>6 DEF Prune, Recounted
    <2>2. view.graph # None /\ view.graph \in Drawings
      BY <1>6 DEF Prune, PanelShows, Kept
    <2>3. h \in Drawings /\ h # None
      <3>1. view.graph.nodes \ Doomed(view.graph, view.selected) \in SUBSET Names
        BY <2>2 DEF Drawings
      <3> QED
        BY <2>2, <3>1, Shapes, NoneApart
    <2> HIDE DEF h
    <2>4. Kept(view') /\ (Counted(view) => Counted(view')) /\ view'.graph # None
      BY <2>1, <2>2, <2>3 DEF Kept, Counted
    <2> QED
      BY <1>6, <2>4 DEF Prune, Expansions
  <1>7. ASSUME NEW to \in Names \cup {None}, EditBegin(to)
        PROVE  GraphInvariant'
    BY <1>7 DEF EditBegin
  <1>8. ASSUME NEW start \in BOOLEAN, MergeRefresh(start)
        PROVE  GraphInvariant'
    <2> DEFINE l == IF start THEN edit.to ELSE NoLabel
               q == [query EXCEPT !.label = l, !.version = @ + 1]
               v == [view EXCEPT !.selected = None]
    <2>1. edit = [from |-> edit.from, to |-> edit.to, phase |-> edit.phase] /\ edit.to \in Names
      BY <1>8 DEF MergeRefresh
    <2>2. q \in AllQueries /\ q.version = query.version + 1
      BY <2>1, <1>0
    <2>3. Open(hook) \in Hooks /\ Open(hook).attempted = FALSE
      BY DEF Open, Hooks
    <2>4. Effects(q, v, Open(hook)) /\ due' = query.version + 1
      BY <1>8 DEF MergeRefresh
    <2>5. due' \in Nat /\ due' <= q.version
      BY <2>2, <2>4 DEF AllQueries
    <2>6. Kept(v) /\ (Counted(view) => Counted(v))
      <3>1. v = [graph |-> view.graph, counts |-> view.counts, selected |-> None]
        BY DEF Kept
      <3> QED
        BY <3>1 DEF Kept, Counted
    <2> HIDE DEF q, v
    <2>11. q # query
      BY <2>2 DEF AllQueries
    <2>7. /\ query' = q /\ Kept(view') /\ (Counted(view) => Counted(view'))
          /\ hook' \in Hooks /\ Gated(q, hook', due') /\ Expansions(expands', view')
      BY <2>2, <2>3, <2>4, <2>5, <2>6, <2>11, EffectsKeep
    <2>8. edit' = [from |-> edit.from, to |-> edit.to, phase |-> "done"]
      BY <1>8, <2>1 DEF MergeRefresh, Phase
    <2>9. restores' \in Seq(Names \cup {Star, NoLabel})
      BY <1>8 DEF MergeRefresh, AllQueries
    <2> QED
      BY <1>8, <2>2, <2>5, <2>7, <2>8, <2>9 DEF MergeRefresh
  <1>9. CASE HidePanel
    <2> DEFINE f == IF hook.fetch = None THEN None ELSE [hook.fetch EXCEPT !.own = FALSE]
    <2>1. hook' = [hook EXCEPT !.mounted = FALSE, !.stamped = FALSE, !.tries = Unasked,
                               !.timer = FALSE, !.emptied = FALSE,
                               !.lost = hook.lost \/ hook.timer, !.fetch = f]
      BY <1>9 DEF HidePanel
    <2>2. /\ f \in Fetches \cup {None} /\ (f = None <=> hook.fetch = None)
          /\ f # None => f.query = hook.fetch.query
      <3>1. hook.fetch # None => hook.fetch \in Fetches
        BY DEF Hooks
      <3>2. hook.fetch # None => /\ [hook.fetch EXCEPT !.own = FALSE] \in Fetches
                                 /\ [hook.fetch EXCEPT !.own = FALSE].query = hook.fetch.query
        BY <3>1 DEF Fetches
      <3> QED
        BY <3>2, NoneApart
    <2> HIDE DEF f
    <2>3. (hook.lost \/ hook.timer) \in BOOLEAN /\ Unasked \in [query : AllQueries \cup {None}, attempts : Nat]
      BY DEF Unasked
    <2>4. /\ hook' \in Hooks /\ hook'.mounted = FALSE /\ hook'.attempted = hook.attempted
          /\ hook'.fetch = f /\ hook'.signature = hook.signature
          /\ hook'.lost = (hook.lost \/ hook.timer)
      BY <2>1, <2>2, <2>3 DEF Hooks
    <2>5. Gated(query, hook', due)
      BY <2>2, <2>4 DEF Gated, Closed
    <2>6. \/ edit' = None
          \/ edit' = [from |-> edit.from, to |-> edit.to, phase |-> "left"]
          \/ edit' = [from |-> edit.from, to |-> edit.to, phase |-> "done"]
      BY <1>9 DEF HidePanel
    <2> QED
      BY <1>9, <2>4, <2>5, <2>6 DEF HidePanel
  <1>10. CASE ShowPanel
    <2> DEFINE h == [hook EXCEPT !.mounted = TRUE]
    <2>1. /\ h \in Hooks /\ h.attempted = hook.attempted
          /\ h.fetch = hook.fetch /\ h.timer = hook.timer
          /\ h.lost = hook.lost /\ h.signature = hook.signature
      BY DEF Hooks
    <2>2. Effects(query, view, h)
      BY <1>10 DEF ShowPanel
    <2> HIDE DEF h
    <2>3. h.attempted => Closed(query, h, due)
      BY <2>1 DEF Gated, Closed
    <2>4. /\ query' = query /\ Kept(view') /\ (Counted(view) => Counted(view'))
          /\ hook' \in Hooks /\ Gated(query, hook', due) /\ Expansions(expands', view')
      BY <2>1, <2>2, <2>3, EffectsKeep
    <2> QED
      BY <1>10, <2>4 DEF ShowPanel
  <1> QED
    BY <1>1, <1>2, <1>3, <1>4, <1>5, <1>6, <1>7, <1>8, <1>9, <1>10 DEF User

(* What the server answers to expansions and edits, and the labels that    *)
(* timers put back.                                                        *)
LEMMA AnswersKeep ==
    ASSUME GraphInvariant, Answer \/ \E i \in DOMAIN restores : Restore(i)
    PROVE  GraphInvariant'
  <1> USE DEF GraphInvariant
  <1>1. ASSUME NEW e \in expands, ExpandAnswers(e)
        PROVE  GraphInvariant'
    <2> DEFINE g == IF e.on = None THEN view.graph ELSE e.on
               h == Grown(g, e.node)
    <2>1. g \in Drawings /\ g # None
      BY DEF Expansions, Kept
    <2>2. h \in Drawings /\ h # None
      BY <2>1, GrownShape, NoneApart
    <2>3. /\ expands' = expands \ {e}
          /\ view' = [view EXCEPT !.graph = IF e.on = None THEN h ELSE @,
                                  !.counts = IF h # g THEN Size(h) ELSE @]
          /\ late' = (late \/ (e.on # None /\ h # g))
      BY <1>1 DEF ExpandAnswers
    <2> HIDE DEF g, h
    <2>4. view' = [graph |-> IF e.on = None THEN h ELSE view.graph,
                   counts |-> IF h # g THEN Size(h) ELSE view.counts,
                   selected |-> view.selected]
      BY <2>3 DEF Kept
    <2>5. Kept(view') /\ (view.graph # None => view'.graph # None)
      BY <2>2, <2>4 DEF Kept
    <2>6. ~late' => Counted(view')
      <3> SUFFICES ASSUME ~late'
                   PROVE  Counted(view')
        OBVIOUS
      <3>1. ~late /\ (e.on = None \/ h = g)
        BY <2>3
      <3>2. Counted(view)
        BY <3>1
      <3>3. CASE e.on = None
        <4>1. g = view.graph
          BY <3>3 DEF g
        <4> QED
          BY <2>1, <2>2, <2>4, <3>2, <3>3, <4>1 DEF Counted
      <3>4. CASE e.on # None
        BY <2>4, <3>1, <3>2, <3>4 DEF Counted
      <3> QED
        BY <3>3, <3>4
    <2>7. Expansions(expands', view')
      BY <2>3, <2>5 DEF Expansions
    <2>8. late' \in BOOLEAN
      BY <2>3
    <2> QED
      BY <1>1, <2>5, <2>6, <2>7, <2>8 DEF ExpandAnswers
  <1>2. ASSUME NEW e \in expands, ExpandFails(e)
        PROVE  GraphInvariant'
    BY <1>2 DEF ExpandFails, Expansions
  <1>3. ASSUME edit # None, NEW p, p # "merged", Phase(p)
        PROVE  \/ edit' = None
               \/ /\ edit' = [from |-> edit'.from, to |-> edit'.to, phase |-> edit'.phase]
                  /\ edit'.phase = "merged" => edit'.to \in Names
    <2>1. edit' = [from |-> edit.from, to |-> edit.to, phase |-> p]
      BY <1>3 DEF Phase
    <2> QED
      BY <1>3, <2>1
  <1>4. CASE RenameAnswers
    <2> DEFINE l == IF query.label = edit.from THEN Spare ELSE query.label
               q == [query EXCEPT !.label = l]
               v == Shown(edit.from, Spare)
    <2>1. q \in AllQueries /\ q.version = query.version /\ q.depth = query.depth
      <3>1. l \in Names \cup {Star, NoLabel}
        BY GraphAssumption DEF AllQueries
      <3> HIDE DEF l
      <3> QED
        BY <3>1 DEF AllQueries
    <2>2. Kept(v) /\ (Counted(view) => Counted(v))
      <3>1. CASE view.graph = None \/ edit.from \notin view.graph.nodes \/ Spare \in view.graph.nodes
        BY <3>1 DEF Shown
      <3>2. CASE ~(view.graph = None \/ edit.from \notin view.graph.nodes \/ Spare \in view.graph.nodes)
        <4> DEFINE g == Renamed(view.graph, edit.from, Spare)
        <4>1. view.graph \in Drawings /\ edit.from \in view.graph.nodes
              /\ Spare \in Names \ view.graph.nodes
          BY <3>2, GraphAssumption DEF Kept
        <4>2. g \in Drawings /\ Size(g) = Size(view.graph)
          BY <4>1, RenamedSize
        <4>3. v = [graph |-> g, counts |-> view.counts, selected |-> Spare]
          BY <3>2 DEF Shown, Kept
        <4> HIDE DEF g, v
        <4> QED
          BY <3>2, <4>2, <4>3, NoneApart DEF Kept, Counted
      <3> QED
        BY <3>1, <3>2
    <2>3. hook.attempted => Closed(q, hook, due)
      BY <2>1 DEF Gated, Closed, Answers
    <2>4. Effects(q, v, hook)
      BY <1>4 DEF RenameAnswers
    <2> HIDE DEF q, v
    <2>5. /\ query' = q /\ Kept(view') /\ (Counted(view) => Counted(view'))
          /\ hook' \in Hooks /\ Gated(q, hook', due) /\ Expansions(expands', view')
      BY <2>1, <2>2, <2>3, <2>4, EffectsKeep
    <2>6. server' \in Drawings
      <3>1. edit.from \in Names /\ Spare \in Names
        BY <1>4, GraphAssumption DEF RenameAnswers, Drawings
      <3> QED
        BY <1>4, <3>1, Shapes DEF RenameAnswers
    <2>7. edit # None /\ Phase("done")
      BY <1>4 DEF RenameAnswers, Asked
    <2> QED
      BY <1>3, <1>4, <2>1, <2>5, <2>6, <2>7 DEF RenameAnswers
  <1>5. CASE PropertyAnswers
    <2>1. edit # None /\ Phase("done")
      BY <1>5 DEF PropertyAnswers, Asked
    <2>2. CASE view.graph # None /\ edit.from \in view.graph.nodes
      <3> DEFINE q == [query EXCEPT !.version = @ + 1]
      <3>1. q \in AllQueries /\ q.version = query.version + 1 /\ q.depth = query.depth
        BY DEF AllQueries
      <3>2. due <= q.version
        BY <3>1 DEF AllQueries
      <3>3. hook.attempted => Closed(q, hook, due)
        BY <3>1 DEF Gated, Closed, Answers
      <3>4. Effects(q, view, hook)
        BY <1>5, <2>2 DEF PropertyAnswers
      <3> HIDE DEF q
      <3>5. /\ query' = q /\ Kept(view') /\ (Counted(view) => Counted(view'))
            /\ hook' \in Hooks /\ Gated(q, hook', due) /\ Expansions(expands', view')
        BY <3>1, <3>2, <3>3, <3>4, EffectsKeep
      <3> QED
        BY <1>3, <1>5, <2>1, <3>1, <3>2, <3>5 DEF PropertyAnswers
    <2>3. CASE ~(view.graph # None /\ edit.from \in view.graph.nodes)
      BY <1>3, <1>5, <2>1, <2>3 DEF PropertyAnswers
    <2> QED
      BY <2>2, <2>3
  <1>6. CASE MergeAnswers
    <2>1. edit.from \in Names /\ edit.to \in Names
      BY <1>6 DEF MergeAnswers, Drawings
    <2>2. server' \in Drawings
      BY <1>6, <2>1, Shapes DEF MergeAnswers
    <2>3. \/ edit' = [from |-> edit.from, to |-> edit.to, phase |-> "done"]
          \/ edit' = [from |-> edit.from, to |-> edit.to, phase |-> "merged"]
      BY <1>6 DEF MergeAnswers, Asked, Phase
    <2> QED
      BY <1>6, <2>1, <2>2, <2>3 DEF MergeAnswers
  <1>7. CASE EditFails
    BY <1>3, <1>7 DEF EditFails, Asked
  <1>8. ASSUME NEW i \in DOMAIN restores, Restore(i)
        PROVE  GraphInvariant'
    <2> DEFINE q == [query EXCEPT !.label = restores[i]]
    <2>1. restores[i] \in Names \cup {Star, NoLabel} /\ i \in 1 .. Len(restores)
      OBVIOUS
    <2>2. q \in AllQueries /\ q.version = query.version /\ q.depth = query.depth
      BY <2>1 DEF AllQueries
    <2>3. hook.attempted => Closed(q, hook, due)
      BY <2>2 DEF Gated, Closed, Answers
    <2>4. Effects(q, view, hook) /\ restores' = RemoveAt(restores, i)
      BY <1>8 DEF Restore
    <2> HIDE DEF q
    <2>5. /\ query' = q /\ Kept(view') /\ (Counted(view) => Counted(view'))
          /\ hook' \in Hooks /\ Gated(q, hook', due) /\ Expansions(expands', view')
      BY <2>2, <2>3, <2>4, EffectsKeep
    <2>6. restores' \in Seq(Names \cup {Star, NoLabel})
      <3> DEFINE S == Names \cup {Star, NoLabel}
      <3>1. restores \in Seq(S) /\ i \in 1 .. Len(restores) /\ Len(restores) \in Nat
        OBVIOUS
      <3> HIDE DEF S
      <3>2. SubSeq(restores, 1, i - 1) \in Seq(S) /\ SubSeq(restores, i + 1, Len(restores)) \in Seq(S)
        BY <3>1
      <3>3. RemoveAt(restores, i) \in Seq(S)
        BY <3>2 DEF RemoveAt
      <3> QED
        BY <2>4, <3>3 DEF S
    <2> QED
      BY <1>8, <2>2, <2>5, <2>6 DEF Restore
  <1> QED
    BY <1>1, <1>2, <1>4, <1>5, <1>6, <1>7, <1>8 DEF Answer

LEMMA GraphSteps ==
    ASSUME GraphInvariant, [Next]_vars
    PROVE  GraphInvariant'
  <1>1. CASE GraphStep
    BY <1>1, FetchKeeps, ChoicesKeep, AnswersKeep DEF GraphStep
  <1>2. CASE UNCHANGED graphVars
    BY <1>2 DEF graphVars, GraphInvariant, Kept, Counted, Gated, Closed, Expansions
  <1> QED
    BY <1>1, <1>2 DEF Next, vars

LEMMA GraphAlways == Spec => []GraphInvariant
  BY GraphStarts, GraphSteps, PTL DEF Spec

(* Whatever is asked, fails, is tried again, cleared or hidden in between: *)
(* when nothing is under way and the panel is shown, the last fetch had    *)
(* the depth that is chosen and was not older than the last refresh, or it *)
(* failed and lost its retry to a hidden panel.                            *)
THEOREM RefreshIsServed == Spec => []RefreshServed
  <1>1. ASSUME GraphInvariant
        PROVE  RefreshServed
    <2> SUFFICES ASSUME AtRest, hook.mounted, ~hook.lost, query.label # NoLabel
                 PROVE  hook.signature # None /\ Answers(hook.signature, query, due)
      BY DEF RefreshServed, Answers
    <2>1. hook.fetch = None /\ ~hook.timer
      BY DEF AtRest
    <2> QED
      BY <1>1, <2>1 DEF GraphInvariant, Gated, Closed
  <1> QED
    BY <1>1, GraphAlways, PTL

(* The counts of the status bar are those of the graph that is shown,      *)
(* unless an expansion was answered after its graph had been replaced:     *)
(* pruning recounts, and a rename leaves as many entities and relations.   *)
THEOREM CountsAreShown == Spec => []OnlyLateMiscounts
  <1>1. GraphInvariant => OnlyLateMiscounts
    BY DEF GraphInvariant, Counted, OnlyLateMiscounts
  <1> QED
    BY <1>1, GraphAlways, PTL
-----------------------------------------------------------------------------
(* What is selected, and what is drawn.                                    *)

(* The selected node is one of the graph that is shown.                    *)
Pointed(v) == v.selected # None => v.graph # None /\ v.selected \in v.graph.nodes

(* Nothing is shown while the next graph is built, a request is tried      *)
(* again a bounded number of times, and a hidden panel has no refs.        *)
Clean(v, h) ==
    /\ Pointed(v)
    /\ h.fetch # None /\ h.fetch.graph # None => v.graph = None
    /\ h.tries.attempts \in 0 .. MaxRetries
    /\ h.timer \/ h.stamped \/ (h.fetch # None /\ h.fetch.own) => h.mounted

Drawn == drawn = (view.graph # None)

LEMMA RenderPoints ==
    ASSUME NEW q \in AllQueries, NEW v, Kept(v), NEW h \in Hooks, Rendered(q, v, h),
           h.mounted, Clean(v, h)
    PROVE  Clean(view', hook')
  <1> DEFINE blank == q.label = NoLabel /\ (v.graph # None \/ h.placed)
             w == IF blank THEN Cleared ELSE v
             k == IF blank THEN [h EXCEPT !.attempted = FALSE, !.placed = FALSE] ELSE h
             closed == k.fetch # None \/ k.attempted \/ (q.label = NoLabel /\ k.emptied)
             known == k.stamped /\ k.signature = q
  <1>1. \/ closed /\ view' = w /\ hook' = k
        \/ /\ ~closed /\ known
           /\ view' = w /\ hook' = [k EXCEPT !.attempted = TRUE]
        \/ /\ ~closed /\ ~known /\ q.label = NoLabel
           /\ view' = Cleared /\ hook' = Emptied(q, k)
        \/ /\ ~closed /\ ~known /\ q.label # NoLabel
           /\ view' = [w EXCEPT !.selected = None] /\ hook' = Fetching(q, k)
    BY DEF Rendered
  <1>2. /\ k \in Hooks /\ k.fetch = h.fetch /\ k.tries = h.tries
        /\ k.mounted = TRUE
    BY DEF Hooks
  <1>3. Pointed(Cleared) /\ Cleared.graph = None
    BY DEF Pointed, Cleared
  <1>4. Clean(w, k)
    BY <1>2, <1>3 DEF Clean
  <1> HIDE DEF w, k, blank
  <1>5. ASSUME hook' = [k EXCEPT !.attempted = TRUE], view' = w
        PROVE  Clean(view', hook')
    <2>1. hook'.fetch = k.fetch /\ hook'.tries = k.tries /\ hook'.mounted = TRUE
      BY <1>2, <1>5 DEF Hooks
    <2> QED
      BY <1>4, <1>5, <2>1 DEF Clean
  <1>6. ASSUME ~closed, hook' = Emptied(q, k), view' = Cleared
        PROVE  Clean(view', hook')
    <2>1. hook'.tries.attempts = 0 /\ hook'.mounted = TRUE
      BY <1>2, <1>6 DEF Hooks, Emptied, Unasked
    <2>2. 0 \in 0 .. MaxRetries
      BY GraphAssumption
    <2> QED
      BY <1>3, <1>6, <2>1, <2>2 DEF Clean
  <1>7. ASSUME hook' = Fetching(q, k), view' = [w EXCEPT !.selected = None]
        PROVE  Clean(view', hook')
    <2> DEFINE r == [query |-> q, graph |-> None, tries |-> Retries(q, k), own |-> TRUE]
    <2>1. hook'.fetch = r /\ hook'.tries = k.tries /\ hook'.mounted = TRUE
      BY <1>2, <1>7 DEF Hooks, Fetching
    <2>2. view'.selected = None
      BY <1>3, <1>7 DEF Kept, Cleared, w
    <2>3. r.graph = None
      OBVIOUS
    <2> HIDE DEF r
    <2> QED
      BY <1>4, <2>1, <2>2, <2>3 DEF Clean, Pointed
  <1> QED
    BY <1>1, <1>4, <1>5, <1>6, <1>7

LEMMA EffectsPoint ==
    ASSUME NEW q \in AllQueries, NEW v, Kept(v), NEW h \in Hooks, Effects(q, v, h),
           Clean(v, h)
    PROVE  Clean(view', hook')
  BY RenderPoints DEF Effects

(* A request that ends leaves no graph to build, counts its failures, and  *)
(* stamps or retries only for the panel that is there.                     *)
LEMMA RequestIsCounted ==
    ASSUME GraphInvariant, Clean(view, hook), hook.fetch # None
    PROVE  \A h \in {Ended(hook), Failed(hook)} :
             /\ h.fetch = None /\ h.tries.attempts \in 0 .. MaxRetries
             /\ h.timer \/ h.stamped => h.mounted
  <1> DEFINE q == hook.fetch.query
             n == hook.fetch.tries
  <1>1. hook \in Hooks /\ hook.fetch \in Fetches /\ MaxRetries \in Nat
    BY GraphAssumption DEF GraphInvariant, Hooks
  <1>2. n \in Nat /\ hook.fetch.own \in BOOLEAN
    BY <1>1 DEF Fetches
  <1>3. /\ Ended(hook).fetch = None /\ Ended(hook).tries.attempts = 0
        /\ Ended(hook).timer = hook.timer /\ Ended(hook).stamped = hook.fetch.own
        /\ Ended(hook).mounted = hook.mounted
    BY <1>1 DEF Ended, Hooks, Unasked
  <1> HIDE DEF n
  <1>4. CASE n < MaxRetries /\ hook.fetch.own
    <2>1. Failed(hook) = [hook EXCEPT !.fetch = None, !.timer = TRUE,
                                      !.tries = [query |-> q, attempts |-> n + 1]]
      BY <1>4 DEF Failed, n
    <2>2. /\ Failed(hook).fetch = None /\ Failed(hook).tries.attempts = n + 1
          /\ Failed(hook).mounted = hook.mounted
      BY <1>1, <2>1 DEF Hooks
    <2>3. n + 1 \in 0 .. MaxRetries /\ 0 \in 0 .. MaxRetries
      BY <1>1, <1>2, <1>4
    <2> QED
      BY <1>3, <1>4, <2>2, <2>3 DEF Clean
  <1>5. CASE n < MaxRetries /\ ~hook.fetch.own
    <2>1. Failed(hook) = [hook EXCEPT !.fetch = None, !.strays = @ + 1, !.lost = TRUE]
      BY <1>5 DEF Failed, n
    <2>2. /\ Failed(hook).fetch = None /\ Failed(hook).tries = hook.tries
          /\ Failed(hook).timer = hook.timer /\ Failed(hook).stamped = hook.stamped
          /\ Failed(hook).mounted = hook.mounted
      BY <1>1, <2>1 DEF Hooks
    <2>3. 0 \in 0 .. MaxRetries
      BY <1>1
    <2> QED
      BY <1>3, <1>5, <2>2, <2>3 DEF Clean
  <1>6. CASE ~(n < MaxRetries)
    <2>1. Failed(hook) = [hook EXCEPT !.fetch = None, !.signature = q,
                                      !.stamped = hook.fetch.own]
      BY <1>6 DEF Failed, n
    <2>2. /\ Failed(hook).fetch = None /\ Failed(hook).tries = hook.tries
          /\ Failed(hook).timer = hook.timer /\ Failed(hook).stamped = hook.fetch.own
          /\ Failed(hook).mounted = hook.mounted
      BY <1>1, <2>1 DEF Hooks
    <2>3. 0 \in 0 .. MaxRetries
      BY <1>1
    <2> QED
      BY <1>3, <2>2, <2>3 DEF Clean
  <1> QED
    BY <1>4, <1>5, <1>6

LEMMA FetchPoints ==
    ASSUME GraphInvariant, Clean(view, hook), Fetch \/ RetryFires \/ StrayFires
    PROVE  Clean(view', hook')
  <1>0. /\ hook \in Hooks /\ Kept(view) /\ query \in AllQueries
        /\ Pointed(Cleared) /\ Kept(Cleared) /\ Cleared.graph = None
    BY DEF GraphInvariant, Pointed, Kept, Cleared
  <1>1. CASE Arrives
    <2> DEFINE r == [hook.fetch EXCEPT !.graph = Found(hook.fetch.query)]
    <2>1. view' = Cleared /\ hook' = [hook EXCEPT !.fetch = r, !.placed = FALSE]
      BY <1>1 DEF Arrives
    <2>2. r.own = hook.fetch.own /\ hook.fetch # None
      BY <1>0, <1>1 DEF Hooks, Fetches, Arrives
    <2> HIDE DEF r
    <2>3. /\ hook'.tries = hook.tries /\ hook'.timer = hook.timer
          /\ hook'.stamped = hook.stamped /\ hook'.mounted = hook.mounted /\ hook'.fetch = r
      BY <1>0, <2>1 DEF Hooks
    <2> QED
      BY <1>0, <2>1, <2>2, <2>3 DEF Clean
  <1>2. CASE ArrivesEmpty
    <2> DEFINE q == [query EXCEPT !.label = NoLabel]
               h == [Ended(hook) EXCEPT !.placed = TRUE]
    <2>1. q \in AllQueries
      BY <1>0 DEF AllQueries
    <2>2. Ended(hook) \in Hooks /\ Effects(q, Cleared, h)
      BY <1>2, RequestEnds DEF ArrivesEmpty
    <2>3. /\ h \in Hooks /\ h.fetch = Ended(hook).fetch /\ h.tries = Ended(hook).tries
          /\ h.timer = Ended(hook).timer /\ h.stamped = Ended(hook).stamped
          /\ h.mounted = Ended(hook).mounted
      BY <2>2 DEF Hooks
    <2>4. Clean(Cleared, h)
      BY <1>0, <1>2, <2>3, RequestIsCounted DEF Clean, ArrivesEmpty
    <2> HIDE DEF q, h
    <2> QED
      BY <1>0, <2>1, <2>2, <2>3, <2>4, EffectsPoint
  <1>3. CASE Built
    <2> DEFINE g == hook.fetch.graph
               v == [graph |-> g, counts |-> Size(g), selected |-> view.selected]
    <2>1. g \in Drawings /\ g # None /\ hook.fetch # None
      BY <1>3, RequestEnds DEF Built, Fetches
    <2>2. view.selected = None
      BY <2>1 DEF Clean, Pointed
    <2>3. Kept(v) /\ Clean(v, Ended(hook))
      BY <2>1, <2>2, RequestIsCounted DEF Kept, Clean, Pointed
    <2>4. Ended(hook) \in Hooks /\ Effects(query, v, Ended(hook))
      BY <1>3, RequestEnds DEF Built
    <2> HIDE DEF v
    <2> QED
      BY <1>0, <2>3, <2>4, EffectsPoint
  <1>4. CASE BuildFails
    <2>1. Ended(hook) \in Hooks /\ Effects(query, view, Ended(hook)) /\ hook.fetch # None
      BY <1>4, RequestEnds DEF BuildFails
    <2>2. Clean(view, Ended(hook))
      BY <2>1, RequestIsCounted DEF Clean
    <2> QED
      BY <1>0, <2>1, <2>2, EffectsPoint
  <1>5. CASE FetchFails
    <2>1. Failed(hook) \in Hooks /\ Effects(query, view, Failed(hook)) /\ hook.fetch # None
      BY <1>5, RequestEnds DEF FetchFails
    <2>2. Clean(view, Failed(hook))
      BY <2>1, RequestIsCounted DEF Clean
    <2> QED
      BY <1>0, <2>1, <2>2, EffectsPoint
  <1>6. CASE RetryFires
    <2> DEFINE h == [hook EXCEPT !.timer = FALSE, !.attempted = FALSE]
    <2>1. /\ h \in Hooks /\ Effects(query, view, h) /\ h.fetch = hook.fetch
          /\ h.tries = hook.tries /\ h.timer = FALSE
          /\ h.stamped = hook.stamped /\ h.mounted = hook.mounted
      BY <1>0, <1>6 DEF RetryFires, Hooks
    <2>2. Clean(view, h)
      BY <2>1 DEF Clean
    <2> HIDE DEF h
    <2> QED
      BY <1>0, <2>1, <2>2, EffectsPoint
  <1>7. CASE StrayFires
    <2>1. hook' = [hook EXCEPT !.strays = @ - 1, !.attempted = FALSE] /\ view' = view
      BY <1>7 DEF StrayFires
    <2>2. /\ hook'.fetch = hook.fetch /\ hook'.tries = hook.tries /\ hook'.timer = hook.timer
          /\ hook'.stamped = hook.stamped /\ hook'.mounted = hook.mounted
      BY <1>0, <2>1 DEF Hooks
    <2> QED
      BY <2>1, <2>2 DEF Clean
  <1> QED
    BY <1>1, <1>2, <1>3, <1>4, <1>5, <1>6, <1>7 DEF Fetch

LEMMA ChoicesPoint ==
    ASSUME GraphInvariant, Clean(view, hook), User
    PROVE  Clean(view', hook')
  <1>0. /\ hook \in Hooks /\ Kept(view) /\ query \in AllQueries /\ query.version + 1 \in Nat
        /\ Open(hook) \in Hooks /\ Clean(view, Open(hook))
    <2>1. hook \in Hooks /\ Kept(view) /\ query \in AllQueries /\ query.version + 1 \in Nat
      BY DEF GraphInvariant, AllQueries
    <2>2. /\ Open(hook) \in Hooks
          /\ Open(hook).fetch = hook.fetch /\ Open(hook).tries = hook.tries
          /\ Open(hook).timer = hook.timer /\ Open(hook).stamped = hook.stamped
          /\ Open(hook).mounted = hook.mounted
      BY <2>1 DEF Open, Hooks
    <2>3. Clean(view, Open(hook))
      BY <2>2 DEF Clean
    <2> QED
      BY <2>1, <2>2, <2>3
  <1>1. CASE Refresh
    <2> DEFINE l == IF query.label = NoLabel THEN Star ELSE query.label
               q == [query EXCEPT !.label = l, !.version = @ + 1]
    <2>1. l \in Names \cup {Star, NoLabel}
      BY <1>0 DEF AllQueries
    <2> HIDE DEF l
    <2>2. q \in AllQueries
      BY <1>0, <2>1 DEF AllQueries
    <2>3. Effects(q, view, Open(hook))
      BY <1>0, <1>1 DEF Refresh, AllQueries, l
    <2> HIDE DEF q
    <2> QED
      BY <1>0, <2>2, <2>3, EffectsPoint
  <1>2. ASSUME NEW d \in Depths, SetDepth(d)
        PROVE  Clean(view', hook')
    <2> DEFINE q == [query EXCEPT !.depth = d]
    <2>1. q \in AllQueries
      BY <1>0, GraphAssumption DEF AllQueries
    <2>2. Effects(q, view, Open(hook))
      BY <1>2 DEF SetDepth
    <2> HIDE DEF q
    <2> QED
      BY <1>0, <2>1, <2>2, EffectsPoint
  <1>3. ASSUME NEW n \in Limits, SetMaxNodes(n)
        PROVE  Clean(view', hook')
    <2> DEFINE q == [query EXCEPT !.limit = n, !.label = NoLabel]
    <2>1. q \in AllQueries
      BY <1>0, GraphAssumption DEF AllQueries
    <2>2. Effects(q, view, hook)
      BY <1>3 DEF SetMaxNodes
    <2> HIDE DEF q
    <2> QED
      BY <1>0, <2>1, <2>2, EffectsPoint
  <1>4. ASSUME view.graph # None, NEW n \in view.graph.nodes, Select(n)
        PROVE  Clean(view', hook')
    <2>1. view' = [graph |-> view.graph, counts |-> view.counts, selected |-> n] /\ hook' = hook
      BY <1>0, <1>4 DEF Select, Kept
    <2> QED
      BY <1>4, <2>1 DEF Clean, Pointed
  <1>5. CASE Expand
    BY <1>5 DEF Expand
  <1>6. CASE Prune
    <2> DEFINE h == Graph(view.graph.nodes \ Doomed(view.graph, view.selected), view.graph.ties)
    <2>1. /\ view' = IF h.nodes = {} THEN view
                     ELSE [graph |-> h, counts |-> Size(h), selected |-> None]
          /\ hook' = hook /\ view.selected # None
      BY <1>6 DEF Prune, PanelShows, Recounted
    <2> HIDE DEF h
    <2>2. view.graph # None
      BY <2>1 DEF Clean, Pointed
    <2> QED
      BY <2>1, <2>2 DEF Clean, Pointed
  <1>7. ASSUME NEW to \in Names \cup {None}, EditBegin(to)
        PROVE  Clean(view', hook')
    BY <1>7 DEF EditBegin
  <1>8. ASSUME NEW start \in BOOLEAN, MergeRefresh(start)
        PROVE  Clean(view', hook')
    <2> DEFINE l == IF start THEN edit.to ELSE NoLabel
               q == [query EXCEPT !.label = l, !.version = @ + 1]
               v == [view EXCEPT !.selected = None]
    <2>1. l \in Names \cup {Star, NoLabel}
      BY <1>8 DEF MergeRefresh, GraphInvariant
    <2> HIDE DEF l
    <2>2. q \in AllQueries
      BY <1>0, <2>1 DEF AllQueries
    <2>3. Effects(q, v, Open(hook))
      BY <1>8 DEF MergeRefresh, l
    <2>4. v = [graph |-> view.graph, counts |-> view.counts, selected |-> None]
      BY <1>0 DEF Kept
    <2>5. Kept(v) /\ Clean(v, Open(hook))
      BY <1>0, <2>4 DEF Kept, Clean, Pointed
    <2> HIDE DEF q, v
    <2> QED
      BY <1>0, <2>2, <2>3, <2>5, EffectsPoint
  <1>9. CASE HidePanel
    <2> DEFINE f == IF hook.fetch = None THEN None ELSE [hook.fetch EXCEPT !.own = FALSE]
    <2>1. /\ hook' = [hook EXCEPT !.mounted = FALSE, !.stamped = FALSE, !.tries = Unasked,
                                  !.timer = FALSE, !.emptied = FALSE,
                                  !.lost = hook.lost \/ hook.timer, !.fetch = f]
          /\ view' = view
      BY <1>9 DEF HidePanel
    <2>2. f # None => ~f.own /\ hook.fetch # None /\ f.graph = hook.fetch.graph
      <3>1. hook.fetch # None => hook.fetch \in Fetches
        BY <1>0 DEF Hooks
      <3> QED
        BY <3>1 DEF Fetches
    <2> HIDE DEF f
    <2>3. /\ hook'.fetch = f /\ hook'.tries = Unasked
          /\ hook'.timer = FALSE /\ hook'.stamped = FALSE
      BY <1>0, <2>1 DEF Hooks
    <2>4. Unasked.attempts \in 0 .. MaxRetries
      BY GraphAssumption DEF Unasked
    <2> QED
      BY <2>1, <2>2, <2>3, <2>4 DEF Clean
  <1>10. CASE ShowPanel
    <2> DEFINE h == [hook EXCEPT !.mounted = TRUE]
    <2>1. /\ h \in Hooks /\ Effects(query, view, h) /\ h.fetch = hook.fetch
          /\ h.tries = hook.tries /\ h.mounted = TRUE
      BY <1>0, <1>10 DEF ShowPanel, Hooks
    <2>2. Clean(view, h)
      BY <2>1 DEF Clean
    <2> HIDE DEF h
    <2> QED
      BY <1>0, <2>1, <2>2, EffectsPoint
  <1> QED
    BY <1>1, <1>2, <1>3, <1>4, <1>5, <1>6, <1>7, <1>8, <1>9, <1>10 DEF User

(* An expansion only adds to its graph, and a rename keeps the renamed     *)
(* entity selected.                                                        *)
LEMMA AnswersPoint ==
    ASSUME GraphInvariant, Clean(view, hook), Answer \/ \E i \in DOMAIN restores : Restore(i)
    PROVE  Clean(view', hook')
  <1>0. hook \in Hooks /\ Kept(view) /\ query \in AllQueries /\ query.version + 1 \in Nat
    BY DEF GraphInvariant, AllQueries
  <1>1. ASSUME NEW e \in expands, ExpandAnswers(e)
        PROVE  Clean(view', hook')
    <2> DEFINE g == IF e.on = None THEN view.graph ELSE e.on
               h == Grown(g, e.node)
               c == IF h # g THEN Size(h) ELSE view.counts
    <2>1. /\ view' = [graph |-> IF e.on = None THEN h ELSE view.graph,
                      counts |-> c, selected |-> view.selected]
          /\ hook' = hook
      BY <1>0, <1>1 DEF ExpandAnswers, Kept
    <2>2. e.on = None => view.graph # None /\ g = view.graph
      BY DEF GraphInvariant, Expansions
    <2>3. g.nodes \subseteq h.nodes
      BY DEF Grown
    <2> HIDE DEF g, h, c
    <2>4. CASE e.on = None
      <3>1. h \in Drawings
        BY <1>0, <2>2, <2>4, GrownShape DEF Kept, GraphInvariant, h
      <3>2. h # None
        BY <3>1, NoneApart
      <3> QED
        BY <2>1, <2>2, <2>3, <2>4, <3>2 DEF Clean, Pointed
    <2>5. CASE e.on # None
      BY <2>1, <2>5 DEF Clean, Pointed
    <2> QED
      BY <2>4, <2>5
  <1>2. ASSUME NEW e \in expands, ExpandFails(e)
        PROVE  Clean(view', hook')
    BY <1>2 DEF ExpandFails
  <1>3. CASE RenameAnswers
    <2> DEFINE l == IF query.label = edit.from THEN Spare ELSE query.label
               q == [query EXCEPT !.label = l]
               v == Shown(edit.from, Spare)
    <2>1. l \in Names \cup {Star, NoLabel}
      BY <1>0, GraphAssumption DEF AllQueries
    <2> HIDE DEF l
    <2>2. q \in AllQueries
      BY <1>0, <2>1 DEF AllQueries
    <2>3. Effects(q, v, hook)
      BY <1>3 DEF RenameAnswers, l
    <2>4. Kept(v) /\ Clean(v, hook)
      <3>1. CASE view.graph = None \/ edit.from \notin view.graph.nodes \/ Spare \in view.graph.nodes
        BY <1>0, <3>1 DEF Shown
      <3>2. CASE ~(view.graph = None \/ edit.from \notin view.graph.nodes \/ Spare \in view.graph.nodes)
        <4> DEFINE g == Renamed(view.graph, edit.from, Spare)
        <4>1. view.graph \in Drawings /\ edit.from \in view.graph.nodes
              /\ Spare \in Names \ view.graph.nodes
          BY <1>0, <3>2, GraphAssumption DEF Kept
        <4>2. g \in Drawings /\ Spare \in g.nodes
          BY <4>1, RenamedSize DEF Renamed
        <4>3. v = [graph |-> g, counts |-> view.counts, selected |-> Spare]
          BY <1>0, <3>2 DEF Shown, Kept
        <4> HIDE DEF g, v
        <4> QED
          BY <3>2, <4>2, <4>3, NoneApart DEF Kept, Clean, Pointed
      <3> QED
        BY <3>1, <3>2
    <2> HIDE DEF q, v
    <2> QED
      BY <1>0, <2>2, <2>3, <2>4, EffectsPoint
  <1>4. CASE PropertyAnswers
    <2> DEFINE q == [query EXCEPT !.version = @ + 1]
    <2>1. q \in AllQueries
      BY <1>0 DEF AllQueries
    <2>2. Effects(q, view, hook) \/ (view' = view /\ hook' = hook)
      BY <1>4 DEF PropertyAnswers
    <2> HIDE DEF q
    <2> QED
      BY <1>0, <2>1, <2>2, EffectsPoint
  <1>5. CASE MergeAnswers
    BY <1>5 DEF MergeAnswers
  <1>6. CASE EditFails
    BY <1>6 DEF EditFails
  <1>7. ASSUME NEW i \in DOMAIN restores, Restore(i)
        PROVE  Clean(view', hook')
    <2> DEFINE q == [query EXCEPT !.label = restores[i]]
    <2>1. restores[i] \in Names \cup {Star, NoLabel}
      BY DEF GraphInvariant
    <2>2. q \in AllQueries /\ Effects(q, view, hook)
      BY <1>0, <1>7, <2>1 DEF AllQueries, Restore
    <2> HIDE DEF q
    <2> QED
      BY <1>0, <2>2, EffectsPoint
  <1> QED
    BY <1>1, <1>2, <1>3, <1>4, <1>5, <1>6, <1>7 DEF Answer

(* Every variable has its type: the selected node is in the graph that is  *)
(* shown, the layouts know whether there is one, an expansion whose graph  *)
(* is not its own has the shown one, retries are bounded, and a hidden     *)
(* panel has no refs.                                                      *)
THEOREM GraphTyped == Spec => []TypeOK
  <1> DEFINE Inv == GraphInvariant /\ LayoutInvariant /\ Clean(view, hook) /\ Drawn
  <1>1. Init => Inv
    <2>1. ASSUME Init
          PROVE  Clean(view, hook) /\ Drawn
      <3>1. /\ view.selected = None /\ view.graph = None /\ hook.tries.attempts = 0
            /\ hook.mounted = TRUE
        BY <2>1 DEF Init, Cleared, Unasked
      <3>2. 0 \in 0 .. MaxRetries
        BY GraphAssumption
      <3>3. drawn = FALSE
        BY <2>1 DEF Init, LayoutInit
      <3> QED
        BY <3>1, <3>2, <3>3 DEF Clean, Pointed, Drawn
    <2>2. Init => LayoutInvariant
      BY LayoutStarts DEF Init
    <2> QED
      BY <2>1, <2>2, GraphStarts
  <1>2. Inv /\ [Next]_vars => Inv'
    <2> SUFFICES ASSUME Inv, [Next]_vars
                 PROVE  Inv'
      OBVIOUS
    <2>1. GraphInvariant' /\ LayoutInvariant'
      BY GraphSteps, LayoutSteps, ViewMovesLayouts
    <2>2. Clean(view', hook')
      <3>1. CASE GraphStep
        BY <3>1, FetchPoints, ChoicesPoint, AnswersPoint DEF GraphStep
      <3>2. CASE UNCHANGED graphVars
        BY <3>2 DEF graphVars
      <3> QED
        BY <3>1, <3>2 DEF Next, vars
    <2>3. Drawn'
      <3>1. CASE Follow
        BY <3>1 DEF Follow, Drawn, GraphReplaced, layoutVars
      <3>2. CASE LayoutStep /\ UNCHANGED graphVars
        <4>1. drawn' = drawn
          BY <3>2 DEF LayoutStep, Rebuilt, InitialSettles, ChooseWorker, ChooseSync, Play,
                      Pause, WorkerStarts, WorkerDead, WorkerEnds, Stop
        <4> QED
          BY <3>2, <4>1 DEF Drawn, graphVars
      <3>3. CASE UNCHANGED vars
        BY <3>3 DEF vars, graphVars, layoutVars, Drawn
      <3> QED
        BY <3>1, <3>2, <3>3 DEF Next
    <2> QED
      BY <2>1, <2>2, <2>3 DEF Clean
  <1>3. Inv => TypeOK
    <2> SUFFICES ASSUME Inv
                 PROVE  TypeOK
      OBVIOUS
    <2>1. \A i \in DOMAIN restores : restores[i] \in Names \cup {Star, NoLabel}
      BY DEF GraphInvariant
    <2>2. view.graph # None =>
            view.graph.nodes \subseteq Names /\ view.graph.ties \subseteq SUBSET view.graph.nodes
      BY DEF GraphInvariant, Kept, Drawings
    <2>3. hook.signature \in AllQueries \cup {None}
      BY DEF GraphInvariant, Hooks
    <2>4. \A e \in expands : e.on = None => view.graph # None
      BY DEF GraphInvariant, Expansions
    <2>5. LayoutTypeOK /\ query \in AllQueries /\ drawn = (view.graph # None)
      BY DEF GraphInvariant, LayoutInvariant, Drawn
    <2> QED
      BY <2>1, <2>2, <2>3, <2>4, <2>5 DEF TypeOK, Clean, Pointed
  <1> HIDE DEF Inv
  <1> QED
    BY <1>1, <1>2, <1>3, PTL DEF Spec
=============================================================================
