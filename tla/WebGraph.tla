------------------------------ MODULE WebGraph ------------------------------
(***************************************************************************)
(* The knowledge graph view of the WebUI: the hook useLightragGraph, the   *)
(* stores graph.ts and settings.ts, and the components that ask for a      *)
(* graph, expand, prune and edit it.  Composed with GraphLayouts, which    *)
(* follows the graph that is drawn.                                        *)
(*                                                                         *)
(* The hook lives in the property panel, which the user hides and shows.   *)
(* An action runs from one callback to the next, React's effects included. *)
(* What a depth or a node limit returns, sizes, colours, positions, edge   *)
(* selection, the search index, the random graph and the navigation that   *)
(* ends a session (see WebSession) are left out.  The session is valid.    *)
(* External: the server's graph; an answer is computed when it arrives.    *)
(***************************************************************************)
EXTENDS GraphLayouts, FiniteSets, Sequences, SequencesExt

CONSTANTS
    Names,      \* entity names
    Spare,      \* the name an entity can be given
    Star,       \* the label of the whole graph
    NoLabel,    \* ''
    Ties,       \* the server's relations at the start: sets of two names
    Depths, Limits,
    MaxRetries, \* MAX_FETCH_RETRIES
    MaxChoices  \* bound: what the user asks of the graph

(* A graph: relations are between the nodes that it has.                   *)
Drawings ==
    {g \in [nodes : SUBSET Names, ties : SUBSET SUBSET Names] : g.ties \subseteq SUBSET g.nodes}

AllQueries ==
    [label : Names \cup {Star, NoLabel}, depth : Nat, limit : Nat, version : Nat]

(* own: the panel that started the fetch is still there; tries: the        *)
(* retries it stands for.                                                  *)
Fetches ==
    [query : AllQueries, graph : Drawings \cup {None}, tries : Nat, own : BOOLEAN]

ASSUME GraphAssumption ==
    /\ Spare \in Names /\ {Star, NoLabel, None} \cap Names = {}
    /\ Star # NoLabel /\ Ties \subseteq SUBSET (Names \ {Spare})
    /\ Depths \subseteq Nat /\ Limits \subseteq Nat
    /\ {MaxRetries, MaxChoices} \subseteq Nat
    /\ IsFiniteSet(Names)
    /\ None \notin Drawings \cup AllQueries \cup Fetches

VARIABLES
    query,      \* queryLabel, graphQueryMaxDepth, graphMaxNodes, graphDataVersion
    restores,   \* labels that timers are going to put back
    view,       \* sigmaGraph with rawGraph, the two counts, selectedNode
    hook,       \* graphDataFetchAttempted, and the refs of useLightragGraph:
                \* signature and tries are those of the last panel, stamped
                \* is "this panel knows the signature"; strays: retry timers
                \* of panels that are gone; placed: "Graph Is Empty" is shown;
                \* lost: history, a retry of the last fetch was dropped
    expands,    \* expansions that wait for their answer
    edit,       \* the edit of an entity, or None before it
    server,     \* the server's entities and relations
    due,        \* graphDataVersion of the last refresh
    late,       \* has an expansion been applied to a graph that was replaced
    choices

graphVars == <<query, restores, view, hook, expands, edit, server, due, late, choices>>
vars == <<graphVars, layoutVars>>

Graph(nodes, ties) == [nodes |-> nodes, ties |-> {t \in ties : t \subseteq nodes}]

Near(g, n) == UNION {t \in g.ties : n \in t} \ {n}

Size(g) == [order |-> Cardinality(g.nodes), size |-> Cardinality(g.ties)]

NoCounts == [order |-> 0, size |-> 0]

(* reset() of the graph store                                              *)
Cleared == [graph |-> None, counts |-> NoCounts, selected |-> None]

Unasked == [query |-> None, attempts |-> 0]

-----------------------------------------------------------------------------
(* The effects of useLightragGraph.                                        *)

(* An expansion keeps the graph it was started on when the view drops it.  *)
Detached ==
    {IF e.on = None THEN [e EXCEPT !.on = view.graph] ELSE e : e \in expands}

Retries(q, h) == IF h.tries.query = q THEN h.tries.attempts ELSE 0

Fetching(q, h) ==
    [h EXCEPT !.attempted = TRUE, !.timer = FALSE, !.lost = FALSE,
              !.fetch = [query |-> q, graph |-> None, tries |-> Retries(q, h), own |-> TRUE]]

(* An empty label is fetched once: the placeholder comes, and the reset    *)
(* effect takes it away.                                                   *)
Emptied(q, h) ==
    [h EXCEPT !.attempted = FALSE, !.timer = FALSE, !.signature = q, !.stamped = TRUE,
              !.tries = Unasked, !.emptied = TRUE]

(* The reset effect and the fetch effect of a render that finds query q,   *)
(* the view v, and the refs h.                                             *)
Rendered(q, v, h) ==
    LET blank == q.label = NoLabel /\ (v.graph # None \/ h.placed)
        w == IF blank THEN Cleared ELSE v
        k == IF blank THEN [h EXCEPT !.attempted = FALSE, !.placed = FALSE] ELSE h
        closed == k.fetch # None \/ k.attempted \/ (q.label = NoLabel /\ k.emptied)
        known == k.stamped /\ k.signature = q
    IN  \/ closed /\ view' = w /\ hook' = k
        \/ /\ ~closed /\ known
           /\ view' = w /\ hook' = [k EXCEPT !.attempted = TRUE]
        \/ /\ ~closed /\ ~known /\ q.label = NoLabel
           /\ view' = Cleared /\ hook' = Emptied(q, k)
        \/ /\ ~closed /\ ~known /\ q.label # NoLabel
           /\ view' = [w EXCEPT !.selected = None] /\ hook' = Fetching(q, k)

(* The effects run while the panel is shown, when something they depend on *)
(* has changed.                                                            *)
Effects(q, v, h) ==
    /\ query' = q
    /\ IF h.mounted /\ (q # query \/ h # hook) THEN Rendered(q, v, h)
       ELSE view' = v /\ hook' = h
    /\ expands' = IF view'.graph = None THEN Detached ELSE expands

-----------------------------------------------------------------------------
(* The fetch.                                                              *)

(* External: the nodes the server returns for a label.                     *)
Found(q) ==
    IF q.label = Star THEN server
    ELSE IF q.label \in server.nodes
    THEN Graph({q.label} \cup Near(server, q.label), server.ties)
    ELSE Graph({}, {})

(* The store is reset, and the graph is built in slices.                   *)
Arrives ==
    /\ hook.fetch # None /\ hook.fetch.graph = None
    /\ Found(hook.fetch.query).nodes # {}
    /\ view' = Cleared
    /\ hook' = [hook EXCEPT !.fetch.graph = Found(hook.fetch.query), !.placed = FALSE]
    /\ expands' = Detached
    /\ UNCHANGED <<query, restores, edit, server, due, late, choices>>

(* Mutant: the end of a fetch closes the gate.                             *)
EndedClosed(h) ==
    [h EXCEPT !.fetch = None, !.signature = h.fetch.query, !.stamped = h.fetch.own,
              !.tries = Unasked, !.attempted = TRUE]

(* The signature is known to the panel that fetched, if it is still there. *)
Ended(h) ==
    [h EXCEPT !.fetch = None, !.signature = h.fetch.query, !.stamped = h.fetch.own,
              !.tries = Unasked]

(* Nothing was found: the label is cleared, whatever it is by now, and     *)
(* where the effects run the placeholder goes with it.                     *)
ArrivesEmpty ==
    /\ hook.fetch # None /\ hook.fetch.graph = None
    /\ Found(hook.fetch.query).nodes = {}
    /\ Effects([query EXCEPT !.label = NoLabel], Cleared,
               [Ended(hook) EXCEPT !.placed = TRUE])
    /\ UNCHANGED <<restores, edit, server, due, late, choices>>

Built ==
    /\ hook.fetch # None /\ hook.fetch.graph # None
    /\ LET g == hook.fetch.graph
       IN  Effects(query, [graph |-> g, counts |-> Size(g), selected |-> view.selected], Ended(hook))
    /\ UNCHANGED <<restores, edit, server, due, late, choices>>

BuildFails ==
    /\ hook.fetch # None /\ hook.fetch.graph # None
    /\ Effects(query, view, Ended(hook))
    /\ UNCHANGED <<restores, edit, server, due, late, choices>>

(* Mutant: a failed request opens the gate at once.                        *)
FailedOpen(h) == [h EXCEPT !.fetch = None, !.attempted = FALSE]

(* A failed request: a timer tries again, a bounded number of times.  The  *)
(* timer of a panel that is gone still opens the gate.                     *)
Failed(h) ==
    LET q == h.fetch.query
        n == h.fetch.tries
    IN  IF n < MaxRetries
        THEN IF h.fetch.own
             THEN [h EXCEPT !.fetch = None, !.timer = TRUE,
                            !.tries = [query |-> q, attempts |-> n + 1]]
             ELSE [h EXCEPT !.fetch = None, !.strays = @ + 1, !.lost = TRUE]
        ELSE [h EXCEPT !.fetch = None, !.signature = q, !.stamped = h.fetch.own]

FetchFails ==
    /\ hook.fetch # None /\ hook.fetch.graph = None
    /\ Effects(query, view, Failed(hook))
    /\ UNCHANGED <<restores, edit, server, due, late, choices>>

RetryFires ==
    /\ hook.timer
    /\ Effects(query, view, [hook EXCEPT !.timer = FALSE, !.attempted = FALSE])
    /\ UNCHANGED <<restores, edit, server, due, late, choices>>

(* The nonce it changes is of a panel that is gone: no effect runs.        *)
StrayFires ==
    /\ hook.strays > 0
    /\ hook' = [hook EXCEPT !.strays = @ - 1, !.attempted = FALSE]
    /\ UNCHANGED <<query, restores, view, expands, edit, server, due, late, choices>>

-----------------------------------------------------------------------------
(* What the user asks for.                                                 *)

Choice == choices < MaxChoices /\ choices' = choices + 1

Open(h) == [h EXCEPT !.attempted = FALSE]

(* handleRefresh of GraphLabels                                            *)
Refresh ==
    /\ Choice
    /\ due' = query.version + 1
    /\ Effects([query EXCEPT !.label = IF @ = NoLabel THEN Star ELSE @, !.version = @ + 1],
               view, Open(hook))
    /\ UNCHANGED <<restores, edit, server, late>>

SetDepth(d) ==
    /\ Choice
    /\ d # query.depth
    /\ Effects([query EXCEPT !.depth = d], view, Open(hook))
    /\ UNCHANGED <<restores, edit, server, due, late>>

(* setGraphMaxNodes clears the label and puts it back 300 ms later; it     *)
(* leaves the gate to the reset effect.                                    *)
SetMaxNodes(n) ==
    /\ Choice
    /\ n # query.limit
    /\ restores' = Append(restores, query.label)
    /\ Effects([query EXCEPT !.limit = n, !.label = NoLabel], view, hook)
    /\ UNCHANGED <<edit, server, due, late>>

Restore(i) ==
    /\ restores' = RemoveAt(restores, i)
    /\ Effects([query EXCEPT !.label = restores[i]], view, hook)
    /\ UNCHANGED <<edit, server, due, late, choices>>

Select(n) ==
    /\ view' = [view EXCEPT !.selected = n]
    /\ UNCHANGED <<query, restores, hook, expands, edit, server, due, late, choices>>

(* Hiding the panel drops the refs of its hook, clears the retry timer and *)
(* leaves the gate of the store as it is; a request goes on.               *)
HidePanel ==
    /\ Choice
    /\ hook.mounted
    /\ hook' = [hook EXCEPT !.mounted = FALSE, !.stamped = FALSE, !.tries = Unasked,
                            !.timer = FALSE, !.emptied = FALSE, !.lost = @ \/ hook.timer,
                            !.fetch = IF @ = None THEN None ELSE [@ EXCEPT !.own = FALSE]]
    /\ edit' = IF edit = None THEN None
               ELSE [edit EXCEPT !.phase = IF @ = "asked" THEN "left" ELSE "done"]
    /\ UNCHANGED <<query, restores, view, expands, server, due, late>>

(* The effects of a new hook, whose refs are empty.                        *)
ShowPanel ==
    /\ Choice
    /\ ~hook.mounted
    /\ Effects(query, view, [hook EXCEPT !.mounted = TRUE])
    /\ UNCHANGED <<restores, edit, server, due, late>>

-----------------------------------------------------------------------------
(* Expanding and pruning the node that the panel shows, in place.          *)

PanelShows == hook.mounted /\ view.selected # None

Expand ==
    /\ Choice
    /\ PanelShows
    /\ expands' = expands \cup {[id |-> choices, node |-> view.selected, on |-> None]}
    /\ UNCHANGED <<query, restores, view, hook, edit, server, due, late>>

(* Graph g with the neighbours of n that it lacks, and the relations       *)
(* between what it has then; unchanged if there are none, or if n is gone. *)
Grown(g, n) ==
    LET new == IF n \in server.nodes THEN Near(server, n) \ g.nodes ELSE {}
        all == g.nodes \cup new
    IN  IF new = {} \/ n \notin g.nodes THEN g
        ELSE [nodes |-> all, ties |-> g.ties \cup {t \in server.ties : t \subseteq all}]

(* The expansion changes the graph it kept, and the counts of the store.   *)
ExpandAnswers(e) ==
    LET g == IF e.on = None THEN view.graph ELSE e.on
        h == Grown(g, e.node)
    IN  /\ expands' = expands \ {e}
        /\ view' = [view EXCEPT !.graph = IF e.on = None THEN h ELSE @,
                                !.counts = IF h # g THEN Size(h) ELSE @]
        /\ late' = (late \/ (e.on # None /\ h # g))
        /\ UNCHANGED <<query, restores, hook, edit, server, due, choices>>

ExpandFails(e) ==
    /\ expands' = expands \ {e}
    /\ UNCHANGED <<query, restores, view, hook, edit, server, due, late, choices>>

(* The node and the neighbours it would leave alone                        *)
Doomed(g, n) == {n} \cup {m \in Near(g, n) : Near(g, m) = {n}}

(* Mutant: the counts stay.                                                *)
RecountedNever(g) == view.counts

Recounted(g) == Size(g)

Prune ==
    /\ Choice
    /\ PanelShows
    /\ LET g == view.graph
           h == Graph(g.nodes \ Doomed(g, view.selected), g.ties)
       IN  view' = IF h.nodes = {} THEN view
                   ELSE [graph |-> h, counts |-> Recounted(h), selected |-> None]
    /\ UNCHANGED <<query, restores, hook, expands, edit, server, due, late>>

-----------------------------------------------------------------------------
(* Editing an entity: EditablePropertyRow, once.                           *)

(* to is its new name, a name to merge with, or None for another property. *)
EditBegin(to) ==
    /\ Choice
    /\ edit = None
    /\ PanelShows
    /\ to # view.selected
    /\ to \in {None, Spare} \cup server.nodes
    /\ edit' = [from |-> view.selected, to |-> to, phase |-> "asked"]
    /\ UNCHANGED <<query, restores, view, hook, expands, server, due, late>>

Phase(p) == edit' = [edit EXCEPT !.phase = p]

(* An answer is applied even if the panel that asked is gone.              *)
Asked == edit # None /\ edit.phase \in {"asked", "left"}

Renamed(g, a, b) ==
    [nodes |-> {IF n = a THEN b ELSE n : n \in g.nodes},
     ties  |-> {{IF n = a THEN b ELSE n : n \in t} : t \in g.ties}]

(* Two merged entities have no relation with each other.                   *)
Merged(g, a, b) ==
    [Renamed(g, a, b) EXCEPT !.ties = {t \in @ : Cardinality(t) = 2}]

(* updateNodeAndSelect on the graph that is shown, whichever it is by now. *)
Shown(a, b) ==
    IF view.graph = None \/ a \notin view.graph.nodes \/ b \in view.graph.nodes THEN view
    ELSE [view EXCEPT !.graph = Renamed(@, a, b), !.selected = b]

RenameAnswers ==
    /\ Asked /\ edit.to = Spare /\ edit.from \in server.nodes
    /\ Phase("done")
    /\ server' = Renamed(server, edit.from, Spare)
    /\ Effects([query EXCEPT !.label = IF @ = edit.from THEN Spare ELSE @],
               Shown(edit.from, Spare), hook)
    /\ UNCHANGED <<restores, due, late, choices>>

(* A change of another property makes a new version, and no refetch.       *)
PropertyAnswers ==
    /\ Asked /\ edit.to = None
    /\ Phase("done")
    /\ IF view.graph # None /\ edit.from \in view.graph.nodes
       THEN Effects([query EXCEPT !.version = @ + 1], view, hook)
       ELSE UNCHANGED <<query, view, hook, expands>>
    /\ UNCHANGED <<restores, server, due, late, choices>>

(* The dialog opens if the panel that asked is still there.                *)
MergeAnswers ==
    /\ Asked /\ edit.to \in server.nodes /\ edit.from \in server.nodes
    /\ server' = Merged(server, edit.from, edit.to)
    /\ Phase(IF edit.phase = "asked" /\ view.selected # None THEN "merged" ELSE "done")
    /\ UNCHANGED <<query, restores, view, hook, expands, due, late, choices>>

EditFails ==
    /\ Asked
    /\ Phase("done")
    /\ UNCHANGED <<query, restores, view, hook, expands, server, due, late, choices>>

(* handleMergeRefresh: from the merged entity, or from the same label.     *)
MergeRefresh(start) ==
    /\ edit # None /\ edit.phase = "merged"
    /\ PanelShows
    /\ start \/ query.label # edit.from
    /\ Phase("done")
    /\ restores' = IF start THEN restores ELSE Append(restores, query.label)
    /\ due' = query.version + 1
    /\ Effects([query EXCEPT !.label = IF start THEN edit.to ELSE NoLabel, !.version = @ + 1],
               [view EXCEPT !.selected = None], Open(hook))
    /\ UNCHANGED <<server, late, choices>>

-----------------------------------------------------------------------------
(* The view opens with the label of the last session, by default Star.     *)
Start0 == [label |-> Star, depth |-> 1, limit |-> 1, version |-> 0]

Init ==
    /\ query = Start0
    /\ restores = <<>>
    /\ view = Cleared
    /\ hook = [attempted |-> TRUE,
               fetch |-> [query |-> Start0, graph |-> None, tries |-> 0, own |-> TRUE],
               signature |-> None, stamped |-> FALSE, tries |-> Unasked, timer |-> FALSE,
               emptied |-> FALSE, mounted |-> TRUE, placed |-> FALSE, strays |-> 0,
               lost |-> FALSE]
    /\ expands = {}
    /\ edit = None
    /\ server = Graph(Names \ {Spare}, Ties)
    /\ due = 0
    /\ late = FALSE
    /\ choices = 0
    /\ LayoutInit

Fetch == Arrives \/ ArrivesEmpty \/ Built \/ BuildFails \/ FetchFails

User ==
    \/ Refresh
    \/ \E d \in Depths : SetDepth(d)
    \/ \E n \in Limits : SetMaxNodes(n)
    \/ HidePanel \/ ShowPanel
    \/ view.graph # None /\ \E n \in view.graph.nodes : Select(n)
    \/ Expand \/ Prune
    \/ \E to \in Names \cup {None} : EditBegin(to)
    \/ \E start \in BOOLEAN : MergeRefresh(start)

Answer ==
    \/ \E e \in expands : ExpandAnswers(e) \/ ExpandFails(e)
    \/ RenameAnswers \/ PropertyAnswers \/ MergeAnswers \/ EditFails

GraphStep ==
    \/ Fetch \/ RetryFires \/ StrayFires \/ User \/ Answer
    \/ \E i \in DOMAIN restores : Restore(i)

(* The layouts see that a graph was replaced or cleared.                   *)
Follow ==
    IF (view.graph = None) = (view'.graph = None) THEN UNCHANGED layoutVars
    ELSE GraphReplaced(view'.graph # None)

Next ==
    \/ GraphStep /\ Follow
    \/ LayoutStep /\ UNCHANGED graphVars

Spec == Init /\ [][Next]_vars

(* The server answers, and timers fire.                                    *)
Fairness ==
    /\ WF_vars(Fetch /\ Follow)
    /\ WF_vars(RetryFires /\ Follow)

FairSpec == Spec /\ Fairness

-----------------------------------------------------------------------------
AtRest == hook.fetch = None /\ ~hook.timer /\ restores = <<>>

TypeOK ==
    /\ LayoutTypeOK
    /\ query \in AllQueries
    /\ \A i \in DOMAIN restores : restores[i] \in Names \cup {Star, NoLabel}
    /\ view.selected # None => view.graph # None /\ view.selected \in view.graph.nodes
    /\ view.graph # None =>
        view.graph.nodes \subseteq Names /\ view.graph.ties \subseteq SUBSET view.graph.nodes
    /\ hook.signature \in AllQueries \cup {None}
    /\ hook.tries.attempts \in 0 .. MaxRetries
    /\ hook.timer \/ hook.stamped => hook.mounted
    /\ \A e \in expands : e.on = None => view.graph # None
    /\ drawn = (view.graph # None)

(* What the user asked for last is what was fetched last: when nothing is  *)
(* under way and the panel is shown, the last fetch had the depth that is  *)
(* chosen and was not older than the last refresh, however many fetches,   *)
(* retries, cleared labels and hidden panels came between, unless that     *)
(* fetch failed and hiding the panel dropped its retry.  About the gate    *)
(* graphDataFetchAttempted, which outlives the signature guard and the     *)
(* retry timer of useLightragGraph.                                        *)
RefreshServed ==
    AtRest /\ hook.mounted /\ ~hook.lost /\ query.label # NoLabel =>
        /\ hook.signature # None
        /\ hook.signature.depth = query.depth
        /\ hook.signature.version >= due

(* The counts of the status bar are those of the graph that is shown,      *)
(* unless an expansion was answered after its graph had been replaced.     *)
(* About graph.ts, "Kept as a store invariant".                            *)
OnlyLateMiscounts ==
    ~late => view.counts = IF view.graph = None THEN NoCounts ELSE Size(view.graph)

(* The view stops fetching: neither failures nor cleared labels make the   *)
(* "infinite request loop" that the guards of the fetch effect are for.    *)
Settles == <>[](hook.fetch = None /\ ~hook.timer)
=============================================================================
