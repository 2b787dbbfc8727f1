----------------------------- MODULE WebDreaming -----------------------------
(***************************************************************************)
(* The Balthasar tab: BalthasarView.tsx, components/DreamingSettings.tsx   *)
(* and the drawings of utils/dreamingGraph.ts.                             *)
(*                                                                         *)
(* A run of the Dreaming is started by anybody and ends; a success         *)
(* publishes partition, reports and status at once (how it does is the     *)
(* module Dreaming).  The status is polled whatever the tab, and a new     *)
(* poll does not wait for the one before, so that answers overtake each    *)
(* other.  The graph and the reports are loaded when the tab is in front,  *)
(* one load at a time: a newer one cancels it.  What was loaded is kept in  *)
(* the module, over a logout and the next login, but not over a reload.    *)
(*                                                                         *)
(* A graph is the number of the partition it shows, with the number of the *)
(* partition that was the latest when it was read; nothing is dreamt in    *)
(* the other workspaces.  Positions, colours, sizes, names and the texts of *)
(* the reports are left out.  The poll's interval, and when a run ends,    *)
(* are left to chance.                                                     *)
(***************************************************************************)
EXTENDS WebTabs, Naturals, FiniteSets, Sequences

CONSTANTS
    Members,        \* the Entities of the graph
    Nowhere,        \* no community, no graph, no load
    NoReports,      \* the reports could not be read
    Homes,          \* per partition: the community and the standing of each
    Ties,           \* the edges of the graph
    MaxRuns,        \* bound: runs that succeed
    MaxPolls        \* bound: polls of the status under way

Communities == {Homes[n][e].community : n \in 0..MaxRuns, e \in Members} \ {Nowhere}
Graphs == [of : 0..MaxRuns, asOf : 0..MaxRuns]
Loads == [graph : Graphs \cup {Nowhere}, reports : Graphs \cup {Nowhere, NoReports}]
ASSUME DreamingAssumption ==
    /\ MaxRuns \in Nat /\ MaxPolls \in Nat
    /\ \A n \in 0..MaxRuns, e \in Members : Homes[n][e].provisional \in BOOLEAN
    /\ Ties \subseteq Members \X Members
    /\ Communities \cap Members = {} /\ Nowhere \notin Members /\ NoReports # Nowhere
    /\ Nowhere \notin Loads

VARIABLES
    last,       \* the server: the status of the last run
    partition,  \* the server: the partition published last
    polls,      \* requests of the status under way
    wasActive,  \* previouslyActive
    busy,       \* status.active_run of the last answer
    starting,   \* the handler of the start button: where it is
    refreshed,  \* refreshKey # 0
    loads,      \* the load under way that is not cancelled, or Nowhere
    data, reports, failed,
    mode,       \* view
    chosen,     \* the node that is selected, or Nowhere
    noticed,    \* history: the newest success whose end was noticed
    missed      \* history: a login kept a graph, or reports, older than that

dreamServer == <<last, partition>>
statusVars == <<polls, wasActive, busy, starting>>
graphVars == <<refreshed, loads, data, reports, failed, mode, chosen>>
histories == <<noticed, missed>>
balthasar == <<statusVars, graphVars, histories>>

Modes == {"members", "communities"}
Poll1 == [now : BOOLEAN, step : {"asked", "half", "read"}, active : BOOLEAN,
          last : {"none", "running", "succeeded", "failed"}, partition : 0..MaxRuns]

DreamingTypeOK ==
    /\ last \in {"none", "running", "succeeded", "failed"} /\ partition \in 0..MaxRuns
    /\ polls \in Seq(Poll1)
    /\ {wasActive, busy, refreshed, failed, missed} \subseteq BOOLEAN
    /\ starting \in {"no", "asked", "done", "refused", "status"}
    /\ loads # Nowhere => loads \in Loads
    /\ data \in Graphs \cup {Nowhere} /\ reports \in Graphs \cup {Nowhere, NoReports}
    /\ mode \in Modes
    /\ noticed \in 0..MaxRuns

(* ----------------------------- the drawings ---------------------------- *)
(* A community counts from two stable members on; the members of the       *)
(* others are without one.                                                 *)
Stable(n, c) == {e \in Members : Homes[n][e].community = c /\ ~Homes[n][e].provisional}
Valid(n) == {c \in Communities : Cardinality(Stable(n, c)) >= 2}
Home(n, e) == IF Homes[n][e].community \in Valid(n) THEN Homes[n][e]
              ELSE [community |-> Nowhere, provisional |-> FALSE]

(* Members stand for themselves; in the drawing of the communities those   *)
(* that are stable stand in their community.                               *)
Alone(n) == {e \in Members : Home(n, e).provisional \/ Home(n, e).community = Nowhere}
Place(n, e) == IF e \in Alone(n) THEN e ELSE Home(n, e).community

MemberDrawing ==
    [nodes |-> Members, edges |-> {t \in Ties : t[1] # t[2]}, boundary |-> <<>>]

(* The edges of two communities become one, with their number.             *)
Ends(n, t) == {Place(n, t[1]), Place(n, t[2])}
Crossing(n) == {t \in Ties : Place(n, t[1]) # Place(n, t[2])}
Between(n) == {t \in Crossing(n) : Ends(n, t) \subseteq Valid(n)}
CommunityDrawing(n) ==
    IF Valid(n) = {} THEN MemberDrawing
    ELSE [nodes |-> Valid(n) \cup Alone(n),
          edges |-> {<<Home(n, e).community, e>> :
                        e \in {m \in Alone(n) : Home(n, m).provisional}}
                    \cup {<<Place(n, t[1]), Place(n, t[2])>> : t \in Crossing(n) \ Between(n)},
          boundary |-> [p \in {Ends(n, t) : t \in Between(n)} |->
                            Cardinality({t \in Between(n) : Ends(n, t) = p})]]
Drawing(graph, as) == IF as = "members" THEN MemberDrawing ELSE CommunityDrawing(graph.of)

(* ------------------------------ the server ----------------------------- *)
Offered == UNCHANGED <<balthasar, tab>>

RunStarts == last # "running" /\ partition < MaxRuns /\ last' = "running" /\ UNCHANGED partition
AnotherStarts == RunStarts /\ Offered
RunSucceeds ==
    /\ last = "running"
    /\ last' = "succeeded" /\ partition' = partition + 1
    /\ Offered
RunFails == last = "running" /\ last' = "failed" /\ UNCHANGED partition /\ Offered

(* What a request reads: nothing in a workspace that has never dreamed     *)
Read(dreams) == [of |-> IF dreams THEN partition ELSE 0, asOf |-> partition]

(* ------------------------------ the graph ------------------------------ *)
NewLoad == [graph |-> Nowhere, reports |-> Nowhere]

(* Mutant: the load that is under way goes on.                             *)
LoadEffectKeeps(front, again) ==
    IF ~front THEN loads' = Nowhere
    ELSE loads' = IF loads = Nowhere /\ (data = Nowhere \/ again) THEN NewLoad ELSE loads

(* The effect that loads, of a render with a new tab, refreshKey or query: *)
(* the load under way is cancelled; what was never refreshed is not loaded *)
(* twice.                                                                  *)
LoadEffect(front, again) ==
    loads' = IF front /\ (data = Nowhere \/ again) THEN NewLoad ELSE Nowhere

BalthasarTab(t) ==
    /\ LoadEffect(t = "balthasar", refreshed)
    /\ UNCHANGED <<statusVars, refreshed, data, reports, failed, mode, chosen, histories>>

Refresh ==
    /\ refreshed' = TRUE
    /\ LoadEffect(tab = "balthasar", TRUE)
    /\ UNCHANGED <<data, reports, failed, mode, chosen>>

(* The button is disabled while a load is under way.                       *)
RefreshGraph ==
    /\ tab = "balthasar" /\ loads = Nowhere
    /\ Refresh
    /\ UNCHANGED <<statusVars, histories>>

(* queryLabel, maxDepth or maxNodes change, with any tab in front.         *)
QueryChanges ==
    /\ LoadEffect(tab = "balthasar", refreshed)
    /\ UNCHANGED <<statusVars, refreshed, data, reports, failed, mode, chosen, histories>>

GraphReads(dreams) ==
    /\ loads # Nowhere /\ loads.graph = Nowhere
    /\ loads' = [loads EXCEPT !.graph = Read(dreams)]
    /\ UNCHANGED <<statusVars, refreshed, data, reports, failed, mode, chosen, histories>>

ReportsRead(dreams) ==
    /\ loads # Nowhere /\ loads.reports = Nowhere
    /\ \E r \in {Read(dreams), NoReports} : loads' = [loads EXCEPT !.reports = r]
    /\ UNCHANGED <<statusVars, refreshed, data, reports, failed, mode, chosen, histories>>

(* Both are there: a new drawing, with nothing selected.                   *)
LoadDone ==
    /\ loads # Nowhere /\ loads.graph # Nowhere /\ loads.reports # Nowhere
    /\ data' = loads.graph /\ reports' = loads.reports
    /\ loads' = Nowhere /\ failed' = FALSE /\ chosen' = Nowhere
    /\ missed' = FALSE
    /\ UNCHANGED <<statusVars, refreshed, mode, noticed>>

(* The request for the graph fails: what was shown stays.                  *)
LoadFailed ==
    /\ loads # Nowhere
    /\ loads' = Nowhere /\ failed' = TRUE
    /\ UNCHANGED <<statusVars, refreshed, data, reports, mode, chosen, histories>>

ChangeMode(m) ==
    /\ tab = "balthasar" /\ m # mode
    /\ mode' = m /\ chosen' = Nowhere
    /\ UNCHANGED <<statusVars, refreshed, loads, data, reports, failed, histories>>

Select(node) ==
    /\ tab = "balthasar" /\ data # Nowhere /\ node \in Drawing(data, mode).nodes
    /\ chosen' = node
    /\ UNCHANGED <<statusVars, refreshed, loads, data, reports, failed, mode, histories>>

(* ------------------------------ the status ----------------------------- *)
AskedPoll(now) == [now |-> now, step |-> "asked", active |-> FALSE, last |-> "none",
                   partition |-> 0]
Without(i) == SubSeq(polls, 1, i - 1) \o SubSeq(polls, i + 1, Len(polls))

(* The interval, or the button in the dialog                               *)
AskStatus ==
    /\ Len(polls) < MaxPolls
    /\ polls' = Append(polls, AskedPoll(FALSE))
    /\ UNCHANGED <<wasActive, busy, starting, graphVars, histories>>

(* get_dreaming_status: the active run first, then the last one and the    *)
(* snapshot, each in a transaction of its own.                             *)
StatusReads(i, dreams) ==
    /\ \/ polls[i].step = "asked"
          /\ polls' = [polls EXCEPT ![i].step = "half",
                                    ![i].active = dreams /\ last = "running"]
       \/ polls[i].step = "half"
          /\ polls' = [polls EXCEPT ![i].step = "read",
                                    ![i].last = IF dreams THEN last ELSE "none",
                                    ![i].partition = partition]
    /\ UNCHANGED <<wasActive, busy, starting, graphVars, histories>>

(* The start button waits for a poll of its own, however that ends.        *)
Polled(i) ==
    /\ polls' = Without(i)
    /\ starting' = IF polls[i].now THEN "no" ELSE starting

StatusAnswers(i) ==
    LET p == polls[i]
    IN  /\ p.step = "read"
        /\ Polled(i)
        /\ IF wasActive /\ ~p.active /\ p.last = "succeeded"
           THEN /\ Refresh
                /\ noticed' = IF p.partition > noticed THEN p.partition ELSE noticed
                /\ UNCHANGED missed
           ELSE UNCHANGED <<graphVars, histories>>
        /\ wasActive' = p.active /\ busy' = p.active

StatusFails(i) ==
    /\ Polled(i)
    /\ UNCHANGED <<wasActive, busy, graphVars, histories>>

(* dreamNow: the request for a run, then a poll                            *)
DreamNow ==
    /\ tab = "balthasar" /\ ~busy /\ starting = "no"
    /\ starting' = "asked"
    /\ UNCHANGED <<polls, wasActive, busy, graphVars, histories>>

(* Started, or refused: a run is active, the server does not know how.     *)
StartServed(dreams) ==
    /\ starting = "asked"
    /\ \/ dreams /\ RunStarts /\ starting' = "done"
       \/ starting' = "refused" /\ UNCHANGED dreamServer
    /\ UNCHANGED <<polls, wasActive, busy, graphVars, histories, tab>>

StartAnswers ==
    /\ starting = "done" /\ Len(polls) < MaxPolls
    /\ starting' = "status"
    /\ polls' = Append(polls, AskedPoll(TRUE))
    /\ UNCHANGED <<wasActive, busy, graphVars, histories>>

(* Refused, or the answer is lost.                                         *)
StartFails ==
    /\ starting \in {"asked", "done", "refused"}
    /\ starting' = "no"
    /\ UNCHANGED <<polls, wasActive, busy, graphVars, histories>>

(* -------------------------------- steps -------------------------------- *)
DreamingInit ==
    /\ last = "none" /\ partition = 0
    /\ polls = <<>> /\ wasActive = FALSE /\ busy = FALSE /\ starting = "no"
    /\ refreshed = FALSE /\ loads = Nowhere /\ data = Nowhere /\ reports = Nowhere
    /\ failed = FALSE /\ mode = "members" /\ chosen = Nowhere
    /\ noticed = 0 /\ missed = FALSE

(* The tab is mounted again: nothing is polled, refreshed or failed, and   *)
(* what is on it is loaded only if there is nothing.                       *)
Remounted(graph) ==
    /\ polls' = <<>> /\ wasActive' = FALSE /\ busy' = FALSE /\ starting' = "no"
    /\ refreshed' = FALSE /\ failed' = FALSE
    /\ loads' = IF tab = "balthasar" /\ graph = Nowhere THEN NewLoad ELSE Nowhere

(* The page is loaded anew.                                                *)
BalthasarMounted ==
    /\ Remounted(Nowhere)
    /\ data' = Nowhere /\ reports' = Nowhere
    /\ mode' = "members" /\ chosen' = Nowhere
    /\ noticed' = 0 /\ missed' = FALSE

(* A login after a logout: the graph, the reports, the view and what is    *)
(* selected are those of before (cachedDreamingData and the like), however *)
(* old they are.                                                           *)
Older == data # Nowhere /\ (data.asOf < noticed \/ (reports # NoReports /\ reports.asOf < noticed))
BalthasarKept ==
    /\ Remounted(data)
    /\ missed' = (missed \/ Older)
    /\ UNCHANGED <<data, reports, mode, chosen, noticed>>

BalthasarUser == RefreshGraph \/ QueryChanges \/ DreamNow
BalthasarLook ==
    \/ \E m \in Modes : ChangeMode(m)
    \/ \E n \in Members \cup Communities : Select(n)

BalthasarAnswers(dreams) ==
    \/ GraphReads(dreams) \/ ReportsRead(dreams) \/ LoadDone \/ LoadFailed
    \/ StartAnswers \/ StartFails
    \/ \E i \in DOMAIN polls : StatusReads(i, dreams) \/ StatusAnswers(i) \/ StatusFails(i)

(* Once a run is seen to have succeeded, the tab shows a graph, and        *)
(* reports, that were read after it did: whatever polls overtake each      *)
(* other, whenever the tab is left and whichever load is cancelled, unless *)
(* the last load failed.  Only a login that comes between the end of the   *)
(* run and the load keeps the older graph, until the next load.  What is   *)
(* selected is on the drawing.                                             *)
FinishIsShown ==
    /\ (tab = "balthasar" /\ loads = Nowhere /\ ~failed /\ ~missed) =>
          /\ data # Nowhere /\ data.asOf >= noticed
          /\ reports # NoReports => reports.asOf >= noticed
    /\ chosen # Nowhere => data # Nowhere /\ chosen \in Drawing(data, mode).nodes
=============================================================================
