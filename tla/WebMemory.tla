------------------------------ MODULE WebMemory ------------------------------
(***************************************************************************)
(* The memory tab: MemoryWorkspace.tsx.  One list per registry, a details  *)
(* panel per registry, two operator decisions (a contradiction between two *)
(* Atoms, an alias of several Entities), and the requests behind them.     *)
(* None of the requests is cancelled and no answer is compared with what   *)
(* the page shows by then.                                                 *)
(*                                                                         *)
(* A list is what was asked for and the workspace it was read from.  The   *)
(* records themselves, cards, badges, formatting and texts are left out,   *)
(* and so are the time sliders before they are applied.  Modal dialogs     *)
(* leave the rest of the page out of reach.  External: the server reads    *)
(* (memory_routes.py) and how it decides (sqlite/backend.py).  The server   *)
(* goes on with a decision whose page has given it up, or is gone.         *)
(***************************************************************************)
EXTENDS WebWorkspaces

CONSTANTS
    Atoms, Entities,    \* the records: two Atoms in contradiction, and the
                        \* Entities that share an alias
    Others,             \* records of the other registries: [kind -> ids]
    Owner,              \* the owner of an Atom, an Entity or a Relation
    Named,              \* Entities whose canonical name is the alias itself
    Queries, Pages,
    MaxCalls            \* bound on the page's requests at a time

Kinds == {"atoms", "entities"} \cup DOMAIN Others
Of(k) == CASE k = "atoms" -> Atoms [] k = "entities" -> Entities [] OTHER -> Others[k]
Filtered == Kinds \cap {"episodes", "atoms"}
Filters == {"all", "narrow"}

ASSUME MemoryAssumption ==
    /\ "" \in Queries /\ Pages \in Nat \ {0}
    /\ Named \subseteq Entities
    /\ \E a, b \in Atoms : a # b /\ Atoms = {a, b}
    /\ "episodes" \in DOMAIN Others
    /\ DOMAIN Others \subseteq {"episodes", "relations", "communities"}

VARIABLES
    view, page, query, filter,  \* what the toolbar says
    due,        \* the timer of the load effect is armed
    loading,
    lists,      \* per registry: what was asked for, where it was read
    pager,      \* pages and total: what was asked for
    detail,     \* per registry: the record on its panel, with what the panel
                \* says of an open decision
    conflict,   \* pendingConflict
    alias,      \* pendingAlias
    resolving, assigning,       \* resolvingConflict, resolvingAlias
    calls,      \* requests of the page, oldest first
    decided, assigned, merged,  \* the server: the Atom kept, the Entity that
                                \* got the alias, Entities merged into it
    unheard,    \* decisions the server is asked for that no page waits for
    late        \* history: the last answer to a load was not to the last one

toolbar == <<view, page, query, filter>>
panels == <<loading, lists, pager, detail, late>>
dialogs == <<conflict, alias, resolving, assigning>>
outcomes == <<decided, assigned, merged>>
records == <<outcomes, unheard>>
memoryVars == <<toolbar, due, panels, dialogs, calls, records>>

NoList == [at |-> None, from |-> None]
NoDetail == [id |-> None, open |-> FALSE]
Asked == [view |-> view, page |-> page, query |-> query,
          filter |-> IF view \in Filtered THEN filter[view] ELSE "all"]
Modal == conflict # None \/ alias # None

(* A request: for whom, the toolbar its handler closed over, the record it *)
(* names and the Atom that was on the panel.                               *)
Call(op, for, at, kind, id, sel) ==
    [op |-> op, for |-> for, at |-> at, kind |-> kind, id |-> id, sel |-> sel]
CanCall == Len(calls) < MaxCalls

(* What the server answers of one record now; nothing once it was merged   *)
(* or when another workspace is active.                                    *)
Readable(id) == active = Default /\ id \notin merged
Detail(k, id) ==
    [id |-> id,
     open |-> \/ k = "atoms" /\ decided = None
              \/ k = "entities" /\ assigned = None]

(* ------------------------------- lists --------------------------------- *)
(* Mutant: the load effect does not depend on the page.                    *)
EffectsPageless == due' = (due \/ [Asked' EXCEPT !.page = 0] # [Asked EXCEPT !.page = 0])

(* Every change of what the toolbar says arms the timer anew.              *)
Effects == due' = (due \/ Asked' # Asked)

(* load(): the overview, then the list of the view it was called in        *)
Overview(at, for) == Call("overview", for, at, None, None, None)
Load ==
    /\ CanCall
    /\ calls' = Append(calls, Overview(Asked, "page"))
    /\ loading' = TRUE

TimerFires ==
    /\ due
    /\ due' = FALSE
    /\ Load
    /\ UNCHANGED <<toolbar, lists, pager, detail, late, dialogs, records>>

(* The refresh button, or Enter in the search box                          *)
RefreshList ==
    /\ ~Modal /\ view # "ingest"
    /\ Load
    /\ UNCHANGED <<toolbar, lists, pager, detail, late, dialogs, records>>

(* The end of load(); the handler of a decision waits for it.              *)
Loaded(i) ==
    /\ loading' = FALSE
    /\ resolving' = (resolving /\ calls[i].for # "conflict")
    /\ UNCHANGED <<conflict, alias, assigning>>

OverviewAnswers(i) ==
    /\ calls[i].op = "overview"
    /\ IF calls[i].at.view = "ingest"
       THEN calls' = Drop(calls, i) /\ Loaded(i)
       ELSE calls' = [calls EXCEPT ![i].op = "list"] /\ UNCHANGED <<loading, dialogs>>
    /\ UNCHANGED <<toolbar, lists, pager, detail, late, records>>

(* An answer is shown whatever the toolbar says by now.                    *)
Shown(at) ==
    /\ lists' = [lists EXCEPT ![at.view] = [at |-> at, from |-> active]]
    /\ pager' = at
    /\ late' = (at # Asked)

ListAnswers(i) ==
    /\ calls[i].op = "list"
    /\ calls' = Drop(calls, i)
    /\ Shown(calls[i].at)
    /\ Loaded(i)
    /\ UNCHANGED <<toolbar, detail, records>>

LoadFails(i) ==
    /\ calls[i].op \in {"overview", "list"}
    /\ calls' = Drop(calls, i)
    /\ Loaded(i)
    /\ late' = TRUE
    /\ UNCHANGED <<toolbar, lists, pager, detail, records>>

(* ------------------------------ toolbar -------------------------------- *)
NoDetails == [k \in Kinds |-> NoDetail]
Go(v) == view' = v /\ page' = 1 /\ query' = "" /\ UNCHANGED filter

SwitchView(v) ==
    /\ ~Modal
    /\ Go(v)
    /\ detail' = NoDetails
    /\ UNCHANGED <<loading, lists, pager, late, dialogs, calls, records>>

(* pages of what the pager was asked for: a search or a filter leaves one  *)
PagesOf(at) == IF at = None THEN 0
               ELSE IF at.query = "" /\ at.filter = "all" THEN Pages ELSE 1

Turn(p) ==
    /\ ~Modal /\ view # "ingest"
    /\ PagesOf(pager) > 1
    /\ \/ p = page - 1 /\ page > 1
       \/ p = page + 1 /\ page < PagesOf(pager)
    /\ page' = p
    /\ UNCHANGED <<view, query, filter, panels, dialogs, calls, records>>

(* Typing in the search box leaves the page as it is.                      *)
Type(q) ==
    /\ ~Modal /\ view # "ingest" /\ q # query
    /\ query' = q
    /\ UNCHANGED <<view, page, filter, panels, dialogs, calls, records>>

(* changeFilter, applyTimeFilters and resetCurrentFilters                  *)
Filter(f) ==
    /\ ~Modal /\ view \in Filtered
    /\ filter' = [filter EXCEPT ![view] = f]
    /\ page' = 1
    /\ UNCHANGED <<view, query, panels, dialogs, calls, records>>

(* ------------------------------ details -------------------------------- *)
(* The rows of a list: what it shows of the workspace it was read from     *)
Row(k, id) == ~loading /\ view = k /\ lists[k].from = Default /\ id \in Of(k)

(* The records a panel links to                                            *)
Links(k) == CASE k = "atoms" -> {"atoms", "entities", "episodes"}
              [] k = "communities" -> {"entities"}
              [] OTHER -> {"atoms", "entities"}
Linked(k, id) ==
    \E j \in Kinds : detail[j].id # None /\ k \in Links(j)
        /\ (j = "atoms" /\ k = "entities" => id = Owner[detail[j].id])

(* openX: the other panels close at once, this one changes when it answers *)
OpenRow(k, id) ==
    /\ ~Modal /\ CanCall
    /\ Row(k, id)
    /\ detail' = [NoDetails EXCEPT ![k] = detail[k]]
    /\ calls' = Append(calls, Call("detail", "page", None, k, id, None))
    /\ UNCHANGED <<toolbar, loading, lists, pager, late, dialogs, records>>

(* openXById, openOwnerEntity: the list of the record's kind comes along   *)
OpenLink(k, id) ==
    /\ ~Modal /\ CanCall /\ view # "ingest"
    /\ id \in Of(k) /\ Linked(k, id)
    /\ Go(k)
    /\ detail' = [NoDetails EXCEPT ![k] = detail[k]]
    /\ calls' = Append(calls, Call("detail", "page", None, k, id, None))
    /\ UNCHANGED <<loading, lists, pager, late, dialogs, records>>

Close(k) ==
    /\ ~Modal /\ view # "ingest" /\ detail[k].id # None
    /\ detail' = [detail EXCEPT ![k] = NoDetail]
    /\ UNCHANGED <<toolbar, loading, lists, pager, late, dialogs, calls, records>>

(* The record is put on its panel, also under an open dialog.              *)
DetailAnswers(i) ==
    LET c == calls[i]
    IN  /\ c.op = "detail" /\ c.for = "page"
        /\ Readable(c.id)
        /\ calls' = Drop(calls, i)
        /\ detail' = [detail EXCEPT ![c.kind] = Detail(c.kind, c.id)]
        /\ conflict' = IF conflict # None /\ c.kind = "atoms" /\ c.id # detail[c.kind].id
                       THEN [conflict EXCEPT !.disturbed = TRUE] ELSE conflict
        /\ UNCHANGED <<toolbar, loading, lists, pager, late, alias, resolving, assigning, records>>

DetailFails(i) ==
    /\ calls[i].op = "detail" /\ calls[i].for = "page"
    /\ calls' = Drop(calls, i)
    /\ UNCHANGED <<toolbar, panels, dialogs, records>>

(* -------------------------- a contradiction ---------------------------- *)
Rival(a) == CHOOSE b \in Atoms : b # a

(* The buttons on the panel of an Atom whose contradiction looks open      *)
SelectWinner(w) ==
    /\ ~Modal /\ view # "ingest"
    /\ detail["atoms"].open /\ w \in Atoms
    /\ conflict' = [other |-> Rival(detail["atoms"].id), winner |-> w, disturbed |-> FALSE]
    /\ UNCHANGED <<toolbar, panels, alias, resolving, assigning, calls, records>>

DismissConflict ==
    /\ conflict # None /\ ~resolving
    /\ conflict' = None
    /\ UNCHANGED <<toolbar, panels, alias, resolving, assigning, calls, records>>

(* resolveConflict begins.  The action button of the dialog also closes    *)
(* it, since resolvingConflict is not yet set for its onOpenChange.        *)
ConfirmConflict ==
    /\ conflict # None /\ ~resolving /\ CanCall
    /\ resolving' = TRUE
    /\ conflict' = None
    /\ calls' = Append(calls, Call("decide", "conflict", Asked, "atoms",
                                   conflict.winner, detail["atoms"].id))
    /\ UNCHANGED <<toolbar, panels, alias, assigning, records>>

(* Mutant: the winner of a decided contradiction is not compared.          *)
MayDecideAgain(w) == active = Default

(* resolve_atom_conflict: another winner than the one that is stored is    *)
(* refused.                                                                *)
MayDecide(w) == active = Default /\ decided \in {None, w}

(* It reads, and checks, before its transaction begins; what it then       *)
(* writes does not look again.                                             *)
Checks(d) == d.op = "decide" /\ MayDecide(d.id)
Overwrites(d) == d.op = "checked" /\ decided' = d.id /\ UNCHANGED <<assigned, merged>>

Decide(i) ==
    LET c == calls[i]
        Goes(op) == calls' = [calls EXCEPT ![i].op = op]
    IN  /\ c.op \in {"decide", "checked"}
        /\ \/ Checks(c) /\ Goes("checked") /\ UNCHANGED outcomes
           \/ Overwrites(c) /\ Goes("decided")
           \/ Goes("refused") /\ UNCHANGED outcomes
        /\ UNCHANGED <<toolbar, panels, dialogs, unheard>>

(* The decision is accepted: the Atom that was on the panel is read again, *)
(* then the list the page showed when it was confirmed.                    *)
ReadAgain(i) ==
    /\ calls' = Append(Drop(calls, i), Overview(calls[i].at, "conflict"))
    /\ loading' = TRUE

DecideAnswers(i) ==
    /\ calls[i].op = "decided"
    /\ IF calls[i].sel # None
       THEN /\ calls' = [calls EXCEPT ![i].op = "detail", ![i].id = calls[i].sel]
            /\ UNCHANGED <<loading, conflict>>
       ELSE ReadAgain(i) /\ conflict' = None
    /\ UNCHANGED <<toolbar, lists, pager, detail, late, alias, resolving, assigning, records>>

(* Mutant: the dialog is left alone, its own button has closed it.         *)
RereadKeeps(i) ==
    LET c == calls[i]
    IN  /\ c.op = "detail" /\ c.for = "conflict"
        /\ Readable(c.id)
        /\ detail' = [detail EXCEPT !["atoms"] = Detail("atoms", c.id)]
        /\ ReadAgain(i)
        /\ UNCHANGED <<toolbar, lists, pager, late, dialogs, records>>

Reread(i) ==
    LET c == calls[i]
    IN  /\ c.op = "detail" /\ c.for = "conflict"
        /\ Readable(c.id)
        /\ detail' = [detail EXCEPT !["atoms"] = Detail("atoms", c.id)]
        /\ conflict' = None
        /\ ReadAgain(i)
        /\ UNCHANGED <<toolbar, lists, pager, late, alias, resolving, assigning, records>>

(* A request that ends before the server has answered                      *)
AtServer == {"decide", "checked", "assign"}
Left(c) == [op |-> c.op, id |-> c.id]
Unheard == [op : AtServer, id : Atoms \cup Entities]
GivenUp(c) == unheard' = IF c.op \in AtServer THEN Append(unheard, Left(c)) ELSE unheard

(* The catch and the finally of resolveConflict                            *)
DecideFails(i) ==
    LET c == calls[i]
    IN  /\ c.op \in {"decide", "checked", "decided", "refused", "detail"}
        /\ c.for = "conflict"
        /\ calls' = Drop(calls, i)
        /\ GivenUp(c)
        /\ resolving' = FALSE
        /\ UNCHANGED <<toolbar, panels, conflict, alias, assigning, outcomes>>

(* ------------------------------ an alias ------------------------------- *)
SelectOwner(e) ==
    /\ ~Modal /\ view # "ingest" /\ ~assigning
    /\ detail["entities"].open /\ e \in Entities
    /\ alias' = e
    /\ UNCHANGED <<toolbar, panels, conflict, resolving, assigning, calls, records>>

DismissAlias ==
    /\ alias # None /\ ~assigning
    /\ alias' = None
    /\ UNCHANGED <<toolbar, panels, conflict, resolving, assigning, calls, records>>

ConfirmAlias ==
    /\ alias # None /\ ~assigning /\ CanCall
    /\ assigning' = TRUE
    /\ alias' = None
    /\ calls' = Append(calls, Call("assign", "alias", Asked, "entities", alias, None))
    /\ UNCHANGED <<toolbar, panels, conflict, resolving, records>>

(* resolve_entity_alias: the Entities whose name is the alias are merged   *)
(* into the winner, which must then bear that name too.                    *)
Assignable(e) ==
    /\ assigned \in {None, e} /\ e \notin merged
    /\ Named \ (merged \cup {e}) # {} => e \in Named

AssignTo(e) ==
    /\ active = Default /\ Assignable(e)
    /\ assigned' = e /\ merged' = merged \cup (Named \ {e})
    /\ UNCHANGED decided

Assign(i) ==
    LET c == calls[i]
        Goes(op) == calls' = [calls EXCEPT ![i].op = op]
    IN  /\ c.op = "assign"
        /\ \/ AssignTo(c.id) /\ Goes("assigned")
           \/ Goes("refused") /\ UNCHANGED outcomes
        /\ UNCHANGED <<toolbar, panels, dialogs, unheard>>

(* What the server does with a decision that no page waits for             *)
ServeUnheard(i) ==
    LET d == unheard[i]
    IN  /\ \/ Checks(d) /\ unheard' = [unheard EXCEPT ![i].op = "checked"] /\ UNCHANGED outcomes
           \/ Overwrites(d) /\ unheard' = Drop(unheard, i)
           \/ d.op = "assign" /\ AssignTo(d.id) /\ unheard' = Drop(unheard, i)
           \/ unheard' = Drop(unheard, i) /\ UNCHANGED outcomes
        /\ UNCHANGED <<toolbar, due, panels, dialogs, calls>>

(* Accepted: the winner comes on its panel and the list of Entities is     *)
(* read again, with the page and the search of then.                       *)
AssignAnswers(i) ==
    LET at == [calls[i].at EXCEPT !.view = "entities", !.filter = "all"]
    IN  /\ calls[i].op = "assigned"
        /\ detail' = [detail EXCEPT !["entities"] = Detail("entities", calls[i].id)]
        /\ alias' = None
        /\ calls' = [calls EXCEPT ![i].op = "entities", ![i].at = at]
        /\ UNCHANGED <<toolbar, loading, lists, pager, late, conflict, resolving, assigning, records>>

EntitiesAnswer(i) ==
    /\ calls[i].op = "entities"
    /\ calls' = Drop(calls, i)
    /\ Shown(calls[i].at)
    /\ assigning' = FALSE
    /\ UNCHANGED <<toolbar, loading, detail, conflict, alias, resolving, records>>

AssignFails(i) ==
    /\ calls[i].for = "alias"
    /\ calls' = Drop(calls, i)
    /\ GivenUp(calls[i])
    /\ assigning' = FALSE
    /\ UNCHANGED <<toolbar, panels, conflict, alias, resolving, outcomes>>

(* ------------------------------- steps --------------------------------- *)
(* Whatever the page was waiting for, the server goes on with it.          *)
LetGo ==
    unheard' = unheard \o Kept([i \in DOMAIN calls |-> Left(calls[i])], Unheard)

(* Mutant: only the panels are closed, the lists stay.                     *)
MountedOver ==
    /\ detail' = NoDetails
    /\ conflict' = None /\ alias' = None /\ resolving' = FALSE /\ assigning' = FALSE
    /\ calls' = <<>> /\ loading' = FALSE /\ due' = TRUE
    /\ LetGo
    /\ UNCHANGED <<toolbar, lists, pager, late>>

(* The page is mounted, at first, by a reload or by a login.               *)
Start == [view |-> "episodes", page |-> 1, query |-> ""]
Mounted ==
    /\ view' = Start.view /\ page' = Start.page /\ query' = Start.query
    /\ filter' = [k \in Filtered |-> "all"]
    /\ due' = TRUE
    /\ loading' = FALSE
    /\ lists' = [k \in Kinds |-> NoList] /\ pager' = None /\ late' = FALSE
    /\ detail' = NoDetails
    /\ conflict' = None /\ alias' = None /\ resolving' = FALSE /\ assigning' = FALSE
    /\ calls' = <<>>
    /\ LetGo

MemoryInit ==
    /\ view = Start.view /\ page = Start.page /\ query = Start.query
    /\ filter = [k \in Filtered |-> "all"]
    /\ due = TRUE
    /\ loading = FALSE
    /\ lists = [k \in Kinds |-> NoList] /\ pager = None /\ late = FALSE
    /\ detail = NoDetails
    /\ conflict = None /\ alias = None /\ resolving = FALSE /\ assigning = FALSE
    /\ calls = <<>>
    /\ decided = None /\ assigned = None /\ merged = {} /\ unheard = <<>>

Toolbar ==
    \/ \E v \in Kinds \cup {"ingest"} : SwitchView(v)
    \/ \E p \in 1..Pages : Turn(p)
    \/ \E q \in Queries : Type(q)
    \/ \E f \in Filters : Filter(f)
    \/ RefreshList
Panels ==
    \/ \E k \in Kinds : Close(k) \/ \E id \in Of(k) : OpenRow(k, id) \/ OpenLink(k, id)
Dialogs ==
    \/ \E w \in Atoms : SelectWinner(w)
    \/ \E e \in Entities : SelectOwner(e)
    \/ DismissConflict \/ ConfirmConflict \/ DismissAlias \/ ConfirmAlias

(* What the server and the page do with the i-th request                   *)
MemoryAnswer(i) ==
    \/ OverviewAnswers(i) \/ ListAnswers(i) \/ LoadFails(i)
    \/ DetailAnswers(i) \/ DetailFails(i)
    \/ Decide(i) \/ DecideAnswers(i) \/ Reread(i) \/ DecideFails(i)
    \/ Assign(i) \/ AssignAnswers(i) \/ EntitiesAnswer(i) \/ AssignFails(i)
=============================================================================
