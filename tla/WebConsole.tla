----------------------------- MODULE WebConsole -----------------------------
(***************************************************************************)
(* One browser tab over one server: the workspace switcher, the memory     *)
(* tab, Melchior, Balthasar and the settings of the models.  All the tabs  *)
(* stay mounted (App.tsx); a change of the workspace loads the page anew,  *)
(* and with it everything they hold; a logout and the next login mount     *)
(* them again over what their modules keep.                                *)
(*                                                                         *)
(* The records, the exploration log and what is dreamt are those of the    *)
(* workspace Default; another workspace is empty.                          *)
(***************************************************************************)
EXTENDS WebMemory, ExplorationTrace, WebDreaming, WebModels

CONSTANT Budgets    \* bound: how often the user and the agent act on each
                    \* part; a part without a budget stays as it starts

VARIABLE left       \* what is left of it

Parts == {"header", "toolbar", "panels", "dialogs", "tabs", "trace", "dream", "look",
          "status", "models", "login"}
ASSUME BudgetsAssumption ==
    \A b \in Budgets : DOMAIN b \subseteq Parts /\ \A p \in DOMAIN b : b[p] \in Nat

vars == <<headerVars, memoryVars, logVars, melchior, dreamServer, balthasar, modelVars,
          tab, left>>

TypeOK ==
    /\ HeaderTypeOK /\ TraceTypeOK /\ DreamingTypeOK /\ ModelsTypeOK
    /\ tab \in Tabs
    /\ view \in Kinds \cup {"ingest"} /\ page \in 1..Pages /\ query \in Queries
    /\ filter \in [Filtered -> Filters]
    /\ {due, loading, late, resolving, assigning} \subseteq BOOLEAN
    /\ \A k \in Kinds :
          /\ lists[k].at # None => lists[k].at.view = k
          /\ detail[k].id \in Of(k) \cup {None}
    /\ \A i \in DOMAIN calls : calls[i].kind # None => calls[i].id \in Of(calls[i].kind)
    /\ loading => \E i \in DOMAIN calls : calls[i].op \in {"overview", "list"}
    /\ unheard \in Seq(Unheard)
    /\ resolving <=> \E i \in DOMAIN calls : calls[i].for = "conflict"
    /\ assigning <=> \E i \in DOMAIN calls : calls[i].for = "alias"

Init ==
    /\ HeaderInit /\ MemoryInit /\ TraceInit /\ DreamingInit /\ ModelsInit
    /\ tab = "documents"
    /\ left \in Budgets

InPlay(part) == part \in DOMAIN left
Spend(part) ==
    /\ InPlay(part) /\ left[part] > 0
    /\ left' = [left EXCEPT ![part] = @ - 1]

(* Out of reach while a dialog is open                                     *)
Reachable == ~Modal /\ ~mounted

(* What a step of one part leaves alone                                    *)
dreaming == <<dreamServer, balthasar>>
NotTheHeader == UNCHANGED <<memoryVars, logVars, melchior, dreaming, modelVars, tab>>
NotTheMemory == UNCHANGED <<headerVars, logVars, melchior, dreaming, modelVars, tab>>
notTheTrace == <<headerVars, memoryVars, dreaming, modelVars, tab>>
NotTheDream == UNCHANGED <<headerVars, memoryVars, logVars, melchior, modelVars>>
NotTheModels == UNCHANGED <<headerVars, memoryVars, logVars, melchior, dreaming, tab>>

Header ==
    /\ \/ HeaderUser /\ Reachable /\ Spend("header")
       \/ HeaderAnswer /\ InPlay("header") /\ UNCHANGED left
    /\ NotTheHeader

(* Every tab is mounted; the current one is kept in the browser.           *)
PageMounted ==
    /\ Mounted
    /\ polling' = FALSE /\ wanted' = Nothing /\ replay' = Nothing
    /\ orphan = NoRole /\ Abandon /\ Shut(FALSE)
    /\ UNCHANGED <<outcomes, logVars, dreamServer, routes, mixed, tab>>

(* The page is loaded anew.                                                *)
Again ==
    /\ Reload
    /\ PageMounted
    /\ Unfollowed
    /\ BalthasarMounted
    /\ UNCHANGED left

(* A logout, or a 401, and a login: the App is unmounted and mounted       *)
(* (AppRouter.tsx), the exploration store and what BalthasarView.tsx keeps *)
(* are those of before.  The two are one step.                             *)
LogInAgain ==
    /\ HeaderMountedAgain
    /\ PageMounted
    /\ UNCHANGED <<current, lastSeq, events, frames>>
    /\ BalthasarKept
    /\ Spend("login")

(* setCurrentTab; the effects of Melchior and Balthasar depend on it       *)
SwitchTab(t) ==
    /\ Reachable /\ t # tab
    /\ tab' = t
    /\ MelchiorTab
    /\ BalthasarTab(t)
    /\ Spend("tabs")
    /\ UNCHANGED <<headerVars, memoryVars, logVars, dreamServer, modelVars>>

Timer == InPlay("toolbar") /\ TimerFires /\ NotTheMemory /\ UNCHANGED left

MemoryActs ==
    /\ tab = "documents" /\ ~deleting /\ ~mounted
    /\ \/ Toolbar /\ Spend("toolbar")
       \/ Panels /\ Spend("panels")
       \/ Dialogs /\ Spend("dialogs")
    /\ Effects
    /\ NotTheMemory

MemoryAnswers(i) == MemoryAnswer(i) /\ Effects /\ NotTheMemory /\ UNCHANGED left
ServerDecides(i) == ServeUnheard(i) /\ NotTheMemory /\ UNCHANGED left

(* The events and the traces of the active workspace                       *)
Poll ==
    \/ AskTraces \/ AskEvents \/ PollFails
    \/ TracesAnswer(IF active = Default THEN recent ELSE <<>>)
    \/ EventsAnswer(active = Default)
elsewhere == <<notTheTrace, logVars>>

Melchior ==
    /\ UNCHANGED elsewhere
    /\ \/ Poll /\ UNCHANGED left
       \/ Reachable /\ Spend("trace") /\ (ReturnToLive \/ \E c \in Calls : Replay(c))

AgentActs == Agent /\ Spend("trace") /\ UNCHANGED <<notTheTrace, melchior>>

(* The Dreaming, and its tab                                               *)
Balthasar ==
    /\ \/ /\ Reachable
          /\ (BalthasarUser /\ Spend("dream")) \/ (BalthasarLook /\ Spend("look"))
          /\ UNCHANGED <<dreamServer, tab>>
       \/ /\ BalthasarAnswers(active = Default) /\ InPlay("dream")
          /\ UNCHANGED <<dreamServer, tab, left>>
       \/ (StartServed(active = Default) \/ RunSucceeds \/ RunFails) /\ UNCHANGED left
       \/ AnotherStarts /\ Spend("dream")
       \/ AskStatus /\ Spend("status") /\ UNCHANGED <<dreamServer, tab>>
    /\ NotTheDream

Models ==
    /\ \/ ModelsUser /\ ~Modal /\ Spend("models")
       \/ ModelsAnswers /\ UNCHANGED left
    /\ NotTheModels

Next ==
    \/ Header \/ Again \/ LogInAgain
    \/ \E t \in Tabs : SwitchTab(t)
    \/ Timer \/ MemoryActs
    \/ \E i \in DOMAIN calls : MemoryAnswers(i)
    \/ \E i \in DOMAIN unheard : ServerDecides(i)
    \/ Melchior \/ AgentActs
    \/ Balthasar \/ Models

Spec == Init /\ [][Next]_vars

(* A poll is repeated until one of its answers arrives.                    *)
Fairness ==
    /\ WF_vars(AskTraces /\ UNCHANGED <<elsewhere, left>>)
    /\ WF_vars(AskEvents /\ UNCHANGED <<elsewhere, left>>)
    /\ SF_vars(TracesAnswer(IF active = Default THEN recent ELSE <<>>)
               /\ UNCHANGED <<elsewhere, left>>)
    /\ SF_vars(EventsAnswer(active = Default) /\ UNCHANGED <<elsewhere, left>>)
FairSpec == Spec /\ Fairness

(* ------------------------------ properties ----------------------------- *)
(* Once nothing is under way the list on the page is the one its toolbar   *)
(* asks for, and so are the page count and the total; only an answer that  *)
(* came late, or a failed one, leaves another list there.                  *)
ListIsAsked ==
    (~due /\ calls = <<>> /\ view # "ingest" /\ ~late) =>
        lists[view].at = Asked /\ pager = Asked

(* The dialog of a contradiction names as kept the Atom the server will    *)
(* keep, by the text it takes from the panel: only a details answer that   *)
(* was under way when the dialog opened changes the panel below it.        *)
Keeps == IF conflict.winner = detail["atoms"].id THEN detail["atoms"].id ELSE conflict.other
DialogTruthful ==
    (conflict # None /\ ~conflict.disturbed) => Keeps = conflict.winner

(* A contradiction that is decided, with no decision for the other Atom    *)
(* left between its check and its write, keeps its winner for ever:        *)
(* whatever stale panels, repeated decisions and given-up requests ask     *)
(* for.  Only decisions that overlap replace one another's winner.         *)
Checked == {calls[i].id : i \in {j \in DOMAIN calls : calls[j].op = "checked"}}
    \cup {unheard[i].id : i \in {j \in DOMAIN unheard : unheard[j].op = "checked"}}
Settled == decided # None /\ Checked \subseteq {decided}
DecisionStands == [][Settled => Settled' /\ decided' = decided]_vars

(* Everything on the page is of one workspace, the one its header names,   *)
(* unless a change of the workspace was served and its answer is on its    *)
(* way, was lost, or had no page to go to.                                 *)
OneWorkspace ==
    \/ astray
    \/ \E i \in DOMAIN asked : asked[i].heard /\ asked[i].state = "done"
    \/ /\ here \in {None, active}
       /\ \A k \in Kinds : lists[k].from \in {None, active}
       /\ current # Nothing \/ (\E k \in Kinds : detail[k].id # None) => active = Default
       /\ data # Nowhere /\ data.of > 0 => active = Default

(* What was visited stays on the drawing of an exploration, and a scene of *)
(* its history stands still while events go on coming.                     *)
VisitedStays == [][VisitedKept]_vars

(* While Melchior stays open, what it shows becomes the whole log of the   *)
(* exploration touched last.                                               *)
CaughtUp ==
    recent # <<>> /\ active = Default => current = Head(recent) /\ events = log[current]
CatchesUp == <>[](tab = "melchior") => <>[]CaughtUp
=============================================================================
