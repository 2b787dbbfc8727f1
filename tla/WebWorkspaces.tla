--------------------------- MODULE WebWorkspaces ---------------------------
(***************************************************************************)
(* The workspace switcher of SiteHeader.tsx and the four requests behind   *)
(* it: list, create, activate and delete.  A write acts on the server in   *)
(* one step and answers in another; the answer can be lost, and a reload   *)
(* of the page leaves a write that nobody waits for.                       *)
(*                                                                         *)
(* Names, the popover and the texts are left out.  External: how the       *)
(* server (lightrag_server.py) decides a request; it may refuse any        *)
(* activation or deletion (a busy pipeline, an open handle).               *)
(***************************************************************************)
EXTENDS KeptSequences, FiniteSets

CONSTANTS
    Workspaces,
    Default,    \* the workspace that cannot be deleted
    None,
    MaxAsked,   \* bound on the header's requests at a time
    MaxOrphans  \* bound on the writes under way that nobody waits for

ASSUME WorkspacesAssumption == Default \in Workspaces /\ None \notin Workspaces

VARIABLES
    exists,     \* the workspaces of the server
    active,     \* the one its routes read
    items,      \* workspaces of SiteHeader
    here,       \* activeWorkspace of SiteHeader
    switching,  \* switchingWorkspace
    submitting, \* submitting of WorkspaceSwitcher
    deleting,   \* deletingWorkspace
    asked,      \* the header's requests, oldest first
    astray      \* history: a write was served and its page did not learn of it

headerVars == <<exists, active, items, here, switching, submitting, deleting, asked, astray>>
headerPage == <<items, here, switching, submitting, deleting>>
server == <<exists, active>>

Ask(op, w, part) ==
    [op |-> op, w |-> w, part |-> part, state |-> "sent", heard |-> TRUE]
Writes == {"create", "activate", "delete"}
Requests == [op : Writes \cup {"list"}, w : Workspaces \cup {None},
             part : {"mount", "switch", "create", "delete"},
             state : {"sent", "done", "refused"}, heard : BOOLEAN]

(* Requests of one page never outnumber the controls that send them.       *)
Drop(s, i) == SubSeq(s, 1, i - 1) \o SubSeq(s, i + 1, Len(s))
Room == Cardinality({i \in DOMAIN asked : asked[i].heard}) < MaxAsked
Send(call) == asked' = Append(asked, call)

HeaderTypeOK ==
    /\ exists \subseteq Workspaces /\ active \in exists
    /\ items \subseteq Workspaces
    /\ here \in Workspaces \cup {None}
    /\ switching \in BOOLEAN /\ submitting \in BOOLEAN /\ deleting \in BOOLEAN
    /\ asked \in Seq(Requests)
    /\ astray \in BOOLEAN

(* The page mounts with nothing known and asks for the list.               *)
Fresh(calls) ==
    /\ items' = {} /\ here' = None
    /\ switching' = FALSE /\ submitting' = FALSE /\ deleting' = FALSE
    /\ asked' = Append(calls, Ask("list", None, "mount"))

HeaderInit ==
    /\ exists \in SUBSET Workspaces /\ Default \in exists
    /\ active \in exists
    /\ items = {} /\ here = None
    /\ switching = FALSE /\ submitting = FALSE /\ deleting = FALSE
    /\ asked = <<Ask("list", None, "mount")>>
    /\ astray = FALSE

(* location.reload(): the writes under way may still reach the server.     *)
Underway == {c \in Requests : c.op \in Writes /\ c.state = "sent"}
Orphans == Kept([i \in DOMAIN asked |-> [asked[i] EXCEPT !.heard = FALSE]], Underway)
Bounded(calls) == Cardinality({i \in DOMAIN calls : ~calls[i].heard}) <= MaxOrphans

(* External: a write acts; one whose page is gone leaves that page astray. *)
Serve(i) ==
    LET c == asked[i]
        Done == asked' = IF c.heard THEN [asked EXCEPT ![i].state = "done"] ELSE Drop(asked, i)
        Refused ==
            /\ asked' = IF c.heard THEN [asked EXCEPT ![i].state = "refused"] ELSE Drop(asked, i)
            /\ UNCHANGED <<server, astray>>
    IN  /\ c.op \in Writes /\ c.state = "sent"
        /\ UNCHANGED headerPage
        /\ \/ Refused
           \/ /\ c.op = "create" /\ c.w \notin exists
              /\ exists' = exists \cup {c.w} /\ UNCHANGED <<active, astray>> /\ Done
           \/ /\ c.op = "activate" /\ c.w \in exists
              /\ active' = c.w /\ UNCHANGED exists /\ Done
              /\ astray' = (astray \/ ~c.heard)
           \/ /\ c.op = "delete" /\ c.w \in exists \ {Default}
              /\ exists' = exists \ {c.w} /\ Done
              /\ active' = IF active = c.w THEN Default ELSE active
              /\ astray' = (astray \/ (~c.heard /\ active = c.w))

(* GET /workspaces answers                                                 *)
ListedHeader(i) ==
    /\ asked[i].op = "list"
    /\ items' = exists /\ here' = active
    /\ asked' = Drop(asked, i)
    /\ UNCHANGED <<server, astray, switching, submitting, deleting>>

(* handleWorkspaceChange                                                   *)
ChangeTo(w, part, calls) ==
    IF w = here
    THEN /\ asked' = calls
         /\ submitting' = (submitting /\ part # "create")
         /\ UNCHANGED switching
    ELSE /\ asked' = Append(calls, Ask("activate", w, part))
         /\ switching' = TRUE
         /\ UNCHANGED submitting

SwitchTo(w) ==
    /\ Room /\ ~switching /\ ~deleting
    /\ w \in items \ {here}
    /\ ChangeTo(w, "switch", asked)
    /\ UNCHANGED <<server, items, here, deleting, astray>>

SubmitWorkspace(w) ==
    /\ Room /\ ~submitting /\ ~deleting
    /\ w \notin exists
    /\ submitting' = TRUE
    /\ Send(Ask("create", w, "create"))
    /\ UNCHANGED <<server, items, here, switching, deleting, astray>>

DeleteWorkspace(w) ==
    /\ Room /\ ~switching /\ ~deleting
    /\ w \in items \ {Default}
    /\ deleting' = TRUE
    /\ Send(Ask("delete", w, "delete"))
    /\ UNCHANGED <<server, items, here, switching, submitting, astray>>

(* handleWorkspaceCreated                                                  *)
Created(i) ==
    /\ asked[i].op = "create" /\ asked[i].heard /\ asked[i].state = "done"
    /\ items' = items \cup {asked[i].w}
    /\ ChangeTo(asked[i].w, "create", Drop(asked, i))
    /\ UNCHANGED <<server, here, deleting, astray>>

(* An activation or a deletion answers: the page is loaded anew.           *)
Moved(i) ==
    /\ asked[i].op \in {"activate", "delete"}
    /\ asked[i].heard /\ asked[i].state = "done"
    /\ Bounded(Orphans)
    /\ Fresh(Orphans)
    /\ astray' = FALSE
    /\ UNCHANGED server

(* A request is refused or its answer is lost.                             *)
HeaderFails(i) ==
    LET c == asked[i]
        lost == c.op \in Writes /\ c.state = "sent"
    IN  /\ c.heard
        /\ asked' = IF lost THEN [asked EXCEPT ![i].heard = FALSE] ELSE Drop(asked, i)
        /\ Bounded(asked')
        /\ switching' = (switching /\ c.op # "activate")
        /\ submitting' = (submitting /\ c.part # "create")
        /\ deleting' = (deleting /\ c.op # "delete")
        /\ astray' = (astray \/ (c.state = "done" /\ c.op # "create"))
        /\ UNCHANGED <<server, items, here>>

(* A logout and a login; one with a write under way is left out.           *)
HeaderMountedAgain ==
    /\ \A i \in DOMAIN asked : asked[i].heard => asked[i].op = "list"
    /\ Fresh(Kept(asked, Underway))
    /\ UNCHANGED <<server, astray>>

HeaderUser ==
    \E w \in Workspaces : SwitchTo(w) \/ SubmitWorkspace(w) \/ DeleteWorkspace(w)
HeaderAnswer == \E i \in DOMAIN asked :
    Serve(i) \/ ListedHeader(i) \/ Created(i) \/ HeaderFails(i)
HeaderStay == HeaderUser \/ HeaderAnswer
Reload == \E i \in DOMAIN asked : Moved(i)
HeaderNext == HeaderStay \/ Reload
HeaderSpec == HeaderInit /\ [][HeaderNext]_headerVars
=============================================================================
