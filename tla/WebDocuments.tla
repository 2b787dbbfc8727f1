---------------------------- MODULE WebDocuments ----------------------------
(***************************************************************************)
(* The document list of the WebUI: DocumentManager.tsx, its dialogs, and   *)
(* the paginated requests of api/lightrag.ts.  The upload dialog is the    *)
(* module WebUploads.                                                      *)
(*                                                                         *)
(* The page is one JavaScript thread: an action runs from one callback to  *)
(* the next, the effects React runs after a change of state included.  A   *)
(* callback keeps the query of the render that made it; latestRefresh-     *)
(* RequestVersionRef, which a change of the query increases, is modelled   *)
(* by marking what was asked before the change as stale.                   *)
(*                                                                         *)
(* Times are left out: a timer may fire at any moment, the two seconds of  *)
(* the throttle may be over or not, and the circuit breaker, which only    *)
(* delays polls, is not there.  The documents tab stays open and /health   *)
(* stays healthy.  External: the server, which answers with the page that  *)
(* was asked for.                                                          *)
(***************************************************************************)
EXTENDS WebUploads

CONSTANTS
    Statuses,   \* status filters
    Orders,     \* sort field and direction
    All, Newest,\* the filter and the order the list opens with
    Sizes,      \* page sizes, the smallest first
    NoRequest,
    MaxTotal,   \* bound: documents a filter matches
    MaxChoices, \* bound: what the user does to the list
    MaxArrivals,\* bound: how often the server's documents change
    MaxLate     \* bound: scans, deletions and clears

MinSize == CHOOSE n \in Sizes : \A k \in Sizes : n <= k

ListPages == 1 .. MaxTotal
ListQueries == [filter : Statuses, order : Orders, page : ListPages, size : Sizes]
Callers == {"choice", "poll", "late"}
ListRequests == [kind : {"fetch", "manual"}, query : ListQueries, by : Callers,
                 stale : BOOLEAN, page : ListPages]
Batches == [query : ListQueries, taken : BOOLEAN]

(* The constants; NoRequest is not a request, nor NoBatch a batch.         *)
ASSUME DocumentsAssumption ==
    /\ Sizes \subseteq Nat \ {0} /\ Sizes # {}
    /\ MaxTotal \in Nat \ {0} /\ {MaxChoices, MaxArrivals, MaxLate} \subseteq Nat
    /\ All \in Statuses /\ Newest \in Orders
    /\ NoRequest \notin ListRequests /\ NoBatch \notin Batches

VARIABLES
    picked,     \* the list the user chose
    saved,      \* pageByStatus
    shown,      \* the response displayed, who asked for it and its query
    running,    \* the request of the refresh loop, or NoRequest
    pending,    \* pendingRefreshRequestRef
    timer,      \* the trailing call of the throttle, or NoRequest
    poller,     \* the query the polling interval holds, and who set it
    probe,      \* the query the activity probe holds, or NoRequest
    dialog,     \* the scan, deletion or clear that runs
    broken,     \* did the last refresh fail
    total,      \* the server: documents each filter matches
    choices, arrivals, slow

loopVars == <<running, pending>>
lateVars == <<timer, poller, probe, dialog>>
countVars == <<choices, arrivals, slow>>
listVars == <<picked, saved, shown, loopVars, lateVars, broken, total, countVars>>
docVars == <<listVars, uploadVars>>

(* total_pages                                                             *)
TotalPages(n, size) == (n + size - 1) \div size

-----------------------------------------------------------------------------
(* The refresh queue: one loop, one slot, the last request wins.           *)

Request(kind, q, by) == [kind |-> kind, query |-> q, by |-> by, stale |-> FALSE, page |-> q.page]

Stale(r) == IF r = NoRequest THEN NoRequest ELSE [r EXCEPT !.stale = TRUE]

Enqueue(r) ==
    IF running = NoRequest THEN running' = r /\ UNCHANGED pending
    ELSE pending' = r /\ UNCHANGED running

(* Mutant: no fetch while the loop runs.                                   *)
EffectsWhenIdle(q, l) ==
    /\ timer' = Stale(timer)
    /\ poller' = [query |-> q, by |-> "poll"]
    /\ pending' = NoRequest
    /\ running' = IF l = NoRequest THEN Request("fetch", q, "choice") ELSE Stale(l)

(* The effects of a new query q: the version, the polling interval, and    *)
(* the fetch, which finds the loop at request l.                           *)
ListEffects(q, l) ==
    /\ timer' = Stale(timer)
    /\ poller' = [query |-> q, by |-> "poll"]
    /\ IF l = NoRequest
       THEN running' = Request("fetch", q, "choice") /\ pending' = NoRequest
       ELSE running' = Stale(l) /\ pending' = Request("fetch", q, "choice")

-----------------------------------------------------------------------------
(* The user's choices.  The controls are disabled during a refresh, the    *)
(* column headers are not.                                                 *)

UploadsOpen == fileTypes # "idle"

Choose(q, pages) ==
    /\ ~UploadsOpen
    /\ choices < MaxChoices
    /\ choices' = choices + 1
    /\ picked' = q
    /\ saved' = pages
    /\ ListEffects(q, running)
    /\ UNCHANGED <<shown, probe, dialog, broken, total, arrivals, slow>>

FirstPages == [f \in Statuses |-> 1]

ShownPages == TotalPages(shown.total, shown.query.size)

ChangePage(p) ==
    /\ running = NoRequest
    /\ ShownPages > 1
    /\ p # picked.page /\ p <= ShownPages
    /\ Choose([picked EXCEPT !.page = p], [saved EXCEPT ![picked.filter] = p])

ChangeFilter(f) ==
    /\ running = NoRequest
    /\ f # picked.filter
    /\ Choose([picked EXCEPT !.filter = f, !.page = saved[f]],
              [saved EXCEPT ![picked.filter] = picked.page])

ChangeSize(n) ==
    /\ running = NoRequest
    /\ n # picked.size
    /\ ShownPages > 1
    /\ Choose([picked EXCEPT !.size = n, !.page = 1], FirstPages)

ChangeOrder(o) ==
    /\ o # picked.order
    /\ Choose([picked EXCEPT !.order = o, !.page = 1], FirstPages)

ManualRefresh ==
    /\ running = NoRequest
    /\ ~UploadsOpen
    /\ choices < MaxChoices
    /\ choices' = choices + 1
    /\ running' = Request("manual", picked, "choice")
    /\ UNCHANGED <<picked, saved, shown, pending, lateVars, broken, total, arrivals, slow>>

-----------------------------------------------------------------------------
(* runRefreshRequest.  Next is what the loop does when it is done.         *)

Finish(q) ==
    IF q = picked
    THEN /\ running' = pending /\ pending' = NoRequest /\ UNCHANGED timer
    ELSE ListEffects(q, pending)

Showing(r, page) == [query |-> [r.query EXCEPT !.page = page], total |-> total[r.query.filter],
                     by |-> r.by]

(* Mutant: new counts leave the polling as it is.                          *)
ShowPolled(r, page) ==
    LET q == [picked EXCEPT !.page = page, !.size = r.query.size]
    IN  /\ shown' = Showing(r, page)
        /\ broken' = FALSE
        /\ picked' = q
        /\ Finish(q)
        /\ q = picked => UNCHANGED poller

(* updateComponentState: the page and the size become those of the         *)
(* response; every new set of counts restarts the polling.                 *)
Show(r, page) ==
    LET q == [picked EXCEPT !.page = page, !.size = r.query.size]
    IN  /\ shown' = Showing(r, page)
        /\ broken' = FALSE
        /\ picked' = q
        /\ Finish(q)
        /\ poller' = [query |-> q, by |-> "poll"]

Unchanged == UNCHANGED <<probe, dialog, total, countVars>>

AnswerStale ==
    /\ running # NoRequest
    /\ running.stale
    /\ running' = pending /\ pending' = NoRequest
    /\ UNCHANGED <<picked, saved, shown, timer, poller, broken>> /\ Unchanged

(* A page that has become empty: the last page is fetched in its place.    *)
Beyond(r) == total[r.query.filter] > 0
             /\ r.page > TotalPages(total[r.query.filter], r.query.size)

AnswerBeyond ==
    /\ running # NoRequest
    /\ running.kind = "fetch" /\ ~running.stale
    /\ Beyond(running) /\ running.page = running.query.page
    /\ running' = [running EXCEPT
                       !.page = TotalPages(total[running.query.filter], running.query.size)]
    /\ UNCHANGED <<picked, saved, shown, pending, timer, poller, broken>> /\ Unchanged

AnswerFetch ==
    /\ running # NoRequest
    /\ running.kind = "fetch" /\ ~running.stale
    /\ ~Beyond(running) \/ running.page # running.query.page
    /\ saved' = [saved EXCEPT ![running.query.filter] = running.page]
    /\ Show(running, running.page)
    /\ Unchanged

(* A manual refresh shows the first page, or returns to the smallest size. *)
Shrinks(r) == total[r.query.filter] < r.query.size /\ r.query.size # MinSize

AnswerManual ==
    /\ running # NoRequest
    /\ running.kind = "manual" /\ ~running.stale
    /\ IF Shrinks(running)
       THEN LET q == [picked EXCEPT !.page = 1, !.size = MinSize]
            IN  /\ picked' = q
                /\ saved' = FirstPages
                /\ ListEffects(q, pending)
                /\ UNCHANGED <<shown, broken>>
       ELSE Show(running, 1) /\ UNCHANGED saved
    /\ Unchanged

(* An error, or the timeout, which aborts the request.                     *)
RefreshFails ==
    /\ running # NoRequest
    /\ broken' = TRUE
    /\ running' = pending /\ pending' = NoRequest
    /\ UNCHANGED <<picked, saved, shown, timer, poller>> /\ Unchanged

-----------------------------------------------------------------------------
(* refreshDocumentsThrottled, of a render with query q.                    *)

Fire(q, by) == Enqueue(Request("fetch", q, by)) /\ UNCHANGED timer

Throttled(q, by) ==
    \/ Fire(q, by)
    \/ /\ timer' = IF timer = NoRequest THEN [query |-> q, by |-> by, stale |-> FALSE] ELSE timer
       /\ UNCHANGED loopVars

ThrottleFires ==
    /\ timer # NoRequest
    /\ timer' = NoRequest
    /\ IF timer.stale THEN UNCHANGED loopVars
       ELSE Enqueue(Request("fetch", timer.query, timer.by))
    /\ UNCHANGED <<picked, saved, shown, poller, probe, dialog, broken, total, countVars>>

PollList ==
    /\ poller # NoRequest
    /\ Throttled(poller.query, poller.by)
    /\ UNCHANGED <<picked, saved, shown, poller, probe, dialog, broken, total, countVars>>

(* The documents change: the pipeline's activity shows in /health.         *)
DocumentsChange(f, n) ==
    /\ arrivals < MaxArrivals
    /\ arrivals' = arrivals + 1
    /\ n # total[f]
    /\ total' = [total EXCEPT ![f] = n]
    /\ Throttled(picked, "poll")
    /\ UNCHANGED <<picked, saved, shown, poller, probe, dialog, broken, choices, slow>>

(* Scan, delete and clear wait for the server with the callbacks   *)
(* of the render they were started in.                                     *)
StartSlow(what) ==
    /\ dialog = NoRequest /\ ~UploadsOpen
    /\ slow < MaxLate
    /\ slow' = slow + 1
    /\ dialog' = [what |-> what, query |-> picked]
    /\ UNCHANGED <<picked, saved, shown, loopVars, timer, poller, probe, broken,
                   total, choices, arrivals>>

(* The request is refused or fails.                                        *)
SlowRefused ==
    /\ dialog # NoRequest
    /\ dialog.what # "clearing"
    /\ dialog' = NoRequest
    /\ UNCHANGED <<picked, saved, shown, loopVars, timer, poller, probe, broken,
                   total, countVars>>

(* A new probe cancels the one that runs.                                  *)
ProbeStarts ==
    /\ dialog # NoRequest
    /\ dialog.what = "scan"
    /\ probe' = dialog.query
    /\ dialog' = NoRequest
    /\ UNCHANGED <<picked, saved, shown, loopVars, timer, poller, broken, total, countVars>>

(* After the scan was skipped, one refresh.                                *)
RefreshAfter ==
    /\ dialog # NoRequest
    /\ dialog.what = "scan"
    /\ Throttled(dialog.query, "late")
    /\ dialog' = NoRequest
    /\ UNCHANGED <<picked, saved, shown, poller, probe, broken, total, countVars>>

ProbeTick ==
    /\ probe # NoRequest
    /\ Throttled(probe, "late")
    /\ UNCHANGED <<picked, saved, shown, poller, probe, dialog, broken, total, countVars>>

(* The pipeline is idle, is polled by now, or the schedule is over.        *)
ProbeEnds ==
    /\ probe # NoRequest
    /\ probe' = NoRequest
    /\ UNCHANGED <<picked, saved, shown, loopVars, timer, poller, dialog, broken,
                   total, countVars>>

DeletionStarted ==
    /\ dialog # NoRequest
    /\ dialog.what = "delete"
    /\ poller' = [query |-> dialog.query, by |-> "late"]
    /\ dialog' = NoRequest
    /\ UNCHANGED <<picked, saved, shown, loopVars, timer, probe, broken, total, countVars>>

(* The counts are reset, which restarts the polling, and the list of the   *)
(* render the clear was started in is fetched.                             *)
Cleared ==
    /\ dialog # NoRequest
    /\ dialog.what = "clear"
    /\ total' = [f \in Statuses |-> 0]
    /\ LET q == [picked EXCEPT !.page = dialog.query.page, !.size = dialog.query.size]
       IN  /\ picked' = q
           /\ IF q = picked
              THEN /\ Enqueue(Request("fetch", dialog.query, "late"))
                   /\ poller' = [query |-> q, by |-> "poll"]
                   /\ UNCHANGED timer
              ELSE ListEffects(q, IF running = NoRequest THEN Request("fetch", dialog.query, "late")
                                  ELSE running)
    /\ dialog' = [dialog EXCEPT !.what = "clearing"]
    /\ UNCHANGED <<saved, shown, probe, broken, countVars>>

ClearConfirmed ==
    /\ dialog # NoRequest
    /\ dialog.what = "clearing"
    /\ running = NoRequest
    /\ poller' = [query |-> dialog.query, by |-> "late"]
    /\ dialog' = NoRequest
    /\ UNCHANGED <<picked, saved, shown, loopVars, timer, probe, broken, total, countVars>>

(* A batch is uploaded with the callbacks of the render it was dropped in. *)
DropFiles(d) == DropBatch(d, picked) /\ UNCHANGED listVars

(* The first file that is taken starts a probe; after the last one comes a *)
(* refresh, if any was taken.                                              *)
UploadAnswers(i, taken) ==
    /\ Uploaded(i, taken)
    /\ probe' = IF taken /\ ~batch.taken THEN batch.query ELSE probe
    /\ IF batch' = NoBatch /\ (taken \/ batch.taken)
       THEN Throttled(batch.query, "late")
       ELSE UNCHANGED <<loopVars, timer>>
    /\ UNCHANGED <<picked, saved, shown, poller, dialog, broken, total, countVars>>

-----------------------------------------------------------------------------
DocumentsInit ==
    /\ UploadsInit
    /\ \E n \in Sizes : picked = [filter |-> All, order |-> Newest, page |-> 1, size |-> n]
    /\ saved = FirstPages
    /\ shown = [query |-> picked, total |-> 0, by |-> "choice"]
    /\ running = Request("fetch", picked, "choice")
    /\ pending = NoRequest
    /\ timer = NoRequest
    /\ poller = [query |-> picked, by |-> "poll"]
    /\ probe = NoRequest
    /\ dialog = NoRequest
    /\ broken = FALSE
    /\ total \in [Statuses -> {MaxTotal}]
    /\ choices \in 0 .. MaxChoices /\ arrivals \in 0 .. MaxArrivals /\ slow \in 0 .. MaxLate

Choice ==
    \/ \E p \in ListPages : ChangePage(p)
    \/ \E f \in Statuses : ChangeFilter(f)
    \/ \E n \in Sizes : ChangeSize(n)
    \/ \E o \in Orders : ChangeOrder(o)
    \/ ManualRefresh

Answer == AnswerStale \/ AnswerBeyond \/ AnswerFetch \/ AnswerManual

SlowSteps ==
    \/ \E what \in {"scan", "delete", "clear"} : StartSlow(what)
    \/ SlowRefused \/ ProbeStarts \/ RefreshAfter \/ ProbeTick \/ ProbeEnds
    \/ DeletionStarted \/ Cleared \/ ClearConfirmed

ListNext ==
    \/ Choice
    \/ Answer
    \/ RefreshFails
    \/ ThrottleFires
    \/ PollList
    \/ \E f \in Statuses, n \in 0 .. MaxTotal : DocumentsChange(f, n)
    \/ SlowSteps

UploadsStay == UNCHANGED uploadVars
Uploading ==
    \/ \E d \in Drops : DropFiles(d)
    \/ \E i \in DOMAIN files, taken \in BOOLEAN : UploadAnswers(i, taken)
    \/ (UploadsUser \/ TypesAnswer) /\ UNCHANGED listVars

DocumentsNext ==
    \/ ListNext /\ UploadsStay
    \/ Uploading

DocumentsSpec == DocumentsInit /\ [][DocumentsNext]_docVars

(* Intervals and timers fire, a probe's schedule ends, and a server that   *)
(* is asked again and again answers again and again.                       *)
DocumentsFairness ==
    /\ WF_docVars(PollList /\ UploadsStay) /\ WF_docVars(ThrottleFires /\ UploadsStay)
    /\ WF_docVars(ProbeEnds /\ UploadsStay) /\ WF_docVars(AnswerStale /\ UploadsStay)
    /\ SF_docVars(AnswerBeyond /\ UploadsStay) /\ SF_docVars(AnswerFetch /\ UploadsStay)
    /\ SF_docVars(AnswerManual /\ UploadsStay)

DocumentsFairSpec == DocumentsSpec /\ DocumentsFairness

-----------------------------------------------------------------------------
DocumentsTypeOK ==
    /\ UploadsTypeOK
    /\ batch \in Batches \cup {NoBatch}
    /\ picked \in ListQueries
    /\ saved \in [Statuses -> ListPages]
    /\ shown \in [query : ListQueries, total : 0 .. MaxTotal, by : Callers]
    /\ running \in ListRequests \cup {NoRequest}
    /\ pending \in ListRequests \cup {NoRequest}
    /\ timer \in [query : ListQueries, by : Callers, stale : BOOLEAN] \cup {NoRequest}
    /\ poller \in [query : ListQueries, by : Callers]
    /\ probe \in ListQueries \cup {NoRequest}
    /\ dialog \in [what : {"scan", "delete", "clear", "clearing"}, query : ListQueries]
                  \cup {NoRequest}
    /\ broken \in BOOLEAN
    /\ total \in [Statuses -> 0 .. MaxTotal]

(* When the queue is empty and the last refresh did not fail, the list on  *)
(* display is the one the user chose, whatever was asked in the meantime   *)
(* and in whatever order it was answered; except after a refresh by the    *)
(* callback of a scan, an upload, a deletion or a clear, which keeps the   *)
(* query of the render it was made in.                                     *)
OnlyLateMisleads ==
    running = NoRequest /\ ~broken => shown.query = picked \/ shown.by = "late"

(* Why: whatever is under way asks for the chosen list, has been marked as *)
(* stale, or comes from a late callback; a stale request has a successor.  *)
Meant(a) == a.query = picked \/ a.by = "late"

ListInvariant ==
    /\ DocumentsTypeOK
    /\ Waiting # {} => batch # NoBatch
    /\ running # NoRequest => IF running.stale THEN pending # NoRequest ELSE Meant(running)
    /\ pending # NoRequest => ~pending.stale /\ Meant(pending)
    /\ timer # NoRequest => timer.stale \/ Meant(timer)
    /\ Meant(poller)
    /\ running = NoRequest /\ ~broken => Meant(shown)

(* In the end the list is the chosen one and as the server has it.         *)
Converges == <>[](shown.query = picked /\ shown.total = total[picked.filter])
=============================================================================
