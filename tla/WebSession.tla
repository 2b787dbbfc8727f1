----------------------------- MODULE WebSession -----------------------------
(***************************************************************************)
(* The session and the chat of the WebUI: the auth store, the token        *)
(* interceptors and the streamed query of api/lightrag.ts, the login page, *)
(* the version check of App.tsx, and the queries and the persisted history *)
(* of RetrievalView.tsx.                                                   *)
(*                                                                         *)
(* One browser tab: an action runs from one callback to the next, and what *)
(* React unmounts because of it is unmounted in it.  Whether the server    *)
(* has accounts is fixed while the tab is open.  The texts of a query and  *)
(* the pieces of its answer are left out.  External: the server, which     *)
(* answers or fails, and lets tokens expire.                               *)
(***************************************************************************)
EXTENDS Naturals, Sequences, SequencesExt

CONSTANTS
    Users, Guest, None,
    MaxRequests,    \* bound: requests the tab sends
    MaxTokens,      \* bound: tokens the server issues
    MaxReloads      \* bound: reloads of the tab

Ids == 1 .. MaxRequests
Names == Users \cup {Guest}
Tokens == [user : Names, n : Nat]

Entries == [id : 0 .. MaxRequests, user : Names,
            outcome : {"running", "done", "failed", "stopped"}]

Requests == [kind : {"poll", "stream", "plain"}, token : Tokens \cup {None},
             phase : {"sent", "refresh"}, retried : BOOLEAN, before : Seq(Entries)]

ASSUME SessionAssumption ==
    /\ Guest \notin Users
    /\ None \notin Names /\ None \notin Ids /\ None \notin Tokens /\ None \notin Requests
    /\ {MaxRequests, MaxTokens, MaxReloads} \subseteq Nat

VARIABLES
    configured, \* does the server have accounts
    live,       \* the server: tokens that have not expired
    issued,     \* the server: number of tokens issued
    token,      \* LIGHTRAG-API-TOKEN
    previous,   \* LIGHTRAG-PREVIOUS-USER
    history,    \* retrievalHistory of the settings store
    checked,    \* VERSION_CHECKED_FROM_LOGIN
    auth,       \* username of the auth store, None unless isAuthenticated
    page,       \* what AppRouter shows
    typed,      \* the name the login form submitted, or None
    check,      \* the token a version check holds, or None
    messages,   \* messages of the mounted RetrievalView
    owner,      \* the request of abortControllerRef, or None
    reqs,       \* requests in flight
    refreshing, \* isRefreshingGuestToken
    late,       \* has an answer of an ended session put its token back
    sent, reloads

serverVars == <<configured, live, issued>>
stored == <<token, previous, history, checked>>
login == <<auth, page, typed, check, late>>
chat == <<messages, owner>>
vars == <<serverVars, stored, login, chat, reqs, refreshing, sent, reloads>>

InApp == page = "app"

-----------------------------------------------------------------------------
(* The auth store and the server's tokens.                                 *)

Issue(u) ==
    /\ issued < MaxTokens
    /\ issued' = issued + 1
    /\ live' = live \cup {[user |-> u, n |-> issued']}

Issued(u) == [user |-> u, n |-> issued + 1]

Login(t) == token' = t /\ auth' = t.user

Expire(t) ==
    /\ live' = live \ {t}
    /\ UNCHANGED <<configured, issued, stored, login, chat, reqs, refreshing, sent, reloads>>

(* RetrievalView mounts with the persisted history.                        *)
Enter ==
    /\ page' = "app"
    /\ messages' = history
    /\ owner' = None

(* The unmounted view gives its query up and aborts it; a query that waits *)
(* for a new token finds out when it is sent again.                        *)
Aborted(rs) == [i \in Ids |-> IF i = owner /\ rs[i] # None /\ rs[i].phase = "sent"
                              THEN None ELSE rs[i]]

(* navigateToLogin, with requests rs left.                                 *)
ToLogin(rs) ==
    /\ previous' = IF auth = None THEN previous ELSE auth
    /\ token' = None /\ auth' = None
    /\ checked' = FALSE
    /\ page' = IF page \in {"app", "loading"} THEN "checking" ELSE page
    /\ messages' = <<>> /\ owner' = None
    /\ reqs' = Aborted(rs)
    /\ UNCHANGED <<history, typed, check, late>>

(* There is no logout button for guests.                                   *)
Logout ==
    /\ InApp
    /\ auth # Guest
    /\ ToLogin(reqs)
    /\ UNCHANGED <<serverVars, refreshing, sent, reloads>>

-----------------------------------------------------------------------------
(* The login page.                                                         *)

CheckAnswers ==
    /\ page = "checking"
    /\ checked' = TRUE
    /\ IF configured
       THEN /\ page' = "form"
            /\ UNCHANGED <<live, issued, token, auth, chat>>
       ELSE Issue(Guest) /\ Login(Issued(Guest)) /\ Enter
    /\ UNCHANGED <<configured, previous, history, typed, check, late, reqs,
                   refreshing, sent, reloads>>

CheckFails ==
    /\ page = "checking"
    /\ page' = "form"
    /\ UNCHANGED <<serverVars, stored, auth, typed, check, late, chat, reqs,
                   refreshing, sent, reloads>>

Submit(u) ==
    /\ page = "form"
    /\ typed = None
    /\ typed' = u
    /\ UNCHANGED <<serverVars, stored, auth, page, check, late, chat, reqs,
                   refreshing, sent, reloads>>

(* The history of another user is cleared.                                 *)
KeptHistory(u) == IF previous = u THEN history ELSE <<>>

(* Mutant: whoever logs in keeps the history.                              *)
LoginAnswersKept ==
    /\ typed # None
    /\ previous' = typed
    /\ LET u == IF configured THEN typed ELSE Guest IN Issue(u) /\ Login(Issued(u))
    /\ checked' = TRUE
    /\ typed' = None
    /\ Enter
    /\ UNCHANGED <<configured, history, check, late, reqs, refreshing, sent, reloads>>

LoginAnswers ==
    /\ typed # None
    /\ history' = KeptHistory(typed)
    /\ previous' = typed
    /\ LET u == IF configured THEN typed ELSE Guest IN Issue(u) /\ Login(Issued(u))
    /\ checked' = TRUE
    /\ typed' = None
    /\ page' = "app"
    /\ messages' = history'
    /\ owner' = None
    /\ UNCHANGED <<configured, check, late, reqs, refreshing, sent, reloads>>

LoginFails ==
    /\ typed # None
    /\ typed' = None
    /\ token' = None /\ auth' = None
    /\ UNCHANGED <<serverVars, previous, history, checked, page, check, late, chat,
                   reqs, refreshing, sent, reloads>>

-----------------------------------------------------------------------------
(* The version check of a tab that was opened with a token: it logs in     *)
(* again with the token it read at the start, or with a guest's.           *)

VersionAnswers ==
    /\ check # None
    /\ check' = None
    /\ checked' = TRUE
    /\ late' = (late \/ page # "loading")
    /\ IF configured
       THEN Login(check) /\ UNCHANGED <<live, issued>>
       ELSE Issue(Guest) /\ Login(Issued(Guest))
    /\ IF page = "loading" THEN Enter ELSE UNCHANGED <<page, chat>>
    /\ UNCHANGED <<configured, previous, history, typed, reqs, refreshing, sent, reloads>>

VersionFails ==
    /\ check # None
    /\ check' = None
    /\ IF page = "loading" THEN Enter ELSE UNCHANGED <<page, chat>>
    /\ UNCHANGED <<serverVars, stored, auth, typed, late, reqs, refreshing, sent, reloads>>

-----------------------------------------------------------------------------
(* Requests: polls, and queries that are streamed or answered at once.     *)

Send(kind) ==
    /\ sent < MaxRequests
    /\ sent' = sent + 1
    /\ reqs' = [reqs EXCEPT ![sent'] = [kind |-> kind, token |-> token, phase |-> "sent",
                                        retried |-> FALSE,
                                        before |-> IF kind = "poll" THEN <<>> ELSE messages]]

Poll ==
    /\ page \in {"app", "loading"}
    /\ Send("poll")
    /\ UNCHANGED <<serverVars, stored, login, chat, refreshing, reloads>>

(* handleSubmit; the request keeps the messages of its render.             *)
Ask(kind) ==
    /\ InApp
    /\ owner = None
    /\ Send(kind)
    /\ owner' = sent'
    /\ messages' = Append(messages, [id |-> sent', user |-> auth, outcome |-> "running"])
    /\ UNCHANGED <<serverVars, stored, login, refreshing, reloads>>

Without(i) == [reqs EXCEPT ![i] = None]

(* Mutant: the end of a query that was given up is saved too.              *)
EndedAlways(i, outcome) ==
    IF reqs[i].kind = "poll" THEN UNCHANGED <<chat, history>>
    ELSE /\ messages' = [j \in DOMAIN messages |->
                            IF messages[j].id = i THEN [messages[j] EXCEPT !.outcome = outcome]
                            ELSE messages[j]]
         /\ history' = Append(reqs[i].before, [id |-> i, user |-> reqs[i].token.user,
                                              outcome |-> outcome])
         /\ owner' = IF owner = i THEN None ELSE owner

(* What is left of handleSubmit when request i has ended.                  *)
Ended(i, outcome) ==
    IF i # owner THEN UNCHANGED <<chat, history>>
    ELSE /\ messages' = [messages EXCEPT ![Len(messages)].outcome = outcome]
         /\ history' = Append(reqs[i].before, [Last(messages) EXCEPT !.outcome = outcome])
         /\ owner' = None

(* The answer of a request with axios may bring a new token.               *)
Answer(i) ==
    /\ reqs[i] # None
    /\ reqs[i].phase = "sent"
    /\ reqs[i].token \in live
    /\ reqs' = Without(i)
    /\ Ended(i, "done")
    /\ \/ UNCHANGED <<live, issued, token, late>>
       \/ /\ reqs[i].kind # "stream"
          /\ Issue(reqs[i].token.user)
          /\ token' = Issued(reqs[i].token.user)
          /\ late' = (late \/ auth # reqs[i].token.user)
    /\ UNCHANGED <<configured, previous, checked, auth, page, typed, check,
                   refreshing, sent, reloads>>

(* A guest gets a new token and the request is sent again, once.           *)
MayRefresh(i) == ~reqs[i].retried /\ token # None /\ auth = Guest

Unauthorized(i) ==
    /\ reqs[i] # None
    /\ reqs[i].phase = "sent"
    /\ reqs[i].token \notin live
    /\ IF MayRefresh(i)
       THEN /\ reqs' = [reqs EXCEPT ![i].phase = "refresh"]
            /\ refreshing' = TRUE
            /\ UNCHANGED <<stored, login, chat>>
       ELSE ToLogin(Without(i)) /\ UNCHANGED refreshing
    /\ UNCHANGED <<serverVars, sent, reloads>>

RequestFails(i) ==
    /\ reqs[i] # None
    /\ reqs[i].phase = "sent"
    /\ reqs' = Without(i)
    /\ Ended(i, "failed")
    /\ UNCHANGED <<serverVars, token, previous, checked, login, refreshing, sent, reloads>>

Waiting == {i \in Ids : reqs[i] # None /\ reqs[i].phase = "refresh"}

(* A query its view has given up is not sent again.                        *)
GivenUp(i) == reqs[i].kind # "poll" /\ i # owner

(* Mutant: only the first request of those that wait is sent again.        *)
ResentFirst(t) ==
    LET first == CHOOSE i \in Waiting : \A j \in Waiting : i <= j
    IN  [reqs EXCEPT ![first] = IF GivenUp(first) THEN None
                                ELSE [@ EXCEPT !.token = t, !.phase = "sent", !.retried = TRUE]]

Resent(t) ==
    [i \in Ids |-> IF i \notin Waiting THEN reqs[i]
                   ELSE IF GivenUp(i) THEN None
                   ELSE [reqs[i] EXCEPT !.token = t, !.phase = "sent", !.retried = TRUE]]

(* silentRefreshGuestToken: one refresh, whose answer all that wait get.   *)
RefreshAnswers ==
    /\ refreshing
    /\ refreshing' = FALSE
    /\ Issue(Guest)
    /\ Login(Issued(Guest))
    /\ reqs' = Resent(Issued(Guest))
    /\ UNCHANGED <<configured, previous, history, checked, page, typed, check, late,
                   chat, sent, reloads>>

(* A streamed query that was given up fails in silence, the others end at  *)
(* the login page.                                                         *)
Silent(i) == reqs[i].kind = "stream" /\ i # owner

RefreshFails ==
    /\ refreshing
    /\ refreshing' = FALSE
    /\ LET left == [i \in Ids |-> IF i \in Waiting THEN None ELSE reqs[i]]
       IN  IF \A i \in Waiting : Silent(i)
           THEN reqs' = left /\ UNCHANGED <<stored, login, chat>>
           ELSE ToLogin(left)
    /\ UNCHANGED <<serverVars, sent, reloads>>

-----------------------------------------------------------------------------
(* The chat: handleStop and clearMessages.                                 *)

Stop ==
    /\ owner # None
    /\ LET finalized == [messages EXCEPT ![Len(messages)].outcome = "stopped"]
       IN  messages' = finalized /\ history' = finalized
    /\ owner' = None
    /\ reqs' = Aborted(reqs)
    /\ UNCHANGED <<serverVars, token, previous, checked, login, refreshing, sent, reloads>>

Clear ==
    /\ InApp
    /\ owner = None
    /\ messages' = <<>> /\ history' = <<>>
    /\ UNCHANGED <<serverVars, token, previous, checked, login, owner, reqs, refreshing, sent, reloads>>

(* Everything in flight is gone; initAuthState reads the token.            *)
Reload ==
    /\ reloads < MaxReloads
    /\ reloads' = reloads + 1
    /\ reqs' = [i \in Ids |-> None]
    /\ refreshing' = FALSE
    /\ typed' = None
    /\ owner' = None
    /\ auth' = IF token = None THEN None ELSE token.user
    /\ page' = IF token = None THEN "checking" ELSE IF checked THEN "app" ELSE "loading"
    /\ check' = IF page' = "loading" THEN token ELSE None
    /\ messages' = IF page' = "app" THEN history ELSE <<>>
    /\ UNCHANGED <<serverVars, stored, late, sent>>

-----------------------------------------------------------------------------
(* The tab is opened with the token of an earlier session, or without one. *)
Init ==
    /\ configured \in BOOLEAN
    /\ issued = 1
    /\ \E u \in IF configured THEN Users ELSE {Guest} :
          LET t == [user |-> u, n |-> 1] IN
          /\ live \in {{}, {t}}
          /\ token \in {None, t}
          /\ previous \in {None, u}
          /\ history \in {<<>>, <<[id |-> 0, user |-> u, outcome |-> "done"]>>}
          /\ history # <<>> => token # None \/ previous # None
    /\ auth = IF token = None THEN None ELSE token.user
    /\ page = IF token = None THEN "checking" ELSE "loading"
    /\ check = token
    /\ checked = FALSE
    /\ typed = None
    /\ messages = <<>> /\ owner = None
    /\ reqs = [i \in Ids |-> None]
    /\ refreshing = FALSE
    /\ late = FALSE
    /\ sent = 0 /\ reloads = 0

Settle(i) == Answer(i) \/ Unauthorized(i) \/ RequestFails(i)

Refresh == RefreshAnswers \/ RefreshFails

Next ==
    \/ \E t \in live : Expire(t)
    \/ Logout
    \/ CheckAnswers \/ CheckFails
    \/ \E u \in Users : Submit(u)
    \/ LoginAnswers \/ LoginFails
    \/ VersionAnswers \/ VersionFails
    \/ Poll
    \/ Ask("stream") \/ Ask("plain")
    \/ \E i \in Ids : Settle(i)
    \/ Refresh
    \/ Stop \/ Clear \/ Reload

(* Every request is answered or fails in the end.                          *)
Fairness == WF_vars(Refresh) /\ \A i \in Ids : WF_vars(Settle(i))

Spec == Init /\ [][Next]_vars /\ Fairness

-----------------------------------------------------------------------------
(* Every variable has its type; a query that runs is the last message on   *)
(* display, and a request only waits while a refresh is on its way.        *)
TypeOK ==
    /\ live \subseteq Tokens
    /\ token \in Tokens \cup {None}
    /\ auth \in Names \cup {None}
    /\ page \in {"loading", "app", "checking", "form"}
    /\ typed \in Users \cup {None}
    /\ check \in Tokens \cup {None}
    /\ history \in Seq(Entries) /\ messages \in Seq(Entries)
    /\ reqs \in [Ids -> Requests \cup {None}]
    /\ owner # None => reqs[owner] # None /\ Last(messages).id = owner
                      /\ Last(messages).outcome = "running"
    /\ Waiting # {} => refreshing

(* The persisted history is what the chat displays, without the query that *)
(* is running: nothing a stopped, superseded or unmounted query does later *)
(* brings back what was cleared or takes away what was said since          *)
(* (RetrievalView's handleStop and finally).                               *)
HistoryIsShown ==
    InApp => history = IF owner = None THEN messages ELSE Front(messages)

(* "History will be cleared on next login if the user changes"             *)
(* (navigateToLogin): whoever is logged in sees no other user's chat; but  *)
(* for a version check or a renewed token that arrives after its session   *)
(* has ended and puts that session back.                                   *)
HistoryOwned ==
    InApp /\ ~late => \A j \in DOMAIN history : history[j].user = auth

(* Every request ends: those that share a refresh are all sent again or    *)
(* given up, and none is sent again for ever.                              *)
Settles == \A i \in Ids : [](reqs[i] # None => <>(reqs[i] = None))
=============================================================================
