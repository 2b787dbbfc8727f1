-------------------------- MODULE WebSessionProofs --------------------------
(***************************************************************************)
(* The persisted chat of the WebUI is the one that is shown, and the one   *)
(* of whoever is logged in, for any users, requests, tokens and reloads;   *)
(* and every variable has its type.                                        *)
(***************************************************************************)
EXTENDS WebSession, SequenceTheorems, TLAPS

(* Whoever the server has: its accounts, or guests only.                   *)
Who == IF configured THEN Users ELSE {Guest}

WhoTokens == [user : Who, n : Nat]

Inside == page \in {"app", "loading"}

SessionTyped ==
    /\ configured \in BOOLEAN /\ issued \in Nat
    /\ live \subseteq WhoTokens
    /\ token \in WhoTokens \cup {None}
    /\ check \in WhoTokens \cup {None}
    /\ auth \in Who \cup {None}
    /\ page \in {"loading", "app", "checking", "form"}
    /\ typed \in Users \cup {None}
    /\ typed # None => page = "form"
    /\ Inside => auth # None /\ token # None
    /\ configured => ~refreshing

ChatTyped ==
    /\ history \in Seq(Entries) /\ messages \in Seq(Entries)
    /\ sent \in 0 .. MaxRequests
    /\ reqs \in [Ids -> Requests \cup {None}]
    /\ owner \in Ids \cup {None}
    /\ \A i \in Ids : reqs[i] # None => reqs[i].token \in WhoTokens \cup {None}

(* The chat shows the history, and the query that runs below it: its       *)
(* request is in flight and still has the history from before.             *)
ChatShown ==
    /\ InApp /\ owner = None => messages = history
    /\ owner # None =>
        /\ InApp /\ owner <= sent
        /\ reqs[owner] # None /\ reqs[owner].kind # "poll"
        /\ reqs[owner].before = history
        /\ \E m \in Entries : messages = Append(history, m)

(* Whose history it is: a guest's, or that of the account that is logged   *)
(* in or was before.                                                       *)
Chatter == IF ~configured THEN Guest ELSE IF Inside THEN auth ELSE previous

OwnedBy(s, u) == \A j \in DOMAIN s : s[j].user = u

SessionOwned ==
    /\ OwnedBy(history, Chatter)
    /\ owner # None => OwnedBy(messages, Chatter)
    /\ configured /\ ~Inside => auth = None /\ token = None
    /\ Inside => token.user = auth
    /\ page = "loading" => check # None /\ check.user = auth

SessionInvariant ==
    /\ SessionTyped
    /\ ChatTyped
    /\ ChatShown
    /\ late \in BOOLEAN /\ (~late => SessionOwned)

(* The first states satisfy it.                                            *)
LEMMA SessionStarts == Init => SessionInvariant
  <1> USE SessionAssumption DEF Names, Tokens
  <1> SUFFICES ASSUME Init
               PROVE  SessionInvariant
    OBVIOUS
  <1>1. PICK u \in Who :
          LET t == [user |-> u, n |-> 1] IN
          /\ live \in {{}, {t}}
          /\ token \in {None, t}
          /\ previous \in {None, u}
          /\ history \in {<<>>, <<[id |-> 0, user |-> u, outcome |-> "done"]>>}
          /\ history # <<>> => token # None \/ previous # None
    BY DEF Init, Who
  <1>2. [user |-> u, n |-> 1] \in WhoTokens /\ u \in Names /\ configured \in BOOLEAN
    BY DEF Init, WhoTokens, Who
  <1>3. SessionTyped
    BY <1>1, <1>2 DEF Init, SessionTyped, Inside
  <1>4. ChatTyped
    <2>1. history \in Seq(Entries) /\ messages = <<>>
      <3> DEFINE e == [id |-> 0, user |-> u, outcome |-> "done"]
      <3>1. e \in Entries
        BY <1>2 DEF Entries
      <3> HIDE DEF e
      <3>2. <<e>> \in Seq(Entries) /\ <<>> \in Seq(Entries)
        BY <3>1
      <3>3. history \in {<<>>, <<e>>}
        BY <1>1 DEF e
      <3> QED
        BY <3>2, <3>3 DEF Init
    <2> QED
      BY <2>1 DEF Init, ChatTyped
  <1>5. ChatShown
    BY DEF Init, ChatShown, InApp
  <1>6. SessionOwned
    <2>1. OwnedBy(history, u)
      BY <1>1 DEF OwnedBy
    <2>2. history = <<>> => \A v : OwnedBy(history, v)
      BY DEF OwnedBy
    <2>3. CASE ~configured
      BY <1>1, <1>2, <2>1, <2>3 DEF Init, SessionOwned, Chatter, Inside, Who
    <2>4. CASE configured
      BY <1>1, <1>2, <2>1, <2>2, <2>4 DEF Init, SessionOwned, Chatter, Inside, Who
    <2> QED
      BY <1>2, <2>3, <2>4
  <1> QED
    BY <1>3, <1>4, <1>5, <1>6 DEF Init, SessionInvariant

(* The login page.                                                         *)
LEMMA LoginPageKeeps ==
    ASSUME SessionInvariant,
           \/ \E t \in live : Expire(t)
           \/ CheckAnswers \/ CheckFails
           \/ \E u \in Users : Submit(u)
           \/ LoginAnswers \/ LoginFails
    PROVE  SessionInvariant'
  <1> USE SessionAssumption DEF SessionInvariant, Names, Tokens
  <1>1. ASSUME NEW t \in live, Expire(t)
        PROVE  SessionInvariant'
    <2>1. SessionTyped'
      BY <1>1 DEF Expire, SessionTyped, Who, WhoTokens, Inside, InApp,
         serverVars, stored, login, chat
    <2>2. ChatTyped'
      BY <1>1 DEF Expire, SessionTyped, ChatTyped, Who, WhoTokens, serverVars,
         stored, login, chat
    <2>3. ChatShown'
      BY <1>1 DEF Expire, SessionTyped, ChatTyped, ChatShown, InApp, serverVars,
         stored, login, chat
    <2>4. late' \in BOOLEAN /\ (~late' => SessionOwned')
      BY <1>1 DEF Expire, SessionTyped, ChatTyped, ChatShown, SessionOwned,
         OwnedBy, Chatter, Who, WhoTokens, Inside, InApp, serverVars, stored,
         login, chat
    <2> QED
      BY <2>1, <2>2, <2>3, <2>4 DEF SessionInvariant
  <1>2. CASE CheckAnswers
    <2>1. SessionTyped'
      BY <1>2 DEF CheckAnswers, Issue, Issued, Login, Enter, SessionTyped, Who,
         WhoTokens, Inside, InApp, serverVars, stored, login, chat
    <2>2. ChatTyped'
      BY <1>2 DEF CheckAnswers, Issue, Issued, Login, Enter, SessionTyped,
         ChatTyped, Who, WhoTokens, serverVars, stored, login, chat
    <2>3. ChatShown'
      BY <1>2 DEF CheckAnswers, Issue, Issued, Login, Enter, SessionTyped,
         ChatTyped, ChatShown, InApp, serverVars, stored, login, chat
    <2>4. late' \in BOOLEAN /\ (~late' => SessionOwned')
      BY <1>2 DEF CheckAnswers, Issue, Issued, Login, Enter, SessionTyped,
         ChatTyped, ChatShown, SessionOwned, OwnedBy, Chatter, Who, WhoTokens,
         Inside, InApp, serverVars, stored, login, chat
    <2> QED
      BY <2>1, <2>2, <2>3, <2>4 DEF SessionInvariant
  <1>3. CASE CheckFails
    <2>1. SessionTyped'
      BY <1>3 DEF CheckFails, SessionTyped, Who, WhoTokens, Inside, InApp,
         serverVars, stored, login, chat
    <2>2. ChatTyped'
      BY <1>3 DEF CheckFails, SessionTyped, ChatTyped, Who, WhoTokens,
         serverVars, stored, login, chat
    <2>3. ChatShown'
      BY <1>3 DEF CheckFails, SessionTyped, ChatTyped, ChatShown, InApp,
         serverVars, stored, login, chat
    <2>4. late' \in BOOLEAN /\ (~late' => SessionOwned')
      BY <1>3 DEF CheckFails, SessionTyped, ChatTyped, ChatShown, SessionOwned,
         OwnedBy, Chatter, Who, WhoTokens, Inside, InApp, serverVars, stored,
         login, chat
    <2> QED
      BY <2>1, <2>2, <2>3, <2>4 DEF SessionInvariant
  <1>4. ASSUME NEW u \in Users, Submit(u)
        PROVE  SessionInvariant'
    <2>1. SessionTyped'
      BY <1>4 DEF Submit, SessionTyped, Who, WhoTokens, Inside, InApp,
         serverVars, stored, login, chat
    <2>2. ChatTyped'
      BY <1>4 DEF Submit, SessionTyped, ChatTyped, Who, WhoTokens, serverVars,
         stored, login, chat
    <2>3. ChatShown'
      BY <1>4 DEF Submit, SessionTyped, ChatTyped, ChatShown, InApp, serverVars,
         stored, login, chat
    <2>4. late' \in BOOLEAN /\ (~late' => SessionOwned')
      BY <1>4 DEF Submit, SessionTyped, ChatTyped, ChatShown, SessionOwned,
         OwnedBy, Chatter, Who, WhoTokens, Inside, InApp, serverVars, stored,
         login, chat
    <2> QED
      BY <2>1, <2>2, <2>3, <2>4 DEF SessionInvariant
  <1>5. CASE LoginAnswers
    <2>1. SessionTyped'
      BY <1>5 DEF LoginAnswers, KeptHistory, Issue, Issued, Login, SessionTyped,
         Who, WhoTokens, Inside, InApp, serverVars, stored, login, chat
    <2>2. ChatTyped'
      BY <1>5 DEF LoginAnswers, KeptHistory, Issue, Issued, Login, SessionTyped,
         ChatTyped, Who, WhoTokens, serverVars, stored, login, chat
    <2>3. ChatShown'
      BY <1>5 DEF LoginAnswers, KeptHistory, Issue, Issued, Login, SessionTyped,
         ChatTyped, ChatShown, InApp, serverVars, stored, login, chat
    <2>4. late' \in BOOLEAN /\ (~late' => SessionOwned')
      BY <1>5 DEF LoginAnswers, KeptHistory, Issue, Issued, Login, SessionTyped,
         ChatTyped, ChatShown, SessionOwned, OwnedBy, Chatter, Who, WhoTokens,
         Inside, InApp, serverVars, stored, login, chat
    <2> QED
      BY <2>1, <2>2, <2>3, <2>4 DEF SessionInvariant
  <1>6. CASE LoginFails
    <2>1. SessionTyped'
      BY <1>6 DEF LoginFails, SessionTyped, Who, WhoTokens, Inside, InApp,
         serverVars, stored, login, chat
    <2>2. ChatTyped'
      BY <1>6 DEF LoginFails, SessionTyped, ChatTyped, Who, WhoTokens,
         serverVars, stored, login, chat
    <2>3. ChatShown'
      BY <1>6 DEF LoginFails, SessionTyped, ChatTyped, ChatShown, InApp,
         serverVars, stored, login, chat
    <2>4. late' \in BOOLEAN /\ (~late' => SessionOwned')
      BY <1>6 DEF LoginFails, SessionTyped, ChatTyped, ChatShown, SessionOwned,
         OwnedBy, Chatter, Who, WhoTokens, Inside, InApp, serverVars, stored,
         login, chat
    <2> QED
      BY <2>1, <2>2, <2>3, <2>4 DEF SessionInvariant
  <1> QED
    BY <1>1, <1>2, <1>3, <1>4, <1>5, <1>6

(* The version check, and the tab.                                         *)
LEMMA TabKeeps ==
    ASSUME SessionInvariant, VersionAnswers \/ VersionFails \/ Reload \/ Clear
    PROVE  SessionInvariant'
  <1> USE SessionAssumption DEF SessionInvariant, Names, Tokens
  <1>1. CASE VersionAnswers
    <2>1. SessionTyped'
      BY <1>1 DEF VersionAnswers, Issue, Issued, Login, Enter, SessionTyped,
         Who, WhoTokens, Inside, InApp, serverVars, stored, login, chat
    <2>2. ChatTyped'
      BY <1>1 DEF VersionAnswers, Issue, Issued, Login, Enter, SessionTyped,
         ChatTyped, Who, WhoTokens, serverVars, stored, login, chat
    <2>3. ChatShown'
      BY <1>1 DEF VersionAnswers, Issue, Issued, Login, Enter, SessionTyped,
         ChatTyped, ChatShown, InApp, serverVars, stored, login, chat
    <2>4. late' \in BOOLEAN /\ (~late' => SessionOwned')
      BY <1>1 DEF VersionAnswers, Issue, Issued, Login, Enter, SessionTyped,
         ChatTyped, ChatShown, SessionOwned, OwnedBy, Chatter, Who, WhoTokens,
         Inside, InApp, serverVars, stored, login, chat
    <2> QED
      BY <2>1, <2>2, <2>3, <2>4 DEF SessionInvariant
  <1>2. CASE VersionFails
    <2>1. SessionTyped'
      BY <1>2 DEF VersionFails, Enter, SessionTyped, Who, WhoTokens, Inside,
         InApp, serverVars, stored, login, chat
    <2>2. ChatTyped'
      BY <1>2 DEF VersionFails, Enter, SessionTyped, ChatTyped, Who, WhoTokens,
         serverVars, stored, login, chat
    <2>3. ChatShown'
      BY <1>2 DEF VersionFails, Enter, SessionTyped, ChatTyped, ChatShown,
         InApp, serverVars, stored, login, chat
    <2>4. late' \in BOOLEAN /\ (~late' => SessionOwned')
      BY <1>2 DEF VersionFails, Enter, SessionTyped, ChatTyped, ChatShown,
         SessionOwned, OwnedBy, Chatter, Who, WhoTokens, Inside, InApp, serverVars,
         stored, login, chat
    <2> QED
      BY <2>1, <2>2, <2>3, <2>4 DEF SessionInvariant
  <1>3. CASE Reload
    <2>1. SessionTyped'
      BY <1>3 DEF Reload, SessionTyped, Who, WhoTokens, Inside, InApp,
         serverVars, stored, login, chat
    <2>2. ChatTyped'
      BY <1>3 DEF Reload, SessionTyped, ChatTyped, Who, WhoTokens, serverVars,
         stored, login, chat
    <2>3. ChatShown'
      BY <1>3 DEF Reload, SessionTyped, ChatTyped, ChatShown, InApp, serverVars,
         stored, login, chat
    <2>4. late' \in BOOLEAN /\ (~late' => SessionOwned')
      BY <1>3 DEF Reload, SessionTyped, ChatTyped, ChatShown, SessionOwned,
         OwnedBy, Chatter, Who, WhoTokens, Inside, InApp, serverVars, stored,
         login, chat
    <2> QED
      BY <2>1, <2>2, <2>3, <2>4 DEF SessionInvariant
  <1>4. CASE Clear
    <2>1. SessionTyped'
      BY <1>4 DEF Clear, SessionTyped, Who, WhoTokens, Inside, InApp,
         serverVars, stored, login, chat
    <2>2. ChatTyped'
      BY <1>4 DEF Clear, SessionTyped, ChatTyped, Who, WhoTokens, serverVars,
         stored, login, chat
    <2>3. ChatShown'
      BY <1>4 DEF Clear, SessionTyped, ChatTyped, ChatShown, InApp, serverVars,
         stored, login, chat
    <2>4. late' \in BOOLEAN /\ (~late' => SessionOwned')
      BY <1>4 DEF Clear, SessionTyped, ChatTyped, ChatShown, SessionOwned,
         OwnedBy, Chatter, Who, WhoTokens, Inside, InApp, serverVars, stored,
         login, chat
    <2> QED
      BY <2>1, <2>2, <2>3, <2>4 DEF SessionInvariant
  <1> QED
    BY <1>1, <1>2, <1>3, <1>4

Said(m, o) == [m EXCEPT !.outcome = o]

Finalized(s, o) == [s EXCEPT ![Len(s)].outcome = o]

(* What the end of a query writes: the history and the messages agree.     *)
LEMMA Closing ==
    ASSUME NEW h \in Seq(Entries), NEW m \in Entries,
           NEW o \in {"running", "done", "failed", "stopped"}
    PROVE  /\ Append(h, m) \in Seq(Entries) /\ Append(h, Said(m, o)) \in Seq(Entries)
           /\ Last(Append(h, m)) = m /\ Front(Append(h, m)) = h
           /\ Finalized(Append(h, m), o) = Append(h, Said(m, o))
           /\ \A u : OwnedBy(Append(h, m), u) =>
                       OwnedBy(h, u) /\ OwnedBy(Append(h, Said(m, o)), u)
           /\ \A u : OwnedBy(h, u) /\ m.user = u => OwnedBy(Append(h, m), u)
  <1> DEFINE s == Append(h, m)
             e == Said(m, o)
  <1>1. e \in Entries /\ e.user = m.user
    BY DEF Entries, Said
  <1> HIDE DEF e
  <1>2. /\ s \in Seq(Entries) /\ Len(s) = Len(h) + 1 /\ Len(h) \in Nat
        /\ \A i \in 1 .. Len(h) : s[i] = h[i]
        /\ s[Len(h) + 1] = m
    BY AppendProperties
  <1>3. /\ Append(h, e) \in Seq(Entries) /\ Len(Append(h, e)) = Len(h) + 1
        /\ \A i \in 1 .. Len(h) : Append(h, e)[i] = h[i]
        /\ Append(h, e)[Len(h) + 1] = e
    BY <1>1, AppendProperties
  <1>4. Last(s) = m
    BY <1>2 DEF Last
  <1>5. Front(s) = h
    BY <1>2 DEF Front
  <1>6. Finalized(s, o) = Append(h, e)
    <2> DEFINE f == Finalized(s, o)
    <2>1. DOMAIN f = 1 .. Len(h) + 1 /\ DOMAIN Append(h, e) = 1 .. Len(h) + 1
      BY <1>2, <1>3 DEF Finalized
    <2>2. \A i \in 1 .. Len(h) : f[i] = Append(h, e)[i]
      <3> TAKE i \in 1 .. Len(h)
      <3>1. i \in DOMAIN s /\ i # Len(s)
        BY <1>2
      <3>2. f[i] = s[i]
        BY <3>1 DEF Finalized
      <3> QED
        BY <1>2, <1>3, <3>2
    <2>3. f[Len(h) + 1] = Append(h, e)[Len(h) + 1]
      BY <1>2, <1>3 DEF e, Said, Finalized
    <2>4. \A i \in 1 .. Len(h) + 1 : f[i] = Append(h, e)[i]
      BY <1>2, <2>2, <2>3
    <2>5. f \in Seq(Entries)
      BY <1>1, <1>2 DEF e, Said, Finalized
    <2>6. Len(f) = Len(Append(h, e))
      BY <1>3, <2>1, <2>5
    <2> HIDE DEF f
    <2>7. f = Append(h, e)
      BY <1>3, <2>1, <2>4, <2>5, <2>6, SeqEqual
    <2> QED
      BY <2>7 DEF f
  <1>7. ASSUME NEW u, OwnedBy(s, u)
        PROVE  OwnedBy(h, u) /\ OwnedBy(Append(h, e), u)
    BY <1>1, <1>2, <1>3, <1>7 DEF OwnedBy
  <1>8. ASSUME NEW u, OwnedBy(h, u), m.user = u
        PROVE  OwnedBy(s, u)
    BY <1>2, <1>8 DEF OwnedBy
  <1> QED
    BY <1>2, <1>3, <1>4, <1>5, <1>6, <1>7, <1>8 DEF e

(* The tab after request i has ended, or any request that the chat does    *)
(* not wait for.                                                           *)
LEMMA EndedKeeps ==
    ASSUME ChatTyped, ChatShown, NEW i \in Ids, NEW o \in {"done", "failed"}, Ended(i, o)
    PROVE  /\ i # owner => UNCHANGED <<chat, history>>
           /\ i = owner => /\ history' \in Seq(Entries) /\ messages' = history'
                           /\ owner' = None /\ owner # None
                           /\ \A u : OwnedBy(messages, u) => OwnedBy(history', u)
  <1>1. CASE i # owner
    BY <1>1 DEF Ended
  <1>2. CASE i = owner
    <2>1. owner # None
      BY <1>2, SessionAssumption
    <2>2. PICK m \in Entries : messages = Append(history, m) /\ reqs[owner].before = history
      BY <2>1 DEF ChatShown
    <2>3. history \in Seq(Entries)
      BY DEF ChatTyped
    <2>4. /\ Last(messages) = m
          /\ Finalized(messages, o) = Append(history, Said(m, o))
          /\ Append(history, Said(m, o)) \in Seq(Entries)
          /\ \A u : OwnedBy(messages, u) => OwnedBy(Append(history, Said(m, o)), u)
      BY <2>2, <2>3, Closing
    <2>5. /\ messages' = Finalized(messages, o)
          /\ history' = Append(history, Said(Last(messages), o))
          /\ owner' = None
      BY <1>2, <2>2 DEF Ended, Said, Finalized
    <2>6. history' = Append(history, Said(m, o))
      BY <2>4, <2>5
    <2> QED
      BY <1>2, <2>1, <2>4, <2>5, <2>6
  <1> QED
    BY <1>1, <1>2

(* navigateToLogin, whatever was left in flight.                           *)
LEMMA ToLoginKeeps ==
    ASSUME SessionInvariant, NEW rs, rs \in [Ids -> Requests \cup {None}],
           \A i \in Ids : rs[i] \in {None, reqs[i]},
           ToLogin(rs), UNCHANGED <<serverVars, sent>>, configured => ~refreshing'
    PROVE  SessionInvariant'
  <1> USE SessionAssumption DEF SessionInvariant, Names, Tokens
  <1>1. SessionTyped'
    BY DEF ToLogin, SessionTyped, Who, WhoTokens, Inside, serverVars
  <1>2. ChatTyped'
    <2>1. reqs' \in [Ids -> Requests \cup {None}] /\ \A i \in Ids : reqs'[i] \in {None, reqs[i]}
      BY DEF ToLogin, Aborted
    <2> QED
      BY <2>1 DEF ToLogin, ChatTyped, SessionTyped, WhoTokens, Who, serverVars
  <1>3. ChatShown'
    BY DEF ToLogin, ChatShown, InApp
  <1>4. late' \in BOOLEAN /\ (~late' => SessionOwned')
    BY DEF ToLogin, SessionTyped, ChatTyped, ChatShown, SessionOwned, OwnedBy, Chatter, Who,
           Inside, InApp, serverVars
  <1> QED
    BY <1>1, <1>2, <1>3, <1>4

(* A request is sent.                                                      *)
LEMMA SendKeeps ==
    ASSUME SessionInvariant, Poll \/ Ask("stream") \/ Ask("plain")
    PROVE  SessionInvariant'
  <1> USE SessionAssumption DEF SessionInvariant, Names, Tokens
  <1> DEFINE request(kind) == [kind |-> kind, token |-> token, phase |-> "sent",
                               retried |-> FALSE,
                               before |-> IF kind = "poll" THEN <<>> ELSE messages]
  <1>1. ASSUME NEW kind \in {"poll", "stream", "plain"}, Send(kind)
        PROVE  /\ sent' = sent + 1 /\ sent' \in Ids /\ sent' \in 0 .. MaxRequests
               /\ request(kind) \in Requests /\ request(kind) # None
               /\ reqs' = [reqs EXCEPT ![sent'] = request(kind)]
               /\ UNCHANGED serverVars =>
                    /\ reqs' \in [Ids -> Requests \cup {None}]
                    /\ \A i \in Ids : reqs'[i] # None =>
                          reqs'[i].token \in WhoTokens' \cup {None}
    <2>1. sent' = sent + 1 /\ sent' \in Ids /\ sent' \in 0 .. MaxRequests
      BY <1>1 DEF Send, ChatTyped, Ids
    <2>2. token \in Tokens \cup {None}
      BY DEF SessionTyped, WhoTokens, Who
    <2>3. request(kind) \in Requests
      BY <2>2 DEF Requests, ChatTyped
    <2>4. reqs' = [reqs EXCEPT ![sent'] = request(kind)]
      BY <1>1 DEF Send
    <2> HIDE DEF request
    <2>5. reqs' \in [Ids -> Requests \cup {None}]
      BY <2>1, <2>3, <2>4 DEF ChatTyped
    <2>6. request(kind).token = token
      BY DEF request
    <2>7. UNCHANGED serverVars => WhoTokens' = WhoTokens
      BY DEF WhoTokens, Who, serverVars
    <2>8. \A i \in Ids : reqs'[i] # None => reqs'[i].token \in WhoTokens \cup {None}
      BY <2>1, <2>4, <2>6 DEF ChatTyped, SessionTyped
    <2> QED
      BY <2>1, <2>3, <2>4, <2>5, <2>7, <2>8
  <1>2. CASE Poll
    <2>1. Send("poll") /\ UNCHANGED <<serverVars, stored, login, chat, refreshing>>
      BY <1>2 DEF Poll
    <2>2. SessionTyped'
      BY <2>1 DEF SessionTyped, Who, WhoTokens, Inside, serverVars, stored, login
    <2>3. ChatTyped'
      BY <1>1, <2>1 DEF ChatTyped, stored, chat
    <2>4. ChatShown'
      <3>1. owner # None => reqs'[owner] = reqs[owner] /\ owner <= sent'
        <4>1. owner # None => owner \in Ids /\ owner <= sent /\ sent \in Nat
          BY DEF ChatTyped, ChatShown
        <4>2. sent' = sent + 1 /\ reqs' = [reqs EXCEPT ![sent'] = request("poll")]
          BY <1>1, <2>1
        <4> HIDE DEF request
        <4> QED
          BY <4>1, <4>2 DEF ChatTyped, Ids
      <3> QED
        BY <2>1, <3>1 DEF ChatShown, InApp, stored, login, chat
    <2>5. late' \in BOOLEAN /\ (~late' => SessionOwned')
      BY <2>1 DEF SessionOwned, OwnedBy, Chatter, Inside, serverVars, stored, login, chat
    <2> QED
      BY <2>2, <2>3, <2>4, <2>5
  <1>3. ASSUME NEW kind \in {"stream", "plain"}, Ask(kind)
        PROVE  SessionInvariant'
    <2> DEFINE m == [id |-> sent', user |-> auth, outcome |-> "running"]
    <2>1. /\ Send(kind) /\ UNCHANGED <<serverVars, stored, login, refreshing>>
          /\ InApp /\ owner = None /\ owner' = sent' /\ messages' = Append(messages, m)
      BY <1>3 DEF Ask
    <2>2. m \in Entries /\ messages = history /\ auth # None
      BY <1>1, <2>1 DEF Entries, SessionTyped, ChatShown, Inside, InApp, Who
    <2>3. messages' \in Seq(Entries) /\ \A u : OwnedBy(history, u) /\ auth = u => OwnedBy(messages', u)
      <3>1. history \in Seq(Entries) /\ m.user = auth
        BY DEF ChatTyped
      <3> HIDE DEF m
      <3> QED
        BY <2>1, <2>2, <3>1, Closing
    <2>4. SessionTyped'
      BY <2>1 DEF SessionTyped, Who, WhoTokens, Inside, serverVars, stored, login
    <2>5. ChatTyped'
      BY <1>1, <2>1, <2>3 DEF ChatTyped, stored
    <2>6. ChatShown'
      <3>1. reqs'[sent'] = request(kind)
        BY <1>1, <2>1 DEF ChatTyped
      <3>2. request(kind).kind = kind /\ request(kind).before = messages
        OBVIOUS
      <3>3. owner' # None /\ owner' <= sent'
        BY <1>1, <2>1 DEF Ids
      <3> HIDE DEF request, m
      <3> QED
        BY <1>1, <2>1, <2>2, <3>1, <3>2, <3>3 DEF ChatShown, InApp, stored, login
    <2>7. late' \in BOOLEAN /\ (~late' => SessionOwned')
      <3>1. ~late => Chatter = auth \/ ~configured
        BY <2>1 DEF Chatter, Inside, InApp
      <3>2. ~configured => auth = Guest
        BY <2>2 DEF SessionTyped, Who
      <3>3. ~late => OwnedBy(messages', Chatter)
        BY <2>3, <3>1, <3>2 DEF SessionOwned, Chatter
      <3>4. Chatter' = Chatter /\ history' = history
        BY <2>1 DEF Chatter, Inside, serverVars, stored, login
      <3>5. ~late => OwnedBy(messages', Chatter')
        BY <3>3, <3>4
      <3> QED
        BY <2>1, <3>4, <3>5 DEF SessionOwned, OwnedBy, Inside, serverVars, stored, login
    <2> QED
      BY <2>4, <2>5, <2>6, <2>7
  <1> QED
    BY <1>2, <1>3

(* A request that is over leaves the others as they are.                   *)
LEMMA WithoutKeeps ==
    ASSUME ChatTyped, ChatShown, NEW i \in Ids, reqs' = Without(i), UNCHANGED <<sent, serverVars>>,
           NEW o \in {"done", "failed"}, Ended(i, o), UNCHANGED page
    PROVE  ChatTyped' /\ ChatShown'
  <1>1. /\ reqs' \in [Ids -> Requests \cup {None}]
        /\ \A j \in Ids : reqs'[j] = IF j = i THEN None ELSE reqs[j]
    BY DEF Without, ChatTyped
  <1>2. WhoTokens' = WhoTokens
    BY DEF WhoTokens, Who, serverVars
  <1>3. ChatTyped'
    BY <1>1, <1>2, EndedKeeps DEF ChatTyped, chat
  <1>4. ChatShown'
    BY <1>1, EndedKeeps DEF ChatTyped, ChatShown, InApp, chat
  <1> QED
    BY <1>3, <1>4

(* A request ends, answered or failed.                                     *)
LEMMA OverKeeps ==
    ASSUME SessionInvariant, NEW i \in Ids, Answer(i) \/ RequestFails(i)
    PROVE  SessionInvariant'
  <1> USE SessionAssumption DEF SessionInvariant, Names, Tokens
  <1>1. ASSUME NEW o \in {"done", "failed"}, Ended(i, o), UNCHANGED <<configured, page, auth, previous>>,
               ~late, SessionOwned
        PROVE  OwnedBy(history', Chatter') /\ (owner' # None => OwnedBy(messages', Chatter'))
    <2>1. Chatter' = Chatter
      BY <1>1 DEF Chatter, Inside
    <2>2. CASE i # owner
      BY <1>1, <2>1, <2>2, EndedKeeps DEF SessionOwned, chat, OwnedBy
    <2>3. CASE i = owner
      BY <1>1, <2>1, <2>3, EndedKeeps DEF SessionOwned
    <2> QED
      BY <2>2, <2>3
  <1>2. CASE RequestFails(i)
    <2>1. /\ Ended(i, "failed") /\ reqs' = Without(i)
          /\ UNCHANGED <<serverVars, token, previous, checked, login, refreshing, sent>>
      BY <1>2 DEF RequestFails
    <2>2. ChatTyped' /\ ChatShown'
      BY <2>1, WithoutKeeps DEF login
    <2>3. SessionTyped'
      BY <2>1 DEF SessionTyped, Who, WhoTokens, Inside, serverVars, login
    <2>4. late' \in BOOLEAN /\ (~late' => SessionOwned')
      BY <1>1, <2>1 DEF SessionOwned, Inside, serverVars, login
    <2> QED
      BY <2>2, <2>3, <2>4
  <1>3. CASE Answer(i)
    <2> DEFINE u == reqs[i].token.user
    <2>1. /\ Ended(i, "done") /\ reqs' = Without(i)
          /\ UNCHANGED <<configured, previous, checked, auth, page, typed, check, refreshing, sent>>
          /\ \/ UNCHANGED <<live, issued, token, late>>
             \/ Issue(u) /\ token' = Issued(u) /\ late' = (late \/ auth # u)
          /\ reqs[i].token \in live
      BY <1>3 DEF Answer
    <2>2. u \in Who
      BY <2>1 DEF SessionTyped, WhoTokens
    <2> HIDE DEF u
    <2>3. SessionTyped'
      BY <2>1, <2>2 DEF SessionTyped, Issue, Issued, Who, WhoTokens, Inside
    <2>4. ChatTyped' /\ ChatShown'
      <3>1. /\ reqs' \in [Ids -> Requests \cup {None}]
            /\ \A j \in Ids : reqs'[j] = IF j = i THEN None ELSE reqs[j]
        BY <2>1 DEF Without, ChatTyped
      <3>2. WhoTokens' = WhoTokens
        BY <2>1 DEF WhoTokens, Who
      <3>3. ChatTyped'
        BY <2>1, <3>1, <3>2, EndedKeeps DEF ChatTyped, chat
      <3>4. ChatShown'
        BY <2>1, <3>1, EndedKeeps DEF ChatTyped, ChatShown, InApp, chat
      <3> QED
        BY <3>3, <3>4
    <2>5. late' \in BOOLEAN /\ (~late' => SessionOwned')
      <3>1. late' \in BOOLEAN /\ (~late' => ~late)
        <4>1. late' = late \/ late' = (late \/ auth # u)
          BY <2>1
        <4> QED
          BY <4>1, Zenon
      <3>2. CASE UNCHANGED <<live, issued, token, late>>
        BY <1>1, <2>1, <3>2 DEF SessionOwned, Inside
      <3>3. CASE Issue(u) /\ token' = Issued(u) /\ late' = (late \/ auth # u)
        <4> SUFFICES ASSUME ~late'
                     PROVE  SessionOwned'
          BY <3>1
        <4>1. ~late /\ auth = u /\ u # None /\ SessionOwned
          BY <2>2, <3>3 DEF Who
        <4>2. token'.user = auth' /\ auth' # None
          BY <2>1, <3>3, <4>1 DEF Issued
        <4>3. configured => Inside
          BY <4>1 DEF SessionOwned
        <4> QED
          BY <1>1, <2>1, <4>1, <4>2, <4>3 DEF SessionOwned, Inside
      <3> QED
        BY <2>1, <3>1, <3>2, <3>3
    <2> QED
      BY <2>3, <2>4, <2>5
  <1> QED
    BY <1>2, <1>3

(* Requests that wait for a new guest token, and what becomes of them.     *)
LEMMA WaitersKeep ==
    ASSUME SessionInvariant, (\E i \in Ids : Unauthorized(i)) \/ Refresh
    PROVE  SessionInvariant'
  <1> USE SessionAssumption DEF SessionInvariant, Names, Tokens
  <1>1. ASSUME NEW i \in Ids, Unauthorized(i)
        PROVE  SessionInvariant'
    <2>1. reqs[i] # None /\ UNCHANGED <<serverVars, sent>>
      BY <1>1 DEF Unauthorized
    <2>2. CASE MayRefresh(i)
      <3>1. /\ reqs' = [reqs EXCEPT ![i].phase = "refresh"]
            /\ refreshing' = TRUE /\ UNCHANGED <<stored, login, chat>>
        BY <1>1, <2>2 DEF Unauthorized
      <3>2. reqs[i] \in Requests
        BY <2>1 DEF ChatTyped
      <3>3. /\ [reqs[i] EXCEPT !.phase = "refresh"] \in Requests
            /\ [reqs[i] EXCEPT !.phase = "refresh"].kind = reqs[i].kind
            /\ [reqs[i] EXCEPT !.phase = "refresh"].token = reqs[i].token
            /\ [reqs[i] EXCEPT !.phase = "refresh"].before = reqs[i].before
        BY <3>2 DEF Requests
      <3>4. \A j \in Ids : /\ reqs'[j] \in Requests \cup {None}
                           /\ reqs'[j] # None <=> reqs[j] # None
                           /\ reqs[j] # None => /\ reqs'[j].kind = reqs[j].kind
                                                /\ reqs'[j].token = reqs[j].token
                                                /\ reqs'[j].before = reqs[j].before
        BY <2>1, <3>1, <3>3 DEF ChatTyped
      <3>5. reqs' \in [Ids -> Requests \cup {None}]
        BY <3>1, <3>4 DEF ChatTyped
      <3>6. ~configured
        BY <2>2 DEF MayRefresh, SessionTyped, Who
      <3>7. SessionTyped'
        BY <2>1, <3>1, <3>6 DEF SessionTyped, Who, WhoTokens, Inside, serverVars, stored, login
      <3>8. ChatTyped'
        BY <2>1, <3>1, <3>4, <3>5 DEF ChatTyped, Who, WhoTokens, serverVars, stored, chat
      <3>9. ChatShown'
        BY <2>1, <3>1, <3>4 DEF ChatTyped, ChatShown, InApp, stored, login, chat
      <3>10. late' \in BOOLEAN /\ (~late' => SessionOwned')
        BY <2>1, <3>1 DEF SessionOwned, OwnedBy, Chatter, Inside, serverVars, stored, login, chat
      <3> QED
        BY <3>7, <3>8, <3>9, <3>10
    <2>3. CASE ~MayRefresh(i)
      <3>1. ToLogin(Without(i)) /\ UNCHANGED refreshing
        BY <1>1, <2>3 DEF Unauthorized
      <3>2. /\ Without(i) \in [Ids -> Requests \cup {None}]
            /\ \A j \in Ids : Without(i)[j] \in {None, reqs[j]}
        BY DEF Without, ChatTyped
      <3>3. configured => ~refreshing'
        BY <3>1 DEF SessionTyped
      <3> QED
        BY <2>1, <3>1, <3>2, <3>3, ToLoginKeeps
    <2> QED
      BY <2>2, <2>3
  <1>2. CASE RefreshAnswers
    <2> DEFINE t == Issued(Guest)
    <2>1. /\ refreshing /\ refreshing' = FALSE /\ Issue(Guest) /\ Login(t) /\ reqs' = Resent(t)
          /\ UNCHANGED <<configured, previous, history, checked, page, typed, check, late, chat, sent>>
      BY <1>2 DEF RefreshAnswers
    <2>2. ~configured
      BY <2>1 DEF SessionTyped
    <2>3. t \in WhoTokens /\ t \in Tokens /\ t.user = Guest
      BY <2>2 DEF SessionTyped, Issued, WhoTokens, Who
    <2> HIDE DEF t
    <2>4. \A j \in Waiting : reqs[j] \in Requests
      BY DEF ChatTyped, Waiting
    <2>5. \A j \in Waiting :
            LET r == [reqs[j] EXCEPT !.token = t, !.phase = "sent", !.retried = TRUE]
            IN  r \in Requests /\ r.kind = reqs[j].kind /\ r.before = reqs[j].before /\ r.token = t
      BY ZenonT(60), <2>3, <2>4 DEF Requests
    <2>6. \A j \in Ids :
            \/ j \notin Waiting /\ reqs'[j] = reqs[j]
            \/ j \in Waiting /\ GivenUp(j) /\ reqs'[j] = None
            \/ j \in Waiting /\ ~GivenUp(j) /\
               reqs'[j] = [reqs[j] EXCEPT !.token = t, !.phase = "sent", !.retried = TRUE]
      BY <2>1 DEF Resent
    <2>7. reqs' \in [Ids -> Requests \cup {None}]
      BY <2>1, <2>5, <2>6 DEF Resent, ChatTyped
    <2>8. WhoTokens' = WhoTokens /\ Who' = Who
      BY <2>1 DEF WhoTokens, Who
    <2>9. \A j \in Ids : reqs'[j] # None => reqs'[j].token \in WhoTokens \cup {None}
      <3> SUFFICES ASSUME NEW j \in Ids, reqs'[j] # None
                   PROVE  reqs'[j].token \in WhoTokens \cup {None}
        OBVIOUS
      <3> DEFINE r == [reqs[j] EXCEPT !.token = t, !.phase = "sent", !.retried = TRUE]
      <3>1. j \in Waiting => r.token = t
        BY <2>5
      <3> HIDE DEF r
      <3>2. \/ j \notin Waiting /\ reqs'[j] = reqs[j]
            \/ j \in Waiting /\ reqs'[j] = r
        BY <2>6 DEF r
      <3> QED
        BY <2>3, <3>1, <3>2 DEF ChatTyped
    <2>10. owner # None => /\ reqs'[owner] # None /\ reqs'[owner].kind = reqs[owner].kind
                           /\ reqs'[owner].before = reqs[owner].before
      <3> SUFFICES ASSUME owner # None
                   PROVE  /\ reqs'[owner] # None /\ reqs'[owner].kind = reqs[owner].kind
                          /\ reqs'[owner].before = reqs[owner].before
        OBVIOUS
      <3>1. owner \in Ids /\ ~GivenUp(owner) /\ reqs[owner] # None
        BY DEF ChatTyped, ChatShown, GivenUp
      <3>2. CASE owner \notin Waiting
        BY <2>6, <3>1, <3>2
      <3>3. CASE owner \in Waiting
        <4> DEFINE r == [reqs[owner] EXCEPT !.token = t, !.phase = "sent", !.retried = TRUE]
        <4>1. reqs'[owner] = r
          BY <2>6, <3>1, <3>3
        <4>2. r \in Requests /\ r.kind = reqs[owner].kind /\ r.before = reqs[owner].before
          BY <2>5, <3>3
        <4> HIDE DEF r
        <4>3. r # None
          BY <4>2
        <4> QED
          BY <4>1, <4>2, <4>3
      <3> QED
        BY <3>2, <3>3
    <2>11. SessionTyped'
      BY <2>1, <2>2, <2>3 DEF SessionTyped, Issue, Login, Who, WhoTokens, Inside
    <2>12. ChatTyped'
      BY <2>1, <2>7, <2>8, <2>9 DEF ChatTyped, chat
    <2>13. ChatShown'
      BY <2>1, <2>10 DEF ChatShown, InApp, chat
    <2>14. late' \in BOOLEAN /\ (~late' => SessionOwned')
      <3>1. Chatter = Guest /\ Chatter' = Guest
        BY <2>1, <2>2 DEF Chatter
      <3>2. late' = late /\ late' \in BOOLEAN
        BY <2>1
      <3> SUFFICES ASSUME ~late
                   PROVE  SessionOwned'
        BY <3>2
      <3>3. SessionOwned
        OBVIOUS
      <3>4. page = "loading" => check # None /\ check.user = Guest
        BY <2>2, <3>3 DEF SessionTyped, SessionOwned, Who, WhoTokens
      <3>5. token' = t /\ auth' = Guest
        BY <2>1, <2>3 DEF Login
      <3> QED
        BY <2>1, <2>2, <2>3, <3>1, <3>3, <3>4, <3>5
        DEF SessionOwned, OwnedBy, Inside, chat
    <2> QED
      BY <2>11, <2>12, <2>13, <2>14
  <1>3. CASE RefreshFails
    <2> DEFINE left == [i \in Ids |-> IF i \in Waiting THEN None ELSE reqs[i]]
    <2>1. /\ refreshing' = FALSE /\ UNCHANGED <<serverVars, sent>>
          /\ IF \A i \in Waiting : Silent(i)
             THEN reqs' = left /\ UNCHANGED <<stored, login, chat>>
             ELSE ToLogin(left)
      BY <1>3 DEF RefreshFails
    <2>2. left \in [Ids -> Requests \cup {None}] /\ \A i \in Ids : left[i] \in {None, reqs[i]}
      BY DEF ChatTyped
    <2>3. CASE \A i \in Waiting : Silent(i)
      <3>1. reqs' = left /\ UNCHANGED <<stored, login, chat>>
        BY <2>1, <2>3
      <3>2. owner # None => reqs'[owner] = reqs[owner]
        BY <2>3, <3>1 DEF Silent, ChatTyped
      <3> HIDE DEF left
      <3>3. SessionTyped'
        BY <2>1, <3>1 DEF SessionTyped, Who, WhoTokens, Inside, serverVars, stored, login
      <3>4. ChatTyped'
        BY <2>1, <2>2, <3>1 DEF ChatTyped, Who, WhoTokens, serverVars, stored, chat
      <3>5. ChatShown'
        BY <2>1, <3>1, <3>2 DEF ChatShown, InApp, stored, login, chat
      <3>6. late' \in BOOLEAN /\ (~late' => SessionOwned')
        BY <2>1, <3>1 DEF SessionOwned, OwnedBy, Chatter, Inside, serverVars, stored, login, chat
      <3> QED
        BY <3>3, <3>4, <3>5, <3>6
    <2>4. CASE ~\A i \in Waiting : Silent(i)
      <3> HIDE DEF left
      <3> QED
        BY <2>1, <2>2, <2>4, ToLoginKeeps
    <2> QED
      BY <2>3, <2>4
  <1> QED
    BY <1>1, <1>2, <1>3 DEF Refresh

(* Stop writes what is shown.                                              *)
LEMMA StopKeeps ==
    ASSUME SessionInvariant, Stop
    PROVE  SessionInvariant'
  <1> USE SessionAssumption DEF SessionInvariant, Names, Tokens
  <1>1. /\ messages' = Finalized(messages, "stopped") /\ history' = messages'
        /\ owner # None /\ owner' = None /\ reqs' = Aborted(reqs)
        /\ UNCHANGED <<serverVars, token, previous, checked, login, refreshing, sent>>
    BY DEF Stop, Finalized
  <1>2. PICK m \in Entries : messages = Append(history, m)
    BY <1>1 DEF ChatShown
  <1>3. /\ history' \in Seq(Entries)
        /\ \A u : OwnedBy(messages, u) => OwnedBy(history', u)
    <2>1. history \in Seq(Entries) /\ "stopped" \in {"running", "done", "failed", "stopped"}
      BY DEF ChatTyped
    <2>2. /\ Finalized(messages, "stopped") = Append(history, Said(m, "stopped"))
          /\ Append(history, Said(m, "stopped")) \in Seq(Entries)
          /\ \A u : OwnedBy(messages, u) => OwnedBy(Append(history, Said(m, "stopped")), u)
      BY <1>2, <2>1, Closing
    <2> QED
      BY <1>1, <2>2
  <1>4. /\ reqs' \in [Ids -> Requests \cup {None}]
        /\ \A i \in Ids : reqs'[i] \in {None, reqs[i]}
    BY <1>1 DEF Aborted, ChatTyped
  <1>5. SessionTyped'
    BY <1>1 DEF SessionTyped, Who, WhoTokens, Inside, serverVars, login
  <1>6. ChatTyped'
    BY <1>1, <1>3, <1>4 DEF ChatTyped, Who, WhoTokens, serverVars
  <1>7. ChatShown'
    BY <1>1 DEF ChatShown
  <1>8. late' \in BOOLEAN /\ (~late' => SessionOwned')
    <2>1. Chatter' = Chatter
      BY <1>1 DEF Chatter, Inside, serverVars, login
    <2> QED
      BY <1>1, <1>3, <2>1 DEF SessionOwned, Inside, serverVars, login
  <1> QED
    BY <1>5, <1>6, <1>7, <1>8

(* Every step keeps the invariant.                                         *)
LEMMA SessionSteps ==
    ASSUME SessionInvariant, [Next]_vars
    PROVE  SessionInvariant'
  <1>1. CASE Logout
    <2>1. reqs \in [Ids -> Requests \cup {None}] /\ (configured => ~refreshing)
      BY DEF SessionInvariant, ChatTyped, SessionTyped
    <2>2. ToLogin(reqs) /\ UNCHANGED <<serverVars, sent>> /\ refreshing' = refreshing
      BY <1>1 DEF Logout
    <2> QED
      BY <2>1, <2>2, ToLoginKeeps
  <1>2. CASE UNCHANGED vars
    BY <1>2 DEF vars, serverVars, stored, login, chat, SessionInvariant, SessionTyped, ChatTyped,
       ChatShown, SessionOwned, OwnedBy, Chatter, Inside, InApp, Who, WhoTokens
  <1> QED
    BY <1>1, <1>2, LoginPageKeeps, TabKeeps, SendKeeps, OverKeeps, WaitersKeep, StopKeeps
    DEF Next, Settle

LEMMA SessionAlways == Spec => []SessionInvariant
  BY SessionStarts, SessionSteps, PTL DEF Spec

(* Whatever is stopped, superseded, unmounted, refreshed or reloaded, the  *)
(* persisted history is what the chat shows, without the query that runs.  *)
THEOREM ShowsItsHistory == Spec => []HistoryIsShown
  <1>1. ASSUME SessionInvariant
        PROVE  HistoryIsShown
    <2> SUFFICES ASSUME InApp
                 PROVE  history = IF owner = None THEN messages ELSE Front(messages)
      BY DEF HistoryIsShown
    <2>1. CASE owner = None
      BY <1>1, <2>1 DEF SessionInvariant, ChatShown
    <2>2. CASE owner # None
      <3>1. PICK m \in Entries : messages = Append(history, m)
        BY <1>1, <2>2 DEF SessionInvariant, ChatShown
      <3>2. history \in Seq(Entries) /\ "done" \in {"running", "done", "failed", "stopped"}
        BY <1>1 DEF SessionInvariant, ChatTyped
      <3> QED
        BY <2>2, <3>1, <3>2, Closing
    <2> QED
      BY <2>1, <2>2
  <1> QED
    BY <1>1, SessionAlways, PTL

(* Whoever is logged in sees nobody else's chat, but for an answer that    *)
(* arrives after its session has ended and puts that session back.         *)
THEOREM HistoryIsOwned == Spec => []HistoryOwned
  <1>1. ASSUME SessionInvariant
        PROVE  HistoryOwned
    BY <1>1 DEF SessionInvariant, SessionTyped, SessionOwned, OwnedBy, Chatter, Inside, InApp,
       Who, HistoryOwned
  <1> QED
    BY <1>1, SessionAlways, PTL

(* The query that runs is the last message. A step ends it or leaves it,   *)
(* or asks the next one.                                                   *)
Running ==
    owner # None => Last(messages).id = owner /\ Last(messages).outcome = "running"

LEMMA RunningSteps ==
    ASSUME SessionInvariant, Running, [Next]_vars
    PROVE  Running'
  <1>1. ASSUME owner' = None \/ UNCHANGED chat
        PROVE  Running'
    BY <1>1 DEF Running, chat
  <1>2. ASSUME NEW kind, Ask(kind)
        PROVE  Running'
    <2> DEFINE m == [id |-> sent', user |-> auth, outcome |-> "running"]
    <2>1. owner' = sent' /\ messages' = Append(messages, m)
      BY <1>2 DEF Ask
    <2>2. m.id = sent' /\ m.outcome = "running"
      OBVIOUS
    <2> HIDE DEF m
    <2>3. messages \in Seq(Entries)
      BY DEF SessionInvariant, ChatTyped
    <2>4. Len(messages') = Len(messages) + 1 /\ messages'[Len(messages) + 1] = m
      BY <2>1, <2>3, AppendProperties
    <2> QED
      BY <2>1, <2>2, <2>4 DEF Running, Last
  <1>3. CASE \/ \E t \in live : Expire(t)
             \/ CheckAnswers \/ CheckFails
             \/ \E u \in Users : Submit(u)
             \/ LoginAnswers \/ LoginFails
    BY <1>1, <1>3 DEF Expire, CheckAnswers, CheckFails, Submit, LoginAnswers, LoginFails, Enter
  <1>4. CASE Logout \/ VersionAnswers \/ VersionFails \/ Poll \/ Stop \/ Clear \/ Reload
    BY <1>1, <1>4 DEF Logout, ToLogin, VersionAnswers, VersionFails, Enter, Poll, Stop, Clear,
       Reload, chat
  <1>5. ASSUME NEW i \in Ids, Settle(i)
        PROVE  Running'
    BY <1>1, <1>5 DEF Settle, Answer, RequestFails, Ended, Unauthorized, ToLogin
  <1>6. CASE Refresh
    BY <1>1, <1>6 DEF Refresh, RefreshAnswers, RefreshFails, ToLogin
  <1>7. CASE UNCHANGED vars
    BY <1>1, <1>7 DEF vars
  <1> QED
    BY <1>2, <1>3, <1>4, <1>5, <1>6, <1>7 DEF Next

(* A request waits only while a refresh is on its way: the refresh that    *)
(* ends leaves no request waiting.                                         *)
Renewing == Waiting # {} => refreshing

LEMMA RenewingSteps ==
    ASSUME SessionInvariant, Renewing, [Next]_vars
    PROVE  Renewing'
  <1>0. reqs \in [Ids -> Requests \cup {None}]
    BY DEF SessionInvariant, ChatTyped
  <1>1. ASSUME \A i \in Ids : reqs'[i] \in {None, reqs[i]} \/ reqs'[i].phase = "sent",
               refreshing' = refreshing
        PROVE  Renewing'
    BY <1>1 DEF Renewing, Waiting
  <1>2. ASSUME UNCHANGED <<reqs, refreshing>>
        PROVE  Renewing'
    BY <1>2 DEF Renewing, Waiting
  <1>3. ASSUME Waiting' = {}
        PROVE  Renewing'
    BY <1>3 DEF Renewing
  <1>4. ASSUME NEW rs \in [Ids -> Requests \cup {None}], ToLogin(rs)
        PROVE  \A i \in Ids : reqs'[i] \in {None, rs[i]}
    BY <1>4 DEF ToLogin, Aborted
  <1>5. CASE \/ \E t \in live : Expire(t)
             \/ CheckAnswers \/ CheckFails
             \/ \E u \in Users : Submit(u)
             \/ LoginAnswers \/ LoginFails \/ VersionAnswers \/ VersionFails \/ Clear
    BY <1>2, <1>5 DEF Expire, CheckAnswers, CheckFails, Submit, LoginAnswers, LoginFails,
       VersionAnswers, VersionFails, Clear
  <1>6. CASE Logout
    BY <1>0, <1>1, <1>4, <1>6 DEF Logout
  <1>7. CASE Stop
    BY <1>0, <1>1, <1>7 DEF Stop, Aborted
  <1>8. CASE Reload
    BY <1>3, <1>8 DEF Reload, Waiting
  <1>9. ASSUME NEW kind, Send(kind), refreshing' = refreshing
        PROVE  Renewing'
    BY <1>0, <1>1, <1>9 DEF Send
  <1>10. ASSUME NEW i \in Ids, Settle(i)
         PROVE  Renewing'
    <2>1. \A j \in Ids : Without(i)[j] \in {None, reqs[j]}
      BY <1>0 DEF Without
    <2>2. CASE Answer(i) \/ RequestFails(i)
      BY <1>1, <2>1, <2>2 DEF Answer, RequestFails
    <2>3. CASE Unauthorized(i) /\ MayRefresh(i)
      BY <2>3 DEF Unauthorized, Renewing
    <2>4. CASE Unauthorized(i) /\ ~MayRefresh(i)
      <3>1. ToLogin(Without(i)) /\ refreshing' = refreshing
        BY <2>4 DEF Unauthorized
      <3>2. Without(i) \in [Ids -> Requests \cup {None}]
        BY <1>0 DEF Without
      <3> QED
        BY <1>1, <1>4, <2>1, <3>1, <3>2
    <2> QED
      BY <1>10, <2>2, <2>3, <2>4 DEF Settle
  <1>11. CASE RefreshAnswers
    <2> DEFINE t == Issued(Guest)
    <2>1. reqs' = Resent(t)
      BY <1>11 DEF RefreshAnswers
    <2>2. \A j \in Waiting :
            [reqs[j] EXCEPT !.token = t, !.phase = "sent", !.retried = TRUE].phase = "sent"
      BY <1>0 DEF Waiting, Requests
    <2> HIDE DEF t
    <2>3. Waiting' = {}
      BY <2>1, <2>2 DEF Resent, Waiting
    <2> QED
      BY <1>3, <2>3
  <1>12. CASE RefreshFails
    <2> DEFINE left == [i \in Ids |-> IF i \in Waiting THEN None ELSE reqs[i]]
    <2>1. reqs' = left \/ ToLogin(left)
      BY <1>12 DEF RefreshFails
    <2>2. left \in [Ids -> Requests \cup {None}]
      BY <1>0
    <2>3. \A i \in Ids : left[i] # None => left[i].phase # "refresh"
      BY DEF Waiting
    <2> HIDE DEF left
    <2>4. \A i \in Ids : reqs'[i] \in {None, left[i]}
      BY <1>4, <2>1, <2>2
    <2>5. Waiting' = {}
      BY <2>3, <2>4 DEF Waiting
    <2> QED
      BY <1>3, <2>5
  <1>13. CASE UNCHANGED vars
    BY <1>2, <1>13 DEF vars
  <1> QED
    BY <1>5, <1>6, <1>7, <1>8, <1>9, <1>10, <1>11, <1>12, <1>13 DEF Next, Refresh, Poll, Ask

(* Every variable has its type; a query that runs is the last message on   *)
(* display, and a request waits only while a refresh is on its way.        *)
THEOREM SessionTypes == Spec => []TypeOK
  <1> DEFINE Inv == SessionInvariant /\ Running /\ Renewing
  <1>1. Init => Inv
    BY SessionStarts DEF Init, Running, Renewing, Waiting
  <1>2. Inv /\ [Next]_vars => Inv'
    BY SessionSteps, RunningSteps, RenewingSteps
  <1>3. Inv => TypeOK
    BY DEF SessionInvariant, SessionTyped, ChatTyped, ChatShown, Running, Renewing, TypeOK,
       WhoTokens, Who, Tokens, Names
  <1> QED
    BY <1>1, <1>2, <1>3, PTL DEF Spec
=============================================================================
