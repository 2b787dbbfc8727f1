-------------------------- MODULE ExplorationTrace --------------------------
(***************************************************************************)
(* The exploration log of one workspace and the Melchior tab that follows  *)
(* it.  The handlers of memory_routes.py append numbered events to the     *)
(* trace of an exploration; the tab polls the list of traces, follows the  *)
(* one touched last and asks for the events after the last it has          *)
(* (MelchiorView.tsx, stores/exploration.ts).  What it has is drawn        *)
(* (utils/explorationGraph.ts), as it is now or as it was when a chosen    *)
(* event of the history came.                                              *)
(*                                                                         *)
(* An event is its type, its call and its number; what a call carries      *)
(* (agent, visit, frontier, candidates) is a constant of the call.         *)
(* Positions, colours and texts are left out.  External: which handlers    *)
(* the agent's client calls, when, and with what.                          *)
(***************************************************************************)
EXTENDS WebTabs, KeptSequences

CONSTANTS
    Explorations,
    ExpandCalls,
    Nothing,
    Payload,    \* of each call: its agent, the Entities and the edges it
                \* has visited, its frontier, the edges it finds
    Batch,      \* events an answer holds at most (limit)
    MaxEvents   \* bound on the events of a trace

ASSUME TraceAssumption ==
    /\ Nothing \notin Explorations
    /\ "initial" \notin ExpandCalls
    /\ Payload["initial"].frontier = {} /\ Payload["initial"].found = {}
    /\ Batch \in Nat \ {0} /\ MaxEvents \in Nat

VARIABLES
    log,        \* exploration_events of each exploration
    recent,     \* exploration_traces, the last updated first
    handling,   \* requests of the agent in the middle of their handler
    polling,    \* is a request for the traces out
    wanted,     \* the request for events that is out: its trace and after_seq
    current, lastSeq, events, frames,   \* the exploration store
    replay      \* replaySelection: the event chosen in a history, or Nothing

logVars == <<log, recent, handling>>
melchior == <<polling, wanted, current, lastSeq, events, frames, replay>>

Calls == ExpandCalls \cup {"initial"}
Events == [type : {"initialized", "started", "completed", "failed"}, call : Calls,
           seq : 1..MaxEvents]
Handler(x, call, step) == [x |-> x, call |-> call, step |-> step]

TraceTypeOK ==
    /\ log \in [Explorations -> Seq(Events)]
    /\ recent \in Seq(Explorations)
    /\ handling \subseteq [x : Explorations, call : Calls, step : {"check", "append", "expand"}]
    /\ polling \in BOOLEAN
    /\ wanted \in [x : Explorations, after : Nat] \cup {Nothing}
    /\ current \in Explorations \cup {Nothing}
    /\ lastSeq \in Nat
    /\ events \in Seq(Events)
    /\ \A c \in DOMAIN frames : c \in Calls /\ frames[c] \in
          [status : {"initialized", "expanding", "complete", "failed"},
           from : 1..MaxEvents, at : 1..MaxEvents]
    /\ replay \in [x : Explorations, seq : 1..MaxEvents] \cup {Nothing}

Unfollowed ==
    /\ current' = Nothing /\ lastSeq' = 0 /\ events' = <<>> /\ frames' = <<>>

TraceInit ==
    /\ log = [x \in Explorations |-> <<>>]
    /\ recent = <<>>
    /\ handling = {}
    /\ polling = FALSE /\ wanted = Nothing
    /\ current = Nothing /\ lastSeq = 0 /\ events = <<>> /\ frames = <<>>
    /\ replay = Nothing

(* ------------------------------ the log -------------------------------- *)
(* register_exploration_trace, or the upsert of an append                  *)
Touched(x) == <<x>> \o Kept(recent, Explorations \ {x})

(* append_exploration_event: the next number, in one transaction           *)
Append1(x, type, call) ==
    /\ Len(log[x]) < MaxEvents
    /\ log' = [log EXCEPT ![x] = Append(@, [type |-> type, call |-> call,
                                             seq |-> Len(log[x]) + 1])]
    /\ recent' = Touched(x)

(* POST /explore/traces: the trace, then a look for events, then the first *)
RegisterBegin(x) ==
    /\ \A i \in DOMAIN recent : recent[i] # x
    /\ recent' = Touched(x)
    /\ handling' = handling \cup {Handler(x, "initial", "check")}
    /\ UNCHANGED log

RegisterLooks(h) ==
    /\ h.step = "check"
    /\ handling' = IF log[h.x] = <<>>
                   THEN (handling \ {h}) \cup {[h EXCEPT !.step = "append"]}
                   ELSE handling \ {h}
    /\ UNCHANGED <<log, recent>>

RegisterAppends(h) ==
    /\ h.step = "append"
    /\ Append1(h.x, "initialized", "initial")
    /\ handling' = handling \ {h}

(* POST /explore/expand with a trace: one event before and one after       *)
ExpandBegin(x, c) ==
    /\ \A y \in Explorations : \A i \in DOMAIN log[y] : log[y][i].call # c
    /\ Append1(x, "started", c)
    /\ handling' = handling \cup {Handler(x, c, "expand")}

ExpandEnds(h, type) ==
    /\ h.step = "expand"
    /\ Append1(h.x, type, h.call)
    /\ handling' = handling \ {h}

(* The server stops, or the append itself fails: no second event.          *)
HandlerDies(h) ==
    /\ handling' = handling \ {h}
    /\ UNCHANGED <<log, recent>>

Agent ==
    \/ \E x \in Explorations :
          RegisterBegin(x) \/ \E c \in ExpandCalls : ExpandBegin(x, c)
    \/ \E h \in handling :
          \/ RegisterLooks(h) \/ RegisterAppends(h) \/ HandlerDies(h)
          \/ \E type \in {"completed", "failed"} : ExpandEnds(h, type)

(* ----------------------------- the store ------------------------------- *)
(* reduceExplorationEvents for one event: the end of a call that was never *)
(* seen to start is dropped.                                               *)
Status(type) == CASE type = "initialized" -> "initialized"
                  [] type = "started" -> "expanding"
                  [] type = "completed" -> "complete"
                  [] OTHER -> "failed"
Begins(e) == e.type \in {"initialized", "started"}
Frame(f, e) == [status |-> Status(e.type), at |-> e.seq,
                from |-> IF Begins(e) THEN e.seq ELSE f[e.call].from]
Reduced(f, e) ==
    IF Begins(e) \/ e.call \in DOMAIN f
    THEN [c \in DOMAIN f \cup {e.call} |-> IF c = e.call THEN Frame(f, e) ELSE f[c]]
    ELSE f

ReducedAll(f, es) ==
    LET r[n \in 0..Len(es)] == IF n = 0 THEN f ELSE Reduced(r[n - 1], es[n])
    IN  r[Len(es)]

(* Mutant: the effect of the old trace is not cancelled.                   *)
FollowUncancelled(newest) ==
    IF newest = current
    THEN UNCHANGED <<current, lastSeq, events, frames, wanted>>
    ELSE /\ current' = newest
         /\ lastSeq' = 0 /\ events' = <<>> /\ frames' = <<>>
         /\ UNCHANGED wanted

(* Mutant: a trace that is followed is followed to the end.                *)
FollowFirst(newest) ==
    IF current # Nothing
    THEN UNCHANGED <<current, lastSeq, events, frames, wanted>>
    ELSE /\ current' = newest
         /\ lastSeq' = 0 /\ events' = <<>> /\ frames' = <<>>
         /\ wanted' = Nothing

(* setTraces(list): the newest trace is followed, from its first event.    *)
(* The effect of the old one is cancelled: its answer counts for nothing.  *)
Follow(newest) ==
    IF newest = current
    THEN UNCHANGED <<current, lastSeq, events, frames, wanted>>
    ELSE /\ current' = newest
         /\ lastSeq' = 0 /\ events' = <<>> /\ frames' = <<>>
         /\ wanted' = Nothing

(* ------------------------------- the tab ------------------------------- *)
(* Both effects end with the tab, and what they had asked for with them.   *)
MelchiorTab ==
    /\ polling' = FALSE /\ wanted' = Nothing
    /\ UNCHANGED <<current, lastSeq, events, frames, replay>>

AskTraces ==
    /\ tab = "melchior" /\ ~polling
    /\ polling' = TRUE
    /\ UNCHANGED <<wanted, current, lastSeq, events, frames, replay>>

TracesAnswer(list) ==
    /\ polling
    /\ polling' = FALSE
    /\ Follow(IF list = <<>> THEN Nothing ELSE Head(list))
    /\ UNCHANGED replay

AskEvents ==
    /\ tab = "melchior" /\ current # Nothing /\ wanted = Nothing
    /\ wanted' = [x |-> current, after |-> lastSeq]
    /\ UNCHANGED <<polling, current, lastSeq, events, frames, replay>>

(* The events after after_seq, at most Batch of them, in order             *)
After(s, n) == SubSeq(s, n + 1, IF n + Batch < Len(s) THEN n + Batch ELSE Len(s))

(* applyEvents: the last number is that of the last event                  *)
Applied(new) ==
    /\ events' = events \o new
    /\ frames' = ReducedAll(frames, new)
    /\ lastSeq' = IF new = <<>> THEN lastSeq ELSE new[Len(new)].seq

EventsAnswer(of) ==
    /\ wanted # Nothing
    /\ Applied(IF of THEN After(log[wanted.x], wanted.after) ELSE <<>>)
    /\ wanted' = Nothing
    /\ UNCHANGED <<polling, current, replay>>

(* A poll fails: the next one asks again.                                  *)
PollFails ==
    /\ \/ polling /\ polling' = FALSE /\ UNCHANGED wanted
       \/ wanted # Nothing /\ wanted' = Nothing /\ UNCHANGED polling
    /\ UNCHANGED <<current, lastSeq, events, frames, replay>>

(* A call of the history: the scene is that of its last event.             *)
Replay(c) ==
    /\ tab = "melchior" /\ c \in DOMAIN frames
    /\ replay' = [x |-> current, seq |-> frames[c].at]
    /\ UNCHANGED <<polling, wanted, current, lastSeq, events, frames>>

ReturnToLive ==
    /\ tab = "melchior" /\ replay # Nothing /\ replay.x = current
    /\ replay' = Nothing
    /\ UNCHANGED <<polling, wanted, current, lastSeq, events, frames>>

(* ----------------------------- the drawing ----------------------------- *)
(* Mutant: a visit is drawn as long as its agent makes no other call.      *)
VisitedByLatest(fs) ==
    LET Last(c) == \A d \in DOMAIN fs : Payload[d].agent = Payload[c].agent =>
                      fs[d].from <= fs[c].from
    IN  UNION {Payload[c].entities \cup UNION Payload[c].walked :
                  c \in {d \in DOMAIN fs : Last(d)}}

(* Every visit of every call, and the ends of the edges walked             *)
Visited(fs) == UNION {Payload[c].entities \cup UNION Payload[c].walked : c \in DOMAIN fs}
Walked(fs) == UNION {Payload[c].walked : c \in DOMAIN fs}

(* latestExpandFramesByAgent: only these have a frontier and candidates,   *)
(* and these only once they are complete.                                  *)
Latest(fs) == {c \in DOMAIN fs : \A d \in DOMAIN fs :
                  Payload[d].agent = Payload[c].agent => fs[d].from <= fs[c].from}
Frontier(fs) == UNION {Payload[c].frontier : c \in Latest(fs)}
Candidates(fs) == UNION {Payload[c].found : c \in {d \in Latest(fs) : fs[d].status = "complete"}}

(* buildExplorationGraph                                                   *)
Drawn(fs) ==
    [nodes |-> [n \in Visited(fs) \cup Frontier(fs) \cup UNION Candidates(fs) |->
                   IF n \in Frontier(fs) THEN "frontier"
                   ELSE IF n \in Visited(fs) THEN "visited" ELSE "candidate"],
     edges |-> [e \in Walked(fs) \cup Candidates(fs) |->
                   IF e \in Walked(fs) THEN "visited" ELSE "candidate"]]

(* visibleExpandCalls                                                      *)
Replaying == IF replay # Nothing /\ replay.x = current THEN replay.seq ELSE 0
Visible ==
    IF Replaying = 0 THEN frames
    ELSE ReducedAll(<<>>, Kept(events, {e \in Events : e.seq <= Replaying}))

(* What the tab shows is a prefix of the log of the exploration it         *)
(* follows: whatever the tab, the newest trace and the late answers do, no *)
(* event is shown twice, out of order, or under another exploration, and   *)
(* the frames built up answer by answer are those a replay builds.         *)
ShownIsPrefix ==
    /\ current # Nothing => events = SubSeq(log[current], 1, lastSeq)
    /\ current = Nothing => events = <<>>
    /\ lastSeq = Len(events)
    /\ frames = ReducedAll(<<>>, events)

(* What was visited stays on the drawing of an exploration, whatever other *)
(* calls its agents make; and a scene of the history stands still while    *)
(* the events after it go on coming.                                       *)
VisitedKept ==
    current' = current /\ Replaying' = Replaying =>
        /\ Visited(Visible) \subseteq Visited(Visible')
        /\ Replaying \in 1..lastSeq => Drawn(Visible') = Drawn(Visible)
=============================================================================
