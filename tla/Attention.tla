----------------------------- MODULE Attention -----------------------------
(***************************************************************************)
(* The daemon's index of attention events and the mirrors its clients keep.*)
(*                                                                         *)
(* AttentionIndex::observe compares every published federation state with  *)
(* what it saw last, numbers the transitions, and the daemon saves the     *)
(* index and sends what is new.  A client edits its mirror at once when    *)
(* its person reads or clears events, asks the daemon for the same, and is *)
(* answered with the whole history whenever that changed anything.         *)
(***************************************************************************)
EXTENDS Naturals, Sequences, FiniteSets, SequencesExt

CONSTANTS
    Panes,          \* the agents' panes, 1 .. n in the order of their names
    Statuses,       \* what an agent may report: [phase, ready]
    Clients,
    MaxEvents,      \* MAX_ATTENTION_EVENTS
    MaxId,          \* named bound: events numbered
    MaxQueue,       \* named bound: messages under way to or from a client
    MaxRestarts     \* named bound: restarts of the daemon

VARIABLES
    index,          \* Daemon.attention: [next, seen, events]
    cursor,         \* Daemon.attention_cursor, 0 for None; ids begin at 1
    disk,           \* attention-state.json
    mirror,         \* per client: the events of App.attention
    toClient,       \* per client: "event" and "history" messages
    toDaemon,       \* per client: what it asks for
    restarts

clients == <<mirror, toClient, toDaemon>>
attention == <<index, cursor, disk, clients, restarts>>

Gone == [phase |-> "gone", ready |-> FALSE]
Empty == [next |-> 1, seen |-> [p \in Panes |-> Gone], events |-> <<>>]
History(events) == [kind |-> "history", events |-> events]
Room(queue) == Len(queue) < MaxQueue

-----------------------------------------------------------------------------
(* AttentionIndex *)

\* drain, to what MAX_ATTENTION_EVENTS allows
Newest(events) == SubSeq(events, IF Len(events) > MaxEvents THEN Len(events) - MaxEvents + 1 ELSE 1, Len(events))

\* agent_phase: what is ready needs attention whatever its status says.
Phase(status) == IF status.ready THEN "attention" ELSE status.phase

\* transition_kind, "none" for None
TransitionKind(before, now) ==
    CASE Phase(before) = Phase(now) -> IF now.ready /\ ~before.ready THEN "needs" ELSE "none"
      [] Phase(now) = "attention" -> "needs"
      [] Phase(now) = "working" -> "working"
      [] Phase(now) = "idle" /\ Phase(before) \in {"attention", "working"} -> "completed"
      [] OTHER -> "changed"

\* The transitions of one observation in order: of the agents there are, then
\* those that disappeared, which only a live session can say.
Transitions(seen, now, live) ==
    LET panes == SetToSortSeq(Panes, <)
        kind(p) == TransitionKind(seen[p], now[p])
        moved == SelectSeq(panes, LAMBDA p : live /\ Gone \notin {seen[p], now[p]} /\ kind(p) # "none")
        left == SelectSeq(panes, LAMBDA p : live /\ seen[p] # Gone /\ now[p] = Gone)
    IN  [i \in DOMAIN moved |-> [pane |-> moved[i], kind |-> kind(moved[i])]]
        \o [i \in DOMAIN left |-> [pane |-> left[i], kind |-> "disappeared"]]

\* push_event, one after another
Pushed(idx, new) ==
    LET numbered == [i \in DOMAIN new |->
                        [id |-> idx.next + i - 1, pane |-> new[i].pane, kind |-> new[i].kind, unread |-> TRUE]]
    IN  [idx EXCEPT !.next = @ + Len(new), !.events = Newest(@ \o numbered)]

\* observe: an unreachable session keeps what it was seen with, one that is
\* no longer configured is forgotten without a word.
Observed(idx, now, live, known) ==
    LET next == Pushed(idx, Transitions(idx.seen, now, live))
    IN  [next EXCEPT !.seen = IF live THEN now ELSE IF known THEN @ ELSE Empty.seen]

SeenWhere(events, panes) ==
    [i \in DOMAIN events |-> [events[i] EXCEPT !.unread = @ /\ events[i].pane \notin panes]]

\* mark_seen_for_pane, mark_all_seen and clear_seen
Apply(events, request) ==
    CASE request.kind = "pane" -> SeenWhere(events, {request.pane})
      [] request.kind = "all" -> SeenWhere(events, Panes)
      [] request.kind = "clear" -> SelectSeq(events, LAMBDA e : e.unread)

Requests == [kind : {"pane"}, pane : Panes] \cup [kind : {"all", "clear"}]

\* AttentionStore::load: next_event_id is past every event that was kept.
Loaded(idx) ==
    [idx EXCEPT !.next = IF idx.events # <<>> /\ Last(idx.events).id + 1 > @ THEN Last(idx.events).id + 1 ELSE @]

-----------------------------------------------------------------------------
(* The daemon *)

InitAttention ==
    /\ index = Empty /\ cursor = 0 /\ disk = Empty
    /\ mirror = [c \in Clients |-> <<>>]
    /\ toClient = [c \in Clients |-> <<History(<<>>)>>]
    /\ toDaemon = [c \in Clients |-> <<>>]
    /\ restarts = 0

\* persist_attention: a write that fails leaves the file as it was.  Past the
\* last restart nothing reads it.
Persist(idx) == disk' \in IF restarts < MaxRestarts THEN {idx, disk} ELSE {disk}

Broadcast(messages) ==
    /\ \A c \in Clients : messages # <<>> => Room(toClient[c])
    /\ toClient' = [c \in Clients |-> toClient[c] \o messages]

\* The events an observation adds to what was sent.
Fresh(idx) == SelectSeq(idx.events, LAMBDA e : e.id > cursor)

\* Input::Federation, observe_attention
Observe(now, live, known) ==
    LET next == Observed(index, now, live, known)
        fresh == Fresh(next)
    IN  /\ next # index /\ next.next <= MaxId + 1
        /\ index' = next
        /\ Persist(next)
        /\ cursor' = IF fresh = <<>> THEN cursor ELSE Last(fresh).id
        /\ Broadcast([i \in DOMAIN fresh |-> [kind |-> "event", event |-> fresh[i]]])
        /\ UNCHANGED <<mirror, toDaemon, restarts>>

ObserveAny ==
    \/ \E now \in [Panes -> Statuses \cup {Gone}] : Observe(now, TRUE, TRUE)
    \/ \E known \in BOOLEAN : Observe(Empty.seen, FALSE, known)

\* MarkAttentionSeen, MarkAllAttentionSeen, ClearSeenAttention, attention_changed
TakeRequest(c) ==
    LET events == Apply(index.events, Head(toDaemon[c]))
    IN  /\ toDaemon[c] # <<>>
        /\ toDaemon' = [toDaemon EXCEPT ![c] = Tail(@)]
        /\ IF events = index.events
           THEN UNCHANGED <<index, disk, toClient>>
           ELSE /\ index' = [index EXCEPT !.events = events]
                /\ Persist(index')
                /\ Broadcast(<<History(events)>>)
        /\ UNCHANGED <<cursor, mirror, restarts>>

\* The daemon ends and is started again; its clients come back to it.
RestartDaemon ==
    /\ restarts < MaxRestarts /\ restarts' = restarts + 1
    /\ index' \in {Loaded(disk), Empty}
    /\ cursor' = IF index'.events = <<>> THEN 0 ELSE Last(index'.events).id
    /\ mirror' = [c \in Clients |-> <<>>]
    /\ toClient' = [c \in Clients |-> <<History(index'.events)>>]
    /\ toDaemon' = [c \in Clients |-> <<>>]
    /\ UNCHANGED disk

-----------------------------------------------------------------------------
(* A client *)

\* Mutant of Applied: the mirror keeps what the daemon's limit dropped.
AppliedUncapped(events, e) ==
    IF \E i \in DOMAIN events : events[i].id = e.id
    THEN [i \in DOMAIN events |-> IF events[i].id = e.id THEN e ELSE events[i]]
    ELSE SortSeq(Append(events, e), LAMBDA a, b : a.id < b.id)

\* AttentionIndex::apply
Applied(events, e) ==
    IF \E i \in DOMAIN events : events[i].id = e.id
    THEN [i \in DOMAIN events |-> IF events[i].id = e.id THEN e ELSE events[i]]
    ELSE Newest(SortSeq(Append(events, e), LAMBDA a, b : a.id < b.id))

\* handle_daemon_event: Attention, and AttentionHistory through AttentionIndex::mirror.
Receive(c) ==
    LET m == Head(toClient[c])
    IN  /\ toClient[c] # <<>>
        /\ toClient' = [toClient EXCEPT ![c] = Tail(@)]
        /\ mirror' = [mirror EXCEPT ![c] = IF m.kind = "history" THEN m.events ELSE Applied(@, m.event)]
        /\ UNCHANGED <<index, cursor, disk, toDaemon, restarts>>

\* mark_attention_seen and the attention center's keys: asked for when it changed anything here.
Ask(c, request) ==
    LET events == Apply(mirror[c], request)
    IN  /\ events # mirror[c] /\ Room(toDaemon[c])
        /\ mirror' = [mirror EXCEPT ![c] = events]
        /\ toDaemon' = [toDaemon EXCEPT ![c] = Append(@, request)]
        /\ UNCHANGED <<index, cursor, disk, toClient, restarts>>

NextAttention ==
    \/ ObserveAny \/ RestartDaemon
    \/ \E c \in Clients :
          \/ TakeRequest(c) \/ Receive(c)
          \/ \E request \in Requests : Ask(c, request)

SpecAttention == InitAttention /\ [][NextAttention]_attention

-----------------------------------------------------------------------------
\* However edits, transitions, the limit and restarts cross, a client with
\* nothing under way in either direction holds the daemon's history, read
\* state included: what it did early is confirmed or corrected.
MirrorConverges ==
    \A c \in Clients : toClient[c] = <<>> /\ toDaemon[c] = <<>> => mirror[c] = index.events
=============================================================================
