----------------------------- MODULE StateFeed ------------------------------
(***************************************************************************)
(* What a target reports, on its way to a client's copy of the federation. *)
(* A snapshot is normalised, recorded in the federation's state, compared  *)
(* by the broker with the one before, sent to subscribers as one target's  *)
(* state, and rebuilt there from a form that carries no keys.              *)
(***************************************************************************)
EXTENDS Naturals, Sequences, SequencesExt, FiniteSets, FiniteSetsExt

CONSTANTS
    Targets,        \* target sessions
    Reports,        \* snapshots a target may report: [workspaces, tabs, panes, layouts, agents,
                    \* focused, capabilities], every collection a sequence of items in which an
                    \* absent field is None
    Clients, None,
    Separator,      \* AGENT_KEY_SEPARATOR, one of the atoms an identity is written in
    MaxFieldBytes,  \* MAX_AGENT_SESSION_FIELD_BYTES
    MaxRect,        \* u16::MAX
    MaxReports,     \* named bound: what the supervisors record
    MaxQueue        \* named bound: messages to a client not yet read

VARIABLES
    published,  \* the federation's state as the supervisors record it
    reported,   \* what each target reported last (history)
    records,
    state,      \* Broker.state
    subscribed, \* ClientSession.state_subscribed
    pipe,       \* what is on its way to each client
    mirror,     \* each client's copy
    routes,     \* the panes with a route
    joined      \* the clients that are connected
supervised == <<published, reported, records>>
served == <<state, subscribed, pipe, routes>>
vars == <<supervised, served, mirror, joined>>

-----------------------------------------------------------------------------
(* Normalisation *)

qualified(t, id) == <<t, id>>
qualified_id(t, id) == IF id = None THEN None ELSE qualified(t, id)

\* Collecting into a map: of two values with one key the later stays.
KeyedBy(values, field) ==
    [k \in {values[i][field] : i \in DOMAIN values} |->
        values[Max({i \in DOMAIN values : values[i][field] = k})]]
Mapped(items, Op(_)) == [i \in DOMAIN items |-> Op(items[i])]

\* workspace_states and tab_states, which differ in what they refer to.
workspace_states(t, report) ==
    LET known == SelectSeq(report.workspaces, LAMBDA w : w.id # None)
        Of(w) == [id |-> qualified(t, w.id), tab |-> qualified_id(t, w.tab), label |-> w.label]
    IN KeyedBy(Mapped(known, Of), "id")
tab_states(t, report) ==
    LET known == SelectSeq(report.tabs, LAMBDA b : b.id # None)
        Of(b) == [id |-> qualified(t, b.id), workspace |-> qualified_id(t, b.workspace)]
    IN KeyedBy(Mapped(known, Of), "id")

pane_states(t, report) ==
    LET known == SelectSeq(report.panes, LAMBDA p : p.id # None)
        Of(p) == [id |-> qualified(t, p.id), tab |-> qualified_id(t, p.tab),
                  terminal |-> qualified_id(t, p.terminal), status |-> p.status]
    IN KeyedBy(Mapped(known, Of), "id")
\* qualified_ids, of the panes' terminals
terminals(t, report) ==
    {qualified(t, p.terminal) : p \in {p \in ToSet(report.panes) : p.terminal # None}}

layout_rect(rect) == IF rect = None \/ rect > MaxRect THEN None ELSE rect
layout_states(t, report) ==
    LET Whole(l) == None \notin {l.workspace, l.tab, l.focused, layout_rect(l.area)}
        Placed(p) == p.id # None /\ layout_rect(p.rect) # None
        OfPane(p) == [pane |-> qualified(t, p.id), rect |-> p.rect]
        Of(l) == [workspace |-> qualified(t, l.workspace), tab |-> qualified(t, l.tab),
                  focused |-> qualified(t, l.focused), area |-> l.area,
                  panes |-> Mapped(SelectSeq(l.panes, Placed), OfPane)]
    IN KeyedBy(Mapped(SelectSeq(report.layouts, Whole), Of), "tab")

\* Mutant of bounded_identity: a field may hold the separator.
bounded_length(field) == field # None /\ Len(field) \in 1..MaxFieldBytes

bounded_identity(field) ==
    field # None /\ Len(field) \in 1..MaxFieldBytes /\ Separator \notin ToSet(field)

\* agent_session: whole or not at all.
agent_session(s) ==
    IF s # None /\ \A f \in DOMAIN s : bounded_identity(s[f]) THEN s ELSE None
agent_states(t, report) ==
    LET known == SelectSeq(report.agents, LAMBDA a : a.id # None)
        Of(a) == [pane |-> qualified(t, a.id), status |-> a.status,
                  session |-> agent_session(a.session)]
    IN KeyedBy(Mapped(known, Of), "pane")
agent_key(t, a) ==
    IF a.session = None THEN <<t, "pane", Separator, a.pane[2]>>
    ELSE <<t, "session", Separator>> \o a.session.kind \o <<Separator>> \o a.session.value
         \o <<Separator>> \o a.session.source \o <<Separator>> \o a.session.agent

\* capability_names: a list of names, or an object whose values say which hold.
capability_names(caps) == {n \in DOMAIN caps : caps[n] \notin {"false", "null"}}

\* NormalizedSnapshot::from_value
from_value(t, report) ==
    [counts |-> <<Len(report.workspaces), Len(report.tabs), Len(report.panes), Len(report.agents)>>,
     focused |-> qualified_id(t, report.focused),
     capabilities |-> capability_names(report.capabilities),
     workspaces |-> workspace_states(t, report), tabs |-> tab_states(t, report),
     panes |-> pane_states(t, report), layouts |-> layout_states(t, report),
     agents |-> agent_states(t, report), terminals |-> terminals(t, report)]

-----------------------------------------------------------------------------
(* The wire: a map is the values it holds, and each value says its own key *)

Values(map) == {map[k] : k \in DOMAIN map}
WireKeys ==
    [workspaces |-> "id", tabs |-> "id", panes |-> "id", layouts |-> "tab", agents |-> "pane"]
Encoded(snapshot) ==
    IF snapshot = None THEN None
    ELSE [f \in DOMAIN snapshot |-> IF f \in DOMAIN WireKeys THEN Values(snapshot[f]) ELSE snapshot[f]]

\* Mutant of Rebuilt: a layout is filed under its workspace.
RebuiltByWorkspace(f, values) ==
    LET field == IF f = "layouts" THEN "workspace" ELSE WireKeys[f]
    IN [k \in {v[field] : v \in values} |-> CHOOSE v \in values : v[field] = k]

Rebuilt(f, values) ==
    [k \in {v[WireKeys[f]] : v \in values} |-> CHOOSE v \in values : v[WireKeys[f]] = k]
Decoded(wire) ==
    IF wire = None THEN None
    ELSE [f \in DOMAIN wire |-> IF f \in DOMAIN WireKeys THEN Rebuilt(f, wire[f]) ELSE wire[f]]
OnWire(target) == [target EXCEPT !.snapshot = Encoded(@)]
OffWire(target) == [target EXCEPT !.snapshot = Decoded(@)]

-----------------------------------------------------------------------------
(* The supervisors *)

NewTarget == [connection |-> "connecting", generation |-> 0, snapshot |-> None, stamp |-> 0]

Recorded(t, target) ==
    /\ records < MaxReports /\ records' = records + 1
    /\ t \in DOMAIN published /\ published' = [published EXCEPT ![t] = target]

\* record_success; the stamp is last_success.
Report(t) ==
    /\ \E report \in Reports :
         /\ Recorded(t, [connection |-> "live", snapshot |-> from_value(t, report),
                         generation |-> IF published[t].connection = "live" THEN published[t].generation
                                        ELSE published[t].generation + 1,
                         stamp |-> 1 - published[t].stamp])
         /\ reported' = [reported EXCEPT ![t] = report]
    /\ UNCHANGED <<served, mirror, joined>>
\* record_backoff and record_incompatible keep the last snapshot.
Fails(t) ==
    /\ \E c \in {"backoff", "incompatible"} : Recorded(t, [published[t] EXCEPT !.connection = c])
    /\ UNCHANGED <<reported, served, mirror, joined>>

\* A refreshed configuration: new supervisors, which know nothing yet.
Replaced ==
    /\ records < MaxReports /\ records' = records + 1
    /\ \E next \in (SUBSET Targets) \ {DOMAIN published} : published' = [t \in next |-> NewTarget]
    /\ UNCHANGED <<reported, served, mirror, joined>>

-----------------------------------------------------------------------------
(* The broker *)

\* Mutant of differs_for_clients: two snapshots of one connection are the same.
differs_by_connection(a, b) == a.connection # b.connection \/ a.generation # b.generation

differs_for_clients(a, b) == [a EXCEPT !.stamp = 0] # [b EXCEPT !.stamp = 0]

\* Mutant of pane_is_gone: a target that is not live has no panes.
pane_is_unseen(next, pane) ==
    \/ pane[1] \notin DOMAIN next
    \/ next[pane[1]].connection # "live"
    \/ next[pane[1]].snapshot # None /\ pane \notin DOMAIN next[pane[1]].snapshot.panes

pane_is_gone(next, pane) ==
    \/ pane[1] \notin DOMAIN next
    \/ /\ next[pane[1]].connection = "live" /\ next[pane[1]].snapshot # None
       /\ pane \notin DOMAIN next[pane[1]].snapshot.panes

\* federation_updated: the targets that changed, then those that are gone.
Changes(next) ==
    LET changed == {t \in DOMAIN next : t \notin DOMAIN state \/ differs_for_clients(state[t], next[t])}
        gone == DOMAIN state \ DOMAIN next
    IN SetToSeq({[kind |-> "target", target |-> t, state |-> OnWire(next[t])] : t \in changed})
       \o SetToSeq({[kind |-> "target", target |-> t, state |-> None] : t \in gone})

federation_updated ==
    /\ state # published /\ state' = published
    /\ \A c \in joined : subscribed[c] => Len(pipe[c]) + Len(Changes(published)) <= MaxQueue
    /\ pipe' = [c \in Clients |-> IF subscribed[c] THEN pipe[c] \o Changes(published) ELSE pipe[c]]
    /\ routes' = {p \in routes : ~pane_is_gone(published, p)}
    /\ UNCHANGED <<supervised, subscribed, mirror, joined>>

\* ClientMessage::SubscribeState; asking twice sends the whole state twice.
SubscribeState(c) ==
    /\ c \in joined /\ Len(pipe[c]) < MaxQueue
    /\ subscribed' = [subscribed EXCEPT ![c] = TRUE]
    /\ pipe' = [pipe EXCEPT ![c] = Append(@, [kind |-> "whole", state |-> [t \in DOMAIN state |-> OnWire(state[t])]])]
    /\ UNCHANGED <<supervised, state, routes, mirror, joined>>

\* A client looks at a pane its copy holds.
SubscribePane(c) ==
    /\ c \in joined
    /\ \E t \in DOMAIN mirror[c] :
         /\ mirror[c][t].snapshot # None
         /\ \E p \in DOMAIN mirror[c][t].snapshot.panes :
              p \notin routes /\ routes' = routes \cup {p}
    /\ UNCHANGED <<supervised, state, subscribed, pipe, mirror, joined>>

-----------------------------------------------------------------------------
(* The client *)

Applied(copy, message) ==
    IF message.kind = "whole" THEN [t \in DOMAIN message.state |-> OffWire(message.state[t])]
    ELSE IF message.state = None
    THEN [t \in DOMAIN copy \ {message.target} |-> copy[t]]
    ELSE [t \in DOMAIN copy \cup {message.target} |->
            IF t = message.target THEN OffWire(message.state) ELSE copy[t]]
Receive(c) ==
    /\ pipe[c] # <<>>
    /\ mirror' = [mirror EXCEPT ![c] = Applied(@, Head(pipe[c]))]
    /\ pipe' = [pipe EXCEPT ![c] = Tail(@)]
    /\ UNCHANGED <<supervised, state, subscribed, routes, joined>>

\* A connection ends with what was on its way; a new one starts with nothing.
Leave(c) ==
    /\ c \in joined /\ joined' = joined \ {c}
    /\ subscribed' = [subscribed EXCEPT ![c] = FALSE]
    /\ pipe' = [pipe EXCEPT ![c] = <<>>]
    /\ UNCHANGED <<supervised, state, routes, mirror>>
Join(c) ==
    /\ c \notin joined /\ joined' = joined \cup {c}
    /\ mirror' = [mirror EXCEPT ![c] = <<>>]
    /\ UNCHANGED <<supervised, served>>

Init ==
    /\ published = [t \in Targets |-> NewTarget] /\ records = 0
    /\ reported = [t \in Targets |-> None]
    /\ state = published /\ routes = {} /\ joined = Clients
    /\ subscribed = [c \in Clients |-> FALSE]
    /\ pipe = [c \in Clients |-> <<>>] /\ mirror = [c \in Clients |-> <<>>]
Next ==
    \/ \E t \in Targets : Report(t) \/ Fails(t)
    \/ Replaced \/ federation_updated
    \/ \E c \in Clients : SubscribeState(c) \/ SubscribePane(c) \/ Receive(c) \/ Leave(c) \/ Join(c)
Spec == Init /\ [][Next]_vars

-----------------------------------------------------------------------------
(* Properties *)

\* CopyFollows: whatever was coalesced, skipped as bookkeeping, removed or rebuilt without its
\* keys, a subscriber that has read what is on its way to it holds the broker's state, up to
\* the fields nothing renders (federation_updated, keyed_map and the client's reader).
Shown(federation) == [t \in DOMAIN federation |-> [federation[t] EXCEPT !.stamp = 0]]
CopyFollows ==
    \A c \in joined : subscribed[c] =>
        LET after[i \in 0..Len(pipe[c])] ==
              IF i = 0 THEN mirror[c] ELSE Applied(after[i - 1], pipe[c][i])
        IN Shown(after[Len(pipe[c])]) = Shown(state)

\* AgentKeysApart: two agents of a target share a key only when they report one session:
\* no field of a session, and no pane id, can be written so as to name another agent
\* (agent_session, bounded_identity and agent_key).
AgentKeysApart ==
    \A t \in DOMAIN published : published[t].snapshot # None =>
        LET agents == published[t].snapshot.agents
        IN \A p, q \in DOMAIN agents :
             agent_key(t, agents[p]) = agent_key(t, agents[q])
               => p = q \/ (agents[p].session # None /\ agents[p].session = agents[q].session)

\* NoFalseVanishing: a route is retired by an update only when its target has left the
\* federation, or its last report does not list the pane at all: neither an unreachable host
\* nor an incomplete record of the pane costs the terminal (close_vanished_routes).
NoFalseVanishing ==
    [][\A p \in routes \ routes' :
         \/ p[1] \notin DOMAIN published
         \/ \A i \in DOMAIN reported[p[1]].panes : reported[p[1]].panes[i].id # p[2]]_vars
=============================================================================
