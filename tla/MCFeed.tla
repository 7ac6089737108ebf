------------------------------- MODULE MCFeed -------------------------------
(***************************************************************************)
(* How the daemon comes to know its federation and clients come to know    *)
(* it, one part to a behaviour: a supervisor and its session               *)
(* (Federation), the hosts asked for their sessions (Discovery), the       *)
(* daemon's socket and configuration (DaemonLife), and the state on its    *)
(* way to a client's copy (StateFeed).                                     *)
(***************************************************************************)
EXTENDS Federation, DaemonLife

CONSTANTS p1, p2, d1, d2

VARIABLES
    scene,      \* the component this behaviour is about
    \* Discovery
    listing, client, transport, changes, faults, discInflight, read, asking, found, saw,
    discActive, adopted, routes, supervisor,
    \* StateFeed
    feedPublished, reported, records, feedState, subscribed, pipe, mirror, feedRoutes,
    joined
discVars == <<listing, client, transport, changes, faults, discInflight, read, asking,
               found, saw, discActive, adopted, routes, supervisor>>
feedVars == <<feedPublished, reported, records, feedState, subscribed, pipe, mirror,
               feedRoutes, joined>>
all == <<scene, vars, discVars, lifeVars, feedVars>>

\* Sessions listed in one order and the other, and two of one name beside one that stopped.
Session(name, socket, running) ==
    [name |-> name, socket |-> socket, running |-> running, valid |-> TRUE]
Alone == <<Session(1, 1, TRUE)>>
Swapped == <<Session(2, 1, TRUE), Session(1, 1, TRUE)>>
Twice == <<Session(1, 2, TRUE), Session(1, 3, TRUE), Session(2, 1, FALSE)>>
Listed == [h1 |-> {Swapped, <<Session(1, 1, TRUE), Session(2, 1, TRUE)>>, Twice}, h2 |-> {Alone}]
Executables == [h1 |-> {<<"mismatch", "good">>, <<"broken", "good">>}, h2 |-> {<<"good">>}]

\* Reports with records that lack an id, records of one id, areas past u16::MAX, and agent
\* sessions whose fields hold the separator.
PaneItem(id, tab, status) == [id |-> id, tab |-> tab, terminal |-> id, status |-> status]
Layout(tab, area, panes) ==
    [workspace |-> "w", tab |-> tab, focused |-> "p", area |-> area, panes |-> panes]
Agent(id, session) == [id |-> id, status |-> "idle", session |-> session]
Identity(value, source, agent) ==
    [kind |-> <<"k">>, value |-> value, source |-> source, agent |-> agent]
Plain ==
    [workspaces |-> <<[id |-> "w", tab |-> "b", label |-> None]>>,
     tabs |-> <<[id |-> "b", workspace |-> "w"], [id |-> None, workspace |-> "w"]>>,
     panes |-> <<PaneItem("p", "b", 1), PaneItem("q", None, 1)>>,
     layouts |-> <<Layout("b", 1, <<[id |-> "p", rect |-> 1], [id |-> "q", rect |-> 9]>>),
                   Layout("c", 2, <<>>)>>,
     agents |-> <<Agent("p", None), Agent("q", None)>>,
     focused |-> "p", capabilities |-> [x |-> "true", y |-> "null"]]
Reported ==
    {Plain,
     [Plain EXCEPT !.panes = <<PaneItem("p", "b", 1), PaneItem("p", "b", 2)>>,
                   !.layouts = <<Layout("b", 9, <<>>)>>,
                   !.agents = <<Agent("p", Identity(<<"a">>, <<"s">>, <<"g">>))>>],
     [Plain EXCEPT !.agents = <<Agent("p", Identity(<<"a", "|", "b">>, <<"c">>, <<"d">>)),
                                Agent("q", Identity(<<"a">>, <<"b">>, <<"c", "|", "d">>))>>]}

\* A host that is asked and one that is not, one change of them, one discovery that times out.
Disc == INSTANCE Discovery WITH
    Hosts <- {"h1", "h2"}, Discovers <- {"h1"}, Fallback <- [h1 |-> 1, h2 |-> 1],
    Listings <- Listed, Clients <- Executables, Unset <- None, MaxChanges <- 1,
    MaxFaults <- 1, inflight <- discInflight, active <- discActive
\* Two targets and three records of them.
Feed == INSTANCE StateFeed WITH
    Targets <- {"t", "u"}, Reports <- Reported, Clients <- {"c"}, Separator <- "|",
    MaxFieldBytes <- 3, MaxRect <- 5, MaxReports <- 3, MaxQueue <- 2,
    published <- feedPublished, state <- feedState, routes <- feedRoutes

\* One component acts; the others stay as they began.
MCInit ==
    /\ scene \in {"target", "hosts", "copies", "socket", "refresh"}
    /\ Init /\ Disc!Init /\ LifeInit /\ Feed!Init
    /\ scene # "hosts" => listing = [h1 |-> Swapped, h2 |-> Alone] /\ client = [h1 |-> <<"mismatch", "good">>, h2 |-> <<"good">>]
       /\ adopted = [h1 |-> <<>>, h2 |-> <<>>]
    /\ scene # "refresh" => file = "A"
    /\ scene # "target" => world.panes = {}
InTarget(A) == scene = "target" /\ A
InHosts(A) == scene = "hosts" /\ A
InRefresh(A) == scene = "refresh" /\ A
MCNext ==
    \/ scene = "target" /\ Next /\ UNCHANGED <<scene, discVars, lifeVars, feedVars>>
    \/ scene = "hosts" /\ Disc!Next /\ UNCHANGED <<scene, vars, lifeVars, feedVars>>
    \/ scene = "copies" /\ Feed!Next /\ UNCHANGED <<scene, vars, discVars, lifeVars>>
    \/ scene = "socket" /\ SocketNext /\ UNCHANGED <<scene, refreshVars, vars, discVars, feedVars>>
    \/ scene = "refresh" /\ RefreshNext /\ UNCHANGED <<scene, socketVars, vars, discVars, feedVars>>

MCSpec ==
    /\ MCInit /\ [][MCNext]_all
    /\ WF_vars(InTarget(TimePasses))
    /\ WF_vars(InTarget(WaitEnds))
    /\ WF_vars(InTarget(SnapshotTaken))
    /\ SF_vars(InTarget(OpenStream))
    /\ SF_vars(InTarget(RecordSuccess))
    /\ WF_discVars(InHosts(Disc!StartRefresh))
    /\ WF_discVars(InHosts(Disc!Reconfigure))
    /\ WF_discVars(InHosts(Disc!AskHost("h1")))
    /\ \A k \in {<<"h1", 1>>, <<"h1", 2>>, <<"h2", 1>>} : WF_discVars(InHosts(Disc!Collect(k) \/ Disc!Retry(k)))
    /\ WF_refreshVars(InRefresh(Tick))
    /\ WF_refreshVars(InRefresh(StartRefresh))
    /\ WF_refreshVars(InRefresh(ReadFile))
    /\ WF_refreshVars(InRefresh(TakeConfig))
    /\ WF_refreshVars(InRefresh(TakeState))
    /\ WF_refreshVars(InRefresh(\E w \in watchers : w.epoch = epoch /\ Send(w)))

\* Whatever happens to a session is published in the end, with or without a stream, unless its
\* supervisor was stopped or the target is incompatible (supervise_target's refresh deadline).
SessionIsFollowed == scene = "target" => EventuallyCurrent

\* Every host's targets are what it listed or its fallback, whatever the others did, routes
\* left open were opened with what is active, and a refresh that finds what it found before
\* restarts nothing (expand_discovered_sessions, invalidated_routes, reconfigure).
EachHostForItself == [](scene = "hosts" => Disc!EachHostForItself) /\ Disc!QuietWhenUnchanged

\* When hosts and file are left alone the daemon comes to run what they say: the sessions
\* they list, the supervisors of the file's targets, and their state shown to clients
\* (start_refresh, collect_snapshot, start_federation).
RefreshConverges == (scene = "hosts" => Disc!FollowsTheHosts) /\ AdoptsTheFile

\* A subscriber that has read what is on its way holds the broker's state, agents of different
\* identity have different keys, and only a report without a pane closes its route
\* (federation_updated, keyed_map, agent_key, close_vanished_routes).
CopyIsTrue == [](scene = "copies" => Feed!CopyFollows /\ Feed!AgentKeysApart) /\ Feed!NoFalseVanishing

\* ARCHITECTURE.md: a refresh "retires only the routes whose target actually changed", which the
\* code does not keep when a host is slow to answer (expand_discovered_target, invalidated_routes).
RefreshKeepsTerminals == Disc!RefreshKeepsTerminals
=============================================================================
