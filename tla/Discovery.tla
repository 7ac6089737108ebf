----------------------------- MODULE Discovery ------------------------------
(***************************************************************************)
(* What a refresh of the configuration finds out and what it costs.        *)
(* Every configured host is asked for its running sessions, through one    *)
(* client executable after another and under a timeout; a host that cannot *)
(* be asked keeps the target it was configured with.  The daemon adopts    *)
(* the targets, retires the routes they invalidate and replaces every      *)
(* supervisor, and each supervisor looks for a client that speaks its      *)
(* server's protocol.                                                      *)
(***************************************************************************)
EXTENDS Naturals, Sequences, FiniteSets

CONSTANTS
    Hosts,          \* the configured targets
    Discovers,      \* those with discover_sessions
    Fallback,       \* the session name each is configured with
    Listings,       \* per host, what `herdr session list` may report: sequences of
                    \* [name, socket, running, valid]
    Clients,        \* per host, what its candidate executables may be: sequences of
                    \* "good", "mismatch" (it lists sessions, its snapshot is refused), "broken"
    Unset,          \* no socket is configured
    MaxChanges,     \* named bound: changes of the hosts and of the file
    MaxFaults       \* named bound: discoveries that time out

VARIABLES
    listing,    \* per host, the sessions it has
    client,     \* per host, its candidate executables
    transport,  \* the transport section of the file
    changes,
    faults,
    inflight,   \* Daemon.refresh_inflight
    read,       \* the transport section a refresh has read
    asking,     \* per host, the candidate its discovery is at; 0 when it is not asking
    found,      \* per host, the targets its discovery settled on
    saw,        \* per host, the listing it settled on, or <<>> for the fallback (history)
    active,     \* Daemon.active: [transport, targets], targets per host in the file's order
    adopted,    \* the listings active was made of (history)
    routes,     \* Daemon.routes: per target key, the target and transport it was opened with
    supervisor  \* per target key: [conn, at], at the candidate it asks for a snapshot, 0 between two
hosts == <<listing, client, transport, changes>>
asked == <<inflight, read, asking, found, saw>>
vars == <<hosts, faults, asked, active, adopted, routes, supervisor>>

-----------------------------------------------------------------------------
(* Targets *)

Configured(h) == [host |-> h, session |-> Fallback[h], socket |-> Unset]
target_key(t) == <<t.host, t.session>>

\* discover_sessions_once: running, valid, by name, the first of a name.
Discovered(listed) ==
    LET kept == SelectSeq(listed, LAMBDA s : s.running /\ s.valid)
        names == {kept[i].name : i \in DOMAIN kept}
        Nth(k) == CHOOSE n \in names : Cardinality({m \in names : m < n}) = k - 1
    IN [k \in 1..Cardinality(names) |->
          kept[CHOOSE i \in DOMAIN kept :
                 kept[i].name = Nth(k) /\ \A j \in 1..i - 1 : kept[j].name # Nth(k)]]

\* targets_for_discovered_sessions
TargetsFor(h, sessions) ==
    [k \in DOMAIN sessions |->
        [host |-> h, session |-> sessions[k].name, socket |-> sessions[k].socket]]

Elements(s) == {s[i] : i \in DOMAIN s}
TargetsOf(config) == UNION {Elements(config.targets[h]) : h \in Hosts}
\* target_map: of two targets with one key the later replaces the earlier.
target_map(config) ==
    [k \in {target_key(t) : t \in TargetsOf(config)} |->
        LET own == config.targets[k[1]]
        IN own[CHOOSE i \in DOMAIN own : /\ target_key(own[i]) = k
                                        /\ \A j \in i + 1..Len(own) : target_key(own[j]) # k]]
Keys == DOMAIN supervisor

-----------------------------------------------------------------------------
(* Asking the hosts *)

StartRefresh ==
    /\ ~inflight
    /\ inflight' = TRUE /\ read' = transport
    /\ asking' = [h \in Hosts |-> IF h \in Discovers THEN 1 ELSE 0]
    /\ found' = [h \in Hosts |-> <<Configured(h)>>]
    /\ saw' = [h \in Hosts |-> <<>>]
    /\ UNCHANGED <<hosts, faults, active, adopted, routes, supervisor>>

\* expand_discovered_target: what a host's discovery came to.
Settles(h, targets, seen) ==
    /\ asking' = [asking EXCEPT ![h] = 0]
    /\ found' = [found EXCEPT ![h] = targets]
    /\ saw' = [saw EXCEPT ![h] = seen]

\* discover_sessions: whatever fails, the next candidate is tried.
AskHost(h) ==
    /\ asking[h] > 0
    /\ IF client[h][asking[h]] # "broken"
       THEN Settles(h, TargetsFor(h, Discovered(listing[h])), <<listing[h]>>)
       ELSE IF asking[h] < Len(client[h])
       THEN asking' = [asking EXCEPT ![h] = @ + 1] /\ UNCHANGED <<found, saw>>
       ELSE Settles(h, <<Configured(h)>>, <<>>)
    /\ UNCHANGED <<hosts, faults, inflight, read, active, adopted, routes, supervisor>>

\* discover_running_sessions gives up on a host that does not answer in time.
DiscoveryTimesOut(h) ==
    /\ asking[h] > 0 /\ faults < MaxFaults /\ faults' = faults + 1
    /\ Settles(h, <<Configured(h)>>, <<>>)
    /\ UNCHANGED <<hosts, inflight, read, active, adopted, routes, supervisor>>

-----------------------------------------------------------------------------
(* Adopting what was found *)

\* Mutant of invalidated_routes: a target that is still there is taken to be the same.
invalidated_vanished(previous, next) ==
    {k \in DOMAIN routes : previous.transport # next.transport \/ k \notin DOMAIN target_map(next)}

invalidated_routes(previous, next) ==
    LET before == target_map(previous)
        after == target_map(next)
    IN {k \in DOMAIN routes :
          \/ previous.transport # next.transport
          \/ k \in DOMAIN before /\ k \notin DOMAIN after
          \/ k \notin DOMAIN before /\ k \in DOMAIN after
          \/ k \in DOMAIN before \cap DOMAIN after /\ before[k] # after[k]}

Starting == [conn |-> "starting", at |-> 1]

\* Mutant of Reconfigure: a configuration that is the same leaves the refresh in flight.
ReconfigureReturnsEarly ==
    LET next == [transport |-> read, targets |-> found]
    IN /\ inflight /\ \A h \in Hosts : asking[h] = 0
       /\ next # active
       /\ inflight' = FALSE /\ active' = next /\ adopted' = saw
       /\ routes' = [k \in DOMAIN routes \ invalidated_routes(active, next) |-> routes[k]]
       /\ supervisor' = [k \in DOMAIN target_map(next) |-> Starting]
       /\ UNCHANGED <<hosts, faults, read, asking, found, saw>>

\* reconfigure: the same configuration changes nothing, another replaces every supervisor.
Reconfigure ==
    LET next == [transport |-> read, targets |-> found]
    IN /\ inflight /\ \A h \in Hosts : asking[h] = 0
       /\ inflight' = FALSE
       /\ IF next = active
          THEN UNCHANGED <<active, adopted, routes, supervisor>>
          ELSE /\ active' = next /\ adopted' = saw
               /\ routes' = [k \in DOMAIN routes \ invalidated_routes(active, next) |-> routes[k]]
               /\ supervisor' = [k \in DOMAIN target_map(next) |-> Starting]
       /\ UNCHANGED <<hosts, faults, read, asking, found, saw>>

\* open_route looks its target up by the pane's key.
OpenRoute(k) ==
    /\ k \in Keys \ DOMAIN routes /\ supervisor[k].conn = "live"
    /\ routes' = [j \in DOMAIN routes \cup {k} |->
                    IF j = k THEN [target |-> target_map(active)[k], transport |-> active.transport]
                    ELSE routes[j]]
    /\ UNCHANGED <<hosts, faults, asked, active, adopted, supervisor>>

-----------------------------------------------------------------------------
(* Snapshots *)

Runs(h, name) ==
    \E i \in DOMAIN listing[h] : listing[h][i].name = name /\ listing[h][i].running

Verdict(k, at) == IF Runs(k[1], k[2]) THEN client[k[1]][at] ELSE "broken"

\* Mutant of collect_snapshot: a protocol mismatch is a failure like another.
collect_stops(k, at) ==
    IF Verdict(k, at) = "good" THEN [conn |-> "live", at |-> 0] ELSE [conn |-> "away", at |-> 0]

\* collect_snapshot: only a protocol mismatch goes on to the next candidate.
collect_snapshot(k, at) ==
    CASE Verdict(k, at) = "good" -> [conn |-> "live", at |-> 0]
      [] Verdict(k, at) = "broken" -> [conn |-> "away", at |-> 0]
      [] OTHER -> IF at < Len(client[k[1]]) THEN [supervisor[k] EXCEPT !.at = at + 1]
                  ELSE [conn |-> "incompatible", at |-> 0]
Collect(k) ==
    /\ k \in Keys /\ supervisor[k].at > 0
    /\ supervisor' = [supervisor EXCEPT ![k] = collect_snapshot(k, supervisor[k].at)]
    /\ UNCHANGED <<hosts, faults, asked, active, adopted, routes>>

\* supervise_target: the next snapshot is due; an incompatible server is not asked again.
Retry(k) ==
    /\ k \in Keys /\ supervisor[k].at = 0 /\ supervisor[k].conn # "incompatible"
    /\ supervisor' = [supervisor EXCEPT ![k].at = 1]
    /\ UNCHANGED <<hosts, faults, asked, active, adopted, routes>>

-----------------------------------------------------------------------------
(* The hosts and the file *)

HostChanges(h) ==
    /\ changes < MaxChanges /\ changes' = changes + 1
    /\ \/ \E l \in Listings[h] : listing' = [listing EXCEPT ![h] = l] /\ UNCHANGED client
       \/ \E c \in Clients[h] : client' = [client EXCEPT ![h] = c] /\ UNCHANGED listing
    /\ UNCHANGED <<transport, faults, asked, active, adopted, routes, supervisor>>

\* A person edits the transport section.
EditTransport ==
    /\ changes < MaxChanges /\ changes' = changes + 1
    /\ transport' = 1 - transport
    /\ UNCHANGED <<listing, client, faults, asked, active, adopted, routes, supervisor>>

\* The daemon starts with what one discovery of each host found.
Init ==
    /\ listing \in {f \in [Hosts -> UNION {Listings[h] : h \in Hosts}] : \A h \in Hosts : f[h] \in Listings[h]}
    /\ client \in {f \in [Hosts -> UNION {Clients[h] : h \in Hosts}] : \A h \in Hosts : f[h] \in Clients[h]}
    /\ transport = 0 /\ changes = 0 /\ faults = 0
    /\ inflight = FALSE /\ read = 0 /\ asking = [h \in Hosts |-> 0]
    /\ \E answered \in SUBSET Discovers :
         /\ saw = [h \in Hosts |-> IF h \in answered THEN <<listing[h]>> ELSE <<>>]
         /\ found = [h \in Hosts |-> IF h \in answered THEN TargetsFor(h, Discovered(listing[h]))
                                     ELSE <<Configured(h)>>]
    /\ active = [transport |-> 0, targets |-> found] /\ adopted = saw
    /\ routes = <<>>
    /\ supervisor = [k \in DOMAIN target_map(active) |-> Starting]

Next ==
    \/ StartRefresh \/ Reconfigure \/ EditTransport
    \/ \E h \in Hosts : AskHost(h) \/ DiscoveryTimesOut(h) \/ HostChanges(h)
    \/ \E k \in Keys : OpenRoute(k) \/ Collect(k) \/ Retry(k)
Spec == Init /\ [][Next]_vars

\* The ticker keeps asking, and every discovery and snapshot ends, at the latest by its timeout.
Names == {Fallback[h] : h \in Hosts}
         \cup UNION {{s.name : s \in Elements(l)} : l \in UNION {Listings[h] : h \in Hosts}}
Fair ==
    /\ WF_vars(StartRefresh) /\ WF_vars(Reconfigure)
    /\ \A h \in Hosts : WF_vars(AskHost(h))
    /\ \A k \in Hosts \X Names : WF_vars(Collect(k)) /\ WF_vars(Retry(k))

-----------------------------------------------------------------------------
(* Properties *)

\* EachHostForItself: no two active targets share a key (expand_discovered_sessions and the
\* dedup behind it), a host's targets are one per valid running session it listed or exactly
\* the configured one, whatever became of the others, and every route still open was opened
\* with the target and the transport that are active now.
EachHostForItself ==
    /\ Cardinality(TargetsOf(active)) = Cardinality({target_key(t) : t \in TargetsOf(active)})
    /\ Keys = {target_key(t) : t \in TargetsOf(active)}
    /\ \A h \in Hosts :
         LET own == active.targets[h]
         IN IF adopted[h] = <<>> THEN own = <<Configured(h)>>
            ELSE {t.session : t \in Elements(own)}
                   = {s.name : s \in {s \in Elements(adopted[h][1]) : s.running /\ s.valid}}
    /\ \A k \in DOMAIN routes :
         k \in Keys /\ routes[k] = [target |-> target_map(active)[k], transport |-> active.transport]

\* QuietWhenUnchanged: a refresh that finds the sessions it found before, in whatever order
\* the hosts list them, restarts no supervisor (reconfigure).
QuietWhenUnchanged ==
    [][inflight /\ ~inflight' /\ TargetsOf(active') = TargetsOf(active)
       /\ active'.transport = active.transport => supervisor' = supervisor]_vars

\* FollowsTheHosts: when the hosts and the file have stopped changing, the daemon comes to
\* have the sessions they list, and a target whose session runs comes to be live when the
\* executables before the good one only speak another protocol (collect_snapshot).
Wanted(h) ==
    IF h \in Discovers /\ \E i \in DOMAIN client[h] : client[h][i] # "broken"
    THEN TargetsFor(h, Discovered(listing[h])) ELSE <<Configured(h)>>
Speaks(h) == \E i \in DOMAIN client[h] :
    client[h][i] = "good" /\ \A j \in 1..i - 1 : client[h][j] = "mismatch"
FollowsTheHosts ==
    <>[](/\ active = [transport |-> transport, targets |-> [h \in Hosts |-> Wanted(h)]]
         /\ \A k \in Keys : Speaks(k[1]) /\ Runs(k[1], k[2])
              => supervisor[k].conn \in {"live", "incompatible"})

\* --- Statements of the repository that the code does not keep ---

\* RefreshKeepsTerminals: ARCHITECTURE.md says a refresh "retires only the routes whose
\* target actually changed", since it "must not cost somebody the terminal they are working
\* in"; expand_discovered_target replaces the sessions of a host that was slow to answer by
\* its fallback, and the routes to them are retired while they run as before.
StillRuns(r) ==
    \E s \in Elements(Discovered(listing[r.target.host])) :
        s.name = r.target.session /\ s.socket = r.target.socket
RefreshKeepsTerminals ==
    [][\A k \in DOMAIN routes :
         (inflight /\ ~inflight' /\ k \notin DOMAIN routes')
            => routes[k].transport # transport \/ ~StillRuns(routes[k])]_vars
=============================================================================
