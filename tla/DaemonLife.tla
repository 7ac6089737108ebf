----------------------------- MODULE DaemonLife -----------------------------
(***************************************************************************)
(* The life of a daemon around its loop.  SocketNext: daemons that start,  *)
(* serve, stop and crash contend for one socket path, in the separate      *)
(* system calls the code makes.  RefreshNext: a running daemon re-reads    *)
(* its configuration off the loop and replaces its supervisors, while      *)
(* states of the ones before are still on their way to it.                 *)
(***************************************************************************)
EXTENDS Naturals, Sequences, FiniteSets

CONSTANTS
    Daemons, Nothing,
    Configs,        \* configurations the file may hold (Nothing: one that does not load)
    MaxStarts,      \* named bound: starts of daemons
    MaxEdits,       \* named bound: edits of the file
    MaxStates       \* named bound: states a set of supervisors reports after its first

ASSUME LifeAssumption == IsFiniteSet(Daemons) /\ Nothing \notin Daemons

VARIABLES
    path,       \* what is at the socket path: Nothing, or the daemon that bound it
    listens,    \* the daemons whose listener is open
    stage,      \* per daemon: "off", "probing", "replacing", "binding", "starting", "serving",
                \* "stopping"
    starts,
    evicted,    \* daemons whose socket another removed while they served it (history)
    crashed,    \* whether some daemon died without its cleanup (history)
    overlap,    \* whether two daemons were between steps of a start or a stop at once (history)
    file,       \* the configuration file
    edits,
    active,     \* Daemon.active
    inflight,   \* <<>>, or the configuration a refresh has read
    reading,    \* whether a refresh is on its way (refresh_inflight)
    due,        \* whether RefreshDue is queued
    epoch,      \* which set of supervisors runs
    watchers,   \* watcher tasks that may still send: [epoch, left]
    inputs,     \* Input::Federation queued for the loop: [epoch, config]
    state,      \* Daemon.state: the epoch and configuration it came from
    configOf    \* the configuration of each epoch
socketVars == <<path, listens, stage, starts, evicted, crashed, overlap>>
refreshVars == <<file, edits, active, inflight, reading, due, epoch, watchers, inputs, state, configOf>>

-----------------------------------------------------------------------------
(* The socket path *)

Moves(d, from, to) == stage[d] = from /\ stage' = [stage EXCEPT ![d] = to]

Start(d) ==
    /\ Moves(d, "off", "probing") /\ starts < MaxStarts /\ starts' = starts + 1
    /\ UNCHANGED <<path, listens, evicted, crashed>>

\* Mutant of Probe: a daemon that answers is replaced as well.
ProbeReplaces(d) ==
    /\ Moves(d, "probing", IF path = Nothing THEN "binding" ELSE "replacing")
    /\ UNCHANGED <<path, listens, starts, evicted, crashed>>

\* bind: connect tells a daemon that serves from a leftover.
Probe(d) ==
    /\ Moves(d, "probing", IF path = Nothing THEN "binding"
                           ELSE IF path \in listens THEN "off" ELSE "replacing")
    /\ UNCHANGED <<path, listens, starts, evicted, crashed>>

Unlinked(d) == evicted' = IF path \in listens \ {d} THEN evicted \cup {path} ELSE evicted

\* bind: the leftover is removed; a path that is gone by then is an error.
Replace(d) ==
    /\ Moves(d, "replacing", IF path = Nothing THEN "off" ELSE "binding")
    /\ path' = Nothing /\ Unlinked(d)
    /\ UNCHANGED <<listens, starts, crashed>>
\* bind: the address is in use when another bound it meanwhile.
BindListener(d) ==
    /\ Moves(d, "binding", IF path = Nothing THEN "starting" ELSE "off")
    /\ IF path = Nothing THEN path' = d /\ listens' = listens \cup {d} ELSE UNCHANGED <<path, listens>>
    /\ UNCHANGED <<starts, evicted, crashed>>

\* run: the browser client binds its port, or the daemon leaves before it announced itself.
Serve(d) ==
    /\ \/ Moves(d, "starting", "serving") /\ UNCHANGED listens
       \/ Moves(d, "starting", "stopping") /\ listens' = listens \ {d}
    /\ UNCHANGED <<path, starts, evicted, crashed>>
\* Input::Shutdown ends the loop: accepting is aborted, then the daemon gives back what it holds.
Shutdown(d) ==
    /\ Moves(d, "serving", "stopping") /\ listens' = listens \ {d}
    /\ UNCHANGED <<path, starts, evicted, crashed>>
\* serve_until: the socket is removed last, whoever bound it.
RemoveSocket(d) ==
    /\ Moves(d, "stopping", "off") /\ path' = Nothing /\ Unlinked(d)
    /\ UNCHANGED <<listens, starts, crashed>>
\* A process that dies leaves its socket behind.
Crash(d) ==
    /\ stage[d] # "off" /\ ~crashed
    /\ stage' = [stage EXCEPT ![d] = "off"] /\ listens' = listens \ {d} /\ crashed' = TRUE
    /\ UNCHANGED <<path, starts, evicted>>

Between == {"probing", "replacing", "binding", "stopping"}
SocketNext ==
    /\ \E d \in Daemons : \/ Start(d) \/ Probe(d) \/ Replace(d) \/ BindListener(d) \/ Serve(d)
                          \/ Shutdown(d) \/ RemoveSocket(d) \/ Crash(d)
    /\ overlap' = (overlap \/ Cardinality({d \in Daemons : stage'[d] \in Between}) > 1)

-----------------------------------------------------------------------------
(* The configuration and the supervisors *)

\* A person edits the file; it may not load for a while.
Edit ==
    /\ edits < MaxEdits /\ edits' = edits + 1
    /\ \E c \in Configs \cup {Nothing} : file' = c
    /\ UNCHANGED <<active, inflight, reading, due, epoch, watchers, inputs, state, configOf>>

\* The ticker sends RefreshDue.
Tick ==
    /\ ~due /\ due' = TRUE
    /\ UNCHANGED <<file, edits, active, inflight, reading, epoch, watchers, inputs, state, configOf>>

\* start_refresh: one at a time, and the file is read off the loop.
StartRefresh ==
    /\ due /\ due' = FALSE
    /\ reading' = TRUE
    /\ UNCHANGED <<file, edits, active, inflight, epoch, watchers, inputs, state, configOf>>
ReadFile ==
    /\ reading /\ inflight = <<>>
    /\ inflight' = <<file>>
    /\ UNCHANGED <<file, edits, active, reading, due, epoch, watchers, inputs, state, configOf>>

\* Mutant of Watching: the watcher of the supervisors before goes on.
WatchingOn(e) == watchers \cup {[epoch |-> e, left |-> MaxStates + 1]}

\* start_federation: the watcher is aborted, which lets a send that began finish.
Watching(e) ==
    {[w EXCEPT !.left = 0] : w \in {v \in watchers : v.left > 0}}
    \cup {[epoch |-> e, left |-> MaxStates + 1]}

\* reconfigure: a configuration that is new replaces the supervisors.
TakeConfig ==
    /\ reading /\ inflight # <<>>
    /\ reading' = FALSE /\ inflight' = <<>>
    /\ IF inflight[1] \in {Nothing, active}
       THEN UNCHANGED <<active, epoch, watchers, configOf>>
       ELSE /\ active' = inflight[1] /\ epoch' = epoch + 1
            /\ configOf' = Append(configOf, inflight[1])
            /\ watchers' = Watching(epoch + 1)
    /\ UNCHANGED <<file, edits, due, inputs, state>>

\* A watcher sends the state of its supervisors: the first at once, then as they report.  One that
\* was aborted may still finish a send it was in; the last report waits for a host to answer and
\* comes after that.
Send(w) ==
    /\ w.left = 1 => \A v \in watchers : v.left # 0
    /\ inputs' = Append(inputs, [epoch |-> w.epoch, config |-> configOf[w.epoch]])
    /\ watchers' = (watchers \ {w}) \cup
                   (IF w.left > 1 THEN {[w EXCEPT !.left = @ - 1]} ELSE {})
    /\ UNCHANGED <<file, edits, active, inflight, reading, due, epoch, state, configOf>>
AbortedEnds(w) ==
    /\ w.left = 0 /\ watchers' = watchers \ {w}
    /\ UNCHANGED <<file, edits, active, inflight, reading, due, epoch, inputs, state, configOf>>

\* Input::Federation
TakeState ==
    /\ inputs # <<>> /\ inputs' = Tail(inputs) /\ state' = Head(inputs)
    /\ UNCHANGED <<file, edits, active, inflight, reading, due, epoch, watchers, configOf>>

RefreshNext ==
    \/ Edit \/ Tick \/ StartRefresh \/ ReadFile \/ TakeConfig \/ TakeState
    \/ \E w \in watchers : Send(w) \/ AbortedEnds(w)

LifeInit ==
    /\ path = Nothing /\ listens = {} /\ stage = [d \in Daemons |-> "off"] /\ starts = 0
    /\ evicted = {} /\ crashed = FALSE /\ overlap = FALSE
    /\ file \in Configs /\ edits = 0 /\ active = file /\ inflight = <<>> /\ reading = FALSE /\ due = FALSE
    /\ epoch = 1 /\ watchers = {[epoch |-> 1, left |-> MaxStates + 1]} /\ inputs = <<>>
    /\ state = [epoch |-> 0, config |-> Nothing] /\ configOf = <<file>>

lifeVars == <<socketVars, refreshVars>>
SocketSpec == LifeInit /\ [][SocketNext /\ UNCHANGED refreshVars]_lifeVars

-----------------------------------------------------------------------------
(* Properties *)

\* As long as no two daemons were between the steps of a start or a stop at once, every daemon that
\* listens is the one the path leads to, whatever crashed and left its socket behind (bind,
\* serve_until).
ListenerIsReached == ~overlap => \A d \in listens : path = d

\* Once the file is left alone and loads, the daemon comes to run what it says, and the state it
\* shows its clients comes to be that of the supervisors it runs, whatever was queued when they
\* were replaced (start_refresh, reconfigure, start_federation).
AdoptsTheFile ==
    <>[](edits = MaxEdits /\ file # Nothing) => <>[](active = file /\ state.config = active)

-----------------------------------------------------------------------------
(* Statements of the repository that the code does not keep *)

\* "one that accepts a connection belongs to a running daemon and is never evicted. A daemon asked
\* to stop removes its own socket."
NeverEvicted == evicted = {}
=============================================================================
