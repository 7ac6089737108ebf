---------------------------- MODULE DaemonRoutes ----------------------------
(***************************************************************************)
(* The daemon around the broker: the terminal stream processes it opens,   *)
(* feeds and ends as the broker's effects ask (src/daemon/server.rs,       *)
(* Daemon::handle, apply, open_route, send_to_route, reconfigure).         *)
(*                                                                         *)
(* One event loop takes an input, runs the broker and performs every       *)
(* effect before it takes the next input.  Performing one effect is one    *)
(* step here, and an input is taken only when nothing is left to perform.  *)
(* A stream's reader task reports its end through the same input queue     *)
(* and names the pane only, so a report may be handled long after the      *)
(* stream it is about was replaced.                                        *)
(***************************************************************************)
EXTENDS Broker

CONSTANTS MaxReports     \* bound: unhandled stream endings per pane

\* A stream as the daemon keeps it: the access it was opened with, the size
\* it was last given, and whether its process still runs.
Stream == [access : {"observe", "control"}, size : Size, running : BOOLEAN]

ASSUME DaemonConstants == MaxReports \in Nat /\ None \notin Stream

VARIABLES
    stream,      \* stream[p]: the daemon's Route to p (a child process), or None
    downgraded,  \* panes opened with less access than asked, not yet reported
    reports      \* reports[p]: RouteClosed inputs for p still in the queue

daemonVars == <<stream, downgraded, reports>>
allVars == <<vars, daemonVars>>

DaemonInit ==
    /\ Init
    /\ stream = [p \in Pane |-> None]
    /\ downgraded = {}
    /\ reports = [p \in Pane |-> 0]

\* The loop is between two inputs: everything asked has been performed.
Idle == orders = NoOrders /\ downgraded = {}

Next1(p) == Head(orders[p])
Performed(p) == orders' = [orders EXCEPT ![p] = Tail(@)]

-----------------------------------------------------------------------------
(* Performing one effect (apply) *)

\* Mutant of PerformOpen: a stream opened with less access is not reported.
PerformOpenSilently(p) ==
    LET asked == Next1(p)
    IN  /\ orders[p] # <<>> /\ asked.type = "open"
        /\ \E access \in {asked.access, "observe"} :
              stream' = [stream EXCEPT ![p] = [access |-> access, size |-> asked.size,
                                               running |-> TRUE]]
        /\ Performed(p)
        /\ UNCHANGED <<session, subs, routes, screens, told, viewer, downgraded, reports>>

\* open_route: whatever ran is ended first.  The spawn may succeed, may be
\* refused for control and succeed for observation, or may fail outright (no
\* such target, no herdr there, neither spawn succeeding), which is reported
\* as a closed route.
PerformOpen(p) ==
    LET asked == Next1(p)
        opened(access) ==
            stream' = [stream EXCEPT ![p] = [access |-> access, size |-> asked.size,
                                             running |-> TRUE]]
    IN  /\ orders[p] # <<>> /\ asked.type = "open"
        /\ \/ /\ opened(asked.access)
              /\ UNCHANGED <<downgraded, reports>>
           \/ /\ asked.access = "control"
              /\ opened("observe")
              /\ downgraded' = downgraded \cup {p}
              /\ UNCHANGED reports
           \/ /\ reports[p] < MaxReports
              /\ stream' = [stream EXCEPT ![p] = None]
              /\ reports' = [reports EXCEPT ![p] = @ + 1]
              /\ UNCHANGED downgraded
        /\ Performed(p)
        /\ UNCHANGED <<session, subs, routes, screens, told, viewer>>

\* A route that opened with less access than asked is reported to the broker
\* as soon as the next effect is taken up.
ReportDowngrade(p) ==
    /\ p \in downgraded
    /\ orders = NoOrders
    /\ downgraded' = downgraded \ {p}
    /\ RouteDowngraded(p)
    /\ UNCHANGED <<stream, reports>>

\* Effect::CloseRoute shuts the stream down if there is one.
PerformClose(p) ==
    /\ orders[p] # <<>> /\ Next1(p).type = "close"
    /\ stream' = [stream EXCEPT ![p] = None]
    /\ Performed(p)
    /\ UNCHANGED <<session, subs, routes, screens, told, viewer, downgraded, reports>>

\* Effect::RouteResize through send_to_route: only a stream with an input
\* channel hears it, and nobody is told otherwise.
PerformResize(p) ==
    /\ orders[p] # <<>> /\ Next1(p).type = "resize"
    /\ stream' = [stream EXCEPT ![p] =
                     IF @ # None /\ @.access = "control"
                     THEN [@ EXCEPT !.size = Next1(p).size] ELSE @]
    /\ Performed(p)
    /\ UNCHANGED <<session, subs, routes, screens, told, viewer, downgraded, reports>>

\* Effect::RouteInput through send_to_route.
PerformInput(p) ==
    /\ orders[p] # <<>> /\ Next1(p).type = "input"
    /\ Performed(p)
    /\ UNCHANGED <<session, subs, routes, screens, told, viewer>>
    /\ UNCHANGED daemonVars

\* Effect::RouteUnclaimed: nothing waits yet, so the broker is asked at once.
PerformUnclaimed(p) ==
    /\ orders[p] # <<>> /\ Next1(p).type = "unclaimed"
    /\ CloseIfUnclaimed(p)
    /\ UNCHANGED daemonVars

Perform(p) ==
    \/ PerformOpen(p) \/ ReportDowngrade(p) \/ PerformClose(p)
    \/ PerformResize(p) \/ PerformInput(p) \/ PerformUnclaimed(p)

-----------------------------------------------------------------------------
(* Taking an input (handle) *)

\* Input::Connected, Input::Received and Input::Disconnected.
TakeClientInput(c) ==
    /\ Idle
    /\ ClientStep(c)
    /\ UNCHANGED daemonVars

\* Mutant of TakeRouteClosed: only a report about a stream that still runs counts.
TakeRouteClosedOfRunning(p) ==
    /\ Idle
    /\ reports[p] > 0 /\ stream[p] # None /\ stream[p].running
    /\ reports' = [reports EXCEPT ![p] = @ - 1]
    /\ stream' = [stream EXCEPT ![p] = None]
    /\ CloseRoutes({p})
    /\ UNCHANGED downgraded

\* Input::RouteClosed, whichever stream of the pane it was about.
TakeRouteClosed(p) ==
    /\ Idle
    /\ reports[p] > 0
    /\ reports' = [reports EXCEPT ![p] = @ - 1]
    /\ stream' = [stream EXCEPT ![p] = None]
    /\ CloseRoutes({p})
    /\ UNCHANGED downgraded

\* Input::Frame, from whichever stream of the pane its reader task read it.
TakeFrame(p, size, content) ==
    /\ Idle
    /\ PaneFrame(p, size, content)
    /\ UNCHANGED daemonVars

\* Input::Federation, its routing half.
TakeFederation(view) ==
    /\ Idle
    /\ FederationUpdated(view)
    /\ UNCHANGED daemonVars

\* Input::Reconfigured: streams to the targets whose definition changed end,
\* and their routes with them.  Routes without a stream are left alone.
TakeReconfigured(changed) ==
    LET invalidated == {p \in Pane : stream[p] # None /\ targetOf[p] \in changed}
    IN  /\ Idle
        /\ stream' = [p \in Pane |-> IF p \in invalidated THEN None ELSE stream[p]]
        /\ CloseRoutes(invalidated)
        /\ UNCHANGED <<downgraded, reports>>

-----------------------------------------------------------------------------
\* The reader task of a running stream sees it end and queues the report.
StreamEnds(p) ==
    /\ stream[p] # None /\ stream[p].running
    /\ reports[p] < MaxReports
    /\ stream' = [stream EXCEPT ![p] = [@ EXCEPT !.running = FALSE]]
    /\ reports' = [reports EXCEPT ![p] = @ + 1]
    /\ UNCHANGED <<vars, downgraded>>

DaemonNext ==
    \/ \E c \in ClientId : TakeClientInput(c)
    \/ \E p \in Pane : Perform(p) \/ TakeRouteClosed(p) \/ StreamEnds(p)
    \/ \E p \in Pane, size \in Size, content \in Content : TakeFrame(p, size, content)
    \/ \E view \in [Target -> TargetView] : TakeFederation(view)
    \/ \E changed \in SUBSET Target : TakeReconfigured(changed)

DaemonSpec == DaemonInit /\ [][DaemonNext]_allVars

\* The loop performs what it was asked, and the input queue is a FIFO channel:
\* a report that was queued is taken however many inputs keep arriving.
DaemonFairness ==
    \A p \in Pane : WF_allVars(Perform(p)) /\ SF_allVars(TakeRouteClosed(p))

FairDaemonSpec == DaemonSpec /\ DaemonFairness

-----------------------------------------------------------------------------
(* Properties *)

\* Between two inputs the stream that runs for a route is what the broker
\* believes it is: with the route's access, and with the route's size when it
\* can be resized, across takeovers, refused control streams, departures and
\* stale reports.  A route without a stream has its report in the queue.
StreamFollowsRoute ==
    Idle => \A p \in Pane : routes[p] # None =>
        IF stream[p] = None THEN reports[p] > 0
        ELSE /\ stream[p].access = routes[p].access
             /\ stream[p].access = "control" => stream[p].size = routes[p].size
             /\ stream[p].running \/ reports[p] > 0

\* A client whose pane has no running stream is told so or given one: every
\* route whose stream ended or could not be opened is closed or served again.
RouteServedOrClosed ==
    \A p \in Pane :
        (routes[p] # None /\ (stream[p] = None \/ ~stream[p].running))
            ~> (routes[p] = None \/ (stream[p] # None /\ stream[p].running))

-----------------------------------------------------------------------------
(* Statements of the repository that the code does not keep: TLC finds a    *)
(* counterexample to each, which README.md describes.                       *)

\* Input accepted from the lease holder reaches a stream that can carry it,
\* or one whose ending is about to be reported ("silently dropping input
\* would leave a person typing into a pane that never answers",
\* holds_control).
AcceptedInputIsCarried ==
    \A p \in Pane : orders[p] # <<>> /\ Next1(p).type = "input" =>
        \/ stream[p] # None /\ stream[p].access = "control"
        \/ reports[p] > 0

\* A route ends because its own stream ended: a RouteClosed input never shuts
\* down a stream that is still running ("The route's own stream ended",
\* pane_route_closed).
OnlyOwnStreamCloses ==
    [][\A p \in Pane : TakeRouteClosed(p) =>
           (stream[p] = None \/ ~stream[p].running)]_allVars

\* A stream runs only for a route: nothing keeps a terminal process for a
\* pane nobody can see.
NoOrphanStream ==
    Idle => \A p \in Pane : stream[p] # None /\ stream[p].running => routes[p] # None
=============================================================================
