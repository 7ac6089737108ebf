------------------------------- MODULE Broker -------------------------------
(***************************************************************************)
(* The broker: who watches which pane, whose keys reach it, what each      *)
(* rendered viewer has been sent (src/daemon/broker.rs).                   *)
(*                                                                         *)
(* The broker is a state machine driven by one event loop: a message goes  *)
(* in, the state changes and a list of effects comes out.  Every handler   *)
(* is one atomic action here.  Messages to clients are kept as the         *)
(* knowledge they leave behind (told, viewer), because a connection's      *)
(* outbox is a FIFO queue; effects on the daemon's terminal streams are    *)
(* kept in orders, for DaemonRoutes.tla to perform before the next input   *)
(* (close_if_unclaimed and route_downgraded are called while that goes on, *)
(* so they add to orders and every other handler starts from none).        *)
(***************************************************************************)
EXTENDS Integers, Sequences, FiniteSets

CONSTANTS ClientId,        \* connections; an id is never used twice
          Pane,
          Target,          \* herdr sessions
          targetOf,        \* the target session each pane belongs to
          Size,            \* terminal sizes (cols x rows)
          Row, Cell,       \* a rendered screen is a cell value per row
          BlankCell,
          MaxOutstanding,  \* MAX_OUTSTANDING_SCREEN_UPDATES
          MaxSequence,     \* bound: rendered updates per emulator
          Access,          \* the accesses clients ask for
          Representation,  \* the representations clients ask for
          None             \* Option::None

ASSUME BrokerConstants ==
    /\ targetOf \in [Pane -> Target]
    /\ BlankCell \in Cell
    /\ MaxOutstanding \in Nat \ {0}
    /\ MaxSequence \in Nat
    /\ Access \subseteq {"observe", "control"}
    /\ Representation \subseteq {"frames", "screen"}

Content  == [Row -> Cell]
Screen   == [sequence : Nat, size : Size, content : Content]
Route    == [access : {"observe", "control"}, size : Size,
             control : ClientId \cup {None}, subscribers : SUBSET ClientId,
             unclaimed : BOOLEAN]
PaneSubscription ==
    [size : Size, representation : {"frames", "screen"},
     sent : Nat \cup {None}, outstanding : Seq(Nat)]

\* None stands for every absent value, so it is none of the present ones.
ASSUME NoneIsAbsent ==
    /\ None \notin ClientId
    /\ None \notin Nat
    /\ None \notin Route
    /\ None \notin PaneSubscription
    /\ None \notin Screen

VARIABLES
    session,   \* each connection: not yet made, connected, greeted, or gone
    subs,      \* subs[c][p]: c's PaneSubscription to p, or None
    routes,    \* routes[p]: the Route to p, or None
    screens,   \* screens[p]: the last Snapshot of p's emulator, or None
    told,      \* told[c][p]: the last lease or closing c was told about p
    viewer,    \* viewer[c][p]: the screen c holds after all it was sent
    orders     \* orders[p]: what p's terminal stream is still to be asked

vars == <<session, subs, routes, screens, told, viewer, orders>>

-----------------------------------------------------------------------------
(* Effects on a terminal stream *)

OpenRoute(access, size) == [type |-> "open", access |-> access, size |-> size]
CloseRoute              == [type |-> "close"]
RouteResize(size)       == [type |-> "resize", size |-> size]
RouteUnclaimed          == [type |-> "unclaimed"]
RouteInput              == [type |-> "input"]

NoOrders == [p \in Pane |-> <<>>]
OrdersFor(p, effects) == [NoOrders EXCEPT ![p] = effects]

-----------------------------------------------------------------------------
(* Helpers *)

\* Route lookups of a pane that may have none.
Subscribers(p) == IF routes[p] = None THEN {} ELSE routes[p].subscribers
Holder(p)      == IF routes[p] = None THEN None ELSE routes[p].control

HoldsControl(c, p) == routes[p] # None /\ routes[p].control = c

Watches(c, p, representation) ==
    subs[c][p] # None /\ subs[c][p].representation = representation

ScreenWatchers(p) == {c \in Subscribers(p) : Watches(c, p, "screen")}

\* resize_for_control: a resize is ordered only when the size differs.
ResizeForControl(route, size) ==
    IF route.size = size THEN <<>> ELSE <<RouteResize(size)>>

Lease(route, c) == IF route.control = c THEN "control" ELSE "observe"

\* The subscription after the screen `sequence` has been queued for it.
Queued(sub, sequence) ==
    [sub EXCEPT !.sent = sequence, !.outstanding = Append(@, sequence)]

\* ScreenDiff::between.  No diff can express a resize.
DiffBetween(previous, current) ==
    IF previous.size # current.size THEN None
    ELSE [follows  |-> previous.sequence,
          sequence |-> current.sequence,
          rows     |-> [r \in {i \in Row : previous.content[i] # current.content[i]}
                            |-> current.content[r]]]

\* The page's handling of pane.screen_diff: rows are written over the screen
\* it holds, and a diff that follows anything else is dropped with the screen.
ApplyDiff(held, diff) ==
    IF held = None \/ held.sequence # diff.follows THEN None
    ELSE [held EXCEPT
            !.sequence = diff.sequence,
            !.content = [r \in Row |-> IF r \in DOMAIN diff.rows
                                       THEN diff.rows[r] ELSE @[r]]]

-----------------------------------------------------------------------------
Init ==
    /\ session = [c \in ClientId |-> "unborn"]
    /\ subs = [c \in ClientId |-> [p \in Pane |-> None]]
    /\ routes = [p \in Pane |-> None]
    /\ screens = [p \in Pane |-> None]
    /\ told = [c \in ClientId |-> [p \in Pane |-> "nothing"]]
    /\ viewer = [c \in ClientId |-> [p \in Pane |-> None]]
    /\ orders = NoOrders

-----------------------------------------------------------------------------
(* Connections *)

\* connect: a fresh id that has said nothing.
Connect(c) ==
    /\ session[c] = "unborn"
    /\ session' = [session EXCEPT ![c] = "connected"]
    /\ orders' = NoOrders
    /\ UNCHANGED <<subs, routes, screens, told, viewer>>

\* The handshake: nothing is served before a client.hello of this version.
Hello(c) ==
    /\ session[c] = "connected"
    /\ session' = [session EXCEPT ![c] = "greeted"]
    /\ orders' = NoOrders
    /\ UNCHANGED <<subs, routes, screens, told, viewer>>

\* Mutant of ReleasedRoute: the last one out leaves its name on the keyboard.
ReleasedRouteKeepsControl(c, p) ==
    LET route == routes[p]
        rest  == route.subscribers \ {c}
    IN  IF rest = {}
        THEN [route EXCEPT !.subscribers = {}, !.unclaimed = TRUE]
        ELSE IF route.control = c
             THEN [route EXCEPT !.subscribers = rest, !.control = None,
                                !.access = "observe"]
             ELSE [route EXCEPT !.subscribers = rest]

\* release_pane, on the route: c leaves p.
ReleasedRoute(c, p) ==
    LET route == routes[p]
        rest  == route.subscribers \ {c}
    IN  IF rest = {}
        THEN [route EXCEPT !.subscribers = {}, !.unclaimed = TRUE, !.control = None]
        ELSE IF route.control = c
             THEN [route EXCEPT !.subscribers = rest, !.control = None,
                                !.access = "observe"]
             ELSE [route EXCEPT !.subscribers = rest]

\* release_pane, on the stream: a departing control holder takes the input
\* channel with it, so the stream is reopened to observe.
ReleaseOrders(c, p) ==
    LET route == routes[p]
    IN  IF route.subscribers \ {c} = {} THEN <<RouteUnclaimed>>
        ELSE IF route.control = c /\ route.access = "control"
             THEN <<CloseRoute, OpenRoute("observe", route.size)>>
             ELSE <<>>

\* release_screen_if_unwatched: an emptied route keeps its screen, otherwise
\* the emulator goes with the last viewer that rendered it.
KeepsScreenWithout(c, p) ==
    \/ Subscribers(p) \ {c} = {}
    \/ ScreenWatchers(p) \ {c} # {}

\* Mutant of Release: a departing holder hands the keyboard on, and says so.
ReleaseHandsOn(c, P) ==
    LET routed == {p \in P : routes[p] # None}
        heir(p) == IF HoldsControl(c, p) /\ routes[p].subscribers # {c}
                   THEN CHOOSE d \in routes[p].subscribers \ {c} : TRUE ELSE None
    IN  /\ subs' = [subs EXCEPT ![c] = [p \in Pane |-> IF p \in P THEN None ELSE @[p]]]
        /\ routes' = [p \in Pane |->
                         IF p \notin routed THEN routes[p]
                         ELSE IF heir(p) = None THEN ReleasedRoute(c, p)
                         ELSE [ReleasedRoute(c, p) EXCEPT !.control = heir(p)]]
        /\ told' = [d \in ClientId |-> [p \in Pane |->
                       IF p \in routed /\ d = heir(p) THEN "control"
                       ELSE IF d = c /\ p \in P THEN "nothing" ELSE told[d][p]]]
        /\ orders' = [p \in Pane |-> IF p \in routed THEN ReleaseOrders(c, p) ELSE <<>>]
        /\ viewer' = [viewer EXCEPT ![c] = [p \in Pane |-> IF p \in P THEN None ELSE @[p]]]
        /\ UNCHANGED screens

\* release_pane for every pane of P that has a route.
Release(c, P) ==
    LET routed == {p \in P : routes[p] # None}
    IN  /\ subs' = [subs EXCEPT ![c] = [p \in Pane |-> IF p \in P THEN None ELSE @[p]]]
        /\ routes' = [p \in Pane |-> IF p \in routed THEN ReleasedRoute(c, p)
                                                     ELSE routes[p]]
        /\ screens' = [p \in Pane |-> IF p \in routed /\ ~KeepsScreenWithout(c, p)
                                      THEN None ELSE screens[p]]
        /\ orders' = [p \in Pane |-> IF p \in routed THEN ReleaseOrders(c, p)
                                                     ELSE <<>>]
        /\ told' = [d \in ClientId |-> [p \in Pane |->
                       IF p \in routed /\ d # c /\ HoldsControl(c, p)
                                       /\ d \in routes[p].subscribers
                       THEN "observe"
                       ELSE IF d = c /\ p \in P THEN "nothing" ELSE told[d][p]]]
        /\ viewer' = [viewer EXCEPT ![c] = [p \in Pane |-> IF p \in P THEN None ELSE @[p]]]

\* disconnect: everything one connection held is released.  A refused
\* handshake (a wrong version, a first message that is not a hello, a second
\* hello) answers with an error and a Disconnect effect, which ends here too.
Disconnect(c) ==
    /\ session[c] \in {"connected", "greeted"}
    /\ session' = [session EXCEPT ![c] = "gone"]
    /\ Release(c, {p \in Pane : subs[c][p] # None})

UnsubscribePane(c, p) ==
    /\ session[c] = "greeted"
    /\ subs[c][p] # None
    /\ Release(c, {p})
    /\ UNCHANGED session

-----------------------------------------------------------------------------
(* Subscriptions and leases *)

\* subscribe_pane, on the route: join it, taking a keyboard nobody holds, or
\* open one.
SubscribedRoute(c, p, access, size) ==
    IF routes[p] = None
    THEN [access |-> access, size |-> size,
          control |-> IF access = "control" THEN c ELSE None,
          subscribers |-> {c}, unclaimed |-> FALSE]
    ELSE LET joined == [routes[p] EXCEPT !.unclaimed = FALSE,
                                         !.subscribers = @ \cup {c}]
         IN  IF access = "control" /\ routes[p].control = None
             THEN [joined EXCEPT !.control = c, !.size = size]
             ELSE joined

SubscribeOrders(p, access, size) ==
    IF routes[p] = None THEN <<OpenRoute(access, size)>>
    ELSE IF access = "control" /\ routes[p].control = None
         THEN ResizeForControl(routes[p], size)
         ELSE <<>>

\* Mutant of SubscribePane: a subscription that exists is updated in place.
SubscribePaneInPlace(c, p, access, size, representation) ==
    LET fresh == [size |-> size, representation |-> representation,
                  sent |-> None,
                  outstanding |-> IF subs[c][p] = None THEN <<>>
                                  ELSE subs[c][p].outstanding]
        seen  == representation = "screen" /\ screens[p] # None
    IN  /\ session[c] = "greeted"
        /\ subs' = [subs EXCEPT ![c][p] =
                       IF seen THEN Queued(fresh, screens[p].sequence) ELSE fresh]
        /\ viewer' = [viewer EXCEPT ![c][p] = IF seen THEN screens[p] ELSE None]
        /\ routes' = [routes EXCEPT ![p] = SubscribedRoute(c, p, access, size)]
        /\ told' = [told EXCEPT ![c][p] =
                       Lease(SubscribedRoute(c, p, access, size), c)]
        /\ orders' = OrdersFor(p, SubscribeOrders(p, access, size))
        /\ UNCHANGED <<session, screens>>

\* subscribe_pane: the subscription is replaced whole, and a viewer that
\* arrives mid-stream is sent the screen as it stands.
SubscribePane(c, p, access, size, representation) ==
    LET fresh == [size |-> size, representation |-> representation,
                  sent |-> None, outstanding |-> <<>>]
        seen  == representation = "screen" /\ screens[p] # None
    IN  /\ session[c] = "greeted"
        /\ subs' = [subs EXCEPT ![c][p] =
                       IF seen THEN Queued(fresh, screens[p].sequence) ELSE fresh]
        /\ viewer' = [viewer EXCEPT ![c][p] = IF seen THEN screens[p] ELSE None]
        /\ routes' = [routes EXCEPT ![p] = SubscribedRoute(c, p, access, size)]
        /\ told' = [told EXCEPT ![c][p] =
                       Lease(SubscribedRoute(c, p, access, size), c)]
        /\ orders' = OrdersFor(p, SubscribeOrders(p, access, size))
        /\ UNCHANGED <<session, screens>>

\* Mutant of TakeControl: whoever held the keyboard is not told.
TakeControlSilently(c, p, onlyIfFree) ==
    /\ session[c] = "greeted"
    /\ subs[c][p] # None
    /\ routes[p] # None
    /\ routes[p].control # c
    /\ ~(onlyIfFree /\ routes[p].control # None)
    /\ routes' = [routes EXCEPT ![p] = [@ EXCEPT !.control = c,
                                                 !.size = subs[c][p].size,
                                                 !.access = "control"]]
    /\ told' = [told EXCEPT ![c][p] = "control"]
    /\ orders' = OrdersFor(p,
                    ResizeForControl(routes[p], subs[c][p].size) \o
                    (IF routes[p].access = "control" THEN <<>>
                     ELSE <<CloseRoute, OpenRoute("control", subs[c][p].size)>>))
    /\ UNCHANGED <<session, subs, screens, viewer>>

\* take_control, when it moves the keyboard.  A stream without an input
\* channel cannot be promoted in place, so it is closed and reopened.
TakeControl(c, p, onlyIfFree) ==
    /\ session[c] = "greeted"
    /\ subs[c][p] # None
    /\ routes[p] # None
    /\ routes[p].control # c
    /\ ~(onlyIfFree /\ routes[p].control # None)
    /\ routes' = [routes EXCEPT ![p] = [@ EXCEPT !.control = c,
                                                 !.size = subs[c][p].size,
                                                 !.access = "control"]]
    /\ orders' = OrdersFor(p,
                    ResizeForControl(routes[p], subs[c][p].size) \o
                    (IF routes[p].access = "control" THEN <<>>
                     ELSE <<CloseRoute, OpenRoute("control", subs[c][p].size)>>))
    /\ told' = [d \in ClientId |->
                  IF d = c THEN [told[d] EXCEPT ![p] = "control"]
                  ELSE IF d = routes[p].control THEN [told[d] EXCEPT ![p] = "observe"]
                  ELSE told[d]]
    /\ UNCHANGED <<session, subs, screens, viewer>>

\* take_control asked only if free, and it is not: the asker is told it
\* observes and nothing about the pane changes.
TakeControlRefused(c, p) ==
    /\ session[c] = "greeted"
    /\ subs[c][p] # None
    /\ routes[p] # None
    /\ routes[p].control \notin {c, None}
    /\ told' = [told EXCEPT ![c][p] = "observe"]
    /\ orders' = NoOrders
    /\ UNCHANGED <<session, subs, routes, screens, viewer>>

\* pane.input, pane.scroll and every other message gated by holds_control
\* that the stream is to carry.  Without the lease the answer is an error.
PaneInput(c, p) ==
    /\ session[c] = "greeted"
    /\ HoldsControl(c, p)
    /\ orders' = OrdersFor(p, <<RouteInput>>)
    /\ UNCHANGED <<session, subs, routes, screens, told, viewer>>

\* pane.resize: the lease holder sizes the pane and its own subscription.
PaneResize(c, p, size) ==
    /\ session[c] = "greeted"
    /\ HoldsControl(c, p)
    /\ subs' = [subs EXCEPT ![c][p] = IF @ = None THEN None
                                      ELSE [@ EXCEPT !.size = size]]
    /\ routes' = [routes EXCEPT ![p] = [@ EXCEPT !.size = size]]
    /\ orders' = OrdersFor(p, <<RouteResize(size)>>)
    /\ UNCHANGED <<session, screens, told, viewer>>

-----------------------------------------------------------------------------
(* Rendered screens *)

\* Mutant of LastScreen: a new emulator counts from before the first sequence.
LastScreenBeforeFirst(p, size) ==
    IF screens[p] # None THEN screens[p]
    ELSE [sequence |-> -1, size |-> size, content |-> [r \in Row |-> BlankCell]]

\* The screen a frame is compared with: ScreenState::new, at sequence zero,
\* for a pane nobody was rendering.
LastScreen(p, size) ==
    IF screens[p] # None THEN screens[p]
    ELSE [sequence |-> 0, size |-> size, content |-> [r \in Row |-> BlankCell]]

\* advance: the sequence moves only if the visible screen did.
Advanced(p, size, content) ==
    LET last == LastScreen(p, size)
    IN  IF last.size = size /\ last.content = content THEN last
        ELSE [sequence |-> last.sequence + 1, size |-> size, content |-> content]

\* render_for: c is sent this screen unless nothing moved and it holds it
\* already, or it carries as much as it may.
IsSent(c, p, screen) ==
    /\ ~(screen = LastScreen(p, screen.size) /\ subs[c][p].sent = screen.sequence)
    /\ Len(subs[c][p].outstanding) < MaxOutstanding

\* Mutant of UpdateFor: a diff whether or not the viewer holds what it follows.
UpdateForAnyone(c, p, screen) ==
    LET last == LastScreen(p, screen.size)
        diff == IF screen = last THEN None ELSE DiffBetween(last, screen)
    IN  IF diff # None THEN ApplyDiff(viewer[c][p], diff) ELSE screen

\* update_for: a diff to the one who holds what it follows, the whole screen
\* to anyone else.
UpdateFor(c, p, screen) ==
    LET last == LastScreen(p, screen.size)
        diff == IF screen = last THEN None ELSE DiffBetween(last, screen)
    IN  IF diff # None /\ subs[c][p].sent = diff.follows
        THEN ApplyDiff(viewer[c][p], diff)
        ELSE screen

\* pane_frame: one frame, two audiences.  With nobody rendering the pane its
\* emulator is dropped; frames themselves leave no state behind.
PaneFrame(p, size, content) ==
    LET screen == Advanced(p, size, content)
        sentTo == {c \in ScreenWatchers(p) : IsSent(c, p, screen)}
    IN  /\ routes[p] # None
        /\ orders' = NoOrders
        /\ UNCHANGED <<session, routes, told>>
        /\ \/ /\ ScreenWatchers(p) = {}
              /\ screens' = [screens EXCEPT ![p] = None]
              /\ UNCHANGED <<subs, viewer>>
           \/ /\ ScreenWatchers(p) # {}
              /\ screen.sequence <= MaxSequence
              /\ screens' = [screens EXCEPT ![p] = screen]
              /\ subs' = [c \in ClientId |->
                            IF c \in sentTo
                            THEN [subs[c] EXCEPT ![p] = Queued(@, screen.sequence)]
                            ELSE subs[c]]
              /\ viewer' = [c \in ClientId |->
                              IF c \in sentTo
                              THEN [viewer[c] EXCEPT ![p] = UpdateFor(c, p, screen)]
                              ELSE viewer[c]]

\* The queue after an acknowledgement: everything at its front up to and
\* including the acknowledged sequence is settled.
Unsettled(outstanding, sequence) ==
    LET settled == CHOOSE k \in 1..Len(outstanding) :
                      /\ \A i \in 1..k : outstanding[i] <= sequence
                      /\ k < Len(outstanding) => outstanding[k + 1] > sequence
    IN  SubSeq(outstanding, settled + 1, Len(outstanding))

\* Mutant of AckPaneScreen: a viewer that fell behind waits for a frame.
AckPaneScreenOnly(c, p, sequence) ==
    LET sub == subs[c][p]
    IN  /\ session[c] = "greeted"
        /\ sub # None
        /\ \E i \in 1..Len(sub.outstanding) : sub.outstanding[i] = sequence
        /\ subs' = [subs EXCEPT ![c][p].outstanding = Unsettled(@, sequence)]
        /\ orders' = NoOrders
        /\ UNCHANGED <<session, routes, screens, told, viewer>>

\* ack_pane_screen: only a sequence the subscription waits on settles
\* anything, and a viewer that fell behind is then sent the whole screen.
AckPaneScreen(c, p, sequence) ==
    LET sub     == subs[c][p]
        settled == [sub EXCEPT !.outstanding = Unsettled(@, sequence)]
        behind  == /\ screens[p] # None
                   /\ sub.sent # screens[p].sequence
                   /\ Len(settled.outstanding) < MaxOutstanding
    IN  /\ session[c] = "greeted"
        /\ sub # None
        /\ \E i \in 1..Len(sub.outstanding) : sub.outstanding[i] = sequence
        /\ subs' = [subs EXCEPT ![c][p] =
                       IF behind THEN Queued(settled, screens[p].sequence) ELSE settled]
        /\ viewer' = IF behind THEN [viewer EXCEPT ![c][p] = screens[p]] ELSE viewer
        /\ orders' = NoOrders
        /\ UNCHANGED <<session, routes, screens, told>>

-----------------------------------------------------------------------------
(* What the daemon tells the broker about routes and the federation *)

\* close_if_unclaimed: asked when the wait is over, decided on what is true now.
CloseIfUnclaimed(p) ==
    /\ routes[p] # None
    /\ routes[p].unclaimed
    /\ routes' = [routes EXCEPT ![p] = None]
    /\ screens' = [screens EXCEPT ![p] = None]
    /\ orders' = [orders EXCEPT ![p] = <<CloseRoute>>]
    /\ UNCHANGED <<session, subs, told, viewer>>

\* pane_route_closed for every pane of P: its subscribers lose their
\* subscription and are told.  No effect reaches the stream.
CloseRoutes(P) ==
    LET loses(c, p) == p \in P /\ routes[p] # None /\ c \in routes[p].subscribers
    IN  /\ routes' = [p \in Pane |-> IF p \in P THEN None ELSE routes[p]]
        /\ screens' = [p \in Pane |-> IF p \in P /\ routes[p] # None
                                      THEN None ELSE screens[p]]
        /\ subs' = [c \in ClientId |-> [p \in Pane |->
                       IF loses(c, p) THEN None ELSE subs[c][p]]]
        /\ told' = [c \in ClientId |-> [p \in Pane |->
                       IF loses(c, p) THEN "closed" ELSE told[c][p]]]
        /\ viewer' = [c \in ClientId |-> [p \in Pane |->
                       IF loses(c, p) THEN None ELSE viewer[c][p]]]
        /\ orders' = NoOrders
        /\ UNCHANGED session

PaneRouteClosed(p) == routes[p] # None /\ CloseRoutes({p})

\* route_downgraded: herdr refused a control stream, so everyone watches.
RouteDowngraded(p) ==
    /\ routes[p] # None
    /\ ~(routes[p].access = "observe" /\ routes[p].control = None)
    /\ routes' = [routes EXCEPT ![p] = [@ EXCEPT !.access = "observe",
                                                 !.control = None]]
    /\ told' = [c \in ClientId |->
                  IF c \in routes[p].subscribers
                  THEN [told[c] EXCEPT ![p] = "observe"] ELSE told[c]]
    /\ UNCHANGED <<session, subs, screens, viewer, orders>>

\* A target as the federation reports it: not configured any more, or a
\* connection state with the panes of its last snapshot, if it has one.
TargetView == [connection : {"live", "other"}, snapshot : (SUBSET Pane) \cup {None}]
                  \cup {None}

\* pane_is_gone: only a live target's snapshot may retire a pane.
PaneIsGone(view, p) ==
    \/ view[targetOf[p]] = None
    \/ /\ view[targetOf[p]].connection = "live"
       /\ view[targetOf[p]].snapshot # None
       /\ p \notin view[targetOf[p]].snapshot

\* federation_updated, its routing half: close_vanished_routes.
FederationUpdated(view) ==
    CloseRoutes({p \in Pane : routes[p] # None /\ PaneIsGone(view, p)})

-----------------------------------------------------------------------------
ClientStep(c) ==
    \/ Connect(c) \/ Hello(c) \/ Disconnect(c)
    \/ \E p \in Pane :
        \/ UnsubscribePane(c, p)
        \/ \E access \in Access, size \in Size, repr \in Representation :
               SubscribePane(c, p, access, size, repr)
        \/ \E onlyIfFree \in BOOLEAN : TakeControl(c, p, onlyIfFree)
        \/ TakeControlRefused(c, p)
        \/ PaneInput(c, p)
        \/ \E size \in Size : PaneResize(c, p, size)
        \/ \E sequence \in 0..MaxSequence : AckPaneScreen(c, p, sequence)

DaemonStep ==
    \/ \E p \in Pane :
        \/ \E size \in Size, content \in Content : PaneFrame(p, size, content)
        \/ CloseIfUnclaimed(p) \/ PaneRouteClosed(p) \/ RouteDowngraded(p)
    \/ \E view \in [Target -> TargetView] : FederationUpdated(view)

Next == DaemonStep \/ \E c \in ClientId : ClientStep(c)

Spec == Init /\ [][Next]_vars

-----------------------------------------------------------------------------
(* Properties *)

\* Every variable has its type: sessions, subscriptions, routes, screens and
\* what clients have been told, as broker.rs declares them.
TypeOK ==
    /\ session \in [ClientId -> {"unborn", "connected", "greeted", "gone"}]
    /\ subs \in [ClientId -> [Pane -> PaneSubscription \cup {None}]]
    /\ routes \in [Pane -> Route \cup {None}]
    /\ screens \in [Pane -> Screen \cup {None}]
    /\ told \in [ClientId -> [Pane -> {"nothing", "observe", "control", "closed"}]]
    /\ viewer \in [ClientId -> [Pane -> Screen \cup {None}]]

\* The two records of who watches a pane agree (Client.panes and
\* Route.subscribers are kept by different handlers), only a greeted
\* connection has any, the keyboard is held by a watcher, and a route is
\* unclaimed exactly while nobody watches it: nothing a departed client held
\* survives it.
RoutesAgree ==
    /\ \A c \in ClientId, p \in Pane :
          /\ subs[c][p] # None <=> c \in Subscribers(p)
          /\ subs[c][p] # None => session[c] = "greeted"
    /\ \A p \in Pane : routes[p] # None =>
          /\ routes[p].control # None => routes[p].control \in routes[p].subscribers
          /\ routes[p].unclaimed <=> routes[p].subscribers = {}

\* Every watcher knows what it holds: the last lease it was told is the one
\* the route gives it, whoever caused the change, and a client whose
\* subscription was taken away was told the pane closed.
LeaseKnown ==
    \A c \in ClientId, p \in Pane :
        told[c][p] \in IF subs[c][p] = None THEN {"nothing", "closed"}
                       ELSE {IF Holder(p) = c THEN "control" ELSE "observe"}

\* No queue outlives the sequence space that filled it (the comment on
\* PaneSubscription.outstanding): what a viewer was sent are ascending
\* sequences of the emulator that exists now, at most MaxOutstanding of them
\* unacknowledged.
QueueInSequenceSpace ==
    \A c \in ClientId, p \in Pane : subs[c][p] # None =>
        LET queue == subs[c][p].outstanding
            sent  == subs[c][p].sent
        IN  /\ Len(queue) <= MaxOutstanding
            /\ \A i, j \in 1..Len(queue) : i < j => queue[i] < queue[j]
            /\ Len(queue) > 0 => queue[Len(queue)] = sent
            /\ sent # None => /\ screens[p] # None
                              /\ sent <= screens[p].sequence
                              /\ subs[c][p].representation = "screen"

\* A viewer that was sent the newest update holds exactly the pane's screen:
\* the mix of diffs and whole screens adds up, across skipped updates,
\* resizes, restarted emulators and resubscriptions.
ViewerHoldsScreen ==
    \A c \in ClientId, p \in Pane :
        subs[c][p] # None /\ screens[p] # None =>
            (subs[c][p].sent = screens[p].sequence => viewer[c][p] = screens[p])

\* A viewer of a rendered pane that is behind is behind because it is at its
\* limit, so its next acknowledgement of anything brings it the screen: none
\* is left holding a stale screen with nothing to wait for.
NotStranded ==
    \A c \in ClientId, p \in Pane :
        Watches(c, p, "screen") /\ screens[p] # None =>
            \/ subs[c][p].sent = screens[p].sequence
            \/ Len(subs[c][p].outstanding) = MaxOutstanding

\* The broker implements the lease service of Leases.tla: a keyboard leaves a
\* client that still watches only by an explicit takeover or a refused
\* stream, and is never handed on when its holder leaves.
Keyboards == INSTANCE Leases WITH watching <- [p \in Pane |-> Subscribers(p)],
                                  holder <- [p \in Pane |-> Holder(p)]

ImplementsLeases == Keyboards!LeaseSpec
=============================================================================
