----------------------------- MODULE TuiSession -----------------------------
(***************************************************************************)
(* Which pane the terminal frontend's keys go to: the selected pane, how   *)
(* it is restored, kept and followed (reconcile_selection), the            *)
(* subscriptions made for what is on screen (ensure_routes), and the       *)
(* leases the daemon answers them with, over the two ordered channels      *)
(* between them.                                                           *)
(***************************************************************************)
EXTENDS Naturals, Sequences, FiniteSets, SequencesExt

CONSTANTS
    Panes, Targets,
    TargetOf,       \* the target session of each pane
    TabOf,          \* the tab of each pane
    None,
    AtStart,        \* the panes there are at first, some of every target
    Saved,          \* the panes ui-state.json may name at first
    MaxQueue,       \* named bound: messages under way in one direction
    MaxTurns        \* named bound: choices, faults and publications explored

ASSUME SessionAssumption ==
    /\ IsFiniteSet(Panes) /\ TargetOf \in [Panes -> Targets]
    /\ AtStart \subseteq Panes /\ \A t \in Targets : \E p \in AtStart : TargetOf[p] = t
    /\ Saved \subseteq Panes \cup {None}

Access == {"observe", "control"}
Route == [requested : Access, access : Access, gen : Nat]
Lease == [requested : Access, access : Access]
Command ==
    [op : {"unsubscribe"}, pane : Panes] \cup [op : {"subscribe"}, pane : Panes, access : Access]
      \cup [op : {"input"}, pane : Panes, meant : Panes \cup {None}, shown : Panes \cup {None}]
Event == [kind : {"lease", "closed"}, pane : Panes, access : Access]
Followed == [session : Targets, before : SUBSET Panes, expired : BOOLEAN]

ASSUME NoneAssumption ==
    /\ None \notin Panes /\ None \notin Targets /\ None \notin Route
    /\ None \notin Lease /\ None \notin Command /\ None \notin Followed

VARIABLES
    up, gen,        \* per target: Live, connection_generation
    present,        \* the panes in the published snapshots
    focus,          \* per target: its focused_pane
    selected,       \* App.selected_pane
    restore,        \* App.restore_pending
    followed,       \* App.followed_focus: None or [session, before, expired]
    saved,          \* the pane in ui-state.json
    routes,         \* App.routes: None or [requested, access, gen]
    retry,          \* App.route_retry_after
    operation,      \* the session of an operation that follows focus, or None
    dirty,          \* should_draw
    shown,          \* the selected pane of the last frame drawn
    meant,          \* the pane last chosen for a frontend without one, or by the person (history)
    commands,       \* client to daemon
    events,         \* daemon to client
    leases,         \* the daemon's: None or [requested, access]
    turns,          \* turns taken, of MaxTurns
    accepted        \* the input the daemon last wrote to a pane (history)

federation == <<up, gen, present, focus>>
Turn == turns < MaxTurns /\ turns' = turns + 1
choice == <<selected, restore, followed, saved, meant>>
daemon == <<leases, accepted>>
vars == <<federation, choice, routes, retry, operation, dirty, shown, commands, events, daemon,
          turns>>

Live(p) == p \in present /\ up[TargetOf[p]]
PanesOf(t) == {p \in present : TargetOf[p] = t}
Room(queue) == Len(queue) < MaxQueue

TypeOK ==
    /\ up \in [Targets -> BOOLEAN] /\ gen \in [Targets -> Nat]
    /\ present \subseteq Panes /\ focus \in [Targets -> Panes \cup {None}]
    /\ {selected, restore, saved, meant, shown} \subseteq Panes \cup {None}
    /\ followed \in Followed \cup {None} /\ operation \in Targets \cup {None}
    /\ routes \in [Panes -> Route \cup {None}] /\ leases \in [Panes -> Lease \cup {None}]
    /\ retry \subseteq Panes /\ dirty \in BOOLEAN
    /\ commands \in Seq(Command) /\ events \in Seq(Event)
    /\ accepted \in Command \cup {None}

Init ==
    /\ up = [t \in Targets |-> TRUE] /\ gen = [t \in Targets |-> 1]
    /\ present = AtStart
    /\ focus = [t \in Targets |-> CHOOSE p \in present : TargetOf[p] = t]
    /\ saved \in Saved
    /\ selected = None /\ restore = saved /\ followed = None /\ meant = None
    /\ routes = [p \in Panes |-> None] /\ retry = {} /\ operation = None
    /\ dirty = TRUE /\ shown = None
    /\ commands = <<>> /\ events = <<>>
    /\ leases = [p \in Panes |-> None] /\ accepted = None
    /\ turns = 0

-----------------------------------------------------------------------------
(* Drawing: reconcile_selection, then ensure_routes *)

\* Where a restored pane's target is not live yet, nothing is selected.
RestoreWaits == restore # None /\ ~up[TargetOf[restore]]
Restored == restore # None /\ Live(restore)

\* The focus a followed operation led to: one its session did not have, or any once it is late.
Adopted ==
    LET pane == focus[followed.session]
    IN  IF up[followed.session] /\ pane # None /\ (pane \notin followed.before \/ followed.expired)
        THEN pane ELSE None

\* The focused pane, or the first one, of the busiest live target.
StartupPanes ==
    LET from(t) == IF focus[t] # None THEN {focus[t]} ELSE PanesOf(t)
        some == UNION {from(t) : t \in {t \in Targets : up[t]}}
    IN  IF some = {} THEN {None} ELSE some

Keep(pane) == selected' = pane /\ UNCHANGED saved
Select(pane) == selected' = pane /\ saved' = pane

\* Mutant of Reconcile: the startup pane is chosen again whatever is selected.
ReconcileAnew ==
    /\ restore' = None /\ followed' = None
    /\ \E pane \in StartupPanes : Keep(pane)
    /\ meant' = IF selected = None THEN selected' ELSE meant

\* reconcile_selection
Reconcile ==
    /\ \/ /\ RestoreWaits
          /\ Keep(selected) /\ UNCHANGED <<restore, followed>>
       \/ /\ ~RestoreWaits /\ Restored
          /\ Keep(restore) /\ restore' = None /\ UNCHANGED followed
       \/ /\ ~RestoreWaits /\ ~Restored /\ restore' = None
          /\ \/ selected # None /\ Keep(selected) /\ UNCHANGED followed
             \/ /\ selected = None /\ followed # None /\ Adopted # None
                /\ Select(Adopted) /\ followed' = None
             \/ /\ selected = None /\ followed # None /\ Adopted = None /\ ~followed.expired
                /\ Keep(None) /\ UNCHANGED followed
             \/ /\ selected = None
                /\ followed # None => Adopted = None /\ followed.expired
                /\ followed' = None
                /\ \E pane \in StartupPanes : Keep(pane)
    /\ meant' = IF selected = None THEN selected' ELSE meant

\* visible_pane_areas: the selected pane's tab, while its snapshot has it.
Visible(pane) == IF pane \in present THEN {p \in present : TabOf[p] = TabOf[pane]} ELSE {}

\* desired_access
DesiredAccess(p, pane) == IF p = pane THEN "control" ELSE "observe"

\* ensure_routes: what is not wanted as it is is released before anything is asked for.
EnsureRoutes(pane, resized) ==
    LET asIs(p) == /\ p \in Visible(pane) /\ ~resized
                   /\ routes[p].requested = DesiredAccess(p, pane)
                   /\ routes[p].gen = gen[TargetOf[p]]
        released == {p \in Panes : routes[p] # None /\ ~asIs(p)}
        opened == {p \in Visible(pane) \ retry : routes[p] = None \/ p \in released}
        unsubscribe == {[op |-> "unsubscribe", pane |-> p] : p \in released}
        subscribe == {[op |-> "subscribe", pane |-> p, access |-> DesiredAccess(p, pane)] : p \in opened}
    IN  /\ routes' = [p \in Panes |->
              IF p \in opened
              THEN [requested |-> DesiredAccess(p, pane), access |-> "observe", gen |-> gen[TargetOf[p]]]
              ELSE IF p \in released THEN None ELSE routes[p]]
        /\ commands' = commands \o SetToSeq(unsubscribe) \o SetToSeq(subscribe)
        /\ Len(commands') <= MaxQueue + Cardinality(Panes)

\* The draw of run's loop.
Draw ==
    /\ dirty /\ dirty' = FALSE
    /\ Room(commands)
    /\ Reconcile
    /\ \E resized \in BOOLEAN : /\ EnsureRoutes(selected', resized)
                               /\ IF resized THEN Turn ELSE UNCHANGED turns
    /\ shown' = selected'
    /\ UNCHANGED <<federation, retry, operation, events, daemon>>

-----------------------------------------------------------------------------
(* The person *)

\* select_pane, from a key, a click, the palette, the agents, an event or a notification.
Navigate(p) ==
    /\ Turn
    /\ Live(p) \/ (p \in present /\ selected # None /\ TargetOf[p] = TargetOf[selected])
    /\ selected' = p /\ meant' = p /\ saved' = p
    /\ followed' = None /\ restore' = None
    /\ retry' = retry \ {p} /\ dirty' = TRUE
    /\ UNCHANGED <<federation, routes, operation, shown, commands, events, daemon>>

\* cycle_pane with nothing to select.
CycleNothing ==
    /\ Turn
    /\ \A p \in Panes : ~Live(p)
    /\ selected' = None /\ meant' = None
    /\ routes' = [p \in Panes |-> None] /\ retry' = {} /\ dirty' = TRUE
    /\ UNCHANGED <<federation, restore, followed, saved, operation, shown, commands, events, daemon>>

\* forward_pane_bytes
Type ==
    /\ selected # None /\ routes[selected] # None
    /\ dirty' = TRUE
    /\ \/ /\ ~(up[TargetOf[selected]] /\ routes[selected].gen = gen[TargetOf[selected]])
          /\ routes' = [routes EXCEPT ![selected] = None] /\ UNCHANGED commands
       \/ /\ up[TargetOf[selected]] /\ routes[selected].gen = gen[TargetOf[selected]]
          /\ routes[selected].access = "control" /\ Room(commands)
          /\ commands' = Append(commands, [op |-> "input", pane |-> selected, meant |-> meant, shown |-> shown])
          /\ UNCHANGED routes
    /\ UNCHANGED <<federation, choice, retry, operation, shown, events, daemon, turns>>

\* run_operation with follow_server_focus.
Operate ==
    /\ Turn
    /\ operation = None /\ selected # None
    /\ operation' = TargetOf[selected] /\ dirty' = TRUE
    /\ UNCHANGED <<federation, choice, routes, retry, shown, commands, events, daemon>>

-----------------------------------------------------------------------------
(* Messages and timers *)

\* OperationResult: the panes the session held are those it holds now.
OperationResult ==
    /\ operation # None /\ operation' = None /\ dirty' = TRUE
    /\ \/ /\ selected' = None /\ meant' = None
          /\ followed' = [session |-> operation, before |-> PanesOf(operation), expired |-> FALSE]
       \/ UNCHANGED <<selected, meant, followed>>
    /\ UNCHANGED <<federation, restore, saved, routes, retry, shown, commands, events, daemon, turns>>

\* FOLLOW_FOCUS_TIMEOUT passes: nothing asks for a frame.
FollowExpires ==
    /\ followed # None /\ ~followed.expired
    /\ followed' = [followed EXCEPT !.expired = TRUE]
    /\ UNCHANGED <<federation, selected, restore, saved, meant, routes, retry, operation, dirty, shown,
                   commands, events, daemon, turns>>

\* PaneLease
PaneLease ==
    /\ events # <<>> /\ Head(events).kind = "lease"
    /\ LET e == Head(events)
       IN  routes' = [routes EXCEPT ![e.pane] = IF @ = None THEN None ELSE [@ EXCEPT !.access = e.access]]
    /\ events' = Tail(events) /\ dirty' = TRUE
    /\ UNCHANGED <<federation, choice, retry, operation, shown, commands, daemon, turns>>

\* Mutant of PaneClosed: the route is left for the next frame to find.
PaneClosedLater ==
    /\ events # <<>> /\ Head(events).kind = "closed"
    /\ retry' = retry \cup {Head(events).pane}
    /\ events' = Tail(events) /\ dirty' = TRUE
    /\ UNCHANGED <<federation, choice, routes, operation, shown, commands, daemon, turns>>

\* PaneClosed: not asked for again for two seconds.
PaneClosed ==
    /\ events # <<>> /\ Head(events).kind = "closed"
    /\ routes' = [routes EXCEPT ![Head(events).pane] = None]
    /\ retry' = retry \cup {Head(events).pane}
    /\ events' = Tail(events) /\ dirty' = TRUE
    /\ UNCHANGED <<federation, choice, operation, shown, commands, daemon, turns>>

\* run's tick: retries that are due, and the frame they ask for.
RetryDue ==
    /\ retry # {} /\ \E p \in retry : retry' = retry \ {p}
    /\ dirty' = TRUE
    /\ UNCHANGED <<federation, choice, routes, operation, shown, commands, events, daemon, turns>>

\* Ctrl+] q and a new start: UiStateStore::load; the daemon lets go with its client.
Restart ==
    /\ Turn
    /\ selected' = None /\ restore' = saved /\ followed' = None /\ meant' = None
    /\ routes' = [p \in Panes |-> None] /\ retry' = {} /\ operation' = None
    /\ dirty' = TRUE /\ shown' = None /\ commands' = <<>> /\ events' = <<>>
    /\ leases' = [p \in Panes |-> None] /\ accepted' = None
    /\ UNCHANGED <<federation, saved>>

-----------------------------------------------------------------------------
(* The daemon *)

\* A target's connection and panes, as published to the frontend.
Publish ==
    /\ Turn
    /\ \/ \E t \in Targets : /\ up[t] /\ up' = [up EXCEPT ![t] = FALSE]
                             /\ UNCHANGED <<gen, present, focus>>
       \/ \E t \in Targets : /\ ~up[t]
                             /\ up' = [up EXCEPT ![t] = TRUE] /\ gen' = [gen EXCEPT ![t] = @ + 1]
                             /\ UNCHANGED <<present, focus>>
       \/ \E p \in Panes \ present : /\ up[TargetOf[p]] /\ present' = present \cup {p}
                                     /\ focus' = [focus EXCEPT ![TargetOf[p]] = p]
                                     /\ UNCHANGED <<up, gen>>
       \/ \E p \in present : /\ up[TargetOf[p]] /\ present' = present \ {p}
                             /\ focus' = [focus EXCEPT ![TargetOf[p]] =
                                    IF @ # p THEN @ ELSE IF PanesOf(TargetOf[p]) = {p} THEN None
                                    ELSE CHOOSE q \in PanesOf(TargetOf[p]) : q # p]
                             /\ UNCHANGED <<up, gen>>
    /\ dirty' = TRUE
    /\ UNCHANGED <<choice, routes, retry, operation, shown, commands, events, daemon>>

\* The daemon takes a command: a lease is answered, or the route is closed at once.
TakeCommand ==
    LET c == Head(commands)
        answers(kind, access) == events' = Append(events, [kind |-> kind, pane |-> c.pane, access |-> access])
    IN  /\ commands # <<>> /\ Room(events)
        /\ commands' = Tail(commands)
        /\ \/ /\ c.op = "unsubscribe"
              /\ leases' = [leases EXCEPT ![c.pane] = None] /\ UNCHANGED <<events, accepted>>
           \/ /\ c.op = "subscribe" /\ Live(c.pane)
              /\ \E access \in {"observe", c.access} :
                     /\ leases' = [leases EXCEPT ![c.pane] = [requested |-> c.access, access |-> access]]
                     /\ answers("lease", access)
              /\ UNCHANGED accepted
           \/ /\ c.op = "subscribe" /\ ~Live(c.pane)
              /\ leases' = [leases EXCEPT ![c.pane] = None]
              /\ answers("closed", "observe") /\ UNCHANGED accepted
           \/ /\ c.op = "input"
              /\ accepted' = IF leases[c.pane] # None /\ leases[c.pane].access = "control" THEN c ELSE None
              /\ UNCHANGED <<leases, events>>
        /\ UNCHANGED <<federation, choice, routes, retry, operation, dirty, shown, turns>>

\* Control comes and goes with the other clients.
MoveLease(p) ==
    /\ Turn
    /\ leases[p] # None /\ leases[p].requested = "control" /\ Room(events)
    /\ \E access \in {"control", "observe"} \ {leases[p].access} :
           /\ leases' = [leases EXCEPT ![p].access = access]
           /\ events' = Append(events, [kind |-> "lease", pane |-> p, access |-> access])
    /\ UNCHANGED <<federation, choice, routes, retry, operation, dirty, shown, commands, accepted>>

\* The terminal stream ends.
EndRoute(p) ==
    /\ Turn
    /\ leases[p] # None /\ Room(events)
    /\ leases' = [leases EXCEPT ![p] = None]
    /\ events' = Append(events, [kind |-> "closed", pane |-> p, access |-> "observe"])
    /\ UNCHANGED <<federation, choice, routes, retry, operation, dirty, shown, commands, accepted>>

Receive == PaneLease \/ PaneClosed

Next ==
    \/ Draw \/ CycleNothing \/ Type \/ Operate \/ OperationResult \/ FollowExpires
    \/ Receive \/ RetryDue \/ Restart \/ Publish \/ TakeCommand
    \/ \E p \in Panes : Navigate(p) \/ MoveLease(p) \/ EndRoute(p)

\* The loop draws and receives, the clock ticks, the daemon takes what it is sent.
Fairness ==
    /\ WF_vars(Draw) /\ WF_vars(Receive) /\ WF_vars(TakeCommand) /\ WF_vars(RetryDue)
    /\ WF_vars(OperationResult) /\ WF_vars(FollowExpires)

Spec == Init /\ [][Next]_vars /\ Fairness

-----------------------------------------------------------------------------
\* Whatever disconnects, vanishes, appears or is drawn between a choice and a
\* key, the bytes a pane is given were typed for that pane: it is the one last
\* chosen and the one the frame on screen showed as selected.
AcceptedWasMeant ==
    accepted # None => accepted.pane = accepted.meant /\ accepted.pane = accepted.shown

\* With nothing under way, a route of the frontend is a lease of the daemon's,
\* with the access the frontend believes it has, however subscriptions,
\* leases and closings crossed on the way.
RoutesAreLeases ==
    commands = <<>> /\ events = <<>> =>
        \A p \in Panes : routes[p] # None =>
            leases[p] # None /\ leases[p].access = routes[p].access

\* What the person types goes where it was meant to go, and what the daemon lets the frontend
\* control is what it knows it controls (reconcile_selection, ensure_routes, close_route).
TypedWhereMeant == AcceptedWasMeant /\ RoutesAreLeases

-----------------------------------------------------------------------------
(* Statements of the repository that the code does not keep *)

\* "Fall through rather than leave the frontend with nothing selected": a
\* followed focus is adopted or given up.
FollowEnds == followed # None ~> followed = None

\* A subscription the frontend no longer has a route for is released.
LeasesAreRoutes ==
    commands = <<>> /\ events = <<>> /\ ~dirty /\ retry = {} =>
        \A p \in Panes : leases[p] # None => routes[p] # None
=============================================================================
