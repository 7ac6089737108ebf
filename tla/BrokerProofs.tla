---------------------------- MODULE BrokerProofs ----------------------------
(***************************************************************************)
(* Theorems about Broker.tla, for every set of clients, panes, targets and *)
(* sizes and every limit, about DaemonRoutes.tla: what holds of the broker *)
(* survives in the daemon that performs its effects one by one, and the    *)
(* stream that runs for a route is the one the broker believes in; and     *)
(* about DaemonLife.tla: the socket's path leads to the daemon that        *)
(* listens, whatever crashed and left its socket behind.                   *)
(***************************************************************************)
EXTENDS DaemonRoutes, DaemonLife, FiniteSetTheorems, SequenceTheorems, TLAPS

-----------------------------------------------------------------------------
(* The types of what the handlers build *)

\* resize_for_control, release_pane and subscribe_pane leave a Route behind.
LEMMA ReleasedRouteType ==
    ASSUME TypeOK, NEW c \in ClientId, NEW p \in Pane, routes[p] # None
    PROVE  ReleasedRoute(c, p) \in Route
<1>1. routes[p] \in Route
  BY DEF TypeOK
<1> QED
  BY <1>1 DEF ReleasedRoute, Route

\* subscribe_pane leaves a Route behind.
LEMMA SubscribedRouteType ==
    ASSUME TypeOK, NEW c \in ClientId, NEW p \in Pane,
           NEW access \in Access, NEW size \in Size
    PROVE  SubscribedRoute(c, p, access, size) \in Route
<1>1. CASE routes[p] = None
  BY <1>1, BrokerConstants DEF SubscribedRoute, Route
<1>2. CASE routes[p] # None
  <2>1. routes[p] \in Route
    BY <1>2 DEF TypeOK
  <2> QED
    BY <1>2, <2>1 DEF SubscribedRoute, Route
<1> QED
  BY <1>1, <1>2

\* Queueing an update keeps a PaneSubscription one.
LEMMA QueuedType ==
    ASSUME NEW sub \in PaneSubscription, NEW n \in Nat
    PROVE  Queued(sub, n) \in PaneSubscription
<1>1. Append(sub.outstanding, n) \in Seq(Nat)
  BY DEF PaneSubscription
<1> QED
  BY <1>1 DEF Queued, PaneSubscription

\* What update_for compares with is a screen.
LEMMA LastScreenType ==
    ASSUME TypeOK, NEW p \in Pane, NEW size \in Size
    PROVE  LastScreen(p, size) \in Screen
BY NoneIsAbsent, BrokerConstants DEF TypeOK, LastScreen, Screen, Content

\* A rendered frame makes a screen of a screen.
LEMMA AdvancedType ==
    ASSUME TypeOK, NEW p \in Pane, NEW size \in Size, NEW content \in Content
    PROVE  Advanced(p, size, content) \in Screen
BY LastScreenType DEF Advanced, Screen

\* What a viewer holds after an update is a screen, or nothing.
LEMMA UpdateForType ==
    ASSUME TypeOK, NEW c \in ClientId, NEW p \in Pane, NEW screen \in Screen
    PROVE  UpdateFor(c, p, screen) \in Screen \cup {None}
<1> DEFINE last == LastScreen(p, screen.size)
           diff == DiffBetween(last, screen)
<1>1. last \in Screen
  BY LastScreenType DEF Screen
<1>2. viewer[c][p] \in Screen \cup {None}
  BY DEF TypeOK
<1>3. ASSUME NEW d, d = diff, d # None
      PROVE  ApplyDiff(viewer[c][p], d) \in Screen \cup {None}
  <2>1. d = [follows |-> last.sequence, sequence |-> screen.sequence,
             rows |-> [r \in {i \in Row : last.content[i] # screen.content[i]}
                           |-> screen.content[r]]]
    BY <1>3 DEF DiffBetween
  <2> HIDE DEF last, diff
  <2>2. CASE viewer[c][p] # None
    <3>1. viewer[c][p] \in Screen
      BY <1>2, <2>2
    <3>2. [r \in Row |-> IF r \in DOMAIN d.rows THEN d.rows[r]
                         ELSE viewer[c][p].content[r]] \in Content
      BY <2>1, <3>1 DEF Screen, Content
    <3>3. d.sequence \in Nat
      BY <2>1 DEF Screen
    <3> QED
      BY <3>1, <3>2, <3>3 DEF ApplyDiff, Screen
  <2>3. CASE viewer[c][p] = None
    BY <2>3 DEF ApplyDiff
  <2> QED
    BY <2>2, <2>3
<1> QED
  BY <1>3 DEF UpdateFor

\* A queue as the handlers keep it: ascending sequences.
Ascending(queue) ==
    \A i, j \in 1..Len(queue) : i < j => queue[i] < queue[j]

\* An acknowledgement of the i-th sequence of an ascending queue settles
\* exactly the first i.
LEMMA UnsettledIs ==
    ASSUME NEW queue \in Seq(Nat), Ascending(queue),
           NEW i \in 1..Len(queue)
    PROVE  Unsettled(queue, queue[i]) = SubSeq(queue, i + 1, Len(queue))
<1> DEFINE Settles(k) == /\ \A j \in 1..k : queue[j] <= queue[i]
                         /\ k < Len(queue) => queue[k + 1] > queue[i]
<1>1. Settles(i)
  BY DEF Ascending
<1>2. ASSUME NEW k \in 1..Len(queue), Settles(k)
      PROVE  k = i
  <2>1. CASE k < i
    <3>1. k + 1 \in 1..Len(queue) /\ k + 1 <= i
      BY <2>1
    <3>2. queue[k + 1] <= queue[i]
      BY <3>1 DEF Ascending
    <3>3. queue[k + 1] > queue[i]
      BY <1>2, <2>1
    <3> QED
      BY <3>1, <3>2, <3>3
  <2>2. CASE k > i
    BY <1>2, <2>2 DEF Ascending
  <2> QED
    BY <2>1, <2>2
<1>3. (CHOOSE k \in 1..Len(queue) : Settles(k)) = i
  BY <1>1, <1>2
<1> QED
  BY <1>3 DEF Unsettled

\* What stays queued after the first i were settled.
LEMMA RestOfQueue ==
    ASSUME NEW queue \in Seq(Nat), Ascending(queue), NEW i \in 1..Len(queue)
    PROVE  LET rest == SubSeq(queue, i + 1, Len(queue))
           IN  /\ rest \in Seq(Nat)
               /\ Len(rest) = Len(queue) - i
               /\ Ascending(rest)
               /\ Len(rest) > 0 => rest[Len(rest)] = queue[Len(queue)]
BY DEF Ascending

-----------------------------------------------------------------------------
(* One step of the broker, with its parameters named *)

\* A handler call.  The daemon closes the routes of any set of panes
\* (pane_route_closed in a loop, when their targets' definitions changed),
\* which Next alone does not do.
Step == Next \/ \E Q \in SUBSET Pane : CloseRoutes(Q)

\* What the broker keeps, without the effects it hands out.
kept == <<session, subs, routes, screens, told, viewer>>

\* A handler call or a step beside the broker: an effect is performed, or
\* nothing happens.
StepOrKept == Step \/ UNCHANGED kept

\* Every step of the broker on its own is one or the other.
LEMMA NextIsStep == [Next]_vars => StepOrKept
BY DEF Step, StepOrKept, kept, vars

\* Every handler call is one of these.
LEMMA StepCases ==
    ASSUME Step, NEW P,
           \A c \in ClientId : Connect(c) => P,
           \A c \in ClientId : Hello(c) => P,
           \A c \in ClientId : Disconnect(c) => P,
           \A c \in ClientId, p \in Pane : UnsubscribePane(c, p) => P,
           \A c \in ClientId, p \in Pane, access \in Access, size \in Size,
              repr \in Representation : SubscribePane(c, p, access, size, repr) => P,
           \A c \in ClientId, p \in Pane, free \in BOOLEAN : TakeControl(c, p, free) => P,
           \A c \in ClientId, p \in Pane : TakeControlRefused(c, p) => P,
           \A c \in ClientId, p \in Pane : PaneInput(c, p) => P,
           \A c \in ClientId, p \in Pane, size \in Size : PaneResize(c, p, size) => P,
           \A c \in ClientId, p \in Pane, n \in 0..MaxSequence : AckPaneScreen(c, p, n) => P,
           \A p \in Pane, size \in Size, content \in Content :
              PaneFrame(p, size, content) => P,
           \A p \in Pane : CloseIfUnclaimed(p) => P,
           \A p \in Pane : RouteDowngraded(p) => P,
           \A Q \in SUBSET Pane : CloseRoutes(Q) => P
    PROVE  P
<1>1. CASE DaemonStep
  <2>1. ASSUME NEW view \in [Target -> TargetView], FederationUpdated(view)
        PROVE  P
    BY <2>1 DEF FederationUpdated
  <2>2. ASSUME NEW p \in Pane, PaneRouteClosed(p)
        PROVE  P
    BY <2>2 DEF PaneRouteClosed
  <2> QED
    BY <1>1, <2>1, <2>2 DEF DaemonStep
<1>2. CASE \E c \in ClientId : ClientStep(c)
  BY <1>2 DEF ClientStep
<1> QED
  BY <1>1, <1>2 DEF Step, Next

-----------------------------------------------------------------------------
(* What the handlers of rendered screens do to subscriptions *)

\* Queueing an update, field by field.
LEMMA QueuedFields ==
    ASSUME NEW sub \in PaneSubscription, NEW n \in Nat
    PROVE  /\ Queued(sub, n).representation = sub.representation
           /\ Queued(sub, n).size = sub.size
           /\ Queued(sub, n).sent = n
           /\ Queued(sub, n).outstanding = Append(sub.outstanding, n)
BY DEF Queued, PaneSubscription

\* ack_pane_screen: the queue loses a prefix, and gains the newest screen if
\* the viewer was behind it.
LEMMA AckEffect ==
    ASSUME TypeOK, QueueInSequenceSpace, NEW c \in ClientId, NEW p \in Pane,
           NEW n \in 0..MaxSequence, AckPaneScreen(c, p, n)
    PROVE  \E after \in PaneSubscription, rest \in Seq(Nat) :
             LET sub == subs[c][p]
                 behind == screens[p] # None /\ sub.sent # screens[p].sequence
             IN  /\ subs' = [subs EXCEPT ![c][p] = after]
                 /\ sub \in PaneSubscription
                 /\ after.representation = sub.representation
                 /\ Ascending(rest)
                 /\ Len(rest) < Len(sub.outstanding)
                 /\ Len(rest) > 0 =>
                       rest[Len(rest)] = sub.outstanding[Len(sub.outstanding)]
                 /\ ~behind => /\ after.sent = sub.sent
                               /\ after.outstanding = rest
                               /\ viewer' = viewer
                 /\ behind => /\ after.sent = screens[p].sequence
                              /\ after.outstanding = Append(rest, screens[p].sequence)
                              /\ viewer' = [viewer EXCEPT ![c][p] = screens[p]]
<1> DEFINE sub == subs[c][p]
           queue == sub.outstanding
           settled == [sub EXCEPT !.outstanding = Unsettled(queue, n)]
           full == Len(settled.outstanding) < MaxOutstanding
           behind == screens[p] # None /\ sub.sent # screens[p].sequence
           after == IF behind THEN Queued(settled, screens[p].sequence) ELSE settled
<1>1. sub \in PaneSubscription /\ queue \in Seq(Nat)
  BY DEF TypeOK, AckPaneScreen, PaneSubscription
<1>2. PICK i \in 1..Len(queue) : queue[i] = n
  BY DEF AckPaneScreen
<1>3. Ascending(queue) /\ Len(queue) <= MaxOutstanding
  BY DEF QueueInSequenceSpace, Ascending, AckPaneScreen
<1> DEFINE rest == SubSeq(queue, i + 1, Len(queue))
<1>4. Unsettled(queue, n) = rest
  BY <1>1, <1>2, <1>3, UnsettledIs
<1>5. /\ rest \in Seq(Nat)
      /\ Len(rest) = Len(queue) - i
      /\ Ascending(rest)
      /\ Len(rest) > 0 => rest[Len(rest)] = queue[Len(queue)]
  BY <1>1, <1>2, <1>3, RestOfQueue
<1>6. /\ settled \in PaneSubscription
      /\ settled.outstanding = rest
      /\ settled.sent = sub.sent
      /\ settled.representation = sub.representation
  BY <1>1, <1>4, <1>5 DEF PaneSubscription
<1>7. Len(settled.outstanding) < MaxOutstanding
  BY <1>1, <1>3, <1>5, <1>6, BrokerConstants
<1>8. screens[p] # None => screens[p].sequence \in Nat
  BY DEF TypeOK, Screen
<1>9. after \in PaneSubscription
  BY <1>6, <1>8, QueuedType
<1>10. /\ subs' = [subs EXCEPT ![c][p] =
                     IF behind /\ full THEN Queued(settled, screens[p].sequence)
                                       ELSE settled]
       /\ viewer' = IF behind /\ full THEN [viewer EXCEPT ![c][p] = screens[p]]
                                      ELSE viewer
  BY Zenon DEF AckPaneScreen
<1>11. /\ subs' = [subs EXCEPT ![c][p] = after]
       /\ viewer' = IF behind THEN [viewer EXCEPT ![c][p] = screens[p]] ELSE viewer
  BY <1>7, <1>10
<1>12. /\ after.representation = sub.representation
       /\ ~behind => after.sent = sub.sent /\ after.outstanding = rest
       /\ behind => /\ after.sent = screens[p].sequence
                    /\ after.outstanding = Append(rest, screens[p].sequence)
  BY <1>6, <1>8, QueuedFields, ZenonT(40)
<1>13. Len(rest) < Len(queue)
  BY <1>1, <1>5
<1> HIDE DEF after, rest, settled
<1> QED
  BY <1>1, <1>5, <1>9, <1>11, <1>12, <1>13

\* pane_frame and render_for: a viewer that is sent the screen has it queued,
\* everyone else's subscription stays.
LEMMA FrameEffect ==
    ASSUME TypeOK, NEW p \in Pane, NEW size \in Size, NEW content \in Content,
           PaneFrame(p, size, content), ScreenWatchers(p) # {}
    PROVE  LET screen == Advanced(p, size, content)
               sentTo == {c \in ScreenWatchers(p) : IsSent(c, p, screen)}
           IN  /\ screen \in Screen
               /\ screens' = [screens EXCEPT ![p] = screen]
               /\ \A c \in ClientId, q \in Pane :
                     IF q = p /\ c \in sentTo
                     THEN /\ subs[c][p] \in PaneSubscription
                          /\ subs'[c][p] = Queued(subs[c][p], screen.sequence)
                          /\ subs'[c][p] \in PaneSubscription
                          /\ viewer'[c][p] = UpdateFor(c, p, screen)
                     ELSE subs'[c][q] = subs[c][q] /\ viewer'[c][q] = viewer[c][q]
<1> DEFINE screen == Advanced(p, size, content)
           sentTo == {c \in ScreenWatchers(p) : IsSent(c, p, screen)}
<1>1. screen \in Screen /\ screen.sequence \in Nat
  BY AdvancedType DEF Screen
<1>2. ASSUME NEW c \in ClientId, c \in sentTo
      PROVE  /\ subs[c][p] \in PaneSubscription
             /\ Queued(subs[c][p], screen.sequence) \in PaneSubscription
  BY <1>1, <1>2, QueuedType DEF ScreenWatchers, Watches, TypeOK
<1>3. /\ screens' = [screens EXCEPT ![p] = screen]
      /\ subs' = [c \in ClientId |-> IF c \in sentTo
                    THEN [subs[c] EXCEPT ![p] = Queued(@, screen.sequence)]
                    ELSE subs[c]]
      /\ viewer' = [c \in ClientId |-> IF c \in sentTo
                    THEN [viewer[c] EXCEPT ![p] = UpdateFor(c, p, screen)]
                    ELSE viewer[c]]
  BY DEF PaneFrame
<1> HIDE DEF screen, sentTo
<1>4. \A c \in ClientId, q \in Pane :
        IF q = p /\ c \in sentTo
        THEN /\ subs[c][p] \in PaneSubscription
             /\ subs'[c][p] = Queued(subs[c][p], screen.sequence)
             /\ subs'[c][p] \in PaneSubscription
             /\ viewer'[c][p] = UpdateFor(c, p, screen)
        ELSE subs'[c][q] = subs[c][q] /\ viewer'[c][q] = viewer[c][q]
  BY <1>2, <1>3 DEF TypeOK
<1> QED
  BY <1>1, <1>3, <1>4 DEF screen, sentTo

\* Neither an acknowledgement nor a frame starts or ends a subscription.
LEMMA AckKeepsSubscription ==
    ASSUME TypeOK, QueueInSequenceSpace, NEW c \in ClientId, NEW p \in Pane,
           NEW n \in 0..MaxSequence, AckPaneScreen(c, p, n)
    PROVE  \A d \in ClientId, q \in Pane : subs'[d][q] # None <=> subs[d][q] # None
<1>1. PICK after \in PaneSubscription : subs' = [subs EXCEPT ![c][p] = after]
  BY AckEffect
<1>2. subs[c][p] # None
  BY DEF AckPaneScreen
<1> QED
  BY <1>1, <1>2, NoneIsAbsent DEF TypeOK

\* A frame neither starts nor ends a subscription.
LEMMA FrameKeepsSubscriptions ==
    ASSUME TypeOK, NEW p \in Pane, NEW size \in Size, NEW content \in Content,
           PaneFrame(p, size, content)
    PROVE  \A d \in ClientId, q \in Pane : subs'[d][q] # None <=> subs[d][q] # None
<1>1. CASE ScreenWatchers(p) = {}
  BY <1>1 DEF PaneFrame
<1>2. CASE ScreenWatchers(p) # {}
  BY <1>2, FrameEffect, NoneIsAbsent
<1> QED
  BY <1>1, <1>2

\* Nor does a resize of the pane.
LEMMA ResizeKeepsSubscriptions ==
    ASSUME TypeOK, NEW c \in ClientId, NEW p \in Pane, NEW size \in Size,
           PaneResize(c, p, size)
    PROVE  \A d \in ClientId, q \in Pane : subs'[d][q] # None <=> subs[d][q] # None
<1>1. ASSUME subs[c][p] # None
      PROVE  [subs[c][p] EXCEPT !.size = size] \in PaneSubscription
  <2>1. subs[c][p] \in PaneSubscription
    BY <1>1 DEF TypeOK
  <2> QED
    BY <2>1 DEF PaneSubscription
<1> QED
  BY <1>1, NoneIsAbsent DEF PaneResize, TypeOK

\* A client that subscribes is subscribed.
LEMMA SubscribedIsPresent ==
    ASSUME TypeOK, NEW c \in ClientId, NEW p \in Pane, NEW access \in Access,
           NEW size \in Size, NEW repr \in Representation,
           SubscribePane(c, p, access, size, repr)
    PROVE  subs'[c][p] # None
<1> DEFINE fresh == [size |-> size, representation |-> repr,
                     sent |-> None, outstanding |-> <<>>]
<1>1. fresh \in PaneSubscription
  BY BrokerConstants DEF PaneSubscription
<1>2. screens[p] # None => Queued(fresh, screens[p].sequence) \in PaneSubscription
  BY <1>1, QueuedType DEF TypeOK, Screen
<1> HIDE DEF fresh
<1> QED
  BY <1>1, <1>2, NoneIsAbsent DEF SubscribePane, TypeOK, fresh

\* Replacing one route leaves the others alone.
LEMMA RouteUpdate ==
    ASSUME TypeOK, NEW p \in Pane, NEW route \in Route,
           routes' = [routes EXCEPT ![p] = route]
    PROVE  /\ routes'[p] = route
           /\ routes'[p] # None
           /\ \A q \in Pane : q # p => routes'[q] = routes[q]
BY NoneIsAbsent DEF TypeOK

-----------------------------------------------------------------------------
(* Types *)

\* release_pane leaves everything it touches well typed.
LEMMA ReleaseType ==
    ASSUME TypeOK, NEW c \in ClientId, NEW P \in SUBSET Pane, Release(c, P)
    PROVE  /\ subs' \in [ClientId -> [Pane -> PaneSubscription \cup {None}]]
           /\ routes' \in [Pane -> Route \cup {None}]
           /\ screens' \in [Pane -> Screen \cup {None}]
           /\ told' \in [ClientId -> [Pane -> {"nothing", "observe", "control", "closed"}]]
           /\ viewer' \in [ClientId -> [Pane -> Screen \cup {None}]]
BY ReleasedRouteType DEF TypeOK, Release

\* Every handler of the broker preserves the types of its state.
LEMMA TypeStep ==
    ASSUME TypeOK, QueueInSequenceSpace, Step
    PROVE  TypeOK'
<1>1. ASSUME NEW c \in ClientId, Connect(c) \/ Hello(c)
      PROVE  TypeOK'
  BY <1>1 DEF TypeOK, Connect, Hello
<1>2. ASSUME NEW c \in ClientId, Disconnect(c)
      PROVE  TypeOK'
  <2>1. {p \in Pane : subs[c][p] # None} \in SUBSET Pane
    OBVIOUS
  <2> QED
    BY <1>2, <2>1, ReleaseType DEF TypeOK, Disconnect
<1>3. ASSUME NEW c \in ClientId, NEW p \in Pane, UnsubscribePane(c, p)
      PROVE  TypeOK'
  BY <1>3, ReleaseType DEF TypeOK, UnsubscribePane
<1>4. ASSUME NEW c \in ClientId, NEW p \in Pane, NEW access \in Access,
             NEW size \in Size, NEW repr \in Representation,
             SubscribePane(c, p, access, size, repr)
      PROVE  TypeOK'
  <2> DEFINE fresh == [size |-> size, representation |-> repr,
                       sent |-> None, outstanding |-> <<>>]
  <2>1. fresh \in PaneSubscription
    BY BrokerConstants DEF PaneSubscription
  <2>2. screens[p] # None => screens[p] \in Screen /\ screens[p].sequence \in Nat
    BY DEF TypeOK, Screen
  <2>3. screens[p] # None => Queued(fresh, screens[p].sequence) \in PaneSubscription
    BY <2>1, <2>2, QueuedType
  <2>4. SubscribedRoute(c, p, access, size) \in Route
    BY SubscribedRouteType
  <2>5. Lease(SubscribedRoute(c, p, access, size), c) \in {"observe", "control"}
    BY DEF Lease
  <2> QED
    BY <1>4, <2>1, <2>2, <2>3, <2>4, <2>5 DEF TypeOK, SubscribePane
<1>5. ASSUME NEW c \in ClientId, NEW p \in Pane, NEW free \in BOOLEAN,
             TakeControl(c, p, free)
      PROVE  TypeOK'
  <2>1. routes[p] \in Route /\ subs[c][p] \in PaneSubscription
    BY <1>5 DEF TypeOK, TakeControl
  <2>2. [routes[p] EXCEPT !.control = c, !.size = subs[c][p].size,
                          !.access = "control"] \in Route
    BY <2>1 DEF Route, PaneSubscription
  <2> QED
    BY <1>5, <2>2 DEF TypeOK, TakeControl
<1>6. ASSUME NEW c \in ClientId, NEW p \in Pane,
             TakeControlRefused(c, p) \/ PaneInput(c, p)
      PROVE  TypeOK'
  <2>1. CASE TakeControlRefused(c, p)
    BY <2>1 DEF TypeOK, TakeControlRefused
  <2>2. CASE PaneInput(c, p)
    BY <2>2 DEF TypeOK, PaneInput
  <2> QED
    BY <1>6, <2>1, <2>2
<1>7. ASSUME NEW c \in ClientId, NEW p \in Pane, NEW size \in Size,
             PaneResize(c, p, size)
      PROVE  TypeOK'
  <2>1. routes[p] \in Route
    BY <1>7 DEF TypeOK, PaneResize, HoldsControl
  <2>2. [routes[p] EXCEPT !.size = size] \in Route
    BY <2>1 DEF Route
  <2>3. ASSUME subs[c][p] # None
        PROVE  [subs[c][p] EXCEPT !.size = size] \in PaneSubscription
    <3>1. subs[c][p] \in PaneSubscription
      BY <2>3 DEF TypeOK
    <3> QED
      BY <3>1 DEF PaneSubscription
  <2> QED
    BY <1>7, <2>2, <2>3 DEF TypeOK, PaneResize
<1>8. ASSUME NEW c \in ClientId, NEW p \in Pane, NEW n \in 0..MaxSequence,
             AckPaneScreen(c, p, n)
      PROVE  TypeOK'
  <2>1. PICK after \in PaneSubscription : subs' = [subs EXCEPT ![c][p] = after]
    BY <1>8, AckEffect
  <2>2. subs' \in [ClientId -> [Pane -> PaneSubscription \cup {None}]]
    BY <2>1 DEF TypeOK
  <2>3. viewer' \in [ClientId -> [Pane -> Screen \cup {None}]]
    BY <1>8 DEF TypeOK, AckPaneScreen
  <2> QED
    BY <1>8, <2>2, <2>3 DEF TypeOK, AckPaneScreen
<1>9. ASSUME NEW p \in Pane, NEW size \in Size, NEW content \in Content,
             PaneFrame(p, size, content)
      PROVE  TypeOK'
  <2>1. CASE ScreenWatchers(p) = {}
    BY <1>9, <2>1 DEF TypeOK, PaneFrame
  <2>2. CASE ScreenWatchers(p) # {}
    <3> DEFINE screen == Advanced(p, size, content)
               sentTo == {c \in ScreenWatchers(p) : IsSent(c, p, screen)}
    <3>1. /\ screen \in Screen /\ screen.sequence \in Nat
          /\ screens' = [screens EXCEPT ![p] = screen]
      BY <1>9, <2>2, FrameEffect DEF Screen
    <3>2. ASSUME NEW c \in ClientId, c \in sentTo
          PROVE  /\ Queued(subs[c][p], screen.sequence) \in PaneSubscription
                 /\ UpdateFor(c, p, screen) \in Screen \cup {None}
      BY <3>1, <3>2, QueuedType, UpdateForType DEF ScreenWatchers, Watches, TypeOK
    <3>3. /\ subs' = [c \in ClientId |-> IF c \in sentTo
                        THEN [subs[c] EXCEPT ![p] = Queued(@, screen.sequence)]
                        ELSE subs[c]]
          /\ viewer' = [c \in ClientId |-> IF c \in sentTo
                        THEN [viewer[c] EXCEPT ![p] = UpdateFor(c, p, screen)]
                        ELSE viewer[c]]
      BY <1>9, <2>2 DEF PaneFrame
    <3> HIDE DEF sentTo, screen
    <3>4. subs' \in [ClientId -> [Pane -> PaneSubscription \cup {None}]]
      BY <3>2, <3>3 DEF TypeOK
    <3>5. viewer' \in [ClientId -> [Pane -> Screen \cup {None}]]
      BY <3>2, <3>3 DEF TypeOK
    <3> QED
      BY <1>9, <3>1, <3>4, <3>5 DEF TypeOK, PaneFrame
  <2> QED
    BY <2>1, <2>2
<1>10. ASSUME NEW p \in Pane, CloseIfUnclaimed(p)
       PROVE  TypeOK'
  BY <1>10 DEF TypeOK, CloseIfUnclaimed
<1>11. ASSUME NEW p \in Pane, RouteDowngraded(p)
       PROVE  TypeOK'
  <2>1. [routes[p] EXCEPT !.access = "observe", !.control = None] \in Route
    BY <1>11 DEF TypeOK, RouteDowngraded, Route
  <2> QED
    BY <1>11, <2>1 DEF TypeOK, RouteDowngraded
<1>12. ASSUME NEW Q \in SUBSET Pane, CloseRoutes(Q)
       PROVE  TypeOK'
  BY <1>12 DEF TypeOK, CloseRoutes
<1> QED
  BY <1>1, <1>2, <1>3, <1>4, <1>5, <1>6, <1>7, <1>8, <1>9, <1>10, <1>11, <1>12,
     StepCases

-----------------------------------------------------------------------------
(* The two records of who watches a pane *)

\* release_pane keeps the records in step, for any panes the client watches.
LEMMA ReleaseAgrees ==
    ASSUME TypeOK, RoutesAgree, NEW c \in ClientId, NEW P \in SUBSET Pane,
           Release(c, P)
    PROVE  /\ \A d \in ClientId, p \in Pane :
                /\ subs'[d][p] = IF d = c /\ p \in P THEN None ELSE subs[d][p]
                /\ subs'[d][p] # None <=> d \in Subscribers(p)'
           /\ \A p \in Pane : routes'[p] # None =>
                /\ routes'[p].control # None => routes'[p].control \in routes'[p].subscribers
                /\ routes'[p].unclaimed <=> routes'[p].subscribers = {}
<1> USE NoneIsAbsent
<1>1. \A d \in ClientId, p \in Pane :
          subs'[d][p] = IF d = c /\ p \in P THEN None ELSE subs[d][p]
  BY DEF TypeOK, Release
<1>2. ASSUME NEW p \in Pane, p \in P, routes[p] # None
      PROVE  /\ routes'[p] # None
             /\ routes'[p].subscribers = routes[p].subscribers \ {c}
             /\ routes'[p].control \in {None, routes[p].control} \ {c}
             /\ routes'[p].subscribers = {} => routes'[p].unclaimed
             /\ routes'[p].subscribers = {} => routes'[p].control = None
             /\ routes'[p].subscribers # {} => routes'[p].unclaimed = routes[p].unclaimed
  <2>1. routes'[p] = ReleasedRoute(c, p)
    BY <1>2 DEF Release
  <2>2. routes[p] \in Route
    BY <1>2 DEF TypeOK
  <2>3. ReleasedRoute(c, p) \in Route
    BY <1>2, ReleasedRouteType
  <2> QED
    BY <2>1, <2>2, <2>3 DEF ReleasedRoute, Route
<1>3. ASSUME NEW p \in Pane, ~(p \in P /\ routes[p] # None)
      PROVE  routes'[p] = routes[p]
  BY <1>3 DEF Release
<1>4. \A d \in ClientId, p \in Pane : subs'[d][p] # None <=> d \in Subscribers(p)'
  BY <1>1, <1>2, <1>3 DEF RoutesAgree, Subscribers
<1>5. ASSUME NEW p \in Pane, routes'[p] # None
      PROVE  /\ routes'[p].control # None => routes'[p].control \in routes'[p].subscribers
             /\ routes'[p].unclaimed <=> routes'[p].subscribers = {}
  BY <1>2, <1>3, <1>5 DEF RoutesAgree
<1> QED
  BY <1>1, <1>4, <1>5

\* Every handler keeps Client.panes and Route.subscribers in step.
LEMMA AgreeStep ==
    ASSUME TypeOK, QueueInSequenceSpace, RoutesAgree, Step
    PROVE  RoutesAgree'
<1> USE NoneIsAbsent
<1>1. ASSUME NEW c \in ClientId, Connect(c) \/ Hello(c)
      PROVE  RoutesAgree'
  BY <1>1 DEF TypeOK, Connect, Hello, RoutesAgree, Subscribers
<1>2. ASSUME NEW c \in ClientId, Disconnect(c)
      PROVE  RoutesAgree'
  <2>1. Release(c, {p \in Pane : subs[c][p] # None})
    BY <1>2 DEF Disconnect
  <2>2. \A d \in ClientId : d # c => session'[d] = session[d]
    BY <1>2 DEF Disconnect, TypeOK
  <2> QED
    BY <2>1, <2>2, ReleaseAgrees DEF RoutesAgree
<1>3. ASSUME NEW c \in ClientId, NEW p \in Pane, UnsubscribePane(c, p)
      PROVE  RoutesAgree'
  <2>1. Release(c, {p}) /\ session' = session
    BY <1>3 DEF UnsubscribePane
  <2> QED
    BY <2>1, ReleaseAgrees DEF RoutesAgree
<1>4. ASSUME NEW c \in ClientId, NEW p \in Pane, NEW access \in Access,
             NEW size \in Size, NEW repr \in Representation,
             SubscribePane(c, p, access, size, repr)
      PROVE  RoutesAgree'
  <2>1. /\ subs'[c][p] # None
        /\ \A d \in ClientId, q \in Pane : (d # c \/ q # p) => subs'[d][q] = subs[d][q]
    BY <1>4, SubscribedIsPresent DEF SubscribePane, TypeOK
  <2>2. routes' = [routes EXCEPT ![p] = SubscribedRoute(c, p, access, size)]
    BY <1>4 DEF SubscribePane
  <2>3. SubscribedRoute(c, p, access, size) \in Route
    BY SubscribedRouteType
  <2>4. LET r == SubscribedRoute(c, p, access, size)
        IN  /\ r.subscribers = Subscribers(p) \cup {c}
            /\ r.control \in {None, c} \cup (IF routes[p] = None THEN {} ELSE {routes[p].control})
            /\ r.unclaimed = FALSE
    <3>1. CASE routes[p] = None
      BY <3>1 DEF SubscribedRoute, Subscribers
    <3>2. CASE routes[p] # None
      <4>1. routes[p] \in Route
        BY <3>2 DEF TypeOK
      <4> QED
        BY <3>2, <4>1 DEF SubscribedRoute, Subscribers, Route
    <3> QED
      BY <3>1, <3>2
  <2>5. session' = session /\ session[c] = "greeted"
    BY <1>4 DEF SubscribePane
  <2> QED
    BY <2>1, <2>2, <2>3, <2>4, <2>5 DEF RoutesAgree, Subscribers, TypeOK
<1>5. ASSUME NEW c \in ClientId, NEW p \in Pane, NEW free \in BOOLEAN,
             TakeControl(c, p, free)
      PROVE  RoutesAgree'
  <2>1. routes[p] \in Route
    BY <1>5 DEF TypeOK, TakeControl
  <2>2. /\ routes'[p] # None
        /\ routes'[p].subscribers = routes[p].subscribers
        /\ routes'[p].unclaimed = routes[p].unclaimed
        /\ routes'[p].control = c
        /\ \A q \in Pane : q # p => routes'[q] = routes[q]
    <3> DEFINE new == [routes[p] EXCEPT !.control = c, !.size = subs[c][p].size,
                                        !.access = "control"]
    <3>1. subs[c][p] \in PaneSubscription
      BY <1>5 DEF TypeOK, TakeControl
    <3>2. /\ new \in Route
          /\ new.subscribers = routes[p].subscribers
          /\ new.unclaimed = routes[p].unclaimed
          /\ new.control = c
      BY <2>1, <3>1 DEF Route, PaneSubscription
    <3>3. routes' = [routes EXCEPT ![p] = new]
      BY <1>5 DEF TakeControl
    <3> HIDE DEF new
    <3> QED
      BY <3>2, <3>3, RouteUpdate
  <2>3. c \in routes[p].subscribers
    BY <1>5 DEF TakeControl, RoutesAgree, Subscribers
  <2>4. subs' = subs /\ session' = session /\ routes[p] # None
    BY <1>5 DEF TakeControl
  <2>5. ASSUME NEW q \in Pane
        PROVE  Subscribers(q)' = Subscribers(q)
    <3>1. CASE q = p
      BY <3>1, <2>2, <2>4 DEF Subscribers
    <3>2. CASE q # p
      BY <3>2, <2>2 DEF Subscribers
    <3> QED
      BY <3>1, <3>2
  <2>6. ASSUME NEW q \in Pane, routes'[q] # None
        PROVE  /\ routes'[q].control # None => routes'[q].control \in routes'[q].subscribers
               /\ routes'[q].unclaimed <=> routes'[q].subscribers = {}
    <3>1. CASE q = p
      BY <3>1, <2>2, <2>3, <2>4 DEF RoutesAgree
    <3>2. CASE q # p
      BY <3>2, <2>2, <2>6 DEF RoutesAgree
    <3> QED
      BY <3>1, <3>2
  <2> QED
    BY <2>4, <2>5, <2>6 DEF RoutesAgree
<1>6. ASSUME NEW c \in ClientId, NEW p \in Pane,
             TakeControlRefused(c, p) \/ PaneInput(c, p)
      PROVE  RoutesAgree'
  BY <1>6 DEF TakeControlRefused, PaneInput, RoutesAgree, Subscribers
<1>7. ASSUME NEW c \in ClientId, NEW p \in Pane, NEW size \in Size,
             PaneResize(c, p, size)
      PROVE  RoutesAgree'
  <2>1. routes[p] \in Route
    BY <1>7 DEF TypeOK, PaneResize, HoldsControl
  <2>2. /\ routes'[p] # None
        /\ routes'[p].subscribers = routes[p].subscribers
        /\ routes'[p].unclaimed = routes[p].unclaimed
        /\ routes'[p].control = routes[p].control
        /\ \A q \in Pane : q # p => routes'[q] = routes[q]
    <3> DEFINE new == [routes[p] EXCEPT !.size = size]
    <3>1. /\ new \in Route
          /\ new.subscribers = routes[p].subscribers
          /\ new.unclaimed = routes[p].unclaimed
          /\ new.control = routes[p].control
      BY <2>1 DEF Route
    <3>2. routes' = [routes EXCEPT ![p] = new]
      BY <1>7 DEF PaneResize
    <3> HIDE DEF new
    <3> QED
      BY <3>1, <3>2, RouteUpdate
  <2>3. \A d \in ClientId, q \in Pane : subs'[d][q] # None <=> subs[d][q] # None
    BY <1>7, ResizeKeepsSubscriptions
  <2> QED
    BY <1>7, <2>1, <2>2, <2>3 DEF RoutesAgree, Subscribers, PaneResize
<1>8. ASSUME NEW c \in ClientId, NEW p \in Pane, NEW n \in 0..MaxSequence,
             AckPaneScreen(c, p, n)
      PROVE  RoutesAgree'
  <2>1. \A d \in ClientId, q \in Pane : subs'[d][q] # None <=> subs[d][q] # None
    BY <1>8, AckKeepsSubscription
  <2> QED
    BY <1>8, <2>1 DEF RoutesAgree, Subscribers, AckPaneScreen
<1>9. ASSUME NEW p \in Pane, NEW size \in Size, NEW content \in Content,
             PaneFrame(p, size, content)
      PROVE  RoutesAgree'
  <2>1. \A d \in ClientId, q \in Pane : subs'[d][q] # None <=> subs[d][q] # None
    BY <1>9, FrameKeepsSubscriptions
  <2> QED
    BY <1>9, <2>1 DEF RoutesAgree, Subscribers, PaneFrame
<1>10. ASSUME NEW p \in Pane, CloseIfUnclaimed(p)
       PROVE  RoutesAgree'
  BY <1>10 DEF RoutesAgree, Subscribers, CloseIfUnclaimed, TypeOK
<1>11. ASSUME NEW p \in Pane, RouteDowngraded(p)
       PROVE  RoutesAgree'
  <2>1. routes[p] \in Route
    BY <1>11 DEF TypeOK, RouteDowngraded
  <2>2. /\ routes'[p] # None
        /\ routes'[p].subscribers = routes[p].subscribers
        /\ routes'[p].unclaimed = routes[p].unclaimed
        /\ routes'[p].control = None
        /\ \A q \in Pane : q # p => routes'[q] = routes[q]
    <3> DEFINE new == [routes[p] EXCEPT !.access = "observe", !.control = None]
    <3>1. /\ new \in Route
          /\ new.subscribers = routes[p].subscribers
          /\ new.unclaimed = routes[p].unclaimed
          /\ new.control = None
      BY <2>1 DEF Route
    <3>2. routes' = [routes EXCEPT ![p] = new]
      BY <1>11 DEF RouteDowngraded
    <3> HIDE DEF new
    <3> QED
      BY <3>1, <3>2, RouteUpdate
  <2> QED
    BY <1>11, <2>2, ZenonT(40) DEF RoutesAgree, Subscribers, RouteDowngraded
<1>12. ASSUME NEW Q \in SUBSET Pane, CloseRoutes(Q)
       PROVE  RoutesAgree'
  BY <1>12 DEF RoutesAgree, Subscribers, CloseRoutes, TypeOK
<1> QED
  BY <1>1, <1>2, <1>3, <1>4, <1>5, <1>6, <1>7, <1>8, <1>9, <1>10, <1>11, <1>12,
     StepCases

-----------------------------------------------------------------------------
(* Queues stay within the sequence space that filled them *)

\* One subscription's part of QueueInSequenceSpace.
QueueOK(sub, screen) ==
    /\ Len(sub.outstanding) <= MaxOutstanding
    /\ Ascending(sub.outstanding)
    /\ Len(sub.outstanding) > 0 => sub.outstanding[Len(sub.outstanding)] = sub.sent
    /\ sub.sent # None => /\ screen # None
                          /\ sub.sent <= screen.sequence
                          /\ sub.representation = "screen"

\* The queue invariant, one client and pane at a time.
LEMMA QueueByPane ==
    QueueInSequenceSpace <=>
        \A c \in ClientId, p \in Pane : subs[c][p] # None => QueueOK(subs[c][p], screens[p])
BY DEF QueueInSequenceSpace, QueueOK, Ascending

\* Queueing a sequence above everything sent so far keeps the queue in order.
LEMMA QueuedOK ==
    ASSUME NEW sub \in PaneSubscription, NEW screen \in Screen,
           Len(sub.outstanding) < MaxOutstanding,
           Ascending(sub.outstanding),
           Len(sub.outstanding) > 0 =>
               sub.outstanding[Len(sub.outstanding)] < screen.sequence,
           sub.representation = "screen"
    PROVE  QueueOK(Queued(sub, screen.sequence), screen)
<1> DEFINE queue == sub.outstanding
           n == screen.sequence
           longer == Append(queue, n)
<1>1. queue \in Seq(Nat) /\ n \in Nat
  BY DEF PaneSubscription, Screen
<1>2. ASSUME NEW i \in 1..Len(longer), NEW j \in 1..Len(longer), i < j
      PROVE  longer[i] < longer[j]
  <2>1. CASE j <= Len(queue)
    BY <1>1, <1>2, <2>1 DEF Ascending
  <2>2. CASE j = Len(queue) + 1
    <3>1. i \in 1..Len(queue) /\ longer[i] = queue[i] /\ longer[j] = n
      BY <1>1, <1>2, <2>2
    <3>2. Len(queue) \in 1..Len(queue)
      BY <1>1, <3>1
    <3>3. queue[i] \in Nat /\ queue[Len(queue)] \in Nat
      BY <1>1, <3>1, <3>2
    <3>4. CASE i = Len(queue)
      BY <3>1, <3>2, <3>4
    <3>5. CASE i # Len(queue)
      <4>1. queue[i] < queue[Len(queue)]
        BY <3>1, <3>2, <3>5 DEF Ascending
      <4>2. queue[Len(queue)] < n
        BY <3>2
      <4> QED
        BY <1>1, <3>1, <3>3, <4>1, <4>2
    <3> QED
      BY <3>4, <3>5
  <2> QED
    BY <1>1, <1>2, <2>1, <2>2
<1>3. Ascending(longer)
  BY <1>2 DEF Ascending
<1>4. Len(longer) = Len(queue) + 1 /\ longer[Len(longer)] = n
  BY <1>1
<1>5. /\ Queued(sub, n).representation = "screen"
      /\ Queued(sub, n).sent = n
      /\ Queued(sub, n).outstanding = longer
  BY <1>1, QueuedFields
<1> QED
  BY <1>1, <1>3, <1>4, <1>5, BrokerConstants, NoneIsAbsent DEF QueueOK, Screen

\* Every handler keeps the queues within the sequence space of their pane.
LEMMA QueueStep ==
    ASSUME TypeOK, RoutesAgree, QueueInSequenceSpace, Step
    PROVE  QueueInSequenceSpace'
<1> USE NoneIsAbsent
<1> DEFINE Ok(c, p) == subs[c][p] # None => QueueOK(subs[c][p], screens[p])
<1>0. \A c \in ClientId, p \in Pane : Ok(c, p)
  BY QueueByPane
<1> SUFFICES \A c \in ClientId, p \in Pane : Ok(c, p)'
  BY DEF QueueInSequenceSpace, QueueOK, Ascending
<1>1. ASSUME subs' = subs, screens' = screens
      PROVE  \A c \in ClientId, p \in Pane : Ok(c, p)'
  BY <1>0, <1>1
<1>2. ASSUME NEW c \in ClientId, NEW P \in SUBSET Pane, Release(c, P)
      PROVE  \A d \in ClientId, q \in Pane : Ok(d, q)'
  <2>1. ASSUME NEW d \in ClientId, NEW q \in Pane, subs'[d][q] # None
        PROVE  QueueOK(subs[d][q], screens[q])' 
    <3>1. subs'[d][q] = subs[d][q] /\ ~(d = c /\ q \in P)
      BY <1>2, <2>1, ReleaseAgrees
    <3>2. QueueOK(subs[d][q], screens[q])
      BY <1>0, <2>1, <3>1
    <3>3. CASE screens'[q] = screens[q]
      BY <3>1, <3>2, <3>3
    <3>4. CASE screens'[q] # screens[q]
      <4>1. /\ q \in P /\ routes[q] # None
            /\ ~KeepsScreenWithout(c, q)
        BY <1>2, <3>4 DEF Release, TypeOK
      <4>2. d # c /\ d \in Subscribers(q)
        BY <2>1, <3>1, <4>1 DEF RoutesAgree
      <4>3. subs[d][q].representation # "screen"
        BY <2>1, <3>1, <4>1, <4>2 DEF KeepsScreenWithout, ScreenWatchers, Watches
      <4>4. subs[d][q].sent = None
        BY <3>2, <4>3 DEF QueueOK
      <4> QED
        BY <3>1, <3>2, <4>4 DEF QueueOK
    <3> QED
      BY <3>3, <3>4
  <2> QED
    BY <2>1
<1>3. ASSUME NEW c \in ClientId, Disconnect(c)
      PROVE  \A d \in ClientId, q \in Pane : Ok(d, q)'
  <2>1. {p \in Pane : subs[c][p] # None} \in SUBSET Pane
    OBVIOUS
  <2> QED
    BY <1>2, <1>3, <2>1 DEF Disconnect
<1>4. ASSUME NEW c \in ClientId, NEW p \in Pane, UnsubscribePane(c, p)
      PROVE  \A d \in ClientId, q \in Pane : Ok(d, q)'
  BY <1>2, <1>4 DEF UnsubscribePane
<1>5. ASSUME NEW c \in ClientId, NEW p \in Pane, NEW access \in Access,
             NEW size \in Size, NEW repr \in Representation,
             SubscribePane(c, p, access, size, repr)
      PROVE  \A d \in ClientId, q \in Pane : Ok(d, q)'
  <2> DEFINE fresh == [size |-> size, representation |-> repr,
                       sent |-> None, outstanding |-> <<>>]
             seen == repr = "screen" /\ screens[p] # None
             new == IF seen THEN Queued(fresh, screens[p].sequence) ELSE fresh
  <2>1. fresh \in PaneSubscription
    BY BrokerConstants DEF PaneSubscription
  <2>2. Ascending(fresh.outstanding) /\ Len(fresh.outstanding) = 0 /\ fresh.sent = None
    BY DEF Ascending
  <2>3. seen => QueueOK(new, screens[p])
    <3> SUFFICES ASSUME seen PROVE QueueOK(Queued(fresh, screens[p].sequence), screens[p])
      OBVIOUS
    <3>1. screens[p] \in Screen
      BY DEF TypeOK
    <3>2. fresh.representation = "screen"
      OBVIOUS
    <3> HIDE DEF fresh
    <3> QED
      BY <2>1, <2>2, <3>1, <3>2, QueuedOK, BrokerConstants
  <2>4. ~seen => QueueOK(new, screens[p])
    BY <2>2, BrokerConstants DEF QueueOK
  <2>5. subs' = [subs EXCEPT ![c][p] = new] /\ screens' = screens
    BY <1>5 DEF SubscribePane
  <2> HIDE DEF new, fresh, seen
  <2> QED
    BY <1>0, <2>3, <2>4, <2>5 DEF TypeOK
<1>6. ASSUME NEW c \in ClientId, NEW p \in Pane, NEW size \in Size,
             PaneResize(c, p, size)
      PROVE  \A d \in ClientId, q \in Pane : Ok(d, q)'
  <2>1. CASE subs[c][p] = None
    BY <1>6, <1>0, <2>1 DEF PaneResize, TypeOK
  <2>2. CASE subs[c][p] # None
    <3> DEFINE new == [subs[c][p] EXCEPT !.size = size]
    <3>1. subs[c][p] \in PaneSubscription
      BY <2>2 DEF TypeOK
    <3>2. new.representation = subs[c][p].representation /\ new.sent = subs[c][p].sent
          /\ new.outstanding = subs[c][p].outstanding
      BY <3>1 DEF PaneSubscription
    <3>3. QueueOK(new, screens[p])
      BY <1>0, <2>2, <3>2 DEF QueueOK
    <3>4. subs' = [subs EXCEPT ![c][p] = new] /\ screens' = screens
      BY <1>6, <2>2 DEF PaneResize
    <3> HIDE DEF new
    <3> QED
      BY <1>0, <3>3, <3>4 DEF TypeOK
  <2> QED
    BY <2>1, <2>2
<1>7. ASSUME NEW c \in ClientId, NEW p \in Pane, NEW n \in 0..MaxSequence,
             AckPaneScreen(c, p, n)
      PROVE  \A d \in ClientId, q \in Pane : Ok(d, q)'
  <2> DEFINE sub == subs[c][p]
             behind == screens[p] # None /\ sub.sent # screens[p].sequence
  <2>1. PICK after \in PaneSubscription, rest \in Seq(Nat) :
           /\ subs' = [subs EXCEPT ![c][p] = after]
           /\ sub \in PaneSubscription
           /\ after.representation = sub.representation
           /\ Ascending(rest)
           /\ Len(rest) < Len(sub.outstanding)
           /\ Len(rest) > 0 => rest[Len(rest)] = sub.outstanding[Len(sub.outstanding)]
           /\ ~behind => after.sent = sub.sent /\ after.outstanding = rest
           /\ behind => /\ after.sent = screens[p].sequence
                        /\ after.outstanding = Append(rest, screens[p].sequence)
    BY <1>7, AckEffect
  <2>2. QueueOK(sub, screens[p]) /\ screens' = screens
    BY <1>0, <1>7 DEF AckPaneScreen
  <2>3. sub.outstanding \in Seq(Nat) /\ Len(sub.outstanding) > 0
    BY <2>1 DEF PaneSubscription
  <2>4. sub.sent \in Nat /\ screens[p] \in Screen /\ sub.representation = "screen"
        /\ sub.sent <= screens[p].sequence /\ screens[p].sequence \in Nat
    BY <2>2, <2>3 DEF QueueOK, TypeOK, Screen
  <2>5. ASSUME ~behind
        PROVE  QueueOK(after, screens[p])
    <3>1. after.sent = sub.sent /\ after.outstanding = rest
      BY <2>1, <2>5
    <3>2. Len(rest) \in Nat /\ Len(rest) < Len(sub.outstanding)
          /\ Len(sub.outstanding) \in Nat
      BY <2>1, <2>3
    <3>3. Len(rest) <= MaxOutstanding
      BY <2>2, <3>2, BrokerConstants DEF QueueOK
    <3>4. Len(rest) > 0 => rest[Len(rest)] = after.sent
      BY <2>1, <2>2, <2>3, <3>1 DEF QueueOK
    <3> QED
      BY <2>1, <2>4, <3>1, <3>3, <3>4 DEF QueueOK
  <2>6. ASSUME behind
        PROVE  QueueOK(after, screens[p])
    <3> DEFINE settled == [sub EXCEPT !.outstanding = rest]
    <3>1. settled \in PaneSubscription /\ settled.outstanding = rest
          /\ settled.representation = "screen"
      BY <2>1, <2>4 DEF PaneSubscription
    <3>2. Len(rest) > 0 => rest[Len(rest)] < screens[p].sequence
      BY <2>1, <2>2, <2>3, <2>4, <2>6 DEF QueueOK
    <3>3. Len(rest) < MaxOutstanding
      BY <2>1, <2>2, <2>3, BrokerConstants DEF QueueOK
    <3> HIDE DEF settled
    <3>4. QueueOK(Queued(settled, screens[p].sequence), screens[p])
      BY <2>1, <2>4, <3>1, <3>2, <3>3, QueuedOK
    <3> QED
      BY <2>1, <2>4, <2>6, <3>1, <3>4, QueuedFields DEF QueueOK
  <2> QED
    BY <1>0, <2>1, <2>2, <2>5, <2>6 DEF TypeOK
<1>8. ASSUME NEW p \in Pane, NEW size \in Size, NEW content \in Content,
             PaneFrame(p, size, content)
      PROVE  \A d \in ClientId, q \in Pane : Ok(d, q)'
  <2>1. CASE ScreenWatchers(p) = {}
    <3>1. subs' = subs /\ \A q \in Pane : q # p => screens'[q] = screens[q]
      BY <1>8, <2>1 DEF PaneFrame, TypeOK
    <3>2. ASSUME NEW d \in ClientId, subs[d][p] # None
          PROVE  subs[d][p].sent = None
      BY <1>0, <2>1, <3>2 DEF ScreenWatchers, Watches, RoutesAgree, QueueOK
    <3>3. ASSUME NEW d \in ClientId, subs'[d][p] # None
          PROVE  QueueOK(subs[d][p], screens[p])'
      BY <1>0, <3>1, <3>2, <3>3 DEF QueueOK
    <3> QED
      BY <1>0, <3>1, <3>3
  <2>2. CASE ScreenWatchers(p) # {}
    <3> DEFINE screen == Advanced(p, size, content)
               sentTo == {c \in ScreenWatchers(p) : IsSent(c, p, screen)}
    <3>1. /\ screen \in Screen
          /\ screens' = [screens EXCEPT ![p] = screen]
          /\ \A c \in ClientId, q \in Pane :
                IF q = p /\ c \in sentTo
                THEN /\ subs[c][p] \in PaneSubscription
                     /\ subs'[c][p] = Queued(subs[c][p], screen.sequence)
                     /\ subs'[c][p] \in PaneSubscription
                ELSE subs'[c][q] = subs[c][q]
      BY <1>8, <2>2, FrameEffect
    <3>2. \/ /\ screen = LastScreen(p, size)
             /\ screen.size = size
          \/ screen.sequence = LastScreen(p, size).sequence + 1
      BY LastScreenType DEF Advanced, Screen
    <3>3. screens[p] # None => /\ screens[p] \in Screen
                               /\ screens[p].sequence \in Nat
                               /\ screens[p].sequence <= screen.sequence
      BY <3>2 DEF LastScreen, TypeOK, Screen
    <3>4. ASSUME NEW c \in ClientId, c \in sentTo
          PROVE  QueueOK(Queued(subs[c][p], screen.sequence), screen)
      <4> DEFINE sub == subs[c][p]
                 queue == sub.outstanding
      <4>1. /\ sub \in PaneSubscription /\ sub # None
            /\ sub.representation = "screen"
            /\ Len(queue) < MaxOutstanding
            /\ ~(screen = LastScreen(p, screen.size) /\ sub.sent = screen.sequence)
        BY <3>1, <3>4 DEF ScreenWatchers, Watches, IsSent
      <4>2. QueueOK(sub, screens[p])
        BY <1>0, <4>1
      <4>3. queue \in Seq(Nat) /\ screen.sequence \in Nat
        BY <3>1, <4>1 DEF PaneSubscription, Screen
      <4>4. ASSUME Len(queue) > 0
            PROVE  queue[Len(queue)] < screen.sequence
        <5>1. queue[Len(queue)] = sub.sent /\ sub.sent \in Nat
          BY <4>2, <4>3, <4>4 DEF QueueOK
        <5>2. screens[p] # None /\ sub.sent <= screens[p].sequence
          BY <4>2, <5>1 DEF QueueOK
        <5>3. LastScreen(p, size) = screens[p] /\ LastScreen(p, screen.size) = screens[p]
          BY <5>2 DEF LastScreen
        <5> HIDE DEF screen
        <5> QED
          BY <3>2, <3>3, <4>1, <4>3, <5>1, <5>2, <5>3
      <4> HIDE DEF screen
      <4> QED
        BY <3>1, <4>1, <4>2, <4>4, QueuedOK DEF QueueOK
    <3> HIDE DEF screen, sentTo
    <3>5. ASSUME NEW c \in ClientId, c \notin sentTo, subs[c][p] # None
          PROVE  QueueOK(subs[c][p], screen)
      <4>1. QueueOK(subs[c][p], screens[p])
        BY <1>0, <3>5
      <4>2. subs[c][p] \in PaneSubscription
        BY <3>5 DEF TypeOK
      <4>3. screen \in Screen /\ screen # None /\ screen.sequence \in Nat
        BY <3>1 DEF Screen
      <4>4. subs[c][p].sent # None => subs[c][p].sent \in Nat
        BY <4>2 DEF PaneSubscription
      <4> QED
        BY <3>3, <4>1, <4>3, <4>4 DEF QueueOK
    <3>6. ASSUME NEW c \in ClientId, NEW q \in Pane
          PROVE  Ok(c, q)'
      <4>1. CASE q = p /\ c \in sentTo
        BY <3>1, <3>4, <4>1 DEF TypeOK
      <4>2. CASE q = p /\ c \notin sentTo
        BY <3>1, <3>5, <4>2 DEF TypeOK
      <4>3. CASE q # p
        BY <1>0, <3>1, <4>3 DEF TypeOK
      <4> QED
        BY <4>1, <4>2, <4>3
    <3> QED
      BY <3>6
  <2> QED
    BY <2>1, <2>2
<1>9. ASSUME NEW p \in Pane, CloseIfUnclaimed(p)
      PROVE  \A d \in ClientId, q \in Pane : Ok(d, q)'
  <2>1. \A d \in ClientId : subs[d][p] = None
    BY <1>9 DEF CloseIfUnclaimed, RoutesAgree, Subscribers
  <2>2. subs' = subs /\ \A q \in Pane : q # p => screens'[q] = screens[q]
    BY <1>9 DEF CloseIfUnclaimed, TypeOK
  <2> QED
    BY <1>0, <2>1, <2>2
<1>10. ASSUME NEW Q \in SUBSET Pane, CloseRoutes(Q)
       PROVE  \A d \in ClientId, q \in Pane : Ok(d, q)'
  <2>1. ASSUME NEW d \in ClientId, NEW q \in Pane, subs'[d][q] # None
        PROVE  subs'[d][q] = subs[d][q] /\ screens'[q] = screens[q]
    BY <1>10, <2>1 DEF CloseRoutes, RoutesAgree, Subscribers
  <2> QED
    BY <1>0, <2>1
<1>11. ASSUME NEW c \in ClientId, Connect(c) \/ Hello(c)
       PROVE  subs' = subs /\ screens' = screens
  BY <1>11 DEF Connect, Hello
<1>12. ASSUME NEW c \in ClientId, NEW p \in Pane,
              \/ TakeControlRefused(c, p) \/ PaneInput(c, p)
              \/ \E free \in BOOLEAN : TakeControl(c, p, free)
       PROVE  subs' = subs /\ screens' = screens
  BY <1>12 DEF TakeControlRefused, PaneInput, TakeControl
<1>13. ASSUME NEW p \in Pane, RouteDowngraded(p)
       PROVE  subs' = subs /\ screens' = screens
  BY <1>13 DEF RouteDowngraded
<1> HIDE DEF Ok
<1> QED
  BY <1>1, <1>3, <1>4, <1>5, <1>6, <1>7, <1>8, <1>9, <1>10, <1>11, <1>12, <1>13,
     StepCases

-----------------------------------------------------------------------------
(* What clients are told is what they hold *)

\* One client's part of LeaseKnown, for one pane.
Knows(c, p) ==
    /\ subs[c][p] = None => told[c][p] \in {"nothing", "closed"}
    /\ subs[c][p] # None => told[c][p] = IF Holder(p) = c THEN "control" ELSE "observe"

\* Replacing one route moves at most that pane's keyboard.
LEMMA HolderUpdate ==
    ASSUME TypeOK, NEW p \in Pane, NEW route \in Route,
           routes' = [routes EXCEPT ![p] = route]
    PROVE  \A q \in Pane : Holder(q)' = IF q = p THEN route.control ELSE Holder(q)
<1> SUFFICES ASSUME NEW q \in Pane
             PROVE  Holder(q)' = IF q = p THEN route.control ELSE Holder(q)
  OBVIOUS
<1>0. /\ routes'[p] = route
      /\ routes'[p] # None
      /\ \A r \in Pane : r # p => routes'[r] = routes[r]
  BY RouteUpdate
<1>1. CASE q = p
  BY <1>0, <1>1 DEF Holder
<1>2. CASE q # p
  BY <1>0, <1>2 DEF Holder
<1> QED
  BY <1>1, <1>2

\* A client keeps knowing what neither changed nor was said.
LEMMA StillKnows ==
    ASSUME NEW d \in ClientId, NEW q \in Pane, Knows(d, q),
           told'[d][q] = told[d][q], Holder(q)' = Holder(q),
           subs'[d][q] # None <=> subs[d][q] # None
    PROVE  Knows(d, q)'
BY DEF Knows

\* Every handler tells whoever gains or loses a keyboard or a pane.
LEMMA LeaseStep ==
    ASSUME TypeOK, RoutesAgree, QueueInSequenceSpace, LeaseKnown, Step
    PROVE  LeaseKnown'
<1> USE NoneIsAbsent
<1>0. \A c \in ClientId, p \in Pane : Knows(c, p)
  BY DEF LeaseKnown, Knows
<1> SUFFICES \A c \in ClientId, p \in Pane : Knows(c, p)'
  BY DEF LeaseKnown, Knows
<1>1. ASSUME NEW c \in ClientId, NEW P \in SUBSET Pane, Release(c, P)
      PROVE  \A d \in ClientId, q \in Pane : Knows(d, q)'
  <2> SUFFICES ASSUME NEW d \in ClientId, NEW q \in Pane PROVE Knows(d, q)'
    OBVIOUS
  <2>1. subs'[d][q] = IF d = c /\ q \in P THEN None ELSE subs[d][q]
    BY <1>1, ReleaseAgrees
  <2>2. told'[d][q] = IF q \in P /\ routes[q] # None /\ d # c /\ HoldsControl(c, q)
                                  /\ d \in routes[q].subscribers
                      THEN "observe"
                      ELSE IF d = c /\ q \in P THEN "nothing" ELSE told[d][q]
    BY <1>1 DEF Release
  <2>3. CASE q \in P /\ routes[q] # None
    <3>1. routes'[q] = ReleasedRoute(c, q) /\ routes[q] \in Route
      BY <1>1, <2>3 DEF Release, TypeOK
    <3>2. ReleasedRoute(c, q) \in Route
      BY <2>3, ReleasedRouteType
    <3>3. d # c /\ subs[d][q] # None => d \in routes[q].subscribers \ {c}
      BY <2>3 DEF RoutesAgree, Subscribers
    <3>4. d # c /\ subs[d][q] # None =>
            Holder(q)' = IF routes[q].control = c THEN None ELSE routes[q].control
      BY <3>1, <3>2, <3>3 DEF ReleasedRoute, Holder, Route
    <3>5. CASE d = c
      BY <2>1, <2>2, <2>3, <3>5 DEF Knows
    <3>6. CASE d # c /\ subs[d][q] = None
      <4>1. d \notin routes[q].subscribers
        BY <2>3, <3>6 DEF RoutesAgree, Subscribers
      <4> QED
        BY <1>0, <2>1, <2>2, <3>6, <4>1 DEF Knows
    <3>7. CASE d # c /\ subs[d][q] # None
      <4>1. subs'[d][q] # None /\ d \in routes[q].subscribers
        BY <2>1, <3>3, <3>7
      <4>2. CASE routes[q].control = c
        <5>1. told'[d][q] = "observe" /\ Holder(q)' = None
          BY <2>2, <2>3, <3>4, <3>7, <4>1, <4>2 DEF HoldsControl
        <5> QED
          BY <4>1, <5>1 DEF Knows
      <4>3. CASE routes[q].control # c
        <5>1. told'[d][q] = told[d][q] /\ Holder(q)' = Holder(q)
          BY <2>2, <2>3, <3>4, <3>7, <4>3 DEF HoldsControl, Holder
        <5> QED
          BY <1>0, <3>7, <4>1, <5>1, StillKnows
      <4> QED
        BY <4>2, <4>3
    <3> QED
      BY <3>5, <3>6, <3>7
  <2>4. CASE ~(q \in P /\ routes[q] # None)
    <3>1. routes'[q] = routes[q]
      BY <1>1, <2>4 DEF Release
    <3> QED
      BY <1>0, <2>1, <2>2, <2>4, <3>1 DEF Knows, Holder
  <2> QED
    BY <2>3, <2>4
<1>2. ASSUME NEW c \in ClientId, Disconnect(c)
      PROVE  \A d \in ClientId, q \in Pane : Knows(d, q)'
  <2>1. {p \in Pane : subs[c][p] # None} \in SUBSET Pane
    OBVIOUS
  <2> QED
    BY <1>1, <1>2, <2>1 DEF Disconnect
<1>3. ASSUME NEW c \in ClientId, NEW p \in Pane, UnsubscribePane(c, p)
      PROVE  \A d \in ClientId, q \in Pane : Knows(d, q)'
  BY <1>1, <1>3 DEF UnsubscribePane
<1>4. ASSUME NEW c \in ClientId, NEW p \in Pane, NEW access \in Access,
             NEW size \in Size, NEW repr \in Representation,
             SubscribePane(c, p, access, size, repr)
      PROVE  \A d \in ClientId, q \in Pane : Knows(d, q)'
  <2> SUFFICES ASSUME NEW d \in ClientId, NEW q \in Pane PROVE Knows(d, q)'
    OBVIOUS
  <2> DEFINE new == SubscribedRoute(c, p, access, size)
  <2>1. new \in Route /\ routes' = [routes EXCEPT ![p] = new]
    BY <1>4, SubscribedRouteType DEF SubscribePane
  <2>2. told' = [told EXCEPT ![c][p] = Lease(new, c)]
    BY <1>4 DEF SubscribePane
  <2>3. (d # c \/ q # p) => subs'[d][q] = subs[d][q]
    BY <1>4 DEF SubscribePane, TypeOK
  <2>4. CASE q # p
    <3>1. told'[d][q] = told[d][q]
      BY <2>2, <2>4 DEF TypeOK
    <3>2. Holder(q)' = Holder(q)
      BY <2>1, <2>4, HolderUpdate
    <3> QED
      BY <1>0, <2>3, <2>4, <3>1, <3>2, StillKnows
  <2>5. CASE q = p /\ d = c
    <3>1. subs'[c][p] # None
      BY <1>4, SubscribedIsPresent
    <3>2. Holder(p)' = new.control
      BY <2>1 DEF Holder, TypeOK
    <3>3. told'[c][p] = Lease(new, c)
      BY <2>2 DEF TypeOK
    <3> QED
      BY <2>5, <3>1, <3>2, <3>3 DEF Knows, Lease
  <2>6. CASE q = p /\ d # c
    <3>1. Holder(p)' = new.control /\ told'[d][p] = told[d][p]
      BY <2>1, <2>2, <2>6 DEF Holder, TypeOK
    <3>2. subs[d][p] # None => routes[p] # None
      BY DEF RoutesAgree, Subscribers
    <3>3. routes[p] # None => new.control \in {routes[p].control, c}
                              /\ (routes[p].control # None => new.control = routes[p].control)
      <4> SUFFICES ASSUME routes[p] # None
                   PROVE  new.control \in {routes[p].control, c}
                          /\ (routes[p].control # None => new.control = routes[p].control)
        OBVIOUS
      <4>1. routes[p] \in Route
        BY DEF TypeOK
      <4> QED
        BY <4>1 DEF SubscribedRoute, Route
    <3>4. subs'[d][p] = subs[d][p]
      BY <2>3, <2>6
    <3>5. subs[d][p] # None => (Holder(p)' = d <=> Holder(p) = d)
      BY <2>6, <3>1, <3>2, <3>3 DEF Holder
    <3> QED
      BY <1>0, <2>6, <3>1, <3>4, <3>5 DEF Knows
  <2> QED
    BY <2>4, <2>5, <2>6
<1>5. ASSUME NEW c \in ClientId, NEW p \in Pane, NEW free \in BOOLEAN,
             TakeControl(c, p, free)
      PROVE  \A d \in ClientId, q \in Pane : Knows(d, q)'
  <2> SUFFICES ASSUME NEW d \in ClientId, NEW q \in Pane PROVE Knows(d, q)'
    OBVIOUS
  <2> DEFINE new == [routes[p] EXCEPT !.control = c, !.size = subs[c][p].size,
                                      !.access = "control"]
  <2>1. routes[p] \in Route /\ subs[c][p] \in PaneSubscription /\ routes[p] # None
        /\ subs' = subs /\ routes' = [routes EXCEPT ![p] = new]
    BY <1>5 DEF TypeOK, TakeControl
  <2>2. new \in Route /\ new.control = c
    BY <2>1 DEF Route, PaneSubscription
  <2> HIDE DEF new
  <2>3. \A r \in Pane : Holder(r)' = IF r = p THEN c ELSE Holder(r)
    BY <2>1, <2>2, HolderUpdate
  <2>4. told'[d][q] = IF q = p /\ d = c THEN "control"
                      ELSE IF q = p /\ d = Holder(p) THEN "observe" ELSE told[d][q]
    BY <1>5, <2>1 DEF TakeControl, Holder, TypeOK
  <2>5. d = Holder(p) => subs[d][p] # None
    BY <2>1 DEF RoutesAgree, Subscribers, Holder
  <2>6. subs[c][p] # None
    BY <2>1
  <2> QED
    BY <1>0, <2>1, <2>3, <2>4, <2>5, <2>6 DEF Knows
<1>6. ASSUME NEW c \in ClientId, NEW p \in Pane, TakeControlRefused(c, p)
      PROVE  \A d \in ClientId, q \in Pane : Knows(d, q)'
  <2>1. /\ subs' = subs /\ routes' = routes /\ told' = [told EXCEPT ![c][p] = "observe"]
        /\ subs[c][p] # None /\ Holder(p) # c
    BY <1>6 DEF TakeControlRefused, Holder
  <2> QED
    <3> SUFFICES ASSUME NEW d \in ClientId, NEW q \in Pane PROVE Knows(d, q)'
      OBVIOUS
    <3>1. Holder(q)' = Holder(q)
      BY <2>1 DEF Holder
    <3>2. told'[d][q] = IF d = c /\ q = p THEN "observe" ELSE told[d][q]
      BY <2>1 DEF TypeOK
    <3> QED
      BY <1>0, <2>1, <3>1, <3>2 DEF Knows
<1>7. ASSUME routes' = routes, told' = told,
             \A d \in ClientId, q \in Pane : subs'[d][q] # None <=> subs[d][q] # None
      PROVE  \A d \in ClientId, q \in Pane : Knows(d, q)'
  BY <1>0, <1>7 DEF Knows, Holder
<1>8. ASSUME NEW c \in ClientId, Connect(c) \/ Hello(c)
      PROVE  \A d \in ClientId, q \in Pane : Knows(d, q)'
  BY <1>7, <1>8 DEF Connect, Hello
<1>9. ASSUME NEW c \in ClientId, NEW p \in Pane, PaneInput(c, p)
      PROVE  \A d \in ClientId, q \in Pane : Knows(d, q)'
  BY <1>7, <1>9 DEF PaneInput
<1>10. ASSUME NEW c \in ClientId, NEW p \in Pane, NEW size \in Size,
              PaneResize(c, p, size)
       PROVE  \A d \in ClientId, q \in Pane : Knows(d, q)'
  <2> DEFINE new == [routes[p] EXCEPT !.size = size]
  <2>1. routes[p] \in Route /\ routes' = [routes EXCEPT ![p] = new] /\ told' = told
        /\ routes[p] # None
    BY <1>10 DEF TypeOK, PaneResize, HoldsControl
  <2>2. new \in Route /\ new.control = routes[p].control
    BY <2>1 DEF Route
  <2> HIDE DEF new
  <2>3. \A q \in Pane : Holder(q)' = Holder(q)
    BY <2>1, <2>2, HolderUpdate DEF Holder
  <2>4. \A d \in ClientId, q \in Pane : subs'[d][q] # None <=> subs[d][q] # None
    BY <1>10, ResizeKeepsSubscriptions
  <2> QED
    BY <1>0, <2>1, <2>3, <2>4, StillKnows
<1>11. ASSUME NEW c \in ClientId, NEW p \in Pane, NEW n \in 0..MaxSequence,
              AckPaneScreen(c, p, n)
       PROVE  \A d \in ClientId, q \in Pane : Knows(d, q)'
  BY <1>7, <1>11, AckKeepsSubscription DEF AckPaneScreen
<1>12. ASSUME NEW p \in Pane, NEW size \in Size, NEW content \in Content,
              PaneFrame(p, size, content)
       PROVE  \A d \in ClientId, q \in Pane : Knows(d, q)'
  BY <1>7, <1>12, FrameKeepsSubscriptions DEF PaneFrame
<1>13. ASSUME NEW p \in Pane, CloseIfUnclaimed(p)
       PROVE  \A d \in ClientId, q \in Pane : Knows(d, q)'
  <2>1. \A d \in ClientId : subs[d][p] = None
    BY <1>13 DEF CloseIfUnclaimed, RoutesAgree, Subscribers
  <2>2. subs' = subs /\ told' = told /\ \A q \in Pane : q # p => routes'[q] = routes[q]
    BY <1>13 DEF CloseIfUnclaimed, TypeOK
  <2>3. \A q \in Pane : q # p => Holder(q)' = Holder(q)
    BY <2>2 DEF Holder
  <2> QED
    BY <1>0, <2>1, <2>2, <2>3 DEF Knows
<1>14. ASSUME NEW p \in Pane, RouteDowngraded(p)
       PROVE  \A d \in ClientId, q \in Pane : Knows(d, q)'
  <2> SUFFICES ASSUME NEW d \in ClientId, NEW q \in Pane PROVE Knows(d, q)'
    OBVIOUS
  <2> DEFINE new == [routes[p] EXCEPT !.access = "observe", !.control = None]
  <2>1. routes[p] \in Route /\ routes' = [routes EXCEPT ![p] = new] /\ routes[p] # None
        /\ subs' = subs
    BY <1>14 DEF TypeOK, RouteDowngraded
  <2>2. new \in Route /\ new.control = None
    BY <2>1 DEF Route
  <2> HIDE DEF new
  <2>3. \A r \in Pane : Holder(r)' = IF r = p THEN None ELSE Holder(r)
    BY <2>1, <2>2, HolderUpdate
  <2>4. told'[d][q] = IF q = p /\ subs[d][p] # None THEN "observe" ELSE told[d][q]
    BY <1>14, <2>1 DEF RouteDowngraded, TypeOK, RoutesAgree, Subscribers
  <2> QED
    BY <1>0, <2>1, <2>3, <2>4 DEF Knows
<1>15. ASSUME NEW Q \in SUBSET Pane, CloseRoutes(Q)
       PROVE  \A d \in ClientId, q \in Pane : Knows(d, q)'
  <2> SUFFICES ASSUME NEW d \in ClientId, NEW q \in Pane PROVE Knows(d, q)'
    OBVIOUS
  <2>1. CASE q \in Q /\ subs[d][q] # None
    BY <1>15, <2>1 DEF CloseRoutes, RoutesAgree, Subscribers, Knows
  <2>2. CASE subs[d][q] = None
    BY <1>0, <1>15, <2>2 DEF CloseRoutes, RoutesAgree, Subscribers, Knows
  <2>3. CASE q \notin Q
    BY <1>0, <1>15, <2>3 DEF CloseRoutes, Knows, Holder
  <2> QED
    BY <2>1, <2>2, <2>3
<1> QED
  BY <1>2, <1>3, <1>4, <1>5, <1>6, <1>8, <1>9, <1>10, <1>11, <1>12, <1>13, <1>14,
     <1>15, StepCases

-----------------------------------------------------------------------------
(* The theorems *)

\* The inductive invariant: each part needs the ones before it.
BrokerInv == TypeOK /\ RoutesAgree /\ QueueInSequenceSpace /\ LeaseKnown

\* A daemon that has just started satisfies the invariant.
LEMMA InitInv == Init => BrokerInv
BY NoneIsAbsent, BrokerConstants
   DEF Init, BrokerInv, TypeOK, RoutesAgree, QueueInSequenceSpace, LeaseKnown, Subscribers

\* Every handler preserves the inductive invariant.
LEMMA StepInv == BrokerInv /\ StepOrKept => BrokerInv'
<1> SUFFICES ASSUME BrokerInv, StepOrKept PROVE BrokerInv'
  OBVIOUS
<1>1. CASE Step
  BY <1>1, TypeStep, AgreeStep, QueueStep, LeaseStep DEF BrokerInv
<1>2. CASE UNCHANGED kept
  <2>1. TypeOK' /\ QueueInSequenceSpace'
    BY <1>2 DEF BrokerInv, kept, TypeOK, QueueInSequenceSpace
  <2>2. \A p \in Pane : Subscribers(p)' = Subscribers(p) /\ Holder(p)' = Holder(p)
    BY <1>2 DEF kept, Subscribers, Holder
  <2>3. RoutesAgree'
    BY <1>2, <2>2 DEF BrokerInv, kept, RoutesAgree
  <2>4. LeaseKnown'
    BY <1>2, <2>2 DEF BrokerInv, kept, LeaseKnown
  <2> QED
    BY <2>1, <2>3, <2>4 DEF BrokerInv
<1> QED
  BY <1>1, <1>2 DEF StepOrKept

\* The inductive invariant holds in every state the handlers of broker.rs reach.
THEOREM BrokerInvariant == Spec => []BrokerInv
BY InitInv, StepInv, NextIsStep, PTL DEF Spec

\* The broker's state is well typed: every handler leaves sessions,
\* subscriptions, routes and screens as broker.rs declares them.
THEOREM TypeCorrect == Spec => []TypeOK
<1>1. BrokerInv => TypeOK
  BY DEF BrokerInv
<1> QED
  BY <1>1, BrokerInvariant, PTL

\* Client.panes and Route.subscribers never disagree, and the keyboard is held
\* by a watcher, whatever subscribe_pane, release_pane, take_control,
\* disconnect and pane_route_closed are called in whatever order.
THEOREM RoutesAlwaysAgree == Spec => []RoutesAgree
<1>1. BrokerInv => RoutesAgree
  BY DEF BrokerInv
<1> QED
  BY <1>1, BrokerInvariant, PTL

\* Every client was told the lease it holds and every closing it suffered:
\* no path through the broker moves a keyboard silently.
THEOREM LeaseAlwaysKnown == Spec => []LeaseKnown
<1>1. BrokerInv => LeaseKnown
  BY DEF BrokerInv
<1> QED
  BY <1>1, BrokerInvariant, PTL

\* The promise the comment on PaneSubscription.outstanding makes: no queue
\* outlives the sequence space that filled it, and none exceeds its limit.
THEOREM QueuesStayInSequenceSpace == Spec => []QueueInSequenceSpace
<1>1. BrokerInv => QueueInSequenceSpace
  BY DEF BrokerInv
<1> QED
  BY <1>1, BrokerInvariant, PTL

-----------------------------------------------------------------------------
(* What viewers hold *)

\* One viewer's part of ViewerHoldsScreen and NotStranded, for one pane.
Served(sub, held, screen) ==
    sub # None /\ screen # None =>
        /\ sub.sent = screen.sequence => held = screen
        /\ sub.representation = "screen" =>
              \/ sub.sent = screen.sequence
              \/ Len(sub.outstanding) = MaxOutstanding

AllServed == \A c \in ClientId, p \in Pane : Served(subs[c][p], viewer[c][p], screens[p])

\* A diff applied to the screen it was taken from makes the screen it leads to
\* (ScreenDiff::between and the page's handling of pane.screen_diff).
LEMMA DiffLeadsThere ==
    ASSUME NEW last \in Screen, NEW screen \in Screen,
           NEW diff, diff = DiffBetween(last, screen), diff # None
    PROVE  ApplyDiff(last, diff) = screen
<1>1. /\ last.size = screen.size
      /\ diff = [follows |-> last.sequence, sequence |-> screen.sequence,
                 rows |-> [r \in {i \in Row : last.content[i] # screen.content[i]}
                               |-> screen.content[r]]]
  BY DEF DiffBetween
<1> DEFINE content == [r \in Row |-> IF r \in DOMAIN diff.rows THEN diff.rows[r]
                                     ELSE last.content[r]]
           changed == {i \in Row : last.content[i] # screen.content[i]}
<1>2. last.content \in [Row -> Cell] /\ screen.content \in [Row -> Cell]
  BY DEF Screen, Content
<1>3. DOMAIN diff.rows = changed /\ \A r \in changed : diff.rows[r] = screen.content[r]
  BY <1>1
<1>4. content = screen.content
  BY <1>2, <1>3
<1>5. diff.follows = last.sequence /\ diff.sequence = screen.sequence
  BY <1>1
<1>6. ApplyDiff(last, diff) = [last EXCEPT !.sequence = screen.sequence, !.content = content]
  BY <1>5, NoneIsAbsent DEF ApplyDiff
<1> HIDE DEF content
<1> QED
  BY <1>1, <1>4, <1>6 DEF Screen

\* update_for: whoever is sent an update, diff or whole, holds the screen then.
LEMMA UpdateBrings ==
    ASSUME TypeOK, QueueInSequenceSpace, AllServed, NEW c \in ClientId, NEW p \in Pane,
           subs[c][p] # None, NEW screen \in Screen
    PROVE  UpdateFor(c, p, screen) = screen
<1> DEFINE last == LastScreen(p, screen.size)
           diff == IF screen = last THEN None ELSE DiffBetween(last, screen)
<1>1. last \in Screen
  BY LastScreenType DEF Screen
<1>2. CASE ~(diff # None /\ subs[c][p].sent = diff.follows)
  BY <1>2 DEF UpdateFor
<1>3. CASE diff # None /\ subs[c][p].sent = diff.follows
  <2>1. diff = DiffBetween(last, screen) /\ diff.follows = last.sequence
    BY <1>3 DEF DiffBetween
  <2>2. last.sequence \in Nat
    BY <1>1 DEF Screen
  <2>3. subs[c][p].sent # None
    BY <1>3, <2>1, <2>2, NoneIsAbsent
  <2>4. screens[p] # None
    BY <2>3 DEF QueueInSequenceSpace
  <2>5. last = screens[p]
    BY <2>4 DEF LastScreen
  <2>6. viewer[c][p] = last
    BY <1>3, <2>1, <2>4, <2>5 DEF AllServed, Served
  <2>7. UpdateFor(c, p, screen) = ApplyDiff(last, diff)
    BY <1>3, <2>6 DEF UpdateFor
  <2> HIDE DEF diff, last
  <2> QED
    BY <1>1, <1>3, <2>1, <2>7, DiffLeadsThere
<1> QED
  BY <1>2, <1>3

\* Every handler that moves a pane's screen, or what a viewer was sent of it,
\* leaves the viewer with that screen or at its limit.
LEMMA ServedStep ==
    ASSUME TypeOK, RoutesAgree, QueueInSequenceSpace, AllServed, Step
    PROVE  AllServed'
<1> USE NoneIsAbsent
<1> DEFINE Ok(c, p) == Served(subs[c][p], viewer[c][p], screens[p])
<1>0. \A c \in ClientId, p \in Pane : Ok(c, p)
  BY DEF AllServed
<1> SUFFICES \A c \in ClientId, p \in Pane : Ok(c, p)'
  BY DEF AllServed
<1>1. ASSUME subs' = subs, screens' = screens, viewer' = viewer
      PROVE  \A c \in ClientId, p \in Pane : Ok(c, p)'
  BY <1>0, <1>1
<1>2. ASSUME NEW c \in ClientId, NEW P \in SUBSET Pane, Release(c, P)
      PROVE  \A d \in ClientId, q \in Pane : Ok(d, q)'
  <2> SUFFICES ASSUME NEW d \in ClientId, NEW q \in Pane PROVE Ok(d, q)'
    OBVIOUS
  <2>1. subs'[d][q] = IF d = c /\ q \in P THEN None ELSE subs[d][q]
    BY <1>2, ReleaseAgrees
  <2>2. viewer'[d][q] = IF d = c /\ q \in P THEN None ELSE viewer[d][q]
    BY <1>2 DEF Release, TypeOK
  <2>3. screens'[q] \in {None, screens[q]}
    BY <1>2 DEF Release
  <2> QED
    BY <1>0, <2>1, <2>2, <2>3 DEF Served
<1>3. ASSUME NEW c \in ClientId, Disconnect(c)
      PROVE  \A d \in ClientId, q \in Pane : Ok(d, q)'
  <2>1. {p \in Pane : subs[c][p] # None} \in SUBSET Pane
    OBVIOUS
  <2> QED
    BY <1>2, <1>3, <2>1 DEF Disconnect
<1>4. ASSUME NEW c \in ClientId, NEW p \in Pane, UnsubscribePane(c, p)
      PROVE  \A d \in ClientId, q \in Pane : Ok(d, q)'
  BY <1>2, <1>4 DEF UnsubscribePane
<1>5. ASSUME NEW c \in ClientId, NEW p \in Pane, NEW access \in Access,
             NEW size \in Size, NEW repr \in Representation,
             SubscribePane(c, p, access, size, repr)
      PROVE  \A d \in ClientId, q \in Pane : Ok(d, q)'
  <2> DEFINE fresh == [size |-> size, representation |-> repr,
                       sent |-> None, outstanding |-> <<>>]
             seen == repr = "screen" /\ screens[p] # None
             new == IF seen THEN Queued(fresh, screens[p].sequence) ELSE fresh
             held == IF seen THEN screens[p] ELSE None
  <2>1. fresh \in PaneSubscription
    BY BrokerConstants DEF PaneSubscription
  <2>2. screens[p] # None => screens[p].sequence \in Nat
    BY DEF TypeOK, Screen
  <2>3. seen => Served(new, held, screens[p])
    <3>1. seen => new.sent = screens[p].sequence
      BY <2>1, <2>2, QueuedFields
    <3> HIDE DEF new
    <3> QED
      BY <3>1 DEF Served
  <2>4. ~seen => Served(new, held, screens[p])
    <3> SUFFICES ASSUME ~seen, screens[p] # None PROVE Served(fresh, None, screens[p])
      BY DEF Served
    <3>1. repr # "screen" /\ fresh.representation = repr /\ fresh.sent = None
      OBVIOUS
    <3> HIDE DEF fresh
    <3> QED
      BY <2>2, <3>1 DEF Served
  <2>5. /\ subs' = [subs EXCEPT ![c][p] = new] /\ screens' = screens
        /\ viewer' = [viewer EXCEPT ![c][p] = held]
    BY <1>5 DEF SubscribePane
  <2> HIDE DEF new, fresh, seen, held
  <2> QED
    BY <1>0, <2>3, <2>4, <2>5 DEF TypeOK
<1>6. ASSUME NEW c \in ClientId, NEW p \in Pane, NEW size \in Size,
             PaneResize(c, p, size)
      PROVE  \A d \in ClientId, q \in Pane : Ok(d, q)'
  <2>0. screens' = screens /\ viewer' = viewer
    BY <1>6 DEF PaneResize
  <2>1. CASE subs[c][p] = None
    BY <1>6, <1>0, <2>0, <2>1 DEF PaneResize, TypeOK
  <2>2. CASE subs[c][p] # None
    <3> DEFINE new == [subs[c][p] EXCEPT !.size = size]
    <3>1. subs[c][p] \in PaneSubscription
      BY <2>2 DEF TypeOK
    <3>2. new.representation = subs[c][p].representation /\ new.sent = subs[c][p].sent
          /\ new.outstanding = subs[c][p].outstanding
      BY <3>1 DEF PaneSubscription
    <3>3. Served(new, viewer[c][p], screens[p])
      BY <1>0, <2>2, <3>2 DEF Served
    <3>4. subs' = [subs EXCEPT ![c][p] = new]
      BY <1>6, <2>2 DEF PaneResize
    <3> HIDE DEF new
    <3> QED
      BY <1>0, <2>0, <3>3, <3>4 DEF TypeOK
  <2> QED
    BY <2>1, <2>2
<1>7. ASSUME NEW c \in ClientId, NEW p \in Pane, NEW n \in 0..MaxSequence,
             AckPaneScreen(c, p, n)
      PROVE  \A d \in ClientId, q \in Pane : Ok(d, q)'
  <2> DEFINE sub == subs[c][p]
             behind == screens[p] # None /\ sub.sent # screens[p].sequence
  <2>1. PICK after \in PaneSubscription :
           /\ subs' = [subs EXCEPT ![c][p] = after]
           /\ after.representation = sub.representation
           /\ ~behind => after.sent = sub.sent /\ viewer' = viewer
           /\ behind => /\ after.sent = screens[p].sequence
                        /\ viewer' = [viewer EXCEPT ![c][p] = screens[p]]
    BY <1>7, AckEffect
  <2>2. screens' = screens /\ sub # None
    BY <1>7 DEF AckPaneScreen
  <2>3. viewer'[c][p] = IF behind THEN screens[p] ELSE viewer[c][p]
    BY <2>1 DEF TypeOK
  <2>4. Served(after, viewer'[c][p], screens[p])
    BY <1>0, <2>1, <2>2, <2>3 DEF Served
  <2>5. ASSUME NEW d \in ClientId, NEW q \in Pane, ~(d = c /\ q = p)
        PROVE  subs'[d][q] = subs[d][q] /\ viewer'[d][q] = viewer[d][q]
    BY <2>1, <2>5 DEF TypeOK
  <2>6. subs'[c][p] = after
    BY <2>1 DEF TypeOK
  <2> QED
    BY <1>0, <2>2, <2>4, <2>5, <2>6
<1>8. ASSUME NEW p \in Pane, NEW size \in Size, NEW content \in Content,
             PaneFrame(p, size, content)
      PROVE  \A d \in ClientId, q \in Pane : Ok(d, q)'
  <2>1. CASE ScreenWatchers(p) = {}
    <3>1. /\ subs' = subs /\ viewer' = viewer
          /\ \A q \in Pane : screens'[q] \in {None, screens[q]}
      BY <1>8, <2>1 DEF PaneFrame, TypeOK
    <3> QED
      BY <1>0, <3>1 DEF Served
  <2>2. CASE ScreenWatchers(p) # {}
    <3> DEFINE screen == Advanced(p, size, content)
               sentTo == {c \in ScreenWatchers(p) : IsSent(c, p, screen)}
    <3>1. /\ screen \in Screen
          /\ screens' = [screens EXCEPT ![p] = screen]
          /\ \A c \in ClientId, q \in Pane :
                IF q = p /\ c \in sentTo
                THEN /\ subs[c][p] \in PaneSubscription
                     /\ subs'[c][p] = Queued(subs[c][p], screen.sequence)
                     /\ viewer'[c][p] = UpdateFor(c, p, screen)
                ELSE subs'[c][q] = subs[c][q] /\ viewer'[c][q] = viewer[c][q]
      BY <1>8, <2>2, FrameEffect
    <3>2. screen.sequence \in Nat
      BY <3>1 DEF Screen
    <3>3. ASSUME NEW c \in ClientId, c \in sentTo
          PROVE  Ok(c, p)'
      <4>1. subs[c][p] \in PaneSubscription /\ subs[c][p] # None
        BY <3>1, <3>3
      <4>2. UpdateFor(c, p, screen) = screen
        BY <3>1, <4>1, UpdateBrings
      <4>3. Queued(subs[c][p], screen.sequence).sent = screen.sequence
        BY <3>2, <4>1, QueuedFields
      <4>4. screens'[p] = screen
        BY <3>1 DEF TypeOK
      <4> HIDE DEF screen, sentTo
      <4> QED
        BY <3>1, <3>3, <4>2, <4>3, <4>4 DEF Served
    <3>4. screen = LastScreen(p, size) \/ screen.sequence = LastScreen(p, size).sequence + 1
      BY LastScreenType DEF Advanced, Screen
    <3>5. ASSUME NEW c \in ClientId, c \notin sentTo, subs[c][p] # None
          PROVE  Served(subs[c][p], viewer[c][p], screen)
      <4> DEFINE sub == subs[c][p]
      <4>1. sub \in PaneSubscription /\ QueueOK(sub, screens[p])
        BY <3>5, QueueByPane DEF TypeOK
      <4>2. c \in Subscribers(p)
        BY <3>5 DEF RoutesAgree
      <4>3. screens[p] # None => /\ LastScreen(p, size) = screens[p]
                                 /\ LastScreen(p, screen.size) = screens[p]
                                 /\ screens[p].sequence \in Nat
        BY DEF LastScreen, TypeOK, Screen
      <4>4. LastScreen(p, screen.size) \in Screen /\ LastScreen(p, size) \in Screen
        BY <3>1, LastScreenType DEF Screen
      <4> HIDE DEF screen
      <4>5. CASE sub.sent = screen.sequence
        <5>1. screens[p] # None /\ sub.sent <= screens[p].sequence
          BY <3>2, <4>1, <4>5 DEF QueueOK
        <5>2. screen = screens[p]
          BY <3>2, <3>4, <4>3, <4>5, <5>1
        <5> QED
          BY <1>0, <5>2
      <4>6. CASE sub.sent # screen.sequence /\ sub.representation = "screen"
        <5>1. ~(Len(sub.outstanding) < MaxOutstanding)
          BY <3>5, <4>2, <4>6 DEF ScreenWatchers, Watches, IsSent
        <5>2. Len(sub.outstanding) \in Nat
          BY <4>1 DEF PaneSubscription
        <5>3. Len(sub.outstanding) = MaxOutstanding
          BY <4>1, <5>1, <5>2, BrokerConstants DEF QueueOK
        <5> QED
          BY <4>6, <5>3 DEF Served
      <4>7. CASE sub.sent # screen.sequence /\ sub.representation # "screen"
        BY <4>7 DEF Served
      <4> QED
        BY <4>5, <4>6, <4>7
    <3> HIDE DEF screen, sentTo
    <3>6. ASSUME NEW c \in ClientId, NEW q \in Pane
          PROVE  Ok(c, q)'
      <4>1. CASE q = p /\ c \in sentTo
        BY <3>3, <4>1
      <4>2. CASE q = p /\ c \notin sentTo
        <5>1. subs'[c][p] = subs[c][p] /\ viewer'[c][p] = viewer[c][p] /\ screens'[p] = screen
          BY <3>1, <4>2 DEF TypeOK
        <5> QED
          BY <3>5, <4>2, <5>1 DEF Served
      <4>3. CASE q # p
        BY <1>0, <3>1, <4>3 DEF TypeOK
      <4> QED
        BY <4>1, <4>2, <4>3
    <3> QED
      BY <3>6
  <2> QED
    BY <2>1, <2>2
<1>9. ASSUME NEW p \in Pane, CloseIfUnclaimed(p)
      PROVE  \A d \in ClientId, q \in Pane : Ok(d, q)'
  <2>1. subs' = subs /\ viewer' = viewer /\ \A q \in Pane : screens'[q] \in {None, screens[q]}
    BY <1>9 DEF CloseIfUnclaimed, TypeOK
  <2> QED
    BY <1>0, <2>1 DEF Served
<1>10. ASSUME NEW Q \in SUBSET Pane, CloseRoutes(Q)
       PROVE  \A d \in ClientId, q \in Pane : Ok(d, q)'
  <2>1. ASSUME NEW d \in ClientId, NEW q \in Pane
        PROVE  /\ subs'[d][q] # None => subs'[d][q] = subs[d][q] /\ viewer'[d][q] = viewer[d][q]
               /\ screens'[q] \in {None, screens[q]}
    BY <1>10, <2>1 DEF CloseRoutes
  <2> QED
    BY <1>0, <2>1 DEF Served
<1>11. ASSUME NEW c \in ClientId, Connect(c) \/ Hello(c)
       PROVE  subs' = subs /\ screens' = screens /\ viewer' = viewer
  BY <1>11 DEF Connect, Hello
<1>12. ASSUME NEW c \in ClientId, NEW p \in Pane,
              \/ TakeControlRefused(c, p) \/ PaneInput(c, p)
              \/ \E free \in BOOLEAN : TakeControl(c, p, free)
       PROVE  subs' = subs /\ screens' = screens /\ viewer' = viewer
  BY <1>12 DEF TakeControlRefused, PaneInput, TakeControl
<1>13. ASSUME NEW p \in Pane, RouteDowngraded(p)
       PROVE  subs' = subs /\ screens' = screens /\ viewer' = viewer
  BY <1>13 DEF RouteDowngraded
<1> HIDE DEF Ok
<1> QED
  BY <1>1, <1>3, <1>4, <1>5, <1>6, <1>7, <1>8, <1>9, <1>10, <1>11, <1>12, <1>13,
     StepCases

\* The rendered half of the invariant holds with the rest of it.
LEMMA ServedInv == /\ Init => AllServed
                   /\ BrokerInv /\ AllServed /\ StepOrKept => AllServed'
<1>1. Init => AllServed
  BY DEF Init, AllServed, Served
<1>2. BrokerInv /\ AllServed /\ StepOrKept => AllServed'
  <2> SUFFICES ASSUME BrokerInv, AllServed, StepOrKept PROVE AllServed'
    OBVIOUS
  <2>1. CASE Step
    BY <2>1, ServedStep DEF BrokerInv
  <2>2. CASE UNCHANGED kept
    BY <2>2 DEF kept, AllServed
  <2> QED
    BY <2>1, <2>2 DEF StepOrKept
<1> QED
  BY <1>1, <1>2

\* What a viewer holds follows from it.
LEMMA ServedMeans == AllServed => ViewerHoldsScreen /\ NotStranded
BY DEF AllServed, Served, ViewerHoldsScreen, NotStranded, Watches

\* The rendered half of the invariant holds in every state.
LEMMA ServedInvariant == Spec => []AllServed
BY ServedInv, NextIsStep, BrokerInvariant, PTL DEF Spec

\* However whole screens and diffs were mixed (render_for, ack_pane_screen and
\* subscribe_pane each choose for themselves), a viewer that was sent the
\* newest update of a pane holds exactly the pane's screen.
THEOREM ViewersHoldTheScreen == Spec => []ViewerHoldsScreen
BY ServedMeans, ServedInvariant, PTL

\* A viewer that holds less than the newest screen is one whose next
\* acknowledgement brings it: render_for skips only those at their limit.
THEOREM NobodyIsStranded == Spec => []NotStranded
BY ServedMeans, ServedInvariant, PTL

-----------------------------------------------------------------------------
(* The broker implements Leases *)

\* Replacing one route moves at most that pane's watchers.
LEMMA SubscribersUpdate ==
    ASSUME TypeOK, NEW p \in Pane, NEW route \in Route,
           routes' = [routes EXCEPT ![p] = route]
    PROVE  \A q \in Pane : Subscribers(q)' = IF q = p THEN route.subscribers ELSE Subscribers(q)
<1> SUFFICES ASSUME NEW q \in Pane
             PROVE  Subscribers(q)' = IF q = p THEN route.subscribers ELSE Subscribers(q)
  OBVIOUS
<1>0. /\ routes'[p] = route
      /\ routes'[p] # None
      /\ \A r \in Pane : r # p => routes'[r] = routes[r]
  BY RouteUpdate
<1>1. CASE q = p
  BY <1>0, <1>1 DEF Subscribers
<1>2. CASE q # p
  BY <1>0, <1>2 DEF Subscribers
<1> QED
  BY <1>1, <1>2

\* A handler that leaves the watchers and the holder of every pane alone is a
\* step of Leases in which nothing happens.
LEMMA LeaseStutters ==
    ASSUME \A q \in Pane : Subscribers(q)' = Subscribers(q) /\ Holder(q)' = Holder(q)
    PROVE  [Keyboards!LeaseNext]_(Keyboards!leaseVars)
BY DEF Keyboards!leaseVars

\* release_pane, seen from Leases: the client leaves the panes, and what it held
\* of them becomes free.
LEMMA ReleaseIsLeave ==
    ASSUME TypeOK, RoutesAgree, NEW c \in ClientId, NEW P \in SUBSET Pane, Release(c, P)
    PROVE  Keyboards!Leave(c, P)
<1> USE NoneIsAbsent
<1>1. ASSUME NEW q \in Pane
      PROVE  /\ Subscribers(q)' = IF q \in P THEN Subscribers(q) \ {c} ELSE Subscribers(q)
             /\ Holder(q)' = IF q \in P /\ Holder(q) = c THEN None ELSE Holder(q)
  <2>1. CASE q \notin P \/ routes[q] = None
    <3>1. routes'[q] = routes[q]
      BY <2>1 DEF Release
    <3> QED
      BY <2>1, <3>1 DEF Subscribers, Holder
  <2>2. CASE q \in P /\ routes[q] # None
    <3>1. routes'[q] = ReleasedRoute(c, q) /\ routes[q] \in Route
      BY <2>2 DEF Release, TypeOK
    <3>2. ReleasedRoute(c, q) \in Route
      BY <2>2, ReleasedRouteType
    <3>3. routes'[q] # None
      BY <3>1, <3>2
    <3>4. ReleasedRoute(c, q).subscribers = routes[q].subscribers \ {c}
      BY <3>1 DEF ReleasedRoute, Route
    <3>5. ReleasedRoute(c, q).control = IF routes[q].control = c THEN None ELSE routes[q].control
      <4>1. routes[q].control # None => routes[q].control \in routes[q].subscribers
        BY <2>2 DEF RoutesAgree
      <4> QED
        BY <3>1, <4>1 DEF ReleasedRoute, Route
    <3> QED
      BY <2>2, <3>1, <3>3, <3>4, <3>5 DEF Subscribers, Holder
  <2> QED
    BY <2>1, <2>2
<1> QED
  BY <1>1 DEF Keyboards!Leave

\* Every handler of the broker is a step of Leases or leaves it alone.
LEMMA RefinementStep ==
    ASSUME TypeOK, RoutesAgree, QueueInSequenceSpace, Step
    PROVE  [Keyboards!LeaseNext]_(Keyboards!leaseVars)
<1> DEFINE Goal == [Keyboards!LeaseNext]_(Keyboards!leaseVars)
<1> USE NoneIsAbsent
<1>1. ASSUME routes' = routes PROVE Goal
  BY <1>1, LeaseStutters DEF Subscribers, Holder
<1>2. ASSUME NEW c \in ClientId, Connect(c) \/ Hello(c) PROVE Goal
  BY <1>1, <1>2 DEF Connect, Hello
<1>3. ASSUME NEW c \in ClientId, Disconnect(c) PROVE Goal
  <2> DEFINE P == {p \in Pane : subs[c][p] # None}
  <2>1. P \in SUBSET Pane /\ Release(c, P)
    BY <1>3 DEF Disconnect
  <2> HIDE DEF P
  <2> QED
    BY <2>1, ReleaseIsLeave DEF Keyboards!LeaseNext
<1>4. ASSUME NEW c \in ClientId, NEW p \in Pane, UnsubscribePane(c, p) PROVE Goal
  <2>1. {p} \in SUBSET Pane /\ Release(c, {p})
    BY <1>4 DEF UnsubscribePane
  <2> QED
    BY <2>1, ReleaseIsLeave DEF Keyboards!LeaseNext
<1>5. ASSUME NEW c \in ClientId, NEW p \in Pane, NEW access \in Access,
             NEW size \in Size, NEW repr \in Representation,
             SubscribePane(c, p, access, size, repr)
      PROVE  Goal
  <2> DEFINE new == SubscribedRoute(c, p, access, size)
  <2>1. new \in Route /\ routes' = [routes EXCEPT ![p] = new]
    BY <1>5, SubscribedRouteType DEF SubscribePane
  <2>2. new.subscribers = Subscribers(p) \cup {c}
    <3>1. routes[p] # None => routes[p] \in Route
      BY DEF TypeOK
    <3> QED
      BY <3>1 DEF SubscribedRoute, Subscribers, Route
  <2>3. new.control = Holder(p) \/ (Holder(p) = None /\ new.control = c)
    <3>1. routes[p] # None => routes[p] \in Route
      BY DEF TypeOK
    <3> QED
      BY <3>1 DEF SubscribedRoute, Holder, Route
  <2> HIDE DEF new
  <2>4. \A q \in Pane : Subscribers(q)' = IF q = p THEN new.subscribers ELSE Subscribers(q)
    BY <2>1, SubscribersUpdate
  <2>5. \A q \in Pane : Holder(q)' = IF q = p THEN new.control ELSE Holder(q)
    BY <2>1, HolderUpdate
  <2>6. Keyboards!Watch(c, p)
    BY <2>2, <2>3, <2>4, <2>5 DEF Keyboards!Watch
  <2> QED
    BY <2>6 DEF Keyboards!LeaseNext
<1>6. ASSUME NEW c \in ClientId, NEW p \in Pane, NEW free \in BOOLEAN,
             TakeControl(c, p, free)
      PROVE  Goal
  <2> DEFINE new == [routes[p] EXCEPT !.control = c, !.size = subs[c][p].size,
                                      !.access = "control"]
  <2>1. /\ routes[p] \in Route /\ routes[p] # None /\ subs[c][p] \in PaneSubscription
        /\ routes' = [routes EXCEPT ![p] = new]
    BY <1>6 DEF TypeOK, TakeControl
  <2>2. new \in Route /\ new.control = c /\ new.subscribers = Subscribers(p)
    BY <2>1 DEF Route, PaneSubscription, Subscribers
  <2> HIDE DEF new
  <2>3. \A q \in Pane : Subscribers(q)' = Subscribers(q)
    BY <2>1, <2>2, SubscribersUpdate
  <2>4. \A q \in Pane : Holder(q)' = IF q = p THEN c ELSE Holder(q)
    BY <2>1, <2>2, HolderUpdate
  <2>5. c \in Subscribers(p)
    BY <1>6 DEF TakeControl, RoutesAgree
  <2>6. Keyboards!Seize(c, p)
    BY <2>3, <2>4, <2>5 DEF Keyboards!Seize
  <2> QED
    BY <2>6 DEF Keyboards!LeaseNext
<1>7. ASSUME NEW c \in ClientId, NEW p \in Pane, TakeControlRefused(c, p) \/ PaneInput(c, p)
      PROVE  Goal
  BY <1>1, <1>7 DEF TakeControlRefused, PaneInput
<1>8. ASSUME NEW c \in ClientId, NEW p \in Pane, NEW size \in Size, PaneResize(c, p, size)
      PROVE  Goal
  <2> DEFINE new == [routes[p] EXCEPT !.size = size]
  <2>1. routes[p] \in Route /\ routes[p] # None /\ routes' = [routes EXCEPT ![p] = new]
    BY <1>8 DEF TypeOK, PaneResize, HoldsControl
  <2>2. new \in Route /\ new.control = Holder(p) /\ new.subscribers = Subscribers(p)
    BY <2>1 DEF Route, Subscribers, Holder
  <2> HIDE DEF new
  <2>3. \A q \in Pane : Subscribers(q)' = Subscribers(q)
    BY <2>1, <2>2, SubscribersUpdate
  <2>4. \A q \in Pane : Holder(q)' = Holder(q)
    BY <2>1, <2>2, HolderUpdate
  <2> QED
    BY <2>3, <2>4, LeaseStutters
<1>9. ASSUME NEW c \in ClientId, NEW p \in Pane, NEW n \in 0..MaxSequence,
             AckPaneScreen(c, p, n)
      PROVE  Goal
  BY <1>1, <1>9 DEF AckPaneScreen
<1>10. ASSUME NEW p \in Pane, NEW size \in Size, NEW content \in Content,
              PaneFrame(p, size, content)
       PROVE  Goal
  BY <1>1, <1>10 DEF PaneFrame
<1>11. ASSUME NEW p \in Pane, CloseIfUnclaimed(p) PROVE Goal
  <2>1. routes[p] # None /\ routes[p].subscribers = {} /\ routes[p].control = None
    BY <1>11 DEF CloseIfUnclaimed, RoutesAgree
  <2>2. routes'[p] = None /\ \A q \in Pane : q # p => routes'[q] = routes[q]
    BY <1>11 DEF CloseIfUnclaimed, TypeOK
  <2>3. \A q \in Pane : Subscribers(q)' = Subscribers(q) /\ Holder(q)' = Holder(q)
    BY <2>1, <2>2 DEF Subscribers, Holder
  <2> QED
    BY <2>3, LeaseStutters
<1>12. ASSUME NEW p \in Pane, RouteDowngraded(p) PROVE Goal
  <2> DEFINE new == [routes[p] EXCEPT !.access = "observe", !.control = None]
  <2>1. routes[p] \in Route /\ routes[p] # None /\ routes' = [routes EXCEPT ![p] = new]
    BY <1>12 DEF TypeOK, RouteDowngraded
  <2>2. new \in Route /\ new.control = None /\ new.subscribers = Subscribers(p)
    BY <2>1 DEF Route, Subscribers
  <2> HIDE DEF new
  <2>3. \A q \in Pane : Subscribers(q)' = Subscribers(q)
    BY <2>1, <2>2, SubscribersUpdate
  <2>4. \A q \in Pane : Holder(q)' = IF q = p THEN None ELSE Holder(q)
    BY <2>1, <2>2, HolderUpdate
  <2>5. Keyboards!Revoke(p)
    BY <2>3, <2>4 DEF Keyboards!Revoke
  <2> QED
    BY <2>5 DEF Keyboards!LeaseNext
<1>13. ASSUME NEW Q \in SUBSET Pane, CloseRoutes(Q) PROVE Goal
  <2>1. \A q \in Pane : routes'[q] = IF q \in Q THEN None ELSE routes[q]
    BY <1>13 DEF CloseRoutes
  <2>2. \A q \in Pane : Subscribers(q)' = IF q \in Q THEN {} ELSE Subscribers(q)
    BY <2>1 DEF Subscribers
  <2>3. \A q \in Pane : Holder(q)' = IF q \in Q THEN None ELSE Holder(q)
    BY <2>1 DEF Holder
  <2>4. Keyboards!Retire(Q)
    BY <2>2, <2>3 DEF Keyboards!Retire
  <2> QED
    BY <2>4 DEF Keyboards!LeaseNext
<1> HIDE DEF Goal
<1>14. Goal
  BY <1>2, <1>3, <1>4, <1>5, <1>6, <1>7, <1>8, <1>9, <1>10, <1>11, <1>12, <1>13, StepCases
<1> QED
  BY <1>14 DEF Goal

\* What the refinement mapping needs of Spec, for the daemon's steps too.
LEMMA RefinementInv ==
    /\ Init => Keyboards!LeaseInit
    /\ BrokerInv /\ StepOrKept => [Keyboards!LeaseNext]_(Keyboards!leaseVars)
<1>1. Init => Keyboards!LeaseInit
  BY DEF Init, Keyboards!LeaseInit, Subscribers, Holder
<1>2. BrokerInv /\ StepOrKept => [Keyboards!LeaseNext]_(Keyboards!leaseVars)
  <2> SUFFICES ASSUME BrokerInv, StepOrKept
               PROVE  [Keyboards!LeaseNext]_(Keyboards!leaseVars)
    OBVIOUS
  <2>1. CASE Step
    BY <2>1, RefinementStep DEF BrokerInv
  <2>2. CASE UNCHANGED kept
    BY <2>2, LeaseStutters DEF kept, Subscribers, Holder
  <2> QED
    BY <2>1, <2>2 DEF StepOrKept
<1> QED
  BY <1>1, <1>2

\* The broker implements Leases: a keyboard is given only to a watcher, leaves
\* one only because another watcher took it or herdr refused input, and is freed,
\* never handed on, when its holder goes.
THEOREM BrokerImplementsLeases == Spec => ImplementsLeases
BY RefinementInv, NextIsStep, BrokerInvariant, PTL
   DEF Spec, ImplementsLeases, Keyboards!LeaseSpec

-----------------------------------------------------------------------------
(* The daemon around the broker: what is left to do brings each stream to its route *)

Opening(route) == OpenRoute(route.access, route.size)

\* A stream after it was told a size (send_to_route).
Resized(st, size) ==
    IF st # None /\ st.access = "control" THEN [st EXCEPT !.size = size] ELSE st

\* The stream st with n endings unreported is what the route asks for.
Serving(route, st, n) ==
    IF st = None THEN n > 0
    ELSE /\ st.access = route.access
         /\ st.access = "control" => st.size = route.size
         /\ st.running \/ n > 0

\* What is left to do makes the stream st serve the route.
Fits(route, st, todo, n) ==
    IF route = None THEN todo \in {<<>>, <<CloseRoute>>}
    ELSE \/ todo \in {<<>>, <<RouteUnclaimed>>, <<RouteInput>>} /\ Serving(route, st, n)
         \/ todo = <<RouteResize(route.size)>> /\ Serving(route, Resized(st, route.size), n)
         \/ todo \in {<<Opening(route)>>, <<CloseRoute, Opening(route)>>,
                      <<RouteResize(route.size), CloseRoute, Opening(route)>>}

\* The stream was opened with less access than asked, and the broker is the
\* next to know.
Refused(route, st, todo, n) ==
    /\ route # None /\ route.access = "control"
    /\ st # None /\ st.access = "observe" /\ (st.running \/ n > 0)
    /\ todo = <<>>

Carried(p) ==
    IF p \in downgraded THEN Refused(routes[p], stream[p], orders[p], reports[p])
                        ELSE Fits(routes[p], stream[p], orders[p], reports[p])

\* The daemon's own state is well typed.
DaemonTypeOK ==
    /\ stream \in [Pane -> Stream \cup {None}]
    /\ reports \in [Pane -> Nat]
    /\ downgraded \in SUBSET Pane
    /\ orders = [p \in Pane |-> orders[p]]

DaemonInv == /\ BrokerInv /\ AllServed
             /\ DaemonTypeOK
             /\ \A p \in Pane : Carried(p)

-----------------------------------------------------------------------------
(* Performing effects *)

\* The lists of effects the broker hands out, taken up one by one.
LEMMA TakingUp ==
    ASSUME NEW a, NEW b, NEW c
    PROVE  /\ <<a>> # <<>> /\ Head(<<a>>) = a /\ Tail(<<a>>) = <<>>
           /\ <<a, b>> # <<>> /\ Head(<<a, b>>) = a /\ Tail(<<a, b>>) = <<b>>
           /\ <<a, b, c>> # <<>> /\ Head(<<a, b, c>>) = a /\ Tail(<<a, b, c>>) = <<b, c>>
OBVIOUS

\* An effect is what its type says.
LEMMA EffectTypes ==
    ASSUME NEW access, NEW size
    PROVE  /\ OpenRoute(access, size).type = "open"
           /\ OpenRoute(access, size).access = access
           /\ OpenRoute(access, size).size = size
           /\ CloseRoute.type = "close"
           /\ RouteResize(size).type = "resize"
           /\ RouteResize(size).size = size
           /\ RouteUnclaimed.type = "unclaimed"
           /\ RouteInput.type = "input"
BY DEF OpenRoute, CloseRoute, RouteResize, RouteUnclaimed, RouteInput

\* What the next effect says about the list it heads.
LEMMA NextEffect ==
    ASSUME NEW route, NEW st, NEW todo, NEW n, Fits(route, st, todo, n), todo # <<>>
    PROVE  /\ Head(todo).type = "open" => route # None /\ todo = <<Opening(route)>>
           /\ Head(todo).type = "close" =>
                 \/ route = None /\ todo = <<CloseRoute>>
                 \/ route # None /\ todo = <<CloseRoute, Opening(route)>>
           /\ Head(todo).type = "resize" =>
                 /\ route # None
                 /\ \/ /\ todo = <<RouteResize(route.size)>>
                       /\ Serving(route, Resized(st, route.size), n)
                    \/ todo = <<RouteResize(route.size), CloseRoute, Opening(route)>>
           /\ Head(todo).type = "input" =>
                 \/ route # None /\ todo = <<RouteInput>> /\ Serving(route, st, n)
<1> DEFINE open == Opening(route)
           resize == RouteResize(route.size)
<1>1. open.type = "open" /\ resize.type = "resize"
  BY EffectTypes DEF Opening
<1>2. CASE route = None
  <2>1. todo = <<CloseRoute>> /\ Head(todo) = CloseRoute
    BY <1>2, TakingUp DEF Fits
  <2> QED
    BY <1>2, <2>1, EffectTypes
<1>3. CASE route # None /\ todo \in {<<RouteUnclaimed>>, <<RouteInput>>} /\ Serving(route, st, n)
  <2>1. CASE todo = <<RouteUnclaimed>>
    <3>1. Head(todo).type = "unclaimed"
      BY <2>1, TakingUp, EffectTypes
    <3> QED
      BY <3>1
  <2>2. CASE todo = <<RouteInput>>
    <3>1. Head(todo).type = "input"
      BY <2>2, TakingUp, EffectTypes
    <3> QED
      BY <1>3, <2>2, <3>1
  <2> QED
    BY <1>3, <2>1, <2>2
<1>4. CASE /\ route # None /\ todo = <<resize>>
           /\ Serving(route, Resized(st, route.size), n)
  <2>1. Head(todo).type = "resize"
    BY <1>1, <1>4, TakingUp
  <2> QED
    BY <1>4, <2>1
<1>5. CASE route # None /\ todo = <<open>>
  <2>1. Head(todo).type = "open"
    BY <1>1, <1>5, TakingUp
  <2> QED
    BY <1>5, <2>1
<1>6. CASE route # None /\ todo = <<CloseRoute, open>>
  <2>1. Head(todo).type = "close"
    BY <1>6, TakingUp, EffectTypes
  <2> QED
    BY <1>6, <2>1
<1>7. CASE route # None /\ todo = <<resize, CloseRoute, open>>
  <2>1. Head(todo).type = "resize"
    BY <1>1, <1>7, TakingUp
  <2> QED
    BY <1>7, <2>1
<1> QED
  BY <1>2, <1>3, <1>4, <1>5, <1>6, <1>7 DEF Fits

\* A pane nothing happened to is carried as before.
LEMMA Undisturbed ==
    ASSUME NEW q \in Pane, Carried(q), routes'[q] = routes[q], stream'[q] = stream[q],
           orders'[q] = orders[q], reports'[q] = reports[q],
           q \in downgraded' <=> q \in downgraded
    PROVE  Carried(q)'
BY DEF Carried

\* A pane with something to do was not opened with less access.
LEMMA BusyFits ==
    ASSUME NEW p \in Pane, Carried(p), orders[p] # <<>>
    PROVE  p \notin downgraded /\ Fits(routes[p], stream[p], orders[p], reports[p])
BY DEF Carried, Refused

\* A route that has nothing left to do is served.
LEMMA SettledFits ==
    ASSUME NEW route, NEW st, NEW n, Fits(route, st, <<>>, n), route # None
    PROVE  Serving(route, st, n)
BY TakingUp DEF Fits

\* Carrying out the next effect on one pane: the others are left alone.
LEMMA OnePaneStep ==
    ASSUME NEW p \in Pane, DaemonInv, UNCHANGED routes, DaemonTypeOK',
           \A q \in Pane : q # p => /\ stream'[q] = stream[q] /\ orders'[q] = orders[q]
                                    /\ reports'[q] = reports[q]
                                    /\ q \in downgraded' <=> q \in downgraded,
           Carried(p)'
    PROVE  \A q \in Pane : Carried(q)'
<1> TAKE q \in Pane
<1>1. CASE q # p
  BY <1>1, Undisturbed DEF DaemonInv
<1> QED
  BY <1>1

\* Effect::OpenRoute: the stream has what was asked for, or the broker is about
\* to hear of what it lacks.
LEMMA OpenStep ==
    ASSUME DaemonInv, NEW p \in Pane, PerformOpen(p)
    PROVE  DaemonTypeOK' /\ \A q \in Pane : Carried(q)'
<1> DEFINE route == routes[p]
           opened(access) == [access |-> access, size |-> route.size, running |-> TRUE]
<1>1. /\ routes[p] # None /\ p \notin downgraded
      /\ orders[p] = <<Opening(route)>>
  BY BusyFits, NextEffect DEF PerformOpen, Next1, DaemonInv
<1>2. route \in Route
  BY <1>1 DEF DaemonInv, BrokerInv, TypeOK
<1>3. /\ Next1(p).access = route.access /\ Next1(p).size = route.size
      /\ Tail(orders[p]) = <<>>
  BY <1>1, TakingUp, EffectTypes DEF Next1, Opening
<1>4. /\ orders' = [orders EXCEPT ![p] = <<>>]
      /\ UNCHANGED routes
  BY <1>3 DEF PerformOpen, Performed
<1>5. \/ /\ stream' = [stream EXCEPT ![p] = opened(route.access)]
         /\ UNCHANGED <<downgraded, reports>>
      \/ /\ route.access = "control"
         /\ stream' = [stream EXCEPT ![p] = opened("observe")]
         /\ downgraded' = downgraded \cup {p}
         /\ UNCHANGED reports
      \/ /\ stream' = [stream EXCEPT ![p] = None]
         /\ reports' = [reports EXCEPT ![p] = @ + 1]
         /\ UNCHANGED downgraded
  BY <1>3 DEF PerformOpen
<1>6. opened(route.access) \in Stream /\ opened("observe") \in Stream
  BY <1>2 DEF Route, Stream
<1>7. DaemonTypeOK'
  <2>1. /\ stream \in [Pane -> Stream \cup {None}] /\ reports \in [Pane -> Nat]
        /\ downgraded \in SUBSET Pane /\ orders = [q \in Pane |-> orders[q]]
    BY DEF DaemonInv, DaemonTypeOK
  <2> HIDE DEF opened
  <2>2. stream' \in [Pane -> Stream \cup {None}]
    BY <1>5, <1>6, <2>1
  <2>3. reports' \in [Pane -> Nat] /\ downgraded' \in SUBSET Pane
    BY <1>5, <2>1
  <2>4. orders' = [q \in Pane |-> orders'[q]]
    BY <1>4, <2>1
  <2> QED
    BY <2>2, <2>3, <2>4 DEF DaemonTypeOK
<1>8. /\ orders'[p] = <<>> /\ routes'[p] = route
      /\ \A q \in Pane : q # p => /\ stream'[q] = stream[q] /\ orders'[q] = orders[q]
                                  /\ reports'[q] = reports[q]
                                  /\ q \in downgraded' <=> q \in downgraded
  BY <1>4, <1>5 DEF DaemonInv, DaemonTypeOK
<1>9. Carried(p)'
  <2>1. CASE /\ stream' = [stream EXCEPT ![p] = opened(route.access)]
             /\ UNCHANGED <<downgraded, reports>>
    <3>1. stream'[p] = opened(route.access) /\ stream'[p] # None /\ p \notin downgraded'
      BY <1>1, <1>6, <2>1, DaemonConstants DEF DaemonInv, DaemonTypeOK
    <3>2. Serving(route, stream'[p], reports'[p])
      BY <3>1 DEF Serving
    <3> QED
      BY <1>1, <1>8, <3>1, <3>2 DEF Carried, Fits
  <2>2. CASE /\ route.access = "control"
             /\ stream' = [stream EXCEPT ![p] = opened("observe")]
             /\ downgraded' = downgraded \cup {p}
    <3>1. stream'[p] = opened("observe") /\ stream'[p] # None /\ p \in downgraded'
      BY <1>1, <1>6, <2>2, DaemonConstants DEF DaemonInv, DaemonTypeOK
    <3> QED
      BY <1>1, <1>8, <2>2, <3>1 DEF Carried, Refused
  <2>3. CASE /\ stream' = [stream EXCEPT ![p] = None]
             /\ reports' = [reports EXCEPT ![p] = @ + 1]
             /\ UNCHANGED downgraded
    <3>1. stream'[p] = None /\ reports'[p] > 0 /\ p \notin downgraded'
      BY <1>1, <2>3 DEF DaemonInv, DaemonTypeOK
    <3>2. Serving(route, stream'[p], reports'[p])
      BY <3>1 DEF Serving
    <3> QED
      BY <1>1, <1>8, <3>1, <3>2 DEF Carried, Fits
  <2> QED
    BY <1>5, <2>1, <2>2, <2>3
<1> QED
  BY <1>4, <1>7, <1>8, <1>9, OnePaneStep

\* Effect::CloseRoute: a stream that is reopened next, or whose route is gone.
LEMMA CloseStep ==
    ASSUME DaemonInv, NEW p \in Pane, PerformClose(p)
    PROVE  DaemonTypeOK' /\ \A q \in Pane : Carried(q)'
<1>1. /\ p \notin downgraded
      /\ \/ routes[p] = None /\ orders[p] = <<CloseRoute>>
         \/ routes[p] # None /\ orders[p] = <<CloseRoute, Opening(routes[p])>>
  BY BusyFits, NextEffect DEF PerformClose, Next1, DaemonInv
<1>2. /\ stream' = [stream EXCEPT ![p] = None]
      /\ orders' = [orders EXCEPT ![p] = Tail(orders[p])]
      /\ UNCHANGED <<routes, downgraded, reports>>
  BY DEF PerformClose, Performed
<1>3. DaemonTypeOK'
  BY <1>2 DEF DaemonInv, DaemonTypeOK
<1>4. /\ orders'[p] = Tail(orders[p]) /\ routes'[p] = routes[p] /\ p \notin downgraded'
      /\ \A q \in Pane : q # p => /\ stream'[q] = stream[q] /\ orders'[q] = orders[q]
                                  /\ reports'[q] = reports[q]
                                  /\ q \in downgraded' <=> q \in downgraded
  BY <1>1, <1>2 DEF DaemonInv, DaemonTypeOK
<1>5. Carried(p)'
  <2>1. CASE routes[p] = None /\ orders[p] = <<CloseRoute>>
    <3>1. orders'[p] = <<>>
      BY <1>4, <2>1, TakingUp
    <3> QED
      BY <1>4, <2>1, <3>1 DEF Carried, Fits
  <2>2. CASE routes[p] # None /\ orders[p] = <<CloseRoute, Opening(routes[p])>>
    <3>1. orders'[p] = <<Opening(routes[p])>>
      BY <1>4, <2>2, TakingUp
    <3> QED
      BY <1>4, <2>2, <3>1 DEF Carried, Fits
  <2> QED
    BY <1>1, <2>1, <2>2
<1> QED
  BY <1>2, <1>3, <1>4, <1>5, OnePaneStep

\* Effect::RouteResize: a stream that can hear it has the route's size.
LEMMA ResizeStep ==
    ASSUME DaemonInv, NEW p \in Pane, PerformResize(p)
    PROVE  DaemonTypeOK' /\ \A q \in Pane : Carried(q)'
<1> DEFINE route == routes[p]
<1>1. /\ p \notin downgraded /\ route # None
      /\ \/ /\ orders[p] = <<RouteResize(route.size)>>
            /\ Serving(route, Resized(stream[p], route.size), reports[p])
         \/ orders[p] = <<RouteResize(route.size), CloseRoute, Opening(route)>>
  BY BusyFits, NextEffect DEF PerformResize, Next1, DaemonInv
<1>2. Next1(p).size = route.size /\ route.size \in Size
  <2>1. route \in Route
    BY <1>1 DEF DaemonInv, BrokerInv, TypeOK
  <2> QED
    BY <1>1, <2>1, TakingUp, EffectTypes DEF Next1, Route
<1>3. /\ stream' = [stream EXCEPT ![p] = Resized(stream[p], route.size)]
      /\ orders' = [orders EXCEPT ![p] = Tail(orders[p])]
      /\ UNCHANGED <<routes, downgraded, reports>>
  BY <1>2 DEF PerformResize, Performed, Resized
<1>4. Resized(stream[p], route.size) \in Stream \cup {None}
  <2>1. stream[p] # None => stream[p] \in Stream
    BY DEF DaemonInv, DaemonTypeOK
  <2>2. stream[p] \in Stream \cup {None}
    BY DEF DaemonInv, DaemonTypeOK
  <2> QED
    BY <1>2, <2>1, <2>2 DEF Stream, Resized
<1>5. DaemonTypeOK'
  BY <1>3, <1>4 DEF DaemonInv, DaemonTypeOK
<1>6. /\ orders'[p] = Tail(orders[p]) /\ routes'[p] = route /\ p \notin downgraded'
      /\ stream'[p] = Resized(stream[p], route.size) /\ reports'[p] = reports[p]
      /\ \A q \in Pane : q # p => /\ stream'[q] = stream[q] /\ orders'[q] = orders[q]
                                  /\ reports'[q] = reports[q]
                                  /\ q \in downgraded' <=> q \in downgraded
  BY <1>1, <1>3 DEF DaemonInv, DaemonTypeOK
<1>7. Carried(p)'
  <2>1. CASE /\ orders[p] = <<RouteResize(route.size)>>
             /\ Serving(route, Resized(stream[p], route.size), reports[p])
    <3>1. orders'[p] = <<>>
      BY <1>6, <2>1, TakingUp
    <3> QED
      BY <1>1, <1>6, <2>1, <3>1 DEF Carried, Fits
  <2>2. CASE orders[p] = <<RouteResize(route.size), CloseRoute, Opening(route)>>
    <3>1. orders'[p] = <<CloseRoute, Opening(route)>>
      BY <1>6, <2>2, TakingUp
    <3> QED
      BY <1>1, <1>6, <3>1 DEF Carried, Fits
  <2> QED
    BY <1>1, <2>1, <2>2
<1> QED
  BY <1>3, <1>5, <1>6, <1>7, OnePaneStep

\* Effect::RouteInput changes nothing the daemon keeps.
LEMMA InputStep ==
    ASSUME DaemonInv, NEW p \in Pane, PerformInput(p)
    PROVE  DaemonTypeOK' /\ \A q \in Pane : Carried(q)'
<1>1. /\ p \notin downgraded /\ routes[p] # None
      /\ orders[p] = <<RouteInput>> /\ Serving(routes[p], stream[p], reports[p])
  BY BusyFits, NextEffect DEF PerformInput, Next1, DaemonInv
<1>2. orders' = [orders EXCEPT ![p] = <<>>] /\ UNCHANGED <<routes, daemonVars>>
  BY <1>1, TakingUp DEF PerformInput, Performed
<1>3. DaemonTypeOK'
  BY <1>2 DEF DaemonInv, DaemonTypeOK, daemonVars
<1>4. orders'[p] = <<>> /\ \A q \in Pane : q # p => orders'[q] = orders[q]
  BY <1>2 DEF DaemonInv, DaemonTypeOK
<1>5. Carried(p)'
  BY <1>1, <1>2, <1>4 DEF Carried, Fits, daemonVars
<1> QED
  BY <1>2, <1>3, <1>4, <1>5, OnePaneStep DEF daemonVars

\* What close_if_unclaimed asks for is the end of the stream of a route that
\* is gone.
LEMMA UnclaimedStep ==
    ASSUME DaemonInv, NEW p \in Pane, PerformUnclaimed(p)
    PROVE  DaemonTypeOK' /\ \A q \in Pane : Carried(q)'
<1>1. p \notin downgraded
  BY BusyFits DEF PerformUnclaimed, DaemonInv
<1>2. /\ orders' = [orders EXCEPT ![p] = <<CloseRoute>>]
      /\ routes' = [routes EXCEPT ![p] = None] /\ UNCHANGED daemonVars
  BY DEF PerformUnclaimed, CloseIfUnclaimed
<1>3. DaemonTypeOK'
  BY <1>2 DEF DaemonInv, DaemonTypeOK, daemonVars
<1>4. /\ orders'[p] = <<CloseRoute>> /\ routes'[p] = None
      /\ \A q \in Pane : q # p => orders'[q] = orders[q] /\ routes'[q] = routes[q]
  BY <1>2 DEF DaemonInv, DaemonTypeOK, BrokerInv, TypeOK
<1>5. Carried(p)'
  BY <1>1, <1>2, <1>4 DEF Carried, Fits, daemonVars
<1>6. ASSUME NEW q \in Pane, q # p PROVE Carried(q)'
  BY <1>2, <1>4, <1>6, Undisturbed DEF DaemonInv, daemonVars
<1> QED
  BY <1>3, <1>5, <1>6

\* route_downgraded: the broker believes what the stream is.
LEMMA DowngradeStep ==
    ASSUME DaemonInv, NEW p \in Pane, ReportDowngrade(p)
    PROVE  DaemonTypeOK' /\ \A q \in Pane : Carried(q)'
<1> DEFINE new == [routes[p] EXCEPT !.access = "observe", !.control = None]
<1>1. /\ p \in downgraded /\ downgraded' = downgraded \ {p}
      /\ routes' = [routes EXCEPT ![p] = new] /\ UNCHANGED <<orders, stream, reports>>
  BY DEF ReportDowngrade, RouteDowngraded
<1>2. Refused(routes[p], stream[p], orders[p], reports[p])
  BY <1>1 DEF DaemonInv, Carried
<1>3. new \in Route /\ new.access = "observe"
  <2>1. routes[p] \in Route
    BY <1>2 DEF Refused, DaemonInv, BrokerInv, TypeOK
  <2> QED
    BY <2>1 DEF Route
<1> HIDE DEF new
<1>4. DaemonTypeOK'
  BY <1>1 DEF DaemonInv, DaemonTypeOK
<1>5. /\ routes'[p] = new /\ routes'[p] # None /\ p \notin downgraded'
      /\ \A q \in Pane : q # p => routes'[q] = routes[q]
                              /\ (q \in downgraded' <=> q \in downgraded)
  BY <1>1, <1>3, NoneIsAbsent DEF DaemonInv, BrokerInv, TypeOK
<1>6. Carried(p)'
  <2>1. Serving(new, stream[p], reports[p]) /\ orders[p] = <<>>
    BY <1>2, <1>3 DEF Refused, Serving
  <2> QED
    BY <1>1, <1>5, <2>1 DEF Carried, Fits
<1>7. ASSUME NEW q \in Pane, q # p PROVE Carried(q)'
  BY <1>1, <1>5, <1>7, Undisturbed DEF DaemonInv
<1> QED
  BY <1>4, <1>6, <1>7

-----------------------------------------------------------------------------
(* Taking inputs *)

\* Between two inputs nothing is left to do for any pane.
LEMMA IdleFits ==
    ASSUME DaemonInv, Idle, NEW q \in Pane
    PROVE  /\ orders[q] = <<>> /\ q \notin downgraded
           /\ Fits(routes[q], stream[q], <<>>, reports[q])
BY DEF DaemonInv, Idle, NoOrders, Carried

\* An input that leaves the streams alone: what it orders is judged against
\* what was there.
LEMMA InputFits ==
    ASSUME DaemonInv, Idle, UNCHANGED daemonVars, orders' = [q \in Pane |-> orders'[q]],
           \A q \in Pane : Fits(routes'[q], stream[q], orders'[q], reports[q])
    PROVE  DaemonTypeOK' /\ \A q \in Pane : Carried(q)'
<1>1. DaemonTypeOK'
  BY DEF DaemonInv, DaemonTypeOK, daemonVars
<1>2. \A q \in Pane : q \notin downgraded'
  BY IdleFits DEF daemonVars
<1> QED
  BY <1>1, <1>2 DEF Carried, daemonVars

\* The same when one pane is concerned.
LEMMA OnePaneInput ==
    ASSUME DaemonInv, Idle, UNCHANGED daemonVars, NEW p \in Pane, NEW effects,
           NEW route, orders' = OrdersFor(p, effects), routes' = [routes EXCEPT ![p] = route],
           Fits(route, stream[p], effects, reports[p])
    PROVE  DaemonTypeOK' /\ \A q \in Pane : Carried(q)'
<1>1. orders' = [q \in Pane |-> IF q = p THEN effects ELSE <<>>]
  BY DEF OrdersFor, NoOrders
<1>2. \A q \in Pane : routes'[q] = IF q = p THEN route ELSE routes[q]
  BY DEF DaemonInv, BrokerInv, TypeOK
<1>3. \A q \in Pane : Fits(routes'[q], stream[q], orders'[q], reports[q])
  BY <1>1, <1>2, IdleFits
<1> QED
  BY <1>1, <1>3, InputFits

\* And when none is.
LEMMA NoPaneInput ==
    ASSUME DaemonInv, Idle, UNCHANGED daemonVars, orders' = NoOrders, routes' = routes
    PROVE  DaemonTypeOK' /\ \A q \in Pane : Carried(q)'
<1>1. \A q \in Pane : Fits(routes'[q], stream[q], orders'[q], reports[q])
  BY IdleFits DEF NoOrders
<1> QED
  BY <1>1, InputFits DEF NoOrders

\* release_pane: a stream whose holder left is reopened to observe.
LEMMA ReleaseFits ==
    ASSUME DaemonInv, Idle, UNCHANGED daemonVars, NEW c \in ClientId,
           NEW P \in SUBSET Pane, Release(c, P)
    PROVE  DaemonTypeOK' /\ \A q \in Pane : Carried(q)'
<1>1. ASSUME NEW q \in Pane
      PROVE  Fits(routes'[q], stream[q], orders'[q], reports[q])
  <2>1. CASE q \notin P \/ routes[q] = None
    <3>1. routes'[q] = routes[q] /\ orders'[q] = <<>>
      BY <2>1 DEF Release
    <3> QED
      BY <3>1, IdleFits
  <2>2. CASE q \in P /\ routes[q] # None
    <3> DEFINE new == ReleasedRoute(c, q)
               rest == routes[q].subscribers \ {c}
    <3>1. routes'[q] = new /\ orders'[q] = ReleaseOrders(c, q)
      BY <2>2 DEF Release
    <3>2. new \in Route /\ routes[q] \in Route /\ new # None
      BY <2>2, ReleasedRouteType, NoneIsAbsent DEF DaemonInv, BrokerInv, TypeOK
    <3>3. Serving(routes[q], stream[q], reports[q])
      BY <2>2, IdleFits, SettledFits
    <3>4. CASE rest = {}
      <4>1. new.access = routes[q].access /\ new.size = routes[q].size
        BY <3>2, <3>4 DEF ReleasedRoute, Route
      <4>2. Serving(new, stream[q], reports[q]) /\ orders'[q] = <<RouteUnclaimed>>
        BY <3>1, <3>3, <3>4, <4>1 DEF Serving, ReleaseOrders
      <4> HIDE DEF new
      <4> QED
        BY <3>1, <3>2, <4>2 DEF Fits
    <3>5. CASE rest # {} /\ routes[q].control = c /\ routes[q].access = "control"
      <4>1. new.access = "observe" /\ new.size = routes[q].size
        BY <3>2, <3>5 DEF ReleasedRoute, Route
      <4>2. orders'[q] = <<CloseRoute, Opening(new)>>
        BY <3>1, <3>5, <4>1 DEF ReleaseOrders, Opening
      <4> HIDE DEF new
      <4> QED
        BY <3>1, <3>2, <4>2 DEF Fits
    <3>6. CASE rest # {} /\ ~(routes[q].control = c /\ routes[q].access = "control")
      <4>1. new.access = routes[q].access /\ new.size = routes[q].size
        BY <3>2, <3>6 DEF ReleasedRoute, Route
      <4>2. Serving(new, stream[q], reports[q]) /\ orders'[q] = <<>>
        BY <3>1, <3>3, <3>6, <4>1 DEF Serving, ReleaseOrders
      <4> HIDE DEF new
      <4> QED
        BY <3>1, <3>2, <4>2 DEF Fits
    <3> QED
      BY <3>4, <3>5, <3>6
  <2> QED
    BY <2>1, <2>2
<1>2. orders' = [q \in Pane |-> orders'[q]]
  BY DEF Release
<1> QED
  BY <1>1, <1>2, InputFits

\* A stream that is told a new size serves the route at that size.
LEMMA ResizeFits ==
    ASSUME NEW route \in Route, NEW new \in Route, new.access = route.access,
           NEW st \in Stream \cup {None}, NEW n \in Nat, Serving(route, st, n)
    PROVE  /\ Fits(new, st, <<RouteResize(new.size)>>, n)
           /\ new.size = route.size => Fits(new, st, <<>>, n)
<1>1. new # None
  BY NoneIsAbsent
<1>2. Serving(new, Resized(st, new.size), n)
  <2>1. CASE st = None
    BY <2>1 DEF Serving, Resized
  <2>2. CASE st # None
    <3>1. st \in Stream
      BY <2>2
    <3>2. Resized(st, new.size) \in Stream
      BY <3>1 DEF Resized, Stream, Route
    <3>3. Resized(st, new.size) # None
      BY <3>2, DaemonConstants
    <3> QED
      BY <2>2, <3>1, <3>3 DEF Serving, Resized, Stream
  <2> QED
    BY <2>1, <2>2
<1>3. new.size = route.size => Serving(new, st, n)
  BY DEF Serving
<1> QED
  BY <1>1, <1>2, <1>3 DEF Fits

\* subscribe_pane opens a stream, or resizes the one it takes the free keyboard of.
LEMMA SubscribeFits ==
    ASSUME DaemonInv, Idle, UNCHANGED daemonVars, NEW c \in ClientId, NEW p \in Pane,
           NEW access \in Access, NEW size \in Size, NEW repr,
           SubscribePane(c, p, access, size, repr)
    PROVE  DaemonTypeOK' /\ \A q \in Pane : Carried(q)'
<1> DEFINE new == SubscribedRoute(c, p, access, size)
<1>1. /\ routes' = [routes EXCEPT ![p] = new]
      /\ orders' = OrdersFor(p, SubscribeOrders(p, access, size))
  BY DEF SubscribePane
<1>2. new \in Route /\ new # None
  BY SubscribedRouteType, NoneIsAbsent DEF DaemonInv, BrokerInv
<1>3. Fits(new, stream[p], SubscribeOrders(p, access, size), reports[p])
  <2>1. CASE routes[p] = None
    <3>1. SubscribeOrders(p, access, size) = <<Opening(new)>>
      BY <2>1 DEF SubscribeOrders, Opening, SubscribedRoute
    <3> HIDE DEF new
    <3> QED
      BY <1>2, <3>1 DEF Fits
  <2>2. CASE routes[p] # None
    <3>1. /\ routes[p] \in Route /\ Serving(routes[p], stream[p], reports[p])
          /\ stream[p] \in Stream \cup {None} /\ reports[p] \in Nat
      BY <2>2, IdleFits, SettledFits DEF DaemonInv, BrokerInv, TypeOK, DaemonTypeOK
    <3>2. new.access = routes[p].access
      BY <2>2, <3>1 DEF SubscribedRoute, Route
    <3>3. CASE access = "control" /\ routes[p].control = None
      <4>1. new.size = size
        BY <2>2, <3>1, <3>3 DEF SubscribedRoute, Route
      <4>2. SubscribeOrders(p, access, size) =
              IF new.size = routes[p].size THEN <<>> ELSE <<RouteResize(new.size)>>
        BY <2>2, <3>3, <4>1 DEF SubscribeOrders, ResizeForControl
      <4> HIDE DEF new
      <4> QED
        BY <1>2, <3>1, <3>2, <4>2, ResizeFits
    <3>4. CASE ~(access = "control" /\ routes[p].control = None)
      <4>1. new.size = routes[p].size
        BY <2>2, <3>1, <3>4 DEF SubscribedRoute, Route
      <4>2. SubscribeOrders(p, access, size) = <<>>
        BY <2>2, <3>4 DEF SubscribeOrders
      <4> HIDE DEF new
      <4> QED
        BY <1>2, <3>1, <3>2, <4>1, <4>2, ResizeFits
    <3> QED
      BY <3>3, <3>4
  <2> QED
    BY <2>1, <2>2
<1> HIDE DEF new
<1> QED
  BY <1>1, <1>3, OnePaneInput

\* Lists of effects put together.
LEMMA Joined ==
    ASSUME NEW a, NEW b, NEW c
    PROVE  /\ <<>> \o <<>> = <<>> /\ <<a>> \o <<>> = <<a>>
           /\ <<>> \o <<b, c>> = <<b, c>> /\ <<a>> \o <<b, c>> = <<a, b, c>>
<1> DEFINE S == {a, b, c}
<1>0. <<a>> \in Seq(S) /\ <<b, c>> \in Seq(S) /\ <<>> \in Seq(S) /\ <<a, b, c>> \in Seq(S)
  OBVIOUS
<1>1. <<>> \o <<>> = <<>> /\ <<a>> \o <<>> = <<a>>
  BY <1>0, ConcatEmptySeq
<1>2. <<>> \o <<b, c>> = <<b, c>>
  BY <1>0, ConcatEmptySeq
<1>3. <<a>> \o <<b, c>> = <<a, b, c>>
  <2> DEFINE both == <<a>> \o <<b, c>>
  <2>1. /\ both \in Seq(S) /\ Len(both) = Len(<<a>>) + Len(<<b, c>>)
        /\ \A i \in 1 .. Len(<<a>>) + Len(<<b, c>>) :
              both[i] = IF i <= Len(<<a>>) THEN <<a>>[i] ELSE <<b, c>>[i - Len(<<a>>)]
    BY <1>0, ConcatProperties
  <2>2. Len(<<a>>) = 1 /\ Len(<<b, c>>) = 2 /\ <<a>>[1] = a /\ <<b, c>>[1] = b /\ <<b, c>>[2] = c
    OBVIOUS
  <2> HIDE DEF both
  <2>3. Len(both) = 3 /\ both[1] = a /\ both[2] = b /\ both[3] = c
    BY <2>1, <2>2
  <2>4. both = <<a, b, c>>
    BY <1>0, <2>1, <2>3, SeqEqual
  <2> QED
    BY <2>4 DEF both
<1> QED
  BY <1>1, <1>2, <1>3

\* take_control resizes a stream that carries input and replaces one that does not.
LEMMA TakeControlFits ==
    ASSUME DaemonInv, Idle, UNCHANGED daemonVars, NEW c \in ClientId, NEW p \in Pane,
           NEW free, TakeControl(c, p, free)
    PROVE  DaemonTypeOK' /\ \A q \in Pane : Carried(q)'
<1> DEFINE size == subs[c][p].size
           new == [routes[p] EXCEPT !.control = c, !.size = size, !.access = "control"]
           resize == ResizeForControl(routes[p], size)
           effects == resize \o (IF routes[p].access = "control" THEN <<>>
                                 ELSE <<CloseRoute, OpenRoute("control", size)>>)
<1>1. /\ routes[p] # None /\ subs[c][p] # None
      /\ routes' = [routes EXCEPT ![p] = new]
      /\ orders' = OrdersFor(p, effects)
  BY DEF TakeControl
<1>2. /\ routes[p] \in Route /\ Serving(routes[p], stream[p], reports[p])
      /\ stream[p] \in Stream \cup {None} /\ reports[p] \in Nat
      /\ subs[c][p] \in PaneSubscription
  BY <1>1, IdleFits, SettledFits DEF DaemonInv, BrokerInv, TypeOK, DaemonTypeOK
<1>3. size \in Size
  BY <1>2 DEF PaneSubscription
<1>4. new \in Route /\ new # None /\ new.size = size /\ new.access = "control"
  <2>1. new \in Route /\ new.size = size /\ new.access = "control"
    BY <1>2, <1>3 DEF Route
  <2> QED
    BY <2>1, NoneIsAbsent
<1>5. resize = IF routes[p].size = size THEN <<>> ELSE <<RouteResize(size)>>
  BY DEF ResizeForControl
<1> HIDE DEF new, size, resize
<1>6. Fits(new, stream[p], effects, reports[p])
  <2>1. CASE routes[p].access = "control"
    <3>1. effects = resize \o <<>>
      BY <2>1
    <3>2. resize \o <<>> = resize
      BY <1>5, Joined
    <3>3. effects = resize
      BY <3>1, <3>2
    <3> QED
      BY <1>2, <1>4, <1>5, <2>1, <3>3, ResizeFits
  <2>2. CASE routes[p].access # "control"
    <3>1. effects = resize \o <<CloseRoute, Opening(new)>>
      BY <1>4, <2>2 DEF Opening
    <3>2. effects \in {<<CloseRoute, Opening(new)>>,
                       <<RouteResize(size), CloseRoute, Opening(new)>>}
      <4> HIDE DEF effects
      <4>1. CASE routes[p].size = size
        BY <1>5, <3>1, <4>1, Joined
      <4>2. CASE routes[p].size # size
        BY <1>5, <3>1, <4>2, Joined
      <4> QED
        BY <4>1, <4>2
    <3> QED
      BY <1>4, <3>2 DEF Fits
  <2> QED
    BY <2>1, <2>2
<1> HIDE DEF effects
<1> QED
  BY <1>1, <1>6, OnePaneInput

\* pane.resize sizes the route and its stream alike.
LEMMA PaneResizeFits ==
    ASSUME DaemonInv, Idle, UNCHANGED daemonVars, NEW c \in ClientId, NEW p \in Pane,
           NEW size \in Size, PaneResize(c, p, size)
    PROVE  DaemonTypeOK' /\ \A q \in Pane : Carried(q)'
<1> DEFINE new == [routes[p] EXCEPT !.size = size]
<1>1. /\ routes[p] # None
      /\ routes' = [routes EXCEPT ![p] = new]
      /\ orders' = OrdersFor(p, <<RouteResize(size)>>)
  BY DEF PaneResize, HoldsControl
<1>2. /\ routes[p] \in Route /\ Serving(routes[p], stream[p], reports[p])
      /\ stream[p] \in Stream \cup {None} /\ reports[p] \in Nat
  BY <1>1, IdleFits, SettledFits DEF DaemonInv, BrokerInv, TypeOK, DaemonTypeOK
<1>3. new \in Route /\ new.size = size /\ new.access = routes[p].access
  BY <1>2 DEF Route
<1> HIDE DEF new
<1>4. Fits(new, stream[p], <<RouteResize(size)>>, reports[p])
  BY <1>2, <1>3, ResizeFits
<1> QED
  BY <1>1, <1>4, OnePaneInput

\* pane.input hands the stream that serves the route something to carry.
LEMMA PaneInputFits ==
    ASSUME DaemonInv, Idle, UNCHANGED daemonVars, NEW c \in ClientId, NEW p \in Pane,
           PaneInput(c, p)
    PROVE  DaemonTypeOK' /\ \A q \in Pane : Carried(q)'
<1>1. routes[p] # None /\ orders' = OrdersFor(p, <<RouteInput>>) /\ routes' = routes
  BY DEF PaneInput, HoldsControl
<1>2. Serving(routes[p], stream[p], reports[p])
  BY <1>1, IdleFits, SettledFits
<1>3. Fits(routes[p], stream[p], <<RouteInput>>, reports[p])
  BY <1>1, <1>2 DEF Fits
<1>4. routes' = [routes EXCEPT ![p] = routes[p]]
  BY <1>1 DEF DaemonInv, BrokerInv, TypeOK
<1> QED
  BY <1>1, <1>3, <1>4, OnePaneInput

\* Routes that are closed have nothing left to do; the streams of the others
\* are left alone.
LEMMA CloseRoutesFits ==
    ASSUME DaemonInv, Idle, NEW Q \in SUBSET Pane, CloseRoutes(Q), DaemonTypeOK',
           UNCHANGED downgraded,
           \A q \in Pane \ Q : stream'[q] = stream[q] /\ reports'[q] = reports[q]
    PROVE  \A q \in Pane : Carried(q)'
<1> TAKE q \in Pane
<1>1. routes'[q] = (IF q \in Q THEN None ELSE routes[q]) /\ orders'[q] = <<>>
  BY DEF CloseRoutes, NoOrders
<1>2. q \notin downgraded'
  BY IdleFits
<1>3. CASE q \in Q
  BY <1>1, <1>2, <1>3 DEF Carried, Fits
<1>4. CASE q \notin Q
  <2>1. Fits(routes'[q], stream'[q], orders'[q], reports'[q])
    BY <1>1, <1>4, IdleFits
  <2> QED
    BY <1>2, <2>1 DEF Carried
<1> QED
  BY <1>3, <1>4

-----------------------------------------------------------------------------
(* Every step of the daemon *)

\* A message of a client, taken when nothing is left to do.
LEMMA ClientInputStep ==
    ASSUME DaemonInv, NEW c \in ClientId, TakeClientInput(c)
    PROVE  DaemonTypeOK' /\ \A q \in Pane : Carried(q)'
<1> DEFINE Goal == DaemonTypeOK' /\ \A q \in Pane : Carried(q)'
<1>0. Idle /\ UNCHANGED daemonVars /\ ClientStep(c)
  BY DEF TakeClientInput
<1>1. CASE Connect(c) \/ Hello(c)
  BY <1>0, <1>1, NoPaneInput DEF Connect, Hello
<1>2. CASE Disconnect(c)
  <2> DEFINE P == {p \in Pane : subs[c][p] # None}
  <2>1. P \in SUBSET Pane /\ Release(c, P)
    BY <1>2 DEF Disconnect
  <2> HIDE DEF P
  <2> QED
    BY <1>0, <2>1, ReleaseFits
<1>3. ASSUME NEW p \in Pane, UnsubscribePane(c, p) PROVE Goal
  <2>1. {p} \in SUBSET Pane /\ Release(c, {p})
    BY <1>3 DEF UnsubscribePane
  <2> QED
    BY <1>0, <2>1, ReleaseFits
<1>4. ASSUME NEW p \in Pane, NEW access \in Access, NEW size \in Size,
             NEW repr \in Representation, SubscribePane(c, p, access, size, repr)
      PROVE  Goal
  BY <1>0, <1>4, SubscribeFits
<1>5. ASSUME NEW p \in Pane, NEW free \in BOOLEAN, TakeControl(c, p, free) PROVE Goal
  BY <1>0, <1>5, TakeControlFits
<1>6. ASSUME NEW p \in Pane, TakeControlRefused(c, p) PROVE Goal
  BY <1>0, <1>6, NoPaneInput DEF TakeControlRefused
<1>7. ASSUME NEW p \in Pane, PaneInput(c, p) PROVE Goal
  BY <1>0, <1>7, PaneInputFits
<1>8. ASSUME NEW p \in Pane, NEW size \in Size, PaneResize(c, p, size) PROVE Goal
  BY <1>0, <1>8, PaneResizeFits
<1>9. ASSUME NEW p \in Pane, NEW n \in 0..MaxSequence, AckPaneScreen(c, p, n) PROVE Goal
  <2>1. orders' = NoOrders /\ routes' = routes
    BY <1>9 DEF AckPaneScreen
  <2> QED
    BY <1>0, <2>1, NoPaneInput
<1> HIDE DEF Goal
<1>10. Goal
  <2>1. CASE Connect(c) \/ Hello(c) \/ Disconnect(c)
    BY <1>1, <1>2, <2>1 DEF Goal
  <2> QED
    BY <1>0, <2>1, <1>3, <1>4, <1>5, <1>6, <1>7, <1>8, <1>9 DEF ClientStep
<1> QED
  BY <1>10 DEF Goal

\* What the daemon hears of its streams, its federation and its configuration.
LEMMA DaemonInputStep ==
    ASSUME DaemonInv
    PROVE  LET Goal == DaemonTypeOK' /\ \A q \in Pane : Carried(q)' IN
           /\ \A p \in Pane : TakeRouteClosed(p) => Goal
           /\ \A p \in Pane : StreamEnds(p) => Goal
           /\ \A p \in Pane, size \in Size, content \in Content :
                 TakeFrame(p, size, content) => Goal
           /\ \A view \in [Target -> TargetView] : TakeFederation(view) => Goal
           /\ \A changed \in SUBSET Target : TakeReconfigured(changed) => Goal
<1> DEFINE Goal == DaemonTypeOK' /\ \A q \in Pane : Carried(q)'
<1>0. /\ stream \in [Pane -> Stream \cup {None}] /\ reports \in [Pane -> Nat]
      /\ downgraded \in SUBSET Pane /\ orders = [q \in Pane |-> orders[q]]
  BY DEF DaemonInv, DaemonTypeOK
<1>1. ASSUME NEW p \in Pane, TakeRouteClosed(p) PROVE Goal
  <2>1. /\ Idle /\ CloseRoutes({p}) /\ UNCHANGED downgraded
        /\ reports[p] > 0
        /\ reports' = [reports EXCEPT ![p] = @ - 1] /\ stream' = [stream EXCEPT ![p] = None]
    BY <1>1 DEF TakeRouteClosed
  <2>2. orders' = [q \in Pane |-> orders'[q]]
    BY <2>1 DEF CloseRoutes, NoOrders
  <2>3. DaemonTypeOK'
    <3>1. reports' \in [Pane -> Nat]
      BY <1>0, <2>1
    <3> QED
      BY <1>0, <2>1, <2>2, <3>1 DEF DaemonTypeOK
  <2>4. \A q \in Pane \ {p} : stream'[q] = stream[q] /\ reports'[q] = reports[q]
    BY <1>0, <2>1
  <2> QED
    BY <2>1, <2>3, <2>4, CloseRoutesFits
<1>2. ASSUME NEW p \in Pane, StreamEnds(p) PROVE Goal
  <2> DEFINE ended == [stream[p] EXCEPT !.running = FALSE]
  <2>1. /\ stream[p] # None /\ stream[p].running
        /\ stream' = [stream EXCEPT ![p] = ended]
        /\ reports' = [reports EXCEPT ![p] = @ + 1]
        /\ UNCHANGED <<orders, routes, downgraded>>
    BY <1>2 DEF StreamEnds, vars
  <2>2. /\ stream[p] \in Stream /\ ended \in Stream /\ ended # None
        /\ ended.access = stream[p].access /\ ended.size = stream[p].size
    <3>1. stream[p] \in Stream
      BY <1>0, <2>1
    <3>2. /\ ended \in Stream
          /\ ended.access = stream[p].access /\ ended.size = stream[p].size
      BY <3>1 DEF Stream
    <3> QED
      BY <3>1, <3>2, DaemonConstants
  <2> HIDE DEF ended
  <2>3. DaemonTypeOK'
    BY <1>0, <2>1, <2>2 DEF DaemonTypeOK
  <2>4. /\ stream'[p] = ended /\ reports'[p] > 0
        /\ \A q \in Pane : q # p => stream'[q] = stream[q] /\ reports'[q] = reports[q]
    BY <1>0, <2>1
  <2>5. Carried(p)'
    <3>1. Carried(p)
      BY DEF DaemonInv
    <3>2. CASE p \in downgraded
      BY <2>1, <2>2, <2>4, <3>1, <3>2 DEF Carried, Refused
    <3>3. CASE p \notin downgraded
      <4>1. ASSUME NEW route, Serving(route, stream[p], reports[p])
            PROVE  Serving(route, ended, reports'[p])
        BY <2>1, <2>2, <2>4, <4>1 DEF Serving
      <4>2. ASSUME NEW route \in Route, Serving(route, Resized(stream[p], route.size), reports[p])
            PROVE  Serving(route, Resized(ended, route.size), reports'[p])
        <5>1. CASE stream[p].access = "control"
          <6> DEFINE old == [stream[p] EXCEPT !.size = route.size]
                     new == [ended EXCEPT !.size = route.size]
          <6>1. Resized(stream[p], route.size) = old /\ Resized(ended, route.size) = new
            BY <2>1, <2>2, <5>1 DEF Resized
          <6>2. /\ old \in Stream /\ new \in Stream
                /\ old.access = new.access /\ old.size = new.size
            BY <2>2 DEF Stream, Route
          <6> HIDE DEF old, new
          <6> QED
            BY <2>4, <4>2, <6>1, <6>2, DaemonConstants DEF Serving
        <5>2. CASE stream[p].access # "control"
          BY <2>1, <2>2, <4>1, <4>2, <5>2 DEF Resized
        <5> QED
          BY <5>1, <5>2
      <4>3. routes[p] # None => routes[p] \in Route
        BY DEF DaemonInv, BrokerInv, TypeOK
      <4>4. Fits(routes[p], stream[p], orders[p], reports[p])
        BY <3>1, <3>3 DEF Carried
      <4>5. Fits(routes[p], ended, orders[p], reports'[p])
        BY <4>1, <4>2, <4>3, <4>4 DEF Fits
      <4> QED
        BY <2>1, <2>4, <3>3, <4>5 DEF Carried
    <3> QED
      BY <3>2, <3>3
  <2> QED
    BY <2>1, <2>3, <2>4, <2>5, OnePaneStep
<1>3. ASSUME NEW p \in Pane, NEW size \in Size, NEW content \in Content,
             TakeFrame(p, size, content)
      PROVE  Goal
  BY <1>3, NoPaneInput DEF TakeFrame, PaneFrame
<1>4. ASSUME NEW Q \in SUBSET Pane, Idle, CloseRoutes(Q), UNCHANGED <<downgraded, reports>>,
             stream' \in [Pane -> Stream \cup {None}],
             \A q \in Pane \ Q : stream'[q] = stream[q]
      PROVE  Goal
  <2>1. orders' = [q \in Pane |-> orders'[q]]
    BY <1>4 DEF CloseRoutes, NoOrders
  <2>2. DaemonTypeOK'
    BY <1>0, <1>4, <2>1 DEF DaemonTypeOK
  <2> QED
    BY <1>4, <2>2, CloseRoutesFits
<1>5. ASSUME NEW view \in [Target -> TargetView], TakeFederation(view) PROVE Goal
  <2> DEFINE Q == {p \in Pane : routes[p] # None /\ PaneIsGone(view, p)}
  <2>1. Q \in SUBSET Pane /\ Idle /\ CloseRoutes(Q) /\ UNCHANGED daemonVars
    BY <1>5 DEF TakeFederation, FederationUpdated
  <2> HIDE DEF Q
  <2> QED
    BY <1>0, <1>4, <2>1 DEF daemonVars
<1>6. ASSUME NEW changed \in SUBSET Target, TakeReconfigured(changed) PROVE Goal
  <2> DEFINE Q == {p \in Pane : stream[p] # None /\ targetOf[p] \in changed}
  <2>1. /\ Q \in SUBSET Pane /\ Idle /\ CloseRoutes(Q) /\ UNCHANGED <<downgraded, reports>>
        /\ stream' = [p \in Pane |-> IF p \in Q THEN None ELSE stream[p]]
    BY <1>6 DEF TakeReconfigured
  <2> HIDE DEF Q
  <2> QED
    BY <1>0, <1>4, <2>1
<1> QED
  BY <1>1, <1>2, <1>3, <1>5, <1>6

\* Performing any effect.
LEMMA PerformStep ==
    ASSUME DaemonInv, NEW p \in Pane, Perform(p)
    PROVE  DaemonTypeOK' /\ \A q \in Pane : Carried(q)'
BY OpenStep, DowngradeStep, CloseStep, ResizeStep, InputStep, UnclaimedStep DEF Perform

\* Whatever the daemon does is a handler call of the broker, or leaves what the
\* broker keeps alone.
LEMMA DaemonStepsTheBroker == [DaemonNext]_allVars => StepOrKept
<1> SUFFICES ASSUME [DaemonNext]_allVars PROVE StepOrKept
  OBVIOUS
<1>1. CASE UNCHANGED allVars
  BY <1>1 DEF allVars, vars, StepOrKept, kept
<1>2. ASSUME NEW p \in Pane, Perform(p) PROVE StepOrKept
  <2>1. CASE PerformOpen(p) \/ PerformClose(p) \/ PerformResize(p) \/ PerformInput(p)
    <3>1. UNCHANGED kept
      BY <2>1 DEF PerformOpen, PerformClose, PerformResize, PerformInput, kept
    <3> QED
      BY <3>1 DEF StepOrKept
  <2>2. CASE ReportDowngrade(p) \/ PerformUnclaimed(p)
    <3>1. RouteDowngraded(p) \/ CloseIfUnclaimed(p)
      BY <2>2 DEF ReportDowngrade, PerformUnclaimed
    <3> QED
      BY <3>1 DEF StepOrKept, Step, Next, DaemonStep
  <2> QED
    BY <1>2, <2>1, <2>2 DEF Perform
<1>3. ASSUME NEW p \in Pane, TakeRouteClosed(p) PROVE StepOrKept
  BY <1>3 DEF TakeRouteClosed, StepOrKept, Step
<1>4. ASSUME NEW p \in Pane, StreamEnds(p) PROVE StepOrKept
  BY <1>4 DEF StreamEnds, StepOrKept, kept, vars
<1>5. ASSUME NEW c \in ClientId, TakeClientInput(c) PROVE StepOrKept
  BY <1>5 DEF TakeClientInput, StepOrKept, Step, Next
<1>6. ASSUME NEW p \in Pane, NEW size \in Size, NEW content \in Content,
             TakeFrame(p, size, content)
      PROVE  StepOrKept
  BY <1>6 DEF TakeFrame, StepOrKept, Step, Next, DaemonStep
<1>7. ASSUME NEW view \in [Target -> TargetView], TakeFederation(view) PROVE StepOrKept
  BY <1>7 DEF TakeFederation, StepOrKept, Step, Next, DaemonStep
<1>8. ASSUME NEW changed \in SUBSET Target, TakeReconfigured(changed) PROVE StepOrKept
  <2>1. {p \in Pane : stream[p] # None /\ targetOf[p] \in changed} \in SUBSET Pane
    OBVIOUS
  <2> QED
    BY <1>8, <2>1 DEF TakeReconfigured, StepOrKept, Step
<1> QED
  BY <1>1, <1>2, <1>3, <1>4, <1>5, <1>6, <1>7, <1>8 DEF DaemonNext

-----------------------------------------------------------------------------
(* The theorems *)

\* A daemon that has just started satisfies the invariant.
LEMMA DaemonInitInv == DaemonInit => DaemonInv
<1> SUFFICES ASSUME DaemonInit PROVE DaemonInv
  OBVIOUS
<1>1. BrokerInv /\ AllServed
  BY InitInv, ServedInv DEF DaemonInit
<1>2. DaemonTypeOK
  BY DEF DaemonInit, Init, DaemonTypeOK, NoOrders
<1>3. \A p \in Pane : Carried(p)
  BY DEF DaemonInit, Init, NoOrders, Carried, Fits
<1> QED
  BY <1>1, <1>2, <1>3 DEF DaemonInv

\* Every input taken and every effect performed preserves the invariant.
LEMMA DaemonStepInv == DaemonInv /\ [DaemonNext]_allVars => DaemonInv'
<1> SUFFICES ASSUME DaemonInv, [DaemonNext]_allVars PROVE DaemonInv'
  OBVIOUS
<1>1. BrokerInv' /\ AllServed'
  BY DaemonStepsTheBroker, StepInv, ServedInv DEF DaemonInv
<1> DEFINE Goal == DaemonTypeOK' /\ \A q \in Pane : Carried(q)'
<1>2. Goal
  <2>1. CASE UNCHANGED allVars
    <3>1. DaemonTypeOK'
      BY <2>1 DEF allVars, vars, daemonVars, DaemonInv, DaemonTypeOK
    <3> QED
      BY <2>1, <3>1, Undisturbed DEF allVars, vars, daemonVars, DaemonInv
  <2>2. CASE DaemonNext
    BY <2>2, ClientInputStep, DaemonInputStep, PerformStep DEF DaemonNext
  <2> QED
    BY <2>1, <2>2
<1> QED
  BY <1>1, <1>2 DEF DaemonInv

\* The inductive invariant holds in every state of the daemon.
THEOREM DaemonInvariant == DaemonSpec => []DaemonInv
BY DaemonInitInv, DaemonStepInv, PTL DEF DaemonSpec

\* Between two inputs the stream that runs for a route is what the broker
\* believes it is: open_route, send_to_route and the reader tasks' reports bring
\* every stream to its route's access and size, however takeovers, departures,
\* refused control streams and stale reports follow each other.
THEOREM StreamsFollowRoutes == DaemonSpec => []StreamFollowsRoute
<1>1. DaemonInv => StreamFollowsRoute
  <2> SUFFICES ASSUME DaemonInv, Idle, NEW p \in Pane, routes[p] # None
               PROVE  Serving(routes[p], stream[p], reports[p])
    BY DEF StreamFollowsRoute, Serving
  <2> QED
    BY IdleFits, SettledFits
<1> QED
  BY <1>1, DaemonInvariant, PTL

\* The broker's two records of who watches a pane agree in the daemon too,
\* where its effects are performed one by one and reports arrive late.
THEOREM DaemonRoutesAgree == DaemonSpec => []RoutesAgree
<1>1. DaemonInv => RoutesAgree
  BY DEF DaemonInv, BrokerInv
<1> QED
  BY <1>1, DaemonInvariant, PTL

\* Every watcher knows the lease it holds, whatever became of the stream.
THEOREM DaemonLeaseKnown == DaemonSpec => []LeaseKnown
<1>1. DaemonInv => LeaseKnown
  BY DEF DaemonInv, BrokerInv
<1> QED
  BY <1>1, DaemonInvariant, PTL

\* The daemon with its streams still implements Leases.
THEOREM DaemonImplementsLeases == DaemonSpec => ImplementsLeases
<1>1. DaemonInit => Keyboards!LeaseInit
  BY RefinementInv DEF DaemonInit
<1>2. DaemonInv /\ [DaemonNext]_allVars => [Keyboards!LeaseNext]_(Keyboards!leaseVars)
  BY DaemonStepsTheBroker, RefinementInv DEF DaemonInv
<1> QED
  BY <1>1, <1>2, DaemonInvariant, PTL DEF DaemonSpec, ImplementsLeases, Keyboards!LeaseSpec

-----------------------------------------------------------------------------
(* DaemonLife: the socket path *)

\* One daemon at most is between the steps of a start or a stop; a listener is the one the path
\* leads to; and while a leftover is replaced, a path bound or a socket removed nobody listens.
Apart ==
    /\ \A d, e \in Daemons : stage[d] \in Between /\ stage[e] \in Between => d = e
    /\ \A d \in Daemons : d \in listens <=> stage[d] \in {"starting", "serving"}
    /\ \A d \in listens : path = d
    /\ \A d \in Daemons : stage[d] \in {"replacing", "binding", "stopping"} => listens = {}

SocketInv ==
    /\ stage \in [Daemons -> {"off", "probing", "replacing", "binding", "starting", "serving", "stopping"}]
    /\ listens \in SUBSET Daemons
    /\ ~overlap => Apart

\* What the history says of two daemons at once.
LEMMA NoneBeside ==
    ASSUME NEW S \in SUBSET Daemons, ~(Cardinality(S) > 1), NEW d \in S, NEW e \in S
    PROVE  d = e
<1> SUFFICES ASSUME d # e PROVE FALSE
  OBVIOUS
<1>1. IsFiniteSet(S)
  BY LifeAssumption, FS_Subset
<1>2. IsFiniteSet({d}) /\ Cardinality({d}) = 1
  BY FS_Singleton
<1>3. IsFiniteSet({d} \cup {e}) /\ Cardinality({d} \cup {e}) = 2
  BY <1>2, FS_AddElement
<1>4. Cardinality({d} \cup {e}) <= Cardinality(S)
  BY <1>1, FS_Subset
<1>5. Cardinality(S) \in Nat
  BY <1>1, FS_CardinalityType
<1> QED
  BY <1>3, <1>4, <1>5

\* A listener is alone, and nobody listens where the path leads to none.
LEMMA ListenersAre ==
    ASSUME SocketInv, Apart, NEW d \in Daemons
    PROVE  /\ d \in listens => listens = {d} /\ path = d
           /\ path = Nothing \/ path \notin listens => listens = {}
BY LifeAssumption DEF SocketInv, Apart

LEMMA SocketSteps ==
    ASSUME SocketInv, SocketNext
    PROVE  SocketInv'
<1>1. PICK d \in Daemons : \/ Start(d) \/ Probe(d) \/ Replace(d) \/ BindListener(d) \/ Serve(d)
                           \/ Shutdown(d) \/ RemoveSocket(d) \/ Crash(d)
  BY DEF SocketNext
<1>2. PICK to \in {"off", "probing", "replacing", "binding", "starting", "serving", "stopping"} :
         stage' = [stage EXCEPT ![d] = to]
  BY <1>1 DEF Start, Probe, Replace, BindListener, Serve, Shutdown, RemoveSocket, Crash, Moves
<1>3. /\ stage' \in [Daemons -> {"off", "probing", "replacing", "binding", "starting", "serving", "stopping"}]
      /\ stage'[d] = to /\ \A e \in Daemons : e # d => stage'[e] = stage[e]
  BY <1>2 DEF SocketInv
<1>4. listens' \in SUBSET Daemons
  BY <1>1 DEF Start, Probe, Replace, BindListener, Serve, Shutdown, RemoveSocket, Crash, SocketInv
<1>5. ASSUME ~overlap' PROVE Apart'
  <2>1. Apart
    BY <1>5 DEF SocketNext, SocketInv
  <2>2. \A e, f \in Daemons : stage'[e] \in Between /\ stage'[f] \in Between => e = f
    <3>1. ~(Cardinality({e \in Daemons : stage'[e] \in Between}) > 1)
      BY <1>5 DEF SocketNext
    <3>2. PICK S \in SUBSET Daemons : S = {e \in Daemons : stage'[e] \in Between}
      OBVIOUS
    <3>3. \A e, f \in S : e = f
      BY <3>1, <3>2, NoneBeside
    <3> QED
      BY <3>2, <3>3
  <2>3. /\ d \in listens => listens = {d} /\ path = d
        /\ path = Nothing \/ path \notin listens => listens = {}
    BY <2>1, ListenersAre
  <2>4. /\ \A e \in Daemons : e \in listens <=> stage[e] \in {"starting", "serving"}
        /\ \A e \in listens : path = e
        /\ \A e \in Daemons : stage[e] \in {"replacing", "binding", "stopping"} => listens = {}
    BY <2>1 DEF Apart
  <2>5. \A e \in Daemons : stage'[e] = IF e = d THEN to ELSE stage[e]
    BY <1>3
  <2>6. CASE Start(d)
    <3>1. to = "probing" /\ stage[d] = "off" /\ listens' = listens /\ path' = path
      BY <1>3, <2>6 DEF Start, Moves, SocketInv
    <3> QED
      BY <2>2, <2>4, <2>5, <3>1 DEF Apart
  <2>7. CASE Probe(d)
    <3>1. /\ stage[d] = "probing" /\ listens' = listens /\ path' = path
          /\ to \in {"off", "binding", "replacing"} /\ (to # "off" => listens = {})
      BY <1>3, <2>3, <2>7 DEF Probe, Moves, SocketInv
    <3> QED
      BY <2>2, <2>4, <2>5, <3>1 DEF Apart
  <2>8. CASE Replace(d)
    <3>1. stage[d] = "replacing" /\ listens' = listens /\ to \in {"off", "binding"} /\ listens = {}
      BY <1>3, <2>4, <2>8 DEF Replace, Moves, SocketInv
    <3> QED
      BY <2>2, <2>4, <2>5, <3>1 DEF Apart
  <2>9. CASE BindListener(d)
    <3>1. /\ stage[d] = "binding" /\ listens = {}
          /\ \/ to = "starting" /\ path' = d /\ listens' = {d}
             \/ to = "off" /\ listens' = {}
      BY <1>3, <2>4, <2>9 DEF BindListener, Moves, SocketInv
    <3>2. \A e \in Daemons : e # d => stage[e] \notin Between
      BY <2>1, <3>1 DEF Apart, Between
    <3> QED
      BY <2>2, <2>4, <2>5, <3>1, <3>2 DEF Apart, Between
  <2>10. CASE Serve(d) \/ Shutdown(d)
    <3>1. /\ stage[d] \in {"starting", "serving"} /\ path' = path /\ path = d
          /\ \/ to = "serving" /\ listens' = listens
             \/ to = "stopping" /\ listens' = {}
          /\ listens = {d}
      BY <1>3, <2>3, <2>4, <2>10 DEF Serve, Shutdown, Moves, SocketInv
    <3> QED
      BY <2>2, <2>4, <2>5, <3>1 DEF Apart
  <2>11. CASE RemoveSocket(d)
    <3>1. stage[d] = "stopping" /\ listens' = listens /\ to = "off" /\ listens = {}
      BY <1>3, <2>4, <2>11 DEF RemoveSocket, Moves, SocketInv
    <3> QED
      BY <2>2, <2>4, <2>5, <3>1 DEF Apart
  <2>12. CASE Crash(d)
    <3>1. listens' = listens \ {d} /\ to = "off" /\ path' = path
      BY <1>3, <2>12 DEF Crash, SocketInv
    <3> QED
      BY <2>2, <2>4, <2>5, <3>1 DEF Apart
  <2> QED
    BY <1>1, <2>6, <2>7, <2>8, <2>9, <2>10, <2>11, <2>12
<1> QED
  BY <1>3, <1>4, <1>5 DEF SocketInv

\* While no two daemons are between the steps of a start or a stop, every daemon that listens is the
\* one its path leads to, for any number of daemons that start, stop and crash (bind, serve_until).
THEOREM ListenerAlwaysReached == SocketSpec => []ListenerIsReached
<1>1. LifeInit => SocketInv
  BY DEF LifeInit, SocketInv, Apart, Between
<1>2. SocketInv /\ UNCHANGED lifeVars => SocketInv'
  BY DEF SocketInv, Apart, lifeVars, socketVars
<1>3. SocketInv /\ [SocketNext /\ UNCHANGED refreshVars]_lifeVars => SocketInv'
  BY <1>2, SocketSteps
<1>4. SocketInv => ListenerIsReached
  BY DEF SocketInv, Apart, ListenerIsReached
<1> QED
  BY <1>1, <1>3, <1>4, PTL DEF SocketSpec
=============================================================================
