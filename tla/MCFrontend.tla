----------------------------- MODULE MCFrontend -----------------------------
(***************************************************************************)
(* What a person sees and points at, one part to a behaviour: selection,   *)
(* routes and input of the terminal frontend (TuiSession), the bytes of its*)
(* terminal (InputDecoder), a drag over a pane (TuiSelection), the sidebar *)
(* (TuiSidebar), the areas of the panes (PaneAreas), keys, overlays and    *)
(* menus (TuiKeys) and the cards of the agents (AgentCards).               *)
(***************************************************************************)
EXTENDS TuiSession, InputDecoder, TuiKeys, TLC

CONSTANTS pane1, pane2, pane3, target1, target2

VARIABLES
    scene,      \* the component this behaviour is about
    \* TuiSelection
    lines, top, dragAsked, drawn, frames, dragShown, sel, auto, held, drags, scrolls,
    copied, dragMeant, pressed, settled, alike,
    \* TuiSidebar
    sideLive, snapshot, failing, waiting, sideEvents, sideSelected, sideMode, frame,
    offset, attentionOffset, follow, lastSelected, hits, sideDrawn, press, swallow,
    sideTurns,
    \* PaneAreas
    layout, size, areaMenu, areaDrawn, report,
    \* AgentCards
    conn, agents, listed, marks, stored, index, queue, cardsShown, opened, cardsAsked,
    faults
dragVars == <<lines, top, dragAsked, drawn, frames, dragShown, sel, auto, held, drags,
               scrolls, copied, dragMeant, pressed, settled, alike>>
sideVars == <<sideLive, snapshot, failing, waiting, sideEvents, sideSelected, sideMode,
               frame, offset, attentionOffset, follow, lastSelected, hits, sideDrawn,
               press, swallow, sideTurns>>
areaVars == <<layout, size, areaMenu, areaDrawn, report>>
cardsVars == <<conn, agents, listed, marks, stored, index, queue, cardsShown, opened,
                cardsAsked, faults>>
all == <<scene, vars, decoderVars, dragVars, sideVars, areaVars, keysVars, cardsVars>>

OfTarget == pane1 :> target1 @@ pane2 :> target1 @@ pane3 :> target2
OfTab == pane1 :> 1 @@ pane2 :> 1 @@ pane3 :> 2
EitherSaved == {None, pane3}
Offers == {<<"session", "pane">>, <<>>}

\* What the two targets of the sidebar report.
Busy == [workspaces |-> {1, 2}, panes |-> {1, 2, 3}, focused |-> 2, front |-> <<2, 3>>]
Idle == [workspaces |-> {1}, panes |-> {}, focused |-> None, front |-> <<None>>]
Other == [workspaces |-> {3}, panes |-> {4}, focused |-> None, front |-> [w \in {3} |-> 4]]
Reported == <<{Busy, Idle}, {Other}>>

Square(x, y, width, height) == [x |-> x, y |-> y, width |-> width, height |-> height]
Halves == [area |-> Square(0, 0, 10, 6), panes |-> <<Square(0, 0, 5, 6), Square(5, 0, 5, 6)>>,
           tabs |-> <<3>>, zoomed |-> FALSE]
Arranged ==
    {Halves, [Halves EXCEPT !.zoomed = TRUE],
     [area |-> Square(2, 1, 9, 7), tabs |-> <<1, 4, 2>>, zoomed |-> FALSE,
      panes |-> <<Square(2, 1, 4, 7), Square(6, 1, 5, 3), Square(6, 4, 5, 4)>>],
     [area |-> Square(0, 0, 7, 5), tabs |-> <<>>, zoomed |-> FALSE,
      panes |-> <<Square(0, 0, 7, 1), Square(0, 1, 3, 4), Square(3, 1, 4, 4)>>]}
Spaces == {[width |-> z[1], height |-> z[2]] : z \in {<<7, 5>>, <<11, 7>>, <<2, 3>>, <<270, 4>>}}

\* A pane of three rows over five lines, three of them blank.
Drag == INSTANCE TuiSelection WITH
    Rows <- 3, History <- 5, Content <- <<1, 0, 0, 0, 2, 3>>, MaxLines <- 6,
    MaxScrolls <- 3, MaxDrags <- 1, WheelLines <- 3, asked <- dragAsked,
    shown <- dragShown, meant <- dragMeant
\* Two targets, of which one comes to have no panes, in a sidebar of two or six rows.
Side == INSTANCE TuiSidebar WITH
    Panes <- 1..4, Workspaces <- 1..3, Targets <- 1..2, WorkspaceOf <- <<1, 1, 2, 3>>,
    TargetOf <- <<1, 1, 2>>, Snapshots <- Reported, Frames <- {2, 6}, Lines <- 3,
    MaxEvents <- 2, MaxTurns <- 2, live <- sideLive, events <- sideEvents,
    selected <- sideSelected, mode <- sideMode, drawn <- sideDrawn, turns <- sideTurns
\* Layouts that do not divide evenly, areas smaller than them and past a byte.
Area == INSTANCE PaneAreas WITH
    Layouts <- Arranged, Sizes <- Spaces,
    Menus <- {[width |-> 8, actions |-> 1], [width |-> 30, actions |-> 7]},
    Pointers <- {[x |-> x, y |-> y] : x \in {3, 8, 252, 253}, y \in {0, 2}},
    Codes <- {0, 35}, SidebarFrom <- 70, SidebarWidth <- 28, MainWidth <- 20,
    menu <- areaMenu, drawn <- areaDrawn
\* Two panes of a target, one session to report, room for one mark and one card that is gone.
Cards == INSTANCE AgentCards WITH
    Targets <- 1..1, Panes <- 1..2, TargetOf <- <<1, 1>>, Sessions <- {1},
    Phases <- {"attention"}, MaxHistory <- 1, MaxMarked <- 1, MaxRevision <- 3,
    MaxQueue <- 1, MaxMarks <- 1, MaxFaults <- 1, shown <- cardsShown, asked <- cardsAsked

\* One component acts; the others stay as they began.
MCInit ==
    /\ scene \in {"session", "decode", "drag", "sidebar", "areas", "keys", "cards"}
    /\ Init /\ DecoderInit /\ Drag!Init /\ Side!Init /\ Area!Init /\ KeysInit /\ Cards!Init
    /\ scene # "session" => saved = None
    /\ scene # "sidebar" => snapshot = <<Busy, Other>> /\ sideSelected = 1 /\ frame = 2
    /\ scene # "areas" => layout = Halves /\ size = [width |-> 7, height |-> 5]
MCNext ==
    \/ scene = "session" /\ Next /\ UNCHANGED <<scene, decoderVars, dragVars, sideVars, areaVars, keysVars, cardsVars>>
    \/ scene = "decode" /\ DecoderNext /\ UNCHANGED <<scene, vars, dragVars, sideVars, areaVars, keysVars, cardsVars>>
    \/ scene = "drag" /\ Drag!Next /\ UNCHANGED <<scene, vars, decoderVars, sideVars, areaVars, keysVars, cardsVars>>
    \/ scene = "sidebar" /\ Side!Next /\ UNCHANGED <<scene, vars, decoderVars, dragVars, areaVars, keysVars, cardsVars>>
    \/ scene = "areas" /\ Area!Next /\ UNCHANGED <<scene, vars, decoderVars, dragVars, sideVars, keysVars, cardsVars>>
    \/ scene = "keys" /\ KeysNext /\ UNCHANGED <<scene, vars, decoderVars, dragVars, sideVars, areaVars, cardsVars>>
    \/ scene = "cards" /\ Cards!Next /\ UNCHANGED <<scene, vars, decoderVars, dragVars, sideVars, areaVars, keysVars>>

MCSpec == MCInit /\ [][MCNext]_all


\* A card that can be opened leads to its agent's pane, cards keep their places while others
\* come and go, and a card is only dropped for a cause (AgentCardIndex::project, resolve).
CardsHoldStill ==
    [](scene = "cards" => Cards!OfferedIsRoutable) /\ Cards!PlacesHold /\ Cards!CardsEndForCause
=============================================================================
