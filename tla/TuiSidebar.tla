----------------------------- MODULE TuiSidebar -----------------------------
(***************************************************************************)
(* The sidebar of the terminal frontend: the rows it lists, the viewport   *)
(* that follows the selection until somebody scrolls, and the hit areas a  *)
(* press is looked up in.  Drawing is limited in rate, so a press may      *)
(* arrive after the state changed and before the screen shows it: the hit  *)
(* areas are the ones of the last draw, while the wheel and the number     *)
(* keys read the state of the moment.                                      *)
(***************************************************************************)
EXTENDS Integers, Sequences, FiniteSets, SequencesExt

CONSTANTS
    Panes, Workspaces, Targets, \* numbers, in the order of their ids
    WorkspaceOf, TargetOf,      \* the workspace of a pane, the target of a workspace
    Snapshots,                  \* per target, the snapshots it may report: [workspaces, panes,
                                \* focused (a pane or None), front (per workspace, the focused pane of its tab)]
    None,
    Frames,                     \* even heights of the sidebar
    Lines,                      \* MOUSE_SCROLL_LINES
    MaxEvents,                  \* named bound: events the attention log holds
    MaxTurns                    \* named bound: changes of the state, resizes and gestures

VARIABLES
    live,       \* the targets with a live connection
    snapshot,   \* per target, its last snapshot or None (kept when the connection is lost)
    failing,    \* targets with an event_error
    waiting,    \* panes whose agent needs attention
    events,     \* the panes of the attention events, oldest first
    selected, mode, frame,
    offset, attentionOffset, follow, lastSelected,   \* App.sidebar_*
    hits,       \* App.sidebar_hit_areas: row of the screen -> what a press there means
    drawn,      \* what the last draw shows in each row of the screen
    press, swallow,                                  \* sidebar_press, swallow_left_gesture
    turns
world == <<live, snapshot, failing, waiting, events>>
viewport == <<offset, attentionOffset, follow, lastSelected>>
gesture == <<press, swallow>>
vars == <<world, selected, mode, frame, viewport, hits, drawn, gesture, turns>>

Turn == turns < MaxTurns /\ turns' = turns + 1
Ordered(S) == SetToSortSeq(S, <)
Reported == {t \in Targets : snapshot[t] # None}

-----------------------------------------------------------------------------
(* Rows *)

\* SidebarRow: what a press selects, what a right press opens, and whether it is the selection's.
Row(pane, context, anchor) == [pane |-> pane, context |-> context, anchor |-> anchor]
Inert == Row(None, None, FALSE)
SelectedWorkspace(s) ==
    IF \E t \in Reported : s \in snapshot[t].panes THEN WorkspaceOf[s] ELSE None
SelectedTarget(s) == IF s = None THEN None ELSE TargetOf[WorkspaceOf[s]]

PanesIn(t, w) == {p \in snapshot[t].panes : WorkspaceOf[p] = w}
First(S) == IF S = {} THEN None ELSE CHOOSE p \in S : \A q \in S : p <= q
\* pane_for_workspace: the focused pane of its active, or else first, tab
PaneForWorkspace(t, w) == IF t \in live THEN snapshot[t].front[w] ELSE None
TargetPane(t) == IF snapshot[t].focused # None THEN snapshot[t].focused ELSE First(snapshot[t].panes)
TargetRow(t, s) ==
    Row(IF t \in live /\ t \in Reported THEN TargetPane(t) ELSE None,
        <<"session", t>>, SelectedTarget(s) = t /\ SelectedWorkspace(s) = None)
WorkspaceRow(t, w, s) == Row(PaneForWorkspace(t, w), <<"workspace", w>>, SelectedWorkspace(s) = w)
PaneRow(p, s) == Row(p, <<"pane", p>>, s = p)
EachTarget(RowsOf(_)) == FlattenSeq([i \in 1 .. Cardinality(Targets) |-> RowsOf(Ordered(Targets)[i])])
EachWorkspace(t, RowsOf(_)) ==
    IF snapshot[t] = None THEN <<>>
    ELSE LET ws == Ordered(snapshot[t].workspaces) IN FlattenSeq([i \in 1 .. Len(ws) |-> RowsOf(ws[i])])

SessionRows(s) ==
    EachTarget(LAMBDA t :
        <<TargetRow(t, s)>>
        \o (IF SelectedTarget(s) = t /\ t \in failing THEN <<Inert>> ELSE <<>>)
        \o EachWorkspace(t, LAMBDA w : <<WorkspaceRow(t, w, s)>>))

\* agent_jump_entries: only agents of live targets wait.
Waiting == Ordered({p \in waiting : TargetOf[WorkspaceOf[p]] \in live})
AttentionRows(s) ==
    (IF Waiting = <<>> THEN <<>> ELSE <<Inert>> \o [i \in DOMAIN Waiting |-> PaneRow(Waiting[i], s)])
    \o <<Inert>>
    \o (IF events = <<>> THEN <<Inert>>
        ELSE [i \in DOMAIN events |-> PaneRow(events[Len(events) + 1 - i], s)])

\* A box per workspace: the arrow and the border above it, its title, its panes, the border below.
DiagramRows(s) ==
    EachTarget(LAMBDA t :
        <<TargetRow(t, s)>>
        \o EachWorkspace(t, LAMBDA w :
             LET panes == Ordered(PanesIn(t, w))
             IN  <<Inert, Inert, WorkspaceRow(t, w, s)>>
                 \o (IF panes = <<>> THEN <<Inert>> ELSE [i \in DOMAIN panes |-> PaneRow(panes[i], s)])
                 \o <<Inert>>))
    \o <<Inert>>

Rows(s) == IF mode = "list" THEN SessionRows(s) ELSE DiagramRows(s)

-----------------------------------------------------------------------------
(* Geometry: rows of the screen count from 0; each block has its title in its first row *)

Half(f) == f \div 2
Height(f) == IF mode = "list" THEN Half(f) - 1 ELSE f - 1
AttentionHeight(f) == Half(f) - 1
Minus(a, b) == IF a > b THEN a - b ELSE 0
AtMost(a, b) == IF a < b THEN a ELSE b

\* Mutant of Follow: the row just below the window counts as visible.
FollowShort(rows, at, height) ==
    LET k == SelectInSeq(rows, LAMBDA r : r.anchor) - 1
    IN  IF k < 0 THEN at
        ELSE IF k < at THEN k
        ELSE IF k > at + height THEN Minus(k + 1, height)
        ELSE at

\* reconcile_sidebar_viewport, once it is known to follow: the selected row comes into the window.
Follow(rows, at, height) ==
    LET k == SelectInSeq(rows, LAMBDA r : r.anchor) - 1
    IN  IF k < 0 THEN at
        ELSE IF k < at THEN k
        ELSE IF k >= at + height THEN Minus(k + 1, height)
        ELSE at

\* append_sidebar_hit_areas, and Paragraph::scroll: the rows of a block, from its offset.
Window(rows, at, top, height) ==
    [y \in {z \in top .. top + height - 1 : at + z - top + 1 <= Len(rows)} |-> rows[at + y - top + 1]]
Merge(f, g) == [y \in DOMAIN f \cup DOMAIN g |-> IF y \in DOMAIN f THEN f[y] ELSE g[y]]
Screen(rows, at, attentionRows, attentionAt, f) ==
    IF mode = "list"
    THEN Merge(Window(rows, at, 1, Height(f)),
               Window(attentionRows, attentionAt, Half(f) + 1, AttentionHeight(f)))
    ELSE Window(rows, at, 1, Height(f))
Pressable(screen) ==
    [y \in {z \in DOMAIN screen : screen[z].pane # None \/ screen[z].context # None} |->
        [pane |-> screen[y].pane, context |-> screen[y].context]]

\* Mutant of Update: the hit areas are laid out before the viewport moved.
UpdateLate(s, rows, attentionRows, f) ==
    /\ follow' = (follow \/ lastSelected # s) /\ lastSelected' = s
    /\ LET most == Minus(Len(rows), Height(f))
           at == AtMost(offset, most)
       IN  offset' = IF Height(f) = 0 \/ ~follow' THEN at ELSE AtMost(Follow(rows, at, Height(f)), most)
    /\ attentionOffset' = IF mode = "list"
                          THEN AtMost(attentionOffset, Minus(Len(attentionRows), AttentionHeight(f)))
                          ELSE attentionOffset
    /\ hits' = Pressable(Screen(rows, offset, attentionRows, attentionOffset, f))

\* update_sidebar_hit_areas
Update(s, rows, attentionRows, f) ==
    /\ follow' = (follow \/ lastSelected # s) /\ lastSelected' = s
    /\ LET most == Minus(Len(rows), Height(f))
           at == AtMost(offset, most)
       IN  offset' = IF Height(f) = 0 \/ ~follow' THEN at ELSE AtMost(Follow(rows, at, Height(f)), most)
    /\ attentionOffset' = IF mode = "list"
                          THEN AtMost(attentionOffset, Minus(Len(attentionRows), AttentionHeight(f)))
                          ELSE attentionOffset
    /\ hits' = Pressable(Screen(rows, offset', attentionRows, attentionOffset', f))

-----------------------------------------------------------------------------
(* The loop of the frontend *)

\* A draw.  reconcile_selection comes first and may move the selection to any live pane
\* (TuiSession says which).
LivePanes == UNION {snapshot[t].panes : t \in live \cap Reported}
Draw ==
    /\ \E s \in {selected} \cup LivePanes :
         /\ selected' = s
         /\ Update(s, Rows(s), AttentionRows(s), frame)
         /\ drawn' = Screen(Rows(s), offset', AttentionRows(s), attentionOffset', frame)
    /\ UNCHANGED <<world, mode, frame, gesture, turns>>

\* select_pane: the sidebar follows the selection again.
Select(p) == selected' = p /\ follow' = TRUE /\ press' = None
SelectNothing == UNCHANGED <<selected, follow>> /\ press' = None
rest == <<offset, attentionOffset, lastSelected>>

\* handle_mouse in the sidebar: the wheel.
WheelMain(down) ==
    /\ ~swallow
    /\ LET next == IF down THEN AtMost(offset + Lines, Minus(Len(Rows(selected)), Height(frame)))
                   ELSE Minus(offset, Lines)
       IN  offset' = next /\ follow' = (follow /\ next = offset)
    /\ UNCHANGED <<attentionOffset, lastSelected>>
WheelAttention(down) ==
    /\ ~swallow /\ mode = "list"
    /\ attentionOffset' = IF down
                          THEN AtMost(attentionOffset + Lines,
                                      Minus(Len(AttentionRows(selected)), AttentionHeight(frame)))
                          ELSE Minus(attentionOffset, Lines)
    /\ UNCHANGED <<offset, follow, lastSelected>>
Wheel ==
    /\ Turn
    /\ \E down \in BOOLEAN : WheelMain(down) \/ WheelAttention(down)
    /\ UNCHANGED <<world, selected, mode, frame, hits, drawn, gesture>>

\* A left press remembers the pane under the pointer; the release selects it.
Press(y) ==
    /\ Turn /\ ~swallow
    /\ press' = IF y \in DOMAIN hits THEN hits[y].pane ELSE None
    /\ swallow' = TRUE
    /\ UNCHANGED <<world, selected, mode, frame, viewport, hits, drawn>>
Release ==
    /\ swallow
    /\ swallow' = FALSE
    /\ IF press # None THEN Select(press) ELSE SelectNothing
    /\ UNCHANGED <<world, mode, frame, rest, hits, drawn, turns>>

\* A right press selects the pane and opens the menu of what the row stands for (TuiKeys).
RightPress(y) ==
    /\ Turn /\ ~swallow /\ y \in DOMAIN hits /\ hits[y].context # None
    /\ IF hits[y].pane # None THEN Select(hits[y].pane) ELSE SelectNothing
    /\ UNCHANGED <<world, mode, frame, rest, hits, drawn, swallow>>

\* select_workspace: the n-th workspace of the live targets.
LiveWorkspaces ==
    FlattenSeq([i \in 1 .. Cardinality(Targets) |->
        LET t == Ordered(Targets)[i]
        IN  IF t \in live /\ t \in Reported THEN Ordered(snapshot[t].workspaces) ELSE <<>>])
SelectWorkspace(n) ==
    /\ Turn /\ n \in DOMAIN LiveWorkspaces
    /\ LET w == LiveWorkspaces[n]
           p == PaneForWorkspace(TargetOf[w], w)
       IN  p # None /\ Select(p)
    /\ UNCHANGED <<world, mode, frame, rest, hits, drawn, swallow>>

ToggleMode ==
    /\ Turn /\ mode' = IF mode = "list" THEN "map" ELSE "list"
    /\ UNCHANGED <<world, selected, frame, viewport, hits, drawn, gesture>>

\* The tick reads the size of the terminal; the next draw uses it.
Resize ==
    /\ Turn /\ \E f \in Frames \ {frame} : frame' = f
    /\ UNCHANGED <<world, selected, mode, viewport, hits, drawn, gesture>>

-----------------------------------------------------------------------------
(* The daemon's updates *)

Changed ==
    /\ Turn
    /\ \/ /\ \E t \in Targets : \E s \in Snapshots[t] :
               snapshot' = [snapshot EXCEPT ![t] = s] /\ live' = live \cup {t}
          /\ UNCHANGED <<failing, waiting, events>>
       \/ /\ \E t \in live : live' = live \ {t} /\ failing' = failing \cup {t}
          /\ UNCHANGED <<snapshot, waiting, events>>
       \/ /\ \E p \in Panes : /\ waiting' = (waiting \cup {p}) \ (waiting \cap {p})
                              /\ events' = LET all == Append(events, p)
                                           IN  IF Len(all) > MaxEvents THEN Tail(all) ELSE all
          /\ UNCHANGED <<live, snapshot, failing>>
    /\ UNCHANGED <<selected, mode, frame, viewport, hits, drawn, gesture>>

Init ==
    /\ live = Targets /\ snapshot \in {s \in [Targets -> UNION {Snapshots[t] : t \in Targets}] :
                                          \A t \in Targets : s[t] \in Snapshots[t]}
    /\ failing = {} /\ waiting = {} /\ events = <<>>
    /\ selected \in UNION {snapshot[t].panes : t \in Targets} /\ mode = "list" /\ frame \in Frames
    /\ offset = 0 /\ attentionOffset = 0 /\ follow = TRUE /\ lastSelected = None
    /\ hits = <<>> /\ drawn = <<>> /\ press = None /\ swallow = FALSE /\ turns = 0

Next ==
    \/ Draw \/ Wheel \/ Release \/ ToggleMode \/ Resize \/ Changed
    \/ \E f \in Frames : \E y \in 0 .. f - 1 : Press(y) \/ RightPress(y)
    \/ \E n \in 1 .. Cardinality(Workspaces) : SelectWorkspace(n)

Spec == Init /\ [][Next]_vars

-----------------------------------------------------------------------------
(* Properties *)

\* A press means what its row on the screen says, however the list, the viewport and the size
\* changed since it was drawn (update_sidebar_hit_areas with render_sidebar).
PressMeansDrawn ==
    /\ DOMAIN hits \subseteq DOMAIN drawn
    /\ \A y \in DOMAIN drawn :
         /\ y \in DOMAIN hits => drawn[y].pane = hits[y].pane /\ drawn[y].context = hits[y].context
         /\ y \notin DOMAIN hits => drawn[y] = Inert

\* A draw after the selection moved shows its row, and a draw never leaves a line blank that a row
\* could fill, whatever was scrolled, shrunk or resized before (reconcile_sidebar_viewport).
ViewportHolds ==
    [][Draw =>
        LET height == Height(frame)
            rows == Rows(selected')
            visible == {k \in 1 .. height : k \in DOMAIN drawn'}
        IN  /\ Cardinality(visible) = AtMost(height, Len(rows))
            /\ (lastSelected # selected' /\ height > 0 /\ \E i \in DOMAIN rows : rows[i].anchor)
                 => \E k \in visible : drawn'[k].anchor]_vars

-----------------------------------------------------------------------------
(* Statements of the repository that the code does not keep *)

\* "1-9 workspace": a number key selects the workspace the sidebar gives that number.
Numbered == FlattenSeq([i \in 1 .. Cardinality(Targets) |->
                LET t == Ordered(Targets)[i]
                IN  IF t \in Reported THEN Ordered(snapshot[t].workspaces) ELSE <<>>])
NumberSelectsNumbered ==
    [][\A n \in DOMAIN Numbered : SelectWorkspace(n) => WorkspaceOf[selected'] = Numbered[n]]_vars
=============================================================================
