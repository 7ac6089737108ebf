------------------------------ MODULE PaneAreas ------------------------------
(***************************************************************************)
(* Where things are on the screen of the terminal frontend, and what a     *)
(* pointer is over: the panes of a tab scaled from the layout the host     *)
(* reports to the area at hand, the strip of tabs above them, the context  *)
(* menu, and the report of the pointer that is sent into a pane.  What is  *)
(* drawn is drawn at a limited rate, while a press is read against the     *)
(* newest update: layouts, sizes and menus change between the two.         *)
(***************************************************************************)
EXTENDS Integers, Sequences, FiniteSets, SequencesExt

CONSTANTS
    Layouts,    \* what a host may report: [area, panes, tabs, zoomed], panes a sequence of
                \* rectangles and tabs the widths of the titles
    Sizes,      \* sizes of the terminal, [width, height]
    Menus,      \* context menus: [width, actions], as wide as they would like to be
    Pointers,   \* cells the pointer may be on
    Codes,      \* codes of buttons, of motion and of the wheel
    SidebarFrom, SidebarWidth, MainWidth, \* from what width on there is a sidebar, SIDEBAR_WIDTH, what it leaves
    None

VARIABLES
    layout,     \* the layout of the selected tab in the newest update
    size,       \* app.last_frame_area
    menu,       \* app.context_menu, with its anchor
    drawn,      \* what render was last given: a layout, a size and a menu
    report      \* what this step sent into the selected pane
vars == <<layout, size, menu, drawn, report>>

Now == [layout |-> layout, size |-> size, menu |-> menu]

\* Rect, and its right and lower edges
Rect(x, y, w, h) == [x |-> x, y |-> y, width |-> w, height |-> h]
Over(r, p) == /\ r.x <= p.x /\ p.x < r.x + r.width
              /\ r.y <= p.y /\ p.y < r.y + r.height
Sub(a, b) == IF a > b THEN a - b ELSE 0
AtMost(a, b) == IF a < b THEN a ELSE b
Clamp(v, lo, hi) == IF v < lo THEN lo ELSE IF v > hi THEN hi ELSE v
Cells(r) == {[x |-> c[1], y |-> c[2]] : c \in (r.x .. r.x + r.width - 1) \X (r.y .. r.y + r.height - 1)}

-----------------------------------------------------------------------------
(* Panes.  A scene is a layout, a size and a menu, those of Now or those that are drawn. *)

\* ui_areas: a sidebar where there is room, a row of tabs, and the panes.
FrameArea(s) == Rect(0, 0, s.size.width, s.size.height)
Sidebar(s) == IF s.size.width >= SidebarFrom THEN AtMost(SidebarWidth, s.size.width - MainWidth) ELSE 0
TabArea(s) == Rect(Sidebar(s), 0, s.size.width - Sidebar(s), 1)
TerminalArea(s) == Rect(Sidebar(s), 1, s.size.width - Sidebar(s), s.size.height - 1)

ScaleEdge(offset, source, destination) == (offset * destination) \div source

\* Mutant of ScaleRect: sizes are scaled, not edges.
ScaleRectBySize(source, pane, d) ==
    LET left == ScaleEdge(Sub(pane.x, source.x), source.width, d.width)
        top == ScaleEdge(Sub(pane.y, source.y), source.height, d.height)
        w == ScaleEdge(pane.width, source.width, d.width)
        h == ScaleEdge(pane.height, source.height, d.height)
    IN  IF source.width = 0 \/ source.height = 0 \/ w = 0 \/ h = 0 THEN None
        ELSE Rect(d.x + left, d.y + top, w, h)

\* scale_layout_rect: each edge is scaled by itself.
ScaleRect(source, pane, d) ==
    LET Across(v) == AtMost(ScaleEdge(v, source.width, d.width), d.width)
        Down(v) == AtMost(ScaleEdge(v, source.height, d.height), d.height)
        left == Across(Sub(pane.x, source.x))
        right == Across(Sub(pane.x, source.x) + pane.width)
        top == Down(Sub(pane.y, source.y))
        bottom == Down(Sub(pane.y, source.y) + pane.height)
    IN  IF source.width = 0 \/ source.height = 0 \/ d.width = 0 \/ d.height = 0 THEN None
        ELSE IF right > left /\ bottom > top
        THEN Rect(d.x + left, d.y + top, right - left, bottom - top)
        ELSE None

\* visible_pane_areas: one pane alone when zoomed, or when none of the layout fits.
Selected == 1
PaneRects(s) ==
    LET l == s.layout
        scaled == [p \in DOMAIN l.panes |-> ScaleRect(l.area, l.panes[p], TerminalArea(s))]
        shown == {p \in DOMAIN scaled : scaled[p] # None}
    IN  IF l.zoomed \/ shown = {} THEN [p \in {Selected} |-> TerminalArea(s)]
        ELSE [p \in shown |-> scaled[p]]

\* pane_block, context_menu_block: a border all around, and a blank column inside it on either side.
Inner(r) == Rect(r.x + AtMost(2, r.width), r.y + AtMost(1, r.height), Sub(r.width, 4), Sub(r.height, 2))
CellOf(r, p) == [column |-> p.x - r.x + 1, row |-> p.y - r.y + 1]

\* mouse_pane_position: the first pane the pointer is in, and the cell of its terminal, from 1.
PointedAt(s, p) ==
    LET rects == PaneRects(s)
        over == {q \in DOMAIN rects : Over(Inner(rects[q]), p)}
        first == CHOOSE q \in over : \A r \in over : q <= r
    IN  IF over = {} THEN None ELSE [pane |-> first, cell |-> CellOf(Inner(rects[first]), p)]

\* render_terminal_surfaces: the panes in turn, each over those before it.
PaneDrawn(s, p) ==
    LET rects == PaneRects(s)
        over == {q \in DOMAIN rects : Over(rects[q], p)}
        last == CHOOSE q \in over : \A r \in over : r <= q
    IN  IF over = {} \/ ~Over(Inner(rects[last]), p) THEN None
        ELSE [pane |-> last, cell |-> CellOf(Inner(rects[last]), p)]

\* clamped_pane_position: a drag that left the pane stays at its edge; from 0.
DragCell(s, q, p) ==
    LET i == Inner(PaneRects(s)[q])
    IN  IF q \notin DOMAIN PaneRects(s) \/ i.width = 0 \/ i.height = 0 THEN None
        ELSE [column |-> Clamp(p.x, i.x, i.x + i.width - 1) - i.x,
              row |-> Clamp(p.y, i.y, i.y + i.height - 1) - i.y]

-----------------------------------------------------------------------------
(* Tabs and menus *)

\* Mutant of TabAt: the divider is not counted.
TabAtUndivided(s, column) ==
    LET tabs == s.layout.tabs
        Left(i) == FoldLeft(LAMBDA n, w : n + w + 2, 0, SubSeq(tabs, 1, i - 1))
        over == {i \in DOMAIN tabs : Left(i) <= column /\ column < Left(i) + tabs[i] + 2}
    IN  IF over = {} THEN None ELSE [tab |-> CHOOSE i \in over : TRUE]

\* tab_at_column: a blank on either side of a title, a divider between tabs.
TabAt(s, column) ==
    LET tabs == s.layout.tabs
        Left(i) == FoldLeft(LAMBDA n, w : n + w + 2, 0, SubSeq(tabs, 1, i - 1)) + i - 1
        over == {i \in DOMAIN tabs : Left(i) <= column /\ column < Left(i) + tabs[i] + 2}
    IN  IF over = {} THEN None ELSE [tab |-> CHOOSE i \in over : TRUE]

\* render_tabs: what the Tabs widget puts in each column (ratatui): padding, title, padding, divider.
Strip(s) ==
    LET tabs == s.layout.tabs
        Tab(i) == [c \in 1 .. tabs[i] + 2 |-> [tab |-> i]]
    IN  FlattenSeq([i \in DOMAIN tabs |-> IF i < Len(tabs) THEN Append(Tab(i), None) ELSE Tab(i)])

\* context_menu_area: moved and cut until it fits.
MenuArea(s) ==
    LET m == s.menu
        width == IF AtMost(m.width, s.size.width) < 1 THEN 1 ELSE AtMost(m.width, s.size.width)
        height == IF AtMost(m.actions + 2, s.size.height) < 1 THEN 1 ELSE AtMost(m.actions + 2, s.size.height)
    IN  Rect(Clamp(m.at.x, 0, Sub(s.size.width, width)), Clamp(m.at.y, 0, Sub(s.size.height, height)), width, height)

\* context_menu_action_at, and the line render_context_menu draws there.
ActionAt(s, p) ==
    LET i == Inner(MenuArea(s))
    IN  IF Over(i, p) /\ p.y - i.y < s.menu.actions THEN [action |-> p.y - i.y] ELSE None

\* handle_mouse: what a press means.
Means(s, p) ==
    IF s.menu # None THEN ActionAt(s, p)
    ELSE IF Over(TabArea(s), p) THEN TabAt(s, p.x - TabArea(s).x)
    ELSE PointedAt(s, p)

\* render: what the cell under it shows.
Shows(s, p) ==
    LET column == p.x - TabArea(s).x + 1
    IN  IF s.menu # None THEN ActionAt(s, p)
        ELSE IF Over(TabArea(s), p) THEN (IF column <= Len(Strip(s)) THEN Strip(s)[column] ELSE None)
        ELSE PaneDrawn(s, p)

-----------------------------------------------------------------------------
(* Reports of the pointer *)

\* mouse_event_allowed: what the program in the pane asked for.
Motion(m) == (m.code \div 32) % 2 = 1
Asked == {"none", "press", "press_release", "button_motion", "any_motion"}
Allowed(asked, m) ==
    CASE asked = "none" -> FALSE
      [] asked = "press" -> ~m.release /\ ~Motion(m)
      [] asked = "press_release" -> ~Motion(m)
      [] asked = "button_motion" -> ~Motion(m) \/ m.code % 4 # 3
      [] asked = "any_motion" -> TRUE


\* encode_mouse_event: a byte holds what it can; the others hold any cell.
Encoded(encoding, m) ==
    LET code == IF m.release /\ encoding # "sgr" THEN m.code - (m.code % 4) + 3 ELSE m.code
    IN  IF encoding = "default" /\ \E v \in {code, m.column, m.row} : v + 32 > 255 THEN None
        ELSE IF encoding = "sgr" THEN <<m.code, m.column, m.row, m.release>>
        ELSE <<code + 32, m.column + 32, m.row + 32>>

-----------------------------------------------------------------------------
(* What changes *)

\* The host reports another layout, or another tab is selected.
Relayout == /\ \E l \in Layouts : layout' = l
            /\ report' = None /\ UNCHANGED <<size, menu, drawn>>
\* A tick finds the terminal at another size.
Resize == /\ \E z \in Sizes : size' = z
          /\ report' = None /\ UNCHANGED <<layout, menu, drawn>>
\* The main loop draws, at most once in MIN_RENDER_INTERVAL.
Draw == /\ drawn' = Now
        /\ report' = None /\ UNCHANGED <<layout, size, menu>>

\* A mouse event over the selected pane goes into it as a report (send_mouse_inputs).
Point ==
    /\ menu = None
    /\ \E p \in Pointers, c \in Codes, release \in BOOLEAN, asked \in Asked :
         LET m == Means(Now, p)
         IN  report' = IF m = None \/ "pane" \notin DOMAIN m THEN None
                       ELSE IF m.pane # Selected \/ ~Allowed(asked, [code |-> c, release |-> release]) THEN None
                       ELSE [code |-> c, release |-> release, at |-> m.cell]
    /\ UNCHANGED <<layout, size, menu, drawn>>
\* A right press on a pane or a tab opens its menu.
RightPress ==
    /\ menu = None /\ \E p \in Pointers, m \in Menus :
         /\ Means(Now, p) # None
         /\ menu' = [width |-> m.width, actions |-> m.actions, at |-> p]
    /\ report' = None /\ UNCHANGED <<layout, size, drawn>>
\* handle_context_menu_mouse: an action is taken, or a press beside it closes the menu.
MenuPress ==
    /\ menu # None /\ menu' = None
    /\ report' = None /\ UNCHANGED <<layout, size, drawn>>

Init ==
    /\ layout \in Layouts /\ size \in Sizes
    /\ menu = None /\ drawn = Now /\ report = None
Next == Relayout \/ Resize \/ Draw \/ Point \/ RightPress \/ MenuPress
Spec == Init /\ [][Next]_vars

-----------------------------------------------------------------------------
(* Properties *)

\* However a layout is scaled, when it is drawn each cell of the area is one pane's, as each cell of the layout is,
\* and a drag stays in its pane (scale_layout_rect, clamped_pane_position).
CellHasOnePane ==
    LET rects == PaneRects(drawn)
        whole == drawn.layout.zoomed \/ \A p \in DOMAIN drawn.layout.panes : p \in DOMAIN rects
        Holds(c) == {p \in DOMAIN rects : Over(rects[p], c)}
    IN  drawn = Now =>
        /\ \A c \in Cells(TerminalArea(drawn)) : Cardinality(Holds(c)) <= 1 /\ (whole => Holds(c) # {})
        /\ \A p \in DOMAIN rects, pointer \in Pointers :
             LET i == Inner(rects[p]) d == DragCell(drawn, p, pointer)
             IN  d # None => Over(i, [x |-> i.x + d.column, y |-> i.y + d.row])

\* Unless the layout, the size or the menu changed since the last draw, a press means what is
\* drawn under it, a tab, a cell of a pane or an action of the menu, and the menu lies within
\* the screen (tab_at_column with render_tabs, mouse_pane_position with
\* render_terminal_surfaces, context_menu_area).
PointedIsDrawn ==
    /\ drawn = Now => \A p \in Pointers \cup Cells(TabArea(Now)) : Means(Now, p) = Shows(drawn, p)
    /\ menu # None =>
         LET m == MenuArea(Now)
         IN  m.x >= 0 /\ m.x + m.width <= size.width /\ m.y >= 0 /\ m.y + m.height <= size.height

\* Not kept: a press is read against the newest update and the newest size, whatever is drawn.
PointedIsAlwaysDrawn == \A p \in Pointers : Means(Now, p) = Shows(drawn, p)

\* A report says the cell it was made for, or nothing is sent: a program reading it back finds the
\* column and the row of the pointer in its pane, however large the terminal (encode_mouse_event).
ReportSaysTheCell ==
    report # None =>
        LET m == [code |-> report.code, release |-> report.release,
                  column |-> report.at.column, row |-> report.at.row]
        IN  \A e \in {"default", "utf8", "sgr"} :
              LET b == Encoded(e, m)
                  back == IF e = "sgr" THEN <<b[2], b[3]>> ELSE <<b[2] - 32, b[3] - 32>>
              IN  b # None => back = <<m.column, m.row>>
=============================================================================
