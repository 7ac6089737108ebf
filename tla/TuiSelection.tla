--------------------------- MODULE TuiSelection ---------------------------
(* Selecting text with the mouse in the frontend's selected pane: a press   *)
(* anchors a selection in logical rows, a drag moves its head, a drag held   *)
(* at an edge asks the host to scroll a line at every tick, and the frames   *)
(* that answer are recognised by how far they moved what the pane shows.     *)
(*                                                                           *)
(* A screen is what stands on the Rows lines it shows, and that is all the   *)
(* frontend has of it: lines of the history may read alike.  Columns are     *)
(* left out.                                                                 *)
EXTENDS Integers, Sequences, TLAPS

CONSTANTS Rows,      \* the rows the pane shows
          History,   \* the lines its history holds at first
          Content,   \* what stands on each line, 0 for a blank one
          MaxLines,  \* bound: the lines it may come to hold
          MaxScrolls, \* bound: scroll requests
          MaxDrags,  \* bound: presses
          WheelLines \* MOUSE_SCROLL_LINES

VARIABLES
    lines,     \* host: the lines in the pane's history
    top,       \* host: the line its viewport begins with
    asked,     \* scroll requests on their way, signed: negative is up
    drawn,     \* host: the first line of the screen it drew last
    frames,    \* the first lines of the frames on their way to the frontend
    shown,     \* frontend: the first line of the screen its parser holds
    sel,       \* frontend: app.selection, Absent when there is none
    auto,      \* frontend: app.selection_autoscroll
    held,      \* the mouse: its left button is down
    drags,     \* presses so far
    scrolls,   \* scroll requests so far
    copied,    \* frontend: the text this gesture copied, a sequence of lines
    meant,     \* what it went over, as the user saw it
    pressed,   \* the line under the press
    settled,   \* nothing but this drag's own scrolls moved what is shown
    alike      \* a scroll of this drag led to a screen that reads as if another had
vars == <<lines, top, asked, drawn, frames, shown, sel, auto, held, drags, scrolls, copied, meant, pressed, settled,
          alike>>

Absent == [none |-> TRUE]
View == 0 .. Rows - 1
Screen(first) == [y \in View |-> Content[first + y]]
Least(a, b) == IF a < b THEN a ELSE b
Most(a, b) == IF a < b THEN b ELSE a
Between(a, b) == [i \in 1 .. (Most(a, b) - Least(a, b) + 1) |-> Content[Least(a, b) + i - 1]]

Init ==
    /\ lines = History /\ top = History - Rows + 1 /\ drawn = top /\ shown = top
    /\ asked = <<>> /\ frames = <<>> /\ sel = Absent /\ auto = Absent
    /\ held = FALSE /\ drags = 0 /\ scrolls = 0 /\ copied = <<>> /\ meant = <<>> /\ pressed = 0 /\ settled = TRUE
    /\ alike = FALSE

-----------------------------------------------------------------------------
(* CellPosition::from_viewport and capture_selection_rows.                  *)

Logical(s, y) == y - s.offset

Captured(s, screen) ==
    [r \in (DOMAIN s.rows) \cup {Logical(s, y) : y \in View} |->
        IF r + s.offset \in View THEN screen[r + s.offset] ELSE s.rows[r]]

\* selection_autoscroll_direction: the first and the last row are the edges.
Edge(y) == IF y = 0 THEN "up" ELSE IF y = Rows - 1 THEN "down" ELSE "none"

\* selected_terminal_text: a row that was never captured is an empty line.
Text(s) ==
    LET from == Least(s.anchor, s.head)
        to == Most(s.anchor, s.head)
    IN  [i \in 1 .. to - from + 1 |->
            IF from + i - 1 \in DOMAIN s.rows THEN s.rows[from + i - 1] ELSE 0]

-----------------------------------------------------------------------------
(* handle_mouse, for events over the selected pane.                         *)

host == <<lines, top, drawn>>

Press(y) ==
    /\ ~held /\ held' = TRUE
    /\ drags < MaxDrags /\ drags' = drags + 1
    /\ auto' = Absent
    /\ sel' = LET s == [anchor |-> y, head |-> y, offset |-> 0, rows |-> <<>>, dragging |-> FALSE]
              IN  [s EXCEPT !.rows = Captured(s, Screen(shown))]
    /\ pressed' = shown + y
    /\ settled' = (asked = <<>> /\ frames = <<>> /\ drawn = shown /\ top = shown)
    /\ alike' = FALSE
    /\ copied' = <<>> /\ meant' = <<>>
    /\ UNCHANGED <<host, asked, frames, shown, scrolls>>

\* Mutant of Motion: a drag along the edge forgets the lines it has asked for.
MotionForgets(y) ==
    /\ held /\ sel # Absent
    /\ LET s == [sel EXCEPT !.head = Logical(sel, y), !.dragging = @ \/ Logical(sel, y) # sel.anchor \/ Edge(y) # "none"]
       IN  /\ sel' = s
           /\ auto' = IF s.dragging /\ Edge(y) # "none" THEN [direction |-> Edge(y), pending |-> 0] ELSE Absent
    /\ settled' = (settled /\ (auto # Absent /\ auto.pending > 0 => auto.direction = Edge(y)))
    /\ UNCHANGED <<host, asked, frames, shown, held, drags, scrolls, copied, meant, pressed, alike>>

Motion(y) ==
    /\ held /\ sel # Absent
    /\ LET s == [sel EXCEPT !.head = Logical(sel, y), !.dragging = @ \/ Logical(sel, y) # sel.anchor \/ Edge(y) # "none"]
           same == auto # Absent /\ auto.direction = Edge(y)
       IN  /\ sel' = s
           /\ auto' = IF s.dragging /\ Edge(y) # "none"
                      THEN [direction |-> Edge(y), pending |-> IF same THEN auto.pending ELSE 0]
                      ELSE Absent
    /\ settled' = (settled /\ (auto # Absent /\ auto.pending > 0 => auto.direction = Edge(y)))
    /\ UNCHANGED <<host, asked, frames, shown, held, drags, scrolls, copied, meant, pressed, alike>>

\* TerminalSelection::finish and copy_terminal_selection: what was dragged over
\* is copied and stays selected; a click clears the selection, forwarded to a
\* pane that reports the mouse or not.
Release(y) ==
    /\ held /\ held' = FALSE
    /\ auto' = Absent
    /\ LET s == [sel EXCEPT !.head = Logical(sel, y), !.dragging = @ \/ Logical(sel, y) # sel.anchor]
           full == [s EXCEPT !.rows = Captured(s, Screen(shown))]
       IN  \/ /\ sel = Absent
              /\ UNCHANGED <<sel, copied, meant>>
           \/ /\ sel # Absent /\ s.dragging
              /\ sel' = full
              /\ copied' = Text(full)
              /\ meant' = Between(pressed, shown + y)
           \/ /\ sel # Absent /\ ~s.dragging
              /\ sel' = Absent
              /\ UNCHANGED <<copied, meant>>
    /\ UNCHANGED <<host, asked, frames, shown, drags, scrolls, pressed, settled, alike>>

\* A wheel drops the selection and scrolls; send_terminal_scroll.
Wheel(lineCount) ==
    /\ scrolls < MaxScrolls /\ scrolls' = scrolls + 1
    /\ sel' = Absent /\ auto' = Absent
    /\ asked' = Append(asked, lineCount)
    /\ UNCHANGED <<host, frames, shown, held, drags, copied, meant, pressed, settled, alike>>

\* tick_selection_autoscroll.
Tick ==
    /\ auto # Absent
    /\ IF sel = Absent \/ ~sel.dragging
       THEN auto' = Absent /\ UNCHANGED <<asked, scrolls>>
       ELSE /\ scrolls < MaxScrolls /\ scrolls' = scrolls + 1
            /\ asked' = Append(asked, IF auto.direction = "up" THEN -1 ELSE 1)
            /\ auto' = [auto EXCEPT !.pending = @ + 1]
    /\ UNCHANGED <<host, frames, shown, sel, held, drags, copied, meant, pressed, settled, alike>>

-----------------------------------------------------------------------------
(* The host: it scrolls within its history, output makes the history longer *)
(* and moves a viewport that is at its end, and it draws when it pleases.    *)

HostScrolls ==
    /\ asked # <<>>
    /\ asked' = Tail(asked)
    /\ top' = Most(1, Least(lines - Rows + 1, top + Head(asked)))
    /\ UNCHANGED <<lines, drawn, frames, shown, sel, auto, held, drags, scrolls, copied, meant, pressed, settled, alike>>

Output ==
    /\ lines < MaxLines
    /\ lines' = lines + 1
    /\ top' = IF top = lines - Rows + 1 THEN top + 1 ELSE top
    /\ settled' = (settled /\ top' = top)
    /\ UNCHANGED <<asked, drawn, frames, shown, sel, auto, held, drags, scrolls, copied, meant, pressed, alike>>

Draw ==
    /\ drawn # top
    /\ drawn' = top
    /\ frames' = Append(frames, top)
    /\ UNCHANGED <<lines, top, asked, shown, sel, auto, held, drags, scrolls, copied, meant, pressed, settled, alike>>

-----------------------------------------------------------------------------
(* A PaneFrame reaches the frontend: viewport_shift_distance finds the least *)
(* distance at which the two screens agree, update_selection_after_frame     *)
(* moves the selection's viewport by it.                                     *)

Agrees(before, after, n, direction) ==
    IF direction = "up"
    THEN \A y \in 0 .. Rows - n - 1 : before[y] = after[y + n]
    ELSE \A y \in 0 .. Rows - n - 1 : before[y + n] = after[y]

ShiftDistance(before, after, direction) ==
    IF before = after THEN 0
    ELSE IF Rows = 1 THEN 1
    ELSE LET found == {n \in 1 .. Rows - 1 : Agrees(before, after, n, direction)}
         IN  IF found = {} THEN 0 ELSE CHOOSE n \in found : \A m \in found : n <= m

\* A move the drag's edge explains, and that leaves a line in common.
Towards(direction, n) == IF direction = "up" THEN n \in (1 - Rows) .. -1 ELSE n \in 1 .. Rows - 1

\* Nothing less than the move from the one line to the other makes what is shown
\* there agree.
ToldApart(a, b, direction) ==
    /\ Screen(a) # Screen(b)
    /\ \A n \in 1 .. Most(a, b) - Least(a, b) - 1 : ~Agrees(Screen(a), Screen(b), n, direction)

\* Mutant of Shifted: the viewport is taken to have moved by the one line a tick asks for.
ShiftedByOne(s, shift, direction) ==
    LET offset == s.offset + (IF direction = "up" THEN 1 ELSE -1)
    IN  [s EXCEPT !.offset = offset, !.head = (IF direction = "up" THEN 0 ELSE Rows - 1) - offset]

Shifted(s, shift, direction) ==
    LET offset == s.offset + (IF direction = "up" THEN shift ELSE -shift)
    IN  [s EXCEPT !.offset = offset, !.head = (IF direction = "up" THEN 0 ELSE Rows - 1) - offset]

Frame ==
    /\ frames # <<>>
    /\ frames' = Tail(frames)
    /\ shown' = Head(frames)
    /\ LET after == Screen(Head(frames))
           pending == auto # Absent /\ auto.pending > 0
           shift == IF pending THEN ShiftDistance(Screen(shown), after, auto.direction) ELSE 0
       IN  /\ IF sel = Absent
              THEN auto' = Absent /\ UNCHANGED sel
              ELSE /\ sel' = LET s == IF shift > 0 THEN Shifted(sel, shift, auto.direction) ELSE sel
                             IN  [s EXCEPT !.rows = Captured(s, after)]
                   /\ auto' = IF auto = Absent THEN Absent
                              ELSE [auto EXCEPT !.pending = Most(0, @ - shift)]
           /\ settled' = (settled /\ (Head(frames) # shown => auto # Absent /\ Towards(auto.direction, Head(frames) - shown)))
           /\ alike' = (alike \/ (Head(frames) # shown /\ auto # Absent
                                   /\ ~ToldApart(shown, Head(frames), auto.direction)))
    /\ UNCHANGED <<host, asked, held, drags, scrolls, copied, meant, pressed>>

-----------------------------------------------------------------------------

Next ==
    \/ \E y \in View : \/ Press(y)
                       \/ Motion(y)
                       \/ Release(y)
    \/ \E n \in {-WheelLines, WheelLines} : Wheel(n)
    \/ Tick \/ HostScrolls \/ Output \/ Draw \/ Frame

Spec == Init /\ [][Next]_vars

-----------------------------------------------------------------------------

\* While nothing but the drag's own scrolling moves what the pane shows, by
\* screens that can be told apart, every row the selection captured is the line
\* that stood there: the logical rows follow the host through requests that are
\* late, answered together or answered not at all because the history ends.
Sure == settled /\ ~alike
RowsStayTrue ==
    sel # Absent /\ Sure => \A r \in DOMAIN sel.rows : sel.rows[r] = Content[pressed - sel.anchor + r]

\* What a drag copies is what it went over: every line from the one under the
\* press to the one under the release, as they were shown.
CopiesWhatWasDragged ==
    [][copied' # copied /\ Sure => copied' = meant']_vars

\* Not kept: viewport_shift_distance takes the least distance at which two screens
\* agree, so where lines repeat a scroll is taken for a shorter one or, when the
\* screens are the same, for none, and the copy lacks lines.
CopiesWhateverIsShown ==
    [][copied' # copied /\ settled => copied' = meant']_vars

-----------------------------------------------------------------------------
(* Why that is so, for panes and histories of any size.                      *)

\* A pane shows a row, and its history holds what it shows.
Sized == Rows \in Nat \ {0} /\ History \in Nat /\ History >= Rows /\ WheelLines \in Nat

\* Row y of a pane that shows from the line first on is the logical row y - offset:
\* the rows captured are those lines, from one to another without a gap, the
\* anchor and everything on screen among them.
Placed(rows, anchor, offset, first, line) ==
    /\ first + offset = line - anchor
    /\ \A r \in DOMAIN rows : rows[r] = Content[line - anchor + r]
    /\ \E from, to \in Int :
           /\ DOMAIN rows = from .. to /\ from <= anchor /\ anchor <= to
           /\ from <= -offset /\ Rows - 1 - offset <= to

\* The second line is the first or lies beyond it.
Along(direction, a, b) == IF direction = "up" THEN b <= a ELSE a <= b
Gap(direction, a, b) == IF direction = "up" THEN a - b ELSE b - a
Line(direction) == IF direction = "up" THEN -1 ELSE 1

\* The requests, and the frames that lie between the line shown here, the one drawn
\* last and the one the host is at, move the pane in this direction, by n lines at most.
Owed(requests, views, here, last, there, direction, n) ==
    /\ \A i \in 1 .. Len(requests) : requests[i] = Line(direction)
    /\ \A i \in 1 .. Len(views) : Along(direction, here, views[i]) /\ Along(direction, views[i], last)
    /\ \A i, j \in 1 .. Len(views) : i < j => Along(direction, views[i], views[j])
    /\ Along(direction, here, last) /\ Along(direction, last, there)
    /\ Gap(direction, here, there) + Len(requests) <= n

HostOK ==
    /\ lines \in Int /\ top \in Int /\ 1 <= top /\ top <= lines - Rows + 1
    /\ drawn \in Int /\ shown \in Int /\ pressed \in Int
    /\ asked \in Seq(Int) /\ frames \in Seq(Int)

\* A drag at an edge: the button is down and the selection is being dragged.
AutoOK ==
    auto # Absent =>
        /\ auto = [direction |-> auto.direction, pending |-> auto.pending]
        /\ auto.direction \in {"up", "down"} /\ (Sure => auto.pending \in Nat)
        /\ held /\ sel # Absent /\ sel.dragging

SelectionOK ==
    sel # Absent =>
        /\ sel = [anchor |-> sel.anchor, head |-> sel.head, offset |-> sel.offset, rows |-> sel.rows,
                  dragging |-> sel.dragging]
        /\ Sure => /\ sel.anchor \in Int /\ sel.offset \in Int
                       /\ Placed(sel.rows, sel.anchor, sel.offset, shown, pressed)

\* A frame that moves the pane is one the drag has asked for and still waits for.
Direction == IF auto = Absent THEN "up" ELSE auto.direction
Pending == IF auto = Absent THEN 0 ELSE auto.pending
Waiting == Sure /\ sel # Absent /\ held => Owed(asked, frames, shown, drawn, top, Direction, Pending)

DragInv == HostOK /\ AutoOK /\ SelectionOK /\ Waiting

USE DEF Sure

\* capture_selection_rows: what is on screen joins what was captured.
LEMMA CaptureKeeps ==
    ASSUME Sized, NEW rows, NEW anchor \in Int, NEW offset \in Int, NEW first \in Int, NEW line \in Int,
           first + offset = line - anchor,
           \A r \in DOMAIN rows : rows[r] = Content[line - anchor + r],
           NEW from \in Int, NEW to \in Int, DOMAIN rows = from .. to,
           (from <= anchor /\ anchor <= to) \/ anchor + offset \in View,
           from <= Rows - offset, -offset - 1 <= to,
           NEW all,
           all = [r \in (DOMAIN rows) \cup {y - offset : y \in View} |->
                     IF r + offset \in View THEN Screen(first)[r + offset] ELSE rows[r]]
    PROVE  Placed(all, anchor, offset, first, line)
<1>1. PICK n \in Nat : n = Rows /\ n > 0 BY DEF Sized
<1>2. PICK lo \in Int : lo = (IF from < -offset THEN from ELSE -offset) OBVIOUS
<1>3. PICK hi \in Int : hi = (IF to < n - 1 - offset THEN n - 1 - offset ELSE to)
  <2>1. n - 1 - offset \in Int BY <1>1
  <2> QED BY <2>1
<1>4. DOMAIN all = (from .. to) \cup {y - offset : y \in View} OBVIOUS
<1>5. {y - offset : y \in View} = -offset .. (n - 1 - offset)
  <2>1. ASSUME NEW y \in View PROVE y - offset \in -offset .. (n - 1 - offset) BY <1>1 DEF View
  <2>2. ASSUME NEW r \in -offset .. (n - 1 - offset) PROVE \E y \in View : r = y - offset
    <3>1. r + offset \in View /\ r = (r + offset) - offset BY <1>1 DEF View
    <3> QED BY <3>1
  <2> QED BY <2>1, <2>2
<1>6. DOMAIN all = lo .. hi
  <2>1. from <= n - offset /\ -offset - 1 <= to BY <1>1
  <2>2. (from .. to) \cup (-offset .. (n - 1 - offset)) = lo .. hi BY <1>1, <1>2, <1>3, <2>1
  <2> QED BY <1>4, <1>5, <2>2
<1>7. lo <= anchor /\ anchor <= hi /\ lo <= -offset /\ n - 1 - offset <= hi BY <1>1, <1>2, <1>3 DEF View
<1>8. ASSUME NEW r \in DOMAIN all PROVE all[r] = Content[line - anchor + r]
  <2>1. r \in Int BY <1>6
  <2>2. CASE r + offset \in View
    <3>1. Screen(first)[r + offset] = Content[first + (r + offset)] BY <2>2 DEF Screen
    <3>2. all[r] = Content[first + (r + offset)] BY <2>2, <3>1
    <3>3. first + (r + offset) = line - anchor + r BY <2>1
    <3> QED BY <3>2, <3>3
  <2>3. CASE r + offset \notin View
    <3>1. r \in DOMAIN rows
      <4>1. ~(0 <= r + offset /\ r + offset <= n - 1) BY <1>1, <2>1, <2>3 DEF View
      <4>2. r \notin -offset .. (n - 1 - offset) BY <1>1, <2>1, <4>1
      <4> QED BY <1>4, <1>5, <4>2
    <3>2. all[r] = rows[r] BY <2>3
    <3> QED BY <3>1, <3>2
  <2> QED BY <2>2, <2>3
<1> QED BY <1>1, <1>6, <1>7, <1>8 DEF Placed

\* The same, as it is said of a selection.
LEMMA CapturedIsPlaced ==
    ASSUME Sized, NEW s, s.anchor \in Int, s.offset \in Int, NEW first \in Int, NEW line \in Int,
           first + s.offset = line - s.anchor,
           \A r \in DOMAIN s.rows : s.rows[r] = Content[line - s.anchor + r],
           NEW from \in Int, NEW to \in Int, DOMAIN s.rows = from .. to,
           (from <= s.anchor /\ s.anchor <= to) \/ s.anchor + s.offset \in View,
           from <= Rows - s.offset, -s.offset - 1 <= to
    PROVE  Placed(Captured(s, Screen(first)), s.anchor, s.offset, first, line)
<1>1. PICK anchor \in Int, offset \in Int : anchor = s.anchor /\ offset = s.offset OBVIOUS
<1>0. PICK rows : rows = s.rows OBVIOUS
<1>2. PICK all : all = Captured(s, Screen(first)) OBVIOUS
<1>3. all = [r \in (DOMAIN rows) \cup {y - offset : y \in View} |->
                 IF r + offset \in View THEN Screen(first)[r + offset] ELSE rows[r]]
  <2>1. all = [r \in (DOMAIN s.rows) \cup {y - s.offset : y \in View} |->
                   IF r + s.offset \in View THEN Screen(first)[r + s.offset] ELSE s.rows[r]]
    BY <1>2, Zenon DEF Captured, Logical
  <2> QED BY <1>0, <1>1, <2>1, ZenonT(40)
<1>4. /\ first + offset = line - anchor /\ \A r \in DOMAIN rows : rows[r] = Content[line - anchor + r]
      /\ DOMAIN rows = from .. to /\ ((from <= anchor /\ anchor <= to) \/ anchor + offset \in View)
      /\ from <= Rows - offset /\ -offset - 1 <= to
  BY <1>0, <1>1
<1>5. Placed(all, anchor, offset, first, line) BY <1>3, <1>4, CaptureKeeps, ZenonT(40)
<1> QED BY <1>1, <1>2, <1>5

-----------------------------------------------------------------------------
LEMMA OwedNothing ==
    ASSUME NEW asks \in Seq(Int), NEW views \in Seq(Int), NEW here \in Int, NEW last \in Int, NEW there \in Int,
           NEW d \in {"up", "down"}, NEW e \in {"up", "down"}, NEW n \in Nat, Owed(asks, views, here, last, there, d, 0)
    PROVE  Owed(asks, views, here, last, there, e, n)
<1>1. PICK k \in Nat : k = Len(asks) OBVIOUS
<1>3. here = last /\ last = there /\ k = 0
  <2>1. Along(d, here, last) /\ Along(d, last, there) /\ Gap(d, here, there) + k <= 0 BY <1>1 DEF Owed
  <2>2. CASE d = "up" BY <2>1, <2>2 DEF Along, Gap
  <2>3. CASE d = "down" BY <2>1, <2>3 DEF Along, Gap
  <2> QED BY <2>2, <2>3
<1>4. ASSUME NEW i \in 1 .. Len(views) PROVE views[i] = here
  <2>1. PICK f \in Int : f = views[i] OBVIOUS
  <2>2. Along(d, here, f) /\ Along(d, f, last) BY <2>1 DEF Owed
  <2>3. CASE d = "up" BY <1>3, <2>1, <2>2, <2>3 DEF Along
  <2>4. CASE d = "down" BY <1>3, <2>1, <2>2, <2>4 DEF Along
  <2> QED BY <2>3, <2>4
<1>5. Along(e, here, here) /\ Gap(e, here, here) = 0 BY DEF Along, Gap
<1>6. \A i \in 1 .. Len(asks) : asks[i] = Line(e) BY <1>1, <1>3
<1>7. \A i \in 1 .. Len(views) : Along(e, here, views[i]) /\ Along(e, views[i], last)
  BY <1>3, <1>4, <1>5
<1>8. \A i, j \in 1 .. Len(views) : i < j => Along(e, views[i], views[j]) BY <1>4, <1>5
<1>9. Gap(e, here, there) + Len(asks) <= n BY <1>1, <1>3, <1>5
<1> QED BY <1>3, <1>5, <1>6, <1>7, <1>8, <1>9 DEF Owed

\* A tick asks for a line more and counts it.
LEMMA OwedByTick ==
    ASSUME NEW asks \in Seq(Int), NEW views \in Seq(Int), NEW here \in Int, NEW last \in Int, NEW there \in Int,
           NEW d \in {"up", "down"}, NEW n \in Nat, Owed(asks, views, here, last, there, d, n)
    PROVE  Owed(Append(asks, Line(d)), views, here, last, there, d, n + 1)
<1>1. PICK more : more = Append(asks, Line(d)) OBVIOUS
<1>2. Line(d) \in Int BY DEF Line
<1>3. Len(more) = Len(asks) + 1 /\ \A i \in 1 .. Len(more) : more[i] = IF i = Len(asks) + 1 THEN Line(d) ELSE asks[i]
  BY <1>1, <1>2
<1>4. \A i \in 1 .. Len(more) : more[i] = Line(d)
  <2>1. ASSUME NEW i \in 1 .. Len(more), i # Len(asks) + 1 PROVE more[i] = Line(d)
    <3>1. i \in 1 .. Len(asks) BY <1>3, <2>1
    <3>2. more[i] = asks[i] BY <1>3, <2>1
    <3>3. asks[i] = Line(d) BY <3>1 DEF Owed
    <3> QED BY <3>2, <3>3
  <2>2. ASSUME NEW i \in 1 .. Len(more), i = Len(asks) + 1 PROVE more[i] = Line(d) BY <1>3, <2>2
  <2> QED BY <2>1, <2>2
<1>5. PICK g \in Int : g = Gap(d, here, there)
  <2>1. Gap(d, here, there) \in Int
    <3>1. CASE d = "up" BY <3>1 DEF Gap
    <3>2. CASE d = "down" BY <3>2 DEF Gap
    <3> QED BY <3>1, <3>2
  <2> QED BY <2>1
<1>6. PICK k \in Nat : k = Len(asks) OBVIOUS
<1>7. g + k <= n BY <1>5, <1>6 DEF Owed
<1>8. g + Len(more) <= n + 1 BY <1>3, <1>6, <1>7
<1> QED BY <1>1, <1>4, <1>5, <1>8 DEF Owed

\* The host scrolls by the line asked for, or not at all at an end of its history.
LEMMA OwedByScroll ==
    ASSUME NEW asks \in Seq(Int), NEW views \in Seq(Int), NEW here \in Int, NEW last \in Int, NEW there \in Int,
           NEW d \in {"up", "down"}, NEW n \in Nat, Owed(asks, views, here, last, there, d, n),
           asks # <<>>, NEW to \in Int, to \in {there, there + Line(d)}
    PROVE  Owed(Tail(asks), views, here, last, to, d, n)
<1>0. Tail(asks) \in Seq(Int) OBVIOUS
<1>1. PICK rest \in Seq(Int) : rest = Tail(asks) BY <1>0
<1>2. PICK k \in Nat : k = Len(rest) OBVIOUS
<1>3. Len(asks) = k + 1 /\ \A i \in 1 .. k : rest[i] = asks[i + 1] /\ i + 1 \in 1 .. Len(asks) BY <1>1, <1>2
<1>4. \A i \in 1 .. Len(rest) : rest[i] = Line(d) BY <1>2, <1>3 DEF Owed
<1>5. Along(d, last, there) /\ Gap(d, here, there) + (k + 1) <= n BY <1>3 DEF Owed
<1>6. Along(d, last, to) /\ Gap(d, here, to) + k <= n
  <2>1. CASE d = "up" BY <1>5, <2>1 DEF Along, Gap, Line
  <2>2. CASE d = "down" BY <1>5, <2>2 DEF Along, Gap, Line
  <2> QED BY <2>1, <2>2
<1> QED BY <1>1, <1>2, <1>4, <1>6 DEF Owed

\* The host draws where it is.
LEMMA OwedByDraw ==
    ASSUME NEW asks \in Seq(Int), NEW views \in Seq(Int), NEW here \in Int, NEW last \in Int, NEW there \in Int,
           NEW d \in {"up", "down"}, NEW n \in Nat, Owed(asks, views, here, last, there, d, n)
    PROVE  Owed(asks, Append(views, there), here, there, there, d, n)
<1>0. Append(views, there) \in Seq(Int) OBVIOUS
<1>1. PICK more \in Seq(Int) : more = Append(views, there) BY <1>0
<1>2. PICK k \in Nat : k = Len(views) OBVIOUS
<1>3. Len(more) = k + 1 /\ \A i \in 1 .. k + 1 : more[i] = IF i = k + 1 THEN there ELSE views[i] BY <1>1, <1>2
<1>4. Along(d, here, last) /\ Along(d, last, there) BY DEF Owed
<1>5. \A a, b, c \in Int : Along(d, a, b) /\ Along(d, b, c) => Along(d, a, c)
  <2>1. CASE d = "up" BY <2>1 DEF Along
  <2>2. CASE d = "down" BY <2>2 DEF Along
  <2> QED BY <2>1, <2>2
<1>6. \A a \in Int : Along(d, a, a) BY DEF Along
<1>7. ASSUME NEW i \in 1 .. k PROVE views[i] \in Int /\ Along(d, here, views[i]) /\ Along(d, views[i], there)
  <2>1. views[i] \in Int /\ Along(d, here, views[i]) /\ Along(d, views[i], last) BY <1>2 DEF Owed
  <2> QED BY <1>4, <1>5, <2>1
<1>8. ASSUME NEW i \in 1 .. Len(more) PROVE Along(d, here, more[i]) /\ Along(d, more[i], there)
  <2>1. CASE i = k + 1
    <3>1. more[i] = there BY <1>3, <2>1
    <3> QED BY <1>4, <1>5, <1>6, <3>1
  <2>2. CASE i # k + 1
    <3>1. i \in 1 .. k BY <1>3, <2>2
    <3>2. more[i] = views[i] BY <1>3, <2>2, <3>1
    <3> QED BY <1>7, <3>1, <3>2
  <2> QED BY <2>1, <2>2
<1>9. ASSUME NEW i \in 1 .. Len(more), NEW j \in 1 .. Len(more), i < j PROVE Along(d, more[i], more[j])
  <2>0. i \in 1 .. k /\ i # k + 1 BY <1>3, <1>9
  <2>1. i \in 1 .. k /\ more[i] = views[i] BY <1>3, <2>0
  <2>2. CASE j = k + 1 BY <1>2, <1>3, <1>7, <2>1, <2>2
  <2>3. CASE j # k + 1
    <3>1. j \in 1 .. k /\ more[j] = views[j] BY <1>2, <1>3, <2>3
    <3> QED BY <1>2, <1>9, <2>1, <3>1 DEF Owed
  <2> QED BY <2>2, <2>3
<1>10. Along(d, here, there) /\ Along(d, there, there) BY <1>4, <1>5, <1>6
<1>11. Gap(d, here, there) + Len(asks) <= n /\ \A i \in 1 .. Len(asks) : asks[i] = Line(d) BY DEF Owed
<1> QED BY <1>1, <1>8, <1>9, <1>10, <1>11 DEF Owed

LEMMA GapsAdd ==
    ASSUME NEW d \in {"up", "down"}, NEW here \in Int, NEW f \in Int, NEW last \in Int, NEW there \in Int,
           NEW c \in Nat, NEW n \in Nat,
           Along(d, here, f), Along(d, f, last), Along(d, last, there), Gap(d, here, there) + c <= n
    PROVE  /\ Gap(d, f, there) + c <= n - Gap(d, here, f)
           /\ 0 <= Gap(d, here, f) /\ Gap(d, here, f) <= n
<1>1. CASE d = "up" BY <1>1 DEF Along, Gap
<1>2. CASE d = "down" BY <1>2 DEF Along, Gap
<1> QED BY <1>1, <1>2

\* A frame arrives: what is shown is a line along the way.
LEMMA OwedByFrame ==
    ASSUME NEW asks \in Seq(Int), NEW views \in Seq(Int), NEW here \in Int, NEW last \in Int, NEW there \in Int,
           NEW d \in {"up", "down"}, NEW n \in Nat, Owed(asks, views, here, last, there, d, n), views # <<>>
    PROVE  /\ Owed(asks, Tail(views), Head(views), last, there, d, n - Gap(d, here, Head(views)))
           /\ 0 <= Gap(d, here, Head(views)) /\ Gap(d, here, Head(views)) <= n
<1>0. Tail(views) \in Seq(Int) OBVIOUS
<1>1. PICK rest \in Seq(Int) : rest = Tail(views) BY <1>0
<1>2. PICK k \in Nat : k = Len(rest) OBVIOUS
<1>3. Len(views) = k + 1 /\ \A i \in 1 .. k : rest[i] = views[i + 1] /\ i + 1 \in 1 .. k + 1 BY <1>1, <1>2
<1>4. PICK f \in Int : f = Head(views) /\ f = views[1] OBVIOUS
<1>5. PICK c \in Nat : c = Len(asks) OBVIOUS
<1>6. Along(d, here, f) /\ Along(d, f, last) /\ Along(d, last, there) /\ Gap(d, here, there) + c <= n
  BY <1>3, <1>4, <1>5 DEF Owed
<1>7. PICK m \in Int : /\ m = n - Gap(d, here, f) /\ Gap(d, f, there) + c <= m
                        /\ 0 <= Gap(d, here, f) /\ Gap(d, here, f) <= n
  <2>1. /\ Gap(d, f, there) + c <= n - Gap(d, here, f)
        /\ 0 <= Gap(d, here, f) /\ Gap(d, here, f) <= n
    BY <1>6, GapsAdd, Zenon
  <2>2. n - Gap(d, here, f) \in Int
    <3>1. CASE d = "up" BY <3>1 DEF Gap
    <3>2. CASE d = "down" BY <3>2 DEF Gap
    <3> QED BY <3>1, <3>2
  <2> QED BY <2>1, <2>2, Zenon
<1>8. ASSUME NEW i \in 1 .. k PROVE Along(d, f, rest[i]) /\ Along(d, rest[i], last)
  <2>1. i + 1 \in 1 .. Len(views) /\ 1 \in 1 .. Len(views) /\ 1 < i + 1 /\ rest[i] = views[i + 1] BY <1>3
  <2>2. Along(d, views[1], views[i + 1]) /\ Along(d, views[i + 1], last) BY <2>1 DEF Owed
  <2> QED BY <1>4, <2>1, <2>2
<1>9. ASSUME NEW i \in 1 .. k, NEW j \in 1 .. k, i < j PROVE Along(d, rest[i], rest[j])
  <2>1. i + 1 \in 1 .. Len(views) /\ j + 1 \in 1 .. Len(views) /\ i + 1 < j + 1 BY <1>3, <1>9
  <2>2. Along(d, views[i + 1], views[j + 1]) BY <2>1 DEF Owed
  <2> QED BY <1>3, <2>2
<1>10. \A i \in 1 .. Len(asks) : asks[i] = Line(d) BY DEF Owed
<1>11. \A i \in 1 .. Len(rest) : Along(d, f, rest[i]) /\ Along(d, rest[i], last) BY <1>2, <1>8
<1>12. \A i, j \in 1 .. Len(rest) : i < j => Along(d, rest[i], rest[j]) BY <1>2, <1>9
<1>13. Gap(d, f, there) + Len(asks) <= m BY <1>5, <1>7
<1>14. Owed(asks, rest, f, last, there, d, m) BY <1>6, <1>10, <1>11, <1>12, <1>13 DEF Owed
<1> QED BY <1>1, <1>4, <1>7, <1>14

\* A screen agrees with the one it was scrolled to at the distance of the scroll.
LEMMA AgreesAtTheMove ==
    ASSUME Sized, NEW a \in Int, NEW b \in Int, NEW d \in {"up", "down"}, NEW g \in 1 .. Rows - 1,
           g = Gap(d, a, b)
    PROVE  Agrees(Screen(a), Screen(b), g, d)
<1>1. PICK n \in Nat : n = Rows /\ n > 0 BY DEF Sized
<1>2. PICK p, q : p = Screen(a) /\ q = Screen(b) OBVIOUS
<1>3. \A y \in 0 .. n - 1 : p[y] = Content[a + y] /\ q[y] = Content[b + y] BY <1>1, <1>2 DEF Screen, View
<1>4. g \in 1 .. n - 1 BY <1>1
<1>5. \A y \in 0 .. n - g - 1 : y \in 0 .. n - 1 /\ y + g \in 0 .. n - 1 BY <1>1, <1>4
<1>6. CASE d = "up"
  <2>1. g = a - b BY <1>6 DEF Gap
  <2>2. ASSUME NEW y \in 0 .. n - g - 1 PROVE p[y] = q[y + g]
    <3>1. p[y] = Content[a + y] /\ q[y + g] = Content[b + (y + g)] BY <1>3, <1>5
    <3>2. a + y = b + (y + g) BY <2>1
    <3> QED BY <3>1, <3>2
  <2> QED BY <1>1, <1>2, <1>6, <2>2 DEF Agrees
<1>7. CASE d = "down"
  <2>1. g = b - a BY <1>7 DEF Gap
  <2>2. ASSUME NEW y \in 0 .. n - g - 1 PROVE p[y + g] = q[y]
    <3>1. p[y + g] = Content[a + (y + g)] /\ q[y] = Content[b + y] BY <1>3, <1>5
    <3>2. a + (y + g) = b + y BY <2>1
    <3> QED BY <3>1, <3>2
  <2> QED BY <1>1, <1>2, <1>7, <2>2 DEF Agrees
<1> QED BY <1>6, <1>7

\* viewport_shift_distance: screens that can be told apart agree at the distance
\* of the scroll between them, and at none that is less.
LEMMA ShiftIsTheMove ==
    ASSUME Sized, NEW a \in Int, NEW b \in Int, NEW d \in {"up", "down"}, Towards(d, b - a), ToldApart(a, b, d)
    PROVE  /\ ShiftDistance(Screen(a), Screen(b), d) = Gap(d, a, b)
           /\ Gap(d, a, b) \in 1 .. Rows - 1
<1>1. PICK n \in Nat : n = Rows /\ n > 0 BY DEF Sized
<1>2. PICK g \in Int : g = Gap(d, a, b)
  <2>1. CASE d = "up" BY <2>1 DEF Gap
  <2>2. CASE d = "down" BY <2>2 DEF Gap
  <2> QED BY <2>1, <2>2
<1>3. g \in 1 .. n - 1
  <2>1. CASE d = "up" BY <1>1, <1>2, <2>1 DEF Gap, Towards
  <2>2. CASE d = "down" BY <1>1, <1>2, <2>2 DEF Gap, Towards
  <2> QED BY <2>1, <2>2
<1>4. Rows # 1 BY <1>1, <1>3
<1>5. g = Most(a, b) - Least(a, b)
  <2>1. CASE d = "up" BY <1>2, <1>3, <2>1 DEF Gap, Most, Least
  <2>2. CASE d = "down" BY <1>2, <1>3, <2>2 DEF Gap, Most, Least
  <2> QED BY <2>1, <2>2
<1>6. PICK p, q : p = Screen(a) /\ q = Screen(b) OBVIOUS
<1>7. p # q /\ \A m \in 1 .. g - 1 : ~Agrees(p, q, m, d) BY <1>5, <1>6 DEF ToldApart
<1>8. g \in 1 .. Rows - 1 BY <1>1, <1>3
<1>9. Agrees(p, q, g, d) BY <1>2, <1>6, <1>8, AgreesAtTheMove
<1>10. PICK found : found = {m \in 1 .. Rows - 1 : Agrees(p, q, m, d)} OBVIOUS
<1>11. g \in found /\ \A m \in found : m \in Int /\ g <= m
  <2>1. g \in found BY <1>8, <1>9, <1>10
  <2>2. ASSUME NEW m \in found PROVE m \in Int /\ g <= m
    <3>1. m \in 1 .. n - 1 /\ Agrees(p, q, m, d) BY <1>1, <1>10
    <3>2. m \notin 1 .. g - 1 BY <1>7, <3>1
    <3> QED BY <1>3, <3>1, <3>2
  <2> QED BY <2>1, <2>2
<1>12. (CHOOSE m \in found : \A o \in found : m <= o) = g
  <2>1. ASSUME NEW m \in found, \A o \in found : m <= o PROVE m = g BY <1>3, <1>11, <2>1
  <2> QED BY <1>11, <2>1
<1>13. ShiftDistance(p, q, d) = g
  <2>1. found # {} BY <1>11
  <2> QED BY <1>4, <1>7, <1>10, <1>12, <2>1 DEF ShiftDistance
<1> QED BY <1>2, <1>6, <1>8, <1>13

\* Where no two lines read alike, screens can always be told apart.
LEMMA DistinctAreToldApart ==
    ASSUME Sized, NEW a \in Int, NEW b \in Int, NEW d \in {"up", "down"}, Towards(d, b - a),
           \A i, j \in Int : Content[i] = Content[j] => i = j
    PROVE  ToldApart(a, b, d)
<1>1. PICK n \in Nat : n = Rows /\ n > 0 BY DEF Sized
<1>2. PICK p, q : p = Screen(a) /\ q = Screen(b) OBVIOUS
<1>3. \A y \in 0 .. n - 1 : p[y] = Content[a + y] /\ q[y] = Content[b + y] BY <1>1, <1>2 DEF Screen, View
<1>4. PICK g \in Int : g = Most(a, b) - Least(a, b) /\ g \in 1 .. n - 1 /\ (d = "up" => g = a - b) /\ (d = "down" => g = b - a)
  <2>1. CASE d = "up" BY <1>1, <2>1 DEF Towards, Most, Least
  <2>2. CASE d = "down" BY <1>1, <2>2 DEF Towards, Most, Least
  <2> QED BY <2>1, <2>2
<1>5. a # b BY <1>4
<1>6. p # q
  <2>1. p[0] = Content[a + 0] /\ q[0] = Content[b + 0] BY <1>1, <1>3
  <2>2. a + 0 # b + 0 /\ a + 0 \in Int /\ b + 0 \in Int BY <1>5
  <2> QED BY <2>1, <2>2
<1>7. ASSUME NEW m \in 1 .. g - 1, Agrees(p, q, m, d) PROVE FALSE
  <2>1. m \in Int /\ m # g /\ 0 \in 0 .. n - m - 1 /\ 0 \in 0 .. n - 1 /\ 0 + m \in 0 .. n - 1 BY <1>4
  <2>2. CASE d = "up"
    <3>1. p[0] = q[0 + m] BY <1>1, <1>7, <2>1, <2>2 DEF Agrees
    <3>2. Content[a + 0] = Content[b + (0 + m)] BY <1>3, <2>1, <3>1
    <3>3. a + 0 = b + (0 + m) BY <2>1, <3>2
    <3> QED BY <1>4, <2>1, <2>2, <3>3
  <2>3. CASE d = "down"
    <3>1. p[0 + m] = q[0] BY <1>1, <1>7, <2>1, <2>3 DEF Agrees
    <3>2. Content[a + (0 + m)] = Content[b + 0] BY <1>3, <2>1, <3>1
    <3>3. a + (0 + m) = b + 0 BY <2>1, <3>2
    <3> QED BY <1>4, <2>1, <2>3, <3>3
  <2> QED BY <2>2, <2>3
<1> QED BY <1>2, <1>4, <1>6, <1>7 DEF ToldApart

-----------------------------------------------------------------------------
\* selected_terminal_text: with every row between captured, the lines between.
LEMMA TextIsBetween ==
    ASSUME Sized, NEW rows, NEW anchor \in Int, NEW offset \in Int, NEW first \in Int, NEW line \in Int,
           Placed(rows, anchor, offset, first, line), NEW y \in View, NEW s,
           s.anchor = anchor, s.head = y - offset, s.rows = rows
    PROVE  Text(s) = Between(line, first + y)
<1>1. PICK n \in Nat : n = Rows /\ n > 0 BY DEF Sized
<1>2. y \in Int /\ 0 <= y /\ y <= n - 1 BY <1>1 DEF View
<1>3. PICK from \in Int, to \in Int : /\ DOMAIN rows = from .. to /\ from <= anchor /\ anchor <= to
                                      /\ from <= -offset /\ n - 1 - offset <= to
  BY <1>1 DEF Placed
<1>4. PICK head \in Int : head = y - offset BY <1>2
<1>5. PICK lo \in Int, hi \in Int : lo = Least(anchor, head) /\ hi = Most(anchor, head) /\ lo <= hi
  BY DEF Least, Most
<1>6. from <= lo /\ hi <= to BY <1>2, <1>3, <1>4, <1>5 DEF Least, Most
<1>7. first + y = line - anchor + head BY <1>2, <1>4 DEF Placed
<1>8. Least(line, first + y) = line - anchor + lo /\ Most(line, first + y) = line - anchor + hi
  BY <1>4, <1>5, <1>7 DEF Least, Most
<1>9. Text(s) = [i \in 1 .. hi - lo + 1 |-> IF lo + i - 1 \in DOMAIN rows THEN rows[lo + i - 1] ELSE 0]
  BY <1>4, <1>5 DEF Text
<1>10. Between(line, first + y) = [i \in 1 .. hi - lo + 1 |-> Content[line - anchor + lo + i - 1]]
  <2>1. (line - anchor + hi) - (line - anchor + lo) + 1 = hi - lo + 1 OBVIOUS
  <2> QED BY <1>8, <2>1 DEF Between
<1>11. ASSUME NEW i \in 1 .. hi - lo + 1
       PROVE  (IF lo + i - 1 \in DOMAIN rows THEN rows[lo + i - 1] ELSE 0) = Content[line - anchor + lo + i - 1]
  <2>1. lo + i - 1 \in from .. to BY <1>6
  <2>2. rows[lo + i - 1] = Content[line - anchor + (lo + i - 1)] BY <1>3, <2>1 DEF Placed
  <2> QED BY <1>3, <2>1, <2>2
<1> QED BY <1>9, <1>10, <1>11

\* A selection's rows, captured again, while the viewport is where it was.
LEMMA CapturedAgain ==
    ASSUME Sized, NEW s, s.anchor \in Int, s.offset \in Int, NEW first \in Int, NEW line \in Int,
           Placed(s.rows, s.anchor, s.offset, first, line)
    PROVE  Placed(Captured(s, Screen(first)), s.anchor, s.offset, first, line)
<1>1. PICK n \in Nat : n = Rows /\ n > 0 BY DEF Sized
<1>2. PICK a \in Int, o \in Int : a = s.anchor /\ o = s.offset OBVIOUS
<1>3. PICK rows : rows = s.rows OBVIOUS
<1>4. Placed(rows, a, o, first, line) BY <1>2, <1>3
<1>5. PICK from \in Int, to \in Int : /\ DOMAIN rows = from .. to /\ from <= a /\ a <= to
                                      /\ from <= -o /\ n - 1 - o <= to
  BY <1>1, <1>4 DEF Placed
<1>6. from <= n - o /\ -o - 1 <= to BY <1>1, <1>5
<1>7. first + o = line - a /\ \A r \in DOMAIN rows : rows[r] = Content[line - a + r] BY <1>4 DEF Placed
<1>8. /\ first + s.offset = line - s.anchor
      /\ \A r \in DOMAIN s.rows : s.rows[r] = Content[line - s.anchor + r]
      /\ DOMAIN s.rows = from .. to
      /\ (from <= s.anchor /\ s.anchor <= to) \/ s.anchor + s.offset \in View
      /\ from <= Rows - s.offset /\ -s.offset - 1 <= to
  BY <1>1, <1>2, <1>3, <1>5, <1>6, <1>7
<1> QED BY <1>8, CapturedIsPlaced

-----------------------------------------------------------------------------
LEMMA PressKeeps ==
    ASSUME Sized, DragInv, NEW y \in View, Press(y)
    PROVE  DragInv'
<1>1. y \in Int BY DEF Sized, View
<1>2. HostOK' BY <1>1 DEF DragInv, HostOK, Press, host
<1>3. AutoOK' BY DEF Press, AutoOK
<1>4. PICK s : s = [anchor |-> y, head |-> y, offset |-> 0, rows |-> <<>>, dragging |-> FALSE] OBVIOUS
<1>5. PICK rows : rows = Captured(s, Screen(shown)) OBVIOUS
<1>6. sel' = [anchor |-> y, head |-> y, offset |-> 0, rows |-> rows, dragging |-> FALSE] BY <1>4, <1>5 DEF Press
<1>7. Placed(rows, y, 0, shown, shown + y)
  <2>1. PICK first \in Int, line \in Int : first = shown /\ line = shown + y BY <1>1 DEF DragInv, HostOK
  <2>2. s.anchor = y /\ s.offset = 0 /\ s.rows = <<>> BY <1>4
  <2>3. first + s.offset = line - s.anchor BY <1>1, <2>1, <2>2
  <2>4. DOMAIN s.rows = 1 .. 0 BY <2>2
  <2>5. \A r \in DOMAIN s.rows : s.rows[r] = Content[line - s.anchor + r] BY <2>4
  <2>6. s.anchor + s.offset \in View BY <1>1, <2>2
  <2>7. 1 <= Rows - s.offset /\ -s.offset - 1 <= 0 BY <2>2 DEF Sized
  <2>8. PICK from \in Int, to \in Int : from = 1 /\ to = 0 OBVIOUS
  <2>9. DOMAIN s.rows = from .. to /\ from <= Rows - s.offset /\ -s.offset - 1 <= to BY <2>4, <2>7, <2>8
  <2>10. s.anchor \in Int /\ s.offset \in Int BY <1>1, <2>2
  <2>11. (from <= s.anchor /\ s.anchor <= to) \/ s.anchor + s.offset \in View BY <2>6
  <2>12. Placed(Captured(s, Screen(first)), s.anchor, s.offset, first, line)
    BY <2>3, <2>5, <2>9, <2>10, <2>11, CapturedIsPlaced
  <2> QED BY <1>5, <2>1, <2>2, <2>12
<1>8. SelectionOK'
  <2>1. shown' = shown /\ pressed' = shown + y BY DEF Press
  <2>2. /\ sel'.anchor = y /\ sel'.offset = 0 /\ sel'.rows = rows
        /\ sel' = [anchor |-> sel'.anchor, head |-> sel'.head, offset |-> sel'.offset, rows |-> sel'.rows,
                   dragging |-> sel'.dragging]
    BY <1>6
  <2> QED BY <1>1, <1>7, <2>1, <2>2 DEF SelectionOK
<1>9. Waiting'
  <2>1. SUFFICES ASSUME Sure' PROVE Owed(asked', frames', shown', drawn', top', "up", 0)
    BY DEF Waiting, Direction, Pending, Press
  <2>2. asked' = <<>> /\ frames' = <<>> /\ drawn' = shown /\ top' = shown /\ shown' = shown
    BY <2>1 DEF Press, host
  <2>3. Len(asked') = 0 /\ Len(frames') = 0 BY <2>2
  <2>4. Along("up", shown, shown) /\ Gap("up", shown, shown) = 0 BY DEF Along, Gap, DragInv, HostOK
  <2> QED BY <2>2, <2>3, <2>4 DEF Owed
<1> QED BY <1>2, <1>3, <1>8, <1>9 DEF DragInv

LEMMA MotionKeeps ==
    ASSUME Sized, DragInv, NEW y \in View, Motion(y)
    PROVE  DragInv'
<1>0. UNCHANGED <<lines, top, drawn, asked, frames, shown, held, pressed>> /\ held /\ sel # Absent
  BY DEF Motion, host
<1>1. HostOK' BY <1>0 DEF DragInv, HostOK
<1>2. PICK going : going = (sel.dragging \/ Logical(sel, y) # sel.anchor \/ Edge(y) # "none") OBVIOUS
<1>3. PICK a, o, rows, h : a = sel.anchor /\ o = sel.offset /\ rows = sel.rows /\ h = Logical(sel, y) OBVIOUS
<1>4. sel' = [anchor |-> a, head |-> h, offset |-> o, rows |-> rows, dragging |-> going]
  <2>1. sel = [anchor |-> sel.anchor, head |-> sel.head, offset |-> sel.offset, rows |-> sel.rows,
               dragging |-> sel.dragging]
    BY <1>0 DEF DragInv, SelectionOK
  <2>2. sel' = [sel EXCEPT !.head = h, !.dragging = going] BY <1>2, <1>3 DEF Motion
  <2> QED BY <1>3, <2>1, <2>2
<1>5. /\ sel'.anchor = a /\ sel'.offset = o /\ sel'.rows = rows /\ sel'.dragging = going
      /\ sel' = [anchor |-> sel'.anchor, head |-> sel'.head, offset |-> sel'.offset, rows |-> sel'.rows,
                 dragging |-> sel'.dragging]
  BY <1>4
<1>6. Sure' => Sure BY DEF Motion
<1>7. SelectionOK'
  <2>1. Sure => a \in Int /\ o \in Int /\ Placed(rows, a, o, shown, pressed)
    BY <1>0, <1>3 DEF DragInv, SelectionOK
  <2> QED BY <1>0, <1>5, <1>6, <2>1 DEF SelectionOK
<1>8. auto' = IF going /\ Edge(y) # "none"
              THEN [direction |-> Edge(y),
                    pending |-> IF auto # Absent /\ auto.direction = Edge(y) THEN auto.pending ELSE 0]
              ELSE Absent
  BY <1>2 DEF Motion
<1>9. sel' # Absent
  <2>1. sel'.anchor = a /\ DOMAIN sel' = {"anchor", "head", "offset", "rows", "dragging"} BY <1>4
  <2>2. DOMAIN Absent = {"none"} BY DEF Absent
  <2> QED BY <2>1, <2>2
<1>10. AutoOK'
  <2>1. SUFFICES ASSUME auto' # Absent
                 PROVE  /\ auto' = [direction |-> auto'.direction, pending |-> auto'.pending]
                        /\ auto'.direction \in {"up", "down"} /\ (Sure' => auto'.pending \in Nat)
                        /\ held' /\ sel' # Absent /\ sel'.dragging
    BY DEF AutoOK
  <2>2. going /\ Edge(y) # "none" BY <1>8, <2>1
  <2>3. Edge(y) \in {"up", "down"} BY <2>2 DEF Edge
  <2>4. PICK p : p = IF auto # Absent /\ auto.direction = Edge(y) THEN auto.pending ELSE 0 OBVIOUS
  <2>5. auto' = [direction |-> Edge(y), pending |-> p] BY <1>8, <2>2, <2>4
  <2>6. auto'.direction = Edge(y) /\ auto'.pending = p BY <2>5
  <2>7. Sure => p \in Nat BY <2>4 DEF DragInv, AutoOK
  <2>8. sel'.dragging BY <1>5, <2>2
  <2> QED BY <1>0, <1>6, <1>9, <2>3, <2>5, <2>6, <2>7, <2>8
<1>11. Waiting'
  <2>1. SUFFICES ASSUME Sure' PROVE Owed(asked, frames, shown, drawn, top, Direction', Pending')
    BY <1>0 DEF Waiting
  <2>2. Owed(asked, frames, shown, drawn, top, Direction, Pending) BY <1>0, <1>6, <2>1 DEF DragInv, Waiting
  <2>3. Direction \in {"up", "down"} /\ Pending \in Nat
    BY <1>6, <2>1 DEF DragInv, AutoOK, Direction, Pending
  <2>4. Direction' \in {"up", "down"} /\ Pending' \in Nat
    BY <1>10, <2>1 DEF AutoOK, Direction, Pending
  <2>5. CASE Pending = 0
    <3>1. PICK d \in {"up", "down"}, e \in {"up", "down"}, n \in Nat : d = Direction /\ e = Direction' /\ n = Pending'
      BY <2>3, <2>4
    <3>2. Owed(asked, frames, shown, drawn, top, d, 0) BY <2>2, <2>5, <3>1
    <3>3. Owed(asked, frames, shown, drawn, top, e, n) BY <3>2, OwedNothing DEF DragInv, HostOK
    <3> QED BY <3>1, <3>3
  <2>6. CASE Pending # 0
    <3>1. auto # Absent /\ auto.pending > 0 BY <2>3, <2>6 DEF Pending
    <3>2. auto.direction = Edge(y) BY <2>1, <3>1 DEF Motion
    <3>3. going BY <1>2, <3>1 DEF DragInv, AutoOK
    <3>4. Edge(y) # "none" BY <3>1, <3>2 DEF DragInv, AutoOK
    <3>5. PICK p, e : p = auto.pending /\ e = Edge(y) OBVIOUS
    <3>6. auto' = [direction |-> e, pending |-> p] BY <1>8, <3>1, <3>2, <3>3, <3>4, <3>5
    <3>7. auto' # Absent /\ auto'.direction = e /\ auto'.pending = p
      <4>1. DOMAIN auto' = {"direction", "pending"} /\ auto'.direction = e /\ auto'.pending = p BY <3>6
      <4>2. DOMAIN Absent = {"none"} BY DEF Absent
      <4> QED BY <4>1, <4>2
    <3>8. Direction' = Direction /\ Pending' = Pending BY <3>1, <3>2, <3>5, <3>7 DEF Direction, Pending
    <3> QED BY <2>2, <3>8
  <2> QED BY <2>5, <2>6
<1> QED BY <1>1, <1>7, <1>10, <1>11 DEF DragInv

\* What a drag copies at its end is what it went over.
LEMMA ReleaseKeeps ==
    ASSUME Sized, DragInv, NEW y \in View, Release(y)
    PROVE  /\ DragInv'
           /\ copied' # copied /\ Sure => copied' = meant'
<1>0. /\ UNCHANGED <<lines, top, drawn, asked, frames, shown, pressed, settled, alike>>
      /\ held' = FALSE /\ auto' = Absent
  BY DEF Release, host
<1>1. HostOK' BY <1>0 DEF DragInv, HostOK
<1>2. AutoOK' /\ Waiting' BY <1>0 DEF AutoOK, Waiting
<1>3. PICK going : going = (sel.dragging \/ Logical(sel, y) # sel.anchor) OBVIOUS
<1>4. PICK s : s = [sel EXCEPT !.head = Logical(sel, y), !.dragging = going] OBVIOUS
<1>5. PICK rows : rows = Captured(s, Screen(shown)) OBVIOUS
<1>6. CASE sel = Absent
  <2>1. sel' = Absent /\ copied' = copied BY <1>6 DEF Release
  <2> QED BY <1>1, <1>2, <2>1 DEF DragInv, SelectionOK
<1>7. CASE sel # Absent /\ sel' = Absent /\ copied' = copied
  BY <1>1, <1>2, <1>7 DEF DragInv, SelectionOK
<1>8. CASE sel # Absent /\ sel' = [s EXCEPT !.rows = rows] /\ copied' = Text(sel') /\ meant' = Between(pressed, shown + y)
  <2>1. PICK a, o, old, h : a = sel.anchor /\ o = sel.offset /\ old = sel.rows /\ h = Logical(sel, y) OBVIOUS
  <2>2. sel = [anchor |-> a, head |-> sel.head, offset |-> o, rows |-> old, dragging |-> sel.dragging]
    BY <1>8, <2>1 DEF DragInv, SelectionOK
  <2>3. s = [anchor |-> a, head |-> h, offset |-> o, rows |-> old, dragging |-> going] BY <1>4, <2>1, <2>2
  <2>4. s.anchor = a /\ s.offset = o /\ s.rows = old BY <2>3
  <2>5. sel' = [anchor |-> a, head |-> h, offset |-> o, rows |-> rows, dragging |-> going] BY <1>8, <2>3
  <2>6. /\ sel'.anchor = a /\ sel'.head = h /\ sel'.offset = o /\ sel'.rows = rows
        /\ sel' = [anchor |-> sel'.anchor, head |-> sel'.head, offset |-> sel'.offset, rows |-> sel'.rows,
                   dragging |-> sel'.dragging]
    BY <2>5
  <2>7. ASSUME Sure PROVE a \in Int /\ o \in Int /\ Placed(rows, a, o, shown, pressed)
    <3>1. a \in Int /\ o \in Int /\ Placed(old, a, o, shown, pressed)
      BY <1>8, <2>1, <2>7 DEF DragInv, SelectionOK
    <3>2. PICK first \in Int, line \in Int : first = shown /\ line = pressed BY DEF DragInv, HostOK
    <3>3. Placed(s.rows, s.anchor, s.offset, first, line) /\ s.anchor \in Int /\ s.offset \in Int
      BY <2>4, <3>1, <3>2
    <3>4. Placed(Captured(s, Screen(first)), s.anchor, s.offset, first, line) BY <3>3, CapturedAgain
    <3> QED BY <1>5, <2>4, <3>1, <3>2, <3>4
  <2>8. SelectionOK' BY <1>0, <2>6, <2>7 DEF SelectionOK
  <2>9. ASSUME Sure PROVE copied' = meant'
    <3>1. PICK first \in Int, line \in Int : first = shown /\ line = pressed BY DEF DragInv, HostOK
    <3>2. PICK t : t = sel' OBVIOUS
    <3>3. a \in Int /\ o \in Int /\ Placed(rows, a, o, first, line) BY <2>7, <2>9, <3>1
    <3>4. t.anchor = a /\ t.head = y - o /\ t.rows = rows BY <2>1, <2>6, <3>2 DEF Logical
    <3>5. Text(t) = Between(line, first + y) BY <3>3, <3>4, TextIsBetween
    <3> QED BY <1>8, <3>1, <3>2, <3>5
  <2> QED BY <1>1, <1>2, <2>8, <2>9 DEF DragInv
<1>9. \/ sel # Absent /\ sel' = Absent /\ copied' = copied
      \/ sel = Absent
      \/ sel # Absent /\ sel' = [s EXCEPT !.rows = rows] /\ copied' = Text(sel') /\ meant' = Between(pressed, shown + y)
  BY <1>3, <1>4, <1>5 DEF Release
<1> QED BY <1>6, <1>7, <1>8, <1>9

LEMMA WheelKeeps ==
    ASSUME Sized, DragInv, NEW n \in {-WheelLines, WheelLines}, Wheel(n)
    PROVE  DragInv'
<1>1. n \in Int BY DEF Sized
<1>2. Append(asked, n) \in Seq(Int) BY <1>1 DEF DragInv, HostOK
<1>3. HostOK' BY <1>2 DEF DragInv, HostOK, Wheel, host
<1>4. sel' = Absent /\ auto' = Absent BY DEF Wheel
<1> QED BY <1>3, <1>4 DEF DragInv, AutoOK, SelectionOK, Waiting

LEMMA TickKeeps ==
    ASSUME Sized, DragInv, Tick
    PROVE  DragInv'
<1>1. auto # Absent /\ sel # Absent /\ sel.dragging /\ held BY DEF Tick, DragInv, AutoOK
<1>0. auto.direction \in {"up", "down"} BY <1>1 DEF DragInv, AutoOK
<1>2. PICK d, p : d \in {"up", "down"} /\ d = auto.direction /\ p = auto.pending BY <1>0
<1>3. auto = [direction |-> d, pending |-> p] BY <1>1, <1>2 DEF DragInv, AutoOK
<1>4. auto' = [direction |-> d, pending |-> p + 1] BY <1>1, <1>3 DEF Tick
<1>5. auto' # Absent /\ auto'.direction = d /\ auto'.pending = p + 1
  <2>1. DOMAIN auto' = {"direction", "pending"} /\ auto'.direction = d /\ auto'.pending = p + 1 BY <1>4
  <2>2. DOMAIN Absent = {"none"} BY DEF Absent
  <2> QED BY <2>1, <2>2
<1>6. asked' = Append(asked, Line(d)) BY <1>1, <1>2 DEF Tick, Line
<1>7. UNCHANGED <<lines, top, drawn, frames, shown, sel, held, pressed, settled, alike>> BY DEF Tick, host
<1>8. Line(d) \in Int BY <1>2 DEF Line
<1>9. Append(asked, Line(d)) \in Seq(Int) BY <1>8 DEF DragInv, HostOK
<1>10. HostOK' BY <1>6, <1>7, <1>9 DEF DragInv, HostOK
<1>11. SelectionOK' BY <1>7 DEF DragInv, SelectionOK
<1>12. Sure => p \in Nat /\ p + 1 \in Nat BY <1>1, <1>2 DEF DragInv, AutoOK
<1>13. AutoOK' BY <1>1, <1>2, <1>4, <1>5, <1>7, <1>12 DEF AutoOK
<1>14. Waiting'
  <2>1. SUFFICES ASSUME Sure PROVE Owed(asked', frames, shown, drawn, top, d, p + 1)
    BY <1>5, <1>7 DEF Waiting, Direction, Pending
  <2>2. Owed(asked, frames, shown, drawn, top, d, p)
    BY <1>1, <1>2, <2>1 DEF DragInv, Waiting, Direction, Pending
  <2>3. PICK asks \in Seq(Int), views \in Seq(Int), here \in Int, last \in Int, there \in Int :
            asks = asked /\ views = frames /\ here = shown /\ last = drawn /\ there = top
    BY DEF DragInv, HostOK
  <2>4. Owed(asks, views, here, last, there, d, p) /\ p \in Nat BY <1>12, <2>1, <2>2, <2>3
  <2>5. Owed(Append(asks, Line(d)), views, here, last, there, d, p + 1) BY <1>2, <2>4, OwedByTick
  <2> QED BY <1>6, <2>3, <2>5
<1> QED BY <1>10, <1>11, <1>13, <1>14 DEF DragInv

LEMMA HostScrollsKeeps ==
    ASSUME Sized, DragInv, HostScrolls
    PROVE  DragInv'
<1>1. /\ UNCHANGED <<lines, drawn, frames, shown, sel, auto, held, pressed, settled, alike>>
      /\ asked # <<>> /\ asked' = Tail(asked)
      /\ top' = Most(1, Least(lines - Rows + 1, top + Head(asked)))
  BY DEF HostScrolls
<1>2. PICK size \in Int, t \in Int, h \in Int, rows \in Int :
          size = lines /\ t = top /\ h = Head(asked) /\ rows = Rows /\ 1 <= t /\ t <= size - rows + 1
  BY <1>1 DEF DragInv, HostOK, Sized
<1>3. PICK to \in Int : to = top' /\ to = Most(1, Least(size - rows + 1, t + h))
  BY <1>1, <1>2 DEF Most, Least
<1>4. 1 <= to /\ to <= size - rows + 1 BY <1>2, <1>3 DEF Most, Least
<1>5. Tail(asked) \in Seq(Int) BY <1>1 DEF DragInv, HostOK
<1>6. HostOK' BY <1>1, <1>2, <1>3, <1>4, <1>5 DEF DragInv, HostOK
<1>7. AutoOK' /\ SelectionOK' BY <1>1 DEF DragInv, AutoOK, SelectionOK
<1>8. Waiting'
  <2>1. SUFFICES ASSUME Sure, sel # Absent, held
                 PROVE  Owed(asked', frames, shown, drawn, top', Direction, Pending)
    BY <1>1 DEF Waiting, Direction, Pending
  <2>2. Owed(asked, frames, shown, drawn, top, Direction, Pending) BY <2>1 DEF DragInv, Waiting
  <2>3. PICK d \in {"up", "down"}, n \in Nat : d = Direction /\ n = Pending
    BY <2>1 DEF DragInv, AutoOK, Direction, Pending
  <2>4. PICK asks \in Seq(Int), views \in Seq(Int), here \in Int, last \in Int :
            asks = asked /\ views = frames /\ here = shown /\ last = drawn
    BY DEF DragInv, HostOK
  <2>5. Owed(asks, views, here, last, t, d, n) BY <1>2, <2>2, <2>3, <2>4
  <2>6. h = Line(d)
    <3>1. 1 \in 1 .. Len(asks) /\ Head(asks) = asks[1] BY <1>1, <2>4
    <3> QED BY <1>2, <2>4, <2>5, <3>1 DEF Owed
  <2>7. to \in {t, t + Line(d)}
    <3>1. CASE d = "up"
      <4>1. h = -1 BY <2>6, <3>1 DEF Line
      <4> QED BY <1>2, <1>3, <2>6, <4>1 DEF Most, Least
    <3>2. CASE d = "down"
      <4>1. h = 1 BY <2>6, <3>2 DEF Line
      <4> QED BY <1>2, <1>3, <2>6, <4>1 DEF Most, Least
    <3> QED BY <3>1, <3>2
  <2>8. asks # <<>> BY <1>1, <2>4
  <2>9. Owed(Tail(asks), views, here, last, to, d, n) BY <2>5, <2>7, <2>8, OwedByScroll, SMTT(30)
  <2> QED BY <1>1, <1>3, <2>3, <2>4, <2>9
<1> QED BY <1>6, <1>7, <1>8 DEF DragInv

LEMMA OutputKeeps ==
    ASSUME Sized, DragInv, Output
    PROVE  DragInv'
<1>1. /\ UNCHANGED <<asked, drawn, frames, shown, sel, auto, held, pressed, alike>>
      /\ lines' = lines + 1 /\ top' = IF top = lines - Rows + 1 THEN top + 1 ELSE top
      /\ settled' = (settled /\ top' = top)
  BY DEF Output
<1>2. HostOK' BY <1>1 DEF DragInv, HostOK, Sized
<1>3. AutoOK' /\ SelectionOK' BY <1>1 DEF DragInv, AutoOK, SelectionOK
<1>4. Waiting' BY <1>1 DEF DragInv, Waiting, Direction, Pending
<1> QED BY <1>2, <1>3, <1>4 DEF DragInv

LEMMA DrawKeeps ==
    ASSUME Sized, DragInv, Draw
    PROVE  DragInv'
<1>1. /\ UNCHANGED <<lines, top, asked, shown, sel, auto, held, pressed, settled, alike>>
      /\ drawn' = top /\ frames' = Append(frames, top)
  BY DEF Draw
<1>2. Append(frames, top) \in Seq(Int) BY DEF DragInv, HostOK
<1>3. HostOK' BY <1>1, <1>2 DEF DragInv, HostOK
<1>4. AutoOK' /\ SelectionOK' BY <1>1 DEF DragInv, AutoOK, SelectionOK
<1>5. Waiting'
  <2>1. SUFFICES ASSUME Sure, sel # Absent, held
                 PROVE  Owed(asked, frames', shown, drawn', top, Direction, Pending)
    BY <1>1 DEF Waiting, Direction, Pending
  <2>2. PICK d \in {"up", "down"}, n \in Nat : d = Direction /\ n = Pending
    BY <2>1 DEF DragInv, AutoOK, Direction, Pending
  <2>3. PICK asks \in Seq(Int), views \in Seq(Int), here \in Int, last \in Int, there \in Int :
            asks = asked /\ views = frames /\ here = shown /\ last = drawn /\ there = top
    BY DEF DragInv, HostOK
  <2>4. Owed(asks, views, here, last, there, d, n) BY <2>1, <2>2, <2>3 DEF DragInv, Waiting
  <2>5. Owed(asks, Append(views, there), here, there, there, d, n) BY <2>4, OwedByDraw
  <2> QED BY <1>1, <2>2, <2>3, <2>5
<1> QED BY <1>3, <1>4, <1>5 DEF DragInv

\* The selection's viewport moves by what the pane moved: the rows that were
\* captured are the same lines, and those on screen join them without a gap.
LEMMA MovedIsPlaced ==
    ASSUME Sized, NEW s, s.anchor \in Int, s.offset \in Int, NEW first \in Int, NEW line \in Int,
           NEW before \in Int, NEW offset \in Int, NEW g \in 0 .. Rows - 1,
           \/ first = before - g /\ s.offset = offset + g
           \/ first = before + g /\ s.offset = offset - g,
           Placed(s.rows, s.anchor, offset, before, line)
    PROVE  Placed(Captured(s, Screen(first)), s.anchor, s.offset, first, line)
<1>1. PICK n \in Nat : n = Rows /\ n > 0 BY DEF Sized
<1>2. PICK a \in Int, o \in Int : a = s.anchor /\ o = s.offset OBVIOUS
<1>3. PICK rows : rows = s.rows OBVIOUS
<1>4. Placed(rows, a, offset, before, line) BY <1>2, <1>3
<1>5. PICK from \in Int, to \in Int : /\ DOMAIN rows = from .. to /\ from <= a /\ a <= to
                                      /\ from <= -offset /\ n - 1 - offset <= to
  BY <1>1, <1>4 DEF Placed
<1>6. g \in Int /\ 0 <= g /\ g <= n - 1 BY <1>1
<1>7. (first = before - g /\ o = offset + g) \/ (first = before + g /\ o = offset - g) BY <1>2
<1>8. from <= n - o /\ -o - 1 <= to BY <1>1, <1>5, <1>6, <1>7
<1>9. before + offset = line - a /\ \A r \in DOMAIN rows : rows[r] = Content[line - a + r] BY <1>4 DEF Placed
<1>10. first + o = line - a BY <1>6, <1>7, <1>9
<1>11. /\ first + s.offset = line - s.anchor
       /\ \A r \in DOMAIN s.rows : s.rows[r] = Content[line - s.anchor + r]
       /\ DOMAIN s.rows = from .. to
       /\ (from <= s.anchor /\ s.anchor <= to) \/ s.anchor + s.offset \in View
       /\ from <= Rows - s.offset /\ -s.offset - 1 <= to
  BY <1>1, <1>2, <1>3, <1>5, <1>8, <1>9, <1>10
<1> QED BY <1>11, CapturedIsPlaced

LEMMA FrameKeeps ==
    ASSUME Sized, DragInv, Frame
    PROVE  DragInv'
<1>1. PICK f \in Int, before \in Int, line \in Int : f = Head(frames) /\ before = shown /\ line = pressed
  BY DEF Frame, DragInv, HostOK
<1>2. /\ UNCHANGED <<lines, top, drawn, asked, held, pressed>>
      /\ frames # <<>> /\ frames' = Tail(frames) /\ shown' = f
      /\ settled' = (settled /\ (f # before => auto # Absent /\ Towards(auto.direction, f - before)))
      /\ alike' = (alike \/ (f # before /\ auto # Absent /\ ~ToldApart(before, f, auto.direction)))
  BY <1>1 DEF Frame, host
<1>3. HostOK'
  <2>1. Tail(frames) \in Seq(Int) BY <1>2 DEF DragInv, HostOK
  <2> QED BY <1>2, <2>1 DEF DragInv, HostOK
<1>4. CASE sel = Absent
  <2>1. sel' = Absent /\ auto' = Absent BY <1>4 DEF Frame
  <2> QED BY <1>3, <2>1 DEF DragInv, AutoOK, SelectionOK, Waiting
<1>5. CASE sel # Absent
  <2>1. PICK shift : shift = IF auto # Absent /\ auto.pending > 0
                             THEN ShiftDistance(Screen(before), Screen(f), auto.direction) ELSE 0
    OBVIOUS
  <2>2. PICK s : s = IF shift > 0 THEN Shifted(sel, shift, auto.direction) ELSE sel OBVIOUS
  <2>3. PICK rows : rows = Captured(s, Screen(f)) OBVIOUS
  <2>4. /\ sel' = [s EXCEPT !.rows = rows]
        /\ auto' = IF auto = Absent THEN Absent ELSE [auto EXCEPT !.pending = Most(0, @ - shift)]
    BY <1>1, <1>5, <2>1, <2>2, <2>3 DEF Frame
  <2>5. PICK a, o, old, go : a = sel.anchor /\ o = sel.offset /\ old = sel.rows /\ go = sel.dragging OBVIOUS
  <2>6. sel = [anchor |-> a, head |-> sel.head, offset |-> o, rows |-> old, dragging |-> go]
    BY <1>5, <2>5 DEF DragInv, SelectionOK
  <2>7. PICK h, u : /\ s = [anchor |-> a, head |-> h, offset |-> u, rows |-> old, dragging |-> go]
                    /\ u = IF shift > 0 THEN o + (IF auto.direction = "up" THEN shift ELSE -shift) ELSE o
    <3>1. CASE shift > 0
      <4>1. PICK v, w : /\ v = o + (IF auto.direction = "up" THEN shift ELSE -shift)
                        /\ w = (IF auto.direction = "up" THEN 0 ELSE Rows - 1) - v
        OBVIOUS
      <4>2. s = [sel EXCEPT !.offset = v, !.head = w] BY <2>2, <2>5, <3>1, <4>1 DEF Shifted
      <4>3. PICK h0, z : h0 = sel.head /\ z = sel OBVIOUS
      <4>4. z = [anchor |-> a, head |-> h0, offset |-> o, rows |-> old, dragging |-> go]
            /\ s = [z EXCEPT !.offset = v, !.head = w]
        BY <2>6, <4>2, <4>3
      <4>5. s = [anchor |-> a, head |-> w, offset |-> v, rows |-> old, dragging |-> go] BY <4>4
      <4> QED BY <3>1, <4>1, <4>5
    <3>2. CASE ~(shift > 0)
      <4>1. s = [anchor |-> a, head |-> sel.head, offset |-> o, rows |-> old, dragging |-> go] BY <2>2, <2>6, <3>2
      <4> QED BY <3>2, <4>1
    <3> QED BY <3>1, <3>2
  <2>8. s.anchor = a /\ s.offset = u /\ s.rows = old BY <2>7
  <2>9. sel' = [anchor |-> a, head |-> h, offset |-> u, rows |-> rows, dragging |-> go] BY <2>4, <2>7
  <2>10. /\ sel'.anchor = a /\ sel'.offset = u /\ sel'.rows = rows /\ sel'.dragging = go
         /\ sel' = [anchor |-> sel'.anchor, head |-> sel'.head, offset |-> sel'.offset, rows |-> sel'.rows,
                    dragging |-> sel'.dragging]
         /\ DOMAIN sel' = {"anchor", "head", "offset", "rows", "dragging"}
    BY <2>9
  <2>11. sel' # Absent
    <3>1. DOMAIN Absent = {"none"} BY DEF Absent
    <3> QED BY <2>10, <3>1
  \* What the drag waits for, when there is a drag and when there is none.
  <2>12. ASSUME Sure PROVE a \in Int /\ o \in Int /\ Placed(old, a, o, before, line)
    BY <1>1, <1>5, <2>5, <2>12 DEF DragInv, SelectionOK
  <2>13. ASSUME auto # Absent
         PROVE  /\ held /\ go /\ auto.direction \in {"up", "down"}
                /\ auto = [direction |-> auto.direction, pending |-> auto.pending]
                /\ Sure => auto.pending \in Nat
    BY <2>5, <2>13 DEF DragInv, AutoOK
  <2>14. PICK d, p : d = Direction /\ p = Pending OBVIOUS
  <2>15. d \in {"up", "down"} /\ (Sure => p \in Nat) BY <2>13, <2>14 DEF Direction, Pending
  <2>16. ASSUME auto # Absent
         PROVE  /\ auto' = [direction |-> d, pending |-> Most(0, p - shift)]
                /\ auto' # Absent /\ auto'.direction = d /\ auto'.pending = Most(0, p - shift)
    <3>1. auto = [direction |-> d, pending |-> p] BY <2>13, <2>14, <2>16 DEF Direction, Pending
    <3>2. auto.pending = p BY <3>1
    <3>3. PICK q : q = Most(0, p - shift) OBVIOUS
    <3>4. auto' = [auto EXCEPT !.pending = q] BY <2>4, <2>16, <3>2, <3>3
    <3>5. auto' = [direction |-> d, pending |-> q] BY <3>1, <3>4
    <3>6. DOMAIN auto' = {"direction", "pending"} /\ auto'.direction = d /\ auto'.pending = q BY <3>5
    <3>7. DOMAIN Absent = {"none"} BY DEF Absent
    <3> QED BY <3>3, <3>5, <3>6, <3>7
  \* The shift is what the pane moved.
  <2>17. ASSUME Sure'
         PROVE  \E g \in Int :
                    /\ g = shift /\ g \in 0 .. Rows - 1 /\ g = Gap(d, before, f)
                    /\ auto # Absent => g <= p
    <3>1. Sure BY <1>2, <2>17
    <3>2. CASE f = before
      <4>1. Screen(before) = Screen(f) BY <3>2
      <4>2. shift = 0 BY <2>1, <4>1 DEF ShiftDistance
      <4>3. Gap(d, before, f) = 0 BY <3>2 DEF Gap
      <4>4. 0 \in 0 .. Rows - 1 BY DEF Sized
      <4> QED BY <2>15, <3>1, <4>2, <4>3, <4>4
    <3>3. CASE f # before
      <4>1. /\ auto # Absent /\ d = auto.direction /\ p = auto.pending
            /\ Towards(d, f - before) /\ ToldApart(before, f, d)
        BY <1>2, <2>14, <2>17, <3>3 DEF Direction, Pending
      <4>2. PICK e \in {"up", "down"}, n \in Nat : e = d /\ n = p BY <2>15, <3>1
      <4>3. /\ ShiftDistance(Screen(before), Screen(f), e) = Gap(e, before, f)
            /\ Gap(e, before, f) \in 1 .. Rows - 1
        BY <4>1, <4>2, ShiftIsTheMove
      <4>4. PICK g \in Int : g = Gap(e, before, f) /\ g \in 1 .. Rows - 1 BY <4>3 DEF Sized
      <4>5. PICK asks \in Seq(Int), views \in Seq(Int), last \in Int, there \in Int :
                asks = asked /\ views = frames /\ last = drawn /\ there = top
        BY DEF DragInv, HostOK
      <4>6. Owed(asks, views, before, last, there, e, n)
        BY <1>1, <1>5, <2>13, <2>14, <3>1, <4>1, <4>2, <4>5 DEF DragInv, Waiting
      <4>7. g = Gap(e, before, f) /\ f = Head(views) /\ views # <<>> BY <1>1, <1>2, <4>4, <4>5
      <4>8. g <= n
        <5>0. views # <<>> BY <4>7
        <5>1. Gap(e, before, Head(views)) <= n BY <4>6, <5>0, OwedByFrame
        <5> QED BY <4>7, <5>1
      <4>9. n > 0 BY <4>4, <4>8 DEF Sized
      <4>10. shift = g BY <2>1, <4>1, <4>2, <4>3, <4>4, <4>9
      <4>11. g \in 0 .. Rows - 1 BY <4>4 DEF Sized
      <4> QED BY <4>2, <4>4, <4>8, <4>10, <4>11
    <3> QED BY <3>2, <3>3
  <2>18. AutoOK'
    <3>1. SUFFICES ASSUME auto # Absent PROVE AutoOK' BY <2>4 DEF AutoOK
    <3>2. ASSUME Sure' PROVE auto'.pending \in Nat
      <4>1. PICK g \in Int : g = shift BY <2>17, <3>2
      <4>2. PICK n \in Nat : n = p BY <1>2, <2>15, <3>2
      <4>3. Most(0, n - g) \in Nat BY DEF Most
      <4> QED BY <2>16, <3>1, <4>1, <4>2, <4>3
    <3>3. held' /\ sel' # Absent /\ sel'.dragging BY <1>2, <2>10, <2>11, <2>13, <3>1
    <3> QED BY <2>15, <2>16, <3>1, <3>2, <3>3 DEF AutoOK
  <2>19. SelectionOK'
    <3>1. SUFFICES ASSUME Sure' PROVE a \in Int /\ u \in Int /\ Placed(rows, a, u, f, line)
      BY <1>1, <1>2, <2>10 DEF SelectionOK
    <3>2. Sure BY <1>2, <3>1
    <3>3. PICK an \in Int, of \in Int : an = a /\ of = o BY <2>12, <3>2
    <3>4. PICK g \in Int : g = shift /\ g \in 0 .. Rows - 1 /\ g = Gap(d, before, f) BY <2>17, <3>1
    <3>5. \/ f = before - g /\ u = of + g
          \/ f = before + g /\ u = of - g
      <4>1. CASE g = 0
        <5>1. u = of BY <2>7, <3>3, <3>4, <4>1
        <5>2. f = before BY <3>4, <4>1 DEF Gap
        <5> QED BY <4>1, <5>1, <5>2
      <4>2. CASE g # 0
        <5>1. g > 0 BY <3>4, <4>2 DEF Sized
        <5>2. auto # Absent BY <2>1, <3>4, <4>2
        <5>3. d = auto.direction BY <2>14, <5>2 DEF Direction
        <5>4. CASE d = "up"
          <6>1. u = of + g BY <2>7, <3>3, <3>4, <5>1, <5>3, <5>4
          <6>2. f = before - g BY <3>4, <5>4 DEF Gap
          <6> QED BY <6>1, <6>2
        <5>5. CASE d = "down"
          <6>1. u = of - g
            <7>1. u = of + (-g) BY <2>7, <3>3, <3>4, <5>1, <5>3, <5>5
            <7> QED BY <7>1
          <6>2. f = before + g BY <3>4, <5>5 DEF Gap
          <6> QED BY <6>1, <6>2
        <5> QED BY <2>15, <5>4, <5>5
      <4> QED BY <4>1, <4>2
    <3>6. u \in Int BY <3>5
    <3>7. /\ s.anchor \in Int /\ s.offset \in Int /\ Placed(s.rows, s.anchor, of, before, line)
          /\ (f = before - g /\ s.offset = of + g) \/ (f = before + g /\ s.offset = of - g)
      BY <2>8, <2>12, <3>2, <3>3, <3>5, <3>6
    <3>8. Placed(Captured(s, Screen(f)), s.anchor, s.offset, f, line) BY <3>4, <3>7, MovedIsPlaced
    <3> QED BY <2>3, <2>8, <3>3, <3>6, <3>8
  <2>20. Waiting'
    <3>1. SUFFICES ASSUME Sure', held PROVE Owed(asked, frames', f, drawn, top, Direction', Pending')
      BY <1>2 DEF Waiting
    <3>2. Sure BY <1>2, <3>1
    <3>3. PICK e \in {"up", "down"}, n \in Nat : e = d /\ n = p BY <2>15, <3>2
    <3>4. PICK g \in Int : g = shift /\ g = Gap(e, before, f) /\ (auto # Absent => g <= p) BY <2>17, <3>1, <3>3
    <3>5. PICK asks \in Seq(Int), views \in Seq(Int), last \in Int, there \in Int :
              asks = asked /\ views = frames /\ last = drawn /\ there = top
      BY DEF DragInv, HostOK
    <3>6. Owed(asks, views, before, last, there, e, n)
      BY <1>1, <1>5, <2>14, <3>1, <3>2, <3>3, <3>5 DEF DragInv, Waiting
    <3>7. views # <<>> /\ g = Gap(e, before, f) /\ f = Head(views) BY <1>1, <1>2, <3>4, <3>5
    <3>11. PICK m \in Int : m = n - g OBVIOUS
    <3>8. Owed(asks, Tail(views), f, last, there, e, m) /\ 0 <= g /\ g <= n
      <4>1. /\ Owed(asks, Tail(views), Head(views), last, there, e, n - Gap(e, before, Head(views)))
            /\ 0 <= Gap(e, before, Head(views)) /\ Gap(e, before, Head(views)) <= n
        <5>1. views # <<>> BY <3>7
        <5> QED BY <3>6, <5>1, OwedByFrame
      <4> QED BY <3>7, <3>11, <4>1
    <3>9. Direction' = e /\ Pending' = m
      <4>1. CASE auto = Absent
        <5>1. auto' = Absent BY <2>4, <4>1
        <5>2. shift = 0 BY <2>1, <4>1
        <5>3. n = 0 /\ e = "up" BY <2>14, <3>3, <4>1 DEF Pending, Direction
        <5>4. Direction' = "up" /\ Pending' = 0 BY <5>1 DEF Direction, Pending
        <5>5. g = 0 BY <3>4, <5>2
        <5>6. m = 0 BY <3>11, <5>3, <5>5
        <5> QED BY <5>3, <5>4, <5>6
      <4>2. CASE auto # Absent
        <5>1. Direction' = d /\ Pending' = Most(0, p - shift) BY <2>16, <4>2 DEF Direction, Pending
        <5>2. Most(0, n - g) = m BY <3>8, <3>11 DEF Most
        <5> QED BY <3>3, <3>4, <5>1, <5>2
      <4> QED BY <4>1, <4>2
    <3> QED BY <1>2, <3>5, <3>7, <3>8, <3>9
  <2> QED BY <1>3, <2>18, <2>19, <2>20 DEF DragInv
<1> QED BY <1>4, <1>5
-----------------------------------------------------------------------------
LEMMA InitOfDrag ==
    ASSUME Sized, Init
    PROVE  DragInv
<1>1. asked \in Seq(Int) /\ frames \in Seq(Int) BY DEF Init
<1>2. HostOK BY <1>1 DEF Init, HostOK, Sized
<1> QED BY <1>2 DEF Init, DragInv, AutoOK, SelectionOK, Waiting

LEMMA DragStep ==
    ASSUME Sized, DragInv, [Next]_vars
    PROVE  DragInv'
<1>1. CASE UNCHANGED vars
  <2>1. HostOK' BY <1>1 DEF vars, DragInv, HostOK
  <2>2. AutoOK' /\ SelectionOK' BY <1>1 DEF vars, DragInv, AutoOK, SelectionOK
  <2>3. Waiting' BY <1>1 DEF vars, DragInv, Waiting, Direction, Pending
  <2> QED BY <2>1, <2>2, <2>3 DEF DragInv
<1>2. ASSUME NEW y \in View, Press(y) PROVE DragInv' BY <1>2, PressKeeps
<1>3. ASSUME NEW y \in View, Motion(y) PROVE DragInv' BY <1>3, MotionKeeps
<1>4. ASSUME NEW y \in View, Release(y) PROVE DragInv' BY <1>4, ReleaseKeeps
<1>5. ASSUME NEW n \in {-WheelLines, WheelLines}, Wheel(n) PROVE DragInv' BY <1>5, WheelKeeps
<1>6. CASE Tick BY <1>6, TickKeeps
<1>7. CASE HostScrolls BY <1>7, HostScrollsKeeps
<1>8. CASE Output BY <1>8, OutputKeeps
<1>9. CASE Draw BY <1>9, DrawKeeps
<1>10. CASE Frame BY <1>10, FrameKeeps
<1> QED BY <1>1, <1>2, <1>3, <1>4, <1>5, <1>6, <1>7, <1>8, <1>9, <1>10 DEF Next

\* A drag with the mouse copies the lines it went over, as they were shown, for panes and
\* histories of any size and lines that may repeat: as long as only the drag's own scrolling
\* moves the pane and no scroll of it leads to a screen that reads as if a shorter one had
\* (which never happens where lines differ, DistinctAreToldApart), the logical rows follow the
\* host however that scrolling is delayed, answered a line at a time, together or, at an end of
\* the history, not at all (capture_selection_rows, tick_selection_autoscroll,
\* viewport_shift_distance, update_selection_after_frame, TerminalSelection::finish).
THEOREM DragCopiesWhatItWentOver ==
    ASSUME Sized
    PROVE  Spec => []RowsStayTrue /\ CopiesWhatWasDragged
<1>1. Init => DragInv BY InitOfDrag
<1>2. DragInv /\ [Next]_vars => DragInv' BY DragStep
<1>3. DragInv => RowsStayTrue
  BY DEF DragInv, SelectionOK, Placed, RowsStayTrue
<1>4. DragInv /\ [Next]_vars => [copied' # copied /\ Sure => copied' = meant']_vars
  <2>1. SUFFICES ASSUME DragInv, Next, copied' # copied, Sure PROVE copied' = meant'
    BY DEF vars
  <2>2. CASE \E y \in View : Release(y) BY <2>1, <2>2, ReleaseKeeps
  <2>3. CASE \E y \in View : Press(y) BY <2>3 DEF Press
  <2> QED BY <2>1, <2>2, <2>3 DEF Next, Motion, Wheel, Tick, HostScrolls, Output, Draw, Frame
<1> QED BY <1>1, <1>2, <1>3, <1>4, PTL DEF Spec, CopiesWhatWasDragged
=============================================================================
