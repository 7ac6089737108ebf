----------------------------- MODULE Operations -----------------------------
(***************************************************************************)
(* Operations a client asks the daemon to carry out on a Herdr server: one *)
(* command, a move of every tab of a workspace into another one, replayed  *)
(* pane by pane from exported layouts while others use the same server,    *)
(* and a recreation of a workspace on another session.  A layout is a leaf *)
(* <<pane>> or a split <<direction, first, second>>; a pane's identifier   *)
(* names its workspace, so a move gives it another.                        *)
(***************************************************************************)
EXTENDS Naturals, Sequences, FiniteSets, SequencesExt

CONSTANTS
    Layouts,        \* what workspace "a" may hold at first: sequences of layouts
    Clients,
    MaxDepth,       \* MAX_LAYOUT_DEPTH
    MaxRecreated,   \* MAX_RECREATED_PANES
    MaxAsked,       \* named bound: operations asked for
    MaxFaults,      \* named bound: requests that fail or time out
    MaxOthers       \* named bound: what others do on the server meanwhile

VARIABLES
    tabs,       \* per workspace of the session: a sequence of [id, root]; empty once it is closed
    fresh,      \* the next tab id and pane number
    there,      \* the workspaces recreated on the other session: sequences of layouts
    known,      \* the sessions the daemon is configured with, of {"here", "there"}
    task,       \* the operation under way, or Idle
    done,       \* results for the loop: [client, request, applied]
    connected,  \* the clients still connected
    asked,      \* requests: [client, request]
    answered,   \* OperationResults sent: [client, request, applied], in order
    ever,       \* the panes the session ever had (history)
    closed,     \* panes that others closed (history)
    faults, others
vars == <<tabs, fresh, there, known, task, done, connected, asked, answered, ever, closed, faults, others>>

Idle == [kind |-> "none"]

-----------------------------------------------------------------------------
(* Layouts *)

RECURSIVE Leaves(_), Leftmost(_), Splits(_), Height(_), Without(_, _), Placed(_, _, _, _)
IsLeaf(t) == Len(t) = 1
Leaves(t) == IF IsLeaf(t) THEN {t[1]} ELSE Leaves(t[2]) \cup Leaves(t[3])
Height(t) == IF IsLeaf(t) THEN 0
             ELSE 1 + (IF Height(t[2]) > Height(t[3]) THEN Height(t[2]) ELSE Height(t[3]))

\* leftmost_pane.
Leftmost(t) == IF IsLeaf(t) THEN t[1] ELSE Leftmost(t[2])

RECURSIVE SplitsUpward(_)
\* Mutant of Splits: the inner splits before the one that holds them.
SplitsUpward(t) ==
    IF IsLeaf(t) THEN <<>>
    ELSE SplitsUpward(t[2]) \o SplitsUpward(t[3])
         \o <<[pane |-> Leftmost(t[3]), target |-> Leftmost(t[2]), direction |-> t[1]]>>

\* collect_splits: top down, so that every split acts on a region of one pane.
Splits(t) ==
    IF IsLeaf(t) THEN <<>>
    ELSE <<[pane |-> Leftmost(t[3]), target |-> Leftmost(t[2]), direction |-> t[1]]>>
         \o Splits(t[2]) \o Splits(t[3])

\* plan_tab_move; a layout nested too deeply has none.
PlanTabMove(t) == [anchor |-> Leftmost(t), splits |-> Splits(t)]
Plannable(t) == Height(t) <= MaxDepth

\* Herdr's own operations on a layout (external).
Without(t, p) ==
    IF IsLeaf(t) THEN t
    ELSE IF t[2] = <<p>> THEN t[3]
    ELSE IF t[3] = <<p>> THEN t[2]
    ELSE <<t[1], Without(t[2], p), Without(t[3], p)>>
Placed(t, target, direction, p) ==
    IF t = <<target>> THEN <<direction, t, <<p>>>>
    ELSE IF IsLeaf(t) THEN t
    ELSE <<t[1], Placed(t[2], target, direction, p), Placed(t[3], target, direction, p)>>

PanesOf(w) == UNION {Leaves(tabs[w][i].root) : i \in DOMAIN tabs[w]}
Removed(w, p) ==
    SelectSeq([i \in DOMAIN tabs[w] |-> IF tabs[w][i].root = <<p>> THEN [id |-> 0, root |-> <<p>>]
                                        ELSE [tabs[w][i] EXCEPT !.root = Without(@, p)]],
              LAMBDA tab : tab.id # 0)

-----------------------------------------------------------------------------
(* Asking: run_operation *)

\* target_session and destination_session: they differ only for a recreation.
Reads(kind) == "here"
Writes(kind) == IF kind = "recreate" THEN "there" ELSE "here"

Result(t, applied) == [client |-> t.client, request |-> t.request, applied |-> applied]
Started(c, r, kind) ==
    [kind |-> kind, client |-> c, request |-> r, phase |-> "open", list |-> <<>>, exported |-> <<>>,
     at |-> 1, created |-> 0, splits |-> <<>>, moved |-> {}, panes |-> 0,
     named |-> FALSE]

\* Mutant of Unconfigured: nobody is told.
UnconfiguredSilently(c, r, kind) ==
    /\ ~(Reads(kind) \in known /\ Writes(kind) \in known)
    /\ UNCHANGED <<done, task>>

\* A session that is not configured is answered from the loop, and nothing is started.
Unconfigured(c, r, kind) ==
    /\ ~(Reads(kind) \in known /\ Writes(kind) \in known)
    /\ done' = Append(done, [client |-> c, request |-> r, applied |-> FALSE])
    /\ UNCHANGED task

\* One operation at a time is modelled; what others do on the server stands for the rest.
RunOperation(c, kind) ==
    /\ c \in connected /\ task = Idle /\ Cardinality(asked) < MaxAsked
    /\ LET r == Cardinality(asked) + 1
       IN  /\ asked' = asked \cup {[client |-> c, request |-> r]}
           /\ \/ Unconfigured(c, r, kind)
              \/ /\ {Reads(kind), Writes(kind)} \subseteq known
                 /\ task' = Started(c, r, kind)
                 /\ UNCHANGED done
    /\ UNCHANGED <<tabs, fresh, there, known, connected, answered, ever, closed, faults, others>>

\* The task ends with an outcome for the loop.
End(applied) == done' = Append(done, Result(task, applied)) /\ task' = Idle

\* A request fails or its time runs out; the server may have carried it out all the same.
Fails == faults < MaxFaults /\ faults' = faults + 1 /\ End(FALSE)

-----------------------------------------------------------------------------
(* The task: one command; export_workspace_tabs *)

\* herdr_args and run_herdr_operation: a single command, here a split of some pane.
RunCommand ==
    /\ task.kind = "single" /\ task.phase = "open"
    /\ \/ /\ \E i \in DOMAIN tabs["b"] :
               tabs' = [tabs EXCEPT !["b"][i].root = <<"right", @, <<fresh>>>>]
          /\ fresh' = fresh + 1 /\ ever' = ever \cup {fresh}
          /\ \/ End(TRUE) /\ UNCHANGED faults
             \/ Fails
       \/ Fails /\ UNCHANGED <<tabs, fresh, ever>>
    /\ UNCHANGED <<there, known, connected, asked, answered, closed, others>>

\* ApiSession::open and tab.list.
ListTabs ==
    /\ task.kind \in {"move", "recreate"} /\ task.phase = "open"
    /\ \/ /\ tabs["a"] # <<>> /\ UNCHANGED <<done, faults>>
          /\ task' = [task EXCEPT !.phase = "export", !.list = [i \in DOMAIN tabs["a"] |-> tabs["a"][i].id]]
       \/ tabs["a"] = <<>> /\ End(FALSE) /\ UNCHANGED faults
       \/ Fails
    /\ UNCHANGED <<tabs, fresh, there, known, connected, asked, answered, ever, closed, others>>

\* layout.export, tab by tab: everything is read before anything is changed.
ExportTab ==
    /\ task.kind \in {"move", "recreate"} /\ task.phase = "export"
    /\ LET n == Len(task.exported) + 1
           found == {i \in DOMAIN tabs["a"] : tabs["a"][i].id = task.list[n]}
           all == Append(task.exported, IF found = {} THEN <<0>> ELSE tabs["a"][CHOOSE i \in found : TRUE].root)
       IN  \/ /\ found # {} /\ UNCHANGED <<done, faults>>
              /\ task' = [task EXCEPT !.exported = all,
                            !.phase = IF n < Len(task.list) THEN "export"
                                      ELSE IF task.kind = "move" THEN "anchor" ELSE "bound"]
           \/ found = {} /\ End(FALSE) /\ UNCHANGED faults
           \/ Fails
    /\ UNCHANGED <<tabs, fresh, there, known, connected, asked, answered, ever, closed, others>>

-----------------------------------------------------------------------------
(* move_workspace *)

\* A workspace cannot be moved into itself: nothing is asked of the server.
IntoItself ==
    /\ task.kind = "self" /\ End(FALSE)
    /\ UNCHANGED <<tabs, fresh, there, known, connected, asked, answered, ever, closed, faults, others>>

\* record_move: the identifier the pane has now; the splits that follow name it.
Recorded(p) == task.moved \cup {p}

\* pane.move of a tab's first pane, into a new tab of the destination.
MoveAnchor ==
    /\ task.kind = "move" /\ task.phase = "anchor"
    /\ LET root == task.exported[task.at]
           plan == PlanTabMove(root)
           carried == /\ plan.anchor \in PanesOf("a")
                      /\ tabs' = [tabs EXCEPT !["a"] = Removed("a", plan.anchor),
                                              !["b"] = Append(@, [id |-> fresh, root |-> <<plan.anchor>>])]
                      /\ fresh' = fresh + 1
       IN  \/ ~Plannable(root) /\ End(FALSE) /\ UNCHANGED <<tabs, fresh, faults>>
           \/ /\ Plannable(root) /\ carried /\ UNCHANGED <<done, faults>>
              /\ task' = [task EXCEPT !.created = fresh, !.splits = plan.splits, !.panes = @ + 1,
                                      !.moved = Recorded(plan.anchor), !.phase = "split"]
           \/ Plannable(root) /\ carried /\ Fails
           \/ Plannable(root) /\ plan.anchor \notin PanesOf("a") /\ End(FALSE) /\ UNCHANGED <<tabs, fresh, faults>>
           \/ Plannable(root) /\ Fails /\ UNCHANGED <<tabs, fresh>>
    /\ UNCHANGED <<there, known, connected, asked, answered, ever, closed, others>>

\* A server finds a pane under the identifier it has now: one that moved only if it is named so.
Found(i, p) == p \in task.moved /\ p \in Leaves(tabs["b"][i].root)

\* pane.move of the next pane, beside the one the split names.
MoveSplit ==
    /\ task.kind = "move" /\ task.phase = "split" /\ task.splits # <<>>
    /\ LET s == Head(task.splits)
           at == {i \in DOMAIN tabs["b"] : tabs["b"][i].id = task.created /\ Found(i, s.target)}
           carried == /\ s.pane \in PanesOf("a") /\ at # {}
                      /\ tabs' = [tabs EXCEPT !["a"] = Removed("a", s.pane),
                                              !["b"][CHOOSE i \in at : TRUE].root =
                                                  Placed(@, s.target, s.direction, s.pane)]
       IN  \/ /\ carried /\ UNCHANGED <<done, faults>>
              /\ task' = [task EXCEPT !.splits = Tail(@), !.panes = @ + 1, !.moved = Recorded(s.pane)]
           \/ carried /\ Fails
           \/ ~(s.pane \in PanesOf("a") /\ at # {}) /\ End(FALSE) /\ UNCHANGED <<tabs, faults>>
           \/ Fails /\ UNCHANGED tabs
    /\ UNCHANGED <<fresh, there, known, connected, asked, answered, ever, closed, others>>

\* Mutant of TabMoved: the source is closed once its exported tabs have moved.
TabMovedCloses ==
    /\ task.kind = "move" /\ task.phase = "split" /\ task.splits = <<>>
    /\ IF task.at < Len(task.exported)
       THEN task' = [task EXCEPT !.at = @ + 1, !.phase = "anchor"] /\ UNCHANGED <<done, tabs>>
       ELSE End(TRUE) /\ tabs' = [tabs EXCEPT !["a"] = <<>>]
    /\ UNCHANGED <<fresh, there, known, connected, asked, answered, ever, closed, faults, others>>

\* The tab is whole: the next one, or the end.  The source is left to close by itself.
TabMoved ==
    /\ task.kind = "move" /\ task.phase = "split" /\ task.splits = <<>>
    /\ IF task.at < Len(task.exported)
       THEN task' = [task EXCEPT !.at = @ + 1, !.phase = "anchor"] /\ UNCHANGED done
       ELSE End(TRUE)
    /\ UNCHANGED <<tabs, fresh, there, known, connected, asked, answered, ever, closed, faults, others>>

-----------------------------------------------------------------------------
(* recreate_workspace *)

Shells(roots) == FoldSeq(LAMBDA t, n : n + Cardinality(Leaves(t)), 0, roots)

\* Mutant of Bounded: the bound is per tab.
BoundedPerTab(roots) == \A i \in DOMAIN roots : Shells(<<roots[i]>>) <= MaxRecreated

\* recreatable_layouts: too deep or too many shells is refused before anything is started.
Bounded(roots) == (\A i \in DOMAIN roots : Plannable(roots[i])) /\ Shells(roots) <= MaxRecreated

\* workspace.create, with its one empty tab, which the answer may not name.
CreateWorkspace ==
    /\ task.kind = "recreate" /\ task.phase = "bound"
    /\ \/ ~Bounded(task.exported) /\ End(FALSE) /\ UNCHANGED <<there, faults>>
       \/ /\ Bounded(task.exported) /\ there' = Append(there, <<<<0>>>>) /\ UNCHANGED <<done, faults>>
          /\ \E named \in BOOLEAN :
               task' = [task EXCEPT !.phase = "apply", !.created = Len(there) + 1, !.named = named]
       \/ Bounded(task.exported) /\ Fails /\ there' \in {there, Append(there, <<<<0>>>>)}
    /\ UNCHANGED <<tabs, fresh, known, connected, asked, answered, ever, closed, others>>

\* layout.apply: the first layout into that tab if it has a name, the others beside it.
ApplyLayout ==
    /\ task.kind = "recreate" /\ task.phase = "apply"
    /\ LET root == task.exported[task.at]
           applied == [there EXCEPT ![task.created] = IF task.at = 1 /\ task.named THEN <<root>> ELSE Append(@, root)]
       IN  \/ /\ there' = applied /\ UNCHANGED faults
              /\ IF task.at < Len(task.exported) THEN task' = [task EXCEPT !.at = @ + 1] /\ UNCHANGED done
                 ELSE End(TRUE)
           \/ Fails /\ there' \in {there, applied}
    /\ UNCHANGED <<tabs, fresh, known, connected, asked, answered, ever, closed, others>>

-----------------------------------------------------------------------------
(* Around the task *)

\* Input::OperationDone with operation_completed: a client that is gone is not answered.
OperationDone ==
    /\ done # <<>> /\ done' = Tail(done)
    /\ answered' = IF Head(done).client \in connected THEN Append(answered, Head(done)) ELSE answered
    /\ UNCHANGED <<tabs, fresh, there, known, task, connected, asked, ever, closed, faults, others>>

Disconnect(c) ==
    /\ c \in connected /\ connected' = connected \ {c}
    /\ UNCHANGED <<tabs, fresh, there, known, task, done, asked, answered, ever, closed, faults, others>>

\* The configuration drops the other session.
Reconfigure ==
    /\ known' = {"here"} /\ known # known'
    /\ UNCHANGED <<tabs, fresh, there, task, done, connected, asked, answered, ever, closed, faults, others>>

\* Somebody closes a pane of the workspace, or splits one (external).
Others ==
    /\ others < MaxOthers /\ others' = others + 1
    /\ \/ \E p \in PanesOf("a") : /\ tabs' = [tabs EXCEPT !["a"] = Removed("a", p)]
                                  /\ closed' = closed \cup {p} /\ UNCHANGED <<fresh, ever>>
       \/ \E i \in DOMAIN tabs["a"] : /\ tabs' = [tabs EXCEPT !["a"][i].root = <<"down", @, <<fresh>>>>]
                                      /\ fresh' = fresh + 1 /\ ever' = ever \cup {fresh} /\ UNCHANGED closed
    /\ UNCHANGED <<there, known, task, done, connected, asked, answered, faults>>

Init ==
    /\ \E l \in Layouts :
         /\ tabs = [w \in {"a", "b"} |-> IF w = "a" THEN [i \in DOMAIN l |-> [id |-> i, root |-> l[i]]]
                                         ELSE <<[id |-> 10, root |-> <<11>>]>>]
         /\ ever = {11} \cup UNION {Leaves(l[i]) : i \in DOMAIN l}
    /\ fresh = 12 /\ there = <<>> /\ known = {"here", "there"} /\ task = Idle /\ done = <<>>
    /\ connected = Clients /\ asked = {} /\ answered = <<>> /\ closed = {} /\ faults = 0 /\ others = 0

Asks == {"single", "self", "move", "recreate"}
Step == RunCommand \/ IntoItself \/ ListTabs \/ ExportTab \/ MoveAnchor \/ MoveSplit \/ TabMoved \/ CreateWorkspace \/ ApplyLayout

Next ==
    \/ \E c \in Clients, kind \in Asks : RunOperation(c, kind)
    \/ Step \/ OperationDone \/ Reconfigure \/ Others
    \/ \E c \in Clients : Disconnect(c)

\* Every request on the API session has a timeout, and the loop takes every input.
Spec == Init /\ [][Next]_vars /\ WF_vars(Step) /\ WF_vars(OperationDone)

-----------------------------------------------------------------------------
(* Properties *)

RootsOf(w) == [i \in DOMAIN tabs[w] |-> tabs[w][i].root]

\* A move that ends well, on a server nobody else touched, leaves every tab as it was: the same
\* splits in the same directions over the same panes, in the same order behind what the
\* destination held, and nothing in the source (plan_tab_move replayed by move_workspace).
RebuiltAsItWas ==
    (task.kind = "move" /\ task.phase = "split" /\ task.splits = <<>> /\ others = 0) =>
        LET moved == SubSeq(task.exported, 1, task.at)
            held == RootsOf("b")
        IN  /\ SubSeq(held, Len(held) - task.at + 1, Len(held)) = moved
            /\ task.at = Len(task.exported) => tabs["a"] = <<>>
            /\ task.panes = Shells(moved)

\* Nothing is lost: at every step, whatever fails and whatever others do, each pane the session
\* ever had is in one place, its own workspace or the destination, unless somebody closed it
\* ("leaves the already moved tabs in the destination and the rest in the source").
NothingIsLost ==
    /\ PanesOf("a") \cap PanesOf("b") = {}
    /\ ever = PanesOf("a") \cup PanesOf("b") \cup closed

\* A recreation never starts more shells than the bound, on a failed attempt either, and what it
\* leaves behind is the first tabs of the source in order (recreatable_layouts, recreate_workspace).
RecreatedIsBounded ==
    \A i \in DOMAIN there : Shells(SelectSeq(there[i], LAMBDA t : t # <<0>>)) <= MaxRecreated

\* Every operation is answered once, unless its client has left: a refused one, one that failed
\* half way and one whose target is not configured too (run_operation, operation_completed).
EveryAskAnswered ==
    []<>(\A a \in asked :
            \/ a.client \notin connected
            \/ Len(SelectSeq(answered, LAMBDA r : r.client = a.client /\ r.request = a.request)) = 1)
=============================================================================
