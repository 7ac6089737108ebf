------------------------------- MODULE MCWork -------------------------------
(***************************************************************************)
(* What people ask for and are told, one part to a behaviour: attention and*)
(* the notifications it becomes (Notifications), the frontend's manager of *)
(* targets (TargetManager) and the operations asked of a session           *)
(* (Operations).                                                           *)
(***************************************************************************)
EXTENDS Notifications, TargetManager

VARIABLES
    scene,      \* the component this behaviour is about
    \* Operations
    tabs, fresh, there, known, opsTask, done, connected, asked, answered, ever, closed,
    faults, others
opsVars == <<tabs, fresh, there, known, opsTask, done, connected, asked, answered, ever,
              closed, faults, others>>
all == <<scene, vars, managerVars, opsVars>>

\* One machine is configured.
OneTarget == [n \in {"a"} |-> [ssh |-> "h1", roots |-> 0]]

Reportable == {[phase |-> "working", ready |-> FALSE], [phase |-> "attention", ready |-> TRUE]}
\* The same, with fewer events and a restart of the daemon.
Restarted == INSTANCE Notifications WITH MaxId <- 1, MaxRestarts <- 1, MaxMarks <- 0

\* Trees of two to four panes numbered from a, in every shape and direction; a workspace of a
\* tree of three beside a tab of one, or of one tree of four.
Splits(left, right) == {<<d, l, r>> : d \in {"right", "down"}, l \in left, r \in right}
Two(a) == Splits({<<a>>}, {<<a + 1>>})
Three(a) == Splits({<<a>>}, Two(a + 1)) \cup Splits(Two(a), {<<a + 2>>})
Four(a) == Splits(Two(a), Two(a + 2)) \cup Splits(Three(a), {<<a + 3>>})
Trees == {<<t, <<9>>>> : t \in {x \in Three(1) : x[1] = "right"}}
         \cup {<<t>> : t \in {x \in Four(1) : x[1] = "down"}}

\* Two operations on trees up to and over the depth allowed.
Ops == INSTANCE Operations WITH
    Layouts <- Trees, Clients <- {1}, MaxDepth <- 2, MaxRecreated <- 3, MaxAsked <- 2,
    MaxFaults <- 1, MaxOthers <- 1, task <- opsTask

\* One component acts; the others stay as they began.
MCInit ==
    /\ scene \in {"manage", "operate", "notify", "restart"}
    /\ Init /\ ManagerInit /\ Ops!Init
    /\ scene # "operate" => ever = {1, 2, 3, 9, 11} /\ tabs["a"][1].root = <<"right", <<1>>, <<"down", <<2>>, <<3>>>>>>
InManage(A) == scene = "manage" /\ A
InOperate(A) == scene = "operate" /\ A
InNotify(A) == scene = "notify" /\ A
MCNext ==
    \/ scene = "manage" /\ ManagerNext /\ UNCHANGED <<scene, vars, opsVars>>
    \/ scene = "operate" /\ Ops!Next /\ UNCHANGED <<scene, vars, managerVars>>
    \/ scene = "notify" /\ Next /\ UNCHANGED <<scene, managerVars, opsVars>>
    \/ scene = "restart" /\ Restarted!Next /\ UNCHANGED <<scene, managerVars, opsVars>>

MCSpec ==
    /\ MCInit /\ [][MCNext]_all
    /\ WF_vars(InNotify(Draw))
    /\ WF_vars(InNotify(Tick))
    /\ WF_vars(InNotify(Delivered))
    /\ WF_opsVars(InOperate(Ops!Step))
    /\ WF_opsVars(InOperate(Ops!OperationDone))
    /\ WF_managerVars(InManage(Period))
    /\ WF_managerVars(InManage(RefreshTick))
    /\ WF_managerVars(InManage(Load))
    /\ WF_managerVars(InManage(RefreshFails))
    /\ WF_managerVars(InManage(RefreshReady))

\* However edits, transitions, the limit and restarts cross, a client with nothing under way
\* holds the daemon's history, and no event is notified or alerted twice (AttentionIndex,
\* NotificationQueue).
HistoryIsShared == MirrorConverges /\ NotifiedOnce

\* What waits to be told is told, an operation that was asked for is answered once unless its
\* client left, and the list of targets comes to be the file's,
\* although notifications fail and requests time out (dispatch_notifications, run_operation,
\* configuration_dirty).
NothingLeftWaiting ==
    /\ scene = "notify" => WaitingIsTold
    /\ scene = "operate" => Ops!EveryAskAnswered
    /\ scene = "manage" => ListFollowsFile

\* A workspace that is moved arrives as it was and no pane is lost on the way, whatever fails
\* between two requests; one that is recreated stays within its bound (plan_tab_move,
\* move_workspace, recreate_workspace).
PanesArriveWhole ==
    scene = "operate" => Ops!RebuiltAsItWas /\ Ops!NothingIsLost /\ Ops!RecreatedIsBounded
=============================================================================
