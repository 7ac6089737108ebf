--------------------------- MODULE Notifications ---------------------------
(***************************************************************************)
(* The two sinks of attention events, each with a NotificationQueue: the   *)
(* terminal frontend's desktop notifications, fed from its mirror before   *)
(* every frame, and the daemon's alerts to paired devices, fed from what   *)
(* an observation adds and quietened by the marks a person put on agents.  *)
(* Both wait for more to coalesce and for the least interval to pass; here *)
(* a tick finds a queue that is due at any time.                           *)
(***************************************************************************)
EXTENDS Attention

CONSTANTS
    Kinds,          \* the kinds NotificationsConfig asks for at first
    MaxPending,     \* MAX_PENDING_METADATA
    MaxMarks        \* named bound: marks set and configurations changed

VARIABLES
    desktop,        \* App.notification_queue: [last, pending, count]
    wanted,         \* its NotificationsConfig: the kinds it is for, none when disabled
    task,           \* App.notification_inflight and the task it is for
    told,           \* the last desktop notification: its event, count, and the one before (history)
    drawn,          \* the newest event of the history at the frontend's start (history)
    device,         \* Daemon.device_notifications
    quiet,          \* the panes whose agent is muted or snoozed
    alerted,        \* the last alert to devices, and whether its agent was quiet then (history)
    turns

desktopSink == <<desktop, wanted, task, told, drawn>>
deviceSink == <<device, quiet, alerted>>
vars == <<attention, desktopSink, deviceSink, turns>>

Person == 1     \* the client that is the terminal frontend
Queue(last) == [last |-> last, pending |-> <<>>, count |-> 0]
NotTold == [id |-> 0, before |-> 0, count |-> 0]
NotAlerted == [id |-> 0, before |-> 0, quiet |-> FALSE]

-----------------------------------------------------------------------------
(* NotificationQueue *)

Bounded(pending) ==
    SubSeq(pending, IF Len(pending) > MaxPending THEN Len(pending) - MaxPending + 1 ELSE 1, Len(pending))

\* Mutant of Enqueue: what is not wanted now is not remembered as seen.
EnqueueForgets(queue, e, kinds) ==
    IF e.id <= queue.last \/ e.kind \notin kinds THEN queue
    ELSE [last |-> queue.last, pending |-> Bounded(Append(queue.pending, e)), count |-> queue.count + 1]

\* enqueue: what was seen before is not seen again, wanted or not.
Enqueue(queue, e, kinds) ==
    IF e.id <= queue.last THEN queue
    ELSE IF e.kind \notin kinds THEN [queue EXCEPT !.last = e.id]
    ELSE [last |-> e.id, pending |-> Bounded(Append(queue.pending, e)), count |-> queue.count + 1]

EnqueueAll(queue, events, kinds) == FoldLeft(LAMBDA q, e : Enqueue(q, e, kinds), queue, events)

\* take_ready: one notification, about the newest, for all that waited.
Ready(queue) == queue.count > 0
Taken(queue) == Queue(queue.last)

-----------------------------------------------------------------------------
(* The desktop *)

\* refresh_attention, before a frame
Draw ==
    /\ desktop' = EnqueueAll(desktop, mirror[Person], wanted)
    /\ desktop' # desktop
    /\ UNCHANGED <<attention, wanted, task, told, drawn, deviceSink, turns>>

\* run's tick: spawn_notification_delivery, one at a time.
Tick ==
    /\ task = "none" /\ Ready(desktop) /\ wanted # {}
    /\ desktop' = Taken(desktop)
    /\ task' = "dispatching"
    /\ told' = [id |-> Last(desktop.pending).id, before |-> told.id, count |-> desktop.count]
    /\ UNCHANGED <<attention, wanted, drawn, deviceSink, turns>>

\* Mutant of Delivered: a notification that could not be shown is still under way.
DeliveredOnlyWell ==
    /\ task = "dispatching"
    /\ task' \in {"none", "failed"}
    /\ UNCHANGED <<attention, desktop, wanted, told, drawn, deviceSink, turns>>

\* dispatch ends, one way or the other, and NotificationEvent::Delivered is taken.
Delivered ==
    /\ task = "dispatching"
    /\ task' = "none"
    /\ UNCHANGED <<attention, desktop, wanted, told, drawn, deviceSink, turns>>

\* NotificationQueue::reconfigure: what waited is dropped.
Reconfigure(kinds) ==
    /\ kinds # wanted /\ turns < MaxMarks /\ turns' = turns + 1
    /\ wanted' = kinds
    /\ desktop' = Taken(desktop)
    /\ UNCHANGED <<attention, task, told, drawn, deviceSink>>

\* Ctrl+] q and a new start: last_attention_event_id is None.
RestartFrontend ==
    /\ turns < MaxMarks /\ turns' = turns + 1
    /\ mirror' = [mirror EXCEPT ![Person] = <<>>]
    /\ toClient' = [toClient EXCEPT ![Person] = <<History(index.events)>>]
    /\ toDaemon' = [toDaemon EXCEPT ![Person] = <<>>]
    /\ desktop' = Queue(0) /\ task' = "none" /\ told' = NotTold
    /\ drawn' = index.next - 1
    /\ UNCHANGED <<index, cursor, disk, restarts, wanted, deviceSink>>

-----------------------------------------------------------------------------
(* Paired devices *)

\* observe_attention: the mark of each fresh event's agent decides (AgentMarkState::may_notify).
ObserveAndAlert ==
    /\ ObserveAny
    /\ LET loud == SelectSeq(Fresh(index'), LAMBDA e : e.pane \notin quiet)
       IN  device' = EnqueueAll(device, loud, Kinds)
    /\ UNCHANGED <<desktopSink, quiet, alerted, turns>>

\* Input::NotificationsDue, device_alerts
DeviceAlerts ==
    /\ Ready(device)
    /\ device' = Taken(device)
    /\ alerted' = [id |-> Last(device.pending).id, before |-> alerted.id,
                    quiet |-> Last(device.pending).pane \in quiet]
    /\ UNCHANGED <<attention, desktopSink, quiet, turns>>

\* Effect::MarkAgent, AgentMarks::apply and expire
MarkAgent(p) ==
    /\ turns < MaxMarks /\ turns' = turns + 1
    /\ quiet' = (quiet \ {p}) \cup ({p} \ quiet)
    /\ UNCHANGED <<attention, desktopSink, device, alerted>>

\* A daemon that is started again has nothing waiting, and its clients start again.
RestartBoth ==
    /\ RestartDaemon
    /\ device' = Queue(0) /\ alerted' = NotAlerted
    /\ desktop' = Queue(0) /\ task' = "none" /\ told' = NotTold /\ drawn' = index'.next - 1
    /\ UNCHANGED <<wanted, quiet, turns>>

-----------------------------------------------------------------------------
Init ==
    /\ InitAttention
    /\ desktop = Queue(0) /\ wanted = Kinds /\ task = "none" /\ told = NotTold /\ drawn = 0
    /\ device = Queue(0) /\ quiet = {} /\ alerted = NotAlerted
    /\ turns = 0

Others == UNCHANGED <<desktopSink, deviceSink, turns>>

Next ==
    \/ ObserveAndAlert \/ RestartBoth
    \/ \E c \in Clients :
          \/ Others /\ TakeRequest(c)
          \/ Others /\ Receive(c)
          \/ Others /\ \E request \in Requests : Ask(c, request)
    \/ Draw \/ Tick \/ Delivered \/ RestartFrontend
    \/ \E kinds \in {Kinds, {}} : Reconfigure(kinds)
    \/ DeviceAlerts \/ \E p \in Panes : MarkAgent(p)

\* The loop draws and ticks, a dispatched notification ends.
Spec == Init /\ [][Next]_vars /\ WF_vars(Draw) /\ WF_vars(Tick) /\ WF_vars(Delivered)

-----------------------------------------------------------------------------
\* Although the mirror is offered to the queue again before every frame, sent
\* whole at every change and edited meanwhile, no event is notified twice in
\* the life of a frontend, nor alerted twice in that of a daemon, and a
\* notification counts no more events than there were since the last.
NotifiedOnce ==
    /\ told # NotTold => told.before < told.id /\ told.count <= told.id - told.before
    /\ alerted # NotAlerted => alerted.before < alerted.id

\* Something waiting to be notified is notified, or dropped by a change of
\* configuration: one notification that fails does not hold up the rest.
WaitingIsTold == Ready(desktop) ~> ~Ready(desktop)

-----------------------------------------------------------------------------
(* Statements of the repository that the code does not keep *)

\* "Its cursor starts at the newest persisted event, so startup never replays
\* historical notifications." (ARCHITECTURE.md)
StartupIsQuiet == told # NotTold => told.id > drawn

\* "Muting or snoozing an agent quiets it everywhere" (ARCHITECTURE.md).
QuietIsQuiet == ~alerted.quiet
=============================================================================
