----------------------------- MODULE Federation -----------------------------
(***************************************************************************)
(* One target's supervisor (src/state.rs: supervise_target and the records *)
(* it publishes; src/transport.rs: the change stream it waits on).         *)
(*                                                                         *)
(* The supervisor keeps a published picture of a herdr session it cannot   *)
(* lock: it opens a change stream, takes a snapshot, waits for an event, a *)
(* nudge or a deadline, and starts over; a target that fails is retried    *)
(* after a backoff.  The session changes at any moment, also between any   *)
(* two steps here.  A stream starts at the live edge: it carries changes   *)
(* made after it was opened, and status changes only of the panes it was   *)
(* opened for.  Supervisors of different targets share nothing.            *)
(***************************************************************************)
EXTENDS Integers, FiniteSets, TLAPS

CONSTANTS Pane,
          HasSocket,    \* the target has an API socket to stream from
          MaxChanges,   \* bound: changes of the session
          MaxAttempts,  \* bound: failures in a row, and reconnections
          None

ASSUME FederationConstants ==
    /\ HasSocket \in BOOLEAN
    /\ MaxChanges \in Nat /\ MaxAttempts \in Nat

VARIABLES
    world,       \* the session: how often it changed, and its panes
    phase,       \* what the supervisor is waiting for
    stream,      \* the change stream: its panes and what it still carries, or None
    known,       \* known_pane_ids: the panes of the last good snapshot
    answer,      \* the snapshot the host answered with, not yet recorded, or None
    connected,
    generation,  \* connection_generation
    failures,    \* failed_attempts
    nudged,      \* a nudge the supervisor has not seen
    elapsed,     \* the delay or refresh deadline it waits for has passed
    published    \* the TargetRuntimeState in the watch channel

vars == <<world, phase, stream, known, answer, connected, generation, failures,
          nudged, elapsed, published>>

Phase == {"subscribe", "snapshot", "record", "resubscribe", "events", "deadline",
          "backoff", "incompatible", "stopped"}
World == [revision : 0..MaxChanges, panes : SUBSET Pane]
Stream == [panes : SUBSET Pane, pending : BOOLEAN, half : BOOLEAN, torn : BOOLEAN,
           baselined : BOOLEAN]

\* None stands for every absent value, so it is none of the present ones.
ASSUME NoneAssumption == None \notin Pane /\ None \notin World /\ None \notin Stream

\* A stream just opened for these panes.  `baselined` says that the snapshot
\* it is compared with was taken while it was open, `half` that part of the
\* next event has been read, `torn` that such a part was thrown away.
Opened(panes) == [panes |-> panes, pending |-> FALSE, half |-> FALSE,
                  torn |-> FALSE, baselined |-> FALSE]

Init ==
    /\ world \in {[revision |-> 0, panes |-> P] : P \in SUBSET Pane}
    /\ phase = "subscribe"
    /\ stream = None
    /\ known = {}
    /\ answer = None
    /\ connected = FALSE
    /\ generation = 0
    /\ failures = 0
    /\ nudged = FALSE
    /\ elapsed = FALSE
    /\ published = [connection |-> "connecting", mode |-> "polling", generation |-> 0,
                    snapshot |-> None]

-----------------------------------------------------------------------------
(* The session, and who asks for a refresh *)

\* A change the subscription names for every pane (layout, focus, panes that
\* come and go), or a status change of one pane.
SessionChanges(panes, about) ==
    /\ world.revision < MaxChanges
    /\ about \in world.panes \cup {None}
    /\ about # None => panes = world.panes
    /\ world' = [revision |-> world.revision + 1, panes |-> panes]
    /\ stream' = IF stream # None /\ (about = None \/ about \in stream.panes)
                 THEN [stream EXCEPT !.pending = TRUE] ELSE stream
    /\ UNCHANGED <<phase, known, answer, connected, generation, failures, nudged,
                   elapsed, published>>

\* refresh_now: the counter moves; the supervisor sees it when it next looks.
RefreshNow ==
    /\ ~nudged
    /\ nudged' = TRUE
    /\ UNCHANGED <<world, phase, stream, known, answer, connected, generation,
                   failures, elapsed, published>>

\* The clock passes the refresh deadline or the end of the backoff.
TimePasses ==
    /\ ~elapsed
    /\ phase \in {"resubscribe", "events", "deadline", "backoff"}
    /\ elapsed' = TRUE
    /\ UNCHANGED <<world, phase, stream, known, answer, connected, generation,
                   failures, nudged, published>>

-----------------------------------------------------------------------------
(* The supervisor *)

\* record_update_mode.
Mode(mode) == published' = [published EXCEPT !.mode = mode]

\* Back to the top of the loop.  Waiting on a stream that is dropped half way
\* through a line loses what was read of it.
Loop == /\ phase' = IF HasSocket /\ stream' = None /\ failures' = 0
                    THEN "subscribe" ELSE "snapshot"
        /\ elapsed' = FALSE

Abandoned == IF stream # None /\ stream.half
             THEN [stream EXCEPT !.half = FALSE, !.torn = TRUE] ELSE stream

\* attempt_change_stream, before a snapshot and after one.  Nothing but the
\* refresh deadline bounds the second, and nothing the first.
OpenStream ==
    LET panes == IF phase = "subscribe" THEN known ELSE answer.panes
    IN  /\ phase \in {"subscribe", "resubscribe"}
        /\ \/ /\ stream' = Opened(panes)
              /\ Mode("events")
              /\ phase' = IF phase = "subscribe" THEN "snapshot" ELSE "events"
           \/ /\ stream' = None
              /\ Mode("polling")
              /\ phase' = IF phase = "subscribe" THEN "snapshot" ELSE "deadline"
        /\ UNCHANGED <<world, known, answer, connected, generation, failures,
                       nudged, elapsed>>

\* The attempt is given up for a nudge or for the deadline.
OpenStreamInterrupted ==
    /\ phase \in {"subscribe", "resubscribe"}
    /\ nudged \/ (phase = "resubscribe" /\ elapsed)
    /\ nudged' = FALSE
    /\ stream' = None
    /\ UNCHANGED <<world, known, answer, connected, generation, failures, published>>
    /\ Loop

\* The host reads its session for the snapshot that was asked.
SnapshotTaken ==
    /\ phase = "snapshot"
    /\ phase' = "record"
    /\ answer' = world
    /\ stream' = IF stream = None THEN None ELSE [stream EXCEPT !.baselined = TRUE]
    /\ UNCHANGED <<world, known, connected, generation, failures, nudged, elapsed, published>>

\* record_success, and where the loop goes from there.
RecordSuccess ==
    LET next == IF connected THEN generation ELSE generation + 1
    IN  /\ phase = "record"
        /\ known' = answer.panes
        /\ connected' = TRUE
        /\ generation' = next
        /\ failures' = 0
        /\ published' = [published EXCEPT !.connection = "live", !.generation = next,
                                          !.snapshot = answer]
        /\ phase' = IF ~HasSocket THEN "deadline"
                    ELSE IF stream = None \/ stream.panes # answer.panes THEN "resubscribe"
                    ELSE "events"
        /\ stream' = IF stream # None /\ stream.panes # answer.panes THEN None ELSE stream
        /\ elapsed' = FALSE
        /\ UNCHANGED <<world, answer, nudged>>

\* Mutant of SnapshotFails: the outage is not remembered.
SnapshotFailsConnected ==
    /\ phase \in {"snapshot", "record"}
    /\ failures < MaxAttempts /\ generation < MaxAttempts
    /\ stream' = None
    /\ failures' = failures + 1
    /\ published' = [published EXCEPT !.mode = "polling", !.connection = "backoff"]
    /\ phase' = "backoff"
    /\ answer' = None
    /\ elapsed' = FALSE
    /\ UNCHANGED <<world, known, connected, generation, nudged>>

\* record_backoff: the last snapshot stays published, the stream goes.
SnapshotFails ==
    /\ phase \in {"snapshot", "record"}
    /\ failures < MaxAttempts /\ generation < MaxAttempts
    /\ stream' = None
    /\ connected' = FALSE
    /\ failures' = failures + 1
    /\ published' = [published EXCEPT !.mode = "polling", !.connection = "backoff"]
    /\ phase' = "backoff"
    /\ answer' = None
    /\ elapsed' = FALSE
    /\ UNCHANGED <<world, known, generation, nudged>>

\* record_incompatible: nothing but a shutdown ends it.
SnapshotIncompatible ==
    /\ phase \in {"snapshot", "record"}
    /\ published' = [published EXCEPT !.connection = "incompatible"]
    /\ phase' = "incompatible"
    /\ UNCHANGED <<world, stream, known, answer, connected, generation, failures,
                   nudged, elapsed>>

\* read_until got part of the next line.
EventHalfRead ==
    /\ phase = "events"
    /\ stream.pending /\ ~stream.half /\ ~stream.torn
    /\ stream' = [stream EXCEPT !.half = TRUE]
    /\ UNCHANGED <<world, phase, known, answer, connected, generation, failures,
                   nudged, elapsed, published>>

\* Mutant of EventArrives: an event is consumed while the supervisor waits on.
EventArrivesUnheeded ==
    /\ phase = "events"
    /\ stream.pending /\ ~stream.torn
    /\ stream' = [stream EXCEPT !.pending = FALSE, !.half = FALSE]
    /\ UNCHANGED <<world, phase, known, answer, connected, generation, failures,
                   nudged, elapsed, published>>

\* changes.next() returned an event: an immediate snapshot.
EventArrives ==
    /\ phase = "events"
    /\ stream.pending /\ ~stream.torn
    /\ stream' = [stream EXCEPT !.pending = FALSE, !.half = FALSE]
    /\ UNCHANGED <<world, known, answer, connected, generation, failures, nudged, published>>
    /\ Loop

\* changes.next() failed: the socket closed, or a line whose beginning was
\* thrown away did not parse.  The deadline is waited out without a stream.
StreamFails ==
    /\ phase = "events"
    /\ stream' = None
    /\ Mode("polling")
    /\ phase' = "deadline"
    /\ UNCHANGED <<world, known, answer, connected, generation, failures, nudged, elapsed>>

\* Mutant of WaitEnds: with a stream to wait on, the deadline is not needed.
WaitEndsWithoutDeadline ==
    /\ phase \in {"events", "deadline", "backoff"}
    /\ \/ nudged /\ nudged' = FALSE
       \/ elapsed /\ phase # "events" /\ UNCHANGED nudged
    /\ stream' = Abandoned
    /\ UNCHANGED <<world, known, answer, connected, generation, failures, published>>
    /\ Loop

\* A nudge, the refresh deadline or the end of the backoff ends the wait.
WaitEnds ==
    /\ phase \in {"events", "deadline", "backoff"}
    /\ \/ nudged /\ nudged' = FALSE
       \/ elapsed /\ UNCHANGED nudged
    /\ stream' = Abandoned
    /\ UNCHANGED <<world, known, answer, connected, generation, failures, published>>
    /\ Loop

\* Shutdown ends every wait.
Stop ==
    /\ phase # "stopped"
    /\ phase' = "stopped"
    /\ stream' = None
    /\ UNCHANGED <<world, known, answer, connected, generation, failures, nudged,
                   elapsed, published>>

Supervise ==
    \/ OpenStream \/ OpenStreamInterrupted \/ SnapshotTaken \/ RecordSuccess
    \/ SnapshotFails \/ SnapshotIncompatible
    \/ EventHalfRead \/ EventArrives \/ StreamFails \/ WaitEnds

Next ==
    \/ \E panes \in SUBSET Pane, about \in Pane \cup {None} : SessionChanges(panes, about)
    \/ RefreshNow \/ TimePasses \/ Supervise \/ Stop

Spec == Init /\ [][Next]_vars

\* The supervisor is scheduled, clocks go on, a stream attempt returns, and
\* snapshots of a target that is asked again and again keep succeeding.
FairSpec ==
    /\ Spec
    /\ WF_vars(TimePasses) /\ WF_vars(WaitEnds) /\ WF_vars(SnapshotTaken)
    /\ SF_vars(OpenStream) /\ SF_vars(RecordSuccess)

-----------------------------------------------------------------------------
(* Properties *)

\* Every variable has its type; a stream is waited on only where there is one.
TypeOK ==
    /\ world \in World
    /\ phase \in Phase
    /\ stream # None => stream.panes \subseteq Pane
    /\ phase = "events" => stream # None
    /\ answer \in World \cup {None}
    /\ phase \in {"record", "resubscribe"} => answer # None
    /\ known \subseteq Pane
    /\ generation \in 0..MaxAttempts /\ failures \in 0..MaxAttempts

\* The order of subscription and snapshot is what makes events enough: while
\* the supervisor waits on a stream that was open when its snapshot was taken,
\* the published picture is the session as it is, or the stream has the news.
BaselinedStreamMissesNothing ==
    phase = "events" /\ stream.baselined =>
        published.snapshot = world \/ stream.pending

\* A connection that comes back after an outage is a new one, so whatever was
\* addressed to the old one (accepts_generation) is refused.
ReconnectionIsNew ==
    [][published.connection # "live" /\ published'.connection = "live"
           => published'.generation > published.generation]_vars

\* What a supervisor publishes is the session: while it waits on a stream that was
\* open when its snapshot was taken nothing is missed, and a connection that comes
\* back is a new one (supervise_target, record_success).
SnapshotsAreTrue == []BaselinedStreamMissesNothing /\ ReconnectionIsNew

\* Whatever happened to the session is published in the end, with or without a
\* stream, unless the supervisor was stopped or the target is incompatible: the
\* polling deadline is the resynchronisation boundary.  (The session changes
\* MaxChanges times at most, so being up to date again and again is coming to be.)
EventuallyCurrent ==
    []<>(\/ published.snapshot # None /\ published.snapshot.revision = world.revision
         \/ phase \in {"incompatible", "stopped"})

-----------------------------------------------------------------------------
(* Statements of the repository that the code does not keep: TLC finds a    *)
(* counterexample to each, which README.md describes.                       *)

\* "The next pass around the loop re-baselines against this stream before
\* waiting on it": no wait on any stream misses a change.
StreamMissesNothing ==
    phase = "events" => published.snapshot = world \/ stream.pending

\* "A disconnected target still waits out its backoff" (refresh_now).
BackoffIsWaitedOut ==
    [][phase = "backoff" /\ phase' \in {"subscribe", "snapshot"} => elapsed]_vars

-----------------------------------------------------------------------------
(* Theorems *)

\* What the supervisor compares its stream with has the stream's news or is the session as it
\* is: the snapshot on its way, once it is recorded without the stream being replaced, and from
\* then on the published one.
Compared(snapshot) == snapshot = world \/ stream.pending
Baselines ==
    stream # None =>
        /\ stream \in Stream
        /\ phase = "record" /\ stream.baselined /\ stream.panes = answer.panes => Compared(answer)
        /\ phase = "events" /\ stream.baselined =>
               published.snapshot.panes = stream.panes /\ Compared(published.snapshot)

\* What is published is of the connection there is; a target that is not shown as live is not
\* connected, unless it was found incompatible.
Connections ==
    /\ generation \in Nat /\ published.generation = generation
    /\ phase \notin {"incompatible", "stopped"} /\ published.connection # "live" => ~connected

Published == [connection : {"connecting", "live", "backoff", "incompatible"}, mode : {"events", "polling"},
              generation : Nat, snapshot : World \cup {None}]

FederationInv ==
    /\ world \in World /\ published \in Published
    /\ phase \in Phase /\ connected \in BOOLEAN
    /\ phase = "events" => stream # None
    /\ phase \in {"record", "resubscribe"} => answer \in World
    /\ known \subseteq Pane
    /\ Baselines /\ Connections

LEMMA FederationStarts == Init => FederationInv
<1> SUFFICES ASSUME Init PROVE FederationInv
  OBVIOUS
<1>1. PICK panes \in SUBSET Pane : world = [revision |-> 0, panes |-> panes]
  BY DEF Init
<1>2. world \in World
  BY <1>1, FederationConstants DEF World
<1>3. published \in Published /\ published.generation = 0
  BY DEF Init, Published
<1>4. connected \in BOOLEAN /\ ~connected
  BY DEF Init
<1>5. Baselines /\ Connections
  BY <1>3, <1>4 DEF Init, Baselines, Connections
<1> QED
  BY <1>2, <1>3, <1>4, <1>5 DEF Init, FederationInv, Phase

LEMMA SessionChangesKeeps ==
    ASSUME FederationInv, NEW panes \in SUBSET Pane, NEW about \in Pane \cup {None},
           SessionChanges(panes, about)
    PROVE  FederationInv'
<1>1. /\ world \in World /\ phase' = phase /\ answer' = answer /\ published' = published
      /\ known' = known /\ connected' = connected /\ generation' = generation
  BY DEF FederationInv, SessionChanges
<1>2. world' \in World
  <2>1. PICK r \in Nat : r = world.revision /\ r < MaxChanges
    BY <1>1, FederationConstants DEF World, SessionChanges
  <2>2. r + 1 \in 0..MaxChanges /\ world' = [revision |-> r + 1, panes |-> panes]
    BY <2>1, FederationConstants DEF SessionChanges
  <2> QED
    BY <2>2 DEF World
<1>3. Connections' /\ (phase' = "events" => stream # None)
  BY <1>1 DEF FederationInv, Connections
<1>4. CASE stream = None
  BY <1>1, <1>2, <1>3, <1>4 DEF FederationInv, SessionChanges, Baselines
<1>5. CASE stream # None /\ (about = None \/ about \in stream.panes)
  <2>1. PICK yes \in BOOLEAN : yes = TRUE
    BY Zenon
  <2>2. stream \in Stream /\ stream' = [stream EXCEPT !.pending = yes]
    BY <1>5, <2>1 DEF FederationInv, SessionChanges, Baselines
  <2>3. stream' \in Stream /\ stream'.pending = yes /\ stream'.panes = stream.panes /\ stream'.baselined = stream.baselined
    BY <2>2 DEF Stream
  <2>4. Baselines'
    BY <1>1, <1>5, <2>1, <2>3 DEF FederationInv, Baselines, Compared
  <2> QED
    BY <1>1, <1>2, <1>3, <2>3, <2>4, NoneAssumption DEF FederationInv
<1>6. CASE stream # None /\ about # None /\ about \notin stream.panes
  <2>1. stream' = stream /\ stream \in Stream
    BY <1>6 DEF FederationInv, SessionChanges, Baselines
  <2>2. about \in world.panes
    BY <1>6 DEF SessionChanges
  \* The pane is of the session, so the session is not what the stream was opened for.
  <2>3. phase = "record" /\ stream.baselined /\ stream.panes = answer.panes => stream.pending
    BY <1>6, <2>2 DEF FederationInv, Baselines, Compared
  <2>4. phase = "events" /\ stream.baselined => stream.pending
    BY <1>6, <2>2 DEF FederationInv, Baselines, Compared
  <2>5. Baselines'
    BY <1>1, <1>6, <2>1, <2>3, <2>4 DEF FederationInv, Baselines, Compared
  <2> QED
    BY <1>1, <1>2, <1>3, <1>6, <2>1, <2>5 DEF FederationInv
<1> QED
  BY <1>4, <1>5, <1>6

LEMMA OpenStreamKeeps ==
    ASSUME FederationInv, OpenStream
    PROVE  FederationInv'
<1>1. PICK panes \in SUBSET Pane : panes = IF phase = "subscribe" THEN known ELSE answer.panes
  BY DEF FederationInv, OpenStream, World
<1>2. PICK no \in BOOLEAN : no = FALSE
  BY Zenon
<1>3. \/ stream' = None
      \/ stream' = [panes |-> panes, pending |-> no, half |-> no, torn |-> no, baselined |-> no]
  BY <1>1, <1>2 DEF OpenStream, Opened
<1>4. stream' # None => stream' \in Stream /\ stream'.baselined = no
  BY <1>3 DEF Stream
<1>5. /\ world' = world /\ answer' = answer /\ known' = known /\ connected' = connected
      /\ generation' = generation
  BY DEF OpenStream
<1>6. \E mode \in {"events", "polling"} : published' = [published EXCEPT !.mode = mode]
  BY DEF OpenStream, Mode
<1>7. /\ published' \in Published /\ published'.connection = published.connection
      /\ published'.generation = published.generation /\ published'.snapshot = published.snapshot
  BY <1>6 DEF FederationInv, Published
<1>8. Baselines'
  BY <1>2, <1>4 DEF Baselines
<1>9. phase \in {"subscribe", "resubscribe"} /\ phase' \in {"snapshot", "events", "deadline"}
  BY DEF OpenStream
<1>10. Connections'
  BY <1>5, <1>7, <1>9 DEF FederationInv, Connections
<1>11. phase' = "events" => stream' # None
  <2> SUFFICES ASSUME phase' = "events" PROVE stream' # None
    OBVIOUS
  <2>1. stream' = [panes |-> panes, pending |-> no, half |-> no, torn |-> no, baselined |-> no]
    BY <1>1, <1>2 DEF OpenStream, Opened
  <2> QED
    BY <2>1, NoneAssumption DEF Stream
<1> QED
  BY <1>5, <1>7, <1>8, <1>9, <1>10, <1>11 DEF FederationInv, Phase

\* Back at the top of the loop nothing is compared.
LEMMA LoopKeeps ==
    ASSUME FederationInv, Loop, stream' # None => stream' \in Stream, phase \notin {"incompatible", "stopped"},
           UNCHANGED <<world, known, answer, connected, generation, published>>
    PROVE  FederationInv'
<1>1. phase' \in {"subscribe", "snapshot"}
  BY DEF Loop
<1> QED
  BY <1>1 DEF FederationInv, Baselines, Connections, Phase

LEMMA InterruptedKeeps ==
    ASSUME FederationInv, OpenStreamInterrupted
    PROVE  FederationInv'
BY LoopKeeps DEF OpenStreamInterrupted

LEMMA EventArrivesKeeps ==
    ASSUME FederationInv, EventArrives
    PROVE  FederationInv'
<1>1. stream \in Stream
  BY DEF FederationInv, Baselines, EventArrives
<1>2. PICK no \in BOOLEAN : no = FALSE
  BY Zenon
<1>3. stream' = [stream EXCEPT !.pending = no, !.half = no]
  BY <1>2 DEF EventArrives
<1>4. stream' \in Stream
  BY <1>1, <1>3 DEF Stream
<1> QED
  BY <1>4, LoopKeeps DEF EventArrives

LEMMA WaitEndsKeeps ==
    ASSUME FederationInv, WaitEnds
    PROVE  FederationInv'
<1>1. stream' # None => stream' \in Stream
  <2>1. CASE stream # None /\ stream.half
    <3>1. PICK no \in BOOLEAN, yes \in BOOLEAN : no = FALSE /\ yes = TRUE
      BY Zenon
    <3>2. stream' = [stream EXCEPT !.half = no, !.torn = yes] /\ stream \in Stream
      BY <2>1, <3>1 DEF FederationInv, Baselines, WaitEnds, Abandoned
    <3> QED
      BY <3>2 DEF Stream
  <2>2. CASE ~(stream # None /\ stream.half)
    BY <2>2 DEF FederationInv, Baselines, WaitEnds, Abandoned
  <2> QED
    BY <2>1, <2>2
<1> QED
  BY <1>1, LoopKeeps DEF WaitEnds

LEMMA SnapshotTakenKeeps ==
    ASSUME FederationInv, SnapshotTaken
    PROVE  FederationInv'
<1>1. /\ phase' = "record" /\ answer' = world /\ world' = world /\ published' = published
      /\ known' = known /\ connected' = connected /\ generation' = generation /\ phase = "snapshot"
  BY DEF SnapshotTaken
<1>2. stream' # None => stream' \in Stream
  <2> SUFFICES ASSUME stream # None PROVE stream' \in Stream
    BY DEF SnapshotTaken
  <2>1. PICK yes \in BOOLEAN : yes = TRUE
    BY Zenon
  <2>2. stream' = [stream EXCEPT !.baselined = yes] /\ stream \in Stream
    BY <2>1 DEF FederationInv, Baselines, SnapshotTaken
  <2> QED
    BY <2>2 DEF Stream
<1>3. Baselines' /\ Connections'
  BY <1>1, <1>2 DEF FederationInv, Baselines, Connections, Compared
<1> QED
  BY <1>1, <1>3 DEF FederationInv, Phase

LEMMA RecordSuccessKeeps ==
    ASSUME FederationInv, RecordSuccess
    PROVE  /\ FederationInv'
           /\ published.connection # "live" => published'.generation > published.generation
<1>1. PICK next \in Nat : next = (IF connected THEN generation ELSE generation + 1) /\ (~connected => next > generation)
  BY DEF FederationInv, Connections
<1>2. phase = "record" /\ answer \in World /\ answer' = answer /\ world' = world /\ known' = answer.panes
  BY DEF FederationInv, RecordSuccess
<1>3. published' = [published EXCEPT !.connection = "live", !.generation = next, !.snapshot = answer]
  BY <1>1 DEF RecordSuccess
<1>4. /\ published' \in Published /\ published'.connection = "live" /\ published'.generation = next
      /\ published'.snapshot = answer
  BY <1>2, <1>3 DEF FederationInv, Published
<1>5. PICK yes \in BOOLEAN : yes = TRUE /\ connected' = yes
  BY Zenon DEF RecordSuccess
<1>6. generation' = next
  BY <1>1 DEF RecordSuccess
<1>7. phase' \in {"deadline", "resubscribe", "events"}
  BY DEF RecordSuccess
<1>8. phase' = "events" => stream # None /\ stream' = stream /\ stream.panes = answer.panes
  BY DEF RecordSuccess
<1>9. stream' # None => stream' = stream
  BY DEF RecordSuccess
<1>10. Baselines'
  BY <1>2, <1>4, <1>7, <1>8, <1>9 DEF FederationInv, Baselines, Compared
<1>11. Connections'
  BY <1>4, <1>6 DEF Connections
<1>12. published.connection # "live" => published'.generation > published.generation
  BY <1>1, <1>2, <1>4 DEF FederationInv, Connections
<1> QED
  BY <1>2, <1>4, <1>5, <1>7, <1>8, <1>10, <1>11, <1>12 DEF FederationInv, Phase, World

LEMMA SnapshotFailsKeeps ==
    ASSUME FederationInv, SnapshotFails
    PROVE  FederationInv' /\ published'.connection # "live"
<1>1. published' = [published EXCEPT !.mode = "polling", !.connection = "backoff"]
  BY DEF SnapshotFails
<1>2. /\ published' \in Published /\ published'.connection = "backoff"
      /\ published'.generation = published.generation
  BY <1>1 DEF FederationInv, Published
<1>3. PICK no \in BOOLEAN : no = FALSE /\ connected' = no
  BY Zenon DEF SnapshotFails
<1> QED
  BY <1>2, <1>3 DEF FederationInv, Baselines, Connections, SnapshotFails, Phase

LEMMA IncompatibleKeeps ==
    ASSUME FederationInv, SnapshotIncompatible
    PROVE  FederationInv' /\ published'.connection # "live"
<1>1. published' = [published EXCEPT !.connection = "incompatible"]
  BY DEF SnapshotIncompatible
<1>2. /\ published' \in Published /\ published'.connection = "incompatible"
      /\ published'.generation = published.generation
  BY <1>1 DEF FederationInv, Published
<1> QED
  BY <1>2 DEF FederationInv, Baselines, Connections, SnapshotIncompatible, Phase

LEMMA HalfReadKeeps ==
    ASSUME FederationInv, EventHalfRead
    PROVE  FederationInv'
<1>1. PICK yes \in BOOLEAN : yes = TRUE
  BY Zenon
<1>2. stream # None /\ stream \in Stream /\ stream' = [stream EXCEPT !.half = yes]
  BY <1>1 DEF FederationInv, Baselines, EventHalfRead
<1>3. /\ stream' \in Stream /\ stream'.pending = stream.pending /\ stream'.panes = stream.panes
      /\ stream'.baselined = stream.baselined
  BY <1>2 DEF Stream
<1>4. Baselines' /\ Connections'
  BY <1>2, <1>3 DEF FederationInv, Baselines, Connections, Compared, EventHalfRead
<1> QED
  BY <1>3, <1>4, NoneAssumption DEF FederationInv, EventHalfRead

LEMMA StreamFailsKeeps ==
    ASSUME FederationInv, StreamFails
    PROVE  FederationInv' /\ published'.connection = published.connection
<1>1. published' = [published EXCEPT !.mode = "polling"]
  BY DEF StreamFails, Mode
<1>2. /\ published' \in Published /\ published'.connection = published.connection
      /\ published'.generation = published.generation
  BY <1>1 DEF FederationInv, Published
<1> QED
  BY <1>2 DEF FederationInv, Baselines, Connections, StreamFails, Phase

LEMMA QuietKeeps ==
    ASSUME FederationInv, RefreshNow \/ TimePasses \/ Stop \/ UNCHANGED vars
    PROVE  FederationInv'
<1>1. CASE RefreshNow \/ TimePasses \/ UNCHANGED vars
  BY <1>1 DEF FederationInv, Baselines, Connections, Compared, RefreshNow, TimePasses, vars
<1>2. CASE Stop
  BY <1>2 DEF FederationInv, Baselines, Connections, Stop, Phase
<1> QED
  BY <1>1, <1>2

\* supervise_target, for any number of panes, changes, failures and reconnections: while it waits
\* on a stream that was open when its snapshot was taken, what it published is the session or the
\* stream has the news; and a connection that comes back is a new one.
THEOREM SnapshotsAlwaysTrue == Spec => SnapshotsAreTrue
<1>1. FederationInv /\ [Next]_vars => FederationInv'
  <2> SUFFICES ASSUME FederationInv, [Next]_vars PROVE FederationInv'
    OBVIOUS
  <2>1. CASE \E panes \in SUBSET Pane, about \in Pane \cup {None} : SessionChanges(panes, about)
    BY <2>1, SessionChangesKeeps
  <2>2. CASE RefreshNow \/ TimePasses \/ Stop \/ UNCHANGED vars
    BY <2>2, QuietKeeps
  <2>3. CASE Supervise
    BY <2>3, OpenStreamKeeps, InterruptedKeeps, SnapshotTakenKeeps, RecordSuccessKeeps, SnapshotFailsKeeps,
       IncompatibleKeeps, HalfReadKeeps, EventArrivesKeeps, StreamFailsKeeps, WaitEndsKeeps DEF Supervise
  <2> QED
    BY <2>1, <2>2, <2>3 DEF Next
<1>2. FederationInv => BaselinedStreamMissesNothing
  BY DEF FederationInv, Baselines, Compared, BaselinedStreamMissesNothing
<1>3. FederationInv /\ [Next]_vars =>
        [published.connection # "live" /\ published'.connection = "live"
             => published'.generation > published.generation]_vars
  <2> SUFFICES ASSUME FederationInv, Next, published.connection # "live", published'.connection = "live"
               PROVE  published'.generation > published.generation
    OBVIOUS
  <2>1. CASE RecordSuccess
    BY <2>1, RecordSuccessKeeps
  <2>2. CASE SnapshotFails
    BY <2>2, SnapshotFailsKeeps
  <2>3. CASE SnapshotIncompatible
    BY <2>3, IncompatibleKeeps
  <2>4. CASE OpenStream \/ StreamFails
    <3>1. PICK mode : published' = [published EXCEPT !.mode = mode]
      BY <2>4 DEF OpenStream, StreamFails, Mode
    <3> QED
      BY <3>1 DEF FederationInv, Published
  <2>5. CASE published' = published
    BY <2>5
  <2> QED
    BY <2>1, <2>2, <2>3, <2>4, <2>5
       DEF Next, Supervise, SessionChanges, RefreshNow, TimePasses, Stop, OpenStreamInterrupted, SnapshotTaken,
           EventHalfRead, EventArrives, WaitEnds
<1> QED
  BY <1>1, <1>2, <1>3, FederationStarts, PTL DEF Spec, SnapshotsAreTrue, ReconnectionIsNew
=============================================================================
