----------------------------- MODULE Downloads -----------------------------
(***************************************************************************)
(* Reading a file off a target for a client, at the rate the client pulls  *)
(* it (src/daemon/server.rs: download, begin_download, pull_download,      *)
(* stop_download and the inputs around them).                              *)
(*                                                                         *)
(* A download is a task of its own that writes straight to the client's    *)
(* outbox, an unbounded queue, and is paced by grants it receives on a     *)
(* channel.  The event loop only starts it, passes grants on, stops it and *)
(* hears of its end through the same queue as everything else, so all of   *)
(* these cross each other.  A copy from one host to another is the same    *)
(* kind of task in the same table, with nothing to pace.                   *)
(*                                                                         *)
(* A file's length is counted in reads, and whether its bytes are the ones *)
(* its digest was computed over is one flag: a file may change between the *)
(* two passes the host makes over it.  The clients that drive this are in  *)
(* FileSave and PageFetch, which complete it to a specification.           *)
(***************************************************************************)
EXTENDS Naturals, Sequences, FiniteSets, SequencesExt

CONSTANTS
    None,
    MaxRequests,     \* bound: requests a connection numbers
    MaxLength,       \* bound: the longest file, in reads
    MaxOutstanding,  \* MAX_OUTSTANDING_CHUNKS
    MaxGrant,        \* the largest grant a client writes
    MaxQueue         \* bound: messages a client, or grants a task, has unhandled

ASSUME BoundsAssumption ==
    /\ MaxRequests \in Nat \ {0} /\ MaxLength \in Nat \ {0}
    /\ MaxOutstanding \in Nat \ {0} /\ MaxGrant \in Nat \ {0}
    /\ MaxQueue \in Nat \ {0}

Request == 1..MaxRequests

VARIABLES
    connected,  \* the connection is open (Daemon.outboxes has the client)
    issued,     \* the highest request number the client has used
    asked,      \* what the client sent and the loop has not handled
    downloads,  \* requests in Daemon.downloads
    task,       \* task[r]: the running task of a request, or None
    ended,      \* requests whose DownloadEnded input is still queued
    outbox      \* messages to the client, not read by it yet

daemon == <<downloads, task, ended>>
vars == <<connected, issued, asked, downloads, task, ended, outbox>>

Task == [kind : {"read", "copy"}, phase : {"opening", "moving"}, length : 0..MaxLength,
         good : BOOLEAN, sent : 0..MaxLength, credit : 0..MaxOutstanding,
         grants : Seq(1..MaxGrant), stopped : BOOLEAN]

\* None stands for every absent value, so it is none of the present ones.
ASSUME NoneAssumption == None \notin Request /\ None \notin Task

Begin(r, kind) == [type |-> "begin", request |-> r, kind |-> kind]
Pull(r, n) == [type |-> "pull", request |-> r, chunks |-> n]
Cancel(r) == [type |-> "cancel", request |-> r]
Offer(r, length, good) == [type |-> "offer", request |-> r, length |-> length, good |-> good]
Chunk(r) == [type |-> "chunk", request |-> r]
Finished(r) == [type |-> "finished", request |-> r]
Complete(r, good) == [type |-> "complete", request |-> r, good |-> good]
Error(r) == [type |-> "error", request |-> r]

\* What the loop or a task tells the client; a closed connection has no outbox.
Told(m) == outbox' = IF connected THEN Append(outbox, m) ELSE outbox

Init ==
    /\ connected = TRUE
    /\ issued = 0
    /\ asked = <<>>
    /\ downloads = {}
    /\ task = [r \in Request |-> None]
    /\ ended = {}
    /\ outbox = <<>>

-----------------------------------------------------------------------------
(* The event loop *)

Spawned(kind) == [kind |-> kind, phase |-> "opening", length |-> 0, good |-> TRUE,
                  sent |-> 0, credit |-> 0, grants |-> <<>>, stopped |-> FALSE]

\* begin_download and begin_between: refused without the control lease (an
\* error that names no request), refused when the pane's target is not
\* configured or the request is already reading, otherwise a task is spawned.
TakeBegin ==
    /\ asked # <<>> /\ Head(asked).type = "begin"
    /\ asked' = Tail(asked)
    /\ LET r == Head(asked).request
       IN  \/ /\ Told(Error(None))
              /\ UNCHANGED <<downloads, task>>
           \/ /\ Told(Error(r))
              /\ UNCHANGED <<downloads, task>>
           \/ /\ r \notin downloads
              /\ downloads' = downloads \cup {r}
              /\ task' = [task EXCEPT ![r] = Spawned(Head(asked).kind)]
              /\ UNCHANGED outbox
    /\ UNCHANGED <<connected, issued, ended>>

\* pull_download: the grant is passed on if the request is in the table, even
\* if its task has ended and can no longer hear it.
TakePull ==
    /\ asked # <<>> /\ Head(asked).type = "pull"
    /\ asked' = Tail(asked)
    /\ LET r == Head(asked).request
       IN  IF r \in downloads
           THEN /\ task[r] # None => Len(task[r].grants) < MaxQueue
                /\ task' = IF task[r] = None THEN task
                           ELSE [task EXCEPT ![r].grants = Append(@, Head(asked).chunks)]
                /\ UNCHANGED outbox
           ELSE /\ Told(Error(r))
                /\ UNCHANGED task
    /\ UNCHANGED <<connected, issued, downloads, ended>>

\* Download::stop for every request of R.  An aborted task stops at its next
\* suspension, so it may still do what it was doing.
Stop(R) ==
    /\ downloads' = downloads \ R
    /\ task' = [r \in Request |-> IF r \in R /\ task[r] # None
                                  THEN [task[r] EXCEPT !.stopped = TRUE] ELSE task[r]]

\* download.cancel and upload.cancel: the table forgets the request, and
\* nobody is told.
TakeCancel ==
    /\ asked # <<>> /\ Head(asked).type = "cancel"
    /\ asked' = Tail(asked)
    /\ Stop({Head(asked).request} \cap downloads)
    /\ UNCHANGED <<connected, issued, ended, outbox>>

\* Input::DownloadEnded.
TakeEnded(r) ==
    /\ r \in ended
    /\ ended' = ended \ {r}
    /\ downloads' = downloads \ {r}
    /\ UNCHANGED <<connected, issued, asked, task, outbox>>

\* Mutant of Disconnected: downloads are left to end by themselves.
DisconnectedAlone ==
    /\ connected
    /\ connected' = FALSE
    /\ asked' = <<>> /\ outbox' = <<>>
    /\ UNCHANGED <<issued, downloads, task, ended>>

\* Input::Disconnected: a download does not outlive its client.
Disconnected ==
    /\ connected
    /\ connected' = FALSE
    /\ asked' = <<>> /\ outbox' = <<>>
    /\ Stop(downloads)
    /\ UNCHANGED <<issued, ended>>

-----------------------------------------------------------------------------
(* A task *)

\* The task returns, after its last message, and reports its end.
Returns(r) ==
    /\ task' = [task EXCEPT ![r] = None]
    /\ ended' = ended \cup {r}

Running(r, phase) == task[r] # None /\ task[r].phase = phase

\* open_source: the host describes the file, or cannot.  A copy larger than
\* the transfer ceiling is refused here too.
OpenSource(r) ==
    /\ Running(r, "opening")
    /\ \/ \E length \in 0..MaxLength, good \in BOOLEAN :
             /\ task' = [task EXCEPT ![r].phase = "moving", ![r].length = length,
                                     ![r].good = good]
             /\ IF task[r].kind = "read" THEN Told(Offer(r, length, good))
                ELSE UNCHANGED outbox
             /\ UNCHANGED ended
       \/ /\ Told(Error(r))
          /\ Returns(r)
    /\ UNCHANGED <<connected, issued, asked, downloads>>

\* The task is out of credit and takes one grant, of which it accepts at most
\* MAX_OUTSTANDING_CHUNKS.
ReceiveGrant(r) ==
    /\ Running(r, "moving") /\ task[r].kind = "read"
    /\ task[r].sent < task[r].length /\ task[r].credit = 0 /\ task[r].grants # <<>>
    /\ LET n == Head(task[r].grants)
       IN  task' = [task EXCEPT ![r].credit = IF n < MaxOutstanding THEN n ELSE MaxOutstanding,
                                ![r].grants = Tail(@)]
    /\ UNCHANGED <<connected, issued, asked, downloads, ended, outbox>>

\* Mutant of ReadChunk: the loop reads until the host has nothing left, not
\* until the length it offered.
ReadChunkOverrun(r) ==
    /\ Running(r, "moving") /\ task[r].kind = "read"
    /\ task[r].credit > 0 /\ connected
    /\ Told(Chunk(r))
    /\ task' = [task EXCEPT ![r].sent = IF @ < task[r].length THEN @ + 1 ELSE @,
                            ![r].credit = @ - 1]
    /\ UNCHANGED <<connected, issued, asked, downloads, ended>>

\* One read, sent on; or the host stops short, or the client stopped
\* listening, and the task ends with an error.
ReadChunk(r) ==
    /\ Running(r, "moving") /\ task[r].kind = "read"
    /\ task[r].sent < task[r].length /\ task[r].credit > 0
    /\ \/ /\ connected
          /\ Told(Chunk(r))
          /\ task' = [task EXCEPT ![r].sent = @ + 1, ![r].credit = @ - 1]
          /\ UNCHANGED ended
       \/ /\ Told(Error(r))
          /\ Returns(r)
    /\ UNCHANGED <<connected, issued, asked, downloads>>

\* Mutant of SendFinished: the end is not reported to the loop.
SendFinishedOnly(r) ==
    /\ Running(r, "moving") /\ task[r].kind = "read"
    /\ task[r].sent = task[r].length
    /\ Told(Finished(r))
    /\ task' = [task EXCEPT ![r] = None]
    /\ UNCHANGED <<connected, issued, asked, downloads, ended>>

SendFinished(r) ==
    /\ Running(r, "moving") /\ task[r].kind = "read"
    /\ task[r].sent = task[r].length
    /\ Told(Finished(r))
    /\ Returns(r)
    /\ UNCHANGED <<connected, issued, asked, downloads>>

\* between and accept_copy: a copy is kept only if both hosts' digests agree;
\* one that stopped short or differs is discarded and reported.
CopyEnds(r) ==
    /\ Running(r, "moving") /\ task[r].kind = "copy"
    /\ \/ task[r].good /\ Told(Complete(r, TRUE))
       \/ Told(Error(r))
    /\ Returns(r)
    /\ UNCHANGED <<connected, issued, asked, downloads>>

\* A task that was stopped is dropped where it is suspended.
Dropped(r) ==
    /\ task[r] # None /\ task[r].stopped
    /\ task' = [task EXCEPT ![r] = None]
    /\ UNCHANGED <<connected, issued, asked, downloads, ended, outbox>>

TaskStep(r) ==
    \/ OpenSource(r) \/ ReceiveGrant(r) \/ ReadChunk(r) \/ SendFinished(r)
    \/ CopyEnds(r) \/ Dropped(r)

LoopStep == TakeBegin \/ TakePull \/ TakeCancel \/ \E r \in Request : TakeEnded(r)

DaemonStep == LoopStep \/ \E r \in Request : TaskStep(r)

-----------------------------------------------------------------------------
(* A client's side of the connection *)

Ask(m) ==
    /\ connected /\ Len(asked) < MaxQueue
    /\ asked' = Append(asked, m)

\* Client::begin_download and transfer_between: the next request number.
ClientBegins(kind) ==
    /\ issued < MaxRequests
    /\ issued' = issued + 1
    /\ Ask(Begin(issued + 1, kind))
    /\ UNCHANGED <<connected, daemon, outbox>>

-----------------------------------------------------------------------------
(* Properties *)

\* Chunks of r: asked for in the commands s, granted to its task and not sent,
\* sent and not read.
Sum(f(_), s) == FoldLeft(LAMBDA total, m : total + f(m), 0, s)
PulledBy(r, s) == Sum(LAMBDA m : IF m.type = "pull" /\ m.request = r THEN m.chunks ELSE 0, s)
Accepted(r) == IF task[r] = None THEN 0 ELSE task[r].credit + Sum(LAMBDA n : n, task[r].grants)
InFlight(r) == Len(SelectSeq(outbox, LAMBDA m : m.type = "chunk" /\ m.request = r))

\* Every variable has the type the daemon declares for it; in particular a
\* task never holds more credit than MAX_OUTSTANDING_CHUNKS.
TypeOK ==
    /\ connected \in BOOLEAN
    /\ issued \in 0..MaxRequests
    /\ downloads \subseteq Request /\ ended \subseteq Request
    /\ task \in [Request -> Task \cup {None}]
    /\ \A m \in ToSet(asked) : m.request \in Request
    /\ \A m \in ToSet(outbox) : m.request \in Request \cup {None}

\* The table and the tasks agree: what is in the table is running or its end
\* is on the way, and what runs outside the table was stopped.
TableMatchesTasks ==
    \A r \in Request :
        /\ r \in downloads => task[r] # None \/ r \in ended
        /\ task[r] # None /\ r \notin downloads => task[r].stopped

\* Once a client has gone, everything it was reading goes too.
GoneWithItsClient == ~connected ~> (downloads = {} /\ \A r \in Request : task[r] = None)
=============================================================================
