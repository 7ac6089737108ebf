--------------------------- MODULE ClientUploads ---------------------------
(***************************************************************************)
(* A selection of local files sent from the terminal frontend: one         *)
(* streaming task for each (ClientCommands::stream_file_upload), all of    *)
(* them sharing the window in front of one socket (UploadWindow), and the  *)
(* batch that waits for every file before it pastes the paths in the order *)
(* they were selected (send_local_files, settle_upload_batch).             *)
(*                                                                         *)
(* A chunk is one unit of the window, and of a file's length.              *)
(***************************************************************************)
EXTENDS Integers, Sequences, FiniteSets, SequencesExt

CONSTANTS
    Files,          \* the selection: positions 1 .. n
    Lengths,        \* the length each file had when it was inspected, in chunks
    Window          \* UPLOAD_WINDOW_BYTES

ASSUME UploadAssumption ==
    /\ IsFiniteSet(Files) /\ Files = 1..Cardinality(Files)
    /\ Lengths \in [Files -> Nat]
    /\ Window \in Nat \ {0}

VARIABLES
    pc,             \* per file: where its task is
    sent,           \* per file: chunks it has sent
    fired,          \* the tasks whose registered Notified has fired
    queue,          \* the commands channel
    queued,         \* UploadWindow.queued
    closed,         \* UploadWindow.closed
    got,            \* per file: chunks the daemon has relayed
    answers,        \* per file: what the daemon ruled, "taken" once the frontend has read it
    failures,       \* the UploadFailure channel
    pending,        \* App.pending_uploads
    batch,          \* App.upload_batches: [paths, failed, phase]
    pasted          \* the paths pasted when the batch is settled

tasks == <<pc, sent, fired>>
link == <<queue, queued, closed>>
remote == <<got, answers>>
frontend == <<failures, pending, batch, pasted>>
uploadVars == <<tasks, link, remote, frontend>>

Message(kind, f) == [kind |-> kind, file |-> f]
Units(m) == IF m.kind = "chunk" THEN 1 ELSE 0

UploadInit ==
    /\ pc = [f \in Files |-> "idle"] /\ sent = [f \in Files |-> 0] /\ fired = {}
    /\ queue = <<>> /\ queued = 0 /\ closed = FALSE
    /\ got = [f \in Files |-> 0] /\ answers = [f \in Files |-> "none"]
    /\ failures = {} /\ pending = {}
    /\ batch = [paths |-> {}, failed |-> <<>>, phase |-> "before"] /\ pasted = <<>>

\* ClientCommands::send: counted before it is queued.
Send(m) == queue' = Append(queue, m) /\ queued' = queued + Units(m)

-----------------------------------------------------------------------------
\* send_local_files, once inspect_local_file has passed every one of them.
SendLocalFiles ==
    /\ batch.phase = "before"
    /\ queue' = queue \o [f \in Files |-> Message("begin", f)]
    /\ pending' = Files
    /\ batch' = [batch EXCEPT !.phase = "open"]
    /\ pc' = [f \in Files |-> "read"]
    /\ UNCHANGED <<sent, fired, queued, closed, remote, failures, pasted>>

\* send_file reads: the end, an error, or a chunk; for that one room_to_send
\* registers its wait before it reads the window.
Read(f) ==
    /\ pc[f] = "read"
    /\ \/ pc' = [pc EXCEPT ![f] = "check"] /\ fired' = fired \ {f}
       \/ pc' = [pc EXCEPT ![f] = IF sent[f] = Lengths[f] THEN "finish" ELSE "cancel"] /\ UNCHANGED fired
       \/ pc' = [pc EXCEPT ![f] = "cancel"] /\ UNCHANGED fired
    /\ UNCHANGED <<sent, link, remote, frontend>>

\* room_to_send
CheckRoom(f) ==
    /\ pc[f] = "check"
    /\ pc' = [pc EXCEPT ![f] = IF closed THEN "cancel" ELSE IF queued < Window THEN "chunk" ELSE "full"]
    /\ UNCHANGED <<sent, fired, link, remote, frontend>>

Await(f) ==
    /\ \/ pc[f] = "full" /\ pc' = [pc EXCEPT ![f] = "await"] /\ UNCHANGED fired
       \/ pc[f] = "await" /\ f \in fired /\ pc' = [pc EXCEPT ![f] = "check"] /\ fired' = fired \ {f}
    /\ UNCHANGED <<sent, link, remote, frontend>>

\* A file that grew is not sent past what was offered.
SendChunk(f) ==
    /\ pc[f] = "chunk"
    /\ \/ /\ sent[f] = Lengths[f]
          /\ pc' = [pc EXCEPT ![f] = "cancel"] /\ UNCHANGED <<sent, queue, queued>>
       \/ /\ sent[f] < Lengths[f]
          /\ sent' = [sent EXCEPT ![f] = @ + 1]
          /\ Send(Message("chunk", f))
          /\ pc' = [pc EXCEPT ![f] = "read"]
    /\ UNCHANGED <<fired, closed, remote, frontend>>

FinishUpload(f) ==
    /\ pc[f] = "finish"
    /\ pc' = [pc EXCEPT ![f] = "done"]
    /\ Send(Message("finish", f))
    /\ UNCHANGED <<sent, fired, closed, remote, frontend>>

\* stream_file_upload: what did not finish is cancelled, and the frontend told.
CancelUpload(f) ==
    /\ pc[f] = "cancel"
    /\ pc' = [pc EXCEPT ![f] = "done"]
    /\ Send(Message("cancel", f))
    /\ failures' = failures \cup {f}
    /\ UNCHANGED <<sent, fired, closed, remote, pending, batch, pasted>>

Task(f) ==
    \/ Read(f) \/ CheckRoom(f) \/ Await(f) \/ SendChunk(f) \/ FinishUpload(f)
    \/ CancelUpload(f)

-----------------------------------------------------------------------------
\* Mutant of Waiting: the wait is registered after the window is read.
WaitingOnly == {f \in Files : pc[f] = "await"}

\* The tasks whose wait is registered: a notification is kept for no other.
Waiting == {f \in Files : pc[f] \in {"check", "full", "await"}}

\* The daemon relays what the socket took, and rules on the whole; a host may
\* refuse or be lost, and nothing is said of a transfer once it was ruled on.
DaemonRelays(m) ==
    LET says(kind) == answers' = [answers EXCEPT ![m.file] = kind]
    IN  \/ /\ answers[m.file] = "none"
           /\ \/ m.kind = "chunk" /\ got' = [got EXCEPT ![m.file] = @ + 1] /\ UNCHANGED answers
              \/ m.kind \in {"begin", "chunk", "finish"} /\ says("refused") /\ UNCHANGED got
              \/ m.kind \in {"chunk", "finish"} /\ says("interrupted") /\ UNCHANGED got
              \/ m.kind = "finish" /\ got[m.file] = Lengths[m.file] /\ says("complete") /\ UNCHANGED got
              \/ m.kind = "begin" /\ UNCHANGED remote
              \/ m.kind = "cancel" /\ says("taken") /\ UNCHANGED got
        \/ answers[m.file] # "none" /\ UNCHANGED remote

\* The sending task of Client::connect: UploadWindow::written frees the room
\* whether the socket took the message or not; without a socket it closes.
WriteCommand ==
    /\ queue # <<>> /\ ~closed
    /\ queue' = Tail(queue)
    /\ queued' = queued - Units(Head(queue))
    /\ \/ DaemonRelays(Head(queue)) /\ UNCHANGED closed
       \/ closed' = TRUE /\ UNCHANGED remote
    /\ fired' = IF Units(Head(queue)) > 0 \/ closed' THEN fired \cup Waiting ELSE fired
    /\ UNCHANGED <<pc, sent, frontend>>

-----------------------------------------------------------------------------
\* settled_batch: the paths by position, not by arrival.
InOrder(paths) == SetToSortSeq(paths, <)

\* settle_upload_batch
Settle(next) ==
    LET whole == Cardinality(next.paths) + Len(next.failed) >= Cardinality(Files)
    IN  /\ batch' = [next EXCEPT !.phase = IF whole THEN "settled" ELSE "open"]
        /\ pasted' = IF whole THEN InOrder(next.paths) ELSE pasted

\* Mutant of FailUpload: a transfer already answered for fails again.
FailUploadAgain(f) ==
    /\ pending' = pending \ {f}
    /\ IF batch.phase = "open" THEN Settle([batch EXCEPT !.failed = Append(@, f)])
                               ELSE UNCHANGED <<batch, pasted>>

\* fail_upload: of the task's failure and the daemon's refusal the first counts.
FailUpload(f) ==
    /\ pending' = pending \ {f}
    /\ IF f \in pending THEN Settle([batch EXCEPT !.failed = Append(@, f)])
                        ELSE UNCHANGED <<batch, pasted>>

\* run: a message of the UploadFailure channel.
UploadFailed(f) ==
    /\ f \in failures /\ failures' = failures \ {f}
    /\ FailUpload(f)
    /\ UNCHANGED <<tasks, link, remote>>

\* handle_daemon_event: an Error; UploadComplete; UploadInterrupted, which it ignores.
Answered(f) ==
    /\ answers[f] \in {"refused", "complete", "interrupted"}
    /\ answers' = [answers EXCEPT ![f] = IF @ = "interrupted" THEN "ignored" ELSE "taken"]
    /\ \/ answers[f] = "refused" /\ FailUpload(f)
       \/ /\ answers[f] = "complete" /\ f \in pending
          /\ pending' = pending \ {f}
          /\ Settle([batch EXCEPT !.paths = @ \cup {f}])
       \/ /\ answers[f] = "interrupted" \/ (answers[f] = "complete" /\ f \notin pending)
          /\ UNCHANGED <<pending, batch, pasted>>
    /\ UNCHANGED <<tasks, link, got, failures>>

UploadNext ==
    \/ SendLocalFiles \/ WriteCommand
    \/ \E f \in Files : Task(f) \/ UploadFailed(f) \/ Answered(f)

\* Every task runs, the socket is written, the frontend's loop takes what arrives.
Fairness ==
    /\ WF_uploadVars(WriteCommand)
    /\ \A f \in Files : WF_uploadVars(Task(f)) /\ WF_uploadVars(UploadFailed(f) \/ Answered(f))

UploadSpec == UploadInit /\ [][UploadNext]_uploadVars /\ Fairness

-----------------------------------------------------------------------------
Streaming(f) == pc[f] \notin {"idle", "done"}

\* A sender that found the window full is woken when it drains or when the
\* socket is gone: no streaming task waits for ever.
SendersFinish == \A f \in Files : Streaming(f) ~> ~Streaming(f)

\* What waits in memory is the window and at most a chunk for each other
\* task, whose check and send may fall between another's: never a whole file.
WindowHolds == queued <= Window + Cardinality(Files) - 1

\* The paths pasted are those of files the daemon verified whole, in the order
\* they were selected; each file is counted once, whichever of its task and
\* the daemon failed it, and one whose read stopped is never attested to.
PathsAreVerified ==
    /\ ToSet(batch.failed) \cap batch.paths = {}
    /\ \A f \in batch.paths : got[f] = Lengths[f] /\ sent[f] = Lengths[f]
    /\ batch.phase = "settled" =>
           /\ batch.paths \cup ToSet(batch.failed) = Files
           /\ pasted = InOrder(batch.paths)

\* The paths pasted are those of files the daemon verified whole, in the order they were
\* selected, and what waits in memory is never a whole file (settle_upload_batch, UploadWindow).
PastedIsVerified == PathsAreVerified /\ WindowHolds

Interrupted == closed \/ \E f \in Files : answers[f] \in {"interrupted", "ignored"}

\* Every file is answered for: the batch settles, or a transfer of it was
\* interrupted, or the connection is gone and the frontend with it.
BatchSettles == batch.phase = "open" ~> batch.phase # "open" \/ Interrupted

-----------------------------------------------------------------------------
(* Statements of the repository that the code does not keep *)

\* "A file that failed still has to settle its batch, or the files that did
\* arrive wait forever for one that never will."
FilesThatArrivedArePasted == batch.phase = "open" ~> batch.phase # "open" \/ closed
=============================================================================
