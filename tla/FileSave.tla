------------------------------ MODULE FileSave ------------------------------
(***************************************************************************)
(* Saving a file from a target onto this machine: the terminal frontend's  *)
(* receiver (src/file_save.rs, and the download messages and the save      *)
(* prompt of src/tui.rs), as the client of Downloads.                      *)
(*                                                                         *)
(* The frontend keeps the request it asked with and, once the offer came,  *)
(* the save it is writing to a temporary file.  The destination is one     *)
(* name, which another program may take at any moment.                     *)
(***************************************************************************)
EXTENDS Downloads

CONSTANTS Window    \* SAVE_WINDOW_CHUNKS

\* A window the daemon would clamp could never be used up.
ASSUME WindowAssumption == Window \in 1..MaxGrant /\ Window <= MaxOutstanding

VARIABLES
    saveRequest,  \* App.file_save_request
    save,         \* App.file_save: the save being written, or None
    disk,         \* what is at the destination: nothing, another program's
                  \* file, or what this frontend put there, the whole
                  \* verified file or something else
    refused       \* requests the daemon answered with an error

frontend == <<saveRequest, save, disk, refused>>
saveVars == <<vars, frontend>>

Save == [request : Request, length : 0..MaxLength, good : BOOLEAN,
         received : 0..MaxLength, outstanding : 0..Window]

SaveInit ==
    /\ Init
    /\ saveRequest = None
    /\ save = None
    /\ disk = "nothing"
    /\ refused = {}

\* The prompt: refused while a file is being written, otherwise a new request.
AskToSave ==
    /\ save = None
    /\ ClientBegins("read")
    /\ saveRequest' = issued + 1
    /\ UNCHANGED <<save, disk, refused>>

\* The prompt that sends a file from one host to another.
AskToCopy ==
    /\ ClientBegins("copy")
    /\ UNCHANGED frontend

\* cancel_file_save.
CancelSave ==
    /\ saveRequest # None
    /\ Ask(Cancel(saveRequest))
    /\ saveRequest' = None /\ save' = None
    /\ UNCHANGED <<connected, issued, daemon, outbox, disk, refused>>

Saving(r) == save # None /\ save.request = r

Message(type) == outbox # <<>> /\ Head(outbox).type = type
Reads == outbox' = Tail(outbox) /\ UNCHANGED <<connected, issued, daemon>>

\* DownloadOffer: for another request it is ignored; FileSave::begin refuses a
\* name that exists (or a directory that cannot be written), which cancels the
\* download; otherwise the window is opened.
TakeOffer ==
    LET offer == Head(outbox)
        r == offer.request
    IN  /\ Message("offer") /\ Reads
        /\ \/ /\ r # saveRequest
              /\ UNCHANGED <<asked, saveRequest, save>>
           \/ /\ r = saveRequest
              /\ Ask(Cancel(r))
              /\ saveRequest' = None
              /\ UNCHANGED save
           \/ /\ r = saveRequest /\ disk = "nothing"
              /\ Ask(Pull(r, Window))
              /\ save' = [request |-> r, length |-> offer.length, good |-> offer.good,
                          received |-> 0, outstanding |-> Window]
              /\ UNCHANGED saveRequest
        /\ UNCHANGED <<disk, refused>>

\* Mutant of TakeChunk: the window is opened again with every chunk.
TakeChunkEager ==
    LET r == Head(outbox).request
        received == save.received + 1
    IN  /\ Message("chunk") /\ Reads
        /\ Saving(r) /\ save.received < save.length
        /\ save' = [save EXCEPT !.received = received, !.outstanding = Window]
        /\ IF received < save.length THEN Ask(Pull(r, Window)) ELSE UNCHANGED asked
        /\ UNCHANGED <<saveRequest, disk, refused>>

\* Mutant of TakeChunk: the window is opened once and never again.
TakeChunkOnce ==
    LET r == Head(outbox).request
        received == save.received + 1
    IN  /\ Message("chunk") /\ Reads
        /\ Saving(r) /\ save.received < save.length
        /\ save' = [save EXCEPT !.received = received,
                                !.outstanding = IF @ = 0 THEN 0 ELSE @ - 1]
        /\ UNCHANGED <<asked, saveRequest, disk, refused>>

\* DownloadChunk through FileSave::chunk: written and counted, and the window
\* opened again once it is used up and bytes are still to come.  A chunk that
\* cannot be written, or that goes past the offer, ends the save.
TakeChunk ==
    LET r == Head(outbox).request
        received == save.received + 1
        outstanding == IF save.outstanding = 0 THEN 0 ELSE save.outstanding - 1
        more == received < save.length /\ outstanding = 0
    IN  /\ Message("chunk") /\ Reads
        /\ \/ /\ ~Saving(r)
              /\ UNCHANGED <<asked, saveRequest, save>>
           \/ /\ Saving(r) /\ save.received < save.length
              /\ save' = [save EXCEPT !.received = received,
                                      !.outstanding = IF more THEN Window ELSE outstanding]
              /\ IF more THEN Ask(Pull(r, Window)) ELSE UNCHANGED asked
              /\ UNCHANGED saveRequest
           \/ /\ Saving(r)
              /\ Ask(Cancel(r))
              /\ save' = None /\ saveRequest' = None
        /\ UNCHANGED <<disk, refused>>

\* Mutant of TakeFinished: the file is put in place whatever arrived.
TakeFinishedUnchecked ==
    /\ Message("finished") /\ Reads
    /\ Saving(Head(outbox).request)
    /\ save' = None /\ saveRequest' = None
    /\ disk' = IF disk # "nothing" THEN disk
               ELSE IF save.received = save.length /\ save.good THEN "whole" ELSE "broken"
    /\ UNCHANGED <<asked, refused>>

\* Mutant of TakeFinished: the file is renamed over whatever is there.
TakeFinishedClobbering ==
    /\ Message("finished") /\ Reads
    /\ Saving(Head(outbox).request)
    /\ save' = None /\ saveRequest' = None
    /\ disk' = IF save.received = save.length /\ save.good THEN "whole" ELSE disk
    /\ UNCHANGED <<asked, refused>>

\* DownloadFinished: App.file_save is taken whichever request it was for; if
\* it was this one FileSave::finish checks length and digest and renames the
\* temporary file into place unless the name is taken by now.
TakeFinished ==
    LET mine == Saving(Head(outbox).request)
    IN  /\ Message("finished") /\ Reads
        /\ save' = None
        /\ saveRequest' = IF mine THEN None ELSE saveRequest
        /\ \/ /\ mine /\ save.received = save.length /\ save.good /\ disk = "nothing"
              /\ disk' = "whole"
           \/ UNCHANGED disk    \* a check, the flush or the rename failed
        /\ UNCHANGED <<asked, refused>>

\* ServerMessage::Error: shown, and only uploads, operations and plugin
\* catalogs are ended by it.
TakeError ==
    /\ Message("error") /\ Reads
    /\ refused' = refused \cup ({Head(outbox).request} \ {None})
    /\ UNCHANGED <<asked, saveRequest, save, disk>>

\* UploadComplete of a copy: the frontend keeps nothing of it.
TakeComplete ==
    /\ Message("complete") /\ Reads
    /\ UNCHANGED <<asked, frontend>>

\* The frontend exits: its connection closes and an unfinished temporary file
\* goes with it.
Quits ==
    /\ Disconnected
    /\ saveRequest' = None /\ save' = None
    /\ UNCHANGED <<disk, refused>>

OtherProgramWrites ==
    /\ disk = "nothing"
    /\ disk' = "other"
    /\ UNCHANGED <<vars, saveRequest, save, refused>>

ReadMessage == TakeOffer \/ TakeChunk \/ TakeFinished \/ TakeError \/ TakeComplete

SaveNext ==
    \/ AskToSave \/ AskToCopy \/ CancelSave \/ ReadMessage \/ Quits \/ OtherProgramWrites
    \/ DaemonStep /\ UNCHANGED frontend

SaveSpec == SaveInit /\ [][SaveNext]_saveVars

\* The frontend reads what it is sent, the loop handles what it is asked, and
\* a host that described a file goes on answering reads (with bytes or with
\* an end).
SaveFairSpec ==
    /\ SaveSpec
    /\ WF_saveVars(ReadMessage)
    /\ WF_saveVars(LoopStep /\ UNCHANGED frontend)
    /\ \A r \in Request :
          /\ WF_saveVars(TakeEnded(r) /\ UNCHANGED frontend)
          /\ WF_saveVars(TaskStep(r) /\ UNCHANGED frontend)

-----------------------------------------------------------------------------
(* Properties *)

\* Every variable of the frontend has its type.
SaveTypeOK ==
    /\ TypeOK
    /\ saveRequest \in Request \cup {None}
    /\ save \in Save \cup {None}
    /\ disk \in {"nothing", "other", "whole", "broken"}
    /\ refused \subseteq Request

\* Nothing is at the destination of a save but a whole, verified file: an
\* interrupted, cancelled, replaced or refused transfer leaves nothing that
\* looks complete (the first rule of file_save.rs).
OnlyWholeFiles == disk # "broken"

\* A file another program put there is never written over.
NothingClobbered == [][disk # "nothing" => disk' = disk]_saveVars

\* What the daemon may still send for a save, and what it has sent and the
\* frontend has not read, is within the window the frontend opened, so the
\* unbounded queue between them is bounded by it.
WithinWindow ==
    save # None =>
        PulledBy(save.request, asked) + Accepted(save.request) + InFlight(save.request)
            <= save.outstanding

\* The daemon sends the bytes it offered and then says so: what the frontend has
\* and what is on its way to it never exceed the offer, and make it up exactly
\* once the end has been sent.
ChunksWithinOffer ==
    save # None =>
        LET r == save.request
            sent == save.received + InFlight(r)
        IN  /\ sent <= save.length
            /\ Finished(r) \in ToSet(outbox) => sent = save.length

\* A save that began comes to an end: the window never leaves both ends
\* waiting for each other.  The exception is a save the daemon refused.
SaveEnds ==
    \A r \in Request :
        Saving(r) ~> (save = None \/ r \in refused)

-----------------------------------------------------------------------------
(* Statements of the repository that the code does not keep: TLC finds a    *)
(* counterexample to each, which README.md describes.                       *)

\* "A refusal ends whatever asked for it" (tui.rs, ServerMessage::Error).
RefusalEndsTheSave == saveRequest \notin refused

\* "One at a time, and said so rather than silently replacing a transfer
\* somebody is waiting on" (tui.rs, the save prompt).
OneAtATime == [][saveRequest # None => saveRequest' \in {saveRequest, None}]_saveVars
=============================================================================
