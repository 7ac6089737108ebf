----------------------------- MODULE HostStaging -----------------------------
(***************************************************************************)
(* One payload staged on a host: a script run through ssh (or the same     *)
(* steps on this machine) makes a private directory, copies what arrives   *)
(* on its input into the file and prints a receipt of the whole file.  A   *)
(* command of the script may fail, which ends it (set -e) without a        *)
(* receipt, and an attempt may be cut off anywhere; one that was           *)
(* interrupted with a receipt is followed by another that asks how much    *)
(* the host holds and appends the rest.                                    *)
(***************************************************************************)
EXTENDS Naturals, Sequences, FiniteSets

CONSTANTS
    PayloadLength,  \* bytes of the payload, 1 .. PayloadLength
    MaxAttempts,    \* named bound: attempts at one transfer
    Absent

Attempts == 1 .. MaxAttempts

\* What a receipt may say, and what an attempt may come to.
Receipts == [bytes : Nat, digest : Seq(Nat)]
Outcomes == {"complete", "interrupted", "refused", "error"}

\* Absent stands for a receipt and an outcome that are not there yet.
ASSUME StagingAssumption ==
    /\ PayloadLength \in Nat /\ MaxAttempts \in Nat \ {0}
    /\ Absent \notin Receipts /\ Absent \notin Outcomes

VARIABLES
    kind,       \* "media" (upload_media), "stream" (remote_attempt), "local" (local_attempt)
    dir,        \* whether the staging directory exists
    file,       \* what the staged file holds
    script,     \* per attempt, its script on the host: [phase, made, size]
    pipe,       \* per attempt, what is on its way to the script; whether this end closed it, and whether the other is gone
    tried,      \* the attempt that runs, or ran last
    phase,      \* of that attempt: "idle", "asking", "copying", "receipt", "ended"
    handed, from,   \* bytes handed to ssh, and the offset this attempt began at
    failure,    \* a failure moving the bytes
    receipt,    \* Absent, or [bytes, digest], the digest being what the file held
    outcome,    \* Absent, "complete", "interrupted", "refused", or "error"
    known,      \* whether a receipt told where the payload is
    cut,        \* whether some attempt lost its connection, its time or a command on the host (history)
    altered     \* whether something else on the host changed the file (history)
staged == <<dir, file, script>>
attemptState == <<tried, phase, handed, from, failure, receipt>>
stagingVars == <<kind, staged, pipe, attemptState, outcome, known, cut, altered>>

Payload == [i \in 1 .. PayloadLength |-> i]
Idle == [phase |-> "none", at |-> 0, size |-> 0]

-----------------------------------------------------------------------------
(* The scripts on the host *)

\* UPLOAD_SCRIPT reads the name and makes the directory; RESUME_SCRIPT wants the file to exist.
ScriptStages(a) ==
    /\ script[a].phase = "read"
    /\ IF a = 1
       THEN /\ dir' = TRUE /\ file' = <<>>
            /\ script' = [script EXCEPT ![a] = [phase |-> "copy", at |-> 0, size |-> 0]]
       ELSE /\ script' = [script EXCEPT ![a].phase = IF dir THEN "append" ELSE "exit"]
            /\ UNCHANGED <<dir, file>>
    /\ UNCHANGED <<kind, pipe, attemptState, outcome, known, cut, altered>>

\* cat writes where it is (>) or at the end (>>).
Put(s, at, b) == IF at < Len(s) THEN [s EXCEPT ![at + 1] = b] ELSE Append(s, b)
ScriptCopies(a) ==
    /\ script[a].phase \in {"copy", "append"} /\ pipe[a].bytes # <<>>
    /\ pipe' = [pipe EXCEPT ![a].bytes = Tail(@)]
    /\ file' = IF ~dir THEN file
               ELSE IF script[a].phase = "copy" THEN Put(file, script[a].at, Head(pipe[a].bytes))
               ELSE Append(file, Head(pipe[a].bytes))
    /\ script' = [script EXCEPT ![a].at = @ + 1]
    /\ UNCHANGED <<kind, dir, attemptState, outcome, known, cut, altered>>
ScriptMeasures(a) ==
    /\ script[a].phase \in {"copy", "append"} /\ pipe[a].bytes = <<>> /\ pipe[a].closed
    /\ script' = [script EXCEPT ![a] = IF dir THEN [@ EXCEPT !.phase = "digest", !.size = Len(file)]
                                       ELSE [@ EXCEPT !.phase = "exit"]]
    /\ UNCHANGED <<kind, dir, file, pipe, attemptState, outcome, known, cut, altered>>
\* The digest is of what the file holds by then; the receipt goes out unless nobody is there.
ScriptReports(a) ==
    /\ script[a].phase = "digest"
    /\ script' = [script EXCEPT ![a].phase = "exit"]
    /\ receipt' = IF a = tried /\ phase = "receipt" /\ ~pipe[a].lost
                  THEN [bytes |-> script[a].size, digest |-> file] ELSE receipt
    /\ UNCHANGED <<kind, dir, file, pipe, tried, phase, handed, from, failure, outcome, known, cut, altered>>

\* A command of the script fails: mktemp, cat (the disk is full, the file cannot be opened), wc
\* or the digest, whose empty field no receipt may have.  Nothing is removed and nothing is
\* reported; what is still sent finds nobody.  On this machine the directory or the file cannot be
\* opened, or it cannot be read back (a write that fails is WriteFails).
ScriptFails(a) ==
    /\ script[a].phase \in {"read", "copy", "append", "digest"}
    /\ kind = "local" => script[a].phase = "digest" \/ (script[a].at = 0 /\ pipe[a].bytes = <<>>)
    /\ script' = [script EXCEPT ![a].phase = "exit"]
    /\ pipe' = [pipe EXCEPT ![a] = [bytes |-> <<>>, closed |-> TRUE, lost |-> TRUE]]
    /\ cut' = TRUE
    /\ UNCHANGED <<kind, dir, file, attemptState, outcome, known, altered>>

-----------------------------------------------------------------------------
(* An attempt *)

\* Mutant of Offset: the offset is what this end remembers having sent.
OffsetRemembered == handed

\* staged_bytes: the offset comes from the file.
Offset == Len(file)

Opened(a) == /\ script' = [script EXCEPT ![a].phase = "read"]
             /\ pipe' = [pipe EXCEPT ![a] = [bytes |-> <<>>, closed |-> FALSE, lost |-> FALSE]]

\* A fresh transfer, or one that resumes after an interruption whose receipt said where it is.
Start ==
    /\ phase = "idle" \/ (phase = "ended" /\ outcome = "interrupted" /\ tried < MaxAttempts)
    /\ tried' = tried + 1 /\ Opened(tried + 1)
    /\ from' = IF tried > 0 THEN Offset ELSE Absent
    /\ handed' = IF tried > 0 THEN Offset ELSE 0
    /\ phase' = "copying" /\ failure' = FALSE /\ receipt' = Absent /\ outcome' = Absent
    /\ UNCHANGED <<kind, dir, file, known, cut, altered>>

\* The relay reads a byte of the source and hands it to ssh.
SendByte ==
    /\ phase = "copying" /\ handed < PayloadLength
    /\ handed' = handed + 1
    /\ IF pipe[tried].lost THEN failure' = TRUE /\ phase' = "receipt" /\ UNCHANGED pipe
       ELSE /\ pipe' = [pipe EXCEPT ![tried].bytes = Append(@, handed + 1)]
            /\ UNCHANGED <<failure, phase>>
    /\ UNCHANGED <<kind, staged, tried, from, receipt, outcome, known, cut, altered>>
\* The source ended, or failed: the input is closed and the exchange is finished.
SourceEnds ==
    /\ phase = "copying"
    /\ kind = "media" => handed = PayloadLength
    /\ failure' \in IF handed = PayloadLength THEN {FALSE} ELSE BOOLEAN
    /\ pipe' = [pipe EXCEPT ![tried].closed = TRUE]
    /\ phase' = "receipt"
    /\ UNCHANGED <<kind, staged, tried, handed, from, receipt, outcome, known, cut, altered>>

\* The connection is lost: bytes on their way may be lost with it, and the script reads the end.
ConnectionLost ==
    /\ kind # "local" /\ phase \in {"copying", "receipt"} /\ ~pipe[tried].lost
    /\ \E k \in 0 .. Len(pipe[tried].bytes) :
         pipe' = [pipe EXCEPT ![tried] = [bytes |-> SubSeq(@.bytes, 1, k), closed |-> TRUE, lost |-> TRUE]]
    /\ script' = [script EXCEPT ![tried].phase = IF @ = "read" THEN "exit" ELSE @]
    /\ cut' = TRUE
    /\ UNCHANGED <<kind, dir, file, attemptState, outcome, known, altered>>

\* A local write stops part way through what was read from the source (a full disk).
WriteFails ==
    /\ kind = "local" /\ phase = "copying" /\ handed < PayloadLength /\ ~pipe[tried].lost
    /\ pipe' = [pipe EXCEPT ![tried].bytes = Append(@, handed + 1), ![tried].closed = TRUE]
    /\ failure' = TRUE /\ phase' = "receipt"
    /\ UNCHANGED <<kind, staged, tried, handed, from, receipt, outcome, known, cut, altered>>

\* Something else on the host writes to the staged file.
HostAlters ==
    /\ dir /\ ~altered /\ phase \in {"copying", "receipt"}
    /\ file' = Append(file, 0) /\ altered' = TRUE
    /\ UNCHANGED <<kind, dir, script, pipe, attemptState, outcome, known, cut>>

-----------------------------------------------------------------------------
(* What an attempt comes to *)

\* discard_upload, remove_remote_upload: best effort.
Discarded == /\ dir' \in IF kind = "local" THEN {FALSE} ELSE {FALSE, dir}
             /\ UNCHANGED file

\* Mutant of Judged: a failure moving the bytes is an error whatever the receipt says.
JudgedHarshly ==
    IF failure \/ receipt = Absent THEN "error"
    ELSE IF kind = "media" THEN (IF receipt.bytes = PayloadLength /\ receipt.digest = Payload THEN "complete" ELSE "refused")
    ELSE IF receipt.bytes < PayloadLength THEN "interrupted"
    ELSE IF receipt.bytes > PayloadLength THEN "refused"
    ELSE "complete"

\* remote_attempt and finish_attempt, or upload_media: the receipt is what counts.
Judged ==
    IF receipt = Absent THEN "error"
    ELSE IF kind = "media" THEN (IF receipt.bytes = PayloadLength /\ receipt.digest = Payload THEN "complete" ELSE "refused")
    ELSE IF receipt.bytes < PayloadLength THEN "interrupted"
    ELSE IF receipt.bytes > PayloadLength THEN "refused"
    ELSE "complete"

\* local_attempt: nothing was stored and the bytes failed to move.
NothingStored == kind = "local" /\ failure /\ receipt # Absent /\ receipt.bytes = 0

Finish ==
    /\ phase = "receipt" /\ (receipt # Absent \/ script[tried].phase = "exit" \/ pipe[tried].lost)
    /\ phase' = "ended"
    /\ outcome' = IF NothingStored THEN "error" ELSE Judged
    /\ IF NothingStored \/ outcome' = "refused" THEN Discarded ELSE UNCHANGED <<dir, file>>
    /\ known' = (known \/ outcome' \in {"interrupted", "complete"})
    /\ UNCHANGED <<kind, script, pipe, tried, handed, from, failure, receipt, cut, altered>>

\* The digest of a complete transfer is compared with what the sender attested to.
Compare ==
    /\ phase = "ended" /\ outcome = "complete" /\ receipt.digest # Payload
    /\ outcome' = "refused" /\ Discarded
    /\ UNCHANGED <<kind, script, pipe, attemptState, known, cut, altered>>

\* upload_media has command_timeout_seconds: the future is dropped and ssh is killed.
TimesOut ==
    /\ kind = "media" /\ phase \in {"copying", "receipt"}
    /\ phase' = "ended" /\ outcome' = "error" /\ cut' = TRUE
    /\ pipe' = [pipe EXCEPT ![tried].closed = TRUE, ![tried].lost = TRUE]
    /\ UNCHANGED <<kind, staged, tried, handed, from, failure, receipt, known, altered>>

StagingInit ==
    /\ kind \in {"media", "stream", "local"}
    /\ dir = FALSE /\ file = <<>> /\ script = [a \in Attempts |-> Idle]
    /\ pipe = [a \in Attempts |-> [bytes |-> <<>>, closed |-> FALSE, lost |-> FALSE]]
    /\ tried = 0 /\ phase = "idle" /\ handed = 0 /\ from = Absent /\ failure = FALSE /\ receipt = Absent
    /\ outcome = Absent /\ known = FALSE /\ cut = FALSE /\ altered = FALSE

StagingNext ==
    \/ Start \/ SendByte \/ SourceEnds \/ ConnectionLost \/ WriteFails \/ HostAlters \/ Finish \/ Compare \/ TimesOut
    \/ \E a \in Attempts : ScriptStages(a) \/ ScriptCopies(a) \/ ScriptMeasures(a) \/ ScriptReports(a) \/ ScriptFails(a)

StagingSpec == StagingInit /\ [][StagingNext]_stagingVars

-----------------------------------------------------------------------------
(* Properties *)

Over == phase = "ended" /\ ~(outcome = "complete" /\ receipt.digest # Payload)

\* While no connection was lost, no time ran out, no command failed on the host and nothing else
\* wrote, what an attempt leaves there is what it returned the place of: an interruption what its
\* receipt says, whatever failed at the sender's end (remote_attempt keeps the receipt of a failed
\* copy, local_attempt removes an empty file).  When one of these did happen, only a first
\* attempt leaves what nobody can name.
NamedUnlessCut ==
    Over /\ ~altered /\ dir =>
        /\ ~cut => outcome \in {"complete", "interrupted"}
        /\ known \/ (cut /\ tried = 1)

\* A transfer that is resumed is put together from the bytes the host holds, however many attempts
\* it took, wherever each of them stopped and whichever command of it failed: what the host holds
\* is a beginning of the payload, the transfer is never refused for what the others left, and what
\* is complete is the payload (STAGED_SIZE_SCRIPT, RESUME_SCRIPT, finish_attempt).
ResumedIsWhole ==
    ~altered =>
        /\ Len(file) <= PayloadLength /\ \A i \in 1..Len(file) : file[i] = Payload[i]
        /\ outcome # "refused" /\ (outcome = "complete" => file = Payload)

\* An attempt that lost neither its connection, nor its time, nor a command leaves on the host only
\* what it returned the place of, and whatever was lost, the host holds a beginning of the payload
\* from which a resumed transfer is put together (remote_attempt, STAGED_SIZE_SCRIPT, finish_attempt).
StagingIsTruthful == NamedUnlessCut /\ ResumedIsWhole

-----------------------------------------------------------------------------
(* Statements of the repository that the code does not keep *)

\* "every refusal removes whatever reached the host"
RefusalLeavesNoDirectory == Over /\ outcome \in {"refused", "error"} => ~dir
=============================================================================
