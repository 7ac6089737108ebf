---------------------------- MODULE MCTransfers -----------------------------
(***************************************************************************)
(* Transfers from end to end, one part to a behaviour: the daemon's        *)
(* transfers and their tokens (Transfers), one payload staged on a host    *)
(* (HostStaging) and the senders of a client's files (ClientUploads).      *)
(***************************************************************************)
EXTENDS Transfers, HostStaging, ClientUploads, TLC

CONSTANTS t1, t2

VARIABLES
    scene       \* the component this behaviour is about
all == <<scene, vars, stagingVars, uploadVars>>

\* The first transfer is of a file that may change.
TwoFiles == t1 :> {"old", "new"} @@ t2 :> {"old"}
\* Two files of one chunk each.
OneEach == <<1, 1>>

\* One component acts; the others stay as they began.
MCInit ==
    /\ scene \in {"carry", "stage", "send"}
    /\ Init /\ StagingInit /\ UploadInit
    /\ scene # "stage" => kind = "media"
InCarry(A) == scene = "carry" /\ A
InSend(A) == scene = "send" /\ A
MCNext ==
    \/ scene = "carry" /\ Next /\ UNCHANGED <<scene, stagingVars, uploadVars>>
    \/ scene = "stage" /\ StagingNext /\ UNCHANGED <<scene, vars, uploadVars>>
    \/ scene = "send" /\ UploadNext /\ UNCHANGED <<scene, vars, stagingVars>>

MCSpec ==
    /\ MCInit /\ [][MCNext]_all
    /\ \A t \in Token : WF_vars(InCarry(Expires(t)))
    /\ WF_uploadVars(InSend(WriteCommand))
    /\ \A f \in Files : WF_uploadVars(InSend(Task(f)))
    /\ \A f \in Files : WF_uploadVars(InSend(UploadFailed(f) \/ Answered(f)))

\* Nothing is left standing: a transfer that is kept is let go of in the end, a sender that
\* found the window full is woken when it drains or when the socket is gone, and a batch of which
\* nothing was interrupted settles (expiry of the retained, room_to_send, settle_upload_batch).
TransfersEnd == NothingKeptForever /\ SendersFinish /\ BatchSettles
=============================================================================
