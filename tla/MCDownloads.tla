---------------------------- MODULE MCDownloads ----------------------------
(***************************************************************************)
(* The two clients of Downloads, one to a behaviour: the terminal frontend *)
(* saving files (FileSave) and the page fetching them (PageFetch).         *)
(***************************************************************************)
EXTENDS FileSave, PageFetch

VARIABLE client
all == <<client, saveVars, page>>

MCInit ==
    /\ client \in {"frontend", "page"}
    /\ SaveInit /\ PageInit

\* Only the client of the behaviour acts; the other stays as it began. The page's commands are
\* taken one at a time.
Frontend == client = "frontend" /\ SaveNext /\ UNCHANGED <<client, page>>
Browser == client = "page" /\ PageNext /\ Len(asked') < MaxQueue /\ UNCHANGED <<client, frontend>>

Rest == UNCHANGED <<frontend, client, page>>
MCSpec ==
    /\ MCInit /\ [][Frontend \/ Browser]_all
    /\ WF_all(client = "frontend" /\ ReadMessage /\ UNCHANGED <<client, page>>)
    /\ WF_all(client = "frontend" /\ LoopStep /\ Rest)
    /\ \A r \in Request :
          /\ WF_all(client = "frontend" /\ TakeEnded(r) /\ Rest)
          /\ WF_all(client = "frontend" /\ TaskStep(r) /\ Rest)

\* What stands in the directory under a file's name is that file, whole and verified, no file
\* that was there is lost to one being saved, and the bytes on their way, to the frontend and to
\* the page, are within the window each opened (file_save::FileSave, download, pullFetch of
\* app.html).
SavedIsSafe ==
    /\ [](client = "frontend" => OnlyWholeFiles /\ WithinWindow /\ ChunksWithinOffer)
    /\ NothingClobbered
    /\ [](client = "page" => FetchWithinWindow)

\* A save that began ends, and everything a client was reading ends with it (FileSave, the
\* loop's Input::Disconnected).
DownloadsEnd == client = "frontend" => SaveEnds /\ GoneWithItsClient
=============================================================================
