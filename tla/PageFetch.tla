----------------------------- MODULE PageFetch -----------------------------
(***************************************************************************)
(* Fetching a file to a paired device: the page's receiver                 *)
(* (src/daemon/app.html, startFetch to cancelFetch), as the client of      *)
(* Downloads.                                                              *)
(*                                                                         *)
(* Every command of the page is an HTTP request of its own, so two of them *)
(* may arrive in either order.  The digest of a finished file is computed  *)
(* asynchronously, and the page goes on meanwhile.                         *)
(***************************************************************************)
EXTENDS Downloads

CONSTANTS
    FetchWindow, \* FETCH_WINDOW_CHUNKS
    MaxBrowser   \* MAX_BROWSER_FILE_BYTES, in reads

VARIABLES
    posts,     \* commands on their way to the daemon
    fetching,  \* the fetch on screen, or None
    checks     \* finished fetches whose digest is being computed

page == <<posts, fetching, checks>>
pageVars == <<vars, page>>

\* What the daemon said of the file.
Offered == [length : 0..MaxLength, good : BOOLEAN]

\* The page pulls a window at a time, and null is no offer.
ASSUME PageAssumption == FetchWindow \in 1..MaxGrant /\ None \notin Offered

\* offer is what the daemon said of the file; card is the offer with its
\* Fetch button on screen; url is the verified file with its Save button.
Fetch == [request : Request, offer : Offered \cup {None}, card : BOOLEAN,
          received : 0..MaxLength, outstanding : 0..FetchWindow, url : BOOLEAN]

PageInit ==
    /\ Init
    /\ posts = {}
    /\ fetching = None
    /\ checks = {}

\* A command posted now, which may fail on its way.
Posts(m) == posts' = posts \cup {m}

PostArrives(m) ==
    /\ m \in posts
    /\ posts' = posts \ {m}
    /\ Ask(m)
    /\ UNCHANGED <<connected, issued, daemon, outbox, fetching, checks>>

PostLost(m) ==
    /\ m \in posts
    /\ posts' = posts \ {m}
    /\ UNCHANGED <<vars, fetching, checks>>

StartFetch ==
    /\ fetching = None /\ issued < MaxRequests
    /\ issued' = issued + 1
    /\ fetching' = [request |-> issued + 1, offer |-> None, card |-> FALSE,
                    received |-> 0, outstanding |-> 0, url |-> FALSE]
    /\ Posts(Begin(issued + 1, "read"))
    /\ UNCHANGED <<connected, asked, daemon, outbox, checks>>

Fetching(r) == fetching # None /\ fetching.request = r

\* pullFetch: nothing while a window is open.
Pulled(f) ==
    IF f.outstanding > 0
    THEN fetching' = f /\ UNCHANGED posts
    ELSE /\ fetching' = [f EXCEPT !.outstanding = FetchWindow]
         /\ Posts(Pull(f.request, FetchWindow))

\* acceptFetch: the button is on the card, and disabled above the ceiling.
AcceptFetch ==
    /\ fetching # None /\ fetching.offer # None /\ fetching.card
    /\ fetching.offer.length <= MaxBrowser
    /\ Pulled([fetching EXCEPT !.card = FALSE])
    /\ UNCHANGED <<vars, checks>>

Event(type) == connected /\ outbox # <<>> /\ Head(outbox).type = type
ReadsEvent == outbox' = Tail(outbox) /\ UNCHANGED <<connected, issued, asked, daemon>>

OfferFetch ==
    /\ Event("offer") /\ ReadsEvent
    /\ fetching' = IF Fetching(Head(outbox).request)
                   THEN [fetching EXCEPT !.offer = [length |-> Head(outbox).length,
                                                    good |-> Head(outbox).good],
                                         !.card = TRUE]
                   ELSE fetching
    /\ UNCHANGED <<posts, checks>>

\* Mutant of FetchChunk: a window is opened for every chunk that arrives.
FetchChunkEager ==
    /\ Event("chunk") /\ ReadsEvent
    /\ Fetching(Head(outbox).request) /\ fetching.received < fetching.offer.length
    /\ Pulled([fetching EXCEPT !.received = @ + 1, !.outstanding = 0])
    /\ UNCHANGED checks

FetchChunk ==
    /\ Event("chunk") /\ ReadsEvent
    /\ IF Fetching(Head(outbox).request) /\ fetching.received < fetching.offer.length
       THEN LET f == [fetching EXCEPT !.received = @ + 1,
                                      !.outstanding = IF @ = 0 THEN 0 ELSE @ - 1]
            IN  IF f.received < f.offer.length THEN Pulled(f)
                ELSE fetching' = f /\ UNCHANGED posts
       ELSE UNCHANGED <<fetching, posts>>
    /\ UNCHANGED checks

\* finishFetch up to its await: a short transfer is dropped, a whole one is
\* handed to the digest check.
FinishFetch ==
    /\ Event("finished") /\ ReadsEvent
    /\ LET mine == Fetching(Head(outbox).request)
           whole == mine /\ fetching.received = fetching.offer.length
       IN  /\ fetching' = IF mine /\ ~whole THEN None ELSE fetching
           /\ checks' = IF whole THEN checks \cup {fetching} ELSE checks
    /\ UNCHANGED posts

\* Mutant of DigestKnown: the check presents whatever is being fetched now.
DigestKnownForAnother(held) ==
    /\ held \in checks
    /\ checks' = checks \ {held}
    /\ fetching' = IF ~held.offer.good \/ fetching = None THEN None
                   ELSE [fetching EXCEPT !.url = TRUE]
    /\ UNCHANGED <<vars, posts>>

\* finishFetch after its await: a mismatch resets the page, whatever it shows
\* by now; a match is presented if it is still the fetch on screen.
DigestKnown(held) ==
    /\ held \in checks
    /\ checks' = checks \ {held}
    /\ fetching' = IF ~held.offer.good THEN None
                   ELSE IF Fetching(held.request) THEN [fetching EXCEPT !.url = TRUE]
                   ELSE fetching
    /\ UNCHANGED <<vars, posts>>

\* An error is shown as a note, and no fetch is ended by it.
ErrorShown ==
    /\ Event("error") /\ ReadsEvent
    /\ UNCHANGED page

\* cancelFetch: refused on the card, or another pane is watched.
CancelFetch ==
    /\ fetching # None
    /\ Posts(Cancel(fetching.request))
    /\ fetching' = None
    /\ UNCHANGED <<vars, checks>>

\* The Discard button of a presented file.
DiscardFetch ==
    /\ fetching # None /\ fetching.url
    /\ fetching' = None
    /\ UNCHANGED <<vars, posts, checks>>

\* The event stream breaks; the daemon hears the client go.
StreamBreaks == Disconnected /\ UNCHANGED page

\* It reconnects as a new client, whose hello makes the page forget its fetch.
Reconnects ==
    /\ ~connected
    /\ connected' = TRUE
    /\ fetching' = None
    /\ UNCHANGED <<issued, asked, daemon, outbox, posts, checks>>

ReadEvent == OfferFetch \/ FetchChunk \/ FinishFetch \/ ErrorShown

PageNext ==
    \/ StartFetch \/ AcceptFetch \/ ReadEvent \/ CancelFetch \/ DiscardFetch
    \/ StreamBreaks \/ Reconnects
    \/ \E m \in posts : PostArrives(m) \/ PostLost(m)
    \/ \E held \in checks : DigestKnown(held)
    \/ DaemonStep /\ UNCHANGED page

PageSpec == PageInit /\ [][PageNext]_pageVars

\* The page reads its stream, the loop and the tasks run, and a command that
\* is posted arrives or fails.
PageFairSpec ==
    /\ PageSpec
    /\ WF_pageVars(ReadEvent)
    /\ WF_pageVars(LoopStep /\ UNCHANGED page)
    /\ \A r \in Request :
          /\ WF_pageVars(TakeEnded(r) /\ UNCHANGED page)
          /\ WF_pageVars(TaskStep(r) /\ UNCHANGED page)
          /\ WF_pageVars(\E m \in posts : m.request = r /\ (PostArrives(m) \/ PostLost(m)))

-----------------------------------------------------------------------------
(* Properties *)

\* Every variable of the page has its type.
PageTypeOK ==
    /\ TypeOK
    /\ fetching \in Fetch \cup {None}
    /\ checks \subseteq Fetch
    /\ \A m \in posts : m.request \in Request

\* What the page hands somebody a Save button for is the whole file its host
\* attested, whichever fetches were cancelled or finished around it.
ShownIsVerified ==
    fetching # None /\ fetching.url =>
        /\ fetching.offer # None
        /\ fetching.received = fetching.offer.length /\ fetching.offer.good

\* "Peak memory here is this many chunks, not a file": what may still arrive
\* for the fetch on screen is within the window it opened.
FetchWithinWindow ==
    fetching # None =>
        LET r == fetching.request
        IN  PulledBy(r, asked \o SetToSeq(posts)) + Accepted(r) + InFlight(r)
                <= fetching.outstanding

-----------------------------------------------------------------------------
(* Statements of the repository that the code does not keep: TLC finds a    *)
(* counterexample to each, which README.md describes.                       *)

\* A digest that comes back after the page has moved on concerns the file it
\* was computed over and no other: the fetch on screen is left alone.
LateDigestIsHarmless ==
    [][\A held \in checks :
          held \notin checks' /\ fetching # None /\ fetching.request # held.request
              => fetching' = fetching]_pageVars

\* "Watching another pane abandons it" (ARCHITECTURE.md): once the cancel of
\* a fetch reaches the daemon, the daemon in the end reads nothing for it.
AbandonedIsStopped ==
    \A r \in Request : Cancel(r) \in ToSet(asked) ~> [](r \notin downloads)
=============================================================================
