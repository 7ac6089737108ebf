------------------------------- MODULE MCWeb --------------------------------
(***************************************************************************)
(* What stands between a browser and the daemon, one part to a behaviour:  *)
(* a connection through the bridge (BridgeTunnel), the events of a page's  *)
(* stream (EventStream), and the commands it posts beside the streams it   *)
(* opens (WebSessions).                                                    *)
(***************************************************************************)
EXTENDS BridgeTunnel, EventStream, WebSessions, TLC

CONSTANTS d1, d2

VARIABLES
    scene       \* the component this behaviour is about
all == <<scene, vars, streamVars, sessionVars>>

\* A response comes down the first connection, a request goes up the second.
Responses == d1 :> 2 @@ d2 :> 0
Requests == d1 :> 0 @@ d2 :> 2

\* One component acts; the others stay as they began.
MCInit ==
    /\ scene \in {"tunnel", "stream", "page"}
    /\ Init /\ StreamInit /\ SessionInit
InTunnel(A) == scene = "tunnel" /\ A
InStream(A) == scene = "stream" /\ A
InPage(A) == scene = "page" /\ A
MCNext ==
    \/ scene = "tunnel" /\ Next /\ UNCHANGED <<scene, streamVars, sessionVars>>
    \/ scene = "stream" /\ StreamNext /\ UNCHANGED <<scene, vars, sessionVars>>
    \/ scene = "page" /\ SessionNext /\ UNCHANGED <<scene, vars, streamVars>>

MCSpec ==
    /\ MCInit /\ [][MCNext]_all
    /\ \A d \in Device : WF_vars(InTunnel(BridgeDevice(d)))
    /\ WF_streamVars(InStream(ReadByte))
    /\ WF_streamVars(InStream(ReadNothing))
    /\ WF_streamVars(InStream(WriteEvent))
    /\ WF_streamVars(InStream(WriteFails))
    /\ \A i \in Stream : WF_sessionVars(InPage(Serves(i)))
    /\ \A i \in Stream : WF_sessionVars(InPage(Ends(i)))
    /\ \A p \in Post : WF_sessionVars(InPage(Commands(p)))

\* Whoever goes away is noticed: a silent stream without its browser ends, its attachment is
\* given up, and a connection the bridge let go ends with what was queued for it, unless a write
\* to its browser is stuck for good.
GoneIsNoticed ==
    /\ scene = "stream" => SilentGoneIsNoticed
    /\ scene = "page" => AbandonedIsLetGo
    /\ scene = "tunnel" => LetGoEnds
=============================================================================
