---------------------------- MODULE WebSessions ----------------------------
(***************************************************************************)
(* The join between a browser's event stream and the commands it posts     *)
(* (src/daemon/web.rs: Sessions, stream_events and the /events and         *)
(* /command requests of handle).                                           *)
(*                                                                         *)
(* A page names one session for as long as it is open.  Each time its      *)
(* EventSource connects, a task registers the queue of a new attachment    *)
(* under that name; each command is a request of its own that looks the    *)
(* queue up, clones its sender and waits for room.  A browser that goes is *)
(* noticed only by a write that fails, up to a keepalive later, so several *)
(* streams of one session are served at once and wind up in any order.     *)
(*                                                                         *)
(* Sessions share nothing but the map's lock, so one name is modelled.     *)
(* What a command says does not matter here: a command is its number.      *)
(***************************************************************************)
EXTENDS Naturals, Sequences

CONSTANTS
    NoStream,
    MaxStreams,  \* bound: times the page connects
    MaxPosts,    \* bound: commands it posts
    CommandDepth   \* COMMAND_QUEUE_DEPTH

\* None is no stream's number, and the queue has room for a command.
ASSUME SessionAssumption ==
    /\ MaxStreams \in Nat /\ MaxPosts \in Nat /\ CommandDepth \in Nat \ {0}
    /\ NoStream \notin 1..MaxStreams

Stream == 1..MaxStreams
Post == 1..MaxPosts

VARIABLES
    current,  \* the stream the page's EventSource holds, or NoStream
    greeted,  \* the page has read server.hello on it
    there,    \* there[i]: the browser is still at the other end of stream i
    phase,    \* phase[i]: where the request that serves stream i is
    attached, \* attached[i]: the daemon holds its end of the attachment open
    open,     \* Sessions.open at this name: the stream whose queue it is, or NoStream
    queue,    \* queue[i]: commands in the channel of stream i
    writing,  \* writing[i]: the task that writes them to the attachment runs
    carried,  \* carried[i]: commands the attachment of stream i was given
    post      \* post[p]: a command's request

page == <<current, greeted, there>>
streams == <<phase, attached, open, writing>>
sessionVars == <<current, greeted, there, phase, attached, open, queue, writing, carried, post>>

\* A request holds a clone of the sender it looked up until it is answered.
Unsent == [phase |-> "unsent", to |-> NoStream, after |-> {}]
Answers == {"accepted", "closed", "busy", "no stream"}

SessionTypeOK ==
    /\ current \in Stream \cup {NoStream} /\ greeted \in BOOLEAN
    /\ there \in [Stream -> BOOLEAN]
    /\ phase \in [Stream -> {"none", "arrived", "registered", "streaming", "returned", "ended"}]
    /\ attached \in [Stream -> BOOLEAN]
    /\ open \in Stream \cup {NoStream}
    /\ queue \in [Stream -> Seq(Post)] /\ \A i \in Stream: Len(queue[i]) <= CommandDepth
    /\ writing \in [Stream -> BOOLEAN]
    /\ carried \in [Stream -> Seq(Post)]
    /\ post \in [Post -> [phase : {"unsent", "sent", "sending"} \cup Answers,
                          to : Stream \cup {NoStream}, after : SUBSET Post]]

SessionInit ==
    /\ current = NoStream /\ greeted = FALSE
    /\ there = [i \in Stream |-> FALSE]
    /\ phase = [i \in Stream |-> "none"]
    /\ attached = [i \in Stream |-> FALSE]
    /\ open = NoStream
    /\ queue = [i \in Stream |-> <<>>]
    /\ writing = [i \in Stream |-> FALSE]
    /\ carried = [i \in Stream |-> <<>>]
    /\ post = [p \in Post |-> Unsent]

\* The receiving end of a stream's queue lives in its writing task.
Sending(i) == {p \in Post: post[p].phase = "sending" /\ post[p].to = i}

-----------------------------------------------------------------------------
(* The page *)

\* EventSource connects, once the connection it had is gone.
Connects(i) ==
    /\ current = NoStream
    /\ phase[i] = "none" /\ \A j \in Stream: j < i => phase[j] # "none"
    /\ current' = i /\ greeted' = FALSE
    /\ there' = [there EXCEPT ![i] = TRUE]
    /\ phase' = [phase EXCEPT ![i] = "arrived"]
    /\ attached' = [attached EXCEPT ![i] = TRUE]
    /\ UNCHANGED <<open, queue, writing, carried, post>>

\* server.hello arrives: everything written on a stream follows its head.
Greeted ==
    /\ current # NoStream /\ ~greeted
    /\ phase[current] = "streaming"
    /\ greeted' = TRUE
    /\ UNCHANGED <<current, there, streams, queue, carried, post>>

\* The connection is lost, or the daemon's end of it was closed.
Disconnected ==
    /\ current # NoStream
    /\ there' = [there EXCEPT ![current] = FALSE]
    /\ current' = NoStream /\ greeted' = FALSE
    /\ UNCHANGED <<streams, queue, carried, post>>

\* send, which waits for nothing, and postCommand, which sends one command
\* after the other was answered.
Sends(p) ==
    /\ post[p] = Unsent /\ \A q \in Post: q < p => post[q] # Unsent
    /\ post' = [post EXCEPT ![p] =
                  [phase |-> "sent", to |-> NoStream,
                   after |-> {q \in Post: post[q].phase = "accepted"}]]
    /\ UNCHANGED <<page, streams, queue, carried>>

-----------------------------------------------------------------------------
(* A stream's request *)

\* stream_events up to its head: the queue, its registration, its writer.
Registers(i) ==
    /\ phase[i] = "arrived"
    /\ phase' = [phase EXCEPT ![i] = "registered"]
    /\ open' = i
    /\ writing' = [writing EXCEPT ![i] = TRUE]
    /\ UNCHANGED <<page, attached, queue, carried, post>>

\* The head is written; to a browser that has gone it may succeed all the same.
WritesHead(i) ==
    /\ phase[i] = "registered"
    /\ phase' = [phase EXCEPT ![i] = "streaming"]
    /\ UNCHANGED <<page, attached, open, queue, writing, carried, post>>

\* Writing it fails, and the request returns as it stands.
HeadFails(i) ==
    /\ phase[i] = "registered" /\ ~there[i]
    /\ phase' = [phase EXCEPT ![i] = "returned"]
    /\ UNCHANGED <<page, attached, open, queue, writing, carried, post>>

\* The daemon lets the client go.
DaemonDrops(i) ==
    /\ attached[i] /\ phase[i] # "ended"
    /\ attached' = [attached EXCEPT ![i] = FALSE]
    /\ UNCHANGED <<page, phase, open, queue, writing, carried, post>>

\* Error: a write that fails returns like the head's, past the winding up.
EndsEarly(i) ==
    /\ phase[i] = "streaming" /\ ~(there[i] /\ attached[i])
    /\ phase' = [phase EXCEPT ![i] = "ended"]
    /\ UNCHANGED <<page, attached, open, queue, writing, carried, post>>

\* A write fails or there is nothing more to read: the name is freed, whoever has it, and the writer is stopped
\* with what is still queued.
Ends(i) ==
    /\ phase[i] = "streaming" /\ ~(there[i] /\ attached[i])
    /\ phase' = [phase EXCEPT ![i] = "ended"]
    /\ open' = NoStream
    /\ writing' = [writing EXCEPT ![i] = FALSE]
    /\ queue' = [queue EXCEPT ![i] = <<>>]
    /\ UNCHANGED <<page, attached, carried, post>>

\* Error: the writer gives a line up that it could not write at once.
WritesLineOrNot(i) ==
    /\ writing[i] /\ attached[i] /\ queue[i] # <<>>
    /\ queue' = [queue EXCEPT ![i] = Tail(@)]
    /\ \/ carried' = [carried EXCEPT ![i] = Append(@, Head(queue[i]))]
       \/ UNCHANGED carried
    /\ UNCHANGED <<page, streams, post>>

\* The writing task passes one line on.
WritesLine(i) ==
    /\ writing[i] /\ attached[i] /\ queue[i] # <<>>
    /\ queue' = [queue EXCEPT ![i] = Tail(@)]
    /\ carried' = [carried EXCEPT ![i] = Append(@, Head(queue[i]))]
    /\ UNCHANGED <<page, streams, post>>

\* The writing task ends when nobody is left to send it a line, and when it
\* cannot write one.
WriterEnds(i) ==
    /\ writing[i]
    /\ IF queue[i] = <<>> THEN open # i /\ Sending(i) = {} ELSE ~attached[i]
    /\ writing' = [writing EXCEPT ![i] = FALSE]
    /\ queue' = [queue EXCEPT ![i] = <<>>]
    /\ UNCHANGED <<page, phase, attached, open, carried, post>>

-----------------------------------------------------------------------------
(* A command's request *)

Answered(p, answer) == post' = [post EXCEPT ![p].phase = answer]

\* The name is looked up and its sender cloned, or there is none.
LooksUp(p) ==
    /\ post[p].phase = "sent"
    /\ post' = [post EXCEPT ![p].phase = IF open = NoStream THEN "no stream" ELSE "sending",
                            ![p].to = open]
    /\ UNCHANGED <<page, streams, queue, carried>>

\* Error: a command that finds the queue full is written past it.
ForwardsAround(p) ==
    LET i == post[p].to
    IN  /\ post[p].phase = "sending" /\ writing[i]
        /\ Answered(p, "accepted")
        /\ IF Len(queue[i]) < CommandDepth
           THEN queue' = [queue EXCEPT ![i] = Append(@, p)] /\ UNCHANGED carried
           ELSE carried' = [carried EXCEPT ![i] = Append(@, p)] /\ UNCHANGED queue
        /\ UNCHANGED <<page, streams>>

\* The queue has room.
Forwards(p) ==
    LET i == post[p].to
    IN  /\ post[p].phase = "sending"
        /\ writing[i] /\ Len(queue[i]) < CommandDepth
        /\ queue' = [queue EXCEPT ![i] = Append(@, p)]
        /\ Answered(p, "accepted")
        /\ UNCHANGED <<page, streams, carried>>

\* The queue is gone, or COMMAND_FORWARD_TIMEOUT passes while it is full.
NotForwarded(p) ==
    LET i == post[p].to
    IN  /\ post[p].phase = "sending"
        /\ \/ ~writing[i] /\ Answered(p, "closed")
           \/ writing[i] /\ Len(queue[i]) = CommandDepth /\ Answered(p, "busy")
        /\ UNCHANGED <<page, streams, queue, carried>>

-----------------------------------------------------------------------------
Serves(i) ==
    \/ Registers(i) \/ WritesHead(i) \/ HeadFails(i) \/ Ends(i)
    \/ WritesLine(i) \/ WriterEnds(i)

Commands(p) == LooksUp(p) \/ Forwards(p) \/ NotForwarded(p)

SessionNext ==
    \/ Greeted \/ Disconnected
    \/ \E i \in Stream: Connects(i) \/ DaemonDrops(i) \/ Serves(i)
    \/ \E p \in Post: Sends(p) \/ Commands(p)

SessionSpec == SessionInit /\ [][SessionNext]_sessionVars

\* Every task runs; a browser that has gone is noticed by a keepalive.
SessionFairSpec ==
    /\ SessionSpec
    /\ \A i \in Stream: WF_sessionVars(Serves(i)) /\ WF_sessionVars(Ends(i))
    /\ \A p \in Post: WF_sessionVars(Commands(p))

-----------------------------------------------------------------------------
(* Properties *)

\* The commands of a stream: those its attachment was given, and those on their way.
Line(i) == carried[i] \o queue[i]

\* The queue's order and completeness: while a stream and its attachment live, every
\* command it accepted is on its way to its attachment or there, once.
AcceptedIsCarried ==
    \A p \in Post: LET i == post[p].to IN
        post[p].phase = "accepted" /\ phase[i] # "ended" /\ attached[i] =>
            \E n \in 1..Len(Line(i)): \A m \in 1..Len(Line(i)): Line(i)[m] = p <=> m = n

\* postCommand relies on it for the chunks of an upload: a command posted after
\* another was accepted follows it on the attachment that carries both.
AwaitedInOrder ==
    \A i \in Stream: \A m, n \in 1..Len(Line(i)): Line(i)[m] \in post[Line(i)[n]].after => m < n

\* A command that was accepted is carried once while its stream lives, and after
\* those the page had waited for (post_command, forward_commands).
CommandsAreCarried == AcceptedIsCarried /\ AwaitedInOrder

\* A stream that got going and lost its browser gives its attachment up, so the
\* daemon sees the client go, however many others share its name.
AbandonedIsLetGo ==
    \A i \in Stream:
        phase[i] = "streaming" /\ ~there[i] ~> phase[i] = "ended" /\ ~writing[i]

-----------------------------------------------------------------------------
(* Statements of the repository that the code does not keep: TLC finds a    *)
(* counterexample to each, which README.md describes.                       *)

\* app.html, on server.hello: what was watched "is asked for again here",
\* because otherwise "the link says live while nothing arrives ever again".  It
\* can be asked for while the name leads to a stream (LooksUp).  A page that was
\* greeted and whose stream is the registered one keeps a stream under its name
\* for as long as that stream lives: the end of an older one takes none away.
Asking(i) == current = i /\ greeted /\ phase[i] = "streaming"

GreetedCanAsk ==
    [][\A i \in Stream: Asking(i) /\ open = i /\ Asking(i)' => open' # NoStream]_sessionVars

\* The same name leads to the stream that said hello, and not to one the page
\* left before it: stream_events registers an old stream late.
GreetedIsReached == \A i \in Stream: Asking(i) /\ open # NoStream => open = i

=============================================================================
