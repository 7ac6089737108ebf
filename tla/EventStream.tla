---------------------------- MODULE EventStream ----------------------------
(***************************************************************************)
(* The loop that carries one attachment's messages to a browser as         *)
(* server-sent events (src/daemon/web.rs: stream_events).                  *)
(*                                                                         *)
(* The read of a line is one branch of a select and the keepalive tick the *)
(* other, so a tick may cut a read at any byte.  What was read stays in    *)
(* `line` and still counts against the message limit.  Nothing is ever     *)
(* read from the browser: only a write that fails tells the loop that the  *)
(* browser has gone, and a write to a browser that has just gone may well  *)
(* succeed.                                                                *)
(*                                                                         *)
(* Bytes are counted and not read: a byte is the message it belongs to and *)
(* whether it is the newline that ends it.                                 *)
(***************************************************************************)
EXTENDS Naturals, Sequences

CONSTANTS
    MaxMessageBytes,  \* MAX_MESSAGE_BYTES
    MaxLength,        \* bound: the longest line an attachment is given
    MaxMessages,      \* bound: messages the daemon writes
    PipeDepth         \* bound: bytes in the pipe between the two

\* A limit of nothing would let no message through.
ASSUME StreamAssumption ==
    /\ MaxMessageBytes \in Nat \ {0}
    /\ MaxLength \in Nat /\ MaxMessages \in Nat /\ PipeDepth \in Nat

Byte == [message : 1..MaxMessages, newline : BOOLEAN]

\* Byte i of message m, which has n of them.
ByteOf(m, i, n) == [message |-> m, newline |-> i = n]

VARIABLES
    lengths,  \* the length of every message the daemon began to write
    written,  \* bytes of the last of them that are written
    pipe,     \* bytes in the attachment, not read by the loop
    fed,      \* the daemon's end of the attachment is open
    loop,     \* the loop: reading a line, writing an event, or ended
    line,     \* the loop's line buffer
    budget,   \* what the pass in progress may still read (Take's limit)
    reached,  \* the browser is at the other end of the response
    events    \* the events the browser was sent

streamVars == <<lengths, written, pipe, fed, loop, line, budget, reached, events>>

StreamTypeOK ==
    /\ lengths \in Seq(1..MaxLength) /\ Len(lengths) <= MaxMessages
    /\ written \in 0..MaxLength
    /\ pipe \in Seq(Byte) /\ Len(pipe) <= PipeDepth
    /\ loop \in {"reading", "writing", "ended"}
    /\ line \in Seq(Byte)
    /\ budget \in 0..MaxMessageBytes
    /\ fed \in BOOLEAN /\ reached \in BOOLEAN
    /\ events \in Seq(Seq(Byte))

\* Errors: a pass that may read a whole message more, and one byte less.
RemainingWhole(held) == MaxMessageBytes

RemainingShort(held) == MaxMessageBytes - 1 - Len(held)

\* What is left of the cap for this line, whatever cut the pass before.
Remaining(held) == MaxMessageBytes - Len(held)

StreamInit ==
    /\ lengths = <<>> /\ written = 0
    /\ pipe = <<>> /\ fed = TRUE
    /\ loop = "reading" /\ line = <<>> /\ budget = Remaining(<<>>)
    /\ reached = TRUE /\ events = <<>>

-----------------------------------------------------------------------------
(* The attachment *)

\* A byte the connection's writer task writes, of the message it is at or of a
\* new one.
DaemonWrites ==
    LET finished == written = (IF lengths = <<>> THEN 0 ELSE lengths[Len(lengths)])
    IN  /\ fed /\ loop # "ended"
        /\ Len(pipe) < PipeDepth
        /\ \/ /\ finished /\ Len(lengths) < MaxMessages
              /\ \E n \in 1..MaxLength:
                    /\ lengths' = Append(lengths, n)
                    /\ written' = 1
                    /\ pipe' = Append(pipe, ByteOf(Len(lengths'), 1, n))
           \/ /\ ~finished
              /\ written' = written + 1
              /\ pipe' = Append(pipe, ByteOf(Len(lengths), written', lengths[Len(lengths)]))
              /\ UNCHANGED lengths
        /\ UNCHANGED <<fed, loop, line, budget, reached, events>>

\* The daemon drops the client, in the middle of a message or not.
DaemonCloses ==
    /\ fed
    /\ fed' = FALSE
    /\ UNCHANGED <<lengths, written, pipe, loop, line, budget, reached, events>>

\* The browser goes: a closed tab, a lost network, a proxy that gave up.
BrowserGoes ==
    /\ reached
    /\ reached' = FALSE
    /\ UNCHANGED <<lengths, written, pipe, fed, loop, line, budget, events>>

-----------------------------------------------------------------------------
(* The loop *)

\* read_until takes the next byte: it returns at a newline, and at the limit,
\* where a line without its newline ends the stream.
ReadByte ==
    LET byte == Head(pipe)
    IN  /\ loop = "reading" /\ pipe # <<>> /\ budget > 0
        /\ pipe' = Tail(pipe)
        /\ line' = Append(line, byte)
        /\ budget' = budget - 1
        /\ loop' = IF byte.newline THEN "writing" ELSE IF budget' = 0 THEN "ended" ELSE "reading"
        /\ UNCHANGED <<lengths, written, fed, reached, events>>

\* Nothing left to read, or no budget left to read it with.
ReadNothing ==
    /\ loop = "reading"
    /\ (pipe = <<>> /\ ~fed) \/ budget = 0
    /\ loop' = "ended"
    /\ UNCHANGED <<lengths, written, pipe, fed, line, budget, reached, events>>

\* The tick cuts the read, and the loop starts another pass with the line it has.
NextPass(held) ==
    /\ line' = held
    /\ budget' = Remaining(held)

\* Error: the line is cleared at the top of the loop.
KeepaliveClears ==
    /\ loop = "reading"
    /\ NextPass(<<>>)
    /\ UNCHANGED <<lengths, written, pipe, fed, loop, reached, events>>

Keepalive ==
    /\ loop = "reading"
    /\ NextPass(line)
    /\ UNCHANGED <<lengths, written, pipe, fed, loop, reached, events>>

\* A whole line becomes one event.
WriteEvent ==
    /\ loop = "writing"
    /\ events' = IF reached THEN Append(events, line) ELSE events
    /\ loop' = "reading"
    /\ NextPass(<<>>)
    /\ UNCHANGED <<lengths, written, pipe, fed, reached>>

\* Error: a comment that fails to be written is ignored.
WriteFailsOnEvent ==
    /\ loop = "writing" /\ ~reached
    /\ loop' = "ended"
    /\ UNCHANGED <<lengths, written, pipe, fed, line, budget, reached, events>>

\* A comment or an event fails to be written.
WriteFails ==
    /\ loop # "ended" /\ ~reached
    /\ loop' = "ended"
    /\ UNCHANGED <<lengths, written, pipe, fed, line, budget, reached, events>>

StreamEvents == ReadByte \/ ReadNothing \/ Keepalive \/ WriteEvent \/ WriteFails

StreamNext == DaemonWrites \/ DaemonCloses \/ BrowserGoes \/ StreamEvents

StreamSpec == StreamInit /\ [][StreamNext]_streamVars

\* The task runs, its timer ticks, and the kernel reports a peer that has gone
\* to one of the writes that follow.
StreamFairSpec ==
    /\ StreamSpec
    /\ WF_streamVars(ReadByte) /\ WF_streamVars(ReadNothing) /\ WF_streamVars(WriteEvent)
    /\ WF_streamVars(WriteFails)

-----------------------------------------------------------------------------
(* Properties *)

\* The message a line is, byte by byte.
Whole(m) == [i \in 1..lengths[m] |-> ByteOf(m, i, lengths[m])]

\* stream_events: every event is one whole message, and they are the daemon's
\* messages in its order with none left out, wherever the keepalive cut the reads.
WholeInOrder == \A e \in 1..Len(events): events[e] = Whole(e)

\* stream_events: the size guard bounds a message, not what one pass reads of
\* it; a message over the limit never becomes an event.
NothingOversized == \A e \in 1..Len(events): Len(events[e]) <= MaxMessageBytes

\* stream_events and protocol::encode agree on the limit: while browser and
\* daemon stay, only a message that encode would have refused ends the stream.
EndsForCause ==
    loop = "ended" /\ reached /\ fed => lengths[Len(events) + 1] > MaxMessageBytes

\* The events of a stream are the daemon's messages, whole and in order, wherever a
\* keepalive cut a read, and while browser and daemon stay only a message over the
\* limit, which never becomes an event, ends it (stream_events).
EventsAreTheMessages == WholeInOrder /\ NothingOversized /\ EndsForCause

\* stream_events: a browser that goes away is noticed although the federation
\* is silent and nothing is read from it.
SilentGoneIsNoticed == ~reached ~> loop = "ended"

=============================================================================
