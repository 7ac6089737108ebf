---------------------------- MODULE InputDecoder ----------------------------
(***************************************************************************)
(* What the terminal frontend makes of the bytes its terminal sends.       *)
(* spawn_input_reader reads one byte at a time; InputDecoder::push holds   *)
(* back an escape sequence until it is a mouse report, a bracketed paste   *)
(* or neither; flush_expired lets go of what has waited 30 ms.             *)
(*                                                                         *)
(* A byte is a member of Bytes: "e" is Escape, "p" and "q" stand for       *)
(* "200~" and "201~", "d" for a digit or a semicolon.                      *)
(***************************************************************************)
EXTENDS Naturals, Sequences, SequencesExt

CONSTANTS
    PasteLimit,     \* MAX_CLIPBOARD_BYTES
    PendingLimit,   \* 64, the longest mouse report waited for
    PasteBound      \* named bound: bytes of one paste the run explores

ASSUME DecoderAssumption == PasteLimit \in Nat

VARIABLES
    pending,        \* InputDecoder.pending; pending_since is set while it is not empty
    paste,          \* InputDecoder.paste: NoPaste or [bytes, tail, overflowed]
    raw,            \* the bytes read since the last event (history)
    event           \* what the last byte decoded, from which bytes (history)

decoderVars == <<pending, paste, raw, event>>

Bytes == {"e", "[", "p", "q", "<", "d", "M", "x"}
PasteStart == <<"e", "[", "p">>
PasteEnd == <<"e", "[", "q">>
MousePrefix == <<"e", "[", "<">>
NoPaste == [bytes |-> <<>>, tail |-> <<>>, overflowed |-> FALSE, open |-> FALSE]
NoEvent == [kind |-> "none", bytes |-> <<>>, raw |-> <<>>]
NewPaste == [NoPaste EXCEPT !.open = TRUE]

DecoderInit ==
    /\ pending = <<>>
    /\ paste = NoPaste
    /\ raw = <<>>
    /\ event = NoEvent

Emits(kind, bytes, read) ==
    /\ event' = [kind |-> kind, bytes |-> bytes, raw |-> read]
    /\ raw' = <<>>

Holds(read) == raw' = read /\ event' = NoEvent

DropLast(s, n) == SubSeq(s, 1, Len(s) - n)
LastOf(s, n) == SubSeq(s, IF Len(s) > n THEN Len(s) - n + 1 ELSE 1, Len(s))

\* parse_sgr_mouse: three numbers between the prefix and the terminator.
IsMouse(s) == Len(s) > Len(MousePrefix) + 1 /\ IsPrefix(MousePrefix, s) /\ Last(s) = "M"
              /\ \A i \in Len(MousePrefix) + 1 .. Len(s) - 1 : s[i] = "d"

-----------------------------------------------------------------------------
\* Mutant of PushPaste: the tail is begun empty when a paste overflows.
PushPasteForgetsTail(b) ==
    LET held == Append(paste.bytes, b)
        body == DropLast(held, Len(PasteEnd))
    IN  /\ paste.open /\ ~paste.overflowed
        /\ \/ /\ IsSuffix(PasteEnd, held)
              /\ paste' = NoPaste
              /\ IF Len(body) <= PasteLimit THEN Emits("paste", body, Append(raw, b))
                                            ELSE Emits("too_large", <<>>, Append(raw, b))
           \/ /\ ~IsSuffix(PasteEnd, held)
              /\ paste' = IF Len(held) > PasteLimit + Len(PasteEnd)
                          THEN [paste EXCEPT !.bytes = <<>>, !.overflowed = TRUE]
                          ELSE [paste EXCEPT !.bytes = held]
              /\ Holds(Append(raw, b))
        /\ UNCHANGED pending

\* A byte of a paste that is still small enough to be held.
PushPaste(b) ==
    LET held == Append(paste.bytes, b)
        body == DropLast(held, Len(PasteEnd))
    IN  /\ paste.open /\ ~paste.overflowed
        /\ \/ /\ IsSuffix(PasteEnd, held)
              /\ paste' = NoPaste
              /\ IF Len(body) <= PasteLimit THEN Emits("paste", body, Append(raw, b))
                                            ELSE Emits("too_large", <<>>, Append(raw, b))
           \/ /\ ~IsSuffix(PasteEnd, held)
              /\ paste' = IF Len(held) > PasteLimit + Len(PasteEnd)
                          THEN [paste EXCEPT !.tail = LastOf(held, Len(PasteEnd)),
                                             !.bytes = <<>>, !.overflowed = TRUE]
                          ELSE [paste EXCEPT !.bytes = held]
              /\ Holds(Append(raw, b))
        /\ UNCHANGED pending

\* A byte of a paste that is too large: only its end is looked for.
PushOverflowed(b) ==
    LET tail == LastOf(Append(paste.tail, b), Len(PasteEnd))
    IN  /\ paste.open /\ paste.overflowed
        /\ \/ tail = PasteEnd /\ paste' = NoPaste /\ Emits("too_large", <<>>, Append(raw, b))
           \/ tail # PasteEnd /\ paste' = [paste EXCEPT !.tail = tail] /\ Holds(Append(raw, b))
        /\ UNCHANGED pending

\* A byte outside any escape sequence.
PushPlain(b) ==
    /\ ~paste.open /\ pending = <<>>
    /\ \/ b = "e" /\ pending' = <<b>> /\ Holds(<<b>>)
       \/ b # "e" /\ Emits("bytes", <<b>>, <<b>>) /\ UNCHANGED pending
    /\ UNCHANGED paste

\* A byte after an Escape that may begin a paste or a mouse report.
PushPending(b) ==
    LET held == Append(pending, b)
        mousePrefix == IsPrefix(held, <<"e", "[">>) \/ IsPrefix(MousePrefix, held)
    IN  /\ ~paste.open /\ pending # <<>>
        /\ \/ /\ held = PasteStart
              /\ pending' = <<>> /\ paste' = NewPaste /\ Holds(held)
           \/ /\ IsStrictPrefix(held, PasteStart)
              /\ pending' = held /\ Holds(held) /\ UNCHANGED paste
           \/ /\ ~IsPrefix(held, PasteStart)
              /\ UNCHANGED paste
              /\ \/ /\ mousePrefix /\ Len(held) <= PendingLimit /\ b \in {"d", "<", "[", "e"}
                    /\ pending' = held /\ Holds(held)
                 \/ /\ ~(mousePrefix /\ Len(held) <= PendingLimit /\ b \in {"d", "<", "[", "e"})
                    /\ pending' = <<>>
                    /\ IF mousePrefix /\ Len(held) <= PendingLimit /\ IsMouse(held)
                       THEN Emits("mouse", held, held)
                       ELSE Emits("bytes", held, held)

\* InputDecoder::push
Push(b) == PushPaste(b) \/ PushOverflowed(b) \/ PushPlain(b) \/ PushPending(b)

\* InputDecoder::flush_expired, on a tick of the event loop.
FlushExpired ==
    /\ pending # <<>>
    /\ pending' = <<>>
    /\ Emits("bytes", pending, pending)
    /\ UNCHANGED paste

\* The byte that leads s towards the end of a paste.
TowardsEnd(s) == CASE Last(s) = "e" -> "["
                   [] IsSuffix(<<"e", "[">>, s) -> "q"
                   [] OTHER -> "e"

\* The bytes that may follow: all of them, in a paste those its end is made
\* of, and beyond the bound only its end.
Read == \E b \in Bytes :
            /\ paste.open => \/ b \in {"e", "[", "q", "x"} /\ Len(raw) < PasteBound
                             \/ b = TowardsEnd(raw)
            /\ Push(b)

DecoderNext == Read \/ FlushExpired

DecoderSpec == DecoderInit /\ [][DecoderNext]_decoderVars

\* The decoder fed any bytes, in a paste and out of it, without the bound.
Decoding == DecoderInit /\ [][(\E b \in Bytes : Push(b)) \/ FlushExpired]_decoderVars

-----------------------------------------------------------------------------
\* s ends a paste: its body is what stands before the first terminator.
Encloses(s, body) ==
    /\ s = PasteStart \o body \o PasteEnd
    /\ \A i \in 0 .. Len(body) - 1 + Len(PasteEnd) :
           ~IsSuffix(PasteEnd, SubSeq(body \o PasteEnd, 1, i))

\* Whatever the reads and the timer cut it into, every byte is decoded once
\* and in order: plain bytes and mouse reports are the bytes that were read, a
\* paste is what stood between its markers, and one is refused exactly when
\* that is more than the limit, with the keys after it decoded again.
\* What is decoded as neither is handed on as it is held, so its conjunct only
\* records that; the others relate what was held back to what it is taken for.
DecodedIsRead ==
    CASE event.kind \in {"none", "bytes"} -> event.raw = event.bytes
      [] event.kind = "mouse" -> event.raw = event.bytes /\ IsMouse(event.raw)
      [] event.kind = "paste" -> Encloses(event.raw, event.bytes) /\ Len(event.bytes) <= PasteLimit
      [] event.kind = "too_large" ->
            \E n \in PasteLimit + 1 .. Len(event.raw) - Len(PasteStart) :
                Encloses(event.raw, SubSeq(event.raw, Len(PasteStart) + 1, Len(PasteStart) + n))
=============================================================================
