----------------------------- MODULE WebProofs -----------------------------
(***************************************************************************)
(* Theorems about the bridge's tunnel (BridgeTunnel.tla), a browser's      *)
(* event stream (EventStream.tla) and the commands it posts                *)
(* (WebSessions.tla), for any number of browser connections, generations   *)
(* of the connector, chunks, messages, streams and commands, and any depth *)
(* of the queues.                                                          *)
(*                                                                         *)
(* Tunnel: each direction is a pipe of three parts: a queue q shared by    *)
(* the connections of a generation, a queue l of this connection's own,    *)
(* and what arrived, h, with a count a of what was sent.  It may be cut at *)
(* either queue, and then nothing more passes it.                          *)
(*                                                                         *)
(* Event stream: the bytes in the attachment, each with its message and    *)
(* its place there, follow one another from the byte read last to the one  *)
(* written last.                                                           *)
(*                                                                         *)
(* Commands: a stream's line is what its attachment was given and then     *)
(* what is queued; a command only ever joins its end.                      *)
(***************************************************************************)
EXTENDS BridgeTunnel, EventStream, WebSessions, FiniteSetTheorems, SequenceTheorems, TLAPS

-----------------------------------------------------------------------------
(* The tunnel: a pipe *)

IsData(p, d) == p.kind = "data" /\ p.device = d

\* No chunk of d is twice in q, or is one that was not sent.
Distinct(q, d) ==
    \A i, j \in 1..Len(q) :
        IsData(q[i], d) /\ IsData(q[j], d) /\ q[i].chunk = q[j].chunk => i = j
Bounded(q, d, a) == \A i \in 1..Len(q) : IsData(q[i], d) => q[i].chunk <= a

\* Chunks of d in q from the one numbered n: before each are those it follows.
Carries(q, d, n) ==
    \A i \in 1..Len(q) : IsData(q[i], d) =>
        /\ q[i].chunk >= n
        /\ \A m \in n..(q[i].chunk - 1) :
              \E j \in 1..(i - 1) : IsData(q[j], d) /\ q[j].chunk = m

\* ... and none is missing up to the last that was sent.
Complete(q, d, n, a) ==
    \A m \in n..a : \E j \in 1..Len(q) : IsData(q[j], d) /\ q[j].chunk = m

\* Nothing but chunks is in l, and those at its front follow the first n.
Quiet(l) == \A i \in 1..Len(l) : l[i].kind = "data"
Follows(l, n) ==
    \A i \in 1..Len(l) : (\A j \in 1..i : l[j].kind = "data") => l[i].chunk = n + i

\* What holds of a pipe whatever was cut,
Base(q, l, h, a, d) ==
    Counting(h) /\ Follows(l, Len(h)) /\ Distinct(q, d) /\ Bounded(q, d, a)

\* ... of one that was not cut at l,
Flows(q, l, h, a, d) ==
    /\ Quiet(l) /\ Len(h) + Len(l) <= a
    /\ Carries(q, d, Len(h) + Len(l) + 1)

\* ... and of one that was not cut at q.
Full(q, l, h, a, d) == Complete(q, d, Len(h) + Len(l) + 1, a)

-----------------------------------------------------------------------------
(* The inductive invariant *)

Mentions(q, d) == \E i \in 1..Len(q) : q[i].device = d

\* An open of d is in q, and comes before anything else of d.
Opens(q, d) == \E i \in 1..Len(q) : q[i].kind = "open" /\ q[i].device = d
OpenFirst(q, d) ==
    \A i, j \in 1..Len(q) :
        q[i].kind = "open" /\ q[i].device = d /\ q[j].device = d => i <= j

\* The types of the tasks, of the queues, of the bridge's tables and of what was
\* sent and arrived.
Tasks ==
    /\ link \in [Gen -> BOOLEAN]
    /\ host \in [Gen -> {"none", "up", "ended"}]
    /\ conn \in [Gen -> {"none", "connecting", "up", "ended"}]
    /\ route \in Gen \cup {None} /\ newest \in Gen \cup {None}
    /\ locals \in [Gen -> SUBSET Device]
    /\ dev \in [Device -> [phase : {"new", "found", "entered", "relaying", "writing", "done"},
                           gen : Gen \cup {None}]]
    /\ proxy \in [Device -> {"none", "running", "done"}]

Lanes(queues, S) ==
    queues \in [S -> Seq(Packet)] /\ \A x \in S : Len(queues[x]) <= QueueDepth
Queues ==
    /\ Lanes(toHost, Gen) /\ Lanes(fromHost, Gen)
    /\ Lanes(toDevice, Device) /\ Lanes(toLocal, Device)

Table(table) ==
    /\ table \in [Gen -> SUBSET Device]
    /\ \A g \in Gen : IsFiniteSet(table[g]) /\ Cardinality(table[g]) <= MaxDevices

Counts ==
    /\ asked \in [Device -> Nat] /\ said \in [Device -> Nat]
    /\ \A d \in Device : asked[d] <= MaxUp[d] /\ said[d] <= MaxDown[d]
    /\ heard \in [Device -> Seq(Nat)] /\ got \in [Device -> Seq(Nat)]

Typed == Tasks /\ Queues /\ Table(devices) /\ Counts

\* The connector connects one generation at a time, and each once.
InTurn ==
    /\ \A g \in Gen : link[g] => conn[g] \notin {"none", "ended"}
    /\ \A f, g \in Gen : f < g /\ conn[g] # "none" => conn[f] = "ended"
    /\ newest = None => \A g \in Gen : host[g] = "none"

\* A connection is known to one generation only, which it found.
Known(d, g) ==
    d \in devices[g] \/ d \in locals[g] \/ Mentions(toHost[g], d) \/ Mentions(fromHost[g], d)
Owned(d) ==
    /\ \A g \in Gen : Known(d, g) => dev[d].gen = g
    /\ In(d, "new") <=> dev[d].gen = None
    /\ dev[d].gen # None => host[dev[d].gen] # "none"

\* What has not happened yet has left no trace.
Early(d) ==
    /\ In(d, "new") \/ In(d, "found") =>
          toDevice[d] = <<>> /\ \A g \in Gen : d \notin devices[g]
    /\ In(d, "new") \/ In(d, "found") \/ In(d, "entered") =>
          /\ asked[d] = 0 /\ got[d] = <<>> /\ proxy[d] = "none"
          /\ \A g \in Gen : ~Mentions(toHost[g], d)
    /\ proxy[d] = "none" =>
          /\ said[d] = 0 /\ heard[d] = <<>> /\ toLocal[d] = <<>>
          /\ \A g \in Gen : d \notin locals[g] /\ ~Mentions(fromHost[g], d)

\* A connection is opened once.
OpenedOnce(d) ==
    \A g \in Gen : OpenFirst(toHost[g], d) /\ (Opens(toHost[g], d) => proxy[d] = "none")

\* Requests reach the listener while the open is on its way, or the connector
\* has the connection and has not been told of its end.
Relays(d) == In(d, "relaying") \/ In(d, "writing")
UpReaches(d) ==
    LET g == dev[d].gen
    IN  Opens(toHost[g], d) \/ (d \in locals[g] /\ Quiet(toLocal[d]))
Up(d) ==
    LET g == dev[d].gen
    IN  /\ Base(toHost[g], toLocal[d], heard[d], asked[d], d)
        /\ UpReaches(d) =>
              /\ Flows(toHost[g], toLocal[d], heard[d], asked[d], d)
              /\ Relays(d) /\ host[g] = "up" =>
                    Full(toHost[g], toLocal[d], heard[d], asked[d], d)

\* Responses reach the browser while the route is the generation's and has the
\* connection, which has not been told of its end.
DownReaches(d) ==
    LET g == dev[d].gen
    IN  d \in devices[g] /\ route = g /\ Quiet(toDevice[d])
Down(d) ==
    LET g == dev[d].gen
    IN  /\ Base(fromHost[g], toDevice[d], got[d], said[d], d)
        /\ DownReaches(d) =>
              /\ Flows(fromHost[g], toDevice[d], got[d], said[d], d)
              /\ proxy[d] # "done" /\ conn[g] # "ended" =>
                    Full(fromHost[g], toDevice[d], got[d], said[d], d)

Pipes(d) == dev[d].gen # None => Up(d) /\ Down(d)

Placed == \A d \in Device : Owned(d) /\ Early(d) /\ OpenedOnce(d)

TunnelInv ==
    /\ Typed /\ InTurn /\ NewestIsRouted /\ Placed
    /\ \A d \in Device : Pipes(d)

-----------------------------------------------------------------------------
(* Queues *)

LEMMA AtHead ==
    ASSUME NEW S, NEW s \in Seq(S), s # <<>>
    PROVE  /\ Len(s) \in Nat \ {0} /\ Head(s) = s[1] /\ Head(s) \in S /\ 1 \in 1..Len(s)
           /\ Tail(s) \in Seq(S) /\ Len(Tail(s)) = Len(s) - 1
           /\ \A i \in 1..Len(Tail(s)) : Tail(s)[i] = s[i + 1] /\ i + 1 \in 1..Len(s)
           /\ \A i \in 1..Len(s) :
                 i = 1 \/ (i - 1 \in 1..Len(Tail(s)) /\ Tail(s)[i - 1] = s[i])
<1>1. Len(s) \in Nat \ {0} /\ Head(s) = s[1] /\ Head(s) \in S /\ 1 \in 1..Len(s)
  OBVIOUS
<1>2. /\ Tail(s) \in Seq(S) /\ Len(Tail(s)) = Len(s) - 1
      /\ \A i \in 1..Len(Tail(s)) : Tail(s)[i] = s[i + 1] /\ i + 1 \in 1..Len(s)
  BY <1>1
<1>3. ASSUME NEW i \in 1..Len(s), i # 1
      PROVE  i - 1 \in 1..Len(Tail(s)) /\ Tail(s)[i - 1] = s[i]
  <2>1. i - 1 \in 1..Len(Tail(s)) /\ (i - 1) + 1 = i
    BY <1>1, <1>2, <1>3
  <2> QED
    BY <1>2, <2>1
<1> QED
  BY <1>1, <1>2, <1>3

LEMMA AtEnd ==
    ASSUME NEW S, NEW s \in Seq(S), NEW x \in S
    PROVE  /\ Append(s, x) \in Seq(S) /\ Len(s) \in Nat /\ Len(Append(s, x)) = Len(s) + 1
           /\ Append(s, x)[Len(s) + 1] = x /\ Len(s) + 1 \in 1..Len(Append(s, x))
           /\ \A i \in 1..Len(s) : i \in 1..Len(Append(s, x)) /\ Append(s, x)[i] = s[i]
           /\ \A i \in 1..Len(Append(s, x)) : i \in 1..Len(s) \/ i = Len(s) + 1
OBVIOUS

LEMMA ChunkIsNat ==
    ASSUME NEW q \in Seq(Packet), NEW i \in 1..Len(q)
    PROVE  q[i] \in Packet /\ q[i].chunk \in Nat
<1>1. q[i] \in Packet
  OBVIOUS
<1> QED
  BY <1>1 DEF Packet

\* Another packet goes into the shared queue.
LEMMA OtherIn ==
    ASSUME NEW q \in Seq(Packet), NEW d, NEW p \in Packet, ~IsData(p, d)
    PROVE  /\ Distinct(q, d) => Distinct(Append(q, p), d)
           /\ \A a \in Nat : Bounded(q, d, a) => Bounded(Append(q, p), d, a)
           /\ \A n \in Nat : Carries(q, d, n) => Carries(Append(q, p), d, n)
           /\ \A n, a \in Nat : Complete(q, d, n, a) => Complete(Append(q, p), d, n, a)
<1>1. PICK r : r = Append(q, p)
  OBVIOUS
<1>2. /\ Len(q) \in Nat /\ Len(r) = Len(q) + 1 /\ r[Len(q) + 1] = p
      /\ \A i \in 1..Len(q) : i \in 1..Len(r) /\ r[i] = q[i]
      /\ \A i \in 1..Len(r) : i \in 1..Len(q) \/ i = Len(q) + 1
  BY <1>1, AtEnd
<1>3. \A i \in 1..Len(r) : IsData(r[i], d) => i \in 1..Len(q) /\ r[i] = q[i]
  BY <1>2
<1>4. Distinct(q, d) => Distinct(r, d)
  BY <1>3 DEF Distinct
<1>5. ASSUME NEW a \in Nat, Bounded(q, d, a) PROVE Bounded(r, d, a)
  BY <1>3, <1>5 DEF Bounded
<1>6. ASSUME NEW n \in Nat, Carries(q, d, n) PROVE Carries(r, d, n)
  <2> SUFFICES ASSUME NEW i \in 1..Len(r), IsData(r[i], d)
               PROVE  /\ r[i].chunk >= n
                      /\ \A m \in n..(r[i].chunk - 1) :
                            \E j \in 1..(i - 1) : IsData(r[j], d) /\ r[j].chunk = m
    BY DEF Carries
  <2>1. i \in 1..Len(q) /\ r[i] = q[i]
    BY <1>3
  <2>2. /\ q[i].chunk >= n
        /\ \A m \in n..(q[i].chunk - 1) :
              \E j \in 1..(i - 1) : IsData(q[j], d) /\ q[j].chunk = m
    BY <1>6, <2>1 DEF Carries
  <2>3. \A j \in 1..(i - 1) : r[j] = q[j]
    BY <1>2, <2>1
  <2> QED
    BY <2>1, <2>2, <2>3
<1>7. ASSUME NEW n \in Nat, NEW a \in Nat, Complete(q, d, n, a) PROVE Complete(r, d, n, a)
  BY <1>2, <1>7 DEF Complete
<1> QED
  BY <1>1, <1>4, <1>5, <1>6, <1>7

\* ... or the next chunk of d.
LEMMA DataIn ==
    ASSUME NEW q \in Seq(Packet), NEW d \in Device, NEW n \in Nat, NEW a \in Nat,
           Distinct(q, d), Bounded(q, d, a)
    PROVE  /\ Distinct(Append(q, Data(d, a + 1)), d)
           /\ Bounded(Append(q, Data(d, a + 1)), d, a + 1)
           /\ Carries(q, d, n) /\ Complete(q, d, n, a) /\ n <= a + 1 =>
                 /\ Carries(Append(q, Data(d, a + 1)), d, n)
                 /\ Complete(Append(q, Data(d, a + 1)), d, n, a + 1)
<1>1. PICK p, r : p = Data(d, a + 1) /\ r = Append(q, p)
  OBVIOUS
<1>2. p \in Packet /\ IsData(p, d) /\ p.chunk = a + 1
  BY <1>1 DEF Data, Packet, IsData
<1>3. /\ Len(q) \in Nat /\ Len(r) = Len(q) + 1 /\ r[Len(q) + 1] = p
      /\ Len(q) + 1 \in 1..Len(r)
      /\ \A i \in 1..Len(q) : i \in 1..Len(r) /\ r[i] = q[i]
      /\ \A i \in 1..Len(r) : i \in 1..Len(q) \/ i = Len(q) + 1
  BY <1>1, <1>2, AtEnd
<1>4. \A i \in 1..Len(q) : q[i].chunk \in Nat
  BY ChunkIsNat
<1>5. Bounded(r, d, a + 1)
  <2> SUFFICES ASSUME NEW i \in 1..Len(r), IsData(r[i], d) PROVE r[i].chunk <= a + 1
    BY DEF Bounded
  <2>1. CASE i \in 1..Len(q)
    BY <1>3, <1>4, <2>1 DEF Bounded
  <2>2. CASE i = Len(q) + 1
    BY <1>2, <1>3, <2>2
  <2> QED
    BY <1>3, <2>1, <2>2
<1>6. Distinct(r, d)
  <2>1. \A i \in 1..Len(q) : IsData(q[i], d) => q[i].chunk # a + 1
    BY <1>4 DEF Bounded
  <2> QED
    BY <1>2, <1>3, <2>1 DEF Distinct
<1>7. ASSUME Carries(q, d, n), Complete(q, d, n, a), n <= a + 1
      PROVE  Carries(r, d, n) /\ Complete(r, d, n, a + 1)
  <2>1. ASSUME NEW m \in n..(a + 1)
        PROVE  \E j \in 1..Len(r) : IsData(r[j], d) /\ r[j].chunk = m
    <3>1. CASE m = a + 1
      BY <1>2, <1>3, <3>1
    <3>2. CASE m \in n..a
      BY <1>3, <1>7, <3>2 DEF Complete
    <3> QED
      BY <3>1, <3>2
  <2>2. ASSUME NEW i \in 1..Len(r), IsData(r[i], d)
        PROVE  /\ r[i].chunk >= n
               /\ \A m \in n..(r[i].chunk - 1) :
                     \E j \in 1..(i - 1) : IsData(r[j], d) /\ r[j].chunk = m
    <3>1. CASE i \in 1..Len(q)
      <4>1. /\ q[i].chunk >= n
            /\ \A m \in n..(q[i].chunk - 1) :
                  \E j \in 1..(i - 1) : IsData(q[j], d) /\ q[j].chunk = m
        BY <1>3, <1>7, <2>2, <3>1 DEF Carries
      <4>2. r[i] = q[i] /\ \A j \in 1..(i - 1) : r[j] = q[j]
        BY <1>3, <3>1
      <4> QED
        BY <4>1, <4>2
    <3>2. CASE i = Len(q) + 1
      <4>1. r[i].chunk = a + 1 /\ (a + 1) - 1 = a /\ i - 1 = Len(q)
        BY <1>2, <1>3, <3>2
      <4>2. \A m \in n..a : \E j \in 1..Len(q) : IsData(r[j], d) /\ r[j].chunk = m
        BY <1>3, <1>7 DEF Complete
      <4> QED
        BY <1>7, <4>1, <4>2
    <3> QED
      BY <1>3, <3>1, <3>2
  <2> QED
    BY <2>1, <2>2 DEF Carries, Complete
<1> QED
  BY <1>1, <1>5, <1>6, <1>7

\* Any packet leaves the shared queue.
LEMMA AnyOut ==
    ASSUME NEW q \in Seq(Packet), q # <<>>, NEW d
    PROVE  /\ Distinct(q, d) => Distinct(Tail(q), d)
           /\ \A a \in Nat : Bounded(q, d, a) => Bounded(Tail(q), d, a)
<1>1. PICK r : r = Tail(q)
  OBVIOUS
<1>2. /\ Len(q) \in Nat \ {0}
      /\ \A i \in 1..Len(r) : r[i] = q[i + 1] /\ i + 1 \in 1..Len(q)
  BY <1>1, AtHead
<1>3. Distinct(q, d) => Distinct(r, d)
  BY <1>2 DEF Distinct
<1>4. ASSUME NEW a \in Nat, Bounded(q, d, a) PROVE Bounded(r, d, a)
  BY <1>2, <1>4 DEF Bounded
<1> QED
  BY <1>1, <1>3, <1>4

\* It is not a chunk of d,
LEMMA OtherOut ==
    ASSUME NEW q \in Seq(Packet), q # <<>>, NEW d, ~IsData(Head(q), d)
    PROVE  /\ \A n \in Nat : Carries(q, d, n) => Carries(Tail(q), d, n)
           /\ \A n, a \in Nat : Complete(q, d, n, a) => Complete(Tail(q), d, n, a)
<1>1. PICK r : r = Tail(q)
  OBVIOUS
<1>2. /\ Len(q) \in Nat \ {0} /\ Len(r) = Len(q) - 1 /\ ~IsData(q[1], d)
      /\ \A i \in 1..Len(r) : r[i] = q[i + 1] /\ i + 1 \in 1..Len(q)
      /\ \A i \in 1..Len(q) : i = 1 \/ (i - 1 \in 1..Len(r) /\ r[i - 1] = q[i])
  BY <1>1, AtHead
<1>3. ASSUME NEW n \in Nat, Carries(q, d, n) PROVE Carries(r, d, n)
  <2> SUFFICES ASSUME NEW i \in 1..Len(r), IsData(r[i], d)
               PROVE  /\ r[i].chunk >= n
                      /\ \A m \in n..(r[i].chunk - 1) :
                            \E j \in 1..(i - 1) : IsData(r[j], d) /\ r[j].chunk = m
    BY DEF Carries
  <2>1. i + 1 \in 1..Len(q) /\ r[i] = q[i + 1] /\ (i + 1) - 1 = i
    BY <1>2
  <2>2. /\ q[i + 1].chunk >= n
        /\ \A m \in n..(q[i + 1].chunk - 1) :
              \E j \in 1..((i + 1) - 1) : IsData(q[j], d) /\ q[j].chunk = m
    BY <1>3, <2>1 DEF Carries
  <2>3. ASSUME NEW m \in n..(r[i].chunk - 1)
        PROVE  \E j \in 1..(i - 1) : IsData(r[j], d) /\ r[j].chunk = m
    <3>1. PICK j \in 1..i : IsData(q[j], d) /\ q[j].chunk = m
      BY <2>1, <2>2
    <3>2. j # 1 /\ j \in 1..Len(q)
      BY <1>2, <2>1, <3>1
    <3>3. j - 1 \in 1..(i - 1) /\ r[j - 1] = q[j]
      BY <1>2, <3>1, <3>2
    <3> QED
      BY <3>1, <3>3
  <2> QED
    BY <2>1, <2>2, <2>3
<1>4. ASSUME NEW n \in Nat, NEW a \in Nat, Complete(q, d, n, a), NEW m \in n..a
      PROVE  \E j \in 1..Len(r) : IsData(r[j], d) /\ r[j].chunk = m
  <2>1. PICK j \in 1..Len(q) : IsData(q[j], d) /\ q[j].chunk = m
    BY <1>4 DEF Complete
  <2>2. j - 1 \in 1..Len(r) /\ r[j - 1] = q[j]
    BY <1>2, <2>1
  <2> QED
    BY <2>1, <2>2
<1>5. \A n, a \in Nat : Complete(q, d, n, a) => Complete(r, d, n, a)
  BY <1>4 DEF Complete
<1> QED
  BY <1>1, <1>3, <1>5

\* ... or it is the next of them.
LEMMA DataOut ==
    ASSUME NEW q \in Seq(Packet), q # <<>>, NEW d, IsData(Head(q), d), NEW n \in Nat,
           Distinct(q, d), Carries(q, d, n)
    PROVE  /\ Head(q).chunk = n
           /\ Carries(Tail(q), d, n + 1)
           /\ \A a \in Nat : Complete(q, d, n, a) => Complete(Tail(q), d, n + 1, a)
<1>1. PICK r : r = Tail(q)
  OBVIOUS
<1>2. /\ Len(q) \in Nat \ {0} /\ Len(r) = Len(q) - 1 /\ IsData(q[1], d) /\ Head(q) = q[1]
      /\ 1 \in 1..Len(q)
      /\ \A i \in 1..Len(r) : r[i] = q[i + 1] /\ i + 1 \in 1..Len(q)
      /\ \A i \in 1..Len(q) : i = 1 \/ (i - 1 \in 1..Len(r) /\ r[i - 1] = q[i])
  BY <1>1, AtHead
<1>3. q[1].chunk = n
  <2>1. q[1].chunk \in Nat /\ q[1].chunk >= n
    BY <1>2, ChunkIsNat DEF Carries
  <2>2. ASSUME q[1].chunk # n PROVE FALSE
    <3>1. n \in n..(q[1].chunk - 1)
      BY <2>1, <2>2
    <3>2. \E j \in 1..(1 - 1) : IsData(q[j], d) /\ q[j].chunk = n
      BY <1>2, <3>1 DEF Carries
    <3> QED
      BY <3>2
  <2> QED
    BY <2>2
<1>4. \A i \in 1..Len(r) : IsData(r[i], d) => r[i].chunk # n
  BY <1>2, <1>3 DEF Distinct
<1>5. Carries(r, d, n + 1)
  <2> SUFFICES ASSUME NEW i \in 1..Len(r), IsData(r[i], d)
               PROVE  /\ r[i].chunk >= n + 1
                      /\ \A m \in (n + 1)..(r[i].chunk - 1) :
                            \E j \in 1..(i - 1) : IsData(r[j], d) /\ r[j].chunk = m
    BY DEF Carries
  <2>0. i + 1 \in 1..Len(q) /\ r[i] = q[i + 1] /\ (i + 1) - 1 = i
    BY <1>2
  <2>1. i + 1 \in 1..Len(q) /\ r[i] = q[i + 1] /\ (i + 1) - 1 = i /\ r[i].chunk \in Nat
    <3>1. q[i + 1].chunk \in Nat
      BY <2>0, ChunkIsNat
    <3> QED
      BY <2>0, <3>1
  <2>2. /\ q[i + 1].chunk >= n
        /\ \A m \in n..(q[i + 1].chunk - 1) :
              \E j \in 1..((i + 1) - 1) : IsData(q[j], d) /\ q[j].chunk = m
    BY <2>1 DEF Carries
  <2>3. r[i].chunk >= n + 1
    BY <1>4, <2>1, <2>2
  <2>4. ASSUME NEW m \in (n + 1)..(r[i].chunk - 1)
        PROVE  \E j \in 1..(i - 1) : IsData(r[j], d) /\ r[j].chunk = m
    <3>1. PICK j \in 1..i : IsData(q[j], d) /\ q[j].chunk = m
      BY <2>1, <2>2
    <3>2. j # 1 /\ j \in 1..Len(q)
      BY <1>2, <1>3, <2>1, <3>1
    <3>3. j - 1 \in 1..(i - 1) /\ r[j - 1] = q[j]
      BY <1>2, <3>1, <3>2
    <3> QED
      BY <3>1, <3>3
  <2> QED
    BY <2>3, <2>4
<1>6. ASSUME NEW a \in Nat, Complete(q, d, n, a), NEW m \in (n + 1)..a
      PROVE  \E j \in 1..Len(r) : IsData(r[j], d) /\ r[j].chunk = m
  <2>1. PICK j \in 1..Len(q) : IsData(q[j], d) /\ q[j].chunk = m
    BY <1>6 DEF Complete
  <2>2. j - 1 \in 1..Len(r) /\ r[j - 1] = q[j]
    BY <1>2, <1>3, <2>1
  <2> QED
    BY <2>1, <2>2
<1>7. \A a \in Nat : Complete(q, d, n, a) => Complete(r, d, n + 1, a)
  BY <1>6 DEF Complete
<1> QED
  BY <1>1, <1>2, <1>3, <1>5, <1>7

\* A chunk goes into a connection's own queue: it follows, or is behind the end.
LEMMA OwnIn ==
    ASSUME NEW l \in Seq(Packet), NEW p \in Packet, NEW n \in Nat, Follows(l, n),
           p.kind = "data" /\ Quiet(l) => p.chunk = n + Len(l) + 1
    PROVE  /\ Follows(Append(l, p), n)
           /\ p.kind = "data" => (Quiet(l) <=> Quiet(Append(l, p)))
           /\ p.kind # "data" => ~Quiet(Append(l, p))
<1>1. PICK r : r = Append(l, p)
  OBVIOUS
<1>2. /\ Len(l) \in Nat /\ Len(r) = Len(l) + 1 /\ r[Len(l) + 1] = p
      /\ Len(l) + 1 \in 1..Len(r)
      /\ \A i \in 1..Len(l) : i \in 1..Len(r) /\ r[i] = l[i]
      /\ \A i \in 1..Len(r) : i \in 1..Len(l) \/ i = Len(l) + 1
  BY <1>1, AtEnd
<1>3. ASSUME NEW i \in 1..Len(r), \A j \in 1..i : r[j].kind = "data" PROVE r[i].chunk = n + i
  <2>1. CASE i \in 1..Len(l)
    <3>1. \A j \in 1..i : l[j].kind = "data"
      BY <1>2, <1>3, <2>1
    <3> QED
      BY <1>2, <2>1, <3>1 DEF Follows
  <2>2. CASE i = Len(l) + 1
    <3>1. Quiet(l) /\ p.kind = "data"
      BY <1>2, <1>3, <2>2 DEF Quiet
    <3> QED
      BY <1>2, <2>2, <3>1
  <2> QED
    BY <1>2, <2>1, <2>2
<1>4. Follows(r, n)
  BY <1>3 DEF Follows
<1>5. /\ p.kind = "data" => (Quiet(l) <=> Quiet(r))
      /\ p.kind # "data" => ~Quiet(r)
  BY <1>2 DEF Quiet
<1> QED
  BY <1>1, <1>4, <1>5

\* A chunk arrives: it is the next one.
LEMMA OwnOut ==
    ASSUME NEW l \in Seq(Packet), l # <<>>, Head(l).kind = "data", NEW h \in Seq(Nat),
           Counting(h), Follows(l, Len(h))
    PROVE  /\ Append(h, Head(l).chunk) \in Seq(Nat) /\ Len(Append(h, Head(l).chunk)) = Len(h) + 1
           /\ Counting(Append(h, Head(l).chunk))
           /\ Tail(l) \in Seq(Packet) /\ Len(Tail(l)) = Len(l) - 1
           /\ Follows(Tail(l), Len(h) + 1)
           /\ Quiet(Tail(l)) <=> Quiet(l)
<1>1. PICK r, c, k : r = Tail(l) /\ c = Head(l).chunk /\ k = Append(h, c)
  OBVIOUS
<1>2. /\ Len(l) \in Nat \ {0} /\ Head(l) = l[1] /\ 1 \in 1..Len(l) /\ r \in Seq(Packet)
      /\ Len(r) = Len(l) - 1 /\ l[1].kind = "data"
      /\ \A i \in 1..Len(r) : r[i] = l[i + 1] /\ i + 1 \in 1..Len(l)
      /\ \A i \in 1..Len(l) : i = 1 \/ (i - 1 \in 1..Len(r) /\ r[i - 1] = l[i])
  BY <1>1, AtHead
<1>3. c = Len(h) + 1 /\ Len(h) \in Nat /\ c \in Nat
  <2>1. \A j \in 1..1 : l[j].kind = "data"
    BY <1>2
  <2> QED
    BY <1>1, <1>2, <2>1 DEF Follows
<1>4. /\ k \in Seq(Nat) /\ Len(k) = Len(h) + 1 /\ k[Len(h) + 1] = c
      /\ \A i \in 1..Len(h) : k[i] = h[i]
      /\ \A i \in 1..Len(k) : i \in 1..Len(h) \/ i = Len(h) + 1
  BY <1>1, <1>3, AtEnd
<1>5. Counting(k)
  BY <1>3, <1>4 DEF Counting
<1>6. ASSUME NEW i \in 1..Len(r), \A j \in 1..i : r[j].kind = "data"
      PROVE  r[i].chunk = (Len(h) + 1) + i
  <2>1. i + 1 \in 1..Len(l) /\ r[i] = l[i + 1]
    BY <1>2
  <2>2. \A j \in 1..(i + 1) : l[j].kind = "data"
    <3>1. ASSUME NEW j \in 1..(i + 1), j # 1 PROVE l[j].kind = "data"
      <4>1. j \in 1..Len(l) /\ j - 1 \in 1..i
        BY <2>1, <3>1
      <4> QED
        BY <1>2, <1>6, <3>1, <4>1
    <3> QED
      BY <1>2, <3>1
  <2>3. l[i + 1].chunk = Len(h) + (i + 1)
    BY <2>1, <2>2 DEF Follows
  <2> QED
    BY <1>3, <2>1, <2>3
<1>7. Follows(r, Len(h) + 1)
  BY <1>6 DEF Follows
<1>8. Quiet(r) <=> Quiet(l)
  BY <1>2 DEF Quiet
<1> QED
  BY <1>1, <1>2, <1>4, <1>5, <1>7, <1>8

LEMMA EmptyQueue ==
    ASSUME NEW d, NEW n \in Nat, NEW a \in Nat
    PROVE  /\ Distinct(<<>>, d) /\ Bounded(<<>>, d, a) /\ Carries(<<>>, d, n)
           /\ Quiet(<<>>) /\ Follows(<<>>, n) /\ Counting(<<>>)
           /\ ~Mentions(<<>>, d) /\ ~Opens(<<>>, d) /\ OpenFirst(<<>>, d)
           /\ n > a => Complete(<<>>, d, n, a)
BY DEF Distinct, Bounded, Carries, Quiet, Follows, Counting, Mentions, Opens, OpenFirst, Complete

\* Who is named in a queue after a packet is put in,
LEMMA NamedIn ==
    ASSUME NEW q \in Seq(Packet), NEW p \in Packet, NEW d
    PROVE  /\ Mentions(Append(q, p), d) <=> Mentions(q, d) \/ p.device = d
           /\ Opens(Append(q, p), d) <=> Opens(q, d) \/ (p.kind = "open" /\ p.device = d)
           /\ OpenFirst(q, d) /\ (p.kind = "open" /\ p.device = d => ~Mentions(q, d)) =>
                 OpenFirst(Append(q, p), d)
<1>1. PICK r : r = Append(q, p)
  OBVIOUS
<1>2. /\ Len(q) \in Nat /\ Len(r) = Len(q) + 1 /\ r[Len(q) + 1] = p
      /\ Len(q) + 1 \in 1..Len(r)
      /\ \A i \in 1..Len(q) : i \in 1..Len(r) /\ r[i] = q[i]
      /\ \A i \in 1..Len(r) : i \in 1..Len(q) \/ i = Len(q) + 1
  BY <1>1, AtEnd
<1>3. Mentions(r, d) <=> Mentions(q, d) \/ p.device = d
  BY <1>2 DEF Mentions
<1>4. Opens(r, d) <=> Opens(q, d) \/ (p.kind = "open" /\ p.device = d)
  BY <1>2 DEF Opens
<1>5. ASSUME OpenFirst(q, d), p.kind = "open" /\ p.device = d => ~Mentions(q, d)
      PROVE  OpenFirst(r, d)
  <2> SUFFICES ASSUME NEW i \in 1..Len(r), NEW j \in 1..Len(r),
                      r[i].kind = "open", r[i].device = d, r[j].device = d
               PROVE  i <= j
    BY DEF OpenFirst
  <2>1. CASE i \in 1..Len(q) /\ j \in 1..Len(q)
    BY <1>2, <1>5, <2>1 DEF OpenFirst
  <2>2. CASE j = Len(q) + 1
    BY <1>2, <2>2
  <2>3. CASE i = Len(q) + 1 /\ j \in 1..Len(q)
    BY <1>2, <1>5, <2>3 DEF Mentions
  <2> QED
    BY <1>2, <2>1, <2>2, <2>3
<1> QED
  BY <1>1, <1>3, <1>4, <1>5

\* ... and after one is taken.
LEMMA NamedOut ==
    ASSUME NEW q \in Seq(Packet), q # <<>>, NEW d
    PROVE  /\ Mentions(Tail(q), d) => Mentions(q, d)
           /\ Opens(Tail(q), d) => Opens(q, d)
           /\ Opens(q, d) => Opens(Tail(q), d) \/ (Head(q).kind = "open" /\ Head(q).device = d)
           /\ OpenFirst(q, d) =>
                 /\ OpenFirst(Tail(q), d)
                 /\ Head(q).device = d => ~Opens(Tail(q), d)
           /\ Mentions(q, Head(q).device)
           /\ Head(q).kind = "open" => Opens(q, Head(q).device)
<1>1. PICK r : r = Tail(q)
  OBVIOUS
<1>2. /\ Len(q) \in Nat \ {0} /\ Len(r) = Len(q) - 1 /\ Head(q) = q[1] /\ 1 \in 1..Len(q)
      /\ \A i \in 1..Len(r) : r[i] = q[i + 1] /\ i + 1 \in 1..Len(q)
      /\ \A i \in 1..Len(q) : i = 1 \/ (i - 1 \in 1..Len(r) /\ r[i - 1] = q[i])
  BY <1>1, AtHead
<1>3. Mentions(r, d) => Mentions(q, d)
  BY <1>2 DEF Mentions
<1>4. Opens(r, d) => Opens(q, d)
  BY <1>2 DEF Opens
<1>5. Opens(q, d) => Opens(r, d) \/ (Head(q).kind = "open" /\ Head(q).device = d)
  BY <1>2 DEF Opens
<1>6. ASSUME OpenFirst(q, d) PROVE OpenFirst(r, d)
  <2> SUFFICES ASSUME NEW i \in 1..Len(r), NEW j \in 1..Len(r),
                      r[i].kind = "open", r[i].device = d, r[j].device = d
               PROVE  i <= j
    BY DEF OpenFirst
  <2>1. i + 1 <= j + 1
    BY <1>2, <1>6 DEF OpenFirst
  <2> QED
    BY <1>2, <2>1
<1>7. ASSUME OpenFirst(q, d), Head(q).device = d, Opens(r, d) PROVE FALSE
  <2>1. PICK i \in 1..Len(r) : r[i].kind = "open" /\ r[i].device = d
    BY <1>7 DEF Opens
  <2>2. i + 1 <= 1
    BY <1>2, <1>7, <2>1 DEF OpenFirst
  <2> QED
    BY <1>2, <2>2
<1>8. Mentions(q, Head(q).device) /\ (Head(q).kind = "open" => Opens(q, Head(q).device))
  BY <1>2 DEF Mentions, Opens
<1> QED
  BY <1>1, <1>3, <1>4, <1>5, <1>6, <1>7, <1>8

-----------------------------------------------------------------------------
(* What may happen to a pipe *)

\* Something else passes through the shared queue.
LEMMA PipeOtherIn ==
    ASSUME NEW q \in Seq(Packet), NEW l \in Seq(Packet), NEW h \in Seq(Nat), NEW a \in Nat, NEW d,
           NEW p \in Packet, ~IsData(p, d)
    PROVE  /\ Base(q, l, h, a, d) => Base(Append(q, p), l, h, a, d)
           /\ Flows(q, l, h, a, d) => Flows(Append(q, p), l, h, a, d)
           /\ Full(q, l, h, a, d) => Full(Append(q, p), l, h, a, d)
<1>1. Len(h) + Len(l) + 1 \in Nat
  OBVIOUS
<1> QED
  BY <1>1, OtherIn DEF Base, Flows, Full

LEMMA PipeOtherOut ==
    ASSUME NEW q \in Seq(Packet), NEW l \in Seq(Packet), NEW h \in Seq(Nat), NEW a \in Nat, NEW d,
           q # <<>>, ~IsData(Head(q), d)
    PROVE  /\ Base(q, l, h, a, d) => Base(Tail(q), l, h, a, d)
           /\ Flows(q, l, h, a, d) => Flows(Tail(q), l, h, a, d)
           /\ Full(q, l, h, a, d) => Full(Tail(q), l, h, a, d)
<1>1. Len(h) + Len(l) + 1 \in Nat
  OBVIOUS
<1> QED
  BY <1>1, AnyOut, OtherOut DEF Base, Flows, Full

\* The next chunk is sent,
LEMMA PipeSends ==
    ASSUME NEW q \in Seq(Packet), NEW l \in Seq(Packet), NEW h \in Seq(Nat), NEW a \in Nat,
           NEW d \in Device, Base(q, l, h, a, d)
    PROVE  /\ Base(Append(q, Data(d, a + 1)), l, h, a + 1, d)
           /\ Flows(q, l, h, a, d) /\ Full(q, l, h, a, d) =>
                 /\ Flows(Append(q, Data(d, a + 1)), l, h, a + 1, d)
                 /\ Full(Append(q, Data(d, a + 1)), l, h, a + 1, d)
<1>1. PICK n : n = Len(h) + Len(l) + 1
  OBVIOUS
<1>2. n \in Nat /\ Len(h) \in Nat /\ Len(l) \in Nat
  BY <1>1
<1>3. Base(Append(q, Data(d, a + 1)), l, h, a + 1, d)
  BY DataIn DEF Base
<1>4. ASSUME Flows(q, l, h, a, d), Full(q, l, h, a, d)
      PROVE  /\ Flows(Append(q, Data(d, a + 1)), l, h, a + 1, d)
             /\ Full(Append(q, Data(d, a + 1)), l, h, a + 1, d)
  <2>1. Carries(q, d, n) /\ Complete(q, d, n, a) /\ Quiet(l)
    BY <1>1, <1>4 DEF Flows, Full
  <2>2. n <= a + 1 /\ Len(h) + Len(l) <= a + 1
    BY <1>1, <1>2, <1>4 DEF Flows
  <2>3. /\ Carries(Append(q, Data(d, a + 1)), d, n)
        /\ Complete(Append(q, Data(d, a + 1)), d, n, a + 1)
    BY <1>2, <2>1, <2>2, DataIn DEF Base
  <2> QED
    BY <1>1, <2>1, <2>2, <2>3 DEF Flows, Full
<1> QED
  BY <1>3, <1>4

\* ... or did not fit.
LEMMA PipeLoses ==
    ASSUME NEW q \in Seq(Packet), NEW l \in Seq(Packet), NEW h \in Seq(Nat), NEW a \in Nat, NEW d
    PROVE  /\ Base(q, l, h, a, d) => Base(q, l, h, a + 1, d)
           /\ Flows(q, l, h, a, d) => Flows(q, l, h, a + 1, d)
<1>1. Len(h) \in Nat /\ Len(l) \in Nat
  OBVIOUS
<1>2. Bounded(q, d, a) => Bounded(q, d, a + 1)
  BY ChunkIsNat DEF Bounded
<1> QED
  BY <1>1, <1>2 DEF Base, Flows

\* The shared queue is emptied.
LEMMA PipeEmptied ==
    ASSUME NEW q \in Seq(Packet), NEW l \in Seq(Packet), NEW h \in Seq(Nat), NEW a \in Nat, NEW d
    PROVE  /\ Base(q, l, h, a, d) => Base(<<>>, l, h, a, d)
           /\ Flows(q, l, h, a, d) => Flows(<<>>, l, h, a, d)
<1>1. Len(h) + Len(l) + 1 \in Nat
  OBVIOUS
<1> QED
  BY <1>1, EmptyQueue DEF Base, Flows

\* A chunk passes from the shared queue into the connection's own,
LEMMA PipePasses ==
    ASSUME NEW q \in Seq(Packet), NEW l \in Seq(Packet), NEW h \in Seq(Nat), NEW a \in Nat, NEW d,
           q # <<>>, IsData(Head(q), d), Base(q, l, h, a, d),
           Quiet(l) => Flows(q, l, h, a, d)
    PROVE  /\ Base(Tail(q), Append(l, Head(q)), h, a, d)
           /\ Quiet(Append(l, Head(q))) => Quiet(l)
           /\ Flows(q, l, h, a, d) => Flows(Tail(q), Append(l, Head(q)), h, a, d)
           /\ Flows(q, l, h, a, d) /\ Full(q, l, h, a, d) =>
                 Full(Tail(q), Append(l, Head(q)), h, a, d)
<1>1. PICK n : n = Len(h) + Len(l) + 1
  OBVIOUS
<1>2. n \in Nat /\ Len(h) \in Nat /\ Len(l) \in Nat
  BY <1>1
<1>3. Head(q) \in Packet /\ Head(q).kind = "data" /\ Head(q) = q[1] /\ 1 \in 1..Len(q)
  BY AtHead DEF IsData
<1>4. Quiet(l) => Head(q).chunk = n
  BY <1>1, <1>2, DataOut DEF Flows, Base
<1>5. Follows(Append(l, Head(q)), Len(h)) /\ (Quiet(l) <=> Quiet(Append(l, Head(q))))
  BY <1>1, <1>2, <1>3, <1>4, OwnIn DEF Base
<1>6. Base(Tail(q), Append(l, Head(q)), h, a, d)
  BY <1>5, AnyOut DEF Base
<1>7. Len(Append(l, Head(q))) = Len(l) + 1
  BY <1>3, AtEnd
<1>8. ASSUME Flows(q, l, h, a, d)
      PROVE  /\ Flows(Tail(q), Append(l, Head(q)), h, a, d)
             /\ Full(q, l, h, a, d) => Full(Tail(q), Append(l, Head(q)), h, a, d)
  <2>1. Carries(q, d, n) /\ Distinct(q, d) /\ Quiet(l) /\ Bounded(q, d, a)
    BY <1>1, <1>8 DEF Flows, Base
  <2>2. /\ Carries(Tail(q), d, n + 1)
        /\ Complete(q, d, n, a) => Complete(Tail(q), d, n + 1, a)
    BY <1>2, <2>1, DataOut
  <2>3. Len(h) + Len(Append(l, Head(q))) + 1 = n + 1
    BY <1>1, <1>2, <1>7
  <2>4. n <= a /\ Len(h) + Len(Append(l, Head(q))) = n
    BY <1>1, <1>2, <1>3, <1>4, <1>7, <2>1 DEF Bounded
  <2> QED
    BY <1>1, <1>5, <2>1, <2>2, <2>3, <2>4 DEF Flows, Full
<1> QED
  BY <1>5, <1>6, <1>8

\* ... is dropped there, as any packet may be,
LEMMA PipeDrops ==
    ASSUME NEW q \in Seq(Packet), NEW l \in Seq(Packet), NEW h \in Seq(Nat), NEW a \in Nat, NEW d,
           q # <<>>, Base(q, l, h, a, d)
    PROVE  Base(Tail(q), l, h, a, d)
BY AnyOut DEF Base

\* ... and arrives.
LEMMA PipeArrives ==
    ASSUME NEW q \in Seq(Packet), NEW l \in Seq(Packet), NEW h \in Seq(Nat), NEW a \in Nat, NEW d,
           l # <<>>, Head(l).kind = "data", Base(q, l, h, a, d)
    PROVE  /\ Base(q, Tail(l), Append(h, Head(l).chunk), a, d)
           /\ Quiet(Tail(l)) <=> Quiet(l)
           /\ Flows(q, l, h, a, d) => Flows(q, Tail(l), Append(h, Head(l).chunk), a, d)
           /\ Full(q, l, h, a, d) => Full(q, Tail(l), Append(h, Head(l).chunk), a, d)
<1>1. /\ Len(Append(h, Head(l).chunk)) = Len(h) + 1
      /\ Counting(Append(h, Head(l).chunk))
      /\ Len(Tail(l)) = Len(l) - 1
      /\ Follows(Tail(l), Len(h) + 1)
      /\ Quiet(Tail(l)) <=> Quiet(l)
  BY OwnOut DEF Base
<1>2. Base(q, Tail(l), Append(h, Head(l).chunk), a, d)
  BY <1>1 DEF Base
<1>3. Len(h) \in Nat /\ Len(l) \in Nat
  OBVIOUS
<1>4. Len(Append(h, Head(l).chunk)) + Len(Tail(l)) = Len(h) + Len(l)
  BY <1>1, <1>3
<1> QED
  BY <1>1, <1>2, <1>4 DEF Flows, Full

\* The connection's own queue is told the end,
LEMMA PipeTold ==
    ASSUME NEW q \in Seq(Packet), NEW l \in Seq(Packet), NEW h \in Seq(Nat), NEW a \in Nat, NEW d,
           NEW p \in Packet, p.kind # "data", Base(q, l, h, a, d)
    PROVE  Base(q, Append(l, p), h, a, d) /\ ~Quiet(Append(l, p))
<1>1. Len(h) \in Nat
  OBVIOUS
<1> QED
  BY <1>1, OwnIn DEF Base

\* ... or ends.
LEMMA PipeEnds ==
    ASSUME NEW q, NEW l, NEW h \in Seq(Nat), NEW a \in Nat, NEW d, Base(q, l, h, a, d)
    PROVE  Base(q, <<>>, h, a, d)
<1>1. Len(h) \in Nat
  OBVIOUS
<1> QED
  BY <1>1, EmptyQueue DEF Base

-----------------------------------------------------------------------------
(* Types *)

LEMMA TypedIsTypeOK == Typed => TypeOK
<1> SUFFICES ASSUME Typed PROVE TypeOK
  OBVIOUS
<1>1. /\ \A g \in Gen: Len(toHost[g]) <= QueueDepth /\ Len(fromHost[g]) <= QueueDepth
      /\ \A d \in Device: Len(toDevice[d]) <= QueueDepth /\ Len(toLocal[d]) <= QueueDepth
  BY DEF Typed, Queues, Lanes
<1>2. \A d \in Device : asked[d] \in 0..MaxUp[d] /\ said[d] \in 0..MaxDown[d]
  BY TunnelAssumption DEF Typed, Counts
<1> QED
  BY <1>1, <1>2 DEF Typed, TypeOK, Tasks, Table

LEMMA Names == None \notin Gen /\ \A g \in Gen : g \in Nat
BY TunnelAssumption DEF Gen

LEMMA Packets ==
    ASSUME NEW d \in Device
    PROVE  /\ Open(d) \in Packet /\ Open(d).kind = "open" /\ Open(d).device = d
           /\ Closed(d) \in Packet /\ Closed(d).kind = "closed" /\ Closed(d).device = d
           /\ \A n \in Nat : /\ Data(d, n) \in Packet /\ Data(d, n).kind = "data"
                             /\ Data(d, n).device = d
           /\ \A e : ~IsData(Open(d), e) /\ ~IsData(Closed(d), e)
           /\ \A e : e # d => \A n \in Nat : ~IsData(Data(d, n), e)
BY DEF Open, Closed, Data, Packet, IsData

LEMMA LanePut ==
    ASSUME NEW S, NEW queues, Lanes(queues, S), NEW x \in S, NEW p \in Packet, Fits(queues[x])
    PROVE  Lanes([queues EXCEPT ![x] = Append(@, p)], S)
<1>1. queues[x] \in Seq(Packet) /\ Len(queues[x]) < QueueDepth /\ QueueDepth \in Nat
  BY TunnelAssumption DEF Lanes, Fits
<1>2. Append(queues[x], p) \in Seq(Packet) /\ Len(Append(queues[x], p)) <= QueueDepth
  BY <1>1, AtEnd
<1> QED
  BY <1>2 DEF Lanes

LEMMA LaneTake ==
    ASSUME NEW S, NEW queues, Lanes(queues, S), NEW x \in S, queues[x] # <<>>
    PROVE  Lanes([queues EXCEPT ![x] = Tail(@)], S)
<1>1. queues[x] \in Seq(Packet) /\ Len(queues[x]) <= QueueDepth /\ QueueDepth \in Nat
  BY TunnelAssumption DEF Lanes
<1>2. Tail(queues[x]) \in Seq(Packet) /\ Len(Tail(queues[x])) <= QueueDepth
  BY <1>1, AtHead
<1> QED
  BY <1>2 DEF Lanes

LEMMA LaneEmpty ==
    ASSUME NEW S, NEW queues, Lanes(queues, S), NEW x
    PROVE  Lanes([queues EXCEPT ![x] = <<>>], S)
<1>1. <<>> \in Seq(Packet)
  OBVIOUS
<1>2. Len(<<>>) <= QueueDepth
  BY TunnelAssumption
<1> QED
  BY <1>1, <1>2 DEF Lanes

LEMMA LaneDrained ==
    ASSUME NEW queues, Lanes(queues, Device), NEW ds
    PROVE  /\ Lanes(Drained(queues, ds), Device)
           /\ \A d \in Device :
                 \/ Drained(queues, ds)[d] = queues[d]
                 \/ d \in ds /\ Drained(queues, ds)[d] = Append(queues[d], Closed(d))
<1>1. ASSUME NEW d \in Device
      PROVE  /\ Offered(queues[d], Closed(d)) \in Seq(Packet)
             /\ Len(Offered(queues[d], Closed(d))) <= QueueDepth
             /\ queues[d] \in Seq(Packet) /\ Len(queues[d]) <= QueueDepth
             /\ \/ Offered(queues[d], Closed(d)) = queues[d]
                \/ Offered(queues[d], Closed(d)) = Append(queues[d], Closed(d))
  <2>1. queues[d] \in Seq(Packet) /\ Len(queues[d]) <= QueueDepth /\ QueueDepth \in Nat
    BY TunnelAssumption DEF Lanes
  <2>2. Closed(d) \in Packet
    BY Packets
  <2>3. CASE Fits(queues[d])
    <3>1. /\ Append(queues[d], Closed(d)) \in Seq(Packet)
          /\ Len(Append(queues[d], Closed(d))) = Len(queues[d]) + 1 /\ Len(queues[d]) \in Nat
      BY <2>1, <2>2, AtEnd
    <3> QED
      BY <2>1, <2>3, <3>1 DEF Fits, Offered
  <2> QED
    BY <2>1, <2>3 DEF Offered
<1> QED
  BY <1>1 DEF Drained, Lanes

LEMMA CountsUp ==
    ASSUME NEW n \in [Device -> Nat], NEW limit \in [Device -> Nat],
           \A d \in Device : n[d] <= limit[d],
           NEW e \in Device, n[e] < limit[e], NEW more, more = [n EXCEPT ![e] = @ + 1]
    PROVE  /\ more \in [Device -> Nat] /\ (\A d \in Device : more[d] <= limit[d])
           /\ more[e] = n[e] + 1 /\ \A d \in Device : d # e => more[d] = n[d]
<1>1. n[e] \in Nat /\ limit[e] \in Nat /\ n[e] + 1 <= limit[e]
  OBVIOUS
<1>2. /\ more \in [Device -> Nat] /\ more[e] = n[e] + 1
      /\ \A d \in Device : d # e => more[d] = n[d]
  BY <1>1
<1> QED
  BY <1>1, <1>2

LEMMA TableLess ==
    ASSUME NEW table, Table(table), NEW g \in Gen, NEW ds
    PROVE  Table([table EXCEPT ![g] = @ \ ds]) /\ Table([table EXCEPT ![g] = {}])
<1>1. MaxDevices \in Nat
  BY TunnelAssumption
<1>2. ASSUME NEW T, IsFiniteSet(T), Cardinality(T) <= MaxDevices
      PROVE  IsFiniteSet(T \ ds) /\ Cardinality(T \ ds) <= MaxDevices
  <2>1. /\ IsFiniteSet(T \ ds) /\ Cardinality(T \ ds) <= Cardinality(T)
        /\ Cardinality(T) \in Nat
    BY <1>2, FS_Subset, FS_CardinalityType
  <2>2. Cardinality(T \ ds) \in Nat
    BY <2>1, FS_CardinalityType
  <2> QED
    BY <1>1, <1>2, <2>1, <2>2
<1>3. IsFiniteSet({}) /\ Cardinality({}) = 0
  BY FS_EmptySet
<1>4. Table([table EXCEPT ![g] = @ \ ds])
  BY <1>2 DEF Table
<1>5. Table([table EXCEPT ![g] = {}])
  BY <1>1, <1>3 DEF Table
<1> QED
  BY <1>4, <1>5

LEMMA TableMore ==
    ASSUME NEW table, Table(table), NEW g \in Gen, NEW d \in Device,
           Cardinality(table[g]) < MaxDevices
    PROVE  Table([table EXCEPT ![g] = @ \cup {d}])
<1>1. MaxDevices \in Nat /\ IsFiniteSet(table[g]) /\ Cardinality(table[g]) \in Nat
  BY TunnelAssumption, FS_CardinalityType DEF Table
<1>2. /\ IsFiniteSet(table[g] \cup {d})
      /\ \/ Cardinality(table[g] \cup {d}) = Cardinality(table[g])
         \/ Cardinality(table[g] \cup {d}) = Cardinality(table[g]) + 1
  BY <1>1, FS_AddElement
<1> QED
  BY <1>1, <1>2 DEF Table

-----------------------------------------------------------------------------
(* What a step leaves alone *)

\* At most a packet that is not a chunk of d went into q, or out of it.
Passed(q, r, d) ==
    \/ r = q
    \/ \E p \in Packet : ~IsData(p, d) /\ r = Append(q, p)
    \/ q # <<>> /\ ~IsData(Head(q), d) /\ r = Tail(q)

LEMMA PipePassed ==
    ASSUME NEW q \in Seq(Packet), NEW l \in Seq(Packet), NEW h \in Seq(Nat), NEW a \in Nat, NEW d,
           NEW r, Passed(q, r, d)
    PROVE  /\ Base(q, l, h, a, d) => Base(r, l, h, a, d)
           /\ Flows(q, l, h, a, d) => Flows(r, l, h, a, d)
           /\ Full(q, l, h, a, d) => Full(r, l, h, a, d)
BY PipeOtherIn, PipeOtherOut DEF Passed

LEMMA QueueTypes ==
    ASSUME Typed, NEW d \in Device, NEW g \in Gen
    PROVE  /\ toHost[g] \in Seq(Packet) /\ fromHost[g] \in Seq(Packet)
           /\ toDevice[d] \in Seq(Packet) /\ toLocal[d] \in Seq(Packet)
           /\ heard[d] \in Seq(Nat) /\ got[d] \in Seq(Nat)
           /\ asked[d] \in Nat /\ said[d] \in Nat
           /\ locals[g] \subseteq Device /\ devices[g] \subseteq Device
BY DEF Typed, Tasks, Queues, Lanes, Table, Counts

\* The requests of d, and its responses, when only its shared queue is passed.
LEMMA UpStays ==
    ASSUME Typed, NEW d \in Device, NEW g \in Gen, dev[d].gen = g, dev'[d].gen = g, Up(d),
           Passed(toHost[g], toHost'[g], d),
           toLocal'[d] = toLocal[d], heard'[d] = heard[d], asked'[d] = asked[d],
           UpReaches(d)' => UpReaches(d),
           Relays(d)' /\ host'[g] = "up" => Relays(d) /\ host[g] = "up"
    PROVE  Up(d)'
<1>1. /\ Base(toHost[g], toLocal[d], heard[d], asked[d], d)
      /\ UpReaches(d) =>
            /\ Flows(toHost[g], toLocal[d], heard[d], asked[d], d)
            /\ Relays(d) /\ host[g] = "up" =>
                  Full(toHost[g], toLocal[d], heard[d], asked[d], d)
  BY DEF Up, Relays
<1>2. PICK q, l, h, a, r :
          q = toHost[g] /\ l = toLocal[d] /\ h = heard[d] /\ a = asked[d] /\ r = toHost'[g]
  OBVIOUS
<1>3. /\ Base(q, l, h, a, d) => Base(r, l, h, a, d)
      /\ Flows(q, l, h, a, d) => Flows(r, l, h, a, d)
      /\ Full(q, l, h, a, d) => Full(r, l, h, a, d)
  BY <1>2, QueueTypes, PipePassed
<1> QED
  BY <1>1, <1>2, <1>3 DEF Up, In, Relays

LEMMA DownStays ==
    ASSUME Typed, NEW d \in Device, NEW g \in Gen, dev[d].gen = g, dev'[d].gen = g, Down(d),
           Passed(fromHost[g], fromHost'[g], d),
           toDevice'[d] = toDevice[d], got'[d] = got[d], said'[d] = said[d],
           DownReaches(d)' => DownReaches(d),
           proxy'[d] # "done" /\ conn'[g] # "ended" => proxy[d] # "done" /\ conn[g] # "ended"
    PROVE  Down(d)'
<1>1. /\ Base(fromHost[g], toDevice[d], got[d], said[d], d)
      /\ DownReaches(d) =>
            /\ Flows(fromHost[g], toDevice[d], got[d], said[d], d)
            /\ proxy[d] # "done" /\ conn[g] # "ended" =>
                  Full(fromHost[g], toDevice[d], got[d], said[d], d)
  BY DEF Down
<1>2. PICK q, l, h, a, r :
          q = fromHost[g] /\ l = toDevice[d] /\ h = got[d] /\ a = said[d] /\ r = fromHost'[g]
  OBVIOUS
<1>3. /\ Base(q, l, h, a, d) => Base(r, l, h, a, d)
      /\ Flows(q, l, h, a, d) => Flows(r, l, h, a, d)
      /\ Full(q, l, h, a, d) => Full(r, l, h, a, d)
  BY <1>2, QueueTypes, PipePassed
<1> QED
  BY <1>1, <1>2, <1>3 DEF Down

\* A connection nothing was said on yet.
LEMMA PipeFresh ==
    ASSUME NEW q \in Seq(Packet), NEW d, ~Mentions(q, d)
    PROVE  /\ Base(q, <<>>, <<>>, 0, d)
           /\ Flows(q, <<>>, <<>>, 0, d)
           /\ Full(q, <<>>, <<>>, 0, d)
<1>1. \A i \in 1..Len(q) : ~IsData(q[i], d)
  BY DEF Mentions, IsData
<1>2. Distinct(q, d) /\ Bounded(q, d, 0) /\ Carries(q, d, 1) /\ Complete(q, d, 1, 0)
  BY <1>1 DEF Distinct, Bounded, Carries, Complete
<1>3. Quiet(<<>>) /\ Follows(<<>>, 0) /\ Counting(<<>>)
  BY DEF Quiet, Follows, Counting
<1>4. Len(<<>>) = 0 /\ 0 + 0 <= 0 /\ 0 + 0 + 1 = 1
  OBVIOUS
<1> QED
  BY <1>2, <1>3, <1>4 DEF Base, Flows, Full

LEMMA OwnedStays ==
    ASSUME NEW d, Owned(d), dev'[d].gen = dev[d].gen,
           dev'[d].phase = "new" <=> dev[d].phase = "new",
           dev[d].gen # None => (host[dev[d].gen] # "none" => host'[dev[d].gen] # "none"),
           \A g \in Gen : Known(d, g)' => Known(d, g) \/ dev[d].gen = g
    PROVE  Owned(d)'
BY DEF Owned, In

\* A packet is put in one of several queues, if it fits,
OneMore(queues, more, x, p) ==
    more = queues \/ (Fits(queues[x]) /\ more = [queues EXCEPT ![x] = Append(@, p)])

LEMMA Put ==
    ASSUME NEW S, NEW queues, Lanes(queues, S), NEW x \in S, NEW p \in Packet,
           NEW more, OneMore(queues, more, x, p)
    PROVE  /\ Lanes(more, S)
           /\ \A y \in S : y # x => more[y] = queues[y]
           /\ \A y \in S : \A d :
                 /\ Mentions(more[y], d) => Mentions(queues[y], d) \/ (y = x /\ p.device = d)
                 /\ p.kind # "open" \/ p.device # d =>
                       /\ Opens(more[y], d) <=> Opens(queues[y], d)
                       /\ OpenFirst(queues[y], d) => OpenFirst(more[y], d)
                 /\ ~IsData(p, d) => Passed(queues[y], more[y], d)
<1>1. CASE more = queues
  BY <1>1 DEF Passed
<1>2. CASE Fits(queues[x]) /\ more = [queues EXCEPT ![x] = Append(@, p)]
  <2>1. Lanes(more, S)
    BY <1>2, LanePut
  <2>2. /\ \A y \in S : y # x => more[y] = queues[y]
        /\ more[x] = Append(queues[x], p) /\ queues[x] \in Seq(Packet)
    BY <1>2 DEF Lanes
  <2>3. ASSUME NEW d
        PROVE  /\ Mentions(more[x], d) => Mentions(queues[x], d) \/ p.device = d
               /\ p.kind # "open" \/ p.device # d =>
                       /\ Opens(more[x], d) <=> Opens(queues[x], d)
                       /\ OpenFirst(queues[x], d) => OpenFirst(more[x], d)
    BY <2>2, NamedIn
  <2>4. ASSUME NEW d, ~IsData(p, d) PROVE Passed(queues[x], more[x], d)
    BY <2>2, <2>4 DEF Passed
  <2>5. ASSUME NEW y \in S, y # x, NEW d PROVE Passed(queues[y], more[y], d)
    BY <2>2, <2>5 DEF Passed
  <2> QED
    BY <2>1, <2>2, <2>3, <2>4, <2>5
<1> QED
  BY <1>1, <1>2 DEF OneMore

LEMMA PutToHost ==
    ASSUME Lanes(toHost, Gen), NEW g \in Gen, NEW p, ToHost(g, p)
    PROVE  OneMore(toHost, toHost', g, p)
<1>1. CASE HostTakes(g)
  BY <1>1 DEF ToHost, HostTakes, OneMore
<1>2. CASE ~HostTakes(g)
  BY <1>2 DEF ToHost, OneMore, Lanes
<1> QED
  BY <1>1, <1>2

LEMMA PutToBridge ==
    ASSUME Lanes(fromHost, Gen), NEW g \in Gen, NEW p, ToBridge(g, p)
    PROVE  OneMore(fromHost, fromHost', g, p)
<1>1. CASE ConnTakes(g)
  BY <1>1 DEF ToBridge, ConnTakes, OneMore
<1>2. CASE ~ConnTakes(g)
  BY <1>2 DEF ToBridge, OneMore, Lanes
<1> QED
  BY <1>1, <1>2

\* ... is taken from one,
OneLess(queues, fewer, x) == queues[x] # <<>> /\ fewer = [queues EXCEPT ![x] = Tail(@)]

LEMMA Took ==
    ASSUME NEW S, NEW queues, Lanes(queues, S), NEW x \in S,
           NEW fewer, OneLess(queues, fewer, x)
    PROVE  /\ Lanes(fewer, S) /\ fewer[x] = Tail(queues[x])
           /\ \A y \in S : y # x => fewer[y] = queues[y]
           /\ \A y \in S : \A d :
                 /\ Mentions(fewer[y], d) => Mentions(queues[y], d)
                 /\ Opens(fewer[y], d) => Opens(queues[y], d)
                 /\ OpenFirst(queues[y], d) => OpenFirst(fewer[y], d)
                 /\ ~IsData(Head(queues[x]), d) => Passed(queues[y], fewer[y], d)
<1>1. Lanes(fewer, S)
  BY LaneTake DEF OneLess
<1>2. /\ \A y \in S : y # x => fewer[y] = queues[y]
      /\ fewer[x] = Tail(queues[x]) /\ queues[x] \in Seq(Packet) /\ queues[x] # <<>>
  BY DEF Lanes, OneLess
<1>3. ASSUME NEW d
      PROVE  /\ Mentions(fewer[x], d) => Mentions(queues[x], d)
             /\ Opens(fewer[x], d) => Opens(queues[x], d)
             /\ OpenFirst(queues[x], d) => OpenFirst(fewer[x], d)
  BY <1>2, NamedOut
<1>4. ASSUME NEW d, ~IsData(Head(queues[x]), d) PROVE Passed(queues[x], fewer[x], d)
  BY <1>2, <1>4 DEF Passed
<1>5. ASSUME NEW y \in S, y # x, NEW d PROVE Passed(queues[y], fewer[y], d)
  BY <1>2, <1>5 DEF Passed
<1> QED
  BY <1>1, <1>2, <1>3, <1>4, <1>5

\* ... or one is emptied.
Cleared(queues, fewer, x) == fewer = [queues EXCEPT ![x] = <<>>]

LEMMA Emptied ==
    ASSUME NEW S, NEW queues, Lanes(queues, S), NEW x \in S,
           NEW fewer, Cleared(queues, fewer, x)
    PROVE  /\ Lanes(fewer, S) /\ fewer[x] = <<>>
           /\ \A y \in S : y # x => fewer[y] = queues[y]
           /\ \A y \in S : \A d :
                 /\ Mentions(fewer[y], d) => Mentions(queues[y], d)
                 /\ Opens(fewer[y], d) => Opens(queues[y], d)
                 /\ OpenFirst(queues[y], d) => OpenFirst(fewer[y], d)
                 /\ y # x => Passed(queues[y], fewer[y], d)
<1>1. Lanes(fewer, S)
  BY LaneEmpty DEF Cleared
<1>2. fewer[x] = <<>> /\ \A y \in S : y # x => fewer[y] = queues[y]
  BY DEF Lanes, Cleared
<1>3. ASSUME NEW d PROVE ~Mentions(fewer[x], d) /\ ~Opens(fewer[x], d) /\ OpenFirst(fewer[x], d)
  BY <1>2 DEF Mentions, Opens, OpenFirst
<1>4. ASSUME NEW y \in S, y # x, NEW d PROVE Passed(queues[y], fewer[y], d)
  BY <1>2, <1>4 DEF Passed
<1> QED
  BY <1>1, <1>2, <1>3, <1>4

LEMMA Untouched ==
    ASSUME NEW q, NEW d
    PROVE  Passed(q, q, d)
BY DEF Passed

\* A step in which d has no part: at most something of another connection passed
\* through the queues that d shares.
Bystander(d) ==
    /\ host' = host /\ conn' = conn /\ route' = route /\ newest' = newest
    /\ dev'[d] = dev[d] /\ proxy'[d] = proxy[d]
    /\ toDevice'[d] = toDevice[d] /\ toLocal'[d] = toLocal[d]
    /\ asked'[d] = asked[d] /\ heard'[d] = heard[d] /\ said'[d] = said[d] /\ got'[d] = got[d]
    /\ \A g \in Gen :
          /\ d \in devices'[g] <=> d \in devices[g]
          /\ d \in locals'[g] <=> d \in locals[g]
          /\ Mentions(toHost'[g], d) => Mentions(toHost[g], d)
          /\ Mentions(fromHost'[g], d) => Mentions(fromHost[g], d)
          /\ Opens(toHost'[g], d) => Opens(toHost[g], d)
          /\ OpenFirst(toHost[g], d) => OpenFirst(toHost'[g], d)
          /\ Passed(toHost[g], toHost'[g], d) /\ Passed(fromHost[g], fromHost'[g], d)

Sound(d) == Owned(d) /\ Early(d) /\ OpenedOnce(d) /\ Pipes(d)

LEMMA InvIs == TunnelInv <=> Typed /\ InTurn /\ NewestIsRouted /\ \A d \in Device : Sound(d)
BY DEF TunnelInv, Placed, Sound

LEMMA BystanderIsSound ==
    ASSUME Typed, NEW d \in Device, Sound(d), Bystander(d)
    PROVE  Sound(d)'
<1>1. Owned(d)'
  BY DEF Sound, Owned, Known, In, Bystander
<1>2. Early(d)'
  BY DEF Sound, Early, In, Bystander
<1>3. OpenedOnce(d)'
  BY DEF Sound, OpenedOnce, Bystander
<1>4. ASSUME dev'[d].gen # None PROVE Up(d)' /\ Down(d)'
  <2>1. PICK f : f = dev[d].gen
    OBVIOUS
  <2>2. f \in Gen /\ dev'[d].gen = f /\ Up(d) /\ Down(d)
    BY <1>4, <2>1 DEF Bystander, Typed, Tasks, Sound, Pipes
  <2>3. UpReaches(d)' => UpReaches(d)
    BY <2>1, <2>2 DEF Bystander, UpReaches
  <2>4. DownReaches(d)' => DownReaches(d)
    BY <2>1, <2>2 DEF Bystander, DownReaches
  <2>5. Up(d)'
    <3>1. /\ Passed(toHost[f], toHost'[f], d)
          /\ toLocal'[d] = toLocal[d] /\ heard'[d] = heard[d] /\ asked'[d] = asked[d]
          /\ Relays(d)' /\ host'[f] = "up" => Relays(d) /\ host[f] = "up"
      BY <2>2 DEF Bystander, In, Relays
    <3> QED
      BY <2>1, <2>2, <2>3, <3>1, UpStays
  <2>6. Down(d)'
    <3>1. /\ Passed(fromHost[f], fromHost'[f], d)
          /\ toDevice'[d] = toDevice[d] /\ got'[d] = got[d] /\ said'[d] = said[d]
          /\ proxy'[d] # "done" /\ conn'[f] # "ended" => proxy[d] # "done" /\ conn[f] # "ended"
      BY <2>2 DEF Bystander
    <3> QED
      BY <2>1, <2>2, <2>4, <3>1, DownStays
  <2> QED
    BY <2>5, <2>6
<1> QED
  BY <1>1, <1>2, <1>3, <1>4 DEF Sound, Pipes

\* A connection that is past the start, or has a proxy, has a generation.
LEMMA HasGen ==
    ASSUME Typed, NEW d \in Device, Sound(d), ~In(d, "new") \/ proxy[d] # "none"
    PROVE  dev[d].gen \in Gen /\ dev[d].gen # None
<1>1. dev[d] \in [phase : {"new", "found", "entered", "relaying", "writing", "done"}, gen : Gen \cup {None}]
  BY DEF Typed, Tasks
<1>2. ~In(d, "new") => dev[d].gen # None
  BY DEF Sound, Owned
<1>3. In(d, "new") => proxy[d] = "none"
  BY DEF Sound, Early
<1> QED
  BY <1>1, <1>2, <1>3

LEMMA Moved ==
    ASSUME Typed, NEW e \in Device, NEW ph \in {"entered", "relaying", "writing", "done"},
           dev' = [dev EXCEPT ![e].phase = ph]
    PROVE  /\ dev' \in [Device -> [phase : {"new", "found", "entered", "relaying", "writing", "done"},
                                   gen : Gen \cup {None}]]
           /\ dev'[e].phase = ph /\ dev'[e].gen = dev[e].gen
           /\ \A d \in Device : d # e => dev'[d] = dev[d]
BY DEF Typed, Tasks

-----------------------------------------------------------------------------
(* A browser connection *)

\* The relaying ends.
LEMMA WindHolds ==
    ASSUME TunnelInv, NEW e \in Device, Relays(e), Wind(e),
           UNCHANGED <<link, host, route, newest, connector, fromHost, heard, said, got>>,
           \/ asked' = asked
           \/ asked[e] < MaxUp[e] /\ asked' = [asked EXCEPT ![e] = @ + 1]
    PROVE  TunnelInv'
<1>1. Typed /\ InTurn /\ NewestIsRouted /\ \A d \in Device : Sound(d)
  BY InvIs
<1>2. PICK g \in Gen : g = dev[e].gen /\ g # None
  BY <1>1, HasGen DEF In, Relays
<1>3. /\ ToHost(g, Closed(e)) /\ devices' = [devices EXCEPT ![g] = @ \ {e}]
      /\ toDevice' = [toDevice EXCEPT ![e] = <<>>]
      /\ dev' = [dev EXCEPT ![e].phase = "done"]
  BY <1>2 DEF Wind, Moves
<1>4. /\ link' = link /\ host' = host /\ route' = route /\ newest' = newest /\ fromHost' = fromHost
      /\ conn' = conn /\ locals' = locals /\ proxy' = proxy /\ toLocal' = toLocal
      /\ heard' = heard /\ said' = said /\ got' = got
  BY DEF connector
<1>5. Lanes(toHost, Gen) /\ Lanes(fromHost, Gen) /\ Lanes(toDevice, Device) /\ Lanes(toLocal, Device)
  BY <1>1 DEF Typed, Queues
<1>6. /\ Lanes(toHost', Gen)
      /\ \A y \in Gen : \A d :
            /\ Mentions(toHost'[y], d) => Mentions(toHost[y], d) \/ (y = g /\ e = d)
            /\ Opens(toHost'[y], d) <=> Opens(toHost[y], d)
            /\ OpenFirst(toHost[y], d) => OpenFirst(toHost'[y], d)
            /\ Passed(toHost[y], toHost'[y], d)
  <2>1. OneMore(toHost, toHost', g, Closed(e))
    BY <1>3, <1>5, PutToHost
  <2>2. /\ Closed(e) \in Packet /\ Closed(e).kind # "open" /\ Closed(e).device = e
        /\ \A d : ~IsData(Closed(e), d)
    BY Packets
  <2>3. PICK p \in Packet : p = Closed(e)
    BY <2>2
  <2> QED
    BY <1>5, <2>1, <2>2, <2>3, Put
<1>7. /\ Lanes(toDevice', Device) /\ toDevice'[e] = <<>>
      /\ \A y \in Device : y # e => toDevice'[y] = toDevice[y]
  <2>1. Cleared(toDevice, toDevice', e)
    BY <1>3 DEF Cleared
  <2> QED
    BY <1>5, <2>1, Emptied
<1>8. /\ dev' \in [Device -> [phase : {"new", "found", "entered", "relaying", "writing", "done"},
                           gen : Gen \cup {None}]]
      /\ dev'[e].phase = "done" /\ dev'[e].gen = g
      /\ \A d \in Device : d # e => dev'[d] = dev[d]
  BY <1>1, <1>2, <1>3, Moved
<1>9. /\ Table(devices') /\ e \notin devices'[g]
      /\ \A f \in Gen : \A d : /\ d \in devices'[f] => d \in devices[f]
                               /\ d # e => (d \in devices'[f] <=> d \in devices[f])
  <2>1. Table(devices) /\ devices \in [Gen -> SUBSET Device]
    BY <1>1 DEF Typed, Table
  <2>2. Table([devices EXCEPT ![g] = @ \ {e}])
    BY <2>1, TableLess
  <2> QED
    BY <1>3, <2>1, <2>2
<1>10. /\ Counts' /\ (\A d \in Device : d # e => asked'[d] = asked[d])
       /\ asked'[e] = asked[e] \/ asked'[e] = asked[e] + 1
  <2>1. Counts /\ MaxUp \in [Device -> Nat]
    BY <1>1, TunnelAssumption DEF Typed
  <2>2. CASE asked' = asked
    BY <1>4, <2>1, <2>2 DEF Counts
  <2>3. CASE asked[e] < MaxUp[e] /\ asked' = [asked EXCEPT ![e] = @ + 1]
    <3>1. /\ asked' \in [Device -> Nat] /\ (\A d \in Device : asked'[d] <= MaxUp[d])
          /\ asked'[e] = asked[e] + 1 /\ \A d \in Device : d # e => asked'[d] = asked[d]
      BY <2>1, <2>3, CountsUp DEF Counts
    <3> QED
      BY <1>4, <2>1, <3>1 DEF Counts
  <2> QED
    BY <2>2, <2>3
<1>11. Typed'
  <2>1. Tasks'
    BY <1>1, <1>4, <1>8 DEF Typed, Tasks
  <2>2. Queues'
    BY <1>4, <1>5, <1>6, <1>7 DEF Queues
  <2> QED
    BY <1>9, <1>10, <2>1, <2>2 DEF Typed
<1>12. InTurn' /\ NewestIsRouted'
  BY <1>1, <1>4 DEF InTurn, NewestIsRouted
<1>13. ASSUME NEW d \in Device, d # e PROVE Sound(d)'
  <2>1. Bystander(d)
    BY <1>4, <1>6, <1>7, <1>8, <1>9, <1>10, <1>13, Untouched DEF Bystander
  <2> QED
    BY <1>1, <2>1, BystanderIsSound
<1>14. Sound(e)'
  <2>1. Owned(e) /\ Early(e) /\ OpenedOnce(e) /\ Up(e) /\ Down(e)
    BY <1>1, <1>2 DEF Sound, Pipes
  <2>2. Owned(e)'
    BY <1>2, <1>4, <1>6, <1>8, <1>9, <2>1 DEF Owned, Known, In
  <2>3. Early(e)'
    BY <1>4, <1>8, <2>1 DEF Early, In
  <2>4. OpenedOnce(e)'
    BY <1>4, <1>6, <2>1 DEF OpenedOnce
  <2>5. Down(e)'
    <3>1. Base(fromHost[g], <<>>, got[e], said[e], e)
      BY <1>1, <1>2, <2>1, PipeEnds, QueueTypes DEF Down
    <3>2. ~DownReaches(e)'
      BY <1>8, <1>9 DEF DownReaches
    <3> QED
      BY <1>4, <1>7, <1>8, <3>1, <3>2 DEF Down
  <2>6. Up(e)'
    <3>1. PICK q, l, h, a, r : /\ q = toHost[g] /\ l = toLocal[e] /\ h = heard[e]
                               /\ a = asked[e] /\ r = toHost'[g]
      OBVIOUS
    <3>2. /\ q \in Seq(Packet) /\ l \in Seq(Packet) /\ h \in Seq(Nat) /\ a \in Nat
          /\ r \in Seq(Packet) /\ Passed(q, r, e)
      BY <1>1, <1>6, <3>1, QueueTypes DEF Lanes
    <3>3. Base(q, l, h, a, e) /\ (UpReaches(e) => Flows(q, l, h, a, e))
      BY <1>2, <2>1, <3>1 DEF Up, Relays
    <3>4. Base(r, l, h, a, e) /\ (UpReaches(e) => Flows(r, l, h, a, e))
      BY <3>2, <3>3, PipePassed
    <3>5. Base(r, l, h, a + 1, e) /\ (UpReaches(e) => Flows(r, l, h, a + 1, e))
      BY <3>2, <3>4, PipeLoses
    <3>6. UpReaches(e)' => UpReaches(e)
      BY <1>2, <1>4, <1>6, <1>8 DEF UpReaches
    <3> QED
      BY <1>4, <1>8, <1>10, <3>1, <3>4, <3>5, <3>6 DEF Up, In, Relays
  <2> QED
    BY <2>2, <2>3, <2>4, <2>5, <2>6 DEF Sound, Pipes
<1> QED
  BY <1>11, <1>12, <1>13, <1>14 DEF TunnelInv, Placed, Sound

\* The browser's next chunk: it fits, or the relaying ends.
LEMMA BrowserSendsHolds ==
    ASSUME TunnelInv, NEW e \in Device, BrowserSends(e)
    PROVE  TunnelInv'
<1>1. Typed /\ InTurn /\ NewestIsRouted /\ \A d \in Device : Sound(d)
  BY InvIs
<1>2. PICK g \in Gen : g = dev[e].gen /\ g # None
  BY <1>1, HasGen DEF In, BrowserSends
<1>3. CASE ~HostTakes(g)
  <2>1. Wind(e) /\ Relays(e)
    BY <1>2, <1>3 DEF BrowserSends, Relays
  <2> QED
    BY <2>1, WindHolds DEF BrowserSends
<1>4. CASE HostTakes(g)
  <2>1. /\ toHost' = [toHost EXCEPT ![g] = Append(@, Data(e, asked[e] + 1))]
        /\ asked[e] < MaxUp[e] /\ asked' = [asked EXCEPT ![e] = @ + 1]
        /\ dev[e].phase = "relaying" /\ host[g] = "up" /\ Fits(toHost[g])
    <3>1. asked'[e] = asked[e] + 1
      BY <1>1 DEF BrowserSends, Typed, Counts
    <3> QED
      BY <1>2, <1>4, <3>1 DEF BrowserSends, ToHost, HostTakes, In
  <2>2. /\ link' = link /\ host' = host /\ route' = route /\ newest' = newest /\ fromHost' = fromHost
        /\ conn' = conn /\ locals' = locals /\ proxy' = proxy /\ toLocal' = toLocal
        /\ heard' = heard /\ said' = said /\ got' = got
        /\ devices' = devices /\ dev' = dev /\ toDevice' = toDevice
    BY <1>2, <1>4 DEF BrowserSends, connector
  <2>3. PICK p : p = Data(e, asked[e] + 1)
    OBVIOUS
  <2>4. /\ p \in Packet /\ p.kind # "open" /\ p.device = e /\ asked[e] \in Nat
        /\ \A d : d # e => ~IsData(p, d)
    <3>1. asked[e] \in Nat
      BY <1>1, QueueTypes
    <3>2. asked[e] + 1 \in Nat
      BY <3>1
    <3> QED
      BY <2>3, <3>1, <3>2, Packets
  <2>5. /\ Lanes(toHost, Gen) /\ Lanes(toHost', Gen) /\ toHost'[g] = Append(toHost[g], p)
        /\ \A y \in Gen : \A d :
              /\ Mentions(toHost'[y], d) => Mentions(toHost[y], d) \/ (y = g /\ e = d)
              /\ Opens(toHost'[y], d) <=> Opens(toHost[y], d)
              /\ OpenFirst(toHost[y], d) => OpenFirst(toHost'[y], d)
              /\ d # e => Passed(toHost[y], toHost'[y], d)
    <3>1. OneMore(toHost, toHost', g, p) /\ Lanes(toHost, Gen)
      BY <1>1, <2>1, <2>3 DEF OneMore, Typed, Queues
    <3>2. toHost'[g] = Append(toHost[g], p)
      BY <2>1, <2>3, <3>1 DEF Lanes
    <3>3. /\ Lanes(toHost', Gen)
          /\ \A y \in Gen : \A d :
                /\ Mentions(toHost'[y], d) => Mentions(toHost[y], d) \/ (y = g /\ p.device = d)
                /\ Opens(toHost'[y], d) <=> Opens(toHost[y], d)
                /\ OpenFirst(toHost[y], d) => OpenFirst(toHost'[y], d)
                /\ ~IsData(p, d) => Passed(toHost[y], toHost'[y], d)
      BY <2>4, <3>1, Put
    <3> QED
      BY <2>4, <3>1, <3>2, <3>3
  <2>6. /\ Counts' /\ asked'[e] = asked[e] + 1
        /\ \A d \in Device : d # e => asked'[d] = asked[d]
    <3>1. Counts /\ MaxUp \in [Device -> Nat]
      BY <1>1, TunnelAssumption DEF Typed
    <3>2. /\ asked' \in [Device -> Nat] /\ (\A d \in Device : asked'[d] <= MaxUp[d])
          /\ asked'[e] = asked[e] + 1 /\ \A d \in Device : d # e => asked'[d] = asked[d]
      BY <2>1, <3>1, CountsUp DEF Counts
    <3> QED
      BY <2>2, <3>1, <3>2 DEF Counts
  <2>7. Typed'
    BY <1>1, <2>2, <2>5, <2>6 DEF Typed, Tasks, Queues
  <2>8. InTurn' /\ NewestIsRouted'
    BY <1>1, <2>2 DEF InTurn, NewestIsRouted
  <2>9. ASSUME NEW d \in Device, d # e PROVE Sound(d)'
    <3>1. Bystander(d)
      BY <2>2, <2>5, <2>6, <2>9, Untouched DEF Bystander
    <3> QED
      BY <1>1, <3>1, BystanderIsSound
  <2>10. Sound(e)'
    <3>1. Owned(e) /\ Early(e) /\ OpenedOnce(e) /\ Up(e) /\ Down(e)
      BY <1>1, <1>2 DEF Sound, Pipes
    <3>2. Owned(e)'
      BY <1>2, <2>2, <2>5, <3>1 DEF Owned, Known, In
    <3>3. Early(e)'
      BY <2>1, <2>2, <3>1 DEF Early, In
    <3>4. OpenedOnce(e)'
      BY <2>2, <2>5, <3>1 DEF OpenedOnce
    <3>5. Down(e)'
      BY <2>2, <3>1 DEF Down, DownReaches
    <3>6. Up(e)'
      <4>1. PICK q, l, h, a : q = toHost[g] /\ l = toLocal[e] /\ h = heard[e] /\ a = asked[e]
        OBVIOUS
      <4>2. q \in Seq(Packet) /\ l \in Seq(Packet) /\ h \in Seq(Nat) /\ a \in Nat
        BY <1>1, <4>1, QueueTypes
      <4>3. /\ Base(q, l, h, a, e)
            /\ UpReaches(e) => Flows(q, l, h, a, e) /\ Full(q, l, h, a, e)
        BY <1>2, <2>1, <3>1, <4>1 DEF Up, In, Relays
      <4>4. p = Data(e, a + 1)
        BY <2>3, <4>1
      <4>5. /\ Base(Append(q, p), l, h, a + 1, e)
            /\ UpReaches(e) => /\ Flows(Append(q, p), l, h, a + 1, e)
                               /\ Full(Append(q, p), l, h, a + 1, e)
        BY <4>2, <4>3, <4>4, PipeSends
      <4>6. UpReaches(e)' => UpReaches(e)
        BY <1>2, <2>2, <2>5 DEF UpReaches
      <4> QED
        BY <1>2, <2>2, <2>5, <2>6, <4>1, <4>5, <4>6 DEF Up, In, Relays
    <3> QED
      BY <3>2, <3>3, <3>4, <3>5, <3>6 DEF Sound, Pipes
  <2> QED
    BY <2>7, <2>8, <2>9, <2>10 DEF TunnelInv, Placed, Sound
<1> QED
  BY <1>3, <1>4

LEMMA BrowserLeavesHolds ==
    ASSUME TunnelInv, NEW e \in Device, BrowserLeaves(e) \/ DeviceAlone(e) \/ DeviceBreaks(e)
    PROVE  TunnelInv'
<1>1. Relays(e) /\ Wind(e)
  BY DEF BrowserLeaves, DeviceAlone, DeviceBreaks, Relays
<1>2. UNCHANGED <<link, host, route, newest, connector, fromHost, heard, said, got>> /\ asked' = asked
  BY DEF BrowserLeaves, DeviceAlone, DeviceBreaks, data
<1> QED
  BY <1>1, <1>2, WindHolds

\* What comes for the browser: a chunk, or the end.
LEMMA DeviceTakesHolds ==
    ASSUME TunnelInv, NEW e \in Device, DeviceTakes(e)
    PROVE  TunnelInv'
<1>1. Typed /\ InTurn /\ NewestIsRouted /\ \A d \in Device : Sound(d)
  BY InvIs
<1>2. PICK g \in Gen : g = dev[e].gen /\ g # None
  BY <1>1, HasGen DEF In, DeviceTakes
<1>3. CASE Head(toDevice[e]).kind # "data"
  <2>1. Wind(e) /\ Relays(e)
    BY <1>3 DEF DeviceTakes, Relays
  <2>2. UNCHANGED <<link, host, route, newest, connector, fromHost, heard, said, got>> /\ asked' = asked
    BY <1>3 DEF DeviceTakes
  <2> QED
    BY <2>1, <2>2, WindHolds
<1>4. CASE Head(toDevice[e]).kind = "data"
  <2>1. /\ got' = [got EXCEPT ![e] = Append(@, Head(toDevice[e]).chunk)]
        /\ OneLess(toDevice, toDevice', e) /\ dev[e].phase = "relaying"
        /\ dev' = [dev EXCEPT ![e].phase = "writing"]
    BY <1>4 DEF DeviceTakes, OneLess, In, Moves
  <2>2. /\ link' = link /\ host' = host /\ route' = route /\ newest' = newest /\ fromHost' = fromHost
        /\ conn' = conn /\ locals' = locals /\ proxy' = proxy /\ toLocal' = toLocal
        /\ asked' = asked /\ heard' = heard /\ said' = said
        /\ devices' = devices /\ toHost' = toHost
    BY <1>4 DEF DeviceTakes, connector
  <2>3. /\ Lanes(toDevice, Device) /\ Lanes(toDevice', Device)
        /\ toDevice'[e] = Tail(toDevice[e]) /\ toDevice[e] # <<>>
        /\ \A d \in Device : d # e => toDevice'[d] = toDevice[d]
    <3>1. Lanes(toDevice, Device)
      BY <1>1 DEF Typed, Queues
    <3>2. toDevice[e] # <<>>
      BY <2>1 DEF OneLess
    <3> QED
      BY <2>1, <3>1, <3>2, Took
  <2>4. PICK l, h, c : l = toDevice[e] /\ h = got[e] /\ c = Head(l).chunk
    OBVIOUS
  <2>5. /\ l \in Seq(Packet) /\ h \in Seq(Nat) /\ l # <<>> /\ Head(l).kind = "data"
        /\ Head(l) \in Packet /\ c \in Nat
    <3>1. l \in Seq(Packet) /\ h \in Seq(Nat) /\ l # <<>>
      BY <1>1, <2>3, <2>4, QueueTypes
    <3>2. Head(l) \in Packet
      BY <3>1, AtHead
    <3> QED
      BY <1>4, <2>4, <3>1, <3>2 DEF Packet
  <2>6. /\ got' \in [Device -> Seq(Nat)] /\ got'[e] = Append(h, c)
        /\ \A d \in Device : d # e => got'[d] = got[d]
    <3>1. Append(h, c) \in Seq(Nat)
      BY <2>5, AtEnd
    <3>2. got \in [Device -> Seq(Nat)] /\ got' = [got EXCEPT ![e] = Append(h, c)]
      BY <1>1, <2>1, <2>4 DEF Typed, Counts
    <3> QED
      BY <3>1, <3>2
  <2>7. /\ dev' \in [Device -> [phase : {"new", "found", "entered", "relaying", "writing", "done"},
                                 gen : Gen \cup {None}]]
         /\ dev'[e].phase = "writing" /\ dev'[e].gen = g
         /\ \A d \in Device : d # e => dev'[d] = dev[d]
    BY <1>1, <1>2, <2>1, Moved
  <2>8. Typed'
    BY <1>1, <2>2, <2>3, <2>6, <2>7 DEF Typed, Tasks, Queues, Counts
  <2>9. InTurn' /\ NewestIsRouted'
    BY <1>1, <2>2 DEF InTurn, NewestIsRouted
  <2>10. ASSUME NEW d \in Device, d # e PROVE Sound(d)'
    <3>1. Bystander(d)
      BY <2>2, <2>3, <2>6, <2>10, <2>7, Untouched DEF Bystander
    <3> QED
      BY <1>1, <3>1, BystanderIsSound
  <2>11. Sound(e)'
    <3>1. Owned(e) /\ Early(e) /\ OpenedOnce(e) /\ Up(e) /\ Down(e)
      BY <1>1, <1>2 DEF Sound, Pipes
    <3>2. Owned(e)'
      BY <1>2, <2>1, <2>2, <2>7, <3>1 DEF Owned, Known, In
    <3>3. Early(e)'
      BY <2>1, <2>2, <2>7, <3>1 DEF Early, In
    <3>4. OpenedOnce(e)'
      BY <2>2, <3>1 DEF OpenedOnce
    <3>5. Up(e)'
      <4>1. UpReaches(e)' => UpReaches(e)
        BY <1>2, <2>2, <2>7 DEF UpReaches
      <4> QED
        BY <1>2, <2>1, <2>2, <2>7, <3>1, <4>1 DEF Up, In, Relays
    <3>6. Down(e)'
      <4>1. PICK q, a : q = fromHost[g] /\ a = said[e]
        OBVIOUS
      <4>2. q \in Seq(Packet) /\ a \in Nat
        BY <1>1, <4>1, QueueTypes
      <4>3. /\ Base(q, l, h, a, e)
            /\ DownReaches(e) =>
                  /\ Flows(q, l, h, a, e)
                  /\ proxy[e] # "done" /\ conn[g] # "ended" => Full(q, l, h, a, e)
        BY <1>2, <2>4, <3>1, <4>1 DEF Down
      <4>4. /\ Base(q, Tail(l), Append(h, c), a, e)
            /\ Quiet(Tail(l)) <=> Quiet(l)
            /\ Flows(q, l, h, a, e) => Flows(q, Tail(l), Append(h, c), a, e)
            /\ Full(q, l, h, a, e) => Full(q, Tail(l), Append(h, c), a, e)
        BY <2>4, <2>5, <4>2, <4>3, PipeArrives
      <4>5. DownReaches(e)' => DownReaches(e)
        BY <1>2, <2>2, <2>3, <2>4, <2>7, <4>4 DEF DownReaches
      <4> QED
        BY <1>2, <2>2, <2>3, <2>4, <2>6, <2>7, <4>1, <4>3, <4>4, <4>5 DEF Down
    <3> QED
      BY <3>2, <3>3, <3>4, <3>5, <3>6 DEF Sound, Pipes
  <2> QED
    BY <2>8, <2>9, <2>10, <2>11 DEF TunnelInv, Placed, Sound
<1> QED
  BY <1>3, <1>4

\* The write is done.
LEMMA DeviceWritesHolds ==
    ASSUME TunnelInv, NEW e \in Device, DeviceWrites(e)
    PROVE  TunnelInv'
<1>1. Typed /\ InTurn /\ NewestIsRouted /\ \A d \in Device : Sound(d)
  BY InvIs
<1>2. PICK g \in Gen : g = dev[e].gen /\ g # None
  BY <1>1, HasGen DEF In, DeviceWrites
<1>3. /\ link' = link /\ host' = host /\ route' = route /\ newest' = newest
      /\ conn' = conn /\ locals' = locals /\ proxy' = proxy /\ toLocal' = toLocal
      /\ asked' = asked /\ heard' = heard /\ said' = said /\ got' = got
      /\ devices' = devices /\ toDevice' = toDevice /\ toHost' = toHost /\ fromHost' = fromHost
      /\ dev' = [dev EXCEPT ![e].phase = "relaying"] /\ dev[e].phase = "writing"
  BY DEF DeviceWrites, connector, data, In, Moves
<1>4. /\ dev' \in [Device -> [phase : {"new", "found", "entered", "relaying", "writing", "done"},
                              gen : Gen \cup {None}]]
      /\ dev'[e].phase = "relaying" /\ dev'[e].gen = g
      /\ \A d \in Device : d # e => dev'[d] = dev[d]
  BY <1>1, <1>2, <1>3, Moved
<1>5. Typed'
  BY <1>1, <1>3, <1>4 DEF Typed, Tasks, Queues, Counts
<1>6. InTurn' /\ NewestIsRouted'
  BY <1>1, <1>3 DEF InTurn, NewestIsRouted
<1>7. ASSUME NEW d \in Device, d # e PROVE Sound(d)'
  <2>1. Bystander(d)
    BY <1>3, <1>4, <1>7, Untouched DEF Bystander
  <2> QED
    BY <1>1, <2>1, BystanderIsSound
<1>8. Sound(e)'
  <2>1. Owned(e) /\ Early(e) /\ OpenedOnce(e) /\ Up(e) /\ Down(e)
    BY <1>1, <1>2 DEF Sound, Pipes
  <2>2. Owned(e)'
    BY <1>2, <1>3, <1>4, <2>1 DEF Owned, Known, In
  <2>3. Early(e)' /\ OpenedOnce(e)'
    BY <1>3, <1>4, <2>1 DEF Early, In, OpenedOnce
  <2>4. UpReaches(e)' => UpReaches(e)
    BY <1>2, <1>3, <1>4 DEF UpReaches
  <2>5. Up(e)'
    BY <1>2, <1>3, <1>4, <2>1, <2>4 DEF Up, In, Relays
  <2>6. DownReaches(e)' => DownReaches(e)
    BY <1>2, <1>3, <1>4 DEF DownReaches
  <2>7. Down(e)'
    BY <1>2, <1>3, <1>4, <2>1, <2>6 DEF Down
  <2> QED
    BY <2>2, <2>3, <2>5, <2>7 DEF Sound, Pipes
<1> QED
  BY <1>5, <1>6, <1>7, <1>8 DEF TunnelInv, Placed, Sound

\* A connection finds the route, and nothing was said on it yet.
LEMMA FindHolds ==
    ASSUME TunnelInv, NEW e \in Device, Find(e)
    PROVE  TunnelInv'
<1>1. Typed /\ InTurn /\ NewestIsRouted /\ \A d \in Device : Sound(d)
  BY InvIs
<1>2. PICK g \in Gen : g = route /\ g # None
  BY <1>1 DEF Find, Typed, Tasks
<1>3. /\ link' = link /\ host' = host /\ route' = route /\ newest' = newest /\ fromHost' = fromHost
      /\ conn' = conn /\ locals' = locals /\ proxy' = proxy /\ toLocal' = toLocal
      /\ asked' = asked /\ heard' = heard /\ said' = said /\ got' = got
      /\ devices' = devices /\ toDevice' = toDevice /\ toHost' = toHost
      /\ dev' = [dev EXCEPT ![e] = [phase |-> "found", gen |-> g]] /\ dev[e].phase = "new"
  BY <1>2 DEF Find, connector, data, In
<1>4. /\ dev' \in [Device -> [phase : {"new", "found", "entered", "relaying", "writing", "done"},
                              gen : Gen \cup {None}]]
      /\ dev'[e].phase = "found" /\ dev'[e].gen = g
      /\ \A d \in Device : d # e => dev'[d] = dev[d]
  BY <1>1, <1>3 DEF Typed, Tasks
<1>5. Typed'
  BY <1>1, <1>3, <1>4 DEF Typed, Tasks, Queues, Counts
<1>6. InTurn' /\ NewestIsRouted'
  BY <1>1, <1>3 DEF InTurn, NewestIsRouted
<1>7. ASSUME NEW d \in Device, d # e PROVE Sound(d)'
  <2>1. Bystander(d)
    BY <1>3, <1>4, <1>7, Untouched DEF Bystander
  <2> QED
    BY <1>1, <2>1, BystanderIsSound
<1>8. Sound(e)'
  <2>1. Owned(e) /\ Early(e) /\ OpenedOnce(e)
    BY <1>1 DEF Sound
  <2>2. /\ toDevice[e] = <<>> /\ asked[e] = 0 /\ got[e] = <<>> /\ proxy[e] = "none"
        /\ said[e] = 0 /\ heard[e] = <<>> /\ toLocal[e] = <<>>
        /\ \A f \in Gen : /\ e \notin devices[f] /\ e \notin locals[f]
                          /\ ~Mentions(toHost[f], e) /\ ~Mentions(fromHost[f], e)
    BY <1>3, <2>1 DEF Early, In
  <2>3. host[g] # "none"
    BY <1>1, <1>2 DEF NewestIsRouted
  <2>4. Owned(e)'
    BY <1>2, <1>3, <1>4, <2>2, <2>3 DEF Owned, Known, In
  <2>5. Early(e)'
    BY <1>3, <1>4, <2>2 DEF Early, In
  <2>6. OpenedOnce(e)'
    BY <1>3, <2>1 DEF OpenedOnce
  <2>7. toHost[g] \in Seq(Packet) /\ fromHost[g] \in Seq(Packet)
    BY <1>1, QueueTypes
  <2>8. /\ Base(toHost[g], <<>>, <<>>, 0, e) /\ Flows(toHost[g], <<>>, <<>>, 0, e)
        /\ Full(toHost[g], <<>>, <<>>, 0, e)
    BY <2>2, <2>7, PipeFresh
  <2>9. /\ Base(fromHost[g], <<>>, <<>>, 0, e) /\ Flows(fromHost[g], <<>>, <<>>, 0, e)
        /\ Full(fromHost[g], <<>>, <<>>, 0, e)
    BY <2>2, <2>7, PipeFresh
  <2>10. Up(e)' /\ Down(e)'
    BY <1>3, <1>4, <2>2, <2>8, <2>9 DEF Up, Down, Relays
  <2> QED
    BY <2>4, <2>5, <2>6, <2>10 DEF Sound, Pipes
<1> QED
  BY <1>5, <1>6, <1>7, <1>8 DEF TunnelInv, Placed, Sound

\* It enters the table of its generation, if there is room.
LEMMA EnterHolds ==
    ASSUME TunnelInv, NEW e \in Device, Enter(e)
    PROVE  TunnelInv'
<1>1. Typed /\ InTurn /\ NewestIsRouted /\ \A d \in Device : Sound(d)
  BY InvIs
<1>2. PICK g \in Gen : g = dev[e].gen /\ g # None
  BY <1>1, HasGen DEF In, Enter
<1>3. /\ link' = link /\ host' = host /\ route' = route /\ newest' = newest /\ fromHost' = fromHost
      /\ conn' = conn /\ locals' = locals /\ proxy' = proxy /\ toLocal' = toLocal
      /\ asked' = asked /\ heard' = heard /\ said' = said /\ got' = got
      /\ toDevice' = toDevice /\ toHost' = toHost /\ dev[e].phase = "found"
  BY DEF Enter, connector, data, In
<1>4. \/ /\ Cardinality(devices[g]) < MaxDevices
         /\ devices' = [devices EXCEPT ![g] = @ \cup {e}]
         /\ dev' = [dev EXCEPT ![e].phase = "entered"]
      \/ devices' = devices /\ dev' = [dev EXCEPT ![e].phase = "done"]
  BY <1>2 DEF Enter, Moves
<1>5. /\ dev' \in [Device -> [phase : {"new", "found", "entered", "relaying", "writing", "done"},
                              gen : Gen \cup {None}]]
      /\ dev'[e].phase \in {"entered", "done"} /\ dev'[e].gen = g
      /\ \A d \in Device : d # e => dev'[d] = dev[d]
  BY <1>1, <1>2, <1>4, Moved
<1>6. /\ Table(devices')
      /\ \A f \in Gen : \A d : d \in devices'[f] => d \in devices[f] \/ (f = g /\ d = e)
      /\ \A f \in Gen : \A d : d \in devices[f] => d \in devices'[f]
  <2>1. Table(devices) /\ devices \in [Gen -> SUBSET Device]
    BY <1>1 DEF Typed, Table
  <2>2. CASE devices' = devices
    BY <2>1, <2>2
  <2>3. CASE Cardinality(devices[g]) < MaxDevices /\ devices' = [devices EXCEPT ![g] = @ \cup {e}]
    <3>1. Table([devices EXCEPT ![g] = @ \cup {e}])
      BY <2>1, <2>3, TableMore
    <3> QED
      BY <2>1, <2>3, <3>1
  <2> QED
    BY <1>4, <2>2, <2>3
<1>7. Typed'
  BY <1>1, <1>3, <1>5, <1>6 DEF Typed, Tasks, Queues, Counts
<1>8. InTurn' /\ NewestIsRouted'
  BY <1>1, <1>3 DEF InTurn, NewestIsRouted
<1>9. ASSUME NEW d \in Device, d # e PROVE Sound(d)'
  <2>1. Bystander(d)
    BY <1>3, <1>5, <1>6, <1>9, Untouched DEF Bystander
  <2> QED
    BY <1>1, <2>1, BystanderIsSound
<1>10. Sound(e)'
  <2>1. Owned(e) /\ Early(e) /\ OpenedOnce(e) /\ Up(e) /\ Down(e)
    BY <1>1, <1>2 DEF Sound, Pipes
  <2>2. /\ toDevice[e] = <<>> /\ got[e] = <<>> /\ proxy[e] = "none" /\ said[e] = 0
        /\ ~Mentions(fromHost[g], e)
    BY <1>3, <2>1 DEF Early, In
  <2>3. Owned(e)'
    BY <1>2, <1>3, <1>5, <1>6, <2>1 DEF Owned, Known, In
  <2>4. Early(e)'
    BY <1>3, <1>5, <2>1 DEF Early, In
  <2>5. OpenedOnce(e)'
    BY <1>3, <2>1 DEF OpenedOnce
  <2>6. Up(e)'
    <3>1. UpReaches(e)' => UpReaches(e)
      BY <1>2, <1>3, <1>5 DEF UpReaches
    <3>2. ~Relays(e)'
      BY <1>5 DEF Relays, In
    <3> QED
      BY <1>2, <1>3, <1>5, <2>1, <3>1, <3>2 DEF Up, In, Relays
  <2>7. Down(e)'
    <3>1. fromHost[g] \in Seq(Packet)
      BY <1>1, QueueTypes
    <3>2. /\ Base(fromHost[g], <<>>, <<>>, 0, e) /\ Flows(fromHost[g], <<>>, <<>>, 0, e)
          /\ Full(fromHost[g], <<>>, <<>>, 0, e)
      BY <2>2, <3>1, PipeFresh
    <3> QED
      BY <1>3, <1>5, <2>2, <3>2 DEF Down
  <2> QED
    BY <2>3, <2>4, <2>5, <2>6, <2>7 DEF Sound, Pipes
<1> QED
  BY <1>7, <1>8, <1>9, <1>10 DEF TunnelInv, Placed, Sound

\* It opens, and relays from then on, or leaves the table again.
LEMMA OpenTunnelHolds ==
    ASSUME TunnelInv, NEW e \in Device, OpenTunnel(e)
    PROVE  TunnelInv'
<1>1. Typed /\ InTurn /\ NewestIsRouted /\ \A d \in Device : Sound(d)
  BY InvIs
<1>2. PICK g \in Gen : g = dev[e].gen /\ g # None
  BY <1>1, HasGen DEF In, OpenTunnel
<1>3. /\ link' = link /\ host' = host /\ route' = route /\ newest' = newest /\ fromHost' = fromHost
      /\ conn' = conn /\ locals' = locals /\ proxy' = proxy /\ toLocal' = toLocal
      /\ asked' = asked /\ heard' = heard /\ said' = said /\ got' = got
      /\ toDevice' = toDevice /\ dev[e].phase = "entered"
  BY DEF OpenTunnel, connector, data, In
<1>4. \/ /\ HostTakes(g) /\ toHost' = [toHost EXCEPT ![g] = Append(@, Open(e))]
         /\ devices' = devices /\ dev' = [dev EXCEPT ![e].phase = "relaying"]
      \/ /\ devices' = [devices EXCEPT ![g] = @ \ {e}] /\ dev' = [dev EXCEPT ![e].phase = "done"]
         /\ toHost' = toHost
  BY <1>2 DEF OpenTunnel, Moves, ToHost
<1>5. /\ dev' \in [Device -> [phase : {"new", "found", "entered", "relaying", "writing", "done"},
                              gen : Gen \cup {None}]]
      /\ dev'[e].phase \in {"relaying", "done"} /\ dev'[e].gen = g
      /\ dev'[e].phase = "relaying" => HostTakes(g) /\ toHost' = [toHost EXCEPT ![g] = Append(@, Open(e))]
      /\ dev'[e].phase = "done" => toHost' = toHost
      /\ \A d \in Device : d # e => dev'[d] = dev[d]
  BY <1>1, <1>2, <1>4, Moved
<1>6. /\ Table(devices')
      /\ \A f \in Gen : \A d : d \in devices'[f] => d \in devices[f]
      /\ \A f \in Gen : \A d : d # e => (d \in devices'[f] <=> d \in devices[f])
  <2>1. Table(devices) /\ devices \in [Gen -> SUBSET Device]
    BY <1>1 DEF Typed, Table
  <2>2. Table([devices EXCEPT ![g] = @ \ {e}])
    BY <2>1, TableLess
  <2> QED
    BY <1>4, <2>1, <2>2
<1>7. PICK p : p = Open(e)
  OBVIOUS
<1>8. p \in Packet /\ p.kind = "open" /\ p.device = e /\ \A d : ~IsData(p, d)
  BY <1>7, Packets
<1>9. /\ Lanes(toHost, Gen) /\ Lanes(toHost', Gen)
      /\ \A y \in Gen : y # g => toHost'[y] = toHost[y]
      /\ \A y \in Gen : \A d :
              /\ Mentions(toHost'[y], d) => Mentions(toHost[y], d) \/ (y = g /\ e = d)
              /\ d # e => /\ Opens(toHost'[y], d) <=> Opens(toHost[y], d)
                          /\ OpenFirst(toHost[y], d) => OpenFirst(toHost'[y], d)
              /\ Passed(toHost[y], toHost'[y], d)
  <2>1. OneMore(toHost, toHost', g, p) /\ Lanes(toHost, Gen)
    BY <1>1, <1>4, <1>7 DEF OneMore, Typed, Queues, HostTakes
  <2>2. /\ Lanes(toHost', Gen)
        /\ \A y \in Gen : y # g => toHost'[y] = toHost[y]
        /\ \A y \in Gen : \A d :
              /\ Mentions(toHost'[y], d) => Mentions(toHost[y], d) \/ (y = g /\ p.device = d)
              /\ p.kind # "open" \/ p.device # d =>
                    /\ Opens(toHost'[y], d) <=> Opens(toHost[y], d)
                    /\ OpenFirst(toHost[y], d) => OpenFirst(toHost'[y], d)
              /\ ~IsData(p, d) => Passed(toHost[y], toHost'[y], d)
    BY <1>8, <2>1, Put
  <2> QED
    BY <1>8, <2>1, <2>2
<1>10. Typed'
  BY <1>1, <1>3, <1>5, <1>6, <1>9 DEF Typed, Tasks, Queues, Counts
<1>11. InTurn' /\ NewestIsRouted'
  BY <1>1, <1>3 DEF InTurn, NewestIsRouted
<1>12. ASSUME NEW d \in Device, d # e PROVE Sound(d)'
  <2>1. Bystander(d)
    BY <1>3, <1>5, <1>6, <1>9, <1>12, Untouched DEF Bystander
  <2> QED
    BY <1>1, <2>1, BystanderIsSound
<1>13. Sound(e)'
  <2>1. Owned(e) /\ Early(e) /\ OpenedOnce(e) /\ Up(e) /\ Down(e)
    BY <1>1, <1>2 DEF Sound, Pipes
  <2>2. /\ asked[e] = 0 /\ heard[e] = <<>> /\ toLocal[e] = <<>> /\ proxy[e] = "none"
        /\ \A f \in Gen : ~Mentions(toHost[f], e)
    BY <1>3, <2>1 DEF Early, In
  <2>3. Owned(e)'
    BY <1>2, <1>3, <1>5, <1>6, <1>9, <2>1 DEF Owned, Known, In
  <2>4. Early(e)'
    BY <1>3, <1>5, <2>1 DEF Early, In
  <2>5. OpenedOnce(e)'
    <3>1. toHost[g] \in Seq(Packet)
      BY <1>9 DEF Lanes
    <3>2. OpenFirst(Append(toHost[g], p), e)
      BY <1>8, <2>1, <2>2, <3>1, NamedIn DEF OpenedOnce
    <3>3. toHost'[g] = toHost[g] \/ toHost'[g] = Append(toHost[g], p)
      BY <1>4, <1>7, <1>9 DEF Lanes
    <3> QED
      BY <1>3, <1>9, <2>1, <2>2, <3>2, <3>3 DEF OpenedOnce
  <2>6. Down(e)'
    <3>1. DownReaches(e)' => DownReaches(e)
      BY <1>2, <1>3, <1>5, <1>6 DEF DownReaches
    <3> QED
      BY <1>2, <1>3, <1>5, <2>1, <3>1 DEF Down
  <2>7. Up(e)'
    <3>1. CASE dev'[e].phase = "relaying"
      <4>1. toHost[g] \in Seq(Packet) /\ toHost'[g] \in Seq(Packet) /\ Passed(toHost[g], toHost'[g], e)
        BY <1>9 DEF Lanes
      <4>2. /\ Base(toHost[g], <<>>, <<>>, 0, e) /\ Flows(toHost[g], <<>>, <<>>, 0, e)
            /\ Full(toHost[g], <<>>, <<>>, 0, e)
        BY <2>2, <4>1, PipeFresh
      <4>3. <<>> \in Seq(Packet) /\ <<>> \in Seq(Nat) /\ 0 \in Nat
        OBVIOUS
      <4>4. /\ Base(toHost'[g], <<>>, <<>>, 0, e) /\ Flows(toHost'[g], <<>>, <<>>, 0, e)
            /\ Full(toHost'[g], <<>>, <<>>, 0, e)
        BY <4>1, <4>2, <4>3, PipePassed
      <4> QED
        BY <1>3, <1>5, <2>2, <4>4 DEF Up, Relays
    <3>2. CASE dev'[e].phase = "done"
      <4>1. UpReaches(e)' => UpReaches(e)
        BY <1>2, <1>3, <1>5, <3>2 DEF UpReaches
      <4> QED
        BY <1>2, <1>3, <1>5, <2>1, <3>2, <4>1 DEF Up, In, Relays
    <3> QED
      BY <1>5, <3>1, <3>2
  <2> QED
    BY <2>3, <2>4, <2>5, <2>6, <2>7 DEF Sound, Pipes
<1> QED
  BY <1>10, <1>11, <1>12, <1>13 DEF TunnelInv, Placed, Sound

-----------------------------------------------------------------------------
(* The proxy of a connection *)

\* The proxy ends.
LEMMA ProxyEndsHolds ==
    ASSUME TunnelInv, NEW e \in Device, proxy[e] = "running", ProxyEnds(e),
           UNCHANGED <<link, bridge, toHost, conn, asked, heard, got>>,
           \/ said' = said
           \/ said[e] < MaxDown[e] /\ said' = [said EXCEPT ![e] = @ + 1]
    PROVE  TunnelInv'
<1>1. Typed /\ InTurn /\ NewestIsRouted /\ \A d \in Device : Sound(d)
  BY InvIs
<1>2. PICK g \in Gen : g = dev[e].gen /\ g # None
  BY <1>1, HasGen
<1>3. /\ ToBridge(g, Closed(e)) /\ locals' = [locals EXCEPT ![g] = @ \ {e}]
      /\ Cleared(toLocal, toLocal', e)
      /\ proxy' = [proxy EXCEPT ![e] = "done"]
  BY <1>2 DEF ProxyEnds, Cleared
<1>4. /\ link' = link /\ host' = host /\ route' = route /\ newest' = newest /\ toHost' = toHost
      /\ conn' = conn /\ devices' = devices /\ dev' = dev /\ toDevice' = toDevice
      /\ asked' = asked /\ heard' = heard /\ got' = got
  BY DEF bridge
<1>5. Lanes(toHost, Gen) /\ Lanes(fromHost, Gen) /\ Lanes(toDevice, Device) /\ Lanes(toLocal, Device)
  BY <1>1 DEF Typed, Queues
<1>6. /\ Lanes(fromHost', Gen)
      /\ \A y \in Gen : \A d :
            /\ Mentions(fromHost'[y], d) => Mentions(fromHost[y], d) \/ (y = g /\ e = d)
            /\ Passed(fromHost[y], fromHost'[y], d)
  <2>1. OneMore(fromHost, fromHost', g, Closed(e))
    BY <1>3, <1>5, PutToBridge
  <2>2. /\ Closed(e) \in Packet /\ Closed(e).kind # "open" /\ Closed(e).device = e
        /\ \A d : ~IsData(Closed(e), d)
    BY Packets
  <2> QED
    BY <1>5, <2>1, <2>2, Put
<1>7. /\ Lanes(toLocal', Device) /\ toLocal'[e] = <<>>
      /\ \A y \in Device : y # e => toLocal'[y] = toLocal[y]
  BY <1>3, <1>5, Emptied
<1>8. /\ proxy' \in [Device -> {"none", "running", "done"}] /\ proxy'[e] = "done"
      /\ \A d \in Device : d # e => proxy'[d] = proxy[d]
  BY <1>1, <1>3 DEF Typed, Tasks
<1>9. /\ locals' \in [Gen -> SUBSET Device] /\ e \notin locals'[g]
      /\ \A f \in Gen : \A d : /\ d \in locals'[f] => d \in locals[f]
                               /\ d # e => (d \in locals'[f] <=> d \in locals[f])
  BY <1>1, <1>3 DEF Typed, Tasks
<1>10. /\ Counts' /\ (\A d \in Device : d # e => said'[d] = said[d])
       /\ said'[e] = said[e] \/ said'[e] = said[e] + 1
  <2>1. Counts /\ MaxDown \in [Device -> Nat]
    BY <1>1, TunnelAssumption DEF Typed
  <2>2. CASE said' = said
    BY <1>4, <2>1, <2>2 DEF Counts
  <2>3. CASE said[e] < MaxDown[e] /\ said' = [said EXCEPT ![e] = @ + 1]
    <3>1. /\ said' \in [Device -> Nat] /\ (\A d \in Device : said'[d] <= MaxDown[d])
          /\ said'[e] = said[e] + 1 /\ \A d \in Device : d # e => said'[d] = said[d]
      BY <2>1, <2>3, CountsUp DEF Counts
    <3> QED
      BY <1>4, <2>1, <3>1 DEF Counts
  <2> QED
    BY <2>2, <2>3
<1>11. Typed'
  <2>1. Tasks'
    BY <1>1, <1>4, <1>8, <1>9 DEF Typed, Tasks
  <2>2. Queues'
    BY <1>4, <1>5, <1>6, <1>7 DEF Queues
  <2>3. Table(devices)'
    BY <1>1, <1>4 DEF Typed
  <2> QED
    BY <1>10, <2>1, <2>2, <2>3 DEF Typed
<1>12. InTurn' /\ NewestIsRouted'
  BY <1>1, <1>4 DEF InTurn, NewestIsRouted
<1>13. ASSUME NEW d \in Device, d # e PROVE Sound(d)'
  <2>1. Bystander(d)
    BY <1>4, <1>6, <1>7, <1>8, <1>9, <1>10, <1>13, Untouched DEF Bystander
  <2> QED
    BY <1>1, <2>1, BystanderIsSound
<1>14. Sound(e)'
  <2>1. Owned(e) /\ Early(e) /\ OpenedOnce(e) /\ Up(e) /\ Down(e)
    BY <1>1, <1>2 DEF Sound, Pipes
  <2>2. Owned(e)'
    BY <1>2, <1>4, <1>6, <1>9, <2>1 DEF Owned, Known, In
  <2>3. Early(e)'
    BY <1>4, <1>8, <2>1 DEF Early, In
  <2>4. OpenedOnce(e)'
    BY <1>4, <2>1 DEF OpenedOnce
  <2>5. Up(e)'
    <3>1. Base(toHost[g], <<>>, heard[e], asked[e], e)
      BY <1>1, <1>2, <2>1, PipeEnds, QueueTypes DEF Up, Relays
    <3>2. ~Opens(toHost[g], e)
      BY <2>1 DEF OpenedOnce
    <3>3. ~UpReaches(e)'
      BY <1>2, <1>4, <1>9, <3>2 DEF UpReaches
    <3> QED
      BY <1>2, <1>4, <1>7, <3>1, <3>3 DEF Up, Relays
  <2>6. Down(e)'
    <3>1. PICK q, l, h, a, r : /\ q = fromHost[g] /\ l = toDevice[e] /\ h = got[e]
                               /\ a = said[e] /\ r = fromHost'[g]
      OBVIOUS
    <3>2. /\ q \in Seq(Packet) /\ l \in Seq(Packet) /\ h \in Seq(Nat) /\ a \in Nat
          /\ r \in Seq(Packet) /\ Passed(q, r, e)
      BY <1>1, <1>6, <3>1, QueueTypes DEF Lanes
    <3>3. Base(q, l, h, a, e) /\ (DownReaches(e) => Flows(q, l, h, a, e))
      BY <1>2, <2>1, <3>1 DEF Down
    <3>4. Base(r, l, h, a, e) /\ (DownReaches(e) => Flows(r, l, h, a, e))
      BY <3>2, <3>3, PipePassed
    <3>5. Base(r, l, h, a + 1, e) /\ (DownReaches(e) => Flows(r, l, h, a + 1, e))
      BY <3>2, <3>4, PipeLoses
    <3>6. DownReaches(e)' => DownReaches(e)
      BY <1>2, <1>4 DEF DownReaches
    <3> QED
      BY <1>2, <1>4, <1>8, <1>10, <3>1, <3>4, <3>5, <3>6 DEF Down
  <2> QED
    BY <2>2, <2>3, <2>4, <2>5, <2>6 DEF Sound, Pipes
<1> QED
  BY <1>11, <1>12, <1>13, <1>14 DEF TunnelInv, Placed, Sound

LEMMA ListenerClosesHolds ==
    ASSUME TunnelInv, NEW e \in Device, ListenerCloses(e)
    PROVE  TunnelInv'
<1>1. proxy[e] = "running" /\ ProxyEnds(e)
  BY DEF ListenerCloses
<1>2. UNCHANGED <<link, bridge, toHost, conn, asked, heard, got>> /\ said' = said
  BY DEF ListenerCloses, data
<1> QED
  BY <1>1, <1>2, ProxyEndsHolds

\* The listener's next chunk: it fits, or the proxy ends.
LEMMA ListenerSendsHolds ==
    ASSUME TunnelInv, NEW e \in Device, ListenerSends(e)
    PROVE  TunnelInv'
<1>1. Typed /\ InTurn /\ NewestIsRouted /\ \A d \in Device : Sound(d)
  BY InvIs
<1>2. PICK g \in Gen : g = dev[e].gen /\ g # None
  BY <1>1, HasGen DEF ListenerSends
<1>3. CASE ~ConnTakes(g)
  <2>1. ProxyEnds(e) /\ proxy[e] = "running"
    BY <1>2, <1>3 DEF ListenerSends
  <2> QED
    BY <2>1, ProxyEndsHolds DEF ListenerSends
<1>4. CASE ConnTakes(g)
  <2>1. /\ fromHost' = [fromHost EXCEPT ![g] = Append(@, Data(e, said[e] + 1))]
        /\ said[e] < MaxDown[e] /\ said' = [said EXCEPT ![e] = @ + 1]
        /\ proxy[e] = "running" /\ conn[g] = "up" /\ Fits(fromHost[g])
    <3>1. said'[e] = said[e] + 1
      BY <1>1 DEF ListenerSends, Typed, Counts
    <3> QED
      BY <1>2, <1>4, <3>1 DEF ListenerSends, ToBridge, ConnTakes
  <2>2. /\ link' = link /\ host' = host /\ route' = route /\ newest' = newest /\ toHost' = toHost
        /\ conn' = conn /\ locals' = locals /\ proxy' = proxy /\ toLocal' = toLocal
        /\ heard' = heard /\ asked' = asked /\ got' = got
        /\ devices' = devices /\ dev' = dev /\ toDevice' = toDevice
    BY <1>2, <1>4 DEF ListenerSends, bridge
  <2>3. PICK p : p = Data(e, said[e] + 1)
    OBVIOUS
  <2>4. /\ p \in Packet /\ p.kind # "open" /\ p.device = e /\ said[e] \in Nat
        /\ \A d : d # e => ~IsData(p, d)
    <3>1. said[e] \in Nat
      BY <1>1, QueueTypes
    <3>2. said[e] + 1 \in Nat
      BY <3>1
    <3> QED
      BY <2>3, <3>1, <3>2, Packets
  <2>5. /\ Lanes(fromHost, Gen) /\ Lanes(fromHost', Gen) /\ fromHost'[g] = Append(fromHost[g], p)
        /\ \A y \in Gen : \A d :
              /\ Mentions(fromHost'[y], d) => Mentions(fromHost[y], d) \/ (y = g /\ e = d)
              /\ d # e => Passed(fromHost[y], fromHost'[y], d)
    <3>1. OneMore(fromHost, fromHost', g, p) /\ Lanes(fromHost, Gen)
      BY <1>1, <2>1, <2>3 DEF OneMore, Typed, Queues
    <3>2. fromHost'[g] = Append(fromHost[g], p)
      BY <2>1, <2>3, <3>1 DEF Lanes
    <3>3. /\ Lanes(fromHost', Gen)
          /\ \A y \in Gen : \A d :
                /\ Mentions(fromHost'[y], d) => Mentions(fromHost[y], d) \/ (y = g /\ p.device = d)
                /\ ~IsData(p, d) => Passed(fromHost[y], fromHost'[y], d)
      BY <2>4, <3>1, Put
    <3> QED
      BY <2>4, <3>1, <3>2, <3>3
  <2>6. /\ Counts' /\ said'[e] = said[e] + 1
        /\ \A d \in Device : d # e => said'[d] = said[d]
    <3>1. Counts /\ MaxDown \in [Device -> Nat]
      BY <1>1, TunnelAssumption DEF Typed
    <3>2. /\ said' \in [Device -> Nat] /\ (\A d \in Device : said'[d] <= MaxDown[d])
          /\ said'[e] = said[e] + 1 /\ \A d \in Device : d # e => said'[d] = said[d]
      BY <2>1, <3>1, CountsUp DEF Counts
    <3> QED
      BY <2>2, <3>1, <3>2 DEF Counts
  <2>7. Typed'
    BY <1>1, <2>2, <2>5, <2>6 DEF Typed, Tasks, Queues
  <2>8. InTurn' /\ NewestIsRouted'
    BY <1>1, <2>2 DEF InTurn, NewestIsRouted
  <2>9. ASSUME NEW d \in Device, d # e PROVE Sound(d)'
    <3>1. Bystander(d)
      BY <2>2, <2>5, <2>6, <2>9, Untouched DEF Bystander
    <3> QED
      BY <1>1, <3>1, BystanderIsSound
  <2>10. Sound(e)'
    <3>1. Owned(e) /\ Early(e) /\ OpenedOnce(e) /\ Up(e) /\ Down(e)
      BY <1>1, <1>2 DEF Sound, Pipes
    <3>2. Owned(e)'
      BY <1>2, <2>2, <2>5, <3>1 DEF Owned, Known, In
    <3>3. Early(e)'
      BY <2>1, <2>2, <3>1 DEF Early, In
    <3>4. OpenedOnce(e)'
      BY <2>2, <3>1 DEF OpenedOnce
    <3>5. Up(e)'
      BY <2>2, <3>1 DEF Up, UpReaches, In, Relays
    <3>6. Down(e)'
      <4>1. PICK q, l, h, a : q = fromHost[g] /\ l = toDevice[e] /\ h = got[e] /\ a = said[e]
        OBVIOUS
      <4>2. q \in Seq(Packet) /\ l \in Seq(Packet) /\ h \in Seq(Nat) /\ a \in Nat
        BY <1>1, <4>1, QueueTypes
      <4>3. /\ Base(q, l, h, a, e)
            /\ DownReaches(e) => Flows(q, l, h, a, e) /\ Full(q, l, h, a, e)
        BY <1>2, <2>1, <3>1, <4>1 DEF Down
      <4>4. p = Data(e, a + 1)
        BY <2>3, <4>1
      <4>5. /\ Base(Append(q, p), l, h, a + 1, e)
            /\ DownReaches(e) => /\ Flows(Append(q, p), l, h, a + 1, e)
                                 /\ Full(Append(q, p), l, h, a + 1, e)
        BY <4>2, <4>3, <4>4, PipeSends
      <4>6. DownReaches(e)' => DownReaches(e)
        BY <1>2, <2>2 DEF DownReaches
      <4> QED
        BY <1>2, <2>2, <2>5, <2>6, <4>1, <4>5, <4>6 DEF Down
    <3> QED
      BY <3>2, <3>3, <3>4, <3>5, <3>6 DEF Sound, Pipes
  <2> QED
    BY <2>7, <2>8, <2>9, <2>10 DEF TunnelInv, Placed, Sound
<1> QED
  BY <1>3, <1>4

\* What comes for the listener: a chunk, or the end.
LEMMA ProxyTakesHolds ==
    ASSUME TunnelInv, NEW e \in Device, ProxyTakes(e)
    PROVE  TunnelInv'
<1>1. Typed /\ InTurn /\ NewestIsRouted /\ \A d \in Device : Sound(d)
  BY InvIs
<1>2. PICK g \in Gen : g = dev[e].gen /\ g # None
  BY <1>1, HasGen DEF ProxyTakes
<1>3. CASE ProxyEnds(e) /\ UNCHANGED heard
  <2>1. proxy[e] = "running"
    BY DEF ProxyTakes
  <2>2. UNCHANGED <<link, bridge, toHost, conn, asked, heard, got>> /\ said' = said
    BY <1>3 DEF ProxyTakes
  <2> QED
    BY <1>3, <2>1, <2>2, ProxyEndsHolds
<1>4. CASE /\ toLocal[e] # <<>> /\ Head(toLocal[e]).kind = "data"
           /\ heard' = [heard EXCEPT ![e] = Append(@, Head(toLocal[e]).chunk)]
           /\ toLocal' = [toLocal EXCEPT ![e] = Tail(@)]
           /\ UNCHANGED <<proxy, locals, fromHost>>
  <2>1. /\ heard' = [heard EXCEPT ![e] = Append(@, Head(toLocal[e]).chunk)]
        /\ OneLess(toLocal, toLocal', e) /\ proxy[e] = "running"
    BY <1>4 DEF ProxyTakes, OneLess
  <2>2. /\ link' = link /\ host' = host /\ route' = route /\ newest' = newest /\ fromHost' = fromHost
        /\ conn' = conn /\ locals' = locals /\ proxy' = proxy /\ toDevice' = toDevice
        /\ asked' = asked /\ got' = got /\ said' = said
        /\ devices' = devices /\ dev' = dev /\ toHost' = toHost
    BY <1>4 DEF ProxyTakes, bridge
  <2>3. /\ Lanes(toLocal, Device) /\ Lanes(toLocal', Device)
        /\ toLocal'[e] = Tail(toLocal[e]) /\ toLocal[e] # <<>>
        /\ \A d \in Device : d # e => toLocal'[d] = toLocal[d]
    <3>1. Lanes(toLocal, Device)
      BY <1>1 DEF Typed, Queues
    <3>2. toLocal[e] # <<>>
      BY <1>4
    <3> QED
      BY <2>1, <3>1, <3>2, Took
  <2>4. PICK l, h, c : l = toLocal[e] /\ h = heard[e] /\ c = Head(l).chunk
    OBVIOUS
  <2>5. /\ l \in Seq(Packet) /\ h \in Seq(Nat) /\ l # <<>> /\ Head(l).kind = "data"
        /\ Head(l) \in Packet /\ c \in Nat
    <3>1. l \in Seq(Packet) /\ h \in Seq(Nat) /\ l # <<>>
      BY <1>1, <2>3, <2>4, QueueTypes
    <3>2. Head(l) \in Packet
      BY <3>1, AtHead
    <3> QED
      BY <1>4, <2>4, <3>1, <3>2 DEF Packet
  <2>6. /\ heard' \in [Device -> Seq(Nat)] /\ heard'[e] = Append(h, c)
        /\ \A d \in Device : d # e => heard'[d] = heard[d]
    <3>1. Append(h, c) \in Seq(Nat)
      BY <2>5, AtEnd
    <3>2. heard \in [Device -> Seq(Nat)] /\ heard' = [heard EXCEPT ![e] = Append(h, c)]
      BY <1>1, <2>1, <2>4 DEF Typed, Counts
    <3> QED
      BY <3>1, <3>2
  <2>7. Typed'
    BY <1>1, <2>2, <2>3, <2>6 DEF Typed, Tasks, Queues, Counts
  <2>8. InTurn' /\ NewestIsRouted'
    BY <1>1, <2>2 DEF InTurn, NewestIsRouted
  <2>9. ASSUME NEW d \in Device, d # e PROVE Sound(d)'
    <3>1. Bystander(d)
      BY <2>2, <2>3, <2>6, <2>9, Untouched DEF Bystander
    <3> QED
      BY <1>1, <3>1, BystanderIsSound
  <2>10. Sound(e)'
    <3>1. Owned(e) /\ Early(e) /\ OpenedOnce(e) /\ Up(e) /\ Down(e)
      BY <1>1, <1>2 DEF Sound, Pipes
    <3>2. Owned(e)'
      BY <2>2, <3>1 DEF Owned, Known, In
    <3>3. Early(e)'
      BY <2>1, <2>2, <3>1 DEF Early, In
    <3>4. OpenedOnce(e)'
      BY <2>2, <3>1 DEF OpenedOnce
    <3>5. Down(e)'
      BY <2>2, <3>1 DEF Down, DownReaches
    <3>6. Up(e)'
      <4>1. PICK q, a : q = toHost[g] /\ a = asked[e]
        OBVIOUS
      <4>2. q \in Seq(Packet) /\ a \in Nat
        BY <1>1, <4>1, QueueTypes
      <4>3. /\ Base(q, l, h, a, e)
            /\ UpReaches(e) =>
                  /\ Flows(q, l, h, a, e)
                  /\ Relays(e) /\ host[g] = "up" => Full(q, l, h, a, e)
        BY <1>2, <2>4, <3>1, <4>1 DEF Up, Relays
      <4>4. /\ Base(q, Tail(l), Append(h, c), a, e)
            /\ Quiet(Tail(l)) <=> Quiet(l)
            /\ Flows(q, l, h, a, e) => Flows(q, Tail(l), Append(h, c), a, e)
            /\ Full(q, l, h, a, e) => Full(q, Tail(l), Append(h, c), a, e)
        BY <2>4, <2>5, <4>2, <4>3, PipeArrives
      <4>5. UpReaches(e)' => UpReaches(e)
        BY <1>2, <2>2, <2>3, <2>4, <4>4 DEF UpReaches
      <4> QED
        BY <1>2, <2>2, <2>3, <2>4, <2>6, <4>1, <4>3, <4>4, <4>5 DEF Up, In, Relays
    <3> QED
      BY <3>2, <3>3, <3>4, <3>5, <3>6 DEF Sound, Pipes
  <2> QED
    BY <2>7, <2>8, <2>9, <2>10 DEF TunnelInv, Placed, Sound
<1> QED
  BY <1>3, <1>4 DEF ProxyTakes

-----------------------------------------------------------------------------
(* The socket *)

\* A step of the socket alone: the connector's state moves on, and the bridge has
\* no part in it.
LEMMA SocketMoves ==
    ASSUME TunnelInv, UNCHANGED <<bridge, toHost, locals, proxy, toLocal, fromHost, data>>,
           link' \in [Gen -> BOOLEAN], conn' \in [Gen -> {"none", "connecting", "up", "ended"}],
           \A f \in Gen : link'[f] => conn'[f] \notin {"none", "ended"},
           \A f, h \in Gen : f < h /\ conn'[h] # "none" => conn'[f] = "ended",
           \A f \in Gen : conn[f] = "ended" => conn'[f] = "ended"
    PROVE  TunnelInv'
<1>1. Typed /\ InTurn /\ NewestIsRouted /\ \A d \in Device : Sound(d)
  BY InvIs
<1>2. /\ host' = host /\ route' = route /\ newest' = newest /\ fromHost' = fromHost
      /\ locals' = locals /\ proxy' = proxy /\ toLocal' = toLocal
      /\ asked' = asked /\ heard' = heard /\ said' = said /\ got' = got
      /\ devices' = devices /\ toDevice' = toDevice /\ toHost' = toHost /\ dev' = dev
  BY DEF data, bridge
<1>3. Typed'
  BY <1>1, <1>2 DEF Typed, Tasks, Queues, Counts
<1>4. InTurn' /\ NewestIsRouted'
  BY <1>1, <1>2 DEF InTurn, NewestIsRouted
<1>5. ASSUME NEW d \in Device PROVE Sound(d)'
  <2>1. Owned(d) /\ Early(d) /\ OpenedOnce(d) /\ Pipes(d)
    BY <1>1 DEF Sound
  <2>2. Owned(d)' /\ Early(d)' /\ OpenedOnce(d)'
    BY <1>2, <2>1 DEF Owned, Known, In, Early, OpenedOnce
  <2>3. ASSUME dev'[d].gen # None PROVE Up(d)' /\ Down(d)'
    <3>1. PICK f \in Gen : f = dev[d].gen /\ f # None
      BY <1>1, <1>2, <2>3 DEF Typed, Tasks
    <3>2. Up(d) /\ Down(d) /\ dev'[d].gen = f
      BY <1>2, <2>1, <2>3, <3>1 DEF Pipes
    <3>3. Up(d)'
      BY <1>2, <3>2 DEF Up, UpReaches, Relays, In
    <3>4. DownReaches(d)' => DownReaches(d)
      BY <1>2 DEF DownReaches
    <3>5. Down(d)'
      BY <1>2, <3>1, <3>2, <3>4 DEF Down
    <3> QED
      BY <3>3, <3>5
  <2> QED
    BY <2>2, <2>3 DEF Sound, Pipes
<1> QED
  BY <1>3, <1>4, <1>5 DEF TunnelInv, Placed, Sound

LEMMA LinkLostHolds ==
    ASSUME TunnelInv, NEW g \in Gen, LinkLost(g)
    PROVE  TunnelInv'
<1>1. Typed /\ InTurn
  BY InvIs
<1>2. link' \in [Gen -> BOOLEAN] /\ \A f \in Gen : link'[f] => link[f]
  <2>1. link \in [Gen -> BOOLEAN] /\ link' = [link EXCEPT ![g] = FALSE]
    BY <1>1 DEF LinkLost, Typed, Tasks
  <2> QED
    BY <2>1, Zenon
<1>3. conn' = conn /\ UNCHANGED <<bridge, toHost, locals, proxy, toLocal, fromHost, data>>
  BY DEF LinkLost, connector
<1>4. /\ conn' \in [Gen -> {"none", "connecting", "up", "ended"}]
      /\ \A f \in Gen : link'[f] => conn'[f] \notin {"none", "ended"}
      /\ \A f, h \in Gen : f < h /\ conn'[h] # "none" => conn'[f] = "ended"
  BY <1>1, <1>2, <1>3 DEF Typed, Tasks, InTurn
<1> QED
  BY <1>2, <1>3, <1>4, SocketMoves

LEMMA ConnStartsHolds ==
    ASSUME TunnelInv, NEW g \in Gen, ConnStarts(g)
    PROVE  TunnelInv'
<1>1. Typed /\ InTurn
  BY InvIs
<1>2. link' \in [Gen -> BOOLEAN] /\ \A f \in Gen : f # g => (link'[f] <=> link[f])
  <2>1. link \in [Gen -> BOOLEAN] /\ link' = [link EXCEPT ![g] = TRUE]
    BY <1>1 DEF ConnStarts, Typed, Tasks
  <2> QED
    BY <2>1, Zenon
<1>3. /\ conn' \in [Gen -> {"none", "connecting", "up", "ended"}]
      /\ conn[g] = "none" /\ conn'[g] = "connecting" /\ \A f \in Gen : f # g => conn'[f] = conn[f]
      /\ \A f \in Gen : f < g => conn[f] = "ended"
      /\ UNCHANGED <<bridge, toHost, locals, proxy, toLocal, fromHost, data>>
  BY <1>1 DEF ConnStarts, Typed, Tasks
<1>4. ASSUME NEW f \in Gen, link'[f] PROVE conn'[f] \notin {"none", "ended"}
  BY <1>1, <1>2, <1>3, <1>4 DEF InTurn
<1>5. ASSUME NEW f \in Gen, NEW h \in Gen, f < h, conn'[h] # "none" PROVE conn'[f] = "ended"
  <2>1. f # h
    BY <1>5, Names
  <2>2. CASE h = g
    BY <1>3, <1>5, <2>1, <2>2
  <2>3. CASE h # g
    <3>1. conn[f] = "ended"
      BY <1>1, <1>3, <1>5, <2>3 DEF InTurn
    <3> QED
      BY <1>3, <3>1
  <2> QED
    BY <2>2, <2>3
<1> QED
  BY <1>2, <1>3, <1>4, <1>5, SocketMoves

LEMMA UpgradedHolds ==
    ASSUME TunnelInv, NEW g \in Gen, Upgraded(g)
    PROVE  TunnelInv'
<1>1. Typed /\ InTurn
  BY InvIs
<1>2. /\ conn' \in [Gen -> {"none", "connecting", "up", "ended"}]
      /\ conn[g] = "connecting" /\ conn'[g] = "up" /\ \A f \in Gen : f # g => conn'[f] = conn[f]
      /\ link' = link /\ UNCHANGED <<bridge, toHost, locals, proxy, toLocal, fromHost, data>>
  BY <1>1 DEF Upgraded, Typed, Tasks
<1>3. ASSUME NEW f \in Gen, link'[f] PROVE conn'[f] \notin {"none", "ended"}
  BY <1>1, <1>2, <1>3 DEF InTurn
<1>4. ASSUME NEW f \in Gen, NEW h \in Gen, f < h, conn'[h] # "none" PROVE conn'[f] = "ended"
  BY <1>1, <1>2, <1>4 DEF InTurn
<1> QED
  BY <1>1, <1>2, <1>3, <1>4, SocketMoves DEF Typed, Tasks

LEMMA GivesUpHolds ==
    ASSUME TunnelInv, NEW g \in Gen, GivesUp(g)
    PROVE  TunnelInv'
<1>1. Typed /\ InTurn
  BY InvIs
<1>2. /\ link' \in [Gen -> BOOLEAN] /\ ~link'[g]
      /\ \A f \in Gen : f # g => (link'[f] <=> link[f])
  <2>1. link \in [Gen -> BOOLEAN] /\ link' = [link EXCEPT ![g] = FALSE]
    BY <1>1 DEF GivesUp, Typed, Tasks
  <2> QED
    BY <2>1, Zenon
<1>3. /\ conn' \in [Gen -> {"none", "connecting", "up", "ended"}]
      /\ conn[g] = "connecting" /\ conn'[g] = "ended" /\ \A f \in Gen : f # g => conn'[f] = conn[f]
      /\ UNCHANGED <<bridge, toHost, locals, proxy, toLocal, fromHost, data>>
  BY <1>1 DEF GivesUp, Typed, Tasks
<1>4. ASSUME NEW f \in Gen, link'[f] PROVE conn'[f] \notin {"none", "ended"}
  BY <1>1, <1>2, <1>3, <1>4 DEF InTurn
<1>5. ASSUME NEW f \in Gen, NEW h \in Gen, f < h, conn'[h] # "none" PROVE conn'[f] = "ended"
  BY <1>1, <1>3, <1>5 DEF InTurn
<1> QED
  BY <1>2, <1>3, <1>4, <1>5, SocketMoves

\* A drained table: its connections are let go, and told if there is room.
Released(g) ==
    devices' = [devices EXCEPT ![g] = {}] /\ toDevice' = Drained(toDevice, devices[g])

LEMMA TableDrained ==
    ASSUME Typed, NEW g \in Gen, Released(g)
    PROVE  /\ Table(devices') /\ Lanes(toDevice', Device)
           /\ \A f \in Gen : devices'[f] \subseteq devices[f]
           /\ \A d \in Device :
                 \/ toDevice'[d] = toDevice[d]
                 \/ d \in devices[g] /\ toDevice'[d] = Append(toDevice[d], Closed(d))
<1>1. Table(devices) /\ devices \in [Gen -> SUBSET Device] /\ Lanes(toDevice, Device)
  BY DEF Typed, Table, Queues
<1>2. Table([devices EXCEPT ![g] = {}])
  BY <1>1, TableLess
<1>3. Table(devices') /\ \A f \in Gen : devices'[f] \subseteq devices[f]
  BY <1>1, <1>2 DEF Released
<1>4. /\ Lanes(toDevice', Device)
      /\ \A d \in Device :
            \/ toDevice'[d] = toDevice[d]
            \/ d \in devices[g] /\ toDevice'[d] = Append(toDevice[d], Closed(d))
  BY <1>1, LaneDrained DEF Released
<1> QED
  BY <1>3, <1>4

\* What register and unregister leave of the responses of d.
LEMMA DownReleased ==
    ASSUME Typed, NEW d \in Device, NEW f \in Gen, dev[d].gen = f, dev'[d].gen = f, Down(d),
           \/ toDevice'[d] = toDevice[d]
           \/ toDevice'[d] = Append(toDevice[d], Closed(d)),
           fromHost'[f] = fromHost[f], got'[d] = got[d], said'[d] = said[d],
           route' # f
    PROVE  Down(d)'
<1>1. Base(fromHost[f], toDevice[d], got[d], said[d], d)
  BY DEF Down
<1>2. Base(fromHost[f], Append(toDevice[d], Closed(d)), got[d], said[d], d)
  <2>1. Closed(d) \in Packet /\ Closed(d).kind # "data"
    BY Packets
  <2> QED
    BY <1>1, <2>1, QueueTypes, PipeTold
<1>3. ~DownReaches(d)'
  BY DEF DownReaches
<1> QED
  BY <1>1, <1>2, <1>3 DEF Down

LEMMA RegisterHostHolds ==
    ASSUME TunnelInv, NEW g \in Gen, RegisterHost(g)
    PROVE  TunnelInv'
<1>1. Typed /\ InTurn /\ NewestIsRouted /\ \A d \in Device : Sound(d)
  BY InvIs
<1>2. /\ fromHost' = fromHost /\ locals' = locals /\ proxy' = proxy /\ toLocal' = toLocal
      /\ asked' = asked /\ heard' = heard /\ said' = said /\ got' = got
      /\ toHost' = toHost /\ dev' = dev /\ link' = link /\ conn' = conn
      /\ route' = g /\ newest' = g /\ host[g] = "none"
  BY DEF RegisterHost, data, connector
<1>3. /\ host' \in [Gen -> {"none", "up", "ended"}] /\ host'[g] = "up"
      /\ \A f \in Gen : f # g => host'[f] = host[f]
  BY <1>1 DEF RegisterHost, Typed, Tasks
<1>4. /\ Table(devices') /\ Lanes(toDevice', Device)
      /\ \A f \in Gen : devices'[f] \subseteq devices[f]
      /\ \A d \in Device :
            \/ toDevice'[d] = toDevice[d]
            \/ /\ \E f \in Gen : d \in devices[f]
               /\ toDevice'[d] = Append(toDevice[d], Closed(d))
  <2>1. CASE route = None
    BY <1>1, <2>1 DEF RegisterHost, Typed, Queues
  <2>2. CASE route # None
    <3>1. route \in Gen /\ Released(route)
      BY <1>1, <2>2 DEF RegisterHost, Released, Typed, Tasks
    <3>2. PICK f \in Gen : f = route /\ Released(f)
      BY <3>1
    <3> QED
      BY <1>1, <3>2, TableDrained
  <2> QED
    BY <2>1, <2>2
<1>5. Typed'
  BY <1>1, <1>2, <1>3, <1>4 DEF Typed, Tasks, Queues, Counts
<1>6. NewestIsRouted'
  BY <1>2, <1>3, Names DEF NewestIsRouted
<1>7. InTurn'
  BY <1>1, <1>2, Names DEF InTurn
<1>8. ASSUME NEW d \in Device PROVE Sound(d)'
  <2>1. Owned(d) /\ Early(d) /\ OpenedOnce(d) /\ Pipes(d)
    BY <1>1 DEF Sound
  <2>2. dev[d].gen # None => dev[d].gen \in Gen /\ dev[d].gen # g
    BY <1>1, <1>2, <2>1 DEF Owned, Typed, Tasks
  <2>3. Owned(d)'
    BY <1>2, <1>3, <1>4, <2>1, <2>2 DEF Owned, Known, In
  <2>4. Early(d)'
    BY <1>2, <1>4, <2>1 DEF Early, In
  <2>5. OpenedOnce(d)'
    BY <1>2, <2>1 DEF OpenedOnce
  <2>6. ASSUME dev'[d].gen # None PROVE Up(d)' /\ Down(d)'
    <3>1. PICK f \in Gen : f = dev[d].gen /\ f # g
      BY <1>2, <2>2, <2>6
    <3>2. Up(d) /\ Down(d) /\ dev'[d].gen = f
      BY <1>2, <2>1, <2>6, <3>1 DEF Pipes
    <3>3. Up(d)'
      BY <1>2, <1>3, <3>1, <3>2 DEF Up, UpReaches, In, Relays
    <3>4. Down(d)'
      <4>1. /\ \/ toDevice'[d] = toDevice[d]
               \/ toDevice'[d] = Append(toDevice[d], Closed(d))
            /\ fromHost'[f] = fromHost[f] /\ got'[d] = got[d] /\ said'[d] = said[d]
            /\ route' # f
        BY <1>2, <1>4, <3>1
      <4> QED
        BY <1>1, <3>1, <3>2, <4>1, DownReleased
    <3> QED
      BY <3>3, <3>4
  <2> QED
    BY <2>3, <2>4, <2>5, <2>6 DEF Sound, Pipes
<1> QED
  BY <1>5, <1>6, <1>7, <1>8 DEF TunnelInv, Placed, Sound

LEMMA HostEndsHolds ==
    ASSUME TunnelInv, NEW g \in Gen, HostEnds(g)
    PROVE  TunnelInv'
<1>1. Typed /\ InTurn /\ NewestIsRouted /\ \A d \in Device : Sound(d)
  BY InvIs
<1>2. /\ fromHost' = fromHost /\ locals' = locals /\ proxy' = proxy /\ toLocal' = toLocal
      /\ asked' = asked /\ heard' = heard /\ said' = said /\ got' = got
      /\ dev' = dev /\ link' = link /\ conn' = conn /\ newest' = newest
      /\ host[g] = "up" /\ Cleared(toHost, toHost', g)
  BY DEF HostEnds, connector, data, Cleared
<1>3. /\ host' \in [Gen -> {"none", "up", "ended"}] /\ host'[g] = "ended"
      /\ \A f \in Gen : f # g => host'[f] = host[f]
  BY <1>1 DEF HostEnds, Typed, Tasks
<1>4. /\ Table(devices') /\ Lanes(toDevice', Device) /\ route' \in Gen \cup {None}
      /\ \A f \in Gen : devices'[f] \subseteq devices[f]
      /\ \/ route = g /\ route' = None
         \/ route # g /\ route' = route /\ toDevice' = toDevice
      /\ \A d \in Device :
            \/ toDevice'[d] = toDevice[d]
            \/ d \in devices[g] /\ toDevice'[d] = Append(toDevice[d], Closed(d))
  <2>1. CASE route # g
    BY <1>1, <2>1 DEF HostEnds, Typed, Queues, Tasks
  <2>2. CASE route = g
    <3>1. Released(g) /\ route' = None
      BY <2>2 DEF HostEnds, Released
    <3>2. /\ Table(devices') /\ Lanes(toDevice', Device)
          /\ \A f \in Gen : devices'[f] \subseteq devices[f]
          /\ \A d \in Device :
                \/ toDevice'[d] = toDevice[d]
                \/ d \in devices[g] /\ toDevice'[d] = Append(toDevice[d], Closed(d))
      BY <1>1, <3>1, TableDrained
    <3> QED
      BY <2>2, <3>1, <3>2
  <2> QED
    BY <2>1, <2>2
<1>5. /\ Lanes(toHost', Gen) /\ toHost'[g] = <<>>
      /\ \A y \in Gen : y # g => toHost'[y] = toHost[y]
      /\ \A y \in Gen : \A d :
            /\ Mentions(toHost'[y], d) => Mentions(toHost[y], d)
            /\ Opens(toHost'[y], d) => Opens(toHost[y], d)
            /\ OpenFirst(toHost[y], d) => OpenFirst(toHost'[y], d)
  <2>1. Lanes(toHost, Gen)
    BY <1>1 DEF Typed, Queues
  <2> QED
    BY <1>2, <2>1, Emptied
<1>6. Typed'
  BY <1>1, <1>2, <1>3, <1>4, <1>5 DEF Typed, Tasks, Queues, Counts
<1>7. NewestIsRouted'
  <2>1. newest \in Gen \cup {None} /\ None \notin Gen
    BY <1>1, Names DEF Typed, Tasks
  <2>2. newest = g => route = g
    BY <1>1, <1>2, Names DEF NewestIsRouted
  <2>3. CASE newest = g
    BY <1>2, <1>3, <1>4, <2>2, <2>3, Names DEF NewestIsRouted
  <2>4. CASE newest # g
    <3>1. route # g
      BY <1>1, <2>4, Names DEF NewestIsRouted
    <3>2. newest # None => host'[newest] = host[newest]
      BY <1>3, <2>1, <2>4
    <3> QED
      BY <1>1, <1>2, <1>4, <3>1, <3>2 DEF NewestIsRouted
  <2> QED
    BY <2>3, <2>4
<1>8. InTurn'
  <2>1. newest # None
    BY <1>1, <1>2 DEF InTurn
  <2> QED
    BY <1>1, <1>2, <2>1 DEF InTurn
<1>9. ASSUME NEW d \in Device PROVE Sound(d)'
  <2>1. Owned(d) /\ Early(d) /\ OpenedOnce(d) /\ Pipes(d)
    BY <1>1 DEF Sound
  <2>2. Owned(d)'
    <3>1. dev[d].gen # None => host'[dev[d].gen] # "none"
      BY <1>1, <1>3, <2>1 DEF Owned, Typed, Tasks
    <3> QED
      BY <1>2, <1>4, <1>5, <2>1, <3>1 DEF Owned, Known, In
  <2>3. Early(d)'
    BY <1>2, <1>4, <1>5, <2>1 DEF Early, In
  <2>4. OpenedOnce(d)'
    BY <1>2, <1>5, <2>1 DEF OpenedOnce
  <2>5. ASSUME dev'[d].gen # None PROVE Up(d)' /\ Down(d)'
    <3>1. PICK f \in Gen : f = dev[d].gen /\ f # None
      BY <1>1, <1>2, <2>5 DEF Typed, Tasks
    <3>2. Up(d) /\ Down(d) /\ dev'[d].gen = f
      BY <1>2, <2>1, <2>5, <3>1 DEF Pipes
    <3>3. UpReaches(d)' => UpReaches(d)
      BY <1>2, <1>5, <3>1 DEF UpReaches
    <3>4. Up(d)'
      <4>1. CASE f # g
        BY <1>2, <1>3, <1>5, <3>1, <3>2, <3>3, <4>1 DEF Up, In, Relays
      <4>2. CASE f = g
        <5>1. /\ Base(<<>>, toLocal[d], heard[d], asked[d], d)
              /\ UpReaches(d) => Flows(<<>>, toLocal[d], heard[d], asked[d], d)
          BY <1>1, <3>1, <3>2, QueueTypes, PipeEmptied DEF Up, Relays
        <5> QED
          BY <1>2, <1>3, <1>5, <3>2, <3>3, <4>2, <5>1 DEF Up, In, Relays
      <4> QED
        BY <4>1, <4>2
    <3>5. Down(d)'
      <4>1. CASE route # g
        <5>1. DownReaches(d)' => DownReaches(d)
          BY <1>2, <1>4, <3>1, <4>1 DEF DownReaches
        <5> QED
          BY <1>2, <1>4, <3>1, <3>2, <4>1, <5>1 DEF Down
      <4>2. CASE route = g
        <5>1. /\ \/ toDevice'[d] = toDevice[d]
                 \/ toDevice'[d] = Append(toDevice[d], Closed(d))
              /\ fromHost'[f] = fromHost[f] /\ got'[d] = got[d] /\ said'[d] = said[d]
              /\ route' # f
          BY <1>2, <1>4, <3>1, <4>2
        <5> QED
          BY <1>1, <3>1, <3>2, <5>1, DownReleased
      <4> QED
        BY <4>1, <4>2
    <3> QED
      BY <3>4, <3>5
  <2> QED
    BY <2>2, <2>3, <2>4, <2>5 DEF Sound, Pipes
<1> QED
  BY <1>6, <1>7, <1>8, <1>9 DEF TunnelInv, Placed, Sound

LEMMA OpensMentions ==
    ASSUME NEW q, NEW d, Opens(q, d)
    PROVE  Mentions(q, d)
BY DEF Opens, Mentions

LEMMA ConnEndsHolds ==
    ASSUME TunnelInv, NEW g \in Gen, ConnEnds(g)
    PROVE  TunnelInv'
<1>1. Typed /\ InTurn /\ NewestIsRouted /\ \A d \in Device : Sound(d)
  BY InvIs
<1>2. /\ toHost' = toHost /\ host' = host /\ route' = route /\ newest' = newest /\ proxy' = proxy
      /\ asked' = asked /\ heard' = heard /\ said' = said /\ got' = got
      /\ devices' = devices /\ dev' = dev /\ toDevice' = toDevice /\ link' = link
      /\ ~link[g] /\ Cleared(fromHost, fromHost', g)
  BY DEF ConnEnds, bridge, data, Cleared
<1>3. /\ conn' \in [Gen -> {"none", "connecting", "up", "ended"}]
      /\ conn[g] = "up" /\ conn'[g] = "ended"
      /\ \A f \in Gen : f # g => conn'[f] = conn[f]
  BY <1>1 DEF ConnEnds, Typed, Tasks
<1>4. /\ locals' \in [Gen -> SUBSET Device] /\ locals'[g] = {}
      /\ \A f \in Gen : f # g => locals'[f] = locals[f]
  BY <1>1 DEF ConnEnds, Typed, Tasks
<1>5. /\ Lanes(toLocal', Device)
      /\ \A d \in Device :
            \/ toLocal'[d] = toLocal[d]
            \/ d \in locals[g] /\ toLocal'[d] = Append(toLocal[d], Closed(d))
  <2>1. Lanes(toLocal, Device) /\ toLocal' = Drained(toLocal, locals[g])
    BY <1>1 DEF ConnEnds, Typed, Queues
  <2> QED
    BY <2>1, LaneDrained
<1>6. /\ Lanes(fromHost', Gen) /\ fromHost'[g] = <<>>
      /\ \A y \in Gen : y # g => fromHost'[y] = fromHost[y]
      /\ \A y \in Gen : \A d : Mentions(fromHost'[y], d) => Mentions(fromHost[y], d)
  <2>1. Lanes(fromHost, Gen)
    BY <1>1 DEF Typed, Queues
  <2> QED
    BY <1>2, <2>1, Emptied
<1>7. Typed'
  BY <1>1, <1>2, <1>3, <1>4, <1>5, <1>6 DEF Typed, Tasks, Queues, Counts
<1>8. NewestIsRouted'
  BY <1>1, <1>2 DEF NewestIsRouted
<1>9. InTurn'
  <2>1. ASSUME NEW f \in Gen, link'[f] PROVE conn'[f] \notin {"none", "ended"}
    BY <1>1, <1>2, <1>3, <2>1 DEF InTurn
  <2>2. ASSUME NEW f \in Gen, NEW h \in Gen, f < h, conn'[h] # "none" PROVE conn'[f] = "ended"
    BY <1>1, <1>3, <2>2 DEF InTurn
  <2> QED
    BY <1>1, <1>2, <2>1, <2>2 DEF InTurn
<1>10. ASSUME NEW d \in Device PROVE Sound(d)'
  <2>1. Owned(d) /\ Early(d) /\ OpenedOnce(d) /\ Pipes(d)
    BY <1>1 DEF Sound
  <2>2. Owned(d)'
    <3>1. \A f \in Gen : d \in locals'[f] => d \in locals[f]
      BY <1>4
    <3> QED
      BY <1>2, <1>6, <2>1, <3>1 DEF Owned, Known, In
  <2>3. Early(d)'
    <3>1. \A f \in Gen : d \in locals'[f] => d \in locals[f]
      BY <1>4
    <3> QED
      BY <1>2, <1>5, <1>6, <2>1, <3>1 DEF Early, In
  <2>4. OpenedOnce(d)'
    BY <1>2, <2>1 DEF OpenedOnce
  <2>5. ASSUME dev'[d].gen # None PROVE Up(d)' /\ Down(d)'
    <3>1. PICK f \in Gen : f = dev[d].gen /\ f # None
      BY <1>1, <1>2, <2>5 DEF Typed, Tasks
    <3>2. Up(d) /\ Down(d) /\ dev'[d].gen = f
      BY <1>2, <2>1, <2>5, <3>1 DEF Pipes
    <3>3. d \in locals[g] => f = g
      BY <2>1, <3>1 DEF Owned, Known
    <3>4. Up(d)'
      <4>1. CASE d \notin locals[g]
        <5>1. toLocal'[d] = toLocal[d]
          BY <1>5, <4>1
        <5>2. UpReaches(d)' => UpReaches(d)
          BY <1>2, <1>4, <3>1, <5>1 DEF UpReaches
        <5> QED
          BY <1>2, <3>1, <3>2, <5>1, <5>2 DEF Up, In, Relays
      <4>2. CASE d \in locals[g]
        <5>1. Base(toHost[f], toLocal[d], heard[d], asked[d], d)
          BY <3>1, <3>2 DEF Up, Relays
        <5>2. Base(toHost[f], Append(toLocal[d], Closed(d)), heard[d], asked[d], d)
          <6>1. Closed(d) \in Packet /\ Closed(d).kind # "data"
            BY Packets
          <6> QED
            BY <1>1, <5>1, <6>1, QueueTypes, PipeTold
        <5>3. ~Opens(toHost[f], d)
          BY <2>1, <4>2 DEF Early, OpenedOnce
        <5>4. ~UpReaches(d)'
          BY <1>2, <1>4, <3>2, <3>3, <4>2, <5>3 DEF UpReaches
        <5> QED
          BY <1>2, <1>5, <3>2, <5>1, <5>2, <5>4 DEF Up, Relays
      <4> QED
        BY <4>1, <4>2
    <3>5. Down(d)'
      <4>1. DownReaches(d)' => DownReaches(d)
        BY <1>2 DEF DownReaches
      <4>2. CASE f # g
        BY <1>2, <1>3, <1>6, <3>1, <3>2, <4>1, <4>2 DEF Down
      <4>3. CASE f = g
        <5>1. /\ Base(<<>>, toDevice[d], got[d], said[d], d)
              /\ DownReaches(d) => Flows(<<>>, toDevice[d], got[d], said[d], d)
          BY <1>1, <3>1, <3>2, QueueTypes, PipeEmptied DEF Down
        <5> QED
          BY <1>2, <1>3, <1>6, <3>2, <4>1, <4>3, <5>1 DEF Down
      <4> QED
        BY <4>2, <4>3
    <3> QED
      BY <3>4, <3>5
  <2> QED
    BY <2>2, <2>3, <2>4, <2>5 DEF Sound, Pipes
<1> QED
  BY <1>7, <1>8, <1>9, <1>10 DEF TunnelInv, Placed, Sound

LEMMA HostReadsHolds ==
    ASSUME TunnelInv, NEW g \in Gen, HostReads(g)
    PROVE  TunnelInv'
<1>1. Typed /\ InTurn /\ NewestIsRouted /\ \A d \in Device : Sound(d)
  BY InvIs
<1>2. PICK p, e : p = Head(fromHost[g]) /\ e = p.device
  OBVIOUS
<1>3. /\ link' = link /\ host' = host /\ route' = route /\ newest' = newest /\ dev' = dev
      /\ conn' = conn /\ locals' = locals /\ proxy' = proxy /\ toLocal' = toLocal
      /\ asked' = asked /\ heard' = heard /\ said' = said /\ got' = got
      /\ OneLess(fromHost, fromHost', g)
  BY DEF HostReads, connector, data, OneLess
<1>4. \/ /\ route # g \/ e \notin devices[g]
         /\ toDevice' = toDevice /\ devices' = devices /\ toHost' = toHost
      \/ /\ route = g /\ e \in devices[g] /\ Fits(toDevice[e])
         /\ toDevice' = [toDevice EXCEPT ![e] = Append(@, p)]
         /\ devices' = devices /\ toHost' = toHost
      \/ /\ devices' = [devices EXCEPT ![g] = @ \ {e}]
         /\ ToHost(g, Closed(e)) /\ toDevice' = toDevice
  BY <1>2 DEF HostReads
<1>5. Lanes(toHost, Gen) /\ Lanes(fromHost, Gen) /\ Lanes(toDevice, Device) /\ Lanes(toLocal, Device)
  BY <1>1 DEF Typed, Queues
<1>6. /\ fromHost[g] \in Seq(Packet) /\ fromHost[g] # <<>> /\ p \in Packet /\ e \in Device
      /\ Mentions(fromHost[g], e) /\ \A d : d # e => ~IsData(p, d)
  <2>1. fromHost[g] \in Seq(Packet) /\ fromHost[g] # <<>>
    BY <1>3, <1>5 DEF OneLess, Lanes
  <2>2. p \in Packet /\ Mentions(fromHost[g], e)
    BY <1>2, <2>1, AtHead, NamedOut
  <2> QED
    BY <1>2, <2>1, <2>2 DEF Packet, IsData
<1>7. /\ Lanes(fromHost', Gen) /\ fromHost'[g] = Tail(fromHost[g])
      /\ \A y \in Gen : \A d :
            /\ Mentions(fromHost'[y], d) => Mentions(fromHost[y], d)
            /\ d # e => Passed(fromHost[y], fromHost'[y], d)
  <2>1. /\ Lanes(fromHost', Gen) /\ fromHost'[g] = Tail(fromHost[g])
        /\ \A y \in Gen : \A d :
              /\ Mentions(fromHost'[y], d) => Mentions(fromHost[y], d)
              /\ ~IsData(Head(fromHost[g]), d) => Passed(fromHost[y], fromHost'[y], d)
    BY <1>3, <1>5, Took
  <2> QED
    BY <1>2, <1>6, <2>1
<1>8. /\ Lanes(toHost', Gen)
      /\ \A y \in Gen : \A d :
            /\ Mentions(toHost'[y], d) => Mentions(toHost[y], d) \/ (y = g /\ e = d)
            /\ Opens(toHost'[y], d) <=> Opens(toHost[y], d)
            /\ OpenFirst(toHost[y], d) => OpenFirst(toHost'[y], d)
            /\ Passed(toHost[y], toHost'[y], d)
  <2>1. OneMore(toHost, toHost', g, Closed(e))
    BY <1>4, <1>5, PutToHost DEF OneMore
  <2>2. /\ Closed(e) \in Packet /\ Closed(e).kind # "open" /\ Closed(e).device = e
        /\ \A d : ~IsData(Closed(e), d)
    BY <1>6, Packets
  <2> QED
    BY <1>5, <2>1, <2>2, Put
<1>9. /\ Lanes(toDevice', Device)
      /\ \A y \in Device : y # e => toDevice'[y] = toDevice[y]
  <2>1. OneMore(toDevice, toDevice', e, p)
    BY <1>4 DEF OneMore
  <2> QED
    BY <1>5, <1>6, <2>1, Put
<1>10. /\ Table(devices')
       /\ \A f \in Gen : \A d : /\ d \in devices'[f] => d \in devices[f]
                                /\ d # e => (d \in devices'[f] <=> d \in devices[f])
  <2>1. Table(devices) /\ devices \in [Gen -> SUBSET Device]
    BY <1>1 DEF Typed, Table
  <2>2. Table([devices EXCEPT ![g] = @ \ {e}])
    BY <2>1, TableLess
  <2>3. CASE devices' = devices
    BY <2>1, <2>3
  <2>4. CASE devices' = [devices EXCEPT ![g] = @ \ {e}]
    BY <2>1, <2>2, <2>4
  <2> QED
    BY <1>4, <2>3, <2>4
<1>11. Typed'
  BY <1>1, <1>3, <1>7, <1>8, <1>9, <1>10 DEF Typed, Tasks, Queues, Counts
<1>12. InTurn' /\ NewestIsRouted'
  BY <1>1, <1>3 DEF InTurn, NewestIsRouted
<1>13. ASSUME NEW d \in Device, d # e PROVE Sound(d)'
  <2>1. Bystander(d)
    BY <1>3, <1>7, <1>8, <1>9, <1>10, <1>13 DEF Bystander
  <2> QED
    BY <1>1, <2>1, BystanderIsSound
<1>14. Sound(e)'
  <2>1. Owned(e) /\ Early(e) /\ OpenedOnce(e) /\ Pipes(e)
    BY <1>1, <1>6 DEF Sound
  <2>2. dev[e].gen = g /\ g # None /\ proxy[e] # "none"
    BY <1>6, <2>1, Names DEF Owned, Known, Early
  <2>3. Up(e) /\ Down(e)
    BY <2>1, <2>2 DEF Pipes
  <2>4. Owned(e)'
    BY <1>3, <1>7, <1>8, <1>10, <2>1, <2>2 DEF Owned, Known, In
  <2>5. Early(e)'
    BY <1>3, <2>1, <2>2 DEF Early, In
  <2>6. OpenedOnce(e)'
    BY <1>3, <1>8, <2>1 DEF OpenedOnce
  <2>7. Up(e)'
    <3>1. UpReaches(e)' => UpReaches(e)
      BY <1>3, <1>8, <2>2 DEF UpReaches
    <3>2. /\ Passed(toHost[g], toHost'[g], e)
          /\ toLocal'[e] = toLocal[e] /\ heard'[e] = heard[e] /\ asked'[e] = asked[e]
          /\ Relays(e)' /\ host'[g] = "up" => Relays(e) /\ host[g] = "up"
      BY <1>3, <1>8 DEF In, Relays
    <3>3. dev'[e].gen = g
      BY <1>3, <2>2
    <3> QED
      BY <1>1, <1>6, <2>2, <2>3, <3>1, <3>2, <3>3, UpStays
  <2>8. Down(e)'
    <3>1. PICK q, l, h, a : q = fromHost[g] /\ l = toDevice[e] /\ h = got[e] /\ a = said[e]
      OBVIOUS
    <3>2. q \in Seq(Packet) /\ l \in Seq(Packet) /\ h \in Seq(Nat) /\ a \in Nat
      BY <1>1, <1>6, <3>1, QueueTypes
    <3>3. /\ Base(q, l, h, a, e)
          /\ DownReaches(e) =>
                /\ Flows(q, l, h, a, e)
                /\ proxy[e] # "done" /\ conn[g] # "ended" => Full(q, l, h, a, e)
      BY <2>2, <2>3, <3>1 DEF Down
    <3>4. q # <<>> /\ p = Head(q) /\ fromHost'[g] = Tail(q) /\ Tail(q) \in Seq(Packet)
      BY <1>2, <1>6, <1>7, <3>1, AtHead
    <3>5. Base(Tail(q), l, h, a, e)
      BY <3>2, <3>3, <3>4, PipeDrops
    <3>6. CASE toDevice' = toDevice /\ (route # g \/ e \notin devices'[g])
      <4>1. ~DownReaches(e)'
        BY <1>3, <2>2, <3>6 DEF DownReaches
      <4> QED
        BY <1>3, <2>2, <3>1, <3>4, <3>5, <3>6, <4>1 DEF Down
    <3>7. CASE /\ route = g /\ e \in devices[g] /\ devices' = devices
               /\ toDevice' = [toDevice EXCEPT ![e] = Append(@, p)]
      <4>1. toDevice'[e] = Append(l, p)
        BY <1>5, <1>6, <3>1, <3>7 DEF Lanes
      <4>2. CASE p.kind # "data"
        <5>1. Base(Tail(q), Append(l, p), h, a, e) /\ ~Quiet(Append(l, p))
          BY <1>6, <3>2, <3>4, <3>5, <4>2, PipeTold
        <5>2. ~DownReaches(e)'
          BY <4>1, <5>1 DEF DownReaches
        <5> QED
          BY <1>3, <2>2, <3>1, <3>4, <4>1, <5>1, <5>2 DEF Down
      <4>3. CASE p.kind = "data"
        <5>1. IsData(Head(q), e)
          BY <1>2, <3>4, <4>3 DEF IsData
        <5>2. Quiet(l) => DownReaches(e)
          BY <2>2, <3>1, <3>7 DEF DownReaches
        <5>3. /\ Base(Tail(q), Append(l, p), h, a, e)
              /\ Quiet(Append(l, p)) => Quiet(l)
              /\ Flows(q, l, h, a, e) => Flows(Tail(q), Append(l, p), h, a, e)
              /\ Flows(q, l, h, a, e) /\ Full(q, l, h, a, e) =>
                    Full(Tail(q), Append(l, p), h, a, e)
          BY <3>2, <3>3, <3>4, <5>1, <5>2, PipePasses
        <5>4. DownReaches(e)' => DownReaches(e)
          BY <4>1, <5>2, <5>3 DEF DownReaches
        <5> QED
          BY <1>3, <2>2, <3>1, <3>3, <3>4, <4>1, <5>3, <5>4 DEF Down
      <4> QED
        BY <4>2, <4>3
    <3>8. devices' = [devices EXCEPT ![g] = @ \ {e}] => e \notin devices'[g]
      BY <1>1 DEF Typed, Table
    <3> QED
      BY <1>4, <3>6, <3>7, <3>8
  <2> QED
    BY <2>4, <2>5, <2>6, <2>7, <2>8 DEF Sound, Pipes
<1> QED
  BY <1>11, <1>12, <1>13, <1>14 DEF TunnelInv, Placed, Sound

LEMMA ConnReadsHolds ==
    ASSUME TunnelInv, NEW g \in Gen, ConnReads(g)
    PROVE  TunnelInv'
<1>1. Typed /\ InTurn /\ NewestIsRouted /\ \A d \in Device : Sound(d)
  BY InvIs
<1>2. PICK p, e : p = Head(toHost[g]) /\ e = p.device
  OBVIOUS
<1>3. /\ link' = link /\ host' = host /\ route' = route /\ newest' = newest /\ dev' = dev
      /\ conn' = conn /\ devices' = devices /\ toDevice' = toDevice
      /\ asked' = asked /\ heard' = heard /\ said' = said /\ got' = got
      /\ OneLess(toHost, toHost', g)
  BY DEF ConnReads, bridge, data, OneLess
<1>4. \/ /\ p.kind = "open" /\ locals' = [locals EXCEPT ![g] = @ \cup {e}]
         /\ proxy' = [proxy EXCEPT ![e] = "running"]
         /\ toLocal' = toLocal /\ fromHost' = fromHost
      \/ /\ p.kind # "open" /\ e \in locals[g] /\ Fits(toLocal[e])
         /\ toLocal' = [toLocal EXCEPT ![e] = Append(@, p)]
         /\ locals' = locals /\ proxy' = proxy /\ fromHost' = fromHost
      \/ /\ p.kind # "open" /\ e \notin locals[g]
         /\ locals' = locals /\ proxy' = proxy /\ toLocal' = toLocal /\ fromHost' = fromHost
      \/ /\ p.kind # "open" /\ e \in locals[g] /\ locals' = [locals EXCEPT ![g] = @ \ {e}]
         /\ ToBridge(g, Closed(e)) /\ toLocal' = toLocal /\ proxy' = proxy
  BY <1>2 DEF ConnReads
<1>5. Lanes(toHost, Gen) /\ Lanes(fromHost, Gen) /\ Lanes(toDevice, Device) /\ Lanes(toLocal, Device)
  BY <1>1 DEF Typed, Queues
<1>6. /\ toHost[g] \in Seq(Packet) /\ toHost[g] # <<>> /\ p \in Packet /\ e \in Device
      /\ Mentions(toHost[g], e) /\ (p.kind = "open" => Opens(toHost[g], e))
      /\ \A d : d # e => ~IsData(p, d)
  <2>1. toHost[g] \in Seq(Packet) /\ toHost[g] # <<>>
    BY <1>3, <1>5 DEF OneLess, Lanes
  <2>2. p \in Packet /\ Mentions(toHost[g], e) /\ (p.kind = "open" => Opens(toHost[g], e))
    BY <1>2, <2>1, AtHead, NamedOut
  <2> QED
    BY <1>2, <2>1, <2>2 DEF Packet, IsData
<1>7. /\ Lanes(toHost', Gen) /\ toHost'[g] = Tail(toHost[g])
      /\ \A y \in Gen : \A d :
            /\ Mentions(toHost'[y], d) => Mentions(toHost[y], d)
            /\ Opens(toHost'[y], d) => Opens(toHost[y], d)
            /\ OpenFirst(toHost[y], d) => OpenFirst(toHost'[y], d)
            /\ d # e => Passed(toHost[y], toHost'[y], d)
  <2>1. /\ Lanes(toHost', Gen) /\ toHost'[g] = Tail(toHost[g])
        /\ \A y \in Gen : \A d :
              /\ Mentions(toHost'[y], d) => Mentions(toHost[y], d)
              /\ Opens(toHost'[y], d) => Opens(toHost[y], d)
              /\ OpenFirst(toHost[y], d) => OpenFirst(toHost'[y], d)
              /\ ~IsData(Head(toHost[g]), d) => Passed(toHost[y], toHost'[y], d)
    BY <1>3, <1>5, Took
  <2> QED
    BY <1>2, <1>6, <2>1
<1>8. /\ Lanes(fromHost', Gen)
      /\ \A y \in Gen : \A d :
            /\ Mentions(fromHost'[y], d) => Mentions(fromHost[y], d) \/ (y = g /\ e = d)
            /\ Passed(fromHost[y], fromHost'[y], d)
      /\ (p.kind # "open" /\ e \in locals[g]) \/ fromHost' = fromHost
  <2>1. PICK c : c = Closed(e)
    OBVIOUS
  <2>2. OneMore(fromHost, fromHost', g, c)
    BY <1>4, <1>5, <2>1, PutToBridge DEF OneMore
  <2>3. c \in Packet /\ c.device = e /\ \A d : ~IsData(c, d)
    BY <1>6, <2>1, Packets
  <2>4. /\ Lanes(fromHost', Gen)
        /\ \A y \in Gen : \A d :
              /\ Mentions(fromHost'[y], d) => Mentions(fromHost[y], d) \/ (y = g /\ c.device = d)
              /\ ~IsData(c, d) => Passed(fromHost[y], fromHost'[y], d)
    BY <1>5, <2>2, <2>3, Put
  <2> QED
    BY <1>4, <2>3, <2>4
<1>9. /\ Lanes(toLocal', Device)
      /\ \A y \in Device : y # e => toLocal'[y] = toLocal[y]
  <2>1. OneMore(toLocal, toLocal', e, p)
    BY <1>4 DEF OneMore
  <2> QED
    BY <1>5, <1>6, <2>1, Put
<1>10. /\ locals' \in [Gen -> SUBSET Device]
       /\ \A f \in Gen : \A d : /\ d \in locals'[f] => d \in locals[f] \/ (f = g /\ d = e)
                                /\ d # e => (d \in locals'[f] <=> d \in locals[f])
       /\ locals' = [locals EXCEPT ![g] = @ \ {e}] => e \notin locals'[g]
  <2>1. locals \in [Gen -> SUBSET Device]
    BY <1>1 DEF Typed, Tasks
  <2>2. CASE locals' = locals
    BY <2>1, <2>2
  <2>3. CASE locals' = [locals EXCEPT ![g] = @ \ {e}]
    BY <2>1, <2>3
  <2>4. CASE locals' = [locals EXCEPT ![g] = @ \cup {e}]
    BY <1>6, <2>1, <2>4
  <2> QED
    BY <1>4, <2>2, <2>3, <2>4
<1>11. /\ proxy' \in [Device -> {"none", "running", "done"}]
       /\ \A d \in Device : d # e => proxy'[d] = proxy[d]
       /\ proxy'[e] = proxy[e] \/ (p.kind = "open" /\ proxy'[e] = "running")
  BY <1>1, <1>4, <1>6 DEF Typed, Tasks
<1>12. Typed'
  BY <1>1, <1>3, <1>7, <1>8, <1>9, <1>10, <1>11 DEF Typed, Tasks, Queues, Counts
<1>13. InTurn' /\ NewestIsRouted'
  BY <1>1, <1>3 DEF InTurn, NewestIsRouted
<1>14. ASSUME NEW d \in Device, d # e PROVE Sound(d)'
  <2>1. Bystander(d)
    BY <1>3, <1>7, <1>8, <1>9, <1>10, <1>11, <1>14 DEF Bystander
  <2> QED
    BY <1>1, <2>1, BystanderIsSound
<1>15. Sound(e)'
  <2>1. Owned(e) /\ Early(e) /\ OpenedOnce(e) /\ Pipes(e)
    BY <1>1, <1>6 DEF Sound
  <2>2. dev[e].gen = g /\ g # None
    BY <1>6, <2>1, Names DEF Owned, Known
  <2>3. Up(e) /\ Down(e)
    BY <2>1, <2>2 DEF Pipes
  <2>4. p.kind = "open" => proxy[e] = "none"
    BY <1>6, <2>1 DEF OpenedOnce
  <2>5. Owned(e)'
    BY <1>3, <1>7, <1>8, <1>10, <2>1, <2>2 DEF Owned, Known, In
  <2>6. Early(e)'
    <3>1. ~In(e, "new") /\ ~In(e, "found") /\ ~In(e, "entered")
      BY <1>6, <2>1 DEF Early
    <3>2. ASSUME proxy'[e] = "none"
          PROVE  /\ said[e] = 0 /\ heard[e] = <<>> /\ toLocal'[e] = <<>>
                 /\ \A f \in Gen : e \notin locals'[f] /\ ~Mentions(fromHost'[f], e)
      <4>1. proxy[e] = "none"
        BY <1>11, <3>2
      <4>2. /\ said[e] = 0 /\ heard[e] = <<>> /\ toLocal[e] = <<>>
            /\ \A f \in Gen : e \notin locals[f] /\ ~Mentions(fromHost[f], e)
        BY <2>1, <4>1 DEF Early
      <4>3. proxy \in [Device -> {"none", "running", "done"}]
        BY <1>1 DEF Typed, Tasks
      <4>4. locals' = locals /\ toLocal' = toLocal /\ fromHost' = fromHost
        BY <1>4, <1>6, <3>2, <4>2, <4>3
      <4> QED
        BY <4>2, <4>4
    <3> QED
      BY <1>3, <3>1, <3>2 DEF Early, In
  <2>7. \A f \in Gen : ~Opens(toHost'[f], e)
    <3>1. ~Opens(toHost'[g], e)
      BY <1>2, <1>6, <1>7, <2>1, NamedOut DEF OpenedOnce
    <3>2. ASSUME NEW f \in Gen, f # g PROVE ~Opens(toHost'[f], e)
      BY <1>7, <2>1, <2>2, <3>2, OpensMentions DEF Owned, Known
    <3> QED
      BY <3>1, <3>2
  <2>8. OpenedOnce(e)'
    BY <1>7, <2>1, <2>7 DEF OpenedOnce
  <2>9. Down(e)'
    <3>1. DownReaches(e)' => DownReaches(e)
      BY <1>3 DEF DownReaches
    <3>2. /\ Passed(fromHost[g], fromHost'[g], e)
          /\ toDevice'[e] = toDevice[e] /\ got'[e] = got[e] /\ said'[e] = said[e]
          /\ proxy'[e] # "done" /\ conn'[g] # "ended" => proxy[e] # "done" /\ conn[g] # "ended"
      BY <1>3, <1>8, <1>11, <2>4
    <3>3. dev'[e].gen = g
      BY <1>3, <2>2
    <3> QED
      BY <1>1, <1>6, <2>2, <2>3, <3>1, <3>2, <3>3, DownStays
  <2>10. Up(e)'
    <3>1. PICK q, l, h, a : q = toHost[g] /\ l = toLocal[e] /\ h = heard[e] /\ a = asked[e]
      OBVIOUS
    <3>2. q \in Seq(Packet) /\ l \in Seq(Packet) /\ h \in Seq(Nat) /\ a \in Nat
      BY <1>1, <1>6, <3>1, QueueTypes
    <3>3. /\ Base(q, l, h, a, e)
          /\ UpReaches(e) =>
                /\ Flows(q, l, h, a, e)
                /\ Relays(e) /\ host[g] = "up" => Full(q, l, h, a, e)
      BY <2>2, <2>3, <3>1 DEF Up, Relays
    <3>4. q # <<>> /\ p = Head(q) /\ toHost'[g] = Tail(q) /\ Tail(q) \in Seq(Packet)
      BY <1>2, <1>6, <1>7, <3>1, AtHead
    <3>5. Base(Tail(q), l, h, a, e)
      BY <3>2, <3>3, <3>4, PipeDrops
    <3>6. CASE toLocal' = toLocal /\ e \notin locals'[g]
      <4>1. ~UpReaches(e)'
        BY <1>3, <2>2, <2>7, <3>6 DEF UpReaches
      <4> QED
        BY <1>3, <2>2, <3>1, <3>4, <3>5, <3>6, <4>1 DEF Up, Relays
    <3>7. CASE p.kind = "open" /\ toLocal' = toLocal
      <4>1. UpReaches(e)
        BY <1>6, <2>2, <3>7 DEF UpReaches
      <4>2. ~IsData(Head(q), e)
        BY <3>4, <3>7 DEF IsData
      <4>3. /\ Flows(q, l, h, a, e) => Flows(Tail(q), l, h, a, e)
            /\ Full(q, l, h, a, e) => Full(Tail(q), l, h, a, e)
        BY <3>2, <3>4, <4>2, PipeOtherOut
      <4> QED
        BY <1>3, <2>2, <3>1, <3>3, <3>4, <3>5, <3>7, <4>1, <4>3 DEF Up, In, Relays
    <3>8. CASE /\ e \in locals[g] /\ locals' = locals
               /\ toLocal' = [toLocal EXCEPT ![e] = Append(@, p)]
      <4>1. toLocal'[e] = Append(l, p)
        BY <1>5, <1>6, <3>1, <3>8 DEF Lanes
      <4>2. CASE p.kind # "data"
        <5>1. Base(Tail(q), Append(l, p), h, a, e) /\ ~Quiet(Append(l, p))
          BY <1>6, <3>2, <3>4, <3>5, <4>2, PipeTold
        <5>2. ~UpReaches(e)'
          BY <1>3, <2>2, <2>7, <4>1, <5>1 DEF UpReaches
        <5> QED
          BY <1>3, <2>2, <3>1, <3>4, <4>1, <5>1, <5>2 DEF Up, Relays
      <4>3. CASE p.kind = "data"
        <5>1. IsData(Head(q), e)
          BY <1>2, <3>4, <4>3 DEF IsData
        <5>2. Quiet(l) => UpReaches(e)
          BY <2>2, <3>1, <3>8 DEF UpReaches
        <5>3. /\ Base(Tail(q), Append(l, p), h, a, e)
              /\ Quiet(Append(l, p)) => Quiet(l)
              /\ Flows(q, l, h, a, e) => Flows(Tail(q), Append(l, p), h, a, e)
              /\ Flows(q, l, h, a, e) /\ Full(q, l, h, a, e) =>
                    Full(Tail(q), Append(l, p), h, a, e)
          BY <3>2, <3>3, <3>4, <5>1, <5>2, PipePasses
        <5>4. UpReaches(e)' => UpReaches(e)
          BY <1>3, <2>2, <2>7, <4>1, <5>2, <5>3 DEF UpReaches
        <5> QED
          BY <1>3, <2>2, <3>1, <3>3, <3>4, <4>1, <5>3, <5>4 DEF Up, In, Relays
      <4> QED
        BY <4>2, <4>3
    <3> QED
      BY <1>4, <1>10, <3>6, <3>7, <3>8
  <2> QED
    BY <2>5, <2>6, <2>8, <2>9, <2>10 DEF Sound, Pipes
<1> QED
  BY <1>12, <1>13, <1>14, <1>15 DEF TunnelInv, Placed, Sound

-----------------------------------------------------------------------------
(* The theorem *)

LEMMA TunnelStarts == Init => TunnelInv
<1> SUFFICES ASSUME Init PROVE TunnelInv
  OBVIOUS
<1>1. Tasks
  BY DEF Init, Tasks
<1>2. Queues
  <2>1. <<>> \in Seq(Packet) /\ Len(<<>>) = 0
    OBVIOUS
  <2> QED
    BY <2>1, TunnelAssumption DEF Init, Queues, Lanes
<1>3. Table(devices)
  BY FS_EmptySet, TunnelAssumption DEF Init, Table
<1>4. Counts
  <2>1. <<>> \in Seq(Nat)
    OBVIOUS
  <2>2. \A d \in Device : 0 <= MaxUp[d] /\ 0 <= MaxDown[d]
    BY TunnelAssumption
  <2>3. /\ asked = [d \in Device |-> 0] /\ heard = [d \in Device |-> <<>>]
        /\ said = [d \in Device |-> 0] /\ got = [d \in Device |-> <<>>]
    BY DEF Init
  <2>4. heard \in [Device -> Seq(Nat)] /\ got \in [Device -> Seq(Nat)]
    BY <2>1, <2>3
  <2> QED
    BY <2>2, <2>3, <2>4 DEF Counts
<1>5. InTurn /\ NewestIsRouted
  BY DEF Init, InTurn, NewestIsRouted
<1>6. ASSUME NEW d \in Device PROVE Sound(d)
  <2>1. \A g \in Gen : /\ toHost[g] = <<>> /\ fromHost[g] = <<>>
                       /\ ~Mentions(toHost[g], d) /\ ~Mentions(fromHost[g], d)
                       /\ ~Opens(toHost[g], d) /\ OpenFirst(toHost[g], d)
    BY DEF Init, Mentions, Opens, OpenFirst
  <2>2. dev[d].gen = None /\ dev[d].phase = "new"
    BY DEF Init
  <2>3. Owned(d)
    BY <2>1, <2>2 DEF Init, Owned, Known, In
  <2>4. Early(d)
    BY <2>1 DEF Init, Early
  <2>5. OpenedOnce(d)
    BY <2>1 DEF OpenedOnce
  <2> QED
    BY <2>2, <2>3, <2>4, <2>5 DEF Sound, Pipes
<1> QED
  BY <1>1, <1>2, <1>3, <1>4, <1>5, <1>6, InvIs DEF Typed

LEMMA TunnelSteps == TunnelInv /\ [Next]_vars => TunnelInv'
<1> SUFFICES ASSUME TunnelInv, [Next]_vars PROVE TunnelInv'
  OBVIOUS
<1>1. ASSUME NEW g \in Gen, Socket(g) PROVE TunnelInv'
  BY <1>1, ConnStartsHolds, UpgradedHolds, GivesUpHolds, RegisterHostHolds, LinkLostHolds, HostEndsHolds, ConnEndsHolds, HostReadsHolds,
     ConnReadsHolds DEF Socket
<1>2. ASSUME NEW d \in Device, Connection(d) PROVE TunnelInv'
  BY <1>2, FindHolds, EnterHolds, OpenTunnelHolds, DeviceTakesHolds, DeviceWritesHolds, BrowserSendsHolds,
     BrowserLeavesHolds, ListenerSendsHolds, ListenerClosesHolds, ProxyTakesHolds
     DEF Connection, BridgeDevice
<1>3. CASE UNCHANGED vars
  <2>1. Typed /\ InTurn /\ NewestIsRouted /\ \A d \in Device : Sound(d)
    BY InvIs
  <2>2. /\ link' = link /\ host' = host /\ route' = route /\ newest' = newest /\ fromHost' = fromHost
        /\ conn' = conn /\ locals' = locals /\ proxy' = proxy /\ toLocal' = toLocal
        /\ asked' = asked /\ heard' = heard /\ said' = said /\ got' = got
        /\ devices' = devices /\ toDevice' = toDevice /\ toHost' = toHost /\ dev' = dev
    BY <1>3 DEF vars, connector, data, bridge
  <2>3. Typed'
    BY <2>1, <2>2 DEF Typed, Tasks, Queues, Counts
  <2>4. InTurn' /\ NewestIsRouted'
    BY <2>1, <2>2 DEF InTurn, NewestIsRouted
  <2>5. ASSUME NEW d \in Device PROVE Sound(d)'
    <3>1. Bystander(d)
      BY <2>2, Untouched DEF Bystander
    <3> QED
      BY <2>1, <3>1, BystanderIsSound
  <2> QED
    BY <2>3, <2>4, <2>5 DEF TunnelInv, Placed, Sound
<1> QED
  BY <1>1, <1>2, <1>3 DEF Next

LEMMA TunnelInvHolds == TunnelInv => TunnelHolds
<1> SUFFICES ASSUME TunnelInv PROVE TunnelHolds
  OBVIOUS
<1>1. Typed /\ InTurn /\ NewestIsRouted /\ \A d \in Device : Sound(d)
  BY InvIs
<1>2. ASSUME NEW d \in Device PROVE Counting(got[d]) /\ Counting(heard[d])
  <2>1. CASE dev[d].gen = None
    <3>1. got[d] = <<>> /\ heard[d] = <<>>
      BY <1>1, <2>1 DEF Sound, Owned, Early
    <3> QED
      BY <3>1 DEF Counting
  <2>2. CASE dev[d].gen # None
    BY <1>1, <2>2 DEF Sound, Pipes, Up, Down, Base, Relays
  <2> QED
    BY <2>1, <2>2
<1>3. ASSUME NEW g \in Gen, host[g] = "up", link[g], route # g
      PROVE  newest # g /\ ~link[newest]
  <2>1. newest # g
    BY <1>1, <1>3, Names DEF NewestIsRouted
  <2>2. newest \in Gen
    BY <1>1, <1>3 DEF InTurn, Typed, Tasks
  <2>3. newest < g \/ g < newest
    BY <2>1, <2>2, Names
  <2>4. conn[g] \notin {"none", "ended"} /\ (link[newest] => conn[newest] \notin {"none", "ended"})
    BY <1>1, <1>3, <2>2 DEF InTurn
  <2>5. CASE newest < g
    BY <1>1, <2>2, <2>4, <2>5 DEF InTurn
  <2>6. CASE g < newest
    BY <1>1, <2>2, <2>4, <2>6 DEF InTurn
  <2> QED
    BY <2>1, <2>3, <2>5, <2>6
<1>4. LiveIsRouted
  BY <1>3 DEF LiveIsRouted
<1> QED
  BY <1>1, <1>2, <1>4, TypedIsTypeOK DEF TunnelHolds, NoHoles

\* Whatever queue fills, whichever socket is lost and however late either end notices, what
\* reaches the listener is the beginning of what the browser sent, and what reaches the browser
\* the beginning of what the listener sent; the bridge's table keeps MAX_DEVICES_PER_ROUTE, and
\* the route is the newest registration's, which is the live connector's own unless an attempt it
\* gave up registered after it (handle_public_connection, serve_host_socket, connect_once).
THEOREM TunnelAlwaysHolds == Spec => []TunnelHolds
<1>1. Spec => []TunnelInv
  BY TunnelStarts, TunnelSteps, PTL DEF Spec
<1> QED
  BY <1>1, TunnelInvHolds, PTL

-----------------------------------------------------------------------------
(* The events of a stream *)

\* The message the loop is at, while its browser is there.
At == Len(events) + 1

\* Byte i[j] of message m[j] is at place j of the pipe; at place 0 is the byte read last.  Each
\* follows the one before it, and the last is the one written last.
Chain(m, i, m0, i0, lens, L, last, bytes, N) ==
    /\ m[0] = m0 /\ i[0] = i0 /\ m[N] = L /\ i[N] = last
    /\ \A j \in 0..N : m[j] <= L
    /\ \A j \in 1..N :
          /\ IF m[j - 1] = 0 \/ i[j - 1] = lens[m[j - 1]]
             THEN m[j] = m[j - 1] + 1 /\ i[j] = 1
             ELSE m[j] = m[j - 1] /\ i[j] = i[j - 1] + 1
          /\ bytes[j] = ByteOf(m[j], i[j], lens[m[j]])
Laid(m0, i0, lens, L, last, bytes, N) ==
    \E m, i \in [Nat -> Nat] : Chain(m, i, m0, i0, lens, L, last, bytes, N)

\* The message and the place in it of the byte that follows byte i0 of message m0.
NextMessage(m0, i0, lens) == IF m0 = 0 \/ i0 = lens[m0] THEN m0 + 1 ELSE m0
NextByte(m0, i0, lens) == IF m0 = 0 \/ i0 = lens[m0] THEN 1 ELSE i0 + 1

\* Byte i1 of message m1 is read, and the rest lies as it should.
ReadOn(m1, i1, lens, L, last, byte, less, R) ==
    m1 <= L /\ byte = ByteOf(m1, i1, lens[m1]) /\ Laid(m1, i1, lens, L, last, less, R)

\* The byte read last: of the line, or the last of the last event.
LastMessage == IF line = <<>> THEN Len(events) ELSE At
LastByte == IF line # <<>> THEN Len(line) ELSE IF events = <<>> THEN 0 ELSE lengths[Len(events)]
Arranged == Laid(LastMessage, LastByte, lengths, Len(lengths), written, pipe, Len(pipe))

\* The line is the beginning of that message, all of it once it is written out.
Begun ==
    /\ \A k \in 1..Len(line) : line[k] = ByteOf(At, k, lengths[At])
    /\ At > Len(lengths) => line = <<>> /\ loop # "writing"
    /\ At <= Len(lengths) =>
          IF loop = "writing" THEN Len(line) = lengths[At] ELSE Len(line) < lengths[At]

\* A message is written byte by byte, the next one when all of it is.
InMessage ==
    IF lengths = <<>> THEN written = 0 ELSE written \in 1..lengths[Len(lengths)]

\* The pass in progress may read what is left of the cap, and there is something left.
Within ==
    /\ Len(events) <= Len(lengths)
    /\ budget = MaxMessageBytes - Len(line)
    /\ loop = "reading" => budget > 0

StreamInv ==
    /\ StreamTypeOK /\ InMessage /\ Within
    /\ reached /\ loop # "ended" => Begun /\ Arranged
    /\ EventsAreTheMessages

LEMMA StreamFacts ==
    ASSUME StreamInv
    PROVE  /\ lengths \in Seq(1..MaxLength) /\ Len(lengths) \in Nat
           /\ \A m \in 1..Len(lengths) : lengths[m] \in Nat /\ lengths[m] >= 1
           /\ written \in Nat
           /\ pipe \in Seq(Byte) /\ Len(pipe) \in Nat
           /\ line \in Seq(Byte) /\ Len(line) \in Nat
           /\ events \in Seq(Seq(Byte)) /\ Len(events) \in Nat
           /\ At \in Nat /\ At >= 1 /\ At <= Len(lengths) + 1
           /\ events # <<>> => Len(events) \in 1..Len(lengths)
           /\ loop \in {"reading", "writing", "ended"}
<1> USE StreamAssumption
<1>1. StreamTypeOK /\ Len(events) <= Len(lengths)
  BY DEF StreamInv, Within
<1>2. lengths \in Seq(1..MaxLength) /\ pipe \in Seq(Byte) /\ line \in Seq(Byte) /\ events \in Seq(Seq(Byte))
  BY <1>1 DEF StreamTypeOK
<1>3. Len(lengths) \in Nat /\ Len(pipe) \in Nat /\ Len(line) \in Nat /\ Len(events) \in Nat
  BY <1>2
<1>4. \A m \in 1..Len(lengths) : lengths[m] \in Nat /\ lengths[m] >= 1
  BY <1>2
<1>5. written \in Nat /\ loop \in {"reading", "writing", "ended"}
  BY <1>1 DEF StreamTypeOK
<1> QED
  BY <1>1, <1>2, <1>3, <1>4, <1>5 DEF At

LEMMA StreamInitInv == StreamInit => StreamInv
<1> SUFFICES ASSUME StreamInit PROVE StreamInv
  OBVIOUS
<1> USE StreamAssumption
<1>1. StreamTypeOK /\ InMessage /\ EventsAreTheMessages
  BY DEF StreamInit, StreamTypeOK, InMessage, EventsAreTheMessages, WholeInOrder, NothingOversized,
         EndsForCause, Remaining
<1>2. Begun
  BY DEF StreamInit, Begun, At
<1>3. Arranged
  <2> DEFINE zero == [k \in Nat |-> 0]
  <2>1. zero \in [Nat -> Nat] /\ zero[0] = 0
    OBVIOUS
  <2>2. Len(lengths) = 0 /\ LastMessage = 0 /\ LastByte = 0 /\ Len(pipe) = 0 /\ written = 0
    BY DEF StreamInit, LastMessage, LastByte
  <2> HIDE DEF zero
  <2>3. Chain(zero, zero, LastMessage, LastByte, lengths, Len(lengths), written, pipe, Len(pipe))
    BY <2>1, <2>2 DEF Chain
  <2> QED
    BY <2>1, <2>3 DEF Arranged, Laid
<1> QED
  BY <1>1, <1>2, <1>3 DEF StreamInit, StreamInv, Within, Remaining

\* Writing a byte leaves the events the messages they are.
LEMMA EventsStay ==
    ASSUME StreamInv, UNCHANGED <<events, loop, reached, fed>>, loop # "ended",
           \/ UNCHANGED lengths
           \/ \E n \in 1..MaxLength : lengths' = Append(lengths, n)
    PROVE  EventsAreTheMessages'
<1>0. /\ lengths \in Seq(1..MaxLength) /\ Len(lengths) \in Nat /\ Len(events) \in Nat
      /\ Len(events) <= Len(lengths)
  BY StreamFacts DEF StreamInv, Within
<1>1. \A e \in 1..Len(events) : e \in 1..Len(lengths) /\ lengths'[e] = lengths[e]
  <2>1. CASE UNCHANGED lengths
    BY <2>1, <1>0
  <2>2. CASE \E n \in 1..MaxLength : lengths' = Append(lengths, n)
    BY <2>2, <1>0
  <2> QED
    BY <2>1, <2>2
<1>2. WholeInOrder'
  BY <1>1 DEF StreamInv, EventsAreTheMessages, WholeInOrder, Whole
<1> QED
  BY <1>2 DEF StreamInv, EventsAreTheMessages, NothingOversized, EndsForCause

\* A byte is appended to the pipe: the next one of the last message, or the first of a new one.
LEMMA MoreLaid ==
    ASSUME NEW lens, NEW longer, NEW L \in Nat, NEW M \in Nat, NEW m0 \in Nat, NEW i0 \in Nat,
           NEW last \in Nat, NEW next \in Nat, NEW bytes, NEW more, NEW N \in Nat,
           Laid(m0, i0, lens, L, last, bytes, N),
           L <= M, \A k \in 1..L : longer[k] = lens[k],
           IF L = 0 \/ last = lens[L] THEN M = L + 1 /\ next = 1 ELSE M = L /\ next = last + 1,
           \A j \in 1..N : more[j] = bytes[j],
           more[N + 1] = ByteOf(M, next, longer[M])
    PROVE  Laid(m0, i0, longer, M, next, more, N + 1)
<1>1. PICK m, i \in [Nat -> Nat] : Chain(m, i, m0, i0, lens, L, last, bytes, N)
  BY DEF Laid
<1> DEFINE m2 == [m EXCEPT ![N + 1] = M]
           i2 == [i EXCEPT ![N + 1] = next]
<1>2. m2 \in [Nat -> Nat] /\ i2 \in [Nat -> Nat] /\ m2[N + 1] = M /\ i2[N + 1] = next
      /\ \A k \in Nat : k # N + 1 => m2[k] = m[k] /\ i2[k] = i[k]
  <2>1. N + 1 \in Nat
    OBVIOUS
  <2>2. m2 \in [Nat -> Nat] /\ m2[N + 1] = M /\ \A k \in Nat : k # N + 1 => m2[k] = m[k]
    BY <2>1
  <2>3. i2 \in [Nat -> Nat] /\ i2[N + 1] = next /\ \A k \in Nat : k # N + 1 => i2[k] = i[k]
    BY <2>1
  <2> QED
    BY <2>2, <2>3
<1> HIDE DEF m2, i2
<1>3. m2[0] = m0 /\ i2[0] = i0
  BY <1>1, <1>2, SMTT(30) DEF Chain
<1>4. ASSUME NEW j \in 0..(N + 1) PROVE m2[j] <= M
  <2>1. CASE j = N + 1
    BY <2>1, <1>2
  <2>2. CASE j # N + 1
    <3>1. j \in 0..N /\ m2[j] = m[j] /\ m[j] \in Nat
      BY <2>2, <1>2
    <3>2. m[j] <= L
      BY <3>1, <1>1 DEF Chain
    <3> QED
      BY <3>1, <3>2
  <2> QED
    BY <2>1, <2>2
<1>5. ASSUME NEW j \in 1..(N + 1)
      PROVE  /\ IF m2[j - 1] = 0 \/ i2[j - 1] = longer[m2[j - 1]]
                THEN m2[j] = m2[j - 1] + 1 /\ i2[j] = 1
                ELSE m2[j] = m2[j - 1] /\ i2[j] = i2[j - 1] + 1
             /\ more[j] = ByteOf(m2[j], i2[j], longer[m2[j]])
  <2>1. j - 1 \in 0..N /\ m2[j - 1] = m[j - 1] /\ i2[j - 1] = i[j - 1]
        /\ m[j - 1] \in Nat /\ m[j - 1] <= L
    BY <1>1, <1>2, SMTT(30) DEF Chain
  <2>2. m[j - 1] # 0 => longer[m[j - 1]] = lens[m[j - 1]]
    BY <2>1
  <2>3. CASE j <= N
    <3>1. j \in 1..N /\ m2[j] = m[j] /\ i2[j] = i[j] /\ m[j] \in Nat /\ m[j] <= L
      BY <2>3, <1>1, <1>2 DEF Chain
    <3>2. /\ IF m[j - 1] = 0 \/ i[j - 1] = lens[m[j - 1]]
             THEN m[j] = m[j - 1] + 1 /\ i[j] = 1
             ELSE m[j] = m[j - 1] /\ i[j] = i[j - 1] + 1
          /\ bytes[j] = ByteOf(m[j], i[j], lens[m[j]])
      BY <3>1, <1>1 DEF Chain
    <3>3. m[j] # 0 /\ longer[m[j]] = lens[m[j]]
      BY <3>1, <3>2, <2>1
    <3> QED
      BY <3>1, <3>2, <3>3, <2>1, <2>2
  <2>4. CASE j = N + 1
    <3>1. m[N] = L /\ i[N] = last
      BY <1>1 DEF Chain
    <3> QED
      BY <3>1, <2>1, <2>2, <2>4, <1>2
  <2> QED
    BY <2>3, <2>4
<1>6. Chain(m2, i2, m0, i0, longer, M, next, more, N + 1)
  BY <1>2, <1>3, <1>4, <1>5 DEF Chain
<1> QED
  BY <1>2, <1>6 DEF Laid

\* The byte at the head is the one that follows the byte read last, and is read.
LEMMA HeadLaid ==
    ASSUME NEW lens, NEW L \in Nat, NEW m0 \in Nat, NEW i0 \in Nat, NEW last \in Nat,
           NEW bytes, NEW less, NEW N \in Nat, NEW R \in Nat,
           Laid(m0, i0, lens, L, last, bytes, N), R = N - 1,
           \A j \in 1..R : less[j] = bytes[j + 1]
    PROVE  ReadOn(NextMessage(m0, i0, lens), NextByte(m0, i0, lens), lens, L, last, bytes[1], less, R)
<1>1. PICK m, i \in [Nat -> Nat] : Chain(m, i, m0, i0, lens, L, last, bytes, N)
  BY DEF Laid
<1> DEFINE m2 == [k \in Nat |-> m[k + 1]]
           i2 == [k \in Nat |-> i[k + 1]]
<1>2. m2 \in [Nat -> Nat] /\ i2 \in [Nat -> Nat] /\ \A k \in Nat : m2[k] = m[k + 1] /\ i2[k] = i[k + 1]
  OBVIOUS
<1> HIDE DEF m2, i2
<1>3. m2[0] = m[1] /\ i2[0] = i[1] /\ m2[N - 1] = L /\ i2[N - 1] = last
  <2>1. N - 1 \in Nat /\ (N - 1) + 1 = N /\ 0 + 1 = 1
    OBVIOUS
  <2>2. m[N] = L /\ i[N] = last
    BY <1>1 DEF Chain
  <2>3. m2[N - 1] = m[(N - 1) + 1] /\ i2[N - 1] = i[(N - 1) + 1]
    BY <2>1, <1>2
  <2>4. m2[0] = m[0 + 1] /\ i2[0] = i[0 + 1]
    BY <1>2
  <2> QED
    BY <2>1, <2>2, <2>3, <2>4
<1>4. \A j \in 0..(N - 1) : m2[j] <= L
  BY <1>1, <1>2 DEF Chain
<1>5. ASSUME NEW j \in 1..(N - 1)
      PROVE  /\ IF m2[j - 1] = 0 \/ i2[j - 1] = lens[m2[j - 1]]
                THEN m2[j] = m2[j - 1] + 1 /\ i2[j] = 1
                ELSE m2[j] = m2[j - 1] /\ i2[j] = i2[j - 1] + 1
             /\ less[j] = ByteOf(m2[j], i2[j], lens[m2[j]])
  <2>1. j + 1 \in 1..N /\ (j + 1) - 1 = j /\ (j - 1) + 1 = j /\ j - 1 \in Nat /\ j \in Nat
    OBVIOUS
  <2>2. m2[j] = m[j + 1] /\ i2[j] = i[j + 1] /\ m2[j - 1] = m[j] /\ i2[j - 1] = i[j]
    BY <2>1, <1>2
  <2>3. /\ IF m[j] = 0 \/ i[j] = lens[m[j]]
           THEN m[j + 1] = m[j] + 1 /\ i[j + 1] = 1
           ELSE m[j + 1] = m[j] /\ i[j + 1] = i[j] + 1
        /\ bytes[j + 1] = ByteOf(m[j + 1], i[j + 1], lens[m[j + 1]])
    BY <2>1, <1>1 DEF Chain
  <2> QED
    BY <2>2, <2>3
<1>6. Chain(m2, i2, m[1], i[1], lens, L, last, less, N - 1)
  BY <1>2, <1>3, <1>4, <1>5 DEF Chain
<1>7. m[1] \in Nat /\ i[1] \in Nat /\ m[1] <= L
  BY <1>1 DEF Chain
<1>8. /\ IF m0 = 0 \/ i0 = lens[m0]
         THEN m[1] = m0 + 1 /\ i[1] = 1 ELSE m[1] = m0 /\ i[1] = i0 + 1
      /\ bytes[1] = ByteOf(m[1], i[1], lens[m[1]])
  <2>1. 1 \in 1..N /\ 1 - 1 = 0
    OBVIOUS
  <2> QED
    BY <2>1, <1>1 DEF Chain
<1>9. Laid(m[1], i[1], lens, L, last, less, N - 1)
  BY <1>2, <1>6 DEF Laid
<1>10. m[1] = NextMessage(m0, i0, lens) /\ i[1] = NextByte(m0, i0, lens)
  BY <1>8 DEF NextMessage, NextByte
<1> QED
  BY <1>7, <1>8, <1>9, <1>10 DEF ReadOn

\* Every step keeps the lines, the pipe and the events as they are described.
LEMMA DaemonWritesInv == ASSUME StreamInv, DaemonWrites PROVE StreamInv'
<1> USE StreamAssumption
<1> DEFINE L == Len(lengths)
           N == Len(pipe)
           last == IF lengths = <<>> THEN 0 ELSE lengths[L]
<1>0. UNCHANGED <<fed, loop, line, budget, reached, events>> /\ loop # "ended" /\ Len(pipe) < PipeDepth
  BY DEF DaemonWrites
<1>1. /\ lengths \in Seq(1..MaxLength) /\ L \in Nat
      /\ \A m \in 1..L : lengths[m] \in Nat /\ lengths[m] >= 1
      /\ written \in Nat /\ pipe \in Seq(Byte) /\ N \in Nat /\ Len(events) \in Nat
      /\ At \in Nat /\ At >= 1 /\ At <= L + 1 /\ line \in Seq(Byte) /\ Len(line) \in Nat
      /\ events # <<>> => Len(events) \in 1..L
      /\ loop \in {"reading", "writing", "ended"}
  BY StreamFacts
<1>2. L <= MaxMessages /\ (lengths = <<>> <=> L = 0)
      /\ (IF lengths = <<>> THEN written = 0 ELSE written \in 1..lengths[L])
  BY <1>1 DEF StreamInv, StreamTypeOK, InMessage
<1>3. /\ lengths' \in Seq(1..MaxLength) /\ Len(lengths') \in Nat /\ Len(lengths') <= MaxMessages
      /\ L <= Len(lengths') /\ 1 <= Len(lengths')
      /\ \A k \in 1..L : lengths'[k] = lengths[k]
      /\ written' \in Nat /\ written' \in 1..lengths'[Len(lengths')]
      /\ IF L = 0 \/ written = lengths[L]
         THEN Len(lengths') = L + 1 /\ written' = 1 ELSE Len(lengths') = L /\ written' = written + 1
      /\ pipe' = Append(pipe, ByteOf(Len(lengths'), written', lengths'[Len(lengths')]))
      /\ \/ UNCHANGED lengths
         \/ \E n \in 1..MaxLength : lengths' = Append(lengths, n)
  <2>1. CASE written = last
    <3>1. PICK n \in 1..MaxLength : /\ lengths' = Append(lengths, n)
                                   /\ written' = 1
                                   /\ pipe' = Append(pipe, ByteOf(Len(lengths'), 1, n))
      BY <2>1 DEF DaemonWrites
    <3>2. L < MaxMessages
      BY <2>1 DEF DaemonWrites
    <3>3. Len(lengths') = L + 1 /\ lengths'[L + 1] = n /\ \A k \in 1..L : lengths'[k] = lengths[k]
      BY <3>1, <1>1
    <3>4. L = 0 \/ written = lengths[L]
      BY <2>1, <1>2
    <3> QED
      BY <3>1, <3>2, <3>3, <3>4, <1>1, SMTT(30)
  <2>2. CASE written # last
    <3>1. /\ written' = written + 1
          /\ pipe' = Append(pipe, ByteOf(L, written', lengths[L]))
          /\ lengths' = lengths
      BY <2>2 DEF DaemonWrites
    <3>2. L # 0 /\ written # lengths[L] /\ L \in 1..L
      BY <2>2, <1>1, <1>2
    <3>3. written + 1 \in 1..lengths[L]
      BY <3>2, <1>1, <1>2, SMTT(30)
    <3> QED
      BY <3>1, <3>2, <3>3, <1>1, <1>2, SMTT(30)
  <2> QED
    BY <2>1, <2>2
<1> DEFINE b == ByteOf(Len(lengths'), written', lengths'[Len(lengths')])
<1>4. b \in Byte
  <2>1. Len(lengths') \in 1..MaxMessages
    BY <1>3
  <2> QED
    BY <2>1 DEF ByteOf, Byte
<1> HIDE DEF b
<1>5. /\ pipe' = Append(pipe, b) /\ pipe' \in Seq(Byte) /\ Len(pipe') = N + 1 /\ pipe'[N + 1] = b
      /\ \A j \in 1..N : pipe'[j] = pipe[j]
  BY <1>1, <1>3, <1>4 DEF b
<1>6. StreamTypeOK'
  <2>1. lengths'[Len(lengths')] \in 1..MaxLength
    BY <1>3
  <2>2. written' \in 0..MaxLength
    BY <2>1, <1>3
  <2> QED
    BY <2>2, <1>0, <1>1, <1>3, <1>5 DEF StreamInv, StreamTypeOK
<1>7. EventsAreTheMessages'
  BY <1>0, <1>3, EventsStay
<1>8. ASSUME reached, loop # "ended" PROVE Begun' /\ Arranged'
  <2>1. Begun /\ Arranged
    BY <1>8 DEF StreamInv
  <2>2. At' = At /\ line' = line /\ loop' = loop
    BY <1>0 DEF At
  <2>3. Begun'
    <3>1. CASE At <= L
      <4>1. At \in 1..L /\ lengths'[At] = lengths[At]
        BY <3>1, <1>1, <1>3
      <4>2. /\ \A k \in 1..Len(line) : line[k] = ByteOf(At, k, lengths[At])
            /\ IF loop = "writing" THEN Len(line) = lengths[At] ELSE Len(line) < lengths[At]
        BY <2>1, <3>1 DEF Begun
      <4>3. ~(At > Len(lengths'))
        BY <3>1, <1>1, <1>3
      <4>4. /\ \A k \in 1..Len(line) : line[k] = ByteOf(At, k, lengths'[At])
            /\ IF loop = "writing" THEN Len(line) = lengths'[At] ELSE Len(line) < lengths'[At]
        BY <4>1, <4>2
      <4> QED
        BY <4>3, <4>4, <2>2 DEF Begun
    <3>2. CASE At > L
      <4>1. line = <<>> /\ loop # "writing"
        BY <3>2, <2>1 DEF Begun
      <4>2. ASSUME At <= Len(lengths') PROVE lengths'[At] \in Nat /\ lengths'[At] >= 1
        <5>1. PICK a \in Nat, lens \in Seq(1..MaxLength) : a = At /\ lens = lengths'
          BY <1>1, <1>3
        <5>2. a \in 1..Len(lens)
          <6>1. a >= 1 /\ a <= Len(lens)
            BY <4>2, <5>1, <1>1
          <6> QED
            BY <6>1
        <5>3. lens[a] \in 1..MaxLength
          BY <5>2
        <5> QED
          BY <5>1, <5>3
      <4>3. Len(line) = 0 /\ \A k \in 1..Len(line) : FALSE
        BY <4>1
      <4>4. ASSUME At <= Len(lengths') PROVE Len(line) < lengths'[At]
        BY <4>2, <4>3, <4>4
      <4> QED
        BY <4>1, <4>3, <4>4, <2>2 DEF Begun
    <3> QED
      BY <3>1, <3>2, <1>1
  <2>4. LastMessage' = LastMessage /\ LastMessage \in Nat /\ LastByte' = LastByte /\ LastByte \in Nat
    <3>1. line' = line /\ events' = events
      BY <1>0
    <3>2. LastMessage' = LastMessage
      BY <3>1 DEF LastMessage, At
    <3>3. LastMessage \in Nat
      <4>1. Len(events) \in Nat /\ At \in Nat
        BY <1>1
      <4> QED
        BY <4>1 DEF LastMessage
    <3>4. CASE events = <<>>
      <4>1. LastByte' = LastByte
        BY <3>1, <3>4 DEF LastByte
      <4>2. Len(line) \in Nat
        BY <1>1
      <4>3. LastByte \in Nat
        BY <3>4, <4>2 DEF LastByte
      <4> QED
        BY <3>2, <3>3, <4>1, <4>3
    <3>5. CASE events # <<>>
      <4>1. Len(events) \in 1..L
        BY <3>5, <1>1
      <4>2. lengths'[Len(events)] = lengths[Len(events)] /\ lengths[Len(events)] \in Nat /\ Len(line) \in Nat
        BY <4>1, <1>1, <1>3
      <4>3. LastByte' = LastByte
        BY <3>1, <4>2 DEF LastByte
      <4>4. LastByte \in Nat
        BY <3>5, <4>2 DEF LastByte
      <4> QED
        BY <3>2, <3>3, <4>3, <4>4
    <3> QED
      BY <3>4, <3>5
  <2>5. Laid(LastMessage, LastByte, lengths', Len(lengths'), written', pipe', N + 1)
    <3>1. Laid(LastMessage, LastByte, lengths, L, written, pipe, N)
      BY <2>1 DEF Arranged
    <3> DEFINE L2 == Len(lengths')
    <3>2. L2 \in Nat /\ L <= L2 /\ N \in Nat /\ written' \in Nat /\ written \in Nat /\ L \in Nat
      BY <1>1, <1>3
    <3>3. pipe'[N + 1] = ByteOf(L2, written', lengths'[L2])
      BY <1>5 DEF b
    <3>4. /\ \A j \in 1..N : pipe'[j] = pipe[j]
          /\ \A k \in 1..L : lengths'[k] = lengths[k]
      BY <1>3, <1>5
    <3>5. IF L = 0 \/ written = lengths[L]
          THEN L2 = L + 1 /\ written' = 1 ELSE L2 = L /\ written' = written + 1
      BY <1>3
    <3> HIDE DEF L2, L, N
    <3>6. Laid(LastMessage, LastByte, lengths', L2, written', pipe', N + 1)
      BY <3>1, <3>2, <3>3, <3>4, <3>5, <2>4, MoreLaid, ZenonT(40)
    <3> QED
      BY <3>6 DEF L2, N
  <2> QED
    BY <2>3, <2>4, <2>5, <1>5 DEF Arranged
<1>9. InMessage'
  BY <1>3 DEF InMessage
<1>10. Within'
  BY <1>0, <1>1, <1>3 DEF StreamInv, Within
<1> QED
  BY <1>0, <1>6, <1>7, <1>8, <1>9, <1>10 DEF StreamInv

LEMMA ReadByteInv == ASSUME StreamInv, ReadByte PROVE StreamInv'
<1> USE StreamAssumption
<1> DEFINE L == Len(lengths)
           N == Len(pipe)
           byte == Head(pipe)
<1>0. /\ UNCHANGED <<lengths, written, fed, reached, events>> /\ loop = "reading" /\ pipe # <<>>
      /\ budget > 0 /\ pipe' = Tail(pipe) /\ line' = Append(line, byte) /\ budget' = budget - 1
      /\ loop' = IF byte.newline THEN "writing" ELSE IF budget' = 0 THEN "ended" ELSE "reading"
  BY DEF ReadByte
<1>1. /\ lengths \in Seq(1..MaxLength) /\ L \in Nat
      /\ \A m \in 1..L : lengths[m] \in Nat /\ lengths[m] >= 1
      /\ written \in Nat /\ pipe \in Seq(Byte) /\ N \in Nat /\ Len(events) \in Nat
      /\ At \in Nat /\ At >= 1 /\ At <= L + 1 /\ line \in Seq(Byte) /\ Len(line) \in Nat
      /\ events # <<>> => Len(events) \in 1..L
  BY StreamFacts
<1>2. /\ N > 0 /\ byte = pipe[1] /\ byte \in Byte /\ byte.newline \in BOOLEAN
      /\ pipe' \in Seq(Byte) /\ Len(pipe') = N - 1
      /\ \A j \in 1..(N - 1) : pipe'[j] = pipe[j + 1]
  <2>1. N > 0 /\ byte = pipe[1] /\ byte \in Byte
    BY <1>0, <1>1
  <2>2. byte.newline \in BOOLEAN
    BY <2>1 DEF Byte
  <2>3. pipe' \in Seq(Byte) /\ Len(pipe') = N - 1 /\ \A j \in 1..(N - 1) : pipe'[j] = pipe[j + 1]
    BY <1>0, <1>1
  <2> QED
    BY <2>1, <2>2, <2>3
<1>3. /\ line' \in Seq(Byte) /\ Len(line') = Len(line) + 1 /\ line'[Len(line) + 1] = byte
      /\ \A k \in 1..Len(line) : line'[k] = line[k]
  BY <1>0, <1>1, <1>2
<1>4. budget \in Nat /\ budget <= MaxMessageBytes /\ budget = MaxMessageBytes - Len(line)
      /\ Len(pipe) <= PipeDepth /\ Len(events) <= L
  BY DEF StreamInv, StreamTypeOK, Within
<1>5. StreamTypeOK'
  <2>1. budget' \in 0..MaxMessageBytes /\ Len(pipe') <= PipeDepth
    BY <1>0, <1>1, <1>2, <1>4, SMTT(30)
  <2>2. loop' \in {"reading", "writing", "ended"}
    BY <1>0
  <2> QED
    BY <2>1, <2>2, <1>0, <1>2, <1>3 DEF StreamInv, StreamTypeOK
<1>6. InMessage'
  BY <1>0 DEF StreamInv, InMessage
<1>7. Within'
  <2>1. budget' = MaxMessageBytes - Len(line')
    BY <1>0, <1>1, <1>3, <1>4
  <2>2. loop' = "reading" => budget' > 0
    BY <1>0, <1>4
  <2> QED
    BY <2>1, <2>2, <1>0, <1>4 DEF Within
<1>8. At' = At /\ At = Len(events) + 1
  BY <1>0 DEF At
\* The byte that is read is the next one of the message the loop is at.
<1>9. ASSUME reached
      PROVE  /\ At \in 1..L /\ byte = ByteOf(At, Len(line) + 1, lengths[At])
             /\ Len(line) + 1 <= lengths[At]
             /\ \A k \in 1..Len(line) : line[k] = ByteOf(At, k, lengths[At])
             /\ Laid(At, Len(line) + 1, lengths, L, written, pipe', N - 1)
  <2>1. Begun /\ Arranged
    BY <1>0, <1>9 DEF StreamInv
  <2>2. LastMessage \in Nat /\ LastByte \in Nat
    BY <1>1 DEF LastMessage, LastByte
  <2>3. Laid(LastMessage, LastByte, lengths, L, written, pipe, N)
    BY <2>1 DEF Arranged
  <2>a. L \in Nat /\ N \in Nat /\ N > 0 /\ written \in Nat
    BY <1>1, <1>2
  <2>b. \A j \in 1..(N - 1) : pipe'[j] = pipe[j + 1]
    BY <1>2
  <2> HIDE DEF L, N, byte
  <2> DEFINE m1 == NextMessage(LastMessage, LastByte, lengths)
             i1 == NextByte(LastMessage, LastByte, lengths)
  <2>4. m1 <= L /\ pipe[1] = ByteOf(m1, i1, lengths[m1]) /\ Laid(m1, i1, lengths, L, written, pipe', N - 1)
    <3> DEFINE R == N - 1
    <3>1. R \in Nat /\ R = N - 1 /\ \A j \in 1..R : pipe'[j] = pipe[j + 1]
      BY <2>a, <2>b
    <3> HIDE DEF R
    <3>2. ReadOn(m1, i1, lengths, L, written, pipe[1], pipe', R)
      BY <2>2, <2>3, <2>a, <3>1, HeadLaid
    <3> QED
      BY <3>2 DEF R, ReadOn
  <2>5. m1 = At /\ i1 = Len(line) + 1
    <3>1. CASE line = <<>>
      <4>1. LastMessage = Len(events) /\ Len(line) = 0
        BY <3>1 DEF LastMessage
      <4>2. LastMessage = 0 \/ LastByte = lengths[LastMessage]
        BY <3>1, <4>1, <1>1 DEF LastByte
      <4> QED
        BY <4>1, <4>2, <1>1, <1>8 DEF NextMessage, NextByte
    <3>2. CASE line # <<>>
      <4>1. LastMessage = At /\ LastByte = Len(line) /\ At # 0
        BY <3>2, <1>1 DEF LastMessage, LastByte
      <4>2. At <= L /\ Len(line) < lengths[At]
        BY <3>2, <2>1, <1>0, <1>1 DEF Begun, L
      <4>3. lengths[At] \in Nat /\ Len(line) # lengths[At]
        BY <4>2, <1>1
      <4> QED
        BY <4>1, <4>3 DEF NextMessage, NextByte
    <3> QED
      BY <3>1, <3>2
  <2>6. At <= L
    BY <2>4, <2>5
  <2>7. Len(line) < lengths[At] /\ \A k \in 1..Len(line) : line[k] = ByteOf(At, k, lengths[At])
    BY <2>1, <2>6, <1>0 DEF Begun, L
  <2>8. lengths[At] \in Nat /\ At \in 1..L
    BY <2>6, <1>1
  <2>9. Len(line) + 1 <= lengths[At]
    BY <2>7, <2>8, <1>1
  <2> QED
    BY <2>4, <2>5, <2>7, <2>8, <2>9, <1>2
<1>10. ASSUME reached, loop' # "ended" PROVE Begun' /\ Arranged'
  <2>0. reached
    BY <1>10
  <2> DEFINE size == lengths[At]
  <2>1. /\ At \in 1..L /\ byte = ByteOf(At, Len(line) + 1, size)
        /\ Len(line) + 1 <= size /\ size \in Nat
        /\ \A k \in 1..Len(line) : line[k] = ByteOf(At, k, size)
        /\ Laid(At, Len(line) + 1, lengths, L, written, pipe', N - 1)
    BY <2>0, <1>9, <1>1
  <2>2. byte.newline = (Len(line) + 1 = size)
    BY <2>1 DEF ByteOf
  <2> HIDE DEF size
  <2>3. \A k \in 1..Len(line') : line'[k] = ByteOf(At, k, size)
    <3> SUFFICES ASSUME NEW k \in 1..Len(line') PROVE line'[k] = ByteOf(At, k, size)
      OBVIOUS
    <3>1. CASE k \in 1..Len(line)
      BY <3>1, <2>1, <1>3
    <3>2. CASE k = Len(line) + 1
      BY <3>2, <2>1, <1>3
    <3> QED
      BY <3>1, <3>2, <1>1, <1>3
  <2>4. IF loop' = "writing" THEN Len(line') = size ELSE Len(line') < size
    <3>1. loop' = "writing" <=> Len(line) + 1 = size
      BY <2>2, <1>0, <1>10
    <3> QED
      BY <3>1, <2>1, <1>1, <1>3
  <2>5. Begun'
    <3>1. lengths'[At'] = size /\ ~(At' > Len(lengths'))
      BY <2>1, <1>0, <1>1, <1>8 DEF size
    <3> QED
      BY <3>1, <2>3, <2>4, <1>8 DEF Begun
  <2>6. Arranged'
    <3>1. line' # <<>>
      BY <1>1, <1>3
    <3>2. LastMessage' = At /\ LastByte' = Len(line) + 1
      BY <3>1, <1>3, <1>8 DEF LastMessage, LastByte
    <3> QED
      BY <3>2, <2>1, <1>0, <1>2 DEF Arranged
  <2> QED
    BY <2>5, <2>6
<1>11. EventsAreTheMessages'
  <2>1. WholeInOrder' /\ NothingOversized'
    BY <1>0 DEF StreamInv, EventsAreTheMessages, WholeInOrder, NothingOversized, Whole
  <2>2. ASSUME loop' = "ended", reached, fed PROVE lengths'[Len(events') + 1] > MaxMessageBytes
    <3>1. budget' = 0 /\ ~byte.newline
      BY <2>2, <1>0
    <3>2. Len(line) + 1 = MaxMessageBytes
      BY <3>1, <1>0, <1>1, <1>4
    <3>3. byte = ByteOf(At, Len(line) + 1, lengths[At]) /\ Len(line) + 1 <= lengths[At] /\ At \in 1..L
      BY <2>2, <1>9
    <3>4. Len(line) + 1 # lengths[At]
      <4>1. byte.newline = (Len(line) + 1 = lengths[At])
        BY <3>3 DEF ByteOf
      <4> QED
        BY <4>1, <3>1
    <3>5. lengths[At] > MaxMessageBytes
      BY <3>2, <3>3, <3>4, <1>1
    <3> QED
      BY <3>5, <1>0, <1>8
  <2>3. EndsForCause'
    BY <2>2, <1>0 DEF EndsForCause
  <2> QED
    BY <2>1, <2>3 DEF EventsAreTheMessages
<1>12. (reached /\ loop # "ended" => Begun /\ Arranged)'
  BY <1>0, <1>10
<1> QED
  BY <1>5, <1>6, <1>7, <1>11, <1>12 DEF StreamInv

LEMMA WriteEventInv == ASSUME StreamInv, WriteEvent PROVE StreamInv'
<1> USE StreamAssumption
<1> DEFINE L == Len(lengths)
<1>0. /\ UNCHANGED <<lengths, written, pipe, fed, reached>> /\ loop = "writing" /\ loop' = "reading"
      /\ line' = <<>> /\ budget' = MaxMessageBytes
      /\ events' = IF reached THEN Append(events, line) ELSE events
  BY DEF WriteEvent, NextPass, Remaining
<1>1. /\ lengths \in Seq(1..MaxLength) /\ L \in Nat
      /\ \A m \in 1..L : lengths[m] \in Nat /\ lengths[m] >= 1
      /\ events \in Seq(Seq(Byte)) /\ Len(events) \in Nat
      /\ At \in Nat /\ At >= 1 /\ At <= L + 1 /\ line \in Seq(Byte) /\ Len(line) \in Nat
  BY StreamFacts
<1>2. Len(events) <= L /\ budget \in Nat /\ budget = MaxMessageBytes - Len(line)
  BY DEF StreamInv, StreamTypeOK, Within
<1>3. At = Len(events) + 1
  BY DEF At
<1>4. InMessage'
  BY <1>0 DEF StreamInv, InMessage
<1>5. CASE ~reached
  <2>1. events' = events
    BY <1>0, <1>5
  <2>2. StreamTypeOK'
    BY <2>1, <1>0 DEF StreamInv, StreamTypeOK
  <2>3. Within'
    BY <2>1, <1>0, <1>2 DEF Within
  <2>4. EventsAreTheMessages'
    BY <2>1, <1>0 DEF StreamInv, EventsAreTheMessages, WholeInOrder, NothingOversized, EndsForCause, Whole
  <2> QED
    BY <2>2, <2>3, <2>4, <1>0, <1>4, <1>5 DEF StreamInv
<1>6. CASE reached
  <2>1. Begun /\ Arranged
    BY <1>0, <1>6 DEF StreamInv
  <2>2. At <= L /\ Len(line) = lengths[At] /\ \A k \in 1..Len(line) : line[k] = ByteOf(At, k, lengths[At])
    BY <2>1, <1>0, <1>1 DEF Begun
  <2>3. /\ events' = Append(events, line) /\ Len(events') = At /\ events'[At] = line
        /\ events' \in Seq(Seq(Byte)) /\ \A e \in 1..Len(events) : events'[e] = events[e]
    BY <1>0, <1>1, <1>3, <1>6
  <2>4. StreamTypeOK'
    BY <2>3, <1>0 DEF StreamInv, StreamTypeOK
  <2>5. Within'
    BY <2>2, <2>3, <1>0, <1>1 DEF Within
  <2>6. line = Whole(At)
    <3>1. line = [k \in 1..Len(line) |-> line[k]]
      BY <1>1
    <3> QED
      BY <3>1, <2>2 DEF Whole
  <2>7. WholeInOrder'
    <3>0. ASSUME NEW e \in 1..Len(events) PROVE events[e] = Whole(e)
      BY DEF StreamInv, EventsAreTheMessages, WholeInOrder
    <3>1. ASSUME NEW e \in 1..Len(events') PROVE events'[e] = Whole(e)'
      <4>1. Whole(e)' = Whole(e)
        BY <1>0 DEF Whole
      <4>2. CASE e \in 1..Len(events)
        BY <4>1, <4>2, <3>0, <2>3
      <4>3. CASE e = At
        BY <4>1, <4>3, <2>3, <2>6
      <4> QED
        BY <4>2, <4>3, <2>3, <1>1, <1>3
    <3> QED
      BY <3>1 DEF WholeInOrder
  <2>8. NothingOversized'
    <3>0. \A e \in 1..Len(events) : Len(events[e]) <= MaxMessageBytes
      BY DEF StreamInv, EventsAreTheMessages, NothingOversized
    <3>1. ASSUME NEW e \in 1..Len(events') PROVE Len(events'[e]) <= MaxMessageBytes
      <4>1. CASE e \in 1..Len(events)
        BY <4>1, <3>0, <2>3
      <4>2. CASE e = At
        BY <4>2, <2>3, <1>1, <1>2
      <4> QED
        BY <4>1, <4>2, <2>3, <1>1, <1>3
    <3> QED
      BY <3>1 DEF NothingOversized
  <2>9. EndsForCause'
    BY <1>0 DEF EndsForCause
  <2>10. Begun'
    <3>1. At' = At + 1 /\ line' = <<>> /\ loop' # "writing" /\ lengths' = lengths
      BY <2>3, <1>0 DEF At
    <3>2. At + 1 <= L => lengths[At + 1] \in Nat /\ lengths[At + 1] >= 1
      BY <1>1
    <3> QED
      BY <3>1, <3>2, <1>1 DEF Begun
  <2>11. Arranged'
    <3>1. LastMessage' = At /\ events' # <<>>
      <4>1. line' = <<>> /\ Len(events') = At /\ At >= 1
        BY <2>3, <1>0, <1>1
      <4>2. LastMessage' = Len(events')
        BY <4>1 DEF LastMessage
      <4>3. events' # <<>>
        <5>1. Len(events') # 0
          BY <4>1, <1>1
        <5> QED
          BY <5>1
      <4> QED
        BY <4>1, <4>2, <4>3
    <3>2. LastByte' = lengths[At]
      BY <3>1, <2>3, <1>0 DEF LastByte
    <3>3. line # <<>>
      BY <2>2, <1>1
    <3>4. LastMessage = At /\ LastByte = lengths[At]
      BY <3>3, <2>2 DEF LastMessage, LastByte
    <3> QED
      BY <3>1, <3>2, <3>4, <2>1, <1>0 DEF Arranged
  <2> QED
    BY <2>4, <2>5, <2>7, <2>8, <2>9, <2>10, <2>11, <1>4 DEF StreamInv, EventsAreTheMessages
<1> QED
  BY <1>5, <1>6

\* The steps that read nothing and write no event.
LEMMA OtherStreamInv ==
    ASSUME StreamInv,
           DaemonCloses \/ BrowserGoes \/ ReadNothing \/ Keepalive \/ WriteFails \/ UNCHANGED streamVars
    PROVE  StreamInv'
<1> USE StreamAssumption
<1>0. UNCHANGED <<lengths, written, pipe, line, events>>
  BY DEF DaemonCloses, BrowserGoes, ReadNothing, Keepalive, WriteFails, NextPass, streamVars
<1>1. budget' = budget
  <2>1. CASE Keepalive
    BY <2>1 DEF Keepalive, NextPass, Remaining, StreamInv, Within
  <2> QED
    BY <2>1 DEF DaemonCloses, BrowserGoes, ReadNothing, WriteFails, streamVars
<1>2. loop' \in {loop, "ended"} /\ (reached' => reached) /\ reached' \in BOOLEAN
      /\ (fed' => fed) /\ fed' \in BOOLEAN
  <2>1. reached \in BOOLEAN /\ fed \in BOOLEAN
    BY DEF StreamInv, StreamTypeOK
  <2>2. CASE DaemonCloses
    BY <2>1, <2>2 DEF DaemonCloses
  <2>3. CASE BrowserGoes
    BY <2>1, <2>3 DEF BrowserGoes
  <2>4. CASE ReadNothing \/ Keepalive \/ WriteFails \/ UNCHANGED streamVars
    <3>1. UNCHANGED <<reached, fed>> /\ loop' \in {loop, "ended"}
      BY <2>4 DEF ReadNothing, Keepalive, WriteFails, streamVars
    <3> QED
      BY <3>1, <2>1
  <2> QED
    BY <2>2, <2>3, <2>4
<1>3. loop' = loop \/ loop' = "ended"
  BY <1>2
<1>4. StreamTypeOK' /\ InMessage'
  BY <1>0, <1>1, <1>2, <1>3 DEF StreamInv, StreamTypeOK, InMessage
<1>5. Within'
  BY <1>0, <1>1, <1>3 DEF StreamInv, Within
<1>6. WholeInOrder' /\ NothingOversized'
  BY <1>0 DEF StreamInv, EventsAreTheMessages, WholeInOrder, NothingOversized, Whole
<1>7. EndsForCause'
  <2>1. CASE loop' = "ended" /\ reached' /\ fed'
    <3>1. loop = "ended"
      <4>1. reached /\ fed
        BY <2>1, <1>2
      <4>2. loop = "reading" => budget > 0 /\ budget \in Nat
        BY DEF StreamInv, Within, StreamTypeOK
      <4>3. ~ReadNothing
        <5>1. SUFFICES ASSUME ReadNothing PROVE FALSE
          OBVIOUS
        <5>2. loop = "reading" /\ (~fed \/ budget = 0)
          BY <5>1 DEF ReadNothing
        <5>3. budget # 0
          BY <5>2, <4>2
        <5> QED
          BY <5>2, <5>3, <4>1
      <4>4. ~WriteFails
        BY <4>1 DEF WriteFails
      <4> QED
        BY <4>3, <4>4, <2>1 DEF DaemonCloses, BrowserGoes, Keepalive, streamVars
    <3> QED
      BY <3>1, <2>1, <1>0, <1>2 DEF StreamInv, EventsAreTheMessages, EndsForCause
  <2> QED
    BY <2>1 DEF EndsForCause
<1>8. ASSUME reached', loop' # "ended" PROVE Begun' /\ Arranged'
  <2>1. reached /\ loop' = loop /\ loop # "ended"
    BY <1>2, <1>3, <1>8
  <2>2. Begun /\ Arranged
    BY <2>1 DEF StreamInv
  <2>3. Begun'
    BY <2>1, <2>2, <1>0 DEF Begun, At
  <2>4. Arranged'
    BY <2>2, <1>0 DEF Arranged, LastMessage, LastByte, At
  <2> QED
    BY <2>3, <2>4
<1> QED
  BY <1>4, <1>5, <1>6, <1>7, <1>8 DEF StreamInv, EventsAreTheMessages

\* The events of a stream are the daemon's messages, whole and in order, however the keepalive
\* cut the reads, and only a message over the limit ends it while both sides stay (stream_events).
THEOREM EventsAlwaysTheMessages == StreamSpec => []EventsAreTheMessages
<1>1. StreamInv /\ [StreamNext]_streamVars => StreamInv'
  BY DaemonWritesInv, ReadByteInv, WriteEventInv, OtherStreamInv DEF StreamNext, StreamEvents
<1>2. StreamInv => EventsAreTheMessages
  BY DEF StreamInv
<1> QED
  BY <1>1, <1>2, StreamInitInv, PTL DEF StreamSpec

-----------------------------------------------------------------------------
(* The commands of a session *)

\* A command goes to a stream the page connected, and a command waited for was accepted before
\* it was sent.
Live(i) == i \in Stream /\ phase[i] # "none"
PostsAre ==
    /\ open = NoStream \/ Live(open)
    /\ \A p \in Post:
        /\ post[p].phase \in {"sending", "accepted"} => Live(post[p].to)
        /\ \A q \in post[p].after: post[q].phase = "accepted" /\ q # p

\* What is on a stream's line was accepted for it, each command once.
LineIs ==
    \A i \in Stream:
        /\ \A n \in 1..Len(Line(i)): post[Line(i)[n]].phase = "accepted" /\ post[Line(i)[n]].to = i
        /\ \A m, n \in 1..Len(Line(i)): Line(i)[m] = Line(i)[n] => m = n

\* An accepted command is on the line of a stream that lives.
OnItsLine ==
    \A p \in Post: LET i == post[p].to IN
        post[p].phase = "accepted" /\ phase[i] # "ended" /\ attached[i] =>
            \E n \in 1..Len(Line(i)): Line(i)[n] = p

SessionInv == SessionTypeOK /\ PostsAre /\ LineIs /\ OnItsLine /\ AwaitedInOrder

LEMMA CommandsFromInv == SessionInv => CommandsAreCarried
<1> SUFFICES ASSUME SessionInv PROVE AcceptedIsCarried
  BY DEF SessionInv, CommandsAreCarried
<1> SUFFICES ASSUME NEW p \in Post,
                    post[p].phase = "accepted", phase[post[p].to] # "ended", attached[post[p].to]
             PROVE  \E n \in 1..Len(Line(post[p].to)): \A m \in 1..Len(Line(post[p].to)):
                       Line(post[p].to)[m] = p <=> m = n
  BY DEF AcceptedIsCarried
<1> DEFINE i == post[p].to
<1>1. PICK n \in 1..Len(Line(i)): Line(i)[n] = p
  BY DEF SessionInv, OnItsLine
<1>2. i \in Stream
  BY DEF SessionInv, PostsAre, Live
<1>3. \A m \in 1..Len(Line(i)): Line(i)[m] = Line(i)[n] => m = n
  BY <1>2 DEF SessionInv, LineIs
<1> QED
  BY <1>1, <1>3

LEMMA SessionInitInv == SessionInit => SessionInv
<1> SUFFICES ASSUME SessionInit PROVE SessionInv
  OBVIOUS
<1> USE SessionAssumption
<1>1. \A i \in Stream: Line(i) = <<>>
  BY DEF SessionInit, Line
<1>2. SessionTypeOK
  <2>1. <<>> \in Seq(Post) /\ Len(<<>>) <= CommandDepth
    OBVIOUS
  <2>2. queue \in [Stream -> Seq(Post)] /\ carried \in [Stream -> Seq(Post)]
        /\ \A i \in Stream: Len(queue[i]) <= CommandDepth
    BY <2>1 DEF SessionInit
  <2>3. there \in [Stream -> BOOLEAN] /\ attached \in [Stream -> BOOLEAN] /\ writing \in [Stream -> BOOLEAN]
        /\ phase \in [Stream -> {"none", "arrived", "registered", "streaming", "returned", "ended"}]
    BY DEF SessionInit
  <2>4. post \in [Post -> [phase : {"unsent", "sent", "sending"} \cup Answers,
                          to : Stream \cup {NoStream}, after : SUBSET Post]]
    BY DEF SessionInit, Unsent
  <2> QED
    BY <2>2, <2>3, <2>4 DEF SessionInit, SessionTypeOK
<1>3. PostsAre /\ OnItsLine
  BY DEF SessionInit, PostsAre, OnItsLine, Unsent
<1>4. LineIs /\ AwaitedInOrder
  BY <1>1 DEF LineIs, AwaitedInOrder
<1> QED
  BY <1>2, <1>3, <1>4 DEF SessionInv

\* A queue behind a line: the line is its beginning, and taking from the one to the other keeps it.
LEMMA Prefix ==
    ASSUME NEW S, NEW c \in Seq(S), NEW q \in Seq(S)
    PROVE  /\ Len(c) <= Len(c \o q)
           /\ \A n \in 1..Len(c): c[n] = (c \o q)[n]
<1>1. /\ Len(c \o q) = Len(c) + Len(q) /\ Len(c) \in Nat /\ Len(q) \in Nat
      /\ \A i \in 1 .. Len(c) + Len(q) : (c \o q)[i] = IF i <= Len(c) THEN c[i] ELSE q[i - Len(c)]
  BY ConcatProperties, LenProperties
<1> DEFINE a == Len(c)
           b == Len(q)
           s == c \o q
<1> HIDE DEF a, b, s
<1>2. /\ Len(s) = a + b /\ a \in Nat /\ b \in Nat
      /\ \A i \in 1 .. a + b : s[i] = IF i <= a THEN c[i] ELSE q[i - a]
  BY <1>1 DEF a, b, s
<1>3. ASSUME NEW n \in 1..a PROVE c[n] = s[n]
  <2>1. n \in 1..(a + b) /\ n <= a
    BY <1>2
  <2> QED
    BY <2>1, <1>2
<1>4. a <= a + b
  BY <1>2
<1> QED
  BY <1>2, <1>3, <1>4 DEF a, s

LEMMA TakenOn ==
    ASSUME NEW S, NEW c \in Seq(S), NEW q \in Seq(S), q # <<>>
    PROVE  Append(c, Head(q)) \o Tail(q) = c \o q
<1> DEFINE h == <<Head(q)>>
           t == Tail(q)
<1>1. Head(q) \in S /\ t \in Seq(S) /\ h \in Seq(S)
  BY HeadTailProperties
<1>2. h \o t = q
  <2> DEFINE L == Len(q)
             s == h \o t
  <2>1. L \in Nat /\ L >= 1 /\ Len(t) = L - 1 /\ Len(h) = 1 /\ h[1] = q[1]
        /\ \A i \in 1..(L - 1) : t[i] = q[i + 1]
    BY HeadTailProperties
  <2> HIDE DEF h, t
  <2>2. /\ s \in Seq(S) /\ Len(s) = Len(h) + Len(t)
        /\ \A i \in 1 .. Len(h) + Len(t) : s[i] = IF i <= Len(h) THEN h[i] ELSE t[i - Len(h)]
    BY <1>1, ConcatProperties
  <2> HIDE DEF L, s
  <2>3. Len(s) = L /\ \A i \in 1..L : s[i] = IF i <= 1 THEN h[i] ELSE t[i - 1]
    <3>1. Len(h) + Len(t) = L
      BY <2>1
    <3> QED
      BY <3>1, <2>1, <2>2
  <2>4. ASSUME NEW i \in 1..L PROVE s[i] = q[i]
    <3>1. CASE i = 1
      BY <3>1, <2>1, <2>3
    <3>2. CASE i > 1
      <4>1. i - 1 \in 1..(L - 1) /\ (i - 1) + 1 = i /\ ~(i <= 1)
        BY <3>2, <2>1
      <4> QED
        BY <4>1, <2>1, <2>3
    <3> QED
      BY <3>1, <3>2, <2>1
  <2> QED
    BY <2>2, <2>3, <2>4, SeqEqual DEF L, s
<1>3. Append(c, Head(q)) = c \o h
  BY <1>1, AppendIsConcat
<1> HIDE DEF h, t
<1>4. (c \o h) \o t = c \o (h \o t)
  BY <1>1, ConcatAssociative, SMTT(30)
<1>5. Append(c, Head(q)) \o t = c \o q
  BY <1>2, <1>3, <1>4
<1> QED
  BY <1>5, Zenon DEF t

LEMMA Behind ==
    ASSUME NEW S, NEW c \in Seq(S), NEW q \in Seq(S), NEW x \in S
    PROVE  c \o Append(q, x) = Append(c \o q, x)
<1> DEFINE h == <<x>>
<1>1. h \in Seq(S) /\ Append(q, x) = q \o h
  BY AppendIsConcat
<1>2. c \o q \in Seq(S)
  BY ConcatProperties
<1>3. Append(c \o q, x) = (c \o q) \o h
  BY <1>2, AppendIsConcat
<1> HIDE DEF h
<1>4. (c \o q) \o h = c \o (q \o h)
  BY <1>1, ConcatAssociative, SMTT(30)
<1> QED
  BY <1>1, <1>3, <1>4

\* A line is a sequence of commands; its length and its members are those of its two parts.
LEMMA LineFacts ==
    ASSUME SessionTypeOK, NEW i \in Stream
    PROVE  /\ carried[i] \in Seq(Post) /\ queue[i] \in Seq(Post) /\ Line(i) \in Seq(Post)
           /\ Len(carried[i]) \in Nat /\ Len(queue[i]) \in Nat
           /\ Len(Line(i)) = Len(carried[i]) + Len(queue[i])
           /\ \A n \in 1..Len(carried[i]) + Len(queue[i]):
                 Line(i)[n] = IF n <= Len(carried[i]) THEN carried[i][n] ELSE queue[i][n - Len(carried[i])]
           /\ \A n \in 1..Len(Line(i)): Line(i)[n] \in Post
<1>1. carried[i] \in Seq(Post) /\ queue[i] \in Seq(Post)
  BY DEF SessionTypeOK
<1>2. /\ Line(i) \in Seq(Post) /\ Len(Line(i)) = Len(carried[i]) + Len(queue[i])
      /\ \A n \in 1..Len(carried[i]) + Len(queue[i]):
            Line(i)[n] = IF n <= Len(carried[i]) THEN carried[i][n] ELSE queue[i][n - Len(carried[i])]
  BY <1>1, ConcatProperties DEF Line
<1>3. \A n \in 1..Len(Line(i)): Line(i)[n] \in Post
  BY <1>2, ElementOfSeq
<1>4. Len(carried[i]) \in Nat /\ Len(queue[i]) \in Nat
  BY <1>1
<1> QED
  BY <1>1, <1>2, <1>3, <1>4

\* A step that accepts nothing, and cuts the line of no stream that lives.
LEMMA LinesStay ==
    ASSUME SessionInv, SessionTypeOK', PostsAre',
           \A i \in Stream: /\ Len(Line(i)') <= Len(Line(i))
                            /\ \A n \in 1..Len(Line(i)'): Line(i)'[n] = Line(i)[n],
           \A i \in Stream: Live(i) /\ phase'[i] # "ended" /\ attached'[i] =>
                               phase[i] # "ended" /\ attached[i] /\ Line(i)' = Line(i),
           \A p \in Post: post'[p].phase = "accepted" <=> post[p].phase = "accepted",
           \A p \in Post: post[p].phase = "accepted" => post'[p] = post[p]
    PROVE  SessionInv'
<1>0. SessionTypeOK
  BY DEF SessionInv
<1>1. ASSUME NEW i \in Stream, NEW n \in 1..Len(Line(i)')
      PROVE  /\ n \in 1..Len(Line(i)) /\ Line(i)'[n] = Line(i)[n] /\ Line(i)[n] \in Post
             /\ post[Line(i)[n]].phase = "accepted" /\ post[Line(i)[n]].to = i
             /\ post'[Line(i)[n]] = post[Line(i)[n]]
  <2>1. Len(Line(i)) \in Nat /\ Len(Line(i)') \in Nat
    <3>1. Len(Line(i)) \in Nat
      BY <1>0, LineFacts
    <3>2. Line(i)' = carried'[i] \o queue'[i] /\ carried'[i] \in Seq(Post) /\ queue'[i] \in Seq(Post)
      BY DEF Line, SessionTypeOK
    <3>3. Line(i)' \in Seq(Post)
      BY <3>2, ConcatProperties
    <3> QED
      BY <3>1, <3>3
  <2>2. n \in 1..Len(Line(i)) /\ Line(i)'[n] = Line(i)[n]
    BY <2>1, <1>1
  <2>3. Line(i)[n] \in Post
    BY <2>2, <1>0, <1>1, LineFacts
  <2>4. post[Line(i)[n]].phase = "accepted" /\ post[Line(i)[n]].to = i
    BY <2>2, <1>1 DEF SessionInv, LineIs
  <2> QED
    BY <2>2, <2>3, <2>4
<1>3. LineIs'
  <2>1. ASSUME NEW i \in Stream, NEW n \in 1..Len(Line(i)')
        PROVE  post'[Line(i)'[n]].phase = "accepted" /\ post'[Line(i)'[n]].to = i
    <3>1. /\ Line(i)'[n] = Line(i)[n] /\ post'[Line(i)[n]] = post[Line(i)[n]]
          /\ post[Line(i)[n]].phase = "accepted" /\ post[Line(i)[n]].to = i
      BY <1>1
    <3> QED
      BY <3>1
  <2>2. ASSUME NEW i \in Stream, NEW m \in 1..Len(Line(i)'), NEW n \in 1..Len(Line(i)'), Line(i)'[m] = Line(i)'[n]
        PROVE  m = n
    <3>1. m \in 1..Len(Line(i)) /\ n \in 1..Len(Line(i)) /\ Line(i)[m] = Line(i)[n]
      BY <2>2, <1>1
    <3> QED
      BY <3>1 DEF SessionInv, LineIs
  <2> QED
    BY <2>1, <2>2 DEF LineIs
<1>4. AwaitedInOrder'
  <2>1. ASSUME NEW i \in Stream, NEW m \in 1..Len(Line(i)'), NEW n \in 1..Len(Line(i)'),
               Line(i)'[m] \in post'[Line(i)'[n]].after
        PROVE  m < n
    <3>1. Line(i)'[n] = Line(i)[n] /\ Line(i)'[m] = Line(i)[m] /\ m \in 1..Len(Line(i)) /\ n \in 1..Len(Line(i))
          /\ post'[Line(i)[n]] = post[Line(i)[n]]
      BY <1>1
    <3> QED
      BY <3>1, <2>1 DEF SessionInv, AwaitedInOrder
  <2> QED
    BY <2>1 DEF AwaitedInOrder
<1>5. OnItsLine'
  <2> SUFFICES ASSUME NEW p \in Post, post'[p].phase = "accepted",
                      phase'[post'[p].to] # "ended", attached'[post'[p].to]
               PROVE  \E n \in 1..Len(Line(post[p].to)'): Line(post[p].to)'[n] = p
    BY DEF OnItsLine
  <2>1. post[p].phase = "accepted" /\ post'[p] = post[p]
    OBVIOUS
  <2>2. PICK i \in Stream: i = post[p].to /\ Live(i)
    BY <2>1 DEF SessionInv, PostsAre, Live
  <2>3. phase[i] # "ended" /\ attached[i] /\ Line(i)' = Line(i) /\ post'[p].to = i
    BY <2>1, <2>2
  <2>4. \E n \in 1..Len(Line(i)): Line(i)[n] = p
    BY <2>1, <2>2, <2>3 DEF SessionInv, OnItsLine
  <2>5. Line(post[p].to)' = Line(i)'
    BY <2>3 DEF Line
  <2> QED
    BY <2>3, <2>4, <2>5
<1> QED
  BY <1>3, <1>4, <1>5 DEF SessionInv

\* A stream's steps leave the commands' requests alone.
LEMMA PostsStay ==
    ASSUME SessionInv, UNCHANGED post, open' \in {open, NoStream},
           \A i \in Stream: phase[i] # "none" => phase'[i] # "none"
    PROVE  PostsAre'
<1>1. \A i: Live(i) => Live(i)'
  BY DEF Live
<1>2. ASSUME NEW p \in Post, post'[p].phase \in {"sending", "accepted"} PROVE Live(post[p].to)'
  <2>1. Live(post[p].to)
    BY <1>2 DEF SessionInv, PostsAre
  <2> QED
    BY <2>1 DEF Live
<1>3. ASSUME NEW p \in Post, NEW q \in post'[p].after PROVE post'[q].phase = "accepted" /\ q # p
  BY <1>3 DEF SessionInv, PostsAre
<1>4. open' = NoStream \/ Live(open)'
  <2>1. open = NoStream \/ Live(open)
    BY DEF SessionInv, PostsAre
  <2> QED
    BY <2>1 DEF Live
<1> QED
  BY <1>2, <1>3, <1>4 DEF PostsAre

LEMMA PageInv ==
    ASSUME SessionInv, NEW j, Greeted \/ Disconnected \/ (j \in Stream /\ Connects(j)) \/ UNCHANGED sessionVars
    PROVE  SessionInv'
<1>1. SessionTypeOK
  BY DEF SessionInv
<1>2. UNCHANGED <<queue, carried, post, open>>
  BY DEF Greeted, Disconnected, Connects, sessionVars, streams
<1>3. SessionTypeOK'
  <2>1. CASE Greeted
    BY <2>1, <1>1 DEF SessionTypeOK, Greeted, streams
  <2>2. CASE Disconnected
    BY <2>2, <1>1 DEF SessionTypeOK, Disconnected, streams
  <2>3. CASE j \in Stream /\ Connects(j)
    BY <2>3, <1>1 DEF SessionTypeOK, Connects
  <2>4. CASE UNCHANGED sessionVars
    BY <2>4, <1>1 DEF SessionTypeOK, sessionVars
  <2> QED
    BY <2>1, <2>2, <2>3, <2>4
<1>4. \A i \in Stream: Line(i)' = Line(i)
  BY <1>2 DEF Line
<1>5. ASSUME NEW i \in Stream, phase[i] # "none"
      PROVE  phase'[i] = phase[i] /\ attached'[i] = attached[i]
  BY <1>1, <1>5 DEF Greeted, Disconnected, Connects, sessionVars, streams, SessionTypeOK
<1>6. PostsAre'
  BY <1>2, <1>5, PostsStay
<1>7. \A i \in Stream: Len(Line(i)) \in Nat
  BY <1>1, LineFacts
<1> QED
  BY <1>2, <1>3, <1>4, <1>5, <1>6, <1>7, LinesStay DEF Live

\* The steps of a stream that take nothing from its line.
LEMMA StreamStepInv ==
    ASSUME SessionInv, NEW j \in Stream,
           Registers(j) \/ WritesHead(j) \/ HeadFails(j) \/ DaemonDrops(j)
    PROVE  SessionInv'
<1>1. SessionTypeOK
  BY DEF SessionInv
<1>2. UNCHANGED <<queue, carried, post>>
  BY DEF Registers, WritesHead, HeadFails, DaemonDrops
<1>3. SessionTypeOK'
  <2>1. CASE Registers(j)
    BY <2>1, <1>1 DEF SessionTypeOK, Registers, page
  <2>2. CASE WritesHead(j)
    BY <2>2, <1>1 DEF SessionTypeOK, WritesHead, page
  <2>3. CASE HeadFails(j)
    BY <2>3, <1>1 DEF SessionTypeOK, HeadFails, page
  <2>4. CASE DaemonDrops(j)
    BY <2>4, <1>1 DEF SessionTypeOK, DaemonDrops, page
  <2> QED
    BY <2>1, <2>2, <2>3, <2>4
<1>4. \A i \in Stream: Line(i)' = Line(i)
  BY <1>2 DEF Line
<1>5. ASSUME NEW i \in Stream
      PROVE  /\ phase[i] # "none" => phase'[i] # "none"
             /\ phase'[i] # "ended" => phase[i] # "ended"
             /\ attached'[i] => attached[i]
  BY <1>1 DEF Registers, WritesHead, HeadFails, DaemonDrops, SessionTypeOK
<1>6. PostsAre'
  <2>1. CASE Registers(j)
    <3>1. Live(j)' /\ open' = j
      BY <2>1, <1>1 DEF Registers, SessionTypeOK, Live
    <3>2. ASSUME NEW p \in Post, post'[p].phase \in {"sending", "accepted"} PROVE Live(post[p].to)'
      <4>1. Live(post[p].to)
        BY <3>2, <1>2 DEF SessionInv, PostsAre
      <4> QED
        BY <4>1, <1>2, <1>5 DEF Live
    <3>3. ASSUME NEW p \in Post, NEW q \in post'[p].after PROVE post'[q].phase = "accepted" /\ q # p
      BY <3>3, <1>2 DEF SessionInv, PostsAre
    <3>4. Live(open)'
      BY <3>1 DEF Live
    <3> QED
      BY <3>2, <3>3, <3>4 DEF PostsAre
  <2>2. CASE ~Registers(j)
    <3>1. open' = open
      BY <2>2 DEF WritesHead, HeadFails, DaemonDrops
    <3> QED
      BY <3>1, <1>2, <1>5, PostsStay
  <2> QED
    BY <2>1, <2>2
<1>7. \A i \in Stream: Len(Line(i)) \in Nat
  BY <1>1, LineFacts
<1> QED
  BY <1>2, <1>3, <1>4, <1>5, <1>6, <1>7, LinesStay

\* A stream that ends, and a writer that does, lose what is queued.
LEMMA LoseInv ==
    ASSUME SessionInv, NEW j \in Stream, Ends(j) \/ WriterEnds(j)
    PROVE  SessionInv'
<1>1. SessionTypeOK
  BY DEF SessionInv
<1>2. UNCHANGED <<carried, post>> /\ queue' = [queue EXCEPT ![j] = <<>>] /\ open' \in {open, NoStream}
  BY DEF Ends, WriterEnds
<1>3. SessionTypeOK'
  <2>0. <<>> \in Seq(Post) /\ Len(<<>>) = 0 /\ CommandDepth \in Nat
    BY SessionAssumption
  <2>1. queue' \in [Stream -> Seq(Post)] /\ \A i \in Stream: Len(queue'[i]) <= CommandDepth
    BY <2>0, <1>1, <1>2 DEF SessionTypeOK
  <2>2. CASE Ends(j)
    BY <2>1, <2>2, <1>1 DEF SessionTypeOK, Ends, page
  <2>3. CASE WriterEnds(j)
    BY <2>1, <2>3, <1>1 DEF SessionTypeOK, WriterEnds, page
  <2> QED
    BY <2>2, <2>3
<1>4. ASSUME NEW i \in Stream, i # j PROVE Line(i)' = Line(i)
  BY <1>1, <1>2, <1>4 DEF Line, SessionTypeOK
<1>5. Line(j)' = carried[j]
  <2>1. queue'[j] = <<>> /\ carried[j] \in Seq(Post)
    BY <1>1, <1>2 DEF SessionTypeOK
  <2> QED
    BY <2>1, <1>2, ConcatEmptySeq DEF Line
<1>6. /\ Len(Line(j)') <= Len(Line(j))
      /\ \A n \in 1..Len(Line(j)'): Line(j)'[n] = Line(j)[n]
  <2>1. carried[j] \in Seq(Post) /\ queue[j] \in Seq(Post)
    BY <1>1, LineFacts
  <2>2. /\ Len(carried[j]) <= Len(Line(j))
        /\ \A n \in 1..Len(carried[j]): carried[j][n] = Line(j)[n]
    BY <2>1, Prefix DEF Line
  <2> QED
    BY <2>2, <1>5
<1>7. phase'[j] = "ended" \/ ~attached'[j] \/ Line(j)' = Line(j)
  <2>1. CASE Ends(j)
    BY <2>1, <1>1 DEF Ends, SessionTypeOK
  <2>2. CASE WriterEnds(j) /\ queue[j] # <<>>
    BY <2>2 DEF WriterEnds
  <2>3. CASE queue[j] = <<>>
    <3>1. carried[j] \in Seq(Post)
      BY <1>1 DEF SessionTypeOK
    <3>2. Line(j) = carried[j]
      BY <2>3, <3>1, ConcatEmptySeq DEF Line
    <3> QED
      BY <3>2, <1>5
  <2> QED
    BY <2>1, <2>2, <2>3
<1>8. ASSUME NEW i \in Stream
      PROVE  /\ phase[i] # "none" => phase'[i] # "none"
             /\ phase'[i] # "ended" => phase[i] # "ended"
             /\ attached'[i] = attached[i]
  BY <1>1 DEF Ends, WriterEnds, SessionTypeOK
<1>9. PostsAre'
  BY <1>2, <1>8, PostsStay
<1>10. \A i \in Stream: Len(Line(i)) \in Nat
  BY <1>1, LineFacts
<1>11. \A i \in Stream: /\ Len(Line(i)') <= Len(Line(i))
                        /\ \A n \in 1..Len(Line(i)'): Line(i)'[n] = Line(i)[n]
  BY <1>4, <1>6, <1>10
<1>12. \A i \in Stream: phase'[i] # "ended" /\ attached'[i] =>
                             phase[i] # "ended" /\ attached[i] /\ Line(i)' = Line(i)
  BY <1>4, <1>7, <1>8
<1> QED
  BY <1>2, <1>3, <1>9, <1>11, <1>12, LinesStay

\* The line a writer passes on stays where it is among the stream's commands.
LEMMA WritesLineInv ==
    ASSUME SessionInv, NEW j \in Stream, WritesLine(j)
    PROVE  SessionInv'
<1> DEFINE c == carried[j]
           q == queue[j]
<1>1. SessionTypeOK
  BY DEF SessionInv
<1>2. /\ UNCHANGED <<page, streams, post>> /\ q # <<>>
      /\ queue' = [queue EXCEPT ![j] = Tail(q)] /\ carried' = [carried EXCEPT ![j] = Append(c, Head(q))]
  BY DEF WritesLine
<1>3. UNCHANGED <<phase, attached, open, writing, current, greeted, there>>
  BY <1>2 DEF page, streams
<1>4. c \in Seq(Post) /\ q \in Seq(Post) /\ Len(q) <= CommandDepth
  BY <1>1 DEF SessionTypeOK
<1>5. Tail(q) \in Seq(Post) /\ Head(q) \in Post /\ Append(c, Head(q)) \in Seq(Post) /\ Len(Tail(q)) <= CommandDepth
  BY <1>2, <1>4, SessionAssumption
<1>6. SessionTypeOK'
  <2>1. queue' \in [Stream -> Seq(Post)] /\ carried' \in [Stream -> Seq(Post)]
        /\ \A i \in Stream: Len(queue'[i]) <= CommandDepth
    BY <1>1, <1>2, <1>5 DEF SessionTypeOK
  <2> QED
    BY <2>1, <1>1, <1>2, <1>3 DEF SessionTypeOK
<1>7. Append(c, Head(q)) \o Tail(q) = c \o q
  BY <1>2, <1>4, TakenOn
<1>8. \A i \in Stream: Line(i)' = Line(i)
  <2>1. ASSUME NEW i \in Stream PROVE Line(i)' = Line(i)
    <3>1. CASE i = j
      BY <3>1, <1>1, <1>2, <1>7 DEF Line, SessionTypeOK
    <3>2. CASE i # j
      BY <3>2, <1>1, <1>2 DEF Line, SessionTypeOK
    <3> QED
      BY <3>1, <3>2
  <2> QED
    BY <2>1
<1>9. PostsAre'
  BY <1>2, <1>3, PostsStay
<1>10. \A i \in Stream: Len(Line(i)) \in Nat
  BY <1>1, LineFacts
<1> QED
  BY <1>2, <1>3, <1>6, <1>8, <1>9, <1>10, LinesStay

\* A request's steps that forward nothing.
LEMMA RequestInv ==
    ASSUME SessionInv, NEW p \in Post, Sends(p) \/ LooksUp(p) \/ NotForwarded(p)
    PROVE  SessionInv'
<1>1. SessionTypeOK
  BY DEF SessionInv
<1>2. UNCHANGED <<phase, attached, open, writing, current, greeted, there, queue, carried>>
  BY DEF Sends, LooksUp, NotForwarded, page, streams
<1>3. post \in [Post -> [phase : {"unsent", "sent", "sending"} \cup Answers,
                        to : Stream \cup {NoStream}, after : SUBSET Post]]
      /\ open \in Stream \cup {NoStream}
  BY <1>1 DEF SessionTypeOK
<1>4. /\ post' \in [Post -> [phase : {"unsent", "sent", "sending"} \cup Answers,
                            to : Stream \cup {NoStream}, after : SUBSET Post]]
      /\ \A q \in Post: q # p => post'[q] = post[q]
      /\ post[p].phase # "accepted" /\ post'[p].phase # "accepted"
      /\ \A q \in post'[p].after: post[q].phase = "accepted"
      /\ post'[p].phase = "sending" => Live(post'[p].to)
  <2>1. CASE Sends(p)
    <3>1. post[p].phase = "unsent"
      BY <2>1 DEF Sends, Unsent
    <3> DEFINE new == [phase |-> "sent", to |-> NoStream, after |-> {q \in Post: post[q].phase = "accepted"}]
    <3>2. new \in [phase : {"unsent", "sent", "sending"} \cup Answers,
                   to : Stream \cup {NoStream}, after : SUBSET Post]
      OBVIOUS
    <3>3. new.phase = "sent" /\ \A q \in new.after: post[q].phase = "accepted"
      OBVIOUS
    <3>4. post' = [post EXCEPT ![p] = new]
      BY <2>1 DEF Sends
    <3> HIDE DEF new
    <3> QED
      BY <3>1, <3>2, <3>3, <3>4, <1>3
  <2>2. CASE LooksUp(p)
    <3>0. post[p].phase = "sent"
      BY <2>2 DEF LooksUp
    <3>1. open # NoStream => Live(open)
      BY DEF SessionInv, PostsAre
    <3> DEFINE Record == [phase : {"unsent", "sent", "sending"} \cup Answers,
                          to : Stream \cup {NoStream}, after : SUBSET Post]
               old == post[p]
               mid == [old EXCEPT !.phase = IF open = NoStream THEN "no stream" ELSE "sending"]
               new == [mid EXCEPT !.to = open]
    <3>2. post' = [post EXCEPT ![p] = new]
      BY <2>2, <1>3 DEF LooksUp
    <3>3. /\ mid \in Record /\ mid.after = old.after
          /\ mid.phase = (IF open = NoStream THEN "no stream" ELSE "sending")
      <4>1. old \in Record
        BY <1>3
      <4> HIDE DEF old
      <4> QED
        BY <4>1 DEF Answers
    <3> HIDE DEF mid
    <3>5. new \in Record /\ new.phase = mid.phase /\ new.to = open /\ new.after = mid.after
      BY <3>3, <1>3
    <3> HIDE DEF new
    <3>4. \A q \in post[p].after: post[q].phase = "accepted"
      BY DEF SessionInv, PostsAre
    <3> QED
      BY <3>0, <3>1, <3>2, <3>3, <3>4, <3>5, <1>3
  <2>3. CASE NotForwarded(p)
    <3>0. post[p].phase = "sending"
      BY <2>3 DEF NotForwarded
    <3>1. PICK answer \in {"closed", "busy"}: post' = [post EXCEPT ![p].phase = answer]
      BY <2>3 DEF NotForwarded, Answered
    <3> DEFINE new == [post[p] EXCEPT !.phase = answer]
    <3>2. post' = [post EXCEPT ![p] = new]
      BY <3>1, <1>3
    <3>3. /\ new \in [phase : {"unsent", "sent", "sending"} \cup Answers,
                      to : Stream \cup {NoStream}, after : SUBSET Post]
          /\ new.phase = answer /\ new.after = post[p].after
      <4>1. PICK r \in [phase : {"unsent", "sent", "sending"} \cup Answers,
                        to : Stream \cup {NoStream}, after : SUBSET Post]: r = post[p]
        BY <1>3
      <4>2. answer \in Answers
        BY DEF Answers
      <4>3. /\ [r EXCEPT !.phase = answer]
                   \in [phase : {"unsent", "sent", "sending"} \cup Answers,
                        to : Stream \cup {NoStream}, after : SUBSET Post]
            /\ [r EXCEPT !.phase = answer].phase = answer /\ [r EXCEPT !.phase = answer].after = r.after
        BY <4>2
      <4> QED
        BY <4>1, <4>3
    <3> HIDE DEF new
    <3>4. \A q \in post[p].after: post[q].phase = "accepted"
      BY DEF SessionInv, PostsAre
    <3> QED
      BY <3>0, <3>2, <3>3, <3>4, <1>3
  <2> QED
    BY <2>1, <2>2, <2>3
<1>5. SessionTypeOK'
  BY <1>1, <1>2, <1>4 DEF SessionTypeOK
<1>6. \A i \in Stream: Line(i)' = Line(i)
  BY <1>2 DEF Line
<1>7. \A q \in Post: (post'[q].phase = "accepted" <=> post[q].phase = "accepted")
                    /\ (post[q].phase = "accepted" => post'[q] = post[q])
  BY <1>4
<1>8. PostsAre'
  <2>0. \A i: Live(i)' <=> Live(i)
    BY <1>2 DEF Live
  <2>1. ASSUME NEW q \in Post, post'[q].phase \in {"sending", "accepted"} PROVE Live(post[q].to)'
    <3>1. CASE q = p
      BY <3>1, <2>1, <1>2, <1>4 DEF Live
    <3>2. CASE q # p
      <4>1. Live(post[q].to) /\ post'[q] = post[q]
        BY <3>2, <2>1, <1>4 DEF SessionInv, PostsAre
      <4> QED
        BY <4>1, <1>2 DEF Live
    <3> QED
      BY <3>1, <3>2
  <2>2. ASSUME NEW q \in Post, NEW r \in post'[q].after PROVE post'[r].phase = "accepted" /\ r # q
    <3>1. post[r].phase = "accepted" /\ r \in Post
      <4>1. CASE q = p
        BY <4>1, <2>2, <1>4
      <4>2. CASE q # p
        BY <4>2, <2>2, <1>3, <1>4 DEF SessionInv, PostsAre
      <4> QED
        BY <4>1, <4>2
    <3>2. post'[r].phase = "accepted"
      BY <3>1, <1>7
    <3>3. r # q
      <4>1. CASE q = p
        BY <4>1, <3>1, <1>4
      <4>2. CASE q # p
        BY <4>2, <2>2, <1>4 DEF SessionInv, PostsAre
      <4> QED
        BY <4>1, <4>2
    <3> QED
      BY <3>2, <3>3
  <2>3. open' = NoStream \/ Live(open)'
    BY <1>2 DEF SessionInv, PostsAre, Live
  <2> QED
    BY <2>1, <2>2, <2>3 DEF PostsAre
<1>9. \A i \in Stream: Len(Line(i)) \in Nat
  BY <1>1, LineFacts
<1> QED
  BY <1>2, <1>5, <1>6, <1>7, <1>8, <1>9, LinesStay

\* A command that is forwarded joins the end of its stream's line, behind all it waited for.
LEMMA ForwardsInv ==
    ASSUME SessionInv, NEW p \in Post, Forwards(p)
    PROVE  SessionInv'
<1> DEFINE Record == [phase : {"unsent", "sent", "sending"} \cup Answers,
                to : Stream \cup {NoStream}, after : SUBSET Post]
<1>1. SessionTypeOK
  BY DEF SessionInv
<1>0. post[p].phase = "sending"
  BY DEF Forwards
<1>3. PICK j \in Stream: j = post[p].to /\ Live(j)
  BY <1>0 DEF SessionInv, PostsAre, Live
<1>2. /\ UNCHANGED <<phase, attached, open, writing, current, greeted, there, carried>>
      /\ post[p].phase = "sending" /\ Len(queue[j]) < CommandDepth
      /\ queue' = [queue EXCEPT ![j] = Append(queue[j], p)]
      /\ post' = [post EXCEPT ![p].phase = "accepted"]
  BY <1>3 DEF Forwards, Answered, page, streams
<1>4. post \in [Post -> Record] /\ queue[j] \in Seq(Post) /\ carried[j] \in Seq(Post) /\ Len(queue[j]) \in Nat
  BY <1>1, <1>3 DEF SessionTypeOK
<1>5. /\ post' \in [Post -> Record] /\ \A q \in Post: q # p => post'[q] = post[q]
      /\ post'[p].phase = "accepted" /\ post'[p].to = j /\ post'[p].after = post[p].after
  <2> DEFINE old == post[p]
             new == [old EXCEPT !.phase = "accepted"]
  <2>1. post' = [post EXCEPT ![p] = new]
    BY <1>2, <1>4
  <2>2. old \in Record
    BY <1>4
  <2>3. new \in Record /\ new.phase = "accepted" /\ new.to = old.to /\ new.after = old.after
    <3> HIDE DEF old
    <3> QED
      BY <2>2 DEF Answers
  <2> HIDE DEF new
  <2> QED
    BY <2>1, <2>3, <1>3, <1>4
<1>6. SessionTypeOK'
  <2>1. Append(queue[j], p) \in Seq(Post) /\ Len(Append(queue[j], p)) <= CommandDepth
    BY <1>2, <1>4, SessionAssumption
  <2>2. queue' \in [Stream -> Seq(Post)] /\ \A i \in Stream: Len(queue'[i]) <= CommandDepth
    BY <2>1, <1>1, <1>2 DEF SessionTypeOK
  <2> QED
    BY <2>2, <1>1, <1>2, <1>5 DEF SessionTypeOK
<1>7. ASSUME NEW i \in Stream, i # j PROVE Line(i)' = Line(i)
  BY <1>1, <1>2, <1>7 DEF Line, SessionTypeOK
<1> DEFINE old == Line(j)
           N == Len(Line(j))
<1>8. /\ N \in Nat /\ Len(Line(j)') = N + 1 /\ Line(j)'[N + 1] = p
      /\ \A n \in 1..N: Line(j)'[n] = Line(j)[n] /\ Line(j)[n] \in Post
  <2>1. Line(j)' = carried[j] \o Append(queue[j], p)
    <3>1. queue'[j] = Append(queue[j], p) /\ carried'[j] = carried[j]
      BY <1>1, <1>2, <1>3 DEF SessionTypeOK
    <3> QED
      BY <3>1 DEF Line
  <2>2. Line(j)' = Append(Line(j), p)
    <3>1. carried[j] \o Append(queue[j], p) = Append(carried[j] \o queue[j], p)
      <4> DEFINE c == carried[j]
                 q == queue[j]
      <4>1. c \in Seq(Post) /\ q \in Seq(Post)
        BY <1>4
      <4> HIDE DEF c, q
      <4>2. c \o Append(q, p) = Append(c \o q, p)
        BY <4>1, Behind
      <4> QED
        BY <4>2 DEF c, q
    <3> QED
      BY <2>1, <3>1 DEF Line
  <2>3. Line(j) \in Seq(Post) /\ \A n \in 1..Len(Line(j)): Line(j)[n] \in Post
    BY <1>1, <1>3, LineFacts
  <2> QED
    BY <2>2, <2>3, AppendProperties
<1> HIDE DEF N
<1>9. \A n \in 1..(N + 1): n \in 1..N \/ n = N + 1
  BY <1>8
<1>10. PostsAre'
  <2>1. ASSUME NEW q \in Post, post'[q].phase \in {"sending", "accepted"} PROVE Live(post[q].to)'
    <3>1. CASE q = p
      BY <3>1, <1>2, <1>3, <1>5 DEF Live
    <3>2. CASE q # p
      <4>1. Live(post[q].to) /\ post'[q] = post[q]
        BY <3>2, <2>1, <1>5 DEF SessionInv, PostsAre
      <4> QED
        BY <4>1, <1>2 DEF Live
    <3> QED
      BY <3>1, <3>2
  <2>2. ASSUME NEW q \in Post, NEW r \in post'[q].after PROVE post'[r].phase = "accepted" /\ r # q
    <3>1. r \in post[q].after
      BY <2>2, <1>5
    <3>2. post[r].phase = "accepted" /\ r # q /\ r \in Post
      BY <3>1, <1>4 DEF SessionInv, PostsAre
    <3> QED
      BY <3>2, <1>5
  <2>3. open' = NoStream \/ Live(open)'
    BY <1>2 DEF SessionInv, PostsAre, Live
  <2> QED
    BY <2>1, <2>2, <2>3 DEF PostsAre
\* What a line held before is accepted and is not the new command.
<1>11. ASSUME NEW i \in Stream, NEW n \in 1..Len(Line(i))
       PROVE  /\ Line(i)[n] # p /\ Line(i)[n] \in Post /\ post'[Line(i)[n]] = post[Line(i)[n]]
              /\ post[Line(i)[n]].phase = "accepted" /\ post[Line(i)[n]].to = i
  <2>1. post[Line(i)[n]].phase = "accepted" /\ post[Line(i)[n]].to = i
    BY <1>11 DEF SessionInv, LineIs
  <2>2. Line(i)[n] \in Post
    BY <1>1, <1>11, LineFacts
  <2>3. Line(i)[n] # p
    BY <2>1, <1>0
  <2> QED
    BY <2>1, <2>2, <2>3, <1>5
<1>12. LineIs'
  <2>1. ASSUME NEW i \in Stream, NEW n \in 1..Len(Line(i)')
        PROVE  post'[Line(i)'[n]].phase = "accepted" /\ post'[Line(i)'[n]].to = i
    <3>1. CASE i # j
      BY <3>1, <2>1, <1>7, <1>11
    <3>2. CASE i = j /\ n \in 1..N
      BY <3>2, <1>8, <1>11 DEF N
    <3>3. CASE i = j /\ n = N + 1
      BY <3>3, <1>5, <1>8
    <3> QED
      BY <3>1, <3>2, <3>3, <1>8, <1>9
  <2>2. ASSUME NEW i \in Stream, NEW m \in 1..Len(Line(i)'), NEW n \in 1..Len(Line(i)'), Line(i)'[m] = Line(i)'[n]
        PROVE  m = n
    <3>1. CASE i # j
      BY <3>1, <2>2, <1>7 DEF SessionInv, LineIs
    <3>2. CASE i = j
      <4>1. m \in 1..(N + 1) /\ n \in 1..(N + 1) /\ Line(j)'[m] = Line(j)'[n]
        BY <3>2, <2>2, <1>8
      <4>2. CASE m \in 1..N /\ n \in 1..N
        BY <4>1, <4>2, <1>8 DEF SessionInv, LineIs, N
      <4>3. CASE m = N + 1 /\ n \in 1..N
        BY <4>1, <4>3, <1>8, <1>11 DEF N
      <4>4. CASE n = N + 1 /\ m \in 1..N
        BY <4>1, <4>4, <1>8, <1>11 DEF N
      <4> QED
        BY <4>1, <4>2, <4>3, <4>4, <1>9
    <3> QED
      BY <3>1, <3>2
  <2> QED
    BY <2>1, <2>2 DEF LineIs
<1>13. AwaitedInOrder'
  <2>1. ASSUME NEW i \in Stream, NEW m \in 1..Len(Line(i)'), NEW n \in 1..Len(Line(i)'),
               Line(i)'[m] \in post'[Line(i)'[n]].after
        PROVE  m < n
    <3>1. CASE i # j
      <4>1. Line(i)' = Line(i) /\ post'[Line(i)[n]] = post[Line(i)[n]]
        BY <3>1, <2>1, <1>7, <1>11
      <4> QED
        BY <4>1, <2>1 DEF SessionInv, AwaitedInOrder
    <3>2. CASE i = j
      <4>1. m \in 1..(N + 1) /\ n \in 1..(N + 1) /\ Line(j)'[m] \in post'[Line(j)'[n]].after
        BY <3>2, <2>1, <1>8
      <4>2. CASE m \in 1..N /\ n \in 1..N
        <5>1. Line(j)'[m] = Line(j)[m] /\ Line(j)'[n] = Line(j)[n] /\ post'[Line(j)[n]] = post[Line(j)[n]]
          BY <4>2, <1>8, <1>11 DEF N
        <5> QED
          BY <5>1, <4>1, <4>2 DEF SessionInv, AwaitedInOrder, N
      <4>3. CASE m = N + 1 /\ n \in 1..N
        <5>1. p \in post[Line(j)[n]].after /\ Line(j)[n] \in Post
          BY <4>1, <4>3, <1>8, <1>11 DEF N
        <5>2. post[p].phase = "accepted"
          BY <5>1 DEF SessionInv, PostsAre
        <5> QED
          BY <5>2, <1>0
      <4>4. CASE m = N + 1 /\ n = N + 1
        <5>1. p \in post[p].after
          BY <4>1, <4>4, <1>5, <1>8
        <5> QED
          BY <5>1 DEF SessionInv, PostsAre
      <4>5. CASE m \in 1..N /\ n = N + 1
        BY <4>5, <1>8
      <4> QED
        BY <4>1, <4>2, <4>3, <4>4, <4>5, <1>9
    <3> QED
      BY <3>1, <3>2
  <2> QED
    BY <2>1 DEF AwaitedInOrder
<1>14. OnItsLine'
  <2> SUFFICES ASSUME NEW q \in Post, post'[q].phase = "accepted",
                      phase'[post'[q].to] # "ended", attached'[post'[q].to]
               PROVE  \E n \in 1..Len(Line(post[q].to)'): Line(post[q].to)'[n] = q
    BY DEF OnItsLine
  <2>1. CASE q = p
    <3>1. Line(post[q].to)' = Line(j)'
      BY <2>1, <1>5 DEF Line
    <3>2. N + 1 \in 1..Len(Line(j)')
      BY <1>8
    <3> QED
      BY <3>1, <3>2, <2>1, <1>8
  <2>2. CASE q # p
    <3>0. post'[q] = post[q] /\ post[q].phase = "accepted"
      BY <2>2, <1>5
    <3>1. PICK i \in Stream: i = post[q].to
      BY <3>0 DEF SessionInv, PostsAre, Live
    <3>2. phase[i] # "ended" /\ attached[i]
      BY <3>0, <3>1, <1>2
    <3>3. PICK n \in 1..Len(Line(i)): Line(i)[n] = q
      BY <3>0, <3>1, <3>2 DEF SessionInv, OnItsLine
    <3>4. Line(post[q].to)' = Line(i)'
      BY <3>0, <3>1 DEF Line
    <3>5. CASE i = j
      <4>1. n \in 1..N /\ n \in 1..(N + 1)
        BY <3>3, <3>5, <1>8 DEF N
      <4> QED
        BY <4>1, <3>3, <3>4, <3>5, <1>8
    <3>6. CASE i # j
      BY <3>3, <3>4, <3>6, <1>7
    <3> QED
      BY <3>5, <3>6
  <2> QED
    BY <2>1, <2>2
<1> QED
  BY <1>6, <1>10, <1>12, <1>13, <1>14 DEF SessionInv

\* A command that was accepted is carried once while its stream lives, behind those the page had
\* waited for, for every number of streams, of commands and of places in a queue.
THEOREM CommandsAlwaysCarried == SessionSpec => []CommandsAreCarried
<1>1. SessionInv /\ [SessionNext]_sessionVars => SessionInv'
  <2> SUFFICES ASSUME SessionInv, [SessionNext]_sessionVars PROVE SessionInv'
    OBVIOUS
  <2>1. CASE Greeted \/ Disconnected \/ UNCHANGED sessionVars
    BY <2>1, PageInv
  <2>2. CASE \E i \in Stream: Connects(i) \/ DaemonDrops(i) \/ Serves(i)
    <3> SUFFICES ASSUME NEW i \in Stream, Connects(i) \/ DaemonDrops(i) \/ Serves(i) PROVE SessionInv'
      BY <2>2
    <3> QED
      BY PageInv, StreamStepInv, LoseInv, WritesLineInv DEF Serves
  <2>3. CASE \E p \in Post: Sends(p) \/ Commands(p)
    <3> SUFFICES ASSUME NEW p \in Post, Sends(p) \/ Commands(p) PROVE SessionInv'
      BY <2>3
    <3> QED
      BY RequestInv, ForwardsInv DEF Commands
  <2> QED
    BY <2>1, <2>2, <2>3 DEF SessionNext
<1> QED
  BY <1>1, CommandsFromInv, SessionInitInv, PTL DEF SessionSpec

=============================================================================
