---------------------------- MODULE BridgeTunnel ----------------------------
(***************************************************************************)
(* Browser connections carried over one daemon's connector                 *)
(* (crates/bridge/src/lib.rs).                                             *)
(*                                                                         *)
(* On the bridge, a host socket's task owns a generation of the route and  *)
(* a table of the browser connections it carries; each browser connection  *)
(* is a task that looks the route up, enters that table, opens, and then   *)
(* relays.  On the daemon's machine, the connector keeps a table of its    *)
(* own, and a proxy task per connection to the loopback listener.  Every   *)
(* queue is bounded and every send a try_send: what does not fit ends the  *)
(* connection it belongs to.  A lost socket is noticed by its two ends     *)
(* separately, and the connector may be back before the bridge knows that  *)
(* it was gone.  The connector waits for the handshake so long and no      *)
(* longer; the bridge's task may register an attempt that was given up,    *)
(* and after a later one.                                                  *)
(*                                                                         *)
(* A chunk is its number in its direction.  A generation has the number of *)
(* the connector's attempt; the bridge numbers them as they register, and  *)
(* only ever asks whether two are the same.  The route's name and secret,  *)
(* and other routes, which share nothing with this one, are left out; the  *)
(* codes are in Pairing.                                                   *)
(***************************************************************************)
EXTENDS Naturals, Sequences, FiniteSets

CONSTANTS
    None,
    Device,      \* browser connections (next_connection numbers them)
    MaxGens,     \* bound: times the connector connects
    MaxDevices,  \* MAX_DEVICES_PER_ROUTE
    QueueDepth,  \* PACKET_QUEUE_DEPTH
    MaxDown,     \* bound: MaxDown[d], chunks the listener sends on connection d
    MaxUp        \* bound: MaxUp[d], chunks its browser sends

ASSUME TunnelAssumption ==
    /\ None \notin Nat
    /\ MaxGens \in Nat \ {0} /\ MaxDevices \in Nat \ {0} /\ QueueDepth \in Nat \ {0}
    /\ MaxDown \in [Device -> Nat] /\ MaxUp \in [Device -> Nat]

Gen == 1..MaxGens
Packet == [kind : {"open", "data", "closed"}, device : Device, chunk : Nat]

VARIABLES
    link,      \* link[g]: the socket of generation g carries packets
    host,      \* host[g]: the bridge's task for it (serve_host_socket)
    route,     \* the generation RelayState.routes has, or None
    newest,    \* the one that registered last, or None
    devices,   \* devices[g]: connections in its table (LiveRoute.devices)
    toHost,    \* toHost[g]: packets for the connector
    dev,       \* dev[d]: a browser connection's task, and the generation it found
    toDevice,  \* toDevice[d]: packets for it
    conn,      \* conn[g]: the connector's task for it (connect_once)
    locals,    \* locals[g]: connections in its table (local_connections)
    fromHost,  \* fromHost[g]: packets for the bridge
    proxy,     \* proxy[d]: the proxy task of a connection
    toLocal,   \* toLocal[d]: packets for it
    asked,     \* asked[d]: chunks the browser sent
    heard,     \* heard[d]: chunks that reached the listener
    said,      \* said[d]: chunks the listener sent
    got        \* got[d]: chunks written to the browser, or being written

bridge == <<host, route, newest, devices, dev, toDevice>>
connector == <<conn, locals, proxy, toLocal>>
data == <<asked, heard, said, got>>
vars == <<link, bridge, toHost, connector, fromHost, data>>

TypeOK ==
    /\ link \in [Gen -> BOOLEAN]
    /\ host \in [Gen -> {"none", "up", "ended"}]
    /\ conn \in [Gen -> {"none", "connecting", "up", "ended"}]
    /\ route \in Gen \cup {None} /\ newest \in Gen \cup {None}
    /\ devices \in [Gen -> SUBSET Device] /\ \A g \in Gen: Cardinality(devices[g]) <= MaxDevices
    /\ locals \in [Gen -> SUBSET Device]
    /\ dev \in [Device -> [phase : {"new", "found", "entered", "relaying", "writing", "done"},
                           gen : Gen \cup {None}]]
    /\ proxy \in [Device -> {"none", "running", "done"}]
    /\ \A g \in Gen: Len(toHost[g]) <= QueueDepth /\ Len(fromHost[g]) <= QueueDepth
    /\ \A d \in Device: Len(toDevice[d]) <= QueueDepth /\ Len(toLocal[d]) <= QueueDepth
    /\ \A d \in Device : asked[d] \in 0..MaxUp[d] /\ said[d] \in 0..MaxDown[d]

Init ==
    /\ link = [g \in Gen |-> FALSE]
    /\ host = [g \in Gen |-> "none"] /\ conn = [g \in Gen |-> "none"]
    /\ route = None /\ newest = None
    /\ devices = [g \in Gen |-> {}] /\ locals = [g \in Gen |-> {}]
    /\ toHost = [g \in Gen |-> <<>>] /\ fromHost = [g \in Gen |-> <<>>]
    /\ dev = [d \in Device |-> [phase |-> "new", gen |-> None]]
    /\ toDevice = [d \in Device |-> <<>>]
    /\ proxy = [d \in Device |-> "none"] /\ toLocal = [d \in Device |-> <<>>]
    /\ asked = [d \in Device |-> 0] /\ heard = [d \in Device |-> <<>>]
    /\ said = [d \in Device |-> 0] /\ got = [d \in Device |-> <<>>]

Open(d) == [kind |-> "open", device |-> d, chunk |-> 0]
Data(d, n) == [kind |-> "data", device |-> d, chunk |-> n]
Closed(d) == [kind |-> "closed", device |-> d, chunk |-> 0]

\* try_send: into a queue that has room.
Fits(queue) == Len(queue) < QueueDepth
Offered(queue, p) == IF Fits(queue) THEN Append(queue, p) ELSE queue

\* ... and whose receiver is alive: the writing task of either end.
HostTakes(g) == host[g] = "up" /\ Fits(toHost[g])
ConnTakes(g) == conn[g] = "up" /\ Fits(fromHost[g])
ToHost(g, p) == toHost' = [toHost EXCEPT ![g] = IF HostTakes(g) THEN Append(@, p) ELSE @]
ToBridge(g, p) == fromHost' = [fromHost EXCEPT ![g] = IF ConnTakes(g) THEN Append(@, p) ELSE @]

\* A table drained: every connection in it is offered the end and let go.
Drained(queues, ds) ==
    [d \in Device |-> IF d \in ds THEN Offered(queues[d], Closed(d)) ELSE queues[d]]

-----------------------------------------------------------------------------
(* The socket *)

\* connect_once asks the bridge for a socket, one attempt at a time.
ConnStarts(g) ==
    /\ conn[g] = "none" /\ \A f \in Gen: f < g => conn[f] = "ended"
    /\ conn' = [conn EXCEPT ![g] = "connecting"]
    /\ link' = [link EXCEPT ![g] = TRUE]
    /\ UNCHANGED <<bridge, toHost, locals, proxy, toLocal, fromHost, data>>

\* The bridge's answer (accept_async) arrives, before or after it registers.
Upgraded(g) ==
    /\ conn[g] = "connecting" /\ link[g]
    /\ conn' = [conn EXCEPT ![g] = "up"]
    /\ UNCHANGED <<link, bridge, toHost, locals, proxy, toLocal, fromHost, data>>

\* It does not arrive within CONNECT_TIMEOUT, or is an error.
GivesUp(g) ==
    /\ conn[g] = "connecting"
    /\ conn' = [conn EXCEPT ![g] = "ended"]
    /\ link' = [link EXCEPT ![g] = FALSE]
    /\ UNCHANGED <<bridge, toHost, locals, proxy, toLocal, fromHost, data>>

\* The bridge registers a socket it accepted, whatever became of it since: it
\* replaces what the route had.
RegisterHost(g) ==
    /\ host[g] = "none" /\ conn[g] # "none"
    /\ host' = [host EXCEPT ![g] = "up"]
    /\ route' = g /\ newest' = g
    /\ IF route = None THEN UNCHANGED <<devices, toDevice>>
       ELSE /\ devices' = [devices EXCEPT ![route] = {}]
            /\ toDevice' = Drained(toDevice, devices[route])
    /\ UNCHANGED <<link, dev, toHost, connector, fromHost, data>>

LinkLost(g) ==
    /\ link[g]
    /\ link' = [link EXCEPT ![g] = FALSE]
    /\ UNCHANGED <<bridge, toHost, connector, fromHost, data>>

\* Error: unregister takes the route from whoever has it.
HostEndsBlindly(g) ==
    /\ host[g] = "up" /\ ~link[g]
    /\ host' = [host EXCEPT ![g] = "ended"]
    /\ toHost' = [toHost EXCEPT ![g] = <<>>]
    /\ route' = None
    /\ IF route = None THEN UNCHANGED <<devices, toDevice>>
       ELSE /\ devices' = [devices EXCEPT ![route] = {}]
            /\ toDevice' = Drained(toDevice, devices[route])
    /\ UNCHANGED <<link, newest, dev, connector, fromHost, data>>

\* serve_host_socket ends with its queue: unregister, if the route is still this
\* generation's.
HostEnds(g) ==
    /\ host[g] = "up" /\ ~link[g]
    /\ host' = [host EXCEPT ![g] = "ended"]
    /\ toHost' = [toHost EXCEPT ![g] = <<>>]
    /\ IF route = g
       THEN /\ route' = None
            /\ devices' = [devices EXCEPT ![g] = {}]
            /\ toDevice' = Drained(toDevice, devices[g])
       ELSE UNCHANGED <<route, devices, toDevice>>
    /\ UNCHANGED <<link, newest, dev, connector, fromHost, data>>

\* connect_once ends with its queue: its connections are told, and let go.
ConnEnds(g) ==
    /\ conn[g] = "up" /\ ~link[g]
    /\ conn' = [conn EXCEPT ![g] = "ended"]
    /\ locals' = [locals EXCEPT ![g] = {}]
    /\ toLocal' = Drained(toLocal, locals[g])
    /\ fromHost' = [fromHost EXCEPT ![g] = <<>>]
    /\ UNCHANGED <<link, bridge, toHost, proxy, data>>

-----------------------------------------------------------------------------
(* A browser connection on the bridge (handle_public_connection) *)

In(d, phase) == dev[d].phase = phase

Moves(d, phase) == dev' = [dev EXCEPT ![d].phase = phase]

Find(d) ==
    /\ In(d, "new") /\ route # None
    /\ dev' = [dev EXCEPT ![d] = [phase |-> "found", gen |-> route]]
    /\ UNCHANGED <<link, host, route, newest, devices, toDevice, toHost, connector, fromHost, data>>

\* Error: the table takes one more.
EnterFull(d) ==
    LET g == dev[d].gen
    IN  /\ In(d, "found")
        /\ devices' = [devices EXCEPT ![g] = @ \cup {d}] /\ Moves(d, "entered")
        /\ UNCHANGED <<link, host, route, newest, toDevice, toHost, connector, fromHost, data>>

Enter(d) ==
    LET g == dev[d].gen
    IN  /\ In(d, "found")
        /\ IF Cardinality(devices[g]) < MaxDevices
           THEN devices' = [devices EXCEPT ![g] = @ \cup {d}] /\ Moves(d, "entered")
           ELSE Moves(d, "done") /\ UNCHANGED devices
        /\ UNCHANGED <<link, host, route, newest, toDevice, toHost, connector, fromHost, data>>

OpenTunnel(d) ==
    LET g == dev[d].gen
    IN  /\ In(d, "entered")
        /\ IF HostTakes(g)
           THEN ToHost(g, Open(d)) /\ Moves(d, "relaying") /\ UNCHANGED devices
           ELSE Moves(d, "done") /\ devices' = [devices EXCEPT ![g] = @ \ {d}] /\ UNCHANGED toHost
        /\ UNCHANGED <<link, host, route, newest, toDevice, connector, fromHost, data>>

\* The relaying ends, and its queue: the connector is told, and the table entry
\* goes.
Wind(d) ==
    LET g == dev[d].gen
    IN  /\ ToHost(g, Closed(d))
        /\ devices' = [devices EXCEPT ![g] = @ \ {d}]
        /\ toDevice' = [toDevice EXCEPT ![d] = <<>>]
        /\ Moves(d, "done")

\* The browser sends a chunk: it fits, or the connection ends.
BrowserSends(d) ==
    LET g == dev[d].gen
    IN  /\ In(d, "relaying") /\ asked[d] < MaxUp[d]
        /\ asked' = [asked EXCEPT ![d] = @ + 1]
        /\ IF HostTakes(g)
           THEN ToHost(g, Data(d, asked'[d])) /\ UNCHANGED <<devices, dev, toDevice>>
           ELSE Wind(d)
        /\ UNCHANGED <<link, host, route, newest, connector, fromHost, heard, said, got>>

BrowserLeaves(d) ==
    /\ In(d, "relaying")
    /\ Wind(d)
    /\ UNCHANGED <<link, host, route, newest, connector, fromHost, data>>

\* A packet for the browser: a chunk is written to it, and the task does
\* nothing else until that is done.
DeviceTakes(d) ==
    LET p == Head(toDevice[d])
    IN  /\ In(d, "relaying") /\ toDevice[d] # <<>>
        /\ IF p.kind = "data"
           THEN /\ got' = [got EXCEPT ![d] = Append(@, p.chunk)]
                /\ toDevice' = [toDevice EXCEPT ![d] = Tail(@)]
                /\ Moves(d, "writing")
                /\ UNCHANGED <<toHost, devices>>
           ELSE Wind(d) /\ UNCHANGED got
        /\ UNCHANGED <<link, host, route, newest, connector, fromHost, asked, heard, said>>

\* write_all has no limit in time: it returns when the browser has read enough
\* of what was written, or is gone.
DeviceWrites(d) ==
    /\ In(d, "writing") /\ Moves(d, "relaying")
    /\ UNCHANGED <<link, host, route, newest, devices, toDevice, toHost, connector, fromHost, data>>

DeviceBreaks(d) ==
    /\ In(d, "writing")
    /\ Wind(d)
    /\ UNCHANGED <<link, host, route, newest, connector, fromHost, data>>

\* Error: only a packet that says so ends the relaying.
DeviceAloneWaits(d) ==
    /\ In(d, "relaying") /\ toDevice[d] = <<>> /\ d \notin devices[dev[d].gen]
    /\ UNCHANGED vars

\* Nobody is left to send one: its sender was in the table.
DeviceAlone(d) ==
    /\ In(d, "relaying") /\ toDevice[d] = <<>> /\ d \notin devices[dev[d].gen]
    /\ Wind(d)
    /\ UNCHANGED <<link, host, route, newest, connector, fromHost, data>>

\* serve_host_socket reads a packet: for a connection this generation carries
\* while the route is its own.  One that has no room is let go.
HostReads(g) ==
    LET p == Head(fromHost[g])
        d == p.device
    IN  /\ host[g] = "up" /\ link[g] /\ fromHost[g] # <<>>
        /\ fromHost' = [fromHost EXCEPT ![g] = Tail(@)]
        /\ IF route # g \/ d \notin devices[g]
           THEN UNCHANGED <<toDevice, devices, toHost>>
           ELSE IF Fits(toDevice[d])
           THEN toDevice' = [toDevice EXCEPT ![d] = Append(@, p)] /\ UNCHANGED <<devices, toHost>>
           ELSE /\ devices' = [devices EXCEPT ![g] = @ \ {d}]
                /\ ToHost(g, Closed(d)) /\ UNCHANGED toDevice
        /\ UNCHANGED <<link, host, route, newest, dev, connector, data>>

-----------------------------------------------------------------------------
(* The connector *)

\* connect_once reads a packet.
ConnReads(g) ==
    LET p == Head(toHost[g])
        d == p.device
    IN  /\ conn[g] = "up" /\ link[g] /\ toHost[g] # <<>>
        /\ toHost' = [toHost EXCEPT ![g] = Tail(@)]
        /\ \/ /\ p.kind = "open"
              /\ locals' = [locals EXCEPT ![g] = @ \cup {d}]
              /\ proxy' = [proxy EXCEPT ![d] = "running"]
              /\ UNCHANGED <<toLocal, fromHost>>
           \/ /\ p.kind # "open" /\ (d \in locals[g] => Fits(toLocal[d]))
              /\ toLocal' = IF d \in locals[g] THEN [toLocal EXCEPT ![d] = Append(@, p)] ELSE toLocal
              /\ UNCHANGED <<locals, proxy, fromHost>>
           \/ /\ p.kind # "open" /\ d \in locals[g] /\ ~Fits(toLocal[d])
              /\ locals' = [locals EXCEPT ![g] = @ \ {d}]
              /\ ToBridge(g, Closed(d))
              /\ UNCHANGED <<toLocal, proxy>>
        /\ UNCHANGED <<link, bridge, conn, data>>

\* The proxy task ends, with its queue, and says so if it can.
ProxyEnds(d) ==
    LET g == dev[d].gen
    IN  /\ proxy' = [proxy EXCEPT ![d] = "done"]
        /\ locals' = [locals EXCEPT ![g] = @ \ {d}]
        /\ toLocal' = [toLocal EXCEPT ![d] = <<>>]
        /\ ToBridge(g, Closed(d))

\* Error: a chunk there is no room for is skipped.
ListenerSendsOn(d) ==
    LET g == dev[d].gen
    IN  /\ proxy[d] = "running" /\ said[d] < MaxDown[d]
        /\ said' = [said EXCEPT ![d] = @ + 1]
        /\ ToBridge(g, Data(d, said'[d]))
        /\ UNCHANGED <<link, bridge, toHost, connector, asked, heard, got>>

\* The listener sends a chunk: it fits, or the connection ends.
ListenerSends(d) ==
    LET g == dev[d].gen
    IN  /\ proxy[d] = "running" /\ said[d] < MaxDown[d]
        /\ said' = [said EXCEPT ![d] = @ + 1]
        /\ IF ConnTakes(g)
           THEN ToBridge(g, Data(d, said'[d])) /\ UNCHANGED <<proxy, locals, toLocal>>
           ELSE ProxyEnds(d)
        /\ UNCHANGED <<link, bridge, toHost, conn, asked, heard, got>>

\* The listener could not be reached, or closes.
ListenerCloses(d) ==
    /\ proxy[d] = "running"
    /\ ProxyEnds(d)
    /\ UNCHANGED <<link, bridge, toHost, conn, data>>

\* A packet for the listener, or nobody left to send one.  The write to the
\* listener has no limit in time either: this step need never come.
ProxyTakes(d) ==
    LET p == Head(toLocal[d])
    IN  /\ proxy[d] = "running"
        /\ \/ /\ toLocal[d] # <<>> /\ p.kind = "data"
              /\ heard' = [heard EXCEPT ![d] = Append(@, p.chunk)]
              /\ toLocal' = [toLocal EXCEPT ![d] = Tail(@)]
              /\ UNCHANGED <<proxy, locals, fromHost>>
           \/ /\ toLocal[d] # <<>> => p.kind = "closed"
              /\ toLocal[d] = <<>> => d \notin locals[dev[d].gen]
              /\ ProxyEnds(d)
              /\ UNCHANGED heard
        /\ UNCHANGED <<link, bridge, toHost, conn, asked, said, got>>

-----------------------------------------------------------------------------
BridgeDevice(d) ==
    Find(d) \/ Enter(d) \/ OpenTunnel(d) \/ DeviceTakes(d) \/ DeviceAlone(d)

Connection(d) ==
    \/ BridgeDevice(d) \/ BrowserSends(d) \/ BrowserLeaves(d) \/ DeviceWrites(d) \/ DeviceBreaks(d)
    \/ ListenerSends(d) \/ ListenerCloses(d) \/ ProxyTakes(d)

Socket(g) ==
    \/ ConnStarts(g) \/ Upgraded(g) \/ GivesUp(g) \/ RegisterHost(g)
    \/ LinkLost(g) \/ HostEnds(g) \/ ConnEnds(g) \/ HostReads(g) \/ ConnReads(g)

Next ==
    \/ \E g \in Gen: Socket(g)
    \/ \E d \in Device: Connection(d)

Spec == Init /\ [][Next]_vars

\* Both ends notice a lost socket and read what arrives, and a connection's task
\* runs while it is not writing; the browser and the listener need do nothing,
\* so neither a write to the one nor a write to the other need ever end.
FairSpec ==
    /\ Spec
    /\ \A g \in Gen: WF_vars(HostEnds(g)) /\ WF_vars(ConnEnds(g))
                     /\ WF_vars(HostReads(g)) /\ WF_vars(ConnReads(g))
    /\ \A d \in Device: WF_vars(BridgeDevice(d))

-----------------------------------------------------------------------------
(* Properties *)

Counting(s) == \A i \in 1..Len(s): s[i] = i

\* "bounded opaque chunks": a full queue, a lost socket or a replaced route cuts
\* a response or a request short; it never takes a piece out of the middle of one.
NoHoles == \A d \in Device: Counting(got[d]) /\ Counting(heard[d])

\* register and unregister compare generations: the connection that replaced
\* another keeps the route when the old one's end is noticed at last, and its own
\* end hands the route back to nobody.
NewestIsRouted == route = IF newest # None /\ host[newest] = "up" THEN newest ELSE None

\* A connector that is connected and registered has the route, unless an attempt
\* it had given up before registered after it.
LiveIsRouted ==
    \A g \in Gen: host[g] = "up" /\ link[g] => route = g \/ (newest # g /\ ~link[newest])

\* Neither end of a connection through the bridge sees a hole in what the other sent, however
\* queues fill and sockets are replaced, the table keeps its ceiling, and the newest registration
\* of a connector, the live one's unless an abandoned attempt came late, has the route
\* (handle_public_connection, serve_host_socket, register, unregister, proxy_to_local).
TunnelHolds == TypeOK /\ NoHoles /\ NewestIsRouted /\ LiveIsRouted

LetGo(d) == (In(d, "relaying") \/ In(d, "writing")) /\ d \notin devices[dev[d].gen]

\* A browser connection that is let go on the bridge ends there, with whatever
\* was queued for it: nothing but the write of a chunk to its browser holds it.
LetGoEnds == []<>(\A d \in Device: LetGo(d) => In(d, "writing"))

-----------------------------------------------------------------------------
(* A statement of the repository, and two of what one would expect, that    *)
(* the code does not keep: TLC finds a counterexample to each, which        *)
(* README.md describes.                                                     *)

\* "Losing one connector closes only its browser connections": it closes them.
LostClosesItsConnections ==
    \A d \in Device, g \in Gen:
        dev[d].gen = g /\ host[g] = "ended" ~> In(d, "done") \/ In(d, "writing")

\* A browser connection that is let go ends there: not while the write to a
\* browser that does not read is waited for, without limit.
LetGoAlwaysEnds == \A d \in Device: LetGo(d) ~> In(d, "done")

\* The connector that is there has the route: not when an attempt it gave up
\* registers after it, and takes the route away for good with its own end.
LiveIsAlwaysRouted == \A g \in Gen: host[g] = "up" /\ link[g] => route = g

=============================================================================
