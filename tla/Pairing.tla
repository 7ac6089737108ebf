------------------------------ MODULE Pairing ------------------------------
(***************************************************************************)
(* Pairing a browser: a short code typed into it, a prompt a trusted       *)
(* client answers, and a line in the configuration file.                   *)
(*                                                                         *)
(* Four parties share the work: the web listener's request tasks           *)
(* (DevicePolicy::pair and the /pair request of handle), the event loop    *)
(* (issue_pairing_code, PairingRequested, decide_pairing,                  *)
(* sweep_pairing_approvals), the public bridge, which indexes the code the *)
(* connector publishes and forwards the request to the daemon that owns it *)
(* (crates/bridge/src/lib.rs: register_code, route_for_code, pair_device), *)
(* and the command line, which revokes devices by rewriting the same file. *)
(*                                                                         *)
(* Codes are random: they are numbered as issued, and 0 is one never       *)
(* issued.  Every browser offers the same name, so that a device's name is *)
(* the number unique_device_name puts after it.  Time is two facts: a code *)
(* has expired, an approval is late.                                       *)
(***************************************************************************)
EXTENDS Naturals, Sequences, FiniteSets, FiniteSetsExt

CONSTANTS
    None,
    Browser,       \* pairing requests, each a browser's
    MaxCodes,      \* bound: codes the operator asks for
    MaxAttempts,   \* MAX_ATTEMPTS
    MaxApprovals,  \* MAX_PENDING_PAIRING_APPROVALS
    MaxRevokes,    \* bound: revocations
    Via            \* Via[b]: the way b reaches the daemon, "bridge" or "direct"

ASSUME PairingAssumption ==
    /\ IsFiniteSet(Browser)
    /\ MaxCodes \in Nat \ {0} /\ MaxAttempts \in Nat \ {0} /\ MaxApprovals \in Nat \ {0}
    /\ MaxRevokes \in Nat /\ Via \in [Browser -> {"bridge", "direct"}]

Code == 1..MaxCodes
Name == 1..(Cardinality(Browser) + 1)
Device == [name : Name, owner : Browser]
Addition == [browser : Browser, name : Name, text : SUBSET Device]

ASSUME NoneAssumption == None \notin Browser /\ None \notin Nat /\ None \notin Addition

VARIABLES
    issued,     \* codes issued
    pending,    \* the outstanding code (DevicePolicy.pending), or None
    published,  \* what the watch channel to the connector says: a code or None
    changed,    \* the connector has not sent it
    wire,       \* publications on their way to the bridge
    indexed,    \* the code the bridge has for this route, or None
    there,      \* there[b]: the browser is still waiting for its answer
    request,    \* request[b]: its request
    late,       \* late[b]: its approval has expired
    decision,   \* decision[b]: what was sent to the request, or None
    inputs,     \* inputs to the event loop
    approvals,  \* approvals[b]: the name awaiting approval, or None
    adding,     \* the loop is rewriting the file: what it read, and for whom
    file,       \* the devices in the configuration file
    revoking,   \* the command line is rewriting the file: what it read, and whom
    revoked,    \* devices reported revoked
    toTui,      \* messages on their way to the trusted client
    prompt      \* the approval it shows, or None

codes == <<issued, pending, published, changed, wire, indexed>>
browsers == <<there, request, late>>
loop == <<inputs, approvals, adding, decision>>
disk == <<file, revoking, revoked>>
tui == <<toTui, prompt>>
vars == <<codes, browsers, loop, disk, tui>>

Idle == [phase |-> "idle", code |-> 0, via |-> None, name |-> None, opened |-> None]
Required(b) == [type |-> "required", browser |-> b]
Decided(b) == [type |-> "decided", browser |-> b]
Requested(b) == [type |-> "requested", browser |-> b, approve |-> FALSE]
Decide(b, approve) == [type |-> "decide", browser |-> b, approve |-> approve]

Names(text) == {d.name: d \in text}

\* unique_device_name: the offered name, or the first number that makes it free.
UniqueDeviceName(text) == Min(Name \ Names(text))

TypeOK ==
    /\ issued \in 0..MaxCodes
    /\ pending \in [code : Code, wrong : 0..(MaxAttempts - 1), expired : BOOLEAN] \cup {None}
    /\ published \in Code \cup {None} /\ changed \in BOOLEAN
    /\ wire \in Seq(Code \cup {None}) /\ indexed \in Code \cup {None}
    /\ there \in [Browser -> BOOLEAN] /\ late \in [Browser -> BOOLEAN]
    /\ request \in [Browser ->
          [phase : {"idle", "forwarded", "matched", "waiting", "returning", "answered"},
           code : 0..MaxCodes, via : {"bridge", "direct", None}, name : Name \cup {None},
           opened : Code \cup {None}]]
    /\ decision \in [Browser -> {"token", "refused", None}]
    /\ \A i \in 1..Len(inputs): inputs[i].browser \in Browser
    /\ approvals \in [Browser -> Name \cup {None}]
    /\ Cardinality({b \in Browser: approvals[b] # None}) <= MaxApprovals
    /\ adding \in Addition \cup {None}
    /\ file \subseteq Device
    /\ revoking \in [name : Name, text : SUBSET Device] \cup {None}
    /\ revoked \subseteq Browser
    /\ \A i \in 1..Len(toTui): toTui[i].browser \in Browser
    /\ prompt \in Browser \cup {None}

Init ==
    /\ issued = 0 /\ pending = None /\ published = None /\ changed = FALSE
    /\ wire = <<>> /\ indexed = None
    /\ there = [b \in Browser |-> TRUE]
    /\ request = [b \in Browser |-> Idle]
    /\ late = [b \in Browser |-> FALSE]
    /\ decision = [b \in Browser |-> None]
    /\ inputs = <<>>
    /\ approvals = [b \in Browser |-> None]
    /\ adding = None
    /\ file = {} /\ revoking = None /\ revoked = {}
    /\ toTui = <<>> /\ prompt = None

Publish(code) == published' = code /\ changed' = TRUE

-----------------------------------------------------------------------------
(* The code *)

\* issue_pairing_code: it replaces the one outstanding, and is published with
\* the lock held.
IssuePairingCode ==
    /\ adding = None /\ issued < MaxCodes
    /\ issued' = issued + 1
    /\ pending' = [code |-> issued + 1, wrong |-> 0, expired |-> FALSE]
    /\ Publish(issued + 1)
    /\ UNCHANGED <<wire, indexed, browsers, loop, disk, tui>>

\* CODE_LIFETIME passes.
CodeExpires ==
    /\ pending # None /\ ~pending.expired
    /\ pending' = [pending EXCEPT !.expired = TRUE]
    /\ UNCHANGED <<issued, published, changed, wire, indexed, browsers, loop, disk, tui>>

\* The connector's writer sends what the watch channel says now.
SendPublication ==
    /\ changed
    /\ changed' = FALSE
    /\ wire' = Append(wire, published)
    /\ UNCHANGED <<issued, pending, published, indexed, browsers, loop, disk, tui>>

\* Error: an empty offer is ignored.
RegisterCodeOnly ==
    /\ wire # <<>>
    /\ wire' = Tail(wire)
    /\ indexed' = IF Head(wire) = None THEN indexed ELSE Head(wire)
    /\ UNCHANGED <<issued, pending, published, changed, browsers, loop, disk, tui>>

\* register_code: the route's earlier code goes, and an empty offer adds none.
RegisterCode ==
    /\ wire # <<>>
    /\ wire' = Tail(wire)
    /\ indexed' = Head(wire)
    /\ UNCHANGED <<issued, pending, published, changed, browsers, loop, disk, tui>>

\* The bridge's copy runs out, after the daemon's.
IndexExpires ==
    /\ indexed # None
    /\ pending # None => pending.code # indexed \/ pending.expired
    /\ indexed' = None
    /\ UNCHANGED <<issued, pending, published, changed, wire, browsers, loop, disk, tui>>

\* The connector is lost and comes back as another generation of the route: the
\* old one's codes and connections are dropped, and it starts with the code
\* that is published now.
ConnectorReconnects ==
    /\ indexed' = None /\ wire' = <<>>
    /\ changed' = (published # None)
    /\ there' = [b \in Browser |-> there[b] /\ ~(request[b].via = "bridge"
                                      /\ request[b].phase \in {"forwarded", "matched", "waiting"})]
    /\ UNCHANGED <<issued, pending, published, request, late, loop, disk, tui>>

-----------------------------------------------------------------------------
(* A browser's request *)

\* A code is typed: right, old or invented.  The bridge forwards only the code
\* it has; it answers anything else itself.
Submit(b, code, via) ==
    /\ request[b].phase = "idle" /\ there[b]
    /\ via = "bridge" => code = indexed
    /\ request' = [request EXCEPT ![b].phase = "forwarded", ![b].code = code, ![b].via = via]
    /\ UNCHANGED <<codes, there, late, loop, disk, tui>>

Refused(b) == request' = [request EXCEPT ![b].phase = "returning"]

\* pair, with the lock held, where no code matches: none is waiting, it has
\* expired, or the entry is wrong and counts against it.
PairRefuses(b) ==
    /\ request[b].phase = "forwarded"
    /\ \/ pending = None /\ UNCHANGED <<pending, published, changed>>
       \/ pending # None /\ pending.expired /\ pending' = None /\ Publish(None)
       \/ /\ pending # None /\ ~pending.expired /\ pending.code # request[b].code
          /\ IF pending.wrong + 1 >= MaxAttempts
             THEN pending' = None /\ Publish(None)
             ELSE pending' = [pending EXCEPT !.wrong = @ + 1] /\ UNCHANGED <<published, changed>>
    /\ Refused(b)
    /\ UNCHANGED <<issued, wire, indexed, there, late, loop, disk, tui>>

Matches(b) ==
    /\ request[b].phase = "forwarded"
    /\ pending # None /\ ~pending.expired /\ pending.code = request[b].code

\* Error: the code is kept until somebody approves.
PairMatchesKeeping(b) ==
    /\ Matches(b)
    /\ request' = [request EXCEPT ![b].phase = "matched",
                                  ![b].name = UniqueDeviceName(file), ![b].opened = pending.code]
    /\ UNCHANGED <<codes, there, late, loop, disk, tui>>

\* pair, with the lock held, where it does: the code is spent.
PairMatches(b) ==
    /\ Matches(b)
    /\ request' = [request EXCEPT ![b].phase = "matched",
                                  ![b].name = UniqueDeviceName(file), ![b].opened = pending.code]
    /\ pending' = None
    /\ UNCHANGED <<issued, published, changed, wire, indexed, there, late, loop, disk, tui>>

\* ... and with the lock released: it is no longer published, and the loop is
\* asked for an approval.
PairAsks(b) ==
    /\ request[b].phase = "matched"
    /\ request' = [request EXCEPT ![b].phase = "waiting"]
    /\ Publish(None)
    /\ inputs' = Append(inputs, Requested(b))
    /\ UNCHANGED <<issued, pending, wire, indexed, there, late, approvals, adding, decision, disk, tui>>

\* PAIRING_APPROVAL_LIFETIME passes.
ApprovalLate(b) ==
    /\ request[b].phase = "waiting" /\ ~late[b]
    /\ late' = [late EXCEPT ![b] = TRUE]
    /\ UNCHANGED <<codes, there, request, loop, disk, tui>>

\* The request hears the decision, or times out.  It reads nothing from the
\* browser while it waits.
PairAnswers(b) ==
    /\ request[b].phase = "waiting"
    /\ decision[b] # None \/ late[b]
    /\ request' = [request EXCEPT ![b].phase = "returning"]
    /\ UNCHANGED <<codes, there, late, loop, disk, tui>>

\* The answer reaches the browser.  pair_device drops the route's codes first,
\* whatever the answer says.
AnswerArrives(b) ==
    /\ request[b].phase = "returning"
    /\ request' = [request EXCEPT ![b].phase = "answered"]
    /\ indexed' = IF request[b].via = "bridge" /\ there[b] THEN None ELSE indexed
    /\ UNCHANGED <<issued, pending, published, changed, wire, there, late, loop, disk, tui>>

\* The tab is closed or the network lost, which nothing notices.
BrowserLeaves(b) ==
    /\ there[b] /\ request[b].phase \in {"forwarded", "matched", "waiting"}
    /\ there' = [there EXCEPT ![b] = FALSE]
    /\ UNCHANGED <<codes, request, late, loop, disk, tui>>

-----------------------------------------------------------------------------
(* The event loop *)

Take(type) == adding = None /\ inputs # <<>> /\ Head(inputs).type = type /\ inputs' = Tail(inputs)

\* The oneshot's receiver is gone once the request has answered.
Closed(b) == request[b].phase # "waiting"

Send(b, what) == decision' = [decision EXCEPT ![b] = IF Closed(b) THEN @ ELSE what]

Tell(message) == toTui' = Append(toTui, message)

\* PairingRequested.
TakeRequested ==
    LET b == Head(inputs).browser
        room == Cardinality({a \in Browser: approvals[a] # None}) < MaxApprovals
    IN  /\ Take("requested")
        /\ IF room
           THEN /\ approvals' = [approvals EXCEPT ![b] = request[b].name]
                /\ Tell(Required(b)) /\ UNCHANGED decision
           ELSE Send(b, "refused") /\ UNCHANGED <<approvals, toTui>>
        /\ UNCHANGED <<codes, browsers, adding, disk, prompt>>

\* decide_pairing where nothing is added: it is no longer waiting, has expired,
\* or is rejected.
DecideAgainst ==
    LET b == Head(inputs).browser
    IN  /\ Take("decide")
        /\ approvals[b] = None \/ late[b] \/ Closed(b) \/ ~Head(inputs).approve
        /\ approvals' = [approvals EXCEPT ![b] = None]
        /\ IF approvals[b] = None THEN UNCHANGED decision ELSE Send(b, "refused")
        /\ Tell(Decided(b))
        /\ UNCHANGED <<codes, browsers, adding, disk, prompt>>

\* decide_pairing where the request is approved: add_device_file reads the file,
DecideFor ==
    LET b == Head(inputs).browser
    IN  /\ Take("decide")
        /\ approvals[b] # None /\ ~late[b] /\ ~Closed(b) /\ Head(inputs).approve
        /\ approvals' = [approvals EXCEPT ![b] = None]
        /\ adding' = [browser |-> b, name |-> approvals[b], text |-> file]
        /\ UNCHANGED <<decision, codes, browsers, disk, tui>>

\* Error: the name was found free when the code was entered.
AddDeviceFileUnchecked ==
    LET b == adding.browser
    IN  /\ adding # None
        /\ file' = adding.text \cup {[name |-> adding.name, owner |-> b]}
        /\ Send(b, "token")
        /\ adding' = None
        /\ Tell(Decided(b))
        /\ UNCHANGED <<codes, browsers, inputs, approvals, revoking, revoked, prompt>>

\* ... refuses a name it has, and otherwise replaces it, before the token is sent.
AddDeviceFile ==
    LET b == adding.browser
        taken == adding.name \in Names(adding.text)
    IN  /\ adding # None
        /\ file' = IF taken THEN file ELSE adding.text \cup {[name |-> adding.name, owner |-> b]}
        /\ Send(b, IF taken THEN "refused" ELSE "token")
        /\ adding' = None
        /\ Tell(Decided(b))
        /\ UNCHANGED <<codes, browsers, inputs, approvals, revoking, revoked, prompt>>

Stale == {b \in Browser: approvals[b] # None /\ (late[b] \/ Closed(b))}

\* Error: what expires is dropped without a word.
SweepSilently ==
    /\ adding = None /\ Stale # {}
    /\ approvals' = [b \in Browser |-> IF b \in Stale THEN None ELSE approvals[b]]
    /\ decision' = [b \in Browser |-> IF b \in Stale /\ ~Closed(b) THEN "refused" ELSE decision[b]]
    /\ UNCHANGED <<codes, browsers, inputs, adding, disk, tui>>

\* sweep_pairing_approvals, on the refresh tick.  The order of what it tells is
\* the table's.
SweepPairingApprovals ==
    /\ adding = None /\ Stale # {}
    /\ approvals' = [b \in Browser |-> IF b \in Stale THEN None ELSE approvals[b]]
    /\ decision' = [b \in Browser |-> IF b \in Stale /\ ~Closed(b) THEN "refused" ELSE decision[b]]
    /\ \E order \in [1..Cardinality(Stale) -> Stale]:
          /\ \A b \in Stale: \E i \in DOMAIN order: order[i] = b
          /\ toTui' = toTui \o [i \in DOMAIN order |-> Decided(order[i])]
    /\ UNCHANGED <<codes, browsers, inputs, adding, disk, prompt>>

-----------------------------------------------------------------------------
(* The trusted client and the command line *)

\* PairingApprovalRequired shows the newest; PairingDecision takes its own down.
TuiReads ==
    LET m == Head(toTui)
    IN  /\ toTui # <<>>
        /\ toTui' = Tail(toTui)
        /\ prompt' = IF m.type = "required" THEN m.browser
                     ELSE IF prompt = m.browser THEN None ELSE prompt
        /\ UNCHANGED <<codes, browsers, loop, disk>>

\* y or n at the prompt.
Answers(approve) ==
    /\ prompt # None
    /\ prompt' = None
    /\ inputs' = Append(inputs, Decide(prompt, approve))
    /\ UNCHANGED <<codes, browsers, approvals, adding, decision, disk, toTui>>

\* remove_device_file reads the file,
RevokeReads(name) ==
    /\ revoking = None /\ Cardinality(revoked) < MaxRevokes
    /\ name \in Names(file)
    /\ revoking' = [name |-> name, text |-> file]
    /\ UNCHANGED <<codes, browsers, loop, file, revoked, tui>>

\* ... and replaces it.
RevokeWrites ==
    LET gone == {d \in revoking.text: d.name = revoking.name}
    IN  /\ revoking # None
        /\ file' = revoking.text \ gone
        /\ revoked' = revoked \cup {d.owner: d \in gone}
        /\ revoking' = None
        /\ UNCHANGED <<codes, browsers, loop, tui>>

-----------------------------------------------------------------------------
Pair(b) ==
    \/ \E code \in 0..issued: Submit(b, code, Via[b])
    \/ PairRefuses(b) \/ PairMatches(b) \/ PairAsks(b)
    \/ ApprovalLate(b) \/ PairAnswers(b) \/ AnswerArrives(b) \/ BrowserLeaves(b)

Bridge == SendPublication \/ RegisterCode \/ IndexExpires \/ ConnectorReconnects

Loop ==
    \/ IssuePairingCode \/ TakeRequested \/ DecideAgainst \/ DecideFor \/ AddDeviceFile
    \/ SweepPairingApprovals

Next ==
    \/ CodeExpires
    \/ Bridge
    \/ Loop
    \/ \E b \in Browser: Pair(b)
    \/ TuiReads \/ \E approve \in BOOLEAN: Answers(approve)
    \/ RevokeWrites \/ \E name \in Name: RevokeReads(name)

Spec == Init /\ [][Next]_vars

-----------------------------------------------------------------------------
(* Properties *)

\* pair: a code opens one approval, however many browsers enter it at once.
CodeOpensOne ==
    \A a, b \in Browser: request[a].opened # None /\ request[a].opened = request[b].opened => a = b

\* "A device name must remain unique because it is the human-facing revocation
\* identity": requests that were given one name while none was recorded do not
\* both get it.
NamesUnique == \A d, e \in file: d.name = e.name => d = e

\* A prompt on screen is about an approval still waiting, or the word that it is
\* over is on its way: the sweep, a late answer and a full table included.
PromptIsCurrent ==
    prompt # None =>
        \/ approvals[prompt] # None
        \/ adding # None /\ adding.browser = prompt
        \/ Decided(prompt) \in {toTui[i]: i \in 1..Len(toTui)}

\* register_code and the connector: once what was published has arrived, the
\* bridge has that code or none, across reconnections and codes that are spent
\* or replaced faster than they are sent.
IndexFollows == ~changed /\ wire = <<>> => indexed \in {published, None}

\* A code opens one approval however many enter it at once, no two devices have one name, a
\* prompt shown is one that still waits, and the bridge keeps no code that is not published
\* (pair, add_device, sweep_pairing_approvals, register_code).
PairedOnce == CodeOpensOne /\ NamesUnique /\ PromptIsCurrent /\ IndexFollows

-----------------------------------------------------------------------------
(* Statements of the repository that the code does not keep: TLC finds a    *)
(* counterexample to each, which README.md describes.                       *)

\* "rejection, timeout, or loss of the browser creates no credential".
NoCredentialForTheGone ==
    [][\A d \in file' \ file: there[d.owner] /\ request[d.owner].phase = "waiting"]_vars

\* remove_device_file: "What it holds stops working immediately, because the
\* daemon has nothing left to compare it against."
RevokedStaysRevoked == \A d \in file: d.owner \notin revoked

\* "the daemon publishes that code over its authenticated connector for at most
\* five minutes": an outstanding code is what the connector was given.
OutstandingIsPublished ==
    pending # None /\ ~pending.expired /\ (\A b \in Browser: request[b].phase # "matched") =>
        published = pending.code

\* ... and, once it was sent, what the bridge forwards by.
PublishedIsForwarded ==
    pending # None /\ ~pending.expired /\ published = pending.code /\ ~changed /\ wire = <<>> =>
        indexed = pending.code

\* unique_device_name: "So the daemon settles it"; an approved device is never
\* refused over its name.
NameIsSettled ==
    [][adding # None /\ adding' = None => \E d \in file': d.owner = adding.browser]_vars

=============================================================================
