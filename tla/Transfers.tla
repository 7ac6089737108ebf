----------------------------- MODULE Transfers -----------------------------
(***************************************************************************)
(* Uploads that may stop and be resumed (src/daemon/server.rs: begin_relay, *)
(* resume_relay, relay, relay_finished and the retained transfers;         *)
(* src/clipboard.rs: upload_stream and the host's staging scripts).        *)
(*                                                                         *)
(* Three parties act: the event loop, which issues tokens and decides what *)
(* is kept; one task per attempt, which carries bytes to the host and      *)
(* reports through the loop's input queue; and the sender, which goes on   *)
(* from the offset it is told and may stop, withdraw or attest at any      *)
(* point.  A byte is recorded as the version of the sender's file it was   *)
(* read from and its place in that file, so a digest is the file itself.   *)
(* That a sender holds the pane's lease is Broker.tla's HoldsControl.      *)
(***************************************************************************)
EXTENDS Integers, Sequences, FiniteSets

CONSTANTS Token,        \* transfer tokens; one is issued once
          Versions,     \* Versions[t]: what t's file may hold at each attempt
          Length,       \* the length every transfer declares
          MaxRetained,  \* MAX_RETAINED_TRANSFERS
          MaxPaths,     \* bound: staging directories made on the host
          None

ASSUME TransferConstants ==
    /\ DOMAIN Versions = Token
    /\ Length \in Nat \ {0}
    /\ MaxRetained \in Nat \ {0}
    /\ MaxPaths \in Nat

Path == 1..MaxPaths
Version == UNION {Versions[t] : t \in Token}
Whole(version) == [i \in 1..Length |-> <<version, i>>]

\* RelayItem and Trailer, as the decision the sender's queue ends with.
Decision == {"sending", "gone", "cancel", "finish", "overrun"}

\* What the loop retains of a transfer, what a task keeps of its attempt, and
\* what lies at a path.
Record == [path : Path \cup {None}, inFlight : BOOLEAN]
Attempt == [path : Path \cup {None}, version : Version, next : 1..(Length + 1) \cup {None},
            decision : Decision \cup {"asking"}]
File == Seq(Version \X (1..Length))

\* None stands for every absent value, so it is none of the present ones.
ASSUME NoneIsAbsent ==
    None \notin Nat /\ None \notin Record /\ None \notin Attempt /\ None \notin File

VARIABLES
    running,     \* the daemon runs
    configured,  \* the target is in the daemon's configuration
    issued,      \* tokens handed out
    retained,    \* retained[t]: the Retained record, or None
    expiry,      \* pairs of retained tokens, the first the earlier by expires_at
    attempt,     \* attempt[t]: the task carrying t, or None
    inbox,       \* inbox[t]: the inputs t's tasks have sent the loop
    host,        \* host[p]: the bytes staged at path p, or None
    made,        \* staging paths ever made
    discarding,  \* paths a detached task is about to remove
    delivered    \* paths reported to a sender as complete

vars == <<running, configured, issued, retained, expiry, attempt, inbox,
          host, made, discarding, delivered>>

Relay(path, version, next) ==
    [path |-> path, version |-> version, next |-> next, decision |-> "sending"]

InFlight(t) == retained[t] # None /\ retained[t].inFlight
Retained == {t \in Token : retained[t] # None}

Init ==
    /\ running = TRUE
    /\ configured = TRUE
    /\ issued = {}
    /\ retained = [t \in Token |-> None]
    /\ expiry = {}
    /\ attempt = [t \in Token |-> None]
    /\ inbox = [t \in Token |-> <<>>]
    /\ host = [p \in Path |-> None]
    /\ made = 0
    /\ discarding = {}
    /\ delivered = {}

-----------------------------------------------------------------------------
(* What is kept, and for how long *)

\* The retained transfers whose expiry a clock has passed: with each one all
\* that expire before it.
Lapsed == {L \in SUBSET Retained : \A pair \in expiry : pair[2] \in L => pair[1] \in L}

\* sweep_retained, with the clock past the expiry of the transfers in lapsed.
Expired(lapsed) == {t \in lapsed : ~InFlight(t)}

\* evict_retained, once the tokens in gone have been forgotten: the oldest
\* idle ones go until a new transfer fits, or until only carried ones are left.
Evicted(gone) ==
    LET left   == Retained \ gone
        idle   == {t \in left : ~InFlight(t)}
        older(t) == {u \in idle : <<u, t>> \in expiry}
        excess == Cardinality(left) - MaxRetained + 1
    IN  {t \in idle : Cardinality(older(t)) < excess}

\* The order without the tokens in gone, and with t put last in it.
Kept(gone) == {pair \in expiry : pair[1] \notin gone /\ pair[2] \notin gone}
KeptThen(gone, t) == Kept(gone) \cup ((Retained \ gone) \X {t})

\* What forget_retained asks of the host: nothing when the target is no
\* longer configured.
ToDiscard(gone) ==
    IF configured
    THEN {retained[t].path : t \in {u \in gone : retained[u].path # None}}
    ELSE {}

-----------------------------------------------------------------------------
(* The event loop *)

\* begin_relay: a fresh token, the sweep and the eviction, and a task that
\* stages into a directory of its own.
BeginUpload(t, version, lapsed) ==
    LET swept == Expired(lapsed)
        gone  == swept \cup Evicted(swept)
    IN  /\ running /\ configured
        /\ t \notin issued
        /\ issued' = issued \cup {t}
        /\ retained' = [u \in Token |->
                          IF u = t THEN [path |-> None, inFlight |-> TRUE]
                          ELSE IF u \in gone THEN None ELSE retained[u]]
        /\ expiry' = KeptThen(gone, t)
        /\ discarding' = discarding \cup ToDiscard(gone)
        /\ attempt' = [attempt EXCEPT ![t] = Relay(None, version, 1)]
        /\ UNCHANGED <<running, configured, inbox, host, made, delivered>>

\* resume_relay: a retained transfer nobody is carrying goes on.  Anything
\* else is refused, as is everything while the target is not configured; the
\* sweep it begins with has happened by then.
ResumeUpload(t, version, lapsed) ==
    LET gone    == Expired(lapsed)
        resumes == retained[t] # None /\ t \notin gone /\ ~InFlight(t) /\ configured
    IN  /\ running
        /\ t \in issued
        /\ retained' = [u \in Token |->
                          IF u \in gone THEN None
                          ELSE IF u = t /\ resumes THEN [retained[t] EXCEPT !.inFlight = TRUE]
                          ELSE retained[u]]
        /\ attempt' = IF resumes
                      THEN [attempt EXCEPT ![t] =
                              [Relay(retained[t].path, version, None) EXCEPT !.decision = "asking"]]
                      ELSE attempt
        /\ expiry' = Kept(gone)
        /\ discarding' = discarding \cup ToDiscard(gone)
        /\ UNCHANGED <<running, configured, issued, inbox, host, made, delivered>>

\* Mutant of RefreshDue: the tick leaves sweeping to the next transfer.
RefreshDueUnswept(lapsed) ==
    /\ running
    /\ UNCHANGED vars

\* Input::RefreshDue: the tick that gives a host back what nobody came for.
RefreshDue(lapsed) ==
    LET gone == Expired(lapsed)
    IN  /\ running
        /\ retained' = [t \in Token |-> IF t \in gone THEN None ELSE retained[t]]
        /\ expiry' = Kept(gone)
        /\ discarding' = discarding \cup ToDiscard(gone)
        /\ UNCHANGED <<running, configured, issued, attempt, inbox, host, made, delivered>>

\* Input::ResumeOffset: the sender is told where the next byte belongs.
ResumeOffset(t) ==
    /\ running
    /\ inbox[t] # <<>> /\ Head(inbox[t]).type = "offset"
    /\ inbox' = [inbox EXCEPT ![t] = Tail(@)]
    /\ attempt' = [attempt EXCEPT ![t] =
                     IF @ = None THEN None ELSE [@ EXCEPT !.next = Head(inbox[t]).staged + 1]]
    /\ UNCHANGED <<running, configured, issued, retained, expiry, host, made,
                   discarding, delivered>>

\* Mutant of RelayFinished: an interrupted transfer stays marked as carried.
RelayFinishedStillCarried(t) ==
    LET done == Head(inbox[t])
        kept == done.type = "interrupted"
    IN  /\ running
        /\ inbox[t] # <<>> /\ done.type # "offset"
        /\ inbox' = [inbox EXCEPT ![t] = Tail(@)]
        /\ retained' = [retained EXCEPT ![t] =
                          IF kept /\ @ # None THEN [@ EXCEPT !.path = done.path] ELSE None]
        /\ expiry' = IF kept /\ retained[t] # None THEN KeptThen({t}, t) ELSE Kept({t})
        /\ UNCHANGED <<running, configured, issued, attempt, host, made, discarding, delivered>>

\* relay_finished: an interruption is kept, anything else is over.
RelayFinished(t) ==
    LET done == Head(inbox[t])
        kept == done.type = "interrupted"
    IN  /\ running
        /\ inbox[t] # <<>> /\ done.type # "offset"
        /\ inbox' = [inbox EXCEPT ![t] = Tail(@)]
        /\ retained' = [retained EXCEPT ![t] =
                          IF kept /\ @ # None THEN [path |-> done.path, inFlight |-> FALSE]
                          ELSE None]
        /\ expiry' = IF kept /\ retained[t] # None THEN KeptThen({t}, t) ELSE Kept({t})
        /\ delivered' = IF done.type = "done" THEN delivered \cup {done.path} ELSE delivered
        /\ UNCHANGED <<running, configured, issued, attempt, host, made, discarding>>

\* Input::Reconfigured, as far as transfers see it.
Reconfigured ==
    /\ running
    /\ configured' = ~configured
    /\ UNCHANGED <<running, issued, retained, expiry, attempt, inbox, host, made,
                   discarding, delivered>>

\* discard_retained: a stopping daemon gives back every path it can name.
\* The tasks still running, and what they had to say, end with the process.
Shutdown ==
    LET paths == IF configured
                 THEN {retained[t].path : t \in {u \in Token : retained[u] # None}}
                 ELSE {}
    IN  /\ running
        /\ running' = FALSE
        /\ host' = [p \in Path |-> IF p \in paths THEN None ELSE host[p]]
        /\ retained' = [t \in Token |-> None]
        /\ expiry' = {}
        /\ attempt' = [t \in Token |-> None]
        /\ inbox' = [t \in Token |-> <<>>]
        /\ discarding' = {}
        /\ UNCHANGED <<configured, issued, made, delivered>>

-----------------------------------------------------------------------------
(* The sender *)

\* The sender stops: its connection ends, it withdraws, it attests to what
\* it sent, or it sends more than it declared.
SenderDecides(t, decision) ==
    /\ attempt[t] # None /\ attempt[t].decision = "sending"
    /\ decision \in Decision \ {"sending"}
    /\ decision = "overrun" => attempt[t].next # None /\ attempt[t].next > Length
    /\ attempt' = [attempt EXCEPT ![t].decision = decision]
    /\ UNCHANGED <<running, configured, issued, retained, expiry, inbox, host, made,
                   discarding, delivered>>

-----------------------------------------------------------------------------
(* One attempt: the task and the host *)

Report(t, input) == inbox' = [inbox EXCEPT ![t] = Append(@, input)]

\* Mutant of AskHost: a fresh start answers with the offset it once had.
AskHostRemembered(t) ==
    LET old == attempt[t].path
        offset(n) == Report(t, [type |-> "offset", staged |-> n])
    IN  /\ attempt[t] # None /\ attempt[t].decision = "asking"
        /\ \/ /\ host[old] # None /\ Len(host[old]) > 0
              /\ attempt' = [attempt EXCEPT ![t].decision = "sending"]
              /\ offset(Len(host[old]))
              /\ UNCHANGED host
           \/ /\ attempt' = [attempt EXCEPT ![t].decision = "sending", ![t].path = None]
              /\ offset(IF host[old] = None THEN 0 ELSE Len(host[old]))
              /\ host' = [host EXCEPT ![old] = None]
        /\ UNCHANGED <<running, configured, issued, retained, expiry, made,
                       discarding, delivered>>

\* The head of a resumed task: staged_bytes asks the host how much it holds.
\* No answer and nothing there are the same: what may be left is discarded and
\* the transfer starts again.
AskHost(t) ==
    LET old == attempt[t].path
        offset(n) == Report(t, [type |-> "offset", staged |-> n])
    IN  /\ attempt[t] # None /\ attempt[t].decision = "asking"
        /\ \/ /\ host[old] # None /\ Len(host[old]) > 0
              /\ attempt' = [attempt EXCEPT ![t].decision = "sending"]
              /\ offset(Len(host[old]))
              /\ UNCHANGED host
           \/ /\ attempt' = [attempt EXCEPT ![t].decision = "sending", ![t].path = None]
              /\ offset(0)
              /\ host' = [host EXCEPT ![old] = None]
        /\ UNCHANGED <<running, configured, issued, retained, expiry, made,
                       discarding, delivered>>

\* The staging script of a fresh transfer makes its private directory.
Stage(t) ==
    /\ attempt[t] # None /\ attempt[t].decision # "asking"
    /\ attempt[t].path = None
    /\ made < MaxPaths
    /\ made' = made + 1
    /\ host' = [host EXCEPT ![made + 1] = <<>>]
    /\ attempt' = [attempt EXCEPT ![t].path = made + 1]
    /\ UNCHANGED <<running, configured, issued, retained, expiry, inbox, discarding, delivered>>

\* remote_attempt and local_attempt: a byte the sender sent is appended, never
\* more of them than were outstanding.
CarryByte(t) ==
    /\ attempt[t] # None /\ attempt[t].decision = "sending"
    /\ attempt[t].path # None /\ attempt[t].next # None
    /\ attempt[t].next <= Length
    /\ host[attempt[t].path] # None
    /\ Len(host[attempt[t].path]) < Length
    /\ host' = [host EXCEPT ![attempt[t].path] =
                  Append(@, <<attempt[t].version, attempt[t].next>>)]
    /\ attempt' = [attempt EXCEPT ![t].next = @ + 1]
    /\ UNCHANGED <<running, configured, issued, retained, expiry, inbox, made,
                   discarding, delivered>>

\* Mutant of Verdict: every declared byte arrived, so the transfer is done.
VerdictUnverified(file, relay) ==
    IF Len(file) < Length
    THEN CASE relay.decision = "cancel" -> "withdrawn"
           [] relay.decision = "finish" -> "refused"
           [] relay.decision = "gone"   -> "interrupted"
    ELSE CASE relay.decision = "finish"  -> "done"
           [] relay.decision = "overrun" -> "refused"
           [] relay.decision = "cancel"  -> "withdrawn"
           [] relay.decision \in {"gone", "sending"} -> "interrupted"

\* relay, once the host gave its receipt (finish_attempt): what was promised
\* about the bytes that arrived.  A sender that says nothing after the last
\* byte is waited for no longer than TRAILER_TIMEOUT.
Verdict(file, relay) ==
    IF Len(file) < Length
    THEN CASE relay.decision = "cancel" -> "withdrawn"
           [] relay.decision = "finish" -> "refused"
           [] relay.decision = "gone"   -> "interrupted"
    ELSE CASE relay.decision = "finish"  -> IF file = Whole(relay.version)
                                            THEN "done" ELSE "refused"
           [] relay.decision = "overrun" -> "refused"
           [] relay.decision = "cancel"  -> "withdrawn"
           [] relay.decision \in {"gone", "sending"} -> "interrupted"

\* relay ends with a receipt.  A transfer that is refused or withdrawn takes
\* its bytes with it before it reports.
RelayEnds(t) ==
    LET relay   == attempt[t]
        verdict == Verdict(host[relay.path], relay)
    IN  /\ relay # None /\ relay.path # None
        /\ relay.decision # "asking"
        /\ host[relay.path] # None
        /\ relay.decision = "sending" => Len(host[relay.path]) = Length
        /\ Report(t, [type |-> verdict, path |-> relay.path])
        /\ host' = IF verdict \in {"refused", "withdrawn"}
                   THEN [host EXCEPT ![relay.path] = None] ELSE host
        /\ attempt' = [attempt EXCEPT ![t] = None]
        /\ UNCHANGED <<running, configured, issued, retained, expiry, made,
                       discarding, delivered>>

\* relay ends without one: SSH failed, or the staged file is gone.  Nothing
\* is removed, and the sender is refused unless it withdrew.
RelayFails(t) ==
    /\ attempt[t] # None /\ attempt[t].decision # "asking"
    /\ Report(t, [type |-> IF attempt[t].decision = "cancel" THEN "withdrawn" ELSE "refused",
                  path |-> attempt[t].path])
    /\ attempt' = [attempt EXCEPT ![t] = None]
    /\ UNCHANGED <<running, configured, issued, retained, expiry, host, made,
                   discarding, delivered>>

\* discard_upload in the task forget_retained spawned.
DiscardUpload(p) ==
    /\ p \in discarding
    /\ discarding' = discarding \ {p}
    /\ host' = [host EXCEPT ![p] = None]
    /\ UNCHANGED <<running, configured, issued, retained, expiry, attempt, inbox,
                   made, delivered>>

\* A host may clear its temporary directory between two attempts.
HostForgets(t) ==
    /\ retained[t] # None /\ ~retained[t].inFlight
    /\ host[retained[t].path] # None
    /\ host' = [host EXCEPT ![retained[t].path] = None]
    /\ UNCHANGED <<running, configured, issued, retained, expiry, attempt, inbox,
                   made, discarding, delivered>>

-----------------------------------------------------------------------------
Next ==
    \/ \E lapsed \in Lapsed :
          \/ RefreshDue(lapsed)
          \/ \E t \in Token : \E version \in Versions[t] :
                BeginUpload(t, version, lapsed) \/ ResumeUpload(t, version, lapsed)
    \/ \E t \in Token :
          \/ ResumeOffset(t) \/ RelayFinished(t)
          \/ \E decision \in Decision : SenderDecides(t, decision)
          \/ AskHost(t) \/ Stage(t) \/ CarryByte(t) \/ RelayEnds(t) \/ RelayFails(t)
          \/ HostForgets(t)
    \/ \E p \in Path : DiscardUpload(p)
    \/ Reconfigured \/ Shutdown

Spec == Init /\ [][Next]_vars

\* The tick that finds t waiting and its expiry passed.
Expires(t) ==
    /\ t \in Retained /\ ~InFlight(t)
    /\ \E lapsed \in Lapsed : t \in lapsed /\ RefreshDue(lapsed)

\* The refresh tick recurs, and for a transfer that stays where it is its own
\* expiry passes sooner or later.
FairSpec ==
    /\ Spec
    /\ \A t \in Token : WF_vars(Expires(t))

-----------------------------------------------------------------------------
(* Properties *)

\* Every variable has its type; the expiry order is one of retained transfers.
TypeOK ==
    /\ running \in BOOLEAN /\ configured \in BOOLEAN
    /\ issued \subseteq Token
    /\ retained \in [Token -> Record \cup {None}]
    /\ expiry \subseteq Retained \X Retained
    /\ attempt \in [Token -> Attempt \cup {None}]
    /\ host \in [Path -> File \cup {None}]
    /\ made \in 0..MaxPaths
    /\ discarding \subseteq Path /\ delivered \subseteq Path

\* A transfer is marked in flight exactly while one task carries it or that
\* task's outcome waits to be handled ("so two attempts cannot append to one
\* file at the same time"): it can neither be resumed twice nor stay marked
\* for good, and no two transfers write to one path.
SingleCarrier ==
    running =>
        /\ \A t \in Token :
              /\ InFlight(t) <=> (attempt[t] # None
                                  \/ \E i \in DOMAIN inbox[t] : inbox[t][i].type # "offset")
              /\ attempt[t] # None =>
                    \A i \in DOMAIN inbox[t] : inbox[t][i].type = "offset"
        /\ \A t, u \in Token :
              t # u /\ attempt[t] # None /\ attempt[t].path # None =>
                  /\ attempt[u] # None => attempt[t].path # attempt[u].path
                  /\ retained[u] # None => attempt[t].path # retained[u].path

\* A path that was reported complete holds one version of the file, whole, and
\* keeps it: no eviction, sweep, late discard or shutdown takes it back, and a
\* file that changed between attempts is never a mixture of two versions.
DeliveredStaysWhole ==
    \A p \in delivered : \E version \in Version : host[p] = Whole(version)

\* Where the next byte belongs is asked of the host: every byte on it lies at
\* its own offset, whatever attempts, lost files and restarts put it there.
BytesInPlace ==
    \A p \in Path : host[p] # None =>
        \A i \in DOMAIN host[p] : host[p][i][2] = i

\* What is carried arrives whole: one task at a time carries a transfer, every
\* byte lies where it belongs, and what was delivered stays (resume_relay,
\* relay_finished, sweep_retained).
CarriedWhole == SingleCarrier /\ BytesInPlace /\ DeliveredStaysWhole

\* An interrupted transfer is resumed or given up: nothing is kept for ever.
NothingKeptForever ==
    \A t \in Token : (retained[t] # None /\ ~retained[t].inFlight)
                         ~> (retained[t] = None \/ retained[t].inFlight)

-----------------------------------------------------------------------------
(* Statements of the repository that the code does not keep: TLC finds a    *)
(* counterexample to each, which README.md describes.                       *)

\* "How many interrupted transfers may be kept at once": the transfers whose
\* bytes wait on a host for a sender that stopped are at most MaxRetained.
RetentionIsBounded ==
    Cardinality({t \in Token : retained[t] # None /\ ~retained[t].inFlight}) <= MaxRetained

\* "Refused, with nothing left on the host": when an attempt that went on from
\* a path the daemon knew is refused, that path holds nothing.
RefusalLeavesNothing ==
    [][\A t \in Token : RelayFinished(t) /\ Head(inbox[t]).type = "refused"
                            /\ retained[t] # None /\ retained[t].path # None =>
           host[retained[t].path] = None]_vars
=============================================================================
