------------------------------ MODULE PushWake ------------------------------
(***************************************************************************)
(* Waking paired devices whose browser is closed: the file of push         *)
(* subscriptions, which every operation reads, edits and replaces without  *)
(* a lock, the sweeps that wake every device in it, and the key of this    *)
(* installation, which a subscription is bound to and which is generated   *)
(* only when there is none.                                                *)
(***************************************************************************)
EXTENDS Naturals, Sequences, FiniteSets, SequencesExt

CONSTANTS
    Devices,
    None,
    MaxSubscriptions,   \* MAX_PUSH_SUBSCRIPTIONS
    MaxTurns,           \* named bound: subscriptions, keys made, faults and restarts
    MaxSweeps           \* named bound: sweeps under way

VARIABLES
    file,       \* push-subscriptions.json: a sequence of [device, endpoint, key], oldest first
    key,        \* push-vapid.json: the key it holds, 0 while there is no file
    readable,   \* it can be read
    daemon,     \* the key the daemon runs with, 0 when it could not be loaded
    made,       \* keys made so far
    given,      \* per device: the key its page was given, vapidPublicKey, 0 before
    endpoint,   \* per device: its browser's current endpoint, 0 while it has none
    requests,   \* subscribe and unsubscribe being handled: [device, op, endpoint, key, read]
    sweeps,     \* sweeps: per slot, what is left to wake, and one being removed
    paired,     \* the devices of the device file
    woken,      \* the last wake: [device, endpoint, key, signed, paired] (history)
    turns
vars == <<file, key, readable, daemon, made, given, endpoint, requests, sweeps, paired, woken, turns>>

Turn == turns < MaxTurns /\ turns' = turns + 1
Idle == [left |-> <<>>, gone |-> None, read |-> None]
NotWoken == [device |-> None, key |-> 0, signed |-> 0, paired |-> TRUE]

Init ==
    /\ file = <<>> /\ key = 0 /\ readable = TRUE /\ daemon = 0 /\ made = 0
    /\ given = [d \in Devices |-> 0] /\ endpoint = [d \in Devices |-> 0]
    /\ requests = {} /\ sweeps = [i \in 1 .. MaxSweeps |-> Idle]
    /\ paired = Devices /\ woken = NotWoken /\ turns = 0

-----------------------------------------------------------------------------
(* PushSubscriptionStore *)

Without(subs, d) == SelectSeq(subs, LAMBDA s : s.device # d)

\* set, with enforce_cap: the one subscribed longest ago is forgotten.
Set(subs, s) ==
    LET all == Append(Without(subs, s.device), s)
    IN  SubSeq(all, IF Len(all) > MaxSubscriptions THEN 2 ELSE 1, Len(all))

\* The text a request writes for the text it read.
Edited(subs, r) ==
    IF r.op = "subscribe" THEN Set(subs, [device |-> r.device, endpoint |-> r.endpoint, key |-> r.key])
    ELSE Without(subs, r.device)

-----------------------------------------------------------------------------
(* VapidKeys *)

\* Mutant of LoadOrGenerate: a file that cannot be read is made anew.
RegenerateUnreadable ==
    IF key = 0 \/ ~readable
    THEN key' = made + 1 /\ made' = made + 1 /\ daemon' = made + 1
    ELSE daemon' = key /\ UNCHANGED <<key, made>>

\* load_or_generate: only where there is no file, and then before it is used.
LoadOrGenerate ==
    IF key = 0
    THEN key' = made + 1 /\ made' = made + 1 /\ daemon' = made + 1
    ELSE daemon' = (IF readable THEN key ELSE 0) /\ UNCHANGED <<key, made>>

\* The daemon starts; it ends with every request and sweep.
Start ==
    /\ Turn
    /\ LoadOrGenerate
    /\ requests' = {} /\ sweeps' = [i \in 1 .. MaxSweeps |-> Idle]
    /\ UNCHANGED <<file, readable, given, endpoint, paired, woken>>

\* The disk hands the key out damaged, and whole again once it is repaired.
KeyFails ==
    /\ Turn /\ key # 0
    /\ readable' = ~readable
    /\ UNCHANGED <<file, key, daemon, made, given, endpoint, requests, sweeps, paired, woken>>

-----------------------------------------------------------------------------
(* The page and the listener *)

\* togglePush: the browser makes a subscription for the key the page was given once,
\* or hands out the one it still has; the page posts it.
Subscribe(d) ==
    LET k == IF given[d] = 0 THEN daemon ELSE given[d]
        e == IF endpoint[d] = 0 THEN turns + 1 ELSE endpoint[d]
    IN  /\ Turn /\ d \in paired /\ k # 0
        /\ \A r \in requests : r.device # d
        /\ given' = [given EXCEPT ![d] = k] /\ endpoint' = [endpoint EXCEPT ![d] = e]
        /\ requests' = requests \cup {[device |-> d, op |-> "subscribe", endpoint |-> e, key |-> k, read |-> None]}
        /\ UNCHANGED <<file, key, readable, daemon, made, sweeps, paired, woken>>

\* togglePush: the daemon's record is withdrawn whether or not the browser's could be.
Unsubscribe(d) ==
    /\ Turn /\ d \in paired /\ endpoint[d] # 0
    /\ \A r \in requests : r.device # d
    /\ endpoint' \in {endpoint, [endpoint EXCEPT ![d] = 0]}
    /\ requests' = requests \cup {[device |-> d, op |-> "unsubscribe", endpoint |-> 0, key |-> 0, read |-> None]}
    /\ UNCHANGED <<file, key, readable, daemon, made, given, sweeps, paired, woken>>

\* The browser's permission is withdrawn, which no page is told.
Expires(d) ==
    /\ Turn /\ endpoint[d] # 0 /\ endpoint' = [endpoint EXCEPT ![d] = 0]
    /\ UNCHANGED <<file, key, readable, daemon, made, given, requests, sweeps, paired, woken>>

\* The handler's read of the file, and its replacement.
HandlerReads(r) ==
    /\ r \in requests /\ r.read = None
    /\ requests' = (requests \ {r}) \cup {[r EXCEPT !.read = file]}
    /\ UNCHANGED <<file, key, readable, daemon, made, given, endpoint, sweeps, paired, woken, turns>>

HandlerWrites(r) ==
    /\ r \in requests /\ r.read # None
    /\ file' = Edited(r.read, r)
    /\ requests' = requests \ {r}
    /\ UNCHANGED <<key, readable, daemon, made, given, endpoint, sweeps, paired, woken, turns>>

\* The file cannot be read or replaced: a page that subscribed gives its subscription up.
HandlerFails(r) ==
    /\ r \in requests /\ requests' = requests \ {r}
    /\ endpoint' \in {endpoint} \cup (IF r.op = "subscribe" THEN {[endpoint EXCEPT ![r.device] = 0]} ELSE {})
    /\ UNCHANGED <<file, key, readable, daemon, made, given, sweeps, paired, woken, turns>>

\* `super-herdr devices revoke`: remove_device_file, and nothing else.
Revoke(d) ==
    /\ Turn /\ d \in paired
    /\ paired' = paired \ {d}
    /\ UNCHANGED <<file, key, readable, daemon, made, given, endpoint, requests, sweeps, woken>>

-----------------------------------------------------------------------------
(* spawn_push_sweep *)

\* device_alerts: every alert begins a sweep over what the file holds then.
BeginSweep(i) ==
    /\ daemon # 0 /\ file # <<>>
    /\ sweeps[i] = Idle
    /\ sweeps' = [sweeps EXCEPT ![i].left = file]
    /\ UNCHANGED <<file, key, readable, daemon, made, given, endpoint, requests, paired, woken, turns>>

\* wake: signed with the daemon's key; a push service that knows the endpoint
\* no more says so, any other failure is passed over.
Wake(i) ==
    LET s == Head(sweeps[i].left)
    IN  /\ sweeps[i].left # <<>> /\ sweeps[i].gone = None
        /\ woken' = [device |-> s.device, key |-> s.key, signed |-> daemon, paired |-> s.device \in paired]
        /\ sweeps' = [sweeps EXCEPT ![i] = [left |-> Tail(@.left), read |-> None,
                          gone |-> IF endpoint[s.device] # s.endpoint THEN s.device ELSE None]]
        /\ UNCHANGED <<file, key, readable, daemon, made, given, endpoint, requests, paired, turns>>

\* PushSubscriptionStore::remove after a wake that found it gone.
SweepReads(i) ==
    /\ sweeps[i].gone # None /\ sweeps[i].read = None
    /\ sweeps' = [sweeps EXCEPT ![i].read = file]
    /\ UNCHANGED <<file, key, readable, daemon, made, given, endpoint, requests, paired, woken, turns>>

SweepWrites(i) ==
    /\ sweeps[i].read # None
    /\ file' = IF Without(sweeps[i].read, sweeps[i].gone) = sweeps[i].read THEN file
               ELSE Without(sweeps[i].read, sweeps[i].gone)
    /\ sweeps' = [sweeps EXCEPT ![i].gone = None, ![i].read = None]
    /\ UNCHANGED <<key, readable, daemon, made, given, endpoint, requests, paired, woken, turns>>

Next ==
    \/ Start \/ KeyFails
    \/ \E d \in Devices : Subscribe(d) \/ Unsubscribe(d) \/ Expires(d) \/ Revoke(d)
    \/ \E r \in requests : HandlerReads(r) \/ HandlerWrites(r) \/ HandlerFails(r)
    \/ \E i \in 1 .. MaxSweeps : BeginSweep(i) \/ Wake(i) \/ SweepReads(i) \/ SweepWrites(i)

Spec == Init /\ [][Next]_vars

-----------------------------------------------------------------------------
\* "It must survive every restart unchanged": through restarts, a key that
\* cannot be read for a while and every order of subscribing, a device is
\* woken with the key it subscribed with, and held once at most.
SignedAsSubscribed ==
    /\ woken # NotWoken => woken.signed = woken.key
    /\ \A i, j \in DOMAIN file : file[i].device = file[j].device => i = j
    /\ Len(file) <= MaxSubscriptions

-----------------------------------------------------------------------------
(* Statements of the repository that the code does not keep *)

\* "a revoked device's subscription stops mattering the moment something next
\* reads this file, not at the next restart" (push.rs, PushSubscriptionStore).
RevokedIsNotWoken == woken.paired

\* "Whether sending to this subscription failed in a way that means the push
\* service will never accept it again, so it should be forgotten" (push.rs,
\* PushOutcome): a sweep forgets no subscription a browser holds.
OnlyGoneIsForgotten ==
    [][\A i \in 1 .. MaxSweeps : sweeps[i].read # None /\ sweeps'[i].read = None /\ sweeps'[i].left = sweeps[i].left =>
           \A s \in ToSet(file) \ ToSet(file') : endpoint[s.device] # s.endpoint]_vars
=============================================================================
