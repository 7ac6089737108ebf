-------------------------- MODULE TuiSessionProofs --------------------------
(***************************************************************************)
(* Theorems about the terminal frontend, whatever its size.                *)
(* TuiSession.tla, for any number of panes and targets: the bytes a pane   *)
(* is given were typed for it, and what the frontend believes of its       *)
(* leases is what the daemon grants once nothing is under way, however     *)
(* choices, snapshots, leases and closings cross. TargetManager.tla: the   *)
(* test a form was let through by is of the machine the form names.        *)
(* InputDecoder.tla: every byte is decoded once and a paste is what stood  *)
(* between its markers. TuiKeys.tla: of the overlays a person opens one at *)
(* most is open, its selection is on an entry, and the single-action guard *)
(* is held for an action under way.                                        *)
(***************************************************************************)
EXTENDS TuiSession, TargetManager, InputDecoder, TuiKeys, FiniteSetTheorems, SequenceTheorems, TLAPS

-----------------------------------------------------------------------------
(* The inductive invariant *)

\* A command that changes what the daemon grants of p.
Manages(c, p) == c.pane = p /\ c.op # "input"
Untouched(cmds, n, p) == \A j \in 1..n : ~Manages(cmds[j], p)

\* Once the daemon has taken the first n of cmds, what it granted of p (lease
\* is what it grants now), if anything, was asked for with this access.
Subscribes(cmds, i, n, p, access) ==
    /\ cmds[i].op = "subscribe" /\ cmds[i].pane = p /\ cmds[i].access = access
    /\ \A j \in (i + 1)..n : ~Manages(cmds[j], p)
AsksFor(cmds, n, lease, p, access) ==
    \/ \E i \in 1..n : Subscribes(cmds, i, n, p, access)
    \/ Untouched(cmds, n, p) /\ (lease # None => lease.requested = access)

\* The frontend believes, or will once it has taken what was sent, what the daemon
\* grants of p.
Silent(evs, p) == \A i \in 1..Len(evs) : evs[i].pane # p
LastNews(evs, i, p) == evs[i].pane = p /\ \A j \in (i + 1)..Len(evs) : evs[j].pane # p
Tells(e, lease) ==
    IF e.kind = "closed" THEN lease = None ELSE lease # None /\ lease.access = e.access
Believes(route, evs, lease, p) ==
    \/ Silent(evs, p) /\ lease # None /\ lease.access = route.access
    \/ \E i \in 1..Len(evs) : LastNews(evs, i, p) /\ Tells(evs[i], lease)

\* A route of the frontend: only the pane on screen as selected is asked for with
\* control, and with nothing asked the daemon's answer is known or on its way.
Stands(route, cmds, evs, lease, p) ==
    route # None =>
        /\ route.requested = "control" => p = shown
        /\ AsksFor(cmds, Len(cmds), lease, p, route.requested)
        /\ Untouched(cmds, Len(cmds), p) => Believes(route, evs, lease, p)
Standing == \A p \in Panes : Stands(routes[p], commands, events, leases[p], p)

\* Bytes on their way were typed for their pane, which was shown as selected or
\* will not be controlled when they arrive.
Typed(cmds, i, lease) ==
    cmds[i].op = "input" =>
        /\ cmds[i].meant = cmds[i].pane
        /\ cmds[i].shown = cmds[i].pane \/ AsksFor(cmds, i - 1, lease, cmds[i].pane, "observe")
TypedInTurn == \A i \in 1..Len(commands) : Typed(commands, i, leases[commands[i].pane])

\* Control is granted to who asked for it.
GrantedAsAsked ==
    \A p \in Panes : leases[p] # None /\ leases[p].access = "control" => leases[p].requested = "control"

\* What is selected was chosen, and a restored pane waits for nothing else to be.
Chosen == meant = selected /\ (restore # None => selected = None)

SessionInv == TypeOK /\ Chosen /\ GrantedAsAsked /\ Standing /\ TypedInTurn /\ AcceptedWasMeant

-----------------------------------------------------------------------------
(* Queues *)

LEMMA Taken ==
    ASSUME NEW S, NEW s \in Seq(S), s # <<>>
    PROVE  /\ Len(s) \in Nat \ {0} /\ Head(s) = s[1] /\ Head(s) \in S
           /\ Tail(s) \in Seq(S) /\ Len(Tail(s)) = Len(s) - 1
           /\ \A i \in 1..(Len(s) - 1) : Tail(s)[i] = s[i + 1]
OBVIOUS

LEMMA Added ==
    ASSUME NEW S, NEW s \in Seq(S), NEW e \in S
    PROVE  /\ Len(s) \in Nat /\ Append(s, e) \in Seq(S) /\ Len(Append(s, e)) = Len(s) + 1
           /\ \A i \in 1..Len(s) : Append(s, e)[i] = s[i]
           /\ Append(s, e)[Len(s) + 1] = e
OBVIOUS

LEMMA Joined ==
    ASSUME NEW S, NEW a \in Seq(S), NEW b \in Seq(S)
    PROVE  /\ Len(a) \in Nat /\ Len(b) \in Nat
           /\ a \o b \in Seq(S) /\ Len(a \o b) = Len(a) + Len(b)
           /\ \A i \in 1..Len(a) : (a \o b)[i] = a[i]
           /\ \A i \in 1..Len(b) : (a \o b)[Len(a) + i] = b[i]
OBVIOUS

\* A set put into a sequence: all of it, and nothing twice.
LEMMA InSomeOrder ==
    ASSUME NEW S, IsFiniteSet(S)
    PROVE  /\ SetToSeq(S) \in Seq(S)
           /\ \A x \in S : \E i \in 1..Len(SetToSeq(S)) : SetToSeq(S)[i] = x
           /\ \A i, j \in 1..Len(SetToSeq(S)) : SetToSeq(S)[i] = SetToSeq(S)[j] => i = j
<1> DEFINE n == Cardinality(S)
<1>1. n \in Nat /\ ExistsBijection(1..n, S)
  BY FS_CardinalityType
<1>2. \E f \in [1..n -> S] : IsInjective(f)
  BY <1>1 DEF ExistsBijection, Bijection, Injection
<1>3. PICK f : f = SetToSeq(S)
  OBVIOUS
<1>4. f \in [1..n -> S] /\ IsInjective(f)
  BY <1>2, <1>3 DEF SetToSeq
<1>5. Cardinality(1..n) = n
  BY <1>1, FS_Interval
<1>6. f \in Surjection(1..n, S)
  BY <1>4, <1>5, FS_Injection DEF Injection
<1>7. f \in Seq(S) /\ Len(f) = n
  BY <1>1, <1>4
<1> QED
  BY <1>3, <1>4, <1>6, <1>7 DEF Surjection, IsInjective

-----------------------------------------------------------------------------
(* What is asked for *)

\* Only the first n commands count.
LEMMA SameCommands ==
    ASSUME NEW n \in Nat, NEW a, NEW b, \A i \in 1..n : a[i] = b[i]
    PROVE  \A lease, p, access :
              /\ AsksFor(a, n, lease, p, access) => AsksFor(b, n, lease, p, access)
              /\ Untouched(b, n, p) => Untouched(a, n, p)
BY DEF AsksFor, Subscribes, Untouched

\* Commands about something else change nothing.
LEMMA MoreCommands ==
    ASSUME NEW n \in Nat, NEW m \in Nat, n <= m, NEW a, NEW p,
           \A j \in (n + 1)..m : ~Manages(a[j], p)
    PROVE  \A lease, access : AsksFor(a, n, lease, p, access) => AsksFor(a, m, lease, p, access)
<1> SUFFICES ASSUME NEW lease, NEW access, AsksFor(a, n, lease, p, access)
             PROVE  AsksFor(a, m, lease, p, access)
  OBVIOUS
<1>1. CASE Untouched(a, n, p) /\ (lease # None => lease.requested = access)
  BY <1>1 DEF AsksFor, Untouched
<1>2. ASSUME NEW i \in 1..n, Subscribes(a, i, n, p, access) PROVE AsksFor(a, m, lease, p, access)
  <2>1. Subscribes(a, i, m, p, access)
    BY <1>2 DEF Subscribes
  <2> QED
    BY <2>1 DEF AsksFor
<1> QED
  BY <1>1, <1>2 DEF AsksFor

\* What the daemon grants of p is withdrawn, or changes its access only.
Narrows(old, new) == new # None => old # None /\ new.requested = old.requested
LEMMA Narrowed ==
    ASSUME NEW old, NEW new, Narrows(old, new)
    PROVE  \A a, n, p, access : AsksFor(a, n, old, p, access) => AsksFor(a, n, new, p, access)
BY DEF AsksFor, Narrows

\* The daemon takes a command, the first of a, which leaves b.
Grants(c, old, new, p) ==
    /\ ~Manages(c, p) => Narrows(old, new)
    /\ Manages(c, p) /\ c.op = "subscribe" => (new # None => new.requested = c.access)
LEMMA TakenCommand ==
    ASSUME NEW n \in Nat \ {0}, NEW a, NEW b, \A i \in 1..(n - 1) : b[i] = a[i + 1],
           NEW old, NEW new, NEW p, Grants(a[1], old, new, p),
           NEW access, AsksFor(a, n, old, p, access)
    PROVE  AsksFor(b, n - 1, new, p, access)
<1>1. CASE Untouched(a, n, p) /\ (old # None => old.requested = access)
  <2>1. ~Manages(a[1], p) /\ \A j \in 1..(n - 1) : j + 1 \in 1..n /\ ~Manages(a[j + 1], p)
    BY <1>1 DEF Untouched
  <2> QED
    BY <1>1, <2>1 DEF AsksFor, Untouched, Grants, Narrows
<1>2. ASSUME NEW i \in 1..n, Subscribes(a, i, n, p, access) PROVE AsksFor(b, n - 1, new, p, access)
  <2>1. \A j \in 1..(n - 1) : j + 1 > i => j + 1 \in (i + 1)..n
    OBVIOUS
  <2>2. CASE i = 1
    <3>1. Untouched(b, n - 1, p)
      BY <1>2, <2>1, <2>2 DEF Subscribes, Untouched
    <3>2. new # None => new.requested = access
      BY <1>2, <2>2 DEF Subscribes, Grants, Manages
    <3> QED
      BY <3>1, <3>2 DEF AsksFor
  <2>3. CASE i # 1
    <3>1. i - 1 \in 1..(n - 1) /\ b[i - 1] = a[i]
      BY <2>3
    <3>2. ASSUME NEW j \in ((i - 1) + 1)..(n - 1) PROVE ~Manages(b[j], p)
      <4>1. j \in 1..(n - 1) /\ j + 1 \in (i + 1)..n
        OBVIOUS
      <4> QED
        BY <1>2, <4>1 DEF Subscribes
    <3> QED
      BY <1>2, <3>1, <3>2 DEF AsksFor, Subscribes
  <2> QED
    BY <2>2, <2>3
<1> QED
  BY <1>1, <1>2 DEF AsksFor

-----------------------------------------------------------------------------
(* What is believed *)

\* News of another pane.
LEMMA Overheard ==
    ASSUME NEW evs \in Seq(Event), NEW e \in Event, NEW p, e.pane # p,
           NEW route, NEW lease, Believes(route, evs, lease, p)
    PROVE  Believes(route, Append(evs, e), lease, p)
<1>1. /\ Len(evs) \in Nat /\ Len(Append(evs, e)) = Len(evs) + 1
      /\ \A i \in 1..Len(evs) : Append(evs, e)[i] = evs[i]
      /\ Append(evs, e)[Len(evs) + 1] = e
  BY Added
<1>2. \A i \in 1..Len(Append(evs, e)) : i \in 1..Len(evs) \/ i = Len(evs) + 1
  BY <1>1
<1>3. CASE Silent(evs, p) /\ lease # None /\ lease.access = route.access
  BY <1>1, <1>2, <1>3 DEF Believes, Silent
<1>4. ASSUME NEW i \in 1..Len(evs), LastNews(evs, i, p), Tells(evs[i], lease)
      PROVE  Believes(route, Append(evs, e), lease, p)
  <2>1. i \in 1..Len(Append(evs, e)) /\ Append(evs, e)[i] = evs[i]
    BY <1>1
  <2>2. LastNews(Append(evs, e), i, p)
    BY <1>1, <1>2, <1>4 DEF LastNews
  <2> QED
    BY <1>4, <2>1, <2>2 DEF Believes
<1> QED
  BY <1>3, <1>4 DEF Believes

\* News of p that is true.
LEMMA ToldNow ==
    ASSUME NEW evs \in Seq(Event), NEW e \in Event, NEW p, e.pane = p,
           NEW lease, Tells(e, lease), NEW route
    PROVE  Believes(route, Append(evs, e), lease, p)
<1>1. /\ Len(evs) \in Nat /\ Len(Append(evs, e)) = Len(evs) + 1
      /\ Append(evs, e)[Len(evs) + 1] = e
  BY Added
<1>2. LastNews(Append(evs, e), Len(evs) + 1, p)
  BY <1>1 DEF LastNews
<1> QED
  BY <1>1, <1>2 DEF Believes

\* The frontend takes what it was told.
LEMMA Heard ==
    ASSUME NEW evs \in Seq(Event), evs # <<>>, NEW p, NEW route, NEW lease,
           Believes(route, evs, lease, p), NEW new,
           IF Head(evs).pane = p THEN Head(evs).kind # "closed" /\ new.access = Head(evs).access
                                 ELSE new = route
    PROVE  Believes(new, Tail(evs), lease, p)
<1>1. /\ Len(evs) \in Nat \ {0} /\ Head(evs) = evs[1]
      /\ Tail(evs) \in Seq(Event) /\ Len(Tail(evs)) = Len(evs) - 1
      /\ \A i \in 1..(Len(evs) - 1) : Tail(evs)[i] = evs[i + 1]
  BY Taken
<1>2. CASE Silent(evs, p) /\ lease # None /\ lease.access = route.access
  <2>1. \A i \in 1..(Len(evs) - 1) : i + 1 \in 1..Len(evs)
    BY <1>1
  <2> QED
    BY <1>1, <1>2, <2>1 DEF Believes, Silent
<1>3. ASSUME NEW i \in 1..Len(evs), LastNews(evs, i, p), Tells(evs[i], lease)
      PROVE  Believes(new, Tail(evs), lease, p)
  <2>1. \A j \in 1..(Len(evs) - 1) : j + 1 > i => j + 1 \in (i + 1)..Len(evs)
    BY <1>1
  <2>2. CASE i = 1
    <3>1. Silent(Tail(evs), p)
      BY <1>1, <1>3, <2>1, <2>2 DEF Silent, LastNews
    <3>2. lease # None /\ lease.access = new.access
      BY <1>1, <1>3, <2>2 DEF LastNews, Tells
    <3> QED
      BY <3>1, <3>2 DEF Believes
  <2>3. CASE i # 1
    <3>1. i - 1 \in 1..Len(Tail(evs)) /\ Tail(evs)[i - 1] = evs[i]
      BY <1>1, <2>3
    <3>2. ASSUME NEW j \in ((i - 1) + 1)..Len(Tail(evs)) PROVE Tail(evs)[j].pane # p
      <4>1. j \in 1..(Len(evs) - 1) /\ j + 1 \in (i + 1)..Len(evs)
        BY <1>1, <3>1
      <4> QED
        BY <1>1, <1>3, <4>1 DEF LastNews
    <3>3. LastNews(Tail(evs), i - 1, p)
      BY <1>3, <3>1, <3>2 DEF LastNews
    <3> QED
      BY <1>3, <3>1, <3>3 DEF Believes
  <2> QED
    BY <2>2, <2>3
<1> QED
  BY <1>2, <1>3 DEF Believes

-----------------------------------------------------------------------------
(* Steps that touch neither routes nor channels *)

Carried == GrantedAsAsked /\ Standing /\ TypedInTurn /\ AcceptedWasMeant

LEMMA Undisturbed ==
    ASSUME Carried, UNCHANGED <<routes, shown, commands, events, leases, accepted>>
    PROVE  Carried'
BY DEF Carried, GrantedAsAsked, Standing, Stands, TypedInTurn, AcceptedWasMeant

LEMMA SessionInit == Init => SessionInv
<1> SUFFICES ASSUME Init PROVE SessionInv
  OBVIOUS
<1>1. focus \in [Targets -> Panes \cup {None}]
  <2>1. ASSUME NEW t \in Targets PROVE (CHOOSE p \in present : TargetOf[p] = t) \in Panes
    BY SessionAssumption DEF Init
  <2> QED
    BY <2>1 DEF Init
<1>2. TypeOK
  BY <1>1, SessionAssumption DEF Init, TypeOK
<1>3. Chosen /\ GrantedAsAsked /\ Standing /\ TypedInTurn /\ AcceptedWasMeant
  BY DEF Init, Chosen, GrantedAsAsked, Standing, Stands, TypedInTurn, AcceptedWasMeant
<1> QED
  BY <1>2, <1>3 DEF SessionInv

LEMMA NavigateHolds ==
    ASSUME TypeOK, Chosen, NEW p \in Panes, Navigate(p) PROVE TypeOK' /\ Chosen'
BY NoneAssumption DEF Navigate, TypeOK, Chosen, federation, daemon

LEMMA OperateHolds == ASSUME TypeOK, Chosen, Operate PROVE TypeOK' /\ Chosen'
BY SessionAssumption DEF Operate, TypeOK, Chosen, federation, choice, daemon

LEMMA OperationResultHolds == ASSUME TypeOK, Chosen, OperationResult PROVE TypeOK' /\ Chosen'
<1>1. followed' \in Followed \cup {None}
  <2>1. operation \in Targets /\ PanesOf(operation) \subseteq Panes
    BY DEF OperationResult, TypeOK, PanesOf
  <2>2. [session |-> operation, before |-> PanesOf(operation), expired |-> FALSE] \in Followed
    BY <2>1 DEF Followed
  <2> QED
    BY <2>2 DEF OperationResult, TypeOK
<1> QED
  BY <1>1 DEF OperationResult, TypeOK, Chosen, federation, daemon

LEMMA FollowExpiresHolds == ASSUME TypeOK, Chosen, FollowExpires PROVE TypeOK' /\ Chosen'
<1>1. followed' \in Followed
  BY DEF FollowExpires, TypeOK, Followed
<1> QED
  BY <1>1 DEF FollowExpires, TypeOK, Chosen, federation, daemon

LEMMA RetryDueHolds == ASSUME TypeOK, Chosen, RetryDue PROVE TypeOK' /\ Chosen'
BY DEF RetryDue, TypeOK, Chosen, federation, choice, daemon

LEMMA PublishHolds == ASSUME TypeOK, Chosen, Publish PROVE TypeOK' /\ Chosen'
<1>1. UNCHANGED <<choice, routes, retry, operation, shown, commands, events, daemon>> /\ dirty' = TRUE
  BY DEF Publish
<1>2. /\ up' \in [Targets -> BOOLEAN] /\ gen' \in [Targets -> Nat]
      /\ present' \subseteq Panes /\ focus' \in [Targets -> Panes \cup {None}]
  <2>1. ASSUME NEW t \in Targets, up' = [up EXCEPT ![t] = FALSE], UNCHANGED <<gen, present, focus>>
        PROVE  <1>2
    BY <2>1 DEF TypeOK
  <2>2. ASSUME NEW t \in Targets, up' = [up EXCEPT ![t] = TRUE], gen' = [gen EXCEPT ![t] = @ + 1],
               UNCHANGED <<present, focus>>
        PROVE  <1>2
    BY <2>2 DEF TypeOK
  <2>3. ASSUME NEW p \in Panes \ present, present' = present \cup {p},
               focus' = [focus EXCEPT ![TargetOf[p]] = p], UNCHANGED <<up, gen>>
        PROVE  <1>2
    BY <2>3 DEF TypeOK
  <2>4. ASSUME NEW p \in present, present' = present \ {p}, UNCHANGED <<up, gen>>,
               focus' = [focus EXCEPT ![TargetOf[p]] =
                             IF @ # p THEN @ ELSE IF PanesOf(TargetOf[p]) = {p} THEN None
                             ELSE CHOOSE q \in PanesOf(TargetOf[p]) : q # p]
        PROVE  <1>2
    <3>1. p \in PanesOf(TargetOf[p]) /\ PanesOf(TargetOf[p]) \subseteq Panes
      BY DEF TypeOK, PanesOf
    <3>2. PanesOf(TargetOf[p]) # {p} =>
              (CHOOSE q \in PanesOf(TargetOf[p]) : q # p) \in PanesOf(TargetOf[p])
      BY <3>1
    <3> QED
      BY <2>4, <3>1, <3>2 DEF TypeOK
  <2> QED
    BY <2>1, <2>2, <2>3, <2>4 DEF Publish
<1> QED
  BY <1>1, <1>2 DEF TypeOK, Chosen, choice, daemon

-----------------------------------------------------------------------------
(* Steps that drop routes *)

\* Nothing is left to believe.
LEMMA CycleNothingHolds == ASSUME SessionInv, CycleNothing PROVE SessionInv'
<1>1. TypeOK' /\ Chosen'
  BY DEF SessionInv, CycleNothing, TypeOK, Chosen, federation, daemon
<1>2. GrantedAsAsked' /\ TypedInTurn' /\ AcceptedWasMeant'
  BY DEF SessionInv, CycleNothing, daemon, GrantedAsAsked, TypedInTurn, AcceptedWasMeant
<1>3. Standing'
  BY DEF CycleNothing, Standing, Stands
<1> QED
  BY <1>1, <1>2, <1>3 DEF SessionInv

LEMMA RestartHolds == ASSUME SessionInv, Restart PROVE SessionInv'
<1>1. TypeOK' /\ Chosen'
  BY DEF SessionInv, Restart, TypeOK, Chosen, federation
<1>2. GrantedAsAsked' /\ TypedInTurn' /\ AcceptedWasMeant' /\ Standing'
  BY DEF Restart, GrantedAsAsked, TypedInTurn, AcceptedWasMeant, Standing, Stands
<1> QED
  BY <1>1, <1>2 DEF SessionInv

-----------------------------------------------------------------------------
(* Typing *)

\* A route that is dropped, or bytes sent to a pane the frontend controls: it is
\* the pane shown, or control of it was given up and the daemon will know first.
LEMMA TypeHolds == ASSUME SessionInv, Type PROVE SessionInv'
<1>1. /\ selected \in Panes /\ routes[selected] # None /\ routes[selected] \in Route
      /\ meant = selected /\ shown \in Panes \cup {None} /\ commands \in Seq(Command)
  BY DEF SessionInv, TypeOK, Chosen, Type
<1>2. UNCHANGED <<federation, choice, retry, operation, shown, events, daemon>> /\ dirty' = TRUE
  BY DEF Type
<1>3. CASE routes' = [routes EXCEPT ![selected] = None] /\ UNCHANGED commands
  <2>1. TypeOK' /\ Chosen' /\ GrantedAsAsked' /\ TypedInTurn' /\ AcceptedWasMeant'
    BY <1>2, <1>3 DEF SessionInv, TypeOK, Chosen, GrantedAsAsked, TypedInTurn, AcceptedWasMeant,
       federation, choice, daemon
  <2>2. Standing'
    <3> SUFFICES ASSUME NEW p \in Panes, routes'[p] # None
                 PROVE  Stands(routes[p], commands, events, leases[p], p) /\ routes'[p] = routes[p]
      BY <1>2, <1>3 DEF Standing, Stands, daemon
    <3> QED
      BY <1>1, <1>3 DEF SessionInv, Standing, TypeOK
  <2> QED
    BY <2>1, <2>2 DEF SessionInv
<1>4. ASSUME UNCHANGED routes, routes[selected].access = "control",
             commands' = Append(commands, [op |-> "input", pane |-> selected, meant |-> meant, shown |-> shown])
      PROVE  SessionInv'
  <2>1. PICK c : c = [op |-> "input", pane |-> selected, meant |-> meant, shown |-> shown]
    OBVIOUS
  <2>2. c \in Command /\ c.op = "input" /\ c.pane = selected /\ c.meant = selected /\ c.shown = shown
    BY <1>1, <2>1 DEF Command
  <2>3. /\ Len(commands) \in Nat /\ commands' \in Seq(Command) /\ Len(commands') = Len(commands) + 1
        /\ \A i \in 1..Len(commands) : commands'[i] = commands[i]
        /\ commands'[Len(commands) + 1] = c
    BY <1>1, <1>4, <2>1, <2>2, Added
  <2>4. TypeOK' /\ Chosen' /\ GrantedAsAsked' /\ AcceptedWasMeant'
    BY <1>2, <1>4, <2>3 DEF SessionInv, TypeOK, Chosen, GrantedAsAsked, AcceptedWasMeant,
       federation, choice, daemon
  <2>5. \A p : ~Manages(c, p)
    BY <2>2 DEF Manages
  <2>6. \A lease, p, access :
            /\ AsksFor(commands, Len(commands), lease, p, access) =>
                  /\ AsksFor(commands', Len(commands), lease, p, access)
                  /\ AsksFor(commands', Len(commands'), lease, p, access)
            /\ Untouched(commands', Len(commands'), p) => Untouched(commands, Len(commands), p)
    <3> SUFFICES ASSUME NEW p
                 PROVE  /\ \A lease, access : AsksFor(commands, Len(commands), lease, p, access) =>
                              /\ AsksFor(commands', Len(commands), lease, p, access)
                              /\ AsksFor(commands', Len(commands'), lease, p, access)
                        /\ Untouched(commands', Len(commands'), p) => Untouched(commands, Len(commands), p)
      OBVIOUS
    <3>1. \A j \in (Len(commands) + 1)..Len(commands') : ~Manages(commands'[j], p)
      BY <2>3, <2>5
    <3>2. \A lease, access : AsksFor(commands, Len(commands), lease, p, access) =>
              AsksFor(commands', Len(commands), lease, p, access)
      BY <2>3, SameCommands
    <3>3. Untouched(commands', Len(commands'), p) => Untouched(commands, Len(commands), p)
      BY <2>3 DEF Untouched
    <3>4. Len(commands') \in Nat /\ Len(commands) <= Len(commands')
      BY <2>3
    <3>5. \A lease, access : AsksFor(commands', Len(commands), lease, p, access) =>
              AsksFor(commands', Len(commands'), lease, p, access)
      BY <2>3, <3>1, <3>4, MoreCommands
    <3> QED
      BY <3>2, <3>3, <3>5
  <2>7. Standing'
    BY <1>2, <1>4, <2>6 DEF SessionInv, Standing, Stands, daemon
  <2>8. TypedInTurn'
    <3> SUFFICES ASSUME NEW i \in 1..Len(commands')
                 PROVE  Typed(commands', i, leases[commands'[i].pane])
      BY <1>2 DEF TypedInTurn, daemon
    <3>1. CASE i \in 1..Len(commands)
      <4>1. i - 1 \in Nat /\ \A j \in 1..(i - 1) : commands[j] = commands'[j]
        BY <2>3, <3>1
      <4>2. Typed(commands, i, leases[commands[i].pane])
        BY <3>1 DEF SessionInv, TypedInTurn
      <4> QED
        BY <2>3, <3>1, <4>1, <4>2, SameCommands DEF Typed
    <3>2. CASE i = Len(commands) + 1
      <4>1. Stands(routes[selected], commands, events, leases[selected], selected)
        BY <1>1 DEF SessionInv, Standing
      <4>2. routes[selected].requested = "control" \/ routes[selected].requested = "observe"
        BY <1>1 DEF Route, Access
      <4>3. shown = selected \/ AsksFor(commands, Len(commands), leases[selected], selected, "observe")
        BY <1>1, <4>1, <4>2 DEF Stands
      <4>4. i - 1 = Len(commands)
        BY <2>3, <3>2
      <4> QED
        BY <2>2, <2>3, <2>6, <3>2, <4>3, <4>4 DEF Typed
    <3> QED
      BY <2>3, <3>1, <3>2
  <2> QED
    BY <2>4, <2>7, <2>8 DEF SessionInv
<1> QED
  BY <1>3, <1>4 DEF Type

-----------------------------------------------------------------------------
(* What the frontend is told *)

LEMMA PaneLeaseHolds == ASSUME SessionInv, PaneLease PROVE SessionInv'
<1>1. PICK e : e = Head(events)
  OBVIOUS
<1>2. /\ events \in Seq(Event) /\ events # <<>> /\ e \in Event /\ e.kind = "lease"
      /\ events' = Tail(events) /\ Tail(events) \in Seq(Event)
  BY <1>1, Taken DEF SessionInv, TypeOK, PaneLease
<1>3. e.pane \in Panes /\ e.access \in Access
  BY <1>2 DEF Event
<1>4. UNCHANGED <<federation, choice, retry, operation, shown, commands, daemon>> /\ dirty' = TRUE
  BY DEF PaneLease
<1>5. /\ routes \in [Panes -> Route \cup {None}] /\ routes' \in [Panes -> Route \cup {None}]
      /\ \A p \in Panes : p # e.pane => routes'[p] = routes[p]
      /\ routes[e.pane] = None => routes'[e.pane] = None
      /\ routes[e.pane] # None => /\ routes'[e.pane].requested = routes[e.pane].requested
                                  /\ routes'[e.pane].access = e.access
  <2>1. routes' = [routes EXCEPT ![e.pane] = IF @ = None THEN None ELSE [@ EXCEPT !.access = e.access]]
    BY <1>1 DEF PaneLease
  <2>2. routes \in [Panes -> Route \cup {None}]
    BY DEF SessionInv, TypeOK
  <2>3. ASSUME NEW r \in Route
        PROVE  /\ [r EXCEPT !.access = e.access] \in Route
               /\ [r EXCEPT !.access = e.access].requested = r.requested
               /\ [r EXCEPT !.access = e.access].access = e.access
    BY <1>3 DEF Route
  <2> QED
    BY <1>3, <2>1, <2>2, <2>3
<1>6. TypeOK' /\ Chosen' /\ GrantedAsAsked' /\ TypedInTurn' /\ AcceptedWasMeant'
  BY <1>2, <1>4, <1>5 DEF SessionInv, TypeOK, Chosen, GrantedAsAsked, TypedInTurn, AcceptedWasMeant,
     federation, choice, daemon
<1>7. Standing'
  <2> SUFFICES ASSUME NEW p \in Panes, routes'[p] # None,
                      Stands(routes[p], commands, events, leases[p], p)
               PROVE  Stands(routes'[p], commands, Tail(events), leases[p], p)
    BY <1>2, <1>4 DEF SessionInv, Standing, Stands, daemon
  <2>1. routes[p] # None /\ routes'[p].requested = routes[p].requested
    BY <1>5
  <2>2. IF e.pane = p THEN e.kind # "closed" /\ routes'[p].access = e.access
                      ELSE routes'[p] = routes[p]
    BY <1>2, <1>5
  <2>3. Believes(routes[p], events, leases[p], p) => Believes(routes'[p], Tail(events), leases[p], p)
    BY <1>1, <1>2, <2>2, Heard
  <2> QED
    BY <2>1, <2>3 DEF Stands
<1> QED
  BY <1>6, <1>7 DEF SessionInv

LEMMA PaneClosedHolds == ASSUME SessionInv, PaneClosed PROVE SessionInv'
<1>1. PICK e : e = Head(events)
  OBVIOUS
<1>2. /\ events \in Seq(Event) /\ events # <<>> /\ e \in Event
      /\ events' = Tail(events) /\ Tail(events) \in Seq(Event)
  BY <1>1, Taken DEF SessionInv, TypeOK, PaneClosed
<1>3. e.pane \in Panes
  BY <1>2 DEF Event
<1>4. /\ UNCHANGED <<federation, choice, operation, shown, commands, daemon>> /\ dirty' = TRUE
      /\ retry' = retry \cup {e.pane} /\ routes' = [routes EXCEPT ![e.pane] = None]
  BY <1>1 DEF PaneClosed
<1>5. TypeOK' /\ Chosen' /\ GrantedAsAsked' /\ TypedInTurn' /\ AcceptedWasMeant'
  BY <1>2, <1>3, <1>4 DEF SessionInv, TypeOK, Chosen, GrantedAsAsked, TypedInTurn, AcceptedWasMeant,
     federation, choice, daemon
<1>6. Standing'
  <2> SUFFICES ASSUME NEW p \in Panes, routes'[p] # None,
                      Stands(routes[p], commands, events, leases[p], p)
               PROVE  Stands(routes'[p], commands, Tail(events), leases[p], p)
    BY <1>2, <1>4 DEF SessionInv, Standing, Stands, daemon
  <2>1. p # e.pane /\ routes'[p] = routes[p]
    BY <1>3, <1>4 DEF SessionInv, TypeOK
  <2>2. Believes(routes[p], events, leases[p], p) => Believes(routes[p], Tail(events), leases[p], p)
    BY <1>1, <1>2, <2>1, Heard
  <2> QED
    BY <2>1, <2>2 DEF Stands
<1> QED
  BY <1>5, <1>6 DEF SessionInv

-----------------------------------------------------------------------------
(* The daemon *)

\* What it grants of q is narrowed or its access changes, and the client is told.
LEMMA LeaseChanges ==
    ASSUME SessionInv, NEW q \in Panes, NEW e \in Event, e.pane = q,
           NEW new \in Lease \cup {None}, Narrows(leases[q], new), Tells(e, new),
           new # None /\ new.access = "control" => new.requested = "control",
           leases' = [leases EXCEPT ![q] = new], events' = Append(events, e),
           UNCHANGED <<federation, choice, routes, retry, operation, dirty, shown, commands, accepted>>
    PROVE  SessionInv'
<1>1. /\ leases \in [Panes -> Lease \cup {None}] /\ leases' \in [Panes -> Lease \cup {None}]
      /\ leases'[q] = new /\ \A p \in Panes : p # q => leases'[p] = leases[p]
      /\ events \in Seq(Event) /\ events' \in Seq(Event) /\ commands \in Seq(Command)
  BY Added DEF SessionInv, TypeOK
<1>2. TypeOK' /\ Chosen' /\ GrantedAsAsked' /\ AcceptedWasMeant'
  BY <1>1 DEF SessionInv, TypeOK, Chosen, GrantedAsAsked, AcceptedWasMeant, federation, choice
<1>3. \A p \in Panes : Narrows(leases[p], leases'[p])
  BY <1>1 DEF Narrows
<1>4. Standing'
  <2> SUFFICES ASSUME NEW p \in Panes, routes[p] # None,
                      Stands(routes[p], commands, events, leases[p], p)
               PROVE  Stands(routes[p], commands, events', leases'[p], p)
    BY DEF SessionInv, Standing, Stands
  <2>1. AsksFor(commands, Len(commands), leases'[p], p, routes[p].requested)
    BY <1>3, Narrowed DEF Stands
  <2>2. Believes(routes[p], events, leases[p], p) => Believes(routes[p], events', leases'[p], p)
    <3>1. CASE p = q
      BY <1>1, <3>1, ToldNow
    <3>2. CASE p # q
      BY <1>1, <3>2, Overheard
    <3> QED
      BY <3>1, <3>2
  <2> QED
    BY <2>1, <2>2 DEF Stands
<1>5. TypedInTurn'
  <2> SUFFICES ASSUME NEW i \in 1..Len(commands), Typed(commands, i, leases[commands[i].pane])
               PROVE  Typed(commands, i, leases'[commands[i].pane])
    BY DEF SessionInv, TypedInTurn
  <2>1. commands[i].pane \in Panes
    <3>1. commands[i] \in Command
      BY <1>1
    <3> QED
      BY <3>1 DEF Command
  <2> QED
    BY <1>3, <2>1, Narrowed DEF Typed
<1> QED
  BY <1>2, <1>4, <1>5 DEF SessionInv

LEMMA MoveLeaseHolds == ASSUME SessionInv, NEW q \in Panes, MoveLease(q) PROVE SessionInv'
<1>1. PICK access \in {"control", "observe"} :
          /\ leases' = [leases EXCEPT ![q].access = access]
          /\ events' = Append(events, [kind |-> "lease", pane |-> q, access |-> access])
  BY DEF MoveLease
<1>2. leases[q] \in Lease /\ leases[q] # None /\ leases[q].requested = "control"
  BY DEF MoveLease, SessionInv, TypeOK
<1>3. PICK new : new = [leases[q] EXCEPT !.access = access]
  OBVIOUS
<1>4. new \in Lease /\ new.requested = "control" /\ new.access = access
  BY <1>2, <1>3 DEF Lease, Access
<1>5. new # None
  BY <1>4, NoneAssumption
<1>6. PICK e : e = [kind |-> "lease", pane |-> q, access |-> access]
  OBVIOUS
<1>7. e \in Event /\ e.pane = q /\ e.kind = "lease" /\ e.access = access
  BY <1>6 DEF Event, Access
<1>8. leases' = [leases EXCEPT ![q] = new] /\ events' = Append(events, e)
  BY <1>1, <1>3, <1>6
<1>9. Narrows(leases[q], new) /\ Tells(e, new)
  BY <1>2, <1>4, <1>5, <1>7 DEF Narrows, Tells
<1> QED
  BY <1>4, <1>7, <1>8, <1>9, LeaseChanges DEF MoveLease

LEMMA EndRouteHolds == ASSUME SessionInv, NEW q \in Panes, EndRoute(q) PROVE SessionInv'
<1>1. PICK e : e = [kind |-> "closed", pane |-> q, access |-> "observe"]
  OBVIOUS
<1>2. e \in Event /\ e.pane = q /\ e.kind = "closed"
  BY <1>1 DEF Event, Access
<1>3. leases' = [leases EXCEPT ![q] = None] /\ events' = Append(events, e)
  BY <1>1 DEF EndRoute
<1>4. Narrows(leases[q], None) /\ Tells(e, None)
  BY <1>2 DEF Narrows, Tells
<1> QED
  BY <1>2, <1>3, <1>4, LeaseChanges DEF EndRoute

\* A command is taken: what the daemon grants of its pane and what it says of it
\* follow from the command, and of other panes nothing changes.
LEMMA CommandTaken ==
    ASSUME SessionInv, commands # <<>>, NEW c, c = Head(commands), commands' = Tail(commands),
           NEW new \in Lease \cup {None}, leases' = [leases EXCEPT ![c.pane] = new],
           Grants(c, leases[c.pane], new, c.pane),
           new # None /\ new.access = "control" => new.requested = "control",
           IF c.op = "subscribe"
           THEN \E e \in Event : e.pane = c.pane /\ Tells(e, new) /\ events' = Append(events, e)
           ELSE events' = events,
           c.op = "input" => new = leases[c.pane],
           accepted' \in {accepted, None}
             \/ (accepted' = c /\ c.op = "input" /\ new # None /\ new.access = "control"),
           UNCHANGED <<federation, choice, routes, retry, operation, dirty, shown>>
    PROVE  SessionInv'
<1>1. /\ commands \in Seq(Command) /\ Len(commands) \in Nat \ {0} /\ c = commands[1] /\ c \in Command
      /\ commands' \in Seq(Command) /\ Len(commands') = Len(commands) - 1
      /\ \A i \in 1..(Len(commands) - 1) : commands'[i] = commands[i + 1]
  BY Taken DEF SessionInv, TypeOK
<1>2. c.pane \in Panes /\ c.op \in {"unsubscribe", "subscribe", "input"}
  BY <1>1 DEF Command
<1>3. /\ leases \in [Panes -> Lease \cup {None}] /\ leases' \in [Panes -> Lease \cup {None}]
      /\ leases'[c.pane] = new /\ \A p \in Panes : p # c.pane => leases'[p] = leases[p]
      /\ events \in Seq(Event) /\ events' \in Seq(Event)
  <2>1. leases \in [Panes -> Lease \cup {None}] /\ events \in Seq(Event)
    BY DEF SessionInv, TypeOK
  <2>2. \A e \in Event : Append(events, e) \in Seq(Event)
    BY <2>1, Added
  <2>3. events' \in Seq(Event)
    BY <2>1, <2>2
  <2> QED
    BY <1>2, <2>1, <2>3
<1>4. \A p \in Panes : Grants(c, leases[p], leases'[p], p)
  <2>1. \A p \in Panes : p # c.pane => Grants(c, leases[p], leases'[p], p)
    BY <1>3 DEF Grants, Narrows, Manages
  <2>2. Grants(c, leases[c.pane], leases'[c.pane], c.pane)
    BY <1>3
  <2> QED
    BY <2>1, <2>2
<1>5. ASSUME NEW n \in 1..Len(commands), NEW p \in Panes, NEW access,
             AsksFor(commands, n, leases[p], p, access)
      PROVE  AsksFor(commands', n - 1, leases'[p], p, access)
  <2>1. n \in Nat \ {0} /\ \A i \in 1..(n - 1) : commands'[i] = commands[i + 1]
    BY <1>1
  <2>2. Grants(commands[1], leases[p], leases'[p], p)
    BY <1>1, <1>4
  <2> QED
    BY <1>5, <2>1, <2>2, TakenCommand
<1>6. TypeOK' /\ Chosen' /\ GrantedAsAsked'
  BY <1>1, <1>3 DEF SessionInv, TypeOK, Chosen, GrantedAsAsked, federation, choice
<1>7. AcceptedWasMeant'
  <2>1. CASE accepted' \in {accepted, None}
    BY <2>1 DEF SessionInv, AcceptedWasMeant
  <2>2. CASE accepted' = c /\ c.op = "input" /\ new # None /\ new.access = "control"
    <3>1. Typed(commands, 1, leases[c.pane])
      BY <1>1 DEF SessionInv, TypedInTurn
    <3>2. leases[c.pane] # None /\ leases[c.pane].requested = "control"
      BY <1>2, <2>2 DEF SessionInv, GrantedAsAsked
    <3>3. ~AsksFor(commands, 1 - 1, leases[c.pane], c.pane, "observe")
      BY <3>2 DEF AsksFor
    <3>4. c.meant = c.pane /\ c.shown = c.pane
      BY <1>1, <2>2, <3>1, <3>3 DEF Typed
    <3> QED
      BY <2>2, <3>4 DEF AcceptedWasMeant
  <2> QED
    BY <2>1, <2>2
<1>8. TypedInTurn'
  <2> SUFFICES ASSUME NEW i \in 1..Len(commands') PROVE Typed(commands', i, leases'[commands'[i].pane])
    BY DEF TypedInTurn
  <2>1. i + 1 \in 1..Len(commands) /\ commands'[i] = commands[i + 1] /\ (i + 1) - 1 = i /\ i \in 1..Len(commands)
    BY <1>1
  <2>2. commands'[i].pane \in Panes
    <3>1. commands'[i] \in Command
      BY <1>1
    <3> QED
      BY <3>1 DEF Command
  <2>3. Typed(commands, i + 1, leases[commands'[i].pane])
    BY <2>1 DEF SessionInv, TypedInTurn
  <2> QED
    BY <1>5, <2>1, <2>2, <2>3 DEF Typed
<1>9. Standing'
  <2> SUFFICES ASSUME NEW p \in Panes, routes[p] # None,
                      Stands(routes[p], commands, events, leases[p], p)
               PROVE  Stands(routes[p], commands', events', leases'[p], p)
    BY DEF SessionInv, Standing, Stands
  <2>1. AsksFor(commands', Len(commands'), leases'[p], p, routes[p].requested)
    <3>1. Len(commands) \in 1..Len(commands) /\ Len(commands) - 1 = Len(commands')
      BY <1>1
    <3>2. AsksFor(commands, Len(commands), leases[p], p, routes[p].requested)
      BY DEF Stands
    <3> QED
      BY <1>5, <3>1, <3>2
  <2>2. ASSUME Untouched(commands', Len(commands'), p)
        PROVE  Believes(routes[p], events', leases'[p], p)
    <3>1. ASSUME NEW i \in 1..Len(commands), i # 1 PROVE ~Manages(commands[i], p)
      <4>1. i - 1 \in 1..Len(commands') /\ commands'[i - 1] = commands[i]
        BY <1>1, <3>1
      <4> QED
        BY <2>2, <4>1 DEF Untouched
    <3>2. CASE Manages(c, p)
      <4>1. c.pane = p /\ c.op = "subscribe"
        <5>1. ASSUME c.op = "unsubscribe" PROVE FALSE
          <6>1. AsksFor(commands, Len(commands), leases[p], p, routes[p].requested)
            BY DEF Stands
          <6> QED
            BY <1>1, <3>1, <3>2, <5>1, <6>1 DEF AsksFor, Subscribes, Untouched, Manages
        <5> QED
          BY <1>2, <3>2, <5>1 DEF Manages
      <4>2. PICK e \in Event : e.pane = c.pane /\ Tells(e, new) /\ events' = Append(events, e)
        BY <4>1
      <4> QED
        BY <1>3, <4>1, <4>2, ToldNow
    <3>3. CASE ~Manages(c, p)
      <4>1. Untouched(commands, Len(commands), p)
        BY <1>1, <3>1, <3>3 DEF Untouched
      <4>2. Believes(routes[p], events, leases[p], p)
        BY <4>1 DEF Stands
      <4>3. leases'[p] = leases[p]
        <5>1. c.pane # p \/ c.op = "input"
          BY <3>3 DEF Manages
        <5> QED
          BY <1>3, <5>1
      <4>4. c.op = "subscribe" => c.pane # p
        BY <3>3 DEF Manages
      <4>5. CASE c.op = "subscribe"
        <5>1. PICK e \in Event : e.pane = c.pane /\ events' = Append(events, e)
          BY <4>5
        <5> QED
          BY <1>3, <4>2, <4>3, <4>4, <4>5, <5>1, Overheard
      <4> QED
        BY <4>2, <4>3, <4>5
    <3> QED
      BY <3>2, <3>3
  <2> QED
    BY <2>1, <2>2 DEF Stands
<1> QED
  BY <1>6, <1>7, <1>8, <1>9 DEF SessionInv

LEMMA TakeCommandHolds == ASSUME SessionInv, TakeCommand PROVE SessionInv'
<1>1. PICK c : c = Head(commands)
  OBVIOUS
<1>2. commands # <<>> /\ commands' = Tail(commands) /\ c \in Command
  BY <1>1, Taken DEF TakeCommand, SessionInv, TypeOK
<1>3. c.pane \in Panes /\ leases \in [Panes -> Lease \cup {None}]
  BY <1>2 DEF Command, SessionInv, TypeOK
<1>4. UNCHANGED <<federation, choice, routes, retry, operation, dirty, shown>>
  BY DEF TakeCommand
<1>5. CASE c.op = "unsubscribe" /\ leases' = [leases EXCEPT ![c.pane] = None] /\ UNCHANGED <<events, accepted>>
  <2>1. Grants(c, leases[c.pane], None, c.pane)
    BY <1>5 DEF Grants, Narrows, Manages
  <2> QED
    BY <1>1, <1>2, <1>4, <1>5, <2>1, CommandTaken
<1>6. ASSUME c.op = "subscribe", NEW access \in {"observe", c.access}, UNCHANGED accepted,
             leases' = [leases EXCEPT ![c.pane] = [requested |-> c.access, access |-> access]],
             events' = Append(events, [kind |-> "lease", pane |-> c.pane, access |-> access])
      PROVE  SessionInv'
  <2>1. PICK new, e : /\ new = [requested |-> c.access, access |-> access]
                      /\ e = [kind |-> "lease", pane |-> c.pane, access |-> access]
    OBVIOUS
  <2>2. c.access \in Access
    BY <1>2, <1>6 DEF Command
  <2>3. access \in Access
    BY <2>2 DEF Access
  <2>4. /\ new \in Lease /\ new.requested = c.access /\ new.access = access
        /\ e \in Event /\ e.pane = c.pane /\ e.kind = "lease" /\ e.access = access
    BY <1>3, <2>1, <2>2, <2>3 DEF Lease, Event
  <2>5. new # None
    BY <2>4, NoneAssumption
  <2>6. Tells(e, new) /\ Grants(c, leases[c.pane], new, c.pane)
    BY <1>6, <2>4, <2>5 DEF Tells, Grants, Manages
  <2>7. new.access = "control" => new.requested = "control"
    BY <2>4
  <2>8. \E f \in Event : f.pane = c.pane /\ Tells(f, new) /\ events' = Append(events, f)
    BY <1>6, <2>1, <2>4, <2>6
  <2>9. leases' = [leases EXCEPT ![c.pane] = new] /\ new \in Lease \cup {None}
    BY <1>6, <2>1, <2>4
  <2>10. c.op = "subscribe" /\ accepted' \in {accepted, None}
    BY <1>6
  <2> QED
    BY <1>1, <1>2, <1>4, <2>6, <2>7, <2>8, <2>9, <2>10, CommandTaken
<1>7. ASSUME c.op = "subscribe", leases' = [leases EXCEPT ![c.pane] = None], UNCHANGED accepted,
             events' = Append(events, [kind |-> "closed", pane |-> c.pane, access |-> "observe"])
      PROVE  SessionInv'
  <2>1. PICK e : e = [kind |-> "closed", pane |-> c.pane, access |-> "observe"]
    OBVIOUS
  <2>2. e \in Event /\ e.pane = c.pane /\ e.kind = "closed"
    BY <1>3, <2>1 DEF Event, Access
  <2>3. Tells(e, None) /\ Grants(c, leases[c.pane], None, c.pane)
    BY <1>7, <2>2 DEF Tells, Grants, Narrows
  <2>4. \E f \in Event : f.pane = c.pane /\ Tells(f, None) /\ events' = Append(events, f)
    BY <1>7, <2>1, <2>2, <2>3
  <2> QED
    BY <1>1, <1>2, <1>4, <1>7, <2>3, <2>4, CommandTaken
<1>8. CASE /\ c.op = "input" /\ UNCHANGED <<leases, events>>
           /\ accepted' = IF leases[c.pane] # None /\ leases[c.pane].access = "control" THEN c ELSE None
  <2>1. PICK new : new = leases[c.pane]
    OBVIOUS
  <2>2. new \in Lease \cup {None} /\ leases' = [leases EXCEPT ![c.pane] = new]
    BY <1>3, <1>8, <2>1
  <2>3. new # None /\ new.access = "control" => new.requested = "control"
    BY <1>3, <2>1 DEF SessionInv, GrantedAsAsked
  <2>4. Grants(c, leases[c.pane], new, c.pane)
    BY <1>8, <2>1 DEF Grants, Narrows, Manages
  <2>5. accepted' \in {accepted, None} \/ (accepted' = c /\ c.op = "input" /\ new # None /\ new.access = "control")
    BY <1>8, <2>1
  <2> QED
    BY <1>1, <1>2, <1>4, <1>8, <2>1, <2>2, <2>3, <2>4, <2>5, CommandTaken
<1> QED
  BY <1>1, <1>5, <1>6, <1>7, <1>8 DEF TakeCommand

-----------------------------------------------------------------------------
(* Drawing *)

\* What reconcile_selection leaves selected was selected or is chosen now.
LEMMA ReconcileHolds ==
    ASSUME TypeOK, Chosen, Reconcile
    PROVE  /\ {selected', restore', saved', meant'} \subseteq Panes \cup {None}
           /\ followed' \in Followed \cup {None} /\ Chosen'
<1>1. StartupPanes \subseteq Panes \cup {None}
  <2>1. \A t \in Targets : focus[t] \in Panes \cup {None} /\ PanesOf(t) \subseteq Panes
    BY DEF TypeOK, PanesOf
  <2> QED
    BY <2>1 DEF StartupPanes
<1>2. followed # None => Adopted \in Panes \cup {None}
  <2>1. followed # None => followed.session \in Targets
    BY DEF TypeOK, Followed
  <2> QED
    BY <2>1 DEF TypeOK, Adopted
<1>3. meant' = IF selected = None THEN selected' ELSE meant
  BY DEF Reconcile
<1>4. CASE RestoreWaits /\ Keep(selected) /\ UNCHANGED <<restore, followed>>
  BY <1>3, <1>4 DEF TypeOK, Chosen, Keep
<1>5. CASE Restored /\ Keep(restore) /\ restore' = None /\ UNCHANGED followed
  BY <1>3, <1>5 DEF TypeOK, Chosen, Keep, Restored
<1>6. CASE restore' = None /\ selected # None /\ Keep(selected) /\ UNCHANGED followed
  BY <1>3, <1>6 DEF TypeOK, Chosen, Keep
<1>7. CASE restore' = None /\ selected = None /\ followed # None /\ Select(Adopted) /\ followed' = None
  BY <1>2, <1>3, <1>7 DEF TypeOK, Chosen, Select
<1>8. CASE restore' = None /\ selected = None /\ Keep(None) /\ UNCHANGED followed
  BY <1>3, <1>8 DEF TypeOK, Chosen, Keep
<1>9. CASE restore' = None /\ selected = None /\ followed' = None /\ \E pane \in StartupPanes : Keep(pane)
  BY <1>1, <1>3, <1>9 DEF TypeOK, Chosen, Keep
<1> QED
  BY <1>4, <1>5, <1>6, <1>7, <1>8, <1>9 DEF Reconcile

\* ensure_routes: what is not as wanted is let go of, what is shown and has no
\* route is asked for, and about every other pane nothing is said.
LEMMA RoutesEnsured ==
    ASSUME TypeOK, NEW pane \in Panes \cup {None}, NEW resized \in BOOLEAN, EnsureRoutes(pane, resized)
    PROVE  \E released, opened \in SUBSET Panes :
              /\ routes' = [p \in Panes |->
                    IF p \in opened
                    THEN [requested |-> DesiredAccess(p, pane), access |-> "observe", gen |-> gen[TargetOf[p]]]
                    ELSE IF p \in released THEN None ELSE routes[p]]
              /\ \A p \in Panes \ released : routes[p] # None => routes[p].requested = DesiredAccess(p, pane)
              /\ commands' \in Seq(Command) /\ Len(commands) <= Len(commands')
              /\ \A i \in 1..Len(commands) : commands'[i] = commands[i]
              /\ \A i \in (Len(commands) + 1)..Len(commands') :
                    commands'[i].op # "input" /\ commands'[i].pane \in released \cup opened
              /\ \A p \in opened : \E i \in (Len(commands) + 1)..Len(commands') :
                    Subscribes(commands', i, Len(commands'), p, DesiredAccess(p, pane))
<1> DEFINE asIs(p) == /\ p \in Visible(pane) /\ ~resized
                      /\ routes[p].requested = DesiredAccess(p, pane)
                      /\ routes[p].gen = gen[TargetOf[p]]
           released == {p \in Panes : routes[p] # None /\ ~asIs(p)}
           opened == {p \in Visible(pane) \ retry : routes[p] = None \/ p \in released}
           unsubscribe == {[op |-> "unsubscribe", pane |-> p] : p \in released}
           asking(p) == [op |-> "subscribe", pane |-> p, access |-> DesiredAccess(p, pane)]
           subscribe == {asking(p) : p \in opened}
<1>1. /\ routes' = [p \in Panes |->
              IF p \in opened
              THEN [requested |-> DesiredAccess(p, pane), access |-> "observe", gen |-> gen[TargetOf[p]]]
              ELSE IF p \in released THEN None ELSE routes[p]]
      /\ commands' = commands \o SetToSeq(unsubscribe) \o SetToSeq(subscribe)
  BY DEF EnsureRoutes
<1>2. released \subseteq Panes /\ opened \subseteq Panes
  BY DEF TypeOK, Visible
<1>3. IsFiniteSet(released) /\ IsFiniteSet(opened)
  BY <1>2, SessionAssumption, FS_Subset
<1>4. IsFiniteSet(unsubscribe) /\ IsFiniteSet(subscribe)
  <2>1. [p \in released |-> [op |-> "unsubscribe", pane |-> p]] \in Surjection(released, unsubscribe)
    BY DEF Surjection
  <2>2. [p \in opened |-> asking(p)] \in Surjection(opened, subscribe)
    BY DEF Surjection
  <2> QED
    BY <1>3, <2>1, <2>2, FS_Surjection
<1>5. unsubscribe \subseteq Command /\ subscribe \subseteq Command
  BY <1>2 DEF Command, Access, DesiredAccess
<1>6. PICK u, v : u = SetToSeq(unsubscribe) /\ v = SetToSeq(subscribe)
  OBVIOUS
<1>7. /\ u \in Seq(unsubscribe) /\ v \in Seq(subscribe)
      /\ \A x \in subscribe : \E i \in 1..Len(v) : v[i] = x
      /\ \A i, j \in 1..Len(v) : v[i] = v[j] => i = j
  BY <1>4, <1>6, InSomeOrder
<1>8. commands \in Seq(Command) /\ commands' = commands \o u \o v
  BY <1>1, <1>6 DEF TypeOK
<1> HIDE DEF released, opened, unsubscribe, subscribe, asIs
<1>9. /\ commands' \in Seq(Command) /\ Len(commands) \in Nat /\ Len(u) \in Nat /\ Len(v) \in Nat
      /\ Len(commands') = Len(commands) + Len(u) + Len(v)
      /\ \A i \in 1..Len(commands) : commands'[i] = commands[i]
      /\ \A i \in 1..Len(u) : commands'[Len(commands) + i] = u[i] /\ u[i] \in unsubscribe
      /\ \A i \in 1..Len(v) : commands'[Len(commands) + Len(u) + i] = v[i] /\ v[i] \in subscribe
  <2>1. u \in Seq(Command) /\ v \in Seq(Command)
    BY <1>5, <1>7
  <2>2. PICK w : w = commands \o u
    OBVIOUS
  <2>3. /\ Len(commands) \in Nat /\ Len(u) \in Nat
        /\ w \in Seq(Command) /\ Len(w) = Len(commands) + Len(u)
        /\ \A i \in 1..Len(commands) : w[i] = commands[i]
        /\ \A i \in 1..Len(u) : w[Len(commands) + i] = u[i]
    BY <1>8, <2>1, <2>2, Joined
  <2>4. /\ Len(v) \in Nat /\ commands' \in Seq(Command) /\ Len(commands') = Len(w) + Len(v)
        /\ \A i \in 1..Len(w) : commands'[i] = w[i]
        /\ \A i \in 1..Len(v) : commands'[Len(w) + i] = v[i]
    BY <1>8, <2>1, <2>2, <2>3, Joined
  <2>5. /\ \A i \in 1..Len(u) : u[i] \in unsubscribe
        /\ \A i \in 1..Len(v) : v[i] \in subscribe
    BY <1>7
  <2>6. /\ \A i \in 1..Len(commands) : i \in 1..Len(w)
        /\ \A i \in 1..Len(u) : Len(commands) + i \in 1..Len(w)
    BY <2>3
  <2> QED
    BY <2>3, <2>4, <2>5, <2>6
<1>10. \A x \in unsubscribe : x.op = "unsubscribe" /\ x.pane \in released
  BY DEF unsubscribe
<1>11. \A x \in subscribe : x.op = "subscribe" /\ x.pane \in opened /\ x = asking(x.pane)
  BY DEF subscribe
<1>12. ASSUME NEW i \in (Len(commands) + 1)..Len(commands')
       PROVE  commands'[i].op # "input" /\ commands'[i].pane \in released \cup opened
  <2>1. CASE i - Len(commands) \in 1..Len(u)
    <3>1. commands'[Len(commands) + (i - Len(commands))] \in unsubscribe
      BY <1>9, <2>1
    <3>2. Len(commands) + (i - Len(commands)) = i
      BY <1>9
    <3> QED
      BY <1>10, <3>1, <3>2
  <2>2. CASE i - Len(commands) - Len(u) \in 1..Len(v)
    <3>1. commands'[Len(commands) + Len(u) + (i - Len(commands) - Len(u))] \in subscribe
      BY <1>9, <2>2
    <3>2. Len(commands) + Len(u) + (i - Len(commands) - Len(u)) = i
      BY <1>9
    <3> QED
      BY <1>11, <3>1, <3>2
  <2> QED
    BY <1>9, <2>1, <2>2
<1>13. ASSUME NEW p \in opened
       PROVE  \E i \in (Len(commands) + 1)..Len(commands') :
                  Subscribes(commands', i, Len(commands'), p, DesiredAccess(p, pane))
  <2>1. PICK k \in 1..Len(v) : v[k] = asking(p)
    BY <1>7, <1>13 DEF subscribe
  <2>2. PICK i : i = Len(commands) + Len(u) + k
    OBVIOUS
  <2>3. i \in (Len(commands) + 1)..Len(commands') /\ commands'[i] = asking(p)
    BY <1>9, <2>1, <2>2
  <2>4. ASSUME NEW j \in (i + 1)..Len(commands'), Manages(commands'[j], p) PROVE FALSE
    <3>1. PICK m : m = j - Len(commands) - Len(u)
      OBVIOUS
    <3>2. m \in 1..Len(v) /\ m # k /\ j = Len(commands) + Len(u) + m
      BY <1>9, <2>2, <3>1
    <3>3. v[m] \in subscribe /\ v[m].pane = p
      BY <1>9, <2>4, <3>2 DEF Manages
    <3>4. v[m] = asking(v[m].pane)
      BY <1>11, <3>3
    <3>5. v[m] = v[k]
      BY <2>1, <3>3, <3>4
    <3> QED
      BY <1>7, <2>1, <3>2, <3>5
  <2> QED
    BY <2>3, <2>4 DEF Subscribes
<1>14. \A p \in Panes \ released : routes[p] # None => routes[p].requested = DesiredAccess(p, pane)
  BY DEF released, asIs
<1>15. Len(commands) <= Len(commands')
  BY <1>9
<1> QED
  BY <1>1, <1>2, <1>9, <1>12, <1>13, <1>14, <1>15

LEMMA DrawHolds == ASSUME SessionInv, Draw PROVE SessionInv'
<1>1. /\ {selected', restore', saved', meant'} \subseteq Panes \cup {None}
      /\ followed' \in Followed \cup {None} /\ Chosen'
  BY ReconcileHolds DEF SessionInv, Draw
<1>2. PICK resized \in BOOLEAN : EnsureRoutes(selected', resized)
  BY DEF Draw
<1>3. UNCHANGED <<federation, retry, operation, events, daemon>> /\ dirty' = FALSE /\ shown' = selected'
  BY DEF Draw
<1>4. PICK pane \in Panes \cup {None} : pane = selected'
  BY <1>1
<1>5. PICK released, opened \in SUBSET Panes :
          /\ routes' = [p \in Panes |->
                IF p \in opened
                THEN [requested |-> DesiredAccess(p, pane), access |-> "observe", gen |-> gen[TargetOf[p]]]
                ELSE IF p \in released THEN None ELSE routes[p]]
          /\ \A p \in Panes \ released : routes[p] # None => routes[p].requested = DesiredAccess(p, pane)
          /\ commands' \in Seq(Command) /\ Len(commands) <= Len(commands')
          /\ \A i \in 1..Len(commands) : commands'[i] = commands[i]
          /\ \A i \in (Len(commands) + 1)..Len(commands') :
                commands'[i].op # "input" /\ commands'[i].pane \in released \cup opened
          /\ \A p \in opened : \E i \in (Len(commands) + 1)..Len(commands') :
                Subscribes(commands', i, Len(commands'), p, DesiredAccess(p, pane))
  <2>1. EnsureRoutes(pane, resized)
    BY <1>2, <1>4
  <2> QED
    BY <2>1, RoutesEnsured DEF SessionInv
<1>6. Len(commands) \in Nat /\ Len(commands') \in Nat
  BY <1>5 DEF SessionInv, TypeOK
<1>7. routes' \in [Panes -> Route \cup {None}]
  <2>1. ASSUME NEW p \in Panes
        PROVE  [requested |-> DesiredAccess(p, pane), access |-> "observe", gen |-> gen[TargetOf[p]]] \in Route
    <3>1. gen[TargetOf[p]] \in Nat
      BY SessionAssumption DEF SessionInv, TypeOK
    <3> QED
      BY <3>1 DEF Route, Access, DesiredAccess
  <2> QED
    BY <1>5, <2>1 DEF SessionInv, TypeOK
<1>8. TypeOK' /\ GrantedAsAsked' /\ AcceptedWasMeant'
  BY <1>1, <1>3, <1>5, <1>7 DEF SessionInv, TypeOK, GrantedAsAsked, AcceptedWasMeant, federation, daemon
<1>9. TypedInTurn'
  <2> SUFFICES ASSUME NEW i \in 1..Len(commands'), commands'[i].op = "input"
               PROVE  Typed(commands', i, leases[commands'[i].pane])
    BY <1>3 DEF TypedInTurn, Typed, daemon
  <2>1. i \in 1..Len(commands)
    BY <1>5, <1>6
  <2>2. i - 1 \in Nat /\ \A j \in 1..(i - 1) : commands[j] = commands'[j]
    BY <1>5, <1>6, <2>1
  <2>3. Typed(commands, i, leases[commands[i].pane])
    BY <2>1 DEF SessionInv, TypedInTurn
  <2> QED
    BY <1>5, <2>1, <2>2, <2>3, SameCommands DEF Typed
<1>10. Standing'
  <2> SUFFICES ASSUME NEW p \in Panes, routes'[p] # None
               PROVE  /\ routes'[p].requested = "control" => p = pane
                      /\ AsksFor(commands', Len(commands'), leases[p], p, routes'[p].requested)
                      /\ Untouched(commands', Len(commands'), p) => Believes(routes'[p], events, leases[p], p)
    BY <1>3, <1>4 DEF Standing, Stands, daemon
  <2>1. CASE p \in opened
    <3>1. routes'[p].requested = DesiredAccess(p, pane)
      BY <1>5, <2>1
    <3>2. PICK i \in (Len(commands) + 1)..Len(commands') :
              Subscribes(commands', i, Len(commands'), p, DesiredAccess(p, pane))
      BY <1>5, <2>1
    <3>3. i \in 1..Len(commands')
      BY <1>6
    <3>4. ~Untouched(commands', Len(commands'), p)
      BY <3>2, <3>3 DEF Untouched, Subscribes, Manages
    <3> QED
      BY <3>1, <3>2, <3>3, <3>4 DEF AsksFor, DesiredAccess
  <2>2. CASE p \notin opened
    <3>1. p \notin released /\ routes'[p] = routes[p] /\ routes[p].requested = DesiredAccess(p, pane)
      BY <1>5, <2>2
    <3>2. Stands(routes[p], commands, events, leases[p], p)
      BY DEF SessionInv, Standing
    <3>3. \A j \in (Len(commands) + 1)..Len(commands') : ~Manages(commands'[j], p)
      BY <1>5, <2>2, <3>1 DEF Manages
    <3>4. AsksFor(commands', Len(commands), leases[p], p, routes[p].requested)
      BY <1>5, <1>6, <3>1, <3>2, SameCommands DEF Stands
    <3>5. AsksFor(commands', Len(commands'), leases[p], p, routes[p].requested)
      BY <1>5, <1>6, <3>3, <3>4, MoreCommands
    <3>6. Untouched(commands', Len(commands'), p) => Untouched(commands, Len(commands), p)
      BY <1>5, <1>6 DEF Untouched
    <3> QED
      BY <3>1, <3>2, <3>5, <3>6 DEF Stands, DesiredAccess
  <2> QED
    BY <2>1, <2>2
<1> QED
  BY <1>1, <1>8, <1>9, <1>10 DEF SessionInv

-----------------------------------------------------------------------------
(* Theorems *)

LEMMA SessionSteps == SessionInv /\ [Next]_vars => SessionInv'
<1> SUFFICES ASSUME SessionInv, [Next]_vars PROVE SessionInv'
  OBVIOUS
<1> USE DEF SessionInv
<1>1. CASE UNCHANGED vars
  <2>1. UNCHANGED <<federation, choice, routes, retry, operation, dirty, shown, commands, events, daemon>>
    BY <1>1 DEF vars
  <2>2. TypeOK' /\ Chosen'
    BY <2>1 DEF TypeOK, Chosen, federation, choice, daemon
  <2> QED
    BY <2>1, <2>2, Undisturbed DEF Carried, daemon
<1>2. CASE Operate \/ OperationResult \/ FollowExpires \/ RetryDue \/ Publish \/ \E p \in Panes : Navigate(p)
  <2>1. TypeOK' /\ Chosen'
    BY <1>2, OperateHolds, OperationResultHolds, FollowExpiresHolds, RetryDueHolds, PublishHolds, NavigateHolds
  <2>2. UNCHANGED <<routes, shown, commands, events, leases, accepted>>
    BY <1>2 DEF Operate, OperationResult, FollowExpires, RetryDue, Publish, Navigate, daemon
  <2> QED
    BY <2>1, <2>2, Undisturbed DEF Carried
<1>3. CASE CycleNothing \/ Restart \/ Type \/ Receive \/ TakeCommand \/ Draw
  BY <1>3, CycleNothingHolds, RestartHolds, TypeHolds, PaneLeaseHolds, PaneClosedHolds, TakeCommandHolds,
     DrawHolds DEF Receive
<1>4. CASE \E p \in Panes : MoveLease(p) \/ EndRoute(p)
  BY <1>4, MoveLeaseHolds, EndRouteHolds
<1> QED
  BY <1>1, <1>2, <1>3, <1>4 DEF Next

\* A route the frontend has, with nothing under way, is granted as it believes.
LEMMA StandingMeans == SessionInv => TypedWhereMeant
<1> SUFFICES ASSUME SessionInv PROVE AcceptedWasMeant /\ RoutesAreLeases
  BY DEF TypedWhereMeant
<1>1. ASSUME commands = <<>>, events = <<>>, NEW p \in Panes, routes[p] # None
      PROVE  leases[p] # None /\ leases[p].access = routes[p].access
  <2>1. Len(commands) = 0 /\ Len(events) = 0
    BY <1>1
  <2>2. Untouched(commands, Len(commands), p)
    BY <2>1 DEF Untouched
  <2>3. Believes(routes[p], events, leases[p], p)
    BY <1>1, <2>2 DEF SessionInv, Standing, Stands
  <2> QED
    BY <2>1, <2>3 DEF Believes
<1> QED
  BY <1>1 DEF SessionInv, RoutesAreLeases

\* reconcile_selection, ensure_routes, forward_pane_bytes and the handlers of pane.lease and
\* pane.closed, over any number of panes and targets that come, go and reconnect: the bytes
\* a pane is given were typed for the pane chosen and shown, and with nothing under way the
\* frontend's routes are the daemon's leases.
THEOREM TypedIsMeant == Spec => []TypedWhereMeant
<1>1. Spec => []SessionInv
  BY SessionInit, SessionSteps, PTL DEF Spec
<1> QED
  BY <1>1, StandingMeans, PTL

\* Every variable of the session keeps its type: what is selected, restored,
\* followed and shown are panes, and the two channels carry what tui.rs sends.
THEOREM SessionTypeCorrect == Spec => []TypeOK
<1>1. Spec => []SessionInv
  BY SessionInit, SessionSteps, PTL DEF Spec
<1>2. SessionInv => TypeOK
  BY DEF SessionInv
<1> QED
  BY <1>1, <1>2, PTL

-----------------------------------------------------------------------------
(* TargetManager: a test belongs to the form that asked for it *)

FormFields == {"mode", "name", "ssh", "socket", "test", "request", "found"}
IsForm(m) == FormFields \subseteq DOMAIN m

\* The test a form waits for is of the machine it names.
WaitsForOwn(m, under) == m.test = "testing" => \A t \in under : t.id = m.request => t.ssh = m.ssh

ManagerInv ==
    /\ nextTest \in Nat /\ \A t \in tests : t.id \in Nat /\ t.id < nextTest
    /\ manager.mode = "form" =>
          /\ IsForm(manager) /\ WaitsForOwn(manager, tests)
          /\ manager.test = "passed" => manager.found = manager.ssh

\* A step that starts no test and leaves no form, or the form as it was.
LEMMA NoFormKeeps ==
    ASSUME ManagerInv, nextTest' = nextTest, tests' \subseteq tests,
           manager'.mode # "form" \/ manager' = manager
    PROVE  ManagerInv'
BY DEF ManagerInv, WaitsForOwn

\* A form that was changed, or opened, is not tested.
LEMMA UntestedKeeps ==
    ASSUME ManagerInv, nextTest' = nextTest, tests' = tests, IsForm(manager'), manager'.test = "untested"
    PROVE  ManagerInv'
BY DEF ManagerInv, WaitsForOwn

LEMMA FormInvalidated ==
    ASSUME NEW m, IsForm(m)
    PROVE  IsForm(Invalidated(m)) /\ Invalidated(m).test = "untested"
<1>1. PICK a : a = [m EXCEPT !.test = "untested"]
  OBVIOUS
<1>2. PICK b : b = [a EXCEPT !.request = 0]
  OBVIOUS
<1>3. PICK c : c = [b EXCEPT !.found = Unset]
  OBVIOUS
<1>4. Invalidated(m) = c
  BY <1>1, <1>2, <1>3 DEF Invalidated
<1>5. IsForm(a) /\ a.test = "untested"
  BY <1>1 DEF IsForm, FormFields
<1>6. IsForm(b) /\ b.test = "untested"
  BY <1>2, <1>5 DEF IsForm, FormFields
<1>7. IsForm(c) /\ c.test = "untested"
  BY <1>3, <1>6 DEF IsForm, FormFields
<1> QED
  BY <1>4, <1>7

LEMMA TypedKeeps ==
    ASSUME ManagerInv, manager.mode = "form", nextTest' = nextTest, tests' = tests, NEW value,
           \/ manager' = [Invalidated(manager) EXCEPT !.ssh = value]
           \/ manager' = [Invalidated(manager) EXCEPT !.name = value]
           \/ manager' = [Invalidated(manager) EXCEPT !.socket = value]
    PROVE  ManagerInv'
<1>1. PICK i : i = Invalidated(manager)
  OBVIOUS
<1>2. IsForm(i) /\ i.test = "untested"
  BY <1>1, FormInvalidated DEF ManagerInv
<1>3. IsForm(manager') /\ manager'.test = "untested"
  BY <1>1, <1>2 DEF IsForm, FormFields
<1> QED
  BY <1>3, UntestedKeeps

\* TargetForm::add and TargetForm::edit.
LEMMA OpenedKeeps ==
    ASSUME ManagerInv, nextTest' = nextTest, tests' = tests, NEW original, NEW name, NEW ssh, NEW roots,
           manager' = Opened(original, name, ssh, roots)
    PROVE  ManagerInv'
<1>1. IsForm(manager') /\ manager'.test = "untested"
  BY DEF Opened, IsForm, FormFields
<1> QED
  BY <1>1, UntestedKeeps

\* start_target_connection_test: the request is new.
LEMMA StartTestKeeps ==
    ASSUME ManagerInv, StartTest
    PROVE  ManagerInv'
<1>1. /\ manager.mode = "form" /\ IsForm(manager) /\ nextTest \in Nat /\ nextTest' = nextTest + 1
      /\ \A t \in tests : t.id \in Nat /\ t.id < nextTest
  BY DEF ManagerInv, StartTest
<1>2. PICK test : test = [id |-> nextTest, ssh |-> manager.ssh]
  OBVIOUS
<1>3. tests' = tests \cup {test} /\ test.id = nextTest /\ test.ssh = manager.ssh
  BY <1>2 DEF StartTest
<1>4. /\ nextTest' \in Nat
      /\ \A t \in tests' : t.id \in Nat /\ t.id < nextTest' /\ (t.id = nextTest => t.ssh = manager.ssh)
  BY <1>1, <1>3
<1>5. /\ IsForm(manager') /\ manager'.test = "testing" /\ manager'.request = nextTest
      /\ manager'.ssh = manager.ssh
  <2>1. PICK a : a = [manager EXCEPT !.test = "testing"]
    OBVIOUS
  <2>2. PICK b : b = [a EXCEPT !.request = nextTest]
    OBVIOUS
  <2>3. manager' = [b EXCEPT !.found = Unset]
    BY <2>1, <2>2 DEF StartTest
  <2>4. IsForm(a) /\ a.test = "testing" /\ a.ssh = manager.ssh
    BY <1>1, <2>1 DEF IsForm, FormFields
  <2>5. IsForm(b) /\ b.test = "testing" /\ b.ssh = manager.ssh /\ b.request = nextTest
    BY <2>2, <2>4 DEF IsForm, FormFields
  <2> QED
    BY <2>3, <2>5 DEF IsForm, FormFields
<1>6. WaitsForOwn(manager', tests')
  BY <1>4, <1>5 DEF WaitsForOwn
<1>7. manager'.test # "passed"
  BY <1>5
<1> QED
  BY <1>4, <1>5, <1>6, <1>7 DEF ManagerInv

\* apply_target_test_event: an answer is of the machine that was asked.
LEMMA TestEndsKeeps ==
    ASSUME ManagerInv, NEW t \in tests, NEW passed \in BOOLEAN, TestEnds(t, passed)
    PROVE  ManagerInv'
<1>1. nextTest' = nextTest /\ tests' \subseteq tests
  BY DEF TestEnds
<1>2. CASE manager' = manager
  BY <1>1, <1>2, NoFormKeeps
<1>3. CASE /\ Awaited(t)
           /\ \/ manager' = [manager EXCEPT !.test = "passed", !.found = t.ssh]
              \/ manager' = [manager EXCEPT !.test = "failed", !.found = Unset]
  <2>1. /\ IsForm(manager) /\ WaitsForOwn(manager, tests) /\ manager.test = "testing"
        /\ manager.request = t.id
    BY <1>3 DEF Awaited, ManagerInv
  <2>2. t.ssh = manager.ssh
    BY <2>1 DEF WaitsForOwn
  <2>3. PICK found, test : /\ manager' = [manager EXCEPT !.test = test, !.found = found]
                           /\ test # "testing" /\ (test = "passed" => found = t.ssh)
    BY <1>3
  <2>4. PICK a : a = [manager EXCEPT !.test = test]
    OBVIOUS
  <2>5. IsForm(a) /\ a.test = test /\ a.ssh = manager.ssh
    BY <2>1, <2>4 DEF IsForm, FormFields
  <2>6. manager' = [a EXCEPT !.found = found]
    BY <2>3, <2>4
  <2>7. IsForm(manager') /\ manager'.test = test /\ manager'.ssh = manager.ssh /\ manager'.found = found
    BY <2>5, <2>6 DEF IsForm, FormFields
  <2> QED
    BY <1>1, <2>2, <2>3, <2>7 DEF ManagerInv, WaitsForOwn
<1> QED
  BY <1>2, <1>3 DEF TestEnds

LEMMA SelectDiscoveredKeeps ==
    ASSUME ManagerInv, SelectDiscovered
    PROVE  ManagerInv'
<1>1. IsForm(manager) /\ manager.mode = "form" /\ nextTest' = nextTest /\ tests' = tests
  BY DEF SelectDiscovered, ManagerInv
<1>2. manager' = [manager EXCEPT !.socket = manager.found]
  BY DEF SelectDiscovered
<1>3. /\ IsForm(manager') /\ manager'.test = manager.test /\ manager'.ssh = manager.ssh
      /\ manager'.found = manager.found /\ manager'.request = manager.request
  BY <1>1, <1>2 DEF IsForm, FormFields
<1> QED
  BY <1>1, <1>3 DEF ManagerInv, WaitsForOwn

LEMMA ManagerSteps ==
    ASSUME ManagerInv, [ManagerNext]_managerVars
    PROVE  ManagerInv'
<1>1. CASE OpenManager \/ CloseManager \/ Cancel \/ Save \/ RemoveTarget
  <2>1. nextTest' = nextTest /\ tests' = tests /\ manager'.mode # "form"
    BY <1>1 DEF OpenManager, CloseManager, Cancel, Save, RemoveTarget, List, NoManager
  <2> QED
    BY <2>1, NoFormKeeps
<1>2. CASE Period \/ RefreshTick \/ Load \/ RefreshFails \/ UNCHANGED managerVars
  <2>1. nextTest' = nextTest /\ tests' = tests /\ manager' = manager
    BY <1>2 DEF Period, RefreshTick, Load, RefreshFails, managerVars
  <2> QED
    BY <2>1, NoFormKeeps
<1>3. CASE RefreshReady
  <2>1. nextTest' = nextTest /\ tests' = tests /\ (manager'.mode # "form" \/ manager' = manager)
    BY <1>3 DEF RefreshReady, List
  <2> QED
    BY <2>1, NoFormKeeps
<1>4. CASE AddTarget
  BY <1>4, OpenedKeeps DEF AddTarget
<1>5. CASE EditSession
  BY <1>5, TypedKeeps DEF EditSession
<1>6. ASSUME NEW n \in Names, EditTarget(n) \/ AskRemove(n) \/ EditName(n) \/ SomeoneWrites(n)
      PROVE  ManagerInv'
  <2>1. CASE EditTarget(n)
    BY <2>1, OpenedKeeps DEF EditTarget
  <2>2. CASE AskRemove(n)
    <3>1. nextTest' = nextTest /\ tests' = tests /\ manager'.mode # "form"
      BY <2>2 DEF AskRemove
    <3> QED
      BY <3>1, NoFormKeeps
  <2>3. CASE EditName(n)
    BY <2>3, TypedKeeps DEF EditName
  <2>4. CASE SomeoneWrites(n)
    BY <2>4, NoFormKeeps DEF SomeoneWrites
  <2> QED
    BY <1>6, <2>1, <2>2, <2>3, <2>4
<1>7. ASSUME NEW h \in Hosts, EditSsh(h)
      PROVE  ManagerInv'
  BY <1>7, TypedKeeps DEF EditSsh
<1>8. ASSUME NEW t \in tests, NEW passed \in BOOLEAN, TestEnds(t, passed)
      PROVE  ManagerInv'
  BY <1>8, TestEndsKeeps
<1> QED
  BY <1>1, <1>2, <1>3, <1>4, <1>5, <1>6, <1>7, <1>8, StartTestKeeps, SelectDiscoveredKeeps DEF ManagerNext

\* A form that shows a passed test shows it of the machine it names, whatever was typed while tests
\* were under way and in whatever order they answered (apply_target_test_event, invalidate_test).
THEOREM PassedAlwaysCurrent == ManagerSpec => []PassedIsCurrent
<1>1. ManagerInit => ManagerInv
  BY DEF ManagerInit, ManagerInv, NoManager
<1>2. ManagerInv => PassedIsCurrent
  BY DEF ManagerInv, PassedIsCurrent
<1> QED
  BY <1>1, <1>2, ManagerSteps, PTL DEF ManagerSpec

-----------------------------------------------------------------------------
(* InputDecoder: where a paste ends *)

\* The terminator ends at place i of s.
EndsAt(s, i) == i >= 3 /\ s[i - 2] = "e" /\ s[i - 1] = "[" /\ s[i] = "q"

LEMMA MarkersAre ==
    /\ PasteEnd \in Seq(Bytes) /\ Len(PasteEnd) = 3
    /\ PasteEnd[1] = "e" /\ PasteEnd[2] = "[" /\ PasteEnd[3] = "q"
    /\ PasteStart \in Seq(Bytes) /\ Len(PasteStart) = 3
BY DEF PasteEnd, PasteStart, Bytes

\* The elements of a sequence that is read from its end.
LEMMA ReverseIs ==
    ASSUME NEW s \in Seq(Bytes), NEW n \in Nat, n = Len(s)
    PROVE  /\ Reverse(s) \in Seq(Bytes) /\ Len(Reverse(s)) = n
           /\ \A i \in 1..n : Reverse(s)[i] = s[n - i + 1]
<1>1. Reverse(s) = [i \in 1..n |-> s[(n - i) + 1]]
  BY DEF Reverse
<1>2. \A i \in 1..n : s[(n - i) + 1] \in Bytes
  <2> SUFFICES ASSUME NEW i \in 1..n PROVE s[(n - i) + 1] \in Bytes
    OBVIOUS
  <2>1. (n - i) + 1 \in 1..Len(s)
    OBVIOUS
  <2> QED
    BY <2>1, ElementOfSeq
<1>3. Reverse(s) \in [1..n -> Bytes]
  BY <1>1, <1>2
<1> QED
  BY <1>1, <1>3

\* The first k of a sequence.
LEMMA FirstFew ==
    ASSUME NEW s \in Seq(Bytes), NEW k \in Nat, k <= Len(s)
    PROVE  /\ SubSeq(s, 1, k) \in Seq(Bytes) /\ Len(SubSeq(s, 1, k)) = k
           /\ \A i \in 1..k : SubSeq(s, 1, k)[i] = s[i]
<1>1. \A i \in 1..k : s[i] \in Bytes
  OBVIOUS
<1>2. /\ SubSeq(s, 1, k) \in Seq(Bytes) /\ Len(SubSeq(s, 1, k)) = IF 1 <= k THEN k - 1 + 1 ELSE 0
      /\ \A i \in 1..(k - 1 + 1) : SubSeq(s, 1, k)[i] = s[1 + i - 1]
  BY <1>1, SubSeqProperties
<1>3. k - 1 + 1 = k /\ \A i \in 1..k : 1 + i - 1 = i
  OBVIOUS
<1> QED
  BY <1>2, <1>3

\* A sequence ends a paste when its last three are the terminator.
LEMMA SuffixEnds ==
    ASSUME NEW s \in Seq(Bytes)
    PROVE  IsSuffix(PasteEnd, s) <=> EndsAt(s, Len(s))
<1>1. PICK n \in Nat : n = Len(s)
  OBVIOUS
<1>2. PICK r \in Seq(Bytes) : r = Reverse(PasteEnd)
  BY MarkersAre, ReverseIs
<1>3. Len(r) = 3 /\ r[1] = "q" /\ r[2] = "[" /\ r[3] = "e"
  <2>1. Len(r) = 3 /\ \A i \in 1..3 : r[i] = PasteEnd[3 - i + 1]
    <3>1. PICK p \in Seq(Bytes), l \in Nat : p = PasteEnd /\ l = Len(p) /\ l = 3
      BY MarkersAre
    <3>2. Len(Reverse(p)) = l /\ \A i \in 1..l : Reverse(p)[i] = p[l - i + 1]
      BY <3>1, ReverseIs
    <3> QED
      BY <1>2, <3>1, <3>2
  <2>2. r[1] = PasteEnd[3] /\ r[2] = PasteEnd[2] /\ r[3] = PasteEnd[1]
    BY <2>1
  <2> QED
    BY <2>1, <2>2, MarkersAre
<1>4. PICK t \in Seq(Bytes) : t = Reverse(s)
  BY <1>1, ReverseIs
<1>5. Len(t) = n /\ \A i \in 1..n : t[i] = s[n - i + 1]
  BY <1>1, <1>4, ReverseIs
<1>6. IsSuffix(PasteEnd, s) <=> 3 <= n /\ SubSeq(r, 1, 3) = SubSeq(t, 1, 3)
  BY <1>2, <1>3, <1>4, <1>5 DEF IsSuffix, IsPrefix
<1>7. /\ SubSeq(r, 1, 3) \in Seq(Bytes) /\ Len(SubSeq(r, 1, 3)) = 3
      /\ \A i \in 1..3 : SubSeq(r, 1, 3)[i] = r[i]
  <2>1. 3 \in Nat /\ 3 <= Len(r)
    BY <1>3
  <2> QED
    BY <2>1, FirstFew
<1>8. ASSUME 3 <= n
      PROVE  /\ SubSeq(t, 1, 3) \in Seq(Bytes) /\ Len(SubSeq(t, 1, 3)) = 3
             /\ \A i \in 1..3 : SubSeq(t, 1, 3)[i] = t[i]
             /\ t[1] = s[n] /\ t[2] = s[n - 1] /\ t[3] = s[n - 2]
  BY <1>5, <1>8, FirstFew
<1>9. ASSUME 3 <= n, SubSeq(r, 1, 3) = SubSeq(t, 1, 3) PROVE EndsAt(s, n)
  <2>1. r[1] = t[1] /\ r[2] = t[2] /\ r[3] = t[3]
    <3>1. \A i \in 1..3 : r[i] = t[i]
      BY <1>7, <1>8, <1>9
    <3> QED
      BY <3>1
  <2> QED
    BY <1>3, <1>8, <1>9, <2>1 DEF EndsAt
<1>10. ASSUME EndsAt(s, n) PROVE 3 <= n /\ SubSeq(r, 1, 3) = SubSeq(t, 1, 3)
  <2>1. 3 <= n /\ s[n] = "q" /\ s[n - 1] = "[" /\ s[n - 2] = "e"
    BY <1>10 DEF EndsAt
  <2>2. t[1] = r[1] /\ t[2] = r[2] /\ t[3] = r[3]
    BY <1>3, <1>8, <2>1
  <2>3. \A i \in 1..3 : i = 1 \/ i = 2 \/ i = 3
    OBVIOUS
  <2>4. \A i \in 1..3 : SubSeq(r, 1, 3)[i] = SubSeq(t, 1, 3)[i]
    BY <1>7, <1>8, <2>1, <2>2, <2>3
  <2> QED
    BY <1>7, <1>8, <2>1, <2>4, SeqEqual
<1> QED
  BY <1>1, <1>6, <1>9, <1>10

\* No terminator among the first n of s.
NoEnd(s, n) == \A i \in 0..n : ~EndsAt(s, i)

LEMMA NoSuffixIs ==
    ASSUME NEW s \in Seq(Bytes), NEW n \in Nat, n <= Len(s)
    PROVE  NoEnd(s, n) <=> \A i \in 0..n : ~IsSuffix(PasteEnd, SubSeq(s, 1, i))
<1> SUFFICES ASSUME NEW i \in 0..n PROVE EndsAt(s, i) <=> IsSuffix(PasteEnd, SubSeq(s, 1, i))
  BY DEF NoEnd
<1>5. i \in Nat /\ i <= Len(s)
  OBVIOUS
<1>1. PICK c \in Seq(Bytes) : c = SubSeq(s, 1, i)
  BY <1>5, FirstFew
<1>2. Len(c) = i /\ \A k \in 1..i : c[k] = s[k]
  BY <1>1, <1>5, FirstFew
<1>3. IsSuffix(PasteEnd, c) <=> EndsAt(c, i)
  BY <1>2, SuffixEnds
<1>4. EndsAt(c, i) <=> EndsAt(s, i)
  <2>1. i >= 3 => i - 2 \in 1..i /\ i - 1 \in 1..i /\ i \in 1..i
    OBVIOUS
  <2> QED
    BY <1>2, <2>1 DEF EndsAt
<1> QED
  BY <1>1, <1>3, <1>4

LEMMA AppendIs ==
    ASSUME NEW s \in Seq(Bytes), NEW b \in Bytes
    PROVE  /\ Append(s, b) \in Seq(Bytes) /\ Len(Append(s, b)) = Len(s) + 1 /\ Append(s, b)[Len(s) + 1] = b
           /\ \A i \in 1..Len(s) : Append(s, b)[i] = s[i]
OBVIOUS

LEMMA ConcatIs ==
    ASSUME NEW s \in Seq(Bytes), NEW r \in Seq(Bytes)
    PROVE  /\ s \o r \in Seq(Bytes) /\ Len(s \o r) = Len(s) + Len(r)
           /\ \A i \in 1..(Len(s) + Len(r)) : (s \o r)[i] = IF i <= Len(s) THEN s[i] ELSE r[i - Len(s)]
OBVIOUS

LEMMA LastThree ==
    ASSUME NEW s \in Seq(Bytes), NEW n \in Nat, n = Len(s), n >= 3
    PROVE  /\ LastOf(s, 3) \in Seq(Bytes) /\ Len(LastOf(s, 3)) = 3
           /\ LastOf(s, 3)[1] = s[n - 2] /\ LastOf(s, 3)[2] = s[n - 1] /\ LastOf(s, 3)[3] = s[n]
<1>1. LastOf(s, 3) = SubSeq(s, n - 2, n)
  <2>1. (IF n > 3 THEN n - 3 + 1 ELSE 1) = n - 2
    OBVIOUS
  <2> QED
    BY <2>1 DEF LastOf
<1>2. \A i \in (n - 2)..n : s[i] \in Bytes
  OBVIOUS
<1>3. /\ SubSeq(s, n - 2, n) \in Seq(Bytes)
      /\ Len(SubSeq(s, n - 2, n)) = IF n - 2 <= n THEN n - (n - 2) + 1 ELSE 0
      /\ \A i \in 1..(n - (n - 2) + 1) : SubSeq(s, n - 2, n)[i] = s[(n - 2) + i - 1]
  <2>1. n - 2 \in Int /\ n \in Int
    OBVIOUS
  <2> QED
    BY <1>2, <2>1, SubSeqProperties
<1>4. /\ n - (n - 2) + 1 = 3 /\ 1 \in 1..3 /\ 2 \in 1..3 /\ 3 \in 1..3
      /\ (n - 2) + 1 - 1 = n - 2 /\ (n - 2) + 2 - 1 = n - 1 /\ (n - 2) + 3 - 1 = n
  OBVIOUS
<1>5. \A i \in 1..3 : SubSeq(s, n - 2, n)[i] = s[(n - 2) + i - 1]
  BY <1>3, <1>4
<1>6. SubSeq(s, n - 2, n)[1] = s[(n - 2) + 1 - 1]
  BY <1>4, <1>5
<1>7. SubSeq(s, n - 2, n)[2] = s[(n - 2) + 2 - 1]
  BY <1>4, <1>5
<1>8. SubSeq(s, n - 2, n)[3] = s[(n - 2) + 3 - 1]
  BY <1>4, <1>5
<1>9. Len(SubSeq(s, n - 2, n)) = 3
  BY <1>3
<1> QED
  BY <1>1, <1>3, <1>4, <1>6, <1>7, <1>8, <1>9

LEMMA ThreeEqual ==
    ASSUME NEW s \in Seq(Bytes), NEW r \in Seq(Bytes), Len(s) = 3, Len(r) = 3,
           s[1] = r[1], s[2] = r[2], s[3] = r[3]
    PROVE  s = r
<1>1. \A i \in 1..3 : i = 1 \/ i = 2 \/ i = 3
  OBVIOUS
<1>2. \A i \in 1..Len(s) : s[i] = r[i]
  BY <1>1
<1> QED
  BY <1>2, SeqEqual

\* The last three are the terminator when it ends there.
LEMMA TailEnds ==
    ASSUME NEW s \in Seq(Bytes), Len(s) >= 3
    PROVE  LastOf(s, 3) = PasteEnd <=> EndsAt(s, Len(s))
<1>1. PICK n \in Nat : n = Len(s) /\ n >= 3
  OBVIOUS
<1>2. PICK l \in Seq(Bytes) : /\ l = LastOf(s, 3) /\ Len(l) = 3
                             /\ l[1] = s[n - 2] /\ l[2] = s[n - 1] /\ l[3] = s[n]
  BY <1>1, LastThree
<1>3. l = PasteEnd => EndsAt(s, n)
  BY <1>1, <1>2, MarkersAre DEF EndsAt
<1>4. EndsAt(s, n) => l = PasteEnd
  BY <1>1, <1>2, MarkersAre, ThreeEqual DEF EndsAt
<1> QED
  BY <1>1, <1>2, <1>3, <1>4

\* PasteBuffer.tail keeps the last three of what was read.
LEMMA TailFollows ==
    ASSUME NEW s \in Seq(Bytes), Len(s) >= 3, NEW b \in Bytes
    PROVE  LastOf(Append(LastOf(s, 3), b), 3) = LastOf(Append(s, b), 3)
<1>1. PICK n \in Nat : n = Len(s) /\ n >= 3
  OBVIOUS
<1>2. PICK l \in Seq(Bytes) : /\ l = LastOf(s, 3) /\ Len(l) = 3
                             /\ l[1] = s[n - 2] /\ l[2] = s[n - 1] /\ l[3] = s[n]
  BY <1>1, LastThree
<1>3. PICK r \in Seq(Bytes) : /\ r = Append(s, b) /\ Len(r) = n + 1 /\ r[n + 1] = b
                             /\ \A i \in 1..n : r[i] = s[i]
  BY <1>1, AppendIs
<1>4. PICK k \in Seq(Bytes) : /\ k = Append(l, b) /\ Len(k) = 4 /\ k[4] = b
                             /\ \A i \in 1..3 : k[i] = l[i]
  <2>2. /\ Append(l, b) \in Seq(Bytes) /\ Len(Append(l, b)) = Len(l) + 1
        /\ Append(l, b)[Len(l) + 1] = b /\ \A i \in 1..Len(l) : Append(l, b)[i] = l[i]
    BY AppendIs
  <2>5. Len(l) = 3
    BY <1>2
  <2>3. Len(l) + 1 = 4
    BY <2>5
  <2>4. Append(l, b)[4] = b /\ \A i \in 1..3 : Append(l, b)[i] = l[i]
    BY <1>2, <2>2, <2>3
  <2> QED
    BY <2>2, <2>3, <2>4
<1>5. /\ LastOf(r, 3) \in Seq(Bytes) /\ Len(LastOf(r, 3)) = 3
      /\ LastOf(r, 3)[1] = s[n - 1] /\ LastOf(r, 3)[2] = s[n] /\ LastOf(r, 3)[3] = b
  <2>1. PICK m \in Nat : m = n + 1 /\ m = Len(r) /\ m >= 3
    BY <1>1, <1>3
  <2>2. /\ LastOf(r, 3) \in Seq(Bytes) /\ Len(LastOf(r, 3)) = 3
        /\ LastOf(r, 3)[1] = r[m - 2] /\ LastOf(r, 3)[2] = r[m - 1] /\ LastOf(r, 3)[3] = r[m]
    BY <2>1, LastThree
  <2>3. m - 2 = n - 1 /\ m - 1 = n /\ n - 1 \in 1..n /\ n \in 1..n
    BY <1>1, <2>1
  <2> QED
    BY <1>3, <2>1, <2>2, <2>3
<1>6. /\ LastOf(k, 3) \in Seq(Bytes) /\ Len(LastOf(k, 3)) = 3
      /\ LastOf(k, 3)[1] = s[n - 1] /\ LastOf(k, 3)[2] = s[n] /\ LastOf(k, 3)[3] = b
  <2>1. PICK m \in Nat : m = 4 /\ m = Len(k) /\ m >= 3
    BY <1>4
  <2>2. /\ LastOf(k, 3) \in Seq(Bytes) /\ Len(LastOf(k, 3)) = 3
        /\ LastOf(k, 3)[1] = k[m - 2] /\ LastOf(k, 3)[2] = k[m - 1] /\ LastOf(k, 3)[3] = k[m]
    BY <2>1, LastThree
  <2>3. m - 2 = 2 /\ m - 1 = 3 /\ k[2] = l[2] /\ k[3] = l[3]
    BY <1>4, <2>1
  <2> QED
    BY <1>2, <1>4, <2>1, <2>2, <2>3
<1> QED
  BY <1>2, <1>3, <1>4, <1>5, <1>6, ThreeEqual

\* A byte more.
LEMMA HeldMore ==
    ASSUME NEW body \in Seq(Bytes), NEW b \in Bytes, NoEnd(body, Len(body))
    PROVE  /\ Append(body, b) \in Seq(Bytes) /\ Len(Append(body, b)) = Len(body) + 1
           /\ PasteStart \o Append(body, b) = Append(PasteStart \o body, b)
           /\ NoEnd(Append(body, b), Len(body))
           /\ ~EndsAt(Append(body, b), Len(body) + 1) => NoEnd(Append(body, b), Len(body) + 1)
<1>1. PICK n \in Nat : n = Len(body)
  OBVIOUS
<1>2. PICK h \in Seq(Bytes) : /\ h = Append(body, b) /\ Len(h) = n + 1
                             /\ \A i \in 1..n : h[i] = body[i]
  BY <1>1, AppendIs
<1>3. NoEnd(h, n)
  <2> SUFFICES ASSUME NEW i \in 0..n, EndsAt(h, i) PROVE FALSE
    BY DEF NoEnd
  <2>1. i >= 3 /\ i - 2 \in 1..n /\ i - 1 \in 1..n /\ i \in 1..n
    BY DEF EndsAt
  <2>2. EndsAt(body, i)
    BY <1>2, <2>1 DEF EndsAt
  <2> QED
    BY <1>1, <2>2 DEF NoEnd
<1>4. ~EndsAt(h, n + 1) => NoEnd(h, n + 1)
  <2>1. \A i \in 0..(n + 1) : i \in 0..n \/ i = n + 1
    OBVIOUS
  <2> QED
    BY <1>3, <2>1 DEF NoEnd
<1>5. PasteStart \o h = Append(PasteStart \o body, b)
  <2>1. PasteStart \in Seq(Bytes) /\ PasteStart \o body \in Seq(Bytes) /\ <<b>> \in Seq(Bytes)
    BY MarkersAre, ConcatProperties
  <2>2. h = body \o <<b>> /\ Append(PasteStart \o body, b) = (PasteStart \o body) \o <<b>>
    BY <1>2, <2>1, AppendIsConcat
  <2> QED
    BY <2>1, <2>2, ConcatAssociative
<1> QED
  BY <1>1, <1>2, <1>3, <1>4, <1>5

LEMMA BytesGroup ==
    ASSUME NEW a \in Seq(Bytes), NEW b \in Seq(Bytes), NEW c \in Seq(Bytes)
    PROVE  (a \o b) \o c = a \o (b \o c)
  BY ConcatAssociative

\* A paste that ends with its first terminator.
LEMMA PasteEnds ==
    ASSUME NEW held \in Seq(Bytes), EndsAt(held, Len(held)), NoEnd(held, Len(held) - 1)
    PROVE  \E n \in Nat :
              /\ n = Len(held) - 3 /\ DropLast(held, 3) \in Seq(Bytes) /\ Len(DropLast(held, 3)) = n
              /\ Encloses(PasteStart \o held, DropLast(held, 3))
              /\ n \in 0..(Len(PasteStart \o held) - 3)
              /\ n > 0 => SubSeq(PasteStart \o held, 4, 3 + n) = DropLast(held, 3)
<1>1. PICK l \in Nat : l = Len(held) /\ l >= 3
  BY DEF EndsAt
<1>2. PICK n \in Nat : n = l - 3
  BY <1>1
<1>3. PICK body \in Seq(Bytes) : /\ body = DropLast(held, 3) /\ body = SubSeq(held, 1, n) /\ Len(body) = n
                                /\ \A i \in 1..n : body[i] = held[i]
  <2>1. n <= Len(held)
    BY <1>1, <1>2
  <2> QED
    BY <1>1, <1>2, <2>1, FirstFew DEF DropLast
<1>4. PICK c \in Seq(Bytes) : /\ c = body \o PasteEnd /\ Len(c) = l
                             /\ \A i \in 1..l : c[i] = IF i <= n THEN body[i] ELSE PasteEnd[i - n]
  <2>1. body \o PasteEnd \in Seq(Bytes) /\ Len(body \o PasteEnd) = n + 3
        /\ \A i \in 1..(n + 3) : (body \o PasteEnd)[i] = IF i <= n THEN body[i] ELSE PasteEnd[i - n]
    <3>1. PICK e \in Seq(Bytes), m \in Nat : e = PasteEnd /\ m = Len(e) /\ m = 3
      BY MarkersAre
    <3>2. /\ body \o e \in Seq(Bytes) /\ Len(body \o e) = Len(body) + Len(e)
          /\ \A i \in 1..(Len(body) + Len(e)) :
                (body \o e)[i] = IF i <= Len(body) THEN body[i] ELSE e[i - Len(body)]
      BY ConcatIs
    <3> QED
      BY <1>3, <3>1, <3>2
  <2>2. n + 3 = l
    BY <1>1, <1>2
  <2> QED
    BY <2>1, <2>2
<1>5. c = held
  <2>1. held[l - 2] = "e" /\ held[l - 1] = "[" /\ held[l] = "q"
    BY <1>1 DEF EndsAt
  <2>2. \A i \in 1..l : c[i] = held[i]
    <3> SUFFICES ASSUME NEW i \in 1..l PROVE c[i] = held[i]
      OBVIOUS
    <3>1. CASE i <= n
      BY <1>3, <1>4, <3>1
    <3>2. CASE i > n
      <4>6. ~(i <= n)
        BY <3>2
      <4>7. c[i] = IF i <= n THEN body[i] ELSE PasteEnd[i - n]
        BY <1>4
      <4>1. c[i] = PasteEnd[i - n]
        BY <4>6, <4>7
      <4>2. (i = l - 2 /\ i - n = 1) \/ (i = l - 1 /\ i - n = 2) \/ (i = l /\ i - n = 3)
        BY <1>1, <1>2, <3>2
      <4>3. CASE i = l - 2 /\ i - n = 1
        BY <2>1, <4>1, <4>3, MarkersAre
      <4>4. CASE i = l - 1 /\ i - n = 2
        BY <2>1, <4>1, <4>4, MarkersAre
      <4>5. CASE i = l /\ i - n = 3
        BY <2>1, <4>1, <4>5, MarkersAre
      <4> QED
        BY <4>2, <4>3, <4>4, <4>5
    <3> QED
      BY <3>1, <3>2
  <2> QED
    BY <1>1, <1>4, <2>2, SeqEqual
<1>6. Encloses(PasteStart \o held, body)
  <2>1. PasteStart \o held = PasteStart \o body \o PasteEnd
    <3>1. PICK p \in Seq(Bytes), e \in Seq(Bytes) : p = PasteStart /\ e = PasteEnd
      BY MarkersAre
    <3>2. (p \o body) \o e = p \o (body \o e)
      BY BytesGroup
    <3> QED
      BY <1>4, <1>5, <3>1, <3>2
  <2>2. \A i \in 0..(l - 1) : ~IsSuffix(PasteEnd, SubSeq(held, 1, i))
    <3>1. PICK m \in Nat : m = l - 1 /\ m <= Len(held)
      BY <1>1
    <3> QED
      BY <1>1, <3>1, NoSuffixIs
  <2>3. Len(body) - 1 + Len(PasteEnd) = l - 1
    BY <1>1, <1>2, <1>3, MarkersAre
  <2> QED
    BY <1>4, <1>5, <2>1, <2>2, <2>3 DEF Encloses
<1>7. Len(PasteStart \o held) = l + 3 /\ n \in 0..(Len(PasteStart \o held) - 3)
  <2>1. PICK p \in Seq(Bytes), m \in Nat : p = PasteStart /\ m = Len(p) /\ m = 3
    BY MarkersAre
  <2>2. Len(p \o held) = Len(p) + Len(held)
    BY ConcatIs
  <2> QED
    BY <1>1, <1>2, <2>1, <2>2
<1>8. ASSUME n > 0 PROVE SubSeq(PasteStart \o held, 4, 3 + n) = body
  <2>1. 4 \in (3 + 1)..(3 + l) /\ 3 + n \in (3 + 1)..(3 + l) /\ 4 - 3 = 1 /\ 3 + n - 3 = n
    BY <1>1, <1>2, <1>8
  <2>2. PICK p \in Seq(Bytes), a \in Nat, z \in Nat :
           p = PasteStart /\ Len(p) = 3 /\ a = 4 /\ z = 3 + n
    BY MarkersAre
  <2>3. a \in (Len(p) + 1)..(Len(p) + Len(held)) /\ z \in (Len(p) + 1)..(Len(p) + Len(held))
    BY <1>1, <2>1, <2>2
  <2>4. SubSeq(p \o held, a, z) = SubSeq(held, a - Len(p), z - Len(p))
    BY <2>3, SubSeqOfConcat2
  <2>5. a - Len(p) = 1 /\ z - Len(p) = n
    BY <2>2
  <2> QED
    BY <1>3, <2>2, <2>4, <2>5
<1> QED
  BY <1>1, <1>2, <1>3, <1>6, <1>7, <1>8

-----------------------------------------------------------------------------
(* InputDecoder: the inductive invariant *)

Pastes == [bytes : Seq(Bytes), tail : Seq(Bytes), overflowed : BOOLEAN, open : BOOLEAN]

\* What was read is the opening marker and body, in which no terminator stands; a paste that fits is
\* held whole, of one that does not the last three bytes are.
InPaste(body) ==
    /\ raw = PasteStart \o body /\ NoEnd(body, Len(body))
    /\ ~paste.overflowed => body = paste.bytes
    /\ paste.overflowed => Len(body) > PasteLimit + 3 /\ paste.tail = LastOf(body, 3)

DecoderInv ==
    /\ pending \in Seq(Bytes) /\ raw \in Seq(Bytes) /\ paste \in Pastes
    /\ ~paste.open => raw = pending
    /\ paste.open => pending = <<>> /\ \E body \in Seq(Bytes) : InPaste(body)
    /\ DecodedIsRead

LEMMA NothingDecoded ==
    ASSUME event' = NoEvent
    PROVE  DecodedIsRead'
BY DEF NoEvent, DecodedIsRead

LEMMA BytesDecoded ==
    ASSUME NEW bytes, event' = [kind |-> "bytes", bytes |-> bytes, raw |-> bytes]
    PROVE  DecodedIsRead'
BY DEF DecodedIsRead

LEMMA NoPasteType ==
    /\ NoPaste \in Pastes /\ ~NoPaste.open
    /\ NewPaste \in Pastes /\ NewPaste.open /\ ~NewPaste.overflowed /\ NewPaste.bytes = <<>>
<1>1. PICK no \in BOOLEAN : no = FALSE
  BY Zenon
<1>2. PICK yes \in BOOLEAN : yes = TRUE
  BY Zenon
<1>3. PICK empty \in Seq(Bytes) : empty = <<>>
  BY EmptySeq
<1>4. NoPaste = [bytes |-> empty, tail |-> empty, overflowed |-> no, open |-> no]
  BY <1>1, <1>3 DEF NoPaste
<1>5. NoPaste \in Pastes /\ NoPaste.open = no
  BY <1>4 DEF Pastes
<1>6. NewPaste = [NoPaste EXCEPT !.open = yes]
  BY <1>2 DEF NewPaste
<1>7. NewPaste = [bytes |-> empty, tail |-> empty, overflowed |-> no, open |-> yes]
  BY <1>4, <1>6
<1>8. NewPaste \in Pastes /\ NewPaste.open = yes /\ NewPaste.overflowed = no /\ NewPaste.bytes = empty
  BY <1>7 DEF Pastes
<1> QED
  BY <1>1, <1>2, <1>3, <1>5, <1>8

\* A paste that ended: it is handed on, or refused when it is over the limit.
LEMMA PasteDecoded ==
    ASSUME DecoderInv, NEW held \in Seq(Bytes), EndsAt(held, Len(held)), NoEnd(held, Len(held) - 1),
           NEW read, read = PasteStart \o held,
           \/ Len(DropLast(held, 3)) <= PasteLimit /\ Emits("paste", DropLast(held, 3), read)
           \/ Len(DropLast(held, 3)) > PasteLimit /\ Emits("too_large", <<>>, read),
           paste' = NoPaste, pending' = pending, pending = <<>>
    PROVE  DecoderInv'
<1>1. PICK n \in Nat :
         /\ n = Len(held) - 3 /\ DropLast(held, 3) \in Seq(Bytes) /\ Len(DropLast(held, 3)) = n
         /\ Encloses(PasteStart \o held, DropLast(held, 3))
         /\ n \in 0..(Len(PasteStart \o held) - 3)
         /\ n > 0 => SubSeq(PasteStart \o held, 4, 3 + n) = DropLast(held, 3)
  BY PasteEnds
<1>2. PICK body : body = DropLast(held, 3)
  OBVIOUS
<1>3. raw' = <<>>
  BY DEF Emits
<1>4. DecodedIsRead'
  <2>1. CASE n <= PasteLimit /\ event' = [kind |-> "paste", bytes |-> body, raw |-> read]
    <3>1. event'.kind = "paste" /\ event'.bytes = body /\ event'.raw = read
      BY <2>1
    <3>2. Encloses(event'.raw, event'.bytes) /\ Len(event'.bytes) <= PasteLimit
      BY <1>1, <1>2, <2>1, <3>1
    <3> QED
      BY <3>1, <3>2 DEF DecodedIsRead
  <2>2. CASE n > PasteLimit /\ event' = [kind |-> "too_large", bytes |-> <<>>, raw |-> read]
    <3>1. event'.kind = "too_large" /\ event'.raw = read
      BY <2>2
    <3>2. PICK l \in Int : l = Len(read) - 3 /\ n \in 0..l
      <4>1. read \in Seq(Bytes)
        BY MarkersAre, ConcatIs
      <4>2. Len(read) - 3 \in Int
        BY <4>1
      <4> QED
        BY <1>1, <4>2
    <3>3. n > 0 /\ n \in (PasteLimit + 1)..l
      BY <2>2, <3>2, DecoderAssumption
    <3>4. Encloses(read, SubSeq(read, 4, 3 + n))
      BY <1>1, <3>3
    <3>5. Len(PasteStart) = 3 /\ Len(PasteStart) + 1 = 4
      BY MarkersAre
    <3>6. \E k \in (PasteLimit + 1)..(Len(event'.raw) - Len(PasteStart)) :
             Encloses(event'.raw, SubSeq(event'.raw, Len(PasteStart) + 1, Len(PasteStart) + k))
      BY <3>1, <3>2, <3>3, <3>4, <3>5
    <3> QED
      BY <3>1, <3>6 DEF DecodedIsRead
  <2> QED
    BY <1>1, <1>2, <2>1, <2>2 DEF Emits
<1> QED
  BY <1>3, <1>4, NoPasteType DEF DecoderInv

\* A paste goes on: what was read is body, without a terminator.
LEMMA PasteGoesOn ==
    ASSUME NEW body \in Seq(Bytes), NoEnd(body, Len(body)), paste' \in Pastes, paste'.open,
           raw' = PasteStart \o body, event' = NoEvent, pending' = <<>>,
           \/ ~paste'.overflowed /\ paste'.bytes = body
           \/ paste'.overflowed /\ Len(body) > PasteLimit + 3 /\ paste'.tail = LastOf(body, 3)
    PROVE  DecoderInv'
<1>1. raw' \in Seq(Bytes) /\ pending' \in Seq(Bytes)
  BY MarkersAre, ConcatIs, EmptySeq
<1>2. InPaste(body)'
  BY DEF InPaste
<1>3. DecodedIsRead'
  BY NothingDecoded
<1> QED
  BY <1>1, <1>2, <1>3 DEF DecoderInv

\* What a byte adds to an open paste.
LEMMA ByteOfPaste ==
    ASSUME DecoderInv, NEW b \in Bytes, NEW body \in Seq(Bytes), InPaste(body)
    PROVE  \E h \in Seq(Bytes) :
              /\ h = Append(body, b) /\ Append(raw, b) = PasteStart \o h /\ Len(h) = Len(body) + 1
              /\ NoEnd(h, Len(h) - 1) /\ (~EndsAt(h, Len(h)) => NoEnd(h, Len(h)))
<1>1. PICK h \in Seq(Bytes) :
         /\ h = Append(body, b) /\ Len(h) = Len(body) + 1 /\ PasteStart \o h = Append(PasteStart \o body, b)
         /\ NoEnd(h, Len(body)) /\ (~EndsAt(h, Len(body) + 1) => NoEnd(h, Len(body) + 1))
  BY HeldMore DEF InPaste
<1>2. Len(h) - 1 = Len(body)
  BY <1>1
<1> QED
  BY <1>1, <1>2 DEF InPaste

LEMMA PushPasteKeeps ==
    ASSUME DecoderInv, NEW b \in Bytes, PushPaste(b)
    PROVE  DecoderInv'
<1>1. PICK body \in Seq(Bytes) : InPaste(body) /\ body = paste.bytes
  BY DEF DecoderInv, PushPaste, InPaste
<1>2. PICK h \in Seq(Bytes) :
         /\ h = Append(body, b) /\ Append(raw, b) = PasteStart \o h /\ Len(h) = Len(body) + 1
         /\ NoEnd(h, Len(h) - 1) /\ (~EndsAt(h, Len(h)) => NoEnd(h, Len(h)))
  BY <1>1, ByteOfPaste
<1>3. PICK three \in Nat : three = 3 /\ three = Len(PasteEnd)
  BY MarkersAre
<1>4. IsSuffix(PasteEnd, h) <=> EndsAt(h, Len(h))
  BY SuffixEnds
<1>5. pending = <<>> /\ pending' = pending /\ paste \in Pastes /\ paste.open /\ ~paste.overflowed
  BY DEF DecoderInv, PushPaste
<1>6. CASE IsSuffix(PasteEnd, h)
  <2>1. /\ paste' = NoPaste
        /\ IF Len(DropLast(h, 3)) <= PasteLimit THEN Emits("paste", DropLast(h, 3), Append(raw, b))
                                                ELSE Emits("too_large", <<>>, Append(raw, b))
    BY <1>1, <1>2, <1>3, <1>6 DEF PushPaste
  <2>2. EndsAt(h, Len(h))
    BY <1>4, <1>6
  <2>3. Len(DropLast(h, 3)) \in Nat
    BY <1>2, <2>2, PasteEnds
  <2>4. \/ Len(DropLast(h, 3)) <= PasteLimit /\ Emits("paste", DropLast(h, 3), Append(raw, b))
        \/ Len(DropLast(h, 3)) > PasteLimit /\ Emits("too_large", <<>>, Append(raw, b))
    <3>1. PICK n \in Nat : n = Len(DropLast(h, 3))
      BY <2>3
    <3>2. n <= PasteLimit \/ (n > PasteLimit /\ ~(n <= PasteLimit))
      BY DecoderAssumption
    <3> QED
      BY <2>1, <3>1, <3>2
  <2> QED
    BY <1>2, <1>5, <2>1, <2>2, <2>4, PasteDecoded
<1>7. CASE ~IsSuffix(PasteEnd, h)
  <2>1. /\ paste' = IF Len(h) > PasteLimit + 3
                    THEN [paste EXCEPT !.tail = LastOf(h, 3), !.bytes = <<>>, !.overflowed = TRUE]
                    ELSE [paste EXCEPT !.bytes = h]
        /\ raw' = Append(raw, b) /\ event' = NoEvent
    BY <1>1, <1>2, <1>3, <1>7 DEF PushPaste, Holds
  <2>2. NoEnd(h, Len(h))
    BY <1>2, <1>4, <1>7
  <2>3. CASE Len(h) > PasteLimit + 3
    <3>1. PICK t \in Seq(Bytes) : t = LastOf(h, 3)
      <4>1. PICK n \in Nat : n = Len(h) /\ n >= 3
        BY <2>3, DecoderAssumption
      <4> QED
        BY <4>1, LastThree
    <3>2. PICK yes \in BOOLEAN : yes = TRUE
      BY Zenon
    <3>3. PICK empty \in Seq(Bytes) : empty = <<>>
      BY EmptySeq
    <3>4. paste' = [paste EXCEPT !.tail = t, !.bytes = empty, !.overflowed = yes]
      BY <2>1, <2>3, <3>1, <3>2, <3>3
    <3>5. paste' \in Pastes /\ paste'.open = paste.open /\ paste'.overflowed = yes /\ paste'.tail = t
      BY <1>5, <3>4 DEF Pastes
    <3> QED
      BY <1>2, <1>5, <2>1, <2>2, <2>3, <3>1, <3>2, <3>5, PasteGoesOn
  <2>4. CASE ~(Len(h) > PasteLimit + 3)
    <3>1. paste' = [paste EXCEPT !.bytes = h]
      BY <2>1, <2>4
    <3>2. paste' \in Pastes /\ paste'.open = paste.open /\ paste'.overflowed = paste.overflowed /\ paste'.bytes = h
      BY <1>5, <3>1 DEF Pastes
    <3> QED
      BY <1>2, <1>5, <2>1, <2>2, <3>2, PasteGoesOn
  <2> QED
    BY <2>3, <2>4
<1> QED
  BY <1>6, <1>7

LEMMA PushOverflowedKeeps ==
    ASSUME DecoderInv, NEW b \in Bytes, PushOverflowed(b)
    PROVE  DecoderInv'
<1>1. PICK body \in Seq(Bytes) : InPaste(body)
  BY DEF DecoderInv, PushOverflowed
<1>2. PICK h \in Seq(Bytes) :
         /\ h = Append(body, b) /\ Append(raw, b) = PasteStart \o h /\ Len(h) = Len(body) + 1
         /\ NoEnd(h, Len(h) - 1) /\ (~EndsAt(h, Len(h)) => NoEnd(h, Len(h)))
  BY <1>1, ByteOfPaste
<1>3. PICK three \in Nat : three = 3 /\ three = Len(PasteEnd)
  BY MarkersAre
<1>4. pending = <<>> /\ pending' = pending /\ paste \in Pastes /\ paste.open /\ paste.overflowed
  BY DEF DecoderInv, PushOverflowed
<1>5. PICK n \in Nat : n = Len(body) /\ n > PasteLimit + 3 /\ n >= 3 /\ Len(h) = n + 1
  BY <1>1, <1>2, <1>4, DecoderAssumption DEF InPaste
<1>6. PICK t \in Seq(Bytes) : t = LastOf(h, 3) /\ t = LastOf(Append(paste.tail, b), 3)
  <2>1. PICK m \in Nat : m = Len(h) /\ m >= 3
    BY <1>5
  <2>2. LastOf(h, 3) \in Seq(Bytes)
    BY <2>1, LastThree
  <2>3. paste.tail = LastOf(body, 3)
    BY <1>1, <1>4 DEF InPaste
  <2>4. LastOf(Append(LastOf(body, 3), b), 3) = LastOf(Append(body, b), 3)
    BY <1>5, TailFollows
  <2> QED
    BY <1>2, <2>2, <2>3, <2>4
<1>7. t = PasteEnd <=> EndsAt(h, Len(h))
  <2>1. Len(h) >= 3
    BY <1>5
  <2> QED
    BY <1>6, <2>1, TailEnds
<1>8. CASE t = PasteEnd
  <2>1. paste' = NoPaste /\ Emits("too_large", <<>>, Append(raw, b))
    BY <1>3, <1>6, <1>8 DEF PushOverflowed
  <2>2. Len(DropLast(h, 3)) > PasteLimit
    <3>1. PICK l \in Nat : l = Len(h) - 3 /\ Len(DropLast(h, 3)) = l
      BY <1>2, <1>7, <1>8, PasteEnds
    <3> QED
      BY <1>5, <3>1, DecoderAssumption
  <2> QED
    BY <1>2, <1>4, <1>7, <1>8, <2>1, <2>2, PasteDecoded
<1>9. CASE t # PasteEnd
  <2>1. paste' = [paste EXCEPT !.tail = t] /\ raw' = Append(raw, b) /\ event' = NoEvent
    BY <1>3, <1>6, <1>9 DEF PushOverflowed, Holds
  <2>2. paste' \in Pastes /\ paste'.open = paste.open /\ paste'.overflowed = paste.overflowed /\ paste'.tail = t
    BY <1>4, <2>1 DEF Pastes
  <2>3. NoEnd(h, Len(h)) /\ Len(h) > PasteLimit + 3
    BY <1>2, <1>5, <1>7, <1>9, DecoderAssumption
  <2> QED
    BY <1>2, <1>4, <1>6, <2>1, <2>2, <2>3, PasteGoesOn
<1> QED
  BY <1>8, <1>9

\* Outside a paste what was read is what is held back.
LEMMA PendingIsRead ==
    ASSUME DecoderInv, ~paste.open, paste' = paste, pending' \in Seq(Bytes), raw' = pending', DecodedIsRead'
    PROVE  DecoderInv'
BY DEF DecoderInv

LEMMA PushPlainKeeps ==
    ASSUME DecoderInv, NEW b \in Bytes, PushPlain(b)
    PROVE  DecoderInv'
<1>1. pending = <<>> /\ ~paste.open /\ paste' = paste
  BY DEF PushPlain
<1>2. <<b>> \in Seq(Bytes) /\ <<>> \in Seq(Bytes)
  BY EmptySeq
<1>3. CASE pending' = <<b>> /\ Holds(<<b>>)
  <2>1. event' = NoEvent /\ raw' = <<b>>
    BY <1>3 DEF Holds
  <2> QED
    BY <1>1, <1>2, <1>3, <2>1, NothingDecoded, PendingIsRead
<1>4. CASE Emits("bytes", <<b>>, <<b>>) /\ UNCHANGED pending
  <2>1. event' = [kind |-> "bytes", bytes |-> <<b>>, raw |-> <<b>>] /\ raw' = <<>>
    BY <1>4 DEF Emits
  <2>2. DecodedIsRead'
    BY <2>1, BytesDecoded
  <2> QED
    BY <1>1, <1>2, <1>4, <2>1, <2>2, PendingIsRead
<1> QED
  BY <1>3, <1>4 DEF PushPlain

LEMMA PushPendingKeeps ==
    ASSUME DecoderInv, NEW b \in Bytes, PushPending(b)
    PROVE  DecoderInv'
<1>1. ~paste.open
  BY DEF PushPending
<1>2. PICK held \in Seq(Bytes) : held = Append(pending, b)
  BY AppendIs DEF DecoderInv
<1>3. CASE held = PasteStart /\ pending' = <<>> /\ paste' = NewPaste /\ Holds(held)
  <2>1. PICK body \in Seq(Bytes) : body = <<>>
    BY EmptySeq
  <2>2. NoEnd(body, Len(body))
    BY <2>1 DEF NoEnd, EndsAt
  <2>3. raw' = PasteStart \o body /\ event' = NoEvent
    <3>1. held \o <<>> = held
      BY ConcatEmptySeq
    <3> QED
      BY <1>3, <2>1, <3>1 DEF Holds
  <2>4. paste' \in Pastes /\ paste'.open /\ ~paste'.overflowed /\ paste'.bytes = body
    BY <1>3, <2>1, NoPasteType
  <2> QED
    BY <1>3, <2>2, <2>3, <2>4, PasteGoesOn
<1>4. CASE pending' = held /\ Holds(held) /\ UNCHANGED paste
  <2>1. event' = NoEvent /\ raw' = held
    BY <1>4 DEF Holds
  <2> QED
    BY <1>1, <1>4, <2>1, NothingDecoded, PendingIsRead
<1>5. CASE /\ pending' = <<>> /\ UNCHANGED paste
           /\ ((Emits("mouse", held, held) /\ IsMouse(held)) \/ Emits("bytes", held, held))
  <2>1. raw' = <<>> /\ <<>> \in Seq(Bytes)
    BY <1>5, EmptySeq DEF Emits
  <2>2. CASE Emits("mouse", held, held) /\ IsMouse(held)
    <3>1. event' = [kind |-> "mouse", bytes |-> held, raw |-> held]
      BY <2>2 DEF Emits
    <3>2. DecodedIsRead'
      BY <2>2, <3>1 DEF DecodedIsRead
    <3> QED
      BY <1>1, <1>5, <2>1, <3>2, PendingIsRead
  <2>3. CASE Emits("bytes", held, held)
    <3>1. event' = [kind |-> "bytes", bytes |-> held, raw |-> held]
      BY <2>3 DEF Emits
    <3>2. DecodedIsRead'
      BY <3>1, BytesDecoded
    <3> QED
      BY <1>1, <1>5, <2>1, <3>2, PendingIsRead
  <2> QED
    BY <1>5, <2>2, <2>3
<1> QED
  BY <1>2, <1>3, <1>4, <1>5, Zenon DEF PushPending

LEMMA FlushExpiredKeeps ==
    ASSUME DecoderInv, FlushExpired
    PROVE  DecoderInv'
<1>1. ~paste.open /\ paste' = paste
  BY DEF FlushExpired, DecoderInv
<1>2. event' = [kind |-> "bytes", bytes |-> pending, raw |-> pending] /\ raw' = <<>> /\ pending' = <<>>
  BY DEF FlushExpired, Emits
<1>3. DecodedIsRead'
  BY <1>2, BytesDecoded
<1> QED
  BY <1>1, <1>2, <1>3, EmptySeq, PendingIsRead

LEMMA DecoderStarts == DecoderInit => DecoderInv
<1> SUFFICES ASSUME DecoderInit PROVE DecoderInv
  OBVIOUS
<1>1. pending \in Seq(Bytes) /\ raw \in Seq(Bytes) /\ raw = pending
  BY EmptySeq DEF DecoderInit
<1>2. paste \in Pastes /\ ~paste.open
  BY NoPasteType DEF DecoderInit
<1>3. DecodedIsRead
  BY DEF DecoderInit, NoEvent, DecodedIsRead
<1> QED
  BY <1>1, <1>2, <1>3 DEF DecoderInv

LEMMA DecoderStutters ==
    ASSUME DecoderInv, UNCHANGED decoderVars
    PROVE  DecoderInv'
BY DEF decoderVars, DecoderInv, InPaste, DecodedIsRead

\* InputDecoder::push and flush_expired: whatever the bytes, the length of a paste and the moments the
\* timer fires at, every byte is decoded once and in order, a paste is what stood between its markers
\* and one is refused exactly when that is more than MAX_CLIPBOARD_BYTES.
THEOREM DecodedAlwaysRead == Decoding => []DecodedIsRead
<1>1. DecoderInv /\ [(\E b \in Bytes : Push(b)) \/ FlushExpired]_decoderVars => DecoderInv'
  <2> SUFFICES ASSUME DecoderInv, [(\E b \in Bytes : Push(b)) \/ FlushExpired]_decoderVars
               PROVE  DecoderInv'
    OBVIOUS
  <2>1. CASE \E b \in Bytes : Push(b)
    <3>1. PICK b \in Bytes : Push(b)
      BY <2>1
    <3> QED
      BY <3>1, PushPasteKeeps, PushOverflowedKeeps, PushPlainKeeps, PushPendingKeeps DEF Push
  <2>2. CASE FlushExpired
    BY <2>2, FlushExpiredKeeps
  <2>3. CASE UNCHANGED decoderVars
    BY <2>3, DecoderStutters
  <2> QED
    BY <2>1, <2>2, <2>3
<1>2. DecoderInv => DecodedIsRead
  BY DEF DecoderInv
<1> QED
  BY <1>1, <1>2, DecoderStarts, PTL DEF Decoding

-----------------------------------------------------------------------------
(* TuiKeys: one overlay for the keys *)

Entry == {"create_ws", "create_tab", "rename", "move", "recreate", "close", "split", "zoom", "save",
          "transfer", "mark", "plugin"}
Menu == [target : Context, actions : Seq(Entry), selected : Nat, pressed : Nat]

\* One at most, and none while a prefix waits.
OverlaysInv ==
    /\ \A a, b \in open \cap ByKeyboard : a = b
    /\ mode # "terminal" => open \cap ByKeyboard = {}

MenuInv ==
    /\ menu \in Menu
    /\ "menu" \in open => menu.selected \in 1 .. Len(menu.actions)

PluginsInv ==
    /\ catalog.gen \in Nat /\ catalog.actions \in Seq(Context)
    /\ generation \in Nat /\ asked \subseteq Nat

KeysInv == OverlaysInv /\ MenuInv /\ PluginsInv /\ GuardIsForAnAction

LEMMA PluginEntriesAreSequence ==
    ASSUME NEW actions \in Seq(Context), NEW target
    PROVE  PluginEntries(actions, target) \in Seq(Entry)
<1> DEFINE offered == {i \in DOMAIN actions :
                           IndexIn(Contexts, actions[i]) <= IndexIn(Contexts, target)}
<1>1. IsFiniteSet(1 .. Len(actions)) BY FS_Interval
<1>2. offered \subseteq 1 .. Len(actions) OBVIOUS
<1>3. Cardinality(offered) \in Nat BY <1>1, <1>2, FS_Subset, FS_CardinalityType
<1>4. PICK n \in Nat : n = Cardinality(offered) BY <1>3
<1>5. [i \in 1 .. n |-> "plugin"] \in Seq(Entry) BY DEF Entry
<1> QED BY <1>4, <1>5 DEF PluginEntries

\* context_menu_for_target, one menu at a time.
LEMMA EntriesOf ==
    /\ MenuEntries("session") = <<"create_ws">>
    /\ MenuEntries("workspace") = <<"create_tab", "rename", "move", "recreate", "close">>
    /\ MenuEntries("tab") = <<"rename", "close">>
    /\ MenuEntries("pane") = <<"split", "zoom", "close", "save", "transfer", "mark">>
<1>1. MenuEntries("session") = <<"create_ws">> BY Zenon DEF MenuEntries
<1>2. MenuEntries("workspace") = <<"create_tab", "rename", "move", "recreate", "close">>
  BY Zenon DEF MenuEntries
<1>3. MenuEntries("tab") = <<"rename", "close">> BY Zenon DEF MenuEntries
<1>4. MenuEntries("pane") = <<"split", "zoom", "close", "save", "transfer", "mark">>
  BY Zenon DEF MenuEntries
<1> QED BY <1>1, <1>2, <1>3, <1>4

LEMMA EntriesAreSequence ==
    ASSUME NEW target \in Context
    PROVE  /\ MenuEntries(target) \in Seq(Entry)
           /\ Len(MenuEntries(target)) > 0
<1>1. CASE target = "session"
  <2>1. <<"create_ws">> \in Seq(Entry) /\ Len(<<"create_ws">>) > 0 BY DEF Entry
  <2> QED BY <1>1, <2>1, EntriesOf
<1>2. CASE target = "workspace"
  <2>1. PICK e : e = <<"create_tab", "rename", "move", "recreate", "close">> OBVIOUS
  <2>2. e \in Seq(Entry) /\ Len(e) > 0 BY <2>1 DEF Entry
  <2> QED BY <1>2, <2>1, <2>2, EntriesOf
<1>3. CASE target = "tab"
  <2>1. PICK e : e = <<"rename", "close">> OBVIOUS
  <2>2. e \in Seq(Entry) /\ Len(e) > 0 BY <2>1 DEF Entry
  <2> QED BY <1>3, <2>1, <2>2, EntriesOf
<1>4. CASE target = "pane"
  <2>1. PICK e : e = <<"split", "zoom", "close", "save", "transfer", "mark">> OBVIOUS
  <2>2. e \in Seq(Entry) /\ Len(e) > 0 BY <2>1 DEF Entry
  <2> QED BY <1>4, <2>1, <2>2, EntriesOf
<1> QED BY <1>1, <1>2, <1>3, <1>4 DEF Context

LEMMA SplicedIsSequence ==
    ASSUME NEW E, NEW entries \in Seq(E), Len(entries) > 0, NEW more \in Seq(E),
           NEW at \in 0 .. Len(entries)
    PROVE  LET s == SubSeq(entries, 1, at) \o more \o SubSeq(entries, at + 1, Len(entries))
           IN  s \in Seq(E) /\ Len(s) > 0
<1>1. /\ Len(entries) \in Nat /\ Len(more) \in Nat /\ at \in Int /\ Len(entries) \in Int
      /\ 0 <= at /\ at <= Len(entries)
  BY LenProperties
<1>2. \A i \in 1 .. Len(entries) : entries[i] \in E BY LenProperties
<1>3. \A i \in 1 .. at : entries[i] \in E BY <1>1, <1>2
<1>4. \A i \in at + 1 .. Len(entries) : entries[i] \in E BY <1>1, <1>2
<1>5. PICK a : a = SubSeq(entries, 1, at) OBVIOUS
<1>6. PICK c : c = SubSeq(entries, at + 1, Len(entries)) OBVIOUS
<1>7. a \in Seq(E) /\ Len(a) = IF 1 <= at THEN at - 1 + 1 ELSE 0
  BY <1>1, <1>3, <1>5, SubSeqProperties
<1>8. c \in Seq(E) /\ Len(c) = IF at + 1 <= Len(entries) THEN Len(entries) - (at + 1) + 1 ELSE 0
  <2>1. at + 1 \in Int BY <1>1
  <2> QED BY <2>1, <1>1, <1>4, <1>6, SubSeqProperties
<1>9. PICK b : b = a \o more OBVIOUS
<1>10. b \in Seq(E) /\ Len(b) = Len(a) + Len(more) BY <1>7, <1>9, ConcatProperties
<1>11. b \o c \in Seq(E) /\ Len(b \o c) = Len(b) + Len(c) BY <1>8, <1>10, ConcatProperties
<1>12. Len(b \o c) > 0
  <2>1. PICK n \in Nat, m \in Nat : n = Len(entries) /\ m = Len(more) /\ n > 0 /\ at <= n
    BY <1>1
  <2>2. Len(a) = at
    <3>1. CASE 1 <= at BY <3>1, <1>1, <1>7
    <3>2. CASE ~(1 <= at) BY <3>2, <1>1, <1>7
    <3> QED BY <3>1, <3>2
  <2>3. Len(c) = n - at
    <3>1. CASE at + 1 <= n BY <3>1, <2>1, <1>1, <1>8
    <3>2. CASE ~(at + 1 <= n) BY <3>2, <2>1, <1>1, <1>8
    <3> QED BY <3>1, <3>2
  <2>4. Len(b \o c) = at + m + (n - at) BY <2>1, <2>2, <2>3, <1>10, <1>11
  <2> QED BY <2>1, <2>4, <1>1
<1> QED BY <1>5, <1>6, <1>9, <1>11, <1>12

\* The least of at most one.
LEMMA LeastIsThere ==
    ASSUME NEW n \in Nat, NEW S \in SUBSET (1 .. n),
           S = {} \/ \E k \in 1 .. n : S = {k}
    PROVE  S # {} => Min(S) \in 1 .. n
<1> SUFFICES ASSUME S # {} PROVE Min(S) \in 1 .. n OBVIOUS
<1>1. PICK k \in 1 .. n : S = {k} OBVIOUS
<1>2. k \in S /\ \A y \in S : k =< y BY <1>1
<1>3. \E x \in S : \A y \in S : x =< y BY <1>2
<1>4. Min(S) \in S BY <1>3, Zenon DEF Min
<1> QED BY <1>4

\* A menu has one entry that destroys, or none.
LEMMA OneIsDestructive ==
    ASSUME NEW target \in Context
    PROVE  LET e == MenuEntries(target)
               S == {i \in 1 .. Len(e) : e[i] = "close"}
           IN  S = {} \/ \E k \in 1 .. Len(e) : S = {k}
<1>1. CASE target = "session"
  <2>1. PICK e : e = <<"create_ws">> OBVIOUS
  <2>2. {i \in 1 .. Len(e) : e[i] = "close"} = {} BY <2>1
  <2> QED BY <1>1, <2>1, <2>2, EntriesOf
<1>2. CASE target = "workspace"
  <2>1. PICK e : e = <<"create_tab", "rename", "move", "recreate", "close">> OBVIOUS
  <2>2. {i \in 1 .. Len(e) : e[i] = "close"} = {5} BY <2>1
  <2>3. 5 \in 1 .. Len(e) BY <2>1
  <2>4. e = MenuEntries(target) BY <1>2, <2>1, EntriesOf
  <2> QED BY <2>2, <2>3, <2>4, Zenon
<1>3. CASE target = "tab"
  <2>1. PICK e : e = <<"rename", "close">> OBVIOUS
  <2>2. {i \in 1 .. Len(e) : e[i] = "close"} = {2} BY <2>1
  <2>3. 2 \in 1 .. Len(e) BY <2>1
  <2>4. e = MenuEntries(target) BY <1>3, <2>1, EntriesOf
  <2> QED BY <2>2, <2>3, <2>4, Zenon
<1>4. CASE target = "pane"
  <2>1. PICK e : e = <<"split", "zoom", "close", "save", "transfer", "mark">> OBVIOUS
  <2>2. {i \in 1 .. Len(e) : e[i] = "close"} = {3} BY <2>1
  <2>3. 3 \in 1 .. Len(e) BY <2>1
  <2>4. e = MenuEntries(target) BY <1>4, <2>1, EntriesOf
  <2> QED BY <2>2, <2>3, <2>4, Zenon
<1> QED BY <1>1, <1>2, <1>3, <1>4 DEF Context

\* insert_plugin_actions: the menu keeps an entry to select.
LEMMA MenuIsNotEmpty ==
    ASSUME NEW target \in Context, NEW actions \in Seq(Context)
    PROVE  /\ InsertPlugins(MenuEntries(target), actions, target) \in Seq(Entry)
           /\ Len(InsertPlugins(MenuEntries(target), actions, target)) > 0
<1> DEFINE e == MenuEntries(target)
           S == {i \in 1 .. Len(e) : e[i] = "close"}
           before == IF S # {} THEN Min(S) ELSE 0
           at == IF before = 0 THEN Len(e) ELSE before - 1
<1>1. e \in Seq(Entry) /\ Len(e) > 0 BY EntriesAreSequence
<1>2. S = {} \/ \E k \in 1 .. Len(e) : S = {k} BY OneIsDestructive
<1>3. Len(e) \in Nat /\ S \in SUBSET (1 .. Len(e)) BY <1>1
<1>4. before \in 0 .. Len(e)
  <2> HIDE DEF e, S
  <2>1. S # {} => Min(S) \in 1 .. Len(e) BY <1>2, <1>3, LeastIsThere
  <2> QED BY <2>1, <1>3
<1>5. at \in 0 .. Len(e) BY <1>3, <1>4
<1>6. PluginEntries(actions, target) \in Seq(Entry) BY PluginEntriesAreSequence
<1>7. InsertPlugins(e, actions, target) =
          SubSeq(e, 1, at) \o PluginEntries(actions, target) \o SubSeq(e, at + 1, Len(e))
  BY DEF InsertPlugins, SelectInSeq
<1> HIDE DEF e, at
<1> QED BY <1>1, <1>5, <1>6, <1>7, SplicedIsSequence DEF e

-----------------------------------------------------------------------------
LEMMA WrappedStays ==
    ASSUME NEW n \in Nat, n > 0, NEW i \in 1 .. n, NEW step \in {1, -1}
    PROVE  Wrapped(i + step, n) \in 1 .. n
<1>1. CASE step = 1 BY <1>1 DEF Wrapped
<1>2. CASE step = -1 BY <1>2 DEF Wrapped
<1> QED BY <1>1, <1>2

\* run_operation: the guard is taken with the operation it is for.
LEMMA RunKeepsGuard ==
    ASSUME NEW kind, kind # "paste", RunOperation(kind), GuardIsForAnAction
    PROVE  GuardIsForAnAction'
<1>1. CASE inflight /\ UNCHANGED operations
  BY <1>1 DEF operations, GuardIsForAnAction
<1>2. CASE ops' = ops \cup {[id |-> FreeId, kind |-> kind]}
  <2>1. PICK op : op = [id |-> FreeId, kind |-> kind] OBVIOUS
  <2>2. op \in ops' /\ op.kind # "paste" BY <1>2, <2>1
  <2> QED BY <2>2 DEF GuardIsForAnAction
<1> QED BY <1>1, <1>2 DEF RunOperation

\* execute_resource_action puts up one overlay at most, never a menu, over what
\* is left, and holds the guard for what it started.
LEMMA ExecuteShowsOne ==
    ASSUME NEW a, NEW left, Execute(a, left), left \cap ByKeyboard = {}, "menu" \notin left,
           GuardIsForAnAction
    PROVE  /\ \A x, y \in open' \cap ByKeyboard : x = y
           /\ "menu" \notin open'
           /\ GuardIsForAnAction'
<1>1. \/ open' = left
      \/ a \in {"manager", "navigator", "center"} /\ open' = left \cup {a}
      \/ open' = left \cup {"prompt"}
      \/ open' = left \cup {"confirm"}
  BY DEF Execute
<1>2. UNCHANGED operations \/ RunOperation("action") BY DEF Execute
<1>3. GuardIsForAnAction'
  <2>1. CASE UNCHANGED operations BY <2>1 DEF operations, GuardIsForAnAction
  <2>2. CASE RunOperation("action") BY <2>2, RunKeepsGuard
  <2> QED BY <1>2, <2>1, <2>2
<1>4. (\A x, y \in open' \cap ByKeyboard : x = y) /\ "menu" \notin open' BY <1>1
<1> QED BY <1>3, <1>4

\* Nothing is put up.
LEMMA FewerOverlays ==
    ASSUME OverlaysInv, open' \cap ByKeyboard \subseteq open, mode' = mode \/ mode' = "terminal"
    PROVE  OverlaysInv'
BY DEF OverlaysInv

\* One is put up, and no prefix waits.
LEMMA OneIsPutUp ==
    ASSUME \A x, y \in open' \cap ByKeyboard : x = y, mode' = "terminal"
    PROVE  OverlaysInv'
BY DEF OverlaysInv

LEMMA MenuIsKept ==
    ASSUME MenuInv, menu' = menu, "menu" \in open' => "menu" \in open
    PROVE  MenuInv'
BY DEF MenuInv

LEMMA MenuIsGone ==
    ASSUME menu' = NoMenu, "menu" \notin open'
    PROVE  MenuInv'
<1>1. <<>> \in Seq(Entry) OBVIOUS
<1>2. NoMenu \in Menu BY <1>1 DEF NoMenu, Menu, Context
<1> QED BY <1>2 DEF MenuInv

LEMMA GuardIsKept ==
    ASSUME GuardIsForAnAction, inflight' = inflight, ops \subseteq ops'
    PROVE  GuardIsForAnAction'
BY DEF GuardIsForAnAction

\* What a menu that was taken leaves for the action it ran.
LEMMA TakenForAnAction ==
    ASSUME KeysInv, NEW overlay \in ByKeyboard, overlay \in open, UNCHANGED mode,
           NEW a, Execute(a, open \ {overlay})
    PROVE  OverlaysInv' /\ GuardIsForAnAction' /\ "menu" \notin open'
<1>1. (open \ {overlay}) \cap ByKeyboard = {} BY DEF KeysInv, OverlaysInv
<1>2. "menu" \notin open \ {overlay} BY <1>1 DEF ByKeyboard
<1>3. mode = "terminal" BY DEF KeysInv, OverlaysInv
<1>4. /\ \A x, y \in open' \cap ByKeyboard : x = y
      /\ "menu" \notin open' /\ GuardIsForAnAction'
  BY <1>1, <1>2, ExecuteShowsOne DEF KeysInv
<1> QED BY <1>3, <1>4, OneIsPutUp

\* A selection that moves stays on an entry.
LEMMA SelectionMoves ==
    ASSUME MenuInv, "menu" \in open, UNCHANGED open,
           NEW i \in 1 .. Len(menu.actions), NEW k \in Nat,
           menu' = [menu EXCEPT !.selected = i, !.pressed = k]
    PROVE  MenuInv'
<1>1. menu \in Menu /\ i \in Nat BY DEF MenuInv, Menu
<1>2. menu' = [target |-> menu.target, actions |-> menu.actions, selected |-> i, pressed |-> k]
  BY <1>1 DEF Menu
<1>3. menu' \in Menu BY <1>1, <1>2 DEF Menu
<1>4. menu'.selected = i /\ menu'.actions = menu.actions BY <1>2
<1> QED BY <1>3, <1>4 DEF MenuInv

-----------------------------------------------------------------------------
LEMMA KeyMenuKeeps ==
    ASSUME KeysInv, KeyMenu PROVE KeysInv'
<1>1. "menu" \in open /\ UNCHANGED <<mode, palette, plugins, connection>> BY DEF KeyMenu, Owns
<1>2. PluginsInv' BY <1>1 DEF KeysInv, PluginsInv, plugins, connection
<1>3. CASE open' = open \ {"menu"} /\ menu' = NoMenu /\ UNCHANGED <<prompt, operations, saving>>
  <2>1. OverlaysInv' BY <1>1, <1>3, FewerOverlays DEF KeysInv
  <2>2. MenuInv' BY <1>3, MenuIsGone
  <2>3. GuardIsForAnAction' BY <1>3, GuardIsKept DEF KeysInv, operations
  <2> QED BY <1>2, <2>1, <2>2, <2>3 DEF KeysInv
<1>4. ASSUME NEW step \in {1, -1},
             menu' = [menu EXCEPT !.selected = Wrapped(@ + step, Len(menu.actions))],
             UNCHANGED <<open, prompt, operations, saving>>
      PROVE  KeysInv'
  <2>1. MenuInv /\ menu \in Menu BY DEF KeysInv, MenuInv
  <2>2. PICK n \in Nat : n = Len(menu.actions) BY <2>1 DEF Menu
  <2>3. PICK i \in 1 .. n : i = menu.selected /\ n > 0 BY <1>1, <2>1, <2>2 DEF MenuInv
  <2>4. PICK w \in 1 .. n : w = Wrapped(i + step, n) BY <2>3, WrappedStays
  <2>5. PICK k \in Nat : k = menu.pressed BY <2>1 DEF Menu
  <2>6. menu' = [menu EXCEPT !.selected = w] BY <1>4, <2>2, <2>3, <2>4
  <2>7. menu' = [menu EXCEPT !.selected = w, !.pressed = k] BY <2>1, <2>5, <2>6 DEF Menu
  <2>8. MenuInv' BY <1>1, <1>4, <2>1, <2>2, <2>7, SelectionMoves
  <2>9. OverlaysInv' BY <1>1, <1>4, FewerOverlays DEF KeysInv
  <2>10. GuardIsForAnAction' BY <1>4, GuardIsKept DEF KeysInv, operations
  <2> QED BY <1>2, <2>8, <2>9, <2>10 DEF KeysInv
<1>5. CASE Execute(menu.actions[menu.selected], open \ {"menu"}) /\ menu' = NoMenu
  <2>1. OverlaysInv' /\ GuardIsForAnAction' /\ "menu" \notin open'
    BY <1>1, <1>5, TakenForAnAction DEF ByKeyboard
  <2>2. MenuInv' BY <1>5, <2>1, MenuIsGone
  <2> QED BY <1>2, <2>1, <2>2 DEF KeysInv
<1> QED BY <1>3, <1>4, <1>5 DEF KeyMenu

LEMMA MouseMenuKeeps ==
    ASSUME KeysInv, MouseMenu PROVE KeysInv'
<1>1. "menu" \in open /\ UNCHANGED <<mode, palette, plugins, connection>> BY DEF MouseMenu
<1>2. PluginsInv' BY <1>1 DEF KeysInv, PluginsInv, plugins, connection
<1>3. MenuInv /\ menu \in Menu /\ menu.selected \in 1 .. Len(menu.actions)
  BY <1>1 DEF KeysInv, MenuInv
<1>4. DOMAIN menu.actions = 1 .. Len(menu.actions) /\ Len(menu.actions) \in Nat
      /\ menu.pressed \in Nat /\ menu.selected \in Nat
  BY <1>3 DEF Menu
<1>5. ASSUME NEW i \in 1 .. Len(menu.actions), NEW k \in Nat,
             menu' = [menu EXCEPT !.selected = i, !.pressed = k],
             UNCHANGED <<open, prompt, operations, saving>>
      PROVE  KeysInv'
  <2>1. MenuInv' BY <1>1, <1>3, <1>5, SelectionMoves
  <2>2. OverlaysInv' BY <1>1, <1>5, FewerOverlays DEF KeysInv
  <2>3. GuardIsForAnAction' BY <1>5, GuardIsKept DEF KeysInv, operations
  <2> QED BY <1>2, <2>1, <2>2, <2>3 DEF KeysInv
<1>6. ASSUME NEW i \in {menu.selected - 1, menu.selected + 1} \cap DOMAIN menu.actions,
             menu' = [menu EXCEPT !.selected = i],
             UNCHANGED <<open, prompt, operations, saving>>
      PROVE  KeysInv'
  <2>1. menu' = [menu EXCEPT !.selected = i, !.pressed = menu.pressed] BY <1>3, <1>6 DEF Menu
  <2> QED BY <1>4, <1>5, <1>6, <2>1
<1>7. ASSUME NEW i \in DOMAIN menu.actions, menu' = [menu EXCEPT !.selected = i, !.pressed = i],
             UNCHANGED <<open, prompt, operations, saving>>
      PROVE  KeysInv'
  <2>1. i \in Nat BY <1>4
  <2> QED BY <2>1, <1>4, <1>5, <1>7
<1>8. CASE open' = open \ {"menu"} /\ menu' = NoMenu /\ UNCHANGED <<prompt, operations, saving>>
  <2>1. OverlaysInv' BY <1>1, <1>8, FewerOverlays DEF KeysInv
  <2>2. MenuInv' BY <1>8, MenuIsGone
  <2>3. GuardIsForAnAction' BY <1>8, GuardIsKept DEF KeysInv, operations
  <2> QED BY <1>2, <2>1, <2>2, <2>3 DEF KeysInv
<1>9. CASE Execute(menu.actions[menu.pressed], open \ {"menu"}) /\ menu' = NoMenu
  <2>1. OverlaysInv' /\ GuardIsForAnAction' /\ "menu" \notin open'
    BY <1>1, <1>9, TakenForAnAction DEF ByKeyboard
  <2>2. MenuInv' BY <1>9, <2>1, MenuIsGone
  <2> QED BY <1>2, <2>1, <2>2 DEF KeysInv
<1>10. CASE menu' = [menu EXCEPT !.pressed = 0] /\ UNCHANGED <<open, prompt, operations, saving>>
  <2>1. menu' = [menu EXCEPT !.selected = menu.selected, !.pressed = 0] BY <1>3, <1>10 DEF Menu
  <2>2. 0 \in Nat OBVIOUS
  <2> QED BY <1>3, <1>5, <1>10, <2>1, <2>2
<1> QED BY <1>6, <1>7, <1>8, <1>9, <1>10 DEF MouseMenu

\* A step that puts up nothing and leaves the menu and the catalog alone.
LEMMA NothingIsPutUp ==
    ASSUME KeysInv, open' \cap ByKeyboard \subseteq open, mode' = mode \/ mode' = "terminal",
           menu' = menu, UNCHANGED <<plugins, generation>>, GuardIsForAnAction'
    PROVE  KeysInv'
<1>1. OverlaysInv' BY FewerOverlays DEF KeysInv
<1>2. "menu" \in open' => "menu" \in open BY DEF ByKeyboard
<1>3. MenuInv' BY <1>2, MenuIsKept DEF KeysInv
<1>4. PluginsInv' BY DEF KeysInv, PluginsInv, plugins
<1> QED BY <1>1, <1>3, <1>4 DEF KeysInv

LEMMA KeyConfirmKeeps ==
    ASSUME KeysInv, KeyConfirm PROVE KeysInv'
<1>1. GuardIsForAnAction'
  <2>1. CASE RunOperation("close") BY <2>1, RunKeepsGuard DEF KeysInv
  <2>2. CASE UNCHANGED operations BY <2>2, GuardIsKept DEF KeysInv, operations
  <2> QED BY <2>1, <2>2 DEF KeyConfirm
<1> QED BY <1>1, NothingIsPutUp DEF KeyConfirm, connection

LEMMA KeyPromptKeeps ==
    ASSUME KeysInv, KeyPromptEdit \/ KeyPromptFile \/ KeyPromptLabel PROVE KeysInv'
<1>1. CASE KeyPromptEdit
  <2>1. GuardIsForAnAction' BY <1>1, GuardIsKept DEF KeysInv, KeyPromptEdit, operations
  <2> QED BY <1>1, <2>1, NothingIsPutUp DEF KeyPromptEdit, connection
<1>2. CASE KeyPromptFile
  <2>1. GuardIsForAnAction' BY <1>2, GuardIsKept DEF KeysInv, KeyPromptFile, operations
  <2>2. open' \subseteq open BY <1>2 DEF KeyPromptFile
  <2> QED BY <1>2, <2>1, <2>2, NothingIsPutUp DEF KeyPromptFile, connection
<1>3. CASE KeyPromptLabel
  <2>1. GuardIsForAnAction' BY <1>3, RunKeepsGuard DEF KeysInv, KeyPromptLabel
  <2> QED BY <1>3, <2>1, NothingIsPutUp DEF KeyPromptLabel, connection
<1> QED BY <1>1, <1>2, <1>3

LEMMA KeyPaletteKeeps ==
    ASSUME KeysInv, KeyPalette PROVE KeysInv'
<1>1. "palette" \in open /\ UNCHANGED <<mode, menu, plugins, connection>>
  BY DEF KeyPalette, Owns
<1>2. CASE open' \subseteq open /\ UNCHANGED operations
  <2>1. GuardIsForAnAction' BY <1>2, GuardIsKept DEF KeysInv, operations
  <2> QED BY <1>1, <1>2, <2>1, NothingIsPutUp DEF connection
<1>3. ASSUME NEW a, Execute(a, open \ {"palette"}) PROVE KeysInv'
  <2>1. OverlaysInv' /\ GuardIsForAnAction' /\ "menu" \notin open'
    BY <1>1, <1>3, TakenForAnAction DEF ByKeyboard
  <2>2. MenuInv' BY <1>1, <2>1, MenuIsKept DEF KeysInv
  <2>3. PluginsInv' BY <1>1 DEF KeysInv, PluginsInv, plugins, connection
  <2> QED BY <2>1, <2>2, <2>3 DEF KeysInv
<1>4. \/ open' \subseteq open /\ UNCHANGED operations
      \/ \E a : Execute(a, open \ {"palette"})
  BY Zenon DEF KeyPalette
<1> QED BY <1>2, <1>3, <1>4

LEMMA KeyLeavesKeeps ==
    ASSUME KeysInv, KeyLeaves PROVE KeysInv'
<1>1. GuardIsForAnAction' BY GuardIsKept DEF KeysInv, KeyLeaves, operations
<1> QED BY <1>1, NothingIsPutUp DEF KeyLeaves, connection

LEMMA KeyTerminalKeeps ==
    ASSUME KeysInv, KeyTerminal PROVE KeysInv'
<1>1. open = {} /\ open' = {} /\ menu' = menu BY DEF KeyTerminal, overlays
<1>2. OverlaysInv' BY <1>1 DEF OverlaysInv
<1>3. MenuInv' BY <1>1, MenuIsKept DEF KeysInv
<1>4. GuardIsForAnAction' BY GuardIsKept DEF KeysInv, KeyTerminal, operations
<1>5. PluginsInv' BY DEF KeysInv, PluginsInv, KeyTerminal, plugins, connection
<1> QED BY <1>2, <1>3, <1>4, <1>5 DEF KeysInv

LEMMA EnsureKeepsPlugins ==
    ASSUME PluginsInv, EnsureCatalog, UNCHANGED generation PROVE PluginsInv'
BY DEF PluginsInv, EnsureCatalog

LEMMA KeyPrefixKeeps ==
    ASSUME KeysInv, KeyPrefix PROVE KeysInv'
<1>1. open = {} /\ mode' = "terminal" /\ menu' = menu /\ generation' = generation
  BY DEF KeyPrefix, connection
<1>2. \A x, y \in open' : x = y
  <2>1. \/ open' \in {{"manager"}, {"navigator"}, {"center"}, {}} \/ RequestClose
        \/ open' = {"prompt"} \/ open' = {"palette"} \/ open' = open
    BY DEF KeyPrefix
  <2>2. RequestClose => open' = {} \/ open' = {"confirm"} BY <1>1 DEF RequestClose
  <2> QED BY <1>1, <2>1, <2>2
<1>3. "menu" \notin open'
  <2>1. \/ open' \in {{"manager"}, {"navigator"}, {"center"}, {}} \/ RequestClose
        \/ open' = {"prompt"} \/ open' = {"palette"} \/ open' = open
    BY DEF KeyPrefix
  <2>2. RequestClose => open' = {} \/ open' = {"confirm"} BY <1>1 DEF RequestClose
  <2> QED BY <1>1, <2>1, <2>2
<1>4. OverlaysInv' BY <1>1, <1>2, OneIsPutUp
<1>5. MenuInv' BY <1>1, <1>3, MenuIsKept DEF KeysInv
<1>6. GuardIsForAnAction'
  <2>1. CASE UNCHANGED operations BY <2>1, GuardIsKept DEF KeysInv, operations
  <2>2. CASE PasteAtomically BY <2>2, GuardIsKept DEF KeysInv, PasteAtomically
  <2> QED BY <2>1, <2>2 DEF KeyPrefix
<1>7. PluginsInv'
  <2>1. CASE UNCHANGED plugins BY <1>1, <2>1 DEF KeysInv, PluginsInv, plugins
  <2>2. CASE EnsureCatalog BY <1>1, <2>2, EnsureKeepsPlugins DEF KeysInv
  <2> QED BY <2>1, <2>2 DEF KeyPrefix
<1> QED BY <1>4, <1>5, <1>6, <1>7 DEF KeysInv

LEMMA KeyHerdrPrefixKeeps ==
    ASSUME KeysInv, KeyHerdrPrefix PROVE KeysInv'
<1>1. GuardIsForAnAction'
  <2>1. CASE RunOperation("action") BY <2>1, RunKeepsGuard DEF KeysInv
  <2>2. CASE UNCHANGED operations BY <2>2, GuardIsKept DEF KeysInv, operations
  <2> QED BY <2>1, <2>2 DEF KeyHerdrPrefix
<1> QED BY <1>1, NothingIsPutUp DEF KeyHerdrPrefix, overlays, connection

LEMMA MouseOpensMenuKeeps ==
    ASSUME KeysInv, MouseOpensMenu PROVE KeysInv'
<1>1. /\ mode = "terminal" /\ mode' = "terminal" /\ open \subseteq {"approval"}
      /\ open' = open \cup {"menu"} /\ generation' = generation /\ UNCHANGED operations
  BY DEF MouseOpensMenu, connection
<1>2. \A x, y \in open' \cap ByKeyboard : x = y BY <1>1 DEF ByKeyboard
<1>3. OverlaysInv' BY <1>1, <1>2, OneIsPutUp
<1>4. PICK target \in MenuTargets :
          menu' = [target |-> target, selected |-> 1, pressed |-> 0,
                   actions |-> InsertPlugins(MenuEntries(target), catalog.actions, target)]
  BY DEF MouseOpensMenu
<1>5. target \in Context BY KeysAssumption
<1>6. PICK e \in Seq(Entry) :
          e = InsertPlugins(MenuEntries(target), catalog.actions, target) /\ Len(e) > 0
  BY <1>5, MenuIsNotEmpty DEF KeysInv, PluginsInv
<1>7. menu' = [target |-> target, selected |-> 1, pressed |-> 0, actions |-> e] BY <1>4, <1>6
<1>8. MenuInv'
  <2>1. menu' \in Menu BY <1>5, <1>7 DEF Menu
  <2>2. menu'.selected = 1 /\ menu'.actions = e BY <1>7
  <2>3. 1 \in 1 .. Len(e) BY <1>6
  <2> QED BY <2>1, <2>2, <2>3 DEF MenuInv
<1>9. GuardIsForAnAction' BY <1>1, GuardIsKept DEF KeysInv, operations
<1>10. PluginsInv' BY <1>1, EnsureKeepsPlugins DEF KeysInv, MouseOpensMenu
<1> QED BY <1>3, <1>8, <1>9, <1>10 DEF KeysInv

LEMMA TerminalPasteKeeps ==
    ASSUME KeysInv, TerminalPaste PROVE KeysInv'
<1>1. GuardIsForAnAction' BY GuardIsKept DEF KeysInv, TerminalPaste, PasteAtomically
<1> QED BY <1>1, NothingIsPutUp DEF TerminalPaste, overlays, connection

-----------------------------------------------------------------------------
LEMMA ActionResultKeeps ==
    ASSUME KeysInv, ActionResult PROVE KeysInv'
<1>1. GuardIsForAnAction' BY DEF ActionResult, GuardIsForAnAction
<1> QED BY <1>1, NothingIsPutUp DEF ActionResult, overlays, connection

LEMMA PairingEventKeeps ==
    ASSUME KeysInv, PairingEvent PROVE KeysInv'
<1>1. GuardIsForAnAction' BY GuardIsKept DEF KeysInv, PairingEvent, operations
<1>2. open' \cap ByKeyboard \subseteq open BY DEF PairingEvent, ByKeyboard
<1> QED BY <1>1, <1>2, NothingIsPutUp DEF PairingEvent, connection

LEMMA SaveEventKeeps ==
    ASSUME KeysInv, SaveEvent PROVE KeysInv'
<1>1. GuardIsForAnAction' BY GuardIsKept DEF KeysInv, SaveEvent, operations
<1> QED BY <1>1, NothingIsPutUp DEF SaveEvent, overlays, connection

LEMMA TargetStateKeeps ==
    ASSUME KeysInv, TargetState PROVE KeysInv'
<1>1. UNCHANGED <<overlays, mode, operations, plugins>> BY DEF TargetState
<1>2. generation' \in Nat BY DEF TargetState, KeysInv, PluginsInv
<1>3. OverlaysInv' BY <1>1, FewerOverlays DEF KeysInv, overlays
<1>4. MenuInv' BY <1>1, MenuIsKept DEF KeysInv, overlays
<1>5. GuardIsForAnAction' BY <1>1, GuardIsKept DEF KeysInv, operations
<1>6. PluginsInv' BY <1>1, <1>2 DEF KeysInv, PluginsInv, plugins
<1> QED BY <1>3, <1>4, <1>5, <1>6 DEF KeysInv

LEMMA QuitKeeps ==
    ASSUME KeysInv, Quit PROVE KeysInv'
<1>1. /\ open' = {} /\ mode' = "terminal" /\ menu' = NoMenu /\ inflight' = FALSE
      /\ catalog' = [gen |-> 0, actions |-> <<>>] /\ asked' = {} /\ generation' = generation
  BY DEF Quit, connection
<1>2. OverlaysInv' BY <1>1 DEF OverlaysInv
<1>3. MenuInv' BY <1>1, MenuIsGone
<1>4. GuardIsForAnAction' BY <1>1 DEF GuardIsForAnAction
<1>5. <<>> \in Seq(Context) OBVIOUS
<1>6. PluginsInv' BY <1>1, <1>5 DEF KeysInv, PluginsInv
<1> QED BY <1>2, <1>3, <1>4, <1>6 DEF KeysInv

\* PluginActions: the entries that arrive under an open menu leave its selection
\* on one of them.
LEMMA PluginActionsKeeps ==
    ASSUME KeysInv, NEW g \in 1 .. MaxGeneration, PluginActions(g) PROVE KeysInv'
<1>1. /\ asked' = asked \ {g} /\ UNCHANGED <<open, mode, operations, generation>>
  BY DEF PluginActions, connection
<1>2. g \in Nat BY KeysAssumption
<1>3. OverlaysInv' BY <1>1, FewerOverlays DEF KeysInv
<1>4. GuardIsForAnAction' BY <1>1, GuardIsKept DEF KeysInv, operations
<1>5. CASE UNCHANGED <<catalog, menu>>
  <2>1. MenuInv' BY <1>1, <1>5, MenuIsKept DEF KeysInv
  <2>2. PluginsInv' BY <1>1, <1>5 DEF KeysInv, PluginsInv
  <2> QED BY <1>3, <1>4, <2>1, <2>2 DEF KeysInv
<1>6. ASSUME NEW actions \in Catalogs, catalog' = [gen |-> g, actions |-> actions],
             menu' = IF "menu" \in open
                     THEN [menu EXCEPT
                              !.actions = InsertPlugins(MenuEntries(menu.target), actions, menu.target),
                              !.selected = Clamped(@, Len(InsertPlugins(MenuEntries(menu.target),
                                                                        actions, menu.target)))]
                     ELSE menu
      PROVE  KeysInv'
  <2>1. actions \in Seq(Context) BY KeysAssumption
  <2>2. PluginsInv' BY <1>1, <1>2, <1>6, <2>1 DEF KeysInv, PluginsInv
  <2>3. CASE "menu" \notin open
    <3>1. MenuInv' BY <1>1, <1>6, <2>3, MenuIsKept DEF KeysInv
    <3> QED BY <1>3, <1>4, <2>2, <3>1 DEF KeysInv
  <2>4. CASE "menu" \in open
    <3>1. menu \in Menu /\ menu.selected \in 1 .. Len(menu.actions)
      BY <2>4 DEF KeysInv, MenuInv
    <3>2. PICK target \in Context : target = menu.target BY <3>1 DEF Menu
    <3>3. PICK e \in Seq(Entry) :
              e = InsertPlugins(MenuEntries(target), actions, target) /\ Len(e) > 0
      BY <2>1, MenuIsNotEmpty
    <3>4. PICK s \in Nat : s = menu.selected /\ s > 0 BY <3>1 DEF Menu
    <3>5. PICK n \in Nat : n = Len(e) /\ n > 0 BY <3>3
    <3>6. PICK c \in 1 .. n : c = Clamped(s, n) BY <3>4, <3>5 DEF Clamped
    <3>7. menu' = [menu EXCEPT !.actions = e, !.selected = c]
      BY <1>6, <2>4, <3>2, <3>3, <3>4, <3>5, <3>6
    <3>8. menu' = [target |-> menu.target, actions |-> e, selected |-> c, pressed |-> menu.pressed]
      BY <3>1, <3>7 DEF Menu
    <3>9. menu' \in Menu BY <3>1, <3>6, <3>8 DEF Menu
    <3>10. menu'.selected = c /\ menu'.actions = e BY <3>8
    <3>11. MenuInv' BY <3>5, <3>9, <3>10 DEF MenuInv
    <3> QED BY <1>3, <1>4, <2>2, <3>11 DEF KeysInv
  <2> QED BY <2>3, <2>4
<1>7. \/ UNCHANGED <<catalog, menu>>
      \/ \E actions \in Catalogs :
             /\ catalog' = [gen |-> g, actions |-> actions]
             /\ menu' = IF "menu" \in open
                        THEN [menu EXCEPT
                                 !.actions = InsertPlugins(MenuEntries(menu.target), actions, menu.target),
                                 !.selected = Clamped(@, Len(InsertPlugins(MenuEntries(menu.target),
                                                                           actions, menu.target)))]
                        ELSE menu
  BY Zenon DEF PluginActions
<1> QED BY <1>5, <1>6, <1>7, Zenon

LEMMA PluginErrorKeeps ==
    ASSUME KeysInv, NEW g \in 1 .. MaxGeneration, PluginError(g) PROVE KeysInv'
<1>1. /\ asked' = asked \ {g} /\ UNCHANGED <<open, menu, mode, operations, generation>>
  BY DEF PluginError, overlays, connection
<1>6. catalog' = catalog \/ catalog' = [gen |-> g, actions |-> <<>>] BY DEF PluginError
<1>2. g \in Nat BY KeysAssumption
<1>3. OverlaysInv' BY <1>1, FewerOverlays DEF KeysInv
<1>4. MenuInv' BY <1>1, MenuIsKept DEF KeysInv
<1>5. GuardIsForAnAction' BY <1>1, GuardIsKept DEF KeysInv, operations
<1>7. PluginsInv'
  <2>1. CASE catalog' = catalog BY <1>1, <2>1 DEF KeysInv, PluginsInv
  <2>2. CASE catalog' = [gen |-> g, actions |-> <<>>]
    <3>1. PICK none : none = <<>> /\ none \in Seq(Context)
      <4>1. <<>> \in Seq(Context) OBVIOUS
      <4> QED BY <4>1, Zenon
    <3>2. catalog' = [gen |-> g, actions |-> none] BY <2>2, <3>1
    <3>3. catalog'.gen \in Nat /\ catalog'.actions \in Seq(Context) BY <1>2, <3>1, <3>2
    <3> QED BY <1>1, <3>3 DEF KeysInv, PluginsInv
  <2> QED BY <1>6, <2>1, <2>2
<1> QED BY <1>3, <1>4, <1>5, <1>7 DEF KeysInv

LEMMA KeysStutterKeeps ==
    ASSUME KeysInv, UNCHANGED keysVars PROVE KeysInv'
<1>1. UNCHANGED <<open, menu, mode, operations, plugins, generation>>
  BY DEF keysVars, overlays, connection
<1>2. GuardIsForAnAction' BY <1>1, GuardIsKept DEF KeysInv, operations
<1> QED BY <1>1, <1>2, NothingIsPutUp

LEMMA KeysStepKeeps ==
    ASSUME KeysInv, [KeysNext]_keysVars PROVE KeysInv'
BY KeyMenuKeeps, MouseMenuKeeps, KeyConfirmKeeps, KeyPromptKeeps, KeyPaletteKeeps, KeyLeavesKeeps,
   KeyTerminalKeeps, KeyPrefixKeeps, KeyHerdrPrefixKeeps, MouseOpensMenuKeeps, TerminalPasteKeeps,
   ActionResultKeeps, PairingEventKeeps, SaveEventKeeps, TargetStateKeeps, QuitKeeps,
   PluginActionsKeeps, PluginErrorKeeps, KeysStutterKeeps, Zenon DEF KeysNext

LEMMA KeysStartRight ==
    ASSUME KeysInit PROVE KeysInv
<1>1. <<>> \in Seq(Context) /\ <<>> \in Seq(Entry) OBVIOUS
<1>2. NoMenu \in Menu BY <1>1 DEF NoMenu, Menu, Context
<1>3. OverlaysInv /\ MenuInv BY <1>2 DEF KeysInit, OverlaysInv, MenuInv
<1>4. PluginsInv BY <1>1 DEF KeysInit, PluginsInv
<1>5. GuardIsForAnAction BY DEF KeysInit, GuardIsForAnAction
<1> QED BY <1>3, <1>4, <1>5 DEF KeysInv

LEMMA OneIsOpen ==
    ASSUME KeysInv PROVE OneOverlay /\ GuardIsForAnAction
<1>1. Cardinality(open \cap ByKeyboard) <= 1
  <2>1. CASE open \cap ByKeyboard = {} BY <2>1, FS_EmptySet
  <2>2. ASSUME NEW a \in open \cap ByKeyboard PROVE Cardinality(open \cap ByKeyboard) <= 1
    <3>1. open \cap ByKeyboard = {a} BY DEF KeysInv, OverlaysInv
    <3> QED BY <3>1, FS_Singleton
  <2> QED BY <2>1, <2>2
<1>2. "menu" \in open => menu.selected \in DOMAIN menu.actions
  BY DEF KeysInv, MenuInv, Menu
<1> QED BY <1>1, <1>2 DEF KeysInv, OverlaysInv, OneOverlay

\* PluginActions and Error: what is not older than the catalog replaces it.
LEMMA CatalogMovesOn ==
    ASSUME KeysInv, [KeysNext]_keysVars
    PROVE  [catalog'.gen >= catalog.gen \/ catalog'.gen = 0]_keysVars
<1>1. CASE UNCHANGED catalog BY <1>1 DEF KeysInv, PluginsInv
<1>2. CASE Quit BY <1>2 DEF Quit
<1>3. ASSUME NEW g \in 1 .. MaxGeneration, PluginActions(g) \/ PluginError(g)
      PROVE  catalog'.gen >= catalog.gen
  <2>1. g \in Nat /\ catalog.gen \in Nat BY KeysAssumption DEF KeysInv, PluginsInv
  <2>2. \/ catalog' = catalog
        \/ ~IsStale(g) /\ \E actions : catalog' = [gen |-> g, actions |-> actions]
    BY <1>3, Zenon DEF PluginActions, PluginError
  <2>3. ~IsStale(g) => ~(catalog.gen > g) BY DEF IsStale
  <2> QED BY <2>1, <2>2, <2>3
<1>4. \/ UNCHANGED catalog \/ Quit
      \/ \E g \in 1 .. MaxGeneration : PluginActions(g) \/ PluginError(g)
  BY DEF KeysNext, keysVars, plugins, KeyMenu, MouseMenu, KeyConfirm, KeyPromptEdit, KeyPromptFile,
     KeyPromptLabel, KeyPalette, KeyLeaves, KeyTerminal, KeyPrefix, KeyHerdrPrefix, MouseOpensMenu,
     TerminalPaste, ActionResult, PairingEvent, SaveEvent, TargetState, EnsureCatalog
<1> QED BY <1>1, <1>2, <1>3, <1>4

\* Whatever keys, clicks, results, catalogs and pairing events come in whichever
\* order: of the overlays a person opens one at most is open and none while a
\* prefix waits, a menu's selection is on one of its entries, the guard is held
\* for an action that is under way, and a catalog never gives way to an older one.
THEOREM OneOverlayAlways == KeysSpec => OneOverlayByKey
<1>1. KeysInit => KeysInv BY KeysStartRight
<1>2. KeysInv /\ [KeysNext]_keysVars => KeysInv' BY KeysStepKeeps
<1>3. KeysInv => OneOverlay /\ GuardIsForAnAction BY OneIsOpen
<1>4. KeysInv /\ [KeysNext]_keysVars => [catalog'.gen >= catalog.gen \/ catalog'.gen = 0]_keysVars
  BY CatalogMovesOn
<1> QED BY <1>1, <1>2, <1>3, <1>4, PTL DEF KeysSpec, OneOverlayByKey, CatalogNeverRegresses
=============================================================================
