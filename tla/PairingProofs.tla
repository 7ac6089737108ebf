--------------------------- MODULE PairingProofs ---------------------------
(***************************************************************************)
(* Theorems about Pairing.tla, for any number of browsers, codes, wrong    *)
(* guesses, approvals and revocations: a code opens one approval, device   *)
(* names stay unique, a prompt is never left on screen over an approval    *)
(* that is gone, and the bridge indexes what is published.                 *)
(***************************************************************************)
EXTENDS Pairing, FiniteSetTheorems, WellFoundedInduction, TLAPS

-----------------------------------------------------------------------------
(* The inductive invariant *)

Phase == {"idle", "forwarded", "matched", "waiting", "returning", "answered"}
Request ==
    [phase : Phase, code : 0..MaxCodes, via : {"bridge", "direct", None},
     name : Name \cup {None}, opened : Code \cup {None}]
Input == [type : {"requested", "decide"}, browser : Browser, approve : BOOLEAN]
Message == [type : {"required", "decided"}, browser : Browser]

\* What the queues carry, which the type invariant leaves open.
QueuesOK == inputs \in Seq(Input) /\ toTui \in Seq(Message)

\* A code that is outstanding has opened nothing, and no code has opened two.
CodesApart ==
    /\ pending # None => pending.code <= issued
    /\ \A b \in Browser : request[b].opened # None =>
          request[b].opened <= issued /\ (pending # None => pending.code # request[b].opened)
    /\ CodeOpensOne

\* The last thing sent to the bridge is what is published.
WireFollows ==
    ~changed => IF wire = <<>> THEN indexed \in {published, None}
                ELSE wire[Len(wire)] = published

\* A file as it was read for rewriting is one that had unique names.
Distinct(text) == \A d, e \in text : d.name = e.name => d = e
NamesApart ==
    /\ Distinct(file)
    /\ adding # None => Distinct(adding.text)
    /\ revoking # None => Distinct(revoking.text)

\* Where a browser's request is: on its way to the loop, in its table, being
\* added, or recorded in the file or in a copy of it.
Queued(b) == \E i \in 1..Len(inputs) : inputs[i].type = "requested" /\ inputs[i].browser = b
Tabled(b) == approvals[b] # None
Adding(b) == adding # None /\ adding.browser = b
Owns(text, b) == \E d \in text : d.owner = b
Recorded(b) ==
    \/ Owns(file, b)
    \/ adding # None /\ Owns(adding.text, b)
    \/ revoking # None /\ Owns(revoking.text, b)
Asked(b) == request[b].phase \in {"waiting", "returning", "answered"}

\* A request is in one of these places only, and in none before it is made.
InOnePlace(b) ==
    /\ Queued(b) => Asked(b) /\ ~Tabled(b) /\ request[b].name # None
    /\ Tabled(b) => Asked(b) /\ ~Adding(b)
    /\ Adding(b) => Asked(b) /\ ~Queued(b)
    /\ Recorded(b) => Asked(b) /\ ~Queued(b) /\ ~Tabled(b) /\ ~Adding(b)
    /\ request[b].phase = "matched" => request[b].name # None

QueuedOnce ==
    \A i, j \in 1..Len(inputs) :
        /\ inputs[i].type = "requested" /\ inputs[j].type = "requested"
        /\ inputs[i].browser = inputs[j].browser
        => i = j

\* A device is recorded once in a file.
Single(text) == \A d, e \in text : d.owner = e.owner => d = e
OwnersApart ==
    /\ Single(file)
    /\ adding # None => Single(adding.text)
    /\ revoking # None => Single(revoking.text)

\* A prompt shown, and one on its way, is about an approval still waiting, or
\* the word that it is over is behind it.
Current(b) == Tabled(b) \/ Adding(b)
OverAfter(b, i) == \E j \in 1..Len(toTui) : j > i /\ toTui[j] = Decided(b)
PromptsEnd ==
    /\ prompt # None => Current(prompt) \/ OverAfter(prompt, 0)
    /\ \A i \in 1..Len(toTui) : toTui[i].type = "required" =>
          Current(toTui[i].browser) \/ OverAfter(toTui[i].browser, i)

Placed == QueuedOnce /\ OwnersApart /\ \A b \in Browser : InOnePlace(b)

PairingInv ==
    /\ TypeOK /\ QueuesOK
    /\ CodesApart /\ WireFollows /\ NamesApart /\ Placed /\ PromptsEnd

-----------------------------------------------------------------------------
(* Sequences *)

LEMMA Taken ==
    ASSUME NEW S, NEW s \in Seq(S), s # <<>>
    PROVE  /\ Len(s) \in Nat \ {0} /\ Head(s) = s[1] /\ Head(s) \in S
           /\ Tail(s) \in Seq(S) /\ Len(Tail(s)) = Len(s) - 1
           /\ \A i \in 1..Len(Tail(s)) : Tail(s)[i] = s[i + 1] /\ i + 1 \in 1..Len(s)
           /\ \A i \in 1..Len(s) : i = 1 \/ (i - 1 \in 1..Len(Tail(s)) /\ Tail(s)[i - 1] = s[i])
<1>1. Len(s) \in Nat \ {0} /\ Head(s) = s[1] /\ Head(s) \in S
  OBVIOUS
<1>2. /\ Tail(s) \in Seq(S) /\ Len(Tail(s)) = Len(s) - 1
      /\ \A i \in 1..Len(Tail(s)) : Tail(s)[i] = s[i + 1] /\ i + 1 \in 1..Len(s)
  BY <1>1
<1>3. ASSUME NEW i \in 1..Len(s), i # 1
      PROVE  i - 1 \in 1..Len(Tail(s)) /\ Tail(s)[i - 1] = s[i]
  <2>1. i - 1 \in 1..Len(Tail(s)) /\ (i - 1) + 1 = i
    BY <1>1, <1>2, <1>3
  <2> QED
    BY <1>2, <2>1
<1> QED
  BY <1>1, <1>2, <1>3

LEMMA Sent ==
    ASSUME NEW S, NEW s \in Seq(S), NEW x \in S
    PROVE  /\ Append(s, x) \in Seq(S) /\ Len(s) \in Nat /\ Len(Append(s, x)) = Len(s) + 1
           /\ Append(s, x)[Len(s) + 1] = x /\ Append(s, x) # <<>>
           /\ \A i \in 1..Len(s) : i \in 1..Len(Append(s, x)) /\ Append(s, x)[i] = s[i]
           /\ \A i \in 1..Len(Append(s, x)) : i \in 1..Len(s) \/ i = Len(s) + 1
<1>1. /\ Append(s, x) \in Seq(S) /\ Len(s) \in Nat /\ Len(Append(s, x)) = Len(s) + 1
      /\ Append(s, x)[Len(s) + 1] = x
      /\ \A i \in 1..Len(s) : Append(s, x)[i] = s[i]
  OBVIOUS
<1>2. Append(s, x) # <<>>
  BY <1>1
<1> QED
  BY <1>1, <1>2

-----------------------------------------------------------------------------
(* Names *)

LEMMA ConstantsOK ==
    /\ Cardinality(Browser) \in Nat /\ Name \subseteq Nat /\ None \notin Name
    /\ Code \subseteq Nat /\ None \notin Code
<1>1. Cardinality(Browser) \in Nat
  BY PairingAssumption, FS_CardinalityType
<1> QED
  BY <1>1, PairingAssumption, NoneAssumption DEF Name, Code

\* unique_device_name finds a name: a file that has a browser's device once
\* has fewer devices than there are names.
LEMMA FreeName ==
    ASSUME NEW text \in SUBSET Device, Single(text)
    PROVE  UniqueDeviceName(text) \in Name
<1> DEFINE free == Name \ Names(text)
           device == [n \in Name |-> CHOOSE d \in text : d.name = n]
           owner == [n \in Name |-> device[n].owner]
<1>1. free # {}
  <2> SUFFICES ASSUME free = {} PROVE FALSE
    OBVIOUS
  <2>1. \A n \in Name : device[n] \in text /\ device[n].name = n
    BY DEF Names
  <2>2. owner \in [Name -> Browser]
    BY <2>1 DEF Device
  <2>3. IsFiniteSet(Name) /\ Cardinality(Browser) < Cardinality(Name)
    BY ConstantsOK, FS_Interval DEF Name
  <2> HIDE DEF owner
  <2>4. PICK m, n \in Name : m # n /\ owner[m] = owner[n]
    BY <2>2, <2>3, PairingAssumption, FS_PigeonHole
  <2>5. device[m].owner = device[n].owner
    BY <2>4 DEF owner
  <2> QED
    BY <2>1, <2>4, <2>5 DEF Single
<1> DEFINE less == {ss \in Nat \X Nat : ss[1] < ss[2]}
<1>2. \E x \in free : \A y \in free : <<y, x>> \notin less
  <2>1. free \subseteq Nat
    BY ConstantsOK
  <2>2. IsWellFoundedOn(less, Nat)
    BY NatLessThanWellFounded, Zenon DEF OpToRel
  <2> HIDE DEF less, free
  <2> QED
    BY <1>1, <2>1, <2>2, WFMin
<1>3. \E x \in free : \A y \in free : x <= y
  <2>1. PICK x \in free : \A y \in free : <<y, x>> \notin less
    BY <1>2
  <2>2. ASSUME NEW y \in free PROVE x <= y
    <3>1. x \in Nat /\ y \in Nat /\ <<y, x>> \notin less
      BY <2>1, ConstantsOK
    <3> QED
      BY <3>1
  <2> QED
    BY <2>2
<1> QED
  BY <1>3 DEF UniqueDeviceName, Min

-----------------------------------------------------------------------------
(* The parts that change alone: codes, what is published, names *)

\* Who changes the outstanding code or a request's.
LEMMA CodesFrame ==
    ASSUME TypeOK, Next
    PROVE  \/ IssuePairingCode
           \/ \E b \in Browser : PairMatches(b)
           \/ /\ issued' = issued
              /\ pending' # None => pending # None /\ pending'.code = pending.code
              /\ \A b \in Browser : request'[b].opened = request[b].opened
<1> DEFINE Kept == /\ issued' = issued
                   /\ pending' # None => pending # None /\ pending'.code = pending.code
                   /\ \A b \in Browser : request'[b].opened = request[b].opened
<1>0. request \in [Browser -> Request]
  BY DEF TypeOK, Request, Phase
<1>1. ASSUME NEW b \in Browser, Pair(b), ~PairMatches(b) PROVE Kept
  <2>1. ASSUME NEW code \in 0..issued, Submit(b, code, Via[b]) PROVE Kept
    BY <1>0, <2>1 DEF Submit, codes, Request
  <2>2. CASE PairRefuses(b)
    <3>1. /\ issued' = issued
          /\ \A a \in Browser : request'[a].opened = request[a].opened
      BY <1>0, <2>2 DEF PairRefuses, Refused, Request
    <3>2. pending' # None => pending # None /\ pending'.code = pending.code
      BY <2>2 DEF PairRefuses, TypeOK
    <3> QED
      BY <3>1, <3>2
  <2>3. CASE PairAsks(b)
    BY <1>0, <2>3 DEF PairAsks, Request
  <2>4. CASE ApprovalLate(b) \/ BrowserLeaves(b)
    BY <2>4 DEF ApprovalLate, BrowserLeaves, codes
  <2>5. CASE PairAnswers(b) \/ AnswerArrives(b)
    BY <1>0, <2>5 DEF PairAnswers, AnswerArrives, codes, Request
  <2> QED
    BY <1>1, <2>1, <2>2, <2>3, <2>4, <2>5 DEF Pair
<1>2. CASE CodeExpires
  BY <1>2 DEF CodeExpires, browsers, TypeOK
<1>3. CASE Bridge
  BY <1>3 DEF Bridge, SendPublication, RegisterCode, IndexExpires, ConnectorReconnects, browsers
<1>4. CASE Loop /\ ~IssuePairingCode
  BY <1>4 DEF Loop, TakeRequested, DecideAgainst, DecideFor, AddDeviceFile,
     SweepPairingApprovals, codes, browsers
<1>5. CASE TuiReads \/ (\E approve \in BOOLEAN : Answers(approve))
           \/ RevokeWrites \/ (\E name \in Name : RevokeReads(name))
  BY <1>5 DEF TuiReads, Answers, RevokeWrites, RevokeReads, codes, browsers
<1> QED
  BY <1>1, <1>2, <1>3, <1>4, <1>5 DEF Next

LEMMA CodesStep ==
    ASSUME TypeOK, CodesApart, Next
    PROVE  CodesApart'
<1>0. /\ request \in [Browser -> Request] /\ issued \in Nat
      /\ \A b \in Browser : request[b].opened # None => request[b].opened \in Nat
  <2>1. request \in [Browser -> Request] /\ issued \in Nat
    BY PairingAssumption DEF TypeOK, Request, Phase
  <2>2. ASSUME NEW b \in Browser, request[b].opened # None PROVE request[b].opened \in Nat
    <3>1. request[b] \in Request
      BY <2>1
    <3>2. request[b].opened \in Code \cup {None}
      BY <3>1 DEF Request
    <3> QED
      BY <2>2, <3>2, ConstantsOK
  <2> QED
    BY <2>1, <2>2
<1>1. CASE IssuePairingCode
  <2>1. /\ issued' = issued + 1 /\ pending'.code = issued + 1 /\ request' = request
    BY <1>1 DEF IssuePairingCode, browsers
  <2> QED
    BY <1>0, <2>1 DEF CodesApart, CodeOpensOne
<1>2. ASSUME NEW b \in Browser, PairMatches(b) PROVE CodesApart'
  <2>1. /\ pending # None /\ pending' = None /\ issued' = issued
        /\ request'[b].opened = pending.code
        /\ \A a \in Browser : a # b => request'[a] = request[a]
    BY <1>0, <1>2 DEF PairMatches, Matches, Request
  <2> QED
    BY <1>0, <2>1 DEF CodesApart, CodeOpensOne
<1>3. ASSUME issued' = issued,
             pending' # None => pending # None /\ pending'.code = pending.code,
             \A b \in Browser : request'[b].opened = request[b].opened
      PROVE  CodesApart'
  BY <1>3 DEF CodesApart, CodeOpensOne
<1> QED
  BY <1>1, <1>2, <1>3, CodesFrame

LEMMA WireStep ==
    ASSUME TypeOK, WireFollows, Next
    PROVE  WireFollows'
<1>0. wire \in Seq(Code \cup {None}) /\ changed \in BOOLEAN
  BY DEF TypeOK
<1>1. CASE SendPublication
  <2>1. wire' = Append(wire, published) /\ published' = published
    BY <1>1 DEF SendPublication
  <2>2. wire'[Len(wire')] = published /\ wire' # <<>>
    BY <1>0, <2>1, Sent DEF TypeOK
  <2> QED
    BY <2>1, <2>2 DEF WireFollows
<1>2. CASE RegisterCode
  <2>1. /\ wire # <<>> /\ wire' = Tail(wire) /\ indexed' = Head(wire)
        /\ UNCHANGED <<published, changed>>
    BY <1>2 DEF RegisterCode
  <2>2. /\ Len(wire) \in Nat \ {0} /\ Head(wire) = wire[1] /\ Len(wire') = Len(wire) - 1
        /\ wire' \in Seq(Code \cup {None})
    BY <1>0, <2>1, Taken
  <2>3. CASE wire' = <<>>
    BY <2>1, <2>2, <2>3 DEF WireFollows
  <2>4. CASE wire' # <<>>
    <3>1. Len(wire') \in 1..Len(wire') /\ Len(wire') + 1 = Len(wire)
      BY <2>2, <2>4
    <3>2. wire'[Len(wire')] = wire[Len(wire)]
      BY <1>0, <2>1, <3>1, Taken
    <3> QED
      BY <2>1, <2>4, <3>2 DEF WireFollows
  <2> QED
    BY <2>3, <2>4
<1>3. CASE IndexExpires
  BY <1>3 DEF IndexExpires, WireFollows
<1>4. CASE ConnectorReconnects
  BY <1>4 DEF ConnectorReconnects, WireFollows
<1>5. ASSUME NEW b \in Browser, Pair(b)
      PROVE  changed' \/ (UNCHANGED <<changed, published, wire>> /\ indexed' \in {indexed, None})
  BY <1>0, <1>5 DEF Pair, Submit, PairRefuses, PairMatches, PairAsks, ApprovalLate,
     PairAnswers, AnswerArrives, BrowserLeaves, Publish, codes
<1>6. CASE Loop
  BY <1>6 DEF Loop, IssuePairingCode, TakeRequested, DecideAgainst, DecideFor, AddDeviceFile,
     SweepPairingApprovals, Publish, codes, WireFollows
<1>7. CASE CodeExpires \/ TuiReads \/ (\E approve \in BOOLEAN : Answers(approve))
           \/ RevokeWrites \/ (\E name \in Name : RevokeReads(name))
  BY <1>7 DEF CodeExpires, TuiReads, Answers, RevokeWrites, RevokeReads, codes, WireFollows
<1>8. CASE \E b \in Browser : Pair(b)
  BY <1>0, <1>5, <1>8 DEF WireFollows
<1> QED
  BY <1>1, <1>2, <1>3, <1>4, <1>6, <1>7, <1>8 DEF Next, Bridge

LEMMA NamesStep ==
    ASSUME TypeOK, NamesApart, Next
    PROVE  NamesApart'
<1>1. CASE DecideFor
  BY <1>1 DEF DecideFor, NamesApart, disk
<1>2. CASE AddDeviceFile
  <2>1. /\ adding # None /\ adding' = None /\ revoking' = revoking
        /\ \/ file' = file
           \/ /\ adding.name \notin Names(adding.text)
              /\ file' = adding.text \cup {[name |-> adding.name, owner |-> adding.browser]}
    BY <1>2 DEF AddDeviceFile
  <2>2. Distinct(file')
    BY <2>1 DEF NamesApart, Distinct, Names
  <2> QED
    BY <2>1, <2>2 DEF NamesApart, Distinct
<1>3. CASE RevokeWrites
  BY <1>3 DEF RevokeWrites, NamesApart, Distinct, loop
<1>4. ASSUME NEW name \in Name, RevokeReads(name) PROVE NamesApart'
  BY <1>4 DEF RevokeReads, NamesApart, Distinct, loop
<1>5. ASSUME NEW b \in Browser, Pair(b) PROVE UNCHANGED <<file, adding, revoking>>
  BY <1>5 DEF Pair, Submit, PairRefuses, PairMatches, PairAsks, ApprovalLate,
     PairAnswers, AnswerArrives, BrowserLeaves, loop, disk
<1>6. CASE Bridge \/ CodeExpires \/ TuiReads \/ (\E approve \in BOOLEAN : Answers(approve))
           \/ IssuePairingCode \/ TakeRequested \/ DecideAgainst \/ SweepPairingApprovals
  <2>1. UNCHANGED <<file, adding, revoking>>
    BY <1>6 DEF Bridge, SendPublication, RegisterCode, IndexExpires, ConnectorReconnects,
       CodeExpires, TuiReads, Answers, IssuePairingCode, TakeRequested, DecideAgainst,
       SweepPairingApprovals, loop, disk
  <2> QED
    BY <2>1 DEF NamesApart
<1>7. CASE \E b \in Browser : Pair(b)
  BY <1>5, <1>7 DEF NamesApart
<1> QED
  BY <1>1, <1>2, <1>3, <1>4, <1>6, <1>7 DEF Next, Loop

-----------------------------------------------------------------------------
(* Types *)

LEMMA Followed ==
    ASSUME NEW S, NEW s \in Seq(S), NEW t \in Seq(S)
    PROVE  /\ s \o t \in Seq(S) /\ Len(s) \in Nat /\ Len(t) \in Nat
           /\ Len(s \o t) = Len(s) + Len(t)
           /\ \A i \in 1..Len(s) : i \in 1..Len(s \o t) /\ (s \o t)[i] = s[i]
           /\ \A i \in 1..Len(t) :
                 Len(s) + i \in 1..Len(s \o t) /\ (s \o t)[Len(s) + i] = t[i]
           /\ \A i \in 1..Len(s \o t) :
                 i \in 1..Len(s) \/ \E j \in 1..Len(t) : i = Len(s) + j
<1>1. Len(s) \in Nat /\ Len(t) \in Nat /\ s \o t \in Seq(S) /\ Len(s \o t) = Len(s) + Len(t)
  OBVIOUS
<1>2. \A i \in 1..(Len(s) + Len(t)) : (s \o t)[i] = IF i <= Len(s) THEN s[i] ELSE t[i - Len(s)]
  OBVIOUS
<1>3. ASSUME NEW i \in 1..Len(s) PROVE i \in 1..Len(s \o t) /\ (s \o t)[i] = s[i]
  BY <1>1, <1>2
<1>4. ASSUME NEW i \in 1..Len(t)
      PROVE  Len(s) + i \in 1..Len(s \o t) /\ (s \o t)[Len(s) + i] = t[i]
  <2>1. /\ Len(s) + i \in 1..(Len(s) + Len(t)) /\ ~(Len(s) + i <= Len(s))
        /\ (Len(s) + i) - Len(s) = i
    BY <1>1
  <2> QED
    BY <1>1, <1>2, <2>1
<1>5. ASSUME NEW i \in 1..Len(s \o t), i \notin 1..Len(s)
      PROVE  \E j \in 1..Len(t) : i = Len(s) + j
  <2>1. i - Len(s) \in 1..Len(t) /\ i = Len(s) + (i - Len(s))
    BY <1>1, <1>5
  <2> QED
    BY <2>1
<1> QED
  BY <1>1, <1>3, <1>4, <1>5

\* What the sweep tells: every stale approval is over, in some order.
LEMMA Swept ==
    ASSUME QueuesOK, SweepPairingApprovals
    PROVE  \E tell \in Seq(Message) :
              /\ toTui' = toTui \o tell
              /\ \A i \in 1..Len(tell) : tell[i].type = "decided"
              /\ \A b \in Stale : \E i \in 1..Len(tell) : tell[i] = Decided(b)
<1>0. PICK n : n = Cardinality(Stale)
  OBVIOUS
<1>1. PICK order \in [1..n -> Stale] :
         /\ \A b \in Stale : \E i \in DOMAIN order : order[i] = b
         /\ toTui' = toTui \o [i \in DOMAIN order |-> Decided(order[i])]
  BY <1>0 DEF SweepPairingApprovals
<1>2. Stale \subseteq Browser /\ n \in Nat
  <2>1. Stale \in SUBSET Browser
    BY DEF Stale
  <2>2. IsFiniteSet(Stale)
    BY <2>1, PairingAssumption, FS_Subset
  <2> QED
    BY <1>0, <2>1, <2>2, FS_CardinalityType
<1> DEFINE tell == [i \in 1..n |-> Decided(order[i])]
<1>3. tell \in Seq(Message) /\ Len(tell) = n
  <2>1. \A i \in 1..n : Decided(order[i]) \in Message
    BY <1>1, <1>2 DEF Decided, Message
  <2> QED
    BY <1>2, <2>1
<1>4. toTui' = toTui \o tell
  BY <1>1
<1>5. \A i \in 1..n : tell[i].type = "decided" /\ tell[i] = Decided(order[i])
  BY <1>1 DEF Decided
<1>6. \A b \in Stale : \E i \in 1..n : tell[i] = Decided(b)
  BY <1>1, <1>5
<1> QED
  BY <1>3, <1>4, <1>5, <1>6

\* An approval fits when there is room for it.
LEMMA RoomForOne ==
    ASSUME TypeOK, NEW b \in Browser, NEW name \in Name,
           Cardinality({a \in Browser : approvals[a] # None}) < MaxApprovals,
           approvals' = [approvals EXCEPT ![b] = name]
    PROVE  /\ approvals' \in [Browser -> Name \cup {None}]
           /\ Cardinality({a \in Browser : approvals'[a] # None}) <= MaxApprovals
<1> DEFINE old == {a \in Browser : approvals[a] # None}
           new == {a \in Browser : approvals'[a] # None}
<1>1. approvals' \in [Browser -> Name \cup {None}]
  BY DEF TypeOK
<1>2. old \in SUBSET Browser /\ new \in SUBSET (old \cup {b})
  <2>1. \A a \in Browser : a # b => approvals'[a] = approvals[a]
    BY DEF TypeOK
  <2>2. \A a \in new : a \in old \cup {b}
    BY <2>1
  <2> QED
    BY <2>2
<1>3. IsFiniteSet(old) /\ Cardinality(old) \in Nat
  BY <1>2, PairingAssumption, FS_Subset, FS_CardinalityType
<1>4. IsFiniteSet(old \cup {b}) /\ Cardinality(old \cup {b}) <= Cardinality(old) + 1
  <2> HIDE DEF old
  <2>1. /\ IsFiniteSet(old \cup {b})
        /\ Cardinality(old \cup {b}) =
              IF b \in old THEN Cardinality(old) ELSE Cardinality(old) + 1
    BY <1>3, FS_AddElement
  <2> QED
    BY <1>3, <2>1
<1>5. Cardinality(old \cup {b}) \in Nat
  BY <1>4, FS_CardinalityType
<1>6. Cardinality(new) <= Cardinality(old \cup {b}) /\ Cardinality(new) \in Nat
  BY <1>2, <1>4, FS_Subset, FS_CardinalityType
<1>7. Cardinality(old) < MaxApprovals
  OBVIOUS
<1> HIDE DEF old, new
<1>8. Cardinality(new) <= MaxApprovals
  BY <1>3, <1>4, <1>5, <1>6, <1>7, PairingAssumption
<1> QED
  BY <1>1, <1>8 DEF new

\* Approvals that go leave room.
LEMMA RoomForMore ==
    ASSUME TypeOK, approvals' \in [Browser -> Name \cup {None}],
           \A a \in Browser : approvals'[a] # None => approvals[a] # None
    PROVE  Cardinality({a \in Browser : approvals'[a] # None}) <= MaxApprovals
<1> DEFINE old == {a \in Browser : approvals[a] # None}
           new == {a \in Browser : approvals'[a] # None}
<1>1. old \in SUBSET Browser /\ new \in SUBSET old
  OBVIOUS
<1>2. IsFiniteSet(old) /\ Cardinality(old) \in Nat
  BY <1>1, PairingAssumption, FS_Subset, FS_CardinalityType
<1>3. Cardinality(new) <= Cardinality(old) /\ Cardinality(new) \in Nat
  BY <1>1, <1>2, FS_Subset, FS_CardinalityType
<1>4. Cardinality(old) <= MaxApprovals
  BY DEF TypeOK
<1> HIDE DEF old, new
<1>5. Cardinality(new) <= MaxApprovals
  BY <1>2, <1>3, <1>4, PairingAssumption
<1> QED
  BY <1>5 DEF new

\* The type invariant by part.
CodesOK ==
    /\ issued \in 0..MaxCodes
    /\ pending \in [code : Code, wrong : 0..(MaxAttempts - 1), expired : BOOLEAN] \cup {None}
    /\ published \in Code \cup {None} /\ changed \in BOOLEAN
    /\ wire \in Seq(Code \cup {None}) /\ indexed \in Code \cup {None}
BrowsersOK ==
    /\ there \in [Browser -> BOOLEAN] /\ late \in [Browser -> BOOLEAN]
    /\ request \in [Browser -> Request]
TableOK ==
    /\ approvals \in [Browser -> Name \cup {None}]
    /\ Cardinality({b \in Browser: approvals[b] # None}) <= MaxApprovals
DiskOK ==
    /\ adding \in Addition \cup {None}
    /\ file \in SUBSET Device
    /\ revoking \in [name : Name, text : SUBSET Device] \cup {None}
    /\ revoked \in SUBSET Browser
DecisionsOK == decision \in [Browser -> {"token", "refused", None}]
PromptOK == prompt \in Browser \cup {None}
Typed == CodesOK /\ BrowsersOK /\ TableOK /\ DiskOK /\ DecisionsOK /\ PromptOK /\ QueuesOK

LEMMA TypeIsTyped == TypeOK /\ QueuesOK <=> Typed
<1>1. QueuesOK => /\ \A i \in 1..Len(inputs) : inputs[i].browser \in Browser
                  /\ \A i \in 1..Len(toTui) : toTui[i].browser \in Browser
  <2>1. ASSUME QueuesOK, NEW i \in 1..Len(inputs) PROVE inputs[i] \in Input
    BY <2>1 DEF QueuesOK
  <2>2. ASSUME QueuesOK, NEW i \in 1..Len(toTui) PROVE toTui[i] \in Message
    BY <2>2 DEF QueuesOK
  <2> QED
    BY <2>1, <2>2 DEF Input, Message
<1> QED
  BY <1>1 DEF Typed, TypeOK, CodesOK, BrowsersOK, TableOK, DiskOK, DecisionsOK, PromptOK,
     Request, Phase

LEMMA CodesTyped ==
    ASSUME Typed, Next
    PROVE  CodesOK'
<1> USE DEF Typed, CodesOK
<1>1. CASE IssuePairingCode
  <2>1. issued + 1 \in Code /\ issued + 1 \in 0..MaxCodes /\ 0 \in 0..(MaxAttempts - 1)
    BY <1>1, PairingAssumption DEF IssuePairingCode, Code
  <2> QED
    BY <1>1, <2>1 DEF IssuePairingCode, Publish
<1>2. CASE CodeExpires
  BY <1>2 DEF CodeExpires
<1>3. CASE SendPublication
  <2>1. Append(wire, published) \in Seq(Code \cup {None})
    BY Sent
  <2> QED
    BY <1>3, <2>1 DEF SendPublication
<1>4. CASE RegisterCode
  <2>1. Head(wire) \in Code \cup {None} /\ Tail(wire) \in Seq(Code \cup {None})
    BY <1>4, Taken DEF RegisterCode
  <2> QED
    BY <1>4, <2>1 DEF RegisterCode
<1>5. CASE IndexExpires
  BY <1>5 DEF IndexExpires
<1>9. CASE ConnectorReconnects
  <2>1. changed' \in BOOLEAN
    BY <1>9, Zenon DEF ConnectorReconnects
  <2>2. /\ wire' \in Seq(Code \cup {None}) /\ indexed' = None
        /\ UNCHANGED <<issued, pending, published>>
    BY <1>9 DEF ConnectorReconnects
  <2> QED
    BY <2>1, <2>2
<1>6. ASSUME NEW b \in Browser, Pair(b) PROVE CodesOK'
  <2>1. CASE PairRefuses(b)
    <3>1. UNCHANGED <<issued, wire, indexed>>
      BY <2>1 DEF PairRefuses
    <3>2. pending' = None \/ pending' = pending
          \/ (pending # None /\ pending.wrong + 1 < MaxAttempts
              /\ pending' = [pending EXCEPT !.wrong = @ + 1])
      BY <2>1, PairingAssumption DEF PairRefuses, Code
    <3>3. pending' \in [code : Code, wrong : 0..(MaxAttempts - 1), expired : BOOLEAN] \cup {None}
      BY <3>2, PairingAssumption
    <3>4. (published' = published /\ changed' = changed) \/ (published' = None /\ changed' = TRUE)
      BY <2>1 DEF PairRefuses, Publish
    <3> QED
      BY <3>1, <3>3, <3>4
  <2>2. CASE PairMatches(b)
    BY <2>2 DEF PairMatches
  <2>3. CASE PairAsks(b)
    BY <2>3 DEF PairAsks, Publish
  <2>4. CASE AnswerArrives(b)
    BY <2>4 DEF AnswerArrives
  <2>5. ASSUME NEW code \in 0..issued, Submit(b, code, Via[b]) PROVE CodesOK'
    BY <2>5 DEF Submit, codes
  <2>6. CASE ApprovalLate(b) \/ PairAnswers(b) \/ BrowserLeaves(b)
    BY <2>6 DEF ApprovalLate, PairAnswers, BrowserLeaves, codes
  <2> QED
    BY <1>6, <2>1, <2>2, <2>3, <2>4, <2>5, <2>6 DEF Pair
<1>7. CASE Loop /\ ~IssuePairingCode
  BY <1>7 DEF Loop, TakeRequested, DecideAgainst, DecideFor, AddDeviceFile,
     SweepPairingApprovals, codes
<1>8. CASE TuiReads \/ (\E approve \in BOOLEAN : Answers(approve))
           \/ RevokeWrites \/ (\E name \in Name : RevokeReads(name))
  BY <1>8 DEF TuiReads, Answers, RevokeWrites, RevokeReads, codes
<1> QED
  BY <1>1, <1>2, <1>3, <1>4, <1>5, <1>6, <1>7, <1>8, <1>9 DEF Next, Bridge

LEMMA BrowsersTyped ==
    ASSUME Typed, Placed, Next
    PROVE  BrowsersOK'
<1> USE DEF Typed, BrowsersOK
<1>1. CASE ConnectorReconnects
  BY <1>1 DEF ConnectorReconnects
<1>2. ASSUME NEW b \in Browser, Pair(b) PROVE BrowsersOK'
  <2>0. request[b] \in Request
    OBVIOUS
  <2>1. ASSUME NEW code \in 0..issued, Submit(b, code, Via[b]) PROVE BrowsersOK'
    <3>1. code \in 0..MaxCodes /\ Via[b] \in {"bridge", "direct"}
      BY <2>1, PairingAssumption DEF CodesOK
    <3> QED
      BY <2>0, <2>1, <3>1 DEF Submit, Request, Phase
  <2>2. CASE PairRefuses(b)
    BY <2>0, <2>2 DEF PairRefuses, Refused, Request, Phase
  <2>3. CASE PairMatches(b)
    <3>1. UniqueDeviceName(file) \in Name
      BY FreeName DEF DiskOK, Placed, OwnersApart
    <3>2. pending # None /\ pending.code \in Code
      BY <2>3 DEF PairMatches, Matches, CodesOK
    <3> QED
      BY <2>0, <2>3, <3>1, <3>2 DEF PairMatches, Request, Phase
  <2>4. CASE PairAsks(b)
    BY <2>0, <2>4 DEF PairAsks, Request, Phase
  <2>5. CASE ApprovalLate(b) \/ BrowserLeaves(b)
    BY <2>5 DEF ApprovalLate, BrowserLeaves
  <2>6. CASE PairAnswers(b) \/ AnswerArrives(b)
    BY <2>0, <2>6 DEF PairAnswers, AnswerArrives, Request, Phase
  <2> QED
    BY <1>2, <2>1, <2>2, <2>3, <2>4, <2>5, <2>6 DEF Pair
<1>3. CASE CodeExpires \/ SendPublication \/ RegisterCode \/ IndexExpires
  BY <1>3 DEF CodeExpires, SendPublication, RegisterCode, IndexExpires, browsers
<1>4. CASE Loop
  BY <1>4 DEF Loop, IssuePairingCode, TakeRequested, DecideAgainst, DecideFor, AddDeviceFile,
     SweepPairingApprovals, browsers
<1>5. CASE TuiReads \/ (\E approve \in BOOLEAN : Answers(approve))
           \/ RevokeWrites \/ (\E name \in Name : RevokeReads(name))
  BY <1>5 DEF TuiReads, Answers, RevokeWrites, RevokeReads, browsers
<1> QED
  BY <1>1, <1>2, <1>3, <1>4, <1>5 DEF Next, Bridge

\* What the loop takes is an input, and a request that is taken was queued.
LEMMA HeadOfInputs ==
    ASSUME QueuesOK, NEW type, Take(type)
    PROVE  /\ Head(inputs) \in Input /\ Head(inputs).browser \in Browser
           /\ inputs # <<>> /\ inputs' = Tail(inputs) /\ Tail(inputs) \in Seq(Input)
           /\ Head(inputs).type = type /\ adding = None
           /\ type = "requested" => Queued(Head(inputs).browser)
<1>1. /\ inputs # <<>> /\ inputs' = Tail(inputs) /\ Head(inputs).type = type /\ adding = None
      /\ inputs \in Seq(Input)
  BY DEF Take, QueuesOK
<1>2. /\ Head(inputs) \in Input /\ Tail(inputs) \in Seq(Input)
      /\ Head(inputs) = inputs[1] /\ 1 \in 1..Len(inputs)
  BY <1>1, Taken
<1>3. Head(inputs).browser \in Browser
  BY <1>2 DEF Input
<1> QED
  BY <1>1, <1>2, <1>3 DEF Queued

LEMMA TableTyped ==
    ASSUME Typed, Placed, Next
    PROVE  TableOK'
<1>0. TypeOK /\ TableOK
  BY TypeIsTyped DEF Typed
<1>1. CASE TakeRequested
  <2>1. PICK b : b = Head(inputs).browser
    OBVIOUS
  <2>2. b \in Browser /\ Queued(b)
    BY <1>1, <2>1, HeadOfInputs DEF TakeRequested, Typed
  <2>3. request[b].name \in Name
    <3>1. request[b] \in Request /\ request[b].name # None
      BY <2>2 DEF Typed, BrowsersOK, Placed, InOnePlace
    <3> QED
      BY <3>1 DEF Request
  <2>4. \/ approvals' = approvals
        \/ /\ Cardinality({a \in Browser: approvals[a] # None}) < MaxApprovals
           /\ approvals' = [approvals EXCEPT ![b] = request[b].name]
    BY <1>1, <2>1 DEF TakeRequested
  <2> QED
    BY <1>0, <2>2, <2>3, <2>4, RoomForOne DEF TableOK
<1>2. CASE DecideAgainst \/ DecideFor
  <2>1. approvals' = [approvals EXCEPT ![Head(inputs).browser] = None]
    BY <1>2 DEF DecideAgainst, DecideFor
  <2>2. /\ approvals' \in [Browser -> Name \cup {None}]
        /\ \A a \in Browser : approvals'[a] # None => approvals[a] # None
    BY <1>0, <2>1 DEF TableOK
  <2> QED
    BY <1>0, <2>2, RoomForMore DEF TableOK
<1>3. CASE SweepPairingApprovals
  <2>1. approvals' = [b \in Browser |-> IF b \in Stale THEN None ELSE approvals[b]]
    BY <1>3 DEF SweepPairingApprovals
  <2>2. /\ approvals' \in [Browser -> Name \cup {None}]
        /\ \A a \in Browser : approvals'[a] # None => approvals[a] # None
    BY <1>0, <2>1 DEF TableOK
  <2> QED
    BY <1>0, <2>2, RoomForMore DEF TableOK
<1>4. CASE IssuePairingCode \/ AddDeviceFile \/ CodeExpires \/ Bridge
           \/ TuiReads \/ (\E approve \in BOOLEAN : Answers(approve))
           \/ RevokeWrites \/ (\E name \in Name : RevokeReads(name))
  <2>1. approvals' = approvals
    BY <1>4 DEF IssuePairingCode, AddDeviceFile, CodeExpires, Bridge, SendPublication,
       RegisterCode, IndexExpires, ConnectorReconnects, TuiReads, Answers, RevokeWrites,
       RevokeReads, loop
  <2> QED
    BY <1>0, <2>1 DEF TableOK
<1>5. ASSUME NEW b \in Browser, Pair(b) PROVE approvals' = approvals
  BY <1>5 DEF Pair, Submit, PairRefuses, PairMatches, PairAsks, ApprovalLate,
     PairAnswers, AnswerArrives, BrowserLeaves, loop
<1>6. CASE \E b \in Browser : Pair(b)
  BY <1>0, <1>5, <1>6 DEF TableOK
<1> QED
  BY <1>1, <1>2, <1>3, <1>4, <1>6 DEF Next, Loop

LEMMA DiskTyped ==
    ASSUME Typed, Next
    PROVE  DiskOK'
<1> USE DEF Typed
<1>1. CASE DecideFor
  <2>1. Head(inputs).browser \in Browser
    BY <1>1, HeadOfInputs DEF DecideFor
  <2>2. adding' \in Addition
    BY <1>1, <2>1 DEF DecideFor, TableOK, DiskOK, Addition
  <2> QED
    BY <1>1, <2>2 DEF DecideFor, DiskOK, disk
<1>2. CASE AddDeviceFile
  <2>1. adding \in Addition
    BY <1>2 DEF AddDeviceFile, DiskOK
  <2>2. [name |-> adding.name, owner |-> adding.browser] \in Device /\ adding.text \in SUBSET Device
    BY <2>1 DEF Addition, Device
  <2> QED
    BY <1>2, <2>2 DEF AddDeviceFile, DiskOK
<1>3. CASE RevokeWrites
  <2>1. revoking.text \in SUBSET Device
    BY <1>3 DEF RevokeWrites, DiskOK
  <2> QED
    BY <1>3, <2>1 DEF RevokeWrites, DiskOK, Device, loop
<1>4. ASSUME NEW name \in Name, RevokeReads(name) PROVE DiskOK'
  BY <1>4 DEF RevokeReads, DiskOK, loop
<1>5. ASSUME NEW b \in Browser, Pair(b) PROVE UNCHANGED <<adding, disk>>
  BY <1>5 DEF Pair, Submit, PairRefuses, PairMatches, PairAsks, ApprovalLate,
     PairAnswers, AnswerArrives, BrowserLeaves, loop
<1>6. CASE Bridge \/ CodeExpires \/ TuiReads \/ (\E approve \in BOOLEAN : Answers(approve))
           \/ IssuePairingCode \/ TakeRequested \/ DecideAgainst \/ SweepPairingApprovals
  <2>1. UNCHANGED <<adding, disk>>
    BY <1>6 DEF Bridge, SendPublication, RegisterCode, IndexExpires, ConnectorReconnects,
       CodeExpires, TuiReads, Answers, IssuePairingCode, TakeRequested, DecideAgainst,
       SweepPairingApprovals, loop
  <2> QED
    BY <2>1 DEF DiskOK, disk
<1>7. CASE \E b \in Browser : Pair(b)
  BY <1>5, <1>7 DEF DiskOK, disk
<1> QED
  BY <1>1, <1>2, <1>3, <1>4, <1>6, <1>7 DEF Next, Loop

LEMMA QueuesTyped ==
    ASSUME Typed, Next
    PROVE  QueuesOK' /\ DecisionsOK' /\ PromptOK'
<1> USE DEF Typed
<1>0. inputs \in Seq(Input) /\ toTui \in Seq(Message)
  BY DEF QueuesOK
<1>1. ASSUME NEW b \in Browser
      PROVE  /\ Requested(b) \in Input /\ \A approve \in BOOLEAN : Decide(b, approve) \in Input
             /\ Required(b) \in Message /\ Decided(b) \in Message
  BY DEF Requested, Decide, Required, Decided, Input, Message
<1>2. CASE TakeRequested \/ DecideAgainst \/ DecideFor
  <2>1. PICK b : b = Head(inputs).browser
    OBVIOUS
  <2>2. b \in Browser /\ inputs' \in Seq(Input)
    BY <1>2, <2>1, HeadOfInputs DEF TakeRequested, DecideAgainst, DecideFor
  <2>3. toTui' \in {toTui, Append(toTui, Required(b)), Append(toTui, Decided(b))}
    BY <1>2, <2>1 DEF TakeRequested, DecideAgainst, DecideFor, Tell, tui
  <2>4. toTui' \in Seq(Message)
    <3>1. Append(toTui, Required(b)) \in Seq(Message) /\ Append(toTui, Decided(b)) \in Seq(Message)
      BY <1>0, <1>1, <2>2, Sent
    <3> QED
      BY <1>0, <2>3, <3>1
  <2>5. decision' = decision \/ decision' = [decision EXCEPT ![b] = IF Closed(b) THEN @ ELSE "refused"]
    BY <1>2, <2>1 DEF TakeRequested, DecideAgainst, DecideFor, Send
  <2>6. prompt' = prompt
    BY <1>2 DEF TakeRequested, DecideAgainst, DecideFor, tui
  <2> QED
    BY <2>2, <2>4, <2>5, <2>6 DEF QueuesOK, DecisionsOK, PromptOK
<1>3. CASE AddDeviceFile
  <2>1. PICK b : b = adding.browser
    OBVIOUS
  <2>2. b \in Browser
    BY <1>3, <2>1 DEF AddDeviceFile, DiskOK, Addition
  <2>3. /\ toTui' = Append(toTui, Decided(b)) /\ UNCHANGED <<inputs, prompt>>
        /\ \E what \in {"refused", "token"} :
              decision' = [decision EXCEPT ![b] = IF Closed(b) THEN @ ELSE what]
    BY <1>3, <2>1 DEF AddDeviceFile, Tell, Send
  <2>4. toTui' \in Seq(Message)
    BY <1>0, <1>1, <2>2, <2>3, Sent
  <2> QED
    BY <1>0, <2>2, <2>3, <2>4 DEF QueuesOK, DecisionsOK, PromptOK
<1>4. CASE SweepPairingApprovals
  <2>1. PICK tell \in Seq(Message) : toTui' = toTui \o tell
    BY <1>4, Swept
  <2>2. toTui' \in Seq(Message)
    BY <1>0, <2>1, Followed
  <2>3. /\ decision' = [b \in Browser |-> IF b \in Stale /\ ~Closed(b) THEN "refused" ELSE decision[b]]
        /\ UNCHANGED <<inputs, prompt>>
    BY <1>4 DEF SweepPairingApprovals
  <2> QED
    BY <1>0, <2>2, <2>3 DEF QueuesOK, DecisionsOK, PromptOK
<1>5. CASE TuiReads
  <2>1. Head(toTui) \in Message /\ Tail(toTui) \in Seq(Message)
    BY <1>0, <1>5, Taken DEF TuiReads
  <2>2. Head(toTui).browser \in Browser
    BY <2>1 DEF Message
  <2> QED
    BY <1>0, <1>5, <2>1, <2>2 DEF TuiReads, QueuesOK, DecisionsOK, PromptOK, loop
<1>6. ASSUME NEW approve \in BOOLEAN, Answers(approve) PROVE QueuesOK' /\ DecisionsOK' /\ PromptOK'
  <2>1. prompt \in Browser
    BY <1>6 DEF Answers, PromptOK
  <2>2. Append(inputs, Decide(prompt, approve)) \in Seq(Input)
    BY <1>0, <1>1, <2>1, Sent
  <2> QED
    BY <1>0, <1>6, <2>2 DEF Answers, QueuesOK, DecisionsOK, PromptOK
<1>7. ASSUME NEW b \in Browser, Pair(b) PROVE QueuesOK' /\ DecisionsOK' /\ PromptOK'
  <2>1. CASE PairAsks(b)
    <3>1. Append(inputs, Requested(b)) \in Seq(Input)
      BY <1>0, <1>1, Sent
    <3> QED
      BY <1>0, <2>1, <3>1 DEF PairAsks, QueuesOK, DecisionsOK, PromptOK, tui
  <2>2. CASE ~PairAsks(b)
    <3>1. UNCHANGED <<inputs, decision, toTui, prompt>>
      BY <1>7, <2>2 DEF Pair, Submit, PairRefuses, PairMatches, ApprovalLate,
         PairAnswers, AnswerArrives, BrowserLeaves, loop, tui
    <3> QED
      BY <3>1 DEF QueuesOK, DecisionsOK, PromptOK
  <2> QED
    BY <2>1, <2>2
<1>8. CASE IssuePairingCode \/ CodeExpires \/ Bridge
           \/ RevokeWrites \/ (\E name \in Name : RevokeReads(name))
  <2>1. UNCHANGED <<inputs, decision, toTui, prompt>>
    BY <1>8 DEF IssuePairingCode, CodeExpires, Bridge, SendPublication,
       RegisterCode, IndexExpires, ConnectorReconnects, RevokeWrites, RevokeReads, loop, tui
  <2> QED
    BY <2>1 DEF QueuesOK, DecisionsOK, PromptOK
<1> QED
  BY <1>2, <1>3, <1>4, <1>5, <1>6, <1>7, <1>8 DEF Next, Loop

-----------------------------------------------------------------------------
(* Where a request is *)

LEMMA QueueTaken ==
    ASSUME QueuesOK, QueuedOnce, inputs # <<>>, inputs' = Tail(inputs)
    PROVE  /\ QueuedOnce'
           /\ \A b : Queued(b)' => Queued(b)
           /\ \A c : Head(inputs).type = "requested" /\ c = Head(inputs).browser => ~Queued(c)'
<1>1. /\ Len(inputs) \in Nat \ {0} /\ Head(inputs) = inputs[1] /\ Len(inputs') = Len(inputs) - 1
      /\ \A i \in 1..Len(inputs') : inputs'[i] = inputs[i + 1] /\ i + 1 \in 1..Len(inputs)
  BY Taken DEF QueuesOK
<1>2. QueuedOnce'
  BY <1>1 DEF QueuedOnce
<1>3. \A b : Queued(b)' => Queued(b)
  BY <1>1 DEF Queued
<1>4. ASSUME Head(inputs).type = "requested", NEW i \in 1..Len(inputs'),
             inputs'[i].type = "requested", inputs'[i].browser = Head(inputs).browser
      PROVE  FALSE
  <2>1. /\ i + 1 \in 1..Len(inputs) /\ i + 1 # 1 /\ inputs[i + 1] = inputs'[i]
        /\ 1 \in 1..Len(inputs)
    BY <1>1
  <2> QED
    BY <1>1, <1>4, <2>1 DEF QueuedOnce
<1>5. ASSUME NEW c, Head(inputs).type = "requested", c = Head(inputs).browser
      PROVE  ~Queued(c)'
  BY <1>4, <1>5 DEF Queued
<1> QED
  BY <1>2, <1>3, <1>5

LEMMA QueueSent ==
    ASSUME QueuesOK, QueuedOnce, NEW m \in Input, inputs' = Append(inputs, m),
           m.type = "requested" => ~Queued(m.browser)
    PROVE  /\ QueuedOnce'
           /\ \A b : Queued(b)' <=> Queued(b) \/ (m.type = "requested" /\ m.browser = b)
<1>1. /\ Len(inputs) \in Nat /\ Len(inputs') = Len(inputs) + 1
      /\ inputs'[Len(inputs) + 1] = m
      /\ \A i \in 1..Len(inputs) : i \in 1..Len(inputs') /\ inputs'[i] = inputs[i]
      /\ \A i \in 1..Len(inputs') : i \in 1..Len(inputs) \/ i = Len(inputs) + 1
  BY Sent DEF QueuesOK
<1>2. QueuedOnce'
  BY <1>1 DEF QueuedOnce, Queued
<1>3. \A b : Queued(b)' <=> Queued(b) \/ (m.type = "requested" /\ m.browser = b)
  BY <1>1 DEF Queued
<1> QED
  BY <1>2, <1>3

\* A request moves on, and everything else stays where it is.
LEMMA PlacesStay ==
    ASSUME Placed, UNCHANGED <<inputs, approvals, adding, file, revoking>>,
           \A b \in Browser : Asked(b) => Asked(b)' /\ request'[b].name = request[b].name,
           \A b \in Browser : request'[b].phase = "matched" => request'[b].name # None
    PROVE  Placed'
<1>1. QueuedOnce' /\ OwnersApart'
  BY DEF Placed, QueuedOnce, OwnersApart
<1>2. ASSUME NEW b \in Browser PROVE InOnePlace(b)'
  <2>1. /\ Queued(b)' = Queued(b) /\ Tabled(b)' = Tabled(b) /\ Adding(b)' = Adding(b)
        /\ Recorded(b)' = Recorded(b)
    BY DEF Queued, Tabled, Adding, Recorded
  <2> QED
    BY <2>1 DEF Placed, InOnePlace
<1> QED
  BY <1>1, <1>2 DEF Placed

LEMMA RequestMoves ==
    ASSUME Typed, Placed, NEW b \in Browser, Pair(b)
    PROVE  Placed'
<1>0. request \in [Browser -> Request]
  BY DEF Typed, BrowsersOK
<1>1. ASSUME NEW code \in 0..issued, Submit(b, code, Via[b]) PROVE Placed'
  <2>1. /\ UNCHANGED <<inputs, approvals, adding, file, revoking>>
        /\ request[b].phase = "idle" /\ request'[b].phase = "forwarded"
        /\ \A a \in Browser : a # b => request'[a] = request[a]
    BY <1>0, <1>1 DEF Submit, Request, loop, disk
  <2> QED
    BY <2>1, PlacesStay DEF Asked, Placed, InOnePlace
<1>2. CASE PairRefuses(b) \/ PairAnswers(b) \/ AnswerArrives(b)
  <2>1. /\ UNCHANGED <<inputs, approvals, adding, file, revoking>>
        /\ request'[b].phase \in {"returning", "answered"} /\ request'[b].name = request[b].name
        /\ \A a \in Browser : a # b => request'[a] = request[a]
    BY <1>0, <1>2 DEF PairRefuses, Refused, PairAnswers, AnswerArrives, Request, loop, disk
  <2> QED
    BY <2>1, PlacesStay DEF Asked, Placed, InOnePlace
<1>3. CASE PairMatches(b)
  <2>1. /\ UNCHANGED <<inputs, approvals, adding, file, revoking>>
        /\ request[b].phase = "forwarded"
        /\ request'[b].phase = "matched" /\ request'[b].name = UniqueDeviceName(file)
        /\ \A a \in Browser : a # b => request'[a] = request[a]
    BY <1>0, <1>3 DEF PairMatches, Matches, Request, loop, disk
  <2>2. UniqueDeviceName(file) # None
    BY FreeName, ConstantsOK DEF Typed, DiskOK, Placed, OwnersApart
  <2> QED
    BY <2>1, <2>2, PlacesStay DEF Asked, Placed, InOnePlace
<1>4. CASE PairAsks(b)
  <2>1. /\ UNCHANGED <<approvals, adding, file, revoking>> /\ inputs' = Append(inputs, Requested(b))
        /\ request[b].phase = "matched"
        /\ request'[b].phase = "waiting" /\ request'[b].name = request[b].name
        /\ \A a \in Browser : a # b => request'[a] = request[a]
    BY <1>0, <1>4 DEF PairAsks, Request, disk
  <2>2. ~Asked(b) /\ ~Queued(b)
    BY <2>1 DEF Asked, Placed, InOnePlace
  <2>3. Requested(b) \in Input /\ Requested(b).type = "requested" /\ Requested(b).browser = b
    BY DEF Requested, Input
  <2>4. QueuedOnce' /\ \A a : Queued(a)' <=> Queued(a) \/ a = b
    BY <2>1, <2>2, <2>3, QueueSent DEF Typed, Placed
  <2>5. ASSUME NEW a \in Browser PROVE InOnePlace(a)'
    <3>1. Tabled(a)' = Tabled(a) /\ Adding(a)' = Adding(a) /\ Recorded(a)' = Recorded(a)
      BY <2>1 DEF Tabled, Adding, Recorded
    <3> QED
      BY <2>1, <2>2, <2>4, <3>1 DEF Asked, Placed, InOnePlace
  <2> QED
    BY <2>1, <2>4, <2>5 DEF Placed, OwnersApart
<1>5. CASE ApprovalLate(b) \/ BrowserLeaves(b)
  <2>1. UNCHANGED <<inputs, approvals, adding, file, revoking, request>>
    BY <1>5 DEF ApprovalLate, BrowserLeaves, loop, disk
  <2> QED
    BY <2>1, PlacesStay DEF Asked, Placed, InOnePlace
<1> QED
  BY <1>1, <1>2, <1>3, <1>4, <1>5 DEF Pair

LEMMA LoopPlaces ==
    ASSUME Typed, Placed, TakeRequested \/ DecideAgainst \/ DecideFor
    PROVE  Placed'
<1> PICK b : b = Head(inputs).browser
  OBVIOUS
<1>1. /\ b \in Browser /\ inputs # <<>> /\ inputs' = Tail(inputs) /\ adding = None
      /\ Head(inputs).type = "requested" => Queued(b)
  BY HeadOfInputs DEF TakeRequested, DecideAgainst, DecideFor, Typed
<1>2. /\ QueuedOnce' /\ \A a : Queued(a)' => Queued(a)
      /\ Head(inputs).type = "requested" => ~Queued(b)'
  BY <1>1, QueueTaken DEF Typed, Placed
<1>3. UNCHANGED <<file, revoking, request>>
  BY DEF TakeRequested, DecideAgainst, DecideFor, disk, browsers
<1>4. approvals \in [Browser -> Name \cup {None}]
  BY DEF Typed, TableOK
<1>5. CASE TakeRequested
  <2>1. /\ adding' = adding /\ Head(inputs).type = "requested"
        /\ approvals' = approvals \/ approvals' = [approvals EXCEPT ![b] = request[b].name]
    BY <1>5 DEF TakeRequested, Take
  <2>2. \A a \in Browser : a # b => approvals'[a] = approvals[a]
    BY <1>4, <2>1
  <2>3. ASSUME NEW a \in Browser PROVE InOnePlace(a)'
    <3>1. /\ Adding(a)' = Adding(a) /\ Recorded(a)' = Recorded(a) /\ ~Adding(a)
          /\ a # b => Tabled(a)' = Tabled(a)
      BY <1>1, <1>3, <2>1, <2>2 DEF Adding, Recorded, Tabled
    <3> QED
      BY <1>1, <1>2, <1>3, <2>1, <3>1 DEF Asked, Placed, InOnePlace
  <2> QED
    BY <1>2, <1>3, <2>1, <2>3 DEF Placed, OwnersApart
<1>6. CASE DecideAgainst
  <2>1. adding' = adding /\ approvals' = [approvals EXCEPT ![b] = None]
    BY <1>6 DEF DecideAgainst
  <2>2. ASSUME NEW a \in Browser PROVE InOnePlace(a)'
    <3>1. /\ Adding(a)' = Adding(a) /\ Recorded(a)' = Recorded(a)
          /\ Tabled(a)' => Tabled(a)
      BY <1>3, <1>4, <2>1 DEF Adding, Recorded, Tabled
    <3> QED
      BY <1>2, <1>3, <3>1 DEF Asked, Placed, InOnePlace
  <2> QED
    BY <1>2, <1>3, <2>1, <2>2 DEF Placed, OwnersApart
<1>7. CASE DecideFor
  <2>1. /\ approvals[b] # None /\ approvals' = [approvals EXCEPT ![b] = None]
        /\ adding'.browser = b /\ adding'.text = file
    BY <1>7 DEF DecideFor
  <2>2. Tabled(b) /\ ~Tabled(b)' /\ \A a \in Browser : a # b => Tabled(a)' = Tabled(a)
    BY <1>1, <1>4, <2>1 DEF Tabled
  <2>3. ASSUME NEW a \in Browser PROVE InOnePlace(a)'
    <3>1. /\ Adding(a)' => a = b
          /\ Recorded(a)' => Recorded(a)
      BY <1>3, <2>1 DEF Adding, Recorded, Owns
    <3> QED
      BY <1>2, <1>3, <2>2, <3>1 DEF Asked, Placed, InOnePlace
  <2> QED
    BY <1>2, <1>3, <2>1, <2>3 DEF Placed, OwnersApart
<1> QED
  BY <1>5, <1>6, <1>7

LEMMA AddingPlaces ==
    ASSUME Typed, Placed, AddDeviceFile
    PROVE  Placed'
<1> PICK b : b = adding.browser
  OBVIOUS
<1>1. /\ adding # None /\ adding' = None /\ UNCHANGED <<inputs, approvals, revoking, request>>
      /\ \/ file' = file
         \/ file' = adding.text \cup {[name |-> adding.name, owner |-> b]}
  BY DEF AddDeviceFile, browsers
<1>2. b \in Browser /\ Adding(b)
  BY <1>1 DEF Typed, DiskOK, Addition, Adding
<1>3. ~Owns(adding.text, b) /\ ~Queued(b) /\ ~Tabled(b) /\ Asked(b)
  BY <1>1, <1>2 DEF Placed, InOnePlace, Recorded
<1>4. OwnersApart'
  <2>1. Single(file')
    BY <1>1, <1>3 DEF Placed, OwnersApart, Single, Owns
  <2> QED
    BY <1>1, <2>1 DEF Placed, OwnersApart
<1>5. ASSUME NEW a \in Browser PROVE InOnePlace(a)'
  <2>1. /\ Queued(a)' = Queued(a) /\ Tabled(a)' = Tabled(a) /\ ~Adding(a)'
        /\ Asked(a)' = Asked(a)
    BY <1>1 DEF Queued, Tabled, Adding, Asked
  <2>2. Recorded(a)' => Recorded(a) \/ a = b
    BY <1>1 DEF Recorded, Owns
  <2> QED
    BY <1>1, <1>3, <2>1, <2>2 DEF Placed, InOnePlace
<1> QED
  BY <1>1, <1>4, <1>5 DEF Placed, QueuedOnce

LEMMA OtherPlaces ==
    ASSUME Typed, Placed,
           SweepPairingApprovals \/ RevokeWrites \/ (\E name \in Name : RevokeReads(name))
    PROVE  Placed'
<1>1. UNCHANGED <<inputs, adding, request>>
  BY DEF SweepPairingApprovals, RevokeWrites, RevokeReads, loop, browsers
<1>2. \A a \in Browser : approvals'[a] # None => approvals[a] # None
  BY DEF SweepPairingApprovals, RevokeWrites, RevokeReads, loop
<1>3. OwnersApart' /\ \A a \in Browser : Recorded(a)' => Recorded(a)
  <2>1. CASE SweepPairingApprovals
    BY <1>1, <2>1 DEF SweepPairingApprovals, disk, Recorded, Placed, OwnersApart
  <2>2. CASE RevokeWrites
    BY <1>1, <2>2 DEF RevokeWrites, Recorded, Owns, Placed, OwnersApart, Single
  <2>3. ASSUME NEW name \in Name, RevokeReads(name)
        PROVE  OwnersApart' /\ \A a \in Browser : Recorded(a)' => Recorded(a)
    BY <1>1, <2>3 DEF RevokeReads, Recorded, Owns, Placed, OwnersApart, Single
  <2> QED
    BY <2>1, <2>2, <2>3
<1>4. ASSUME NEW a \in Browser PROVE InOnePlace(a)'
  <2>1. /\ Queued(a)' = Queued(a) /\ Adding(a)' = Adding(a) /\ Asked(a)' = Asked(a)
        /\ Tabled(a)' => Tabled(a)
        /\ Recorded(a)' => Recorded(a)
    BY <1>1, <1>2, <1>3 DEF Queued, Tabled, Adding, Asked
  <2> QED
    BY <1>1, <2>1 DEF Placed, InOnePlace
<1> QED
  BY <1>1, <1>3, <1>4 DEF Placed, QueuedOnce

LEMMA PlacedStep ==
    ASSUME Typed, Placed, Next
    PROVE  Placed'
<1>1. CASE CodeExpires \/ Bridge \/ IssuePairingCode \/ TuiReads
  <2>1. UNCHANGED <<inputs, approvals, adding, file, revoking, request>>
    BY <1>1 DEF CodeExpires, Bridge, SendPublication, RegisterCode, IndexExpires,
       ConnectorReconnects, IssuePairingCode, TuiReads, loop, disk, browsers
  <2> QED
    BY <2>1, PlacesStay DEF Asked, Placed, InOnePlace
<1>2. ASSUME NEW approve \in BOOLEAN, Answers(approve) PROVE Placed'
  <2>1. /\ inputs' = Append(inputs, Decide(prompt, approve)) /\ prompt \in Browser
        /\ UNCHANGED <<approvals, adding, file, revoking, request>>
    BY <1>2 DEF Answers, browsers, disk, Typed, PromptOK
  <2>2. Decide(prompt, approve) \in Input /\ Decide(prompt, approve).type # "requested"
    BY <2>1 DEF Decide, Input
  <2>3. QueuedOnce' /\ \A a : Queued(a)' <=> Queued(a)
    BY <2>1, <2>2, QueueSent DEF Typed, Placed
  <2>4. ASSUME NEW a \in Browser PROVE InOnePlace(a)'
    <3>1. /\ Tabled(a)' = Tabled(a) /\ Adding(a)' = Adding(a) /\ Recorded(a)' = Recorded(a)
          /\ Asked(a)' = Asked(a)
      BY <2>1 DEF Tabled, Adding, Recorded, Asked
    <3> QED
      BY <2>1, <2>3, <3>1 DEF Placed, InOnePlace
  <2> QED
    BY <2>1, <2>3, <2>4 DEF Placed, OwnersApart
<1> QED
  BY <1>1, <1>2, RequestMoves, LoopPlaces, AddingPlaces, OtherPlaces DEF Next, Loop

-----------------------------------------------------------------------------
(* The prompt *)

\* More is told: what is asked is current, and what is over is said to be.
LEMMA MoreTold ==
    ASSUME QueuesOK, PromptOK, PromptsEnd, prompt' = prompt, NEW old, old = Len(toTui), old \in Nat,
           Len(toTui') \in Nat, old <= Len(toTui'),
           \A i \in 1..old : toTui'[i] = toTui[i],
           \A i \in (old + 1)..Len(toTui') :
               toTui'[i].type = "required" =>
                   \A b : b = toTui'[i].browser => Current(b)',
           \A b \in Browser : Current(b) =>
               Current(b)' \/ \E j \in (old + 1)..Len(toTui') : toTui'[j] = Decided(b)
    PROVE  PromptsEnd'
<1>1. ASSUME NEW b \in Browser, NEW i \in 0..old, Current(b) \/ OverAfter(b, i)
      PROVE  Current(b)' \/ OverAfter(b, i)'
  <2>1. CASE Current(b)
    <3>1. CASE Current(b)'
      BY <3>1
    <3>2. ASSUME NEW j \in (old + 1)..Len(toTui'), toTui'[j] = Decided(b)
          PROVE  OverAfter(b, i)'
      <4>1. j \in 1..Len(toTui') /\ j > i
        BY <3>2
      <4> QED
        BY <3>2, <4>1 DEF OverAfter, Decided
    <3> QED
      BY <2>1, <3>1, <3>2
  <2>2. ASSUME NEW j \in 1..old, j > i, toTui[j] = Decided(b) PROVE OverAfter(b, i)'
    <3>1. j \in 1..Len(toTui') /\ toTui'[j] = toTui[j]
      OBVIOUS
    <3> QED
      BY <2>2, <3>1 DEF OverAfter, Decided
  <2> QED
    BY <1>1, <2>1, <2>2 DEF OverAfter
<1>2. prompt' # None => Current(prompt)' \/ OverAfter(prompt, 0)'
  <2>1. PICK p : p = prompt
    OBVIOUS
  <2>2. p # None => Current(p)' \/ OverAfter(p, 0)'
    BY <1>1, <2>1 DEF PromptsEnd, PromptOK
  <2> QED
    BY <2>1, <2>2 DEF Current, Tabled, Adding, OverAfter, Decided
<1>3. ASSUME NEW i \in 1..Len(toTui'), toTui'[i].type = "required", NEW b, b = toTui'[i].browser
      PROVE  Current(b)' \/ OverAfter(b, i)'
  <2>1. CASE i \in 1..old
    <3>1. i \in 0..old /\ toTui[i] = toTui'[i] /\ (Current(b) \/ OverAfter(b, i))
      BY <1>3, <2>1 DEF PromptsEnd
    <3>2. toTui[i] \in Message
      BY <2>1 DEF QueuesOK
    <3>3. b \in Browser
      BY <1>3, <3>1, <3>2 DEF Message
    <3> QED
      BY <1>1, <3>1, <3>3
  <2>2. CASE i \in (old + 1)..Len(toTui')
    BY <1>3, <2>2
  <2> QED
    BY <2>1, <2>2
<1>4. \A i \in 1..Len(toTui') : toTui'[i].type = "required" =>
          Current(toTui[i].browser)' \/ OverAfter(toTui[i].browser, i)'
  BY <1>3 DEF Current, Tabled, Adding, OverAfter, Decided
<1> QED
  BY <1>2, <1>4 DEF PromptsEnd

\* Nothing is told, and what was current still is.
LEMMA PromptsStay ==
    ASSUME QueuesOK, PromptOK, PromptsEnd, UNCHANGED <<toTui, prompt>>,
           \A b : Current(b) => Current(b)'
    PROVE  PromptsEnd'
<1>1. Len(toTui) \in Nat
  BY DEF QueuesOK
<1> QED
  BY <1>1, MoreTold

\* One thing is told.
LEMMA OneTold ==
    ASSUME QueuesOK, PromptOK, PromptsEnd, prompt' = prompt, NEW c, NEW m \in {Required(c), Decided(c)},
           c \in Browser, Tell(m),
           m = Required(c) => Current(c)',
           \A b : Current(b) => Current(b)' \/ (b = c /\ m = Decided(c))
    PROVE  PromptsEnd'
<1>1. PICK old : old = Len(toTui)
  OBVIOUS
<1>2. m \in Message /\ toTui \in Seq(Message) /\ toTui' = Append(toTui, m)
  BY DEF Required, Decided, Message, QueuesOK, Tell
<1>3. /\ old \in Nat /\ Len(toTui') = old + 1 /\ toTui'[old + 1] = m
      /\ \A i \in 1..old : toTui'[i] = toTui[i]
  BY <1>1, <1>2, Sent
<1>4. \A i \in (old + 1)..Len(toTui') : i = old + 1
  BY <1>3
<1>5. ASSUME NEW i \in (old + 1)..Len(toTui'), toTui'[i].type = "required",
             NEW b, b = toTui'[i].browser
      PROVE  Current(b)'
  <2>1. m.type = "required" /\ b = m.browser
    BY <1>3, <1>4, <1>5
  <2>2. m = Required(c) /\ b = c
    BY <2>1 DEF Required, Decided
  <2> QED
    BY <2>2
<1>6. old + 1 \in (old + 1)..Len(toTui') /\ Len(toTui') \in Nat /\ old <= Len(toTui')
  BY <1>3
<1>7. \A b : Current(b) =>
          Current(b)' \/ \E j \in (old + 1)..Len(toTui') : toTui'[j] = Decided(b)
  BY <1>3, <1>6
<1> QED
  BY <1>1, <1>3, <1>5, <1>6, <1>7, MoreTold

LEMMA PromptRead ==
    ASSUME Typed, PromptsEnd, TuiReads
    PROVE  PromptsEnd'
<1>1. /\ toTui # <<>> /\ toTui' = Tail(toTui) /\ toTui \in Seq(Message)
      /\ prompt' = IF Head(toTui).type = "required" THEN Head(toTui).browser
                   ELSE IF prompt = Head(toTui).browser THEN None ELSE prompt
      /\ UNCHANGED <<approvals, adding>>
  BY DEF TuiReads, loop, Typed, QueuesOK
<1>2. /\ Len(toTui) \in Nat \ {0} /\ Head(toTui) = toTui[1]
      /\ Len(toTui') = Len(toTui) - 1
      /\ \A i \in 1..Len(toTui') : toTui'[i] = toTui[i + 1] /\ i + 1 \in 1..Len(toTui)
      /\ \A i \in 1..Len(toTui) : i = 1 \/ (i - 1 \in 1..Len(toTui') /\ toTui'[i - 1] = toTui[i])
  BY <1>1, Taken
<1>3. \A b : Current(b)' <=> Current(b)
  BY <1>1 DEF Current, Tabled, Adding
<1>4. ASSUME NEW b, NEW i \in Nat, OverAfter(b, i + 1) PROVE OverAfter(b, i)'
  <2>1. PICK j \in 1..Len(toTui) : j > i + 1 /\ toTui[j] = Decided(b)
    BY <1>4 DEF OverAfter
  <2>2. j - 1 \in 1..Len(toTui') /\ toTui'[j - 1] = Decided(b) /\ j - 1 > i
    BY <1>2, <2>1
  <2> QED
    BY <2>2 DEF OverAfter, Decided
<1>5. prompt' # None => \A p : p = prompt' => Current(p)' \/ OverAfter(p, 0)'
  <2>1. CASE Head(toTui).type = "required"
    <3>1. PICK b : b = Head(toTui).browser
      OBVIOUS
    <3>2. Current(b) \/ OverAfter(b, 1)
      BY <1>2, <2>1, <3>1 DEF PromptsEnd
    <3>3. prompt' = b /\ 1 = 0 + 1 /\ 0 \in Nat
      BY <1>1, <2>1, <3>1
    <3> QED
      BY <1>3, <1>4, <3>2, <3>3
  <2>2. CASE Head(toTui).type # "required" /\ prompt' # None
    <3>1. prompt' = prompt /\ prompt # Head(toTui).browser
      BY <1>1, <2>2
    <3>2. CASE Current(prompt)
      BY <1>3, <3>1, <3>2
    <3>3. ASSUME NEW p, p = prompt, OverAfter(p, 0) PROVE OverAfter(p, 0)'
      <4>1. PICK j \in 1..Len(toTui) : toTui[j] = Decided(p)
        BY <3>3 DEF OverAfter
      <4>2. j # 1
        BY <1>2, <3>1, <3>3, <4>1 DEF Decided
      <4>3. j > 0 + 1
        BY <1>2, <4>1, <4>2
      <4>4. OverAfter(p, 0 + 1)
        BY <4>1, <4>3 DEF OverAfter
      <4> QED
        BY <1>4, <4>4
    <3>4. Current(prompt) \/ OverAfter(prompt, 0)
      BY <2>2, <3>1 DEF PromptsEnd
    <3> QED
      BY <3>1, <3>2, <3>3, <3>4
  <2> QED
    BY <2>1, <2>2
<1>6. ASSUME NEW i \in 1..Len(toTui'), toTui'[i].type = "required", NEW b, b = toTui'[i].browser
      PROVE  Current(b)' \/ OverAfter(b, i)'
  <2>1. i + 1 \in 1..Len(toTui) /\ toTui'[i] = toTui[i + 1] /\ i \in Nat
    BY <1>2
  <2>2. Current(b) \/ OverAfter(b, i + 1)
    BY <1>6, <2>1 DEF PromptsEnd
  <2> QED
    BY <1>3, <1>4, <2>1, <2>2
<1>7. prompt' # None => Current(prompt)' \/ OverAfter(prompt, 0)'
  BY <1>5 DEF Current, Tabled, Adding, OverAfter, Decided
<1>8. \A i \in 1..Len(toTui') : toTui'[i].type = "required" =>
          Current(toTui[i].browser)' \/ OverAfter(toTui[i].browser, i)'
  BY <1>6 DEF Current, Tabled, Adding, OverAfter, Decided
<1> QED
  BY <1>7, <1>8 DEF PromptsEnd

LEMMA PromptsStep ==
    ASSUME Typed, Placed, PromptsEnd, Next
    PROVE  PromptsEnd'
<1>0. QueuesOK /\ PromptOK /\ approvals \in [Browser -> Name \cup {None}]
  BY DEF Typed, TableOK
<1>1. CASE TakeRequested
  <2>1. PICK c : c = Head(inputs).browser
    OBVIOUS
  <2>2. c \in Browser /\ Queued(c)
    BY <1>0, <1>1, <2>1, HeadOfInputs DEF TakeRequested
  <2>3. request[c].name # None
    BY <2>2 DEF Placed, InOnePlace
  <2>4. /\ adding' = adding /\ prompt' = prompt
        /\ \/ UNCHANGED <<approvals, toTui>>
           \/ Tell(Required(c)) /\ approvals' = [approvals EXCEPT ![c] = request[c].name]
    BY <1>1, <2>1 DEF TakeRequested
  <2>5. CASE UNCHANGED <<approvals, toTui>>
    BY <1>0, <2>4, <2>5, PromptsStay DEF Current, Tabled, Adding
  <2>6. CASE Tell(Required(c)) /\ approvals' = [approvals EXCEPT ![c] = request[c].name]
    <3>1. Current(c)' /\ \A b : Current(b) => Current(b)'
      BY <1>0, <2>2, <2>3, <2>4, <2>6 DEF Current, Tabled, Adding
    <3> QED
      BY <1>0, <2>2, <2>4, <2>6, <3>1, OneTold
  <2> QED
    BY <2>4, <2>5, <2>6
<1>2. CASE DecideAgainst
  <2>1. PICK c : c = Head(inputs).browser
    OBVIOUS
  <2>2. c \in Browser /\ adding = None
    BY <1>0, <1>2, <2>1, HeadOfInputs DEF DecideAgainst
  <2>3. /\ Tell(Decided(c)) /\ adding' = adding /\ prompt' = prompt
        /\ approvals' = [approvals EXCEPT ![c] = None]
    BY <1>2, <2>1 DEF DecideAgainst
  <2>4. \A b : Current(b) => Current(b)' \/ b = c
    BY <1>0, <2>2, <2>3 DEF Current, Tabled, Adding
  <2>5. Decided(c) # Required(c)
    BY DEF Decided, Required
  <2> QED
    BY <1>0, <2>2, <2>3, <2>4, <2>5, OneTold
<1>3. CASE DecideFor
  <2>1. PICK c : c = Head(inputs).browser
    OBVIOUS
  <2>2. c \in Browser /\ adding = None
    BY <1>0, <1>3, <2>1, HeadOfInputs DEF DecideFor
  <2>3. /\ approvals[c] # None /\ UNCHANGED <<toTui, prompt>>
        /\ approvals' = [approvals EXCEPT ![c] = None]
        /\ adding' = [browser |-> c, name |-> approvals[c], text |-> file]
    BY <1>3, <2>1 DEF DecideFor, tui
  <2>4. adding' \in Addition
    BY <1>0, <2>2, <2>3 DEF Typed, DiskOK, Addition
  <2>5. adding' # None /\ adding'.browser = c
    BY <2>3, <2>4, NoneAssumption
  <2>6. \A b : Current(b) => Current(b)'
    BY <1>0, <2>2, <2>3, <2>5 DEF Current, Tabled, Adding
  <2> QED
    BY <1>0, <2>3, <2>6, PromptsStay
<1>4. CASE AddDeviceFile
  <2>1. PICK c : c = adding.browser
    OBVIOUS
  <2>2. c \in Browser
    BY <1>4, <2>1 DEF AddDeviceFile, Typed, DiskOK, Addition
  <2>3. Tell(Decided(c)) /\ UNCHANGED <<approvals, prompt>>
    BY <1>4, <2>1 DEF AddDeviceFile
  <2>4. \A b : Current(b) => Current(b)' \/ b = c
    BY <2>1, <2>3 DEF Current, Tabled, Adding
  <2>5. Decided(c) # Required(c)
    BY DEF Decided, Required
  <2> QED
    BY <1>0, <2>2, <2>3, <2>4, <2>5, OneTold
<1>5. CASE SweepPairingApprovals
  <2>1. PICK tell \in Seq(Message) :
           /\ toTui' = toTui \o tell
           /\ \A i \in 1..Len(tell) : tell[i].type = "decided"
           /\ \A b \in Stale : \E i \in 1..Len(tell) : tell[i] = Decided(b)
    BY <1>0, <1>5, Swept
  <2>2. /\ adding = None /\ UNCHANGED <<adding, prompt>>
        /\ approvals' = [b \in Browser |-> IF b \in Stale THEN None ELSE approvals[b]]
    BY <1>5 DEF SweepPairingApprovals
  <2>3. PICK old : old = Len(toTui)
    OBVIOUS
  <2>4. /\ old \in Nat /\ Len(tell) \in Nat /\ Len(toTui') = old + Len(tell)
        /\ \A i \in 1..old : toTui'[i] = toTui[i]
        /\ \A i \in 1..Len(tell) : toTui'[old + i] = tell[i]
        /\ \A i \in 1..Len(toTui') : i \in 1..old \/ \E j \in 1..Len(tell) : i = old + j
    <3>1. toTui \in Seq(Message)
      BY <1>0 DEF QueuesOK
    <3>2. /\ Len(toTui) \in Nat /\ Len(tell) \in Nat
          /\ Len(toTui \o tell) = Len(toTui) + Len(tell)
          /\ \A i \in 1..Len(toTui) : (toTui \o tell)[i] = toTui[i]
          /\ \A i \in 1..Len(tell) : (toTui \o tell)[Len(toTui) + i] = tell[i]
          /\ \A i \in 1..Len(toTui \o tell) :
                i \in 1..Len(toTui) \/ \E j \in 1..Len(tell) : i = Len(toTui) + j
      BY <3>1, Followed
    <3> QED
      BY <2>1, <2>3, <3>2
  <2>5. \A i \in (old + 1)..Len(toTui') : toTui'[i].type # "required"
    <3>1. ASSUME NEW i \in (old + 1)..Len(toTui') PROVE toTui'[i].type = "decided"
      <4>1. i \in 1..Len(toTui') /\ i \notin 1..old
        BY <2>4
      <4>2. PICK j \in 1..Len(tell) : i = old + j
        BY <2>4, <4>1
      <4> QED
        BY <2>1, <2>4, <4>2
    <3> QED
      BY <3>1
  <2>6. ASSUME NEW b \in Browser, Current(b), ~Current(b)'
        PROVE  \E j \in (old + 1)..Len(toTui') : toTui'[j] = Decided(b)
    <3>1. approvals[b] # None /\ ~(approvals'[b] # None)
      BY <2>2, <2>6 DEF Current, Tabled, Adding
    <3>2. b \in Stale
      BY <2>2, <3>1
    <3>3. PICK j \in 1..Len(tell) : tell[j] = Decided(b)
      BY <2>1, <3>2
    <3>4. old + j \in (old + 1)..Len(toTui') /\ toTui'[old + j] = Decided(b)
      BY <2>4, <3>3
    <3> QED
      BY <3>4
  <2>7. Len(toTui') \in Nat /\ old <= Len(toTui')
    BY <2>4
  <2> QED
    BY <1>0, <2>2, <2>3, <2>4, <2>5, <2>6, <2>7, MoreTold
<1>6. ASSUME NEW approve \in BOOLEAN, Answers(approve) PROVE PromptsEnd'
  BY <1>6 DEF Answers, PromptsEnd, Current, Tabled, Adding, OverAfter
<1>7. CASE CodeExpires \/ Bridge \/ IssuePairingCode
           \/ RevokeWrites \/ (\E name \in Name : RevokeReads(name))
  <2>1. UNCHANGED <<toTui, prompt, approvals, adding>>
    BY <1>7 DEF CodeExpires, Bridge, SendPublication, RegisterCode, IndexExpires,
       ConnectorReconnects, IssuePairingCode, RevokeWrites, RevokeReads, loop, tui
  <2> QED
    BY <1>0, <2>1, PromptsStay DEF Current, Tabled, Adding
<1>8. ASSUME NEW b \in Browser, Pair(b) PROVE PromptsEnd'
  <2>1. UNCHANGED <<toTui, prompt, approvals, adding>>
    BY <1>8 DEF Pair, Submit, PairRefuses, PairMatches, PairAsks, ApprovalLate,
       PairAnswers, AnswerArrives, BrowserLeaves, loop, tui
  <2> QED
    BY <1>0, <2>1, PromptsStay DEF Current, Tabled, Adding
<1> QED
  BY <1>1, <1>2, <1>3, <1>4, <1>5, <1>6, <1>7, <1>8, PromptRead DEF Next, Loop

-----------------------------------------------------------------------------
(* The theorem *)

LEMMA PairingInit ==
    ASSUME Init
    PROVE  PairingInv
<1>1. \A b \in Browser : /\ request[b] = Idle /\ approvals[b] = None
  BY DEF Init
<1>2. CodesOK
  <2>1. 0 \in 0..MaxCodes /\ <<>> \in Seq(Code \cup {None})
    BY PairingAssumption
  <2> QED
    BY <2>1 DEF Init, CodesOK
<1>8. WireFollows /\ NamesApart
  BY DEF Init, WireFollows, NamesApart, Distinct
<1>9. PromptsEnd
  BY DEF Init, PromptsEnd
<1>3. Idle \in Request
  BY PairingAssumption DEF Idle, Request, Phase
<1>4. BrowsersOK /\ DiskOK /\ DecisionsOK /\ PromptOK /\ QueuesOK
  BY <1>3 DEF Init, BrowsersOK, DiskOK, DecisionsOK, PromptOK, QueuesOK
<1>5. TableOK
  <2>1. {b \in Browser : approvals[b] # None} = {}
    BY <1>1
  <2>2. Cardinality({b \in Browser : approvals[b] # None}) = 0
    BY <2>1, FS_EmptySet
  <2> QED
    BY <2>2, PairingAssumption DEF Init, TableOK
<1>6. CodesApart
  BY <1>1 DEF Init, CodesApart, CodeOpensOne, Idle
<1>7. Placed
  BY <1>1 DEF Init, Placed, QueuedOnce, OwnersApart, Single, InOnePlace, Queued, Tabled, Adding,
     Recorded, Owns, Idle
<1> QED
  BY <1>2, <1>4, <1>5, <1>6, <1>7, <1>8, <1>9, TypeIsTyped DEF PairingInv, Typed

LEMMA PairingStep ==
    ASSUME PairingInv, [Next]_vars
    PROVE  PairingInv'
<1>1. CASE Next
  <2>1. TypeOK /\ Typed /\ CodesApart /\ WireFollows /\ NamesApart /\ Placed /\ PromptsEnd
    BY TypeIsTyped DEF PairingInv
  <2>2. Typed'
    BY <1>1, <2>1, CodesTyped, BrowsersTyped, TableTyped, DiskTyped, QueuesTyped DEF Typed
  <2>3. TypeOK' /\ QueuesOK'
    BY <2>2, TypeIsTyped, PTL
  <2>4. CodesApart' /\ WireFollows' /\ NamesApart' /\ Placed' /\ PromptsEnd'
    BY <1>1, <2>1, CodesStep, WireStep, NamesStep, PlacedStep, PromptsStep
  <2> QED
    BY <2>3, <2>4 DEF PairingInv
<1>2. CASE UNCHANGED vars
  BY <1>2 DEF vars, codes, browsers, loop, disk, tui, PairingInv, TypeOK, QueuesOK, CodesApart,
     CodeOpensOne, WireFollows, NamesApart, Placed, QueuedOnce, OwnersApart, InOnePlace, Queued,
     Tabled, Adding, Recorded, Asked, PromptsEnd, Current, OverAfter
<1> QED
  BY <1>1, <1>2

\* pair, decide_pairing, add_device_file, sweep_pairing_approvals and
\* register_code, over any number of browsers, codes, approvals and
\* revocations: a code opens one approval, no two devices have one name, a
\* prompt shown still waits or is about to be taken down, and the bridge keeps
\* no code that is not published.
THEOREM PairingHolds == Spec => []PairedOnce
<1>1. Init => PairingInv
  BY PairingInit
<1>2. PairingInv /\ [Next]_vars => PairingInv'
  BY PairingStep
<1>3. PairingInv => PairedOnce
  <2>1. ASSUME PromptsEnd PROVE PromptIsCurrent
    BY <2>1 DEF PromptsEnd, PromptIsCurrent, Current, Tabled, Adding, OverAfter
  <2> QED
    BY <2>1 DEF PairingInv, PairedOnce, CodesApart, NamesApart, Distinct, NamesUnique,
       WireFollows, IndexFollows
<1> QED
  BY <1>1, <1>2, <1>3, PTL DEF Spec

\* Every variable of pairing keeps its type: among them, the table of approvals
\* never exceeds MAX_PENDING_PAIRING_APPROVALS, and an attempt that would
\* reach MAX_ATTEMPTS withdraws the code.
THEOREM PairingTypeCorrect == Spec => []TypeOK
<1>1. Init => PairingInv
  BY PairingInit
<1>2. PairingInv /\ [Next]_vars => PairingInv'
  BY PairingStep
<1>3. PairingInv => TypeOK
  BY DEF PairingInv
<1> QED
  BY <1>1, <1>2, <1>3, PTL DEF Spec

=============================================================================
