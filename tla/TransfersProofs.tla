-------------------------- MODULE TransfersProofs --------------------------
(***************************************************************************)
(* Theorems about the modules that carry a file to a host.                 *)
(* Transfers: whatever is interrupted, resumed, swept, evicted or          *)
(* discarded meanwhile, one task at a time carries a transfer, every byte  *)
(* lies where it belongs and what was delivered stays.                     *)
(* HostStaging: what an attempt reports of the file on the host is what    *)
(* lies there.                                                             *)
(* ClientUploads: the paths that are pasted are those of files that        *)
(* arrived whole, and the window in front of the socket holds.             *)
(***************************************************************************)
EXTENDS Transfers, HostStaging, ClientUploads, FiniteSetTheorems, SequenceTheorems, TLAPS

-----------------------------------------------------------------------------
(* Transfers: the inductive invariant *)

AtOffset(n) == [type |-> "offset", staged |-> n]
Outcome == [type : {"interrupted", "done", "refused", "withdrawn"}, path : Path \cup {None}]

\* The task of the attempt a has n bytes of its file on the host.
Placed(a, n) ==
    IF a.path = None THEN n = 0
    ELSE host[a.path] # None /\ Len(host[a.path]) = n

\* Nobody carries t: nothing is said about it, and its file has a place.
Resting(t) ==
    /\ attempt[t] = None /\ inbox[t] = <<>>
    /\ retained[t] # None => ~retained[t].inFlight /\ retained[t].path # None

\* A resumed attempt has not heard from the host.
Asking(t) ==
    /\ attempt[t] # None /\ attempt[t].decision = "asking" /\ attempt[t].next = None
    /\ attempt[t].path # None
    /\ inbox[t] = <<>>
    /\ InFlight(t)

\* An attempt goes on from where the host's file ends, or will once the sender
\* has heard of it.
Carrying(t) ==
    /\ attempt[t] # None /\ attempt[t].decision # "asking"
    /\ InFlight(t)
    /\ \/ /\ inbox[t] = <<>>
          /\ attempt[t].next # None /\ Placed(attempt[t], attempt[t].next - 1)
       \/ /\ attempt[t].next = None
          /\ \E n \in 0..Length : inbox[t] = <<AtOffset(n)>> /\ Placed(attempt[t], n)
    /\ attempt[t].decision = "overrun" => attempt[t].next = Length + 1

\* The attempt is over and the loop has not heard.
Ended(t) ==
    /\ attempt[t] = None
    /\ InFlight(t)
    /\ \E out \in Outcome :
          /\ \/ inbox[t] = <<out>>
             \/ \E n \in 0..Length : inbox[t] = <<AtOffset(n), out>>
          /\ out.type = "interrupted" => out.path # None
          /\ out.type = "done" => /\ out.path # None
                                  /\ \E version \in Version : host[out.path] = Whole(version)

Stands(t) == Resting(t) \/ Asking(t) \/ Carrying(t) \/ Ended(t)

\* The places t has on the host: its task's, the one it is retained with, the
\* one its outcome names.
Uses(t) ==
    {p \in Path : \/ attempt[t] # None /\ attempt[t].path = p
                  \/ retained[t] # None /\ retained[t].path = p
                  \/ \E i \in DOMAIN inbox[t] :
                        inbox[t][i].type # "offset" /\ inbox[t][i].path = p}

\* No place has two uses, and none is used before it was made.
PathsApart ==
    /\ \A t, u \in Token : t # u => Uses(t) \cap Uses(u) = {}
    /\ \A t \in Token : Uses(t) \cap (discarding \cup delivered) = {}
    /\ discarding \cap delivered = {}
    /\ \A t \in Token : Uses(t) \subseteq 1..made
    /\ discarding \cup delivered \subseteq 1..made

\* No file outgrows what was declared.
HostTypeOK ==
    /\ \A p \in Path : host[p] # None => Len(host[p]) <= Length
    /\ inbox = [t \in Token |-> inbox[t]]

\* A token is issued before anything is kept of it.
Fresh == \A t \in Token \ issued : retained[t] = None /\ attempt[t] = None /\ inbox[t] = <<>>

TransferInv ==
    /\ TypeOK /\ HostTypeOK /\ Fresh
    /\ \A t \in Token : Stands(t)
    /\ PathsApart
    /\ BytesInPlace
    /\ DeliveredStaysWhole

-----------------------------------------------------------------------------
(* What a step leaves alone *)

\* The messages of one transfer, told apart.
LEMMA Messages ==
    ASSUME NEW n, NEW out \in Outcome
    PROVE  /\ AtOffset(n).type = "offset" /\ AtOffset(n).staged = n
           /\ out.type # "offset"
           /\ DOMAIN <<out>> = {1} /\ <<out>>[1] = out
           /\ DOMAIN <<AtOffset(n)>> = {1} /\ <<AtOffset(n)>>[1] = AtOffset(n)
           /\ DOMAIN <<AtOffset(n), out>> = {1, 2}
           /\ <<AtOffset(n), out>>[1] = AtOffset(n) /\ <<AtOffset(n), out>>[2] = out
BY DEF AtOffset, Outcome

\* The places a transfer has, when its inbox holds an outcome or none.
LEMMA UsesOf ==
    ASSUME TypeOK, NEW t \in Token
    PROVE  /\ attempt[t] # None /\ attempt[t].path # None => attempt[t].path \in Uses(t)
           /\ retained[t] # None /\ retained[t].path # None => retained[t].path \in Uses(t)
           /\ \A out \in Outcome :
                 (inbox[t] = <<out>> \/ \E n : inbox[t] = <<AtOffset(n), out>>)
                   /\ out.path # None => out.path \in Uses(t)
<1>1. /\ attempt[t] # None => attempt[t] \in Attempt
      /\ retained[t] # None => retained[t] \in Record
  BY DEF TypeOK
<1>2. /\ attempt[t] # None /\ attempt[t].path # None => attempt[t].path \in Path
      /\ retained[t] # None /\ retained[t].path # None => retained[t].path \in Path
  BY <1>1 DEF Attempt, Record
<1>3. ASSUME NEW out \in Outcome, out.path # None, inbox[t] = <<out>>
      PROVE  out.path \in Uses(t)
  <2>1. 1 \in DOMAIN inbox[t] /\ inbox[t][1] = out /\ out.type # "offset" /\ out.path \in Path
    BY <1>3, Messages DEF Outcome
  <2> QED
    BY <2>1 DEF Uses
<1>4. ASSUME NEW out \in Outcome, out.path # None, NEW n, inbox[t] = <<AtOffset(n), out>>
      PROVE  out.path \in Uses(t)
  <2>1. 2 \in DOMAIN inbox[t] /\ inbox[t][2] = out /\ out.type # "offset" /\ out.path \in Path
    BY <1>4, Messages DEF Outcome
  <2> QED
    BY <2>1 DEF Uses
<1>5. /\ attempt[t] # None /\ attempt[t].path # None => attempt[t].path \in Uses(t)
      /\ retained[t] # None /\ retained[t].path # None => retained[t].path \in Uses(t)
  BY <1>2 DEF Uses
<1> QED
  BY <1>3, <1>4, <1>5

\* A transfer whose records and whose files stay as they are stands as before.
LEMMA StillStands ==
    ASSUME TypeOK, NEW t \in Token, Stands(t), attempt'[t] = attempt[t],
           inbox'[t] = inbox[t], retained'[t] = retained[t],
           \A p \in Uses(t) : host'[p] = host[p]
    PROVE  Stands(t)' /\ Uses(t)' = Uses(t)
<1>1. Uses(t)' = Uses(t)
  BY DEF Uses
<1>2. CASE Resting(t)
  <2>1. Resting(t)'
    BY <1>2 DEF Resting
  <2> QED
    BY <1>1, <2>1 DEF Stands
<1>3. CASE Asking(t)
  <2>1. Asking(t)'
    BY <1>3 DEF Asking, InFlight
  <2> QED
    BY <1>1, <2>1 DEF Stands
<1>4. CASE Carrying(t)
  <2>1. \A n : Placed(attempt[t], n)' <=> Placed(attempt[t], n)
    BY <1>4, UsesOf DEF Placed, Carrying
  <2>2. Carrying(t)'
    BY <1>4, <2>1 DEF Carrying, InFlight
  <2> QED
    BY <1>1, <2>2 DEF Stands
<1>5. CASE Ended(t)
  <2>1. PICK out \in Outcome :
          /\ \/ inbox[t] = <<out>>
             \/ \E n \in 0..Length : inbox[t] = <<AtOffset(n), out>>
          /\ out.type = "interrupted" => out.path # None
          /\ out.type = "done" => /\ out.path # None
                                  /\ \E version \in Version : host[out.path] = Whole(version)
    BY <1>5 DEF Ended
  <2>2. out.path # None => host'[out.path] = host[out.path]
    BY <2>1, UsesOf
  <2>3. Ended(t)'
    BY <1>5, <2>1, <2>2 DEF Ended, InFlight
  <2> QED
    BY <1>1, <2>3 DEF Stands
<1> QED
  BY <1>1, <1>2, <1>3, <1>4, <1>5 DEF Stands

\* Places are given up and none is taken.
LEMMA ApartShrinks ==
    ASSUME PathsApart, \A t \in Token : Uses(t)' \subseteq Uses(t),
           discarding' \subseteq discarding, delivered' = delivered, made' = made
    PROVE  PathsApart'
BY DEF PathsApart

\* Files that disappear leave the others in place, and a file that was
\* delivered is not among them.
LEMMA HostShrinks ==
    ASSUME BytesInPlace, DeliveredStaysWhole, delivered \in SUBSET Path,
           \A p \in Path : host'[p] = host[p] \/ host'[p] = None,
           \A p \in delivered : host'[p] = host[p], delivered' = delivered
    PROVE  BytesInPlace' /\ DeliveredStaysWhole'
<1>1. BytesInPlace'
  BY DEF BytesInPlace
<1>2. DeliveredStaysWhole'
  BY DEF DeliveredStaysWhole
<1> QED
  BY <1>1, <1>2

\* A transfer that is not in flight rests.
LEMMA IdleRests ==
    ASSUME NEW t \in Token, Stands(t), ~InFlight(t)
    PROVE  Resting(t)
BY DEF Stands, Asking, Carrying, Ended

\* What is forgotten (sweep_retained, evict_retained) is nobody's afterwards but
\* the host's, and everything else stays where it is.
LEMMA ForgottenApart ==
    ASSUME TransferInv, NEW gone \in SUBSET Retained, \A t \in gone : ~InFlight(t),
           \A t \in gone : retained'[t] = None /\ attempt'[t] = attempt[t] /\ inbox'[t] = inbox[t],
           \A t \in Token \ gone : Uses(t)' \subseteq Uses(t),
           discarding' = discarding \cup ToDiscard(gone), delivered' = delivered, made' = made
    PROVE  PathsApart' /\ discarding' \subseteq Path
<1> DEFINE lost == {retained[t].path : t \in {u \in gone : retained[u].path # None}}
<1>1. ToDiscard(gone) \subseteq lost
  BY DEF ToDiscard
<1>2. ASSUME NEW p \in lost
      PROVE  \E t \in gone : p \in Uses(t)
  <2>1. PICK t \in gone : retained[t].path = p /\ p # None
    BY <1>2
  <2>2. t \in Token /\ retained[t] # None
    BY <2>1 DEF Retained
  <2> QED
    BY <2>1, <2>2, UsesOf DEF TransferInv
<1>3. ASSUME NEW t \in gone
      PROVE  Uses(t)' = {}
  <2>1. t \in Token /\ Resting(t)
    BY <1>3, IdleRests DEF Retained, TransferInv
  <2> QED
    BY <1>3, <2>1 DEF Uses, Resting
<1> HIDE DEF lost
<1>4. \A t \in Token : Uses(t)' \subseteq Uses(t)
  BY <1>3
<1>5. gone \subseteq Token
  BY DEF Retained
<1>6. \A t \in Token : Uses(t)' \cap lost = {}
  <2> SUFFICES ASSUME NEW t \in Token, NEW p \in Uses(t)', p \in lost PROVE FALSE
    OBVIOUS
  <2>1. PICK u \in gone : p \in Uses(u)
    BY <1>2
  <2>2. u # t
    BY <1>3
  <2> QED
    BY <1>4, <1>5, <2>1, <2>2 DEF TransferInv, PathsApart
<1>7. lost \cap delivered = {} /\ lost \subseteq 1..made /\ lost \subseteq Path
  BY <1>2, <1>5 DEF TransferInv, PathsApart, Uses
<1>8. discarding \subseteq Path
  BY DEF TransferInv, TypeOK
<1> QED
  BY <1>1, <1>4, <1>6, <1>7, <1>8 DEF TransferInv, PathsApart

\* What a sweep or an eviction takes is retained and idle.
LEMMA GoneIsIdle ==
    ASSUME NEW lapsed \in Lapsed
    PROVE  /\ Expired(lapsed) \in SUBSET Retained
           /\ Expired(lapsed) \cup Evicted(Expired(lapsed)) \in SUBSET Retained
           /\ \A t \in Expired(lapsed) \cup Evicted(Expired(lapsed)) : ~InFlight(t)
<1>1. lapsed \subseteq Retained
  BY DEF Lapsed
<1>2. Expired(lapsed) \subseteq Retained /\ \A t \in Expired(lapsed) : ~InFlight(t)
  BY <1>1 DEF Expired
<1>3. ASSUME NEW gone PROVE Evicted(gone) \subseteq Retained /\ \A t \in Evicted(gone) : ~InFlight(t)
  BY DEF Evicted
<1> QED
  BY <1>2, <1>3

\* A forgotten transfer rests.
LEMMA ForgottenRests ==
    ASSUME NEW t \in Token, Stands(t), ~InFlight(t), retained'[t] = None,
           attempt'[t] = attempt[t], inbox'[t] = inbox[t]
    PROVE  Stands(t)'
<1>1. Resting(t)
  BY IdleRests
<1> QED
  BY <1>1 DEF Resting, Stands

\* Input::RefreshDue gives back what nobody came for.
LEMMA RefreshStep ==
    ASSUME TransferInv, NEW lapsed \in Lapsed, RefreshDue(lapsed)
    PROVE  TransferInv'
<1> DEFINE gone == Expired(lapsed)
<1>1. gone \in SUBSET Retained /\ \A t \in gone : ~InFlight(t)
  BY GoneIsIdle
<1>2. /\ retained' = [t \in Token |-> IF t \in gone THEN None ELSE retained[t]]
      /\ expiry' = Kept(gone)
      /\ discarding' = discarding \cup ToDiscard(gone)
      /\ UNCHANGED <<running, configured, issued, attempt, inbox, host, made, delivered>>
  BY DEF RefreshDue
<1> HIDE DEF gone
<1>3. ASSUME NEW t \in Token, t \notin gone
      PROVE  Stands(t)' /\ Uses(t)' = Uses(t)
  BY <1>2, <1>3, StillStands DEF TransferInv
<1>4. \A t \in gone : t \in Token /\ retained'[t] = None
  BY <1>1, <1>2 DEF Retained
<1>5. PathsApart' /\ discarding' \subseteq Path
  BY <1>1, <1>2, <1>3, <1>4, ForgottenApart
<1>6. \A t \in Token : Stands(t)'
  BY <1>1, <1>2, <1>3, <1>4, ForgottenRests DEF TransferInv
<1>7. TypeOK'
  <2>1. retained' \in [Token -> Record \cup {None}]
    BY <1>2 DEF TransferInv, TypeOK
  <2>2. expiry' \subseteq Retained' \X Retained'
    BY <1>2 DEF TransferInv, TypeOK, Kept, Retained
  <2> QED
    BY <1>2, <1>5, <2>1, <2>2 DEF TransferInv, TypeOK
<1>8. HostTypeOK' /\ Fresh' /\ BytesInPlace' /\ DeliveredStaysWhole'
  BY <1>2 DEF TransferInv, HostTypeOK, Fresh, BytesInPlace, DeliveredStaysWhole
<1> QED
  BY <1>5, <1>6, <1>7, <1>8 DEF TransferInv

\* begin_relay stages into a place of its own, once it has made room.
LEMMA BeginStep ==
    ASSUME TransferInv, NEW t \in Token, NEW version \in Versions[t],
           NEW lapsed \in Lapsed, BeginUpload(t, version, lapsed)
    PROVE  TransferInv'
<1> DEFINE gone == Expired(lapsed) \cup Evicted(Expired(lapsed))
           new == [path |-> None, inFlight |-> TRUE]
<1>1. gone \in SUBSET Retained /\ \A u \in gone : ~InFlight(u)
  BY GoneIsIdle
<1>2. /\ t \notin issued /\ issued' = issued \cup {t}
      /\ retained' = [u \in Token |-> IF u = t THEN new
                                      ELSE IF u \in gone THEN None ELSE retained[u]]
      /\ expiry' = KeptThen(gone, t)
      /\ discarding' = discarding \cup ToDiscard(gone)
      /\ attempt' = [attempt EXCEPT ![t] = Relay(None, version, 1)]
      /\ UNCHANGED <<running, configured, inbox, host, made, delivered>>
  BY DEF BeginUpload
<1> HIDE DEF gone
<1>3. retained[t] = None /\ attempt[t] = None /\ inbox[t] = <<>> /\ t \notin gone
  BY <1>1, <1>2 DEF TransferInv, Fresh, Retained
<1>4. /\ Relay(None, version, 1) \in Attempt /\ Relay(None, version, 1) # None
      /\ Relay(None, version, 1).path = None /\ Relay(None, version, 1).next = 1
      /\ Relay(None, version, 1).decision = "sending"
  <2>1. version \in Version
    BY DEF Version
  <2>2. Relay(None, version, 1) \in Attempt
    BY <2>1, TransferConstants DEF Relay, Attempt, Decision
  <2> QED
    BY <2>2, NoneIsAbsent DEF Relay
<1>5. attempt'[t] = Relay(None, version, 1) /\ \A u \in Token : u # t => attempt'[u] = attempt[u]
  BY <1>2 DEF TransferInv, TypeOK
<1>6. new \in Record /\ new # None
  <2>1. new \in Record
    BY DEF Record
  <2> QED
    BY <2>1, NoneIsAbsent
<1>7. Stands(t)' /\ Uses(t)' \subseteq Uses(t)
  <2>1. InFlight(t)'
    BY <1>2, <1>6 DEF InFlight
  <2>2. Carrying(t)'
    BY <1>2, <1>3, <1>4, <1>5, <2>1, NoneIsAbsent DEF Carrying, Placed
  <2>3. Uses(t)' = {}
    <3>1. attempt'[t].path = None /\ retained'[t].path = None /\ inbox'[t] = <<>>
      BY <1>2, <1>3, <1>4, <1>5
    <3>2. \A p \in Path : p # None
      BY NoneIsAbsent DEF Path
    <3> QED
      BY <3>1, <3>2 DEF Uses
  <2> QED
    BY <2>2, <2>3 DEF Stands
<1>8. ASSUME NEW u \in Token, u \notin gone, u # t
      PROVE  Stands(u)' /\ Uses(u)' = Uses(u)
  BY <1>2, <1>5, <1>8, StillStands DEF TransferInv
<1>9. \A u \in gone : u \in Token /\ retained'[u] = None /\ attempt'[u] = attempt[u]
  BY <1>1, <1>2, <1>3, <1>5 DEF Retained
<1>10. PathsApart' /\ discarding' \subseteq Path
  BY <1>1, <1>2, <1>7, <1>8, <1>9, ForgottenApart
<1>11. \A u \in Token : Stands(u)'
  BY <1>1, <1>2, <1>7, <1>8, <1>9, ForgottenRests DEF TransferInv
<1>12. TypeOK'
  <2>1. retained' \in [Token -> Record \cup {None}]
    BY <1>2, <1>6 DEF TransferInv, TypeOK
  <2>2. expiry' \subseteq Retained' \X Retained'
    BY <1>2, <1>6 DEF TransferInv, TypeOK, Kept, KeptThen, Retained
  <2>3. attempt' \in [Token -> Attempt \cup {None}]
    BY <1>2, <1>4 DEF TransferInv, TypeOK
  <2> QED
    BY <1>2, <1>10, <2>1, <2>2, <2>3 DEF TransferInv, TypeOK
<1>13. HostTypeOK' /\ BytesInPlace' /\ DeliveredStaysWhole'
  BY <1>2 DEF TransferInv, HostTypeOK, BytesInPlace, DeliveredStaysWhole
<1>14. Fresh'
  BY <1>2, <1>5, <1>9 DEF TransferInv, Fresh
<1> QED
  BY <1>10, <1>11, <1>12, <1>13, <1>14 DEF TransferInv

\* resume_relay: a retained transfer nobody carries goes on; everything else is
\* refused after the sweep.
LEMMA ResumeStep ==
    ASSUME TransferInv, NEW t \in Token, NEW version \in Versions[t],
           NEW lapsed \in Lapsed, ResumeUpload(t, version, lapsed)
    PROVE  TransferInv'
<1> DEFINE gone == Expired(lapsed)
           resumes == retained[t] # None /\ t \notin gone /\ ~InFlight(t) /\ configured
           carried == [retained[t] EXCEPT !.inFlight = TRUE]
           asks == [Relay(retained[t].path, version, None) EXCEPT !.decision = "asking"]
<1>1. gone \in SUBSET Retained /\ \A u \in gone : ~InFlight(u)
  BY GoneIsIdle
<1>2. /\ t \in issued
      /\ retained' = [u \in Token |-> IF u \in gone THEN None
                                      ELSE IF u = t /\ resumes THEN carried ELSE retained[u]]
      /\ attempt' = IF resumes THEN [attempt EXCEPT ![t] = asks] ELSE attempt
      /\ expiry' = Kept(gone)
      /\ discarding' = discarding \cup ToDiscard(gone)
      /\ UNCHANGED <<running, configured, issued, inbox, host, made, delivered>>
  BY DEF ResumeUpload
<1> HIDE DEF gone
<1>3. ASSUME resumes
      PROVE  /\ retained[t] \in Record /\ carried \in Record /\ carried # None
             /\ carried.inFlight /\ carried.path = retained[t].path
             /\ asks \in Attempt /\ asks # None /\ asks.path = retained[t].path
             /\ asks.decision = "asking" /\ asks.next = None
             /\ Resting(t) /\ retained[t].path # None
  <2>1. retained[t] \in Record
    BY <1>3 DEF TransferInv, TypeOK
  <2>2. version \in Version
    BY DEF Version
  <2>3. Resting(t) /\ retained[t].path # None
    BY <1>3, IdleRests DEF TransferInv, Resting
  <2>4. carried \in Record /\ carried.inFlight /\ carried.path = retained[t].path
    BY <2>1 DEF Record
  <2>5. /\ asks \in Attempt /\ asks.path = retained[t].path
        /\ asks.decision = "asking" /\ asks.next = None
    BY <2>1, <2>2 DEF Record, Relay, Attempt
  <2> QED
    BY <2>1, <2>3, <2>4, <2>5, NoneIsAbsent
<1> HIDE DEF carried, asks
<1>4. ASSUME NEW u \in Token, u \notin gone, ~(u = t /\ resumes)
      PROVE  Stands(u)' /\ Uses(u)' = Uses(u)
  <2>1. attempt'[u] = attempt[u]
    BY <1>2, <1>4 DEF TransferInv, TypeOK
  <2> QED
    BY <1>2, <1>4, <2>1, StillStands DEF TransferInv
<1>5. ASSUME resumes
      PROVE  Stands(t)' /\ Uses(t)' \subseteq Uses(t)
  <2>1. attempt'[t] = asks /\ retained'[t] = carried /\ inbox'[t] = <<>>
    BY <1>2, <1>3, <1>5 DEF TransferInv, TypeOK, Resting
  <2>2. Asking(t)'
    BY <1>3, <1>5, <2>1 DEF Asking, InFlight
  <2>3. Uses(t)' \subseteq Uses(t)
    BY <1>3, <1>5, <2>1 DEF Uses
  <2> QED
    BY <2>2, <2>3 DEF Stands
<1>6. \A u \in gone : /\ u \in Token /\ retained'[u] = None
                      /\ attempt'[u] = attempt[u] /\ inbox'[u] = inbox[u]
  <2> TAKE u \in gone
  <2>1. u \in Token /\ retained'[u] = None /\ ~(u = t /\ resumes) /\ inbox'[u] = inbox[u]
    BY <1>1, <1>2 DEF Retained
  <2>2. attempt'[u] = attempt[u]
    BY <1>2, <2>1 DEF TransferInv, TypeOK
  <2> QED
    BY <2>1, <2>2
<1>7. \A u \in Token \ gone : Stands(u)' /\ Uses(u)' \subseteq Uses(u)
  BY <1>4, <1>5
<1>8. PathsApart' /\ discarding' \subseteq Path
  BY <1>1, <1>2, <1>6, <1>7, ForgottenApart
<1>9. \A u \in Token : Stands(u)'
  BY <1>1, <1>6, <1>7, ForgottenRests DEF TransferInv
<1>10. TypeOK'
  <2>1. retained' \in [Token -> Record \cup {None}]
    BY <1>2, <1>3 DEF TransferInv, TypeOK
  <2>2. expiry' \subseteq Retained' \X Retained'
    BY <1>2, <1>3 DEF TransferInv, TypeOK, Kept, Retained
  <2>3. attempt' \in [Token -> Attempt \cup {None}]
    BY <1>2, <1>3 DEF TransferInv, TypeOK
  <2> QED
    BY <1>2, <1>8, <2>1, <2>2, <2>3 DEF TransferInv, TypeOK
<1>11. HostTypeOK' /\ BytesInPlace' /\ DeliveredStaysWhole'
  BY <1>2 DEF TransferInv, HostTypeOK, BytesInPlace, DeliveredStaysWhole
<1>12. Fresh'
  <2> SUFFICES ASSUME NEW u \in Token \ issued'
               PROVE  retained'[u] = None /\ attempt'[u] = None /\ inbox'[u] = <<>>
    BY DEF Fresh
  <2>1. u # t /\ u \notin issued
    BY <1>2
  <2>2. attempt'[u] = attempt[u]
    BY <1>2, <2>1 DEF TransferInv, TypeOK
  <2> QED
    BY <1>2, <2>1, <2>2 DEF TransferInv, Fresh
<1> QED
  BY <1>8, <1>9, <1>10, <1>11, <1>12 DEF TransferInv

-----------------------------------------------------------------------------
(* One transfer's own steps *)

\* A step of one transfer leaves the others standing if it keeps off their
\* files; with what it does to its own, the invariant is kept.
LEMMA OwnStep ==
    ASSUME TransferInv, NEW t \in Token, TypeOK', HostTypeOK', t \in issued, issued' = issued,
           \A u \in Token : u # t => /\ attempt'[u] = attempt[u] /\ inbox'[u] = inbox[u]
                                    /\ retained'[u] = retained[u],
           \A p \in Path : host'[p] # host[p] => p \in Uses(t) \/ p > made,
           Stands(t)'
    PROVE  /\ \A u \in Token : Stands(u)'
           /\ \A u \in Token : u # t => Uses(u)' = Uses(u)
           /\ Fresh'
           /\ \A p \in delivered : host'[p] = host[p]
<1>1. ASSUME NEW u \in Token, u # t
      PROVE  Stands(u)' /\ Uses(u)' = Uses(u)
  <2>1. \A p \in Uses(u) : host'[p] = host[p]
    <3> SUFFICES ASSUME NEW p \in Uses(u), host'[p] # host[p] PROVE FALSE
      OBVIOUS
    <3>1. p \in Path /\ p \in 1..made
      BY DEF TransferInv, PathsApart, Uses
    <3>2. p \in Uses(t)
      BY <3>1 DEF TransferInv, TypeOK
    <3> QED
      BY <1>1, <3>2 DEF TransferInv, PathsApart
  <2> QED
    BY <1>1, <2>1, StillStands DEF TransferInv
<1>2. Fresh'
  BY DEF TransferInv, Fresh
<1>3. ASSUME NEW p \in delivered PROVE host'[p] = host[p]
  <2>1. p \in Path /\ p \in 1..made /\ p \notin Uses(t)
    BY DEF TransferInv, TypeOK, PathsApart
  <2> QED
    BY <2>1 DEF TransferInv, TypeOK
<1> QED
  BY <1>1, <1>2, <1>3

\* A transfer that is carried was issued.
LEMMA CarriedIsIssued ==
    ASSUME TransferInv, NEW t \in Token,
           attempt[t] # None \/ inbox[t] # <<>> \/ retained[t] # None
    PROVE  t \in issued
BY DEF TransferInv, Fresh

\* What a task knows of itself is well typed.
LEMMA AttemptType ==
    ASSUME TransferInv, NEW t \in Token, attempt[t] # None
    PROVE  /\ attempt[t] \in Attempt
           /\ attempt[t].path \in Path \cup {None}
           /\ attempt[t].version \in Version
           /\ attempt[t].next \in 1..(Length + 1) \cup {None}
           /\ attempt[t].decision \in Decision \cup {"asking"}
BY DEF TransferInv, TypeOK, Attempt

\* A task that heard from the host, or never had to ask, carries.
LEMMA BusyCarries ==
    ASSUME TransferInv, NEW t \in Token, attempt[t] # None, attempt[t].decision # "asking"
    PROVE  Carrying(t)
BY DEF TransferInv, Stands, Resting, Asking, Ended

\* The same, for a step that takes no place and gives none away.
LEMMA OwnStepKeeps ==
    ASSUME TransferInv, NEW t \in Token, TypeOK', HostTypeOK', t \in issued, issued' = issued,
           \A u \in Token : u # t => /\ attempt'[u] = attempt[u] /\ inbox'[u] = inbox[u]
                                    /\ retained'[u] = retained[u],
           \A p \in Path : host'[p] # host[p] => p \in Uses(t),
           Stands(t)', Uses(t)' \subseteq Uses(t), BytesInPlace',
           UNCHANGED <<made, discarding, delivered>>
    PROVE  TransferInv'
<1>1. /\ \A u \in Token : Stands(u)' /\ Uses(u)' \subseteq Uses(u)
      /\ Fresh' /\ \A p \in delivered : host'[p] = host[p]
  BY OwnStep
<1>2. PathsApart'
  BY <1>1, ApartShrinks DEF TransferInv
<1>3. DeliveredStaysWhole'
  BY <1>1 DEF TransferInv, DeliveredStaysWhole
<1> QED
  BY <1>1, <1>2, <1>3 DEF TransferInv

\* What an inbox names of the host.
LEMMA NamedIn ==
    ASSUME NEW box, NEW p
    PROVE  /\ box = <<>> \/ (\E n : box = <<AtOffset(n)>>)
                => ~ \E i \in DOMAIN box : box[i].type # "offset" /\ box[i].path = p
           /\ \A out \in Outcome : box = <<out>> \/ (\E n : box = <<AtOffset(n), out>>)
                => ((\E i \in DOMAIN box : box[i].type # "offset" /\ box[i].path = p)
                       <=> out.path = p)
<1>1. box = <<>> => ~ \E i \in DOMAIN box : box[i].type # "offset" /\ box[i].path = p
  OBVIOUS
<1>2. ASSUME NEW n, box = <<AtOffset(n)>>
      PROVE  ~ \E i \in DOMAIN box : box[i].type # "offset" /\ box[i].path = p
  BY <1>2 DEF AtOffset
<1>3. ASSUME NEW out \in Outcome, box = <<out>> \/ (\E n : box = <<AtOffset(n), out>>)
      PROVE  (\E i \in DOMAIN box : box[i].type # "offset" /\ box[i].path = p) <=> out.path = p
  <2>1. CASE box = <<out>>
    BY <2>1, Messages
  <2>2. ASSUME NEW n, box = <<AtOffset(n), out>>
        PROVE  (\E i \in DOMAIN box : box[i].type # "offset" /\ box[i].path = p)
                  <=> out.path = p
    BY <2>2, Messages
  <2> QED
    BY <1>3, <2>1, <2>2
<1> QED
  BY <1>1, <1>2, <1>3

\* An input sent to a loop that had at most an offset to hear.
LEMMA Appended ==
    ASSUME NEW n, NEW m
    PROVE  /\ Append(<<>>, m) = <<m>> /\ Append(<<n>>, m) = <<n, m>>
           /\ Head(<<m>>) = m /\ Tail(<<m>>) = <<>>
           /\ Head(<<n, m>>) = n /\ Tail(<<n, m>>) = <<m>>
<1>1. Append(<<>>, m) = <<m>>
  OBVIOUS
<1>2. Append(<<n>>, m) = <<n, m>>
  <2> DEFINE s == Append(<<n>>, m)
             r == <<n, m>>
  <2>1. <<n>> \in Seq({n, m}) /\ Len(<<n>>) = 1 /\ <<n>>[1] = n
    OBVIOUS
  <2>2. s \in Seq({n, m}) /\ Len(s) = 2 /\ s[1] = n /\ s[2] = m
    BY <2>1
  <2>3. r \in Seq({n, m}) /\ Len(r) = 2 /\ r[1] = n /\ r[2] = m
    OBVIOUS
  <2> HIDE DEF s, r
  <2>4. s \in [1..2 -> {n, m}] /\ r \in [1..2 -> {n, m}]
    BY <2>2, <2>3
  <2>5. \A i \in 1..2 : s[i] = r[i]
    BY <2>2, <2>3
  <2>6. s = r
    BY <2>4, <2>5
  <2> QED
    BY <2>6 DEF s, r
<1>3. Head(<<m>>) = m /\ Head(<<n, m>>) = n
  OBVIOUS
<1>4. Tail(<<m>>) = <<>>
  OBVIOUS
<1>5. Tail(<<n, m>>) = <<m>>
  OBVIOUS
<1> QED
  BY <1>1, <1>2, <1>3, <1>4, <1>5

\* The sender's last word changes nothing but what is made of its bytes.
LEMMA SenderStep ==
    ASSUME TransferInv, NEW t \in Token, NEW decision \in Decision, SenderDecides(t, decision)
    PROVE  TransferInv'
<1> DEFINE new == [attempt[t] EXCEPT !.decision = decision]
<1>1. /\ attempt[t] # None /\ attempt[t].decision = "sending"
      /\ decision = "overrun" => attempt[t].next # None /\ attempt[t].next > Length
      /\ attempt' = [attempt EXCEPT ![t] = new]
      /\ UNCHANGED <<running, configured, issued, retained, expiry, inbox, host, made,
                     discarding, delivered>>
  BY DEF SenderDecides
<1>2. Carrying(t)
  BY <1>1, BusyCarries
<1>3. /\ new \in Attempt /\ new.path = attempt[t].path /\ new.next = attempt[t].next
      /\ new.decision = decision
  BY <1>1, AttemptType DEF Attempt
<1> HIDE DEF new
<1>4. attempt'[t] = new /\ new # None /\ \A u \in Token : u # t => attempt'[u] = attempt[u]
  BY <1>1, <1>3, NoneIsAbsent DEF TransferInv, TypeOK
<1>5. TypeOK' /\ HostTypeOK'
  <2>1. attempt' \in [Token -> Attempt \cup {None}]
    BY <1>1, <1>3 DEF TransferInv, TypeOK
  <2> QED
    BY <1>1, <2>1 DEF TransferInv, TypeOK, HostTypeOK, Retained
<1>6. Stands(t)' /\ Uses(t)' = Uses(t)
  <2>1. \A n : Placed(attempt[t], n)' <=> Placed(attempt[t], n)
    BY <1>1, <1>3, <1>4 DEF Placed
  <2>2. decision # "asking"
    BY DEF Decision
  <2>3. decision = "overrun" => attempt[t].next = Length + 1
    BY <1>1, AttemptType, TransferConstants
  <2>4. Carrying(t)'
    BY <1>1, <1>2, <1>3, <1>4, <2>1, <2>2, <2>3 DEF Carrying, InFlight
  <2>5. Uses(t)' = Uses(t)
    BY <1>1, <1>3, <1>4 DEF Uses
  <2> QED
    BY <2>4, <2>5 DEF Stands
<1>7. t \in issued
  BY <1>1, CarriedIsIssued
<1>8. BytesInPlace'
  BY <1>1 DEF TransferInv, BytesInPlace
<1> QED
  BY <1>1, <1>4, <1>5, <1>6, <1>7, <1>8, OwnStepKeeps

\* What a task reports is the last the loop hears of it.
LEMMA Reported ==
    ASSUME HostTypeOK, NEW t \in Token, NEW input, Report(t, input)
    PROVE  /\ inbox'[t] = Append(inbox[t], input)
           /\ \A u \in Token : u # t => inbox'[u] = inbox[u]
           /\ inbox' = [u \in Token |-> inbox'[u]]
BY DEF HostTypeOK, Report

\* A path the host has holds a file.
LEMMA FileType ==
    ASSUME TransferInv, NEW p \in Path, host[p] # None
    PROVE  host[p] \in File /\ Len(host[p]) \in 0..Length
<1>1. host[p] \in File
  BY DEF TransferInv, TypeOK
<1>2. Len(host[p]) \in Nat
  BY <1>1 DEF File
<1> QED
  BY <1>1, <1>2, TransferConstants DEF TransferInv, HostTypeOK

\* The head of a resumed task: the offset is the host's answer, and without one
\* the transfer starts again with nothing staged.
LEMMA AskHostStep ==
    ASSUME TransferInv, NEW t \in Token, AskHost(t)
    PROVE  TransferInv'
<1> DEFINE old == attempt[t].path
           same == [attempt[t] EXCEPT !.decision = "sending"]
           again == [attempt[t] EXCEPT !.decision = "sending", !.path = None]
<1>1. attempt[t] # None /\ attempt[t].decision = "asking"
  BY DEF AskHost
<1>2. Asking(t)
  BY <1>1 DEF TransferInv, Stands, Resting, Carrying, Ended
<1>3. attempt[t] \in Attempt /\ attempt[t].next = None /\ old \in Path /\ old \in Uses(t)
  BY <1>1, <1>2, AttemptType, UsesOf DEF Asking, TransferInv
<1>4. /\ same \in Attempt /\ same.path = old /\ same.next = None /\ same.decision = "sending"
      /\ again \in Attempt /\ again.path = None /\ again.next = None
      /\ again.decision = "sending" /\ same # None /\ again # None
  <2>1. /\ same \in Attempt /\ same.path = old /\ same.next = None /\ same.decision = "sending"
        /\ again \in Attempt /\ again.path = None /\ again.next = None
        /\ again.decision = "sending"
    BY <1>3 DEF Attempt, Decision
  <2> QED
    BY <2>1, NoneIsAbsent
<1>5. PICK n \in 0..Length :
        /\ \/ /\ host[old] # None /\ n = Len(host[old])
              /\ attempt' = [attempt EXCEPT ![t] = same] /\ host' = host
           \/ /\ n = 0
              /\ attempt' = [attempt EXCEPT ![t] = again]
              /\ host' = [host EXCEPT ![old] = None]
        /\ Report(t, AtOffset(n))
        /\ UNCHANGED <<running, configured, issued, retained, expiry, made,
                       discarding, delivered>>
  <2>1. CASE /\ host[old] # None /\ Len(host[old]) > 0
             /\ attempt' = [attempt EXCEPT ![t].decision = "sending"]
             /\ Report(t, [type |-> "offset", staged |-> Len(host[old])])
             /\ UNCHANGED host
    <3>1. Len(host[old]) \in 0..Length
      BY <1>3, <2>1, FileType
    <3>2. attempt' = [attempt EXCEPT ![t] = same]
      BY <2>1
    <3> QED
      BY <2>1, <3>1, <3>2 DEF AskHost, AtOffset
  <2>2. CASE /\ attempt' = [attempt EXCEPT ![t].decision = "sending", ![t].path = None]
             /\ Report(t, [type |-> "offset", staged |-> 0])
             /\ host' = [host EXCEPT ![old] = None]
    <3>1. attempt' = [attempt EXCEPT ![t] = again]
      BY <2>2 DEF TransferInv, TypeOK
    <3>2. 0 \in 0..Length
      BY TransferConstants
    <3> QED
      BY <2>2, <3>1, <3>2 DEF AskHost, AtOffset
  <2> QED
    BY <2>1, <2>2 DEF AskHost
<1> HIDE DEF same, again
<1>6. /\ inbox'[t] = <<AtOffset(n)>> /\ \A u \in Token : u # t => inbox'[u] = inbox[u]
      /\ inbox' = [u \in Token |-> inbox'[u]]
  BY <1>2, <1>5, Reported, Appended DEF TransferInv, Asking
<1>7. /\ attempt'[t] \in {same, again}
      /\ attempt' \in [Token -> Attempt \cup {None}]
      /\ \A u \in Token : u # t => attempt'[u] = attempt[u]
  BY <1>4, <1>5 DEF TransferInv, TypeOK
<1>8. /\ host' \in [Path -> File \cup {None}]
      /\ \A p \in Path : host'[p] # host[p] => p = old /\ host'[p] = None
  BY <1>5 DEF TransferInv, TypeOK
<1>9. TypeOK' /\ HostTypeOK' /\ BytesInPlace'
  BY <1>5, <1>6, <1>7, <1>8 DEF TransferInv, TypeOK, HostTypeOK, BytesInPlace, Retained
<1>10. Placed(attempt[t], n)'
  <2>1. \/ attempt'[t] = same /\ host' = host /\ host[old] # None /\ n = Len(host[old])
        \/ attempt'[t] = again /\ n = 0
    BY <1>5 DEF TransferInv, TypeOK
  <2>2. old # None
    BY <1>2 DEF Asking
  <2> QED
    BY <1>4, <2>1, <2>2 DEF Placed
<1>11. Carrying(t)'
  BY <1>2, <1>4, <1>5, <1>6, <1>7, <1>10 DEF Carrying, Asking, InFlight
<1>12. Uses(t)' \subseteq Uses(t)
  <2> SUFFICES ASSUME NEW p \in Uses(t)' PROVE p \in Uses(t)
    OBVIOUS
  <2>1. p \in Path /\ p # None
    BY NoneIsAbsent DEF Uses, Path
  <2>2. \/ attempt'[t].path = p
        \/ retained[t] # None /\ retained[t].path = p
    <3>1. ~ \E i \in DOMAIN inbox'[t] : inbox'[t][i].type # "offset" /\ inbox'[t][i].path = p
      BY <1>6, NamedIn
    <3> QED
      BY <1>5, <3>1 DEF Uses
  <2> QED
    BY <1>3, <1>4, <1>7, <2>1, <2>2 DEF Uses
<1>13. t \in issued
  BY <1>1, CarriedIsIssued
<1> QED
  BY <1>3, <1>5, <1>6, <1>7, <1>8, <1>9, <1>11, <1>12, <1>13, OwnStepKeeps DEF Stands

\* The staging script makes a directory nobody has.
LEMMA StageStep ==
    ASSUME TransferInv, NEW t \in Token, Stage(t)
    PROVE  TransferInv'
<1> DEFINE new == [attempt[t] EXCEPT !.path = made + 1]
<1>1. /\ attempt[t] # None /\ attempt[t].decision # "asking" /\ attempt[t].path = None
      /\ made < MaxPaths /\ made' = made + 1
      /\ host' = [host EXCEPT ![made + 1] = <<>>]
      /\ attempt' = [attempt EXCEPT ![t] = new]
      /\ UNCHANGED <<running, configured, issued, retained, expiry, inbox, discarding, delivered>>
  BY DEF Stage
<1>2. Carrying(t) /\ t \in issued
  BY <1>1, BusyCarries, CarriedIsIssued
<1>3. made \in Nat /\ made + 1 \in Path /\ made' \in 0..MaxPaths
  BY <1>1, TransferConstants DEF TransferInv, TypeOK, Path
<1>4. /\ new \in Attempt /\ new.path = made + 1 /\ new.next = attempt[t].next
      /\ new.decision = attempt[t].decision
  BY <1>1, <1>3, AttemptType DEF Attempt
<1> HIDE DEF new
<1>5. attempt'[t] = new /\ new # None /\ \A u \in Token : u # t => attempt'[u] = attempt[u]
  BY <1>1, <1>4, NoneIsAbsent DEF TransferInv, TypeOK
<1>6. <<>> \in File /\ <<>> # None /\ Len(<<>>) = 0
  <2>1. <<>> \in File /\ Len(<<>>) = 0
    BY DEF File
  <2> QED
    BY <2>1, NoneIsAbsent
<1>7. /\ host' \in [Path -> File \cup {None}] /\ host'[made + 1] = <<>>
      /\ \A p \in Path : p # made + 1 => host'[p] = host[p]
  BY <1>1, <1>3, <1>6 DEF TransferInv, TypeOK
<1>8. TypeOK'
  <2>1. attempt' \in [Token -> Attempt \cup {None}]
    BY <1>1, <1>4 DEF TransferInv, TypeOK
  <2> QED
    BY <1>1, <1>3, <1>7, <2>1 DEF TransferInv, TypeOK, Retained
<1>9. HostTypeOK'
  BY <1>1, <1>3, <1>6, <1>7, TransferConstants DEF TransferInv, HostTypeOK
<1>10. BytesInPlace'
  <2>1. DOMAIN host'[made + 1] = {}
    BY <1>7
  <2> QED
    BY <1>3, <1>7, <2>1 DEF TransferInv, BytesInPlace
<1>11. \A n : Placed(attempt[t], n) => Placed(attempt[t], n)'
  <2>1. made + 1 # None
    BY <1>3, NoneIsAbsent
  <2> QED
    BY <1>1, <1>4, <1>5, <1>6, <1>7, <2>1 DEF Placed
<1>12. Stands(t)'
  <2>1. Carrying(t)'
    BY <1>1, <1>2, <1>4, <1>5, <1>11 DEF Carrying, InFlight
  <2> QED
    BY <2>1 DEF Stands
<1>13. /\ \A u \in Token : Stands(u)'
       /\ \A u \in Token : u # t => Uses(u)' = Uses(u)
       /\ Fresh' /\ \A p \in delivered : host'[p] = host[p]
  <2>1. \A p \in Path : host'[p] # host[p] => p > made
    BY <1>3, <1>7
  <2> QED
    BY <1>1, <1>2, <1>5, <1>8, <1>9, <1>12, <2>1, OwnStep
<1>14. Uses(t)' \subseteq Uses(t) \cup {made + 1}
  BY <1>1, <1>4, <1>5 DEF Uses
<1>15. PathsApart'
  <2>1. made + 1 \notin 1..made /\ 1..made \subseteq 1..made' /\ made + 1 \in 1..made'
    BY <1>1, <1>3
  <2>2. \A u \in Token : Uses(u) \subseteq 1..made
    BY DEF TransferInv, PathsApart
  <2>3. discarding \cup delivered \subseteq 1..made
    BY DEF TransferInv, PathsApart
  <2>4. \A u, v \in Token : u # v => Uses(u)' \cap Uses(v)' = {}
    BY <1>13, <1>14, <2>1, <2>2 DEF TransferInv, PathsApart
  <2>5. \A u \in Token : Uses(u)' \cap (discarding \cup delivered) = {}
    BY <1>13, <1>14, <2>1, <2>3 DEF TransferInv, PathsApart
  <2>6. \A u \in Token : Uses(u)' \subseteq 1..made'
    BY <1>13, <1>14, <2>1, <2>2
  <2> QED
    BY <1>1, <2>1, <2>3, <2>4, <2>5, <2>6 DEF TransferInv, PathsApart
<1>16. DeliveredStaysWhole'
  BY <1>1, <1>13 DEF TransferInv, DeliveredStaysWhole
<1> QED
  BY <1>8, <1>9, <1>10, <1>13, <1>15, <1>16 DEF TransferInv

\* A byte goes where the host's file ends, which is its own place.
LEMMA CarryByteStep ==
    ASSUME TransferInv, NEW t \in Token, CarryByte(t)
    PROVE  TransferInv'
<1> DEFINE place == attempt[t].path
           next == attempt[t].next
           byte == <<attempt[t].version, next>>
           new == [attempt[t] EXCEPT !.next = @ + 1]
           grown == Append(host[place], byte)
<1>1. /\ attempt[t] # None /\ attempt[t].decision = "sending"
      /\ place # None /\ next # None /\ next <= Length
      /\ host[place] # None /\ Len(host[place]) < Length
      /\ host' = [host EXCEPT ![place] = grown]
      /\ attempt' = [attempt EXCEPT ![t] = new]
      /\ UNCHANGED <<running, configured, issued, retained, expiry, inbox, made,
                     discarding, delivered>>
  BY DEF CarryByte
<1>2. Carrying(t) /\ t \in issued
  BY <1>1, BusyCarries, CarriedIsIssued
<1>3. place \in Path /\ place \in Uses(t) /\ next \in 1..Length
  BY <1>1, AttemptType, UsesOf, TransferConstants DEF TransferInv
<1>4. inbox[t] = <<>> /\ Len(host[place]) = next - 1
  BY <1>1, <1>2 DEF Carrying, Placed
<1>5. /\ new \in Attempt /\ new.path = place /\ new.next = next + 1
      /\ new.decision = "sending"
  BY <1>1, <1>3, AttemptType, TransferConstants DEF Attempt
<1>6. byte \in Version \X (1..Length) /\ byte[2] = next
  BY <1>1, <1>3, AttemptType
<1>7. /\ grown \in File /\ Len(grown) = next /\ grown[next] = byte
      /\ DOMAIN grown = 1..next /\ \A i \in 1..(next - 1) : grown[i] = host[place][i]
  <2>1. host[place] \in Seq(Version \X (1..Length))
    BY <1>1, <1>3, FileType DEF File
  <2> HIDE DEF byte, next, place
  <2> QED
    BY <1>3, <1>4, <1>6, <2>1 DEF File
<1> HIDE DEF new, grown, byte, place, next
<1>8. attempt'[t] = new /\ new # None /\ \A u \in Token : u # t => attempt'[u] = attempt[u]
  BY <1>1, <1>5, NoneIsAbsent DEF TransferInv, TypeOK
<1>9. /\ host' \in [Path -> File \cup {None}] /\ host'[place] = grown
      /\ \A p \in Path : p # place => host'[p] = host[p]
  BY <1>1, <1>3, <1>7 DEF TransferInv, TypeOK
<1>10. TypeOK'
  <2>1. attempt' \in [Token -> Attempt \cup {None}]
    BY <1>1, <1>5 DEF TransferInv, TypeOK
  <2> QED
    BY <1>1, <1>9, <2>1 DEF TransferInv, TypeOK, Retained
<1>11. HostTypeOK'
  BY <1>1, <1>3, <1>7, <1>9 DEF TransferInv, HostTypeOK
<1>12. BytesInPlace'
  <2> SUFFICES ASSUME NEW p \in Path, host'[p] # None, NEW i \in DOMAIN host'[p]
               PROVE  host'[p][i][2] = i
    BY DEF BytesInPlace
  <2>1. CASE p # place
    BY <1>9, <2>1 DEF TransferInv, BytesInPlace
  <2>2. CASE p = place
    <3>1. i \in 1..next
      BY <1>7, <1>9, <2>2
    <3>2. CASE i = next
      BY <1>6, <1>7, <1>9, <2>2, <3>2
    <3>3. CASE i # next
      <4>1. i \in 1..(next - 1) /\ i \in DOMAIN host[place]
        <5>1. host[place] \in Seq(Version \X (1..Length))
          BY <1>1, <1>3, FileType DEF File
        <5> QED
          BY <1>3, <1>4, <3>1, <3>3, <5>1
      <4>2. host[place][i][2] = i
        BY <1>1, <1>3, <4>1 DEF TransferInv, BytesInPlace
      <4> QED
        BY <1>7, <1>9, <2>2, <4>1, <4>2
    <3> QED
      BY <3>2, <3>3
  <2> QED
    BY <2>1, <2>2
<1>13. Stands(t)'
  <2>1. grown # None
    BY <1>7, NoneIsAbsent
  <2>2. next + 1 # None /\ (next + 1) - 1 = next
    BY <1>3, NoneIsAbsent
  <2>3. Placed(attempt[t], attempt[t].next - 1)'
    BY <1>1, <1>5, <1>7, <1>8, <1>9, <2>1, <2>2 DEF Placed
  <2>4. InFlight(t)'
    BY <1>1, <1>2 DEF Carrying, InFlight
  <2>5. Carrying(t)'
    BY <1>1, <1>4, <1>5, <1>8, <2>2, <2>3, <2>4 DEF Carrying
  <2> QED
    BY <2>5 DEF Stands
<1>14. Uses(t)' \subseteq Uses(t)
  BY <1>1, <1>5, <1>8 DEF Uses, place
<1> QED
  BY <1>1, <1>2, <1>3, <1>8, <1>9, <1>10, <1>11, <1>12, <1>13, <1>14, OwnStepKeeps

\* A task ends and its outcome, which names its place, waits for the loop.
LEMMA EndStep ==
    ASSUME TransferInv, NEW t \in Token, attempt[t] # None, Carrying(t), NEW out \in Outcome,
           out.path = attempt[t].path,
           out.type = "interrupted" => out.path # None,
           out.type = "done" => /\ out.path # None
                                /\ \E version \in Version : host'[out.path] = Whole(version),
           Report(t, out), attempt' = [attempt EXCEPT ![t] = None],
           host' \in [Path -> File \cup {None}],
           \A p \in Path : host'[p] # host[p] => p \in Uses(t) /\ host'[p] = None,
           UNCHANGED <<running, configured, issued, retained, expiry, made, discarding, delivered>>
    PROVE  TransferInv'
<1>1. t \in issued
  BY CarriedIsIssued
<1>2. /\ inbox'[t] = Append(inbox[t], out) /\ \A u \in Token : u # t => inbox'[u] = inbox[u]
      /\ inbox' = [u \in Token |-> inbox'[u]]
  BY Reported DEF TransferInv
<1>3. inbox'[t] = <<out>> \/ \E n \in 0..Length : inbox'[t] = <<AtOffset(n), out>>
  <2>1. inbox[t] = <<>> \/ \E n \in 0..Length : inbox[t] = <<AtOffset(n)>>
    BY DEF Carrying
  <2>2. CASE inbox[t] = <<>>
    BY <1>2, <2>2, Appended
  <2>3. ASSUME NEW n \in 0..Length, inbox[t] = <<AtOffset(n)>>
        PROVE  inbox'[t] = <<AtOffset(n), out>>
    BY <1>2, <2>3, Appended
  <2> QED
    BY <2>1, <2>2, <2>3
<1>4. /\ attempt'[t] = None /\ \A u \in Token : u # t => attempt'[u] = attempt[u]
      /\ attempt' \in [Token -> Attempt \cup {None}]
  BY DEF TransferInv, TypeOK
<1>5. TypeOK' /\ HostTypeOK' /\ BytesInPlace'
  BY <1>2, <1>4 DEF TransferInv, TypeOK, HostTypeOK, BytesInPlace, Retained
<1>6. Stands(t)'
  <2>1. InFlight(t)'
    BY DEF Carrying, InFlight
  <2>2. Ended(t)'
    BY <1>3, <1>4, <2>1 DEF Ended
  <2> QED
    BY <2>2 DEF Stands
<1>7. Uses(t)' \subseteq Uses(t)
  <2> SUFFICES ASSUME NEW p \in Uses(t)' PROVE p \in Uses(t)
    OBVIOUS
  <2>1. (\E i \in DOMAIN inbox'[t] : inbox'[t][i].type # "offset" /\ inbox'[t][i].path = p)
           => out.path = p
    <3>1. ASSUME inbox'[t] = <<out>>
          PROVE  (\E i \in DOMAIN inbox'[t] :
                    inbox'[t][i].type # "offset" /\ inbox'[t][i].path = p) => out.path = p
      BY <3>1, Messages
    <3>2. ASSUME NEW n \in 0..Length, inbox'[t] = <<AtOffset(n), out>>
          PROVE  (\E i \in DOMAIN inbox'[t] :
                    inbox'[t][i].type # "offset" /\ inbox'[t][i].path = p) => out.path = p
      BY <3>2, Messages
    <3> QED
      BY <1>3, <3>1, <3>2
  <2> QED
    BY <1>4, <2>1 DEF Uses
<1> QED
  BY <1>1, <1>2, <1>4, <1>5, <1>6, <1>7, OwnStepKeeps

\* relay ends with the host's receipt: the verdict is one of four, and "done"
\* is said of a whole grown.
LEMMA RelayEndsStep ==
    ASSUME TransferInv, NEW t \in Token, RelayEnds(t)
    PROVE  TransferInv'
<1> DEFINE place == attempt[t].path
           verdict == Verdict(host[place], attempt[t])
           out == [type |-> verdict, path |-> place]
<1>1. /\ attempt[t] # None /\ place # None /\ attempt[t].decision # "asking"
      /\ host[place] # None
      /\ attempt[t].decision = "sending" => Len(host[place]) = Length
      /\ Report(t, out)
      /\ host' = IF verdict \in {"refused", "withdrawn"}
                 THEN [host EXCEPT ![place] = None] ELSE host
      /\ attempt' = [attempt EXCEPT ![t] = None]
      /\ UNCHANGED <<running, configured, issued, retained, expiry, made,
                     discarding, delivered>>
  BY DEF RelayEnds
<1>2. Carrying(t)
  BY <1>1, BusyCarries
<1>3. place \in Path /\ place \in Uses(t)
  BY <1>1, AttemptType, UsesOf DEF TransferInv
<1>4. Len(host[place]) \in 0..Length
  BY <1>1, <1>3, FileType
<1>5. attempt[t].decision = "overrun" => Len(host[place]) = Length
  <2> SUFFICES ASSUME attempt[t].decision = "overrun" PROVE Len(host[place]) = Length
    OBVIOUS
  <2>1. attempt[t].next = Length + 1 /\ Length + 1 # None
    BY <1>2, NoneIsAbsent, TransferConstants DEF Carrying
  <2>2. Placed(attempt[t], (Length + 1) - 1)
    BY <1>2, <2>1 DEF Carrying
  <2> QED
    BY <1>1, <2>2, TransferConstants DEF Placed
<1>6. /\ verdict \in {"interrupted", "done", "refused", "withdrawn"}
      /\ verdict = "done" => host[place] = Whole(attempt[t].version)
  <2>1. attempt[t].decision \in {"sending", "gone", "cancel", "finish", "overrun"}
    BY <1>1, AttemptType DEF Decision
  <2>2. CASE Len(host[place]) < Length
    <3>1. attempt[t].decision \in {"gone", "cancel", "finish"}
      BY <1>1, <1>5, <2>1, <2>2, TransferConstants
    <3> QED
      BY <2>2, <3>1 DEF Verdict
  <2>3. CASE ~(Len(host[place]) < Length)
    BY <2>1, <2>3 DEF Verdict
  <2> QED
    BY <2>2, <2>3
<1> HIDE DEF verdict
<1>7. /\ out \in Outcome /\ out.path = place /\ out.type = verdict
  BY <1>3, <1>6 DEF Outcome
<1>8. /\ host' \in [Path -> File \cup {None}]
      /\ \A p \in Path : host'[p] # host[p] => p \in Uses(t) /\ host'[p] = None
      /\ verdict = "done" => host'[place] = Whole(attempt[t].version)
  BY <1>1, <1>3, <1>6 DEF TransferInv, TypeOK
<1>9. attempt[t].version \in Version
  BY <1>1, AttemptType
<1> HIDE DEF out, place
<1> QED
  BY <1>1, <1>2, <1>7, <1>8, <1>9, EndStep DEF place

\* relay ends without a receipt.
LEMMA RelayFailsStep ==
    ASSUME TransferInv, NEW t \in Token, RelayFails(t)
    PROVE  TransferInv'
<1> DEFINE type == IF attempt[t].decision = "cancel" THEN "withdrawn" ELSE "refused"
           out == [type |-> type, path |-> attempt[t].path]
<1>1. /\ attempt[t] # None /\ attempt[t].decision # "asking"
      /\ Report(t, out)
      /\ attempt' = [attempt EXCEPT ![t] = None]
      /\ UNCHANGED <<running, configured, issued, retained, expiry, host, made,
                     discarding, delivered>>
  BY DEF RelayFails
<1>2. Carrying(t)
  BY <1>1, BusyCarries
<1>3. /\ out \in Outcome /\ out.path = attempt[t].path
      /\ out.type # "interrupted" /\ out.type # "done"
  BY <1>1, AttemptType DEF Outcome
<1>4. host' \in [Path -> File \cup {None}]
  BY <1>1 DEF TransferInv, TypeOK
<1> HIDE DEF out
<1> QED
  BY <1>1, <1>2, <1>3, <1>4, EndStep

\* Input::ResumeOffset: the sender goes on from the offset the host gave.
LEMMA ResumeOffsetStep ==
    ASSUME TransferInv, NEW t \in Token, ResumeOffset(t)
    PROVE  TransferInv'
<1> DEFINE new == [attempt[t] EXCEPT !.next = Head(inbox[t]).staged + 1]
<1>1. /\ inbox[t] # <<>> /\ Head(inbox[t]).type = "offset"
      /\ inbox' = [inbox EXCEPT ![t] = Tail(@)]
      /\ attempt' = [attempt EXCEPT ![t] = IF @ = None THEN None ELSE new]
      /\ UNCHANGED <<running, configured, issued, retained, expiry, host, made,
                     discarding, delivered>>
  BY DEF ResumeOffset
<1>2. t \in issued
  BY <1>1, CarriedIsIssued
<1>3. /\ inbox'[t] = Tail(inbox[t]) /\ \A u \in Token : u # t => inbox'[u] = inbox[u]
      /\ inbox' = [u \in Token |-> inbox'[u]]
  BY <1>1 DEF TransferInv, HostTypeOK
<1>4. /\ attempt'[t] = IF attempt[t] = None THEN None ELSE new
      /\ \A u \in Token : u # t => attempt'[u] = attempt[u]
  BY <1>1 DEF TransferInv, TypeOK
<1>5. Carrying(t) \/ Ended(t)
  BY <1>1 DEF TransferInv, Stands, Resting, Asking
<1>6. CASE Carrying(t)
  <2>1. PICK n \in 0..Length : inbox[t] = <<AtOffset(n)>> /\ Placed(attempt[t], n)
    BY <1>1, <1>6 DEF Carrying
  <2>2. Head(inbox[t]).staged = n /\ inbox'[t] = <<>> /\ attempt[t].next = None
    <3>1. Head(<<AtOffset(n)>>) = AtOffset(n) /\ Tail(<<AtOffset(n)>>) = <<>>
      BY Appended
    <3> QED
      BY <1>1, <1>3, <1>6, <2>1, <3>1 DEF Carrying, AtOffset
  <2>3. attempt[t] # None
    BY <1>6 DEF Carrying
  <2>4. /\ new \in Attempt /\ new.path = attempt[t].path /\ new.next = n + 1
        /\ new.decision = attempt[t].decision
    BY <2>2, <2>3, AttemptType, TransferConstants DEF Attempt
  <2> HIDE DEF new
  <2>5. attempt'[t] = new /\ new # None /\ n + 1 # None
    BY <1>4, <2>3, <2>4, NoneIsAbsent
  <2>6. TypeOK' /\ HostTypeOK' /\ BytesInPlace'
    <3>1. attempt' \in [Token -> Attempt \cup {None}]
      BY <1>1, <2>4 DEF TransferInv, TypeOK
    <3> QED
      BY <1>1, <1>3, <3>1 DEF TransferInv, TypeOK, HostTypeOK, BytesInPlace, Retained
  <2>7. Placed(attempt[t], attempt[t].next - 1)'
    <3>1. (n + 1) - 1 = n
      OBVIOUS
    <3> QED
      BY <1>1, <2>1, <2>4, <2>5, <3>1 DEF Placed
  <2>8. Length + 1 # None /\ attempt[t].decision # "overrun"
    BY <1>6, <2>2, NoneIsAbsent, TransferConstants DEF Carrying
  <2>9. InFlight(t)'
    BY <1>1, <1>6 DEF Carrying, InFlight
  <2>10. Carrying(t)'
    BY <1>6, <2>2, <2>4, <2>5, <2>7, <2>8, <2>9 DEF Carrying
  <2>11. Uses(t)' \subseteq Uses(t)
    BY <1>1, <2>2, <2>3, <2>4, <2>5 DEF Uses
  <2> QED
    BY <1>1, <1>2, <1>3, <1>4, <2>6, <2>10, <2>11, OwnStepKeeps DEF Stands
<1>7. CASE Ended(t)
  <2>1. PICK out \in Outcome :
          /\ \/ inbox[t] = <<out>>
             \/ \E n \in 0..Length : inbox[t] = <<AtOffset(n), out>>
          /\ out.type = "interrupted" => out.path # None
          /\ out.type = "done" => /\ out.path # None
                                  /\ \E version \in Version : host[out.path] = Whole(version)
    BY <1>7 DEF Ended
  <2>2. PICK n \in 0..Length : inbox[t] = <<AtOffset(n), out>>
    <3>1. Head(<<out>>) = out /\ out.type # "offset"
      BY Appended, Messages
    <3> QED
      BY <1>1, <2>1, <3>1
  <2>3. inbox'[t] = <<out>>
    BY <1>3, <2>2, Appended
  <2>4. attempt'[t] = None
    BY <1>4, <1>7 DEF Ended
  <2>5. TypeOK' /\ HostTypeOK' /\ BytesInPlace'
    <3>1. attempt' \in [Token -> Attempt \cup {None}]
      BY <1>1, <2>4 DEF TransferInv, TypeOK
    <3> QED
      BY <1>1, <1>3, <3>1 DEF TransferInv, TypeOK, HostTypeOK, BytesInPlace, Retained
  <2>6. InFlight(t)'
    BY <1>1, <1>7 DEF Ended, InFlight
  <2>7. Ended(t)'
    BY <1>1, <2>1, <2>3, <2>4, <2>6 DEF Ended
  <2>8. Uses(t)' \subseteq Uses(t)
    <3> SUFFICES ASSUME NEW p \in Uses(t)' PROVE p \in Uses(t)
      OBVIOUS
    <3>1. (\E i \in DOMAIN inbox'[t] :
              inbox'[t][i].type # "offset" /\ inbox'[t][i].path = p) => out.path = p
      BY <2>3, NamedIn
    <3>2. out.path = p => \E i \in DOMAIN inbox[t] :
                             inbox[t][i].type # "offset" /\ inbox[t][i].path = p
      BY <2>2, NamedIn
    <3> QED
      BY <1>1, <2>4, <3>1, <3>2 DEF Uses
  <2> QED
    BY <1>1, <1>2, <1>3, <1>4, <2>5, <2>7, <2>8, OwnStepKeeps DEF Stands
<1> QED
  BY <1>5, <1>6, <1>7

\* relay_finished: an interruption is kept with the place it names, anything
\* else is over, and what is done is given away for good.
LEMMA RelayFinishedStep ==
    ASSUME TransferInv, NEW t \in Token, RelayFinished(t)
    PROVE  TransferInv'
<1> DEFINE kept == Head(inbox[t]).type = "interrupted" /\ retained[t] # None
<1>1. /\ inbox[t] # <<>> /\ Head(inbox[t]).type # "offset"
      /\ inbox' = [inbox EXCEPT ![t] = Tail(@)]
      /\ retained' = [retained EXCEPT ![t] =
                        IF kept THEN [path |-> Head(inbox[t]).path, inFlight |-> FALSE] ELSE None]
      /\ expiry' = IF kept THEN KeptThen({t}, t) ELSE Kept({t})
      /\ delivered' = IF Head(inbox[t]).type = "done"
                      THEN delivered \cup {Head(inbox[t]).path} ELSE delivered
      /\ UNCHANGED <<running, configured, issued, attempt, host, made, discarding>>
  BY DEF RelayFinished
<1>2. t \in issued
  BY <1>1, CarriedIsIssued
<1>3. Ended(t)
  <2>1. ~Resting(t) /\ ~Asking(t)
    BY <1>1 DEF Resting, Asking
  <2>2. ASSUME Carrying(t) PROVE FALSE
    <3>1. PICK n \in 0..Length : inbox[t] = <<AtOffset(n)>>
      BY <1>1, <2>2 DEF Carrying
    <3>2. Head(inbox[t]) = AtOffset(n)
      BY <3>1, Appended
    <3> QED
      BY <1>1, <3>2 DEF AtOffset
  <2> QED
    BY <2>1, <2>2 DEF TransferInv, Stands
<1>4. PICK out \in Outcome :
        /\ \/ inbox[t] = <<out>>
           \/ \E n \in 0..Length : inbox[t] = <<AtOffset(n), out>>
        /\ out.type = "interrupted" => out.path # None
        /\ out.type = "done" => /\ out.path # None
                                /\ \E version \in Version : host[out.path] = Whole(version)
  BY <1>3 DEF Ended
<1>5. inbox[t] = <<out>> /\ Head(inbox[t]) = out
  <2>1. ASSUME NEW n \in 0..Length, inbox[t] = <<AtOffset(n), out>> PROVE FALSE
    <3>1. Head(inbox[t]) = AtOffset(n)
      BY <2>1, Appended
    <3> QED
      BY <1>1, <3>1 DEF AtOffset
  <2> QED
    BY <1>4, <2>1, Appended
<1>6. /\ inbox'[t] = <<>> /\ \A u \in Token : u # t => inbox'[u] = inbox[u]
      /\ inbox' = [u \in Token |-> inbox'[u]]
  BY <1>1, <1>5, Appended DEF TransferInv, HostTypeOK
<1>7. out.path # None => out.path \in Path /\ out.path \in Uses(t)
  BY <1>5, UsesOf DEF TransferInv, Uses
<1> DEFINE waits == [path |-> out.path, inFlight |-> FALSE]
<1>8. /\ retained'[t] = (IF kept THEN waits ELSE None)
      /\ \A u \in Token : u # t => retained'[u] = retained[u]
  BY <1>1, <1>5 DEF TransferInv, TypeOK
<1>9. kept => waits \in Record /\ waits # None /\ out.path # None
  <2>1. kept => waits \in Record /\ out.path # None
    BY <1>4, <1>5, <1>7 DEF Record
  <2> QED
    BY <2>1, NoneIsAbsent
<1>10. TypeOK'
  <2>1. retained' \in [Token -> Record \cup {None}]
    BY <1>1, <1>5, <1>9 DEF TransferInv, TypeOK
  <2>2. expiry' \subseteq Retained' \X Retained'
    <3>1. Retained \ {t} \subseteq Retained' /\ (kept => t \in Retained')
      BY <1>8, <1>9 DEF Retained
    <3>2. Kept({t}) \subseteq (Retained \ {t}) \X (Retained \ {t})
      BY DEF Kept, TransferInv, TypeOK
    <3> QED
      BY <1>1, <3>1, <3>2 DEF KeptThen
  <2>3. delivered' \subseteq Path
    BY <1>1, <1>4, <1>5, <1>7 DEF TransferInv, TypeOK
  <2> QED
    BY <1>1, <2>1, <2>2, <2>3 DEF TransferInv, TypeOK
<1>11. HostTypeOK' /\ BytesInPlace'
  BY <1>1, <1>6 DEF TransferInv, HostTypeOK, BytesInPlace
<1>12. Stands(t)'
  <2>1. attempt'[t] = None
    BY <1>1, <1>3 DEF Ended
  <2>2. Resting(t)'
    BY <1>6, <1>8, <1>9, <2>1 DEF Resting
  <2> QED
    BY <2>2 DEF Stands
<1>13. /\ \A u \in Token : Stands(u)'
       /\ \A u \in Token : u # t => Uses(u)' = Uses(u)
       /\ Fresh'
  BY <1>1, <1>2, <1>6, <1>8, <1>10, <1>11, <1>12, OwnStep
<1>14. Uses(t)' = IF kept THEN {out.path} ELSE {}
  <2>1. attempt'[t] = None
    BY <1>1, <1>3 DEF Ended
  <2> QED
    BY <1>6, <1>7, <1>8, <1>9, <2>1 DEF Uses
<1>15. PathsApart'
  <2>1. Uses(t)' \subseteq Uses(t)
    BY <1>7, <1>9, <1>14
  <2>2. CASE out.type = "done"
    <3>1. Uses(t)' = {} /\ delivered' = delivered \cup {out.path} /\ out.path \in Uses(t)
      BY <1>1, <1>4, <1>5, <1>7, <1>14, <2>2
    <3> QED
      BY <1>1, <1>13, <3>1 DEF TransferInv, PathsApart
  <2>3. CASE out.type # "done"
    <3>1. delivered' = delivered
      BY <1>1, <1>5, <2>3
    <3> QED
      BY <1>1, <1>13, <2>1, <3>1, ApartShrinks DEF TransferInv
  <2> QED
    BY <2>2, <2>3
<1>16. DeliveredStaysWhole'
  BY <1>1, <1>4, <1>5 DEF TransferInv, DeliveredStaysWhole
<1> QED
  BY <1>10, <1>11, <1>13, <1>15, <1>16 DEF TransferInv

\* A host that clears its temporary directory takes what nobody carries.
LEMMA HostForgetsStep ==
    ASSUME TransferInv, NEW t \in Token, HostForgets(t)
    PROVE  TransferInv'
<1> DEFINE place == retained[t].path
<1>1. /\ retained[t] # None /\ ~retained[t].inFlight
      /\ host' = [host EXCEPT ![place] = None]
      /\ UNCHANGED <<running, configured, issued, retained, expiry, attempt, inbox,
                     made, discarding, delivered>>
  BY DEF HostForgets
<1>2. t \in issued /\ Resting(t)
  BY <1>1, CarriedIsIssued, IdleRests DEF TransferInv, InFlight
<1>3. place \in Path /\ place \in Uses(t)
  BY <1>1, <1>2, UsesOf DEF TransferInv, Resting, Uses
<1>4. /\ host' \in [Path -> File \cup {None}]
      /\ \A p \in Path : host'[p] # host[p] => p = place /\ host'[p] = None
  BY <1>1, <1>3 DEF TransferInv, TypeOK
<1>5. TypeOK' /\ HostTypeOK' /\ BytesInPlace'
  BY <1>1, <1>4 DEF TransferInv, TypeOK, HostTypeOK, BytesInPlace, Retained
<1>6. Stands(t)' /\ Uses(t)' = Uses(t)
  BY <1>1, <1>2 DEF Stands, Resting, Uses
<1> QED
  BY <1>1, <1>2, <1>3, <1>4, <1>5, <1>6, OwnStepKeeps

\* discard_upload takes what was forgotten, which is nobody's.
LEMMA DiscardStep ==
    ASSUME TransferInv, NEW p \in Path, DiscardUpload(p)
    PROVE  TransferInv'
<1>1. /\ p \in discarding /\ discarding' = discarding \ {p}
      /\ host' = [host EXCEPT ![p] = None]
      /\ UNCHANGED <<running, configured, issued, retained, expiry, attempt, inbox,
                     made, delivered>>
  BY DEF DiscardUpload
<1>2. /\ host' \in [Path -> File \cup {None}]
      /\ \A q \in Path : host'[q] # host[q] => q = p /\ host'[q] = None
  BY <1>1 DEF TransferInv, TypeOK
<1>3. TypeOK' /\ HostTypeOK' /\ Fresh'
  BY <1>1, <1>2 DEF TransferInv, TypeOK, HostTypeOK, Fresh, Retained
<1>4. ASSUME NEW t \in Token PROVE Stands(t)' /\ Uses(t)' = Uses(t)
  <2>1. \A q \in Uses(t) : host'[q] = host[q]
    BY <1>1, <1>2 DEF TransferInv, PathsApart, Uses
  <2> QED
    BY <1>1, <2>1, StillStands DEF TransferInv
<1>5. PathsApart'
  BY <1>1, <1>4, ApartShrinks DEF TransferInv
<1>6. BytesInPlace' /\ DeliveredStaysWhole'
  <2>1. delivered \in SUBSET Path /\ \A q \in delivered : host'[q] = host[q]
    BY <1>1, <1>2 DEF TransferInv, TypeOK, PathsApart
  <2> QED
    BY <1>1, <1>2, <2>1, HostShrinks DEF TransferInv
<1> QED
  BY <1>3, <1>4, <1>5, <1>6 DEF TransferInv

\* discard_retained, at the end, takes only what is still retained.
LEMMA ShutdownStep ==
    ASSUME TransferInv, Shutdown
    PROVE  TransferInv'
<1> DEFINE paths == IF configured THEN {retained[t].path : t \in {u \in Token : retained[u] # None}}
                    ELSE {}
<1>1. /\ running' = FALSE
      /\ host' = [p \in Path |-> IF p \in paths THEN None ELSE host[p]]
      /\ retained' = [t \in Token |-> None] /\ expiry' = {}
      /\ attempt' = [t \in Token |-> None] /\ inbox' = [t \in Token |-> <<>>]
      /\ discarding' = {}
      /\ UNCHANGED <<configured, issued, made, delivered>>
  BY DEF Shutdown
<1>2. ASSUME NEW p \in paths, p \in Path PROVE \E t \in Token : p \in Uses(t)
  <2>1. PICK t \in Token : retained[t] # None /\ retained[t].path = p
    BY <1>2
  <2> QED
    BY <1>2, <2>1 DEF Uses
<1> HIDE DEF paths
<1>3. /\ host' \in [Path -> File \cup {None}]
      /\ \A p \in Path : host'[p] = host[p] \/ host'[p] = None
  BY <1>1 DEF TransferInv, TypeOK
<1>4. TypeOK' /\ HostTypeOK' /\ Fresh'
  BY <1>1, <1>3 DEF TransferInv, TypeOK, HostTypeOK, Fresh
<1>5. \A t \in Token : Stands(t)' /\ Uses(t)' = {}
  BY <1>1 DEF Stands, Resting, Uses
<1>6. PathsApart'
  BY <1>1, <1>5, ApartShrinks DEF TransferInv
<1>7. BytesInPlace' /\ DeliveredStaysWhole'
  <2>1. delivered \in SUBSET Path
    BY DEF TransferInv, TypeOK
  <2>2. \A p \in delivered : host'[p] = host[p]
    BY <1>1, <1>2, <2>1 DEF TransferInv, PathsApart
  <2> QED
    BY <1>1, <1>3, <2>1, <2>2, HostShrinks DEF TransferInv
<1> QED
  BY <1>4, <1>5, <1>6, <1>7 DEF TransferInv

\* Nothing that is kept of a transfer depends on the configuration or the clock.
LEMMA UnchangedStep ==
    ASSUME TransferInv, running' \in BOOLEAN, configured' \in BOOLEAN,
           UNCHANGED <<issued, retained, expiry, attempt, inbox, host, made,
                       discarding, delivered>>
    PROVE  TransferInv'
<1>1. TypeOK' /\ HostTypeOK' /\ Fresh' /\ BytesInPlace' /\ DeliveredStaysWhole'
  BY DEF TransferInv, TypeOK, HostTypeOK, Fresh, BytesInPlace, DeliveredStaysWhole, Retained
<1>2. \A t \in Token : Stands(t)' /\ Uses(t)' = Uses(t)
  BY StillStands DEF TransferInv
<1>3. PathsApart'
  BY <1>2, ApartShrinks DEF TransferInv
<1> QED
  BY <1>1, <1>2, <1>3 DEF TransferInv

-----------------------------------------------------------------------------
(* The theorem *)

LEMMA TransferInit ==
    ASSUME Init
    PROVE  TransferInv
<1>1. TypeOK /\ HostTypeOK /\ Fresh
  BY TransferConstants DEF Init, TypeOK, HostTypeOK, Fresh
<1>2. \A t \in Token : Stands(t) /\ Uses(t) = {}
  BY DEF Init, Stands, Resting, Uses
<1>3. PathsApart /\ BytesInPlace /\ DeliveredStaysWhole
  BY <1>2 DEF Init, PathsApart, BytesInPlace, DeliveredStaysWhole
<1> QED
  BY <1>1, <1>2, <1>3 DEF TransferInv

LEMMA TransferStep ==
    ASSUME TransferInv, [Next]_vars
    PROVE  TransferInv'
<1>1. CASE UNCHANGED vars
  BY <1>1, UnchangedStep DEF vars, TransferInv, TypeOK
<1>2. ASSUME NEW lapsed \in Lapsed,
             \/ RefreshDue(lapsed)
             \/ \E t \in Token : \E version \in Versions[t] :
                   BeginUpload(t, version, lapsed) \/ ResumeUpload(t, version, lapsed)
      PROVE  TransferInv'
  BY <1>2, RefreshStep, BeginStep, ResumeStep
<1>3. ASSUME NEW t \in Token,
             \/ ResumeOffset(t) \/ RelayFinished(t)
             \/ \E decision \in Decision : SenderDecides(t, decision)
             \/ AskHost(t) \/ Stage(t) \/ CarryByte(t) \/ RelayEnds(t) \/ RelayFails(t)
             \/ HostForgets(t)
      PROVE  TransferInv'
  BY <1>3, ResumeOffsetStep, RelayFinishedStep, SenderStep, AskHostStep, StageStep,
     CarryByteStep, RelayEndsStep, RelayFailsStep, HostForgetsStep
<1>4. ASSUME NEW p \in Path, DiscardUpload(p) PROVE TransferInv'
  BY <1>4, DiscardStep
<1>5. CASE Reconfigured
  BY <1>5, UnchangedStep DEF Reconfigured, TransferInv, TypeOK
<1>6. CASE Shutdown
  BY <1>6, ShutdownStep
<1> QED
  BY <1>1, <1>2, <1>3, <1>4, <1>5, <1>6 DEF Next

\* What a task, its outcome and the retained record say of one transfer.
LEMMA StandsSingle ==
    ASSUME NEW t \in Token, Stands(t)
    PROVE  /\ InFlight(t) <=> (attempt[t] # None
                               \/ \E i \in DOMAIN inbox[t] : inbox[t][i].type # "offset")
           /\ attempt[t] # None => \A i \in DOMAIN inbox[t] : inbox[t][i].type = "offset"
<1>1. CASE Resting(t)
  BY <1>1 DEF Resting, InFlight
<1>2. CASE Asking(t)
  BY <1>2 DEF Asking
<1>3. CASE Carrying(t)
  <2>1. inbox[t] = <<>> \/ \E n \in 0..Length : inbox[t] = <<AtOffset(n)>>
    BY <1>3 DEF Carrying
  <2>2. CASE inbox[t] = <<>>
    BY <1>3, <2>2 DEF Carrying
  <2>3. ASSUME NEW n \in 0..Length, inbox[t] = <<AtOffset(n)>>
        PROVE  \A i \in DOMAIN inbox[t] : inbox[t][i].type = "offset"
    BY <2>3 DEF AtOffset
  <2> QED
    BY <1>3, <2>1, <2>2, <2>3 DEF Carrying
<1>4. CASE Ended(t)
  <2>1. PICK out \in Outcome : \/ inbox[t] = <<out>>
                              \/ \E n \in 0..Length : inbox[t] = <<AtOffset(n), out>>
    BY <1>4 DEF Ended
  <2>2. \E i \in DOMAIN inbox[t] : inbox[t][i].type # "offset"
    <3>1. CASE inbox[t] = <<out>>
      BY <3>1, Messages
    <3>2. ASSUME NEW n \in 0..Length, inbox[t] = <<AtOffset(n), out>>
          PROVE  \E i \in DOMAIN inbox[t] : inbox[t][i].type # "offset"
      BY <3>2, Messages
    <3> QED
      BY <2>1, <3>1, <3>2
  <2> QED
    BY <1>4, <2>2 DEF Ended
<1> QED
  BY <1>1, <1>2, <1>3, <1>4 DEF Stands

LEMMA InvSingleCarrier ==
    ASSUME TransferInv
    PROVE  SingleCarrier
<1>1. ASSUME NEW t \in Token, NEW u \in Token, t # u, attempt[t] # None, attempt[t].path # None
      PROVE  /\ attempt[u] # None => attempt[t].path # attempt[u].path
             /\ retained[u] # None => attempt[t].path # retained[u].path
  <2>1. attempt[t].path \in Uses(t) /\ attempt[t].path \notin Uses(u)
    BY <1>1, UsesOf DEF TransferInv, PathsApart
  <2> QED
    BY <1>1, <2>1, UsesOf DEF TransferInv
<1> QED
  BY <1>1, StandsSingle DEF TransferInv, SingleCarrier

\* Whatever is interrupted, resumed, swept, evicted, lost or reconfigured
\* meanwhile: a transfer has one carrier, no two share a path, every byte on a
\* host lies at its own offset, and a path reported complete holds one version
\* of the file and keeps it (begin_relay, resume_relay, relay, relay_finished,
\* sweep_retained, discard_upload).
THEOREM TransfersCarryWhole == Spec => []CarriedWhole
<1>1. Init => TransferInv
  BY TransferInit
<1>2. TransferInv /\ [Next]_vars => TransferInv'
  BY TransferStep
<1>3. TransferInv => CarriedWhole
  BY InvSingleCarrier DEF TransferInv, CarriedWhole
<1> QED
  BY <1>1, <1>2, <1>3, PTL DEF Spec

-----------------------------------------------------------------------------
(* HostStaging: the inductive invariant *)

Scripts == [phase : {"none", "read", "copy", "append", "digest", "exit"}, at : Nat, size : Nat]
Pipes == [bytes : Seq(Nat), closed : BOOLEAN, lost : BOOLEAN]
PipeOf(bytes, c, l) == [bytes |-> bytes, closed |-> c, lost |-> l]

StagingTypeOK ==
    /\ kind \in {"media", "stream", "local"}
    /\ dir \in BOOLEAN /\ file \in Seq(Nat)
    /\ script \in [Attempts -> Scripts] /\ pipe \in [Attempts -> Pipes]
    /\ tried \in 0..MaxAttempts /\ phase \in {"idle", "copying", "receipt", "ended"}
    /\ handed \in Nat
    /\ failure \in BOOLEAN /\ receipt \in Receipts \cup {Absent}
    /\ outcome \in Outcomes \cup {Absent}
    /\ known \in BOOLEAN /\ cut \in BOOLEAN

\* The staged file is a beginning of the payload.
FileInOrder == Len(file) <= PayloadLength /\ \A i \in 1..Len(file) : file[i] = i

\* Before the first attempt there is nothing.
NothingYet ==
    /\ phase = "idle" <=> tried = 0
    /\ tried = 0 => ~dir /\ file = <<>> /\ receipt = Absent /\ outcome = Absent

\* Only the attempt that runs has a script at work.
OthersOver ==
    \A a \in Attempts : /\ a < tried => script[a].phase = "exit"
                        /\ a > tried => script[a].phase = "none"

\* What a pipe holds goes on from where the file ends.
GoesOn(bytes) ==
    /\ Len(file) + Len(bytes) <= PayloadLength
    /\ \A k \in 1..Len(bytes) : bytes[k] = Len(file) + k

\* The script s of the attempt that runs, with the pipe p on its input.
ScriptFits(s, p) ==
    /\ s.phase # "none"
    /\ s.phase \in {"read", "copy", "append"} => GoesOn(p.bytes)
    /\ s.phase = "read" /\ tried = 1 => file = <<>>
    /\ s.phase = "copy" => s.at = Len(file)
    /\ s.phase \in {"copy", "append", "digest"} => dir
    /\ s.phase = "digest" => s.size = Len(file) /\ p.bytes = <<>> /\ p.closed
    /\ s.phase \in {"read", "copy", "append", "digest"} /\ kind = "media" /\ p.closed /\ ~p.lost
         => Len(file) + Len(p.bytes) = PayloadLength

\* The attempt at this end of the pipe p, with the script s at the other.
AttemptFits(s, p) ==
    /\ phase = "copying" /\ ~p.lost =>
          /\ s.phase \in {"read", "copy", "append"} /\ ~p.closed
          /\ handed = Len(file) + Len(p.bytes)
    /\ p.lost => cut
    /\ phase = "ended" /\ ~cut => s.phase = "exit"
    /\ tried > 1 /\ phase # "ended" => dir
    /\ phase = "receipt" /\ ~cut /\ s.phase = "exit" => receipt # Absent
    /\ receipt # Absent =>
          /\ receipt.bytes = Len(file) /\ receipt.digest = file
          /\ s.phase = "exit" /\ phase \in {"receipt", "ended"}
          /\ kind = "media" => Len(file) = PayloadLength
          /\ phase = "receipt" => dir

\* What an attempt came to is what its receipt says.
OutcomeFits ==
    /\ outcome # "refused"
    /\ outcome \in {"complete", "interrupted"} => receipt # Absent /\ dir /\ known
    /\ tried > 1 => known
    /\ outcome = "complete" => Len(file) = PayloadLength
    /\ phase = "ended" /\ ~cut /\ dir => known /\ outcome \in {"complete", "interrupted"}

Untouched ==
    /\ StagingTypeOK /\ FileInOrder /\ NothingYet /\ OthersOver /\ OutcomeFits
    /\ tried > 0 => /\ ScriptFits(script[tried], pipe[tried])
                    /\ AttemptFits(script[tried], pipe[tried])

\* Once something else has written to the file nothing is claimed of it.
StagingInv == altered \in BOOLEAN /\ (~altered => Untouched)

-----------------------------------------------------------------------------
(* HostStaging: every step keeps it *)

\* The attempt that runs, with its script and its pipe.
LEMMA OneRuns ==
    ASSUME Untouched, tried > 0
    PROVE  /\ tried \in Attempts
           /\ \E s \in Scripts, p \in Pipes :
                 s = script[tried] /\ p = pipe[tried] /\ ScriptFits(s, p) /\ AttemptFits(s, p)
<1>1. tried \in Attempts
  BY StagingAssumption DEF Untouched, StagingTypeOK, Attempts
<1> QED
  BY <1>1 DEF Untouched, StagingTypeOK

\* A script at work is that of the attempt that runs.
LEMMA OneAtWork ==
    ASSUME Untouched, NEW a \in Attempts, script[a].phase \notin {"none", "exit"}
    PROVE  a = tried /\ tried > 0
<1>1. a \in Nat /\ a > 0 /\ tried \in Nat
  BY StagingAssumption DEF Untouched, StagingTypeOK, Attempts
<1> QED
  BY <1>1 DEF Untouched, OthersOver

\* A script or a pipe that changes leaves the others as they are.
LEMMA ScriptSet ==
    ASSUME NEW f \in [Attempts -> Scripts], NEW a \in Attempts, NEW t \in Scripts,
           NEW g, g = [f EXCEPT ![a] = t]
    PROVE  /\ g \in [Attempts -> Scripts] /\ g[a] = t
           /\ \A b \in Attempts : b # a => g[b] = f[b]
OBVIOUS
LEMMA PipeSet ==
    ASSUME NEW f \in [Attempts -> Pipes], NEW a \in Attempts, NEW q \in Pipes,
           NEW g, g = [f EXCEPT ![a] = q]
    PROVE  g \in [Attempts -> Pipes] /\ g[a] = q
OBVIOUS
LEMMA PipeMade ==
    ASSUME NEW bytes \in Seq(Nat), NEW c \in BOOLEAN, NEW l \in BOOLEAN
    PROVE  /\ PipeOf(bytes, c, l) \in Pipes
           /\ PipeOf(bytes, c, l).bytes = bytes
           /\ PipeOf(bytes, c, l).closed = c /\ PipeOf(bytes, c, l).lost = l
<1>1. [bytes |-> bytes, closed |-> c, lost |-> l] \in Pipes
  BY DEF Pipes
<1> QED
  BY <1>1 DEF PipeOf
\* A pipe with a field changed.
LEMMA PipeFields ==
    ASSUME NEW p \in Pipes, NEW more, NEW c \in BOOLEAN
    PROVE  /\ [p EXCEPT !.bytes = more] = PipeOf(more, p.closed, p.lost)
           /\ [p EXCEPT !.closed = c] = PipeOf(p.bytes, c, p.lost)
<1>1. [p EXCEPT !.bytes = more] = [bytes |-> more, closed |-> p.closed, lost |-> p.lost]
  BY DEF Pipes
<1>2. [p EXCEPT !.closed = c] = [bytes |-> p.bytes, closed |-> c, lost |-> p.lost]
  BY DEF Pipes
<1> QED
  BY <1>1, <1>2 DEF PipeOf

\* The byte after the last.
LEMMA NextByte ==
    ASSUME NEW f \in Nat, NEW m \in Nat, NEW bytes, NEW more,
           \A k \in 1..m : bytes[k] = f + k, \A k \in 1..m : more[k] = bytes[k],
           more[m + 1] = f + m + 1
    PROVE  \A k \in 1..(m + 1) : more[k] = f + k
<1> SUFFICES ASSUME NEW k \in 1..(m + 1) PROVE more[k] = f + k
  OBVIOUS
<1>1. CASE k \in 1..m
  BY <1>1
<1>2. CASE k = m + 1
  BY <1>2
<1> QED
  BY <1>1, <1>2

\* What a step must show when it goes on with the attempt that runs.
LEMMA RunsOn ==
    ASSUME Untouched, tried > 0, tried' = tried,
           StagingTypeOK', FileInOrder', OutcomeFits', phase' # "idle",
           \A a \in Attempts : a # tried => script'[a] = script[a],
           NEW s, NEW p, s = script'[tried], p = pipe'[tried],
           ScriptFits(s, p)', AttemptFits(s, p)'
    PROVE  Untouched'
<1>1. NothingYet'
  BY DEF NothingYet, Untouched, StagingTypeOK
<1>2. OthersOver'
  BY OneRuns DEF OthersOver, Untouched, StagingTypeOK, Attempts
<1> QED
  BY <1>1, <1>2 DEF Untouched

LEMMA StagingStarts ==
    ASSUME StagingInit
    PROVE  StagingInv
<1>1. StagingTypeOK
  <2>1. Idle \in Scripts
    BY DEF Idle, Scripts
  <2>2. <<>> \in Seq(Nat) /\ [bytes |-> <<>>, closed |-> FALSE, lost |-> FALSE] \in Pipes
    BY DEF Pipes
  <2>3. script \in [Attempts -> Scripts] /\ pipe \in [Attempts -> Pipes] /\ file \in Seq(Nat)
    BY <2>1, <2>2, Zenon DEF StagingInit
  <2>4. tried \in 0..MaxAttempts /\ handed \in Nat
    BY StagingAssumption DEF StagingInit
  <2> QED
    BY <2>3, <2>4, Zenon DEF StagingInit, StagingTypeOK
<1>2. FileInOrder /\ NothingYet /\ OthersOver /\ OutcomeFits
  BY StagingAssumption DEF StagingInit, FileInOrder, NothingYet, OthersOver, OutcomeFits, Idle, Attempts, Outcomes
<1>3. ~(tried > 0)
  BY DEF StagingInit
<1>4. altered \in BOOLEAN
  BY Zenon DEF StagingInit
<1> QED
  BY <1>1, <1>2, <1>3, <1>4 DEF StagingInv, Untouched

-----------------------------------------------------------------------------
(* The scripts on the host *)

LEMMA StagesStep ==
    ASSUME Untouched, NEW a \in Attempts, ScriptStages(a)
    PROVE  Untouched'
<1>1. a = tried /\ tried > 0
  BY OneAtWork DEF ScriptStages
<1>2. PICK s \in Scripts, p \in Pipes :
         s = script[tried] /\ p = pipe[tried] /\ ScriptFits(s, p) /\ AttemptFits(s, p)
  BY <1>1, OneRuns
<1>3. /\ s.phase = "read"
      /\ UNCHANGED <<kind, pipe, tried, phase, handed, failure, receipt, outcome, known, cut>>
  BY <1>1, <1>2 DEF ScriptStages, attemptState
<1>4. PICK t \in Scripts :
         /\ t = IF tried = 1 THEN [phase |-> "copy", at |-> 0, size |-> 0]
                ELSE [s EXCEPT !.phase = IF dir THEN "append" ELSE "exit"]
         /\ script' = [script EXCEPT ![tried] = t]
  <2>1. [phase |-> "copy", at |-> 0, size |-> 0] \in Scripts
        /\ [s EXCEPT !.phase = IF dir THEN "append" ELSE "exit"] \in Scripts
    BY DEF Scripts
  <2> QED
    BY <1>1, <1>2, <2>1 DEF ScriptStages
<1>10. /\ script' \in [Attempts -> Scripts] /\ script'[tried] = t
       /\ \A b \in Attempts : b # tried => script'[b] = script[b]
  BY <1>1, <1>4, ScriptSet DEF Untouched, StagingTypeOK
<1>5. receipt = Absent
  BY <1>2, <1>3 DEF AttemptFits
<1>6. CASE tried = 1
  <2>1. /\ dir' = TRUE /\ file' = <<>> /\ file = <<>> /\ t.phase = "copy" /\ t.at = 0
    BY <1>1, <1>2, <1>3, <1>4, <1>6 DEF ScriptStages, ScriptFits
  <2>2. StagingTypeOK' /\ FileInOrder' /\ OutcomeFits' /\ phase' # "idle"
    <3>1. file' \in Seq(Nat) /\ dir' \in BOOLEAN /\ Len(file') = 0
      BY <2>1
    <3>2. StagingTypeOK'
      BY <1>3, <1>10, <3>1 DEF Untouched, StagingTypeOK
    <3>3. FileInOrder' /\ phase' # "idle"
      BY <1>1, <1>3, <3>1, StagingAssumption DEF Untouched, FileInOrder, NothingYet
    <3>4. phase = "ended" => cut
      BY <1>2, <1>3 DEF AttemptFits
    <3> QED
      BY <1>3, <1>5, <2>1, <3>2, <3>3, <3>4 DEF Untouched, OutcomeFits
  <2>3. ScriptFits(t, p)' /\ AttemptFits(t, p)'
    BY <1>2, <1>3, <1>5, <2>1 DEF ScriptFits, AttemptFits, GoesOn
  <2> QED
    BY <1>1, <1>2, <1>3, <1>10, <2>2, <2>3, RunsOn
<1>7. CASE tried # 1
  <2>1. UNCHANGED <<dir, file>> /\ t.phase = IF dir THEN "append" ELSE "exit"
    BY <1>1, <1>2, <1>3, <1>4, <1>7 DEF ScriptStages, Scripts
  <2>2. StagingTypeOK' /\ FileInOrder' /\ OutcomeFits' /\ phase' # "idle"
    BY <1>1, <1>2, <1>3, <1>5, <1>10, <2>1 DEF Untouched, StagingTypeOK, FileInOrder, OutcomeFits, NothingYet
  <2>3. ScriptFits(t, p)' /\ AttemptFits(t, p)'
    BY <1>1, <1>2, <1>3, <1>5, <1>7, <2>1 DEF ScriptFits, AttemptFits, GoesOn, Untouched, StagingTypeOK
  <2> QED
    BY <1>1, <1>2, <1>3, <1>10, <2>2, <2>3, RunsOn
<1> QED
  BY <1>6, <1>7

\* The first byte of the pipe is the one after the file's last.
LEMMA Moves ==
    ASSUME NEW n \in Nat, NEW f \in Seq(Nat), NEW bytes \in Seq(Nat), bytes # <<>>,
           Len(f) + Len(bytes) <= n,
           \A i \in 1..Len(f) : f[i] = i,
           \A k \in 1..Len(bytes) : bytes[k] = Len(f) + k,
           NEW g, g = Append(f, Head(bytes)), NEW rest, rest = Tail(bytes)
    PROVE  /\ g \in Seq(Nat) /\ rest \in Seq(Nat)
           /\ Len(g) = Len(f) + 1 /\ Len(g) <= n
           /\ Len(g) + Len(rest) = Len(f) + Len(bytes)
           /\ \A i \in 1..Len(g) : g[i] = i
           /\ \A k \in 1..Len(rest) : rest[k] = Len(g) + k
<1>1. Len(bytes) \in Nat /\ Len(bytes) > 0 /\ Len(f) \in Nat /\ Head(bytes) = Len(f) + 1
  BY EmptySeq
<1>2. /\ Tail(bytes) \in Seq(Nat) /\ Len(Tail(bytes)) = Len(bytes) - 1
      /\ \A k \in 1..Len(Tail(bytes)) : Tail(bytes)[k] = bytes[k + 1]
  BY HeadTailProperties
<1>3. /\ Append(f, Head(bytes)) \in Seq(Nat) /\ Len(Append(f, Head(bytes))) = Len(f) + 1
      /\ \A i \in 1..Len(f) : Append(f, Head(bytes))[i] = f[i]
      /\ Append(f, Head(bytes))[Len(f) + 1] = Head(bytes)
  BY <1>1
<1> QED
  BY <1>1, <1>2, <1>3

LEMMA CopiesStep ==
    ASSUME Untouched, NEW a \in Attempts, ScriptCopies(a)
    PROVE  Untouched'
<1>1. a = tried /\ tried > 0
  BY OneAtWork DEF ScriptCopies
<1>2. PICK s \in Scripts, p \in Pipes :
         s = script[tried] /\ p = pipe[tried] /\ ScriptFits(s, p) /\ AttemptFits(s, p)
  BY <1>1, OneRuns
<1>3. s.phase \in {"copy", "append"} /\ p.bytes # <<>> /\ dir /\ GoesOn(p.bytes) /\ p.bytes \in Seq(Nat)
  BY <1>1, <1>2 DEF ScriptCopies, ScriptFits, Pipes
<1>4. file \in Seq(Nat) /\ Len(file) \in Nat
  BY DEF Untouched, StagingTypeOK
<1>5. file' = Append(file, Head(p.bytes))
  BY <1>1, <1>2, <1>3, <1>4 DEF ScriptCopies, ScriptFits, Put
<1>6. PICK rest \in Seq(Nat) : rest = Tail(p.bytes)
  BY <1>3, HeadTailProperties
<1>7. /\ file' \in Seq(Nat) /\ Len(file') = Len(file) + 1 /\ Len(file') <= PayloadLength
      /\ Len(file') + Len(rest) = Len(file) + Len(p.bytes)
      /\ \A i \in 1..Len(file') : file'[i] = i
      /\ \A k \in 1..Len(rest) : rest[k] = Len(file') + k
  <2>1. PICK bytes \in Seq(Nat) : bytes = p.bytes
    BY <1>3
  <2>2. /\ bytes # <<>> /\ Len(file) + Len(bytes) <= PayloadLength
        /\ \A i \in 1..Len(file) : file[i] = i
        /\ \A k \in 1..Len(bytes) : bytes[k] = Len(file) + k
    BY <1>3, <2>1 DEF GoesOn, Untouched, FileInOrder
  <2>3. PayloadLength \in Nat
    BY StagingAssumption
  <2>4. file' = Append(file, Head(bytes)) /\ rest = Tail(bytes)
    BY <1>5, <1>6, <2>1
  <2>5. /\ file' \in Seq(Nat) /\ Len(file') = Len(file) + 1 /\ Len(file') <= PayloadLength
        /\ Len(file') + Len(rest) = Len(file) + Len(bytes)
        /\ \A i \in 1..Len(file') : file'[i] = i
        /\ \A k \in 1..Len(rest) : rest[k] = Len(file') + k
    <3>1. file \in Seq(Nat)
      BY <1>4
    <3> QED
      BY <2>2, <2>3, <2>4, <3>1, Moves
  <2> QED
    BY <2>1, <2>5
<1>15. /\ script \in [Attempts -> Scripts] /\ pipe \in [Attempts -> Pipes] /\ tried \in Attempts
  BY <1>1, OneRuns DEF Untouched, StagingTypeOK
<1>8. /\ UNCHANGED <<kind, dir, tried, phase, handed, failure, receipt, outcome, known, cut>>
      /\ script' \in [Attempts -> Scripts] /\ pipe' \in [Attempts -> Pipes]
      /\ \A b \in Attempts : b # tried => script'[b] = script[b]
      /\ \E t \in Scripts : t = script'[tried] /\ t.phase = s.phase /\ t.at = s.at + 1
      /\ \E q \in Pipes : q = pipe'[tried] /\ q.bytes = rest /\ q.closed = p.closed /\ q.lost = p.lost
  <2>1. UNCHANGED <<kind, dir, tried, phase, handed, failure, receipt, outcome, known, cut>>
    BY DEF ScriptCopies, attemptState
  <2>2. PICK t \in Scripts : t = [s EXCEPT !.at = s.at + 1]
    <3>1. PICK more \in Nat : more = s.at + 1
      BY DEF Scripts
    <3>2. [s EXCEPT !.at = more] \in Scripts
      BY DEF Scripts
    <3> QED
      BY <3>1, <3>2
  <2>3. t.phase = s.phase /\ t.at = s.at + 1
    BY <2>2 DEF Scripts
  <2>4. script' = [script EXCEPT ![tried] = t]
    BY <1>1, <1>2, <2>2 DEF ScriptCopies
  <2>5. p.closed \in BOOLEAN /\ p.lost \in BOOLEAN
        /\ [p EXCEPT !.bytes = rest] = [bytes |-> rest, closed |-> p.closed, lost |-> p.lost]
    BY DEF Pipes
  <2>6. pipe' = [pipe EXCEPT ![tried] = [bytes |-> rest, closed |-> p.closed, lost |-> p.lost]]
    BY <1>1, <1>2, <1>6, <2>5 DEF ScriptCopies
  <2>7. /\ script' \in [Attempts -> Scripts] /\ script'[tried] = t
        /\ \A b \in Attempts : b # tried => script'[b] = script[b]
    BY <1>15, <2>4, ScriptSet
  <2>8. /\ pipe' \in [Attempts -> Pipes]
        /\ \E q \in Pipes : q = pipe'[tried] /\ q.bytes = rest /\ q.closed = p.closed /\ q.lost = p.lost
    <3>1. PICK q \in Pipes : /\ q = PipeOf(rest, p.closed, p.lost)
                             /\ q.bytes = rest /\ q.closed = p.closed /\ q.lost = p.lost
      BY <2>5, PipeMade
    <3> QED
      BY <1>15, <2>6, <3>1, PipeSet DEF PipeOf
  <2> QED
    BY <2>1, <2>3, <2>7, <2>8
<1>9. PICK t \in Scripts, q \in Pipes : /\ t = script'[tried] /\ q = pipe'[tried]
         /\ t.phase = s.phase /\ t.at = s.at + 1
         /\ q.bytes = rest /\ q.closed = p.closed /\ q.lost = p.lost
  BY <1>8
<1>10. receipt = Absent
  BY <1>2, <1>3 DEF AttemptFits
<1>11. StagingTypeOK' /\ FileInOrder' /\ OutcomeFits' /\ phase' # "idle"
  BY <1>1, <1>7, <1>8, <1>10 DEF Untouched, StagingTypeOK, FileInOrder, OutcomeFits, NothingYet
<1>12. Len(rest) \in Nat /\ Len(p.bytes) \in Nat /\ Len(file') \in Nat
  BY <1>3, <1>6, <1>7
<1>13. ScriptFits(t, q)'
  BY <1>2, <1>3, <1>4, <1>7, <1>8, <1>9, <1>12 DEF ScriptFits, GoesOn, Untouched, StagingTypeOK
<1>14. AttemptFits(t, q)'
  BY <1>2, <1>3, <1>4, <1>7, <1>8, <1>9, <1>10, <1>12 DEF AttemptFits
<1> QED
  BY <1>1, <1>8, <1>9, <1>11, <1>13, <1>14, RunsOn

LEMMA MeasuresStep ==
    ASSUME Untouched, NEW a \in Attempts, ScriptMeasures(a)
    PROVE  Untouched'
<1>1. a = tried /\ tried > 0
  BY OneAtWork DEF ScriptMeasures
<1>2. PICK s \in Scripts, p \in Pipes :
         s = script[tried] /\ p = pipe[tried] /\ ScriptFits(s, p) /\ AttemptFits(s, p)
  BY <1>1, OneRuns
<1>3. s.phase \in {"copy", "append"} /\ p.bytes = <<>> /\ p.closed /\ dir
  BY <1>1, <1>2 DEF ScriptMeasures, ScriptFits
<1>4. file \in Seq(Nat) /\ Len(file) \in Nat
  BY DEF Untouched, StagingTypeOK
<1>5. /\ UNCHANGED <<kind, dir, file, pipe, tried, phase, handed, failure, receipt, outcome, known, cut>>
      /\ \A b \in Attempts : b # tried => script'[b] = script[b]
      /\ script'[tried] = [s EXCEPT !.phase = "digest", !.size = Len(file)]
      /\ script' \in [Attempts -> Scripts]
  BY <1>1, <1>2, <1>3, <1>4 DEF ScriptMeasures, attemptState, Untouched, StagingTypeOK, Scripts
<1>6. PICK t \in Scripts : t = script'[tried] /\ t.phase = "digest" /\ t.size = Len(file)
  BY <1>1, <1>5 DEF Scripts
<1>7. StagingTypeOK' /\ FileInOrder' /\ OutcomeFits' /\ phase' # "idle"
  BY <1>1, <1>5 DEF Untouched, StagingTypeOK, FileInOrder, OutcomeFits, NothingYet
<1>8. ScriptFits(t, p)' /\ AttemptFits(t, p)'
  BY <1>2, <1>3, <1>4, <1>5, <1>6 DEF ScriptFits, AttemptFits
<1> QED
  BY <1>1, <1>2, <1>5, <1>6, <1>7, <1>8, RunsOn

LEMMA ReportsStep ==
    ASSUME Untouched, NEW a \in Attempts, ScriptReports(a)
    PROVE  Untouched'
<1>1. a = tried /\ tried > 0
  BY OneAtWork DEF ScriptReports
<1>2. PICK s \in Scripts, p \in Pipes :
         s = script[tried] /\ p = pipe[tried] /\ ScriptFits(s, p) /\ AttemptFits(s, p)
  BY <1>1, OneRuns
<1>3. s.phase = "digest" /\ p.bytes = <<>> /\ p.closed /\ dir /\ s.size = Len(file) /\ receipt = Absent
  BY <1>1, <1>2 DEF ScriptReports, ScriptFits, AttemptFits
<1>4. file \in Seq(Nat) /\ Len(file) \in Nat
  BY DEF Untouched, StagingTypeOK
<1>5. /\ UNCHANGED <<kind, dir, file, pipe, tried, phase, handed, failure, outcome, known, cut>>
      /\ \A b \in Attempts : b # tried => script'[b] = script[b]
      /\ script'[tried] = [s EXCEPT !.phase = "exit"]
      /\ script' \in [Attempts -> Scripts]
      /\ receipt' = IF phase = "receipt" /\ ~p.lost
                    THEN [bytes |-> Len(file), digest |-> file] ELSE Absent
  BY <1>1, <1>2, <1>3 DEF ScriptReports, Untouched, StagingTypeOK, Scripts
<1>6. PICK t \in Scripts : t = script'[tried] /\ t.phase = "exit"
  BY <1>1, <1>5 DEF Scripts
<1>7. receipt' \in Receipts \cup {Absent}
  BY <1>4, <1>5 DEF Receipts
<1>8. StagingTypeOK' /\ FileInOrder' /\ OutcomeFits' /\ phase' # "idle"
  BY <1>1, <1>3, <1>5, <1>7 DEF Untouched, StagingTypeOK, FileInOrder, OutcomeFits, NothingYet
<1>9. receipt' # Absent <=> phase = "receipt" /\ ~p.lost
  <2>1. [bytes |-> Len(file), digest |-> file] # Absent
    BY <1>4, StagingAssumption DEF Receipts
  <2> QED
    BY <1>5, <2>1
<1>10. ScriptFits(t, p)'
  BY <1>6 DEF ScriptFits
<1>11. AttemptFits(t, p)'
  <2>1. kind = "media" /\ ~p.lost => Len(file) = PayloadLength
    BY <1>2, <1>3, <1>4 DEF ScriptFits
  <2>2. phase = "copying" => p.lost
    BY <1>2, <1>3 DEF AttemptFits
  <2> QED
    BY <1>2, <1>3, <1>5, <1>6, <1>9, <2>1, <2>2 DEF AttemptFits
<1> QED
  BY <1>1, <1>2, <1>5, <1>6, <1>8, <1>10, <1>11, RunsOn

\* set -e: the script is gone with what was on its way to it, and the file stays.
LEMMA FailsStep ==
    ASSUME Untouched, NEW a \in Attempts, ScriptFails(a)
    PROVE  Untouched'
<1>1. a = tried /\ tried > 0
  BY OneAtWork DEF ScriptFails
<1>2. PICK s \in Scripts, p \in Pipes :
         s = script[tried] /\ p = pipe[tried] /\ ScriptFits(s, p) /\ AttemptFits(s, p)
  BY <1>1, OneRuns
<1>3. s.phase \in {"read", "copy", "append", "digest"} /\ receipt = Absent
  BY <1>1, <1>2 DEF ScriptFails, AttemptFits
<1>4. /\ UNCHANGED <<kind, dir, file, tried, phase, handed, failure, receipt, outcome, known>> /\ cut' = TRUE
      /\ script \in [Attempts -> Scripts] /\ pipe \in [Attempts -> Pipes] /\ tried \in Attempts
  BY <1>1, OneRuns DEF ScriptFails, attemptState, Untouched, StagingTypeOK
<1>5. PICK t \in Scripts : t = [s EXCEPT !.phase = "exit"] /\ t.phase = "exit"
  <2>1. [s EXCEPT !.phase = "exit"] \in Scripts /\ [s EXCEPT !.phase = "exit"].phase = "exit"
    BY DEF Scripts
  <2> QED
    BY <2>1
<1>6. /\ script' \in [Attempts -> Scripts] /\ script'[tried] = t
      /\ \A b \in Attempts : b # tried => script'[b] = script[b]
  <2>1. script' = [script EXCEPT ![tried] = t]
    BY <1>1, <1>2, <1>4, <1>5 DEF ScriptFails
  <2> QED
    BY <1>4, <2>1, ScriptSet
<1>7. PICK q \in Pipes : /\ pipe' \in [Attempts -> Pipes] /\ q = pipe'[tried]
                         /\ q.bytes = <<>> /\ q.lost = TRUE
  <2>1. <<>> \in Seq(Nat)
    OBVIOUS
  <2>2. PICK yes \in BOOLEAN : yes = TRUE
    OBVIOUS
  <2>3. PICK q \in Pipes : /\ q = PipeOf(<<>>, yes, yes)
                           /\ q.bytes = <<>> /\ q.closed = yes /\ q.lost = yes
    BY <2>1, PipeMade
  <2>4. pipe' = [pipe EXCEPT ![tried] = q]
    BY <1>1, <2>2, <2>3 DEF PipeOf, ScriptFails
  <2> QED
    BY <1>4, <2>2, <2>3, <2>4, PipeSet
<1>8. StagingTypeOK' /\ FileInOrder' /\ phase' # "idle"
  BY <1>1, <1>4, <1>6, <1>7 DEF Untouched, StagingTypeOK, FileInOrder, NothingYet
<1>9. OutcomeFits'
  BY <1>3, <1>4 DEF Untouched, OutcomeFits
<1>10. ScriptFits(t, q)' /\ AttemptFits(t, q)'
  BY <1>2, <1>3, <1>4, <1>5, <1>7 DEF ScriptFits, AttemptFits
<1> QED
  BY <1>1, <1>4, <1>6, <1>7, <1>8, <1>9, <1>10, RunsOn

-----------------------------------------------------------------------------
(* An attempt *)

\* upload_stream: the first attempt, or one that goes on from what the host holds.
LEMMA StartStep ==
    ASSUME Untouched, Start
    PROVE  Untouched'
<1>1. /\ tried \in Nat /\ file \in Seq(Nat) /\ Len(file) \in Nat
      /\ script \in [Attempts -> Scripts] /\ pipe \in [Attempts -> Pipes]
  BY DEF Untouched, StagingTypeOK
<1>2. /\ UNCHANGED <<kind, dir, file, known, cut>> /\ tried' = tried + 1
      /\ phase' = "copying" /\ failure' = FALSE /\ receipt' = Absent /\ outcome' = Absent
  BY DEF Start
<1>3. tried + 1 \in Attempts /\ tried + 1 \in 0..MaxAttempts /\ (tried = 0 => phase = "idle")
      /\ (tried > 0 => phase # "idle")
  BY <1>1, StagingAssumption DEF Start, Attempts, Untouched, NothingYet
<1>4. tried > 0 => outcome = "interrupted" /\ receipt # Absent /\ dir /\ known
  BY <1>3 DEF Start, Untouched, OutcomeFits
<1>5. tried > 0 => script[tried].phase = "exit"
  BY <1>4, OneRuns DEF AttemptFits
<1>6. handed' = Len(file)
  BY <1>1 DEF Start, Offset, Untouched, NothingYet
<1>7. PICK t \in Scripts : t = [script[tried + 1] EXCEPT !.phase = "read"] /\ t.phase = "read"
  <2>1. PICK s \in Scripts : s = script[tried + 1]
    BY <1>1, <1>3
  <2>2. [s EXCEPT !.phase = "read"] \in Scripts /\ [s EXCEPT !.phase = "read"].phase = "read"
    BY DEF Scripts
  <2> QED
    BY <2>1, <2>2
<1>8. /\ script' \in [Attempts -> Scripts] /\ script'[tried'] = t
      /\ \A b \in Attempts : b # tried' => script'[b] = script[b]
  <2>1. script' = [script EXCEPT ![tried + 1] = t]
    BY <1>1, <1>3, <1>7 DEF Start, Opened
  <2> QED
    BY <1>1, <1>2, <1>3, <2>1, ScriptSet
<1>9. PICK q \in Pipes : /\ pipe' \in [Attempts -> Pipes] /\ q = pipe'[tried']
                         /\ q.bytes = <<>> /\ q.closed = FALSE /\ q.lost = FALSE
  <2>1. <<>> \in Seq(Nat)
    OBVIOUS
  <2>2. pipe' = [pipe EXCEPT ![tried + 1] = [bytes |-> <<>>, closed |-> FALSE, lost |-> FALSE]]
    BY DEF Start, Opened
  <2> QED
    <3>1. PICK no \in BOOLEAN : no = FALSE
      OBVIOUS
    <3>2. PICK q \in Pipes : /\ q = PipeOf(<<>>, no, no)
                             /\ q.bytes = <<>> /\ q.closed = no /\ q.lost = no
      BY <2>1, PipeMade
    <3>3. pipe' = [pipe EXCEPT ![tried + 1] = q]
      BY <2>2, <3>1, <3>2 DEF PipeOf
    <3> QED
      BY <1>1, <1>2, <1>3, <3>1, <3>2, <3>3, PipeSet
<1>10. StagingTypeOK'
  <2>1. handed' \in Nat /\ tried' \in 0..MaxAttempts
    BY <1>1, <1>2, <1>3, <1>6
  <2> QED
    BY <1>2, <1>8, <1>9, <2>1 DEF Untouched, StagingTypeOK
<1>11. FileInOrder' /\ OutcomeFits'
  BY <1>1, <1>2, <1>4, StagingAssumption DEF Untouched, FileInOrder, OutcomeFits, Outcomes
<1>12. NothingYet'
  BY <1>1, <1>2 DEF NothingYet
<1>13. OthersOver'
  <2> SUFFICES ASSUME NEW a \in Attempts
               PROVE  /\ a < tried' => script'[a].phase = "exit"
                      /\ a > tried' => script'[a].phase = "none"
    BY DEF OthersOver
  <2>1. a \in Nat /\ a > 0
    BY StagingAssumption DEF Attempts
  <2>2. a < tried => script[a].phase = "exit"
    BY DEF Untouched, OthersOver
  <2>3. a > tried => script[a].phase = "none"
    BY DEF Untouched, OthersOver
  <2> QED
    BY <1>1, <1>2, <1>5, <1>8, <2>1, <2>2, <2>3
<1>14. ScriptFits(t, q)'
  <2>1. GoesOn(q.bytes)'
    BY <1>1, <1>2, <1>9 DEF GoesOn, Untouched, FileInOrder
  <2>2. tried' = 1 => file' = <<>>
    BY <1>1, <1>2 DEF Untouched, NothingYet
  <2> QED
    BY <1>2, <1>7, <1>9, <2>1, <2>2 DEF ScriptFits
<1>15. AttemptFits(t, q)'
  <2>1. handed' = Len(file') + Len(q.bytes)
    BY <1>1, <1>2, <1>6, <1>9
  <2>2. tried' > 1 => dir'
    BY <1>1, <1>2, <1>4
  <2> QED
    BY <1>2, <1>7, <1>9, <2>1, <2>2 DEF AttemptFits
<1> QED
  BY <1>8, <1>9, <1>10, <1>11, <1>12, <1>13, <1>14, <1>15 DEF Untouched

\* What an attempt does at this end changes neither the file nor a script's place.
LEMMA HereOnly ==
    ASSUME Untouched, tried > 0, UNCHANGED <<kind, dir, file, script, tried, outcome, known>>,
           NEW s \in Scripts, NEW p \in Pipes, s = script[tried], p = pipe[tried],
           ScriptFits(s, p), AttemptFits(s, p), phase \in {"copying", "receipt"}, phase' \in {"copying", "receipt"},
           failure' \in BOOLEAN, cut' \in BOOLEAN, handed' \in Nat, receipt' = receipt,
           NEW q \in Pipes, pipe' \in [Attempts -> Pipes], q = pipe'[tried],
           ScriptFits(s, q)', AttemptFits(s, q)'
    PROVE  Untouched'
<1>1. StagingTypeOK'
  BY DEF Untouched, StagingTypeOK
<1>2. FileInOrder' /\ OutcomeFits'
  BY DEF Untouched, FileInOrder, OutcomeFits
<1> QED
  BY <1>1, <1>2, RunsOn

\* Common to the steps of an attempt that moves bytes.
LEMMA Copying ==
    ASSUME Untouched, phase \in {"copying", "receipt"}
    PROVE  /\ tried > 0 /\ tried \in Attempts /\ handed \in Nat
           /\ file \in Seq(Nat) /\ Len(file) \in Nat
           /\ pipe \in [Attempts -> Pipes] /\ script \in [Attempts -> Scripts]
           /\ \E s \in Scripts, p \in Pipes :
                 /\ s = script[tried] /\ p = pipe[tried]
                 /\ p.bytes \in Seq(Nat) /\ p.closed \in BOOLEAN /\ p.lost \in BOOLEAN
                 /\ ScriptFits(s, p) /\ AttemptFits(s, p)
<1>1. tried > 0
  BY DEF Untouched, StagingTypeOK, NothingYet
<1>2. \A p \in Pipes : p.bytes \in Seq(Nat) /\ p.closed \in BOOLEAN /\ p.lost \in BOOLEAN
  BY DEF Pipes
<1> QED
  BY <1>1, <1>2, OneRuns DEF Untouched, StagingTypeOK

LEMMA SendByteStep ==
    ASSUME Untouched, SendByte
    PROVE  Untouched'
<1>1. phase = "copying" /\ handed < PayloadLength /\ handed' = handed + 1
      /\ UNCHANGED <<kind, dir, file, script, tried, receipt, outcome, known, cut>>
  BY DEF SendByte, staged
<1>2. /\ tried > 0 /\ tried \in Attempts /\ handed \in Nat
      /\ file \in Seq(Nat) /\ Len(file) \in Nat
      /\ pipe \in [Attempts -> Pipes]
  BY <1>1, Copying
<1>3. PICK s \in Scripts, p \in Pipes :
         /\ s = script[tried] /\ p = pipe[tried]
         /\ p.bytes \in Seq(Nat) /\ p.closed \in BOOLEAN /\ p.lost \in BOOLEAN
         /\ ScriptFits(s, p) /\ AttemptFits(s, p)
  BY <1>1, Copying
<1>4. handed' \in Nat /\ cut' \in BOOLEAN
  BY <1>1, <1>2 DEF Untouched, StagingTypeOK
<1>5. CASE p.lost
  <2>1. failure' = TRUE /\ phase' = "receipt" /\ pipe' = pipe
    BY <1>3, <1>5 DEF SendByte
  <2>2. ScriptFits(s, p)'
    BY <1>1, <1>3 DEF ScriptFits, GoesOn
  <2>3. AttemptFits(s, p)'
    BY <1>1, <1>3, <1>5, <2>1 DEF AttemptFits
  <2> QED
    BY <1>1, <1>2, <1>3, <1>4, <2>1, <2>2, <2>3, HereOnly
<1>6. CASE ~p.lost
  <2>1. failure' = failure /\ phase' = "copying" /\ pipe' = [pipe EXCEPT ![tried].bytes = Append(@, handed + 1)]
    BY <1>1, <1>3, <1>6 DEF SendByte
  <2>2. s.phase \in {"read", "copy", "append"} /\ ~p.closed /\ handed = Len(file) + Len(p.bytes)
        /\ GoesOn(p.bytes)
    BY <1>1, <1>3, <1>6 DEF AttemptFits, ScriptFits
  <2>3. PICK more : more = Append(p.bytes, handed + 1)
    OBVIOUS
  <2>4. /\ more \in Seq(Nat) /\ Len(file) + Len(more) = handed + 1
        /\ Len(file) + Len(more) <= PayloadLength
        /\ \A k \in 1..Len(more) : more[k] = Len(file) + k
    <3>1. PICK f \in Nat, bytes \in Seq(Nat) : f = Len(file) /\ bytes = p.bytes
      BY <1>2, <1>3
    <3>2. /\ f + Len(bytes) = handed /\ handed < PayloadLength /\ PayloadLength \in Nat
          /\ \A k \in 1..Len(bytes) : bytes[k] = f + k
          /\ more = Append(bytes, handed + 1)
      BY <1>1, <2>2, <2>3, <3>1, StagingAssumption DEF GoesOn
    <3>3. /\ more \in Seq(Nat) /\ Len(more) = Len(bytes) + 1 /\ Len(bytes) \in Nat
          /\ \A k \in 1..Len(bytes) : more[k] = bytes[k]
          /\ more[Len(bytes) + 1] = handed + 1
      BY <1>2, <3>2
    <3>4. PICK m \in Nat : m = Len(bytes)
      BY <3>3
    <3>5. \A k \in 1..(m + 1) : more[k] = f + k
      <4>1. /\ \A k \in 1..m : bytes[k] = f + k
            /\ \A k \in 1..m : more[k] = bytes[k]
            /\ more[m + 1] = f + m + 1
        BY <3>2, <3>3, <3>4
      <4> QED
        BY <4>1, NextByte
    <3>6. Len(more) = m + 1 /\ Len(file) = f
      BY <3>1, <3>3, <3>4
    <3>7. f + (m + 1) = handed + 1 /\ f + (m + 1) <= PayloadLength
      BY <1>2, <3>2, <3>4
    <3> QED
      BY <3>3, <3>5, <3>6, <3>7
  <2>5. PICK q \in Pipes : /\ pipe' \in [Attempts -> Pipes] /\ q = pipe'[tried]
                           /\ q.bytes = more /\ q.closed = p.closed /\ q.lost = p.lost
    <3>1. PICK q \in Pipes : /\ q = PipeOf(more, p.closed, p.lost)
                             /\ q.bytes = more /\ q.closed = p.closed /\ q.lost = p.lost
      BY <1>3, <2>4, PipeMade
    <3>2. q = [p EXCEPT !.bytes = more]
      BY <1>3, <3>1, PipeFields
    <3>3. pipe' = [pipe EXCEPT ![tried] = q]
      BY <1>2, <1>3, <2>1, <2>3, <3>2
    <3> QED
      BY <1>2, <3>1, <3>3, PipeSet
  <2>6. GoesOn(q.bytes)'
    BY <1>1, <2>4, <2>5 DEF GoesOn
  <2>7. ScriptFits(s, q)'
    BY <1>1, <1>3, <2>2, <2>5, <2>6 DEF ScriptFits
  <2>8. AttemptFits(s, q)'
    BY <1>1, <1>3, <1>6, <2>1, <2>2, <2>4, <2>5 DEF AttemptFits
  <2>9. failure' \in BOOLEAN
    BY <2>1 DEF Untouched, StagingTypeOK
  <2> QED
    BY <1>1, <1>2, <1>3, <1>4, <2>1, <2>5, <2>7, <2>8, <2>9, HereOnly
<1> QED
  BY <1>5, <1>6

LEMMA SourceEndsStep ==
    ASSUME Untouched, SourceEnds
    PROVE  Untouched'
<1>1. phase = "copying" /\ phase' = "receipt" /\ (kind = "media" => handed = PayloadLength)
      /\ UNCHANGED <<kind, dir, file, script, tried, handed, receipt, outcome, known, cut>>
  BY DEF SourceEnds, staged
<1>2. /\ tried > 0 /\ tried \in Attempts /\ handed \in Nat
      /\ file \in Seq(Nat) /\ Len(file) \in Nat
      /\ pipe \in [Attempts -> Pipes]
  BY <1>1, Copying
<1>3. PICK s \in Scripts, p \in Pipes :
         /\ s = script[tried] /\ p = pipe[tried]
         /\ p.bytes \in Seq(Nat) /\ p.closed \in BOOLEAN /\ p.lost \in BOOLEAN
         /\ ScriptFits(s, p) /\ AttemptFits(s, p)
  BY <1>1, Copying
<1>4. failure' \in BOOLEAN
  BY Zenon DEF SourceEnds
<1>5. PICK q \in Pipes : /\ pipe' \in [Attempts -> Pipes] /\ q = pipe'[tried]
                         /\ q.bytes = p.bytes /\ q.closed = TRUE /\ q.lost = p.lost
  <2>1. PICK yes \in BOOLEAN : yes = TRUE
    OBVIOUS
  <2>2. PICK q \in Pipes : /\ q = PipeOf(p.bytes, yes, p.lost)
                           /\ q.bytes = p.bytes /\ q.closed = yes /\ q.lost = p.lost
    BY <1>3, PipeMade
  <2>3. q = [p EXCEPT !.closed = yes]
    BY <1>3, <2>2, PipeFields
  <2>4. pipe' = [pipe EXCEPT ![tried] = q]
    BY <1>2, <1>3, <2>1, <2>3 DEF SourceEnds
  <2> QED
    BY <1>2, <2>1, <2>2, <2>4, PipeSet
<1>6. ScriptFits(s, q)'
  <2>1. ~p.lost /\ kind = "media" => Len(file) + Len(p.bytes) = PayloadLength
    BY <1>1, <1>3 DEF AttemptFits
  <2> QED
    BY <1>1, <1>3, <1>5, <2>1 DEF ScriptFits, GoesOn
<1>7. AttemptFits(s, q)'
  BY <1>1, <1>3, <1>5 DEF AttemptFits
<1>8. handed' \in Nat /\ cut' \in BOOLEAN
  BY <1>1, <1>2 DEF Untouched, StagingTypeOK
<1> QED
  BY <1>1, <1>2, <1>3, <1>4, <1>5, <1>6, <1>7, <1>8, HereOnly

LEMMA WriteFailsStep ==
    ASSUME Untouched, WriteFails
    PROVE  Untouched'
<1>1. phase = "copying" /\ phase' = "receipt" /\ kind = "local" /\ failure' = TRUE /\ handed < PayloadLength
      /\ UNCHANGED <<kind, dir, file, script, tried, handed, receipt, outcome, known, cut>>
  BY DEF WriteFails, staged
<1>2. /\ tried > 0 /\ tried \in Attempts /\ handed \in Nat
      /\ file \in Seq(Nat) /\ Len(file) \in Nat
      /\ pipe \in [Attempts -> Pipes]
  BY <1>1, Copying
<1>3. PICK s \in Scripts, p \in Pipes :
         /\ s = script[tried] /\ p = pipe[tried]
         /\ p.bytes \in Seq(Nat) /\ p.closed \in BOOLEAN /\ p.lost \in BOOLEAN
         /\ ScriptFits(s, p) /\ AttemptFits(s, p)
  BY <1>1, Copying
<1>4. PICK more : more = Append(p.bytes, handed + 1)
  OBVIOUS
<1>5. more \in Seq(Nat)
  BY <1>2, <1>3, <1>4
<1>6. PICK q \in Pipes : /\ pipe' \in [Attempts -> Pipes] /\ q = pipe'[tried]
                         /\ q.bytes = more /\ q.closed = TRUE /\ q.lost = p.lost
  <2>1. PICK yes \in BOOLEAN : yes = TRUE
    OBVIOUS
  <2>2. PICK m \in Pipes : /\ m = PipeOf(more, p.closed, p.lost)
                           /\ m.bytes = more /\ m.closed = p.closed /\ m.lost = p.lost
    BY <1>3, <1>5, PipeMade
  <2>3. PICK q \in Pipes : /\ q = PipeOf(more, yes, p.lost)
                           /\ q.bytes = more /\ q.closed = yes /\ q.lost = p.lost
    BY <1>3, <1>5, PipeMade
  <2>4. m = [p EXCEPT !.bytes = more]
    BY <2>2, PipeFields
  <2>5. q = [m EXCEPT !.closed = yes]
    <3>1. [m EXCEPT !.closed = yes] = PipeOf(m.bytes, yes, m.lost)
      BY PipeFields
    <3> QED
      BY <2>2, <2>3, <3>1
  <2>6. PICK mid \in [Attempts -> Pipes] :
           mid = [pipe EXCEPT ![tried].bytes = Append(@, handed + 1)] /\ mid[tried] = m
    <3>1. [pipe EXCEPT ![tried].bytes = Append(@, handed + 1)] = [pipe EXCEPT ![tried] = m]
      BY <1>2, <1>3, <1>4, <2>4
    <3> QED
      BY <1>2, <3>1, PipeSet
  <2>7. pipe' = [mid EXCEPT ![tried].closed = yes]
    BY <2>1, <2>6 DEF WriteFails
  <2>8. pipe' = [mid EXCEPT ![tried] = q]
    BY <1>2, <2>5, <2>6, <2>7
  <2> QED
    BY <1>2, <2>1, <2>3, <2>8, PipeSet
<1>10. ~p.lost
  BY <1>3 DEF WriteFails
<1>7. s.phase \in {"read", "copy", "append"} => GoesOn(q.bytes)'
  <2> SUFFICES ASSUME s.phase \in {"read", "copy", "append"} PROVE GoesOn(q.bytes)'
    OBVIOUS
  <2>1. GoesOn(p.bytes)
    BY <1>3 DEF ScriptFits
  <2>2. CASE ~p.lost
    <3>1. handed = Len(file) + Len(p.bytes)
      BY <1>1, <1>3, <2>2 DEF AttemptFits
    <3>2. /\ Len(file) + Len(more) <= PayloadLength
          /\ \A k \in 1..Len(more) : more[k] = Len(file) + k
      <4>1. PICK f \in Nat, bytes \in Seq(Nat) : f = Len(file) /\ bytes = p.bytes
        BY <1>2, <1>3
      <4>2. /\ f + Len(bytes) = handed /\ handed < PayloadLength /\ PayloadLength \in Nat
            /\ \A k \in 1..Len(bytes) : bytes[k] = f + k
            /\ more = Append(bytes, handed + 1)
        BY <1>1, <1>4, <2>1, <3>1, <4>1, StagingAssumption DEF GoesOn
      <4>3. /\ Len(more) = Len(bytes) + 1 /\ Len(bytes) \in Nat
            /\ \A k \in 1..Len(bytes) : more[k] = bytes[k]
            /\ more[Len(bytes) + 1] = handed + 1
        BY <1>2, <4>2
      <4>4. PICK m \in Nat : m = Len(bytes)
        BY <4>3
      <4>5. \A k \in 1..(m + 1) : more[k] = f + k
        <5>1. /\ \A k \in 1..m : bytes[k] = f + k
              /\ \A k \in 1..m : more[k] = bytes[k]
              /\ more[m + 1] = f + m + 1
          BY <4>2, <4>3, <4>4
        <5> QED
          BY <5>1, NextByte
      <4>6. Len(more) = m + 1 /\ Len(file) = f
        BY <4>1, <4>3, <4>4
      <4>7. f + (m + 1) <= PayloadLength
        BY <1>2, <4>2, <4>4
      <4> QED
        BY <4>5, <4>6, <4>7
    <3> QED
      BY <1>1, <1>6, <3>2 DEF GoesOn
  <2> QED
    BY <1>10, <2>2
<1>8. ScriptFits(s, q)' /\ AttemptFits(s, q)'
  BY <1>1, <1>3, <1>6, <1>7, <1>10 DEF ScriptFits, AttemptFits
<1>9. handed' \in Nat /\ cut' \in BOOLEAN
  BY <1>1, <1>2 DEF Untouched, StagingTypeOK
<1> QED
  BY <1>1, <1>2, <1>3, <1>6, <1>8, <1>9, HereOnly

\* ssh is gone: what was on its way is cut anywhere.
LEMMA LostStep ==
    ASSUME Untouched, ConnectionLost
    PROVE  Untouched'
<1>1. phase \in {"copying", "receipt"} /\ kind # "local" /\ cut' = TRUE
      /\ UNCHANGED <<kind, dir, file, tried, phase, handed, failure, receipt, outcome, known>>
  BY DEF ConnectionLost, attemptState
<1>2. /\ tried > 0 /\ tried \in Attempts /\ handed \in Nat
      /\ file \in Seq(Nat) /\ Len(file) \in Nat
      /\ pipe \in [Attempts -> Pipes] /\ script \in [Attempts -> Scripts]
  BY <1>1, Copying
<1>3. PICK s \in Scripts, p \in Pipes :
         /\ s = script[tried] /\ p = pipe[tried]
         /\ p.bytes \in Seq(Nat) /\ p.closed \in BOOLEAN /\ p.lost \in BOOLEAN
         /\ ScriptFits(s, p) /\ AttemptFits(s, p)
  BY <1>1, Copying
<1>4. PICK k \in 0..Len(p.bytes) :
         pipe' = [pipe EXCEPT ![tried] = [bytes |-> SubSeq(p.bytes, 1, k), closed |-> TRUE, lost |-> TRUE]]
  BY <1>3 DEF ConnectionLost
<1>5. PICK kept : kept = SubSeq(p.bytes, 1, k)
  OBVIOUS
<1>6. /\ kept \in Seq(Nat) /\ Len(kept) = k /\ k \in Nat /\ Len(p.bytes) \in Nat /\ k <= Len(p.bytes)
      /\ \A i \in 1..k : kept[i] = p.bytes[i]
  BY <1>3, <1>5, SubSeqProperties
<1>7. PICK q \in Pipes : /\ pipe' \in [Attempts -> Pipes] /\ q = pipe'[tried]
                         /\ q.bytes = kept /\ q.closed = TRUE /\ q.lost = TRUE
  <2>1. PICK yes \in BOOLEAN : yes = TRUE
    OBVIOUS
  <2>2. PICK q \in Pipes : /\ q = PipeOf(kept, yes, yes)
                           /\ q.bytes = kept /\ q.closed = yes /\ q.lost = yes
    BY <1>6, PipeMade
  <2>3. pipe' = [pipe EXCEPT ![tried] = q]
    BY <1>4, <1>5, <2>1, <2>2 DEF PipeOf
  <2> QED
    BY <1>2, <2>1, <2>2, <2>3, PipeSet
<1>8. PICK t \in Scripts : /\ t = [s EXCEPT !.phase = IF s.phase = "read" THEN "exit" ELSE s.phase]
                           /\ t.phase = IF s.phase = "read" THEN "exit" ELSE s.phase
                           /\ t.at = s.at /\ t.size = s.size
  <2>1. PICK w \in {"none", "read", "copy", "append", "digest", "exit"} :
           w = IF s.phase = "read" THEN "exit" ELSE s.phase
    BY DEF Scripts
  <2>2. [s EXCEPT !.phase = w] \in Scripts /\ [s EXCEPT !.phase = w].phase = w
        /\ [s EXCEPT !.phase = w].at = s.at /\ [s EXCEPT !.phase = w].size = s.size
    BY DEF Scripts
  <2> QED
    BY <2>1, <2>2
<1>9. /\ script' \in [Attempts -> Scripts] /\ script'[tried] = t
      /\ \A b \in Attempts : b # tried => script'[b] = script[b]
  <2>1. script' = [script EXCEPT ![tried] = t]
    BY <1>2, <1>3, <1>8 DEF ConnectionLost
  <2> QED
    BY <1>2, <2>1, ScriptSet
<1>10. StagingTypeOK'
  BY <1>1, <1>7, <1>9 DEF Untouched, StagingTypeOK
<1>11. FileInOrder' /\ OutcomeFits' /\ phase' # "idle"
  BY <1>1 DEF Untouched, FileInOrder, OutcomeFits
<1>12. s.phase \in {"copy", "append"} => GoesOn(kept)'
  <2> SUFFICES ASSUME s.phase \in {"copy", "append"} PROVE GoesOn(kept)'
    OBVIOUS
  <2>1. /\ Len(file) + Len(p.bytes) <= PayloadLength
        /\ \A i \in 1..Len(p.bytes) : p.bytes[i] = Len(file) + i
    BY <1>3 DEF ScriptFits, GoesOn
  <2>2. \A i \in 1..k : kept[i] = Len(file) + i
    <3>1. PICK full \in Nat : full = Len(p.bytes)
      BY <1>6
    <3>2. \A i \in 1..k : i \in 1..full
      BY <1>6, <3>1
    <3>3. \A i \in 1..full : p.bytes[i] = Len(file) + i
      BY <2>1, <3>1
    <3> QED
      BY <1>6, <3>2, <3>3
  <2>3. Len(file) + k <= PayloadLength
    BY <1>2, <1>6, <2>1, StagingAssumption
  <2> QED
    BY <1>1, <1>6, <2>2, <2>3 DEF GoesOn
<1>13. s.phase = "digest" => kept = <<>>
  <2>1. s.phase = "digest" => Len(kept) = 0
    BY <1>3, <1>6 DEF ScriptFits
  <2> QED
    BY <1>6, <2>1, EmptySeq
<1>14. ScriptFits(t, q)'
  BY <1>1, <1>3, <1>7, <1>8, <1>12, <1>13 DEF ScriptFits
<1>15. AttemptFits(t, q)'
  BY <1>1, <1>3, <1>7, <1>8 DEF AttemptFits
<1> QED
  BY <1>1, <1>2, <1>7, <1>9, <1>10, <1>11, <1>14, <1>15, RunsOn

-----------------------------------------------------------------------------
(* What an attempt comes to *)

\* A file as long as the payload is the payload.
LEMMA WholeIsPayload ==
    ASSUME StagingTypeOK, FileInOrder, Len(file) = PayloadLength
    PROVE  file = Payload
<1>1. file = [i \in 1..Len(file) |-> file[i]]
  BY DEF StagingTypeOK
<1> QED
  BY <1>1 DEF FileInOrder, Payload

\* upload_media, remote_attempt and local_attempt judge by the receipt.
LEMMA FinishStep ==
    ASSUME Untouched, Finish
    PROVE  Untouched'
<1>1. phase = "receipt" /\ phase' = "ended"
      /\ UNCHANGED <<kind, script, pipe, tried, handed, failure, receipt, cut>>
  BY DEF Finish
<1>2. /\ tried > 0 /\ tried \in Attempts
      /\ file \in Seq(Nat) /\ Len(file) \in Nat
      /\ pipe \in [Attempts -> Pipes] /\ script \in [Attempts -> Scripts]
  BY <1>1, Copying
<1>3. PICK s \in Scripts, p \in Pipes :
         /\ s = script[tried] /\ p = pipe[tried]
         /\ ScriptFits(s, p) /\ AttemptFits(s, p)
  BY <1>1, Copying
<1>4. cut \/ (s.phase = "exit" /\ receipt # Absent)
  <2>1. receipt # Absent \/ s.phase = "exit" \/ p.lost
    BY <1>3 DEF Finish
  <2>2. receipt # Absent => s.phase = "exit"
    BY <1>3 DEF AttemptFits
  <2>3. p.lost => cut
    BY <1>3 DEF AttemptFits
  <2>4. ~cut /\ s.phase = "exit" => receipt # Absent
    BY <1>1, <1>3 DEF AttemptFits
  <2> QED
    BY <2>1, <2>2, <2>3, <2>4
<1>5. receipt # Absent => /\ receipt.bytes = Len(file) /\ receipt.digest = file /\ s.phase = "exit" /\ dir
                          /\ kind = "media" => Len(file) = PayloadLength
  BY <1>1, <1>3 DEF AttemptFits
<1>6. Len(file) <= PayloadLength /\ PayloadLength \in Nat
  BY StagingAssumption DEF Untouched, FileInOrder
<1>7. Judged \in Outcomes /\ Judged # "refused"
      /\ (Judged # "error" => receipt # Absent)
      /\ (Judged = "complete" => Len(file) = PayloadLength)
      /\ (receipt # Absent => Judged \in {"complete", "interrupted"})
  <2>1. Len(file) = PayloadLength => file = Payload
    BY WholeIsPayload DEF Untouched
  <2> QED
    BY <1>2, <1>5, <1>6, <2>1 DEF Judged, Outcomes
<1>8. outcome' \in Outcomes /\ outcome' # "refused" /\ file' = file
      /\ known' \in BOOLEAN /\ (outcome' \in {"complete", "interrupted"} => known')
      /\ (tried' > 1 => known')
  <2>1. outcome' \in Outcomes /\ outcome' # "refused"
    BY <1>7 DEF Finish, Outcomes
  <2>2. file' = file
    BY DEF Finish, Discarded
  <2>3. known' = (known \/ outcome' \in {"interrupted", "complete"})
    BY DEF Finish
  <2> QED
    BY <1>1, <2>1, <2>2, <2>3 DEF Untouched, OutcomeFits
<1>9. CASE NothingStored
  <2>1. outcome' = "error" /\ dir' = FALSE /\ receipt # Absent
    BY <1>9 DEF Finish, Discarded, NothingStored
  <2>2. StagingTypeOK'
    BY <1>1, <1>8, <2>1 DEF Untouched, StagingTypeOK
  <2>3. FileInOrder' /\ OutcomeFits' /\ phase' # "idle"
    BY <1>1, <1>8, <2>1 DEF Untouched, FileInOrder, OutcomeFits
  <2>4. ScriptFits(s, p)' /\ AttemptFits(s, p)'
    BY <1>1, <1>3, <1>5, <1>8, <2>1 DEF ScriptFits, AttemptFits
  <2> QED
    BY <1>1, <1>2, <1>3, <2>2, <2>3, <2>4, RunsOn
<1>10. CASE ~NothingStored
  <2>1. outcome' = Judged /\ dir' = dir
    BY <1>7, <1>10 DEF Finish
  <2>2. StagingTypeOK'
    BY <1>1, <1>8, <2>1 DEF Untouched, StagingTypeOK
  <2>3. FileInOrder' /\ phase' # "idle"
    BY <1>1, <1>8 DEF Untouched, FileInOrder
  <2>4. OutcomeFits'
    BY <1>1, <1>4, <1>5, <1>7, <1>8, <2>1 DEF OutcomeFits
  <2>5. ScriptFits(s, p)'
    BY <1>1, <1>3, <1>8, <2>1 DEF ScriptFits, GoesOn
  <2>6. AttemptFits(s, p)'
    BY <1>1, <1>3, <1>4, <1>8, <2>1 DEF AttemptFits
  <2> QED
    BY <1>1, <1>2, <1>3, <2>2, <2>3, <2>4, <2>5, <2>6, RunsOn
<1> QED
  BY <1>9, <1>10

\* The digest of a file nothing else wrote to is never another one.
LEMMA CompareNever ==
    ASSUME Untouched
    PROVE  ~Compare
<1> SUFFICES ASSUME Compare PROVE FALSE
  OBVIOUS
<1>1. phase = "ended" /\ outcome = "complete" /\ receipt.digest # Payload
  BY DEF Compare
<1>2. receipt # Absent /\ Len(file) = PayloadLength
  BY <1>1 DEF Untouched, OutcomeFits
<1>3. tried > 0
  BY <1>1 DEF Untouched, NothingYet, StagingTypeOK
<1>4. receipt.digest = file
  BY <1>2, <1>3, OneRuns DEF AttemptFits
<1> QED
  BY <1>1, <1>2, <1>4, WholeIsPayload DEF Untouched

\* command_timeout_seconds: the attempt is over and its script goes on by itself.
LEMMA TimesOutStep ==
    ASSUME Untouched, TimesOut
    PROVE  Untouched'
<1>1. kind = "media" /\ phase \in {"copying", "receipt"} /\ phase' = "ended" /\ outcome' = "error" /\ cut' = TRUE
      /\ UNCHANGED <<kind, dir, file, script, tried, handed, failure, receipt, known>>
  BY DEF TimesOut, staged
<1>2. /\ tried > 0 /\ tried \in Attempts
      /\ pipe \in [Attempts -> Pipes] /\ script \in [Attempts -> Scripts]
  BY <1>1, Copying
<1>3. PICK s \in Scripts, p \in Pipes :
         /\ s = script[tried] /\ p = pipe[tried]
         /\ p.bytes \in Seq(Nat) /\ p.closed \in BOOLEAN /\ p.lost \in BOOLEAN
         /\ ScriptFits(s, p) /\ AttemptFits(s, p)
  BY <1>1, Copying
<1>4. PICK q \in Pipes : /\ pipe' \in [Attempts -> Pipes] /\ q = pipe'[tried]
                         /\ q.bytes = p.bytes /\ q.closed = TRUE /\ q.lost = TRUE
  <2>1. PICK yes \in BOOLEAN : yes = TRUE
    OBVIOUS
  <2>2. PICK m \in Pipes : /\ m = PipeOf(p.bytes, yes, p.lost)
                           /\ m.bytes = p.bytes /\ m.closed = yes /\ m.lost = p.lost
    BY <1>3, PipeMade
  <2>3. PICK q \in Pipes : /\ q = PipeOf(p.bytes, yes, yes)
                           /\ q.bytes = p.bytes /\ q.closed = yes /\ q.lost = yes
    BY <1>3, PipeMade
  <2>4. m = [p EXCEPT !.closed = yes]
    BY <2>2, PipeFields
  <2>5. q = [m EXCEPT !.lost = yes]
    BY <2>2, <2>3 DEF PipeOf
  <2>6. PICK mid \in [Attempts -> Pipes] :
           mid = [pipe EXCEPT ![tried].closed = yes] /\ mid[tried] = m
    <3>1. [pipe EXCEPT ![tried].closed = yes] = [pipe EXCEPT ![tried] = m]
      BY <1>2, <1>3, <2>4
    <3> QED
      BY <1>2, <3>1, PipeSet
  <2>7. pipe' = [mid EXCEPT ![tried].lost = yes]
    BY <2>1, <2>6 DEF TimesOut
  <2>8. pipe' = [mid EXCEPT ![tried] = q]
    BY <1>2, <2>5, <2>6, <2>7
  <2> QED
    BY <1>2, <2>1, <2>3, <2>8, PipeSet
<1>5. StagingTypeOK'
  BY <1>1, <1>4 DEF Untouched, StagingTypeOK, Outcomes
<1>6. FileInOrder' /\ OutcomeFits' /\ phase' # "idle"
  BY <1>1 DEF Untouched, FileInOrder, OutcomeFits
<1>7. ScriptFits(s, q)'
  BY <1>1, <1>3, <1>4 DEF ScriptFits, GoesOn
<1>8. AttemptFits(s, q)'
  BY <1>1, <1>3, <1>4 DEF AttemptFits
<1> QED
  BY <1>1, <1>2, <1>3, <1>4, <1>5, <1>6, <1>7, <1>8, RunsOn

-----------------------------------------------------------------------------
LEMMA StagingStep ==
    ASSUME StagingInv, [StagingNext]_stagingVars
    PROVE  StagingInv'
<1>1. CASE UNCHANGED stagingVars
  <2>1. UNCHANGED <<kind, dir, file, script, pipe, tried, phase, handed, failure, receipt, outcome, known, cut, altered>>
    BY <1>1 DEF stagingVars, staged, attemptState
  <2> QED
    BY <2>1 DEF StagingInv, Untouched, StagingTypeOK, FileInOrder, NothingYet, OthersOver, OutcomeFits,
                ScriptFits, AttemptFits, GoesOn
<1>2. CASE HostAlters
  <2>1. altered' = TRUE
    BY <1>2 DEF HostAlters
  <2> QED
    BY <2>1 DEF StagingInv
<1>3. CASE Start \/ SendByte \/ SourceEnds \/ ConnectionLost \/ WriteFails \/ Finish \/ Compare \/ TimesOut
  <2>1. altered' = altered
    BY <1>3 DEF Start, SendByte, SourceEnds, ConnectionLost, WriteFails, Finish, Compare, TimesOut
  <2>2. Untouched => Untouched'
    BY <1>3, StartStep, SendByteStep, SourceEndsStep, LostStep, WriteFailsStep, FinishStep, CompareNever, TimesOutStep
  <2> QED
    BY <2>1, <2>2 DEF StagingInv
<1>4. ASSUME NEW a \in Attempts,
             ScriptStages(a) \/ ScriptCopies(a) \/ ScriptMeasures(a) \/ ScriptReports(a) \/ ScriptFails(a)
      PROVE  StagingInv'
  <2>1. altered' = altered
    BY <1>4 DEF ScriptStages, ScriptCopies, ScriptMeasures, ScriptReports, ScriptFails
  <2>2. Untouched => Untouched'
    BY <1>4, StagesStep, CopiesStep, MeasuresStep, ReportsStep, FailsStep
  <2> QED
    BY <2>1, <2>2 DEF StagingInv
<1> QED
  BY <1>1, <1>2, <1>3, <1>4 DEF StagingNext

LEMMA StagingInvMeans ==
    ASSUME StagingInv
    PROVE  StagingIsTruthful
<1>1. NamedUnlessCut
  <2> SUFFICES ASSUME phase = "ended", Untouched, dir
               PROVE  (~cut => outcome \in {"complete", "interrupted"}) /\ (known \/ (cut /\ tried = 1))
    BY DEF NamedUnlessCut, Over, StagingInv
  <2>1. tried \in Nat /\ tried # 0 /\ cut \in BOOLEAN
    BY DEF Untouched, NothingYet, StagingTypeOK
  <2> QED
    BY <2>1 DEF Untouched, OutcomeFits
<1>2. ResumedIsWhole
  <2> SUFFICES ASSUME Untouched
               PROVE  /\ Len(file) <= PayloadLength /\ \A i \in 1..Len(file) : file[i] = Payload[i]
                      /\ outcome # "refused" /\ (outcome = "complete" => file = Payload)
    BY DEF ResumedIsWhole, StagingInv
  <2>1. Len(file) \in Nat /\ PayloadLength \in Nat
    BY StagingAssumption DEF Untouched, StagingTypeOK
  <2>2. Len(file) <= PayloadLength /\ \A i \in 1..Len(file) : file[i] = Payload[i]
    BY <2>1 DEF Untouched, FileInOrder, Payload
  <2> QED
    BY <2>2, WholeIsPayload DEF Untouched, OutcomeFits
<1> QED
  BY <1>1, <1>2 DEF StagingIsTruthful

\* For a payload of any length and any number of attempts, each of them cut off
\* anywhere and with any of its commands failing: an attempt that lost neither its
\* connection, nor its time, nor a command leaves on the host only what it returned
\* the place of; whatever was lost, the host holds a beginning of the payload, and a
\* transfer put together from what earlier attempts left is never refused for it and,
\* when complete, is the payload (upload_media, remote_attempt, local_attempt,
\* finish_attempt, UPLOAD_SCRIPT, RESUME_SCRIPT).
THEOREM StagingAlwaysTruthful == StagingSpec => []StagingIsTruthful
<1>1. StagingInit => StagingInv
  BY StagingStarts
<1>2. StagingInv /\ [StagingNext]_stagingVars => StagingInv'
  BY StagingStep
<1>3. StagingInv => StagingIsTruthful
  BY StagingInvMeans
<1> QED
  BY <1>1, <1>2, <1>3, PTL DEF StagingSpec

-----------------------------------------------------------------------------
(* ClientUploads: the inductive invariant *)

Commands == [kind : {"begin", "chunk", "finish", "cancel"}, file : Files]
Batches == [paths : SUBSET Files, failed : Seq(Files), phase : {"before", "open", "settled"}]

UploadTypeOK ==
    /\ pc \in [Files -> {"idle", "read", "check", "full", "await", "chunk", "finish", "cancel", "done"}]
    /\ sent \in [Files -> Nat] /\ got \in [Files -> Nat]
    /\ queue \in Seq(Commands) /\ queued \in Int
    /\ answers \in [Files -> {"none", "refused", "interrupted", "complete", "taken", "ignored"}]
    /\ pending \in SUBSET Files
    /\ batch \in Batches

\* Nothing is under way before the selection is sent.
NotYet ==
    /\ queue = <<>> /\ pending = {} /\ batch.paths = {} /\ batch.failed = <<>>
    /\ \A f \in Files : pc[f] = "idle"

\* Every file of the batch waits, has its path or has failed, and only one of them.
Parted(paths, failed) ==
    /\ pending \cup paths \cup ToSet(failed) = Files
    /\ pending \cap paths = {} /\ pending \cap ToSet(failed) = {} /\ paths \cap ToSet(failed) = {}
    /\ Cardinality(pending) + Cardinality(paths) + Len(failed) = Cardinality(Files)

Accounted ==
    /\ batch.phase = "before" => NotYet
    /\ batch.phase # "before" => Parted(batch.paths, batch.failed)
    /\ batch.phase = "settled" => pending = {} /\ pasted = InOrder(batch.paths)

\* What the daemon relayed was sent, and what it ruled complete is whole.
RuledOn ==
    \A f \in Files :
       /\ got[f] <= sent[f] /\ sent[f] <= Lengths[f]
       /\ answers[f] = "complete" => got[f] = Lengths[f]
       /\ f \in batch.paths => got[f] = Lengths[f] /\ answers[f] # "none"

\* The chunks that wait are numbered c[k] among those of their file, after what was relayed.
IsChunk(q, len, k) == k \in 1..len /\ q[k].kind = "chunk"
Within(q, len, g, s, c) ==
    \A k \in Nat : IsChunk(q, len, k) => g[q[k].file] < c[k] /\ c[k] <= s[q[k].file]
Rising(q, len, c) ==
    \A j, k \in Nat : IsChunk(q, len, j) /\ IsChunk(q, len, k) /\ j < k /\ q[j].file = q[k].file
                        => c[j] < c[k]
NumberedIn(q, len, g, s) == \E c \in [Nat -> Nat] : Within(q, len, g, s, c) /\ Rising(q, len, c)
Numbered == NumberedIn(queue, Len(queue), got, sent)

\* A task that has found room has it until it sends.
Sending == {f \in Files : pc[f] = "chunk"}
RoomKept == queued + Cardinality(Sending) <= Window + Cardinality(Files) - 1

UploadInv == UploadTypeOK /\ Accounted /\ RuledOn /\ Numbered /\ RoomKept

-----------------------------------------------------------------------------
(* ClientUploads: the parts of the invariant under the steps that touch them *)

\* A queue that grew at its end.
LEMMA QueueGrows ==
    ASSUME UploadTypeOK, NEW m \in Commands, queue' = Append(queue, m)
    PROVE  /\ queue' \in Seq(Commands) /\ Len(queue) \in Nat /\ Len(queue') = Len(queue) + 1
           /\ \A k \in 1..Len(queue) : queue'[k] = queue[k]
           /\ queue'[Len(queue) + 1] = m
BY DEF UploadTypeOK

LEMMA QueueFiles ==
    ASSUME UploadTypeOK
    PROVE  \A k \in 1..Len(queue) : queue[k] \in Commands /\ queue[k].file \in Files
<1>1. \A k \in 1..Len(queue) : queue[k] \in Commands
  BY ElementOfSeq DEF UploadTypeOK
<1>2. \A m \in Commands : m.file \in Files
  BY DEF Commands
<1> QED
  BY <1>1, <1>2

\* A queue whose first was taken.
LEMMA QueueShrinks ==
    ASSUME UploadTypeOK, queue # <<>>, queue' = Tail(queue)
    PROVE  /\ queue' \in Seq(Commands) /\ Len(queue) \in Nat /\ Len(queue) > 0
           /\ Len(queue') = Len(queue) - 1
           /\ \A k \in 1..Len(queue') : queue'[k] = queue[k + 1]
           /\ Head(queue) = queue[1] /\ Head(queue) \in Commands
<1>1. queue \in Seq(Commands)
  BY DEF UploadTypeOK
<1>2. Len(queue) \in Nat /\ Len(queue) > 0
  BY <1>1, EmptySeq
<1>3. /\ queue' \in Seq(Commands) /\ Len(queue') = Len(queue) - 1
      /\ \A k \in 1..Len(queue') : queue'[k] = queue[k + 1]
      /\ Head(queue) = queue[1] /\ Head(queue) \in Commands
  BY <1>1, HeadTailProperties
<1> QED
  BY <1>2, <1>3

\* A chunk numbered after the last of its file keeps the chunks in order.
LEMMA NumberLast ==
    ASSUME NEW q, NEW r, NEW len \in Nat, NEW m, NEW g \in [Files -> Nat],
           NEW s \in [Files -> Nat], NEW t \in [Files -> Nat],
           \A k \in 1..len : r[k] = q[k] /\ q[k].file \in Files,
           r[len + 1] = m, m.file \in Files,
           \A f \in Files : s[f] <= t[f],
           m.kind = "chunk" => t[m.file] = s[m.file] + 1 /\ g[m.file] <= s[m.file],
           NumberedIn(q, len, g, s)
    PROVE  NumberedIn(r, len + 1, g, t)
<1>6. PICK c \in [Nat -> Nat] : Within(q, len, g, s, c) /\ Rising(q, len, c)
  BY DEF NumberedIn
<1>1. PICK last \in Nat : last = s[m.file] + 1
  OBVIOUS
<1>2. PICK d \in [Nat -> Nat] : d[len + 1] = last /\ \A k \in Nat : k # len + 1 => d[k] = c[k]
  <2>1. PICK d : d = [c EXCEPT ![len + 1] = last]
    OBVIOUS
  <2>2. len + 1 \in Nat
    OBVIOUS
  <2>3. d \in [Nat -> Nat] /\ d[len + 1] = last /\ \A k \in Nat : k # len + 1 => d[k] = c[k]
    BY <2>1, <2>2
  <2> QED
    BY <2>3
<1>3. \A k \in Nat : IsChunk(r, len + 1, k) =>
         \/ k \in 1..len /\ IsChunk(q, len, k) /\ r[k] = q[k] /\ d[k] = c[k] /\ q[k].file \in Files
         \/ k = len + 1 /\ m.kind = "chunk"
  <2> SUFFICES ASSUME NEW k \in Nat, IsChunk(r, len + 1, k)
               PROVE  \/ k \in 1..len /\ IsChunk(q, len, k) /\ r[k] = q[k] /\ d[k] = c[k] /\ q[k].file \in Files
                      \/ k = len + 1 /\ m.kind = "chunk"
    OBVIOUS
  <2>1. k \in 1..(len + 1) /\ r[k].kind = "chunk"
    BY DEF IsChunk
  <2>2. CASE k = len + 1
    BY <2>1, <2>2
  <2>3. CASE k # len + 1
    <3>1. k \in 1..len
      BY <2>1, <2>3
    <3> QED
      BY <1>2, <2>1, <2>3, <3>1 DEF IsChunk
  <2> QED
    BY <2>2, <2>3
<1>4. ASSUME NEW k \in Nat, IsChunk(r, len + 1, k)
      PROVE  g[r[k].file] < d[k] /\ d[k] <= t[r[k].file]
  <2>1. CASE k \in 1..len /\ IsChunk(q, len, k) /\ r[k] = q[k] /\ d[k] = c[k] /\ q[k].file \in Files
    <3>1. PICK f \in Files : f = q[k].file
      BY <2>1
    <3>2. g[f] < c[k] /\ c[k] <= s[f]
      BY <1>6, <2>1, <3>1 DEF Within
    <3>3. s[f] <= t[f] /\ s[f] \in Nat /\ t[f] \in Nat /\ c[k] \in Nat /\ g[f] \in Nat
      OBVIOUS
    <3> QED
      BY <2>1, <3>1, <3>2, <3>3
  <2>2. CASE k = len + 1 /\ m.kind = "chunk"
    <3>1. PICK f \in Files : f = m.file
      OBVIOUS
    <3>2. t[f] = last /\ g[f] <= s[f] /\ last = s[f] + 1 /\ g[f] \in Nat /\ s[f] \in Nat
      BY <1>1, <2>2, <3>1
    <3> QED
      BY <1>2, <2>2, <3>1, <3>2
  <2> QED
    BY <1>3, <1>4, <2>1, <2>2
<1>5. ASSUME NEW j \in Nat, NEW k \in Nat, IsChunk(r, len + 1, j), IsChunk(r, len + 1, k), j < k,
             r[j].file = r[k].file
      PROVE  d[j] < d[k]
  <2>1. k <= len + 1 /\ j # len + 1
    BY <1>5 DEF IsChunk
  <2>2. j \in 1..len /\ IsChunk(q, len, j) /\ r[j] = q[j] /\ d[j] = c[j] /\ q[j].file \in Files
    BY <1>3, <1>5, <2>1
  <2>3. CASE k \in 1..len /\ IsChunk(q, len, k) /\ r[k] = q[k] /\ d[k] = c[k] /\ q[k].file \in Files
    <3>1. q[j].file = q[k].file
      BY <1>5, <2>2, <2>3
    <3>2. c[j] < c[k]
      BY <1>5, <1>6, <2>2, <2>3, <3>1 DEF Rising
    <3> QED
      BY <2>2, <2>3, <3>2
  <2>4. CASE k = len + 1 /\ m.kind = "chunk"
    <3>1. PICK f \in Files : f = m.file /\ f = q[j].file
      BY <1>5, <2>2, <2>4
    <3>2. c[j] <= s[f] /\ c[j] \in Nat /\ s[f] \in Nat /\ last = s[f] + 1
      BY <1>1, <1>6, <2>2, <3>1 DEF Within
    <3> QED
      BY <1>2, <2>2, <2>4, <3>2
  <2> QED
    BY <1>3, <1>5, <2>3, <2>4
<1> QED
  BY <1>4, <1>5 DEF Within, Rising, NumberedIn

\* r is q without its first, which was relayed at most.
FirstTaken(q, r, len, g, h) ==
    /\ \A k \in 1..len : r[k] = q[k + 1]
    /\ \A k \in 1..(len + 1) : q[k].file \in Files
    /\ \A f \in Files : f # q[1].file => h[f] = g[f]
    /\ \/ h[q[1].file] = g[q[1].file]
       \/ h[q[1].file] = g[q[1].file] + 1 /\ q[1].kind = "chunk"

\* The first chunk taken leaves the others numbered after it.
LEMMA NumberRest ==
    ASSUME NEW q, NEW r, NEW len \in Nat, NEW g \in [Files -> Nat], NEW h \in [Files -> Nat],
           NEW s \in [Files -> Nat], FirstTaken(q, r, len, g, h), NumberedIn(q, len + 1, g, s)
    PROVE  /\ NumberedIn(r, len, h, s)
           /\ \A f \in Files : g[f] <= s[f] => h[f] <= s[f]
<1>9. PICK first \in Files : first = q[1].file
  <2>1. 1 \in 1..(len + 1)
    OBVIOUS
  <2> QED
    BY <2>1 DEF FirstTaken
<1>10. /\ \A k \in 1..len : r[k] = q[k + 1]
       /\ \A k \in 1..(len + 1) : q[k].file \in Files
       /\ \A f \in Files : f # first => h[f] = g[f]
       /\ \/ h[first] = g[first]
          \/ h[first] = g[first] + 1 /\ q[1].kind = "chunk"
  BY <1>9 DEF FirstTaken
<1>8. PICK c \in [Nat -> Nat] : Within(q, len + 1, g, s, c) /\ Rising(q, len + 1, c)
  BY DEF NumberedIn
<1>1. PICK d \in [Nat -> Nat] : \A k \in Nat : d[k] = c[k + 1]
  <2>1. [k \in Nat |-> c[k + 1]] \in [Nat -> Nat]
    OBVIOUS
  <2> QED
    BY <2>1
<1>2. \A k \in Nat : IsChunk(r, len, k) =>
         /\ k \in 1..len /\ k + 1 \in Nat /\ 1 < k + 1 /\ IsChunk(q, len + 1, k + 1)
         /\ r[k] = q[k + 1] /\ q[k + 1].file \in Files
  <2> SUFFICES ASSUME NEW k \in Nat, IsChunk(r, len, k)
               PROVE  /\ k \in 1..len /\ k + 1 \in Nat /\ 1 < k + 1 /\ IsChunk(q, len + 1, k + 1)
                      /\ r[k] = q[k + 1] /\ q[k + 1].file \in Files
    OBVIOUS
  <2>1. k \in 1..len /\ r[k].kind = "chunk"
    BY DEF IsChunk
  <2>2. k + 1 \in 1..(len + 1) /\ r[k] = q[k + 1] /\ 1 < k + 1
    BY <1>10, <2>1
  <2> QED
    BY <1>10, <2>1, <2>2 DEF IsChunk
<1>3. h[first] = g[first] \/ (h[first] = g[first] + 1 /\ IsChunk(q, len + 1, 1))
  BY <1>10 DEF IsChunk
<1>4. IsChunk(q, len + 1, 1) => g[first] < c[1] /\ c[1] <= s[first]
  BY <1>8, <1>9 DEF Within
<1>5. \A f \in Files : g[f] <= s[f] => h[f] <= s[f]
  <2> SUFFICES ASSUME NEW f \in Files, g[f] <= s[f] PROVE h[f] <= s[f]
    OBVIOUS
  <2>1. g[f] \in Nat /\ s[f] \in Nat /\ c[1] \in Nat
    OBVIOUS
  <2> QED
    BY <1>3, <1>4, <1>10, <2>1
<1>6. ASSUME NEW k \in Nat, IsChunk(r, len, k)
      PROVE  h[r[k].file] < d[k] /\ d[k] <= s[r[k].file]
  <2>1. /\ k + 1 \in Nat /\ 1 < k + 1 /\ IsChunk(q, len + 1, k + 1)
        /\ r[k] = q[k + 1] /\ q[k + 1].file \in Files /\ d[k] = c[k + 1]
    BY <1>1, <1>2, <1>6
  <2>2. PICK f \in Files : f = q[k + 1].file
    BY <2>1
  <2>3. g[f] < c[k + 1] /\ c[k + 1] <= s[f]
    BY <1>8, <2>1, <2>2 DEF Within
  <2>4. g[f] \in Nat /\ s[f] \in Nat /\ c[1] \in Nat /\ c[k + 1] \in Nat /\ h[f] \in Nat
    BY <2>1
  <2>5. h[f] < c[k + 1]
    <3>1. CASE h[f] = g[f]
      BY <2>3, <3>1
    <3>2. CASE f = first /\ h[f] = g[f] + 1 /\ IsChunk(q, len + 1, 1)
      <4>1. c[1] < c[k + 1]
        BY <1>8, <1>9, <2>1, <2>2, <3>2 DEF Rising
      <4>2. g[f] < c[1]
        BY <1>4, <3>2
      <4> QED
        BY <2>4, <3>2, <4>1, <4>2
    <3> QED
      BY <1>3, <1>10, <3>1, <3>2
  <2> QED
    BY <2>1, <2>2, <2>3, <2>5
<1>7. ASSUME NEW j \in Nat, NEW k \in Nat, IsChunk(r, len, j), IsChunk(r, len, k), j < k,
             r[j].file = r[k].file
      PROVE  d[j] < d[k]
  <2>1. /\ j + 1 \in Nat /\ IsChunk(q, len + 1, j + 1) /\ r[j] = q[j + 1]
        /\ k + 1 \in Nat /\ IsChunk(q, len + 1, k + 1) /\ r[k] = q[k + 1]
    BY <1>2, <1>7
  <2>2. j + 1 < k + 1 /\ q[j + 1].file = q[k + 1].file
    BY <1>7, <2>1
  <2>3. c[j + 1] < c[k + 1]
    BY <1>8, <2>1, <2>2 DEF Rising
  <2> QED
    BY <1>1, <2>3
<1> QED
  BY <1>5, <1>6, <1>7 DEF Within, Rising, NumberedIn

\* ClientCommands::send keeps the chunks numbered.
LEMMA NumberedSend ==
    ASSUME UploadTypeOK, Numbered, NEW m \in Commands, queue' = Append(queue, m), got' = got,
           sent' \in [Files -> Nat], \A f \in Files : sent[f] <= sent'[f],
           m.kind = "chunk" => sent'[m.file] = sent[m.file] + 1 /\ got[m.file] <= sent[m.file]
    PROVE  Numbered'
<1>8. PICK len \in Nat : len = Len(queue)
  BY QueueGrows
<1>9. PICK q, r : q = queue /\ r = queue'
  OBVIOUS
<1>2. len = Len(queue) /\ q = queue /\ r = queue'
  BY <1>8, <1>9
<1>3. Len(queue') = len + 1 /\ r[len + 1] = m
  BY <1>2, QueueGrows
<1>4. \A k \in 1..len : r[k] = q[k] /\ q[k].file \in Files
  BY <1>2, QueueGrows, QueueFiles
<1>5. m.file \in Files /\ got \in [Files -> Nat] /\ sent \in [Files -> Nat]
  BY DEF Commands, UploadTypeOK
<1>6. NumberedIn(q, len, got, sent)
  BY <1>2 DEF Numbered
<1>7. NumberedIn(r, len + 1, got, sent')
  BY <1>3, <1>4, <1>5, <1>6, NumberLast
<1> QED
  BY <1>2, <1>3, <1>7 DEF Numbered

\* UploadWindow::written: the first command is relayed, or dropped.
LEMMA NumberedTake ==
    ASSUME UploadTypeOK, Numbered, queue # <<>>, queue' = Tail(queue), sent' = sent,
           got' \in [Files -> Nat],
           \A f \in Files : f # Head(queue).file => got'[f] = got[f],
           \/ got'[Head(queue).file] = got[Head(queue).file]
           \/ got'[Head(queue).file] = got[Head(queue).file] + 1 /\ Head(queue).kind = "chunk"
    PROVE  /\ Numbered'
           /\ \A f \in Files : got[f] <= sent[f] => got'[f] <= sent[f]
<1>10. PICK len \in Nat : len = Len(queue')
  <2>1. queue' \in Seq(Commands)
    BY QueueShrinks
  <2> QED
    BY <2>1, LenProperties
<1>11. PICK q, r : q = queue /\ r = queue'
  OBVIOUS
<1>2. len = Len(queue') /\ q = queue /\ r = queue'
  BY <1>10, <1>11
<1>3. Len(queue) = len + 1 /\ Head(queue) = q[1]
  BY <1>2, QueueShrinks
<1>4. /\ \A k \in 1..len : r[k] = q[k + 1]
      /\ \A k \in 1..(len + 1) : q[k].file \in Files
  BY <1>2, <1>3, QueueShrinks, QueueFiles
<1>5. got \in [Files -> Nat] /\ sent \in [Files -> Nat]
  BY DEF UploadTypeOK
<1>7. NumberedIn(q, len + 1, got, sent)
  BY <1>2, <1>3 DEF Numbered
<1>9. /\ NumberedIn(r, len, got', sent)
      /\ \A f \in Files : got[f] <= sent[f] => got'[f] <= sent[f]
  <2>1. PICK h \in [Files -> Nat] : h = got'
    OBVIOUS
  <2>2. FirstTaken(q, r, len, got, h)
    BY <1>3, <1>4, <2>1 DEF FirstTaken
  <2>3. NumberedIn(r, len, h, sent) /\ \A f \in Files : got[f] <= sent[f] => h[f] <= sent[f]
    BY <1>5, <1>7, <2>2, NumberRest
  <2> QED
    BY <2>1, <2>3
<1> QED
  BY <1>2, <1>9 DEF Numbered

-----------------------------------------------------------------------------
\* The tasks that have room are some of the files.
LEMMA SendingFew ==
    ASSUME NEW S \in SUBSET Files
    PROVE  IsFiniteSet(S) /\ Cardinality(S) \in Nat /\ Cardinality(S) <= Cardinality(Files)
           /\ Cardinality(Files) \in Nat
<1>1. IsFiniteSet(Files)
  BY UploadAssumption
<1> QED
  BY <1>1, FS_Subset, FS_CardinalityType

\* A step after which no other task has room keeps what there is.
LEMMA RoomOf ==
    ASSUME UploadTypeOK, RoomKept, queued' \in Int, queued' <= queued, Sending' \subseteq Sending
    PROVE  RoomKept'
<1>1. Sending \in SUBSET Files /\ Sending' \in SUBSET Files
  BY DEF Sending
<1>2. PICK a \in Nat, b \in Nat, n \in Nat : a = Cardinality(Sending) /\ b = Cardinality(Sending') /\ n = Cardinality(Files)
  BY <1>1, SendingFew
<1>3. b <= a
  <2>1. IsFiniteSet(Sending) /\ Sending' \in SUBSET Sending
    BY <1>1, SendingFew
  <2> QED
    BY <1>2, <2>1, FS_Subset
<1>4. queued + a <= Window + n - 1 /\ queued \in Int /\ Window \in Nat
  BY <1>2, UploadAssumption DEF RoomKept, UploadTypeOK
<1>5. queued' + b <= Window + n - 1
  <2>1. PICK x \in Int, y \in Int, w \in Nat : x = queued /\ y = queued' /\ w = Window
    BY <1>4
  <2>2. x + a <= w + n - 1 /\ y <= x
    BY <1>4, <2>1
  <2>3. y + b <= w + n - 1
    BY <1>3, <2>2
  <2> QED
    BY <2>1, <2>3
<1> QED
  BY <1>2, <1>5 DEF RoomKept

\* room_to_send: there is room while the window is not full.
LEMMA RoomFound ==
    ASSUME UploadTypeOK, queued < Window, queued' = queued
    PROVE  RoomKept'
<1>1. Sending' \in SUBSET Files
  BY DEF Sending
<1>2. PICK b \in Nat, n \in Nat : b = Cardinality(Sending') /\ n = Cardinality(Files)
  BY <1>1, SendingFew
<1>3. b <= n
  BY <1>1, <1>2, SendingFew
<1>4. queued \in Int /\ Window \in Nat
  BY UploadAssumption DEF UploadTypeOK
<1> QED
  BY <1>2, <1>3, <1>4 DEF RoomKept

\* The chunk that is sent takes the room its task had.
LEMMA RoomUsed ==
    ASSUME UploadTypeOK, RoomKept, NEW f \in Files, f \in Sending, Sending' = Sending \ {f},
           queued' = queued + 1
    PROVE  RoomKept'
<1>1. Sending \in SUBSET Files
  BY DEF Sending
<1>2. PICK a \in Nat, n \in Nat : a = Cardinality(Sending) /\ n = Cardinality(Files)
  BY <1>1, SendingFew
<1>3. Cardinality(Sending') = a - 1
  BY <1>1, <1>2, SendingFew, FS_RemoveElement
<1>4. queued + a <= Window + n - 1 /\ queued \in Int /\ Window \in Nat
  BY <1>2, UploadAssumption DEF RoomKept, UploadTypeOK
<1> QED
  BY <1>2, <1>3, <1>4 DEF RoomKept

-----------------------------------------------------------------------------
(* The batch *)

LEMMA ToSetAppend ==
    ASSUME NEW s \in Seq(Files), NEW f \in Files
    PROVE  /\ ToSet(Append(s, f)) = ToSet(s) \cup {f}
           /\ Append(s, f) \in Seq(Files) /\ Len(Append(s, f)) = Len(s) + 1 /\ Len(s) \in Nat
<1>1. /\ Append(s, f) \in Seq(Files) /\ Len(Append(s, f)) = Len(s) + 1 /\ Len(s) \in Nat
      /\ \A i \in 1..Len(s) : Append(s, f)[i] = s[i]
      /\ Append(s, f)[Len(s) + 1] = f
      /\ DOMAIN s = 1..Len(s) /\ DOMAIN Append(s, f) = 1..(Len(s) + 1)
  OBVIOUS
<1>2. PICK n \in Nat : n = Len(s)
  BY <1>1
<1>3. ASSUME NEW x, x \in ToSet(Append(s, f)) PROVE x \in ToSet(s) \cup {f}
  <2>1. PICK i \in 1..(n + 1) : x = Append(s, f)[i]
    BY <1>1, <1>2, <1>3 DEF ToSet
  <2>2. CASE i = n + 1
    BY <1>1, <1>2, <2>1, <2>2
  <2>3. CASE i # n + 1
    <3>1. i \in 1..n
      BY <2>1, <2>3
    <3>2. i \in DOMAIN s /\ x = s[i]
      BY <1>1, <1>2, <2>1, <3>1
    <3> QED
      BY <3>2 DEF ToSet
  <2> QED
    BY <2>2, <2>3
<1>4. ASSUME NEW x, x \in ToSet(s) \cup {f} PROVE x \in ToSet(Append(s, f))
  <2>1. CASE x = f
    <3>1. n + 1 \in DOMAIN Append(s, f) /\ Append(s, f)[n + 1] = f
      BY <1>1, <1>2
    <3> QED
      BY <2>1, <3>1 DEF ToSet
  <2>2. CASE x \in ToSet(s)
    <3>1. PICK i \in 1..n : x = s[i]
      BY <1>1, <1>2, <2>2 DEF ToSet
    <3>2. i \in DOMAIN Append(s, f) /\ x = Append(s, f)[i]
      BY <1>1, <1>2, <3>1
    <3> QED
      BY <3>2 DEF ToSet
  <2> QED
    BY <1>4, <2>1, <2>2
<1> QED
  BY <1>1, <1>3, <1>4

\* A file that waited and now has its path, or has failed, is counted once more.
LEMMA PartedOne ==
    ASSUME UploadTypeOK, NEW f \in pending, pending' = pending \ {f},
           NEW paths \in SUBSET Files, NEW failed \in Seq(Files), Parted(paths, failed),
           NEW morePaths \in SUBSET Files, NEW moreFailed \in Seq(Files),
           \/ morePaths = paths \cup {f} /\ moreFailed = failed
           \/ morePaths = paths /\ moreFailed = Append(failed, f)
    PROVE  /\ Parted(morePaths, moreFailed)'
           /\ Cardinality(morePaths) + Len(moreFailed) >= Cardinality(Files) => pending' = {}
<1>1. f \in Files /\ pending \in SUBSET Files /\ pending' \in SUBSET Files
  BY DEF UploadTypeOK
<1>2. PICK a \in Nat, b \in Nat, l \in Nat, n \in Nat :
         a = Cardinality(pending) /\ b = Cardinality(paths) /\ l = Len(failed) /\ n = Cardinality(Files)
  BY <1>1, SendingFew
<1>3. /\ IsFiniteSet(pending) /\ IsFiniteSet(paths) /\ a + b + l = n /\ f \notin paths
      /\ pending \cup paths \cup ToSet(failed) = Files
      /\ pending \cap paths = {} /\ pending \cap ToSet(failed) = {} /\ paths \cap ToSet(failed) = {}
  BY <1>1, <1>2, SendingFew DEF Parted
<1>4. Cardinality(pending') = a - 1 /\ Cardinality(pending') \in Nat
  BY <1>1, <1>2, <1>3, SendingFew, FS_RemoveElement
<1>5. Cardinality(morePaths) + Len(moreFailed) = b + l + 1 /\ Cardinality(morePaths) \in Nat /\ Len(moreFailed) \in Nat
  <2>1. CASE morePaths = paths \cup {f} /\ moreFailed = failed
    <3>1. Cardinality(morePaths) = b + 1
      BY <1>2, <1>3, <2>1, FS_AddElement
    <3> QED
      BY <1>2, <2>1, <3>1
  <2>2. CASE morePaths = paths /\ moreFailed = Append(failed, f)
    <3>1. Len(moreFailed) = l + 1
      BY <1>1, <1>2, <2>2, ToSetAppend
    <3> QED
      BY <1>2, <2>2, <3>1
  <2> QED
    BY <2>1, <2>2
<1>6. /\ pending' \cup morePaths \cup ToSet(moreFailed) = Files
      /\ pending' \cap morePaths = {} /\ pending' \cap ToSet(moreFailed) = {}
      /\ morePaths \cap ToSet(moreFailed) = {}
  <2>1. CASE morePaths = paths \cup {f} /\ moreFailed = failed
    BY <1>3, <2>1
  <2>2. CASE morePaths = paths /\ moreFailed = Append(failed, f)
    <3>1. ToSet(moreFailed) = ToSet(failed) \cup {f}
      BY <1>1, <2>2, ToSetAppend
    <3> QED
      BY <1>3, <2>2, <3>1
  <2> QED
    BY <2>1, <2>2
<1>9. PICK d \in Nat, e \in Nat, h \in Nat :
         d = Cardinality(pending') /\ e = Cardinality(morePaths) /\ h = Len(moreFailed)
  BY <1>4, <1>5
<1>10. d = a - 1 /\ e + h = b + l + 1 /\ d + e + h = n
  BY <1>3, <1>4, <1>5, <1>9
<1>7. Parted(morePaths, moreFailed)'
  BY <1>2, <1>6, <1>9, <1>10 DEF Parted
<1>8. Cardinality(morePaths) + Len(moreFailed) >= Cardinality(Files) => pending' = {}
  <2>1. Cardinality(morePaths) + Len(moreFailed) >= Cardinality(Files) => Cardinality(pending') = 0
    <3>1. e + h >= n => d = 0
      BY <1>10
    <3> QED
      BY <1>2, <1>9, <3>1
  <2> QED
    BY <1>1, <2>1, SendingFew, FS_EmptySet
<1> QED
  BY <1>7, <1>8

-----------------------------------------------------------------------------
(* ClientUploads: every step keeps the invariant *)

\* A task runs only once the selection was sent.
LEMMA UnderWay ==
    ASSUME Accounted, NEW f \in Files, pc[f] # "idle"
    PROVE  batch.phase # "before"
BY DEF Accounted, NotYet

\* What leaves the batch alone leaves it accounted for.
LEMMA BatchKept ==
    ASSUME Accounted, batch.phase # "before", batch' = batch, pending' = pending, pasted' = pasted
    PROVE  Accounted'
BY DEF Accounted, Parted

\* A step of a task that sends nothing.
LEMMA QuietKeeps ==
    ASSUME UploadInv, NEW f \in Files, pc[f] # "idle", NEW next, pc' = [pc EXCEPT ![f] = next],
           next \in {"read", "check", "full", "await", "chunk", "finish", "cancel", "done"},
           sent' = sent, queue' = queue, queued' = queued, got' = got, answers' = answers,
           pending' = pending, batch' = batch, pasted' = pasted,
           next = "chunk" => queued < Window
    PROVE  UploadInv'
<1>1. UploadTypeOK'
  BY DEF UploadInv, UploadTypeOK
<1>2. Accounted'
  BY UnderWay, BatchKept DEF UploadInv
<1>3. RuledOn' /\ Numbered'
  BY DEF UploadInv, RuledOn, Numbered
<1>4. RoomKept'
  <2>1. CASE next = "chunk"
    BY <2>1, RoomFound DEF UploadInv
  <2>2. CASE next # "chunk"
    <3>1. Sending' \subseteq Sending
      BY <2>2 DEF Sending, UploadInv, UploadTypeOK
    <3>2. queued' \in Int /\ queued' <= queued
      BY DEF UploadInv, UploadTypeOK
    <3> QED
      BY <3>1, <3>2, RoomOf DEF UploadInv
  <2> QED
    BY <2>1, <2>2
<1> QED
  BY <1>1, <1>2, <1>3, <1>4 DEF UploadInv

LEMMA ReadKeeps ==
    ASSUME UploadInv, NEW f \in Files, Read(f)
    PROVE  UploadInv'
<1>1. PICK next \in {"check", "finish", "cancel"} : pc' = [pc EXCEPT ![f] = next]
  BY DEF Read
<1> QED
  BY <1>1, QuietKeeps DEF Read, link, remote, frontend

LEMMA CheckRoomKeeps ==
    ASSUME UploadInv, NEW f \in Files, CheckRoom(f)
    PROVE  UploadInv'
<1>1. PICK next \in {"cancel", "chunk", "full"} :
         pc' = [pc EXCEPT ![f] = next] /\ (next = "chunk" => queued < Window)
  BY DEF CheckRoom
<1> QED
  BY <1>1, QuietKeeps DEF CheckRoom, link, remote, frontend

LEMMA AwaitKeeps ==
    ASSUME UploadInv, NEW f \in Files, Await(f)
    PROVE  UploadInv'
<1>1. PICK next \in {"await", "check"} : pc' = [pc EXCEPT ![f] = next] /\ pc[f] # "idle"
  BY DEF Await
<1> QED
  BY <1>1, QuietKeeps DEF Await, link, remote, frontend

\* A message that is not a chunk takes no room.
LEMMA LastWordKeeps ==
    ASSUME UploadInv, NEW f \in Files, pc[f] \in {"finish", "cancel"}, pc' = [pc EXCEPT ![f] = "done"],
           NEW word \in {"finish", "cancel"}, Send(Message(word, f)),
           sent' = sent, got' = got, answers' = answers, pending' = pending, batch' = batch, pasted' = pasted
    PROVE  UploadInv'
<1>1. PICK m \in Commands : m = Message(word, f) /\ m.kind # "chunk"
  BY DEF Message, Commands
<1>2. queue' = Append(queue, m) /\ queued' = queued
  BY <1>1 DEF Send, Units, UploadInv, UploadTypeOK
<1>3. UploadTypeOK'
  <2>1. queue' \in Seq(Commands)
    BY <1>2, QueueGrows DEF UploadInv
  <2> QED
    BY <1>2, <2>1 DEF UploadInv, UploadTypeOK
<1>4. Accounted'
  BY UnderWay, BatchKept DEF UploadInv
<1>5. RuledOn'
  BY DEF UploadInv, RuledOn
<1>6. Numbered'
  <2>1. sent' \in [Files -> Nat] /\ \A g \in Files : sent[g] <= sent'[g]
    BY DEF UploadInv, UploadTypeOK
  <2> QED
    BY <1>1, <1>2, <2>1, NumberedSend DEF UploadInv
<1>7. RoomKept'
  <2>1. Sending' \subseteq Sending
    BY DEF Sending, UploadInv, UploadTypeOK
  <2>2. queued' \in Int /\ queued' <= queued
    BY <1>2 DEF UploadInv, UploadTypeOK
  <2> QED
    BY <2>1, <2>2, RoomOf DEF UploadInv
<1> QED
  BY <1>3, <1>4, <1>5, <1>6, <1>7 DEF UploadInv

LEMMA FinishUploadKeeps ==
    ASSUME UploadInv, NEW f \in Files, FinishUpload(f)
    PROVE  UploadInv'
BY LastWordKeeps DEF FinishUpload, remote, frontend

LEMMA CancelUploadKeeps ==
    ASSUME UploadInv, NEW f \in Files, CancelUpload(f)
    PROVE  UploadInv'
BY LastWordKeeps DEF CancelUpload, remote

\* A file that is no longer than it was offered is not complete before it is sent.
LEMMA SendChunkKeeps ==
    ASSUME UploadInv, NEW f \in Files, SendChunk(f)
    PROVE  UploadInv'
<1>1. CASE pc' = [pc EXCEPT ![f] = "cancel"] /\ UNCHANGED <<sent, queue, queued>>
  BY <1>1, QuietKeeps DEF SendChunk, remote, frontend
<1>2. CASE /\ sent[f] < Lengths[f] /\ sent' = [sent EXCEPT ![f] = @ + 1]
           /\ Send(Message("chunk", f)) /\ pc' = [pc EXCEPT ![f] = "read"]
  <2>1. PICK m \in Commands : m = Message("chunk", f) /\ m.kind = "chunk" /\ m.file = f
    <3>1. Message("chunk", f) \in Commands
      BY DEF Message, Commands
    <3>2. Message("chunk", f).kind = "chunk" /\ Message("chunk", f).file = f
      BY DEF Message
    <3> QED
      BY <3>1, <3>2
  <2>2. queue' = Append(queue, m) /\ queued' = queued + 1
    BY <1>2, <2>1 DEF Send, Units
  <2>3. /\ sent' \in [Files -> Nat] /\ sent'[f] = sent[f] + 1
        /\ \A g \in Files : g # f => sent'[g] = sent[g]
    BY <1>2 DEF UploadInv, UploadTypeOK
  <2>4. \A g \in Files : sent[g] \in Nat /\ got[g] \in Nat /\ Lengths[g] \in Nat /\ got[g] <= sent[g] /\ sent[g] <= Lengths[g]
    BY UploadAssumption DEF UploadInv, UploadTypeOK, RuledOn
  <2>5. \A g \in Files : sent[g] <= sent'[g] /\ got[g] <= sent'[g] /\ sent'[g] <= Lengths[g]
    BY <1>2, <2>3, <2>4
  <2>6. /\ got' = got /\ answers' = answers /\ pending' = pending /\ batch' = batch /\ pasted' = pasted
        /\ pc[f] = "chunk"
    BY DEF SendChunk, remote, frontend
  <2>7. UploadTypeOK'
    <3>1. queue' \in Seq(Commands)
      BY <2>2, QueueGrows DEF UploadInv
    <3>2. queued' \in Int
      BY <2>2 DEF UploadInv, UploadTypeOK
    <3> QED
      BY <1>2, <2>3, <2>6, <3>1, <3>2 DEF UploadInv, UploadTypeOK
  <2>8. Accounted'
    BY <2>6, UnderWay, BatchKept DEF UploadInv
  <2>9. RuledOn'
    BY <2>5, <2>6 DEF UploadInv, RuledOn
  <2>10. Numbered'
    BY <2>1, <2>2, <2>3, <2>4, <2>5, <2>6, NumberedSend DEF UploadInv
  <2>11. RoomKept'
    <3>1. f \in Sending /\ Sending' = Sending \ {f}
      BY <1>2, <2>6 DEF Sending, UploadInv, UploadTypeOK
    <3> QED
      BY <2>2, <3>1, RoomUsed DEF UploadInv
  <2> QED
    BY <2>7, <2>8, <2>9, <2>10, <2>11 DEF UploadInv
<1> QED
  BY <1>1, <1>2 DEF SendChunk

LEMMA TaskKeeps ==
    ASSUME UploadInv, NEW f \in Files, Task(f)
    PROVE  UploadInv'
BY ReadKeeps, CheckRoomKeeps, AwaitKeeps, SendChunkKeeps, FinishUploadKeeps, CancelUploadKeeps DEF Task

\* What begins is queued for every file, and no chunk before it.
LEMMA SendLocalFilesKeeps ==
    ASSUME UploadInv, SendLocalFiles
    PROVE  UploadInv'
<1>1. /\ NotYet /\ batch \in Batches /\ batch.paths = {} /\ batch.failed = <<>> /\ queue = <<>>
      /\ \A f \in Files : pc[f] = "idle"
  BY DEF SendLocalFiles, UploadInv, UploadTypeOK, Accounted, NotYet
<1>2. PICK n \in Nat : n = Cardinality(Files) /\ Files = 1..n /\ IsFiniteSet(Files)
  BY UploadAssumption, FS_CardinalityType
<1>3. /\ queue' \in Seq(Commands)
      /\ \A k \in 1..Len(queue') : queue'[k].kind = "begin"
  <2>1. PICK begins : begins = [f \in Files |-> Message("begin", f)]
    OBVIOUS
  <2>2. \A f \in Files : begins[f] \in Commands /\ begins[f].kind = "begin"
    BY <2>1 DEF Message, Commands
  <2>3. begins \in Seq(Commands) /\ Len(begins) = n
    <3>1. begins \in [1..n -> Commands]
      BY <1>2, <2>1, <2>2
    <3> QED
      BY <1>2, <3>1
  <2>4. queue' = begins
    BY <1>1, <2>1, <2>3 DEF SendLocalFiles
  <2> QED
    BY <1>2, <2>2, <2>3, <2>4
<1>4. /\ pc' = [f \in Files |-> "read"] /\ sent' = sent /\ got' = got /\ answers' = answers
      /\ queued' = queued /\ pending' = Files /\ pasted' = pasted
      /\ batch' \in Batches /\ batch'.paths = {} /\ batch'.failed = <<>> /\ batch'.phase = "open"
  <2>1. batch' = [batch EXCEPT !.phase = "open"]
    BY DEF SendLocalFiles
  <2>2. batch' \in Batches /\ batch'.paths = {} /\ batch'.failed = <<>> /\ batch'.phase = "open"
    BY <1>1, <2>1 DEF Batches
  <2> QED
    BY <2>2 DEF SendLocalFiles, remote
<1>5. UploadTypeOK'
  BY <1>3, <1>4 DEF UploadInv, UploadTypeOK
<1>6. Accounted'
  <2>1. Parted(batch.paths, batch.failed)'
    <3>1. ToSet(<<>>) = {} /\ Len(<<>>) = 0
      BY DEF ToSet
    <3>2. Cardinality({}) = 0
      BY FS_EmptySet
    <3> QED
      BY <1>2, <1>4, <3>1, <3>2 DEF Parted
  <2> QED
    BY <1>4, <2>1 DEF Accounted
<1>7. RuledOn'
  BY <1>4 DEF UploadInv, RuledOn
<1>8. Numbered'
  <2>1. PICK q, len : q = queue' /\ len = Len(queue')
    OBVIOUS
  <2>2. \A k \in Nat : ~IsChunk(q, len, k)
    BY <1>3, <2>1 DEF IsChunk
  <2>3. PICK c \in [Nat -> Nat] : c = [k \in Nat |-> 0]
    OBVIOUS
  <2>4. Within(q, len, got, sent, c) /\ Rising(q, len, c)
    BY <2>2 DEF Within, Rising
  <2>5. NumberedIn(q, len, got, sent)
    BY <2>4 DEF NumberedIn
  <2> QED
    BY <1>4, <2>1, <2>5 DEF Numbered
<1>9. RoomKept'
  <2>1. Sending' \subseteq Sending
    BY <1>4 DEF Sending
  <2>2. queued' \in Int /\ queued' <= queued
    BY <1>4 DEF UploadInv, UploadTypeOK
  <2> QED
    BY <2>1, <2>2, RoomOf DEF UploadInv
<1> QED
  BY <1>5, <1>6, <1>7, <1>8, <1>9 DEF UploadInv

\* What the daemon does with a message it reads.
LEMMA RelayedOnce ==
    ASSUME UploadTypeOK, NEW m \in Commands, DaemonRelays(m) \/ UNCHANGED remote
    PROVE  /\ got' \in [Files -> Nat]
           /\ answers' \in [Files -> {"none", "refused", "interrupted", "complete", "taken", "ignored"}]
           /\ \A f \in Files : f # m.file => got'[f] = got[f] /\ answers'[f] = answers[f]
           /\ \/ got'[m.file] = got[m.file]
              \/ got'[m.file] = got[m.file] + 1 /\ m.kind = "chunk"
           /\ got'[m.file] # got[m.file] => answers[m.file] = "none" /\ answers' = answers
           /\ answers[m.file] # "none" => answers'[m.file] # "none" /\ answers' = answers
           /\ answers'[m.file] = "complete" => answers' = answers \/ got'[m.file] = Lengths[m.file]
<1>1. PICK f \in Files : f = m.file
  BY DEF Commands
<1>2. /\ got \in [Files -> Nat]
      /\ answers \in [Files -> {"none", "refused", "interrupted", "complete", "taken", "ignored"}]
  BY DEF UploadTypeOK
<1>3. CASE UNCHANGED remote
  BY <1>1, <1>2, <1>3 DEF remote
<1>4. CASE answers[f] = "none" /\ m.kind = "chunk" /\ got' = [got EXCEPT ![f] = @ + 1] /\ UNCHANGED answers
  BY <1>1, <1>2, <1>4
<1>5. CASE /\ answers[f] = "none" /\ got' = got
           /\ \E word \in {"refused", "interrupted", "complete", "taken"} :
                 answers' = [answers EXCEPT ![f] = word] /\ (word = "complete" => got[f] = Lengths[f])
  BY <1>1, <1>2, <1>5
<1> QED
  BY <1>1, <1>3, <1>4, <1>5 DEF DaemonRelays

\* The sending task takes one message, and its room is free.
LEMMA WriteCommandKeeps ==
    ASSUME UploadInv, WriteCommand
    PROVE  UploadInv'
<1>1. /\ queue # <<>> /\ queue' = Tail(queue) /\ sent' = sent /\ pc' = pc
      /\ pending' = pending /\ batch' = batch /\ pasted' = pasted
      /\ queued' = queued - Units(Head(queue))
      /\ DaemonRelays(Head(queue)) \/ UNCHANGED remote
  BY DEF WriteCommand, frontend
<1>2. UploadTypeOK /\ Numbered
  BY DEF UploadInv
<1>3. PICK m \in Commands : m = Head(queue)
  BY <1>1, <1>2, QueueShrinks
<1>4. /\ got' \in [Files -> Nat]
      /\ answers' \in [Files -> {"none", "refused", "interrupted", "complete", "taken", "ignored"}]
      /\ \A f \in Files : f # m.file => got'[f] = got[f] /\ answers'[f] = answers[f]
      /\ \/ got'[m.file] = got[m.file]
         \/ got'[m.file] = got[m.file] + 1 /\ m.kind = "chunk"
      /\ got'[m.file] # got[m.file] => answers[m.file] = "none" /\ answers' = answers
      /\ answers[m.file] # "none" => answers'[m.file] # "none" /\ answers' = answers
      /\ answers'[m.file] = "complete" => answers' = answers \/ got'[m.file] = Lengths[m.file]
  BY <1>1, <1>2, <1>3, RelayedOnce
<1>5. Numbered' /\ \A f \in Files : got[f] <= sent[f] => got'[f] <= sent[f]
  BY <1>1, <1>2, <1>3, <1>4, NumberedTake
<1>6. queued' \in Int /\ queued' <= queued
  BY <1>1, <1>2 DEF Units, UploadTypeOK
<1>7. UploadTypeOK'
  BY <1>1, <1>2, <1>4, <1>6, QueueShrinks DEF UploadTypeOK
<1>8. Accounted'
  <2>1. batch.phase # "before"
    BY <1>1 DEF UploadInv, Accounted, NotYet
  <2> QED
    BY <1>1, <2>1, BatchKept DEF UploadInv
<1>9. RuledOn'
  <2> SUFFICES ASSUME NEW f \in Files
               PROVE  /\ got'[f] <= sent[f] /\ sent[f] <= Lengths[f]
                      /\ answers'[f] = "complete" => got'[f] = Lengths[f]
                      /\ f \in batch.paths => got'[f] = Lengths[f] /\ answers'[f] # "none"
    BY <1>1 DEF RuledOn
  <2>1. /\ got[f] <= sent[f] /\ sent[f] <= Lengths[f]
        /\ answers[f] = "complete" => got[f] = Lengths[f]
        /\ f \in batch.paths => got[f] = Lengths[f] /\ answers[f] # "none"
    BY DEF UploadInv, RuledOn
  <2>2. CASE f # m.file
    BY <1>4, <1>5, <2>1, <2>2
  <2>3. CASE f = m.file
    BY <1>4, <1>5, <2>1, <2>3
  <2> QED
    BY <2>2, <2>3
<1>10. RoomKept'
  <2>1. Sending' \subseteq Sending
    BY <1>1 DEF Sending
  <2> QED
    BY <1>2, <1>6, <2>1, RoomOf DEF UploadInv
<1> QED
  BY <1>5, <1>7, <1>8, <1>9, <1>10 DEF UploadInv

-----------------------------------------------------------------------------
\* settle_upload_batch, for a file that waited.
LEMMA SettledRight ==
    ASSUME UploadTypeOK, Accounted, NEW f \in pending, pending' = pending \ {f}, NEW next \in Batches,
           Settle(next),
           \/ next.paths = batch.paths \cup {f} /\ next.failed = batch.failed
           \/ next.paths = batch.paths /\ next.failed = Append(batch.failed, f)
    PROVE  Accounted' /\ batch' \in Batches /\ batch'.paths = next.paths
<1>1. /\ f \in Files /\ batch \in Batches /\ batch.paths \in SUBSET Files /\ batch.failed \in Seq(Files)
      /\ next.paths \in SUBSET Files /\ next.failed \in Seq(Files)
  BY DEF UploadTypeOK, Batches
<1>2. batch.phase # "before" /\ Parted(batch.paths, batch.failed)
  BY DEF Accounted, NotYet
<1>3. PICK whole \in BOOLEAN : whole = (Cardinality(next.paths) + Len(next.failed) >= Cardinality(Files))
  <2>1. (Cardinality(next.paths) + Len(next.failed) >= Cardinality(Files)) \in BOOLEAN
    OBVIOUS
  <2> QED
    BY <2>1
<1>4. /\ batch' = [next EXCEPT !.phase = IF whole THEN "settled" ELSE "open"]
      /\ pasted' = IF whole THEN InOrder(next.paths) ELSE pasted
  BY <1>3 DEF Settle
<1>5. PICK paths \in SUBSET Files, failed \in Seq(Files) : paths = next.paths /\ failed = next.failed
  BY <1>1
<1>6. /\ Parted(paths, failed)'
      /\ whole => pending' = {}
  BY <1>1, <1>2, <1>3, <1>5, PartedOne
<1>7. /\ batch' \in Batches /\ batch'.paths = paths /\ batch'.failed = failed
      /\ batch'.phase = IF whole THEN "settled" ELSE "open"
  BY <1>4, <1>5 DEF Batches
<1>8. Parted(batch.paths, batch.failed)'
  BY <1>6, <1>7 DEF Parted
<1>9. batch'.phase = "settled" => pending' = {} /\ pasted' = InOrder(batch'.paths)
  BY <1>4, <1>5, <1>6, <1>7
<1> QED
  BY <1>5, <1>7, <1>8, <1>9 DEF Accounted

\* A step of the frontend that leaves the tasks and what was relayed alone.
LEMMA FrontKeeps ==
    ASSUME UploadInv, UNCHANGED tasks, UNCHANGED link, got' = got,
           answers' \in [Files -> {"none", "refused", "interrupted", "complete", "taken", "ignored"}],
           \A f \in Files : answers'[f] = answers[f] \/ answers'[f] \in {"taken", "ignored"},
           pending' \in SUBSET Files, batch' \in Batches, Accounted',
           \A f \in batch'.paths : f \in batch.paths \/ answers[f] = "complete",
           \A f \in batch'.paths : answers'[f] # "none"
    PROVE  UploadInv'
<1>1. UploadTypeOK'
  BY DEF UploadInv, UploadTypeOK, tasks, link
<1>2. RuledOn'
  BY DEF UploadInv, RuledOn, tasks
<1>3. Numbered'
  BY DEF UploadInv, Numbered, tasks, link
<1>4. RoomKept'
  BY DEF UploadInv, RoomKept, Sending, tasks, link
<1> QED
  BY <1>1, <1>2, <1>3, <1>4 DEF UploadInv

\* A batch nothing was done to.
LEMMA BatchStill ==
    ASSUME Accounted, UNCHANGED tasks, UNCHANGED link, batch' = batch, pending' = pending, pasted' = pasted
    PROVE  Accounted'
<1>1. NotYet => NotYet'
  BY DEF NotYet, tasks, link
<1> QED
  BY <1>1 DEF Accounted, Parted

\* fail_upload: the first failure of a file counts, and no other.
LEMMA FailedOnce ==
    ASSUME UploadInv, NEW f \in Files, FailUpload(f), UNCHANGED tasks, UNCHANGED link
    PROVE  /\ Accounted' /\ pending' \in SUBSET Files /\ batch' \in Batches
           /\ batch'.paths = batch.paths
<1>1. UploadTypeOK /\ Accounted /\ batch \in Batches
  BY DEF UploadInv, UploadTypeOK
<1>2. pending' = pending \ {f} /\ pending' \in SUBSET Files
  BY <1>1 DEF FailUpload, UploadTypeOK
<1>3. CASE f \in pending
  <2>1. PICK next : next = [batch EXCEPT !.failed = Append(@, f)]
    OBVIOUS
  <2>2. /\ batch.failed \in Seq(Files) /\ Append(batch.failed, f) \in Seq(Files)
    BY <1>1 DEF Batches
  <2>3. /\ next \in Batches /\ next.paths = batch.paths /\ next.failed = Append(batch.failed, f)
    BY <1>1, <2>1, <2>2 DEF Batches
  <2>4. Settle(next)
    BY <1>3, <2>1 DEF FailUpload
  <2> QED
    BY <1>1, <1>2, <1>3, <2>3, <2>4, SettledRight
<1>4. CASE f \notin pending
  <2>1. batch' = batch /\ pasted' = pasted /\ pending' = pending
    BY <1>2, <1>4 DEF FailUpload
  <2> QED
    BY <1>1, <1>2, <2>1, BatchStill
<1> QED
  BY <1>3, <1>4

LEMMA UploadFailedKeeps ==
    ASSUME UploadInv, NEW f \in Files, UploadFailed(f)
    PROVE  UploadInv'
<1>1. /\ FailUpload(f) /\ UNCHANGED tasks /\ UNCHANGED link /\ got' = got /\ answers' = answers
  BY DEF UploadFailed, remote
<1>2. \A g \in batch.paths : answers[g] # "none" /\ g \in Files
  BY DEF UploadInv, RuledOn, UploadTypeOK, Batches
<1>3. answers \in [Files -> {"none", "refused", "interrupted", "complete", "taken", "ignored"}]
  BY DEF UploadInv, UploadTypeOK
<1>4. Accounted' /\ pending' \in SUBSET Files /\ batch' \in Batches /\ batch'.paths = batch.paths
  BY <1>1, FailedOnce
<1> QED
  BY <1>1, <1>2, <1>3, <1>4, FrontKeeps

LEMMA AnsweredKeeps ==
    ASSUME UploadInv, NEW f \in Files, Answered(f)
    PROVE  UploadInv'
<1>1. /\ UNCHANGED tasks /\ UNCHANGED link /\ got' = got
      /\ answers' = [answers EXCEPT ![f] = IF @ = "interrupted" THEN "ignored" ELSE "taken"]
  BY DEF Answered
<1>2. \A g \in batch.paths : answers[g] # "none" /\ g \in Files
  BY DEF UploadInv, RuledOn, UploadTypeOK, Batches
<1>3. /\ answers' \in [Files -> {"none", "refused", "interrupted", "complete", "taken", "ignored"}]
      /\ \A g \in Files : g # f => answers'[g] = answers[g]
      /\ answers'[f] \in {"taken", "ignored"}
  BY <1>1 DEF UploadInv, UploadTypeOK
<1>4. /\ \A g \in Files : answers'[g] = answers[g] \/ answers'[g] \in {"taken", "ignored"}
      /\ \A g \in batch.paths \cup {f} : answers'[g] # "none"
  BY <1>2, <1>3
<1>5. UploadTypeOK /\ Accounted /\ batch \in Batches /\ pending \in SUBSET Files
  BY DEF UploadInv, UploadTypeOK
<1>6. CASE answers[f] = "refused" /\ FailUpload(f)
  <2>1. Accounted' /\ pending' \in SUBSET Files /\ batch' \in Batches /\ batch'.paths = batch.paths
    BY <1>1, <1>6, FailedOnce
  <2> QED
    BY <1>1, <1>3, <1>4, <2>1, FrontKeeps
<1>7. CASE /\ answers[f] = "complete" /\ f \in pending /\ pending' = pending \ {f}
           /\ Settle([batch EXCEPT !.paths = @ \cup {f}])
  <2>1. PICK next : next = [batch EXCEPT !.paths = @ \cup {f}]
    OBVIOUS
  <2>2. next \in Batches /\ next.paths = batch.paths \cup {f} /\ next.failed = batch.failed
    BY <1>5, <2>1 DEF Batches
  <2>3. Settle(next)
    BY <1>7, <2>1
  <2>4. Accounted' /\ batch' \in Batches /\ batch'.paths = batch.paths \cup {f}
    BY <1>5, <1>7, <2>2, <2>3, SettledRight
  <2>5. pending' \in SUBSET Files
    BY <1>5, <1>7
  <2>6. \A g \in batch'.paths : (g \in batch.paths \/ answers[g] = "complete") /\ answers'[g] # "none"
    BY <1>4, <1>7, <2>4
  <2> QED
    BY <1>1, <1>3, <1>4, <2>4, <2>5, <2>6, FrontKeeps
<1>8. CASE UNCHANGED <<pending, batch, pasted>>
  <2>1. Accounted'
    BY <1>1, <1>5, <1>8, BatchStill
  <2> QED
    BY <1>1, <1>3, <1>4, <1>5, <1>8, <2>1, FrontKeeps
<1> QED
  BY <1>6, <1>7, <1>8 DEF Answered

-----------------------------------------------------------------------------
LEMMA UploadInvInit ==
    ASSUME UploadInit
    PROVE  UploadInv
<1>1. UploadTypeOK
  <2>1. batch \in Batches
    <3>1. <<>> \in Seq(Files) /\ {} \in SUBSET Files
      OBVIOUS
    <3> QED
      BY <3>1 DEF UploadInit, Batches
  <2>2. queue \in Seq(Commands)
    BY DEF UploadInit
  <2> QED
    BY <2>1, <2>2 DEF UploadInit, UploadTypeOK
<1>2. batch.phase = "before" /\ batch.paths = {} /\ batch.failed = <<>>
  BY DEF UploadInit
<1>3. Accounted
  BY <1>2 DEF UploadInit, Accounted, NotYet
<1>4. RuledOn
  <2>1. \A f \in Files : Lengths[f] \in Nat
    BY UploadAssumption
  <2> QED
    BY <1>2, <2>1 DEF UploadInit, RuledOn
<1>5. Numbered
  <2>1. Len(queue) = 0
    BY DEF UploadInit
  <2>2. PICK c \in [Nat -> Nat] : c = [k \in Nat |-> 0]
    OBVIOUS
  <2>3. \A k \in Nat : ~IsChunk(queue, 0, k)
    BY DEF IsChunk
  <2>4. Within(queue, 0, got, sent, c) /\ Rising(queue, 0, c)
    BY <2>3 DEF Within, Rising
  <2> QED
    BY <2>1, <2>4 DEF Numbered, NumberedIn
<1>6. RoomKept
  <2>1. Sending = {}
    BY DEF UploadInit, Sending
  <2>2. Cardinality(Sending) = 0
    BY <2>1, FS_EmptySet
  <2>3. PICK n \in Nat, w \in Nat : n = Cardinality(Files) /\ w = Window /\ w > 0
    BY UploadAssumption, FS_CardinalityType
  <2> QED
    BY <2>2, <2>3 DEF UploadInit, RoomKept
<1> QED
  BY <1>1, <1>3, <1>4, <1>5, <1>6 DEF UploadInv

LEMMA UploadInvNext ==
    ASSUME UploadInv, [UploadNext]_uploadVars
    PROVE  UploadInv'
<1>1. CASE SendLocalFiles
  BY <1>1, SendLocalFilesKeeps
<1>2. CASE WriteCommand
  BY <1>2, WriteCommandKeeps
<1>3. ASSUME NEW f \in Files, Task(f) \/ UploadFailed(f) \/ Answered(f)
      PROVE  UploadInv'
  BY <1>3, TaskKeeps, UploadFailedKeeps, AnsweredKeeps
<1>4. CASE UNCHANGED uploadVars
  <2>1. /\ UNCHANGED tasks /\ UNCHANGED link /\ got' = got /\ answers' = answers
        /\ pending' = pending /\ batch' = batch /\ pasted' = pasted
    BY <1>4 DEF uploadVars, remote, frontend
  <2>2. Accounted'
    BY <2>1, BatchStill DEF UploadInv
  <2>3. \A g \in batch.paths : answers[g] # "none"
    BY DEF UploadInv, RuledOn, UploadTypeOK, Batches
  <2> QED
    BY <2>1, <2>2, <2>3, FrontKeeps DEF UploadInv, UploadTypeOK
<1> QED
  BY <1>1, <1>2, <1>3, <1>4 DEF UploadNext

LEMMA UploadInvEnough ==
    ASSUME UploadInv
    PROVE  PastedIsVerified
<1>1. batch \in Batches /\ batch.paths \in SUBSET Files
  BY DEF UploadInv, UploadTypeOK, Batches
<1>2. ToSet(batch.failed) \cap batch.paths = {}
  <2>1. CASE batch.phase = "before"
    BY <2>1 DEF UploadInv, Accounted, NotYet
  <2>2. CASE batch.phase # "before"
    BY <2>2 DEF UploadInv, Accounted, Parted
  <2> QED
    BY <2>1, <2>2
<1>3. \A f \in batch.paths : got[f] = Lengths[f] /\ sent[f] = Lengths[f]
  <2> SUFFICES ASSUME NEW f \in batch.paths PROVE got[f] = Lengths[f] /\ sent[f] = Lengths[f]
    OBVIOUS
  <2>1. f \in Files /\ got[f] <= sent[f] /\ sent[f] <= Lengths[f] /\ got[f] = Lengths[f]
    BY <1>1 DEF UploadInv, RuledOn
  <2>2. got[f] \in Nat /\ sent[f] \in Nat
    BY <2>1 DEF UploadInv, UploadTypeOK
  <2> QED
    BY <2>1, <2>2
<1>4. batch.phase = "settled" =>
         batch.paths \cup ToSet(batch.failed) = Files /\ pasted = InOrder(batch.paths)
  BY DEF UploadInv, Accounted, Parted
<1>5. PathsAreVerified
  BY <1>2, <1>3, <1>4 DEF PathsAreVerified
<1>6. WindowHolds
  <2>1. Sending \in SUBSET Files
    BY DEF Sending
  <2>2. PICK a \in Nat, n \in Nat : a = Cardinality(Sending) /\ n = Cardinality(Files)
    BY <2>1, SendingFew
  <2>3. PICK x \in Int, w \in Nat : x = queued /\ w = Window
    BY UploadAssumption DEF UploadInv, UploadTypeOK
  <2>4. x + a <= w + n - 1
    BY <2>2, <2>3 DEF UploadInv, RoomKept
  <2> QED
    BY <2>2, <2>3, <2>4 DEF WindowHolds
<1> QED
  BY <1>5, <1>6 DEF PastedIsVerified

\* However the tasks of a selection share the window, whichever of them stops and whatever the
\* daemon refuses, interrupts or loses, the batch pastes the paths of the files that were verified
\* whole, in the order they were selected, and what waits in memory stays within the window and a
\* chunk for each other task (stream_file_upload, UploadWindow, settle_upload_batch).
THEOREM PastedAlwaysVerified == UploadSpec => []PastedIsVerified
<1>1. UploadInit => UploadInv
  BY UploadInvInit
<1>2. UploadInv /\ [UploadNext]_uploadVars => UploadInv'
  BY UploadInvNext
<1>3. UploadInv => PastedIsVerified
  BY UploadInvEnough
<1> QED
  BY <1>1, <1>2, <1>3, PTL DEF UploadSpec
=============================================================================
