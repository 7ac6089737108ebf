-------------------------- MODULE DownloadsProofs --------------------------
(***************************************************************************)
(* Theorems about Downloads.tla and its two clients.  Driven by the        *)
(* terminal frontend of FileSave.tla, the daemon's table of downloads and  *)
(* the tasks that run agree whatever order requests, endings,              *)
(* cancellations and the end of the connection are handled in.  Driven by  *)
(* the page of PageFetch.tla, only a whole file whose digest was the one   *)
(* its host attested is ever offered to be saved.                          *)
(***************************************************************************)
EXTENDS FileSave, PageFetch, TLAPS

-----------------------------------------------------------------------------
(* The inductive invariant *)

Command ==
    [type : {"begin"}, request : Request, kind : {"read", "copy"}]
      \cup [type : {"pull"}, request : Request, chunks : 1..MaxGrant]
      \cup [type : {"cancel"}, request : Request]

Answer ==
    [type : {"offer"}, request : Request, length : 0..MaxLength, good : BOOLEAN]
      \cup [type : {"chunk", "finished"}, request : Request]
      \cup [type : {"complete"}, request : Request, good : BOOLEAN]
      \cup [type : {"error"}, request : Request \cup {None}]

\* A begin of r is on its way to the loop.
Waits(r) == \E i \in 1..Len(asked) : asked[i].type = "begin" /\ asked[i].request = r

\* ... and every such request is asked for once.
Once ==
    \A i, j \in 1..Len(asked) :
        /\ asked[i].type = "begin" /\ asked[j].type = "begin"
        /\ asked[i].request = asked[j].request
        => i = j

\* The daemon has not heard of r.
Unheard(r) == r \notin downloads /\ r \notin ended /\ task[r] = None

\* What the table, the tasks and the queue of endings say of one request.
Agrees(r) ==
    /\ r \in ended => task[r] = None
    /\ r \in downloads => task[r] # None \/ r \in ended
    /\ task[r] # None => (task[r].stopped <=> r \notin downloads)
    /\ Waits(r) \/ r > issued => Unheard(r)
    /\ r > issued => ~Waits(r)

LoopTypeOK ==
    /\ issued \in 0..MaxRequests
    /\ asked \in Seq(Command)
    /\ downloads \subseteq Request /\ ended \subseteq Request
    /\ task \in [Request -> Task \cup {None}]

LoopInv == LoopTypeOK /\ Once /\ \A r \in Request : Agrees(r)

\* The frontend names requests it made.
AsksAsItself ==
    /\ saveRequest \in Request \cup {None}
    /\ save # None => save.request \in Request

DownloadInv == LoopInv /\ outbox \in Seq(Answer) /\ AsksAsItself

-----------------------------------------------------------------------------
(* The queue of commands *)

LEMMA HeadAndTail ==
    ASSUME NEW S, NEW s \in Seq(S), s # <<>>
    PROVE  Head(s) \in S /\ Tail(s) \in Seq(S)
OBVIOUS

\* A command is taken.
LEMMA Taken ==
    ASSUME LoopTypeOK, Once, asked # <<>>, asked' = Tail(asked)
    PROVE  /\ asked' \in Seq(Command) /\ Once' /\ Head(asked) \in Command
           /\ \A r : Waits(r)' => Waits(r)
           /\ \A r : Head(asked).type = "begin" /\ Head(asked).request = r =>
                 Waits(r) /\ ~Waits(r)'
<1>1. /\ asked \in Seq(Command) /\ Len(asked) \in Nat \ {0} /\ Head(asked) = asked[1]
      /\ 1 \in 1..Len(asked) /\ Head(asked) \in Command
  BY DEF LoopTypeOK
<1>2. /\ asked' \in Seq(Command) /\ Len(asked') = Len(asked) - 1
      /\ \A i \in 1..Len(asked') : asked'[i] = asked[i + 1] /\ i + 1 \in 1..Len(asked)
  BY <1>1
<1>3. Once'
  BY <1>1, <1>2 DEF Once
<1>4. \A r : Waits(r)' => Waits(r)
  BY <1>1, <1>2 DEF Waits
<1>5. ASSUME NEW r, Head(asked).type = "begin", Head(asked).request = r
      PROVE  Waits(r) /\ ~Waits(r)'
  <2>1. Waits(r)
    BY <1>1, <1>5 DEF Waits
  <2>2. ASSUME NEW i \in 1..Len(asked'), asked'[i].type = "begin",
               asked'[i].request = r
        PROVE  FALSE
    <3>1. i + 1 \in 1..Len(asked) /\ i + 1 # 1 /\ asked[i + 1] = asked'[i]
      BY <1>1, <1>2, <2>2
    <3> QED
      BY <1>1, <1>5, <2>2, <3>1 DEF Once
  <2> QED
    BY <1>1, <2>1, <2>2 DEF Waits
<1> QED
  BY <1>1, <1>2, <1>3, <1>4, <1>5

\* A command is sent: of a begin it is the first.
LEMMA Sent ==
    ASSUME LoopTypeOK, Once, NEW m \in Command, Ask(m),
           m.type = "begin" => ~Waits(m.request)
    PROVE  /\ asked' \in Seq(Command) /\ Once'
           /\ \A r : Waits(r)' <=> Waits(r) \/ (m.type = "begin" /\ m.request = r)
<1>1. asked \in Seq(Command) /\ Len(asked) \in Nat /\ asked' = Append(asked, m)
  BY DEF LoopTypeOK, Ask
<1>2. /\ asked' \in Seq(Command) /\ Len(asked') = Len(asked) + 1
      /\ asked'[Len(asked) + 1] = m
      /\ \A i \in 1..Len(asked) : asked'[i] = asked[i]
  BY <1>1
<1>3. \A i \in 1..Len(asked') : i \in 1..Len(asked) \/ i = Len(asked) + 1
  BY <1>1, <1>2
<1>4. Once'
  BY <1>1, <1>2, <1>3 DEF Once, Waits
<1>5. \A r : Waits(r)' <=> Waits(r) \/ (m.type = "begin" /\ m.request = r)
  BY <1>1, <1>2, <1>3 DEF Waits
<1> QED
  BY <1>2, <1>4, <1>5

-----------------------------------------------------------------------------
(* The event loop *)

LEMMA BeginStep ==
    ASSUME LoopInv, TakeBegin
    PROVE  LoopInv'
<1> DEFINE new == Spawned(Head(asked).kind)
<1> PICK r : r = Head(asked).request
  OBVIOUS
<1>1. /\ asked # <<>> /\ Head(asked).type = "begin" /\ asked' = Tail(asked)
      /\ issued' = issued /\ ended' = ended
      /\ \/ UNCHANGED <<downloads, task>>
         \/ /\ r \notin downloads /\ downloads' = downloads \cup {r}
            /\ task' = [task EXCEPT ![r] = new]
  BY DEF TakeBegin
<1>2. /\ asked' \in Seq(Command) /\ Once' /\ Head(asked) \in Command
      /\ \A u : Waits(u)' => Waits(u)
      /\ Waits(r) /\ ~Waits(r)'
  BY <1>1, Taken DEF LoopInv
<1>3. r \in Request /\ Head(asked).kind \in {"read", "copy"}
  BY <1>1, <1>2 DEF Command
<1>4. new \in Task /\ new # None /\ ~new.stopped
  <2>1. new \in Task
    BY <1>3, BoundsAssumption DEF Spawned, Task
  <2> QED
    BY <2>1, NoneAssumption DEF Spawned
<1> HIDE DEF new
<1>5. CASE UNCHANGED <<downloads, task>>
  BY <1>1, <1>2, <1>5 DEF LoopInv, LoopTypeOK, Agrees, Unheard
<1>6. CASE downloads' = downloads \cup {r} /\ task' = [task EXCEPT ![r] = new]
  <2>1. LoopTypeOK'
    BY <1>1, <1>2, <1>3, <1>4, <1>6 DEF LoopInv, LoopTypeOK
  <2>2. task'[r] = new /\ \A u \in Request : u # r => task'[u] = task[u]
    BY <1>3, <1>6 DEF LoopInv, LoopTypeOK
  <2>3. Agrees(r)'
    BY <1>1, <1>2, <1>3, <1>4, <1>6, <2>2 DEF LoopInv, Agrees, Unheard
  <2>4. \A u \in Request : u # r => Agrees(u)'
    BY <1>1, <1>2, <1>6, <2>2 DEF LoopInv, Agrees, Unheard
  <2> QED
    BY <1>2, <2>1, <2>3, <2>4 DEF LoopInv
<1> QED
  BY <1>1, <1>5, <1>6

\* A task goes on as it was, stopped or not.
LEMMA TaskGoesOn ==
    ASSUME LoopInv, NEW r \in Request, task[r] # None, NEW new \in Task,
           new.stopped = task[r].stopped, task' = [task EXCEPT ![r] = new],
           UNCHANGED <<issued, downloads, ended>>,
           asked' \in Seq(Command), Once', \A u : Waits(u)' => Waits(u)
    PROVE  LoopInv'
<1>1. new # None
  BY NoneAssumption
<1>2. task'[r] = new /\ \A u \in Request : u # r => task'[u] = task[u]
  BY DEF LoopInv, LoopTypeOK
<1>3. LoopTypeOK'
  BY DEF LoopInv, LoopTypeOK
<1>4. Agrees(r)'
  BY <1>1, <1>2 DEF LoopInv, Agrees, Unheard
<1>5. \A u \in Request : u # r => Agrees(u)'
  BY <1>2 DEF LoopInv, Agrees, Unheard
<1> QED
  BY <1>3, <1>4, <1>5 DEF LoopInv

LEMMA PullStep ==
    ASSUME LoopInv, TakePull
    PROVE  LoopInv'
<1> PICK r : r = Head(asked).request
  OBVIOUS
<1> DEFINE new == [task[r] EXCEPT !.grants = Append(@, Head(asked).chunks)]
<1>1. /\ asked # <<>> /\ Head(asked).type = "pull" /\ asked' = Tail(asked)
      /\ UNCHANGED <<issued, downloads, ended>>
      /\ \/ task' = task
         \/ task[r] # None /\ task' = [task EXCEPT ![r] = new]
  BY DEF TakePull
<1>2. /\ asked' \in Seq(Command) /\ Once' /\ Head(asked) \in Command
      /\ \A u : Waits(u)' => Waits(u)
  BY <1>1, Taken DEF LoopInv
<1>3. r \in Request /\ Head(asked).chunks \in 1..MaxGrant
  BY <1>1, <1>2 DEF Command
<1>4. CASE task' = task
  BY <1>1, <1>2, <1>4 DEF LoopInv, LoopTypeOK, Agrees, Unheard
<1>5. CASE task[r] # None /\ task' = [task EXCEPT ![r] = new]
  <2>1. task[r] \in Task
    BY <1>3, <1>5 DEF LoopInv, LoopTypeOK
  <2>2. new \in Task /\ new.stopped = task[r].stopped
    <3>1. task[r].grants \in Seq(1..MaxGrant)
      BY <2>1 DEF Task
    <3>2. Append(task[r].grants, Head(asked).chunks) \in Seq(1..MaxGrant)
      BY <1>3, <3>1
    <3> QED
      BY <2>1, <3>2 DEF Task
  <2> HIDE DEF new
  <2> QED
    BY <1>1, <1>2, <1>3, <1>5, <2>2, TaskGoesOn
<1> QED
  BY <1>1, <1>4, <1>5

\* Download::stop: whatever is stopped leaves the table.
LEMMA StopStep ==
    ASSUME LoopInv, NEW R \in SUBSET downloads, Stop(R), UNCHANGED <<issued, ended>>,
           asked' \in Seq(Command), Once', \A u : Waits(u)' => Waits(u)
    PROVE  LoopInv'
<1>1. ASSUME NEW r \in Request, task[r] # None
      PROVE  /\ [task[r] EXCEPT !.stopped = TRUE] \in Task
             /\ [task[r] EXCEPT !.stopped = TRUE] # None
             /\ [task[r] EXCEPT !.stopped = TRUE].stopped
  <2>1. task[r] \in Task
    BY <1>1 DEF LoopInv, LoopTypeOK
  <2>2. [task[r] EXCEPT !.stopped = TRUE] \in Task /\ [task[r] EXCEPT !.stopped = TRUE].stopped
    BY <2>1 DEF Task
  <2> QED
    BY <2>2, NoneAssumption
<1>2. /\ downloads' = downloads \ R
      /\ task' = [r \in Request |-> IF r \in R /\ task[r] # None
                                    THEN [task[r] EXCEPT !.stopped = TRUE] ELSE task[r]]
  BY DEF Stop
<1>3. LoopTypeOK'
  BY <1>1, <1>2 DEF LoopInv, LoopTypeOK
<1>4. ASSUME NEW r \in Request PROVE Agrees(r)'
  <2>1. CASE r \in R
    BY <1>1, <1>2, <2>1 DEF LoopInv, Agrees, Unheard
  <2>2. CASE r \notin R
    BY <1>2, <2>2 DEF LoopInv, Agrees, Unheard
  <2> QED
    BY <2>1, <2>2
<1> QED
  BY <1>3, <1>4 DEF LoopInv

LEMMA CancelStep ==
    ASSUME LoopInv, TakeCancel
    PROVE  LoopInv'
<1>1. /\ asked # <<>> /\ asked' = Tail(asked) /\ UNCHANGED <<issued, ended>>
      /\ Stop({Head(asked).request} \cap downloads)
  BY DEF TakeCancel
<1> QED
  BY <1>1, Taken, StopStep DEF LoopInv

LEMMA EndedStep ==
    ASSUME LoopInv, NEW r \in Request, TakeEnded(r)
    PROVE  LoopInv'
<1>1. /\ r \in ended /\ ended' = ended \ {r} /\ downloads' = downloads \ {r}
      /\ UNCHANGED <<issued, asked, task>>
  BY DEF TakeEnded
<1> QED
  BY <1>1 DEF LoopInv, LoopTypeOK, Once, Agrees, Unheard, Waits

LEMMA GoneStep ==
    ASSUME LoopInv, Disconnected
    PROVE  LoopInv'
<1>1. asked' = <<>> /\ Stop(downloads) /\ UNCHANGED <<issued, ended>>
  BY DEF Disconnected
<1>2. asked' \in Seq(Command) /\ Once' /\ \A u : ~Waits(u)'
  BY <1>1 DEF Once, Waits
<1> QED
  BY <1>1, <1>2, StopStep

-----------------------------------------------------------------------------
(* A task *)

LEMMA ReturnStep ==
    ASSUME LoopInv, NEW r \in Request, task[r] # None, Returns(r),
           UNCHANGED <<issued, asked, downloads>>
    PROVE  LoopInv'
<1>1. task' = [task EXCEPT ![r] = None] /\ ended' = ended \cup {r}
  BY DEF Returns
<1>2. task'[r] = None /\ \A u \in Request : u # r => task'[u] = task[u]
  BY <1>1 DEF LoopInv, LoopTypeOK
<1>3. LoopTypeOK' /\ Once'
  BY <1>1 DEF LoopInv, LoopTypeOK, Once
<1>4. ~Waits(r) /\ ~(r > issued)
  BY DEF LoopInv, Agrees, Unheard
<1>5. \A u : Waits(u)' <=> Waits(u)
  BY DEF Waits
<1>6. Agrees(r)'
  BY <1>1, <1>2, <1>4, <1>5 DEF Agrees
<1>7. \A u \in Request : u # r => Agrees(u)'
  BY <1>1, <1>2, <1>5 DEF LoopInv, Agrees, Unheard
<1> QED
  BY <1>3, <1>6, <1>7 DEF LoopInv

LEMMA DroppedStep ==
    ASSUME LoopInv, NEW r \in Request, Dropped(r)
    PROVE  LoopInv'
<1>1. /\ task[r] # None /\ task[r].stopped /\ task' = [task EXCEPT ![r] = None]
      /\ UNCHANGED <<issued, asked, downloads, ended>>
  BY DEF Dropped
<1>2. task'[r] = None /\ \A u \in Request : u # r => task'[u] = task[u]
  BY <1>1 DEF LoopInv, LoopTypeOK
<1>3. LoopTypeOK' /\ Once'
  BY <1>1 DEF LoopInv, LoopTypeOK, Once
<1>4. \A u : Waits(u)' <=> Waits(u)
  BY <1>1 DEF Waits
<1>5. Agrees(r)'
  BY <1>1, <1>2, <1>4 DEF LoopInv, Agrees, Unheard
<1>6. \A u \in Request : u # r => Agrees(u)'
  BY <1>1, <1>2, <1>4 DEF LoopInv, Agrees, Unheard
<1> QED
  BY <1>3, <1>5, <1>6 DEF LoopInv

LEMMA TaskStepKeeps ==
    ASSUME LoopInv, NEW r \in Request, TaskStep(r)
    PROVE  LoopInv'
<1>1. CASE task[r] # None /\ Returns(r) /\ UNCHANGED <<issued, asked, downloads>>
  BY <1>1, ReturnStep
<1>2. ASSUME task[r] # None, NEW new \in Task, new.stopped = task[r].stopped,
             task' = [task EXCEPT ![r] = new], UNCHANGED <<issued, asked, downloads, ended>>
      PROVE  LoopInv'
  <2>1. asked' \in Seq(Command) /\ Once' /\ \A u : Waits(u)' => Waits(u)
    BY <1>2 DEF LoopInv, LoopTypeOK, Once, Waits
  <2> QED
    BY <1>2, <2>1, TaskGoesOn
<1>3. task[r] # None => task[r] \in Task
  BY DEF LoopInv, LoopTypeOK
<1>4. CASE OpenSource(r)
  <2>1. ASSUME NEW length \in 0..MaxLength, NEW good \in BOOLEAN,
               task' = [task EXCEPT ![r].phase = "moving", ![r].length = length,
                                    ![r].good = good], ended' = ended
        PROVE  LoopInv'
    <3> DEFINE new == [task[r] EXCEPT !.phase = "moving", !.length = length, !.good = good]
    <3>1. new \in Task /\ new.stopped = task[r].stopped /\ task[r] # None
      BY <1>3, <1>4 DEF OpenSource, Running, Task
    <3>2. task' = [task EXCEPT ![r] = new]
      BY <2>1 DEF LoopInv, LoopTypeOK
    <3> HIDE DEF new
    <3> QED
      BY <1>2, <1>4, <2>1, <3>1, <3>2 DEF OpenSource
  <2> QED
    BY <1>1, <1>4, <2>1 DEF OpenSource, Running
<1>5. CASE ReceiveGrant(r)
  <2> DEFINE n == Head(task[r].grants)
             new == [task[r] EXCEPT !.credit = IF n < MaxOutstanding THEN n ELSE MaxOutstanding,
                                    !.grants = Tail(@)]
  <2>1. /\ task[r] # None /\ task[r].grants # <<>>
        /\ task' = [task EXCEPT ![r].credit = IF n < MaxOutstanding THEN n ELSE MaxOutstanding,
                                ![r].grants = Tail(@)]
        /\ UNCHANGED <<issued, asked, downloads, ended>>
    BY <1>5 DEF ReceiveGrant, Running
  <2>2. task' = [task EXCEPT ![r] = new]
    BY <2>1 DEF LoopInv, LoopTypeOK
  <2>3. new \in Task /\ new.stopped = task[r].stopped
    <3>1. task[r].grants \in Seq(1..MaxGrant)
      BY <1>3, <2>1 DEF Task
    <3>2. n \in 1..MaxGrant /\ Tail(task[r].grants) \in Seq(1..MaxGrant)
      BY <2>1, <3>1, HeadAndTail
    <3>3. (IF n < MaxOutstanding THEN n ELSE MaxOutstanding) \in 0..MaxOutstanding
      BY <3>2, BoundsAssumption
    <3> QED
      BY <1>3, <2>1, <3>2, <3>3 DEF Task
  <2> HIDE DEF new
  <2> QED
    BY <1>2, <2>1, <2>2, <2>3
<1>6. CASE ReadChunk(r)
  <2>1. ASSUME task' = [task EXCEPT ![r].sent = @ + 1, ![r].credit = @ - 1], ended' = ended
        PROVE  LoopInv'
    <3> DEFINE new == [task[r] EXCEPT !.sent = @ + 1, !.credit = @ - 1]
    <3>1. task[r] # None /\ task[r].sent < task[r].length /\ task[r].credit > 0
      BY <1>6 DEF ReadChunk, Running
    <3>2. new \in Task /\ new.stopped = task[r].stopped
      <4>1. task[r].sent + 1 \in 0..MaxLength /\ task[r].credit - 1 \in 0..MaxOutstanding
        BY <1>3, <3>1, BoundsAssumption DEF Task
      <4> QED
        BY <1>3, <3>1, <4>1 DEF Task
    <3>3. task' = [task EXCEPT ![r] = new]
      BY <2>1 DEF LoopInv, LoopTypeOK
    <3> HIDE DEF new
    <3> QED
      BY <1>2, <1>6, <2>1, <3>1, <3>2, <3>3 DEF ReadChunk
  <2> QED
    BY <1>1, <1>6, <2>1 DEF ReadChunk, Running
<1>7. CASE SendFinished(r)
  BY <1>1, <1>7 DEF SendFinished, Running
<1>8. CASE CopyEnds(r)
  BY <1>1, <1>8 DEF CopyEnds, Running
<1>9. CASE Dropped(r)
  BY <1>9, DroppedStep
<1> QED
  BY <1>4, <1>5, <1>6, <1>7, <1>8, <1>9 DEF TaskStep

LEMMA DaemonKeeps ==
    ASSUME LoopInv, DaemonStep
    PROVE  LoopInv'
BY BeginStep, PullStep, CancelStep, EndedStep, TaskStepKeeps DEF DaemonStep, LoopStep

\* What the daemon tells the frontend.
LEMMA DaemonAnswers ==
    ASSUME LoopInv, outbox \in Seq(Answer), DaemonStep
    PROVE  outbox' \in Seq(Answer)
<1>1. ASSUME NEW m \in Answer, Told(m) PROVE outbox' \in Seq(Answer)
  BY <1>1 DEF Told
<1>2. CASE outbox' = outbox
  BY <1>2
<1>3. /\ Error(None) \in Answer
      /\ \A r \in Request : /\ Error(r) \in Answer /\ Chunk(r) \in Answer
                            /\ Finished(r) \in Answer /\ Complete(r, TRUE) \in Answer
      /\ \A r \in Request, length \in 0..MaxLength, good \in BOOLEAN :
            Offer(r, length, good) \in Answer
  BY DEF Error, Chunk, Finished, Complete, Offer, Answer
<1>4. asked # <<>> => Head(asked).request \in Request
  <2>1. asked # <<>> => Head(asked) \in Command
    BY HeadAndTail DEF LoopInv, LoopTypeOK
  <2> QED
    BY <2>1 DEF Command
<1>5. CASE TakeBegin
  BY <1>1, <1>2, <1>3, <1>4, <1>5 DEF TakeBegin
<1>6. CASE TakePull
  BY <1>1, <1>2, <1>3, <1>4, <1>6 DEF TakePull
<1>7. CASE TakeCancel \/ \E r \in Request : TakeEnded(r)
  BY <1>2, <1>7 DEF TakeCancel, TakeEnded
<1>8. ASSUME NEW r \in Request, TaskStep(r) PROVE outbox' \in Seq(Answer)
  <2>1. CASE OpenSource(r)
    BY <1>1, <1>2, <1>3, <2>1 DEF OpenSource
  <2>2. CASE ReceiveGrant(r) \/ Dropped(r)
    BY <1>2, <2>2 DEF ReceiveGrant, Dropped
  <2>3. CASE ReadChunk(r)
    BY <1>1, <1>3, <2>3 DEF ReadChunk
  <2>4. CASE SendFinished(r)
    BY <1>1, <1>3, <2>4 DEF SendFinished
  <2>5. CASE CopyEnds(r)
    BY <1>1, <1>3, <2>5 DEF CopyEnds
  <2> QED
    BY <1>8, <2>1, <2>2, <2>3, <2>4, <2>5 DEF TaskStep
<1> QED
  BY <1>5, <1>6, <1>7, <1>8 DEF DaemonStep, LoopStep

-----------------------------------------------------------------------------
(* The frontend *)

\* What the frontend does changes nothing but the commands under way.
LEMMA FrontendAsks ==
    ASSUME LoopInv, UNCHANGED <<downloads, task, ended>>, issued' \in 0..MaxRequests,
           issued' >= issued, asked' \in Seq(Command), Once',
           \A r \in Request : Waits(r)' => Waits(r) \/ r > issued \/ Unheard(r),
           \A r \in Request : r > issued' => ~Waits(r)'
    PROVE  LoopInv'
<1>1. LoopTypeOK'
  BY DEF LoopInv, LoopTypeOK
<1>2. issued \in Nat /\ issued' \in Nat /\ \A r \in Request : r \in Nat
  BY BoundsAssumption DEF LoopInv, LoopTypeOK, Request
<1>3. ASSUME NEW r \in Request PROVE Agrees(r)'
  BY <1>2 DEF LoopInv, Agrees, Unheard
<1> QED
  BY <1>1, <1>3 DEF LoopInv

\* A pull or a cancellation of a request the frontend made.
LEMMA AskStep ==
    ASSUME LoopInv, NEW r \in Request,
           Ask(Cancel(r)) \/ Ask(Pull(r, Window)), UNCHANGED <<issued, downloads, task, ended>>
    PROVE  LoopInv'
<1>1. PICK m \in Command : m.type # "begin" /\ Ask(m)
  <2>1. Cancel(r) \in Command /\ Cancel(r).type # "begin"
    BY DEF Cancel, Command
  <2>2. Pull(r, Window) \in Command /\ Pull(r, Window).type # "begin"
    BY WindowAssumption DEF Pull, Command
  <2> QED
    BY <2>1, <2>2
<1>2. asked' \in Seq(Command) /\ Once' /\ \A u : Waits(u)' <=> Waits(u)
  BY <1>1, Sent DEF LoopInv
<1>3. issued' \in 0..MaxRequests /\ issued' >= issued
  BY BoundsAssumption DEF LoopInv, LoopTypeOK
<1> QED
  BY <1>2, <1>3, FrontendAsks DEF LoopInv, Agrees

\* Client::begin_download and transfer_between use the next number.
LEMMA BeginsStep ==
    ASSUME LoopInv, NEW kind \in {"read", "copy"}, ClientBegins(kind)
    PROVE  LoopInv' /\ issued + 1 \in Request
<1> DEFINE m == Begin(issued + 1, kind)
<1>1. /\ issued < MaxRequests /\ issued' = issued + 1 /\ Ask(m)
      /\ UNCHANGED <<downloads, task, ended>>
  BY DEF ClientBegins, daemon
<1>2. issued \in Nat /\ issued + 1 \in Request /\ issued' \in 0..MaxRequests
  BY <1>1, BoundsAssumption DEF LoopInv, LoopTypeOK, Request
<1>3. m \in Command /\ m.type = "begin" /\ m.request = issued + 1
  BY <1>2 DEF Begin, Command
<1> HIDE DEF m
<1>4. ~Waits(issued + 1)
  BY <1>2 DEF LoopInv, Agrees
<1>5. /\ asked' \in Seq(Command) /\ Once'
      /\ \A u : Waits(u)' <=> Waits(u) \/ issued + 1 = u
  BY <1>1, <1>3, <1>4, Sent DEF LoopInv
<1>6. \A r \in Request : r > issued' => ~Waits(r)'
  <2> SUFFICES ASSUME NEW r \in Request, r > issued' PROVE ~Waits(r)'
    OBVIOUS
  <2>1. r \in Nat /\ r > issued /\ r # issued + 1
    BY <1>1, <1>2 DEF Request
  <2> QED
    BY <1>5, <2>1 DEF LoopInv, Agrees
<1>7. \A r \in Request : Waits(r)' => Waits(r) \/ r > issued
  BY <1>2, <1>5
<1> QED
  BY <1>1, <1>2, <1>5, <1>6, <1>7, FrontendAsks

\* The loop's side is untouched.
LEMMA QuietStep ==
    ASSUME LoopInv, UNCHANGED <<issued, asked, downloads, task, ended>>
    PROVE  LoopInv'
BY DEF LoopInv, LoopTypeOK, Once, Agrees, Unheard, Waits

LEMMA DownloadInit ==
    ASSUME SaveInit
    PROVE  DownloadInv
<1>1. LoopTypeOK /\ Once /\ \A r : ~Waits(r)
  BY BoundsAssumption DEF SaveInit, Init, LoopTypeOK, Once, Waits
<1>2. \A r \in Request : Agrees(r)
  BY <1>1 DEF SaveInit, Init, Agrees, Unheard
<1>3. outbox \in Seq(Answer) /\ AsksAsItself
  BY DEF SaveInit, Init, AsksAsItself
<1> QED
  BY <1>1, <1>2, <1>3 DEF DownloadInv, LoopInv

\* A message is read: the frontend may pull or cancel the request it names.
LEMMA ReadStep ==
    ASSUME DownloadInv, ReadMessage
    PROVE  DownloadInv'
<1>1. UNCHANGED <<issued, downloads, task, ended>> /\ outbox' = Tail(outbox) /\ outbox # <<>>
  BY DEF ReadMessage, TakeOffer, TakeChunk, TakeFinished, TakeError, TakeComplete,
         Message, Reads, daemon
<1>2. outbox' \in Seq(Answer) /\ Head(outbox) \in Answer
  BY <1>1, HeadAndTail DEF DownloadInv
<1> PICK r : r = Head(outbox).request
  OBVIOUS
<1>3. CASE asked' = asked /\ AsksAsItself'
  BY <1>1, <1>2, <1>3, QuietStep DEF DownloadInv
<1>4. ASSUME r \in Request, Ask(Cancel(r)) \/ Ask(Pull(r, Window)), AsksAsItself'
      PROVE  DownloadInv'
  BY <1>1, <1>2, <1>4, AskStep DEF DownloadInv
<1>5. CASE TakeOffer
  <2>1. r \in Request
    BY <1>2, <1>5 DEF TakeOffer, Message, Answer
  <2>2. CASE UNCHANGED <<asked, saveRequest, save>>
    BY <1>3, <2>2 DEF DownloadInv, AsksAsItself
  <2>3. CASE Ask(Cancel(r)) /\ saveRequest' = None /\ save' = save
    BY <1>4, <2>1, <2>3 DEF DownloadInv, AsksAsItself
  <2>4. ASSUME NEW length, NEW good, Ask(Pull(r, Window)), saveRequest' = saveRequest,
               save' = [request |-> r, length |-> length, good |-> good,
                        received |-> 0, outstanding |-> Window]
        PROVE  DownloadInv'
    BY <1>4, <2>1, <2>4 DEF DownloadInv, AsksAsItself
  <2> QED
    BY <1>5, <2>2, <2>3, <2>4 DEF TakeOffer
<1>6. CASE TakeChunk
  <2>1. CASE UNCHANGED <<asked, saveRequest, save>>
    BY <1>3, <2>1 DEF DownloadInv, AsksAsItself
  <2>2. CASE Ask(Cancel(r)) /\ Saving(r) /\ save' = None /\ saveRequest' = None
    BY <1>4, <2>2 DEF DownloadInv, AsksAsItself, Saving
  <2>3. ASSUME NEW received, NEW outstanding, Saving(r), saveRequest' = saveRequest,
               save' = [save EXCEPT !.received = received, !.outstanding = outstanding],
               asked' = asked \/ Ask(Pull(r, Window))
        PROVE  DownloadInv'
    <3>1. save'.request = save.request \/ save' = None
      BY <2>3
    <3>2. AsksAsItself' /\ r \in Request
      BY <2>3, <3>1 DEF DownloadInv, AsksAsItself, Saving
    <3> QED
      BY <1>3, <1>4, <2>3, <3>2
  <2> QED
    BY <1>6, <2>1, <2>2, <2>3 DEF TakeChunk
<1>7. CASE TakeFinished \/ TakeError \/ TakeComplete
  BY <1>3, <1>7 DEF TakeFinished, TakeError, TakeComplete, frontend, DownloadInv, AsksAsItself
<1> QED
  BY <1>5, <1>6, <1>7 DEF ReadMessage

LEMMA DownloadStep ==
    ASSUME DownloadInv, [SaveNext]_saveVars
    PROVE  DownloadInv'
<1> USE DEF DownloadInv
<1>1. CASE AskToSave
  <2>1. ClientBegins("read") /\ saveRequest' = issued + 1 /\ save' = save /\ outbox' = outbox
    BY <1>1 DEF AskToSave, ClientBegins
  <2> QED
    BY <2>1, BeginsStep DEF AsksAsItself
<1>2. CASE AskToCopy
  <2>1. ClientBegins("copy") /\ saveRequest' = saveRequest /\ save' = save /\ outbox' = outbox
    BY <1>2 DEF AskToCopy, ClientBegins, frontend
  <2> QED
    BY <2>1, BeginsStep DEF AsksAsItself
<1>3. CASE CancelSave
  <2>1. /\ saveRequest \in Request /\ Ask(Cancel(saveRequest))
        /\ saveRequest' = None /\ save' = None
        /\ UNCHANGED <<issued, downloads, task, ended, outbox>>
    BY <1>3 DEF CancelSave, AsksAsItself, daemon
  <2> QED
    BY <2>1, AskStep DEF AsksAsItself
<1>4. CASE ReadMessage
  BY <1>4, ReadStep
<1>5. CASE Quits
  <2>1. Disconnected /\ saveRequest' = None /\ save' = None /\ outbox' = <<>>
    BY <1>5 DEF Quits, Disconnected
  <2> QED
    BY <2>1, GoneStep DEF AsksAsItself
<1>6. CASE OtherProgramWrites \/ UNCHANGED saveVars
  <2>1. UNCHANGED <<issued, asked, downloads, task, ended, outbox, saveRequest, save>>
    BY <1>6 DEF OtherProgramWrites, saveVars, vars, frontend
  <2> QED
    BY <2>1, QuietStep DEF AsksAsItself
<1>7. CASE DaemonStep /\ UNCHANGED frontend
  BY <1>7, DaemonKeeps, DaemonAnswers DEF AsksAsItself, frontend
<1> QED
  BY <1>1, <1>2, <1>3, <1>4, <1>5, <1>6, <1>7 DEF SaveNext

\* Whatever order begins, grants, endings, cancellations and the loss of the
\* connection are handled in: what the table holds is running or its end is on
\* the way, and what runs outside the table was stopped (begin_download,
\* stop_download, Input::DownloadEnded, Input::Disconnected).
THEOREM TableAlwaysMatches == SaveSpec => []TableMatchesTasks
<1>1. SaveInit => DownloadInv
  BY DownloadInit
<1>2. DownloadInv /\ [SaveNext]_saveVars => DownloadInv'
  BY DownloadStep
<1>3. DownloadInv => TableMatchesTasks
  BY DEF DownloadInv, LoopInv, Agrees, TableMatchesTasks
<1> QED
  BY <1>1, <1>2, <1>3, PTL DEF SaveSpec

-----------------------------------------------------------------------------
(* The page: its inductive invariant *)

\* A begin of r was posted and has not arrived.
Posted(r) == \E m \in posts : m.type = "begin" /\ m.request = r

\* r is over: nothing of the daemon's works on it or ever will.
Over(r) == r \in Request /\ r <= issued /\ task[r] = None /\ ~Waits(r) /\ ~Posted(r)

Moving(r) == task[r] # None /\ task[r].phase = "moving"

IsOffer(m, r) == m.type = "offer" /\ m.request = r
HasOffer(r) == \E i \in 1..Len(outbox) : IsOffer(outbox[i], r)

\* The page only reads.
OnlyReads ==
    /\ \A i \in 1..Len(asked) : asked[i].type = "begin" => asked[i].kind = "read"
    /\ \A r \in Request : task[r] # None => task[r].kind = "read"

PostsTypeOK ==
    /\ posts \subseteq Command
    /\ \A m \in posts : m.type = "begin" =>
          /\ m.kind = "read" /\ m.request <= issued
          /\ Unheard(m.request) /\ ~Waits(m.request)

\* What is in the outbox is of requests that were made, and what finished is
\* over, with no offer to follow.
OutboxInv ==
    /\ outbox \in Seq(Answer) /\ connected \in BOOLEAN
    /\ ~connected => outbox = <<>>
    /\ \A i \in 1..Len(outbox) :
          outbox[i].type \in {"offer", "chunk", "finished"} => outbox[i].request <= issued
    /\ \A i \in 1..Len(outbox), r \in Request :
          outbox[i].type = "finished" /\ outbox[i].request = r =>
              Over(r) /\ \A j \in (i + 1)..Len(outbox) : ~IsOffer(outbox[j], r)

\* Nothing else of r comes before its offer.
Prompt(r) ==
    /\ Moving(r) => HasOffer(r)
    /\ \A i \in 1..Len(outbox) :
          outbox[i].type \in {"chunk", "finished"} /\ outbox[i].request = r =>
              \E j \in 1..(i - 1) : IsOffer(outbox[j], r)

\* The page is told of its fetch only after the offer.
OfferFirst ==
    connected /\ fetching # None /\ fetching.offer = None => Prompt(fetching.request)

\* A fetch whose last message was read: no other offer of it can come.
Sealed(r) == Over(r) /\ ~HasOffer(r)

Whole(f) == f.offer # None /\ f.received = f.offer.length

Shown == [request : Request, offer : Offered \cup {None}, card : BOOLEAN,
          received : Nat, outstanding : Nat, url : BOOLEAN]

ChecksInv ==
    /\ checks \subseteq Shown
    /\ \A h \in checks :
          /\ Whole(h) /\ Sealed(h.request)
          /\ Fetching(h.request) =>
                fetching.offer = h.offer /\ fetching.received = h.received

FetchingInv ==
    /\ fetching \in Shown \cup {None}
    /\ fetching # None => fetching.request <= issued
    /\ fetching # None /\ fetching.url =>
          Whole(fetching) /\ fetching.offer.good /\ Sealed(fetching.request)

PageInv ==
    /\ LoopInv /\ OnlyReads /\ PostsTypeOK /\ OutboxInv /\ OfferFirst /\ ChecksInv
    /\ FetchingInv

-----------------------------------------------------------------------------
(* What the daemon tells the page *)

\* A message is told: by a task that runs or, of errors and copies, by anyone.
Tells(m) ==
    /\ connected /\ m \in Answer /\ outbox' = Append(outbox, m)
    /\ m.type \in {"offer", "chunk", "finished"} => task[m.request] # None
    /\ m.type \in {"chunk", "finished"} => Moving(m.request)
    /\ m.type = "finished" => task'[m.request] = None
    /\ \A r \in Request : Moving(r)' => Moving(r) \/ IsOffer(m, r)

\* Nothing is told, and no task gets past its offer unheard.
Silent == outbox' = outbox /\ (connected => \A r \in Request : Moving(r)' => Moving(r))

\* Nothing new is worked on but what was asked for.
NothingNew ==
    /\ UNCHANGED <<connected, issued>>
    /\ \A r \in Request : Waits(r)' => Waits(r)
    /\ \A r \in Request : task[r] = None /\ ~Waits(r) => task'[r] = None
    /\ \A r \in Request : Unheard(r) /\ ~Waits(r) => Unheard(r)'
    /\ OnlyReads'

\* A task is replaced by another state of itself.
LEMMA TaskReplaced ==
    ASSUME LoopInv, OnlyReads, NEW r \in Request, task[r] # None, NEW new \in Task \cup {None},
           new # None => new.kind = "read", task' = [task EXCEPT ![r] = new],
           UNCHANGED <<connected, issued, asked, downloads>>,
           ended' \subseteq ended \cup {r}
    PROVE  /\ NothingNew /\ task'[r] = new
           /\ \A u \in Request : u # r => (Moving(u)' <=> Moving(u))
<1>1. task'[r] = new /\ \A u \in Request : u # r => task'[u] = task[u]
  BY DEF LoopInv, LoopTypeOK
<1>2. \A u : Waits(u)' <=> Waits(u)
  BY DEF Waits
<1>3. OnlyReads'
  BY <1>1 DEF OnlyReads
<1>4. \A u \in Request : Unheard(u) => Unheard(u)'
  BY <1>1 DEF Unheard
<1>5. \A u \in Request : u # r => (Moving(u)' <=> Moving(u))
  BY <1>1 DEF Moving
<1> QED
  BY <1>1, <1>2, <1>3, <1>4, <1>5 DEF NothingNew

\* A message of a task that goes on or returns.
LEMMA TaskTells ==
    ASSUME NEW r \in Request, task[r] # None, NEW m \in Answer, Told(m),
           m.type \in {"offer", "chunk", "finished"} => m.request = r,
           m.type \in {"chunk", "finished"} => Moving(r),
           m.type = "finished" => task'[r] = None,
           Moving(r)' => Moving(r) \/ m.type = "offer",
           \A u \in Request : u # r => (Moving(u)' <=> Moving(u))
    PROVE  Silent \/ Tells(m)
<1>1. CASE connected
  <2>1. outbox' = Append(outbox, m)
    BY <1>1 DEF Told
  <2> QED
    BY <1>1, <2>1 DEF Tells, IsOffer
<1>2. CASE ~connected
  BY <1>2 DEF Told, Silent
<1> QED
  BY <1>1, <1>2

LEMMA TaskIsHeard ==
    ASSUME LoopInv, OnlyReads, NEW r \in Request, TaskStep(r)
    PROVE  NothingNew /\ (Silent \/ \E m : Tells(m))
<1>1. task[r] # None /\ task[r] \in Task /\ task[r].kind = "read"
  BY DEF TaskStep, OpenSource, ReceiveGrant, ReadChunk, SendFinished, CopyEnds, Dropped,
         Running, LoopInv, LoopTypeOK, OnlyReads
<1>2. ASSUME NEW m \in Answer, Told(m), Returns(r), UNCHANGED <<connected, issued, asked, downloads>>,
             m = Error(r) \/ (m = Finished(r) /\ Moving(r))
      PROVE  NothingNew /\ (Silent \/ \E n : Tells(n))
  <2>1. /\ NothingNew /\ task'[r] = None
        /\ \A u \in Request : u # r => (Moving(u)' <=> Moving(u))
    <3>1. task' = [task EXCEPT ![r] = None] /\ ended' \subseteq ended \cup {r}
      BY <1>2 DEF Returns
    <3> QED
      BY <1>1, <1>2, <3>1, TaskReplaced
  <2>2. ~Moving(r)'
    BY <2>1 DEF Moving
  <2>3. m.type \in {"error", "finished"} /\ m.request = r /\ (m.type = "finished" => Moving(r))
    BY <1>2 DEF Error, Finished
  <2>4. Silent \/ Tells(m)
    BY <1>1, <1>2, <2>1, <2>2, <2>3, TaskTells
  <2> QED
    BY <2>1, <2>4
<1>3. Error(r) \in Answer /\ Finished(r) \in Answer /\ Chunk(r) \in Answer
  BY DEF Error, Finished, Chunk, Answer
<1>4. CASE OpenSource(r)
  <2>1. ASSUME NEW length \in 0..MaxLength, NEW good \in BOOLEAN,
               task' = [task EXCEPT ![r].phase = "moving", ![r].length = length,
                                    ![r].good = good], ended' = ended,
               Told(Offer(r, length, good))
        PROVE  NothingNew /\ (Silent \/ \E n : Tells(n))
    <3> DEFINE new == [task[r] EXCEPT !.phase = "moving", !.length = length, !.good = good]
    <3>1. new \in Task /\ new.kind = "read"
      BY <1>1 DEF Task
    <3>2. task' = [task EXCEPT ![r] = new]
      BY <2>1 DEF LoopInv, LoopTypeOK
    <3>3. UNCHANGED <<connected, issued, asked, downloads>>
      BY <1>4 DEF OpenSource
    <3> HIDE DEF new
    <3>4. NothingNew /\ \A u \in Request : u # r => (Moving(u)' <=> Moving(u))
      BY <1>1, <2>1, <3>1, <3>2, <3>3, TaskReplaced
    <3> PICK m : m = Offer(r, length, good)
      OBVIOUS
    <3>5. m \in Answer /\ m.type = "offer" /\ m.request = r
      BY DEF Offer, Answer
    <3>6. Silent \/ Tells(m)
      BY <1>1, <2>1, <3>4, <3>5, TaskTells
    <3> QED
      BY <3>4, <3>6
  <2> QED
    BY <1>1, <1>2, <1>3, <1>4, <2>1 DEF OpenSource
<1>5. CASE ReceiveGrant(r)
  <2> DEFINE n == Head(task[r].grants)
             new == [task[r] EXCEPT !.credit = IF n < MaxOutstanding THEN n ELSE MaxOutstanding,
                                    !.grants = Tail(@)]
  <2>1. /\ task[r].grants # <<>> /\ task[r].phase = "moving"
        /\ task' = [task EXCEPT ![r].credit = IF n < MaxOutstanding THEN n ELSE MaxOutstanding,
                                ![r].grants = Tail(@)]
        /\ UNCHANGED <<connected, issued, asked, downloads, ended, outbox>>
    BY <1>5 DEF ReceiveGrant, Running
  <2>2. task' = [task EXCEPT ![r] = new]
    BY <2>1 DEF LoopInv, LoopTypeOK
  <2>3. new \in Task /\ new.kind = "read"
    <3>1. task[r].grants \in Seq(1..MaxGrant)
      BY <1>1 DEF Task
    <3>2. n \in 1..MaxGrant /\ Tail(task[r].grants) \in Seq(1..MaxGrant)
      BY <2>1, <3>1, HeadAndTail
    <3>3. (IF n < MaxOutstanding THEN n ELSE MaxOutstanding) \in 0..MaxOutstanding
      BY <3>2, BoundsAssumption
    <3> QED
      BY <1>1, <2>1, <3>2, <3>3 DEF Task
  <2> HIDE DEF new
  <2>4. NothingNew /\ \A u \in Request : u # r => (Moving(u)' <=> Moving(u))
    BY <1>1, <2>1, <2>2, <2>3, TaskReplaced
  <2>5. Moving(r)
    BY <1>1, <2>1 DEF Moving
  <2> QED
    BY <2>1, <2>4, <2>5 DEF Silent
<1>6. CASE ReadChunk(r)
  <2>0. Moving(r) /\ task[r].sent < task[r].length /\ task[r].credit > 0
    BY <1>6 DEF ReadChunk, Running, Moving
  <2>1. ASSUME task' = [task EXCEPT ![r].sent = @ + 1, ![r].credit = @ - 1], ended' = ended,
               Told(Chunk(r))
        PROVE  NothingNew /\ (Silent \/ \E n : Tells(n))
    <3> DEFINE new == [task[r] EXCEPT !.sent = @ + 1, !.credit = @ - 1]
    <3>1. new \in Task /\ new.kind = "read"
      <4>1. task[r].sent + 1 \in 0..MaxLength /\ task[r].credit - 1 \in 0..MaxOutstanding
        BY <1>1, <2>0, BoundsAssumption DEF Task
      <4> QED
        BY <1>1, <4>1 DEF Task
    <3>2. task' = [task EXCEPT ![r] = new]
      BY <2>1 DEF LoopInv, LoopTypeOK
    <3>3. UNCHANGED <<connected, issued, asked, downloads>>
      BY <1>6 DEF ReadChunk
    <3> HIDE DEF new
    <3>4. NothingNew /\ \A u \in Request : u # r => (Moving(u)' <=> Moving(u))
      BY <1>1, <2>1, <3>1, <3>2, <3>3, TaskReplaced
    <3> PICK m : m = Chunk(r)
      OBVIOUS
    <3>5. m \in Answer /\ m.type = "chunk" /\ m.request = r
      BY <1>3 DEF Chunk
    <3>6. Silent \/ Tells(m)
      BY <1>1, <2>0, <2>1, <3>4, <3>5, TaskTells
    <3> QED
      BY <3>4, <3>6
  <2> QED
    BY <1>1, <1>2, <1>3, <1>6, <2>1 DEF ReadChunk
<1>7. CASE SendFinished(r)
  <2>1. Moving(r)
    BY <1>7 DEF SendFinished, Running, Moving
  <2> QED
    BY <1>2, <1>3, <1>7, <2>1 DEF SendFinished
<1>8. CASE CopyEnds(r)
  BY <1>1, <1>8 DEF CopyEnds
<1>9. CASE Dropped(r)
  <2>1. task' = [task EXCEPT ![r] = None] /\ ended' \subseteq ended \cup {r} /\ outbox' = outbox
        /\ UNCHANGED <<connected, issued, asked, downloads>>
    BY <1>9 DEF Dropped
  <2>2. /\ NothingNew /\ task'[r] = None
        /\ \A u \in Request : u # r => (Moving(u)' <=> Moving(u))
    BY <1>1, <2>1, TaskReplaced
  <2>3. ~Moving(r)'
    BY <2>2 DEF Moving
  <2> QED
    BY <2>1, <2>2, <2>3 DEF Silent
<1> QED
  BY <1>4, <1>5, <1>6, <1>7, <1>8, <1>9 DEF TaskStep

\* A message of the loop, which is an error.
LEMMA LoopTells ==
    ASSUME NEW r \in Request \cup {None}, Told(Error(r)), UNCHANGED task
    PROVE  Silent \/ \E m : Tells(m)
<1> PICK m : m = Error(r)
  OBVIOUS
<1>1. m \in Answer /\ m.type = "error"
  BY DEF Error, Answer
<1>2. \A u \in Request : Moving(u)' <=> Moving(u)
  BY DEF Moving
<1>3. CASE connected
  <2>1. outbox' = Append(outbox, m)
    BY <1>3 DEF Told
  <2> QED
    BY <1>1, <1>2, <1>3, <2>1 DEF Tells
<1>4. CASE ~connected
  BY <1>4 DEF Told, Silent
<1> QED
  BY <1>3, <1>4

\* The rest of the commands under way stays reads.
LEMMA ReadsUnderWay ==
    ASSUME LoopTypeOK, OnlyReads, asked # <<>>, asked' = Tail(asked)
    PROVE  /\ \A i \in 1..Len(asked') : asked'[i].type = "begin" => asked'[i].kind = "read"
           /\ Head(asked).type = "begin" => Head(asked).kind = "read"
           /\ Head(asked).request \in Request
<1>1. /\ asked \in Seq(Command) /\ Len(asked) \in Nat \ {0} /\ Head(asked) = asked[1]
      /\ 1 \in 1..Len(asked) /\ Head(asked) \in Command
  BY DEF LoopTypeOK
<1>2. /\ asked' \in Seq(Command) /\ Len(asked') = Len(asked) - 1
      /\ \A i \in 1..Len(asked') : asked'[i] = asked[i + 1] /\ i + 1 \in 1..Len(asked)
  BY <1>1
<1>3. Head(asked).request \in Request
  BY <1>1 DEF Command
<1> QED
  BY <1>1, <1>2, <1>3 DEF OnlyReads

\* Download::stop tells a task to stop and changes nothing else of it.
LEMMA StopIsQuiet ==
    ASSUME LoopInv, NEW R, Stop(R)
    PROVE  \A u \in Request : /\ task'[u] = None <=> task[u] = None
                              /\ task[u] # None => task'[u].kind = task[u].kind
                              /\ Moving(u)' <=> Moving(u)
<1> SUFFICES ASSUME NEW u \in Request
             PROVE  /\ task'[u] = None <=> task[u] = None
                    /\ task[u] # None => task'[u].kind = task[u].kind
                    /\ Moving(u)' <=> Moving(u)
  OBVIOUS
<1>1. task[u] # None => task[u] \in Task
  BY DEF LoopInv, LoopTypeOK
<1>2. CASE task'[u] = task[u]
  BY <1>2 DEF Moving
<1>3. CASE task[u] # None /\ task'[u] = [task[u] EXCEPT !.stopped = TRUE]
  <2>1. task'[u] \in Task /\ task'[u].kind = task[u].kind /\ task'[u].phase = task[u].phase
    BY <1>1, <1>3 DEF Task
  <2> QED
    BY <1>3, <2>1, NoneAssumption DEF Moving
<1> QED
  BY <1>2, <1>3 DEF Stop

LEMMA LoopIsHeard ==
    ASSUME LoopInv, OnlyReads, LoopStep
    PROVE  NothingNew /\ (Silent \/ \E m : Tells(m))
<1>1. CASE TakeBegin
  <2> PICK r : r = Head(asked).request
    OBVIOUS
  <2>1. /\ asked # <<>> /\ Head(asked).type = "begin" /\ asked' = Tail(asked)
        /\ UNCHANGED <<connected, issued, ended>>
    BY <1>1 DEF TakeBegin
  <2>2. /\ \A i \in 1..Len(asked') : asked'[i].type = "begin" => asked'[i].kind = "read"
        /\ Head(asked).kind = "read" /\ r \in Request
    BY <2>1, ReadsUnderWay DEF LoopInv
  <2>3. (\A u : Waits(u)' => Waits(u)) /\ Waits(r)
    BY <2>1, Taken DEF LoopInv
  <2>4. CASE UNCHANGED <<downloads, task>> /\ (Told(Error(None)) \/ Told(Error(r)))
    <3>1. NothingNew
      BY <2>1, <2>2, <2>3, <2>4 DEF NothingNew, Unheard, OnlyReads
    <3> QED
      BY <2>2, <2>4, <3>1, LoopTells
  <2>5. CASE /\ downloads' = downloads \cup {r} /\ outbox' = outbox
             /\ task' = [task EXCEPT ![r] = Spawned("read")]
    <3>1. Spawned("read").kind = "read" /\ Spawned("read").phase = "opening"
      BY DEF Spawned
    <3>2. task'[r] = Spawned("read") /\ \A u \in Request : u # r => task'[u] = task[u]
      BY <2>2, <2>5 DEF LoopInv, LoopTypeOK
    <3>3. NothingNew
      BY <2>1, <2>2, <2>3, <2>5, <3>1, <3>2 DEF NothingNew, Unheard, OnlyReads
    <3>4. \A u \in Request : Moving(u)' => Moving(u)
      BY <3>1, <3>2 DEF Moving
    <3> QED
      BY <2>5, <3>3, <3>4 DEF Silent
  <2> QED
    BY <1>1, <2>2, <2>4, <2>5 DEF TakeBegin
<1>2. CASE TakePull
  <2> PICK r : r = Head(asked).request
    OBVIOUS
  <2>1. /\ asked # <<>> /\ Head(asked).type = "pull" /\ asked' = Tail(asked)
        /\ UNCHANGED <<connected, issued, downloads, ended>>
    BY <1>2 DEF TakePull
  <2>2. /\ \A i \in 1..Len(asked') : asked'[i].type = "begin" => asked'[i].kind = "read"
        /\ r \in Request
    BY <2>1, ReadsUnderWay DEF LoopInv
  <2>3. \A u : Waits(u)' => Waits(u)
    BY <2>1, Taken DEF LoopInv
  <2>4. CASE UNCHANGED task
    <3>1. NothingNew
      BY <2>1, <2>2, <2>3, <2>4 DEF NothingNew, Unheard, OnlyReads
    <3>2. outbox' = outbox \/ Told(Error(r))
      BY <1>2 DEF TakePull
    <3>3. CASE outbox' = outbox
      BY <2>4, <3>1, <3>3 DEF Silent, Moving
    <3> QED
      BY <2>2, <2>4, <3>1, <3>2, <3>3, LoopTells
  <2>5. CASE /\ task[r] # None /\ outbox' = outbox
             /\ task' = [task EXCEPT ![r].grants = Append(@, Head(asked).chunks)]
    <3>1. \A u \in Request : u # r => task'[u] = task[u]
      BY <2>2, <2>5 DEF LoopInv, LoopTypeOK
    <3>2. task[r] \in Task
      BY <2>2, <2>5 DEF LoopInv, LoopTypeOK
    <3>3. task'[r] = [task[r] EXCEPT !.grants = Append(@, Head(asked).chunks)]
      BY <2>2, <2>5 DEF LoopInv, LoopTypeOK
    <3>4. task'[r].kind = task[r].kind /\ task'[r].phase = task[r].phase
      BY <3>2, <3>3 DEF Task
    <3>5. task[r].kind = "read"
      BY <2>2, <2>5 DEF OnlyReads
    <3>6. NothingNew
      BY <2>1, <2>2, <2>3, <2>5, <3>1, <3>4, <3>5 DEF NothingNew, Unheard, OnlyReads
    <3>7. \A u \in Request : Moving(u)' => Moving(u)
      BY <2>5, <3>1, <3>4 DEF Moving
    <3> QED
      BY <2>5, <3>6, <3>7 DEF Silent
  <2> QED
    BY <1>2, <2>4, <2>5 DEF TakePull
<1>3. CASE TakeCancel
  <2>1. /\ asked # <<>> /\ asked' = Tail(asked) /\ UNCHANGED <<connected, issued, ended, outbox>>
        /\ Stop({Head(asked).request} \cap downloads) /\ downloads' \subseteq downloads
    BY <1>3 DEF TakeCancel, Stop
  <2>2. \A i \in 1..Len(asked') : asked'[i].type = "begin" => asked'[i].kind = "read"
    BY <2>1, ReadsUnderWay DEF LoopInv
  <2>3. \A u : Waits(u)' => Waits(u)
    BY <2>1, Taken DEF LoopInv
  <2>4. /\ \A u \in Request : /\ task'[u] = None <=> task[u] = None
                              /\ task[u] # None => task'[u].kind = task[u].kind
                              /\ Moving(u)' <=> Moving(u)
    BY <2>1, StopIsQuiet
  <2>5. NothingNew
    BY <2>1, <2>2, <2>3, <2>4 DEF NothingNew, Unheard, OnlyReads
  <2> QED
    BY <2>1, <2>4, <2>5 DEF Silent
<1>4. ASSUME NEW r \in Request, TakeEnded(r)
      PROVE  NothingNew /\ Silent
  <2>1. /\ ended' \subseteq ended /\ downloads' \subseteq downloads
        /\ UNCHANGED <<connected, issued, asked, task, outbox>>
    BY <1>4 DEF TakeEnded
  <2> QED
    BY <2>1 DEF NothingNew, Unheard, OnlyReads, Waits, Silent, Moving
<1> QED
  BY <1>1, <1>2, <1>3, <1>4 DEF LoopStep

LEMMA DaemonTells ==
    ASSUME LoopInv, OnlyReads, DaemonStep
    PROVE  NothingNew /\ (Silent \/ \E m : Tells(m))
BY LoopIsHeard, TaskIsHeard DEF DaemonStep

-----------------------------------------------------------------------------
(* The messages under way to the page *)

LEMMA AppendedOutbox ==
    ASSUME outbox \in Seq(Answer), NEW m \in Answer, outbox' = Append(outbox, m)
    PROVE  /\ outbox' \in Seq(Answer) /\ Len(outbox) \in Nat /\ Len(outbox') = Len(outbox) + 1
           /\ outbox'[Len(outbox) + 1] = m
           /\ \A i \in 1..Len(outbox) : outbox'[i] = outbox[i]
           /\ \A i \in 1..Len(outbox') : i \in 1..Len(outbox) \/ i = Len(outbox) + 1
           /\ \A r : HasOffer(r)' <=> HasOffer(r) \/ IsOffer(m, r)
<1>1. /\ outbox' \in Seq(Answer) /\ Len(outbox) \in Nat /\ Len(outbox') = Len(outbox) + 1
      /\ outbox'[Len(outbox) + 1] = m
      /\ \A i \in 1..Len(outbox) : outbox'[i] = outbox[i]
  OBVIOUS
<1>2. \A i \in 1..Len(outbox') : i \in 1..Len(outbox) \/ i = Len(outbox) + 1
  BY <1>1
<1>3. ASSUME NEW r PROVE HasOffer(r)' <=> HasOffer(r) \/ IsOffer(m, r)
  <2>1. Len(outbox) + 1 \in 1..Len(outbox') /\ \A i \in 1..Len(outbox) : i \in 1..Len(outbox')
    BY <1>1
  <2> QED
    BY <1>1, <1>2, <2>1 DEF HasOffer
<1> QED
  BY <1>1, <1>2, <1>3

LEMMA ReadOutbox ==
    ASSUME outbox \in Seq(Answer), outbox # <<>>, outbox' = Tail(outbox)
    PROVE  /\ outbox' \in Seq(Answer) /\ Len(outbox) \in Nat /\ Len(outbox') = Len(outbox) - 1
           /\ Head(outbox) = outbox[1] /\ 1 \in 1..Len(outbox) /\ Head(outbox) \in Answer
           /\ \A i \in 1..Len(outbox') : outbox'[i] = outbox[i + 1] /\ i + 1 \in 1..Len(outbox)
           /\ \A r : HasOffer(r)' => HasOffer(r)
           /\ \A r : HasOffer(r) /\ ~IsOffer(Head(outbox), r) => HasOffer(r)'
<1>1. /\ outbox' \in Seq(Answer) /\ Len(outbox) \in Nat /\ Len(outbox') = Len(outbox) - 1
      /\ Head(outbox) = outbox[1] /\ 1 \in 1..Len(outbox) /\ Head(outbox) \in Answer
      /\ \A i \in 1..Len(outbox') : outbox'[i] = outbox[i + 1] /\ i + 1 \in 1..Len(outbox)
  OBVIOUS
<1>2. \A r : HasOffer(r)' => HasOffer(r)
  BY <1>1 DEF HasOffer
<1>3. ASSUME NEW r, NEW i \in 1..Len(outbox), IsOffer(outbox[i], r), ~IsOffer(Head(outbox), r)
      PROVE  HasOffer(r)'
  <2>1. i # 1
    BY <1>1, <1>3
  <2>2. i - 1 \in 1..Len(outbox') /\ (i - 1) + 1 = i
    BY <1>1, <2>1
  <2> QED
    BY <1>1, <1>3, <2>2 DEF HasOffer
<1> QED
  BY <1>1, <1>2, <1>3 DEF HasOffer

\* Nothing but its offer can be the first message of a fetch without one.
LEMMA PromptHead ==
    ASSUME NEW r, Prompt(r), outbox \in Seq(Answer), outbox # <<>>,
           Head(outbox).type \in {"chunk", "finished"}
    PROVE  Head(outbox).request # r
<1>1. Head(outbox) = outbox[1] /\ 1 \in 1..Len(outbox)
  OBVIOUS
<1>2. ~\E j \in 1..(1 - 1) : IsOffer(outbox[j], r)
  OBVIOUS
<1> QED
  BY <1>1, <1>2 DEF Prompt

LEMMA PromptRead ==
    ASSUME NEW r, Prompt(r), outbox \in Seq(Answer), outbox # <<>>, outbox' = Tail(outbox),
           ~IsOffer(Head(outbox), r), task' = task
    PROVE  Prompt(r)'
<1>1. /\ Len(outbox) \in Nat /\ Len(outbox') = Len(outbox) - 1
      /\ Head(outbox) = outbox[1] /\ 1 \in 1..Len(outbox)
      /\ \A i \in 1..Len(outbox') : outbox'[i] = outbox[i + 1] /\ i + 1 \in 1..Len(outbox)
      /\ HasOffer(r) => HasOffer(r)'
  BY ReadOutbox
<1>2. ASSUME NEW i \in 1..Len(outbox'), outbox'[i].type \in {"chunk", "finished"},
             outbox'[i].request = r
      PROVE  \E j \in 1..(i - 1) : IsOffer(outbox'[j], r)
  <2>1. PICK k \in 1..i : IsOffer(outbox[k], r)
    <3>1. PICK k \in 1..((i + 1) - 1) : IsOffer(outbox[k], r)
      BY <1>1, <1>2 DEF Prompt
    <3> QED
      BY <3>1
  <2>2. k # 1
    BY <1>1, <2>1
  <2>3. k - 1 \in 1..(i - 1) /\ k - 1 \in 1..Len(outbox') /\ (k - 1) + 1 = k
    BY <1>1, <2>2
  <2>4. outbox'[k - 1] = outbox[k]
    BY <1>1, <2>3
  <2> QED
    BY <2>1, <2>3, <2>4
<1>3. Moving(r)' <=> Moving(r)
  BY DEF Moving
<1> QED
  BY <1>1, <1>2, <1>3 DEF Prompt, IsOffer

LEMMA PromptTold ==
    ASSUME NEW r \in Request, Prompt(r), outbox \in Seq(Answer), NEW m, Tells(m)
    PROVE  Prompt(r)'
<1>1. /\ m \in Answer /\ outbox' = Append(outbox, m)
      /\ m.type \in {"chunk", "finished"} => Moving(m.request)
      /\ Moving(r)' => Moving(r) \/ IsOffer(m, r)
  BY DEF Tells
<1>2. /\ Len(outbox) \in Nat /\ Len(outbox') = Len(outbox) + 1
      /\ outbox'[Len(outbox) + 1] = m
      /\ \A i \in 1..Len(outbox) : outbox'[i] = outbox[i]
      /\ \A i \in 1..Len(outbox') : i \in 1..Len(outbox) \/ i = Len(outbox) + 1
      /\ HasOffer(r)' <=> HasOffer(r) \/ IsOffer(m, r)
  BY <1>1, AppendedOutbox
<1>3. ASSUME NEW i \in 1..Len(outbox'), outbox'[i].type \in {"chunk", "finished"},
             outbox'[i].request = r
      PROVE  \E j \in 1..(i - 1) : IsOffer(outbox'[j], r)
  <2>1. CASE i \in 1..Len(outbox)
    <3>1. PICK j \in 1..(i - 1) : IsOffer(outbox[j], r)
      BY <1>2, <1>3, <2>1 DEF Prompt
    <3>2. j \in 1..Len(outbox)
      BY <1>2, <2>1
    <3> QED
      BY <1>2, <3>1, <3>2
  <2>2. CASE i = Len(outbox) + 1
    <3>1. HasOffer(r)
      BY <1>1, <1>2, <1>3, <2>2 DEF Prompt
    <3>2. PICK j \in 1..Len(outbox) : IsOffer(outbox[j], r)
      BY <3>1 DEF HasOffer
    <3>3. j \in 1..(i - 1)
      BY <1>2, <2>2
    <3> QED
      BY <1>2, <3>2, <3>3
  <2> QED
    BY <1>2, <2>1, <2>2
<1> QED
  BY <1>1, <1>2, <1>3 DEF Prompt, IsOffer

\* What is over stays over.
Lasting == issued' >= issued /\ \A r \in Request : Over(r) => Over(r)'

LEMMA OutboxKept ==
    ASSUME OutboxInv, Lasting, issued \in Nat, issued' \in Nat, outbox' = outbox,
           connected' \in BOOLEAN, connected => connected'
    PROVE  OutboxInv'
<1>1. \A i \in 1..Len(outbox) : outbox[i] \in Answer
  BY DEF OutboxInv
<1>2. \A i \in 1..Len(outbox) :
         outbox[i].type \in {"offer", "chunk", "finished"} =>
             outbox[i].request \in Request /\ outbox[i].request \in Nat
  BY <1>1 DEF Answer, Request
<1> QED
  BY <1>1, <1>2 DEF OutboxInv, Lasting, IsOffer

LEMMA OutboxRead ==
    ASSUME OutboxInv, Lasting, issued' = issued, outbox # <<>>, outbox' = Tail(outbox),
           connected' = connected
    PROVE  OutboxInv'
<1>1. /\ outbox' \in Seq(Answer) /\ Len(outbox) \in Nat /\ Len(outbox') = Len(outbox) - 1
      /\ \A i \in 1..Len(outbox') : outbox'[i] = outbox[i + 1] /\ i + 1 \in 1..Len(outbox)
  BY ReadOutbox DEF OutboxInv
<1>2. \A i \in 1..Len(outbox) : outbox[i] \in Answer
  BY DEF OutboxInv
<1>3. ASSUME NEW i \in 1..Len(outbox'), NEW r \in Request,
             outbox'[i].type = "finished", outbox'[i].request = r
      PROVE  Over(r)' /\ \A j \in (i + 1)..Len(outbox') : ~IsOffer(outbox'[j], r)
  <2>1. outbox'[i] = outbox[i + 1] /\ i + 1 \in 1..Len(outbox)
    BY <1>1, <1>3
  <2>2. Over(r) /\ \A j \in ((i + 1) + 1)..Len(outbox) : ~IsOffer(outbox[j], r)
    BY <1>3, <2>1 DEF OutboxInv
  <2>3. ASSUME NEW j \in (i + 1)..Len(outbox')
        PROVE  ~IsOffer(outbox'[j], r)
    <3>1. j \in 1..Len(outbox') /\ j + 1 \in ((i + 1) + 1)..Len(outbox)
      BY <1>1, <1>3, <2>3
    <3> QED
      BY <1>1, <2>2, <3>1
  <2> QED
    BY <2>2, <2>3 DEF Lasting
<1>4. ASSUME NEW i \in 1..Len(outbox'), outbox'[i].type \in {"offer", "chunk", "finished"}
      PROVE  outbox'[i].request <= issued'
  BY <1>1, <1>4 DEF OutboxInv
<1> QED
  BY <1>1, <1>3, <1>4 DEF OutboxInv, IsOffer

LEMMA OutboxTold ==
    ASSUME OutboxInv, LoopInv, Lasting, UNCHANGED <<connected, issued>>, NEW m, Tells(m),
           connected, \A r \in Request : task[r] # None => ~Posted(r)', NothingNew
    PROVE  OutboxInv'
<1>1. m \in Answer /\ outbox' = Append(outbox, m)
  BY DEF Tells
<1>2. /\ outbox' \in Seq(Answer) /\ Len(outbox) \in Nat /\ Len(outbox') = Len(outbox) + 1
      /\ outbox'[Len(outbox) + 1] = m
      /\ \A i \in 1..Len(outbox) : outbox'[i] = outbox[i]
      /\ \A i \in 1..Len(outbox') : i \in 1..Len(outbox) \/ i = Len(outbox) + 1
  BY <1>1, AppendedOutbox DEF OutboxInv
<1>3. m.type \in {"offer", "chunk", "finished"} =>
        m.request \in Request /\ m.request <= issued /\ ~Waits(m.request)
  <2> SUFFICES ASSUME m.type \in {"offer", "chunk", "finished"}
               PROVE  m.request \in Request /\ m.request <= issued /\ ~Waits(m.request)
    OBVIOUS
  <2>1. m.request \in Request /\ m.request \in Nat
    BY <1>1 DEF Answer, Request
  <2>2. issued \in Nat
    BY DEF LoopInv, LoopTypeOK
  <2>3. task[m.request] # None
    BY DEF Tells
  <2> QED
    BY <2>1, <2>2, <2>3 DEF LoopInv, Agrees, Unheard
<1>4. ASSUME NEW i \in 1..Len(outbox'), NEW r \in Request,
             outbox'[i].type = "finished", outbox'[i].request = r
      PROVE  Over(r)' /\ \A j \in (i + 1)..Len(outbox') : ~IsOffer(outbox'[j], r)
  <2>1. CASE i \in 1..Len(outbox)
    <3>1. Over(r) /\ \A j \in (i + 1)..Len(outbox) : ~IsOffer(outbox[j], r)
      BY <1>2, <1>4, <2>1 DEF OutboxInv
    <3>2. Over(r)' /\ task[r] = None
      BY <3>1 DEF Lasting, Over
    <3>3. ~IsOffer(m, r)
      BY <3>2 DEF Tells, IsOffer
    <3>4. \A j \in (i + 1)..Len(outbox') :
             j \in (i + 1)..Len(outbox) \/ j = Len(outbox) + 1
      BY <1>2, <2>1
    <3>5. \A j \in (i + 1)..Len(outbox) : outbox'[j] = outbox[j]
      BY <1>2, <2>1
    <3> QED
      BY <1>2, <3>1, <3>2, <3>3, <3>4, <3>5
  <2>2. CASE i = Len(outbox) + 1
    <3>1. m.type = "finished" /\ m.request = r
      BY <1>2, <1>4, <2>2
    <3>2. task'[r] = None /\ task[r] # None
      BY <3>1 DEF Tells
    <3>3. Over(r)'
      BY <1>3, <3>1, <3>2 DEF Over, NothingNew
    <3>4. \A j \in (i + 1)..Len(outbox') : FALSE
      BY <1>2, <2>2
    <3> QED
      BY <3>3, <3>4
  <2> QED
    BY <1>4, <1>2, <2>1, <2>2
<1>5. ASSUME NEW i \in 1..Len(outbox'), outbox'[i].type \in {"offer", "chunk", "finished"}
      PROVE  outbox'[i].request <= issued'
  BY <1>2, <1>3, <1>5 DEF OutboxInv
<1> QED
  BY <1>2, <1>5, <1>4 DEF OutboxInv, IsOffer

-----------------------------------------------------------------------------
(* The page *)

\* Nothing but pulls and cancellations is posted, and commands may be lost.
NoBegins == \A m \in posts' : m \in posts \/ (m \in Command /\ m.type # "begin")

\* The daemon's side and the commands under way are left as they are.
LEMMA QuietPage ==
    ASSUME PageInv, UNCHANGED <<issued, asked, downloads, task, ended>>, NoBegins
    PROVE  LoopInv' /\ OnlyReads' /\ PostsTypeOK' /\ Lasting
<1>1. LoopInv' /\ OnlyReads'
  BY QuietStep DEF PageInv, OnlyReads
<1>2. \A r : (Waits(r)' <=> Waits(r)) /\ (Unheard(r)' <=> Unheard(r)) /\ (Posted(r)' => Posted(r))
  BY DEF Waits, Unheard, Posted, NoBegins
<1>3. PostsTypeOK'
  BY <1>2 DEF PageInv, PostsTypeOK, NoBegins
<1>4. Lasting
  <2>1. issued \in Nat
    BY DEF PageInv, LoopInv, LoopTypeOK
  <2> QED
    BY <1>2, <2>1 DEF Lasting, Over
<1> QED
  BY <1>1, <1>3, <1>4

\* What is sealed stays sealed while no offer of it comes.
LEMMA SealedStays ==
    ASSUME Lasting, NEW r, Sealed(r), HasOffer(r)' => HasOffer(r)
    PROVE  Sealed(r)'
BY DEF Lasting, Sealed, Over

\* The fetch on screen is the one that was, in all that its check looks at.
SameFetch ==
    /\ fetching # None /\ fetching' \in Shown
    /\ fetching'.request = fetching.request /\ fetching'.offer = fetching.offer
    /\ fetching'.received = fetching.received /\ fetching'.url = fetching.url

\* A step that leaves the outbox alone, and the fetch or none on screen.
LEMMA ScreenKept ==
    ASSUME PageInv, Lasting, issued' = issued, outbox' = outbox, connected' = connected,
           task' = task, checks' \subseteq checks,
           SameFetch \/ fetching' = fetching \/ fetching' = None
    PROVE  OfferFirst' /\ ChecksInv' /\ FetchingInv'
<1>1. \A r : (HasOffer(r)' <=> HasOffer(r)) /\ (Prompt(r)' <=> Prompt(r))
  BY DEF HasOffer, Prompt, Moving
<1>2. \A r : Sealed(r) => Sealed(r)'
  BY <1>1, SealedStays
<1>3. fetching' # None => /\ fetching # None /\ fetching' \in Shown
                          /\ fetching'.request = fetching.request /\ fetching'.offer = fetching.offer
                          /\ fetching'.received = fetching.received /\ fetching'.url = fetching.url
  BY DEF SameFetch, PageInv, FetchingInv
<1>4. OfferFirst'
  BY <1>1, <1>3 DEF PageInv, OfferFirst
<1>5. ChecksInv'
  BY <1>2, <1>3 DEF PageInv, ChecksInv, Fetching, Whole
<1>6. FetchingInv'
  BY <1>2, <1>3 DEF PageInv, FetchingInv, Whole
<1> QED
  BY <1>4, <1>5, <1>6

\* pullFetch.
LEMMA PulledKeeps ==
    ASSUME NEW f \in Shown, Pulled(f)
    PROVE  /\ fetching' \in Shown /\ NoBegins
           /\ fetching'.request = f.request /\ fetching'.offer = f.offer
           /\ fetching'.received = f.received /\ fetching'.url = f.url
<1>1. FetchWindow \in Nat /\ FetchWindow \in 1..MaxGrant
  BY PageAssumption, BoundsAssumption
<1>2. CASE fetching' = f /\ UNCHANGED posts
  BY <1>2 DEF NoBegins
<1>3. CASE fetching' = [f EXCEPT !.outstanding = FetchWindow] /\ Posts(Pull(f.request, FetchWindow))
  <2>1. /\ fetching' \in Shown
        /\ fetching'.request = f.request /\ fetching'.offer = f.offer
        /\ fetching'.received = f.received /\ fetching'.url = f.url
    BY <1>1, <1>3 DEF Shown
  <2>2. f.request \in Request
    BY DEF Shown
  <2>3. Pull(f.request, FetchWindow) \in Command /\ Pull(f.request, FetchWindow).type # "begin"
    BY <1>1, <2>2 DEF Pull, Command
  <2> QED
    BY <1>3, <2>1, <2>3 DEF NoBegins, Posts
<1> QED
  BY <1>2, <1>3 DEF Pulled

LEMMA StartStep ==
    ASSUME PageInv, StartFetch
    PROVE  PageInv'
<1> PICK r : r = issued + 1
  OBVIOUS
<1> PICK f : f = [request |-> r, offer |-> None, card |-> FALSE,
                  received |-> 0, outstanding |-> 0, url |-> FALSE]
  OBVIOUS
<1> PICK m : m = Begin(r, "read")
  OBVIOUS
<1>1. /\ fetching = None /\ issued < MaxRequests /\ issued' = r /\ fetching' = f
      /\ posts' = posts \cup {m} /\ UNCHANGED <<connected, asked, downloads, task, ended, outbox, checks>>
  BY DEF StartFetch, Posts, daemon
<1>2. issued \in Nat /\ r \in Request /\ r \in Nat /\ r > issued /\ issued' \in 0..MaxRequests
  BY <1>1, BoundsAssumption DEF PageInv, LoopInv, LoopTypeOK, Request
<1>3. m \in Command /\ m.type = "begin" /\ m.kind = "read" /\ m.request = r
  BY <1>2 DEF Begin, Command
<1>4. f \in Shown /\ f.request = r /\ f.offer = None /\ f.url = FALSE
  BY <1>2 DEF Shown
<1>5. Unheard(r) /\ ~Waits(r)
  BY <1>2 DEF PageInv, LoopInv, Agrees
<1>6. \A u : /\ Waits(u)' <=> Waits(u)
             /\ Unheard(u)' <=> Unheard(u)
             /\ Posted(u)' => Posted(u) \/ u = r
             /\ HasOffer(u)' <=> HasOffer(u)
             /\ Moving(u)' <=> Moving(u)
  BY <1>1, <1>3 DEF Waits, Unheard, Posted, HasOffer, Moving
<1>7. LoopInv'
  <2>1. asked' \in Seq(Command) /\ Once' /\ issued' >= issued
    BY <1>1, <1>2 DEF PageInv, LoopInv, LoopTypeOK, Once
  <2>2. \A u \in Request : u > issued' => ~Waits(u)'
    <3> SUFFICES ASSUME NEW u \in Request, u > issued' PROVE ~Waits(u)'
      OBVIOUS
    <3>1. u \in Nat /\ u > issued
      BY <1>1, <1>2 DEF Request
    <3> QED
      BY <1>6, <3>1 DEF PageInv, LoopInv, Agrees
  <2> QED
    BY <1>1, <1>2, <1>6, <2>1, <2>2, FrontendAsks DEF PageInv
<1>8. OnlyReads'
  BY <1>1 DEF PageInv, OnlyReads
<1>9. PostsTypeOK'
  <2>1. ASSUME NEW n \in posts, n.type = "begin"
        PROVE  n.request <= issued'
    <3>1. n.request <= issued /\ n.request \in Request
      <4>1. n \in Command
        BY <2>1 DEF PageInv, PostsTypeOK
      <4> QED
        BY <2>1, <4>1 DEF PageInv, PostsTypeOK, Command
    <3>2. n.request \in Nat
      BY <3>1 DEF Request
    <3> QED
      BY <1>1, <1>2, <3>1, <3>2
  <2>2. r <= issued'
    BY <1>1, <1>2
  <2> QED
    BY <1>1, <1>3, <1>5, <1>6, <2>1, <2>2 DEF PageInv, PostsTypeOK
<1>10. Lasting
  <2>1. ASSUME NEW u \in Request, Over(u) PROVE Over(u)'
    <3>1. u \in Nat /\ u <= issued
      BY <2>1 DEF Over, Request
    <3>2. u # r /\ u <= issued'
      BY <1>1, <1>2, <3>1
    <3> QED
      BY <1>1, <1>6, <2>1, <3>2 DEF Over
  <2> QED
    BY <1>1, <1>2, <2>1 DEF Lasting
<1>11. OutboxInv'
  BY <1>1, <1>2, <1>10, OutboxKept DEF PageInv, OutboxInv
<1>12. \A u : Sealed(u) => Sealed(u)'
  BY <1>6, <1>10, SealedStays
<1>13. Prompt(r)'
  <2>1. ~Moving(r)
    BY <1>5 DEF Unheard, Moving
  <2>2. ASSUME NEW i \in 1..Len(outbox), outbox[i].type \in {"chunk", "finished"}
        PROVE  outbox[i].request # r
    <3>1. outbox[i].request <= issued
      BY <2>2 DEF PageInv, OutboxInv
    <3> QED
      BY <1>2, <3>1
  <2> QED
    BY <1>1, <1>6, <2>1, <2>2 DEF Prompt
<1>14. OfferFirst'
  BY <1>1, <1>4, <1>13 DEF OfferFirst
<1>15. ChecksInv'
  <2>1. ASSUME NEW h \in checks PROVE h.request # r
    <3>1. h.request <= issued
      BY <2>1 DEF PageInv, ChecksInv, Sealed, Over
    <3> QED
      BY <1>2, <3>1
  <2>2. \A h \in checks : ~Fetching(h.request)'
    BY <1>1, <1>4, <2>1 DEF Fetching
  <2> QED
    BY <1>1, <1>12, <2>2 DEF PageInv, ChecksInv, Whole
<1>16. FetchingInv'
  <2>1. r <= issued'
    BY <1>1, <1>2
  <2> QED
    BY <1>1, <1>4, <2>1 DEF FetchingInv
<1> QED
  BY <1>7, <1>8, <1>9, <1>11, <1>14, <1>15, <1>16 DEF PageInv

\* What is done on screen: a card accepted, a fetch cancelled or discarded.
LEMMA ScreenStep ==
    ASSUME PageInv, AcceptFetch \/ CancelFetch \/ DiscardFetch
    PROVE  PageInv'
<1>1. UNCHANGED <<connected, issued, asked, downloads, task, ended, outbox, checks>>
  BY DEF AcceptFetch, CancelFetch, DiscardFetch, vars
<1>2. fetching \in Shown /\ fetching # None
  BY DEF AcceptFetch, CancelFetch, DiscardFetch, PageInv, FetchingInv
<1>3. NoBegins /\ (SameFetch \/ fetching' = None)
  <2>1. CASE AcceptFetch
    <3> PICK f : f = [fetching EXCEPT !.card = FALSE]
      OBVIOUS
    <3>1. /\ f \in Shown /\ f.request = fetching.request /\ f.offer = fetching.offer
          /\ f.received = fetching.received /\ f.url = fetching.url
      BY <1>2 DEF Shown
    <3>2. Pulled(f)
      BY <2>1 DEF AcceptFetch
    <3> QED
      BY <1>2, <3>1, <3>2, PulledKeeps DEF SameFetch
  <2>2. CASE CancelFetch
    <3>1. Cancel(fetching.request) \in Command /\ Cancel(fetching.request).type # "begin"
      BY <1>2 DEF Shown, Cancel, Command
    <3> QED
      BY <2>2, <3>1 DEF CancelFetch, Posts, NoBegins
  <2>3. CASE DiscardFetch
    BY <2>3 DEF DiscardFetch, NoBegins
  <2> QED
    BY <2>1, <2>2, <2>3
<1>4. LoopInv' /\ OnlyReads' /\ PostsTypeOK' /\ Lasting
  BY <1>1, <1>3, QuietPage
<1>5. OutboxInv'
  BY <1>1, <1>4, OutboxKept DEF PageInv, OutboxInv, LoopInv, LoopTypeOK
<1> QED
  BY <1>1, <1>3, <1>4, <1>5, ScreenKept DEF PageInv

LEMMA DigestStep ==
    ASSUME PageInv, NEW h \in checks, DigestKnown(h)
    PROVE  PageInv'
<1>1. /\ UNCHANGED <<connected, issued, asked, downloads, task, ended, outbox, posts>>
      /\ checks' = checks \ {h}
  BY DEF DigestKnown, vars
<1>2. NoBegins
  BY <1>1 DEF NoBegins
<1>3. LoopInv' /\ OnlyReads' /\ PostsTypeOK' /\ Lasting
  BY <1>1, <1>2, QuietPage
<1>4. OutboxInv'
  BY <1>1, <1>3, OutboxKept DEF PageInv, OutboxInv, LoopInv, LoopTypeOK
<1>5. CASE fetching' = None \/ fetching' = fetching
  BY <1>1, <1>3, <1>4, <1>5, ScreenKept DEF PageInv
<1>6. CASE h.offer.good /\ Fetching(h.request) /\ fetching' = [fetching EXCEPT !.url = TRUE]
  <2>1. /\ fetching # None /\ fetching \in Shown /\ fetching.request = h.request
        /\ fetching.offer = h.offer /\ fetching.received = h.received
        /\ Whole(h) /\ Sealed(h.request) /\ fetching.request <= issued
    BY <1>6 DEF PageInv, ChecksInv, FetchingInv, Fetching
  <2>2. /\ fetching' \in Shown /\ fetching'.request = fetching.request
        /\ fetching'.offer = fetching.offer /\ fetching'.received = fetching.received
    BY <1>6, <2>1 DEF Shown
  <2>3. \A r : (HasOffer(r)' <=> HasOffer(r))
    BY <1>1 DEF HasOffer
  <2>4. \A r : Sealed(r) => Sealed(r)'
    BY <1>3, <2>3, SealedStays
  <2>5. OfferFirst'
    BY <2>1, <2>2 DEF OfferFirst, Whole
  <2>6. ChecksInv'
    BY <1>1, <2>1, <2>2, <2>4 DEF PageInv, ChecksInv, Fetching, Whole
  <2>7. FetchingInv'
    BY <1>1, <1>6, <2>1, <2>2, <2>4 DEF FetchingInv, Whole
  <2> QED
    BY <1>3, <1>4, <2>5, <2>6, <2>7 DEF PageInv
<1> QED
  BY <1>5, <1>6 DEF DigestKnown

\* A command arrives, the first of its request if it is a begin.
LEMMA ArrivalStep ==
    ASSUME PageInv, NEW m \in posts, PostArrives(m)
    PROVE  PageInv'
<1>1. /\ posts' = posts \ {m} /\ Ask(m)
      /\ UNCHANGED <<connected, issued, downloads, task, ended, outbox, fetching, checks>>
  BY DEF PostArrives, daemon
<1>2. /\ m \in Command /\ m.request \in Request
      /\ m.type = "begin" => /\ m.kind = "read" /\ m.request <= issued
                             /\ Unheard(m.request) /\ ~Waits(m.request)
  <2>1. m \in Command
    BY DEF PageInv, PostsTypeOK
  <2> QED
    BY <2>1 DEF PageInv, PostsTypeOK, Command
<1>3. /\ asked' \in Seq(Command) /\ Once'
      /\ \A r : Waits(r)' <=> Waits(r) \/ (m.type = "begin" /\ m.request = r)
  BY <1>1, <1>2, Sent DEF PageInv, LoopInv
<1>4. issued \in Nat /\ m.request \in Nat /\ issued' = issued /\ issued \in 0..MaxRequests
  BY <1>1, <1>2 DEF PageInv, LoopInv, LoopTypeOK, Request
<1>5. LoopInv'
  <2>1. \A r \in Request : r > issued' => ~Waits(r)'
    <3> SUFFICES ASSUME NEW r \in Request, r > issued' PROVE ~Waits(r)'
      OBVIOUS
    <3>1. r \in Nat /\ r > issued
      BY <1>4 DEF Request
    <3>2. ~Waits(r)
      BY <3>1 DEF PageInv, LoopInv, Agrees
    <3>3. ~(m.type = "begin" /\ m.request = r)
      BY <1>2, <1>4, <3>1
    <3> QED
      BY <1>3, <3>2, <3>3
  <2>2. issued' \in 0..MaxRequests /\ issued' >= issued
    BY <1>4
  <2> QED
    BY <1>1, <1>2, <1>3, <2>1, <2>2, FrontendAsks DEF PageInv
<1>6. OnlyReads'
  <2>1. /\ asked \in Seq(Command) /\ Len(asked) \in Nat /\ asked' = Append(asked, m)
    BY <1>1 DEF PageInv, LoopInv, LoopTypeOK, Ask
  <2>2. /\ Len(asked') = Len(asked) + 1 /\ asked'[Len(asked) + 1] = m
        /\ \A i \in 1..Len(asked) : asked'[i] = asked[i]
    BY <1>2, <2>1
  <2>3. \A i \in 1..Len(asked') : i \in 1..Len(asked) \/ i = Len(asked) + 1
    BY <2>1, <2>2
  <2> QED
    BY <1>1, <1>2, <2>1, <2>2, <2>3 DEF PageInv, OnlyReads
<1>7. \A n \in posts' : n.type = "begin" /\ m.type = "begin" => n.request # m.request
  <2> SUFFICES ASSUME NEW n \in posts', n.type = "begin", m.type = "begin",
                      n.request = m.request
               PROVE  FALSE
    OBVIOUS
  <2>1. n \in posts /\ n # m /\ n \in Command
    BY <1>1 DEF PageInv, PostsTypeOK
  <2>2. n.kind = "read"
    BY <2>1 DEF PageInv, PostsTypeOK
  <2>3. n = [type |-> "begin", request |-> n.request, kind |-> n.kind]
    BY <2>1 DEF Command
  <2>4. m = [type |-> "begin", request |-> m.request, kind |-> m.kind]
    BY <1>2 DEF Command
  <2> QED
    BY <1>2, <2>1, <2>2, <2>3, <2>4
<1>8. PostsTypeOK'
  <2>1. \A r : Unheard(r)' <=> Unheard(r)
    BY <1>1 DEF Unheard
  <2> QED
    BY <1>1, <1>3, <1>7, <2>1 DEF PageInv, PostsTypeOK
<1>9. Lasting
  <2>1. ASSUME NEW r \in Request, Over(r) PROVE Over(r)'
    <3>1. ~(m.type = "begin" /\ m.request = r) /\ ~Posted(r)'
      BY <1>1, <2>1 DEF Over, Posted
    <3> QED
      BY <1>1, <1>3, <2>1, <3>1 DEF Over
  <2> QED
    BY <1>4, <2>1 DEF Lasting
<1>10. OutboxInv'
  BY <1>1, <1>4, <1>9, OutboxKept DEF PageInv, OutboxInv
<1> QED
  BY <1>1, <1>5, <1>6, <1>8, <1>9, <1>10, ScreenKept DEF PageInv

LEMMA LossStep ==
    ASSUME PageInv, NEW m \in posts, PostLost(m)
    PROVE  PageInv'
<1>1. /\ UNCHANGED <<connected, issued, asked, downloads, task, ended, outbox, fetching, checks>>
      /\ posts' = posts \ {m}
  BY DEF PostLost, vars
<1>2. NoBegins
  BY <1>1 DEF NoBegins
<1>3. LoopInv' /\ OnlyReads' /\ PostsTypeOK' /\ Lasting
  BY <1>1, <1>2, QuietPage
<1>4. OutboxInv'
  BY <1>1, <1>3, OutboxKept DEF PageInv, OutboxInv, LoopInv, LoopTypeOK
<1> QED
  BY <1>1, <1>3, <1>4, ScreenKept DEF PageInv

LEMMA BreakStep ==
    ASSUME PageInv, StreamBreaks
    PROVE  PageInv'
<1>1. /\ connected' = FALSE /\ asked' = <<>> /\ outbox' = <<>> /\ Stop(downloads)
      /\ UNCHANGED <<issued, ended, posts, fetching, checks>> /\ Disconnected
  BY DEF StreamBreaks, Disconnected, page
<1>2. LoopInv'
  BY <1>1, GoneStep DEF PageInv
<1>3. \A u \in Request : /\ task'[u] = None <=> task[u] = None
                         /\ task[u] # None => task'[u].kind = task[u].kind
  BY <1>1, StopIsQuiet DEF PageInv
<1>4. (\A u : ~Waits(u)') /\ (\A u : ~HasOffer(u)') /\ (\A u : Posted(u)' <=> Posted(u))
  BY <1>1 DEF Waits, HasOffer, Posted
<1>5. OnlyReads'
  BY <1>1, <1>3 DEF PageInv, OnlyReads
<1>6. \A u \in Request : Unheard(u) => Unheard(u)'
  BY <1>1, <1>3 DEF Unheard, Stop
<1>7. PostsTypeOK'
  <2>1. \A m \in posts : m.request \in Request
    BY DEF PageInv, PostsTypeOK, Command
  <2> QED
    BY <1>1, <1>4, <1>6, <2>1 DEF PageInv, PostsTypeOK
<1>8. Lasting
  <2>1. issued \in Nat
    BY DEF PageInv, LoopInv, LoopTypeOK
  <2> QED
    BY <1>1, <1>3, <1>4, <2>1 DEF Lasting, Over
<1>9. OutboxInv'
  <2>1. outbox' \in Seq(Answer) /\ Len(outbox') = 0 /\ \A i \in 1..Len(outbox') : FALSE
    BY <1>1
  <2>2. connected' \in BOOLEAN
    BY <1>1
  <2> QED
    BY <1>1, <2>1, <2>2, Zenon DEF OutboxInv
<1>10. \A r : Sealed(r) => Sealed(r)'
  BY <1>4, <1>8, SealedStays
<1>11. OfferFirst' /\ ChecksInv' /\ FetchingInv'
  BY <1>1, <1>10 DEF PageInv, OfferFirst, ChecksInv, FetchingInv, Fetching, Whole
<1> QED
  BY <1>2, <1>5, <1>7, <1>9, <1>11 DEF PageInv

LEMMA ReconnectStep ==
    ASSUME PageInv, Reconnects
    PROVE  PageInv'
<1>1. /\ connected' = TRUE /\ fetching' = None
      /\ UNCHANGED <<issued, asked, downloads, task, ended, outbox, posts, checks>>
  BY DEF Reconnects, daemon
<1>2. NoBegins
  BY <1>1 DEF NoBegins
<1>3. LoopInv' /\ OnlyReads' /\ PostsTypeOK' /\ Lasting
  BY <1>1, <1>2, QuietPage
<1>4. OutboxInv'
  BY <1>1, <1>3, OutboxKept DEF PageInv, OutboxInv, LoopInv, LoopTypeOK
<1>5. \A r : HasOffer(r)' <=> HasOffer(r)
  BY <1>1 DEF HasOffer
<1>6. \A r : Sealed(r) => Sealed(r)'
  BY <1>3, <1>5, SealedStays
<1>7. OfferFirst' /\ ChecksInv' /\ FetchingInv'
  BY <1>1, <1>6 DEF PageInv, OfferFirst, ChecksInv, FetchingInv, Fetching, Whole
<1> QED
  BY <1>3, <1>4, <1>7 DEF PageInv

\* What every message that is read leaves as it was.
LEMMA EventRead ==
    ASSUME PageInv, connected, outbox # <<>>, ReadsEvent, NoBegins
    PROVE  /\ LoopInv' /\ OnlyReads' /\ PostsTypeOK' /\ OutboxInv' /\ Lasting
           /\ UNCHANGED <<connected, issued, task>> /\ outbox' = Tail(outbox)
           /\ Head(outbox) \in Answer
           /\ \A r : Sealed(r) => Sealed(r)'
           /\ \A r : IsOffer(Head(outbox), r) => HasOffer(r)
<1>1. /\ UNCHANGED <<connected, issued, asked, downloads, task, ended>>
      /\ outbox' = Tail(outbox)
  BY DEF ReadsEvent, daemon
<1>2. LoopInv' /\ OnlyReads' /\ PostsTypeOK' /\ Lasting
  BY <1>1, QuietPage
<1>3. OutboxInv'
  BY <1>1, <1>2, OutboxRead DEF PageInv
<1>4. /\ Head(outbox) \in Answer /\ Head(outbox) = outbox[1] /\ 1 \in 1..Len(outbox)
      /\ \A r : HasOffer(r)' => HasOffer(r)
  BY <1>1, ReadOutbox DEF PageInv, OutboxInv
<1>5. \A r : Sealed(r) => Sealed(r)'
  BY <1>2, <1>4, SealedStays
<1> QED
  BY <1>1, <1>2, <1>3, <1>4, <1>5 DEF HasOffer

\* A message that leaves the page as it is.
LEMMA EventIgnored ==
    ASSUME PageInv, connected, outbox # <<>>, ReadsEvent, UNCHANGED <<posts, fetching, checks>>,
           fetching # None => ~IsOffer(Head(outbox), fetching.request)
    PROVE  PageInv'
<1>1. NoBegins
  BY DEF NoBegins
<1>2. /\ LoopInv' /\ OnlyReads' /\ PostsTypeOK' /\ OutboxInv' /\ Lasting
      /\ UNCHANGED <<connected, issued, task>> /\ outbox' = Tail(outbox)
      /\ \A r : Sealed(r) => Sealed(r)'
  BY <1>1, EventRead
<1>3. OfferFirst'
  <2> SUFFICES ASSUME fetching # None, fetching.offer = None
               PROVE  Prompt(fetching.request)'
    BY DEF OfferFirst
  <2> PICK r : r = fetching.request
    OBVIOUS
  <2>1. Prompt(r) /\ ~IsOffer(Head(outbox), r)
    BY DEF PageInv, OfferFirst
  <2>2. Prompt(r)'
    BY <1>2, <2>1, PromptRead DEF PageInv, OutboxInv
  <2> QED
    BY <2>2 DEF Prompt
<1>4. ChecksInv' /\ FetchingInv'
  BY <1>2 DEF PageInv, ChecksInv, FetchingInv, Fetching, Whole
<1> QED
  BY <1>2, <1>3, <1>4 DEF PageInv

LEMMA OfferStep ==
    ASSUME PageInv, OfferFetch
    PROVE  PageInv'
<1> PICK m : m = Head(outbox)
  OBVIOUS
<1> PICK r : r = m.request
  OBVIOUS
<1>1. /\ connected /\ outbox # <<>> /\ m.type = "offer" /\ ReadsEvent
      /\ UNCHANGED <<posts, checks>>
  BY DEF OfferFetch, Event
<1>2. NoBegins
  BY <1>1 DEF NoBegins
<1>3. /\ LoopInv' /\ OnlyReads' /\ PostsTypeOK' /\ OutboxInv' /\ Lasting
      /\ UNCHANGED <<connected, issued, task>> /\ m \in Answer
      /\ \A u : Sealed(u) => Sealed(u)'
      /\ HasOffer(r)
  BY <1>1, <1>2, EventRead DEF IsOffer
<1>4. CASE ~Fetching(r)
  <2>1. fetching' = fetching /\ (fetching # None => ~IsOffer(Head(outbox), fetching.request))
    BY <1>4 DEF OfferFetch, Fetching, IsOffer
  <2> QED
    BY <1>1, <2>1, EventIgnored
<1>5. CASE Fetching(r)
  <2> PICK o : o = [length |-> m.length, good |-> m.good]
    OBVIOUS
  <2>1. o \in Offered /\ o # None
    <3>1. o \in Offered
      BY <1>1, <1>3 DEF Answer, Offered
    <3> QED
      BY <3>1, PageAssumption
  <2>2. fetching \in Shown /\ fetching # None /\ fetching.request = r
    BY <1>5 DEF PageInv, FetchingInv, Fetching
  <2>3. fetching' = [fetching EXCEPT !.offer = o, !.card = TRUE]
    BY <1>5 DEF OfferFetch
  <2>4. /\ fetching' \in Shown /\ fetching'.request = r /\ fetching'.offer = o
        /\ fetching'.url = fetching.url
    BY <2>1, <2>2, <2>3 DEF Shown
  <2>5. ~Sealed(r)
    BY <1>3 DEF Sealed
  <2>6. ~fetching.url
    BY <2>2, <2>5 DEF PageInv, FetchingInv
  <2>7. \A h \in checks : h.request # r
    BY <2>5 DEF PageInv, ChecksInv
  <2>8. OfferFirst'
    BY <2>1, <2>4 DEF OfferFirst
  <2>9. ChecksInv'
    BY <1>1, <1>3, <2>4, <2>7 DEF PageInv, ChecksInv, Fetching, Whole
  <2>10. FetchingInv'
    BY <1>3, <2>2, <2>4, <2>6 DEF PageInv, FetchingInv
  <2> QED
    BY <1>3, <2>8, <2>9, <2>10 DEF PageInv
<1> QED
  BY <1>4, <1>5

\* The fetch a chunk or an end is of has its offer.
LEMMA OfferKnown ==
    ASSUME PageInv, connected, outbox # <<>>, Head(outbox).type \in {"chunk", "finished"},
           Fetching(Head(outbox).request)
    PROVE  fetching \in Shown /\ fetching # None /\ fetching.offer \in Offered
<1>1. fetching \in Shown /\ fetching # None
  BY DEF PageInv, FetchingInv, Fetching
<1>2. fetching.offer # None
  <2> SUFFICES ASSUME fetching.offer = None PROVE FALSE
    OBVIOUS
  <2>1. Prompt(fetching.request)
    BY <1>1 DEF PageInv, OfferFirst
  <2> QED
    BY <2>1, PromptHead DEF PageInv, OutboxInv, Fetching
<1> QED
  BY <1>1, <1>2 DEF Shown

LEMMA ChunkStep ==
    ASSUME PageInv, FetchChunk
    PROVE  PageInv'
<1>1. connected /\ outbox # <<>> /\ Head(outbox).type = "chunk" /\ ReadsEvent /\ checks' = checks
  BY DEF FetchChunk, Event
<1>2. CASE UNCHANGED <<fetching, posts>>
  BY <1>1, <1>2, EventIgnored DEF IsOffer
<1>3. CASE Fetching(Head(outbox).request) /\ fetching.received < fetching.offer.length
  <2> PICK n : n = fetching.received + 1
    OBVIOUS
  <2> PICK left : left = IF fetching.outstanding = 0 THEN 0 ELSE fetching.outstanding - 1
    OBVIOUS
  <2> PICK f : f = [fetching EXCEPT !.received = n, !.outstanding = left]
    OBVIOUS
  <2>1. fetching \in Shown /\ fetching # None /\ fetching.offer \in Offered
    BY <1>1, <1>3, OfferKnown
  <2>2. n \in Nat /\ left \in Nat
    BY <2>1 DEF Shown
  <2>3. /\ f \in Shown /\ f.request = fetching.request /\ f.offer = fetching.offer
        /\ f.url = fetching.url
    BY <2>1, <2>2 DEF Shown
  <2>4. Pulled(f) \/ (fetching' = f /\ UNCHANGED posts)
    BY <1>3 DEF FetchChunk
  <2>5. /\ NoBegins /\ fetching' \in Shown /\ fetching'.request = fetching.request
        /\ fetching'.offer = fetching.offer /\ fetching'.url = fetching.url
    BY <2>3, <2>4, PulledKeeps DEF NoBegins
  <2>6. /\ LoopInv' /\ OnlyReads' /\ PostsTypeOK' /\ OutboxInv' /\ Lasting
        /\ UNCHANGED <<connected, issued, task>>
        /\ \A u : Sealed(u) => Sealed(u)'
    BY <1>1, <2>5, EventRead
  <2>7. fetching.received # fetching.offer.length /\ fetching.offer # None
    BY <1>3, <2>1, PageAssumption DEF Shown, Offered
  <2>8. ~fetching.url
    BY <2>1, <2>7 DEF PageInv, FetchingInv, Whole
  <2>9. \A h \in checks : h.request # fetching.request
    BY <2>1, <2>7 DEF PageInv, ChecksInv, Fetching, Whole
  <2>10. OfferFirst'
    BY <2>5, <2>7 DEF OfferFirst
  <2>11. ChecksInv'
    BY <1>1, <2>5, <2>6, <2>9 DEF PageInv, ChecksInv, Fetching, Whole
  <2>12. FetchingInv'
    BY <2>1, <2>5, <2>6, <2>8 DEF PageInv, FetchingInv
  <2> QED
    BY <2>6, <2>10, <2>11, <2>12 DEF PageInv
<1> QED
  BY <1>2, <1>3 DEF FetchChunk

LEMMA FinishStep ==
    ASSUME PageInv, FinishFetch
    PROVE  PageInv'
<1> PICK r : r = Head(outbox).request
  OBVIOUS
<1>1. /\ connected /\ outbox # <<>> /\ Head(outbox).type = "finished" /\ ReadsEvent
      /\ posts' = posts
  BY DEF FinishFetch, Event
<1>2. CASE ~Fetching(r)
  <2>1. UNCHANGED <<fetching, checks>>
    BY <1>2 DEF FinishFetch
  <2> QED
    BY <1>1, <2>1, EventIgnored DEF IsOffer
<1>3. CASE Fetching(r)
  <2>1. fetching \in Shown /\ fetching # None /\ fetching.request = r /\ fetching.offer \in Offered
    BY <1>1, <1>3, OfferKnown DEF Fetching
  <2>2. NoBegins
    BY <1>1 DEF NoBegins
  <2>3. /\ LoopInv' /\ OnlyReads' /\ PostsTypeOK' /\ OutboxInv' /\ Lasting
        /\ UNCHANGED <<connected, issued, task>> /\ outbox' = Tail(outbox)
        /\ Head(outbox) \in Answer /\ \A u : Sealed(u) => Sealed(u)'
    BY <1>1, <2>2, EventRead
  <2>4. CASE fetching.received # fetching.offer.length
    <3>1. fetching' = None /\ checks' = checks
      BY <1>3, <2>4 DEF FinishFetch
    <3>2. OfferFirst' /\ ChecksInv' /\ FetchingInv'
      BY <2>3, <3>1 DEF PageInv, OfferFirst, ChecksInv, FetchingInv, Fetching, Whole
    <3> QED
      BY <2>3, <3>2 DEF PageInv
  <2>5. CASE fetching.received = fetching.offer.length
    <3>1. fetching' = fetching /\ checks' = checks \cup {fetching}
      BY <1>3, <2>5 DEF FinishFetch
    <3>2. /\ Len(outbox) \in Nat /\ Len(outbox') = Len(outbox) - 1
          /\ Head(outbox) = outbox[1] /\ 1 \in 1..Len(outbox)
          /\ \A i \in 1..Len(outbox') : outbox'[i] = outbox[i + 1] /\ i + 1 \in 1..Len(outbox)
      BY <1>1, <2>3, ReadOutbox DEF PageInv, OutboxInv
    <3>3. r \in Request
      BY <2>1 DEF Shown
    <3>4. Over(r) /\ \A j \in (1 + 1)..Len(outbox) : ~IsOffer(outbox[j], r)
      BY <1>1, <3>2, <3>3 DEF PageInv, OutboxInv
    <3>5. ~HasOffer(r)'
      <4>1. ASSUME NEW i \in 1..Len(outbox') PROVE ~IsOffer(outbox'[i], r)
        <5>1. i + 1 \in (1 + 1)..Len(outbox) /\ outbox'[i] = outbox[i + 1]
          BY <3>2, <4>1
        <5> QED
          BY <3>4, <5>1
      <4> QED
        BY <4>1 DEF HasOffer, IsOffer
    <3>6. Sealed(r)'
      BY <2>3, <3>3, <3>4, <3>5 DEF Sealed, Lasting
    <3>7. fetching.offer # None
      BY <2>1, PageAssumption
    <3>8. OfferFirst'
      BY <3>1, <3>7 DEF OfferFirst
    <3>9. ChecksInv'
      <4>1. Whole(fetching)
        BY <2>5, <3>7 DEF Whole
      <4>2. ASSUME NEW h \in checks
            PROVE  /\ h \in Shown /\ Whole(h) /\ Sealed(h.request)'
                   /\ Fetching(h.request) =>
                         fetching.offer = h.offer /\ fetching.received = h.received
        BY <2>3, <4>2 DEF PageInv, ChecksInv
      <4> QED
        BY <2>1, <3>1, <3>6, <4>1, <4>2 DEF ChecksInv, Fetching, Whole
    <3>10. FetchingInv'
      BY <2>3, <3>1 DEF PageInv, FetchingInv, Whole
    <3> QED
      BY <2>3, <3>8, <3>9, <3>10 DEF PageInv
  <2> QED
    BY <2>4, <2>5
<1> QED
  BY <1>2, <1>3

\* A step of the daemon.
LEMMA DaemonPageStep ==
    ASSUME PageInv, DaemonStep, UNCHANGED page
    PROVE  PageInv'
<1>1. LoopInv' /\ NothingNew /\ UNCHANGED <<posts, fetching, checks>>
  BY DaemonKeeps, DaemonTells DEF PageInv, page
<1>2. OnlyReads' /\ UNCHANGED <<connected, issued>> /\ \A r : Posted(r)' <=> Posted(r)
  BY <1>1 DEF NothingNew, Posted
<1>3. PostsTypeOK'
  <2>1. \A m \in posts : m.request \in Request
    BY DEF PageInv, PostsTypeOK, Command
  <2> QED
    BY <1>1, <1>2, <2>1 DEF PageInv, PostsTypeOK, NothingNew
<1>4. issued \in Nat
  BY DEF PageInv, LoopInv, LoopTypeOK
<1>5. Lasting
  BY <1>1, <1>2, <1>4 DEF Lasting, Over, NothingNew
<1>6. ASSUME OutboxInv', \A r : Sealed(r) => Sealed(r)',
             \A r \in Request : connected /\ Prompt(r) => Prompt(r)'
      PROVE  PageInv'
  <2>1. OfferFirst'
    <3>1. fetching # None => fetching.request \in Request
      BY DEF PageInv, FetchingInv, Shown
    <3> QED
      BY <1>1, <1>2, <1>6, <3>1 DEF PageInv, OfferFirst
  <2>2. ChecksInv' /\ FetchingInv'
    BY <1>1, <1>2, <1>6 DEF PageInv, ChecksInv, FetchingInv, Fetching, Whole
  <2> QED
    BY <1>1, <1>2, <1>3, <1>6, <2>1, <2>2 DEF PageInv
<1>7. CASE Silent
  <2>1. outbox' = outbox /\ (connected => \A r \in Request : Moving(r)' => Moving(r))
    BY <1>7 DEF Silent
  <2>2. OutboxInv'
    BY <1>2, <1>4, <1>5, <2>1, OutboxKept DEF PageInv, OutboxInv
  <2>3. \A r : HasOffer(r)' <=> HasOffer(r)
    BY <2>1 DEF HasOffer
  <2>4. \A r : Sealed(r) => Sealed(r)'
    BY <1>5, <2>3, SealedStays
  <2>5. \A r \in Request : connected /\ Prompt(r) => Prompt(r)'
    BY <2>1, <2>3 DEF Prompt
  <2> QED
    BY <1>6, <2>2, <2>4, <2>5
<1>8. ASSUME NEW m, Tells(m) PROVE PageInv'
  <2>1. connected /\ m \in Answer /\ outbox' = Append(outbox, m)
    BY <1>8 DEF Tells
  <2>2. \A r \in Request : task[r] # None => ~Posted(r)'
    BY <1>2 DEF PageInv, PostsTypeOK, Posted, Unheard
  <2>3. OutboxInv'
    BY <1>1, <1>2, <1>5, <1>8, <2>1, <2>2, OutboxTold DEF PageInv
  <2>4. \A r : HasOffer(r)' <=> HasOffer(r) \/ IsOffer(m, r)
    BY <2>1, AppendedOutbox DEF PageInv, OutboxInv
  <2>5. ASSUME NEW r, Sealed(r) PROVE Sealed(r)'
    <3>1. ~IsOffer(m, r)
      BY <1>8, <2>5 DEF Tells, IsOffer, Sealed, Over
    <3> QED
      BY <1>5, <2>4, <2>5, <3>1, SealedStays
  <2>6. \A r \in Request : connected /\ Prompt(r) => Prompt(r)'
    BY <1>8, PromptTold DEF PageInv, OutboxInv
  <2> QED
    BY <1>6, <2>3, <2>5, <2>6
<1> QED
  BY <1>7, <1>8, DaemonTells DEF PageInv

LEMMA PageStart ==
    ASSUME PageInit
    PROVE  PageInv
<1>1. /\ asked = <<>> /\ outbox = <<>> /\ connected = TRUE /\ issued = 0 /\ posts = {}
      /\ fetching = None /\ checks = {} /\ downloads = {} /\ ended = {}
      /\ task = [r \in Request |-> None]
  BY DEF PageInit, Init
<1>2. LoopTypeOK /\ Once /\ \A r : ~Waits(r)
  BY <1>1, BoundsAssumption DEF LoopTypeOK, Once, Waits
<1>3. LoopInv
  BY <1>1, <1>2 DEF LoopInv, Agrees, Unheard
<1>4. OnlyReads
  BY <1>1 DEF OnlyReads
<1>5. PostsTypeOK /\ OfferFirst /\ ChecksInv /\ FetchingInv
  BY <1>1 DEF PostsTypeOK, OfferFirst, ChecksInv, FetchingInv
<1>6. OutboxInv
  <2>1. outbox \in Seq(Answer) /\ \A i \in 1..Len(outbox) : FALSE
    BY <1>1
  <2>2. connected \in BOOLEAN
    BY <1>1
  <2> QED
    BY <1>1, <2>1, <2>2, Zenon DEF OutboxInv
<1> QED
  BY <1>3, <1>4, <1>5, <1>6 DEF PageInv

LEMMA PageStep ==
    ASSUME PageInv, [PageNext]_pageVars
    PROVE  PageInv'
<1>1. CASE UNCHANGED pageVars
  <2>1. UNCHANGED <<connected, issued, asked, downloads, task, ended, outbox, posts, fetching, checks>>
    BY <1>1 DEF pageVars, page, vars
  <2>2. NoBegins
    BY <2>1 DEF NoBegins
  <2>3. LoopInv' /\ OnlyReads' /\ PostsTypeOK' /\ Lasting
    BY <2>1, <2>2, QuietPage
  <2>4. OutboxInv'
    BY <2>1, <2>3, OutboxKept DEF PageInv, OutboxInv, LoopInv, LoopTypeOK
  <2> QED
    BY <2>1, <2>3, <2>4, ScreenKept DEF PageInv
<1>2. CASE ErrorShown
  <2>1. /\ connected /\ outbox # <<>> /\ ReadsEvent /\ UNCHANGED <<posts, fetching, checks>>
        /\ Head(outbox).type = "error"
    BY <1>2 DEF ErrorShown, Event, page
  <2> QED
    BY <2>1, EventIgnored DEF IsOffer
<1>3. CASE ReadEvent
  BY <1>2, <1>3, OfferStep, ChunkStep, FinishStep DEF ReadEvent
<1>4. CASE PageNext
  BY <1>3, <1>4, StartStep, ScreenStep, BreakStep, ReconnectStep, ArrivalStep, LossStep,
     DigestStep, DaemonPageStep DEF PageNext
<1> QED
  BY <1>1, <1>4

\* Whatever fetches are cancelled, finished or replaced while a digest is
\* computed, in whatever order the page's commands arrive, across breaks of the
\* stream: what the page puts a Save button under is the whole file its host
\* attested (startFetch to cancelFetch of app.html, download of server.rs).
THEOREM ShownAlwaysVerified == PageSpec => []ShownIsVerified
<1>1. PageInit => PageInv
  BY PageStart
<1>2. PageInv /\ [PageNext]_pageVars => PageInv'
  BY PageStep
<1>3. PageInv => ShownIsVerified
  BY DEF PageInv, FetchingInv, Whole, ShownIsVerified
<1> QED
  BY <1>1, <1>2, <1>3, PTL DEF PageSpec

\* The table and the tasks agree whichever client drives them: also when its
\* commands overtake one another and it comes back as another client.
THEOREM TableMatchesForPage == PageSpec => []TableMatchesTasks
<1>1. PageInit => PageInv
  BY PageStart
<1>2. PageInv /\ [PageNext]_pageVars => PageInv'
  BY PageStep
<1>3. PageInv => TableMatchesTasks
  BY DEF PageInv, LoopInv, Agrees, TableMatchesTasks
<1> QED
  BY <1>1, <1>2, <1>3, PTL DEF PageSpec
=============================================================================
