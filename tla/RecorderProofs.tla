---------------------------- MODULE RecorderProofs ----------------------------
(***************************************************************************)
(* Proofs about NetworkGuard, for any number of replays, tabs, rule ids and *)
(* failures (GuardSound), about BrowserRecording, for any number of events *)
(* (RecordingSound), and about NetworkCapture, for any budgets and any     *)
(* number of tabs, requests and navigations (CaptureSound).                *)
(*                                                                         *)
(* The turns of a tab are kept nowhere: each replay only knows the one     *)
(* that it waits for. The invariant gives every replay a place (InLine) of *)
(* its own, such that who waits, waits for the one just before it: when    *)
(* that one ends, the next is the first. The rules are safe because only   *)
(* the head of the queue of installations has read the browser's rules     *)
(* (Installs), so that its ids are still free when it adds its own         *)
(* (AddsFree), while removals, which no queue orders, remove only the ids  *)
(* that the remover owns (Behind, Owned, OneRulePerId).                    *)
(*                                                                         *)
(* A recording is attended because somebody is always about to look at the *)
(* document that the frame shows: the events that tell of it wait in a     *)
(* queue, the handler under way is at the first of them, and the recording *)
(* may have been written before or after. The invariant (Story) says of    *)
(* each of them what it still knows, and which of them repairs a recorder  *)
(* that a navigation stopped. It holds until a call of the user crosses a  *)
(* navigation or the frame goes back, the exceptions of the properties.    *)
(*                                                                         *)
(* The totals of the capture are sums over tabs and records: what a sum    *)
(* does when one summand changes is proved first (TotalChanged), from the  *)
(* definition of the fold. The sessions, what is being written and what is *)
(* stored keep to all budgets (GoodSessions), so that restoring removes    *)
(* nothing; a session is credited only with a snapshot that has it as it   *)
(* is (Creditable). A session that is bound to an older document still has *)
(* a navigation to be told of, and after each that it will follow another  *)
(* one takes it on (Follower); while the worker is restored, what is       *)
(* stored waits to be told (Waits).                                        *)
(***************************************************************************)
EXTENDS BrowserRecording, NetworkGuard, NetworkCapture, FiniteSetTheorems, SequenceTheorems,
        WellFoundedInduction, TLAPS

-----------------------------------------------------------------------------
(* The recording of one frame. *)

\* The recording, and the document that its recorder was last heard of in, also while the
\* worker is off.
TheRecording == IF brLife = "on" THEN brSession ELSE brStored
Owner == IF brLife = "on" THEN brOwned ELSE IF Recording(brStored) THEN brStored.document ELSE 0

\* What the properties except did not happen, and no recording is about to take the place of
\* this one.
Clean == ~brCrossed /\ ~brBack /\ ~brLost /\ brShown # 0
Starting == brCall # NoRecording /\ brCall.kind = "start" /\ brCall.step # "write"
Undisturbed == Clean /\ ~Starting

Writing == brCall # NoRecording /\ brCall.kind = "start" /\ brCall.step = "write"
Getting == brCall # NoRecording /\ brCall.kind = "get"
Continuing == brTask # NoRecording /\ brTask.step \in {"probe", "run", "reuse"}

\* Documents are numbered as they are shown.
Latest == IF brMoving THEN brNavigations ELSE brNavigations + 1

RecordingsTo(n) == [id : 1 .. MaxBrEvents, active : BOOLEAN, document : 0 .. n,
                    available : BOOLEAN, navigated : BOOLEAN]
MaybeTo(n) == RecordingsTo(n) \cup {NoRecording}
EventsTo(n) == [kind : {"before", "committed", "completed", "failed", "same"}, document : 1 .. n]
TasksTo(n) ==
    [step : {"get"}, read : MaybeTo(n), document : 0 .. n]
    \cup [step : {"stop", "probe", "run", "reuse", "resume", "record"}, read : RecordingsTo(n),
          document : 0 .. n]
CallsTo(n) ==
    [kind : {"start"}, step : {"remove"}, read : {NoRecording}]
    \cup [kind : {"start", "stop", "clear", "get"}, step : {"page", "start", "write", "resume"},
          read : RecordingsTo(n)]

\* Every variable has its type, and names no document that was not shown yet.
PageShape ==
    /\ brShown \in 0 .. Latest /\ (brShown = 0 => ~brMoving)
    /\ brPages \in [BrDocuments -> Recorders]
    /\ \A d \in BrDocuments : brPages[d].id # 0 => d <= Latest
    /\ \A d \in BrDocuments : brPages[d].active => brPages[d].id # 0
WorkShape ==
    /\ brQueue \in Seq(EventsTo(Latest))
    /\ brTask \in TasksTo(Latest) \cup {NoRecording}
    /\ brCall \in CallsTo(Latest) \cup {NoRecording} /\ (brCall # NoRecording => brCalls # 0)
MemoryShape ==
    /\ brSession \in MaybeTo(Latest) /\ brStored \in MaybeTo(Latest) /\ brWrite \in MaybeTo(Latest)
    /\ brOwned \in 0 .. Latest
    /\ brPersistence \in {"pending", "persisted", "degraded"}
    /\ brMoving \in BOOLEAN /\ brTimer \in BOOLEAN /\ brWriting \in BOOLEAN /\ brMutated \in BOOLEAN
    /\ brFailed \in BOOLEAN /\ brOver \in BOOLEAN /\ brCrossed \in BOOLEAN /\ brBack \in BOOLEAN
    /\ brLost \in BOOLEAN
    /\ brLife \in {"off", "restoring", "on"}
    /\ brCalls \in 0 .. MaxBrEvents /\ brNavigations \in 0 .. MaxBrEvents
    /\ brFaults \in 0 .. MaxBrEvents
Shapes == PageShape /\ WorkShape /\ MemoryShape

\* What is not stored yet has a write due or under way, and is not called persisted.
Persists ==
    /\ brWriting => ~brTimer /\ brLife = "on"
    /\ brTimer => brMutated /\ brLife = "on"
    /\ brMutated => brTimer \/ brWriting
    /\ brWriting \/ brTimer => brPersistence # "persisted"
    /\ brWriting /\ ~brMutated => brWrite = brSession
    /\ brLife = "on" /\ ~brTimer /\ ~brWriting /\ ~brFailed => brStored = brSession
    /\ brPersistence = "persisted" /\ brSession # NoRecording => brStored = brSession
    /\ brLife # "on" => brSession = NoRecording /\ brOwned = 0 /\ ~brFailed /\ brTask = NoRecording
                        /\ brCall = NoRecording
    /\ brShown = 0 /\ ~brLost => TheRecording = NoRecording

\* The commit of the document that is shown has not been looked at. What was queued before is
\* about other documents, what was queued after it about this one.
Fresh == \E i \in 1 .. Len(brQueue) : brQueue[i] = [kind |-> "committed", document |-> brShown]
InOrder ==
    /\ \A i \in 1 .. Len(brQueue) : brQueue[i] = [kind |-> "committed", document |-> brShown] =>
         /\ \A j \in 1 .. i - 1 : brQueue[j].document # brShown
         /\ \A j \in i + 1 .. Len(brQueue) : brQueue[j].document = brShown /\ brQueue[j].kind # "committed"
    /\ ~Fresh => \A i \in 1 .. Len(brQueue) : brQueue[i].document = brShown /\ brQueue[i].kind # "committed"

\* After the first k events nothing is recorded within the document, and no navigation can begin,
\* before a navigation has failed.
Wants(i) == IF i > Len(brQueue) THEN ~brMoving ELSE brQueue[i].kind = "same"
Repaired(k) ==
    \A i \in k + 1 .. Len(brQueue) + 1 :
        Wants(i) => \E j \in k + 1 .. i - 1 : brQueue[j].kind = "failed"
Archived ==
    \A k \in 1 .. Len(brQueue) : brQueue[k] = [kind |-> "before", document |-> brShown] => Repaired(k)

\* What the event under way and a status call have read is of the same recording; what is not
\* fresh is of the document shown.
TaskKnown ==
    brTask # NoRecording =>
        /\ Recording(brTask.read) <=> Recording(TheRecording)
        /\ brTask.step # "get" => Recording(brTask.read)
        /\ Continuing => brTask.read.document = brTask.document
        /\ Recording(brTask.read) =>
             /\ brTask.read.id = TheRecording.id /\ brTask.document # 0 /\ brTask.read.document # 0
             /\ Fresh => brTask.document # brShown /\ brTask.read.document # brShown
             /\ ~Fresh => brTask.document = brShown /\ brTask.read.document = brShown
             /\ ~Fresh /\ brTask.step = "reuse" => Recorder.id = brTask.read.id
GetKnown ==
    Getting =>
        /\ brCall.step = "resume" => Recording(brCall.read)
        /\ Recording(brCall.read) <=> Recording(TheRecording)
        /\ Recording(brCall.read) =>
             /\ brCall.read.id = TheRecording.id /\ brCall.read.document # 0
             /\ brCall.read.document = brShown =>
                  ~Fresh /\ Owner = brShown /\ Recorder.id = brCall.read.id
RecordingKnown ==
    Recording(TheRecording) =>
        /\ TheRecording.document # 0 /\ Owner # 0
        /\ Fresh => TheRecording.document # brShown /\ Owner # brShown
        /\ ~Fresh /\ ~Continuing => TheRecording.document = brShown
        /\ TheRecording.document = brShown =>
             /\ Owner = brShown /\ TheRecording.id = Recorder.id
             /\ ~TheRecording.navigated => Recorder.active
RecorderKnown ==
    Recorder.active =>
        ~Fresh /\ (Writing \/ (Recording(TheRecording) /\ TheRecording.id = Recorder.id))
\* A recorder that was stopped for a navigation is not forgotten.
Attended ==
    /\ (brTask # NoRecording /\ brTask.step = "record" /\ ~Fresh) => Recorder.active
    /\ (Recording(TheRecording) /\ ~Fresh /\ ~Continuing /\ ~Recorder.active) =>
         (brTask # NoRecording /\ brTask.step = "resume") \/ Repaired(0)
    /\ (brTask # NoRecording /\ brTask.step \in {"get", "stop"} /\ Recording(brTask.read) /\ ~Fresh) =>
         Repaired(0)
Story == InOrder /\ Archived /\ TaskKnown /\ GetKnown /\ RecordingKnown /\ RecorderKnown /\ Attended

\* While the recording is changed by the user nothing else goes on.
ChangesAlone ==
    (brCall # NoRecording /\ brCall.kind # "get") =>
        /\ brTask = NoRecording /\ brQueue = <<>>
        /\ brCall.kind # "start" => brCall.read = TheRecording
        /\ brCall.kind = "start" => ~brOver
        /\ brCall.step \in {"start", "write"} =>
             TheRecording = NoRecording /\ brCall.read.document = brShown /\ Recording(brCall.read)
        /\ brCall.step = "write" =>
             Recorder = [id |-> brCall.read.id, active |-> TRUE] /\ brOwned = brShown

\* What the user has ended is over.
EndedStays == Clean => ChangesAlone /\ (brOver => ~Recording(TheRecording))

BrInv == Shapes /\ Persists /\ EndedStays /\ (Undisturbed => Story)

-----------------------------------------------------------------------------
(* Records and sequences *)

LEMMA LatestNat == ASSUME Shapes PROVE Latest \in Nat /\ Latest <= MaxBrEvents + 1
  BY BrowserRecordingConstants DEF Shapes, MemoryShape, Latest

\* What names no later document than n names none later than m.
LEMMA Widen ==
    ASSUME NEW n \in Nat, NEW m \in Nat, n <= m
    PROVE  /\ RecordingsTo(n) \subseteq RecordingsTo(m) /\ MaybeTo(n) \subseteq MaybeTo(m)
           /\ EventsTo(n) \subseteq EventsTo(m) /\ Seq(EventsTo(n)) \subseteq Seq(EventsTo(m))
           /\ TasksTo(n) \subseteq TasksTo(m) /\ CallsTo(n) \subseteq CallsTo(m)
<1>0. 0 .. n \subseteq 0 .. m /\ 1 .. n \subseteq 1 .. m
  OBVIOUS
<1>1. RecordingsTo(n) \subseteq RecordingsTo(m)
  BY <1>0 DEF RecordingsTo
<1>2. MaybeTo(n) \subseteq MaybeTo(m)
  BY <1>1 DEF MaybeTo
<1>3. EventsTo(n) \subseteq EventsTo(m)
  BY <1>0 DEF EventsTo
<1>4. Seq(EventsTo(n)) \subseteq Seq(EventsTo(m))
  BY <1>3
<1>5. TasksTo(n) \subseteq TasksTo(m)
  BY <1>0, <1>1, <1>2 DEF TasksTo
<1>6. CallsTo(n) \subseteq CallsTo(m)
  BY <1>1 DEF CallsTo
<1>7. QED
  BY <1>1, <1>2, <1>3, <1>4, <1>5, <1>6

LEMMA WidenAll ==
    ASSUME NEW n \in Nat, n <= MaxBrEvents + 1
    PROVE  /\ RecordingsTo(n) \subseteq Recordings /\ MaybeTo(n) \subseteq MaybeRecording
           /\ TasksTo(n) \subseteq BrTasks /\ CallsTo(n) \subseteq CallsOfUser
           /\ NoRecording \notin RecordingsTo(n) /\ NoRecording \notin TasksTo(n)
           /\ NoRecording \notin CallsTo(n)
<1> DEFINE m == MaxBrEvents + 1
<1>1. m \in Nat
  BY BrowserRecordingConstants
<1>2. RecordingsTo(m) = Recordings /\ MaybeTo(m) = MaybeRecording
  BY DEF RecordingsTo, Recordings, MaybeTo, MaybeRecording
<1>3. TasksTo(m) = BrTasks /\ CallsTo(m) = CallsOfUser
  BY <1>2 DEF TasksTo, BrTasks, CallsTo, CallsOfUser
<1>4. QED
  BY <1>1, <1>2, <1>3, Widen, BrowserRecordingNone

LEMMA RecordingParts ==
    ASSUME NEW n \in Nat, NEW r \in RecordingsTo(n)
    PROVE  /\ r.id \in 1 .. MaxBrEvents /\ r.id # 0 /\ r.active \in BOOLEAN /\ r.document \in 0 .. n
           /\ r.available \in BOOLEAN /\ r.navigated \in BOOLEAN
  BY DEF RecordingsTo

LEMMA TaskParts ==
    ASSUME NEW n \in Nat, NEW t \in TasksTo(n)
    PROVE  /\ t.step \in {"get", "stop", "probe", "run", "reuse", "resume", "record"}
           /\ t.read \in MaybeTo(n) /\ t.document \in 0 .. n
           /\ t.step # "get" => t.read \in RecordingsTo(n)
  BY DEF TasksTo, MaybeTo

LEMMA CallParts ==
    ASSUME NEW n \in Nat, NEW c \in CallsTo(n)
    PROVE  /\ c.kind \in {"start", "stop", "clear", "get"}
           /\ c.step \in {"remove", "page", "start", "write", "resume"}
           /\ c.step = "remove" => c.kind = "start"
           /\ c.step # "remove" => c.read \in RecordingsTo(n)
  BY DEF CallsTo

LEMMA TaskMade ==
    ASSUME NEW n \in Nat, NEW document \in 0 .. n,
           NEW step \in {"get", "stop", "probe", "run", "reuse", "resume", "record"},
           NEW read \in MaybeTo(n), step # "get" => read \in RecordingsTo(n)
    PROVE  [step |-> step, read |-> read, document |-> document] \in TasksTo(n)
<1>1. CASE step = "get"
  BY <1>1 DEF TasksTo
<1>2. CASE step # "get"
  BY <1>2 DEF TasksTo
<1>3. QED
  BY <1>1, <1>2

Stepped(t, step) == [t EXCEPT !.step = step]

LEMMA TaskGoesOn ==
    ASSUME NEW n \in Nat, NEW t \in TasksTo(n), t.step # "get", NEW step \in {"reuse", "run"}
    PROVE  /\ Stepped(t, step) \in TasksTo(n) /\ Stepped(t, step).step = step
           /\ Stepped(t, step).read = t.read /\ Stepped(t, step).document = t.document
  BY DEF TasksTo, Stepped

LEMMA CallGoesOn ==
    ASSUME NEW n \in Nat, NEW c \in CallsTo(n), c.step # "remove", NEW step \in {"write", "resume"}
    PROVE  /\ Stepped(c, step) \in CallsTo(n) /\ Stepped(c, step).step = step
           /\ Stepped(c, step).read = c.read /\ Stepped(c, step).kind = c.kind
  BY DEF CallsTo, Stepped

LEMMA QueueTail ==
    ASSUME NEW E, NEW q \in Seq(E), q # <<>>
    PROVE  /\ Tail(q) \in Seq(E) /\ Head(q) = q[1] /\ q[1] \in E
           /\ Len(q) \in Nat \ {0} /\ Len(Tail(q)) = Len(q) - 1
           /\ \A i \in 1 .. Len(q) - 1 : Tail(q)[i] = q[i + 1]
  BY HeadTailProperties

LEMMA QueueAppend ==
    ASSUME NEW E, NEW q \in Seq(E), NEW e \in E
    PROVE  /\ Append(q, e) \in Seq(E) /\ Len(q) \in Nat /\ Len(Append(q, e)) = Len(q) + 1
           /\ \A i \in 1 .. Len(q) : Append(q, e)[i] = q[i]
           /\ Append(q, e)[Len(q) + 1] = e
  BY AppendProperties

LEMMA QueueTwo ==
    ASSUME NEW E, NEW q \in Seq(E), NEW e \in E, NEW f \in E
    PROVE  /\ q \o <<e, f>> \in Seq(E) /\ Len(q) \in Nat /\ Len(q \o <<e, f>>) = Len(q) + 2
           /\ \A i \in 1 .. Len(q) : (q \o <<e, f>>)[i] = q[i]
           /\ (q \o <<e, f>>)[Len(q) + 1] = e /\ (q \o <<e, f>>)[Len(q) + 2] = f
<1>1. <<e, f>> \in Seq(E) /\ Len(<<e, f>>) = 2 /\ <<e, f>>[1] = e /\ <<e, f>>[2] = f
  OBVIOUS
<1>2. QED
  BY <1>1, ConcatProperties

LEMMA Events ==
    ASSUME Shapes
    PROVE  /\ Len(brQueue) \in Nat /\ DOMAIN brQueue = 1 .. Len(brQueue)
           /\ \A i \in 1 .. Len(brQueue) : brQueue[i] \in EventsTo(Latest)
           /\ \A i \in 1 .. Len(brQueue) :
                 brQueue[i] = [kind |-> brQueue[i].kind, document |-> brQueue[i].document]
<1>1. brQueue \in Seq(EventsTo(Latest))
  BY DEF Shapes, WorkShape
<1>2. \A i \in 1 .. Len(brQueue) : brQueue[i] \in EventsTo(Latest)
  BY <1>1
<1>3. QED
  BY <1>1, <1>2 DEF EventsTo

-----------------------------------------------------------------------------
(* The queue of navigation events *)

LEMMA QueueSame ==
    ASSUME UNCHANGED <<brQueue, brShown>>
    PROVE  Fresh' = Fresh /\ (InOrder => InOrder')
  BY DEF Fresh, InOrder

LEMMA RepairsSame ==
    ASSUME UNCHANGED <<brQueue, brMoving>>
    PROVE  \A k \in Int : Repaired(k) => Repaired(k)'
  BY DEF Repaired, Wants

LEMMA ArchivedSame ==
    ASSUME Shapes, UNCHANGED <<brQueue, brShown, brMoving>>, Archived
    PROVE  Archived'
<1>1. \A k \in 1 .. Len(brQueue) : Repaired(k) => Repaired(k)'
  BY RepairsSame, Events
<1>2. QED
  BY <1>1 DEF Archived

LEMMA NothingQueued ==
    ASSUME brQueue = <<>>
    PROVE  /\ ~Fresh /\ InOrder /\ Archived /\ (Repaired(0) => brMoving)
  BY DEF Fresh, InOrder, Archived, Repaired, Wants

\* An event of the document shown that is no commit joins the queue.
LEMMA EventQueued ==
    ASSUME Shapes, InOrder, NEW kind \in {"before", "failed", "same"}, brShown # 0,
           brQueue' = Append(brQueue, [kind |-> kind, document |-> brShown]), brShown' = brShown
    PROVE  /\ Fresh' = Fresh /\ InOrder'
           /\ Len(brQueue') = Len(brQueue) + 1 /\ Len(brQueue) \in Nat
           /\ \A i \in 1 .. Len(brQueue) : brQueue'[i] = brQueue[i]
           /\ brQueue'[Len(brQueue) + 1] = [kind |-> kind, document |-> brShown]
           /\ brQueue' \in Seq(EventsTo(Latest))
<1> DEFINE e == [kind |-> kind, document |-> brShown]
<1>1. e \in EventsTo(Latest) /\ brQueue \in Seq(EventsTo(Latest))
  BY LatestNat DEF Shapes, PageShape, WorkShape, EventsTo
<1>2. /\ Len(brQueue') = Len(brQueue) + 1 /\ Len(brQueue) \in Nat
      /\ \A i \in 1 .. Len(brQueue) : brQueue'[i] = brQueue[i]
      /\ brQueue'[Len(brQueue) + 1] = e /\ brQueue' \in Seq(EventsTo(Latest))
  BY <1>1, QueueAppend
<1>3. e.kind = kind /\ e.document = brShown /\ e.kind # "committed"
      /\ e # [kind |-> "committed", document |-> brShown]
  OBVIOUS
<1>4. Fresh' = Fresh
  <2>1. ASSUME Fresh PROVE Fresh'
    <3>1. PICK i \in 1 .. Len(brQueue) : brQueue[i] = [kind |-> "committed", document |-> brShown]
      BY <2>1 DEF Fresh
    <3>2. i \in 1 .. Len(brQueue') /\ brQueue'[i] = [kind |-> "committed", document |-> brShown']
      BY <1>2, <3>1
    <3>3. QED
      BY <3>2 DEF Fresh
  <2>2. ASSUME Fresh' PROVE Fresh
    <3>1. PICK i \in 1 .. Len(brQueue') : brQueue'[i] = [kind |-> "committed", document |-> brShown]
      BY <2>2 DEF Fresh
    <3>2. i # Len(brQueue) + 1
      BY <1>2, <1>3, <3>1
    <3>3. i \in 1 .. Len(brQueue) /\ brQueue[i] = [kind |-> "committed", document |-> brShown]
      BY <1>2, <3>1, <3>2
    <3>4. QED
      BY <3>3 DEF Fresh
  <2>3. QED
    BY <2>1, <2>2 DEF Fresh
<1>5. ASSUME NEW i \in 1 .. Len(brQueue'), brQueue'[i] = [kind |-> "committed", document |-> brShown]
      PROVE  /\ \A j \in 1 .. i - 1 : brQueue'[j].document # brShown
             /\ \A j \in i + 1 .. Len(brQueue') : brQueue'[j].document = brShown /\ brQueue'[j].kind # "committed"
  <2>1. i # Len(brQueue) + 1
    BY <1>2, <1>3, <1>5
  <2>2. i \in 1 .. Len(brQueue) /\ brQueue[i] = [kind |-> "committed", document |-> brShown]
    BY <1>2, <1>5, <2>1
  <2>3. /\ \A j \in 1 .. i - 1 : brQueue[j].document # brShown
        /\ \A j \in i + 1 .. Len(brQueue) : brQueue[j].document = brShown /\ brQueue[j].kind # "committed"
    BY <2>2 DEF InOrder
  <2>4. ASSUME NEW j \in i + 1 .. Len(brQueue') PROVE brQueue'[j].document = brShown /\ brQueue'[j].kind # "committed"
    <3>1. CASE j = Len(brQueue) + 1
      BY <1>2, <1>3, <3>1
    <3>2. CASE j # Len(brQueue) + 1
      BY <1>2, <2>2, <2>3, <3>2
    <3>3. QED
      BY <3>1, <3>2
  <2>5. QED
    BY <1>2, <2>2, <2>3, <2>4
<1>6. ASSUME ~Fresh', NEW i \in 1 .. Len(brQueue') PROVE brQueue'[i].document = brShown /\ brQueue'[i].kind # "committed"
  <2>1. CASE i = Len(brQueue) + 1
    BY <1>2, <1>3, <2>1
  <2>2. CASE i # Len(brQueue) + 1
    BY <1>2, <1>4, <1>6, <2>2 DEF InOrder
  <2>3. QED
    BY <2>1, <2>2
<1>7. InOrder'
  BY <1>5, <1>6 DEF InOrder
<1>8. QED
  BY <1>2, <1>4, <1>7

LEMMA BeforeQueued ==
    ASSUME Shapes, InOrder, brShown # 0, ~brMoving, brMoving' = TRUE, brShown' = brShown,
           brQueue' = Append(brQueue, [kind |-> "before", document |-> brShown])
    PROVE  (Repaired(0) => Repaired(0)') /\ (Archived => Archived')
<1> DEFINE n == Len(brQueue)
<1>1. n \in Nat /\ Len(brQueue') = n + 1 /\ brQueue'[n + 1] = [kind |-> "before", document |-> brShown]
      /\ \A i \in 1 .. n : brQueue'[i] = brQueue[i]
  BY EventQueued
<1>2. \A i \in 1 .. n + 2 : Wants(i)' => i <= n /\ Wants(i)
  BY <1>1 DEF Wants
<1>3. ASSUME NEW k \in 0 .. n, Repaired(k) PROVE Repaired(k)'
  BY <1>1, <1>2, <1>3 DEF Repaired
<1>4. ASSUME NEW k \in Nat, k = n + 1 PROVE Repaired(k)'
  BY <1>1, <1>2, <1>4 DEF Repaired
<1>5. ASSUME Archived, NEW k \in 1 .. n + 1, brQueue'[k] = [kind |-> "before", document |-> brShown]
      PROVE  Repaired(k)'
  <2>1. CASE k = n + 1
    BY <1>1, <1>4, <2>1
  <2>2. CASE k # n + 1
    <3>1. k \in 1 .. n /\ brQueue[k] = [kind |-> "before", document |-> brShown]
      BY <1>1, <1>5, <2>2
    <3>2. Repaired(k)
      BY <1>5, <3>1 DEF Archived
    <3>3. QED
      BY <1>3, <3>1, <3>2
  <2>3. QED
    BY <2>1, <2>2
<1>6. Repaired(0) => Repaired(0)'
  BY <1>1, <1>3
<1>7. QED
  BY <1>1, <1>5, <1>6 DEF Archived

LEMMA FailureQueued ==
    ASSUME Shapes, InOrder, brShown # 0, brMoving, brMoving' = FALSE, brShown' = brShown,
           brQueue' = Append(brQueue, [kind |-> "failed", document |-> brShown])
    PROVE  (Repaired(0) => Repaired(0)') /\ (Archived => Archived')
<1> DEFINE n == Len(brQueue)
<1>1. n \in Nat /\ Len(brQueue') = n + 1 /\ brQueue'[n + 1] = [kind |-> "failed", document |-> brShown]
      /\ \A i \in 1 .. n : brQueue'[i] = brQueue[i]
  BY EventQueued
<1>2. \A i \in 1 .. n + 1 : Wants(i)' => i <= n /\ Wants(i)
  BY <1>1 DEF Wants
<1>3. ASSUME NEW k \in 0 .. n, Repaired(k) PROVE Repaired(k)'
  <2>1. ASSUME NEW i \in k + 1 .. n + 2, Wants(i)' PROVE \E j \in k + 1 .. i - 1 : brQueue'[j].kind = "failed"
    <3>1. CASE i = n + 2
      BY <1>1, <3>1
    <3>2. CASE i # n + 2
      BY <1>1, <1>2, <1>3, <2>1, <3>2 DEF Repaired
    <3>3. QED
      BY <3>1, <3>2
  <2>2. QED
    BY <1>1, <2>1 DEF Repaired
<1>4. \A k \in 1 .. n + 1 : brQueue'[k] = [kind |-> "before", document |-> brShown] => k <= n
  BY <1>1
<1>5. QED
  BY <1>1, <1>3, <1>4 DEF Archived

LEMMA SameQueued ==
    ASSUME Shapes, InOrder, brShown # 0, ~brMoving, brMoving' = FALSE, brShown' = brShown,
           brQueue' = Append(brQueue, [kind |-> "same", document |-> brShown])
    PROVE  (Repaired(0) => Repaired(0)') /\ (Archived => Archived')
<1> DEFINE n == Len(brQueue)
<1>1. n \in Nat /\ Len(brQueue') = n + 1 /\ brQueue'[n + 1] = [kind |-> "same", document |-> brShown]
      /\ \A i \in 1 .. n : brQueue'[i] = brQueue[i]
  BY EventQueued
<1>2. \A i \in 1 .. n : Wants(i)' => Wants(i)
  BY <1>1 DEF Wants
<1>3. Wants(n + 1)
  BY <1>1 DEF Wants
<1>4. ASSUME NEW k \in 0 .. n, Repaired(k) PROVE Repaired(k)'
  <2>1. PICK f \in k + 1 .. n : brQueue[f].kind = "failed"
    BY <1>1, <1>3, <1>4 DEF Repaired
  <2>2. ASSUME NEW i \in k + 1 .. n + 2, Wants(i)' PROVE \E j \in k + 1 .. i - 1 : brQueue'[j].kind = "failed"
    <3>1. CASE i > n
      BY <1>1, <2>1, <3>1
    <3>2. CASE i <= n
      BY <1>1, <1>2, <1>4, <2>2, <3>2 DEF Repaired
    <3>3. QED
      BY <1>1, <3>1, <3>2
  <2>3. QED
    BY <1>1, <2>2 DEF Repaired
<1>5. \A k \in 1 .. n + 1 : brQueue'[k] = [kind |-> "before", document |-> brShown] => k <= n
  BY <1>1
<1>6. QED
  BY <1>1, <1>4, <1>5 DEF Archived

\* The commit of a document that nothing queued is about.
LEMMA CommitQueued ==
    ASSUME NEW E, brQueue \in Seq(E), NEW d,
           [kind |-> "committed", document |-> d] \in E, [kind |-> "completed", document |-> d] \in E,
           \A i \in 1 .. Len(brQueue) : brQueue[i].document # d, brShown' = d,
           brQueue' = brQueue \o <<[kind |-> "committed", document |-> d],
                                   [kind |-> "completed", document |-> d]>>
    PROVE  Fresh' /\ InOrder' /\ Archived' /\ brQueue' \in Seq(E)
<1> DEFINE n == Len(brQueue)
<1>1. /\ n \in Nat /\ Len(brQueue') = n + 2 /\ \A i \in 1 .. n : brQueue'[i] = brQueue[i]
      /\ brQueue'[n + 1] = [kind |-> "committed", document |-> d]
      /\ brQueue'[n + 2] = [kind |-> "completed", document |-> d] /\ brQueue' \in Seq(E)
  BY QueueTwo
<1>2. \A i \in 1 .. n : brQueue'[i].document # d
  BY <1>1
<1>3. Fresh'
  <2>1. n + 1 \in 1 .. Len(brQueue')
    BY <1>1
  <2>2. brQueue'[n + 1] = [kind |-> "committed", document |-> brShown']
    BY <1>1
  <2>3. QED
    BY <2>1, <2>2 DEF Fresh
<1>4. \A i \in 1 .. n + 2 : brQueue'[i] = [kind |-> "committed", document |-> d] => i = n + 1
  BY <1>1, <1>2
<1>5. \A i \in 1 .. n + 2 : brQueue'[i] # [kind |-> "before", document |-> d]
  BY <1>1, <1>2
<1>6. InOrder'
  <2>1. brQueue'[n + 2].document = d /\ brQueue'[n + 2].kind # "committed"
    BY <1>1
  <2>2. ASSUME NEW i \in 1 .. n + 2, brQueue'[i] = [kind |-> "committed", document |-> d]
        PROVE  /\ \A j \in 1 .. i - 1 : brQueue'[j].document # d
               /\ \A j \in i + 1 .. n + 2 : brQueue'[j].document = d /\ brQueue'[j].kind # "committed"
    <3>1. i = n + 1
      BY <1>4, <2>2
    <3>2. ASSUME NEW j \in 1 .. i - 1 PROVE brQueue'[j].document # d
      BY <1>1, <1>2, <3>1
    <3>3. ASSUME NEW j \in i + 1 .. n + 2 PROVE brQueue'[j].document = d /\ brQueue'[j].kind # "committed"
      <4>1. j = n + 2
        BY <1>1, <3>1
      <4>2. QED
        BY <2>1, <4>1
    <3>4. QED
      BY <3>2, <3>3
  <2>3. QED
    BY <1>1, <1>3, <2>2 DEF InOrder
<1>7. Archived'
  BY <1>1, <1>5 DEF Archived
<1>8. QED
  BY <1>1, <1>3, <1>6, <1>7

\* The first event is taken.
LEMMA EventTaken ==
    ASSUME Shapes, InOrder, brQueue # <<>>, brQueue' = Tail(brQueue), brShown' = brShown,
           NEW e, e = Head(brQueue)
    PROVE  /\ e \in EventsTo(Latest) /\ brQueue' \in Seq(EventsTo(Latest)) /\ InOrder'
           /\ Fresh' <=> (Fresh /\ e # [kind |-> "committed", document |-> brShown])
           /\ Fresh' => e.document # brShown
           /\ ~Fresh' => e.document = brShown
<1> DEFINE n == Len(brQueue)
           commit == [kind |-> "committed", document |-> brShown]
<1>1. /\ n \in Nat \ {0} /\ Len(brQueue') = n - 1 /\ brQueue' \in Seq(EventsTo(Latest))
      /\ \A i \in 1 .. n - 1 : brQueue'[i] = brQueue[i + 1]
      /\ e = brQueue[1] /\ e \in EventsTo(Latest)
  BY QueueTail DEF Shapes, WorkShape
<1>2. commit.kind = "committed" /\ commit.document = brShown
  OBVIOUS
<1>3. CASE e = commit
  <2>1. Fresh
    BY <1>1, <1>3 DEF Fresh
  <2>2. \A j \in 2 .. n : brQueue[j].document = brShown /\ brQueue[j].kind # "committed"
    BY <1>1, <1>3 DEF InOrder
  <2>3. \A i \in 1 .. n - 1 : brQueue'[i].document = brShown /\ brQueue'[i].kind # "committed"
    BY <1>1, <2>2
  <2>4. ~Fresh'
    BY <1>1, <1>2, <2>3 DEF Fresh
  <2>5. InOrder'
    BY <1>1, <1>2, <2>3 DEF InOrder
  <2>6. QED
    BY <1>1, <1>2, <1>3, <2>1, <2>4, <2>5
<1>4. CASE e # commit /\ Fresh
  <2>1. PICK i \in 1 .. n : brQueue[i] = commit
    BY <1>4 DEF Fresh
  <2>2. i # 1 /\ i - 1 \in 1 .. n - 1 /\ brQueue'[i - 1] = commit
    BY <1>1, <1>4, <2>1
  <2>3. Fresh'
    BY <1>1, <2>2 DEF Fresh
  <2>4. \A j \in 1 .. i - 1 : brQueue[j].document # brShown
    BY <2>1 DEF InOrder
  <2>5. e.document # brShown
    BY <1>1, <2>2, <2>4
  <2>6. ASSUME NEW k \in 1 .. n - 1, brQueue'[k] = commit
        PROVE  /\ \A j \in 1 .. k - 1 : brQueue'[j].document # brShown
               /\ \A j \in k + 1 .. n - 1 : brQueue'[j].document = brShown /\ brQueue'[j].kind # "committed"
    <3>1. k + 1 \in 1 .. n /\ brQueue[k + 1] = commit
      BY <1>1, <2>6
    <3>2. /\ \A j \in 1 .. k : brQueue[j].document # brShown
          /\ \A j \in k + 2 .. n : brQueue[j].document = brShown /\ brQueue[j].kind # "committed"
      BY <3>1 DEF InOrder
    <3>3. QED
      BY <1>1, <3>2
  <2>7. InOrder'
    BY <1>1, <2>3, <2>6 DEF InOrder
  <2>8. QED
    BY <1>1, <1>4, <2>3, <2>5, <2>7
<1>5. CASE ~Fresh
  <2>1. \A i \in 1 .. n : brQueue[i].document = brShown /\ brQueue[i].kind # "committed"
    BY <1>5 DEF InOrder
  <2>2. \A i \in 1 .. n - 1 : brQueue'[i].document = brShown /\ brQueue'[i].kind # "committed"
    BY <1>1, <2>1
  <2>3. ~Fresh'
    BY <1>1, <1>2, <2>2 DEF Fresh
  <2>4. InOrder'
    BY <1>1, <1>2, <2>2 DEF InOrder
  <2>5. QED
    BY <1>1, <1>5, <2>1, <2>3, <2>4
<1>6. QED
  BY <1>3, <1>4, <1>5

LEMMA RepairsShrink ==
    ASSUME Shapes, brQueue # <<>>, brQueue' = Tail(brQueue), brMoving' = brMoving, brShown' = brShown,
           NEW e, e = Head(brQueue)
    PROVE  /\ Repaired(0) => e.kind # "same" /\ (e.kind # "failed" => Repaired(0)')
           /\ Archived => Archived' /\ (e = [kind |-> "before", document |-> brShown] => Repaired(0)')
<1> DEFINE n == Len(brQueue)
<1>1. /\ n \in Nat \ {0} /\ Len(brQueue') = n - 1
      /\ \A i \in 1 .. n - 1 : brQueue'[i] = brQueue[i + 1]
      /\ e = brQueue[1]
  BY QueueTail DEF Shapes, WorkShape
<1>2. \A i \in 1 .. n : Wants(i)' => Wants(i + 1)
  BY <1>1 DEF Wants
<1>3. ASSUME NEW k \in 0 .. n - 1, Repaired(k + 1) PROVE Repaired(k)'
  <2>1. ASSUME NEW i \in k + 1 .. n, Wants(i)' PROVE \E j \in k + 1 .. i - 1 : brQueue'[j].kind = "failed"
    <3>1. i + 1 \in k + 2 .. n + 1 /\ Wants(i + 1)
      BY <1>1, <1>2, <2>1
    <3>2. PICK j \in k + 2 .. i : brQueue[j].kind = "failed"
      BY <1>1, <1>3, <3>1 DEF Repaired
    <3>3. j - 1 \in k + 1 .. i - 1 /\ brQueue'[j - 1].kind = "failed"
      BY <1>1, <3>2
    <3>4. QED
      BY <3>3
  <2>2. QED
    BY <1>1, <2>1 DEF Repaired
<1>4. ASSUME Repaired(0) PROVE e.kind # "same" /\ (e.kind # "failed" => Repaired(0)')
  <2>1. e.kind # "same"
    BY <1>1, <1>4 DEF Repaired, Wants
  <2>2. ASSUME e.kind # "failed" PROVE Repaired(1)
    BY <1>1, <1>4, <2>1, <2>2 DEF Repaired, Wants
  <2>3. QED
    BY <1>1, <1>3, <2>1, <2>2
<1>5. ASSUME Archived PROVE Archived' /\ (e = [kind |-> "before", document |-> brShown] => Repaired(0)')
  <2>1. ASSUME NEW k \in 1 .. n - 1, brQueue'[k] = [kind |-> "before", document |-> brShown] PROVE Repaired(k)'
    BY <1>1, <1>3, <1>5, <2>1 DEF Archived
  <2>2. e = [kind |-> "before", document |-> brShown] => Repaired(0)'
    BY <1>1, <1>3, <1>5 DEF Archived
  <2>3. QED
    BY <1>1, <2>1, <2>2 DEF Archived
<1>6. QED
  BY <1>4, <1>5

-----------------------------------------------------------------------------
(* What a step of a handler changes *)

HandlerFrame == UNCHANGED <<brStorage, brShown, brMoving, brQueue, brCrossed, brBack, brLost, brBounds>>

LEMMA Frames ==
    /\ TaskFrame => HandlerFrame /\ UNCHANGED <<brCall, brOver>>
    /\ CallFrame => HandlerFrame /\ UNCHANGED brTask
  BY DEF TaskFrame, CallFrame, HandlerFrame, brHistory, brBounds

\* The session stays, or it is another one and a write is due.
MemoryStep ==
    \/ UNCHANGED <<brSession, brPersistence, brTimer, brMutated>>
    \/ MutateSessions /\ (brShown = 0 => brSession' \in {brSession, NoRecording})

LEMMA WriteIsStep ==
    ASSUME NEW s, WriteSession(s)
    PROVE  MemoryStep /\ (brShown = 0 => brSession' = brSession) /\ (brShown # 0 => brSession' = s)
  BY DEF WriteSession, MemoryStep

LEMMA RemoveIsStep ==
    ASSUME RemoveSession
    PROVE  MemoryStep /\ brSession' = NoRecording /\ brOwned' = 0
  BY DEF RemoveSession, MemoryStep

LEMMA MutationPersists ==
    ASSUME MemoryShape, Persists, brLife = "on", MutateSessions, UNCHANGED brStorage,
           brShown' = 0 /\ ~brLost' => brSession' = NoRecording
    PROVE  Persists'
<1>1. /\ brMutated' = TRUE /\ brTimer' = (brTimer \/ ~brWriting) /\ brPersistence' \in {"degraded", "pending"}
      /\ brWriting' = brWriting /\ brLife' = brLife /\ brLife' = "on"
  BY DEF MutateSessions, brStorage
<1>2. TheRecording' = brSession'
  BY <1>1 DEF TheRecording
<1>3. brTimer \in BOOLEAN /\ brWriting \in BOOLEAN /\ (brWriting => ~brTimer)
  BY DEF MemoryShape, Persists
<1>4. /\ brWriting' => ~brTimer'
      /\ brTimer' \/ brWriting'
      /\ brPersistence' # "persisted"
  BY <1>1, <1>3
<1>5. QED
  BY <1>1, <1>2, <1>4 DEF Persists

LEMMA SamePersists ==
    ASSUME Persists, brLife = "on", UNCHANGED <<brSession, brPersistence, brTimer, brMutated>>,
           UNCHANGED <<brStorage, brShown, brLost>>
    PROVE  Persists'
<1>1. TheRecording' = TheRecording
  BY DEF TheRecording, brStorage
<1>2. QED
  BY <1>1 DEF Persists, brStorage

\* A handler that takes work, memory and page of their types to such leaves all as it should be.
LEMMA HandlerKeeps ==
    ASSUME Shapes, Persists, brLife = "on", HandlerFrame, MemoryStep, PageShape',
           brSession' \in MaybeTo(Latest), brOwned' \in 0 .. Latest, brOver' \in BOOLEAN,
           brTask' \in TasksTo(Latest) \cup {NoRecording},
           brCall' \in CallsTo(Latest) \cup {NoRecording}, brCall' # NoRecording => brCalls # 0
    PROVE  Shapes' /\ Persists'
<1>1. Latest' = Latest /\ brCalls' = brCalls
  BY DEF HandlerFrame, brBounds, Latest
<1>2. WorkShape'
  BY <1>1 DEF Shapes, WorkShape, HandlerFrame
<1>3. brTimer' \in BOOLEAN /\ brMutated' \in BOOLEAN /\ brPersistence' \in {"pending", "persisted", "degraded"}
  BY DEF MemoryStep, MutateSessions, Shapes, MemoryShape
<1>4. UNCHANGED <<brStored, brWrite, brWriting, brFailed, brLife, brMoving, brCrossed, brBack, brLost,
                  brCalls, brNavigations, brFaults>>
  BY DEF HandlerFrame, brStorage, brBounds
<1>5. MemoryShape'
  BY <1>1, <1>3, <1>4 DEF Shapes, MemoryShape
<1>6. UNCHANGED <<brStorage, brShown, brLost>>
  BY DEF HandlerFrame
<1>7. Persists'
  <2>1. CASE UNCHANGED <<brSession, brPersistence, brTimer, brMutated>>
    BY <1>6, <2>1, SamePersists
  <2>2. CASE MutateSessions /\ (brShown = 0 => brSession' \in {brSession, NoRecording})
    <3>1. brShown = 0 /\ ~brLost => brSession = NoRecording
      BY DEF Persists, TheRecording
    <3>2. brShown' = 0 /\ ~brLost' => brSession' = NoRecording
      BY <1>6, <2>2, <3>1
    <3>3. QED
      BY <1>6, <2>2, <3>2, MutationPersists DEF Shapes
  <2>3. QED
    BY <2>1, <2>2 DEF MemoryStep
<1>8. QED
  BY <1>2, <1>5, <1>7 DEF Shapes

LEMMA PageSame ==
    ASSUME Shapes, HandlerFrame, UNCHANGED brPages
    PROVE  PageShape' /\ Recorder' = Recorder
  BY DEF Shapes, PageShape, HandlerFrame, brBounds, Latest, Recorder

LEMMA PageSet ==
    ASSUME Shapes, HandlerFrame, brShown # 0, NEW r \in Recorders, r.active => r.id # 0, SetRecorder(r)
    PROVE  PageShape' /\ Recorder' = r
<1>1. /\ brShown \in 1 .. Latest /\ brShown \in BrDocuments /\ brPages \in [BrDocuments -> Recorders]
      /\ Latest' = Latest /\ brShown' = brShown /\ brMoving' = brMoving
  <2>1. Latest' = Latest /\ brShown' = brShown /\ brMoving' = brMoving
    BY DEF HandlerFrame, brBounds, Latest
  <2>2. brShown \in 0 .. Latest /\ brPages \in [BrDocuments -> Recorders]
    BY DEF Shapes, PageShape
  <2>3. brShown \in 1 .. Latest /\ brShown \in BrDocuments
    BY <2>2, LatestNat, BrowserRecordingConstants DEF BrDocuments
  <2>4. QED
    BY <2>1, <2>2, <2>3
<1>2. /\ brPages' \in [BrDocuments -> Recorders] /\ brPages'[brShown] = r
      /\ \A d \in BrDocuments : d # brShown => brPages'[d] = brPages[d]
  BY <1>1 DEF SetRecorder
<1>3. QED
  BY <1>1, <1>2 DEF Shapes, PageShape, Recorder

LEMMA RecorderShape ==
    ASSUME Shapes, brShown # 0
    PROVE  /\ Recorder \in Recorders /\ Recorder.id \in 0 .. MaxBrEvents /\ Recorder.active \in BOOLEAN
           /\ Recorder = [id |-> Recorder.id, active |-> Recorder.active]
           /\ Recorder.active => Recorder.id # 0
<1>1. brShown \in BrDocuments
  <2>1. brShown \in 0 .. Latest
    BY DEF Shapes, PageShape
  <2>2. QED
    BY <2>1, LatestNat, BrowserRecordingConstants DEF BrDocuments
<1>2. Recorder \in Recorders /\ (Recorder.active => Recorder.id # 0)
  BY <1>1 DEF Shapes, PageShape, Recorder
<1>3. QED
  BY <1>2 DEF Recorders

\* The recorder of the page, stopped or running again.
Stopped(r) == [r EXCEPT !.active = FALSE]

LEMMA RecorderChanges ==
    ASSUME NEW r \in Recorders
    PROVE  /\ Stopped(r) \in Recorders /\ Stopped(r).id = r.id /\ ~Stopped(r).active
           /\ Resumed(r) \in Recorders /\ Resumed(r).id = r.id /\ Resumed(r).active
  BY DEF Recorders, Stopped, Resumed

\* In the step of a handler the recording is the session, and the queue stays.
LEMMA HandlerTells ==
    ASSUME Shapes, brLife = "on", HandlerFrame
    PROVE  /\ TheRecording = brSession /\ TheRecording' = brSession'
           /\ Owner = brOwned /\ Owner' = brOwned' /\ brShown' = brShown
           /\ Clean' <=> Clean
           /\ Fresh' <=> Fresh
           /\ InOrder => InOrder'
           /\ Archived => Archived'
           /\ Repaired(0) => Repaired(0)'
<1>1. UNCHANGED <<brQueue, brShown, brMoving, brLife>>
  BY DEF HandlerFrame, brStorage
<1>2. TheRecording = brSession /\ TheRecording' = brSession' /\ Owner = brOwned /\ Owner' = brOwned'
  BY <1>1 DEF TheRecording, Owner
<1>3. Clean' <=> Clean
  BY DEF Clean, HandlerFrame
<1>4. (Fresh' <=> Fresh) /\ (InOrder => InOrder')
  BY <1>1, QueueSame
<1>5. Archived => Archived'
  BY <1>1, ArchivedSame
<1>6. Repaired(0) => Repaired(0)'
  BY <1>1, RepairsSame
<1>7. QED
  BY <1>1, <1>2, <1>3, <1>4, <1>5, <1>6, Zenon

-----------------------------------------------------------------------------
(* The story goes on *)

LEMMA StoryKept ==
    ASSUME Story, UNCHANGED <<brShown, brPages, brTask, brCall>>, TheRecording' = TheRecording,
           Recording(TheRecording) => Owner' = Owner, Fresh' <=> Fresh, InOrder', Archived',
           Repaired(0) => Repaired(0)'
    PROVE  Story'
<1>1. Recorder' = Recorder /\ (Continuing' <=> Continuing) /\ (Writing' <=> Writing) /\ (Getting' <=> Getting)
  BY DEF Recorder, Continuing, Writing, Getting
<1>2. Recording(TheRecording') <=> Recording(TheRecording)
  OBVIOUS
<1>3. TaskKnown'
  <2>1. TaskKnown
    BY DEF Story
  <2>2. QED
    BY <1>1, <1>2, <2>1 DEF TaskKnown, Recording
<1>4. GetKnown'
  <2>1. GetKnown /\ RecordingKnown
    BY DEF Story
  <2>2. QED
    BY <1>1, <1>2, <2>1 DEF GetKnown, Recording
<1>5. RecordingKnown'
  <2>1. RecordingKnown
    BY DEF Story
  <2>2. QED
    BY <1>1, <1>2, <2>1 DEF RecordingKnown, Recording
<1>6. RecorderKnown'
  <2>1. RecorderKnown
    BY DEF Story
  <2>2. QED
    BY <1>1, <1>2, <2>1 DEF RecorderKnown, Recording
<1>7. Attended'
  <2>1. Attended
    BY DEF Story
  <2>2. QED
    BY <1>1, <1>2, <2>1 DEF Attended, Recording
<1>8. QED
  BY <1>3, <1>4, <1>5, <1>6, <1>7 DEF Story

\* What is written, read back or taken from the store is the same recording.
LEMMA StorySame ==
    ASSUME Shapes, Story, UNCHANGED <<brPage, brQueue, brTask, brCall>>, TheRecording' = TheRecording,
           Recording(TheRecording) => Owner' = Owner
    PROVE  Story'
<1>1. UNCHANGED <<brShown, brPages, brMoving, brQueue>> /\ InOrder /\ Archived
  BY DEF brPage, Story
<1>2. (Fresh' <=> Fresh) /\ InOrder'
  BY <1>1, QueueSame
<1>3. Archived'
  BY <1>1, ArchivedSame
<1>4. Repaired(0) => Repaired(0)'
  BY <1>1, RepairsSame
<1>5. QED
  BY <1>1, <1>2, <1>3, <1>4, StoryKept

\* An event of the document that is shown joins the queue.
LEMMA StoryQueued ==
    ASSUME Shapes, Story, brShown # 0, UNCHANGED <<brShown, brPages, brTask, brCall, brSession, brOwned, brStored>>,
           brLife' = IF brLife = "off" THEN "restoring" ELSE brLife,
           NEW kind \in {"before", "failed", "same"},
           brQueue' = Append(brQueue, [kind |-> kind, document |-> brShown]),
           kind = "before" => ~brMoving /\ brMoving' = TRUE,
           kind = "failed" => brMoving /\ brMoving' = FALSE,
           kind = "same" => ~brMoving /\ brMoving' = FALSE
    PROVE  Story' /\ brQueue' \in Seq(EventsTo(Latest))
<1>1. (Fresh' <=> Fresh) /\ InOrder' /\ brQueue' \in Seq(EventsTo(Latest))
  BY EventQueued DEF Story
<1>2. (Repaired(0) => Repaired(0)') /\ Archived'
  BY BeforeQueued, FailureQueued, SameQueued DEF Story
<1>3. TheRecording' = TheRecording /\ Owner' = Owner
  BY DEF TheRecording, Owner, Shapes, MemoryShape
<1>4. QED
  BY <1>1, <1>2, <1>3, StoryKept

\* Another document is shown, that neither the recording nor what goes on has to do with.
LEMMA StoryLeaves ==
    ASSUME Story, UNCHANGED <<brPages, brTask, brCall, brSession, brOwned, brStored>>,
           brLife' = IF brLife = "off" THEN "restoring" ELSE brLife, brLife \in {"off", "restoring", "on"},
           Fresh', InOrder', Archived', ~Recorder'.active,
           Recording(TheRecording) => TheRecording.document # brShown' /\ Owner # brShown',
           brTask # NoRecording /\ Recording(brTask.read) =>
               brTask.document # brShown' /\ brTask.read.document # brShown',
           Getting /\ Recording(brCall.read) => brCall.read.document # brShown'
    PROVE  Story'
<1>1. TheRecording' = TheRecording /\ Owner' = Owner
  BY DEF TheRecording, Owner
<1>2. (Continuing' <=> Continuing) /\ (Getting' <=> Getting)
  BY DEF Continuing, Getting
<1>3. TaskKnown'
  <2>1. TaskKnown
    BY DEF Story
  <2>2. QED
    BY <1>1, <1>2, <2>1 DEF TaskKnown, Recording
<1>4. GetKnown'
  <2>1. GetKnown
    BY DEF Story
  <2>2. QED
    BY <1>1, <1>2, <2>1 DEF GetKnown, Recording
<1>5. RecordingKnown'
  <2>1. RecordingKnown
    BY DEF Story
  <2>2. QED
    BY <1>1, <1>2, <2>1 DEF RecordingKnown, Recording
<1>6. RecorderKnown' /\ Attended'
  <2>1. Attended
    BY DEF Story
  <2>2. QED
    BY <1>1, <1>2, <2>1 DEF RecorderKnown, Attended, Recording
<1>7. QED
  BY <1>3, <1>4, <1>5, <1>6 DEF Story

\* With no call of the user but for the status, what the user has ended stays as it is.
LEMMA EndsKept ==
    ASSUME EndedStays, Clean' => Clean, Clean' => brCall' = NoRecording \/ brCall'.kind = "get", brOver' = brOver,
           Clean' => (Recording(TheRecording') => Recording(TheRecording))
    PROVE  EndedStays'
<1>1. Clean' => ChangesAlone'
  BY DEF ChangesAlone
<1>2. (Clean' /\ brOver') => ~Recording(TheRecording')
  BY DEF EndedStays
<1>3. QED
  BY <1>1, <1>2 DEF EndedStays, Recording

-----------------------------------------------------------------------------
(* The store, the worker and the page *)

\* A step after which nothing is disturbed that was not before.
LEMMA Calm ==
    ASSUME Clean' => Clean, Starting <=> Starting'
    PROVE  Undisturbed' => Undisturbed
  BY DEF Undisturbed

LEMMA PersistKeeps == ASSUME BrInv, PersistRecording PROVE BrInv'
<1>1. /\ brLife = "on" /\ brTimer /\ brTimer' = FALSE /\ brWriting' = TRUE /\ brMutated' = FALSE /\ brWrite' = brSession
      /\ UNCHANGED <<brSession, brOwned, brPersistence, brStored, brFailed, brLife, brPage, brQueue,
                     brTask, brCall, brHistory, brBounds>>
  BY DEF PersistRecording
<1>2. UNCHANGED <<brShown, brPages, brMoving, brOver, brCrossed, brBack, brLost, brCalls, brNavigations, brFaults>>
  BY <1>1 DEF brPage, brHistory, brBounds
<1>3. /\ Latest' = Latest /\ TheRecording' = TheRecording /\ Owner' = Owner /\ (Clean' <=> Clean)
      /\ (Starting <=> Starting')
  BY <1>1, <1>2 DEF Latest, TheRecording, Owner, Clean, Starting
<1>4. Shapes'
  BY <1>1, <1>2, <1>3 DEF BrInv, Shapes, PageShape, WorkShape, MemoryShape
<1>5. Persists'
  BY <1>1, <1>2, <1>3 DEF BrInv, Persists
<1>6. EndedStays'
  BY <1>1, <1>2, <1>3 DEF BrInv, EndedStays, ChangesAlone, Recorder
<1>7. Undisturbed' => Story'
  BY <1>1, <1>3, Calm, StorySame DEF BrInv
<1>8. QED
  BY <1>4, <1>5, <1>6, <1>7 DEF BrInv

LEMMA WrittenKeeps == ASSUME BrInv, RecordingWritten PROVE BrInv'
<1>1. /\ brWriting /\ brWriting' = FALSE /\ brTimer' = brMutated /\ brWrite' = NoRecording
      /\ \/ brStored' = brWrite /\ brFailed' = FALSE /\ brPersistence' = Credit /\ UNCHANGED brFaults
         \/ Within /\ brFaults' = brFaults + 1 /\ brFailed' = TRUE /\ brPersistence' = "degraded" /\ UNCHANGED brStored
      /\ UNCHANGED <<brSession, brOwned, brMutated, brLife, brPage, brQueue, brTask, brCall, brHistory,
                     brCalls, brNavigations>>
  BY DEF RecordingWritten
<1>2. UNCHANGED <<brShown, brPages, brMoving, brOver, brCrossed, brBack, brLost>> /\ brLife = "on"
  BY <1>1 DEF brPage, brHistory, BrInv, Persists
<1>3. /\ Latest' = Latest /\ TheRecording' = TheRecording /\ Owner' = Owner /\ (Clean' <=> Clean)
      /\ (Starting <=> Starting')
  BY <1>1, <1>2 DEF Latest, TheRecording, Owner, Clean, Starting
<1>4. Shapes'
  <2>1. brFaults' \in 0 .. MaxBrEvents /\ brPersistence' \in {"pending", "persisted", "degraded"}
    BY <1>1, BrowserRecordingConstants DEF BrInv, Shapes, MemoryShape, Within, Credit
  <2>2. brStored' \in MaybeTo(Latest) /\ brWrite' \in MaybeTo(Latest) /\ brFailed' \in BOOLEAN
    BY <1>1 DEF BrInv, Shapes, MemoryShape, MaybeTo
  <2>3. QED
    BY <1>1, <1>2, <1>3, <2>1, <2>2 DEF BrInv, Shapes, PageShape, WorkShape, MemoryShape
<1>5. Persists'
  BY <1>1, <1>2, <1>3 DEF BrInv, Persists, Credit, Shapes, MemoryShape
<1>6. EndedStays'
  BY <1>1, <1>2, <1>3 DEF BrInv, EndedStays, ChangesAlone, Recorder
<1>7. Undisturbed' => Story'
  BY <1>1, <1>3, Calm, StorySame DEF BrInv
<1>8. QED
  BY <1>4, <1>5, <1>6, <1>7 DEF BrInv

LEMMA RestartKeeps == ASSUME BrInv, RestartRecording PROVE BrInv'
<1>1. /\ brLife = "off" /\ brLife' = "restoring"
      /\ UNCHANGED <<brMemory, brStored, brWrite, brWriting, brFailed, brPage, brQueue, brTask, brCall,
                     brHistory, brBounds>>
  BY DEF RestartRecording
<1>2. UNCHANGED <<brSession, brOwned, brPersistence, brTimer, brMutated, brShown, brPages, brMoving,
                  brOver, brCrossed, brBack, brLost, brCalls, brNavigations, brFaults>>
  BY <1>1 DEF brMemory, brPage, brHistory, brBounds
<1>3. /\ Latest' = Latest /\ TheRecording' = TheRecording /\ Owner' = Owner /\ (Clean' <=> Clean)
      /\ (Starting <=> Starting')
  BY <1>1, <1>2 DEF Latest, TheRecording, Owner, Clean, Starting
<1>4. Shapes'
  BY <1>1, <1>2, <1>3 DEF BrInv, Shapes, PageShape, WorkShape, MemoryShape
<1>5. Persists'
  BY <1>1, <1>2, <1>3 DEF BrInv, Persists
<1>6. EndedStays'
  BY <1>1, <1>2, <1>3 DEF BrInv, EndedStays, ChangesAlone, Recorder
<1>7. Undisturbed' => Story'
  BY <1>1, <1>3, Calm, StorySame DEF BrInv
<1>8. QED
  BY <1>4, <1>5, <1>6, <1>7 DEF BrInv

\* What is restored is what was stored; a restore that fails is excepted.
LEMMA RestoreKeeps == ASSUME BrInv, RestoreRecording PROVE BrInv'
<1>1. /\ brLife = "restoring" /\ brLife' = "on"
      /\ \/ /\ brSession' = brStored /\ brOwned' = (IF Recording(brStored) THEN brStored.document ELSE 0)
            /\ UNCHANGED <<brFailed, brFaults, brLost>>
         \/ /\ Within /\ brFaults' = brFaults + 1 /\ brFailed' = TRUE /\ brLost' = TRUE
            /\ UNCHANGED <<brSession, brOwned>>
      /\ UNCHANGED <<brPersistence, brTimer, brMutated, brStored, brWrite, brWriting, brPage, brQueue,
                     brTask, brCall, brOver, brCrossed, brBack, brCalls, brNavigations>>
  BY DEF RestoreRecording
<1>2. UNCHANGED <<brShown, brPages, brMoving>> /\ Latest' = Latest /\ (Starting <=> Starting')
  BY <1>1 DEF brPage, Latest, Starting
<1>3. /\ brCall = NoRecording /\ brTask = NoRecording /\ brSession = NoRecording /\ ~brFailed
      /\ ~brWriting /\ ~brTimer /\ ~brMutated
  BY <1>1 DEF BrInv, Persists
<1>4. Clean' => Clean /\ brSession' = brStored /\ TheRecording' = TheRecording /\ Owner' = Owner
  BY <1>1, <1>2 DEF Clean, TheRecording, Owner
<1>5. Shapes'
  <2>1. brFaults' \in 0 .. MaxBrEvents /\ brFailed' \in BOOLEAN /\ brLost' \in BOOLEAN
    <3>1. /\ brCalls \in 0 .. MaxBrEvents /\ brNavigations \in 0 .. MaxBrEvents /\ brFaults \in 0 .. MaxBrEvents
          /\ brFailed \in BOOLEAN /\ brLost \in BOOLEAN
      BY DEF BrInv, Shapes, MemoryShape
    <3>2. Within => brFaults + 1 \in 0 .. MaxBrEvents
      BY <3>1, BrowserRecordingConstants DEF Within
    <3>3. QED
      BY <1>1, <3>1, <3>2
  <2>2. brSession' \in MaybeTo(Latest)
    BY <1>1 DEF BrInv, Shapes, MemoryShape
  <2>3. Recording(brStored) => brStored.document \in 0 .. Latest
    <3>1. Recording(brStored) => brStored \in RecordingsTo(Latest)
      BY DEF BrInv, Shapes, MemoryShape, MaybeTo, Recording
    <3>2. QED
      BY <3>1, LatestNat, RecordingParts DEF BrInv
  <2>4. brOwned' \in 0 .. Latest
    BY <1>1, <2>3, LatestNat DEF BrInv, Shapes, MemoryShape
  <2>5. QED
    BY <1>1, <1>2, <2>1, <2>2, <2>4 DEF BrInv, Shapes, PageShape, WorkShape, MemoryShape
<1>6. Persists'
  <2>1. brShown' = 0 /\ ~brLost' => TheRecording' = NoRecording
    BY <1>1, <1>2 DEF BrInv, Persists, TheRecording
  <2>2. QED
    BY <1>1, <1>2, <1>3, <2>1 DEF BrInv, Persists
<1>7. EndedStays'
  BY <1>1, <1>3, <1>4, EndsKept DEF BrInv
<1>8. Undisturbed' => Story'
  <2>1. ASSUME Undisturbed' PROVE Story'
    <3>1. Undisturbed /\ TheRecording' = TheRecording /\ Owner' = Owner
      BY <1>2, <1>4, <2>1 DEF Undisturbed
    <3>2. QED
      BY <1>1, <3>1, StorySame DEF BrInv
  <2>2. QED
    BY <2>1
<1>9. QED
  BY <1>5, <1>6, <1>7, <1>8 DEF BrInv

\* A worker that dies with nothing to do leaves the recording stored, and of the document shown.
LEMMA KillKeeps == ASSUME BrInv, KillRecording PROVE BrInv'
<1>1. /\ brLife = "on" /\ Within /\ brFaults' = brFaults + 1 /\ brLife' = "off"
      /\ brStored' \in {brStored} \cup (IF brWriting THEN {brWrite} ELSE {})
      /\ brLost' = (brLost \/ brQueue # <<>> \/ brTask # NoRecording \/ brCall # NoRecording
                    \/ brStored' # brSession)
      /\ brSession' = NoRecording /\ brOwned' = 0 /\ brPersistence' = "persisted"
      /\ brTimer' = FALSE /\ brMutated' = FALSE /\ brWriting' = FALSE /\ brWrite' = NoRecording
      /\ brFailed' = FALSE /\ brQueue' = <<>> /\ brTask' = NoRecording /\ brCall' = NoRecording
      /\ UNCHANGED <<brPage, brOver, brCrossed, brBack, brCalls, brNavigations>>
  BY DEF KillRecording
<1>2. UNCHANGED <<brShown, brPages, brMoving>> /\ Latest' = Latest
  BY <1>1 DEF brPage, Latest
<1>3. ~brLost' => /\ ~brLost /\ UNCHANGED <<brQueue, brTask, brCall>> /\ brQueue = <<>>
                  /\ brTask = NoRecording /\ brCall = NoRecording
                  /\ TheRecording = brSession /\ TheRecording' = brSession /\ Owner = brOwned
                  /\ Owner' = IF Recording(brSession) THEN brSession.document ELSE 0
  BY <1>1 DEF TheRecording, Owner
<1>4. Clean' => Clean /\ ~brLost'
  BY <1>1, <1>2 DEF Clean
<1>5. Shapes'
  <2>1. brFaults' \in 0 .. MaxBrEvents /\ brLost' \in BOOLEAN
    BY <1>1, BrowserRecordingConstants DEF BrInv, Shapes, MemoryShape, Within
  <2>2. brStored' \in MaybeTo(Latest) /\ brWrite' \in MaybeTo(Latest) /\ brSession' \in MaybeTo(Latest)
    BY <1>1 DEF BrInv, Shapes, MemoryShape, MaybeTo
  <2>3. brQueue' \in Seq(EventsTo(Latest)) /\ brOwned' \in 0 .. Latest
    BY <1>1, LatestNat DEF BrInv
  <2>4. MemoryShape'
    BY <1>1, <1>2, <2>1, <2>2, <2>3 DEF BrInv, Shapes, MemoryShape
  <2>5. PageShape' /\ WorkShape'
    BY <1>1, <1>2, <2>3 DEF BrInv, Shapes, PageShape, WorkShape
  <2>6. QED
    BY <2>4, <2>5 DEF Shapes
<1>6. Persists'
  <2>1. brShown' = 0 /\ ~brLost' => TheRecording' = NoRecording
    BY <1>2, <1>3 DEF BrInv, Persists
  <2>2. QED
    BY <1>1, <2>1 DEF Persists
<1>7. EndedStays'
  BY <1>1, <1>3, <1>4, EndsKept DEF BrInv
<1>8. Undisturbed' => Story'
  <2>1. ASSUME Undisturbed' PROVE Story'
    <3>1. Story /\ ~brLost'
      BY <1>3, <1>4, <2>1 DEF Undisturbed, Starting, BrInv
    <3>2. ~Fresh /\ ~Continuing
      BY <1>3, <3>1, NothingQueued DEF Continuing
    <3>3. Recording(brSession) => brSession.document = Owner
      BY <1>3, <3>1, <3>2 DEF Story, RecordingKnown
    <3>4. Recording(TheRecording) => Owner' = Owner
      BY <1>3, <3>1, <3>3
    <3>5. QED
      BY <1>1, <1>3, <3>1, <3>4, StorySame DEF BrInv
  <2>2. QED
    BY <2>1
<1>9. QED
  BY <1>5, <1>6, <1>7, <1>8 DEF BrInv

\* More documents have been shown, all else is of its type.
LEMMA ShapesWiden ==
    ASSUME Shapes, Latest' \in {Latest, Latest + 1}, UNCHANGED brPages,
           brShown' \in 0 .. Latest', brShown' = 0 => ~brMoving',
           brQueue' \in Seq(EventsTo(Latest')),
           brTask' \in TasksTo(Latest) \cup {NoRecording}, brCall' \in CallsTo(Latest) \cup {NoRecording},
           brCall' # NoRecording => brCalls' # 0,
           brSession' \in MaybeTo(Latest), brStored' \in MaybeTo(Latest), brWrite' \in MaybeTo(Latest),
           brOwned' \in 0 .. Latest, brPersistence' \in {"pending", "persisted", "degraded"},
           brMoving' \in BOOLEAN, brTimer' \in BOOLEAN, brWriting' \in BOOLEAN, brMutated' \in BOOLEAN,
           brFailed' \in BOOLEAN, brOver' \in BOOLEAN, brCrossed' \in BOOLEAN, brBack' \in BOOLEAN,
           brLost' \in BOOLEAN, brLife' \in {"off", "restoring", "on"},
           brCalls' \in 0 .. MaxBrEvents, brNavigations' \in 0 .. MaxBrEvents, brFaults' \in 0 .. MaxBrEvents
    PROVE  Shapes'
<1> DEFINE n == Latest
           m == Latest'
<1>1. n \in Nat /\ m \in Nat /\ n <= m
  BY LatestNat
<1> HIDE DEF n, m
<1>3. MaybeTo(n) \subseteq MaybeTo(m) /\ TasksTo(n) \subseteq TasksTo(m) /\ CallsTo(n) \subseteq CallsTo(m)
  BY <1>1, Widen
<1>4. 0 .. n \subseteq 0 .. m
  BY <1>1
<1>5. WorkShape'
  BY <1>3 DEF WorkShape, n, m
<1>6. MemoryShape'
  BY <1>3, <1>4 DEF MemoryShape, n, m
<1>7. PageShape'
  <2>1. \A d \in BrDocuments : d <= n => d <= m
    BY <1>1, BrowserRecordingConstants DEF BrDocuments
  <2>2. QED
    BY <2>1 DEF Shapes, PageShape, n, m
<1>8. QED
  BY <1>5, <1>6, <1>7 DEF Shapes

LEMMA BeginKeeps == ASSUME BrInv, BeginNavigation PROVE BrInv'
<1>1. /\ brShown # 0 /\ ~brMoving /\ Within /\ brNavigations' = brNavigations + 1 /\ brMoving' = TRUE
      /\ brQueue' = Append(brQueue, [kind |-> "before", document |-> brShown])
      /\ brLife' = (IF brLife = "off" THEN "restoring" ELSE brLife)
      /\ brCrossed' = (brCrossed \/ (brCall # NoRecording /\ brCall.kind # "get"))
      /\ UNCHANGED <<brShown, brPages, brTask, brCall, brMemory, brStored, brWrite, brWriting, brFailed,
                     brOver, brBack, brLost, brCalls, brFaults>>
  BY DEF BeginNavigation, Crosses
<1>2. UNCHANGED <<brSession, brOwned, brPersistence, brTimer, brMutated>>
  BY <1>1 DEF brMemory
<1>3. brMoving \in BOOLEAN /\ brNavigations \in 0 .. MaxBrEvents /\ brCrossed \in BOOLEAN
      /\ brLife \in {"off", "restoring", "on"}
      /\ brCalls \in 0 .. MaxBrEvents /\ brFaults \in 0 .. MaxBrEvents
  BY DEF BrInv, Shapes, MemoryShape
<1>4. /\ Latest' = Latest /\ TheRecording' = TheRecording /\ Owner' = Owner
      /\ (Starting <=> Starting') /\ (Clean' => Clean /\ (brCall = NoRecording \/ brCall.kind = "get"))
  BY <1>1, <1>2, <1>3 DEF Latest, TheRecording, Owner, Clean, Starting
<1>5. Shapes'
  <2>1. brNavigations' \in 0 .. MaxBrEvents /\ brCrossed' \in BOOLEAN /\ brLife' \in {"off", "restoring", "on"}
    BY <1>1, <1>3, BrowserRecordingConstants DEF Within
  <2>2. brQueue' \in Seq(EventsTo(Latest))
    <3>1. brShown \in 1 .. Latest /\ brQueue \in Seq(EventsTo(Latest))
      BY <1>1, LatestNat DEF BrInv, Shapes, PageShape, WorkShape
    <3>2. [kind |-> "before", document |-> brShown] \in EventsTo(Latest)
      BY <3>1 DEF EventsTo
    <3>3. QED
      BY <1>1, <3>1, <3>2, QueueAppend
  <2>3. MemoryShape'
    BY <1>1, <1>2, <1>4, <2>1 DEF BrInv, Shapes, MemoryShape
  <2>4. PageShape' /\ WorkShape'
    BY <1>1, <1>4, <2>2 DEF BrInv, Shapes, PageShape, WorkShape
  <2>5. QED
    BY <2>3, <2>4 DEF Shapes
<1>6. Persists'
  BY <1>1, <1>2, <1>3, <1>4 DEF BrInv, Persists
<1>7. EndedStays'
  BY <1>1, <1>4, EndsKept DEF BrInv
<1>8. Undisturbed' => Story'
  BY <1>1, <1>2, <1>4, Calm, StoryQueued DEF BrInv
<1>9. QED
  BY <1>5, <1>6, <1>7, <1>8 DEF BrInv

LEMMA WithinKeeps == ASSUME BrInv, NavigateWithin PROVE BrInv'
<1>1. /\ brShown # 0 /\ ~brMoving /\ Within /\ brNavigations' = brNavigations + 1
      /\ brQueue' = Append(brQueue, [kind |-> "same", document |-> brShown])
      /\ brLife' = (IF brLife = "off" THEN "restoring" ELSE brLife)
      /\ brCrossed' = (brCrossed \/ (brCall # NoRecording /\ brCall.kind # "get"))
      /\ UNCHANGED <<brPage, brTask, brCall, brMemory, brStored, brWrite, brWriting, brFailed,
                     brOver, brBack, brLost, brCalls, brFaults>>
  BY DEF NavigateWithin, Crosses
<1>2. UNCHANGED <<brSession, brOwned, brPersistence, brTimer, brMutated, brShown, brPages, brMoving>>
  BY <1>1 DEF brMemory, brPage
<1>3. brMoving \in BOOLEAN /\ brNavigations \in 0 .. MaxBrEvents /\ brCrossed \in BOOLEAN
      /\ brLife \in {"off", "restoring", "on"}
      /\ brCalls \in 0 .. MaxBrEvents /\ brFaults \in 0 .. MaxBrEvents
  BY DEF BrInv, Shapes, MemoryShape
<1>4. /\ Latest' = Latest + 1 /\ TheRecording' = TheRecording /\ Owner' = Owner
      /\ (Starting <=> Starting') /\ (Clean' => Clean /\ (brCall = NoRecording \/ brCall.kind = "get"))
  BY <1>1, <1>2, <1>3 DEF Latest, TheRecording, Owner, Clean, Starting
<1>5. Shapes'
  <2>1. brNavigations' \in 0 .. MaxBrEvents /\ brCrossed' \in BOOLEAN /\ brLife' \in {"off", "restoring", "on"}
    BY <1>1, <1>3, BrowserRecordingConstants DEF Within
  <2>2. brQueue' \in Seq(EventsTo(Latest))
    <3>1. brShown \in 1 .. Latest /\ brQueue \in Seq(EventsTo(Latest))
      BY <1>1, LatestNat DEF BrInv, Shapes, PageShape, WorkShape
    <3>2. [kind |-> "same", document |-> brShown] \in EventsTo(Latest)
      BY <3>1 DEF EventsTo
    <3>3. QED
      BY <1>1, <3>1, <3>2, QueueAppend
  <2>3. brQueue' \in Seq(EventsTo(Latest')) /\ brShown' \in 0 .. Latest'
    BY <1>2, <1>4, <2>2, LatestNat, Widen DEF BrInv, Shapes, PageShape
  <2>4. brTask' \in TasksTo(Latest) \cup {NoRecording} /\ brCall' \in CallsTo(Latest) \cup {NoRecording}
        /\ (brCall' # NoRecording => brCalls' # 0)
    BY <1>1 DEF BrInv, Shapes, WorkShape
  <2>5. QED
    BY <1>1, <1>2, <1>4, <2>1, <2>3, <2>4, ShapesWiden DEF BrInv, Shapes, MemoryShape
<1>6. Persists'
  BY <1>1, <1>2, <1>3, <1>4 DEF BrInv, Persists
<1>7. EndedStays'
  BY <1>1, <1>4, EndsKept DEF BrInv
<1>8. Undisturbed' => Story'
  BY <1>1, <1>2, <1>3, <1>4, Calm, StoryQueued DEF BrInv
<1>9. QED
  BY <1>5, <1>6, <1>7, <1>8 DEF BrInv

\* The tab's removal: the recording is gone, and nothing else is claimed of a frame that is not there.
LEMMA TabKeeps == ASSUME BrInv, RemoveTab PROVE BrInv'
<1>1. /\ brLife = "on" /\ brShown # 0 /\ brShown' = 0 /\ brMoving' = FALSE
      /\ brSession' = NoRecording /\ brOwned' = 0 /\ MutateSessions
      /\ UNCHANGED <<brPages, brQueue, brTask, brCall, brStorage, brHistory, brBounds>>
  BY DEF RemoveTab, RemoveSession
<1>2. UNCHANGED <<brStored, brWrite, brWriting, brFailed, brLife, brOver, brCrossed, brBack, brLost,
                  brCalls, brNavigations, brFaults>>
  BY <1>1 DEF brStorage, brHistory, brBounds
<1>3. brMoving \in BOOLEAN /\ brNavigations \in 0 .. MaxBrEvents
  BY DEF BrInv, Shapes, MemoryShape
<1>4. Latest' \in {Latest, Latest + 1} /\ ~Clean'
  BY <1>1, <1>2, <1>3 DEF Latest, Clean
<1>5. brTimer' \in BOOLEAN /\ brMutated' \in BOOLEAN /\ brPersistence' \in {"pending", "persisted", "degraded"}
  BY <1>1 DEF MutateSessions, BrInv, Shapes, MemoryShape
<1>6. Shapes'
  <2>1. brQueue' \in Seq(EventsTo(Latest)) /\ brTask' \in TasksTo(Latest) \cup {NoRecording}
        /\ brCall' \in CallsTo(Latest) \cup {NoRecording} /\ (brCall' # NoRecording => brCalls' # 0)
    BY <1>1, <1>2 DEF BrInv, Shapes, WorkShape
  <2>2. brSession' \in MaybeTo(Latest) /\ brStored' \in MaybeTo(Latest) /\ brWrite' \in MaybeTo(Latest)
        /\ brOwned' \in 0 .. Latest /\ brShown' \in 0 .. Latest
    BY <1>1, <1>2, LatestNat DEF BrInv, Shapes, MemoryShape, MaybeTo
  <2>3. brQueue' \in Seq(EventsTo(Latest')) /\ brShown' \in 0 .. Latest'
    BY <1>4, <2>1, <2>2, LatestNat, Widen DEF BrInv
  <2>4. QED
    BY <1>1, <1>2, <1>4, <1>5, <2>1, <2>2, <2>3, ShapesWiden DEF BrInv, Shapes, MemoryShape
<1>7. Persists'
  BY <1>1, MutationPersists DEF BrInv, Shapes
<1>8. EndedStays' /\ (Undisturbed' => Story')
  BY <1>4 DEF EndedStays, Undisturbed
<1>9. QED
  BY <1>6, <1>7, <1>8 DEF BrInv

\* What is known of where everything under way belongs: not to a document that comes anew, and not
\* to one that is gone back to when all commits were handled.
LEMMA CommitKeeps ==
    ASSUME Shapes, Story, brShown # 0, brMoving, brCall = NoRecording \/ brCall.kind = "get",
           NEW d \in Nat \ {0}, d # brShown, d > brNavigations \/ ~UnderWay, ~brPages[d].active,
           d <= brNavigations + 1, brShown' = d,
           brQueue' = brQueue \o <<[kind |-> "committed", document |-> d],
                                   [kind |-> "completed", document |-> d]>>,
           UNCHANGED <<brPages, brTask, brCall, brSession, brOwned, brStored>>,
           brLife' = IF brLife = "off" THEN "restoring" ELSE brLife
    PROVE  Story' /\ brQueue' \in Seq(EventsTo(Latest + 1))
<1>1. Latest = brNavigations /\ Latest \in Nat
  BY LatestNat DEF Latest
<1>2. InOrder /\ TaskKnown /\ GetKnown /\ RecordingKnown
  BY DEF Story
<1>3. /\ Len(brQueue) \in Nat /\ DOMAIN brQueue = 1 .. Len(brQueue)
      /\ \A i \in 1 .. Len(brQueue) : brQueue[i].document \in 1 .. Latest
  BY Events DEF EventsTo
<1>4. ~UnderWay => ~Fresh /\ ~Continuing /\ ~Getting
  <2>1. Fresh => UnderWay
    <3>1. ASSUME NEW i \in 1 .. Len(brQueue), brQueue[i] = [kind |-> "committed", document |-> brShown]
          PROVE  UnderWay
      <4>1. brQueue[i].kind = "committed" /\ i \in DOMAIN brQueue
        BY <1>3, <3>1
      <4>2. QED
        BY <4>1 DEF UnderWay
    <3>2. QED
      BY <3>1 DEF Fresh
  <2>2. QED
    BY <2>1 DEF UnderWay, Continuing, Getting
<1>5. \A i \in 1 .. Len(brQueue) : brQueue[i].document # d
  <2>1. CASE d > brNavigations
    BY <1>1, <1>3, <2>1
  <2>2. CASE ~UnderWay
    BY <1>2, <1>4, <2>2 DEF InOrder
  <2>3. QED
    BY <2>1, <2>2
<1>6. /\ brSession \in MaybeTo(Latest) /\ brStored \in MaybeTo(Latest) /\ brOwned \in 0 .. Latest
      /\ brTask \in TasksTo(Latest) \cup {NoRecording} /\ brCall \in CallsTo(Latest) \cup {NoRecording}
      /\ brLife \in {"off", "restoring", "on"}
  BY DEF Shapes, MemoryShape, WorkShape
<1>7. \A r \in MaybeTo(Latest) : Recording(r) => r.document \in 0 .. Latest
  BY <1>1, RecordingParts DEF MaybeTo, Recording
<1>8. Recording(TheRecording) => TheRecording.document # d /\ Owner # d
  <2>1. Recording(TheRecording) => TheRecording.document \in 0 .. Latest /\ Owner \in 0 .. Latest
    BY <1>6, <1>7 DEF TheRecording, Owner
  <2>2. CASE d > brNavigations
    BY <1>1, <2>1, <2>2
  <2>3. CASE ~UnderWay
    BY <1>2, <1>4, <2>3 DEF RecordingKnown
  <2>4. QED
    BY <2>2, <2>3
<1>9. ASSUME brTask # NoRecording, Recording(brTask.read)
      PROVE  brTask.document # d /\ brTask.read.document # d
  <2>1. brTask.document \in 0 .. Latest /\ brTask.read \in MaybeTo(Latest)
    BY <1>1, <1>6, <1>9, TaskParts
  <2>2. CASE d > brNavigations
    BY <1>1, <1>7, <1>9, <2>1, <2>2
  <2>3. CASE ~UnderWay
    BY <1>2, <1>4, <1>9, <2>3 DEF TaskKnown
  <2>4. QED
    BY <2>2, <2>3
<1>10. ASSUME Getting, Recording(brCall.read)
       PROVE  brCall.read.document # d
  <2>1. d > brNavigations
    BY <1>4, <1>10
  <2>2. brCall.step # "remove"
    BY <1>1, <1>6, <1>10, CallParts DEF Getting
  <2>3. brCall.read \in RecordingsTo(Latest)
    BY <1>1, <1>6, <1>10, <2>2, CallParts DEF Getting
  <2>4. QED
    BY <1>1, <2>1, <2>3, RecordingParts
<1>11. /\ [kind |-> "committed", document |-> d] \in EventsTo(Latest + 1)
       /\ [kind |-> "completed", document |-> d] \in EventsTo(Latest + 1)
       /\ brQueue \in Seq(EventsTo(Latest + 1))
  <2>1. d \in 1 .. Latest + 1
    BY <1>1
  <2>2. brQueue \in Seq(EventsTo(Latest))
    BY DEF Shapes, WorkShape
  <2>3. brQueue \in Seq(EventsTo(Latest + 1))
    BY <1>1, <2>2, Widen
  <2>4. QED
    BY <2>1, <2>3 DEF EventsTo
<1>12. Fresh' /\ InOrder' /\ Archived' /\ brQueue' \in Seq(EventsTo(Latest + 1))
  BY <1>5, <1>11, CommitQueued
<1>13. ~Recorder'.active
  BY DEF Recorder
<1>14. Story'
  BY <1>6, <1>8, <1>9, <1>10, <1>12, <1>13, StoryLeaves
<1>15. QED
  BY <1>12, <1>14

LEMMA EndKeeps == ASSUME BrInv, EndNavigation PROVE BrInv'
<1>1. /\ brMoving /\ brMoving' = FALSE
      /\ brLife' = (IF brLife = "off" THEN "restoring" ELSE brLife)
      /\ brCrossed' = (brCrossed \/ (brCall # NoRecording /\ brCall.kind # "get"))
      /\ UNCHANGED <<brPages, brTask, brCall, brMemory, brStored, brWrite, brWriting, brFailed, brOver,
                     brLost, brBounds>>
  BY DEF EndNavigation, Crosses
<1>2. UNCHANGED <<brSession, brOwned, brPersistence, brTimer, brMutated, brCalls, brNavigations, brFaults>>
  BY <1>1 DEF brMemory, brBounds
<1>3. /\ brNavigations \in 0 .. MaxBrEvents /\ brCrossed \in BOOLEAN /\ brBack \in BOOLEAN
      /\ brLife \in {"off", "restoring", "on"}
      /\ brShown \in 1 .. Latest /\ brQueue \in Seq(EventsTo(Latest)) /\ Latest \in Nat
  BY <1>1, LatestNat DEF BrInv, Shapes, MemoryShape, PageShape, WorkShape
<1>4. /\ Latest = brNavigations /\ Latest' = Latest + 1 /\ TheRecording' = TheRecording
      /\ (Starting <=> Starting')
  BY <1>1, <1>2, <1>3 DEF Latest, TheRecording, Starting
<1>5. Clean' => ~brCrossed /\ ~brLost /\ (brCall = NoRecording \/ brCall.kind = "get")
  BY <1>1 DEF Clean
<1>6. ASSUME brShown' \in 1 .. Latest + 1, brBack' \in BOOLEAN, brBack => brBack',
             brQueue' \in Seq(EventsTo(Latest + 1)), Undisturbed' => Story'
      PROVE  BrInv'
  <2>1. Clean' => Clean /\ (brCall' = NoRecording \/ brCall'.kind = "get")
    BY <1>1, <1>3, <1>5, <1>6 DEF Clean
  <2>2. Shapes'
    <3>1. brCrossed' \in BOOLEAN /\ brLife' \in {"off", "restoring", "on"} /\ brShown' \in 0 .. Latest'
      BY <1>1, <1>3, <1>4, <1>6
    <3>2. brTask' \in TasksTo(Latest) \cup {NoRecording} /\ brCall' \in CallsTo(Latest) \cup {NoRecording}
          /\ (brCall' # NoRecording => brCalls' # 0)
      BY <1>1, <1>2 DEF BrInv, Shapes, WorkShape
    <3>3. QED
      BY <1>1, <1>2, <1>4, <1>6, <3>1, <3>2, ShapesWiden DEF BrInv, Shapes, MemoryShape
  <2>3. Persists'
    BY <1>1, <1>2, <1>3, <1>4, <1>6 DEF BrInv, Persists
  <2>4. EndedStays'
    BY <1>1, <1>4, <2>1, EndsKept DEF BrInv
  <2>5. QED
    BY <1>6, <2>2, <2>3, <2>4 DEF BrInv
<1>7. CASE brQueue' = Append(brQueue, [kind |-> "failed", document |-> brShown]) /\ UNCHANGED <<brShown, brBack>>
  <2>1. brQueue' \in Seq(EventsTo(Latest + 1))
    <3>1. [kind |-> "failed", document |-> brShown] \in EventsTo(Latest)
      BY <1>3 DEF EventsTo
    <3>2. brQueue' \in Seq(EventsTo(Latest))
      BY <1>3, <1>7, <3>1, QueueAppend
    <3>3. QED
      BY <1>3, <3>2, Widen
  <2>2. Clean' => Clean
    BY <1>5, <1>7 DEF Clean
  <2>3. /\ UNCHANGED <<brShown, brPages, brTask, brCall, brSession, brOwned, brStored>>
        /\ brShown # 0 /\ Shapes /\ (Undisturbed' => Story)
    BY <1>1, <1>2, <1>3, <1>4, <1>7, <2>2, Calm DEF BrInv
  <2>4. Undisturbed' => Story'
    BY <1>1, <1>7, <2>3, StoryQueued
  <2>5. QED
    BY <1>3, <1>6, <1>7, <2>1, <2>4
<1>8. ASSUME NEW d \in {brNavigations + 1} \cup (1 .. brNavigations), d # brShown, brShown' = d,
             brQueue' = brQueue \o <<[kind |-> "committed", document |-> d],
                                     [kind |-> "completed", document |-> d]>>,
             brBack' = (brBack \/ brPages[d].active \/ (d <= brNavigations /\ UnderWay))
      PROVE  BrInv'
  <2>1. d \in Nat \ {0} /\ d \in 1 .. Latest + 1 /\ d <= brNavigations + 1
    BY <1>3, <1>4
  <2>2. brBack' \in BOOLEAN /\ (brBack => brBack')
    BY <1>8
  <2>3. ~brBack' => ~brBack /\ ~brPages[d].active /\ (d > brNavigations \/ ~UnderWay)
    <3>1. brBack \/ brPages[d].active \/ (d <= brNavigations /\ UnderWay) => brBack'
      BY <1>8, Zenon
    <3>2. d <= brNavigations \/ d > brNavigations
      BY <1>3, <2>1
    <3>3. QED
      BY <3>1, <3>2
  <2>4. brQueue' \in Seq(EventsTo(Latest + 1))
    <3>1. /\ [kind |-> "committed", document |-> d] \in EventsTo(Latest + 1)
          /\ [kind |-> "completed", document |-> d] \in EventsTo(Latest + 1)
      BY <2>1 DEF EventsTo
    <3>2. brQueue \in Seq(EventsTo(Latest + 1))
      BY <1>3, Widen
    <3>3. QED
      BY <1>8, <3>1, <3>2, QueueTwo
  <2>5. ASSUME Undisturbed' PROVE Story'
    <3>1. Undisturbed /\ ~brBack'
      BY <1>3, <1>4, <1>5, <2>3, <2>5 DEF Undisturbed, Clean
    <3>2. Story /\ (brCall = NoRecording \/ brCall.kind = "get") /\ brShown # 0
      BY <1>3, <1>5, <2>5, <3>1 DEF BrInv, Undisturbed
    <3>3. QED
      BY <1>1, <1>2, <1>8, <2>1, <2>3, <3>1, <3>2, CommitKeeps DEF BrInv
  <2>6. QED
    BY <1>6, <1>8, <2>1, <2>2, <2>4, <2>5
<1>9. QED
  BY <1>7, <1>8 DEF EndNavigation

\* A call that begins finds the recording as it is.
LEMMA CallBegins == ASSUME BrInv, NEW kind \in {"start", "stop", "clear", "get"}, BeginCall(kind) PROVE BrInv'
<1> DEFINE step == IF brSession = NoRecording THEN "remove" ELSE "page"
<1>1. /\ brLife = "on" /\ brCall = NoRecording /\ brShown # 0 /\ Within /\ brCalls' = brCalls + 1
      /\ kind = "start" \/ brSession # NoRecording
      /\ brCall' = [kind |-> kind, step |-> step, read |-> brSession]
      /\ brOver' = (brOver /\ kind # "start")
      /\ brCrossed' = ((kind # "get" /\ (brTask # NoRecording \/ brQueue # <<>>)) \/ (kind # "start" /\ brCrossed))
      /\ UNCHANGED <<brMemory, brStorage, brPage, brQueue, brTask, brBack, brLost, brNavigations, brFaults>>
  BY DEF BeginCall, NextCall
<1>2. UNCHANGED <<brSession, brOwned, brPersistence, brTimer, brMutated, brStored, brWrite, brWriting,
                  brFailed, brLife, brShown, brPages, brMoving>>
  BY <1>1 DEF brMemory, brStorage, brPage
<1>3. /\ brOver \in BOOLEAN /\ brCrossed \in BOOLEAN /\ brCalls \in 0 .. MaxBrEvents
      /\ brNavigations \in 0 .. MaxBrEvents /\ brFaults \in 0 .. MaxBrEvents
      /\ brSession \in MaybeTo(Latest)
  BY DEF BrInv, Shapes, MemoryShape
<1>4. Latest' = Latest /\ TheRecording' = TheRecording /\ Owner' = Owner /\ TheRecording = brSession
  BY <1>1, <1>2 DEF Latest, TheRecording, Owner
<1>5. /\ brCall'.kind = kind /\ brCall'.step = step /\ brCall'.read = brSession /\ brCall' \in CallsTo(Latest)
      /\ step \in {"remove", "page"} /\ brCall' # NoRecording
  <2>1. brCall' \in CallsTo(Latest)
    BY <1>1, <1>3 DEF CallsTo, MaybeTo
  <2>2. brCall' # NoRecording
    BY <2>1, LatestNat, WidenAll DEF BrInv
  <2>3. QED
    BY <1>1, <2>1, <2>2
<1>6. Shapes'
  <2>1. brCalls' \in 0 .. MaxBrEvents /\ brCalls' # 0 /\ brOver' \in BOOLEAN /\ brCrossed' \in BOOLEAN
    BY <1>1, <1>3, BrowserRecordingConstants DEF Within
  <2>2. MemoryShape'
    BY <1>1, <1>2, <1>4, <2>1 DEF BrInv, Shapes, MemoryShape
  <2>3. PageShape' /\ WorkShape'
    BY <1>1, <1>2, <1>4, <1>5, <2>1 DEF BrInv, Shapes, PageShape, WorkShape
  <2>4. QED
    BY <2>2, <2>3 DEF Shapes
<1>7. Persists'
  BY <1>1, <1>2, <1>4 DEF BrInv, Persists
<1>8. EndedStays'
  <2>1. ASSUME Clean' PROVE ChangesAlone'
    BY <1>1, <1>4, <1>5, <2>1 DEF ChangesAlone, Clean
  <2>2. ASSUME Clean', brOver' PROVE ~Recording(TheRecording')
    <3>1. Clean /\ brOver
      BY <1>1, <1>2, <1>3, <2>2 DEF Clean
    <3>2. QED
      BY <1>4, <3>1 DEF BrInv, EndedStays
  <2>3. QED
    BY <2>1, <2>2 DEF EndedStays
<1>9. ASSUME Undisturbed' PROVE Story'
  <2>1. kind # "start" /\ step = "page" /\ Undisturbed
    BY <1>1, <1>2, <1>3, <1>5, <1>9 DEF Undisturbed, Starting, Clean
  <2>2. Story
    BY <2>1 DEF BrInv
  <2>3. UNCHANGED <<brQueue, brShown, brMoving>>
    BY <1>1, <1>2
  <2>4. (Fresh' <=> Fresh) /\ InOrder' /\ Archived' /\ (Repaired(0) => Repaired(0)')
    BY <2>2, <2>3, QueueSame, ArchivedSame, RepairsSame DEF Story, BrInv
  <2>5. Recorder' = Recorder /\ (Continuing' <=> Continuing) /\ ~Writing /\ (Getting' => kind = "get")
    BY <1>1, <1>2, <1>5, <2>1 DEF Recorder, Continuing, Writing, Getting
  <2>6. TaskKnown' /\ RecordingKnown'
    BY <1>1, <1>2, <1>4, <2>2, <2>4, <2>5 DEF Story, TaskKnown, RecordingKnown, Recording
  <2>7. GetKnown'
    BY <1>1, <1>2, <1>4, <1>5, <2>1, <2>2, <2>4, <2>5 DEF Story, GetKnown, RecordingKnown, Recording
  <2>8. RecorderKnown' /\ Attended'
    BY <1>1, <1>2, <1>4, <2>2, <2>4, <2>5 DEF Story, RecorderKnown, Attended, Recording
  <2>9. QED
    BY <2>4, <2>6, <2>7, <2>8 DEF Story
<1>10. QED
  BY <1>6, <1>7, <1>8, <1>9 DEF BrInv

-----------------------------------------------------------------------------
(* The sessions that the handlers write *)

Archive(r) == [r EXCEPT !.active = TRUE, !.available = FALSE, !.navigated = TRUE]
Follow(r, d) == [r EXCEPT !.document = d, !.available = FALSE, !.active = TRUE, !.navigated = TRUE]
Unavailable(r) == [r EXCEPT !.available = FALSE]
Known(r, i) == [r EXCEPT !.id = i, !.available = TRUE]
Stays(r, d) == [r EXCEPT !.document = d, !.available = TRUE, !.navigated = TRUE]
MergedAs(r, raw, d, a) == [Merged(r, raw, d) EXCEPT !.active = a]
Over(r) == [r EXCEPT !.active = FALSE]

LEMMA ArchiveParts ==
    ASSUME NEW n \in Nat, NEW r \in RecordingsTo(n)
    PROVE  /\ Archive(r) \in RecordingsTo(n) /\ Archive(r).id = r.id /\ Archive(r).active
           /\ Archive(r).document = r.document /\ Archive(r).navigated
  BY DEF Archive, RecordingsTo

LEMMA FollowParts ==
    ASSUME NEW n \in Nat, NEW r \in RecordingsTo(n), NEW d \in 0 .. n
    PROVE  /\ Follow(r, d) \in RecordingsTo(n) /\ Follow(r, d).id = r.id /\ Follow(r, d).active
           /\ Follow(r, d).document = d
  BY DEF Follow, RecordingsTo

LEMMA UnavailableParts ==
    ASSUME NEW n \in Nat, NEW r \in RecordingsTo(n)
    PROVE  /\ Unavailable(r) \in RecordingsTo(n) /\ Unavailable(r).id = r.id
           /\ Unavailable(r).active = r.active /\ Unavailable(r).document = r.document
  BY DEF Unavailable, RecordingsTo

LEMMA KnownParts ==
    ASSUME NEW n \in Nat, NEW r \in RecordingsTo(n), NEW i \in 1 .. MaxBrEvents
    PROVE  /\ Known(r, i) \in RecordingsTo(n) /\ Known(r, i).id = i
           /\ Known(r, i).active = r.active /\ Known(r, i).document = r.document
  BY DEF Known, RecordingsTo

LEMMA StaysParts ==
    ASSUME NEW n \in Nat, NEW r \in RecordingsTo(n), NEW d \in 0 .. n
    PROVE  /\ Stays(r, d) \in RecordingsTo(n) /\ Stays(r, d).id = r.id
           /\ Stays(r, d).active = r.active /\ Stays(r, d).document = d /\ Stays(r, d).navigated
  BY DEF Stays, RecordingsTo

LEMMA OverParts ==
    ASSUME NEW n \in Nat, NEW r \in RecordingsTo(n)
    PROVE  Over(r) \in RecordingsTo(n) /\ ~Over(r).active
  BY DEF Over, RecordingsTo

LEMMA MergedParts ==
    ASSUME NEW n \in Nat, NEW r \in MaybeTo(n), NEW raw \in Recorders, raw.id # 0, NEW d \in 0 .. n,
           NEW a \in BOOLEAN
    PROVE  /\ Merged(r, raw, d) \in RecordingsTo(n) /\ Merged(r, raw, d).id = raw.id
           /\ Merged(r, raw, d).active = raw.active /\ Merged(r, raw, d).document = d
           /\ MergedAs(r, raw, d, a) \in RecordingsTo(n) /\ MergedAs(r, raw, d, a).id = raw.id
           /\ MergedAs(r, raw, d, a).active = a /\ MergedAs(r, raw, d, a).document = d
<1>1. raw.id \in 1 .. MaxBrEvents /\ raw.active \in BOOLEAN
  BY BrowserRecordingConstants DEF Recorders
<1>2. (r # NoRecording /\ r.id = raw.id /\ r.navigated) \in BOOLEAN
  OBVIOUS
<1>3. Merged(r, raw, d) \in RecordingsTo(n)
  BY <1>1, <1>2 DEF Merged, RecordingsTo
<1>4. Merged(r, raw, d).id = raw.id /\ Merged(r, raw, d).active = raw.active /\ Merged(r, raw, d).document = d
  BY DEF Merged
<1>5. QED
  BY <1>3, <1>4 DEF MergedAs, RecordingsTo

LEMMA Active ==
    ASSUME NEW n \in Nat, n <= MaxBrEvents + 1, NEW r \in RecordingsTo(n)
    PROVE  r # NoRecording /\ (Recording(r) <=> r.active)
  BY WidenAll DEF Recording

-----------------------------------------------------------------------------
(* The handlers of the events *)

LEMMA TaskShape ==
    ASSUME BrInv, brTask # NoRecording
    PROVE  /\ Latest \in Nat /\ Latest <= MaxBrEvents + 1
           /\ brTask \in TasksTo(Latest)
           /\ brTask.step \in {"get", "stop", "probe", "run", "reuse", "resume", "record"}
           /\ brTask.read \in MaybeTo(Latest) /\ brTask.document \in 0 .. Latest
           /\ brTask.step # "get" => brTask.read \in RecordingsTo(Latest)
           /\ brSession \in MaybeTo(Latest) /\ brOwned \in 0 .. Latest /\ brOver \in BOOLEAN
           /\ brCall \in CallsTo(Latest) \cup {NoRecording} /\ (brCall # NoRecording => brCalls # 0)
<1>1. Latest \in Nat /\ Latest <= MaxBrEvents + 1
  BY LatestNat DEF BrInv
<1>2. brTask \in TasksTo(Latest)
  BY DEF BrInv, Shapes, WorkShape
<1>3. QED
  BY <1>1, <1>2, TaskParts DEF BrInv, Shapes, MemoryShape, WorkShape

\* The user does not start or end a recording while an event is handled, of which nothing is excepted.
LEMMA TaskTells ==
    ASSUME BrInv, brLife = "on", brTask # NoRecording, Undisturbed
    PROVE  /\ Story /\ brShown # 0 /\ ~Writing /\ (brCall = NoRecording \/ brCall.kind = "get")
           /\ TheRecording = brSession /\ Owner = brOwned
           /\ Recording(brTask.read) <=> Recording(brSession)
           /\ brTask.step # "get" => Recording(brTask.read)
           /\ Recording(brTask.read) =>
                /\ brTask.read.id = brSession.id /\ brTask.document # 0 /\ brTask.read.document # 0
                /\ Reaches(brTask.document) <=> ~Fresh
                /\ Fresh => brTask.document # brShown /\ brTask.read.document # brShown
                /\ ~Fresh => brTask.document = brShown /\ brTask.read.document = brShown
<1>1. Story /\ brShown # 0 /\ ~Writing /\ (brCall = NoRecording \/ brCall.kind = "get")
  BY DEF BrInv, EndedStays, ChangesAlone, Undisturbed, Clean, Writing
<1>2. TheRecording = brSession /\ Owner = brOwned
  BY DEF TheRecording, Owner
<1>3. QED
  BY <1>1, <1>2 DEF Story, TaskKnown, Reaches

LEMMA EventEnds ==
    ASSUME BrInv, brLife = "on", brTask # NoRecording, TaskFrame,
           Undisturbed => (Recording(brSession') => Recording(brSession))
    PROVE  EndedStays' /\ (Undisturbed' => Undisturbed)
<1>1. HandlerFrame /\ brCall' = brCall /\ brOver' = brOver
  BY Frames
<1>2. (Clean' <=> Clean) /\ TheRecording = brSession /\ TheRecording' = brSession'
  BY <1>1, HandlerTells DEF BrInv
<1>3. Clean => brCall = NoRecording \/ brCall.kind = "get"
  BY DEF BrInv, EndedStays, ChangesAlone
<1>4. Clean => Undisturbed
  BY <1>3 DEF Undisturbed, Starting
<1>5. EndedStays'
  BY <1>1, <1>2, <1>3, <1>4, EndsKept DEF BrInv
<1>6. QED
  BY <1>1, <1>2, <1>4, <1>5 DEF Undisturbed

\* What of the story can change under a handler that leaves the queue alone.
LEMMA HandlerStory ==
    ASSUME Shapes, brLife = "on", HandlerFrame, Story,
           TaskKnown', GetKnown', RecordingKnown', RecorderKnown', Attended'
    PROVE  Story'
  BY HandlerTells DEF Story

LEMMA ArchiveGetKeeps == ASSUME BrInv, ArchiveGet PROVE BrInv'
<1> DEFINE document == brTask.document
           raw == IF Reaches(document) THEN Recorder ELSE [id |-> 0, active |-> FALSE]
           snapshot == IF raw.id # 0 THEN Merged(brTask.read, raw, document) ELSE brTask.read
<1>1. /\ brLife = "on" /\ brTask # NoRecording /\ brTask.step = "get"
      /\ IF Recording(snapshot)
         THEN brOwned' = document /\ brTask' = [step |-> "stop", read |-> snapshot, document |-> document]
         ELSE brTask' = NoRecording /\ brOwned' = brOwned
      /\ UNCHANGED <<brSession, brPersistence, brTimer, brMutated, brPages>> /\ TaskFrame
  BY DEF ArchiveGet, TaskStep, TaskEnds, NextTask, Archives
<1>2. HandlerFrame /\ UNCHANGED <<brCall, brOver>>
  BY <1>1, Frames
<1>3. /\ Latest \in Nat /\ Latest <= MaxBrEvents + 1 /\ brTask.read \in MaybeTo(Latest) /\ document \in 0 .. Latest
      /\ brSession \in MaybeTo(Latest) /\ brOwned \in 0 .. Latest /\ brOver \in BOOLEAN
      /\ brCall \in CallsTo(Latest) \cup {NoRecording} /\ (brCall # NoRecording => brCalls # 0)
  BY <1>1, TaskShape
<1>4. raw \in Recorders /\ snapshot \in MaybeTo(Latest)
  <2>1. raw \in Recorders
    <3>1. Reaches(document) => Recorder \in Recorders
      BY RecorderShape DEF BrInv, Reaches
    <3>2. [id |-> 0, active |-> FALSE] \in Recorders
      BY BrowserRecordingConstants DEF Recorders
    <3>3. QED
      BY <3>1, <3>2
  <2> HIDE DEF raw
  <2>2. raw.id # 0 => Merged(brTask.read, raw, document) \in RecordingsTo(Latest)
    BY <1>3, <2>1, MergedParts
  <2>3. QED
    BY <1>3, <2>1, <2>2 DEF MaybeTo
<1> HIDE DEF raw, snapshot
<1>5. Recording(snapshot) =>
         /\ snapshot \in RecordingsTo(Latest) /\ brOwned' = document /\ brTask' # NoRecording
         /\ brTask'.step = "stop" /\ brTask'.read = snapshot /\ brTask'.document = document
         /\ brTask' \in TasksTo(Latest)
  <2>1. ASSUME Recording(snapshot) PROVE snapshot \in RecordingsTo(Latest)
    BY <1>4, <2>1 DEF MaybeTo, Recording
  <2>2. ASSUME Recording(snapshot) PROVE brTask' \in TasksTo(Latest)
    BY <1>1, <1>3, <1>4, <2>1, <2>2, TaskMade
  <2>3. QED
    BY <1>1, <1>3, <2>1, <2>2, WidenAll
<1>6. Shapes' /\ Persists'
  <2>1. PageShape' /\ MemoryStep
    BY <1>1, <1>2, PageSame DEF BrInv, MemoryStep
  <2>2. brTask' \in TasksTo(Latest) \cup {NoRecording} /\ brOwned' \in 0 .. Latest
    BY <1>1, <1>3, <1>5
  <2>3. QED
    BY <1>1, <1>2, <1>3, <2>1, <2>2, HandlerKeeps DEF BrInv
<1>7. EndedStays' /\ (Undisturbed' => Undisturbed)
  BY <1>1, EventEnds
<1>8. ASSUME Undisturbed' PROVE Story'
  <2>1. /\ Story /\ brShown # 0 /\ ~Writing /\ TheRecording = brSession /\ Owner = brOwned
        /\ Recording(brTask.read) <=> Recording(brSession)
        /\ Recording(brTask.read) =>
             /\ brTask.read.id = brSession.id /\ document # 0 /\ brTask.read.document # 0
             /\ Reaches(document) <=> ~Fresh
             /\ Fresh => document # brShown /\ brTask.read.document # brShown
             /\ ~Fresh => document = brShown /\ brTask.read.document = brShown
    BY <1>1, <1>7, <1>8, TaskTells
  <2>2. /\ TheRecording' = brSession' /\ Owner' = brOwned' /\ brShown' = brShown /\ (Fresh' <=> Fresh)
        /\ (Repaired(0) => Repaired(0)') /\ Recorder' = Recorder /\ brSession' = brSession
    BY <1>1, <1>2, HandlerTells, PageSame DEF BrInv
  <2>3. (Writing' <=> Writing) /\ (Getting' <=> Getting) /\ ~Continuing
    BY <1>1, <1>2 DEF Writing, Getting, Continuing
  <2>4. TaskKnown /\ GetKnown /\ RecordingKnown /\ RecorderKnown /\ Attended
    BY <2>1 DEF Story
  <2>5. CASE ~Recording(brSession)
    <3>1. ~Recorder.active
      BY <2>1, <2>4, <2>5 DEF RecorderKnown
    <3>2. ~Recording(snapshot)
      <4>1. ~raw.active
        BY <3>1 DEF raw
      <4>2. raw.id # 0 => Merged(brTask.read, raw, document).active = raw.active
        BY <1>3, <1>4, MergedParts
      <4>3. QED
        BY <2>1, <2>5, <4>1, <4>2 DEF snapshot, Recording
    <3>3. brTask' = NoRecording /\ brOwned' = brOwned /\ ~Recording(TheRecording') /\ ~Recording(TheRecording)
      BY <1>1, <2>1, <2>2, <2>5, <3>2
    <3>4. TaskKnown' /\ RecordingKnown' /\ Attended' /\ RecorderKnown'
      BY <2>2, <3>1, <3>3 DEF TaskKnown, RecordingKnown, Attended, RecorderKnown
    <3>5. GetKnown'
      BY <1>2, <2>2, <2>3, <2>4, <3>3 DEF GetKnown
    <3>6. QED
      BY <1>1, <1>2, <2>1, <3>4, <3>5, HandlerStory DEF BrInv
  <2>6. CASE Recording(brSession) /\ Fresh
    <3>1. ~Reaches(document) /\ snapshot = brTask.read
      BY <2>1, <2>6 DEF raw, snapshot
    <3>2. /\ brTask' # NoRecording /\ brTask'.step = "stop" /\ brTask'.read = brTask.read
          /\ brTask'.document = document /\ brOwned' = document
      BY <1>5, <2>1, <2>6, <3>1
    <3>3. ~Continuing'
      BY <3>2 DEF Continuing
    <3>4. TaskKnown' /\ RecordingKnown'
      BY <2>1, <2>2, <2>4, <2>6, <3>2, <3>3 DEF TaskKnown, RecordingKnown
    <3>5. GetKnown'
      BY <1>2, <2>1, <2>2, <2>3, <2>4, <2>6 DEF GetKnown
    <3>6. RecorderKnown' /\ Attended'
      BY <2>2, <2>4, <2>6, <3>2 DEF RecorderKnown, Attended
    <3>7. QED
      BY <1>1, <1>2, <2>1, <3>4, <3>5, <3>6, HandlerStory DEF BrInv
  <2>7. CASE Recording(brSession) /\ ~Fresh
    <3>1. /\ document = brShown /\ brSession.document = brShown /\ Recorder.id = brSession.id /\ brOwned = brShown
          /\ Reaches(document) /\ raw = Recorder
      BY <2>1, <2>3, <2>4, <2>7 DEF RecordingKnown, raw
    <3>2. brSession.id # 0
      BY <1>3, <2>7, RecordingParts DEF MaybeTo, Recording
    <3>3. /\ snapshot \in RecordingsTo(Latest) /\ snapshot.id = brSession.id /\ snapshot.document = brShown
          /\ snapshot.active = Recorder.active /\ (Recording(snapshot) <=> Recorder.active)
      <4>1. snapshot = Merged(brTask.read, raw, document)
        BY <3>1, <3>2 DEF snapshot
      <4>2. /\ snapshot \in RecordingsTo(Latest) /\ snapshot.id = brSession.id /\ snapshot.document = brShown
            /\ snapshot.active = Recorder.active
        BY <1>3, <1>4, <3>1, <3>2, <4>1, MergedParts
      <4>3. QED
        BY <1>3, <4>2, Active
    <3>4. brOwned' = brOwned
      BY <1>1, <1>5, <3>1
    <3>5. brTask' # NoRecording => /\ Recorder.active /\ brTask'.step = "stop" /\ brTask'.read = snapshot
                                   /\ brTask'.document = brShown /\ Recording(snapshot)
      BY <1>1, <1>5, <3>1, <3>3
    <3>6. ~Continuing'
      BY <3>5 DEF Continuing
    <3>7. Repaired(0)'
      BY <1>1, <2>1, <2>2, <2>4, <2>7 DEF Attended
    <3>8. TaskKnown'
      BY <2>1, <2>2, <2>7, <3>2, <3>3, <3>5, <3>6 DEF TaskKnown
    <3>9. RecordingKnown'
      BY <2>1, <2>2, <2>3, <2>4, <2>7, <3>1, <3>4 DEF RecordingKnown
    <3>10. GetKnown'
      BY <1>2, <2>1, <2>2, <2>3, <2>4, <3>4 DEF GetKnown
    <3>11. RecorderKnown' /\ Attended'
      BY <2>1, <2>2, <2>3, <2>4, <3>5, <3>7 DEF RecorderKnown, Attended
    <3>12. QED
      BY <1>1, <1>2, <2>1, <3>8, <3>9, <3>10, <3>11, HandlerStory DEF BrInv
  <2>8. QED
    BY <2>5, <2>6, <2>7
<1>9. QED
  BY <1>6, <1>7, <1>8 DEF BrInv

\* The archived session is still active, of the same document, and its recorder stopped.
LEMMA ArchiveStopKeeps == ASSUME BrInv, ArchiveStop PROVE BrInv'
<1>1. /\ brLife = "on" /\ brTask # NoRecording /\ brTask.step = "stop" /\ brTask' = NoRecording
      /\ WriteSession(Archive(brTask.read)) /\ brOwned' = brOwned /\ TaskFrame
  BY DEF ArchiveStop, TaskStep, TaskEnds, Archive
<1>2. IF Reaches(brTask.document) THEN SetRecorder(Stopped(Recorder)) ELSE UNCHANGED brPages
  BY Zenon DEF ArchiveStop, Stopped
<1>3. HandlerFrame /\ UNCHANGED <<brCall, brOver>>
  BY <1>1, Frames
<1>4. /\ Latest \in Nat /\ Latest <= MaxBrEvents + 1 /\ brTask.read \in RecordingsTo(Latest)
      /\ brSession \in MaybeTo(Latest) /\ brOwned \in 0 .. Latest /\ brOver \in BOOLEAN
      /\ brCall \in CallsTo(Latest) \cup {NoRecording} /\ (brCall # NoRecording => brCalls # 0)
  BY <1>1, TaskShape
<1>5. /\ Archive(brTask.read) \in RecordingsTo(Latest) /\ Archive(brTask.read).id = brTask.read.id
      /\ Archive(brTask.read).document = brTask.read.document /\ Archive(brTask.read).navigated
      /\ Recording(Archive(brTask.read))
  BY <1>4, ArchiveParts, Active
<1>6. /\ MemoryStep /\ (brShown = 0 => brSession' = brSession)
      /\ (brShown # 0 => brSession' = Archive(brTask.read))
  BY <1>1, WriteIsStep
<1>7. PageShape' /\ (Reaches(brTask.document) => Recorder'.id = Recorder.id /\ ~Recorder'.active)
      /\ (~Reaches(brTask.document) => Recorder' = Recorder)
  <2>1. CASE Reaches(brTask.document)
    <3>1. brShown # 0 /\ Recorder \in Recorders
      BY <2>1, RecorderShape DEF BrInv, Reaches
    <3>2. Stopped(Recorder) \in Recorders /\ Stopped(Recorder).id = Recorder.id /\ ~Stopped(Recorder).active
      BY <3>1, RecorderChanges
    <3>3. PageShape' /\ Recorder' = Stopped(Recorder)
      BY <1>2, <1>3, <2>1, <3>1, <3>2, PageSet DEF BrInv
    <3>4. QED
      BY <2>1, <3>2, <3>3
  <2>2. CASE ~Reaches(brTask.document)
    BY <1>2, <1>3, <2>2, PageSame DEF BrInv
  <2>3. QED
    BY <2>1, <2>2
<1>8. Shapes' /\ Persists'
  <2>1. brSession' \in MaybeTo(Latest)
    BY <1>4, <1>5, <1>6 DEF MaybeTo
  <2>2. QED
    BY <1>1, <1>3, <1>4, <1>6, <1>7, <2>1, HandlerKeeps DEF BrInv
<1>9. Undisturbed =>
        /\ Story /\ brShown # 0 /\ ~Writing /\ TheRecording = brSession /\ Owner = brOwned
        /\ Recording(brTask.read) /\ Recording(brSession)
        /\ brTask.read.id = brSession.id /\ brTask.document # 0 /\ brTask.read.document # 0
        /\ Reaches(brTask.document) <=> ~Fresh
        /\ Fresh => brTask.read.document # brShown
        /\ ~Fresh => brTask.read.document = brShown
  BY <1>1, TaskTells
<1>10. EndedStays' /\ (Undisturbed' => Undisturbed)
  BY <1>1, <1>9, EventEnds
<1>11. ASSUME Undisturbed' PROVE Story'
  <2>1. TaskKnown /\ GetKnown /\ RecordingKnown /\ RecorderKnown /\ Attended
    BY <1>9, <1>10, <1>11 DEF Story
  <2>2. /\ TheRecording' = brSession' /\ Owner' = brOwned /\ brShown' = brShown /\ (Fresh' <=> Fresh)
        /\ (Repaired(0) => Repaired(0)') /\ brSession' = Archive(brTask.read)
    BY <1>1, <1>3, <1>6, <1>9, <1>10, <1>11, HandlerTells DEF BrInv
  <2>3. (Writing' <=> Writing) /\ (Getting' <=> Getting) /\ ~Continuing /\ ~Continuing'
    BY <1>1, <1>3 DEF Writing, Getting, Continuing
  <2>4. Recorder'.id = Recorder.id /\ (~Fresh => ~Recorder'.active) /\ (Fresh => ~Recorder'.active)
    BY <1>7, <1>9, <1>10, <1>11, <2>1 DEF RecorderKnown
  <2>5. TaskKnown' /\ RecorderKnown'
    BY <1>1, <2>4 DEF TaskKnown, RecorderKnown
  <2>6. RecordingKnown'
    BY <1>5, <1>9, <1>10, <1>11, <2>1, <2>2, <2>3, <2>4 DEF RecordingKnown
  <2>7. GetKnown'
    BY <1>3, <1>5, <1>9, <1>10, <1>11, <2>1, <2>2, <2>3, <2>4 DEF GetKnown
  <2>8. Attended'
    BY <1>1, <1>9, <1>10, <1>11, <2>1, <2>2, <2>4 DEF Attended
  <2>9. QED
    BY <1>1, <1>3, <1>9, <1>10, <1>11, <2>5, <2>6, <2>7, <2>8, HandlerStory DEF BrInv
<1>12. QED
  BY <1>8, <1>10, <1>11 DEF BrInv

LEMMA ContinueProbeKeeps == ASSUME BrInv, ContinueProbe PROVE BrInv'
<1> DEFINE step == IF Recorder.id = brTask.read.id THEN "reuse" ELSE "run"
<1>1. /\ brLife = "on" /\ brTask # NoRecording /\ brTask.step = "probe"
      /\ UNCHANGED <<brOwned, brPages>> /\ TaskFrame
  BY DEF ContinueProbe, TaskStep
<1>2. IF Reaches(brTask.document)
      THEN brTask' = Stepped(brTask, step) /\ UNCHANGED <<brSession, brPersistence, brTimer, brMutated>>
      ELSE brTask' = NoRecording /\ WriteSession(brTask.read)
  BY Zenon DEF ContinueProbe, TaskEnds, Stepped
<1>3. HandlerFrame /\ UNCHANGED <<brCall, brOver>>
  BY <1>1, Frames
<1>4. /\ Latest \in Nat /\ Latest <= MaxBrEvents + 1 /\ brTask.read \in RecordingsTo(Latest)
      /\ brTask \in TasksTo(Latest) /\ brTask.step # "get"
      /\ brSession \in MaybeTo(Latest) /\ brOwned \in 0 .. Latest /\ brOver \in BOOLEAN
      /\ brCall \in CallsTo(Latest) \cup {NoRecording} /\ (brCall # NoRecording => brCalls # 0)
  BY <1>1, TaskShape
<1>5. step \in {"reuse", "run"} /\ (step = "reuse" => Recorder.id = brTask.read.id)
  OBVIOUS
<1> HIDE DEF step
<1>6. Reaches(brTask.document) =>
        /\ brTask' \in TasksTo(Latest) /\ brTask' # NoRecording /\ brTask'.step = step
        /\ brTask'.read = brTask.read /\ brTask'.document = brTask.document
  BY <1>2, <1>4, <1>5, TaskGoesOn, WidenAll
<1>7. MemoryStep /\ (Reaches(brTask.document) => brSession' = brSession)
      /\ (~Reaches(brTask.document) => (brShown = 0 => brSession' = brSession)
                                       /\ (brShown # 0 => brSession' = brTask.read))
  BY <1>2, WriteIsStep DEF MemoryStep
<1>8. PageShape' /\ Recorder' = Recorder
  BY <1>1, <1>3, PageSame DEF BrInv
<1>9. Shapes' /\ Persists'
  <2>1. brSession' \in MaybeTo(Latest) /\ brTask' \in TasksTo(Latest) \cup {NoRecording}
    BY <1>2, <1>4, <1>6, <1>7 DEF MaybeTo
  <2>2. QED
    BY <1>1, <1>3, <1>4, <1>7, <1>8, <2>1, HandlerKeeps DEF BrInv
<1>10. Undisturbed =>
        /\ Story /\ brShown # 0 /\ ~Writing /\ TheRecording = brSession /\ Owner = brOwned
        /\ Recording(brTask.read) /\ Recording(brSession)
        /\ brTask.read.id = brSession.id /\ brTask.document # 0 /\ brTask.read.document # 0
        /\ Reaches(brTask.document) <=> ~Fresh
        /\ Fresh => brTask.read.document # brShown
  BY <1>1, TaskTells
<1>11. EndedStays' /\ (Undisturbed' => Undisturbed)
  BY <1>1, <1>10, EventEnds
<1>12. ASSUME Undisturbed' PROVE Story'
  <2>1. TaskKnown /\ GetKnown /\ RecordingKnown /\ RecorderKnown /\ Attended
    BY <1>10, <1>11, <1>12 DEF Story
  <2>2. /\ TheRecording' = brSession' /\ Owner' = brOwned /\ brShown' = brShown /\ (Fresh' <=> Fresh)
    BY <1>1, <1>3, HandlerTells DEF BrInv
  <2>3. (Writing' <=> Writing) /\ (Getting' <=> Getting) /\ Continuing
    BY <1>1, <1>3 DEF Writing, Getting, Continuing
  <2>4. CASE ~Fresh
    <3>1. /\ brTask' # NoRecording /\ brTask'.step = step
          /\ brTask'.read = brTask.read /\ brTask'.document = brTask.document /\ brSession' = brSession
      BY <1>6, <1>7, <1>10, <1>11, <1>12, <2>4
    <3>2. Continuing'
      BY <1>5, <3>1 DEF Continuing
    <3>3. TaskKnown'
      BY <1>1, <1>5, <1>8, <1>10, <1>11, <1>12, <2>1, <2>2, <2>3, <2>4, <3>1 DEF TaskKnown
    <3>4. GetKnown' /\ RecordingKnown'
      BY <1>3, <1>8, <1>10, <1>11, <1>12, <2>1, <2>2, <2>3, <2>4, <3>1, <3>2 DEF GetKnown,
         RecordingKnown
    <3>5. RecorderKnown' /\ Attended'
      BY <1>5, <1>8, <1>10, <1>11, <1>12, <2>1, <2>2, <2>3, <2>4, <3>1, <3>2 DEF RecorderKnown, Attended
    <3>6. QED
      BY <1>1, <1>3, <1>10, <1>11, <1>12, <3>3, <3>4, <3>5, HandlerStory DEF BrInv
  <2>5. CASE Fresh
    <3>1. brTask' = NoRecording /\ brSession' = brTask.read
      BY <1>2, <1>7, <1>10, <1>11, <1>12, <2>5
    <3>2. TaskKnown' /\ Attended'
      BY <2>2, <2>5, <3>1 DEF TaskKnown, Attended
    <3>3. GetKnown' /\ RecordingKnown'
      BY <1>3, <1>8, <1>10, <1>11, <1>12, <2>1, <2>2, <2>3, <2>5, <3>1 DEF GetKnown, RecordingKnown
    <3>4. RecorderKnown'
      BY <1>8, <2>1, <2>2, <2>5 DEF RecorderKnown
    <3>5. QED
      BY <1>1, <1>3, <1>10, <1>11, <1>12, <3>2, <3>3, <3>4, HandlerStory DEF BrInv
  <2>6. QED
    BY <2>4, <2>5
<1>13. QED
  BY <1>9, <1>11, <1>12 DEF BrInv

\* The recorder of the document shown is that of the session, and runs.
LEMMA ContinueRunKeeps == ASSUME BrInv, ContinueRun PROVE BrInv'
<1> DEFINE reached == Reaches(brTask.document) /\ (brTask.step = "run" \/ Recorder.id # 0)
           recorder == IF brTask.step = "run" THEN [id |-> brTask.read.id, active |-> TRUE] ELSE Resumed(Recorder)
<1>1. /\ brLife = "on" /\ brTask # NoRecording /\ brTask.step \in {"run", "reuse"} /\ brTask' = NoRecording
      /\ TaskFrame
  BY DEF ContinueRun, TaskStep, TaskEnds
<1>2. IF reached
      THEN SetRecorder(recorder) /\ brOwned' = brTask.document /\ WriteSession(Known(brTask.read, recorder.id))
      ELSE WriteSession(brTask.read) /\ UNCHANGED <<brOwned, brPages>>
  BY Zenon DEF ContinueRun, Known
<1>3. HandlerFrame /\ UNCHANGED <<brCall, brOver>>
  BY <1>1, Frames
<1>4. /\ Latest \in Nat /\ Latest <= MaxBrEvents + 1 /\ brTask.read \in RecordingsTo(Latest)
      /\ brTask.document \in 0 .. Latest
      /\ brSession \in MaybeTo(Latest) /\ brOwned \in 0 .. Latest /\ brOver \in BOOLEAN
      /\ brCall \in CallsTo(Latest) \cup {NoRecording} /\ (brCall # NoRecording => brCalls # 0)
  BY <1>1, TaskShape
<1>5. reached => /\ brShown # 0 /\ recorder \in Recorders /\ recorder.active /\ recorder.id # 0
                 /\ (brTask.step = "run" => recorder.id = brTask.read.id)
                 /\ (brTask.step = "reuse" => recorder.id = Recorder.id)
  <2>1. ASSUME reached PROVE brShown # 0
    BY <2>1 DEF Reaches
  <2>2. CASE brTask.step = "run"
    <3>1. brTask.read.id \in 1 .. MaxBrEvents /\ brTask.read.id # 0
      BY <1>4, RecordingParts
    <3>2. [id |-> brTask.read.id, active |-> TRUE] \in Recorders
      BY <3>1, BrowserRecordingConstants DEF Recorders
    <3>3. QED
      BY <2>1, <2>2, <3>1, <3>2
  <2>3. CASE brTask.step = "reuse"
    <3>1. reached => Recorder \in Recorders /\ Recorder.id # 0
      BY <2>1, <2>3, RecorderShape DEF BrInv
    <3>2. QED
      BY <2>1, <2>3, <3>1, RecorderChanges
  <2>4. QED
    BY <1>1, <2>2, <2>3
<1> HIDE DEF recorder
<1>6. reached => /\ Known(brTask.read, recorder.id) \in RecordingsTo(Latest)
                 /\ Known(brTask.read, recorder.id).id = recorder.id
                 /\ Known(brTask.read, recorder.id).document = brTask.read.document
                 /\ Known(brTask.read, recorder.id).active = brTask.read.active
  <2>1. reached => recorder.id \in 1 .. MaxBrEvents
    BY <1>5, BrowserRecordingConstants DEF Recorders
  <2>2. QED
    BY <1>4, <2>1, KnownParts
<1>7. MemoryStep /\ (brShown = 0 => brSession' = brSession)
      /\ (brShown # 0 /\ reached => brSession' = Known(brTask.read, recorder.id))
      /\ (brShown # 0 /\ ~reached => brSession' = brTask.read)
  BY <1>2, WriteIsStep
<1>8. PageShape' /\ (reached => Recorder' = recorder) /\ (~reached => Recorder' = Recorder)
  <2>1. CASE reached
    BY <1>2, <1>3, <1>5, <2>1, PageSet DEF BrInv
  <2>2. CASE ~reached
    BY <1>2, <1>3, <2>2, PageSame DEF BrInv
  <2>3. QED
    BY <2>1, <2>2
<1>9. Shapes' /\ Persists'
  <2>1. brSession' \in MaybeTo(Latest) /\ brOwned' \in 0 .. Latest
    BY <1>2, <1>4, <1>6, <1>7 DEF MaybeTo
  <2>2. QED
    BY <1>1, <1>3, <1>4, <1>7, <1>8, <2>1, HandlerKeeps DEF BrInv
<1>10. Undisturbed =>
        /\ Story /\ brShown # 0 /\ ~Writing /\ TheRecording = brSession /\ Owner = brOwned
        /\ Recording(brTask.read) /\ Recording(brSession)
        /\ brTask.read.id = brSession.id /\ brTask.document # 0 /\ brTask.read.document # 0
        /\ Reaches(brTask.document) <=> ~Fresh
        /\ Fresh => brTask.read.document # brShown
        /\ ~Fresh => brTask.document = brShown /\ brTask.read.document = brShown
  BY <1>1, TaskTells
<1>11. EndedStays' /\ (Undisturbed' => Undisturbed)
  BY <1>1, <1>10, EventEnds
<1>12. ASSUME Undisturbed' PROVE Story'
  <2>1. TaskKnown /\ GetKnown /\ RecordingKnown /\ RecorderKnown /\ Attended
    BY <1>10, <1>11, <1>12 DEF Story
  <2>2. /\ TheRecording' = brSession' /\ Owner' = brOwned' /\ brShown' = brShown /\ (Fresh' <=> Fresh)
    BY <1>1, <1>3, HandlerTells DEF BrInv
  <2>3. (Writing' <=> Writing) /\ (Getting' <=> Getting) /\ ~Continuing'
    BY <1>1, <1>3 DEF Writing, Getting, Continuing
  <2>4. CASE ~Fresh
    <3>1. brTask.step = "reuse" => Recorder.id = brTask.read.id
      BY <1>1, <1>10, <1>11, <1>12, <2>1, <2>4 DEF TaskKnown
    <3>2. brTask.read.id # 0
      BY <1>4, RecordingParts
    <3>3. reached
      BY <1>1, <1>10, <1>11, <1>12, <2>4, <3>1, <3>2
    <3>4. /\ Recorder'.id = brTask.read.id /\ Recorder'.active /\ brOwned' = brShown
          /\ brSession' = Known(brTask.read, recorder.id)
      BY <1>1, <1>2, <1>5, <1>7, <1>8, <1>10, <1>11, <1>12, <2>4, <3>1, <3>3
    <3>5. brSession'.id = brTask.read.id /\ brSession'.document = brShown /\ Recording(brSession')
      <4>1. brSession' \in RecordingsTo(Latest)
        BY <1>6, <3>3, <3>4
      <4>2. brTask.read.active
        BY <1>10, <1>11, <1>12 DEF Recording
      <4>3. QED
        BY <1>1, <1>4, <1>5, <1>6, <1>10, <1>11, <1>12, <2>4, <3>1, <3>3, <3>4, <4>1, <4>2, Active
    <3>6. TaskKnown' /\ Attended'
      BY <1>1, <3>4 DEF TaskKnown, Attended
    <3>7. RecordingKnown' /\ RecorderKnown'
      BY <1>10, <1>11, <1>12, <2>2, <2>4, <3>4, <3>5 DEF RecordingKnown, RecorderKnown
    <3>8. GetKnown'
      BY <1>3, <1>10, <1>11, <1>12, <2>1, <2>2, <2>3, <2>4, <3>4, <3>5 DEF GetKnown
    <3>9. QED
      BY <1>1, <1>3, <1>10, <1>11, <1>12, <3>6, <3>7, <3>8, HandlerStory DEF BrInv
  <2>5. CASE Fresh
    <3>1. ~reached
      BY <1>10, <1>11, <1>12, <2>5
    <3>2. brSession' = brTask.read /\ Recorder' = Recorder /\ brOwned' = brOwned
      BY <1>2, <1>7, <1>8, <1>10, <1>11, <1>12, <3>1
    <3>3. TaskKnown' /\ Attended'
      BY <1>1, <2>2, <2>5 DEF TaskKnown, Attended
    <3>4. GetKnown' /\ RecordingKnown'
      BY <1>3, <1>10, <1>11, <1>12, <2>1, <2>2, <2>3, <2>5, <3>2 DEF GetKnown, RecordingKnown
    <3>5. RecorderKnown'
      BY <2>1, <2>2, <2>5, <3>2 DEF RecorderKnown
    <3>6. QED
      BY <1>1, <1>3, <1>10, <1>11, <1>12, <3>3, <3>4, <3>5, HandlerStory DEF BrInv
  <2>6. QED
    BY <2>4, <2>5
<1>13. QED
  BY <1>9, <1>11, <1>12 DEF BrInv

\* A navigation that failed finds the recorder that the archive stopped.
LEMMA FailResumeKeeps == ASSUME BrInv, FailResume PROVE BrInv'
<1> DEFINE reached == Reaches(brTask.document) /\ Recorder.id # 0
<1>1. /\ brLife = "on" /\ brTask # NoRecording /\ brTask.step = "resume" /\ brTask' = NoRecording
      /\ brOwned' = brOwned /\ TaskFrame
  BY DEF FailResume, TaskStep, TaskEnds
<1>2. IF reached THEN SetRecorder(Resumed(Recorder)) /\ WriteSession(Known(brTask.read, Recorder.id))
                 ELSE WriteSession(brTask.read) /\ UNCHANGED brPages
  BY Zenon DEF FailResume, Known
<1>3. HandlerFrame /\ UNCHANGED <<brCall, brOver>>
  BY <1>1, Frames
<1>4. /\ Latest \in Nat /\ Latest <= MaxBrEvents + 1 /\ brTask.read \in RecordingsTo(Latest)
      /\ brSession \in MaybeTo(Latest) /\ brOwned \in 0 .. Latest /\ brOver \in BOOLEAN
      /\ brCall \in CallsTo(Latest) \cup {NoRecording} /\ (brCall # NoRecording => brCalls # 0)
  BY <1>1, TaskShape
<1>5. reached => /\ brShown # 0 /\ Resumed(Recorder) \in Recorders /\ Recorder.id \in 1 .. MaxBrEvents
                 /\ Resumed(Recorder).active /\ Resumed(Recorder).id = Recorder.id
  <2>1. ASSUME reached PROVE brShown # 0 /\ Recorder \in Recorders /\ Recorder.id \in 1 .. MaxBrEvents
    BY <2>1, RecorderShape, BrowserRecordingConstants DEF Reaches, BrInv
  <2>2. QED
    BY <2>1, RecorderChanges
<1>6. reached => /\ Known(brTask.read, Recorder.id) \in RecordingsTo(Latest)
                 /\ Known(brTask.read, Recorder.id).id = Recorder.id
                 /\ Known(brTask.read, Recorder.id).document = brTask.read.document
                 /\ Known(brTask.read, Recorder.id).active = brTask.read.active
  BY <1>4, <1>5, KnownParts
<1>7. MemoryStep /\ (brShown = 0 => brSession' = brSession)
      /\ (brShown # 0 /\ reached => brSession' = Known(brTask.read, Recorder.id))
      /\ (brShown # 0 /\ ~reached => brSession' = brTask.read)
  BY <1>2, WriteIsStep
<1>8. PageShape' /\ (reached => Recorder' = Resumed(Recorder)) /\ (~reached => Recorder' = Recorder)
  <2>1. CASE reached
    BY <1>2, <1>3, <1>5, <2>1, PageSet DEF BrInv
  <2>2. CASE ~reached
    BY <1>2, <1>3, <2>2, PageSame DEF BrInv
  <2>3. QED
    BY <2>1, <2>2
<1>9. Shapes' /\ Persists'
  <2>1. brSession' \in MaybeTo(Latest)
    BY <1>4, <1>6, <1>7 DEF MaybeTo
  <2>2. QED
    BY <1>1, <1>3, <1>4, <1>7, <1>8, <2>1, HandlerKeeps DEF BrInv
<1>10. Undisturbed =>
        /\ Story /\ brShown # 0 /\ ~Writing /\ TheRecording = brSession /\ Owner = brOwned
        /\ Recording(brTask.read) /\ Recording(brSession)
        /\ brTask.read.id = brSession.id /\ brTask.document # 0 /\ brTask.read.document # 0
        /\ Reaches(brTask.document) <=> ~Fresh
        /\ Fresh => brTask.read.document # brShown
        /\ ~Fresh => brTask.document = brShown /\ brTask.read.document = brShown
  BY <1>1, TaskTells
<1>11. EndedStays' /\ (Undisturbed' => Undisturbed)
  BY <1>1, <1>10, EventEnds
<1>12. ASSUME Undisturbed' PROVE Story'
  <2>1. TaskKnown /\ GetKnown /\ RecordingKnown /\ RecorderKnown /\ Attended
    BY <1>10, <1>11, <1>12 DEF Story
  <2>2. /\ TheRecording' = brSession' /\ Owner' = brOwned /\ brShown' = brShown /\ (Fresh' <=> Fresh)
    BY <1>1, <1>3, HandlerTells DEF BrInv
  <2>3. (Writing' <=> Writing) /\ (Getting' <=> Getting) /\ ~Continuing /\ ~Continuing'
    BY <1>1, <1>3 DEF Writing, Getting, Continuing
  <2>4. CASE ~Fresh
    <3>1. Recorder.id = brSession.id /\ brOwned = brShown /\ brSession.id # 0
      <4>1. Recorder.id = brSession.id /\ brOwned = brShown
        BY <1>10, <1>11, <1>12, <2>1, <2>3, <2>4 DEF RecordingKnown
      <4>2. QED
        BY <1>4, <1>10, <1>11, <1>12, <4>1, RecordingParts
    <3>2. reached
      BY <1>10, <1>11, <1>12, <2>4, <3>1
    <3>3. /\ Recorder'.id = brSession.id /\ Recorder'.active /\ brSession' = Known(brTask.read, Recorder.id)
      BY <1>5, <1>7, <1>8, <3>1, <3>2
    <3>4. brSession'.id = brSession.id /\ brSession'.document = brShown /\ Recording(brSession')
      <4>1. brSession' \in RecordingsTo(Latest)
        BY <1>6, <3>2, <3>3
      <4>2. brTask.read.active
        BY <1>10, <1>11, <1>12 DEF Recording
      <4>3. QED
        BY <1>4, <1>6, <1>10, <1>11, <1>12, <2>4, <3>1, <3>2, <3>3, <4>1, <4>2, Active
    <3>5. TaskKnown' /\ Attended'
      BY <1>1, <3>3 DEF TaskKnown, Attended
    <3>6. RecordingKnown' /\ RecorderKnown'
      BY <1>10, <1>11, <1>12, <2>2, <2>4, <3>1, <3>3, <3>4 DEF RecordingKnown, RecorderKnown
    <3>7. GetKnown'
      BY <1>3, <1>10, <1>11, <1>12, <2>1, <2>2, <2>3, <2>4, <3>1, <3>3, <3>4 DEF GetKnown
    <3>8. QED
      BY <1>1, <1>3, <1>10, <1>11, <1>12, <3>5, <3>6, <3>7, HandlerStory DEF BrInv
  <2>5. CASE Fresh
    <3>1. ~reached
      BY <1>10, <1>11, <1>12, <2>5
    <3>2. brSession' = brTask.read /\ Recorder' = Recorder
      BY <1>7, <1>8, <1>10, <1>11, <1>12, <3>1
    <3>3. TaskKnown' /\ Attended'
      BY <1>1, <2>2, <2>5 DEF TaskKnown, Attended
    <3>4. GetKnown' /\ RecordingKnown'
      BY <1>3, <1>10, <1>11, <1>12, <2>1, <2>2, <2>3, <2>5, <3>2 DEF GetKnown, RecordingKnown
    <3>5. RecorderKnown'
      BY <2>1, <2>2, <2>5, <3>2 DEF RecorderKnown
    <3>6. QED
      BY <1>1, <1>3, <1>10, <1>11, <1>12, <3>3, <3>4, <3>5, HandlerStory DEF BrInv
  <2>6. QED
    BY <2>4, <2>5
<1>13. QED
  BY <1>9, <1>11, <1>12 DEF BrInv

LEMMA SameRecordKeeps == ASSUME BrInv, SameRecord PROVE BrInv'
<1>1. /\ brLife = "on" /\ brTask # NoRecording /\ brTask.step = "record" /\ brTask' = NoRecording
      /\ brOwned' = brOwned /\ brPages' = brPages /\ TaskFrame
      /\ WriteSession(Stays(brTask.read, brTask.document))
  BY Zenon DEF SameRecord, TaskStep, TaskEnds, Stays
<1>2. HandlerFrame /\ UNCHANGED <<brCall, brOver>>
  BY <1>1, Frames
<1>3. /\ Latest \in Nat /\ Latest <= MaxBrEvents + 1 /\ brTask.read \in RecordingsTo(Latest)
      /\ brTask.document \in 0 .. Latest
      /\ brSession \in MaybeTo(Latest) /\ brOwned \in 0 .. Latest /\ brOver \in BOOLEAN
      /\ brCall \in CallsTo(Latest) \cup {NoRecording} /\ (brCall # NoRecording => brCalls # 0)
  BY <1>1, TaskShape
<1>4. /\ Stays(brTask.read, brTask.document) \in RecordingsTo(Latest)
      /\ Stays(brTask.read, brTask.document).id = brTask.read.id
      /\ Stays(brTask.read, brTask.document).active = brTask.read.active
      /\ Stays(brTask.read, brTask.document).document = brTask.document
      /\ Stays(brTask.read, brTask.document).navigated
  BY <1>3, StaysParts
<1>5. MemoryStep /\ (brShown = 0 => brSession' = brSession)
      /\ (brShown # 0 => brSession' = Stays(brTask.read, brTask.document))
  BY <1>1, WriteIsStep
<1>6. PageShape' /\ Recorder' = Recorder
  BY <1>1, <1>2, PageSame DEF BrInv
<1>7. Shapes' /\ Persists'
  <2>1. brSession' \in MaybeTo(Latest)
    BY <1>3, <1>4, <1>5 DEF MaybeTo
  <2>2. QED
    BY <1>1, <1>2, <1>3, <1>5, <1>6, <2>1, HandlerKeeps DEF BrInv
<1>8. Undisturbed =>
        /\ Story /\ brShown # 0 /\ ~Writing /\ TheRecording = brSession /\ Owner = brOwned
        /\ Recording(brTask.read) /\ Recording(brSession)
        /\ brTask.read.id = brSession.id /\ brTask.document # 0 /\ brTask.read.document # 0
        /\ Fresh => brTask.document # brShown
        /\ ~Fresh => brTask.document = brShown
  BY <1>1, TaskTells
<1>9. EndedStays' /\ (Undisturbed' => Undisturbed)
  BY <1>1, <1>8, EventEnds
<1>10. ASSUME Undisturbed' PROVE Story'
  <2>1. TaskKnown /\ GetKnown /\ RecordingKnown /\ RecorderKnown /\ Attended
    BY <1>8, <1>9, <1>10 DEF Story
  <2>2. /\ TheRecording' = brSession' /\ Owner' = brOwned /\ brShown' = brShown /\ (Fresh' <=> Fresh)
    BY <1>1, <1>2, HandlerTells DEF BrInv
  <2>3. (Writing' <=> Writing) /\ (Getting' <=> Getting) /\ ~Continuing /\ ~Continuing'
    BY <1>1, <1>2 DEF Writing, Getting, Continuing
  <2>4. /\ brSession'.id = brSession.id /\ brSession'.document = brTask.document /\ Recording(brSession')
        /\ brSession'.navigated
    <3>1. brTask.read.active
      BY <1>8, <1>9, <1>10 DEF Recording
    <3>2. QED
      BY <1>3, <1>4, <1>5, <1>8, <1>9, <1>10, <3>1, Active
  <2>5. ~Fresh => Recorder.active /\ Recorder.id = brSession.id /\ brOwned = brShown
    BY <1>1, <1>8, <1>9, <1>10, <2>1, <2>3 DEF Attended, RecordingKnown
  <2>6. TaskKnown' /\ Attended'
    BY <1>1, <1>6, <2>2, <2>5 DEF TaskKnown, Attended
  <2>7. RecordingKnown'
    BY <1>6, <1>8, <1>9, <1>10, <2>1, <2>2, <2>3, <2>4, <2>5 DEF RecordingKnown
  <2>8. RecorderKnown'
    BY <1>6, <1>8, <1>9, <1>10, <2>1, <2>2, <2>3, <2>4 DEF RecorderKnown
  <2>9. GetKnown'
    BY <1>2, <1>6, <1>8, <1>9, <1>10, <2>1, <2>2, <2>3, <2>4 DEF GetKnown
  <2>10. QED
    BY <1>1, <1>2, <1>8, <1>9, <1>10, <2>6, <2>7, <2>8, <2>9, HandlerStory DEF BrInv
<1>11. QED
  BY <1>7, <1>9, <1>10 DEF BrInv

\* An event that is taken finds the session as it is. Of a commit of the document shown, an active
\* recording follows; of a failure, the recorder that was stopped for it runs again.
LEMMA TakeKeeps == ASSUME BrInv, TakeEvent PROVE BrInv'
<1> DEFINE e == Head(brQueue)
           commit == [kind |-> "committed", document |-> brShown]
           owner == IF brOwned # 0 THEN brOwned ELSE IF brSession # NoRecording THEN brSession.document ELSE 0
           follows == e.kind \in {"committed", "completed"} /\ Continues(brSession, e.document)
           resumes == e.kind = "failed" /\ Recording(brSession) /\ brSession.navigated
           records == e.kind = "same" /\ Recording(brSession)
<1>1. /\ brLife = "on" /\ brTask = NoRecording /\ brQueue # <<>> /\ brQueue' = Tail(brQueue)
      /\ UNCHANGED <<brMemory, brStorage, brPage, brCall, brHistory, brBounds>>
  BY DEF TakeEvent
<1>2. \/ e.kind = "before" /\ brTask' = [step |-> "get", read |-> brSession, document |-> owner]
      \/ follows /\ brTask' = [step |-> "probe", read |-> Follow(brSession, e.document), document |-> e.document]
      \/ resumes /\ brTask' = [step |-> "resume", read |-> Unavailable(brSession), document |-> brSession.document]
      \/ records /\ brTask' = [step |-> "record", read |-> brSession, document |-> e.document]
      \/ e.kind # "before" /\ ~follows /\ ~resumes /\ ~records /\ brTask' = NoRecording
  BY <1>1 DEF TakeEvent, NextTask, Follow, Unavailable
<1>3. UNCHANGED <<brSession, brOwned, brPersistence, brTimer, brMutated, brStored, brWrite, brWriting, brFailed,
                  brLife, brShown, brPages, brMoving, brOver, brCrossed, brBack, brLost, brCalls, brNavigations,
                  brFaults>>
  BY <1>1 DEF brMemory, brStorage, brPage, brHistory, brBounds
<1>4. /\ Latest \in Nat /\ Latest <= MaxBrEvents + 1 /\ brSession \in MaybeTo(Latest) /\ brOwned \in 0 .. Latest
      /\ (Recording(brSession) => brSession \in RecordingsTo(Latest) /\ brSession.document \in 0 .. Latest)
      /\ (brSession # NoRecording => brSession.document \in 0 .. Latest)
  <2>1. Latest \in Nat /\ Latest <= MaxBrEvents + 1 /\ brSession \in MaybeTo(Latest) /\ brOwned \in 0 .. Latest
    BY LatestNat DEF BrInv, Shapes, MemoryShape
  <2>2. brSession # NoRecording => brSession \in RecordingsTo(Latest) /\ brSession.document \in 0 .. Latest
    BY <2>1, RecordingParts DEF MaybeTo
  <2>3. QED
    BY <2>1, <2>2 DEF Recording
<1>5. /\ TheRecording' = brSession /\ TheRecording = brSession /\ Owner = brOwned /\ Owner' = brOwned
      /\ Latest' = Latest /\ (Clean' <=> Clean) /\ (Starting' <=> Starting)
  BY <1>1, <1>3 DEF TheRecording, Owner, Latest, Clean, Starting
<1>6. /\ e \in EventsTo(Latest) /\ e = brQueue[1] /\ brQueue' \in Seq(EventsTo(Latest))
      /\ e.kind \in {"before", "committed", "completed", "failed", "same"} /\ e.document \in 1 .. Latest
      /\ e = [kind |-> e.kind, document |-> e.document]
  <2>1. e \in EventsTo(Latest) /\ e = brQueue[1] /\ brQueue' \in Seq(EventsTo(Latest))
    BY <1>1, QueueTail DEF BrInv, Shapes, WorkShape
  <2>2. QED
    BY <2>1 DEF EventsTo
<1> HIDE DEF e
<1>7. brTask' \in TasksTo(Latest) \cup {NoRecording}
  <2>1. CASE e.kind = "before" /\ brTask' = [step |-> "get", read |-> brSession, document |-> owner]
    <3>1. owner \in 0 .. Latest
      BY <1>4
    <3>2. QED
      BY <1>4, <2>1, <3>1, TaskMade
  <2>2. CASE follows /\ brTask' = [step |-> "probe", read |-> Follow(brSession, e.document), document |-> e.document]
    <3>1. Follow(brSession, e.document) \in RecordingsTo(Latest) /\ e.document \in 0 .. Latest
      BY <1>4, <1>6, <2>2, FollowParts DEF Continues
    <3>2. QED
      BY <1>4, <2>2, <3>1, TaskMade DEF MaybeTo
  <2>3. CASE resumes /\ brTask' = [step |-> "resume", read |-> Unavailable(brSession), document |-> brSession.document]
    <3>1. Unavailable(brSession) \in RecordingsTo(Latest)
      BY <1>4, <2>3, UnavailableParts
    <3>2. QED
      BY <1>4, <2>3, <3>1, TaskMade DEF MaybeTo
  <2>4. CASE records /\ brTask' = [step |-> "record", read |-> brSession, document |-> e.document]
    <3>1. e.document \in 0 .. Latest
      BY <1>4, <1>6
    <3>2. QED
      BY <1>4, <2>4, <3>1, TaskMade
  <2>5. QED
    BY <1>2, <2>1, <2>2, <2>3, <2>4
<1>8. Shapes'
  <2>1. WorkShape' /\ PageShape'
    BY <1>1, <1>3, <1>5, <1>6, <1>7 DEF BrInv, Shapes, WorkShape, PageShape
  <2>2. MemoryShape'
    BY <1>3, <1>5 DEF BrInv, Shapes, MemoryShape
  <2>3. QED
    BY <2>1, <2>2 DEF Shapes
<1>9. Persists'
  BY <1>1, <1>3, <1>5 DEF BrInv, Persists
<1>10. Clean => brCall = NoRecording \/ brCall.kind = "get"
  BY <1>1 DEF BrInv, EndedStays, ChangesAlone
<1>11. EndedStays'
  BY <1>1, <1>3, <1>5, <1>10, EndsKept DEF BrInv
<1>12. ASSUME Undisturbed' PROVE Story'
  <2>1. Story /\ brShown # 0 /\ ~Writing
    BY <1>5, <1>10, <1>12 DEF BrInv, Undisturbed, Clean, Writing
  <2>2. TaskKnown /\ GetKnown /\ RecordingKnown /\ RecorderKnown /\ Attended
    BY <2>1 DEF Story
  <2>3. /\ InOrder' /\ (Fresh' <=> (Fresh /\ e # commit)) /\ (Fresh' => e.document # brShown)
        /\ (~Fresh' => e.document = brShown)
    BY <1>1, <1>3, <2>1, EventTaken DEF BrInv, Story, e
  <2>4. /\ Archived' /\ (e = [kind |-> "before", document |-> brShown] => Repaired(0)')
        /\ (Repaired(0) => e.kind # "same" /\ (e.kind # "failed" => Repaired(0)'))
    BY <1>1, <1>3, <2>1, RepairsShrink DEF BrInv, Story, e
  <2>5. e = commit <=> e.kind = "committed" /\ e.document = brShown
    BY <1>6
  <2>6. Recorder' = Recorder /\ brShown' = brShown /\ (Getting' <=> Getting) /\ ~Writing' /\ ~Continuing
    BY <1>1, <1>3, <2>1 DEF Recorder, Getting, Writing, Continuing
  <2>7. Recording(brSession) => /\ brSession.document # 0 /\ brOwned # 0
                                /\ Fresh => brSession.document # brShown /\ brOwned # brShown
                                /\ ~Fresh => brSession.document = brShown /\ brOwned = brShown
                                             /\ (~brSession.navigated => Recorder.active)
    BY <1>5, <2>2, <2>6 DEF RecordingKnown
  <2>8. (Recording(brSession) /\ ~Fresh /\ ~Recorder.active) => Repaired(0)
    BY <1>1, <1>5, <2>2, <2>6 DEF Attended
  <2>9. RecorderKnown'
    BY <1>5, <2>1, <2>2, <2>3, <2>6 DEF RecorderKnown
  <2>10. GetKnown'
    BY <1>1, <1>5, <2>2, <2>3, <2>6 DEF GetKnown
  <2>11. ASSUME Recording(brSession), Fresh, e = commit PROVE follows
    BY <2>5, <2>7, <2>11 DEF Continues
  <2>12. ASSUME brTask' \in TasksTo(Latest), TaskKnown', Attended',
                Continuing' \/ (~Continuing' /\ (Recording(brSession) => (Fresh' <=> Fresh)))
         PROVE  Story'
    <3>1. RecordingKnown'
      BY <1>5, <2>2, <2>3, <2>6, <2>7, <2>12 DEF RecordingKnown
    <3>2. QED
      BY <2>3, <2>4, <2>9, <2>10, <2>12, <3>1 DEF Story
  <2>13. CASE e.kind = "before" /\ brTask' = [step |-> "get", read |-> brSession, document |-> owner]
    <3>1. /\ brTask' # NoRecording /\ brTask'.step = "get" /\ brTask'.read = brSession /\ brTask'.document = owner
          /\ brTask' \in TasksTo(Latest)
      BY <1>4, <1>7, <2>13, TaskMade, WidenAll
    <3>2. ~Continuing' /\ (Fresh' <=> Fresh)
      BY <2>3, <2>5, <2>13, <3>1 DEF Continuing
    <3>3. Recording(brSession) => owner = brOwned
      BY <2>7
    <3>4. TaskKnown'
      BY <1>5, <2>6, <2>7, <3>1, <3>2, <3>3 DEF TaskKnown
    <3>5. ~Fresh' => Repaired(0)'
      <4>1. ASSUME ~Fresh' PROVE e = [kind |-> "before", document |-> brShown]
        BY <1>6, <2>3, <2>13, <4>1
      <4>2. QED
        BY <2>4, <4>1
    <3>6. Attended'
      BY <3>1, <3>5 DEF Attended
    <3>7. QED
      BY <2>12, <3>1, <3>2, <3>4, <3>6
  <2>14. CASE follows /\ brTask' = [step |-> "probe", read |-> Follow(brSession, e.document), document |-> e.document]
    <3>1. Recording(brSession)
      BY <2>14 DEF Continues
    <3>2. /\ Follow(brSession, e.document) \in RecordingsTo(Latest)
          /\ Follow(brSession, e.document).id = brSession.id /\ Follow(brSession, e.document).document = e.document
          /\ Recording(Follow(brSession, e.document))
      <4>1. e.document \in 0 .. Latest
        BY <1>4, <1>6
      <4>2. /\ Follow(brSession, e.document) \in RecordingsTo(Latest) /\ Follow(brSession, e.document).active
            /\ Follow(brSession, e.document).id = brSession.id /\ Follow(brSession, e.document).document = e.document
        BY <1>4, <3>1, <4>1, FollowParts
      <4>3. QED
        BY <1>4, <4>2, Active
    <3>3. /\ brTask'.step = "probe" /\ brTask'.read = Follow(brSession, e.document) /\ brTask'.document = e.document
          /\ brTask' # NoRecording /\ brTask' \in TasksTo(Latest)
      <4>1. brTask' \in TasksTo(Latest)
        BY <1>4, <1>6, <2>14, <3>2, TaskMade DEF MaybeTo
      <4>2. brTask' # NoRecording
        BY <1>4, <4>1, WidenAll
      <4>3. QED
        BY <2>14, <4>1, <4>2
    <3>4. Continuing'
      BY <3>3 DEF Continuing
    <3>5. TaskKnown'
      BY <1>5, <1>6, <2>3, <2>6, <3>1, <3>2, <3>3 DEF TaskKnown
    <3>6. Attended'
      BY <3>3, <3>4 DEF Attended
    <3>7. QED
      BY <2>12, <3>3, <3>4, <3>5, <3>6
  <2>15. CASE resumes /\ brTask' = [step |-> "resume", read |-> Unavailable(brSession), document |-> brSession.document]
    <3>1. /\ Unavailable(brSession) \in RecordingsTo(Latest)
          /\ Unavailable(brSession).id = brSession.id /\ Unavailable(brSession).document = brSession.document
          /\ Recording(Unavailable(brSession))
      <4>1. brSession.active
        BY <2>15 DEF Recording
      <4>2. QED
        BY <1>4, <2>15, <4>1, UnavailableParts, Active
    <3>2. /\ brTask'.step = "resume" /\ brTask'.read = Unavailable(brSession)
          /\ brTask'.document = brSession.document
          /\ brTask' # NoRecording /\ brTask' \in TasksTo(Latest)
      <4>1. brTask' \in TasksTo(Latest)
        BY <1>4, <2>15, <3>1, TaskMade DEF MaybeTo
      <4>2. brTask' # NoRecording
        BY <1>4, <4>1, WidenAll
      <4>3. QED
        BY <2>15, <4>1, <4>2
    <3>3. ~Continuing' /\ (Fresh' <=> Fresh)
      BY <2>3, <2>5, <2>15, <3>2 DEF Continuing
    <3>4. TaskKnown'
      BY <1>5, <2>6, <2>7, <2>15, <3>1, <3>2, <3>3 DEF TaskKnown
    <3>5. Attended'
      BY <3>2 DEF Attended
    <3>6. QED
      BY <2>12, <3>2, <3>3, <3>4, <3>5
  <2>16. CASE records /\ brTask' = [step |-> "record", read |-> brSession, document |-> e.document]
    <3>1. /\ brTask'.step = "record" /\ brTask'.read = brSession /\ brTask'.document = e.document
          /\ brTask' # NoRecording /\ brTask' \in TasksTo(Latest)
      <4>1. brTask' \in TasksTo(Latest)
        BY <1>4, <1>6, <2>16, TaskMade
      <4>2. brTask' # NoRecording
        BY <1>4, <4>1, WidenAll
      <4>3. QED
        BY <2>16, <4>1, <4>2
    <3>2. ~Continuing' /\ (Fresh' <=> Fresh)
      BY <2>3, <2>5, <2>16, <3>1 DEF Continuing
    <3>3. TaskKnown'
      BY <1>5, <1>6, <2>3, <2>6, <2>7, <2>16, <3>1, <3>2 DEF TaskKnown
    <3>4. ~Fresh => Recorder.active
      BY <2>4, <2>8, <2>16
    <3>5. Attended'
      BY <2>6, <3>1, <3>2, <3>4 DEF Attended
    <3>6. QED
      BY <2>12, <3>1, <3>2, <3>3, <3>5
  <2>17. CASE e.kind # "before" /\ ~follows /\ ~resumes /\ ~records /\ brTask' = NoRecording
    <3>1. ~Continuing'
      BY <2>17 DEF Continuing
    <3>2. Recording(brSession) => (Fresh' <=> Fresh)
      BY <2>3, <2>11, <2>17
    <3>3. TaskKnown'
      BY <2>17 DEF TaskKnown
    <3>4. (Recording(brSession) /\ ~Fresh /\ ~Recorder.active) => Repaired(0)'
      BY <2>4, <2>7, <2>8, <2>17
    <3>5. Attended'
      BY <1>5, <2>6, <2>17, <3>2, <3>4 DEF Attended
    <3>6. RecordingKnown'
      BY <1>5, <2>2, <2>6, <3>1, <3>2, <2>7 DEF RecordingKnown
    <3>7. QED
      BY <2>3, <2>4, <2>9, <2>10, <3>3, <3>5, <3>6 DEF Story
  <2>18. QED
    BY <1>2, <2>13, <2>14, <2>15, <2>16, <2>17
<1>13. QED
  BY <1>8, <1>9, <1>11, <1>12 DEF BrInv

-----------------------------------------------------------------------------
(* The calls of the user *)

LEMMA CallShape ==
    ASSUME BrInv, brCall # NoRecording
    PROVE  /\ Latest \in Nat /\ Latest <= MaxBrEvents + 1 /\ brCall \in CallsTo(Latest)
           /\ brCall.step # "remove" => brCall.read \in RecordingsTo(Latest) /\ brCall.read.document \in 0 .. Latest
           /\ brTask \in TasksTo(Latest) \cup {NoRecording}
           /\ brSession \in MaybeTo(Latest) /\ brOwned \in 0 .. Latest /\ brOver \in BOOLEAN
           /\ brCalls # 0 /\ brCalls \in 1 .. MaxBrEvents /\ NoRecording \in MaybeTo(Latest) /\ 0 \in 0 .. Latest
<1>1. Latest \in Nat /\ Latest <= MaxBrEvents + 1
  BY LatestNat DEF BrInv
<1>2. brCall \in CallsTo(Latest)
  BY DEF BrInv, Shapes, WorkShape
<1>3. brCall.step # "remove" => brCall.read \in RecordingsTo(Latest) /\ brCall.read.document \in 0 .. Latest
  BY <1>1, <1>2, CallParts, RecordingParts
<1>4. brCalls # 0 /\ brCalls \in 1 .. MaxBrEvents
  BY BrowserRecordingConstants DEF BrInv, Shapes, WorkShape, MemoryShape
<1>5. QED
  BY <1>1, <1>2, <1>3, <1>4 DEF BrInv, Shapes, MemoryShape, WorkShape, MaybeTo

\* What a start, stop or clear does, it does alone.
LEMMA AloneTells ==
    ASSUME BrInv, brLife = "on", brCall # NoRecording, brCall.kind # "get", Clean
    PROVE  /\ brTask = NoRecording /\ brQueue = <<>> /\ ~Fresh /\ brShown # 0 /\ TheRecording = brSession
           /\ brCall.kind # "start" => brCall.read = brSession
           /\ brCall.kind = "start" => ~brOver
           /\ brCall.step \in {"start", "write"} =>
                brSession = NoRecording /\ brCall.read.document = brShown /\ Recording(brCall.read)
           /\ brCall.step = "write" =>
                Recorder = [id |-> brCall.read.id, active |-> TRUE] /\ brOwned = brShown
<1>1. ChangesAlone /\ TheRecording = brSession
  BY DEF BrInv, EndedStays, TheRecording
<1>2. QED
  BY <1>1, NothingQueued DEF ChangesAlone, Clean

\* With nothing queued or handled there is little to tell.
LEMMA QuietStory ==
    ASSUME brQueue' = <<>>, brTask' = NoRecording, ~Getting', RecordingKnown', RecorderKnown',
           Recording(TheRecording') => Recorder'.active
    PROVE  Story'
<1>1. ~Fresh' /\ InOrder' /\ Archived'
  BY DEF Fresh, InOrder, Archived
<1>2. TaskKnown' /\ GetKnown' /\ Attended'
  BY DEF TaskKnown, GetKnown, Attended
<1>3. QED
  BY <1>1, <1>2 DEF Story

\* Nothing is recorded, and no recorder runs.
LEMMA SilentStory ==
    ASSUME brQueue' = <<>>, brTask' = NoRecording, ~Getting', ~Recording(TheRecording'), ~Recorder'.active
    PROVE  Story'
<1>1. RecordingKnown' /\ RecorderKnown'
  BY DEF RecordingKnown, RecorderKnown
<1>2. QED
  BY <1>1, QuietStory

\* A recorder that runs while the user stops or clears is the one that the call reaches.
LEMMA AloneReaches ==
    ASSUME BrInv, brLife = "on", brCall # NoRecording, brCall.kind \in {"stop", "clear"}, Clean,
           Recorder.active
    PROVE  Reaches(brCall.read.document) /\ Recorder.id # 0
<1>1. Undisturbed
  BY DEF Undisturbed, Starting
<1>2. Story /\ brShown # 0 /\ ~Fresh /\ ~Writing /\ ~Continuing /\ TheRecording = brSession /\ brCall.read = brSession
  BY <1>1, AloneTells DEF BrInv, Writing, Continuing
<1>3. Recording(brSession) /\ brSession.document = brShown
  BY <1>2 DEF Story, RecorderKnown, RecordingKnown
<1>4. Recorder.id # 0
  BY <1>2, RecorderShape DEF BrInv
<1>5. QED
  BY <1>2, <1>3, <1>4 DEF Reaches

LEMMA CallClearKeeps == ASSUME BrInv, CallClear PROVE BrInv'
<1>1. PICK kind \in {"clear", "start"} :
         /\ brLife = "on" /\ brCall # NoRecording /\ brCall.kind = kind /\ brCall.step = "page"
         /\ brCall' = (IF kind = "start" THEN [kind |-> "start", step |-> "remove", read |-> NoRecording]
                                         ELSE NoRecording)
         /\ brOver' = (brOver \/ kind = "clear")
  BY DEF CallClear, CallStep, NextCall, BrCallEnds
<1>2. /\ IF Reaches(brCall.read.document) THEN SetRecorder([id |-> 0, active |-> FALSE]) ELSE UNCHANGED brPages
      /\ RemoveSession /\ CallFrame
  BY DEF CallClear
<1>3. HandlerFrame /\ UNCHANGED brTask
  BY <1>2, Frames
<1>4. MemoryStep /\ brSession' = NoRecording /\ brOwned' = 0
  BY <1>2, RemoveIsStep
<1>5. PageShape' /\ (Reaches(brCall.read.document) => ~Recorder'.active)
      /\ (~Reaches(brCall.read.document) => Recorder' = Recorder)
  <2>1. CASE Reaches(brCall.read.document)
    <3>1. [id |-> 0, active |-> FALSE] \in Recorders
      BY BrowserRecordingConstants DEF Recorders
    <3>2. PageShape' /\ Recorder' = [id |-> 0, active |-> FALSE]
      BY <1>2, <1>3, <2>1, <3>1, PageSet DEF BrInv, Reaches
    <3>3. QED
      BY <2>1, <3>2
  <2>2. CASE ~Reaches(brCall.read.document)
    BY <1>2, <1>3, <2>2, PageSame DEF BrInv
  <2>3. QED
    BY <2>1, <2>2
<1>6. /\ Latest \in Nat /\ Latest <= MaxBrEvents + 1
      /\ brTask \in TasksTo(Latest) \cup {NoRecording} /\ brOver \in BOOLEAN /\ brCalls # 0
      /\ NoRecording \in MaybeTo(Latest) /\ 0 \in 0 .. Latest
  BY <1>1, CallShape
<1>7. kind = "start" => /\ brCall' \in CallsTo(Latest) /\ brCall' # NoRecording
                        /\ brCall'.kind = "start" /\ brCall'.step = "remove"
  <2>1. kind = "start" => brCall' \in CallsTo(Latest)
    BY <1>1 DEF CallsTo
  <2>2. QED
    BY <1>1, <1>6, <2>1, WidenAll
<1>8. Shapes' /\ Persists'
  <2>1. brCall' \in CallsTo(Latest) \cup {NoRecording} /\ brOver' \in BOOLEAN
    BY <1>1, <1>6, <1>7
  <2>2. QED
    BY <1>1, <1>3, <1>4, <1>5, <1>6, <2>1, HandlerKeeps DEF BrInv
<1>9. (Clean' <=> Clean) /\ TheRecording' = NoRecording
  BY <1>1, <1>3, <1>4, HandlerTells DEF BrInv
<1>10. brQueue' = brQueue
  BY <1>3 DEF HandlerFrame
<1>11. EndedStays'
  <2>1. ASSUME Clean' PROVE ChangesAlone'
    <3>1. brTask' = NoRecording /\ brQueue' = <<>> /\ (brCall.kind = "start" => ~brOver)
      BY <1>1, <1>3, <1>9, <1>10, <2>1, AloneTells
    <3>2. CASE kind = "start"
      BY <1>1, <1>6, <1>7, <3>1, <3>2 DEF ChangesAlone
    <3>3. CASE kind = "clear"
      BY <1>1, <3>3 DEF ChangesAlone
    <3>4. QED
      BY <3>2, <3>3
  <2>2. QED
    BY <1>9, <2>1 DEF EndedStays, Recording
<1>12. ASSUME Undisturbed' PROVE Story'
  <2>1. kind = "clear" /\ brCall' = NoRecording /\ Clean
    BY <1>1, <1>7, <1>9, <1>12 DEF Undisturbed, Starting
  <2>2. brQueue' = <<>> /\ brTask' = NoRecording
    BY <1>1, <1>3, <1>10, <2>1, AloneTells
  <2>3. ~Recorder'.active
    BY <1>1, <1>5, <2>1, AloneReaches
  <2>4. ~Getting' /\ ~Recording(TheRecording')
    BY <1>9, <2>1 DEF Getting, Recording
  <2>5. QED
    BY <2>2, <2>3, <2>4, SilentStory
<1>13. QED
  BY <1>8, <1>11, <1>12 DEF BrInv

LEMMA CallStopKeeps == ASSUME BrInv, CallStop PROVE BrInv'
<1> DEFINE read == brCall.read
           reached == Reaches(read.document) /\ Recorder.id # 0
<1>1. /\ brLife = "on" /\ brCall # NoRecording /\ brCall.kind = "stop" /\ brCall.step = "page"
      /\ brCall' = NoRecording /\ brOwned' = 0 /\ brOver' = TRUE /\ CallFrame
  BY DEF CallStop, CallStep, BrCallEnds
<1>2. IF reached THEN SetRecorder(Stopped(Recorder)) /\ WriteSession(MergedAs(read, Recorder, read.document, FALSE))
                 ELSE WriteSession(Over(read)) /\ UNCHANGED brPages
  BY Zenon DEF CallStop, Stopped, MergedAs, Over
<1>3. HandlerFrame /\ UNCHANGED brTask
  BY <1>1, Frames
<1>4. /\ Latest \in Nat /\ Latest <= MaxBrEvents + 1
      /\ read \in RecordingsTo(Latest) /\ read.document \in 0 .. Latest
      /\ brTask \in TasksTo(Latest) \cup {NoRecording} /\ brSession \in MaybeTo(Latest)
      /\ brCalls # 0 /\ 0 \in 0 .. Latest
  BY <1>1, CallShape
<1>5. reached => brShown # 0 /\ Recorder \in Recorders /\ Recorder.id # 0
  BY RecorderShape DEF BrInv, Reaches
<1>6. /\ Over(read) \in RecordingsTo(Latest) /\ ~Over(read).active
      /\ reached => /\ MergedAs(read, Recorder, read.document, FALSE) \in RecordingsTo(Latest)
                    /\ ~MergedAs(read, Recorder, read.document, FALSE).active
  BY <1>4, <1>5, OverParts, MergedParts DEF MaybeTo
<1>7. MemoryStep /\ (brShown = 0 => brSession' = brSession)
      /\ (brShown # 0 => brSession' \in RecordingsTo(Latest) /\ ~brSession'.active)
  <2>1. CASE reached
    BY <1>2, <1>6, <2>1, WriteIsStep
  <2>2. CASE ~reached
    BY <1>2, <1>6, <2>2, WriteIsStep
  <2>3. QED
    BY <2>1, <2>2
<1>8. PageShape' /\ (reached => ~Recorder'.active) /\ (~reached => Recorder' = Recorder)
  <2>1. CASE reached
    BY <1>2, <1>3, <1>5, <2>1, RecorderChanges, PageSet DEF BrInv
  <2>2. CASE ~reached
    BY <1>2, <1>3, <2>2, PageSame DEF BrInv
  <2>3. QED
    BY <2>1, <2>2
<1>9. Shapes' /\ Persists'
  <2>1. brSession' \in MaybeTo(Latest)
    BY <1>4, <1>7 DEF MaybeTo
  <2>2. QED
    BY <1>1, <1>3, <1>4, <1>7, <1>8, <2>1, HandlerKeeps DEF BrInv
<1>10. (Clean' <=> Clean) /\ TheRecording' = brSession'
  BY <1>1, <1>3, HandlerTells DEF BrInv
<1>11. ASSUME Clean' PROVE ~Recording(TheRecording')
  BY <1>7, <1>10, <1>11, AloneTells DEF Clean, Recording
<1>12. EndedStays'
  BY <1>1, <1>11 DEF EndedStays, ChangesAlone
<1>13. ASSUME Undisturbed' PROVE Story'
  <2>1. Clean
    BY <1>10, <1>13 DEF Undisturbed
  <2>2. brQueue' = <<>> /\ brTask' = NoRecording
    BY <1>1, <1>3, <2>1, AloneTells DEF HandlerFrame
  <2>3. ~Recorder'.active
    BY <1>1, <1>8, <2>1, AloneReaches
  <2>4. ~Getting' /\ ~Recording(TheRecording')
    BY <1>1, <1>10, <1>11, <2>1 DEF Getting
  <2>5. QED
    BY <2>2, <2>3, <2>4, SilentStory
<1>14. QED
  BY <1>9, <1>12, <1>13 DEF BrInv

LEMMA CallRemoveKeeps == ASSUME BrInv, CallRemove PROVE BrInv'
<1> DEFINE new == [id |-> brCalls, active |-> TRUE, document |-> brShown, available |-> TRUE, navigated |-> FALSE]
<1>1. /\ brLife = "on" /\ brCall # NoRecording /\ brCall.kind = "start" /\ brCall.step = "remove" /\ brShown # 0
      /\ brCall' = [kind |-> "start", step |-> "start", read |-> new]
      /\ RemoveSession /\ UNCHANGED <<brPages, brOver>> /\ CallFrame
  BY DEF CallRemove, CallStep, NextCall
<1>2. HandlerFrame /\ UNCHANGED brTask
  BY <1>1, Frames
<1>3. MemoryStep /\ brSession' = NoRecording /\ brOwned' = 0 /\ PageShape'
  BY <1>1, <1>2, RemoveIsStep, PageSame DEF BrInv
<1>4. /\ Latest \in Nat /\ Latest <= MaxBrEvents + 1
      /\ brTask \in TasksTo(Latest) \cup {NoRecording} /\ brOver \in BOOLEAN
      /\ brCalls # 0 /\ brCalls \in 1 .. MaxBrEvents /\ NoRecording \in MaybeTo(Latest) /\ 0 \in 0 .. Latest
  BY <1>1, CallShape
<1>5. new \in RecordingsTo(Latest) /\ Recording(new)
  <2>1. brShown \in 0 .. Latest
    BY DEF BrInv, Shapes, PageShape
  <2>2. new \in RecordingsTo(Latest) /\ new.active
    BY <1>4, <2>1 DEF RecordingsTo
  <2>3. QED
    BY <1>4, <2>2, Active
<1> HIDE DEF new
<1>6. brCall' \in CallsTo(Latest) /\ brCall' # NoRecording
  <2>1. brCall' \in CallsTo(Latest)
    BY <1>1, <1>5 DEF CallsTo
  <2>2. QED
    BY <1>4, <2>1, WidenAll
<1>7. brCall'.kind = "start" /\ brCall'.step = "start" /\ brCall'.read = new /\ new.document = brShown
  BY <1>1 DEF new
<1>8. Shapes' /\ Persists'
  BY <1>1, <1>2, <1>3, <1>4, <1>6, HandlerKeeps DEF BrInv
<1>9. (Clean' <=> Clean) /\ TheRecording' = NoRecording /\ brShown' = brShown
  BY <1>1, <1>2, <1>3, HandlerTells DEF BrInv
<1>10. EndedStays'
  <2>1. ASSUME Clean' PROVE ChangesAlone'
    <3>1. brTask' = NoRecording /\ brQueue' = <<>> /\ ~brOver'
      BY <1>1, <1>2, <1>9, <2>1, AloneTells DEF HandlerFrame
    <3>2. QED
      BY <1>5, <1>7, <1>9, <3>1 DEF ChangesAlone
  <2>2. QED
    BY <1>9, <2>1 DEF EndedStays, Recording
<1>11. ~Undisturbed'
  BY <1>6, <1>7 DEF Undisturbed, Starting
<1>12. QED
  BY <1>8, <1>10, <1>11 DEF BrInv

\* The recorder of the document shown runs before the session is written.
LEMMA CallStartKeeps == ASSUME BrInv, CallStart PROVE BrInv'
<1> DEFINE reached == Reaches(brCall.read.document)
           recorder == [id |-> brCall.read.id, active |-> TRUE]
<1>1. /\ brLife = "on" /\ brCall # NoRecording /\ brCall.kind = "start" /\ brCall.step = "start"
      /\ UNCHANGED <<brSession, brPersistence, brTimer, brMutated, brOver>> /\ CallFrame
  BY DEF CallStart, CallStep
<1>2. IF reached
      THEN SetRecorder(recorder) /\ brOwned' = brCall.read.document /\ brCall' = Stepped(brCall, "write")
      ELSE brCall' = NoRecording /\ UNCHANGED <<brPages, brOwned>>
  BY Zenon DEF CallStart, BrCallEnds, Stepped
<1>3. HandlerFrame /\ UNCHANGED brTask /\ MemoryStep
  BY <1>1, Frames DEF MemoryStep
<1>4. /\ Latest \in Nat /\ Latest <= MaxBrEvents + 1 /\ brCall \in CallsTo(Latest)
      /\ brCall.read \in RecordingsTo(Latest) /\ brCall.read.document \in 0 .. Latest
      /\ brTask \in TasksTo(Latest) \cup {NoRecording} /\ brSession \in MaybeTo(Latest)
      /\ brOwned \in 0 .. Latest /\ brOver \in BOOLEAN /\ brCalls # 0
  BY <1>1, CallShape
<1>5. reached => /\ brCall' \in CallsTo(Latest) /\ brCall' # NoRecording /\ brCall'.kind = "start"
                 /\ brCall'.step = "write" /\ brCall'.read = brCall.read
  BY <1>1, <1>2, <1>4, CallGoesOn, WidenAll
<1>6. PageShape' /\ (reached => Recorder' = recorder)
  <2>1. CASE reached
    <3>1. recorder \in Recorders /\ recorder.id # 0
      <4>1. brCall.read.id \in 1 .. MaxBrEvents
        BY <1>4, RecordingParts
      <4>2. QED
        BY <4>1, BrowserRecordingConstants DEF Recorders
    <3>2. QED
      BY <1>2, <1>3, <2>1, <3>1, PageSet DEF BrInv, Reaches
  <2>2. CASE ~reached
    BY <1>2, <1>3, <2>2, PageSame DEF BrInv
  <2>3. QED
    BY <2>1, <2>2
<1>7. Shapes' /\ Persists'
  <2>1. brCall' \in CallsTo(Latest) \cup {NoRecording} /\ brOwned' \in 0 .. Latest
    BY <1>2, <1>4, <1>5
  <2>2. QED
    BY <1>1, <1>3, <1>4, <1>6, <2>1, HandlerKeeps DEF BrInv
<1>8. /\ (Clean' <=> Clean) /\ TheRecording' = brSession /\ TheRecording = brSession /\ brShown' = brShown
      /\ brQueue' = brQueue
  BY <1>1, <1>3, HandlerTells DEF BrInv, HandlerFrame
<1>9. ASSUME Clean
      PROVE  /\ reached /\ brTask' = NoRecording /\ brQueue' = <<>> /\ ~brOver' /\ brSession = NoRecording
             /\ brOwned' = brShown /\ brCall.read.document = brShown /\ Recording(brCall.read)
  <2>1. /\ brTask = NoRecording /\ brQueue = <<>> /\ ~brOver /\ brSession = NoRecording /\ brShown # 0
        /\ brCall.read.document = brShown /\ Recording(brCall.read)
    BY <1>1, <1>9, AloneTells
  <2>2. reached
    BY <2>1 DEF Reaches
  <2>3. QED
    BY <1>1, <1>2, <1>3, <1>8, <2>1, <2>2
<1>10. EndedStays'
  <2>1. ASSUME Clean' PROVE ChangesAlone'
    <3>1. Clean
      BY <1>8, <2>1
    <3>2. /\ Recorder' = [id |-> brCall'.read.id, active |-> TRUE] /\ brOwned' = brShown'
          /\ TheRecording' = NoRecording /\ brCall'.read.document = brShown' /\ Recording(brCall'.read)
      BY <1>5, <1>6, <1>8, <1>9, <3>1
    <3>3. QED
      BY <1>5, <1>9, <3>1, <3>2 DEF ChangesAlone
  <2>2. QED
    BY <1>8, <1>9, <2>1 DEF EndedStays, Recording
<1>11. ASSUME Undisturbed' PROVE Story'
  <2>1. Clean
    BY <1>8, <1>11 DEF Undisturbed
  <2>2. ~Fresh' /\ Writing'
    BY <1>5, <1>9, <2>1 DEF Fresh, Writing
  <2>3. ~Getting' /\ ~Recording(TheRecording')
    BY <1>5, <1>8, <1>9, <2>1 DEF Getting, Recording
  <2>4. RecordingKnown' /\ RecorderKnown'
    BY <2>2, <2>3 DEF RecordingKnown, RecorderKnown
  <2>5. QED
    BY <1>9, <2>1, <2>3, <2>4, QuietStory
<1>12. QED
  BY <1>7, <1>10, <1>11 DEF BrInv

LEMMA CallWriteKeeps == ASSUME BrInv, CallWrite PROVE BrInv'
<1>1. /\ brLife = "on" /\ brCall # NoRecording /\ brCall.kind = "start" /\ brCall.step = "write"
      /\ brCall' = NoRecording /\ WriteSession(brCall.read) /\ UNCHANGED <<brOwned, brPages, brOver>> /\ CallFrame
  BY DEF CallWrite, CallStep, BrCallEnds
<1>2. HandlerFrame /\ UNCHANGED brTask
  BY <1>1, Frames
<1>3. /\ Latest \in Nat /\ Latest <= MaxBrEvents + 1 /\ brCall.read \in RecordingsTo(Latest)
      /\ brTask \in TasksTo(Latest) \cup {NoRecording} /\ brSession \in MaybeTo(Latest)
      /\ brOwned \in 0 .. Latest /\ brOver \in BOOLEAN
  BY <1>1, CallShape
<1>4. MemoryStep /\ (brShown = 0 => brSession' = brSession) /\ (brShown # 0 => brSession' = brCall.read)
  BY <1>1, WriteIsStep
<1>5. PageShape' /\ Recorder' = Recorder
  BY <1>1, <1>2, PageSame DEF BrInv
<1>6. Shapes' /\ Persists'
  <2>1. brSession' \in MaybeTo(Latest)
    BY <1>3, <1>4 DEF MaybeTo
  <2>2. QED
    BY <1>1, <1>2, <1>3, <1>4, <1>5, <2>1, HandlerKeeps DEF BrInv
<1>7. (Clean' <=> Clean) /\ TheRecording' = brSession' /\ Owner' = brOwned /\ brShown' = brShown
  BY <1>1, <1>2, HandlerTells DEF BrInv
<1>8. ASSUME Clean
      PROVE  /\ brTask' = NoRecording /\ brQueue' = <<>> /\ ~brOver' /\ brSession' = brCall.read
             /\ brOwned = brShown /\ brCall.read.document = brShown /\ brShown # 0
             /\ Recorder.id = brCall.read.id /\ Recorder.active
  <2>1. /\ brTask = NoRecording /\ brQueue = <<>> /\ ~brOver /\ brOwned = brShown /\ brShown # 0
        /\ brCall.read.document = brShown /\ Recorder = [id |-> brCall.read.id, active |-> TRUE]
    BY <1>1, <1>8, AloneTells
  <2>2. QED
    BY <1>1, <1>2, <1>4, <2>1 DEF HandlerFrame
<1>9. EndedStays'
  <2>1. ChangesAlone'
    BY <1>1 DEF ChangesAlone
  <2>2. QED
    BY <1>7, <1>8, <2>1 DEF EndedStays
<1>10. ASSUME Undisturbed' PROVE Story'
  <2>1. Clean
    BY <1>7, <1>10 DEF Undisturbed
  <2>2. ~Fresh' /\ ~Getting'
    BY <1>1, <1>8, <2>1 DEF Fresh, Getting
  <2>3. Recording(brCall.read)
    BY <1>1, <2>1, AloneTells
  <2>4. RecordingKnown' /\ RecorderKnown'
    BY <1>5, <1>7, <1>8, <2>1, <2>2, <2>3 DEF RecordingKnown, RecorderKnown
  <2>5. QED
    BY <1>5, <1>8, <2>1, <2>2, <2>4, QuietStory
<1>11. QED
  BY <1>6, <1>9, <1>10 DEF BrInv

\* What a status call knows.
LEMMA StatusTells ==
    ASSUME BrInv, brLife = "on", brCall # NoRecording, brCall.kind = "get", Clean
    PROVE  /\ Story /\ Undisturbed /\ brShown # 0 /\ ~Writing /\ TheRecording = brSession /\ Owner = brOwned
           /\ brCall.step = "resume" => Recording(brCall.read)
           /\ Recording(brCall.read) <=> Recording(brSession)
           /\ Recording(brCall.read) =>
                /\ brCall.read.id = brSession.id /\ brCall.read.document # 0
                /\ Reaches(brCall.read.document) =>
                     brCall.read.document = brShown /\ ~Fresh /\ brOwned = brShown /\ Recorder.id = brSession.id
           /\ Recorder.active => Recording(brSession)
<1>1. Undisturbed /\ brShown # 0 /\ ~Writing /\ Getting /\ TheRecording = brSession /\ Owner = brOwned
  BY DEF Undisturbed, Starting, Clean, Writing, Getting, TheRecording, Owner
<1>2. Story
  BY <1>1 DEF BrInv
<1>3. QED
  BY <1>1, <1>2 DEF Story, GetKnown, RecorderKnown, Reaches

\* A status call that ends has found the recorder as the session says, or has set both to run.
LEMMA StatusStory ==
    ASSUME BrInv, brLife = "on", brCall # NoRecording, brCall.kind = "get", Clean,
           HandlerFrame, brTask' = brTask, brOwned' = brOwned, brCall' = NoRecording,
           \/ brSession' = brSession /\ Recorder' = Recorder
           \/ /\ Recording(brSession') <=> Recording(brSession)
              /\ Recorder'.active <=> Recording(brSession')
              /\ Recording(brSession') =>
                   /\ brSession'.id = brSession.id /\ brSession'.document = brShown /\ ~Fresh
                   /\ brOwned = brShown /\ Recorder'.id = brSession.id
    PROVE  Story'
<1>1. Story /\ brShown # 0 /\ ~Writing /\ TheRecording = brSession /\ Owner = brOwned
  BY StatusTells
<1>2. TaskKnown /\ RecordingKnown /\ RecorderKnown /\ Attended
  BY <1>1 DEF Story
<1>3. /\ TheRecording' = brSession' /\ Owner' = brOwned /\ brShown' = brShown /\ (Fresh' <=> Fresh)
      /\ (Repaired(0) => Repaired(0)')
  BY HandlerTells DEF BrInv
<1>4. ~Writing' /\ ~Getting' /\ (Continuing' <=> Continuing)
  BY DEF Writing, Getting, Continuing
<1>5. GetKnown'
  BY <1>4 DEF GetKnown
<1>6. CASE brSession' = brSession /\ Recorder' = Recorder
  <2>1. TaskKnown' /\ RecordingKnown'
    BY <1>1, <1>2, <1>3, <1>4, <1>6 DEF TaskKnown, RecordingKnown
  <2>2. RecorderKnown' /\ Attended'
    BY <1>1, <1>2, <1>3, <1>4, <1>6 DEF RecorderKnown, Attended
  <2>3. QED
    BY <1>1, <1>5, <2>1, <2>2, HandlerStory DEF BrInv
<1>7. CASE /\ Recording(brSession') <=> Recording(brSession)
           /\ Recorder'.active <=> Recording(brSession')
           /\ Recording(brSession') =>
                /\ brSession'.id = brSession.id /\ brSession'.document = brShown /\ ~Fresh
                /\ brOwned = brShown /\ Recorder'.id = brSession.id
  <2>1. TaskKnown'
    BY <1>1, <1>2, <1>3, <1>4, <1>7 DEF TaskKnown
  <2>2. RecordingKnown' /\ RecorderKnown'
    BY <1>1, <1>3, <1>7 DEF RecordingKnown, RecorderKnown
  <2>3. Attended'
    BY <1>1, <1>2, <1>3, <1>4, <1>7, <2>1 DEF Attended, TaskKnown
  <2>4. QED
    BY <1>1, <1>5, <2>1, <2>2, <2>3, HandlerStory DEF BrInv
<1>8. QED
  BY <1>6, <1>7

LEMMA CallGetKeeps == ASSUME BrInv, CallGet PROVE BrInv'
<1> DEFINE read == brCall.read
           reached == Reaches(read.document) /\ Recorder.id # 0
           resumes == read.active /\ Recorder.id = read.id /\ ~Recorder.active
           merged == MergedAs(read, Recorder, read.document, Recorder.active \/ read.active)
<1>1. /\ brLife = "on" /\ brCall # NoRecording /\ brCall.kind = "get" /\ brCall.step = "page"
      /\ UNCHANGED <<brOwned, brPages, brOver>> /\ CallFrame
  BY DEF CallGet, CallStep
<1>2. IF ~reached THEN brCall' = NoRecording /\ UNCHANGED <<brSession, brPersistence, brTimer, brMutated>>
      ELSE IF resumes
      THEN brCall' = Stepped(brCall, "resume") /\ UNCHANGED <<brSession, brPersistence, brTimer, brMutated>>
      ELSE brCall' = NoRecording /\ WriteSession(merged)
  BY Zenon DEF CallGet, BrCallEnds, Stepped, MergedAs
<1>3. HandlerFrame /\ UNCHANGED brTask
  BY <1>1, Frames
<1>4. /\ Latest \in Nat /\ Latest <= MaxBrEvents + 1 /\ brCall \in CallsTo(Latest)
      /\ read \in RecordingsTo(Latest) /\ read.document \in 0 .. Latest /\ read.active \in BOOLEAN
      /\ brTask \in TasksTo(Latest) \cup {NoRecording} /\ brSession \in MaybeTo(Latest)
      /\ brOwned \in 0 .. Latest /\ brOver \in BOOLEAN /\ brCalls # 0
  BY <1>1, CallShape, RecordingParts
<1>5. reached => /\ brShown # 0 /\ Recorder \in Recorders /\ Recorder.id # 0 /\ Recorder.active \in BOOLEAN
                 /\ merged \in RecordingsTo(Latest) /\ merged.id = Recorder.id /\ merged.document = read.document
                 /\ (merged.active <=> Recorder.active \/ read.active) /\ (Recording(merged) <=> merged.active)
  <2>1. reached => /\ brShown # 0 /\ Recorder \in Recorders /\ Recorder.id # 0 /\ Recorder.active \in BOOLEAN
    BY RecorderShape DEF BrInv, Reaches
  <2>2. read \in MaybeTo(Latest) /\ (Recorder.active \in BOOLEAN => (Recorder.active \/ read.active) \in BOOLEAN)
    BY <1>4 DEF MaybeTo
  <2>3. reached => /\ merged \in RecordingsTo(Latest) /\ merged.id = Recorder.id /\ merged.document = read.document
                   /\ merged.active = (Recorder.active \/ read.active)
    BY <1>4, <2>1, <2>2, MergedParts
  <2>4. QED
    BY <1>4, <2>1, <2>3, Active
<1> HIDE DEF merged
<1>6. /\ MemoryStep
      /\ (~reached \/ resumes => brSession' = brSession)
      /\ (reached /\ ~resumes => brSession' = merged)
  <2>1. CASE ~reached \/ resumes
    BY <1>2, <2>1 DEF MemoryStep
  <2>2. CASE reached /\ ~resumes
    BY <1>2, <1>5, <2>2, WriteIsStep
  <2>3. QED
    BY <2>1, <2>2
<1>7. PageShape' /\ Recorder' = Recorder
  BY <1>1, <1>3, PageSame DEF BrInv
<1>8. reached /\ resumes =>
        /\ brCall' \in CallsTo(Latest) /\ brCall' # NoRecording /\ brCall'.kind = "get"
        /\ brCall'.step = "resume" /\ brCall'.read = read
  BY <1>1, <1>2, <1>4, CallGoesOn, WidenAll
<1>9. Shapes' /\ Persists'
  <2>1. brSession' \in MaybeTo(Latest) /\ brCall' \in CallsTo(Latest) \cup {NoRecording}
    BY <1>2, <1>4, <1>5, <1>6, <1>8 DEF MaybeTo
  <2>2. QED
    BY <1>1, <1>3, <1>4, <1>6, <1>7, <2>1, HandlerKeeps DEF BrInv
<1>10. (Clean' <=> Clean) /\ TheRecording' = brSession' /\ TheRecording = brSession
  BY <1>1, <1>3, HandlerTells DEF BrInv
<1>11. Clean =>
        /\ Story /\ brShown # 0 /\ ~Writing /\ Owner = brOwned
        /\ Recording(read) <=> Recording(brSession)
        /\ Recording(read) =>
             /\ read.id = brSession.id /\ read.document # 0
             /\ Reaches(read.document) =>
                  read.document = brShown /\ ~Fresh /\ brOwned = brShown /\ Recorder.id = brSession.id
        /\ Recorder.active => Recording(brSession)
  BY <1>1, StatusTells
<1>12. Recording(read) <=> read.active
  BY <1>4, Active
<1>13. Clean /\ reached /\ ~resumes =>
        /\ Recording(brSession') <=> Recording(brSession)
        /\ Recorder'.active <=> Recording(brSession')
        /\ Recording(brSession') =>
             /\ brSession'.id = brSession.id /\ brSession'.document = brShown /\ ~Fresh
             /\ brOwned = brShown /\ Recorder'.id = brSession.id
  BY <1>5, <1>6, <1>7, <1>11, <1>12
<1>14. EndedStays'
  <2>1. Clean => (Recording(TheRecording') => Recording(TheRecording))
    BY <1>6, <1>10, <1>13
  <2>2. brCall' = NoRecording \/ brCall'.kind = "get"
    BY <1>2, <1>8
  <2>3. QED
    BY <1>1, <1>10, <2>1, <2>2, EndsKept DEF BrInv
<1>15. ASSUME Undisturbed' PROVE Story'
  <2>1. Clean
    BY <1>10, <1>15 DEF Undisturbed
  <2>2. CASE reached /\ resumes
    <3>1. TaskKnown /\ RecordingKnown /\ RecorderKnown /\ Attended
      BY <1>11, <2>1 DEF Story
    <3>2. /\ brSession' = brSession /\ Owner' = brOwned /\ brShown' = brShown /\ (Fresh' <=> Fresh)
          /\ (Repaired(0) => Repaired(0)')
      BY <1>1, <1>3, <1>6, <2>2, HandlerTells DEF BrInv
    <3>3. ~Writing' /\ (Continuing' <=> Continuing)
      BY <1>3, <1>8, <2>2 DEF Writing, Continuing
    <3>4. TaskKnown' /\ RecordingKnown'
      BY <1>3, <1>7, <1>10, <1>11, <2>1, <3>1, <3>2, <3>3 DEF TaskKnown, RecordingKnown
    <3>5. RecorderKnown' /\ Attended'
      BY <1>3, <1>7, <1>10, <1>11, <2>1, <3>1, <3>2, <3>3 DEF RecorderKnown, Attended
    <3>6. Reaches(read.document) => read.document \in {0, brShown}
      BY DEF Reaches
    <3>7. GetKnown'
      BY <1>7, <1>8, <1>10, <1>11, <1>12, <2>1, <2>2, <3>2 DEF GetKnown
    <3>8. QED
      BY <1>1, <1>3, <1>11, <2>1, <3>4, <3>5, <3>7, HandlerStory DEF BrInv
  <2>3. CASE ~(reached /\ resumes)
    <3>1. brCall' = NoRecording
      BY <1>2, <2>3
    <3>2. CASE ~reached
      BY <1>1, <1>3, <1>6, <1>7, <2>1, <3>1, <3>2, StatusStory
    <3>3. CASE reached /\ ~resumes
      BY <1>1, <1>3, <1>13, <2>1, <3>1, <3>3, StatusStory
    <3>4. QED
      BY <2>3, <3>2, <3>3
  <2>4. QED
    BY <2>2, <2>3
<1>16. QED
  BY <1>9, <1>14, <1>15 DEF BrInv

LEMMA CallResumeKeeps == ASSUME BrInv, CallResume PROVE BrInv'
<1> DEFINE read == brCall.read
           reached == Reaches(read.document) /\ Recorder.id # 0
           merged == MergedAs(read, Recorder, read.document, TRUE)
<1>1. /\ brLife = "on" /\ brCall # NoRecording /\ brCall.kind = "get" /\ brCall.step = "resume"
      /\ brCall' = NoRecording /\ UNCHANGED <<brOwned, brOver>> /\ CallFrame
  BY DEF CallResume, CallStep, BrCallEnds
<1>2. IF reached THEN SetRecorder(Resumed(Recorder)) /\ WriteSession(merged)
                 ELSE UNCHANGED <<brPages, brSession, brPersistence, brTimer, brMutated>>
  BY Zenon DEF CallResume, MergedAs
<1>3. HandlerFrame /\ UNCHANGED brTask
  BY <1>1, Frames
<1>4. /\ Latest \in Nat /\ Latest <= MaxBrEvents + 1
      /\ read \in RecordingsTo(Latest) /\ read.document \in 0 .. Latest
      /\ brTask \in TasksTo(Latest) \cup {NoRecording} /\ brSession \in MaybeTo(Latest)
      /\ brOwned \in 0 .. Latest /\ brOver \in BOOLEAN
  BY <1>1, CallShape
<1>5. reached => /\ brShown # 0 /\ Recorder \in Recorders /\ Recorder.id # 0
                 /\ Resumed(Recorder) \in Recorders /\ Resumed(Recorder).id = Recorder.id /\ Resumed(Recorder).active
  BY RecorderShape, RecorderChanges DEF BrInv, Reaches
<1>6. reached => /\ merged \in RecordingsTo(Latest) /\ merged.id = Recorder.id /\ merged.document = read.document
                 /\ Recording(merged)
  <2>1. read \in MaybeTo(Latest)
    BY <1>4 DEF MaybeTo
  <2>2. reached => /\ merged \in RecordingsTo(Latest) /\ merged.id = Recorder.id /\ merged.document = read.document
                   /\ merged.active
    <3>1. \A a \in BOOLEAN : reached =>
             /\ MergedAs(read, Recorder, read.document, a) \in RecordingsTo(Latest)
             /\ MergedAs(read, Recorder, read.document, a).id = Recorder.id
             /\ MergedAs(read, Recorder, read.document, a).document = read.document
             /\ MergedAs(read, Recorder, read.document, a).active = a
      BY <1>4, <1>5, <2>1, MergedParts
    <3>2. QED
      BY <3>1, Zenon
  <2>3. QED
    BY <1>4, <2>2, Active
<1> HIDE DEF merged
<1>7. MemoryStep /\ (reached => brSession' = merged) /\ (~reached => brSession' = brSession)
  <2>1. CASE reached
    BY <1>2, <1>5, <2>1, WriteIsStep
  <2>2. CASE ~reached
    BY <1>2, <2>2 DEF MemoryStep
  <2>3. QED
    BY <2>1, <2>2
<1>8. PageShape' /\ (reached => Recorder'.active /\ Recorder'.id = Recorder.id) /\ (~reached => Recorder' = Recorder)
  <2>1. CASE reached
    <3>1. PageShape' /\ Recorder' = Resumed(Recorder)
      BY <1>2, <1>3, <1>5, <2>1, PageSet DEF BrInv
    <3>2. QED
      BY <1>5, <2>1, <3>1
  <2>2. CASE ~reached
    BY <1>2, <1>3, <2>2, PageSame DEF BrInv
  <2>3. QED
    BY <2>1, <2>2
<1>9. Shapes' /\ Persists'
  <2>1. brSession' \in MaybeTo(Latest)
    BY <1>4, <1>6, <1>7 DEF MaybeTo
  <2>2. QED
    BY <1>1, <1>3, <1>4, <1>7, <1>8, <2>1, HandlerKeeps DEF BrInv
<1>10. (Clean' <=> Clean) /\ TheRecording' = brSession' /\ TheRecording = brSession
  BY <1>1, <1>3, HandlerTells DEF BrInv
<1>11. Clean =>
        /\ Recording(read) /\ Recording(brSession) /\ read.id = brSession.id /\ read.document # 0
        /\ Reaches(read.document) =>
             read.document = brShown /\ ~Fresh /\ brOwned = brShown /\ Recorder.id = brSession.id
  BY <1>1, StatusTells
<1>12. EndedStays'
  BY <1>1, <1>10, <1>11, EndsKept DEF BrInv
<1>13. ASSUME Undisturbed' PROVE Story'
  <2>1. Clean
    BY <1>10, <1>13 DEF Undisturbed
  <2>2. CASE reached
    <3>1. /\ Recording(brSession') /\ Recording(brSession) /\ Recorder'.active /\ brSession'.id = brSession.id
          /\ brSession'.document = brShown /\ ~Fresh /\ brOwned = brShown /\ Recorder'.id = brSession.id
      BY <1>6, <1>7, <1>8, <1>11, <2>1, <2>2
    <3>2. QED
      BY <1>1, <1>3, <2>1, <3>1, StatusStory
  <2>3. CASE ~reached
    BY <1>1, <1>3, <1>7, <1>8, <2>1, <2>3, StatusStory
  <2>4. QED
    BY <2>2, <2>3
<1>14. QED
  BY <1>9, <1>12, <1>13 DEF BrInv

-----------------------------------------------------------------------------
(* The recording *)

LEMMA RecordingBegins == BrInit => BrInv
<1> SUFFICES ASSUME BrInit PROVE BrInv
  OBVIOUS
<1>1. Latest = 1 /\ MaxBrEvents \in Nat /\ TheRecording = NoRecording /\ brCall = NoRecording /\ brTask = NoRecording
  BY BrowserRecordingConstants DEF BrInit, Latest, TheRecording
<1>2. \A d \in BrDocuments : brPages[d].id = 0 /\ ~brPages[d].active
  BY DEF BrInit
<1>3. PageShape
  <2>1. [id |-> 0, active |-> FALSE] \in Recorders
    BY <1>1 DEF Recorders
  <2>2. brPages \in [BrDocuments -> Recorders]
    BY <2>1 DEF BrInit
  <2>3. QED
    BY <1>1, <1>2, <2>2 DEF BrInit, PageShape
<1>4. WorkShape /\ MemoryShape
  <2>1. WorkShape
    BY <1>1 DEF BrInit, WorkShape
  <2>2. NoRecording \in MaybeTo(Latest) /\ 0 \in 0 .. Latest /\ 0 \in 0 .. MaxBrEvents
    BY <1>1 DEF MaybeTo
  <2>3. MemoryShape
    BY <2>2 DEF BrInit, MemoryShape
  <2>4. QED
    BY <2>1, <2>3
<1>5. Persists /\ EndedStays
  BY <1>1 DEF BrInit, Persists, EndedStays, ChangesAlone, TheRecording
<1>6. ~Recorder.active
  BY <1>1, <1>2 DEF BrInit, Recorder, BrDocuments
<1>7. InOrder /\ Archived
  BY NothingQueued DEF BrInit
<1>8. Story
  BY <1>1, <1>6, <1>7 DEF Story, TaskKnown, GetKnown, RecordingKnown, RecorderKnown, Attended,
     Getting, Recording
<1>9. QED
  BY <1>3, <1>4, <1>5, <1>8 DEF BrInv, Shapes

LEMMA RecordingStutters == ASSUME BrInv, UNCHANGED brVars PROVE BrInv'
<1>1. UNCHANGED <<brMemory, brStorage, brPage, brQueue, brTask, brCall, brHistory, brBounds>>
  BY DEF brVars
<1>2. UNCHANGED <<brSession, brOwned, brPersistence, brTimer, brMutated, brStored, brWrite, brWriting, brFailed,
                  brLife, brShown, brPages, brMoving, brOver, brCrossed, brBack, brLost, brCalls, brNavigations,
                  brFaults>>
  BY <1>1 DEF brMemory, brStorage, brPage, brHistory, brBounds
<1>3. /\ Latest' = Latest /\ TheRecording' = TheRecording /\ Owner' = Owner /\ (Clean' <=> Clean)
      /\ (Starting <=> Starting')
  BY <1>1, <1>2 DEF Latest, TheRecording, Owner, Clean, Starting
<1>4. Shapes'
  BY <1>1, <1>2, <1>3 DEF BrInv, Shapes, PageShape, WorkShape, MemoryShape
<1>5. Persists'
  BY <1>1, <1>2, <1>3 DEF BrInv, Persists
<1>6. EndedStays'
  BY <1>1, <1>2, <1>3 DEF BrInv, EndedStays, ChangesAlone, Recorder
<1>7. Undisturbed' => Story'
  BY <1>1, <1>3, Calm, StorySame DEF BrInv
<1>8. QED
  BY <1>4, <1>5, <1>6, <1>7 DEF BrInv

LEMMA RecordingGoes == BrInv /\ [BrSteps]_brVars => BrInv'
<1> SUFFICES ASSUME BrInv, [BrSteps]_brVars PROVE BrInv'
  OBVIOUS
<1>1. CASE PersistRecording \/ RecordingWritten \/ RestoreRecording
  BY <1>1, PersistKeeps, WrittenKeeps, RestoreKeeps
<1>2. CASE TakeEvent \/ ArchiveGet \/ ArchiveStop \/ ContinueProbe \/ ContinueRun \/ FailResume \/ SameRecord
  BY <1>2, TakeKeeps, ArchiveGetKeeps, ArchiveStopKeeps, ContinueProbeKeeps, ContinueRunKeeps,
     FailResumeKeeps,
     SameRecordKeeps
<1>3. CASE CallClear \/ CallRemove \/ CallStart \/ CallWrite \/ CallStop \/ CallGet \/ CallResume
  BY <1>3, CallClearKeeps, CallRemoveKeeps, CallStartKeeps, CallWriteKeeps, CallStopKeeps, CallGetKeeps,
     CallResumeKeeps
<1>4. CASE BeginNavigation \/ EndNavigation \/ NavigateWithin \/ RemoveTab \/ KillRecording \/ RestartRecording
  BY <1>4, BeginKeeps, EndKeeps, WithinKeeps, TabKeeps, KillKeeps, RestartKeeps
<1>5. CASE \E kind \in {"start", "stop", "clear", "get"} : BeginCall(kind)
  BY <1>5, CallBegins
<1>6. CASE UNCHANGED brVars
  BY <1>6, RecordingStutters
<1>7. QED
  BY <1>1, <1>2, <1>3, <1>4, <1>5, <1>6 DEF BrSteps, BrWorks

\* Nothing under way, the story is what RecorderAttended says.
LEMMA RecordingIs == BrInv => RecordingSound
<1> SUFFICES ASSUME BrInv PROVE RecordingSound
  OBVIOUS
<1>1. Latest \in Nat /\ Latest <= MaxBrEvents + 1 /\ MaxBrEvents \in Nat
  BY LatestNat, BrowserRecordingConstants DEF BrInv
<1>2. BrTypeOK
  <2>1. brShown \in BrDocuments \cup {0} /\ brPages \in [BrDocuments -> Recorders] /\ brOwned \in BrDocuments \cup {0}
    BY <1>1 DEF BrInv, Shapes, PageShape, MemoryShape, BrDocuments
  <2>2. brQueue \in Seq([kind : {"before", "committed", "completed", "failed", "same"}, document : BrDocuments])
    <3>1. EventsTo(MaxBrEvents + 1)
            = [kind : {"before", "committed", "completed", "failed", "same"}, document : BrDocuments]
      BY DEF EventsTo, BrDocuments
    <3>2. brQueue \in Seq(EventsTo(MaxBrEvents + 1))
      BY <1>1, Widen DEF BrInv, Shapes, WorkShape
    <3>3. QED
      BY <3>1, <3>2
  <2>3. /\ brTask \in BrTasks \cup {NoRecording} /\ brCall \in CallsOfUser \cup {NoRecording}
        /\ {brSession, brStored, brWrite} \subseteq MaybeRecording
    BY <1>1, WidenAll DEF BrInv, Shapes, WorkShape, MemoryShape
  <2>4. QED
    BY <2>1, <2>2, <2>3 DEF BrTypeOK, BrInv, Shapes, MemoryShape
<1>3. RemovedForgotten /\ RecordingIsStored
  BY DEF RemovedForgotten, RecordingIsStored, BrInv, Persists, TheRecording
<1>4. ASSUME Clean, brOver PROVE ~Recording(brSession) /\ ~Recorder.active
  <2>1. ~Recording(TheRecording) /\ ~Starting /\ ~Writing
    BY <1>4 DEF BrInv, EndedStays, ChangesAlone, Starting, Writing
  <2>2. ~Recording(brSession)
    BY <2>1 DEF TheRecording, BrInv, Persists, Recording
  <2>3. ~Recorder.active
    BY <1>4, <2>1 DEF BrInv, Undisturbed, Story, RecorderKnown
  <2>4. QED
    BY <2>2, <2>3
<1>5. StopSticks
  BY <1>4 DEF StopSticks, Clean
<1>6. ASSUME HandlersIdle, Clean, Recording(brSession) \/ Recorder.active
      PROVE  Recording(brSession) /\ brSession.document = brShown /\ Recorder = [id |-> brSession.id, active |-> TRUE]
  <2>1. /\ brLife = "on" /\ brTask = NoRecording /\ brQueue = <<>> /\ brCall = NoRecording /\ ~brMoving
        /\ brShown # 0
    BY <1>6 DEF HandlersIdle, Clean
  <2>2. /\ TheRecording = brSession /\ ~Fresh /\ ~Continuing /\ ~Writing /\ ~Repaired(0) /\ Story
    BY <1>6, <2>1, NothingQueued DEF TheRecording, Continuing, Writing, Undisturbed, Starting, BrInv
  <2>3. Recording(brSession)
    BY <1>6, <2>2 DEF Story, RecorderKnown
  <2>4. brSession.document = brShown /\ brSession.id = Recorder.id
    BY <2>2, <2>3 DEF Story, RecordingKnown
  <2>5. Recorder.active
    BY <2>1, <2>2, <2>3 DEF Story, Attended
  <2>6. Recorder = [id |-> brSession.id, active |-> TRUE]
    BY <2>1, <2>4, <2>5, RecorderShape DEF BrInv
  <2>7. QED
    BY <2>3, <2>4, <2>6
<1>7. RecorderAttended
  BY <1>6 DEF RecorderAttended, Clean
<1>8. QED
  BY <1>2, <1>3, <1>5, <1>7 DEF RecordingSound

\* A recording that was ended stays over, an active one is that of the document shown, nothing of
\* a removed tab comes back, and what is called persisted is stored; for any number of events.
THEOREM RecordingIsSound == BrSpec => []RecordingSound
<1>1. BrSpec => []BrInv
  BY RecordingBegins, RecordingGoes, PTL DEF BrSpec
<1>2. QED
  BY <1>1, RecordingIs, PTL

-----------------------------------------------------------------------------
(* The guarded replays of a tab. *)

NgKinds == {"none", "execute", "capture", "prepare"}
NgStages == {"none", "turn", "install", "adding", "over"} \cup Guarding
NgRecord == [kind : NgKinds, tab : GuardedTabs, asks : BOOLEAN, after : Replays \cup {NoReplay},
             stage : NgStages, ids : SUBSET RuleIds]

NgValues ==
    /\ ngReplay \in [Replays -> NgRecord]
    /\ ngTurn \in [GuardedTabs -> Replays \cup {NoReplay}]
    /\ ngInstalls \in Seq(Replays)
    /\ ngRules \subseteq NgRule
    /\ ngStopped \subseteq GuardedTabs
    /\ ngLeft \subseteq {"killed", "failed"}
    /\ ngEvents \in 0 .. MaxNgEvents

-----------------------------------------------------------------------------
(* The turns *)

\* A replay that has or awaits a turn in the tab.
Member(r, tab) == r \in Begun /\ ngReplay[r].kind # "prepare" /\ ngReplay[r].tab = tab

\* Whom it waits for is over.
Ready(r) == ngReplay[r].after # NoReplay => Stage(ngReplay[r].after) = "over"

TurnsTaken ==
    \A r \in Begun :
        /\ ngReplay[r].kind # "prepare" /\ Stage(r) # "turn" => Ready(r)
        /\ ngReplay[r].kind = "prepare" => Stage(r) # "turn"

\* The last replay of a tab is the one that the next one will wait for.
LastKnown ==
    \A tab \in GuardedTabs, r \in Replays :
        /\ ngTurn[tab] = r => Member(r, tab)
        /\ ngTurn[tab] = NoReplay => ~Member(r, tab)

\* The replays of a tab stand in a line: nobody shares a place,
Apart(place) ==
    \A tab \in GuardedTabs, r, other \in Replays :
        Member(r, tab) /\ Member(other, tab) /\ r # other => place[r] # place[other]

\* the one whose turn it is stands first,
ReadyFirst(place) ==
    \A tab \in GuardedTabs, r, other \in Replays :
        Member(r, tab) /\ Member(other, tab) /\ Ready(r) => place[r] <= place[other]

\* the last one last,
LastBehind(place) ==
    \A tab \in GuardedTabs, last, other \in Replays :
        Member(other, tab) /\ ngTurn[tab] = last => place[other] <= place[last]

\* and each waits for the one before it.
WaitsForNext(place) ==
    \A tab \in GuardedTabs, r, before \in Replays :
        Member(r, tab) /\ ~Ready(r) /\ ngReplay[r].after = before =>
            /\ Member(before, tab)
            /\ place[before] < place[r]
            /\ \A other \in Replays :
                 Member(other, tab) /\ place[other] < place[r] => place[other] <= place[before]

InLine(place) == Apart(place) /\ ReadyFirst(place) /\ LastBehind(place) /\ WaitsForNext(place)

Turns == TurnsTaken /\ LastKnown /\ \E place \in [Replays -> Nat] : InLine(place)

\* Of a replay that neither begins nor ends, what the turns depend on stays.
StaysInLine(r) ==
    /\ ngReplay'[r].stage = "over" <=> ngReplay[r].stage = "over"
    /\ ngReplay'[r].stage = "none" <=> ngReplay[r].stage = "none"
    /\ ngReplay'[r].kind = ngReplay[r].kind /\ ngReplay'[r].tab = ngReplay[r].tab
    /\ ngReplay[r].kind # "prepare" => ngReplay'[r].after = ngReplay[r].after
    /\ ngReplay'[r].stage = "turn" => ngReplay[r].stage = "turn"
    /\ ngReplay[r].stage = "turn" => ngReplay'[r].stage = "turn" \/ Ready(r)

LEMMA StaysMember ==
    ASSUME NgValues, NEW r \in Replays, StaysInLine(r)
    PROVE  \A tab \in GuardedTabs : Member(r, tab)' <=> Member(r, tab)
  BY DEF StaysInLine, Member, Begun, Stage

LEMMA StaysTaken ==
    ASSUME NgValues, Turns, NEW r \in Replays, StaysInLine(r), r \in Begun',
           ngReplay[r].kind # "prepare" => (Ready(r)' <=> Ready(r))
    PROVE  /\ ngReplay'[r].kind # "prepare" /\ ngReplay'[r].stage # "turn" => Ready(r)'
           /\ ngReplay'[r].kind = "prepare" => ngReplay'[r].stage # "turn"
<1>1. StaysInLine(r) /\ r \in Begun
  BY DEF StaysInLine, Begun, Stage
<1>2. QED
  BY <1>1 DEF StaysInLine, Turns, TurnsTaken, Stage

\* When nobody begins or ends, the turns stay.
LEMMA LineStays ==
    ASSUME NgValues, Turns, UNCHANGED ngTurn, \A r \in Replays : StaysInLine(r)
    PROVE  Turns'
<1>1. \A r \in Replays, tab \in GuardedTabs : Member(r, tab)' <=> Member(r, tab)
  BY StaysMember
<1>2. \A r \in Replays : ngReplay[r].kind # "prepare" =>
        ngReplay'[r].after = ngReplay[r].after /\ (Ready(r)' <=> Ready(r))
  BY DEF StaysInLine, Ready, Stage, NgValues, NgRecord
<1>3. TurnsTaken'
  BY <1>2, StaysTaken DEF TurnsTaken, Begun, Stage
<1>4. LastKnown'
  BY <1>1 DEF Turns, LastKnown
<1>5. PICK place \in [Replays -> Nat] : InLine(place)
  BY DEF Turns
<1>6. \A r \in Replays, tab \in GuardedTabs : Member(r, tab) =>
        ngReplay'[r].after = ngReplay[r].after /\ (Ready(r)' <=> Ready(r))
  BY <1>2 DEF Member
<1>7. Apart(place)' /\ ReadyFirst(place)' /\ LastBehind(place)'
  BY <1>1, <1>5, <1>6 DEF InLine, Apart, ReadyFirst, LastBehind
<1>8. WaitsForNext(place)'
  BY <1>1, <1>5, <1>6 DEF InLine, WaitsForNext
<1>9. QED
  BY <1>3, <1>4, <1>7, <1>8 DEF Turns, InLine

\* What begins goes to the end of the line.
LEMMA LineGrows ==
    ASSUME NgValues, Turns, NEW new \in Replays, NEW tab \in GuardedTabs,
           Stage(new) = "none",
           /\ ngReplay'[new].stage = "turn" /\ ngReplay'[new].kind # "prepare"
           /\ ngReplay'[new].tab = tab /\ ngReplay'[new].after = ngTurn[tab],
           ngTurn' = [ngTurn EXCEPT ![tab] = new],
           \A r \in Replays \ {new} : StaysInLine(r)
    PROVE  Turns'
<1>1. \A r \in Replays \ {new}, t \in GuardedTabs : Member(r, t)' <=> Member(r, t)
  BY StaysMember
<1>2. \A t \in GuardedTabs : ~Member(new, t) /\ (Member(new, t)' <=> t = tab)
  BY DEF Member, Begun, Stage
<1>3. \A r \in Replays \ {new} : ngReplay[r].kind # "prepare" =>
        ngReplay'[r].after = ngReplay[r].after /\ (Ready(r)' <=> Ready(r))
  <2>1. SUFFICES ASSUME NEW r \in Replays \ {new}, ngReplay[r].kind # "prepare"
                 PROVE  ngReplay'[r].after = ngReplay[r].after /\ (Ready(r)' <=> Ready(r))
    OBVIOUS
  <2>2. ngReplay'[r].after = ngReplay[r].after /\ ngReplay[r].after \in Replays \cup {NoReplay}
    BY <2>1 DEF StaysInLine, NgValues, NgRecord
  <2>3. CASE ngReplay[r].after = new
    BY <2>2, <2>3 DEF Ready, Stage
  <2>4. CASE ngReplay[r].after # new
    BY <2>2, <2>4 DEF Ready, Stage, StaysInLine
  <2>5. QED
    BY <2>2, <2>3, <2>4
<1>4. TurnsTaken'
  <2>1. SUFFICES ASSUME NEW r \in Replays, r \in Begun'
                 PROVE  /\ ngReplay'[r].kind # "prepare" /\ ngReplay'[r].stage # "turn" => Ready(r)'
                        /\ ngReplay'[r].kind = "prepare" => ngReplay'[r].stage # "turn"
    BY DEF TurnsTaken, Begun, Stage
  <2>2. CASE r = new
    BY <2>2
  <2>3. CASE r # new
    BY <1>3, <2>1, <2>3, StaysTaken
  <2>4. QED
    BY <2>2, <2>3
<1>5. ngTurn'[tab] = new /\ \A t \in GuardedTabs \ {tab} : ngTurn'[t] = ngTurn[t]
  BY DEF NgValues
<1>6. LastKnown'
  <2>1. SUFFICES ASSUME NEW t \in GuardedTabs, NEW r \in Replays
                 PROVE  /\ ngTurn'[t] = r => Member(r, t)'
                        /\ ngTurn'[t] = NoReplay => ~Member(r, t)'
    BY DEF LastKnown
  <2>2. CASE t = tab
    BY <1>2, <1>5, <2>2, NetworkGuardConstants
  <2>3. CASE t # tab
    BY <1>1, <1>2, <1>5, <2>3 DEF Turns, LastKnown
  <2>4. QED
    BY <2>2, <2>3
<1>7. PICK place \in [Replays -> Nat] : InLine(place)
  BY DEF Turns
<1>8. PICK end \in Nat : ngTurn[tab] # NoReplay => end = place[ngTurn[tab]]
  <2>1. CASE ngTurn[tab] # NoReplay
    BY <1>7, <2>1 DEF NgValues
  <2>2. CASE ngTurn[tab] = NoReplay
    BY <2>2
  <2>3. QED
    BY <2>1, <2>2
<1>9. \A other \in Replays : Member(other, tab) => place[other] <= end
  BY <1>7, <1>8, NetworkGuardConstants DEF InLine, LastBehind, Turns, LastKnown, NgValues
<1> DEFINE longer == [place EXCEPT ![new] = end + 1]
<1>10. /\ longer \in [Replays -> Nat] /\ longer[new] = end + 1
       /\ \A r \in Replays \ {new} : longer[r] = place[r] /\ place[r] \in Nat
  BY <1>7
<1> HIDE DEF longer
<1>11. \A r \in Replays \ {new}, t \in GuardedTabs : Member(r, t) =>
        ngReplay'[r].after = ngReplay[r].after /\ (Ready(r)' <=> Ready(r))
  BY <1>3 DEF Member
<1>12. \A t \in GuardedTabs, r \in Replays : Member(r, t)' =>
         IF r = new THEN t = tab /\ longer[r] = end + 1
         ELSE Member(r, t) /\ longer[r] = place[r] /\ place[r] \in Nat /\ (t = tab => place[r] <= end)
  BY <1>1, <1>2, <1>9, <1>10
<1>13. Ready(new)' => \A r \in Replays : ~Member(r, tab)
  <2>1. ASSUME NEW last \in Replays, ngTurn[tab] = last
        PROVE  ~Ready(new)'
    <3>1. Member(last, tab) /\ last # new
      BY <1>2, <2>1 DEF Turns, LastKnown
    <3>2. Member(last, tab)'
      BY <1>1, <3>1
    <3>3. QED
      BY <2>1, <3>2, NetworkGuardConstants DEF Ready, Member, Begun
  <2>2. QED
    BY <2>1 DEF NgValues, Turns, LastKnown
<1>14. Apart(longer)'
  BY <1>7, <1>12 DEF InLine, Apart
<1>15. ReadyFirst(longer)'
  <2>1. SUFFICES ASSUME NEW t \in GuardedTabs, NEW r \in Replays, NEW other \in Replays,
                        Member(r, t)', Member(other, t)', Ready(r)'
                 PROVE  longer[r] <= longer[other]
    BY DEF ReadyFirst
  <2>2. CASE r = new
    <3>1. other = new
      BY <1>12, <1>13, <2>1, <2>2
    <3>2. QED
      BY <1>10, <2>2, <3>1
  <2>3. CASE r # new
    BY <1>7, <1>11, <1>12, <2>1, <2>3 DEF InLine, ReadyFirst
  <2>4. QED
    BY <2>2, <2>3
<1>16. LastBehind(longer)'
  <2>1. SUFFICES ASSUME NEW t \in GuardedTabs, NEW last \in Replays, NEW other \in Replays,
                        Member(other, t)', ngTurn'[t] = last
                 PROVE  longer[other] <= longer[last]
    BY DEF LastBehind
  <2>2. CASE t = tab
    BY <1>5, <1>10, <1>12, <2>1, <2>2
  <2>3. CASE t # tab
    <3>1. Member(last, t) /\ last # new /\ ngTurn[t] = last
      BY <1>2, <1>5, <2>1, <2>3 DEF Turns, LastKnown
    <3>2. QED
      BY <1>7, <1>10, <1>12, <2>1, <2>3, <3>1 DEF InLine, LastBehind
  <2>4. QED
    BY <2>2, <2>3
<1>17. WaitsForNext(longer)'
  <2>1. SUFFICES ASSUME NEW t \in GuardedTabs, NEW r \in Replays, NEW before \in Replays,
                        Member(r, t)', ~Ready(r)', ngReplay'[r].after = before
                 PROVE  /\ Member(before, t)'
                        /\ longer[before] < longer[r]
                        /\ \A other \in Replays :
                             Member(other, t)' /\ longer[other] < longer[r] => longer[other] <= longer[before]
    BY DEF WaitsForNext
  <2>2. CASE r = new
    <3>1. ngTurn[tab] = before /\ t = tab /\ Member(before, tab) /\ before # new
      BY <1>2, <2>1, <2>2 DEF Turns, LastKnown
    <3>2. end = place[before] /\ Member(before, tab)'
      BY <1>1, <1>8, <3>1, NetworkGuardConstants
    <3>3. QED
      BY <1>10, <1>12, <2>2, <3>1, <3>2
  <2>3. CASE r # new
    <3>1. Member(r, t) /\ ~Ready(r) /\ ngReplay[r].after = before
      BY <1>11, <1>12, <2>1, <2>3
    <3>2. /\ Member(before, t) /\ place[before] < place[r]
          /\ \A other \in Replays :
               Member(other, t) /\ place[other] < place[r] => place[other] <= place[before]
      BY <1>7, <3>1 DEF InLine, WaitsForNext
    <3>3. before # new /\ Member(before, t)'
      BY <1>1, <1>2, <3>2
    <3>4. longer[before] < longer[r]
      BY <1>10, <2>3, <3>2, <3>3
    <3>5. t = tab => place[r] <= end
      BY <1>9, <3>1
    <3>6. ASSUME NEW other \in Replays, Member(other, t)', longer[other] < longer[r]
          PROVE  longer[other] <= longer[before]
      <4>1. other # new
        BY <1>10, <1>12, <2>3, <3>5, <3>6
      <4>2. QED
        BY <1>10, <1>12, <2>3, <3>2, <3>3, <3>6, <4>1
    <3>7. QED
      BY <3>3, <3>4, <3>6
  <2>4. QED
    BY <2>2, <2>3
<1>18. QED
  BY <1>4, <1>6, <1>10, <1>14, <1>15, <1>16, <1>17 DEF Turns, InLine

\* What ends lets the next one go on.
LEMMA LineShrinks ==
    ASSUME NgValues, Turns, NEW gone \in Replays, gone \in Begun,
           ngReplay[gone].kind # "prepare" => Ready(gone),
           ngReplay'[gone].stage = "over",
           ngTurn' = IF ngTurn[ngReplay[gone].tab] = gone
                     THEN [ngTurn EXCEPT ![ngReplay[gone].tab] = NoReplay] ELSE ngTurn,
           \A r \in Replays \ {gone} : ngReplay'[r] = ngReplay[r]
    PROVE  Turns'
<1>1. \A r \in Replays \ {gone}, t \in GuardedTabs : Member(r, t)' <=> Member(r, t)
  BY DEF Member, Begun, Stage
<1>2. \A t \in GuardedTabs : ~Member(gone, t)'
  BY DEF Member, Begun, Stage
<1>3. \A r \in Replays \ {gone} :
        /\ ngReplay'[r].after = ngReplay[r].after
        /\ Ready(r)' <=> (Ready(r) \/ ngReplay[r].after = gone)
  BY DEF Ready, Stage, NgValues, NgRecord, Begun
<1>4. TurnsTaken'
  BY <1>3 DEF Turns, TurnsTaken, Begun, Stage
<1>5. PICK place \in [Replays -> Nat] : InLine(place)
  BY DEF Turns
<1>6. \A t \in GuardedTabs, r \in Replays : Member(r, t) /\ Member(gone, t) => place[gone] <= place[r]
  BY <1>5 DEF InLine, ReadyFirst, Member
<1>7. \A t \in GuardedTabs, r \in Replays : Member(r, t) /\ Member(gone, t) /\ ngTurn[t] = gone => r = gone
  BY <1>5, <1>6 DEF InLine, LastBehind, Apart
<1>8. \A t \in GuardedTabs :
        \/ ngTurn'[t] = ngTurn[t] /\ ngTurn[t] # gone
        \/ ngTurn'[t] = NoReplay /\ ngTurn[t] = gone
  <2>1. ngReplay[gone].tab \in GuardedTabs
    BY DEF NgValues, NgRecord
  <2>2. \A t \in GuardedTabs : ngTurn[t] = gone => t = ngReplay[gone].tab
    BY DEF Turns, LastKnown, Member
  <2>3. CASE ngTurn[ngReplay[gone].tab] = gone
    <3>1. ngTurn' = [ngTurn EXCEPT ![ngReplay[gone].tab] = NoReplay] /\ ngTurn \in [GuardedTabs -> Replays \cup {NoReplay}]
      BY <2>3 DEF NgValues
    <3>2. QED
      BY <2>1, <2>2, <2>3, <3>1
  <2>4. CASE ngTurn[ngReplay[gone].tab] # gone
    BY <2>2, <2>4
  <2>5. QED
    BY <2>3, <2>4
<1>9. LastKnown'
  <2>1. SUFFICES ASSUME NEW t \in GuardedTabs, NEW r \in Replays
                 PROVE  /\ ngTurn'[t] = r => Member(r, t)'
                        /\ ngTurn'[t] = NoReplay => ~Member(r, t)'
    BY DEF LastKnown
  <2>2. CASE ngTurn'[t] = ngTurn[t] /\ ngTurn[t] # gone
    BY <1>1, <1>2, <2>2 DEF Turns, LastKnown
  <2>3. CASE ngTurn'[t] = NoReplay /\ ngTurn[t] = gone
    BY <1>1, <1>2, <1>7, <2>3, NetworkGuardConstants DEF Turns, LastKnown
  <2>4. QED
    BY <1>8, <2>2, <2>3
<1>10. Apart(place)'
  BY <1>1, <1>2, <1>5 DEF InLine, Apart
<1>11. LastBehind(place)'
  BY <1>1, <1>2, <1>5, <1>8, NetworkGuardConstants DEF InLine, LastBehind
<1>12. ReadyFirst(place)'
  <2>1. SUFFICES ASSUME NEW t \in GuardedTabs, NEW r \in Replays, NEW other \in Replays,
                        Member(r, t)', Member(other, t)', Ready(r)'
                 PROVE  place[r] <= place[other]
    BY DEF ReadyFirst
  <2>2. r # gone /\ other # gone /\ Member(r, t) /\ Member(other, t)
    BY <1>1, <1>2, <2>1
  <2>3. CASE Ready(r)
    BY <1>5, <2>2, <2>3 DEF InLine, ReadyFirst
  <2>4. CASE ~Ready(r)
    <3>1. ngReplay[r].after = gone
      BY <1>3, <2>1, <2>2, <2>4
    <3>2. Member(gone, t) /\ (place[other] < place[r] => place[other] <= place[gone])
      BY <1>5, <2>2, <2>4, <3>1 DEF InLine, WaitsForNext
    <3>3. place[gone] <= place[other] /\ place[gone] # place[other]
      BY <1>5, <1>6, <2>2, <3>2 DEF InLine, Apart
    <3>4. place[gone] \in Nat /\ place[other] \in Nat /\ place[r] \in Nat
      BY <1>5
    <3>5. QED
      BY <3>2, <3>3, <3>4
  <2>5. QED
    BY <2>3, <2>4
<1>13. WaitsForNext(place)'
  BY <1>1, <1>2, <1>3, <1>5 DEF InLine, WaitsForNext
<1>14. QED
  BY <1>4, <1>9, <1>10, <1>11, <1>12, <1>13 DEF Turns, InLine

LEMMA NextTurns ==
    ASSUME NgValues, Turns, [GuardSteps]_ngVars
    PROVE  Turns'
<1> USE DEF Stage
<1>1. ASSUME NEW r \in Replays, Execute(r) \/ CaptureStopped(r)
      PROVE  Turns'
  <2>1. PICK tab \in GuardedTabs, asks \in BOOLEAN, kind \in {"execute", "capture"} :
          /\ ngReplay' = [ngReplay EXCEPT ![r] = Queued(r, kind, tab, asks)]
          /\ ngTurn' = [ngTurn EXCEPT ![tab] = r]
          /\ Stage(r) = "none"
    BY <1>1 DEF Execute, CaptureStopped, NgValues
  <2>2. /\ ngReplay'[r] = Queued(r, kind, tab, asks)
        /\ \A x \in Replays \ {r} : ngReplay'[x] = ngReplay[x]
    BY <2>1 DEF NgValues
  <2>3. \A x \in Replays \ {r} : StaysInLine(x)
    BY <2>2 DEF StaysInLine
  <2>4. /\ ngReplay'[r].stage = "turn" /\ ngReplay'[r].kind # "prepare"
        /\ ngReplay'[r].tab = tab /\ ngReplay'[r].after = ngTurn[tab]
    BY <2>2 DEF Queued
  <2>5. QED
    BY <2>1, <2>3, <2>4, LineGrows
<1>2. ASSUME NEW r \in Replays, Prepare(r)
      PROVE  Turns'
  <2>1. /\ Stage(r) = "none" /\ ngReplay'[r].stage = "install" /\ ngReplay'[r].kind = "prepare"
        /\ \A x \in Replays \ {r} : ngReplay'[x] = ngReplay[x]
        /\ UNCHANGED ngTurn
    BY <1>2 DEF Prepare, NgValues, NgRecord
  <2>2. \A x \in Replays, t \in GuardedTabs : Member(x, t)' <=> Member(x, t)
    BY <2>1 DEF Member, Begun
  <2>3. \A x \in Replays \ {r} : ngReplay'[x].after = ngReplay[x].after /\ (Ready(x)' <=> Ready(x))
    BY <2>1 DEF Ready, NgValues, NgRecord
  <2>4. TurnsTaken'
    BY <2>1, <2>3 DEF Turns, TurnsTaken, Begun
  <2>5. LastKnown'
    BY <2>1, <2>2 DEF Turns, LastKnown
  <2>6. \A x \in Replays, t \in GuardedTabs : Member(x, t) => x # r
    BY <2>1 DEF Member, Begun
  <2>7. PICK place \in [Replays -> Nat] : InLine(place)
    BY DEF Turns
  <2>8. Apart(place)' /\ ReadyFirst(place)' /\ LastBehind(place)'
    BY <2>1, <2>2, <2>3, <2>6, <2>7 DEF InLine, Apart, ReadyFirst, LastBehind
  <2>9. WaitsForNext(place)'
    BY <2>2, <2>3, <2>6, <2>7 DEF InLine, WaitsForNext
  <2>10. QED
    BY <2>4, <2>5, <2>8, <2>9 DEF Turns, InLine
<1>3. ASSUME NEW r \in Replays, NEW capture \in Replays \ {r}, Triggered(r, capture)
      PROVE  Turns'
  <2>1. PICK tab \in GuardedTabs :
          /\ Stage(r) = "running" /\ ngReplay[r].kind = "prepare" /\ Stage(capture) = "none"
          /\ ngReplay' = [ngReplay EXCEPT ![r].stage = "inner", ![r].after = capture,
                                          ![capture] = Queued(capture, "capture", tab, FALSE)]
          /\ ngTurn' = [ngTurn EXCEPT ![tab] = capture]
    BY <1>3 DEF Triggered, NgValues, NgRecord
  <2>2. /\ ngReplay'[capture] = Queued(capture, "capture", tab, FALSE)
        /\ ngReplay'[r].stage = "inner" /\ ngReplay'[r].kind = ngReplay[r].kind /\ ngReplay'[r].tab = ngReplay[r].tab
        /\ \A x \in Replays \ {r, capture} : ngReplay'[x] = ngReplay[x]
    BY <2>1 DEF NgValues, NgRecord
  <2>3. \A x \in Replays \ {capture} : StaysInLine(x)
    BY <2>1, <2>2 DEF StaysInLine
  <2>4. /\ ngReplay'[capture].stage = "turn" /\ ngReplay'[capture].kind # "prepare"
        /\ ngReplay'[capture].tab = tab /\ ngReplay'[capture].after = ngTurn[tab]
    BY <2>2 DEF Queued
  <2>5. QED
    BY <2>1, <2>3, <2>4, LineGrows
<1>4. ASSUME NEW r \in Replays, r \in Begun, Stage(r) = "turn" => Ready(r),
             NEW stage \in {"install", "adding", "running", "removing"},
             /\ ngReplay'[r].stage = stage /\ ngReplay'[r].kind = ngReplay[r].kind
             /\ ngReplay'[r].tab = ngReplay[r].tab /\ ngReplay'[r].after = ngReplay[r].after,
             \A x \in Replays \ {r} : ngReplay'[x] = ngReplay[x],
             UNCHANGED ngTurn
      PROVE  Turns'
  <2>1. \A x \in Replays : StaysInLine(x)
    BY <1>4 DEF StaysInLine, Begun
  <2>2. QED
    BY <1>4, <2>1, LineStays
<1>5. ASSUME NEW r \in Replays, r \in Begun, ngReplay[r].kind # "prepare" => Ready(r), Ends(r)
      PROVE  Turns'
  <2>1. ngReplay'[r].stage = "over" /\ \A x \in Replays \ {r} : ngReplay'[x] = ngReplay[x]
    BY <1>5 DEF Ends, Unused, NgValues
  <2>2. QED
    BY <1>5, <2>1, LineShrinks DEF Ends
<1>6. ASSUME NEW r \in Replays, NEW stage, Goes(r, stage)
      PROVE  /\ ngReplay'[r].stage = stage /\ ngReplay'[r].kind = ngReplay[r].kind
             /\ ngReplay'[r].tab = ngReplay[r].tab /\ ngReplay'[r].after = ngReplay[r].after
             /\ \A x \in Replays \ {r} : ngReplay'[x] = ngReplay[x]
  BY <1>6 DEF Goes, NgValues, NgRecord
<1>7. \A r \in Replays : Stage(r) \in {"install", "adding"} \cup Guarding =>
        r \in Begun /\ (ngReplay[r].kind # "prepare" => Ready(r)) /\ Stage(r) # "turn"
  BY DEF Turns, TurnsTaken, Begun, Guarding
<1>8. \A r \in Replays : IsTurn(r) => r \in Begun /\ Ready(r)
  BY DEF IsTurn, Begun, Ready
<1>9. ASSUME NEW r \in Replays, TakeTurn(r)
      PROVE  Turns'
  BY <1>4, <1>6, <1>8, <1>9 DEF TakeTurn
<1>10. ASSUME NEW r \in Replays, TurnFails(r)
       PROVE  Turns'
  BY <1>5, <1>8, <1>10 DEF TurnFails
<1>11. ASSUME NEW r \in Replays, ReadRules(r)
       PROVE  Turns'
  <2>1. CASE Ends(r)
    BY <1>5, <1>7, <1>11, <2>1 DEF ReadRules
  <2>2. CASE /\ ngReplay' = [ngReplay EXCEPT ![r].stage = "adding", ![r].ids = Allocated(Needed(r))]
             /\ UNCHANGED ngTurn
    <3>1. /\ ngReplay'[r].stage = "adding" /\ ngReplay'[r].kind = ngReplay[r].kind
          /\ ngReplay'[r].tab = ngReplay[r].tab /\ ngReplay'[r].after = ngReplay[r].after
          /\ \A x \in Replays \ {r} : ngReplay'[x] = ngReplay[x]
      BY <2>2 DEF NgValues, NgRecord
    <3>2. QED
      BY <1>4, <1>7, <1>11, <2>2, <3>1 DEF ReadRules
  <2>3. QED
    BY <1>11, <2>1, <2>2 DEF ReadRules
<1>12. ASSUME NEW r \in Replays, AddRules(r)
       PROVE  Turns'
  <2>1. CASE Ends(r)
    BY <1>5, <1>7, <1>12, <2>1 DEF AddRules
  <2>2. CASE Goes(r, "running") /\ UNCHANGED ngTurn
    BY <1>4, <1>6, <1>7, <1>12, <2>2 DEF AddRules
  <2>3. QED
    BY <1>12, <2>1, <2>2 DEF AddRules
<1>13. ASSUME NEW r \in Replays, Returns(r) \/ CaptureAndResume(r) \/ NothingTriggered(r) \/ InnerOver(r)
       PROVE  Turns'
  <2>1. Stage(r) \in Guarding /\ Goes(r, "removing") /\ UNCHANGED ngTurn
    BY <1>13 DEF Returns, CaptureAndResume, NothingTriggered, InnerOver, Guarding
  <2>2. QED
    BY <1>4, <1>6, <1>7, <2>1
<1>14. ASSUME NEW r \in Replays, RemoveRules(r)
       PROVE  Turns'
  BY <1>5, <1>7, <1>14 DEF RemoveRules, Guarding
<1>15. CASE NgKill
  <2>1. \A r \in Replays : r \notin Begun'
    BY <1>15 DEF NgKill, Begun, Unused, NgValues
  <2>2. ngTurn' = [tab \in GuardedTabs |-> NoReplay]
    BY <1>15 DEF NgKill
  <2>3. TurnsTaken' /\ LastKnown'
    BY <2>1, <2>2, NetworkGuardConstants DEF TurnsTaken, LastKnown, Member, Begun
  <2>4. InLine([r \in Replays |-> 0])'
    BY <2>1 DEF InLine, Apart, ReadyFirst, LastBehind, WaitsForNext, Member
  <2>5. [r \in Replays |-> 0] \in [Replays -> Nat]
    OBVIOUS
  <2>6. QED
    BY <2>3, <2>4, <2>5 DEF Turns
<1>16. CASE BreakpointHit \/ Watchdog \/ UNCHANGED ngVars
  <2>1. UNCHANGED <<ngReplay, ngTurn>>
    BY <1>16 DEF BreakpointHit, Watchdog, ngVars
  <2>2. QED
    BY <2>1, LineStays DEF StaysInLine
<1>17. QED
  BY <1>1, <1>2, <1>3, <1>9, <1>10, <1>11, <1>12, <1>13, <1>14, <1>15, <1>16 DEF GuardSteps, GuardWorks

-----------------------------------------------------------------------------
(* The rules *)

\* ruleQueue holds the replays whose rules are to be installed, each once, and only the
\* first of them has read the rules.
Installs ==
    /\ \A r \in Replays : Stage(r) \in {"install", "adding"} =>
         \E i \in 1 .. Len(ngInstalls) : ngInstalls[i] = r
    /\ \A i \in 1 .. Len(ngInstalls), r \in Replays :
         ngInstalls[i] = r => Stage(r) \in {"install", "adding"}
    /\ \A i, j \in 1 .. Len(ngInstalls) : ngInstalls[i] = ngInstalls[j] => i = j
    /\ \A r \in Replays : Stage(r) = "adding" => ngInstalls[1] = r

OneRulePerId == \A rule, other \in ngRules : rule.id = other.id => rule = other

\* The ids that a replay allocated are still free when its rules are added.
AddsFree ==
    \A r \in Replays, rule \in ngRules : Stage(r) = "adding" => rule.id \notin ngReplay[r].ids

\* A replay is behind its rules until they are removed,
Behind == \A r \in Replays : Stage(r) \in Guarding => RulesOf(r) \subseteq ngRules

\* and a rule is of a replay under way that has its id, or was left.
Owned ==
    \A rule \in ngRules, r \in Replays : rule.by = r =>
        \/ Stage(r) \in Guarding /\ rule.id \in ngReplay[r].ids
        \/ Stage(r) = "over" /\ ngLeft # {}

Rules == OneRulePerId /\ AddsFree /\ Behind /\ Owned

LEMMA SameRules ==
    ASSUME NEW r, ngReplay'[r].tab = ngReplay[r].tab, ngReplay'[r].ids = ngReplay[r].ids
    PROVE  RulesOf(r)' = RulesOf(r)
  BY DEF RulesOf

\* A replay that did not begin to install its rules, or whose rules stay.
Alike(r) ==
    \/ ngReplay[r].stage \in {"none", "turn"} /\ ngReplay'[r].stage \in {"none", "turn", "over"}
    \/ /\ ngReplay'[r].tab = ngReplay[r].tab /\ ngReplay'[r].ids = ngReplay[r].ids
       /\ \/ ngReplay'[r].stage = ngReplay[r].stage
          \/ ngReplay[r].stage \in Guarding /\ ngReplay'[r].stage \in Guarding

LEMMA RulesStay ==
    ASSUME NgValues, Installs, Rules, UNCHANGED <<ngInstalls, ngRules, ngLeft>>,
           \A r \in Replays : Alike(r)
    PROVE  Installs' /\ Rules'
<1>1. \A r \in Replays :
        /\ ngReplay'[r].stage \in {"install", "adding"} \cup Guarding =>
             ngReplay'[r].ids = ngReplay[r].ids /\ RulesOf(r)' = RulesOf(r)
        /\ ngReplay'[r].stage = "install" <=> ngReplay[r].stage = "install"
        /\ ngReplay'[r].stage = "adding" <=> ngReplay[r].stage = "adding"
        /\ ngReplay'[r].stage \in Guarding <=> ngReplay[r].stage \in Guarding
        /\ ngReplay[r].stage = "over" => ngReplay'[r].stage = "over"
        /\ ngReplay[r].stage \in Guarding => ngReplay'[r].ids = ngReplay[r].ids
  BY SameRules DEF Alike, Guarding
<1>2. Installs'
  BY <1>1 DEF Installs, Stage
<1>3. OneRulePerId' /\ AddsFree'
  BY <1>1 DEF Rules, OneRulePerId, AddsFree, Stage
<1>4. Behind'
  BY <1>1 DEF Rules, Behind, Stage
<1>5. Owned'
  BY <1>1 DEF Rules, Owned, Stage
<1>6. QED
  BY <1>2, <1>3, <1>4, <1>5 DEF Rules

\* What waits for its installation joins the queue.
LEMMA QueueGrows ==
    ASSUME NgValues, Installs, Rules, NEW r \in Replays, Stage(r) \in {"none", "turn"},
           ngReplay'[r].stage = "install", ngInstalls' = Append(ngInstalls, r),
           \A x \in Replays \ {r} : ngReplay'[x] = ngReplay[x],
           UNCHANGED <<ngRules, ngLeft>>
    PROVE  Installs' /\ Rules'
<1> USE DEF Stage
<1>1. /\ Len(ngInstalls') = Len(ngInstalls) + 1 /\ Len(ngInstalls) \in Nat
      /\ ngInstalls'[Len(ngInstalls) + 1] = r
      /\ \A i \in 1 .. Len(ngInstalls) : ngInstalls'[i] = ngInstalls[i] /\ ngInstalls[i] \in Replays
  BY DEF NgValues
<1>2. \A i \in 1 .. Len(ngInstalls) : ngInstalls[i] # r
  BY DEF Installs
<1>3. \A x \in Replays : ngReplay'[x].stage \in {"install", "adding"} =>
        \E i \in 1 .. Len(ngInstalls') : ngInstalls'[i] = x
  BY <1>1 DEF Installs
<1>4. \A i \in 1 .. Len(ngInstalls'), x \in Replays :
        ngInstalls'[i] = x => ngReplay'[x].stage \in {"install", "adding"}
  BY <1>1, <1>2 DEF Installs
<1>5. \A i, j \in 1 .. Len(ngInstalls') : ngInstalls'[i] = ngInstalls'[j] => i = j
  BY <1>1, <1>2 DEF Installs
<1>6. \A x \in Replays : ngReplay'[x].stage = "adding" => ngInstalls'[1] = x
  BY <1>1 DEF Installs
<1>7. Installs'
  BY <1>3, <1>4, <1>5, <1>6 DEF Installs
<1>8. OneRulePerId' /\ AddsFree' /\ Owned'
  BY DEF Rules, OneRulePerId, AddsFree, Owned, Guarding
<1>9. Behind'
  BY SameRules DEF Rules, Behind, Guarding
<1>10. QED
  BY <1>7, <1>8, <1>9 DEF Rules

\* The first of the queue leaves it.
LEMMA QueueShrinks ==
    ASSUME NgValues, Installs, NEW r \in Replays, Stage(r) \in {"install", "adding"},
           ngInstalls[1] = r, ngReplay'[r].stage \notin {"install", "adding"},
           ngInstalls' = Tail(ngInstalls),
           \A x \in Replays \ {r} : ngReplay'[x] = ngReplay[x]
    PROVE  Installs' /\ \A x \in Replays : ngReplay'[x].stage # "adding"
<1> USE DEF Stage
<1>1. Len(ngInstalls) \in Nat /\ Len(ngInstalls) # 0
  BY DEF NgValues, Installs
<1>2. /\ Len(ngInstalls') = Len(ngInstalls) - 1
      /\ \A i \in 1 .. Len(ngInstalls) - 1 : ngInstalls'[i] = ngInstalls[i + 1]
  BY <1>1 DEF NgValues
<1>3. \A x \in Replays \ {r} : ngReplay[x].stage # "adding"
  BY DEF Installs
<1>4. ASSUME NEW x \in Replays, ngReplay'[x].stage \in {"install", "adding"}
      PROVE  \E i \in 1 .. Len(ngInstalls') : ngInstalls'[i] = x
  <2>1. x # r
    BY <1>4
  <2>2. PICK i \in 1 .. Len(ngInstalls) : ngInstalls[i] = x
    BY <1>4, <2>1 DEF Installs
  <2>3. i # 1 /\ i - 1 \in 1 .. Len(ngInstalls')
    BY <1>1, <1>2, <2>1, <2>2
  <2>4. ngInstalls'[i - 1] = x
    BY <1>1, <1>2, <2>2, <2>3
  <2>5. QED
    BY <2>3, <2>4
<1>5. ASSUME NEW i \in 1 .. Len(ngInstalls'), NEW x \in Replays, ngInstalls'[i] = x
      PROVE  ngReplay'[x].stage \in {"install", "adding"}
  <2>1. i + 1 \in 1 .. Len(ngInstalls) /\ i + 1 # 1 /\ 1 \in 1 .. Len(ngInstalls) /\ ngInstalls[i + 1] = x
    BY <1>1, <1>2, <1>5
  <2>2. x # r
    BY <2>1 DEF Installs
  <2>3. QED
    BY <2>1, <2>2 DEF Installs
<1>6. \A i, j \in 1 .. Len(ngInstalls') : ngInstalls'[i] = ngInstalls'[j] => i = j
  <2>1. SUFFICES ASSUME NEW i \in 1 .. Len(ngInstalls'), NEW j \in 1 .. Len(ngInstalls'),
                        ngInstalls'[i] = ngInstalls'[j]
                 PROVE  i = j
    OBVIOUS
  <2>2. i + 1 \in 1 .. Len(ngInstalls) /\ j + 1 \in 1 .. Len(ngInstalls) /\ ngInstalls[i + 1] = ngInstalls[j + 1]
    BY <1>1, <1>2, <2>1
  <2>3. i + 1 = j + 1
    BY <2>2 DEF Installs
  <2>4. QED
    BY <1>1, <1>2, <2>3
<1>7. \A x \in Replays : ngReplay'[x].stage # "adding"
  BY <1>3
<1>8. QED
  BY <1>4, <1>5, <1>6, <1>7 DEF Installs

\* The rules of r are added, removed or given up, and those of the others stay.
LEMMA OthersBehind ==
    ASSUME NgValues, Rules, NEW r \in Replays,
           \A x \in Replays \ {r} : ngReplay'[x] = ngReplay[x],
           \A x \in Replays \ {r} : Stage(x) \in Guarding => RulesOf(x) \subseteq ngRules',
           ngReplay'[r].stage \in Guarding => RulesOf(r)' \subseteq ngRules'
    PROVE  Behind'
<1>1. \A x \in Replays \ {r} : RulesOf(x)' = RulesOf(x)
  BY SameRules
<1>2. QED
  BY <1>1 DEF Behind, Stage

LEMMA NextRules ==
    ASSUME NgValues, Turns, Installs, Rules, [GuardSteps]_ngVars
    PROVE  Installs' /\ Rules'
<1> USE DEF Stage
<1>1. ASSUME NEW r \in Replays, Execute(r) \/ CaptureStopped(r)
      PROVE  Installs' /\ Rules'
  <2>1. PICK queued : /\ ngReplay[r].stage = "none" /\ queued.stage = "turn"
                      /\ ngReplay' = [ngReplay EXCEPT ![r] = queued]
                      /\ UNCHANGED <<ngInstalls, ngRules, ngLeft>>
    BY <1>1 DEF Execute, CaptureStopped, Queued
  <2>2. \A x \in Replays : Alike(x)
    BY <2>1 DEF Alike, NgValues
  <2>3. QED
    BY <2>1, <2>2, RulesStay
<1>2. ASSUME NEW r \in Replays, TakeTurn(r) \/ Prepare(r)
      PROVE  Installs' /\ Rules'
  <2>1. /\ Stage(r) \in {"none", "turn"} /\ ngReplay'[r].stage = "install"
        /\ \A x \in Replays \ {r} : ngReplay'[x] = ngReplay[x]
        /\ ngInstalls' = Append(ngInstalls, r) /\ UNCHANGED <<ngRules, ngLeft>>
    <3>1. CASE TakeTurn(r)
      BY <3>1 DEF TakeTurn, IsTurn, Goes, NgValues, NgRecord
    <3>2. CASE Prepare(r)
      BY <3>2 DEF Prepare, NgValues, NgRecord
    <3>3. QED
      BY <1>2, <3>1, <3>2
  <2>2. QED
    BY <2>1, QueueGrows
<1>3. ASSUME NEW r \in Replays, TurnFails(r)
      PROVE  Installs' /\ Rules'
  <2>1. \A x \in Replays : Alike(x)
    BY <1>3 DEF TurnFails, IsTurn, Ends, Unused, Alike, NgValues
  <2>2. QED
    BY <1>3, <2>1, RulesStay DEF TurnFails
<1>4. ASSUME NEW r \in Replays, Stage(r) \in {"install", "adding"}, ngInstalls[1] = r,
             Ends(r), ngInstalls' = Dequeued, UNCHANGED <<ngRules, ngLeft>>
      PROVE  Installs' /\ Rules'
  <2>1. ngReplay'[r].stage = "over" /\ \A x \in Replays \ {r} : ngReplay'[x] = ngReplay[x]
    BY <1>4 DEF Ends, Unused, NgValues
  <2>2. Installs' /\ \A x \in Replays : ngReplay'[x].stage # "adding"
    BY <1>4, <2>1, QueueShrinks DEF Dequeued
  <2>3. OneRulePerId' /\ AddsFree'
    BY <1>4, <2>2 DEF Rules, OneRulePerId, AddsFree
  <2>4. Behind'
    BY <1>4, <2>1, OthersBehind DEF Rules, Behind, Guarding
  <2>5. Owned'
    BY <1>4, <2>1 DEF Rules, Owned, Guarding
  <2>6. QED
    BY <2>2, <2>3, <2>4, <2>5 DEF Rules
<1>5. ASSUME NEW r \in Replays, ReadRules(r)
      PROVE  Installs' /\ Rules'
  <2>1. ngReplay[r].stage = "install" /\ UNCHANGED <<ngRules, ngLeft>>
    BY <1>5 DEF ReadRules
  <2>2. ngInstalls[1] = r
    BY <1>5, <2>1 DEF ReadRules, InstallTurn, Installs, NgValues
  <2>3. CASE Ends(r) /\ ngInstalls' = Dequeued
    BY <1>4, <2>1, <2>2, <2>3
  <2>4. CASE /\ ngReplay' = [ngReplay EXCEPT ![r].stage = "adding", ![r].ids = Allocated(Needed(r))]
             /\ UNCHANGED ngInstalls
    <3>1. /\ ngReplay'[r].stage = "adding" /\ ngReplay'[r].ids = Allocated(Needed(r))
          /\ \A x \in Replays \ {r} : ngReplay'[x] = ngReplay[x]
      BY <2>4 DEF NgValues, NgRecord
    <3>2. \A id \in Allocated(Needed(r)), rule \in ngRules : rule.id # id
      BY DEF Allocated, Free
    <3>3. Installs'
      <4>1. \A x \in Replays :
              /\ ngReplay'[x].stage \in {"install", "adding"} <=> ngReplay[x].stage \in {"install", "adding"}
              /\ ngReplay'[x].stage = "adding" => ngReplay[x].stage = "adding" \/ x = r
        BY <2>1, <3>1
      <4>2. UNCHANGED ngInstalls
        BY <2>4
      <4>3. QED
        BY <2>2, <4>1, <4>2 DEF Installs
    <3>4. OneRulePerId'
      BY <2>1 DEF Rules, OneRulePerId
    <3>5. AddsFree'
      BY <2>1, <3>1, <3>2 DEF Rules, AddsFree
    <3>6. Behind'
      BY <2>1, <3>1, OthersBehind DEF Rules, Behind, Guarding
    <3>7. Owned'
      BY <2>1, <3>1 DEF Rules, Owned, Guarding
    <3>8. QED
      BY <3>3, <3>4, <3>5, <3>6, <3>7 DEF Rules
  <2>5. QED
    BY <1>5, <2>3, <2>4 DEF ReadRules
<1>6. ASSUME NEW r \in Replays, AddRules(r)
      PROVE  Installs' /\ Rules'
  <2>1. ngReplay[r].stage = "adding" /\ ngInstalls[1] = r /\ ngInstalls' = Dequeued /\ UNCHANGED ngLeft
    BY <1>6 DEF AddRules, Installs
  <2>2. CASE Ends(r) /\ UNCHANGED ngRules
    BY <1>4, <2>1, <2>2
  <2>3. CASE ngRules' = ngRules \cup RulesOf(r) /\ Goes(r, "running")
    <3>1. /\ ngReplay'[r].stage = "running" /\ ngReplay'[r].ids = ngReplay[r].ids
          /\ ngReplay'[r].tab = ngReplay[r].tab
          /\ \A x \in Replays \ {r} : ngReplay'[x] = ngReplay[x]
      BY <2>3 DEF Goes, NgValues, NgRecord
    <3>2. Installs' /\ \A x \in Replays : ngReplay'[x].stage # "adding"
      BY <2>1, <3>1, QueueShrinks DEF Dequeued
    <3>3. \A rule \in RulesOf(r) : rule.by = r /\ rule.id \in ngReplay[r].ids
      BY DEF RulesOf
    <3>4. \A rule, other \in RulesOf(r) : rule.id = other.id => rule = other
      BY DEF RulesOf
    <3>5. OneRulePerId'
      BY <2>1, <2>3, <3>3, <3>4 DEF Rules, OneRulePerId, AddsFree
    <3>6. AddsFree'
      BY <3>2 DEF AddsFree
    <3>7. RulesOf(r)' = RulesOf(r)
      BY <3>1, SameRules
    <3>8. Behind'
      BY <2>3, <3>1, <3>7, OthersBehind DEF Rules, Behind
    <3>9. Owned'
      BY <2>1, <2>3, <3>1, <3>3 DEF Rules, Owned, Guarding
    <3>10. QED
      BY <3>2, <3>5, <3>6, <3>8, <3>9 DEF Rules
  <2>4. QED
    BY <1>6, <2>2, <2>3 DEF AddRules
<1>7. ASSUME NEW r \in Replays, Returns(r) \/ CaptureAndResume(r) \/ NothingTriggered(r) \/ InnerOver(r)
      PROVE  Installs' /\ Rules'
  <2>1. Stage(r) \in Guarding /\ Goes(r, "removing") /\ UNCHANGED <<ngInstalls, ngRules, ngLeft>>
    BY <1>7 DEF Returns, CaptureAndResume, NothingTriggered, InnerOver, Guarding
  <2>2. \A x \in Replays : Alike(x)
    BY <2>1 DEF Alike, Goes, Guarding, NgValues, NgRecord
  <2>3. QED
    BY <2>1, <2>2, RulesStay
<1>8. ASSUME NEW r \in Replays, NEW capture \in Replays \ {r}, Triggered(r, capture)
      PROVE  Installs' /\ Rules'
  <2>1. PICK tab \in GuardedTabs :
          /\ ngReplay[r].stage = "running" /\ ngReplay[capture].stage = "none"
          /\ ngReplay' = [ngReplay EXCEPT ![r].stage = "inner", ![r].after = capture,
                                          ![capture] = Queued(capture, "capture", tab, FALSE)]
          /\ UNCHANGED <<ngInstalls, ngRules, ngLeft>>
    BY <1>8 DEF Triggered, NgValues, NgRecord
  <2>2. /\ ngReplay'[r].stage = "inner" /\ ngReplay'[r].tab = ngReplay[r].tab /\ ngReplay'[r].ids = ngReplay[r].ids
        /\ ngReplay'[capture].stage = "turn"
        /\ \A x \in Replays \ {r, capture} : ngReplay'[x] = ngReplay[x]
    BY <2>1 DEF NgValues, NgRecord, Queued
  <2>3. \A x \in Replays : Alike(x)
    BY <2>1, <2>2 DEF Alike, Guarding
  <2>4. QED
    BY <2>1, <2>3, RulesStay
<1>9. ASSUME NEW r \in Replays, RemoveRules(r)
      PROVE  Installs' /\ Rules'
  <2>1. /\ ngReplay[r].stage = "removing" /\ ngReplay'[r].stage = "over" /\ UNCHANGED ngInstalls
        /\ \A x \in Replays \ {r} : ngReplay'[x] = ngReplay[x]
    BY <1>9 DEF RemoveRules, Ends, Unused, NgValues
  <2>2. ngRules' \subseteq ngRules
    BY <1>9 DEF RemoveRules
  <2>3. Installs'
    BY <2>1 DEF Installs
  <2>4. OneRulePerId' /\ AddsFree'
    BY <2>1, <2>2 DEF Rules, OneRulePerId, AddsFree
  <2>5. CASE ngRules' = {rule \in ngRules : rule.id \notin ngReplay[r].ids} /\ UNCHANGED ngLeft
    <3>1. ASSUME NEW x \in Replays \ {r}, Stage(x) \in Guarding, NEW rule \in RulesOf(x)
          PROVE  rule \in ngRules'
      <4>1. rule.by = x /\ rule \in ngRules
        BY <3>1 DEF RulesOf, Rules, Behind
      <4>2. ASSUME rule.id \in ngReplay[r].ids
            PROVE  FALSE
        <5>1. PICK own \in RulesOf(r) : own.id = rule.id /\ own.by = r
          <6>1. [id |-> rule.id, tab |-> ngReplay[r].tab, by |-> r,
                 action |-> IF \A other \in ngReplay[r].ids : rule.id <= other THEN "block" ELSE "allow"] \in RulesOf(r)
            BY <4>2, Zenon DEF RulesOf
          <6>2. QED
            BY <6>1
        <5>2. own \in ngRules
          BY <2>1, <5>1 DEF Rules, Behind, Guarding
        <5>3. QED
          BY <3>1, <4>1, <5>1, <5>2 DEF Rules, OneRulePerId
      <4>3. QED
        BY <2>5, <4>1, <4>2
    <3>2. Behind'
      BY <2>1, <3>1, OthersBehind DEF Guarding
    <3>3. Owned'
      BY <2>1, <2>5 DEF Rules, Owned, Guarding
    <3>4. QED
      BY <2>3, <2>4, <3>2, <3>3 DEF Rules
  <2>6. CASE ngLeft' = ngLeft \cup {"failed"} /\ UNCHANGED ngRules
    <3>1. Behind'
      BY <2>1, <2>6, OthersBehind DEF Rules, Behind, Guarding
    <3>2. Owned'
      BY <2>1, <2>6 DEF Rules, Owned, Guarding
    <3>3. QED
      BY <2>3, <2>4, <3>1, <3>2 DEF Rules
  <2>7. QED
    BY <1>9, <2>5, <2>6 DEF RemoveRules
<1>10. CASE NgKill
  <2>1. /\ \A x \in Replays : ngReplay'[x].stage \in {"none", "over"}
        /\ \A x \in Replays : ngReplay[x].stage # "none" => ngReplay'[x].stage = "over"
        /\ ngInstalls' = <<>> /\ ngLeft' # {} /\ UNCHANGED ngRules
    BY <1>10 DEF NgKill, Begun, Unused, NgValues
  <2>2. Installs'
    BY <2>1 DEF Installs
  <2>3. OneRulePerId' /\ AddsFree' /\ Behind' /\ Owned'
    BY <2>1 DEF Rules, OneRulePerId, AddsFree, Behind, Owned, Guarding
  <2>4. QED
    BY <2>2, <2>3 DEF Rules
<1>11. CASE BreakpointHit \/ Watchdog \/ UNCHANGED ngVars
  <2>1. UNCHANGED <<ngReplay, ngInstalls, ngRules, ngLeft>>
    BY <1>11 DEF BreakpointHit, Watchdog, ngVars
  <2>2. QED
    BY <2>1, RulesStay DEF Alike
<1>12. QED
  BY <1>1, <1>2, <1>3, <1>5, <1>6, <1>7, <1>8, <1>9, <1>10, <1>11 DEF GuardSteps, GuardWorks

-----------------------------------------------------------------------------
(* The values, and what follows *)

LEMMA AllRecords ==
    /\ \A stage \in {"none", "over"} : Unused(stage) \in NgRecord
    /\ \A r \in Replays, kind \in NgKinds, tab \in GuardedTabs, asks \in BOOLEAN :
         NgValues => Queued(r, kind, tab, asks) \in NgRecord
<1>1. (CHOOSE tab \in GuardedTabs : TRUE) \in GuardedTabs
  BY NetworkGuardConstants
<1>2. {} \in SUBSET RuleIds
  OBVIOUS
<1>3. QED
  BY <1>1, <1>2 DEF Unused, Queued, NgRecord, NgKinds, NgStages, NgValues

LEMMA NewRules ==
    ASSUME NgValues, NEW r \in Replays
    PROVE  RulesOf(r) \subseteq NgRule
<1>1. ngReplay[r].tab \in GuardedTabs /\ ngReplay[r].ids \subseteq RuleIds
  BY DEF NgValues, NgRecord
<1>2. QED
  BY <1>1 DEF RulesOf, NgRule

LEMMA NextValues ==
    ASSUME NgValues, Installs, [GuardSteps]_ngVars
    PROVE  NgValues'
<1> USE DEF Stage
<1>1. ASSUME NEW r \in Replays, Execute(r) \/ CaptureStopped(r)
      PROVE  NgValues'
  <2>1. PICK tab \in GuardedTabs, asks \in BOOLEAN, kind \in {"execute", "capture"} :
          /\ ngReplay' = [ngReplay EXCEPT ![r] = Queued(r, kind, tab, asks)]
          /\ ngTurn' = [ngTurn EXCEPT ![tab] = r]
          /\ UNCHANGED <<ngInstalls, ngRules, ngStopped, ngLeft, ngEvents>>
    BY <1>1 DEF Execute, CaptureStopped, NgValues
  <2>2. Queued(r, kind, tab, asks) \in NgRecord
    BY AllRecords DEF NgKinds
  <2>3. QED
    BY <2>1, <2>2 DEF NgValues
<1>2. ASSUME NEW r \in Replays, Prepare(r)
      PROVE  NgValues'
  <2>1. PICK tab \in GuardedTabs, asks \in BOOLEAN :
          ngReplay' = [ngReplay EXCEPT ![r].kind = "prepare", ![r].tab = tab, ![r].asks = asks,
                                       ![r].stage = "install"]
    BY <1>2 DEF Prepare
  <2>2. ngReplay' \in [Replays -> NgRecord]
    <3>1. /\ ngReplay'[r].kind = "prepare" /\ ngReplay'[r].tab = tab /\ ngReplay'[r].asks = asks
          /\ ngReplay'[r].stage = "install" /\ ngReplay'[r].after = ngReplay[r].after
          /\ ngReplay'[r].ids = ngReplay[r].ids
          /\ ngReplay'[r] = [kind |-> ngReplay'[r].kind, tab |-> ngReplay'[r].tab, asks |-> ngReplay'[r].asks,
                             after |-> ngReplay'[r].after, stage |-> ngReplay'[r].stage, ids |-> ngReplay'[r].ids]
      BY <2>1 DEF NgValues, NgRecord
    <3>2. ngReplay'[r] \in NgRecord
      BY <3>1 DEF NgValues, NgRecord, NgKinds, NgStages
    <3>3. ngReplay' = [ngReplay EXCEPT ![r] = ngReplay'[r]]
      BY <2>1 DEF NgValues
    <3>4. QED
      BY <3>2, <3>3 DEF NgValues
  <2>3. ngInstalls' = Append(ngInstalls, r) /\ UNCHANGED <<ngTurn, ngRules, ngStopped, ngLeft, ngEvents>>
    BY <1>2 DEF Prepare
  <2>4. QED
    BY <2>2, <2>3 DEF NgValues
<1>3. ASSUME NEW r \in Replays, NEW stage \in NgStages, Goes(r, stage)
      PROVE  ngReplay' \in [Replays -> NgRecord]
  BY <1>3 DEF Goes, NgValues, NgRecord
<1>4. ASSUME NEW r \in Replays, Ends(r)
      PROVE  /\ ngReplay' \in [Replays -> NgRecord]
             /\ ngTurn' \in [GuardedTabs -> Replays \cup {NoReplay}]
  BY <1>4, AllRecords DEF Ends, NgValues
<1>5. ASSUME Len(ngInstalls) # 0
      PROVE  Dequeued \in Seq(Replays)
  BY <1>5 DEF Dequeued, NgValues
<1>6. ASSUME NEW r \in Replays, Stage(r) \in {"install", "adding"}
      PROVE  Len(ngInstalls) # 0
  BY <1>6 DEF Installs, NgValues
<1>7. NgEvent => ngEvents' \in 0 .. MaxNgEvents
  BY NetworkGuardConstants DEF NgEvent, NgValues
<1>8. ASSUME NEW r \in Replays, TakeTurn(r)
      PROVE  NgValues'
  BY <1>3, <1>8 DEF TakeTurn, NgStages, NgValues
<1>9. ASSUME NEW r \in Replays, TurnFails(r)
      PROVE  NgValues'
  BY <1>4, <1>9 DEF TurnFails, NgValues
<1>10. ASSUME NEW r \in Replays, ReadRules(r)
       PROVE  NgValues'
  <2>1. CASE Ends(r) /\ ngInstalls' = Dequeued
    BY <1>4, <1>5, <1>6, <1>10, <2>1 DEF ReadRules, NgValues
  <2>2. CASE /\ ngReplay' = [ngReplay EXCEPT ![r].stage = "adding", ![r].ids = Allocated(Needed(r))]
             /\ UNCHANGED <<ngTurn, ngInstalls>>
    <3>1. Allocated(Needed(r)) \subseteq RuleIds
      BY DEF Allocated, Free
    <3>2. ngReplay' \in [Replays -> NgRecord]
      BY <2>2, <3>1 DEF NgValues, NgRecord, NgStages
    <3>3. QED
      BY <1>10, <2>2, <3>2 DEF ReadRules, NgValues
  <2>3. QED
    BY <1>10, <2>1, <2>2 DEF ReadRules
<1>11. ASSUME NEW r \in Replays, AddRules(r)
       PROVE  NgValues'
  <2>1. ngInstalls' \in Seq(Replays) /\ UNCHANGED <<ngStopped, ngLeft>>
    BY <1>5, <1>6, <1>11 DEF AddRules
  <2>2. CASE Ends(r) /\ NgEvent /\ UNCHANGED ngRules
    BY <1>4, <1>7, <2>1, <2>2 DEF NgValues
  <2>3. CASE ngRules' = ngRules \cup RulesOf(r) /\ Goes(r, "running") /\ UNCHANGED <<ngTurn, ngEvents>>
    <3>1. ngRules' \subseteq NgRule
      BY <2>3, NewRules DEF NgValues
    <3>2. ngReplay' \in [Replays -> NgRecord]
      BY <1>3, <2>3 DEF NgStages, Guarding
    <3>3. QED
      BY <2>1, <2>3, <3>1, <3>2 DEF NgValues
  <2>4. QED
    BY <1>11, <2>2, <2>3 DEF AddRules
<1>12. ASSUME NEW r \in Replays, Returns(r) \/ CaptureAndResume(r) \/ NothingTriggered(r) \/ InnerOver(r)
       PROVE  NgValues'
  <2>1. Goes(r, "removing") /\ UNCHANGED <<ngTurn, ngInstalls, ngRules, ngLeft, ngEvents>>
    BY <1>12 DEF Returns, CaptureAndResume, NothingTriggered, InnerOver
  <2>2. ngStopped' \subseteq ngStopped
    BY <1>12 DEF Returns, CaptureAndResume, NothingTriggered, InnerOver
  <2>3. ngReplay' \in [Replays -> NgRecord]
    BY <1>3, <2>1 DEF NgStages, Guarding
  <2>4. QED
    BY <2>1, <2>2, <2>3 DEF NgValues
<1>13. ASSUME NEW r \in Replays, NEW capture \in Replays \ {r}, Triggered(r, capture)
       PROVE  NgValues'
  <2>1. PICK tab \in GuardedTabs :
          /\ ngStopped' = ngStopped \cup {tab}
          /\ ngReplay' = [ngReplay EXCEPT ![r].stage = "inner", ![r].after = capture,
                                          ![capture] = Queued(capture, "capture", tab, FALSE)]
          /\ ngTurn' = [ngTurn EXCEPT ![tab] = capture]
          /\ UNCHANGED <<ngInstalls, ngRules, ngLeft, ngEvents>>
    BY <1>13 DEF Triggered, NgValues, NgRecord
  <2>2. Queued(capture, "capture", tab, FALSE) \in NgRecord
    BY AllRecords DEF NgKinds
  <2>3. ngReplay' \in [Replays -> NgRecord]
    <3>1. [ngReplay[r] EXCEPT !.stage = "inner", !.after = capture] \in NgRecord
      BY DEF NgValues, NgRecord, NgStages, Guarding
    <3>2. ngReplay' = [ngReplay EXCEPT ![r] = [ngReplay[r] EXCEPT !.stage = "inner", !.after = capture],
                                       ![capture] = Queued(capture, "capture", tab, FALSE)]
      BY <2>1 DEF NgValues
    <3>3. QED
      BY <2>2, <3>1, <3>2 DEF NgValues
  <2>4. QED
    BY <2>1, <2>3 DEF NgValues
<1>14. ASSUME NEW r \in Replays, RemoveRules(r)
       PROVE  NgValues'
  <2>1. ngRules' \subseteq ngRules /\ ngLeft' \subseteq ngLeft \cup {"failed"}
    BY <1>14 DEF RemoveRules
  <2>2. ngEvents' \in 0 .. MaxNgEvents
    BY <1>7, <1>14 DEF RemoveRules, NgValues
  <2>3. QED
    BY <1>4, <1>14, <2>1, <2>2 DEF RemoveRules, NgValues
<1>15. CASE BreakpointHit \/ Watchdog
  <2>1. ngStopped' \subseteq GuardedTabs /\ UNCHANGED <<ngReplay, ngTurn, ngInstalls, ngRules, ngLeft>>
    BY <1>15 DEF BreakpointHit, Watchdog, NgValues
  <2>2. ngEvents' \in 0 .. MaxNgEvents
    BY <1>7, <1>15 DEF BreakpointHit, Watchdog, NgValues
  <2>3. QED
    BY <2>1, <2>2 DEF NgValues
<1>16. CASE NgKill
  <2>1. ngReplay' \in [Replays -> NgRecord]
    BY <1>16, AllRecords DEF NgKill, NgValues
  <2>2. QED
    BY <1>7, <1>16, <2>1 DEF NgKill, NgValues
<1>17. CASE UNCHANGED ngVars
  BY <1>17 DEF ngVars, NgValues
<1>18. QED
  BY <1>1, <1>2, <1>8, <1>9, <1>10, <1>11, <1>12, <1>13, <1>14, <1>15, <1>16, <1>17 DEF GuardSteps,
     GuardWorks

Guards == NgValues /\ Turns /\ Installs /\ Rules

LEMMA InitGuards ==
    ASSUME GuardInit
    PROVE  Guards
<1>1. NgValues
  BY NetworkGuardConstants, AllRecords DEF GuardInit, NgValues
<1>2. \A r \in Replays : ngReplay[r].stage = "none"
  BY DEF GuardInit, Unused
<1>3. \A r \in Replays : r \notin Begun
  BY <1>2 DEF Begun, Stage
<1>4. TurnsTaken /\ LastKnown
  BY <1>3, NetworkGuardConstants DEF GuardInit, TurnsTaken, LastKnown, Member, Begun
<1>5. InLine([r \in Replays |-> 0])
  BY <1>3 DEF InLine, Apart, ReadyFirst, LastBehind, WaitsForNext, Member
<1>6. Turns
  <2>1. [r \in Replays |-> 0] \in [Replays -> Nat]
    OBVIOUS
  <2>2. QED
    BY <1>4, <1>5, <2>1 DEF Turns
<1>7. Installs /\ Rules
  BY <1>2 DEF GuardInit, Installs, Rules, OneRulePerId, AddsFree, Behind, Owned, Stage, Guarding
<1>8. QED
  BY <1>1, <1>6, <1>7 DEF Guards

\* Two replays that have their turn in a tab both stand first.
LEMMA GuardsHold ==
    ASSUME Guards
    PROVE  GuardSound
<1>1. NgTypeOK
  BY DEF Guards, NgValues, Rules, OneRulePerId, NgTypeOK, NgRecord, NgKinds, NgStages
<1>2. OneAtATime
  <2>1. SUFFICES ASSUME NEW r \in Begun, NEW other \in Begun,
                        ngReplay[r].kind # "prepare", Stage(r) # "turn",
                        ngReplay[other].kind # "prepare", Stage(other) # "turn",
                        ngReplay[r].tab = ngReplay[other].tab
                 PROVE  r = other
    BY DEF OneAtATime
  <2>2. r \in Replays /\ other \in Replays /\ ngReplay[r].tab \in GuardedTabs
    BY DEF Begun, Guards, NgValues, NgRecord
  <2>3. Member(r, ngReplay[r].tab) /\ Member(other, ngReplay[r].tab)
    BY <2>1 DEF Member
  <2>4. Ready(r) /\ Ready(other)
    BY <2>1 DEF Guards, Turns, TurnsTaken
  <2>5. PICK place \in [Replays -> Nat] : InLine(place)
    BY DEF Guards, Turns
  <2>6. place[r] = place[other]
    BY <2>2, <2>3, <2>4, <2>5 DEF InLine, ReadyFirst
  <2>7. QED
    BY <2>2, <2>3, <2>5, <2>6 DEF InLine, Apart
<1>3. GuardedWhileRunning
  BY DEF GuardedWhileRunning, Guards, Rules, Behind, Guarding
<1>4. NoRuleLeft
  BY DEF NoRuleLeft, Guards, NgValues, NgRule, Rules, Owned
<1>5. QED
  BY <1>1, <1>2, <1>3, <1>4 DEF GuardSound

\* For any number of replays, tabs and rule ids, with any number of failing calls of the
\* browser, breakpoints and terminations: the replays that wait for their turn run one at a
\* time in a tab, each replay is behind its own rules as long as it runs, whatever is
\* installed and removed beside it, and no rule is left but by a failed removal or a
\* termination.
THEOREM GuardIsSound == GuardSpec => []GuardSound
<1>1. GuardInit => Guards
  BY InitGuards
<1>2. Guards /\ [GuardSteps]_ngVars => Guards'
  BY NextValues, NextTurns, NextRules DEF Guards
<1>3. Guards => GuardSound
  BY GuardsHold
<1>4. QED
  BY <1>1, <1>2, <1>3, PTL DEF GuardSpec

(***************************************************************************)
(* Sums                                                                    *)
(***************************************************************************)

Less == {pair \in Nat \X Nat : pair[1] < pair[2]}

LEMMA LessWellFounded == IsWellFoundedOn(Less, Nat)
  BY NatLessThanWellFounded, Zenon DEF OpToRel, Less

\* What is used in place of an induction: of the numbers for which something fails, one is the least.
LEMMA LeastNumber ==
    ASSUME NEW numbers \in SUBSET Nat, numbers # {}
    PROVE  \E x \in numbers : \A y \in numbers : x <= y
<1>1. PICK x \in numbers : \A y \in numbers : <<y, x>> \notin Less
  BY LessWellFounded, WFMin
<1>2. ASSUME NEW y \in numbers PROVE x <= y
  <2>1. <<y, x>> \in Nat \X Nat /\ <<y, x>> \notin Less /\ x \in Nat /\ y \in Nat
    BY <1>1
  <2>2. ~(y < x)
    BY <2>1 DEF Less
  <2>3. QED
    BY <2>1, <2>2
<1>3. QED
  BY <1>2

\* The same for finite sets.
LEMMA SmallestSet ==
    ASSUME NEW sets, sets # {}, \A set \in sets : IsFiniteSet(set)
    PROVE  \E set \in sets : \A x \in set : set \ {x} \notin sets
<1> DEFINE sizes == {Cardinality(set) : set \in sets}
<1>1. sizes \in SUBSET Nat /\ sizes # {}
  BY FS_CardinalityType
<1>2. PICK n \in sizes : \A m \in sizes : n <= m
  BY <1>1, LeastNumber
<1>3. PICK set \in sets : n = Cardinality(set)
  BY <1>2
<1>4. ASSUME NEW x \in set, set \ {x} \in sets PROVE FALSE
  <2>1. Cardinality(set \ {x}) = Cardinality(set) - 1
    BY <1>3, FS_RemoveElement
  <2>2. Cardinality(set \ {x}) \in sizes /\ Cardinality(set) \in Nat
    BY <1>3, <1>4, FS_CardinalityType
  <2>3. QED
    BY <1>2, <1>3, <2>1, <2>2
<1>5. QED
  BY <1>4

\* The function whose value at a set is the sum of the weights over it.
Counts(weight, set, sum) ==
    sum = [part \in SUBSET set |->
             IF part = {} THEN 0
             ELSE weight[CHOOSE x \in part : TRUE] + sum[part \ {CHOOSE x \in part : TRUE}]]

LEMMA TotalUnfolds ==
    ASSUME NEW weight, NEW set
    PROVE  TotalOf(weight, set) = (CHOOSE sum : Counts(weight, set, sum))[set]
  BY Zenon DEF TotalOf, FoldFunctionOnSet, MapThenFoldSet, Counts

LEMMA CountsOf ==
    ASSUME NEW weight, NEW set, NEW sum, Counts(weight, set, sum), NEW part \in SUBSET set
    PROVE  /\ part = {} => sum[part] = 0
           /\ part # {} => \E x \in part : /\ x = (CHOOSE y \in part : TRUE)
                                           /\ sum[part] = weight[x] + sum[part \ {x}]
<1>1. sum[part] = IF part = {} THEN 0
                  ELSE weight[CHOOSE x \in part : TRUE] + sum[part \ {CHOOSE x \in part : TRUE}]
  BY Zenon DEF Counts
<1>2. CASE part = {}
  BY <1>1, <1>2
<1>3. CASE part # {}
  <2>1. (CHOOSE y \in part : TRUE) \in part
    BY <1>3, Zenon
  <2>2. PICK x : x = (CHOOSE y \in part : TRUE)
    OBVIOUS
  <2>3. x \in part /\ sum[part] = weight[x] + sum[part \ {x}]
    BY <1>1, <1>3, <2>1, <2>2, Zenon
  <2>4. QED
    BY <1>3, <2>2, <2>3
<1>4. QED
  BY <1>2, <1>3

LEMMA CountsAgree ==
    ASSUME NEW weight, NEW set, IsFiniteSet(set), NEW sum, Counts(weight, set, sum),
           NEW other, NEW sumOther, Counts(weight, other, sumOther),
           NEW part \in SUBSET set, part \in SUBSET other
    PROVE  sum[part] = sumOther[part]
<1> DEFINE wrong == {p \in (SUBSET set) \cap (SUBSET other) : sum[p] # sumOther[p]}
<1>1. SUFFICES ASSUME wrong # {} PROVE FALSE
  OBVIOUS
<1>2. \A p \in wrong : IsFiniteSet(p)
  BY FS_Subset
<1> HIDE DEF wrong
<1>3. PICK p \in wrong : \A x \in p : p \ {x} \notin wrong
  BY <1>1, <1>2, SmallestSet
<1>4. p \in SUBSET set /\ p \in SUBSET other /\ sum[p] # sumOther[p]
  BY DEF wrong
<1>5. p # {}
  BY <1>4, CountsOf
<1>6. PICK x \in p : x = (CHOOSE y \in p : TRUE) /\ sum[p] = weight[x] + sum[p \ {x}]
  BY <1>4, <1>5, CountsOf
<1>7. PICK z \in p : z = (CHOOSE y \in p : TRUE) /\ sumOther[p] = weight[z] + sumOther[p \ {z}]
  BY <1>4, <1>5, CountsOf
<1>8. sum[p \ {x}] = sumOther[p \ {x}]
  BY <1>3, <1>4 DEF wrong
<1>9. QED
  BY <1>4, <1>6, <1>7, <1>8

LEMMA CountsExists ==
    ASSUME NEW weight, NEW set, IsFiniteSet(set)
    PROVE  \E sum : Counts(weight, set, sum)
<1> DEFINE wrong == {p \in SUBSET set : ~\E sum : Counts(weight, p, sum)}
<1>1. SUFFICES ASSUME wrong # {} PROVE FALSE
  OBVIOUS
<1>2. \A p \in wrong : IsFiniteSet(p)
  BY FS_Subset
<1> HIDE DEF wrong
<1>3. PICK p \in wrong : \A x \in p : p \ {x} \notin wrong
  BY <1>1, <1>2, SmallestSet
<1>4. p \in SUBSET set /\ ~\E sum : Counts(weight, p, sum)
  BY DEF wrong
<1>p. IsFiniteSet(p)
  BY <1>2
<1> DEFINE less == UNION {SUBSET (p \ {x}) : x \in p}
           F(q) == (CHOOSE sum : Counts(weight, q, sum))
<1>5. ASSUME NEW x \in p PROVE Counts(weight, p \ {x}, F(p \ {x}))
  <2>1. p \ {x} \in SUBSET set
    BY <1>4
  <2>2. \E sum : Counts(weight, p \ {x}, sum)
    BY <1>3, <1>5, <2>1 DEF wrong
  <2>3. QED
    BY <2>2, Zenon
<1> DEFINE G(q) == F(p \ {CHOOSE x \in p : x \notin q})[q]
<1>6. ASSUME NEW q \in SUBSET p, NEW x \in p, x \notin q PROVE G(q) = F(p \ {x})[q]
  <2>1. PICK z : z = (CHOOSE y \in p : y \notin q)
    OBVIOUS
  <2>2. z \in p /\ z \notin q
    BY <1>6, <2>1, Zenon
  <2>3. Counts(weight, p \ {x}, F(p \ {x})) /\ Counts(weight, p \ {z}, F(p \ {z}))
    BY <1>5, <1>6, <2>2
  <2>4. IsFiniteSet(p \ {z}) /\ q \in SUBSET (p \ {z}) /\ q \in SUBSET (p \ {x})
    BY <1>p, <1>6, <2>2, FS_Difference, FS_RemoveElement
  <2> HIDE DEF F
  <2>5. PICK f, g : f = F(p \ {z}) /\ g = F(p \ {x})
    OBVIOUS
  <2>6. f[q] = g[q]
    <3>1. Counts(weight, p \ {x}, g) /\ Counts(weight, p \ {z}, f)
      BY <2>3, <2>5
    <3> HIDE <2>5
    <3>2. QED
      BY <2>4, <3>1, CountsAgree
  <2>7. QED
    BY <2>1, <2>5, <2>6
<1> DEFINE total == [q \in SUBSET p |->
                       IF q = {} THEN 0
                       ELSE weight[CHOOSE x \in q : TRUE] + G(q \ {CHOOSE x \in q : TRUE})]
<1>7. ASSUME NEW q \in SUBSET p, q # p PROVE total[q] = G(q)
  <2>1. PICK x \in p : x \notin q
    BY <1>7
  <2>2. G(q) = F(p \ {x})[q] /\ Counts(weight, p \ {x}, F(p \ {x})) /\ q \in SUBSET (p \ {x})
    BY <1>5, <1>6, <2>1
  <2> HIDE DEF F, G
  <2>3. CASE q = {}
    <3>1. total[q] = 0
      BY <2>3
    <3>2. F(p \ {x})[q] = 0
      BY <2>2, <2>3, CountsOf
    <3>3. QED
      BY <2>2, <3>1, <3>2
  <2>4. CASE q # {}
    <3>1. PICK c \in q : c = (CHOOSE y \in q : TRUE) /\ F(p \ {x})[q] = weight[c] + F(p \ {x})[q \ {c}]
      BY <2>2, <2>4, CountsOf
    <3>2. total[q] = weight[c] + G(q \ {c})
      BY <2>4, <3>1
    <3>3. G(q \ {c}) = F(p \ {x})[q \ {c}]
      <4>1. q \ {c} \in SUBSET p /\ x \notin q \ {c}
        BY <2>1
      <4>2. QED
        BY <1>6, <4>1
    <3>4. QED
      BY <2>2, <3>1, <3>2, <3>3
  <2>5. QED
    BY <2>3, <2>4
<1>8. ASSUME NEW q \in SUBSET p, q # {}
      PROVE  total[q] = weight[CHOOSE x \in q : TRUE] + total[q \ {CHOOSE x \in q : TRUE}]
  <2>1. PICK c : c = (CHOOSE x \in q : TRUE)
    OBVIOUS
  <2>2. c \in q
    BY <1>8, <2>1, Zenon
  <2>3. q \ {c} \in SUBSET p /\ q \ {c} # p
    BY <2>2
  <2>4. total[q \ {c}] = G(q \ {c})
    BY <1>7, <2>3
  <2> HIDE DEF G
  <2>5. total[q] = weight[c] + G(q \ {c})
    BY <1>8, <2>1
  <2> HIDE DEF total
  <2>6. QED
    BY <2>1, <2>4, <2>5
<1>9. total[{}] = 0
  <2>1. {} \in SUBSET p
    OBVIOUS
  <2> HIDE DEF G
  <2>2. QED
    BY <2>1
<1>10. total = [q \in SUBSET p |-> IF q = {} THEN 0
                  ELSE weight[CHOOSE x \in q : TRUE] + total[q \ {CHOOSE x \in q : TRUE}]]
  <2>1. PICK right : right = [q \in SUBSET p |-> IF q = {} THEN 0
                  ELSE weight[CHOOSE x \in q : TRUE] + total[q \ {CHOOSE x \in q : TRUE}]]
    OBVIOUS
  <2> HIDE DEF G
  <2>2. total = [q \in SUBSET p |-> total[q]]
    OBVIOUS
  <2>r. right = [q \in SUBSET p |-> right[q]]
    <3> HIDE DEF total
    <3>1. QED
      BY <2>1
  <2>3. ASSUME NEW q \in SUBSET p PROVE total[q] = right[q]
    <3>1. right[q] = IF q = {} THEN 0
                  ELSE weight[CHOOSE x \in q : TRUE] + total[q \ {CHOOSE x \in q : TRUE}]
      BY <2>1, Zenon
    <3> HIDE DEF total
    <3>2. QED
      BY <1>8, <1>9, <3>1
  <2> HIDE DEF total
  <2>4. total = right
    BY <2>2, <2>r, <2>3, Zenon
  <2>5. QED
    BY <2>1, <2>4
<1>11. Counts(weight, p, total)
  <2> HIDE DEF total
  <2>1. QED
    BY <1>10, Zenon DEF Counts
<1>12. QED
  BY <1>4, <1>11
-----------------------------------------------------------------------------
(* Sums over finite sets, from what TotalOf takes away of any element. *)

LEMMA TotalIsSum ==
    ASSUME NEW weight, NEW set, IsFiniteSet(set)
    PROVE  \E sum : Counts(weight, set, sum) /\ sum[set] = TotalOf(weight, set)
<1>1. PICK sum : sum = (CHOOSE f : Counts(weight, set, f))
  OBVIOUS
<1>2. Counts(weight, set, sum)
  BY <1>1, CountsExists, Zenon
<1>3. sum[set] = TotalOf(weight, set)
  BY <1>1, TotalUnfolds, Zenon
<1>4. QED
  BY <1>2, <1>3

LEMMA TotalNone == \A weight : TotalOf(weight, {}) = 0
<1>1. ASSUME NEW weight PROVE TotalOf(weight, {}) = 0
  <2>1. PICK sum : Counts(weight, {}, sum) /\ sum[{}] = TotalOf(weight, {})
    BY TotalIsSum, FS_EmptySet
  <2>2. {} \in SUBSET {}
    OBVIOUS
  <2>3. sum[{}] = 0
    BY <2>1, <2>2, CountsOf
  <2>4. QED
    BY <2>1, <2>3
<1>2. QED
  BY <1>1

LEMMA TotalSome ==
    ASSUME NEW weight, NEW set, IsFiniteSet(set), set # {}
    PROVE  \E x \in set : TotalOf(weight, set) = weight[x] + TotalOf(weight, set \ {x})
<1>1. PICK sum : Counts(weight, set, sum) /\ sum[set] = TotalOf(weight, set)
  BY TotalIsSum
<1>2. PICK x \in set : sum[set] = weight[x] + sum[set \ {x}]
  BY <1>1, CountsOf
<1>3. IsFiniteSet(set \ {x})
  BY FS_RemoveElement
<1>4. PICK less : Counts(weight, set \ {x}, less) /\ less[set \ {x}] = TotalOf(weight, set \ {x})
  BY <1>3, TotalIsSum
<1>5. set \ {x} \in SUBSET set /\ set \ {x} \in SUBSET (set \ {x})
  OBVIOUS
<1>6. sum[set \ {x}] = less[set \ {x}]
  BY <1>1, <1>4, <1>5, CountsAgree
<1>7. QED
  BY <1>1, <1>2, <1>4, <1>6

LEMMA TotalNat ==
    ASSUME NEW set, IsFiniteSet(set), NEW weight, \A x \in set : weight[x] \in Nat
    PROVE  TotalOf(weight, set) \in Nat
<1> DEFINE wrong == {p \in SUBSET set : TotalOf(weight, p) \notin Nat}
<1>1. SUFFICES ASSUME wrong # {} PROVE FALSE
  OBVIOUS
<1>2. \A p \in wrong : IsFiniteSet(p)
  BY FS_Subset
<1>3. PICK p \in wrong : \A x \in p : p \ {x} \notin wrong
  <2> HIDE DEF wrong
  <2>1. QED
    BY <1>1, <1>2, SmallestSet
<1>4. p # {}
  BY <1>3, TotalNone
<1>5. PICK x \in p : TotalOf(weight, p) = weight[x] + TotalOf(weight, p \ {x})
  BY <1>2, <1>3, <1>4, TotalSome
<1>6. TotalOf(weight, p \ {x}) \in Nat
  BY <1>3
<1>7. QED
  BY <1>3, <1>5, <1>6

LEMMA TotalAny ==
    ASSUME NEW set, IsFiniteSet(set), NEW weight, \A x \in set : weight[x] \in Nat, NEW x \in set
    PROVE  TotalOf(weight, set) = weight[x] + TotalOf(weight, set \ {x})
<1> DEFINE wrong == {p \in SUBSET set :
                       \E y \in p : TotalOf(weight, p) # weight[y] + TotalOf(weight, p \ {y})}
<1>1. SUFFICES ASSUME wrong # {} PROVE FALSE
  OBVIOUS
<1>2. \A p \in wrong : IsFiniteSet(p)
  BY FS_Subset
<1>3. PICK p \in wrong : \A y \in p : p \ {y} \notin wrong
  <2> HIDE DEF wrong
  <2>1. QED
    BY <1>1, <1>2, SmallestSet
<1>4. PICK y \in p : TotalOf(weight, p) # weight[y] + TotalOf(weight, p \ {y})
  BY <1>3
<1>5. PICK c \in p : TotalOf(weight, p) = weight[c] + TotalOf(weight, p \ {c})
  BY <1>2, <1>3, <1>4, TotalSome
<1>6. c # y /\ p \in SUBSET set /\ weight[c] \in Nat /\ weight[y] \in Nat
  BY <1>3, <1>4, <1>5
<1>7. TotalOf(weight, p \ {c}) = weight[y] + TotalOf(weight, (p \ {c}) \ {y})
  BY <1>3, <1>5, <1>6
<1>8. TotalOf(weight, p \ {y}) = weight[c] + TotalOf(weight, (p \ {y}) \ {c})
  BY <1>3, <1>4, <1>6
<1>9. (p \ {y}) \ {c} = (p \ {c}) \ {y}
  OBVIOUS
<1>10. TotalOf(weight, (p \ {c}) \ {y}) \in Nat
  <2>1. IsFiniteSet((p \ {c}) \ {y}) /\ \A z \in (p \ {c}) \ {y} : weight[z] \in Nat
    BY <1>2, <1>3, <1>6, FS_RemoveElement
  <2>2. QED
    BY <2>1, TotalNat
<1> HIDE DEF wrong
<1>11. QED
  BY <1>4, <1>5, <1>6, <1>7, <1>8, <1>9, <1>10

LEMMA TotalSame ==
    ASSUME NEW set, IsFiniteSet(set), NEW weight, NEW other, \A x \in set : weight[x] = other[x]
    PROVE  TotalOf(weight, set) = TotalOf(other, set)
<1> DEFINE wrong == {p \in SUBSET set : TotalOf(weight, p) # TotalOf(other, p)}
<1>1. SUFFICES ASSUME wrong # {} PROVE FALSE
  OBVIOUS
<1>2. \A p \in wrong : IsFiniteSet(p)
  BY FS_Subset
<1>3. PICK p \in wrong : \A y \in p : p \ {y} \notin wrong
  <2> HIDE DEF wrong
  <2>1. QED
    BY <1>1, <1>2, SmallestSet
<1>4. p # {}
  BY <1>3, TotalNone
<1>5. PICK sum : Counts(weight, p, sum) /\ sum[p] = TotalOf(weight, p)
  BY <1>2, <1>3, TotalIsSum
<1>6. PICK sumOther : Counts(other, p, sumOther) /\ sumOther[p] = TotalOf(other, p)
  BY <1>2, <1>3, TotalIsSum
<1>7. p \in SUBSET p
  OBVIOUS
<1>8. PICK x \in p : x = (CHOOSE y \in p : TRUE) /\ sum[p] = weight[x] + sum[p \ {x}]
  BY <1>4, <1>5, <1>7, CountsOf
<1>9. PICK z \in p : z = (CHOOSE y \in p : TRUE) /\ sumOther[p] = other[z] + sumOther[p \ {z}]
  BY <1>4, <1>6, <1>7, CountsOf
<1>r. PICK rest : rest = p \ {x}
  OBVIOUS
<1>10. IsFiniteSet(rest) /\ rest \in SUBSET p /\ rest \in SUBSET rest
  BY <1>2, <1>3, <1>r, FS_RemoveElement
<1>11. PICK f : Counts(weight, rest, f) /\ f[rest] = TotalOf(weight, rest)
  BY <1>10, TotalIsSum
<1>12. PICK g : Counts(other, rest, g) /\ g[rest] = TotalOf(other, rest)
  BY <1>10, TotalIsSum
<1>p. IsFiniteSet(p)
  BY <1>2, <1>3
<1>13. sum[rest] = f[rest]
  BY <1>p, <1>5, <1>10, <1>11, CountsAgree
<1>14. sumOther[rest] = g[rest]
  BY <1>p, <1>6, <1>10, <1>12, CountsAgree
<1>15. TotalOf(weight, rest) = TotalOf(other, rest) /\ weight[x] = other[x]
  BY <1>3, <1>r
<1>16. TotalOf(weight, p) # TotalOf(other, p)
  BY <1>3
<1> HIDE DEF wrong
<1>17. QED
  BY <1>5, <1>6, <1>8, <1>9, <1>r, <1>11, <1>12, <1>13, <1>14, <1>15, <1>16

LEMMA TotalLeq ==
    ASSUME NEW set, IsFiniteSet(set), NEW weight, NEW other,
           \A x \in set : weight[x] \in Nat /\ other[x] \in Nat /\ weight[x] <= other[x]
    PROVE  TotalOf(weight, set) <= TotalOf(other, set)
<1> DEFINE wrong == {p \in SUBSET set : ~(TotalOf(weight, p) <= TotalOf(other, p))}
<1>1. SUFFICES ASSUME wrong # {} PROVE FALSE
  OBVIOUS
<1>2. \A p \in wrong : IsFiniteSet(p)
  BY FS_Subset
<1>3. PICK p \in wrong : \A y \in p : p \ {y} \notin wrong
  <2> HIDE DEF wrong
  <2>1. QED
    BY <1>1, <1>2, SmallestSet
<1>4. p # {}
  BY <1>3, TotalNone
<1>5. PICK x \in p : TRUE
  BY <1>4
<1>6. /\ IsFiniteSet(p) /\ \A y \in p : weight[y] \in Nat /\ other[y] \in Nat
      /\ IsFiniteSet(p \ {x}) /\ \A y \in p \ {x} : weight[y] \in Nat /\ other[y] \in Nat
  BY <1>2, <1>3, FS_RemoveElement
<1>7. TotalOf(weight, p) = weight[x] + TotalOf(weight, p \ {x})
  BY <1>6, TotalAny
<1>8. TotalOf(other, p) = other[x] + TotalOf(other, p \ {x})
  BY <1>6, TotalAny
<1>9. TotalOf(weight, p \ {x}) \in Nat /\ TotalOf(other, p \ {x}) \in Nat
  BY <1>6, TotalNat
<1>10. TotalOf(weight, p \ {x}) <= TotalOf(other, p \ {x}) /\ weight[x] <= other[x]
  BY <1>3
<1>11. ~(TotalOf(weight, p) <= TotalOf(other, p))
  BY <1>3
<1> HIDE DEF wrong
<1>12. QED
  BY <1>6, <1>7, <1>8, <1>9, <1>10, <1>11

\* The weights of a finite set differ at one element only.
Differ(set, x, weight, other) ==
    /\ IsFiniteSet(set) /\ x \in set
    /\ \A y \in set : weight[y] \in Nat /\ other[y] \in Nat
    /\ \A y \in set \ {x} : weight[y] = other[y]

\* What one element contributes more or less is what the total grows or shrinks by.
LEMMA TotalChanged ==
    ASSUME NEW set, NEW weight, NEW other, NEW x, Differ(set, x, weight, other)
    PROVE  TotalOf(other, set) = TotalOf(weight, set) + (other[x] - weight[x])
<1> USE DEF Differ
<1>1. IsFiniteSet(set \ {x})
  BY FS_RemoveElement
<1>2. TotalOf(weight, set \ {x}) = TotalOf(other, set \ {x})
  BY <1>1, TotalSame
<1>3. TotalOf(weight, set) = weight[x] + TotalOf(weight, set \ {x})
  BY TotalAny
<1>4. TotalOf(other, set) = other[x] + TotalOf(other, set \ {x})
  BY TotalAny
<1>5. TotalOf(weight, set \ {x}) \in Nat /\ TotalOf(other, set \ {x}) \in Nat
  BY <1>1, TotalNat
<1>6. QED
  BY <1>2, <1>3, <1>4, <1>5

LEMMA TotalZero ==
    ASSUME NEW set, IsFiniteSet(set), NEW weight, \A x \in set : weight[x] = 0
    PROVE  TotalOf(weight, set) = 0
<1> DEFINE wrong == {p \in SUBSET set : TotalOf(weight, p) # 0}
<1>1. SUFFICES ASSUME wrong # {} PROVE FALSE
  OBVIOUS
<1>2. \A p \in wrong : IsFiniteSet(p)
  BY FS_Subset
<1>3. PICK p \in wrong : \A y \in p : p \ {y} \notin wrong
  <2> HIDE DEF wrong
  <2>1. QED
    BY <1>1, <1>2, SmallestSet
<1>4. p # {} /\ IsFiniteSet(p)
  BY <1>2, <1>3, TotalNone
<1>5. PICK x \in p : TotalOf(weight, p) = weight[x] + TotalOf(weight, p \ {x})
  BY <1>4, TotalSome
<1>6. TotalOf(weight, p \ {x}) = 0 /\ weight[x] = 0
  BY <1>3
<1>7. QED
  BY <1>3, <1>5, <1>6

\* The weights of some elements become zero.
LEMMA TotalCleared ==
    ASSUME NEW set, IsFiniteSet(set), NEW weight, NEW other, NEW part \in SUBSET set,
           \A y \in set : weight[y] \in Nat,
           \A y \in part : other[y] = 0,
           \A y \in set \ part : weight[y] = other[y]
    PROVE  TotalOf(other, set) = TotalOf(weight, set) - TotalOf(weight, part)
<1> DEFINE Zeroed(p) == [y \in set |-> IF y \in p THEN 0 ELSE weight[y]]
           wrong == {p \in SUBSET part :
                       TotalOf(Zeroed(p), set) # TotalOf(weight, set) - TotalOf(weight, p)}
<1>f. IsFiniteSet(part)
  BY FS_Subset
<1>n. ASSUME NEW p PROVE \A y \in set : Zeroed(p)[y] \in Nat
  OBVIOUS
<1>1. wrong = {}
  <2>1. SUFFICES ASSUME wrong # {} PROVE FALSE
    OBVIOUS
  <2>2. \A p \in wrong : IsFiniteSet(p) /\ p \in SUBSET part
    BY <1>f, FS_Subset
  <2>3. PICK p \in wrong : \A y \in p : p \ {y} \notin wrong
    <3> HIDE DEF wrong
    <3>1. QED
      BY <2>1, <2>2, SmallestSet
  <2>4. p # {}
    <3>1. SUFFICES ASSUME p = {} PROVE FALSE
      OBVIOUS
    <3>2. \A y \in set : Zeroed(p)[y] = weight[y]
      BY <3>1
    <3>3. TotalOf(Zeroed(p), set) # TotalOf(weight, set) - TotalOf(weight, p)
      BY <2>3
    <3> HIDE DEF Zeroed, wrong
    <3>4. PICK z : z = Zeroed(p)
      OBVIOUS
    <3>5. TotalOf(z, set) = TotalOf(weight, set)
      BY <3>2, <3>4, TotalSame
    <3>6. TotalOf(weight, set) \in Nat
      BY TotalNat
    <3>7. QED
      BY <3>1, <3>3, <3>4, <3>5, <3>6, TotalNone
  <2>5. PICK x \in p : TRUE
    BY <2>4
  <2>6. PICK a, b : a = Zeroed(p \ {x}) /\ b = Zeroed(p)
    OBVIOUS
  <2>7. x \in set /\ \A y \in set : a[y] \in Nat /\ b[y] \in Nat
    BY <2>2, <2>5, <2>6
  <2>8. (\A y \in set \ {x} : a[y] = b[y]) /\ b[x] = 0 /\ a[x] = weight[x]
    BY <2>5, <2>6, <2>7
  <2>9. TotalOf(b, set) = TotalOf(a, set) + (b[x] - a[x])
    <3> HIDE DEF wrong, Zeroed
    <3>1. Differ(set, x, a, b)
      BY <2>7, <2>8 DEF Differ
    <3>2. QED
      BY <3>1, TotalChanged
  <2>10. TotalOf(a, set) = TotalOf(weight, set) - TotalOf(weight, p \ {x})
    BY <2>2, <2>3, <2>5, <2>6
  <2>11. TotalOf(b, set) # TotalOf(weight, set) - TotalOf(weight, p)
    BY <2>3, <2>6
  <2> HIDE DEF wrong, Zeroed
  <2>12. IsFiniteSet(p) /\ IsFiniteSet(p \ {x}) /\ p \in SUBSET set
    BY <2>2, FS_RemoveElement
  <2>13. TotalOf(weight, p) = weight[x] + TotalOf(weight, p \ {x})
    BY <2>12, TotalAny
  <2>14. TotalOf(weight, p \ {x}) \in Nat /\ TotalOf(weight, set) \in Nat /\ weight[x] \in Nat
    BY <2>7, <2>12, TotalNat
  <2>15. QED
    BY <2>8, <2>9, <2>10, <2>11, <2>13, <2>14
<1>2. PICK z : z = Zeroed(part)
  OBVIOUS
<1>3. TotalOf(z, set) = TotalOf(weight, set) - TotalOf(weight, part)
  BY <1>1, <1>2
<1>4. \A y \in set : z[y] = other[y]
  BY <1>2
<1> HIDE DEF Zeroed, wrong
<1>5. TotalOf(z, set) = TotalOf(other, set)
  BY <1>4, TotalSame
<1>6. QED
  BY <1>3, <1>5
-----------------------------------------------------------------------------
(* The size of the records of a session. *)

LEMMA RequestFields ==
    \A r \in Requests : /\ r.id \in 1 .. MaxNcOperations /\ r.size \in Nat /\ r.size \in 1 .. 2
                        /\ r.origin \in Origins
<1>1. \A r \in Requests : r.id \in 1 .. MaxNcOperations /\ r.size \in 1 .. 2 /\ r.origin \in Origins
  BY DEF Requests
<1>2. \A n \in 1 .. 2 : n \in Nat
  OBVIOUS
<1>3. QED
  BY <1>1, <1>2

\* The weights that SizeOf sums up.
Sizes(records) == [i \in DOMAIN records |-> records[i].size]

LEMMA SizesOf ==
    ASSUME NEW records \in Seq(Requests)
    PROVE  /\ SizeOf(records) = TotalOf(Sizes(records), 1 .. Len(records))
           /\ IsFiniteSet(1 .. Len(records))
           /\ \A i \in 1 .. Len(records) : Sizes(records)[i] = records[i].size /\ Sizes(records)[i] \in Nat
<1>1. DOMAIN records = 1 .. Len(records) /\ Len(records) \in Nat
  OBVIOUS
<1>2. IsFiniteSet(1 .. Len(records))
  BY <1>1, FS_Interval
<1>3. ASSUME NEW i \in 1 .. Len(records) PROVE Sizes(records)[i] = records[i].size /\ records[i] \in Requests
  BY <1>1 DEF Sizes
<1>4. SizeOf(records) = TotalOf(Sizes(records), 1 .. Len(records))
  BY <1>1, Zenon DEF SizeOf, Sizes
<1>5. QED
  BY <1>2, <1>3, <1>4, RequestFields

LEMMA SizeNat == \A records \in Seq(Requests) : SizeOf(records) \in Nat
<1>1. ASSUME NEW records \in Seq(Requests) PROVE SizeOf(records) \in Nat
  <2>1. PICK weight, set : weight = Sizes(records) /\ set = 1 .. Len(records)
    OBVIOUS
  <2>2. IsFiniteSet(set) /\ (\A i \in set : weight[i] \in Nat) /\ SizeOf(records) = TotalOf(weight, set)
    BY <2>1, SizesOf
  <2>3. TotalOf(weight, set) \in Nat
    BY <2>2, TotalNat
  <2>4. QED
    BY <2>2, <2>3
<1>2. QED
  BY <1>1

LEMMA SizeNone == SizeOf(<<>>) = 0
<1>1. <<>> \in Seq(Requests) /\ 1 .. Len(<<>>) = {}
  OBVIOUS
<1>2. QED
  BY <1>1, SizesOf, TotalNone

LEMMA SizeAppend ==
    ASSUME NEW records \in Seq(Requests), NEW r \in Requests
    PROVE  SizeOf(Append(records, r)) = SizeOf(records) + r.size
<1>1. PICK longer : longer = Append(records, r)
  OBVIOUS
<1>2. PICK n : n = Len(records)
  OBVIOUS
<1>3. /\ longer \in Seq(Requests) /\ n \in Nat /\ Len(longer) = n + 1 /\ longer[n + 1] = r
      /\ \A i \in 1 .. n : longer[i] = records[i]
  BY <1>1, <1>2
<1>4. PICK a, b : a = Sizes(records) /\ b = Sizes(longer)
  OBVIOUS
<1>5. /\ SizeOf(records) = TotalOf(a, 1 .. n) /\ IsFiniteSet(1 .. n)
      /\ \A i \in 1 .. n : a[i] = records[i].size /\ a[i] \in Nat
  BY <1>2, <1>4, SizesOf
<1>6. /\ SizeOf(longer) = TotalOf(b, 1 .. n + 1) /\ IsFiniteSet(1 .. n + 1)
      /\ \A i \in 1 .. n + 1 : b[i] = longer[i].size /\ b[i] \in Nat
  BY <1>3, <1>4, SizesOf
<1>7. n + 1 \in 1 .. n + 1 /\ (1 .. n + 1) \ {n + 1} = 1 .. n
  BY <1>3
<1>8. TotalOf(b, 1 .. n + 1) = b[n + 1] + TotalOf(b, (1 .. n + 1) \ {n + 1})
  BY <1>6, <1>7, TotalAny
<1>9. TotalOf(a, 1 .. n) = TotalOf(b, 1 .. n)
  <2>1. \A i \in 1 .. n : a[i] = b[i]
    <3>1. \A i \in 1 .. n : i \in 1 .. n + 1
      BY <1>3
    <3>2. QED
      BY <1>3, <1>5, <1>6, <3>1
  <2>2. QED
    BY <1>5, <2>1, TotalSame
<1>10. TotalOf(a, 1 .. n) \in Nat /\ b[n + 1] = r.size /\ b[n + 1] \in Nat
  <2>1. TotalOf(a, 1 .. n) \in Nat
    BY <1>5, TotalNat
  <2>2. QED
    BY <1>3, <1>6, <1>7, <2>1
<1>11. SizeOf(longer) = b[n + 1] + SizeOf(records)
  BY <1>5, <1>6, <1>7, <1>8, <1>9, Zenon
<1>12. SizeOf(records) \in Nat /\ b[n + 1] = r.size /\ b[n + 1] \in Nat
  BY <1>5, <1>10
<1>13. QED
  BY <1>1, <1>11, <1>12

LEMMA SizeUpdate ==
    ASSUME NEW records \in Seq(Requests), NEW i \in DOMAIN records, NEW r \in Requests
    PROVE  SizeOf([records EXCEPT ![i] = r]) = SizeOf(records) + (r.size - records[i].size)
<1>1. PICK changed : changed = [records EXCEPT ![i] = r]
  OBVIOUS
<1>2. PICK n : n = Len(records)
  OBVIOUS
<1>3. /\ changed \in Seq(Requests) /\ n \in Nat /\ Len(changed) = n /\ changed[i] = r /\ i \in 1 .. n
      /\ \A j \in (1 .. n) \ {i} : changed[j] = records[j]
  BY <1>1, <1>2
<1>4. PICK a, b : a = Sizes(records) /\ b = Sizes(changed)
  OBVIOUS
<1>5. /\ SizeOf(records) = TotalOf(a, 1 .. n) /\ IsFiniteSet(1 .. n)
      /\ \A j \in 1 .. n : a[j] = records[j].size /\ a[j] \in Nat
  BY <1>2, <1>4, SizesOf
<1>6. /\ SizeOf(changed) = TotalOf(b, 1 .. n)
      /\ \A j \in 1 .. n : b[j] = changed[j].size /\ b[j] \in Nat
  BY <1>3, <1>4, SizesOf
<1>7. \A j \in (1 .. n) \ {i} : a[j] = b[j]
  BY <1>3, <1>5, <1>6
<1>8. TotalOf(b, 1 .. n) = TotalOf(a, 1 .. n) + (b[i] - a[i])
  <2>1. PICK set : set = 1 .. n
    OBVIOUS
  <2>2. Differ(set, i, a, b)
    BY <1>3, <1>5, <1>6, <1>7, <2>1 DEF Differ
  <2>3. TotalOf(b, set) = TotalOf(a, set) + (b[i] - a[i])
    BY <2>2, TotalChanged
  <2>4. QED
    BY <2>1, <2>3
<1>9. a[i] = records[i].size /\ b[i] = r.size
  BY <1>3, <1>5, <1>6
<1>10. QED
  BY <1>1, <1>5, <1>6, <1>8, <1>9

\* The oldest record is the first one.
LEMMA SizeTail ==
    ASSUME NEW records \in Seq(Requests), records # <<>>
    PROVE  SizeOf(records) = records[1].size + SizeOf(Tail(records))
<1> DEFINE wrong == {q \in Seq(Requests) :
                       q # <<>> /\ SizeOf(q) # q[1].size + SizeOf(Tail(q))}
           lengths == {Len(q) : q \in wrong}
<1>1. SUFFICES ASSUME wrong # {} PROVE FALSE
  OBVIOUS
<1>2. lengths \in SUBSET Nat /\ lengths # {}
  <2>1. \A q \in wrong : Len(q) \in Nat
    OBVIOUS
  <2> HIDE DEF wrong
  <2>2. QED
    BY <1>1, <2>1
<1>3. PICK n \in lengths : \A m \in lengths : n <= m
  <2> HIDE DEF lengths
  <2>1. QED
    BY <1>2, LeastNumber
<1>4. PICK q \in wrong : n = Len(q)
  BY <1>3
<1>5. q \in Seq(Requests) /\ q # <<>> /\ SizeOf(q) # q[1].size + SizeOf(Tail(q))
  BY <1>4
<1> DEFINE front == SubSeq(q, 1, Len(q) - 1)
           last == q[Len(q)]
<1>6. front \in Seq(Requests) /\ last \in Requests /\ q = Append(front, last) /\ Len(front) = Len(q) - 1
  <2>1. Len(q) \in 1 .. Len(q) /\ Len(q) \in Nat
    BY <1>5
  <2>2. last \in Requests
    BY <1>5, <2>1
  <2>3. front \in Seq(Requests) /\ Len(front) = Len(q) - 1 /\ \A i \in 1 .. Len(q) - 1 : front[i] = q[i]
    <3>1. PICK k : k = Len(q) - 1
      OBVIOUS
    <3>2. k \in Nat /\ \A i \in 1 .. k : q[i] \in Requests
      BY <1>5, <2>1, <3>1
    <3>3. /\ SubSeq(q, 1, k) \in Seq(Requests) /\ Len(SubSeq(q, 1, k)) = k
          /\ \A i \in 1 .. k : SubSeq(q, 1, k)[i] = q[i]
      BY <3>2
    <3>4. QED
      BY <3>1, <3>3
  <2>4. q = Append(front, last)
    BY <1>5, <2>1, <2>2, <2>3
  <2>5. QED
    BY <2>2, <2>3, <2>4
<1>7. SizeOf(q) = SizeOf(front) + last.size
  <2> HIDE DEF front, last
  <2>1. QED
    BY <1>6, SizeAppend
<1>8. CASE front = <<>>
  <2>1. q[1] = last /\ Tail(q) = <<>>
    BY <1>5, <1>6, <1>8
  <2> HIDE DEF front, last, wrong, lengths
  <2>3. last.size \in Nat
    BY <1>6, RequestFields
  <2>2. SizeOf(q) = last.size
    BY <1>7, <1>8, <2>3, SizeNone
  <2>5. SizeOf(Tail(q)) = 0 /\ q[1].size = last.size
    BY <2>1, SizeNone
  <2>4. QED
    BY <1>5, <2>2, <2>3, <2>5
<1>9. CASE front # <<>>
  <2>1. front \notin wrong
    <3>1. Len(front) < Len(q) /\ Len(q) \in Nat
      BY <1>5, <1>6
    <3>2. front \in wrong => Len(front) \in lengths
      OBVIOUS
    <3> HIDE DEF front, wrong, lengths
    <3>3. QED
      BY <1>3, <1>4, <3>1, <3>2
  <2>2. SizeOf(front) = front[1].size + SizeOf(Tail(front))
    BY <1>6, <1>9, <2>1
  <2> HIDE DEF front, last, wrong, lengths
  <2>3. front[1] = q[1] /\ Tail(q) = Append(Tail(front), last) /\ Tail(front) \in Seq(Requests)
    BY <1>5, <1>6, <1>9
  <2>4. SizeOf(Tail(q)) = SizeOf(Tail(front)) + last.size
    BY <1>6, <2>3, SizeAppend
  <2>5. SizeOf(Tail(front)) \in Nat /\ last.size \in Nat /\ q[1].size \in Nat
    <3>1. q[1] \in Requests
      BY <1>5
    <3>2. QED
      BY <1>6, <2>3, <3>1, SizeNat, RequestFields
  <2>6. QED
    BY <1>5, <1>7, <2>2, <2>3, <2>4, <2>5
<1>10. QED
  BY <1>8, <1>9
-----------------------------------------------------------------------------
(* What removing the oldest records leaves. *)

LEMMA SessionFields ==
    ASSUME NEW session \in CaptureSessions
    PROVE  /\ session.id \in 1 .. MaxNcOperations /\ session.document \in Documents
           /\ session.records \in Seq(Requests) /\ session.bytes \in Nat
           /\ session.persistence \in {"pending", "persisted", "degraded"}
           /\ session.newer \in BOOLEAN
  BY DEF CaptureSessions

LEMMA SequenceRest ==
    ASSUME NEW records \in Seq(Requests), NEW n \in 0 .. Len(records),
           NEW rest, rest = SubSeq(records, n + 1, Len(records))
    PROVE  /\ rest \in Seq(Requests) /\ Len(rest) = Len(records) - n
           /\ \A i \in 1 .. Len(rest) : n + i \in 1 .. Len(records) /\ rest[i] = records[n + i]
<1>1. PICK a, b : a = n + 1 /\ b = Len(records)
  OBVIOUS
<1>2. a \in Int /\ b \in Int /\ n \in Nat /\ b \in Nat /\ n <= b
  BY <1>1
<1>3. \A i \in a .. b : records[i] \in Requests
  BY <1>1
<1>4. /\ SubSeq(records, a, b) \in Seq(Requests)
      /\ Len(SubSeq(records, a, b)) = IF a <= b THEN b - a + 1 ELSE 0
      /\ \A i \in 1 .. b - a + 1 : SubSeq(records, a, b)[i] = records[a + i - 1]
  BY <1>2, <1>3, SubSeqProperties
<1>5. rest = SubSeq(records, a, b)
  BY <1>1
<1>6. Len(rest) = b - n /\ b - a + 1 = b - n
  BY <1>1, <1>2, <1>4, <1>5
<1>7. ASSUME NEW i \in 1 .. Len(rest) PROVE n + i \in 1 .. Len(records) /\ rest[i] = records[n + i]
  <2>1. i \in 1 .. b - a + 1 /\ a + i - 1 = n + i
    BY <1>1, <1>2, <1>6
  <2>2. rest[i] = records[n + i]
    BY <1>4, <1>5, <2>1
  <2>3. QED
    BY <1>1, <1>2, <1>6, <2>2
<1>8. QED
  BY <1>1, <1>4, <1>5, <1>6, <1>7

LEMMA RestOf ==
    ASSUME NEW session, session.records \in Seq(Requests), NEW n \in 0 .. Len(session.records)
    PROVE  /\ Rest(session, n) \in Seq(Requests) /\ Len(Rest(session, n)) = Len(session.records) - n
           /\ \A i \in 1 .. Len(Rest(session, n)) :
                /\ n + i \in 1 .. Len(session.records)
                /\ Rest(session, n)[i] = session.records[n + i]
  BY SequenceRest DEF Rest

LEMMA RestNext ==
    ASSUME NEW session, session.records \in Seq(Requests), NEW n \in 0 .. Len(session.records),
           n # Len(session.records)
    PROVE  /\ n + 1 \in 0 .. Len(session.records)
           /\ SizeOf(Rest(session, n + 1)) <= SizeOf(Rest(session, n))
<1>1. PICK a, b : a = Rest(session, n) /\ b = Rest(session, n + 1)
  OBVIOUS
<1>2. n + 1 \in 0 .. Len(session.records) /\ Len(session.records) \in Nat /\ n \in Nat
  OBVIOUS
<1>3. /\ a \in Seq(Requests) /\ Len(a) = Len(session.records) - n
      /\ \A i \in 1 .. Len(a) : n + i \in 1 .. Len(session.records) /\ a[i] = session.records[n + i]
  BY <1>1, RestOf
<1>4. /\ b \in Seq(Requests) /\ Len(b) = Len(session.records) - (n + 1)
      /\ \A i \in 1 .. Len(b) :
           (n + 1) + i \in 1 .. Len(session.records) /\ b[i] = session.records[(n + 1) + i]
  BY <1>1, <1>2, RestOf
<1>5. a # <<>> /\ Tail(a) \in Seq(Requests) /\ Len(Tail(a)) = Len(a) - 1 /\ a[1] \in Requests
      /\ \A i \in 1 .. Len(Tail(a)) : Tail(a)[i] = a[i + 1]
  BY <1>2, <1>3
<1>6. Len(Tail(a)) = Len(b) /\ \A i \in 1 .. Len(b) : Tail(a)[i] = b[i]
  <2>1. Len(Tail(a)) = Len(b)
    BY <1>2, <1>3, <1>4, <1>5
  <2>2. ASSUME NEW i \in 1 .. Len(b) PROVE Tail(a)[i] = b[i]
    <3>1. i + 1 \in 1 .. Len(a) /\ n + (i + 1) = (n + 1) + i
      BY <1>2, <1>3, <1>4
    <3>2. Tail(a)[i] = a[i + 1] /\ a[i + 1] = session.records[n + (i + 1)]
      BY <1>3, <1>5, <2>1, <3>1
    <3>3. QED
      BY <1>4, <3>1, <3>2
  <2>3. QED
    BY <2>1, <2>2
<1>7. Tail(a) = b
  BY <1>4, <1>5, <1>6, SeqEqual
<1>8. SizeOf(a) = a[1].size + SizeOf(b)
  BY <1>3, <1>5, <1>7, SizeTail
<1>9. SizeOf(b) \in Nat /\ a[1].size \in Nat /\ SizeOf(a) \in Nat
  BY <1>3, <1>4, <1>5, SizeNat, RequestFields
<1>10. SizeOf(b) <= SizeOf(a)
  BY <1>8, <1>9
<1>11. QED
  BY <1>1, <1>2, <1>10

\* The more records are removed, the less is left.
LEMMA RestShrinks ==
    ASSUME NEW session, session.records \in Seq(Requests), NEW n \in 0 .. Len(session.records),
           NEW m \in 0 .. Len(session.records), n <= m
    PROVE  SizeOf(Rest(session, m)) <= SizeOf(Rest(session, n))
<1> DEFINE wrong == {k \in 0 .. Len(session.records) :
                       n <= k /\ ~(SizeOf(Rest(session, k)) <= SizeOf(Rest(session, n)))}
<1>1. SUFFICES ASSUME wrong # {} PROVE FALSE
  OBVIOUS
<1>2. wrong \in SUBSET Nat
  OBVIOUS
<1>3. PICK k \in wrong : \A l \in wrong : k <= l
  <2> HIDE DEF wrong
  <2>1. QED
    BY <1>1, <1>2, LeastNumber
<1>4. \A l \in 0 .. Len(session.records) : SizeOf(Rest(session, l)) \in Nat
  BY RestOf, SizeNat
<1>5. k # n /\ k \in 0 .. Len(session.records) /\ n <= k
  BY <1>3, <1>4
<1>6. PICK l : l = k - 1
  OBVIOUS
<1>7. l \in 0 .. Len(session.records) /\ n <= l /\ l # Len(session.records) /\ l + 1 = k /\ ~(k <= l)
  BY <1>5, <1>6
<1>8. SizeOf(Rest(session, k)) <= SizeOf(Rest(session, l))
  BY <1>7, RestNext
<1>9. SizeOf(Rest(session, l)) <= SizeOf(Rest(session, n))
  BY <1>3, <1>7
<1>10. ~(SizeOf(Rest(session, k)) <= SizeOf(Rest(session, n)))
  BY <1>3
<1> HIDE DEF wrong
<1>11. QED
  BY <1>4, <1>5, <1>7, <1>8, <1>9, <1>10

-----------------------------------------------------------------------------
(* The budgets of one session. *)

\* A session whose bytes are those of its records.
Weighed(session) == session \in CaptureSessions /\ session.bytes = SizeOf(session.records)

\* Its own budgets.
Kept(session) == session.bytes <= MaxBytes /\ Len(session.records) <= MaxEntries

\* What it does not lose with its oldest records.
SameSession(session, other) ==
    /\ session.id = other.id /\ session.document = other.document
    /\ session.persistence = other.persistence /\ session.newer = other.newer

\* Only the records that followed some number of removed ones are left, and their bytes.
Later(session, other) ==
    /\ Weighed(session) /\ SameSession(session, other)
    /\ \E n \in 0 .. Len(other.records) : session.records = Rest(other, n)

LEMMA RestWhole ==
    ASSUME NEW session, session.records \in Seq(Requests)
    PROVE  Rest(session, 0) = session.records /\ Rest(session, Len(session.records)) = <<>>
<1>1. Len(session.records) \in Nat
  OBVIOUS
<1>2. 0 \in 0 .. Len(session.records) /\ Len(session.records) \in 0 .. Len(session.records)
  BY <1>1
<1>3. PICK a, b : a = Rest(session, 0) /\ b = Rest(session, Len(session.records))
  OBVIOUS
<1>4. /\ a \in Seq(Requests) /\ Len(a) = Len(session.records) - 0
      /\ \A i \in 1 .. Len(a) : a[i] = session.records[0 + i]
  BY <1>2, <1>3, RestOf
<1>5. b \in Seq(Requests) /\ Len(b) = Len(session.records) - Len(session.records)
  BY <1>2, <1>3, RestOf
<1>6. Len(a) = Len(session.records) /\ \A i \in 1 .. Len(a) : a[i] = session.records[i]
  BY <1>1, <1>4
<1>7. a = session.records
  BY <1>4, <1>6, SeqEqual
<1>8. b = <<>>
  BY <1>1, <1>5
<1>9. QED
  BY <1>3, <1>7, <1>8

LEMMA ShortenedSession ==
    ASSUME NEW session, Weighed(session), NEW n \in 0 .. Len(session.records)
    PROVE  /\ Later(Shortened(session, n), session)
           /\ Shortened(session, n).records = Rest(session, n)
           /\ Shortened(session, n).bytes = SizeOf(Rest(session, n))
<1>1. PICK rest, left : rest = Rest(session, n) /\ left = session.bytes - (SizeOf(session.records) - SizeOf(rest))
  OBVIOUS
<1>2. session \in CaptureSessions /\ session.records \in Seq(Requests) /\ session.bytes = SizeOf(session.records)
  BY SessionFields DEF Weighed
<1>3. rest \in Seq(Requests)
  BY <1>1, <1>2, RestOf
<1>4. SizeOf(rest) \in Nat /\ SizeOf(session.records) \in Nat
  BY <1>2, <1>3, SizeNat
<1>5. left = SizeOf(rest) /\ left \in Nat
  BY <1>1, <1>2, <1>4
<1>6. PICK new : new = [session EXCEPT !.records = rest, !.bytes = left]
  OBVIOUS
<1>7. new = Shortened(session, n)
  BY <1>1, <1>6 DEF Shortened
<1>8. new \in CaptureSessions /\ new.records = rest /\ new.bytes = left /\ SameSession(new, session)
  BY <1>2, <1>3, <1>5, <1>6 DEF CaptureSessions, SameSession
<1>9. Weighed(new)
  BY <1>5, <1>8 DEF Weighed
<1>10. QED
  BY <1>1, <1>5, <1>7, <1>8, <1>9 DEF Later

LEMMA ExcessOf ==
    ASSUME NEW session, Weighed(session)
    PROVE  /\ Excess(session) \in 0 .. Len(session.records)
           /\ Len(session.records) - Excess(session) <= MaxEntries
           /\ SizeOf(Rest(session, Excess(session))) <= MaxBytes
<1>1. session.records \in Seq(Requests) /\ session.bytes = SizeOf(session.records)
  BY SessionFields DEF Weighed
<1> DEFINE Fits(n) == /\ Len(session.records) - n <= MaxEntries
                      /\ session.bytes - (SizeOf(session.records) - SizeOf(Rest(session, n))) <= MaxBytes
<1>2. \A n \in 0 .. Len(session.records) :
        session.bytes - (SizeOf(session.records) - SizeOf(Rest(session, n))) = SizeOf(Rest(session, n))
  <2>1. ASSUME NEW n \in 0 .. Len(session.records)
        PROVE  session.bytes - (SizeOf(session.records) - SizeOf(Rest(session, n))) = SizeOf(Rest(session, n))
    <3>1. SizeOf(Rest(session, n)) \in Nat /\ SizeOf(session.records) \in Nat
      BY <1>1, RestOf, SizeNat
    <3>2. QED
      BY <1>1, <3>1
  <2>2. QED
    BY <2>1
<1>3. Len(session.records) \in Nat /\ Len(session.records) \in 0 .. Len(session.records)
  BY <1>1
<1>4. Fits(Len(session.records))
  <2>1. MaxEntries \in Nat /\ MaxBytes \in Nat
    BY NetworkCaptureConstants
  <2>2. SizeOf(Rest(session, Len(session.records))) = 0
    BY <1>1, RestWhole, SizeNone
  <2>3. QED
    BY <1>2, <1>3, <2>1, <2>2
<1> DEFINE fitting == {n \in 0 .. Len(session.records) : Fits(n)}
<1>5. fitting \in SUBSET Nat /\ fitting # {}
  BY <1>3, <1>4
<1>6. PICK n \in fitting : \A m \in fitting : n <= m
  <2> HIDE DEF fitting
  <2>1. QED
    BY <1>5, LeastNumber
<1>7. n \in 0 .. Len(session.records) /\ Fits(n) /\ \A less \in 0 .. n - 1 : ~Fits(less)
  <2>1. n \in 0 .. Len(session.records) /\ Fits(n)
    BY <1>6
  <2>2. ASSUME NEW less \in 0 .. n - 1, Fits(less) PROVE FALSE
    <3>1. less \in 0 .. Len(session.records) /\ ~(n <= less)
      BY <1>3, <2>1
    <3>2. less \in fitting
      BY <2>2, <3>1
    <3>3. QED
      BY <1>6, <3>1, <3>2
  <2>3. QED
    BY <2>1, <2>2
<1>8. Excess(session) = CHOOSE k \in 0 .. Len(session.records) :
                          Fits(k) /\ \A less \in 0 .. k - 1 : ~Fits(less)
  BY Zenon DEF Excess, LeastThat
<1> HIDE DEF Fits
<1>9. Excess(session) \in 0 .. Len(session.records) /\ Fits(Excess(session))
  BY <1>7, <1>8, Zenon
<1> USE DEF Fits
<1>10. QED
  BY <1>2, <1>9
-----------------------------------------------------------------------------
(* The budgets of all sessions. *)

LEMMA MaxOfTwo ==
    \A a, b \in Nat : /\ Max({a, b}) \in {a, b}
                      /\ a <= Max({a, b}) /\ b <= Max({a, b})
<1>1. ASSUME NEW a \in Nat, NEW b \in Nat
      PROVE  Max({a, b}) \in {a, b} /\ a <= Max({a, b}) /\ b <= Max({a, b})
  <2>1. \E x \in {a, b} : \A y \in {a, b} : x >= y
    <3>1. CASE a <= b
      BY <3>1
    <3>2. CASE ~(a <= b)
      BY <3>2
    <3>3. QED
      BY <3>1, <3>2
  <2>2. PICK m : m = Max({a, b})
    OBVIOUS
  <2>3. m \in {a, b} /\ \A y \in {a, b} : m >= y
    BY <2>1, <2>2, Zenon DEF Max
  <2>4. QED
    BY <2>2, <2>3
<1>2. QED
  BY <1>1

LEMMA UpToOf ==
    ASSUME NEW session, session.records \in Seq(Requests), NEW id
    PROVE  /\ UpTo(session, id) \in 0 .. Len(session.records)
           /\ id = MaxNcOperations => UpTo(session, id) = Len(session.records)
<1>1. DOMAIN session.records = 1 .. Len(session.records) /\ Len(session.records) \in Nat
  OBVIOUS
<1>2. PICK old : old = {i \in DOMAIN session.records : session.records[i].id <= id}
  OBVIOUS
<1>3. old \in SUBSET (1 .. Len(session.records))
  BY <1>1, <1>2
<1>4. /\ IsFiniteSet(1 .. Len(session.records))
      /\ Cardinality(1 .. Len(session.records)) = Len(session.records)
  BY <1>1, FS_Interval
<1>5. IsFiniteSet(old) /\ Cardinality(old) <= Len(session.records) /\ Cardinality(old) \in Nat
  BY <1>3, <1>4, FS_Subset, FS_CardinalityType
<1>6. UpTo(session, id) = Cardinality(old)
  BY <1>2 DEF UpTo
<1>7. ASSUME id = MaxNcOperations PROVE old = 1 .. Len(session.records)
  <2>1. ASSUME NEW i \in 1 .. Len(session.records) PROVE session.records[i].id <= id
    <3>1. session.records[i] \in Requests
      OBVIOUS
    <3>2. session.records[i].id \in 1 .. MaxNcOperations /\ MaxNcOperations \in Nat
      BY <3>1, RequestFields, NetworkCaptureConstants
    <3>3. QED
      BY <1>7, <3>2
  <2>2. QED
    BY <1>1, <1>2, <2>1
<1>8. QED
  BY <1>1, <1>4, <1>5, <1>6, <1>7

Sessions == [Tabs -> CaptureSessions \cup {NoSession}]

AllWeighed(sessions) ==
    sessions \in Sessions /\ \A tab \in Tabs : sessions[tab] # NoSession => Weighed(sessions[tab])

\* Sessions that lost at most their oldest records, and keep to their own budgets.
Leaner(after, before) ==
    /\ after \in Sessions
    /\ \A tab \in Tabs : before[tab] = NoSession => after[tab] = NoSession
    /\ \A tab \in Tabs : before[tab] # NoSession =>
         after[tab] # NoSession /\ Later(after[tab], before[tab]) /\ Kept(after[tab])

LEMMA NoSessionNone == NoSession \notin CaptureSessions /\ NoSession \notin StoredSessions /\ NoSession \notin Documents
  BY NetworkCaptureNone

LEMMA TrimmedSession ==
    ASSUME NEW session, Weighed(session), NEW id, NEW n, n = Max({Excess(session), UpTo(session, id)})
    PROVE  /\ Later(Shortened(session, n), session) /\ Kept(Shortened(session, n))
           /\ Shortened(session, n) # NoSession /\ Shortened(session, n) \in CaptureSessions
           /\ id = MaxNcOperations =>
                Shortened(session, n).records = <<>> /\ Shortened(session, n).bytes = 0
<1>1. session.records \in Seq(Requests) /\ session.bytes = SizeOf(session.records)
  BY SessionFields DEF Weighed
<1>2. PICK a, b, len : a = Excess(session) /\ b = UpTo(session, id) /\ len = Len(session.records)
  OBVIOUS
<1>3. a \in 0 .. len /\ len - a <= MaxEntries /\ SizeOf(Rest(session, a)) <= MaxBytes
  BY <1>2, ExcessOf
<1>4. b \in 0 .. len /\ (id = MaxNcOperations => b = len)
  BY <1>1, <1>2, UpToOf
<1>5. len \in Nat
  BY <1>1, <1>2
<1>6. n \in {a, b} /\ a <= n /\ b <= n
  <2>1. a \in Nat /\ b \in Nat /\ n = Max({a, b})
    BY <1>2, <1>3, <1>4, <1>5
  <2>2. QED
    BY <2>1, MaxOfTwo
<1>7. n \in 0 .. len /\ len - n <= MaxEntries /\ (id = MaxNcOperations => n = len)
  <2>1. MaxEntries \in Nat
    BY NetworkCaptureConstants
  <2>2. QED
    BY <1>3, <1>4, <1>5, <1>6, <2>1
<1>8. PICK new : new = Shortened(session, n)
  OBVIOUS
<1>9. Later(new, session) /\ new.records = Rest(session, n) /\ new.bytes = SizeOf(Rest(session, n))
  BY <1>2, <1>7, <1>8, ShortenedSession
<1>10. Len(new.records) = len - n
  BY <1>1, <1>2, <1>7, <1>9, RestOf
<1>11. SizeOf(Rest(session, n)) <= SizeOf(Rest(session, a))
  BY <1>1, <1>2, <1>3, <1>6, <1>7, RestShrinks
<1>12. SizeOf(Rest(session, n)) \in Nat /\ SizeOf(Rest(session, a)) \in Nat /\ MaxBytes \in Nat
  BY <1>1, <1>2, <1>3, <1>7, RestOf, SizeNat, NetworkCaptureConstants
<1>13. Kept(new)
  BY <1>3, <1>7, <1>9, <1>10, <1>11, <1>12 DEF Kept
<1>14. id = MaxNcOperations => new.records = <<>> /\ new.bytes = 0
  BY <1>1, <1>2, <1>7, <1>9, RestWhole, SizeNone
<1>15. new \in CaptureSessions
  BY <1>9 DEF Later, Weighed
<1>16. QED
  BY <1>8, <1>9, <1>13, <1>14, <1>15, NoSessionNone

LEMMA TrimmedLeaner ==
    ASSUME NEW sessions, AllWeighed(sessions), NEW id
    PROVE  /\ Leaner(Trimmed(sessions, id), sessions)
           /\ id = MaxNcOperations =>
                \A tab \in Tabs : Trimmed(sessions, id)[tab] # NoSession =>
                  /\ Trimmed(sessions, id)[tab].records = <<>>
                  /\ Trimmed(sessions, id)[tab].bytes = 0
<1>1. PICK after : after = Trimmed(sessions, id)
  OBVIOUS
<1> DEFINE N(tab) == Max({Excess(sessions[tab]), UpTo(sessions[tab], id)})
<1>2. after = [tab \in Tabs |-> IF sessions[tab] = NoSession THEN NoSession
                                ELSE Shortened(sessions[tab], N(tab))]
  BY <1>1, Zenon DEF Trimmed
<1> HIDE DEF N
<1>3. ASSUME NEW tab \in Tabs, sessions[tab] = NoSession PROVE after[tab] = NoSession
  BY <1>2, <1>3
<1>4. ASSUME NEW tab \in Tabs, sessions[tab] # NoSession
      PROVE  /\ after[tab] # NoSession /\ Later(after[tab], sessions[tab]) /\ Kept(after[tab])
             /\ after[tab] \in CaptureSessions
             /\ id = MaxNcOperations => after[tab].records = <<>> /\ after[tab].bytes = 0
  <2>1. after[tab] = Shortened(sessions[tab], N(tab))
    BY <1>2, <1>4
  <2>2. Weighed(sessions[tab])
    BY <1>4 DEF AllWeighed
  <2>3. N(tab) = Max({Excess(sessions[tab]), UpTo(sessions[tab], id)})
    BY DEF N
  <2>4. QED
    BY <2>1, <2>2, <2>3, TrimmedSession
<1>5. after \in Sessions
  <2>1. \A tab \in Tabs : after[tab] \in CaptureSessions \cup {NoSession}
    BY <1>3, <1>4
  <2>2. QED
    BY <1>2, <2>1 DEF Sessions
<1>6. Leaner(after, sessions)
  BY <1>3, <1>4, <1>5, Zenon DEF Leaner
<1>7. id = MaxNcOperations =>
        \A tab \in Tabs : after[tab] # NoSession => after[tab].records = <<>> /\ after[tab].bytes = 0
  BY <1>3, <1>4
<1>8. QED
  BY <1>1, <1>6, <1>7

\* The weights of the two totals.
EntriesOf(sessions) == [tab \in Tabs |-> Entries(sessions[tab])]
BytesOf(sessions) == [tab \in Tabs |-> Bytes(sessions[tab])]

LEMMA TotalsOf ==
    ASSUME NEW sessions \in Sessions
    PROVE  /\ \A tabs : EntriesIn(sessions, tabs) = TotalOf(EntriesOf(sessions), tabs)
           /\ \A tabs : BytesIn(sessions, tabs) = TotalOf(BytesOf(sessions), tabs)
           /\ \A tab \in Tabs : /\ EntriesOf(sessions)[tab] = Entries(sessions[tab])
                                /\ BytesOf(sessions)[tab] = Bytes(sessions[tab])
                                /\ Entries(sessions[tab]) \in Nat /\ Bytes(sessions[tab]) \in Nat
<1>1. \A tabs : EntriesIn(sessions, tabs) = TotalOf(EntriesOf(sessions), tabs)
  BY Zenon DEF EntriesIn, EntriesOf
<1>2. \A tabs : BytesIn(sessions, tabs) = TotalOf(BytesOf(sessions), tabs)
  BY Zenon DEF BytesIn, BytesOf
<1>3. ASSUME NEW tab \in Tabs
      PROVE  /\ EntriesOf(sessions)[tab] = Entries(sessions[tab])
             /\ BytesOf(sessions)[tab] = Bytes(sessions[tab])
             /\ Entries(sessions[tab]) \in Nat /\ Bytes(sessions[tab]) \in Nat
  <2>1. EntriesOf(sessions)[tab] = Entries(sessions[tab]) /\ BytesOf(sessions)[tab] = Bytes(sessions[tab])
    BY DEF EntriesOf, BytesOf
  <2>2. sessions[tab] \in CaptureSessions \/ sessions[tab] = NoSession
    BY DEF Sessions
  <2>3. CASE sessions[tab] = NoSession
    BY <2>1, <2>3 DEF Entries, Bytes
  <2>4. CASE sessions[tab] \in CaptureSessions
    <3>1. sessions[tab].records \in Seq(Requests) /\ sessions[tab].bytes \in Nat
      BY <2>4, SessionFields
    <3>2. Len(sessions[tab].records) \in Nat
      BY <3>1
    <3>3. QED
      BY <2>1, <3>1, <3>2 DEF Entries, Bytes
  <2>5. QED
    BY <2>2, <2>3, <2>4
<1>4. QED
  BY <1>1, <1>2, <1>3

LEMMA WithinBudgetsKept ==
    ASSUME NEW sessions, AllWeighed(sessions), NEW after, after = WithinBudgets(sessions)
    PROVE  /\ Leaner(after, sessions)
           /\ EntriesIn(after, Tabs) <= MaxAllEntries /\ BytesIn(after, Tabs) <= MaxAllBytes
<1> DEFINE Fits(id) == /\ EntriesIn(Trimmed(sessions, id), Tabs) <= MaxAllEntries
                       /\ BytesIn(Trimmed(sessions, id), Tabs) <= MaxAllBytes
           fitting == {id \in 0 .. MaxNcOperations : Fits(id)}
<1>1. MaxNcOperations \in Nat /\ MaxNcOperations \in 0 .. MaxNcOperations /\ IsFiniteSet(Tabs)
      /\ MaxAllEntries \in Nat /\ MaxAllBytes \in Nat
  BY NetworkCaptureConstants
<1>2. Fits(MaxNcOperations)
  <2>1. PICK empty : empty = Trimmed(sessions, MaxNcOperations)
    OBVIOUS
  <2>2. Leaner(empty, sessions) /\ \A tab \in Tabs : empty[tab] # NoSession => empty[tab].records = <<>> /\ empty[tab].bytes = 0
    BY <2>1, TrimmedLeaner
  <2>3. empty \in Sessions
    BY <2>2 DEF Leaner
  <2>4. \A tab \in Tabs : EntriesOf(empty)[tab] = 0 /\ BytesOf(empty)[tab] = 0
    <3>1. Len(<<>>) = 0
      OBVIOUS
    <3>2. \A tab \in Tabs : Entries(empty[tab]) = 0 /\ Bytes(empty[tab]) = 0
      BY <2>2, <3>1 DEF Entries, Bytes
    <3>3. QED
      BY <2>3, <3>2, TotalsOf
  <2>5. TotalOf(EntriesOf(empty), Tabs) = 0 /\ TotalOf(BytesOf(empty), Tabs) = 0
    BY <1>1, <2>4, TotalZero
  <2>6. EntriesIn(empty, Tabs) = 0 /\ BytesIn(empty, Tabs) = 0
    BY <2>3, <2>5, TotalsOf
  <2>7. QED
    BY <1>1, <2>1, <2>6
<1>3. fitting \in SUBSET Nat /\ fitting # {}
  BY <1>1, <1>2
<1>4. PICK n \in fitting : \A m \in fitting : n <= m
  <2> HIDE DEF fitting
  <2>1. QED
    BY <1>3, LeastNumber
<1>5. n \in 0 .. MaxNcOperations /\ Fits(n) /\ \A less \in 0 .. n - 1 : ~Fits(less)
  <2>1. n \in 0 .. MaxNcOperations /\ Fits(n)
    BY <1>4
  <2>2. ASSUME NEW less \in 0 .. n - 1, Fits(less) PROVE FALSE
    <3>1. less \in 0 .. MaxNcOperations /\ ~(n <= less)
      BY <1>1, <2>1
    <3>2. less \in fitting
      BY <2>2, <3>1
    <3> HIDE DEF fitting
    <3>3. QED
      BY <1>4, <3>1, <3>2
  <2> HIDE DEF Fits
  <2>3. QED
    BY <2>1, <2>2
<1> DEFINE least == CHOOSE k \in 0 .. MaxNcOperations : Fits(k) /\ \A less \in 0 .. k - 1 : ~Fits(less)
<1>6. after = Trimmed(sessions, least)
  BY Zenon DEF WithinBudgets, LeastThat
<1>7. Fits(least)
  <2> HIDE DEF Fits
  <2>1. QED
    BY <1>5, Zenon
<1>8. Leaner(Trimmed(sessions, least), sessions)
  <2> HIDE DEF least
  <2>1. QED
    BY TrimmedLeaner
<1>9. Fits(least) => EntriesIn(after, Tabs) <= MaxAllEntries /\ BytesIn(after, Tabs) <= MaxAllBytes
  <2> HIDE DEF least
  <2>1. QED
    BY <1>6
<1> HIDE DEF least, Fits
<1>10. QED
  BY <1>6, <1>7, <1>8, <1>9
-----------------------------------------------------------------------------
(* The invariant. *)

\* A session keeps to its own budgets, and records only requests of its own origin.
Proper(session) ==
    /\ Weighed(session) /\ Kept(session) /\ session.document.origin = "own"
    /\ \A i \in DOMAIN session.records : session.records[i].origin = "own"

\* So do all sessions, which keep to the budgets of all, and have ids that were given.
GoodSessions(sessions, last) ==
    /\ sessions \in Sessions
    /\ \A tab \in Tabs : sessions[tab] # NoSession => Proper(sessions[tab]) /\ sessions[tab].id <= last
    /\ EntriesIn(sessions, Tabs) <= MaxAllEntries /\ BytesIn(sessions, Tabs) <= MaxAllBytes
    /\ Cardinality(Capturing(sessions)) <= MaxSessions

\* What is kept, being written and stored; and the totals.
Accounts ==
    /\ GoodSessions(ncSession, ncOperations)
    /\ GoodSessions(Restored(ncStored), ncOperations) /\ GoodSessions(Restored(ncWrite), ncOperations)
    /\ ncCount = EntriesIn(ncSession, Tabs) /\ ncBytes = BytesIn(ncSession, Tabs)

\* A snapshot has a session as it is.
Holds(snapshot, session) ==
    snapshot # NoSession /\ snapshot.document = session.document /\ snapshot.records = session.records

\* What a session may be credited with.
Creditable(session, stored, written, writing) ==
    /\ session.persistence = "persisted" => ~session.newer /\ Holds(stored, session)
    /\ writing /\ ~session.newer => Holds(written, session)

Credits ==
    /\ \A tab \in Tabs : ncSession[tab] # NoSession =>
         Creditable(ncSession[tab], ncStored[tab], ncWrite[tab], ncWriting)
    /\ ncLife # "on" => ~ncWriting

\* Of the navigations from the first one on, one of the tab to the document that it shows is
\* still to be handled; and it was read with the session of this id.
ToldAny(commits, document, tab, first) ==
    \E j \in DOMAIN commits :
        first <= j /\ commits[j].tab = tab /\ commits[j].document = document[tab]

Told(commits, document, tab, id, first) ==
    \E j \in DOMAIN commits : /\ first <= j /\ commits[j].tab = tab
                              /\ commits[j].document = document[tab] /\ commits[j].session = id

\* A session that is not bound to the document of its tab is about to be told of it, and after
\* each navigation that it will follow, another one takes it to that document.
Follower(commits, document, tab, session, raced) ==
    /\ tab \notin raced =>
         session.document = document[tab] \/ Told(commits, document, tab, session.id, 1)
    /\ \A i \in DOMAIN commits :
         commits[i].tab = tab /\ commits[i].session = session.id =>
           Told(commits, document, tab, session.id, i)

Waits(commits, document, tab, session) ==
    session.document = document[tab] \/ ToldAny(commits, document, tab, 1)

Bound ==
    /\ ncLife = "on" =>
         \A tab \in Tabs : ncSession[tab] # NoSession =>
           Follower(ncCommits, ncDocument, tab, ncSession[tab], ncRaced)
    /\ ncLife = "replaying" =>
         \A tab \in Tabs \ ncRaced : ncSession[tab] # NoSession =>
           Waits(ncCommits, ncDocument, tab, ncSession[tab])
    /\ ncLife \in {"off", "restoring"} =>
         \A tab \in Tabs \ ncRaced : ncStored[tab] # NoSession =>
           Waits(ncCommits, ncDocument, tab, ncStored[tab])
    /\ ncLife = "off" => ncCommits = <<>>

Current ==
    /\ \A tab \in Tabs : ncDocument[tab].number <= ncEvents + 1
    /\ \A i \in DOMAIN ncCommits : /\ ToldAny(ncCommits, ncDocument, ncCommits[i].tab, i)
                                   /\ ncCommits[i].session <= ncOperations
    /\ \A tab \in Tabs : ncStart[tab] # NoSession =>
         ncStart[tab].origin = "own" /\ (tab \notin ncRaced => ncStart[tab] = ncDocument[tab])

CaptureInvariant == NcTypeOK /\ Accounts /\ Credits /\ Bound /\ Current
-----------------------------------------------------------------------------
(* The totals of sessions that change. *)

LEMMA TabsFinite == IsFiniteSet(Tabs)
  BY NetworkCaptureConstants

LEMMA TotalsSame ==
    ASSUME NEW a \in Sessions, NEW b \in Sessions,
           \A tab \in Tabs : Entries(a[tab]) = Entries(b[tab]) /\ Bytes(a[tab]) = Bytes(b[tab])
    PROVE  EntriesIn(a, Tabs) = EntriesIn(b, Tabs) /\ BytesIn(a, Tabs) = BytesIn(b, Tabs)
<1>1. \A tab \in Tabs : EntriesOf(a)[tab] = EntriesOf(b)[tab] /\ BytesOf(a)[tab] = BytesOf(b)[tab]
  BY TotalsOf
<1>2. TotalOf(EntriesOf(a), Tabs) = TotalOf(EntriesOf(b), Tabs)
  BY <1>1, TabsFinite, TotalSame
<1>3. TotalOf(BytesOf(a), Tabs) = TotalOf(BytesOf(b), Tabs)
  BY <1>1, TabsFinite, TotalSame
<1>4. QED
  BY <1>2, <1>3, TotalsOf

LEMMA TotalsFewer ==
    ASSUME NEW a \in Sessions, NEW b \in Sessions,
           \A tab \in Tabs : Entries(a[tab]) <= Entries(b[tab]) /\ Bytes(a[tab]) <= Bytes(b[tab])
    PROVE  EntriesIn(a, Tabs) <= EntriesIn(b, Tabs) /\ BytesIn(a, Tabs) <= BytesIn(b, Tabs)
<1>1. \A tab \in Tabs : /\ EntriesOf(a)[tab] \in Nat /\ EntriesOf(b)[tab] \in Nat
                        /\ EntriesOf(a)[tab] <= EntriesOf(b)[tab]
  BY TotalsOf
<1>2. \A tab \in Tabs : /\ BytesOf(a)[tab] \in Nat /\ BytesOf(b)[tab] \in Nat
                        /\ BytesOf(a)[tab] <= BytesOf(b)[tab]
  BY TotalsOf
<1>3. TotalOf(EntriesOf(a), Tabs) <= TotalOf(EntriesOf(b), Tabs)
  BY <1>1, TabsFinite, TotalLeq
<1>4. TotalOf(BytesOf(a), Tabs) <= TotalOf(BytesOf(b), Tabs)
  BY <1>2, TabsFinite, TotalLeq
<1>5. QED
  BY <1>3, <1>4, TotalsOf

LEMMA TotalsNat ==
    ASSUME NEW a \in Sessions, NEW tabs \in SUBSET Tabs
    PROVE  EntriesIn(a, tabs) \in Nat /\ BytesIn(a, tabs) \in Nat
<1>1. IsFiniteSet(tabs)
  BY TabsFinite, FS_Subset
<1>2. \A tab \in tabs : EntriesOf(a)[tab] \in Nat /\ BytesOf(a)[tab] \in Nat
  BY TotalsOf
<1>3. TotalOf(EntriesOf(a), tabs) \in Nat /\ TotalOf(BytesOf(a), tabs) \in Nat
  BY <1>1, <1>2, TotalNat
<1>4. QED
  BY <1>3, TotalsOf

LEMMA TotalsChanged ==
    ASSUME NEW a \in Sessions, NEW b \in Sessions, NEW tab \in Tabs,
           \A t \in Tabs \ {tab} : a[t] = b[t]
    PROVE  /\ EntriesIn(b, Tabs) = EntriesIn(a, Tabs) + (Entries(b[tab]) - Entries(a[tab]))
           /\ BytesIn(b, Tabs) = BytesIn(a, Tabs) + (Bytes(b[tab]) - Bytes(a[tab]))
<1>1. Differ(Tabs, tab, EntriesOf(a), EntriesOf(b))
  <2>1. \A t \in Tabs : EntriesOf(a)[t] \in Nat /\ EntriesOf(b)[t] \in Nat
    BY TotalsOf
  <2>2. \A t \in Tabs \ {tab} : EntriesOf(a)[t] = EntriesOf(b)[t]
    BY DEF EntriesOf
  <2>3. QED
    BY <2>1, <2>2, TabsFinite DEF Differ
<1>2. Differ(Tabs, tab, BytesOf(a), BytesOf(b))
  <2>1. \A t \in Tabs : BytesOf(a)[t] \in Nat /\ BytesOf(b)[t] \in Nat
    BY TotalsOf
  <2>2. \A t \in Tabs \ {tab} : BytesOf(a)[t] = BytesOf(b)[t]
    BY DEF BytesOf
  <2>3. QED
    BY <2>1, <2>2, TabsFinite DEF Differ
<1>3. TotalOf(EntriesOf(b), Tabs) = TotalOf(EntriesOf(a), Tabs) + (EntriesOf(b)[tab] - EntriesOf(a)[tab])
  BY <1>1, TotalChanged
<1>4. TotalOf(BytesOf(b), Tabs) = TotalOf(BytesOf(a), Tabs) + (BytesOf(b)[tab] - BytesOf(a)[tab])
  BY <1>2, TotalChanged
<1>5. /\ EntriesOf(a)[tab] = Entries(a[tab]) /\ EntriesOf(b)[tab] = Entries(b[tab])
      /\ BytesOf(a)[tab] = Bytes(a[tab]) /\ BytesOf(b)[tab] = Bytes(b[tab])
  BY TotalsOf
<1>6. /\ EntriesIn(a, Tabs) = TotalOf(EntriesOf(a), Tabs) /\ EntriesIn(b, Tabs) = TotalOf(EntriesOf(b), Tabs)
      /\ BytesIn(a, Tabs) = TotalOf(BytesOf(a), Tabs) /\ BytesIn(b, Tabs) = TotalOf(BytesOf(b), Tabs)
  BY TotalsOf
<1>7. QED
  BY <1>3, <1>4, <1>5, <1>6

\* The sessions of some tabs keep nothing.
LEMMA TotalsCleared ==
    ASSUME NEW a \in Sessions, NEW b \in Sessions, NEW tabs \in SUBSET Tabs,
           \A t \in Tabs \ tabs : Entries(a[t]) = Entries(b[t]) /\ Bytes(a[t]) = Bytes(b[t]),
           \A t \in tabs : Entries(b[t]) = 0 /\ Bytes(b[t]) = 0
    PROVE  /\ EntriesIn(b, Tabs) = EntriesIn(a, Tabs) - EntriesIn(a, tabs)
           /\ BytesIn(b, Tabs) = BytesIn(a, Tabs) - BytesIn(a, tabs)
<1>1. TotalOf(EntriesOf(b), Tabs) = TotalOf(EntriesOf(a), Tabs) - TotalOf(EntriesOf(a), tabs)
  <2>1. \A t \in Tabs : EntriesOf(a)[t] \in Nat
    BY TotalsOf
  <2>2. \A t \in tabs : EntriesOf(b)[t] = 0
    BY TotalsOf
  <2>3. \A t \in Tabs \ tabs : EntriesOf(a)[t] = EntriesOf(b)[t]
    BY TotalsOf
  <2>4. QED
    BY <2>1, <2>2, <2>3, TabsFinite, TotalCleared
<1>2. TotalOf(BytesOf(b), Tabs) = TotalOf(BytesOf(a), Tabs) - TotalOf(BytesOf(a), tabs)
  <2>1. \A t \in Tabs : BytesOf(a)[t] \in Nat
    BY TotalsOf
  <2>2. \A t \in tabs : BytesOf(b)[t] = 0
    BY TotalsOf
  <2>3. \A t \in Tabs \ tabs : BytesOf(a)[t] = BytesOf(b)[t]
    BY TotalsOf
  <2>4. QED
    BY <2>1, <2>2, <2>3, TabsFinite, TotalCleared
<1>3. /\ EntriesIn(a, Tabs) = TotalOf(EntriesOf(a), Tabs) /\ EntriesIn(b, Tabs) = TotalOf(EntriesOf(b), Tabs)
      /\ BytesIn(a, Tabs) = TotalOf(BytesOf(a), Tabs) /\ BytesIn(b, Tabs) = TotalOf(BytesOf(b), Tabs)
      /\ EntriesIn(a, tabs) = TotalOf(EntriesOf(a), tabs) /\ BytesIn(a, tabs) = TotalOf(BytesOf(a), tabs)
  BY TotalsOf
<1>4. QED
  BY <1>1, <1>2, <1>3

-----------------------------------------------------------------------------
(* Good sessions. *)

LEMMA CapturingOf ==
    \A sessions : /\ Capturing(sessions) \in SUBSET Tabs /\ IsFiniteSet(Capturing(sessions))
                  /\ Cardinality(Capturing(sessions)) \in Nat
                  /\ \A tab : tab \in Capturing(sessions) <=> tab \in Tabs /\ sessions[tab] # NoSession
<1>1. ASSUME NEW sessions
      PROVE  /\ Capturing(sessions) \in SUBSET Tabs /\ IsFiniteSet(Capturing(sessions))
             /\ Cardinality(Capturing(sessions)) \in Nat
             /\ \A tab : tab \in Capturing(sessions) <=> tab \in Tabs /\ sessions[tab] # NoSession
  <2>1. Capturing(sessions) \in SUBSET Tabs
    BY DEF Capturing
  <2>2. IsFiniteSet(Capturing(sessions))
    BY <2>1, TabsFinite, FS_Subset
  <2>3. \A tab : tab \in Capturing(sessions) <=> tab \in Tabs /\ sessions[tab] # NoSession
    BY DEF Capturing
  <2>4. QED
    BY <2>1, <2>2, <2>3, FS_CardinalityType
<1>2. QED
  BY <1>1

\* One session takes the place of another and needs no more room.
NoLarger(session, other, last) ==
    /\ Proper(session) /\ session.id <= last /\ other # NoSession
    /\ Len(session.records) <= Len(other.records) /\ session.bytes <= other.bytes

LEMMA GoodFewer ==
    ASSUME NEW before, NEW last, GoodSessions(before, last), NEW after \in Sessions, NEW now,
           \A tab \in Tabs : after[tab] # NoSession => NoLarger(after[tab], before[tab], now)
    PROVE  GoodSessions(after, now)
<1>1. /\ before \in Sessions /\ Cardinality(Capturing(before)) <= MaxSessions
      /\ EntriesIn(before, Tabs) <= MaxAllEntries /\ BytesIn(before, Tabs) <= MaxAllBytes
  BY DEF GoodSessions
<1>2. ASSUME NEW tab \in Tabs
      PROVE  Entries(after[tab]) <= Entries(before[tab]) /\ Bytes(after[tab]) <= Bytes(before[tab])
  <2>1. Entries(before[tab]) \in Nat /\ Bytes(before[tab]) \in Nat
    BY <1>1, TotalsOf
  <2>2. CASE after[tab] = NoSession
    BY <2>1, <2>2 DEF Entries, Bytes
  <2>3. CASE after[tab] # NoSession
    <3>1. /\ before[tab] # NoSession /\ Len(after[tab].records) <= Len(before[tab].records)
          /\ after[tab].bytes <= before[tab].bytes
      BY <2>3 DEF NoLarger
    <3>2. QED
      BY <2>3, <3>1 DEF Entries, Bytes
  <2>4. QED
    BY <2>2, <2>3
<1>3. EntriesIn(after, Tabs) <= EntriesIn(before, Tabs) /\ BytesIn(after, Tabs) <= BytesIn(before, Tabs)
  BY <1>1, <1>2, TotalsFewer
<1>4. EntriesIn(after, Tabs) <= MaxAllEntries /\ BytesIn(after, Tabs) <= MaxAllBytes
  <2>1. /\ EntriesIn(after, Tabs) \in Nat /\ BytesIn(after, Tabs) \in Nat
        /\ EntriesIn(before, Tabs) \in Nat /\ BytesIn(before, Tabs) \in Nat
    BY <1>1, TotalsNat
  <2>2. MaxAllEntries \in Nat /\ MaxAllBytes \in Nat
    BY NetworkCaptureConstants
  <2>3. QED
    BY <1>1, <1>3, <2>1, <2>2
<1>5. Cardinality(Capturing(after)) <= MaxSessions
  <2>1. Capturing(after) \in SUBSET Capturing(before)
    BY CapturingOf DEF NoLarger
  <2>2. /\ IsFiniteSet(Capturing(before)) /\ Cardinality(Capturing(before)) \in Nat
        /\ Cardinality(Capturing(after)) \in Nat
    BY CapturingOf
  <2>3. Cardinality(Capturing(after)) <= Cardinality(Capturing(before))
    BY <2>1, <2>2, FS_Subset
  <2>4. MaxSessions \in Nat
    BY NetworkCaptureConstants
  <2>5. QED
    BY <1>1, <2>2, <2>3, <2>4
<1>6. \A tab \in Tabs : after[tab] # NoSession => Proper(after[tab]) /\ after[tab].id <= now
  BY DEF NoLarger
<1>7. QED
  BY <1>4, <1>5, <1>6 DEF GoodSessions

LEMMA ProperFields ==
    ASSUME NEW session, Proper(session)
    PROVE  /\ session \in CaptureSessions /\ session # NoSession /\ Weighed(session) /\ Kept(session)
           /\ session.id \in Nat /\ session.document \in Documents /\ session.document.origin = "own"
           /\ session.records \in Seq(Requests) /\ Len(session.records) \in Nat /\ session.bytes \in Nat
           /\ session.newer \in BOOLEAN
<1>1. session \in CaptureSessions /\ Weighed(session) /\ Kept(session) /\ session.document.origin = "own"
  BY DEF Proper, Weighed
<1>2. session.id \in Nat
  <2>1. session.id \in 1 .. MaxNcOperations
    BY <1>1, SessionFields
  <2>2. QED
    BY <2>1
<1>3. session.records \in Seq(Requests) /\ session.document \in Documents /\ session.bytes \in Nat
      /\ session.newer \in BOOLEAN
  BY <1>1, SessionFields
<1>4. Len(session.records) \in Nat
  BY <1>3
<1>5. QED
  BY <1>1, <1>2, <1>3, <1>4, NoSessionNone

\* What is dropped oldest first keeps to what its session did.
LEMMA LaterProper ==
    ASSUME NEW session, NEW other, Later(session, other), Kept(session), other \in CaptureSessions,
           other.document.origin = "own",
           \A i \in DOMAIN other.records : other.records[i].origin = "own"
    PROVE  Proper(session) /\ session.id = other.id /\ session.document = other.document
<1>1. PICK n \in 0 .. Len(other.records) : session.records = Rest(other, n)
  BY DEF Later
<1>2. other.records \in Seq(Requests) /\ DOMAIN other.records = 1 .. Len(other.records)
  <2>1. other.records \in Seq(Requests)
    BY SessionFields
  <2>2. QED
    BY <2>1
<1>3. /\ session.records \in Seq(Requests)
      /\ \A i \in 1 .. Len(session.records) :
           n + i \in 1 .. Len(other.records) /\ session.records[i] = other.records[n + i]
  BY <1>1, <1>2, RestOf
<1>4. DOMAIN session.records = 1 .. Len(session.records)
  BY <1>3
<1>5. \A i \in DOMAIN session.records : session.records[i].origin = "own"
  BY <1>2, <1>3, <1>4
<1>6. Weighed(session) /\ session.id = other.id /\ session.document = other.document
  BY DEF Later, SameSession
<1>7. QED
  BY <1>5, <1>6 DEF Proper
-----------------------------------------------------------------------------
(* Sessions that are marked dirty, and records that are committed. *)

SameContent(session, other) ==
    /\ session.id = other.id /\ session.document = other.document
    /\ session.records = other.records /\ session.bytes = other.bytes

\* A session is as it was or waits to be stored.
Marked(new, old) ==
    new = NoSession \/ new = old \/ (new.newer = TRUE /\ new.persistence # "persisted")

\* It is the same session, of the same document.
SameDocument(new, old) ==
    new = NoSession \/ (old # NoSession /\ new.id = old.id /\ new.document = old.document)

Dirtied(sessions, changed) ==
    [tab \in Tabs |->
       IF tab \notin changed \cap Capturing(sessions) THEN sessions[tab]
       ELSE [sessions[tab] EXCEPT !.newer = TRUE,
                                  !.persistence = IF @ = "degraded" THEN @ ELSE "pending"]]

LEMMA DirtiedSession ==
    ASSUME NEW session \in CaptureSessions, NEW dirty,
           dirty = [session EXCEPT !.newer = TRUE,
                                   !.persistence = IF @ = "degraded" THEN @ ELSE "pending"]
    PROVE  /\ dirty \in CaptureSessions /\ SameContent(dirty, session)
           /\ dirty.newer = TRUE /\ dirty.persistence # "persisted"
<1>1. PICK status : status = IF session.persistence = "degraded" THEN session.persistence ELSE "pending"
  OBVIOUS
<1>2. status \in {"pending", "persisted", "degraded"} /\ status # "persisted"
  BY <1>1
<1>3. dirty = [session EXCEPT !.newer = TRUE, !.persistence = status]
  BY <1>1
<1>4. QED
  BY <1>2, <1>3 DEF CaptureSessions, SameContent

IsDirtied(after, sessions, changed) ==
    /\ after \in Sessions
    /\ \A tab \in Tabs : sessions[tab] = NoSession => after[tab] = NoSession
    /\ \A tab \in Tabs : sessions[tab] # NoSession =>
         /\ after[tab] \in CaptureSessions /\ after[tab] # NoSession
         /\ SameContent(after[tab], sessions[tab])
         /\ tab \in changed => after[tab].newer = TRUE /\ after[tab].persistence # "persisted"
    /\ \A tab \in Tabs : tab \notin changed => after[tab] = sessions[tab]

LEMMA DirtiedSessions ==
    ASSUME NEW sessions \in Sessions, NEW changed, NEW after, after = Dirtied(sessions, changed)
    PROVE  IsDirtied(after, sessions, changed)
<1>1. ASSUME NEW tab \in Tabs, tab \notin changed \/ sessions[tab] = NoSession
      PROVE  after[tab] = sessions[tab]
  BY <1>1 DEF Dirtied, Capturing
<1>2. ASSUME NEW tab \in Tabs, sessions[tab] # NoSession
      PROVE  /\ after[tab] \in CaptureSessions /\ SameContent(after[tab], sessions[tab])
             /\ tab \in changed => after[tab].newer = TRUE /\ after[tab].persistence # "persisted"
  <2>1. sessions[tab] \in CaptureSessions
    BY <1>2 DEF Sessions
  <2>2. CASE tab \notin changed
    BY <1>1, <2>1, <2>2 DEF SameContent
  <2>3. CASE tab \in changed
    <3>1. after[tab] = [sessions[tab] EXCEPT !.newer = TRUE,
                          !.persistence = IF @ = "degraded" THEN @ ELSE "pending"]
      BY <1>2, <2>3 DEF Dirtied, Capturing
    <3>2. QED
      BY <2>1, <3>1, DirtiedSession
  <2>4. QED
    BY <2>2, <2>3
<1>3. after \in Sessions
  <2>1. \A tab \in Tabs : after[tab] \in CaptureSessions \cup {NoSession}
    BY <1>1, <1>2
  <2>2. after = [tab \in Tabs |-> after[tab]]
    BY DEF Dirtied
  <2>3. QED
    BY <2>1, <2>2 DEF Sessions
<1>4. QED
  BY <1>1, <1>2, <1>3, NoSessionNone DEF IsDirtied

LEMMA ProperSame ==
    ASSUME NEW session \in CaptureSessions, NEW other, Proper(other), SameContent(session, other)
    PROVE  Proper(session)
  BY DEF Proper, SameContent, Weighed, Kept

\* Marking changes no total and no session's content.
LEMMA DirtiedGood ==
    ASSUME NEW sessions, NEW last, GoodSessions(sessions, last), NEW changed,
           NEW after, after = Dirtied(sessions, changed)
    PROVE  /\ GoodSessions(after, last)
           /\ EntriesIn(after, Tabs) = EntriesIn(sessions, Tabs)
           /\ BytesIn(after, Tabs) = BytesIn(sessions, Tabs)
<1>1. sessions \in Sessions
  BY DEF GoodSessions
<1>d. IsDirtied(after, sessions, changed)
  BY <1>1, DirtiedSessions
<1>2. /\ after \in Sessions
      /\ \A tab \in Tabs : sessions[tab] = NoSession => after[tab] = NoSession
      /\ \A tab \in Tabs : sessions[tab] # NoSession =>
           /\ after[tab] \in CaptureSessions /\ after[tab] # NoSession
           /\ SameContent(after[tab], sessions[tab])
  BY <1>d DEF IsDirtied
<1>3. ASSUME NEW tab \in Tabs, after[tab] # NoSession
      PROVE  NoLarger(after[tab], sessions[tab], last) /\ SameContent(after[tab], sessions[tab])
  <2>1. sessions[tab] # NoSession /\ after[tab] \in CaptureSessions /\ SameContent(after[tab], sessions[tab])
    BY <1>2, <1>3
  <2>2. Proper(sessions[tab]) /\ sessions[tab].id <= last
    BY <2>1 DEF GoodSessions
  <2>3. Proper(after[tab])
    BY <2>1, <2>2, ProperSame
  <2>4. Len(sessions[tab].records) \in Nat /\ sessions[tab].bytes \in Nat
    BY <2>2, ProperFields
  <2>5. QED
    BY <2>1, <2>2, <2>3, <2>4 DEF NoLarger, SameContent
<1>4. GoodSessions(after, last)
  BY <1>2, <1>3, GoodFewer
<1>5. ASSUME NEW tab \in Tabs
      PROVE  Entries(after[tab]) = Entries(sessions[tab]) /\ Bytes(after[tab]) = Bytes(sessions[tab])
  <2>1. CASE sessions[tab] = NoSession
    BY <1>2, <2>1
  <2>2. CASE sessions[tab] # NoSession
    <3>1. /\ after[tab] # NoSession /\ after[tab].records = sessions[tab].records
          /\ after[tab].bytes = sessions[tab].bytes
      BY <1>2, <2>2 DEF SameContent
    <3>2. QED
      BY <2>2, <3>1 DEF Entries, Bytes
  <2>3. QED
    BY <2>1, <2>2
<1>6. QED
  BY <1>1, <1>2, <1>4, <1>5, TotalsSame

LEMMA MarkDirtyIs ==
    ASSUME NcTypeOK, NEW sessions, NEW changed, MarkDirty(sessions, changed)
    PROVE  /\ ncSession' = Dirtied(sessions, changed)
           /\ ncMutated' \in BOOLEAN /\ ncTimer' \in BOOLEAN
<1>1. ncTimer \in BOOLEAN /\ ncWriting \in BOOLEAN
  BY DEF NcTypeOK
<1>2. QED
  BY <1>1, Zenon DEF MarkDirty, Dirtied, Scheduled

\* What a change of the sessions leaves; a commit of records leaves each its document too.
Settled(last) ==
    /\ GoodSessions(ncSession', last)
    /\ ncCount' = EntriesIn(ncSession', Tabs) /\ ncBytes' = BytesIn(ncSession', Tabs)
    /\ ncCount' \in Nat /\ ncBytes' \in Nat /\ ncMutated' \in BOOLEAN /\ ncTimer' \in BOOLEAN
    /\ \A t \in Tabs : Marked(ncSession'[t], ncSession[t])

Committed ==
    Settled(ncOperations) /\ \A t \in Tabs : SameDocument(ncSession'[t], ncSession[t])

LEMMA CommitsKeeps ==
    ASSUME NcTypeOK, Accounts, NEW tab \in Tabs, ncSession[tab] # NoSession,
           NEW session, Weighed(session), session.id = ncSession[tab].id,
           session.document = ncSession[tab].document,
           \A i \in DOMAIN session.records : session.records[i].origin = "own",
           Commits(tab, session)
    PROVE  Committed
<1>1. /\ GoodSessions(ncSession, ncOperations) /\ ncSession \in Sessions
      /\ ncCount = EntriesIn(ncSession, Tabs) /\ ncBytes = BytesIn(ncSession, Tabs)
  BY DEF Accounts, GoodSessions
<1>2. \A t \in Tabs : ncSession[t] # NoSession => Proper(ncSession[t]) /\ ncSession[t].id <= ncOperations
  BY <1>1 DEF GoodSessions
<1>3. session \in CaptureSessions /\ session # NoSession
  BY NoSessionNone DEF Weighed
<1>4. PICK before : before = [ncSession EXCEPT ![tab] = session]
  OBVIOUS
<1>5. before \in Sessions /\ before[tab] = session /\ \A t \in Tabs \ {tab} : before[t] = ncSession[t]
  BY <1>1, <1>3, <1>4 DEF Sessions
<1>6. AllWeighed(before)
  BY <1>2, <1>5, ProperFields DEF AllWeighed
<1>7. PICK after : after = WithinBudgets(before)
  OBVIOUS
<1>8. /\ Leaner(after, before) /\ EntriesIn(after, Tabs) <= MaxAllEntries
      /\ BytesIn(after, Tabs) <= MaxAllBytes
  BY <1>6, <1>7, WithinBudgetsKept
<1>9. PICK changed : changed = {tab} \cup {t \in Capturing(after) : after[t] # before[t]}
  OBVIOUS
<1>10. /\ MarkDirty(after, changed)
       /\ ncCount' = ncCount + (Len(session.records) - Len(ncSession[tab].records))
                       - (EntriesIn(before, Tabs) - EntriesIn(ncSession', Tabs))
       /\ ncBytes' = ncBytes + (session.bytes - ncSession[tab].bytes)
                       - (BytesIn(before, Tabs) - BytesIn(ncSession', Tabs))
  BY <1>4, <1>7, <1>9, Zenon DEF Commits
<1>11. ncSession' = Dirtied(after, changed) /\ ncMutated' \in BOOLEAN /\ ncTimer' \in BOOLEAN
  BY <1>10, MarkDirtyIs
<1>12. ASSUME NEW t \in Tabs, before[t] # NoSession
       PROVE  /\ after[t] # NoSession /\ Proper(after[t])
              /\ ncSession[t] # NoSession /\ Proper(ncSession[t])
              /\ after[t].id = ncSession[t].id /\ after[t].document = ncSession[t].document
              /\ ncSession[t].id <= ncOperations
  <2>1. after[t] # NoSession /\ Later(after[t], before[t]) /\ Kept(after[t])
    BY <1>8, <1>12 DEF Leaner
  <2>2. ncSession[t] # NoSession /\ Proper(ncSession[t]) /\ ncSession[t].id <= ncOperations
    BY <1>2, <1>5, <1>12
  <2>3. /\ before[t] \in CaptureSessions /\ before[t].document.origin = "own"
        /\ before[t].id = ncSession[t].id /\ before[t].document = ncSession[t].document
        /\ \A i \in DOMAIN before[t].records : before[t].records[i].origin = "own"
    <3>1. CASE t = tab
      <4>1. ncSession[tab].document.origin = "own"
        BY <2>2, <3>1 DEF Proper
      <4>2. QED
        BY <1>3, <1>5, <3>1, <4>1
    <3>2. CASE t # tab
      BY <1>5, <2>2, <3>2, ProperFields DEF Proper
    <3>3. QED
      BY <3>1, <3>2
  <2>4. Proper(after[t]) /\ after[t].id = before[t].id /\ after[t].document = before[t].document
    BY <2>1, <2>3, LaterProper
  <2>5. QED
    BY <2>1, <2>2, <2>3, <2>4
<1>13. ASSUME NEW t \in Tabs PROVE before[t] = NoSession => after[t] = NoSession /\ ncSession[t] = NoSession
  BY <1>3, <1>5, <1>8 DEF Leaner
<1>14. GoodSessions(after, ncOperations)
  <2>1. after \in Sessions
    BY <1>8 DEF Leaner
  <2>2. \A t \in Tabs : after[t] # NoSession => Proper(after[t]) /\ after[t].id <= ncOperations
    BY <1>12, <1>13
  <2>3. Capturing(after) = Capturing(ncSession)
    BY <1>12, <1>13 DEF Capturing
  <2>4. Cardinality(Capturing(after)) <= MaxSessions
    BY <1>1, <2>3 DEF GoodSessions
  <2>5. QED
    BY <1>8, <2>1, <2>2, <2>4 DEF GoodSessions
<1>15. /\ GoodSessions(ncSession', ncOperations)
       /\ EntriesIn(ncSession', Tabs) = EntriesIn(after, Tabs)
       /\ BytesIn(ncSession', Tabs) = BytesIn(after, Tabs)
  BY <1>11, <1>14, DirtiedGood
<1>16. ncCount' = EntriesIn(ncSession', Tabs) /\ ncBytes' = BytesIn(ncSession', Tabs)
  <2>1. /\ EntriesIn(before, Tabs) = EntriesIn(ncSession, Tabs) + (Entries(before[tab]) - Entries(ncSession[tab]))
        /\ BytesIn(before, Tabs) = BytesIn(ncSession, Tabs) + (Bytes(before[tab]) - Bytes(ncSession[tab]))
    <3>1. \A t \in Tabs \ {tab} : ncSession[t] = before[t]
      BY <1>5
    <3>2. QED
      BY <1>1, <1>5, <3>1, TotalsChanged
  <2>2. /\ Entries(before[tab]) = Len(session.records) /\ Entries(ncSession[tab]) = Len(ncSession[tab].records)
        /\ Bytes(before[tab]) = session.bytes /\ Bytes(ncSession[tab]) = ncSession[tab].bytes
    BY <1>3, <1>5 DEF Entries, Bytes
  <2>3. /\ Entries(before[tab]) \in Nat /\ Entries(ncSession[tab]) \in Nat
        /\ Bytes(before[tab]) \in Nat /\ Bytes(ncSession[tab]) \in Nat
    BY <1>1, <1>5, TotalsOf
  <2>4. ncSession' \in Sessions
    BY <1>15 DEF GoodSessions
  <2>5. /\ EntriesIn(ncSession, Tabs) \in Nat /\ BytesIn(ncSession, Tabs) \in Nat
        /\ EntriesIn(ncSession', Tabs) \in Nat /\ BytesIn(ncSession', Tabs) \in Nat
    BY <1>1, <2>4, TotalsNat
  <2>6. ncCount' = EntriesIn(ncSession', Tabs)
    <3>1. PICK e, e2, l, l2 : e = EntriesIn(ncSession, Tabs) /\ e2 = EntriesIn(ncSession', Tabs)
                              /\ l = Len(session.records) /\ l2 = Len(ncSession[tab].records)
      OBVIOUS
    <3>2. EntriesIn(before, Tabs) = e + (l - l2)
      BY <2>1, <2>2, <3>1
    <3>3. e \in Nat /\ e2 \in Nat /\ l \in Nat /\ l2 \in Nat
      BY <2>2, <2>3, <2>5, <3>1
    <3>4. ncCount' = e + (l - l2) - ((e + (l - l2)) - e2)
      BY <1>1, <1>10, <3>1, <3>2
    <3>5. e + (l - l2) - ((e + (l - l2)) - e2) = e2
      BY <3>3
    <3>6. QED
      BY <3>1, <3>4, <3>5, Zenon
  <2>7. ncBytes' = BytesIn(ncSession', Tabs)
    <3>1. PICK e, e2, l, l2 : e = BytesIn(ncSession, Tabs) /\ e2 = BytesIn(ncSession', Tabs)
                              /\ l = session.bytes /\ l2 = ncSession[tab].bytes
      OBVIOUS
    <3>2. BytesIn(before, Tabs) = e + (l - l2)
      BY <2>1, <2>2, <3>1
    <3>3. e \in Nat /\ e2 \in Nat /\ l \in Nat /\ l2 \in Nat
      BY <2>2, <2>3, <2>5, <3>1
    <3>4. ncBytes' = e + (l - l2) - ((e + (l - l2)) - e2)
      BY <1>1, <1>10, <3>1, <3>2
    <3>5. e + (l - l2) - ((e + (l - l2)) - e2) = e2
      BY <3>3
    <3>6. QED
      BY <3>1, <3>4, <3>5, Zenon
  <2>8. QED
    BY <2>6, <2>7
<1>17. ncCount' \in Nat /\ ncBytes' \in Nat
  <2>1. ncSession' \in Sessions
    BY <1>15 DEF GoodSessions
  <2>2. QED
    BY <1>16, <2>1, TotalsNat
<1>18. ASSUME NEW t \in Tabs
       PROVE  Marked(ncSession'[t], ncSession[t]) /\ SameDocument(ncSession'[t], ncSession[t])
  <2>1. after \in Sessions
    BY <1>14 DEF GoodSessions
  <2>2. PICK new : new = ncSession'
    OBVIOUS
  <2>d. IsDirtied(new, after, changed)
    BY <1>11, <2>1, <2>2, DirtiedSessions
  <2>3. /\ after[t] = NoSession => new[t] = NoSession
        /\ after[t] # NoSession => /\ SameContent(new[t], after[t])
                                   /\ t \in changed => new[t].newer = TRUE /\ new[t].persistence # "persisted"
        /\ t \notin changed => new[t] = after[t]
    BY <2>d DEF IsDirtied
  <2>4. CASE before[t] = NoSession
    BY <1>13, <2>2, <2>3, <2>4 DEF Marked, SameDocument
  <2>5. CASE before[t] # NoSession
    <3>1. SameDocument(new[t], ncSession[t])
      BY <1>12, <2>3, <2>5 DEF SameDocument, SameContent
    <3>2. Marked(new[t], ncSession[t])
      <4>1. CASE t \in changed
        BY <1>12, <2>3, <2>5, <4>1 DEF Marked
      <4>2. CASE t \notin changed
        <5>1. after[t] = before[t] /\ t # tab
          BY <1>9, <1>12, <2>5, <4>2 DEF Capturing
        <5>2. new[t] = ncSession[t]
          BY <1>5, <2>3, <4>2, <5>1
        <5>3. QED
          BY <5>2 DEF Marked
      <4>3. QED
        BY <4>1, <4>2
    <3>3. QED
      BY <2>2, <3>1, <3>2
  <2>6. QED
    BY <2>4, <2>5
<1>19. QED
  BY <1>11, <1>15, <1>16, <1>17, <1>18 DEF Committed, Settled
LEMMA RecordedKeeps ==
    ASSUME NcTypeOK, Accounts, NEW tab \in Tabs, NEW document, NEW id \in 1 .. MaxNcOperations,
           Matches(tab, document), Recorded(tab, document, id)
    PROVE  Committed
<1>1. ncSession[tab] # NoSession /\ ncSession[tab].document = document
  BY DEF Matches
<1>2. PICK old : old = ncSession[tab]
  OBVIOUS
<1>3. Proper(old)
  BY <1>1, <1>2 DEF Accounts, GoodSessions
<1>4. /\ old \in CaptureSessions /\ old.records \in Seq(Requests) /\ old.bytes = SizeOf(old.records)
      /\ old.bytes \in Nat /\ document.origin = "own" /\ document \in Documents
      /\ \A i \in DOMAIN old.records : old.records[i].origin = "own"
  BY <1>1, <1>2, <1>3, ProperFields DEF Proper, Weighed
<1>5. PICK r : r = [id |-> id, size |-> 1, origin |-> document.origin]
  OBVIOUS
<1>6. r \in Requests /\ r.size = 1 /\ r.origin = "own"
  BY <1>4, <1>5 DEF Requests, Origins
<1>7. PICK longer : longer = Append(old.records, r)
  OBVIOUS
<1>8. /\ longer \in Seq(Requests) /\ SizeOf(longer) = old.bytes + 1
      /\ \A i \in DOMAIN longer : longer[i].origin = "own"
  <2>1. longer \in Seq(Requests)
    BY <1>4, <1>6, <1>7
  <2>2. SizeOf(longer) = old.bytes + 1
    BY <1>4, <1>6, <1>7, SizeAppend
  <2>3. ASSUME NEW i \in DOMAIN longer PROVE longer[i].origin = "own"
    <3>1. i \in 1 .. Len(old.records) + 1 /\ Len(old.records) \in Nat
      BY <1>4, <1>6, <1>7
    <3>2. CASE i = Len(old.records) + 1
      BY <1>4, <1>6, <1>7, <3>2
    <3>3. CASE i # Len(old.records) + 1
      <4>1. i \in 1 .. Len(old.records) /\ i \in DOMAIN old.records /\ longer[i] = old.records[i]
        BY <1>4, <1>6, <1>7, <3>1, <3>3
      <4>2. QED
        BY <1>4, <4>1
    <3>4. QED
      BY <3>2, <3>3
  <2>4. QED
    BY <2>1, <2>2, <2>3
<1>9. PICK new : new = [old EXCEPT !.records = longer, !.bytes = old.bytes + 1]
  OBVIOUS
<1>10. /\ new \in CaptureSessions /\ new.records = longer /\ new.bytes = old.bytes + 1
       /\ new.id = old.id /\ new.document = old.document
  <2>1. PICK bytes : bytes = old.bytes + 1
    OBVIOUS
  <2>2. /\ bytes \in Nat /\ longer \in Seq(Requests) /\ old \in CaptureSessions
        /\ new = [old EXCEPT !.records = longer, !.bytes = bytes]
    BY <1>4, <1>8, <1>9, <2>1
  <2>3. /\ new \in CaptureSessions /\ new.records = longer /\ new.bytes = bytes
        /\ new.id = old.id /\ new.document = old.document
    BY <2>2 DEF CaptureSessions
  <2>4. QED
    BY <2>1, <2>3
<1>11. Weighed(new)
  BY <1>8, <1>10 DEF Weighed
<1>12. Commits(tab, new)
  <2>1. new = [old EXCEPT !.records = Append(@, r), !.bytes = @ + 1]
    BY <1>7, <1>9
  <2>2. QED
    BY <1>2, <1>5, <2>1, Zenon DEF Recorded
<1>13. QED
  BY <1>1, <1>2, <1>8, <1>10, <1>11, <1>12, CommitsKeeps

LEMMA UpdatedKeeps ==
    ASSUME NcTypeOK, Accounts, NEW tab \in Tabs, ncSession[tab] # NoSession,
           NEW i \in DOMAIN ncSession[tab].records, ncSession[tab].records[i].size = 1,
           Commits(tab, Grown(ncSession[tab], i))
    PROVE  Committed
<1>1. PICK old : old = ncSession[tab]
  OBVIOUS
<1>2. Proper(old)
  BY <1>1 DEF Accounts, GoodSessions
<1>3. /\ old \in CaptureSessions /\ old.records \in Seq(Requests) /\ old.bytes = SizeOf(old.records)
      /\ old.bytes \in Nat /\ i \in DOMAIN old.records /\ old.records[i].size = 1
      /\ \A j \in DOMAIN old.records : old.records[j].origin = "own"
  BY <1>1, <1>2, ProperFields DEF Proper, Weighed
<1>4. PICK r : r = [old.records[i] EXCEPT !.size = 2]
  OBVIOUS
<1>5. r \in Requests /\ r.size = 2 /\ r.origin = "own"
  <2>1. old.records[i] \in Requests /\ old.records[i].origin = "own"
    BY <1>3
  <2>2. QED
    BY <1>4, <2>1 DEF Requests
<1>6. PICK changed : changed = [old.records EXCEPT ![i] = r]
  OBVIOUS
<1>7. /\ changed \in Seq(Requests) /\ DOMAIN changed = DOMAIN old.records
      /\ \A j \in DOMAIN changed : changed[j].origin = "own"
  BY <1>3, <1>5, <1>6
<1>8. SizeOf(changed) = old.bytes + 1
  <2>1. SizeOf(changed) = SizeOf(old.records) + (r.size - old.records[i].size)
    BY <1>3, <1>5, <1>6, SizeUpdate
  <2>2. QED
    BY <1>3, <1>5, <2>1
<1>9. PICK new : new = [old EXCEPT !.records = changed, !.bytes = old.bytes + 1]
  OBVIOUS
<1>10. /\ new \in CaptureSessions /\ new.records = changed /\ new.bytes = old.bytes + 1
       /\ new.id = old.id /\ new.document = old.document
  <2>1. PICK bytes : bytes = old.bytes + 1
    OBVIOUS
  <2>2. /\ bytes \in Nat /\ changed \in Seq(Requests) /\ old \in CaptureSessions
        /\ new = [old EXCEPT !.records = changed, !.bytes = bytes]
    BY <1>3, <1>7, <1>9, <2>1
  <2>3. /\ new \in CaptureSessions /\ new.records = changed /\ new.bytes = bytes
        /\ new.id = old.id /\ new.document = old.document
    BY <2>2 DEF CaptureSessions
  <2>4. QED
    BY <2>1, <2>3
<1>11. Weighed(new)
  BY <1>8, <1>10 DEF Weighed
<1>12. new = Grown(old, i)
  <2>1. PICK left : left = old.bytes + (2 - old.records[i].size)
    OBVIOUS
  <2>2. Grown(old, i) = [old EXCEPT !.records[i].size = 2, !.bytes = left]
    BY <2>1 DEF Grown
  <2>3. [old EXCEPT !.records[i].size = 2, !.bytes = left]
          = [old EXCEPT !.records = [old.records EXCEPT ![i] = [old.records[i] EXCEPT !.size = 2]],
                        !.bytes = left]
    OBVIOUS
  <2>4. left = old.bytes + 1
    BY <1>3, <2>1
  <2>5. QED
    BY <1>4, <1>6, <1>9, <2>2, <2>3, <2>4
<1>13. Commits(tab, new)
  BY <1>1, <1>12
<1>14. QED
  BY <1>1, <1>7, <1>10, <1>11, <1>13, CommitsKeeps

\* Sessions that are changed otherwise: those of some tabs are emptied or deleted.
LEMMA DirtyKeeps ==
    ASSUME NcTypeOK, Accounts, NEW tabs \in SUBSET Tabs, NEW sessions, NEW last,
           GoodSessions(sessions, last), NEW changed,
           \A t \in Tabs \ tabs : /\ Entries(ncSession[t]) = Entries(sessions[t])
                                  /\ Bytes(ncSession[t]) = Bytes(sessions[t]),
           \A t \in tabs : Entries(sessions[t]) = 0 /\ Bytes(sessions[t]) = 0,
           ncCount' = ncCount - EntriesIn(ncSession, tabs),
           ncBytes' = ncBytes - BytesIn(ncSession, tabs),
           MarkDirty(sessions, changed),
           \A t \in Tabs : t \notin changed => sessions[t] = NoSession \/ sessions[t] = ncSession[t]
    PROVE  Settled(last) /\ IsDirtied(ncSession', sessions, changed)
<1>1. /\ ncSession \in Sessions /\ sessions \in Sessions
      /\ ncCount = EntriesIn(ncSession, Tabs) /\ ncBytes = BytesIn(ncSession, Tabs)
  BY DEF Accounts, GoodSessions
<1>2. PICK new : new = ncSession'
  OBVIOUS
<1>3. new = Dirtied(sessions, changed) /\ ncMutated' \in BOOLEAN /\ ncTimer' \in BOOLEAN
  BY <1>2, MarkDirtyIs
<1>4. /\ GoodSessions(new, last) /\ EntriesIn(new, Tabs) = EntriesIn(sessions, Tabs)
      /\ BytesIn(new, Tabs) = BytesIn(sessions, Tabs)
  BY <1>3, DirtiedGood
<1>5. IsDirtied(new, sessions, changed)
  BY <1>1, <1>3, DirtiedSessions
<1>6. /\ EntriesIn(sessions, Tabs) = EntriesIn(ncSession, Tabs) - EntriesIn(ncSession, tabs)
      /\ BytesIn(sessions, Tabs) = BytesIn(ncSession, Tabs) - BytesIn(ncSession, tabs)
  BY <1>1, TotalsCleared
<1>7. ncCount' = EntriesIn(new, Tabs) /\ ncBytes' = BytesIn(new, Tabs)
  BY <1>1, <1>4, <1>6
<1>8. ncCount' \in Nat /\ ncBytes' \in Nat
  <2>1. new \in Sessions
    BY <1>4 DEF GoodSessions
  <2>2. QED
    BY <1>7, <2>1, TotalsNat
<1>9. ASSUME NEW t \in Tabs PROVE Marked(new[t], ncSession[t])
  <2>1. CASE t \in changed
    BY <1>5, <2>1 DEF IsDirtied, Marked
  <2>2. CASE t \notin changed
    BY <1>5, <2>2 DEF IsDirtied, Marked
  <2>3. QED
    BY <2>1, <2>2
<1>10. QED
  BY <1>2, <1>3, <1>4, <1>5, <1>7, <1>8, <1>9 DEF Settled
-----------------------------------------------------------------------------
(* What steps keep. *)

Navigations == [tab : Tabs, document : Documents, session : 0 .. MaxNcOperations]
Deferrals == [tab : Tabs, document : Documents, id : 1 .. MaxNcOperations]

LEMMA TypeFacts ==
    ASSUME NcTypeOK
    PROVE  /\ ncDocument \in [Tabs -> Documents] /\ ncCommits \in Seq(Navigations) /\ ncSession \in Sessions
           /\ ncStored \in [Tabs -> StoredSessions \cup {NoSession}]
           /\ ncWrite \in [Tabs -> StoredSessions \cup {NoSession}]
           /\ ncStart \in [Tabs -> Documents \cup {NoSession}]
           /\ ncDeferred \in Seq(Deferrals) /\ Len(ncDeferred) <= MaxDeferred
           /\ ncCount \in Nat /\ ncBytes \in Nat
           /\ ncTimer \in BOOLEAN /\ ncWriting \in BOOLEAN /\ ncMutated \in BOOLEAN
           /\ ncLife \in {"off", "restoring", "replaying", "on"} /\ ncRaced \subseteq Tabs
           /\ ncOperations \in 0 .. MaxNcOperations /\ ncEvents \in 0 .. MaxNcEvents
  BY DEF NcTypeOK, Navigations, Deferrals, Sessions

LEMMA TypeFrom ==
    ASSUME ncDocument' \in [Tabs -> Documents], ncCommits' \in Seq(Navigations), ncSession' \in Sessions,
           ncStored' \in [Tabs -> StoredSessions \cup {NoSession}],
           ncWrite' \in [Tabs -> StoredSessions \cup {NoSession}],
           ncStart' \in [Tabs -> Documents \cup {NoSession}],
           ncDeferred' \in Seq(Deferrals), Len(ncDeferred') <= MaxDeferred,
           ncCount' \in Nat, ncBytes' \in Nat,
           ncTimer' \in BOOLEAN, ncWriting' \in BOOLEAN, ncMutated' \in BOOLEAN,
           ncLife' \in {"off", "restoring", "replaying", "on"}, ncRaced' \subseteq Tabs,
           ncOperations' \in 0 .. MaxNcOperations, ncEvents' \in 0 .. MaxNcEvents
    PROVE  NcTypeOK'
  BY DEF NcTypeOK, Navigations, Deferrals, Sessions

LEMMA CounterFacts ==
    ASSUME NcTypeOK
    PROVE  /\ ncOperations \in Nat /\ ncEvents \in Nat
           /\ Operation => /\ ncOperations' \in 0 .. MaxNcOperations /\ ncOperations' \in 1 .. MaxNcOperations
                           /\ ncOperations' \in Nat /\ ncOperations < ncOperations'
                           /\ ncOperations <= ncOperations'
           /\ NcEvent => /\ ncEvents' \in 0 .. MaxNcEvents /\ ncEvents' \in Nat
                         /\ ncEvents' = ncEvents + 1 /\ ncEvents + 2 \in 1 .. MaxNcEvents + 1
<1>1. ncOperations \in 0 .. MaxNcOperations /\ ncEvents \in 0 .. MaxNcEvents
      /\ MaxNcOperations \in Nat /\ MaxNcEvents \in Nat
  BY NetworkCaptureConstants DEF NcTypeOK
<1>2. ncOperations \in Nat /\ ncEvents \in Nat
  BY <1>1
<1>3. ASSUME Operation
      PROVE  /\ ncOperations' \in 0 .. MaxNcOperations /\ ncOperations' \in 1 .. MaxNcOperations
             /\ ncOperations' \in Nat /\ ncOperations < ncOperations' /\ ncOperations <= ncOperations'
  BY <1>1, <1>2, <1>3 DEF Operation
<1>4. ASSUME NcEvent
      PROVE  /\ ncEvents' \in 0 .. MaxNcEvents /\ ncEvents' \in Nat
             /\ ncEvents' = ncEvents + 1 /\ ncEvents + 2 \in 1 .. MaxNcEvents + 1
  BY <1>1, <1>2, <1>4 DEF NcEvent
<1>5. QED
  BY <1>2, <1>3, <1>4

\* The type of a state in which the sessions were settled, and little else changed.
LEMMA SettledType ==
    ASSUME NcTypeOK, NEW last, Settled(last),
           UNCHANGED <<ncDocument, ncStored, ncWrite, ncWriting, ncRaced, ncEvents, ncLife>>,
           ncCommits' \in Seq(Navigations), ncStart' \in [Tabs -> Documents \cup {NoSession}],
           ncDeferred' \in Seq(Deferrals), Len(ncDeferred') <= MaxDeferred,
           ncOperations' \in 0 .. MaxNcOperations
    PROVE  NcTypeOK'
<1>1. /\ ncSession' \in Sessions /\ ncCount' \in Nat /\ ncBytes' \in Nat
      /\ ncTimer' \in BOOLEAN /\ ncMutated' \in BOOLEAN
  BY DEF Settled, GoodSessions
<1>2. QED
  BY <1>1, TypeFacts, TypeFrom

LEMMA GoodUntil ==
    ASSUME NEW sessions, NEW last \in Nat, GoodSessions(sessions, last), NEW now \in Nat, last <= now
    PROVE  GoodSessions(sessions, now)
<1>1. \A tab \in Tabs : sessions[tab] # NoSession => Proper(sessions[tab]) /\ sessions[tab].id <= now
  <2>1. ASSUME NEW tab \in Tabs, sessions[tab] # NoSession
        PROVE  Proper(sessions[tab]) /\ sessions[tab].id <= now
    <3>1. Proper(sessions[tab]) /\ sessions[tab].id <= last
      BY <2>1 DEF GoodSessions
    <3>2. sessions[tab].id \in Nat
      BY <3>1, ProperFields
    <3>3. QED
      BY <3>1, <3>2
  <2>2. QED
    BY <2>1
<1>2. QED
  BY <1>1 DEF GoodSessions

LEMMA RestoredSame ==
    ASSUME UNCHANGED <<ncStored, ncWrite>>
    PROVE  Restored(ncStored)' = Restored(ncStored) /\ Restored(ncWrite)' = Restored(ncWrite)
  BY DEF Restored

LEMMA AccountsKept ==
    ASSUME NcTypeOK, Accounts, Settled(ncOperations'), UNCHANGED <<ncStored, ncWrite>>,
           ncOperations' \in Nat, ncOperations <= ncOperations'
    PROVE  Accounts'
<1>1. ncOperations \in Nat
  BY CounterFacts
<1>2. PICK stored, write : stored = Restored(ncStored) /\ write = Restored(ncWrite)
  OBVIOUS
<1>3. GoodSessions(stored, ncOperations) /\ GoodSessions(write, ncOperations)
  BY <1>2 DEF Accounts
<1>4. GoodSessions(stored, ncOperations') /\ GoodSessions(write, ncOperations')
  BY <1>1, <1>3, GoodUntil
<1>5. Restored(ncStored') = stored /\ Restored(ncWrite') = write
  BY <1>2
<1>6. GoodSessions(Restored(ncStored'), ncOperations') /\ GoodSessions(Restored(ncWrite'), ncOperations')
  BY <1>4, <1>5
<1>7. QED
  BY <1>6 DEF Accounts, Settled

LEMMA AccountsSame ==
    ASSUME NcTypeOK, Accounts, UNCHANGED <<ncSession, ncCount, ncBytes, ncStored, ncWrite>>,
           ncOperations' \in Nat, ncOperations <= ncOperations'
    PROVE  Accounts'
<1>1. ncOperations \in Nat
  BY CounterFacts
<1>2. GoodSessions(ncSession, ncOperations')
  BY <1>1, GoodUntil DEF Accounts
<1>3. PICK stored, write : stored = Restored(ncStored) /\ write = Restored(ncWrite)
  OBVIOUS
<1>4. GoodSessions(stored, ncOperations') /\ GoodSessions(write, ncOperations')
  BY <1>1, <1>3, GoodUntil DEF Accounts
<1>5. GoodSessions(Restored(ncStored'), ncOperations') /\ GoodSessions(Restored(ncWrite'), ncOperations')
  BY <1>3, <1>4
<1>6. /\ GoodSessions(ncSession', ncOperations')
      /\ ncCount' = EntriesIn(ncSession', Tabs) /\ ncBytes' = BytesIn(ncSession', Tabs)
  BY <1>2 DEF Accounts
<1>7. QED
  BY <1>5, <1>6 DEF Accounts

LEMMA CreditsKept ==
    ASSUME Credits, \A t \in Tabs : Marked(ncSession'[t], ncSession[t]),
           UNCHANGED <<ncStored, ncWrite, ncWriting>>, ncLife' # "on" => ncLife # "on"
    PROVE  Credits'
<1>1. ASSUME NEW t \in Tabs, ncSession'[t] # NoSession
      PROVE  Creditable(ncSession'[t], ncStored[t], ncWrite[t], ncWriting)
  <2>1. CASE ncSession'[t] = ncSession[t]
    BY <1>1, <2>1 DEF Credits
  <2>2. CASE ncSession'[t].newer = TRUE /\ ncSession'[t].persistence # "persisted"
    BY <2>2 DEF Creditable
  <2>3. QED
    BY <1>1, <2>1, <2>2 DEF Marked
<1>2. QED
  BY <1>1 DEF Credits

LEMMA SessionsSame ==
    ASSUME ncSession' = ncSession
    PROVE  \A t \in Tabs : Marked(ncSession'[t], ncSession[t]) /\ SameDocument(ncSession'[t], ncSession[t])
  BY DEF Marked, SameDocument

LEMMA FollowerSame ==
    ASSUME NEW commits, NEW document, NEW tab, NEW old, NEW raced, NEW new,
           new.id = old.id, new.document = old.document
    PROVE  /\ Follower(commits, document, tab, old, raced) => Follower(commits, document, tab, new, raced)
           /\ Waits(commits, document, tab, old) => Waits(commits, document, tab, new)
  BY DEF Follower, Waits

LEMMA BoundKept ==
    ASSUME Bound, \A t \in Tabs : SameDocument(ncSession'[t], ncSession[t]),
           UNCHANGED <<ncDocument, ncCommits, ncLife, ncRaced>>,
           ncLife \in {"off", "restoring"} => UNCHANGED ncStored
    PROVE  Bound'
<1>1. ASSUME NEW t \in Tabs, ncSession'[t] # NoSession
      PROVE  /\ ncSession[t] # NoSession /\ ncSession'[t].id = ncSession[t].id
             /\ ncSession'[t].document = ncSession[t].document
  BY <1>1 DEF SameDocument
<1>2. ASSUME ncLife' = "on", NEW t \in Tabs, ncSession'[t] # NoSession
      PROVE  Follower(ncCommits, ncDocument, t, ncSession'[t], ncRaced)
  <2>1. Follower(ncCommits, ncDocument, t, ncSession[t], ncRaced)
    BY <1>1, <1>2 DEF Bound
  <2>2. QED
    BY <1>1, <1>2, <2>1, FollowerSame
<1>3. ASSUME ncLife' = "replaying", NEW t \in Tabs \ ncRaced', ncSession'[t] # NoSession
      PROVE  Waits(ncCommits, ncDocument, t, ncSession'[t])
  <2>1. Waits(ncCommits, ncDocument, t, ncSession[t])
    BY <1>1, <1>3 DEF Bound
  <2>2. QED
    BY <1>1, <1>3, <2>1, FollowerSame
<1>4. ASSUME ncLife' \in {"off", "restoring"}, NEW t \in Tabs \ ncRaced', ncStored'[t] # NoSession
      PROVE  Waits(ncCommits, ncDocument, t, ncStored'[t])
  BY <1>4 DEF Bound
<1>5. ncLife' = "off" => ncCommits' = <<>>
  BY DEF Bound
<1>6. QED
  BY <1>2, <1>3, <1>4, <1>5 DEF Bound

LEMMA CurrentKept ==
    ASSUME NcTypeOK, Current, UNCHANGED <<ncDocument, ncCommits, ncRaced>>,
           ncOperations' \in Nat, ncOperations <= ncOperations',
           ncEvents' \in Nat, ncEvents <= ncEvents',
           \A t \in Tabs : ncStart'[t] # NoSession =>
             \/ ncStart'[t] = ncStart[t]
             \/ ncStart'[t] = ncDocument[t] /\ ncDocument[t].origin = "own"
    PROVE  Current'
<1>0. ncDocument \in [Tabs -> Documents] /\ ncCommits \in Seq(Navigations)
      /\ ncOperations \in Nat /\ ncEvents \in Nat
  BY TypeFacts, CounterFacts
<1>1. ASSUME NEW t \in Tabs PROVE ncDocument'[t].number <= ncEvents' + 1
  <2>1. ncDocument[t].number <= ncEvents + 1
    BY DEF Current
  <2>2. ncDocument[t].number \in Nat
    BY <1>0 DEF Documents
  <2>3. QED
    BY <1>0, <2>1, <2>2
<1>2. ASSUME NEW i \in DOMAIN ncCommits'
      PROVE  ToldAny(ncCommits, ncDocument, ncCommits[i].tab, i) /\ ncCommits[i].session <= ncOperations'
  <2>1. i \in DOMAIN ncCommits /\ ncCommits[i] \in Navigations
    BY <1>0
  <2>2. ncCommits[i].session \in Nat
    <3>1. ncCommits[i].session \in 0 .. MaxNcOperations
      BY <2>1 DEF Navigations
    <3>2. QED
      BY <3>1
  <2>3. ncCommits[i].session <= ncOperations /\ ToldAny(ncCommits, ncDocument, ncCommits[i].tab, i)
    BY <2>1 DEF Current
  <2>4. QED
    BY <1>0, <2>2, <2>3
<1>3. ASSUME NEW t \in Tabs, ncStart'[t] # NoSession
      PROVE  ncStart'[t].origin = "own" /\ (t \notin ncRaced' => ncStart'[t] = ncDocument'[t])
  BY <1>3 DEF Current
<1>4. QED
  BY <1>1, <1>2, <1>3 DEF Current
-----------------------------------------------------------------------------
(* The invariant holds initially, and of what holds the properties follow. *)

LEMMA NothingGood ==
    ASSUME NEW last
    PROVE  /\ Nothing \in Sessions /\ GoodSessions(Nothing, last)
           /\ Restored(Nothing) = Nothing
           /\ EntriesIn(Nothing, Tabs) = 0 /\ BytesIn(Nothing, Tabs) = 0
<1>1. Nothing \in Sessions /\ \A tab \in Tabs : Nothing[tab] = NoSession
  BY DEF Nothing, Sessions
<1>2. Restored(Nothing) = Nothing
  BY DEF Nothing, Restored
<1>3. \A tab \in Tabs : EntriesOf(Nothing)[tab] = 0 /\ BytesOf(Nothing)[tab] = 0
  BY <1>1 DEF EntriesOf, BytesOf, Entries, Bytes
<1>4. TotalOf(EntriesOf(Nothing), Tabs) = 0 /\ TotalOf(BytesOf(Nothing), Tabs) = 0
  BY <1>3, TabsFinite, TotalZero
<1>5. EntriesIn(Nothing, Tabs) = 0 /\ BytesIn(Nothing, Tabs) = 0
  BY <1>1, <1>4, TotalsOf
<1>6. Capturing(Nothing) = {}
  BY <1>1 DEF Capturing
<1>7. MaxAllEntries \in Nat /\ MaxAllBytes \in Nat /\ MaxSessions \in Nat
  BY NetworkCaptureConstants
<1>8. Cardinality(Capturing(Nothing)) <= MaxSessions
  BY <1>6, <1>7, FS_EmptySet
<1>9. EntriesIn(Nothing, Tabs) <= MaxAllEntries /\ BytesIn(Nothing, Tabs) <= MaxAllBytes
  BY <1>5, <1>7
<1>10. GoodSessions(Nothing, last)
  BY <1>1, <1>8, <1>9 DEF GoodSessions
<1>11. QED
  BY <1>1, <1>2, <1>5, <1>10

LEMMA CaptureInitially ==
    ASSUME NcInit
    PROVE  CaptureInvariant
<1> USE DEF NcInit
<1>0. MaxNcOperations \in Nat /\ MaxNcEvents \in Nat /\ MaxDeferred \in Nat
  BY NetworkCaptureConstants
<1>1. [number |-> 1, origin |-> "own"] \in Documents
  BY <1>0 DEF Documents, Origins
<1>2. NcTypeOK
  <2>1. Nothing \in [Tabs -> StoredSessions \cup {NoSession}] /\ Nothing \in [Tabs -> Documents \cup {NoSession}]
        /\ Nothing \in [Tabs -> CaptureSessions \cup {NoSession}]
    BY DEF Nothing
  <2>2. Len(ncDeferred) <= MaxDeferred
    BY <1>0
  <2>3. ncCommits \in Seq([tab : Tabs, document : Documents, session : 0 .. MaxNcOperations])
        /\ ncDeferred \in Seq([tab : Tabs, document : Documents, id : 1 .. MaxNcOperations])
    OBVIOUS
  <2>4. ncDocument \in [Tabs -> Documents]
    BY <1>1
  <2>5. ncOperations \in 0 .. MaxNcOperations /\ ncEvents \in 0 .. MaxNcEvents
    BY <1>0
  <2>6. QED
    BY <2>1, <2>2, <2>3, <2>4, <2>5 DEF NcTypeOK
<1>3. Accounts
  <2>1. /\ GoodSessions(Nothing, ncOperations) /\ Restored(Nothing) = Nothing
        /\ EntriesIn(Nothing, Tabs) = 0 /\ BytesIn(Nothing, Tabs) = 0
    BY NothingGood
  <2>2. QED
    BY <2>1 DEF Accounts
<1>4. Credits
  BY DEF Credits, Nothing
<1>5. Bound
  BY DEF Bound, Nothing
<1>6. Current
  BY DEF Current, Nothing
<1>7. QED
  BY <1>2, <1>3, <1>4, <1>5, <1>6 DEF CaptureInvariant

LEMMA CaptureFollows ==
    ASSUME CaptureInvariant
    PROVE  CaptureSound
<1> USE DEF CaptureInvariant
<1>1. /\ ncSession \in Sessions /\ GoodSessions(ncSession, ncOperations)
      /\ ncCount = EntriesIn(ncSession, Tabs) /\ ncBytes = BytesIn(ncSession, Tabs)
  BY DEF Accounts, GoodSessions
<1>2. \A tab \in Capturing(ncSession) : tab \in Tabs /\ ncSession[tab] # NoSession /\ Proper(ncSession[tab])
  BY <1>1 DEF Capturing, GoodSessions
<1>3. CaptureIsStored
  BY <1>2 DEF CaptureIsStored, Credits, Creditable, Holds
<1>4. CaptureAccounted
  BY <1>1, <1>2 DEF CaptureAccounted, GoodSessions, Proper, Weighed, Kept
<1>5. OnlyOwnRequests
  BY <1>2 DEF OnlyOwnRequests, Proper
<1>6. FollowsDocument
  <2>1. SUFFICES ASSUME ncLife = "on", ncCommits = <<>>, NEW tab \in Capturing(ncSession) \ ncRaced
                 PROVE  ncSession[tab].document = ncDocument[tab]
    BY DEF FollowsDocument
  <2>2. Follower(ncCommits, ncDocument, tab, ncSession[tab], ncRaced) /\ tab \notin ncRaced
    BY <1>2, <2>1 DEF Bound
  <2>3. ~Told(ncCommits, ncDocument, tab, ncSession[tab].id, 1)
    <3>1. DOMAIN ncCommits = {}
      BY <2>1
    <3>2. QED
      BY <3>1 DEF Told
  <2>4. QED
    BY <2>2, <2>3 DEF Follower
<1>7. NcTypeOK
  OBVIOUS
<1>8. QED
  BY <1>3, <1>4, <1>5, <1>6, <1>7 DEF CaptureSound

-----------------------------------------------------------------------------
(* The steps. *)

\* A step that only counts, defers or answers.
LEMMA QuietStep ==
    ASSUME CaptureInvariant,
           UNCHANGED <<ncDocument, ncCommits, ncSession, ncCount, ncBytes, ncStored, ncWrite, ncTimer,
                       ncWriting, ncMutated, ncLife, ncRaced, ncEvents>>,
           ncStart' \in [Tabs -> Documents \cup {NoSession}],
           \A t \in Tabs : ncStart'[t] # NoSession =>
             \/ ncStart'[t] = ncStart[t]
             \/ ncStart'[t] = ncDocument[t] /\ ncDocument[t].origin = "own",
           ncDeferred' \in Seq(Deferrals), Len(ncDeferred') <= MaxDeferred,
           ncOperations' \in 0 .. MaxNcOperations, ncOperations <= ncOperations'
    PROVE  CaptureInvariant'
<1>0. NcTypeOK /\ Accounts /\ Credits /\ Bound /\ Current
  BY DEF CaptureInvariant
<1>1. ncOperations' \in Nat /\ ncEvents' \in Nat /\ ncEvents <= ncEvents'
  <2>1. ncOperations' \in Nat
    OBVIOUS
  <2>2. QED
    BY <1>0, <2>1, CounterFacts
<1>2. NcTypeOK'
  BY <1>0, TypeFacts, TypeFrom
<1>3. Accounts'
  BY <1>0, <1>1, AccountsSame
<1>4. \A t \in Tabs : Marked(ncSession'[t], ncSession[t]) /\ SameDocument(ncSession'[t], ncSession[t])
  BY SessionsSame
<1>5. Credits'
  BY <1>0, <1>4, CreditsKept
<1>6. Bound'
  BY <1>0, <1>4, BoundKept
<1>7. Current'
  BY <1>0, <1>1, CurrentKept
<1>8. QED
  BY <1>2, <1>3, <1>5, <1>6, <1>7 DEF CaptureInvariant

\* A step that changes what sessions record, and not what they are bound to.
LEMMA CommittedStep ==
    ASSUME CaptureInvariant, Settled(ncOperations'),
           \A t \in Tabs : SameDocument(ncSession'[t], ncSession[t]),
           UNCHANGED <<ncDocument, ncCommits, ncStart, ncStored, ncWrite, ncWriting, ncLife, ncRaced,
                       ncEvents>>,
           ncDeferred' \in Seq(Deferrals), Len(ncDeferred') <= MaxDeferred,
           ncOperations' \in 0 .. MaxNcOperations, ncOperations <= ncOperations'
    PROVE  CaptureInvariant'
<1>0. NcTypeOK /\ Accounts /\ Credits /\ Bound /\ Current
  BY DEF CaptureInvariant
<1>1. ncOperations' \in Nat /\ ncEvents' \in Nat /\ ncEvents <= ncEvents'
  <2>1. ncOperations' \in Nat
    OBVIOUS
  <2>2. QED
    BY <1>0, <2>1, CounterFacts
<1>2. NcTypeOK'
  BY <1>0, TypeFacts, SettledType
<1>3. Accounts'
  BY <1>0, <1>1, AccountsKept
<1>4. Credits'
  BY <1>0, CreditsKept DEF Settled
<1>5. Bound'
  BY <1>0, BoundKept
<1>6. Current'
  BY <1>0, <1>1, CurrentKept
<1>7. QED
  BY <1>2, <1>3, <1>4, <1>5, <1>6 DEF CaptureInvariant

LEMMA SettledUntil ==
    ASSUME NEW last \in Nat, Settled(last), NEW now \in Nat, last <= now
    PROVE  Settled(now)
<1>1. GoodSessions(ncSession', last)
  BY DEF Settled
<1>2. PICK sessions : sessions = ncSession'
  OBVIOUS
<1>3. GoodSessions(sessions, now)
  BY <1>1, <1>2, GoodUntil
<1>4. QED
  BY <1>2, <1>3 DEF Settled

\* A request is of a document of its tab, or of one that a navigation is about to be told of.
LEMMA DeferTyped ==
    ASSUME NcTypeOK, NEW request \in Deferrals
    PROVE  Defer(request) \in Seq(Deferrals) /\ Len(Defer(request)) <= MaxDeferred
<1>1. ncDeferred \in Seq(Deferrals) /\ Len(ncDeferred) <= MaxDeferred /\ MaxDeferred \in Nat
  BY TypeFacts, NetworkCaptureConstants
<1>2. CASE Len(ncDeferred) >= MaxDeferred
  BY <1>1, <1>2 DEF Defer
<1>3. CASE ~(Len(ncDeferred) >= MaxDeferred)
  <2>1. /\ Append(ncDeferred, request) \in Seq(Deferrals)
        /\ Len(Append(ncDeferred, request)) = Len(ncDeferred) + 1 /\ Len(ncDeferred) \in Nat
    BY <1>1, AppendProperties, LenProperties
  <2>2. Len(ncDeferred) + 1 <= MaxDeferred
    BY <1>1, <1>3, <2>1
  <2>3. QED
    BY <1>3, <2>1, <2>2 DEF Defer
<1>4. QED
  BY <1>2, <1>3

LEMMA RequestStep ==
    ASSUME CaptureInvariant, NEW tab \in Tabs, Request(tab)
    PROVE  CaptureInvariant'
<1>0. NcTypeOK /\ Accounts
  BY DEF CaptureInvariant
<1>1. /\ Operation
      /\ UNCHANGED <<ncDocument, ncCommits, ncStart, ncStored, ncWrite, ncWriting, ncLife, ncRaced, ncEvents>>
  BY DEF Request
<1>2. /\ ncOperations' \in 0 .. MaxNcOperations /\ ncOperations' \in 1 .. MaxNcOperations
      /\ ncOperations \in Nat /\ ncOperations' \in Nat /\ ncOperations <= ncOperations'
  BY <1>0, <1>1, CounterFacts
<1>3. PICK document \in {ncDocument[tab]} \cup {ncCommits[i].document : i \in DOMAIN ncCommits} :
        IF ncLife = "restoring"
        THEN /\ ncDeferred' = Defer([tab |-> tab, document |-> document, id |-> ncOperations'])
             /\ UNCHANGED <<ncSession, ncCount, ncBytes, ncMutated, ncTimer>>
        ELSE /\ Matches(tab, document)
             /\ Recorded(tab, document, ncOperations')
             /\ UNCHANGED ncDeferred
  BY DEF Request
<1>4. document \in Documents
  <2>1. ncDocument \in [Tabs -> Documents] /\ ncCommits \in Seq(Navigations)
    BY <1>0, TypeFacts
  <2>2. \A i \in DOMAIN ncCommits : ncCommits[i].document \in Documents
    <3>1. \A i \in DOMAIN ncCommits : ncCommits[i] \in Navigations
      BY <2>1
    <3>2. QED
      BY <3>1 DEF Navigations
  <2>3. QED
    BY <1>3, <2>1, <2>2
<1>5. /\ ncDeferred \in Seq(Deferrals) /\ Len(ncDeferred) <= MaxDeferred
      /\ ncStart \in [Tabs -> Documents \cup {NoSession}]
  BY <1>0, TypeFacts
<1>6. CASE ncLife = "restoring"
  <2>1. PICK request : request = [tab |-> tab, document |-> document, id |-> ncOperations']
    OBVIOUS
  <2>2. request \in Deferrals
    BY <1>2, <1>4, <2>1 DEF Deferrals
  <2>3. ncDeferred' = Defer(request) /\ UNCHANGED <<ncSession, ncCount, ncBytes, ncMutated, ncTimer>>
    BY <1>3, <1>6, <2>1
  <2>4. ncDeferred' \in Seq(Deferrals) /\ Len(ncDeferred') <= MaxDeferred
    BY <1>0, <2>2, <2>3, DeferTyped
  <2>5. QED
    BY <1>1, <1>2, <1>5, <2>3, <2>4, QuietStep
<1>7. CASE ncLife # "restoring"
  <2>1. Matches(tab, document) /\ Recorded(tab, document, ncOperations') /\ UNCHANGED ncDeferred
    BY <1>3, <1>7
  <2>2. PICK id \in 1 .. MaxNcOperations : id = ncOperations'
    BY <1>2
  <2>3. Committed
    BY <1>0, <2>1, <2>2, RecordedKeeps
  <2>4. Settled(ncOperations')
    BY <1>2, <2>3, SettledUntil DEF Committed
  <2>5. QED
    BY <1>1, <1>2, <1>5, <2>1, <2>3, <2>4, CommittedStep DEF Committed
<1>8. QED
  BY <1>6, <1>7

LEMMA UpdateStep ==
    ASSUME CaptureInvariant, NEW tab \in Tabs, Update(tab)
    PROVE  CaptureInvariant'
<1>0. NcTypeOK /\ Accounts
  BY DEF CaptureInvariant
<1>1. /\ Operation /\ ncSession[tab] # NoSession
      /\ UNCHANGED <<ncDocument, ncCommits, ncStart, ncDeferred, ncStored, ncWrite, ncWriting, ncLife,
                     ncRaced, ncEvents>>
  BY DEF Update
<1>2. /\ ncOperations' \in 0 .. MaxNcOperations
      /\ ncOperations \in Nat /\ ncOperations' \in Nat /\ ncOperations <= ncOperations'
  BY <1>0, <1>1, CounterFacts
<1>3. PICK i \in DOMAIN ncSession[tab].records :
        ncSession[tab].records[i].size = 1 /\ Commits(tab, Grown(ncSession[tab], i))
  BY DEF Update
<1>4. Committed
  BY <1>0, <1>1, <1>3, UpdatedKeeps
<1>5. Settled(ncOperations')
  BY <1>2, <1>4, SettledUntil DEF Committed
<1>6. ncDeferred' \in Seq(Deferrals) /\ Len(ncDeferred') <= MaxDeferred
  BY <1>0, <1>1, TypeFacts
<1>7. QED
  BY <1>1, <1>2, <1>4, <1>5, <1>6, CommittedStep DEF Committed

LEMMA StartCaptureStep ==
    ASSUME CaptureInvariant, NEW tab \in Tabs, StartCapture(tab)
    PROVE  CaptureInvariant'
<1>0. NcTypeOK
  BY DEF CaptureInvariant
<1>1. /\ ncDocument[tab].origin = "own" /\ ncStart' = [ncStart EXCEPT ![tab] = ncDocument[tab]]
      /\ UNCHANGED <<ncDocument, ncCommits, ncSession, ncCount, ncBytes, ncDeferred, ncStored, ncWrite,
                     ncTimer, ncWriting, ncMutated, ncLife, ncRaced, ncOperations, ncEvents>>
  BY DEF StartCapture
<1>2. /\ ncStart \in [Tabs -> Documents \cup {NoSession}] /\ ncDocument \in [Tabs -> Documents]
      /\ ncDeferred' \in Seq(Deferrals) /\ Len(ncDeferred') <= MaxDeferred
      /\ ncOperations' \in 0 .. MaxNcOperations /\ ncOperations \in Nat
  BY <1>0, <1>1, TypeFacts, CounterFacts
<1>3. ncOperations <= ncOperations'
  BY <1>1, <1>2
<1>4. /\ ncStart' \in [Tabs -> Documents \cup {NoSession}]
      /\ \A t \in Tabs : ncStart'[t] # NoSession =>
           \/ ncStart'[t] = ncStart[t]
           \/ ncStart'[t] = ncDocument[t] /\ ncDocument[t].origin = "own"
  BY <1>1, <1>2
<1>5. QED
  BY <1>1, <1>2, <1>3, <1>4, QuietStep
LEMMA DeletedKeeps ==
    ASSUME NcTypeOK, Accounts, NEW tab \in Tabs, SessionsDeleted(ncSession, {tab})
    PROVE  Committed /\ ncSession'[tab] = NoSession
<1>1. GoodSessions(ncSession, ncOperations) /\ ncSession \in Sessions
  BY DEF Accounts, GoodSessions
<1>2. PICK sessions : sessions = [t \in Tabs |-> IF t \in {tab} THEN NoSession ELSE ncSession[t]]
  OBVIOUS
<1>3. /\ sessions \in Sessions /\ sessions[tab] = NoSession
      /\ \A t \in Tabs \ {tab} : sessions[t] = ncSession[t]
  BY <1>1, <1>2 DEF Sessions
<1>4. ASSUME NEW t \in Tabs, sessions[t] # NoSession
      PROVE  NoLarger(sessions[t], ncSession[t], ncOperations)
  <2>1. sessions[t] = ncSession[t] /\ Proper(ncSession[t]) /\ ncSession[t].id <= ncOperations
    BY <1>1, <1>3, <1>4 DEF GoodSessions
  <2>2. Len(ncSession[t].records) \in Nat /\ ncSession[t].bytes \in Nat
    BY <2>1, ProperFields
  <2>3. QED
    BY <1>4, <2>1, <2>2 DEF NoLarger
<1>5. GoodSessions(sessions, ncOperations)
  BY <1>1, <1>3, <1>4, GoodFewer
<1>6. PICK tabs, none : tabs = {tab} /\ none = {}
  OBVIOUS
<1>7. /\ ncCount' = ncCount - EntriesIn(ncSession, tabs) /\ ncBytes' = ncBytes - BytesIn(ncSession, tabs)
      /\ MarkDirty(sessions, none)
  BY <1>2, <1>6, Zenon DEF SessionsDeleted
<1>8. /\ tabs \in SUBSET Tabs
      /\ \A t \in Tabs \ tabs : /\ Entries(ncSession[t]) = Entries(sessions[t])
                                /\ Bytes(ncSession[t]) = Bytes(sessions[t])
      /\ \A t \in tabs : Entries(sessions[t]) = 0 /\ Bytes(sessions[t]) = 0
      /\ \A t \in Tabs : t \notin none => sessions[t] = NoSession \/ sessions[t] = ncSession[t]
  <2>1. Entries(sessions[tab]) = 0 /\ Bytes(sessions[tab]) = 0
    BY <1>3 DEF Entries, Bytes
  <2>2. QED
    BY <1>3, <1>6, <2>1
<1>9. Settled(ncOperations) /\ IsDirtied(ncSession', sessions, none)
  BY <1>5, <1>7, <1>8, DirtyKeeps
<1>10. \A t \in Tabs : ncSession'[t] = sessions[t]
  BY <1>6, <1>9 DEF IsDirtied
<1>11. \A t \in Tabs : SameDocument(ncSession'[t], ncSession[t])
  BY <1>3, <1>10 DEF SameDocument
<1>12. QED
  BY <1>3, <1>9, <1>10, <1>11 DEF Committed

LEMMA StopCaptureStep ==
    ASSUME CaptureInvariant, NEW tab \in Tabs, StopCapture(tab)
    PROVE  CaptureInvariant'
<1>0. NcTypeOK /\ Accounts
  BY DEF CaptureInvariant
<1>1. /\ Operation /\ SessionsDeleted(ncSession, {tab})
      /\ UNCHANGED <<ncDocument, ncCommits, ncStart, ncDeferred, ncStored, ncWrite, ncWriting, ncLife,
                     ncRaced, ncEvents>>
  BY DEF StopCapture
<1>2. /\ ncOperations' \in 0 .. MaxNcOperations
      /\ ncOperations \in Nat /\ ncOperations' \in Nat /\ ncOperations <= ncOperations'
  BY <1>0, <1>1, CounterFacts
<1>4. Committed
  BY <1>0, <1>1, DeletedKeeps
<1>5. Settled(ncOperations')
  BY <1>2, <1>4, SettledUntil DEF Committed
<1>6. ncDeferred' \in Seq(Deferrals) /\ Len(ncDeferred') <= MaxDeferred
  BY <1>0, <1>1, TypeFacts
<1>7. QED
  BY <1>1, <1>2, <1>4, <1>5, <1>6, CommittedStep DEF Committed

LEMMA ClearCaptureStep ==
    ASSUME CaptureInvariant, NEW tab \in Tabs, ClearCapture(tab)
    PROVE  CaptureInvariant'
<1>0. NcTypeOK /\ Accounts
  BY DEF CaptureInvariant
<1>1. /\ Operation /\ ncSession[tab] # NoSession
      /\ UNCHANGED <<ncDocument, ncCommits, ncStart, ncDeferred, ncStored, ncWrite, ncWriting, ncLife,
                     ncRaced, ncEvents>>
  BY DEF ClearCapture
<1>2. /\ ncOperations' \in 0 .. MaxNcOperations
      /\ ncOperations \in Nat /\ ncOperations' \in Nat /\ ncOperations <= ncOperations'
  BY <1>0, <1>1, CounterFacts
<1>3. GoodSessions(ncSession, ncOperations) /\ ncSession \in Sessions
  BY <1>0 DEF Accounts, GoodSessions
<1>4. PICK old : old = ncSession[tab]
  OBVIOUS
<1>5. Proper(old) /\ old.id <= ncOperations /\ old \in CaptureSessions
  BY <1>1, <1>3, <1>4, ProperFields DEF GoodSessions
<1>6. PICK empty : empty = [old EXCEPT !.records = <<>>, !.bytes = 0]
  OBVIOUS
<1>7. /\ empty \in CaptureSessions /\ empty.records = <<>> /\ empty.bytes = 0
      /\ empty.id = old.id /\ empty.document = old.document
  <2>1. <<>> \in Seq(Requests)
    OBVIOUS
  <2>2. QED
    BY <1>5, <1>6, <2>1 DEF CaptureSessions
<1>8. Proper(empty)
  <2>1. Weighed(empty)
    BY <1>7, SizeNone DEF Weighed
  <2>2. Kept(empty)
    <3>1. MaxBytes \in Nat /\ MaxEntries \in Nat
      BY NetworkCaptureConstants
    <3>2. QED
      BY <1>7, <3>1 DEF Kept
  <2>3. empty.document.origin = "own"
    BY <1>5, <1>7 DEF Proper
  <2>4. QED
    BY <1>7, <2>1, <2>2, <2>3 DEF Proper
<1>9. PICK sessions : sessions = [ncSession EXCEPT ![tab].records = <<>>, ![tab].bytes = 0]
  OBVIOUS
<1>10. sessions = [ncSession EXCEPT ![tab] = empty]
  BY <1>3, <1>4, <1>6, <1>9 DEF Sessions
<1>11. /\ sessions \in Sessions /\ sessions[tab] = empty /\ empty # NoSession
       /\ \A t \in Tabs \ {tab} : sessions[t] = ncSession[t]
  BY <1>3, <1>7, <1>10, NoSessionNone DEF Sessions
<1>12. ASSUME NEW t \in Tabs, sessions[t] # NoSession
       PROVE  NoLarger(sessions[t], ncSession[t], ncOperations')
  <2>1. ncSession[t] # NoSession /\ Proper(ncSession[t]) /\ ncSession[t].id <= ncOperations
    BY <1>1, <1>3, <1>11, <1>12 DEF GoodSessions
  <2>2. Len(ncSession[t].records) \in Nat /\ ncSession[t].bytes \in Nat /\ ncSession[t].id \in Nat
    BY <2>1, ProperFields
  <2>3. ncSession[t].id <= ncOperations'
    BY <1>2, <2>1, <2>2
  <2>4. CASE t = tab
    <3>1. sessions[t] = empty /\ old = ncSession[t]
      BY <1>4, <1>11, <2>4
    <3>2. Len(empty.records) = 0
      BY <1>7
    <3>3. QED
      BY <1>7, <1>8, <2>1, <2>2, <2>3, <3>1, <3>2 DEF NoLarger
  <2>5. CASE t # tab
    BY <1>11, <2>1, <2>2, <2>3, <2>5 DEF NoLarger
  <2>6. QED
    BY <2>4, <2>5
<1>13. GoodSessions(sessions, ncOperations')
  BY <1>3, <1>11, <1>12, GoodFewer
<1>14. PICK tabs : tabs = {tab}
  OBVIOUS
<1>15. /\ ncCount' = ncCount - EntriesIn(ncSession, tabs) /\ ncBytes' = ncBytes - BytesIn(ncSession, tabs)
       /\ MarkDirty(sessions, tabs)
  BY <1>9, <1>14, Zenon DEF ClearCapture
<1>16. /\ tabs \in SUBSET Tabs
       /\ \A t \in Tabs \ tabs : /\ Entries(ncSession[t]) = Entries(sessions[t])
                                 /\ Bytes(ncSession[t]) = Bytes(sessions[t])
       /\ \A t \in tabs : Entries(sessions[t]) = 0 /\ Bytes(sessions[t]) = 0
       /\ \A t \in Tabs : t \notin tabs => sessions[t] = NoSession \/ sessions[t] = ncSession[t]
  <2>1. Len(<<>>) = 0
    OBVIOUS
  <2>2. Entries(sessions[tab]) = 0 /\ Bytes(sessions[tab]) = 0
    BY <1>7, <1>11, <2>1 DEF Entries, Bytes
  <2>3. QED
    BY <1>11, <1>14, <2>2
<1>17. Settled(ncOperations') /\ IsDirtied(ncSession', sessions, tabs)
  BY <1>0, <1>13, <1>15, <1>16, DirtyKeeps
<1>18. ASSUME NEW t \in Tabs PROVE SameDocument(ncSession'[t], ncSession[t])
  <2>1. CASE t = tab
    <3>1. SameContent(ncSession'[tab], empty)
      BY <1>11, <1>17 DEF IsDirtied
    <3>2. QED
      BY <1>1, <1>4, <1>7, <2>1, <3>1 DEF SameDocument, SameContent
  <2>2. CASE t # tab
    <3>1. ncSession'[t] = ncSession[t]
      BY <1>11, <1>14, <1>17, <2>2 DEF IsDirtied
    <3>2. QED
      BY <3>1 DEF SameDocument
  <2>3. QED
    BY <2>1, <2>2
<1>19. ncDeferred' \in Seq(Deferrals) /\ Len(ncDeferred') <= MaxDeferred
  BY <1>0, <1>1, TypeFacts
<1>20. QED
  BY <1>1, <1>2, <1>17, <1>18, <1>19, CommittedStep

\* Who is evicted.
LEMMA EvictedOf ==
    ASSUME NcTypeOK, Accounts, NEW tab \in Tabs
    PROVE  /\ Evicted(tab) \in SUBSET Capturing(ncSession)
           /\ ncSession[tab] # NoSession => tab \in Evicted(tab)
           /\ Cardinality({tab} \cup (Capturing(ncSession) \ Evicted(tab))) <= MaxSessions
<1>1. PICK captured, others : captured = Capturing(ncSession) /\ others = captured \ {tab}
  OBVIOUS
<1>2. PICK oldest : oldest = (CHOOSE t \in others : \A u \in others : ncSession[t].id <= ncSession[u].id)
  OBVIOUS
<1>3. Evicted(tab) = (captured \cap {tab}) \cup (IF Cardinality(others) >= MaxSessions THEN {oldest} ELSE {})
  BY <1>1, <1>2, Zenon DEF Evicted
<1>4. /\ captured \in SUBSET Tabs /\ IsFiniteSet(captured) /\ Cardinality(captured) \in Nat
      /\ \A t : t \in captured <=> t \in Tabs /\ ncSession[t] # NoSession
      /\ Cardinality(captured) <= MaxSessions
  <2>1. GoodSessions(ncSession, ncOperations)
    BY DEF Accounts
  <2>2. Cardinality(captured) <= MaxSessions
    BY <1>1, <2>1 DEF GoodSessions
  <2>3. QED
    BY <1>1, <2>2, CapturingOf
<1>5. IsFiniteSet(others) /\ Cardinality(others) \in Nat /\ Cardinality(others) <= Cardinality(captured)
  <2>1. others \in SUBSET captured
    BY <1>1
  <2>2. QED
    BY <1>4, <2>1, FS_Subset, FS_CardinalityType
<1>6. MaxSessions \in Nat /\ MaxSessions >= 1
  BY NetworkCaptureConstants
<1>7. ASSUME Cardinality(others) >= MaxSessions PROVE oldest \in others
  <2>1. others # {}
    BY <1>5, <1>6, <1>7, FS_EmptySet
  <2> DEFINE ids == {ncSession[t].id : t \in others}
  <2>2. \A t \in others : ncSession[t].id \in Nat
    <3>1. \A t \in others : Proper(ncSession[t])
      BY <1>1, <1>4 DEF Accounts, GoodSessions
    <3>2. QED
      BY <3>1, ProperFields
  <2>3. ids \in SUBSET Nat /\ ids # {}
    BY <2>1, <2>2
  <2>4. PICK n \in ids : \A m \in ids : n <= m
    <3> HIDE DEF ids
    <3>1. QED
      BY <2>3, LeastNumber
  <2>5. PICK t \in others : n = ncSession[t].id
    BY <2>4
  <2>6. \A u \in others : ncSession[t].id <= ncSession[u].id
    BY <2>4, <2>5
  <2>7. QED
    BY <1>2, <2>6, Zenon
<1>8. Evicted(tab) \in SUBSET captured
  BY <1>1, <1>3, <1>7
<1>9. ncSession[tab] # NoSession => tab \in Evicted(tab)
  BY <1>3, <1>4
<1>10. Cardinality({tab} \cup (captured \ Evicted(tab))) <= MaxSessions
  <2>1. CASE Cardinality(others) >= MaxSessions
    <3>1. PICK left : left = others \ {oldest}
      OBVIOUS
    <3>2. IsFiniteSet(left) /\ Cardinality(left) = Cardinality(others) - 1
      BY <1>5, <1>7, <2>1, <3>1, FS_RemoveElement
    <3>3. {tab} \cup (captured \ Evicted(tab)) = left \cup {tab} /\ tab \notin left
      BY <1>1, <1>3, <2>1, <3>1
    <3>4. Cardinality(left \cup {tab}) = Cardinality(left) + 1
      BY <3>2, <3>3, FS_AddElement
    <3>5. QED
      BY <1>4, <1>5, <1>6, <3>2, <3>3, <3>4
  <2>2. CASE ~(Cardinality(others) >= MaxSessions)
    <3>1. {tab} \cup (captured \ Evicted(tab)) = others \cup {tab} /\ tab \notin others
      BY <1>1, <1>3, <2>2
    <3>2. Cardinality(others \cup {tab}) = Cardinality(others) + 1
      BY <1>5, <3>1, FS_AddElement
    <3>3. QED
      BY <1>5, <1>6, <2>2, <3>1, <3>2
  <2>3. QED
    BY <2>1, <2>2
<1>11. QED
  BY <1>1, <1>8, <1>9, <1>10
LEMMA StartedStep ==
    ASSUME CaptureInvariant, NEW tab \in Tabs, Started(tab)
    PROVE  CaptureInvariant'
<1>0. NcTypeOK /\ Accounts /\ Credits /\ Bound /\ Current
  BY DEF CaptureInvariant
<1>1. /\ ncLife = "on" /\ ncStart[tab] # NoSession /\ Operation
      /\ ncStart' = [ncStart EXCEPT ![tab] = NoSession]
      /\ UNCHANGED <<ncDocument, ncCommits, ncDeferred, ncStored, ncWrite, ncWriting, ncLife, ncRaced,
                     ncEvents>>
  BY DEF Started
<1>2. /\ ncOperations' \in 0 .. MaxNcOperations /\ ncOperations' \in 1 .. MaxNcOperations
      /\ ncOperations \in Nat /\ ncOperations' \in Nat /\ ncOperations <= ncOperations'
      /\ ncOperations < ncOperations'
  BY <1>0, <1>1, CounterFacts
<1>3. GoodSessions(ncSession, ncOperations) /\ ncSession \in Sessions
  BY <1>0 DEF Accounts, GoodSessions
<1>4. /\ ncStart[tab] \in Documents /\ ncStart[tab].origin = "own"
      /\ tab \notin ncRaced => ncStart[tab] = ncDocument[tab]
      /\ ncStart \in [Tabs -> Documents \cup {NoSession}]
  BY <1>0, <1>1, TypeFacts DEF Current
<1>5. PICK new : new = [id |-> ncOperations', document |-> ncStart[tab], records |-> <<>>,
                        bytes |-> 0, persistence |-> "pending", newer |-> TRUE]
  OBVIOUS
<1>6. /\ new \in CaptureSessions /\ new.records = <<>> /\ new.bytes = 0
      /\ new.id = ncOperations' /\ new.document = ncStart[tab]
  <2>1. <<>> \in Seq(Requests)
    OBVIOUS
  <2>2. PICK id : id = ncOperations'
    OBVIOUS
  <2>3. id \in 1 .. MaxNcOperations
    BY <1>2, <2>2
  <2>4. new = [id |-> id, document |-> ncStart[tab], records |-> <<>>,
               bytes |-> 0, persistence |-> "pending", newer |-> TRUE]
    BY <1>5, <2>2
  <2>5. /\ new \in CaptureSessions /\ new.records = <<>> /\ new.bytes = 0
        /\ new.id = id /\ new.document = ncStart[tab]
    BY <1>4, <2>1, <2>3, <2>4 DEF CaptureSessions
  <2>6. QED
    BY <2>2, <2>5
<1>7. Proper(new) /\ new # NoSession
  <2>1. Weighed(new)
    BY <1>6, SizeNone DEF Weighed
  <2>2. Kept(new)
    <3>1. MaxBytes \in Nat /\ MaxEntries \in Nat
      BY NetworkCaptureConstants
    <3>2. QED
      BY <1>6, <3>1 DEF Kept
  <2>3. QED
    BY <1>4, <1>6, <2>1, <2>2, NoSessionNone DEF Proper
<1>8. PICK tabs : tabs = Evicted(tab)
  OBVIOUS
<1>9. /\ tabs \in SUBSET Capturing(ncSession) /\ (ncSession[tab] # NoSession => tab \in tabs)
      /\ Cardinality({tab} \cup (Capturing(ncSession) \ tabs)) <= MaxSessions
  BY <1>0, <1>8, EvictedOf
<1>10. PICK sessions : sessions = [t \in Tabs |-> IF t = tab THEN new
                                                  ELSE IF t \in tabs THEN NoSession ELSE ncSession[t]]
  OBVIOUS
<1>11. /\ sessions \in Sessions /\ sessions[tab] = new
       /\ \A t \in Tabs \ {tab} : t \in tabs => sessions[t] = NoSession
       /\ \A t \in Tabs \ {tab} : t \notin tabs => sessions[t] = ncSession[t]
  BY <1>3, <1>6, <1>10 DEF Sessions
<1>12. Entries(new) = 0 /\ Bytes(new) = 0 /\ Entries(NoSession) = 0 /\ Bytes(NoSession) = 0
  <2>1. Len(<<>>) = 0
    OBVIOUS
  <2>2. QED
    BY <1>6, <1>7, <2>1 DEF Entries, Bytes
<1>13. \A t \in Tabs : Entries(ncSession[t]) \in Nat /\ Bytes(ncSession[t]) \in Nat
  BY <1>3, TotalsOf
<1>14. GoodSessions(sessions, ncOperations')
  <2>1. \A t \in Tabs : /\ Entries(sessions[t]) <= Entries(ncSession[t])
                        /\ Bytes(sessions[t]) <= Bytes(ncSession[t])
    <3>1. ASSUME NEW t \in Tabs
          PROVE  /\ Entries(sessions[t]) <= Entries(ncSession[t])
                 /\ Bytes(sessions[t]) <= Bytes(ncSession[t])
      <4>1. CASE t = tab \/ t \in tabs
        <5>1. Entries(sessions[t]) = 0 /\ Bytes(sessions[t]) = 0
          BY <1>11, <1>12, <4>1
        <5>2. QED
          BY <1>13, <5>1
      <4>2. CASE t # tab /\ t \notin tabs
        <5>1. sessions[t] = ncSession[t]
          BY <1>11, <4>2
        <5>2. QED
          BY <1>13, <5>1
      <4>3. QED
        BY <4>1, <4>2
    <3>2. QED
      BY <3>1
  <2>2. /\ EntriesIn(sessions, Tabs) <= EntriesIn(ncSession, Tabs)
        /\ BytesIn(sessions, Tabs) <= BytesIn(ncSession, Tabs)
    BY <1>3, <1>11, <2>1, TotalsFewer
  <2>3. EntriesIn(sessions, Tabs) <= MaxAllEntries /\ BytesIn(sessions, Tabs) <= MaxAllBytes
    <3>1. /\ EntriesIn(sessions, Tabs) \in Nat /\ BytesIn(sessions, Tabs) \in Nat
          /\ EntriesIn(ncSession, Tabs) \in Nat /\ BytesIn(ncSession, Tabs) \in Nat
      BY <1>3, <1>11, TotalsNat
    <3>2. MaxAllEntries \in Nat /\ MaxAllBytes \in Nat
      BY NetworkCaptureConstants
    <3>3. EntriesIn(ncSession, Tabs) <= MaxAllEntries /\ BytesIn(ncSession, Tabs) <= MaxAllBytes
      BY <1>3 DEF GoodSessions
    <3>4. QED
      BY <2>2, <3>1, <3>2, <3>3
  <2>4. Capturing(sessions) = {tab} \cup (Capturing(ncSession) \ tabs)
    BY <1>7, <1>9, <1>11 DEF Capturing
  <2>5. ASSUME NEW t \in Tabs, sessions[t] # NoSession
        PROVE  Proper(sessions[t]) /\ sessions[t].id <= ncOperations'
    <3>1. CASE t = tab
      BY <1>2, <1>6, <1>7, <1>11, <3>1
    <3>2. CASE t # tab
      <4>1. sessions[t] = ncSession[t]
        BY <1>11, <2>5, <3>2
      <4>2. Proper(ncSession[t]) /\ ncSession[t].id <= ncOperations
        BY <1>3, <2>5, <4>1 DEF GoodSessions
      <4>3. ncSession[t].id \in Nat
        BY <4>2, ProperFields
      <4>4. QED
        BY <1>2, <4>1, <4>2, <4>3
    <3>3. QED
      BY <3>1, <3>2
  <2>6. QED
    BY <1>9, <1>11, <2>3, <2>4, <2>5 DEF GoodSessions
<1>15. PICK changed : changed = {tab}
  OBVIOUS
<1>16. /\ ncCount' = ncCount - EntriesIn(ncSession, tabs) /\ ncBytes' = ncBytes - BytesIn(ncSession, tabs)
       /\ MarkDirty(sessions, changed)
  BY <1>5, <1>8, <1>10, <1>15, Zenon DEF Started
<1>17. /\ tabs \in SUBSET Tabs
       /\ \A t \in Tabs \ tabs : /\ Entries(ncSession[t]) = Entries(sessions[t])
                                 /\ Bytes(ncSession[t]) = Bytes(sessions[t])
       /\ \A t \in tabs : Entries(sessions[t]) = 0 /\ Bytes(sessions[t]) = 0
       /\ \A t \in Tabs : t \notin changed => sessions[t] = NoSession \/ sessions[t] = ncSession[t]
  <2>1. tabs \in SUBSET Tabs
    BY <1>9 DEF Capturing
  <2>2. QED
    BY <1>9, <1>11, <1>12, <1>15, <2>1
<1>18. Settled(ncOperations') /\ IsDirtied(ncSession', sessions, changed)
  BY <1>0, <1>14, <1>16, <1>17, DirtyKeeps
<1>19. ncStart' \in [Tabs -> Documents \cup {NoSession}]
       /\ \A t \in Tabs : ncStart'[t] # NoSession => ncStart'[t] = ncStart[t]
  BY <1>1, <1>4
<1>20. NcTypeOK'
  BY <1>0, <1>1, <1>2, <1>18, <1>19, TypeFacts, SettledType
<1>21. Accounts'
  BY <1>0, <1>1, <1>2, <1>18, AccountsKept
<1>22. Credits'
  BY <1>0, <1>1, <1>18, CreditsKept DEF Settled
<1>23. Current'
  <2>1. ncEvents' \in Nat /\ ncEvents <= ncEvents'
    <3>1. ncEvents \in Nat
      BY <1>0, CounterFacts
    <3>2. QED
      BY <1>1, <3>1
  <2>2. QED
    BY <1>0, <1>1, <1>2, <1>19, <2>1, CurrentKept
<1>24. Bound'
  <2>1. ASSUME NEW t \in Tabs, ncSession'[t] # NoSession
        PROVE  Follower(ncCommits, ncDocument, t, ncSession'[t], ncRaced)
    <3>1. CASE t = tab
      <4>1. SameContent(ncSession'[t], new)
        BY <1>7, <1>11, <1>18, <3>1 DEF IsDirtied
      <4>2. ncSession'[t].id = ncOperations' /\ ncSession'[t].document = ncStart[tab]
        BY <1>6, <4>1 DEF SameContent
      <4>3. \A i \in DOMAIN ncCommits : ncCommits[i].session # ncOperations'
        <5>1. ncCommits \in Seq(Navigations)
          BY <1>0, TypeFacts
        <5>2. \A i \in DOMAIN ncCommits : ncCommits[i] \in Navigations /\ ncCommits[i].session <= ncOperations
          BY <1>0, <5>1 DEF Current
        <5>3. \A i \in DOMAIN ncCommits : ncCommits[i].session \in 0 .. MaxNcOperations
          BY <5>2 DEF Navigations
        <5>4. QED
          BY <1>2, <5>2, <5>3
      <4>4. QED
        BY <1>4, <3>1, <4>2, <4>3 DEF Follower
    <3>2. CASE t # tab
      <4>1. ncSession'[t] = sessions[t] /\ sessions[t] = ncSession[t]
        BY <1>11, <1>15, <1>18, <2>1, <3>2 DEF IsDirtied
      <4>2. QED
        BY <1>0, <1>1, <2>1, <4>1 DEF Bound
    <3>3. QED
      BY <3>1, <3>2
  <2>2. QED
    BY <1>1, <2>1 DEF Bound
<1>25. QED
  BY <1>20, <1>21, <1>22, <1>23, <1>24 DEF CaptureInvariant

-----------------------------------------------------------------------------
(* Navigations. *)

LEMMA AppendedCommit ==
    ASSUME NEW commits \in Seq(Navigations), NEW commit \in Navigations,
           NEW document, NEW moved, NEW tab, commit.tab = tab, commit.document = moved[tab],
           NEW t, t # tab => moved[t] = document[t]
    PROVE  /\ \A first : first <= Len(commits) + 1 =>
                /\ t = tab => Told(Append(commits, commit), moved, t, commit.session, first)
                /\ t = tab => ToldAny(Append(commits, commit), moved, t, first)
           /\ t # tab => \A first : /\ ToldAny(commits, document, t, first) =>
                                         ToldAny(Append(commits, commit), moved, t, first)
                                    /\ \A id : Told(commits, document, t, id, first) =>
                                                 Told(Append(commits, commit), moved, t, id, first)
<1>1. PICK longer, n : longer = Append(commits, commit) /\ n = Len(commits)
  OBVIOUS
<1>2. /\ n \in Nat /\ DOMAIN longer = 1 .. n + 1 /\ DOMAIN commits = 1 .. n /\ longer[n + 1] = commit
      /\ \A j \in 1 .. n : longer[j] = commits[j]
  BY <1>1
<1>3. n + 1 \in DOMAIN longer /\ \A j \in DOMAIN commits : j \in DOMAIN longer
  BY <1>2
<1>4. ASSUME NEW first, first <= n + 1, t = tab
      PROVE  Told(longer, moved, t, commit.session, first) /\ ToldAny(longer, moved, t, first)
  BY <1>2, <1>3, <1>4 DEF Told, ToldAny
<1>5. ASSUME NEW first, t # tab, ToldAny(commits, document, t, first) PROVE ToldAny(longer, moved, t, first)
  BY <1>2, <1>3, <1>5 DEF ToldAny
<1>6. ASSUME NEW first, t # tab, NEW id, Told(commits, document, t, id, first)
      PROVE  Told(longer, moved, t, id, first)
  BY <1>2, <1>3, <1>6 DEF Told
<1>7. QED
  BY <1>1, <1>4, <1>5, <1>6

LEMMA SessionIdOf ==
    ASSUME NcTypeOK, Accounts, NEW tab \in Tabs
    PROVE  /\ SessionId(ncSession, tab) \in 0 .. MaxNcOperations
           /\ SessionId(ncSession, tab) \in Nat /\ SessionId(ncSession, tab) <= ncOperations
           /\ ncSession[tab] # NoSession =>
                SessionId(ncSession, tab) = ncSession[tab].id /\ SessionId(ncSession, tab) # 0
           /\ ncSession[tab] = NoSession => SessionId(ncSession, tab) = 0
<1>1. ncOperations \in Nat /\ MaxNcOperations \in Nat
  BY CounterFacts, NetworkCaptureConstants
<1>2. CASE ncSession[tab] = NoSession
  BY <1>1, <1>2 DEF SessionId
<1>3. CASE ncSession[tab] # NoSession
  <2>1. Proper(ncSession[tab]) /\ ncSession[tab].id <= ncOperations
    BY <1>3 DEF Accounts, GoodSessions
  <2>2. ncSession[tab].id \in 1 .. MaxNcOperations
    BY <2>1, SessionFields DEF Proper, Weighed
  <2>3. QED
    BY <1>1, <1>3, <2>1, <2>2 DEF SessionId
<1>4. QED
  BY <1>2, <1>3

LEMMA NavigateStep ==
    ASSUME CaptureInvariant, NEW tab \in Tabs, Navigate(tab)
    PROVE  CaptureInvariant'
<1>0. NcTypeOK /\ Accounts /\ Credits /\ Bound /\ Current
  BY DEF CaptureInvariant
<1>1. /\ ncLife # "replaying" /\ NcEvent
      /\ ncCommits' = Append(ncCommits, [tab |-> tab, document |-> ncDocument'[tab],
                                         session |-> SessionId(ncSession, tab)])
      /\ ncRaced' = IF ncStart[tab] # NoSession THEN ncRaced \cup {tab} ELSE ncRaced
      /\ ncLife' = IF ncLife = "off" THEN "restoring" ELSE ncLife
      /\ UNCHANGED <<ncSession, ncCount, ncBytes, ncStart, ncDeferred, ncStored, ncWrite, ncTimer,
                     ncWriting, ncMutated, ncOperations>>
  BY DEF Navigate
<1>2. PICK origin \in Origins :
        ncDocument' = [ncDocument EXCEPT ![tab] = [number |-> @.number + 1, origin |-> origin]]
  BY DEF Navigate
<1>3. /\ ncDocument \in [Tabs -> Documents] /\ ncCommits \in Seq(Navigations) /\ ncRaced \subseteq Tabs
      /\ ncLife \in {"off", "restoring", "replaying", "on"} /\ ncDocument[tab].number <= ncEvents + 1
  BY <1>0, TypeFacts DEF Current
<1>4. /\ ncEvents \in Nat /\ ncEvents' = ncEvents + 1 /\ ncEvents' \in 0 .. MaxNcEvents
      /\ ncEvents + 2 \in 1 .. MaxNcEvents + 1 /\ ncOperations \in Nat
  BY <1>0, <1>1, CounterFacts
<1>5. PICK shown : shown = [number |-> ncDocument[tab].number + 1, origin |-> origin]
  OBVIOUS
<1>6. shown \in Documents /\ shown.number = ncDocument[tab].number + 1 /\ ncDocument[tab].number \in Nat
  <2>1. ncDocument[tab].number \in 1 .. MaxNcEvents + 1
    BY <1>3 DEF Documents
  <2>2. ncDocument[tab].number \in Nat
    BY <2>1
  <2>3. MaxNcEvents \in Nat
    BY NetworkCaptureConstants
  <2>4. ncDocument[tab].number + 1 \in 1 .. MaxNcEvents + 1
    BY <1>3, <1>4, <2>2, <2>3
  <2>5. QED
    BY <1>5, <2>2, <2>4 DEF Documents
<1>7. PICK moved : moved = ncDocument'
  OBVIOUS
<1>8. moved = [ncDocument EXCEPT ![tab] = shown]
  BY <1>2, <1>5, <1>7
<1>9. moved \in [Tabs -> Documents] /\ moved[tab] = shown /\ \A t \in Tabs \ {tab} : moved[t] = ncDocument[t]
  BY <1>3, <1>6, <1>8
<1>10. PICK commit : commit = [tab |-> tab, document |-> shown, session |-> SessionId(ncSession, tab)]
  OBVIOUS
<1>11. /\ commit \in Navigations /\ commit.tab = tab /\ commit.document = moved[tab]
       /\ commit.session = SessionId(ncSession, tab)
  <2>1. SessionId(ncSession, tab) \in 0 .. MaxNcOperations
    BY <1>0, SessionIdOf
  <2>2. QED
    BY <1>6, <1>9, <1>10, <2>1 DEF Navigations
<1>12. PICK commits : commits = Append(ncCommits, commit)
  OBVIOUS
<1>13. ncCommits' = commits /\ commits \in Seq(Navigations)
  <2>1. ncCommits' = commits
    BY <1>1, <1>7, <1>9, <1>10, <1>12
  <2>2. QED
    BY <1>3, <1>11, <1>12, <2>1
<1>14. /\ Len(ncCommits) \in Nat /\ Len(commits) = Len(ncCommits) + 1 /\ commits[Len(ncCommits) + 1] = commit
       /\ DOMAIN commits = 1 .. Len(ncCommits) + 1 /\ DOMAIN ncCommits = 1 .. Len(ncCommits)
       /\ \A i \in DOMAIN ncCommits : commits[i] = ncCommits[i]
  BY <1>3, <1>11, <1>12
<1>15. ASSUME NEW t \in Tabs
       PROVE  /\ \A first : first <= Len(ncCommits) + 1 =>
                   /\ t = tab => Told(commits, moved, t, commit.session, first)
                   /\ t = tab => ToldAny(commits, moved, t, first)
              /\ t # tab => \A first : /\ ToldAny(ncCommits, ncDocument, t, first) =>
                                            ToldAny(commits, moved, t, first)
                                       /\ \A id : Told(ncCommits, ncDocument, t, id, first) =>
                                                    Told(commits, moved, t, id, first)
  <2>1. t # tab => moved[t] = ncDocument[t]
    BY <1>9
  <2>2. QED
    BY <1>3, <1>11, <1>12, <2>1, AppendedCommit
<1>16. NcTypeOK'
  <2>1. ncRaced' \subseteq Tabs /\ ncLife' \in {"off", "restoring", "replaying", "on"}
    BY <1>1, <1>3
  <2>2. ncDocument' \in [Tabs -> Documents] /\ ncCommits' \in Seq(Navigations)
    BY <1>7, <1>9, <1>13
  <2>3. QED
    BY <1>0, <1>1, <1>4, <2>1, <2>2, TypeFacts, TypeFrom
<1>17. Accounts'
  <2>1. ncOperations' \in Nat /\ ncOperations <= ncOperations'
    BY <1>1, <1>4
  <2>2. QED
    BY <1>0, <1>1, <2>1, AccountsSame
<1>18. Credits'
  <2>1. \A t \in Tabs : Marked(ncSession'[t], ncSession[t])
    BY <1>1, SessionsSame
  <2>2. ncLife' # "on" => ncLife # "on"
    BY <1>1
  <2>3. QED
    BY <1>0, <1>1, <2>1, <2>2, CreditsKept
<1>19. Current'
  <2>1. ASSUME NEW t \in Tabs PROVE moved[t].number <= ncEvents' + 1
    <3>1. CASE t = tab
      BY <1>3, <1>4, <1>6, <1>9, <3>1
    <3>2. CASE t # tab
      <4>1. ncDocument[t].number <= ncEvents + 1 /\ moved[t] = ncDocument[t]
        BY <1>0, <1>9, <3>2 DEF Current
      <4>2. ncDocument[t].number \in 1 .. MaxNcEvents + 1
        BY <1>3 DEF Documents
      <4>3. QED
        BY <1>4, <4>1, <4>2
    <3>3. QED
      BY <3>1, <3>2
  <2>2. ASSUME NEW i \in DOMAIN commits
        PROVE  ToldAny(commits, moved, commits[i].tab, i) /\ commits[i].session <= ncOperations
    <3>1. i <= Len(ncCommits) + 1 /\ commits[i].tab \in Tabs
      <4>1. commits[i] \in Navigations
        BY <1>13, <2>2
      <4>2. QED
        BY <1>14, <2>2, <4>1 DEF Navigations
    <3>2. ToldAny(commits, moved, commits[i].tab, i)
      <4>1. CASE commits[i].tab = tab
        BY <1>15, <3>1, <4>1
      <4>2. CASE commits[i].tab # tab
        <5>1. i \in DOMAIN ncCommits
          <6>1. i # Len(ncCommits) + 1
            BY <1>11, <1>14, <4>2
          <6>2. QED
            BY <1>14, <2>2, <6>1
        <5>2. ToldAny(ncCommits, ncDocument, ncCommits[i].tab, i) /\ commits[i] = ncCommits[i]
          BY <1>0, <1>14, <5>1 DEF Current
        <5>3. QED
          BY <1>15, <3>1, <4>2, <5>2
      <4>3. QED
        BY <4>1, <4>2
    <3>3. commits[i].session <= ncOperations
      <4>1. CASE i = Len(ncCommits) + 1
        <5>1. SessionId(ncSession, tab) <= ncOperations
          BY <1>0, SessionIdOf
        <5>2. QED
          BY <1>11, <1>14, <4>1, <5>1
      <4>2. CASE i # Len(ncCommits) + 1
        <5>1. i \in DOMAIN ncCommits
          BY <1>14, <2>2, <4>2
        <5>2. QED
          BY <1>0, <1>14, <5>1 DEF Current
      <4>3. QED
        BY <4>1, <4>2
    <3>4. QED
      BY <3>2, <3>3
  <2>3. ASSUME NEW t \in Tabs, ncStart[t] # NoSession
        PROVE  ncStart[t].origin = "own" /\ (t \notin ncRaced' => ncStart[t] = moved[t])
    <3>1. ncStart[t].origin = "own" /\ (t \notin ncRaced => ncStart[t] = ncDocument[t])
      BY <1>0, <2>3 DEF Current
    <3>2. t \notin ncRaced' => t # tab /\ t \notin ncRaced
      BY <1>1, <2>3
    <3>3. QED
      BY <1>9, <3>1, <3>2
  <2>4. QED
    BY <1>1, <1>7, <1>13, <2>1, <2>2, <2>3 DEF Current
<1>20. Bound'
  <2>1. ASSUME ncLife' = "on", NEW t \in Tabs, ncSession[t] # NoSession
        PROVE  Follower(commits, moved, t, ncSession[t], ncRaced')
    <3>1. Follower(ncCommits, ncDocument, t, ncSession[t], ncRaced)
      BY <1>0, <1>1, <2>1 DEF Bound
    <3>2. CASE t = tab
      <4>1. commit.session = ncSession[t].id
        BY <1>0, <1>11, <2>1, <3>2, SessionIdOf
      <4>2. \A first : first <= Len(ncCommits) + 1 => Told(commits, moved, t, ncSession[t].id, first)
        BY <1>15, <3>2, <4>1
      <4>3. 1 <= Len(ncCommits) + 1 /\ \A i \in DOMAIN commits : i <= Len(ncCommits) + 1
        BY <1>14
      <4>4. QED
        BY <4>2, <4>3 DEF Follower
    <3>3. CASE t # tab
      <4>1. t \notin ncRaced' => t \notin ncRaced
        BY <1>1
      <4>2. PICK id : id = ncSession[t].id
        OBVIOUS
      <4>3. \A first : Told(ncCommits, ncDocument, t, id, first) => Told(commits, moved, t, id, first)
        BY <1>15, <3>3
      <4>4. moved[t] = ncDocument[t]
        BY <1>9, <3>3
      <4>5. ASSUME NEW i \in DOMAIN commits, commits[i].tab = t, commits[i].session = id
            PROVE  Told(commits, moved, t, id, i)
        <5>1. i # Len(ncCommits) + 1
          BY <1>11, <1>14, <3>3, <4>5
        <5>2. i \in DOMAIN ncCommits /\ commits[i] = ncCommits[i]
          BY <1>14, <4>5, <5>1
        <5>3. Told(ncCommits, ncDocument, t, id, i)
          BY <3>1, <4>2, <4>5, <5>2 DEF Follower
        <5>4. QED
          BY <4>3, <5>3
      <4>6. t \notin ncRaced' => ncSession[t].document = moved[t] \/ Told(commits, moved, t, id, 1)
        BY <3>1, <4>1, <4>2, <4>3, <4>4 DEF Follower
      <4>7. QED
        BY <4>2, <4>5, <4>6 DEF Follower
    <3>4. QED
      BY <3>2, <3>3
  <2>2. ASSUME ncLife' \in {"off", "restoring"}, NEW t \in Tabs \ ncRaced', ncStored[t] # NoSession
        PROVE  Waits(commits, moved, t, ncStored[t])
    <3>1. CASE t = tab
      <4>1. 1 <= Len(ncCommits) + 1
        BY <1>14
      <4>2. ToldAny(commits, moved, t, 1)
        BY <1>15, <3>1, <4>1
      <4>3. QED
        BY <4>2 DEF Waits
    <3>2. CASE t # tab
      <4>1. t \notin ncRaced /\ ncLife \in {"off", "restoring"}
        BY <1>1, <2>2
      <4>2. Waits(ncCommits, ncDocument, t, ncStored[t])
        BY <1>0, <2>2, <4>1 DEF Bound
      <4>3. moved[t] = ncDocument[t] /\ (ToldAny(ncCommits, ncDocument, t, 1) => ToldAny(commits, moved, t, 1))
        BY <1>9, <1>15, <2>2, <3>2
      <4>4. QED
        BY <4>2, <4>3 DEF Waits
    <3>3. QED
      BY <3>1, <3>2
  <2>3. ncLife' # "replaying" /\ ncLife' # "off"
    BY <1>1, <1>3
  <2>4. QED
    BY <1>1, <1>7, <1>13, <2>1, <2>2, <2>3 DEF Bound
<1>21. QED
  BY <1>16, <1>17, <1>18, <1>19, <1>20 DEF CaptureInvariant

-----------------------------------------------------------------------------
(* What is written, and what is read again. *)

\* Sessions with the contents of others keep to what those do.
LEMMA SameContents ==
    ASSUME NEW before, NEW last, GoodSessions(before, last), NEW after \in Sessions,
           \A tab \in Tabs : before[tab] = NoSession => after[tab] = NoSession,
           \A tab \in Tabs : before[tab] # NoSession =>
             after[tab] # NoSession /\ SameContent(after[tab], before[tab])
    PROVE  /\ GoodSessions(after, last)
           /\ EntriesIn(after, Tabs) = EntriesIn(before, Tabs)
           /\ BytesIn(after, Tabs) = BytesIn(before, Tabs)
           /\ \A tab \in Tabs : SameDocument(after[tab], before[tab])
<1>1. before \in Sessions
  BY DEF GoodSessions
<1>2. ASSUME NEW tab \in Tabs, after[tab] # NoSession
      PROVE  NoLarger(after[tab], before[tab], last) /\ before[tab] # NoSession
  <2>1. before[tab] # NoSession /\ after[tab] \in CaptureSessions /\ SameContent(after[tab], before[tab])
    BY <1>2 DEF Sessions
  <2>2. Proper(before[tab]) /\ before[tab].id <= last
    BY <2>1 DEF GoodSessions
  <2>3. Proper(after[tab])
    BY <2>1, <2>2, ProperSame
  <2>4. Len(before[tab].records) \in Nat /\ before[tab].bytes \in Nat
    BY <2>2, ProperFields
  <2>5. QED
    BY <2>1, <2>2, <2>3, <2>4 DEF NoLarger, SameContent
<1>3. GoodSessions(after, last)
  BY <1>2, GoodFewer
<1>4. ASSUME NEW tab \in Tabs
      PROVE  Entries(after[tab]) = Entries(before[tab]) /\ Bytes(after[tab]) = Bytes(before[tab])
  <2>1. CASE before[tab] = NoSession
    BY <2>1
  <2>2. CASE before[tab] # NoSession
    <3>1. /\ after[tab] # NoSession /\ after[tab].records = before[tab].records
          /\ after[tab].bytes = before[tab].bytes
      BY <2>2 DEF SameContent
    <3>2. QED
      BY <2>2, <3>1 DEF Entries, Bytes
  <2>3. QED
    BY <2>1, <2>2
<1>5. \A tab \in Tabs : SameDocument(after[tab], before[tab])
  BY <1>2 DEF SameDocument, SameContent
<1>6. QED
  BY <1>1, <1>3, <1>4, <1>5, TotalsSame

Snapshot(sessions) ==
    [tab \in Tabs |-> IF sessions[tab] = NoSession THEN NoSession
                      ELSE [id |-> sessions[tab].id, document |-> sessions[tab].document,
                            records |-> sessions[tab].records]]

LEMMA RestoredSession ==
    ASSUME NEW stored \in StoredSessions, NEW session,
           session = [id |-> stored.id, document |-> stored.document, records |-> stored.records,
                      bytes |-> SizeOf(stored.records), persistence |-> "persisted", newer |-> FALSE]
    PROVE  session \in CaptureSessions /\ session # NoSession
<1>1. /\ stored.id \in 1 .. MaxNcOperations /\ stored.document \in Documents
      /\ stored.records \in Seq(Requests)
  BY DEF StoredSessions
<1>2. PICK bytes : bytes = SizeOf(stored.records)
  OBVIOUS
<1>3. bytes \in Nat
  BY <1>1, <1>2, SizeNat
<1>4. session = [id |-> stored.id, document |-> stored.document, records |-> stored.records,
                 bytes |-> bytes, persistence |-> "persisted", newer |-> FALSE]
  BY <1>2
<1>5. session \in CaptureSessions
  BY <1>1, <1>3, <1>4 DEF CaptureSessions
<1>6. QED
  BY <1>5, NoSessionNone

\* What is restored from what was stored.
IsRestored(restored, stored) ==
    /\ restored \in Sessions
    /\ \A tab \in Tabs : stored[tab] = NoSession => restored[tab] = NoSession
    /\ \A tab \in Tabs : stored[tab] # NoSession =>
         /\ restored[tab] # NoSession
         /\ restored[tab].id = stored[tab].id /\ restored[tab].document = stored[tab].document
         /\ restored[tab].records = stored[tab].records
         /\ restored[tab].bytes = SizeOf(stored[tab].records)
         /\ restored[tab].persistence = "persisted" /\ restored[tab].newer = FALSE

LEMMA RestoredOf ==
    ASSUME NEW stored \in [Tabs -> StoredSessions \cup {NoSession}], NEW restored,
           restored = Restored(stored)
    PROVE  IsRestored(restored, stored)
<1>1. ASSUME NEW tab \in Tabs, stored[tab] # NoSession
      PROVE  /\ restored[tab] # NoSession /\ restored[tab] \in CaptureSessions
             /\ restored[tab].id = stored[tab].id /\ restored[tab].document = stored[tab].document
             /\ restored[tab].records = stored[tab].records
             /\ restored[tab].bytes = SizeOf(stored[tab].records)
             /\ restored[tab].persistence = "persisted" /\ restored[tab].newer = FALSE
  <2>1. stored[tab] \in StoredSessions
    BY <1>1
  <2>2. restored[tab] = [id |-> stored[tab].id, document |-> stored[tab].document,
                         records |-> stored[tab].records, bytes |-> SizeOf(stored[tab].records),
                         persistence |-> "persisted", newer |-> FALSE]
    BY <1>1 DEF Restored
  <2>3. restored[tab] \in CaptureSessions /\ restored[tab] # NoSession
    BY <2>1, <2>2, RestoredSession
  <2>4. QED
    BY <2>2, <2>3
<1>2. ASSUME NEW tab \in Tabs, stored[tab] = NoSession
      PROVE  restored[tab] = NoSession
  BY <1>2 DEF Restored
<1>3. restored \in Sessions
  <2>1. \A tab \in Tabs : restored[tab] \in CaptureSessions \cup {NoSession}
    BY <1>1, <1>2
  <2>2. restored = [tab \in Tabs |-> restored[tab]]
    BY DEF Restored
  <2>3. QED
    BY <2>1, <2>2 DEF Sessions
<1>4. QED
  BY <1>1, <1>2, <1>3 DEF IsRestored

\* What a snapshot of good sessions restores is good.
LEMMA SnapshotGood ==
    ASSUME NEW sessions, NEW last, GoodSessions(sessions, last), NEW snapshot, snapshot = Snapshot(sessions)
    PROVE  /\ snapshot \in [Tabs -> StoredSessions \cup {NoSession}]
           /\ GoodSessions(Restored(snapshot), last)
           /\ \A tab \in Tabs : sessions[tab] # NoSession => Holds(snapshot[tab], sessions[tab])
<1>1. ASSUME NEW tab \in Tabs, sessions[tab] # NoSession
      PROVE  /\ snapshot[tab] \in StoredSessions /\ snapshot[tab] # NoSession
             /\ snapshot[tab].id = sessions[tab].id /\ snapshot[tab].document = sessions[tab].document
             /\ snapshot[tab].records = sessions[tab].records
             /\ sessions[tab].bytes = SizeOf(sessions[tab].records)
  <2>1. Proper(sessions[tab])
    BY <1>1 DEF GoodSessions
  <2>2. /\ sessions[tab].id \in 1 .. MaxNcOperations /\ sessions[tab].document \in Documents
        /\ sessions[tab].records \in Seq(Requests)
        /\ sessions[tab].bytes = SizeOf(sessions[tab].records)
    BY <2>1, SessionFields DEF Proper, Weighed
  <2>3. snapshot[tab] = [id |-> sessions[tab].id, document |-> sessions[tab].document,
                         records |-> sessions[tab].records]
    BY <1>1 DEF Snapshot
  <2>4. snapshot[tab] \in StoredSessions
    BY <2>2, <2>3 DEF StoredSessions
  <2>5. QED
    BY <2>2, <2>3, <2>4, NoSessionNone
<1>2. ASSUME NEW tab \in Tabs, sessions[tab] = NoSession
      PROVE  snapshot[tab] = NoSession
  BY <1>2 DEF Snapshot
<1>3. snapshot \in [Tabs -> StoredSessions \cup {NoSession}]
  <2>1. \A tab \in Tabs : snapshot[tab] \in StoredSessions \cup {NoSession}
    BY <1>1, <1>2
  <2>2. snapshot = [tab \in Tabs |-> snapshot[tab]]
    BY DEF Snapshot
  <2>3. QED
    BY <2>1, <2>2
<1>4. PICK restored : restored = Restored(snapshot)
  OBVIOUS
<1>5. /\ restored \in Sessions
      /\ \A tab \in Tabs : snapshot[tab] = NoSession => restored[tab] = NoSession
      /\ \A tab \in Tabs : snapshot[tab] # NoSession =>
           /\ restored[tab] # NoSession
           /\ restored[tab].id = snapshot[tab].id /\ restored[tab].document = snapshot[tab].document
           /\ restored[tab].records = snapshot[tab].records
           /\ restored[tab].bytes = SizeOf(snapshot[tab].records)
  <2>1. IsRestored(restored, snapshot)
    BY <1>3, <1>4, RestoredOf
  <2>2. QED
    BY <2>1 DEF IsRestored
<1>6. ASSUME NEW tab \in Tabs, sessions[tab] = NoSession
      PROVE  restored[tab] = NoSession
  BY <1>2, <1>5, <1>6
<1>7. ASSUME NEW tab \in Tabs, sessions[tab] # NoSession
      PROVE  restored[tab] # NoSession /\ SameContent(restored[tab], sessions[tab])
  <2>1. /\ restored[tab] # NoSession
        /\ restored[tab].id = snapshot[tab].id /\ restored[tab].document = snapshot[tab].document
        /\ restored[tab].records = snapshot[tab].records
        /\ restored[tab].bytes = SizeOf(snapshot[tab].records)
    BY <1>1, <1>5, <1>7
  <2>2. QED
    BY <1>1, <1>7, <2>1 DEF SameContent
<1>8. GoodSessions(restored, last)
  BY <1>5, <1>6, <1>7, SameContents
<1>9. \A tab \in Tabs : sessions[tab] # NoSession => Holds(snapshot[tab], sessions[tab])
  BY <1>1 DEF Holds
<1>10. QED
  BY <1>3, <1>4, <1>8, <1>9

\* Sessions are credited anew, and keep what they record.
Recredited ==
    /\ ncSession' \in Sessions
    /\ \A tab \in Tabs : ncSession[tab] = NoSession => ncSession'[tab] = NoSession
    /\ \A tab \in Tabs : ncSession[tab] # NoSession =>
         /\ ncSession'[tab] # NoSession /\ SameContent(ncSession'[tab], ncSession[tab])
         /\ Creditable(ncSession'[tab], ncStored'[tab], ncWrite'[tab], ncWriting')
    /\ ncStored' \in [Tabs -> StoredSessions \cup {NoSession}]
    /\ ncWrite' \in [Tabs -> StoredSessions \cup {NoSession}]
    /\ GoodSessions(Restored(ncStored'), ncOperations) /\ GoodSessions(Restored(ncWrite'), ncOperations)

LEMMA RecreditedStep ==
    ASSUME CaptureInvariant, ncLife = "on", Recredited,
           ncTimer' \in BOOLEAN, ncWriting' \in BOOLEAN, ncMutated' \in BOOLEAN,
           ncEvents' \in 0 .. MaxNcEvents, ncEvents' \in Nat, ncEvents <= ncEvents',
           UNCHANGED <<ncDocument, ncCommits, ncCount, ncBytes, ncStart, ncDeferred, ncLife, ncRaced,
                       ncOperations>>
    PROVE  CaptureInvariant'
<1>0. NcTypeOK /\ Accounts /\ Credits /\ Bound /\ Current
  BY DEF CaptureInvariant
<1>1. PICK before, after : before = ncSession /\ after = ncSession'
  OBVIOUS
<1>2. /\ after \in Sessions
      /\ \A tab \in Tabs : before[tab] = NoSession => after[tab] = NoSession
      /\ \A tab \in Tabs : before[tab] # NoSession =>
           after[tab] # NoSession /\ SameContent(after[tab], before[tab])
  BY <1>1 DEF Recredited
<1>3. GoodSessions(before, ncOperations)
  BY <1>0, <1>1 DEF Accounts
<1>4. /\ GoodSessions(after, ncOperations)
      /\ EntriesIn(after, Tabs) = EntriesIn(before, Tabs)
      /\ BytesIn(after, Tabs) = BytesIn(before, Tabs)
      /\ \A tab \in Tabs : SameDocument(after[tab], before[tab])
  BY <1>2, <1>3, SameContents
<1>5. NcTypeOK'
  BY <1>0, TypeFacts, TypeFrom DEF Recredited
<1>6. Accounts'
  BY <1>0, <1>1, <1>4 DEF Accounts, Recredited
<1>7. Credits'
  <2>1. ASSUME NEW tab \in Tabs, ncSession'[tab] # NoSession
        PROVE  Creditable(ncSession'[tab], ncStored'[tab], ncWrite'[tab], ncWriting')
    BY <2>1 DEF Recredited
  <2>2. QED
    BY <2>1 DEF Credits
<1>8. Bound'
  BY <1>0, <1>1, <1>4, BoundKept
<1>9. Current'
  <2>1. ncOperations' \in Nat /\ ncOperations <= ncOperations'
    BY <1>0, CounterFacts
  <2>2. QED
    BY <1>0, <2>1, CurrentKept
<1>10. QED
  BY <1>5, <1>6, <1>7, <1>8, <1>9 DEF CaptureInvariant

LEMMA PersistFiresStep ==
    ASSUME CaptureInvariant, PersistFires
    PROVE  CaptureInvariant'
<1>0. NcTypeOK /\ Accounts /\ Credits
  BY DEF CaptureInvariant
<1>1. /\ ncLife = "on" /\ ncTimer' = FALSE /\ ncWriting' = TRUE /\ ncMutated' = FALSE
      /\ ncWrite' = Snapshot(ncSession)
      /\ UNCHANGED <<ncDocument, ncCommits, ncCount, ncBytes, ncStart, ncDeferred, ncStored, ncLife,
                     ncRaced, ncOperations, ncEvents>>
  BY DEF PersistFires, Snapshot
<1>2. ncSession' = [tab \in Tabs |-> IF ncSession[tab] = NoSession THEN NoSession
                                     ELSE [ncSession[tab] EXCEPT !.newer = FALSE]]
  BY DEF PersistFires
<1>3. GoodSessions(ncSession, ncOperations) /\ ncSession \in Sessions
  BY <1>0 DEF Accounts, GoodSessions
<1>4. PICK write : write = Snapshot(ncSession)
  OBVIOUS
<1>5. /\ write \in [Tabs -> StoredSessions \cup {NoSession}] /\ GoodSessions(Restored(write), ncOperations)
      /\ \A tab \in Tabs : ncSession[tab] # NoSession => Holds(write[tab], ncSession[tab])
  BY <1>3, <1>4, SnapshotGood
<1>6. ASSUME NEW tab \in Tabs, ncSession[tab] # NoSession
      PROVE  /\ ncSession'[tab] \in CaptureSessions /\ ncSession'[tab] # NoSession
             /\ SameContent(ncSession'[tab], ncSession[tab])
             /\ Creditable(ncSession'[tab], ncStored[tab], write[tab], TRUE)
  <2>1. PICK old, new : old = ncSession[tab] /\ new = [old EXCEPT !.newer = FALSE]
    OBVIOUS
  <2>2. ncSession'[tab] = new
    BY <1>2, <1>6, <2>1
  <2>3. old \in CaptureSessions /\ Creditable(old, ncStored[tab], ncWrite[tab], ncWriting)
    BY <1>0, <1>3, <1>6, <2>1 DEF Sessions, Credits
  <2>4. /\ new \in CaptureSessions /\ SameContent(new, old)
        /\ new.persistence = old.persistence /\ new.newer = FALSE
    BY <2>1, <2>3 DEF CaptureSessions, SameContent
  <2>5. Holds(write[tab], old)
    BY <1>5, <1>6, <2>1
  <2>6. Creditable(new, ncStored[tab], write[tab], TRUE)
    BY <2>3, <2>4, <2>5 DEF Creditable, Holds, SameContent
  <2>7. QED
    BY <2>1, <2>2, <2>4, <2>6, NoSessionNone
<1>7. \A tab \in Tabs : ncSession[tab] = NoSession => ncSession'[tab] = NoSession
  BY <1>2
<1>8. ncSession' \in Sessions
  <2>1. \A tab \in Tabs : ncSession'[tab] \in CaptureSessions \cup {NoSession}
    BY <1>6, <1>7
  <2>2. ncSession' = [tab \in Tabs |-> ncSession'[tab]]
    BY <1>2
  <2>3. QED
    BY <2>1, <2>2 DEF Sessions
<1>9. Recredited
  <2>1. ncWrite' = write /\ ncStored' = ncStored /\ ncWriting' = TRUE
    BY <1>1, <1>4
  <2>2. ncStored \in [Tabs -> StoredSessions \cup {NoSession}]
    BY <1>0, TypeFacts
  <2>3. GoodSessions(Restored(ncStored), ncOperations)
    BY <1>0 DEF Accounts
  <2>4. QED
    BY <1>5, <1>6, <1>7, <1>8, <2>1, <2>2, <2>3 DEF Recredited
<1>10. ncEvents' \in 0 .. MaxNcEvents /\ ncEvents' \in Nat /\ ncEvents <= ncEvents'
  BY <1>0, <1>1, TypeFacts, CounterFacts
<1>11. QED
  BY <1>1, <1>9, <1>10, RecreditedStep

LEMMA WrittenStep ==
    ASSUME CaptureInvariant, Written
    PROVE  CaptureInvariant'
<1>0. NcTypeOK /\ Accounts /\ Credits
  BY DEF CaptureInvariant
<1>1. /\ ncWriting /\ ncWriting' = FALSE /\ ncTimer' = ncMutated /\ ncWrite' = Nothing
      /\ UNCHANGED <<ncDocument, ncCommits, ncCount, ncBytes, ncStart, ncDeferred, ncMutated, ncLife,
                     ncRaced, ncOperations>>
  BY DEF Written
<1>2. ncLife = "on"
  BY <1>0, <1>1 DEF Credits
<1>3. GoodSessions(ncSession, ncOperations) /\ ncSession \in Sessions
  BY <1>0 DEF Accounts, GoodSessions
<1>4. /\ ncStored \in [Tabs -> StoredSessions \cup {NoSession}]
      /\ ncWrite \in [Tabs -> StoredSessions \cup {NoSession}]
      /\ ncMutated \in BOOLEAN /\ ncEvents \in 0 .. MaxNcEvents /\ ncEvents \in Nat
      /\ NcEvent => ncEvents' \in 0 .. MaxNcEvents /\ ncEvents' \in Nat /\ ncEvents' = ncEvents + 1
  BY <1>0, TypeFacts, CounterFacts
<1>5. Nothing \in [Tabs -> StoredSessions \cup {NoSession}] /\ GoodSessions(Restored(Nothing), ncOperations)
  <2>1. Nothing \in [Tabs -> StoredSessions \cup {NoSession}]
    BY DEF Nothing
  <2>2. QED
    BY <2>1, NothingGood
<1>6. GoodSessions(Restored(ncStored), ncOperations) /\ GoodSessions(Restored(ncWrite), ncOperations)
  BY <1>0 DEF Accounts
<1>7. CASE /\ ncStored' = ncWrite /\ UNCHANGED ncEvents
           /\ ncSession' = [tab \in Tabs |-> IF ncSession[tab] = NoSession THEN NoSession
                                             ELSE Credited(ncSession[tab])]
  <2>1. ASSUME NEW tab \in Tabs, ncSession[tab] # NoSession
        PROVE  /\ ncSession'[tab] \in CaptureSessions /\ ncSession'[tab] # NoSession
               /\ SameContent(ncSession'[tab], ncSession[tab])
               /\ Creditable(ncSession'[tab], ncWrite[tab], NoSession, FALSE)
    <3>1. PICK old, new : old = ncSession[tab] /\ new = Credited(old)
      OBVIOUS
    <3>2. ncSession'[tab] = new
      BY <1>7, <2>1, <3>1
    <3>3. old \in CaptureSessions /\ Creditable(old, ncStored[tab], ncWrite[tab], TRUE)
      BY <1>0, <1>1, <1>3, <2>1, <3>1 DEF Sessions, Credits, Creditable
    <3>4. CASE old.newer = TRUE
      <4>1. new = old
        BY <3>1, <3>4 DEF Credited
      <4>2. Creditable(new, ncWrite[tab], NoSession, FALSE)
        BY <3>3, <3>4, <4>1 DEF Creditable
      <4>3. QED
        BY <3>1, <3>2, <3>3, <4>1, <4>2, NoSessionNone DEF SameContent
    <3>5. CASE old.newer = FALSE
      <4>1. new = [old EXCEPT !.persistence = "persisted"]
        BY <3>1, <3>5 DEF Credited
      <4>2. new \in CaptureSessions /\ SameContent(new, old) /\ new.newer = FALSE
        BY <3>3, <3>5, <4>1 DEF CaptureSessions, SameContent
      <4>3. Holds(ncWrite[tab], old)
        BY <3>3, <3>5 DEF Creditable
      <4>4. Creditable(new, ncWrite[tab], NoSession, FALSE)
        BY <4>2, <4>3 DEF Creditable, Holds, SameContent
      <4>5. QED
        BY <3>1, <3>2, <4>2, <4>4, NoSessionNone
    <3>6. QED
      BY <3>3, <3>4, <3>5, SessionFields
  <2>2. \A tab \in Tabs : ncSession[tab] = NoSession => ncSession'[tab] = NoSession
    BY <1>7
  <2>3. ncSession' \in Sessions
    <3>1. \A tab \in Tabs : ncSession'[tab] \in CaptureSessions \cup {NoSession}
      BY <2>1, <2>2
    <3>2. ncSession' = [tab \in Tabs |-> ncSession'[tab]]
      BY <1>7
    <3>3. QED
      BY <3>1, <3>2 DEF Sessions
  <2>4. \A tab \in Tabs : Nothing[tab] = NoSession
    BY DEF Nothing
  <2>5. Recredited
    BY <1>1, <1>4, <1>5, <1>6, <1>7, <2>1, <2>2, <2>3, <2>4 DEF Recredited
  <2>6. ncEvents' = ncEvents /\ ncEvents <= ncEvents'
    BY <1>4, <1>7
  <2>7. QED
    BY <1>1, <1>2, <1>4, <1>7, <2>5, <2>6, RecreditedStep
<1>8. CASE /\ NcEvent /\ UNCHANGED ncStored
           /\ ncSession' = [tab \in Tabs |-> IF ncSession[tab] = NoSession THEN NoSession
                                             ELSE [ncSession[tab] EXCEPT !.persistence = "degraded"]]
  <2>1. ASSUME NEW tab \in Tabs, ncSession[tab] # NoSession
        PROVE  /\ ncSession'[tab] \in CaptureSessions /\ ncSession'[tab] # NoSession
               /\ SameContent(ncSession'[tab], ncSession[tab])
               /\ Creditable(ncSession'[tab], ncStored[tab], NoSession, FALSE)
    <3>1. PICK old, new : old = ncSession[tab] /\ new = [old EXCEPT !.persistence = "degraded"]
      OBVIOUS
    <3>2. ncSession'[tab] = new /\ old \in CaptureSessions
      BY <1>3, <1>8, <2>1, <3>1 DEF Sessions
    <3>3. new \in CaptureSessions /\ SameContent(new, old) /\ new.persistence = "degraded"
      BY <3>1, <3>2 DEF CaptureSessions, SameContent
    <3>4. QED
      BY <3>1, <3>2, <3>3, NoSessionNone DEF Creditable
  <2>2. \A tab \in Tabs : ncSession[tab] = NoSession => ncSession'[tab] = NoSession
    BY <1>8
  <2>3. ncSession' \in Sessions
    <3>1. \A tab \in Tabs : ncSession'[tab] \in CaptureSessions \cup {NoSession}
      BY <2>1, <2>2
    <3>2. ncSession' = [tab \in Tabs |-> ncSession'[tab]]
      BY <1>8
    <3>3. QED
      BY <3>1, <3>2 DEF Sessions
  <2>4. \A tab \in Tabs : Nothing[tab] = NoSession
    BY DEF Nothing
  <2>5. Recredited
    BY <1>1, <1>4, <1>5, <1>6, <1>8, <2>1, <2>2, <2>3, <2>4 DEF Recredited
  <2>6. ncEvents <= ncEvents'
    BY <1>4, <1>8
  <2>7. QED
    BY <1>1, <1>2, <1>4, <1>8, <2>5, <2>6, RecreditedStep
<1>9. QED
  BY <1>7, <1>8 DEF Written

LEMMA KillStep ==
    ASSUME CaptureInvariant, KillCapture
    PROVE  CaptureInvariant'
<1>0. NcTypeOK /\ Accounts /\ Current
  BY DEF CaptureInvariant
<1>1. /\ NcEvent /\ ncLife' = "off"
      /\ ncStored' \in {ncStored} \cup IF ncWriting THEN {ncWrite} ELSE {}
      /\ ncSession' = Nothing /\ ncCount' = 0 /\ ncBytes' = 0
      /\ ncStart' = Nothing /\ ncDeferred' = <<>> /\ ncWrite' = Nothing /\ ncCommits' = <<>>
      /\ ncTimer' = FALSE /\ ncWriting' = FALSE /\ ncMutated' = FALSE
      /\ ncRaced' = ncRaced \cup {commit.tab : commit \in {ncCommits[i] : i \in DOMAIN ncCommits}}
                            \cup {tab \in Capturing(ncStored') : ncStored'[tab].document # ncDocument[tab]}
      /\ UNCHANGED <<ncDocument, ncOperations>>
  BY DEF KillCapture
<1>2. PICK stored \in {ncStored, ncWrite} : ncStored' = stored
  BY <1>1
<1>3. /\ ncStored \in [Tabs -> StoredSessions \cup {NoSession}]
      /\ ncWrite \in [Tabs -> StoredSessions \cup {NoSession}]
      /\ ncDocument \in [Tabs -> Documents] /\ ncCommits \in Seq(Navigations) /\ ncRaced \subseteq Tabs
      /\ ncOperations \in 0 .. MaxNcOperations /\ ncOperations \in Nat /\ ncEvents \in Nat
      /\ ncEvents' \in 0 .. MaxNcEvents /\ ncEvents' \in Nat /\ ncEvents' = ncEvents + 1
  BY <1>0, <1>1, TypeFacts, CounterFacts
<1>4. /\ stored \in [Tabs -> StoredSessions \cup {NoSession}]
      /\ GoodSessions(Restored(stored), ncOperations)
  BY <1>0, <1>3 DEF Accounts
<1>5. /\ Nothing \in Sessions /\ GoodSessions(Nothing, ncOperations) /\ Restored(Nothing) = Nothing
      /\ EntriesIn(Nothing, Tabs) = 0 /\ BytesIn(Nothing, Tabs) = 0
  BY NothingGood
<1>6. /\ \A tab \in Tabs : Nothing[tab] = NoSession
      /\ Nothing \in [Tabs -> StoredSessions \cup {NoSession}]
      /\ Nothing \in [Tabs -> Documents \cup {NoSession}]
  BY DEF Nothing
<1>7. NcTypeOK'
  <2>1. ncRaced' \subseteq Tabs
    <3>1. \A i \in DOMAIN ncCommits : ncCommits[i].tab \in Tabs
      <4>1. \A i \in DOMAIN ncCommits : ncCommits[i] \in Navigations
        BY <1>3
      <4>2. QED
        BY <4>1 DEF Navigations
    <3>2. Capturing(stored) \subseteq Tabs
      BY DEF Capturing
    <3>3. QED
      BY <1>1, <1>2, <1>3, <3>1, <3>2
  <2>2. MaxDeferred \in Nat
    BY NetworkCaptureConstants
  <2>3. /\ ncCommits' \in Seq(Navigations) /\ ncDeferred' \in Seq(Deferrals)
        /\ Len(ncDeferred') <= MaxDeferred
    BY <1>1, <2>2
  <2>4. ncCount' \in Nat /\ ncBytes' \in Nat
    BY <1>1
  <2>5. ncDocument' \in [Tabs -> Documents] /\ ncOperations' \in 0 .. MaxNcOperations
    BY <1>1, <1>3
  <2>6. QED
    BY <1>1, <1>2, <1>3, <1>4, <1>5, <1>6, <2>1, <2>3, <2>4, <2>5, TypeFrom
<1>8. Accounts'
  BY <1>1, <1>2, <1>4, <1>5 DEF Accounts
<1>9. Credits'
  BY <1>1, <1>6 DEF Credits
<1>10. Bound'
  <2>1. ASSUME NEW tab \in Tabs \ ncRaced', stored[tab] # NoSession
        PROVE  Waits(<<>>, ncDocument, tab, stored[tab])
    <3>1. tab \in Capturing(stored)
      BY <2>1 DEF Capturing
    <3>2. stored[tab].document = ncDocument[tab]
      BY <1>1, <1>2, <2>1, <3>1
    <3>3. QED
      BY <3>2 DEF Waits
  <2>2. QED
    BY <1>1, <1>2, <2>1 DEF Bound
<1>11. Current'
  <2>1. ASSUME NEW tab \in Tabs PROVE ncDocument[tab].number <= ncEvents' + 1
    <3>1. ncDocument[tab].number <= ncEvents + 1
      BY <1>0 DEF Current
    <3>2. ncDocument[tab].number \in 1 .. MaxNcEvents + 1
      BY <1>3 DEF Documents
    <3>3. QED
      BY <1>3, <3>1, <3>2
  <2>2. DOMAIN ncCommits' = {}
    BY <1>1
  <2>3. QED
    BY <1>1, <1>6, <2>1, <2>2 DEF Current
<1>12. QED
  BY <1>7, <1>8, <1>9, <1>10, <1>11 DEF CaptureInvariant

LEMMA RestartStep ==
    ASSUME CaptureInvariant, RestartCapture
    PROVE  CaptureInvariant'
<1>0. NcTypeOK /\ Accounts /\ Credits /\ Bound /\ Current
  BY DEF CaptureInvariant
<1>1. /\ ncLife = "off" /\ ncLife' = "restoring"
      /\ UNCHANGED <<ncDocument, ncCommits, ncSession, ncCount, ncBytes, ncStart, ncDeferred, ncStored,
                     ncWrite, ncTimer, ncWriting, ncMutated, ncRaced, ncOperations, ncEvents>>
  BY DEF RestartCapture
<1>2. NcTypeOK'
  BY <1>0, <1>1, TypeFacts, TypeFrom
<1>3. /\ ncOperations \in Nat /\ ncOperations' \in Nat /\ ncOperations <= ncOperations'
      /\ ncEvents' \in Nat /\ ncEvents <= ncEvents'
  BY <1>0, <1>1, CounterFacts
<1>4. Accounts'
  BY <1>0, <1>1, <1>3, AccountsSame
<1>5. \A t \in Tabs : Marked(ncSession'[t], ncSession[t])
  BY <1>1, SessionsSame
<1>6. Credits'
  BY <1>0, <1>1, <1>5, CreditsKept
<1>7. Bound'
  BY <1>0, <1>1 DEF Bound
<1>8. Current'
  BY <1>0, <1>1, <1>3, CurrentKept
<1>9. QED
  BY <1>2, <1>4, <1>6, <1>7, <1>8 DEF CaptureInvariant

LEMMA RestoreSessionsStep ==
    ASSUME CaptureInvariant, RestoreSessions
    PROVE  CaptureInvariant'
<1>0. NcTypeOK /\ Accounts /\ Credits /\ Bound /\ Current
  BY DEF CaptureInvariant
<1>1. /\ ncLife = "restoring" /\ ncLife' = "replaying"
      /\ \/ ncSession' = Restored(ncStored) /\ UNCHANGED ncEvents
         \/ NcEvent /\ ncSession' = Nothing
      /\ ncCount' = EntriesIn(ncSession', Tabs) /\ ncBytes' = BytesIn(ncSession', Tabs)
      /\ UNCHANGED <<ncDocument, ncCommits, ncStart, ncDeferred, ncStored, ncWrite, ncTimer, ncWriting,
                     ncMutated, ncRaced, ncOperations>>
  BY DEF RestoreSessions
<1>2. ~ncWriting
  BY <1>0, <1>1 DEF Credits
<1>3. /\ ncStored \in [Tabs -> StoredSessions \cup {NoSession}]
      /\ ncOperations \in Nat /\ ncEvents \in Nat /\ ncEvents \in 0 .. MaxNcEvents
      /\ ncEvents' \in Nat /\ ncEvents <= ncEvents' /\ ncEvents' \in 0 .. MaxNcEvents
  <2>1. /\ ncStored \in [Tabs -> StoredSessions \cup {NoSession}]
        /\ ncOperations \in Nat /\ ncEvents \in Nat /\ ncEvents \in 0 .. MaxNcEvents
        /\ NcEvent => ncEvents' \in Nat /\ ncEvents' = ncEvents + 1 /\ ncEvents' \in 0 .. MaxNcEvents
    BY <1>0, TypeFacts, CounterFacts
  <2>2. CASE UNCHANGED ncEvents
    BY <2>1, <2>2
  <2>3. CASE NcEvent
    BY <2>1, <2>3
  <2>4. QED
    BY <1>1, <2>1, <2>2, <2>3
<1>4. PICK restored : restored = Restored(ncStored)
  OBVIOUS
<1>5. IsRestored(restored, ncStored) /\ GoodSessions(restored, ncOperations)
  BY <1>0, <1>3, <1>4, RestoredOf DEF Accounts
<1>6. /\ Nothing \in Sessions /\ GoodSessions(Nothing, ncOperations)
      /\ \A tab \in Tabs : Nothing[tab] = NoSession
  BY NothingGood DEF Nothing
<1>7. ncSession' \in Sessions /\ GoodSessions(ncSession', ncOperations)
  BY <1>1, <1>4, <1>5, <1>6 DEF IsRestored
<1>8. ASSUME NEW tab \in Tabs, ncSession'[tab] # NoSession
      PROVE  /\ ncStored[tab] # NoSession
             /\ ncSession'[tab].id = ncStored[tab].id /\ ncSession'[tab].document = ncStored[tab].document
             /\ Creditable(ncSession'[tab], ncStored[tab], ncWrite[tab], FALSE)
  <2>1. ncSession' = restored
    BY <1>1, <1>4, <1>6, <1>8
  <2>2. QED
    BY <1>5, <1>8, <2>1 DEF IsRestored, Creditable, Holds
<1>9. NcTypeOK'
  <2>1. PICK sessions : sessions = ncSession'
    OBVIOUS
  <2>2. EntriesIn(sessions, Tabs) \in Nat /\ BytesIn(sessions, Tabs) \in Nat
    BY <1>7, <2>1, TotalsNat
  <2>3. ncCount' \in Nat /\ ncBytes' \in Nat
    BY <1>1, <2>1, <2>2
  <2>4. QED
    BY <1>0, <1>1, <1>3, <1>7, <2>3, TypeFacts, TypeFrom
<1>10. Accounts'
  BY <1>0, <1>1, <1>7 DEF Accounts, Restored
<1>11. Credits'
  BY <1>1, <1>2, <1>8 DEF Credits, Creditable
<1>12. Bound'
  <2>1. ASSUME NEW t \in Tabs \ ncRaced', ncSession'[t] # NoSession
        PROVE  Waits(ncCommits, ncDocument, t, ncSession'[t])
    <3>1. /\ ncStored[t] # NoSession
          /\ ncSession'[t].id = ncStored[t].id /\ ncSession'[t].document = ncStored[t].document
      BY <1>8, <2>1
    <3>2. Waits(ncCommits, ncDocument, t, ncStored[t])
      BY <1>0, <1>1, <2>1, <3>1 DEF Bound
    <3>3. QED
      BY <3>1, <3>2, FollowerSame
  <2>2. QED
    BY <1>1, <2>1 DEF Bound
<1>13. Current'
  <2>1. ncOperations' \in Nat /\ ncOperations <= ncOperations'
    BY <1>1, <1>3
  <2>2. QED
    BY <1>0, <1>1, <1>3, <2>1, CurrentKept
<1>14. QED
  BY <1>9, <1>10, <1>11, <1>12, <1>13 DEF CaptureInvariant

LEMMA ReplayStep ==
    ASSUME CaptureInvariant, Replay
    PROVE  CaptureInvariant'
<1>0. NcTypeOK /\ Accounts /\ Credits /\ Bound /\ Current
  BY DEF CaptureInvariant
<1>1. /\ ncLife = "replaying"
      /\ UNCHANGED <<ncDocument, ncStart, ncStored, ncWrite, ncWriting, ncRaced, ncOperations, ncEvents>>
  BY DEF Replay
<1>2. /\ ncOperations' \in 0 .. MaxNcOperations /\ ncOperations \in Nat /\ ncOperations' \in Nat
      /\ ncOperations <= ncOperations' /\ ncEvents' \in Nat /\ ncEvents <= ncEvents'
      /\ ncDeferred \in Seq(Deferrals) /\ Len(ncDeferred) <= MaxDeferred /\ MaxDeferred \in Nat
      /\ ncStart \in [Tabs -> Documents \cup {NoSession}] /\ ncCommits \in Seq(Navigations)
  BY <1>0, <1>1, TypeFacts, CounterFacts, NetworkCaptureConstants
<1>3. CASE /\ ncDeferred # <<>> /\ ncDeferred' = Tail(ncDeferred)
           /\ LET request == Head(ncDeferred) IN
              IF Matches(request.tab, request.document)
              THEN Recorded(request.tab, request.document, request.id)
              ELSE UNCHANGED <<ncSession, ncCount, ncBytes, ncMutated, ncTimer>>
           /\ UNCHANGED <<ncCommits, ncLife>>
  <2>1. PICK request : request = Head(ncDeferred)
    OBVIOUS
  <2>2. /\ request \in Deferrals /\ Tail(ncDeferred) \in Seq(Deferrals)
        /\ Len(Tail(ncDeferred)) = Len(ncDeferred) - 1 /\ Len(ncDeferred) \in Nat
    BY <1>2, <1>3, <2>1, HeadTailProperties, LenProperties
  <2>3. ncDeferred' \in Seq(Deferrals) /\ Len(ncDeferred') <= MaxDeferred
    BY <1>2, <1>3, <2>2
  <2>4. request.tab \in Tabs /\ request.id \in 1 .. MaxNcOperations
    BY <2>2 DEF Deferrals
  <2>5. IF Matches(request.tab, request.document)
        THEN Recorded(request.tab, request.document, request.id)
        ELSE UNCHANGED <<ncSession, ncCount, ncBytes, ncMutated, ncTimer>>
    BY <1>3, <2>1, Zenon
  <2>6. CASE Matches(request.tab, request.document)
    <3>1. PICK tab \in Tabs : tab = request.tab
      BY <2>4
    <3>2. PICK id \in 1 .. MaxNcOperations : id = request.id
      BY <2>4
    <3>3. PICK document : document = request.document
      OBVIOUS
    <3>4. Matches(tab, document) /\ Recorded(tab, document, id)
      BY <2>5, <2>6, <3>1, <3>2, <3>3
    <3>5. Committed
      BY <1>0, <3>4, RecordedKeeps
    <3>6. Settled(ncOperations')
      BY <1>1, <3>5 DEF Committed
    <3>7. QED
      BY <1>1, <1>2, <1>3, <2>3, <3>5, <3>6, CommittedStep DEF Committed
  <2>7. CASE ~Matches(request.tab, request.document)
    <3>1. UNCHANGED <<ncSession, ncCount, ncBytes, ncMutated, ncTimer>>
      BY <2>5, <2>7
    <3>2. QED
      BY <1>1, <1>2, <1>3, <2>3, <3>1, QuietStep
  <2>8. QED
    BY <2>6, <2>7
<1>4. CASE /\ ncDeferred = <<>> /\ ncLife' = "on"
           /\ ncCommits' = [i \in DOMAIN ncCommits |->
                              [ncCommits[i] EXCEPT !.session = SessionId(ncSession, ncCommits[i].tab)]]
           /\ UNCHANGED <<ncDeferred, ncSession, ncCount, ncBytes, ncMutated, ncTimer>>
  <2>1. PICK commits : commits = ncCommits'
    OBVIOUS
  <2>2. ASSUME NEW i \in DOMAIN ncCommits
        PROVE  /\ commits[i] \in Navigations
               /\ commits[i].tab = ncCommits[i].tab /\ commits[i].document = ncCommits[i].document
               /\ commits[i].session = SessionId(ncSession, ncCommits[i].tab)
               /\ ncCommits[i].tab \in Tabs /\ commits[i].session <= ncOperations
    <3>1. PICK old : old = ncCommits[i]
      OBVIOUS
    <3>2. PICK id : id = SessionId(ncSession, old.tab)
      OBVIOUS
    <3>3. old \in Navigations /\ old.tab \in Tabs
      <4>1. old \in Navigations
        BY <1>2, <3>1
      <4>2. QED
        BY <4>1 DEF Navigations
    <3>4. id \in 0 .. MaxNcOperations /\ id <= ncOperations
      BY <1>0, <3>2, <3>3, SessionIdOf
    <3>5. commits[i] = [old EXCEPT !.session = id]
      BY <1>4, <2>1, <3>1, <3>2
    <3>6. QED
      BY <3>1, <3>2, <3>3, <3>4, <3>5 DEF Navigations
  <2>3. DOMAIN commits = DOMAIN ncCommits /\ DOMAIN ncCommits = 1 .. Len(ncCommits) /\ Len(ncCommits) \in Nat
    BY <1>2, <1>4, <2>1
  <2>4. commits \in Seq(Navigations)
    <3>1. commits = [i \in 1 .. Len(ncCommits) |-> commits[i]]
      BY <1>4, <2>1, <2>3
    <3>2. \A i \in 1 .. Len(ncCommits) : commits[i] \in Navigations
      BY <2>2, <2>3
    <3>3. QED
      BY <2>3, <3>1, <3>2
  <2>5. ASSUME NEW tab \in Tabs, NEW first, ToldAny(ncCommits, ncDocument, tab, first)
        PROVE  /\ ToldAny(commits, ncDocument, tab, first)
               /\ ncSession[tab] # NoSession => Told(commits, ncDocument, tab, ncSession[tab].id, first)
    <3>1. PICK j \in DOMAIN ncCommits :
            first <= j /\ ncCommits[j].tab = tab /\ ncCommits[j].document = ncDocument[tab]
      BY <2>5 DEF ToldAny
    <3>2. j \in DOMAIN commits /\ commits[j].tab = tab /\ commits[j].document = ncDocument[tab]
      BY <2>2, <2>3, <3>1
    <3>3. ncSession[tab] # NoSession => commits[j].session = ncSession[tab].id
      BY <1>0, <2>2, <3>1, SessionIdOf
    <3>4. QED
      BY <3>1, <3>2, <3>3 DEF ToldAny, Told
  <2>6. NcTypeOK'
    BY <1>0, <1>1, <1>4, <2>1, <2>4, TypeFacts, TypeFrom
  <2>7. Accounts'
    BY <1>0, <1>1, <1>2, <1>4, AccountsSame
  <2>8. \A t \in Tabs : Marked(ncSession'[t], ncSession[t])
    BY <1>4, SessionsSame
  <2>9. Credits'
    BY <1>0, <1>1, <1>4, <2>8, CreditsKept
  <2>10. Bound'
    <3>1. ASSUME NEW t \in Tabs, ncSession[t] # NoSession
          PROVE  Follower(commits, ncDocument, t, ncSession[t], ncRaced)
      <4>1. ASSUME t \notin ncRaced
            PROVE  ncSession[t].document = ncDocument[t] \/ Told(commits, ncDocument, t, ncSession[t].id, 1)
        <5>1. Waits(ncCommits, ncDocument, t, ncSession[t])
          BY <1>0, <1>1, <3>1, <4>1 DEF Bound
        <5>2. QED
          BY <2>5, <3>1, <5>1 DEF Waits
      <4>2. ASSUME NEW i \in DOMAIN commits, commits[i].tab = t
            PROVE  Told(commits, ncDocument, t, ncSession[t].id, i)
        <5>1. i \in DOMAIN ncCommits /\ ncCommits[i].tab = t
          BY <2>2, <2>3, <4>2
        <5>2. ToldAny(ncCommits, ncDocument, t, i)
          BY <1>0, <5>1 DEF Current
        <5>3. QED
          BY <2>5, <3>1, <5>2
      <4>3. QED
        BY <4>1, <4>2 DEF Follower
    <3>2. QED
      BY <1>1, <1>4, <2>1, <3>1 DEF Bound
  <2>11. Current'
    <3>1. ASSUME NEW i \in DOMAIN commits
          PROVE  ToldAny(commits, ncDocument, commits[i].tab, i) /\ commits[i].session <= ncOperations
      <4>1. /\ i \in DOMAIN ncCommits /\ commits[i].tab = ncCommits[i].tab /\ ncCommits[i].tab \in Tabs
            /\ commits[i].session <= ncOperations
        BY <2>2, <2>3, <3>1
      <4>2. ToldAny(ncCommits, ncDocument, ncCommits[i].tab, i)
        BY <1>0, <4>1 DEF Current
      <4>3. QED
        BY <2>5, <4>1, <4>2
    <3>2. QED
      BY <1>0, <1>1, <2>1, <3>1 DEF Current
  <2>12. QED
    BY <2>6, <2>7, <2>9, <2>10, <2>11 DEF CaptureInvariant
<1>5. QED
  BY <1>3, <1>4 DEF Replay

-----------------------------------------------------------------------------
(* A navigation is handled. *)

\* What a session becomes when this navigation is handled: it is led to its document, or it is
\* not one that the navigation leads.
Led(new, old, commit, tab) ==
    /\ new.id = old.id
    /\ \/ /\ new.document = old.document
          /\ commit.tab # tab \/ commit.session # old.id \/ old.document = commit.document
       \/ commit.tab = tab /\ commit.session = old.id /\ new.document = commit.document

LEMMA TailOfCommits ==
    ASSUME NEW commits \in Seq(Navigations), commits # <<>>, NEW rest, rest = Tail(commits)
    PROVE  /\ rest \in Seq(Navigations) /\ 1 \in DOMAIN commits /\ Head(commits) = commits[1]
           /\ \A i \in DOMAIN rest : i + 1 \in DOMAIN commits /\ rest[i] = commits[i + 1] /\ 1 <= i
           /\ \A i \in DOMAIN commits : i # 1 => i - 1 \in DOMAIN rest /\ rest[i - 1] = commits[i]
           /\ \A i \in DOMAIN commits : i \in Nat /\ 1 <= i
           /\ DOMAIN rest \subseteq Nat
<1>1. Len(commits) \in Nat \ {0} /\ DOMAIN commits = 1 .. Len(commits)
  BY EmptySeq, LenProperties
<1>2. /\ rest \in Seq(Navigations) /\ Len(rest) = Len(commits) - 1 /\ Head(commits) = commits[1]
      /\ \A i \in 1 .. Len(rest) : rest[i] = commits[i + 1]
  BY <1>1, HeadTailProperties
<1>3. DOMAIN rest = 1 .. Len(commits) - 1
  BY <1>2
<1>4. ASSUME NEW i \in DOMAIN commits, i # 1
      PROVE  i - 1 \in DOMAIN rest /\ rest[i - 1] = commits[i]
  <2>1. i - 1 \in 1 .. Len(commits) - 1 /\ (i - 1) + 1 = i
    BY <1>1, <1>4
  <2>2. rest[i - 1] = commits[(i - 1) + 1]
    BY <1>2, <1>3, <2>1
  <2>3. QED
    BY <1>3, <2>1, <2>2
<1>5. \A i \in DOMAIN rest : i + 1 \in DOMAIN commits /\ rest[i] = commits[i + 1] /\ 1 <= i
  BY <1>1, <1>2, <1>3
<1>6. QED
  BY <1>1, <1>2, <1>3, <1>4, <1>5

LEMMA ToldLater ==
    ASSUME NEW commits \in Seq(Navigations), commits # <<>>, NEW rest, rest = Tail(commits),
           NEW document, NEW tab, NEW id, NEW i \in DOMAIN rest
    PROVE  /\ Told(commits, document, tab, id, i + 1) => Told(rest, document, tab, id, i)
           /\ ToldAny(commits, document, tab, i + 1) => ToldAny(rest, document, tab, i)
<1>1. /\ \A j \in DOMAIN commits : j # 1 => j - 1 \in DOMAIN rest /\ rest[j - 1] = commits[j]
      /\ \A j \in DOMAIN commits : j \in Nat /\ 1 <= j
      /\ i \in Nat /\ 1 <= i
  BY TailOfCommits
<1>2. \A j \in DOMAIN commits : i + 1 <= j => j # 1 /\ i <= j - 1
  BY <1>1
<1>3. ASSUME Told(commits, document, tab, id, i + 1) PROVE Told(rest, document, tab, id, i)
  <2>1. PICK j \in DOMAIN commits : /\ i + 1 <= j /\ commits[j].tab = tab
                                    /\ commits[j].document = document[tab] /\ commits[j].session = id
    BY <1>3 DEF Told
  <2>2. j - 1 \in DOMAIN rest /\ rest[j - 1] = commits[j] /\ i <= j - 1
    BY <1>1, <1>2, <2>1
  <2>3. QED
    BY <2>1, <2>2 DEF Told
<1>4. ASSUME ToldAny(commits, document, tab, i + 1) PROVE ToldAny(rest, document, tab, i)
  <2>1. PICK j \in DOMAIN commits :
          i + 1 <= j /\ commits[j].tab = tab /\ commits[j].document = document[tab]
    BY <1>4 DEF ToldAny
  <2>2. j - 1 \in DOMAIN rest /\ rest[j - 1] = commits[j] /\ i <= j - 1
    BY <1>1, <1>2, <2>1
  <2>3. QED
    BY <2>1, <2>2 DEF ToldAny
<1>5. QED
  BY <1>3, <1>4

LEMMA FollowerTail ==
    ASSUME NEW commits \in Seq(Navigations), commits # <<>>, NEW rest, rest = Tail(commits),
           NEW document, NEW tab, NEW old, NEW new, NEW raced,
           Follower(commits, document, tab, old, raced), Led(new, old, commits[1], tab)
    PROVE  Follower(rest, document, tab, new, raced)
<1>0. PICK id : id = old.id
  OBVIOUS
<1>1. /\ 1 \in DOMAIN commits
      /\ \A j \in DOMAIN rest : j + 1 \in DOMAIN commits /\ rest[j] = commits[j + 1]
      /\ \A j \in DOMAIN commits : j # 1 => j - 1 \in DOMAIN rest /\ rest[j - 1] = commits[j]
      /\ \A j \in DOMAIN commits : j \in Nat /\ 1 <= j
  BY TailOfCommits
<1>2. new.id = id
  BY <1>0 DEF Led
<1>3. ASSUME Told(commits, document, tab, id, 1),
             ~(commits[1].tab = tab /\ commits[1].document = document[tab] /\ commits[1].session = id)
      PROVE  Told(rest, document, tab, id, 1)
  <2>1. PICK j \in DOMAIN commits : /\ commits[j].tab = tab
                                    /\ commits[j].document = document[tab] /\ commits[j].session = id
    BY <1>3 DEF Told
  <2>2. j # 1
    BY <1>3, <2>1
  <2>3. j - 1 \in DOMAIN rest /\ rest[j - 1] = commits[j] /\ 1 <= j - 1
    BY <1>1, <2>1, <2>2
  <2>4. QED
    BY <2>1, <2>3 DEF Told
<1>4. ASSUME tab \notin raced
      PROVE  new.document = document[tab] \/ Told(rest, document, tab, id, 1)
  <2>1. CASE /\ new.document = old.document
             /\ commits[1].tab # tab \/ commits[1].session # id \/ old.document = commits[1].document
    <3>1. old.document = document[tab] \/ Told(commits, document, tab, id, 1)
      BY <1>0, <1>4 DEF Follower
    <3>2. QED
      BY <1>3, <2>1, <3>1
  <2>2. CASE commits[1].tab = tab /\ commits[1].session = id /\ new.document = commits[1].document
    <3>1. Told(commits, document, tab, id, 1)
      BY <1>0, <1>1, <2>2 DEF Follower
    <3>2. QED
      BY <1>3, <2>2, <3>1
  <2>3. QED
    BY <1>0, <2>1, <2>2 DEF Led
<1>5. ASSUME NEW i \in DOMAIN rest, rest[i].tab = tab, rest[i].session = id
      PROVE  Told(rest, document, tab, id, i)
  <2>1. i + 1 \in DOMAIN commits /\ commits[i + 1].tab = tab /\ commits[i + 1].session = id
    BY <1>1, <1>5
  <2>2. Told(commits, document, tab, id, i + 1)
    BY <1>0, <2>1 DEF Follower
  <2>3. QED
    BY <2>2, ToldLater
<1>6. QED
  BY <1>2, <1>4, <1>5 DEF Follower

\* A navigation was handled, and no session was lost to another document.
LEMMA Handled ==
    ASSUME CaptureInvariant, ncLife = "on", ncCommits # <<>>, ncCommits' = Tail(ncCommits),
           Settled(ncOperations),
           \A t \in Tabs : ncSession'[t] # NoSession =>
             ncSession[t] # NoSession /\ Led(ncSession'[t], ncSession[t], ncCommits[1], t),
           UNCHANGED <<ncDocument, ncStart, ncDeferred, ncStored, ncWrite, ncWriting, ncLife, ncRaced,
                       ncOperations, ncEvents>>
    PROVE  CaptureInvariant'
<1>0. NcTypeOK /\ Accounts /\ Credits /\ Bound /\ Current
  BY DEF CaptureInvariant
<1>1. PICK rest : rest = Tail(ncCommits)
  OBVIOUS
<1>2. /\ ncCommits \in Seq(Navigations) /\ ncOperations \in Nat /\ ncOperations \in 0 .. MaxNcOperations
      /\ ncStart \in [Tabs -> Documents \cup {NoSession}]
      /\ ncDeferred \in Seq(Deferrals) /\ Len(ncDeferred) <= MaxDeferred
  BY <1>0, TypeFacts, CounterFacts
<1>3. /\ rest \in Seq(Navigations)
      /\ \A i \in DOMAIN rest : i + 1 \in DOMAIN ncCommits /\ rest[i] = ncCommits[i + 1]
  BY <1>1, <1>2, TailOfCommits
<1>4. NcTypeOK'
  BY <1>0, <1>1, <1>2, <1>3, SettledType
<1>5. Accounts'
  BY <1>0, <1>2, AccountsKept
<1>6. Credits'
  BY <1>0, CreditsKept DEF Settled
<1>7. Bound'
  <2>1. ASSUME NEW t \in Tabs, ncSession'[t] # NoSession
        PROVE  Follower(rest, ncDocument, t, ncSession'[t], ncRaced)
    <3>1. PICK new, old : new = ncSession'[t] /\ old = ncSession[t]
      OBVIOUS
    <3>2. Led(new, old, ncCommits[1], t) /\ Follower(ncCommits, ncDocument, t, old, ncRaced)
      BY <1>0, <2>1, <3>1 DEF Bound
    <3>3. Follower(rest, ncDocument, t, new, ncRaced)
      BY <1>1, <1>2, <3>2, FollowerTail
    <3>4. QED
      BY <3>1, <3>3
  <2>2. QED
    BY <1>1, <2>1 DEF Bound
<1>8. Current'
  <2>1. ASSUME NEW i \in DOMAIN rest
        PROVE  ToldAny(rest, ncDocument, rest[i].tab, i) /\ rest[i].session <= ncOperations
    <3>1. /\ ToldAny(ncCommits, ncDocument, ncCommits[i + 1].tab, i + 1)
          /\ ncCommits[i + 1].session <= ncOperations /\ rest[i] = ncCommits[i + 1]
      BY <1>0, <1>3, <2>1 DEF Current
    <3>2. PICK tab : tab = rest[i].tab
      OBVIOUS
    <3>3. ToldAny(ncCommits, ncDocument, tab, i + 1)
      BY <3>1, <3>2
    <3>4. ToldAny(rest, ncDocument, tab, i)
      BY <1>1, <1>2, <2>1, <3>3, ToldLater
    <3>5. QED
      BY <3>1, <3>2, <3>4
  <2>2. QED
    BY <1>0, <1>1, <2>1 DEF Current
<1>9. QED
  BY <1>4, <1>5, <1>6, <1>7, <1>8 DEF CaptureInvariant

\* The session that the navigation leads within its origin.
LEMMA LedKeeps ==
    ASSUME NcTypeOK, Accounts, NEW tab \in Tabs, ncSession[tab] # NoSession,
           NEW document \in Documents, document.origin = "own",
           MarkDirty([ncSession EXCEPT ![tab].document = document], {tab}),
           UNCHANGED <<ncCount, ncBytes>>
    PROVE  /\ Settled(ncOperations)
           /\ \A t \in Tabs \ {tab} : ncSession'[t] = ncSession[t]
           /\ ncSession'[tab].id = ncSession[tab].id /\ ncSession'[tab].document = document
<1>1. GoodSessions(ncSession, ncOperations) /\ ncSession \in Sessions
  BY DEF Accounts, GoodSessions
<1>2. PICK old : old = ncSession[tab]
  OBVIOUS
<1>3. Proper(old) /\ old.id <= ncOperations /\ old \in CaptureSessions
  BY <1>1, <1>2, ProperFields DEF GoodSessions
<1>4. PICK new : new = [old EXCEPT !.document = document]
  OBVIOUS
<1>5. /\ new \in CaptureSessions /\ new.id = old.id /\ new.document = document
      /\ new.records = old.records /\ new.bytes = old.bytes
  BY <1>3, <1>4 DEF CaptureSessions
<1>6. Proper(new)
  BY <1>3, <1>5 DEF Proper, Weighed, Kept
<1>7. PICK sessions : sessions = [ncSession EXCEPT ![tab].document = document]
  OBVIOUS
<1>8. sessions = [ncSession EXCEPT ![tab] = new]
  BY <1>1, <1>2, <1>4, <1>7 DEF Sessions
<1>9. /\ sessions \in Sessions /\ sessions[tab] = new /\ new # NoSession
      /\ \A t \in Tabs \ {tab} : sessions[t] = ncSession[t]
  BY <1>1, <1>5, <1>8, NoSessionNone DEF Sessions
<1>10. ASSUME NEW t \in Tabs, sessions[t] # NoSession
       PROVE  NoLarger(sessions[t], ncSession[t], ncOperations)
  <2>1. ncSession[t] # NoSession /\ Proper(ncSession[t]) /\ ncSession[t].id <= ncOperations
    BY <1>1, <1>9, <1>10 DEF GoodSessions
  <2>2. Len(ncSession[t].records) \in Nat /\ ncSession[t].bytes \in Nat
    BY <2>1, ProperFields
  <2>3. CASE t = tab
    BY <1>2, <1>5, <1>6, <1>9, <2>1, <2>2, <2>3 DEF NoLarger
  <2>4. CASE t # tab
    BY <1>9, <2>1, <2>2, <2>4 DEF NoLarger
  <2>5. QED
    BY <2>3, <2>4
<1>11. GoodSessions(sessions, ncOperations)
  BY <1>1, <1>9, <1>10, GoodFewer
<1>12. PICK tabs, changed : tabs = {} /\ changed = {tab}
  OBVIOUS
<1>13. tabs \in SUBSET Tabs /\ EntriesIn(ncSession, tabs) = 0 /\ BytesIn(ncSession, tabs) = 0
  <2>1. /\ EntriesIn(ncSession, tabs) = TotalOf(EntriesOf(ncSession), tabs)
        /\ BytesIn(ncSession, tabs) = TotalOf(BytesOf(ncSession), tabs)
    BY <1>1, TotalsOf
  <2>2. QED
    BY <1>12, <2>1, TotalNone
<1>14. ncCount' = ncCount - EntriesIn(ncSession, tabs) /\ ncBytes' = ncBytes - BytesIn(ncSession, tabs)
  <2>1. ncCount \in Nat /\ ncBytes \in Nat
    BY TypeFacts
  <2>2. QED
    BY <1>13, <2>1
<1>15. /\ \A t \in Tabs \ tabs : /\ Entries(ncSession[t]) = Entries(sessions[t])
                                 /\ Bytes(ncSession[t]) = Bytes(sessions[t])
       /\ \A t \in tabs : Entries(sessions[t]) = 0 /\ Bytes(sessions[t]) = 0
       /\ \A t \in Tabs : t \notin changed => sessions[t] = NoSession \/ sessions[t] = ncSession[t]
  <2>1. Entries(sessions[tab]) = Entries(ncSession[tab]) /\ Bytes(sessions[tab]) = Bytes(ncSession[tab])
    BY <1>2, <1>5, <1>9 DEF Entries, Bytes
  <2>2. QED
    BY <1>9, <1>12, <2>1
<1>16. MarkDirty(sessions, changed)
  BY <1>7, <1>12
<1>17. Settled(ncOperations) /\ IsDirtied(ncSession', sessions, changed)
  BY <1>11, <1>13, <1>14, <1>15, <1>16, DirtyKeeps
<1>18. SameContent(ncSession'[tab], new) /\ \A t \in Tabs \ {tab} : ncSession'[t] = ncSession[t]
  BY <1>9, <1>12, <1>17 DEF IsDirtied
<1>19. QED
  BY <1>2, <1>5, <1>17, <1>18 DEF SameContent

LEMMA RebindStep ==
    ASSUME CaptureInvariant, Rebind
    PROVE  CaptureInvariant'
<1>0. NcTypeOK /\ Accounts
  BY DEF CaptureInvariant
<1>1. /\ ncLife = "on" /\ ncCommits # <<>> /\ ncCommits' = Tail(ncCommits)
      /\ UNCHANGED <<ncDocument, ncStart, ncDeferred, ncStored, ncWrite, ncWriting, ncLife, ncRaced,
                     ncOperations, ncEvents>>
  BY DEF Rebind
<1>2. PICK commit, tab : commit = Head(ncCommits) /\ tab = commit.tab
  OBVIOUS
<1>3. /\ commit = ncCommits[1] /\ commit.tab = tab /\ tab \in Tabs /\ commit.document \in Documents
      /\ ncMutated \in BOOLEAN /\ ncTimer \in BOOLEAN /\ ncCount \in Nat /\ ncBytes \in Nat
  <2>1. ncCommits \in Seq(Navigations)
    BY <1>0, TypeFacts
  <2>2. 1 \in DOMAIN ncCommits /\ commit = ncCommits[1]
    BY <1>1, <1>2, <2>1, TailOfCommits
  <2>3. commit \in Navigations
    BY <2>1, <2>2
  <2>4. QED
    BY <1>0, <1>2, <2>2, <2>3, TypeFacts DEF Navigations
<1>4. GoodSessions(ncSession, ncOperations)
  BY <1>0 DEF Accounts
<1>5. IF \/ commit.session = 0 \/ SessionId(ncSession, tab) # commit.session
         \/ ncSession[tab].document = commit.document
      THEN UNCHANGED <<ncSession, ncCount, ncBytes, ncMutated, ncTimer>>
      ELSE Follows(tab, commit.document)
  BY <1>2, Zenon DEF Rebind
<1>6. /\ SessionId(ncSession, tab) \in Nat
      /\ ncSession[tab] # NoSession =>
           SessionId(ncSession, tab) = ncSession[tab].id /\ SessionId(ncSession, tab) # 0
      /\ ncSession[tab] = NoSession => SessionId(ncSession, tab) = 0
  BY <1>0, <1>3, SessionIdOf
<1>7. CASE \/ commit.session = 0 \/ SessionId(ncSession, tab) # commit.session
           \/ ncSession[tab].document = commit.document
  <2>1. UNCHANGED <<ncSession, ncCount, ncBytes, ncMutated, ncTimer>>
    BY <1>5, <1>7
  <2>2. Settled(ncOperations)
    <3>1. \A t \in Tabs : Marked(ncSession'[t], ncSession[t])
      BY <2>1, SessionsSame
    <3>2. QED
      BY <1>0, <1>3, <2>1, <3>1 DEF Settled, Accounts
  <2>3. ASSUME NEW t \in Tabs, ncSession'[t] # NoSession
        PROVE  ncSession[t] # NoSession /\ Led(ncSession'[t], ncSession[t], ncCommits[1], t)
    <3>1. ncSession'[t] = ncSession[t] /\ ncSession[t] # NoSession
      BY <2>1, <2>3
    <3>2. t = tab => commit.session # ncSession[t].id \/ ncSession[t].document = commit.document
      BY <1>6, <1>7, <3>1
    <3>3. QED
      BY <1>3, <3>1, <3>2 DEF Led
  <2>4. QED
    BY <1>1, <2>2, <2>3, Handled
<1>8. CASE ~(\/ commit.session = 0 \/ SessionId(ncSession, tab) # commit.session
             \/ ncSession[tab].document = commit.document)
  <2>1. Follows(tab, commit.document)
    BY <1>5, <1>8
  <2>2. ncSession[tab] # NoSession /\ commit.session = ncSession[tab].id
    BY <1>6, <1>8
  <2>3. CASE commit.document.origin = "own"
    <3>1. PICK document \in Documents : document = commit.document
      BY <1>3
    <3>2. /\ MarkDirty([ncSession EXCEPT ![tab].document = document], {tab})
          /\ UNCHANGED <<ncCount, ncBytes>> /\ document.origin = "own"
      BY <2>1, <2>3, <3>1 DEF Follows
    <3>3. /\ Settled(ncOperations)
          /\ \A t \in Tabs \ {tab} : ncSession'[t] = ncSession[t]
          /\ ncSession'[tab].id = ncSession[tab].id /\ ncSession'[tab].document = document
      BY <1>0, <1>3, <2>2, <3>2, LedKeeps
    <3>4. ASSUME NEW t \in Tabs, ncSession'[t] # NoSession
          PROVE  ncSession[t] # NoSession /\ Led(ncSession'[t], ncSession[t], ncCommits[1], t)
      <4>1. CASE t = tab
        BY <1>3, <2>2, <3>1, <3>3, <4>1 DEF Led
      <4>2. CASE t # tab
        BY <1>3, <3>3, <3>4, <4>2 DEF Led
      <4>3. QED
        BY <4>1, <4>2
    <3>5. QED
      BY <1>1, <3>3, <3>4, Handled
  <2>4. CASE commit.document.origin # "own"
    <3>1. SessionsDeleted(ncSession, {tab})
      BY <2>1, <2>4 DEF Follows
    <3>2. Committed /\ ncSession'[tab] = NoSession
      BY <1>0, <1>3, <3>1, DeletedKeeps
    <3>3. ASSUME NEW t \in Tabs, ncSession'[t] # NoSession
          PROVE  ncSession[t] # NoSession /\ Led(ncSession'[t], ncSession[t], ncCommits[1], t)
      <4>1. t # tab /\ SameDocument(ncSession'[t], ncSession[t])
        BY <3>2, <3>3 DEF Committed
      <4>2. QED
        BY <1>3, <3>3, <4>1 DEF Led, SameDocument
    <3>4. QED
      BY <1>1, <3>2, <3>3, Handled DEF Committed
  <2>5. QED
    BY <2>3, <2>4
<1>9. QED
  BY <1>7, <1>8

LEMMA CaptureStutters ==
    ASSUME CaptureInvariant, UNCHANGED ncVars
    PROVE  CaptureInvariant'
<1>0. NcTypeOK
  BY DEF CaptureInvariant
<1>1. /\ UNCHANGED <<ncDocument, ncCommits, ncSession, ncCount, ncBytes, ncStored, ncWrite, ncTimer,
                     ncWriting, ncMutated, ncLife, ncRaced, ncEvents>>
      /\ UNCHANGED <<ncStart, ncDeferred, ncOperations>>
  BY DEF ncVars
<1>2. /\ ncStart \in [Tabs -> Documents \cup {NoSession}] /\ ncDeferred \in Seq(Deferrals)
      /\ Len(ncDeferred) <= MaxDeferred /\ ncOperations \in 0 .. MaxNcOperations /\ ncOperations \in Nat
  BY <1>0, TypeFacts, CounterFacts
<1>3. ncOperations <= ncOperations'
  BY <1>1, <1>2
<1>4. QED
  BY <1>1, <1>2, <1>3, QuietStep

LEMMA CaptureStep ==
    ASSUME CaptureInvariant, [NcSteps]_ncVars
    PROVE  CaptureInvariant'
<1>1. CASE PersistFires
  BY <1>1, PersistFiresStep
<1>2. CASE Written
  BY <1>2, WrittenStep
<1>3. CASE RestoreSessions
  BY <1>3, RestoreSessionsStep
<1>4. CASE Replay
  BY <1>4, ReplayStep
<1>5. CASE Rebind
  BY <1>5, RebindStep
<1>6. CASE KillCapture
  BY <1>6, KillStep
<1>7. CASE RestartCapture
  BY <1>7, RestartStep
<1>8. ASSUME NEW tab \in Tabs,
             \/ Request(tab) \/ Update(tab) \/ StartCapture(tab) \/ Started(tab)
             \/ ClearCapture(tab) \/ StopCapture(tab) \/ Navigate(tab)
      PROVE  CaptureInvariant'
  <2>1. CASE Request(tab)
    BY <2>1, RequestStep
  <2>2. CASE Update(tab)
    BY <2>2, UpdateStep
  <2>3. CASE StartCapture(tab)
    BY <2>3, StartCaptureStep
  <2>4. CASE Started(tab)
    BY <2>4, StartedStep
  <2>5. CASE ClearCapture(tab)
    BY <2>5, ClearCaptureStep
  <2>6. CASE StopCapture(tab)
    BY <2>6, StopCaptureStep
  <2>7. CASE Navigate(tab)
    BY <2>7, NavigateStep
  <2>8. QED
    BY <1>8, <2>1, <2>2, <2>3, <2>4, <2>5, <2>6, <2>7
<1>9. CASE UNCHANGED ncVars
  BY <1>9, CaptureStutters
<1>10. QED
  BY <1>1, <1>2, <1>3, <1>4, <1>5, <1>6, <1>7, <1>8, <1>9 DEF NcSteps, NcWorks

\* Whatever is requested, navigated, written or lost, and however often the worker dies: a
\* session that is reported persisted is stored as it is, the running totals are those of the
\* records that are kept, sessions and all of them together keep to their budgets (also to the
\* number of sessions), only requests of the session's origin are recorded, and a session
\* follows its tab once the navigations are handled.
THEOREM CaptureIsSound == NcSpec => []CaptureSound
<1>1. NcInit => CaptureInvariant
  BY CaptureInitially
<1>2. CaptureInvariant /\ [NcSteps]_ncVars => CaptureInvariant'
  BY CaptureStep
<1>3. CaptureInvariant => CaptureSound
  BY CaptureFollows
<1>4. QED
  BY <1>1, <1>2, <1>3, PTL DEF NcSpec

==============================================================================
