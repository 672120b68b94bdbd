--------------------------- MODULE BrowserRecording ---------------------------
(***************************************************************************)
(* The browser recording of one frame (features/browser-recording/         *)
(* service.ts) and the recorder that it drives in the page                 *)
(* (entrypoints/page-recorder-main-world.ts): user calls and queued        *)
(* navigation events read the session, await commands in the page, and     *)
(* write the session back; the session is written behind to                *)
(* storage.session.                                                        *)
(*                                                                         *)
(* The recorder of a document is the number of its recording (0: none) and *)
(* whether it runs; a document that was left can be shown again with its   *)
(* recorder. A command reaches the document that is shown, and its answer  *)
(* is handled at once. Events, callables and budgets are left out, and     *)
(* the owners are local. Bound: MaxBrEvents.                              *)
(***************************************************************************)
EXTENDS Naturals, Sequences

CONSTANTS
    NoRecording,
    MaxBrEvents         \* user calls, navigations, failing storage calls and terminations in all

ASSUME BrowserRecordingConstants == MaxBrEvents \in Nat

VARIABLES
    brShown,        \* the document that the frame shows, 0 when its tab was removed
    brPages,        \* the recorders of the documents
    brMoving,       \* a navigation was begun
    brQueue,        \* lifecycleQueues: the events not yet handled
    brTask, brCall, \* the event and the user call that are being handled
    brSession,      \* latestSnapshots
    brOwned,        \* ownedRecordings: the document, 0 for none
    brPersistence,  \* status.persistence
    brStored, brWrite,      \* the session in storage.session, and in the write in flight
    brTimer, brWriting,     \* persistTimer, persistInFlight
    brMutated,      \* mutationRevision is newer than the snapshot last taken
    brFailed,       \* sessionRestoreError
    brLife,         \* the worker: "off", "restoring" or "on"
    brOver,         \* history: the user has stopped or cleared the recording
    brCrossed,      \* history: an event came or waited while a start, stop or clear was handled
    brBack,         \* history: the frame went back before all was handled, or to a running recorder
    brLost,         \* history: a worker was terminated with events, a call or unstored changes
    brCalls, brNavigations, brFaults

brMemory == <<brSession, brOwned, brPersistence, brTimer, brMutated>>
brStorage == <<brStored, brWrite, brWriting, brFailed, brLife>>
brPage == <<brShown, brPages, brMoving>>
brHistory == <<brOver, brCrossed, brBack, brLost>>
brBounds == <<brCalls, brNavigations, brFaults>>
brVars == <<brMemory, brStorage, brPage, brQueue, brTask, brCall, brHistory, brBounds>>

BrDocuments == 1 .. MaxBrEvents + 1
Recorders == [id : 0 .. MaxBrEvents, active : BOOLEAN]
Recordings == [id : 1 .. MaxBrEvents, active : BOOLEAN, document : 0 .. MaxBrEvents + 1,
               available : BOOLEAN, navigated : BOOLEAN]
MaybeRecording == Recordings \cup {NoRecording}

BrTasks ==
    [step : {"get"}, read : MaybeRecording, document : 0 .. MaxBrEvents + 1]
    \cup [step : {"stop", "probe", "run", "reuse", "resume", "record"}, read : Recordings,
          document : 0 .. MaxBrEvents + 1]
CallsOfUser ==
    [kind : {"start"}, step : {"remove"}, read : {NoRecording}]
    \cup [kind : {"start", "stop", "clear", "get"}, step : {"page", "start", "write", "resume"},
          read : Recordings]

ASSUME BrowserRecordingNone == NoRecording \notin Recordings \cup BrTasks \cup CallsOfUser

BrTypeOK ==
    /\ brShown \in BrDocuments \cup {0} /\ brPages \in [BrDocuments -> Recorders]
    /\ brQueue \in Seq([kind : {"before", "committed", "completed", "failed", "same"},
                        document : BrDocuments])
    /\ brTask \in BrTasks \cup {NoRecording} /\ brCall \in CallsOfUser \cup {NoRecording}
    /\ {brSession, brStored, brWrite} \subseteq MaybeRecording
    /\ brOwned \in BrDocuments \cup {0}
    /\ brPersistence \in {"pending", "persisted", "degraded"}
    /\ {brMoving, brTimer, brWriting, brMutated, brFailed, brOver, brCrossed, brBack, brLost} \subseteq BOOLEAN
    /\ brLife \in {"off", "restoring", "on"}
    /\ brCalls \in 0 .. MaxBrEvents /\ brNavigations \in 0 .. MaxBrEvents
    /\ brFaults \in 0 .. MaxBrEvents

BrInit ==
    /\ brShown = 1 /\ brPages = [document \in BrDocuments |-> [id |-> 0, active |-> FALSE]]
    /\ brMoving = FALSE /\ brQueue = <<>> /\ brTask = NoRecording /\ brCall = NoRecording
    /\ brSession = NoRecording /\ brOwned = 0 /\ brPersistence = "persisted"
    /\ brStored = NoRecording /\ brWrite = NoRecording
    /\ brTimer = FALSE /\ brWriting = FALSE /\ brMutated = FALSE /\ brFailed = FALSE
    /\ brLife = "on" /\ brOver = FALSE /\ brCrossed = FALSE /\ brBack = FALSE /\ brLost = FALSE
    /\ brCalls = 0 /\ brNavigations = 0 /\ brFaults = 0

Within == brCalls + brNavigations + brFaults < MaxBrEvents

-----------------------------------------------------------------------------
(* The session and its write-behind *)

\* markSessionsMutated
MutateSessions ==
    /\ brMutated' = TRUE
    /\ brTimer' = (brTimer \/ ~brWriting)
    /\ brPersistence' = IF brFailed THEN "degraded" ELSE "pending"

\* writeSession: nothing for a removed tab, no new revision for an unchanged session.
WriteSession(session) ==
    IF brShown = 0 \/ session = brSession
    THEN UNCHANGED <<brSession, brPersistence, brTimer, brMutated>>
    ELSE brSession' = session /\ MutateSessions

\* removeSession
RemoveSession == brSession' = NoRecording /\ brOwned' = 0 /\ MutateSessions

PersistRecording ==
    /\ brLife = "on" /\ brTimer
    /\ brTimer' = FALSE /\ brWriting' = TRUE /\ brMutated' = FALSE /\ brWrite' = brSession
    /\ UNCHANGED <<brSession, brOwned, brPersistence, brStored, brFailed, brLife, brPage, brQueue,
                   brTask, brCall, brHistory, brBounds>>

\* Only a snapshot of the newest revision is credited.
Credit == IF brMutated THEN brPersistence ELSE "persisted"

RecordingWritten ==
    /\ brWriting
    /\ brWriting' = FALSE /\ brTimer' = brMutated /\ brWrite' = NoRecording
    /\ \/ /\ brStored' = brWrite /\ brFailed' = FALSE /\ brPersistence' = Credit
          /\ UNCHANGED brFaults
       \/ /\ Within /\ brFaults' = brFaults + 1
          /\ brFailed' = TRUE /\ brPersistence' = "degraded"
          /\ UNCHANGED brStored
    /\ UNCHANGED <<brSession, brOwned, brMutated, brLife, brPage, brQueue, brTask, brCall, brHistory,
                   brCalls, brNavigations>>

-----------------------------------------------------------------------------
(* The page *)

\* A command reaches its document while that is shown.
Reaches(document) == brShown # 0 /\ document \in {0, brShown}
Recorder == brPages[brShown]
SetRecorder(recorder) == brPages' = [brPages EXCEPT ![brShown] = recorder]

\* mergeSessionSnapshot: the recorder's state over the session that was read.
Merged(read, raw, document) ==
    [id |-> raw.id, active |-> raw.active, document |-> document, available |-> TRUE,
     navigated |-> read # NoRecording /\ read.id = raw.id /\ read.navigated]

\* An event comes while a call that changes the recording is handled.
Crosses == brCrossed' = (brCrossed \/ (brCall # NoRecording /\ brCall.kind # "get"))

BeginNavigation ==
    /\ brShown # 0 /\ ~brMoving
    /\ Within /\ brNavigations' = brNavigations + 1
    /\ brMoving' = TRUE
    /\ brQueue' = Append(brQueue, [kind |-> "before", document |-> brShown])
    /\ brLife' = IF brLife = "off" THEN "restoring" ELSE brLife
    /\ Crosses
    /\ UNCHANGED <<brShown, brPages, brTask, brCall, brMemory, brStored, brWrite, brWriting, brFailed,
                   brOver, brBack, brLost, brCalls, brFaults>>

\* A commit that is not yet handled, or a call of the user.
UnderWay ==
    \/ \E i \in DOMAIN brQueue : brQueue[i].kind \in {"committed", "completed"}
    \/ brTask # NoRecording /\ brTask.step \in {"probe", "run", "reuse"}
    \/ brCall # NoRecording

\* The navigation commits, to a new document or to one that was left, or it fails.
EndNavigation ==
    /\ brMoving /\ brMoving' = FALSE
    /\ brLife' = IF brLife = "off" THEN "restoring" ELSE brLife
    /\ \/ /\ \E document \in {brNavigations + 1} \cup (1 .. brNavigations) :
               /\ document # brShown
               /\ brShown' = document
               /\ brQueue' = brQueue \o <<[kind |-> "committed", document |-> document],
                                          [kind |-> "completed", document |-> document]>>
               /\ brBack' = (brBack \/ brPages[document].active \/ (document <= brNavigations /\ UnderWay))
       \/ /\ brQueue' = Append(brQueue, [kind |-> "failed", document |-> brShown])
          /\ UNCHANGED <<brShown, brBack>>
    /\ Crosses
    /\ UNCHANGED <<brPages, brTask, brCall, brMemory, brStored, brWrite, brWriting, brFailed, brOver,
                   brLost, brBounds>>

NavigateWithin ==
    /\ brShown # 0 /\ ~brMoving
    /\ Within /\ brNavigations' = brNavigations + 1
    /\ brQueue' = Append(brQueue, [kind |-> "same", document |-> brShown])
    /\ brLife' = IF brLife = "off" THEN "restoring" ELSE brLife
    /\ Crosses
    /\ UNCHANGED <<brPage, brTask, brCall, brMemory, brStored, brWrite, brWriting, brFailed,
                   brOver, brBack, brLost, brCalls, brFaults>>

\* onRemoved: the sessions of the tab are removed, handlers under way go on.
RemoveTab ==
    /\ brLife = "on" /\ brShown # 0
    /\ brShown' = 0 /\ brMoving' = FALSE
    /\ RemoveSession
    /\ UNCHANGED <<brPages, brQueue, brTask, brCall, brStorage, brHistory, brBounds>>

-----------------------------------------------------------------------------
(* The navigation events *)

NextTask(step, read, document) ==
    brTask' = [step |-> step, read |-> read, document |-> document]

Recording(session) == session # NoRecording /\ session.active

\* MUTANT of Continues: whether or not it was stopped.
ContinuesAny(session, document) == session # NoRecording /\ session.document # document

\* continueRecordingOnDocument goes on for an active session that is not that of the
\* document already.
Continues(session, document) ==
    Recording(session) /\ (session.navigated \/ session.document # document)

\* An event reads the session, and whether it has anything to do.
TakeEvent ==
    /\ brLife = "on" /\ brTask = NoRecording /\ brQueue # <<>>
    /\ brQueue' = Tail(brQueue)
    /\ LET event == Head(brQueue)
           session == brSession IN
       CASE event.kind = "before" ->
              NextTask("get", session, IF brOwned # 0 THEN brOwned
                                       ELSE IF session # NoRecording THEN session.document ELSE 0)
         [] event.kind \in {"committed", "completed"} /\ Continues(session, event.document) ->
              NextTask("probe", [session EXCEPT !.document = event.document, !.available = FALSE,
                                                !.active = TRUE, !.navigated = TRUE],
                       event.document)
         [] event.kind = "failed" /\ Recording(session) /\ session.navigated ->
              NextTask("resume", [session EXCEPT !.available = FALSE], session.document)
         [] event.kind = "same" /\ Recording(session) -> NextTask("record", session, event.document)
         [] OTHER -> UNCHANGED brTask
    /\ UNCHANGED <<brMemory, brStorage, brPage, brCall, brHistory, brBounds>>

TaskStep(step) == brLife = "on" /\ brTask # NoRecording /\ brTask.step = step
TaskEnds == brTask' = NoRecording
TaskFrame == UNCHANGED <<brStorage, brShown, brMoving, brQueue, brCall, brHistory, brBounds>>

\* Only an active recording is archived.
Archives(snapshot) == Recording(snapshot)

\* archiveBeforeNavigation: a last snapshot, if the page is still there; then the
\* recorder stops and the session is archived, still active.
ArchiveGet ==
    /\ TaskStep("get")
    /\ LET raw == IF Reaches(brTask.document) THEN Recorder ELSE [id |-> 0, active |-> FALSE]
           snapshot == IF raw.id # 0 THEN Merged(brTask.read, raw, brTask.document) ELSE brTask.read
       IN  IF Archives(snapshot)
           THEN brOwned' = brTask.document /\ NextTask("stop", snapshot, brTask.document)
           ELSE TaskEnds /\ UNCHANGED brOwned
    /\ UNCHANGED <<brSession, brPersistence, brTimer, brMutated, brPages>>
    /\ TaskFrame

ArchiveStop ==
    /\ TaskStep("stop") /\ TaskEnds
    /\ IF Reaches(brTask.document) THEN SetRecorder([Recorder EXCEPT !.active = FALSE])
                                   ELSE UNCHANGED brPages
    /\ WriteSession([brTask.read EXCEPT !.active = TRUE, !.available = FALSE, !.navigated = TRUE])
    /\ UNCHANGED brOwned
    /\ TaskFrame

\* MUTANT of Resumed: the command changes nothing.
ResumedNot(recorder) == recorder

Resumed(recorder) == [recorder EXCEPT !.active = TRUE]

\* continueRecordingOnDocument: what the document has is probed, then its recorder of the
\* session resumes, or one starts; out of reach, the session stays active.
ContinueProbe ==
    /\ TaskStep("probe")
    /\ IF Reaches(brTask.document)
       THEN /\ brTask' = [brTask EXCEPT !.step = IF Recorder.id = brTask.read.id THEN "reuse" ELSE "run"]
            /\ UNCHANGED <<brSession, brPersistence, brTimer, brMutated>>
       ELSE TaskEnds /\ WriteSession(brTask.read)
    /\ UNCHANGED <<brOwned, brPages>>
    /\ TaskFrame

ContinueRun ==
    /\ TaskStep("run") \/ TaskStep("reuse")
    /\ TaskEnds
    /\ IF Reaches(brTask.document) /\ (brTask.step = "run" \/ Recorder.id # 0)
       THEN LET recorder == IF brTask.step = "run" THEN [id |-> brTask.read.id, active |-> TRUE]
                            ELSE Resumed(Recorder)
            IN  /\ SetRecorder(recorder)
                /\ brOwned' = brTask.document
                /\ WriteSession([brTask.read EXCEPT !.id = recorder.id, !.available = TRUE])
       ELSE WriteSession(brTask.read) /\ UNCHANGED <<brOwned, brPages>>
    /\ TaskFrame

\* failNavigation: the recorder that the archive stopped resumes.
FailResume ==
    /\ TaskStep("resume") /\ TaskEnds
    /\ IF Reaches(brTask.document) /\ Recorder.id # 0
       THEN /\ SetRecorder(Resumed(Recorder))
            /\ WriteSession([brTask.read EXCEPT !.id = Recorder.id, !.available = TRUE])
       ELSE WriteSession(brTask.read) /\ UNCHANGED brPages
    /\ UNCHANGED brOwned
    /\ TaskFrame

\* recordSameDocumentNavigation
SameRecord ==
    /\ TaskStep("record") /\ TaskEnds
    /\ WriteSession([brTask.read EXCEPT !.document = brTask.document, !.available = TRUE,
                                        !.navigated = TRUE])
    /\ UNCHANGED <<brOwned, brPages>>
    /\ TaskFrame

-----------------------------------------------------------------------------
(* The calls of the user *)

NextCall(kind, step, read) == brCall' = [kind |-> kind, step |-> step, read |-> read]

BeginCall(kind) ==
    /\ brLife = "on" /\ brCall = NoRecording /\ brShown # 0
    /\ Within /\ brCalls' = brCalls + 1
    /\ kind = "start" \/ brSession # NoRecording
    /\ NextCall(kind, IF brSession = NoRecording THEN "remove" ELSE "page", brSession)
    /\ brOver' = (brOver /\ kind # "start")
    /\ brCrossed' = \/ kind # "get" /\ (brTask # NoRecording \/ brQueue # <<>>)
                    \/ kind # "start" /\ brCrossed
    /\ UNCHANGED <<brMemory, brStorage, brPage, brQueue, brTask, brBack, brLost, brNavigations,
                   brFaults>>

CallStep(kind, step) ==
    brLife = "on" /\ brCall # NoRecording /\ brCall.kind = kind /\ brCall.step = step
BrCallEnds == brCall' = NoRecording
CallFrame == UNCHANGED <<brStorage, brShown, brMoving, brQueue, brTask, brCrossed, brBack, brLost,
                         brBounds>>

\* clearBrowserRecording, also of a tab's sessions before a new recording starts.
CallClear ==
    /\ \E kind \in {"clear", "start"} :
         /\ CallStep(kind, "page")
         /\ IF kind = "start" THEN NextCall("start", "remove", NoRecording) ELSE BrCallEnds
         /\ brOver' = (brOver \/ kind = "clear")
    /\ IF Reaches(brCall.read.document) THEN SetRecorder([id |-> 0, active |-> FALSE])
                                        ELSE UNCHANGED brPages
    /\ RemoveSession
    /\ CallFrame

\* startBrowserRecording removes the session, starts the recorder of the document that
\* it was called for, asks for the page's address and writes the session.
CallRemove ==
    /\ CallStep("start", "remove") /\ brShown # 0
    /\ RemoveSession
    /\ NextCall("start", "start", [id |-> brCalls, active |-> TRUE, document |-> brShown,
                                   available |-> TRUE, navigated |-> FALSE])
    /\ UNCHANGED <<brPages, brOver>>
    /\ CallFrame

CallStart ==
    /\ CallStep("start", "start")
    /\ IF Reaches(brCall.read.document)
       THEN /\ SetRecorder([id |-> brCall.read.id, active |-> TRUE])
            /\ brOwned' = brCall.read.document
            /\ brCall' = [brCall EXCEPT !.step = "write"]
       ELSE BrCallEnds /\ UNCHANGED <<brPages, brOwned>>
    /\ UNCHANGED <<brSession, brPersistence, brTimer, brMutated, brOver>>
    /\ CallFrame

CallWrite ==
    /\ CallStep("start", "write") /\ BrCallEnds
    /\ WriteSession(brCall.read)
    /\ UNCHANGED <<brOwned, brPages, brOver>>
    /\ CallFrame

\* stopBrowserRecording
CallStop ==
    /\ CallStep("stop", "page") /\ BrCallEnds
    /\ brOwned' = 0
    /\ LET read == brCall.read IN
       IF Reaches(read.document) /\ Recorder.id # 0
       THEN /\ SetRecorder([Recorder EXCEPT !.active = FALSE])
            /\ WriteSession([Merged(read, Recorder, read.document) EXCEPT !.active = FALSE])
       ELSE WriteSession([read EXCEPT !.active = FALSE]) /\ UNCHANGED brPages
    /\ brOver' = TRUE
    /\ CallFrame

\* getBrowserRecording: a recorder that was stopped under an active session resumes.
CallGet ==
    /\ CallStep("get", "page")
    /\ LET read == brCall.read
           raw == Recorder IN
       IF ~Reaches(read.document) \/ Recorder.id = 0
       THEN BrCallEnds /\ UNCHANGED <<brSession, brPersistence, brTimer, brMutated>>
       ELSE IF read.active /\ raw.id = read.id /\ ~raw.active
       THEN /\ brCall' = [brCall EXCEPT !.step = "resume"]
            /\ UNCHANGED <<brSession, brPersistence, brTimer, brMutated>>
       ELSE BrCallEnds /\ WriteSession([Merged(read, raw, read.document) EXCEPT
                                        !.active = raw.active \/ read.active])
    /\ UNCHANGED <<brOwned, brPages, brOver>>
    /\ CallFrame

CallResume ==
    /\ CallStep("get", "resume") /\ BrCallEnds
    /\ IF Reaches(brCall.read.document) /\ Recorder.id # 0
       THEN /\ SetRecorder(Resumed(Recorder))
            /\ WriteSession([Merged(brCall.read, Recorder, brCall.read.document) EXCEPT !.active = TRUE])
       ELSE UNCHANGED <<brPages, brSession, brPersistence, brTimer, brMutated>>
    /\ UNCHANGED <<brOwned, brOver>>
    /\ CallFrame

-----------------------------------------------------------------------------
(* The worker *)

KillRecording ==
    /\ brLife = "on" /\ Within /\ brFaults' = brFaults + 1
    /\ brLife' = "off"
    /\ brStored' \in {brStored} \cup IF brWriting THEN {brWrite} ELSE {}
    /\ brLost' = \/ brLost \/ brQueue # <<>> \/ brTask # NoRecording \/ brCall # NoRecording
                 \/ brStored' # brSession
    /\ brSession' = NoRecording /\ brOwned' = 0 /\ brPersistence' = "persisted"
    /\ brTimer' = FALSE /\ brMutated' = FALSE /\ brWriting' = FALSE /\ brWrite' = NoRecording
    /\ brFailed' = FALSE /\ brQueue' = <<>> /\ brTask' = NoRecording /\ brCall' = NoRecording
    /\ UNCHANGED <<brPage, brOver, brCrossed, brBack, brCalls, brNavigations>>

RestartRecording ==
    /\ brLife = "off" /\ brLife' = "restoring"
    /\ UNCHANGED <<brMemory, brStored, brWrite, brWriting, brFailed, brPage, brQueue, brTask, brCall,
                   brHistory, brBounds>>

\* ensureSessionsRestored
RestoreRecording ==
    /\ brLife = "restoring" /\ brLife' = "on"
    /\ \/ /\ brSession' = brStored
          /\ brOwned' = IF Recording(brStored) THEN brStored.document ELSE 0
          /\ UNCHANGED <<brFailed, brFaults, brLost>>
       \/ /\ Within /\ brFaults' = brFaults + 1
          /\ brFailed' = TRUE /\ brLost' = TRUE
          /\ UNCHANGED <<brSession, brOwned>>
    /\ UNCHANGED <<brPersistence, brTimer, brMutated, brStored, brWrite, brWriting, brPage, brQueue,
                   brTask, brCall, brOver, brCrossed, brBack, brCalls, brNavigations>>

BrWorks ==
    \/ PersistRecording \/ RecordingWritten \/ RestoreRecording
    \/ TakeEvent \/ ArchiveGet \/ ArchiveStop \/ ContinueProbe \/ ContinueRun \/ FailResume \/ SameRecord
    \/ CallClear \/ CallRemove \/ CallStart \/ CallWrite \/ CallStop \/ CallGet \/ CallResume

BrSteps ==
    \/ BrWorks
    \/ BeginNavigation \/ EndNavigation \/ NavigateWithin \/ RemoveTab
    \/ KillRecording \/ RestartRecording
    \/ \E kind \in {"start", "stop", "clear", "get"} : BeginCall(kind)

BrSpec == BrInit /\ [][BrSteps]_brVars

-----------------------------------------------------------------------------
(* Properties *)

HandlersIdle ==
    brLife = "on" /\ brTask = NoRecording /\ brQueue = <<>> /\ brCall = NoRecording /\ ~brMoving

\* A recording that the user stopped or cleared stays over until the next start, in the
\* session and in the page, whatever navigations, status calls and restarts follow;
\* except when an event was waiting or being handled at the time, when the frame went back to a
\* document before all was handled, or to one that was left with its recorder running, and when
\* a worker dies with what it had to do.
StopSticks ==
    (brOver /\ ~brCrossed /\ ~brBack /\ ~brLost /\ brShown # 0) => ~Recording(brSession) /\ ~Recorder.active

\* When all is handled, an active session records the document shown, and a running recorder
\* belongs to the active session; with the same exceptions.
RecorderAttended ==
    (HandlersIdle /\ ~brCrossed /\ ~brBack /\ ~brLost /\ brShown # 0 /\ (Recording(brSession) \/ Recorder.active)) =>
        /\ Recording(brSession) /\ brSession.document = brShown
        /\ Recorder = [id |-> brSession.id, active |-> TRUE]

\* Nothing of a removed tab comes back, though its handlers go on.
RemovedForgotten == (brShown = 0 /\ ~brLost) => brSession = NoRecording

\* With no write due or under way, storage holds the session as it is, or the last
\* write failed and the session says so; a session is persisted only as it is stored.
RecordingIsStored ==
    brLife = "on" =>
        /\ (~brTimer /\ ~brWriting /\ ~brFailed) => brStored = brSession
        /\ (brSession # NoRecording /\ brPersistence = "persisted") => brStored = brSession

\* Again and again an active recording goes on in the document that is shown, however
\* it was navigated; with the same exceptions.
RecordingGoesOn ==
    \/ ~Recording(brSession) \/ brCrossed \/ brBack \/ brLost
    \/ brShown # 0 /\ Recorder = [id |-> brSession.id, active |-> TRUE]

\* Session, page and storage agree on what is recorded and on whether it is over.
RecordingSound ==
    BrTypeOK /\ StopSticks /\ RecorderAttended /\ RemovedForgotten /\ RecordingIsStored
=============================================================================
