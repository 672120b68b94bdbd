----------------------------- MODULE DeepCapture -----------------------------
(***************************************************************************)
(* The deep capture of one tab (features/deep-capture/service.ts): a       *)
(* debugger session that stops the page at an armed breakpoint, publishes  *)
(* the stopped page as a stored status, and lets it run again by a call,   *)
(* by the watchdog alarm or by the reconciliation of a restarted worker.   *)
(*                                                                         *)
(* The status is read, then commands are awaited, then the status is       *)
(* written from what was read. A process below is one such run: a call of  *)
(* the UI or the engine, the debugger event at the head of the tab's       *)
(* queue, the alarm listener, or the reconciliation. pc is the await it    *)
(* stands at and snap the status it goes on from.                          *)
(*                                                                         *)
(* The tab stays open and the owner is local. WATCHDOG_MS is one unit of   *)
(* the clock; setting and clearing an alarm never fails, and a script      *)
(* answers when the page runs. Of the runs of the alarm listener, only     *)
(* one is under way at a time. A call whose first read fails changes       *)
(* nothing and is left out. Bounds: MaxTime, MaxPauses, MaxCalls,          *)
(* MaxFaults.                                                              *)
(***************************************************************************)
EXTENDS Naturals, Sequences, Functions

CONSTANTS
    Calls,      \* the calls that can be under way at once
    NoStatus,
    MaxTime,
    MaxPauses,  \* how often the page stops
    MaxCalls,
    MaxFaults   \* how many failing commands and storage calls, sessions ended from
                \* outside, terminations of the worker and events of worker
                \* targets there are in all

ASSUME DeepCaptureConstants ==
    /\ Calls \subseteq {"start", "keep", "resume", "detach"}
    /\ MaxTime \in Nat \ {0} /\ MaxPauses \in Nat /\ MaxCalls \in Nat /\ MaxFaults \in Nat

Processes == Calls \cup {"event", "alarm", "reconcile"}

VARIABLES
    now,
    debugger,       \* who debugs the tab
    page,
    events,         \* debuggerEventQueues: the events not yet handled
    stored,         \* the tab's status in storage.session
    alarm,          \* the time of the watchdog alarm, or 0
    alive,
    broken,         \* storageQueue is rejected
    intentional,    \* intentionalDetaches has the tab
    resuming,       \* resumeInProgress has the tab
    pc,
    snap,           \* the status that a process read
    next,           \* the status that it is about to store
    resumed,        \* its release has let the page run
    purpose,        \* what it releases the page for
    overwritten,    \* history: a status was written over one that its writer had
                    \* not read
    unreported,     \* history: nothing tells of a stopped page or of a session any
                    \* more. The worker died while a stopped page was not yet stored
                    \* as stopped, or not watched; the status could not be read for
                    \* the event of a stop, or to release a stopped page; a page that
                    \* nobody captures could neither be resumed nor be left; a session
                    \* could not be detached, and that could not be written, or the
                    \* browser could not even be asked whether it is still there
    raced,          \* history: a start was under way beside another run or event,
                    \* or when the worker died
    pauses, calls, spent

browserVars == <<now, debugger, page>>
memoryVars  == <<broken, intentional, resuming>>
localVars   == <<snap, next, resumed, purpose>>
vars == <<browserVars, events, stored, alarm, alive, memoryVars, pc, localVars,
          overwritten, unreported, raced, pauses, calls, spent>>

NoPause == [id |-> 0, deadline |-> 0]

Statuses ==
    [state : {"attached", "armed", "paused", "captured", "error", "detached"},
     pause : [id : 0 .. MaxPauses, deadline : 0 .. MaxTime],
     page : {"unknown", "running", "possibly-paused"},
     debugger : {"unknown", "detached", "still-attached"}]

ASSUME NoStatusIsNone == NoStatus \notin Statuses

\* What the browser tells of the tab; "stop" numbers the stops of the page.
Events ==
    [kind : {"paused"}, stop : 1 .. MaxPauses]
        \cup [kind : {"resumed", "expelled", "worker"}, stop : {0}]

Told(kind) == [kind |-> kind, stop |-> 0]

TypeOK ==
    /\ now \in 0 .. MaxTime
    /\ debugger \in {"nobody", "extension", "other"}
    /\ page \in {"running", "paused"}
    /\ events \in Seq(Events)
    /\ stored \in Statuses \cup {NoStatus}
    /\ alarm \in 0 .. MaxTime
    /\ alive \in BOOLEAN /\ broken \in BOOLEAN
    /\ intentional \in BOOLEAN /\ resuming \in BOOLEAN
    /\ pc \in [Processes ->
                 {"idle", "arm", "write-armed", "observe", "reread", "rewrite",
                  "write-kept", "watch-kept", "orphan", "write-pause", "watch",
                  "enrich", "write-enriched", "settle", "write-external",
                  "write-expelled", "read", "resume", "disarm",
                  "detach", "write", "decide"}]
    /\ snap \in [Processes -> Statuses \cup {NoStatus}]
    /\ next \in [Processes -> Statuses \cup {NoStatus}]
    /\ resumed \in [Processes -> BOOLEAN]
    /\ purpose \in [Processes -> {"resume", "detach", "arm", "pause"}]
    /\ overwritten \in BOOLEAN /\ unreported \in BOOLEAN /\ raced \in BOOLEAN
    /\ pauses \in 0 .. MaxPauses /\ calls \in 0 .. MaxCalls /\ spent \in 0 .. MaxFaults

\* The status of an attempt that found none.
Fresh == [state |-> "attached", pause |-> NoPause, page |-> "unknown",
          debugger |-> "unknown"]

\* Nothing is captured, or a session was armed before.
Init ==
    /\ now = 0 /\ page = "running" /\ events = <<>> /\ alarm = 0
    /\ \/ debugger = "nobody" /\ stored = NoStatus
       \/ debugger = "extension" /\ stored = [Fresh EXCEPT !.state = "armed"]
    /\ alive = TRUE /\ broken = FALSE /\ intentional = FALSE /\ resuming = FALSE
    /\ pc = [p \in Processes |-> "idle"]
    /\ snap = [p \in Processes |-> NoStatus]
    /\ next = [p \in Processes |-> NoStatus]
    /\ resumed = [p \in Processes |-> FALSE]
    /\ purpose = [p \in Processes |-> "resume"]
    /\ overwritten = FALSE /\ unreported = FALSE /\ raced = FALSE
    /\ pauses = 0 /\ calls = 0 /\ spent = 0

-----------------------------------------------------------------------------
(* Helpers *)

\* A fault, a termination or an event of a worker target.
Spend == spent < MaxFaults /\ spent' = spent + 1

Goto(p, step) == pc' = [pc EXCEPT ![p] = step]

\* The end of a process; what it held is forgotten.
Done(p) ==
    /\ Goto(p, "idle")
    /\ snap' = [snap EXCEPT ![p] = NoStatus]
    /\ next' = [next EXCEPT ![p] = NoStatus]
    /\ resumed' = [resumed EXCEPT ![p] = FALSE]
    /\ purpose' = [purpose EXCEPT ![p] = "resume"]

\* WATCHDOG_MS from now; when time ends a deadline is due at once.
Deadline == IF now < MaxTime THEN now + 1 ELSE MaxTime

Read(p, step) ==
    /\ Goto(p, step)
    /\ snap' = [snap EXCEPT ![p] = stored]

PauseOf(status) == IF status = NoStatus THEN 0 ELSE status.pause.id

\* releaseDeepCaptureRuntime takes the page for stopped.
WasPaused(status) ==
    status.state = "paused" \/ status.page = "possibly-paused" \/ status.pause # NoPause

\* releaseDeepCaptureRuntime begins for a status.
Release(p, why, status) ==
    /\ Goto(p, "resume")
    /\ purpose' = [purpose EXCEPT ![p] = why]
    /\ snap' = [snap EXCEPT ![p] = status]
    /\ UNCHANGED <<next, resumed>>

\* MUTANT of Released: a failed detach is stored as a successful one.
ReleasedAnyway(why, status, running, detached) ==
    [state    |-> CASE why = "resume" -> "captured"
                    [] why = "detach" -> "detached"
                    [] OTHER          -> "error",
     pause    |-> NoPause,
     page     |-> "running",
     debugger |-> "detached"]

\* What is stored after a release.
Released(why, status, running, detached) ==
    [state    |-> CASE why = "resume" -> IF running THEN "captured" ELSE "error"
                    [] why = "detach" -> IF detached THEN "detached" ELSE "error"
                    [] OTHER          -> "error",
     pause    |-> IF running \/ why = "arm" THEN NoPause ELSE status.pause,
     page     |-> IF running THEN "running" ELSE "possibly-paused",
     debugger |-> IF detached THEN "detached" ELSE "still-attached"]

\* What is stored when the session has ended by itself.
Ended(state) == [state |-> state, pause |-> NoPause, page |-> "running",
                 debugger |-> "detached"]

\* The write of next[p], made from a status that was read before, lands.
Stores(p, read) ==
    /\ ~broken
    /\ stored' = next[p]
    /\ overwritten' = (overwritten \/ stored # read)
    /\ UNCHANGED <<broken, spent>>

\* It is rejected, and with it every later one.
Rejected ==
    /\ IF broken THEN UNCHANGED spent ELSE Spend
    /\ broken' = TRUE
    /\ UNCHANGED <<stored, overwritten>>

\* The status could not be read, and what was to become of a stopped page is lost.
PageForgotten ==
    /\ Spend
    /\ unreported' = (unreported \/ page = "paused")

-----------------------------------------------------------------------------
(* startDeepCapture *)

StartRead ==
    /\ alive /\ pc["start"] = "idle"
    /\ stored # NoStatus => stored.state # "paused"
    /\ Read("start", "arm")
    /\ UNCHANGED <<browserVars, events, stored, alarm, alive, memoryVars, next, resumed,
                   purpose, overwritten, unreported, pauses>>

\* What a failed attempt releases.
FailedBase == IF snap["start"] = NoStatus THEN Fresh ELSE snap["start"]

\* A session of this extension is used again; otherwise a new one is attached,
\* which fails while somebody debugs the tab. Then the breakpoints are set, among
\* them one by a script in the page, which a stopped page does not run.
Reuses == snap["start"] # NoStatus /\ snap["start"].state \in {"attached", "armed"}
             /\ debugger # "nobody"

Arm ==
    /\ alive /\ pc["start"] = "arm"
    /\ UNCHANGED <<now, page, events, stored, alarm, alive, memoryVars, overwritten, unreported,
                   pauses>>
    /\ \/ /\ ~Reuses /\ debugger # "nobody"
          /\ Done("start")
          /\ UNCHANGED <<debugger, spent>>
       \/ /\ Reuses \/ debugger = "nobody"
          /\ debugger' = IF debugger = "nobody" THEN "extension" ELSE debugger
          /\ \/ /\ debugger' = "extension" /\ page = "running"
                /\ Goto("start", "write-armed")
                /\ next' = [next EXCEPT !["start"] = [Fresh EXCEPT !.state = "armed"]]
                /\ UNCHANGED <<snap, resumed, purpose, spent>>
             \/ /\ IF debugger' = "extension" THEN Spend ELSE UNCHANGED spent
                /\ Release("start", "arm", FailedBase)

WriteArmed ==
    /\ alive /\ pc["start"] = "write-armed"
    /\ UNCHANGED <<browserVars, events, alarm, alive, intentional, resuming, unreported, pauses>>
    /\ \/ /\ Stores("start", snap["start"]) /\ Goto("start", "observe")
          /\ next' = [next EXCEPT !["start"] = NoStatus]
          /\ UNCHANGED <<snap, resumed, purpose>>
       \/ /\ Rejected
          /\ Release("start", "arm", FailedBase)

\* enableWorkerObservation: when the command fails, the status is read and
\* written once more.
Observe(p) ==
    /\ alive /\ pc[p] = "observe"
    /\ UNCHANGED <<browserVars, events, stored, alarm, alive, memoryVars, overwritten, unreported,
                   pauses>>
    /\ \/ /\ debugger = "extension"
          /\ IF p = "start" THEN Done(p) ELSE Read(p, "decide") /\ UNCHANGED <<next, resumed, purpose>>
          /\ UNCHANGED spent
       \/ /\ IF debugger = "extension" THEN Spend ELSE UNCHANGED spent
          /\ Goto(p, "reread")
          /\ UNCHANGED localVars

\* A status is read to be written with a change that does not matter here.
Reread(p) ==
    /\ alive /\ pc[p] = "reread"
    /\ \/ /\ IF stored = NoStatus
             THEN Done(p)
             ELSE /\ Goto(p, "rewrite")
                  /\ next' = [next EXCEPT ![p] = stored]
                  /\ UNCHANGED <<snap, resumed, purpose>>
          /\ UNCHANGED spent
       \/ /\ Spend
          /\ IF p = "start" THEN Release("start", "arm", FailedBase) ELSE Done(p)
    /\ UNCHANGED <<browserVars, events, stored, alarm, alive, memoryVars, overwritten, unreported,
                   pauses>>

Rewrite(p) ==
    /\ alive /\ pc[p] = "rewrite"
    /\ UNCHANGED <<browserVars, events, alarm, alive, intentional, resuming, unreported, pauses>>
    /\ \/ /\ Stores(p, next[p])
          /\ IF p = "reconcile" THEN /\ Goto(p, "decide")
                  /\ snap' = [snap EXCEPT ![p] = next[p]]
                  /\ UNCHANGED <<next, resumed, purpose>>
             ELSE Done(p)
       \/ /\ Rejected
          /\ IF p = "start" THEN Release("start", "arm", FailedBase) ELSE Done(p)

-----------------------------------------------------------------------------
(* keepDeepCaptureAlive, resumeDeepCapture and detachDeepCapture *)

KeepRead ==
    /\ alive /\ pc["keep"] = "idle"
    /\ now < MaxTime
    /\ stored # NoStatus /\ stored.state = "paused" /\ stored.pause # NoPause
    /\ Read("keep", "write-kept")
    /\ next' = [next EXCEPT !["keep"] = [stored EXCEPT !.pause.deadline = Deadline]]
    /\ UNCHANGED <<browserVars, events, stored, alarm, alive, memoryVars, resumed, purpose,
                   overwritten, unreported, pauses>>

WriteKept ==
    /\ alive /\ pc["keep"] = "write-kept"
    /\ UNCHANGED <<browserVars, events, alarm, alive, intentional, resuming, unreported, pauses>>
    /\ \/ Stores("keep", snap["keep"]) /\ Goto("keep", "watch-kept") /\ UNCHANGED localVars
       \/ Rejected /\ Done("keep")

WatchKept ==
    /\ alive /\ pc["keep"] = "watch-kept"
    /\ Done("keep")
    /\ alarm' = next["keep"].pause.deadline
    /\ UNCHANGED <<browserVars, events, stored, alive, memoryVars, overwritten, unreported,
                   pauses, spent>>

\* resumeDeepCapture and detachDeepCapture read the status and release for it.
ReadForRelease(p, why) ==
    IF stored = NoStatus THEN Done(p) ELSE Release(p, why, stored)

ResumeCalled ==
    /\ alive /\ pc["resume"] = "idle"
    /\ ReadForRelease("resume", "resume")
    /\ UNCHANGED <<browserVars, events, stored, alarm, alive, memoryVars, overwritten, unreported,
                   pauses>>

DetachCalled ==
    /\ alive /\ pc["detach"] = "idle"
    /\ ReadForRelease("detach", "detach")
    /\ UNCHANGED <<browserVars, events, stored, alarm, alive, memoryVars, overwritten, unreported,
                   pauses>>

\* So do the other runs that come to it.
Reads(p) ==
    /\ alive /\ pc[p] = "read"
    /\ \/ ReadForRelease(p, purpose[p]) /\ UNCHANGED <<unreported, spent>>
       \/ Done(p) /\ PageForgotten
    /\ UNCHANGED <<browserVars, events, stored, alarm, alive, memoryVars, overwritten, pauses>>

\* releaseDeepCaptureRuntime: a stopped page is resumed first; then the watchdog and
\* the breakpoints are cleared, and a script in the page is waited for.
Resume(p) ==
    /\ alive /\ pc[p] = "resume"
    /\ Goto(p, "disarm")
    /\ alarm' = 0
    /\ resuming' = (resuming \/ WasPaused(snap[p]))
    /\ \/ /\ ~WasPaused(snap[p])
          /\ resumed' = [resumed EXCEPT ![p] = TRUE]
          /\ UNCHANGED <<page, events, spent>>
       \/ /\ WasPaused(snap[p]) /\ debugger = "extension" /\ page = "paused"
          /\ page' = "running"
          /\ events' = Append(events, Told("resumed"))
          /\ resumed' = [resumed EXCEPT ![p] = TRUE]
          /\ UNCHANGED spent
       \/ /\ WasPaused(snap[p])
          /\ IF debugger = "extension" /\ page = "paused" THEN Spend ELSE UNCHANGED spent
          /\ UNCHANGED <<page, events, resumed>>
    /\ UNCHANGED <<now, debugger, stored, alive, broken, intentional, snap, next, purpose,
                   overwritten, unreported, pauses>>

\* A stopped page does not run it.
Disarmed(p) ==
    /\ alive /\ pc[p] = "disarm"
    /\ page = "running"
    /\ Goto(p, "detach")
    /\ UNCHANGED <<browserVars, events, stored, alarm, alive, memoryVars, localVars, overwritten,
                   unreported, pauses, spent>>

\* detachOwnedDebugger: a session that is not there counts as detached, and so does
\* one that could not be detached when the browser does not say that it is there.
Detached(p) ==
    /\ resuming' = FALSE
    /\ \/ /\ debugger = "extension"
          /\ debugger' = "nobody" /\ page' = "running"
          /\ intentional' = TRUE
          /\ \/ events' = events
             \/ events' = Append(events, Told("expelled"))
          /\ next' = [next EXCEPT ![p] = Released(purpose[p], snap[p], TRUE, TRUE)]
          /\ UNCHANGED <<unreported, spent>>
       \/ /\ debugger # "extension"
          /\ intentional' = FALSE
          /\ next' = [next EXCEPT ![p] = Released(purpose[p], snap[p], TRUE, TRUE)]
          /\ UNCHANGED <<debugger, page, events, unreported, spent>>
       \/ /\ debugger = "extension" /\ Spend
          /\ intentional' = FALSE
          /\ \/ /\ next' = [next EXCEPT ![p] = Released(purpose[p], snap[p], resumed[p], FALSE)]
                /\ UNCHANGED unreported
             \/ /\ next' = [next EXCEPT ![p] = Released(purpose[p], snap[p], TRUE, TRUE)]
                /\ unreported' = TRUE
          /\ UNCHANGED <<debugger, page, events>>

Detach(p) ==
    /\ alive /\ pc[p] = "detach"
    /\ Detached(p)
    /\ Goto(p, "write")
    /\ UNCHANGED <<now, stored, alarm, alive, broken, snap, resumed, purpose, overwritten, pauses>>

WriteReleased(p) ==
    /\ alive /\ pc[p] = "write"
    /\ \/ Stores(p, snap[p]) /\ UNCHANGED unreported
       \/ Rejected /\ unreported' = (unreported \/ next[p].debugger = "still-attached")
    /\ Done(p)
    /\ UNCHANGED <<browserVars, events, alarm, alive, intentional, resuming, pauses>>

-----------------------------------------------------------------------------
(* The events of the debugger, one at a time: handleDebuggerEvent and          *)
(* handleDebuggerDetach                                                        *)

Handles(kind) ==
    /\ alive /\ pc["event"] = "idle"
    /\ events # <<>> /\ Head(events).kind = kind
    /\ events' = Tail(events)

\* An event whose status cannot be read is dropped.
EventLost ==
    /\ alive /\ pc["event"] = "idle"
    /\ events # <<>>
    /\ events' = Tail(events)
    /\ Spend
    /\ IF Head(events).kind = "expelled" THEN intentional' = FALSE /\ resuming' = FALSE
                                        ELSE UNCHANGED <<intentional, resuming>>
    /\ unreported' = (unreported \/ Head(events).kind = "paused")
    /\ UNCHANGED <<browserVars, stored, alarm, alive, broken, pc, localVars, overwritten, pauses>>

\* Debugger.paused: the status is read and the breakpoints are removed.
Paused ==
    /\ Handles("paused")
    /\ IF stored = NoStatus
       THEN Goto("event", "orphan") /\ UNCHANGED localVars
       ELSE /\ Read("event", "write-pause")
            /\ next' = [next EXCEPT !["event"] =
                          [stored EXCEPT !.state = "paused",
                                         !.pause = [id |-> Head(events).stop, deadline |-> Deadline]]]
            /\ UNCHANGED <<resumed, purpose>>
    /\ UNCHANGED <<browserVars, stored, alarm, alive, memoryVars, overwritten, unreported, pauses,
                   spent>>

\* A page that nobody captures is resumed, or the debugger leaves it.
Orphan ==
    /\ alive /\ pc["event"] = "orphan"
    /\ Done("event")
    /\ \/ /\ debugger = "extension" /\ page = "paused"
          /\ page' = "running"
          /\ events' = Append(events, Told("resumed"))
          /\ UNCHANGED <<debugger, intentional, unreported, spent>>
       \/ /\ IF debugger = "extension" /\ page = "paused" THEN Spend ELSE UNCHANGED spent
          /\ debugger' = IF debugger = "extension" THEN "nobody" ELSE debugger
          /\ page' = IF debugger = "extension" THEN "running" ELSE page
          /\ intentional' = (debugger = "extension")
          /\ UNCHANGED <<events, unreported>>
       \/ /\ debugger = "extension" /\ PageForgotten
          /\ intentional' = FALSE
          /\ UNCHANGED <<debugger, page, events>>
    /\ UNCHANGED <<now, stored, alarm, alive, broken, resuming, overwritten, pauses>>

\* What could not be published is released.
FailedPause == next["event"]

WritePause ==
    /\ alive /\ pc["event"] = "write-pause"
    /\ UNCHANGED <<browserVars, events, alarm, alive, intentional, resuming, unreported, pauses>>
    /\ \/ Stores("event", snap["event"]) /\ Goto("event", "watch") /\ UNCHANGED localVars
       \/ Rejected /\ Release("event", "pause", FailedPause)

\* MUTANT of Watch: no alarm is scheduled.
WatchNothing ==
    /\ alive /\ pc["event"] = "watch"
    /\ Goto("event", "enrich")
    /\ UNCHANGED <<browserVars, events, stored, alarm, alive, memoryVars, localVars, overwritten,
                   unreported, pauses, spent>>

Watch ==
    /\ alive /\ pc["event"] = "watch"
    /\ alarm' = next["event"].pause.deadline
    /\ Goto("event", "enrich")
    /\ UNCHANGED <<browserVars, events, stored, alive, memoryVars, localVars, overwritten, unreported,
                   pauses, spent>>

\* The scopes were read, completely or not. A complete reading goes into the
\* status with the deadline that the pause had when it began.
Enrich ==
    /\ alive /\ pc["event"] = "enrich"
    /\ IF stored # NoStatus /\ stored.state = "paused" /\ PauseOf(stored) = PauseOf(next["event"])
       THEN /\ Read("event", "write-enriched")
            /\ \/ next' = [next EXCEPT !["event"] = [stored EXCEPT !.pause = next["event"].pause]]
               \/ next' = [next EXCEPT !["event"] = stored]
            /\ UNCHANGED <<resumed, purpose>>
       ELSE Done("event")
    /\ UNCHANGED <<browserVars, events, stored, alarm, alive, memoryVars, overwritten, unreported,
                   pauses, spent>>

\* The status could not be read for it, nor for the scopes that were missed.
EnrichFails ==
    /\ alive /\ pc["event"] = "enrich" /\ Spend
    /\ Release("event", "pause", FailedPause)
    /\ UNCHANGED <<browserVars, events, stored, alarm, alive, memoryVars, overwritten, unreported,
                   pauses>>

WriteEnriched ==
    /\ alive /\ pc["event"] = "write-enriched"
    /\ UNCHANGED <<browserVars, events, alarm, alive, intentional, resuming, unreported, pauses>>
    /\ \/ Stores("event", snap["event"]) /\ Done("event")
       \/ Rejected /\ Release("event", "pause", FailedPause)

\* Debugger.resumed, by somebody else: the status follows and the debugger
\* is released.
Resumed ==
    /\ Handles("resumed")
    /\ alarm' = IF stored = NoStatus THEN alarm ELSE 0
    /\ IF stored = NoStatus \/ resuming THEN UNCHANGED <<pc, localVars>>
       ELSE Goto("event", "settle") /\ UNCHANGED localVars
    /\ UNCHANGED <<browserVars, stored, alive, memoryVars, overwritten, unreported, pauses,
                   spent>>

Settle ==
    /\ alive /\ pc["event"] = "settle"
    /\ IF stored # NoStatus /\ stored.state = "paused"
       THEN /\ Read("event", "write-external")
            /\ next' = [next EXCEPT !["event"] =
                          [state |-> "captured", pause |-> NoPause, page |-> "running",
                           debugger |-> "still-attached"]]
            /\ UNCHANGED <<resumed, purpose>>
       ELSE Done("event")
    /\ UNCHANGED <<browserVars, events, stored, alarm, alive, memoryVars, overwritten, unreported,
                   pauses, spent>>

SettleFails ==
    /\ alive /\ pc["event"] = "settle" /\ Spend
    /\ Done("event")
    /\ UNCHANGED <<browserVars, events, stored, alarm, alive, memoryVars, overwritten, unreported,
                   pauses>>

WriteExternal ==
    /\ alive /\ pc["event"] = "write-external"
    /\ UNCHANGED <<browserVars, events, alarm, alive, intentional, resuming, unreported, pauses>>
    /\ \/ Stores("event", snap["event"]) /\ Goto("event", "read") /\ UNCHANGED localVars
       \/ Rejected /\ Done("event")

\* onDetach: the session was ended by the user or taken over, unless the
\* extension detached itself.
Expelled ==
    /\ Handles("expelled")
    /\ intentional' = FALSE /\ resuming' = FALSE
    /\ IF stored = NoStatus \/ intentional
       THEN /\ alarm' = IF stored = NoStatus THEN alarm ELSE 0
            /\ UNCHANGED <<pc, localVars>>
       ELSE /\ alarm' = 0
            /\ Read("event", "write-expelled")
            /\ \E state \in {"detached", "error"} :
                 next' = [next EXCEPT !["event"] = Ended(state)]
            /\ UNCHANGED <<resumed, purpose>>
    /\ UNCHANGED <<browserVars, stored, alive, broken, overwritten, unreported, pauses, spent>>

\* It, too, waits for the script in the page, which a new session may have stopped.
WriteExpelled ==
    /\ alive /\ pc["event"] = "write-expelled"
    /\ page = "running"
    /\ Stores("event", snap["event"]) \/ Rejected
    /\ Done("event")
    /\ UNCHANGED <<browserVars, events, alarm, alive, intentional, resuming, unreported, pauses>>

\* An event of a worker target that changes the list of the workers.
WorkerEvent ==
    /\ Handles("worker")
    /\ Goto("event", "reread")
    /\ UNCHANGED <<browserVars, stored, alarm, alive, memoryVars, localVars, overwritten, unreported,
                   pauses, spent>>

-----------------------------------------------------------------------------
(* The watchdog and the worker's life *)

\* MUTANT of AlarmFires: a pause is let go on only after its deadline.
AlarmFiresLate ==
    /\ pc["alarm"] = "idle"
    /\ alive
    /\ alarm # 0 /\ alarm <= now
    /\ IF stored # NoStatus /\ stored.state = "paused" /\ stored.pause # NoPause
       THEN IF stored.pause.deadline < now
            THEN Goto("alarm", "read") /\ alarm' = 0
            ELSE UNCHANGED pc /\ alarm' = stored.pause.deadline
       ELSE UNCHANGED pc /\ alarm' = 0
    /\ UNCHANGED <<browserVars, events, stored, alive, memoryVars, localVars, overwritten,
                   unreported, pauses, spent>>

\* onAlarm: a pause past its deadline is resumed, another one watched on.
AlarmFires ==
    /\ pc["alarm"] = "idle"
    /\ alive
    /\ alarm # 0 /\ alarm <= now
    /\ IF stored # NoStatus /\ stored.state = "paused" /\ stored.pause # NoPause
       THEN IF stored.pause.deadline <= now
            THEN Goto("alarm", "read") /\ alarm' = 0
            ELSE UNCHANGED pc /\ alarm' = stored.pause.deadline
       ELSE UNCHANGED pc /\ alarm' = 0
    /\ UNCHANGED <<browserVars, events, stored, alive, memoryVars, localVars, overwritten,
                   unreported, pauses, spent>>

\* The status cannot be read for it.
AlarmLost ==
    /\ alive
    /\ alarm # 0 /\ alarm <= now
    /\ alarm' = 0
    /\ PageForgotten
    /\ UNCHANGED <<browserVars, events, stored, alive, memoryVars, pc, localVars, overwritten,
                   pauses>>

\* The browser terminates the worker; an event it delivered is lost with it.
Kill ==
    /\ alive /\ Spend
    /\ alive' = FALSE
    /\ unreported' = (unreported \/ (page = "paused" /\ (PauseOf(stored) # pauses \/ alarm = 0)))
    /\ events' = <<>>
    /\ broken' = FALSE /\ intentional' = FALSE /\ resuming' = FALSE
    /\ pc' = [p \in Processes |-> "idle"]
    /\ snap' = [p \in Processes |-> NoStatus]
    /\ next' = [p \in Processes |-> NoStatus]
    /\ resumed' = [p \in Processes |-> FALSE]
    /\ purpose' = [p \in Processes |-> "resume"]
    /\ UNCHANGED <<browserVars, stored, alarm, overwritten, pauses>>

\* An event starts it again: reconcileDeepCaptureSessions.
Owned(status) ==
    status.state \in {"attached", "armed", "paused"} \/ status.debugger = "still-attached"

\* What it needs to know cannot be read.
RestartFails ==
    /\ ~alive /\ Spend
    /\ alive' = TRUE
    /\ UNCHANGED <<browserVars, events, stored, alarm, memoryVars, pc, localVars, overwritten,
                   unreported, pauses>>

Restart ==
    /\ ~alive
    /\ alive' = TRUE
    /\ UNCHANGED <<browserVars, events, stored, memoryVars, overwritten, unreported, pauses,
                   spent>>
    /\ IF stored = NoStatus \/ ~Owned(stored)
       THEN UNCHANGED <<pc, alarm, localVars>>
       ELSE IF debugger = "nobody"
       THEN /\ alarm' = 0
            /\ Read("reconcile", "write")
            /\ next' = [next EXCEPT !["reconcile"] = Ended("detached")]
            /\ UNCHANGED <<resumed, purpose>>
       ELSE /\ Read("reconcile", IF stored.state \in {"attached", "armed", "paused"}
                                THEN "observe" ELSE "decide")
            /\ UNCHANGED <<alarm, next, resumed, purpose>>

\* A pause is watched on until its deadline; what else may hold the page is
\* released.
Decide ==
    /\ alive /\ pc["reconcile"] = "decide"
    /\ UNCHANGED <<browserVars, events, stored, alive, memoryVars, overwritten, unreported, pauses,
                   spent>>
    /\ LET status == snap["reconcile"] IN
       \/ /\ WasPaused(status) /\ status.pause # NoPause /\ status.pause.deadline > now
          /\ alarm' = status.pause.deadline
          /\ Done("reconcile")
       \/ /\ WasPaused(status) /\ (status.pause = NoPause \/ status.pause.deadline <= now)
          /\ Goto("reconcile", "read")
          /\ UNCHANGED <<alarm, localVars>>
       \/ /\ ~WasPaused(status)
          /\ IF status.debugger = "still-attached"
             THEN /\ Goto("reconcile", "read")
                  /\ purpose' = [purpose EXCEPT !["reconcile"] = "detach"]
                  /\ UNCHANGED <<snap, next, resumed>>
             ELSE Done("reconcile")
          /\ UNCHANGED alarm

-----------------------------------------------------------------------------
(* The browser *)

\* The page reaches a breakpoint, or a debugger statement of its own.
PageStops ==
    /\ debugger = "extension" /\ page = "running"
    /\ pauses < MaxPauses
    /\ page' = "paused"
    /\ pauses' = pauses + 1
    /\ events' = Append(events, [kind |-> "paused", stop |-> pauses'])
    /\ UNCHANGED <<now, debugger, stored, alarm, alive, memoryVars, pc, localVars, overwritten,
                   unreported, spent>>

\* The user lets it run by the browser's own button.
PageResumes ==
    /\ page = "paused"
    /\ page' = "running"
    /\ events' = Append(events, Told("resumed"))
    /\ UNCHANGED <<now, debugger, stored, alarm, alive, memoryVars, pc, localVars, overwritten,
                   unreported, pauses, spent>>

\* The user cancels the session, or DevTools take it over.
SessionEnds ==
    /\ debugger = "extension"
    /\ Spend
    /\ debugger' \in {"nobody", "other"}
    /\ page' = "running"
    /\ events' = Append(events, Told("expelled"))
    /\ UNCHANGED <<now, stored, alarm, alive, memoryVars, pc, localVars, overwritten, unreported,
                   pauses>>

OtherLeaves ==
    /\ debugger = "other"
    /\ debugger' = "nobody"
    /\ UNCHANGED <<now, page, events, stored, alarm, alive, memoryVars, pc, localVars,
                   overwritten, unreported, pauses, spent>>

WorkerChanges ==
    /\ debugger = "extension" /\ Spend
    /\ events' = Append(events, Told("worker"))
    /\ UNCHANGED <<browserVars, stored, alarm, alive, memoryVars, pc, localVars, overwritten,
                   unreported, pauses>>

\* The timer of detachOwnedDebugger. If the browser tells of the detach at all,
\* it is handled within those two seconds.
IntentForgotten ==
    /\ intentional
    /\ Told("expelled") \notin Range(events)
    /\ intentional' = FALSE
    /\ UNCHANGED <<browserVars, events, stored, alarm, alive, broken, resuming, pc, localVars,
                   overwritten, unreported, pauses, spent>>

Tick ==
    /\ now < MaxTime
    /\ now' = now + 1
    /\ UNCHANGED <<debugger, page, events, stored, alarm, alive, memoryVars, pc, localVars,
                   overwritten, unreported, pauses, spent>>

-----------------------------------------------------------------------------
EventStep ==
    \/ EventLost
    \/ Paused \/ Orphan \/ WritePause \/ Watch \/ Enrich \/ EnrichFails \/ WriteEnriched
    \/ Resumed \/ Settle \/ SettleFails \/ WriteExternal \/ Expelled \/ WriteExpelled \/ WorkerEvent
    \/ Reread("event") \/ Rewrite("event")

ReleaseStep(p) ==
    Reads(p) \/ Resume(p) \/ Disarmed(p) \/ Detach(p) \/ WriteReleased(p)

ReconcileStep ==
    Observe("reconcile") \/ Reread("reconcile") \/ Rewrite("reconcile") \/ Decide

CallStep ==
    \/ "start" \in Calls /\ (Arm \/ WriteArmed \/ Observe("start") \/ Reread("start") \/ Rewrite("start"))
    \/ "keep" \in Calls /\ (WriteKept \/ WatchKept)

CallBegins ==
    /\ calls < MaxCalls
    /\ calls' = calls + 1 /\ UNCHANGED spent
    /\ \/ "start" \in Calls /\ StartRead
       \/ "keep" \in Calls /\ KeepRead
       \/ "resume" \in Calls /\ ResumeCalled
       \/ "detach" \in Calls /\ DetachCalled

Browser ==
    PageStops \/ PageResumes \/ SessionEnds \/ OtherLeaves \/ WorkerChanges
        \/ IntentForgotten \/ Tick

Starting == "start" \in Calls /\ pc["start"] # "idle"

Racing ==
    /\ Starting
    /\ events # <<>> \/ \E p \in Processes \ {"start"} : pc[p] # "idle"

Step ==
    \/ CallBegins
    \/ /\ UNCHANGED calls
       /\ \/ CallStep \/ EventStep \/ ReconcileStep
          \/ \E p \in Processes : ReleaseStep(p)
          \/ AlarmFires \/ AlarmLost \/ Kill \/ Restart \/ RestartFails
          \/ Browser

Noted == raced' = (raced \/ Racing' \/ (Starting /\ ~alive'))

Next == Step /\ Noted

Spec == Init /\ [][Next]_vars

\* Commands and storage calls answer, queued events are handled, time passes and
\* due alarms fire; for an event or an alarm a terminated worker is started again.
\* The steps are finitely many, so none of them is passed over for ever.
Works ==
    \/ CallStep \/ EventStep \/ ReconcileStep
    \/ \E p \in Processes : ReleaseStep(p)
    \/ AlarmFires \/ AlarmLost \/ Tick
    \/ (events # <<>> \/ (alarm # 0 /\ alarm <= now)) /\ (Restart \/ RestartFails)

FairSpec == Spec /\ WF_vars(Works /\ UNCHANGED calls /\ Noted)

-----------------------------------------------------------------------------
(* Properties *)

\* Nothing of the capture is under way.
Quiet == alive /\ events = <<>> /\ \A p \in Processes : pc[p] = "idle"

Excused == overwritten \/ unreported

\* Whenever nothing is under way, a stopped page is published as stopped and
\* watched by an alarm, or reported as possibly stopped; what is excused is named
\* with the histories overwritten and unreported.
StoppedPageIsWatched ==
    (Quiet /\ page = "paused" /\ ~Excused) =>
        /\ stored # NoStatus
        /\ \/ stored.state = "paused" /\ alarm # 0
           \/ stored.page = "possibly-paused"

\* Whenever nothing is under way, a page that is reported to run does run, and a
\* session that is reported detached does not debug it.
StatusIsTrue ==
    (Quiet /\ ~Excused /\ ~raced /\ stored # NoStatus) =>
        /\ stored.page = "running" /\ stored.state # "paused" => page = "running"
        /\ stored.debugger = "detached" => debugger # "extension"

\* The state is well formed and its status tells the truth.
StatusSound == TypeOK /\ StatusIsTrue

\* The stopped page is waited for by what would have let it run: a release that has
\* cleared the watchdog waits for the script in the page, or the queue of the events
\* or the watchdog's own run does.
PageWaitedFor ==
    /\ page = "paused"
    /\ \/ pc["event"] \in {"disarm", "write-expelled"} \/ pc["alarm"] = "disarm"
       \/ alarm = 0 /\ \E p \in Processes : pc[p] = "disarm"

\* A page that stopped runs again, whatever command fails, or the status says that
\* it may not; unless what would let it run waits for the page itself, for ever.
PauseEnds ==
    page = "paused" ~> \/ page = "running" \/ Excused
                       \/ (stored # NoStatus /\ stored.page = "possibly-paused")
                       \/ []PageWaitedFor
=============================================================================
