--------------------------- MODULE GrantLifecycle ---------------------------
(***************************************************************************)
(* The lifecycle of the one shared browser grant                           *)
(* (features/grants/lifecycle.ts): creation, replacement, revocation,      *)
(* expiry and refresh run one after another on lifecycleQueue, each as a   *)
(* chain of awaited steps that commit to the session store, keep the       *)
(* expiry alarm in step with the store, stop the network captures the      *)
(* grant owns and publish the handoff that ended with it.                  *)
(*                                                                         *)
(* Between two awaited steps everything else may run: capture starts that  *)
(* read the grant earlier, handoff requests and answers, the clock, the    *)
(* alarm, and the death of the service worker, which loses every variable  *)
(* except the session store, the persisted captures and the alarm.         *)
(***************************************************************************)
EXTENDS Naturals, Sequences, FiniteSets

CONSTANTS
    GrantIds,      \* ids of grants, one crypto.randomUUID() per grant.create
    TaskIds,       \* task ids a grant or a handoff can carry
    Tabs,          \* tabs that can be captured
    Durations,     \* grant durations, in clock ticks
    NoGrant,       \* activeGrant: undefined
    NoCapture,     \* a tab without a capture session
    MaxTime,       \* bound of the clock
    MaxQueue,      \* bound of the operations waiting on lifecycleQueue
    MaxHandoffs,   \* bound of the handoffs requested
    MaxFaults,     \* bound of the failing alarm and storage calls
    MaxKills,      \* bound of the service worker terminations
    EarlyBy        \* how early, in ticks, the browser may fire an alarm

Grant == [id : GrantIds, taskId : TaskIds, expiresAt : 1 .. MaxTime]

Kinds == {"replace", "revoke", "reconcile", "lookup", "update"}

\* A queued operation: replacements and updates name the grant they are for.
Request == [kind : {"replace", "update"}, grant : Grant]
             \cup [kind : {"revoke", "reconcile", "lookup"}, grant : {NoGrant}]

Phases == {"ready", "commit", "resync", "end", "clear", "cleanup", "publish"}

Reasons == {"revoked", "expired", "scheduler_failure"}

Handoff == [id : 0 .. MaxHandoffs, taskId : TaskIds,
            state : {"idle", "waiting_for_user", "completed", "cancelled"}]

\* A session of the capture service that a grant owns. "late" records that its
\* grant was no longer the active one when the session was registered.
Capture == [owner : Grant, late : BOOLEAN]

ASSUME GrantConstants ==
    /\ MaxTime \in Nat \ {0}
    /\ MaxQueue \in Nat \ {0}
    /\ MaxHandoffs \in Nat
    /\ MaxFaults \in Nat
    /\ MaxKills \in Nat
    /\ EarlyBy \in Nat
    /\ Durations \subseteq Nat \ {0}
    /\ NoGrant \notin Grant
    /\ NoCapture \notin Capture
    /\ TaskIds # {}

VARIABLES
    now,          \* Date.now()
    activeGrant,  \* session store: activeGrant
    handoff,      \* session store: handoff
    persisted,    \* session store: the captures, written by a debounced flush
    alarm,        \* the expiry alarm the browser holds, 0 when there is none
    alive,        \* the service worker is running
    restoring,    \* restoreBackgroundState has not called the lifecycle yet
    queue,        \* lifecycleQueue, the running operation first
    phase,        \* the await the running operation stands at
    reason,       \* its GrantEndReason, once it ends a grant
    target,       \* the grant it read, and then the previousGrant it ended
    cancelled,    \* id of the handoff it cancelled, 0 when there is none
    cleaned,      \* keys of cleanupTasks
    capture,      \* captureSessions of the capture service, by tab
    starting,     \* owner read by a capture start that is still running
    refreshing,   \* the grant a grant.refresh read and is about to rebind
    issued,       \* history: grant ids already drawn
    ended,        \* history: grants that were active and no longer are
    announced,    \* history: handoffs whose end was emitted to the engine
    unreconciled, \* history: the last reconciliation could not read the store
    faults, kills

storeVars   == <<activeGrant, handoff, ended>>
opVars      == <<queue, phase, reason, target, cancelled>>
captureVars == <<persisted, capture, starting>>
boundVars   == <<unreconciled, faults, kills>>
vars == <<now, storeVars, alarm, alive, restoring, opVars, cleaned, captureVars,
          refreshing, issued, announced, boundVars>>

NoHandoff == [id |-> 0, taskId |-> CHOOSE t \in TaskIds : TRUE, state |-> "idle"]

TypeOK ==
    /\ now \in 0 .. MaxTime
    /\ activeGrant \in Grant \cup {NoGrant}
    /\ handoff \in Handoff
    /\ persisted \in [Tabs -> Capture \cup {NoCapture}]
    /\ alarm \in 0 .. MaxTime
    /\ alive \in BOOLEAN
    /\ restoring \in BOOLEAN
    /\ queue \in Seq(Request)
    /\ phase \in Phases
    /\ reason \in Reasons
    /\ target \in Grant \cup {NoGrant}
    /\ cancelled \in 0 .. MaxHandoffs
    /\ cleaned \subseteq GrantIds
    /\ capture \in [Tabs -> Capture \cup {NoCapture}]
    /\ starting \in [Tabs -> Grant \cup {NoGrant}]
    /\ refreshing \in Grant \cup {NoGrant}
    /\ issued \subseteq GrantIds
    /\ ended \subseteq GrantIds
    /\ announced \subseteq 0 .. MaxHandoffs
    /\ unreconciled \in BOOLEAN
    /\ faults \in 0 .. MaxFaults
    /\ kills \in 0 .. MaxKills

Init ==
    /\ now = 0
    /\ activeGrant = NoGrant
    /\ handoff = NoHandoff
    /\ persisted = [t \in Tabs |-> NoCapture]
    /\ alarm = 0
    /\ alive = TRUE
    /\ restoring = TRUE
    /\ queue = <<>>
    /\ phase = "ready"
    /\ reason = "revoked"
    /\ target = NoGrant
    /\ cancelled = 0
    /\ cleaned = {}
    /\ capture = [t \in Tabs |-> NoCapture]
    /\ starting = [t \in Tabs |-> NoGrant]
    /\ refreshing = NoGrant
    /\ issued = {}
    /\ ended = {}
    /\ announced = {}
    /\ unreconciled = FALSE
    /\ faults = 0
    /\ kills = 0

-----------------------------------------------------------------------------
(* Helpers *)

Expired(g) == g.expiresAt <= now

StoredExpired == activeGrant # NoGrant /\ Expired(activeGrant)

\* What synchronizeExpiryAlarm(grant) leaves in the browser.
AlarmFor(g) == IF g # NoGrant /\ ~Expired(g) THEN g.expiresAt ELSE 0

\* A waiting handoff belongs to the grant through its task id.
CancelsHandoff(g) ==
    /\ handoff.state = "waiting_for_user"
    /\ handoff.taskId = g.taskId

\* Mutant: the handoff of an ended grant keeps waiting.
HandoffKept(g) == handoff

\* Mutant: without "|| current.handoff" a foreign handoff is dropped.
HandoffDropped(g) ==
    IF g # NoGrant /\ CancelsHandoff(g) THEN [handoff EXCEPT !.state = "cancelled"]
    ELSE NoGrant

\* cancelledHandoff(previousHandoff, now) || current.handoff
HandoffAfter(g) ==
    IF g # NoGrant /\ CancelsHandoff(g)
    THEN [handoff EXCEPT !.state = "cancelled"]
    ELSE handoff

\* Mutant: the handoff is looked at after the write that cancelled it.
CancelledAfterWrite(g) == 0

\* previousHandoff, if publishCancelledHandoff has something to publish.
CancelledBy(g) == IF g # NoGrant /\ CancelsHandoff(g) THEN handoff.id ELSE 0

\* The updater of a transition that stores "next" in the place of activeGrant.
StoreGrant(next) ==
    /\ activeGrant' = next
    /\ handoff' = HandoffAfter(activeGrant)
    /\ ended' = IF activeGrant = NoGrant THEN ended ELSE ended \cup {activeGrant.id}

Fault ==
    /\ faults < MaxFaults
    /\ faults' = faults + 1

\* The operation at the head of lifecycleQueue, standing at await p.
Running(kinds, p) ==
    /\ alive
    /\ queue # <<>>
    /\ Head(queue).kind \in kinds
    /\ phase = p

\* The operation settles; the queue starts the next one.
Finish ==
    /\ queue' = Tail(queue)
    /\ phase' = "ready"
    /\ target' = NoGrant
    /\ cancelled' = 0
    /\ UNCHANGED reason

Goto(p) ==
    /\ phase' = p
    /\ UNCHANGED <<queue, reason>>

EndBecause(r, g) ==
    /\ phase' = "end"
    /\ reason' = r
    /\ target' = g
    /\ UNCHANGED <<queue, cancelled>>

\* enqueueLifecycle(operation)
Enqueue(kind, g) ==
    /\ alive
    /\ Len(queue) < MaxQueue
    /\ queue' = Append(queue, [kind |-> kind, grant |-> g])
    /\ UNCHANGED <<phase, reason, target, cancelled>>

-----------------------------------------------------------------------------
(* Callers of the lifecycle manager *)

\* grant.create: replaceActiveGrant with a fresh id.
CreateGrant(id, taskId, d) ==
    /\ id \notin issued
    /\ now + d <= MaxTime
    /\ Enqueue("replace", [id |-> id, taskId |-> taskId, expiresAt |-> now + d])
    /\ issued' = issued \cup {id}
    /\ UNCHANGED <<now, storeVars, alarm, alive, restoring, cleaned, captureVars,
                   refreshing, announced, boundVars>>

\* grant.revoke: revokeActiveGrant() without an expected id.
RevokeGrant ==
    /\ Enqueue("revoke", NoGrant)
    /\ UNCHANGED <<now, storeVars, alarm, alive, restoring, cleaned, captureVars,
                   refreshing, issued, announced, boundVars>>

\* currentActiveGrant(), by a state read or by the start of a grant.refresh.
LookupGrant ==
    /\ Enqueue("lookup", NoGrant)
    /\ UNCHANGED <<now, storeVars, alarm, alive, restoring, cleaned, captureVars,
                   refreshing, issued, announced, boundVars>>

\* Mutant: the refreshed grant is written back outside the queue, unchecked.
RebindUnqueued ==
    /\ alive
    /\ refreshing # NoGrant
    /\ activeGrant' = refreshing
    /\ refreshing' = NoGrant
    /\ UNCHANGED <<now, handoff, ended, alarm, alive, restoring, opVars, cleaned, captureVars,
                   issued, announced, boundVars>>

\* The second half of grant.refresh, after it read the targets of the grant
\* it was given: rebindGrantTargets(grant.id, targets).
RebindGrant ==
    /\ refreshing # NoGrant
    /\ Enqueue("update", refreshing)
    /\ refreshing' = NoGrant
    /\ UNCHANGED <<now, storeVars, alarm, alive, restoring, cleaned, captureVars,
                   issued, announced, boundVars>>

\* The alarm listener of a running worker. The browser forgets the alarm it
\* fires, and may fire it slightly before its time.
FireAlarm ==
    /\ alarm # 0
    /\ alarm <= now + EarlyBy
    /\ alarm' = 0
    /\ Enqueue("reconcile", NoGrant)
    /\ UNCHANGED <<now, storeVars, alive, restoring, cleaned, captureVars,
                   refreshing, issued, announced, boundVars>>

-----------------------------------------------------------------------------
(* replaceActiveGrant *)

\* It refuses a grant that expired in the queue; otherwise it arms the alarm
\* of the new grant before the store knows the grant.
ReplaceSchedule ==
    /\ Running({"replace"}, "ready")
    /\ LET g == Head(queue).grant IN
       \/ /\ Expired(g)
          /\ Finish
          /\ UNCHANGED <<alarm, faults>>
       \/ /\ ~Expired(g)
          /\ alarm' = g.expiresAt
          /\ Goto("commit")
          /\ UNCHANGED <<target, cancelled, faults>>
       \/ /\ ~Expired(g)
          /\ Fault
          /\ Finish
          /\ UNCHANGED alarm
    /\ UNCHANGED <<now, storeVars, alive, restoring, cleaned, captureVars,
                   refreshing, issued, announced, unreconciled, kills>>

\* Mutant: the replaced grant's resources are forgotten.
AfterReplaceForgets == "publish"

AfterReplace == IF activeGrant # NoGrant THEN "cleanup" ELSE "publish"

\* updateState. The local and the session area are written in parallel, so a
\* rejected write may have stored the grant all the same.
ReplaceCommit ==
    /\ Running({"replace"}, "commit")
    /\ LET g == Head(queue).grant IN
       \/ /\ StoreGrant(g)
          /\ target' = activeGrant
          /\ cancelled' = CancelledBy(activeGrant)
          /\ Goto(AfterReplace)
          /\ UNCHANGED faults
       \/ /\ Fault
          /\ StoreGrant(g) \/ UNCHANGED storeVars
          /\ Goto("resync")
          /\ UNCHANGED <<target, cancelled>>
    /\ UNCHANGED <<now, alarm, alive, restoring, cleaned, captureVars,
                   refreshing, issued, announced, unreconciled, kills>>

\* Mutant: the alarm of the grant that was not stored stays armed.
ResyncForgotten ==
    /\ Running(Kinds, "resync")
    /\ Finish
    /\ UNCHANGED <<now, storeVars, alarm, alive, restoring, cleaned, captureVars,
                   refreshing, issued, announced, boundVars>>

\* synchronizeExpiryAlarm(state.activeGrant), its failure swallowed: the last
\* step of a replacement or update whose write failed, and of an end that
\* found no grant to end.
Resync ==
    /\ Running(Kinds, "resync")
    /\ Finish
    /\ \/ /\ alarm' = AlarmFor(activeGrant)
          /\ UNCHANGED faults
       \/ /\ Fault
          /\ UNCHANGED alarm
    /\ UNCHANGED <<now, storeVars, alive, restoring, cleaned, captureVars,
                   refreshing, issued, announced, unreconciled, kills>>

-----------------------------------------------------------------------------
(* endActiveGrantInQueue *)

RevokeStart ==
    /\ Running({"revoke"}, "ready")
    /\ EndBecause("revoked", NoGrant)
    /\ UNCHANGED <<now, storeVars, alarm, alive, restoring, cleaned, captureVars,
                   refreshing, issued, announced, boundVars>>

\* The updater's test. An expiry, and the end after a scheduler failure, name
\* the grant they read; a revocation ends whatever grant is active.
EndsActiveGrant ==
    /\ activeGrant # NoGrant
    /\ reason # "revoked" => activeGrant.id = target.id
    /\ reason = "expired" => Expired(activeGrant)

EndCommit ==
    /\ Running(Kinds, "end")
    /\ \/ /\ EndsActiveGrant
          /\ StoreGrant(NoGrant)
          /\ target' = activeGrant
          /\ cancelled' = CancelledBy(activeGrant)
          /\ Goto("clear")
          /\ UNCHANGED faults
       \/ /\ ~EndsActiveGrant
          /\ Goto("resync")
          /\ UNCHANGED <<storeVars, target, cancelled, faults>>
       \/ /\ Fault
          /\ \/ EndsActiveGrant /\ StoreGrant(NoGrant)
             \/ UNCHANGED storeVars
          /\ Finish
    /\ UNCHANGED <<now, alarm, alive, restoring, cleaned, captureVars,
                   refreshing, issued, announced, unreconciled, kills>>

\* clearExpiryAlarmBestEffort
EndClear ==
    /\ Running(Kinds, "clear")
    /\ Goto("cleanup")
    /\ \/ /\ alarm' = 0
          /\ UNCHANGED faults
       \/ /\ Fault
          /\ UNCHANGED alarm
    /\ UNCHANGED <<now, storeVars, target, cancelled, alive, restoring, cleaned,
                   captureVars, refreshing, issued, announced, unreconciled, kills>>

\* cleanupGrantResources, once per grant id: the memo in cleanupTasks answers
\* every later call. stopNetworkCapturesForGrant sweeps captureSessions in
\* one run without an await.
Cleanup ==
    /\ Running(Kinds, "cleanup")
    /\ Goto("publish")
    /\ cleaned' = cleaned \cup {target.id}
    /\ capture' = IF target.id \in cleaned THEN capture
                  ELSE [t \in Tabs |->
                          IF capture[t] # NoCapture /\ capture[t].owner.id = target.id
                          THEN NoCapture ELSE capture[t]]
    /\ UNCHANGED <<now, storeVars, alarm, target, cancelled, alive, restoring, persisted,
                   starting, refreshing, issued, announced, boundVars>>

\* publishCancelledHandoff
Publish ==
    /\ Running(Kinds, "publish")
    /\ Finish
    /\ announced' = announced \cup ({cancelled} \ {0})
    /\ UNCHANGED <<now, storeVars, alarm, alive, restoring, cleaned, captureVars,
                   refreshing, issued, boundVars>>

-----------------------------------------------------------------------------
(* reconcileGrantLifecycle and updateActiveGrant *)

\* One run from the answer of getState to the alarm call. An alarm that cannot
\* be armed ends a live grant; a store that cannot be read leaves the alarm as it is.
Reconcile ==
    /\ Running({"reconcile"}, "ready")
    /\ \/ /\ StoredExpired
          /\ EndBecause("expired", activeGrant)
          /\ UNCHANGED <<alarm, faults>>
       \/ /\ ~StoredExpired
          /\ alarm' = AlarmFor(activeGrant)
          /\ Finish
          /\ UNCHANGED faults
       \/ /\ ~StoredExpired
          /\ Fault
          /\ UNCHANGED alarm
          /\ IF activeGrant = NoGrant THEN Finish
             ELSE EndBecause("scheduler_failure", activeGrant)
    /\ unreconciled' = FALSE
    /\ UNCHANGED <<now, storeVars, alive, restoring, cleaned, captureVars,
                   refreshing, issued, announced, kills>>

ReconcileFails ==
    /\ Running({"reconcile"}, "ready")
    /\ Fault
    /\ Finish
    /\ unreconciled' = TRUE
    /\ UNCHANGED <<now, storeVars, alarm, alive, restoring, cleaned, captureVars,
                   refreshing, issued, announced, kills>>

\* currentActiveGrant: no alarm call, and a failed read only fails the caller. A
\* grant.refresh keeps the answer.
Lookup ==
    /\ Running({"lookup"}, "ready")
    /\ \/ /\ StoredExpired
          /\ EndBecause("expired", activeGrant)
          /\ UNCHANGED <<refreshing, faults>>
       \/ /\ ~StoredExpired
          /\ Finish
          /\ refreshing' \in {refreshing, activeGrant}
          /\ UNCHANGED faults
       \/ /\ Fault
          /\ Finish
          /\ UNCHANGED refreshing
    /\ UNCHANGED <<now, storeVars, alarm, alive, restoring, cleaned, captureVars,
                   issued, announced, unreconciled, kills>>

\* updateActiveGrant up to its alarm call: it refuses another grant, ends an
\* expired one, and computes nextGrant from what it read. The read or the alarm call may fail.
UpdateRead ==
    /\ Running({"update"}, "ready")
    /\ LET expected == Head(queue).grant.id
           matches  == activeGrant # NoGrant /\ activeGrant.id = expected IN
       \/ /\ ~matches
          /\ Finish
          /\ UNCHANGED <<alarm, faults>>
       \/ /\ matches /\ Expired(activeGrant)
          /\ EndBecause("expired", activeGrant)
          /\ UNCHANGED <<alarm, faults>>
       \/ /\ matches /\ ~Expired(activeGrant)
          /\ alarm' = activeGrant.expiresAt
          /\ target' = activeGrant
          /\ Goto("commit")
          /\ UNCHANGED <<cancelled, faults>>
       \/ /\ Fault
          /\ Finish
          /\ UNCHANGED alarm
    /\ UNCHANGED <<now, storeVars, alive, restoring, cleaned, captureVars,
                   refreshing, issued, announced, unreconciled, kills>>

\* The updater of updateActiveGrant writes nextGrant back if the id still
\* matches, and throws otherwise.
UpdateCommit ==
    /\ Running({"update"}, "commit")
    /\ LET matches == activeGrant # NoGrant /\ activeGrant.id = Head(queue).grant.id IN
       \/ /\ matches
          /\ activeGrant' = target
          /\ Finish
          /\ UNCHANGED faults
       \/ /\ ~matches
          /\ Goto("resync")
          /\ UNCHANGED <<activeGrant, target, cancelled, faults>>
       \/ /\ Fault
          /\ activeGrant' \in {activeGrant} \cup (IF matches THEN {target} ELSE {})
          /\ Goto("resync")
          /\ UNCHANGED <<target, cancelled>>
    /\ UNCHANGED <<now, handoff, ended, alarm, alive, restoring, cleaned, captureVars,
                   refreshing, issued, announced, unreconciled, kills>>

-----------------------------------------------------------------------------
(* Captures a grant owns *)

\* network.capture.start reads the active grant, and startNetworkCapture
\* refuses an expired owner before it reads the tab's boundary.
StartCapture(t) ==
    /\ alive
    /\ starting[t] = NoGrant
    /\ activeGrant # NoGrant
    /\ ~Expired(activeGrant)
    /\ starting' = [starting EXCEPT ![t] = activeGrant]
    /\ UNCHANGED <<now, storeVars, alarm, alive, restoring, opVars, cleaned, persisted,
                   capture, refreshing, issued, announced, boundVars>>

\* The boundary is known: the session is registered under the owner read.
RegisterCapture(t) ==
    /\ alive
    /\ starting[t] # NoGrant
    /\ capture' = [capture EXCEPT ![t] =
                     [owner |-> starting[t], late |-> starting[t] # activeGrant]]
    /\ starting' = [starting EXCEPT ![t] = NoGrant]
    /\ UNCHANGED <<now, storeVars, alarm, alive, restoring, opVars, cleaned, persisted,
                   refreshing, issued, announced, boundVars>>

\* network.capture.stop, the tab's end, or the next event of an expired owner.
DropCapture(t) ==
    /\ alive
    /\ capture[t] # NoCapture
    /\ capture' = [capture EXCEPT ![t] = NoCapture]
    /\ UNCHANGED <<now, storeVars, alarm, alive, restoring, opVars, cleaned, persisted,
                   starting, refreshing, issued, announced, boundVars>>

\* The debounced write of the capture snapshot.
FlushCaptures ==
    /\ alive
    /\ persisted # capture
    /\ persisted' = capture
    /\ UNCHANGED <<now, storeVars, alarm, alive, restoring, opVars, cleaned, capture,
                   starting, refreshing, issued, announced, boundVars>>

-----------------------------------------------------------------------------
(* Handoffs, the clock and the worker *)

\* The updater of browser.handoff.request.
RequestHandoff(taskId) ==
    /\ alive
    /\ handoff.state # "waiting_for_user"
    /\ handoff.id < MaxHandoffs
    /\ handoff' = [id |-> handoff.id + 1, taskId |-> taskId, state |-> "waiting_for_user"]
    /\ UNCHANGED <<now, activeGrant, ended, alarm, alive, restoring, opVars, cleaned, captureVars,
                   refreshing, issued, announced, boundVars>>

\* resolveHandoff and the event the message router emits after it.
ResolveHandoff(outcome) ==
    /\ alive
    /\ handoff.state = "waiting_for_user"
    /\ handoff' = [handoff EXCEPT !.state = outcome]
    /\ announced' = announced \cup {handoff.id}
    /\ UNCHANGED <<now, activeGrant, ended, alarm, alive, restoring, opVars, cleaned, captureVars,
                   refreshing, issued, boundVars>>

Tick ==
    /\ now < MaxTime
    /\ now' = now + 1
    /\ UNCHANGED <<storeVars, alarm, alive, restoring, opVars, cleaned, captureVars,
                   refreshing, issued, announced, boundVars>>

\* The service worker is terminated.
Kill ==
    /\ alive
    /\ kills < MaxKills
    /\ kills' = kills + 1
    /\ alive' = FALSE
    /\ restoring' = FALSE
    /\ queue' = <<>>
    /\ phase' = "ready"
    /\ target' = NoGrant
    /\ cancelled' = 0
    /\ cleaned' = {}
    /\ capture' = [t \in Tabs |-> NoCapture]
    /\ starting' = [t \in Tabs |-> NoGrant]
    /\ refreshing' = NoGrant
    /\ UNCHANGED <<now, storeVars, alarm, reason, persisted, issued, announced, unreconciled,
                   faults>>

Reconciliation == [kind |-> "reconcile", grant |-> NoGrant]

\* An event starts the worker: the capture service restores the sessions whose
\* owner has not expired, and an alarm that woke the worker is reconciled.
Restart(byAlarm) ==
    /\ ~alive
    /\ alive' = TRUE
    /\ restoring' = TRUE
    /\ byAlarm => alarm # 0 /\ alarm <= now + EarlyBy
    /\ alarm' = IF byAlarm THEN 0 ELSE alarm
    /\ queue' = IF byAlarm THEN <<Reconciliation>> ELSE <<>>
    /\ capture' = [t \in Tabs |->
                     IF persisted[t] # NoCapture /\ Expired(persisted[t].owner)
                     THEN NoCapture ELSE persisted[t]]
    /\ UNCHANGED <<now, storeVars, phase, reason, target, cancelled, cleaned,
                   persisted, starting, refreshing, issued, announced, boundVars>>

\* Mutant: the worker starts without restoreGrantLifecycle.
RestoreNothing ==
    /\ restoring
    /\ restoring' = FALSE
    /\ UNCHANGED <<now, storeVars, alarm, alive, opVars, cleaned, captureVars,
                   refreshing, issued, announced, boundVars>>

\* restoreBackgroundState reaches restoreGrantLifecycle, after whatever the
\* events that started the worker have queued.
RestoreGrant ==
    /\ alive
    /\ restoring
    /\ restoring' = FALSE
    /\ queue' = Append(queue, Reconciliation)
    /\ UNCHANGED <<now, storeVars, alarm, alive, phase, reason, target, cancelled,
                   cleaned, captureVars, refreshing, issued, announced, boundVars>>

\* A rejection before that call is only logged: nothing is reconciled.
RestoreFails ==
    /\ alive
    /\ restoring
    /\ Fault
    /\ restoring' = FALSE
    /\ unreconciled' = TRUE
    /\ UNCHANGED <<now, storeVars, alarm, alive, opVars, cleaned, captureVars,
                   refreshing, issued, announced, kills>>

-----------------------------------------------------------------------------
Callers ==
    \/ \E id \in GrantIds, taskId \in TaskIds, d \in Durations : CreateGrant(id, taskId, d)
    \/ RevokeGrant
    \/ LookupGrant
    \/ RebindGrant
    \/ FireAlarm

\* One step of the operation at the head of lifecycleQueue.
Lifecycle ==
    \/ ReplaceSchedule \/ ReplaceCommit \/ Resync
    \/ RevokeStart \/ EndCommit \/ EndClear \/ Cleanup \/ Publish
    \/ Reconcile \/ ReconcileFails \/ Lookup \/ UpdateRead \/ UpdateCommit

Captures ==
    \/ \E t \in Tabs : StartCapture(t) \/ RegisterCapture(t) \/ DropCapture(t)
    \/ FlushCaptures

Environment ==
    \/ \E taskId \in TaskIds : RequestHandoff(taskId)
    \/ \E outcome \in {"completed", "cancelled"} : ResolveHandoff(outcome)
    \/ Tick
    \/ Kill
    \/ \E byAlarm \in BOOLEAN : Restart(byAlarm)
    \/ RestoreGrant
    \/ RestoreFails

Next == Callers \/ Lifecycle \/ Captures \/ Environment

Spec == Init /\ [][Next]_vars

\* Promise continuations run, time passes, the browser fires a due alarm, and
\* a terminated worker is started by the browser's next event (the capture
\* service alone listens to every web request).
FairSpec ==
    /\ Spec
    /\ WF_vars(Lifecycle)
    /\ WF_vars(Tick)
    /\ WF_vars(FireAlarm)
    /\ WF_vars(\E byAlarm \in BOOLEAN : Restart(byAlarm))
    /\ WF_vars(RestoreGrant \/ RestoreFails)

-----------------------------------------------------------------------------
(* Properties *)

\* A grant that ended, by revocation, expiry or replacement, never becomes the
\* active grant again: no queued refresh, late alarm or restarted worker
\* writes it back into the store.
EndedGrantStaysEnded == activeGrant # NoGrant => activeGrant.id \notin ended

\* When a grant leaves the store, a handoff that waits for its task is
\* cancelled in the same write, and a handoff of another task is not touched.
HandoffEndsWithGrant ==
    [][ (activeGrant # NoGrant /\ activeGrant' # activeGrant)
          => /\ ~(handoff'.state = "waiting_for_user" /\ handoff'.taskId = activeGrant.taskId)
             /\ handoff' # handoff => handoff.taskId = activeGrant.taskId ]_vars

\* With no operation running or about to, a live grant has its expiry alarm, whatever
\* interleaving of operations, early alarms, restarts and one failing alarm or
\* storage call went before: unless the last reconciliation could not read the store, or
\* the restored worker failed before it reconciled (lifecycle.ts:192, index.ts:520), after
\* which nothing arms the alarm the browser fired early or the last worker forgot.
LiveGrantHasAlarm ==
    ( /\ alive /\ ~restoring /\ queue = <<>>
      /\ activeGrant # NoGrant /\ ~Expired(activeGrant)
      /\ ~unreconciled )
        => alarm = activeGrant.expiresAt

\* The grant whose resources the running operation has still to release.
Releasing(id) ==
    /\ queue # <<>>
    /\ phase \in {"clear", "cleanup"}
    /\ target # NoGrant
    /\ target.id = id

\* Ending a grant stops every capture that was registered while it was active: what
\* survives was registered after the grant ended, unless a storage call failed (a rejected
\* write may have stored the next grant) or the worker was terminated.
EndReleasesCaptures ==
    (faults = 0 /\ kills = 0) =>
        \A t \in Tabs :
            (capture[t] # NoCapture /\ capture[t].owner.id \in ended)
                => capture[t].late \/ Releasing(capture[t].owner.id)

\* The stronger promise of the documentation: ending a grant ends what runs on
\* its behalf (README.md:370).
EndedGrantOwnsNothing ==
    \A t \in Tabs :
        capture[t] # NoCapture /\ capture[t].owner.id \in ended
            => Releasing(capture[t].owner.id)

\* The store does not keep an expired grant: the alarm, or the reconciliation
\* of a restarted worker, ends it.
ExpiredGrantEnds == StoredExpired ~> ~StoredExpired

\* The engine learns of every handoff that a grant's end cancelled, unless the
\* worker is terminated before it can say so.
CancelledHandoffAnnounced ==
    \A h \in 1 .. MaxHandoffs :
        (kills = 0 /\ handoff.id = h /\ handoff.state = "cancelled")
            ~> (h \in announced \/ kills > 0)
=============================================================================
