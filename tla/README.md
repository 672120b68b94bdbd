# Formal models of the Yaklang browser extension

TLA+ models of the extension in this repository, the TLC configurations that check
them, and TLAPS proofs about them. Every definition is a translation of the source
under `src/`; `PROJECT.json` names the lines of each one under `map`. Paths below are
relative to `src/src` unless they start with a directory of the repository's root.

The extension shares one browser with an external engine. A Manifest V3 service worker
holds the connection to the engine, one *grant* that says what is shared and until when,
the captures, recordings and debugger sessions the engine starts, and the state of the
agent that works through the connection. Two facts shape everything: the worker may be
terminated between any two awaits and loses every variable it did not store, and each
`await` lets every other message, alarm and callback run.

## 1. Inventory

| Component | State | Operations | Talks to | Hard part | What makes it correct |
| --- | --- | --- | --- | --- | --- |
| State store (`platform/storage/state.ts`) | local areas (proxy, user agents, bridge, panel), session area (grant, handoff) | getState, setState, updateState | everything | read-modify-write over two areas, failures of one area | no lost update, no half-made update taken for a whole one |
| Grant lifecycle (`features/grants/lifecycle.ts`) | stored grant, expiry alarm, `lifecycleQueue`, cleanup memo | replace, revoke, expire, reconcile, lookup, rebind | store, alarms, captures, bridge | awaits between commit, alarm and cleanup; worker death in between | an ended grant stays ended, a live one has its alarm, what it owned is released |
| Engine bridge, connection (`features/engine-bridge/service.ts`) | socket, status, `connectPromise`, handshake, timers, generation | connect, disconnect, socket callbacks, heartbeat, reconnect | engine, store | callbacks of old sockets, timers racing answers, user racing both | connected only to an engine that acknowledged; disconnect sticks; it comes back |
| Engine bridge, requests | `inFlight`, chunk buffers, `outgoing` | request, cancel, response, chunk | router, agent runtime | abort while the operation runs, ids used again | eight at most, every request answered once |
| Engine bridge, pairing and identity | pairing socket, expiry timer, stored identity | startPairing, confirm, cancel, unpair | engine, store | expiry racing confirmation | one outcome, identity only from a confirmed pairing |
| Agent runtime (`features/agent-runtime/service.ts`) | cached runtime, mutation and persistence queues, flush timer | mutate, flush, get | storage.session | write-behind with failures and kills | acknowledged means stored; what is not stored is reported |
| Agent session (bridge requests + `features/handoff` + `app/background`) | runtime state, timeline, handoff, in-flight requests | request, cancel, handoff request and answer, pause, resume, clear | bridge, runtime, store, UI | two parties answer; state set after awaits | a pause holds; the agent waits exactly while a handoff does |
| Browser transform gate (`features/browser-transform/concurrency.ts`) | active, queued, waiters per profile | acquire, release | transform service | profile edits while executions run | bounded, first come first served, nobody forgotten |
| Browser transform, profiles and recovery | profiles, bindings, the queue of the store | save, delete, execute, recover | recording, callables | recovery while the page reloads | a profile is bound to a live callable or reported lost |
| Network capture (`features/network-capture/service.ts`) | sessions per tab, record budgets, revisions, deferred events | start, stop, webRequest events, rebind, persist, restore | webRequest, storage.session | persistence credited by revision, restore racing events | reported persisted means stored; totals agree with records |
| Browser recording (`features/browser-recording`) | owned recordings, snapshots, lifecycle queues | start, stop, navigation resume, persist | page recorder | navigation racing stop; tab ids used again | a recording follows its document and no other |
| Deep capture (`features/deep-capture/service.ts`) | status per tab in storage, watchdog alarm, event queues | attach, arm, paused, resume, detach, reconcile | chrome.debugger | a paused page must run again whatever fails | pause always ends; the stored status tells the truth |
| User-Agent overrides (`features/identity/user-agent-service.ts`) | stored assignments, session network rules, mutation queue | save, delete, apply, reset, reconcile | store, declarativeNetRequest | two stores changed one after the other | rules agree with the stored assignments, or an error says not |
| Diagnostics (`features/diagnostics`) | audit log, metrics, pending batches, flush timer and queue | append, list, clear, flush | storage.local | write-behind racing clear | events kept in order, once; cleared means gone |
| Proxy (`features/proxy`) | profiles, rules, sources, applied PAC | apply, refresh source, edit, route a site | chrome.proxy, store, network | download racing edits; rules numbered anew by several operations; two implementations of matching | a result is recorded only for the source it was fetched for; the preview tells what the browser does |
| Page callables (`features/page-callable`) | per-tab queues, session rules | replay behind a network guard | declarativeNetRequest, page | rules left behind after a failure | a tab's rules end with its replay |
| Authorization testing (`features/authorization-testing`) | managed containers in local storage, isolation proofs in session storage | open, list, clear an identity; prove two tabs apart | contextualIdentities, tabs, store | lists read before an await and written after it | only own containers are cleared, and they can be; a proof says what was found |
| Page context, cookies, floating panel, analysis, inference, crypto adapters, protocol schemas, UI, native host, scripts | little or none between calls | | | | see section 9 |

Interactions: the UI and the content scripts send messages to `app/background/index.ts`,
which calls the services; the engine's requests arrive in `onMessage` of the bridge and go
through `features/grants/capability-router.ts`; the grant lifecycle calls back into the
captures, the recordings, the deep captures and the bridge when a grant ends; everything
that persists goes through `updateState` or a write-behind queue of its own.

## 2. Modules

| Module | Models | Composes or implements |
| --- | --- | --- |
| `GrantLifecycle` | grant lifecycle with the alarm, the captures a grant owns, the handoff it ends and the background's start-up | |
| `GrantLifecycleProofs` | theorems about it | extends `GrantLifecycle` |
| `BridgeConnection` | the WebSocket connection of the bridge | |
| `BridgeConnectionProofs` | theorems about it | extends `BridgeConnection` |
| `FifoSemaphore` | abstract: a first-in first-out semaphore with a bounded queue | |
| `TransformGate` | the execution gates of one profile | implements `FifoSemaphore` while the profile is not edited or deleted |
| `TransformGateProofs` | theorems about it, `TransformRecovery` and `ProxyRules` | extends the three |
| `WriteBehindStore` | abstract: memory that is stored later and may lose what it did not store | |
| `AgentRuntime` | mutation queue, flushes and storage of the agent runtime | implements `WriteBehindStore` |
| `AgentRuntimeProofs` | theorems about it | extends `AgentRuntime` |
| `AgentSession` | requests, timeline, handoff, pause and resume on top of the runtime | uses `mutate` as one step, which `AgentRuntime` justifies |
| `DeepCapture` | the debugger session of one tab, its stored status, the watchdog and the reconciliation | |
| `DeepCaptureProofs` | theorems about it | extends `DeepCapture` |
| `UserAgentRules` | User-Agent settings and the network rules made of them | |
| `AuditLog` | the audit log's write-behind, clear and restore | |
| `ServiceProofs` | theorems about them | extends `UserAgentRules`, `AuditLog`, `ProxySources`, `TestIdentities`, `PageExecution` and `AgentSession` |
| `BridgePairing` | pairing socket, expiry, confirmation, cancel, unpair and the identity database | |
| `BridgeRequests` | running requests, requests to the engine, chunks, over connections that come and go | |
| `BridgeServiceProofs` | theorems about them | extends `BridgePairing` and `BridgeRequests` |
| `ProxySources` | downloads, edits, imports and application of one rule source | |
| `ProxyRules` | profiles, rules and routing of the automatic proxy: parser, preview, compiled script, edits | |
| `NetworkCapture` | capture sessions, their records and budgets, write-behind and restore | |
| `BrowserRecording` | the recording of one frame and the recorder in its documents | |
| `NetworkGuard` | replays of a tab behind network rules, and the preparation that awaits a capture | |
| `RecorderProofs` | theorems about the last three | extends `NetworkCapture`, `BrowserRecording` and `NetworkGuard` |
| `PageExecution` | replays inside one page, and the recorder's hooks that they meet | |
| `ContainerIdentities` | the containers that the extension makes for test identities, and its list of them | |
| `IsolationProofs` | proofs that two tabs hold separate identities, and their table | |
| `TestIdentities` | both, side by side | extends the last two |
| `TransformRecovery` | one transform profile in the store and the recovery of its page function | the debugger's session as `DeepCapture` shows it |

`MCServices`, `MCRecorders`, `MCSessions` and `MCTransformGate` put modules that share no state into one run (section 3). The other
`MC*` modules hold only what TLC needs: symmetry sets and the definitions that a
configuration substitutes for constants.

### 2.1 GrantLifecycle

`activeGrant`, `handoff`, `persisted` and `alarm` outlive the worker; `queue`, `phase`,
`reason`, `target`, `cancelled`, `cleaned`, `captures` and the starts under way do not
(`Kill` drops them). An operation of `lifecycleQueue` is the head of `queue`; `phase` is the
`await` it stands at, so one action is the code between two awaits: `ReplaceSchedule`,
`ReplaceCommit`, `Resync` (lifecycle.ts's alarm after the commit), `EndCommit` (the store
update that ends a grant, and the handoff it drops), `EndClear` (the alarm), `Cleanup` (the
memoised release of what the grant owned), `Publish` (the cancelled handoff to the engine),
`Lookup`, `UpdateRead`, `UpdateCommit`. A failing storage call may or may not have written
the session half (`updateState` writes both areas in parallel). A read of the store may fail too:
a failed lookup or update only fails its caller, while a failed reconciliation (`ReconcileFails`), or a
start that fails before it reconciles (`RestoreFails`), re-arms nothing, which the history variable
`unreconciled` records until the next reconciliation. `StartCapture` reads the
grant and `RegisterCapture` registers the session after the awaits in between, as
`network.capture.start` does. `Restart` begins with one reconciliation, queued by
`restoreBackgroundState` or, when the alarm wakes the worker, by the alarm before it.
Two readings of `Date.now()` within one synchronous run are one reading.

Only network captures are owned by the stored grant: a recording or a deep capture that the
engine starts runs under the constant access of the paired browser instance
(`paired-browser-instance`), so `stopDeepCapturesForGrant` and its like find nothing for the
stored one.

### 2.2 BridgeConnection

The fields of the class are the variables; a call of `connect()` is a caller at one of its
awaits (`callers`), a socket has its `readyState` and what its peer has sent (`peer`). What
runs between a rejected handshake and the next await belongs to the step that rejects.
Discovery finds the paired engine or nothing. The retry delay of 3 s outlasts a discovery of
0.8 s, so a reconnect timer never fires within the attempt that armed it unless a fault
makes the answer late; late answers, early acknowledgements, dropped sockets, missed heartbeats,
refusals, outages and a rejected save of the selected engine are the faults that `MaxFaults` bounds. The run has both modes:
the initial state chooses whether an engine is selected (`launchTarget`). `disowned` records that the save of
the selected engine was rejected over its connection.

### 2.3 TransformGate and FifoSemaphore

An execution reads the profile (`Begin`), waits for its target checks, and enters the gate
with the limit it read: `Permit`, `Enqueue` or `Refuse`. `Transfer` hands its permit to the
oldest waiter and `Free` gives it back; a woken waiter already owns its permit. `Save` and
`Deleted` change the profile meanwhile. `Delete` takes the registration of the gate away before that
write, which may fail (`DeleteFails`), so several gate objects of one profile may be in use, of one that stays, too.
`validateBrowserTransformProfile` enters the same gate and is an execution here.

### 2.4 AgentRuntime and WriteBehindStore

A runtime is the set of the mutations it is the result of, so that "stored" and "lost" can be
told apart without the content. `queue` is `mutationQueue`, `writes` is `persistenceQueue`;
a flush waits for the mutations queued when it began (`mark`), then for its turn, then
writes. `Kill` leaves only `stored`.

### 2.5 AgentSession

A request's answer (`req`) and its operation (`op`) are separate because `Promise.race` lets
the operation run on after a cancellation. `Ask` stores a handoff and `AskApply` sets the
runtime later; `EngineResolve` and `UiResolves` store an outcome and set the runtime later;
`PauseCancels`, `PauseStopped` and `UiApply` are the three parts of `agent.pause`. Every
request runs with the one paired-instance access, which is why the runtime has a grant once
it is not idle. The user does one thing at a time.

### 2.6 DeepCapture

A process is one run of asynchronous code: a call (`startDeepCapture`, `keepDeepCaptureAlive`,
`resumeDeepCapture`, `detachDeepCapture`), the debugger event at the head of the tab's queue, the
watchdog's alarm listener, or the reconciliation of a started worker. `pc` is the await it
stands at and `snap` the status it has read and will write a copy of: that distance
between reading and writing is what the module is about. `stored`, `alarm`, `debugger` and `page`
outlive the worker. A rejected write of `storageQueue` makes every later one reject
(`broken`), as the chain without a catch does. The stops of the page are numbered: an event
tells of its stop, and the pause in a status has the number of the stop that it was made of, which the code
does not know and the model never decides by. Three history variables name what is excepted:
`overwritten` (a copy was written over what another process had stored), `unreported` (the
worker died before a stop was stored or watched; the status could not be read for the event of a stop or to
release a stopped page; a session could not be detached, and either the write that tells so was rejected or the
browser could not be asked, which counts as detached) and `raced` (a start beside another run or event, `StatusSound` alone).
Every read may fail. A release lets the page run first, then waits for a script in the page before it detaches
(`Disarmed`): when the resume failed, the stopped page does not run it.

### 2.7 The services of `MCServices`

`UserAgentRules`: a mutation reads the settings, changes the rules (`RulesOf`), stores the
settings, and on a failure makes the rules again from what is stored; `uaAdrift` is a
reconciliation that failed too, whose error the caller sees.

`AuditLog`: `auMemory` is `cachedEvents`, `auPending` and `auBatch` are the events not yet
written and those in the write under way, `auQueue` is `flushQueue`. A listing restores the
events at any time, beside the queue.

`BridgePairing`: a call of `startPairing` is at its discovery or at the identity database, a
socket is the number of its call, and a message handler stands at an await (`PairPending` then
`CodeComputed`, `PairApproved` then `ApprovalStored`) while the attempt it belongs to may end.
A read of the settings, the identity database or the making of a key may fail (`CallFails`, `CodeComputed`,
`ApprovalStored`, `PairingRemoved`); `bpStale` records that a call which overtook a pending request failed so and left
it shown. `PairingKilled` is a termination of the worker: the key and the pairing stay, and one between the two steps
of `unpair` counts as half done (`bpHalf`).

`ProxySources`: an update of the state store is queued and applies to what is stored at its
turn; a refresh marks the source, downloads, puts a revision, updates the settings, deletes
the other revisions and applies the rules, each a step that may fail; a rejected write may
stand (`StoreFails`, `CommitFails`, `MarkFails`). `pxCauses` names the exceptions. A source
that is added after a removal gets another id, so what is under way for the removed one no
longer concerns it (`AnotherSource`). The module is checked for its safety in `session`, for coming to rest in `services`.

`ContainerIdentities`: a call stands at one browser or storage call (`step`), with the list that
it read; `WriteManaged` stores that list with the call's own change, and what is lost by it goes
into `ciLost`. The user removes containers and closes tabs in between. A browser that gives out no
more containers refuses to make one.

`IsolationProofs`: a call purges and loads the table, inspects the tabs, reads both pages where
they share store and origin, and registers its proof. Logins come and go while the pages are
read. A place that both tabs share (`ipShared`) and a tab's own storage (`ipSession`) stand for
the fingerprints that are compared. The constants assume that one proof fits in the stored table
(`MaxProofBytes` at least 2): the code makes proofs of far less than 64 KiB, and if one alone did not fit, `saveProofs` would
store none. `TestIdentities` puts both modules side by side.

### 2.8 The modules of `MCRecorders`

`NetworkCapture`: a session is bound to a document of its tab and records its requests only.
`MarkDirty` counts a revision, `PersistFires` takes the snapshot, `Written` credits it.
`Navigate` reads the session and asks the browser for the tab, `Rebind` binds what it read.
`WithinBudgets` is `enforceBudgets`, which removes the oldest records one by one: what is left is
each session without its least sufficient number of first records (`Excess`), and without all
that are as old as the least id for which the budgets of all sessions are kept (`Trimmed`).

`BrowserRecording`: `brPages` is the recorder in each document, also in those that were left
and may be shown again from the back-forward cache. `brTask` is the handler of a navigation event, `brCall`
the user's call; each reads the session, awaits commands in the page and writes the session
back. The page answers a command in the step that sends it. `brBack` records that the frame
went back to a document before what came earlier was handled, or whose recorder still ran.

`NetworkGuard`: a replay waits for its turn in the tab (`after` is the promise it is chained
to), installs its rules at its place in `ngInstalls` (`ruleQueue`), runs, is drained and
removes them. `Triggered` stops the page and begins the capture that the preparation then
awaits; an execution before that capture cannot return from the stopped page, and only
`Watchdog` ends the circle: without its fairness TLC refutes `RecordersRest`.

`PageExecution`: `peFetch` is the chain of hooks that `window.fetch` has become, `peQueue` the
promise queue, `peRequests` the requests of page code whose body is being read or which were
sent. A replay appends its hook and puts the chain that it found back; the recorder takes its
wrapper away only where it is the outermost. What a replay has begun goes on after its end
(`Sends` of a replay that is over) and meets whichever hook is there. A request whose body cannot be read
or parsed is refused and does not fail the replay (`Swallows`).

`BridgeRequests`: a request passes admission, its operation and its answer; `Registered` is
`inFlight`. `AbortInFlight` empties that table while operations run on. Ids may be used again. `rqLink` is the status
together with the socket: a handshake that fails (`HandshakeFails`, also by a late challenge of a working connection)
cleans nothing up but waits for the close event of its socket, which is ignored once the next connection has taken
the socket's place (`Connects`); `rqCrossed` keeps what that one took over (`LeftBehind`).

### 2.9 ProxyRules

One update of the settings is one step: they run in the queue of the store. `Preview` is
`previewProxyRules`, `Pac` what the browser makes of the script of
`compileProxyRules`, which asks blocks of neighbours with one result (`BlockOf`; `TrieOf` the hosts of a block, `MatchesHost` the
walk) in place of rules, `Parsed` is `parseProxyRuleSource`. A host is its labels from the top level down, so a domain
contains another when it is its prefix; a value with an empty label (a leading, a doubled or a trailing dot) is its
other labels and the mark `dotted`: the compiler drops the empty ones, the preview compares with the value; a keyword, a prefix or an expression is the set of addresses that it hits. A
profile is the value that the browser gets. Rules are a set: the stored array is the field `place`, which `Placed` makes
whole again after an edit, and an order is a relation of rules (`Before` in the script and the preview, `Earlier` of
`Array.sort` by order alone) whose least element is `First`. `Normalized` is what `normalizeState` drops on
every write. `prHistory` keeps `half` (the browser was set and the settings were not stored) and `moved`
(an operation changed the order of rules that it was not about).

### 2.10 TransformRecovery

A call of the service is a record at one of its awaits (`trCalls`), with what it has read and
learnt: the binding, the validation it confirms. `mutateStore` runs the changes one after
the other, so each is one step (`Stored`), on whatever the profile is by then. A binding is a
document and a function; `trHome` says where each function really lives. `Navigates`
shows another document, also one of the back-forward cache, and `HandleCommit` is the listener
that makes a profile stale that is bound elsewhere. The store begins with a profile whose
document no longer exists and a function that was captured for it. `trProven` is the function of the last save or stored passing replay,
empty once a change that ends its use is stored.


## 3. Properties and runs

"Violation" runs show a disagreement between the code and what the repository says; their
texts are in `PROJECT.json` under `findings`, summarised in section 6. Some properties of
passing runs except exactly the case that section 6 describes, and say so in their comment:
`PauseHolds` the pause that a handoff's answer crosses, `DisconnectSticks` and `HandshakeSound`
the `connect()` whose read of the configuration is overtaken, `EndReleasesCaptures` the
capture whose start was under way when its grant ended. A history variable of the module
records each exception: it is set by the step that makes the case happen and by no other.

`services`, `recorders`, `session` and `gate` are sums: the modules share no variable, the initial state
chooses the one that takes steps, and every property of each is checked in its part. The
invariants of a part are conjoined under one name, its type invariant included. The
liveness of all parts of the first two is one formula, `ServicesRest` and `RecordersRest`: again and again the
part is at rest, that is, its writes have landed or their failure is reported, its calls are
answered, its attempts are over, its recording goes on in the document shown.
Four runs have a state constraint: `grant_safety` follows a capture only while nothing has failed
and no handoff waits (`CapturesUndisturbed`; `EndReleasesCaptures` claims nothing else, the other
properties do not read captures), and a handoff only over one failed write or termination, over none while an update
has read the grant (`HandoffsUndisturbed`, a bound that the theorems do not have), `deep_capture` does not follow a behaviour once it is
excused for good (`NotExcused`), `recorders` does not once worker and page have come to differ
in one of the excepted ways (`RecordingFollowed`), `session` does not follow a recovery once a
replay's result went to another binding or a binding was stored too late (`RecoveryFollowed`). The last three only cut what every property excepts anyway:
once set, those history variables stay set (`brCrossed` until the next start).

| Run | Bounds | Shows |
| --- | --- | --- |
| `grant_safety` | 2 grants, 2 tasks, 1 tab, 2 durations, clock to 2, 2 waiting operations, 1 handoff, 1 fault, 1 kill, alarms up to 1 early | `EndedGrantStaysEnded`, `LiveGrantHasAlarm`, `EndReleasesCaptures`, `HandoffEndsWithGrant` (a property of steps) |
| `grant_liveness` | 2 grants, 1 handoff, 1 kill, early alarms | `ExpiredGrantEnds`, `CancelledHandoffAnnounced` under `FairSpec` |
| `bridge` | 2 calls (1 of them may read its configuration), 2 sockets, 1 disconnect, 1 fault, an engine selected or not | a disconnect sticks, a connection ends for a cause, `HandshakeSound` (connected is acknowledged, a pending handshake has its socket, no socket is left behind), `EventuallyConnected` |
| `gate`, executions | 4 executions, 2 gates, limits 1 and 2, queue 2, edits and deletions, of which any may fail; a deleted profile is not deleted again | refinement of `FifoSemaphore` until the profile is edited or its deletion is tried; counters exact, no lost wakeup, `GateLimits` (never above the ceiling, nor the queue above its depth), `WaiterRuns` |
| `gate`, routing | 2 edits of any kind, 3 rules of 4 conditions, 1 profile of 3 values, 1 source of 4 texts, 4 addresses, 1 failing write | `RoutingSound` (`PreviewTellsPac`, `RouteTakesEffect`, `OthersKeepOrder`, `ProfileInUse`, `DiagnosticsAddUp`) |
| `session`, agent | 2 requests of every kind, 1 handoff, 3 user operations of every kind, 1 kill | `PauseHolds`, `TimelineSound` (`TimelineTrue`), `OutcomeFinal` |
| `session`, recovery | a function that waits for its replay, then 4 calls of any kind, 2 at once, one of the 4 a failing write or kill instead; 2 documents, 2 functions | `TransformSound` (`EnabledIsProven`, `EnabledIsHome`, `EnabledIsShown`, `RecoveryIsWhole`) |
| `session`, rule source | 3 contents of 2 addresses, 4 operations, 1 fault, 1 kill | `SourcesSound` (`OwnRules`, `AutoIsApplied`, `RevisionKept`, `UpdatingIsUnderWay`) |
| `deep_capture` | 1 call of each kind in turn, 1 stop of the page, 1 fault (command, read, write, lost session or kill), 1 unit of the clock | `StoppedPageIsWatched`, `StatusSound` (`StatusIsTrue`), `PauseEnds` |
| `services`, runtime | 3 calls (2 immediate, 1 that changes nothing), 2 timers, failing reads, 2 faults, 1 kill | `RuntimeSound` (`AckedIsStored`, `PendingCounted`, `PersistedIsStored`), refinement of `WriteBehindStore` |
| `services`, User-Agent | 1 custom and 1 built-in profile, 2 hosts, 2 agents, 3 operations, 2 faults, 1 kill | `RulesFollowSettings` |
| `services`, audit | 4 events, log of 2, 2 pending, batches of 1, 1 clear, 1 fault, 1 kill | `AuditKept` (`EventsInOrder`, `NoEventForgotten`, `ClearedStaysCleared`) |
| `services`, pairing | 3 starts, 2 events (unpair, socket lost, timer, failing call, termination), cancels by the user | `PairingSound` (`NoPairingSocketLeft`, `PendingIsCurrent`, `CallerIsAnswered`, `PairedKeyKept`, `CancelIsFinal`) |
| `services`, proxy | 3 contents of 2 addresses, 3 operations, 1 fault, 1 kill | comes to rest (`ProxyAtRest`) |
| `services`, containers | 2 calls of any kind, 1 container of the user and 3 more, list of 2, 2 looks, 1 fault, 1 termination | `IdentitiesSound` (`ForeignKept`, `IdentitiesClearable`, `ListBounded`) |
| `services`, proofs | 2 calls and 1 of an earlier worker, table of 2 proofs and 3 units, 2 events (login, expiry, fault, termination) | `IdentitiesSound` (`ConditionalIsApart`, `TableBounded`, `ProofsStored`) |
| `recorders`, capture | 2 tabs, budgets of 1 entry and 1 unit per session and in all, 2 sessions, 4 operations, 1 event (navigation, fault or kill), 1 deferred request | `CaptureSound` (`CaptureIsStored`, `CaptureAccounted`, `OnlyOwnRequests`, `FollowsDocument`) |
| `recorders`, recording | 3 events in all (calls, navigations, faults, kills) | `RecordingSound` (`StopSticks`, `RecorderAttended`, `RemovedForgotten`, `RecordingIsStored`) |
| `recorders`, guard | 3 replays of any kind in one tab, 3 rule ids, 1 event (failing call, breakpoint of the user, termination) | `GuardSound` (`OneAtATime`, `GuardedWhileRunning`, `NoRuleLeft`) |
| `recorders`, page | 2 replays of either kind, 1 prerequisite, 4 requests of page code and recorder commands in all | `ReplaySound` (`ReplayIsHooked`, `PrerequisitesInOrder`, `ResultStandsAlone`, `RecorderIsHooked`) |
| `recorders`, requests | 2 requests of 2 ids, 2 slots, 1 outgoing request, 2 connections, a message in 2 parts, 1 fault (break, failed handshake, missed heartbeat, pause, bad chunk) | `RequestsSound` (`SlotsAccounted`, `ResultToAsker`, `OutgoingOnLiveLink`, `WholeMessages`) |
| `grant_orphan_capture` (violation) | 1 grant, 1 tab | `EndedGrantOwnsNothing` fails |
| `session_pause_lost` (violation) | 2 requests, 1 pause | `PauseNeverLost` fails |
| `deep_capture_stuck` (violation) | 1 start, 1 stop of the page, no fault | `WatchdogResumes` fails |
| `recording_unhooked` (violation) | 1 replay, 1 start of the recorder | `RecordingContinues` fails |

Why the bounds are enough: every hazard listed in `PROJECT.json` needs at most two
operations of one component and one external event (a kill, a fault, an edit) between them, and
each part has that much. Two sockets are an old one and the current one; four executions
fill a gate of one permit and a queue of two and leave one to be refused; two grants are one
that ends and one that follows; three starts of a pairing are one that is overtaken, one that
overtakes and one after a cancel; two slots of two requests are filled, one after the other.
The clock passes
the expiry of the first grant and, when the second follows it, that of the second. With two
requests the bridge's bound of eight (`MaxInFlight`, 2 here) is never exceeded in `session`: the
refusal of a ninth request is in the model and not exercised.

`CHECK_DEADLOCK FALSE` is set where every bounded activity may be used up: the session makes
each request once; overtaken calls of `bridge` may leave both sockets open and no model socket
for the next one; a deep capture, a service or a recorder has no step left when its
operations are spent and its work is done. In `gate` the routing rests when its edits are
spent, and the gate is checked for deadlock. Elsewhere deadlock is checked.

Each property has a mutant in `PROJECT.json`: a changed definition under which TLC finds the
property violated with the run's own configuration. The modified definitions stand in the
modules right before the ones they change.

## 4. Fairness

- Continuations of promises run: weak fairness of each step behind an await, of storage,
  alarm and socket calls that answer, with an error or a value.
- The worker is started again by any event it listens to (`Restart`), and the browser
  keeps alarms across a termination.
- Timers of a living worker fire: reconnect, flush, pairing expiry, chunk and request
  timeouts (`AuditTimer`, `PairingWorks`, `RequestsWork`). In the sums one weak fairness over the
  disjunction of the working part's steps says that the part does not stop with work to
  do; it is enough because each part has a bounded amount of work.
- A navigation that began ends, by a commit or an error (`EndNavigation`).
- The debugger's commands and events answer (`FairSpec` of `DeepCapture`); the watchdog alarm is
  kept by the browser across a termination.
- The watchdog alarm of a stopped page fires (`Watchdog` of `NetworkGuard`), what `PauseEnds` shows of `DeepCapture`.
- Page calls end: `page-context/execution-adapter.ts` gives each one a timeout, so a transform
  execution and a request's operation come to their ends.
- The engine comes back after an outage (`EngineStarts`); without that no connection can be
  promised.

No fairness is given to the user, to the engine's requests, to faults or to terminations.

## 5. What is proved

All theorems hold for every value of the constants that the `ASSUME`s allow: any number of
grants, tasks, tabs, executions and gates, any queue depth and any limit.

`GrantLifecycleProofs`
- `TypeCorrect`: `Spec => []TypeOK`.
- `NoResurrection`: `Spec => []EndedGrantStaysEnded`. The property is not inductive by itself:
  a queued replacement or update carries a grant that it will store later. The invariant adds
  that ids in the queue and in `target` are either fresh or the active grant's, that an
  update's grant is committed only while it is the active one, and that at most one queued
  replacement can hold any fresh id.
- `HandoffLeavesWithGrant`: `Spec => HandoffEndsWithGrant`, a property of steps, from the
  type invariant and one lemma per action.
- `AlarmFollowsGrant`: `Spec => [](faults <= 1 => LiveGrantHasAlarm)`. The hypothesis is the property's own
  proviso, "one failing call". The invariant (`AlarmInv`) says at every step of the running operation
  which alarm the browser holds: that of the stored grant (`AlarmRight`), that of the grant which the
  operation is about to store (`Replacing`), or one that the operation will make up for
  (`MakesUp`); otherwise a reconciliation is queued, or the worker is gone and its next start queues one
  (`WillReconcile`). With two failures nothing is left to make up for the second, and nothing makes up
  for the one failure when it is the reconciliation's own read of the store: that is the property's exception.
- `GrantReleasesCaptures`: `Spec => []EndReleasesCaptures`. A capture's owner is the active grant, one that the
  running operation ended and has still to release, or one that had ended when the capture was
  registered.

`BridgeConnectionProofs`
- `HandshakeIsSound` (`[]HandshakeSound`), `DisconnectIsFinal` (`[]DisconnectSticks`) and `ConnectionIsKept`
  (`ConnectionEndsForCause`), with and without a selected engine. The invariant has two parts. The first
  holds whatever happens (`Fields`): a pending handshake is that of a call at its first or second attempt and
  has a socket, a bridge that the user closed has none, an answer that was sent went out on the current
  socket. The second holds until a call goes on with an overtaken configuration (`InOrder`): the tracked
  call is the only one under way (`Tracked`), none is while the bridge is connected (`ConnectedIdle`), a
  live socket carries a handshake or the connection (`LiveIsUsed`), and no other socket is live
  (`OthersNotLive`). Together they show that a new socket never takes the place of a live one, so
  that a late callback of an old socket finds nothing to end. One lemma per helper
  (`FailEffect`, `OpenEffect`, `CompleteEffect`...) says what a rejected or completed handshake does to the
  call that awaits it, and the steps of the proof use these.

`TransformGateProofs`
- `GateTyped`, `GateAccounted`, `GateNeverForgets`, `GateNeverOverruns`, `GateQueueBounded`, `GateKeepsLimits`: the
  type invariant, the exactness of the counters, the absence of a lost wakeup, the ceiling on
  simultaneous holders and the queue bound. The inductive invariant is `Shape /\ Counts`:
  `Shape` says that the waiters' sequence has no repetitions and lists exactly the executions
  that wait at the gate (with their limits); `Counts` ties `active` and `queued` to the
  cardinalities of the holders and of the waiters. The ceiling follows because `Permit` needs
  `active` below a limit that is at most `MaxLimit`, while `Transfer` keeps the count.
- `GateIsSemaphore`: `Spec /\ []LimitKept => Semaphore!Spec`, where `LimitKept` says that the profile's limit is `MaxLimit` and that it is not being deleted. To the
  invariant above it adds `OneGate`: everybody who is in a gate is in the registered one and read
  the same limit, and the queue is empty unless all permits are out. One lemma per action shows
  the step of `FifoSemaphore`, or the stutter, that it is.
- `GateIsSemaphoreUntilEdited`: `EditSpec => SemaphoreUntilEdited`, the same of each step, as the run checks it: `EditSpec`
  keeps a history of the edits and deletions in `edited`, and until the first one `StillOne` holds, `LimitKept` and `OneGate`.
- `RecoveryIsSound`: `TrSpec => []TransformSound`, for any number of calls under way. What a call read and learnt at one await may be
  out of date at the next, so the invariant says of every call what still holds of it. A function
  that a call or the profile names lives in the document that it names, or was deleted (`Home`): nothing moves a
  function. Calls are numbered, and a validation has the number of the replay that made it (`TrNumbers`), so that of a
  replay under way no profile and no confirmation knows yet (`NotYetUsed`). Hence a confirmation whose validation is still the
  stored one found the binding that is still pending (`Matches`), and it is that binding's function which was
  replayed last (`ProfileKnown`), unless a result went to another binding (`trMixed`). At most one navigation waits to be handled,
  and it is the one to the document shown (`TrShown`).

- `RoutingIsSound`: `PrSpec => []RoutingSound`, for any rules, profiles, source texts and addresses. Most of it is about
  operators. A host walks the trie of a block exactly as far as one of its domains matches it (`TrieMatches`), so a
  block matches an address if one of its conditions does (`BlockMatchesAny`). The first block that matches need not begin with
  the rule that matches; but between the two every rule has the block's result, so the script answers what the
  first matching rule gives (`ScriptAnswers`). The preview's search for exceptions first is the order of the source's conditions
  in the script (`SourceAgrees`). A position is the number of rules ahead in a total order, whence positions keep that order (`Ranked`;
  `PlacedOf`, `ByOrderOf` and `NumberedOf` are its uses). The parser's recursive function is unfolded by taking the least line at which the
  counts would not add up (`ParsedOf`, `LeastNumber`). The inductive invariant (`PrInv`) adds two things to the properties:
  the rule of the routed site comes before all others (`RouteFirst`), of which `RouteTakesEffect` follows whatever
  the other rules are (`RouteDecides`), and what a source has stored compiles and has no dots (`ReadWell`), since the
  preview compares those as they are written. An operation has then to be shown to edit well (`Updatable`): `normalizeState`, which
  runs on every write, does the rest (`NormalizedSound`).

`AgentRuntimeProofs`
- `RuntimeKeepsItsWord`: `Spec => []RuntimeSound`, what was acknowledged stays stored, the count of pending mutations
  is exact, and "persisted" is true. The invariant compares three sets, those of the
  stored runtime, of the write under way and of the cache: the write's snapshot is a part of
  the cache (`WriteSound`), what entered the cache since it was taken is not stored, its batch is what the
  store lacks of it, and unless the stored runtime could not be read the store holds nothing that the
  snapshot lacks. That gives `PendingCounted` over a write that ends while mutations go on.
- `RuntimeIsWriteBehind`: `Spec => IsWriteBehindStore`, one lemma per action: a step of `WriteBehindStore` or a stutter.

`DeepCaptureProofs`
- `StoppedPagesAreWatched` and `StatusIsSound`: `Spec => []StoppedPageIsWatched`, `Spec => []StatusSound`. Both are about
  the moments when nothing is under way; the invariant (`DeepInvariant`) says who sees to the page in between.
  While the page is stopped (`CaredFor`), the event of this stop is still in the queue, or its process is about to
  publish it, or some process is releasing the very stop, or it is stored, and either watched or about to be told of.
  This rests on two facts about order. A release may come late, after the page ran and stopped again: one that let the page run, or
  found it running, is about an earlier stop, so what it stores touches this one only by overwriting a status it
  did not read, the named exception, and one of this very stop which could not let it go on says so (`Older`).
  And an event may come late: as long as something of before the stop is being handled or waits, the stop's own
  event is behind it (`InOrder`, `EventsFollow`).
  Of the session (`DetachedIsGone`): a status that says "detached", stored or about to be, says so after the
  session was gone; only a start attaches another, and `StartsAlone` (nothing else is under way beside it unless `raced`) leaves
  only its own write between. One lemma per action says what it does to these three, `MoveKeeps` has what
  all steps of one process share. The proof of the first found what the run with one fault could not: a detach that
  fails and then the rejected write of the status which says so leave a stopped page that nobody knows of.
  That is part of `unreported`, as is each failing read by which a stop gets out of sight.

`ServiceProofs`
- `RulesNeverDrift` and `UaTyped`: the network rules follow the stored settings wherever an
  operation fails or the worker dies. The inductive invariant is `UaTypeOK /\ RulesAhead /\
  RulesBehind`: while an operation stands between its two writes the rules are those of the
  settings that it is about to store (`RulesAhead`), and before the first write they are still
  those of the stored ones (`RulesBehind`, the property extended to that step). The first makes
  the commit preserve the second; a commit that fails leaves the state in which the property
  claims nothing until the restore has run.
- `LogIsKept`: `AuditSpec => []AuditKept`. Three copies of the log change at different times: what is stored,
  what is in memory and what is on its way (the batch of the write and the pending events). The
  invariant says that each is in order and that all of the first is older than all of the last
  (`AuOrder`), stated for every pair of places, since from neighbours it would take an induction; that the
  memory equals what is stored, or else nobody misses what is stored (`AuBehind`), because a write replaces it by
  what the memory gives; and that a cleared event is in no copy, but for the stored one
  while the removal is under way (`AuGone`). All that holds until a clear joins
  other operations in the queue, the exception that the property names.
- `SourcesAreKept`: `PxSpec => []SourcesSound`. An update decides what it will store when it begins and stores it after two
  calls that may fail, while downloads, alarms, imports and edits go on. The invariant therefore says of
  the update under way what it will store, over the settings of its beginning (`Fits`: which source, mode and mark each kind of update
  leaves), that the database has every revision which an update, an import, a preview or a refresh is about
  to name (`PxHas`), that the browser routes by the stored revision, or by that of the update which
  has set the browser and not yet stored (`PxRoutes`), and that a source marked as updating belongs to the refresh under way
  (`PxMarks`). The last three hold each until one of the causes that the properties except.
- `IdentitiesAreSound`: `IdentitiesSpec => []IdentitiesSound`. A call writes back a list of containers that it read some browser calls
  ago. What makes this safe is said of each call (`CiInv`): its list is within the limit, with the container that it
  makes as well (`WritesFit`), and what it is about to take off the list is gone in the browser or counted as lost
  (`GoneFirst`); so each container that exists is on the list, lost, or in the hands of the one call that will
  store it (`Clearable`). For the proofs (`IpInv`) it is that no table, stored or in memory or read and not yet taken over, has a
  conditional proof of tabs that shared a login (`Apart`), that the table in memory is among what is stored, unless
  disturbed, and that one call at a time loads it and has what is stored until another proof is made (`LoadsStored`). The tables
  are cut, counted and filtered by recursive functions of any length; in place of an induction the proofs
  take the least length at which a fact fails (`LeastNumber`, from the well-foundedness of the naturals).
- `ReplaysAreSound`: `PageSpec => []ReplaySound`. The queue lets one replay run at a time (`PeOneAtATime`), so the chain that a replay
  finds and puts back has hooks of the recorder alone, although page code of ended replays goes on sending. What the
  recorder put its hook over may be a page of long ago; it is put back only where the recorder's wrapper is the
  outermost, and then it is the rest of the chain of now (`PeHooks`). One sent request of a transaction is under way at
  most, counted once in the bag (`PeOneUnderWay`), so what was sent is at most one ahead of what was answered, and a
  transaction that captured had nothing left to send (`Counted`). Without a command during a replay the page, the crypto hooks
  and the timer are those of the recorder's state (`PeUndisturbed`).
- `PauseIsKept`: `Spec => []PauseHolds`. A pause sets the state in one step and is acknowledged in a later one. Between
  them (`PauseSet`) only a completion of a handoff can unblock the agent, and it is either still to come
  or has marked the pause as overtaken; after the acknowledgement (`PauseKept`) no completion is under
  way, because each one that begins lifts the pause, and the stored runtime blocks as well, so that
  a restart does not lift it.
- `TimelineIsTrue`: `Spec => []TimelineSound`. The stored timeline may be one flush behind, so the invariant
  (`TimelineKept`) allows its running actions a closed request, which a restart makes a past one.
- `HandoffHasOneOutcome`: `Spec => OutcomeFinal`, a property of steps.

`BridgeServiceProofs`
- `PairingHasOneOutcome`: `PairingSpec => []PairingSound`. The key database, the stored pairing, the context of the
  socket and the shown state change in different handlers. The invariant counts (every key
  and every generation has a call or an event of its own: `KeysForCalls`, `GenerationsForCalls`), which shows that
  an overtaken call stays overtaken, over terminations too, after which no call and no handler is left; it says that a call which will open a socket is the only
  such call and that no socket is open meanwhile (`OpensAlone`); and, as long as no handler went on after
  its attempt, that the context shows the key of the database (`ShowsKey`) and that a paired
  browser makes no attempt (`PairedRests`).
- `RequestsAreAccounted`: `RequestsSpec => []RequestsSound`. Slots are kept by id and requests by record, and `abortInFlight`
  empties the first while the second run on. The invariant ties them together while no two
  live requests share an id (`LiveApart`, `LiveOfLink`), and says of the connection what it may carry: nobody waits
  and no slot is taken unless it was up (`LinkCarries`), every chunk that waits is of this connection
  (`ChunksOfLink`), unless it took over what an earlier one left. One lemma per effect (`AbortEffect`, `FailKeeps`, `ReplyKeeps`...) serves every path on which a connection ends.

`RecorderProofs`
- `RecordingIsSound`: `BrSpec => []RecordingSound`. Three places know of a recording: the service, the recorder of the
  document shown, and what the event or call under way has read before its last call of the browser; the queue decides
  in which order they hear of a navigation. The invariant (`BrInv`) turns on one question, whether the commit of the
  document shown is still in the queue (`Fresh`). If it is, nobody knows that document: the recorder in it does not
  run, and neither the recording nor what was read names it. If it is not, all of them name it and the recorder has
  the recording's id (`RecordingKnown`, `TaskKnown`, `GetKnown`, `RecorderKnown`), and a recorder that does not run is about to be
  resumed, or a failed navigation waits in the queue ahead of everything that needs it (`Attended`, `Repaired`). That the queue has
  the commit at most once and what concerns older documents before it (`InOrder`) makes taking an event preserve this.
  `EndedStays` is about the user: a stop, start or clear that meets no event changes the recording alone. All of it
  holds as long as no exception of the property has happened, and outside a start, which takes the old recording
  away in steps.
- `GuardIsSound`: `GuardSpec => []GuardSound`. The code keeps no queue of a tab's replays: each one awaits the promise that
  it found. The invariant asserts a line (`InLine`): places such that no two replays of a tab share one, that the one
  whose turn it is stands first and the one in `ngTurn` last, and that each waits for the one just
  before it. So the end of one gives the turn to exactly one other. Rules are read, given ids
  and added only by the head of the installations (`Installs`, `AddsFree`), removals wait for nobody, and
  a replay that runs is behind all of its rules (`Behind`), each rule being of the replay that has its id, or one
  left by a failure (`Owned`).
- `CaptureIsSound`: `NcSpec => []CaptureSound`. The running totals are changed by differences and the property is about
  sums, so the proof begins with what a sum over a finite set does when one summand changes, from the definition of the
  fold (`TotalUnfolds`, `TotalChanged`), and with what removing first records leaves (`RestShrinks`,
  `WithinBudgetsKept`). The invariant (`CaptureInvariant`) asks the budgets of three things, the sessions, the snapshot being written
  and the one stored (`GoodSessions`), because a restarted worker takes either back without enforcing anything; it credits a
  session that is not newer with the snapshot under way (`Creditable`); and it follows the navigations: a session bound
  to an older document has one to be told of, and after each that it will follow comes another that takes it
  to the document shown (`Follower`). While sessions are restored the same is said of what is stored (`Waits`), since the waiting navigations
  read their sessions only afterwards. With two tabs TLC never evicts a session at the limit of `MaxSessions`: only the theorem
  covers that (`EvictedOf`).

Only model-checked: everything temporal (`ExpiredGrantEnds`, `CancelledHandoffAnnounced`,
`EventuallyConnected`, `WaiterRuns`, `PauseEnds`, `ServicesRest`, `RecordersRest`), because TLAPS does
not reason about fairness and `ENABLED`. Every safety property that a passing run checks is stated by a theorem. What the recursive
functions of `IsolationProofs` and `ProxyRules` compute is proved, for the facts that are needed, by taking the
least counterexample; no theorem says that they are what a reference definition gives for every input.

## 6. Findings

| Run | Where | What |
| --- | --- | --- |
| `grant_orphan_capture` | `app/background/index.ts:313` | a capture start that read the grant before it ended registers its session afterwards and nothing stops it |
| `session_pause_lost` | `features/handoff/service.ts:290` | a late handoff completion overrides a pause |
| `deep_capture_stuck` | `features/deep-capture/service.ts:1205` | a start that arms an armed session stores `armed` over a pause, and the watchdog then ignores the stopped page |
| `recording_unhooked` | `features/page-callable/request-transaction.ts:645` | a replay that ends takes away the hook of a recorder that was started during it |

Other disagreements met while modelling. Each is a property of the named module, a
property without one of its exceptions, or a bound of a run, that TLC violates when it is tried; none is part of the runs above.

| Property or bound | Where | What |
| --- | --- | --- |
| `EndReleasesCaptures` without `kills = 0` | `features/grants/lifecycle.ts:154` | a worker terminated between the commit that ends a grant and its cleanup never releases the grant's capture |
| `LiveGrantHasAlarm` without `unreconciled` | `features/grants/lifecycle.ts:192` | after the browser fired the alarm early (or lost it with the worker) a rejected read of the state ends the reconciliation: the live grant has no alarm until the next one |
| `DisconnectFinal` with `MaxReads = 1` | `features/engine-bridge/service.ts:262` | a disconnect during `connect()`'s read of its configuration is undone |
| `NoSocketLeft` without `disowned` | `features/engine-bridge/service.ts:312` | the selected engine cannot be saved: the call is rejected and an error shown over the connection that works, and the next call opens another beside it |
| `EventuallyConnected` without `~launchTarget` | `features/engine-bridge/service.ts:307` | "waiting for the selected engine" with nothing that waits |
| `NotOvercommitted` with `Limits <- OneToTwo` | `features/browser-transform/concurrency.ts:34` | a lowered limit is ignored as long as there are waiters |
| `StoppedPageIsWatched` without the failing read in `unreported` | `features/deep-capture/service.ts:882` | the status cannot be read for `Debugger.paused`: the event is dropped, and the stopped page is neither stored nor watched nor released |
| `PauseEnds` without `[]PageWaitedFor` | `features/deep-capture/service.ts:1062` | after a failed resume the release waits for a script in the page it could not resume, so it neither detaches nor reports, and the watchdog is cleared |
| `StatusIsTrue` without the failing query in `unreported` | `features/deep-capture/service.ts:1024` | a detach that fails and then a failing query of the targets are stored as "detached" over a session that lives |
| `WaitsForHandoff` | `features/grants/capability-handlers/handoff.ts:68` | the agent waits for a handoff that is over |
| `HandoffBlocks` with `MaxKills = 1` | `features/grants/capability-handlers/handoff.ts:66` | a handoff waits while the agent goes on, after a worker termination |
| `CallerIsAnswered` without `bpCrossed` | `features/engine-bridge/service.ts:1114` | an approval that is stored after its attempt was overtaken closes the new attempt's socket and timer; its caller is never answered |
| `PairedKeyKept` without `bpHalf` | `features/engine-bridge/service.ts:1045` | `unpair` clears the key, then fails to store, or the worker is terminated in between: the browser stays paired without a key |
| `PendingIsCurrent` without `bpStale` | `features/engine-bridge/service.ts:972` | a call closes the socket of the pending request it overtakes and then gets no key from the identity database: the request stays shown as pending, without socket and timer |
| `WholeMessages` without `"chunks"` | `features/engine-bridge/service.ts:358` | a handshake fails after chunks have come, and the next connection replaces its socket before the close event, which is then ignored: the chunks stay and complete a message of the next connection |
| `ResultToAsker`, `OutgoingOnLiveLink` without `"requests"` | `features/engine-bridge/service.ts:573` | a late challenge that fails closes a working connection with status `error`; a call that connects before the close event takes its requests over: they are answered to the next connection, and nobody is told of the end |
| `ResultStandsAlone` without `"swallowed"` | `features/page-callable/request-transaction.ts:506` | an extra request whose body cannot be read is refused, the page goes on, and a later request is captured as the result; likewise when `capturedBody` throws (line 496) |
| `SlotsAccounted` without `"ids"` | `features/engine-bridge/service.ts:874` | an aborted request that is still being admitted deletes the slot of a later one with its id |
| `UpdatingIsUnderWay` without `uncaught` | `features/proxy/service.ts:464` | a failure to apply or to store an unchanged source is not caught, nor is that of the write which records a failure (line 518): the source stays `updating` |
| `AutoIsApplied` without `pruned` | `features/proxy/service.ts:515` | the clean-up of one update deletes a revision that another operation is about to use |
| `ClearedStaysCleared` without `auRaced` | `features/diagnostics/audit.ts:97` | a flush queued before a clear's removal stores the cleared events again |
| `StopSticks` without `brCrossed` | `features/browser-recording/service.ts:1245` | the handler of a navigation under way stores the recording as active over the user's stop |
| `StopSticks` without `brBack` (5 events) | `features/browser-recording/service.ts:965` | a document that was left with its recorder running is shown again: a status call takes the recording that the user ended for active, and it follows to further documents |
| `RecorderAttended` without `brBack` (7 events) | `features/browser-recording/service.ts:980` | the frame goes back to a document before earlier navigations were handled; a status call is answered from it, and the session is stored as recording where the page does not |
| `FollowsDocument` without `ncRaced` | `features/network-capture/service.ts:711` | a session starts bound to a document that its tab has left |
| `NoRuleLeft` without `ngLeft` | `features/page-callable/network-guard.ts:101` | a worker terminated during a replay leaves session rules that block every request of its tab; no start removes them |
| `ResultIsOwn` | `features/page-callable/request-transaction.ts:483` | a request of a replay that timed out is captured as the result of the next one |
| `EndReleasesCaptures` without `faults = 0` | `features/grants/lifecycle.ts:252` | a replacement whose write is rejected after it stored the session area never releases the captures of the grant that it replaced |
| `EnabledIsProven` without `trMixed` (6 calls) | `features/browser-transform/service.ts:698` | the result of a replay is stored for a binding captured after the replay began, which is then enabled unproven |
| `EnabledIsShown` without `trLate` | `features/browser-transform/service.ts:229` | a save or a confirmation whose checks came before a navigation stores an enabled binding after the navigation was handled; the next execution makes it stale |
| `IdentitiesClearable` without `ciLost` | `features/authorization-testing/firefox-container.ts:173` | of two operations under way the later write drops the other's entry from the list: that container can no longer be cleared by the extension |
| `IdentitiesClearable`, a refusal in `UndoesContainer` | `features/authorization-testing/firefox-container.ts:192` | when the tab of a new container does not open and its removal is refused too, the entry goes and the container stays |
| `OthersKeepOrder` when the rules are not stored in their order | `features/proxy/service.ts:601` | routing a site numbers the other rules as they are stored; saving a rule puts it last in the array, so its precedence is lost |
| `OthersKeepOrder` when two rules have one order | `features/proxy/service.ts:612` | clearing a site's route sorts by order alone, the compiler by order and id; a rule made after a deletion gets the order of another |
| `PreviewTellsPac` for rules whose value has a leading, a doubled or a trailing dot | `features/proxy/compiler.ts:74` | the compiler drops the empty labels, the preview compares with them |
| `SemaphoreUntilEdited` without `deleting'` in `EditNoted` | `features/browser-transform/service.ts:809` | a deletion unregisters the gate before its write; when that fails the profile goes on with a second gate beside the first |
| `ProfileInUse` without `half` | `features/proxy/service.ts:331` | the browser is set before the settings are stored: when that fails, the stored profile is not the one in use |
| a saved profile keeps its rules | `platform/storage/state.ts:140` | a profile in use by rules may be saved as a PAC script; normalisation then drops its rules and sources without a word, while its removal is refused |
| `PauseEndsActions` | `app/background/index.ts:401` | an action admitted during `agent.pause` goes on after it was acknowledged |


## 7. Assumptions and abstractions

- A storage call is atomic; a debounced flush stores one snapshot in one write.
- Storage that fails may have stored the session half of a state update (in `ProxySources` the local half), never a part of it.
- The cleanup memo's cap of 256 keys is left out: two grants cannot reach it.
- The access policy a pause checks never fails in `AgentSession`.
- `startAgentRuntime` and `endAgentRuntimeForGrant` have no callers and are left out.
- Addresses whose host has an empty label (`a.com.`) are left out of `ProxyRules`: the compiled script matches
  no host condition with them, also not the one that routing such a site makes.
- Contents (records, names, payloads, messages) are left out wherever no property reads them.

## 8. Plan

Done, in this order: `GrantLifecycle` and its proofs, `BridgeConnection`, `TransformGate` with
`FifoSemaphore` and its proofs, `AgentRuntime` with `WriteBehindStore`, `AgentSession`;
then `DeepCapture`, `UserAgentRules` and its proofs, `AuditLog`, `BridgePairing`, `BridgeRequests`,
`ProxySources`, `NetworkCapture`, `BrowserRecording`, `NetworkGuard`, `PageExecution`, `TransformRecovery`,
`ContainerIdentities`, `IsolationProofs`, `TestIdentities`, `ProxyRules`; then the proof modules `BridgeConnectionProofs`,
`DeepCaptureProofs`, `RecorderProofs`, `ServiceProofs` (with those of `AgentSession`), `BridgeServiceProofs`, and the remaining theorems of `GrantLifecycleProofs`,
`TransformGateProofs` and `AgentRuntimeProofs`. Seven of these proofs changed the models. That of `LogIsKept` did not go through where a
restore fails with the log full: the runs kept only one event then, and with two TLC showed events that `NoEventForgotten`
had no place for; the model now counts those a failed restore gave up as lost. And the limits of the gate turned
out to need that the limits its executions read are those the profile allows (`GateLimits`). That of
`SourcesAreKept` failed where a source is added while a refresh of the removed one goes on, which the model took for the same
source (`AnotherSource`), and showed that the alarm, which compares revisions to decide whether to apply, misses one that an edit took
away and the download brought back (`Returned`); the run needed a fourth operation to reach that. The search for the
invariant behind `RecordingSound` showed that `StopSticks` and `RecorderAttended` were false of runs of five and of
seven events, in which the frame goes back to a document; `brBack` now names those runs. And that of `IdentitiesAreSound` needed that
one proof alone fits in the stored table, which is now an assumption (`IsolationProofsConstants`), and showed that the model of the
browser named a next container also when it had none left. `CaptureIsSound` needed the budgets as sums and least numbers in place of a recursive
operator; writing them so showed that the model had one budget of all sessions where the code has two (`MaxAllBytes`), and that
nothing said that a restored worker keeps to the number of sessions, which `CaptureAccounted` now does. And `StoppedPagesAreWatched` needed the stops numbered in
the events, where the model had counted those still in the queue, and showed an unreported stop that takes two faults (section 5).
`RoutingIsSound` needed the rules as a set with positions, and orders as relations, in place of sorted and filtered sequences; the run
has the same states as before.

What a next step would add:

1. `StateStore`: two areas behind one mutation queue, with `getState`'s write of the installation id outside
   it, which the other modules would then use in place of their own failing update.
2. `AgentSession` with `GrantLifecycle` over the one handoff that both change, and `BridgeRequests` under
   `AgentSession` in place of its own requests.

Nothing is left to prove of the safety properties; everything temporal stays with TLC.

## 9. Not modelled

`PROJECT.json` lists each part with its reason. In short: parts without state between calls
(routers, schemas, browser wrappers, cookies), heuristics over recorded values (analysis,
inference, crypto recognition), code that
runs inside the page as wrappers of page functions, the React user interface, and packaging.
