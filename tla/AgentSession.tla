---------------------------- MODULE AgentSession ----------------------------
(***************************************************************************)
(* The agent of the paired engine at work: its capability requests         *)
(* (onMessage in features/engine-bridge/service.ts), the session timeline  *)
(* and the runtime state that admits them (features/agent-runtime), the    *)
(* human handoff (features/handoff, its capability handler) and the user's *)
(* pause and resume (app/background/index.ts).                             *)
(*                                                                         *)
(* mutate is one step here, and an immediate one is acknowledged when a    *)
(* flush has stored it: AgentRuntime shows that it may be taken so. Every  *)
(* request runs with the one access grant of the paired browser instance,  *)
(* so the runtime has a grant once it is not idle.                         *)
(*                                                                         *)
(* Bounds: each request arrives at most once, MaxHandoffs handoffs,        *)
(* MaxUi operations of the user and MaxKills terminations of the worker.   *)
(***************************************************************************)
EXTENDS Naturals, FiniteSets

CONSTANTS
    Requests,       \* requests of the engine
    Kinds,          \* what they may ask for
    UiOps,          \* what the user may do
    MaxInFlight,    \* MAX_CONCURRENT_REQUESTS
    MaxHandoffs, MaxUi, MaxKills

ASSUME SessionConstants ==
    /\ IsFiniteSet(Requests)
    \* any agent-visible capability, browser.handoff.request, browser.handoff.resolve
    /\ Kinds \subseteq {"act", "ask", "resolve"}
    /\ UiOps \subseteq {"pause", "resume", "complete", "cancel", "clear"}
    /\ MaxInFlight \in Nat \ {0}
    /\ {MaxHandoffs, MaxUi, MaxKills} \subseteq Nat

VARIABLES
    runtime,    \* runtimeCache
    disk,       \* the runtime in storage.session
    handoff,    \* handoff of the state store, its number as id
    kind,       \* what each request asks for
    req,        \* where its answer stands
    op,         \* where its operation stands; it goes on when the answer is cancelled
    known,      \* the handoff that it names
    inFlight,   \* keys of inFlight
    aborted,    \* requests whose AbortController is aborted
    ui,         \* the user's operation under way
    held,       \* history: a pause was acknowledged and nothing lifts it; "crossed"
                \* when a completion of a handoff set, or was still to set,
                \* the state since the pause did ("overtaken" before its ack)
    uis, kills

requestVars == <<kind, req, op, known, inFlight, aborted>>
boundVars   == <<uis, kills>>
vars == <<runtime, disk, handoff, requestVars, ui, held, boundVars>>

RuntimeStates == {"idle", "running", "paused", "waiting_for_human"}
ActionStates  == {"none", "running", "ended"}
Runtime == [state : RuntimeStates, actions : [Requests -> ActionStates]]

NoUi == [op |-> "none", stage |-> "none", known |-> 0]

TypeOK ==
    /\ runtime \in Runtime /\ disk \in Runtime
    /\ handoff \in [id : 0 .. MaxHandoffs,
                    state : {"idle", "waiting_for_user", "completed", "cancelled"}]
    /\ kind \in [Requests -> {"act", "ask", "resolve"}]
    /\ req \in [Requests -> {"new", "entering", "open", "closed", "past"}]
    /\ op \in [Requests -> {"none", "run", "stored", "completed", "cancelled", "applied", "over"}]
    /\ known \in [Requests -> 0 .. MaxHandoffs]
    /\ inFlight \subseteq Requests /\ aborted \subseteq Requests
    /\ ui \in [op : UiOps \cup {"none"},
               stage : {"none", "access", "stopping", "apply", "applied"},
               known : 0 .. MaxHandoffs]
    /\ held \in {"no", "overtaken", "yes", "crossed"}
    /\ uis \in 0 .. MaxUi /\ kills \in 0 .. MaxKills

EmptyRuntime == [state |-> "idle", actions |-> [r \in Requests |-> "none"]]

Init ==
    /\ runtime = EmptyRuntime /\ disk = EmptyRuntime
    /\ handoff = [id |-> 0, state |-> "idle"]
    /\ kind \in [Requests -> Kinds]
    /\ req = [r \in Requests |-> "new"]
    /\ op = [r \in Requests |-> "none"]
    /\ known = [r \in Requests |-> 0]
    /\ inFlight = {} /\ aborted = {}
    /\ ui = NoUi
    /\ held = "no"
    /\ uis = 0 /\ kills = 0

-----------------------------------------------------------------------------
(* Pieces of the runtime *)

\* setAgentRuntimeState
SetState(s) == runtime' = [runtime EXCEPT !.state = s]

\* finishAgentAction, with whatever result.
Finish(r) ==
    runtime' = [runtime EXCEPT !.actions[r] = IF @ = "running" THEN "ended" ELSE @]

\* The flush of a debounced or an immediate mutation.
Flush ==
    /\ disk # runtime
    /\ disk' = runtime
    /\ UNCHANGED <<runtime, handoff, requestVars, ui, held, boundVars>>

-----------------------------------------------------------------------------
(* Requests *)

\* onMessage registers a request, unless too many are in flight: server_busy.
Receive(r) ==
    /\ req[r] = "new"
    /\ known' = [known EXCEPT ![r] = IF kind[r] = "resolve" THEN handoff.id ELSE 0]
    /\ IF Cardinality(inFlight) < MaxInFlight
         THEN /\ req' = [req EXCEPT ![r] = "entering"]
              /\ inFlight' = inFlight \cup {r}
         ELSE /\ req' = [req EXCEPT ![r] = "closed"]
              /\ UNCHANGED inFlight
    /\ UNCHANGED <<runtime, disk, handoff, kind, op, aborted, ui, held, boundVars>>

\* A cancel message of the engine.
Cancel(r) ==
    /\ r \in inFlight
    /\ r \notin aborted
    /\ aborted' = aborted \cup {r}
    /\ UNCHANGED <<runtime, disk, handoff, kind, req, op, known, inFlight, ui, held, boundVars>>

\* abortInFlight
Abort == aborted' = aborted \cup inFlight /\ inFlight' = {}

\* The connection is lost.
Disconnect ==
    /\ inFlight # {}
    /\ Abort
    /\ UNCHANGED <<runtime, disk, handoff, kind, req, op, known, ui, held, boundVars>>

Blocked == runtime.state \in {"paused", "waiting_for_human"}

\* The answer is given or cancelled; the end of the request's try block.
Close(r) ==
    /\ req' = [req EXCEPT ![r] = "closed"]
    /\ inFlight' = inFlight \ {r}

\* beginAgentAction throws agent_paused,
Deny(r) ==
    /\ req[r] = "entering"
    /\ kind[r] # "resolve"
    /\ Blocked
    /\ Close(r)
    /\ UNCHANGED <<runtime, disk, handoff, kind, op, known, aborted, ui, held, boundVars>>

\* or admits the action; the operation starts even when its answer is aborted.
Begin(r) ==
    /\ req[r] = "entering"
    /\ kind[r] # "resolve"
    /\ ~Blocked
    /\ runtime' = [state |-> "running", actions |-> [runtime.actions EXCEPT ![r] = "running"]]
    /\ req' = [req EXCEPT ![r] = "open"]
    /\ op' = [op EXCEPT ![r] = "run"]
    /\ UNCHANGED <<disk, handoff, kind, known, inFlight, aborted, ui, held, boundVars>>

\* A capability that is not visible to the agent makes no action.
BeginUnseen(r) ==
    /\ req[r] = "entering"
    /\ kind[r] = "resolve"
    /\ req' = [req EXCEPT ![r] = "open"]
    /\ op' = [op EXCEPT ![r] = "run"]
    /\ UNCHANGED <<runtime, disk, handoff, kind, known, inFlight, aborted, ui, held, boundVars>>

\* Mutant: a cancelled request leaves its action as it is.
CancelledSilently(r) ==
    /\ req[r] = "open"
    /\ r \in aborted
    /\ Close(r)
    /\ UNCHANGED <<runtime, disk, handoff, kind, op, known, aborted, ui, held, boundVars>>

\* The abort wins the race against the operation.
Cancelled(r) ==
    /\ req[r] = "open"
    /\ r \in aborted
    /\ Close(r)
    /\ Finish(r)
    /\ UNCHANGED <<disk, handoff, kind, op, known, aborted, ui, held, boundVars>>

\* The operation ends; it answers, unless its request was cancelled.
Answer(r) ==
    /\ op' = [op EXCEPT ![r] = "over"]
    /\ IF req[r] = "open" /\ r \notin aborted
         THEN Close(r) /\ Finish(r)
         ELSE UNCHANGED <<req, inFlight, runtime>>

Work(r) ==
    /\ kind[r] = "act"
    /\ op[r] = "run"
    /\ Answer(r)
    /\ UNCHANGED <<disk, handoff, kind, known, aborted, ui, held, boundVars>>

-----------------------------------------------------------------------------
(* Handoffs *)

Waiting == handoff.state = "waiting_for_user"

\* browser.handoff.request: handoff_in_progress,
AskRefused(r) ==
    /\ kind[r] = "ask"
    /\ op[r] = "run"
    /\ Waiting
    /\ Answer(r)
    /\ UNCHANGED <<disk, handoff, kind, known, aborted, ui, held, boundVars>>

\* or a new handoff; badges and the runtime state come after it.
Ask(r) ==
    /\ kind[r] = "ask"
    /\ op[r] = "run"
    /\ ~Waiting
    /\ handoff.id < MaxHandoffs
    /\ handoff' = [id |-> handoff.id + 1, state |-> "waiting_for_user"]
    /\ op' = [op EXCEPT ![r] = "stored"]
    /\ UNCHANGED <<runtime, disk, kind, req, known, inFlight, aborted, ui, held, boundVars>>

AskApply(r) ==
    /\ kind[r] = "ask"
    /\ op[r] = "stored"
    /\ SetState("waiting_for_human")
    /\ op' = [op EXCEPT ![r] = "applied"]
    /\ UNCHANGED <<disk, handoff, kind, req, known, inFlight, aborted, ui, held, boundVars>>

\* Mutant: a handoff is resolved whatever its state.
ResolvesAny(id, outcome) ==
    /\ handoff.id = id
    /\ id # 0
    /\ handoff' = [handoff EXCEPT !.state = outcome]

\* resolveHandoff: the update of the store.
Resolves(id, outcome) ==
    /\ handoff.id = id
    /\ Waiting
    /\ handoff' = [handoff EXCEPT !.state = outcome]

\* Mutant: the runtime gets the handoff's state.
StateOfHandoff(outcome) == outcome

\* The state that the runtime gets by the outcome.
StateAfter(outcome) == IF outcome = "completed" THEN "running" ELSE "paused"

\* browser.handoff.resolve, of the operator at the engine's side,
EngineResolve(r) ==
    /\ kind[r] = "resolve"
    /\ op[r] = "run"
    /\ \E outcome \in {"completed", "cancelled"} :
         /\ Resolves(known[r], outcome)
         /\ op' = [op EXCEPT ![r] = outcome]
         /\ held' = IF outcome = "completed" THEN "no" ELSE held
    /\ UNCHANGED <<runtime, disk, kind, req, known, inFlight, aborted, ui, boundVars>>

\* or names one that is over: handoff_not_waiting.
EngineResolveRefused(r) ==
    /\ kind[r] = "resolve"
    /\ op[r] = "run"
    /\ ~(Waiting /\ handoff.id = known[r])
    /\ Answer(r)
    /\ UNCHANGED <<disk, handoff, kind, known, aborted, ui, held, boundVars>>

EngineApply(r) ==
    /\ kind[r] = "resolve"
    /\ op[r] \in {"completed", "cancelled"}
    /\ SetState(StateAfter(op[r]))
    /\ op' = [op EXCEPT ![r] = "applied"]
    /\ held' = IF op[r] = "completed" /\ ui.op = "pause" /\ ui.stage = "applied"
                  THEN "overtaken" ELSE held
    /\ UNCHANGED <<disk, handoff, kind, req, known, inFlight, aborted, ui, boundVars>>

\* The runtime is stored, and the operation ends.
OperationStored(r) ==
    /\ op[r] = "applied"
    /\ disk' = runtime
    /\ Answer(r)
    /\ UNCHANGED <<handoff, kind, known, aborted, ui, held, boundVars>>

-----------------------------------------------------------------------------
(* The user *)

\* A message of the extension's own pages, one at a time. To resume, or to
\* complete a handoff, lifts a pause.
UiStart(o) ==
    /\ ui = NoUi
    /\ uis < MaxUi
    /\ uis' = uis + 1
    /\ o \in {"complete", "cancel"} => Waiting
    /\ ui' = [op |-> o, stage |-> "access", known |-> IF o \in {"complete", "cancel"} THEN handoff.id ELSE 0]
    /\ held' = IF o \in {"resume", "complete"} THEN "no" ELSE held
    /\ UNCHANGED <<runtime, disk, handoff, requestVars, kills>>

UiGoto(s) == ui' = [ui EXCEPT !.stage = s]

\* agent.pause: requests are cancelled first, then tasks are stopped.
PauseCancels ==
    /\ ui.op = "pause" /\ ui.stage = "access"
    /\ Abort
    /\ UiGoto("stopping")
    /\ UNCHANGED <<runtime, disk, handoff, kind, req, op, known, held, boundVars>>

\* stopPairedBrowserTasks is done.
PauseStopped ==
    /\ ui.op = "pause" /\ ui.stage = "stopping"
    /\ UiGoto("apply")
    /\ UNCHANGED <<runtime, disk, handoff, requestVars, held, boundVars>>

\* agent.resume and agent.actions.clear await nothing else.
UiReady ==
    /\ ui.op \in {"resume", "clear"} /\ ui.stage = "access"
    /\ UiGoto("apply")
    /\ UNCHANGED <<runtime, disk, handoff, requestVars, held, boundVars>>

OutcomeOf(o) == IF o = "complete" THEN "completed" ELSE "cancelled"

\* handoff.resolve: the update of the store, or its refusal.
UiResolves ==
    /\ ui.op \in {"complete", "cancel"} /\ ui.stage = "access"
    /\ Resolves(ui.known, OutcomeOf(ui.op))
    /\ UiGoto("apply")
    /\ UNCHANGED <<runtime, disk, requestVars, held, boundVars>>

UiResolveRefused ==
    /\ ui.op \in {"complete", "cancel"} /\ ui.stage = "access"
    /\ ~(Waiting /\ handoff.id = ui.known)
    /\ ui' = NoUi
    /\ UNCHANGED <<runtime, disk, handoff, requestVars, held, boundVars>>

\* The mutation of each operation,
UiApply ==
    /\ ui.stage = "apply"
    /\ CASE ui.op = "pause" -> SetState("paused")
         [] ui.op = "resume" -> SetState("running")
         [] ui.op \in {"complete", "cancel"} -> SetState(StateAfter(OutcomeOf(ui.op)))
         [] ui.op = "clear" ->
              runtime' = [runtime EXCEPT !.actions = [r \in Requests |-> "none"]]
    /\ UiGoto("applied")
    /\ UNCHANGED <<disk, handoff, requestVars, held, boundVars>>

\* The acknowledgement of a pause, as the user understands it.
HoldIfPause ==
    held' = CASE ui.op # "pause" -> held
              [] held = "overtaken" \/ \E r \in Requests : op[r] = "completed" -> "crossed"
              [] OTHER -> "yes"

\* Mutant: the acknowledgement does not wait for the flush.
UiAckEarly ==
    /\ ui.stage = "applied"
    /\ HoldIfPause
    /\ ui' = NoUi
    /\ UNCHANGED <<runtime, disk, handoff, requestVars, boundVars>>

\* and its acknowledgement, when it is stored.
UiAck ==
    /\ ui.stage = "applied"
    /\ disk' = runtime
    /\ HoldIfPause
    /\ ui' = NoUi
    /\ UNCHANGED <<runtime, handoff, requestVars, boundVars>>

\* The browser terminates the worker: what the store and storage.session have
\* remains, and the operations under way are gone.
Kill ==
    /\ kills < MaxKills
    /\ kills' = kills + 1
    /\ runtime' = disk
    /\ req' = [r \in Requests |-> IF req[r] = "new" THEN "new" ELSE "past"]
    /\ op' = [r \in Requests |-> IF req[r] = "new" THEN "none" ELSE "over"]
    /\ inFlight' = {} /\ aborted' = {}
    /\ ui' = NoUi
    /\ held' = IF held = "overtaken" THEN "no" ELSE held
    /\ UNCHANGED <<disk, handoff, kind, known, uis>>

Next ==
    \/ Flush \/ Disconnect \/ Kill
    \/ \E r \in Requests :
         \/ Receive(r) \/ Cancel(r) \/ Deny(r) \/ Begin(r) \/ BeginUnseen(r)
         \/ Cancelled(r) \/ Work(r)
         \/ AskRefused(r) \/ Ask(r) \/ AskApply(r)
         \/ EngineResolve(r) \/ EngineResolveRefused(r) \/ EngineApply(r)
         \/ OperationStored(r)
    \/ \E o \in UiOps : UiStart(o)
    \/ PauseCancels \/ PauseStopped \/ UiReady \/ UiResolves \/ UiResolveRefused
    \/ UiApply \/ UiAck

Spec == Init /\ [][Next]_vars

-----------------------------------------------------------------------------
(* Properties *)

\* Once a pause is acknowledged the agent cannot begin an action until the user
\* lifts the pause, also when the worker restarts, unless a completion of a
\* handoff was under way when the pause set the state.
PauseHolds == held = "yes" => Blocked

\* The user can pause at any time (README.md:173): an acknowledged pause holds
\* whatever was under way.
PauseNeverLost == held \in {"yes", "crossed"} => Blocked

\* An action that the timeline shows as running has a request that will end it,
\* unless it is of a worker that died.
TimelineTrue ==
    \A r \in Requests : runtime.actions[r] = "running" => req[r] \in {"open", "past"}

\* Every variable of the session has its type, and its timeline is true.
TimelineSound == TypeOK /\ TimelineTrue

\* A handoff is resolved once: its outcome is never replaced.
OutcomeFinal ==
    [][handoff.state \in {"completed", "cancelled"}
         => handoff' = handoff \/ handoff'.id > handoff.id]_vars

Busy == ui # NoUi \/ \E r \in Requests : op[r] \notin {"none", "over"}

\* The agent waits for the human only while there is a handoff to answer.
WaitsForHandoff == ~Busy /\ runtime.state = "waiting_for_human" => Waiting

\* While a handoff waits for the user the agent does not go on by itself.
HandoffBlocks == ~Busy /\ Waiting => Blocked

\* After the acknowledgement of a pause every action under way is cancelled.
PauseEndsActions ==
    held \in {"yes", "crossed"} => \A r \in Requests : req[r] = "open" => r \in aborted \/ kind[r] = "resolve"
=============================================================================
