--------------------------- MODULE TransformRecovery ---------------------------
(***************************************************************************)
(* One stored profile of the browser transform                             *)
(* (features/browser-transform/service.ts, recovery-plan.ts) whose         *)
(* pipeline calls one page function, and the recovery that binds it anew   *)
(* after its document is gone: a capture in the page as it is now, a       *)
(* replay that must succeed, and the user's confirmation.                  *)
(*                                                                         *)
(* Every change of the store is one step: mutateStore runs them one after  *)
(* the other, in the order in which they are asked for. What a call reads  *)
(* and learns between its changes may be out of date by the next one.      *)
(*                                                                         *)
(* The frame shows one document; others may come back from the             *)
(* back-forward cache. The store begins with what earlier calls have       *)
(* left: a profile of a document that no longer exists, with a function    *)
(* captured in the document shown.                                         *)
(* Pipelines, packets and routes are left out; the debugger session is     *)
(* what the recovery sees of it (DeepCapture has the rest), the gate of    *)
(* the executions is TransformGate's.                                      *)
(* Bounds: MaxAtOnce, MaxTrCalls, MaxDocument, MaxCallables, MaxTrEvents.  *)
(***************************************************************************)
EXTENDS Naturals, Sequences, FiniteSets

CONSTANTS
    MaxAtOnce,      \* how many calls of the UI and of the engine are under way at once
    NoProfile,
    MaxTrCalls,     \* how many calls, failing writes and terminations there are
    MaxDocument, MaxCallables,
    MaxTrEvents     \* how many of them are failing writes and terminations

ASSUME TransformRecoveryConstants ==
    /\ MaxAtOnce \in Nat /\ MaxTrCalls \in Nat /\ MaxTrEvents \in Nat
    /\ MaxDocument \in Nat \ {0} /\ MaxCallables \in Nat \ {0}

VARIABLES
    trProfile,      \* storage.local: the profile
    trDocument,     \* the document that the frame shows
    trHome,         \* the document in which each function lives that a capture retained
    trDebug,        \* the tab's debugger session, and the document that its status names
    trCommits,      \* committed navigations whose handler has not run
    trCalls,        \* the calls under way
    trMade,         \* how many calls were made
    trEvents,
    trProven,       \* history: the function of the save or of the passed replay that was stored
                    \* last, unless something that ends its use was stored since
    trMixed,        \* history: a replay's result was stored for a binding that it did not run
    trLate          \* history: a change was stored after the navigation that made it stale

trVars == <<trProfile, trDocument, trHome, trDebug, trCommits, trCalls, trMade, trEvents,
            trProven, trMixed, trLate>>

States == {"ready", "stale", "capturing", "validation-required", "confirmation-required", "failed"}
Functions == 1 .. MaxCallables
Documents == 1 .. MaxDocument

\* A function that is not retained yet, and one that was deleted.
NotYet == 0
Gone == MaxDocument + 1

NoBinding == [document |-> 0, callable |-> 0]
Bindings == [document : Documents, callable : Functions]

Profiles == [enabled : BOOLEAN, at : Bindings \cup {NoBinding}, state : States, desired : BOOLEAN,
             pending : Bindings \cup {NoBinding}, validation : Nat]

ASSUME TransformRecoveryNone == NoProfile \notin Profiles

CallKinds == {"save", "start", "capture", "validate", "confirm", "reset", "delete", "execute",
              "drop"}

CallSteps == {"target", "check", "invalidate", "read", "arm", "store", "retain", "discard", "replay",
              "passed", "stale", "failed"}

Calling == [kind : CallKinds, number : Nat, step : CallSteps,
            at : [document : 0 .. MaxDocument, callable : 0 .. MaxCallables],
            enabled : BOOLEAN, validation : Nat]

TrTypeOK ==
    /\ trProfile \in Profiles \cup {NoProfile}
    /\ trDocument \in Documents
    /\ trHome \in [Functions -> 0 .. Gone]
    /\ trDebug \in [state : {"none", "armed", "paused"}, document : 0 .. MaxDocument]
    /\ trCommits \in Seq(Documents)
    /\ trCalls \subseteq Calling
    /\ trMade \in 0 .. MaxTrCalls
    /\ trEvents \in 0 .. MaxTrEvents
    /\ trProven \subseteq Functions /\ trMixed \in BOOLEAN /\ trLate \in BOOLEAN

TrInit ==
    /\ trProfile = [enabled |-> FALSE, at |-> NoBinding, state |-> "validation-required", desired |-> TRUE,
                    pending |-> [document |-> 1, callable |-> 1], validation |-> 0]
    /\ trDocument = 1
    /\ trHome = [f \in Functions |-> IF f = 1 THEN 1 ELSE NotYet]
    /\ trDebug = [state |-> "none", document |-> 1]
    /\ trCommits = <<>>
    /\ trCalls = {}
    /\ trMade = 0
    /\ trEvents = 0 /\ trProven = {} /\ trMixed = FALSE /\ trLate = FALSE

-----------------------------------------------------------------------------
(* What a change makes of the profile *)

Stale(p) ==
    [p EXCEPT !.enabled = FALSE, !.state = "stale", !.pending = NoBinding, !.validation = 0,
              !.desired = IF p.state = "ready" THEN p.enabled ELSE @]

\* A navigation of the frame to document d makes stale what is bound to another one.
StaleIn(d) ==
    IF trProfile # NoProfile /\ trProfile.at.document # d THEN Stale(trProfile) ELSE trProfile

Capturing(p) ==
    [p EXCEPT !.enabled = FALSE, !.state = "capturing", !.pending = NoBinding, !.validation = 0]

CaptureFailed(p) ==
    [p EXCEPT !.enabled = FALSE, !.state = "failed", !.pending = NoBinding, !.validation = 0]

Captured(p, at) ==
    [p EXCEPT !.enabled = FALSE, !.state = "validation-required", !.pending = at, !.validation = 0]

Validated(p, id) ==
    [p EXCEPT !.enabled = FALSE, !.state = "confirmation-required", !.validation = id]

NotValidated(p) ==
    [p EXCEPT !.enabled = FALSE, !.state = "validation-required", !.validation = 0]

\* resetBrowserTransformRecovery keeps desiredEnabled.
GivenUp(p) ==
    [p EXCEPT !.enabled = FALSE, !.state = "stale", !.pending = NoBinding, !.validation = 0]

Bound(at, enabled) ==
    [enabled |-> enabled, at |-> at, state |-> "ready", desired |-> enabled,
     pending |-> NoBinding, validation |-> 0]

-----------------------------------------------------------------------------
(* Steps of calls *)

At(c, kind, step) == c.kind = kind /\ c.step = step
Becomes(c, next) == trCalls' = (trCalls \ {c}) \cup {next}
Goes(c, step) == Becomes(c, [c EXCEPT !.step = step])
Over(c) == trCalls' = trCalls \ {c}

\* A page at a breakpoint goes on: the capture, the watchdog, the user or a navigation.
Resumed == [trDebug EXCEPT !.state = IF @ = "paused" THEN "none" ELSE @]

Live == {f \in Functions : trHome[f] = trDocument}

History == UNCHANGED <<trProven, trMixed, trLate>>

\* mutateStore: a change that does not enable the profile; none, also when the write is
\* rejected.
Stored(p) ==
    /\ trProfile' = p
    /\ trProven' = IF p = trProfile \/ (p # NoProfile /\ p.enabled) THEN trProven ELSE {}
    /\ UNCHANGED <<trEvents, trMixed, trLate>>
Fault == trEvents < MaxTrEvents /\ trMade + trEvents < MaxTrCalls /\ trEvents' = trEvents + 1
Kept == UNCHANGED <<trProfile, trEvents>> /\ History
Rejected == Fault /\ UNCHANGED trProfile /\ History

\* A binding that the navigation handled last has made stale.
TooLate(at) == trCommits = <<>> /\ at.document # trDocument

Untouched == UNCHANGED <<trDocument, trHome, trDebug, trCommits, trMade>>
\* A call begins. It reads the profile, if it needs to; without one, or in a state that it
\* is not for, it has failed.
Begins ==
    /\ Cardinality(trCalls) < MaxAtOnce /\ trMade + trEvents < MaxTrCalls
    /\ trMade' = trMade + 1
    /\ UNCHANGED <<trProfile, trDocument, trHome, trDebug, trCommits, trEvents>> /\ History

Has(states) == trProfile # NoProfile /\ trProfile.state \in states

Calls(kind, at, enabled, validation) ==
    trCalls' = trCalls \cup {[kind |-> kind, number |-> trMade', step |-> "target",
                              at |-> at, enabled |-> enabled, validation |-> validation]}

BeginSave ==
    /\ Begins
    /\ \E f \in Live, enabled \in BOOLEAN :
         Calls("save", [document |-> trDocument, callable |-> f], enabled, 0)

\* What is ready and enabled needs no recovery.
NotNeeded(p) == p.state = "ready" /\ p.enabled

BeginStart == Begins /\ Has(States) /\ Calls("start", trProfile.at, NotNeeded(trProfile), 0)

BeginCapture == Begins /\ Has({"capturing"}) /\ Calls("capture", NoBinding, FALSE, 0)

BeginValidate ==
    /\ Begins /\ Has({"validation-required", "confirmation-required"})
    /\ trProfile.pending # NoBinding
    /\ Calls("validate", trProfile.pending, FALSE, 0)

\* The user confirms the validation that is stored, which may expire meanwhile.
BeginConfirm ==
    /\ Begins /\ Has({"confirmation-required"})
    /\ trProfile.pending # NoBinding
    /\ Calls("confirm", trProfile.pending, trProfile.desired, trProfile.validation)

BeginReset == Begins /\ Has(States) /\ Calls("reset", NoBinding, FALSE, 0)

BeginDelete == Begins /\ trProfile # NoProfile /\ Calls("delete", NoBinding, FALSE, 0)

BeginExecute ==
    /\ Begins /\ trProfile # NoProfile /\ trProfile.enabled
    /\ Calls("execute", trProfile.at, FALSE, 0)

BeginDrop ==
    /\ Begins
    /\ \E f \in Live : Calls("drop", [document |-> trDocument, callable |-> f], FALSE, 0)

-----------------------------------------------------------------------------
(* saveBrowserTransformProfile *)

\* The document is still the one named, and has the function.
SaveLooks(c) ==
    /\ At(c, "save", "target")
    /\ IF c.at.document = trDocument /\ c.at.callable \in Live
       THEN Goes(c, "store") ELSE Over(c)
    /\ Kept /\ Untouched

\* A stored profile is not bound to another document.
SaveStores(c) ==
    /\ At(c, "save", "store") /\ Over(c)
    /\ LET at == c.at
       IN  IF trProfile # NoProfile /\ trProfile.at.document # at.document
           THEN Kept
           ELSE \/ /\ trProfile' = Bound(at, c.enabled) /\ trProven' = {at.callable}
                   /\ trLate' = (trLate \/ TooLate(at))
                   /\ UNCHANGED <<trEvents, trMixed>>
                \/ Rejected
    /\ Untouched

-----------------------------------------------------------------------------
(* startBrowserTransformRecovery *)

StartLooks(c) ==
    /\ At(c, "start", "target")
    /\ Becomes(c, [c EXCEPT !.at = [document |-> trDocument, callable |-> 0],
            !.step = IF c.at.document = trDocument THEN "check" ELSE "invalidate"])
    /\ Kept /\ Untouched

\* The profile is made stale for the document found, then read again.
StartInvalidates(c) ==
    /\ At(c, "start", "invalidate")
    /\ \/ Stored(StaleIn(c.at.document)) /\ Goes(c, "read")
       \/ Rejected /\ Over(c)
    /\ Untouched

StartReads(c) ==
    /\ At(c, "start", "read")
    /\ IF trProfile = NoProfile THEN Over(c)
       ELSE Becomes(c, [c EXCEPT !.enabled = NotNeeded(trProfile), !.step = "check"])
    /\ Kept /\ Untouched

StartStores(c) ==
    /\ At(c, "start", "check")
    /\ IF c.enabled \/ trProfile = NoProfile
       THEN Over(c) /\ Kept
       ELSE \/ Stored(Capturing(trProfile)) /\ Goes(c, "arm")
            \/ Rejected /\ Over(c)
    /\ Untouched

\* startDeepCapture, which refuses a document that is gone and a debugger in use.
StartArms(c) ==
    /\ At(c, "start", "arm")
    /\ \/ /\ c.at.document = trDocument /\ trDebug.state # "paused"
          /\ trDebug' = [state |-> "armed", document |-> trDocument]
          /\ Over(c)
       \/ Goes(c, "failed") /\ UNCHANGED trDebug
    /\ UNCHANGED <<trProfile, trEvents, trDocument, trHome, trCommits, trMade>> /\ History

StartFails(c) ==
    /\ At(c, "start", "failed") /\ Over(c)
    /\ \/ Stored(IF trProfile = NoProfile THEN NoProfile ELSE [trProfile EXCEPT !.state = "failed"])
       \/ Rejected
    /\ Untouched

-----------------------------------------------------------------------------
(* captureBrowserTransformRecovery *)

\* The page stands at a breakpoint; its status names the document of the session's start.
CaptureLooks(c) ==
    /\ At(c, "capture", "target")
    /\ IF trDebug.state = "paused"
       THEN Becomes(c, [c EXCEPT !.at.document = trDebug.document, !.step = "retain"])
       ELSE Over(c)
    /\ Kept /\ Untouched

\* createCapturedPageCallable: the function is retained where the page has stopped, and the
\* page is resumed; without a stop, or when one of the two fails, the recovery has failed.
CaptureRetains(c) ==
    /\ At(c, "capture", "retain")
    /\ \/ /\ trDebug.state = "paused"
          /\ \E f \in Functions :
               /\ trHome[f] = NotYet /\ \A g \in 1 .. f - 1 : trHome[g] # NotYet
               /\ trHome' = [trHome EXCEPT ![f] = trDocument]
               /\ Becomes(c, [c EXCEPT !.at.callable = f, !.step = "store"])
          /\ trDebug' = [trDebug EXCEPT !.state = "none"]
       \/ /\ Goes(c, "failed")
          /\ trDebug' = Resumed
          /\ UNCHANGED trHome
    /\ UNCHANGED <<trProfile, trEvents, trDocument, trCommits, trMade>> /\ History

\* The new function must fit the old pipeline.
CaptureStores(c) ==
    /\ At(c, "capture", "store")
    /\ \/ /\ trProfile # NoProfile /\ Stored(Captured(trProfile, c.at)) /\ Over(c)
       \/ Goes(c, "discard") /\ Kept
       \/ Rejected /\ Goes(c, "discard")
    /\ Untouched

\* deletePageCallable, in the document that the status named: a failure is swallowed.
CaptureDiscards(c) ==
    /\ At(c, "capture", "discard") /\ Goes(c, "failed")
    /\ \/ c.at.document = trDocument /\ trHome' = [trHome EXCEPT ![c.at.callable] = Gone]
       \/ c.at.document # trDocument /\ UNCHANGED trHome
    /\ UNCHANGED <<trProfile, trEvents, trDocument, trDebug, trCommits, trMade>> /\ History

CaptureFails(c) ==
    /\ At(c, "capture", "failed") /\ Over(c)
    /\ \/ Stored(IF trProfile = NoProfile THEN NoProfile ELSE CaptureFailed(trProfile))
       \/ Rejected
    /\ Untouched

-----------------------------------------------------------------------------
(* validateBrowserTransformRecovery *)

\* The frame must show the document of the capture, or what is bound elsewhere is stale.
TargetMatches(c) == c.at.document = trDocument

ValidateLooks(c) ==
    /\ At(c, "validate", "target")
    /\ IF TargetMatches(c) THEN Goes(c, "replay")
       ELSE Becomes(c, [c EXCEPT !.at.document = trDocument, !.step = "invalidate"])
    /\ Kept /\ Untouched

Invalidates(c) ==
    /\ c.kind \in {"validate", "confirm"} /\ c.step = "invalidate" /\ Over(c)
    /\ \/ Stored(StaleIn(c.at.document))
       \/ Rejected
    /\ Untouched

\* validateBrowserTransformProfile runs the pending function in the document that it names.
ValidateReplays(c) ==
    /\ At(c, "validate", "replay")
    /\ \/ /\ TargetMatches(c) /\ c.at.callable \in Live
          /\ Goes(c, "passed")
       \/ Goes(c, "failed")
    /\ Kept /\ Untouched

\* The result goes to whatever recovery the profile has by now.
ValidateStores(c) ==
    /\ At(c, "validate", "passed")
    /\ IF trProfile = NoProfile
       THEN Goes(c, "failed") /\ Kept
       ELSE \/ /\ trProfile' = Validated(trProfile, c.number) /\ trProven' = {c.at.callable} /\ Over(c)
               /\ trMixed' = (trMixed \/ trProfile.pending # c.at)
               /\ UNCHANGED <<trEvents, trLate>>
            \/ Rejected /\ Goes(c, "failed")
    /\ Untouched

ValidateFails(c) ==
    /\ At(c, "validate", "failed") /\ Over(c)
    /\ IF trProfile = NoProfile
       THEN Kept
       ELSE \/ /\ trProfile' = NotValidated(trProfile) /\ trProven' = {}
               /\ trMixed' = (trMixed \/ trProfile.pending # c.at)
               /\ UNCHANGED <<trEvents, trLate>>
            \/ Rejected
    /\ Untouched

-----------------------------------------------------------------------------
(* confirmBrowserTransformRecovery *)

ConfirmLooks(c) ==
    /\ At(c, "confirm", "target")
    /\ IF TargetMatches(c)
       THEN IF c.at.callable \in Live THEN Goes(c, "store") ELSE Over(c)
       ELSE Becomes(c, [c EXCEPT !.at.document = trDocument, !.step = "invalidate"])
    /\ Kept /\ Untouched

\* MUTANT of StillValidated: that the profile had a validation is enough.
StillValidatedOnce(c) == TRUE

\* The validation confirmed is still the one that counts.
StillValidated(c) ==
    trProfile.state = "confirmation-required" /\ trProfile.validation = c.validation

ConfirmStores(c) ==
    /\ At(c, "confirm", "store") /\ Over(c)
    /\ IF trProfile = NoProfile \/ ~StillValidated(c)
       THEN Kept
       ELSE \/ /\ trProfile' = Bound(c.at, c.enabled)
               /\ trLate' = (trLate \/ TooLate(c.at))
               /\ UNCHANGED <<trEvents, trProven, trMixed>>
            \/ Rejected
    /\ Untouched

-----------------------------------------------------------------------------
(* resetBrowserTransformRecovery, deleteBrowserTransformProfile *)

\* detachDeepCapture, whose failure is swallowed.
ResetDetaches(c) ==
    /\ At(c, "reset", "target") /\ Goes(c, "store")
    /\ trDebug' \in {trDebug, [trDebug EXCEPT !.state = "none"]}
    /\ UNCHANGED <<trProfile, trEvents, trDocument, trHome, trCommits, trMade>> /\ History

ResetStores(c) ==
    /\ At(c, "reset", "store") /\ Over(c)
    /\ \/ Stored(IF trProfile = NoProfile THEN NoProfile ELSE GivenUp(trProfile))
       \/ Rejected
    /\ Untouched

DeleteStores(c) ==
    /\ At(c, "delete", "target") /\ Over(c)
    /\ \/ Stored(NoProfile)
       \/ Rejected
    /\ Untouched

-----------------------------------------------------------------------------
(* executeBrowserTransform *)

\* In a document that the profile is not bound to, the profile is made stale.
ExecuteLooks(c) ==
    /\ At(c, "execute", "target")
    /\ IF TargetMatches(c) THEN Over(c) ELSE Goes(c, "stale")
    /\ Kept /\ Untouched

ExecuteStales(c) ==
    /\ At(c, "execute", "stale") /\ Over(c)
    /\ \/ Stored(IF trProfile = NoProfile THEN NoProfile ELSE Stale(trProfile))
       \/ Rejected
    /\ Untouched

-----------------------------------------------------------------------------
(* callable.delete: the function, then what is bound to it *)

DropDeletes(c) ==
    /\ At(c, "drop", "target")
    /\ IF TargetMatches(c)
       THEN trHome' = [trHome EXCEPT ![c.at.callable] = Gone] /\ Goes(c, "store")
       ELSE Over(c) /\ UNCHANGED trHome
    /\ UNCHANGED <<trProfile, trEvents, trDocument, trDebug, trCommits, trMade>> /\ History

DropStores(c) ==
    /\ At(c, "drop", "store") /\ Over(c)
    /\ \/ Stored(IF trProfile # NoProfile /\ trProfile.at = c.at THEN Stale(trProfile) ELSE trProfile)
       \/ Rejected
    /\ Untouched

-----------------------------------------------------------------------------
(* The browser *)

\* The frame shows another document, the next one or one of the back-forward cache.
Navigates ==
    /\ trCommits = <<>>
    /\ \E d \in Documents \ {trDocument} :
         /\ d <= trDocument + 1
         /\ trDocument' = d /\ trCommits' = <<d>>
    /\ trDebug' = Resumed
    /\ UNCHANGED <<trProfile, trHome, trCalls, trMade, trEvents>> /\ History

\* The page reaches the breakpoint, and goes on.
StopsOrResumes ==
    /\ trDebug' \in {[trDebug EXCEPT !.state = IF @ = "armed" THEN "paused" ELSE @], Resumed} \ {trDebug}
    /\ UNCHANGED <<trProfile, trDocument, trHome, trCommits, trCalls, trMade, trEvents>> /\ History

\* webNavigation.onCommitted: a failure is only reported.
HandleCommit ==
    /\ trCommits # <<>> /\ trCommits' = Tail(trCommits)
    /\ \/ Stored(StaleIn(Head(trCommits)))
       \/ /\ Fault
          /\ trLate' = TRUE /\ UNCHANGED <<trProfile, trProven, trMixed>>
    /\ UNCHANGED <<trDocument, trHome, trDebug, trCalls, trMade>>

\* The worker is terminated with its calls and the events it has not handled.
TrKill ==
    /\ Fault
    /\ trCalls' = {}
    /\ trCommits' = <<>>
    /\ trLate' = (trLate \/ trCommits # <<>>)
    /\ UNCHANGED <<trProfile, trDocument, trHome, trDebug, trMade, trProven, trMixed>>

-----------------------------------------------------------------------------
TrWorks ==
    \/ HandleCommit
    \/ \E c \in trCalls :
         \/ SaveLooks(c) \/ SaveStores(c)
         \/ StartLooks(c) \/ StartInvalidates(c) \/ StartReads(c) \/ StartStores(c) \/ StartArms(c) \/ StartFails(c)
         \/ CaptureLooks(c) \/ CaptureRetains(c) \/ CaptureStores(c) \/ CaptureDiscards(c) \/ CaptureFails(c)
         \/ ValidateLooks(c) \/ Invalidates(c) \/ ValidateReplays(c) \/ ValidateStores(c) \/ ValidateFails(c)
         \/ ConfirmLooks(c) \/ ConfirmStores(c)
         \/ ResetDetaches(c) \/ ResetStores(c) \/ DeleteStores(c)
         \/ ExecuteLooks(c) \/ ExecuteStales(c) \/ DropDeletes(c) \/ DropStores(c)

TrSteps ==
    \/ TrWorks \/ Navigates \/ StopsOrResumes \/ TrKill
    \/ BeginSave \/ BeginStart \/ BeginCapture \/ BeginValidate \/ BeginConfirm
    \/ BeginReset \/ BeginDelete \/ BeginExecute \/ BeginDrop

TrSpec == TrInit /\ [][TrSteps]_trVars

-----------------------------------------------------------------------------
(* Properties *)

\* What is enabled calls the function that was saved, or the one whose replay the user
\* confirmed; a confirmation that comes late undoes nothing that was stored since that replay:
\* no cancellation, navigation, new capture or failed replay.
EnabledIsProven ==
    (trProfile # NoProfile /\ trProfile.enabled /\ ~trMixed) => trProfile.at.callable \in trProven

\* A function that an enabled profile calls lives in the document that the profile names,
\* unless it was deleted.
EnabledIsHome ==
    (trProfile # NoProfile /\ trProfile.enabled) => trHome[trProfile.at.callable] \in {Gone, trProfile.at.document}

\* An enabled profile names the document shown, once the navigation to it is handled.
EnabledIsShown ==
    (trProfile # NoProfile /\ trProfile.enabled /\ trCommits = <<>> /\ ~trLate)
        => trProfile.at.document = trDocument

\* Whoever is asked to replay or to confirm finds what was captured.
RecoveryIsWhole ==
    (trProfile # NoProfile /\ ~trMixed) =>
        /\ trProfile.state \in {"validation-required", "confirmation-required"} => trProfile.pending # NoBinding
        /\ trProfile.state = "confirmation-required" => trProfile.validation # 0
        /\ trProfile.enabled => trProfile.state \in {"ready", "failed"}

\* What is checked of the recovery: every variable has its type, and the four above.
TransformSound ==
    TrTypeOK /\ EnabledIsProven /\ EnabledIsHome /\ EnabledIsShown /\ RecoveryIsWhole
=============================================================================
