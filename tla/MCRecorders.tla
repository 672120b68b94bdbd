------------------------------ MODULE MCRecorders ------------------------------
(***************************************************************************)
(* The services that record what a page does or replay it, and the         *)
(* requests of the engine, which share no state: the initial state chooses *)
(* the one that the behaviour exercises.                                   *)
(***************************************************************************)
EXTENDS NetworkCapture, BrowserRecording, NetworkGuard, PageExecution, BridgeRequests

VARIABLE service

all == <<service, ncVars, brVars, ngVars, peVars, rqVars>>

RecordersInit ==
    /\ service \in {"capture", "recording", "guard", "page", "requests"}
    /\ NcInit /\ BrInit /\ GuardInit /\ PeInit /\ RequestsInit

CaptureOnly   == service = "capture" /\ UNCHANGED <<service, brVars, ngVars, peVars, rqVars>>
RecordingOnly == service = "recording" /\ UNCHANGED <<service, ncVars, ngVars, peVars, rqVars>>
GuardOnly     == service = "guard" /\ UNCHANGED <<service, ncVars, brVars, peVars, rqVars>>
PageOnly      == service = "page" /\ UNCHANGED <<service, ncVars, brVars, ngVars, rqVars>>
RequestsOnly  == service = "requests" /\ UNCHANGED <<service, ncVars, brVars, ngVars, peVars>>

RecordersNext ==
    \/ CaptureOnly /\ NcSteps
    \/ RecordingOnly /\ BrSteps
    \/ GuardOnly /\ GuardSteps
    \/ PageOnly /\ PageSteps
    \/ RequestsOnly /\ RequestsSteps

\* What goes on without a caller or the user.
RecordersWork ==
    \/ CaptureOnly /\ NcWorks
    \/ RecordingOnly /\ (BrWorks \/ EndNavigation)
    \/ GuardOnly /\ GuardWorks
    \/ PageOnly /\ PageWorks
    \/ RequestsOnly /\ RequestsWork

RecordersSpec == RecordersInit /\ [][RecordersNext]_all /\ WF_all(RecordersWork)

\* Each comes to rest: what was captured is stored or its failure reported, a recording
\* goes on in the document that the tab shows, and every replay ends, those that wait for
\* a page that the debugger has stopped for one that waits for them included, those
\* that run in the page, and every request of the engine and message in parts.
RecordersRest == []<>(CaptureCaughtUp /\ RecordingGoesOn /\ GuardsOver /\ PageOver /\ RequestsOver)

\* A recording whose worker and page came to differ is not followed further.
RecordingFollowed == ~brCrossed /\ ~brLost
=============================================================================
