---------------------------- MODULE MCDeepCapture ----------------------------
EXTENDS DeepCapture

\* What follows once every property is excused for good is not looked at.
NotExcused == ~Excused

\* A page that stops under the debugger is resumed when no control surface keeps it
\* stopped, or the status says that it may still be stopped; this is the 45-second
\* watchdog of handleDebuggerEvent as the architecture describes it. A release that
\* waits for the stopped page is another matter.
WatchdogResumes ==
    page = "paused" ~> \/ page = "running"
                       \/ stored # NoStatus /\ stored.page = "possibly-paused"
                       \/ []PageWaitedFor
=============================================================================
