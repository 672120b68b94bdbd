----------------------------- MODULE NetworkGuard -----------------------------
(***************************************************************************)
(* Replays of page functions behind network rules of the browser           *)
(* (features/page-callable/network-guard.ts and its three users). While a  *)
(* replay runs, a session rule blocks every request of its tab, and others *)
(* let its declared prerequisites through.                                 *)
(*                                                                         *)
(* An "execute" (page-callable/service.ts) and a "capture" (deep-capture)  *)
(* wait for their turn in the tab. A "prepare" (browser-analysis) does     *)
(* not: it makes the page stop at a breakpoint and then waits for a        *)
(* capture of its own, which waits for its turn behind executions that the *)
(* stopped page does not answer. Only the watchdog of deep capture (module *)
(* DeepCapture) breaks that circle; here it is the action Watchdog.        *)
(*                                                                         *)
(* What a page sends once its replay is drained belongs to nobody here.    *)
(* Which requests were reported as blocked decides a replay's answer, not  *)
(* its rules, and is left out. Removing rules does not use ruleQueue.      *)
(* Bounds: each replay runs once; MaxNgEvents.                             *)
(***************************************************************************)
EXTENDS Naturals, FiniteSets, Sequences

CONSTANTS
    Replays, GuardedTabs, NoReplay,
    RuleLimit,      \* the ids RULE_BASE .. RULE_LIMIT - 1
    MaxNgEvents     \* failing calls of the browser, terminations and the user's breakpoints

ASSUME NetworkGuardConstants ==
    /\ NoReplay \notin Replays /\ GuardedTabs # {} /\ RuleLimit \in Nat \ {0}
    /\ MaxNgEvents \in Nat

VARIABLES
    ngReplay,       \* each replay: what it is and where it stands
    ngTurn,         \* queues: the last replay of each tab
    ngInstalls,     \* ruleQueue: replays whose rules are to be installed
    ngRules,        \* the session rules of the browser
    ngStopped,      \* tabs whose page the debugger has stopped
    ngLeft,         \* history: why rules may be left
    ngEvents

ngVars == <<ngReplay, ngTurn, ngInstalls, ngRules, ngStopped, ngLeft, ngEvents>>

RuleIds == 1 .. RuleLimit
NgRule == [id : RuleIds, tab : GuardedTabs, action : {"block", "allow"}, by : Replays]
Guarding == {"running", "inner", "removing"}

NgTypeOK ==
    /\ \A r \in Replays :
         ngReplay[r] \in [kind : {"none", "execute", "capture", "prepare"}, tab : GuardedTabs,
            asks : BOOLEAN, after : Replays \cup {NoReplay},
            stage : {"none", "turn", "install", "adding", "over"} \cup Guarding,
            ids : SUBSET RuleIds]
    /\ ngTurn \in [GuardedTabs -> Replays \cup {NoReplay}]
    /\ ngInstalls \in Seq(Replays)
    /\ ngRules \subseteq NgRule /\ ngStopped \subseteq GuardedTabs
    /\ \A rule, other \in ngRules : rule.id = other.id => rule = other
    /\ ngLeft \subseteq {"killed", "failed"} /\ ngEvents \in 0 .. MaxNgEvents

\* A replay that has not begun, or nothing but the end of one.
Unused(stage) ==
    [kind |-> "none", tab |-> CHOOSE tab \in GuardedTabs : TRUE, asks |-> FALSE,
     after |-> NoReplay, stage |-> stage, ids |-> {}]

GuardInit ==
    /\ ngReplay = [r \in Replays |-> Unused("none")]
    /\ ngTurn = [tab \in GuardedTabs |-> NoReplay]
    /\ ngInstalls = <<>> /\ ngRules = {} /\ ngStopped = {} /\ ngLeft = {} /\ ngEvents = 0

Stage(r) == ngReplay[r].stage
Begun == {r \in Replays : Stage(r) \notin {"none", "over"}}

NgEvent == ngEvents < MaxNgEvents /\ ngEvents' = ngEvents + 1

Goes(r, stage) == ngReplay' = [ngReplay EXCEPT ![r].stage = stage]

-----------------------------------------------------------------------------
(* The turn in the tab: serializeTabExecution *)

\* What begins waits behind the last replay of its tab.
Queued(r, kind, tab, asks) ==
    [kind |-> kind, tab |-> tab, asks |-> asks, after |-> ngTurn[tab], stage |-> "turn", ids |-> {}]

Execute(r) ==
    /\ Stage(r) = "none"
    /\ \E tab \in GuardedTabs, asks \in BOOLEAN :
         /\ ngReplay' = [ngReplay EXCEPT ![r] = Queued(r, "execute", tab, asks)]
         /\ ngTurn' = [ngTurn EXCEPT ![tab] = r]
    /\ UNCHANGED <<ngInstalls, ngRules, ngStopped, ngLeft, ngEvents>>

\* The user captures a function of a page that a breakpoint of theirs has stopped.
CaptureStopped(r) ==
    /\ Stage(r) = "none"
    /\ \E tab \in ngStopped :
         /\ ngReplay' = [ngReplay EXCEPT ![r] = Queued(r, "capture", tab, FALSE)]
         /\ ngTurn' = [ngTurn EXCEPT ![tab] = r]
    /\ UNCHANGED <<ngInstalls, ngRules, ngStopped, ngLeft, ngEvents>>

\* preparingTabs admits one preparation to a tab, and none during a debugger session.
Prepare(r) ==
    /\ Stage(r) = "none"
    /\ \E tab \in GuardedTabs \ ngStopped, asks \in BOOLEAN :
         /\ \A other \in Begun : ngReplay[other].tab = tab => ngReplay[other].kind # "prepare"
         /\ ngReplay' = [ngReplay EXCEPT ![r].kind = "prepare", ![r].tab = tab, ![r].asks = asks,
                                         ![r].stage = "install"]
    /\ ngInstalls' = Append(ngInstalls, r)
    /\ UNCHANGED <<ngTurn, ngRules, ngStopped, ngLeft, ngEvents>>

\* The map forgets the tab when its last replay ends.
Ends(r) ==
    /\ ngReplay' = [ngReplay EXCEPT ![r] = Unused("over")]
    /\ ngTurn' = IF ngTurn[ngReplay[r].tab] = r THEN [ngTurn EXCEPT ![ngReplay[r].tab] = NoReplay] ELSE ngTurn

IsTurn(r) == Stage(r) = "turn" /\ (ngReplay[r].after # NoReplay => Stage(ngReplay[r].after) = "over")

TakeTurn(r) ==
    /\ IsTurn(r)
    /\ Goes(r, "install") /\ ngInstalls' = Append(ngInstalls, r)
    /\ UNCHANGED <<ngTurn, ngRules, ngStopped, ngLeft, ngEvents>>

\* An execution whose document or function is gone ends at its turn.
TurnFails(r) ==
    /\ IsTurn(r) /\ ngReplay[r].kind = "execute"
    /\ Ends(r)
    /\ UNCHANGED <<ngInstalls, ngRules, ngStopped, ngLeft, ngEvents>>

-----------------------------------------------------------------------------
(* Rules: installRules *)

\* MUTANT of InstallTurn: the rules are read while another's are being added.
InstallAnytime(r) == TRUE

InstallTurn(r) == Head(ngInstalls) = r

Free == RuleIds \ {rule.id : rule \in ngRules}

\* The lowest ids that no rule of the browser has.
Allocated(n) == {id \in Free : Cardinality({lower \in Free : lower < id}) < n}

Needed(r) == IF ngReplay[r].asks THEN 2 ELSE 1

\* The installation at the head of the queue is over.
Dequeued == Tail(ngInstalls)

\* getSessionRules, and what to add; too many rules are an error.
ReadRules(r) ==
    /\ Stage(r) = "install" /\ InstallTurn(r)
    /\ IF Cardinality(Free) >= Needed(r)
       THEN /\ ngReplay' = [ngReplay EXCEPT ![r].stage = "adding", ![r].ids = Allocated(Needed(r))]
            /\ UNCHANGED <<ngTurn, ngInstalls>>
       ELSE Ends(r) /\ ngInstalls' = Dequeued
    /\ UNCHANGED <<ngRules, ngStopped, ngLeft, ngEvents>>

\* The rule that blocks has the first id.
RulesOf(r) ==
    {[id |-> id, tab |-> ngReplay[r].tab, by |-> r,
      action |-> IF \A other \in ngReplay[r].ids : id <= other THEN "block" ELSE "allow"] : id \in ngReplay[r].ids}

\* updateSessionRules adds all of them or none; then the page function is called.
AddRules(r) ==
    /\ Stage(r) = "adding" /\ ngInstalls' = Dequeued
    /\ \/ /\ ngRules' = ngRules \cup RulesOf(r) /\ Goes(r, "running")
          /\ UNCHANGED <<ngTurn, ngEvents>>
       \/ NgEvent /\ Ends(r) /\ UNCHANGED ngRules
    /\ UNCHANGED <<ngStopped, ngLeft>>

-----------------------------------------------------------------------------
(* The replay *)

\* The page function returns or throws and the page is drained: by a page that runs.
Returns(r) ==
    /\ Stage(r) = "running" /\ ngReplay[r].kind = "execute"
    /\ ngReplay[r].tab \notin ngStopped
    /\ Goes(r, "removing")
    /\ UNCHANGED <<ngTurn, ngInstalls, ngRules, ngStopped, ngLeft, ngEvents>>

\* captureAndResume: whether the function was captured or not, the page is resumed.
CaptureAndResume(r) ==
    /\ Stage(r) = "running" /\ ngReplay[r].kind = "capture"
    /\ ngStopped' = ngStopped \ {ngReplay[r].tab}
    /\ Goes(r, "removing")
    /\ UNCHANGED <<ngTurn, ngInstalls, ngRules, ngLeft, ngEvents>>

\* The triggered operation stops the page and a capture of it begins: with the turn of
\* the tab, which the preparation awaits.
Triggered(r, capture) ==
    /\ Stage(r) = "running" /\ ngReplay[r].kind = "prepare"
    /\ Stage(capture) = "none" /\ ngReplay[r].tab \notin ngStopped
    /\ LET tab == ngReplay[r].tab
       IN  /\ ngStopped' = ngStopped \cup {tab}
           /\ ngReplay' = [ngReplay EXCEPT ![r].stage = "inner", ![r].after = capture,
                                           ![capture] = Queued(capture, "capture", tab, FALSE)]
           /\ ngTurn' = [ngTurn EXCEPT ![tab] = capture]
    /\ UNCHANGED <<ngInstalls, ngRules, ngLeft, ngEvents>>

\* The operation reaches no breakpoint in time, or a frame is captured without a replay.
NothingTriggered(r) ==
    /\ Stage(r) = "running" /\ ngReplay[r].kind = "prepare"
    /\ ngReplay[r].tab \notin ngStopped
    /\ Goes(r, "removing")
    /\ UNCHANGED <<ngTurn, ngInstalls, ngRules, ngStopped, ngLeft, ngEvents>>

\* The capture has ended; the debugger is detached, which resumes the page.
InnerOver(r) ==
    /\ Stage(r) = "inner" /\ Stage(ngReplay[r].after) = "over"
    /\ ngStopped' = ngStopped \ {ngReplay[r].tab}
    /\ Goes(r, "removing")
    /\ UNCHANGED <<ngTurn, ngInstalls, ngRules, ngLeft, ngEvents>>

RemoveRules(r) ==
    /\ Stage(r) = "removing"
    /\ \/ ngRules' = {rule \in ngRules : rule.id \notin ngReplay[r].ids} /\ UNCHANGED <<ngLeft, ngEvents>>
       \/ NgEvent /\ ngLeft' = ngLeft \cup {"failed"} /\ UNCHANGED ngRules
    /\ Ends(r)
    /\ UNCHANGED <<ngInstalls, ngStopped>>

-----------------------------------------------------------------------------
(* The user's breakpoints, the watchdog, terminations *)

BreakpointHit ==
    /\ NgEvent
    /\ \E tab \in GuardedTabs \ ngStopped : ngStopped' = ngStopped \cup {tab}
    /\ UNCHANGED <<ngReplay, ngTurn, ngInstalls, ngRules, ngLeft>>

\* The watchdog of deep capture resumes a page that has been stopped for too long.
Watchdog ==
    /\ \E tab \in ngStopped : ngStopped' = ngStopped \ {tab}
    /\ UNCHANGED <<ngReplay, ngTurn, ngInstalls, ngRules, ngLeft, ngEvents>>

\* The worker is terminated; session rules outlive it.
NgKill ==
    /\ NgEvent
    /\ ngReplay' = [r \in Replays |->
         IF r \in Begun THEN Unused("over") ELSE ngReplay[r]]
    /\ ngTurn' = [tab \in GuardedTabs |-> NoReplay] /\ ngInstalls' = <<>>
    /\ ngLeft' = ngLeft \cup {"killed"}
    /\ UNCHANGED <<ngRules, ngStopped>>

GuardWorks ==
    \/ \E r \in Replays :
         \/ TakeTurn(r) \/ ReadRules(r) \/ AddRules(r) \/ Returns(r) \/ CaptureAndResume(r)
         \/ NothingTriggered(r) \/ InnerOver(r) \/ RemoveRules(r)
    \/ Watchdog

GuardSteps ==
    \/ GuardWorks \/ BreakpointHit \/ NgKill
    \/ \E r \in Replays :
         \/ Execute(r) \/ CaptureStopped(r) \/ Prepare(r) \/ TurnFails(r)
         \/ \E capture \in Replays \ {r} : Triggered(r, capture)

GuardSpec == GuardInit /\ [][GuardSteps]_ngVars

-----------------------------------------------------------------------------
(* Properties *)

\* Replays that wait for their turn run one at a time in a tab.
OneAtATime ==
    \A r, other \in {replay \in Begun : ngReplay[replay].kind # "prepare" /\ Stage(replay) # "turn"} :
        ngReplay[r].tab = ngReplay[other].tab => r = other

\* Whatever else is installed and removed, in this tab or another, a replay is behind its
\* own rules as long as it runs.
GuardedWhileRunning == \A r \in Replays : Stage(r) \in {"running", "inner"} => RulesOf(r) \subseteq ngRules

\* Every rule in the browser is of a replay under way, unless removing it failed or the
\* worker died.
NoRuleLeft ==
    \A rule \in ngRules : Stage(rule.by) \in Guarding \/ ngLeft # {}

\* What holds of the guards at any time.
GuardSound == NgTypeOK /\ OneAtATime /\ GuardedWhileRunning /\ NoRuleLeft

\* Again and again no replay is under way, and no tab is stopped for one.
GuardsOver == Begun = {} /\ ngStopped = {}
=============================================================================
