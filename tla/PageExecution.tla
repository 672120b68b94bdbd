---------------------------- MODULE PageExecution -----------------------------
(***************************************************************************)
(* Page functions replayed inside the page                                 *)
(* (features/page-callable/request-transaction.ts), next to the recorder   *)
(* of the same document, which hooks the same functions                    *)
(* (entrypoints/page-recorder-main-world.ts).                              *)
(*                                                                         *)
(* Replays run one at a time (executionQueue). A "transaction" lets the    *)
(* page send its declared prerequisites in their order, refuses anything   *)
(* else and takes the final request as its result instead of sending it;   *)
(* a "plain" call may send nothing. What a replay's page code does goes on *)
(* after the replay has failed or timed out: promises are not cancelled.   *)
(*                                                                         *)
(* window.fetch stands for every function that both hook. Its value is the *)
(* chain of hooks, the outermost last; each hook keeps the chain that it   *)
(* found. Bodies are read asynchronously before a request is looked at.    *)
(* Whether a body has the declared format is a choice. Two replays never   *)
(* have the same input. DOM rollback and dialogs are left out.             *)
(* What the hook of an ended replay still holds is refused: its signal is  *)
(* aborted and nobody reads its outcome.                                   *)
(* Bounds: each replay runs once, MaxPeEvents.                             *)
(***************************************************************************)
EXTENDS Naturals, Bags, SequencesExt

CONSTANTS
    Invocations, NoInvocation, RecorderHook,
    Prerequisites,  \* how many declared prerequisites a transaction has
    MaxPeEvents     \* requests of page code and commands of the recorder in all

ASSUME PageExecutionConstants ==
    /\ NoInvocation \notin Invocations /\ RecorderHook \notin Invocations
    /\ Prerequisites \in Nat /\ MaxPeEvents \in Nat

VARIABLES
    peCall,         \* the replays
    peQueue,        \* executionQueue, the running replay first
    peFetch,        \* window.fetch
    peRecorder,     \* the recorder of the document
    peRequests,     \* what page code has sent through the hook of a replay: a bag
    peEvents,
    peCrossed       \* history: a recorder command came during a replay

peVars == <<peCall, peQueue, peFetch, peRecorder, peRequests, peEvents, peCrossed>>

Runs(c) == peCall[c].stage \in {"running", "settling"}
SomethingRuns == \E c \in Invocations : Runs(c)

Chains == Seq(Invocations \cup {RecorderHook})

PageReplays ==
    [kind : {"none", "transaction", "plain"},
     stage : {"none", "queued", "running", "settling", "over"},
     index : 0 .. Prerequisites, inFlight : BOOLEAN, sent : Nat,
     captured : Invocations \cup {NoInvocation}, failed : BOOLEAN,
     consumed : BOOLEAN,    \* the new input was seen to enter a conversion
     extra : {"none", "swallowed", "seen"},    \* history: another request than the captured one
                            \* was refused without a failure, or looked at
     answer : {"none", "value", "error"},
     before : Chains, recording : BOOLEAN]
PageRecorders ==
    [active : BOOLEAN, before : Chains, wrapped : Chains, crypto : BOOLEAN,
     timer : {"off", "own", "tracked"}]
PageRequests ==
    [by : Invocations, hook : Invocations, kind : {"prerequisite", "target", "other"},
     stage : {"reading", "sent"}]

PeTypeOK ==
    /\ peCall \in [Invocations -> PageReplays]
    /\ peQueue \in Seq(Invocations) /\ IsInjective(peQueue)
    /\ peFetch \in Chains /\ peRecorder \in PageRecorders
    /\ IsABag(peRequests) /\ BagToSet(peRequests) \subseteq PageRequests
    /\ \A r \in BagToSet(peRequests) : Runs(r.hook)
    /\ peEvents \in 0 .. MaxPeEvents /\ peCrossed \in BOOLEAN

NotBegun ==
    [kind |-> "none", stage |-> "none", index |-> 0, inFlight |-> FALSE, sent |-> 0,
     captured |-> NoInvocation, failed |-> FALSE, consumed |-> FALSE, extra |-> "none",
     answer |-> "none", before |-> <<>>, recording |-> FALSE]

PeInit ==
    /\ peCall = [c \in Invocations |-> NotBegun]
    /\ peQueue = <<>> /\ peFetch = <<>>
    /\ peRecorder = [active |-> FALSE, before |-> <<>>, wrapped |-> <<>>, crypto |-> FALSE, timer |-> "off"]
    /\ peRequests = EmptyBag /\ peEvents = 0 /\ peCrossed = FALSE

PageEvent == peEvents < MaxPeEvents /\ peEvents' = peEvents + 1

-----------------------------------------------------------------------------
(* A replay begins: serializePageExecution *)

Invoke(c) ==
    /\ peCall[c].stage = "none"
    /\ \E kind \in {"transaction", "plain"} :
         peCall' = [peCall EXCEPT ![c].kind = kind, ![c].stage = "queued"]
    /\ peQueue' = Append(peQueue, c)
    /\ UNCHANGED <<peFetch, peRecorder, peRequests, peEvents, peCrossed>>

\* It hooks the page; a transaction also makes the recorder's crypto hooks report inputs.
BeginReplay(c) ==
    /\ peCall[c].stage = "queued" /\ Head(peQueue) = c
    /\ peCall' = [peCall EXCEPT ![c].stage = "running", ![c].before = peFetch,
                                ![c].recording = peRecorder.active]
    /\ peFetch' = Append(peFetch, c)
    /\ peRecorder' = [peRecorder EXCEPT !.crypto = @ \/ peCall[c].kind = "transaction"]
    /\ UNCHANGED <<peQueue, peRequests, peEvents, peCrossed>>

-----------------------------------------------------------------------------
(* A replay ends: the finally blocks *)

\* The chain that the replay found is put back; timers set during the replay are cancelled,
\* the recorder's own among them.
ReplayEnds(c, answer) ==
    /\ peCall' = [peCall EXCEPT ![c].stage = "over", ![c].answer = answer, ![c].failed = FALSE,
                       ![c].consumed = FALSE, ![c].inFlight = FALSE, ![c].before = <<>>,
                       ![c].recording = FALSE]
    /\ peRequests' = EmptyBag
    /\ peFetch' = peCall[c].before
    /\ peRecorder' = [peRecorder EXCEPT
         !.crypto = @ /\ (peCall[c].kind = "transaction" => peCall[c].recording),
         !.timer = IF @ = "tracked" THEN "off" ELSE @]
    /\ peQueue' = Tail(peQueue)

\* The page function throws, its promise is rejected, or an input has no place in the page.
Throws(c) ==
    /\ Runs(c)
    /\ ReplayEnds(c, "error")
    /\ UNCHANGED <<peEvents, peCrossed>>

\* The race of capture, failure and timer is over.
Wakes(c) ==
    /\ peCall[c].kind = "transaction" /\ peCall[c].stage = "running"
    /\ IF peCall[c].failed \/ peCall[c].captured = NoInvocation
       THEN ReplayEnds(c, "error")    \* the failure, or the timer's
       ELSE /\ peCall' = [peCall EXCEPT ![c].stage = "settling"]
            /\ UNCHANGED <<peFetch, peRecorder, peQueue, peRequests>>
    /\ UNCHANGED <<peEvents, peCrossed>>

\* One turn of the event loop later: the result is what was captured, in the declared
\* format with the declared fields, and nothing else was sent meanwhile.
Settles(c) ==
    /\ peCall[c].stage = "settling"
    /\ \E answer \in {"value", "error"} :
         /\ peCall[c].failed => answer = "error"
         /\ ReplayEnds(c, answer)
    /\ UNCHANGED <<peEvents, peCrossed>>

\* A plain call returns, or its promise is settled or timed out: with an attempt to send
\* it is an error.
PlainReturns(c) ==
    /\ peCall[c].kind = "plain" /\ peCall[c].stage = "running"
    /\ \E answer \in {"value", "error"} :
         /\ peCall[c].extra = "seen" => answer = "error"
         /\ ReplayEnds(c, answer)
    /\ UNCHANGED <<peEvents, peCrossed>>

-----------------------------------------------------------------------------
(* Page code *)

\* A hooked crypto function reports an input: it counts for the replay that has it.
Converts(c) ==
    /\ peCall[c].kind = "transaction" /\ Runs(c) /\ peRecorder.crypto
    /\ peCall' = [peCall EXCEPT ![c].consumed = TRUE]
    /\ UNCHANGED <<peQueue, peFetch, peRecorder, peRequests, peEvents, peCrossed>>

\* The outermost hook of a replay in the chain.
HookOf(chain) ==
    {chain[i] : i \in {j \in DOMAIN chain : \A k \in j .. Len(chain) : chain[k] = RecorderHook <=> k > j}}

\* Page code that a replay has begun sends a request: hooks of the recorder pass it on, the
\* hook of a plain call refuses it.
Sends(c) ==
    /\ peCall[c].stage \notin {"none", "queued"} /\ PageEvent
    /\ \E hook \in HookOf(peFetch), kind \in {"prerequisite", "target", "other"} :
         IF peCall[hook].kind = "plain"
         THEN peCall' = [peCall EXCEPT ![hook].extra = "seen"] /\ UNCHANGED peRequests
         ELSE /\ peRequests' = peRequests (+) SetToBag({[by |-> c, hook |-> hook, kind |-> kind,
                                                        stage |-> "reading"]})
              /\ UNCHANGED peCall
    /\ UNCHANGED <<peQueue, peFetch, peRecorder, peCrossed>>

-----------------------------------------------------------------------------
(* Requests in the hook of a transaction: their bodies have been read *)

Left(r) == peRequests' = peRequests (-) SetToBag({r})

\* The request is the prerequisite that is due, and the only one under way.
Declared(r) == ~peCall[r.hook].inFlight /\ r.kind = "prerequisite"

\* fail() aborts the signal of the transaction and wakes it.
Failed(c) == [peCall EXCEPT ![c].failed = TRUE]

\* transactionFetch with a prerequisite due: it is sent, unless the signal is aborted or
\* its body is not as declared.
TakePrerequisite(r) ==
    /\ r.stage = "reading" /\ peCall[r.hook].index < Prerequisites
    /\ \/ /\ Declared(r) /\ ~peCall[r.hook].failed
          /\ peCall' = [peCall EXCEPT ![r.hook].inFlight = TRUE, ![r.hook].sent = @ + 1]
          /\ peRequests' = peRequests (-) SetToBag({r}) (+) SetToBag({[r EXCEPT !.stage = "sent"]})
       \/ peCall' = Failed(r.hook) /\ Left(r)
    /\ UNCHANGED <<peQueue, peFetch, peRecorder, peEvents, peCrossed>>

\* The response is the recorded one, or the transaction fails.
Answered(r) ==
    /\ r.stage = "sent" /\ Left(r)
    /\ \/ /\ ~peCall[r.hook].failed
          /\ peCall' = [peCall EXCEPT ![r.hook].index = @ + 1, ![r.hook].inFlight = FALSE]
       \/ peCall' = [Failed(r.hook) EXCEPT ![r.hook].inFlight = FALSE]
    /\ UNCHANGED <<peQueue, peFetch, peRecorder, peEvents, peCrossed>>

\* capture(): nothing captured, nothing failed, no prerequisite under way, the declared
\* request, and the new input was used; its body may be what shows that.
MayCapture(r) ==
    LET call == peCall[r.hook]
    IN  /\ call.captured = NoInvocation /\ ~call.failed /\ ~call.inFlight
        /\ r.kind = "target"
        /\ call.consumed \/ r.by = r.hook

TakeTarget(r) ==
    /\ r.stage = "reading" /\ peCall[r.hook].index = Prerequisites /\ Left(r)
    /\ \/ MayCapture(r) /\ peCall' = [peCall EXCEPT ![r.hook].captured = r.by]
       \/ peCall' = [Failed(r.hook) EXCEPT ![r.hook].extra = "seen"]
    /\ UNCHANGED <<peQueue, peFetch, peRecorder, peEvents, peCrossed>>

\* The body cannot be read, or capture() cannot parse it: the request is refused without a
\* fail(), and the transaction goes on.
Swallows(r) ==
    /\ r.stage = "reading" /\ Left(r)
    /\ peCall' = [peCall EXCEPT ![r.hook].extra = IF @ = "seen" THEN "seen" ELSE "swallowed"]
    /\ UNCHANGED <<peQueue, peFetch, peRecorder, peEvents, peCrossed>>

-----------------------------------------------------------------------------
(* The recorder *)

Command == PageEvent /\ peCrossed' = (peCrossed \/ SomethingRuns)

\* MUTANT of Unwrapped: what the wrapper was put over is put back in any case.
UnwrappedAlways == IF peRecorder.active THEN peRecorder.before ELSE peFetch

\* Its wrapper is taken away only where it is still the outermost hook.
Unwrapped == IF peRecorder.active /\ peFetch = peRecorder.wrapped THEN peRecorder.before ELSE peFetch

\* "start" stops what runs; its timer is one that a replay's end cancels.
StartRecorder ==
    /\ Command
    /\ peFetch' = Append(Unwrapped, RecorderHook)
    /\ peRecorder' = [active |-> TRUE, before |-> Unwrapped, wrapped |-> Append(Unwrapped, RecorderHook),
                      crypto |-> TRUE, timer |-> IF SomethingRuns THEN "tracked" ELSE "own"]
    /\ UNCHANGED <<peCall, peQueue, peRequests>>

\* "stop", "clear", the recording's expiry and the end of an armed capture.
StopRecorder ==
    /\ Command
    /\ peFetch' = Unwrapped
    /\ peRecorder' = [active |-> FALSE, before |-> <<>>, wrapped |-> <<>>, crypto |-> FALSE, timer |-> "off"]
    /\ UNCHANGED <<peCall, peQueue, peRequests>>

-----------------------------------------------------------------------------
PageWorks ==
    \/ \E c \in Invocations : BeginReplay(c) \/ Wakes(c) \/ Settles(c) \/ PlainReturns(c)
    \/ \E r \in BagToSet(peRequests) : TakePrerequisite(r) \/ Answered(r) \/ TakeTarget(r) \/ Swallows(r)

PageSteps ==
    \/ PageWorks \/ StartRecorder \/ StopRecorder
    \/ \E c \in Invocations : Invoke(c) \/ Throws(c) \/ Converts(c) \/ Sends(c)

PageSpec == PeInit /\ [][PageSteps]_peVars

-----------------------------------------------------------------------------
(* Properties *)

\* While a replay runs, what the page sends passes its hook and no other replay's,
\* whatever the recorder is told meanwhile.
ReplayIsHooked ==
    \A c \in Invocations :
        \/ Runs(c) /\ c \in ToSet(peFetch)
        \/ ~Runs(c) /\ c \notin ToSet(peFetch)

\* The page sends each prerequisite at most once for a transaction, and a result is given
\* only after all of them were answered.
PrerequisitesInOrder ==
    \A c \in Invocations :
        /\ peCall[c].sent \in {peCall[c].index, peCall[c].index + 1} /\ peCall[c].sent <= Prerequisites
        /\ (peCall[c].kind = "transaction" /\ peCall[c].answer = "value") =>
                peCall[c].index = Prerequisites /\ peCall[c].sent = Prerequisites

\* A result is the only request that the replay made besides its prerequisites, except for
\* those whose bodies could not be read or parsed: they are refused and forgotten.
ResultStandsAlone ==
    \A c \in Invocations : peCall[c].answer = "value" =>
        /\ peCall[c].extra \in {"none", "swallowed"}
        /\ peCall[c].kind = "transaction" => peCall[c].captured # NoInvocation

\* Between replays the page has its own functions or the recorder's over them, its crypto
\* hooks and its timer with it, unless the recorder was commanded during a replay.
RecorderIsHooked ==
    (~SomethingRuns /\ ~peCrossed) =>
        /\ peFetch = IF peRecorder.active THEN <<RecorderHook>> ELSE <<>>
        /\ peRecorder.crypto = peRecorder.active
        /\ peRecorder.timer = IF peRecorder.active THEN "own" ELSE "off"

\* What holds of the replays in a page at any time.
ReplaySound ==
    PeTypeOK /\ ReplayIsHooked /\ PrerequisitesInOrder /\ ResultStandsAlone /\ RecorderIsHooked

\* A recording that goes on sees what the page sends (ARCHITECTURE.md: "recording continues
\* until explicit stop, expiry, clear, or tab close").
RecordingContinues == peRecorder.active => RecorderHook \in ToSet(peFetch)

\* A result comes from the page code of its own replay.
ResultIsOwn == \A c \in Invocations : peCall[c].answer = "value" => peCall[c].captured \in {c, NoInvocation}

\* Again and again no replay waits or runs.
PageOver == peQueue = <<>>
=============================================================================
