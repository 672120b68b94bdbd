----------------------------- MODULE BridgePairing -----------------------------
(***************************************************************************)
(* Pairing with a local engine (features/engine-bridge/service.ts 910-1188 *)
(* and identity.ts): startPairing asks an engine over a socket of its own, *)
(* the engine shows a code, its user confirms or rejects, and the approval *)
(* is stored with the key that the browser keeps in its own database.      *)
(*                                                                         *)
(* A socket, its request and the key are numbers. An engine answers as it  *)
(* does in the code's tests: pending first, then approved, rejected or     *)
(* expired. Discovery finds the engine, or no engine, and codes agree.     *)
(* Bounds: MaxStarts, MaxBpEvents.                                         *)
(***************************************************************************)
EXTENDS Naturals, FiniteSets

CONSTANTS
    NoPairing,
    MaxStarts,      \* calls of startPairing in all
    MaxBpEvents     \* cancels, unpairs, lost sockets, failing storage calls and
                    \* terminations of the worker in all

ASSUME BridgePairingConstants ==
    /\ {MaxStarts, MaxBpEvents} \subseteq Nat
    /\ NoPairing \notin Nat \cup [step : {"discover", "identity", "making"}, generation : Nat]
                            \cup [socket : Nat, key : Nat, request : Nat]

VARIABLES
    bpPaired,       \* bridge.pairedEngine: the key that the engine approved
    bpKey, bpKeys,  \* the key in the identity database (0: none), and the last one made
    bpGeneration,   \* pairingGeneration
    bpCalls,        \* the calls of startPairing that are being made: step and generation
    bpState,        \* pairingStatus: its state and request
    bpSocket,       \* pairingSocket, 0 for none
    bpContext,      \* pairingContext: its key and request
    bpTimer,        \* pairingTimer: NoPairing, or the request that it expires (0: the 5 s one)
    bpWaiting,      \* pairingResolve is set: the caller waits
    bpOpen,         \* the sockets that the browser has not closed
    bpEngine,       \* of each socket, what its engine has sent
    bpHandlers,     \* the messages whose handlers wait: for the code, or for the store
    bpUnpair,       \* the step of unpair
    bpCrossed,      \* history: a handler went on when its attempt was over, or two calls
                    \* made a key at one time
    bpHalf,         \* history: unpair cleared the key and did not store: that failed, or
                    \* the worker was terminated between the two
    bpStale,        \* history: a call that overtook the pending request got no key
    bpCancelled,    \* history: cancelled, with no start and no approval under way
    bpStarts, bpEvents

bpAttempt == <<bpState, bpSocket, bpContext, bpTimer, bpWaiting, bpOpen>>
bpStore == <<bpPaired, bpKey, bpKeys>>
bpHistory == <<bpCrossed, bpHalf, bpStale, bpCancelled>>
bpVars == <<bpStore, bpGeneration, bpCalls, bpAttempt, bpEngine, bpHandlers, bpUnpair, bpHistory,
            bpStarts, bpEvents>>

Sockets == 1 .. MaxStarts
Keys == 1 .. MaxStarts
PairingStates == {"idle", "requesting", "pending", "approved", "rejected", "expired", "error"}

PairingTypeOK ==
    /\ bpPaired \in Keys \cup {NoPairing} /\ bpKey \in Keys \cup {0} /\ bpKeys \in 0 .. MaxStarts
    /\ bpGeneration \in 0 .. MaxStarts + MaxBpEvents
    /\ bpCalls \in [Sockets -> {NoPairing} \cup
                      [step : {"discover", "identity", "making"}, generation : 0 .. MaxStarts + MaxBpEvents]]
    /\ bpState \in [state : PairingStates, request : Sockets \cup {0}]
    /\ bpSocket \in Sockets \cup {0} /\ bpOpen \subseteq Sockets
    /\ bpContext \in {NoPairing} \cup
         [socket : Sockets, key : Keys, request : Sockets \cup {0}]
    /\ bpContext # NoPairing => bpContext.socket = bpSocket
    /\ bpTimer \in Sockets \cup {0, NoPairing} /\ bpWaiting \in BOOLEAN
    /\ bpEngine \in [Sockets -> {"none", "asked", "pending", "done"}]
    /\ bpHandlers \subseteq [step : {"code", "store"}, context : Sockets, key : Keys]
    /\ bpUnpair \in {"none", "clear", "store"}
    /\ {bpCrossed, bpHalf, bpStale, bpCancelled} \subseteq BOOLEAN
    /\ bpStarts \in 0 .. MaxStarts /\ bpEvents \in 0 .. MaxBpEvents

PairingInit ==
    /\ bpPaired = NoPairing /\ bpKey = 0 /\ bpKeys = 0 /\ bpGeneration = 0
    /\ bpCalls = [call \in Sockets |-> NoPairing]
    /\ bpState = [state |-> "idle", request |-> 0]
    /\ bpSocket = 0 /\ bpContext = NoPairing /\ bpTimer = NoPairing /\ bpWaiting = FALSE
    /\ bpOpen = {} /\ bpEngine = [socket \in Sockets |-> "none"] /\ bpHandlers = {}
    /\ bpUnpair = "none" /\ bpCrossed = FALSE /\ bpHalf = FALSE /\ bpStale = FALSE
    /\ bpCancelled = FALSE /\ bpStarts = 0 /\ bpEvents = 0

PairingEvent == bpEvents < MaxBpEvents /\ bpEvents' = bpEvents + 1

-----------------------------------------------------------------------------
(* The end of an attempt *)

\* What failPairing, expirePairing, a rejection and an approval share: the attempt is
\* over and its socket closed.
AttemptEnds(state, request) ==
    /\ bpState' = [state |-> state, request |-> request]
    /\ bpSocket' = 0 /\ bpOpen' = bpOpen \ {bpSocket}
    /\ bpContext' = NoPairing /\ bpTimer' = NoPairing

\* MUTANT of FailPairing: the caller is not told.
FailPairingSilently == AttemptEnds("error", 0) /\ UNCHANGED bpWaiting

FailPairing == AttemptEnds("error", 0) /\ bpWaiting' = FALSE

CancelPairing ==
    /\ bpGeneration' = bpGeneration + 1
    /\ bpSocket' = 0 /\ bpOpen' = bpOpen \ {bpSocket}
    /\ bpContext' = NoPairing /\ bpTimer' = NoPairing /\ bpWaiting' = FALSE

UserCancels ==
    /\ bpSocket # 0 \/ \E call \in Sockets : bpCalls[call] # NoPairing
    /\ PairingEvent
    /\ CancelPairing
    /\ bpState' = [state |-> "idle", request |-> 0]
    /\ bpCancelled' = (bpHandlers = {} /\ bpPaired = NoPairing)
    /\ UNCHANGED <<bpStore, bpCalls, bpEngine, bpHandlers, bpUnpair, bpCrossed, bpHalf, bpStale,
                   bpStarts>>

-----------------------------------------------------------------------------
(* startPairing *)

StartPairing(call) ==
    /\ call = bpStarts + 1 /\ bpStarts' = call
    /\ bpPaired = NoPairing
    /\ ~(bpSocket # 0 /\ bpState.state \in {"requesting", "pending"})
    /\ bpCalls' = [bpCalls EXCEPT ![call] = [step |-> "discover", generation |-> bpGeneration]]
    /\ bpCancelled' = FALSE
    /\ UNCHANGED <<bpStore, bpGeneration, bpAttempt, bpEngine, bpHandlers, bpUnpair, bpCrossed,
                   bpHalf, bpStale, bpEvents>>

CallEnds(call) == bpCalls' = [bpCalls EXCEPT ![call] = NoPairing]

\* The engines were discovered: a call that another one, a cancel or an unpair overtook,
\* or whose browser was paired meanwhile, gives up.
Discovered(call) ==
    /\ bpCalls[call] # NoPairing /\ bpCalls[call].step = "discover"
    /\ IF bpCalls[call].generation # bpGeneration \/ bpPaired # NoPairing
       THEN CallEnds(call) /\ UNCHANGED <<bpGeneration, bpAttempt>>
       ELSE /\ CancelPairing
            /\ UNCHANGED bpState
            /\ bpCalls' = [bpCalls EXCEPT ![call] = [step |-> "identity", generation |-> bpGeneration']]
    /\ UNCHANGED <<bpStore, bpEngine, bpHandlers, bpUnpair, bpHistory, bpStarts, bpEvents>>

\* No engine, or more than one to choose from.
DiscoveryFails(call) ==
    /\ bpCalls[call] # NoPairing /\ bpCalls[call].step = "discover"
    /\ bpCalls[call].generation = bpGeneration /\ bpPaired = NoPairing
    /\ CallEnds(call)
    /\ bpState' = [state |-> "error", request |-> 0]
    /\ UNCHANGED <<bpStore, bpGeneration, bpSocket, bpContext, bpTimer, bpWaiting, bpOpen, bpEngine,
                   bpHandlers, bpUnpair, bpHistory, bpStarts, bpEvents>>

Overtaken(call) == bpCalls[call].generation # bpGeneration

\* What the call waits for is rejected, the settings or the identity database, or no key
\* can be made. A request that it overtook may still be shown as pending.
CallFails(call) ==
    /\ bpCalls[call] # NoPairing /\ PairingEvent
    /\ CallEnds(call)
    /\ bpStale' = (bpStale \/ (/\ bpCalls[call].step # "discover" /\ ~Overtaken(call)
                               /\ bpState.state = "pending"))
    /\ UNCHANGED <<bpStore, bpGeneration, bpAttempt, bpEngine, bpHandlers, bpUnpair, bpCrossed,
                   bpHalf, bpCancelled, bpStarts>>

\* The socket opens with a key, unless the call was overtaken.
Opens(call, key) ==
    IF Overtaken(call)
    THEN UNCHANGED <<bpAttempt, bpEngine>>
    ELSE /\ bpSocket' = call /\ bpOpen' = bpOpen \cup {call}
         /\ bpContext' = [socket |-> call, key |-> key, request |-> 0]
         /\ bpState' = [state |-> "requesting", request |-> 0]
         /\ bpTimer' = 0 /\ bpWaiting' = TRUE
         /\ bpEngine' = [bpEngine EXCEPT ![call] = "asked"]

\* getOrCreateBrowserBridgeIdentity: the key is read, or a new one made and written.
Identified(call) ==
    /\ bpCalls[call] # NoPairing /\ bpCalls[call].step = "identity"
    /\ IF bpKey # 0
       THEN CallEnds(call) /\ Opens(call, bpKey)
       ELSE bpCalls' = [bpCalls EXCEPT ![call].step = "making"] /\ UNCHANGED <<bpAttempt, bpEngine>>
    /\ bpCrossed' = (bpCrossed \/ (bpKey = 0 /\ \E other \in Sockets :
                        bpCalls[other] # NoPairing /\ bpCalls[other].step = "making"))
    /\ UNCHANGED <<bpStore, bpGeneration, bpHandlers, bpUnpair, bpHalf, bpStale, bpCancelled,
                   bpStarts, bpEvents>>

KeyMade(call) ==
    /\ bpCalls[call] # NoPairing /\ bpCalls[call].step = "making"
    /\ bpKey' = bpKeys + 1 /\ bpKeys' = bpKeys + 1
    /\ CallEnds(call) /\ Opens(call, bpKey')
    /\ UNCHANGED <<bpPaired, bpGeneration, bpHandlers, bpUnpair, bpHistory, bpStarts, bpEvents>>

-----------------------------------------------------------------------------
(* The messages of the engine *)

\* Only a message of the current socket is handled, with the context of the attempt.
Receives(socket) == bpSocket = socket /\ bpContext # NoPairing

\* pair_pending: the handler waits for the code.
PairPending(socket) ==
    /\ bpEngine[socket] = "asked"
    /\ bpEngine' = [bpEngine EXCEPT ![socket] = "pending"]
    /\ bpHandlers' = IF Receives(socket)
                     THEN bpHandlers \cup {[step |-> "code", context |-> socket, key |-> bpContext.key]}
                     ELSE bpHandlers
    /\ UNCHANGED <<bpStore, bpGeneration, bpCalls, bpAttempt, bpUnpair, bpHistory, bpStarts, bpEvents>>

\* Then the request is shown, its timer armed and the caller answered, whatever the
\* attempt has come to.
CodeComputed(handler) ==
    /\ handler \in bpHandlers /\ handler.step = "code"
    /\ bpHandlers' = bpHandlers \ {handler}
    /\ bpContext' = IF bpContext # NoPairing /\ bpContext.socket = handler.context
                    THEN [bpContext EXCEPT !.request = handler.context] ELSE bpContext
    /\ bpState' = [state |-> "pending", request |-> handler.context]
    /\ bpTimer' = handler.context
    /\ bpWaiting' = FALSE
    /\ bpCrossed' = (bpCrossed \/ bpSocket # handler.context)
    /\ UNCHANGED <<bpStore, bpGeneration, bpCalls, bpSocket, bpOpen, bpEngine, bpUnpair, bpHalf,
                   bpStale, bpCancelled, bpStarts, bpEvents>>

\* The approval is for the request that was shown.
Approves(socket) == bpContext.request = socket

\* pair_approved: the handler waits for the store.
PairApproved(socket) ==
    /\ bpEngine[socket] = "pending"
    /\ bpEngine' = [bpEngine EXCEPT ![socket] = "done"]
    /\ IF ~Receives(socket) THEN UNCHANGED <<bpAttempt, bpHandlers>>
       ELSE IF Approves(socket)
       THEN /\ bpHandlers' = bpHandlers \cup
                 {[step |-> "store", context |-> socket, key |-> bpContext.key]}
            /\ UNCHANGED bpAttempt
       ELSE FailPairing /\ UNCHANGED bpHandlers
    /\ UNCHANGED <<bpStore, bpGeneration, bpCalls, bpUnpair, bpHistory, bpStarts, bpEvents>>

\* The store answers: the pairing is stored, or the attempt fails.
ApprovalStored(handler) ==
    /\ handler \in bpHandlers /\ handler.step = "store"
    /\ bpHandlers' = bpHandlers \ {handler}
    /\ \/ /\ bpPaired' = handler.key
          /\ AttemptEnds("approved", 0)
          /\ UNCHANGED <<bpWaiting, bpEvents>>
       \/ /\ PairingEvent
          /\ FailPairing
          /\ UNCHANGED bpPaired
    /\ bpCrossed' = (bpCrossed \/ bpSocket # handler.context)
    /\ UNCHANGED <<bpKey, bpKeys, bpGeneration, bpCalls, bpEngine, bpUnpair, bpHalf, bpStale,
                   bpCancelled, bpStarts>>

\* pair_rejected and pair_expired, at any time, and a socket that fails or closes.
PairRefused(socket) ==
    /\ bpEngine[socket] \in {"asked", "pending"}
    /\ bpEngine' = [bpEngine EXCEPT ![socket] = "done"]
    /\ IF Receives(socket)
       THEN \E state \in {"rejected", "expired"} : AttemptEnds(state, bpState.request) /\ bpWaiting' = FALSE
       ELSE UNCHANGED bpAttempt
    /\ UNCHANGED <<bpStore, bpGeneration, bpCalls, bpHandlers, bpUnpair, bpHistory, bpStarts, bpEvents>>

SocketLost(socket) ==
    /\ bpEngine[socket] \in {"asked", "pending"} /\ PairingEvent
    /\ bpEngine' = [bpEngine EXCEPT ![socket] = "done"]
    /\ IF bpSocket = socket THEN FailPairing
       ELSE bpOpen' = bpOpen \ {socket}
            /\ UNCHANGED <<bpState, bpSocket, bpContext, bpTimer, bpWaiting>>
    /\ UNCHANGED <<bpStore, bpGeneration, bpCalls, bpHandlers, bpUnpair, bpHistory, bpStarts>>

\* expirePairing does nothing unless the request that is shown is its own.
Expires == bpState.state = "pending" /\ bpState.request = bpTimer

PairingTimer ==
    /\ bpTimer # NoPairing
    /\ IF bpTimer = 0 THEN FailPairing
       ELSE IF Expires THEN AttemptEnds("expired", bpState.request) /\ UNCHANGED bpWaiting
       ELSE bpTimer' = NoPairing /\ UNCHANGED <<bpState, bpSocket, bpContext, bpWaiting, bpOpen>>
    /\ UNCHANGED <<bpStore, bpGeneration, bpCalls, bpEngine, bpHandlers, bpUnpair, bpHistory, bpStarts,
                   bpEvents>>

-----------------------------------------------------------------------------
(* unpair: the attempt is cancelled, the key cleared, and then the pairing *)

Unpair ==
    /\ bpPaired # NoPairing /\ bpUnpair = "none" /\ PairingEvent
    /\ bpUnpair' = "clear"
    /\ CancelPairing
    /\ UNCHANGED <<bpStore, bpCalls, bpState, bpEngine, bpHandlers, bpHistory, bpStarts>>

KeyCleared ==
    /\ bpUnpair = "clear"
    /\ \/ bpUnpair' = "store" /\ bpKey' = 0 /\ UNCHANGED bpEvents
       \/ bpUnpair' = "none" /\ PairingEvent /\ UNCHANGED bpKey
    /\ UNCHANGED <<bpPaired, bpKeys, bpGeneration, bpCalls, bpAttempt, bpEngine, bpHandlers, bpHistory,
                   bpStarts>>

Unpaired == NoPairing

PairingRemoved ==
    /\ bpUnpair = "store" /\ bpUnpair' = "none"
    /\ \/ /\ bpPaired' = Unpaired /\ bpState' = [state |-> "idle", request |-> 0]
          /\ UNCHANGED <<bpHalf, bpEvents>>
       \/ /\ PairingEvent /\ bpHalf' = TRUE
          /\ UNCHANGED <<bpPaired, bpState>>
    /\ UNCHANGED <<bpKey, bpKeys, bpGeneration, bpCalls, bpSocket, bpContext, bpTimer, bpWaiting,
                   bpOpen, bpEngine, bpHandlers, bpCrossed, bpStale, bpCancelled, bpStarts>>

\* The worker is terminated, and its sockets with it; the key and the pairing stay.
PairingKilled ==
    /\ PairingEvent
    /\ bpGeneration' = 0 /\ bpCalls' = [call \in Sockets |-> NoPairing]
    /\ bpState' = [state |-> "idle", request |-> 0]
    /\ bpSocket' = 0 /\ bpContext' = NoPairing /\ bpTimer' = NoPairing /\ bpWaiting' = FALSE
    /\ bpOpen' = {} /\ bpHandlers' = {} /\ bpUnpair' = "none"
    /\ bpEngine' = [socket \in Sockets |-> IF bpEngine[socket] = "none" THEN "none" ELSE "done"]
    /\ bpHalf' = (bpHalf \/ bpUnpair = "store")
    /\ UNCHANGED <<bpStore, bpCrossed, bpStale, bpCancelled, bpStarts>>

PairingWorks ==
    \/ \E call \in Sockets : Discovered(call) \/ Identified(call) \/ KeyMade(call)
    \/ \E handler \in bpHandlers : CodeComputed(handler) \/ ApprovalStored(handler)
    \/ PairingTimer \/ KeyCleared \/ PairingRemoved

PairingSteps ==
    \/ PairingWorks \/ UserCancels \/ Unpair \/ PairingKilled
    \/ \E socket \in Sockets :
         \/ StartPairing(socket) \/ DiscoveryFails(socket) \/ CallFails(socket) \/ PairPending(socket)
         \/ PairApproved(socket) \/ PairRefused(socket) \/ SocketLost(socket)

PairingSpec == PairingInit /\ [][PairingSteps]_bpVars

-----------------------------------------------------------------------------
(* Properties *)

\* However starts, cancels and unpairs interleave with the discovery and the identity
\* database, no socket but the one of the current attempt stays open.
NoPairingSocketLeft == bpOpen = {bpSocket} \ {0}

\* A request that is shown as pending belongs to the attempt that is under way and has
\* its timer, unless a handler went on when its attempt was over, the pairing is being
\* removed, or a later call of startPairing that overtook it waits for the key or could
\* not have it.
PendingIsCurrent ==
    (bpState.state = "pending" /\ ~bpCrossed /\ ~bpStale /\ bpUnpair = "none") =>
        \/ bpSocket = bpState.request /\ bpTimer = bpState.request /\ bpContext.request = bpState.request
        \/ \E call \in Sockets : bpCalls[call] # NoPairing /\ bpCalls[call].step # "discover"

\* The caller of startPairing that waits has a timer that will answer it, whatever
\* overtakes its attempt, unless a handler of an earlier attempt went on in this one:
\* a late approval closes the socket and clears the timer of the new attempt, and its
\* caller is never answered.
CallerIsAnswered == (bpWaiting /\ ~bpCrossed) => bpTimer # NoPairing

\* A browser that is paired holds the key that its engine approved, unless unpair is
\* under way, or failed to store or was cut off after it had cleared the key, a handler
\* went on when its attempt was over, or two calls made a key at one time.
PairedKeyKept ==
    (bpPaired # NoPairing /\ bpUnpair = "none" /\ ~bpHalf /\ ~bpCrossed) => bpPaired = bpKey

\* After a cancel nothing is paired until the next start, unless a message was being
\* handled; nor does a cancelled call open a socket.
CancelIsFinal == bpCancelled => bpSocket = 0 /\ bpPaired = NoPairing

\* Every attempt ends: no request with a socket stays requesting or pending for good.
PairingOver == bpSocket = 0 \/ bpState.state \notin {"requesting", "pending"}

\* However calls, messages and timers interleave, an attempt has one outcome: it leaves
\* no socket, answers its caller, and pairs with the key that was approved or not at all.
PairingSound ==
    /\ PairingTypeOK /\ NoPairingSocketLeft /\ PendingIsCurrent
    /\ CallerIsAnswered /\ PairedKeyKept /\ CancelIsFinal
=============================================================================
