-------------------------- MODULE BridgeConnection --------------------------
(***************************************************************************)
(* The WebSocket connection of the engine bridge                           *)
(* (features/engine-bridge/service.ts): connect, the fallback to           *)
(* discovery, the signed handshake, the heartbeat watchdog, the reconnect  *)
(* timer and disconnect.                                                   *)
(*                                                                         *)
(* The class keeps one socket, one pending handshake, one connectPromise   *)
(* and one reconnect timer in fields that every callback shares. A call of *)
(* connect() is a caller that stands at one of its awaits. What follows a  *)
(* rejected handshake up to the next await runs before any other event, so *)
(* it belongs to the step that rejects.                                    *)
(*                                                                         *)
(* Bounds: a closed socket's identity is used again, and the configuration *)
(* is a paired engine with autoConnect; discovery finds at most one match. *)
(***************************************************************************)
EXTENDS Naturals, FiniteSets

CONSTANTS
    Callers,        \* calls of connect() that can be under way at once
    Sockets,        \* WebSocket objects that can exist at once
    NoCaller, NoSocket,
    MaxReads,       \* bound: calls of connect() without a configuration
    MaxDisconnects, \* bound of the user's disconnects
    MaxFaults       \* bound of engine outages, refusals and early acknowledgements, of
                    \* dropped connections, late answers, missed heartbeats and failed saves

ASSUME BridgeConstants ==
    /\ NoCaller \notin Callers
    /\ NoSocket \notin Sockets
    /\ MaxReads \in Nat
    /\ MaxDisconnects \in Nat
    /\ MaxFaults \in Nat

VARIABLES
    launchTarget,   \* bridge.launchTarget.mode = 'engine': the engine is selected
                    \* through discovery before every connection
    engineUp,       \* the engine listens on its port
    readyState,     \* of every socket; "none" once its close event has been handled
    peer,           \* what the engine has sent and seen on the socket
    socket,         \* this.socket
    status,         \* this.status.state
    callers,        \* the await at which each call of connect() stands
    generations,    \* the generation it captured
    generation,     \* this.connectionGeneration
    connectPromise, \* the call that this.connectPromise tracks
    handshake,      \* the call that waits on handshakeResolve / handshakeReject
    answered,       \* this.handshakeChallengeAnswered
    answering,      \* sockets whose challenge answerChallenge is answering
    heartbeat,      \* the watchdog is armed
    transportFailure, \* this.transportFailureMessage is set
    reconnect,      \* the reconnect timer is armed
    rereading,      \* the timer fired and getState() is under way
    manuallyClosed, \* this.manuallyClosed
    wanted,         \* history: the last user action was a connect, not a disconnect
    overtaken,      \* history: connect() went on after a read of the configuration
                    \* during which somebody else connected or disconnected
    disowned,       \* history: the call that set up a connection was rejected over it,
                    \* because the selected engine could not be saved
    reads, disconnects, faults   \* what the bounds count

netVars       == <<engineUp, readyState, peer, socket>>
callVars      == <<callers, generations, connectPromise>>
handshakeVars == <<handshake, answered, answering>>
timerVars     == <<heartbeat, reconnect, rereading>>
closeVars     == <<transportFailure, manuallyClosed>>
historyVars   == <<wanted, overtaken, disowned>>
userVars      == <<launchTarget, reads, disconnects>>
boundVars     == <<userVars, faults>>
vars == <<netVars, status, callVars, generation, handshakeVars, timerVars, closeVars,
          historyVars, boundVars>>

States == {"disconnected", "connecting", "negotiating", "connected", "error"}

TypeOK ==
    /\ launchTarget \in BOOLEAN
    /\ engineUp \in BOOLEAN
    /\ readyState \in [Sockets -> {"none", "connecting", "open", "closing"}]
    /\ peer \in [Sockets -> {"silent", "greeting", "crossing", "greeted",
                             "acking", "acked", "early", "refusing", "refused"}]
    /\ socket \in Sockets \cup {NoSocket}
    /\ status \in States
    /\ callers \in [Callers -> {"idle", "reading", "first", "discovering", "again", "saving"}]
    /\ generations \in [Callers -> 0 .. MaxDisconnects]
    /\ generation \in 0 .. MaxDisconnects
    /\ connectPromise \in Callers \cup {NoCaller}
    /\ handshake \in Callers \cup {NoCaller}
    /\ answered \in BOOLEAN
    /\ answering \subseteq Sockets
    /\ heartbeat \in BOOLEAN
    /\ transportFailure \in BOOLEAN
    /\ reconnect \in BOOLEAN
    /\ rereading \in BOOLEAN
    /\ manuallyClosed \in BOOLEAN
    /\ wanted \in BOOLEAN
    /\ overtaken \in BOOLEAN
    /\ disowned \in BOOLEAN
    /\ reads \in 0 .. MaxReads
    /\ disconnects \in 0 .. MaxDisconnects
    /\ faults \in 0 .. MaxFaults

Init ==
    /\ launchTarget \in BOOLEAN
    /\ engineUp \in BOOLEAN
    /\ readyState = [s \in Sockets |-> "none"]
    /\ peer = [s \in Sockets |-> "silent"]
    /\ socket = NoSocket
    /\ status = "disconnected"
    /\ callers = [c \in Callers |-> "idle"]
    /\ generations = [c \in Callers |-> 0]
    /\ generation = 0
    /\ connectPromise = NoCaller
    /\ handshake = NoCaller
    /\ answered = FALSE
    /\ answering = {}
    /\ heartbeat = FALSE
    /\ transportFailure = FALSE
    /\ reconnect = FALSE
    /\ rereading = FALSE
    /\ manuallyClosed = FALSE
    /\ wanted = FALSE
    /\ overtaken = FALSE
    /\ disowned = FALSE
    /\ reads = 0
    /\ disconnects = 0
    /\ faults = 0

-----------------------------------------------------------------------------
(* Helpers *)

Fault ==
    /\ faults < MaxFaults
    /\ faults' = faults + 1

\* this.socket?.readyState === WebSocket.OPEN
Open(s) == s # NoSocket /\ readyState[s] = "open"

\* The bridge is connected over a socket that is open.
Works == status = "connected" /\ Open(socket)

\* socket.close(): the close event follows.
Closed(s) ==
    IF s # NoSocket /\ readyState[s] \in {"connecting", "open"}
    THEN [readyState EXCEPT ![s] = "closing"] ELSE readyState

\* The call's first connection failed, and nobody disconnected since it began.
FallsBack(c, closed, g) ==
    callers[c] = "first" /\ ~launchTarget /\ ~closed /\ generations[c] = g

\* The end of a call: its promise is settled and no longer tracked.
Untracked(c) == IF connectPromise = c THEN NoCaller ELSE connectPromise

\* failHandshake, the status its caller sets after it, and what the rejected
\* call does before its next await: it turns to discovery, or it ends and
\* reports the error unless the user closed the bridge.
FailHandshake(state, closed, g) ==
    /\ handshake' = NoCaller
    /\ answered' = FALSE
    /\ IF handshake = NoCaller
       THEN UNCHANGED callers /\ UNCHANGED connectPromise /\ status' = state
       ELSE IF FallsBack(handshake, closed, g)
       THEN /\ callers' = [callers EXCEPT ![handshake] = "discovering"]
            /\ UNCHANGED connectPromise
            /\ status' = state
       ELSE /\ callers' = [callers EXCEPT ![handshake] = "idle"]
            /\ connectPromise' = Untracked(handshake)
            /\ status' = IF closed THEN state ELSE "error"

\* The call fails outside a handshake.
EndWithError(c) ==
    /\ callers' = [callers EXCEPT ![c] = "idle"]
    /\ connectPromise' = Untracked(c)
    /\ status' = IF manuallyClosed THEN status ELSE "error"

\* connectWebSocket: a new socket takes the place of the last one, and its
\* handshake that of a handshake that is still pending. tracked is the call
\* that connectPromise tracks at this point.
OpenSocket(c, s, step, tracked) ==
    /\ readyState[s] = "none"
    /\ s \notin answering
    /\ readyState' = [readyState EXCEPT ![s] = "connecting"]
    /\ peer' = [peer EXCEPT ![s] = "silent"]
    /\ socket' = s
    /\ manuallyClosed' = FALSE
    /\ transportFailure' = FALSE
    /\ answered' = FALSE
    /\ handshake' = c
    /\ LET replaced == handshake
           kept     == replaced # NoCaller /\ FallsBack(replaced, FALSE, generation)
       IN /\ callers' = [x \in Callers |->
                           IF x = c THEN step
                           ELSE IF x # replaced THEN callers[x]
                           ELSE IF kept THEN "discovering" ELSE "idle"]
          /\ status' = IF replaced = NoCaller \/ kept THEN "connecting" ELSE "error"
          /\ connectPromise' = IF tracked = replaced /\ ~kept THEN NoCaller ELSE tracked

\* connect() from the point where it knows the configuration; state is the
\* status it has reported by then.
Start(c, state) ==
    /\ generations' = [generations EXCEPT ![c] = generation]
    /\ IF launchTarget
       THEN /\ callers' = [callers EXCEPT ![c] = "discovering"]
            /\ connectPromise' = c
            /\ manuallyClosed' = FALSE
            /\ status' = state
            /\ UNCHANGED <<readyState, peer, socket, handshake, answered,
                           transportFailure>>
       ELSE \E s \in Sockets : OpenSocket(c, s, "first", c)

-----------------------------------------------------------------------------
(* Calls *)

\* A bridge that calls itself connected over a socket that is no longer open
\* gives the connection up before it connects again.
Lapsed == IF status = "connected" THEN "disconnected" ELSE status

\* Mutant: a call begins an attempt of its own.
NeverJoins == FALSE

\* The call finds an attempt under way and awaits it.
Joins == connectPromise # NoCaller

\* A call of connect() that finds no working connection.
Called(c) ==
    /\ callers[c] = "idle"
    /\ ~Works
    /\ wanted' = TRUE
    /\ heartbeat' = (heartbeat /\ status # "connected")
    /\ UNCHANGED <<launchTarget, engineUp, generation, answering, reconnect, rereading,
                   overtaken, disowned, disconnects, faults>>

\* connect(config), by restoreBackgroundState or the user, up to its first
\* await. A call that finds an attempt under way joins it.
Connect(c) ==
    /\ Called(c)
    /\ IF Joins
       THEN /\ status' = Lapsed
            /\ UNCHANGED <<readyState, peer, socket, callVars, handshake, answered,
                           closeVars>>
       ELSE Start(c, Lapsed)
    /\ UNCHANGED reads

\* connect() without a configuration passes the same tests and then reads it.
ConnectReading(c) ==
    /\ reads < MaxReads
    /\ reads' = reads + 1
    /\ Called(c)
    /\ ~Joins
    /\ callers' = [callers EXCEPT ![c] = "reading"]
    /\ status' = Lapsed
    /\ UNCHANGED <<readyState, peer, socket, generations, connectPromise, handshake,
                   answered, closeVars>>

\* getState() answered.
ConfigRead(c) ==
    /\ callers[c] = "reading"
    /\ Start(c, status)
    /\ overtaken' = (overtaken \/ ~wanted \/ Joins \/ status = "connected")
    /\ UNCHANGED <<engineUp, generation, answering, timerVars, wanted, disowned, boundVars>>

\* connect() finds the bridge connected.
ConnectedAlready ==
    /\ Works
    /\ wanted' = TRUE
    /\ UNCHANGED <<overtaken, disowned>>
    /\ UNCHANGED <<netVars, status, callVars, generation, handshakeVars, timerVars,
                   closeVars, boundVars>>

\* The probes of discoverLocalEngines find the paired engine if it is up.
EngineFound == engineUp

\* Mutant: discovery does not look at what happened meanwhile.
NeverSuperseded(c) == FALSE

\* The user disconnected since the call began.
Superseded(c) == manuallyClosed \/ generations[c] # generation

\* discoverLocalEngines answered. A plain connection may find that the engine
\* still has the endpoint that failed, and then has nothing to try.
Discovered(c) ==
    /\ callers[c] = "discovering"
    /\ \/ /\ ~Superseded(c) /\ EngineFound
          /\ \E s \in Sockets : OpenSocket(c, s, "again", connectPromise)
       \/ /\ Superseded(c) \/ ~EngineFound \/ ~launchTarget
          /\ EndWithError(c)
          /\ UNCHANGED <<readyState, peer, socket, handshake, answered, closeVars>>
    /\ UNCHANGED <<engineUp, generations, generation, answering, timerVars,
                   historyVars, boundVars>>

\* The endpoint that worked is saved. That a discovered endpoint cannot be saved is only
\* logged; that a selected engine cannot be saved rejects the call, whose connection works.
Saved(c) ==
    /\ callers[c] = "saving"
    /\ \/ /\ callers' = [callers EXCEPT ![c] = "idle"]
          /\ connectPromise' = Untracked(c)
          /\ UNCHANGED <<status, disowned, faults>>
       \/ /\ launchTarget
          /\ Fault
          /\ EndWithError(c)
          /\ disowned' = (disowned \/ Works)
    /\ UNCHANGED <<netVars, generations, generation, handshakeVars, timerVars, closeVars,
                   wanted, overtaken, userVars>>

\* The attempt under way fails.
CancelsAttempt == FailHandshake("disconnected", TRUE, generation + 1)

\* disconnect()
Disconnect ==
    /\ disconnects < MaxDisconnects
    /\ disconnects' = disconnects + 1
    /\ UNCHANGED <<launchTarget, reads>>
    /\ wanted' = FALSE
    /\ UNCHANGED <<overtaken, disowned>>
    /\ generation' = generation + 1
    /\ manuallyClosed' = TRUE
    /\ transportFailure' = FALSE
    /\ reconnect' = FALSE
    /\ heartbeat' = FALSE
    /\ readyState' = Closed(socket)
    /\ socket' = NoSocket
    /\ CancelsAttempt
    /\ UNCHANGED <<engineUp, peer, generations, answering, rereading, faults>>

-----------------------------------------------------------------------------
(* Events of a socket *)

\* The open listener does not ask whether the socket is the current one. That a
\* socket opens before the answer to an earlier one is computed is a fault.
SocketOpen(s) ==
    /\ readyState[s] = "connecting"
    /\ engineUp
    /\ IF answering = {} THEN UNCHANGED faults ELSE Fault
    /\ readyState' = [readyState EXCEPT ![s] = "open"]
    /\ peer' = [peer EXCEPT ![s] = "greeting"]
    /\ status' = "negotiating"
    /\ UNCHANGED <<engineUp, socket, callVars, generation, handshakeVars, timerVars,
                   closeVars, historyVars, userVars>>

\* failTransport, on the current socket.
FailTransport ==
    /\ transportFailure' = TRUE
    /\ heartbeat' = FALSE
    /\ status' = "error"
    /\ readyState' = Closed(socket)

\* The connection cannot be established: the error event.
SocketError(s) ==
    /\ readyState[s] = "connecting"
    /\ ~engineUp
    /\ readyState' = [readyState EXCEPT ![s] = "closing"]
    /\ IF socket = s
       THEN FailHandshake("error", manuallyClosed, generation)
       ELSE UNCHANGED <<status, callers, connectPromise, handshake, answered>>
    /\ UNCHANGED <<engineUp, peer, socket, generations, generation, answering,
                   timerVars, closeVars, historyVars, boundVars>>

\* Mutant: a socket that closed is not replaced.
RearmsNever == reconnect

\* scheduleReconnect, unless the user closed the bridge.
Rearms == reconnect \/ ~manuallyClosed

\* The close event; only that of the current socket means anything.
SocketClose(s) ==
    /\ readyState[s] = "closing"
    /\ readyState' = [readyState EXCEPT ![s] = "none"]
    /\ IF socket # s
       THEN UNCHANGED <<socket, status, callers, connectPromise, handshake,
                        answered, heartbeat, reconnect, transportFailure>>
       ELSE /\ socket' = NoSocket
            /\ transportFailure' = FALSE
            /\ heartbeat' = FALSE
            /\ reconnect' = Rearms
            /\ LET failed == transportFailure \/ status = "error"
                   state  == IF manuallyClosed THEN status
                             ELSE IF failed THEN "error" ELSE "disconnected"
               IN FailHandshake(state, manuallyClosed, generation)
    /\ UNCHANGED <<engineUp, peer, generations, generation, answering, rereading,
                   manuallyClosed, historyVars, boundVars>>

\* The engine closes the connection, or the network does. Refusing a client it
\* closes the connection by itself.
SocketDrop(s) ==
    /\ readyState[s] = "open"
    /\ IF peer[s] = "refused" THEN UNCHANGED faults ELSE Fault
    /\ readyState' = [readyState EXCEPT ![s] = "closing"]
    /\ UNCHANGED <<engineUp, peer, socket, status, callVars, generation,
                   handshakeVars, timerVars, closeVars, historyVars, userVars>>

-----------------------------------------------------------------------------
(* The handshake *)

\* onMessage, type challenge: answerChallenge begins.
Challenge(s) ==
    /\ Open(s)
    /\ peer[s] \in {"greeting", "crossing"}
    /\ peer' = [peer EXCEPT ![s] = IF @ = "greeting" THEN "greeted" ELSE "refusing"]
    /\ answering' = IF socket = s THEN answering \cup {s} ELSE answering
    /\ UNCHANGED <<engineUp, readyState, socket, status, callVars, generation,
                   handshake, answered, timerVars, closeVars, historyVars,
                   boundVars>>

\* The signed answer to the challenge of socket s goes out on the current
\* socket, whatever it is by now. The engine (external) accepts an answer to its
\* own challenge only and refuses another one, which may cross its challenge;
\* in an established session it ignores a late answer.
\* If nothing is open, or a check failed, the current handshake fails.
AnswerChallenge(s) ==
    /\ s \in answering
    /\ answering' = answering \ {s}
    /\ \/ /\ Open(socket)
          /\ answered' = TRUE
          /\ peer' = [peer EXCEPT ![socket] =
                        CASE @ = "greeting" -> "crossing"
                          [] @ = "greeted"  -> IF socket = s THEN "acking" ELSE "refusing"
                          [] OTHER          -> @]
          /\ UNCHANGED <<readyState, status, callers, connectPromise, handshake,
                         faults>>
       \/ /\ IF Open(socket) THEN Fault ELSE UNCHANGED faults
          /\ FailHandshake("error", manuallyClosed, generation)
          /\ readyState' = Closed(socket)
          /\ UNCHANGED peer
    /\ UNCHANGED <<engineUp, socket, generations, generation, timerVars, closeVars,
                   historyVars, userVars>>

\* The engine sends hello_ack; before it has the answer that is a fault.
Acknowledges(s) ==
    \/ /\ peer[s] = "acking"
       /\ peer' = [peer EXCEPT ![s] = "acked"]
       /\ UNCHANGED faults
    \/ /\ Fault
       /\ peer[s] \in {"greeting", "greeted"}
       /\ peer' = [peer EXCEPT ![s] = "early"]

\* The pending handshake is resolved: a first attempt ends its call, one on a
\* discovered endpoint goes on to save it.
Completes ==
    /\ status' = "connected"
    /\ heartbeat' = TRUE
    /\ handshake' = NoCaller
    /\ LET done == callers[handshake] = "first" IN
       /\ callers' = [callers EXCEPT ![handshake] = IF done THEN "idle" ELSE "saving"]
       /\ connectPromise' = IF done THEN Untracked(handshake) ELSE connectPromise
    /\ UNCHANGED <<readyState, answered>>

\* Mutant: hello_ack is believed before the challenge is answered.
AnyAck == TRUE

\* this.handshakeChallengeAnswered
ChallengeAnswered == answered

\* onMessage, type hello_ack: completeHandshake.
Ack(s) ==
    /\ Open(s)
    /\ Acknowledges(s)
    /\ \/ /\ socket # s \/ handshake = NoCaller
          /\ UNCHANGED <<readyState, status, callers, connectPromise, handshake,
                         answered, heartbeat>>
       \/ /\ socket = s /\ handshake # NoCaller /\ ~ChallengeAnswered
          /\ FailHandshake("error", manuallyClosed, generation)
          /\ readyState' = Closed(socket)
          /\ UNCHANGED heartbeat
       \/ /\ socket = s /\ handshake # NoCaller /\ ChallengeAnswered
          /\ Completes
    /\ UNCHANGED <<engineUp, socket, generations, generation, answering, reconnect,
                   rereading, closeVars, historyVars, userVars>>

\* The engine does not accept the client: an error response. It fails the
\* handshake and leaves the socket to the engine.
Refuse(s) ==
    /\ Open(s)
    /\ peer[s] \in {"acking", "refusing"}
    /\ IF peer[s] = "acking" THEN Fault ELSE UNCHANGED faults
    /\ peer' = [peer EXCEPT ![s] = "refused"]
    /\ IF socket = s /\ status = "negotiating"
       THEN FailHandshake("error", manuallyClosed, generation)
       ELSE UNCHANGED <<status, callers, connectPromise, handshake, answered>>
    /\ UNCHANGED <<engineUp, readyState, socket, generations, generation, answering,
                   timerVars, closeVars, historyVars, userVars>>

-----------------------------------------------------------------------------
(* Timers and the engine *)

\* The next message of the handshake is on its way.
Negotiating ==
    socket # NoSocket /\ (\/ readyState[socket] = "connecting"
                          \/ Open(socket) /\ peer[socket] \in
                               {"greeting", "crossing", "greeted", "acking", "refusing"})

\* The handshake timer of createHandshakePromise. That it overtakes a message
\* which is on its way is a fault.
HandshakeTimeout ==
    /\ handshake # NoCaller
    /\ IF Negotiating THEN Fault ELSE UNCHANGED faults
    /\ FailHandshake("error", manuallyClosed, generation)
    /\ readyState' = Closed(socket)
    /\ UNCHANGED <<engineUp, peer, socket, generations, generation, answering,
                   timerVars, closeVars, historyVars, userVars>>

\* The watchdog, or a ping that could not be sent: failTransport.
HeartbeatFails ==
    /\ heartbeat
    /\ ~manuallyClosed
    /\ IF Open(socket) THEN Fault ELSE UNCHANGED faults
    /\ FailTransport
    /\ UNCHANGED <<engineUp, peer, socket, callVars, generation, handshakeVars,
                   reconnect, rereading, manuallyClosed, historyVars, userVars>>

\* The reconnect timer reads the configuration... It is armed by the close
\* event of the socket whose failure sent its call to discovery; the probes give
\* up after DISCOVERY_TIMEOUT, 0.8 s, so RECONNECT_DELAY, 3 s, outlasts them, and
\* a save that was under way.
ReconnectTimer ==
    /\ reconnect
    /\ ~launchTarget => \A c \in Callers : callers[c] \notin {"discovering", "saving"}
    /\ reconnect' = FALSE
    /\ rereading' = TRUE
    /\ UNCHANGED <<netVars, status, callVars, generation, handshakeVars, heartbeat,
                   closeVars, historyVars, boundVars>>

\* ...and connects with it, unless the user closed the bridge meanwhile.
Reconnect(c) ==
    /\ rereading
    /\ rereading' = FALSE
    /\ IF manuallyClosed \/ Joins \/ Works
       THEN UNCHANGED <<readyState, peer, socket, status, callVars, handshake,
                        answered, heartbeat, closeVars>>
       ELSE /\ callers[c] = "idle"
            /\ Start(c, Lapsed)
            /\ heartbeat' = (heartbeat /\ status # "connected")
    /\ UNCHANGED <<engineUp, generation, answering, reconnect, historyVars,
                   boundVars>>

\* The engine stops: every connection is cut.
EngineStops ==
    /\ engineUp
    /\ Fault
    /\ engineUp' = FALSE
    /\ readyState' = [s \in Sockets |->
                        IF readyState[s] = "open" THEN "closing" ELSE readyState[s]]
    /\ UNCHANGED <<peer, socket, status, callVars, generation, handshakeVars,
                   timerVars, closeVars, historyVars, userVars>>

EngineStarts ==
    /\ ~engineUp
    /\ engineUp' = TRUE
    /\ UNCHANGED <<readyState, peer, socket, status, callVars, generation,
                   handshakeVars, timerVars, closeVars, historyVars, boundVars>>

-----------------------------------------------------------------------------
CallStep(c) ==
    \/ ConfigRead(c) \/ Discovered(c) \/ Saved(c) \/ Reconnect(c)

SocketStep(s) ==
    \/ SocketOpen(s) \/ SocketError(s) \/ SocketClose(s)
    \/ Challenge(s) \/ AnswerChallenge(s) \/ Ack(s) \/ Refuse(s)

Next ==
    \/ \E c \in Callers : Connect(c) \/ ConnectReading(c) \/ CallStep(c)
    \/ \E s \in Sockets : SocketStep(s) \/ SocketDrop(s)
    \/ ConnectedAlready \/ Disconnect \/ HandshakeTimeout \/ HeartbeatFails \/ ReconnectTimer
    \/ EngineStops \/ EngineStarts

Spec == Init /\ [][Next]_vars

\* Storage calls and probes answer, sockets open, fail and close, an engine
\* that is up speaks the protocol, a refusing engine closes the connection,
\* timers fire, and a stopped engine is started again.
FairSpec ==
    /\ Spec
    /\ \A c \in Callers : WF_vars(ConfigRead(c)) /\ WF_vars(Discovered(c)) /\ WF_vars(Saved(c))
    /\ WF_vars(\E c \in Callers : Reconnect(c))
    /\ \A s \in Sockets :
         /\ WF_vars(SocketOpen(s)) /\ WF_vars(SocketError(s)) /\ WF_vars(SocketClose(s))
         /\ WF_vars(Challenge(s)) /\ WF_vars(AnswerChallenge(s)) /\ WF_vars(Ack(s))
         /\ WF_vars(Refuse(s)) /\ WF_vars(peer[s] = "refused" /\ SocketDrop(s))
    /\ WF_vars(HandshakeTimeout)
    /\ WF_vars(HeartbeatFails)
    /\ WF_vars(ReconnectTimer)
    /\ WF_vars(EngineStarts)

-----------------------------------------------------------------------------
(* Properties *)

\* The bridge calls itself connected only over its current socket, and only
\* after the engine acknowledged the answer to the challenge of that socket.
ConnectedIsAcknowledged ==
    status = "connected" => socket # NoSocket /\ peer[socket] = "acked"

\* A connection is not reported lost while it works: "connected" is left for a
\* user's disconnect, or because the socket or its heartbeat failed, or the selected engine
\* could not be saved.
ConnectionEndsForCause ==
    [][ (status = "connected" /\ status' # "connected")
          => \/ disconnects' # disconnects
             \/ ~Open(socket)
             \/ faults' # faults
             \/ overtaken' ]_vars

\* A socket that the bridge let go of is closed or closing, unless the engine
\* refused the client on it: then it is the engine's to close. Not so after the save of a
\* selected engine failed (service.ts:312): the bridge reports an error over the connection,
\* and the next call opens another beside it.
NoSocketLeft ==
    ~overtaken /\ ~disowned => \A s \in Sockets :
        readyState[s] \in {"connecting", "open"} /\ s # socket => peer[s] = "refused"

\* A disconnect is final until somebody connects again, or a call that was
\* reading its configuration goes on.
DisconnectSticks ==
    ~overtaken /\ ~wanted => status \notin {"connecting", "negotiating", "connected"}

\* The same without the exception, as service.test.ts:602 has it: a disconnect is
\* final until somebody connects again.
DisconnectFinal == ~wanted => status \notin {"connecting", "negotiating", "connected"}

\* A pending handshake has the current socket to complete it.
HandshakeHasSocket == handshake # NoCaller => socket # NoSocket

\* Once an attempt was made, the connection comes up or the user disconnects: no
\* failed attempt, refused handshake or lost heartbeat ends the retries while the
\* engine comes back. (manuallyClosed is still set when the only call since the
\* disconnect joined the attempt that the disconnect cancelled; a call that was
\* overtaken while it read its configuration may leave a socket in the way. With a selected
\* engine a discovery that does not find it ends the attempts: service.ts:307 arms no timer.)
EventuallyConnected ==
    (wanted /\ ~manuallyClosed /\ ~launchTarget) ~> (status = "connected" \/ ~wanted \/ overtaken)

\* A handshake has the socket it runs over, and a connection the answer to it; no other
\* socket is left.
HandshakeSound == TypeOK /\ ConnectedIsAcknowledged /\ HandshakeHasSocket /\ NoSocketLeft
=============================================================================
