------------------------ MODULE BridgeConnectionProofs ------------------------
(***************************************************************************)
(* Proofs about BridgeConnection for any number of calls, sockets, faults  *)
(* and disconnects: a connection has the acknowledged answer to the        *)
(* challenge of its socket and no other socket is left (HandshakeSound), a *)
(* disconnect sticks (DisconnectSticks), and a connection that works is    *)
(* not reported lost (ConnectionEndsForCause).                             *)
(*                                                                         *)
(* The fields of the bridge are shared by every callback. The invariant    *)
(* says how they belong together. Whatever happens, a pending handshake is *)
(* that of a call at its first or second attempt, an answer that was sent  *)
(* was sent on the current socket, and a bridge that the user closed has   *)
(* none. As long as no call went on with an overtaken configuration, the   *)
(* call that is tracked is the only one under way, none is while the       *)
(* bridge is connected, and a live socket has either a handshake or the    *)
(* connection: so a new socket never takes the place of a live one.        *)
(***************************************************************************)
EXTENDS BridgeConnection, TLAPS

Stages == {"idle", "reading", "first", "discovering", "again", "saving"}
Peers == {"silent", "greeting", "crossing", "greeted", "acking", "acked", "early", "refusing", "refused"}

\* The parts of the type invariant.
Values ==
    /\ readyState \in [Sockets -> {"none", "connecting", "open", "closing"}]
    /\ peer \in [Sockets -> Peers]
    /\ socket \in Sockets \cup {NoSocket}
    /\ status \in States
    /\ callers \in [Callers -> Stages]
    /\ connectPromise \in Callers \cup {NoCaller}
    /\ handshake \in Callers \cup {NoCaller}
    /\ answering \subseteq Sockets
Counts ==
    /\ generations \in [Callers -> 0 .. MaxDisconnects]
    /\ generation \in 0 .. MaxDisconnects
    /\ generation = disconnects
    /\ reads \in 0 .. MaxReads
    /\ disconnects \in 0 .. MaxDisconnects
    /\ faults \in 0 .. MaxFaults
Flags ==
    /\ engineUp \in BOOLEAN /\ answered \in BOOLEAN /\ heartbeat \in BOOLEAN
    /\ transportFailure \in BOOLEAN /\ reconnect \in BOOLEAN /\ rereading \in BOOLEAN
    /\ manuallyClosed \in BOOLEAN /\ wanted \in BOOLEAN /\ overtaken \in BOOLEAN
    /\ launchTarget \in BOOLEAN /\ disowned \in BOOLEAN

\* The handshake is that of a call which awaits it.
HandshakeOwned == handshake # NoCaller => callers[handshake] \in {"first", "again"}

ClosedHasNone == manuallyClosed => socket = NoSocket

\* The answer that was sent went out on the current socket, after the greeting.
AnsweredSent ==
    answered => socket # NoSocket /\ peer[socket] \notin {"silent", "greeting", "greeted"}

\* The engine speaks on an open socket.
PeersFollow ==
    \A s \in Sockets :
        /\ readyState[s] = "connecting" => peer[s] = "silent"
        /\ readyState[s] = "open" => peer[s] # "silent"

Fields ==
    /\ HandshakeOwned /\ HandshakeHasSocket /\ ClosedHasNone
    /\ AnsweredSent /\ PeersFollow /\ ConnectedIsAcknowledged

Attempting(c) == callers[c] \in {"first", "discovering", "again"}

\* The call that is under way is the one that is tracked,
Tracked == \A c \in Callers : Attempting(c) \/ callers[c] = "saving" => connectPromise = c

\* and none is while the bridge is connected.
ConnectedIdle == status = "connected" => \A c \in Callers : ~Attempting(c)

\* A socket that was not left behind: neither to the engine, nor open by a call that could
\* not save the selected engine.
Live(s) ==
    /\ readyState[s] \in {"connecting", "open"}
    /\ peer[s] # "refused"
    /\ disowned => readyState[s] # "open"

\* The current socket is negotiating or carries the connection.
LiveIsUsed ==
    (socket # NoSocket /\ Live(socket) /\ status # "connected") => handshake # NoCaller

\* No other socket is live.
OthersNotLive == \A s \in Sockets : Live(s) => s = socket

\* Nothing has begun, or nothing is left of what the user closed.
Fresh == (\A c \in Callers : callers[c] \in {"idle", "reading"}) /\ ~reconnect /\ ~rereading
Unwanted ==
    ~wanted =>
        /\ socket = NoSocket
        /\ manuallyClosed \/ Fresh
        /\ status \in {"disconnected", "error"}

\* What holds until a call goes on with an overtaken configuration.
InOrder == Tracked /\ ConnectedIdle /\ LiveIsUsed /\ OthersNotLive /\ Unwanted

IInv == Values /\ Counts /\ Flags /\ Fields /\ (~overtaken => InOrder)

-----------------------------------------------------------------------------
(* What the helpers do *)

\* FailHandshake: the call of the handshake turns to discovery, or it ends and is no
\* longer tracked.
Failed(state, closed) ==
    /\ handshake' = NoCaller /\ answered' = FALSE
    /\ status' \in {state, "error"}
    /\ closed \/ handshake = NoCaller => status' = state
    /\ callers' \in [Callers -> Stages]
    /\ \A x \in Callers : \/ callers'[x] = callers[x]
                          \/ x = handshake /\ callers'[x] \in {"idle", "discovering"}
    /\ \/ connectPromise' = connectPromise
       \/ /\ handshake # NoCaller /\ connectPromise = handshake
          /\ connectPromise' = NoCaller /\ callers'[handshake] = "idle"

LEMMA FailEffect ==
    ASSUME Values, NEW state, NEW closed, NEW g, FailHandshake(state, closed, g)
    PROVE  Failed(state, closed)
<1>1. CASE handshake = NoCaller
  BY <1>1 DEF FailHandshake, Failed, Values
<1>2. CASE handshake # NoCaller /\ FallsBack(handshake, closed, g)
  <2>1. /\ handshake' = NoCaller /\ answered' = FALSE
        /\ callers' = [callers EXCEPT ![handshake] = "discovering"]
        /\ UNCHANGED connectPromise
        /\ status' = state
    BY <1>2 DEF FailHandshake
  <2>2. QED
    BY <1>2, <2>1 DEF Failed, Values, Stages
<1>3. CASE handshake # NoCaller /\ ~FallsBack(handshake, closed, g)
  <2>1. /\ handshake' = NoCaller /\ answered' = FALSE
        /\ callers' = [callers EXCEPT ![handshake] = "idle"]
        /\ connectPromise' = Untracked(handshake)
        /\ status' = IF closed THEN state ELSE "error"
    BY <1>3 DEF FailHandshake
  <2>2. QED
    BY <1>3, <2>1 DEF Failed, Values, Stages, Untracked
<1>4. QED
  BY <1>1, <1>2, <1>3

\* OpenSocket: the socket and the handshake are those of call c, and who had the
\* handshake turns to discovery or ends.
Opened(c, s, tracked) ==
    /\ readyState[s] = "none" /\ s \notin answering
    /\ readyState' = [readyState EXCEPT ![s] = "connecting"]
    /\ peer' = [peer EXCEPT ![s] = "silent"]
    /\ socket' = s /\ handshake' = c
    /\ manuallyClosed' = FALSE /\ answered' = FALSE /\ transportFailure' = FALSE
    /\ status' \in {"connecting", "error"}
    /\ callers' \in [Callers -> Stages]
    /\ callers'[c] \in {"first", "again"}
    /\ \A x \in Callers \ {c} : \/ callers'[x] = callers[x]
                                \/ x = handshake /\ callers'[x] \in {"idle", "discovering"}
    /\ connectPromise' \in {tracked, NoCaller}
    /\ tracked # handshake => connectPromise' = tracked

LEMMA OpenEffect ==
    ASSUME Values, NEW c \in Callers, NEW s \in Sockets, NEW step \in {"first", "again"},
           NEW tracked \in Callers \cup {NoCaller}, OpenSocket(c, s, step, tracked)
    PROVE  Opened(c, s, tracked)
<1>1. PICK kept \in BOOLEAN :
        /\ callers' = [x \in Callers |->
                         IF x = c THEN step
                         ELSE IF x # handshake THEN callers[x]
                         ELSE IF kept THEN "discovering" ELSE "idle"]
        /\ status' = IF handshake = NoCaller \/ kept THEN "connecting" ELSE "error"
        /\ connectPromise' = IF tracked = handshake /\ ~kept THEN NoCaller ELSE tracked
  BY DEF OpenSocket, FallsBack
<1>2. /\ callers' \in [Callers -> Stages]
      /\ callers'[c] \in {"first", "again"}
      /\ \A x \in Callers \ {c} : \/ callers'[x] = callers[x]
                                  \/ x = handshake /\ callers'[x] \in {"idle", "discovering"}
  BY <1>1 DEF Values, Stages
<1>3. QED
  BY <1>1, <1>2 DEF OpenSocket, Opened

\* Start: the call is tracked, and it turns to discovery or to a socket.
Begun(c, state) ==
    \/ /\ callers' = [callers EXCEPT ![c] = "discovering"]
       /\ connectPromise' = c
       /\ manuallyClosed' = FALSE
       /\ status' = state
       /\ UNCHANGED <<readyState, peer, socket, handshake, answered, transportFailure>>
    \/ \E s \in Sockets : Opened(c, s, c)

LEMMA StartEffect ==
    ASSUME Values, NEW c \in Callers, NEW state, Start(c, state)
    PROVE  /\ Begun(c, state)
           /\ generations' = [generations EXCEPT ![c] = generation]
<1>1. CASE launchTarget
  BY <1>1 DEF Start, Begun
<1>2. CASE ~launchTarget
  <2>1. PICK s \in Sockets : OpenSocket(c, s, "first", c)
    BY <1>2 DEF Start
  <2>2. QED
    BY <2>1, OpenEffect DEF Begun, Start
<1>3. QED
  BY <1>1, <1>2

\* Completes: the call of the handshake ends or goes on to save the endpoint.
Completed ==
    /\ status' = "connected" /\ handshake' = NoCaller /\ heartbeat' = TRUE
    /\ callers' \in [Callers -> Stages]
    /\ \A x \in Callers : x # handshake => callers'[x] = callers[x]
    /\ \/ callers'[handshake] = "saving" /\ UNCHANGED connectPromise
       \/ callers'[handshake] = "idle" /\ connectPromise' = Untracked(handshake)
    /\ UNCHANGED <<readyState, answered>>

LEMMA CompleteEffect ==
    ASSUME Values, handshake # NoCaller, Completes
    PROVE  Completed
<1>1. CASE callers[handshake] = "first"
  BY <1>1 DEF Completes, Completed, Values, Stages
<1>2. CASE callers[handshake] # "first"
  BY <1>2 DEF Completes, Completed, Values, Stages
<1>3. QED
  BY <1>1, <1>2

\* EndWithError: the call ends.
Ended(c) ==
    /\ callers' = [callers EXCEPT ![c] = "idle"]
    /\ connectPromise' = Untracked(c)
    /\ status' \in {status, "error"}
    /\ manuallyClosed => status' = status

LEMMA EndEffect ==
    ASSUME NEW c, EndWithError(c)
    PROVE  Ended(c)
  BY DEF EndWithError, Ended

LEMMA ClosedEffect ==
    ASSUME Values, readyState' = Closed(socket)
    PROVE  /\ readyState' \in [Sockets -> {"none", "connecting", "open", "closing"}]
           /\ \A x \in Sockets : \/ readyState'[x] = readyState[x]
                                 \/ x = socket /\ readyState'[x] = "closing"
           /\ socket # NoSocket => readyState'[socket] \in {"none", "closing"}
<1>1. CASE socket # NoSocket /\ readyState[socket] \in {"connecting", "open"}
  <2>1. readyState' = [readyState EXCEPT ![socket] = "closing"] /\ socket \in Sockets
    BY <1>1 DEF Closed, Values
  <2>2. QED
    BY <2>1 DEF Values
<1>2. CASE ~(socket # NoSocket /\ readyState[socket] \in {"connecting", "open"})
  <2>1. readyState' = readyState
    BY <1>2 DEF Closed
  <2>2. QED
    BY <1>2, <2>1 DEF Values
<1>3. QED
  BY <1>1, <1>2

-----------------------------------------------------------------------------
(* Types *)

LEMMA InitInvariant == Init => IInv
<1> SUFFICES ASSUME Init PROVE IInv
  OBVIOUS
<1> USE BridgeConstants DEF Init
<1>1. Values
  BY DEF Values, States, Stages, Peers
<1>2. Counts
  <2>1. 0 \in 0 .. MaxDisconnects /\ 0 \in 0 .. MaxReads /\ 0 \in 0 .. MaxFaults
    OBVIOUS
  <2>2. QED
    BY <2>1 DEF Counts
<1>3. Flags
  BY DEF Flags
<1>4. Fields
  BY DEF Fields, HandshakeOwned, HandshakeHasSocket, ClosedHasNone, AnsweredSent, PeersFollow,
         ConnectedIsAcknowledged
<1>5. InOrder
  BY DEF InOrder, Tracked, Attempting, ConnectedIdle, LiveIsUsed, Live, OthersNotLive, Unwanted, Fresh
<1>6. QED
  BY <1>1, <1>2, <1>3, <1>4, <1>5 DEF IInv

\* A helper's effect keeps the types.
LEMMA EffectsTyped ==
    ASSUME Values, UNCHANGED answering
    PROVE  /\ \A c \in Callers, s \in Sockets, tracked \in Callers \cup {NoCaller} :
                Opened(c, s, tracked) => Values'
           /\ \A c \in Callers, state \in States : Begun(c, state) => Values'
           /\ \A state \in States, closed \in BOOLEAN :
                Failed(state, closed) /\ UNCHANGED <<readyState, peer, socket>> => Values'
<1>1. ASSUME NEW c \in Callers, NEW s \in Sockets, NEW tracked \in Callers \cup {NoCaller},
             Opened(c, s, tracked)
      PROVE  Values'
  BY <1>1 DEF Opened, Values, Peers, States
<1>2. ASSUME NEW c \in Callers, NEW state \in States, Begun(c, state)
      PROVE  Values'
  <2>1. CASE \E s \in Sockets : Opened(c, s, c)
    BY <1>1, <2>1
  <2>2. CASE ~\E s \in Sockets : Opened(c, s, c)
    BY <1>2, <2>2 DEF Begun, Values, Stages
  <2>3. QED
    BY <2>1, <2>2
<1>3. ASSUME NEW state \in States, NEW closed \in BOOLEAN, Failed(state, closed),
             UNCHANGED <<readyState, peer, socket>>
      PROVE  Values'
  BY <1>3 DEF Failed, Values, States
<1>4. QED
  BY <1>1, <1>2, <1>3

LEMMA NextValues ==
    ASSUME Values, [Next]_vars
    PROVE  Values'
<1> USE DEF netVars, callVars, handshakeVars, timerVars, closeVars, historyVars, userVars, boundVars
<1>0. Lapsed \in States /\ status \in States
  BY DEF Values, Lapsed, States
<1>1. ASSUME NEW c \in Callers, Connect(c) \/ ConfigRead(c) \/ Reconnect(c)
      PROVE  Values'
  <2>1. UNCHANGED answering
    BY <1>1 DEF Connect, ConfigRead, Reconnect, Called
  <2>2. \/ \E state \in States : Start(c, state)
        \/ /\ status' \in {status, Lapsed}
           /\ UNCHANGED <<readyState, peer, socket, callers, connectPromise, handshake>>
    BY <1>0, <1>1 DEF Connect, ConfigRead, Reconnect
  <2>3. QED
    BY <1>0, <2>1, <2>2, StartEffect, EffectsTyped DEF Values
<1>2. ASSUME NEW c \in Callers, ConnectReading(c)
      PROVE  Values'
  BY <1>0, <1>2 DEF ConnectReading, Called, Values, Stages
<1>3. ASSUME NEW c \in Callers, Discovered(c)
      PROVE  Values'
  <2>1. CASE \E s \in Sockets : OpenSocket(c, s, "again", connectPromise)
    <3>1. UNCHANGED answering /\ connectPromise \in Callers \cup {NoCaller}
      BY <1>3 DEF Discovered, Values
    <3>2. QED
      BY <2>1, <3>1, OpenEffect, EffectsTyped
  <2>2. CASE EndWithError(c) /\ UNCHANGED <<readyState, peer, socket, handshake>>
    <3>1. Ended(c) /\ UNCHANGED answering
      BY <1>3, <2>2, EndEffect DEF Discovered
    <3>2. QED
      BY <2>2, <3>1 DEF Ended, Untracked, Values, Stages, States
  <2>3. QED
    BY <1>3, <2>1, <2>2 DEF Discovered
<1>4. ASSUME NEW c \in Callers, Saved(c)
      PROVE  Values'
  <2>1. /\ callers' = [callers EXCEPT ![c] = "idle"] /\ connectPromise' = Untracked(c)
        /\ status' \in {status, "error"}
        /\ UNCHANGED <<readyState, peer, socket, handshake, answering>>
    BY <1>4 DEF Saved, EndWithError
  <2>2. QED
    BY <2>1 DEF Untracked, Values, Stages, States
<1>5. ASSUME NEW s \in Sockets, SocketOpen(s) \/ SocketDrop(s)
      PROVE  Values'
  BY <1>5 DEF SocketOpen, SocketDrop, Values, States, Peers
<1>6. ASSUME NEW s \in Sockets, SocketError(s) \/ SocketClose(s)
      PROVE  Values'
  <2>1. /\ readyState' \in [Sockets -> {"none", "connecting", "open", "closing"}]
        /\ socket' \in {socket, NoSocket} /\ UNCHANGED <<peer, answering>>
    BY <1>6 DEF SocketError, SocketClose, Values
  <2>2. \/ UNCHANGED <<status, callers, connectPromise, handshake>>
        \/ \E state \in States : FailHandshake(state, manuallyClosed, generation)
    BY <1>0, <1>6 DEF SocketError, SocketClose, States
  <2>3. QED
    BY <2>1, <2>2, FailEffect DEF Failed, Values, States
<1>7. ASSUME NEW s \in Sockets, Challenge(s)
      PROVE  Values'
  BY <1>7 DEF Challenge, Values, Peers
<1>8. ASSUME NEW s \in Sockets, AnswerChallenge(s)
      PROVE  Values'
  <2>1. CASE Open(socket) /\ answered' = TRUE /\ UNCHANGED <<readyState, status, callers, connectPromise, handshake>>
            /\ peer' = [peer EXCEPT ![socket] =
                        CASE @ = "greeting" -> "crossing"
                          [] @ = "greeted"  -> IF socket = s THEN "acking" ELSE "refusing"
                          [] OTHER          -> @]
    <3>1. answering' = answering \ {s} /\ UNCHANGED socket
      BY <1>8 DEF AnswerChallenge
    <3>2. socket \in Sockets
      BY <2>1 DEF Open, Values
    <3>3. (CASE peer[socket] = "greeting" -> "crossing"
             [] peer[socket] = "greeted"  -> IF socket = s THEN "acking" ELSE "refusing"
             [] OTHER          -> peer[socket]) \in Peers
      BY <3>2 DEF Values, Peers
    <3>4. peer' \in [Sockets -> Peers]
      BY <2>1, <3>3 DEF Values
    <3>5. QED
      BY <2>1, <3>1, <3>4 DEF Values
  <2>2. CASE FailHandshake("error", manuallyClosed, generation) /\ readyState' = Closed(socket) /\ UNCHANGED peer
    <3>1. answering' = answering \ {s} /\ UNCHANGED socket
      BY <1>8 DEF AnswerChallenge
    <3>2. Failed("error", manuallyClosed)
      BY <2>2, FailEffect
    <3>3. readyState' \in [Sockets -> {"none", "connecting", "open", "closing"}]
      BY <2>2, ClosedEffect DEF Values
    <3>4. QED
      BY <2>2, <3>1, <3>2, <3>3 DEF Failed, Values, States
  <2>3. QED
    BY <1>8, <2>1, <2>2 DEF AnswerChallenge
<1>9. ASSUME NEW s \in Sockets, Ack(s) \/ Refuse(s)
      PROVE  Values'
  <2>1. peer' \in [Sockets -> Peers] /\ UNCHANGED <<socket, answering>>
    BY <1>9 DEF Ack, Acknowledges, Refuse, Values, Peers
  <2>2. \/ UNCHANGED <<readyState, status, callers, connectPromise, handshake>>
        \/ /\ FailHandshake("error", manuallyClosed, generation)
           /\ readyState' \in {readyState, Closed(socket)}
        \/ handshake # NoCaller /\ Completes
    BY <1>9 DEF Ack, Refuse
  <2>3. readyState' \in [Sockets -> {"none", "connecting", "open", "closing"}]
    BY <2>2, ClosedEffect, CompleteEffect DEF Values, Completed
  <2>4. CASE FailHandshake("error", manuallyClosed, generation)
    BY <2>1, <2>3, <2>4, FailEffect DEF Failed, Values, States
  <2>5. CASE handshake # NoCaller /\ Completes
    BY <2>1, <2>3, <2>5, CompleteEffect DEF Completed, Untracked, Values, States
  <2>6. QED
    BY <2>1, <2>2, <2>3, <2>4, <2>5 DEF Values
<1>10. CASE Disconnect \/ HandshakeTimeout
  <2>1. /\ readyState' = Closed(socket) /\ socket' \in {socket, NoSocket} /\ UNCHANGED <<peer, answering>>
        /\ \E state \in States : \E closed, g : FailHandshake(state, closed, g)
    BY <1>10 DEF Disconnect, HandshakeTimeout, CancelsAttempt, States
  <2>2. readyState' \in [Sockets -> {"none", "connecting", "open", "closing"}]
    BY <2>1, ClosedEffect DEF Values
  <2>3. QED
    BY <2>1, <2>2, FailEffect DEF Failed, Values, States
<1>11. CASE HeartbeatFails
  <2>1. readyState' \in [Sockets -> {"none", "connecting", "open", "closing"}]
    BY <1>11, ClosedEffect DEF HeartbeatFails, FailTransport, Values
  <2>2. QED
    BY <1>11, <2>1 DEF HeartbeatFails, FailTransport, Values, States
<1>12. CASE EngineStops \/ EngineStarts
  BY <1>12 DEF EngineStops, EngineStarts, Values
<1>13. CASE ConnectedAlready \/ ReconnectTimer \/ UNCHANGED vars
  BY <1>13 DEF ConnectedAlready, ReconnectTimer, vars, Values
<1>14. QED
  BY <1>1, <1>2, <1>3, <1>4, <1>5, <1>6, <1>7, <1>8, <1>9, <1>10, <1>11, <1>12, <1>13
     DEF Next, CallStep, SocketStep

LEMMA NextCounts ==
    ASSUME Values, Counts, [Next]_vars
    PROVE  Counts'
<1> USE BridgeConstants DEF Counts, netVars, callVars, userVars, boundVars, Fault
<1>1. ASSUME NEW c \in Callers, Connect(c) \/ ConnectReading(c) \/ ConfigRead(c) \/ Reconnect(c)
      PROVE  Counts'
  <2>1. /\ UNCHANGED generations \/ generations' = [generations EXCEPT ![c] = generation]
        /\ UNCHANGED <<generation, disconnects, faults>>
        /\ reads' = reads \/ (reads < MaxReads /\ reads' = reads + 1)
    BY <1>1, StartEffect DEF Connect, ConnectReading, ConfigRead, Reconnect, Called
  <2>2. QED
    BY <2>1
<1>2. ASSUME NEW c \in Callers, Discovered(c) \/ Saved(c)
      PROVE  Counts'
  <2>1. /\ UNCHANGED <<generations, generation, reads, disconnects>>
        /\ faults' = faults \/ (faults < MaxFaults /\ faults' = faults + 1)
    BY <1>2 DEF Discovered, Saved
  <2>2. QED
    BY <2>1
<1>3. ASSUME NEW s \in Sockets, SocketStep(s) \/ SocketDrop(s)
      PROVE  Counts'
  <2>1. /\ UNCHANGED <<generations, generation, reads, disconnects>>
        /\ faults' = faults \/ (faults < MaxFaults /\ faults' = faults + 1)
    BY <1>3 DEF SocketStep, SocketDrop, SocketOpen, SocketError, SocketClose, Challenge,
                AnswerChallenge, Ack, Acknowledges, Refuse
  <2>2. QED
    BY <2>1
<1>4. CASE Disconnect
  <2>1. generation' = generation + 1 /\ disconnects' = disconnects + 1 /\ disconnects < MaxDisconnects
    BY <1>4 DEF Disconnect
  <2>2. QED
    BY <1>4, <2>1 DEF Disconnect
<1>5. CASE \/ ConnectedAlready \/ HandshakeTimeout \/ HeartbeatFails \/ ReconnectTimer
           \/ EngineStops \/ EngineStarts \/ UNCHANGED vars
  <2>1. /\ UNCHANGED <<generations, generation, reads, disconnects>>
        /\ faults' = faults \/ (faults < MaxFaults /\ faults' = faults + 1)
    BY <1>5 DEF ConnectedAlready, HandshakeTimeout, HeartbeatFails, ReconnectTimer, EngineStops,
                EngineStarts, vars
  <2>2. QED
    BY <2>1
<1>6. QED
  BY <1>1, <1>2, <1>3, <1>4, <1>5 DEF Next, CallStep

LEMMA NextFlags ==
    ASSUME Values, Flags, [Next]_vars
    PROVE  Flags'
<1> USE DEF netVars, callVars, handshakeVars, timerVars, closeVars, historyVars, userVars, boundVars
<1>1. engineUp' \in BOOLEAN /\ rereading' \in BOOLEAN /\ wanted' \in BOOLEAN
  BY Zenon DEF Flags, Next, Connect, ConnectReading, Called, CallStep, ConfigRead, Discovered, Saved,
     Reconnect,
         SocketStep, SocketOpen, SocketError, SocketClose, SocketDrop, Challenge, AnswerChallenge, Ack,
         Refuse, ConnectedAlready, Disconnect, HandshakeTimeout, HeartbeatFails, ReconnectTimer,
         EngineStops, EngineStarts, vars
<1>1a. launchTarget' \in BOOLEAN
  BY DEF Flags, Next, Connect, ConnectReading, Called, CallStep, ConfigRead, Discovered, Saved,
     Reconnect,
         SocketStep, SocketOpen, SocketError, SocketClose, SocketDrop, Challenge, AnswerChallenge, Ack,
         Refuse, ConnectedAlready, Disconnect, HandshakeTimeout, HeartbeatFails, ReconnectTimer,
         EngineStops, EngineStarts, vars
<1>2. overtaken' \in BOOLEAN /\ disowned' \in BOOLEAN
  BY DEF Flags, Next, Connect, ConnectReading, Called, CallStep, ConfigRead, Discovered, Saved,
     Reconnect,
         SocketStep, SocketOpen, SocketError, SocketClose, SocketDrop, Challenge, AnswerChallenge, Ack,
         Refuse, ConnectedAlready, Disconnect, HandshakeTimeout, HeartbeatFails, ReconnectTimer,
         EngineStops, EngineStarts, vars
<1>3. heartbeat' \in BOOLEAN /\ reconnect' \in BOOLEAN
  BY DEF Flags, Next, Connect, ConnectReading, Called, CallStep, ConfigRead, Discovered, Saved,
     Reconnect,
         SocketStep, SocketOpen, SocketError, SocketClose, Rearms, SocketDrop, Challenge, AnswerChallenge,
         Ack, Completes, Refuse, ConnectedAlready, Disconnect, HandshakeTimeout, HeartbeatFails,
         FailTransport, ReconnectTimer, EngineStops, EngineStarts, vars
<1>4. ASSUME NEW c \in Callers, Connect(c) \/ ConfigRead(c) \/ Reconnect(c)
      PROVE  answered' \in BOOLEAN /\ manuallyClosed' \in BOOLEAN /\ transportFailure' \in BOOLEAN
  <2>1. UNCHANGED <<answered, manuallyClosed, transportFailure>> \/ \E state : Start(c, state)
    BY <1>4 DEF Connect, ConfigRead, Reconnect
  <2>2. ASSUME NEW state, Begun(c, state)
        PROVE  answered' \in BOOLEAN /\ manuallyClosed' \in BOOLEAN /\ transportFailure' \in BOOLEAN
    BY <2>2 DEF Begun, Opened, Flags
  <2>3. QED
    BY <2>1, <2>2, StartEffect DEF Flags
<1>5. ASSUME NEW c \in Callers, ConnectReading(c) \/ Discovered(c) \/ Saved(c)
      PROVE  answered' \in BOOLEAN /\ manuallyClosed' \in BOOLEAN /\ transportFailure' \in BOOLEAN
  BY <1>5 DEF ConnectReading, Discovered, OpenSocket, Saved, Flags
<1>6. ASSUME NEW s \in Sockets, SocketStep(s) \/ SocketDrop(s)
      PROVE  answered' \in BOOLEAN /\ manuallyClosed' \in BOOLEAN /\ transportFailure' \in BOOLEAN
  BY <1>6 DEF SocketStep, SocketOpen, SocketError, SocketClose, SocketDrop, Challenge, AnswerChallenge,
              Ack, Completes, Refuse, FailHandshake, Flags
<1>7. CASE \/ ConnectedAlready \/ Disconnect \/ HandshakeTimeout \/ HeartbeatFails \/ ReconnectTimer
           \/ EngineStops \/ EngineStarts \/ UNCHANGED vars
  <2>1. answered' \in BOOLEAN /\ manuallyClosed' \in BOOLEAN /\ transportFailure' \in BOOLEAN
    BY <1>7 DEF ConnectedAlready, Disconnect, CancelsAttempt, HandshakeTimeout, HeartbeatFails,
       FailTransport,
                ReconnectTimer, EngineStops, EngineStarts, FailHandshake, Flags, vars
  <2>2. QED
    BY <2>1, <1>1, <1>2, <1>3, <1>1a DEF Flags
<1>8. QED
  BY <1>1, <1>2, <1>3, <1>4, <1>5, <1>6, <1>7, <1>1a DEF Flags, Next, CallStep

-----------------------------------------------------------------------------
(* How the fields belong together *)

LEMMA BegunFields ==
    ASSUME Values, Flags, Fields, NEW c \in Callers, c # handshake, NEW state,
           state = "connected" => status = "connected", Begun(c, state)
    PROVE  Fields'
<1> USE DEF Fields, HandshakeOwned, HandshakeHasSocket, ClosedHasNone, AnsweredSent, PeersFollow,
            ConnectedIsAcknowledged
<1>1. CASE \E s \in Sockets : Opened(c, s, c)
  BY <1>1, BridgeConstants DEF Opened, Values
<1>2. CASE ~\E s \in Sockets : Opened(c, s, c)
  BY <1>2 DEF Begun, Values
<1>3. QED
  BY <1>1, <1>2

LEMMA NextFields ==
    ASSUME Values, Flags, Fields, [Next]_vars
    PROVE  Fields'
<1> USE DEF netVars, callVars, handshakeVars, timerVars, closeVars, historyVars, userVars, boundVars,
            Fields, HandshakeOwned, HandshakeHasSocket, ClosedHasNone, AnsweredSent, PeersFollow,
            ConnectedIsAcknowledged
<1>1. ASSUME NEW c \in Callers, Connect(c) \/ ConfigRead(c) \/ Reconnect(c)
      PROVE  Fields'
  <2>1. CASE \E state : Start(c, state) /\ (state = "connected" => status = "connected")
               /\ callers[c] \in {"idle", "reading"}
    <3>1. PICK state : /\ Start(c, state)
                       /\ state = "connected" => status = "connected"
      BY <2>1
    <3>2. c # handshake
      BY <2>1, BridgeConstants
    <3>3. QED
      BY <3>1, <3>2, StartEffect, BegunFields
  <2>2. CASE UNCHANGED <<readyState, peer, socket, callers, handshake, answered, manuallyClosed>>
             /\ (status' = "connected" => status = "connected")
    BY <2>2
  <2>3. QED
    BY <1>1, <2>1, <2>2 DEF Connect, ConfigRead, Reconnect, Called, Lapsed
<1>2. ASSUME NEW c \in Callers, ConnectReading(c)
      PROVE  Fields'
  BY <1>2 DEF ConnectReading, Called, Lapsed, Values
<1>3. ASSUME NEW c \in Callers, Discovered(c)
      PROVE  Fields'
  <2>1. CASE \E s \in Sockets : OpenSocket(c, s, "again", connectPromise)
    <3>1. PICK s \in Sockets : Opened(c, s, connectPromise)
      BY <2>1, OpenEffect DEF Values
    <3>2. QED
      BY <3>1, BridgeConstants DEF Opened, Values
  <2>2. CASE EndWithError(c) /\ UNCHANGED <<readyState, peer, socket, handshake, answered, closeVars>>
    <3>1. Ended(c)
      BY <2>2, EndEffect
    <3>2. c # handshake
      BY <1>3, BridgeConstants DEF Discovered
    <3>3. QED
      BY <2>2, <3>1, <3>2 DEF Ended, Values
  <2>3. QED
    BY <1>3, <2>1, <2>2 DEF Discovered
<1>4. ASSUME NEW c \in Callers, Saved(c)
      PROVE  Fields'
  <2>1. /\ callers' = [callers EXCEPT ![c] = "idle"] /\ c # handshake
        /\ status' \in {status, "error"}
        /\ UNCHANGED <<readyState, peer, socket, handshake, answered, manuallyClosed>>
    BY <1>4, BridgeConstants DEF Saved, EndWithError
  <2>2. QED
    BY <2>1 DEF Values
<1>5. ASSUME NEW s \in Sockets, SocketOpen(s) \/ SocketDrop(s) \/ Challenge(s)
      PROVE  Fields'
  BY <1>5 DEF SocketOpen, SocketDrop, Challenge, Open, Values
<1>6. ASSUME NEW s \in Sockets, SocketError(s)
      PROVE  Fields'
  <2>1. readyState' = [readyState EXCEPT ![s] = "closing"] /\ UNCHANGED <<peer, socket, manuallyClosed>>
    BY <1>6 DEF SocketError
  <2>2. \/ UNCHANGED <<status, callers, handshake, answered>>
        \/ Failed("error", manuallyClosed)
    BY <1>6, FailEffect DEF SocketError
  <2>3. QED
    BY <2>1, <2>2 DEF Failed, Values
<1>7. ASSUME NEW s \in Sockets, SocketClose(s)
      PROVE  Fields'
  <2>1. readyState' = [readyState EXCEPT ![s] = "none"] /\ UNCHANGED <<peer, manuallyClosed>>
    BY <1>7 DEF SocketClose
  <2>2. CASE socket # s
    BY <1>7, <2>1, <2>2 DEF SocketClose, Values
  <2>3. CASE socket = s
    <3>1. ~manuallyClosed /\ socket' = NoSocket
      BY <1>7, <2>3, BridgeConstants DEF SocketClose
    <3>2. \E state \in {"error", "disconnected"} : Failed(state, manuallyClosed)
      BY <1>7, <2>3, <3>1, FailEffect DEF SocketClose
    <3>3. QED
      BY <2>1, <3>1, <3>2 DEF Failed, Values
  <2>4. QED
    BY <2>2, <2>3
<1>8. ASSUME NEW s \in Sockets, AnswerChallenge(s)
      PROVE  Fields'
  <2>1. UNCHANGED <<socket, manuallyClosed>>
    BY <1>8 DEF AnswerChallenge
  <2>2. CASE Open(socket) /\ answered' = TRUE /\ UNCHANGED <<readyState, status, callers, handshake>>
            /\ peer' = [peer EXCEPT ![socket] =
                        CASE @ = "greeting" -> "crossing"
                          [] @ = "greeted"  -> IF socket = s THEN "acking" ELSE "refusing"
                          [] OTHER          -> @]
    <3>1. socket \in Sockets /\ peer[socket] # "silent"
      BY <2>2 DEF Open, Values
    <3>2. /\ peer'[socket] \notin {"silent", "greeting", "greeted"}
          /\ peer[socket] = "acked" => peer'[socket] = "acked"
          /\ \A x \in Sockets : x # socket => peer'[x] = peer[x]
      BY <2>2, <3>1 DEF Values
    <3>3. QED
      BY <2>1, <2>2, <3>1, <3>2 DEF Open
  <2>3. CASE Failed("error", manuallyClosed) /\ readyState' = Closed(socket) /\ UNCHANGED peer
    BY <2>1, <2>3, ClosedEffect DEF Failed, Values
  <2>4. QED
    BY <1>8, <2>2, <2>3, FailEffect DEF AnswerChallenge
<1>9. ASSUME NEW s \in Sockets, Ack(s)
      PROVE  Fields'
  <2>1. /\ Open(s) /\ UNCHANGED <<socket, manuallyClosed>>
        /\ \/ peer[s] = "acking" /\ peer' = [peer EXCEPT ![s] = "acked"]
           \/ peer[s] \in {"greeting", "greeted"} /\ peer' = [peer EXCEPT ![s] = "early"]
    BY <1>9 DEF Ack, Acknowledges
  <2>2. CASE UNCHANGED <<readyState, status, callers, handshake, answered>>
    BY <2>1, <2>2 DEF Open, Values
  <2>3. CASE Failed("error", manuallyClosed) /\ readyState' = Closed(socket)
    BY <2>1, <2>3, ClosedEffect DEF Failed, Open, Values
  <2>4. CASE socket = s /\ handshake # NoCaller /\ answered /\ Completes
    <3>1. Completed
      BY <2>4, CompleteEffect
    <3>2. peer' = [peer EXCEPT ![s] = "acked"]
      BY <2>1, <2>4
    <3>3. QED
      BY <2>1, <2>4, <3>1, <3>2 DEF Completed, Open, Values
  <2>5. QED
    BY <1>9, <2>2, <2>3, <2>4, FailEffect DEF Ack, ChallengeAnswered
<1>10. ASSUME NEW s \in Sockets, Refuse(s)
       PROVE  Fields'
  <2>1. /\ Open(s) /\ UNCHANGED <<readyState, socket, manuallyClosed>>
        /\ peer[s] \in {"acking", "refusing"} /\ peer' = [peer EXCEPT ![s] = "refused"]
    BY <1>10 DEF Refuse
  <2>2. \/ UNCHANGED <<status, callers, handshake, answered>>
        \/ Failed("error", manuallyClosed)
    BY <1>10, FailEffect DEF Refuse
  <2>3. QED
    BY <2>1, <2>2 DEF Failed, Open, Values
<1>11. CASE Disconnect
  <2>1. readyState' = Closed(socket) /\ socket' = NoSocket /\ UNCHANGED peer
        /\ FailHandshake("disconnected", TRUE, generation + 1)
    BY <1>11 DEF Disconnect, CancelsAttempt
  <2>2. Failed("disconnected", TRUE)
    BY <2>1, FailEffect
  <2>3. QED
    BY <2>1, <2>2, ClosedEffect DEF Failed, Values
<1>12. CASE HandshakeTimeout
  <2>1. readyState' = Closed(socket) /\ UNCHANGED <<peer, socket, manuallyClosed>>
        /\ FailHandshake("error", manuallyClosed, generation)
    BY <1>12 DEF HandshakeTimeout
  <2>2. Failed("error", manuallyClosed)
    BY <2>1, FailEffect
  <2>3. QED
    BY <2>1, <2>2, ClosedEffect DEF Failed, Values
<1>13. CASE HeartbeatFails
  BY <1>13, ClosedEffect DEF HeartbeatFails, FailTransport, Values
<1>14. CASE EngineStops \/ EngineStarts
  BY <1>14 DEF EngineStops, EngineStarts, Values
<1>15. CASE ConnectedAlready \/ ReconnectTimer \/ UNCHANGED vars
  BY <1>15 DEF ConnectedAlready, ReconnectTimer, vars
<1>16. QED
  BY <1>1, <1>2, <1>3, <1>4, <1>5, <1>6, <1>7, <1>8, <1>9, <1>10, <1>11, <1>12, <1>13, <1>14, <1>15
     DEF Next, CallStep, SocketStep

-----------------------------------------------------------------------------
(* What holds until a call goes on with an overtaken configuration *)

\* A bridge that calls itself connected without a working connection has no live socket.
LEMMA LapsedNotLive ==
    ASSUME Values, Fields, status = "connected", ~Open(socket), socket # NoSocket
    PROVE  ~Live(socket)
  BY DEF Values, Fields, PeersFollow, ConnectedIsAcknowledged, Open, Live

\* While no call is tracked, none is under way and no socket is negotiating.
LEMMA UntrackedIsQuiet ==
    ASSUME Values, Fields, InOrder, connectPromise = NoCaller
    PROVE  /\ \A x \in Callers : ~Attempting(x) /\ callers[x] # "saving"
           /\ handshake = NoCaller
<1>1. \A x \in Callers : ~Attempting(x) /\ callers[x] # "saving"
  BY BridgeConstants DEF InOrder, Tracked
<1>2. QED
  BY <1>1 DEF Attempting, Fields, HandshakeOwned, Values

LEMMA BegunInOrder ==
    ASSUME Values, Fields, InOrder, NEW c \in Callers, NEW state,
           connectPromise = NoCaller, ~Works, state # "connected", wanted', UNCHANGED disowned,
           Begun(c, state)
    PROVE  InOrder'
<1>1. /\ \A x \in Callers : ~Attempting(x) /\ callers[x] # "saving"
      /\ handshake = NoCaller
  BY UntrackedIsQuiet
<1>2. socket # NoSocket => ~Live(socket)
  BY <1>1, LapsedNotLive DEF Works, InOrder, LiveIsUsed
<1>3. \A x \in Sockets : ~Live(x)
  BY <1>2, BridgeConstants DEF InOrder, OthersNotLive
<1>4. Unwanted'
  BY DEF Unwanted
<1>5. ASSUME NEW s \in Sockets, Opened(c, s, c)
      PROVE  InOrder'
  <2>1. callers'[c] \in Stages /\ \A x \in Callers \ {c} : callers'[x] = callers[x]
    BY <1>1, <1>5, BridgeConstants DEF Opened
  <2>2. connectPromise' = c /\ handshake' = c /\ socket' = s /\ status' # "connected"
    BY <1>1, <1>5, BridgeConstants DEF Opened
  <2>3. Tracked' /\ ConnectedIdle'
    BY <1>1, <2>1, <2>2 DEF Tracked, ConnectedIdle, Attempting
  <2>4. LiveIsUsed'
    BY <2>2, BridgeConstants DEF LiveIsUsed
  <2>5. OthersNotLive'
    BY <1>3, <1>5, <2>2 DEF OthersNotLive, Opened, Live, Values
  <2>6. QED
    BY <1>4, <2>3, <2>4, <2>5 DEF InOrder
<1>6. CASE ~\E s \in Sockets : Opened(c, s, c)
  <2>1. /\ callers' = [callers EXCEPT ![c] = "discovering"] /\ connectPromise' = c /\ status' = state
        /\ UNCHANGED <<readyState, peer, socket, handshake>>
    BY <1>6 DEF Begun
  <2>2. Tracked' /\ ConnectedIdle'
    BY <1>1, <2>1 DEF Tracked, ConnectedIdle, Attempting, Values
  <2>3. LiveIsUsed' /\ OthersNotLive'
    BY <1>2, <1>3, <2>1 DEF LiveIsUsed, OthersNotLive, Live
  <2>4. QED
    BY <1>4, <2>2, <2>3 DEF InOrder
<1>7. QED
  BY <1>5, <1>6

\* A rejected handshake leaves the calls in order.
LEMMA FailedInOrder ==
    ASSUME Values, Fields, InOrder, NEW state \in States \ {"connected"}, NEW closed \in BOOLEAN,
           Failed(state, closed)
    PROVE  /\ Tracked' /\ ConnectedIdle'
           /\ (\A x \in Callers : callers[x] \in {"idle", "reading"}) =>
                 \A x \in Callers : callers'[x] = callers[x]
           /\ status' # "connected"
<1>1. Tracked'
  <2>1. CASE handshake = NoCaller
    <3>1. \A x \in Callers : callers'[x] = callers[x]
      BY <2>1, BridgeConstants DEF Failed
    <3>2. connectPromise' = connectPromise
      BY <2>1 DEF Failed
    <3>3. QED
      BY <3>1, <3>2 DEF InOrder, Tracked, Attempting
  <2>2. CASE handshake # NoCaller
    <3>1. connectPromise = handshake /\ handshake \in Callers
      BY <2>2 DEF InOrder, Tracked, Attempting, Values, Fields, HandshakeOwned
    <3>2. \A x \in Callers \ {handshake} : ~Attempting(x) /\ callers[x] # "saving" /\ callers'[x] = callers[x]
      BY <3>1 DEF InOrder, Tracked, Failed
    <3>3. \/ connectPromise' = handshake
          \/ callers'[handshake] = "idle"
      BY <3>1 DEF Failed
    <3>4. QED
      BY <3>1, <3>2, <3>3 DEF Tracked, Attempting
  <2>3. QED
    BY <2>1, <2>2
<1>2. status' # "connected"
  BY DEF Failed
<1>3. (\A x \in Callers : callers[x] \in {"idle", "reading"}) =>
        \A x \in Callers : callers'[x] = callers[x]
  BY BridgeConstants DEF Failed, Values, Fields, HandshakeOwned
<1>4. QED
  BY <1>1, <1>2, <1>3 DEF ConnectedIdle

LEMMA ConnectInOrder ==
    ASSUME Values, Flags, Fields, InOrder, NEW c \in Callers, ~overtaken',
           Connect(c) \/ ConnectReading(c) \/ ConfigRead(c) \/ Reconnect(c)
    PROVE  InOrder'
<1> USE DEF callVars, timerVars, historyVars
<1>0. UNCHANGED disowned
  BY DEF Connect, ConnectReading, Called, ConfigRead, Reconnect
<1>1. CASE \E state : Start(c, state) /\ state # "connected" /\ ~Joins /\ ~Works /\ wanted'
  <2>1. PICK state : Start(c, state) /\ state # "connected" /\ ~Joins /\ ~Works /\ wanted'
    BY <1>1
  <2>2. Begun(c, state)
    BY <2>1, StartEffect
  <2>3. QED
    BY <1>0, <2>1, <2>2, BegunInOrder DEF Joins
<1>2. CASE /\ ~Works /\ wanted' /\ status' = Lapsed
           /\ callers' \in {callers, [callers EXCEPT ![c] = "reading"]}
           /\ UNCHANGED <<readyState, peer, socket, connectPromise, handshake>>
  <2>1. Tracked' /\ ConnectedIdle'
    BY <1>2 DEF InOrder, Tracked, ConnectedIdle, Attempting, Values, Lapsed
  <2>2. LiveIsUsed' /\ OthersNotLive'
    BY <1>0, <1>2, LapsedNotLive DEF InOrder, LiveIsUsed, OthersNotLive, Live, Works, Lapsed
  <2>3. QED
    BY <1>2, <2>1, <2>2 DEF InOrder, Unwanted
<1>3. CASE Connect(c)
  BY <1>1, <1>2, <1>3 DEF Connect, Called, Lapsed
<1>4. CASE ConnectReading(c)
  BY <1>2, <1>4 DEF ConnectReading, Called
<1>5. CASE ConfigRead(c)
  <2>1. /\ Start(c, status) /\ status # "connected" /\ ~Joins /\ wanted'
    BY <1>5 DEF ConfigRead, Flags
  <2>2. QED
    BY <1>1, <2>1 DEF Works
<1>6. CASE Reconnect(c)
  <2>1. CASE manuallyClosed \/ Joins \/ Works
    <3>1. /\ UNCHANGED <<readyState, peer, socket, status, callers, connectPromise, handshake,
                         manuallyClosed, reconnect, wanted>>
          /\ rereading
      BY <1>6, <2>1 DEF Reconnect, closeVars
    <3>2. QED
      BY <1>0, <3>1 DEF InOrder, Tracked, Attempting, ConnectedIdle, LiveIsUsed, OthersNotLive, Live,
         Unwanted, Fresh
  <2>2. CASE ~(manuallyClosed \/ Joins \/ Works)
    <3>1. Start(c, Lapsed) /\ rereading /\ ~manuallyClosed /\ wanted' = wanted
      BY <1>6, <2>2 DEF Reconnect
    <3>2. wanted
      BY <3>1 DEF InOrder, Unwanted, Fresh
    <3>3. QED
      BY <1>1, <2>2, <3>1, <3>2 DEF Lapsed
  <2>3. QED
    BY <2>1, <2>2
<1>7. QED
  BY <1>3, <1>4, <1>5, <1>6

LEMMA DiscoveredInOrder ==
    ASSUME Values, Flags, Fields, InOrder, NEW c \in Callers, Discovered(c)
    PROVE  InOrder'
<1> USE DEF historyVars, timerVars, closeVars
<1>1. callers[c] = "discovering" /\ UNCHANGED <<wanted, disowned, reconnect, rereading>>
  BY DEF Discovered
<1>2. connectPromise = c /\ status # "connected" /\ ~Fresh
  BY <1>1 DEF InOrder, Tracked, ConnectedIdle, Attempting, Fresh
<1>3. \A x \in Callers \ {c} : ~Attempting(x) /\ callers[x] # "saving"
  BY <1>2 DEF InOrder, Tracked
<1>4. handshake = NoCaller
  BY <1>1, <1>3 DEF Attempting, Fields, HandshakeOwned, Values
<1>5. \A x \in Sockets : ~Live(x)
  BY <1>2, <1>4, BridgeConstants DEF InOrder, LiveIsUsed, OthersNotLive
<1>6. CASE ~Superseded(c) /\ \E s \in Sockets : OpenSocket(c, s, "again", connectPromise)
  <2>1. PICK s \in Sockets : Opened(c, s, connectPromise)
    BY <1>6, OpenEffect DEF Values
  <2>2. callers'[c] \in Stages /\ \A x \in Callers \ {c} : callers'[x] = callers[x]
    BY <1>4, <2>1, BridgeConstants DEF Opened
  <2>3. connectPromise' = c /\ handshake' = c /\ socket' = s /\ status' # "connected"
    BY <1>2, <1>4, <2>1, BridgeConstants DEF Opened
  <2>4. Tracked' /\ ConnectedIdle'
    BY <1>3, <2>2, <2>3 DEF Tracked, ConnectedIdle, Attempting
  <2>5. LiveIsUsed'
    BY <2>3, BridgeConstants DEF LiveIsUsed
  <2>6. OthersNotLive'
    BY <1>1, <1>5, <2>1, <2>3 DEF OthersNotLive, Opened, Live, Values
  <2>7. Unwanted'
    BY <1>1, <1>2, <1>6 DEF InOrder, Unwanted, Superseded
  <2>8. QED
    BY <2>4, <2>5, <2>6, <2>7 DEF InOrder
<1>7. CASE EndWithError(c) /\ UNCHANGED <<readyState, peer, socket, handshake, manuallyClosed>>
  <2>1. Ended(c)
    BY <1>7, EndEffect
  <2>2. Tracked' /\ ConnectedIdle'
    BY <1>2, <1>3, <2>1 DEF Tracked, ConnectedIdle, Attempting, Ended, Values
  <2>3. LiveIsUsed' /\ OthersNotLive'
    BY <1>1, <1>5, <1>7, BridgeConstants DEF LiveIsUsed, OthersNotLive, Live, Values
  <2>4. Unwanted'
    BY <1>1, <1>2, <1>7, <2>1 DEF InOrder, Unwanted, Ended
  <2>5. QED
    BY <2>2, <2>3, <2>4 DEF InOrder
<1>8. QED
  BY <1>6, <1>7 DEF Discovered

LEMMA SocketInOrder ==
    ASSUME Values, Flags, Fields, InOrder, NEW s \in Sockets, SocketStep(s) \/ SocketDrop(s)
    PROVE  InOrder'
<1> USE DEF historyVars, timerVars, closeVars, callVars, handshakeVars
<1>0. UNCHANGED <<wanted, disowned>>
  BY DEF SocketStep, SocketOpen, SocketError, SocketClose, SocketDrop, Challenge, AnswerChallenge,
     Ack, Refuse
<1>1. CASE SocketOpen(s)
  <2>1. /\ readyState' = [readyState EXCEPT ![s] = "open"] /\ peer' = [peer EXCEPT ![s] = "greeting"]
        /\ readyState[s] = "connecting" /\ status' = "negotiating"
        /\ UNCHANGED <<socket, callers, connectPromise, handshake>>
    BY <1>1 DEF SocketOpen
  <2>2. Live(s) /\ peer[s] = "silent"
    BY <2>1 DEF Live, Fields, PeersFollow
  <2>3. socket = s /\ handshake # NoCaller
    BY <2>2, BridgeConstants DEF InOrder, OthersNotLive, LiveIsUsed, Fields, ConnectedIsAcknowledged
  <2>4. wanted
    BY <2>3, BridgeConstants DEF InOrder, Unwanted
  <2>5. Tracked' /\ ConnectedIdle' /\ LiveIsUsed'
    BY <1>0, <2>1, <2>3 DEF InOrder, Tracked, ConnectedIdle, Attempting, LiveIsUsed
  <2>6. OthersNotLive'
    BY <1>0, <2>1, <2>3 DEF InOrder, OthersNotLive, Live, Values
  <2>7. QED
    BY <1>0, <2>4, <2>5, <2>6 DEF InOrder, Unwanted
<1>2. CASE SocketError(s)
  <2>1. readyState' = [readyState EXCEPT ![s] = "closing"] /\ UNCHANGED <<peer, socket>>
        /\ readyState[s] = "connecting"
    BY <1>2 DEF SocketError
  <2>2. socket = s
    BY <2>1 DEF InOrder, OthersNotLive, Live, Fields, PeersFollow
  <2>3. wanted
    BY <2>2, BridgeConstants DEF InOrder, Unwanted
  <2>4. Failed("error", manuallyClosed)
    BY <1>2, <2>2, FailEffect DEF SocketError
  <2>5. Tracked' /\ ConnectedIdle'
    BY <2>4, FailedInOrder DEF Flags, States
  <2>6. LiveIsUsed' /\ OthersNotLive'
    BY <1>0, <2>1, <2>2 DEF InOrder, OthersNotLive, LiveIsUsed, Live, Values
  <2>7. QED
    BY <1>0, <2>3, <2>5, <2>6 DEF InOrder, Unwanted
<1>3. CASE SocketClose(s)
  <2>1. /\ readyState' = [readyState EXCEPT ![s] = "none"] /\ readyState[s] = "closing"
        /\ UNCHANGED <<peer, rereading, manuallyClosed>>
    BY <1>3 DEF SocketClose
  <2>2. CASE socket # s
    <3>1. UNCHANGED <<socket, status, callers, connectPromise, handshake, reconnect>>
      BY <1>3, <2>2 DEF SocketClose
    <3>2. Tracked' /\ ConnectedIdle' /\ Unwanted'
      BY <1>0, <2>1, <3>1 DEF InOrder, Tracked, ConnectedIdle, Attempting, Unwanted, Fresh
    <3>3. LiveIsUsed' /\ OthersNotLive'
      BY <1>0, <2>1, <3>1 DEF InOrder, LiveIsUsed, OthersNotLive, Live, Values
    <3>4. QED
      BY <3>2, <3>3 DEF InOrder
  <2>3. CASE socket = s
    <3>1. ~manuallyClosed /\ socket' = NoSocket /\ wanted
      BY <1>3, <2>3, BridgeConstants DEF SocketClose, Fields, ClosedHasNone, InOrder, Unwanted
    <3>2. \E state \in {"error", "disconnected"} : Failed(state, manuallyClosed)
      BY <1>3, <2>3, <3>1, FailEffect DEF SocketClose
    <3>3. Tracked' /\ ConnectedIdle'
      BY <3>2, FailedInOrder DEF Flags, States
    <3>4. LiveIsUsed' /\ OthersNotLive'
      BY <1>0, <2>1, <2>3, <3>1 DEF InOrder, LiveIsUsed, OthersNotLive, Live, Values
    <3>5. QED
      BY <1>0, <3>1, <3>3, <3>4 DEF InOrder, Unwanted
  <2>4. QED
    BY <2>2, <2>3
<1>4. CASE SocketDrop(s) \/ Challenge(s)
  <2>1. UNCHANGED <<socket, status, callers, connectPromise, handshake, reconnect, rereading, manuallyClosed>>
    BY <1>4 DEF SocketDrop, Challenge
  <2>2. \A x \in Sockets : Live(x)' => Live(x)
    BY <1>0, <1>4 DEF SocketDrop, Challenge, Live, Values
  <2>3. Tracked' /\ ConnectedIdle' /\ Unwanted'
    BY <1>0, <2>1 DEF InOrder, Tracked, ConnectedIdle, Attempting, Unwanted, Fresh
  <2>4. LiveIsUsed' /\ OthersNotLive'
    BY <1>0, <2>1, <2>2, BridgeConstants DEF InOrder, LiveIsUsed, OthersNotLive, Values
  <2>5. QED
    BY <2>3, <2>4 DEF InOrder
<1>5. CASE AnswerChallenge(s)
  <2>1. UNCHANGED <<socket, reconnect, rereading, manuallyClosed>>
    BY <1>5 DEF AnswerChallenge
  <2>2. CASE Open(socket) /\ UNCHANGED <<readyState, status, callers, connectPromise, handshake>>
             /\ peer' = [peer EXCEPT ![socket] =
                        CASE @ = "greeting" -> "crossing"
                          [] @ = "greeted"  -> IF socket = s THEN "acking" ELSE "refusing"
                          [] OTHER          -> @]
    <3>1. \A x \in Sockets : Live(x)' => Live(x)
      BY <1>0, <2>2 DEF Live, Open, Values
    <3>2. Tracked' /\ ConnectedIdle' /\ Unwanted'
      BY <1>0, <2>1, <2>2 DEF InOrder, Tracked, ConnectedIdle, Attempting, Unwanted, Fresh
    <3>3. LiveIsUsed' /\ OthersNotLive'
      BY <1>0, <2>1, <2>2, <3>1, BridgeConstants DEF InOrder, LiveIsUsed, OthersNotLive, Values
    <3>4. QED
      BY <3>2, <3>3 DEF InOrder
  <2>3. CASE Failed("error", manuallyClosed) /\ readyState' = Closed(socket) /\ UNCHANGED peer
    <3>1. /\ Tracked' /\ ConnectedIdle'
          /\ (\A x \in Callers : callers[x] \in {"idle", "reading"}) =>
                \A x \in Callers : callers'[x] = callers[x]
      BY <2>3, FailedInOrder DEF Flags, States
    <3>2. Unwanted'
      BY <1>0, <2>1, <2>3, <3>1 DEF InOrder, Unwanted, Fresh, Failed
    <3>3. LiveIsUsed' /\ OthersNotLive'
      BY <1>0, <2>1, <2>3, ClosedEffect DEF InOrder, LiveIsUsed, OthersNotLive, Live, Values
    <3>4. QED
      BY <3>1, <3>2, <3>3 DEF InOrder
  <2>4. QED
    BY <1>5, <2>2, <2>3, FailEffect DEF AnswerChallenge
<1>6. CASE Ack(s)
  <2>1. /\ Open(s) /\ UNCHANGED <<socket, reconnect, rereading, manuallyClosed>>
        /\ \A x \in Sockets : peer[x] = "refused" => peer'[x] = "refused"
    BY <1>6 DEF Ack, Acknowledges, Values
  <2>2. CASE UNCHANGED <<readyState, status, callers, connectPromise, handshake>>
    <3>1. Tracked' /\ ConnectedIdle' /\ Unwanted'
      BY <1>0, <2>1, <2>2 DEF InOrder, Tracked, ConnectedIdle, Attempting, Unwanted, Fresh
    <3>2. LiveIsUsed' /\ OthersNotLive'
      BY <1>0, <2>1, <2>2, BridgeConstants DEF InOrder, LiveIsUsed, OthersNotLive, Live, Values
    <3>3. QED
      BY <3>1, <3>2 DEF InOrder
  <2>3. CASE socket = s /\ Failed("error", manuallyClosed) /\ readyState' = Closed(socket)
    <3>1. Tracked' /\ ConnectedIdle'
      BY <2>3, FailedInOrder DEF Flags, States
    <3>2. Unwanted'
      BY <1>0, <2>1, <2>3, BridgeConstants DEF InOrder, Unwanted, Open
    <3>3. LiveIsUsed' /\ OthersNotLive'
      BY <1>0, <2>1, <2>3, ClosedEffect DEF InOrder, LiveIsUsed, OthersNotLive, Live, Values
    <3>4. QED
      BY <3>1, <3>2, <3>3 DEF InOrder
  <2>4. CASE socket = s /\ handshake # NoCaller /\ Completes
    <3>1. Completed
      BY <2>4, CompleteEffect
    <3>2. connectPromise = handshake /\ handshake \in Callers
      BY <2>4 DEF InOrder, Tracked, Attempting, Values, Fields, HandshakeOwned
    <3>3. \A x \in Callers \ {handshake} : ~Attempting(x) /\ callers[x] # "saving" /\ callers'[x] = callers[x]
      BY <3>1, <3>2 DEF InOrder, Tracked, Completed
    <3>4. \/ callers'[handshake] = "saving" /\ connectPromise' = handshake
          \/ callers'[handshake] = "idle"
      BY <3>1, <3>2 DEF Completed
    <3>5. Tracked' /\ ConnectedIdle'
      BY <3>2, <3>3, <3>4 DEF Tracked, ConnectedIdle, Attempting
    <3>6. Unwanted'
      BY <1>0, <2>1, <2>4, BridgeConstants DEF InOrder, Unwanted, Open
    <3>7. LiveIsUsed' /\ OthersNotLive'
      BY <1>0, <2>1, <3>1 DEF InOrder, LiveIsUsed, OthersNotLive, Live, Values, Completed
    <3>8. QED
      BY <3>5, <3>6, <3>7 DEF InOrder
  <2>5. QED
    BY <1>6, <2>2, <2>3, <2>4, FailEffect DEF Ack
<1>7. CASE Refuse(s)
  <2>1. /\ UNCHANGED <<readyState, socket, reconnect, rereading, manuallyClosed>>
        /\ peer' = [peer EXCEPT ![s] = "refused"]
    BY <1>7 DEF Refuse
  <2>2. \A x \in Sockets : Live(x)' => Live(x) /\ x # s
    BY <1>0, <2>1 DEF Live, Values
  <2>3. CASE UNCHANGED <<status, callers, connectPromise, handshake>>
    <3>1. Tracked' /\ ConnectedIdle' /\ Unwanted'
      BY <1>0, <2>1, <2>3 DEF InOrder, Tracked, ConnectedIdle, Attempting, Unwanted, Fresh
    <3>2. LiveIsUsed' /\ OthersNotLive'
      BY <1>0, <2>1, <2>2, <2>3, BridgeConstants DEF InOrder, LiveIsUsed, OthersNotLive, Values
    <3>3. QED
      BY <3>1, <3>2 DEF InOrder
  <2>4. CASE socket = s /\ Failed("error", manuallyClosed)
    <3>1. Tracked' /\ ConnectedIdle'
      BY <2>4, FailedInOrder DEF Flags, States
    <3>2. Unwanted'
      BY <1>0, <2>1, <2>4, BridgeConstants DEF InOrder, Unwanted
    <3>3. LiveIsUsed' /\ OthersNotLive'
      BY <1>0, <2>1, <2>2, <2>4 DEF InOrder, LiveIsUsed, OthersNotLive
    <3>4. QED
      BY <3>1, <3>2, <3>3 DEF InOrder
  <2>5. QED
    BY <1>7, <2>3, <2>4, FailEffect DEF Refuse
<1>8. QED
  BY <1>1, <1>2, <1>3, <1>4, <1>5, <1>6, <1>7 DEF SocketStep

LEMMA NextInOrder ==
    ASSUME Values, Flags, Fields, InOrder, [Next]_vars, ~overtaken'
    PROVE  InOrder'
<1> USE DEF netVars, callVars, handshakeVars, timerVars, closeVars, historyVars
<1>1. ASSUME NEW c \in Callers, Connect(c) \/ ConnectReading(c) \/ CallStep(c)
      PROVE  InOrder'
  <2>1. CASE Saved(c)
    <3>1. /\ callers[c] = "saving" /\ callers' = [callers EXCEPT ![c] = "idle"]
          /\ connectPromise' = Untracked(c)
          /\ status' \in {status, "error"}
          /\ UNCHANGED <<readyState, peer, socket, handshake, reconnect, rereading, manuallyClosed, wanted>>
      BY <2>1 DEF Saved, EndWithError
    <3>2. Tracked' /\ ConnectedIdle' /\ Unwanted'
      BY <3>1 DEF InOrder, Tracked, ConnectedIdle, Attempting, Untracked, Values, Unwanted, Fresh
    <3>3. disowned => disowned'
      BY <2>1 DEF Saved
    <3>4. \A x \in Sockets : Live(x)' => Live(x)
      BY <3>1, <3>3 DEF Live
    <3>5. OthersNotLive'
      BY <3>1, <3>4 DEF InOrder, OthersNotLive
    <3>6. LiveIsUsed'
      <4>1. CASE status' = status
        BY <3>1, <3>4, <4>1, BridgeConstants DEF InOrder, LiveIsUsed, Values
      <4>2. CASE status # "connected"
        BY <3>1, <3>4, <4>2, BridgeConstants DEF InOrder, LiveIsUsed, Values
      <4>3. CASE status = "connected" /\ status' # status
        <5>1. Works => disowned'
          BY <2>1, <4>3 DEF Saved
        <5>2. SUFFICES ASSUME socket # NoSocket, Live(socket)' PROVE FALSE
          BY <3>1 DEF LiveIsUsed
        <5>3. socket \in Sockets /\ peer[socket] = "acked" /\ readyState[socket] \in {"connecting", "open"}
          BY <3>1, <4>3, <5>2 DEF Values, Live, Fields, ConnectedIsAcknowledged
        <5>4. readyState[socket] = "open"
          BY <5>3 DEF Fields, PeersFollow
        <5>5. QED
          BY <3>1, <4>3, <5>1, <5>2, <5>4 DEF Works, Open, Live
      <4>4. QED
        BY <4>1, <4>2, <4>3
    <3>7. QED
      BY <3>2, <3>5, <3>6 DEF InOrder
  <2>2. QED
    BY <1>1, <2>1, ConnectInOrder, DiscoveredInOrder DEF CallStep
<1>2. ASSUME NEW s \in Sockets, SocketStep(s) \/ SocketDrop(s)
      PROVE  InOrder'
  BY <1>2, SocketInOrder
<1>3. CASE ConnectedAlready \/ ReconnectTimer \/ UNCHANGED vars
  <2>1. /\ UNCHANGED <<readyState, peer, socket, status, callers, connectPromise, handshake, manuallyClosed,
                       disowned>>
        /\ wanted' \/ wanted' = wanted
        /\ UNCHANGED <<reconnect, rereading>> \/ reconnect
    BY <1>3 DEF ConnectedAlready, ReconnectTimer, vars
  <2>2. QED
    BY <2>1 DEF InOrder, Tracked, ConnectedIdle, Attempting, LiveIsUsed, OthersNotLive, Live,
       Unwanted, Fresh
<1>4. CASE Disconnect
  <2>1. /\ readyState' = Closed(socket) /\ socket' = NoSocket /\ manuallyClosed'
        /\ UNCHANGED <<peer, disowned>>
        /\ Failed("disconnected", TRUE)
    BY <1>4, FailEffect DEF Disconnect, CancelsAttempt
  <2>2. Tracked' /\ ConnectedIdle'
    BY <2>1, FailedInOrder DEF States
  <2>3. LiveIsUsed' /\ OthersNotLive'
    BY <2>1, ClosedEffect, BridgeConstants DEF InOrder, LiveIsUsed, OthersNotLive, Live, Values
  <2>4. Unwanted'
    BY <2>1 DEF Unwanted, Failed
  <2>5. QED
    BY <2>2, <2>3, <2>4 DEF InOrder
<1>5. CASE HandshakeTimeout
  <2>1. /\ readyState' = Closed(socket) /\ UNCHANGED <<peer, socket, wanted, disowned>> /\ handshake # NoCaller
        /\ Failed("error", manuallyClosed)
    BY <1>5, FailEffect DEF HandshakeTimeout
  <2>2. Tracked' /\ ConnectedIdle'
    BY <2>1, FailedInOrder DEF States, Flags
  <2>3. LiveIsUsed' /\ OthersNotLive'
    BY <2>1, ClosedEffect DEF InOrder, LiveIsUsed, OthersNotLive, Live, Values
  <2>4. Unwanted'
    BY <2>1 DEF InOrder, Unwanted, Fields, HandshakeHasSocket
  <2>5. QED
    BY <2>2, <2>3, <2>4 DEF InOrder
<1>6. CASE HeartbeatFails
  <2>1. /\ readyState' = Closed(socket) /\ status' = "error"
        /\ UNCHANGED <<peer, socket, callers, connectPromise, handshake, reconnect, rereading, manuallyClosed,
                       wanted, disowned>>
    BY <1>6 DEF HeartbeatFails, FailTransport
  <2>2. Tracked' /\ ConnectedIdle' /\ Unwanted'
    BY <2>1 DEF InOrder, Tracked, ConnectedIdle, Attempting, Unwanted, Fresh
  <2>3. LiveIsUsed' /\ OthersNotLive'
    BY <2>1, ClosedEffect DEF InOrder, LiveIsUsed, OthersNotLive, Live, Values
  <2>4. QED
    BY <2>2, <2>3 DEF InOrder
<1>7. CASE EngineStops \/ EngineStarts
  <2>1. UNCHANGED <<peer, socket, status, callers, connectPromise, handshake, reconnect, rereading, manuallyClosed,
                    wanted, disowned>>
    BY <1>7 DEF EngineStops, EngineStarts
  <2>2. \A x \in Sockets : Live(x)' => Live(x)
    BY <1>7, <2>1 DEF EngineStops, EngineStarts, Live
  <2>3. Tracked' /\ ConnectedIdle' /\ Unwanted'
    BY <2>1 DEF InOrder, Tracked, ConnectedIdle, Attempting, Unwanted, Fresh
  <2>4. LiveIsUsed' /\ OthersNotLive'
    BY <2>1, <2>2, BridgeConstants DEF InOrder, LiveIsUsed, OthersNotLive, Values
  <2>5. QED
    BY <2>3, <2>4 DEF InOrder
<1>8. QED
  BY <1>1, <1>2, <1>3, <1>4, <1>5, <1>6, <1>7 DEF Next

\* overtaken stays set.
LEMMA NextOvertaken ==
    ASSUME Flags, [Next]_vars, overtaken
    PROVE  overtaken'
  BY DEF Next, CallStep, SocketStep, Connect, ConnectReading, Called, ConfigRead, Discovered, Saved,
         Reconnect, SocketOpen, SocketError, SocketClose, SocketDrop, Challenge, AnswerChallenge, Ack,
         Refuse, ConnectedAlready, Disconnect, HandshakeTimeout, HeartbeatFails, ReconnectTimer,
         EngineStops, EngineStarts, vars, historyVars

LEMMA NextInvariant == IInv /\ [Next]_vars => IInv'
<1> SUFFICES ASSUME IInv, [Next]_vars PROVE IInv'
  OBVIOUS
<1>1. Values' /\ Counts' /\ Flags' /\ Fields'
  BY NextValues, NextCounts, NextFlags, NextFields DEF IInv
<1>2. ~overtaken' => InOrder'
  BY NextInOrder, NextOvertaken DEF IInv
<1>3. QED
  BY <1>1, <1>2 DEF IInv

LEMMA Invariance == Spec => []IInv
  BY InitInvariant, NextInvariant, PTL DEF Spec

-----------------------------------------------------------------------------
(* The theorems *)

\* A handshake has the socket it runs over, and a connection the acknowledged answer to the
\* challenge of its socket (handleChallenge, completeHandshake); and as long as no call went
\* on with an overtaken configuration or failed to save the selected engine, every socket the
\* bridge let go of is closed or closing, or the engine's to close.
THEOREM HandshakeIsSound == Spec => []HandshakeSound
<1>1. IInv => HandshakeSound
  <2>1. IInv => TypeOK
    BY DEF IInv, Values, Counts, Flags, Stages, Peers, TypeOK
  <2>2. IInv => ConnectedIsAcknowledged /\ HandshakeHasSocket
    BY DEF IInv, Fields
  <2>3. IInv => NoSocketLeft
    BY DEF IInv, InOrder, OthersNotLive, Live, NoSocketLeft
  <2>4. QED
    BY <2>1, <2>2, <2>3 DEF HandshakeSound
<1>2. QED
  BY <1>1, Invariance, PTL

\* After disconnect() the bridge neither negotiates nor is connected until somebody connects
\* again, or a call that was reading its configuration goes on.
THEOREM DisconnectIsFinal == Spec => []DisconnectSticks
<1>1. IInv => DisconnectSticks
  BY DEF IInv, InOrder, Unwanted, DisconnectSticks
<1>2. QED
  BY <1>1, Invariance, PTL

\* Until a call goes on with an overtaken configuration, a bridge that works gives its
\* connection up for a disconnect or a fault only: neither a callback of an old socket nor
\* another call takes it away.
LEMMA KeepsConnection ==
    ASSUME Values, Flags, Fields, InOrder, [Next]_vars, status = "connected", Open(socket),
           ~overtaken', UNCHANGED <<disconnects, faults>>, Counts
    PROVE  status' = "connected"
<1> USE DEF netVars, callVars, handshakeVars, timerVars, closeVars, historyVars, userVars, boundVars
<1>0. Works /\ socket \in Sockets /\ peer[socket] = "acked" /\ (Fault => FALSE)
  BY DEF Works, Open, Values, Fields, ConnectedIsAcknowledged, Fault, Counts
<1>1. handshake = NoCaller
  BY DEF InOrder, ConnectedIdle, Attempting, Fields, HandshakeOwned, Values
<1>2. ASSUME NEW c \in Callers, Connect(c) \/ ConnectReading(c) \/ CallStep(c)
      PROVE  status' = "connected"
  BY <1>0, <1>2 DEF Connect, ConnectReading, Called, CallStep, ConfigRead, Discovered, Saved, Reconnect,
                    InOrder, ConnectedIdle, Attempting, Flags
<1>3. ASSUME NEW s \in Sockets, SocketStep(s) \/ SocketDrop(s)
      PROVE  status' = "connected"
  <2>1. CASE SocketOpen(s) \/ SocketError(s)
    BY <1>0, <2>1 DEF SocketOpen, SocketError, InOrder, OthersNotLive, Live, Fields, PeersFollow
  <2>2. CASE SocketClose(s) \/ SocketDrop(s) \/ Challenge(s)
    BY <1>0, <2>2 DEF SocketClose, SocketDrop, Challenge, Open
  <2>3. CASE AnswerChallenge(s)
    BY <1>0, <2>3 DEF AnswerChallenge
  <2>4. CASE Ack(s)
    BY <1>1, <2>4 DEF Ack
  <2>5. CASE Refuse(s)
    BY <2>5 DEF Refuse
  <2>6. QED
    BY <1>3, <2>1, <2>2, <2>3, <2>4, <2>5 DEF SocketStep
<1>4. CASE Disconnect
  BY <1>4 DEF Disconnect, Counts
<1>5. CASE HeartbeatFails
  BY <1>0, <1>5 DEF HeartbeatFails
<1>6. CASE \/ ConnectedAlready \/ HandshakeTimeout \/ ReconnectTimer
           \/ EngineStops \/ EngineStarts \/ UNCHANGED vars
  BY <1>1, <1>6 DEF ConnectedAlready, HandshakeTimeout, ReconnectTimer, EngineStops, EngineStarts, vars
<1>7. QED
  BY <1>2, <1>3, <1>4, <1>5, <1>6 DEF Next

\* A connection is not reported lost while it works: "connected" is left for disconnect(), or
\* because the socket or its heartbeat failed, or the selected engine could not be saved.
THEOREM ConnectionIsKept == Spec => ConnectionEndsForCause
<1> DEFINE Cause == \/ disconnects' # disconnects
                    \/ ~Open(socket)
                    \/ faults' # faults
                    \/ overtaken'
<1>1. IInv /\ [Next]_vars => [(status = "connected" /\ status' # "connected") => Cause]_vars
  BY KeepsConnection, NextOvertaken DEF IInv
<1>2. QED
  BY <1>1, Invariance, PTL DEF Spec, ConnectionEndsForCause
===============================================================================
