---------------------------- MODULE BridgeRequests ----------------------------
(***************************************************************************)
(* The messages of the engine bridge once a socket exists (onMessage, send,*)
(* requestEngine and acceptChunk of features/engine-bridge/service.ts):    *)
(* requests of the engine with their slots in inFlight, the requests that  *)
(* their operations make of the engine, and messages that come in chunks.  *)
(*                                                                         *)
(* What happens at one abort runs to its end before the next event: the    *)
(* race of a running request rejects, its answer is sent and its slot      *)
(* given back. A request that is still being admitted notices later.       *)
(* The connection is here what decides whether a message can be sent, and  *)
(* BridgeConnection has its protocol. An outgoing request of the user      *)
(* interface is as one of an operation. Within a connection the engine     *)
(* does not use a transfer id again.                                       *)
(* Bounds: MaxRequests, MaxConnections, MaxRqFaults.                       *)
(***************************************************************************)
EXTENDS Naturals, FiniteSets, Sequences

CONSTANTS
    RequestIds,             \* request ids of the engine
    Transfers,              \* transfer ids of chunked messages
    Parts,                  \* chunks of each such message
    MaxConcurrent,          \* MAX_CONCURRENT_REQUESTS
    MaxOutgoing,            \* MAX_OUTGOING_REQUESTS
    MaxRequests, MaxConnections,
    MaxRqFaults             \* breaks, failed handshakes, missed heartbeats, pauses, bad chunks

ASSUME BridgeRequestsConstants ==
    /\ {Parts, MaxConcurrent, MaxOutgoing} \subseteq Nat \ {0}
    /\ {MaxRequests, MaxConnections, MaxRqFaults} \subseteq Nat

VARIABLES
    rqLink,         \* the status, and whether the socket is open
    rqConnection,   \* which connection it is
    rqRequests,     \* the calls of onMessage for a request, in order of arrival
    rqInFlight,     \* inFlight: the request of an id, 0 for none
    rqOperations,   \* requests whose operation runs; it goes on when the race is lost
    rqOutgoing,     \* outgoing: operations that wait for the engine
    rqSent,         \* chunks that the engine has sent on this connection
    rqChunks,       \* chunks: for each part the connection it came from, 0 for none
    rqMixed,        \* history: a message was put together from two connections
    rqCrossed,      \* history: "ids", an id came again while an aborted request had it;
                    \*   "requests", "chunks": a connection took over those of an earlier one
    rqFaults

rqTables == <<rqRequests, rqInFlight, rqOperations, rqOutgoing>>
rqTransfers == <<rqSent, rqChunks, rqMixed>>
rqVars == <<rqLink, rqConnection, rqTables, rqTransfers, rqCrossed, rqFaults>>

PartNumbers == 1 .. Parts
NoParts == [part \in PartNumbers |-> 0]

RqTypeOK ==
    \* broken: status is 'connected', but the socket is not open; failed, closing: status is
    \* 'error' and the socket is closing, closing: nothing was cleaned up; refused: it is open
    /\ rqLink \in {"down", "connecting", "negotiating", "up", "broken", "failed", "closing", "refused"}
    /\ rqConnection \in 0 .. MaxConnections
    /\ \A r \in DOMAIN rqRequests :
         rqRequests[r] \in [id : RequestIds, connection : 1 .. MaxConnections, aborted : BOOLEAN, asked : BOOLEAN,
            stage : {"admitting", "running", "over"}, answer : {"none", "result", "error"},
            answered : 0 .. MaxConnections]
    /\ DOMAIN rqRequests \in {1 .. n : n \in 0 .. MaxRequests}
    /\ rqInFlight \in [RequestIds -> 0 .. MaxRequests]
    /\ Cardinality({id \in RequestIds : rqInFlight[id] # 0}) <= MaxConcurrent
    /\ rqOutgoing \subseteq rqOperations /\ rqOperations \subseteq DOMAIN rqRequests
    /\ Cardinality(rqOutgoing) <= MaxOutgoing
    /\ rqSent \in [Transfers -> 0 .. Parts]
    /\ rqChunks \in [Transfers -> [PartNumbers -> 0 .. MaxConnections]]
    /\ rqMixed \in BOOLEAN /\ rqCrossed \subseteq {"ids", "requests", "chunks"}
    /\ rqFaults \in 0 .. MaxRqFaults

RequestsInit ==
    /\ rqLink = "down" /\ rqConnection = 0
    /\ rqRequests = <<>> /\ rqInFlight = [id \in RequestIds |-> 0]
    /\ rqOperations = {} /\ rqOutgoing = {}
    /\ rqSent = [t \in Transfers |-> 0] /\ rqChunks = [t \in Transfers |-> NoParts]
    /\ rqMixed = FALSE /\ rqCrossed = {} /\ rqFaults = 0

RqFaulted == rqFaults < MaxRqFaults /\ rqFaults' = rqFaults + 1

Live(r) == rqRequests[r].stage # "over"
Registered == {r \in DOMAIN rqRequests : rqInFlight[rqRequests[r].id] = r}
CanSend == rqLink \in {"negotiating", "up", "refused"}

-----------------------------------------------------------------------------
(* abortInFlight, and the ways in which a connection ends *)

ClearChunks == rqChunks' = [t \in Transfers |-> NoParts]

\* The race of a running request rejects; its answer cannot be sent, or is 'cancelled'.
Aborted(request, sent) ==
    IF request.stage = "admitting" THEN [request EXCEPT !.aborted = TRUE]
    ELSE [request EXCEPT !.aborted = TRUE, !.stage = "over",
                         !.answer = IF sent THEN "error" ELSE "none",
                         !.answered = IF sent THEN rqConnection ELSE 0]

\* MUTANT of AbortInFlight: the table is emptied, and nobody is told.
ForgetInFlight(over, sent) ==
    /\ rqRequests' = [r \in DOMAIN rqRequests |->
                        IF r \in over THEN [rqRequests[r] EXCEPT !.stage = "over"] ELSE rqRequests[r]]
    /\ rqInFlight' = [id \in RequestIds |-> 0]
    /\ ClearChunks

\* over: what ends with this step by itself.
AbortInFlight(over, sent) ==
    /\ rqRequests' = [r \in DOMAIN rqRequests |->
                        CASE r \in over -> [rqRequests[r] EXCEPT !.stage = "over"]
                          [] r \in Registered \ over -> Aborted(rqRequests[r], sent)
                          [] OTHER -> rqRequests[r]]
    /\ rqInFlight' = [id \in RequestIds |-> 0]
    /\ ClearChunks

RejectOutgoing == rqOutgoing' = {}

\* failTransport: nothing more is sent, and the socket is closed if there is one.
FailTransport(over) ==
    /\ rqLink' = IF rqLink = "down" THEN "down" ELSE "failed"
    /\ AbortInFlight(over, FALSE) /\ RejectOutgoing

\* disconnect(), and the close event of the socket.
ConnectionEnds ==
    /\ rqLink # "down" /\ rqLink' = "down"
    /\ AbortInFlight({}, FALSE) /\ RejectOutgoing
    /\ UNCHANGED <<rqConnection, rqOperations, rqSent, rqMixed, rqCrossed, rqFaults>>

\* What a connection leaves to the next one: the close event of its socket is ignored then.
LeftBehind ==
    (IF rqOutgoing # {} \/ \E id \in RequestIds : rqInFlight[id] # 0 THEN {"requests"} ELSE {})
    \cup (IF \E t \in Transfers : rqChunks[t] # NoParts THEN {"chunks"} ELSE {})

\* connect(), also by one who finds the socket of a connected bridge not open, and the
\* fallback to a discovered endpoint. It replaces whatever socket there is.
Connects ==
    /\ rqLink \in {"down", "broken", "failed", "closing", "refused"} /\ rqConnection < MaxConnections
    /\ rqLink' = "connecting" /\ rqConnection' = rqConnection + 1
    /\ rqSent' = [t \in Transfers |-> 0]
    /\ IF rqLink = "broken" THEN AbortInFlight({}, FALSE) /\ RejectOutgoing /\ UNCHANGED rqCrossed
       ELSE /\ UNCHANGED <<rqRequests, rqInFlight, rqChunks, rqOutgoing>>
            /\ rqCrossed' = rqCrossed \cup LeftBehind
    /\ UNCHANGED <<rqOperations, rqMixed, rqFaults>>

\* The socket opens, the handshake ends.
ConnectionGoesOn ==
    /\ \/ rqLink = "connecting" /\ rqLink' = "negotiating"
       \/ rqLink = "negotiating" /\ rqLink' = "up"
    /\ UNCHANGED <<rqConnection, rqTables, rqTransfers, rqCrossed, rqFaults>>

\* The peer is gone and its close event still to come.
Breaks ==
    /\ rqLink = "up" /\ RqFaulted
    /\ rqLink' = "broken"
    /\ UNCHANGED <<rqConnection, rqTables, rqTransfers, rqCrossed>>

\* A handshake fails: an error event, its timeout, a message or challenge that is not
\* accepted; a late challenge fails a working connection too. The socket is closed, or
\* left to the engine that refused; requests and chunks wait for its close event.
HandshakeFails ==
    /\ RqFaulted
    /\ \/ rqLink \in {"connecting", "negotiating", "up", "broken", "refused"} /\ rqLink' = "closing"
       \/ rqLink = "negotiating" /\ rqLink' = "refused"
    /\ UNCHANGED <<rqConnection, rqTables, rqTransfers, rqCrossed>>

\* The heartbeat watchdog, which a failed handshake does not stop, the error event of a
\* connected bridge, or a pong that cannot be sent.
TransportFails ==
    /\ rqLink # "down" /\ RqFaulted
    /\ FailTransport({})
    /\ UNCHANGED <<rqConnection, rqOperations, rqSent, rqMixed, rqCrossed>>

\* cancelActiveRequests, by the user's pause, aborts whatever the connection is.
CancelActiveRequests ==
    /\ RqFaulted
    /\ LET answers == \E r \in Registered : rqRequests[r].stage = "running"
       IN  IF CanSend \/ ~answers
           THEN AbortInFlight({}, TRUE) /\ UNCHANGED <<rqLink, rqOutgoing>>
           ELSE FailTransport({})
    /\ UNCHANGED <<rqConnection, rqOperations, rqSent, rqMixed, rqCrossed>>

-----------------------------------------------------------------------------
(* Requests of the engine *)

\* A request is registered, or refused at once: server_busy, duplicate_request_id.
Receive(id) ==
    /\ rqLink = "up" /\ Len(rqRequests) < MaxRequests
    /\ Cardinality({other \in RequestIds : rqInFlight[other] # 0}) < MaxConcurrent
    /\ rqInFlight[id] = 0
    /\ rqInFlight' = [rqInFlight EXCEPT ![id] = Len(rqRequests) + 1]
    /\ rqRequests' = Append(rqRequests, [id |-> id, connection |-> rqConnection, aborted |-> FALSE,
                                         asked |-> FALSE, stage |-> "admitting", answer |-> "none", answered |-> 0])
    /\ rqCrossed' = rqCrossed \cup IF \E r \in DOMAIN rqRequests : rqRequests[r].id = id /\ Live(r)
                                   THEN {"ids"} ELSE {}
    /\ UNCHANGED <<rqLink, rqConnection, rqOperations, rqOutgoing, rqTransfers, rqFaults>>

\* The answer is sent over whatever connection there is, or that one fails; the slot of
\* the id is given back.
Reply(r, answer) ==
    /\ IF CanSend
       THEN /\ rqRequests' = [rqRequests EXCEPT ![r].stage = "over", ![r].answer = answer,
                                                ![r].answered = rqConnection]
            /\ rqInFlight' = [rqInFlight EXCEPT ![rqRequests[r].id] = 0]
            /\ UNCHANGED <<rqLink, rqOutgoing, rqChunks>>
       ELSE FailTransport({r})
    /\ UNCHANGED <<rqConnection, rqSent, rqMixed, rqCrossed, rqFaults>>

\* A cancel message. Whoever is admitting notices it when the operation has begun.
CancelRequest(id) ==
    /\ CanSend /\ rqInFlight[id] # 0
    /\ LET r == rqInFlight[id]
       IN  IF rqRequests[r].stage = "running"
           THEN /\ rqRequests' = [rqRequests EXCEPT ![r] = Aborted(@, TRUE)]
                /\ rqInFlight' = [rqInFlight EXCEPT ![id] = 0]
           ELSE /\ rqRequests' = [rqRequests EXCEPT ![r].aborted = TRUE] /\ UNCHANGED rqInFlight
    /\ UNCHANGED <<rqLink, rqConnection, rqOperations, rqOutgoing, rqTransfers, rqCrossed, rqFaults>>

\* browserInstanceAccess or beginAgentAction denies the request.
Denied(r) ==
    /\ rqRequests[r].stage = "admitting"
    /\ Reply(r, "error") /\ UNCHANGED rqOperations

\* The operation begins, also for a request that is aborted by now: then the race is lost.
Admitted(r) ==
    /\ rqRequests[r].stage = "admitting"
    /\ rqOperations' = rqOperations \cup {r}
    /\ IF rqRequests[r].aborted THEN Reply(r, "error")
       ELSE /\ rqRequests' = [rqRequests EXCEPT ![r].stage = "running"]
            /\ UNCHANGED <<rqLink, rqConnection, rqInFlight, rqOutgoing, rqTransfers, rqCrossed, rqFaults>>

\* The operation ends, and its request is answered unless that is over.
OperationEnds(r) ==
    /\ r \in rqOperations \ rqOutgoing /\ rqOperations' = rqOperations \ {r}
    /\ IF Live(r) THEN \E answer \in {"result", "error"} : Reply(r, answer)
       ELSE UNCHANGED <<rqLink, rqConnection, rqRequests, rqInFlight, rqOutgoing, rqTransfers, rqCrossed,
                        rqFaults>>

-----------------------------------------------------------------------------
(* Requests to the engine *)

Room == Cardinality(rqOutgoing) < MaxOutgoing

\* requestEngine, once in an operation; it rejects at once unless the bridge is connected,
\* and open, and has room.
RequestEngine(r) ==
    /\ r \in rqOperations /\ ~rqRequests[r].asked /\ rqLink = "up"
    /\ Room
    /\ rqRequests' = [rqRequests EXCEPT ![r].asked = TRUE]
    /\ rqOutgoing' = rqOutgoing \cup {r}
    /\ UNCHANGED <<rqLink, rqConnection, rqInFlight, rqOperations, rqTransfers, rqCrossed, rqFaults>>

\* The response, or the timeout: it tells the engine, if that can be told.
OutgoingEnds(r) ==
    /\ r \in rqOutgoing
    /\ \/ /\ CanSend
          /\ rqOutgoing' = rqOutgoing \ {r} /\ UNCHANGED <<rqLink, rqRequests, rqInFlight, rqChunks>>
       \/ ~CanSend /\ FailTransport({})
    /\ UNCHANGED <<rqConnection, rqOperations, rqSent, rqMixed, rqCrossed, rqFaults>>

-----------------------------------------------------------------------------
(* Chunked messages *)

\* The next chunk of a message. One whose size or metadata does not fit drops the buffer,
\* one that would begin a buffer too many (BRIDGE_MAX_CHUNK_TRANSFERS) is dropped itself,
\* and the last one that is missing completes the message.
ReceiveChunk(t) ==
    /\ CanSend /\ rqSent[t] < Parts
    /\ rqSent' = [rqSent EXCEPT ![t] = @ + 1]
    /\ LET parts == [rqChunks[t] EXCEPT ![rqSent[t] + 1] = rqConnection]
           complete == \A part \in PartNumbers : parts[part] # 0
       IN  \/ RqFaulted /\ rqChunks' = [rqChunks EXCEPT ![t] = NoParts] /\ UNCHANGED rqMixed
           \/ /\ rqChunks' = [rqChunks EXCEPT ![t] = IF complete THEN NoParts ELSE parts]
              /\ rqMixed' = (rqMixed \/ (complete /\ parts # [part \in PartNumbers |-> rqConnection]))
              /\ UNCHANGED rqFaults
    /\ UNCHANGED <<rqLink, rqConnection, rqTables, rqCrossed>>

ExpireChunk(t) ==
    /\ rqChunks[t] # NoParts
    /\ rqChunks' = [rqChunks EXCEPT ![t] = NoParts]
    /\ UNCHANGED <<rqLink, rqConnection, rqTables, rqSent, rqMixed, rqCrossed, rqFaults>>

-----------------------------------------------------------------------------
RequestsWork ==
    \/ \E r \in DOMAIN rqRequests : Denied(r) \/ Admitted(r) \/ OperationEnds(r) \/ OutgoingEnds(r)
    \/ \E t \in Transfers : ExpireChunk(t)

RequestsSteps ==
    \/ RequestsWork
    \/ ConnectionEnds \/ Connects \/ ConnectionGoesOn \/ Breaks \/ HandshakeFails
    \/ TransportFails \/ CancelActiveRequests
    \/ \E id \in RequestIds : Receive(id) \/ CancelRequest(id)
    \/ \E r \in DOMAIN rqRequests : RequestEngine(r)
    \/ \E t \in Transfers : ReceiveChunk(t)

RequestsSpec == RequestsInit /\ [][RequestsSteps]_rqVars

-----------------------------------------------------------------------------
(* Properties *)

\* No two live requests had one id.
NotCrossed == "ids" \notin rqCrossed

\* A slot is in use as long as its request is live and was not aborted with all others:
\* none leaks and none is given back twice, unless an aborted request that is still being
\* admitted shares its id with a later one.
SlotsAccounted ==
    NotCrossed =>
        /\ \A r \in Registered : Live(r)
        /\ \A r \in DOMAIN rqRequests : Live(r) /\ ~rqRequests[r].aborted => r \in Registered

\* A request that was cancelled, by the engine, the user or the end of its connection, is
\* never answered with a result, and a result never reaches another connection than the
\* one that asked, with that exception: the later request has lost its slot and its abort.
\* Those that were taken over, by the connection after one on which a challenge failed,
\* are answered to that one.
ResultToAsker ==
    \A r \in DOMAIN rqRequests :
        rqRequests[r].answer = "result" /\ NotCrossed =>
            /\ ~rqRequests[r].aborted
            /\ rqRequests[r].answered = rqRequests[r].connection \/ "requests" \in rqCrossed

\* Nobody waits for an engine whose connection has ended or only begins, unless the
\* connection was taken over before the close event of the earlier one.
OutgoingOnLiveLink ==
    rqOutgoing # {} => rqLink \in {"up", "broken", "closing"} \/ "requests" \in rqCrossed

\* A message is never put together from the chunks of two connections, unless a handshake
\* failed after chunks had come and the next connection began before the close event.
WholeMessages == "chunks" \notin rqCrossed => ~rqMixed

\* Again and again no request is live, and no buffer waits for its rest.
RequestsOver ==
    /\ \A r \in DOMAIN rqRequests : ~Live(r)
    /\ rqOutgoing = {} /\ \A t \in Transfers : rqChunks[t] = NoParts

\* Requests, their slots and their answers belong together, over any connections.
RequestsSound ==
    RqTypeOK /\ SlotsAccounted /\ ResultToAsker /\ OutgoingOnLiveLink /\ WholeMessages
=============================================================================
