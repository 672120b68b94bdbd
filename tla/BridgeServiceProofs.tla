-------------------------- MODULE BridgeServiceProofs --------------------------
(***************************************************************************)
(* Proofs about two parts of the engine bridge that share no state here.   *)
(*                                                                         *)
(* Pairing: for any number of calls, cancels, unpairs and failures an      *)
(* attempt has one outcome (PairingSound). The invariant counts: every key *)
(* and every generation has a call or an event of its own. It says that    *)
(* the call which will open the next socket is the only one and that no    *)
(* socket is open when it does (OpensAlone), and, as long as no handler    *)
(* went on after its attempt, that the key which is shown to the engine is *)
(* that of the database (ShowsKey) and that a paired browser has no        *)
(* attempt (PairedRests).                                                  *)
(*                                                                         *)
(* Requests: over any connections a request keeps its slot until its one   *)
(* answer (RequestsSound). The invariant says that live requests have ids  *)
(* of their own and, unless aborted, their slots, and are of this          *)
(* connection (LiveApart, LiveOfLink), and that what a connection leaves   *)
(* is empty (LinkCarries, ChunksOfLink): that is why the next one may take *)
(* a new number. Where it took over something (rqCrossed), less is said.   *)
(***************************************************************************)
EXTENDS BridgePairing, BridgeRequests, FiniteSetTheorems, SequenceTheorems, TLAPS

(***************************************************************************)
(* BridgePairing                                                           *)
(***************************************************************************)

Named(call) == bpCalls[call] # NoPairing
Discovering(call) == Named(call) /\ bpCalls[call].step = "discover"
Identifying(call) == Named(call) /\ bpCalls[call].step \in {"identity", "making"}
Making(call) == Named(call) /\ bpCalls[call].step = "making"

CallsUnderWay == {call \in Sockets : Named(call)}
CallsAtDiscovery == {call \in Sockets : Discovering(call)}

\* Every key was made for a call, which then was over,
KeysForCalls == bpKeys + Cardinality(CallsUnderWay) =< bpStarts

\* and every new generation is that of a call, once, or of an event.
GenerationsForCalls ==
    bpGeneration + Cardinality(CallsAtDiscovery) =< bpStarts + bpEvents

CallsAhead ==
    \A call \in Sockets :
        /\ Named(call) => /\ call =< bpStarts /\ bpEngine[call] = "none"
                          /\ bpCalls[call].generation =< bpGeneration
        /\ call > bpStarts => bpEngine[call] = "none"

\* A socket and its context come and go together.
SocketHasContext ==
    bpSocket # 0 => bpContext # NoPairing /\ bpEngine[bpSocket] # "none"

\* The call that will open the next socket is the only one, and no socket is left.
OpensAlone ==
    \A call \in Sockets : Identifying(call) /\ ~Overtaken(call) =>
        /\ bpSocket = 0
        /\ \A other \in Sockets : Identifying(other) /\ ~Overtaken(other) => other = call

\* A handler is of a socket that was answered; one that stores an approval of the
\* current socket has the key of its context.
HandlersOwn ==
    \A handler \in bpHandlers :
        /\ bpEngine[handler.context] \in {"pending", "done"}
        /\ (handler.step = "store" /\ handler.context = bpSocket) =>
              bpContext.request = bpSocket /\ handler.key = bpContext.key

\* The caller is answered by what shows the request.
ShownIsAnswered ==
    /\ (bpContext # NoPairing /\ bpContext.request # 0) => ~bpWaiting
    /\ bpTimer \in Sockets => ~bpWaiting

UnpairsPaired == bpUnpair # "none" => bpPaired # NoPairing

CancelledRests ==
    bpCancelled =>
        /\ bpHandlers = {} /\ bpPaired = NoPairing /\ bpSocket = 0
        /\ \A call \in Sockets : Named(call) => Overtaken(call)

PairingFields ==
    /\ KeysForCalls /\ GenerationsForCalls /\ CallsAhead
    /\ NoPairingSocketLeft /\ SocketHasContext /\ OpensAlone
    /\ HandlersOwn /\ ShownIsAnswered /\ UnpairsPaired /\ CancelledRests

\* A key is made by one call at a time, when there is none.
MakesFirstKey ==
    \A call \in Sockets : Making(call) =>
        bpKey = 0 /\ \A other \in Sockets : Making(other) => other = call

\* An attempt shows the engine the key that is in the database.
ShowsKey == bpContext # NoPairing => bpContext.key = bpKey

\* A browser that is paired makes no attempt.
PairedRests ==
    bpPaired # NoPairing =>
        /\ bpSocket = 0 /\ bpState.state # "pending"
        /\ \A call \in Sockets : Identifying(call) => Overtaken(call)

PairedWithKey ==
    (bpPaired # NoPairing /\ bpUnpair \in {"none", "clear"} /\ ~bpHalf) => bpPaired = bpKey

ShownIsCurrent ==
    bpState.state = "pending" /\ ~bpStale =>
        \/ bpSocket = bpState.request /\ bpTimer = bpState.request /\ bpContext.request = bpState.request
        \/ \E call \in Sockets : Identifying(call) /\ ~Overtaken(call)

WaitsForTimer == bpWaiting => bpTimer # NoPairing

PairingOrder ==
    /\ MakesFirstKey /\ ShowsKey /\ PairedRests /\ PairedWithKey /\ ShownIsCurrent /\ WaitsForTimer

\* The parts of the type invariant; the bounds of the counters follow from the others.
PairingCounts ==
    /\ bpKeys \in Nat /\ bpGeneration \in Nat
    /\ bpStarts \in 0 .. MaxStarts /\ bpEvents \in 0 .. MaxBpEvents
    /\ bpCalls \in [Sockets -> {NoPairing} \cup
                      [step : {"discover", "identity", "making"}, generation : Nat]]
PairingValues ==
    /\ bpPaired \in Keys \cup {NoPairing} /\ bpKey \in Keys \cup {0}
    /\ bpState \in [state : PairingStates, request : Sockets \cup {0}]
    /\ bpSocket \in Sockets \cup {0} /\ bpOpen \subseteq Sockets
    /\ bpContext \in {NoPairing} \cup
         [socket : Sockets, key : Keys, request : Sockets \cup {0}]
    /\ bpContext # NoPairing => bpContext.socket = bpSocket
    /\ bpTimer \in Sockets \cup {0, NoPairing}
    /\ bpEngine \in [Sockets -> {"none", "asked", "pending", "done"}]
    /\ bpHandlers \subseteq [step : {"code", "store"}, context : Sockets, key : Keys]
    /\ bpUnpair \in {"none", "clear", "store"}
PairingFlags ==
    /\ bpWaiting \in BOOLEAN /\ bpCrossed \in BOOLEAN /\ bpHalf \in BOOLEAN
    /\ bpStale \in BOOLEAN /\ bpCancelled \in BOOLEAN

PairingInv ==
    /\ PairingCounts /\ PairingValues /\ PairingFlags
    /\ PairingFields /\ (~bpCrossed => PairingOrder)

-----------------------------------------------------------------------------
(* Counting the calls *)

LEMMA CallsCounted ==
    ASSUME PairingCounts
    PROVE  /\ IsFiniteSet(CallsUnderWay) /\ Cardinality(CallsUnderWay) \in Nat
           /\ IsFiniteSet(CallsAtDiscovery) /\ Cardinality(CallsAtDiscovery) \in Nat
<1>1. IsFiniteSet(Sockets)
    BY BridgePairingConstants, FS_Interval DEF Sockets
<1>2. CallsUnderWay \in SUBSET Sockets /\ CallsAtDiscovery \in SUBSET Sockets
    BY DEF CallsUnderWay, CallsAtDiscovery
<1>3. IsFiniteSet(CallsUnderWay) /\ IsFiniteSet(CallsAtDiscovery)
    BY <1>1, <1>2, FS_Subset
<1> QED
    BY <1>3, FS_CardinalityType

\* There is a key left for a call that is under way.
LEMMA KeyRoom ==
    ASSUME PairingCounts, KeysForCalls, NEW call \in Sockets, Named(call)
    PROVE  bpKeys + 1 \in Keys
<1>1. call \in CallsUnderWay
    BY DEF CallsUnderWay
<1>2. IsFiniteSet(CallsUnderWay) /\ Cardinality(CallsUnderWay) \in Nat
    BY CallsCounted
<1>3. Cardinality(CallsUnderWay \ {call}) = Cardinality(CallsUnderWay) - 1
      /\ Cardinality(CallsUnderWay \ {call}) \in Nat
    BY <1>1, <1>2, FS_RemoveElement, FS_CardinalityType
<1> QED
    BY <1>2, <1>3, BridgePairingConstants DEF KeysForCalls, PairingCounts, Keys

LEMMA CallLeaves ==
    ASSUME PairingCounts, NEW call \in Sockets, Named(call),
           bpCalls' = [bpCalls EXCEPT ![call] = NoPairing]
    PROVE  /\ Cardinality(CallsUnderWay)' = Cardinality(CallsUnderWay) - 1
           /\ Cardinality(CallsAtDiscovery)' \in Nat
           /\ Cardinality(CallsAtDiscovery)' =< Cardinality(CallsAtDiscovery)
<1>1. CallsUnderWay' = CallsUnderWay \ {call} /\ call \in CallsUnderWay
    BY DEF CallsUnderWay, Named, PairingCounts
<1>2. CallsAtDiscovery' = CallsAtDiscovery \ {call}
    BY DEF CallsAtDiscovery, Named, Discovering, PairingCounts
<1>3. /\ IsFiniteSet(CallsUnderWay) /\ IsFiniteSet(CallsAtDiscovery)
      /\ Cardinality(CallsUnderWay) \in Nat /\ Cardinality(CallsAtDiscovery) \in Nat
    BY CallsCounted
<1>4. Cardinality(CallsUnderWay \ {call}) = Cardinality(CallsUnderWay) - 1
    BY <1>1, <1>3, FS_RemoveElement
<1>5. /\ Cardinality(CallsAtDiscovery \ {call}) \in Nat
      /\ Cardinality(CallsAtDiscovery \ {call}) =< Cardinality(CallsAtDiscovery)
    BY <1>3, FS_Subset, FS_CardinalityType
<1> QED
    BY <1>1, <1>2, <1>4, <1>5

LEMMA CallMovesOn ==
    ASSUME PairingCounts, NEW call \in Sockets, Discovering(call), NEW generation \in Nat,
           bpCalls' = [bpCalls EXCEPT ![call] = [step |-> "identity", generation |-> generation]]
    PROVE  /\ Cardinality(CallsUnderWay)' = Cardinality(CallsUnderWay)
           /\ Cardinality(CallsAtDiscovery)' = Cardinality(CallsAtDiscovery) - 1
<1> DEFINE next == [step |-> "identity", generation |-> generation]
<1>1. next # NoPairing /\ next.step # "discover"
    BY BridgePairingConstants
<1>2. bpCalls'[call] = next /\ \A other \in Sockets \ {call} : bpCalls'[other] = bpCalls[other]
    BY DEF PairingCounts
<1>3. CallsUnderWay' = CallsUnderWay
    BY <1>1, <1>2 DEF CallsUnderWay, Named, Discovering
<1>4. CallsAtDiscovery' = CallsAtDiscovery \ {call} /\ call \in CallsAtDiscovery
    BY <1>1, <1>2 DEF CallsAtDiscovery, Named, Discovering
<1>5. IsFiniteSet(CallsAtDiscovery)
    BY CallsCounted
<1> QED
    BY <1>3, <1>4, <1>5, FS_RemoveElement

\* The parts of a call under way.
LEMMA NamedCalls ==
    ASSUME PairingCounts, NEW call \in Sockets, Named(call)
    PROVE  /\ bpCalls[call] \in [step : {"discover", "identity", "making"}, generation : Nat]
           /\ bpCalls[call].generation \in Nat
BY DEF PairingCounts, Named

-----------------------------------------------------------------------------
(* Pairing: the initial state *)

LEMMA PairingInitInvariant == PairingInit => PairingInv
<1> SUFFICES ASSUME PairingInit PROVE PairingInv
    OBVIOUS
<1> USE BridgePairingConstants
<1>1. PairingCounts /\ PairingValues
    BY DEF PairingInit, PairingCounts, PairingValues, PairingStates, Sockets, Keys
<1>2. PairingFlags
    BY DEF PairingInit, PairingFlags
<1>3. KeysForCalls /\ GenerationsForCalls
  <2>1. CallsUnderWay = {} /\ CallsAtDiscovery = {}
    BY DEF PairingInit, CallsUnderWay, CallsAtDiscovery, Named, Discovering
  <2> QED
    BY <2>1, FS_EmptySet DEF PairingInit, KeysForCalls, GenerationsForCalls
<1>4. /\ CallsAhead /\ NoPairingSocketLeft /\ SocketHasContext /\ OpensAlone /\ HandlersOwn
      /\ ShownIsAnswered /\ UnpairsPaired /\ CancelledRests
    BY DEF PairingInit, CallsAhead, NoPairingSocketLeft, SocketHasContext, OpensAlone, HandlersOwn,
           ShownIsAnswered, UnpairsPaired, CancelledRests, Named, Identifying, Sockets
<1>5. PairingOrder
    BY DEF PairingInit, PairingOrder, MakesFirstKey, ShowsKey, PairedRests, PairedWithKey,
           ShownIsCurrent, WaitsForTimer, Named, Making
<1> QED
    BY <1>1, <1>2, <1>3, <1>4, <1>5 DEF PairingInv, PairingFields

-----------------------------------------------------------------------------
(* Pairing: what a call of startPairing comes to *)

\* It gives up, overtaken or without an engine.
LEMMA CallGivesUpKeepsPairing ==
    ASSUME PairingInv, NEW call \in Sockets,
           Named(call),
           ~Identifying(call) \/ Overtaken(call) \/ bpStale' \/ bpState.state # "pending",
           CallEnds(call),
           bpState' \in {bpState, [state |-> "error", request |-> 0]},
           bpStale' \in BOOLEAN, bpStale => bpStale', bpEvents' = bpEvents \/ PairingEvent,
           UNCHANGED <<bpStore, bpGeneration, bpSocket, bpContext, bpTimer, bpWaiting, bpOpen,
                     bpEngine, bpCrossed, bpHandlers, bpUnpair, bpHalf, bpCancelled, bpStarts>>
    PROVE  PairingInv'
<1> USE BridgePairingConstants DEF CallEnds, PairingEvent, bpAttempt, bpStore, bpHistory
<1>0. PairingCounts /\ PairingValues /\ PairingFlags /\ PairingFields /\ (~bpCrossed => PairingOrder)
    BY DEF PairingInv
<1>1. PairingCounts'
    BY <1>0 DEF PairingCounts, Sockets, PairingFields, CallsAhead
<1>2. PairingValues'
    BY <1>0 DEF PairingCounts, PairingValues, PairingStates, Sockets, Keys
<1>3. PairingFlags'
    BY <1>0, Zenon DEF PairingFlags
<1>4. KeysForCalls' /\ GenerationsForCalls'
  <2>1. /\ Cardinality(CallsUnderWay)' = Cardinality(CallsUnderWay) - 1
        /\ Cardinality(CallsAtDiscovery)' \in Nat /\ Cardinality(CallsAtDiscovery)' =< Cardinality(CallsAtDiscovery)
    BY <1>0, CallLeaves DEF Named, Identifying, Making
  <2>2. Cardinality(CallsUnderWay) \in Nat /\ Cardinality(CallsAtDiscovery) \in Nat
    BY <1>0, CallsCounted
  <2> QED
    BY <1>0, <2>1, <2>2 DEF PairingCounts, PairingFields, KeysForCalls, GenerationsForCalls
<1>5. CallsAhead'
    BY <1>0 DEF PairingFields, CallsAhead, Named, PairingCounts, PairingValues, Sockets, Keys
<1>6. NoPairingSocketLeft'
    BY <1>0 DEF PairingFields, NoPairingSocketLeft, OpensAlone, Named, Discovering, Identifying,
       Making, Overtaken, PairingCounts, PairingValues, Sockets, Keys
<1>7. SocketHasContext'
    BY <1>0 DEF PairingFields, SocketHasContext, PairingCounts, PairingValues, Sockets, Keys
<1>8. OpensAlone'
    BY <1>0 DEF PairingFields, OpensAlone, CallsAhead, Named, Discovering, Identifying, Making,
       Overtaken, PairingCounts, PairingValues, Sockets, Keys
<1>9. HandlersOwn'
    BY <1>0 DEF PairingFields, HandlersOwn, SocketHasContext, CallsAhead, Named, Discovering,
       Identifying, Making, Overtaken, PairingCounts, PairingValues, Sockets, Keys
<1>10. ShownIsAnswered' /\ UnpairsPaired'
    BY <1>0 DEF PairingFields, ShownIsAnswered, UnpairsPaired, PairingCounts, PairingValues, Sockets,
       Keys
<1>11. CancelledRests'
    BY <1>0 DEF PairingFields, CancelledRests, CallsAhead, Named, Discovering, Identifying, Making,
       Overtaken, PairingCounts, PairingValues, Sockets, Keys
<1>12. ASSUME ~bpCrossed' PROVE PairingOrder'
  <2>0. ~bpCrossed /\ PairingOrder
    BY <1>0, <1>12
  <2>1. MakesFirstKey'
    BY <1>0, <1>12, <2>0 DEF PairingFields, PairingOrder, MakesFirstKey, Named, Discovering,
       Identifying, Making, Overtaken, PairingCounts, PairingValues, Sockets, Keys
  <2>2. ShowsKey'
    BY <1>0, <1>12, <2>0 DEF PairingFields, PairingOrder, ShowsKey, MakesFirstKey, PairedRests,
       UnpairsPaired, SocketHasContext, Named, Discovering, Identifying, Making, Overtaken,
       PairingCounts, PairingValues, Sockets, Keys
  <2>3. PairedRests'
    BY <1>0, <1>12, <2>0 DEF PairingFields, PairingOrder, PairedRests, HandlersOwn, OpensAlone,
       UnpairsPaired, SocketHasContext, CallsAhead, Named, Discovering, Identifying, Making,
       Overtaken, PairingCounts, PairingValues, Sockets, Keys
  <2>4. PairedWithKey'
    BY <1>0, <1>12, <2>0 DEF PairingFields, PairingOrder, PairedWithKey, HandlersOwn, ShowsKey,
       UnpairsPaired, MakesFirstKey, PairedRests, SocketHasContext, Named, Discovering, Identifying,
       Making, Overtaken, PairingCounts, PairingValues, Sockets, Keys
  <2>5. ShownIsCurrent'
    BY <1>0, <1>12, <2>0 DEF PairingFields, PairingOrder, ShownIsCurrent, PairedRests, OpensAlone,
       SocketHasContext, CallsAhead, Named, Discovering, Identifying, Making, Overtaken,
       PairingCounts, PairingValues, Sockets, Keys
  <2>6. WaitsForTimer'
    BY <1>0, <1>12, <2>0 DEF PairingFields, PairingOrder, WaitsForTimer, HandlersOwn, ShownIsAnswered,
       SocketHasContext, Named, Discovering, Identifying, Making, Overtaken, PairingCounts,
       PairingValues, Sockets, Keys
  <2> QED
    BY <2>1, <2>2, <2>3, <2>4, <2>5, <2>6 DEF PairingOrder
<1> QED
    BY <1>1, <1>2, <1>3, <1>4, <1>5, <1>6, <1>7, <1>8, <1>9, <1>10, <1>11, <1>12 DEF PairingInv,
       PairingFields

\* It goes on to the identity, and overtakes the others.
LEMMA CallGoesOnKeepsPairing ==
    ASSUME PairingInv, NEW call \in Sockets,
           Discovering(call),
           ~Overtaken(call),
           bpPaired = NoPairing,
           CancelPairing,
           UNCHANGED bpState,
           bpCalls' = [bpCalls EXCEPT ![call] = [step |-> "identity", generation |-> bpGeneration']],
           UNCHANGED <<bpStore, bpEngine, bpCrossed, bpHandlers, bpUnpair, bpHalf, bpStale, bpCancelled,
                      bpStarts, bpEvents>>
    PROVE  PairingInv'
<1> USE BridgePairingConstants DEF CancelPairing, bpAttempt, bpStore, bpHistory
<1>0. PairingCounts /\ PairingValues /\ PairingFlags /\ PairingFields /\ (~bpCrossed => PairingOrder)
    BY DEF PairingInv
<1>1. PairingCounts'
    BY <1>0 DEF PairingCounts, Sockets, PairingFields, CallsAhead
<1>2. PairingValues'
    BY <1>0 DEF PairingCounts, PairingValues, PairingStates, Sockets, Keys
<1>3. PairingFlags'
    BY <1>0, Zenon DEF PairingFlags
<1>4. KeysForCalls' /\ GenerationsForCalls'
  <2>1. /\ Cardinality(CallsUnderWay)' = Cardinality(CallsUnderWay)
        /\ Cardinality(CallsAtDiscovery)' = Cardinality(CallsAtDiscovery) - 1
    <3>1. bpGeneration' \in Nat
      BY <1>0 DEF PairingCounts
    <3>2. bpCalls' = [bpCalls EXCEPT ![call] = [step |-> "identity", generation |-> bpGeneration']]
      OBVIOUS
    <3> QED
      BY <1>0, <3>1, <3>2, CallMovesOn
  <2>2. Cardinality(CallsUnderWay) \in Nat /\ Cardinality(CallsAtDiscovery) \in Nat
    BY <1>0, CallsCounted
  <2> QED
    BY <1>0, <2>1, <2>2 DEF PairingCounts, PairingFields, KeysForCalls, GenerationsForCalls
<1>5. CallsAhead'
  <2> SUFFICES ASSUME NEW other \in Sockets
               PROVE  /\ Named(other)' => /\ other =< bpStarts' /\ bpEngine'[other] = "none"
                                         /\ bpCalls'[other].generation =< bpGeneration'
                      /\ other > bpStarts' => bpEngine'[other] = "none"
    BY DEF CallsAhead
  <2>1. /\ Named(other) => /\ other =< bpStarts /\ bpEngine[other] = "none"
                           /\ bpCalls[other].generation =< bpGeneration
                           /\ bpCalls[other].generation \in Nat
        /\ other > bpStarts => bpEngine[other] = "none"
    BY <1>0, NamedCalls DEF PairingFields, CallsAhead
  <2>2. bpGeneration \in Nat
    BY <1>0 DEF PairingCounts
  <2> QED
    BY <1>0, <2>1, <2>2 DEF Named, Discovering, PairingCounts, Sockets
<1>6. NoPairingSocketLeft'
    BY <1>0 DEF PairingFields, NoPairingSocketLeft, OpensAlone, Named, Discovering, Identifying,
       Making, Overtaken, PairingCounts, PairingValues, Sockets, Keys
<1>7. SocketHasContext'
    BY <1>0 DEF PairingFields, SocketHasContext, PairingCounts, PairingValues, Sockets, Keys
<1>8. OpensAlone'
    BY <1>0 DEF PairingFields, OpensAlone, CallsAhead, Named, Discovering, Identifying, Making,
       Overtaken, PairingCounts, PairingValues, Sockets, Keys
<1>9. HandlersOwn'
    BY <1>0 DEF PairingFields, HandlersOwn, SocketHasContext, CallsAhead, Named, Discovering,
       Identifying, Making, Overtaken, PairingCounts, PairingValues, Sockets, Keys
<1>10. ShownIsAnswered' /\ UnpairsPaired'
    BY <1>0 DEF PairingFields, ShownIsAnswered, UnpairsPaired, PairingCounts, PairingValues, Sockets,
       Keys
<1>11. CancelledRests'
    BY <1>0 DEF PairingFields, CancelledRests, CallsAhead, Named, Discovering, Identifying, Making,
       Overtaken, PairingCounts, PairingValues, Sockets, Keys
<1>12. ASSUME ~bpCrossed' PROVE PairingOrder'
  <2>0. ~bpCrossed /\ PairingOrder
    BY <1>0, <1>12
  <2>1. MakesFirstKey'
    BY <1>0, <1>12, <2>0 DEF PairingFields, PairingOrder, MakesFirstKey, Named, Discovering,
       Identifying, Making, Overtaken, PairingCounts, PairingValues, Sockets, Keys
  <2>2. ShowsKey'
    BY <1>0, <1>12, <2>0 DEF PairingFields, PairingOrder, ShowsKey, MakesFirstKey, PairedRests,
       UnpairsPaired, SocketHasContext, Named, Discovering, Identifying, Making, Overtaken,
       PairingCounts, PairingValues, Sockets, Keys
  <2>3. PairedRests'
    BY <1>0, <1>12, <2>0 DEF PairingFields, PairingOrder, PairedRests, HandlersOwn, OpensAlone,
       UnpairsPaired, SocketHasContext, CallsAhead, Named, Discovering, Identifying, Making,
       Overtaken, PairingCounts, PairingValues, Sockets, Keys
  <2>4. PairedWithKey'
    BY <1>0, <1>12, <2>0 DEF PairingFields, PairingOrder, PairedWithKey, HandlersOwn, ShowsKey,
       UnpairsPaired, MakesFirstKey, PairedRests, SocketHasContext, Named, Discovering, Identifying,
       Making, Overtaken, PairingCounts, PairingValues, Sockets, Keys
  <2>5. ShownIsCurrent'
    BY <1>0, <1>12, <2>0 DEF PairingFields, PairingOrder, ShownIsCurrent, PairedRests, OpensAlone,
       SocketHasContext, CallsAhead, Named, Discovering, Identifying, Making, Overtaken,
       PairingCounts, PairingValues, Sockets, Keys
  <2>6. WaitsForTimer'
    BY <1>0, <1>12, <2>0 DEF PairingFields, PairingOrder, WaitsForTimer, HandlersOwn, ShownIsAnswered,
       SocketHasContext, Named, Discovering, Identifying, Making, Overtaken, PairingCounts,
       PairingValues, Sockets, Keys
  <2> QED
    BY <2>1, <2>2, <2>3, <2>4, <2>5, <2>6 DEF PairingOrder
<1> QED
    BY <1>1, <1>2, <1>3, <1>4, <1>5, <1>6, <1>7, <1>8, <1>9, <1>10, <1>11, <1>12 DEF PairingInv,
       PairingFields

\* It makes the first key.
LEMMA CallMakesKeepsPairing ==
    ASSUME PairingInv, NEW call \in Sockets,
           Identifying(call),
           ~Making(call),
           bpKey = 0,
           bpCalls' = [bpCalls EXCEPT ![call].step = "making"],
           bpCrossed' = (bpCrossed \/ \E other \in Sockets : Making(other)),
           UNCHANGED <<bpStore, bpGeneration, bpAttempt, bpEngine, bpHandlers, bpUnpair, bpHalf, bpStale,
                      bpCancelled, bpStarts, bpEvents>>
    PROVE  PairingInv'
<1> USE BridgePairingConstants DEF bpAttempt, bpStore, bpHistory
<1>0. PairingCounts /\ PairingValues /\ PairingFlags /\ PairingFields /\ (~bpCrossed => PairingOrder)
    BY DEF PairingInv
<1>1. PairingCounts'
  <2>1. bpCalls[call] \in [step : {"discover", "identity", "making"}, generation : Nat]
    BY <1>0, NamedCalls DEF Identifying
  <2>2. [bpCalls[call] EXCEPT !.step = "making"] \in [step : {"discover", "identity", "making"}, generation : Nat]
    BY <2>1
  <2> QED
    BY <1>0, <2>2 DEF PairingCounts
<1>2. PairingValues'
    BY <1>0 DEF PairingCounts, PairingValues, PairingStates, Sockets, Keys
<1>3. PairingFlags'
    BY <1>0, Zenon DEF PairingFlags
<1>4. KeysForCalls' /\ GenerationsForCalls'
  <2>1. CallsUnderWay' = CallsUnderWay /\ CallsAtDiscovery' = CallsAtDiscovery
    BY <1>0 DEF PairingCounts, Identifying, Making, CallsUnderWay, CallsAtDiscovery, Named, Discovering
  <2>2. Cardinality(CallsUnderWay) \in Nat /\ Cardinality(CallsAtDiscovery) \in Nat
    BY <1>0, CallsCounted
  <2> QED
    BY <1>0, <2>1, <2>2 DEF PairingCounts, PairingFields, KeysForCalls, GenerationsForCalls
<1>5. CallsAhead'
  <2> SUFFICES ASSUME NEW other \in Sockets
               PROVE  /\ Named(other)' => /\ other =< bpStarts' /\ bpEngine'[other] = "none"
                                         /\ bpCalls'[other].generation =< bpGeneration'
                      /\ other > bpStarts' => bpEngine'[other] = "none"
    BY DEF CallsAhead
  <2>1. /\ Named(other) => /\ other =< bpStarts /\ bpEngine[other] = "none"
                           /\ bpCalls[other].generation =< bpGeneration
                           /\ bpCalls[other].generation \in Nat
        /\ other > bpStarts => bpEngine[other] = "none"
    BY <1>0, NamedCalls DEF PairingFields, CallsAhead
  <2>2. bpGeneration \in Nat
    BY <1>0 DEF PairingCounts
  <2> QED
    BY <1>0, <2>1, <2>2 DEF Named, Identifying, PairingCounts, Sockets
<1>6. NoPairingSocketLeft'
    BY <1>0 DEF PairingFields, NoPairingSocketLeft, OpensAlone, Named, Discovering, Identifying,
       Making, Overtaken, PairingCounts, PairingValues, Sockets, Keys
<1>7. SocketHasContext'
    BY <1>0 DEF PairingFields, SocketHasContext, PairingCounts, PairingValues, Sockets, Keys
<1>8. OpensAlone'
    BY <1>0 DEF PairingFields, OpensAlone, CallsAhead, Named, Discovering, Identifying, Making,
       Overtaken, PairingCounts, PairingValues, Sockets, Keys
<1>9. HandlersOwn'
    BY <1>0 DEF PairingFields, HandlersOwn, SocketHasContext, CallsAhead, Named, Discovering,
       Identifying, Making, Overtaken, PairingCounts, PairingValues, Sockets, Keys
<1>10. ShownIsAnswered' /\ UnpairsPaired'
    BY <1>0 DEF PairingFields, ShownIsAnswered, UnpairsPaired, PairingCounts, PairingValues, Sockets,
       Keys
<1>11. CancelledRests'
    BY <1>0 DEF PairingFields, CancelledRests, CallsAhead, Named, Discovering, Identifying, Making,
       Overtaken, PairingCounts, PairingValues, Sockets, Keys
<1>12. ASSUME ~bpCrossed' PROVE PairingOrder'
  <2>0. ~bpCrossed /\ PairingOrder
    BY <1>0, <1>12
  <2>1. MakesFirstKey'
    BY <1>0, <1>12, <2>0 DEF PairingFields, PairingOrder, MakesFirstKey, Named, Discovering,
       Identifying, Making, Overtaken, PairingCounts, PairingValues, Sockets, Keys
  <2>2. ShowsKey'
    BY <1>0, <1>12, <2>0 DEF PairingFields, PairingOrder, ShowsKey, MakesFirstKey, PairedRests,
       UnpairsPaired, SocketHasContext, Named, Discovering, Identifying, Making, Overtaken,
       PairingCounts, PairingValues, Sockets, Keys
  <2>3. PairedRests'
    BY <1>0, <1>12, <2>0 DEF PairingFields, PairingOrder, PairedRests, HandlersOwn, OpensAlone,
       UnpairsPaired, SocketHasContext, CallsAhead, Named, Discovering, Identifying, Making,
       Overtaken, PairingCounts, PairingValues, Sockets, Keys
  <2>4. PairedWithKey'
    BY <1>0, <1>12, <2>0 DEF PairingFields, PairingOrder, PairedWithKey, HandlersOwn, ShowsKey,
       UnpairsPaired, MakesFirstKey, PairedRests, SocketHasContext, Named, Discovering, Identifying,
       Making, Overtaken, PairingCounts, PairingValues, Sockets, Keys
  <2>5. ShownIsCurrent'
    BY <1>0, <1>12, <2>0 DEF PairingFields, PairingOrder, ShownIsCurrent, PairedRests, OpensAlone,
       SocketHasContext, CallsAhead, Named, Discovering, Identifying, Making, Overtaken,
       PairingCounts, PairingValues, Sockets, Keys
  <2>6. WaitsForTimer'
    BY <1>0, <1>12, <2>0 DEF PairingFields, PairingOrder, WaitsForTimer, HandlersOwn, ShownIsAnswered,
       SocketHasContext, Named, Discovering, Identifying, Making, Overtaken, PairingCounts,
       PairingValues, Sockets, Keys
  <2> QED
    BY <2>1, <2>2, <2>3, <2>4, <2>5, <2>6 DEF PairingOrder
<1> QED
    BY <1>1, <1>2, <1>3, <1>4, <1>5, <1>6, <1>7, <1>8, <1>9, <1>10, <1>11, <1>12 DEF PairingInv,
       PairingFields

\* It opens its socket with the key of the database.
LEMMA CallOpensKeepsPairing ==
    ASSUME PairingInv, NEW call \in Sockets,
           Identifying(call),
           ~Overtaken(call),
           CallEnds(call),
           Opens(call, bpKey'),
           bpKey' \in Keys,
           bpKey' = bpKey \/ Making(call),
           bpKeys' \in {bpKeys, bpKeys + 1},
           UNCHANGED <<bpPaired, bpGeneration, bpCrossed, bpHandlers, bpUnpair, bpHalf, bpStale, bpCancelled,
                      bpStarts, bpEvents>>
    PROVE  PairingInv'
<1> USE BridgePairingConstants DEF CallEnds, Opens, bpAttempt, bpStore, bpHistory
<1>0. PairingCounts /\ PairingValues /\ PairingFlags /\ PairingFields /\ (~bpCrossed => PairingOrder)
    BY DEF PairingInv
<1>1. PairingCounts'
    BY <1>0 DEF PairingCounts, Sockets, PairingFields, CallsAhead
<1>2. PairingValues'
  <2>1. bpState' \in [state : PairingStates, request : Sockets \cup {0}]
    BY <1>0 DEF PairingValues, PairingStates
  <2>2. bpHandlers' \subseteq [step : {"code", "store"}, context : Sockets, key : Keys]
    BY <1>0 DEF PairingValues
  <2>3. bpEngine' \in [Sockets -> {"none", "asked", "pending", "done"}] /\ bpUnpair' \in {"none", "clear", "store"}
    BY <1>0 DEF PairingValues
  <2>4. bpPaired' \in Keys \cup {NoPairing} /\ bpKey' \in Keys \cup {0} /\ bpSocket' \in Sockets \cup {0}
        /\ bpOpen' \subseteq Sockets
    BY <1>0 DEF PairingValues
  <2>5. bpTimer' \in Sockets \cup {0, NoPairing}
    BY <1>0 DEF PairingValues
  <2>6. /\ bpContext' \in {NoPairing} \cup [socket : Sockets, key : Keys, request : Sockets \cup {0}]
        /\ bpContext' # NoPairing => bpContext'.socket = bpSocket'
    BY <1>0 DEF PairingValues
  <2> QED
    BY <2>1, <2>2, <2>3, <2>4, <2>5, <2>6 DEF PairingValues
<1>3. PairingFlags'
    BY <1>0, Zenon DEF PairingFlags
<1>4. KeysForCalls' /\ GenerationsForCalls'
  <2>1. /\ Cardinality(CallsUnderWay)' = Cardinality(CallsUnderWay) - 1
        /\ Cardinality(CallsAtDiscovery)' \in Nat /\ Cardinality(CallsAtDiscovery)' =< Cardinality(CallsAtDiscovery)
    BY <1>0, CallLeaves DEF Named, Identifying, Making
  <2>2. Cardinality(CallsUnderWay) \in Nat /\ Cardinality(CallsAtDiscovery) \in Nat
    BY <1>0, CallsCounted
  <2> QED
    BY <1>0, <2>1, <2>2 DEF PairingCounts, PairingFields, KeysForCalls, GenerationsForCalls
<1>5. CallsAhead'
  <2> SUFFICES ASSUME NEW other \in Sockets
               PROVE  /\ Named(other)' => /\ other =< bpStarts' /\ bpEngine'[other] = "none"
                                         /\ bpCalls'[other].generation =< bpGeneration'
                      /\ other > bpStarts' => bpEngine'[other] = "none"
    BY DEF CallsAhead
  <2>1. /\ Named(other) => /\ other =< bpStarts /\ bpEngine[other] = "none"
                           /\ bpCalls[other].generation =< bpGeneration
                           /\ bpCalls[other].generation \in Nat
        /\ other > bpStarts => bpEngine[other] = "none"
    BY <1>0, NamedCalls DEF PairingFields, CallsAhead
  <2>2. bpGeneration \in Nat
    BY <1>0 DEF PairingCounts
  <2> QED
    BY <1>0, <2>1, <2>2 DEF Named, Identifying, PairingCounts, PairingValues, Sockets
<1>6. NoPairingSocketLeft'
    BY <1>0 DEF PairingFields, NoPairingSocketLeft, OpensAlone, Named, Discovering, Identifying,
       Making, Overtaken, PairingCounts, PairingValues, Sockets, Keys
<1>7. SocketHasContext'
    BY <1>0 DEF PairingFields, SocketHasContext, PairingCounts, PairingValues, Sockets, Keys
<1>8. OpensAlone'
    BY <1>0 DEF PairingFields, OpensAlone, CallsAhead, Named, Discovering, Identifying, Making,
       Overtaken, PairingCounts, PairingValues, Sockets, Keys
<1>9. HandlersOwn'
    BY <1>0 DEF PairingFields, HandlersOwn, SocketHasContext, CallsAhead, Named, Discovering,
       Identifying, Making, Overtaken, PairingCounts, PairingValues, Sockets, Keys
<1>10. ShownIsAnswered' /\ UnpairsPaired'
    BY <1>0 DEF PairingFields, ShownIsAnswered, UnpairsPaired, PairingCounts, PairingValues, Sockets,
       Keys
<1>11. CancelledRests'
    BY <1>0 DEF PairingFields, CancelledRests, CallsAhead, Named, Discovering, Identifying, Making,
       Overtaken, PairingCounts, PairingValues, Sockets, Keys
<1>12. ASSUME ~bpCrossed' PROVE PairingOrder'
  <2>0. ~bpCrossed /\ PairingOrder
    BY <1>0, <1>12
  <2>1. MakesFirstKey'
    BY <1>0, <1>12, <2>0 DEF PairingFields, PairingOrder, MakesFirstKey, Named, Discovering,
       Identifying, Making, Overtaken, PairingCounts, PairingValues, Sockets, Keys
  <2>2. ShowsKey'
    BY <1>0, <1>12, <2>0 DEF PairingFields, PairingOrder, ShowsKey, MakesFirstKey, PairedRests,
       UnpairsPaired, SocketHasContext, Named, Discovering, Identifying, Making, Overtaken,
       PairingCounts, PairingValues, Sockets, Keys
  <2>3. PairedRests'
    BY <1>0, <1>12, <2>0 DEF PairingFields, PairingOrder, PairedRests, HandlersOwn, OpensAlone,
       UnpairsPaired, SocketHasContext, CallsAhead, Named, Discovering, Identifying, Making,
       Overtaken, PairingCounts, PairingValues, Sockets, Keys
  <2>4. PairedWithKey'
    BY <1>0, <1>12, <2>0 DEF PairingFields, PairingOrder, PairedWithKey, HandlersOwn, ShowsKey,
       UnpairsPaired, MakesFirstKey, PairedRests, SocketHasContext, Named, Discovering, Identifying,
       Making, Overtaken, PairingCounts, PairingValues, Sockets, Keys
  <2>5. ShownIsCurrent'
    BY <1>0, <1>12, <2>0 DEF PairingFields, PairingOrder, ShownIsCurrent, PairedRests, OpensAlone,
       SocketHasContext, CallsAhead, Named, Discovering, Identifying, Making, Overtaken,
       PairingCounts, PairingValues, Sockets, Keys
  <2>6. WaitsForTimer'
    BY <1>0, <1>12, <2>0 DEF PairingFields, PairingOrder, WaitsForTimer, HandlersOwn, ShownIsAnswered,
       SocketHasContext, Named, Discovering, Identifying, Making, Overtaken, PairingCounts,
       PairingValues, Sockets, Keys
  <2> QED
    BY <2>1, <2>2, <2>3, <2>4, <2>5, <2>6 DEF PairingOrder
<1> QED
    BY <1>1, <1>2, <1>3, <1>4, <1>5, <1>6, <1>7, <1>8, <1>9, <1>10, <1>11, <1>12 DEF PairingInv,
       PairingFields

\* It was overtaken while it made a key.
LEMMA KeyMadeLateKeepsPairing ==
    ASSUME PairingInv, NEW call \in Sockets,
           Making(call),
           Overtaken(call),
           CallEnds(call),
           bpKey' = bpKeys + 1,
           bpKeys' = bpKeys + 1,
           UNCHANGED <<bpPaired, bpGeneration, bpAttempt, bpEngine, bpCrossed, bpHandlers, bpUnpair,
                      bpHalf, bpStale, bpCancelled, bpStarts, bpEvents>>
    PROVE  PairingInv'
<1> USE BridgePairingConstants DEF CallEnds, bpAttempt, bpStore, bpHistory
<1>0. PairingCounts /\ PairingValues /\ PairingFlags /\ PairingFields /\ (~bpCrossed => PairingOrder)
    BY DEF PairingInv
<1>1. PairingCounts'
    BY <1>0 DEF PairingCounts, Sockets, PairingFields, CallsAhead
<1>2. PairingValues'
  <2>1. bpKeys + 1 \in Keys
    BY <1>0, KeyRoom DEF PairingFields, Making
  <2> QED
    BY <1>0, <2>1 DEF PairingValues, PairingCounts
<1>3. PairingFlags'
    BY <1>0, Zenon DEF PairingFlags
<1>4. KeysForCalls' /\ GenerationsForCalls'
  <2>1. /\ Cardinality(CallsUnderWay)' = Cardinality(CallsUnderWay) - 1
        /\ Cardinality(CallsAtDiscovery)' \in Nat /\ Cardinality(CallsAtDiscovery)' =< Cardinality(CallsAtDiscovery)
    BY <1>0, CallLeaves DEF Named, Identifying, Making
  <2>2. Cardinality(CallsUnderWay) \in Nat /\ Cardinality(CallsAtDiscovery) \in Nat
    BY <1>0, CallsCounted
  <2> QED
    BY <1>0, <2>1, <2>2 DEF PairingCounts, PairingFields, KeysForCalls, GenerationsForCalls
<1>5. CallsAhead'
    BY <1>0 DEF PairingFields, CallsAhead, Named, PairingCounts, PairingValues, Sockets, Keys
<1>6. NoPairingSocketLeft'
    BY <1>0 DEF PairingFields, NoPairingSocketLeft, OpensAlone, Named, Discovering, Identifying,
       Making, Overtaken, PairingCounts, PairingValues, Sockets, Keys
<1>7. SocketHasContext'
    BY <1>0 DEF PairingFields, SocketHasContext, PairingCounts, PairingValues, Sockets, Keys
<1>8. OpensAlone'
    BY <1>0 DEF PairingFields, OpensAlone, CallsAhead, Named, Discovering, Identifying, Making,
       Overtaken, PairingCounts, PairingValues, Sockets, Keys
<1>9. HandlersOwn'
    BY <1>0 DEF PairingFields, HandlersOwn, SocketHasContext, CallsAhead, Named, Discovering,
       Identifying, Making, Overtaken, PairingCounts, PairingValues, Sockets, Keys
<1>10. ShownIsAnswered' /\ UnpairsPaired'
    BY <1>0 DEF PairingFields, ShownIsAnswered, UnpairsPaired, PairingCounts, PairingValues, Sockets,
       Keys
<1>11. CancelledRests'
    BY <1>0 DEF PairingFields, CancelledRests, CallsAhead, Named, Discovering, Identifying, Making,
       Overtaken, PairingCounts, PairingValues, Sockets, Keys
<1>12. ASSUME ~bpCrossed' PROVE PairingOrder'
  <2>0. ~bpCrossed /\ PairingOrder
    BY <1>0, <1>12
  <2>1. MakesFirstKey'
    BY <1>0, <1>12, <2>0 DEF PairingFields, PairingOrder, MakesFirstKey, Named, Discovering,
       Identifying, Making, Overtaken, PairingCounts, PairingValues, Sockets, Keys
  <2>2. ShowsKey'
    BY <1>0, <1>12, <2>0 DEF PairingFields, PairingOrder, ShowsKey, MakesFirstKey, PairedRests,
       UnpairsPaired, SocketHasContext, Named, Discovering, Identifying, Making, Overtaken,
       PairingCounts, PairingValues, Sockets, Keys
  <2>3. PairedRests'
    BY <1>0, <1>12, <2>0 DEF PairingFields, PairingOrder, PairedRests, HandlersOwn, OpensAlone,
       UnpairsPaired, SocketHasContext, CallsAhead, Named, Discovering, Identifying, Making,
       Overtaken, PairingCounts, PairingValues, Sockets, Keys
  <2>4. PairedWithKey'
    BY <1>0, <1>12, <2>0 DEF PairingFields, PairingOrder, PairedWithKey, HandlersOwn, ShowsKey,
       UnpairsPaired, MakesFirstKey, PairedRests, SocketHasContext, Named, Discovering, Identifying,
       Making, Overtaken, PairingCounts, PairingValues, Sockets, Keys
  <2>5. ShownIsCurrent'
    BY <1>0, <1>12, <2>0 DEF PairingFields, PairingOrder, ShownIsCurrent, PairedRests, OpensAlone,
       SocketHasContext, CallsAhead, Named, Discovering, Identifying, Making, Overtaken,
       PairingCounts, PairingValues, Sockets, Keys
  <2>6. WaitsForTimer'
    BY <1>0, <1>12, <2>0 DEF PairingFields, PairingOrder, WaitsForTimer, HandlersOwn, ShownIsAnswered,
       SocketHasContext, Named, Discovering, Identifying, Making, Overtaken, PairingCounts,
       PairingValues, Sockets, Keys
  <2> QED
    BY <2>1, <2>2, <2>3, <2>4, <2>5, <2>6 DEF PairingOrder
<1> QED
    BY <1>1, <1>2, <1>3, <1>4, <1>5, <1>6, <1>7, <1>8, <1>9, <1>10, <1>11, <1>12 DEF PairingInv,
       PairingFields

-----------------------------------------------------------------------------
(* Pairing: the other steps *)

LEMMA UserCancelsKeepsPairing ==
    ASSUME PairingInv,
           UserCancels
    PROVE  PairingInv'
<1> USE BridgePairingConstants DEF UserCancels, PairingEvent, CancelPairing, bpAttempt, bpStore,
    bpHistory
<1>0. PairingCounts /\ PairingValues /\ PairingFlags /\ PairingFields /\ (~bpCrossed => PairingOrder)
    BY DEF PairingInv
<1>1. PairingCounts'
    BY <1>0 DEF PairingCounts, Sockets, PairingFields, CallsAhead
<1>2. PairingValues'
    BY <1>0 DEF PairingCounts, PairingValues, PairingStates, Sockets, Keys
<1>3. PairingFlags'
    BY <1>0, Zenon DEF PairingFlags
<1>4. KeysForCalls' /\ GenerationsForCalls'
  <2>1. CallsUnderWay' = CallsUnderWay /\ CallsAtDiscovery' = CallsAtDiscovery
    BY DEF CallsUnderWay, CallsAtDiscovery, Named, Discovering
  <2>2. Cardinality(CallsUnderWay) \in Nat /\ Cardinality(CallsAtDiscovery) \in Nat
    BY <1>0, CallsCounted
  <2> QED
    BY <1>0, <2>1, <2>2 DEF PairingCounts, PairingFields, KeysForCalls, GenerationsForCalls
<1>5. CallsAhead'
    BY <1>0 DEF PairingFields, CallsAhead, Named, PairingCounts, PairingValues, Sockets, Keys
<1>6. NoPairingSocketLeft'
    BY <1>0 DEF PairingFields, NoPairingSocketLeft, OpensAlone, Named, Discovering, Identifying,
       Making, Overtaken, PairingCounts, PairingValues, Sockets, Keys
<1>7. SocketHasContext'
    BY <1>0 DEF PairingFields, SocketHasContext, PairingCounts, PairingValues, Sockets, Keys
<1>8. OpensAlone'
    BY <1>0 DEF PairingFields, OpensAlone, CallsAhead, Named, Discovering, Identifying, Making,
       Overtaken, PairingCounts, PairingValues, Sockets, Keys
<1>9. HandlersOwn'
    BY <1>0 DEF PairingFields, HandlersOwn, SocketHasContext, CallsAhead, Named, Discovering,
       Identifying, Making, Overtaken, PairingCounts, PairingValues, Sockets, Keys
<1>10. ShownIsAnswered' /\ UnpairsPaired'
    BY <1>0 DEF PairingFields, ShownIsAnswered, UnpairsPaired, PairingCounts, PairingValues, Sockets,
       Keys
<1>11. CancelledRests'
  <2> SUFFICES ASSUME bpCancelled' PROVE CancelledRests'
    BY DEF CancelledRests
  <2>1. bpHandlers' = {} /\ bpPaired' = NoPairing
    OBVIOUS
  <2> QED
    BY <1>0, <2>1 DEF PairingFields, CancelledRests, CallsAhead, Named, Overtaken, PairingCounts,
       Sockets
<1>12. ASSUME ~bpCrossed' PROVE PairingOrder'
  <2>0. ~bpCrossed /\ PairingOrder
    BY <1>0, <1>12
  <2>1. MakesFirstKey'
    BY <1>0, <1>12, <2>0 DEF PairingFields, PairingOrder, MakesFirstKey, Named, Discovering,
       Identifying, Making, Overtaken, PairingCounts, PairingValues, Sockets, Keys
  <2>2. ShowsKey'
    BY <1>0, <1>12, <2>0 DEF PairingFields, PairingOrder, ShowsKey, MakesFirstKey, PairedRests,
       UnpairsPaired, SocketHasContext, Named, Discovering, Identifying, Making, Overtaken,
       PairingCounts, PairingValues, Sockets, Keys
  <2>3. PairedRests'
    BY <1>0, <1>12, <2>0 DEF PairingFields, PairingOrder, PairedRests, HandlersOwn, OpensAlone,
       UnpairsPaired, SocketHasContext, CallsAhead, Named, Discovering, Identifying, Making,
       Overtaken, PairingCounts, PairingValues, Sockets, Keys
  <2>4. PairedWithKey'
    BY <1>0, <1>12, <2>0 DEF PairingFields, PairingOrder, PairedWithKey, HandlersOwn, ShowsKey,
       UnpairsPaired, MakesFirstKey, PairedRests, SocketHasContext, Named, Discovering, Identifying,
       Making, Overtaken, PairingCounts, PairingValues, Sockets, Keys
  <2>5. ShownIsCurrent'
    BY <1>0, <1>12, <2>0 DEF PairingFields, PairingOrder, ShownIsCurrent, PairedRests, OpensAlone,
       SocketHasContext, CallsAhead, Named, Discovering, Identifying, Making, Overtaken,
       PairingCounts, PairingValues, Sockets, Keys
  <2>6. WaitsForTimer'
    BY <1>0, <1>12, <2>0 DEF PairingFields, PairingOrder, WaitsForTimer, HandlersOwn, ShownIsAnswered,
       SocketHasContext, Named, Discovering, Identifying, Making, Overtaken, PairingCounts,
       PairingValues, Sockets, Keys
  <2> QED
    BY <2>1, <2>2, <2>3, <2>4, <2>5, <2>6 DEF PairingOrder
<1> QED
    BY <1>1, <1>2, <1>3, <1>4, <1>5, <1>6, <1>7, <1>8, <1>9, <1>10, <1>11, <1>12 DEF PairingInv,
       PairingFields

LEMMA StartPairingKeepsPairing ==
    ASSUME PairingInv, NEW call \in Sockets,
           StartPairing(call)
    PROVE  PairingInv'
<1> USE BridgePairingConstants DEF StartPairing, bpAttempt, bpStore, bpHistory
<1>0. PairingCounts /\ PairingValues /\ PairingFlags /\ PairingFields /\ (~bpCrossed => PairingOrder)
    BY DEF PairingInv
<1>1. PairingCounts'
    BY <1>0 DEF PairingCounts, Sockets, PairingFields, CallsAhead
<1>2. PairingValues'
    BY <1>0 DEF PairingCounts, PairingValues, PairingStates, Sockets, Keys
<1>3. PairingFlags'
    BY <1>0, Zenon DEF PairingFlags
<1>4. KeysForCalls' /\ GenerationsForCalls'
  <2>1. ~Named(call)
    BY <1>0 DEF PairingFields, CallsAhead, PairingCounts, Sockets
  <2>2. CallsUnderWay' = CallsUnderWay \cup {call} /\ call \notin CallsUnderWay
    BY <1>0, <2>1 DEF CallsUnderWay, Named, PairingCounts, Sockets
  <2>3. CallsAtDiscovery' = CallsAtDiscovery \cup {call} /\ call \notin CallsAtDiscovery
    BY <1>0, <2>1 DEF CallsAtDiscovery, Named, Discovering, PairingCounts, Sockets
  <2>4. /\ IsFiniteSet(CallsUnderWay) /\ Cardinality(CallsUnderWay) \in Nat
        /\ IsFiniteSet(CallsAtDiscovery) /\ Cardinality(CallsAtDiscovery) \in Nat
    BY <1>0, CallsCounted
  <2>5. /\ Cardinality(CallsUnderWay \cup {call}) = Cardinality(CallsUnderWay) + 1
        /\ Cardinality(CallsAtDiscovery \cup {call}) = Cardinality(CallsAtDiscovery) + 1
    BY <2>2, <2>3, <2>4, FS_AddElement
  <2> QED
    BY <1>0, <2>2, <2>3, <2>4, <2>5 DEF PairingCounts, PairingFields, KeysForCalls, GenerationsForCalls
<1>5. CallsAhead'
    BY <1>0 DEF PairingFields, CallsAhead, Named, PairingCounts, PairingValues, Sockets, Keys
<1>6. NoPairingSocketLeft'
    BY <1>0 DEF PairingFields, NoPairingSocketLeft, OpensAlone, Named, Discovering, Identifying,
       Making, Overtaken, PairingCounts, PairingValues, Sockets, Keys
<1>7. SocketHasContext'
    BY <1>0 DEF PairingFields, SocketHasContext, PairingCounts, PairingValues, Sockets, Keys
<1>8. OpensAlone'
    BY <1>0 DEF PairingFields, OpensAlone, CallsAhead, Named, Discovering, Identifying, Making,
       Overtaken, PairingCounts, PairingValues, Sockets, Keys
<1>9. HandlersOwn'
    BY <1>0 DEF PairingFields, HandlersOwn, SocketHasContext, CallsAhead, Named, Discovering,
       Identifying, Making, Overtaken, PairingCounts, PairingValues, Sockets, Keys
<1>10. ShownIsAnswered' /\ UnpairsPaired'
    BY <1>0 DEF PairingFields, ShownIsAnswered, UnpairsPaired, PairingCounts, PairingValues, Sockets,
       Keys
<1>11. CancelledRests'
    BY <1>0 DEF PairingFields, CancelledRests, CallsAhead, Named, Discovering, Identifying, Making,
       Overtaken, PairingCounts, PairingValues, Sockets, Keys
<1>12. ASSUME ~bpCrossed' PROVE PairingOrder'
  <2>0. ~bpCrossed /\ PairingOrder
    BY <1>0, <1>12
  <2>1. MakesFirstKey'
    BY <1>0, <1>12, <2>0 DEF PairingFields, PairingOrder, MakesFirstKey, Named, Discovering,
       Identifying, Making, Overtaken, PairingCounts, PairingValues, Sockets, Keys
  <2>2. ShowsKey'
    BY <1>0, <1>12, <2>0 DEF PairingFields, PairingOrder, ShowsKey, MakesFirstKey, PairedRests,
       UnpairsPaired, SocketHasContext, Named, Discovering, Identifying, Making, Overtaken,
       PairingCounts, PairingValues, Sockets, Keys
  <2>3. PairedRests'
    BY <1>0, <1>12, <2>0 DEF PairingFields, PairingOrder, PairedRests, HandlersOwn, OpensAlone,
       UnpairsPaired, SocketHasContext, CallsAhead, Named, Discovering, Identifying, Making,
       Overtaken, PairingCounts, PairingValues, Sockets, Keys
  <2>4. PairedWithKey'
    BY <1>0, <1>12, <2>0 DEF PairingFields, PairingOrder, PairedWithKey, HandlersOwn, ShowsKey,
       UnpairsPaired, MakesFirstKey, PairedRests, SocketHasContext, Named, Discovering, Identifying,
       Making, Overtaken, PairingCounts, PairingValues, Sockets, Keys
  <2>5. ShownIsCurrent'
    BY <1>0, <1>12, <2>0 DEF PairingFields, PairingOrder, ShownIsCurrent, PairedRests, OpensAlone,
       SocketHasContext, CallsAhead, Named, Discovering, Identifying, Making, Overtaken,
       PairingCounts, PairingValues, Sockets, Keys
  <2>6. WaitsForTimer'
    BY <1>0, <1>12, <2>0 DEF PairingFields, PairingOrder, WaitsForTimer, HandlersOwn, ShownIsAnswered,
       SocketHasContext, Named, Discovering, Identifying, Making, Overtaken, PairingCounts,
       PairingValues, Sockets, Keys
  <2> QED
    BY <2>1, <2>2, <2>3, <2>4, <2>5, <2>6 DEF PairingOrder
<1> QED
    BY <1>1, <1>2, <1>3, <1>4, <1>5, <1>6, <1>7, <1>8, <1>9, <1>10, <1>11, <1>12 DEF PairingInv,
       PairingFields

LEMMA PairPendingKeepsPairing ==
    ASSUME PairingInv, NEW socket \in Sockets,
           PairPending(socket)
    PROVE  PairingInv'
<1> USE BridgePairingConstants DEF PairPending, Receives, bpAttempt, bpStore, bpHistory
<1>0. PairingCounts /\ PairingValues /\ PairingFlags /\ PairingFields /\ (~bpCrossed => PairingOrder)
    BY DEF PairingInv
<1>1. PairingCounts'
    BY <1>0 DEF PairingCounts, Sockets, PairingFields, CallsAhead
<1>2. PairingValues'
    BY <1>0 DEF PairingCounts, PairingValues, PairingStates, Sockets, Keys
<1>3. PairingFlags'
    BY <1>0, Zenon DEF PairingFlags
<1>4. KeysForCalls' /\ GenerationsForCalls'
    BY <1>0 DEF PairingCounts, PairingFields, KeysForCalls, GenerationsForCalls, CallsUnderWay,
       CallsAtDiscovery, Named, Discovering
<1>5. CallsAhead'
    BY <1>0 DEF PairingFields, CallsAhead, Named, PairingCounts, PairingValues, Sockets, Keys
<1>6. NoPairingSocketLeft'
    BY <1>0 DEF PairingFields, NoPairingSocketLeft, OpensAlone, Named, Discovering, Identifying,
       Making, Overtaken, PairingCounts, PairingValues, Sockets, Keys
<1>7. SocketHasContext'
    BY <1>0 DEF PairingFields, SocketHasContext, PairingCounts, PairingValues, Sockets, Keys
<1>8. OpensAlone'
    BY <1>0 DEF PairingFields, OpensAlone, CallsAhead, Named, Discovering, Identifying, Making,
       Overtaken, PairingCounts, PairingValues, Sockets, Keys
<1>9. HandlersOwn'
    BY <1>0 DEF PairingFields, HandlersOwn, SocketHasContext, CallsAhead, Named, Discovering,
       Identifying, Making, Overtaken, PairingCounts, PairingValues, Sockets, Keys
<1>10. ShownIsAnswered' /\ UnpairsPaired'
    BY <1>0 DEF PairingFields, ShownIsAnswered, UnpairsPaired, PairingCounts, PairingValues, Sockets,
       Keys
<1>11. CancelledRests'
    BY <1>0 DEF PairingFields, CancelledRests, CallsAhead, Named, Discovering, Identifying, Making,
       Overtaken, PairingCounts, PairingValues, Sockets, Keys
<1>12. ASSUME ~bpCrossed' PROVE PairingOrder'
  <2>0. ~bpCrossed /\ PairingOrder
    BY <1>0, <1>12
  <2>1. MakesFirstKey'
    BY <1>0, <1>12, <2>0 DEF PairingFields, PairingOrder, MakesFirstKey, Named, Discovering,
       Identifying, Making, Overtaken, PairingCounts, PairingValues, Sockets, Keys
  <2>2. ShowsKey'
    BY <1>0, <1>12, <2>0 DEF PairingFields, PairingOrder, ShowsKey, MakesFirstKey, PairedRests,
       UnpairsPaired, SocketHasContext, Named, Discovering, Identifying, Making, Overtaken,
       PairingCounts, PairingValues, Sockets, Keys
  <2>3. PairedRests'
    BY <1>0, <1>12, <2>0 DEF PairingFields, PairingOrder, PairedRests, HandlersOwn, OpensAlone,
       UnpairsPaired, SocketHasContext, CallsAhead, Named, Discovering, Identifying, Making,
       Overtaken, PairingCounts, PairingValues, Sockets, Keys
  <2>4. PairedWithKey'
    BY <1>0, <1>12, <2>0 DEF PairingFields, PairingOrder, PairedWithKey, HandlersOwn, ShowsKey,
       UnpairsPaired, MakesFirstKey, PairedRests, SocketHasContext, Named, Discovering, Identifying,
       Making, Overtaken, PairingCounts, PairingValues, Sockets, Keys
  <2>5. ShownIsCurrent'
    BY <1>0, <1>12, <2>0 DEF PairingFields, PairingOrder, ShownIsCurrent, PairedRests, OpensAlone,
       SocketHasContext, CallsAhead, Named, Discovering, Identifying, Making, Overtaken,
       PairingCounts, PairingValues, Sockets, Keys
  <2>6. WaitsForTimer'
    BY <1>0, <1>12, <2>0 DEF PairingFields, PairingOrder, WaitsForTimer, HandlersOwn, ShownIsAnswered,
       SocketHasContext, Named, Discovering, Identifying, Making, Overtaken, PairingCounts,
       PairingValues, Sockets, Keys
  <2> QED
    BY <2>1, <2>2, <2>3, <2>4, <2>5, <2>6 DEF PairingOrder
<1> QED
    BY <1>1, <1>2, <1>3, <1>4, <1>5, <1>6, <1>7, <1>8, <1>9, <1>10, <1>11, <1>12 DEF PairingInv,
       PairingFields

LEMMA CodeComputedKeepsPairing ==
    ASSUME PairingInv, NEW handler \in bpHandlers,
           CodeComputed(handler)
    PROVE  PairingInv'
<1> USE BridgePairingConstants DEF CodeComputed, bpAttempt, bpStore, bpHistory
<1>0. PairingCounts /\ PairingValues /\ PairingFlags /\ PairingFields /\ (~bpCrossed => PairingOrder)
    BY DEF PairingInv
<1>1. PairingCounts'
    BY <1>0 DEF PairingCounts, Sockets, PairingFields, CallsAhead
<1>2. PairingValues'
    BY <1>0 DEF PairingCounts, PairingValues, PairingStates, Sockets, Keys
<1>3. PairingFlags'
    BY <1>0, Zenon DEF PairingFlags
<1>4. KeysForCalls' /\ GenerationsForCalls'
    BY <1>0 DEF PairingCounts, PairingFields, KeysForCalls, GenerationsForCalls, CallsUnderWay,
       CallsAtDiscovery, Named, Discovering
<1>5. CallsAhead'
    BY <1>0 DEF PairingFields, CallsAhead, Named, PairingCounts, PairingValues, Sockets, Keys
<1>6. NoPairingSocketLeft'
    BY <1>0 DEF PairingFields, NoPairingSocketLeft, OpensAlone, Named, Discovering, Identifying,
       Making, Overtaken, PairingCounts, PairingValues, Sockets, Keys
<1>7. SocketHasContext'
  <2>1. bpContext # NoPairing => bpContext' # NoPairing
    <3>1. CASE bpContext.socket = handler.context
      <4>1. bpContext # NoPairing => bpContext' = [bpContext EXCEPT !.request = handler.context]
        BY <3>1
      <4>2. bpContext # NoPairing => bpContext' \in [socket : Sockets, key : Keys, request : Sockets \cup {0}]
        BY <1>0, <4>1 DEF PairingValues
      <4>3. NoPairing \notin [socket : Sockets, key : Keys, request : Sockets \cup {0}]
        BY DEF Sockets, Keys
      <4> QED
        BY <4>2, <4>3
    <3>2. CASE bpContext.socket # handler.context
      BY <3>2
    <3> QED
      BY <3>1, <3>2
  <2>2. UNCHANGED <<bpSocket, bpEngine>>
    OBVIOUS
  <2> QED
    BY <1>0, <2>1, <2>2 DEF PairingFields, SocketHasContext
<1>8. OpensAlone'
    BY <1>0 DEF PairingFields, OpensAlone, CallsAhead, Named, Discovering, Identifying, Making,
       Overtaken, PairingCounts, PairingValues, Sockets, Keys
<1>9. HandlersOwn'
    BY <1>0 DEF PairingFields, HandlersOwn, SocketHasContext, CallsAhead, Named, Discovering,
       Identifying, Making, Overtaken, PairingCounts, PairingValues, Sockets, Keys
<1>10. ShownIsAnswered' /\ UnpairsPaired'
    BY <1>0 DEF PairingFields, ShownIsAnswered, UnpairsPaired, PairingCounts, PairingValues, Sockets,
       Keys
<1>11. CancelledRests'
    BY <1>0 DEF PairingFields, CancelledRests, CallsAhead, Named, Discovering, Identifying, Making,
       Overtaken, PairingCounts, PairingValues, Sockets, Keys
<1>12. ASSUME ~bpCrossed' PROVE PairingOrder'
  <2>0. ~bpCrossed /\ PairingOrder
    BY <1>0, <1>12
  <2>10. bpSocket = handler.context /\ handler.context \in Sockets /\ bpSocket # 0
      <3>1. bpSocket = handler.context
      BY <1>12, Zenon DEF CodeComputed
    <3>2. handler.context \in Sockets
      BY <1>0 DEF PairingValues
    <3> QED
      BY <3>1, <3>2 DEF Sockets
  <2>1. MakesFirstKey'
    BY <1>0, <1>12, <2>0, <2>10 DEF PairingFields, PairingOrder, MakesFirstKey, Named, Discovering,
       Identifying, Making, Overtaken, PairingCounts, PairingValues, Sockets, Keys
  <2>2. ShowsKey'
    BY <1>0, <1>12, <2>0, <2>10 DEF PairingFields, PairingOrder, ShowsKey, MakesFirstKey, PairedRests,
       UnpairsPaired, SocketHasContext, Named, Discovering, Identifying, Making, Overtaken,
       PairingCounts, PairingValues, Sockets, Keys
  <2>3. PairedRests'
    BY <1>0, <1>12, <2>0, <2>10 DEF PairingFields, PairingOrder, PairedRests, HandlersOwn, OpensAlone,
       UnpairsPaired, SocketHasContext, CallsAhead, Named, Discovering, Identifying, Making,
       Overtaken, PairingCounts, PairingValues, Sockets, Keys
  <2>4. PairedWithKey'
    BY <1>0, <1>12, <2>0, <2>10 DEF PairingFields, PairingOrder, PairedWithKey, HandlersOwn, ShowsKey,
       UnpairsPaired, MakesFirstKey, PairedRests, SocketHasContext, Named, Discovering, Identifying,
       Making, Overtaken, PairingCounts, PairingValues, Sockets, Keys
  <2>5. ShownIsCurrent'
    BY <1>0, <1>12, <2>0, <2>10 DEF PairingFields, PairingOrder, ShownIsCurrent, PairedRests,
       OpensAlone, SocketHasContext, CallsAhead, Named, Discovering, Identifying, Making, Overtaken,
       PairingCounts, PairingValues, Sockets, Keys
  <2>6. WaitsForTimer'
    BY <1>0, <1>12, <2>0, <2>10 DEF PairingFields, PairingOrder, WaitsForTimer, HandlersOwn,
       ShownIsAnswered, SocketHasContext, Named, Discovering, Identifying, Making, Overtaken,
       PairingCounts, PairingValues, Sockets, Keys
  <2> QED
    BY <2>1, <2>2, <2>3, <2>4, <2>5, <2>6 DEF PairingOrder
<1> QED
    BY <1>1, <1>2, <1>3, <1>4, <1>5, <1>6, <1>7, <1>8, <1>9, <1>10, <1>11, <1>12 DEF PairingInv,
       PairingFields

LEMMA PairApprovedKeepsPairing ==
    ASSUME PairingInv, NEW socket \in Sockets,
           PairApproved(socket)
    PROVE  PairingInv'
<1> USE BridgePairingConstants DEF PairApproved, Receives, Approves, FailPairing, AttemptEnds,
    bpAttempt, bpStore, bpHistory
<1>0. PairingCounts /\ PairingValues /\ PairingFlags /\ PairingFields /\ (~bpCrossed => PairingOrder)
    BY DEF PairingInv
<1>1. PairingCounts'
    BY <1>0 DEF PairingCounts, Sockets, PairingFields, CallsAhead
<1>2. PairingValues'
  <2>1. bpState' \in [state : PairingStates, request : Sockets \cup {0}]
    BY <1>0 DEF PairingValues, PairingStates
  <2>2. bpHandlers' \subseteq [step : {"code", "store"}, context : Sockets, key : Keys]
    BY <1>0 DEF PairingValues
  <2>3. bpEngine' \in [Sockets -> {"none", "asked", "pending", "done"}] /\ bpUnpair' \in {"none", "clear", "store"}
    BY <1>0 DEF PairingValues
  <2>4. bpPaired' \in Keys \cup {NoPairing} /\ bpKey' \in Keys \cup {0} /\ bpSocket' \in Sockets \cup {0}
        /\ bpOpen' \subseteq Sockets
    BY <1>0 DEF PairingValues
  <2>5. bpTimer' \in Sockets \cup {0, NoPairing}
    BY <1>0 DEF PairingValues
  <2>6. /\ bpContext' \in {NoPairing} \cup [socket : Sockets, key : Keys, request : Sockets \cup {0}]
        /\ bpContext' # NoPairing => bpContext'.socket = bpSocket'
    BY <1>0 DEF PairingValues
  <2> QED
    BY <2>1, <2>2, <2>3, <2>4, <2>5, <2>6 DEF PairingValues
<1>3. PairingFlags'
    BY <1>0, Zenon DEF PairingFlags
<1>4. KeysForCalls' /\ GenerationsForCalls'
    BY <1>0 DEF PairingCounts, PairingFields, KeysForCalls, GenerationsForCalls, CallsUnderWay,
       CallsAtDiscovery, Named, Discovering
<1>5. CallsAhead'
    BY <1>0 DEF PairingFields, CallsAhead, Named, PairingCounts, PairingValues, Sockets, Keys
<1>6. NoPairingSocketLeft'
    BY <1>0 DEF PairingFields, NoPairingSocketLeft, OpensAlone, Named, Discovering, Identifying,
       Making, Overtaken, PairingCounts, PairingValues, Sockets, Keys
<1>7. SocketHasContext'
    BY <1>0 DEF PairingFields, SocketHasContext, PairingCounts, PairingValues, Sockets, Keys
<1>8. OpensAlone'
    BY <1>0 DEF PairingFields, OpensAlone, CallsAhead, Named, Discovering, Identifying, Making,
       Overtaken, PairingCounts, PairingValues, Sockets, Keys
<1>9. HandlersOwn'
    BY <1>0 DEF PairingFields, HandlersOwn, SocketHasContext, CallsAhead, Named, Discovering,
       Identifying, Making, Overtaken, PairingCounts, PairingValues, Sockets, Keys
<1>10. ShownIsAnswered' /\ UnpairsPaired'
    BY <1>0 DEF PairingFields, ShownIsAnswered, UnpairsPaired, PairingCounts, PairingValues, Sockets,
       Keys
<1>11. CancelledRests'
    BY <1>0 DEF PairingFields, CancelledRests, CallsAhead, Named, Discovering, Identifying, Making,
       Overtaken, PairingCounts, PairingValues, Sockets, Keys
<1>12. ASSUME ~bpCrossed' PROVE PairingOrder'
  <2>0. ~bpCrossed /\ PairingOrder
    BY <1>0, <1>12
  <2>1. MakesFirstKey'
    BY <1>0, <1>12, <2>0 DEF PairingFields, PairingOrder, MakesFirstKey, Named, Discovering,
       Identifying, Making, Overtaken, PairingCounts, PairingValues, Sockets, Keys
  <2>2. ShowsKey'
    BY <1>0, <1>12, <2>0 DEF PairingFields, PairingOrder, ShowsKey, MakesFirstKey, PairedRests,
       UnpairsPaired, SocketHasContext, Named, Discovering, Identifying, Making, Overtaken,
       PairingCounts, PairingValues, Sockets, Keys
  <2>3. PairedRests'
    BY <1>0, <1>12, <2>0 DEF PairingFields, PairingOrder, PairedRests, HandlersOwn, OpensAlone,
       UnpairsPaired, SocketHasContext, CallsAhead, Named, Discovering, Identifying, Making,
       Overtaken, PairingCounts, PairingValues, Sockets, Keys
  <2>4. PairedWithKey'
    BY <1>0, <1>12, <2>0 DEF PairingFields, PairingOrder, PairedWithKey, HandlersOwn, ShowsKey,
       UnpairsPaired, MakesFirstKey, PairedRests, SocketHasContext, Named, Discovering, Identifying,
       Making, Overtaken, PairingCounts, PairingValues, Sockets, Keys
  <2>5. ShownIsCurrent'
    BY <1>0, <1>12, <2>0 DEF PairingFields, PairingOrder, ShownIsCurrent, PairedRests, OpensAlone,
       SocketHasContext, CallsAhead, Named, Discovering, Identifying, Making, Overtaken,
       PairingCounts, PairingValues, Sockets, Keys
  <2>6. WaitsForTimer'
    BY <1>0, <1>12, <2>0 DEF PairingFields, PairingOrder, WaitsForTimer, HandlersOwn, ShownIsAnswered,
       SocketHasContext, Named, Discovering, Identifying, Making, Overtaken, PairingCounts,
       PairingValues, Sockets, Keys
  <2> QED
    BY <2>1, <2>2, <2>3, <2>4, <2>5, <2>6 DEF PairingOrder
<1> QED
    BY <1>1, <1>2, <1>3, <1>4, <1>5, <1>6, <1>7, <1>8, <1>9, <1>10, <1>11, <1>12 DEF PairingInv,
       PairingFields

LEMMA ApprovalStoredKeepsPairing ==
    ASSUME PairingInv, NEW handler \in bpHandlers,
           ApprovalStored(handler)
    PROVE  PairingInv'
<1> USE BridgePairingConstants DEF ApprovalStored, FailPairing, AttemptEnds, PairingEvent, bpAttempt,
    bpStore, bpHistory
<1>0. PairingCounts /\ PairingValues /\ PairingFlags /\ PairingFields /\ (~bpCrossed => PairingOrder)
    BY DEF PairingInv
<1>1. PairingCounts'
    BY <1>0 DEF PairingCounts, Sockets, PairingFields, CallsAhead
<1>2. PairingValues'
  <2>1. bpState' \in [state : PairingStates, request : Sockets \cup {0}]
    BY <1>0 DEF PairingValues, PairingStates
  <2>2. bpHandlers' \subseteq [step : {"code", "store"}, context : Sockets, key : Keys]
    BY <1>0 DEF PairingValues
  <2>3. bpEngine' \in [Sockets -> {"none", "asked", "pending", "done"}] /\ bpUnpair' \in {"none", "clear", "store"}
    BY <1>0 DEF PairingValues
  <2>4. bpPaired' \in Keys \cup {NoPairing} /\ bpKey' \in Keys \cup {0} /\ bpSocket' \in Sockets \cup {0}
        /\ bpOpen' \subseteq Sockets
    BY <1>0 DEF PairingValues
  <2>5. bpTimer' \in Sockets \cup {0, NoPairing}
    BY <1>0 DEF PairingValues
  <2>6. /\ bpContext' \in {NoPairing} \cup [socket : Sockets, key : Keys, request : Sockets \cup {0}]
        /\ bpContext' # NoPairing => bpContext'.socket = bpSocket'
    BY <1>0 DEF PairingValues
  <2> QED
    BY <2>1, <2>2, <2>3, <2>4, <2>5, <2>6 DEF PairingValues
<1>3. PairingFlags'
    BY <1>0, Zenon DEF PairingFlags
<1>4. KeysForCalls' /\ GenerationsForCalls'
  <2>1. CallsUnderWay' = CallsUnderWay /\ CallsAtDiscovery' = CallsAtDiscovery
    BY DEF CallsUnderWay, CallsAtDiscovery, Named, Discovering
  <2>2. Cardinality(CallsUnderWay) \in Nat /\ Cardinality(CallsAtDiscovery) \in Nat
    BY <1>0, CallsCounted
  <2> QED
    BY <1>0, <2>1, <2>2 DEF PairingCounts, PairingFields, KeysForCalls, GenerationsForCalls
<1>5. CallsAhead'
    BY <1>0 DEF PairingFields, CallsAhead, Named, PairingCounts, PairingValues, Sockets, Keys
<1>6. NoPairingSocketLeft'
    BY <1>0 DEF PairingFields, NoPairingSocketLeft, OpensAlone, Named, Discovering, Identifying,
       Making, Overtaken, PairingCounts, PairingValues, Sockets, Keys
<1>7. SocketHasContext'
    BY <1>0 DEF PairingFields, SocketHasContext, PairingCounts, PairingValues, Sockets, Keys
<1>8. OpensAlone'
    BY <1>0 DEF PairingFields, OpensAlone, CallsAhead, Named, Discovering, Identifying, Making,
       Overtaken, PairingCounts, PairingValues, Sockets, Keys
<1>9. HandlersOwn'
    BY <1>0 DEF PairingFields, HandlersOwn, SocketHasContext, CallsAhead, Named, Discovering,
       Identifying, Making, Overtaken, PairingCounts, PairingValues, Sockets, Keys
<1>10. ShownIsAnswered' /\ UnpairsPaired'
    BY <1>0 DEF PairingFields, ShownIsAnswered, UnpairsPaired, PairingCounts, PairingValues, Sockets,
       Keys
<1>11. CancelledRests'
    BY <1>0 DEF PairingFields, CancelledRests, CallsAhead, Named, Discovering, Identifying, Making,
       Overtaken, PairingCounts, PairingValues, Sockets, Keys
<1>12. ASSUME ~bpCrossed' PROVE PairingOrder'
  <2>0. ~bpCrossed /\ PairingOrder
    BY <1>0, <1>12
  <2>10. bpSocket = handler.context /\ handler.context \in Sockets /\ bpSocket # 0
      <3>1. bpSocket = handler.context
      BY <1>12, Zenon DEF ApprovalStored
    <3>2. handler.context \in Sockets
      BY <1>0 DEF PairingValues
    <3> QED
      BY <3>1, <3>2 DEF Sockets
  <2>1. MakesFirstKey'
    BY <1>0, <1>12, <2>0, <2>10 DEF PairingFields, PairingOrder, MakesFirstKey, Named, Discovering,
       Identifying, Making, Overtaken, PairingCounts, PairingValues, Sockets, Keys
  <2>2. ShowsKey'
    BY <1>0, <1>12, <2>0, <2>10 DEF PairingFields, PairingOrder, ShowsKey, MakesFirstKey, PairedRests,
       UnpairsPaired, SocketHasContext, Named, Discovering, Identifying, Making, Overtaken,
       PairingCounts, PairingValues, Sockets, Keys
  <2>3. PairedRests'
    BY <1>0, <1>12, <2>0, <2>10 DEF PairingFields, PairingOrder, PairedRests, HandlersOwn, OpensAlone,
       UnpairsPaired, SocketHasContext, CallsAhead, Named, Discovering, Identifying, Making,
       Overtaken, PairingCounts, PairingValues, Sockets, Keys
  <2>4. PairedWithKey'
    BY <1>0, <1>12, <2>0, <2>10 DEF PairingFields, PairingOrder, PairedWithKey, HandlersOwn, ShowsKey,
       UnpairsPaired, MakesFirstKey, PairedRests, SocketHasContext, Named, Discovering, Identifying,
       Making, Overtaken, PairingCounts, PairingValues, Sockets, Keys
  <2>5. ShownIsCurrent'
    BY <1>0, <1>12, <2>0, <2>10 DEF PairingFields, PairingOrder, ShownIsCurrent, PairedRests,
       OpensAlone, SocketHasContext, CallsAhead, Named, Discovering, Identifying, Making, Overtaken,
       PairingCounts, PairingValues, Sockets, Keys
  <2>6. WaitsForTimer'
    BY <1>0, <1>12, <2>0, <2>10 DEF PairingFields, PairingOrder, WaitsForTimer, HandlersOwn,
       ShownIsAnswered, SocketHasContext, Named, Discovering, Identifying, Making, Overtaken,
       PairingCounts, PairingValues, Sockets, Keys
  <2> QED
    BY <2>1, <2>2, <2>3, <2>4, <2>5, <2>6 DEF PairingOrder
<1> QED
    BY <1>1, <1>2, <1>3, <1>4, <1>5, <1>6, <1>7, <1>8, <1>9, <1>10, <1>11, <1>12 DEF PairingInv,
       PairingFields

LEMMA PairRefusedKeepsPairing ==
    ASSUME PairingInv, NEW socket \in Sockets,
           PairRefused(socket)
    PROVE  PairingInv'
<1> USE BridgePairingConstants DEF PairRefused, Receives, AttemptEnds, bpAttempt, bpStore, bpHistory
<1>0. PairingCounts /\ PairingValues /\ PairingFlags /\ PairingFields /\ (~bpCrossed => PairingOrder)
    BY DEF PairingInv
<1>1. PairingCounts'
    BY <1>0 DEF PairingCounts, Sockets, PairingFields, CallsAhead
<1>2. PairingValues'
  <2>1. bpState' \in [state : PairingStates, request : Sockets \cup {0}]
    BY <1>0 DEF PairingValues, PairingStates
  <2>2. bpHandlers' \subseteq [step : {"code", "store"}, context : Sockets, key : Keys]
    BY <1>0 DEF PairingValues
  <2>3. bpEngine' \in [Sockets -> {"none", "asked", "pending", "done"}] /\ bpUnpair' \in {"none", "clear", "store"}
    BY <1>0 DEF PairingValues
  <2>4. bpPaired' \in Keys \cup {NoPairing} /\ bpKey' \in Keys \cup {0} /\ bpSocket' \in Sockets \cup {0}
        /\ bpOpen' \subseteq Sockets
    BY <1>0 DEF PairingValues
  <2>5. bpTimer' \in Sockets \cup {0, NoPairing}
    BY <1>0 DEF PairingValues
  <2>6. /\ bpContext' \in {NoPairing} \cup [socket : Sockets, key : Keys, request : Sockets \cup {0}]
        /\ bpContext' # NoPairing => bpContext'.socket = bpSocket'
    BY <1>0 DEF PairingValues
  <2> QED
    BY <2>1, <2>2, <2>3, <2>4, <2>5, <2>6 DEF PairingValues
<1>3. PairingFlags'
    BY <1>0, Zenon DEF PairingFlags
<1>4. KeysForCalls' /\ GenerationsForCalls'
    BY <1>0 DEF PairingCounts, PairingFields, KeysForCalls, GenerationsForCalls, CallsUnderWay,
       CallsAtDiscovery, Named, Discovering
<1>5. CallsAhead'
    BY <1>0 DEF PairingFields, CallsAhead, Named, PairingCounts, PairingValues, Sockets, Keys
<1>6. NoPairingSocketLeft'
    BY <1>0 DEF PairingFields, NoPairingSocketLeft, OpensAlone, Named, Discovering, Identifying,
       Making, Overtaken, PairingCounts, PairingValues, Sockets, Keys
<1>7. SocketHasContext'
    BY <1>0 DEF PairingFields, SocketHasContext, PairingCounts, PairingValues, Sockets, Keys
<1>8. OpensAlone'
    BY <1>0 DEF PairingFields, OpensAlone, CallsAhead, Named, Discovering, Identifying, Making,
       Overtaken, PairingCounts, PairingValues, Sockets, Keys
<1>9. HandlersOwn'
    BY <1>0 DEF PairingFields, HandlersOwn, SocketHasContext, CallsAhead, Named, Discovering,
       Identifying, Making, Overtaken, PairingCounts, PairingValues, Sockets, Keys
<1>10. ShownIsAnswered' /\ UnpairsPaired'
    BY <1>0 DEF PairingFields, ShownIsAnswered, UnpairsPaired, PairingCounts, PairingValues, Sockets,
       Keys
<1>11. CancelledRests'
    BY <1>0 DEF PairingFields, CancelledRests, CallsAhead, Named, Discovering, Identifying, Making,
       Overtaken, PairingCounts, PairingValues, Sockets, Keys
<1>12. ASSUME ~bpCrossed' PROVE PairingOrder'
  <2>0. ~bpCrossed /\ PairingOrder
    BY <1>0, <1>12
  <2>1. MakesFirstKey'
    BY <1>0, <1>12, <2>0 DEF PairingFields, PairingOrder, MakesFirstKey, Named, Discovering,
       Identifying, Making, Overtaken, PairingCounts, PairingValues, Sockets, Keys
  <2>2. ShowsKey'
    BY <1>0, <1>12, <2>0 DEF PairingFields, PairingOrder, ShowsKey, MakesFirstKey, PairedRests,
       UnpairsPaired, SocketHasContext, Named, Discovering, Identifying, Making, Overtaken,
       PairingCounts, PairingValues, Sockets, Keys
  <2>3. PairedRests'
    BY <1>0, <1>12, <2>0 DEF PairingFields, PairingOrder, PairedRests, HandlersOwn, OpensAlone,
       UnpairsPaired, SocketHasContext, CallsAhead, Named, Discovering, Identifying, Making,
       Overtaken, PairingCounts, PairingValues, Sockets, Keys
  <2>4. PairedWithKey'
    BY <1>0, <1>12, <2>0 DEF PairingFields, PairingOrder, PairedWithKey, HandlersOwn, ShowsKey,
       UnpairsPaired, MakesFirstKey, PairedRests, SocketHasContext, Named, Discovering, Identifying,
       Making, Overtaken, PairingCounts, PairingValues, Sockets, Keys
  <2>5. ShownIsCurrent'
    BY <1>0, <1>12, <2>0 DEF PairingFields, PairingOrder, ShownIsCurrent, PairedRests, OpensAlone,
       SocketHasContext, CallsAhead, Named, Discovering, Identifying, Making, Overtaken,
       PairingCounts, PairingValues, Sockets, Keys
  <2>6. WaitsForTimer'
    BY <1>0, <1>12, <2>0 DEF PairingFields, PairingOrder, WaitsForTimer, HandlersOwn, ShownIsAnswered,
       SocketHasContext, Named, Discovering, Identifying, Making, Overtaken, PairingCounts,
       PairingValues, Sockets, Keys
  <2> QED
    BY <2>1, <2>2, <2>3, <2>4, <2>5, <2>6 DEF PairingOrder
<1> QED
    BY <1>1, <1>2, <1>3, <1>4, <1>5, <1>6, <1>7, <1>8, <1>9, <1>10, <1>11, <1>12 DEF PairingInv,
       PairingFields

LEMMA SocketLostKeepsPairing ==
    ASSUME PairingInv, NEW socket \in Sockets,
           SocketLost(socket)
    PROVE  PairingInv'
<1> USE BridgePairingConstants DEF SocketLost, PairingEvent, FailPairing, AttemptEnds, bpAttempt,
    bpStore, bpHistory
<1>0. PairingCounts /\ PairingValues /\ PairingFlags /\ PairingFields /\ (~bpCrossed => PairingOrder)
    BY DEF PairingInv
<1>1. PairingCounts'
    BY <1>0 DEF PairingCounts, Sockets, PairingFields, CallsAhead
<1>2. PairingValues'
  <2>1. bpState' \in [state : PairingStates, request : Sockets \cup {0}]
    BY <1>0 DEF PairingValues, PairingStates
  <2>2. bpHandlers' \subseteq [step : {"code", "store"}, context : Sockets, key : Keys]
    BY <1>0 DEF PairingValues
  <2>3. bpEngine' \in [Sockets -> {"none", "asked", "pending", "done"}] /\ bpUnpair' \in {"none", "clear", "store"}
    BY <1>0 DEF PairingValues
  <2>4. bpPaired' \in Keys \cup {NoPairing} /\ bpKey' \in Keys \cup {0} /\ bpSocket' \in Sockets \cup {0}
        /\ bpOpen' \subseteq Sockets
    BY <1>0 DEF PairingValues
  <2>5. bpTimer' \in Sockets \cup {0, NoPairing}
    BY <1>0 DEF PairingValues
  <2>6. /\ bpContext' \in {NoPairing} \cup [socket : Sockets, key : Keys, request : Sockets \cup {0}]
        /\ bpContext' # NoPairing => bpContext'.socket = bpSocket'
    BY <1>0 DEF PairingValues
  <2> QED
    BY <2>1, <2>2, <2>3, <2>4, <2>5, <2>6 DEF PairingValues
<1>3. PairingFlags'
    BY <1>0, Zenon DEF PairingFlags
<1>4. KeysForCalls' /\ GenerationsForCalls'
  <2>1. CallsUnderWay' = CallsUnderWay /\ CallsAtDiscovery' = CallsAtDiscovery
    BY DEF CallsUnderWay, CallsAtDiscovery, Named, Discovering
  <2>2. Cardinality(CallsUnderWay) \in Nat /\ Cardinality(CallsAtDiscovery) \in Nat
    BY <1>0, CallsCounted
  <2> QED
    BY <1>0, <2>1, <2>2 DEF PairingCounts, PairingFields, KeysForCalls, GenerationsForCalls
<1>5. CallsAhead'
    BY <1>0 DEF PairingFields, CallsAhead, Named, PairingCounts, PairingValues, Sockets, Keys
<1>6. NoPairingSocketLeft'
    BY <1>0 DEF PairingFields, NoPairingSocketLeft, OpensAlone, Named, Discovering, Identifying,
       Making, Overtaken, PairingCounts, PairingValues, Sockets, Keys
<1>7. SocketHasContext'
    BY <1>0 DEF PairingFields, SocketHasContext, PairingCounts, PairingValues, Sockets, Keys
<1>8. OpensAlone'
    BY <1>0 DEF PairingFields, OpensAlone, CallsAhead, Named, Discovering, Identifying, Making,
       Overtaken, PairingCounts, PairingValues, Sockets, Keys
<1>9. HandlersOwn'
    BY <1>0 DEF PairingFields, HandlersOwn, SocketHasContext, CallsAhead, Named, Discovering,
       Identifying, Making, Overtaken, PairingCounts, PairingValues, Sockets, Keys
<1>10. ShownIsAnswered' /\ UnpairsPaired'
    BY <1>0 DEF PairingFields, ShownIsAnswered, UnpairsPaired, PairingCounts, PairingValues, Sockets,
       Keys
<1>11. CancelledRests'
    BY <1>0 DEF PairingFields, CancelledRests, CallsAhead, Named, Discovering, Identifying, Making,
       Overtaken, PairingCounts, PairingValues, Sockets, Keys
<1>12. ASSUME ~bpCrossed' PROVE PairingOrder'
  <2>0. ~bpCrossed /\ PairingOrder
    BY <1>0, <1>12
  <2>1. MakesFirstKey'
    BY <1>0, <1>12, <2>0 DEF PairingFields, PairingOrder, MakesFirstKey, Named, Discovering,
       Identifying, Making, Overtaken, PairingCounts, PairingValues, Sockets, Keys
  <2>2. ShowsKey'
    BY <1>0, <1>12, <2>0 DEF PairingFields, PairingOrder, ShowsKey, MakesFirstKey, PairedRests,
       UnpairsPaired, SocketHasContext, Named, Discovering, Identifying, Making, Overtaken,
       PairingCounts, PairingValues, Sockets, Keys
  <2>3. PairedRests'
    BY <1>0, <1>12, <2>0 DEF PairingFields, PairingOrder, PairedRests, HandlersOwn, OpensAlone,
       UnpairsPaired, SocketHasContext, CallsAhead, Named, Discovering, Identifying, Making,
       Overtaken, PairingCounts, PairingValues, Sockets, Keys
  <2>4. PairedWithKey'
    BY <1>0, <1>12, <2>0 DEF PairingFields, PairingOrder, PairedWithKey, HandlersOwn, ShowsKey,
       UnpairsPaired, MakesFirstKey, PairedRests, SocketHasContext, Named, Discovering, Identifying,
       Making, Overtaken, PairingCounts, PairingValues, Sockets, Keys
  <2>5. ShownIsCurrent'
    BY <1>0, <1>12, <2>0 DEF PairingFields, PairingOrder, ShownIsCurrent, PairedRests, OpensAlone,
       SocketHasContext, CallsAhead, Named, Discovering, Identifying, Making, Overtaken,
       PairingCounts, PairingValues, Sockets, Keys
  <2>6. WaitsForTimer'
    BY <1>0, <1>12, <2>0 DEF PairingFields, PairingOrder, WaitsForTimer, HandlersOwn, ShownIsAnswered,
       SocketHasContext, Named, Discovering, Identifying, Making, Overtaken, PairingCounts,
       PairingValues, Sockets, Keys
  <2> QED
    BY <2>1, <2>2, <2>3, <2>4, <2>5, <2>6 DEF PairingOrder
<1> QED
    BY <1>1, <1>2, <1>3, <1>4, <1>5, <1>6, <1>7, <1>8, <1>9, <1>10, <1>11, <1>12 DEF PairingInv,
       PairingFields

LEMMA PairingTimerKeepsPairing ==
    ASSUME PairingInv,
           PairingTimer
    PROVE  PairingInv'
<1> USE BridgePairingConstants DEF PairingTimer, FailPairing, Expires, AttemptEnds, bpAttempt,
    bpStore, bpHistory
<1>0. PairingCounts /\ PairingValues /\ PairingFlags /\ PairingFields /\ (~bpCrossed => PairingOrder)
    BY DEF PairingInv
<1>1. PairingCounts'
    BY <1>0 DEF PairingCounts, Sockets, PairingFields, CallsAhead
<1>2. PairingValues'
  <2>1. bpState' \in [state : PairingStates, request : Sockets \cup {0}]
    BY <1>0 DEF PairingValues, PairingStates
  <2>2. bpHandlers' \subseteq [step : {"code", "store"}, context : Sockets, key : Keys]
    BY <1>0 DEF PairingValues
  <2>3. bpEngine' \in [Sockets -> {"none", "asked", "pending", "done"}] /\ bpUnpair' \in {"none", "clear", "store"}
    BY <1>0 DEF PairingValues
  <2>4. bpPaired' \in Keys \cup {NoPairing} /\ bpKey' \in Keys \cup {0} /\ bpSocket' \in Sockets \cup {0}
        /\ bpOpen' \subseteq Sockets
    BY <1>0 DEF PairingValues
  <2>5. bpTimer' \in Sockets \cup {0, NoPairing}
    BY <1>0 DEF PairingValues
  <2>6. /\ bpContext' \in {NoPairing} \cup [socket : Sockets, key : Keys, request : Sockets \cup {0}]
        /\ bpContext' # NoPairing => bpContext'.socket = bpSocket'
    BY <1>0 DEF PairingValues
  <2> QED
    BY <2>1, <2>2, <2>3, <2>4, <2>5, <2>6 DEF PairingValues
<1>3. PairingFlags'
    BY <1>0, Zenon DEF PairingFlags
<1>4. KeysForCalls' /\ GenerationsForCalls'
    BY <1>0 DEF PairingCounts, PairingFields, KeysForCalls, GenerationsForCalls, CallsUnderWay,
       CallsAtDiscovery, Named, Discovering
<1>5. CallsAhead'
    BY <1>0 DEF PairingFields, CallsAhead, Named, PairingCounts, PairingValues, Sockets, Keys
<1>6. NoPairingSocketLeft'
    BY <1>0 DEF PairingFields, NoPairingSocketLeft, OpensAlone, Named, Discovering, Identifying,
       Making, Overtaken, PairingCounts, PairingValues, Sockets, Keys
<1>7. SocketHasContext'
    BY <1>0 DEF PairingFields, SocketHasContext, PairingCounts, PairingValues, Sockets, Keys
<1>8. OpensAlone'
    BY <1>0 DEF PairingFields, OpensAlone, CallsAhead, Named, Discovering, Identifying, Making,
       Overtaken, PairingCounts, PairingValues, Sockets, Keys
<1>9. HandlersOwn'
    BY <1>0 DEF PairingFields, HandlersOwn, SocketHasContext, CallsAhead, Named, Discovering,
       Identifying, Making, Overtaken, PairingCounts, PairingValues, Sockets, Keys
<1>10. ShownIsAnswered' /\ UnpairsPaired'
    BY <1>0 DEF PairingFields, ShownIsAnswered, UnpairsPaired, PairingCounts, PairingValues, Sockets,
       Keys
<1>11. CancelledRests'
    BY <1>0 DEF PairingFields, CancelledRests, CallsAhead, Named, Discovering, Identifying, Making,
       Overtaken, PairingCounts, PairingValues, Sockets, Keys
<1>12. ASSUME ~bpCrossed' PROVE PairingOrder'
  <2>0. ~bpCrossed /\ PairingOrder
    BY <1>0, <1>12
  <2>1. MakesFirstKey'
    BY <1>0, <1>12, <2>0 DEF PairingFields, PairingOrder, MakesFirstKey, Named, Discovering,
       Identifying, Making, Overtaken, PairingCounts, PairingValues, Sockets, Keys
  <2>2. ShowsKey'
    BY <1>0, <1>12, <2>0 DEF PairingFields, PairingOrder, ShowsKey, MakesFirstKey, PairedRests,
       UnpairsPaired, SocketHasContext, Named, Discovering, Identifying, Making, Overtaken,
       PairingCounts, PairingValues, Sockets, Keys
  <2>3. PairedRests'
    BY <1>0, <1>12, <2>0 DEF PairingFields, PairingOrder, PairedRests, HandlersOwn, OpensAlone,
       UnpairsPaired, SocketHasContext, CallsAhead, Named, Discovering, Identifying, Making,
       Overtaken, PairingCounts, PairingValues, Sockets, Keys
  <2>4. PairedWithKey'
    BY <1>0, <1>12, <2>0 DEF PairingFields, PairingOrder, PairedWithKey, HandlersOwn, ShowsKey,
       UnpairsPaired, MakesFirstKey, PairedRests, SocketHasContext, Named, Discovering, Identifying,
       Making, Overtaken, PairingCounts, PairingValues, Sockets, Keys
  <2>5. ShownIsCurrent'
    BY <1>0, <1>12, <2>0 DEF PairingFields, PairingOrder, ShownIsCurrent, PairedRests, OpensAlone,
       SocketHasContext, CallsAhead, Named, Discovering, Identifying, Making, Overtaken,
       PairingCounts, PairingValues, Sockets, Keys
  <2>6. WaitsForTimer'
    BY <1>0, <1>12, <2>0 DEF PairingFields, PairingOrder, WaitsForTimer, HandlersOwn, ShownIsAnswered,
       SocketHasContext, Named, Discovering, Identifying, Making, Overtaken, PairingCounts,
       PairingValues, Sockets, Keys
  <2> QED
    BY <2>1, <2>2, <2>3, <2>4, <2>5, <2>6 DEF PairingOrder
<1> QED
    BY <1>1, <1>2, <1>3, <1>4, <1>5, <1>6, <1>7, <1>8, <1>9, <1>10, <1>11, <1>12 DEF PairingInv,
       PairingFields

LEMMA UnpairKeepsPairing ==
    ASSUME PairingInv,
           Unpair
    PROVE  PairingInv'
<1> USE BridgePairingConstants DEF Unpair, PairingEvent, CancelPairing, bpAttempt, bpStore, bpHistory
<1>0. PairingCounts /\ PairingValues /\ PairingFlags /\ PairingFields /\ (~bpCrossed => PairingOrder)
    BY DEF PairingInv
<1>1. PairingCounts'
    BY <1>0 DEF PairingCounts, Sockets, PairingFields, CallsAhead
<1>2. PairingValues'
    BY <1>0 DEF PairingCounts, PairingValues, PairingStates, Sockets, Keys
<1>3. PairingFlags'
    BY <1>0, Zenon DEF PairingFlags
<1>4. KeysForCalls' /\ GenerationsForCalls'
  <2>1. CallsUnderWay' = CallsUnderWay /\ CallsAtDiscovery' = CallsAtDiscovery
    BY DEF CallsUnderWay, CallsAtDiscovery, Named, Discovering
  <2>2. Cardinality(CallsUnderWay) \in Nat /\ Cardinality(CallsAtDiscovery) \in Nat
    BY <1>0, CallsCounted
  <2> QED
    BY <1>0, <2>1, <2>2 DEF PairingCounts, PairingFields, KeysForCalls, GenerationsForCalls
<1>5. CallsAhead'
  <2> SUFFICES ASSUME NEW other \in Sockets
               PROVE  /\ Named(other)' => /\ other =< bpStarts' /\ bpEngine'[other] = "none"
                                         /\ bpCalls'[other].generation =< bpGeneration'
                      /\ other > bpStarts' => bpEngine'[other] = "none"
    BY DEF CallsAhead
  <2>1. /\ Named(other) => /\ other =< bpStarts /\ bpEngine[other] = "none"
                           /\ bpCalls[other].generation =< bpGeneration
                           /\ bpCalls[other].generation \in Nat
        /\ other > bpStarts => bpEngine[other] = "none"
    BY <1>0, NamedCalls DEF PairingFields, CallsAhead
  <2>2. bpGeneration \in Nat
    BY <1>0 DEF PairingCounts
  <2> QED
    BY <1>0, <2>1, <2>2 DEF Named
<1>6. NoPairingSocketLeft'
    BY <1>0 DEF PairingFields, NoPairingSocketLeft, OpensAlone, Named, Discovering, Identifying,
       Making, Overtaken, PairingCounts, PairingValues, Sockets, Keys
<1>7. SocketHasContext'
    BY <1>0 DEF PairingFields, SocketHasContext, PairingCounts, PairingValues, Sockets, Keys
<1>8. OpensAlone'
    BY <1>0 DEF PairingFields, OpensAlone, CallsAhead, Named, Discovering, Identifying, Making,
       Overtaken, PairingCounts, PairingValues, Sockets, Keys
<1>9. HandlersOwn'
    BY <1>0 DEF PairingFields, HandlersOwn, SocketHasContext, CallsAhead, Named, Discovering,
       Identifying, Making, Overtaken, PairingCounts, PairingValues, Sockets, Keys
<1>10. ShownIsAnswered' /\ UnpairsPaired'
    BY <1>0 DEF PairingFields, ShownIsAnswered, UnpairsPaired, PairingCounts, PairingValues, Sockets,
       Keys
<1>11. CancelledRests'
    BY <1>0 DEF PairingFields, CancelledRests, CallsAhead, Named, Discovering, Identifying, Making,
       Overtaken, PairingCounts, PairingValues, Sockets, Keys
<1>12. ASSUME ~bpCrossed' PROVE PairingOrder'
  <2>0. ~bpCrossed /\ PairingOrder
    BY <1>0, <1>12
  <2>1. MakesFirstKey'
    BY <1>0, <1>12, <2>0 DEF PairingFields, PairingOrder, MakesFirstKey, Named, Discovering,
       Identifying, Making, Overtaken, PairingCounts, PairingValues, Sockets, Keys
  <2>2. ShowsKey'
    BY <1>0, <1>12, <2>0 DEF PairingFields, PairingOrder, ShowsKey, MakesFirstKey, PairedRests,
       UnpairsPaired, SocketHasContext, Named, Discovering, Identifying, Making, Overtaken,
       PairingCounts, PairingValues, Sockets, Keys
  <2>3. PairedRests'
    BY <1>0, <1>12, <2>0 DEF PairingFields, PairingOrder, PairedRests, HandlersOwn, OpensAlone,
       UnpairsPaired, SocketHasContext, CallsAhead, Named, Discovering, Identifying, Making,
       Overtaken, PairingCounts, PairingValues, Sockets, Keys
  <2>4. PairedWithKey'
    BY <1>0, <1>12, <2>0 DEF PairingFields, PairingOrder, PairedWithKey, HandlersOwn, ShowsKey,
       UnpairsPaired, MakesFirstKey, PairedRests, SocketHasContext, Named, Discovering, Identifying,
       Making, Overtaken, PairingCounts, PairingValues, Sockets, Keys
  <2>5. ShownIsCurrent'
    BY <1>0, <1>12, <2>0 DEF PairingFields, PairingOrder, ShownIsCurrent, PairedRests, OpensAlone,
       SocketHasContext, CallsAhead, Named, Discovering, Identifying, Making, Overtaken,
       PairingCounts, PairingValues, Sockets, Keys
  <2>6. WaitsForTimer'
    BY <1>0, <1>12, <2>0 DEF PairingFields, PairingOrder, WaitsForTimer, HandlersOwn, ShownIsAnswered,
       SocketHasContext, Named, Discovering, Identifying, Making, Overtaken, PairingCounts,
       PairingValues, Sockets, Keys
  <2> QED
    BY <2>1, <2>2, <2>3, <2>4, <2>5, <2>6 DEF PairingOrder
<1> QED
    BY <1>1, <1>2, <1>3, <1>4, <1>5, <1>6, <1>7, <1>8, <1>9, <1>10, <1>11, <1>12 DEF PairingInv,
       PairingFields

LEMMA KeyClearedKeepsPairing ==
    ASSUME PairingInv,
           KeyCleared
    PROVE  PairingInv'
<1> USE BridgePairingConstants DEF KeyCleared, PairingEvent, bpAttempt, bpStore, bpHistory
<1>0. PairingCounts /\ PairingValues /\ PairingFlags /\ PairingFields /\ (~bpCrossed => PairingOrder)
    BY DEF PairingInv
<1>1. PairingCounts'
    BY <1>0 DEF PairingCounts, Sockets, PairingFields, CallsAhead
<1>2. PairingValues'
    BY <1>0 DEF PairingCounts, PairingValues, PairingStates, Sockets, Keys
<1>3. PairingFlags'
    BY <1>0, Zenon DEF PairingFlags
<1>4. KeysForCalls' /\ GenerationsForCalls'
  <2>1. CallsUnderWay' = CallsUnderWay /\ CallsAtDiscovery' = CallsAtDiscovery
    BY DEF CallsUnderWay, CallsAtDiscovery, Named, Discovering
  <2>2. Cardinality(CallsUnderWay) \in Nat /\ Cardinality(CallsAtDiscovery) \in Nat
    BY <1>0, CallsCounted
  <2> QED
    BY <1>0, <2>1, <2>2 DEF PairingCounts, PairingFields, KeysForCalls, GenerationsForCalls
<1>5. CallsAhead'
    BY <1>0 DEF PairingFields, CallsAhead, Named, PairingCounts, PairingValues, Sockets, Keys
<1>6. NoPairingSocketLeft'
    BY <1>0 DEF PairingFields, NoPairingSocketLeft, OpensAlone, Named, Discovering, Identifying,
       Making, Overtaken, PairingCounts, PairingValues, Sockets, Keys
<1>7. SocketHasContext'
    BY <1>0 DEF PairingFields, SocketHasContext, PairingCounts, PairingValues, Sockets, Keys
<1>8. OpensAlone'
    BY <1>0 DEF PairingFields, OpensAlone, CallsAhead, Named, Discovering, Identifying, Making,
       Overtaken, PairingCounts, PairingValues, Sockets, Keys
<1>9. HandlersOwn'
    BY <1>0 DEF PairingFields, HandlersOwn, SocketHasContext, CallsAhead, Named, Discovering,
       Identifying, Making, Overtaken, PairingCounts, PairingValues, Sockets, Keys
<1>10. ShownIsAnswered' /\ UnpairsPaired'
    BY <1>0 DEF PairingFields, ShownIsAnswered, UnpairsPaired, PairingCounts, PairingValues, Sockets,
       Keys
<1>11. CancelledRests'
    BY <1>0 DEF PairingFields, CancelledRests, CallsAhead, Named, Discovering, Identifying, Making,
       Overtaken, PairingCounts, PairingValues, Sockets, Keys
<1>12. ASSUME ~bpCrossed' PROVE PairingOrder'
  <2>0. ~bpCrossed /\ PairingOrder
    BY <1>0, <1>12
  <2>1. MakesFirstKey'
    BY <1>0, <1>12, <2>0 DEF PairingFields, PairingOrder, MakesFirstKey, Named, Discovering,
       Identifying, Making, Overtaken, PairingCounts, PairingValues, Sockets, Keys
  <2>2. ShowsKey'
    BY <1>0, <1>12, <2>0 DEF PairingFields, PairingOrder, ShowsKey, MakesFirstKey, PairedRests,
       UnpairsPaired, SocketHasContext, Named, Discovering, Identifying, Making, Overtaken,
       PairingCounts, PairingValues, Sockets, Keys
  <2>3. PairedRests'
    BY <1>0, <1>12, <2>0 DEF PairingFields, PairingOrder, PairedRests, HandlersOwn, OpensAlone,
       UnpairsPaired, SocketHasContext, CallsAhead, Named, Discovering, Identifying, Making,
       Overtaken, PairingCounts, PairingValues, Sockets, Keys
  <2>4. PairedWithKey'
    BY <1>0, <1>12, <2>0 DEF PairingFields, PairingOrder, PairedWithKey, HandlersOwn, ShowsKey,
       UnpairsPaired, MakesFirstKey, PairedRests, SocketHasContext, Named, Discovering, Identifying,
       Making, Overtaken, PairingCounts, PairingValues, Sockets, Keys
  <2>5. ShownIsCurrent'
    BY <1>0, <1>12, <2>0 DEF PairingFields, PairingOrder, ShownIsCurrent, PairedRests, OpensAlone,
       SocketHasContext, CallsAhead, Named, Discovering, Identifying, Making, Overtaken,
       PairingCounts, PairingValues, Sockets, Keys
  <2>6. WaitsForTimer'
    BY <1>0, <1>12, <2>0 DEF PairingFields, PairingOrder, WaitsForTimer, HandlersOwn, ShownIsAnswered,
       SocketHasContext, Named, Discovering, Identifying, Making, Overtaken, PairingCounts,
       PairingValues, Sockets, Keys
  <2> QED
    BY <2>1, <2>2, <2>3, <2>4, <2>5, <2>6 DEF PairingOrder
<1> QED
    BY <1>1, <1>2, <1>3, <1>4, <1>5, <1>6, <1>7, <1>8, <1>9, <1>10, <1>11, <1>12 DEF PairingInv,
       PairingFields

LEMMA PairingRemovedKeepsPairing ==
    ASSUME PairingInv,
           PairingRemoved
    PROVE  PairingInv'
<1> USE BridgePairingConstants DEF PairingRemoved, PairingEvent, Unpaired, bpAttempt, bpStore, bpHistory
<1>0. PairingCounts /\ PairingValues /\ PairingFlags /\ PairingFields /\ (~bpCrossed => PairingOrder)
    BY DEF PairingInv
<1>1. PairingCounts'
    BY <1>0 DEF PairingCounts, Sockets, PairingFields, CallsAhead
<1>2. PairingValues'
    BY <1>0 DEF PairingCounts, PairingValues, PairingStates, Sockets, Keys
<1>3. PairingFlags'
    BY <1>0, Zenon DEF PairingFlags
<1>4. KeysForCalls' /\ GenerationsForCalls'
  <2>1. CallsUnderWay' = CallsUnderWay /\ CallsAtDiscovery' = CallsAtDiscovery
    BY DEF CallsUnderWay, CallsAtDiscovery, Named, Discovering
  <2>2. Cardinality(CallsUnderWay) \in Nat /\ Cardinality(CallsAtDiscovery) \in Nat
    BY <1>0, CallsCounted
  <2> QED
    BY <1>0, <2>1, <2>2 DEF PairingCounts, PairingFields, KeysForCalls, GenerationsForCalls
<1>5. CallsAhead'
    BY <1>0 DEF PairingFields, CallsAhead, Named, PairingCounts, PairingValues, Sockets, Keys
<1>6. NoPairingSocketLeft'
    BY <1>0 DEF PairingFields, NoPairingSocketLeft, OpensAlone, Named, Discovering, Identifying,
       Making, Overtaken, PairingCounts, PairingValues, Sockets, Keys
<1>7. SocketHasContext'
    BY <1>0 DEF PairingFields, SocketHasContext, PairingCounts, PairingValues, Sockets, Keys
<1>8. OpensAlone'
    BY <1>0 DEF PairingFields, OpensAlone, CallsAhead, Named, Discovering, Identifying, Making,
       Overtaken, PairingCounts, PairingValues, Sockets, Keys
<1>9. HandlersOwn'
    BY <1>0 DEF PairingFields, HandlersOwn, SocketHasContext, CallsAhead, Named, Discovering,
       Identifying, Making, Overtaken, PairingCounts, PairingValues, Sockets, Keys
<1>10. ShownIsAnswered' /\ UnpairsPaired'
    BY <1>0 DEF PairingFields, ShownIsAnswered, UnpairsPaired, PairingCounts, PairingValues, Sockets,
       Keys
<1>11. CancelledRests'
    BY <1>0 DEF PairingFields, CancelledRests, CallsAhead, Named, Discovering, Identifying, Making,
       Overtaken, PairingCounts, PairingValues, Sockets, Keys
<1>12. ASSUME ~bpCrossed' PROVE PairingOrder'
  <2>0. ~bpCrossed /\ PairingOrder
    BY <1>0, <1>12
  <2>1. MakesFirstKey'
    BY <1>0, <1>12, <2>0 DEF PairingFields, PairingOrder, MakesFirstKey, Named, Discovering,
       Identifying, Making, Overtaken, PairingCounts, PairingValues, Sockets, Keys
  <2>2. ShowsKey'
    BY <1>0, <1>12, <2>0 DEF PairingFields, PairingOrder, ShowsKey, MakesFirstKey, PairedRests,
       UnpairsPaired, SocketHasContext, Named, Discovering, Identifying, Making, Overtaken,
       PairingCounts, PairingValues, Sockets, Keys
  <2>3. PairedRests'
    BY <1>0, <1>12, <2>0 DEF PairingFields, PairingOrder, PairedRests, HandlersOwn, OpensAlone,
       UnpairsPaired, SocketHasContext, CallsAhead, Named, Discovering, Identifying, Making,
       Overtaken, PairingCounts, PairingValues, Sockets, Keys
  <2>4. PairedWithKey'
    BY <1>0, <1>12, <2>0 DEF PairingFields, PairingOrder, PairedWithKey, HandlersOwn, ShowsKey,
       UnpairsPaired, MakesFirstKey, PairedRests, SocketHasContext, Named, Discovering, Identifying,
       Making, Overtaken, PairingCounts, PairingValues, Sockets, Keys
  <2>5. ShownIsCurrent'
    BY <1>0, <1>12, <2>0 DEF PairingFields, PairingOrder, ShownIsCurrent, PairedRests, OpensAlone,
       SocketHasContext, CallsAhead, Named, Discovering, Identifying, Making, Overtaken,
       PairingCounts, PairingValues, Sockets, Keys
  <2>6. WaitsForTimer'
    BY <1>0, <1>12, <2>0 DEF PairingFields, PairingOrder, WaitsForTimer, HandlersOwn, ShownIsAnswered,
       SocketHasContext, Named, Discovering, Identifying, Making, Overtaken, PairingCounts,
       PairingValues, Sockets, Keys
  <2> QED
    BY <2>1, <2>2, <2>3, <2>4, <2>5, <2>6 DEF PairingOrder
<1> QED
    BY <1>1, <1>2, <1>3, <1>4, <1>5, <1>6, <1>7, <1>8, <1>9, <1>10, <1>11, <1>12 DEF PairingInv,
       PairingFields

\* The worker is terminated.
LEMMA PairingKilledKeepsPairing == ASSUME PairingInv, PairingKilled PROVE PairingInv'
<1> USE BridgePairingConstants DEF PairingKilled, PairingEvent, bpStore
<1>0. PairingCounts /\ PairingValues /\ PairingFlags /\ PairingFields /\ (~bpCrossed => PairingOrder)
    BY DEF PairingInv
<1>1. PairingCounts'
    BY <1>0 DEF PairingCounts
<1>2. PairingValues'
    BY <1>0 DEF PairingValues, PairingStates
<1>3. PairingFlags'
    BY <1>0, Zenon DEF PairingFlags
<1>4. \A call \in Sockets : ~Named(call)' /\ ~Identifying(call)' /\ ~Making(call)'
    BY DEF Named, Identifying, Making
<1>5. KeysForCalls' /\ GenerationsForCalls'
  <2>1. CallsUnderWay' = {} /\ CallsAtDiscovery' = {}
    BY <1>4 DEF CallsUnderWay, CallsAtDiscovery, Named, Discovering
  <2>2. Cardinality(CallsUnderWay) \in Nat
    BY <1>0, CallsCounted
  <2> QED
    BY <1>0, <2>1, <2>2, FS_EmptySet
       DEF PairingCounts, PairingFields, KeysForCalls, GenerationsForCalls
<1>6. CallsAhead'
    BY <1>0, <1>4 DEF PairingFields, PairingValues, CallsAhead
<1>7. /\ NoPairingSocketLeft' /\ SocketHasContext' /\ OpensAlone' /\ HandlersOwn'
      /\ ShownIsAnswered' /\ UnpairsPaired'
    BY <1>4 DEF NoPairingSocketLeft, SocketHasContext, OpensAlone, HandlersOwn, ShownIsAnswered,
       UnpairsPaired, Sockets
<1>8. CancelledRests'
    BY <1>0, <1>4 DEF PairingFields, CancelledRests
<1>9. ASSUME ~bpCrossed' PROVE PairingOrder'
  <2>1. MakesFirstKey' /\ ShowsKey' /\ PairedRests' /\ ShownIsCurrent' /\ WaitsForTimer'
    BY <1>4 DEF MakesFirstKey, ShowsKey, PairedRests, ShownIsCurrent, WaitsForTimer
  <2>2. PairedWithKey'
    BY <1>0, <1>9 DEF PairingOrder, PairedWithKey, PairingValues
  <2> QED
    BY <2>1, <2>2 DEF PairingOrder
<1> QED
    BY <1>1, <1>2, <1>3, <1>5, <1>6, <1>7, <1>8, <1>9 DEF PairingInv, PairingFields

-----------------------------------------------------------------------------
(* The theorem *)

LEMMA CallFailsKeepsPairing ==
    ASSUME PairingInv, NEW call \in Sockets, CallFails(call)
    PROVE  PairingInv'
<1>1. bpStale' \in BOOLEAN /\ (bpStale => bpStale')
    BY Zenon DEF CallFails, PairingInv, PairingFlags
<1>2. ~Identifying(call) \/ Overtaken(call) \/ bpStale' \/ bpState.state # "pending"
    BY Zenon DEF CallFails, Identifying
<1> QED
    BY <1>1, <1>2, CallGivesUpKeepsPairing DEF CallFails, Named, bpAttempt

LEMMA DiscoveredKeepsPairing ==
    ASSUME PairingInv, NEW call \in Sockets, Discovered(call) \/ DiscoveryFails(call)
    PROVE  PairingInv'
<1>0. bpStale \in BOOLEAN
    BY DEF PairingInv, PairingFlags
<1>1. CASE DiscoveryFails(call)
    BY <1>0, <1>1, CallGivesUpKeepsPairing DEF DiscoveryFails, Named, Identifying, Overtaken, bpHistory
<1>2. CASE Discovered(call) /\ (Overtaken(call) \/ bpPaired # NoPairing)
    BY <1>0, <1>2, CallGivesUpKeepsPairing
       DEF Discovered, Named, Identifying, Overtaken, bpHistory, bpAttempt
<1>3. CASE Discovered(call) /\ ~Overtaken(call) /\ bpPaired = NoPairing
    BY <1>3, CallGoesOnKeepsPairing DEF Discovered, Named, Discovering, Overtaken, bpHistory
<1> QED
    BY <1>1, <1>2, <1>3

LEMMA IdentifiedKeepsPairing ==
    ASSUME PairingInv, NEW call \in Sockets, Identified(call) \/ KeyMade(call)
    PROVE  PairingInv'
<1>0. PairingCounts /\ PairingValues /\ PairingFlags /\ KeysForCalls
    BY DEF PairingInv, PairingFields
<1>1. CASE Identified(call) /\ bpKey # 0
  <2>1. bpCrossed' = bpCrossed
      BY <1>0, <1>1, Zenon DEF Identified, PairingFlags
  <2>2. CASE Overtaken(call)
      BY <1>0, <1>1, <2>1, <2>2, CallGivesUpKeepsPairing
         DEF PairingFlags, Identified, Opens, Named, bpAttempt
  <2>3. CASE ~Overtaken(call)
      BY <1>0, <1>1, <2>1, <2>3, CallOpensKeepsPairing
         DEF Identified, Named, Identifying, bpStore, PairingValues
  <2> QED
      BY <2>2, <2>3
<1>2. CASE Identified(call) /\ bpKey = 0
    BY <1>2, CallMakesKeepsPairing DEF Identified, Named, Identifying, Making
<1>3. CASE KeyMade(call)
  <2>1. Making(call) /\ Identifying(call)
      BY <1>3 DEF KeyMade, Making, Named, Identifying
  <2>2. bpKeys + 1 \in Keys
      BY <1>0, <2>1, KeyRoom DEF Making
  <2>3. CASE Overtaken(call)
      BY <1>3, <2>1, <2>3, KeyMadeLateKeepsPairing DEF KeyMade, Opens, bpHistory
  <2>4. CASE ~Overtaken(call)
      BY <1>3, <2>1, <2>2, <2>4, CallOpensKeepsPairing DEF KeyMade, bpHistory
  <2> QED
      BY <2>3, <2>4
<1> QED
    BY <1>1, <1>2, <1>3

LEMMA PairingStutters == ASSUME PairingInv, UNCHANGED bpVars PROVE PairingInv'
<1> USE DEF bpVars, bpStore, bpAttempt, bpHistory, PairingInv
<1>1. PairingCounts' /\ PairingValues' /\ PairingFlags'
    BY DEF PairingCounts, PairingValues, PairingFlags
<1>2. KeysForCalls' /\ GenerationsForCalls'
    BY DEF PairingFields, KeysForCalls, GenerationsForCalls, CallsUnderWay, CallsAtDiscovery,
           Named, Discovering
<1>3. /\ CallsAhead' /\ NoPairingSocketLeft' /\ SocketHasContext' /\ OpensAlone' /\ HandlersOwn'
      /\ ShownIsAnswered' /\ UnpairsPaired' /\ CancelledRests'
    BY DEF PairingFields, CallsAhead, NoPairingSocketLeft, SocketHasContext, OpensAlone,
           HandlersOwn, ShownIsAnswered, UnpairsPaired, CancelledRests, Named, Identifying, Overtaken
<1>4. ~bpCrossed' => PairingOrder'
    BY DEF PairingOrder, MakesFirstKey, ShowsKey, PairedRests, PairedWithKey, ShownIsCurrent,
           WaitsForTimer, Named, Making, Identifying, Overtaken
<1> QED
    BY <1>1, <1>2, <1>3, <1>4 DEF PairingFields

LEMMA PairingStep == ASSUME PairingInv, [PairingSteps]_bpVars PROVE PairingInv'
<1>1. CASE \E call \in Sockets : Discovered(call) \/ DiscoveryFails(call) \/ CallFails(call)
    BY <1>1, DiscoveredKeepsPairing, CallFailsKeepsPairing
<1>2. CASE \E call \in Sockets : Identified(call) \/ KeyMade(call)
    BY <1>2, IdentifiedKeepsPairing
<1>3. CASE \E call \in Sockets : StartPairing(call)
    BY <1>3, StartPairingKeepsPairing
<1>4. CASE \E handler \in bpHandlers : CodeComputed(handler)
    BY <1>4, CodeComputedKeepsPairing
<1>5. CASE \E handler \in bpHandlers : ApprovalStored(handler)
    BY <1>5, ApprovalStoredKeepsPairing
<1>6. CASE \E socket \in Sockets : PairPending(socket) \/ PairApproved(socket)
    BY <1>6, PairPendingKeepsPairing, PairApprovedKeepsPairing
<1>7. CASE \E socket \in Sockets : PairRefused(socket) \/ SocketLost(socket)
    BY <1>7, PairRefusedKeepsPairing, SocketLostKeepsPairing
<1>8. CASE PairingTimer \/ UserCancels
    BY <1>8, PairingTimerKeepsPairing, UserCancelsKeepsPairing
<1>9. CASE Unpair \/ KeyCleared \/ PairingRemoved \/ PairingKilled
    BY <1>9, UnpairKeepsPairing, KeyClearedKeepsPairing, PairingRemovedKeepsPairing,
       PairingKilledKeepsPairing
<1>10. CASE UNCHANGED bpVars
    BY <1>10, PairingStutters
<1> QED
    BY <1>1, <1>2, <1>3, <1>4, <1>5, <1>6, <1>7, <1>8, <1>9, <1>10 DEF PairingSteps, PairingWorks

\* The type invariant, with the bounds that the counts of calls give.
LEMMA PairingTyped == ASSUME PairingInv PROVE PairingTypeOK
<1>0. PairingCounts /\ PairingValues /\ PairingFlags /\ PairingFields
    BY DEF PairingInv
<1>1. Cardinality(CallsUnderWay) \in Nat /\ Cardinality(CallsAtDiscovery) \in Nat
    BY <1>0, CallsCounted
<1>2. bpKeys \in 0 .. MaxStarts
    BY <1>0, <1>1, BridgePairingConstants DEF PairingFields, KeysForCalls, PairingCounts
<1>3. bpGeneration \in 0 .. MaxStarts + MaxBpEvents
    BY <1>0, <1>1, BridgePairingConstants DEF PairingFields, GenerationsForCalls, PairingCounts
<1>4. ASSUME NEW call \in Sockets
      PROVE  bpCalls[call] \in {NoPairing} \cup
               [step : {"discover", "identity", "making"}, generation : 0 .. MaxStarts + MaxBpEvents]
  <2>1. CASE ~Named(call)
      BY <2>1 DEF Named
  <2>2. CASE Named(call)
    <3>1. bpCalls[call] \in [step : {"discover", "identity", "making"}, generation : Nat]
          /\ bpCalls[call].generation \in Nat
        BY <1>0, <2>2, NamedCalls
    <3>2. bpCalls[call].generation =< bpGeneration
        BY <1>0, <2>2 DEF PairingFields, CallsAhead
    <3>3. bpCalls[call].generation \in 0 .. MaxStarts + MaxBpEvents
        BY <1>3, <3>1, <3>2, BridgePairingConstants
    <3> QED
        BY <3>1, <3>3
  <2> QED
      BY <2>1, <2>2
<1>5. bpCalls \in [Sockets -> {NoPairing} \cup
               [step : {"discover", "identity", "making"}, generation : 0 .. MaxStarts + MaxBpEvents]]
    BY <1>0, <1>4 DEF PairingCounts
<1>6. {bpCrossed, bpHalf, bpStale, bpCancelled} \subseteq BOOLEAN /\ bpWaiting \in BOOLEAN
    BY <1>0, Zenon DEF PairingFlags
<1> QED
    BY <1>0, <1>2, <1>3, <1>5, <1>6 DEF PairingTypeOK, PairingCounts, PairingValues

\* An attempt has one outcome however calls, messages, timers and the database interleave:
\* it leaves no socket open, answers its caller, and pairs with the key that was approved.
THEOREM PairingHasOneOutcome == PairingSpec => []PairingSound
<1>1. PairingInv => PairingSound
  <2> SUFFICES ASSUME PairingInv PROVE PairingSound
      OBVIOUS
  <2>1. PairingTypeOK
      BY PairingTyped
  <2>2. NoPairingSocketLeft /\ CancelIsFinal
      BY DEF PairingInv, PairingFields, CancelledRests, CancelIsFinal
  <2>3. PendingIsCurrent
      BY DEF PairingInv, PairingOrder, ShownIsCurrent, PendingIsCurrent, Identifying, Named
  <2>4. CallerIsAnswered /\ PairedKeyKept
      BY DEF PairingInv, PairingOrder, WaitsForTimer, CallerIsAnswered, PairedWithKey, PairedKeyKept
  <2> QED
      BY <2>1, <2>2, <2>3, <2>4 DEF PairingSound
<1> QED
    BY <1>1, PairingInitInvariant, PairingStep, PTL DEF PairingSpec
(***************************************************************************)
(* BridgeRequests                                                          *)
(***************************************************************************)

RequestRecords ==
    [id : RequestIds, connection : 1 .. MaxConnections, aborted : BOOLEAN, asked : BOOLEAN,
     stage : {"admitting", "running", "over"}, answer : {"none", "result", "error"},
     answered : 0 .. MaxConnections]
IdsInFlight == {id \in RequestIds : rqInFlight[id] # 0}
Crossings == {"ids", "requests", "chunks"}

LinkTyped ==
    /\ rqLink \in {"down", "connecting", "negotiating", "up", "broken", "failed", "closing", "refused"}
    /\ rqConnection \in 0 .. MaxConnections /\ rqFaults \in 0 .. MaxRqFaults
    /\ rqLink # "down" => rqConnection # 0
TablesTyped ==
    /\ rqRequests \in Seq(RequestRecords) /\ Len(rqRequests) =< MaxRequests
    /\ rqInFlight \in [RequestIds -> 0 .. MaxRequests]
    /\ rqOperations \subseteq DOMAIN rqRequests
ChunksTyped ==
    /\ rqSent \in [Transfers -> 0 .. Parts]
    /\ rqChunks \in [Transfers -> [PartNumbers -> 0 .. MaxConnections]]

\* The slot of an id is of a request with that id.
SlotsOfIds ==
    \A id \in RequestIds : rqInFlight[id] # 0 =>
        rqInFlight[id] \in DOMAIN rqRequests /\ rqRequests[rqInFlight[id]].id = id

\* An aborted request does not run, a live one has no answer, an operation was admitted.
StagesFollow ==
    \A r \in DOMAIN rqRequests :
        /\ rqRequests[r].stage = "running" => ~rqRequests[r].aborted
        /\ Live(r) => rqRequests[r].answer = "none"
        /\ r \in rqOperations => rqRequests[r].stage # "admitting"

\* Live requests have ids of their own; those that nobody aborted have their slots and are
\* of this connection, unless one took over those of an earlier one.
LiveApart ==
    \A r, other \in DOMAIN rqRequests :
        Live(r) /\ Live(other) /\ rqRequests[r].id = rqRequests[other].id => r = other
LiveOfLink ==
    \A r \in DOMAIN rqRequests :
        Live(r) /\ ~rqRequests[r].aborted =>
            r \in Registered /\ ("requests" \in rqCrossed \/ rqRequests[r].connection = rqConnection)
RegisteredLive == \A r \in Registered : Live(r)
ResultsKept ==
    \A r \in DOMAIN rqRequests : rqRequests[r].answer = "result" =>
        /\ ~rqRequests[r].aborted
        /\ "requests" \in rqCrossed \/ rqRequests[r].answered = rqRequests[r].connection

Uncrossed == LiveApart /\ LiveOfLink /\ RegisteredLive /\ ResultsKept
Tables == TablesTyped /\ SlotsOfIds /\ StagesFollow /\ (NotCrossed => Uncrossed)

\* The tables keep within their sizes.
SlotsBounded == IsFiniteSet(IdsInFlight) /\ Cardinality(IdsInFlight) =< MaxConcurrent
OutgoingBounded == rqOutgoing \subseteq rqOperations /\ Cardinality(rqOutgoing) =< MaxOutgoing

\* Without a connection that was working no slot is taken and nothing outgoing waits, unless
\* those of an earlier connection were taken over.
NoSlots == \A id \in RequestIds : rqInFlight[id] = 0
LinkCarries ==
    rqLink \in {"up", "broken", "closing"} \/ "requests" \in rqCrossed \/ (rqOutgoing = {} /\ NoSlots)

\* The chunks that wait are of this connection, and none waits before it opens, unless those
\* of an earlier one were taken over.
NoChunks == \A t \in Transfers : rqChunks[t] = NoParts
ChunksOfLink == "chunks" \notin rqCrossed =>
    /\ \A t \in Transfers, part \in PartNumbers : rqChunks[t][part] \in {0, rqConnection}
    /\ rqLink \in {"down", "failed", "connecting"} => NoChunks

\* No message was put together of two connections (WholeMessages).
NotMixed == rqMixed \in BOOLEAN /\ ("chunks" \notin rqCrossed => rqMixed = FALSE)

Links == LinkTyped /\ SlotsBounded /\ OutgoingBounded /\ LinkCarries
Chunks == ChunksTyped /\ ChunksOfLink /\ NotMixed

RequestsInv == rqCrossed \in SUBSET Crossings /\ Tables /\ Links /\ Chunks

-----------------------------------------------------------------------------
(* The effects of aborting and answering *)

LEMMA RequestsShape ==
    ASSUME TablesTyped
    PROVE  /\ Len(rqRequests) \in Nat /\ DOMAIN rqRequests = 1 .. Len(rqRequests)
           /\ \A r \in DOMAIN rqRequests : rqRequests[r] \in RequestRecords
           /\ rqRequests \in [DOMAIN rqRequests -> RequestRecords]
<1>1. rqRequests \in Seq(RequestRecords)
    BY DEF TablesTyped
<1> QED
    BY <1>1, LenProperties, ElementOfSeq

\* A table that has the same requests in another state.
LEMMA RequestsMapped ==
    ASSUME TablesTyped, NEW next, next \in [DOMAIN rqRequests -> RequestRecords]
    PROVE  /\ next \in Seq(RequestRecords) /\ Len(next) = Len(rqRequests)
           /\ DOMAIN next = DOMAIN rqRequests
<1>1. Len(rqRequests) \in Nat /\ DOMAIN rqRequests = 1 .. Len(rqRequests)
    BY RequestsShape
<1>2. next \in [1 .. Len(rqRequests) -> RequestRecords]
    BY <1>1
<1>3. next = [r \in 1 .. Len(rqRequests) |-> next[r]]
    BY <1>2
<1>4. \A r \in 1 .. Len(rqRequests) : next[r] \in RequestRecords
    BY <1>2
<1>5. next \in Seq(RequestRecords)
    BY <1>1, <1>2
<1>6. Len(next) = Len(rqRequests)
    BY <1>1, <1>2, <1>5, LenProperties
<1> QED
    BY <1>1, <1>2, <1>5, <1>6

LEMMA AbortedRequest ==
    ASSUME NEW request \in RequestRecords, NEW sent \in BOOLEAN, rqConnection \in 0 .. MaxConnections
    PROVE  LET next == Aborted(request, sent) IN
           /\ next \in RequestRecords /\ next.aborted
           /\ next.id = request.id /\ next.connection = request.connection
           /\ request.stage = "admitting" => next.stage = "admitting" /\ next.answer = request.answer
           /\ request.stage # "admitting" => next.stage = "over" /\ next.answer \in {"none", "error"}
<1>1. CASE request.stage = "admitting"
    BY <1>1 DEF Aborted, RequestRecords
<1>2. CASE request.stage # "admitting" /\ sent
  <2>1. Aborted(request, sent) = [request EXCEPT !.aborted = TRUE, !.stage = "over", !.answer = "error",
                                                 !.answered = rqConnection]
      BY <1>2 DEF Aborted
  <2> QED
      BY <1>2, <2>1 DEF RequestRecords
<1>3. CASE request.stage # "admitting" /\ ~sent
  <2>1. Aborted(request, sent) = [request EXCEPT !.aborted = TRUE, !.stage = "over", !.answer = "none",
                                                 !.answered = 0]
      BY <1>3 DEF Aborted
  <2>2. 0 \in 0 .. MaxConnections
      BY BridgeRequestsConstants
  <2> QED
      BY <1>3, <2>1, <2>2 DEF RequestRecords
<1> QED
    BY <1>1, <1>2, <1>3

\* What is left when the slots are emptied.
Emptied(over) ==
    /\ DOMAIN rqRequests' = DOMAIN rqRequests
    /\ \A r \in DOMAIN rqRequests :
         /\ rqRequests'[r].id = rqRequests[r].id
         /\ rqRequests'[r].connection = rqRequests[r].connection
         /\ r \in over =>
              rqRequests'[r] = [rqRequests[r] EXCEPT !.stage = "over"]
         /\ (r \in Registered /\ r \notin over) =>
              /\ rqRequests'[r].aborted
              /\ rqRequests[r].stage = "admitting" =>
                    rqRequests'[r].stage = "admitting" /\ rqRequests'[r].answer = rqRequests[r].answer
              /\ rqRequests[r].stage # "admitting" =>
                    rqRequests'[r].stage = "over" /\ rqRequests'[r].answer \in {"none", "error"}
         /\ (r \notin Registered /\ r \notin over) => rqRequests'[r] = rqRequests[r]
    /\ NoSlots' /\ NoChunks'

LEMMA AbortEffect ==
    ASSUME TablesTyped, rqConnection \in 0 .. MaxConnections,
           NEW over \in SUBSET DOMAIN rqRequests, NEW sent \in BOOLEAN, AbortInFlight(over, sent)
    PROVE  /\ Emptied(over)
           /\ rqRequests' \in Seq(RequestRecords) /\ Len(rqRequests') = Len(rqRequests)
           /\ rqInFlight' \in [RequestIds -> 0 .. MaxRequests]
           /\ rqChunks' = [t \in Transfers |-> NoParts]
<1>1. \A r \in DOMAIN rqRequests : rqRequests[r] \in RequestRecords
    BY RequestsShape
<1>2. DOMAIN rqRequests' = DOMAIN rqRequests
    BY DEF AbortInFlight
<1>3. ASSUME NEW r \in DOMAIN rqRequests, r \in over
      PROVE  rqRequests'[r] = [rqRequests[r] EXCEPT !.stage = "over"]
    BY <1>3 DEF AbortInFlight
<1>4. ASSUME NEW r \in DOMAIN rqRequests, r \in Registered, r \notin over
      PROVE  rqRequests'[r] = Aborted(rqRequests[r], sent)
    BY <1>4 DEF AbortInFlight
<1>5. ASSUME NEW r \in DOMAIN rqRequests, r \notin Registered, r \notin over
      PROVE  rqRequests'[r] = rqRequests[r]
    BY <1>5 DEF AbortInFlight
<1>6. ASSUME NEW r \in DOMAIN rqRequests
      PROVE  rqRequests'[r] \in RequestRecords
  <2>1. CASE r \in over
      BY <1>1, <1>3, <2>1 DEF RequestRecords
  <2>2. CASE r \in Registered /\ r \notin over
      BY <1>1, <1>4, <2>2, AbortedRequest
  <2>3. CASE r \notin Registered /\ r \notin over
      BY <1>1, <1>5, <2>3
  <2> QED
      BY <2>1, <2>2, <2>3
<1>7. rqRequests' \in [DOMAIN rqRequests -> RequestRecords]
    BY <1>6 DEF AbortInFlight
<1>8. rqRequests' \in Seq(RequestRecords) /\ Len(rqRequests') = Len(rqRequests)
    BY <1>7, RequestsMapped
<1>9. /\ rqInFlight' \in [RequestIds -> 0 .. MaxRequests] /\ NoSlots'
      /\ rqChunks' = [t \in Transfers |-> NoParts] /\ NoChunks'
    BY BridgeRequestsConstants DEF AbortInFlight, ClearChunks, NoSlots, NoChunks
<1>10. ASSUME NEW r \in DOMAIN rqRequests
       PROVE  /\ rqRequests'[r].id = rqRequests[r].id
              /\ rqRequests'[r].connection = rqRequests[r].connection
              /\ (r \in Registered /\ r \notin over) =>
                   /\ rqRequests'[r].aborted
                   /\ rqRequests[r].stage = "admitting" =>
                         rqRequests'[r].stage = "admitting" /\ rqRequests'[r].answer = rqRequests[r].answer
                   /\ rqRequests[r].stage # "admitting" =>
                         rqRequests'[r].stage = "over" /\ rqRequests'[r].answer \in {"none", "error"}
  <2>1. CASE r \in over
      BY <1>1, <1>3, <2>1 DEF RequestRecords
  <2>2. CASE r \in Registered /\ r \notin over
      BY <1>1, <1>4, <2>2, AbortedRequest
  <2>3. CASE r \notin Registered /\ r \notin over
      BY <1>5, <2>3
  <2> QED
      BY <2>1, <2>2, <2>3
<1> QED
    BY <1>2, <1>3, <1>5, <1>8, <1>9, <1>10 DEF Emptied

\* Emptying the slots keeps the tables, whatever ends with it and whoever is connected next.
LEMMA AbortKeeps ==
    ASSUME rqCrossed \in SUBSET Crossings, Tables, rqConnection \in 0 .. MaxConnections,
           NEW over \in SUBSET DOMAIN rqRequests, NEW sent \in BOOLEAN, AbortInFlight(over, sent),
           rqOperations' \subseteq rqOperations \cup over, rqCrossed' = rqCrossed,
           \A r \in over : Live(r)
    PROVE  Tables' /\ NoSlots' /\ rqChunks' = [t \in Transfers |-> NoParts]
<1>0. TablesTyped /\ SlotsOfIds /\ StagesFollow /\ (NotCrossed => Uncrossed)
    BY DEF Tables
<1>1. /\ Emptied(over)
      /\ rqRequests' \in Seq(RequestRecords) /\ Len(rqRequests') = Len(rqRequests)
      /\ rqInFlight' \in [RequestIds -> 0 .. MaxRequests]
      /\ rqChunks' = [t \in Transfers |-> NoParts]
    BY <1>0, AbortEffect
<1>2. \A r \in DOMAIN rqRequests : rqRequests[r] \in RequestRecords
    BY <1>0, RequestsShape
<1>3. TablesTyped'
    BY <1>0, <1>1 DEF TablesTyped, Emptied
<1>4. SlotsOfIds'
    BY <1>1 DEF SlotsOfIds, Emptied, NoSlots
<1>5. StagesFollow'
  <2> SUFFICES ASSUME NEW r \in DOMAIN rqRequests
               PROVE  /\ rqRequests'[r].stage = "running" => ~rqRequests'[r].aborted
                      /\ rqRequests'[r].stage # "over" => rqRequests'[r].answer = "none"
                      /\ r \in rqOperations' => rqRequests'[r].stage # "admitting"
      BY <1>1 DEF StagesFollow, Live, Emptied
  <2>1. CASE r \in over
      BY <1>1, <1>2, <2>1 DEF Emptied, RequestRecords
  <2>2. CASE r \in Registered /\ r \notin over
      BY <1>0, <1>1, <2>2 DEF Emptied, StagesFollow, Live
  <2>3. CASE r \notin Registered /\ r \notin over
      BY <1>0, <1>1, <2>3 DEF Emptied, StagesFollow, Live
  <2> QED
      BY <2>1, <2>2, <2>3
<1>6. ASSUME NotCrossed PROVE Uncrossed'
  <2>0. LiveApart /\ LiveOfLink /\ RegisteredLive /\ ResultsKept
      BY <1>0, <1>6 DEF Uncrossed
  <2>1. ASSUME NEW r \in DOMAIN rqRequests
        PROVE  /\ rqRequests'[r].stage # "over" => Live(r)
               /\ rqRequests'[r].stage # "over" => rqRequests'[r].aborted
               /\ rqRequests'[r].answer = "result" => rqRequests'[r] = rqRequests[r]
    <3>1. CASE r \in over
      <4>1. rqRequests'[r] = [rqRequests[r] EXCEPT !.stage = "over"] /\ rqRequests[r] \in RequestRecords
          BY <1>1, <1>2, <3>1 DEF Emptied
      <4>2. rqRequests'[r].stage = "over" /\ rqRequests'[r].answer = rqRequests[r].answer
          BY <4>1 DEF RequestRecords
      <4>3. rqRequests[r].answer = "none"
          BY <1>0, <3>1 DEF StagesFollow
      <4> QED
          BY <4>2, <4>3
    <3>2. CASE r \in Registered /\ r \notin over
        BY <1>0, <1>1, <2>0, <3>2 DEF Emptied, RegisteredLive, Live, StagesFollow
    <3>3. CASE r \notin Registered /\ r \notin over
        BY <1>1, <2>0, <3>3 DEF Emptied, LiveOfLink, Live
    <3> QED
        BY <3>1, <3>2, <3>3
  <2>2. Registered' = {}
    <3>1. ASSUME NEW r \in DOMAIN rqRequests' PROVE rqInFlight'[rqRequests'[r].id] # r
      <4>1. rqRequests'[r].id \in RequestIds
          BY <1>1, <1>2 DEF Emptied, RequestRecords
      <4>2. r # 0
          BY <1>0, <1>1, RequestsShape DEF Emptied
      <4> QED
          BY <1>1, <4>1, <4>2 DEF Emptied, NoSlots
    <3> QED
        BY <3>1 DEF Registered
  <2>3. LiveApart'
      BY <1>1, <2>0, <2>1 DEF LiveApart, Live, Emptied
  <2>4. LiveOfLink' /\ RegisteredLive'
      BY <1>1, <2>1, <2>2 DEF LiveOfLink, RegisteredLive, Live, Emptied
  <2>5. ResultsKept'
      BY <1>1, <2>0, <2>1 DEF ResultsKept, Emptied
  <2> QED
      BY <2>3, <2>4, <2>5 DEF Uncrossed
<1> QED
    BY <1>1, <1>3, <1>4, <1>5, <1>6 DEF Tables, Emptied, NotCrossed

\* A request that changes alone, and gives its slot back when it ends.
LEMMA ChangeKeeps ==
    ASSUME rqCrossed \in SUBSET Crossings, Tables,
           NEW r \in DOMAIN rqRequests, NEW request \in RequestRecords,
           request.id = rqRequests[r].id, request.connection = rqRequests[r].connection,
           request.stage # "over" => Live(r),
           request.stage # "over" => request.answer = "none",
           request.stage = "running" => ~request.aborted,
           rqRequests[r].aborted => request.aborted,
           (request.answer = "result" /\ NotCrossed) =>
              ~request.aborted /\ ("requests" \in rqCrossed \/ request.answered = request.connection),
           rqRequests' = [rqRequests EXCEPT ![r] = request],
           rqInFlight' = IF Live(r) /\ request.stage = "over"
                         THEN [rqInFlight EXCEPT ![request.id] = 0] ELSE rqInFlight,
           rqOperations' \subseteq rqOperations \cup {r},
           r \in rqOperations' => request.stage # "admitting",
           UNCHANGED <<rqConnection, rqCrossed>>
    PROVE  Tables' /\ DOMAIN rqRequests' = DOMAIN rqRequests /\ IdsInFlight' \subseteq IdsInFlight
<1>0. TablesTyped /\ SlotsOfIds /\ StagesFollow /\ (NotCrossed => Uncrossed)
    BY DEF Tables
<1>1. /\ Len(rqRequests) \in Nat /\ DOMAIN rqRequests = 1 .. Len(rqRequests)
      /\ \A x \in DOMAIN rqRequests : rqRequests[x] \in RequestRecords
      /\ rqRequests \in [DOMAIN rqRequests -> RequestRecords]
    BY <1>0, RequestsShape
<1>2. rqRequests' \in [DOMAIN rqRequests -> RequestRecords]
    BY <1>1
<1>3. /\ rqRequests' \in Seq(RequestRecords) /\ Len(rqRequests') = Len(rqRequests)
      /\ DOMAIN rqRequests' = DOMAIN rqRequests
    BY <1>0, <1>2, RequestsMapped
<1>4. rqRequests'[r] = request /\ \A x \in DOMAIN rqRequests \ {r} : rqRequests'[x] = rqRequests[x]
    BY <1>1
<1>5. \A x \in DOMAIN rqRequests : rqRequests'[x].id = rqRequests[x].id /\ rqRequests[x].id \in RequestIds
    BY <1>1, <1>4 DEF RequestRecords
<1>6. /\ rqInFlight' \in [RequestIds -> 0 .. MaxRequests]
      /\ \A id \in RequestIds : rqInFlight'[id] = rqInFlight[id]
                                  \/ (id = request.id /\ rqInFlight'[id] = 0)
  <2>1. rqInFlight \in [RequestIds -> 0 .. MaxRequests] /\ 0 \in 0 .. MaxRequests
      BY <1>0, BridgeRequestsConstants DEF TablesTyped
  <2>2. CASE Live(r) /\ request.stage = "over"
      BY <2>1, <2>2
  <2>3. CASE ~(Live(r) /\ request.stage = "over")
      BY <2>1, <2>3
  <2> QED
      BY <2>2, <2>3
<1>7. TablesTyped'
    BY <1>0, <1>3, <1>6 DEF TablesTyped
<1>8. SlotsOfIds' /\ IdsInFlight' \subseteq IdsInFlight
    BY <1>0, <1>3, <1>5, <1>6 DEF SlotsOfIds, IdsInFlight
<1>9. StagesFollow'
    BY <1>0, <1>3, <1>4 DEF StagesFollow, Live
<1>10. ASSUME NotCrossed PROVE Uncrossed'
  <2>0. LiveApart /\ LiveOfLink /\ RegisteredLive /\ ResultsKept
      BY <1>0, <1>10 DEF Uncrossed
  <2>1. \A x \in DOMAIN rqRequests : rqRequests'[x].stage # "over" =>
            /\ Live(x) /\ (rqRequests[x].aborted => rqRequests'[x].aborted)
            /\ rqRequests'[x].connection = rqRequests[x].connection
      BY <1>4 DEF Live
  <2>2. LiveApart'
      BY <1>3, <1>5, <2>0, <2>1 DEF LiveApart, Live
  <2>3. LiveOfLink'
    <3> SUFFICES ASSUME NEW x \in DOMAIN rqRequests, rqRequests'[x].stage # "over", ~rqRequests'[x].aborted
                 PROVE  /\ rqInFlight'[rqRequests'[x].id] = x
                        /\ "requests" \in rqCrossed \/ rqRequests'[x].connection = rqConnection
        BY <1>3 DEF LiveOfLink, Registered, Live
    <3>1. /\ Live(x) /\ rqInFlight[rqRequests[x].id] = x
          /\ "requests" \in rqCrossed \/ rqRequests[x].connection = rqConnection
        BY <2>0, <2>1 DEF LiveOfLink, Registered
    <3>2. CASE Live(r) /\ request.stage = "over"
      <4>1. x # r
          BY <1>4, <3>2
      <4>2. rqRequests[x].id # request.id
          BY <2>0, <3>1, <3>2, <4>1 DEF LiveApart
      <4> QED
          BY <1>0, <1>5, <2>1, <3>1, <3>2, <4>2 DEF TablesTyped
    <3>3. CASE ~(Live(r) /\ request.stage = "over")
        BY <1>5, <2>1, <3>1, <3>3
    <3> QED
        BY <3>2, <3>3
  <2>4. RegisteredLive'
    <3> SUFFICES ASSUME NEW x \in DOMAIN rqRequests, rqInFlight'[rqRequests'[x].id] = x
                 PROVE  rqRequests'[x].stage # "over"
        BY <1>3 DEF RegisteredLive, Registered, Live
    <3>1. x # 0
        BY <1>1
    <3>2. rqInFlight[rqRequests[x].id] = x /\ rqInFlight'[rqRequests[x].id] = x
        BY <1>5, <1>6, <3>1
    <3>3. Live(x)
        BY <2>0, <3>2 DEF RegisteredLive, Registered
    <3>4. CASE x # r
        BY <1>4, <3>3, <3>4 DEF Live
    <3>5. CASE x = r
      <4>1. ~(Live(r) /\ request.stage = "over")
          BY <1>0, <1>5, <3>1, <3>2, <3>5 DEF TablesTyped
      <4> QED
          BY <1>4, <3>3, <3>5, <4>1
    <3> QED
        BY <3>4, <3>5
  <2>5. ResultsKept'
      BY <1>3, <1>4, <1>10, <2>0 DEF ResultsKept
  <2> QED
      BY <2>2, <2>3, <2>4, <2>5 DEF Uncrossed
<1> QED
    BY <1>3, <1>7, <1>8, <1>9, <1>10 DEF Tables, NotCrossed

LEMMA SlotsShrink == ASSUME SlotsBounded, IdsInFlight' \subseteq IdsInFlight PROVE SlotsBounded'
<1>1. IsFiniteSet(IdsInFlight) /\ Cardinality(IdsInFlight) \in Nat
    BY FS_CardinalityType DEF SlotsBounded
<1>2. /\ IsFiniteSet(IdsInFlight') /\ Cardinality(IdsInFlight') =< Cardinality(IdsInFlight)
      /\ Cardinality(IdsInFlight') \in Nat
    BY <1>1, FS_Subset, FS_CardinalityType
<1> QED
    BY <1>1, <1>2, BridgeRequestsConstants DEF SlotsBounded

LEMMA LinksEmptied ==
    ASSUME LinkTyped', NoSlots', rqOutgoing' = {}
    PROVE  Links'
<1>1. IdsInFlight' = {}
    BY DEF IdsInFlight, NoSlots
<1>2. SlotsBounded'
    BY <1>1, FS_EmptySet, BridgeRequestsConstants DEF SlotsBounded
<1>3. OutgoingBounded' /\ LinkCarries'
    BY FS_EmptySet, BridgeRequestsConstants DEF OutgoingBounded, LinkCarries
<1> QED
    BY <1>2, <1>3 DEF Links

LEMMA ChunksEmptied ==
    ASSUME ChunksTyped, rqSent' \in [Transfers -> 0 .. Parts], rqMixed' = rqMixed, NotMixed,
           rqChunks' = [t \in Transfers |-> NoParts], rqCrossed \subseteq rqCrossed'
    PROVE  Chunks'
<1>1. rqChunks' \in [Transfers -> [PartNumbers -> 0 .. MaxConnections]] /\ NoChunks'
    BY BridgeRequestsConstants DEF NoParts, NoChunks
<1>2. ChunksOfLink'
    BY <1>1 DEF ChunksOfLink, NoChunks, NoParts
<1> QED
    BY <1>1, <1>2 DEF Chunks, ChunksTyped, NotMixed

\* Nothing is mixed by a step that completes no message.
LEMMA StaysUnmixed ==
    ASSUME NotMixed, rqMixed' = rqMixed, rqCrossed \subseteq rqCrossed'
    PROVE  NotMixed'
BY Zenon DEF NotMixed

\* A failed transport leaves empty tables.
LEMMA FailKeeps ==
    ASSUME RequestsInv, NEW over \in SUBSET DOMAIN rqRequests, FailTransport(over),
           \A r \in over : Live(r), rqOperations' \subseteq rqOperations \cup over,
           UNCHANGED <<rqConnection, rqSent, rqMixed, rqCrossed>>, rqFaults' \in 0 .. MaxRqFaults
    PROVE  RequestsInv'
<1>0. rqCrossed \in SUBSET Crossings /\ Tables /\ Links /\ Chunks /\ LinkTyped /\ ChunksTyped /\ NotMixed
    BY DEF RequestsInv, Links, Chunks
<1>1. AbortInFlight(over, FALSE) /\ rqOutgoing' = {}
    BY DEF FailTransport, RejectOutgoing
<1>2. Tables' /\ NoSlots' /\ rqChunks' = [t \in Transfers |-> NoParts]
    BY <1>0, <1>1, AbortKeeps DEF LinkTyped
<1>3. LinkTyped'
    BY <1>0 DEF LinkTyped, FailTransport
<1>4. Links'
    BY <1>1, <1>2, <1>3, LinksEmptied
<1>5. Chunks'
    BY <1>0, <1>2, ChunksEmptied DEF ChunksTyped
<1> QED
    BY <1>0, <1>2, <1>4, <1>5 DEF RequestsInv

LEMMA ReplyKeeps ==
    ASSUME RequestsInv, NEW r \in DOMAIN rqRequests, Live(r), NEW answer \in {"result", "error"},
           answer = "result" => rqRequests[r].stage = "running", Reply(r, answer),
           rqOperations' \subseteq rqOperations \cup {r}, rqOutgoing \subseteq rqOperations'
    PROVE  RequestsInv'
<1>0. /\ rqCrossed \in SUBSET Crossings /\ Tables /\ Links /\ Chunks
      /\ TablesTyped /\ StagesFollow /\ LinkTyped /\ SlotsBounded /\ OutgoingBounded /\ LinkCarries
    BY DEF RequestsInv, Tables, Links
<1>1. CASE ~CanSend
  <2>1. FailTransport({r}) /\ UNCHANGED <<rqConnection, rqSent, rqMixed, rqCrossed, rqFaults>>
      BY <1>1 DEF Reply
  <2>2. rqFaults' \in 0 .. MaxRqFaults
      BY <1>0, <2>1 DEF LinkTyped
  <2>3. {r} \in SUBSET DOMAIN rqRequests /\ \A x \in {r} : Live(x)
      OBVIOUS
  <2> QED
      BY <2>1, <2>2, <2>3, FailKeeps
<1>2. CASE CanSend
  <2> DEFINE request == [rqRequests[r] EXCEPT !.stage = "over", !.answer = answer, !.answered = rqConnection]
  <2>1. rqRequests[r] \in RequestRecords /\ rqRequests \in [DOMAIN rqRequests -> RequestRecords]
      BY <1>0, RequestsShape
  <2>2. /\ request \in RequestRecords
        /\ request.id = rqRequests[r].id /\ request.connection = rqRequests[r].connection
        /\ request.stage = "over" /\ request.answer = answer /\ request.answered = rqConnection
        /\ request.aborted = rqRequests[r].aborted
      BY <1>0, <2>1 DEF RequestRecords, LinkTyped
  <2>3. rqRequests' = [rqRequests EXCEPT ![r] = request]
      BY <1>2, <2>1 DEF Reply, RequestRecords
  <2>4. rqInFlight' = [rqInFlight EXCEPT ![request.id] = 0]
      BY <1>2, <2>2 DEF Reply
  <2>5. UNCHANGED <<rqLink, rqOutgoing, rqChunks, rqConnection, rqSent, rqMixed, rqCrossed, rqFaults>>
      BY <1>2 DEF Reply
  <2>6. (answer = "result" /\ NotCrossed) =>
            ~request.aborted /\ ("requests" \in rqCrossed \/ request.answered = request.connection)
      BY <1>0, <2>2 DEF Tables, Uncrossed, LiveOfLink, StagesFollow
  <2> HIDE DEF request
  <2>7. Tables' /\ IdsInFlight' \subseteq IdsInFlight
      BY <1>0, <2>2, <2>3, <2>4, <2>5, <2>6, ChangeKeeps
  <2>8. SlotsBounded'
      BY <1>0, <2>7, SlotsShrink
  <2>9. LinkTyped' /\ OutgoingBounded' /\ LinkCarries'
      BY <1>0, <1>2, <2>4, <2>5 DEF LinkTyped, OutgoingBounded, LinkCarries, NoSlots, TablesTyped
  <2>10. Chunks'
      BY <1>0, <2>5 DEF Chunks, ChunksTyped, ChunksOfLink, NotMixed, NoChunks
  <2> QED
      BY <1>0, <2>5, <2>7, <2>8, <2>9, <2>10 DEF RequestsInv, Links
<1> QED
    BY <1>1, <1>2

-----------------------------------------------------------------------------
(* The steps *)

LEMMA RequestsInitInvariant == RequestsInit => RequestsInv
<1> SUFFICES ASSUME RequestsInit PROVE RequestsInv
    OBVIOUS
<1> USE BridgeRequestsConstants
<1>1. rqRequests \in Seq(RequestRecords) /\ Len(rqRequests) = 0 /\ DOMAIN rqRequests = {}
    BY EmptySeq, LenProperties DEF RequestsInit
<1>2. TablesTyped /\ SlotsOfIds /\ StagesFollow
    BY <1>1 DEF RequestsInit, TablesTyped, SlotsOfIds, StagesFollow
<1>3. Uncrossed
    BY <1>1 DEF Uncrossed, LiveApart, LiveOfLink, RegisteredLive, ResultsKept, Registered
<1>4. IdsInFlight = {}
    BY DEF RequestsInit, IdsInFlight
<1>5. Links
    BY <1>4, FS_EmptySet
       DEF RequestsInit, Links, LinkTyped, SlotsBounded, OutgoingBounded, LinkCarries, NoSlots
<1>6. ChunksTyped /\ ChunksOfLink
    BY DEF RequestsInit, ChunksTyped, ChunksOfLink, NoChunks, NoParts
<1>7. NotMixed
    BY Zenon DEF RequestsInit, NotMixed
<1> QED
    BY <1>2, <1>3, <1>5, <1>6, <1>7 DEF RequestsInv, Tables, Chunks, RequestsInit

\* The parts that a step which touches neither requests nor slots keeps.
LEMMA TablesKept ==
    ASSUME Tables, UNCHANGED <<rqRequests, rqInFlight, rqOperations, rqConnection, rqCrossed>>
    PROVE  Tables' /\ IdsInFlight' = IdsInFlight
<1>1. TablesTyped' /\ SlotsOfIds' /\ StagesFollow' /\ IdsInFlight' = IdsInFlight
    BY DEF Tables, TablesTyped, SlotsOfIds, StagesFollow, Live, IdsInFlight
<1>2. NotCrossed' => Uncrossed'
    BY DEF Tables, Uncrossed, LiveApart, LiveOfLink, RegisteredLive, ResultsKept, Registered, Live, NotCrossed
<1> QED
    BY <1>1, <1>2 DEF Tables

\* AbortKeeps when nothing ends with it.
LEMMA AbortAllKeeps ==
    ASSUME rqCrossed \in SUBSET Crossings, Tables, rqConnection \in 0 .. MaxConnections,
           NEW sent \in BOOLEAN, AbortInFlight({}, sent), UNCHANGED <<rqOperations, rqCrossed>>
    PROVE  Tables' /\ NoSlots' /\ rqChunks' = [t \in Transfers |-> NoParts]
<1>1. /\ {} \in SUBSET DOMAIN rqRequests /\ rqOperations' \subseteq rqOperations \cup {}
      /\ \A r \in {} : Live(r)
    OBVIOUS
<1> QED
    BY <1>1, AbortKeeps

LEMMA ConnectionEndsKeeps == ASSUME RequestsInv, ConnectionEnds PROVE RequestsInv'
<1>0. rqCrossed \in SUBSET Crossings /\ Tables /\ Links /\ Chunks /\ LinkTyped /\ ChunksTyped /\ NotMixed
    BY DEF RequestsInv, Links, Chunks
<1>1. /\ AbortInFlight({}, FALSE) /\ rqOutgoing' = {}
      /\ UNCHANGED <<rqConnection, rqOperations, rqSent, rqMixed, rqCrossed, rqFaults>> /\ rqLink' = "down"
    BY DEF ConnectionEnds, RejectOutgoing
<1>2. Tables' /\ NoSlots' /\ rqChunks' = [t \in Transfers |-> NoParts]
    BY <1>0, <1>1, AbortAllKeeps DEF LinkTyped
<1>3. LinkTyped'
    BY <1>0, <1>1 DEF LinkTyped
<1>4. Links'
    BY <1>1, <1>2, <1>3, LinksEmptied
<1>5. Chunks'
    BY <1>0, <1>1, <1>2, ChunksEmptied DEF ChunksTyped
<1> QED
    BY <1>0, <1>1, <1>2, <1>4, <1>5 DEF RequestsInv

\* A new connection begins with empty tables, since they were emptied when the old one
\* ended or are now, or it takes over what was left.
LEMMA ConnectsKeeps == ASSUME RequestsInv, Connects PROVE RequestsInv'
<1>0. /\ rqCrossed \in SUBSET Crossings /\ Tables /\ Links /\ Chunks
      /\ LinkTyped /\ SlotsBounded /\ OutgoingBounded /\ LinkCarries
      /\ ChunksTyped /\ ChunksOfLink /\ NotMixed
    BY DEF RequestsInv, Links, Chunks
<1>1. /\ rqLink' = "connecting" /\ rqConnection' = rqConnection + 1
      /\ rqSent' = [t \in Transfers |-> 0]
      /\ UNCHANGED <<rqOperations, rqMixed, rqFaults>>
    BY DEF Connects
<1>2. LinkTyped'
    BY <1>0, <1>1, BridgeRequestsConstants DEF LinkTyped, Connects
<1>3. rqSent' \in [Transfers -> 0 .. Parts]
    BY <1>1, BridgeRequestsConstants
<1>4. CASE rqLink = "broken"
  <2>1. AbortInFlight({}, FALSE) /\ rqOutgoing' = {} /\ rqCrossed' = rqCrossed
      BY <1>4 DEF Connects, RejectOutgoing
  <2>2. Tables' /\ NoSlots' /\ rqChunks' = [t \in Transfers |-> NoParts]
      BY <1>0, <1>1, <2>1, AbortAllKeeps DEF LinkTyped
  <2>3. Links'
      BY <1>2, <2>1, <2>2, LinksEmptied
  <2>4. Chunks'
      BY <1>0, <1>1, <1>3, <2>1, <2>2, ChunksEmptied
  <2> QED
      BY <1>0, <2>1, <2>2, <2>3, <2>4 DEF RequestsInv
<1>5. CASE rqLink # "broken"
  <2>1. /\ UNCHANGED <<rqRequests, rqInFlight, rqChunks, rqOutgoing>>
        /\ rqCrossed' = rqCrossed \cup LeftBehind
      BY <1>5 DEF Connects
  <2>2. rqCrossed' \in SUBSET Crossings /\ rqCrossed \subseteq rqCrossed'
      BY <1>0, <2>1 DEF LeftBehind, Crossings
  <2>3. "requests" \notin rqCrossed' => rqOutgoing = {} /\ NoSlots
      BY <2>1 DEF LeftBehind, NoSlots
  <2>4. "chunks" \notin rqCrossed' => NoChunks
      BY <2>1 DEF LeftBehind, NoChunks
  <2>5. TablesTyped' /\ SlotsOfIds' /\ StagesFollow'
      BY <1>0, <1>1, <2>1 DEF Tables, TablesTyped, SlotsOfIds, StagesFollow, Live
  <2>6. ASSUME NotCrossed' PROVE Uncrossed'
    <3>1. NotCrossed
        BY <2>2, <2>6 DEF NotCrossed
    <3>2. TablesTyped /\ LiveApart /\ LiveOfLink /\ RegisteredLive /\ ResultsKept
        BY <1>0, <3>1 DEF Tables, Uncrossed
    <3>3. \A r \in DOMAIN rqRequests : r # 0 /\ rqRequests[r].id \in RequestIds
        BY <3>2, RequestsShape DEF RequestRecords
    <3>4. Registered' = Registered /\ ("requests" \notin rqCrossed' => Registered = {})
        BY <2>1, <2>3, <3>3 DEF Registered, NoSlots
    <3>5. LiveApart' /\ ResultsKept'
        BY <2>1, <2>2, <3>2 DEF LiveApart, ResultsKept, Live
    <3>6. LiveOfLink' /\ RegisteredLive'
        BY <2>1, <3>2, <3>4 DEF LiveOfLink, RegisteredLive, Live
    <3> QED
        BY <3>5, <3>6 DEF Uncrossed
  <2>7. SlotsBounded' /\ OutgoingBounded' /\ LinkCarries'
      BY <1>0, <1>1, <2>1, <2>3 DEF SlotsBounded, IdsInFlight, OutgoingBounded, LinkCarries, NoSlots
  <2>8. ChunksTyped' /\ NotMixed'
      BY <1>0, <1>1, <1>3, <2>1, <2>2 DEF ChunksTyped, NotMixed
  <2>9. ChunksOfLink'
      BY <2>1, <2>4 DEF ChunksOfLink, NoChunks, NoParts
  <2> QED
      BY <1>2, <2>2, <2>5, <2>6, <2>7, <2>8, <2>9 DEF RequestsInv, Tables, Links, Chunks
<1> QED
    BY <1>4, <1>5

LEMMA LinkMovesKeeps == ASSUME RequestsInv, ConnectionGoesOn \/ Breaks \/ HandshakeFails PROVE RequestsInv'
<1>0. /\ rqCrossed \in SUBSET Crossings /\ Tables /\ Links /\ Chunks
      /\ LinkTyped /\ SlotsBounded /\ OutgoingBounded /\ LinkCarries
    BY DEF RequestsInv, Links
<1>1. UNCHANGED <<rqConnection, rqTables, rqTransfers, rqCrossed>>
    BY DEF ConnectionGoesOn, Breaks, HandshakeFails
<1>2. Tables' /\ IdsInFlight' = IdsInFlight
    BY <1>0, <1>1, TablesKept DEF rqTables
<1>3. LinkTyped'
    BY <1>0, <1>1, BridgeRequestsConstants DEF LinkTyped, ConnectionGoesOn, Breaks, HandshakeFails, RqFaulted
<1>4. SlotsBounded' /\ OutgoingBounded'
    BY <1>0, <1>1, <1>2 DEF SlotsBounded, OutgoingBounded, rqTables
<1>5. LinkCarries' /\ Chunks'
    BY <1>0, <1>1 DEF LinkCarries, NoSlots, Chunks, ChunksTyped, ChunksOfLink, NoChunks, NotMixed,
                      rqTables, rqTransfers, ConnectionGoesOn, Breaks, HandshakeFails
<1> QED
    BY <1>0, <1>1, <1>2, <1>3, <1>4, <1>5 DEF RequestsInv, Links

LEMMA TransportFailsKeeps == ASSUME RequestsInv, TransportFails PROVE RequestsInv'
<1>1. rqFaults' \in 0 .. MaxRqFaults
    BY BridgeRequestsConstants DEF RequestsInv, Links, LinkTyped, TransportFails, RqFaulted
<1>2. {} \in SUBSET DOMAIN rqRequests
    OBVIOUS
<1> QED
    BY <1>1, <1>2, FailKeeps DEF TransportFails

LEMMA CancelActiveKeeps == ASSUME RequestsInv, CancelActiveRequests PROVE RequestsInv'
<1>0. /\ rqCrossed \in SUBSET Crossings /\ Tables /\ Links /\ Chunks
      /\ LinkTyped /\ OutgoingBounded /\ LinkCarries /\ ChunksTyped /\ NotMixed
    BY DEF RequestsInv, Links, Chunks
<1>1. /\ rqFaults' \in 0 .. MaxRqFaults
      /\ UNCHANGED <<rqConnection, rqOperations, rqSent, rqMixed, rqCrossed>>
    BY <1>0, BridgeRequestsConstants DEF LinkTyped, CancelActiveRequests, RqFaulted
<1>2. CASE FailTransport({})
    BY <1>1, <1>2, FailKeeps
<1>3. CASE AbortInFlight({}, TRUE) /\ UNCHANGED <<rqLink, rqOutgoing>>
  <2>1. Tables' /\ NoSlots' /\ rqChunks' = [t \in Transfers |-> NoParts]
      BY <1>0, <1>1, <1>3, AbortAllKeeps DEF LinkTyped
  <2>2. IdsInFlight' = {}
      BY <2>1 DEF IdsInFlight, NoSlots
  <2>3. SlotsBounded'
      BY <2>2, FS_EmptySet, BridgeRequestsConstants DEF SlotsBounded
  <2>4. LinkTyped' /\ OutgoingBounded' /\ LinkCarries'
      BY <1>0, <1>1, <1>3, <2>1 DEF LinkTyped, OutgoingBounded, LinkCarries
  <2>5. Chunks'
      BY <1>0, <1>1, <2>1, ChunksEmptied DEF ChunksTyped
  <2> QED
      BY <1>0, <1>1, <2>1, <2>3, <2>4, <2>5 DEF RequestsInv, Links
<1> QED
    BY <1>2, <1>3 DEF CancelActiveRequests

LEMMA ReceiveKeeps == ASSUME RequestsInv, NEW id \in RequestIds, Receive(id) PROVE RequestsInv'
<1> DEFINE new == Len(rqRequests) + 1
           request == [id |-> id, connection |-> rqConnection, aborted |-> FALSE, asked |-> FALSE,
                       stage |-> "admitting", answer |-> "none", answered |-> 0]
<1>0. /\ rqCrossed \in SUBSET Crossings /\ Tables /\ Links /\ Chunks
      /\ TablesTyped /\ SlotsOfIds /\ StagesFollow /\ (NotCrossed => Uncrossed)
      /\ LinkTyped /\ SlotsBounded /\ OutgoingBounded /\ LinkCarries
    BY DEF RequestsInv, Links, Tables
<1>1. /\ rqLink = "up" /\ Len(rqRequests) < MaxRequests /\ rqInFlight[id] = 0
      /\ rqInFlight' = [rqInFlight EXCEPT ![id] = new] /\ rqRequests' = Append(rqRequests, request)
      /\ UNCHANGED <<rqLink, rqConnection, rqOperations, rqOutgoing, rqTransfers, rqFaults>>
      /\ Cardinality(IdsInFlight) < MaxConcurrent
    BY DEF Receive, IdsInFlight
<1>2. /\ rqRequests \in Seq(RequestRecords) /\ Len(rqRequests) \in Nat
      /\ DOMAIN rqRequests = 1 .. Len(rqRequests)
      /\ \A r \in DOMAIN rqRequests : rqRequests[r] \in RequestRecords
    BY <1>0, RequestsShape DEF TablesTyped
<1>3. request \in RequestRecords
  <2>1. rqConnection \in 1 .. MaxConnections /\ 0 \in 0 .. MaxConnections
      BY <1>0, <1>1, BridgeRequestsConstants DEF LinkTyped
  <2> QED
      BY <2>1 DEF RequestRecords
<1>4. /\ request.id = id /\ request.connection = rqConnection /\ request.aborted = FALSE
      /\ request.stage = "admitting" /\ request.answer = "none"
    OBVIOUS
<1> HIDE DEF request
<1>5. /\ rqRequests' \in Seq(RequestRecords) /\ Len(rqRequests') = new
      /\ rqRequests'[new] = request
      /\ \A r \in DOMAIN rqRequests : rqRequests'[r] = rqRequests[r]
    BY <1>1, <1>2, <1>3, AppendProperties
<1>6. /\ DOMAIN rqRequests' = DOMAIN rqRequests \cup {new} /\ new \notin DOMAIN rqRequests
      /\ new \in 1 .. MaxRequests
    BY <1>1, <1>2, <1>5, LenProperties, BridgeRequestsConstants
<1>7. /\ rqInFlight' \in [RequestIds -> 0 .. MaxRequests] /\ rqInFlight'[id] = new
      /\ \A other \in RequestIds \ {id} : rqInFlight'[other] = rqInFlight[other]
    BY <1>0, <1>1, <1>6 DEF TablesTyped
<1> HIDE DEF new
<1>14. rqCrossed' \in SUBSET Crossings /\ rqCrossed \subseteq rqCrossed'
    BY <1>0 DEF Receive, Crossings
<1>8. TablesTyped'
    BY <1>0, <1>1, <1>2, <1>5, <1>6, <1>7, BridgeRequestsConstants DEF TablesTyped, new
<1>9. SlotsOfIds'
    BY <1>0, <1>4, <1>5, <1>6, <1>7 DEF SlotsOfIds
<1>10. StagesFollow'
    BY <1>0, <1>1, <1>4, <1>5, <1>6 DEF StagesFollow, Live, TablesTyped
<1>11. ASSUME NotCrossed' PROVE Uncrossed'
  <2>1. NotCrossed /\ \A r \in DOMAIN rqRequests : rqRequests[r].id = id => ~Live(r)
      BY <1>0, <1>11 DEF Receive, NotCrossed
  <2>2. LiveApart /\ LiveOfLink /\ RegisteredLive /\ ResultsKept
      BY <1>0, <2>1 DEF Uncrossed
  <2>3. \A r \in DOMAIN rqRequests : rqRequests[r].id \in RequestIds /\ r # 0
      BY <1>2 DEF RequestRecords
  <2>4. LiveApart'
      BY <1>4, <1>5, <1>6, <2>1, <2>2 DEF LiveApart, Live
  <2>5. LiveOfLink'
      BY <1>1, <1>4, <1>5, <1>6, <1>7, <1>14, <2>1, <2>2, <2>3 DEF LiveOfLink, Live, Registered
  <2>6. RegisteredLive'
    <3> SUFFICES ASSUME NEW r \in DOMAIN rqRequests \cup {new}, rqInFlight'[rqRequests'[r].id] = r
                 PROVE  rqRequests'[r].stage # "over"
        BY <1>6 DEF RegisteredLive, Registered, Live
    <3>1. CASE r = new
        BY <1>4, <1>5, <3>1
    <3>2. CASE r # new
      <4>1. rqRequests[r].id # id /\ rqRequests'[r] = rqRequests[r]
          BY <1>5, <1>7, <3>2
      <4>2. r \in Registered
          BY <1>7, <2>3, <3>2, <4>1 DEF Registered
      <4> QED
          BY <2>2, <4>1, <4>2 DEF RegisteredLive, Live
    <3> QED
        BY <3>1, <3>2
  <2>7. ResultsKept'
      BY <1>4, <1>5, <1>6, <1>14, <2>2 DEF ResultsKept
  <2> QED
      BY <2>4, <2>5, <2>6, <2>7 DEF Uncrossed
<1>12. SlotsBounded'
  <2>1. IdsInFlight' = IdsInFlight \cup {id} /\ id \notin IdsInFlight
      BY <1>1, <1>6, <1>7 DEF IdsInFlight
  <2>2. IsFiniteSet(IdsInFlight) /\ Cardinality(IdsInFlight) \in Nat
      BY <1>0, FS_CardinalityType DEF SlotsBounded
  <2>3. /\ IsFiniteSet(IdsInFlight \cup {id})
        /\ Cardinality(IdsInFlight \cup {id}) = Cardinality(IdsInFlight) + 1
      BY <2>1, <2>2, FS_AddElement
  <2> QED
      BY <1>1, <2>1, <2>2, <2>3, BridgeRequestsConstants DEF SlotsBounded
<1>13. LinkTyped' /\ OutgoingBounded' /\ LinkCarries' /\ Chunks'
    BY <1>0, <1>1, <1>14 DEF LinkTyped, OutgoingBounded, LinkCarries, Chunks, ChunksTyped, ChunksOfLink,
                      NoChunks, NotMixed, rqTransfers
<1> QED
    BY <1>8, <1>9, <1>10, <1>11, <1>12, <1>13, <1>14 DEF RequestsInv, Tables, Links

LEMMA CancelRequestKeeps == ASSUME RequestsInv, NEW id \in RequestIds, CancelRequest(id) PROVE RequestsInv'
<1> DEFINE r == rqInFlight[id]
<1>0. /\ rqCrossed \in SUBSET Crossings /\ Tables /\ Links /\ Chunks
      /\ TablesTyped /\ SlotsOfIds /\ StagesFollow /\ (NotCrossed => Uncrossed)
      /\ LinkTyped /\ SlotsBounded /\ OutgoingBounded /\ LinkCarries
    BY DEF RequestsInv, Links, Tables
<1>1. /\ rqInFlight[id] # 0
      /\ UNCHANGED <<rqLink, rqConnection, rqOperations, rqOutgoing, rqTransfers, rqCrossed, rqFaults>>
    BY DEF CancelRequest
<1>2. r \in DOMAIN rqRequests /\ rqRequests[r].id = id /\ r # 0
    BY <1>0 DEF SlotsOfIds, CancelRequest
<1>3. rqRequests[r] \in RequestRecords /\ rqRequests \in [DOMAIN rqRequests -> RequestRecords]
    BY <1>0, <1>2, RequestsShape
<1>4. Tables' /\ IdsInFlight' \subseteq IdsInFlight
  <2>1. CASE rqRequests[r].stage = "running"
    <3> DEFINE request == Aborted(rqRequests[r], TRUE)
    <3>1. /\ request \in RequestRecords /\ request.aborted
          /\ request.id = rqRequests[r].id /\ request.connection = rqRequests[r].connection
          /\ request.stage = "over" /\ request.answer \in {"none", "error"}
        BY <1>0, <1>3, <2>1, AbortedRequest DEF LinkTyped
    <3>2. /\ rqRequests' = [rqRequests EXCEPT ![r] = request]
          /\ rqInFlight' = [rqInFlight EXCEPT ![request.id] = 0]
        BY <1>2, <2>1, <3>1 DEF CancelRequest
    <3>3. Live(r) /\ r \in DOMAIN rqRequests
        BY <1>2, <2>1 DEF Live
    <3> HIDE DEF request, r
    <3> QED
        BY <1>0, <1>1, <3>1, <3>2, <3>3, ChangeKeeps
  <2>2. CASE rqRequests[r].stage # "running"
    <3> DEFINE request == [rqRequests[r] EXCEPT !.aborted = TRUE]
    <3>1. /\ request \in RequestRecords /\ request.aborted
          /\ request.id = rqRequests[r].id /\ request.connection = rqRequests[r].connection
          /\ request.stage = rqRequests[r].stage /\ request.answer = rqRequests[r].answer
        BY <1>3 DEF RequestRecords
    <3>2. rqRequests' = [rqRequests EXCEPT ![r] = request] /\ rqInFlight' = rqInFlight
        BY <1>3, <2>2 DEF CancelRequest, RequestRecords
    <3>3. NotCrossed => Live(r)
        BY <1>0, <1>2 DEF Uncrossed, RegisteredLive, Registered
    <3>4. request.stage # "over" => Live(r) /\ request.answer = "none"
        BY <1>0, <1>2, <3>1 DEF StagesFollow, Live
    <3>5. ~(request.answer = "result" /\ NotCrossed)
        BY <1>0, <1>2, <3>1, <3>3 DEF StagesFollow
    <3>6. r \in rqOperations => request.stage # "admitting"
        BY <1>0, <1>2, <3>1 DEF StagesFollow
    <3>7. request.stage # "running" /\ (Live(r) => request.stage # "over") /\ r \in DOMAIN rqRequests
        BY <1>2, <2>2, <3>1 DEF Live
    <3> HIDE DEF request, r
    <3> QED
        BY <1>0, <1>1, <3>1, <3>2, <3>4, <3>5, <3>6, <3>7, ChangeKeeps
  <2> QED
      BY <2>1, <2>2
<1>5. SlotsBounded'
    BY <1>0, <1>4, SlotsShrink
<1>6. LinkTyped' /\ OutgoingBounded' /\ LinkCarries' /\ Chunks'
    BY <1>0, <1>1 DEF LinkTyped, OutgoingBounded, LinkCarries, NoSlots, Chunks, ChunksTyped, ChunksOfLink,
                      NoChunks, NotMixed, rqTransfers
<1> QED
    BY <1>0, <1>1, <1>4, <1>5, <1>6 DEF RequestsInv, Links

LEMMA DeniedKeeps == ASSUME RequestsInv, NEW r \in DOMAIN rqRequests, Denied(r) PROVE RequestsInv'
<1>1. Live(r) /\ Reply(r, "error") /\ rqOperations' = rqOperations
    BY DEF Denied, Live
<1>2. rqOutgoing \subseteq rqOperations
    BY DEF RequestsInv, Links, OutgoingBounded
<1> QED
    BY <1>1, <1>2, ReplyKeeps

LEMMA AdmittedKeeps == ASSUME RequestsInv, NEW r \in DOMAIN rqRequests, Admitted(r) PROVE RequestsInv'
<1>0. /\ rqCrossed \in SUBSET Crossings /\ Tables /\ Links /\ Chunks
      /\ TablesTyped /\ StagesFollow /\ LinkTyped /\ SlotsBounded /\ OutgoingBounded /\ LinkCarries
    BY DEF RequestsInv, Links, Tables
<1>1. Live(r) /\ rqRequests[r].stage = "admitting" /\ rqOperations' = rqOperations \cup {r}
    BY DEF Admitted, Live
<1>2. CASE rqRequests[r].aborted
  <2>1. Reply(r, "error") /\ rqOutgoing \subseteq rqOperations'
      BY <1>0, <1>1, <1>2 DEF Admitted, OutgoingBounded
  <2> QED
      BY <1>1, <2>1, ReplyKeeps
<1>3. CASE ~rqRequests[r].aborted
  <2> DEFINE request == [rqRequests[r] EXCEPT !.stage = "running"]
  <2>1. rqRequests[r] \in RequestRecords /\ rqRequests \in [DOMAIN rqRequests -> RequestRecords]
      BY <1>0, RequestsShape
  <2>2. /\ request \in RequestRecords /\ request.aborted = rqRequests[r].aborted
        /\ request.id = rqRequests[r].id /\ request.connection = rqRequests[r].connection
        /\ request.stage = "running" /\ request.answer = "none"
      BY <1>0, <1>1, <2>1 DEF RequestRecords, StagesFollow
  <2>3. /\ rqRequests' = [rqRequests EXCEPT ![r] = request]
        /\ UNCHANGED <<rqLink, rqConnection, rqInFlight, rqOutgoing, rqTransfers, rqCrossed, rqFaults>>
      BY <1>3, <2>1 DEF Admitted, RequestRecords
  <2> HIDE DEF request
  <2>4. Tables' /\ IdsInFlight' \subseteq IdsInFlight
      BY <1>0, <1>1, <1>3, <2>2, <2>3, ChangeKeeps
  <2>5. SlotsBounded'
      BY <1>0, <2>4, SlotsShrink
  <2>6. LinkTyped' /\ OutgoingBounded' /\ LinkCarries' /\ Chunks'
      BY <1>0, <1>1, <2>3 DEF LinkTyped, OutgoingBounded, LinkCarries, NoSlots, Chunks, ChunksTyped,
                              ChunksOfLink, NoChunks, NotMixed, rqTransfers
  <2> QED
      BY <1>0, <2>3, <2>4, <2>5, <2>6 DEF RequestsInv, Links
<1> QED
    BY <1>2, <1>3

LEMMA OperationEndsKeeps ==
    ASSUME RequestsInv, NEW r \in DOMAIN rqRequests, OperationEnds(r) PROVE RequestsInv'
<1>0. /\ rqCrossed \in SUBSET Crossings /\ Tables /\ Links /\ Chunks
      /\ TablesTyped /\ StagesFollow /\ LinkTyped /\ SlotsBounded /\ OutgoingBounded /\ LinkCarries
      /\ SlotsOfIds /\ (NotCrossed => Uncrossed)
    BY DEF RequestsInv, Links, Tables
<1>1. r \in rqOperations /\ rqOperations' = rqOperations \ {r} /\ rqOutgoing \subseteq rqOperations'
    BY <1>0 DEF OperationEnds, OutgoingBounded
<1>2. CASE Live(r)
  <2>1. PICK answer \in {"result", "error"} : Reply(r, answer)
      BY <1>2 DEF OperationEnds
  <2>2. rqRequests[r].stage = "running"
    <3>1. rqRequests[r] \in RequestRecords
        BY <1>0, RequestsShape
    <3> QED
        BY <1>0, <1>1, <1>2, <3>1 DEF StagesFollow, Live, RequestRecords
  <2>3. rqOperations' \subseteq rqOperations \cup {r}
      BY <1>1
  <2> QED
      BY <1>1, <1>2, <2>1, <2>2, <2>3, ReplyKeeps
<1>3. CASE ~Live(r)
  <2>1. UNCHANGED <<rqLink, rqConnection, rqRequests, rqInFlight, rqOutgoing, rqTransfers, rqCrossed,
                    rqFaults>>
      BY <1>3 DEF OperationEnds
  <2>2. TablesTyped' /\ SlotsOfIds' /\ StagesFollow' /\ IdsInFlight' = IdsInFlight
      BY <1>0, <1>1, <2>1 DEF TablesTyped, SlotsOfIds, StagesFollow, Live, IdsInFlight
  <2>3. NotCrossed => Uncrossed'
      BY <1>0, <2>1 DEF Uncrossed, LiveApart, LiveOfLink, RegisteredLive, ResultsKept, Registered, Live
  <2>4. LinkTyped' /\ OutgoingBounded' /\ LinkCarries' /\ SlotsBounded' /\ Chunks'
      BY <1>0, <1>1, <2>1, <2>2
         DEF LinkTyped, OutgoingBounded, LinkCarries, NoSlots, SlotsBounded, Chunks, ChunksTyped,
             ChunksOfLink, NoChunks, NotMixed, rqTransfers
  <2>5. NotCrossed' => Uncrossed'
      BY <2>1, <2>3 DEF NotCrossed
  <2> QED
      BY <1>0, <2>1, <2>2, <2>4, <2>5 DEF RequestsInv, Links, Tables
<1> QED
    BY <1>2, <1>3

\* The table of outgoing requests is finite, since every operation is a request's.
LEMMA OutgoingFinite ==
    ASSUME TablesTyped, OutgoingBounded
    PROVE  IsFiniteSet(rqOutgoing) /\ Cardinality(rqOutgoing) \in Nat
<1>1. Len(rqRequests) \in Nat /\ DOMAIN rqRequests = 1 .. Len(rqRequests)
    BY RequestsShape
<1>2. IsFiniteSet(1 .. Len(rqRequests))
    BY <1>1, FS_Interval
<1>3. rqOutgoing \in SUBSET (1 .. Len(rqRequests))
    BY <1>1 DEF TablesTyped, OutgoingBounded
<1> QED
    BY <1>2, <1>3, FS_Subset, FS_CardinalityType

LEMMA RequestEngineKeeps ==
    ASSUME RequestsInv, NEW r \in DOMAIN rqRequests, RequestEngine(r) PROVE RequestsInv'
<1> DEFINE request == [rqRequests[r] EXCEPT !.asked = TRUE]
<1>0. /\ rqCrossed \in SUBSET Crossings /\ Tables /\ Links /\ Chunks
      /\ TablesTyped /\ StagesFollow /\ (NotCrossed => Uncrossed)
      /\ LinkTyped /\ SlotsBounded /\ OutgoingBounded /\ LinkCarries
    BY DEF RequestsInv, Links, Tables
<1>1. rqRequests[r] \in RequestRecords /\ rqRequests \in [DOMAIN rqRequests -> RequestRecords]
    BY <1>0, RequestsShape
<1>2. /\ request \in RequestRecords /\ request.aborted = rqRequests[r].aborted
      /\ request.id = rqRequests[r].id /\ request.connection = rqRequests[r].connection
      /\ request.stage = rqRequests[r].stage /\ request.answer = rqRequests[r].answer
      /\ request.answered = rqRequests[r].answered
    BY <1>1 DEF RequestRecords
<1>3. /\ rqRequests' = [rqRequests EXCEPT ![r] = request] /\ rqLink = "up" /\ r \in rqOperations
      /\ rqOutgoing' = rqOutgoing \cup {r}
      /\ UNCHANGED <<rqLink, rqConnection, rqInFlight, rqOperations, rqTransfers, rqCrossed, rqFaults>>
    BY <1>1 DEF RequestEngine, RequestRecords
<1>4. /\ request.stage # "over" => Live(r) /\ request.answer = "none"
      /\ request.stage = "running" => ~request.aborted
      /\ Live(r) => request.stage # "over"
      /\ request.stage # "admitting"
    BY <1>0, <1>2, <1>3 DEF StagesFollow, Live
<1>5. (request.answer = "result" /\ NotCrossed) =>
          ~request.aborted /\ ("requests" \in rqCrossed \/ request.answered = request.connection)
    BY <1>0, <1>2 DEF Uncrossed, ResultsKept
<1> HIDE DEF request
<1>6. Tables' /\ IdsInFlight' \subseteq IdsInFlight
    BY <1>0, <1>2, <1>3, <1>4, <1>5, ChangeKeeps
<1>7. SlotsBounded'
    BY <1>0, <1>6, SlotsShrink
<1>8. OutgoingBounded'
  <2>1. IsFiniteSet(rqOutgoing) /\ Cardinality(rqOutgoing) \in Nat
      BY <1>0, OutgoingFinite
  <2>2. Cardinality(rqOutgoing \cup {r}) =< Cardinality(rqOutgoing) + 1
        /\ Cardinality(rqOutgoing \cup {r}) \in Nat
      BY <2>1, FS_AddElement
  <2>3. Cardinality(rqOutgoing) < MaxOutgoing
      BY DEF RequestEngine, Room
  <2> QED
      BY <1>0, <1>3, <2>1, <2>2, <2>3, BridgeRequestsConstants DEF OutgoingBounded
<1>9. LinkTyped' /\ LinkCarries' /\ Chunks'
    BY <1>0, <1>3 DEF LinkTyped, LinkCarries, Chunks, ChunksTyped, ChunksOfLink,
                      NoChunks, NotMixed, rqTransfers
<1> QED
    BY <1>0, <1>3, <1>6, <1>7, <1>8, <1>9 DEF RequestsInv, Links

LEMMA OutgoingEndsKeeps ==
    ASSUME RequestsInv, NEW r \in DOMAIN rqRequests, OutgoingEnds(r) PROVE RequestsInv'
<1>0. /\ rqCrossed \in SUBSET Crossings /\ Tables /\ Links /\ Chunks
      /\ TablesTyped /\ LinkTyped /\ SlotsBounded /\ OutgoingBounded /\ LinkCarries
    BY DEF RequestsInv, Links, Tables
<1>1. UNCHANGED <<rqConnection, rqOperations, rqSent, rqMixed, rqCrossed, rqFaults>>
    BY DEF OutgoingEnds
<1>2. CASE FailTransport({})
  <2>1. rqFaults' \in 0 .. MaxRqFaults /\ {} \in SUBSET DOMAIN rqRequests
      BY <1>0, <1>1 DEF LinkTyped
  <2> QED
      BY <1>1, <1>2, <2>1, FailKeeps
<1>3. CASE CanSend /\ rqOutgoing' = rqOutgoing \ {r} /\ UNCHANGED <<rqLink, rqRequests, rqInFlight, rqChunks>>
  <2>1. Tables' /\ IdsInFlight' = IdsInFlight
      BY <1>0, <1>1, <1>3, TablesKept
  <2>2. IsFiniteSet(rqOutgoing) /\ Cardinality(rqOutgoing) \in Nat
      BY <1>0, OutgoingFinite
  <2>3. /\ Cardinality(rqOutgoing \ {r}) =< Cardinality(rqOutgoing)
        /\ Cardinality(rqOutgoing \ {r}) \in Nat
      BY <2>2, FS_Subset, FS_CardinalityType
  <2>4. OutgoingBounded'
      BY <1>0, <1>1, <1>3, <2>2, <2>3, BridgeRequestsConstants DEF OutgoingBounded
  <2>5. LinkTyped' /\ LinkCarries' /\ SlotsBounded'
      BY <1>0, <1>1, <1>3, <2>1 DEF LinkTyped, LinkCarries, NoSlots, SlotsBounded
  <2>6. Chunks'
      BY <1>0, <1>1, <1>3, StaysUnmixed DEF Chunks, ChunksTyped, ChunksOfLink, NoChunks
  <2> QED
      BY <1>0, <1>1, <2>1, <2>4, <2>5, <2>6 DEF RequestsInv, Links
<1> QED
    BY <1>2, <1>3 DEF OutgoingEnds

\* A chunk joins those of its own connection only.
LEMMA ChunkStepsKeep ==
    ASSUME RequestsInv, NEW t \in Transfers, ReceiveChunk(t) \/ ExpireChunk(t) PROVE RequestsInv'
<1>0. /\ rqCrossed \in SUBSET Crossings /\ Tables /\ Links /\ Chunks
      /\ LinkTyped /\ SlotsBounded /\ OutgoingBounded /\ LinkCarries
      /\ ChunksTyped /\ ChunksOfLink /\ NotMixed
    BY DEF RequestsInv, Links, Chunks
<1>1. UNCHANGED <<rqLink, rqConnection, rqTables, rqCrossed>>
    BY DEF ReceiveChunk, ExpireChunk
<1>2. Tables' /\ IdsInFlight' = IdsInFlight
    BY <1>0, <1>1, TablesKept DEF rqTables
<1>3. LinkTyped' /\ SlotsBounded' /\ OutgoingBounded' /\ LinkCarries'
    BY <1>0, <1>1, <1>2, BridgeRequestsConstants
       DEF LinkTyped, SlotsBounded, OutgoingBounded, LinkCarries, NoSlots, rqTables, RqFaulted,
           ReceiveChunk, ExpireChunk
<1>4. NoParts \in [PartNumbers -> 0 .. MaxConnections] /\ \A part \in PartNumbers : NoParts[part] = 0
    BY BridgeRequestsConstants DEF NoParts
<1>5. ASSUME rqChunks' = [rqChunks EXCEPT ![t] = NoParts] PROVE ChunksOfLink'
    BY <1>0, <1>1, <1>4, <1>5 DEF ChunksOfLink, ChunksTyped, NoChunks
<1>6. CASE ExpireChunk(t)
  <2>1. rqChunks' = [rqChunks EXCEPT ![t] = NoParts] /\ UNCHANGED <<rqSent, rqMixed>>
      BY <1>6 DEF ExpireChunk
  <2>2. ChunksTyped' /\ NotMixed'
      BY <1>0, <1>1, <1>4, <2>1, StaysUnmixed DEF ChunksTyped
  <2> QED
      BY <1>0, <1>1, <1>2, <1>3, <1>5, <2>1, <2>2 DEF RequestsInv, Links, Chunks
<1>7. CASE ReceiveChunk(t)
  <2> DEFINE parts == [rqChunks[t] EXCEPT ![rqSent[t] + 1] = rqConnection]
             complete == \A part \in PartNumbers : parts[part] # 0
  <2>1. /\ rqLink \in {"negotiating", "up", "refused"} /\ rqSent[t] < Parts
        /\ rqSent' = [rqSent EXCEPT ![t] = @ + 1]
      BY <1>7 DEF ReceiveChunk, CanSend
  <2>2. /\ rqSent' \in [Transfers -> 0 .. Parts] /\ rqSent[t] + 1 \in PartNumbers
      BY <1>0, <2>1, BridgeRequestsConstants DEF ChunksTyped, PartNumbers
  <2>3. /\ parts \in [PartNumbers -> 0 .. MaxConnections]
        /\ "chunks" \notin rqCrossed => \A part \in PartNumbers : parts[part] \in {0, rqConnection}
      BY <1>0, <2>2 DEF ChunksTyped, ChunksOfLink, LinkTyped
  <2>4. complete /\ "chunks" \notin rqCrossed => parts = [part \in PartNumbers |-> rqConnection]
      BY <2>3
  <2>5. CASE rqChunks' = [rqChunks EXCEPT ![t] = NoParts] /\ UNCHANGED rqMixed
    <3>1. ChunksTyped' /\ NotMixed'
        BY <1>0, <1>1, <1>4, <2>2, <2>5, StaysUnmixed DEF ChunksTyped
    <3> QED
        BY <1>0, <1>1, <1>2, <1>3, <1>5, <2>5, <3>1 DEF RequestsInv, Links, Chunks
  <2>6. CASE /\ rqChunks' = [rqChunks EXCEPT ![t] = IF complete THEN NoParts ELSE parts]
             /\ rqMixed' = (rqMixed \/ (complete /\ parts # [part \in PartNumbers |-> rqConnection]))
    <3>1. NotMixed'
      <4> HIDE DEF parts, complete
      <4> QED
          BY <1>0, <1>1, <2>4, <2>6, Zenon DEF NotMixed
    <3>2. ChunksTyped' /\ ChunksOfLink'
      <4> HIDE DEF complete
      <4>1. CASE complete
        <5>1. rqChunks' = [rqChunks EXCEPT ![t] = NoParts]
            BY <2>6, <4>1
        <5>2. ChunksTyped'
            BY <1>0, <1>4, <2>2, <5>1 DEF ChunksTyped
        <5> QED
            BY <1>5, <5>1, <5>2
      <4>2. CASE ~complete
        <5>1. rqChunks' = [rqChunks EXCEPT ![t] = parts]
            BY <2>6, <4>2
        <5> HIDE DEF parts
        <5>2. ChunksTyped'
            BY <1>0, <2>2, <2>3, <5>1 DEF ChunksTyped
        <5>3. ChunksOfLink'
            BY <1>0, <1>1, <2>1, <2>3, <5>1 DEF ChunksOfLink, ChunksTyped, NoChunks
        <5> QED
            BY <5>2, <5>3
      <4> QED
          BY <4>1, <4>2
    <3> QED
        BY <1>0, <1>1, <1>2, <1>3, <3>1, <3>2 DEF RequestsInv, Links, Chunks
  <2> QED
      BY <1>7, <2>5, <2>6 DEF ReceiveChunk
<1> QED
    BY <1>6, <1>7

LEMMA RequestsStutter == ASSUME RequestsInv, UNCHANGED rqVars PROVE RequestsInv'
<1>0. /\ rqCrossed \in SUBSET Crossings /\ Tables /\ Links /\ Chunks
      /\ UNCHANGED <<rqLink, rqConnection, rqRequests, rqInFlight, rqOperations, rqOutgoing, rqSent,
                     rqChunks, rqMixed, rqCrossed, rqFaults>>
    BY DEF RequestsInv, rqVars, rqTables, rqTransfers
<1>1. Tables' /\ IdsInFlight' = IdsInFlight
    BY <1>0, TablesKept
<1>2. Links' /\ Chunks'
    BY <1>0, <1>1 DEF Links, LinkTyped, SlotsBounded, OutgoingBounded, LinkCarries, NoSlots, Chunks,
                      ChunksTyped, ChunksOfLink, NoChunks, NotMixed
<1> QED
    BY <1>0, <1>1, <1>2 DEF RequestsInv

LEMMA RequestsStep == ASSUME RequestsInv, [RequestsSteps]_rqVars PROVE RequestsInv'
<1>1. CASE \E r \in DOMAIN rqRequests : Denied(r) \/ Admitted(r)
    BY <1>1, DeniedKeeps, AdmittedKeeps
<1>2. CASE \E r \in DOMAIN rqRequests : OperationEnds(r) \/ OutgoingEnds(r)
    BY <1>2, OperationEndsKeeps, OutgoingEndsKeeps
<1>3. CASE \E t \in Transfers : ReceiveChunk(t) \/ ExpireChunk(t)
    BY <1>3, ChunkStepsKeep
<1>4. CASE ConnectionEnds \/ Connects \/ ConnectionGoesOn \/ Breaks \/ HandshakeFails
    BY <1>4, ConnectionEndsKeeps, ConnectsKeeps, LinkMovesKeeps
<1>5. CASE TransportFails \/ CancelActiveRequests
    BY <1>5, TransportFailsKeeps, CancelActiveKeeps
<1>6. CASE \E id \in RequestIds : Receive(id) \/ CancelRequest(id)
    BY <1>6, ReceiveKeeps, CancelRequestKeeps
<1>7. CASE \E r \in DOMAIN rqRequests : RequestEngine(r)
    BY <1>7, RequestEngineKeeps
<1>8. CASE UNCHANGED rqVars
    BY <1>8, RequestsStutter
<1> QED
    BY <1>1, <1>2, <1>3, <1>4, <1>5, <1>6, <1>7, <1>8 DEF RequestsSteps, RequestsWork

\* Over any connections a request keeps its slot until it is answered, once; no result
\* goes to one who cancelled or to another connection, nobody waits for an engine that is
\* gone, no table outgrows its size and no message is put together of two connections.
THEOREM RequestsAreAccounted == RequestsSpec => []RequestsSound
<1>1. RequestsInv => RequestsSound
  <2> SUFFICES ASSUME RequestsInv PROVE RequestsSound
      OBVIOUS
  <2>0. /\ rqCrossed \in SUBSET Crossings /\ TablesTyped /\ (NotCrossed => Uncrossed)
        /\ LinkTyped /\ SlotsBounded /\ OutgoingBounded /\ LinkCarries /\ ChunksTyped /\ NotMixed
      BY DEF RequestsInv, Tables, Links, Chunks
  <2>1. RqTypeOK
    <3>1. /\ Len(rqRequests) \in Nat /\ DOMAIN rqRequests = 1 .. Len(rqRequests)
          /\ \A r \in DOMAIN rqRequests : rqRequests[r] \in RequestRecords
        BY <2>0, RequestsShape
    <3>2. DOMAIN rqRequests \in {1 .. n : n \in 0 .. MaxRequests}
      <4>1. Len(rqRequests) \in 0 .. MaxRequests
          BY <2>0, <3>1, BridgeRequestsConstants DEF TablesTyped
      <4> QED
          BY <3>1, <4>1
    <3>3. rqMixed \in BOOLEAN /\ rqCrossed \subseteq {"ids", "requests", "chunks"}
        BY <2>0 DEF NotMixed, Crossings
    <3>4. Cardinality({id \in RequestIds : rqInFlight[id] # 0}) <= MaxConcurrent
        BY <2>0 DEF SlotsBounded, IdsInFlight
    <3> QED
        BY <2>0, <3>1, <3>2, <3>3, <3>4
           DEF RqTypeOK, TablesTyped, LinkTyped, OutgoingBounded, ChunksTyped, RequestRecords
  <2>2. SlotsAccounted /\ ResultToAsker
      BY <2>0 DEF SlotsAccounted, ResultToAsker, Uncrossed, RegisteredLive, LiveOfLink, ResultsKept
  <2>3. OutgoingOnLiveLink
      BY <2>0 DEF OutgoingOnLiveLink, LinkCarries, NoSlots
  <2> QED
      BY <2>0, <2>1, <2>2, <2>3 DEF RequestsSound, NotMixed, WholeMessages
<1> QED
    BY <1>1, RequestsInitInvariant, RequestsStep, PTL DEF RequestsSpec
=============================================================================
