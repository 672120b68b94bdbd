------------------------ MODULE TransformGateProofs ------------------------
(***************************************************************************)
(* Proofs about TransformGate: the counters of a gate agree with the       *)
(* executions that use it, no waiter is forgotten, no gate exceeds the     *)
(* ceiling of maxConcurrency or of its queue, and as long as the profile   *)
(* keeps its limit and nobody tries to delete it the gates together are a  *)
(* first-in first-out semaphore.                                           *)
(* Proofs about TransformRecovery: what is enabled was replayed, and is of *)
(* the document shown.                                                     *)
(* Proofs about ProxyRules: the preview names what the compiled script     *)
(* gives, whatever rules, texts and addresses there are.                   *)
(***************************************************************************)
EXTENDS TransformGate, TransformRecovery, ProxyRules,
    FiniteSetTheorems, SequenceTheorems, WellFoundedInduction, TLAPS

\* Those whose continuation after the wait has not run.
Pending(g) == Waiting(g) \cup Woken(g)

\* Who entered a gate has one, and read a limit.
Members ==
    \A e \in Executions :
        /\ gateOf[e] = NoGate <=> pc[e] \in {"idle", "checking"}
        /\ pc[e] # "idle" => limitOf[e] \in Limits

\* The queue of a gate holds exactly the executions that wait in it, once.
Waiters ==
    \A g \in Gates :
        /\ \A i \in 1 .. Len(waiters[g]) : waiters[g][i] \in Waiting(g)
        /\ \A i, j \in 1 .. Len(waiters[g]) : waiters[g][i] = waiters[g][j] => i = j
        /\ \A e \in Waiting(g) : \E i \in 1 .. Len(waiters[g]) : waiters[g][i] = e

\* queued counts the queue and the woken.
QueueCounted ==
    \A g \in Gates : queued[g] = Len(waiters[g]) + Cardinality(Woken(g))

Bounds ==
    \A g \in Gates :
        /\ active[g] <= MaxLimit
        /\ queued[g] <= MaxQueueDepth
        /\ waiters[g] # <<>> => active[g] > 0

\* The shape of the state, and its counts.
Shape == TypeOK /\ Members /\ Waiters
Counts == PermitsAccounted /\ QueueCounted /\ Bounds
IInv == Shape /\ Counts

-----------------------------------------------------------------------------
(* Sets of executions are finite, and counted. *)

LEMMA FiniteParts ==
    ASSUME NEW g
    PROVE  /\ IsFiniteSet(Holders(g))
           /\ IsFiniteSet(Pending(g))
           /\ IsFiniteSet(Woken(g))
<1>1. IsFiniteSet(Executions)
    BY GateConstants
<1>2. /\ Holders(g) \subseteq Executions
      /\ Pending(g) \subseteq Executions
      /\ Woken(g) \subseteq Executions
    BY DEF Holders, Pending, Waiting, Woken, Running
<1> QED
    BY <1>1, <1>2, FS_Subset

\* Adding a new element counts one more.
LEMMA CountAdd ==
    ASSUME NEW S, NEW T, IsFiniteSet(S), NEW x, x \notin S, T = S \cup {x}
    PROVE  Cardinality(T) = Cardinality(S) + 1
    BY FS_AddElement

\* Removing an element counts one less.
LEMMA CountRemove ==
    ASSUME NEW S, NEW T, IsFiniteSet(S), NEW x \in S, T = S \ {x}
    PROVE  /\ Cardinality(S) >= 1
           /\ Cardinality(T) = Cardinality(S) - 1
<1>1. /\ Cardinality(S) \in Nat
      /\ IsFiniteSet(T)
      /\ Cardinality(T) = Cardinality(S) - 1
    BY FS_CardinalityType, FS_RemoveElement
<1>2. Cardinality(T) \in Nat
    BY <1>1, FS_CardinalityType
<1> QED
    BY <1>1, <1>2

\* Replacing an element counts the same.
LEMMA CountReplace ==
    ASSUME NEW S, NEW T, IsFiniteSet(S), NEW x \in S, NEW y, y \notin S,
           T = (S \ {x}) \cup {y}
    PROVE  Cardinality(T) = Cardinality(S)
<1> DEFINE R == S \ {x}
<1>1. /\ IsFiniteSet(R)
      /\ Cardinality(R) = Cardinality(S) - 1
    BY FS_RemoveElement
<1>2. Cardinality(T) = Cardinality(R) + 1
    <2>1. y \notin R /\ T = R \cup {y}
        OBVIOUS
    <2> QED
        BY <1>1, <2>1, FS_AddElement
<1>3. Cardinality(S) \in Nat
    BY FS_CardinalityType
<1> QED
    BY <1>1, <1>2, <1>3

-----------------------------------------------------------------------------
LEMMA InitIInv == Init => IInv
<1> SUFFICES ASSUME Init PROVE IInv
    OBVIOUS
<1>0. deleting \in BOOLEAN
    BY Zenon DEF Init
<1>1. Shape
    <2>1. TypeOK
        <3>1. /\ limit \in Limits \cup {0} /\ gate \in Gates \cup {NoGate}
              /\ active \in [Gates -> Nat] /\ queued \in [Gates -> Nat]
              /\ waiters \in [Gates -> Seq(Executions)]
              /\ pc \in [Executions -> {"idle", "checking", "waiting", "woken", "running"}]
              /\ limitOf \in [Executions -> Limits \cup {0}]
              /\ gateOf \in [Executions -> Gates \cup {NoGate}]
            BY DEF Init
        <3> QED
            BY <1>0, <3>1, Zenon DEF TypeOK
    <2>2. Members /\ Waiters
        BY GateConstants DEF Init, Members, Waiters, Waiting
    <2> QED
        BY <2>1, <2>2 DEF Shape
<1> USE DEF Init
<1>2. \A g \in Gates : Waiting(g) \cup Woken(g) = {} /\ Holders(g) = {} /\ Woken(g) = {}
    BY DEF Holders, Waiting, Woken, Running
<1>3. Cardinality({}) = 0
    BY FS_EmptySet
<1>4. PermitsAccounted /\ QueueCounted
    <2>1. \A g \in Gates : /\ Cardinality(Waiting(g) \cup Woken(g)) = 0
                           /\ Cardinality(Holders(g)) = 0
                           /\ Cardinality(Woken(g)) = 0
        BY <1>2, <1>3, Zenon
    <2>2. \A g \in Gates : active[g] = 0 /\ queued[g] = 0 /\ Len(waiters[g]) = 0
        OBVIOUS
    <2> SUFFICES ASSUME NEW g \in Gates
                 PROVE  /\ active[g] = Cardinality(Holders(g))
                        /\ queued[g] = Cardinality(Waiting(g) \cup Woken(g))
                        /\ queued[g] = Len(waiters[g]) + Cardinality(Woken(g))
        BY DEF PermitsAccounted, QueueCounted
    <2>3. 0 = 0 + 0
        OBVIOUS
    <2> HIDE DEF Init
    <2> QED
        BY <2>1, <2>2, <2>3
<1>5. Bounds
    BY GateConstants DEF Bounds
<1> QED
    BY <1>1, <1>4, <1>5 DEF IInv, Counts

\* A step that leaves the gates and their members alone.
LEMMA GateUntouched ==
    ASSUME IInv, Shape',
           UNCHANGED gateVars,
           \A e \in Executions : gateOf'[e] = gateOf[e],
           \A e \in Executions :
               pc'[e] = pc[e] \/ {pc[e], pc'[e]} \subseteq {"idle", "checking"}
    PROVE  IInv'
<1>1. \A g \in Gates : /\ Holders(g)' = Holders(g)
                       /\ Pending(g)' = Pending(g)
                       /\ Woken(g)' = Woken(g)
    BY DEF Holders, Pending, Waiting, Woken, Running
<1> QED
    BY <1>1 DEF IInv, Counts, PermitsAccounted, QueueCounted, Bounds, Pending, gateVars

LEMMA PermitStep ==
    ASSUME IInv, NEW e \in Executions, Permit(e)
    PROVE  IInv'
<1>1. PICK g \in Gates :
          /\ Entered(e, g)
          /\ active[g] < limitOf[e]
          /\ active' = [active EXCEPT ![g] = @ + 1]
          /\ pc' = [pc EXCEPT ![e] = "running"]
          /\ gateOf' = [gateOf EXCEPT ![e] = g]
          /\ UNCHANGED <<limit, deleting, queued, waiters, limitOf>>
    BY DEF Permit
<1>2. pc[e] = "checking" /\ gate' = g
    BY <1>1 DEF Entered
<1>3. Shape'
    <2>1. TypeOK'
        BY <1>1, <1>2 DEF IInv, Shape, TypeOK
    <2>2. Members'
        BY <1>1, <1>2, GateConstants DEF IInv, Shape, TypeOK, Members
    <2>3. \A h \in Gates : Waiting(h)' = Waiting(h)
        BY <1>1, <1>2 DEF IInv, Shape, TypeOK, Waiting
    <2>4. Waiters'
        BY <1>1, <2>3 DEF IInv, Shape, Waiters
    <2> QED
        BY <2>1, <2>2, <2>4 DEF Shape
<1>4. /\ Holders(g)' = Holders(g) \cup {e}
      /\ e \notin Holders(g)
      /\ \A h \in Gates \ {g} : Holders(h)' = Holders(h)
    BY <1>1, <1>2, GateConstants
    DEF IInv, Shape, TypeOK, Members, Holders, Woken, Running
<1>5. \A h \in Gates : Pending(h)' = Pending(h) /\ Woken(h)' = Woken(h)
    BY <1>1, <1>2 DEF IInv, Shape, TypeOK, Pending, Waiting, Woken
<1>6. Cardinality(Holders(g)') = Cardinality(Holders(g)) + 1
    BY <1>4, FiniteParts, CountAdd
<1>7. PermitsAccounted'
    BY <1>1, <1>4, <1>5, <1>6
    DEF IInv, Shape, TypeOK, Counts, PermitsAccounted, Pending
<1>8. QueueCounted'
    BY <1>1, <1>5 DEF IInv, Counts, QueueCounted
<1>9. Bounds'
    <2>1. limitOf[e] \in 1 .. MaxLimit
        BY <1>2, GateConstants DEF IInv, Shape, Members
    <2> QED
        BY <1>1, <2>1, GateConstants DEF IInv, Shape, TypeOK, Counts, Bounds
<1> QED
    BY <1>3, <1>7, <1>8, <1>9 DEF IInv, Counts

LEMMA EnqueueStep ==
    ASSUME IInv, NEW e \in Executions, Enqueue(e)
    PROVE  IInv'
<1>1. PICK g \in Gates :
          /\ Entered(e, g)
          /\ active[g] >= limitOf[e]
          /\ queued[g] < MaxQueueDepth
          /\ queued' = [queued EXCEPT ![g] = @ + 1]
          /\ waiters' = [waiters EXCEPT ![g] = Append(@, e)]
          /\ pc' = [pc EXCEPT ![e] = "waiting"]
          /\ gateOf' = [gateOf EXCEPT ![e] = g]
          /\ UNCHANGED <<limit, deleting, active, limitOf>>
    BY DEF Enqueue
<1>2. pc[e] = "checking" /\ gate' = g
    BY <1>1 DEF Entered
<1>3. /\ waiters[g] \in Seq(Executions)
      /\ waiters'[g] = Append(waiters[g], e)
      /\ Len(waiters'[g]) = Len(waiters[g]) + 1
      /\ \A i \in 1 .. Len(waiters[g]) : waiters'[g][i] = waiters[g][i]
      /\ waiters'[g][Len(waiters[g]) + 1] = e
      /\ Len(waiters[g]) \in Nat
      /\ \A h \in Gates \ {g} : waiters'[h] = waiters[h]
    BY <1>1 DEF IInv, Shape, TypeOK
<1>4. /\ Waiting(g)' = Waiting(g) \cup {e}
      /\ e \notin Waiting(g)
      /\ \A h \in Gates \ {g} : Waiting(h)' = Waiting(h)
      /\ \A h \in Gates : /\ Holders(h)' = Holders(h)
                          /\ Woken(h)' = Woken(h)
                          /\ e \notin Woken(h)
    BY <1>1, <1>2, GateConstants
    DEF IInv, Shape, TypeOK, Members, Holders, Woken, Running, Waiting
<1>5. Shape'
    <2>1. TypeOK'
        BY <1>1, <1>2 DEF IInv, Shape, TypeOK
    <2>2. Members'
        BY <1>1, <1>2, GateConstants DEF IInv, Shape, TypeOK, Members
    <2>3. /\ \A i \in 1 .. Len(waiters'[g]) : waiters'[g][i] \in Waiting(g)'
          /\ \A i, j \in 1 .. Len(waiters'[g]) : waiters'[g][i] = waiters'[g][j] => i = j
        BY <1>3, <1>4 DEF IInv, Shape, Waiters
    <2>4. ASSUME NEW x \in Waiting(g)'
          PROVE  \E i \in 1 .. Len(waiters'[g]) : waiters'[g][i] = x
        <3>1. CASE x = e
            BY <1>3, <3>1
        <3>2. CASE x # e
            <4>1. PICK i \in 1 .. Len(waiters[g]) : waiters[g][i] = x
                BY <1>4, <3>2 DEF IInv, Shape, Waiters
            <4> QED
                BY <1>3, <4>1
        <3> QED
            BY <3>1, <3>2
    <2>5. Waiters'
        <3> SUFFICES ASSUME NEW h \in Gates
                     PROVE  /\ \A i \in 1 .. Len(waiters'[h]) : waiters'[h][i] \in Waiting(h)'
                            /\ \A i, j \in 1 .. Len(waiters'[h]) :
                                   waiters'[h][i] = waiters'[h][j] => i = j
                            /\ \A x \in Waiting(h)' :
                                   \E i \in 1 .. Len(waiters'[h]) : waiters'[h][i] = x
            BY DEF Waiters
        <3>1. CASE h = g
            BY <2>3, <2>4, <3>1
        <3>2. CASE h # g
            BY <1>3, <1>4, <3>2 DEF IInv, Shape, Waiters
        <3> QED
            BY <3>1, <3>2
    <2> QED
        BY <2>1, <2>2, <2>5 DEF Shape
<1>6. /\ Pending(g)' = Pending(g) \cup {e}
      /\ e \notin Pending(g)
      /\ \A h \in Gates \ {g} : Pending(h)' = Pending(h)
    BY <1>4 DEF Pending
<1>7. Cardinality(Pending(g)') = Cardinality(Pending(g)) + 1
    BY <1>6, FiniteParts, CountAdd
<1>8. PermitsAccounted'
    BY <1>1, <1>4, <1>6, <1>7
    DEF IInv, Shape, TypeOK, Counts, PermitsAccounted, Pending
<1>9. QueueCounted'
    <2>1. Cardinality(Woken(g)) \in Nat
        BY FiniteParts, FS_CardinalityType
    <2> QED
        BY <1>1, <1>3, <1>4, <2>1 DEF IInv, Shape, TypeOK, Counts, QueueCounted
<1>10. Bounds'
    <2>1. limitOf[e] \in 1 .. MaxLimit
        BY <1>2, GateConstants DEF IInv, Shape, Members
    <2> QED
        BY <1>1, <1>3, <2>1, GateConstants DEF IInv, Shape, TypeOK, Counts, Bounds
<1> QED
    BY <1>5, <1>8, <1>9, <1>10 DEF IInv, Counts

LEMMA ResumeStep ==
    ASSUME IInv, NEW e \in Executions, Resume(e)
    PROVE  IInv'
<1>2. PICK g \in Gates : g = gateOf[e]
    BY DEF IInv, Shape, TypeOK, Members, Resume
<1>1. /\ pc[e] = "woken"
      /\ pc' = [pc EXCEPT ![e] = "running"]
      /\ queued' = [queued EXCEPT ![g] = @ - 1]
      /\ UNCHANGED <<limit, deleting, gate, active, waiters, limitOf, gateOf>>
    BY <1>2 DEF Resume
<1>3. /\ Pending(g)' = Pending(g) \ {e} /\ e \in Pending(g)
      /\ Woken(g)' = Woken(g) \ {e} /\ e \in Woken(g)
      /\ \A h \in Gates \ {g} : Pending(h)' = Pending(h) /\ Woken(h)' = Woken(h)
      /\ \A h \in Gates : Holders(h)' = Holders(h) /\ Waiting(h)' = Waiting(h)
    BY <1>1, <1>2 DEF IInv, Shape, TypeOK, Holders, Woken, Running, Waiting, Pending
<1>4. /\ Cardinality(Pending(g)) >= 1
      /\ Cardinality(Pending(g)') = Cardinality(Pending(g)) - 1
      /\ Cardinality(Woken(g)') = Cardinality(Woken(g)) - 1
      /\ Cardinality(Woken(g)) \in Nat
    BY <1>3, FiniteParts, CountRemove, FS_CardinalityType
<1>5. queued[g] >= 1
    BY <1>2, <1>4 DEF IInv, Counts, PermitsAccounted, Pending
<1>6. Shape'
    <2>1. TypeOK'
        BY <1>1, <1>2, <1>5 DEF IInv, Shape, TypeOK
    <2>2. Members'
        BY <1>1 DEF IInv, Shape, TypeOK, Members
    <2>3. Waiters'
        BY <1>1, <1>3 DEF IInv, Shape, Waiters
    <2> QED
        BY <2>1, <2>2, <2>3 DEF Shape
<1>7. PermitsAccounted'
    BY <1>1, <1>2, <1>3, <1>4
    DEF IInv, Shape, TypeOK, Counts, PermitsAccounted, Pending
<1>8. QueueCounted'
    <2> SUFFICES ASSUME NEW h \in Gates
                 PROVE  queued'[h] = Len(waiters[h]) + Cardinality(Woken(h)')
        BY <1>1 DEF QueueCounted
    <2>1. Len(waiters[h]) \in Nat /\ queued[h] \in Nat
        BY DEF IInv, Shape, TypeOK
    <2>2. CASE h = g
        BY <1>1, <1>4, <2>1, <2>2 DEF IInv, Shape, TypeOK, Counts, QueueCounted
    <2>3. CASE h # g
        BY <1>1, <1>3, <2>3 DEF IInv, Shape, TypeOK, Counts, QueueCounted
    <2> QED
        BY <2>2, <2>3
<1>9. Bounds'
    BY <1>1, <1>2, GateConstants DEF IInv, Shape, TypeOK, Counts, Bounds
<1> QED
    BY <1>6, <1>7, <1>8, <1>9 DEF IInv, Counts

LEMMA TransferStep ==
    ASSUME IInv, NEW e \in Executions, Transfer(e)
    PROVE  IInv'
<1>2. PICK g \in Gates : g = gateOf[e]
    BY DEF IInv, Shape, TypeOK, Members, Transfer
<1>3. PICK w \in Executions :
          /\ waiters[g] \in Seq(Executions)
          /\ Len(waiters[g]) \in Nat \ {0}
          /\ w = Head(waiters[g])
          /\ w = waiters[g][1]
    BY <1>2 DEF IInv, Shape, TypeOK, Transfer
<1>1. /\ pc[e] = "running"
      /\ waiters[g] # <<>>
      /\ waiters' = [waiters EXCEPT ![g] = Tail(@)]
      /\ pc' = [pc EXCEPT ![e] = "idle", ![w] = "woken"]
      /\ gate' \in {gate, NoGate}
      /\ limitOf' = [limitOf EXCEPT ![e] = 0]
      /\ gateOf' = [gateOf EXCEPT ![e] = NoGate]
      /\ UNCHANGED <<limit, deleting, active, queued>>
    BY <1>2, <1>3 DEF Transfer, Unregister, Ended
<1>4. w \in Waiting(g) /\ pc[w] = "waiting" /\ gateOf[w] = g /\ w # e
    BY <1>1, <1>2, <1>3 DEF IInv, Shape, Waiters, Waiting
<1>5. /\ waiters'[g] = Tail(waiters[g])
      /\ Len(waiters'[g]) = Len(waiters[g]) - 1
      /\ \A i \in 1 .. Len(waiters'[g]) : waiters'[g][i] = waiters[g][i + 1]
      /\ \A h \in Gates \ {g} : waiters'[h] = waiters[h]
    BY <1>1, <1>2, <1>3 DEF IInv, Shape, TypeOK
<1>6. /\ Waiting(g)' = Waiting(g) \ {w}
      /\ Woken(g)' = Woken(g) \cup {w} /\ w \notin Woken(g)
      /\ Holders(g)' = (Holders(g) \ {e}) \cup {w}
      /\ e \in Holders(g) /\ w \notin Holders(g)
      /\ Pending(g)' = Pending(g)
      /\ \A h \in Gates \ {g} : /\ Waiting(h)' = Waiting(h)
                                /\ Woken(h)' = Woken(h)
                                /\ Holders(h)' = Holders(h)
                                /\ Pending(h)' = Pending(h)
    BY <1>1, <1>2, <1>4, GateConstants
    DEF IInv, Shape, TypeOK, Holders, Woken, Running, Waiting, Pending
<1>7. Shape'
    <2>1. TypeOK'
        <3>1. waiters' \in [Gates -> Seq(Executions)]
            BY <1>1, <1>2, <1>3 DEF IInv, Shape, TypeOK
        <3>2. pc' \in [Executions -> {"idle", "checking", "waiting", "woken", "running"}]
            BY <1>1 DEF IInv, Shape, TypeOK
        <3> QED
            BY <1>1, <3>1, <3>2 DEF IInv, Shape, TypeOK
    <2>2. Members'
        BY <1>1, <1>2, <1>4, GateConstants DEF IInv, Shape, TypeOK, Members
    <2>3. /\ \A i \in 1 .. Len(waiters'[g]) : waiters'[g][i] \in Waiting(g)'
          /\ \A i, j \in 1 .. Len(waiters'[g]) : waiters'[g][i] = waiters'[g][j] => i = j
        BY <1>2, <1>3, <1>5, <1>6 DEF IInv, Shape, Waiters
    <2>4. \A x \in Waiting(g)' : \E i \in 1 .. Len(waiters'[g]) : waiters'[g][i] = x
        <3> SUFFICES ASSUME NEW x \in Waiting(g)'
                     PROVE  \E i \in 1 .. Len(waiters'[g]) : waiters'[g][i] = x
            OBVIOUS
        <3>1. PICK i \in 1 .. Len(waiters[g]) : waiters[g][i] = x
            BY <1>2, <1>6 DEF IInv, Shape, Waiters
        <3>2. i # 1
            BY <1>3, <1>6, <3>1
        <3>3. i - 1 \in 1 .. Len(waiters'[g]) /\ waiters'[g][i - 1] = x
            BY <1>3, <1>5, <3>1, <3>2
        <3> QED
            BY <3>3
    <2>5. Waiters'
        <3> SUFFICES ASSUME NEW h \in Gates
                     PROVE  /\ \A i \in 1 .. Len(waiters'[h]) : waiters'[h][i] \in Waiting(h)'
                            /\ \A i, j \in 1 .. Len(waiters'[h]) :
                                   waiters'[h][i] = waiters'[h][j] => i = j
                            /\ \A x \in Waiting(h)' :
                                   \E i \in 1 .. Len(waiters'[h]) : waiters'[h][i] = x
            BY DEF Waiters
        <3>1. CASE h = g
            BY <2>3, <2>4, <3>1
        <3>2. CASE h # g
            <4>1. waiters'[h] = waiters[h] /\ Waiting(h)' = Waiting(h)
                BY <1>5, <1>6, <3>2
            <4>2. /\ \A i \in 1 .. Len(waiters[h]) : waiters[h][i] \in Waiting(h)
                  /\ \A i, j \in 1 .. Len(waiters[h]) : waiters[h][i] = waiters[h][j] => i = j
                  /\ \A x \in Waiting(h) : \E i \in 1 .. Len(waiters[h]) : waiters[h][i] = x
                BY DEF IInv, Shape, Waiters
            <4> QED
                BY <4>1, <4>2
        <3> QED
            BY <3>1, <3>2
    <2> QED
        BY <2>1, <2>2, <2>5 DEF Shape
<1>8. /\ Cardinality(Holders(g)') = Cardinality(Holders(g))
      /\ Cardinality(Woken(g)') = Cardinality(Woken(g)) + 1
      /\ Cardinality(Woken(g)) \in Nat
    BY <1>6, FiniteParts, CountReplace, CountAdd, FS_CardinalityType
<1>9. PermitsAccounted'
    BY <1>1, <1>6, <1>8 DEF IInv, Counts, PermitsAccounted, Pending
<1>10. QueueCounted'
    <2> SUFFICES ASSUME NEW h \in Gates
                 PROVE  queued[h] = Len(waiters'[h]) + Cardinality(Woken(h)')
        BY <1>1 DEF QueueCounted
    <2>3. queued[g] = Len(waiters[g]) + Cardinality(Woken(g))
        BY DEF IInv, Counts, QueueCounted
    <2>4. queued[g] = (Len(waiters[g]) - 1) + (Cardinality(Woken(g)) + 1)
        BY <1>3, <1>8, <2>3
    <2>1. CASE h = g
        BY <1>5, <1>8, <2>1, <2>4
    <2>2. CASE h # g
        BY <1>5, <1>6, <2>2 DEF IInv, Counts, QueueCounted
    <2> QED
        BY <2>1, <2>2
<1>11. Bounds'
    BY <1>1, <1>2, <1>5 DEF IInv, Shape, TypeOK, Counts, Bounds
<1> QED
    BY <1>7, <1>9, <1>10, <1>11 DEF IInv, Counts

LEMMA FreeStep ==
    ASSUME IInv, NEW e \in Executions, Free(e)
    PROVE  IInv'
<1>2. PICK g \in Gates : g = gateOf[e]
    BY DEF IInv, Shape, TypeOK, Members, Free
<1>1. /\ pc[e] = "running"
      /\ waiters[g] = <<>>
      /\ active' = [active EXCEPT ![g] = IF @ = 0 THEN 0 ELSE @ - 1]
      /\ pc' = [pc EXCEPT ![e] = "idle"]
      /\ gate' \in {gate, NoGate}
      /\ limitOf' = [limitOf EXCEPT ![e] = 0]
      /\ gateOf' = [gateOf EXCEPT ![e] = NoGate]
      /\ UNCHANGED <<limit, deleting, queued, waiters>>
    BY <1>2 DEF Free, Unregister, Ended
<1>3. /\ Holders(g)' = Holders(g) \ {e} /\ e \in Holders(g)
      /\ \A h \in Gates \ {g} : Holders(h)' = Holders(h)
      /\ \A h \in Gates : /\ Pending(h)' = Pending(h)
                          /\ Woken(h)' = Woken(h)
                          /\ Waiting(h)' = Waiting(h)
    BY <1>1, <1>2, GateConstants
    DEF IInv, Shape, TypeOK, Holders, Woken, Running, Waiting, Pending
<1>4. Shape'
    <2>0. deleting' \in BOOLEAN
        <3>1. deleting' = deleting
            BY <1>1
        <3> QED
            BY <3>1, Zenon DEF IInv, Shape, TypeOK
    <2>1. TypeOK'
        <3>1. /\ limit' \in Limits \cup {0} /\ gate' \in Gates \cup {NoGate}
              /\ active' \in [Gates -> Nat]
            BY <1>1, <1>2 DEF IInv, Shape, TypeOK
        <3>2. /\ queued' \in [Gates -> Nat] /\ waiters' \in [Gates -> Seq(Executions)]
              /\ pc' \in [Executions -> {"idle", "checking", "waiting", "woken", "running"}]
              /\ limitOf' \in [Executions -> Limits \cup {0}]
              /\ gateOf' \in [Executions -> Gates \cup {NoGate}]
            BY <1>1, <1>2 DEF IInv, Shape, TypeOK
        <3> QED
            BY <2>0, <3>1, <3>2, Zenon DEF TypeOK
    <2>2. Members'
        BY <1>1, <1>2, GateConstants DEF IInv, Shape, TypeOK, Members
    <2>3. Waiters'
        BY <1>1, <1>3 DEF IInv, Shape, Waiters
    <2> QED
        BY <2>1, <2>2, <2>3 DEF Shape
<1>5. /\ Cardinality(Holders(g)) >= 1
      /\ Cardinality(Holders(g)') = Cardinality(Holders(g)) - 1
    BY <1>3, FiniteParts, CountRemove
<1>6. PermitsAccounted'
    <2> SUFFICES ASSUME NEW h \in Gates
                 PROVE  /\ active'[h] = Cardinality(Holders(h)')
                        /\ queued[h] = Cardinality(Pending(h)')
        BY <1>1 DEF PermitsAccounted, Pending
    <2>1. queued[h] = Cardinality(Pending(h)')
        BY <1>3 DEF IInv, Counts, PermitsAccounted, Pending
    <2>2. active[h] \in Nat /\ active[h] = Cardinality(Holders(h))
        BY DEF IInv, Shape, TypeOK, Counts, PermitsAccounted
    <2>3. CASE h = g
        BY <1>1, <1>5, <2>1, <2>2, <2>3 DEF IInv, Shape, TypeOK
    <2>4. CASE h # g
        BY <1>1, <1>3, <2>1, <2>2, <2>4 DEF IInv, Shape, TypeOK
    <2> QED
        BY <2>3, <2>4
<1>7. QueueCounted'
    BY <1>1, <1>3 DEF IInv, Counts, QueueCounted
<1>8. Bounds'
    BY <1>1, <1>2, GateConstants DEF IInv, Shape, TypeOK, Counts, Bounds
<1> QED
    BY <1>4, <1>6, <1>7, <1>8 DEF IInv, Counts

LEMMA NextIInv == IInv /\ [Next]_vars => IInv'
<1> SUFFICES ASSUME IInv, [Next]_vars PROVE IInv'
    OBVIOUS
<1>1. ASSUME NEW l \in Limits, Save(l) PROVE IInv'
    <2>1. Shape'
        BY <1>1 DEF IInv, Shape, TypeOK, Members, Waiters, Waiting, Save, gateVars
    <2> QED
        BY <1>1, <2>1, GateUntouched DEF Save
<1>2. CASE Delete \/ Deleted \/ DeleteFails
    <2>1. Shape'
        <3>1. deleting' \in BOOLEAN
            BY <1>2, Zenon DEF Delete, Deleted, DeleteFails
        <3>2. /\ limit' \in Limits \cup {0} /\ gate' \in Gates \cup {NoGate}
              /\ UNCHANGED <<active, queued, waiters, pc, limitOf, gateOf>>
            BY <1>2 DEF Delete, Deleted, DeleteFails, gateVars, IInv, Shape, TypeOK
        <3>3. TypeOK'
            BY <3>1, <3>2 DEF IInv, Shape, TypeOK
        <3>4. Members' /\ Waiters'
            BY <3>2 DEF IInv, Shape, Members, Waiters, Waiting
        <3> QED
            BY <3>3, <3>4 DEF Shape
    <2> QED
        BY <1>2, <2>1, GateUntouched DEF Delete, Deleted, DeleteFails
<1>3. ASSUME NEW e \in Executions, Begin(e) PROVE IInv'
    <2>1. Shape'
        BY <1>3 DEF IInv, Shape, TypeOK, Members, Waiters, Waiting, Begin, gateVars
    <2>2. /\ UNCHANGED <<gateVars, gateOf>>
          /\ \A x \in Executions :
                 pc'[x] = pc[x] \/ {pc[x], pc'[x]} \subseteq {"idle", "checking"}
        BY <1>3 DEF IInv, Shape, TypeOK, Begin
    <2> QED
        BY <2>1, <2>2, GateUntouched
<1>4. ASSUME NEW e \in Executions, Fail(e) PROVE IInv'
    <2>1. Shape'
        BY <1>4 DEF IInv, Shape, TypeOK, Members, Waiters, Waiting, Fail, gateVars
    <2>2. /\ UNCHANGED <<gateVars, gateOf>>
          /\ \A x \in Executions :
                 pc'[x] = pc[x] \/ {pc[x], pc'[x]} \subseteq {"idle", "checking"}
        BY <1>4 DEF IInv, Shape, TypeOK, Fail
    <2> QED
        BY <2>1, <2>2, GateUntouched
<1>5. ASSUME NEW e \in Executions, Refuse(e) PROVE IInv'
    <2>1. Shape'
        BY <1>5 DEF IInv, Shape, TypeOK, Members, Waiters, Waiting, Refuse, Entered, gateVars
    <2>2. /\ UNCHANGED <<gateVars, gateOf>>
          /\ \A x \in Executions :
                 pc'[x] = pc[x] \/ {pc[x], pc'[x]} \subseteq {"idle", "checking"}
        BY <1>5 DEF IInv, Shape, TypeOK, Refuse, Entered
    <2> QED
        BY <2>1, <2>2, GateUntouched
<1>6. CASE UNCHANGED vars
    <2>1. Shape'
        BY <1>6 DEF IInv, Shape, TypeOK, Members, Waiters, Waiting, vars, gateVars
    <2> QED
        BY <1>6, <2>1, GateUntouched DEF vars
<1> QED
    BY <1>1, <1>2, <1>3, <1>4, <1>5, <1>6,
       PermitStep, EnqueueStep, ResumeStep, TransferStep, FreeStep
    DEF Next

LEMMA Inductive == Spec => []IInv
    BY InitIInv, NextIInv, PTL DEF Spec

-----------------------------------------------------------------------------
(* Theorems *)

\* The state keeps its types: no counter of a gate ever becomes negative.
THEOREM GateTyped == Spec => []TypeOK
    BY Inductive, PTL DEF IInv, Shape

\* active and queued are the numbers of the executions they stand for, through
\* every handover, edit and deletion.
THEOREM GateAccounted == Spec => []PermitsAccounted
    BY Inductive, PTL DEF IInv, Counts

\* A waiter is never left behind in a gate that nobody holds a permit of.
THEOREM GateNeverForgets == Spec => []NoLostWakeup
<1>1. IInv => NoLostWakeup
    <2> SUFFICES ASSUME IInv, NEW g \in Gates, Waiting(g) # {}
                 PROVE  Holders(g) # {}
        BY DEF NoLostWakeup
    <2>1. waiters[g] # <<>>
        BY DEF IInv, Shape, Waiters
    <2>2. Cardinality(Holders(g)) > 0
        BY <2>1 DEF IInv, Counts, Bounds, PermitsAccounted
    <2>3. Cardinality({}) = 0
        BY FS_EmptySet
    <2> QED
        BY <2>2, <2>3
<1> QED
    BY <1>1, Inductive, PTL

\* No gate runs more executions than the ceiling of maxConcurrency.
THEOREM GateNeverOverruns == Spec => []GateBounded
<1>1. IInv => GateBounded
    BY DEF IInv, Counts, Bounds, PermitsAccounted, GateBounded
<1> QED
    BY <1>1, Inductive, PTL

\* No gate queues more than MAX_QUEUE_DEPTH.
THEOREM GateQueueBounded == Spec => []QueueBounded
<1>1. IInv => QueueBounded
    <2> SUFFICES ASSUME IInv, NEW g \in Gates
                 PROVE  Len(waiters[g]) <= MaxQueueDepth
        BY DEF QueueBounded
    <2>1. Cardinality(Woken(g)) \in Nat
        BY FiniteParts, FS_CardinalityType
    <2>2. Len(waiters[g]) \in Nat
        BY DEF IInv, Shape, TypeOK
    <2> QED
        BY <2>1, <2>2, GateConstants DEF IInv, Shape, TypeOK, Counts, QueueCounted, Bounds
<1> QED
    BY <1>1, Inductive, PTL

\* No gate exceeds either limit, for every number of executions and every ceiling.
THEOREM GateKeepsLimits == Spec => []GateLimits
    BY GateNeverOverruns, GateQueueBounded, PTL DEF GateLimits
-----------------------------------------------------------------------------
(* While the profile keeps one limit its gates together are a semaphore.   *)

\* Who is in a gate is in the registered one and read the one limit, and the queue fills
\* only when the permits are out.
OneGate ==
    /\ \A e \in Executions : pc[e] # "idle" => limitOf[e] = MaxLimit
    /\ \A e \in Executions : gateOf[e] # NoGate => gateOf[e] = gate
    /\ gate # NoGate => (waiters[gate] = <<>> \/ active[gate] = MaxLimit)

SemHolders == {e \in Executions : pc[e] \in {"woken", "running"}}
SemQueue == IF gate = NoGate THEN <<>> ELSE waiters[gate]

\* The semaphore counts as the gates do.
LEMMA SameCount == \A S : Semaphore!Cardinality(S) = Cardinality(S)
    BY Zenon DEF Semaphore!Cardinality, Cardinality, Semaphore!IsFiniteSet, IsFiniteSet

\* The mapped state is that of the registered gate.
LEMMA TheGate ==
    ASSUME IInv, OneGate
    PROVE  /\ gate # NoGate => /\ SemHolders = Holders(gate)
                               /\ Cardinality(SemHolders) = active[gate]
           /\ gate = NoGate => SemHolders = {}
<1>1. \A e \in Executions : pc[e] \in {"woken", "running"} => gateOf[e] = gate /\ gate # NoGate
    BY DEF IInv, Shape, Members, OneGate
<1>2. gate # NoGate => SemHolders = Holders(gate)
    BY <1>1 DEF SemHolders, Holders, Woken, Running
<1>3. gate # NoGate => gate \in Gates
    BY DEF IInv, Shape, TypeOK
<1> QED
    BY <1>1, <1>2, <1>3 DEF SemHolders, IInv, Counts, PermitsAccounted

\* Who enters is neither a holder nor in the queue.
LEMMA NotIn ==
    ASSUME IInv, NEW e \in Executions, pc[e] = "checking"
    PROVE  /\ e \notin SemHolders
           /\ \A i \in DOMAIN SemQueue : SemQueue[i] # e
<1>1. e \notin SemHolders
    BY DEF SemHolders
<1>2. CASE gate = NoGate
    BY <1>1, <1>2 DEF SemQueue
<1>3. CASE gate # NoGate
    <2>1. gate \in Gates /\ SemQueue = waiters[gate] /\ waiters[gate] \in Seq(Executions)
        BY <1>3 DEF SemQueue, IInv, Shape, TypeOK
    <2>2. \A i \in 1 .. Len(waiters[gate]) : pc[waiters[gate][i]] = "waiting"
        BY <2>1 DEF IInv, Shape, Waiters, Waiting
    <2>3. DOMAIN SemQueue = 1 .. Len(waiters[gate])
        BY <2>1
    <2> QED
        BY <1>1, <2>1, <2>2, <2>3
<1> QED
    BY <1>2, <1>3

\* A gate that is entered is registered already, or it is a new one with every permit free.
LEMMA EnteredGate ==
    ASSUME IInv, OneGate, NEW e \in Executions, NEW g \in Gates, Entered(e, g)
    PROVE  /\ gate # NoGate => g = gate
           /\ gate = NoGate => active[g] = 0 /\ waiters[g] = <<>>
           /\ limitOf[e] = MaxLimit
           /\ g # NoGate /\ gate' = g /\ pc[e] = "checking"
           /\ SemQueue = waiters[g]
           /\ Cardinality(SemHolders) = active[g]
<1>1. /\ gate # NoGate => g = gate
      /\ gate = NoGate => active[g] = 0 /\ waiters[g] = <<>>
      /\ limitOf[e] = MaxLimit
      /\ g # NoGate /\ gate' = g /\ pc[e] = "checking"
    BY GateConstants DEF Entered, New, OneGate
<1>2. Cardinality({}) = 0
    BY FS_EmptySet
<1> QED
    BY <1>1, <1>2, TheGate DEF SemQueue

LEMMA SemPermit ==
    ASSUME IInv, OneGate, NEW e \in Executions, Permit(e)
    PROVE  OneGate' /\ Semaphore!Acquire(e)
<1>1. PICK g \in Gates :
          /\ Entered(e, g)
          /\ active[g] < limitOf[e]
          /\ active' = [active EXCEPT ![g] = @ + 1]
          /\ pc' = [pc EXCEPT ![e] = "running"]
          /\ gateOf' = [gateOf EXCEPT ![e] = g]
          /\ UNCHANGED <<limit, deleting, queued, waiters, limitOf>>
    BY DEF Permit
<1>2. /\ gate # NoGate => g = gate
      /\ limitOf[e] = MaxLimit
      /\ g # NoGate /\ gate' = g /\ pc[e] = "checking"
      /\ SemQueue = waiters[g]
      /\ Cardinality(SemHolders) = active[g]
    BY <1>1, EnteredGate
<1>3. active[g] < MaxLimit /\ waiters[g] = <<>>
    <2>1. active[g] \in Nat /\ MaxLimit \in Nat
        BY GateConstants DEF IInv, Shape, TypeOK
    <2> QED
        BY <1>1, <1>2, <2>1, EnteredGate DEF OneGate
<1>4. OneGate'
    <2>1. \A x \in Executions : gateOf'[x] # NoGate => gateOf'[x] = g
        <3>1. \A x \in Executions : gateOf[x] # NoGate => gateOf[x] = g
            BY <1>2 DEF OneGate
        <3> QED
            BY <1>1, <3>1 DEF IInv, Shape, TypeOK
    <2> QED
        BY <1>1, <1>2, <1>3, <2>1 DEF OneGate, IInv, Shape, TypeOK
<1>5. SemHolders' = SemHolders \cup {e}
    BY <1>1, <1>2 DEF SemHolders, IInv, Shape, TypeOK
<1>6. SemQueue' = SemQueue /\ SemQueue = <<>>
    BY <1>1, <1>2, <1>3 DEF SemQueue
<1> QED
    <2>1. e \notin SemHolders \cup {SemQueue[i] : i \in DOMAIN SemQueue}
        BY <1>2, NotIn
    <2>2. Cardinality(SemHolders) < MaxLimit
        BY <1>2, <1>3
    <2>3. Semaphore!Queued = {SemQueue[i] : i \in DOMAIN SemQueue}
        BY Zenon DEF Semaphore!Queued, SemQueue
    <2> QED
        BY <1>4, <1>5, <1>6, <2>1, <2>2, <2>3, SameCount DEF Semaphore!Acquire, SemHolders, SemQueue

LEMMA SemEnqueue ==
    ASSUME IInv, OneGate, NEW e \in Executions, Enqueue(e)
    PROVE  OneGate' /\ Semaphore!Wait(e)
<1>1. PICK g \in Gates :
          /\ Entered(e, g)
          /\ active[g] >= limitOf[e]
          /\ queued[g] < MaxQueueDepth
          /\ queued' = [queued EXCEPT ![g] = @ + 1]
          /\ waiters' = [waiters EXCEPT ![g] = Append(@, e)]
          /\ pc' = [pc EXCEPT ![e] = "waiting"]
          /\ gateOf' = [gateOf EXCEPT ![e] = g]
          /\ UNCHANGED <<limit, deleting, active, limitOf>>
    BY DEF Enqueue
<1>2. /\ gate # NoGate => g = gate
      /\ limitOf[e] = MaxLimit
      /\ g # NoGate /\ gate' = g /\ pc[e] = "checking"
      /\ SemQueue = waiters[g]
      /\ Cardinality(SemHolders) = active[g]
    BY <1>1, EnteredGate
<1>3. active[g] = MaxLimit
    <2>1. active[g] \in Nat /\ MaxLimit \in Nat
        BY GateConstants DEF IInv, Shape, TypeOK
    <2> QED
        BY <1>1, <1>2, <2>1 DEF IInv, Counts, Bounds
<1>4. Len(waiters[g]) < MaxQueueDepth
    <2>1. Cardinality(Woken(g)) \in Nat /\ Len(waiters[g]) \in Nat
        BY FiniteParts, FS_CardinalityType DEF IInv, Shape, TypeOK
    <2> QED
        BY <1>1, <2>1, GateConstants DEF IInv, Shape, TypeOK, Counts, QueueCounted
<1>5. OneGate'
    <2>1. \A x \in Executions : gateOf'[x] # NoGate => gateOf'[x] = g
        <3>1. \A x \in Executions : gateOf[x] # NoGate => gateOf[x] = g
            BY <1>2 DEF OneGate
        <3> QED
            BY <1>1, <3>1 DEF IInv, Shape, TypeOK
    <2> QED
        BY <1>1, <1>2, <1>3, <2>1 DEF OneGate, IInv, Shape, TypeOK
<1>6. SemHolders' = SemHolders
    BY <1>1, <1>2 DEF SemHolders, IInv, Shape, TypeOK
<1>7. SemQueue' = Append(SemQueue, e)
    BY <1>1, <1>2 DEF SemQueue, IInv, Shape, TypeOK
<1> QED
    <2>1. e \notin SemHolders \cup {SemQueue[i] : i \in DOMAIN SemQueue}
        BY <1>2, NotIn
    <2>2. Cardinality(SemHolders) = MaxLimit /\ Len(SemQueue) < MaxQueueDepth
        BY <1>2, <1>3, <1>4
    <2>3. Semaphore!Queued = {SemQueue[i] : i \in DOMAIN SemQueue}
        BY Zenon DEF Semaphore!Queued, SemQueue
    <2> QED
        BY <1>5, <1>6, <1>7, <2>1, <2>2, <2>3, SameCount DEF Semaphore!Wait, SemHolders, SemQueue

\* Whose execution runs is in the registered gate.
LEMMA MemberGate ==
    ASSUME IInv, OneGate, NEW e \in Executions, pc[e] \in {"woken", "running"}
    PROVE  /\ gateOf[e] = gate /\ gate \in Gates /\ gate # NoGate
           /\ SemQueue = waiters[gate]
           /\ SemHolders = Holders(gate)
    BY TheGate DEF IInv, Shape, TypeOK, Members, OneGate, SemQueue

LEMMA SemResume ==
    ASSUME IInv, OneGate, NEW e \in Executions, Resume(e)
    PROVE  OneGate' /\ SemHolders' = SemHolders /\ SemQueue' = SemQueue
<1>1. /\ pc[e] = "woken"
      /\ pc' = [pc EXCEPT ![e] = "running"]
      /\ UNCHANGED <<limit, deleting, gate, active, waiters, limitOf, gateOf>>
    BY DEF Resume
<1> QED
    BY <1>1 DEF OneGate, SemHolders, SemQueue, IInv, Shape, TypeOK

LEMMA SemTransfer ==
    ASSUME IInv, OneGate, NEW e \in Executions, Transfer(e)
    PROVE  OneGate' /\ Semaphore!Transfer(e)
<1>1. /\ gateOf[e] = gate /\ gate \in Gates /\ gate # NoGate
      /\ SemQueue = waiters[gate]
      /\ SemHolders = Holders(gate)
    BY MemberGate DEF Transfer
<1>2. active[gate] # 0
    <2>1. e \in Holders(gate)
        BY <1>1 DEF Transfer, Holders, Running
    <2>2. Holders(gate) # {}
        BY <2>1
    <2>3. Cardinality(Holders(gate)) # 0
        BY <2>2, FiniteParts, FS_EmptySet
    <2> QED
        BY <1>1, <2>3 DEF IInv, Counts, PermitsAccounted
<1>3. PICK w \in Executions :
          /\ waiters[gate] \in Seq(Executions)
          /\ waiters[gate] # <<>>
          /\ w = Head(waiters[gate])
          /\ pc[w] = "waiting"
    <2>1. waiters[gate] # <<>> /\ waiters[gate] \in Seq(Executions)
        BY <1>1 DEF Transfer, IInv, Shape, TypeOK
    <2>2. 1 \in 1 .. Len(waiters[gate]) /\ Head(waiters[gate]) = waiters[gate][1]
        BY <2>1
    <2> QED
        BY <1>1, <2>1, <2>2 DEF IInv, Shape, Waiters, Waiting
<1>4. /\ pc[e] = "running"
      /\ waiters' = [waiters EXCEPT ![gate] = Tail(@)]
      /\ pc' = [pc EXCEPT ![e] = "idle", ![w] = "woken"]
      /\ gate' = gate
      /\ limitOf' = [limitOf EXCEPT ![e] = 0]
      /\ gateOf' = [gateOf EXCEPT ![e] = NoGate]
      /\ UNCHANGED <<limit, deleting, active, queued>>
    BY <1>1, <1>2, <1>3 DEF Transfer, Unregister, Ended
<1>5. active[gate] = MaxLimit
    BY <1>1, <1>3 DEF OneGate
<1>6. OneGate'
    BY <1>1, <1>3, <1>4, <1>5 DEF OneGate, IInv, Shape, TypeOK
<1>7. SemHolders' = (SemHolders \ {e}) \cup {w}
    BY <1>3, <1>4 DEF SemHolders, IInv, Shape, TypeOK
<1>8. SemQueue' = Tail(SemQueue) /\ w = Head(SemQueue) /\ SemQueue # <<>>
    BY <1>1, <1>3, <1>4 DEF SemQueue, IInv, Shape, TypeOK
<1>9. e \in SemHolders
    BY <1>4 DEF SemHolders
<1> QED
    BY <1>6, <1>7, <1>8, <1>9 DEF Semaphore!Transfer, SemHolders, SemQueue

LEMMA SemFree ==
    ASSUME IInv, IInv', OneGate, NEW e \in Executions, Free(e)
    PROVE  OneGate' /\ Semaphore!Release(e)
<1>1. /\ gateOf[e] = gate /\ gate \in Gates /\ gate # NoGate
      /\ SemQueue = waiters[gate]
      /\ SemHolders = Holders(gate)
    BY MemberGate DEF Free
<1>2. /\ pc[e] = "running"
      /\ waiters[gate] = <<>>
      /\ pc' = [pc EXCEPT ![e] = "idle"]
      /\ gate' = IF active'[gate] = 0 /\ queued[gate] = 0 THEN NoGate ELSE gate
      /\ limitOf' = [limitOf EXCEPT ![e] = 0]
      /\ gateOf' = [gateOf EXCEPT ![e] = NoGate]
      /\ UNCHANGED <<limit, deleting, queued, waiters>>
    BY <1>1 DEF Free, Unregister, Ended
<1>3. \A x \in Executions : gateOf'[x] # NoGate => gateOf'[x] = gate
    BY <1>1, <1>2 DEF OneGate, IInv, Shape, TypeOK
<1>4. ASSUME gate' = NoGate, NEW x \in Executions
      PROVE  gateOf'[x] = NoGate
    <2>1. PICK g \in Gates : g = gate
        BY <1>1
    <2>2. active'[g] = 0 /\ queued'[g] = 0
        BY <1>1, <1>2, <1>4, <2>1
    <2>3. Cardinality(Holders(g)') = 0 /\ Cardinality(Pending(g)') = 0
        BY <2>2 DEF IInv, Counts, PermitsAccounted, Pending
    <2>4. IsFiniteSet(Holders(g)') /\ IsFiniteSet(Pending(g)')
        <3>1. /\ Holders(g)' \subseteq Executions
              /\ Pending(g)' \subseteq Executions
            BY DEF Holders, Pending, Waiting, Woken, Running
        <3> QED
            BY <3>1, GateConstants, FS_Subset
    <2>5. Holders(g)' = {} /\ Pending(g)' = {}
        BY <2>3, <2>4, FS_EmptySet
    <2>6. \/ gateOf'[x] = NoGate
          \/ gateOf'[x] = g /\ pc'[x] \in {"waiting", "woken", "running"}
        <3>1. \/ gateOf'[x] = NoGate
              \/ pc'[x] \in {"waiting", "woken", "running"}
            BY DEF IInv, Shape, TypeOK, Members
        <3> QED
            BY <1>3, <2>1, <3>1
    <2> QED
        BY <2>5, <2>6 DEF Holders, Pending, Waiting, Woken, Running
<1>5. OneGate'
    BY <1>1, <1>2, <1>3, <1>4 DEF OneGate, IInv, Shape, TypeOK
<1>6. SemHolders' = SemHolders \ {e}
    BY <1>2 DEF SemHolders, IInv, Shape, TypeOK
<1>7. SemQueue = <<>> /\ SemQueue' = <<>>
    BY <1>1, <1>2 DEF SemQueue
<1>8. e \in SemHolders
    BY <1>2 DEF SemHolders
<1> QED
    BY <1>5, <1>6, <1>7, <1>8 DEF Semaphore!Release, SemHolders, SemQueue

\* The profile keeps the limit that the gates are a semaphore of, and is not being deleted.
LimitKept == limit = MaxLimit /\ ~deleting

LEMMA SemStep ==
    ASSUME IInv, IInv', OneGate, LimitKept, LimitKept', [Next]_vars
    PROVE  OneGate' /\ [Semaphore!Next]_(Semaphore!semVars)
<1>1. CASE \E l \in Limits : Save(l)
    <2>1. limit = MaxLimit /\ limit' = MaxLimit
        BY Zenon DEF LimitKept
    <2> QED
        BY <1>1, <2>1, Zenon DEF Save
<1>2. ~(Delete \/ Deleted \/ DeleteFails)
    <2>1. ~deleting /\ ~deleting'
        BY Zenon DEF LimitKept
    <2> QED
        BY <2>1, Zenon DEF Delete, Deleted, DeleteFails
<1>3. ASSUME NEW e \in Executions, Begin(e) \/ Fail(e)
      PROVE  OneGate' /\ SemHolders' = SemHolders /\ SemQueue' = SemQueue
    <2>1. limit = MaxLimit
        BY Zenon DEF LimitKept
    <2> QED
        BY <1>3, <2>1 DEF Begin, Fail, gateVars, OneGate, SemHolders, SemQueue, IInv, Shape, TypeOK
<1>4. ASSUME NEW e \in Executions, Refuse(e)
      PROVE  OneGate' /\ SemHolders' = SemHolders /\ SemQueue' = SemQueue
    <2>1. PICK g \in Gates :
              /\ Entered(e, g)
              /\ active[g] >= limitOf[e]
              /\ pc' = [pc EXCEPT ![e] = "idle"]
              /\ limitOf' = [limitOf EXCEPT ![e] = 0]
              /\ UNCHANGED <<limit, deleting, gateVars, gateOf>>
        BY <1>4 DEF Refuse
    <2>2. gate = g
        BY <2>1, EnteredGate, GateConstants
    <2>3. gate' = gate /\ pc[e] = "checking"
        BY <2>1, <2>2 DEF Entered
    <2> QED
        BY <2>1, <2>3 DEF gateVars, OneGate, SemHolders, SemQueue, IInv, Shape, TypeOK
<1>5. CASE UNCHANGED vars
    BY <1>5 DEF vars, gateVars, OneGate, SemHolders, SemQueue, Semaphore!semVars
<1> QED
    BY <1>1, <1>2, <1>3, <1>4, <1>5, SemPermit, SemEnqueue, SemResume, SemTransfer, SemFree
    DEF Next, Semaphore!Next, Semaphore!semVars, SemHolders, SemQueue

\* While the profile keeps the limit MaxLimit and nobody tries to delete it, its gates
\* together are a first-in first-out semaphore of that many permits, however often a
\* drained gate is unregistered and a new one made.
THEOREM GateIsSemaphore == Spec /\ []LimitKept => Semaphore!Spec
<1>1. Init /\ LimitKept => OneGate /\ Semaphore!Init
    BY DEF Init, LimitKept, OneGate, Semaphore!Init
<1>2. /\ IInv /\ IInv' /\ OneGate /\ LimitKept /\ LimitKept' /\ [Next]_vars
      => OneGate' /\ [Semaphore!Next]_(Semaphore!semVars)
    BY SemStep
<1> QED
    BY <1>1, <1>2, Inductive, PTL DEF Spec, Semaphore!Spec

\* Nobody has edited the profile or tried to delete it, and its gates are still one.
StillOne == ~edited => LimitKept /\ OneGate

LEMMA StillOneStep ==
    ASSUME IInv, IInv', StillOne, [Next /\ EditNoted]_<<vars, edited>>
    PROVE  /\ StillOne'
           /\ [edited' \/ Semaphore!Next \/ UNCHANGED Semaphore!semVars]_vars
<1>1. CASE edited'
    BY <1>1 DEF StillOne
<1>2. CASE ~edited'
    <2>1. [Next]_vars
        OBVIOUS
    <2>2. ~edited /\ limit' = limit /\ (~deleting' \/ deleting' = deleting)
        <3>1. CASE EditNoted
            BY <1>2, <3>1, Zenon DEF EditNoted
        <3>2. CASE UNCHANGED <<vars, edited>>
            <4>1. edited' = edited /\ vars' = vars
                BY <3>2
            <4>2. limit' = limit /\ deleting' = deleting
                BY <4>1 DEF vars
            <4> QED
                BY <1>2, <4>1, <4>2, Zenon
        <3> QED
            BY <3>1, <3>2
    <2>3. LimitKept /\ LimitKept' /\ OneGate
        <3>1. LimitKept /\ OneGate
            BY <2>2 DEF StillOne
        <3>2. limit' = MaxLimit
            BY <2>2, <3>1 DEF LimitKept
        <3>3. ~deleting'
            BY <2>2, <3>1, Zenon DEF LimitKept
        <3> QED
            BY <3>1, <3>2, <3>3, Zenon DEF LimitKept
    <2>4. OneGate' /\ [Semaphore!Next]_(Semaphore!semVars)
        BY <2>1, <2>3, SemStep
    <2> QED
        BY <2>3, <2>4 DEF StillOne
<1> QED
    BY <1>1, <1>2

\* Until somebody edits the profile or tries to delete it, every step of its gates is one of the semaphore, or
\* changes nothing of it: who waited longest gets the permit that is given back.
THEOREM GateIsSemaphoreUntilEdited == EditSpec => SemaphoreUntilEdited
<1>1. EditSpec => Spec
    <2>1. [Next /\ EditNoted]_<<vars, edited>> => [Next]_vars
        OBVIOUS
    <2> QED
        BY <2>1, PTL DEF EditSpec, Spec
<1>2. Init /\ NoEdits => StillOne
    BY DEF Init, NoEdits, StillOne, LimitKept, OneGate
<1>3. /\ IInv /\ IInv' /\ StillOne /\ [Next /\ EditNoted]_<<vars, edited>>
      => /\ StillOne'
         /\ [edited' \/ Semaphore!Next \/ UNCHANGED Semaphore!semVars]_vars
    BY StillOneStep
<1> QED
    BY <1>1, <1>2, <1>3, Inductive, PTL DEF EditSpec, SemaphoreUntilEdited

-----------------------------------------------------------------------------
(* The recovery of a transform profile *)

\* A function is in the document that a binding names, or was deleted.
Home(at) == trHome[at.callable] \in {Gone, at.document}

\* Calls are numbered as they are made, and validations after the call that made them.
TrNumbers ==
    /\ \A c \in trCalls : c.number \in 1 .. trMade /\ c.validation <= trMade
    /\ \A c, d \in trCalls : c.number = d.number => c = d
    /\ trProfile # NoProfile => trProfile.validation <= trMade

\* The functions that calls have found.
AtKnown(c) ==
    /\ c.kind = "save" => c.at \in Bindings /\ Home(c.at)
    /\ (c.kind = "validate" /\ c.step # "invalidate") => c.at \in Bindings
    /\ (c.kind = "confirm" /\ c.step # "invalidate") => c.at \in Bindings
    /\ (c.kind = "confirm" /\ c.step = "store") => Home(c.at)
    /\ (c.kind = "capture" /\ c.step = "retain") => c.at.document \in Documents
    /\ (c.kind = "capture" /\ c.step = "store") => c.at \in Bindings

\* Who confirms the validation that is stored confirms the binding that was replayed; the
\* validation of a replay under way is nobody's yet.
Matches(c) ==
    (c.kind = "confirm" /\ c.step # "invalidate" /\ trProfile # NoProfile
        /\ trProfile.state = "confirmation-required" /\ trProfile.validation = c.validation)
            => trProfile.pending = c.at
NotYetUsed(c) ==
    c.kind = "validate" =>
        /\ trProfile # NoProfile => trProfile.validation # c.number
        /\ \A d \in trCalls : d.kind = "confirm" => d.validation # c.number
CallsKnow == \A c \in trCalls : AtKnown(c) /\ Matches(c) /\ NotYetUsed(c)

ProfileKnown ==
    trProfile # NoProfile =>
        /\ trProfile.enabled =>
              trProfile.at \in Bindings /\ Home(trProfile.at) /\ trProfile.state \in {"ready", "failed"}
        /\ trProfile.state = "confirmation-required" => trProfile.validation # 0
        /\ ~trMixed =>
              /\ trProfile.enabled => trProfile.at.callable \in trProven
              /\ trProfile.state \in {"validation-required", "confirmation-required"}
                    => trProfile.pending # NoBinding
              /\ trProfile.state = "confirmation-required" => trProfile.pending.callable \in trProven

\* One navigation is handled at a time.
TrShown ==
    /\ trCommits = <<>> \/ trCommits = <<trDocument>>
    /\ EnabledIsShown
    /\ trDebug.document \in Documents

TrInv == TrTypeOK /\ TrNumbers /\ CallsKnow /\ ProfileKnown /\ TrShown

\* What a step may do to the profile without a replay and without enabling it: nothing,
\* or it is deleted, or the recovery begins anew.
ProfileMoves ==
    \/ trProfile' = trProfile
    \/ trProfile' = NoProfile
    \/ /\ trProfile'.state # "confirmation-required"
       /\ trProfile'.validation = 0 \/ (trProfile # NoProfile /\ trProfile'.validation = trProfile.validation)
NotEnabled ==
    (trProfile' # NoProfile /\ trProfile'.enabled) =>
        trProfile # NoProfile /\ trProfile.enabled /\ trProfile'.at = trProfile.at
ProfileSafe ==
    /\ trProfile' \in Profiles \cup {NoProfile}
    /\ trProven' \subseteq Functions /\ trMixed' \in BOOLEAN
    /\ ProfileMoves /\ NotEnabled /\ ProfileKnown'
HomesKept ==
    /\ trHome' \in [Functions -> 0 .. Gone]
    /\ \A at \in Bindings : Home(at) => Home(at)'

-----------------------------------------------------------------------------
(* Records *)

LEMMA ProfileParts ==
    ASSUME NEW p \in Profiles
    PROVE  /\ p.enabled \in BOOLEAN /\ p.at \in Bindings \cup {NoBinding} /\ p.state \in States
           /\ p.desired \in BOOLEAN /\ p.pending \in Bindings \cup {NoBinding} /\ p.validation \in Nat
           /\ p # NoProfile
BY TransformRecoveryNone DEF Profiles

LEMMA CallParts ==
    ASSUME NEW c \in Calling
    PROVE  /\ c.kind \in CallKinds /\ c.number \in Nat /\ c.step \in CallSteps
           /\ c.at \in [document : 0 .. MaxDocument, callable : 0 .. MaxCallables]
           /\ c.enabled \in BOOLEAN /\ c.validation \in Nat
BY DEF Calling

LEMMA BindingParts ==
    ASSUME NEW at \in Bindings \cup {NoBinding}
    PROVE  /\ at \in [document : 0 .. MaxDocument, callable : 0 .. MaxCallables]
           /\ at # NoBinding => at \in Bindings /\ at.document \in Documents /\ at.callable \in Functions
           /\ at \in Bindings => at # NoBinding /\ at.document \in Documents /\ at.callable \in Functions
BY TransformRecoveryConstants DEF Bindings, NoBinding, Documents, Functions

\* A call that goes on to another step, and one that has found a document or a function.
Stepped(c, step) == [c EXCEPT !.step = step]

LEMMA StepSet ==
    ASSUME NEW c \in Calling, NEW step \in CallSteps
    PROVE  /\ Stepped(c, step) \in Calling /\ Stepped(c, step).kind = c.kind
           /\ Stepped(c, step).number = c.number /\ Stepped(c, step).validation = c.validation
           /\ Stepped(c, step).at = c.at /\ Stepped(c, step).step = step
BY DEF Calling, Stepped

Found(c, at, step) == [c EXCEPT !.at = at, !.step = step]
Looked(c, document, step) == [c EXCEPT !.at.document = document, !.step = step]

LEMMA FoundSet ==
    ASSUME NEW c \in Calling, NEW step \in CallSteps,
           NEW at \in [document : 0 .. MaxDocument, callable : 0 .. MaxCallables]
    PROVE  /\ Found(c, at, step) \in Calling /\ Found(c, at, step).kind = c.kind
           /\ Found(c, at, step).number = c.number /\ Found(c, at, step).validation = c.validation
           /\ Found(c, at, step).at = at /\ Found(c, at, step).step = step
BY DEF Calling, Found

LEMMA DocumentSet ==
    ASSUME NEW c \in Calling, NEW step \in CallSteps, NEW document \in Documents
    PROVE  /\ Looked(c, document, step) \in Calling /\ Looked(c, document, step).kind = c.kind
           /\ Looked(c, document, step).number = c.number
           /\ Looked(c, document, step).validation = c.validation
           /\ Looked(c, document, step).step = step
           /\ Looked(c, document, step).at.document = document
           /\ Looked(c, document, step).at.callable = c.at.callable
<1> DEFINE at == [c.at EXCEPT !.document = document]
<1>1. c.at \in [document : 0 .. MaxDocument, callable : 0 .. MaxCallables] /\ document \in 0 .. MaxDocument
  BY CallParts, TransformRecoveryConstants DEF Documents
<1>2. /\ at \in [document : 0 .. MaxDocument, callable : 0 .. MaxCallables]
      /\ at.document = document /\ at.callable = c.at.callable
  BY <1>1
<1>3. Looked(c, document, step) = Found(c, at, step)
  BY Zenon DEF Looked, Found
<1> HIDE DEF at
<1>4. QED
  BY <1>2, <1>3, FoundSet

\* What the operations make of a profile.
LEMMA UseEnds ==
    ASSUME NEW p \in Profiles
    PROVE  \A q \in {Stale(p), Capturing(p), CaptureFailed(p), GivenUp(p)} :
              /\ q \in Profiles /\ q.enabled = FALSE /\ q.validation = 0
              /\ q.state \in {"stale", "capturing", "failed"}
<1>1. Stale(p) \in Profiles /\ Stale(p).enabled = FALSE /\ Stale(p).validation = 0 /\ Stale(p).state = "stale"
  BY DEF Stale, Profiles, States
<1>2. /\ Capturing(p) \in Profiles /\ Capturing(p).enabled = FALSE /\ Capturing(p).validation = 0
      /\ Capturing(p).state = "capturing"
  BY DEF Capturing, Profiles, States
<1>3. /\ CaptureFailed(p) \in Profiles /\ CaptureFailed(p).enabled = FALSE
      /\ CaptureFailed(p).validation = 0 /\ CaptureFailed(p).state = "failed"
  BY DEF CaptureFailed, Profiles, States
<1>4. /\ GivenUp(p) \in Profiles /\ GivenUp(p).enabled = FALSE /\ GivenUp(p).validation = 0
      /\ GivenUp(p).state = "stale"
  BY DEF GivenUp, Profiles, States
<1>5. QED
  BY <1>1, <1>2, <1>3, <1>4

LEMMA CapturedIs ==
    ASSUME NEW p \in Profiles, NEW at \in Bindings
    PROVE  /\ Captured(p, at) \in Profiles /\ Captured(p, at).enabled = FALSE
           /\ Captured(p, at).validation = 0 /\ Captured(p, at).state = "validation-required"
           /\ Captured(p, at).pending = at
BY DEF Captured, Profiles, States

LEMMA ValidatedIs ==
    ASSUME NEW p \in Profiles, NEW id \in Nat
    PROVE  /\ Validated(p, id) \in Profiles /\ Validated(p, id).enabled = FALSE
           /\ Validated(p, id).validation = id /\ Validated(p, id).state = "confirmation-required"
           /\ Validated(p, id).pending = p.pending
           /\ NotValidated(p) \in Profiles /\ NotValidated(p).enabled = FALSE
           /\ NotValidated(p).validation = 0 /\ NotValidated(p).state = "validation-required"
           /\ NotValidated(p).pending = p.pending
BY DEF Validated, NotValidated, Profiles, States

LEMMA BoundIs ==
    ASSUME NEW at \in Bindings, NEW enabled \in BOOLEAN
    PROVE  /\ Bound(at, enabled) \in Profiles /\ Bound(at, enabled).enabled = enabled
           /\ Bound(at, enabled).at = at /\ Bound(at, enabled).state = "ready"
           /\ Bound(at, enabled).validation = 0
BY DEF Bound, Profiles, States

LEMMA FailedIs ==
    ASSUME NEW p \in Profiles, NEW q, q = [p EXCEPT !.state = "failed"]
    PROVE  /\ q \in Profiles /\ q.enabled = p.enabled /\ q.at = p.at /\ q.state = "failed"
           /\ q.validation = p.validation
BY DEF Profiles, States

-----------------------------------------------------------------------------
(* What a step changes *)

\* The calls that stay know what they knew.
LEMMA FallsAway ==
    ASSUME TrInv, trCalls' \subseteq trCalls, trMade' = trMade, ProfileMoves, HomesKept
    PROVE  trCalls' \subseteq Calling /\ TrNumbers' /\ CallsKnow'
<1>1. trCalls \subseteq Calling /\ trMade \in Nat
  BY DEF TrInv, TrTypeOK
<1>2. TrNumbers'
  BY <1>1 DEF TrInv, TrNumbers, ProfileMoves
<1>3. ASSUME NEW c \in trCalls' PROVE AtKnown(c)'
  BY <1>3 DEF TrInv, CallsKnow, AtKnown, HomesKept
<1>4. ASSUME NEW c \in trCalls' PROVE Matches(c)'
  BY <1>4 DEF TrInv, CallsKnow, Matches, ProfileMoves
<1>5. ASSUME NEW c \in trCalls' PROVE NotYetUsed(c)'
  <2>1. c \in trCalls /\ NotYetUsed(c) /\ c.number \in 1 .. trMade
    BY <1>5 DEF TrInv, CallsKnow, TrNumbers
  <2>2. QED
    BY <1>1, <2>1 DEF NotYetUsed, ProfileMoves
<1>6. QED
  BY <1>1, <1>2, <1>3, <1>4, <1>5 DEF CallsKnow

\* One call goes on.
LEMMA Advances ==
    ASSUME TrInv, NEW c \in trCalls, NEW next \in Calling,
           next.number = c.number, next.kind = c.kind, next.validation = c.validation,
           trCalls' = (trCalls \ {c}) \cup {next}, trMade' = trMade, ProfileMoves, HomesKept,
           AtKnown(next)',
           (next.kind = "confirm" /\ next.step # "invalidate") => next.at = c.at /\ c.step # "invalidate"
    PROVE  trCalls' \subseteq Calling /\ TrNumbers' /\ CallsKnow'
<1>1. trCalls \subseteq Calling /\ trMade \in Nat /\ c \in Calling
  BY DEF TrInv, TrTypeOK
<1>2. TrNumbers'
  <2>1. trProfile' # NoProfile => trProfile'.validation <= trMade'
    BY <1>1 DEF TrInv, TrNumbers, ProfileMoves
  <2>2. \A d \in trCalls' : d.number \in 1 .. trMade' /\ d.validation <= trMade'
    BY <1>1 DEF TrInv, TrNumbers
  <2>3. \A d, e \in trCalls' : d.number = e.number => d = e
    BY <1>1 DEF TrInv, TrNumbers
  <2>4. QED
    BY <2>1, <2>2, <2>3 DEF TrNumbers
<1>3. ASSUME NEW d \in trCalls' PROVE AtKnown(d)'
  <2>1. CASE d \in trCalls
    BY <2>1 DEF TrInv, CallsKnow, AtKnown, HomesKept
  <2>2. QED
    BY <1>3, <2>1
<1>4. ASSUME NEW d \in trCalls' PROVE Matches(d)'
  <2>1. CASE d \in trCalls
    BY <2>1 DEF TrInv, CallsKnow, Matches, ProfileMoves
  <2>2. CASE d = next
    <3>1. Matches(c)
      BY DEF TrInv, CallsKnow
    <3>2. QED
      BY <2>2, <3>1 DEF Matches, ProfileMoves
  <2>3. QED
    BY <1>4, <2>1, <2>2
<1>5. ASSUME NEW d \in trCalls' PROVE NotYetUsed(d)'
  <2>1. PICK e \in trCalls : e.kind = d.kind /\ e.number = d.number
    BY <1>5
  <2>2. NotYetUsed(e) /\ e.number \in 1 .. trMade
    BY DEF TrInv, CallsKnow, TrNumbers
  <2>3. ASSUME NEW f \in trCalls', f.kind = "confirm", d.kind = "validate" PROVE f.validation # d.number
    <3>1. PICK g \in trCalls : g.kind = "confirm" /\ g.validation = f.validation
      BY <2>3
    <3>2. QED
      BY <2>1, <2>2, <2>3, <3>1 DEF NotYetUsed
  <2>4. ASSUME d.kind = "validate", trProfile' # NoProfile PROVE trProfile'.validation # d.number
    BY <1>1, <2>1, <2>2, <2>4 DEF NotYetUsed, ProfileMoves
  <2>5. QED
    BY <2>3, <2>4 DEF NotYetUsed
<1>6. QED
  BY <1>1, <1>2, <1>3, <1>4, <1>5 DEF CallsKnow

\* The profile stays.
LEMMA StaysSafe ==
    ASSUME TrInv, UNCHANGED <<trProfile, trProven, trMixed>>, HomesKept
    PROVE  ProfileSafe
BY DEF TrInv, TrTypeOK, ProfileSafe, ProfileMoves, NotEnabled, ProfileKnown, HomesKept

\* A change that ends what the profile was used for, or leaves an enabled one enabled.
Disables(p) ==
    /\ p \in Profiles /\ p.enabled = FALSE /\ p.state # "confirmation-required"
    /\ p.state = "validation-required" => p.pending # NoBinding
    /\ p.validation = 0 \/ (trProfile # NoProfile /\ p.validation = trProfile.validation)
Marks(p) == trProfile # NoProfile /\ p = [trProfile EXCEPT !.state = "failed"]

LEMMA StoredSafe ==
    ASSUME TrInv, HomesKept, NEW p, p = NoProfile \/ p = trProfile \/ Disables(p) \/ Marks(p), Stored(p)
    PROVE  ProfileSafe /\ trEvents' = trEvents /\ trLate' = trLate
<1> USE DEF Stored
<1>1. trProfile \in Profiles \cup {NoProfile} /\ trProven \subseteq Functions /\ trMixed \in BOOLEAN
  BY DEF TrInv, TrTypeOK
<1>2. CASE p = NoProfile
  BY <1>1, <1>2 DEF ProfileSafe, ProfileMoves, NotEnabled, ProfileKnown
<1>3. CASE p = trProfile
  BY <1>1, <1>3, StaysSafe
<1>4. CASE Disables(p)
  BY <1>1, <1>4, TransformRecoveryNone DEF ProfileSafe, ProfileMoves, NotEnabled, ProfileKnown, Disables
<1>5. CASE Marks(p)
  <2>1. /\ p \in Profiles /\ p.enabled = trProfile.enabled /\ p.at = trProfile.at /\ p.state = "failed"
        /\ p.validation = trProfile.validation /\ p # NoProfile /\ trProfile # NoProfile
        /\ trProfile.enabled \in BOOLEAN
    BY <1>1, <1>5, FailedIs, ProfileParts DEF Marks
  <2>2. trProven' = IF p = trProfile \/ p.enabled THEN trProven ELSE {}
    BY <2>1
  <2>3. ProfileKnown'
    BY <1>1, <2>1, <2>2 DEF ProfileKnown, TrInv, HomesKept
  <2>4. QED
    BY <1>1, <2>1, <2>2, <2>3 DEF ProfileSafe, ProfileMoves, NotEnabled
<1>6. QED
  BY <1>2, <1>3, <1>4, <1>5

\* Nothing but the calls and the profile changes.
LEMMA Combined ==
    ASSUME TrInv, ProfileSafe, HomesKept, trCalls' \subseteq Calling, TrNumbers', CallsKnow',
           UNCHANGED <<trDocument, trCommits, trLate>>,
           trDebug' \in [state : {"none", "armed", "paused"}, document : 0 .. MaxDocument],
           trDebug'.document \in Documents,
           trMade' \in 0 .. MaxTrCalls, trEvents' \in 0 .. MaxTrEvents
    PROVE  TrInv'
<1>1. TrTypeOK'
  BY DEF TrInv, TrTypeOK, ProfileSafe, HomesKept
<1>2. ProfileKnown'
  BY DEF ProfileSafe
<1>3. TrShown'
  BY DEF TrInv, TrShown, EnabledIsShown, ProfileSafe, NotEnabled
<1>4. QED
  BY <1>1, <1>2, <1>3 DEF TrInv

-----------------------------------------------------------------------------
(* The steps of a call *)

\* A call that only looks: the profile stays.
LEMMA LooksKeep ==
    ASSUME TrInv, NEW c \in trCalls, NEW next \in Calling,
           next.number = c.number, next.kind = c.kind, next.validation = c.validation,
           Becomes(c, next) \/ Over(c), Kept, Untouched,
           AtKnown(next),
           (next.kind = "confirm" /\ next.step # "invalidate") => next.at = c.at /\ c.step # "invalidate"
    PROVE  TrInv'
<1>1. HomesKept /\ AtKnown(next)'
  BY DEF Untouched, HomesKept, Home, AtKnown, TrInv, TrTypeOK
<1>2. ProfileSafe
  BY <1>1, StaysSafe DEF Kept, History
<1>3. trCalls' \subseteq Calling /\ TrNumbers' /\ CallsKnow'
  <2>1. ProfileMoves /\ trMade' = trMade
    BY <1>2 DEF ProfileSafe, Untouched
  <2>2. CASE Becomes(c, next)
    BY <1>1, <2>1, <2>2, Advances DEF Becomes
  <2>3. CASE Over(c)
    BY <1>1, <2>1, <2>3, FallsAway DEF Over
  <2>4. QED
    BY <2>2, <2>3
<1>4. QED
  BY <1>1, <1>2, <1>3, Combined DEF Untouched, Kept, History, TrInv, TrTypeOK, TrShown

\* A call that stores a change, or whose write is rejected.
LEMMA StoresKeep ==
    ASSUME TrInv, NEW c \in trCalls, NEW next \in Calling,
           next.number = c.number, next.kind = c.kind, next.validation = c.validation,
           Becomes(c, next) \/ Over(c), Untouched,
           NEW p, p = NoProfile \/ p = trProfile \/ Disables(p) \/ Marks(p),
           Stored(p) \/ Rejected,
           AtKnown(next),
           (next.kind = "confirm" /\ next.step # "invalidate") => next.at = c.at /\ c.step # "invalidate"
    PROVE  TrInv'
<1>1. HomesKept /\ AtKnown(next)'
  BY DEF Untouched, HomesKept, Home, AtKnown, TrInv, TrTypeOK
<1>2. ProfileSafe /\ trLate' = trLate /\ trEvents' \in 0 .. MaxTrEvents
  <2>1. CASE Stored(p)
    BY <1>1, <2>1, StoredSafe DEF TrInv, TrTypeOK
  <2>2. CASE Rejected
    <3>1. trEvents' \in 0 .. MaxTrEvents
      BY <2>2, TransformRecoveryConstants DEF Rejected, Fault, TrInv, TrTypeOK
    <3>2. QED
      BY <1>1, <2>2, <3>1, StaysSafe DEF Rejected, History
  <2>3. QED
    BY <2>1, <2>2
<1>3. trCalls' \subseteq Calling /\ TrNumbers' /\ CallsKnow'
  <2>1. ProfileMoves /\ trMade' = trMade
    BY <1>2 DEF ProfileSafe, Untouched
  <2>2. CASE Becomes(c, next)
    BY <1>1, <2>1, <2>2, Advances DEF Becomes
  <2>3. CASE Over(c)
    BY <1>1, <2>1, <2>3, FallsAway DEF Over
  <2>4. QED
    BY <2>2, <2>3
<1>4. QED
  BY <1>1, <1>2, <1>3, Combined DEF Untouched, TrInv, TrTypeOK, TrShown

\* A call that changes the page or the debugger.
LEMMA TouchesKeep ==
    ASSUME TrInv, NEW c \in trCalls, NEW next \in Calling,
           next.number = c.number, next.kind = c.kind, next.validation = c.validation,
           Becomes(c, next) \/ Over(c), History,
           UNCHANGED <<trProfile, trEvents, trDocument, trCommits, trMade>>,
           HomesKept,
           trDebug' \in [state : {"none", "armed", "paused"}, document : 0 .. MaxDocument],
           trDebug'.document \in Documents,
           AtKnown(next)', next.kind # "confirm"
    PROVE  TrInv'
<1>1. ProfileSafe
  BY StaysSafe DEF History
<1>2. trCalls' \subseteq Calling /\ TrNumbers' /\ CallsKnow'
  <2>1. ProfileMoves
    BY <1>1 DEF ProfileSafe
  <2>2. CASE Becomes(c, next)
    BY <2>1, <2>2, Advances DEF Becomes
  <2>3. CASE Over(c)
    BY <2>1, <2>3, FallsAway DEF Over
  <2>4. QED
    BY <2>2, <2>3
<1>3. QED
  BY <1>1, <1>2, Combined DEF History, TrInv, TrTypeOK, TrShown

-----------------------------------------------------------------------------
(* One lemma per step of a call *)

LEMMA GoesIs == ASSUME NEW c, NEW step PROVE Goes(c, step) <=> Becomes(c, Stepped(c, step))
BY Zenon DEF Goes, Stepped

LEMMA CallFacts ==
    ASSUME TrInv, NEW c \in trCalls
    PROVE  c \in Calling /\ AtKnown(c) /\ Matches(c) /\ NotYetUsed(c) /\ c.number \in 1 .. trMade
BY DEF TrInv, TrTypeOK, TrNumbers, CallsKnow

LEMMA WorldFacts ==
    ASSUME TrInv
    PROVE  /\ trProfile \in Profiles \cup {NoProfile} /\ trDocument \in Documents /\ trMade \in Nat
           /\ trHome \in [Functions -> 0 .. Gone] /\ trEvents \in 0 .. MaxTrEvents /\ trMade \in 0 .. MaxTrCalls
           /\ trDebug \in [state : {"none", "armed", "paused"}, document : 0 .. MaxDocument]
           /\ trDebug.document \in Documents /\ trProven \subseteq Functions /\ trMixed \in BOOLEAN
BY DEF TrInv, TrTypeOK, TrShown

LEMMA SaveLooksKeeps == ASSUME TrInv, NEW c \in trCalls, SaveLooks(c) PROVE TrInv'
<1> DEFINE next == Stepped(c, "store")
<1>1. next \in Calling /\ next.number = c.number /\ next.kind = c.kind /\ next.validation = c.validation
      /\ next.at = c.at
  BY CallFacts, StepSet DEF CallSteps
<1>2. c.kind = "save" /\ (Becomes(c, next) \/ Over(c)) /\ Kept /\ Untouched
  BY GoesIs DEF SaveLooks, At
<1> HIDE DEF next
<1>3. AtKnown(next)
  BY <1>1, <1>2, CallFacts DEF AtKnown
<1>4. QED
  BY <1>1, <1>2, <1>3, LooksKeep

\* The profile is bound to a function that is where the binding says.
LEMMA BindsKeeps ==
    ASSUME TrInv, NEW c \in trCalls, Over(c), c.at \in Bindings, Home(c.at), NEW enabled \in BOOLEAN,
           trProfile' = Bound(c.at, enabled), trLate' = (trLate \/ TooLate(c.at)),
           trEvents' = trEvents, Untouched, trProven' \subseteq Functions, trMixed' = trMixed,
           ~trMixed => c.at.callable \in trProven'
    PROVE  TrInv'
<1>1. /\ trProfile' \in Profiles /\ trProfile'.enabled = enabled /\ trProfile'.at = c.at
      /\ trProfile'.state = "ready" /\ trProfile'.validation = 0
  BY BoundIs
<1>2. HomesKept
  BY WorldFacts DEF Untouched, HomesKept, Home
<1>3. trCalls' \subseteq Calling /\ TrNumbers' /\ CallsKnow'
  BY <1>1, <1>2, FallsAway DEF ProfileMoves, Untouched, Over
<1>4. ProfileKnown'
  BY <1>1, <1>2 DEF ProfileKnown, HomesKept
<1>5. TrShown'
  BY <1>1 DEF TrInv, TrShown, EnabledIsShown, TooLate, Untouched
<1>6. TrTypeOK'
  BY <1>1, <1>2, <1>3 DEF TrInv, TrTypeOK, Untouched, TooLate, HomesKept
<1>7. QED
  BY <1>3, <1>4, <1>5, <1>6 DEF TrInv

LEMMA KeepsOver == ASSUME TrInv, NEW c \in trCalls, Over(c), Kept, Untouched PROVE TrInv'
BY CallFacts, LooksKeep DEF Matches

LEMMA RejectedOver == ASSUME TrInv, NEW c \in trCalls, Over(c), Rejected, Untouched PROVE TrInv'
BY CallFacts, StoresKeep

LEMMA SaveStoresKeeps == ASSUME TrInv, NEW c \in trCalls, SaveStores(c) PROVE TrInv'
<1>1. At(c, "save", "store") /\ Over(c) /\ Untouched
  BY DEF SaveStores
<1>2. c.at \in Bindings /\ Home(c.at) /\ c.at.callable \in Functions /\ c.enabled \in BOOLEAN
  BY <1>1, CallFacts, CallParts, BindingParts DEF At, AtKnown
<1>3. CASE Kept
  BY <1>1, <1>3, KeepsOver
<1>4. CASE Rejected
  BY <1>1, <1>4, RejectedOver
<1>5. CASE /\ trProfile' = Bound(c.at, c.enabled) /\ trProven' = {c.at.callable}
           /\ trLate' = (trLate \/ TooLate(c.at)) /\ UNCHANGED <<trEvents, trMixed>>
  BY <1>1, <1>2, <1>5, BindsKeeps
<1>6. QED
  BY <1>3, <1>4, <1>5 DEF SaveStores

LEMMA StartLooksKeeps == ASSUME TrInv, NEW c \in trCalls, StartLooks(c) PROVE TrInv'
<1> DEFINE at == [document |-> trDocument, callable |-> 0]
           step == IF c.at.document = trDocument THEN "check" ELSE "invalidate"
           next == Found(c, at, step)
<1>1. at \in [document : 0 .. MaxDocument, callable : 0 .. MaxCallables] /\ step \in CallSteps
  BY WorldFacts, TransformRecoveryConstants DEF Documents, CallSteps
<1>2. next \in Calling /\ next.number = c.number /\ next.kind = c.kind /\ next.validation = c.validation
  BY <1>1, CallFacts, FoundSet
<1>3. c.kind = "start" /\ Becomes(c, next) /\ Kept /\ Untouched
  BY Zenon DEF StartLooks, At, Found
<1> HIDE DEF next
<1>4. AtKnown(next)
  BY <1>2, <1>3 DEF AtKnown
<1>5. QED
  BY <1>2, <1>3, <1>4, LooksKeep

\* A profile that a navigation makes stale, or one that is as it was.
LEMMA StaleInIs ==
    ASSUME TrInv, NEW d
    PROVE  StaleIn(d) = trProfile \/ Disables(StaleIn(d))
BY WorldFacts, UseEnds DEF StaleIn, Disables

LEMMA StartInvalidatesKeeps == ASSUME TrInv, NEW c \in trCalls, StartInvalidates(c) PROVE TrInv'
<1> DEFINE next == Stepped(c, "read")
           p == StaleIn(c.at.document)
<1>1. next \in Calling /\ next.number = c.number /\ next.kind = c.kind /\ next.validation = c.validation
      /\ next.at = c.at
  BY CallFacts, StepSet DEF CallSteps
<1>2. c.kind = "start" /\ (Becomes(c, next) \/ Over(c)) /\ (Stored(p) \/ Rejected) /\ Untouched
  BY GoesIs DEF StartInvalidates, At
<1>3. p = trProfile \/ Disables(p)
  BY StaleInIs
<1> HIDE DEF next, p
<1>4. AtKnown(next)
  BY <1>1, <1>2 DEF AtKnown
<1>5. QED
  BY <1>1, <1>2, <1>3, <1>4, StoresKeep

LEMMA StartReadsKeeps == ASSUME TrInv, NEW c \in trCalls, StartReads(c) PROVE TrInv'
<1> DEFINE next == [c EXCEPT !.enabled = NotNeeded(trProfile), !.step = "check"]
<1>1. c.kind = "start" /\ Kept /\ Untouched
      /\ IF trProfile = NoProfile THEN Over(c) ELSE Becomes(c, next)
  BY DEF StartReads, At
<1>2. CASE trProfile = NoProfile
  BY <1>1, <1>2, KeepsOver
<1>3. CASE trProfile # NoProfile
  <2>1. NotNeeded(trProfile) \in BOOLEAN
    BY <1>3, WorldFacts, ProfileParts DEF NotNeeded
  <2>2. next \in Calling /\ next.number = c.number /\ next.kind = c.kind /\ next.validation = c.validation
    BY <2>1, CallFacts DEF Calling, CallSteps
  <2> HIDE DEF next
  <2>3. AtKnown(next)
    BY <1>1, <2>2 DEF AtKnown
  <2>4. QED
    BY <1>1, <1>3, <2>2, <2>3, LooksKeep
<1>4. QED
  BY <1>2, <1>3

LEMMA StartStoresKeeps == ASSUME TrInv, NEW c \in trCalls, StartStores(c) PROVE TrInv'
<1> DEFINE next == Stepped(c, "arm")
           p == Capturing(trProfile)
<1>1. next \in Calling /\ next.number = c.number /\ next.kind = c.kind /\ next.validation = c.validation
      /\ next.at = c.at
  BY CallFacts, StepSet DEF CallSteps
<1>2. /\ c.kind = "start" /\ Untouched
      /\ \/ Over(c) /\ Kept
         \/ trProfile # NoProfile /\ (Becomes(c, next) \/ Over(c)) /\ (Stored(p) \/ Rejected)
  BY GoesIs DEF StartStores, At
<1>3. CASE Over(c) /\ Kept
  BY <1>2, <1>3, KeepsOver
<1>4. CASE trProfile # NoProfile /\ (Becomes(c, next) \/ Over(c)) /\ (Stored(p) \/ Rejected)
  <2>1. Disables(p)
    BY <1>4, WorldFacts, UseEnds DEF Disables
  <2> HIDE DEF next, p
  <2>2. AtKnown(next)
    BY <1>1, <1>2 DEF AtKnown
  <2>3. QED
    BY <1>1, <1>2, <1>4, <2>1, <2>2, StoresKeep
<1>5. QED
  BY <1>2, <1>3, <1>4

LEMMA StartArmsKeeps == ASSUME TrInv, NEW c \in trCalls, StartArms(c) PROVE TrInv'
<1> DEFINE next == Stepped(c, "failed")
<1>1. next \in Calling /\ next.number = c.number /\ next.kind = c.kind /\ next.validation = c.validation
  BY CallFacts, StepSet DEF CallSteps
<1>2. /\ c.kind = "start" /\ (Becomes(c, next) \/ Over(c)) /\ History
      /\ UNCHANGED <<trProfile, trEvents, trDocument, trHome, trCommits, trMade>>
  BY GoesIs DEF StartArms, At
<1>3. HomesKept
  BY <1>2, WorldFacts DEF HomesKept, Home
<1>4. trDebug' \in [state : {"none", "armed", "paused"}, document : 0 .. MaxDocument]
      /\ trDebug'.document \in Documents
  BY WorldFacts, TransformRecoveryConstants DEF StartArms, Documents
<1> HIDE DEF next
<1>5. AtKnown(next)'
  BY <1>1, <1>2 DEF AtKnown
<1>6. QED
  BY <1>1, <1>2, <1>3, <1>4, <1>5, TouchesKeep

LEMMA StartFailsKeeps == ASSUME TrInv, NEW c \in trCalls, StartFails(c) PROVE TrInv'
<1> DEFINE p == IF trProfile = NoProfile THEN NoProfile ELSE [trProfile EXCEPT !.state = "failed"]
<1>1. Over(c) /\ (Stored(p) \/ Rejected) /\ Untouched
  BY DEF StartFails
<1>2. p = NoProfile \/ Marks(p)
  BY DEF Marks
<1> HIDE DEF p
<1>3. QED
  BY <1>1, <1>2, CallFacts, StoresKeep

LEMMA CaptureLooksKeeps == ASSUME TrInv, NEW c \in trCalls, CaptureLooks(c) PROVE TrInv'
<1> DEFINE next == Looked(c, trDebug.document, "retain")
<1>1. next \in Calling /\ next.number = c.number /\ next.kind = c.kind /\ next.validation = c.validation
      /\ next.step = "retain" /\ next.at.document \in Documents
  <2>1. c \in Calling /\ trDebug.document \in Documents /\ "retain" \in CallSteps
    BY CallFacts, WorldFacts DEF CallSteps
  <2>2. QED
    BY <2>1, DocumentSet
<1>2. c.kind = "capture" /\ (Becomes(c, next) \/ Over(c)) /\ Kept /\ Untouched
  BY Zenon DEF CaptureLooks, At, Looked
<1> HIDE DEF next
<1>3. AtKnown(next)
  BY <1>1, <1>2 DEF AtKnown
<1>4. QED
  BY <1>1, <1>2, <1>3, LooksKeep

\* A page that goes on keeps the document of its status.
LEMMA ResumedIs ==
    ASSUME TrInv
    PROVE  /\ Resumed \in [state : {"none", "armed", "paused"}, document : 0 .. MaxDocument]
           /\ Resumed.document = trDebug.document
           /\ \A state \in {"none", "armed", "paused"} :
                 /\ [trDebug EXCEPT !.state = state]
                       \in [state : {"none", "armed", "paused"}, document : 0 .. MaxDocument]
                 /\ [trDebug EXCEPT !.state = state].document = trDebug.document
BY WorldFacts DEF Resumed

LEMMA CaptureRetainsKeeps == ASSUME TrInv, NEW c \in trCalls, CaptureRetains(c) PROVE TrInv'
<1>1. /\ c.kind = "capture" /\ c.step = "retain" /\ History
      /\ UNCHANGED <<trProfile, trEvents, trDocument, trCommits, trMade>>
  BY DEF CaptureRetains, At
<1>2. CASE Goes(c, "failed") /\ trDebug' = Resumed /\ UNCHANGED trHome
  <2> DEFINE next == Stepped(c, "failed")
  <2>1. next \in Calling /\ next.number = c.number /\ next.kind = c.kind /\ next.validation = c.validation
        /\ next.step = "failed"
    BY CallFacts, StepSet DEF CallSteps
  <2>2. Becomes(c, next)
    BY <1>2, GoesIs
  <2> HIDE DEF next
  <2>3. HomesKept
    BY <1>2, WorldFacts DEF HomesKept, Home
  <2>4. AtKnown(next)'
    BY <1>1, <2>1 DEF AtKnown
  <2>5. QED
    BY <1>1, <1>2, <2>1, <2>2, <2>3, <2>4, ResumedIs, WorldFacts, TouchesKeep
<1>3. CASE /\ trDebug.state = "paused" /\ trDebug' = [trDebug EXCEPT !.state = "none"]
           /\ \E f \in Functions :
                /\ trHome[f] = NotYet /\ trHome' = [trHome EXCEPT ![f] = trDocument]
                /\ Becomes(c, [c EXCEPT !.at.callable = f, !.step = "store"])
  <2>1. PICK f \in Functions :
           /\ trHome[f] = NotYet /\ trHome' = [trHome EXCEPT ![f] = trDocument]
           /\ Becomes(c, [c EXCEPT !.at.callable = f, !.step = "store"])
    BY <1>3
  <2> DEFINE at == [c.at EXCEPT !.callable = f]
             next == Found(c, at, "store")
  <2>2. at \in [document : 0 .. MaxDocument, callable : 0 .. MaxCallables]
        /\ at.document = c.at.document /\ at.callable = f
    BY CallFacts, CallParts, TransformRecoveryConstants DEF Functions
  <2>3. Becomes(c, next)
    BY <2>1, Zenon DEF Found
  <2> HIDE DEF at
  <2>4. next \in Calling /\ next.number = c.number /\ next.kind = c.kind /\ next.validation = c.validation
        /\ next.step = "store" /\ next.at = at
    BY <2>2, CallFacts, FoundSet DEF CallSteps
  <2> HIDE DEF next
  <2>5. HomesKept
    BY <2>1, WorldFacts, BindingParts, TransformRecoveryConstants
       DEF HomesKept, Home, NotYet, Gone, Documents
  <2>6. at \in Bindings
    BY <1>1, <2>2, CallFacts DEF AtKnown, Bindings
  <2>7. AtKnown(next)'
    BY <1>1, <2>4, <2>6 DEF AtKnown
  <2>8. QED
    BY <1>1, <1>3, <2>3, <2>4, <2>5, <2>7, ResumedIs, WorldFacts, TouchesKeep
<1>4. QED
  BY <1>2, <1>3 DEF CaptureRetains

LEMMA CaptureStoresKeeps == ASSUME TrInv, NEW c \in trCalls, CaptureStores(c) PROVE TrInv'
<1> DEFINE next == Stepped(c, "discard")
           p == Captured(trProfile, c.at)
<1>1. next \in Calling /\ next.number = c.number /\ next.kind = c.kind /\ next.validation = c.validation
      /\ next.step = "discard"
  BY CallFacts, StepSet DEF CallSteps
<1>2. /\ c.kind = "capture" /\ c.step = "store" /\ Untouched
      /\ \/ trProfile # NoProfile /\ Stored(p) /\ Over(c)
         \/ Becomes(c, next) /\ Kept
         \/ Becomes(c, next) /\ Rejected
  BY GoesIs DEF CaptureStores, At
<1>3. c.at \in Bindings
  BY <1>2, CallFacts DEF AtKnown
<1>4. trProfile # NoProfile => Disables(p)
  <2> SUFFICES ASSUME trProfile # NoProfile PROVE Disables(p)
    OBVIOUS
  <2>1. /\ p \in Profiles /\ p.enabled = FALSE /\ p.validation = 0 /\ p.state = "validation-required"
        /\ p.pending = c.at /\ c.at # NoBinding
    <3>1. trProfile \in Profiles /\ c.at # NoBinding
      BY <1>3, WorldFacts, BindingParts
    <3>2. QED
      BY <1>3, <3>1, CapturedIs
  <2> HIDE DEF p
  <2>2. QED
    BY <2>1 DEF Disables
<1> HIDE DEF next, p
<1>5. AtKnown(next)
  BY <1>1, <1>2 DEF AtKnown
<1>6. CASE trProfile # NoProfile /\ Stored(p) /\ Over(c)
  BY <1>1, <1>2, <1>4, <1>5, <1>6, StoresKeep
<1>7. CASE Becomes(c, next) /\ Kept
  BY <1>1, <1>2, <1>5, <1>7, LooksKeep
<1>8. CASE Becomes(c, next) /\ Rejected
  BY <1>1, <1>2, <1>5, <1>8, StoresKeep
<1>9. QED
  BY <1>2, <1>6, <1>7, <1>8

LEMMA HomeGone ==
    ASSUME TrInv, NEW f, trHome' = trHome \/ trHome' = [trHome EXCEPT ![f] = Gone]
    PROVE  HomesKept
BY WorldFacts, BindingParts, TransformRecoveryConstants DEF HomesKept, Home, Gone

LEMMA CaptureDiscardsKeeps == ASSUME TrInv, NEW c \in trCalls, CaptureDiscards(c) PROVE TrInv'
<1> DEFINE next == Stepped(c, "failed")
<1>1. next \in Calling /\ next.number = c.number /\ next.kind = c.kind /\ next.validation = c.validation
      /\ next.step = "failed"
  BY CallFacts, StepSet DEF CallSteps
<1>2. /\ c.kind = "capture" /\ Becomes(c, next) /\ History
      /\ UNCHANGED <<trProfile, trEvents, trDocument, trDebug, trCommits, trMade>>
  BY GoesIs DEF CaptureDiscards, At
<1>3. HomesKept
  BY HomeGone DEF CaptureDiscards
<1> HIDE DEF next
<1>4. AtKnown(next)'
  BY <1>1, <1>2 DEF AtKnown
<1>5. QED
  BY <1>1, <1>2, <1>3, <1>4, WorldFacts, TouchesKeep

LEMMA CaptureFailsKeeps == ASSUME TrInv, NEW c \in trCalls, CaptureFails(c) PROVE TrInv'
<1> DEFINE p == IF trProfile = NoProfile THEN NoProfile ELSE CaptureFailed(trProfile)
<1>1. Over(c) /\ (Stored(p) \/ Rejected) /\ Untouched
  BY DEF CaptureFails
<1>2. p = NoProfile \/ Disables(p)
  BY WorldFacts, UseEnds DEF Disables
<1> HIDE DEF p
<1>3. QED
  BY <1>1, <1>2, CallFacts, StoresKeep

LEMMA ValidateLooksKeeps == ASSUME TrInv, NEW c \in trCalls, ValidateLooks(c) PROVE TrInv'
<1>1. c.kind = "validate" /\ c.step = "target" /\ Kept /\ Untouched
  BY DEF ValidateLooks, At
<1>2. CASE Goes(c, "replay")
  <2> DEFINE next == Stepped(c, "replay")
  <2>1. next \in Calling /\ next.number = c.number /\ next.kind = c.kind /\ next.validation = c.validation
        /\ next.step = "replay" /\ next.at = c.at
    BY CallFacts, StepSet DEF CallSteps
  <2>2. Becomes(c, next)
    BY <1>2, GoesIs
  <2> HIDE DEF next
  <2>3. AtKnown(next)
    BY <1>1, <2>1, CallFacts DEF AtKnown
  <2>4. QED
    BY <1>1, <2>1, <2>2, <2>3, LooksKeep
<1>3. CASE Becomes(c, Looked(c, trDocument, "invalidate"))
  <2> DEFINE next == Looked(c, trDocument, "invalidate")
  <2>1. next \in Calling /\ next.number = c.number /\ next.kind = c.kind /\ next.validation = c.validation
        /\ next.step = "invalidate"
    BY CallFacts, WorldFacts, DocumentSet DEF CallSteps
  <2> HIDE DEF next
  <2>2. AtKnown(next)
    BY <1>1, <2>1 DEF AtKnown
  <2>3. QED
    BY <1>1, <1>3, <2>1, <2>2, LooksKeep DEF next
<1>4. QED
  <2>1. Goes(c, "replay") \/ Becomes(c, Looked(c, trDocument, "invalidate"))
    BY Zenon DEF ValidateLooks, Looked
  <2>2. QED
    BY <1>2, <1>3, <2>1

LEMMA InvalidatesKeeps == ASSUME TrInv, NEW c \in trCalls, Invalidates(c) PROVE TrInv'
<1> DEFINE p == StaleIn(c.at.document)
<1>1. Over(c) /\ (Stored(p) \/ Rejected) /\ Untouched
  BY DEF Invalidates
<1>2. p = trProfile \/ Disables(p)
  BY StaleInIs
<1> HIDE DEF p
<1>3. QED
  BY <1>1, <1>2, CallFacts, StoresKeep

LEMMA ValidateReplaysKeeps == ASSUME TrInv, NEW c \in trCalls, ValidateReplays(c) PROVE TrInv'
<1>1. c.kind = "validate" /\ c.step = "replay" /\ Kept /\ Untouched
      /\ \E step \in {"passed", "failed"} : Goes(c, step)
  BY DEF ValidateReplays, At
<1>2. PICK step \in {"passed", "failed"} : Goes(c, step)
  BY <1>1
<1> DEFINE next == Stepped(c, step)
<1>3. next \in Calling /\ next.number = c.number /\ next.kind = c.kind /\ next.validation = c.validation
      /\ next.at = c.at
  BY CallFacts, StepSet DEF CallSteps
<1>4. Becomes(c, next)
  BY <1>2, GoesIs
<1> HIDE DEF next
<1>5. AtKnown(next)
  BY <1>1, <1>3, CallFacts DEF AtKnown
<1>6. QED
  BY <1>1, <1>3, <1>4, <1>5, LooksKeep

\* The result of a replay is stored: who replays next has another number, and nobody
\* confirms this one yet.
LEMMA ValidateStoresKeeps == ASSUME TrInv, NEW c \in trCalls, ValidateStores(c) PROVE TrInv'
<1> DEFINE next == Stepped(c, "failed")
<1>1. next \in Calling /\ next.number = c.number /\ next.kind = c.kind /\ next.validation = c.validation
      /\ next.at = c.at
  BY CallFacts, StepSet DEF CallSteps
<1>2. /\ c.kind = "validate" /\ c.step = "passed" /\ Untouched
      /\ \/ Becomes(c, next) /\ Kept
         \/ Becomes(c, next) /\ Rejected
         \/ /\ trProfile # NoProfile /\ trProfile' = Validated(trProfile, c.number)
            /\ trProven' = {c.at.callable} /\ Over(c)
            /\ trMixed' = (trMixed \/ trProfile.pending # c.at)
            /\ UNCHANGED <<trEvents, trLate>>
  BY GoesIs DEF ValidateStores, At
<1> HIDE DEF next
<1>3. AtKnown(next) /\ c.at \in Bindings /\ c.at.callable \in Functions
  BY <1>1, <1>2, CallFacts, BindingParts DEF AtKnown
<1>4. CASE Becomes(c, next) /\ Kept
  BY <1>1, <1>2, <1>3, <1>4, LooksKeep
<1>5. CASE Becomes(c, next) /\ Rejected
  BY <1>1, <1>2, <1>3, <1>5, StoresKeep
<1>6. CASE /\ trProfile # NoProfile /\ trProfile' = Validated(trProfile, c.number)
           /\ trProven' = {c.at.callable} /\ Over(c)
           /\ trMixed' = (trMixed \/ trProfile.pending # c.at)
           /\ UNCHANGED <<trEvents, trLate>>
  <2>1. c.number \in 1 .. trMade /\ NotYetUsed(c)
    BY CallFacts
  <2>2. /\ trProfile' \in Profiles /\ trProfile'.enabled = FALSE /\ trProfile'.validation = c.number
        /\ trProfile'.state = "confirmation-required" /\ trProfile'.pending = trProfile.pending
        /\ trProfile' # NoProfile
    <3>1. trProfile \in Profiles /\ c.number \in Nat
      BY <1>6, <2>1, WorldFacts
    <3>2. QED
      BY <1>6, <3>1, ValidatedIs, ProfileParts
  <2>3. HomesKept
    BY <1>2, WorldFacts DEF Untouched, HomesKept, Home
  <2>4. TrNumbers'
    BY <1>2, <1>6, <2>1, <2>2 DEF TrInv, TrNumbers, Untouched, Over
  <2>5. CallsKnow'
    <3> SUFFICES ASSUME NEW d \in trCalls' PROVE AtKnown(d)' /\ Matches(d)' /\ NotYetUsed(d)'
      BY DEF CallsKnow
    <3>1. d \in trCalls /\ d # c /\ d.number # c.number
      BY <1>6 DEF Over, TrInv, TrNumbers
    <3>2. AtKnown(d) /\ NotYetUsed(d)
      BY <3>1, CallFacts
    <3>3. AtKnown(d)'
      BY <2>3, <3>2 DEF AtKnown, HomesKept
    <3>4. Matches(d)'
      BY <1>2, <2>1, <2>2, <3>1 DEF Matches, NotYetUsed
    <3>5. NotYetUsed(d)'
      BY <1>6, <2>2, <3>1, <3>2 DEF NotYetUsed, Over
    <3>6. QED
      BY <3>3, <3>4, <3>5
  <2>6. ProfileKnown'
    <3>1. ~trMixed' => trProfile.pending = c.at /\ c.at # NoBinding
      BY <1>3, <1>6, WorldFacts, BindingParts
    <3>2. trProfile'.validation # 0
      BY <2>1, <2>2
    <3>3. QED
      BY <1>6, <2>2, <3>1, <3>2 DEF ProfileKnown
  <2>7. TrShown'
    BY <1>2, <1>6, <2>2 DEF TrInv, TrShown, EnabledIsShown, Untouched
  <2>8. TrTypeOK'
    BY <1>2, <1>3, <1>6, <2>2 DEF TrInv, TrTypeOK, Untouched, Over
  <2>9. QED
    BY <2>4, <2>5, <2>6, <2>7, <2>8 DEF TrInv
<1>7. QED
  BY <1>2, <1>4, <1>5, <1>6

LEMMA ValidateFailsKeeps == ASSUME TrInv, NEW c \in trCalls, ValidateFails(c) PROVE TrInv'
<1>1. /\ c.kind = "validate" /\ c.step = "failed" /\ Over(c) /\ Untouched
      /\ \/ Kept \/ Rejected
         \/ /\ trProfile # NoProfile /\ trProfile' = NotValidated(trProfile) /\ trProven' = {}
            /\ trMixed' = (trMixed \/ trProfile.pending # c.at)
            /\ UNCHANGED <<trEvents, trLate>>
  BY DEF ValidateFails, At
<1>2. CASE Kept
  BY <1>1, <1>2, KeepsOver
<1>3. CASE Rejected
  BY <1>1, <1>3, RejectedOver
<1>4. CASE /\ trProfile # NoProfile /\ trProfile' = NotValidated(trProfile) /\ trProven' = {}
           /\ trMixed' = (trMixed \/ trProfile.pending # c.at)
           /\ UNCHANGED <<trEvents, trLate>>
  <2>1. c.at \in Bindings /\ c.at # NoBinding
    BY <1>1, CallFacts, BindingParts DEF AtKnown
  <2>2. /\ trProfile' \in Profiles /\ trProfile'.enabled = FALSE /\ trProfile'.validation = 0
        /\ trProfile'.state = "validation-required" /\ trProfile'.pending = trProfile.pending
    BY <1>4, WorldFacts, ValidatedIs
  <2>3. HomesKept
    BY <1>1, WorldFacts DEF Untouched, HomesKept, Home
  <2>4. ProfileSafe
    BY <1>4, <2>1, <2>2, WorldFacts DEF ProfileSafe, ProfileMoves, NotEnabled, ProfileKnown
  <2>5. trCalls' \subseteq Calling /\ TrNumbers' /\ CallsKnow'
    BY <1>1, <2>3, <2>4, FallsAway DEF ProfileSafe, Untouched, Over
  <2>6. QED
    BY <1>1, <1>4, <2>3, <2>4, <2>5, Combined, WorldFacts DEF Untouched
<1>5. QED
  BY <1>1, <1>2, <1>3, <1>4

LEMMA ConfirmLooksKeeps == ASSUME TrInv, NEW c \in trCalls, ConfirmLooks(c) PROVE TrInv'
<1>1. c.kind = "confirm" /\ c.step = "target" /\ Kept /\ Untouched
  BY DEF ConfirmLooks, At
<1>2. CASE Over(c)
  BY <1>1, <1>2, KeepsOver
<1>3. CASE Goes(c, "store") /\ TargetMatches(c) /\ c.at.callable \in Live
  <2> DEFINE next == Stepped(c, "store")
  <2>1. next \in Calling /\ next.number = c.number /\ next.kind = c.kind /\ next.validation = c.validation
        /\ next.step = "store" /\ next.at = c.at
    BY CallFacts, StepSet DEF CallSteps
  <2>2. Becomes(c, next)
    BY <1>3, GoesIs
  <2> HIDE DEF next
  <2>3. AtKnown(next)
    BY <1>1, <1>3, <2>1, CallFacts DEF AtKnown, TargetMatches, Live, Home
  <2>4. QED
    BY <1>1, <2>1, <2>2, <2>3, LooksKeep
<1>4. CASE Becomes(c, Looked(c, trDocument, "invalidate"))
  <2> DEFINE next == Looked(c, trDocument, "invalidate")
  <2>1. next \in Calling /\ next.number = c.number /\ next.kind = c.kind /\ next.validation = c.validation
        /\ next.step = "invalidate"
    BY CallFacts, WorldFacts, DocumentSet DEF CallSteps
  <2> HIDE DEF next
  <2>2. AtKnown(next)
    BY <1>1, <2>1 DEF AtKnown
  <2>3. QED
    BY <1>1, <1>4, <2>1, <2>2, LooksKeep DEF next
<1>5. QED
  <2>1. IF TargetMatches(c)
        THEN IF c.at.callable \in Live THEN Goes(c, "store") ELSE Over(c)
        ELSE Becomes(c, Looked(c, trDocument, "invalidate"))
    BY Zenon DEF ConfirmLooks, Looked
  <2>2. QED
    BY <1>2, <1>3, <1>4, <2>1

LEMMA ConfirmStoresKeeps == ASSUME TrInv, NEW c \in trCalls, ConfirmStores(c) PROVE TrInv'
<1>1. c.kind = "confirm" /\ c.step = "store" /\ Over(c) /\ Untouched
  BY DEF ConfirmStores, At
<1>2. c.at \in Bindings /\ Home(c.at) /\ c.enabled \in BOOLEAN /\ Matches(c)
  BY <1>1, CallFacts, CallParts DEF AtKnown
<1>3. CASE Kept
  BY <1>1, <1>3, KeepsOver
<1>4. CASE Rejected
  BY <1>1, <1>4, RejectedOver
<1>5. CASE /\ trProfile # NoProfile /\ StillValidated(c) /\ trProfile' = Bound(c.at, c.enabled)
           /\ trLate' = (trLate \/ TooLate(c.at)) /\ UNCHANGED <<trEvents, trProven, trMixed>>
  <2>1. trProfile.pending = c.at
    BY <1>1, <1>2, <1>5 DEF Matches, StillValidated
  <2>2. ~trMixed => c.at.callable \in trProven
    BY <1>5, <2>1 DEF TrInv, ProfileKnown, StillValidated
  <2>3. QED
    BY <1>1, <1>2, <1>5, <2>2, WorldFacts, BindsKeeps
<1>6. QED
  BY <1>3, <1>4, <1>5 DEF ConfirmStores

LEMMA ResetDetachesKeeps == ASSUME TrInv, NEW c \in trCalls, ResetDetaches(c) PROVE TrInv'
<1> DEFINE next == Stepped(c, "store")
<1>1. next \in Calling /\ next.number = c.number /\ next.kind = c.kind /\ next.validation = c.validation
  BY CallFacts, StepSet DEF CallSteps
<1>2. /\ c.kind = "reset" /\ Becomes(c, next) /\ History
      /\ UNCHANGED <<trProfile, trEvents, trDocument, trHome, trCommits, trMade>>
      /\ trDebug' \in {trDebug, [trDebug EXCEPT !.state = "none"]}
  BY GoesIs DEF ResetDetaches, At
<1> HIDE DEF next
<1>3. HomesKept
  BY <1>2, HomeGone
<1>4. AtKnown(next)'
  BY <1>1, <1>2 DEF AtKnown
<1>5. trDebug' \in [state : {"none", "armed", "paused"}, document : 0 .. MaxDocument]
      /\ trDebug'.document \in Documents
  BY <1>2, ResumedIs, WorldFacts
<1>6. QED
  BY <1>1, <1>2, <1>3, <1>4, <1>5, TouchesKeep

LEMMA ResetStoresKeeps == ASSUME TrInv, NEW c \in trCalls, ResetStores(c) PROVE TrInv'
<1> DEFINE p == IF trProfile = NoProfile THEN NoProfile ELSE GivenUp(trProfile)
<1>1. Over(c) /\ (Stored(p) \/ Rejected) /\ Untouched
  BY DEF ResetStores
<1>2. p = NoProfile \/ Disables(p)
  BY WorldFacts, UseEnds DEF Disables
<1> HIDE DEF p
<1>3. QED
  BY <1>1, <1>2, CallFacts, StoresKeep

LEMMA DeleteStoresKeeps == ASSUME TrInv, NEW c \in trCalls, DeleteStores(c) PROVE TrInv'
BY CallFacts, StoresKeep DEF DeleteStores

LEMMA ExecuteLooksKeeps == ASSUME TrInv, NEW c \in trCalls, ExecuteLooks(c) PROVE TrInv'
<1> DEFINE next == Stepped(c, "stale")
<1>1. next \in Calling /\ next.number = c.number /\ next.kind = c.kind /\ next.validation = c.validation
  BY CallFacts, StepSet DEF CallSteps
<1>2. c.kind = "execute" /\ (Becomes(c, next) \/ Over(c)) /\ Kept /\ Untouched
  BY GoesIs DEF ExecuteLooks, At
<1> HIDE DEF next
<1>3. AtKnown(next)
  BY <1>1, <1>2 DEF AtKnown
<1>4. QED
  BY <1>1, <1>2, <1>3, LooksKeep

LEMMA ExecuteStalesKeeps == ASSUME TrInv, NEW c \in trCalls, ExecuteStales(c) PROVE TrInv'
<1> DEFINE p == IF trProfile = NoProfile THEN NoProfile ELSE Stale(trProfile)
<1>1. Over(c) /\ (Stored(p) \/ Rejected) /\ Untouched
  BY DEF ExecuteStales
<1>2. p = NoProfile \/ Disables(p)
  BY WorldFacts, UseEnds DEF Disables
<1> HIDE DEF p
<1>3. QED
  BY <1>1, <1>2, CallFacts, StoresKeep

LEMMA DropDeletesKeeps == ASSUME TrInv, NEW c \in trCalls, DropDeletes(c) PROVE TrInv'
<1> DEFINE next == Stepped(c, "store")
<1>1. next \in Calling /\ next.number = c.number /\ next.kind = c.kind /\ next.validation = c.validation
  BY CallFacts, StepSet DEF CallSteps
<1>2. /\ c.kind = "drop" /\ (Becomes(c, next) \/ Over(c)) /\ History
      /\ UNCHANGED <<trProfile, trEvents, trDocument, trDebug, trCommits, trMade>>
  BY GoesIs DEF DropDeletes, At
<1> HIDE DEF next
<1>3. HomesKept
  BY HomeGone DEF DropDeletes
<1>4. AtKnown(next)'
  BY <1>1, <1>2 DEF AtKnown
<1>5. QED
  BY <1>1, <1>2, <1>3, <1>4, WorldFacts, TouchesKeep

LEMMA DropStoresKeeps == ASSUME TrInv, NEW c \in trCalls, DropStores(c) PROVE TrInv'
<1> DEFINE p == IF trProfile # NoProfile /\ trProfile.at = c.at THEN Stale(trProfile) ELSE trProfile
<1>1. Over(c) /\ (Stored(p) \/ Rejected) /\ Untouched
  BY DEF DropStores
<1>2. p = trProfile \/ Disables(p)
  BY WorldFacts, UseEnds DEF Disables
<1> HIDE DEF p
<1>3. QED
  BY <1>1, <1>2, CallFacts, StoresKeep

-----------------------------------------------------------------------------
(* The beginning of a call, and the browser *)

\* A call that begins has a number that nobody has had.
LEMMA BeginsKeep ==
    ASSUME TrInv, Begins, NEW c \in Calling, c.number = trMade', c.validation <= trMade,
           trCalls' = trCalls \cup {c}, AtKnown(c), Matches(c),
           c.kind = "confirm" => trProfile # NoProfile /\ c.validation = trProfile.validation
    PROVE  TrInv'
<1>1. /\ trMade \in 0 .. MaxTrCalls /\ trMade' = trMade + 1 /\ trMade' \in 0 .. MaxTrCalls
      /\ UNCHANGED <<trProfile, trDocument, trHome, trDebug, trCommits, trEvents, trProven, trMixed, trLate>>
  BY WorldFacts, TransformRecoveryConstants DEF Begins, History
<1>2. HomesKept
  BY <1>1, HomeGone
<1>3. ProfileSafe
  BY <1>1, <1>2, StaysSafe
<1>4. trCalls \subseteq Calling /\ \A d \in trCalls : d.number \in 1 .. trMade /\ d.validation <= trMade
  BY DEF TrInv, TrTypeOK, TrNumbers
<1>5. TrNumbers'
  <2>1. \A d \in trCalls' : d.number \in 1 .. trMade' /\ d.validation <= trMade'
    BY <1>1, <1>4, CallParts
  <2>2. \A d, e \in trCalls' : d.number = e.number => d = e
    BY <1>1, <1>4 DEF TrInv, TrNumbers
  <2>3. trProfile # NoProfile => trProfile.validation <= trMade'
    BY <1>1, WorldFacts, ProfileParts DEF TrInv, TrNumbers
  <2>4. QED
    BY <1>1, <2>1, <2>2, <2>3 DEF TrNumbers
<1>6. CallsKnow'
  <2> SUFFICES ASSUME NEW d \in trCalls' PROVE AtKnown(d)' /\ Matches(d)' /\ NotYetUsed(d)'
    BY DEF CallsKnow
  <2>1. AtKnown(d) /\ Matches(d)
    BY CallFacts
  <2>2. AtKnown(d)' /\ Matches(d)'
    BY <1>1, <2>1 DEF AtKnown, Matches, Home
  <2>3. CASE d \in trCalls
    <3>1. NotYetUsed(d) /\ d.number \in 1 .. trMade
      BY <2>3, CallFacts
    <3>2. (c.kind = "confirm" /\ d.kind = "validate") => c.validation # d.number
      BY <3>1 DEF NotYetUsed
    <3>3. QED
      BY <1>1, <2>2, <3>1, <3>2 DEF NotYetUsed
  <2>4. CASE d = c
    <3>1. \A e \in trCalls' : e.validation # c.number
      BY <1>1, <1>4, CallParts
    <3>2. trProfile' # NoProfile => trProfile'.validation # c.number
      BY <1>1, WorldFacts, ProfileParts DEF TrInv, TrNumbers
    <3>3. QED
      BY <2>2, <2>4, <3>1, <3>2 DEF NotYetUsed
  <2>5. QED
    BY <2>3, <2>4
<1>7. QED
  BY <1>1, <1>2, <1>3, <1>4, <1>5, <1>6, Combined, WorldFacts

LEMMA NewCall ==
    ASSUME TrInv, NEW kind \in CallKinds, NEW enabled \in BOOLEAN, NEW validation \in Nat,
           NEW at \in [document : 0 .. MaxDocument, callable : 0 .. MaxCallables], NEW c,
           c = [kind |-> kind, number |-> trMade', step |-> "target", at |-> at, enabled |-> enabled,
                validation |-> validation],
           trMade' = trMade + 1
    PROVE  /\ c \in Calling /\ c.kind = kind /\ c.number = trMade' /\ c.step = "target" /\ c.at = at
           /\ c.validation = validation
BY WorldFacts DEF Calling, CallSteps

\* A call of a kind that finds nothing before it has looked.
LEMMA OtherBegins ==
    ASSUME TrInv, Begins, NEW kind \in CallKinds \ {"save", "validate", "confirm"}, NEW enabled \in BOOLEAN,
           NEW at \in [document : 0 .. MaxDocument, callable : 0 .. MaxCallables],
           Calls(kind, at, enabled, 0)
    PROVE  TrInv'
<1> DEFINE c == [kind |-> kind, number |-> trMade', step |-> "target", at |-> at, enabled |-> enabled,
                 validation |-> 0]
<1>1. trMade' = trMade + 1
  BY DEF Begins
<1>2. c \in Calling /\ c.kind = kind /\ c.number = trMade' /\ c.step = "target" /\ c.validation = 0
  BY <1>1, NewCall
<1>3. trCalls' = trCalls \cup {c}
  BY DEF Calls
<1> HIDE DEF c
<1>4. AtKnown(c) /\ Matches(c)
  BY <1>2 DEF AtKnown, Matches
<1>5. QED
  BY <1>2, <1>3, <1>4, BeginsKeep, WorldFacts

LEMMA LiveBinding ==
    ASSUME TrInv, NEW f \in Live
    PROVE  /\ [document |-> trDocument, callable |-> f] \in Bindings
           /\ Home([document |-> trDocument, callable |-> f])
BY WorldFacts DEF Live, Bindings, Home

LEMMA BeginSaveKeeps == ASSUME TrInv, BeginSave PROVE TrInv'
<1>1. PICK f \in Live, enabled \in BOOLEAN :
         Calls("save", [document |-> trDocument, callable |-> f], enabled, 0)
  BY DEF BeginSave
<1>2. Begins /\ trMade' = trMade + 1
  BY DEF BeginSave, Begins
<1> DEFINE at == [document |-> trDocument, callable |-> f]
           c == [kind |-> "save", number |-> trMade', step |-> "target", at |-> at, enabled |-> enabled,
                 validation |-> 0]
<1>3. at \in Bindings /\ Home(at)
  BY LiveBinding
<1>4. trCalls' = trCalls \cup {c}
  BY <1>1 DEF Calls
<1> HIDE DEF at
<1>5. at \in [document : 0 .. MaxDocument, callable : 0 .. MaxCallables]
  BY <1>3, BindingParts
<1>6. /\ c \in Calling /\ c.kind = "save" /\ c.number = trMade' /\ c.step = "target" /\ c.at = at
      /\ c.validation = 0
  BY <1>2, <1>5, NewCall DEF CallKinds
<1> HIDE DEF c
<1>7. AtKnown(c) /\ Matches(c)
  BY <1>3, <1>6 DEF AtKnown, Matches
<1>8. QED
  BY <1>2, <1>4, <1>6, <1>7, BeginsKeep, WorldFacts

LEMMA BeginDropKeeps == ASSUME TrInv, BeginDrop PROVE TrInv'
<1>1. PICK f \in Live : Calls("drop", [document |-> trDocument, callable |-> f], FALSE, 0)
  BY DEF BeginDrop
<1> DEFINE at == [document |-> trDocument, callable |-> f]
<1>2. at \in [document : 0 .. MaxDocument, callable : 0 .. MaxCallables]
  BY LiveBinding, BindingParts
<1>3. Begins /\ Calls("drop", at, FALSE, 0)
  BY <1>1 DEF BeginDrop
<1> HIDE DEF at
<1>4. QED
  BY <1>2, <1>3, OtherBegins DEF CallKinds

LEMMA OthersBeginKeep ==
    ASSUME TrInv, BeginStart \/ BeginCapture \/ BeginReset \/ BeginDelete \/ BeginExecute
    PROVE  TrInv'
<1>1. NoBinding \in [document : 0 .. MaxDocument, callable : 0 .. MaxCallables]
  BY BindingParts
<1>2. CASE BeginStart
  <2>1. /\ trProfile.at \in [document : 0 .. MaxDocument, callable : 0 .. MaxCallables]
        /\ NotNeeded(trProfile) \in BOOLEAN
    BY <1>2, WorldFacts, ProfileParts, BindingParts DEF BeginStart, Has, NotNeeded
  <2>2. Begins /\ Calls("start", trProfile.at, NotNeeded(trProfile), 0)
    BY <1>2 DEF BeginStart
  <2>3. QED
    BY <2>1, <2>2, OtherBegins DEF CallKinds
<1>3. CASE BeginCapture
  BY <1>1, <1>3, OtherBegins DEF BeginCapture, CallKinds
<1>4. CASE BeginReset
  BY <1>1, <1>4, OtherBegins DEF BeginReset, CallKinds
<1>5. CASE BeginDelete
  BY <1>1, <1>5, OtherBegins DEF BeginDelete, CallKinds
<1>6. CASE BeginExecute
  <2>1. trProfile.at \in [document : 0 .. MaxDocument, callable : 0 .. MaxCallables]
    BY <1>6, WorldFacts, ProfileParts, BindingParts DEF BeginExecute
  <2>2. QED
    BY <1>6, <2>1, OtherBegins DEF BeginExecute, CallKinds
<1>7. QED
  BY <1>2, <1>3, <1>4, <1>5, <1>6

\* Who replays and who confirms reads the binding that is pending.
LEMMA PendingBegins ==
    ASSUME TrInv, BeginValidate \/ BeginConfirm
    PROVE  TrInv'
<1> DEFINE at == trProfile.pending
<1>1. /\ trProfile \in Profiles /\ trProfile # NoProfile /\ at \in Bindings /\ Begins /\ trMade' = trMade + 1
      /\ at \in [document : 0 .. MaxDocument, callable : 0 .. MaxCallables]
      /\ trProfile.desired \in BOOLEAN /\ trProfile.validation \in Nat
  BY WorldFacts, ProfileParts, BindingParts DEF BeginValidate, BeginConfirm, Has, Begins
<1>2. trProfile.validation <= trMade /\ trMade \in Nat
  BY <1>1, WorldFacts DEF TrInv, TrNumbers
<1>3. PICK kind \in {"validate", "confirm"}, enabled \in BOOLEAN, validation \in Nat :
         /\ Calls(kind, at, enabled, validation)
         /\ kind = "validate" => validation = 0
         /\ kind = "confirm" => validation = trProfile.validation
  BY <1>1 DEF BeginValidate, BeginConfirm
<1> DEFINE c == [kind |-> kind, number |-> trMade', step |-> "target", at |-> at, enabled |-> enabled,
                 validation |-> validation]
<1>4. trCalls' = trCalls \cup {c}
  BY <1>3 DEF Calls
<1>5. /\ c \in Calling /\ c.kind = kind /\ c.number = trMade' /\ c.step = "target" /\ c.at = at
      /\ c.validation = validation
  BY <1>1, NewCall DEF CallKinds
<1> HIDE DEF c
<1>6. AtKnown(c) /\ Matches(c)
  BY <1>1, <1>5 DEF AtKnown, Matches
<1>7. QED
  BY <1>1, <1>2, <1>3, <1>4, <1>5, <1>6, BeginsKeep

LEMMA NavigatesKeeps == ASSUME TrInv, Navigates PROVE TrInv'
<1>1. /\ trCommits = <<>> /\ UNCHANGED <<trProfile, trHome, trCalls, trMade, trEvents, trProven, trMixed, trLate>>
      /\ trDebug' = Resumed
  BY DEF Navigates, History
<1>2. PICK d \in Documents : trDocument' = d /\ trCommits' = <<d>>
  BY DEF Navigates
<1>3. HomesKept
  BY <1>1, HomeGone
<1>4. ProfileSafe
  BY <1>1, <1>3, StaysSafe
<1>5. trCalls' \subseteq Calling /\ TrNumbers' /\ CallsKnow'
  BY <1>1, <1>3, <1>4, FallsAway DEF ProfileSafe
<1>6. TrTypeOK'
  BY <1>1, <1>2, <1>4, <1>5, ResumedIs DEF TrInv, TrTypeOK, ProfileSafe
<1>7. TrShown'
  BY <1>1, <1>2, ResumedIs, WorldFacts DEF TrShown, EnabledIsShown
<1>8. QED
  BY <1>4, <1>5, <1>6, <1>7 DEF TrInv, ProfileSafe

LEMMA StopsOrResumesKeeps == ASSUME TrInv, StopsOrResumes PROVE TrInv'
<1>1. UNCHANGED <<trProfile, trDocument, trHome, trCommits, trCalls, trMade, trEvents, trProven, trMixed, trLate>>
  BY DEF StopsOrResumes, History
<1>2. trDebug' \in [state : {"none", "armed", "paused"}, document : 0 .. MaxDocument]
      /\ trDebug'.document \in Documents
  <2>1. \E state \in {"none", "armed", "paused"} : trDebug' = Resumed \/ trDebug' = [trDebug EXCEPT !.state = state]
    BY WorldFacts DEF StopsOrResumes
  <2>2. QED
    BY <2>1, ResumedIs, WorldFacts
<1>3. HomesKept
  BY <1>1, HomeGone
<1>4. ProfileSafe
  BY <1>1, <1>3, StaysSafe
<1>5. trCalls' \subseteq Calling /\ TrNumbers' /\ CallsKnow'
  BY <1>1, <1>3, <1>4, FallsAway DEF ProfileSafe
<1>6. QED
  BY <1>1, <1>2, <1>3, <1>4, <1>5, Combined, WorldFacts

\* When the navigation is handled, what is enabled is of the document shown, or was made stale.
LEMMA HandleCommitKeeps == ASSUME TrInv, HandleCommit PROVE TrInv'
<1>a. trCommits = <<trDocument>> /\ trCommits' = Tail(trCommits) /\ trDocument \in Documents
      /\ UNCHANGED <<trDocument, trHome, trDebug, trCalls, trMade>>
  BY DEF HandleCommit, TrInv, TrShown, TrTypeOK
<1>b. Head(<<trDocument>>) = trDocument /\ Tail(<<trDocument>>) = <<>>
  BY <1>a
<1>1. /\ trCommits = <<trDocument>> /\ trCommits' = <<>> /\ Head(trCommits) = trDocument
      /\ UNCHANGED <<trDocument, trHome, trDebug, trCalls, trMade>>
  BY <1>a, <1>b
<1>2. HomesKept
  BY <1>1, HomeGone
<1>3. ProfileSafe /\ trEvents' \in 0 .. MaxTrEvents /\ trLate' \in BOOLEAN
      /\ \/ trLate' = TRUE
         \/ (trProfile' # NoProfile /\ trProfile'.enabled) => trProfile'.at.document = trDocument
  <2>1. CASE Stored(StaleIn(trDocument))
    <3>1. StaleIn(trDocument) = trProfile \/ Disables(StaleIn(trDocument))
      BY StaleInIs
    <3>2. ProfileSafe /\ trEvents' = trEvents /\ trLate' = trLate
      BY <1>2, <2>1, <3>1, StoredSafe
    <3>3. trProfile' = StaleIn(trDocument)
      BY <2>1 DEF Stored
    <3>4. (trProfile' # NoProfile /\ trProfile'.enabled) => trProfile'.at.document = trDocument
      BY <3>3, WorldFacts, UseEnds DEF StaleIn
    <3>5. QED
      BY <3>2, <3>4, WorldFacts DEF TrInv, TrTypeOK
  <2>2. CASE Fault /\ trLate' = TRUE /\ UNCHANGED <<trProfile, trProven, trMixed>>
    <3>1. trEvents' \in 0 .. MaxTrEvents
      BY <2>2, WorldFacts, TransformRecoveryConstants DEF Fault
    <3>2. QED
      BY <1>2, <2>2, <3>1, StaysSafe
  <2>3. QED
    BY <1>1, <2>1, <2>2 DEF HandleCommit
<1>4. trCalls' \subseteq Calling /\ TrNumbers' /\ CallsKnow'
  BY <1>1, <1>2, <1>3, FallsAway DEF ProfileSafe
<1>5. TrTypeOK'
  BY <1>1, <1>2, <1>3, <1>4 DEF TrInv, TrTypeOK, ProfileSafe, HomesKept
<1>6. TrShown'
  BY <1>1, <1>3 DEF TrInv, TrShown, EnabledIsShown
<1>7. QED
  BY <1>3, <1>4, <1>5, <1>6 DEF TrInv, ProfileSafe

LEMMA TrKillKeeps == ASSUME TrInv, TrKill PROVE TrInv'
<1>1. /\ trCalls' = {} /\ trCommits' = <<>> /\ trLate' = (trLate \/ trCommits # <<>>)
      /\ UNCHANGED <<trProfile, trDocument, trHome, trDebug, trMade, trProven, trMixed>>
  BY DEF TrKill
<1>2. trEvents' \in 0 .. MaxTrEvents
  BY WorldFacts, TransformRecoveryConstants DEF TrKill, Fault
<1>3. HomesKept
  BY <1>1, HomeGone
<1>4. ProfileSafe
  BY <1>1, <1>3, StaysSafe
<1>5. trCalls' \subseteq Calling /\ TrNumbers' /\ CallsKnow'
  BY <1>1, <1>3, <1>4, FallsAway DEF ProfileSafe
<1>6. TrTypeOK'
  BY <1>1, <1>2, <1>3, <1>4, <1>5 DEF TrInv, TrTypeOK, ProfileSafe, HomesKept
<1>7. TrShown'
  BY <1>1 DEF TrInv, TrShown, EnabledIsShown
<1>8. QED
  BY <1>4, <1>5, <1>6, <1>7 DEF TrInv, ProfileSafe

-----------------------------------------------------------------------------

LEMMA TrStarts == TrInit => TrInv
<1> SUFFICES ASSUME TrInit PROVE TrInv
  OBVIOUS
<1>1. 1 \in Documents /\ 1 \in Functions /\ MaxDocument \in Nat /\ MaxCallables \in Nat
  BY TransformRecoveryConstants DEF Documents, Functions
<1>2. trProfile \in Profiles /\ trProfile.enabled = FALSE /\ trProfile.state = "validation-required"
      /\ trProfile.pending \in Bindings /\ trProfile.validation = 0
  BY <1>1 DEF TrInit, Profiles, States, Bindings
<1>3. TrTypeOK
  <2>1. trHome \in [Functions -> 0 .. Gone]
    BY <1>1 DEF TrInit, NotYet, Gone, Functions
  <2>2. trDebug \in [state : {"none", "armed", "paused"}, document : 0 .. MaxDocument]
    <3>1. 1 \in 0 .. MaxDocument
      BY TransformRecoveryConstants
    <3>2. QED
      BY <3>1 DEF TrInit
  <2>3. trCommits \in Seq(Documents)
    BY DEF TrInit
  <2>4. trMade \in 0 .. MaxTrCalls /\ trEvents \in 0 .. MaxTrEvents
    BY TransformRecoveryConstants DEF TrInit
  <2>5. QED
    BY <1>1, <1>2, <2>1, <2>2, <2>3, <2>4 DEF TrInit, TrTypeOK
<1>4. TrNumbers /\ CallsKnow
  BY <1>2 DEF TrInit, TrNumbers, CallsKnow
<1>5. ProfileKnown
  BY <1>2, BindingParts DEF ProfileKnown
<1>6. TrShown
  BY <1>1, <1>2 DEF TrInit, TrShown, EnabledIsShown
<1>7. QED
  BY <1>3, <1>4, <1>5, <1>6 DEF TrInv

LEMMA TrStep == TrInv /\ [TrSteps]_trVars => TrInv'
<1> SUFFICES ASSUME TrInv, [TrSteps]_trVars PROVE TrInv'
  OBVIOUS
<1>1. CASE UNCHANGED trVars
  BY <1>1 DEF trVars, TrInv, TrTypeOK, TrNumbers, CallsKnow, AtKnown, Matches, NotYetUsed,
     ProfileKnown, Home,
       TrShown, EnabledIsShown
<1>2. CASE TrWorks
  <2>1. CASE HandleCommit
    BY <2>1, HandleCommitKeeps
  <2>2. CASE \E c \in trCalls :
         \/ SaveLooks(c) \/ SaveStores(c) \/ StartLooks(c) \/ StartInvalidates(c) \/ StartReads(c)
         \/ StartStores(c) \/ StartArms(c) \/ StartFails(c) \/ CaptureLooks(c) \/ CaptureRetains(c)
         \/ CaptureStores(c) \/ CaptureDiscards(c) \/ CaptureFails(c)
    BY <2>2, SaveLooksKeeps, SaveStoresKeeps, StartLooksKeeps, StartInvalidatesKeeps, StartReadsKeeps,
       StartStoresKeeps, StartArmsKeeps, StartFailsKeeps, CaptureLooksKeeps, CaptureRetainsKeeps,
       CaptureStoresKeeps, CaptureDiscardsKeeps, CaptureFailsKeeps
  <2>3. CASE \E c \in trCalls :
         \/ ValidateLooks(c) \/ Invalidates(c) \/ ValidateReplays(c) \/ ValidateStores(c) \/ ValidateFails(c)
         \/ ConfirmLooks(c) \/ ConfirmStores(c) \/ ResetDetaches(c) \/ ResetStores(c) \/ DeleteStores(c)
         \/ ExecuteLooks(c) \/ ExecuteStales(c) \/ DropDeletes(c) \/ DropStores(c)
    BY <2>3, ValidateLooksKeeps, InvalidatesKeeps, ValidateReplaysKeeps, ValidateStoresKeeps,
       ValidateFailsKeeps,
       ConfirmLooksKeeps, ConfirmStoresKeeps, ResetDetachesKeeps, ResetStoresKeeps, DeleteStoresKeeps,
       ExecuteLooksKeeps, ExecuteStalesKeeps, DropDeletesKeeps, DropStoresKeeps
  <2>4. QED
    BY <1>2, <2>1, <2>2, <2>3 DEF TrWorks
<1>3. CASE Navigates \/ StopsOrResumes \/ TrKill
  BY <1>3, NavigatesKeeps, StopsOrResumesKeeps, TrKillKeeps
<1>4. CASE \/ BeginSave \/ BeginStart \/ BeginCapture \/ BeginValidate \/ BeginConfirm
           \/ BeginReset \/ BeginDelete \/ BeginExecute \/ BeginDrop
  BY <1>4, BeginSaveKeeps, BeginDropKeeps, OthersBeginKeep, PendingBegins
<1>5. QED
  BY <1>1, <1>2, <1>3, <1>4 DEF TrSteps

\* What is enabled calls the function whose replay was confirmed, in the document shown, and
\* whoever is asked to replay or to confirm finds what was captured.
THEOREM RecoveryIsSound == TrSpec => []TransformSound
<1>1. TrInit => TrInv
  BY TrStarts
<1>2. TrInv /\ [TrSteps]_trVars => TrInv'
  BY TrStep
<1>3. TrInv => TransformSound
  BY DEF TrInv, TransformSound, EnabledIsProven, EnabledIsHome, RecoveryIsWhole, ProfileKnown,
     TrShown, Home
<1>4. QED
  BY <1>1, <1>2, <1>3, PTL DEF TrSpec

-----------------------------------------------------------------------------
(***************************************************************************)
(* Proxy rules                                                             *)
(***************************************************************************)

(* Conditions and their matching *)

Conditions == HostConditions \cup TextConditions

\* What a condition on the host says of it, where its value has no empty labels.
HostMatches(c, host) ==
    \/ c.type = "host_exact" /\ host = c.domain
    \/ c.type = "host_suffix" /\ IsPrefix(c.domain, host)
    \/ c.type = "host_wildcard" /\ IsStrictPrefix(c.domain, host)

LEMMA FrontOf ==
    ASSUME NEW s \in Domains, NEW n \in 1 .. Len(s)
    PROVE  SubSeq(s, 1, n) \in Seq(STRING) /\ Len(SubSeq(s, 1, n)) = n
<1>1. s \in Seq(STRING) /\ Len(s) \in Nat
  BY DEF Domains
<1>2. \A i \in 1 .. n : s[i] \in STRING
  BY <1>1, ElementOfSeq
<1>3. 1 \in Int /\ n \in Int
  BY <1>1
<1>4. QED
  BY <1>2, <1>3, SubSeqProperties

\* A domain that a host begins with: their first labels are the same.
LEMMA PrefixOf ==
    ASSUME NEW domain \in Domains, NEW host \in Domains
    PROVE  /\ IsPrefix(domain, host) <=> \E n \in 1 .. Len(host) : domain = SubSeq(host, 1, n)
           /\ \A n \in 1 .. Len(host) : domain = SubSeq(host, 1, n) =>
                 /\ n = Len(domain) /\ (n = Len(host) <=> host = domain)
                 /\ \A m \in 1 .. n : SubSeq(host, 1, m) = SubSeq(domain, 1, m)
<1>1. /\ domain \in Seq(STRING) /\ Len(domain) \in Nat \ {0}
      /\ host \in Seq(STRING) /\ Len(host) \in Nat \ {0}
  BY EmptySeq DEF Domains
<1>2. SubSeq(domain, 1, Len(domain)) = domain /\ SubSeq(host, 1, Len(host)) = host
  BY <1>1, SubSeqFull
<1>3. ASSUME NEW n \in 1 .. Len(host), domain = SubSeq(host, 1, n)
      PROVE  n = Len(domain) /\ (n = Len(host) <=> host = domain)
  BY <1>1, <1>2, <1>3, FrontOf
<1>4. ASSUME NEW n \in 1 .. Len(host), domain = SubSeq(host, 1, n), NEW m \in 1 .. n
      PROVE  SubSeq(host, 1, m) = SubSeq(domain, 1, m)
  <2>1. SubSeq(SubSeq(host, 1, n), 1, m) = SubSeq(host, 1 + 1 - 1, 1 + m - 1)
    <3>1. 1 \in 1 .. Len(host) /\ 1 \in 1 .. n - 1 + 1 /\ m \in 1 .. n - 1 + 1
      BY <1>1
    <3>2. QED
      BY <1>1, <3>1, SubSeqOfSubSeq
  <2>2. 1 + 1 - 1 = 1 /\ 1 + m - 1 = m
    BY <1>1
  <2>3. QED
    BY <1>4, <2>1, <2>2
<1>5. ASSUME IsPrefix(domain, host)
      PROVE  Len(domain) \in 1 .. Len(host) /\ domain = SubSeq(host, 1, Len(domain))
  BY <1>1, <1>2, <1>5 DEF IsPrefix
<1>6. ASSUME NEW n \in 1 .. Len(host), domain = SubSeq(host, 1, n)
      PROVE  IsPrefix(domain, host)
  <2>1. n = Len(domain) /\ Len(domain) <= Len(host)
    BY <1>1, <1>3, <1>6
  <2>2. SubSeq(domain, 1, Len(domain)) = SubSeq(host, 1, Len(domain))
    BY <1>2, <1>6, <2>1
  <2>3. QED
    BY <2>1, <2>2 DEF IsPrefix
<1>7. QED
  BY <1>3, <1>4, <1>5, <1>6

\* The nodes of a trie are the beginnings of the domains, its flags the conditions on a domain.
LEMMA TrieNodes ==
    ASSUME NEW conditions, NEW path
    PROVE  /\ path \in DOMAIN TrieOf(conditions) <=>
                 \E c \in conditions : \E n \in 1 .. Len(c.domain) : path = SubSeq(c.domain, 1, n)
           /\ path \in DOMAIN TrieOf(conditions) =>
                 \A f : f \in TrieOf(conditions)[path] <=>
                    \E c \in conditions : c.domain = path /\ c.type = f
  BY DEF TrieOf

\* The walk through the trie finds what a condition of it matches.
LEMMA TrieMatches ==
    ASSUME NEW conditions \in SUBSET HostConditions, NEW host \in Domains
    PROVE  MatchesHost(host, TrieOf(conditions)) <=> \E c \in conditions : HostMatches(c, host)
<1> DEFINE trie == TrieOf(conditions)
<1>0. /\ host \in Seq(STRING) /\ Len(host) \in Nat
      /\ \A c \in conditions : c.domain \in Domains /\ c.type \in HostTypes
  <2>1. host \in Seq(STRING) /\ Len(host) \in Nat
    BY DEF Domains
  <2>2. \A c \in conditions : c.domain \in Domains /\ c.type \in HostTypes
    BY DEF HostConditions
  <2>3. QED
    BY <2>1, <2>2
<1>1. ASSUME NEW c \in conditions, HostMatches(c, host)
      PROVE  MatchesHost(host, trie)
  <2>1. IsPrefix(c.domain, host)
    <3>1. ASSUME host = c.domain PROVE IsPrefix(c.domain, host)
      BY <1>0, <3>1 DEF IsPrefix
    <3>2. QED
      BY <1>1, <3>1 DEF HostMatches, IsStrictPrefix
  <2>2. PICK n \in 1 .. Len(host) : c.domain = SubSeq(host, 1, n)
    BY <1>0, <2>1, PrefixOf
  <2>3. n = Len(c.domain) /\ (n = Len(host) <=> host = c.domain)
    BY <1>0, <2>2, PrefixOf
  <2>4. \A m \in 1 .. n : SubSeq(host, 1, m) \in DOMAIN trie
    <3>1. ASSUME NEW m \in 1 .. n PROVE SubSeq(host, 1, m) = SubSeq(c.domain, 1, m)
      BY <1>0, <2>2, PrefixOf
    <3> HIDE DEF trie
    <3>2. QED
      BY <2>3, <3>1, TrieNodes DEF trie
  <2>5. c.type \in trie[SubSeq(host, 1, n)]
    <3>1. SubSeq(host, 1, n) \in DOMAIN trie
      BY <1>0, <2>4
    <3>2. QED
      BY <2>2, <3>1, TrieNodes
  <2>6. \/ "host_suffix" \in trie[SubSeq(host, 1, n)]
        \/ "host_wildcard" \in trie[SubSeq(host, 1, n)] /\ n < Len(host)
        \/ "host_exact" \in trie[SubSeq(host, 1, n)] /\ n = Len(host)
    <3> HIDE DEF trie
    <3>1. QED
      BY <1>0, <1>1, <2>3, <2>5 DEF HostMatches, IsStrictPrefix
  <2>7. QED
    <3> HIDE DEF trie
    <3>1. QED
      BY <2>4, <2>6, Zenon DEF MatchesHost
<1>2. ASSUME MatchesHost(host, trie)
      PROVE  \E c \in conditions : HostMatches(c, host)
  <2> HIDE DEF trie
  <2>1. PICK n \in 1 .. Len(host) :
            /\ \A m \in 1 .. n : SubSeq(host, 1, m) \in DOMAIN trie
            /\ \/ "host_suffix" \in trie[SubSeq(host, 1, n)]
               \/ "host_wildcard" \in trie[SubSeq(host, 1, n)] /\ n < Len(host)
               \/ "host_exact" \in trie[SubSeq(host, 1, n)] /\ n = Len(host)
    BY <1>2, Zenon DEF MatchesHost
  <2>2. SubSeq(host, 1, n) \in DOMAIN trie
    BY <1>0, <2>1
  <2>3. PICK type : /\ type \in trie[SubSeq(host, 1, n)]
                    /\ \/ type = "host_suffix"
                       \/ type = "host_wildcard" /\ n < Len(host)
                       \/ type = "host_exact" /\ n = Len(host)
    BY <2>1, Zenon
  <2>4. PICK c \in conditions : c.domain = SubSeq(host, 1, n) /\ c.type = type
    <3>1. \A f : f \in trie[SubSeq(host, 1, n)] <=>
             \E c \in conditions : c.domain = SubSeq(host, 1, n) /\ c.type = f
      <4>1. PICK path : path = SubSeq(host, 1, n)
        OBVIOUS
      <4>2. path \in DOMAIN TrieOf(conditions)
        BY <2>2, <4>1 DEF trie
      <4>3. \A f : f \in TrieOf(conditions)[path] <=>
                \E c \in conditions : c.domain = path /\ c.type = f
        BY <4>2, TrieNodes
      <4>4. QED
        BY <4>1, <4>3, Zenon DEF trie
    <3>2. QED
      BY <2>3, <3>1, Zenon
  <2>5. IsPrefix(c.domain, host) /\ (n = Len(host) <=> host = c.domain)
    BY <1>0, <2>4, PrefixOf
  <2>6. HostMatches(c, host)
    BY <1>0, <2>3, <2>4, <2>5 DEF HostMatches, IsStrictPrefix
  <2>7. QED
    BY <2>6
<1>3. QED
  BY <1>1, <1>2

-----------------------------------------------------------------------------
(* The order of rules *)

Less == {pair \in Nat \X Nat : pair[1] < pair[2]}

LEMMA LessWellFounded == IsWellFoundedOn(Less, Nat)
  BY NatLessThanWellFounded, Zenon DEF OpToRel, Less

\* What is used in place of an induction: of the numbers for which something fails, one is the least.
LEMMA LeastNumber ==
    ASSUME NEW numbers \in SUBSET Nat, numbers # {}
    PROVE  \E x \in numbers : \A y \in numbers : x <= y
<1>1. PICK x \in numbers : \A y \in numbers : <<y, x>> \notin Less
  BY LessWellFounded, WFMin
<1>2. ASSUME NEW y \in numbers PROVE x <= y
  <2>1. <<y, x>> \in Nat \X Nat /\ <<y, x>> \notin Less /\ x \in Nat /\ y \in Nat
    BY <1>1
  <2>2. ~(y < x)
    BY <2>1 DEF Less
  <2>3. QED
    BY <2>1, <2>2
<1>3. QED
  BY <1>2

\* A part of a finite set that lacks an element of it is smaller.
LEMMA SmallerPart ==
    ASSUME NEW S, IsFiniteSet(S), NEW part \in SUBSET S, NEW x \in S, x \notin part
    PROVE  /\ IsFiniteSet(part) /\ Cardinality(part) \in Nat /\ Cardinality(S) \in Nat
           /\ Cardinality(part) < Cardinality(S)
<1>1. IsFiniteSet(part) /\ Cardinality(part) <= Cardinality(S) /\ Cardinality(part) # Cardinality(S)
  BY FS_Subset
<1>2. Cardinality(part) \in Nat /\ Cardinality(S) \in Nat
  BY <1>1, FS_CardinalityType
<1>3. QED
  BY <1>1, <1>2

\* Rules, or the conditions of a script, by their order and id.
Comparable(items) ==
    /\ IsFiniteSet(items)
    /\ \A x \in items : x.id \in Int /\ x.order \in Int
    /\ \A x, y \in items : x.id = y.id => x = y

LEMMA ComparablePart ==
    ASSUME NEW items, Comparable(items), NEW part \in SUBSET items
    PROVE  Comparable(part)
<1>1. IsFiniteSet(part)
  BY FS_Subset DEF Comparable
<1>2. QED
  BY <1>1 DEF Comparable

LEMMA BeforeIsOrder ==
    ASSUME NEW items, Comparable(items)
    PROVE  /\ \A x, y \in items : x = y \/ Before(x, y) \/ Before(y, x)
           /\ \A x \in items : ~Before(x, x)
           /\ \A x, y, z \in items : Before(x, y) /\ Before(y, z) => Before(x, z)
  BY DEF Comparable, Before

\* Of rules, there is a first one.
LEMMA FirstOf ==
    ASSUME NEW items, Comparable(items), items # {}
    PROVE  First(items) \in items /\ \A y \in items : y = First(items) \/ Before(First(items), y)
<1> DEFINE Ahead(x) == {y \in items : Before(y, x)}
           sizes == {Cardinality(Ahead(x)) : x \in items}
<1>0. IsFiniteSet(items)
  BY DEF Comparable
<1>1. \A x \in items : IsFiniteSet(Ahead(x)) /\ Cardinality(Ahead(x)) \in Nat
  BY <1>0, FS_Subset, FS_CardinalityType
<1>2. sizes \in SUBSET Nat /\ sizes # {}
  BY <1>1
<1>3. PICK n \in sizes : \A m \in sizes : n <= m
  BY <1>2, LeastNumber
<1>4. PICK x \in items : n = Cardinality(Ahead(x))
  BY <1>3
<1>5. ASSUME NEW y \in items, Before(y, x) PROVE FALSE
  <2>1. Ahead(y) \in SUBSET Ahead(x) /\ y \in Ahead(x) /\ y \notin Ahead(y)
    BY <1>5, BeforeIsOrder
  <2>2. Cardinality(Ahead(y)) < Cardinality(Ahead(x))
    BY <1>1, <2>1, SmallerPart
  <2>3. Cardinality(Ahead(x)) <= Cardinality(Ahead(y))
    BY <1>3, <1>4
  <2>4. QED
    BY <1>1, <2>2, <2>3
<1>6. \A y \in items : y = x \/ Before(x, y)
  BY <1>5, BeforeIsOrder
<1>7. QED
  BY <1>6, Zenon DEF First

\* There is only one.
LEMMA FirstIs ==
    ASSUME NEW items, Comparable(items), NEW x \in items, \A y \in items : y = x \/ Before(x, y)
    PROVE  First(items) = x
<1>1. First(items) \in items /\ \A y \in items : y = First(items) \/ Before(First(items), y)
  BY FirstOf
<1>2. QED
  BY <1>1, BeforeIsOrder

-----------------------------------------------------------------------------
(* The compiled script *)

\* What a script is made of: conditions that compile, without empty labels.
Compilable(items) ==
    /\ Comparable(items)
    /\ \A x \in items : x.condition \in Conditions /\ x.condition.valid /\ ~x.condition.dotted

\* A condition that compiles hits by its host or by its text.
LEMMA ConditionIs ==
    ASSUME NEW c \in Conditions, c.valid, ~c.dotted, NEW url
    PROVE  /\ ConditionMatches(c, url) <=> HostMatches(c, url.host) \/ url \in c.hits
           /\ HostMatches(c, url.host) => c.type \in HostTypes
           /\ c.type \in HostTypes => c \in HostConditions
<1>1. ConditionMatches(c, url) <=> HostMatches(c, url.host) \/ url \in c.hits
  BY DEF ConditionMatches, HostMatches
<1>2. HostMatches(c, url.host) => c.type \in HostTypes
  BY DEF HostMatches, HostTypes
<1>3. c.type \in HostTypes => c \in HostConditions
  <2>1. ASSUME c \in TextConditions PROVE c.type \notin HostTypes
    <3>1. c.type \in TextTypes
      BY <2>1 DEF TextConditions
    <3>2. QED
      BY <3>1 DEF HostTypes, TextTypes
  <2>2. QED
    BY <2>1 DEF Conditions
<1>4. QED
  BY <1>1, <1>2, <1>3

\* A block matches an address if one of its conditions does.
LEMMA BlockMatchesAny ==
    ASSUME NEW block, Compilable(block), NEW url, url.host \in Domains
    PROVE  BlockMatches(block, url) <=> \E x \in block : ConditionMatches(x.condition, url)
<1> DEFINE hosts == {x.condition : x \in {y \in block : y.condition.type \in HostTypes}}
<1>0. ASSUME NEW x \in block
      PROVE  /\ ConditionMatches(x.condition, url) <=>
                   HostMatches(x.condition, url.host) \/ url \in x.condition.hits
             /\ HostMatches(x.condition, url.host) => x.condition.type \in HostTypes
             /\ x.condition.type \in HostTypes => x.condition \in HostConditions
  BY ConditionIs DEF Compilable
<1>1. hosts \in SUBSET HostConditions
  BY <1>0
<1>2. MatchesHost(url.host, TrieOf(hosts)) <=> \E c \in hosts : HostMatches(c, url.host)
  BY <1>1, TrieMatches
<1>3. (\E c \in hosts : HostMatches(c, url.host)) <=> \E x \in block : HostMatches(x.condition, url.host)
  BY <1>0
<1>4. BlockMatches(block, url) <=>
        MatchesHost(url.host, TrieOf(hosts)) \/ \E x \in block : url \in x.condition.hits
  BY Zenon DEF BlockMatches
<1> HIDE DEF hosts
<1>5. QED
  BY <1>0, <1>2, <1>3, <1>4

\* The script answers what the first condition that matches gives, though it asks the blocks.
LEMMA ScriptAnswers ==
    ASSUME NEW items, Compilable(items), NEW url, url.host \in Domains
    PROVE  LET matching == {x \in items : ConditionMatches(x.condition, url)}
           IN  /\ Answering(items, url) = {} <=> matching = {}
               /\ matching # {} => First(Answering(items, url)).result = First(matching).result
<1> DEFINE matching == {x \in items : ConditionMatches(x.condition, url)}
           answering == Answering(items, url)
<1>1. Comparable(items) /\ Comparable(matching) /\ Comparable(answering)
  BY ComparablePart DEF Compilable, Answering
<1>2. ASSUME NEW x \in items
      PROVE  x \in answering <=> \E y \in BlockOf(items, x) : y \in matching
  <2>1. Compilable(BlockOf(items, x)) /\ BlockOf(items, x) \in SUBSET items
    BY ComparablePart DEF Compilable, BlockOf
  <2>2. BlockMatches(BlockOf(items, x), url) <=>
          \E y \in BlockOf(items, x) : ConditionMatches(y.condition, url)
    BY <2>1, BlockMatchesAny
  <2>3. QED
    BY <2>1, <2>2 DEF Answering
<1>3. \A x \in items : x \in BlockOf(items, x)
  <2>1. \A x, z \in items : ~Between(x, z, x)
    BY <1>1, BeforeIsOrder DEF Between
  <2>2. QED
    BY <2>1 DEF BlockOf
<1>4. answering \in SUBSET items /\ matching \in SUBSET answering
  BY <1>2, <1>3 DEF Answering
<1>5. answering = {} <=> matching = {}
  BY <1>2, <1>4 DEF BlockOf
<1>6. ASSUME matching # {} PROVE First(answering).result = First(matching).result
  <2>1. PICK m \in matching : m = First(matching) /\ \A y \in matching : y = m \/ Before(m, y)
    BY <1>1, <1>6, FirstOf
  <2>2. PICK a \in answering : a = First(answering) /\ \A y \in answering : y = a \/ Before(a, y)
    BY <1>1, <1>5, <1>6, FirstOf
  <2>3. PICK y \in BlockOf(items, a) : y \in matching
    BY <1>2, <1>4, <2>2
  <2>4. m = a \/ Before(a, m)
    BY <1>4, <2>1, <2>2
  <2>5. y = m \/ Before(m, y)
    BY <2>1, <2>3
  <2>6. y.result = a.result /\ \A z \in items : Between(a, z, y) => z.result = a.result
    BY <2>3 DEF BlockOf
  <2>7. m = a \/ y = m \/ Between(a, m, y)
    BY <2>4, <2>5 DEF Between
  <2>8. m.result = a.result
    BY <1>4, <2>6, <2>7
  <2>9. QED
    BY <2>1, <2>2, <2>8
<1>7. QED
  BY <1>5, <1>6

-----------------------------------------------------------------------------
(* The preview *)

LEMMA FiniteImage ==
    ASSUME NEW S, IsFiniteSet(S), NEW f, DOMAIN f = S, f = [x \in S |-> f[x]]
    PROVE  IsFiniteSet({f[x] : x \in S}) /\ Cardinality({f[x] : x \in S}) \in Nat
<1>1. f \in Surjection(S, {f[x] : x \in S})
  BY DEF Surjection
<1>2. IsFiniteSet({f[x] : x \in S})
  BY <1>1, FS_Surjection
<1>3. QED
  BY <1>2, FS_CardinalityType

\* Rules of different ids, each at its own position.
Distinct(rules) ==
    IsFiniteSet(rules) /\ \A r, s \in rules : r.id = s.id \/ r.place = s.place => r = s

\* What was read from a text compiles.
ReadWell(source) ==
    source # NoSource =>
        \A i \in DOMAIN source.rules : source.rules[i].condition.valid

\* What an operation makes of the settings, before what refers to nothing is taken out.
Edited(settings) == settings \in PrSettings /\ Distinct(settings.rules) /\ ReadWell(settings.source)

\* The rules have types, and an order.
LEMMA RulesTyped ==
    ASSUME NEW settings, Edited(settings)
    PROVE  /\ settings.rules \in SUBSET Rules /\ Comparable(settings.rules)
           /\ Comparable(EnabledRules(settings)) /\ EnabledRules(settings) \in SUBSET settings.rules
           /\ \A r \in settings.rules : /\ r.id \in RuleIds /\ r.place \in Int /\ r.order \in Int
                                        /\ r.condition \in Conditions /\ r.profile \in Names
<1>1. settings.rules \in SUBSET Rules
  BY DEF Edited, PrSettings
<1>2. \A r \in settings.rules : /\ r.id \in RuleIds /\ r.place \in Int /\ r.order \in Int
                                /\ r.condition \in Conditions /\ r.profile \in Names
  BY <1>1 DEF Rules, Conditions
<1>3. RuleIds \subseteq Int
  BY ProxyRulesConstants
<1>4. Comparable(settings.rules)
  BY <1>2, <1>3 DEF Comparable, Edited, Distinct
<1>5. EnabledRules(settings) \in SUBSET settings.rules
  BY DEF EnabledRules
<1>6. QED
  BY <1>1, <1>2, <1>4, <1>5, ComparablePart

\* The rules of a source that takes part.
LEMMA SourceTyped ==
    ASSUME NEW settings, Edited(settings)
    PROVE  LET rules == SourceRules(settings)
           IN  /\ rules \in Seq(ParsedRules) /\ DOMAIN rules = 1 .. Len(rules) /\ Len(rules) \in Nat
               /\ \A i \in DOMAIN rules :
                    /\ rules[i].condition \in Conditions /\ rules[i].exception \in BOOLEAN
                    /\ rules[i].condition.valid
<1> DEFINE rules == SourceRules(settings)
<1>1. CASE settings.source # NoSource /\ settings.source.enabled
  <2>1. settings.source \in Sources
    BY <1>1 DEF Edited, PrSettings
  <2>2. rules = settings.source.rules /\ rules \in Seq(ParsedRules)
    BY <1>1, <2>1 DEF SourceRules, Sources
  <2>3. DOMAIN rules = 1 .. Len(rules) /\ Len(rules) \in Nat
    BY <2>2
  <2>4. ASSUME NEW i \in DOMAIN rules
        PROVE  /\ rules[i].condition \in Conditions /\ rules[i].exception \in BOOLEAN
               /\ rules[i].condition.valid
    <3>1. rules[i] \in ParsedRules
      BY <2>2, <2>3, <2>4, ElementOfSeq
    <3>2. rules[i].condition \in Conditions /\ rules[i].exception \in BOOLEAN
      BY <3>1 DEF ParsedRules, Conditions
    <3>3. rules[i].condition.valid
      BY <1>1, <2>2, <2>4 DEF Edited, ReadWell
    <3>4. QED
      BY <3>2, <3>3
  <2>5. QED
    BY <2>2, <2>3, <2>4
<1>2. CASE ~(settings.source # NoSource /\ settings.source.enabled)
  <2>1. rules = <<>>
    BY <1>2 DEF SourceRules
  <2>2. QED
    BY <2>1
<1>3. QED
  BY <1>1, <1>2

\* The script's conditions come in an order, too: that of the rules.
LEMMA ManualComparable ==
    ASSUME NEW settings, Edited(settings) PROVE Comparable(ManualItems(settings))
<1> DEFINE ItemOf(s) == [id |-> s.id, order |-> s.order, condition |-> s.condition,
                         result |-> ValueOf(settings, s.profile)]
           enabled == EnabledRules(settings)
           items == ManualItems(settings)
           f == [s \in enabled |-> ItemOf(s)]
<1>1. Comparable(enabled)
  BY RulesTyped
<1>2. items = {ItemOf(s) : s \in enabled}
  BY DEF ManualItems
<1>3. IsFiniteSet(items)
  <2>1. IsFiniteSet(enabled) /\ DOMAIN f = enabled /\ f = [s \in enabled |-> f[s]]
    BY <1>1 DEF Comparable
  <2>2. \A s \in enabled : f[s] = ItemOf(s)
    OBVIOUS
  <2>3. {f[s] : s \in enabled} = items
    BY <1>2, <2>2
  <2> HIDE DEF f
  <2>4. QED
    BY <2>1, <2>3, FiniteImage
<1>4. \A x \in items : \E s \in enabled : x.id = s.id /\ x.order = s.order /\ x = ItemOf(s)
  BY <1>2
<1>5. \A x \in items : x.id \in Int /\ x.order \in Int
  BY <1>1, <1>4 DEF Comparable
<1> HIDE DEF items, ItemOf, enabled
<1>6. \A x, y \in items : x.id = y.id => x = y
  BY <1>1, <1>4 DEF Comparable
<1>7. QED
  BY <1>3, <1>5, <1>6 DEF Comparable, items

\* The manual rules: the script answers the value of the profile that the preview names.
LEMMA ManualAgrees ==
    ASSUME NEW settings, Edited(settings), Compiles(settings),
           \A r \in EnabledRules(settings) : ~r.condition.dotted, NEW url, url.host \in Domains
    PROVE  LET manual == {r \in EnabledRules(settings) : ConditionMatches(r.condition, url)}
               answering == Answering(ManualItems(settings), url)
           IN  /\ answering = {} <=> manual = {}
               /\ manual # {} => First(answering).result = ValueOf(settings, First(manual).profile)
<1> DEFINE enabled == EnabledRules(settings)
           ItemOf(r) == [id |-> r.id, order |-> r.order, condition |-> r.condition,
                         result |-> ValueOf(settings, r.profile)]
           items == ManualItems(settings)
           manual == {r \in enabled : ConditionMatches(r.condition, url)}
           matching == {x \in items : ConditionMatches(x.condition, url)}
<1>1. /\ Comparable(enabled) /\ enabled \in SUBSET settings.rules
      /\ \A r \in settings.rules : r.id \in RuleIds /\ r.order \in Int /\ r.condition \in Conditions
  BY RulesTyped
<1>2. items = {ItemOf(r) : r \in enabled}
  BY DEF ManualItems
<1>3. Compilable(items)
  <2>1. Comparable(items)
    BY ManualComparable
  <2>2. \A x \in items : \E r \in enabled : x.condition = r.condition
    BY <1>2
  <2>3. \A x \in items : x.condition \in Conditions /\ x.condition.valid /\ ~x.condition.dotted
    BY <1>1, <2>2 DEF Compiles
  <2>4. QED
    BY <2>1, <2>3 DEF Compilable
<1>4. /\ Answering(items, url) = {} <=> matching = {}
      /\ matching # {} => First(Answering(items, url)).result = First(matching).result
  BY <1>3, ScriptAnswers
<1>5. /\ \A r \in manual : ItemOf(r) \in matching
      /\ \A x \in matching : \E r \in manual : x = ItemOf(r)
  BY <1>2
<1>6. ASSUME manual # {} PROVE First(matching).result = ValueOf(settings, First(manual).profile)
  <2>1. PICK r \in manual : r = First(manual) /\ \A s \in manual : s = r \/ Before(r, s)
    <3>1. Comparable(manual)
      BY <1>1, ComparablePart
    <3>2. QED
      BY <1>6, <3>1, FirstOf
  <2>2. ASSUME NEW s \in manual PROVE ItemOf(s) = ItemOf(r) \/ Before(ItemOf(r), ItemOf(s))
    <3>1. s = r \/ Before(r, s)
      BY <2>1
    <3>2. Before(r, s) => Before(ItemOf(r), ItemOf(s))
      BY DEF Before
    <3>3. QED
      BY <3>1, <3>2
  <2>3. Comparable(matching)
    BY <1>3, ComparablePart DEF Compilable
  <2>4. ItemOf(r) \in matching /\ \A x \in matching : x = ItemOf(r) \/ Before(ItemOf(r), x)
    <3> HIDE DEF ItemOf, matching, manual
    <3>1. QED
      BY <1>5, <2>2
  <2>5. First(matching) = ItemOf(r)
    <3> HIDE DEF ItemOf, matching
    <3>1. QED
      BY <2>3, <2>4, FirstIs
  <2>6. First(matching).result = ValueOf(settings, r.profile)
    <3>1. ItemOf(r).result = ValueOf(settings, r.profile)
      OBVIOUS
    <3> HIDE DEF ItemOf, matching
    <3>2. QED
      BY <2>5, <3>1
  <2>7. QED
    BY ONLY <2>1, <2>6
<1>7. matching = {} <=> manual = {}
  <2> HIDE DEF ItemOf, matching, manual
  <2>1. QED
    BY <1>5
<1>8. QED
  BY <1>4, <1>6, <1>7

LEMMA MinOf ==
    ASSUME NEW numbers \in SUBSET Nat, numbers # {}
    PROVE  Min(numbers) \in numbers /\ \A y \in numbers : Min(numbers) <= y
<1>1. \E x \in numbers : \A y \in numbers : x <= y
  BY LeastNumber
<1>2. QED
  BY <1>1, Zenon DEF Min

\* The rule source, likewise: the preview looks for exceptions, the script has them first.
LEMMA SourceAgrees ==
    ASSUME NEW settings, Edited(settings),
           \A i \in DOMAIN SourceRules(settings) : ~SourceRules(settings)[i].condition.dotted,
           NEW url, url.host \in Domains
    PROVE  LET rules == SourceRules(settings)
               found == {i \in DOMAIN rules : ConditionMatches(rules[i].condition, url)}
               answering == Answering(SourceItems(settings), url)
           IN  /\ answering = {} <=> found = {}
               /\ found # {} => First(answering).result =
                    ValueOf(settings, RuleProfile(settings.source, PreviewedSourceRule(rules, found)))
<1> DEFINE rules == SourceRules(settings)
           found == {i \in DOMAIN rules : ConditionMatches(rules[i].condition, url)}
           OrderOf(i) == IF HasResults(rules) \/ rules[i].exception THEN 0 ELSE 1
           ResultOf(i) == ValueOf(settings, RuleProfile(settings.source, rules[i]))
           ItemOf(i) == [id |-> i, order |-> OrderOf(i), condition |-> rules[i].condition,
                         result |-> ResultOf(i)]
           items == SourceItems(settings)
           matching == {x \in items : ConditionMatches(x.condition, url)}
<1>1. /\ DOMAIN rules = 1 .. Len(rules) /\ Len(rules) \in Nat
      /\ \A i \in DOMAIN rules :
            /\ rules[i].condition \in Conditions /\ rules[i].exception \in BOOLEAN
            /\ rules[i].condition.valid /\ ~rules[i].condition.dotted
  BY SourceTyped
<1>2. items = {ItemOf(i) : i \in DOMAIN rules}
  BY DEF SourceItems
<1>3. \A i : /\ ItemOf(i).id = i /\ ItemOf(i).order = OrderOf(i) /\ ItemOf(i).order \in {0, 1}
             /\ ItemOf(i).condition = rules[i].condition /\ ItemOf(i).result = ResultOf(i)
  OBVIOUS
<1>4. Compilable(items)
  <2>1. IsFiniteSet(items)
    <3> DEFINE f == [i \in DOMAIN rules |-> ItemOf(i)]
    <3>1. IsFiniteSet(DOMAIN rules) /\ DOMAIN f = DOMAIN rules /\ f = [i \in DOMAIN rules |-> f[i]]
      BY <1>1, FS_Interval
    <3>2. \A i \in DOMAIN rules : f[i] = ItemOf(i)
      OBVIOUS
    <3>3. {f[i] : i \in DOMAIN rules} = items
      BY <1>2, <3>2
    <3> HIDE DEF f
    <3>4. QED
      BY <3>1, <3>3, FiniteImage
  <2> HIDE DEF ItemOf, items, rules
  <2>2. \A x \in items : \E i \in DOMAIN rules : x = ItemOf(i)
    BY <1>2
  <2>3. \A x \in items : x.id \in Int /\ x.order \in Int
    BY <1>1, <1>3, <2>2
  <2>4. \A x, y \in items : x.id = y.id => x = y
    BY <1>3, <2>2
  <2>5. \A x \in items : x.condition \in Conditions /\ x.condition.valid /\ ~x.condition.dotted
    BY <1>1, <1>3, <2>2
  <2>6. QED
    BY <2>1, <2>3, <2>4, <2>5 DEF Compilable, Comparable
<1>5. /\ Answering(items, url) = {} <=> matching = {}
      /\ matching # {} => First(Answering(items, url)).result = First(matching).result
  BY <1>4, ScriptAnswers
<1>6. /\ \A i \in found : ItemOf(i) \in matching
      /\ \A x \in matching : \E i \in found : x = ItemOf(i)
  <2> HIDE DEF ItemOf
  <2>1. QED
    BY <1>2, <1>3
<1>7. ASSUME found # {}
      PROVE  First(matching).result =
                 ValueOf(settings, RuleProfile(settings.source, PreviewedSourceRule(rules, found)))
  <2> DEFINE exceptions == {i \in found : rules[i].exception}
             chosen == IF HasResults(rules) \/ exceptions = {} THEN found ELSE exceptions
  <2>0. found \in SUBSET (DOMAIN rules)
    OBVIOUS
  <2> HIDE DEF ItemOf, matching, found, rules
  <2>1. chosen \in SUBSET found /\ chosen # {} /\ chosen \in SUBSET Nat
    BY <1>1, <1>7, <2>0
  <2>2. PICK k \in chosen : k = Min(chosen) /\ \A i \in chosen : k <= i
    BY <2>1, MinOf
  <2>3. PreviewedSourceRule(rules, found) = rules[k]
    BY <2>2, Zenon DEF PreviewedSourceRule
  <2>4. ASSUME NEW i \in found PROVE i = k \/ Before(ItemOf(k), ItemOf(i))
    <3>1. /\ ItemOf(k).order = OrderOf(k) /\ ItemOf(i).order = OrderOf(i)
          /\ ItemOf(k).id = k /\ ItemOf(i).id = i /\ k \in Nat /\ i \in Nat
      BY <1>1, <1>3, <2>0, <2>1, <2>2
    <3>2. k \in found
      BY <2>1
    <3>3. \/ OrderOf(k) = OrderOf(i) /\ i \in chosen
          \/ OrderOf(k) < OrderOf(i)
      BY <3>2
    <3>4. QED
      BY <2>2, <3>1, <3>3 DEF Before
  <2>5. Comparable(matching)
    BY <1>4, ComparablePart DEF Compilable, matching
  <2>6. ItemOf(k) \in matching /\ \A x \in matching : x = ItemOf(k) \/ Before(ItemOf(k), x)
    BY <1>6, <2>1, <2>4
  <2>7. First(matching) = ItemOf(k)
    BY <2>5, <2>6, FirstIs
  <2>8. QED
    BY <1>3, <2>3, <2>7
<1>8. matching = {} <=> found = {}
  <2> HIDE DEF ItemOf, matching, found
  <2>1. QED
    BY <1>6
<1>9. QED
  BY <1>5, <1>7, <1>8

\* The two implementations agree.
LEMMA PreviewIsPac ==
    ASSUME NEW settings, Edited(settings), Compiles(settings),
           \A r \in EnabledRules(settings) : ~r.condition.dotted,
           \A i \in DOMAIN SourceRules(settings) : ~SourceRules(settings)[i].condition.dotted,
           NEW url, url.host \in Domains
    PROVE  Pac(settings, url) = ValueOf(settings, Preview(settings, url))
<1> DEFINE manual == {r \in EnabledRules(settings) : ConditionMatches(r.condition, url)}
           answering == Answering(ManualItems(settings), url)
           rules == SourceRules(settings)
           found == {i \in DOMAIN rules : ConditionMatches(rules[i].condition, url)}
           fromSource == Answering(SourceItems(settings), url)
           named == RuleProfile(settings.source, PreviewedSourceRule(rules, found))
<1>1. /\ answering = {} <=> manual = {}
      /\ manual # {} => First(answering).result = ValueOf(settings, First(manual).profile)
  BY ManualAgrees
<1>2. /\ fromSource = {} <=> found = {}
      /\ found # {} => First(fromSource).result = ValueOf(settings, named)
  BY SourceAgrees
<1>3. Pac(settings, url) = IF answering # {} THEN First(answering).result
                           ELSE IF fromSource # {} THEN First(fromSource).result
                           ELSE ValueOf(settings, settings.default)
  BY Zenon DEF Pac
<1>4. Preview(settings, url) = IF manual # {} THEN First(manual).profile
                               ELSE IF found # {} THEN named ELSE settings.default
  BY Zenon DEF Preview
<1> HIDE DEF manual, answering, found, fromSource, named
<1>5. QED
  BY <1>1, <1>2, <1>3, <1>4

\* A rule for a site that comes before all others decides about it.
LEMMA RouteDecides ==
    ASSUME NEW settings, Edited(settings), Compiles(settings),
           NEW host \in Domains, NEW url, url.host = host,
           NEW r \in EnabledRules(settings), r.condition = HostCondition("host_exact", host),
           \A s \in settings.rules : s = r \/ Before(r, s)
    PROVE  Pac(settings, url) = ValueOf(settings, r.profile)
<1> DEFINE ItemOf(s) == [id |-> s.id, order |-> s.order, condition |-> s.condition,
                         result |-> ValueOf(settings, s.profile)]
           items == ManualItems(settings)
           answering == Answering(items, url)
           block == BlockOf(items, ItemOf(r))
           hosts == {x.condition : x \in {y \in block : y.condition.type \in HostTypes}}
<1>1. /\ Comparable(EnabledRules(settings)) /\ EnabledRules(settings) \in SUBSET settings.rules
      /\ \A s \in settings.rules : s.id \in RuleIds /\ s.order \in Int /\ s.condition \in Conditions
  BY RulesTyped
<1>2. items = {ItemOf(s) : s \in EnabledRules(settings)}
  BY DEF ManualItems
<1>3. Comparable(items)
  BY ManualComparable
<1>4. ItemOf(r) \in items /\ \A x \in items : x = ItemOf(r) \/ Before(ItemOf(r), x)
  <2>1. \A s \in EnabledRules(settings) : ItemOf(s) = ItemOf(r) \/ Before(ItemOf(r), ItemOf(s))
    BY <1>1 DEF Before
  <2>2. QED
    <3> HIDE DEF items, ItemOf
    <3>1. QED
      BY <1>2, <2>1
<1>5. BlockMatches(block, url)
  <2>1. ItemOf(r) \in block
    <3>1. \A z \in items : ~Between(ItemOf(r), z, ItemOf(r))
      BY <1>3, <1>4, BeforeIsOrder DEF Between
    <3>2. QED
      BY <1>4, <3>1 DEF BlockOf
  <2>2. r.condition.type = "host_exact" /\ r.condition.domain = host
    BY DEF HostCondition
  <2>3. \A x \in block : x.condition \in Conditions
    <3>1. \A x \in items : \E s \in EnabledRules(settings) : x.condition = s.condition
      BY <1>2
    <3>2. block \in SUBSET items
      BY DEF BlockOf
    <3>3. QED
      BY <1>1, <3>1, <3>2
  <2>4. hosts \in SUBSET HostConditions
    <3>1. ASSUME NEW x \in block, x.condition.type \in HostTypes
          PROVE  x.condition \in HostConditions
      <4>1. x.condition \in TextConditions => x.condition.type \in TextTypes
        BY DEF TextConditions
      <4>2. x.condition \notin TextConditions
        BY <3>1, <4>1 DEF HostTypes, TextTypes
      <4>3. QED
        BY <2>3, <4>2 DEF Conditions
    <3> HIDE DEF block
    <3>2. QED
      BY <3>1
  <2>5. r.condition \in hosts
    <3>1. ItemOf(r).condition = r.condition
      OBVIOUS
    <3> HIDE DEF ItemOf, block
    <3>2. QED
      BY <2>1, <2>2, <3>1 DEF HostTypes, block
  <2>6. HostMatches(r.condition, host)
    BY <2>2 DEF HostMatches
  <2>7. MatchesHost(url.host, TrieOf(hosts))
    <3> HIDE DEF hosts
    <3>1. QED
      BY <2>4, <2>5, <2>6, TrieMatches
  <2>8. QED
    BY <2>7, Zenon DEF BlockMatches
<1>6. ItemOf(r) \in answering /\ answering \in SUBSET items
  <2> HIDE DEF items, ItemOf
  <2>1. QED
    BY <1>4, <1>5 DEF Answering
<1>7. First(answering) = ItemOf(r)
  <2>1. Comparable(answering)
    BY <1>3, <1>6, ComparablePart
  <2> HIDE DEF items, ItemOf, answering
  <2>2. QED
    BY <1>4, <1>6, <2>1, FirstIs
<1>8. Pac(settings, url) = First(answering).result
  <2>1. answering # {}
    <3> HIDE DEF answering, ItemOf
    <3>1. QED
      BY <1>6
  <2>2. QED
    BY <2>1, Zenon DEF Pac
<1>9. QED
  BY <1>7, <1>8

-----------------------------------------------------------------------------
(* The array of rules *)

\* u is r at some position.
SameRule(u, r) ==
    /\ u.id = r.id /\ u.order = r.order /\ u.enabled = r.enabled
    /\ u.condition = r.condition /\ u.profile = r.profile

\* after has the rules of before, at other positions.
Moved(before, after) ==
    /\ \A u \in after : \E r \in before : SameRule(u, r)
    /\ \A r \in before : \E u \in after : SameRule(u, r)

LEMMA PlaceOf ==
    ASSUME NEW r \in Rules, NEW n \in Int
    PROVE  LET u == [r EXCEPT !.place = n]
           IN  u \in Rules /\ SameRule(u, r) /\ u.place = n
  BY DEF Rules, SameRule

\* A total order of rules: ahead[r] are those before r.
Ranking(ahead, rules) ==
    /\ ahead \in [rules -> SUBSET rules]
    /\ \A r \in rules : r \notin ahead[r]
    /\ \A r, s \in rules : r \in ahead[s] => ahead[r] \subseteq ahead[s]
    /\ \A r, s \in rules : r = s \/ r \in ahead[s] \/ s \in ahead[r]

\* The positions are those of the order.
PlacedBy(ahead, rules, after) ==
    /\ after \in SUBSET Rules /\ Distinct(after) /\ Moved(rules, after)
    /\ \A u \in after : u.place \in 0 .. Cardinality(after) - 1
    /\ \A u, v \in after, r, s \in rules :
         u.id = r.id /\ v.id = s.id => (u.place < v.place <=> r \in ahead[s])

\* The positions by the number of rules ahead are those of a total order.
LEMMA Ranked ==
    ASSUME NEW rules \in SUBSET Rules, Distinct(rules), NEW ahead, Ranking(ahead, rules),
           NEW after, after = {[r EXCEPT !.place = Cardinality(ahead[r])] : r \in rules}
    PROVE  PlacedBy(ahead, rules, after)
<1>0. /\ ahead \in [rules -> SUBSET rules]
      /\ \A r \in rules : r \notin ahead[r]
      /\ \A r, s \in rules : r \in ahead[s] => ahead[r] \subseteq ahead[s]
      /\ \A r, s \in rules : r = s \/ r \in ahead[s] \/ s \in ahead[r]
      /\ IsFiniteSet(rules) /\ \A r, s \in rules : r.id = s.id => r = s
  BY DEF Ranking, Distinct
<1> DEFINE Copy(r) == [r EXCEPT !.place = Cardinality(ahead[r])]
<1>1. ASSUME NEW r \in rules
      PROVE  /\ Cardinality(ahead[r]) \in Nat /\ Cardinality(rules) \in Nat
             /\ Cardinality(ahead[r]) < Cardinality(rules)
  <2>1. ahead[r] \in SUBSET rules /\ r \notin ahead[r]
    BY <1>0
  <2>2. QED
    BY <1>0, <2>1, SmallerPart
<1>2. ASSUME NEW r \in rules
      PROVE  /\ Copy(r) \in Rules /\ SameRule(Copy(r), r) /\ Copy(r).place = Cardinality(ahead[r])
             /\ Copy(r).id = r.id
  <2>1. r \in Rules /\ Cardinality(ahead[r]) \in Int
    BY <1>1
  <2>2. QED
    BY <2>1, PlaceOf DEF SameRule
<1>3. after = {Copy(r) : r \in rules}
  OBVIOUS
<1> HIDE DEF Copy
<1>4. after \in SUBSET Rules /\ Moved(rules, after)
  BY <1>2, <1>3 DEF Moved
<1>5. \A r, s \in rules : r \in ahead[s] => Cardinality(ahead[r]) < Cardinality(ahead[s])
  <2>1. ASSUME NEW r \in rules, NEW s \in rules, r \in ahead[s]
        PROVE  Cardinality(ahead[r]) < Cardinality(ahead[s])
    <3>1. ahead[s] \in SUBSET rules /\ IsFiniteSet(ahead[s])
      BY <1>0, FS_Subset
    <3>2. ahead[r] \in SUBSET ahead[s] /\ r \notin ahead[r]
      BY <1>0, <2>1
    <3>3. QED
      BY <2>1, <3>1, <3>2, SmallerPart
  <2>2. QED
    BY <2>1
<1>6. \A r, s \in rules : (Cardinality(ahead[r]) < Cardinality(ahead[s]) <=> r \in ahead[s])
                       /\ (Cardinality(ahead[r]) = Cardinality(ahead[s]) => r = s)
  BY <1>0, <1>1, <1>5
<1>7. IsFiniteSet(after) /\ Cardinality(rules) <= Cardinality(after)
  <2> DEFINE f == [r \in rules |-> Copy(r)]
  <2>1. DOMAIN f = rules /\ f = [r \in rules |-> f[r]] /\ \A r \in rules : f[r] = Copy(r)
    OBVIOUS
  <2>2. {f[r] : r \in rules} = after
    BY <1>3, <2>1
  <2>3. f \in [rules -> after]
    BY <1>3
  <2> HIDE DEF f
  <2>4. IsFiniteSet(after)
    BY <1>0, <2>1, <2>2, FiniteImage
  <2>5. f \in Injection(rules, after)
    <3>1. \A r, s \in rules : f[r] = f[s] => r = s
      BY <1>0, <1>2, <2>1
    <3>2. QED
      BY <2>1, <2>3, <3>1 DEF Injection, IsInjective
  <2>6. QED
    BY <2>4, <2>5, FS_Injection
<1>8. \A u, v \in after, r, s \in rules :
        u.id = r.id /\ v.id = s.id => (u.place < v.place <=> r \in ahead[s])
  <2>1. \A u \in after, r \in rules : u.id = r.id => u.place = Cardinality(ahead[r])
    BY <1>0, <1>2, <1>3
  <2>2. QED
    BY <1>0, <1>6, <2>1
<1>9. \A u, v \in after : u.id = v.id \/ u.place = v.place => u = v
  BY <1>0, <1>2, <1>3, <1>6
<1>10. \A u \in after : u.place \in 0 .. Cardinality(after) - 1
  <2>1. Cardinality(after) \in Nat
    BY <1>7, FS_CardinalityType
  <2>2. QED
    BY <1>1, <1>2, <1>3, <1>7, <2>1
<1>11. QED
  BY <1>4, <1>7, <1>8, <1>9, <1>10 DEF Distinct, PlacedBy

LEMMA PlacedOf ==
    ASSUME NEW rules \in SUBSET Rules, Distinct(rules)
    PROVE  /\ Placed(rules) \in SUBSET Rules /\ Distinct(Placed(rules)) /\ Moved(rules, Placed(rules))
           /\ \A u \in Placed(rules) : u.place \in 0 .. Cardinality(Placed(rules)) - 1
           /\ \A u, v \in Placed(rules), r, s \in rules :
                u.id = r.id /\ v.id = s.id => (u.place < v.place <=> r.place < s.place)
<1> DEFINE ahead == [r \in rules |-> {s \in rules : s.place < r.place}]
<1>1. \A r \in rules : r.place \in Int
  BY DEF Rules
<1>2. \A r, s \in rules : r \in ahead[s] <=> r.place < s.place
  OBVIOUS
<1>3. ahead \in [rules -> SUBSET rules]
  OBVIOUS
<1>4. Placed(rules) = {[r EXCEPT !.place = Cardinality(ahead[r])] : r \in rules}
  BY DEF Placed
<1>5. \A r, s \in rules : r \in ahead[s] => ahead[r] \subseteq ahead[s]
  BY <1>1, <1>3
<1> HIDE DEF ahead
<1>6. /\ \A r \in rules : r \notin ahead[r]
      /\ \A r, s \in rules : r = s \/ r \in ahead[s] \/ s \in ahead[r]
  BY <1>1, <1>2 DEF Distinct
<1>7. Ranking(ahead, rules)
  BY <1>3, <1>5, <1>6, Zenon DEF Ranking
<1>8. PlacedBy(ahead, rules, Placed(rules))
  BY <1>4, <1>7, Ranked
<1>9. QED
  BY <1>2, <1>8 DEF PlacedBy

LEMMA ByOrderOf ==
    ASSUME NEW rules \in SUBSET Rules, Distinct(rules)
    PROVE  /\ ByOrder(rules) \in SUBSET Rules /\ Distinct(ByOrder(rules)) /\ Moved(rules, ByOrder(rules))
           /\ \A u, v \in ByOrder(rules), r, s \in rules :
                u.id = r.id /\ v.id = s.id => (u.place < v.place <=> Earlier(r, s))
<1> DEFINE ahead == [r \in rules |-> {s \in rules : Earlier(s, r)}]
<1>1. \A r \in rules : r.place \in Int /\ r.order \in Int
  BY DEF Rules
<1>2. \A r, s \in rules : r \in ahead[s] <=> Earlier(r, s)
  OBVIOUS
<1>3. ahead \in [rules -> SUBSET rules]
  OBVIOUS
<1>4. ByOrder(rules) = {[r EXCEPT !.place = Cardinality(ahead[r])] : r \in rules}
  BY DEF ByOrder
<1> HIDE DEF ahead
<1>5. \A r, s \in rules : r \in ahead[s] => ahead[r] \subseteq ahead[s]
  BY <1>1, <1>2, <1>3 DEF Earlier
<1>6. /\ \A r \in rules : r \notin ahead[r]
      /\ \A r, s \in rules : r = s \/ r \in ahead[s] \/ s \in ahead[r]
  BY <1>1, <1>2 DEF Distinct, Earlier
<1>7. Ranking(ahead, rules)
  BY <1>3, <1>5, <1>6, Zenon DEF Ranking
<1>8. PlacedBy(ahead, rules, ByOrder(rules))
  BY <1>4, <1>7, Ranked
<1>9. QED
  BY <1>2, <1>8 DEF PlacedBy

\* u is r with another number.
Renumbered(u, r) ==
    u.id = r.id /\ u.enabled = r.enabled /\ u.condition = r.condition /\ u.profile = r.profile

\* The rules are numbered as they are stored.
LEMMA NumberedOf ==
    ASSUME NEW rules \in SUBSET Rules, Distinct(rules)
    PROVE  /\ Numbered(rules) \in SUBSET Rules /\ Distinct(Numbered(rules))
           /\ \A u \in Numbered(rules) : \E r \in rules : Renumbered(u, r)
           /\ \A r \in rules : \E u \in Numbered(rules) : Renumbered(u, r)
           /\ \A u, v \in Numbered(rules), r, s \in rules :
                u.id = r.id /\ v.id = s.id => (Before(u, v) <=> r.place < s.place)
<1> DEFINE placed == Placed(rules)
           Copy(u) == [u EXCEPT !.order = u.place]
<1>1. /\ placed \in SUBSET Rules /\ Distinct(placed) /\ Moved(rules, placed)
      /\ \A u, v \in placed, r, s \in rules :
            u.id = r.id /\ v.id = s.id => (u.place < v.place <=> r.place < s.place)
  BY PlacedOf
<1>2. Numbered(rules) = {Copy(u) : u \in placed}
  BY DEF Numbered
<1>3. ASSUME NEW u \in placed
      PROVE  /\ Copy(u) \in Rules /\ Renumbered(Copy(u), u) /\ Copy(u).id = u.id
             /\ Copy(u).order = u.place /\ Copy(u).place = u.place /\ u.place \in Int /\ u.id \in RuleIds
  BY <1>1 DEF Rules, Renumbered
<1>4. IsFiniteSet({Copy(u) : u \in placed})
  <2> DEFINE f == [u \in placed |-> Copy(u)]
  <2>1. DOMAIN f = placed /\ f = [u \in placed |-> f[u]] /\ \A u \in placed : f[u] = Copy(u)
    OBVIOUS
  <2>2. {f[u] : u \in placed} = {Copy(u) : u \in placed} /\ IsFiniteSet(placed)
    BY <1>1, <2>1 DEF Distinct
  <2> HIDE DEF f, Copy
  <2>3. QED
    BY <2>1, <2>2, FiniteImage
<1> HIDE DEF placed, Copy
<1>5. Numbered(rules) \in SUBSET Rules
  BY <1>2, <1>3
<1>6. Distinct(Numbered(rules))
  <2>1. \A x, y \in Numbered(rules) : x.id = y.id \/ x.place = y.place => x = y
    BY <1>1, <1>2, <1>3 DEF Distinct
  <2>2. QED
    BY <1>2, <1>4, <2>1 DEF Distinct
<1>7. /\ \A u \in Numbered(rules) : \E r \in rules : Renumbered(u, r)
      /\ \A r \in rules : \E u \in Numbered(rules) : Renumbered(u, r)
  BY <1>1, <1>2, <1>3 DEF Moved, SameRule, Renumbered
<1>8. ASSUME NEW u \in Numbered(rules), NEW v \in Numbered(rules), NEW r \in rules, NEW s \in rules,
             u.id = r.id, v.id = s.id
      PROVE  Before(u, v) <=> r.place < s.place
  <2>1. PICK x \in placed, y \in placed : u = Copy(x) /\ v = Copy(y)
    BY <1>2
  <2>2. /\ x.id = r.id /\ y.id = s.id /\ u.order = x.place /\ v.order = y.place
        /\ x.place \in Int /\ y.place \in Int
    BY <1>3, <1>8, <2>1
  <2>3. x.place < y.place <=> r.place < s.place
    BY <1>1, <2>2
  <2>4. x.place = y.place => x = y /\ u.id = v.id
    BY <1>1, <1>3, <2>1 DEF Distinct
  <2>5. u.id \in Nat /\ v.id \in Nat
    BY <1>3, <2>1, ProxyRulesConstants
  <2>6. QED
    BY <2>2, <2>3, <2>4, <2>5 DEF Before
<1>9. QED
  BY <1>5, <1>6, <1>7, <1>8

-----------------------------------------------------------------------------
(* The settings *)

\* What is stored refers to profiles that are routable.
Sound(settings) ==
    /\ Edited(settings)
    /\ \A r \in settings.rules :
         r.profile \in Routable(settings) /\ r.place \in 0 .. Cardinality(settings.rules) - 1
    /\ settings.default \in Routable(settings)
    /\ settings.source # NoSource => {settings.source.match, settings.source.bypass} \subseteq Routable(settings)
    /\ settings.active \in Custom => settings.active \in PrDefined(settings)

\* A rule for the site that was routed comes before all others.
RouteFirst(settings, routed) ==
    routed # NoRoute =>
        /\ routed.host \in Domains /\ routed.profile \in Routable(settings)
        /\ \E r \in EnabledRules(settings) :
              /\ r.condition = HostCondition("host_exact", routed.host) /\ r.profile = routed.profile
              /\ \A s \in settings.rules : s = r \/ Before(r, s)

LEMMA SameProfiles ==
    ASSUME NEW settings, NEW others, others.profiles = settings.profiles
    PROVE  /\ PrDefined(others) = PrDefined(settings) /\ Routable(others) = Routable(settings)
           /\ \A p : ValueOf(others, p) = ValueOf(settings, p)
  BY DEF PrDefined, Routable, ValueOf

LEMMA SettingsTyped ==
    ASSUME NEW settings \in PrSettings
    PROVE  /\ settings.profiles \in [Custom -> ProfileValues \cup {NoValue}]
           /\ settings.rules \in SUBSET Rules /\ settings.default \in Names
           /\ settings.active \in Names \cup {"none", "auto"} /\ settings.source \in Sources \cup {NoSource}
           /\ settings = [profiles |-> settings.profiles, rules |-> settings.rules,
                          default |-> settings.default, active |-> settings.active,
                          source |-> settings.source]
  BY DEF PrSettings

LEMMA RoutableNames ==
    ASSUME NEW settings
    PROVE  /\ Routable(settings) \subseteq {"direct"} \cup PrDefined(settings)
           /\ "direct" \in Routable(settings) /\ PrDefined(settings) \subseteq Custom
           /\ Routable(settings) \subseteq Names /\ Custom \subseteq Names /\ "direct" \in Names
  BY DEF Routable, PrDefined, Names

\* The record with four fields replaced, field by field.
LEMMA SettingsReplaced ==
    ASSUME NEW settings, NEW p, NEW r, NEW f, NEW t, NEW o,
           settings = [profiles |-> p, rules |-> r, default |-> f, active |-> t, source |-> o],
           NEW a, NEW b, NEW c, NEW d
    PROVE  [settings EXCEPT !.rules = a, !.default = b, !.source = c, !.active = d] =
               [profiles |-> p, rules |-> a, default |-> b, active |-> d, source |-> c]
<1> DEFINE first == [settings EXCEPT !.rules = a]
           second == [first EXCEPT !.default = b]
           third == [second EXCEPT !.source = c]
           fourth == [third EXCEPT !.active = d]
<1>1. [settings EXCEPT !.rules = a, !.default = b, !.source = c, !.active = d] = fourth
  OBVIOUS
<1>2. first = [profiles |-> p, rules |-> a, default |-> f, active |-> t, source |-> o]
  OBVIOUS
<1> HIDE DEF first
<1>3. second = [profiles |-> p, rules |-> a, default |-> b, active |-> t, source |-> o]
  BY <1>2
<1> HIDE DEF second
<1>4. third = [profiles |-> p, rules |-> a, default |-> b, active |-> t, source |-> c]
  BY <1>3
<1> HIDE DEF third
<1>5. fourth = [profiles |-> p, rules |-> a, default |-> b, active |-> d, source |-> c]
  BY <1>4
<1>6. QED
  BY <1>1, <1>5

\* What normalizeState makes of each field.
LEMMA NormalizedFields ==
    ASSUME NEW settings \in PrSettings
    PROVE  LET after == Normalized(settings)
           IN  /\ after.profiles = settings.profiles
               /\ after.rules = Placed({r \in settings.rules : r.profile \in Routable(settings)})
               /\ after.default = IF settings.default \in Routable(settings) THEN settings.default ELSE "direct"
               /\ after.source =
                    IF settings.source # NoSource
                         /\ {settings.source.match, settings.source.bypass} \subseteq Routable(settings)
                    THEN settings.source ELSE NoSource
               /\ after.active = IF settings.active \in {"none", "auto", "direct"} \cup PrDefined(settings)
                                 THEN settings.active ELSE "none"
               /\ after = [profiles |-> after.profiles, rules |-> after.rules, default |-> after.default,
                           active |-> after.active, source |-> after.source]
<1>1. settings = [profiles |-> settings.profiles, rules |-> settings.rules,
                  default |-> settings.default, active |-> settings.active,
                  source |-> settings.source]
  BY SettingsTyped
<1> DEFINE a == Placed({r \in settings.rules : r.profile \in Routable(settings)})
           b == IF settings.default \in Routable(settings) THEN settings.default ELSE "direct"
           c == IF settings.source # NoSource
                     /\ {settings.source.match, settings.source.bypass} \subseteq Routable(settings)
                THEN settings.source ELSE NoSource
           d == IF settings.active \in {"none", "auto", "direct"} \cup PrDefined(settings)
                THEN settings.active ELSE "none"
<1>2. Normalized(settings) = [settings EXCEPT !.rules = a, !.default = b, !.source = c, !.active = d]
  BY Zenon DEF Normalized
<1> HIDE DEF a, b, c, d
<1>3. Normalized(settings) =
        [profiles |-> settings.profiles, rules |-> a, default |-> b, active |-> d, source |-> c]
  BY <1>1, <1>2, SettingsReplaced
<1>4. QED
  BY <1>3 DEF a, b, c, d

\* Normalizing makes edited settings sound.
LEMMA NormalizedSound ==
    ASSUME NEW settings, Edited(settings)
    PROVE  /\ Sound(Normalized(settings))
           /\ Moved({r \in settings.rules : r.profile \in Routable(settings)}, Normalized(settings).rules)
<1> DEFINE after == Normalized(settings)
           usable == {r \in settings.rules : r.profile \in Routable(settings)}
<1>1. settings \in PrSettings /\ Distinct(settings.rules) /\ ReadWell(settings.source)
  BY DEF Edited
<1>2. usable \in SUBSET Rules /\ Distinct(usable)
  <2>1. usable \in SUBSET settings.rules /\ settings.rules \in SUBSET Rules
    BY <1>1, SettingsTyped
  <2>2. IsFiniteSet(usable)
    BY <1>1, <2>1, FS_Subset DEF Distinct
  <2>3. QED
    BY <1>1, <2>1, <2>2 DEF Distinct
<1>3. after.rules = Placed(usable) /\ after.profiles = settings.profiles
  BY <1>1, NormalizedFields
<1>4. /\ after.rules \in SUBSET Rules /\ Distinct(after.rules) /\ Moved(usable, after.rules)
      /\ \A u \in after.rules : u.place \in 0 .. Cardinality(after.rules) - 1
  <2> HIDE DEF usable, after
  <2>1. QED
    BY <1>2, <1>3, PlacedOf
<1>5. PrDefined(after) = PrDefined(settings) /\ Routable(after) = Routable(settings)
  BY <1>3, SameProfiles
<1>6. \A u \in after.rules : u.profile \in Routable(after)
  <2>1. \A r \in usable : r.profile \in Routable(after)
    BY <1>5
  <2> HIDE DEF usable, after
  <2>2. QED
    BY <1>4, <2>1 DEF Moved, SameRule
<1>7. after.default \in Routable(after) /\ after.default \in Names
  BY <1>1, <1>5, NormalizedFields, RoutableNames
<1>8. /\ after.source \in Sources \cup {NoSource} /\ ReadWell(after.source)
      /\ after.source # NoSource => {after.source.match, after.source.bypass} \subseteq Routable(after)
  <2>1. settings.source \in Sources \cup {NoSource}
    BY <1>1, SettingsTyped
  <2>2. ReadWell(NoSource)
    BY DEF ReadWell
  <2>3. after.source = IF settings.source # NoSource
                         /\ {settings.source.match, settings.source.bypass} \subseteq Routable(settings)
                       THEN settings.source ELSE NoSource
    BY <1>1, NormalizedFields
  <2> HIDE DEF after
  <2>4. QED
    BY <1>1, <1>5, <2>1, <2>2, <2>3
<1>9. /\ after.active \in Names \cup {"none", "auto"}
      /\ after.active \in Custom => after.active \in PrDefined(after)
  <2>1. after.active = IF settings.active \in {"none", "auto", "direct"} \cup PrDefined(settings)
                       THEN settings.active ELSE "none"
    BY <1>1, NormalizedFields
  <2>2. settings.active \in Names \cup {"none", "auto"} /\ {"none", "auto", "direct"} \cap Custom = {}
    BY <1>1, SettingsTyped, ProxyRulesConstants
  <2> HIDE DEF after
  <2>3. QED
    BY <1>5, <2>1, <2>2
<1>10. after \in PrSettings
  <2>1. after = [profiles |-> after.profiles, rules |-> after.rules, default |-> after.default,
                 active |-> after.active, source |-> after.source]
    BY <1>1, NormalizedFields
  <2>2. after.profiles \in [Custom -> ProfileValues \cup {NoValue}]
    BY <1>1, <1>3, SettingsTyped
  <2> HIDE DEF after
  <2>3. QED
    BY <1>4, <1>7, <1>8, <1>9, <2>1, <2>2 DEF PrSettings
<1> HIDE DEF after, usable
<1>11. Edited(after)
  BY <1>4, <1>8, <1>10 DEF Edited
<1>12. Sound(after)
  BY <1>4, <1>6, <1>7, <1>8, <1>9, <1>11 DEF Sound
<1>13. QED
  BY <1>4, <1>12 DEF after, usable

\* It leaves the rules in the order in which they come.
LEMMA NormalizedOrder ==
    ASSUME NEW settings, Edited(settings), NEW before, NEW ids, SameOrder(before, settings.rules, ids)
    PROVE  SameOrder(before, Normalized(settings).rules, ids)
<1>1. \A u \in Normalized(settings).rules : \E r \in settings.rules : u.id = r.id /\ u.order = r.order
  BY NormalizedSound DEF Moved, SameRule
<1>2. ASSUME NEW r \in before, NEW s \in before, NEW u \in Normalized(settings).rules,
             NEW v \in Normalized(settings).rules,
             r.id = u.id, s.id = v.id, {r.id, s.id} \cap ids = {}
      PROVE  Before(r, s) <=> Before(u, v)
  <2>1. PICK x \in settings.rules : u.id = x.id /\ u.order = x.order
    BY <1>1
  <2>2. PICK y \in settings.rules : v.id = y.id /\ v.order = y.order
    BY <1>1
  <2>3. Before(r, s) <=> Before(x, y)
    BY <1>2, <2>1, <2>2 DEF SameOrder
  <2>4. Before(x, y) <=> Before(u, v)
    BY <2>1, <2>2 DEF Before
  <2>5. QED
    BY <2>3, <2>4
<1>3. QED
  BY <1>2, Zenon DEF SameOrder

\* And the rule of the site that was routed before the others.
LEMMA NormalizedRoute ==
    ASSUME NEW settings, Edited(settings), NEW routed, RouteFirst(settings, routed)
    PROVE  RouteFirst(Normalized(settings), routed)
<1> SUFFICES ASSUME routed # NoRoute
             PROVE  RouteFirst(Normalized(settings), routed)
  BY DEF RouteFirst
<1> DEFINE after == Normalized(settings)
<1>1. PICK r \in EnabledRules(settings) :
         /\ r.condition = HostCondition("host_exact", routed.host) /\ r.profile = routed.profile
         /\ \A s \in settings.rules : s = r \/ Before(r, s)
  BY DEF RouteFirst
<1>2. routed.host \in Domains /\ routed.profile \in Routable(settings)
  BY DEF RouteFirst
<1>3. r \in settings.rules /\ r.enabled
  BY DEF EnabledRules
<1>4. Routable(after) = Routable(settings)
  <2>1. after.profiles = settings.profiles
    BY NormalizedFields DEF Edited
  <2>2. QED
    BY <2>1, SameProfiles
<1>5. Sound(after) /\ Moved({x \in settings.rules : x.profile \in Routable(settings)}, after.rules)
  BY NormalizedSound
<1> HIDE DEF after
<1>6. PICK u \in after.rules : SameRule(u, r)
  BY <1>1, <1>2, <1>3, <1>5 DEF Moved
<1>7. ASSUME NEW v \in after.rules PROVE v = u \/ Before(u, v)
  <2>1. PICK s \in settings.rules : SameRule(v, s)
    BY <1>5 DEF Moved
  <2>2. s = r \/ Before(r, s)
    BY <1>1
  <2>3. s = r => v = u
    BY <1>5, <1>6, <2>1 DEF SameRule, Sound, Edited, Distinct
  <2>4. Before(r, s) => Before(u, v)
    BY <1>6, <2>1 DEF SameRule, Before
  <2>5. QED
    BY <2>2, <2>3, <2>4
<1>8. u \in EnabledRules(after) /\ u.condition = r.condition /\ u.profile = r.profile
  BY <1>3, <1>6 DEF SameRule, EnabledRules
<1>9. QED
  BY <1>1, <1>2, <1>4, <1>7, <1>8 DEF RouteFirst, after

-----------------------------------------------------------------------------
(* The parser *)

Lines == DomainLines \cup OtherLines

\* What has been read so far: rules that compile, none twice, and the counts of the lines.
ReadSoFar(parsed) ==
    /\ parsed \in [rules : Seq(ParsedRules), total : Nat, ignored : Nat, invalid : Nat]
    /\ \A i \in 1 .. Len(parsed.rules) :
         parsed.rules[i].condition.valid
    /\ \A i, j \in 1 .. Len(parsed.rules) : parsed.rules[i] = parsed.rules[j] => i = j
    /\ parsed.total = Len(parsed.rules) + parsed.ignored + parsed.invalid

LEMMA ConditionsMade ==
    /\ \A type \in HostTypes, domain \in Domains :
         /\ LET c == HostCondition(type, domain) IN c \in Conditions /\ c.valid
         /\ LET c == DottedCondition(type, domain) IN c \in Conditions /\ c.valid
    /\ \A type \in TextTypes, hits \in SUBSET Addresses :
         LET c == TextCondition(type, hits) IN c \in Conditions /\ c.valid
<1>1. ASSUME NEW type \in HostTypes, NEW domain \in Domains
      PROVE  /\ LET c == HostCondition(type, domain) IN c \in Conditions /\ c.valid
             /\ LET c == DottedCondition(type, domain) IN c \in Conditions /\ c.valid
  <2>1. HostCondition(type, domain) \in HostConditions /\ HostCondition(type, domain).valid
    BY DEF HostCondition, HostConditions
  <2>2. DottedCondition(type, domain) \in HostConditions /\ DottedCondition(type, domain).valid
    BY <2>1 DEF DottedCondition, HostConditions
  <2>3. QED
    BY <2>1, <2>2 DEF Conditions
<1>2. ASSUME NEW type \in TextTypes, NEW hits \in SUBSET Addresses
      PROVE  LET c == TextCondition(type, hits) IN c \in Conditions /\ c.valid
  <2>1. TextCondition(type, hits) \in TextConditions
    BY DEF TextCondition, TextConditions
  <2>2. QED
    BY <2>1 DEF TextCondition, Conditions
<1>3. QED
  BY <1>1, <1>2

\* Every format makes conditions that compile of the lines that it takes.
LEMMA ReadingOf ==
    ASSUME NEW text \in SourceTexts, NEW line \in Lines, Reading(text, line).is = "rule"
    PROVE  LET c == Reading(text, line).condition IN c \in Conditions /\ c.valid
<1>1. /\ line.form \in {"domain", "subdomain", "dots"} => line.domain \in Domains
      /\ line.hits \in SUBSET Addresses /\ line.exception \in BOOLEAN
  BY DEF Lines, DomainLines, OtherLines
<1>2. "host_suffix" \in HostTypes /\ "host_wildcard" \in HostTypes
      /\ "url_wildcard" \in TextTypes /\ "keyword" \in TextTypes
  BY DEF HostTypes, TextTypes
<1>3. \/ /\ line.form \in {"domain", "subdomain", "dots"}
         /\ Reading(text, line).condition \in {HostCondition("host_suffix", line.domain),
                                               HostCondition("host_wildcard", line.domain),
                                               DottedCondition("host_suffix", line.domain)}
      \/ Reading(text, line).condition \in {TextCondition("url_wildcard", line.hits),
                                            TextCondition("keyword", line.hits)}
  <2>0. text.format \in {"autoproxy", "switchyomega", "hosts"}
    BY ProxyRulesInputs
  <2>1. CASE text.format = "autoproxy"
    <3>1. Reading(text, line) = AutoProxyLine(line)
      BY <2>1 DEF Reading
    <3>2. QED
      BY <3>1 DEF AutoProxyLine
  <2>2. CASE text.format = "switchyomega"
    <3>1. Reading(text, line) = SwitchyLine(line, text.results)
      BY <2>2 DEF Reading
    <3>2. QED
      BY <3>1 DEF SwitchyLine
  <2>3. CASE text.format = "hosts"
    <3>1. Reading(text, line) = HostsLine(line)
      BY <2>3 DEF Reading
    <3>2. QED
      BY <3>1 DEF HostsLine
  <2>4. QED
    BY <2>0, <2>1, <2>2, <2>3
<1>4. CASE /\ line.form \in {"domain", "subdomain", "dots"}
           /\ Reading(text, line).condition \in {HostCondition("host_suffix", line.domain),
                                                 HostCondition("host_wildcard", line.domain),
                                                 DottedCondition("host_suffix", line.domain)}
  BY <1>1, <1>2, <1>4, ConditionsMade
<1>5. CASE Reading(text, line).condition \in {TextCondition("url_wildcard", line.hits),
                                              TextCondition("keyword", line.hits)}
  BY <1>1, <1>2, <1>5, ConditionsMade
<1>6. QED
  BY <1>3, <1>4, <1>5

\* The records with two fields replaced, field by field.
LEMMA CountsReplaced ==
    ASSUME NEW parsed, NEW r, NEW t, NEW g, NEW v,
           parsed = [rules |-> r, total |-> t, ignored |-> g, invalid |-> v], NEW a, NEW b
    PROVE  /\ [parsed EXCEPT !.total = a, !.ignored = b] =
                  [rules |-> r, total |-> a, ignored |-> b, invalid |-> v]
           /\ [parsed EXCEPT !.total = a, !.invalid = b] =
                  [rules |-> r, total |-> a, ignored |-> g, invalid |-> b]
           /\ [parsed EXCEPT !.total = a, !.rules = b] =
                  [rules |-> b, total |-> a, ignored |-> g, invalid |-> v]
<1> DEFINE first == [parsed EXCEPT !.total = a]
<1>1. /\ [parsed EXCEPT !.total = a, !.ignored = b] = [first EXCEPT !.ignored = b]
      /\ [parsed EXCEPT !.total = a, !.invalid = b] = [first EXCEPT !.invalid = b]
      /\ [parsed EXCEPT !.total = a, !.rules = b] = [first EXCEPT !.rules = b]
  OBVIOUS
<1>2. first = [rules |-> r, total |-> a, ignored |-> g, invalid |-> v]
  OBVIOUS
<1> HIDE DEF first
<1>3. [first EXCEPT !.ignored = b] = [rules |-> r, total |-> a, ignored |-> b, invalid |-> v]
  BY <1>2
<1>4. [first EXCEPT !.invalid = b] = [rules |-> r, total |-> a, ignored |-> g, invalid |-> b]
  BY <1>2
<1>5. [first EXCEPT !.rules = b] = [rules |-> b, total |-> a, ignored |-> g, invalid |-> v]
  BY <1>2
<1>6. QED
  BY <1>1, <1>3, <1>4, <1>5

\* A line counts once, as a rule, as ignored or as invalid, or not at all.
LEMMA AddLineOf ==
    ASSUME NEW text \in SourceTexts, NEW line \in Lines, NEW parsed, ReadSoFar(parsed)
    PROVE  ReadSoFar(AddLine(text, parsed, line))
<1> DEFINE reading == Reading(text, line)
           rule == [condition |-> reading.condition, exception |-> line.exception,
                    result |-> IF text.results THEN line.result ELSE "none"]
           after == AddLine(text, parsed, line)
<1>0. /\ parsed.rules \in Seq(ParsedRules) /\ parsed.total \in Nat
      /\ parsed.ignored \in Nat /\ parsed.invalid \in Nat
      /\ parsed = [rules |-> parsed.rules, total |-> parsed.total, ignored |-> parsed.ignored,
                   invalid |-> parsed.invalid]
  BY DEF ReadSoFar
<1>1. \/ after = parsed
      \/ after = [parsed EXCEPT !.total = @ + 1, !.ignored = @ + 1]
      \/ after = [parsed EXCEPT !.total = @ + 1, !.invalid = @ + 1]
      \/ /\ reading.is = "rule" /\ rule \notin Range(parsed.rules)
         /\ after = [parsed EXCEPT !.total = @ + 1, !.rules = Append(@, rule)]
  <2>1. reading.is \in {"skipped", "ignored", "invalid", "rule"}
    <3>0. text.format \in {"autoproxy", "switchyomega", "hosts"}
      BY ProxyRulesInputs
    <3>1. CASE text.format = "autoproxy"
      BY <3>1 DEF Reading, AutoProxyLine
    <3>2. CASE text.format = "switchyomega"
      BY <3>2 DEF Reading, SwitchyLine
    <3>3. CASE text.format = "hosts"
      BY <3>3 DEF Reading, HostsLine
    <3>4. QED
      BY <3>0, <3>1, <3>2, <3>3
  <2>2. after = CASE reading.is = "skipped" -> parsed
          [] reading.is = "ignored" -> [parsed EXCEPT !.total = @ + 1, !.ignored = @ + 1]
          [] reading.is = "invalid" -> [parsed EXCEPT !.total = @ + 1, !.invalid = @ + 1]
          [] reading.is = "rule" /\ rule \in Range(parsed.rules) ->
                [parsed EXCEPT !.total = @ + 1, !.ignored = @ + 1]
          [] OTHER -> [parsed EXCEPT !.total = @ + 1, !.rules = Append(@, rule)]
    BY DEF AddLine
  <2> HIDE DEF reading, rule, after
  <2>3. QED
    BY <2>1, <2>2
<1>2. CASE after = parsed
  BY <1>2
<1>3. CASE \/ after = [parsed EXCEPT !.total = @ + 1, !.ignored = @ + 1]
           \/ after = [parsed EXCEPT !.total = @ + 1, !.invalid = @ + 1]
  <2>1. \/ after = [rules |-> parsed.rules, total |-> parsed.total + 1,
                    ignored |-> parsed.ignored + 1, invalid |-> parsed.invalid]
        \/ after = [rules |-> parsed.rules, total |-> parsed.total + 1,
                    ignored |-> parsed.ignored, invalid |-> parsed.invalid + 1]
    BY <1>0, <1>3, CountsReplaced
  <2> HIDE DEF after
  <2>2. /\ after \in [rules : Seq(ParsedRules), total : Nat, ignored : Nat, invalid : Nat]
        /\ after.rules = parsed.rules
        /\ after.total = parsed.total + 1 /\ after.ignored + after.invalid = parsed.ignored + parsed.invalid + 1
    BY <1>0, <2>1
  <2>3. /\ parsed.total = Len(parsed.rules) + parsed.ignored + parsed.invalid
        /\ \A i \in 1 .. Len(parsed.rules) :
             parsed.rules[i].condition.valid
        /\ \A i, j \in 1 .. Len(parsed.rules) : parsed.rules[i] = parsed.rules[j] => i = j
    BY DEF ReadSoFar
  <2>4. PICK rules \in Seq(ParsedRules) : rules = parsed.rules /\ after.rules = rules
    BY <1>0, <2>2
  <2>5. Len(rules) \in Nat /\ after.ignored \in Nat /\ after.invalid \in Nat
    BY <2>2
  <2>6. after.total = Len(rules) + after.ignored + after.invalid
    <3>1. parsed.total = Len(rules) + parsed.ignored + parsed.invalid
      BY <2>3, <2>4
    <3>2. QED
      BY <1>0, <2>2, <2>5, <3>1
  <2>7. /\ \A i \in 1 .. Len(after.rules) :
             after.rules[i].condition.valid
        /\ \A i, j \in 1 .. Len(after.rules) : after.rules[i] = after.rules[j] => i = j
    BY <2>2, <2>3, Zenon
  <2>8. after.total = Len(after.rules) + after.ignored + after.invalid
    BY <2>4, <2>6
  <2>9. ReadSoFar(after)
    BY <2>2, <2>7, <2>8, Zenon DEF ReadSoFar
  <2>10. QED
    BY <2>9, Zenon DEF after
<1>4. CASE /\ reading.is = "rule" /\ rule \notin Range(parsed.rules)
           /\ after = [parsed EXCEPT !.total = @ + 1, !.rules = Append(@, rule)]
  <2>1. reading.condition \in Conditions /\ reading.condition.valid
    BY <1>4, ReadingOf
  <2>2. rule \in ParsedRules /\ rule.condition = reading.condition
    <3>1. line.exception \in BOOLEAN /\ line.result \in STRING
      BY DEF Lines, DomainLines, OtherLines
    <3>2. PICK result \in STRING \cup {"none"} : result = IF text.results THEN line.result ELSE "none"
      BY ONLY <3>1
    <3>3. rule = [condition |-> reading.condition, exception |-> line.exception, result |-> result]
      BY <3>2
    <3> HIDE DEF reading, rule
    <3>4. QED
      BY <2>1, <3>1, <3>3 DEF ParsedRules, Conditions
  <2>14. after = [rules |-> Append(parsed.rules, rule), total |-> parsed.total + 1,
                 ignored |-> parsed.ignored, invalid |-> parsed.invalid]
    <3> HIDE DEF rule
    <3>1. QED
      BY <1>0, <1>4, CountsReplaced
  <2> HIDE DEF after, rule, reading
  <2>15. Append(parsed.rules, rule) \in Seq(ParsedRules)
    BY <1>0, <2>2
  <2>3. /\ after \in [rules : Seq(ParsedRules), total : Nat, ignored : Nat, invalid : Nat]
        /\ after.rules = Append(parsed.rules, rule) /\ after.total = parsed.total + 1
        /\ after.ignored = parsed.ignored /\ after.invalid = parsed.invalid
    BY <1>0, <2>14, <2>15
  <2>4. PICK rules \in Seq(ParsedRules) : rules = parsed.rules
    BY <1>0
  <2>5. /\ Len(Append(rules, rule)) = Len(rules) + 1 /\ Len(rules) \in Nat
        /\ \A i \in 1 .. Len(rules) + 1 :
              Append(rules, rule)[i] = IF i <= Len(rules) THEN rules[i] ELSE rule
    BY <2>2
  <2>6. \A i \in 1 .. Len(rules) : rules[i] # rule
    <3>1. DOMAIN rules = 1 .. Len(rules)
      BY LenProperties
    <3>2. QED
      BY <1>4, <2>4, <3>1 DEF Range
  <2>7. /\ \A i \in 1 .. Len(rules) : rules[i].condition.valid
        /\ \A i, j \in 1 .. Len(rules) : rules[i] = rules[j] => i = j
        /\ parsed.total = Len(rules) + parsed.ignored + parsed.invalid
    BY <2>4 DEF ReadSoFar
  <2>8. PICK more : more = after.rules
    OBVIOUS
  <2>9. /\ Len(more) = Len(rules) + 1
        /\ \A i \in 1 .. Len(more) : more[i] = IF i <= Len(rules) THEN rules[i] ELSE rule
    BY <2>3, <2>4, <2>5, <2>8
  <2>10. \A i \in 1 .. Len(more) : more[i].condition.valid
    BY <2>1, <2>2, <2>5, <2>7, <2>9
  <2>11. \A i, j \in 1 .. Len(more) : more[i] = more[j] => i = j
    BY <2>5, <2>6, <2>7, <2>9
  <2>12. after.total = Len(more) + after.ignored + after.invalid
    BY <1>0, <2>3, <2>5, <2>7, <2>9
  <2>13. QED
    <3>1. after \in [rules : Seq(ParsedRules), total : Nat, ignored : Nat, invalid : Nat]
      BY <2>3
    <3>2. \A i \in 1 .. Len(after.rules) :
               after.rules[i].condition.valid
      BY <2>8, <2>10, Zenon
    <3>3. \A i, j \in 1 .. Len(after.rules) : after.rules[i] = after.rules[j] => i = j
      BY <2>8, <2>11, Zenon
    <3>4. after.total = Len(after.rules) + after.ignored + after.invalid
      BY <2>8, <2>12, Zenon
    <3>5. ReadSoFar(after)
      BY <3>1, <3>2, <3>3, <3>4, Zenon DEF ReadSoFar
    <3>6. QED
      BY <3>5, Zenon DEF after
<1>5. QED
  BY <1>1, <1>2, <1>3, <1>4


\* The recursion of Parsed: what has been read after each of n steps.
ParseOf(text, m, parsed) ==
    parsed = [n \in 0 .. m |->
                IF n = 0 THEN NothingParsed
                ELSE LET line == text.lines[IF n <= Len(text.lines) THEN n ELSE n - Len(text.lines)]
                         first == text.format = "autoproxy" => line.exception
                     IN  IF first = (n <= Len(text.lines)) THEN AddLine(text, parsed[n - 1], line)
                         ELSE parsed[n - 1]]

\* The recursive function exists.
LEMMA ParseExists ==
    ASSUME NEW text, NEW m \in Nat
    PROVE  \E parsed : ParseOf(text, m, parsed)
<1> DEFINE failing == {n \in Nat : ~\E parsed : ParseOf(text, n, parsed)}
<1> SUFFICES ASSUME failing # {} PROVE FALSE
  OBVIOUS
<1>1. PICK k \in failing : \A n \in failing : k <= n
  BY LeastNumber
<1>2. CASE k = 0
  <2>1. ParseOf(text, 0, [n \in 0 .. 0 |-> NothingParsed])
    BY DEF ParseOf
  <2>2. QED
    BY <1>1, <1>2, <2>1
<1>3. CASE k # 0
  <2>1. k - 1 \in Nat /\ k - 1 \notin failing /\ k \in Nat
    BY <1>1, <1>3
  <2>2. PICK parsed : ParseOf(text, k - 1, parsed)
    BY <2>1
  <2> DEFINE Line(n) == text.lines[IF n <= Len(text.lines) THEN n ELSE n - Len(text.lines)]
             Takes(n) == (text.format = "autoproxy" => Line(n).exception) = (n <= Len(text.lines))
             Step(n, so) == IF Takes(n) THEN AddLine(text, so, Line(n)) ELSE so
             more == [n \in 0 .. k |-> IF n = k THEN Step(k, parsed[k - 1]) ELSE parsed[n]]
  <2>3. \A p, n : ParseOf(text, n, p) <=>
                    p = [i \in 0 .. n |-> IF i = 0 THEN NothingParsed ELSE Step(i, p[i - 1])]
    BY Zenon DEF ParseOf
  <2> HIDE DEF Step
  <2>4. \A n \in 0 .. k - 1 :
            parsed[n] = IF n = 0 THEN NothingParsed ELSE Step(n, parsed[n - 1])
    BY <2>2, <2>3
  <2>5. more = [i \in 0 .. k |-> IF i = 0 THEN NothingParsed ELSE Step(i, more[i - 1])]
    BY <1>3, <2>1, <2>4
  <2>6. ParseOf(text, k, more)
    BY <2>3, <2>5
  <2>7. QED
    BY <1>1, <2>6
<1>4. QED
  BY <1>2, <1>3

\* The counts of every text add up, and its rules compile, none twice.
LEMMA ParsedOf ==
    ASSUME NEW text \in SourceTexts
    PROVE  ReadSoFar(Parsed(text))
<1> DEFINE count == Len(text.lines)
           last == count + count
           Line(n) == text.lines[IF n <= count THEN n ELSE n - count]
           Takes(n) == (text.format = "autoproxy" => Line(n).exception) = (n <= count)
           Step(n, so) == IF Takes(n) THEN AddLine(text, so, Line(n)) ELSE so
           parsed == CHOOSE p : p = [n \in 0 .. last |->
                       IF n = 0 THEN NothingParsed ELSE Step(n, p[n - 1])]
<1>0. text.lines \in Seq(Lines) /\ count \in Nat /\ last \in Nat
  <2>1. text.lines \in Seq(Lines)
    BY ProxyRulesInputs DEF Lines
  <2>2. QED
    BY <2>1
<1>1. Parsed(text) = parsed[last]
  BY Zenon DEF Parsed
<1>2. ParseOf(text, last, parsed)
  <2>1. \E p : ParseOf(text, last, p)
    BY <1>0, ParseExists
  <2>2. QED
    BY <2>1, Zenon DEF ParseOf
<1>3. parsed = [n \in 0 .. last |-> IF n = 0 THEN NothingParsed ELSE Step(n, parsed[n - 1])]
  BY <1>2, Zenon DEF ParseOf
<1> DEFINE failing == {n \in 0 .. last : ~ReadSoFar(parsed[n])}
<1> HIDE DEF parsed
<1>4. failing = {}
  <2> SUFFICES ASSUME failing # {} PROVE FALSE
    OBVIOUS
  <2>0. failing \in SUBSET Nat
    BY <1>0
  <2>1. PICK k \in failing : \A n \in failing : k <= n
    BY <2>0, LeastNumber
  <2>2. k \in 0 .. last /\ parsed[k] = IF k = 0 THEN NothingParsed ELSE Step(k, parsed[k - 1])
    <3> HIDE DEF Step
    <3>1. QED
      BY <1>3, <2>1
  <2>3. CASE k = 0
    <3>1. ReadSoFar(NothingParsed)
      BY DEF ReadSoFar, NothingParsed
    <3>2. QED
      BY <2>1, <2>2, <2>3, <3>1
  <2>4. CASE k # 0
    <3>1. k - 1 \in 0 .. last /\ k - 1 \notin failing /\ k \in 1 .. last
      BY <1>0, <2>1, <2>2, <2>4
    <3>2. ReadSoFar(parsed[k - 1]) /\ Line(k) \in Lines
      <4>1. (IF k <= count THEN k ELSE k - count) \in 1 .. count
        BY <1>0, <3>1
      <4>2. QED
        BY <1>0, <3>1, <4>1, ElementOfSeq
    <3>3. ReadSoFar(AddLine(text, parsed[k - 1], Line(k)))
      BY <3>2, AddLineOf
    <3>4. QED
      BY <2>1, <2>2, <2>4, <3>2, <3>3
  <2>5. QED
    BY <2>3, <2>4
<1>5. QED
  BY <1>0, <1>1, <1>4

-----------------------------------------------------------------------------
(* One field of the settings is replaced *)

LEMMA RulesReplaced ==
    ASSUME NEW settings, Edited(settings), NEW rules \in SUBSET Rules, Distinct(rules)
    PROVE  LET after == [settings EXCEPT !.rules = rules]
           IN  /\ Edited(after) /\ after.rules = rules
               /\ after.profiles = settings.profiles /\ after.default = settings.default
               /\ after.active = settings.active /\ after.source = settings.source
<1> DEFINE after == [settings EXCEPT !.rules = rules]
<1>1. settings \in PrSettings /\ ReadWell(settings.source)
  BY DEF Edited
<1>2. /\ after \in PrSettings /\ after.rules = rules
      /\ after.profiles = settings.profiles /\ after.default = settings.default
      /\ after.active = settings.active /\ after.source = settings.source
  BY <1>1 DEF PrSettings
<1> HIDE DEF after
<1>3. Edited(after)
  BY <1>1, <1>2 DEF Edited
<1>4. QED
  BY <1>2, <1>3 DEF after

LEMMA DefaultReplaced ==
    ASSUME NEW settings, Edited(settings), NEW p \in Names
    PROVE  LET after == [settings EXCEPT !.default = p]
           IN  /\ Edited(after) /\ after.default = p
               /\ after.profiles = settings.profiles /\ after.rules = settings.rules
               /\ after.active = settings.active /\ after.source = settings.source
<1> DEFINE after == [settings EXCEPT !.default = p]
<1>1. settings \in PrSettings /\ ReadWell(settings.source) /\ Distinct(settings.rules)
  BY DEF Edited
<1>2. /\ after \in PrSettings /\ after.default = p
      /\ after.profiles = settings.profiles /\ after.rules = settings.rules
      /\ after.active = settings.active /\ after.source = settings.source
  BY <1>1 DEF PrSettings
<1> HIDE DEF after
<1>3. Edited(after)
  BY <1>1, <1>2 DEF Edited
<1>4. QED
  BY <1>2, <1>3 DEF after

LEMMA ActiveReplaced ==
    ASSUME NEW settings, Edited(settings), NEW p \in Names \cup {"none", "auto"}
    PROVE  LET after == [settings EXCEPT !.active = p]
           IN  /\ Edited(after) /\ after.active = p
               /\ after.profiles = settings.profiles /\ after.rules = settings.rules
               /\ after.default = settings.default /\ after.source = settings.source
<1> DEFINE after == [settings EXCEPT !.active = p]
<1>1. settings \in PrSettings /\ ReadWell(settings.source) /\ Distinct(settings.rules)
  BY DEF Edited
<1>2. /\ after \in PrSettings /\ after.active = p
      /\ after.profiles = settings.profiles /\ after.rules = settings.rules
      /\ after.default = settings.default /\ after.source = settings.source
  BY <1>1 DEF PrSettings
<1> HIDE DEF after
<1>3. Edited(after)
  BY <1>1, <1>2 DEF Edited
<1>4. QED
  BY <1>2, <1>3 DEF after

LEMMA SourceReplaced ==
    ASSUME NEW settings, Edited(settings), NEW source \in Sources \cup {NoSource}, ReadWell(source)
    PROVE  LET after == [settings EXCEPT !.source = source]
           IN  /\ Edited(after) /\ after.source = source
               /\ after.profiles = settings.profiles /\ after.rules = settings.rules
               /\ after.default = settings.default /\ after.active = settings.active
<1> DEFINE after == [settings EXCEPT !.source = source]
<1>1. settings \in PrSettings /\ Distinct(settings.rules)
  BY DEF Edited
<1>2. /\ after \in PrSettings /\ after.source = source
      /\ after.profiles = settings.profiles /\ after.rules = settings.rules
      /\ after.default = settings.default /\ after.active = settings.active
  BY <1>1 DEF PrSettings
<1> HIDE DEF after
<1>3. Edited(after)
  BY <1>1, <1>2 DEF Edited
<1>4. QED
  BY <1>2, <1>3 DEF after

LEMMA ProfileReplaced ==
    ASSUME NEW settings, Edited(settings), NEW p \in Custom, NEW value \in ProfileValues \cup {NoValue}
    PROVE  LET after == [settings EXCEPT !.profiles[p] = value]
           IN  /\ Edited(after)
               /\ after.profiles = [settings.profiles EXCEPT ![p] = value]
               /\ \A c \in Custom : after.profiles[c] = IF c = p THEN value ELSE settings.profiles[c]
               /\ after.rules = settings.rules /\ after.default = settings.default
               /\ after.active = settings.active /\ after.source = settings.source
<1> DEFINE profiles == [settings.profiles EXCEPT ![p] = value]
           after == [settings EXCEPT !.profiles = profiles]
<1>1. settings \in PrSettings /\ Distinct(settings.rules) /\ ReadWell(settings.source)
  BY DEF Edited
<1>2. /\ profiles \in [Custom -> ProfileValues \cup {NoValue}]
      /\ \A c \in Custom : profiles[c] = IF c = p THEN value ELSE settings.profiles[c]
  <2>1. settings.profiles \in [Custom -> ProfileValues \cup {NoValue}]
    BY <1>1, SettingsTyped
  <2>2. QED
    BY <2>1
<1>3. [settings EXCEPT !.profiles[p] = value] = after
  OBVIOUS
<1> HIDE DEF profiles
<1>4. /\ after \in PrSettings /\ after.profiles = profiles
      /\ after.rules = settings.rules /\ after.default = settings.default
      /\ after.active = settings.active /\ after.source = settings.source
  BY <1>1, <1>2 DEF PrSettings
<1> HIDE DEF after
<1>5. Edited(after)
  BY <1>1, <1>4 DEF Edited
<1>6. QED
  BY <1>2, <1>3, <1>4, <1>5 DEF profiles

-----------------------------------------------------------------------------
(* The invariant *)

\* What is stored, and what the histories say of it.
StoredWell ==
    /\ Sound(prStored) /\ RouteFirst(prStored, prRouted)
    /\ prRouted \in [host : Seq(STRING), profile : Names \cup {"none"}]
    /\ prHistory \subseteq {"half", "moved"} /\ OthersKeepOrder
    /\ prOperations \in 0 .. MaxPrOperations /\ prFaults \in 0 .. MaxPrFaults

\* The browser was switched to a profile, to rules or to nothing.
BrowserTyped ==
    /\ prBrowser \in [mode : {"none", "profile", "auto"}, profile : Names \cup {"none"},
                      value : ProfileValues \cup {NoValue, Direct}]
    /\ prBrowser.mode = "profile" => prBrowser.profile \in Names

PrInv == StoredWell /\ BrowserTyped /\ ProfileInUse

LEMMA SoundIsEdited == ASSUME NEW settings, Sound(settings) PROVE Edited(settings)
  BY DEF Sound

LEMMA SameRulesOrder ==
    ASSUME NEW settings, Edited(settings), NEW ids PROVE SameOrder(settings.rules, settings.rules, ids)
<1>1. \A r, u \in settings.rules : r.id = u.id => r = u
  BY DEF Edited, Distinct
<1>2. QED
  BY <1>1, Zenon DEF SameOrder

\* A site stays routed while the rules and the profiles are the same.
LEMMA SameRoute ==
    ASSUME NEW settings, NEW others, NEW routed, RouteFirst(settings, routed),
           others.rules = settings.rules, others.profiles = settings.profiles
    PROVE  RouteFirst(others, routed)
<1>1. Routable(others) = Routable(settings) /\ EnabledRules(others) = EnabledRules(settings)
  BY SameProfiles DEF EnabledRules
<1>2. QED
  BY <1>1, Zenon DEF RouteFirst

LEMMA NoRouteFirst == ASSUME NEW settings PROVE RouteFirst(settings, NoRoute)
  BY DEF RouteFirst

LEMMA NoRouteTyped == NoRoute \in [host : Seq(STRING), profile : Names \cup {"none"}]
  BY DEF NoRoute

\* What an operation may store.
Updatable(settings, moving, routed) ==
    /\ Edited(settings) /\ RouteFirst(settings, routed)
    /\ routed \in [host : Seq(STRING), profile : Names \cup {"none"}]
    /\ SameOrder(prStored.rules, settings.rules, moving)

\* Storing what is updatable keeps what is stored well.
LEMMA UpdateStored ==
    ASSUME PrInv, NEW settings, NEW moving, NEW routed,
           Updatable(settings, moving, routed), Updates(settings, moving, routed)
    PROVE  /\ StoredWell' /\ prHistory' = prHistory
           /\ prStored'.profiles = settings.profiles
           /\ prStored'.active = IF settings.active \in {"none", "auto", "direct"} \cup PrDefined(settings)
                                 THEN settings.active ELSE "none"
<1>1. prStored' = Normalized(settings) /\ prRouted' = routed /\ Edited(settings)
      /\ prOperations < MaxPrOperations /\ prOperations' = prOperations + 1 /\ prFaults' = prFaults
  BY DEF Updates, Updatable
<1>2. Sound(prStored') /\ RouteFirst(prStored', prRouted')
  BY <1>1, NormalizedSound, NormalizedRoute DEF Updatable
<1>3. SameOrder(prStored.rules, prStored'.rules, moving)
  BY <1>1, NormalizedOrder DEF Updatable
<1>4. prHistory' = prHistory
  BY <1>3 DEF Updates
<1>5. prOperations' \in 0 .. MaxPrOperations /\ prFaults' \in 0 .. MaxPrFaults
  BY <1>1, ProxyRulesConstants DEF PrInv, StoredWell
<1>6. StoredWell'
  BY <1>1, <1>2, <1>4, <1>5 DEF StoredWell, OthersKeepOrder, PrInv, Updatable
<1>7. settings \in PrSettings
  BY <1>1 DEF Edited
<1>8. /\ prStored'.profiles = settings.profiles
      /\ prStored'.active = IF settings.active \in {"none", "auto", "direct"} \cup PrDefined(settings)
                            THEN settings.active ELSE "none"
  BY <1>1, <1>7, NormalizedFields
<1>9. QED
  BY <1>4, <1>6, <1>8

\* A failing write leaves what is stored as it is.
LEMMA NotStored ==
    ASSUME PrInv, StoreFails PROVE StoredWell' /\ "half" \in prHistory'
<1>1. prFaults' \in 0 .. MaxPrFaults
  BY ProxyRulesConstants DEF PrInv, StoredWell, StoreFails
<1>2. UNCHANGED <<prStored, prRouted, prOperations>> /\ prHistory' = prHistory \cup {"half"}
  BY DEF StoreFails
<1>3. "half" # "moved"
  OBVIOUS
<1>4. QED
  BY <1>1, <1>2, <1>3 DEF PrInv, StoredWell, OthersKeepOrder

\* An update that does not touch the profile in use leaves the browser alone.
LEMMA QuietUpdate ==
    ASSUME PrInv, NEW settings, NEW moving, NEW routed,
           Updatable(settings, moving, routed), Updates(settings, moving, routed), UNCHANGED prBrowser,
           ActiveProfile # "none" =>
               /\ settings.active = prStored.active /\ ActiveProfile \in {"direct"} \cup PrDefined(settings)
               /\ ValueOf(settings, ActiveProfile) = ValueOf(prStored, ActiveProfile)
    PROVE  PrInv'
<1>1. /\ StoredWell' /\ prHistory' = prHistory
      /\ prStored'.profiles = settings.profiles
      /\ prStored'.active = IF settings.active \in {"none", "auto", "direct"} \cup PrDefined(settings)
                            THEN settings.active ELSE "none"
  BY UpdateStored
<1>2. BrowserTyped'
  BY DEF PrInv, BrowserTyped
<1>3. ASSUME prBrowser'.mode = "profile", "half" \notin prHistory'
      PROVE  /\ prStored'.active = prBrowser'.profile
             /\ prBrowser'.value = ValueOf(prStored', prBrowser'.profile)
  <2>1. /\ prBrowser.mode = "profile" /\ prStored.active = prBrowser.profile /\ prBrowser.profile \in Names
        /\ prBrowser.value = ValueOf(prStored, prBrowser.profile)
    BY <1>1, <1>3 DEF PrInv, ProfileInUse, BrowserTyped
  <2>2. prStored.active \in {"direct"} \cup PrDefined(prStored)
    BY <2>1 DEF PrInv, StoredWell, Sound, Names
  <2>3. ActiveProfile = prStored.active /\ ActiveProfile # "none"
    BY <2>1, <2>2, ProxyRulesConstants DEF ActiveProfile, PrDefined
  <2>4. prStored'.active = prStored.active
    BY <1>1, <2>3
  <2>5. ValueOf(prStored', ActiveProfile) = ValueOf(settings, ActiveProfile)
    BY <1>1, SameProfiles
  <2>6. QED
    BY <2>1, <2>3, <2>4, <2>5
<1>4. QED
  BY <1>1, <1>2, <1>3 DEF PrInv, ProfileInUse

\* In particular one that leaves all profiles as they are.
LEMMA RulesUpdate ==
    ASSUME PrInv, NEW settings, NEW moving, NEW routed,
           Updatable(settings, moving, routed), Updates(settings, moving, routed), UNCHANGED prBrowser,
           settings.active = prStored.active, settings.profiles = prStored.profiles
    PROVE  PrInv'
<1>1. ActiveProfile # "none" => ActiveProfile \in {"direct"} \cup PrDefined(prStored)
  BY DEF ActiveProfile
<1>2. PrDefined(settings) = PrDefined(prStored) /\ \A p : ValueOf(settings, p) = ValueOf(prStored, p)
  BY SameProfiles
<1>3. QED
  BY <1>1, <1>2, QuietUpdate

\* The browser is given the rules.
LEMMA AppliedUpdate ==
    ASSUME PrInv, NEW settings, NEW moving, NEW routed,
           Updatable(settings, moving, routed), UpdatesAndApplies(settings, moving, routed)
    PROVE  PrInv'
<1> DEFINE applied == [settings EXCEPT !.active = "auto"]
<1>1. Edited(applied) /\ applied.rules = settings.rules /\ applied.profiles = settings.profiles
  BY ActiveReplaced DEF Updatable
<1>2. Updates(applied, moving, routed) \/ StoreFails
  BY DEF UpdatesAndApplies
<1> HIDE DEF applied
<1>3. Updatable(applied, moving, routed)
  BY <1>1, SameRoute DEF Updatable
<1>4. StoredWell'
  BY <1>2, <1>3, UpdateStored, NotStored
<1>5. prBrowser' = [mode |-> "auto", profile |-> "none", value |-> NoValue]
  BY DEF UpdatesAndApplies, ShowsAuto
<1>6. BrowserTyped' /\ ProfileInUse'
  BY <1>5 DEF BrowserTyped, ProfileInUse
<1>7. QED
  BY <1>4, <1>6 DEF PrInv

\* The browser is given a profile.
LEMMA ShownUpdate ==
    ASSUME PrInv, NEW settings, NEW others, NEW p, NEW routed,
           Edited(others), others.profiles = settings.profiles, Shows(others, p),
           p \in {"direct"} \cup PrDefined(settings), settings.active = p,
           Updatable(settings, {}, routed), Updates(settings, {}, routed) \/ StoreFails
    PROVE  PrInv'
<1>1. StoredWell'
  BY UpdateStored, NotStored
<1>2. prBrowser' = [mode |-> "profile", profile |-> p, value |-> ValueOf(others, p)]
  BY DEF Shows
<1>3. p \in Names /\ ValueOf(others, p) \in ProfileValues \cup {NoValue, Direct}
  <2>1. others.profiles \in [Custom -> ProfileValues \cup {NoValue}]
    BY SettingsTyped DEF Edited
  <2>2. p \in {"direct"} \cup Custom
    BY DEF PrDefined
  <2>3. QED
    BY <2>1, <2>2 DEF ValueOf, Names
<1>4. BrowserTyped'
  BY <1>2, <1>3 DEF BrowserTyped
<1>5. ProfileInUse'
  <2>1. CASE StoreFails
    BY <2>1, NotStored DEF ProfileInUse
  <2>2. CASE Updates(settings, {}, routed)
    <3>1. prStored'.profiles = others.profiles /\ prStored'.active = p
      BY <2>2, UpdateStored
    <3>2. ValueOf(prStored', p) = ValueOf(others, p)
      BY <3>1, SameProfiles
    <3>3. QED
      BY <1>2, <3>1, <3>2 DEF ProfileInUse
  <2>3. QED
    BY <2>1, <2>2
<1>6. QED
  BY <1>1, <1>4, <1>5 DEF PrInv

-----------------------------------------------------------------------------
(* The operations *)

\* What the operations use of the invariant.
LEMMA InvSound ==
    ASSUME PrInv
    PROVE  /\ Sound(prStored) /\ Edited(prStored) /\ RouteFirst(prStored, prRouted)
           /\ prRouted \in [host : Seq(STRING), profile : Names \cup {"none"}]
           /\ prStored.rules \in SUBSET Rules /\ Distinct(prStored.rules)
           /\ prStored.source \in Sources \cup {NoSource} /\ ReadWell(prStored.source)
           /\ \A r \in prStored.rules : r.place \in Int /\ r.order \in Int /\ r.id \in RuleIds
<1>1. /\ Sound(prStored) /\ Edited(prStored) /\ RouteFirst(prStored, prRouted)
      /\ prRouted \in [host : Seq(STRING), profile : Names \cup {"none"}]
  BY SoundIsEdited DEF PrInv, StoredWell
<1>2. prStored.source \in Sources \cup {NoSource}
  BY <1>1, SettingsTyped DEF Edited
<1>3. QED
  BY <1>1, <1>2, RulesTyped DEF Edited

LEMMA SetDefaultStep ==
    ASSUME PrInv, NEW p, SetDefault(p) PROVE PrInv'
<1> DEFINE settings == [prStored EXCEPT !.default = p]
<1>1. p \in Names
  BY RoutableNames DEF SetDefault
<1>2. /\ Edited(settings) /\ settings.profiles = prStored.profiles /\ settings.rules = prStored.rules
      /\ settings.active = prStored.active
  BY <1>1, InvSound, DefaultReplaced
<1>3. Updates(settings, {}, prRouted) /\ UNCHANGED prBrowser
  BY DEF SetDefault
<1> HIDE DEF settings
<1>4. Updatable(settings, {}, prRouted)
  BY <1>2, InvSound, SameRoute, SameRulesOrder DEF Updatable
<1>5. QED
  BY <1>2, <1>3, <1>4, RulesUpdate

LEMMA ApplyStep ==
    ASSUME PrInv, ApplyProxyRules PROVE PrInv'
<1>1. Updatable(prStored, {}, prRouted)
  BY InvSound, SameRulesOrder DEF Updatable
<1>2. QED
  BY <1>1, AppliedUpdate DEF ApplyProxyRules

LEMMA SwitchStep ==
    ASSUME PrInv, NEW p, SwitchProxy(p) PROVE PrInv'
<1> DEFINE settings == [prStored EXCEPT !.active = p]
<1>1. p \in {"direct"} \cup PrDefined(prStored) /\ p \in Names \cup {"none", "auto"}
  BY RoutableNames DEF SwitchProxy
<1>2. /\ Edited(settings) /\ settings.profiles = prStored.profiles /\ settings.rules = prStored.rules
      /\ settings.active = p
  BY <1>1, InvSound, ActiveReplaced
<1>3. (Updates(settings, {}, prRouted) \/ StoreFails) /\ Shows(prStored, p)
  BY DEF SwitchProxy
<1> HIDE DEF settings
<1>4. Updatable(settings, {}, prRouted)
  BY <1>2, InvSound, SameRoute, SameRulesOrder DEF Updatable
<1>5. PrDefined(settings) = PrDefined(prStored)
  BY <1>2, SameProfiles
<1>6. QED
  BY <1>1, <1>2, <1>3, <1>4, <1>5, InvSound, ShownUpdate

LEMMA ReleaseStep ==
    ASSUME PrInv, ReleaseProxy PROVE PrInv'
<1> DEFINE settings == [prStored EXCEPT !.active = "none"]
<1>1. /\ Edited(settings) /\ settings.profiles = prStored.profiles /\ settings.rules = prStored.rules
  BY InvSound, ActiveReplaced
<1>2. Updates(settings, {}, prRouted) \/ StoreFails
  BY DEF ReleaseProxy
<1> HIDE DEF settings
<1>3. Updatable(settings, {}, prRouted)
  BY <1>1, InvSound, SameRoute, SameRulesOrder DEF Updatable
<1>4. StoredWell'
  BY <1>2, <1>3, UpdateStored, NotStored
<1>5. prBrowser' = [mode |-> "none", profile |-> "none", value |-> NoValue]
  BY DEF ReleaseProxy, ShowsNothing
<1>6. BrowserTyped' /\ ProfileInUse'
  BY <1>5 DEF BrowserTyped, ProfileInUse
<1>7. QED
  BY <1>4, <1>6 DEF PrInv

LEMMA SaveProfileStep ==
    ASSUME PrInv, NEW p \in Custom, NEW value \in ProfileValues, SaveProxyProfile(p, value)
    PROVE  PrInv'
<1> DEFINE settings == [prStored EXCEPT !.profiles[p] = value]
<1>1. /\ Edited(settings) /\ settings.rules = prStored.rules /\ settings.active = prStored.active
      /\ \A c \in Custom : settings.profiles[c] = IF c = p THEN value ELSE prStored.profiles[c]
  BY InvSound, ProfileReplaced
<1>2. IF ActiveProfile = p
      THEN Shows(settings, p) /\ (Updates(settings, {}, NoRoute) \/ StoreFails)
      ELSE Updates(settings, {}, NoRoute) /\ UNCHANGED prBrowser
  BY DEF SaveProxyProfile
<1> HIDE DEF settings
<1>3. Updatable(settings, {}, NoRoute)
  BY <1>1, InvSound, NoRouteFirst, NoRouteTyped, SameRulesOrder DEF Updatable
<1>4. p \in PrDefined(settings) /\ p # "none"
  BY <1>1, ProxyRulesConstants DEF PrDefined
<1>5. CASE ActiveProfile = p
  <2>1. prStored.active = p
    BY <1>4, <1>5 DEF ActiveProfile
  <2>2. QED
    BY <1>1, <1>2, <1>3, <1>4, <1>5, <2>1, ShownUpdate
<1>6. CASE ActiveProfile # p
  <2>1. ASSUME ActiveProfile # "none"
        PROVE  /\ ActiveProfile \in {"direct"} \cup PrDefined(settings)
               /\ ValueOf(settings, ActiveProfile) = ValueOf(prStored, ActiveProfile)
    <3>1. ActiveProfile \in {"direct"} \cup PrDefined(prStored)
      BY <2>1 DEF ActiveProfile
    <3> HIDE DEF ActiveProfile
    <3>2. QED
      BY <1>1, <1>6, <3>1 DEF PrDefined, ValueOf
  <2>2. QED
    BY <1>1, <1>2, <1>3, <1>6, <2>1, QuietUpdate
<1>7. QED
  BY <1>5, <1>6

LEMMA RemoveProfileStep ==
    ASSUME PrInv, NEW p \in Custom, RemoveProxyProfile(p) PROVE PrInv'
<1> DEFINE without == [prStored EXCEPT !.profiles[p] = NoValue]
           kept == IF prStored.active = p THEN "none" ELSE prStored.active
           settings == [without EXCEPT !.active = kept]
<1>0. prStored.active \in Names \cup {"none", "auto"}
  BY InvSound, SettingsTyped DEF Edited
<1>1. /\ Edited(without) /\ without.rules = prStored.rules
      /\ \A c \in Custom : without.profiles[c] = IF c = p THEN NoValue ELSE prStored.profiles[c]
  <2>1. NoValue \in ProfileValues \cup {NoValue} /\ Edited(prStored)
    BY InvSound
  <2>2. QED
    BY ONLY <2>1, p \in Custom, ProfileReplaced
<1>2. /\ Edited(settings) /\ settings.rules = without.rules /\ settings.active = kept
      /\ settings.profiles = without.profiles
  <2> HIDE DEF without
  <2>1. QED
    BY <1>0, <1>1, ActiveReplaced
<1>3. Updates(settings, {}, prRouted) /\ UNCHANGED prBrowser
  <2>1. settings = [prStored EXCEPT !.profiles[p] = NoValue,
                                    !.active = IF @ = p THEN "none" ELSE @]
    OBVIOUS
  <2>2. QED
    BY <2>1 DEF RemoveProxyProfile
<1>4. ActiveProfile # p /\ \A r \in prStored.rules : r.profile # p
  BY DEF RemoveProxyProfile
<1> HIDE DEF settings, without
<1>5. RouteFirst(settings, prRouted)
  <2>1. EnabledRules(settings) = EnabledRules(prStored) /\ settings.rules = prStored.rules
    BY <1>1, <1>2 DEF EnabledRules
  <2>2. \A q \in Routable(prStored) : q # p => q \in Routable(settings)
    BY <1>1, <1>2 DEF Routable, PrDefined
  <2>3. prRouted # NoRoute =>
          /\ prRouted.host \in Domains /\ prRouted.profile \in Routable(prStored)
          /\ \E r \in EnabledRules(prStored) :
                /\ r.condition = HostCondition("host_exact", prRouted.host) /\ r.profile = prRouted.profile
                /\ \A s \in prStored.rules : s = r \/ Before(r, s)
    BY InvSound, Zenon DEF RouteFirst
  <2>4. prRouted # NoRoute => prRouted.profile # p
    BY <1>4, <2>3 DEF EnabledRules
  <2>5. QED
    BY <2>1, <2>2, <2>3, <2>4 DEF RouteFirst
<1>6. Updatable(settings, {}, prRouted)
  BY <1>1, <1>2, <1>5, InvSound, SameRulesOrder DEF Updatable
<1>7. ASSUME ActiveProfile # "none"
      PROVE  /\ settings.active = prStored.active
             /\ ActiveProfile \in {"direct"} \cup PrDefined(settings)
             /\ ValueOf(settings, ActiveProfile) = ValueOf(prStored, ActiveProfile)
  <2>1. ActiveProfile \in {"direct"} \cup PrDefined(prStored) /\ ActiveProfile = prStored.active
    BY <1>7 DEF ActiveProfile
  <2> HIDE DEF ActiveProfile
  <2>2. QED
    BY <1>1, <1>2, <1>4, <2>1 DEF PrDefined, ValueOf
<1>8. QED
  BY <1>3, <1>6, <1>7, QuietUpdate

\* The rules are replaced by others.
LEMMA RulesStep ==
    ASSUME PrInv, NEW rules \in SUBSET Rules, Distinct(rules), NEW moving,
           SameOrder(prStored.rules, rules, moving),
           Updates([prStored EXCEPT !.rules = rules], moving, NoRoute), UNCHANGED prBrowser
    PROVE  PrInv'
<1> DEFINE settings == [prStored EXCEPT !.rules = rules]
<1>1. /\ Edited(settings) /\ settings.rules = rules /\ settings.profiles = prStored.profiles
      /\ settings.active = prStored.active
  BY InvSound, RulesReplaced
<1> HIDE DEF settings
<1>2. Updatable(settings, moving, NoRoute)
  BY <1>1, NoRouteFirst, NoRouteTyped DEF Updatable
<1>3. Updates(settings, moving, NoRoute)
  BY DEF settings
<1>4. QED
  BY <1>1, <1>2, <1>3, RulesUpdate

LEMMA WithoutRuleOf ==
    ASSUME PrInv, NEW id
    PROVE  LET rules == WithoutRule(prStored.rules, id)
           IN  rules \in SUBSET prStored.rules /\ Distinct(rules) /\ \A r \in rules : r.id # id
<1> DEFINE rules == WithoutRule(prStored.rules, id)
<1>1. rules \in SUBSET prStored.rules /\ \A r \in rules : r.id # id
  BY DEF WithoutRule
<1>2. IsFiniteSet(rules)
  BY <1>1, InvSound, FS_Subset DEF Distinct
<1>3. Distinct(rules)
  BY <1>1, <1>2, InvSound DEF Distinct
<1>4. QED
  BY <1>1, <1>3

LEMMA DeleteStep ==
    ASSUME PrInv, NEW id, DeleteRule(id) PROVE PrInv'
<1> DEFINE rules == WithoutRule(prStored.rules, id)
<1>1. rules \in SUBSET prStored.rules /\ Distinct(rules)
  BY WithoutRuleOf
<1>2. SameOrder(prStored.rules, rules, {})
  <2>1. \A r \in prStored.rules, u \in rules : r.id = u.id => r = u
    BY <1>1, InvSound DEF Distinct
  <2> HIDE DEF rules
  <2>2. QED
    BY <2>1, Zenon DEF SameOrder
<1>3. Updates([prStored EXCEPT !.rules = rules], {}, NoRoute) /\ UNCHANGED prBrowser
  BY DEF DeleteRule
<1> HIDE DEF rules
<1>4. QED
  BY <1>1, <1>2, <1>3, InvSound, RulesStep

LEMMA SaveRuleStep ==
    ASSUME PrInv, NEW id \in RuleIds, NEW condition \in ManualConditions, NEW p, NEW enabled \in BOOLEAN,
           SaveRule(id, condition, p, enabled)
    PROVE  PrInv'
<1> DEFINE count == Cardinality(prStored.rules)
           order == IF RuleOf(id) = {} THEN count ELSE (CHOOSE r \in RuleOf(id) : TRUE).order
           rule == [id |-> id, place |-> count, order |-> order, enabled |-> enabled,
                    condition |-> condition, profile |-> p]
           others == WithoutRule(prStored.rules, id)
           rules == others \cup {rule}
<1>1. others \in SUBSET prStored.rules /\ Distinct(others) /\ \A r \in others : r.id # id
  BY WithoutRuleOf
<1>2. count \in Nat /\ \A r \in prStored.rules : r.place \in 0 .. count - 1
  BY InvSound, FS_CardinalityType DEF Distinct, Sound
<1>3. order \in Int
  <2>1. RuleOf(id) \in SUBSET prStored.rules
    BY DEF RuleOf
  <2>2. CASE RuleOf(id) = {}
    BY <1>2, <2>2
  <2>3. CASE RuleOf(id) # {}
    <3>1. (CHOOSE r \in RuleOf(id) : TRUE) \in RuleOf(id)
      BY <2>3
    <3>2. (CHOOSE r \in RuleOf(id) : TRUE).order \in Int
      BY <2>1, <3>1, InvSound
    <3>3. QED
      BY <2>3, <3>2
  <2>4. QED
    BY <2>2, <2>3
<1>4. p \in Names /\ condition \in HostConditions \cup TextConditions
  BY RoutableNames, ProxyRulesInputs DEF SaveRule
<1>5. Updates([prStored EXCEPT !.rules = rules], {id}, NoRoute) /\ UNCHANGED prBrowser
  BY DEF SaveRule
<1> HIDE DEF count, order
<1>6. rule \in Rules /\ rule.id = id /\ rule.place = count
  BY <1>2, <1>3, <1>4 DEF Rules
<1> HIDE DEF rule, others
<1>7. rules \in SUBSET Rules
  BY <1>1, <1>6, InvSound
<1>8. Distinct(rules)
  <2>1. IsFiniteSet(rules)
    BY <1>1, FS_AddElement DEF Distinct
  <2>2. \A r \in others : r.place # rule.place
    BY <1>1, <1>2, <1>6
  <2>3. QED
    BY <1>1, <1>6, <2>1, <2>2 DEF Distinct
<1>9. SameOrder(prStored.rules, rules, {id})
  <2>1. \A r \in prStored.rules, u \in rules : r.id = u.id => r = u \/ r.id = id
    BY <1>1, <1>6, InvSound DEF Distinct
  <2> HIDE DEF rules
  <2>2. QED
    BY <2>1 DEF SameOrder
<1> HIDE DEF rules
<1>10. QED
  BY <1>5, <1>7, <1>8, <1>9, RulesStep

LEMMA ReorderStep ==
    ASSUME PrInv,
           NEW positions \in Bijection(IdsOf(prStored.rules), 0 .. Cardinality(prStored.rules) - 1),
           ReorderRules(positions)
    PROVE  PrInv'
<1> DEFINE Copy(r) == [r EXCEPT !.place = positions[r.id]]
           copies == {Copy(r) : r \in prStored.rules}
           rules == Numbered(copies)
<1>1. prStored.rules \in SUBSET Rules /\ Distinct(prStored.rules)
  BY InvSound
<1>2. /\ \A r \in prStored.rules : positions[r.id] \in Int
      /\ \A r, s \in prStored.rules : positions[r.id] = positions[s.id] => r.id = s.id
  <2>1. \A r \in prStored.rules : r.id \in IdsOf(prStored.rules)
    BY DEF IdsOf
  <2>2. positions \in [IdsOf(prStored.rules) -> 0 .. Cardinality(prStored.rules) - 1]
    BY DEF Bijection, Injection
  <2>3. \A x, y \in IdsOf(prStored.rules) : positions[x] = positions[y] => x = y
    BY DEF Bijection, Injection, IsInjective
  <2>4. QED
    BY <2>1, <2>2, <2>3
<1>3. ASSUME NEW r \in prStored.rules
      PROVE  /\ Copy(r) \in Rules /\ Copy(r).id = r.id /\ Copy(r).place = positions[r.id]
  BY <1>1, <1>2, PlaceOf DEF SameRule
<1>4. IsFiniteSet(copies)
  <2> DEFINE f == [r \in prStored.rules |-> Copy(r)]
  <2>1. DOMAIN f = prStored.rules /\ f = [r \in prStored.rules |-> f[r]]
        /\ \A r \in prStored.rules : f[r] = Copy(r)
    OBVIOUS
  <2>2. {f[r] : r \in prStored.rules} = copies
    BY <2>1
  <2> HIDE DEF f, copies, Copy
  <2>3. QED
    BY <1>1, <2>1, <2>2, FiniteImage DEF Distinct
<1>5. Updates([prStored EXCEPT !.rules = rules], RuleIds, NoRoute) /\ UNCHANGED prBrowser
  BY DEF ReorderRules
<1> HIDE DEF Copy
<1>6. copies \in SUBSET Rules /\ Distinct(copies)
  BY <1>1, <1>2, <1>3, <1>4 DEF Distinct
<1> HIDE DEF copies
<1>7. rules \in SUBSET Rules /\ Distinct(rules)
  BY <1>6, NumberedOf
<1>8. SameOrder(prStored.rules, rules, RuleIds)
  BY InvSound DEF SameOrder
<1> HIDE DEF rules
<1>9. QED
  BY <1>5, <1>7, <1>8, RulesStep

LEMMA RouteStep ==
    ASSUME PrInv, NEW host \in Domains, NEW p, RouteCurrentSite(host, p) PROVE PrInv'
<1> DEFINE existing == {r \in prStored.rules : RoutesSite(r, host)}
           ids == IF existing = {} THEN RuleIds \ IdsOf(prStored.rules)
                  ELSE {r.id : r \in {x \in existing : \A y \in existing : x.place <= y.place}}
           sorted == \A r, s \in prStored.rules : Before(r, s) <=> r.place < s.place
           routed == [host |-> host, profile |-> p]
           RuleWith(id) == [id |-> id, place |-> -1, order |-> 0, enabled |-> TRUE,
                            condition |-> HostCondition("host_exact", host), profile |-> p]
           Base(id) == WithoutRule(prStored.rules, id) \cup {RuleWith(id)}
<1>1. PICK id \in ids :
         UpdatesAndApplies([prStored EXCEPT !.rules = Numbered(Base(id))],
                           IF sorted THEN {id} ELSE RuleIds, routed)
  BY DEF RouteCurrentSite
<1>2. p \in Routable(prStored)
  BY DEF RouteCurrentSite
<1>3. id \in RuleIds
  BY <1>1, InvSound
<1> DEFINE others == WithoutRule(prStored.rules, id)
           rule == RuleWith(id)
           base == Base(id)
           rules == Numbered(base)
           moving == IF sorted THEN {id} ELSE RuleIds
           settings == [prStored EXCEPT !.rules = rules]
<1> HIDE DEF ids, existing
<1>4. others \in SUBSET prStored.rules /\ Distinct(others) /\ \A r \in others : r.id # id
  BY WithoutRuleOf
<1>5. /\ rule \in Rules /\ rule.id = id /\ rule.place = -1 /\ rule.enabled
      /\ rule.condition = HostCondition("host_exact", host) /\ rule.profile = p
  <2>1. p \in Names
    BY <1>2, RoutableNames
  <2>2. HostCondition("host_exact", host) \in HostConditions
    BY DEF HostCondition, HostConditions, HostTypes
  <2>3. PICK condition \in HostConditions : condition = HostCondition("host_exact", host)
    BY <2>2
  <2>4. rule = [id |-> id, place |-> -1, order |-> 0, enabled |-> TRUE, condition |-> condition, profile |-> p]
    BY <2>3
  <2> HIDE DEF rule
  <2>5. QED
    BY <1>3, <2>1, <2>3, <2>4 DEF Rules
<1>6. base = others \cup {rule}
  OBVIOUS
<1>7. \A r \in prStored.rules : r.place \in Nat
  BY InvSound, FS_CardinalityType DEF Sound, Distinct
<1>8. UpdatesAndApplies(settings, moving, routed)
  BY <1>1
<1> HIDE DEF RuleWith, Base, others, rule, base, sorted
<1>9. base \in SUBSET Rules /\ Distinct(base)
  <2>1. base \in SUBSET Rules
    BY <1>4, <1>5, <1>6, InvSound
  <2>2. IsFiniteSet(base)
    BY <1>4, <1>6, FS_AddElement DEF Distinct
  <2>3. \A r \in others : r.place # rule.place
    BY <1>4, <1>5, <1>7
  <2>4. QED
    BY <1>4, <1>5, <1>6, <2>1, <2>2, <2>3 DEF Distinct
<1>10. /\ rules \in SUBSET Rules /\ Distinct(rules)
       /\ \A u \in rules : \E r \in base : Renumbered(u, r)
       /\ \A r \in base : \E u \in rules : Renumbered(u, r)
       /\ \A u, v \in rules, r, s \in base :
            u.id = r.id /\ v.id = s.id => (Before(u, v) <=> r.place < s.place)
  BY <1>9, NumberedOf
<1> HIDE DEF rules
<1>11. SameOrder(prStored.rules, rules, moving)
  <2>1. CASE ~sorted
    BY <2>1, InvSound DEF SameOrder
  <2>2. CASE sorted
    <3>1. ASSUME NEW r \in prStored.rules, NEW s \in prStored.rules, NEW u \in rules, NEW v \in rules,
                 r.id = u.id, s.id = v.id, {r.id, s.id} \cap moving = {}
          PROVE  Before(r, s) <=> Before(u, v)
      <4>1. r.id # id /\ s.id # id
        BY <2>2, <3>1
      <4>2. r \in base /\ s \in base
        BY <1>6, <4>1 DEF others, WithoutRule
      <4>3. Before(u, v) <=> r.place < s.place
        BY <1>10, <3>1, <4>2
      <4>4. QED
        BY <2>2, <4>3 DEF sorted
    <3> HIDE DEF moving
    <3>2. QED
      BY <3>1, Zenon DEF SameOrder
  <2>3. QED
    BY <2>1, <2>2
<1>12. /\ Edited(settings) /\ settings.rules = rules /\ settings.profiles = prStored.profiles
  BY <1>10, InvSound, RulesReplaced
<1> HIDE DEF settings, moving
<1>13. RouteFirst(settings, routed)
  <2>1. PICK u \in rules : Renumbered(u, rule)
    BY <1>6, <1>10
  <2>2. u \in EnabledRules(settings) /\ u.profile = routed.profile
        /\ u.condition = HostCondition("host_exact", routed.host)
    BY <1>5, <1>12, <2>1 DEF Renumbered, EnabledRules
  <2>3. ASSUME NEW v \in rules PROVE v = u \/ Before(u, v)
    <3>1. PICK s \in base : Renumbered(v, s)
      BY <1>10
    <3>2. CASE s = rule
      <4>1. v.id = u.id
        BY <2>1, <3>1, <3>2 DEF Renumbered
      <4>2. QED
        BY <1>10, <4>1 DEF Distinct
    <3>3. CASE s # rule
      <4>1. s \in prStored.rules
        BY <1>4, <1>6, <3>3
      <4>2. rule.place < s.place
        BY <1>5, <1>7, <4>1
      <4>3. rule \in base /\ u.id = rule.id /\ v.id = s.id
        BY <1>6, <2>1, <3>1 DEF Renumbered
      <4>4. QED
        BY <1>10, <4>2, <4>3
    <3>4. QED
      BY <3>2, <3>3
  <2>4. routed.host \in Domains /\ routed.profile \in Routable(settings)
    BY <1>2, <1>12, SameProfiles
  <2>5. QED
    BY <1>12, <2>2, <2>3, <2>4 DEF RouteFirst
<1>14. routed \in [host : Seq(STRING), profile : Names \cup {"none"}]
  BY <1>2, RoutableNames DEF Domains
<1> HIDE DEF routed
<1>15. Updatable(settings, moving, routed)
  BY <1>11, <1>12, <1>13, <1>14 DEF Updatable
<1>16. QED
  BY <1>8, <1>15, AppliedUpdate

LEMMA ClearStep ==
    ASSUME PrInv, NEW host, ClearCurrentSiteRoute(host) PROVE PrInv'
<1> DEFINE kept == {r \in prStored.rules : ~RoutesSite(r, host)}
           placed == ByOrder(kept)
           rules == Numbered(placed)
           sorted == \A r, s \in prStored.rules : Before(r, s) <=> Earlier(r, s)
           moving == IF sorted THEN {} ELSE RuleIds
           settings == [prStored EXCEPT !.rules = rules]
<1>1. UpdatesAndApplies(settings, moving, NoRoute)
  BY DEF ClearCurrentSiteRoute
<1>2. kept \in SUBSET prStored.rules
  OBVIOUS
<1> HIDE DEF kept, sorted
<1>3. kept \in SUBSET Rules /\ Distinct(kept)
  <2>1. IsFiniteSet(kept)
    BY <1>2, InvSound, FS_Subset DEF Distinct
  <2>2. QED
    BY <1>2, <2>1, InvSound DEF Distinct
<1>4. /\ placed \in SUBSET Rules /\ Distinct(placed) /\ Moved(kept, placed)
      /\ \A u, v \in placed, r, s \in kept :
           u.id = r.id /\ v.id = s.id => (u.place < v.place <=> Earlier(r, s))
  BY <1>3, ByOrderOf
<1> HIDE DEF placed
<1>5. /\ rules \in SUBSET Rules /\ Distinct(rules)
      /\ \A u \in rules : \E r \in placed : Renumbered(u, r)
      /\ \A u, v \in rules, r, s \in placed :
           u.id = r.id /\ v.id = s.id => (Before(u, v) <=> r.place < s.place)
  BY <1>4, NumberedOf
<1> HIDE DEF rules
<1>6. SameOrder(prStored.rules, rules, moving)
  <2>1. CASE ~sorted
    BY <2>1, InvSound DEF SameOrder
  <2>2. CASE sorted
    <3>1. ASSUME NEW r \in prStored.rules, NEW s \in prStored.rules, NEW u \in rules, NEW v \in rules,
                 r.id = u.id, s.id = v.id
          PROVE  Before(r, s) <=> Before(u, v)
      <4>1. PICK x \in placed, y \in placed : x.id = u.id /\ y.id = v.id
        BY <1>5 DEF Renumbered
      <4>2. PICK a \in kept, b \in kept : a.id = x.id /\ b.id = y.id
        BY <1>4 DEF Moved, SameRule
      <4>3. a = r /\ b = s
        BY <1>2, <3>1, <4>1, <4>2, InvSound DEF Distinct
      <4>4. Before(u, v) <=> x.place < y.place
        BY <1>5, <4>1
      <4>5. x.place < y.place <=> Earlier(r, s)
        BY <1>4, <4>2, <4>3
      <4>6. QED
        BY <2>2, <4>4, <4>5 DEF sorted
    <3>2. QED
      BY <3>1, Zenon DEF SameOrder
  <2>3. QED
    BY <2>1, <2>2
<1>7. Edited(settings)
  BY <1>5, InvSound, RulesReplaced
<1>8. settings.rules = rules
  BY <1>5, InvSound, RulesReplaced
<1> HIDE DEF settings, moving
<1>9. Updatable(settings, moving, NoRoute)
  BY <1>6, <1>7, <1>8, NoRouteFirst, NoRouteTyped DEF Updatable
<1>10. QED
  BY <1>1, <1>9, AppliedUpdate

\* A source takes the place of the source, and no rule changes.
LEMMA SourceUpdatable ==
    ASSUME PrInv, NEW source \in Sources \cup {NoSource}, ReadWell(source)
    PROVE  LET settings == [prStored EXCEPT !.source = source]
           IN  /\ Updatable(settings, {}, prRouted)
               /\ settings.active = prStored.active /\ settings.profiles = prStored.profiles
<1> DEFINE settings == [prStored EXCEPT !.source = source]
<1>1. /\ Edited(settings) /\ settings.rules = prStored.rules /\ settings.profiles = prStored.profiles
      /\ settings.active = prStored.active
  BY InvSound, SourceReplaced
<1> HIDE DEF settings
<1>2. Updatable(settings, {}, prRouted)
  BY <1>1, InvSound, SameRoute, SameRulesOrder DEF Updatable
<1>3. QED
  BY <1>1, <1>2 DEF settings

LEMMA RemoveSourceStep ==
    ASSUME PrInv, RemoveRuleSource PROVE PrInv'
<1> DEFINE settings == [prStored EXCEPT !.source = NoSource]
<1>1. ReadWell(NoSource)
  BY DEF ReadWell
<1>2. /\ Updatable(settings, {}, prRouted)
      /\ settings.active = prStored.active /\ settings.profiles = prStored.profiles
  BY <1>1, SourceUpdatable
<1>3. \/ UpdatesAndApplies(settings, {}, prRouted)
      \/ Updates(settings, {}, prRouted) /\ UNCHANGED prBrowser
  BY DEF RemoveRuleSource
<1> HIDE DEF settings
<1>4. QED
  BY <1>2, <1>3, AppliedUpdate, RulesUpdate

LEMMA SaveSourceStep ==
    ASSUME PrInv, NEW match, NEW bypass, NEW enabled \in BOOLEAN, NEW same \in BOOLEAN,
           SaveRuleSource(match, bypass, enabled, same)
    PROVE  PrInv'
<1> DEFINE rules == IF same THEN prStored.source.rules ELSE <<>>
           source == [match |-> match, bypass |-> bypass, enabled |-> enabled, rules |-> rules]
           settings == [prStored EXCEPT !.source = source]
<1>1. {match, bypass} \subseteq Names
  BY RoutableNames DEF SaveRuleSource
<1>2. Updates(settings, {}, prRouted) /\ UNCHANGED prBrowser
  BY DEF SaveRuleSource
<1>3. /\ rules \in Seq(ParsedRules)
      /\ \A i \in DOMAIN rules : rules[i].condition.valid
  <2>1. CASE same
    <3>1. prStored.source # NoSource
      BY <2>1 DEF SaveRuleSource
    <3>2. prStored.source \in Sources
      BY <3>1, InvSound
    <3>3. QED
      BY <2>1, <3>1, <3>2, InvSound DEF Sources, ReadWell
  <2>2. CASE ~same
    BY <2>2
  <2>3. QED
    BY <2>1, <2>2
<1> HIDE DEF rules
<1>4. source \in Sources /\ source.rules = rules
  BY <1>1, <1>3 DEF Sources
<1> HIDE DEF source
<1>5. ReadWell(source)
  BY <1>3, <1>4 DEF ReadWell
<1>6. /\ Updatable(settings, {}, prRouted)
      /\ settings.active = prStored.active /\ settings.profiles = prStored.profiles
  BY <1>4, <1>5, SourceUpdatable
<1> HIDE DEF settings
<1>7. QED
  BY <1>2, <1>6, RulesUpdate

LEMMA ParsedWell ==
    ASSUME NEW text \in SourceTexts
    PROVE  LET rules == Parsed(text).rules
           IN  /\ rules \in Seq(ParsedRules)
               /\ \A i \in DOMAIN rules : rules[i].condition.valid
<1>1. PICK rules : rules = Parsed(text).rules
  OBVIOUS
<1>2. rules \in Seq(ParsedRules)
  BY <1>1, ParsedOf DEF ReadSoFar
<1>3. \A i \in 1 .. Len(rules) : rules[i].condition.valid
  BY <1>1, ParsedOf DEF ReadSoFar
<1>4. DOMAIN rules = 1 .. Len(rules)
  BY <1>2, LenProperties
<1>5. QED
  BY <1>1, <1>2, <1>3, <1>4

LEMMA UpdateSourceStep ==
    ASSUME PrInv, NEW text \in SourceTexts, NEW applies, UpdateRuleSource(text, applies)
    PROVE  PrInv'
<1> DEFINE rules == Parsed(text).rules
           source == [prStored.source EXCEPT !.rules = rules]
           settings == [prStored EXCEPT !.source = source]
<1>1. settings = [prStored EXCEPT !.source.rules = rules]
  OBVIOUS
<1>2. \/ UpdatesAndApplies(settings, {}, prRouted)
      \/ Updates(settings, {}, prRouted) /\ UNCHANGED prBrowser
  BY <1>1 DEF UpdateRuleSource
<1>3. /\ rules \in Seq(ParsedRules)
      /\ \A i \in DOMAIN rules : rules[i].condition.valid
  BY ParsedWell
<1>4. prStored.source \in Sources
  <2>1. prStored.source # NoSource
    BY DEF UpdateRuleSource
  <2>2. QED
    BY <2>1, InvSound
<1> HIDE DEF rules
<1>5. source \in Sources /\ source.rules = rules
  BY <1>3, <1>4 DEF Sources
<1> HIDE DEF source
<1>6. ReadWell(source)
  BY <1>3, <1>5 DEF ReadWell
<1>7. /\ Updatable(settings, {}, prRouted)
      /\ settings.active = prStored.active /\ settings.profiles = prStored.profiles
  BY <1>5, <1>6, SourceUpdatable
<1> HIDE DEF settings
<1>8. QED
  BY <1>2, <1>7, AppliedUpdate, RulesUpdate

-----------------------------------------------------------------------------
(* The theorem *)

LEMMA SettingsMade ==
    ASSUME NEW profiles \in [Custom -> ProfileValues \cup {NoValue}], NEW rules \in SUBSET Rules,
           NEW source \in Sources \cup {NoSource}
    PROVE  [profiles |-> profiles, rules |-> rules, default |-> "direct", active |-> "none",
            source |-> source] \in PrSettings
<1>1. "direct" \in Names
  BY DEF Names
<1>2. QED
  BY <1>1 DEF PrSettings

\* The state at the start satisfies it.
LEMMA PrInitInv == PrInit => PrInv
<1> SUFFICES ASSUME PrInit PROVE PrInv
  OBVIOUS
<1> DEFINE p == CHOOSE c \in Custom : TRUE
           value == CHOOSE v \in ProfileValues : v.kind = "fixed_servers"
<1>1. PICK condition \in ManualConditions, deleted \in 0 .. 1,
           source \in {NoSource} \cup
             {[match |-> "direct", bypass |-> "direct", enabled |-> TRUE, rules |-> Parsed(text).rules] :
                 text \in SourceTexts} :
         prStored =
           [profiles |-> [c \in Custom |-> value],
            rules |-> {[id |-> 2, place |-> 2 - 2, order |-> 2 - 2 + deleted, enabled |-> TRUE,
                        condition |-> condition, profile |-> p],
                       [id |-> 3, place |-> 3 - 2, order |-> 3 - 2 + deleted, enabled |-> TRUE,
                        condition |-> condition, profile |-> "direct"]},
            default |-> "direct", active |-> "none", source |-> source]
  BY Zenon DEF PrInit
<1>2. /\ prBrowser = [mode |-> "none", profile |-> "none", value |-> NoValue]
      /\ prRouted = NoRoute /\ prHistory = {} /\ prOperations = 0 /\ prFaults = 0
  BY DEF PrInit
<1>3. p \in Custom /\ value \in ProfileValues /\ value.kind = "fixed_servers"
      /\ value # NoValue /\ 2 \in RuleIds /\ 3 \in RuleIds
  BY ProxyRulesConstants
<1> HIDE DEF p, value
<1> DEFINE a == [id |-> 2, place |-> 0, order |-> deleted, enabled |-> TRUE,
                 condition |-> condition, profile |-> p]
           b == [id |-> 3, place |-> 1, order |-> 1 + deleted, enabled |-> TRUE,
                 condition |-> condition, profile |-> "direct"]
<1>4. prStored = [profiles |-> [c \in Custom |-> value], rules |-> {a, b}, default |-> "direct",
                  active |-> "none", source |-> source]
  BY <1>1
<1>5. /\ a \in Rules /\ a.id = 2 /\ a.place = 0 /\ a.profile = p
      /\ b \in Rules /\ b.id = 3 /\ b.place = 1 /\ b.profile = "direct"
  BY <1>3, ProxyRulesInputs DEF Rules, Names
<1> HIDE DEF a, b
<1>6. Distinct({a, b}) /\ Cardinality({a, b}) = 2
  <2>1. IsFiniteSet({a}) /\ Cardinality({a}) = 1
    BY FS_Singleton
  <2>5. b \notin {a}
    <3>1. a # b
      BY ONLY <1>5
    <3>2. QED
      BY <3>1
  <2>2. IsFiniteSet({a} \cup {b}) /\ Cardinality({a} \cup {b}) = 2
    BY <2>1, <2>5, FS_AddElement
  <2>3. {a} \cup {b} = {a, b}
    OBVIOUS
  <2>4. QED
    BY <1>5, <2>2, <2>3 DEF Distinct
<1>7. /\ source \in Sources \cup {NoSource} /\ ReadWell(source)
      /\ source # NoSource => source.match = "direct" /\ source.bypass = "direct"
  <2>1. CASE source = NoSource
    BY <2>1 DEF ReadWell
  <2>2. CASE source # NoSource
    <3>1. PICK text \in SourceTexts :
             source = [match |-> "direct", bypass |-> "direct", enabled |-> TRUE, rules |-> Parsed(text).rules]
      BY <1>1, <2>2
    <3>2. PICK rules \in Seq(ParsedRules) : rules = Parsed(text).rules
      BY ParsedWell
    <3>3. \A i \in DOMAIN rules : rules[i].condition.valid
      BY <3>2, ParsedWell
    <3>4. source \in Sources /\ source.rules = rules /\ source.match = "direct" /\ source.bypass = "direct"
      BY <3>1, <3>2 DEF Sources, Names
    <3>5. QED
      BY <3>3, <3>4 DEF ReadWell
  <2>3. QED
    BY <2>1, <2>2
<1>8. /\ prStored.rules = {a, b} /\ prStored.source = source /\ prStored.default = "direct"
      /\ prStored.active = "none" /\ prStored.profiles = [c \in Custom |-> value]
  BY <1>4
<1>9. prStored \in PrSettings
  <2>1. [c \in Custom |-> value] \in [Custom -> ProfileValues \cup {NoValue}]
    BY <1>3
  <2>2. {a, b} \in SUBSET Rules /\ "direct" \in Names
    BY <1>5 DEF Names
  <2>3. QED
    BY <1>4, <1>7, <2>1, <2>2, SettingsMade
<1>10. Edited(prStored)
  <2>1. Distinct(prStored.rules)
    BY ONLY <1>6, <1>8
  <2>2. ReadWell(prStored.source)
    BY ONLY <1>7, <1>8
  <2>3. QED
    BY ONLY <1>9, <2>1, <2>2 DEF Edited
<1>11. p \in Routable(prStored) /\ "direct" \in Routable(prStored)
  BY <1>3, <1>8 DEF Routable, PrDefined
<1>12. Sound(prStored)
  <2>1. "none" \notin Custom
    BY ProxyRulesConstants
  <2>2. \A r \in prStored.rules :
          r.profile \in Routable(prStored) /\ r.place \in 0 .. Cardinality(prStored.rules) - 1
    BY <1>5, <1>6, <1>8, <1>11
  <2>3. QED
    BY <1>7, <1>8, <1>10, <1>11, <2>1, <2>2 DEF Sound
<1>13. StoredWell
  BY <1>2, <1>12, NoRouteFirst, NoRouteTyped, ProxyRulesConstants DEF StoredWell, OthersKeepOrder
<1>14. BrowserTyped /\ ProfileInUse
  BY <1>2 DEF BrowserTyped, ProfileInUse
<1>15. QED
  BY <1>13, <1>14 DEF PrInv

\* And every step keeps it.
LEMMA PrStepInv == PrInv /\ [PrSteps]_prVars => PrInv'
<1> SUFFICES ASSUME PrInv, [PrSteps]_prVars PROVE PrInv'
  OBVIOUS
<1>0. \A url \in Addresses : url.host \in Domains
  BY ProxyRulesInputs
<1>1. CASE \E p \in Custom, value \in ProfileValues : SaveProxyProfile(p, value)
  BY <1>1, SaveProfileStep
<1>2. CASE \E p \in Custom : RemoveProxyProfile(p)
  BY <1>2, RemoveProfileStep
<1>3. CASE \E p \in {"direct"} \cup Custom : SwitchProxy(p) \/ SetDefault(p)
  BY <1>3, SwitchStep, SetDefaultStep
<1>4. CASE ReleaseProxy
  BY <1>4, ReleaseStep
<1>5. CASE ApplyProxyRules
  BY <1>5, ApplyStep
<1>6. CASE RemoveRuleSource
  BY <1>6, RemoveSourceStep
<1>7. CASE \E id \in RuleIds : DeleteRule(id)
  BY <1>7, DeleteStep
<1>8. CASE \E id \in RuleIds, condition \in ManualConditions, p \in {"direct"} \cup Custom,
             enabled \in BOOLEAN : SaveRule(id, condition, p, enabled)
  BY <1>8, SaveRuleStep
<1>9. CASE \E positions \in Bijection(IdsOf(prStored.rules), 0 .. Cardinality(prStored.rules) - 1) :
             ReorderRules(positions)
  BY <1>9, ReorderStep
<1>10. CASE \E url \in Addresses : ClearCurrentSiteRoute(url.host)
  BY <1>10, ClearStep
<1>11. CASE \E url \in Addresses, p \in {"direct"} \cup Custom : RouteCurrentSite(url.host, p)
  BY <1>0, <1>11, RouteStep
<1>12. CASE \E match \in {"direct"} \cup Custom, bypass \in {"direct"} \cup Custom,
              enabled \in BOOLEAN, same \in BOOLEAN : SaveRuleSource(match, bypass, enabled, same)
  BY <1>12, SaveSourceStep
<1>13. CASE \E text \in SourceTexts, applies \in BOOLEAN : UpdateRuleSource(text, applies)
  BY <1>13, UpdateSourceStep
<1>14. CASE UNCHANGED prVars
  BY <1>14 DEF prVars, PrInv, StoredWell, BrowserTyped, ProfileInUse, OthersKeepOrder, ActiveProfile
<1>15. QED
  BY <1>1, <1>2, <1>3, <1>4, <1>5, <1>6, <1>7, <1>8, <1>9, <1>10, <1>11, <1>12, <1>13, <1>14
     DEF PrSteps

\* It implies the invariant that is checked.
LEMMA PrInvSound == PrInv => RoutingSound
<1> SUFFICES ASSUME PrInv PROVE RoutingSound
  OBVIOUS
<1>0. \A url \in Addresses : url.host \in Domains
  BY ProxyRulesInputs
<1>1. PrTypeOK
  BY InvSound DEF PrTypeOK, PrInv, StoredWell, BrowserTyped, Sound, Edited, Distinct
<1>2. PreviewTellsPac
  BY <1>0, InvSound, PreviewIsPac DEF PreviewTellsPac
<1>3. RouteTakesEffect
  <2> SUFFICES ASSUME prRouted # NoRoute, Compiles(prStored),
                      NEW url \in Addresses, url.host = prRouted.host
               PROVE  Pac(prStored, url) = ValueOf(prStored, prRouted.profile)
    BY DEF RouteTakesEffect
  <2>1. /\ prRouted.host \in Domains
        /\ \E r \in EnabledRules(prStored) :
             /\ r.condition = HostCondition("host_exact", prRouted.host) /\ r.profile = prRouted.profile
             /\ \A s \in prStored.rules : s = r \/ Before(r, s)
    BY InvSound, Zenon DEF RouteFirst
  <2>2. QED
    BY <2>1, InvSound, RouteDecides
<1>4. DiagnosticsAddUp
  <2>1. ASSUME NEW text \in SourceTexts
        PROVE  /\ Parsed(text).total = Len(Parsed(text).rules) + Parsed(text).ignored + Parsed(text).invalid
               /\ IsInjective(Parsed(text).rules)
    <3>1. PICK rules : rules = Parsed(text).rules
      OBVIOUS
    <3>2. /\ rules \in Seq(ParsedRules)
          /\ \A i, j \in 1 .. Len(rules) : rules[i] = rules[j] => i = j
          /\ Parsed(text).total = Len(rules) + Parsed(text).ignored + Parsed(text).invalid
      BY <3>1, ParsedOf, Zenon DEF ReadSoFar
    <3>3. DOMAIN rules = 1 .. Len(rules)
      BY <3>2, LenProperties
    <3>4. IsInjective(rules)
      BY <3>2, <3>3 DEF IsInjective
    <3>5. QED
      BY <3>1, <3>2, <3>4
  <2>2. QED
    BY <2>1, Zenon DEF DiagnosticsAddUp
<1>5. OthersKeepOrder /\ ProfileInUse
  BY DEF PrInv, StoredWell
<1>6. QED
  BY <1>1, <1>2, <1>3, <1>4, <1>5 DEF RoutingSound

\* Whatever profiles, rules, texts and addresses there are: the preview names what the
\* compiled script gives (compileProxyRules, previewProxyRules), a routed site goes by its
\* profile (routeCurrentSite), no operation moves rules that it is not about, the browser
\* has the latest value of the profile in use, and the parser's counts add up.
THEOREM RoutingIsSound == PrSpec => []RoutingSound
<1>1. PrInit => PrInv
  BY PrInitInv
<1>2. PrInv /\ [PrSteps]_prVars => PrInv'
  BY PrStepInv
<1>3. PrInv => RoutingSound
  BY PrInvSound
<1>4. QED
  BY <1>1, <1>2, <1>3, PTL DEF PrSpec
=============================================================================
