--------------------------- MODULE TransformGate ---------------------------
(***************************************************************************)
(* The execution gate of a browser transform profile                       *)
(* (features/browser-transform/concurrency.ts and enterGate in its         *)
(* service.ts), for one profile id.                                        *)
(*                                                                         *)
(* An execution reads the profile, awaits the checks of its page target,   *)
(* and enters the gate with the maxConcurrency it read. A release hands    *)
(* its permit to the oldest waiter, whose continuation runs later. The     *)
(* profile may be saved with another maxConcurrency, or deleted together   *)
(* with the registration of its gate, while executions are under way. The  *)
(* registration goes first, and the write of the deletion may fail.        *)
(*                                                                         *)
(* Bounds: a gate object that nobody uses any more stands for a new one;   *)
(* an execution that ended stands for a later one.                         *)
(***************************************************************************)
EXTENDS Naturals, Sequences, FiniteSets

CONSTANTS
    Executions,     \* calls of executeBrowserTransform under way at once
    Gates,          \* TransformExecutionGate objects
    NoGate,
    MaxLimit,       \* the ceiling of maxConcurrency that normalizeProfile applies
    Limits,         \* the values of maxConcurrency that the profile is saved with
    MaxQueueDepth,  \* MAX_QUEUE_DEPTH
    Deletes         \* the profile may be deleted and saved again

ASSUME GateConstants ==
    /\ IsFiniteSet(Executions)
    /\ NoGate \notin Gates
    /\ MaxLimit \in Nat \ {0}
    /\ Limits \subseteq 1 .. MaxLimit
    /\ Limits # {}
    /\ MaxQueueDepth \in Nat
    /\ Deletes \in BOOLEAN

VARIABLES
    limit,      \* maxConcurrency of the stored profile, 0 while there is none
    deleting,   \* a deletion awaits its write
    gate,       \* executionGates.get(profile.id)
    active,     \* gate.active
    queued,     \* gate.queued
    waiters,    \* gate.waiters, the executions that wait for their resolve
    pc,         \* where each execution stands
    limitOf,    \* the maxConcurrency that it read
    gateOf,     \* the gate object that it entered
    edited      \* history: the profile was edited, a deletion of it was tried, or it
                \* allows fewer than MaxLimit; only EditSpec keeps it

gateVars == <<active, queued, waiters>>
vars == <<limit, deleting, gate, gateVars, pc, limitOf, gateOf>>

Waiting(g) == {e \in Executions : gateOf[e] = g /\ pc[e] = "waiting"}
Woken(g)   == {e \in Executions : gateOf[e] = g /\ pc[e] = "woken"}
Running(g) == {e \in Executions : gateOf[e] = g /\ pc[e] = "running"}

\* The executions that have a permit of gate g; a woken waiter has one already.
Holders(g) == Woken(g) \cup Running(g)

TypeOK ==
    /\ limit \in Limits \cup {0} /\ deleting \in BOOLEAN
    /\ gate \in Gates \cup {NoGate}
    /\ active \in [Gates -> Nat]
    /\ queued \in [Gates -> Nat]
    /\ waiters \in [Gates -> Seq(Executions)]
    /\ pc \in [Executions -> {"idle", "checking", "waiting", "woken", "running"}]
    /\ limitOf \in [Executions -> Limits \cup {0}]
    /\ gateOf \in [Executions -> Gates \cup {NoGate}]

Init ==
    /\ limit \in Limits /\ deleting = FALSE
    /\ gate = NoGate
    /\ active = [g \in Gates |-> 0]
    /\ queued = [g \in Gates |-> 0]
    /\ waiters = [g \in Gates |-> <<>>]
    /\ pc = [e \in Executions |-> "idle"]
    /\ limitOf = [e \in Executions |-> 0]
    /\ gateOf = [e \in Executions |-> NoGate]

-----------------------------------------------------------------------------
\* createTransformExecutionGate
New(g) ==
    /\ active[g] = 0 /\ queued[g] = 0 /\ waiters[g] = <<>>
    /\ \A e \in Executions : gateOf[e] # g

\* saveBrowserTransformProfile, of an existing or a new profile of this id. mutateStore lets
\* one call change the profiles at a time.
Save(l) ==
    /\ ~deleting
    /\ limit # l
    /\ limit' = l
    /\ UNCHANGED <<deleting, gate, gateVars, pc, limitOf, gateOf>>

\* deleteBrowserTransformProfile takes the registration of the gate away, whether or not
\* the profile is there,
Delete ==
    /\ Deletes /\ ~deleting
    /\ deleting' = TRUE
    /\ gate' = NoGate
    /\ UNCHANGED <<limit, gateVars, pc, limitOf, gateOf>>

\* and awaits the write, until which executions still read the profile,
Deleted ==
    /\ deleting
    /\ deleting' = FALSE
    /\ limit' = 0
    /\ UNCHANGED <<gate, gateVars, pc, limitOf, gateOf>>

\* and which may fail: the profile stays, without the gate of those that run.
DeleteFails ==
    /\ deleting
    /\ deleting' = FALSE
    /\ UNCHANGED <<limit, gate, gateVars, pc, limitOf, gateOf>>

\* executeBrowserTransform reads the profile.
Begin(e) ==
    /\ pc[e] = "idle"
    /\ limit # 0
    /\ pc' = [pc EXCEPT ![e] = "checking"]
    /\ limitOf' = [limitOf EXCEPT ![e] = limit]
    /\ UNCHANGED <<limit, deleting, gate, gateVars, gateOf>>

\* A check of the page target fails.
Fail(e) ==
    /\ pc[e] = "checking"
    /\ pc' = [pc EXCEPT ![e] = "idle"]
    /\ limitOf' = [limitOf EXCEPT ![e] = 0]
    /\ UNCHANGED <<limit, deleting, gate, gateVars, gateOf>>

\* enterGate finds the gate of the profile or registers a new one.
Entered(e, g) ==
    /\ pc[e] = "checking"
    /\ IF gate = NoGate THEN New(g) ELSE g = gate
    /\ gate' = g

\* Mutant: one execution too many.
PermitOneMore(e) ==
    \E g \in Gates :
        /\ Entered(e, g)
        /\ active[g] <= limitOf[e]
        /\ active' = [active EXCEPT ![g] = @ + 1]
        /\ pc' = [pc EXCEPT ![e] = "running"]
        /\ gateOf' = [gateOf EXCEPT ![e] = g]
        /\ UNCHANGED <<limit, deleting, queued, waiters, limitOf>>

\* acquireTransformExecutionGate: a permit is free,
Permit(e) ==
    \E g \in Gates :
        /\ Entered(e, g)
        /\ active[g] < limitOf[e]
        /\ active' = [active EXCEPT ![g] = @ + 1]
        /\ pc' = [pc EXCEPT ![e] = "running"]
        /\ gateOf' = [gateOf EXCEPT ![e] = g]
        /\ UNCHANGED <<limit, deleting, queued, waiters, limitOf>>

\* Mutant: the queue takes one more than it has places for.
EnqueueOneMore(e) ==
    \E g \in Gates :
        /\ Entered(e, g)
        /\ active[g] >= limitOf[e]
        /\ queued[g] <= MaxQueueDepth
        /\ queued' = [queued EXCEPT ![g] = @ + 1]
        /\ waiters' = [waiters EXCEPT ![g] = Append(@, e)]
        /\ pc' = [pc EXCEPT ![e] = "waiting"]
        /\ gateOf' = [gateOf EXCEPT ![e] = g]
        /\ UNCHANGED <<limit, deleting, active, limitOf>>

\* or the queue has a place,
Enqueue(e) ==
    \E g \in Gates :
        /\ Entered(e, g)
        /\ active[g] >= limitOf[e]
        /\ queued[g] < MaxQueueDepth
        /\ queued' = [queued EXCEPT ![g] = @ + 1]
        /\ waiters' = [waiters EXCEPT ![g] = Append(@, e)]
        /\ pc' = [pc EXCEPT ![e] = "waiting"]
        /\ gateOf' = [gateOf EXCEPT ![e] = g]
        /\ UNCHANGED <<limit, deleting, active, limitOf>>

\* or the call is refused: transform_queue_full.
Refuse(e) ==
    \E g \in Gates :
        /\ Entered(e, g)
        /\ active[g] >= limitOf[e]
        /\ queued[g] >= MaxQueueDepth
        /\ pc' = [pc EXCEPT ![e] = "idle"]
        /\ limitOf' = [limitOf EXCEPT ![e] = 0]
        /\ UNCHANGED <<limit, deleting, gateVars, gateOf>>

\* Mutant: the woken waiter counts its permit again.
ResumeCounted(e) ==
    /\ pc[e] = "woken"
    /\ pc' = [pc EXCEPT ![e] = "running"]
    /\ queued' = [queued EXCEPT ![gateOf[e]] = @ - 1]
    /\ active' = [active EXCEPT ![gateOf[e]] = @ + 1]
    /\ UNCHANGED <<limit, deleting, gate, waiters, limitOf, gateOf>>

\* The continuation of a waiter whose resolve was called.
Resume(e) ==
    /\ pc[e] = "woken"
    /\ pc' = [pc EXCEPT ![e] = "running"]
    /\ queued' = [queued EXCEPT ![gateOf[e]] = @ - 1]
    /\ UNCHANGED <<limit, deleting, gate, active, waiters, limitOf, gateOf>>

\* What every leave() does at its end: a gate that is drained is unregistered,
\* under the profile's id and so whichever gate is registered.
Unregister(g) ==
    gate' = IF active'[g] = 0 /\ queued[g] = 0 THEN NoGate ELSE gate

Ended(e) ==
    /\ limitOf' = [limitOf EXCEPT ![e] = 0]
    /\ gateOf' = [gateOf EXCEPT ![e] = NoGate]

\* Mutant: the permit is dropped and the waiter is left alone.
TransferForgotten(e) ==
    LET g == gateOf[e] IN
    /\ pc[e] = "running"
    /\ waiters[g] # <<>>
    /\ pc' = [pc EXCEPT ![e] = "idle"]
    /\ active' = [active EXCEPT ![g] = @ - 1]
    /\ Unregister(g)
    /\ Ended(e)
    /\ UNCHANGED <<limit, deleting, queued, waiters>>

\* Mutant: the newest waiter is served first.
TransferLast(e) ==
    LET g == gateOf[e]
        n == Len(waiters[g])
    IN  /\ pc[e] = "running"
        /\ waiters[g] # <<>>
        /\ waiters' = [waiters EXCEPT ![g] = SubSeq(@, 1, n - 1)]
        /\ pc' = [pc EXCEPT ![e] = "idle", ![waiters[g][n]] = "woken"]
        /\ UNCHANGED active
        /\ Unregister(g)
        /\ Ended(e)
        /\ UNCHANGED <<limit, deleting, queued>>

\* Mutant: the waiter leaves the queue now, and again in its continuation.
TransferDequeued(e) ==
    LET g == gateOf[e] IN
    /\ pc[e] = "running"
    /\ waiters[g] # <<>>
    /\ waiters' = [waiters EXCEPT ![g] = Tail(@)]
    /\ pc' = [pc EXCEPT ![e] = "idle", ![Head(waiters[g])] = "woken"]
    /\ queued' = [queued EXCEPT ![g] = @ - 1]
    /\ UNCHANGED <<limit, deleting, gate, active>>
    /\ Ended(e)

\* leave(), with a waiter: the permit is handed over.
Transfer(e) ==
    LET g == gateOf[e] IN
    /\ pc[e] = "running"
    /\ waiters[g] # <<>>
    /\ waiters' = [waiters EXCEPT ![g] = Tail(@)]
    /\ pc' = [pc EXCEPT ![e] = "idle", ![Head(waiters[g])] = "woken"]
    /\ UNCHANGED active
    /\ Unregister(g)
    /\ Ended(e)
    /\ UNCHANGED <<limit, deleting, queued>>

\* leave(), without: the permit is free.
Free(e) ==
    LET g == gateOf[e] IN
    /\ pc[e] = "running"
    /\ waiters[g] = <<>>
    /\ active' = [active EXCEPT ![g] = IF @ = 0 THEN 0 ELSE @ - 1]
    /\ pc' = [pc EXCEPT ![e] = "idle"]
    /\ Unregister(g)
    /\ Ended(e)
    /\ UNCHANGED <<limit, deleting, queued, waiters>>

-----------------------------------------------------------------------------
Next ==
    \/ \E l \in Limits : Save(l)
    \/ Delete \/ Deleted \/ DeleteFails
    \/ \E e \in Executions :
         \/ Begin(e) \/ Fail(e)
         \/ Permit(e) \/ Enqueue(e) \/ Refuse(e)
         \/ Resume(e) \/ Transfer(e) \/ Free(e)

Spec == Init /\ [][Next]_vars

\* The same with the history of the edits.
NoEdits == edited = (limit # MaxLimit)
EditNoted == edited' = (edited \/ limit' # limit \/ deleting')

EditSpec == Init /\ NoEdits /\ [][Next /\ EditNoted]_<<vars, edited>>

\* Continuations run, and the page call that an execution awaits ends: it has a
\* time limit of its own.
FairSpec ==
    /\ Spec
    /\ \A e \in Executions : WF_vars(Resume(e)) /\ WF_vars(Transfer(e) \/ Free(e))

-----------------------------------------------------------------------------
(* Properties *)

\* The counters count: across the handover of a permit, active is the number of
\* executions that run or are about to, and queued of those whose continuation
\* after the wait has not run.
PermitsAccounted ==
    \A g \in Gates :
        /\ active[g] = Cardinality(Holders(g))
        /\ queued[g] = Cardinality(Waiting(g) \cup Woken(g))

\* A waiter has somebody whose release will wake it; without one it would wait
\* for ever, as nothing else touches its gate.
NoLostWakeup == \A g \in Gates : Waiting(g) # {} => Holders(g) # {}

\* No gate ever runs more executions than a profile may allow, however often
\* the profile's own limit changes and gates are replaced.
GateBounded == \A g \in Gates : Cardinality(Holders(g)) <= MaxLimit

\* No gate queues more than MAX_QUEUE_DEPTH.
QueueBounded == \A g \in Gates : Len(waiters[g]) <= MaxQueueDepth

\* The two limits of a gate, through every edit, deletion and new gate of its profile.
GateLimits == GateBounded /\ QueueBounded

\* An execution takes a permit only while its gate has fewer holders than some
\* holder's own limit: a gate is never overcommitted by all of its holders.
NotOvercommitted ==
    \A g \in Gates : Holders(g) # {} =>
        \E e \in Holders(g) : Cardinality(Holders(g)) <= limitOf[e]

\* Who waits gets to run: nobody is forgotten in the queue of a gate, not even
\* of one that is no longer registered.
WaiterRuns == \A e \in Executions : pc[e] = "waiting" ~> pc[e] = "running"

\* While nobody edits or deletes the profile, the gate is a first-in first-out semaphore.
Semaphore == INSTANCE FifoSemaphore WITH
    Clients <- Executions,
    Limit   <- MaxLimit,
    Depth   <- MaxQueueDepth,
    holders <- {e \in Executions : pc[e] \in {"woken", "running"}},
    queue   <- IF gate = NoGate THEN <<>> ELSE waiters[gate]

\* Until the profile is edited or somebody tries to delete it, its gates together are a
\* first-in first-out semaphore of maxConcurrency permits and MAX_QUEUE_DEPTH places.
SemaphoreUntilEdited ==
    [][ edited' \/ Semaphore!Next \/ UNCHANGED Semaphore!semVars ]_vars
=============================================================================
