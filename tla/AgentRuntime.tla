---------------------------- MODULE AgentRuntime ----------------------------
(***************************************************************************)
(* The agent runtime's state (features/agent-runtime/service.ts): a cached *)
(* record, changed by the operations of mutationQueue and written behind   *)
(* to storage.session by the flushes of persistenceQueue.                  *)
(*                                                                         *)
(* A runtime is abstracted to the set of the mutations it is the result    *)
(* of. AgentSession gives those mutations their meaning.                   *)
(*                                                                         *)
(* Bounds: each call of mutate is made at most once, Timers bounds the     *)
(* flushes begun by the timer that are under way at once, MaxFaults the    *)
(* storage calls that fail and MaxKills the terminations of the worker.    *)
(***************************************************************************)
EXTENDS Naturals, SequencesExt

CONSTANTS
    Calls,          \* calls of mutate
    Immediate,      \* those with immediate = true
    Unchanging,     \* those whose updater returns the current runtime
    Timers,
    NoCall,
    MaxQueued,      \* MAX_QUEUED_MUTATIONS
    ReadsFail,      \* reading the stored runtime may fail
    MaxFaults, MaxKills

ASSUME RuntimeConstants ==
    /\ IsFiniteSet(Calls)
    /\ Immediate \subseteq Calls
    /\ Unchanging \subseteq Immediate
    /\ Timers \cap Calls = {}
    /\ NoCall \notin Calls
    /\ MaxQueued \in Nat \ {0}
    /\ ReadsFail \in BOOLEAN
    /\ MaxFaults \in Nat
    /\ MaxKills \in Nat

Flushers == Calls \cup Timers

VARIABLES
    restored,   \* runtimeCache is set
    restoring,  \* restorePromise is pending
    cache,      \* runtimeCache
    stored,     \* the runtime in storage.session
    queue,      \* the operations chained on mutationQueue
    queued,     \* queuedMutations
    pending,    \* pendingMutations
    degraded,   \* persistenceError is set
    timer,      \* flushTimer is set
    pc,         \* where each call stands
    stage,      \* the await that each flush stands at
    mark,       \* the last operation of the mutationQueue that a flush awaits
    writes,     \* the operations chained on persistenceQueue
    snapshot,   \* the write under way: what it stores and how many it counts
    unread,     \* history: a read of the stored runtime failed
    faults, kills

memoryVars  == <<restored, restoring, cache>>
queueVars   == <<queue, queued>>
flushVars   == <<timer, stage, mark, writes, snapshot>>
boundVars   == <<unread, faults, kills>>
vars == <<memoryVars, stored, queueVars, pending, degraded, pc, flushVars, boundVars>>

NoWrite == [content |-> {}, batch |-> 0]

TypeOK ==
    /\ restored \in BOOLEAN /\ restoring \in BOOLEAN
    /\ cache \in SUBSET Calls /\ stored \in SUBSET Calls
    /\ queue \in Seq(Calls)
    /\ queued \in Nat /\ pending \in Nat
    /\ degraded \in BOOLEAN /\ timer \in BOOLEAN
    /\ pc \in [Calls -> {"idle", "queued", "applied", "flushing", "acked", "failed", "lost"}]
    /\ stage \in [Flushers -> {"idle", "mutations", "persist", "writing"}]
    /\ mark \in [Flushers -> Calls \cup {NoCall}]
    /\ writes \in Seq(Flushers)
    /\ snapshot \in [content : SUBSET Calls, batch : Nat]
    /\ unread \in BOOLEAN
    /\ faults \in 0 .. MaxFaults /\ kills \in 0 .. MaxKills

Init ==
    /\ restored = FALSE /\ restoring = FALSE
    /\ cache = {} /\ stored = {}
    /\ queue = <<>> /\ queued = 0
    /\ pending = 0 /\ degraded = FALSE /\ timer = FALSE
    /\ pc = [c \in Calls |-> "idle"]
    /\ stage = [f \in Flushers |-> "idle"]
    /\ mark = [f \in Flushers |-> NoCall]
    /\ writes = <<>> /\ snapshot = NoWrite
    /\ unread = FALSE /\ faults = 0 /\ kills = 0

Fault == faults < MaxFaults /\ faults' = faults + 1 /\ UNCHANGED kills

-----------------------------------------------------------------------------
(* Restoring *)

\* Mutant: a second read begins beside the first and its answer replaces what
\* was changed since.
StartRestoreAgain ==
    /\ ~restoring
    /\ restoring' = TRUE
    /\ UNCHANGED <<restored, cache, stored, queueVars, pending, degraded, pc,
                   flushVars, boundVars>>

StartRestore ==
    /\ ~restored /\ ~restoring
    /\ restoring' = TRUE
    /\ UNCHANGED <<restored, cache, stored, queueVars, pending, degraded, pc,
                   flushVars, boundVars>>

\* ensureRestored, of an operation of either queue.
EnsureRestored ==
    /\ \/ queue # <<>>
       \/ writes # <<>>
    /\ StartRestore

\* getAgentRuntime
Get ==
    /\ queue = <<>>
    /\ StartRestore

\* sessionStorage.get answers with the stored runtime,
Restored ==
    /\ restoring
    /\ restoring' = FALSE /\ restored' = TRUE
    /\ cache' = stored
    /\ UNCHANGED <<stored, queueVars, pending, degraded, pc, flushVars, boundVars>>

\* or fails, and the runtime starts empty.
RestoreFails ==
    /\ ReadsFail
    /\ restoring
    /\ Fault
    /\ restoring' = FALSE /\ restored' = TRUE
    /\ cache' = {}
    /\ degraded' = TRUE /\ unread' = TRUE
    /\ UNCHANGED <<stored, queueVars, pending, pc, flushVars>>

-----------------------------------------------------------------------------
(* mutate *)

\* The operation is chained on the queue,
Call(c) ==
    /\ pc[c] = "idle"
    /\ queued < MaxQueued
    /\ queued' = queued + 1
    /\ queue' = Append(queue, c)
    /\ pc' = [pc EXCEPT ![c] = "queued"]
    /\ UNCHANGED <<memoryVars, stored, pending, degraded, flushVars, boundVars>>

\* unless the queue is full: capacity_exceeded.
Refuse(c) ==
    /\ pc[c] = "idle"
    /\ queued >= MaxQueued
    /\ pc' = [pc EXCEPT ![c] = "failed"]
    /\ UNCHANGED <<memoryVars, stored, queueVars, pending, degraded, flushVars, boundVars>>

Operation(c) ==
    /\ restored
    /\ queue # <<>> /\ Head(queue) = c
    /\ queue' = Tail(queue)
    /\ queued' = queued - 1

\* flushAgentRuntime clears the timer and awaits the mutationQueue as it stands.
BeginFlush(f) ==
    /\ timer' = FALSE
    /\ stage' = [stage EXCEPT ![f] = "mutations"]
    /\ mark' = [mark EXCEPT ![f] = IF queue = <<>> THEN NoCall ELSE Last(queue)]
    /\ UNCHANGED <<memoryVars, stored, queueVars, pending, degraded, writes,
                   snapshot, boundVars>>

\* The updater changes the runtime, returns the one it was given,
Mutate(c) ==
    /\ Operation(c)
    /\ IF c \in Unchanging
         THEN UNCHANGED <<cache, pending>>
         ELSE cache' = cache \cup {c} /\ pending' = pending + 1
    /\ pc' = [pc EXCEPT ![c] = "applied"]
    /\ UNCHANGED <<restored, restoring, stored, degraded, flushVars, boundVars>>

\* or throws, as the one of beginAgentAction does while the agent is paused.
Throw(c) ==
    /\ c \notin Immediate
    /\ Operation(c)
    /\ pc' = [pc EXCEPT ![c] = "failed"]
    /\ UNCHANGED <<memoryVars, stored, pending, degraded, flushVars, boundVars>>

\* Mutant: the call returns and nothing is scheduled.
ScheduleNothing(c) ==
    /\ pc[c] = "applied"
    /\ c \notin Immediate
    /\ pc' = [pc EXCEPT ![c] = "acked"]
    /\ UNCHANGED <<memoryVars, stored, queueVars, pending, degraded, flushVars, boundVars>>

\* After the operation: scheduleFlush, and the call returns,
Schedule(c) ==
    /\ pc[c] = "applied"
    /\ c \notin Immediate
    /\ timer' = TRUE
    /\ pc' = [pc EXCEPT ![c] = "acked"]
    /\ UNCHANGED <<memoryVars, stored, queueVars, pending, degraded,
                   stage, mark, writes, snapshot, boundVars>>

-----------------------------------------------------------------------------
(* flushAgentRuntime *)

\* Mutant: the call returns before its flush.
AckEarly(c) ==
    /\ pc[c] = "applied"
    /\ c \in Immediate
    /\ pc' = [pc EXCEPT ![c] = "acked"]
    /\ BeginFlush(c)

\* or, of an immediate call, the call goes on with a flush of its own.
FlushNow(c) ==
    /\ pc[c] = "applied"
    /\ c \in Immediate
    /\ pc' = [pc EXCEPT ![c] = "flushing"]
    /\ BeginFlush(c)

TimerFires(t) ==
    /\ timer
    /\ stage[t] = "idle"
    /\ BeginFlush(t)
    /\ UNCHANGED pc

\* The mutations are done: the flush is chained on the persistenceQueue.
JoinWrites(f) ==
    /\ stage[f] = "mutations"
    /\ mark[f] \notin Range(queue)
    /\ stage' = [stage EXCEPT ![f] = "persist"]
    /\ mark' = [mark EXCEPT ![f] = NoCall]
    /\ writes' = Append(writes, f)
    /\ UNCHANGED <<memoryVars, stored, queueVars, pending, degraded, pc, timer,
                   snapshot, boundVars>>

\* The flush at the head of the persistenceQueue.
Writing(f, s) == writes # <<>> /\ Head(writes) = f /\ stage[f] = s

\* A flush is over: the call that began it returns, with r.
EndFlush(f, r) ==
    /\ writes' = Tail(writes)
    /\ stage' = [stage EXCEPT ![f] = "idle"]
    /\ pc' = IF f \in Calls THEN [pc EXCEPT ![f] = r] ELSE pc
    /\ snapshot' = NoWrite
    /\ UNCHANGED <<memoryVars, queueVars, mark>>

\* It found nothing to write,
NothingToWrite(f) ==
    /\ Writing(f, "persist")
    /\ restored
    /\ pending = 0
    /\ EndFlush(f, "acked")
    /\ UNCHANGED <<stored, pending, degraded, timer, boundVars>>

\* or writes the runtime as it is now:
StartWrite(f) ==
    /\ Writing(f, "persist")
    /\ restored
    /\ pending > 0
    /\ stage' = [stage EXCEPT ![f] = "writing"]
    /\ snapshot' = [content |-> cache, batch |-> pending]
    /\ UNCHANGED <<memoryVars, stored, queueVars, pending, degraded, pc, timer,
                   mark, writes, boundVars>>

\* the write is done, and what was changed meanwhile gets a flush of its own,
Written(f) ==
    /\ Writing(f, "writing")
    /\ stored' = snapshot.content
    /\ pending' = IF pending > snapshot.batch THEN pending - snapshot.batch ELSE 0
    /\ degraded' = FALSE
    /\ timer' = (timer \/ pending' > 0)
    /\ EndFlush(f, "acked")
    /\ UNCHANGED boundVars

\* or it fails; nothing schedules another flush.
WriteFails(f) ==
    /\ Writing(f, "writing")
    /\ Fault
    /\ degraded' = TRUE
    /\ EndFlush(f, "failed")
    /\ UNCHANGED <<stored, pending, timer, unread>>

-----------------------------------------------------------------------------
\* The browser terminates the worker; the write under way may have landed.
Kill ==
    /\ kills < MaxKills
    /\ kills' = kills + 1
    /\ \/ stored' = stored
       \/ snapshot # NoWrite /\ stored' = snapshot.content
    /\ restored' = FALSE /\ restoring' = FALSE /\ cache' = {}
    /\ queue' = <<>> /\ queued' = 0
    /\ pending' = 0 /\ degraded' = FALSE /\ timer' = FALSE
    /\ pc' = [c \in Calls |-> IF pc[c] \in {"queued", "applied", "flushing"} THEN "lost" ELSE pc[c]]
    /\ stage' = [f \in Flushers |-> "idle"]
    /\ mark' = [f \in Flushers |-> NoCall]
    /\ writes' = <<>> /\ snapshot' = NoWrite
    /\ UNCHANGED <<unread, faults>>

\* Continuations run, the timer fires and the storage answers: none of them waits for a
\* caller.
RuntimeWorks ==
    \/ EnsureRestored \/ Restored
    \/ \E c \in Calls : Mutate(c) \/ Throw(c) \/ Schedule(c) \/ FlushNow(c)
    \/ \E t \in Timers : TimerFires(t)
    \/ \E f \in Flushers :
         \/ JoinWrites(f)
         \/ NothingToWrite(f) \/ StartWrite(f) \/ Written(f) \/ WriteFails(f)

Next ==
    \/ RuntimeWorks
    \/ Get \/ RestoreFails
    \/ \E c \in Calls : Call(c) \/ Refuse(c)
    \/ Kill

Spec == Init /\ [][Next]_vars

FairSpec == Spec /\ WF_vars(RuntimeWorks)

-----------------------------------------------------------------------------
(* Properties *)

\* What an immediate call was acknowledged for stays stored, through later
\* flushes, failing writes and terminations, unless the stored runtime could not
\* be read: a pause outlives its worker.
AckedIsStored ==
    ~unread => \A c \in Immediate \ Unchanging : pc[c] = "acked" => c \in stored

\* pendingMutations is the number of mutations that the stored runtime lacks,
\* also while a write is under way.
PendingCounted == restored => pending = Cardinality(cache \ stored)

\* persistenceState() = 'persisted'
ReportsPersisted == ~degraded /\ pending + queued = 0

\* What getAgentRuntime reports as persisted is stored.
PersistedIsStored == restored /\ ReportsPersisted => stored = cache

\* Again and again every change is stored, or the failure shows.
StoredOrDegraded == ~restored \/ stored = cache \/ degraded

\* Every call of mutate returns or is lost with its worker.
CallsReturned == \A c \in Calls : pc[c] \in {"idle", "acked", "failed", "lost"}

\* The runtime is a write-behind store.
Store == INSTANCE WriteBehindStore WITH
    Changes <- Calls,
    memory  <- IF restored THEN cache ELSE stored,
    disk    <- stored,
    durable <- {c \in Immediate \ Unchanging : pc[c] = "acked"},
    unreadable <- unread

IsWriteBehindStore == Store!Spec

\* What the runtime says of itself is true, and what it acknowledged is kept.
RuntimeSound == TypeOK /\ AckedIsStored /\ PendingCounted /\ PersistedIsStored
=============================================================================
