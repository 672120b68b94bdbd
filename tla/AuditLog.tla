------------------------------- MODULE AuditLog -------------------------------
(***************************************************************************)
(* The audit log (features/diagnostics/audit.ts): events are appended in   *)
(* memory and written to storage in batches, one storage operation at a    *)
(* time (flushQueue). An event is its number. A flush or a clear of a      *)
(* started worker first restores the stored events; so may a listing, at   *)
(* any time. A clear is modelled from there on.                            *)
(* Bounds: MaxAppends, MaxClears, MaxAuditFaults, MaxAuditKills.           *)
(***************************************************************************)
EXTENDS Naturals, Sequences

CONSTANTS
    MaxEvents,      \* MAX_AUDIT_EVENTS
    MaxPending,     \* MAX_PENDING_EVENTS
    MaxBatch,       \* MAX_BATCH_EVENTS
    MaxAppends, MaxClears, MaxAuditFaults, MaxAuditKills

ASSUME AuditConstants ==
    /\ MaxEvents \in Nat \ {0} /\ MaxPending \in Nat \ {0}
    /\ MaxBatch \in 1 .. MaxPending
    /\ MaxAppends \in Nat /\ MaxClears \in Nat
    /\ MaxAuditFaults \in Nat /\ MaxAuditKills \in Nat

VARIABLES
    auStored,       \* the events in storage.local
    auMemory,       \* persistedEvents
    auRestored,     \* it has been read
    auPending,      \* pendingEvents
    auBatch, auNext,    \* what the flush under way took, and what it writes
    auQueue,        \* flushQueue: the operations not yet finished
    auWriting,      \* the first of them waits for the storage
    auTimer,        \* flushTimer is set
    auError,        \* persistenceError is set
    auDropped,      \* the events that boundPending dropped
    auCleared,      \* history: those that a clear emptied
    auKept,         \* history: those whose removal was reported to have failed, or
                    \* whose clear died with the worker
    auLost,         \* history: those that a terminated worker had not written,
                    \* or that could not be restored, with those before them
    auRaced,        \* history: a clear was called with an operation queued
    auAppends, auClears, auFaults, auKills

auVars == <<auStored, auMemory, auRestored, auPending, auBatch, auNext, auQueue, auWriting,
            auTimer, auError, auDropped, auCleared, auKept, auLost, auRaced,
            auAppends, auClears, auFaults, auKills>>

Events == 1 .. MaxAppends

Ids(events) == {events[i] : i \in DOMAIN events}

\* These events and the older ones, which they had pushed out of the log.
UpTo(events) == {event \in Events : \E i \in DOMAIN events : event <= events[i]}

AuditTypeOK ==
    /\ auStored \in Seq(Events) /\ Len(auStored) <= MaxEvents
    /\ auMemory \in Seq(Events) /\ Len(auMemory) <= MaxEvents
    /\ auNext \in Seq(Events) /\ Len(auNext) <= MaxEvents
    /\ auPending \in Seq(Events) /\ Len(auPending) <= MaxPending
    /\ auBatch \in Seq(Events) /\ Len(auBatch) <= MaxBatch
    /\ auQueue \in Seq({"flush", "clear"}) /\ (auWriting => auQueue # <<>>)
    /\ {auWriting, auTimer, auError, auRestored, auRaced} \subseteq BOOLEAN
    /\ auDropped \cup auCleared \cup auKept \cup auLost \subseteq Events
    /\ auAppends \in 0 .. MaxAppends /\ auClears \in 0 .. MaxClears
    /\ auFaults \in 0 .. MaxAuditFaults /\ auKills \in 0 .. MaxAuditKills

AuditInit ==
    /\ auStored = <<>> /\ auMemory = <<>> /\ auRestored = TRUE /\ auPending = <<>>
    /\ auBatch = <<>> /\ auNext = <<>> /\ auQueue = <<>> /\ auWriting = FALSE
    /\ auTimer = FALSE /\ auError = FALSE
    /\ auDropped = {} /\ auCleared = {} /\ auKept = {} /\ auLost = {} /\ auRaced = FALSE
    /\ auAppends = 0 /\ auClears = 0 /\ auFaults = 0 /\ auKills = 0

-----------------------------------------------------------------------------
FirstOf(events, most) == SubSeq(events, 1, IF Len(events) <= most THEN Len(events) ELSE most)

LastOf(events, most) ==
    SubSeq(events, IF Len(events) <= most THEN 1 ELSE Len(events) - most + 1, Len(events))

\* boundPending: the oldest events beyond the bound are dropped and counted.
Bounded(events) ==
    /\ auPending' = LastOf(events, MaxPending)
    /\ auDropped' = auDropped \cup (Ids(events) \ Ids(auPending'))

AuditFault == auFaults < MaxAuditFaults /\ auFaults' = auFaults + 1

\* appendAuditEvent: the timer is set, early or late.
AppendEvent ==
    /\ auAppends < MaxAppends
    /\ auAppends' = auAppends + 1
    /\ Bounded(Append(auPending, auAppends'))
    /\ auTimer' = TRUE
    /\ UNCHANGED <<auStored, auMemory, auRestored, auBatch, auNext, auQueue, auWriting, auError,
                   auCleared, auKept, auLost, auRaced, auClears, auFaults, auKills>>

\* The timer calls flushAuditEvents, which joins the queue.
AuditTimer ==
    /\ auTimer
    /\ auTimer' = FALSE
    /\ auQueue' = Append(auQueue, "flush")
    /\ UNCHANGED <<auStored, auMemory, auRestored, auPending, auBatch, auNext, auWriting,
                   auError, auDropped, auCleared, auKept, auLost, auRaced, auAppends, auClears,
                   auFaults, auKills>>

\* ensureRestored: what cannot be read counts as empty, for good.
RestoreEvents ==
    /\ ~auRestored
    /\ auRestored' = TRUE
    /\ \/ auMemory' = auStored /\ UNCHANGED <<auError, auLost, auFaults>>
       \/ AuditFault /\ auError' = TRUE /\ auLost' = auLost \cup UpTo(auStored)
          /\ UNCHANGED auMemory
    /\ UNCHANGED <<auStored, auPending, auBatch, auNext, auQueue, auWriting, auTimer, auDropped,
                   auCleared, auKept, auRaced, auAppends, auClears, auKills>>

\* flushOneBatch takes a batch and begins to write it behind the stored events.
StartFlush ==
    /\ auRestored /\ ~auWriting /\ auQueue # <<>> /\ Head(auQueue) = "flush"
    /\ IF auPending = <<>>
       THEN auQueue' = Tail(auQueue) /\ UNCHANGED <<auWriting, auBatch, auNext, auPending>>
       ELSE /\ auWriting' = TRUE
            /\ auBatch' = FirstOf(auPending, MaxBatch)
            /\ auPending' = SubSeq(auPending, Len(auBatch') + 1, Len(auPending))
            /\ auNext' = LastOf(auMemory \o auBatch', MaxEvents)
            /\ UNCHANGED auQueue
    /\ UNCHANGED <<auStored, auMemory, auRestored, auTimer, auError, auDropped, auCleared, auKept,
                   auLost, auRaced, auAppends, auClears, auFaults, auKills>>

\* It is written: the memory follows, whatever it is by now, and the rest is
\* flushed at once.
Flushed ==
    /\ auStored' = auNext /\ auMemory' = auNext
    /\ auError' = FALSE
    /\ auTimer' = (auTimer \/ auPending # <<>>)
    /\ UNCHANGED <<auPending, auDropped, auFaults>>

\* MUTANT of FlushFailed: a failed batch goes behind the events appended meanwhile.
FlushFailedBehind ==
    /\ AuditFault /\ Bounded(auPending \o auBatch) /\ auError' = TRUE
    /\ UNCHANGED <<auStored, auMemory, auTimer>>

\* It is not: the batch is pending again, until an append sets the timer.
FlushFailed ==
    /\ AuditFault
    /\ Bounded(auBatch \o auPending)
    /\ auError' = TRUE
    /\ UNCHANGED <<auStored, auMemory, auTimer>>

FinishFlush ==
    /\ auWriting /\ Head(auQueue) = "flush"
    /\ auWriting' = FALSE
    /\ auQueue' = Tail(auQueue)
    /\ auBatch' = <<>> /\ auNext' = <<>>
    /\ Flushed \/ FlushFailed
    /\ UNCHANGED <<auRestored, auCleared, auKept, auLost, auRaced, auAppends, auClears, auKills>>

\* clearAuditEvents empties the memory and queues the removal.
Clear ==
    /\ auRestored /\ auClears < MaxClears
    /\ auClears' = auClears + 1
    /\ auTimer' = FALSE
    /\ auPending' = <<>> /\ auMemory' = <<>>
    /\ auQueue' = Append(auQueue, "clear")
    /\ auCleared' = 1 .. auAppends /\ auKept' = {}
    /\ auRaced' = (auRaced \/ auQueue # <<>>)
    /\ UNCHANGED <<auStored, auRestored, auBatch, auNext, auWriting, auError, auDropped, auLost,
                   auAppends, auFaults, auKills>>

\* The removal; when it is rejected the caller is told.
RemoveEvents ==
    /\ ~auWriting /\ auQueue # <<>> /\ Head(auQueue) = "clear"
    /\ auQueue' = Tail(auQueue)
    /\ \/ auStored' = <<>> /\ auError' = FALSE /\ UNCHANGED <<auKept, auFaults>>
       \/ AuditFault /\ auKept' = Ids(auStored) /\ UNCHANGED <<auStored, auError>>
    /\ UNCHANGED <<auCleared, auMemory, auRestored, auPending, auBatch, auNext, auWriting, auTimer,
                   auDropped, auLost, auRaced, auAppends, auClears, auKills>>

\* The browser terminates the worker; the next event starts it again. A write under
\* way lands or not; a clear that has not removed anything is lost with its caller.
KillWorker ==
    /\ auKills < MaxAuditKills
    /\ auKills' = auKills + 1
    /\ auStored' \in {auStored} \cup IF auWriting THEN {auNext} ELSE {}
    /\ auMemory' = <<>> /\ auRestored' = FALSE /\ auPending' = <<>>
    /\ auBatch' = <<>> /\ auNext' = <<>> /\ auQueue' = <<>> /\ auWriting' = FALSE
    /\ auTimer' = FALSE /\ auError' = FALSE
    /\ auLost' = auLost \cup ((Ids(auPending) \cup Ids(auBatch)) \ Ids(auStored'))
    /\ auKept' = Ids(auStored')
    /\ UNCHANGED <<auDropped, auCleared, auRaced, auAppends, auClears, auFaults>>

AuditWorks == RestoreEvents \/ StartFlush \/ FinishFlush \/ RemoveEvents

AuditSteps == AppendEvent \/ AuditTimer \/ Clear \/ AuditWorks \/ KillWorker

AuditSpec == AuditInit /\ [][AuditSteps]_auVars

AuditFairness == WF_auVars(AuditWorks) /\ WF_auVars(AuditTimer)

-----------------------------------------------------------------------------
(* Properties *)

Increasing(events) == \A i \in 1 .. Len(events) - 1 : events[i] < events[i + 1]

\* The events are kept in the order in which they happened, each once, also when a
\* batch that could not be written goes back to those appended meanwhile.
EventsInOrder ==
    ~auRaced => Increasing(auMemory \o auBatch \o auPending) /\ Increasing(auStored)

\* An event is stored, on its way there or counted as dropped, unless newer ones fill
\* the log, a clear emptied it or its worker died first.
NoEventForgotten ==
    ~auRaced =>
        \A event \in 1 .. auAppends :
            \/ event \in Ids(auStored) \cup Ids(auBatch) \cup Ids(auPending)
            \/ event \in auDropped \cup auCleared \cup auLost
            \/ Len(auStored) = MaxEvents /\ event < auStored[1]

\* What was cleared does not come back, unless an operation was queued when the clear
\* emptied the memory.
ClearedStaysCleared ==
    ~auRaced =>
        LET gone == auCleared \ auKept IN
        /\ gone \cap (Ids(auMemory) \cup Ids(auPending)) = {}
        /\ auQueue = <<>> => gone \cap Ids(auStored) = {}

\* Again and again every event is written, or the log is reported degraded, unless an
\* operation was queued when a clear cancelled the timer.
EventsWritten == auPending = <<>> \/ auError \/ auRaced

\* The log is what happened: in order, nothing forgotten, nothing cleared come back.
AuditKept == AuditTypeOK /\ EventsInOrder /\ NoEventForgotten /\ ClearedStaysCleared
=============================================================================
