-------------------------- MODULE AgentRuntimeProofs --------------------------
(***************************************************************************)
(* Proofs about AgentRuntime: what the runtime says of its persistence is  *)
(* true and what it acknowledged is kept (RuntimeSound), and the runtime   *)
(* is a write-behind store (IsWriteBehindStore), for any number of calls,  *)
(* flushes, failing storage calls and terminations.                        *)
(*                                                                         *)
(* The argument is about three sets of mutations: those of the stored      *)
(* runtime, those of the write under way and those of the cached runtime.  *)
(* A write stores nothing that the cache lacks, what was added since it    *)
(* began is not stored, and unless the stored runtime could not be read    *)
(* no write takes anything from the store.                                 *)
(***************************************************************************)
EXTENDS AgentRuntime, FiniteSetTheorems, TLAPS

\* The operations of the mutationQueue are calls that have not run, each once.
QueueHolds ==
    /\ \A i \in DOMAIN queue : pc[queue[i]] = "queued"
    /\ \A i, j \in DOMAIN queue : queue[i] = queue[j] => i = j
    /\ queued = Len(queue)

\* What has not run has changed nothing.
NotBefore ==
    \A c \in Calls : pc[c] \in {"idle", "queued"} => c \notin cache /\ c \notin stored

\* A call that has run, and whose change may still be on its way, has changed the cache.
Applied ==
    \A c \in Calls : pc[c] \in {"applied", "flushing"} =>
        restored /\ (c \notin Unchanging => c \in cache)

\* The flush of a call is that of an immediate call which awaits it.
FlushAwaited ==
    /\ \A c \in Calls : stage[c] # "idle" => pc[c] = "flushing"
    /\ \A c \in Calls : pc[c] = "flushing" => c \in Immediate

\* The operations of the persistenceQueue: only the first has begun its write.
WritesHold ==
    /\ \A i \in DOMAIN writes : stage[writes[i]] \in {"persist", "writing"}
    /\ \A i, j \in DOMAIN writes : writes[i] = writes[j] => i = j
    /\ \A f \in Flushers : stage[f] = "writing" => writes # <<>> /\ Head(writes) = f
    /\ (\E f \in Flushers : stage[f] = "writing") <=> snapshot # NoWrite

\* A worker that has restored nothing has nothing to write.
NothingBefore ==
    /\ ~restored => pending = 0 /\ snapshot = NoWrite /\ cache = {}
    /\ restoring => ~restored

\* The write under way stores a part of the cache, what was added since is not stored, and
\* its batch is what the stored runtime lacks of it. It has the change of the call that
\* awaits it.
WriteSound ==
    snapshot # NoWrite =>
        /\ snapshot.content \subseteq cache
        /\ (cache \ snapshot.content) \cap stored = {}
        /\ snapshot.batch = Cardinality(snapshot.content \ stored)
        /\ ~unread => stored \subseteq snapshot.content
        /\ \A c \in Calls \ Unchanging : stage[c] = "writing" => c \in snapshot.content

\* The cache has all that is stored, unless the stored runtime could not be read; then the
\* failure shows until a write has replaced it.
NothingTaken ==
    restored =>
        /\ ~unread => stored \subseteq cache
        /\ ~degraded => stored \subseteq cache

Order == QueueHolds /\ NotBefore /\ Applied /\ FlushAwaited /\ WritesHold /\ NothingBefore

IInv == TypeOK /\ Order /\ WriteSound /\ NothingTaken /\ PendingCounted /\ AckedIsStored
-----------------------------------------------------------------------------
(* Sequences *)

LEMMA Appended ==
    ASSUME NEW S, NEW s \in Seq(S), NEW e \in S
    PROVE  /\ Append(s, e) \in Seq(S)
           /\ Len(Append(s, e)) = Len(s) + 1
           /\ DOMAIN Append(s, e) = 1 .. Len(s) + 1 /\ DOMAIN s = 1 .. Len(s) /\ Len(s) \in Nat
           /\ \A i \in DOMAIN s : Append(s, e)[i] = s[i] /\ s[i] \in S
           /\ Append(s, e)[Len(s) + 1] = e
           /\ Append(s, e) # <<>>
           /\ s # <<>> => Head(Append(s, e)) = Head(s)
<1>1. /\ Append(s, e) \in Seq(S)
      /\ Len(Append(s, e)) = Len(s) + 1
      /\ Len(s) \in Nat
  OBVIOUS
<1>2. DOMAIN Append(s, e) = 1 .. Len(s) + 1 /\ DOMAIN s = 1 .. Len(s)
  BY <1>1
<1>3. \A i \in DOMAIN s : Append(s, e)[i] = s[i] /\ s[i] \in S
  BY <1>2
<1>4. Append(s, e)[Len(s) + 1] = e /\ Append(s, e) # <<>>
  BY <1>1
<1>5. s # <<>> => Head(Append(s, e)) = Head(s)
  BY <1>1, <1>3
<1>6. QED
  BY <1>1, <1>2, <1>3, <1>4, <1>5

LEMMA Removed ==
    ASSUME NEW S, NEW s \in Seq(S), s # <<>>
    PROVE  /\ Tail(s) \in Seq(S)
           /\ Len(Tail(s)) = Len(s) - 1
           /\ DOMAIN Tail(s) = 1 .. Len(s) - 1 /\ DOMAIN s = 1 .. Len(s) /\ Len(s) \in Nat \ {0}
           /\ \A i \in DOMAIN Tail(s) : i + 1 \in DOMAIN s /\ Tail(s)[i] = s[i + 1]
           /\ Head(s) = s[1] /\ 1 \in DOMAIN s /\ Head(s) \in S
           /\ \A i \in DOMAIN s : s[i] \in S
  OBVIOUS

-----------------------------------------------------------------------------
(* Types: the flags apart from the rest. *)

Flags ==
    /\ restored \in BOOLEAN /\ restoring \in BOOLEAN
    /\ degraded \in BOOLEAN /\ timer \in BOOLEAN
    /\ unread \in BOOLEAN

Values ==
    /\ cache \in SUBSET Calls /\ stored \in SUBSET Calls
    /\ queue \in Seq(Calls)
    /\ queued \in Nat /\ pending \in Nat
    /\ pc \in [Calls -> {"idle", "queued", "applied", "flushing", "acked", "failed", "lost"}]
    /\ stage \in [Flushers -> {"idle", "mutations", "persist", "writing"}]
    /\ mark \in [Flushers -> Calls \cup {NoCall}]
    /\ writes \in Seq(Flushers)
    /\ snapshot \in [content : SUBSET Calls, batch : Nat]
    /\ faults \in 0 .. MaxFaults /\ kills \in 0 .. MaxKills

LEMMA TypeParts == TypeOK <=> Flags /\ Values
  BY Zenon DEF TypeOK, Flags, Values

LEMMA InitIInv == Init => IInv
<1> SUFFICES ASSUME Init
             PROVE  IInv
  OBVIOUS
<1>1. TypeOK
  <2>1. Flags
    BY DEF Init, Flags
  <2>2. Values
    BY RuntimeConstants DEF Init, Values, NoWrite, Flushers
  <2>3. QED
    BY <2>1, <2>2, TypeParts
<1>2. Order
  BY DEF Init, Order, QueueHolds, NotBefore, Applied, FlushAwaited, WritesHold, NothingBefore,
         Flushers
<1>3. WriteSound /\ NothingTaken /\ PendingCounted /\ AckedIsStored
  BY RuntimeConstants DEF Init, WriteSound, NothingTaken, PendingCounted, AckedIsStored
<1>4. QED
  BY <1>1, <1>2, <1>3 DEF IInv

LEMMA NextFlags ==
    ASSUME Flags, [Next]_vars
    PROVE  Flags'
<1> USE DEF memoryVars, queueVars, flushVars, boundVars, Flags
<1>1. CASE StartRestore
  BY <1>1 DEF StartRestore
<1>2. CASE Restored
  BY <1>2 DEF Restored
<1>3. CASE RestoreFails
  BY <1>3 DEF RestoreFails, Fault
<1>4. ASSUME NEW c \in Calls, Call(c)
       PROVE  Flags'
  BY <1>4 DEF Call
<1>5. ASSUME NEW c \in Calls, Refuse(c)
       PROVE  Flags'
  BY <1>5 DEF Refuse
<1>6. ASSUME NEW c \in Calls, Mutate(c)
       PROVE  Flags'
  BY <1>6 DEF Mutate, Operation
<1>7. ASSUME NEW c \in Calls, Throw(c)
       PROVE  Flags'
  BY <1>7 DEF Throw, Operation
<1>8. ASSUME NEW c \in Calls, Schedule(c)
       PROVE  Flags'
  BY <1>8 DEF Schedule
<1>9. ASSUME NEW c \in Calls, FlushNow(c)
       PROVE  Flags'
  BY <1>9 DEF FlushNow, BeginFlush
<1>10. ASSUME NEW t \in Timers, TimerFires(t)
        PROVE  Flags'
  BY <1>10 DEF TimerFires, BeginFlush
<1>11. ASSUME NEW f \in Flushers, JoinWrites(f)
        PROVE  Flags'
  BY <1>11 DEF JoinWrites
<1>12. ASSUME NEW f \in Flushers, NothingToWrite(f)
        PROVE  Flags'
  BY <1>12 DEF NothingToWrite, Writing, EndFlush
<1>13. ASSUME NEW f \in Flushers, StartWrite(f)
        PROVE  Flags'
  BY <1>13 DEF StartWrite, Writing
<1>14. ASSUME NEW f \in Flushers, Written(f)
        PROVE  Flags'
  BY <1>14 DEF Written, Writing, EndFlush
<1>15. ASSUME NEW f \in Flushers, WriteFails(f)
        PROVE  Flags'
  BY <1>15 DEF WriteFails, Writing, EndFlush, Fault
<1>16. CASE Kill
  BY <1>16 DEF Kill
<1>17. CASE UNCHANGED vars
  BY <1>17 DEF vars
<1>18. QED
  BY <1>1, <1>2, <1>3, <1>4, <1>5, <1>6, <1>7, <1>8, <1>9, <1>10, <1>11, <1>12, <1>13, <1>14, <1>15,
     <1>16, <1>17
     DEF Next, RuntimeWorks, EnsureRestored, Get

LEMMA LastTyped == Values => (queue # <<>> => Last(queue) \in Calls)
  BY DEF Values, Last

LEMMA NextValues ==
    ASSUME Values, QueueHolds, [Next]_vars
    PROVE  Values'
<1> USE RuntimeConstants DEF memoryVars, queueVars, flushVars, boundVars, Values, Flushers
<1>1. CASE StartRestore
  BY <1>1 DEF StartRestore
<1>2. CASE Restored
  BY <1>2 DEF Restored
<1>3. CASE RestoreFails
  BY <1>3 DEF RestoreFails, Fault
<1>4. ASSUME NEW c \in Calls, Call(c)
       PROVE  Values'
  BY <1>4, Appended DEF Call
<1>5. ASSUME NEW c \in Calls, Refuse(c)
       PROVE  Values'
  BY <1>5 DEF Refuse
<1>6. ASSUME NEW c \in Calls, Mutate(c)
       PROVE  Values'
  BY <1>6, Removed DEF Mutate, Operation, QueueHolds
<1>7. ASSUME NEW c \in Calls, Throw(c)
       PROVE  Values'
  BY <1>7, Removed DEF Throw, Operation, QueueHolds
<1>8. ASSUME NEW c \in Calls, Schedule(c)
       PROVE  Values'
  BY <1>8 DEF Schedule
<1>9. ASSUME NEW c \in Calls, FlushNow(c)
       PROVE  Values'
  BY <1>9, LastTyped DEF FlushNow, BeginFlush
<1>10. ASSUME NEW t \in Timers, TimerFires(t)
        PROVE  Values'
  BY <1>10, LastTyped DEF TimerFires, BeginFlush
<1>11. ASSUME NEW f \in Flushers, JoinWrites(f)
        PROVE  Values'
  BY <1>11, Appended DEF JoinWrites
<1>12. ASSUME NEW f \in Flushers, NothingToWrite(f)
        PROVE  Values'
  BY <1>12, Removed DEF NothingToWrite, Writing, EndFlush, NoWrite
<1>13. ASSUME NEW f \in Flushers, StartWrite(f)
        PROVE  Values'
  BY <1>13 DEF StartWrite, Writing
<1>14. ASSUME NEW f \in Flushers, Written(f)
        PROVE  Values'
  BY <1>14, Removed DEF Written, Writing, EndFlush, NoWrite
<1>15. ASSUME NEW f \in Flushers, WriteFails(f)
        PROVE  Values'
  BY <1>15, Removed DEF WriteFails, Writing, EndFlush, Fault, NoWrite
<1>16. CASE Kill
  BY <1>16 DEF Kill, NoWrite
<1>17. CASE UNCHANGED vars
  BY <1>17 DEF vars
<1>18. QED
  BY <1>1, <1>2, <1>3, <1>4, <1>5, <1>6, <1>7, <1>8, <1>9, <1>10, <1>11, <1>12, <1>13, <1>14, <1>15,
     <1>16, <1>17
     DEF Next, RuntimeWorks, EnsureRestored, Get

-----------------------------------------------------------------------------
(* The order of the operations. *)

LEMMA NextQueueHolds ==
    ASSUME Values, QueueHolds, FlushAwaited, [Next]_vars
    PROVE  QueueHolds'
<1> USE RuntimeConstants DEF memoryVars, queueVars, flushVars, boundVars, Values, Flushers,
    QueueHolds, FlushAwaited
<1>1. CASE StartRestore
  BY <1>1 DEF StartRestore
<1>2. CASE Restored
  BY <1>2 DEF Restored
<1>3. CASE RestoreFails
  BY <1>3 DEF RestoreFails, Fault
<1>4. ASSUME NEW c \in Calls, Call(c)
       PROVE  QueueHolds'
  BY <1>4, Appended DEF Call
<1>5. ASSUME NEW c \in Calls, Refuse(c)
       PROVE  QueueHolds'
  BY <1>5 DEF Refuse
<1>6. ASSUME NEW c \in Calls, Mutate(c)
       PROVE  QueueHolds'
  <2>1. /\ \A i \in DOMAIN queue' : i + 1 \in DOMAIN queue /\ queue'[i] = queue[i + 1]
        /\ 1 \in DOMAIN queue /\ queue[1] = c /\ queued' = Len(queue')
        /\ DOMAIN queue' \subseteq Nat \ {0}
    BY <1>6, Removed DEF Mutate, Operation, QueueHolds
  <2>2. \A i \in DOMAIN queue' : queue'[i] # c
    <3> SUFFICES ASSUME NEW i \in DOMAIN queue', queue'[i] = c
                 PROVE  FALSE
      OBVIOUS
    <3>1. i + 1 = 1
      BY <2>1 DEF QueueHolds
    <3>2. QED
      BY <2>1, <3>1
  <2>3. \A i, j \in DOMAIN queue' : queue'[i] = queue'[j] => i = j
    BY <2>1 DEF QueueHolds
  <2>4. \A i \in DOMAIN queue' : pc'[queue'[i]] = "queued"
    BY <1>6, <2>1, <2>2 DEF Mutate, QueueHolds
  <2>5. QED
    BY <2>1, <2>3, <2>4 DEF QueueHolds
<1>7. ASSUME NEW c \in Calls, Throw(c)
       PROVE  QueueHolds'
  <2>1. /\ \A i \in DOMAIN queue' : i + 1 \in DOMAIN queue /\ queue'[i] = queue[i + 1]
        /\ 1 \in DOMAIN queue /\ queue[1] = c /\ queued' = Len(queue')
        /\ DOMAIN queue' \subseteq Nat \ {0}
    BY <1>7, Removed DEF Throw, Operation, QueueHolds
  <2>2. \A i \in DOMAIN queue' : queue'[i] # c
    <3> SUFFICES ASSUME NEW i \in DOMAIN queue', queue'[i] = c
                 PROVE  FALSE
      OBVIOUS
    <3>1. i + 1 = 1
      BY <2>1 DEF QueueHolds
    <3>2. QED
      BY <2>1, <3>1
  <2>3. \A i, j \in DOMAIN queue' : queue'[i] = queue'[j] => i = j
    BY <2>1 DEF QueueHolds
  <2>4. \A i \in DOMAIN queue' : pc'[queue'[i]] = "queued"
    BY <1>7, <2>1, <2>2 DEF Throw, QueueHolds
  <2>5. QED
    BY <2>1, <2>3, <2>4 DEF QueueHolds
<1>8. ASSUME NEW c \in Calls, Schedule(c)
       PROVE  QueueHolds'
  BY <1>8 DEF Schedule
<1>9. ASSUME NEW c \in Calls, FlushNow(c)
       PROVE  QueueHolds'
  BY <1>9 DEF FlushNow, BeginFlush
<1>10. ASSUME NEW t \in Timers, TimerFires(t)
        PROVE  QueueHolds'
  BY <1>10 DEF TimerFires, BeginFlush
<1>11. ASSUME NEW f \in Flushers, JoinWrites(f)
        PROVE  QueueHolds'
  BY <1>11 DEF JoinWrites
<1>12. ASSUME NEW f \in Flushers, NothingToWrite(f)
        PROVE  QueueHolds'
  BY <1>12 DEF NothingToWrite, Writing, EndFlush
<1>13. ASSUME NEW f \in Flushers, StartWrite(f)
        PROVE  QueueHolds'
  BY <1>13 DEF StartWrite, Writing
<1>14. ASSUME NEW f \in Flushers, Written(f)
        PROVE  QueueHolds'
  BY <1>14 DEF Written, Writing, EndFlush
<1>15. ASSUME NEW f \in Flushers, WriteFails(f)
        PROVE  QueueHolds'
  BY <1>15 DEF WriteFails, Writing, EndFlush, Fault
<1>16. CASE Kill
  BY <1>16 DEF Kill
<1>17. CASE UNCHANGED vars
  BY <1>17 DEF vars
<1>18. QED
  BY <1>1, <1>2, <1>3, <1>4, <1>5, <1>6, <1>7, <1>8, <1>9, <1>10, <1>11, <1>12, <1>13, <1>14, <1>15,
     <1>16, <1>17
     DEF Next, RuntimeWorks, EnsureRestored, Get

LEMMA NextNotBefore ==
    ASSUME Values, QueueHolds, FlushAwaited, NotBefore, WriteSound, WritesHold, NothingBefore, [Next]_vars
    PROVE  NotBefore'
<1> USE RuntimeConstants DEF memoryVars, queueVars, flushVars, boundVars, Values, Flushers, NotBefore
<1>1. CASE StartRestore
  BY <1>1 DEF StartRestore
<1>2. CASE Restored
  BY <1>2 DEF Restored, NothingBefore
<1>3. CASE RestoreFails
  BY <1>3 DEF RestoreFails, Fault
<1>4. ASSUME NEW c \in Calls, Call(c)
       PROVE  NotBefore'
  BY <1>4 DEF Call
<1>5. ASSUME NEW c \in Calls, Refuse(c)
       PROVE  NotBefore'
  BY <1>5 DEF Refuse
<1>6. ASSUME NEW c \in Calls, Mutate(c)
       PROVE  NotBefore'
  BY <1>6, Removed DEF Mutate, Operation, QueueHolds
<1>7. ASSUME NEW c \in Calls, Throw(c)
       PROVE  NotBefore'
  BY <1>7, Removed DEF Throw, Operation, QueueHolds
<1>8. ASSUME NEW c \in Calls, Schedule(c)
       PROVE  NotBefore'
  BY <1>8 DEF Schedule
<1>9. ASSUME NEW c \in Calls, FlushNow(c)
       PROVE  NotBefore'
  BY <1>9 DEF FlushNow, BeginFlush
<1>10. ASSUME NEW t \in Timers, TimerFires(t)
        PROVE  NotBefore'
  BY <1>10 DEF TimerFires, BeginFlush
<1>11. ASSUME NEW f \in Flushers, JoinWrites(f)
        PROVE  NotBefore'
  BY <1>11 DEF JoinWrites
<1>12. ASSUME NEW f \in Flushers, NothingToWrite(f)
        PROVE  NotBefore'
  BY <1>12 DEF NothingToWrite, Writing, EndFlush, FlushAwaited
<1>13. ASSUME NEW f \in Flushers, StartWrite(f)
        PROVE  NotBefore'
  BY <1>13 DEF StartWrite, Writing
<1>14. ASSUME NEW f \in Flushers, Written(f)
        PROVE  NotBefore'
  BY <1>14 DEF Written, Writing, EndFlush, WriteSound, WritesHold, FlushAwaited
<1>15. ASSUME NEW f \in Flushers, WriteFails(f)
        PROVE  NotBefore'
  BY <1>15 DEF WriteFails, Writing, EndFlush, Fault, FlushAwaited
<1>16. CASE Kill
  BY <1>16 DEF Kill, WriteSound
<1>17. CASE UNCHANGED vars
  BY <1>17 DEF vars
<1>18. QED
  BY <1>1, <1>2, <1>3, <1>4, <1>5, <1>6, <1>7, <1>8, <1>9, <1>10, <1>11, <1>12, <1>13, <1>14, <1>15,
     <1>16, <1>17
     DEF Next, RuntimeWorks, EnsureRestored, Get

LEMMA NextApplied ==
    ASSUME Values, FlushAwaited, NothingBefore, Applied, [Next]_vars
    PROVE  Applied'
<1> USE RuntimeConstants DEF memoryVars, queueVars, flushVars, boundVars, Values, Flushers, Applied
<1>1. CASE StartRestore
  BY <1>1 DEF StartRestore
<1>2. CASE Restored
  BY <1>2 DEF Restored, NothingBefore
<1>3. CASE RestoreFails
  BY <1>3 DEF RestoreFails, Fault, NothingBefore
<1>4. ASSUME NEW c \in Calls, Call(c)
       PROVE  Applied'
  BY <1>4 DEF Call
<1>5. ASSUME NEW c \in Calls, Refuse(c)
       PROVE  Applied'
  BY <1>5 DEF Refuse
<1>6. ASSUME NEW c \in Calls, Mutate(c)
       PROVE  Applied'
  BY <1>6 DEF Mutate, Operation
<1>7. ASSUME NEW c \in Calls, Throw(c)
       PROVE  Applied'
  BY <1>7 DEF Throw, Operation
<1>8. ASSUME NEW c \in Calls, Schedule(c)
       PROVE  Applied'
  BY <1>8 DEF Schedule
<1>9. ASSUME NEW c \in Calls, FlushNow(c)
       PROVE  Applied'
  BY <1>9 DEF FlushNow, BeginFlush
<1>10. ASSUME NEW t \in Timers, TimerFires(t)
        PROVE  Applied'
  BY <1>10 DEF TimerFires, BeginFlush
<1>11. ASSUME NEW f \in Flushers, JoinWrites(f)
        PROVE  Applied'
  BY <1>11 DEF JoinWrites
<1>12. ASSUME NEW f \in Flushers, NothingToWrite(f)
        PROVE  Applied'
  BY <1>12 DEF NothingToWrite, Writing, EndFlush, FlushAwaited
<1>13. ASSUME NEW f \in Flushers, StartWrite(f)
        PROVE  Applied'
  BY <1>13 DEF StartWrite, Writing
<1>14. ASSUME NEW f \in Flushers, Written(f)
        PROVE  Applied'
  BY <1>14 DEF Written, Writing, EndFlush, FlushAwaited
<1>15. ASSUME NEW f \in Flushers, WriteFails(f)
        PROVE  Applied'
  BY <1>15 DEF WriteFails, Writing, EndFlush, Fault, FlushAwaited
<1>16. CASE Kill
  BY <1>16 DEF Kill
<1>17. CASE UNCHANGED vars
  BY <1>17 DEF vars
<1>18. QED
  BY <1>1, <1>2, <1>3, <1>4, <1>5, <1>6, <1>7, <1>8, <1>9, <1>10, <1>11, <1>12, <1>13, <1>14, <1>15,
     <1>16, <1>17
     DEF Next, RuntimeWorks, EnsureRestored, Get

LEMMA NextFlushAwaited ==
    ASSUME Values, FlushAwaited, QueueHolds, [Next]_vars
    PROVE  FlushAwaited'
<1> USE RuntimeConstants DEF memoryVars, queueVars, flushVars, boundVars, Values, Flushers, FlushAwaited
<1>1. CASE StartRestore
  BY <1>1 DEF StartRestore
<1>2. CASE Restored
  BY <1>2 DEF Restored
<1>3. CASE RestoreFails
  BY <1>3 DEF RestoreFails, Fault
<1>4. ASSUME NEW c \in Calls, Call(c)
       PROVE  FlushAwaited'
  BY <1>4 DEF Call
<1>5. ASSUME NEW c \in Calls, Refuse(c)
       PROVE  FlushAwaited'
  BY <1>5 DEF Refuse
<1>6. ASSUME NEW c \in Calls, Mutate(c)
       PROVE  FlushAwaited'
  BY <1>6, Removed DEF Mutate, Operation, QueueHolds
<1>7. ASSUME NEW c \in Calls, Throw(c)
       PROVE  FlushAwaited'
  BY <1>7, Removed DEF Throw, Operation, QueueHolds
<1>8. ASSUME NEW c \in Calls, Schedule(c)
       PROVE  FlushAwaited'
  BY <1>8 DEF Schedule
<1>9. ASSUME NEW c \in Calls, FlushNow(c)
       PROVE  FlushAwaited'
  BY <1>9 DEF FlushNow, BeginFlush
<1>10. ASSUME NEW t \in Timers, TimerFires(t)
        PROVE  FlushAwaited'
  BY <1>10 DEF TimerFires, BeginFlush
<1>11. ASSUME NEW f \in Flushers, JoinWrites(f)
        PROVE  FlushAwaited'
  BY <1>11 DEF JoinWrites
<1>12. ASSUME NEW f \in Flushers, NothingToWrite(f)
        PROVE  FlushAwaited'
  BY <1>12 DEF NothingToWrite, Writing, EndFlush
<1>13. ASSUME NEW f \in Flushers, StartWrite(f)
        PROVE  FlushAwaited'
  BY <1>13 DEF StartWrite, Writing
<1>14. ASSUME NEW f \in Flushers, Written(f)
        PROVE  FlushAwaited'
  BY <1>14 DEF Written, Writing, EndFlush
<1>15. ASSUME NEW f \in Flushers, WriteFails(f)
        PROVE  FlushAwaited'
  BY <1>15 DEF WriteFails, Writing, EndFlush, Fault
<1>16. CASE Kill
  BY <1>16 DEF Kill
<1>17. CASE UNCHANGED vars
  BY <1>17 DEF vars
<1>18. QED
  BY <1>1, <1>2, <1>3, <1>4, <1>5, <1>6, <1>7, <1>8, <1>9, <1>10, <1>11, <1>12, <1>13, <1>14, <1>15,
     <1>16, <1>17
     DEF Next, RuntimeWorks, EnsureRestored, Get

LEMMA NextNothingBefore ==
    ASSUME Values, NothingBefore, Applied, [Next]_vars
    PROVE  NothingBefore'
<1> USE RuntimeConstants DEF memoryVars, queueVars, flushVars, boundVars, Values, Flushers,
    NothingBefore
<1>1. CASE StartRestore
  BY <1>1 DEF StartRestore
<1>2. CASE Restored
  BY <1>2 DEF Restored
<1>3. CASE RestoreFails
  BY <1>3 DEF RestoreFails, Fault
<1>4. ASSUME NEW c \in Calls, Call(c)
       PROVE  NothingBefore'
  BY <1>4 DEF Call
<1>5. ASSUME NEW c \in Calls, Refuse(c)
       PROVE  NothingBefore'
  BY <1>5 DEF Refuse
<1>6. ASSUME NEW c \in Calls, Mutate(c)
       PROVE  NothingBefore'
  BY <1>6 DEF Mutate, Operation
<1>7. ASSUME NEW c \in Calls, Throw(c)
       PROVE  NothingBefore'
  BY <1>7 DEF Throw, Operation
<1>8. ASSUME NEW c \in Calls, Schedule(c)
       PROVE  NothingBefore'
  BY <1>8 DEF Schedule
<1>9. ASSUME NEW c \in Calls, FlushNow(c)
       PROVE  NothingBefore'
  BY <1>9 DEF FlushNow, BeginFlush
<1>10. ASSUME NEW t \in Timers, TimerFires(t)
        PROVE  NothingBefore'
  BY <1>10 DEF TimerFires, BeginFlush
<1>11. ASSUME NEW f \in Flushers, JoinWrites(f)
        PROVE  NothingBefore'
  BY <1>11 DEF JoinWrites
<1>12. ASSUME NEW f \in Flushers, NothingToWrite(f)
        PROVE  NothingBefore'
  BY <1>12 DEF NothingToWrite, Writing, EndFlush
<1>13. ASSUME NEW f \in Flushers, StartWrite(f)
        PROVE  NothingBefore'
  BY <1>13 DEF StartWrite, Writing
<1>14. ASSUME NEW f \in Flushers, Written(f)
        PROVE  NothingBefore'
  BY <1>14 DEF Written, Writing, EndFlush
<1>15. ASSUME NEW f \in Flushers, WriteFails(f)
        PROVE  NothingBefore'
  BY <1>15 DEF WriteFails, Writing, EndFlush, Fault
<1>16. CASE Kill
  BY <1>16 DEF Kill
<1>17. CASE UNCHANGED vars
  BY <1>17 DEF vars
<1>18. QED
  BY <1>1, <1>2, <1>3, <1>4, <1>5, <1>6, <1>7, <1>8, <1>9, <1>10, <1>11, <1>12, <1>13, <1>14, <1>15,
     <1>16, <1>17
     DEF Next, RuntimeWorks, EnsureRestored, Get

LEMMA NextWritesHold ==
    ASSUME Values, NothingBefore, WritesHold, FlushAwaited, [Next]_vars
    PROVE  WritesHold'
<1> USE RuntimeConstants DEF memoryVars, queueVars, flushVars, boundVars, Values, Flushers, WritesHold
<1>1. CASE StartRestore
  BY <1>1 DEF StartRestore
<1>2. CASE Restored
  BY <1>2 DEF Restored
<1>3. CASE RestoreFails
  BY <1>3 DEF RestoreFails, Fault
<1>4. ASSUME NEW c \in Calls, Call(c)
       PROVE  WritesHold'
  BY <1>4 DEF Call
<1>5. ASSUME NEW c \in Calls, Refuse(c)
       PROVE  WritesHold'
  BY <1>5 DEF Refuse
<1>6. ASSUME NEW c \in Calls, Mutate(c)
       PROVE  WritesHold'
  BY <1>6 DEF Mutate, Operation
<1>7. ASSUME NEW c \in Calls, Throw(c)
       PROVE  WritesHold'
  BY <1>7 DEF Throw, Operation
<1>8. ASSUME NEW c \in Calls, Schedule(c)
       PROVE  WritesHold'
  BY <1>8 DEF Schedule
<1>9. ASSUME NEW c \in Calls, FlushNow(c)
       PROVE  WritesHold'
  BY <1>9 DEF FlushNow, BeginFlush, FlushAwaited
<1>10. ASSUME NEW t \in Timers, TimerFires(t)
        PROVE  WritesHold'
  BY <1>10 DEF TimerFires, BeginFlush
<1>11. ASSUME NEW f \in Flushers, JoinWrites(f)
        PROVE  WritesHold'
  BY <1>11, Appended DEF JoinWrites
<1>12. ASSUME NEW f \in Flushers, NothingToWrite(f)
        PROVE  WritesHold'
  BY <1>12, Removed DEF NothingToWrite, Writing, EndFlush
<1>13. ASSUME NEW f \in Flushers, StartWrite(f)
        PROVE  WritesHold'
  BY <1>13 DEF StartWrite, Writing, NoWrite
<1>14. ASSUME NEW f \in Flushers, Written(f)
        PROVE  WritesHold'
  BY <1>14, Removed DEF Written, Writing, EndFlush
<1>15. ASSUME NEW f \in Flushers, WriteFails(f)
        PROVE  WritesHold'
  BY <1>15, Removed DEF WriteFails, Writing, EndFlush, Fault
<1>16. CASE Kill
  BY <1>16 DEF Kill
<1>17. CASE UNCHANGED vars
  BY <1>17 DEF vars
<1>18. QED
  BY <1>1, <1>2, <1>3, <1>4, <1>5, <1>6, <1>7, <1>8, <1>9, <1>10, <1>11, <1>12, <1>13, <1>14, <1>15,
     <1>16, <1>17
     DEF Next, RuntimeWorks, EnsureRestored, Get

-----------------------------------------------------------------------------
(* What is cached, what is being written and what is stored. *)

LEMMA CallsFinite ==
    ASSUME NEW S \in SUBSET Calls
    PROVE  IsFiniteSet(S) /\ Cardinality(S) \in Nat /\ (Cardinality(S) = 0 <=> S = {})
  BY RuntimeConstants, FS_Subset, FS_CardinalityType, FS_EmptySet

\* A change that is neither cached nor stored is one more to write.
LEMMA OneMore ==
    ASSUME NEW A \in SUBSET Calls, NEW B \in SUBSET Calls, NEW c \in Calls, c \notin A, c \notin B
    PROVE  Cardinality((A \cup {c}) \ B) = Cardinality(A \ B) + 1
<1>1. (A \cup {c}) \ B = (A \ B) \cup {c} /\ c \notin A \ B
  OBVIOUS
<1>2. IsFiniteSet(A \ B)
  BY CallsFinite
<1>3. QED
  BY <1>1, <1>2, FS_AddElement

\* What is to write are the content of the write under way and what was added since.
LEMMA WhatRemains ==
    ASSUME NEW A \in SUBSET Calls, NEW B \in SUBSET Calls, NEW C \in SUBSET Calls,
           C \subseteq A, (A \ C) \cap B = {}
    PROVE  Cardinality(A \ B) = Cardinality(C \ B) + Cardinality(A \ C)
<1>1. A \ B = (C \ B) \cup (A \ C) /\ (C \ B) \cap (A \ C) = {}
  OBVIOUS
<1>2. IsFiniteSet(C \ B) /\ IsFiniteSet(A \ C)
  BY CallsFinite
<1>3. Cardinality({}) = 0 /\ Cardinality(C \ B) \in Nat /\ Cardinality(A \ C) \in Nat
  BY CallsFinite
<1>4. Cardinality((C \ B) \cup (A \ C))
        = Cardinality(C \ B) + Cardinality(A \ C) - Cardinality((C \ B) \cap (A \ C))
  BY <1>2, FS_Union
<1>5. Cardinality(A \ B) = Cardinality(C \ B) + Cardinality(A \ C) - Cardinality({})
  BY <1>1, <1>4
<1>6. QED
  BY <1>3, <1>5

\* The write under way is that of the operation at the head of the persistenceQueue.
LEMMA WritingKnown ==
    ASSUME Values, WritesHold, NEW f \in Flushers, Writing(f, "writing")
    PROVE  snapshot # NoWrite
  BY DEF WritesHold, Writing

LEMMA NextWriteSound ==
    ASSUME Values, Order, WriteSound, NothingTaken, PendingCounted, [Next]_vars
    PROVE  WriteSound'
<1> USE RuntimeConstants DEF memoryVars, queueVars, flushVars, boundVars, Values, Flushers, WriteSound
<1>1. CASE StartRestore
  BY <1>1 DEF StartRestore
<1>2. CASE Restored
  BY <1>2 DEF Restored, Order, NothingBefore
<1>3. CASE RestoreFails
  BY <1>3 DEF RestoreFails, Fault, Order, NothingBefore
<1>4. ASSUME NEW c \in Calls, Call(c)
       PROVE  WriteSound'
  BY <1>4 DEF Call
<1>5. ASSUME NEW c \in Calls, Refuse(c)
       PROVE  WriteSound'
  BY <1>5 DEF Refuse
<1>6. ASSUME NEW c \in Calls, Mutate(c)
       PROVE  WriteSound'
  <2>1. c \notin cache /\ c \notin stored
    BY <1>6, Removed DEF Mutate, Operation, Order, QueueHolds, NotBefore
  <2>2. QED
    BY <1>6, <2>1 DEF Mutate
<1>7. ASSUME NEW c \in Calls, Throw(c)
       PROVE  WriteSound'
  BY <1>7 DEF Throw, Operation
<1>8. ASSUME NEW c \in Calls, Schedule(c)
       PROVE  WriteSound'
  BY <1>8 DEF Schedule
<1>9. ASSUME NEW c \in Calls, FlushNow(c)
       PROVE  WriteSound'
  BY <1>9 DEF FlushNow, BeginFlush, Order, FlushAwaited
<1>10. ASSUME NEW t \in Timers, TimerFires(t)
        PROVE  WriteSound'
  BY <1>10 DEF TimerFires, BeginFlush
<1>11. ASSUME NEW f \in Flushers, JoinWrites(f)
        PROVE  WriteSound'
  BY <1>11 DEF JoinWrites
<1>12. ASSUME NEW f \in Flushers, NothingToWrite(f)
        PROVE  WriteSound'
  BY <1>12 DEF NothingToWrite, Writing, EndFlush
<1>13. ASSUME NEW f \in Flushers, StartWrite(f)
        PROVE  WriteSound'
  BY <1>13 DEF StartWrite, Writing, PendingCounted, NothingTaken, Order, FlushAwaited, Applied
<1>14. ASSUME NEW f \in Flushers, Written(f)
        PROVE  WriteSound'
  BY <1>14, WritingKnown DEF Written, Writing, EndFlush
<1>15. ASSUME NEW f \in Flushers, WriteFails(f)
        PROVE  WriteSound'
  BY <1>15 DEF WriteFails, Writing, EndFlush, Fault
<1>16. CASE Kill
  BY <1>16 DEF Kill
<1>17. CASE UNCHANGED vars
  BY <1>17 DEF vars
<1>18. QED
  BY <1>1, <1>2, <1>3, <1>4, <1>5, <1>6, <1>7, <1>8, <1>9, <1>10, <1>11, <1>12, <1>13, <1>14, <1>15,
     <1>16, <1>17
     DEF Next, RuntimeWorks, EnsureRestored, Get

LEMMA NextNothingTaken ==
    ASSUME Values, Order, WriteSound, NothingTaken, PendingCounted, [Next]_vars
    PROVE  NothingTaken'
<1> USE RuntimeConstants DEF memoryVars, queueVars, flushVars, boundVars, Values, Flushers, NothingTaken
<1>1. CASE StartRestore
  BY <1>1 DEF StartRestore
<1>2. CASE Restored
  BY <1>2 DEF Restored
<1>3. CASE RestoreFails
  BY <1>3 DEF RestoreFails, Fault
<1>4. ASSUME NEW c \in Calls, Call(c)
       PROVE  NothingTaken'
  BY <1>4 DEF Call
<1>5. ASSUME NEW c \in Calls, Refuse(c)
       PROVE  NothingTaken'
  BY <1>5 DEF Refuse
<1>6. ASSUME NEW c \in Calls, Mutate(c)
       PROVE  NothingTaken'
  BY <1>6 DEF Mutate, Operation
<1>7. ASSUME NEW c \in Calls, Throw(c)
       PROVE  NothingTaken'
  BY <1>7 DEF Throw, Operation
<1>8. ASSUME NEW c \in Calls, Schedule(c)
       PROVE  NothingTaken'
  BY <1>8 DEF Schedule
<1>9. ASSUME NEW c \in Calls, FlushNow(c)
       PROVE  NothingTaken'
  BY <1>9 DEF FlushNow, BeginFlush
<1>10. ASSUME NEW t \in Timers, TimerFires(t)
        PROVE  NothingTaken'
  BY <1>10 DEF TimerFires, BeginFlush
<1>11. ASSUME NEW f \in Flushers, JoinWrites(f)
        PROVE  NothingTaken'
  BY <1>11 DEF JoinWrites
<1>12. ASSUME NEW f \in Flushers, NothingToWrite(f)
        PROVE  NothingTaken'
  BY <1>12 DEF NothingToWrite, Writing, EndFlush
<1>13. ASSUME NEW f \in Flushers, StartWrite(f)
        PROVE  NothingTaken'
  BY <1>13 DEF StartWrite, Writing
<1>14. ASSUME NEW f \in Flushers, Written(f)
        PROVE  NothingTaken'
  BY <1>14, WritingKnown DEF Written, Writing, EndFlush, WriteSound, Order
<1>15. ASSUME NEW f \in Flushers, WriteFails(f)
        PROVE  NothingTaken'
  BY <1>15 DEF WriteFails, Writing, EndFlush, Fault
<1>16. CASE Kill
  BY <1>16 DEF Kill
<1>17. CASE UNCHANGED vars
  BY <1>17 DEF vars
<1>18. QED
  BY <1>1, <1>2, <1>3, <1>4, <1>5, <1>6, <1>7, <1>8, <1>9, <1>10, <1>11, <1>12, <1>13, <1>14, <1>15,
     <1>16, <1>17
     DEF Next, RuntimeWorks, EnsureRestored, Get

LEMMA NextPendingCounted ==
    ASSUME Values, Order, WriteSound, NothingTaken, PendingCounted, [Next]_vars
    PROVE  PendingCounted'
<1> USE RuntimeConstants DEF memoryVars, queueVars, flushVars, boundVars, Values, Flushers,
    PendingCounted
<1>1. CASE StartRestore
  BY <1>1 DEF StartRestore
<1>2. CASE Restored
  <2>1. pending = 0 /\ cache' \ stored' = {}
    BY <1>2 DEF Restored, Order, NothingBefore
  <2>2. QED
    BY <1>2, <2>1, CallsFinite DEF Restored
<1>3. CASE RestoreFails
  <2>1. pending = 0 /\ cache' \ stored' = {}
    BY <1>3 DEF RestoreFails, Order, NothingBefore
  <2>2. QED
    BY <1>3, <2>1, CallsFinite DEF RestoreFails
<1>4. ASSUME NEW c \in Calls, Call(c)
       PROVE  PendingCounted'
  BY <1>4 DEF Call
<1>5. ASSUME NEW c \in Calls, Refuse(c)
       PROVE  PendingCounted'
  BY <1>5 DEF Refuse
<1>6. ASSUME NEW c \in Calls, Mutate(c)
       PROVE  PendingCounted'
  <2>1. c \notin cache /\ c \notin stored /\ restored
    BY <1>6, Removed DEF Mutate, Operation, Order, QueueHolds, NotBefore
  <2>2. c \notin Unchanging => Cardinality(cache' \ stored') = Cardinality(cache \ stored) + 1
    BY <1>6, <2>1, OneMore DEF Mutate
  <2>3. QED
    BY <1>6, <2>1, <2>2 DEF Mutate
<1>7. ASSUME NEW c \in Calls, Throw(c)
       PROVE  PendingCounted'
  BY <1>7 DEF Throw, Operation
<1>8. ASSUME NEW c \in Calls, Schedule(c)
       PROVE  PendingCounted'
  BY <1>8 DEF Schedule
<1>9. ASSUME NEW c \in Calls, FlushNow(c)
       PROVE  PendingCounted'
  BY <1>9 DEF FlushNow, BeginFlush
<1>10. ASSUME NEW t \in Timers, TimerFires(t)
        PROVE  PendingCounted'
  BY <1>10 DEF TimerFires, BeginFlush
<1>11. ASSUME NEW f \in Flushers, JoinWrites(f)
        PROVE  PendingCounted'
  BY <1>11 DEF JoinWrites
<1>12. ASSUME NEW f \in Flushers, NothingToWrite(f)
        PROVE  PendingCounted'
  BY <1>12 DEF NothingToWrite, Writing, EndFlush
<1>13. ASSUME NEW f \in Flushers, StartWrite(f)
        PROVE  PendingCounted'
  BY <1>13 DEF StartWrite, Writing
<1>14. ASSUME NEW f \in Flushers, Written(f)
        PROVE  PendingCounted'
  <2>1. snapshot # NoWrite /\ snapshot.content \in SUBSET Calls /\ restored
    BY <1>14, WritingKnown DEF Written, Order, NothingBefore
  <2>2. Cardinality(cache \ stored) = snapshot.batch + Cardinality(cache \ snapshot.content)
    <3>1. /\ cache \in SUBSET Calls /\ stored \in SUBSET Calls
          /\ snapshot.content \subseteq cache
          /\ (cache \ snapshot.content) \cap stored = {}
          /\ snapshot.batch = Cardinality(snapshot.content \ stored)
      BY <2>1 DEF WriteSound
    <3>2. Cardinality(cache \ stored)
            = Cardinality(snapshot.content \ stored) + Cardinality(cache \ snapshot.content)
      BY <2>1, <3>1, WhatRemains
    <3>3. QED
      BY <3>1, <3>2
  <2>3. Cardinality(cache \ snapshot.content) \in Nat /\ snapshot.batch \in Nat
    BY CallsFinite
  <2>4. pending' = Cardinality(cache \ snapshot.content)
    BY <1>14, <2>1, <2>2, <2>3 DEF Written
  <2>5. QED
    BY <1>14, <2>4 DEF Written, EndFlush
<1>15. ASSUME NEW f \in Flushers, WriteFails(f)
        PROVE  PendingCounted'
  BY <1>15 DEF WriteFails, Writing, EndFlush, Fault
<1>16. CASE Kill
  BY <1>16 DEF Kill
<1>17. CASE UNCHANGED vars
  BY <1>17 DEF vars
<1>18. QED
  BY <1>1, <1>2, <1>3, <1>4, <1>5, <1>6, <1>7, <1>8, <1>9, <1>10, <1>11, <1>12, <1>13, <1>14, <1>15,
     <1>16, <1>17
     DEF Next, RuntimeWorks, EnsureRestored, Get

LEMMA NextAckedIsStored ==
    ASSUME Values, Order, WriteSound, NothingTaken, PendingCounted, AckedIsStored, [Next]_vars
    PROVE  AckedIsStored'
<1> USE RuntimeConstants DEF memoryVars, queueVars, flushVars, boundVars, Values, Flushers,
    AckedIsStored
<1>1. CASE StartRestore
  BY <1>1 DEF StartRestore
<1>2. CASE Restored
  BY <1>2 DEF Restored
<1>3. CASE RestoreFails
  BY <1>3 DEF RestoreFails, Fault
<1>4. ASSUME NEW c \in Calls, Call(c)
       PROVE  AckedIsStored'
  BY <1>4 DEF Call
<1>5. ASSUME NEW c \in Calls, Refuse(c)
       PROVE  AckedIsStored'
  BY <1>5 DEF Refuse
<1>6. ASSUME NEW c \in Calls, Mutate(c)
       PROVE  AckedIsStored'
  BY <1>6 DEF Mutate, Operation, Order, QueueHolds
<1>7. ASSUME NEW c \in Calls, Throw(c)
       PROVE  AckedIsStored'
  BY <1>7 DEF Throw, Operation
<1>8. ASSUME NEW c \in Calls, Schedule(c)
       PROVE  AckedIsStored'
  BY <1>8 DEF Schedule
<1>9. ASSUME NEW c \in Calls, FlushNow(c)
       PROVE  AckedIsStored'
  BY <1>9 DEF FlushNow, BeginFlush
<1>10. ASSUME NEW t \in Timers, TimerFires(t)
        PROVE  AckedIsStored'
  BY <1>10 DEF TimerFires, BeginFlush
<1>11. ASSUME NEW f \in Flushers, JoinWrites(f)
        PROVE  AckedIsStored'
  BY <1>11 DEF JoinWrites
<1>12. ASSUME NEW f \in Flushers, NothingToWrite(f)
        PROVE  AckedIsStored'
  <2>1. f \in Calls \ Unchanging => f \in cache /\ restored
    BY <1>12 DEF NothingToWrite, Writing, Order, FlushAwaited, Applied
  <2>2. cache \ stored = {}
    BY <1>12, CallsFinite DEF NothingToWrite, PendingCounted
  <2>3. QED
    BY <1>12, <2>1, <2>2 DEF NothingToWrite, EndFlush
<1>13. ASSUME NEW f \in Flushers, StartWrite(f)
        PROVE  AckedIsStored'
  BY <1>13 DEF StartWrite, Writing
<1>14. ASSUME NEW f \in Flushers, Written(f)
        PROVE  AckedIsStored'
  <2>1. snapshot # NoWrite
    BY <1>14, WritingKnown DEF Written, Order
  <2>2. f \in Calls \ Unchanging => f \in snapshot.content
    BY <1>14, <2>1 DEF Written, Writing, WriteSound
  <2>3. ~unread => stored \subseteq snapshot.content
    BY <2>1 DEF WriteSound
  <2>4. QED
    BY <1>14, <2>2, <2>3 DEF Written, EndFlush
<1>15. ASSUME NEW f \in Flushers, WriteFails(f)
        PROVE  AckedIsStored'
  BY <1>15 DEF WriteFails, Writing, EndFlush, Fault
<1>16. CASE Kill
  <2>1. ~unread => stored \subseteq stored'
    BY <1>16 DEF Kill, WriteSound
  <2>2. \A c \in Calls : pc'[c] = "acked" => pc[c] = "acked"
    BY <1>16 DEF Kill
  <2>3. QED
    BY <1>16, <2>1, <2>2 DEF Kill
<1>17. CASE UNCHANGED vars
  BY <1>17 DEF vars
<1>18. QED
  BY <1>1, <1>2, <1>3, <1>4, <1>5, <1>6, <1>7, <1>8, <1>9, <1>10, <1>11, <1>12, <1>13, <1>14, <1>15,
     <1>16, <1>17
     DEF Next, RuntimeWorks, EnsureRestored, Get

-----------------------------------------------------------------------------
(* The theorems. *)

LEMMA NextIInv == IInv /\ [Next]_vars => IInv'
<1> SUFFICES ASSUME IInv, [Next]_vars
             PROVE  IInv'
  OBVIOUS
<1>1. Flags /\ Values
  BY TypeParts DEF IInv
<1>2. TypeOK'
  <2>1. Flags' /\ Values'
    BY <1>1, NextFlags, NextValues DEF IInv, Order
  <2>2. QED
    BY <2>1, TypeParts, PTL
<1>3. Order'
  BY <1>1, NextQueueHolds, NextNotBefore, NextApplied, NextFlushAwaited, NextNothingBefore,
     NextWritesHold
     DEF IInv, Order
<1>4. WriteSound' /\ NothingTaken' /\ PendingCounted' /\ AckedIsStored'
  BY <1>1, NextWriteSound, NextNothingTaken, NextPendingCounted, NextAckedIsStored DEF IInv
<1>5. QED
  BY <1>2, <1>3, <1>4 DEF IInv

LEMMA Invariance == Spec => []IInv
  BY InitIInv, NextIInv, PTL DEF Spec

LEMMA ReportsTruth == IInv => PersistedIsStored
<1> SUFFICES ASSUME IInv, restored, ~degraded, pending + queued = 0
             PROVE  stored = cache
  BY DEF PersistedIsStored, ReportsPersisted
<1>1. Values
  BY TypeParts DEF IInv
<1>2. pending = 0
  BY <1>1 DEF Values
<1>3. cache \ stored = {}
  BY <1>1, <1>2, CallsFinite DEF IInv, PendingCounted, Values
<1>4. QED
  BY <1>3 DEF IInv, NothingTaken

\* What persistenceState reports as persisted is stored, pendingMutations is the number of
\* changes that the stored runtime lacks, and an immediate call that was acknowledged stays
\* stored through later flushes, failing writes and terminations (RuntimeSound): for any
\* number of calls, timers, faults and terminations, with any queue limit.
THEOREM RuntimeKeepsItsWord == Spec => []RuntimeSound
<1>1. IInv => RuntimeSound
  BY ReportsTruth DEF IInv, RuntimeSound
<1>2. QED
  BY <1>1, Invariance, PTL

-----------------------------------------------------------------------------
(* The refinement: every step is one of the store, or changes nothing of it. *)

memoryOf == IF restored THEN cache ELSE stored
durableOf == {c \in Immediate \ Unchanging : pc[c] = "acked"}

LEMMA InitStore == Init => Store!Init
  BY RuntimeConstants DEF Init, Store!Init

LEMMA NextStore == IInv /\ [Next]_vars => [Store!Next]_Store!vars
<1> SUFFICES ASSUME IInv, [Next]_vars
             PROVE  [Store!Next]_Store!vars
  OBVIOUS
<1>0. Values
  BY TypeParts DEF IInv
<1> USE <1>0, RuntimeConstants DEF memoryVars, queueVars, flushVars, boundVars, Values, Flushers
\* A step that the store does not see.
<1>1. ASSUME memoryOf' = memoryOf, durableOf' = durableOf, stored' = stored, unread' = unread
      PROVE  [Store!Next]_Store!vars
  BY <1>1 DEF Store!vars, memoryOf, durableOf
<1>2. CASE StartRestore
  <2>1. memoryOf' = memoryOf /\ stored' = stored /\ unread' = unread
    BY <1>2 DEF StartRestore, memoryOf
  <2>2. durableOf' = durableOf
    <3>1. \A d \in Immediate \ Unchanging : pc'[d] = "acked" <=> pc[d] = "acked"
      BY <1>2 DEF StartRestore
    <3>2. QED
      BY <3>1 DEF durableOf
  <2>3. QED
    BY <1>1, <2>1, <2>2
<1>3. CASE Restored
  <2>1. memoryOf' = memoryOf /\ stored' = stored /\ unread' = unread
    BY <1>3 DEF Restored, memoryOf, IInv, Order, NothingBefore
  <2>2. durableOf' = durableOf
    <3>1. \A d \in Immediate \ Unchanging : pc'[d] = "acked" <=> pc[d] = "acked"
      BY <1>3 DEF Restored
    <3>2. QED
      BY <3>1 DEF durableOf
  <2>3. QED
    BY <1>1, <2>1, <2>2
<1>4. CASE RestoreFails
  <2>1. memoryOf' = {} /\ stored' = stored /\ unread' = TRUE /\ durableOf' = durableOf
    BY <1>4 DEF RestoreFails, memoryOf, durableOf
  <2>2. Store!Unread
    BY <2>1 DEF Store!Unread, memoryOf, durableOf
  <2>3. QED
    BY <2>2 DEF Store!Next
<1>5. ASSUME NEW c \in Calls, Call(c)
       PROVE  [Store!Next]_Store!vars
  <2>1. memoryOf' = memoryOf /\ stored' = stored /\ unread' = unread
    BY <1>5 DEF Call, memoryOf
  <2>2. durableOf' = durableOf
    <3>1. \A d \in Immediate \ Unchanging : pc'[d] = "acked" <=> pc[d] = "acked"
      BY <1>5 DEF Call
    <3>2. QED
      BY <3>1 DEF durableOf
  <2>3. QED
    BY <1>1, <2>1, <2>2
<1>6. ASSUME NEW c \in Calls, Refuse(c)
       PROVE  [Store!Next]_Store!vars
  <2>1. memoryOf' = memoryOf /\ stored' = stored /\ unread' = unread
    BY <1>6 DEF Refuse, memoryOf
  <2>2. durableOf' = durableOf
    <3>1. \A d \in Immediate \ Unchanging : pc'[d] = "acked" <=> pc[d] = "acked"
      BY <1>6 DEF Refuse
    <3>2. QED
      BY <3>1 DEF durableOf
  <2>3. QED
    BY <1>1, <2>1, <2>2
<1>7. ASSUME NEW c \in Calls, Mutate(c)
       PROVE  [Store!Next]_Store!vars
  <2>1. restored /\ restored' = restored /\ stored' = stored /\ unread' = unread
    BY <1>7 DEF Mutate, Operation
  <2>2. durableOf' = durableOf
    <3>1. pc[c] = "queued"
      BY <1>7, Removed DEF Mutate, Operation, IInv, Order, QueueHolds
    <3>2. QED
      BY <1>7, <3>1 DEF Mutate, durableOf
  <2>3. CASE c \in Unchanging
    BY <1>7, <1>1, <2>1, <2>2, <2>3 DEF Mutate, memoryOf
  <2>4. CASE c \notin Unchanging
    <3>1. memoryOf' = memoryOf \cup {c}
      BY <1>7, <2>1, <2>4 DEF Mutate, memoryOf
    <3>2. Store!Apply(c)
      BY <2>1, <2>2, <3>1 DEF Store!Apply, memoryOf, durableOf
    <3>3. QED
      BY <3>2 DEF Store!Next
  <2>5. QED
    BY <2>3, <2>4
<1>8. ASSUME NEW c \in Calls, Throw(c)
       PROVE  [Store!Next]_Store!vars
  <2>1. memoryOf' = memoryOf /\ stored' = stored /\ unread' = unread
    BY <1>8 DEF Throw, Operation, memoryOf, Operation
  <2>2. durableOf' = durableOf
    <3>1. \A d \in Immediate \ Unchanging : pc'[d] = "acked" <=> pc[d] = "acked"
      BY <1>8, Removed DEF Throw, Operation, Operation, IInv, Order, QueueHolds
    <3>2. QED
      BY <3>1 DEF durableOf
  <2>3. QED
    BY <1>1, <2>1, <2>2
<1>9. ASSUME NEW c \in Calls, Schedule(c)
       PROVE  [Store!Next]_Store!vars
  <2>1. memoryOf' = memoryOf /\ stored' = stored /\ unread' = unread
    BY <1>9 DEF Schedule, memoryOf
  <2>2. durableOf' = durableOf
    <3>1. \A d \in Immediate \ Unchanging : pc'[d] = "acked" <=> pc[d] = "acked"
      BY <1>9 DEF Schedule
    <3>2. QED
      BY <3>1 DEF durableOf
  <2>3. QED
    BY <1>1, <2>1, <2>2
<1>10. ASSUME NEW c \in Calls, FlushNow(c)
        PROVE  [Store!Next]_Store!vars
  <2>1. memoryOf' = memoryOf /\ stored' = stored /\ unread' = unread
    BY <1>10 DEF FlushNow, BeginFlush, memoryOf
  <2>2. durableOf' = durableOf
    <3>1. \A d \in Immediate \ Unchanging : pc'[d] = "acked" <=> pc[d] = "acked"
      BY <1>10 DEF FlushNow, BeginFlush
    <3>2. QED
      BY <3>1 DEF durableOf
  <2>3. QED
    BY <1>1, <2>1, <2>2
<1>11. ASSUME NEW t \in Timers, TimerFires(t)
        PROVE  [Store!Next]_Store!vars
  <2>1. memoryOf' = memoryOf /\ stored' = stored /\ unread' = unread
    BY <1>11 DEF TimerFires, BeginFlush, memoryOf
  <2>2. durableOf' = durableOf
    <3>1. \A d \in Immediate \ Unchanging : pc'[d] = "acked" <=> pc[d] = "acked"
      BY <1>11 DEF TimerFires, BeginFlush
    <3>2. QED
      BY <3>1 DEF durableOf
  <2>3. QED
    BY <1>1, <2>1, <2>2
<1>12. ASSUME NEW f \in Flushers, JoinWrites(f)
        PROVE  [Store!Next]_Store!vars
  <2>1. memoryOf' = memoryOf /\ stored' = stored /\ unread' = unread
    BY <1>12 DEF JoinWrites, memoryOf
  <2>2. durableOf' = durableOf
    <3>1. \A d \in Immediate \ Unchanging : pc'[d] = "acked" <=> pc[d] = "acked"
      BY <1>12 DEF JoinWrites
    <3>2. QED
      BY <3>1 DEF durableOf
  <2>3. QED
    BY <1>1, <2>1, <2>2
<1>13. ASSUME NEW f \in Flushers, NothingToWrite(f)
        PROVE  [Store!Next]_Store!vars
  <2>1. memoryOf' = memoryOf /\ stored' = stored /\ unread' = unread
    BY <1>13 DEF NothingToWrite, EndFlush, memoryOf
  <2>2. CASE f \in Immediate \ Unchanging
    <3>1. f \in cache /\ f \in Calls
      BY <1>13, <2>2 DEF NothingToWrite, Writing, IInv, Order, FlushAwaited, Applied
    <3>2. cache \ stored = {}
      BY <1>13, CallsFinite DEF NothingToWrite, IInv, PendingCounted
    <3>3. durableOf' = durableOf \cup {f}
      BY <1>13, <2>2, <3>1 DEF NothingToWrite, EndFlush, durableOf
    <3>4. Store!Acknowledge(f)
      BY <2>1, <3>1, <3>2, <3>3 DEF Store!Acknowledge, memoryOf, durableOf
    <3>5. QED
      BY <3>1, <3>4 DEF Store!Next
  <2>3. CASE f \notin Immediate \ Unchanging
    BY <1>13, <1>1, <2>1, <2>3 DEF NothingToWrite, EndFlush, durableOf
  <2>4. QED
    BY <2>2, <2>3
<1>14. ASSUME NEW f \in Flushers, StartWrite(f)
        PROVE  [Store!Next]_Store!vars
  <2>1. memoryOf' = memoryOf /\ stored' = stored /\ unread' = unread
    BY <1>14 DEF StartWrite, Writing, memoryOf
  <2>2. durableOf' = durableOf
    <3>1. \A d \in Immediate \ Unchanging : pc'[d] = "acked" <=> pc[d] = "acked"
      BY <1>14 DEF StartWrite, Writing
    <3>2. QED
      BY <3>1 DEF durableOf
  <2>3. QED
    BY <1>1, <2>1, <2>2
<1>15. ASSUME NEW f \in Flushers, Written(f)
        PROVE  [Store!Next]_Store!vars
  <2>1. /\ snapshot # NoWrite /\ restored /\ snapshot.content \subseteq cache
        /\ ~unread => stored \subseteq snapshot.content
    BY <1>15, WritingKnown DEF Written, IInv, Order, NothingBefore, WriteSound
  <2>2. memoryOf' = memoryOf /\ unread' = unread /\ stored' = snapshot.content
    BY <1>15, <2>1 DEF Written, EndFlush, memoryOf
  <2>3. stored' \in Store!Writable
    BY <2>1, <2>2 DEF Store!Writable, memoryOf
  <2>4. CASE f \in Immediate \ Unchanging
    <3>1. f \in Calls /\ f \in snapshot.content
      BY <1>15, <2>1, <2>4 DEF Written, Writing, IInv, WriteSound
    <3>2. durableOf' = durableOf \cup {f}
      BY <1>15, <2>4, <3>1 DEF Written, EndFlush, durableOf
    <3>3. Store!WriteAcknowledged
      BY <2>2, <2>3, <3>1, <3>2 DEF Store!WriteAcknowledged, memoryOf, durableOf
    <3>4. QED
      BY <3>3 DEF Store!Next
  <2>5. CASE f \notin Immediate \ Unchanging
    <3>1. durableOf' = durableOf
      BY <1>15, <2>5 DEF Written, EndFlush, durableOf
    <3>2. Store!Write
      BY <2>2, <2>3, <3>1 DEF Store!Write, memoryOf, durableOf
    <3>3. QED
      BY <3>2 DEF Store!Next
  <2>6. QED
    BY <2>4, <2>5
<1>16. ASSUME NEW f \in Flushers, WriteFails(f)
        PROVE  [Store!Next]_Store!vars
  <2>1. memoryOf' = memoryOf /\ stored' = stored /\ unread' = unread
    BY <1>16 DEF WriteFails, Writing, EndFlush, Fault, memoryOf, IInv, Order, FlushAwaited
  <2>2. durableOf' = durableOf
    <3>1. \A d \in Immediate \ Unchanging : pc'[d] = "acked" <=> pc[d] = "acked"
      BY <1>16 DEF WriteFails, Writing, EndFlush, Fault, IInv, Order, FlushAwaited
    <3>2. QED
      BY <3>1 DEF durableOf
  <2>3. QED
    BY <1>1, <2>1, <2>2
<1>17. CASE Kill
  <2>1. memoryOf' = stored' /\ unread' = unread
    BY <1>17 DEF Kill, memoryOf
  <2>2. durableOf' = durableOf
    BY <1>17 DEF Kill, durableOf
  <2>3. stored' = stored \/ stored' \in Store!Writable
    BY <1>17 DEF Kill, IInv, Order, NothingBefore, WriteSound, Store!Writable
  <2>4. Store!Crash
    BY <2>1, <2>2, <2>3 DEF Store!Crash, memoryOf, durableOf
  <2>5. QED
    BY <2>4 DEF Store!Next
<1>18. CASE UNCHANGED vars
  BY <1>1, <1>18 DEF vars, memoryOf, durableOf
<1>19. QED
  BY <1>2, <1>3, <1>4, <1>5, <1>6, <1>7, <1>8, <1>9, <1>10, <1>11, <1>12, <1>13, <1>14, <1>15, <1>16,
     <1>17, <1>18
     DEF Next, RuntimeWorks, EnsureRestored, Get

\* The runtime is a write-behind store (IsWriteBehindStore): memory has every change that
\* was applied, a write leaves in the store something between what was stored and what
\* memory has, what was acknowledged as durable is stored, and a crash returns to what was
\* stored or being stored. Only a stored runtime that cannot be read ends the promise.
THEOREM RuntimeIsWriteBehind == Spec => IsWriteBehindStore
<1>1. Spec => Store!Init
  BY InitStore DEF Spec
<1>2. QED
  BY <1>1, NextStore, Invariance, PTL DEF Spec, Store!Spec, IsWriteBehindStore
===============================================================================
