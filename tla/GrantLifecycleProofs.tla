------------------------ MODULE GrantLifecycleProofs ------------------------
(***************************************************************************)
(* Theorems about GrantLifecycle for every number of grants, tabs and      *)
(* handoffs, every clock bound and any number of faults and worker         *)
(* terminations.                                                           *)
(*                                                                         *)
(* TypeCorrect rests on one fact besides the types: an operation that      *)
(* stands at the alarm or at the cleanup of the grant it ended knows that  *)
(* grant. NoResurrection needs two more: the replacements that have still  *)
(* to be committed carry ids that are new, unended and pairwise distinct,  *)
(* and a refresh that is about to be written back still finds the grant    *)
(* it read, because only the operation at the head of the queue writes the *)
(* grant. AlarmFollowsGrant says of every step of an operation which alarm *)
(* it leaves behind if it is the last one, and that a failure which leaves *)
(* the wrong one queues a reconciliation. GrantReleasesCaptures says of    *)
(* the operation that ended a grant that it still has its captures to      *)
(* release.                                                                *)
(***************************************************************************)
EXTENDS GrantLifecycle, TLAPS

\* The operation that ended a grant knows which one.
EndedKnown == phase \in {"clear", "cleanup"} => target # NoGrant

\* A terminated worker has lost its queue.
DeadIdle == ~alive => queue = <<>>

TInv == TypeOK /\ EndedKnown /\ DeadIdle

\* A replacement that has still to write its grant.
Pending(i) ==
    /\ i \in DOMAIN queue
    /\ queue[i].kind = "replace"
    /\ i = 1 => phase \in {"ready", "commit"}

\* Its id was never active and is not the active one.
PendingFresh ==
    \A i \in DOMAIN queue : Pending(i) =>
        /\ queue[i].grant.id \notin ended
        /\ activeGrant # NoGrant => activeGrant.id # queue[i].grant.id

PendingDistinct ==
    \A i, j \in DOMAIN queue :
        (i # j /\ queue[i].kind = "replace" /\ queue[j].kind = "replace")
            => queue[i].grant.id # queue[j].grant.id

PendingIssued ==
    \A i \in DOMAIN queue : queue[i].kind = "replace" => queue[i].grant.id \in issued

KnownIssued ==
    /\ ended \subseteq issued
    /\ activeGrant # NoGrant => activeGrant.id \in issued

\* A refresh that is about to write finds the grant it read.
UpdateCurrent ==
    (queue # <<>> /\ Head(queue).kind = "update" /\ phase = "commit")
        => activeGrant = target

\* Between two operations nothing is left of the last one.
IdleReady == queue = <<>> => phase = "ready"

IInv ==
    /\ TInv
    /\ IdleReady
    /\ EndedGrantStaysEnded
    /\ PendingFresh
    /\ PendingIssued
    /\ PendingDistinct
    /\ KnownIssued
    /\ UpdateCurrent

-----------------------------------------------------------------------------
(* Sequences of requests *)

\* The queue loses its head and gains a request without leaving its type.
LEMMA QueueStep ==
    ASSUME queue \in Seq(Request)
    PROVE  /\ queue # <<>> => Head(queue) \in Request /\ Tail(queue) \in Seq(Request)
           /\ \A r \in Request : Append(queue, r) \in Seq(Request)
           /\ <<>> \in Seq(Request)
           /\ \A r \in Request : <<r>> \in Seq(Request)
  OBVIOUS

-----------------------------------------------------------------------------
(* Type correctness *)

LEMMA InitTInv == Init => TInv
<1>1. NoHandoff \in Handoff
  BY GrantConstants DEF NoHandoff, Handoff
<1>2. ASSUME Init
      PROVE  TypeOK
  <2>1. /\ now \in 0 .. MaxTime /\ alarm \in 0 .. MaxTime
        /\ cancelled \in 0 .. MaxHandoffs
        /\ faults \in 0 .. MaxFaults /\ kills \in 0 .. MaxKills
    BY <1>2, GrantConstants DEF Init
  <2>2. /\ persisted \in [Tabs -> Capture \cup {NoCapture}]
        /\ capture \in [Tabs -> Capture \cup {NoCapture}]
        /\ starting \in [Tabs -> Grant \cup {NoGrant}]
    BY <1>2 DEF Init
  <2>3. queue \in Seq(Request) /\ phase \in Phases /\ reason \in Reasons
    BY <1>2 DEF Init, Phases, Reasons
  <2>6. alive \in BOOLEAN /\ restoring \in BOOLEAN /\ unreconciled \in BOOLEAN
    BY <1>2 DEF Init
  <2>4. /\ cleaned \subseteq GrantIds /\ issued \subseteq GrantIds /\ ended \subseteq GrantIds
        /\ announced \subseteq 0 .. MaxHandoffs
    BY <1>2 DEF Init
  <2>5. /\ handoff \in Handoff
        /\ activeGrant \in Grant \cup {NoGrant}
        /\ target \in Grant \cup {NoGrant}
        /\ refreshing \in Grant \cup {NoGrant}
    BY <1>1, <1>2 DEF Init
  <2>7. QED
    BY <2>1, <2>2, <2>3, <2>4, <2>5, <2>6 DEF TypeOK
<1>3. Init => EndedKnown /\ DeadIdle
  BY DEF Init, EndedKnown, DeadIdle
<1>4. QED
  BY <1>2, <1>3 DEF TInv

LEMMA FinishTypes ==
    ASSUME TypeOK, queue # <<>>, Finish
    PROVE  /\ queue' \in Seq(Request)
           /\ phase' = "ready"
           /\ phase' \in Phases
           /\ target' = NoGrant
           /\ cancelled' \in 0 .. MaxHandoffs
           /\ reason' \in Reasons
  BY QueueStep, GrantConstants DEF TypeOK, Finish, Phases

LEMMA EndBecauseTypes ==
    ASSUME TypeOK, NEW r \in Reasons, NEW g \in Grant \cup {NoGrant}, EndBecause(r, g)
    PROVE  /\ queue' \in Seq(Request)
           /\ phase' = "end"
           /\ phase' \in Phases
           /\ target' \in Grant \cup {NoGrant}
           /\ cancelled' \in 0 .. MaxHandoffs
           /\ reason' \in Reasons
  BY DEF TypeOK, EndBecause, Phases

LEMMA StoreTypes ==
    ASSUME TypeOK, NEW g \in Grant \cup {NoGrant}, StoreGrant(g)
    PROVE  /\ activeGrant' \in Grant \cup {NoGrant}
           /\ handoff' \in Handoff
           /\ ended' \subseteq GrantIds
  BY DEF TypeOK, StoreGrant, HandoffAfter, Handoff, Grant

LEMMA CancelledByType ==
    ASSUME TypeOK
    PROVE  CancelledBy(activeGrant) \in 0 .. MaxHandoffs
  BY GrantConstants DEF TypeOK, CancelledBy, Handoff

LEMMA FaultType ==
    ASSUME TypeOK, Fault
    PROVE  faults' \in 0 .. MaxFaults
  BY GrantConstants DEF TypeOK, Fault

LEMMA AlarmForType ==
    ASSUME TypeOK, NEW g \in Grant \cup {NoGrant}
    PROVE  AlarmFor(g) \in 0 .. MaxTime
  BY GrantConstants DEF AlarmFor, Grant

\* The requests of the queue that name a grant carry one.
LEMMA HeadTypes ==
    ASSUME TypeOK, queue # <<>>
    PROVE  /\ Head(queue) \in Request
           /\ Head(queue).kind \in {"replace", "update"} => Head(queue).grant \in Grant
  BY QueueStep DEF TypeOK, Request

LEMMA ExpiryTypes ==
    ASSUME NEW g \in Grant
    PROVE  g.expiresAt \in 0 .. MaxTime /\ g.id \in GrantIds
  BY GrantConstants DEF Grant

LEMMA NextTInv == TInv /\ [Next]_vars => TInv'
<1> SUFFICES ASSUME TInv, [Next]_vars
             PROVE  TInv'
  OBVIOUS
<1> USE GrantConstants, QueueStep DEF TInv, TypeOK, EndedKnown, DeadIdle, storeVars, opVars,
    captureVars, boundVars
<1>1. ASSUME NEW id \in GrantIds, NEW taskId \in TaskIds, NEW d \in Durations, CreateGrant(id, taskId, d)
       PROVE  TInv'
  BY <1>1 DEF CreateGrant, Enqueue, Request, Grant
<1>2. CASE RevokeGrant
  BY <1>2 DEF RevokeGrant, Enqueue, Request
<1>3. CASE LookupGrant
  BY <1>3 DEF LookupGrant, Enqueue, Request
<1>4. CASE RebindGrant
  BY <1>4 DEF RebindGrant, Enqueue, Request
<1>5. CASE FireAlarm
  BY <1>5 DEF FireAlarm, Enqueue, Request
<1>6. CASE ReplaceSchedule
  BY <1>6, FinishTypes, FaultType, HeadTypes, ExpiryTypes DEF ReplaceSchedule, Goto, Running, Phases
<1>7. CASE ReplaceCommit
  BY <1>7, StoreTypes, CancelledByType, FaultType, HeadTypes DEF ReplaceCommit, AfterReplace, Goto,
     Running, Phases
<1>8. CASE Resync
  BY <1>8, FinishTypes, FaultType, AlarmForType DEF Resync, Running
<1>9. CASE RevokeStart
  BY <1>9 DEF RevokeStart, EndBecause, Phases, Reasons
<1>10. CASE EndCommit
  BY <1>10, StoreTypes, FinishTypes, CancelledByType, FaultType DEF EndCommit, EndsActiveGrant, Goto,
     Running, Phases
<1>11. CASE EndClear
  BY <1>11 DEF EndClear, Goto, Fault, Running, Phases
<1>12. CASE Cleanup
  BY <1>12, ExpiryTypes DEF Cleanup, Goto, Running, Phases
<1>13. CASE Publish
  BY <1>13, FinishTypes DEF Publish, Running
<1>14. CASE Reconcile
  BY <1>14, EndBecauseTypes, FinishTypes, FaultType, AlarmForType DEF Reconcile, Running, Reasons
<1>15. CASE Lookup
  BY <1>15, EndBecauseTypes, FinishTypes, FaultType DEF Lookup, Running, Reasons
<1>16. CASE UpdateRead
  BY <1>16, EndBecauseTypes, FinishTypes, FaultType, ExpiryTypes DEF UpdateRead, Goto, Running,
     Phases, Reasons
<1>17. CASE UpdateCommit
  BY <1>17, FinishTypes, FaultType DEF UpdateCommit, Goto, Running, Phases
<1>18. ASSUME NEW t \in Tabs, StartCapture(t)
       PROVE  TInv'
  BY <1>18 DEF StartCapture
<1>19. ASSUME NEW t \in Tabs, RegisterCapture(t)
       PROVE  TInv'
  BY <1>19 DEF RegisterCapture, Capture
<1>20. ASSUME NEW t \in Tabs, DropCapture(t)
       PROVE  TInv'
  BY <1>20 DEF DropCapture
<1>21. CASE FlushCaptures
  BY <1>21 DEF FlushCaptures
<1>22. ASSUME NEW taskId \in TaskIds, RequestHandoff(taskId)
       PROVE  TInv'
  BY <1>22 DEF RequestHandoff, Handoff
<1>23. ASSUME NEW outcome \in {"completed", "cancelled"}, ResolveHandoff(outcome)
       PROVE  TInv'
  BY <1>23 DEF ResolveHandoff, Handoff
<1>24. CASE Tick
  BY <1>24 DEF Tick
<1>25. CASE Kill
  <2>1. queue' \in Seq(Request) /\ cleaned' \subseteq GrantIds
    BY <1>25 DEF Kill
  <2>2. /\ capture' \in [Tabs -> Capture \cup {NoCapture}]
        /\ starting' \in [Tabs -> Grant \cup {NoGrant}]
    BY <1>25 DEF Kill
  <2>3. kills' \in 0 .. MaxKills /\ cancelled' \in 0 .. MaxHandoffs
    BY <1>25 DEF Kill
  <2>4. QED
    BY <1>25, <2>1, <2>2, <2>3 DEF Kill, Phases
<1>26. ASSUME NEW byAlarm \in BOOLEAN, Restart(byAlarm)
       PROVE  TInv'
  <2>1. queue' \in Seq(Request)
    BY <1>26 DEF Restart, Reconciliation, Request
  <2>2. capture' \in [Tabs -> Capture \cup {NoCapture}]
    BY <1>26 DEF Restart
  <2>3. alarm' \in 0 .. MaxTime
    BY <1>26 DEF Restart
  <2>4. QED
    BY <1>26, <2>1, <2>2, <2>3 DEF Restart
<1>27. CASE RestoreGrant
  BY <1>27 DEF RestoreGrant, Reconciliation, Request
<1>28. CASE ReconcileFails
  BY <1>28, FinishTypes, FaultType DEF ReconcileFails, Running
<1>29. CASE RestoreFails
  BY <1>29, FaultType DEF RestoreFails
<1>30. CASE UNCHANGED vars
  BY <1>30 DEF vars
<1>31. QED
  BY <1>1, <1>2, <1>3, <1>4, <1>5, <1>6, <1>7, <1>8, <1>9, <1>10, <1>11, <1>12, <1>13, <1>14, <1>15,
     <1>16, <1>17, <1>18, <1>19, <1>20, <1>21, <1>22, <1>23, <1>24, <1>25, <1>26, <1>27, <1>28,
     <1>29, <1>30
  DEF Next, Callers, Lifecycle, Captures, Environment

\* Every variable keeps its type, in every behaviour of the lifecycle.
THEOREM TypeCorrect == Spec => []TypeOK
<1>1. Init => TInv
  BY InitTInv
<1>2. TInv /\ [Next]_vars => TInv'
  BY NextTInv
<1>3. TInv => TypeOK
  BY DEF TInv
<1>4. QED
  BY <1>1, <1>2, <1>3, PTL DEF Spec

-----------------------------------------------------------------------------
(* No resurrection: the invariant step by step. The first four lemmas are  *)
(* the four ways a step can treat the queue and the grant it writes.       *)

LEMMA InitIInv == Init => IInv
  BY InitTInv DEF Init, IInv, IdleReady, EndedGrantStaysEnded, PendingFresh, Pending,
                  PendingDistinct, PendingIssued, KnownIssued, UpdateCurrent

\* A step beside the queue.
LEMMA BesideQueue ==
    ASSUME IInv, TInv', UNCHANGED <<queue, phase, target, activeGrant, ended, issued>>
    PROVE  IInv'
  BY DEF IInv, IdleReady, EndedGrantStaysEnded, PendingFresh, Pending, PendingIssued,
         PendingDistinct, KnownIssued, UpdateCurrent

\* The running operation goes on to its next await. A refresh that goes on to
\* its write has just read the active grant.
LEMMA GoesOn ==
    ASSUME IInv, TInv', queue # <<>>, UNCHANGED <<queue, activeGrant, ended, issued>>,
           phase' # "ready",
           phase' = "commit" => phase = "ready"
                                  /\ (Head(queue).kind = "update" => target' = activeGrant)
    PROVE  IInv'
  BY DEF IInv, IdleReady, EndedGrantStaysEnded, PendingFresh, Pending, PendingIssued,
         PendingDistinct, KnownIssued, UpdateCurrent

\* The running operation settles.
LEMMA Settles ==
    ASSUME IInv, TInv', queue # <<>>, Finish, UNCHANGED <<activeGrant, ended, issued>>
    PROVE  IInv'
<1>1. /\ Len(queue') = Len(queue) - 1
      /\ \A i \in DOMAIN queue' : i + 1 \in DOMAIN queue /\ queue'[i] = queue[i + 1]
  BY DEF IInv, TInv, TypeOK, Finish
<1>2. PendingFresh'
  <2> SUFFICES ASSUME NEW i \in DOMAIN queue', queue'[i].kind = "replace"
               PROVE  /\ queue'[i].grant.id \notin ended
                      /\ activeGrant # NoGrant => activeGrant.id # queue'[i].grant.id
    BY DEF PendingFresh, Pending
  <2>1. i \in Nat /\ i # 0 /\ i + 1 # 1
    BY DEF TInv, TypeOK
  <2>2. Pending(i + 1)
    BY <2>1, <1>1 DEF Pending
  <2>3. QED
    BY <2>2, <1>1 DEF IInv, PendingFresh
<1>3. PendingDistinct'
  <2> SUFFICES ASSUME NEW i \in DOMAIN queue', NEW j \in DOMAIN queue', i # j,
                      queue'[i].kind = "replace", queue'[j].kind = "replace"
               PROVE  queue'[i].grant.id # queue'[j].grant.id
    BY DEF PendingDistinct
  <2>1. i \in Nat /\ j \in Nat /\ i + 1 # j + 1
    BY DEF TInv, TypeOK
  <2>2. QED
    BY <2>1, <1>1 DEF IInv, PendingDistinct
<1>4. PendingIssued'
  BY <1>1 DEF IInv, PendingIssued
<1>5. QED
  BY <1>2, <1>3, <1>4 DEF Finish, IInv, IdleReady, EndedGrantStaysEnded, KnownIssued, UpdateCurrent

\* An operation joins the queue.
LEMMA Joins ==
    ASSUME IInv, TInv', NEW r \in Request, queue' = Append(queue, r),
           UNCHANGED <<phase, target, activeGrant, ended>>,
           issued \subseteq issued',
           r.kind = "replace" => r.grant.id \in issued' \ issued
    PROVE  IInv'
<1>1. /\ Len(queue') = Len(queue) + 1
      /\ \A i \in DOMAIN queue' :
           \/ i \in DOMAIN queue /\ queue'[i] = queue[i]
           \/ i = Len(queue) + 1 /\ queue'[i] = r
      /\ queue # <<>> => Head(queue') = Head(queue)
  BY DEF IInv, TInv, TypeOK
<1>2. PendingFresh'
  BY <1>1 DEF IInv, TInv, TypeOK, PendingFresh, Pending, KnownIssued
<1>3. PendingDistinct'
  <2> SUFFICES ASSUME NEW i \in DOMAIN queue', NEW j \in DOMAIN queue', i # j,
                      queue'[i].kind = "replace", queue'[j].kind = "replace"
               PROVE  queue'[i].grant.id # queue'[j].grant.id
    BY DEF PendingDistinct
  <2>1. CASE i \in DOMAIN queue /\ j \in DOMAIN queue
    BY <2>1, <1>1 DEF IInv, PendingDistinct
  <2>2. QED
    BY <2>1, <1>1 DEF IInv, TInv, TypeOK, PendingIssued
<1>4. IdleReady' /\ UpdateCurrent'
  BY <1>1 DEF IInv, TInv, TypeOK, IdleReady, UpdateCurrent
<1>5. PendingIssued'
  BY <1>1 DEF IInv, PendingIssued
<1>6. QED
  BY <1>2, <1>3, <1>4, <1>5 DEF IInv, EndedGrantStaysEnded, KnownIssued

\* A step that writes the grant. The grant that leaves joins "ended"; the one
\* that comes, if any, is that of the running replacement.
LEMMA Writes ==
    ASSUME IInv, TInv', queue # <<>>, NEW g \in Grant \cup {NoGrant}, StoreGrant(g),
           UNCHANGED <<issued>>,
           g # NoGrant => Pending(1) /\ g = Head(queue).grant,
           \/ UNCHANGED queue /\ phase' \notin {"ready", "commit"}
           \/ g = NoGrant /\ Finish
    PROVE  IInv'
<1>1. queue \in Seq(Request) /\ 1 \in DOMAIN queue /\ Head(queue) = queue[1]
  BY DEF IInv, TInv, TypeOK
<1>2. EndedGrantStaysEnded' /\ KnownIssued'
  BY <1>1 DEF IInv, EndedGrantStaysEnded, KnownIssued, PendingFresh, PendingIssued, Pending,
              StoreGrant
<1>3. CASE UNCHANGED queue /\ phase' \notin {"ready", "commit"}
  <2>1. PendingFresh'
    BY <1>1, <1>3 DEF IInv, PendingFresh, PendingDistinct, Pending, StoreGrant
  <2>2. PendingDistinct' /\ PendingIssued' /\ IdleReady' /\ UpdateCurrent'
    BY <1>3 DEF IInv, PendingDistinct, PendingIssued, IdleReady, UpdateCurrent
  <2>3. QED
    BY <1>2, <2>1, <2>2 DEF IInv
<1>4. CASE g = NoGrant /\ Finish
  <2>1. /\ Len(queue') = Len(queue) - 1
        /\ \A k \in DOMAIN queue' :
             k \in Nat \ {0} /\ k + 1 \in DOMAIN queue /\ queue'[k] = queue[k + 1]
    BY <1>1, <1>4 DEF Finish
  <2>2. PendingFresh'
    BY <1>4, <2>1 DEF IInv, PendingFresh, Pending, StoreGrant
  <2>3. PendingDistinct'
    <3> SUFFICES ASSUME NEW k \in DOMAIN queue', NEW l \in DOMAIN queue', k # l,
                        queue'[k].kind = "replace", queue'[l].kind = "replace"
                 PROVE  queue'[k].grant.id # queue'[l].grant.id
      BY DEF PendingDistinct
    <3>1. k + 1 # l + 1
      BY <2>1
    <3>2. QED
      BY <3>1, <2>1 DEF IInv, PendingDistinct
  <2>4. PendingIssued' /\ IdleReady' /\ UpdateCurrent'
    BY <1>4, <2>1 DEF Finish, IInv, PendingIssued, IdleReady, UpdateCurrent
  <2>5. QED
    BY <1>2, <2>2, <2>3, <2>4 DEF IInv
<1>5. QED
  BY <1>3, <1>4

LEMMA NextIInv == IInv /\ [Next]_vars => IInv'
<1> SUFFICES ASSUME IInv, [Next]_vars
             PROVE  IInv'
  OBVIOUS
<1>0. TInv /\ TInv'
  BY NextTInv DEF IInv
<1> USE <1>0 DEF storeVars, opVars, captureVars, boundVars
<1>1. ASSUME NEW id \in GrantIds, NEW taskId \in TaskIds, NEW d \in Durations,
             CreateGrant(id, taskId, d)
      PROVE  IInv'
  <2> DEFINE r == [kind |-> "replace",
                   grant |-> [id |-> id, taskId |-> taskId, expiresAt |-> now + d]]
  <2>1. r \in Request
    BY <1>1, GrantConstants DEF CreateGrant, Request, Grant, TInv, TypeOK
  <2>2. QED
    BY <1>1, <2>1, Joins DEF CreateGrant, Enqueue
<1>2. CASE RevokeGrant \/ LookupGrant \/ FireAlarm \/ RestoreGrant
  <2>1. \A k \in {"revoke", "lookup", "reconcile"} : [kind |-> k, grant |-> NoGrant] \in Request
    BY DEF Request
  <2>2. QED
    BY <1>2, <2>1, Joins
       DEF RevokeGrant, LookupGrant, FireAlarm, RestoreGrant, Reconciliation, Enqueue
<1>3. CASE RebindGrant
  <2>1. [kind |-> "update", grant |-> refreshing] \in Request
    BY <1>3 DEF RebindGrant, Request, TInv, TypeOK
  <2>2. QED
    BY <1>3, <2>1, Joins DEF RebindGrant, Enqueue
<1>4. CASE ReplaceSchedule
  BY <1>4, GoesOn, Settles DEF ReplaceSchedule, Running, Goto
<1>5. CASE ReplaceCommit
  <2>1. Pending(1) /\ Head(queue).grant \in Grant /\ queue # <<>>
    BY <1>5, HeadTypes DEF ReplaceCommit, Running, Pending, TInv, TypeOK
  <2>2. CASE StoreGrant(Head(queue).grant)
    BY <1>5, <2>1, <2>2, Writes DEF ReplaceCommit, Goto, AfterReplace
  <2>3. CASE UNCHANGED storeVars
    BY <1>5, <2>1, <2>3, GoesOn DEF ReplaceCommit, Goto, AfterReplace
  <2>4. QED
    BY <1>5, <2>2, <2>3 DEF ReplaceCommit
<1>6. CASE Resync \/ Publish
  BY <1>6, Settles DEF Resync, Publish, Running
<1>7. CASE RevokeStart \/ EndClear \/ Cleanup
  BY <1>7, GoesOn DEF RevokeStart, EndClear, Cleanup, Running, EndBecause, Goto
<1>8. CASE EndCommit
  <2>1. queue # <<>>
    BY <1>8 DEF EndCommit, Running
  <2>2. CASE StoreGrant(NoGrant)
    BY <1>8, <2>1, <2>2, Writes DEF EndCommit, Goto
  <2>3. CASE UNCHANGED storeVars
    BY <1>8, <2>1, <2>3, GoesOn, Settles DEF EndCommit, Goto
  <2>4. QED
    BY <1>8, <2>2, <2>3 DEF EndCommit
<1>9. CASE Reconcile \/ ReconcileFails \/ Lookup
  BY <1>9, GoesOn, Settles DEF Reconcile, ReconcileFails, Lookup, Running, EndBecause
<1>10. CASE UpdateRead
  BY <1>10, GoesOn, Settles DEF UpdateRead, Running, EndBecause, Goto
<1>11. CASE UpdateCommit
  <2>1. queue # <<>> /\ activeGrant' = activeGrant
    BY <1>11 DEF UpdateCommit, Running, IInv, UpdateCurrent
  <2>2. QED
    BY <1>11, <2>1, GoesOn, Settles DEF UpdateCommit, Goto
<1>12. ASSUME NEW t \in Tabs, StartCapture(t) \/ RegisterCapture(t) \/ DropCapture(t)
       PROVE  IInv'
  BY <1>12, BesideQueue DEF StartCapture, RegisterCapture, DropCapture
<1>13. ASSUME NEW taskId \in TaskIds, RequestHandoff(taskId)
       PROVE  IInv'
  BY <1>13, BesideQueue DEF RequestHandoff
<1>14. ASSUME NEW outcome, ResolveHandoff(outcome)
       PROVE  IInv'
  BY <1>14, BesideQueue DEF ResolveHandoff
<1>15. CASE FlushCaptures \/ Tick \/ RestoreFails \/ UNCHANGED vars
  BY <1>15, BesideQueue DEF FlushCaptures, Tick, RestoreFails, vars
<1>16. CASE Kill
  BY <1>16 DEF Kill, IInv, IdleReady, EndedGrantStaysEnded, PendingFresh, Pending,
               PendingDistinct, PendingIssued, KnownIssued, UpdateCurrent
<1>17. ASSUME NEW byAlarm \in BOOLEAN, Restart(byAlarm)
       PROVE  IInv'
  <2>1. /\ queue' \in {<<>>, <<Reconciliation>>}
        /\ \A k \in DOMAIN queue' : queue'[k] = Reconciliation
        /\ queue' # <<>> => Head(queue') = Reconciliation
    BY <1>17 DEF Restart
  <2>2. phase' = "ready"
    BY <1>17 DEF Restart, TInv, IInv, IdleReady, DeadIdle
  <2>3. QED
    BY <1>17, <2>1, <2>2 DEF Restart, Reconciliation, IInv, IdleReady, EndedGrantStaysEnded,
       PendingFresh, Pending, PendingDistinct, PendingIssued, KnownIssued, UpdateCurrent
<1>18. QED
  BY <1>1, <1>2, <1>3, <1>4, <1>5, <1>6, <1>7, <1>8, <1>9, <1>10, <1>11, <1>12, <1>13,
     <1>14, <1>15, <1>16, <1>17
     DEF Next, Callers, Lifecycle, Captures, Environment

LEMMA Invariance == Spec => []IInv
  BY InitIInv, NextIInv, PTL DEF Spec

\* A grant that ended is never the active grant again (EndedGrantStaysEnded),
\* with any number of queued replacements and refreshes, failing storage calls,
\* late alarms and worker terminations.
THEOREM NoResurrection == Spec => []EndedGrantStaysEnded
<1>1. IInv => EndedGrantStaysEnded
  BY DEF IInv
<1>2. QED
  BY <1>1, Invariance, PTL

LEMMA HandoffStep ==
    ASSUME IInv, [Next]_vars, activeGrant # NoGrant, activeGrant' # activeGrant
    PROVE  /\ ~(handoff'.state = "waiting_for_user" /\ handoff'.taskId = activeGrant.taskId)
           /\ handoff' # handoff => handoff.taskId = activeGrant.taskId
<1>1. PICK g : StoreGrant(g)
  <2>1. CASE ReplaceCommit
    BY <2>1 DEF ReplaceCommit, storeVars
  <2>2. CASE EndCommit
    BY <2>2 DEF EndCommit, storeVars
  <2>3. CASE UpdateCommit
    BY <2>3 DEF UpdateCommit, Running, IInv, UpdateCurrent
  <2>4. CASE ~(ReplaceCommit \/ EndCommit \/ UpdateCommit)
    <3> USE DEF storeVars
    <3>1. CASE Callers
      BY <3>1 DEF Callers, CreateGrant, RevokeGrant, LookupGrant, RebindGrant, FireAlarm
    <3>2. CASE Lifecycle
      BY <2>4, <3>2 DEF Lifecycle, ReplaceSchedule, Resync, RevokeStart, EndClear, Cleanup,
         Publish, Reconcile, ReconcileFails, Lookup, UpdateRead
    <3>3. CASE Captures
      BY <3>3 DEF Captures, StartCapture, RegisterCapture, DropCapture, FlushCaptures
    <3>4. CASE Environment
      BY <3>4 DEF Environment, RequestHandoff, ResolveHandoff, Tick, Kill, Restart, RestoreGrant,
         RestoreFails
    <3>5. QED
      BY <3>1, <3>2, <3>3, <3>4 DEF Next, vars
  <2>5. QED
    BY <2>1, <2>2, <2>3, <2>4
<1>2. handoff \in Handoff
  BY DEF IInv, TInv, TypeOK
<1>3. CASE CancelsHandoff(activeGrant)
  <2>1. handoff' = [handoff EXCEPT !.state = "cancelled"]
    BY <1>1, <1>3 DEF StoreGrant, HandoffAfter
  <2>2. handoff'.state = "cancelled"
    BY <1>2, <2>1 DEF Handoff
  <2>3. QED
    BY <1>3, <2>2 DEF CancelsHandoff
<1>4. CASE ~CancelsHandoff(activeGrant)
  BY <1>1, <1>4 DEF StoreGrant, HandoffAfter, CancelsHandoff
<1>5. QED
  BY <1>3, <1>4

\* A waiting handoff leaves with the grant of its task, in the same write, and
\* no other handoff is touched (HandoffEndsWithGrant).
THEOREM HandoffLeavesWithGrant == Spec => HandoffEndsWithGrant
<1>1. IInv /\ [Next]_vars =>
        [ (activeGrant # NoGrant /\ activeGrant' # activeGrant)
            => /\ ~(handoff'.state = "waiting_for_user" /\ handoff'.taskId = activeGrant.taskId)
               /\ handoff' # handoff => handoff.taskId = activeGrant.taskId ]_vars
  BY HandoffStep
<1>2. QED
  BY <1>1, Invariance, PTL DEF Spec, HandoffEndsWithGrant

-----------------------------------------------------------------------------
(* The alarm of a live grant. While no reconciliation is still to come,    *)
(* the alarm is that of the active grant, except where the running         *)
(* operation has armed it for the grant it is about to store, or where the *)
(* one failure has happened and the operation is about to make up for it.  *)
(* A reconciliation that fails before it knows the grant makes up for      *)
(* nothing: until the next one the alarm may be missing (unreconciled).    *)

\* A reconciliation is on its way: of the alarm that fired or of the restarted worker.
WillReconcile ==
    \/ ~alive
    \/ restoring
    \/ \E i \in DOMAIN queue : queue[i].kind = "reconcile" /\ (i = 1 => phase = "ready")

AlarmRight == activeGrant # NoGrant /\ ~Expired(activeGrant) => alarm = activeGrant.expiresAt

\* The replacement at the head of the queue is about to store its grant.
Replacing == phase = "commit" /\ Head(queue).kind = "replace"

\* What failed is made up for by the operation that runs.
MakesUp ==
    /\ faults > 0
    /\ phase = "resync" \/ (phase = "end" /\ reason = "scheduler_failure")

AlarmKept ==
    \/ WillReconcile
    \/ Replacing /\ alarm = Head(queue).grant.expiresAt
    \/ ~Replacing /\ (AlarmRight \/ MakesUp)

\* An operation that ends a grant it read still finds it, and then leaves none.
EndKnows ==
    /\ (phase = "end" /\ reason # "revoked")
         => /\ activeGrant # NoGrant /\ target = activeGrant
            /\ reason = "expired" => Expired(activeGrant)
    /\ phase = "clear" => activeGrant = NoGrant

AlarmInv == EndKnows /\ (faults <= 1 /\ ~unreconciled => AlarmKept)

LEMMA InitAlarmInv == Init => AlarmInv
  BY DEF Init, AlarmInv, EndKnows, AlarmKept, WillReconcile

\* What a reconciliation that is on its way needs to stay on its way.
LEMMA WillReconcileJoins ==
    ASSUME IInv, NEW r \in Request, queue' = Append(queue, r),
           UNCHANGED phase,
           r.kind = "reconcile" \/ (WillReconcile /\ UNCHANGED <<alive, restoring>>)
    PROVE  WillReconcile'
<1>1. /\ Len(queue) \in Nat /\ DOMAIN queue = 1 .. Len(queue)
      /\ DOMAIN queue' = 1 .. Len(queue) + 1
      /\ \A i \in DOMAIN queue : queue'[i] = queue[i]
      /\ queue'[Len(queue) + 1] = r
  BY DEF IInv, TInv, TypeOK
<1>2. CASE r.kind = "reconcile"
  <2>1. Len(queue) + 1 \in DOMAIN queue' /\ (Len(queue) + 1 = 1 => queue = <<>>)
    BY <1>1 DEF IInv, TInv, TypeOK
  <2>2. Len(queue) + 1 = 1 => phase' = "ready"
    BY <2>1 DEF IInv, IdleReady
  <2>3. QED
    BY <1>1, <1>2, <2>1, <2>2 DEF WillReconcile
<1>3. CASE WillReconcile /\ UNCHANGED <<alive, restoring>>
  BY <1>1, <1>3 DEF WillReconcile
<1>4. QED
  BY <1>2, <1>3

\* An operation that joins the queue changes nothing about the alarm.
LEMMA AlarmJoins ==
    ASSUME IInv, AlarmKept, NEW r \in Request, queue' = Append(queue, r),
           UNCHANGED <<alive, restoring, phase, reason, activeGrant, alarm, now, faults>>
    PROVE  AlarmKept'
<1>1. queue # <<>> => Head(queue') = Head(queue)
  BY DEF IInv, TInv, TypeOK
<1>2. CASE WillReconcile
  BY <1>2, WillReconcileJoins DEF AlarmKept
<1>3. CASE ~WillReconcile
  <2>1. Replacing' <=> Replacing
    BY <1>1 DEF Replacing, IInv, IdleReady
  <2>2. Replacing => queue # <<>>
    BY DEF Replacing, IInv, IdleReady
  <2>3. QED
    BY <1>1, <1>3, <2>1, <2>2 DEF AlarmKept, AlarmRight, MakesUp, Expired
<1>4. QED
  BY <1>2, <1>3

\* The running operation settles; it was no reconciliation that has still to begin.
LEMMA AlarmSettles ==
    ASSUME IInv, AlarmKept, queue # <<>>, Finish, UNCHANGED <<alive, restoring>>,
           Head(queue).kind = "reconcile" => phase # "ready",
           WillReconcile \/ AlarmRight'
    PROVE  AlarmKept'
<1>1. /\ Len(queue) \in Nat \ {0} /\ DOMAIN queue = 1 .. Len(queue)
      /\ DOMAIN queue' = 1 .. Len(queue) - 1
      /\ \A i \in DOMAIN queue' : queue'[i] = queue[i + 1]
      /\ Head(queue) = queue[1]
      /\ phase' = "ready"
  BY DEF IInv, TInv, TypeOK, Finish
<1>2. CASE WillReconcile
  <2>1. CASE ~alive \/ restoring
    BY <2>1 DEF WillReconcile, AlarmKept
  <2>2. CASE alive /\ ~restoring
    <3>1. PICK i \in DOMAIN queue : queue[i].kind = "reconcile" /\ (i = 1 => phase = "ready")
      BY <1>2, <2>2 DEF WillReconcile
    <3>2. i - 1 \in DOMAIN queue' /\ queue'[i - 1].kind = "reconcile"
      BY <1>1, <3>1
    <3>3. QED
      BY <1>1, <3>2 DEF WillReconcile, AlarmKept
  <2>3. QED
    BY <2>1, <2>2
<1>3. CASE AlarmRight'
  BY <1>1, <1>3 DEF AlarmKept, Replacing
<1>4. QED
  BY <1>2, <1>3

\* The running operation goes on; a reconciliation that waits behind it still waits.
LEMMA AlarmGoesOn ==
    ASSUME IInv, AlarmKept, queue # <<>>, UNCHANGED <<queue, alive, restoring>>,
           Head(queue).kind = "reconcile" => phase # "ready",
           WillReconcile \/ AlarmKept'
    PROVE  AlarmKept'
  BY DEF WillReconcile, AlarmKept, IInv, TInv, TypeOK

LEMMA NextEndKnows == IInv /\ EndKnows /\ [Next]_vars => EndKnows'
<1> SUFFICES ASSUME IInv, EndKnows, [Next]_vars
             PROVE  EndKnows'
  OBVIOUS
<1> USE DEF storeVars, opVars, captureVars, boundVars
<1>0. now \in Nat /\ (activeGrant # NoGrant => activeGrant.expiresAt \in Nat)
  BY GrantConstants DEF IInv, TInv, TypeOK, Grant
<1>1. CASE Callers
  BY <1>1 DEF EndKnows, Expired, Callers, CreateGrant, RevokeGrant, LookupGrant, RebindGrant,
              FireAlarm, Enqueue
<1>2. CASE ReplaceSchedule \/ ReplaceCommit \/ Resync \/ RevokeStart
  BY <1>2 DEF EndKnows, Expired, ReplaceSchedule, ReplaceCommit, Resync, RevokeStart, Running,
              Finish, Goto, EndBecause, AfterReplace
<1>3. CASE EndCommit \/ EndClear \/ Cleanup \/ Publish
  BY <1>3 DEF EndKnows, Expired, EndCommit, EndClear, Cleanup, Publish, Running,
              Finish, Goto, StoreGrant
<1>4. CASE Reconcile \/ ReconcileFails \/ Lookup \/ UpdateRead \/ UpdateCommit
  BY <1>4 DEF EndKnows, Expired, StoredExpired, Reconcile, ReconcileFails, Lookup, UpdateRead, UpdateCommit,
              Running, Finish, Goto, EndBecause
<1>5. CASE Captures
  BY <1>5 DEF EndKnows, Expired, Captures, StartCapture, RegisterCapture, DropCapture,
              FlushCaptures
<1>6. CASE Environment
  <2>1. CASE Tick
    BY <1>0, <2>1 DEF Tick, EndKnows, Expired
  <2>2. CASE Kill
    BY <2>2 DEF Kill, EndKnows
  <2>3. CASE RestoreGrant
    BY <2>3 DEF RestoreGrant, EndKnows, Expired
  <2>4. ASSUME NEW taskId, RequestHandoff(taskId)
        PROVE  EndKnows'
    BY <2>4 DEF RequestHandoff, EndKnows, Expired
  <2>5. ASSUME NEW outcome, ResolveHandoff(outcome)
        PROVE  EndKnows'
    BY <2>5 DEF ResolveHandoff, EndKnows, Expired
  <2>6. ASSUME NEW byAlarm, Restart(byAlarm)
        PROVE  EndKnows'
    BY <2>6 DEF Restart, EndKnows, Expired
  <2>7. CASE RestoreFails
    BY <2>7 DEF RestoreFails, EndKnows, Expired
  <2>8. QED
    BY <1>6, <2>1, <2>2, <2>3, <2>4, <2>5, <2>6, <2>7 DEF Environment
<1>7. CASE UNCHANGED vars
  BY <1>7 DEF vars, EndKnows, Expired
<1>8. QED
  BY <1>1, <1>2, <1>3, <1>4, <1>5, <1>6, <1>7 DEF Next, Lifecycle

\* A step that does not touch what AlarmKept is about.
LEMMA AlarmBeside ==
    ASSUME IInv, AlarmKept, faults' = faults \/ ~MakesUp,
           UNCHANGED <<queue, phase, reason, alive, restoring, activeGrant, alarm>>,
           now' = now \/ (now \in Nat /\ now' = now + 1)
    PROVE  AlarmKept'
<1>1. Expired(activeGrant) /\ activeGrant # NoGrant => activeGrant.expiresAt <= now'
  BY GrantConstants DEF Expired, IInv, TInv, TypeOK, Grant
<1>2. QED
  BY <1>1 DEF AlarmKept, WillReconcile, Replacing, AlarmRight, MakesUp, Expired

LEMMA NextAlarmKept ==
    ASSUME IInv, IInv', EndKnows, faults <= 1 /\ ~unreconciled => AlarmKept, [Next]_vars,
           faults' <= 1, ~unreconciled'
    PROVE  AlarmKept'
<1> USE DEF storeVars, opVars, captureVars, boundVars
<1>0. /\ now \in Nat /\ (activeGrant # NoGrant => activeGrant.expiresAt \in Nat)
      /\ faults \in Nat /\ faults' \in Nat
  BY GrantConstants DEF IInv, TInv, TypeOK, Grant
<1>1. CASE Callers
  <2>0. AlarmKept /\ faults' = faults
    BY <1>1 DEF Callers, CreateGrant, RevokeGrant, LookupGrant, RebindGrant, FireAlarm
  <2>1. ASSUME NEW kind, NEW g, Enqueue(kind, g), UNCHANGED <<alive, restoring, activeGrant, now>>,
               kind = "reconcile" \/ UNCHANGED alarm
        PROVE  AlarmKept'
    <3>1. [kind |-> kind, grant |-> g] \in Request
      BY <2>1 DEF Enqueue, IInv, TInv, TypeOK
    <3>2. QED
      BY <2>0, <2>1, <3>1, AlarmJoins, WillReconcileJoins DEF Enqueue, AlarmKept
  <2>2. QED
    BY <1>1, <2>1 DEF Callers, CreateGrant, RevokeGrant, LookupGrant, RebindGrant, FireAlarm
<1>2. CASE ReplaceSchedule
  <2>1. AlarmKept /\ queue # <<>> /\ ~MakesUp /\ ~Replacing
    BY <1>0, <1>2 DEF ReplaceSchedule, Running, Fault, MakesUp, Replacing
  <2>2. CASE Finish
    <3>1. UNCHANGED <<alarm, activeGrant, now, alive, restoring>> /\ Head(queue).kind # "reconcile"
      BY <1>2, <2>1, <2>2 DEF ReplaceSchedule, Running, Finish, Goto
    <3>2. WillReconcile \/ AlarmRight'
      BY <2>1, <3>1 DEF AlarmKept, AlarmRight, Expired
    <3>3. QED
      BY <2>1, <2>2, <3>1, <3>2, AlarmSettles
  <2>3. CASE Goto("commit") /\ alarm' = Head(queue).grant.expiresAt
    <3>1. WillReconcile \/ AlarmKept'
      BY <1>2, <2>3 DEF ReplaceSchedule, Running, Goto, AlarmKept, Replacing
    <3>2. QED
      BY <1>2, <2>1, <2>3, <3>1, AlarmGoesOn DEF ReplaceSchedule, Running, Goto
  <2>4. QED
    BY <1>2, <2>2, <2>3 DEF ReplaceSchedule
<1>3. CASE ReplaceCommit
  <2>1. AlarmKept /\ queue # <<>> /\ ~MakesUp /\ Replacing
    BY <1>0, <1>3 DEF ReplaceCommit, Running, Fault, MakesUp, Replacing
  <2>2. WillReconcile \/ AlarmKept'
    BY <1>0, <1>3, <2>1 DEF ReplaceCommit, Goto, AfterReplace, StoreGrant, Fault,
       AlarmKept, AlarmRight, Replacing, MakesUp
  <2>3. QED
    BY <1>3, <2>1, <2>2, AlarmGoesOn DEF ReplaceCommit, Running, Goto
<1>4. CASE Resync
  <2>1. AlarmKept /\ queue # <<>> /\ ~Replacing /\ phase # "ready"
    BY <1>0, <1>4 DEF Resync, Running, Fault, Replacing
  <2>2. CASE alarm' = AlarmFor(activeGrant)
    BY <1>4, <2>1, <2>2, AlarmSettles DEF Resync, AlarmFor, AlarmRight, Expired
  <2>3. CASE Fault /\ UNCHANGED alarm
    BY <1>0, <1>4, <2>1, <2>3, AlarmSettles DEF Resync, Fault, AlarmKept, MakesUp, AlarmRight, Expired
  <2>4. QED
    BY <1>4, <2>2, <2>3 DEF Resync
<1>5. CASE RevokeStart
  <2>1. AlarmKept /\ queue # <<>> /\ ~Replacing /\ ~MakesUp
    BY <1>0, <1>5 DEF RevokeStart, Running, Replacing, MakesUp
  <2>2. WillReconcile \/ AlarmKept'
    BY <1>5, <2>1 DEF RevokeStart, EndBecause, AlarmKept, Replacing, AlarmRight, Expired
  <2>3. QED
    BY <1>5, <2>1, <2>2, AlarmGoesOn DEF RevokeStart, Running, EndBecause
<1>6. CASE EndCommit
  <2>1. AlarmKept /\ queue # <<>> /\ ~Replacing /\ phase = "end"
    BY <1>0, <1>6 DEF EndCommit, Running, Fault, Replacing
  <2>2. CASE StoreGrant(NoGrant) /\ (Finish \/ Goto("clear"))
    <3>1. AlarmRight'
      BY <2>2 DEF StoreGrant, AlarmRight
    <3>2. CASE Finish
      BY <1>6, <2>1, <3>1, <3>2, AlarmSettles DEF EndCommit
    <3>3. CASE Goto("clear")
      BY <1>6, <2>1, <3>1, <3>3, AlarmGoesOn DEF EndCommit, Goto, AlarmKept, Replacing
    <3>4. QED
      BY <2>2, <3>2, <3>3
  <2>3. CASE ~EndsActiveGrant /\ Goto("resync") /\ UNCHANGED storeVars
    <3>1. AlarmRight'
      BY <1>6, <2>1, <2>3 DEF EndCommit, EndsActiveGrant, EndKnows, AlarmRight
    <3>2. QED
      BY <1>6, <2>1, <2>3, <3>1, AlarmGoesOn DEF EndCommit, Goto, AlarmKept, Replacing
  <2>4. CASE Fault /\ Finish /\ UNCHANGED storeVars
    <3>1. WillReconcile \/ AlarmRight'
      BY <1>0, <1>6, <2>1, <2>4 DEF EndCommit, Fault, AlarmKept, MakesUp, AlarmRight, Expired
    <3>2. QED
      BY <1>6, <2>1, <2>4, <3>1, AlarmSettles DEF EndCommit
  <2>5. QED
    BY <1>6, <2>2, <2>3, <2>4 DEF EndCommit
<1>7. CASE EndClear
  <2>1. AlarmKept /\ queue # <<>> /\ phase = "clear"
    BY <1>0, <1>7 DEF EndClear, Running, Fault
  <2>2. AlarmKept'
    BY <1>7, <2>1 DEF EndClear, EndKnows, Goto, AlarmKept, AlarmRight, Replacing
  <2>3. QED
    BY <2>2
<1>8. CASE Cleanup \/ Publish
  <2>1. AlarmKept /\ queue # <<>> /\ ~Replacing /\ ~MakesUp /\ phase # "ready"
    BY <1>0, <1>8 DEF Cleanup, Publish, Running, Replacing, MakesUp
  <2>2. CASE Cleanup
    <3>1. WillReconcile \/ AlarmKept'
      BY <2>1, <2>2 DEF Cleanup, Goto, AlarmKept, Replacing, AlarmRight, Expired
    <3>2. QED
      BY <2>1, <2>2, <3>1, AlarmGoesOn DEF Cleanup, Goto
  <2>3. CASE Publish
    BY <2>1, <2>3, AlarmSettles DEF Publish, AlarmKept, AlarmRight, Expired
  <2>4. QED
    BY <1>8, <2>2, <2>3
<1>9. CASE Reconcile
  <2>1. queue # <<>> /\ Head(queue).kind = "reconcile" /\ phase = "ready"
    BY <1>9 DEF Reconcile, Running
  <2>2. CASE StoredExpired /\ EndBecause("expired", activeGrant)
    BY <1>9, <2>2 DEF Reconcile, StoredExpired, EndBecause, AlarmKept, AlarmRight, Replacing, Expired
  <2>3. CASE Finish /\ (alarm' = AlarmFor(activeGrant) \/ activeGrant = NoGrant)
    BY <1>9, <2>3 DEF Reconcile, Finish, AlarmFor, AlarmKept, AlarmRight, Replacing, Expired
  <2>4. CASE Fault /\ EndBecause("scheduler_failure", activeGrant)
    BY <1>0, <2>4 DEF Fault, EndBecause, AlarmKept, MakesUp, Replacing
  <2>5. QED
    BY <1>9, <2>2, <2>3, <2>4 DEF Reconcile
<1>10. CASE Lookup
  <2>1. AlarmKept /\ queue # <<>> /\ ~Replacing /\ ~MakesUp /\ Head(queue).kind # "reconcile"
    BY <1>0, <1>10 DEF Lookup, Running, Replacing, MakesUp, Fault
  <2>2. CASE EndBecause("expired", activeGrant)
    <3>1. WillReconcile \/ AlarmKept'
      BY <1>10, <2>1, <2>2 DEF Lookup, EndBecause, AlarmKept, Replacing, AlarmRight, Expired
    <3>2. QED
      BY <1>10, <2>1, <2>2, <3>1, AlarmGoesOn DEF Lookup, EndBecause
  <2>3. CASE Finish
    BY <1>10, <2>1, <2>3, AlarmSettles DEF Lookup, AlarmKept, AlarmRight, Expired
  <2>4. QED
    BY <1>10, <2>2, <2>3 DEF Lookup
<1>11. CASE UpdateRead
  <2>1. /\ AlarmKept /\ queue # <<>> /\ ~Replacing /\ ~MakesUp
        /\ Head(queue).kind = "update"
    BY <1>0, <1>11 DEF UpdateRead, Running, Replacing, MakesUp, Fault
  <2>2. CASE EndBecause("expired", activeGrant) /\ UNCHANGED <<alarm, faults>>
    <3>1. WillReconcile \/ AlarmKept'
      BY <1>11, <2>1, <2>2 DEF UpdateRead, EndBecause, AlarmKept, Replacing, AlarmRight, Expired
    <3>2. QED
      BY <1>11, <2>1, <2>2, <3>1, AlarmGoesOn DEF UpdateRead, EndBecause
  <2>3. CASE Finish /\ UNCHANGED alarm
    BY <1>11, <2>1, <2>3, AlarmSettles DEF UpdateRead, AlarmKept, AlarmRight, Expired
  <2>4. CASE Goto("commit") /\ alarm' = activeGrant.expiresAt
    <3>1. WillReconcile \/ AlarmKept'
      BY <1>11, <2>1, <2>4 DEF UpdateRead, Goto, AlarmKept, Replacing, AlarmRight
    <3>2. QED
      BY <1>11, <2>1, <2>4, <3>1, AlarmGoesOn DEF UpdateRead, Goto
  <2>5. QED
    BY <1>11, <2>2, <2>3, <2>4 DEF UpdateRead
<1>12. CASE UpdateCommit
  <2>1. /\ AlarmKept /\ queue # <<>> /\ ~Replacing /\ ~MakesUp /\ activeGrant' = activeGrant
        /\ Head(queue).kind = "update"
    BY <1>0, <1>12 DEF UpdateCommit, Running, Replacing, MakesUp, Fault, IInv, UpdateCurrent
  <2>2. CASE Finish
    BY <1>12, <2>1, <2>2, AlarmSettles DEF UpdateCommit, AlarmKept, AlarmRight, Expired
  <2>3. CASE Goto("resync")
    <3>1. WillReconcile \/ AlarmKept'
      BY <1>12, <2>1, <2>3 DEF UpdateCommit, Goto, AlarmKept, Replacing, AlarmRight, Expired
    <3>2. QED
      BY <1>12, <2>1, <2>3, <3>1, AlarmGoesOn DEF UpdateCommit, Goto
  <2>4. QED
    BY <1>12, <2>2, <2>3 DEF UpdateCommit
<1>13. CASE Captures
  BY <1>13, AlarmBeside DEF Captures, StartCapture, RegisterCapture, DropCapture, FlushCaptures
<1>14. CASE Environment
  <2>1. CASE Tick
    BY <1>0, <2>1, AlarmBeside DEF Tick
  <2>2. CASE Kill
    BY <2>2 DEF Kill, AlarmKept, WillReconcile
  <2>3. CASE RestoreGrant
    <3>1. Reconciliation \in Request /\ Reconciliation.kind = "reconcile"
      BY DEF Reconciliation, Request
    <3>2. QED
      BY <2>3, <3>1, WillReconcileJoins DEF RestoreGrant, AlarmKept, IInv, TInv
  <2>4. ASSUME NEW taskId, RequestHandoff(taskId)
        PROVE  AlarmKept'
    BY <2>4, AlarmBeside DEF RequestHandoff
  <2>5. ASSUME NEW outcome, ResolveHandoff(outcome)
        PROVE  AlarmKept'
    BY <2>5, AlarmBeside DEF ResolveHandoff
  <2>6. ASSUME NEW byAlarm, Restart(byAlarm)
        PROVE  AlarmKept'
    BY <2>6 DEF Restart, AlarmKept, WillReconcile
  <2>7. ~RestoreFails
    BY DEF RestoreFails
  <2>8. QED
    BY <1>14, <2>1, <2>2, <2>3, <2>4, <2>5, <2>6, <2>7 DEF Environment
<1>15. CASE UNCHANGED vars
  BY <1>15, AlarmBeside DEF vars
<1>16. ~ReconcileFails
  BY DEF ReconcileFails
<1>17. QED
  BY <1>1, <1>2, <1>3, <1>4, <1>5, <1>6, <1>7, <1>8, <1>9, <1>10, <1>11, <1>12, <1>13, <1>14,
     <1>15, <1>16 DEF Next, Lifecycle

\* With at most one failing alarm or storage call, a live grant has its alarm whenever no
\* operation runs or is about to (LiveGrantHasAlarm), for any number of queued operations,
\* early alarms and worker terminations, unless that call kept the last reconciliation from
\* knowing the grant.
THEOREM AlarmFollowsGrant == Spec => [](faults <= 1 => LiveGrantHasAlarm)
<1>1. IInv /\ AlarmInv => (faults <= 1 => LiveGrantHasAlarm)
  BY DEF AlarmInv, AlarmKept, WillReconcile, Replacing, MakesUp, AlarmRight, IInv, IdleReady,
         LiveGrantHasAlarm
<1>2. IInv /\ IInv' /\ AlarmInv /\ [Next]_vars => AlarmInv'
  BY NextEndKnows, NextAlarmKept DEF AlarmInv
<1>3. QED
  BY <1>1, <1>2, InitAlarmInv, Invariance, PTL DEF Spec

-----------------------------------------------------------------------------
(* The captures that a grant owns. While nothing failed and no worker was  *)
(* terminated, the operation that ended a grant sweeps its captures before *)
(* the memo of cleanupTasks knows the grant, and a capture that is         *)
(* registered later finds that its owner is not the active grant.          *)

CaptureInv ==
    /\ ~alive => kills > 0
    /\ (faults = 0 /\ kills = 0) =>
         /\ cleaned \subseteq ended
         /\ phase \in {"clear", "cleanup"} => target.id \in ended \ cleaned

LEMMA AppendedNotEmpty ==
    ASSUME queue \in Seq(Request)
    PROVE  \A r : Append(queue, r) # <<>>
<1>1. ASSUME NEW r
      PROVE  Append(queue, r) # <<>>
  <2>1. queue \in Seq(Request \cup {r}) /\ r \in Request \cup {r}
    OBVIOUS
  <2>2. QED
    BY <2>1
<1>2. QED
  BY <1>1

\* The captures of the active grant are not those of an ended one, nor is a capture
\* that is about to be registered for it.
LEMMA NextCaptures ==
    ASSUME IInv, IInv', CaptureInv, EndReleasesCaptures, [Next]_vars
    PROVE  CaptureInv' /\ EndReleasesCaptures'
<1> USE DEF storeVars, opVars, captureVars, boundVars
<1>0. /\ faults \in Nat /\ faults' \in Nat /\ kills \in Nat /\ kills' \in Nat
      /\ activeGrant # NoGrant => activeGrant.id \notin ended
      /\ target # NoGrant => target \in Grant
      /\ cleaned \subseteq GrantIds
      /\ \A t \in Tabs : /\ capture[t] \in Capture \cup {NoCapture}
                         /\ starting[t] \in Grant \cup {NoGrant}
      /\ capture \in [Tabs -> Capture \cup {NoCapture}]
  BY GrantConstants DEF IInv, TInv, TypeOK, EndedGrantStaysEnded
<1>1. ASSUME UNCHANGED <<phase, target, queue, ended, cleaned, capture, alive, faults, kills>>
      PROVE  CaptureInv' /\ EndReleasesCaptures'
  BY <1>1 DEF CaptureInv, EndReleasesCaptures, Releasing
\* The running operation goes on, or settles, and no grant leaves.
<1>2. ASSUME UNCHANGED <<ended, cleaned, capture, alive, kills>>,
             phase \notin {"clear", "cleanup"}, phase' \notin {"clear", "cleanup"},
             faults' = 0 => faults = 0
      PROVE  CaptureInv' /\ EndReleasesCaptures'
  BY <1>2 DEF CaptureInv, EndReleasesCaptures, Releasing
\* The running operation has ended the grant that it is about to clean up after.
<1>3. ASSUME NEW g, StoreGrant(g), UNCHANGED <<cleaned, capture, alive, kills, queue>>,
             activeGrant # NoGrant => target' = activeGrant /\ phase' \in {"clear", "cleanup"},
             activeGrant = NoGrant => phase' = "publish",
             phase \notin {"clear", "cleanup"}, queue # <<>>, UNCHANGED faults
      PROVE  CaptureInv' /\ EndReleasesCaptures'
  <2>1. ended' = IF activeGrant = NoGrant THEN ended ELSE ended \cup {activeGrant.id}
    BY <1>3 DEF StoreGrant
  <2>2. CaptureInv'
    BY <1>0, <1>3, <2>1 DEF CaptureInv
  <2>3. ASSUME faults = 0, kills = 0, NEW t \in Tabs, capture[t] # NoCapture,
               capture[t].owner.id \in ended', ~capture[t].late
        PROVE  /\ queue' # <<>> /\ phase' \in {"clear", "cleanup"}
               /\ target' # NoGrant /\ target'.id = capture[t].owner.id
    <3>1. capture[t].owner.id \notin ended
      BY <1>3, <2>3 DEF EndReleasesCaptures, Releasing
    <3>2. activeGrant # NoGrant /\ capture[t].owner.id = activeGrant.id
      BY <2>1, <2>3, <3>1
    <3>3. QED
      BY <1>3, <3>2
  <2>4. EndReleasesCaptures'
    <3> SUFFICES ASSUME faults' = 0, kills' = 0, NEW t \in Tabs, capture'[t] # NoCapture,
                        capture'[t].owner.id \in ended', ~capture'[t].late
                 PROVE  /\ queue' # <<>> /\ phase' \in {"clear", "cleanup"}
                        /\ target' # NoGrant /\ target'.id = capture'[t].owner.id
      BY DEF EndReleasesCaptures, Releasing
    <3>1. capture' = capture /\ faults = 0 /\ kills = 0
      BY <1>3
    <3>2. QED
      BY <2>3, <3>1
  <2>5. QED
    BY <2>2, <2>4
<1>4. CASE Callers
  <2>1. UNCHANGED <<phase, target, ended, cleaned, capture, alive, faults, kills>> /\ queue' # <<>>
    BY <1>4, AppendedNotEmpty DEF Callers, CreateGrant, RevokeGrant, LookupGrant, RebindGrant,
       FireAlarm, Enqueue, IInv, TInv, TypeOK
  <2>2. QED
    BY <2>1 DEF CaptureInv, EndReleasesCaptures, Releasing
<1>5. CASE ReplaceSchedule
  BY <1>0, <1>2, <1>5 DEF ReplaceSchedule, Running, Finish, Goto, Fault
<1>6. CASE ReplaceCommit
  <2>1. CASE StoreGrant(Head(queue).grant) /\ target' = activeGrant /\ Goto(AfterReplace) /\ UNCHANGED faults
    BY <1>3, <1>6, <2>1 DEF ReplaceCommit, Running, Goto, AfterReplace
  <2>2. CASE Fault
    BY <1>0, <1>6, <2>2 DEF ReplaceCommit, Fault, CaptureInv, EndReleasesCaptures
  <2>3. QED
    BY <1>6, <2>1, <2>2 DEF ReplaceCommit
<1>7. CASE Resync \/ RevokeStart
  BY <1>0, <1>2, <1>7 DEF Resync, RevokeStart, Running, Finish, EndBecause, Fault
<1>8. CASE EndCommit
  <2>1. CASE StoreGrant(NoGrant) /\ EndsActiveGrant /\ target' = activeGrant /\ Goto("clear") /\ UNCHANGED faults
    BY <1>3, <1>8, <2>1 DEF EndCommit, Running, Goto, EndsActiveGrant
  <2>2. CASE Fault
    BY <1>0, <1>8, <2>2 DEF EndCommit, Fault, CaptureInv, EndReleasesCaptures
  <2>3. CASE Goto("resync") /\ UNCHANGED <<storeVars, faults>>
    BY <1>2, <1>8, <2>3 DEF EndCommit, Running, Goto
  <2>4. QED
    BY <1>8, <2>1, <2>2, <2>3 DEF EndCommit
<1>9. CASE EndClear
  <2>1. CASE Fault
    BY <1>0, <1>9, <2>1 DEF EndClear, Fault, CaptureInv, EndReleasesCaptures
  <2>2. CASE UNCHANGED faults
    BY <1>9, <2>2 DEF EndClear, Running, Goto, CaptureInv, EndReleasesCaptures, Releasing
  <2>3. QED
    BY <1>9, <2>1, <2>2 DEF EndClear
<1>10. CASE Cleanup
  <2>1. /\ phase = "cleanup" /\ phase' = "publish" /\ cleaned' = cleaned \cup {target.id}
        /\ UNCHANGED <<queue, target, ended, alive, faults, kills>>
    BY <1>10 DEF Cleanup, Running, Goto
  <2>2. CaptureInv'
    BY <2>1 DEF CaptureInv
  <2>3. ASSUME faults = 0, kills = 0, NEW t \in Tabs, capture'[t] # NoCapture,
               capture'[t].owner.id \in ended
        PROVE  capture'[t].late
    <3>1. capture' = [u \in Tabs |-> IF capture[u] # NoCapture /\ capture[u].owner.id = target.id
                                     THEN NoCapture ELSE capture[u]]
      BY <1>10, <2>1, <2>3 DEF Cleanup, CaptureInv
    <3>2. capture'[t] = capture[t] /\ capture[t].owner.id # target.id
      BY <2>3, <3>1
    <3>3. QED
      BY <2>3, <3>2 DEF EndReleasesCaptures, Releasing
  <2>4. QED
    BY <2>1, <2>2, <2>3 DEF EndReleasesCaptures
<1>11. CASE Publish
  BY <1>2, <1>11 DEF Publish, Running, Finish
<1>12. CASE Reconcile \/ ReconcileFails \/ Lookup \/ UpdateRead
  BY <1>0, <1>2, <1>12 DEF Reconcile, ReconcileFails, Lookup, UpdateRead, Running, Finish, Goto, EndBecause, Fault
<1>13. CASE UpdateCommit
  BY <1>0, <1>2, <1>13 DEF UpdateCommit, Running, Finish, Goto, Fault
<1>14. ASSUME NEW t \in Tabs, RegisterCapture(t)
       PROVE  CaptureInv' /\ EndReleasesCaptures'
  <2>1. UNCHANGED <<phase, target, queue, ended, cleaned, alive, faults, kills>>
    BY <1>14 DEF RegisterCapture
  <2>2. ASSUME NEW u \in Tabs, capture'[u] # capture[u], capture'[u].owner.id \in ended
        PROVE  capture'[u].late
    <3>1. u = t /\ capture'[u] = [owner |-> starting[t], late |-> starting[t] # activeGrant]
      BY <1>0, <1>14, <2>2 DEF RegisterCapture
    <3>2. QED
      BY <1>0, <1>14, <2>2, <3>1 DEF RegisterCapture
  <2>3. QED
    BY <2>1, <2>2 DEF CaptureInv, EndReleasesCaptures, Releasing
<1>15. ASSUME NEW t \in Tabs, DropCapture(t)
       PROVE  CaptureInv' /\ EndReleasesCaptures'
  <2>1. UNCHANGED <<phase, target, queue, ended, cleaned, alive, faults, kills>>
    BY <1>15 DEF DropCapture
  <2>2. \A u \in Tabs : capture'[u] = NoCapture \/ capture'[u] = capture[u]
    BY <1>0, <1>15 DEF DropCapture
  <2>3. QED
    BY <2>1, <2>2 DEF CaptureInv, EndReleasesCaptures, Releasing
<1>16. ASSUME NEW t \in Tabs, StartCapture(t)
       PROVE  CaptureInv' /\ EndReleasesCaptures'
  BY <1>1, <1>16 DEF StartCapture
<1>17. CASE FlushCaptures \/ Tick \/ UNCHANGED vars
  BY <1>1, <1>17 DEF FlushCaptures, Tick, vars
<1>18. CASE Kill
  BY <1>0, <1>18 DEF Kill, CaptureInv, EndReleasesCaptures
<1>19. CASE RestoreGrant
  <2>1. UNCHANGED <<phase, target, ended, cleaned, capture, alive, faults, kills>> /\ queue' # <<>>
    BY <1>19, AppendedNotEmpty DEF RestoreGrant, IInv, TInv, TypeOK
  <2>2. QED
    BY <2>1 DEF CaptureInv, EndReleasesCaptures, Releasing
<1>20. ASSUME NEW byAlarm, Restart(byAlarm)
       PROVE  CaptureInv' /\ EndReleasesCaptures'
  BY <1>0, <1>20 DEF Restart, CaptureInv, EndReleasesCaptures
<1>21. ASSUME NEW taskId, RequestHandoff(taskId)
       PROVE  CaptureInv' /\ EndReleasesCaptures'
  BY <1>1, <1>21 DEF RequestHandoff
<1>22. ASSUME NEW outcome, ResolveHandoff(outcome)
       PROVE  CaptureInv' /\ EndReleasesCaptures'
  BY <1>1, <1>22 DEF ResolveHandoff
<1>23. CASE RestoreFails
  BY <1>0, <1>23 DEF RestoreFails, Fault, CaptureInv, EndReleasesCaptures
<1>24. QED
  BY <1>4, <1>5, <1>6, <1>7, <1>8, <1>9, <1>10, <1>11, <1>12, <1>13, <1>14, <1>15, <1>16,
     <1>17, <1>18, <1>19, <1>20, <1>21, <1>22, <1>23
     DEF Next, Lifecycle, Captures, Environment

\* The end of a grant stops every capture that was registered while it was active
\* (EndReleasesCaptures), for any number of tabs, grants and queued operations, while no
\* storage call failed and no worker was terminated.
THEOREM GrantReleasesCaptures == Spec => []EndReleasesCaptures
<1>1. Init => CaptureInv /\ EndReleasesCaptures
  BY DEF Init, CaptureInv, EndReleasesCaptures
<1>2. (IInv /\ IInv' /\ [Next]_vars /\ CaptureInv /\ EndReleasesCaptures)
        => CaptureInv' /\ EndReleasesCaptures'
  BY NextCaptures
<1>3. QED
  BY <1>1, <1>2, Invariance, PTL DEF Spec
=============================================================================
