--------------------------- MODULE DeepCaptureProofs ---------------------------
(***************************************************************************)
(* Proofs about DeepCapture, for any calls and any number of stops, faults *)
(* and units of time: a stopped page is never lost out of sight            *)
(* (StoppedPageIsWatched), and the status says the truth (StatusSound).    *)
(*                                                                         *)
(* Both are about the moments when nothing is under way; the invariant     *)
(* says who sees to it meanwhile. The stops are numbered, and a status     *)
(* that was read names the stop it tells of, so what a process holds can   *)
(* be compared with the stop of now. CaredFor: while the page is stopped,  *)
(* the event of this stop is still to be handled, or the event's process   *)
(* is on its way to publish it, or some process releases this very stop,   *)
(* or it is stored and watched. Older is why no release does harm by       *)
(* coming late: one that let the page run, or found it running, is about   *)
(* an earlier stop, and one of this stop which could not let it go on      *)
(* tells so. EventsFollow is why no event does: while what the browser     *)
(* told before this stop is being handled, its own event is still to come. *)
(*                                                                         *)
(* DetachedIsGone: a status that says detached is stored, or about to be,  *)
(* only while the session is gone, except that a start has attached the    *)
(* next session and not yet stored it. StartsAlone makes the exception     *)
(* safe, because a start beside something else is a race that the property *)
(* leaves out.                                                             *)
(*                                                                         *)
(* MoveKeeps has what all steps of one process share, Assemble puts the    *)
(* parts together, and one lemma per action says what it does to CaredFor, *)
(* Older and DetachedIsGone.                                               *)
(***************************************************************************)
EXTENDS DeepCapture, SequenceTheorems, TLAPS

\* What is known of every status when the page has stopped n times: of a pause it
\* names the stop and the deadline, and only a page that is or may be stopped has one.
Sane(status, n) ==
    /\ status.pause.id =< n
    /\ status.pause.id = 0 <=> status.pause.deadline = 0
    /\ status.state = "paused" => status.pause.id # 0
    /\ status.pause.id # 0 => status.state = "paused" \/ status.page = "possibly-paused"
    /\ status.state \in {"attached", "armed"} => status.pause.id = 0

Sound(n) == {status \in Statuses : Sane(status, n)}
Known(n) == Sound(n) \cup {NoStatus}

Releasing == {"resume", "disarm", "detach", "write"}
Purposes == {"resume", "detach", "arm", "pause"}

\* The steps that a process takes.
Steps(p) ==
    CASE p = "start"     -> {"idle", "arm", "write-armed", "observe", "reread", "rewrite"}
                              \cup Releasing
      [] p = "keep"      -> {"idle", "write-kept", "watch-kept"}
      [] p = "event"     -> {"idle", "orphan", "write-pause", "watch", "enrich", "write-enriched",
                             "settle", "write-external", "write-expelled", "reread", "rewrite",
                             "read"} \cup Releasing
      [] p = "reconcile" -> {"idle", "observe", "reread", "rewrite", "decide", "read"}
                              \cup Releasing
      [] p = "alarm"     -> {"idle", "read"} \cup Releasing
      [] OTHER           -> {"idle"} \cup Releasing

\* The steps at which a process has the status that it is about to store, or has
\* just stored; those that go on from what was read; and those that publish a stop.
Storing == {"write-armed", "rewrite", "write-kept", "watch-kept", "write-pause", "watch", "enrich",
            "write-enriched", "write-external", "write-expelled", "write"}
FromRead == Releasing \cup {"decide", "write-kept", "write-enriched"}
Publishing == {"write-pause", "watch", "enrich", "write-enriched"}
Ending == {"settle", "write-external", "write-expelled"}

\* What a process holds at a step.
Fit(p, step, status, write, ran, why) ==
    /\ step \in Steps(p)
    /\ status \in Known(pauses) /\ write \in Known(pauses)
    /\ ran => step \in {"disarm", "detach", "write"}
    /\ step \in {"idle", "arm"} => write = NoStatus
    /\ step \in Storing => write # NoStatus
    /\ step \in FromRead => status # NoStatus
    /\ step \in {"write-kept", "write-enriched"} =>
          status.pause.id = write.pause.id /\ status.page = write.page
    /\ step \in Publishing \cup {"write-kept", "watch-kept"} => write.pause.id # 0
    /\ step \in {"write-armed", "write-external"} => write.debugger # "detached"
    /\ step = "write" => write.debugger \in {"detached", "still-attached"}
    /\ p = "reconcile" /\ step # "idle" => stored # NoStatus
    /\ (p = "start" /\ step \in Releasing) <=> why = "arm"

Holds(p) == Fit(p, pc[p], snap[p], next[p], resumed[p], purpose[p])

Local == \A p \in Processes : Holds(p)

DeadRests == ~alive => \A p \in Processes : pc[p] = "idle"

PageHeld == page = "paused" => debugger = "extension" /\ pauses # 0

\* The event of the page's latest stop.
Latest == [kind |-> "paused", stop |-> pauses]

Unread == \E i \in DOMAIN events : events[i] = Latest

Numbered == \A i \in DOMAIN events : events[i].stop =< pauses

\* While the page is stopped, what came before that stop comes before its event.
InOrder ==
    page = "paused" =>
        \A i \in DOMAIN events :
            events[i] # Latest /\ events[i].kind # "worker" =>
                \E j \in DOMAIN events : j > i /\ events[j] = Latest

EventsFollow ==
    page = "paused" =>
        /\ pc["event"] \in Ending => Unread
        /\ pc["event"] \in Publishing => Unread \/ next["event"].pause.id = pauses

\* A process that let the page run, or found it running, did so before this stop, and
\* one that releases this stop and could not let it go on tells so.
OlderAt(p, step, status, write, ran) ==
    /\ ran => PauseOf(status) < pauses
    /\ step = "write" /\ PauseOf(status) = pauses /\ ~unreported =>
          /\ write.debugger = "still-attached" /\ write.page = "possibly-paused"
          /\ write.pause = status.pause
    /\ p = "start" /\ step \notin {"idle", "arm"} => PauseOf(status) < pauses

Older ==
    page = "paused" =>
        \A p \in Processes : OlderAt(p, pc[p], snap[p], next[p], resumed[p])

\* A process releases this stop.
InCharge(p) == pc[p] \in Releasing /\ PauseOf(snap[p]) = pauses

\* A process will read the status, or tell that the session is still there.
WillTell(p) ==
    pc[p] \in {"read", "disarm", "detach"} \/ (pc[p] = "write" /\ next[p].debugger = "still-attached")

Watched ==
    \/ alarm # 0 \/ stored.page = "possibly-paused" \/ pc["event"] = "watch"
    \/ \E p \in Processes : WillTell(p)

\* Who cares for a page that is stopped.
CaredFor ==
    page = "paused" /\ ~Excused =>
        \/ Unread
        \/ pc["event"] = "orphan"
        \/ pc["event"] = "write-pause" /\ PauseOf(next["event"]) = pauses
        \/ \E p \in Processes : InCharge(p)
        \/ PauseOf(stored) = pauses /\ Watched

\* A session that is reported detached, or is about to be, is gone; except that a
\* start has attached the next one and not yet stored it.
Gone == debugger # "extension"
Attaching ==
    "start" \in Calls /\ pc["start"] \in {"write-armed", "resume", "disarm", "detach", "write"}
Says(status) == status # NoStatus /\ status.debugger = "detached"

StartsAlone == ~raced => ~Racing

ExpelledIsGone == (\E i \in DOMAIN events : events[i].kind = "expelled") => Gone
NextIsTrue == \A p \in Processes : Says(next[p]) => Gone
StoredIsTrue == Says(stored) => Gone \/ Attaching

DetachedIsGone == ~raced /\ ~Excused => ExpelledIsGone /\ NextIsTrue /\ StoredIsTrue

DeepInvariant ==
    /\ TypeOK /\ stored \in Known(pauses)
    /\ Local /\ DeadRests /\ PageHeld
    /\ Numbered /\ InOrder /\ EventsFollow
    /\ Older /\ CaredFor
    /\ StartsAlone /\ DetachedIsGone

-----------------------------------------------------------------------------
(* Statuses *)

AllSteps == {"idle", "arm", "write-armed", "observe", "reread", "rewrite", "write-kept",
             "watch-kept", "orphan", "write-pause", "watch", "enrich", "write-enriched", "settle",
             "write-external", "write-expelled", "read", "resume", "disarm", "detach", "write",
             "decide"}

\* The types of what all processes share and of what each has.
Shared ==
    /\ now \in 0 .. MaxTime
    /\ debugger \in {"nobody", "extension", "other"}
    /\ page \in {"running", "paused"}
    /\ events \in Seq(Events)
    /\ alarm \in 0 .. MaxTime
    /\ alive \in BOOLEAN /\ broken \in BOOLEAN
    /\ intentional \in BOOLEAN /\ resuming \in BOOLEAN
    /\ overwritten \in BOOLEAN /\ unreported \in BOOLEAN /\ raced \in BOOLEAN
    /\ pauses \in 0 .. MaxPauses /\ calls \in 0 .. MaxCalls /\ spent \in 0 .. MaxFaults
Functions ==
    /\ pc \in [Processes -> AllSteps]
    /\ snap \in [Processes -> Statuses \cup {NoStatus}]
    /\ next \in [Processes -> Statuses \cup {NoStatus}]
    /\ resumed \in [Processes -> BOOLEAN]
    /\ purpose \in [Processes -> Purposes]

LEMMA TypeParts == TypeOK <=> Shared /\ Functions /\ stored \in Statuses \cup {NoStatus}
BY DEF TypeOK, Shared, Functions, AllSteps, Purposes

LEMMA StepsAreSteps == ASSUME NEW p PROVE Steps(p) \subseteq AllSteps
BY DEF Steps, AllSteps, Releasing

LEMMA KnownParts ==
    ASSUME NEW n \in Nat, NEW status \in Known(n)
    PROVE  /\ PauseOf(status) \in Nat /\ PauseOf(status) =< n
           /\ status \in Statuses \cup {NoStatus}
           /\ status # NoStatus =>
                 /\ status \in Statuses /\ Sane(status, n) /\ PauseOf(status) = status.pause.id
                 /\ status.pause.id \in Nat /\ status.pause.deadline \in 0 .. MaxTime
<1>1. CASE status = NoStatus
  BY <1>1 DEF PauseOf
<1>2. CASE status # NoStatus
  BY <1>2 DEF Known, Sound, PauseOf, Sane, Statuses
<1>3. QED
  BY <1>1, <1>2

LEMMA KnownGrows ==
    ASSUME NEW n \in Nat, NEW m \in Nat, n =< m
    PROVE  Known(n) \subseteq Known(m)
<1>1. SUFFICES ASSUME NEW status \in Sound(n) PROVE status \in Sound(m)
  BY <1>1 DEF Known
<1>2. status \in Statuses /\ Sane(status, n)
  BY DEF Sound
<1>3. status.pause.id \in Nat
  BY <1>2 DEF Statuses
<1>4. Sane(status, m)
  BY <1>2, <1>3 DEF Sane
<1>5. QED
  BY <1>2, <1>4 DEF Sound

LEMMA ASound ==
    ASSUME NEW n, NEW status \in Statuses, Sane(status, n)
    PROVE  status \in Known(n) /\ status # NoStatus
BY NoStatusIsNone DEF Known, Sound

LEMMA FreshKnown ==
    ASSUME NEW n \in 0 .. MaxPauses
    PROVE  /\ Fresh \in Known(n) /\ Fresh # NoStatus /\ Fresh.pause.id = 0 /\ ~WasPaused(Fresh)
           /\ [Fresh EXCEPT !.state = "armed"] \in Known(n) /\ ~Says([Fresh EXCEPT !.state = "armed"])
           /\ [Fresh EXCEPT !.state = "armed"] # NoStatus
           /\ PauseOf([Fresh EXCEPT !.state = "armed"]) = 0 /\ PauseOf(Fresh) = 0
<1>1. 0 \in 0 .. MaxPauses /\ 0 \in 0 .. MaxTime
  BY DeepCaptureConstants
<1>2. PICK armed : armed = [Fresh EXCEPT !.state = "armed"]
  OBVIOUS
<1>3. armed = [state |-> "armed", pause |-> NoPause, page |-> "unknown", debugger |-> "unknown"]
  BY <1>2 DEF Fresh
<1>4. Fresh \in Statuses /\ armed \in Statuses
  BY <1>1, <1>3 DEF Fresh, Statuses, NoPause
<1>5. Sane(Fresh, n) /\ Sane(armed, n)
  BY <1>3 DEF Sane, Fresh, NoPause
<1>6. ~WasPaused(Fresh) /\ armed.debugger = "unknown" /\ armed.pause.id = 0 /\ Fresh.pause.id = 0
  BY <1>3 DEF WasPaused, Fresh, NoPause
<1>7. Fresh \in Known(n) /\ armed \in Known(n) /\ Fresh # NoStatus /\ armed # NoStatus
  BY <1>4, <1>5, ASound
<1>8. QED
  BY <1>2, <1>6, <1>7 DEF Says, PauseOf

LEMMA EndedKnown ==
    ASSUME NEW n \in 0 .. MaxPauses, NEW state \in {"detached", "error"}
    PROVE  Ended(state) \in Known(n) /\ Ended(state) # NoStatus /\ PauseOf(Ended(state)) = 0
<1>1. 0 \in 0 .. MaxPauses /\ 0 \in 0 .. MaxTime
  BY DeepCaptureConstants
<1>2. Ended(state) \in Statuses
  BY <1>1 DEF Ended, Statuses, NoPause
<1>3. Sane(Ended(state), n) /\ Ended(state).pause.id = 0
  BY DEF Sane, Ended, NoPause
<1>4. QED
  BY <1>2, <1>3, ASound DEF PauseOf

LEMMA ReleasedKnown ==
    ASSUME NEW n \in 0 .. MaxPauses, NEW why \in Purposes, NEW status \in Known(n),
           status # NoStatus, NEW running \in BOOLEAN, NEW detached \in BOOLEAN
    PROVE  /\ Released(why, status, running, detached) \in Known(n)
           /\ Released(why, status, running, detached) # NoStatus
           /\ ~running => /\ Released(why, status, running, detached).page = "possibly-paused"
                          /\ why # "arm" =>
                               Released(why, status, running, detached).pause = status.pause
           /\ Released(why, status, running, detached).debugger
                 = IF detached THEN "detached" ELSE "still-attached"
<1>1. 0 \in 0 .. MaxPauses /\ 0 \in 0 .. MaxTime /\ n \in Nat
  BY DeepCaptureConstants
<1>2. status \in Statuses /\ Sane(status, n)
  BY <1>1, KnownParts
<1>3. status.pause \in [id : 0 .. MaxPauses, deadline : 0 .. MaxTime]
  BY <1>2 DEF Statuses
<1>4. PICK r : r = Released(why, status, running, detached)
  OBVIOUS
<1>5. PICK state \in {"captured", "detached", "error"} :
        r = [state |-> state, pause |-> IF running \/ why = "arm" THEN NoPause ELSE status.pause,
             page |-> IF running THEN "running" ELSE "possibly-paused",
             debugger |-> IF detached THEN "detached" ELSE "still-attached"]
  BY <1>4 DEF Released, Purposes
<1>6. NoPause \in [id : 0 .. MaxPauses, deadline : 0 .. MaxTime] /\ NoPause.id = 0 /\ NoPause.deadline = 0
  BY <1>1 DEF NoPause
<1>7. r \in Statuses
  BY <1>3, <1>5, <1>6 DEF Statuses
<1>8. Sane(r, n)
  <2>1. CASE running \/ why = "arm"
    BY <1>1, <1>5, <1>6, <2>1 DEF Sane
  <2>2. CASE ~running /\ why # "arm"
    BY <1>2, <1>5, <2>2 DEF Sane
  <2>3. QED
    BY <2>1, <2>2
<1>9. QED
  BY <1>4, <1>5, <1>7, <1>8, ASound

-----------------------------------------------------------------------------
(* A process takes a step *)

Moved(p, step, status, write, ran, why) ==
    /\ pc' = [pc EXCEPT ![p] = step]
    /\ snap' = [snap EXCEPT ![p] = status]
    /\ next' = [next EXCEPT ![p] = write]
    /\ resumed' = [resumed EXCEPT ![p] = ran]
    /\ purpose' = [purpose EXCEPT ![p] = why]

Became(p, step, status, write, ran, why) ==
    /\ pc'[p] = step /\ snap'[p] = status /\ next'[p] = write
    /\ resumed'[p] = ran /\ purpose'[p] = why

OthersKept(p) ==
    \A q \in Processes \ {p} :
        /\ pc'[q] = pc[q] /\ snap'[q] = snap[q] /\ next'[q] = next[q]
        /\ resumed'[q] = resumed[q] /\ purpose'[q] = purpose[q]

LEMMA MoveDone == \A p : Done(p) <=> Moved(p, "idle", NoStatus, NoStatus, FALSE, "resume")
BY DEF Done, Moved, Goto

LEMMA MoveSame ==
    ASSUME Functions, NEW p \in Processes
    PROVE  /\ [pc EXCEPT ![p] = pc[p]] = pc
           /\ [snap EXCEPT ![p] = snap[p]] = snap
           /\ [next EXCEPT ![p] = next[p]] = next
           /\ [resumed EXCEPT ![p] = resumed[p]] = resumed
           /\ [purpose EXCEPT ![p] = purpose[p]] = purpose
BY DEF Functions

LEMMA MoveReleases ==
    ASSUME Functions, NEW p \in Processes, NEW why, NEW status, Release(p, why, status)
    PROVE  Moved(p, "resume", status, next[p], resumed[p], why)
BY MoveSame DEF Release, Moved, Goto

LEMMA MoveReads ==
    ASSUME Functions, NEW p \in Processes, NEW step, Read(p, step),
           NEW write, next' = [next EXCEPT ![p] = write], UNCHANGED <<resumed, purpose>>
    PROVE  Moved(p, step, stored, write, resumed[p], purpose[p])
BY MoveSame DEF Read, Moved, Goto

LEMMA MoveGoes ==
    ASSUME Functions, NEW p \in Processes, NEW step, Goto(p, step), UNCHANGED localVars
    PROVE  Moved(p, step, snap[p], next[p], resumed[p], purpose[p])
BY MoveSame DEF Goto, Moved, localVars

LEMMA MoveStays ==
    ASSUME Functions, NEW p \in Processes, UNCHANGED <<pc, localVars>>
    PROVE  Moved(p, pc[p], snap[p], next[p], resumed[p], purpose[p])
BY MoveSame DEF Moved, localVars

LEMMA MoveEffect ==
    ASSUME Functions, pauses \in Nat, NEW p \in Processes, NEW step, NEW status, NEW write, NEW ran \in BOOLEAN,
           NEW why \in Purposes, Moved(p, step, status, write, ran, why),
           Fit(p, step, status, write, ran, why)' \/ Fit(p, step, status, write, ran, why), pauses' = pauses
    PROVE  Functions' /\ OthersKept(p) /\ Became(p, step, status, write, ran, why)
<1>1. step \in AllSteps
  BY StepsAreSteps DEF Fit
<1>2. status \in Statuses \cup {NoStatus} /\ write \in Statuses \cup {NoStatus}
  BY KnownParts DEF Fit
<1>3. Functions'
  BY <1>1, <1>2 DEF Functions, Moved
<1>4. OthersKept(p) /\ Became(p, step, status, write, ran, why)
  BY DEF Functions, Moved, OthersKept, Became
<1>5. QED
  BY <1>3, <1>4

LEMMA LocalFollows ==
    ASSUME Local, pauses \in Nat, pauses' \in Nat, pauses =< pauses',
           stored # NoStatus => stored' # NoStatus,
           NEW p \in Processes, OthersKept(p), Holds(p)'
    PROVE  Local'
<1>1. ASSUME NEW q \in Processes, q # p PROVE Holds(q)'
  <2>1. Known(pauses) \subseteq Known(pauses')
    BY KnownGrows
  <2>2. /\ pc'[q] = pc[q] /\ snap'[q] = snap[q] /\ next'[q] = next[q]
        /\ resumed'[q] = resumed[q] /\ purpose'[q] = purpose[q]
    BY <1>1 DEF OthersKept
  <2>3. Fit(q, pc[q], snap[q], next[q], resumed[q], purpose[q])
    BY DEF Local, Holds
  <2>4. Fit(q, pc[q], snap[q], next[q], resumed[q], purpose[q])'
    BY <2>1, <2>2, <2>3 DEF Fit
  <2>5. QED
    BY <2>4 DEF Holds
<1>2. QED
  BY <1>1 DEF Local

-----------------------------------------------------------------------------
(* What the parts of the invariant need *)

LEMMA RunningPage ==
    ASSUME page' # "paused"
    PROVE  PageHeld' /\ InOrder' /\ EventsFollow' /\ Older' /\ CaredFor'
BY DEF PageHeld, InOrder, EventsFollow, Older, CaredFor

LEMMA SameEvents ==
    ASSUME Numbered, InOrder, events' = events, pauses' = pauses, page' = "paused" => page = "paused"
    PROVE  Numbered' /\ InOrder' /\ (Unread => Unread')
BY DEF Numbered, InOrder, Unread, Latest

LEMMA FewerEvents ==
    ASSUME Numbered, InOrder, pauses \in 0 .. MaxPauses, events \in Seq(Events), events # <<>>,
           events' = Tail(events), pauses' = pauses, page' = page
    PROVE  /\ Numbered' /\ InOrder' /\ events' \in Seq(Events)
           /\ Head(events) \in Events /\ Head(events).stop =< pauses
           /\ Head(events) # Latest => (Unread => Unread')
           /\ (page = "paused" /\ Head(events) # Latest /\ Head(events).kind # "worker") => Unread'
           /\ ExpelledIsGone /\ debugger' = debugger => ExpelledIsGone'
<1>1. /\ Len(events) \in Nat \ {0} /\ DOMAIN events = 1 .. Len(events)
      /\ Tail(events) \in Seq(Events) /\ DOMAIN Tail(events) = 1 .. Len(events) - 1
      /\ Head(events) = events[1] /\ events[1] \in Events
      /\ \A i \in DOMAIN Tail(events) : Tail(events)[i] = events[i + 1]
  BY EmptySeq, HeadTailProperties
<1>2. \A i \in DOMAIN Tail(events) : i + 1 \in DOMAIN events /\ events'[i] = events[i + 1]
  BY <1>1
<1>3. \A i \in DOMAIN events : i # 1 => i - 1 \in DOMAIN events' /\ events'[i - 1] = events[i]
  BY <1>1
<1>4. Numbered' /\ Head(events).stop =< pauses
  BY <1>1, <1>2 DEF Numbered
<1>5. InOrder'
  <2>1. SUFFICES ASSUME page = "paused", NEW i \in DOMAIN events', events'[i] # Latest, events'[i].kind # "worker"
                 PROVE  \E j \in DOMAIN events' : j > i /\ events'[j] = Latest
    BY DEF InOrder, Latest
  <2>2. PICK k \in DOMAIN events : k > i + 1 /\ events[k] = Latest
    BY <1>2, <2>1 DEF InOrder
  <2>3. k - 1 \in DOMAIN events' /\ k - 1 > i /\ events'[k - 1] = Latest
    BY <1>1, <1>3, <2>2
  <2>4. QED
    BY <2>3
<1>6. ASSUME Head(events) # Latest, Unread PROVE Unread'
  BY <1>1, <1>3, <1>6 DEF Unread, Latest
<1>7. ASSUME page = "paused", Head(events) # Latest, Head(events).kind # "worker" PROVE Unread'
  <2>1. PICK k \in DOMAIN events : k > 1 /\ events[k] = Latest
    BY <1>1, <1>7 DEF InOrder
  <2>2. QED
    BY <1>1, <1>3, <2>1 DEF Unread, Latest
<1>8. ASSUME ExpelledIsGone, debugger' = debugger PROVE ExpelledIsGone'
  BY <1>2, <1>8 DEF ExpelledIsGone, Gone
<1>9. QED
  BY <1>1, <1>4, <1>5, <1>6, <1>7, <1>8

LEMMA MoreEvents ==
    ASSUME Numbered, events \in Seq(Events), pauses \in 0 .. MaxPauses, pauses' \in 0 .. MaxPauses,
           pauses =< pauses', NEW told \in Events, told.stop =< pauses', events' = Append(events, told)
    PROVE  /\ Numbered' /\ events' \in Seq(Events)
           /\ pauses' = pauses => (Unread => Unread')
           /\ told = Latest' => Unread' /\ InOrder'
           /\ (InOrder /\ told.kind = "worker" /\ pauses' = pauses /\ page' = page) => InOrder'
           /\ (ExpelledIsGone /\ (Gone => Gone') /\ (told.kind = "expelled" => Gone')) => ExpelledIsGone'
<1>1. /\ Len(events) \in Nat /\ DOMAIN events = 1 .. Len(events)
      /\ events' \in Seq(Events) /\ DOMAIN events' = 1 .. Len(events) + 1
      /\ events'[Len(events) + 1] = told
      /\ \A i \in DOMAIN events : i \in DOMAIN events' /\ events'[i] = events[i]
  BY AppendProperties
<1>2. \A i \in DOMAIN events' : i \in DOMAIN events \/ i = Len(events) + 1
  BY <1>1
<1>3. \A i \in DOMAIN events : events[i].stop \in Nat
  <2>1. \A i \in DOMAIN events : events[i] \in Events
    BY <1>1, ElementOfSeq
  <2>2. \A e \in Events : e.stop \in Nat
    BY DEF Events
  <2>3. QED
    BY <2>1, <2>2
<1>4. Numbered'
  BY <1>1, <1>2, <1>3 DEF Numbered
<1>5. ASSUME pauses' = pauses, Unread PROVE Unread'
  BY <1>1, <1>5 DEF Unread, Latest
<1>6. ASSUME told = Latest' PROVE Unread' /\ InOrder'
  <2>1. Len(events) + 1 \in DOMAIN events' /\ events'[Len(events) + 1] = Latest'
    BY <1>1, <1>6
  <2>2. \A i \in DOMAIN events' : events'[i] # Latest' => Len(events) + 1 > i
    BY <1>1, <1>2, <2>1
  <2>3. QED
    BY <2>1, <2>2 DEF Unread, InOrder
<1>7. ASSUME InOrder, told.kind = "worker", pauses' = pauses, page' = page PROVE InOrder'
  <2>1. SUFFICES ASSUME page = "paused", NEW i \in DOMAIN events', events'[i] # Latest, events'[i].kind # "worker"
                 PROVE  \E j \in DOMAIN events' : j > i /\ events'[j] = Latest
    BY <1>7 DEF InOrder, Latest
  <2>2. i \in DOMAIN events /\ events[i] = events'[i]
    BY <1>1, <1>2, <1>7, <2>1
  <2>3. PICK k \in DOMAIN events : k > i /\ events[k] = Latest
    BY <1>7, <2>1, <2>2 DEF InOrder
  <2>4. QED
    BY <1>1, <2>3
<1>8. ASSUME ExpelledIsGone, Gone => Gone', told.kind = "expelled" => Gone' PROVE ExpelledIsGone'
  BY <1>1, <1>2, <1>8 DEF ExpelledIsGone
<1>9. QED
  BY <1>1, <1>4, <1>5, <1>6, <1>7, <1>8

LEMMA OlderFollows ==
    ASSUME Older, NEW p \in Processes, OthersKept(p), pauses' = pauses, unreported => unreported',
           page' = "paused" => page = "paused",
           page' = "paused" => OlderAt(p, pc[p], snap[p], next[p], resumed[p])'
    PROVE  Older'
<1>1. ASSUME page' = "paused", NEW q \in Processes, q # p
      PROVE  OlderAt(q, pc[q], snap[q], next[q], resumed[q])'
  <2>1. /\ pc'[q] = pc[q] /\ snap'[q] = snap[q] /\ next'[q] = next[q] /\ resumed'[q] = resumed[q]
    BY <1>1 DEF OthersKept
  <2>2. OlderAt(q, pc[q], snap[q], next[q], resumed[q])
    BY <1>1 DEF Older
  <2>3. QED
    BY <2>1, <2>2 DEF OlderAt
<1>2. QED
  BY <1>1 DEF Older

LEMMA EventIsAProcess == "event" \in Processes /\ "alarm" \in Processes /\ "reconcile" \in Processes
BY DEF Processes

LEMMA EventsFollowOther ==
    ASSUME EventsFollow, NEW p \in Processes \ {"event"}, OthersKept(p), pauses' = pauses,
           page' = "paused" => page = "paused", Unread => Unread'
    PROVE  EventsFollow'
<1>1. pc'["event"] = pc["event"] /\ next'["event"] = next["event"]
  BY EventIsAProcess DEF OthersKept
<1>2. QED
  BY <1>1 DEF EventsFollow

\* The steps whose end must be looked at.
Carer(p) == pc[p] \in Releasing \cup {"read"} \/ (p = "event" /\ pc[p] \in {"orphan", "write-pause"})

LEMMA CaredForFollows ==
    ASSUME CaredFor, NEW p \in Processes, OthersKept(p), pauses' = pauses, ~Carer(p),
           page' = "paused" => page = "paused", Excused => Excused', Unread => Unread',
           stored' = stored, alarm # 0 => alarm' # 0,
           p = "event" /\ pc[p] = "watch" => alarm' # 0
    PROVE  CaredFor'
<1>1. SUFFICES ASSUME page = "paused", ~Excused
               PROVE  \/ Unread' \/ pc'["event"] = "orphan"
                      \/ pc'["event"] = "write-pause" /\ PauseOf(next'["event"]) = pauses
                      \/ \E q \in Processes : InCharge(q)'
                      \/ PauseOf(stored) = pauses /\ Watched'
  BY DEF CaredFor, PauseOf
<1>2. \A q \in Processes : InCharge(q) => q # p
  BY DEF InCharge, Carer
<1>3. \A q \in Processes : InCharge(q) => InCharge(q)'
  BY <1>2 DEF InCharge, OthersKept, PauseOf
<1>4. \A q \in Processes : WillTell(q) => WillTell(q)'
  BY DEF WillTell, OthersKept, Carer, Releasing
<1>5. pc["event"] \in {"orphan", "write-pause"} => pc'["event"] = pc["event"] /\ next'["event"] = next["event"]
  BY EventIsAProcess DEF Carer, OthersKept
<1>6. pc["event"] = "watch" => pc'["event"] = "watch" \/ alarm' # 0
  BY EventIsAProcess DEF OthersKept
<1>7. Watched => Watched'
  BY <1>4, <1>6 DEF Watched
<1>8. QED
  BY <1>1, <1>3, <1>5, <1>7 DEF CaredFor

LEMMA StartsAloneFollows == ASSUME Noted PROVE StartsAlone' /\ (raced => raced')
BY DEF Noted, StartsAlone

LEMMA StartIsACall == \A p \in Processes : p = "start" => "start" \in Calls
BY DEF Processes

\* Nobody else is under way with a start.
LEMMA NoStartBeside ==
    ASSUME StartsAlone', ~raced', NEW p \in Processes, p # "start", OthersKept(p), pc'[p] # "idle"
    PROVE  ~Attaching
<1>1. ~Starting'
  BY DEF StartsAlone, Racing
<1>2. "start" \in Calls => pc'["start"] = "idle" /\ pc'["start"] = pc["start"]
  BY <1>1 DEF Starting, OthersKept, Processes
<1>3. QED
  BY <1>2 DEF Attaching

LEMMA GoneFollows ==
    ASSUME DetachedIsGone, Noted, NEW p \in Processes, OthersKept(p),
           Excused => Excused', Gone => Gone',
           ExpelledIsGone => ExpelledIsGone',
           (~raced /\ ~Excused /\ Says(next'[p])) =>
                             \/ Says(next[p]) \/ Gone'
                             \/ Says(stored) /\ (~Attaching \/ (p # "start" /\ pc'[p] # "idle")),
           Says(stored') => Says(stored) \/ Gone' \/ (\E q \in Processes : Says(next[q])),
           Attaching /\ ~Attaching' => raced' \/ Excused' \/ Gone' \/ ~Says(stored')
    PROVE  DetachedIsGone'
<1>1. SUFFICES ASSUME ~raced', ~Excused' PROVE ExpelledIsGone' /\ NextIsTrue' /\ StoredIsTrue'
  BY DEF DetachedIsGone
<1>2. StartsAlone' /\ ~raced /\ ~Excused
  BY <1>1, StartsAloneFollows
<1>3. ExpelledIsGone /\ NextIsTrue /\ StoredIsTrue
  BY <1>2 DEF DetachedIsGone
<1>4. ASSUME NEW q \in Processes, Says(next'[q]) PROVE Gone'
  <2>1. CASE q # p
    BY <1>3, <1>4, <2>1 DEF NextIsTrue, OthersKept
  <2>2. CASE q = p
    <3>1. CASE Says(next[p]) \/ Gone'
      BY <1>3, <3>1 DEF NextIsTrue
    <3>2. CASE Says(stored) /\ (~Attaching \/ (p # "start" /\ pc'[p] # "idle"))
      <4>1. ~Attaching
        BY <1>1, <1>2, <3>2, NoStartBeside
      <4>2. QED
        BY <1>3, <3>2, <4>1 DEF StoredIsTrue
    <3>3. QED
      BY <1>2, <1>4, <2>2, <3>1, <3>2
  <2>3. QED
    BY <2>1, <2>2
<1>5. ASSUME Says(stored') PROVE Gone' \/ Attaching'
  <2>1. Gone' \/ Gone \/ Attaching
    BY <1>3, <1>5 DEF StoredIsTrue, NextIsTrue
  <2>2. QED
    BY <1>1, <1>5, <2>1
<1>6. QED
  BY <1>3, <1>4, <1>5 DEF NextIsTrue, StoredIsTrue, Says

LEMMA Assemble ==
    ASSUME Shared', Functions', stored' \in Known(pauses'), pauses' \in Nat, Local', DeadRests', PageHeld',
           Numbered', InOrder', EventsFollow', Older', CaredFor', StartsAlone', DetachedIsGone'
    PROVE  DeepInvariant'
<1>1. stored' \in Statuses \cup {NoStatus}
  BY KnownParts
<1>2. TypeOK'
  BY <1>1 DEF TypeOK, Shared, Functions, AllSteps, Purposes
<1>3. QED
  BY <1>2 DEF DeepInvariant

-----------------------------------------------------------------------------
(* The steps that change neither the page nor the status *)

LEMMA InvariantParts ==
    ASSUME DeepInvariant
    PROVE  /\ Shared /\ Functions /\ stored \in Known(pauses)
           /\ pauses \in Nat /\ pauses \in 0 .. MaxPauses /\ MaxTime \in Nat \ {0}
           /\ Local /\ DeadRests /\ PageHeld /\ Numbered /\ InOrder /\ EventsFollow
           /\ Older /\ CaredFor /\ StartsAlone /\ DetachedIsGone
           /\ \A p \in Processes : Fit(p, pc[p], snap[p], next[p], resumed[p], purpose[p])
           /\ \A p \in Processes : resumed[p] \in BOOLEAN /\ purpose[p] \in Purposes
<1>1. Shared /\ Functions
  BY TypeParts DEF DeepInvariant
<1>2. pauses \in 0 .. MaxPauses /\ MaxTime \in Nat \ {0} /\ MaxPauses \in Nat
  BY <1>1, DeepCaptureConstants DEF Shared
<1>3. pauses \in Nat
  BY <1>2
<1>4. \A p \in Processes : resumed[p] \in BOOLEAN /\ purpose[p] \in Purposes
  BY <1>1 DEF Functions
<1>5. \A p \in Processes : Fit(p, pc[p], snap[p], next[p], resumed[p], purpose[p])
  BY DEF DeepInvariant, Local, Holds
<1>6. QED
  BY <1>1, <1>2, <1>3, <1>4, <1>5 DEF DeepInvariant

LEMMA NotedType == ASSUME Noted PROVE raced' \in BOOLEAN
BY DEF Noted

LEMMA MoveKeeps ==
    ASSUME DeepInvariant, Noted, NEW p \in Processes,
           NEW step, NEW status, NEW write, NEW ran \in BOOLEAN, NEW why \in Purposes,
           Moved(p, step, status, write, ran, why), Fit(p, step, status, write, ran, why),
           Shared', UNCHANGED <<page, events, pauses>>, alive', unreported => unreported',
           stored' = stored \/ (stored' \in Known(pauses) /\ stored' # NoStatus),
           page = "paused" => debugger' = "extension",
           page = "paused" => OlderAt(p, step, status, write, ran),
           (p = "event" /\ page = "paused") =>
                /\ step \in Ending => Unread
                /\ step \in Publishing => Unread \/ write.pause.id = pauses,
           CaredFor', DetachedIsGone'
    PROVE  DeepInvariant'
<1>1. /\ Shared /\ Functions /\ stored \in Known(pauses) /\ pauses \in Nat
      /\ Local /\ PageHeld /\ Numbered /\ InOrder /\ EventsFollow /\ Older
  BY InvariantParts
<1>2. Functions' /\ OthersKept(p) /\ Became(p, step, status, write, ran, why)
  BY <1>1, MoveEffect
<1>3. Fit(p, step, status, write, ran, why)'
  BY DEF Fit
<1>4. Holds(p)'
  BY <1>2, <1>3 DEF Holds, Became
<1>5. Local'
  BY <1>1, <1>2, <1>4, LocalFollows
<1>6. Numbered' /\ InOrder' /\ (Unread => Unread')
  BY <1>1, SameEvents
<1>7. Older'
  <2>1. page' = "paused" => OlderAt(p, pc[p], snap[p], next[p], resumed[p])'
    BY <1>2 DEF Became, OlderAt, PauseOf
  <2>2. QED
    BY <1>1, <1>2, <2>1, OlderFollows
<1>8. EventsFollow'
  <2>1. CASE p = "event"
    BY <1>2, <1>6, <2>1 DEF EventsFollow, Became
  <2>2. CASE p # "event"
    BY <1>1, <1>2, <1>6, <2>2, EventsFollowOther
  <2>3. QED
    BY <2>1, <2>2
<1>9. stored' \in Known(pauses') /\ pauses' \in Nat /\ DeadRests' /\ PageHeld' /\ StartsAlone'
  BY <1>1, StartsAloneFollows DEF DeadRests, PageHeld
<1>10. QED
  BY <1>2, <1>5, <1>6, <1>7, <1>8, <1>9, Assemble

LEMMA QuietGone ==
    ASSUME DetachedIsGone, Noted, NEW p \in Processes, OthersKept(p),
           UNCHANGED <<debugger, events, stored>>, Excused => Excused',
           p = "start" => pc[p] \notin Releasing \cup {"write-armed"},
           Says(next'[p]) => Says(next[p]) \/ (Says(stored) /\ (p # "start" => pc'[p] # "idle"))
    PROVE  DetachedIsGone'
<1>1. Gone' = Gone /\ (ExpelledIsGone => ExpelledIsGone')
  BY DEF Gone, ExpelledIsGone
<1>2. p = "start" => ~Attaching
  BY DEF Attaching, Releasing
<1>3. Attaching => Attaching'
  BY <1>2 DEF Attaching, OthersKept, Processes
<1>4. Says(next'[p]) => Says(next[p]) \/ (Says(stored) /\ (~Attaching \/ (p # "start" /\ pc'[p] # "idle")))
  BY <1>2
<1>5. QED
  BY <1>1, <1>3, <1>4, GoneFollows

LEMMA QuietMove ==
    ASSUME DeepInvariant, Noted, NEW p \in Processes,
           NEW step, NEW status, NEW write, NEW ran \in BOOLEAN, NEW why \in Purposes,
           Moved(p, step, status, write, ran, why), Fit(p, step, status, write, ran, why),
           Shared', UNCHANGED <<page, debugger, events, stored, pauses, alive>>, alive,
           UNCHANGED <<overwritten, unreported>>, ~Carer(p),
           alarm # 0 => alarm' # 0, p = "event" /\ pc[p] = "watch" => alarm' # 0,
           page = "paused" => OlderAt(p, step, status, write, ran),
           (p = "event" /\ page = "paused") =>
                /\ step \in Ending => Unread
                /\ step \in Publishing => Unread \/ write.pause.id = pauses,
           p = "start" => pc[p] \notin Releasing \cup {"write-armed"},
           Says(write) => Says(next[p]) \/ (Says(stored) /\ (p # "start" => step # "idle"))
    PROVE  DeepInvariant'
<1>1. /\ Functions /\ stored \in Known(pauses) /\ pauses \in Nat /\ DetachedIsGone /\ PageHeld
      /\ CaredFor
  BY InvariantParts
<1>2. OthersKept(p) /\ Became(p, step, status, write, ran, why)
  BY <1>1, MoveEffect
<1>3. Excused' = Excused /\ (Unread => Unread')
  BY DEF Excused, Unread, Latest
<1>4. DetachedIsGone'
  BY <1>1, <1>2, <1>3, QuietGone DEF Became
<1>5. CaredFor'
  BY <1>1, <1>2, <1>3, CaredForFollows
<1>6. page = "paused" => debugger' = "extension"
  BY <1>1 DEF PageHeld
<1>7. QED
  BY <1>4, <1>5, <1>6, MoveKeeps

LEMMA EndFits ==
    ASSUME NEW p \in Processes
    PROVE  /\ Fit(p, "idle", NoStatus, NoStatus, FALSE, "resume") /\ "resume" \in Purposes
           /\ FALSE \in BOOLEAN /\ ~Says(NoStatus)
           /\ pauses \in Nat /\ pauses # 0 => OlderAt(p, "idle", NoStatus, NoStatus, FALSE)
BY DEF Fit, Steps, Storing, FromRead, Publishing, Releasing, Known, Purposes, Says, OlderAt, PauseOf

LEMMA EndEffect ==
    ASSUME Functions, NEW p \in Processes, Done(p)
    PROVE  Functions' /\ OthersKept(p) /\ Became(p, "idle", NoStatus, NoStatus, FALSE, "resume")
<1>1. Functions'
  BY DEF Done, Goto, Functions, AllSteps, Purposes
<1>2. QED
  BY <1>1 DEF Done, Goto, Functions, OthersKept, Became

LEMMA SpendTypes ==
    ASSUME Shared, Spend \/ UNCHANGED spent
    PROVE  spent' \in 0 .. MaxFaults
BY DeepCaptureConstants DEF Shared, Spend

LEMMA QuietEnd ==
    ASSUME DeepInvariant, Noted, NEW p \in Processes, Done(p),
           Shared', UNCHANGED <<page, debugger, events, stored, pauses, alive>>, alive,
           UNCHANGED <<overwritten, unreported>>, ~Carer(p),
           alarm # 0 => alarm' # 0, p = "event" /\ pc[p] = "watch" => alarm' # 0,
           p = "start" => pc[p] \notin Releasing \cup {"write-armed"}
    PROVE  DeepInvariant'
<1>1. Moved(p, "idle", NoStatus, NoStatus, FALSE, "resume")
  BY MoveDone
<1>2. page = "paused" => OlderAt(p, "idle", NoStatus, NoStatus, FALSE)
  BY InvariantParts, EndFits DEF PageHeld
<1>3. "idle" \notin Ending \cup Publishing
  BY DEF Ending, Publishing
<1>4. QED
  BY <1>1, <1>2, <1>3, EndFits, QuietMove

LEMMA ExcusedIsEnough == ASSUME Excused' PROVE CaredFor' /\ DetachedIsGone'
BY DEF CaredFor, DetachedIsGone

\* A run gives up, and what was to become of a stopped page is lost.
LEMMA ForgetKeeps ==
    ASSUME DeepInvariant, Noted, NEW p \in Processes, Done(p),
           Shared', UNCHANGED <<page, debugger, events, stored, pauses, alive, overwritten>>, alive,
           unreported' = (unreported \/ page = "paused"), p # "start"
    PROVE  DeepInvariant'
<1>1. /\ Functions /\ stored \in Known(pauses) /\ pauses \in Nat /\ DetachedIsGone /\ PageHeld
  BY InvariantParts
<1>2. OthersKept(p) /\ next'[p] = NoStatus
  BY <1>1, EndEffect DEF Became
<1>3. Excused => Excused'
  BY DEF Excused
<1>4. DetachedIsGone'
  BY <1>1, <1>2, <1>3, EndFits, QuietGone
<1>5. CaredFor'
  <2>1. CASE page = "paused"
    BY <2>1, ExcusedIsEnough DEF Excused
  <2>2. CASE page # "paused"
    BY <2>2 DEF CaredFor
  <2>3. QED
    BY <2>1, <2>2
<1>6. page = "paused" => debugger' = "extension" /\ OlderAt(p, "idle", NoStatus, NoStatus, FALSE)
  BY <1>1, EndFits DEF PageHeld
<1>7. Moved(p, "idle", NoStatus, NoStatus, FALSE, "resume")
  BY MoveDone
<1>8. "idle" \notin Ending /\ "idle" \notin Publishing
  BY DEF Ending, Publishing
<1>9. QED
  BY <1>1, <1>4, <1>5, <1>6, <1>7, <1>8, EndFits, MoveKeeps

LEMMA StartReadKeeps ==
    ASSUME DeepInvariant, StartRead, Noted, "start" \in Calls, calls' \in 0 .. MaxCalls, spent' = spent
    PROVE  DeepInvariant'
<1>1. /\ Shared /\ Functions /\ stored \in Known(pauses)
      /\ "start" \in Processes /\ pc["start"] = "idle"
      /\ Fit("start", pc["start"], snap["start"], next["start"], resumed["start"], purpose["start"])
      /\ resumed["start"] \in BOOLEAN /\ purpose["start"] \in Purposes
  BY InvariantParts DEF Processes, StartRead
<1>2. Moved("start", "arm", stored, next["start"], resumed["start"], purpose["start"])
  BY <1>1, MoveSame DEF StartRead, Read, Moved, Goto
<1>3. Fit("start", "arm", stored, next["start"], resumed["start"], purpose["start"])
  BY <1>1 DEF Fit, Steps, Storing, FromRead, Publishing, Releasing
<1>4. Shared'
  BY <1>1, NotedType DEF StartRead, Shared, browserVars, memoryVars
<1>5. OlderAt("start", "arm", stored, next["start"], resumed["start"])
  BY <1>1 DEF OlderAt, Fit
<1>6. ~Carer("start") /\ pc["start"] \notin Releasing \cup {"write-armed"}
  BY <1>1 DEF Carer, Releasing
<1>7. QED
  BY <1>1, <1>2, <1>3, <1>4, <1>5, <1>6, QuietMove DEF StartRead, browserVars

LEMMA ObserveKeeps ==
    ASSUME DeepInvariant, NEW p \in Processes, p \in {"start", "reconcile"}, Observe(p), Noted,
           calls' = calls
    PROVE  DeepInvariant'
<1>1. /\ Shared /\ Functions /\ stored \in Known(pauses) /\ Older
      /\ pc[p] = "observe" /\ Fit(p, pc[p], snap[p], next[p], resumed[p], purpose[p])
      /\ resumed[p] \in BOOLEAN /\ purpose[p] \in Purposes
  BY InvariantParts DEF Observe
<1>2. Shared'
  BY <1>1, NotedType, SpendTypes DEF Observe, Shared, browserVars, memoryVars
<1>3. /\ UNCHANGED <<page, debugger, events, stored, pauses, alive, alarm, overwritten, unreported>>
      /\ alive /\ ~Carer(p) /\ pc[p] \notin Releasing \cup {"write-armed"}
  BY <1>1 DEF Observe, browserVars, Carer, Releasing
<1>4. page = "paused" => OlderAt(p, pc[p], snap[p], next[p], resumed[p])
  BY <1>1 DEF Older
<1>5. CASE Done(p)
  BY <1>1, <1>2, <1>3, <1>5, QuietEnd
<1>6. CASE p = "reconcile" /\ Read(p, "decide") /\ UNCHANGED <<next, resumed, purpose>>
  <2>1. Moved(p, "decide", stored, next[p], resumed[p], purpose[p])
    BY <1>1, <1>6, MoveSame DEF Read, Goto, Moved
  <2>2. Fit(p, "decide", stored, next[p], resumed[p], purpose[p])
    BY <1>1, <1>6 DEF Fit, Steps, Storing, FromRead, Publishing, Releasing
  <2>3. OlderAt(p, "decide", stored, next[p], resumed[p])
    BY <1>1, <1>6 DEF OlderAt, Fit
  <2>4. QED
    BY <1>1, <1>2, <1>3, <1>6, <2>1, <2>2, <2>3, QuietMove
<1>7. CASE Goto(p, "reread") /\ UNCHANGED localVars
  <2>1. Moved(p, "reread", snap[p], next[p], resumed[p], purpose[p])
    BY <1>1, <1>7, MoveGoes
  <2>2. Fit(p, "reread", snap[p], next[p], resumed[p], purpose[p])
    BY <1>1 DEF Fit, Steps, Storing, FromRead, Publishing, Releasing
  <2>3. page = "paused" => OlderAt(p, "reread", snap[p], next[p], resumed[p])
    BY <1>1, <1>4 DEF OlderAt
  <2>4. QED
    BY <1>1, <1>2, <1>3, <2>1, <2>2, <2>3, QuietMove
<1>8. QED
  BY <1>5, <1>6, <1>7 DEF Observe

LEMMA RereadKeeps ==
    ASSUME DeepInvariant, NEW p \in Processes, p \in {"start", "event", "reconcile"}, Reread(p), Noted,
           calls' = calls
    PROVE  DeepInvariant'
<1>1. /\ Shared /\ Functions /\ stored \in Known(pauses) /\ Older
      /\ pc[p] = "reread" /\ Fit(p, pc[p], snap[p], next[p], resumed[p], purpose[p])
      /\ resumed[p] \in BOOLEAN /\ purpose[p] \in Purposes
  BY InvariantParts DEF Reread
<1>2. Shared'
  BY <1>1, SpendTypes, NotedType DEF Reread, Shared, browserVars, memoryVars
<1>3. /\ UNCHANGED <<page, debugger, events, stored, pauses, alive, alarm, overwritten, unreported>>
      /\ alive /\ ~Carer(p) /\ pc[p] \notin Releasing \cup {"write-armed"} /\ pc[p] # "watch"
  BY <1>1 DEF Reread, browserVars, Carer, Releasing
<1>4. CASE Done(p)
  BY <1>1, <1>2, <1>3, <1>4, QuietEnd
<1>5. CASE stored # NoStatus /\ Goto(p, "rewrite") /\ next' = [next EXCEPT ![p] = stored]
             /\ UNCHANGED <<snap, resumed, purpose>>
  <2>1. Moved(p, "rewrite", snap[p], stored, resumed[p], purpose[p])
    BY <1>1, <1>5, MoveSame DEF Goto, Moved
  <2>2. Fit(p, "rewrite", snap[p], stored, resumed[p], purpose[p])
    BY <1>1, <1>5 DEF Fit, Steps, Storing, FromRead, Publishing, Releasing
  <2>3. page = "paused" => OlderAt(p, "rewrite", snap[p], stored, resumed[p])
    BY <1>1 DEF OlderAt, Older
  <2>4. "rewrite" \notin Ending /\ "rewrite" \notin Publishing /\ "rewrite" # "idle"
    BY DEF Ending, Publishing
  <2>5. QED
    BY <1>1, <1>2, <1>3, <1>5, <2>1, <2>2, <2>3, <2>4, QuietMove
<1>6. CASE p = "start" /\ Release(p, "arm", FailedBase)
  <2>1. PICK status : status = FailedBase
    OBVIOUS
  <2>2. snap[p] \in Known(pauses) /\ ~resumed[p] /\ (page = "paused" => PauseOf(snap[p]) < pauses /\ pauses # 0)
    BY <1>1, <1>6, InvariantParts DEF Fit, Older, OlderAt, PageHeld
  <2>3. status \in Known(pauses) /\ status # NoStatus /\ (page = "paused" => PauseOf(status) < pauses)
    BY <1>6, <2>1, <2>2, FreshKnown, InvariantParts DEF FailedBase
  <2>4. Moved(p, "resume", status, next[p], resumed[p], "arm")
    BY <1>1, <1>6, <2>1, MoveReleases
  <2>5. Fit(p, "resume", status, next[p], resumed[p], "arm") /\ "arm" \in Purposes
    BY <1>1, <1>6, <2>3 DEF Fit, Steps, Storing, FromRead, Publishing, Releasing, Purposes
  <2>6. page = "paused" => OlderAt(p, "resume", status, next[p], resumed[p])
    BY <2>2, <2>3 DEF OlderAt
  <2>7. QED
    BY <1>1, <1>2, <1>3, <1>6, <2>4, <2>5, <2>6, QuietMove
<1>7. QED
  BY <1>4, <1>5, <1>6 DEF Reread

Repaused(new, status, id, deadline) ==
    \/ new = [status EXCEPT !.state = "paused", !.pause = [id |-> id, deadline |-> deadline]]
    \/ /\ new = [status EXCEPT !.pause = [id |-> id, deadline |-> deadline]]
       /\ status.state = "paused"

LEMMA PausedUntil ==
    ASSUME NEW n \in 0 .. MaxPauses, NEW status \in Known(n), status # NoStatus,
           NEW id \in 1 .. n, NEW deadline \in 1 .. MaxTime, NEW new, Repaused(new, status, id, deadline)
    PROVE  /\ new \in Known(n) /\ new # NoStatus /\ new.pause.id = id /\ PauseOf(new) = id
           /\ new.page = status.page /\ new.debugger = status.debugger
<1>1. n \in Nat /\ id \in 0 .. MaxPauses /\ deadline \in 0 .. MaxTime /\ id # 0 /\ deadline # 0 /\ id =< n
  BY DeepCaptureConstants
<1>2. status \in Statuses /\ Sane(status, n)
  BY <1>1, KnownParts
<1>3. PICK pause : pause = [id |-> id, deadline |-> deadline]
  OBVIOUS
<1>4. new = [state |-> "paused", pause |-> pause, page |-> status.page, debugger |-> status.debugger]
  BY <1>2, <1>3 DEF Statuses, Repaused
<1>5. /\ status.page \in {"unknown", "running", "possibly-paused"}
      /\ status.debugger \in {"unknown", "detached", "still-attached"}
  BY <1>2 DEF Statuses
<1>6. pause \in [id : 0 .. MaxPauses, deadline : 0 .. MaxTime]
  BY <1>1, <1>3
<1>7. new \in Statuses
  BY <1>4, <1>5, <1>6 DEF Statuses
<1>8. Sane(new, n)
  BY <1>1, <1>3, <1>4 DEF Sane
<1>9. QED
  BY <1>3, <1>4, <1>7, <1>8, ASound DEF PauseOf

LEMMA PauseParts ==
    ASSUME NEW n \in 0 .. MaxPauses, NEW status \in Known(n), status # NoStatus, status.pause.id # 0
    PROVE  /\ status.pause.id \in 1 .. n /\ status.pause.deadline \in 1 .. MaxTime
           /\ status.pause = [id |-> status.pause.id, deadline |-> status.pause.deadline]
           /\ WasPaused(status) /\ status.pause # NoPause
<1>1. n \in Nat
  BY DeepCaptureConstants
<1>2. status \in Statuses /\ Sane(status, n) /\ status.pause.id \in Nat /\ status.pause.deadline \in 0 .. MaxTime
  BY <1>1, KnownParts
<1>3. status.pause \in [id : 0 .. MaxPauses, deadline : 0 .. MaxTime]
  BY <1>2 DEF Statuses
<1>4. status.pause # NoPause
  BY DEF NoPause
<1>5. QED
  BY <1>1, <1>2, <1>3, <1>4, DeepCaptureConstants DEF Sane, WasPaused

LEMMA DeadlineIsTime == ASSUME Shared PROVE Deadline \in 1 .. MaxTime
BY DeepCaptureConstants DEF Shared, Deadline

LEMMA KeepReadKeeps ==
    ASSUME DeepInvariant, KeepRead, Noted, "keep" \in Calls, calls' \in 0 .. MaxCalls, spent' = spent
    PROVE  DeepInvariant'
<1>1. /\ Shared /\ Functions /\ stored \in Known(pauses) /\ pauses \in 0 .. MaxPauses /\ pauses \in Nat
      /\ "keep" \in Processes /\ pc["keep"] = "idle"
      /\ Fit("keep", pc["keep"], snap["keep"], next["keep"], resumed["keep"], purpose["keep"])
      /\ resumed["keep"] \in BOOLEAN /\ purpose["keep"] \in Purposes
  BY InvariantParts DEF Processes, KeepRead
<1>2. stored # NoStatus /\ stored.state = "paused" /\ stored.pause.id # 0
  BY <1>1, KnownParts DEF KeepRead, Sane
<1>3. PICK write : write = [stored EXCEPT !.pause.deadline = Deadline]
  OBVIOUS
<1>4. write = [stored EXCEPT !.pause = [id |-> stored.pause.id, deadline |-> Deadline]]
  <2>1. stored.pause = [id |-> stored.pause.id, deadline |-> stored.pause.deadline]
    BY <1>1, <1>2, PauseParts
  <2>2. [stored.pause EXCEPT !.deadline = Deadline] = [id |-> stored.pause.id, deadline |-> Deadline]
    BY <2>1
  <2>3. [stored EXCEPT !.pause.deadline = Deadline]
            = [stored EXCEPT !.pause = [stored.pause EXCEPT !.deadline = Deadline]]
    OBVIOUS
  <2>4. QED
    BY <1>3, <2>2, <2>3
<1>5. /\ write \in Known(pauses) /\ write # NoStatus /\ write.pause.id = stored.pause.id
      /\ write.pause.id # 0 /\ write.page = stored.page /\ write.debugger = stored.debugger
  <2>1. stored.pause.id \in 1 .. pauses /\ Deadline \in 1 .. MaxTime
    BY <1>1, <1>2, PauseParts, DeadlineIsTime
  <2>2. Repaused(write, stored, stored.pause.id, Deadline)
    BY <1>2, <1>4 DEF Repaused
  <2>3. QED
    BY <1>1, <1>2, <2>1, <2>2, PausedUntil
<1>6. Moved("keep", "write-kept", stored, write, resumed["keep"], purpose["keep"])
  BY <1>1, <1>3, MoveReads DEF KeepRead
<1>7. Fit("keep", "write-kept", stored, write, resumed["keep"], purpose["keep"])
  BY <1>1, <1>2, <1>5 DEF Fit, Steps, Storing, FromRead, Publishing, Releasing
<1>8. Shared'
  BY <1>1, NotedType DEF KeepRead, Shared, browserVars, memoryVars
<1>9. OlderAt("keep", "write-kept", stored, write, resumed["keep"])
  BY <1>1 DEF OlderAt, Fit
<1>10. ~Carer("keep") /\ (Says(write) => Says(stored))
  BY <1>1, <1>2, <1>5 DEF Carer, Releasing, Says
<1>11. QED
  BY <1>1, <1>6, <1>7, <1>8, <1>9, <1>10, QuietMove DEF KeepRead, browserVars

LEMMA WatchKeptKeeps ==
    ASSUME DeepInvariant, WatchKept, Noted, "keep" \in Calls, calls' = calls
    PROVE  DeepInvariant'
<1>1. /\ Shared /\ Functions /\ pauses \in 0 .. MaxPauses
      /\ "keep" \in Processes /\ pc["keep"] = "watch-kept"
      /\ Fit("keep", pc["keep"], snap["keep"], next["keep"], resumed["keep"], purpose["keep"])
  BY InvariantParts DEF Processes, WatchKept
<1>2. next["keep"].pause.deadline \in 1 .. MaxTime
  BY <1>1, PauseParts DEF Fit, Storing
<1>3. Shared'
  BY <1>1, <1>2, NotedType, DeepCaptureConstants DEF WatchKept, Shared, browserVars, memoryVars
<1>4. ~Carer("keep")
  BY <1>1 DEF Carer, Releasing
<1>5. alarm' # 0
  BY <1>2, DeepCaptureConstants DEF WatchKept
<1>6. QED
  BY <1>1, <1>3, <1>4, <1>5, QuietEnd DEF WatchKept, browserVars

LEMMA CalledKeeps ==
    ASSUME DeepInvariant, NEW p \in Calls, (p = "resume" /\ ResumeCalled) \/ (p = "detach" /\ DetachCalled),
           Noted, calls' \in 0 .. MaxCalls, spent' = spent
    PROVE  DeepInvariant'
<1>1. /\ Shared /\ Functions /\ stored \in Known(pauses)
      /\ p \in Processes /\ pc[p] = "idle"
      /\ Fit(p, pc[p], snap[p], next[p], resumed[p], purpose[p])
      /\ resumed[p] \in BOOLEAN
  BY InvariantParts DEF Processes, ResumeCalled, DetachCalled
<1>2. /\ UNCHANGED <<page, debugger, events, stored, pauses, alive, alarm, overwritten, unreported>>
      /\ alive /\ ReadForRelease(p, p)
  BY DEF ResumeCalled, DetachCalled, browserVars
<1>3. Shared'
  BY <1>1, NotedType DEF ResumeCalled, DetachCalled, Shared, browserVars, memoryVars
<1>4. ~Carer(p) /\ p # "start" /\ p # "event"
  BY <1>1 DEF Carer, Releasing
<1>5. CASE stored = NoStatus
  BY <1>1, <1>2, <1>3, <1>4, <1>5, QuietEnd DEF ReadForRelease
<1>6. CASE stored # NoStatus
  <2>1. Moved(p, "resume", stored, next[p], resumed[p], p)
    BY <1>1, <1>2, <1>6, MoveReleases DEF ReadForRelease
  <2>2. Fit(p, "resume", stored, next[p], resumed[p], p) /\ p \in Purposes
    BY <1>1, <1>6 DEF Fit, Steps, Storing, FromRead, Publishing, Releasing, Purposes
  <2>3. OlderAt(p, "resume", stored, next[p], resumed[p])
    BY <1>1, <1>4 DEF OlderAt, Fit
  <2>4. QED
    BY <1>1, <1>2, <1>3, <1>4, <2>1, <2>2, <2>3, QuietMove
<1>7. QED
  BY <1>5, <1>6

LEMMA WatchKeeps ==
    ASSUME DeepInvariant, Watch, Noted, calls' = calls
    PROVE  DeepInvariant'
<1>1. /\ Shared /\ Functions /\ pauses \in 0 .. MaxPauses /\ EventsFollow /\ Older
      /\ "event" \in Processes /\ pc["event"] = "watch"
      /\ Fit("event", pc["event"], snap["event"], next["event"], resumed["event"], purpose["event"])
      /\ resumed["event"] \in BOOLEAN /\ purpose["event"] \in Purposes
  BY InvariantParts, EventIsAProcess DEF Watch
<1>2. next["event"].pause.deadline \in 1 .. MaxTime
  BY <1>1, PauseParts DEF Fit, Storing, Publishing
<1>3. Shared' /\ alarm' # 0
  BY <1>1, <1>2, NotedType, DeepCaptureConstants DEF Watch, Shared, browserVars, memoryVars
<1>4. Moved("event", "enrich", snap["event"], next["event"], resumed["event"], purpose["event"])
  BY <1>1, MoveGoes DEF Watch
<1>5. Fit("event", "enrich", snap["event"], next["event"], resumed["event"], purpose["event"])
  BY <1>1 DEF Fit, Steps, Storing, FromRead, Publishing, Releasing
<1>6. OlderAt("event", "enrich", snap["event"], next["event"], resumed["event"])
  BY <1>1 DEF OlderAt, Fit
<1>7. ~Carer("event")
  BY <1>1 DEF Carer, Releasing
<1>8. page = "paused" => Unread \/ next["event"].pause.id = pauses
  BY <1>1 DEF EventsFollow, Publishing
<1>9. QED
  BY <1>1, <1>3, <1>4, <1>5, <1>6, <1>7, <1>8, QuietMove DEF Watch, browserVars, Ending

LEMMA EnrichKeeps ==
    ASSUME DeepInvariant, Enrich, Noted, calls' = calls
    PROVE  DeepInvariant'
<1>1. /\ Shared /\ Functions /\ stored \in Known(pauses) /\ pauses \in 0 .. MaxPauses /\ pauses \in Nat
      /\ EventsFollow /\ "event" \in Processes /\ pc["event"] = "enrich"
      /\ Fit("event", pc["event"], snap["event"], next["event"], resumed["event"], purpose["event"])
      /\ resumed["event"] \in BOOLEAN /\ purpose["event"] \in Purposes
  BY InvariantParts, EventIsAProcess DEF Enrich
<1>2. Shared'
  BY <1>1, NotedType DEF Enrich, Shared, browserVars, memoryVars
<1>3. ~Carer("event") /\ alive
      /\ UNCHANGED <<page, debugger, events, stored, pauses, alive, alarm, overwritten, unreported>>
  BY <1>1 DEF Carer, Releasing, Enrich, browserVars
<1>4. CASE Done("event")
  BY <1>1, <1>2, <1>3, <1>4, QuietEnd
<1>5. ASSUME NEW write, stored # NoStatus, stored.state = "paused", PauseOf(stored) = PauseOf(next["event"]),
             Read("event", "write-enriched"), next' = [next EXCEPT !["event"] = write],
             UNCHANGED <<resumed, purpose>>,
             write = [stored EXCEPT !.pause = next["event"].pause] \/ write = stored
      PROVE  DeepInvariant'
  <2>1. /\ next["event"] \in Known(pauses) /\ next["event"] # NoStatus /\ next["event"].pause.id # 0
        /\ stored.pause.id = next["event"].pause.id
    BY <1>1, <1>5 DEF Fit, Storing, Publishing, PauseOf
  <2>2. /\ next["event"].pause.id \in 1 .. pauses /\ next["event"].pause.deadline \in 1 .. MaxTime
        /\ next["event"].pause = [id |-> next["event"].pause.id, deadline |-> next["event"].pause.deadline]
    BY <1>1, <2>1, PauseParts
  <2>3. /\ write \in Known(pauses) /\ write # NoStatus /\ write.pause.id = stored.pause.id
        /\ write.page = stored.page /\ write.debugger = stored.debugger
    <3>1. CASE write = stored
      BY <1>1, <1>5, <3>1
    <3>2. CASE write = [stored EXCEPT !.pause = next["event"].pause]
      <4>1. Repaused(write, stored, next["event"].pause.id, next["event"].pause.deadline)
        BY <1>5, <2>2, <3>2 DEF Repaused
      <4>2. QED
        BY <1>1, <1>5, <2>1, <2>2, <4>1, PausedUntil
    <3>3. QED
      BY <1>5, <3>1, <3>2
  <2>4. Moved("event", "write-enriched", stored, write, resumed["event"], purpose["event"])
    BY <1>1, <1>5, MoveReads
  <2>5. Fit("event", "write-enriched", stored, write, resumed["event"], purpose["event"])
    BY <1>1, <1>5, <2>1, <2>3 DEF Fit, Steps, Storing, FromRead, Publishing, Releasing
  <2>6. OlderAt("event", "write-enriched", stored, write, resumed["event"])
    BY <1>1 DEF OlderAt, Fit
  <2>7. page = "paused" => Unread \/ write.pause.id = pauses
    BY <1>1, <2>1, <2>3 DEF EventsFollow, Publishing
  <2>8. Says(write) => Says(stored)
    BY <1>5, <2>3 DEF Says
  <2>9. "write-enriched" \notin Ending
    BY DEF Ending
  <2>10. QED
    BY <1>1, <1>2, <1>3, <2>4, <2>5, <2>6, <2>7, <2>8, <2>9, QuietMove
<1>6. QED
  BY <1>4, <1>5 DEF Enrich

LEMMA EnrichFailsKeeps ==
    ASSUME DeepInvariant, EnrichFails, Noted, calls' = calls
    PROVE  DeepInvariant'
<1>1. /\ Shared /\ Functions /\ pauses \in Nat /\ "event" \in Processes /\ pc["event"] = "enrich"
      /\ Fit("event", pc["event"], snap["event"], next["event"], resumed["event"], purpose["event"])
      /\ resumed["event"] \in BOOLEAN
  BY InvariantParts, EventIsAProcess DEF EnrichFails
<1>2. Shared'
  BY <1>1, SpendTypes, NotedType DEF EnrichFails, Shared, browserVars, memoryVars
<1>3. ~Carer("event") /\ alive
      /\ UNCHANGED <<page, debugger, events, stored, pauses, alive, alarm, overwritten, unreported>>
  BY <1>1 DEF Carer, Releasing, EnrichFails, browserVars
<1>4. next["event"] \in Known(pauses) /\ next["event"] # NoStatus /\ ~resumed["event"]
  BY <1>1 DEF Fit, Storing
<1>5. Moved("event", "resume", next["event"], next["event"], resumed["event"], "pause")
  BY <1>1, MoveReleases DEF EnrichFails, FailedPause
<1>6. Fit("event", "resume", next["event"], next["event"], resumed["event"], "pause") /\ "pause" \in Purposes
  BY <1>1, <1>4 DEF Fit, Steps, Storing, FromRead, Publishing, Releasing, Purposes
<1>7. OlderAt("event", "resume", next["event"], next["event"], resumed["event"])
  BY <1>4 DEF OlderAt
<1>8. "resume" \notin Ending /\ "resume" \notin Publishing
  BY DEF Ending, Publishing
<1>9. QED
  BY <1>1, <1>2, <1>3, <1>5, <1>6, <1>7, <1>8, QuietMove

LEMMA SettleFailsKeeps ==
    ASSUME DeepInvariant, SettleFails, Noted, calls' = calls
    PROVE  DeepInvariant'
<1>1. Shared /\ "event" \in Processes /\ pc["event"] = "settle"
  BY InvariantParts, EventIsAProcess DEF SettleFails
<1>2. Shared'
  BY <1>1, SpendTypes, NotedType DEF SettleFails, Shared, browserVars, memoryVars
<1>3. ~Carer("event") /\ alive /\ Done("event")
      /\ UNCHANGED <<page, debugger, events, stored, pauses, alive, alarm, overwritten, unreported>>
  BY <1>1 DEF Carer, Releasing, SettleFails, browserVars
<1>4. QED
  BY <1>1, <1>2, <1>3, QuietEnd

LEMMA SettleKeeps ==
    ASSUME DeepInvariant, Settle, Noted, calls' = calls
    PROVE  DeepInvariant'
<1>1. /\ Shared /\ Functions /\ stored \in Known(pauses) /\ pauses \in 0 .. MaxPauses
      /\ EventsFollow /\ "event" \in Processes /\ pc["event"] = "settle"
      /\ Fit("event", pc["event"], snap["event"], next["event"], resumed["event"], purpose["event"])
      /\ resumed["event"] \in BOOLEAN /\ purpose["event"] \in Purposes
  BY InvariantParts, EventIsAProcess DEF Settle
<1>2. Shared'
  BY <1>1, NotedType DEF Settle, Shared, browserVars, memoryVars
<1>3. ~Carer("event") /\ alive
      /\ UNCHANGED <<page, debugger, events, stored, pauses, alive, alarm, overwritten, unreported>>
  BY <1>1 DEF Carer, Releasing, Settle, browserVars
<1>4. CASE Done("event")
  BY <1>1, <1>2, <1>3, <1>4, QuietEnd
<1>5. ASSUME NEW write, stored # NoStatus, Read("event", "write-external"),
             next' = [next EXCEPT !["event"] = write], UNCHANGED <<resumed, purpose>>,
             write = [state |-> "captured", pause |-> NoPause, page |-> "running",
                      debugger |-> "still-attached"]
      PROVE  DeepInvariant'
  <2>1. 0 \in 0 .. MaxPauses /\ 0 \in 0 .. MaxTime
    BY DeepCaptureConstants
  <2>2. write \in Statuses /\ Sane(write, pauses)
    BY <1>1, <1>5, <2>1 DEF Statuses, NoPause, Sane
  <2>3. write \in Known(pauses) /\ write # NoStatus /\ write.debugger = "still-attached"
    BY <1>5, <2>2, ASound
  <2>4. Moved("event", "write-external", stored, write, resumed["event"], purpose["event"])
    BY <1>1, <1>5, MoveReads
  <2>5. Fit("event", "write-external", stored, write, resumed["event"], purpose["event"])
    BY <1>1, <1>5, <2>3 DEF Fit, Steps, Storing, FromRead, Publishing, Releasing
  <2>6. OlderAt("event", "write-external", stored, write, resumed["event"])
    BY <1>1 DEF OlderAt, Fit
  <2>7. page = "paused" => Unread
    BY <1>1 DEF EventsFollow, Ending
  <2>8. ~Says(write) /\ "write-external" \notin Publishing
    BY <2>3 DEF Says, Publishing
  <2>9. QED
    BY <1>1, <1>2, <1>3, <2>4, <2>5, <2>6, <2>7, <2>8, QuietMove
<1>6. QED
  BY <1>4, <1>5 DEF Settle

LEMMA DecideKeeps ==
    ASSUME DeepInvariant, Decide, Noted, calls' = calls
    PROVE  DeepInvariant'
<1> DEFINE p == "reconcile"
<1>1. /\ Shared /\ Functions /\ pauses \in 0 .. MaxPauses /\ pauses \in Nat
      /\ p \in Processes /\ pc[p] = "decide"
      /\ Fit(p, pc[p], snap[p], next[p], resumed[p], purpose[p])
      /\ resumed[p] \in BOOLEAN /\ purpose[p] \in Purposes
  BY InvariantParts, EventIsAProcess DEF Decide
<1>2. /\ snap[p] # NoStatus /\ snap[p] \in Known(pauses) /\ ~resumed[p] /\ next[p] \in Known(pauses)
      /\ snap[p].pause.deadline \in 0 .. MaxTime /\ now \in Nat
  BY <1>1, KnownParts, DeepCaptureConstants DEF Fit, FromRead, Shared
<1>3. ~Carer(p) /\ alive
      /\ UNCHANGED <<page, debugger, events, stored, pauses, alive, overwritten, unreported>>
  BY <1>1 DEF Carer, Releasing, Decide, browserVars
<1>4. Shared' /\ (alarm # 0 => alarm' # 0)
  <2>1. alarm' \in 0 .. MaxTime /\ (alarm # 0 => alarm' # 0)
    BY <1>1, <1>2, DeepCaptureConstants DEF Decide, Shared
  <2>2. QED
    BY <1>1, <2>1, NotedType DEF Decide, Shared, browserVars, memoryVars
<1>5. CASE Done(p)
  BY <1>1, <1>3, <1>4, <1>5, QuietEnd
<1>6. ASSUME Goto(p, "read"), UNCHANGED <<snap, next, resumed>>,
             NEW why \in {"detach", purpose[p]}, purpose' = [purpose EXCEPT ![p] = why]
      PROVE  DeepInvariant'
  <2>1. Moved(p, "read", snap[p], next[p], resumed[p], why)
    BY <1>1, <1>6, MoveSame DEF Goto, Moved
  <2>2. Fit(p, "read", snap[p], next[p], resumed[p], why) /\ why \in Purposes
    BY <1>1 DEF Fit, Steps, Storing, FromRead, Publishing, Releasing, Purposes
  <2>3. OlderAt(p, "read", snap[p], next[p], resumed[p])
    BY <1>2 DEF OlderAt
  <2>4. QED
    BY <1>1, <1>3, <1>4, <2>1, <2>2, <2>3, QuietMove
<1>7. QED
  <2>1. UNCHANGED localVars => purpose' = [purpose EXCEPT ![p] = purpose[p]] /\ UNCHANGED <<snap, next, resumed>>
    BY <1>1, MoveSame DEF localVars
  <2>2. QED
    BY <1>5, <1>6, <2>1 DEF Decide

LEMMA AlarmFiresKeeps ==
    ASSUME DeepInvariant, AlarmFires, Noted, calls' = calls
    PROVE  DeepInvariant'
<1> DEFINE p == "alarm"
<1>1. /\ Shared /\ Functions /\ stored \in Known(pauses) /\ pauses \in 0 .. MaxPauses /\ pauses \in Nat
      /\ p \in Processes /\ pc[p] = "idle" /\ DetachedIsGone /\ CaredFor /\ PageHeld
      /\ Fit(p, pc[p], snap[p], next[p], resumed[p], purpose[p])
      /\ resumed[p] \in BOOLEAN /\ purpose[p] \in Purposes
  BY InvariantParts, EventIsAProcess DEF AlarmFires
<1>2. /\ alive /\ ~Carer(p)
      /\ UNCHANGED <<page, debugger, events, stored, pauses, alive, overwritten, unreported>>
  BY <1>1 DEF AlarmFires, browserVars, Carer, Releasing
<1>3. \/ pc' = [pc EXCEPT ![p] = "read"] /\ alarm' = 0
      \/ pc' = pc /\ alarm' \in 1 .. MaxTime
      \/ pc' = pc /\ alarm' = 0 /\ (stored = NoStatus \/ stored.state # "paused" \/ stored.pause = NoPause)
  <2>1. CASE stored # NoStatus /\ stored.state = "paused" /\ stored.pause # NoPause
    <3>1. stored.pause.id # 0
      BY <1>1, <2>1, KnownParts DEF Sane
    <3>2. stored.pause.deadline \in 1 .. MaxTime
      BY <1>1, <2>1, <3>1, PauseParts
    <3>3. QED
      BY <2>1, <3>2 DEF AlarmFires, Goto
  <2>2. CASE ~(stored # NoStatus /\ stored.state = "paused" /\ stored.pause # NoPause)
    BY <2>2 DEF AlarmFires
  <2>3. QED
    BY <2>1, <2>2
<1>4. Shared'
  <2>1. alarm' \in 0 .. MaxTime
    BY <1>3, DeepCaptureConstants
  <2>2. QED
    BY <1>1, <2>1, NotedType DEF AlarmFires, Shared, browserVars, memoryVars
<1>5. Excused' = Excused /\ (Unread => Unread') /\ UNCHANGED localVars
  BY <1>2 DEF Excused, Unread, Latest, AlarmFires
<1>6. ASSUME NEW step \in {"idle", "read"}, pc' = [pc EXCEPT ![p] = step], CaredFor' PROVE DeepInvariant'
  <2>1. Moved(p, step, snap[p], next[p], resumed[p], purpose[p])
    BY <1>1, <1>5, <1>6, MoveGoes DEF Goto
  <2>2. Fit(p, step, snap[p], next[p], resumed[p], purpose[p])
    BY <1>1 DEF Fit, Steps, Storing, FromRead, Publishing, Releasing
  <2>3. OlderAt(p, step, snap[p], next[p], resumed[p])
    BY <1>1 DEF OlderAt, Fit
  <2>4. OthersKept(p) /\ next'[p] = next[p]
    BY <1>1, <1>2, <2>1, <2>2, MoveEffect DEF Became
  <2>5. DetachedIsGone'
    BY <1>1, <1>2, <1>5, <2>4, QuietGone
  <2>6. page = "paused" => debugger' = "extension"
    BY <1>1, <1>2 DEF PageHeld
  <2>7. QED
    BY <1>1, <1>2, <1>4, <1>6, <2>1, <2>2, <2>3, <2>5, <2>6, MoveKeeps
<1>7. /\ \A q \in Processes : q # p => UNCHANGED <<pc[q], snap[q], next[q]>>
      /\ pc'["event"] = pc["event"] /\ next'["event"] = next["event"] /\ PauseOf(stored') = PauseOf(stored)
  BY <1>1, <1>2, <1>3, <1>5, EventIsAProcess DEF Functions, localVars
<1>8. (\E q \in Processes : InCharge(q)) => (\E q \in Processes : InCharge(q))'
  BY <1>1, <1>2, <1>7 DEF InCharge, PauseOf, Releasing
<1>9. CASE pc' = [pc EXCEPT ![p] = "read"] /\ alarm' = 0
  <2>1. pc'[p] = "read"
    BY <1>1, <1>9 DEF Functions
  <2>2. Watched'
    BY <1>1, <2>1 DEF Watched, WillTell
  <2>3. CaredFor'
    BY <1>1, <1>2, <1>5, <1>7, <1>8, <2>2 DEF CaredFor, PauseOf
  <2>4. QED
    BY <1>6, <1>9, <2>3
<1>10. CASE pc' = pc /\ alarm' \in 1 .. MaxTime
  <2>1. Watched'
    BY <1>10, DeepCaptureConstants DEF Watched
  <2>2. CaredFor'
    BY <1>1, <1>2, <1>5, <1>7, <1>8, <2>1 DEF CaredFor, PauseOf
  <2>3. pc' = [pc EXCEPT ![p] = "idle"]
    BY <1>1, <1>10, MoveSame
  <2>4. QED
    BY <1>6, <2>2, <2>3
<1>11. CASE pc' = pc /\ alarm' = 0 /\ (stored = NoStatus \/ stored.state # "paused" \/ stored.pause = NoPause)
  <2>1. page = "paused" /\ PauseOf(stored) = pauses => stored.page = "possibly-paused"
    <3>1. stored.pause = NoPause => stored.pause.id = 0
      BY DEF NoPause
    <3>2. QED
      BY <1>1, <1>11, <3>1, KnownParts DEF Sane, PauseOf, PageHeld
  <2>2. page = "paused" /\ PauseOf(stored) = pauses => Watched'
    BY <1>2, <2>1 DEF Watched
  <2>3. CaredFor'
    BY <1>1, <1>2, <1>5, <1>7, <1>8, <2>2 DEF CaredFor, PauseOf
  <2>4. pc' = [pc EXCEPT ![p] = "idle"]
    BY <1>1, <1>11, MoveSame
  <2>5. QED
    BY <1>6, <2>3, <2>4
<1>12. QED
  BY <1>3, <1>9, <1>10, <1>11

LEMMA AlarmLostKeeps ==
    ASSUME DeepInvariant, AlarmLost, Noted, calls' = calls
    PROVE  DeepInvariant'
<1> DEFINE p == "event"
<1>1. /\ Shared /\ Functions /\ stored \in Known(pauses) /\ pauses \in Nat /\ p \in Processes
      /\ PageHeld /\ DetachedIsGone /\ EventsFollow /\ Older
      /\ Fit(p, pc[p], snap[p], next[p], resumed[p], purpose[p])
      /\ resumed[p] \in BOOLEAN /\ purpose[p] \in Purposes
  BY InvariantParts, EventIsAProcess
<1>2. /\ alive /\ UNCHANGED <<now, page, debugger, events, stored, pauses, alive, overwritten>>
      /\ UNCHANGED <<broken, intentional, resuming>> /\ UNCHANGED <<pc, localVars>> /\ alarm' = 0
      /\ unreported' = (unreported \/ page = "paused") /\ Spend
  BY DEF AlarmLost, PageForgotten, browserVars, memoryVars
<1>3. Shared'
  <2>1. unreported' \in BOOLEAN
    BY <1>2
  <2>2. alarm' \in 0 .. MaxTime /\ spent' \in 0 .. MaxFaults
    BY <1>1, <1>2, SpendTypes, DeepCaptureConstants
  <2>3. QED
    BY <1>1, <1>2, <2>1, <2>2, NotedType DEF Shared
<1>4. Moved(p, pc[p], snap[p], next[p], resumed[p], purpose[p])
  BY <1>1, <1>2, MoveStays
<1>5. next' = next /\ pc' = pc /\ (Excused => Excused')
  BY <1>2 DEF localVars, Excused
<1>6. DetachedIsGone'
  <2>1. Gone' = Gone /\ (ExpelledIsGone => ExpelledIsGone') /\ (raced => raced')
    BY <1>2 DEF Gone, ExpelledIsGone, Noted
  <2>2. (NextIsTrue => NextIsTrue') /\ (StoredIsTrue => StoredIsTrue')
    BY <1>2, <1>5, <2>1 DEF NextIsTrue, StoredIsTrue, Says, Attaching
  <2>3. QED
    BY <1>1, <1>5, <2>1, <2>2 DEF DetachedIsGone
<1>7. CaredFor'
  <2>1. CASE page = "paused"
    BY <1>2, <2>1, ExcusedIsEnough DEF Excused
  <2>2. CASE page # "paused"
    BY <1>2, <2>2 DEF CaredFor
  <2>3. QED
    BY <2>1, <2>2
<1>8. page = "paused" =>
        /\ debugger' = "extension" /\ OlderAt(p, pc[p], snap[p], next[p], resumed[p])
        /\ pc[p] \in Ending => Unread
        /\ pc[p] \in Publishing => Unread \/ next[p].pause.id = pauses
  BY <1>1, <1>2 DEF PageHeld, Older, EventsFollow
<1>9. QED
  BY <1>1, <1>2, <1>3, <1>4, <1>6, <1>7, <1>8, MoveKeeps

LEMMA ReadsFailKeeps ==
    ASSUME DeepInvariant, NEW p \in Processes, alive, pc[p] = "read", Done(p), PageForgotten,
           UNCHANGED <<browserVars, events, stored, alarm, alive, memoryVars, overwritten, pauses>>,
           Noted, calls' = calls
    PROVE  DeepInvariant'
<1>1. Shared /\ Fit(p, pc[p], snap[p], next[p], resumed[p], purpose[p])
  BY InvariantParts
<1>2. p # "start"
  BY <1>1 DEF Fit, Steps, Releasing
<1>3. unreported' \in BOOLEAN /\ spent' \in 0 .. MaxFaults
  BY <1>1, SpendTypes DEF PageForgotten
<1>4. Shared'
  BY <1>1, <1>3, NotedType DEF Shared, browserVars, memoryVars
<1>5. QED
  BY <1>2, <1>4, ForgetKeeps DEF PageForgotten, browserVars

LEMMA ReadsKeeps ==
    ASSUME DeepInvariant, NEW p \in Processes, Reads(p), Noted, calls' = calls,
           ReadForRelease(p, purpose[p]), UNCHANGED <<unreported, spent>>
    PROVE  DeepInvariant'
<1>1. /\ Shared /\ Functions /\ stored \in Known(pauses) /\ pauses \in 0 .. MaxPauses /\ pauses \in Nat
      /\ pc[p] = "read" /\ DetachedIsGone /\ CaredFor /\ PageHeld
      /\ Fit(p, pc[p], snap[p], next[p], resumed[p], purpose[p])
      /\ resumed[p] \in BOOLEAN /\ purpose[p] \in Purposes
  BY InvariantParts DEF Reads
<1>2. /\ alive /\ UNCHANGED <<page, debugger, events, stored, pauses, alive, alarm, overwritten, unreported>>
  BY DEF Reads, browserVars
<1>3. Shared'
  BY <1>1, NotedType DEF Reads, Shared, browserVars, memoryVars
<1>4. Excused' = Excused /\ (Unread => Unread') /\ p # "start" /\ ~resumed[p]
  BY <1>1, <1>2 DEF Excused, Unread, Latest, Fit, Steps, Releasing
<1>5. PICK step, status, write, why :
        /\ why \in Purposes
        /\ Moved(p, step, status, write, FALSE, why) /\ Fit(p, step, status, write, FALSE, why)
        /\ write \in {NoStatus, next[p]} /\ step \in {"idle", "resume"}
        /\ stored # NoStatus => step = "resume" /\ status = stored
  <2>1. CASE stored = NoStatus
    <3>1. Moved(p, "idle", NoStatus, NoStatus, FALSE, "resume")
      BY <2>1, MoveDone DEF Reads, ReadForRelease
    <3>2. QED
      BY <2>1, <3>1, EndFits
  <2>2. CASE stored # NoStatus
    <3>1. Moved(p, "resume", stored, next[p], FALSE, purpose[p])
      BY <1>1, <1>4, <2>2, MoveReleases DEF Reads, ReadForRelease
    <3>2. Fit(p, "resume", stored, next[p], FALSE, purpose[p])
      BY <1>1, <1>4, <2>2 DEF Fit, Steps, Storing, FromRead, Publishing, Releasing
    <3>3. QED
      BY <1>1, <2>2, <3>1, <3>2
  <2>3. QED
    BY <2>1, <2>2
<1>6. /\ OthersKept(p) /\ next'[p] = write
      /\ stored # NoStatus => pc'[p] = "resume" /\ snap'[p] = stored
  BY <1>1, <1>2, <1>5, MoveEffect DEF Became
<1>7. OlderAt(p, step, status, write, FALSE)
  BY <1>4, <1>5 DEF OlderAt
<1>8. DetachedIsGone'
  <2>1. Says(next'[p]) => Says(next[p])
    BY <1>5, <1>6 DEF Says
  <2>2. QED
    BY <1>1, <1>2, <1>4, <1>6, <2>1, QuietGone
<1>9. CaredFor'
  <2>1. SUFFICES ASSUME page = "paused", ~Excused, ~Unread
                 PROVE  \/ pc'["event"] = "orphan"
                        \/ pc'["event"] = "write-pause" /\ PauseOf(next'["event"]) = pauses
                        \/ \E q \in Processes : InCharge(q)'
    BY <1>2, <1>4 DEF CaredFor, PauseOf
  <2>2. pc["event"] \in {"orphan", "write-pause"} => pc'["event"] = pc["event"] /\ next'["event"] = next["event"]
    BY <1>1, <1>6, EventIsAProcess DEF OthersKept
  <2>3. \A q \in Processes : InCharge(q) => InCharge(q)'
    BY <1>1, <1>2, <1>6 DEF InCharge, OthersKept, PauseOf, Releasing
  <2>4. PauseOf(stored) = pauses => InCharge(p)'
    BY <1>1, <1>2, <1>6, <2>1 DEF InCharge, PauseOf, Releasing, PageHeld
  <2>5. QED
    BY <1>1, <2>1, <2>2, <2>3, <2>4 DEF CaredFor
<1>10. QED
  <2>1. page = "paused" => debugger' = "extension"
    BY <1>1, <1>2 DEF PageHeld
  <2>2. step \notin Ending /\ step \notin Publishing
    BY <1>5 DEF Ending, Publishing
  <2>3. Moved(p, step, status, write, FALSE, why) /\ Fit(p, step, status, write, FALSE, why)
    BY <1>5
  <2>4. why \in Purposes
    BY <1>5
  <2>5. (unreported => unreported') /\ alive' /\ stored' = stored
    BY <1>2
  <2>6. UNCHANGED <<page, events, pauses>>
    BY <1>2
  <2>7. QED
    BY <1>3, <1>7, <1>8, <1>9, <2>1, <2>2, <2>3, <2>4, <2>5, <2>6, MoveKeeps

LEMMA ArmKeeps ==
    ASSUME DeepInvariant, Arm, Noted, "start" \in Calls, calls' = calls
    PROVE  DeepInvariant'
<1> DEFINE p == "start"
<1>1. /\ Shared /\ Functions /\ stored \in Known(pauses) /\ pauses \in 0 .. MaxPauses /\ pauses \in Nat
      /\ p \in Processes /\ pc[p] = "arm" /\ CaredFor /\ PageHeld /\ Older
      /\ Fit(p, pc[p], snap[p], next[p], resumed[p], purpose[p])
      /\ \A q \in Processes : Fit(q, pc[q], snap[q], next[q], resumed[q], purpose[q])
      /\ resumed[p] \in BOOLEAN /\ purpose[p] \in Purposes
  BY InvariantParts DEF Processes, Arm
<1>2. /\ alive /\ ~Carer(p) /\ next[p] = NoStatus /\ ~resumed[p] /\ snap[p] \in Known(pauses)
      /\ UNCHANGED <<page, events, stored, pauses, alive, alarm, overwritten, unreported>>
  BY <1>1 DEF Arm, browserVars, Carer, Releasing, Fit
<1>3. Shared'
  <2>1. debugger' \in {"nobody", "extension", "other"}
    BY <1>1 DEF Arm, Shared
  <2>2. QED
    BY <1>1, <2>1, NotedType, SpendTypes DEF Arm, Shared, memoryVars
<1>4. CASE ~Reuses /\ debugger # "nobody"
  <2>1. Done(p) /\ UNCHANGED debugger
    BY <1>4 DEF Arm
  <2>2. QED
    BY <1>1, <1>2, <1>3, <2>1, QuietEnd DEF Releasing
<1>5. CASE Reuses \/ debugger = "nobody"
  <2>1. ASSUME NEW step \in {"write-armed", "resume"}, NEW status, NEW write, NEW why \in Purposes,
               Moved(p, step, status, write, FALSE, why), Fit(p, step, status, write, FALSE, why),
               ~Says(write), page = "paused" => PauseOf(status) < pauses, page = "paused" => debugger' = "extension"
        PROVE  DeepInvariant'
    <3>1. OthersKept(p) /\ pc'[p] = step /\ next'[p] = write
      BY <1>1, <1>2, <2>1, MoveEffect DEF Became
    <3>2. DetachedIsGone'
      <4>1. SUFFICES ASSUME ~raced' PROVE ExpelledIsGone' /\ NextIsTrue' /\ StoredIsTrue'
        BY DEF DetachedIsGone
      <4>2. Starting' /\ ~Racing'
        BY <3>1, <4>1, StartsAloneFollows DEF StartsAlone, Starting
      <4>3. events' = <<>> /\ \A q \in Processes : q # p => pc'[q] = "idle"
        BY <4>2 DEF Racing
      <4>4. ExpelledIsGone'
        BY <4>3 DEF ExpelledIsGone
      <4>5. \A q \in Processes : q # p => next'[q] = NoStatus
        BY <1>1, <3>1, <4>3 DEF OthersKept, Fit
      <4>6. NextIsTrue'
        BY <2>1, <3>1, <4>5 DEF NextIsTrue, Says
      <4>7. StoredIsTrue'
        BY <2>1, <3>1 DEF StoredIsTrue, Attaching
      <4>8. QED
        BY <4>4, <4>6, <4>7
    <3>3. CaredFor'
      <4>1. Excused' = Excused /\ (Unread => Unread')
        BY <1>2 DEF Excused, Unread, Latest
      <4>2. QED
        BY <1>1, <1>2, <3>1, <4>1, CaredForFollows
    <3>4. page = "paused" => OlderAt(p, step, status, write, FALSE)
      BY <2>1 DEF OlderAt
    <3>5. QED
      BY <1>1, <1>2, <1>3, <2>1, <3>2, <3>3, <3>4, MoveKeeps
  <2>2. CASE /\ debugger' = "extension" /\ page = "running" /\ Goto(p, "write-armed")
             /\ next' = [next EXCEPT ![p] = [Fresh EXCEPT !.state = "armed"]]
             /\ UNCHANGED <<snap, resumed, purpose>>
    <3>1. PICK write : write = [Fresh EXCEPT !.state = "armed"]
      OBVIOUS
    <3>2. write \in Known(pauses) /\ write # NoStatus /\ ~Says(write)
      BY <1>1, <3>1, FreshKnown
    <3>3. Moved(p, "write-armed", snap[p], write, FALSE, purpose[p])
      <4>1. [resumed EXCEPT ![p] = FALSE] = resumed
        BY <1>1, <1>2, MoveSame
      <4>2. QED
        BY <1>1, <2>2, <3>1, <4>1, MoveSame DEF Goto, Moved
    <3>4. Fit(p, "write-armed", snap[p], write, FALSE, purpose[p])
      BY <1>1, <3>2 DEF Fit, Steps, Storing, FromRead, Publishing, Releasing, Says
    <3>5. QED
      BY <1>1, <2>1, <2>2, <3>2, <3>3, <3>4
  <2>3. CASE Release(p, "arm", FailedBase)
    <3>1. PICK status : status = FailedBase
      OBVIOUS
    <3>2. status \in Known(pauses) /\ status # NoStatus
      BY <1>1, <1>2, <3>1, FreshKnown DEF FailedBase
    <3>3. page = "paused" => PauseOf(status) < pauses
      <4>1. SUFFICES ASSUME page = "paused" PROVE PauseOf(status) = 0
        BY <1>1 DEF PageHeld
      <4>2. snap[p] # NoStatus /\ snap[p].state \in {"attached", "armed"}
        BY <1>1, <1>5, <4>1 DEF PageHeld, Reuses
      <4>3. QED
        BY <1>1, <1>2, <3>1, <4>2, KnownParts DEF FailedBase, Sane
    <3>4. Moved(p, "resume", status, NoStatus, FALSE, "arm")
      <4>1. [resumed EXCEPT ![p] = FALSE] = resumed
        BY <1>1, <1>2, MoveSame
      <4>2. [next EXCEPT ![p] = NoStatus] = next
        BY <1>1, <1>2, MoveSame
      <4>3. QED
        BY <1>1, <2>3, <3>1, <4>1, <4>2 DEF Release, Goto, Moved
    <3>5. Fit(p, "resume", status, NoStatus, FALSE, "arm") /\ "arm" \in Purposes
      BY <3>2 DEF Fit, Steps, Storing, FromRead, Publishing, Releasing, Known, Purposes
    <3>6. ~Says(NoStatus) /\ (page = "paused" => debugger' = "extension")
      BY <1>1, <1>5 DEF Says, Arm, PageHeld, Reuses
    <3>7. QED
      BY <2>1, <3>3, <3>4, <3>5, <3>6
  <2>4. QED
    BY <1>5, <2>2, <2>3 DEF Arm
<1>6. QED
  BY <1>4, <1>5

-----------------------------------------------------------------------------
(* The steps that write the status *)

\* What a write leaves watched.
LEMMA StillWatched ==
    ASSUME Watched, NEW p \in Processes, OthersKept(p), alarm' = alarm,
           pc[p] \notin {"read", "disarm", "detach", "write", "watch"},
           stored.page = "possibly-paused" => stored'.page = "possibly-paused"
    PROVE  Watched'
<1>1. \A q \in Processes : WillTell(q) => WillTell(q)'
  BY DEF WillTell, OthersKept
<1>2. pc["event"] = "watch" => pc'["event"] = "watch"
  BY EventIsAProcess DEF OthersKept
<1>3. QED
  BY <1>1, <1>2 DEF Watched

\* A write over the status that was read, which keeps the stop and what it is known
\* of the page.
LEMMA WriteCares ==
    ASSUME CaredFor, NEW p \in Processes, OthersKept(p), ~Carer(p), pc[p] # "watch",
           UNCHANGED <<page, events, pauses, alarm>>, Excused => Excused',
           (page = "paused" /\ ~Excused' /\ PauseOf(stored) = pauses) =>
                /\ PauseOf(stored') = pauses
                /\ stored.page = "possibly-paused" => stored'.page = "possibly-paused"
    PROVE  CaredFor'
<1>1. SUFFICES ASSUME page = "paused", ~Excused', ~Unread
               PROVE  \/ pc'["event"] = "orphan"
                      \/ pc'["event"] = "write-pause" /\ PauseOf(next'["event"]) = pauses
                      \/ \E q \in Processes : InCharge(q)'
                      \/ PauseOf(stored') = pauses /\ Watched'
  BY DEF CaredFor, PauseOf, Unread, Latest
<1>2. pc["event"] \in {"orphan", "write-pause"} => pc'["event"] = pc["event"] /\ next'["event"] = next["event"]
  BY EventIsAProcess DEF Carer, OthersKept
<1>3. \A q \in Processes : InCharge(q) => InCharge(q)'
  BY DEF InCharge, OthersKept, PauseOf, Carer
<1>4. PauseOf(stored) = pauses /\ Watched => PauseOf(stored') = pauses /\ Watched'
  <2>1. ASSUME PauseOf(stored) = pauses, Watched PROVE PauseOf(stored') = pauses /\ Watched'
    <3>1. /\ PauseOf(stored') = pauses
          /\ stored.page = "possibly-paused" => stored'.page = "possibly-paused"
      BY <1>1, <2>1
    <3>2. pc[p] \notin {"read", "disarm", "detach", "write", "watch"}
      BY DEF Carer, Releasing
    <3>3. QED
      BY <2>1, <3>1, <3>2, StillWatched
  <2>2. QED
    BY <2>1
<1>5. QED
  BY <1>1, <1>2, <1>3, <1>4 DEF CaredFor

LEMMA WriteGone ==
    ASSUME DetachedIsGone, Noted, NEW p \in Processes, OthersKept(p),
           UNCHANGED <<debugger, events>>, Excused => Excused', stored' \in {stored, next[p]},
           Says(next'[p]) => Says(next[p]),
           Attaching /\ ~Attaching' => raced' \/ Excused' \/ Gone' \/ ~Says(stored')
    PROVE  DetachedIsGone'
<1>1. Gone' = Gone /\ (ExpelledIsGone => ExpelledIsGone')
  BY DEF Gone, ExpelledIsGone
<1>2. QED
  BY <1>1, GoneFollows

\* The types of what a write changes.
LEMMA WriteTypes ==
    ASSUME Shared, Noted, calls' = calls,
           UNCHANGED <<browserVars, events, alarm, alive, intentional, resuming, pauses>>,
           unreported' \in BOOLEAN, NEW p, NEW read, Stores(p, read) \/ Rejected
    PROVE  Shared' /\ (overwritten => overwritten')
<1>1. spent' \in 0 .. MaxFaults
  BY SpendTypes DEF Stores, Rejected
<1>2. overwritten' \in BOOLEAN /\ broken' \in BOOLEAN /\ (overwritten => overwritten')
  BY DEF Shared, Stores, Rejected
<1>3. QED
  BY <1>1, <1>2, NotedType DEF Shared, browserVars

LEMMA WriteArmedKeeps ==
    ASSUME DeepInvariant, WriteArmed, Noted, "start" \in Calls, calls' = calls
    PROVE  DeepInvariant'
<1> DEFINE p == "start"
<1>1. /\ Shared /\ Functions /\ stored \in Known(pauses) /\ pauses \in 0 .. MaxPauses /\ pauses \in Nat
      /\ p \in Processes /\ pc[p] = "write-armed" /\ CaredFor /\ PageHeld /\ Older /\ DetachedIsGone
      /\ Fit(p, pc[p], snap[p], next[p], resumed[p], purpose[p])
      /\ resumed[p] \in BOOLEAN /\ purpose[p] \in Purposes
  BY InvariantParts DEF Processes, WriteArmed
<1>2. /\ alive /\ ~Carer(p) /\ ~resumed[p] /\ snap[p] \in Known(pauses)
      /\ UNCHANGED <<page, debugger, events, pauses, alive, alarm, unreported>>
      /\ next[p] \in Known(pauses) /\ next[p] # NoStatus /\ ~Says(next[p])
  BY <1>1 DEF WriteArmed, browserVars, Carer, Releasing, Fit, Storing, Says
<1>3. Shared' /\ (overwritten => overwritten')
  <2>1. unreported' \in BOOLEAN
    BY <1>1, <1>2 DEF Shared
  <2>2. Stores(p, snap[p]) \/ Rejected
    BY DEF WriteArmed
  <2>3. QED
    BY <1>1, <2>1, <2>2, WriteTypes DEF WriteArmed
<1>4. Excused => Excused'
  BY <1>2, <1>3 DEF Excused
<1>5. page = "paused" => debugger' = "extension" /\ PauseOf(snap[p]) < pauses
  BY <1>1, <1>2 DEF PageHeld, Older, OlderAt
<1>6. CASE Stores(p, snap[p]) /\ Goto(p, "observe") /\ next' = [next EXCEPT ![p] = NoStatus]
             /\ UNCHANGED <<snap, resumed, purpose>>
  <2>1. Moved(p, "observe", snap[p], NoStatus, resumed[p], purpose[p])
    BY <1>1, <1>6, MoveSame DEF Goto, Moved
  <2>2. Fit(p, "observe", snap[p], NoStatus, resumed[p], purpose[p])
    BY <1>1 DEF Fit, Steps, Storing, FromRead, Publishing, Releasing, Known
  <2>3. OthersKept(p) /\ pc'[p] = "observe" /\ next'[p] = NoStatus
    BY <1>1, <1>2, <2>1, <2>2, MoveEffect DEF Became
  <2>4. stored' = next[p] /\ (stored # snap[p] => Excused')
    BY <1>6 DEF Stores, Excused
  <2>5. DetachedIsGone'
    BY <1>1, <1>2, <1>4, <2>3, <2>4, WriteGone DEF Says
  <2>6. CaredFor'
    BY <1>1, <1>2, <1>4, <1>5, <2>3, <2>4, WriteCares
  <2>7. page = "paused" => OlderAt(p, "observe", snap[p], NoStatus, resumed[p])
    BY <1>2, <1>5 DEF OlderAt
  <2>8. QED
    BY <1>1, <1>2, <1>3, <1>5, <2>1, <2>2, <2>4, <2>5, <2>6, <2>7, MoveKeeps
<1>7. CASE Rejected /\ Release(p, "arm", FailedBase)
  <2>1. PICK status : status = FailedBase
    OBVIOUS
  <2>2. status \in Known(pauses) /\ status # NoStatus /\ (page = "paused" => PauseOf(status) < pauses)
    BY <1>1, <1>2, <1>5, <2>1, FreshKnown DEF FailedBase, PageHeld
  <2>3. Moved(p, "resume", status, next[p], resumed[p], "arm")
    BY <1>1, <1>7, <2>1, MoveReleases
  <2>4. Fit(p, "resume", status, next[p], resumed[p], "arm") /\ "arm" \in Purposes
    BY <1>1, <2>2 DEF Fit, Steps, Storing, FromRead, Publishing, Releasing, Purposes
  <2>5. OthersKept(p) /\ pc'[p] = "resume" /\ next'[p] = next[p] /\ Attaching'
    BY <1>1, <1>2, <2>3, <2>4, MoveEffect DEF Became, Attaching
  <2>6. stored' = stored
    BY <1>7 DEF Rejected
  <2>7. DetachedIsGone'
    BY <1>1, <1>2, <1>4, <2>5, <2>6, WriteGone
  <2>8. CaredFor'
    BY <1>1, <1>2, <1>4, <2>5, <2>6, WriteCares
  <2>9. page = "paused" => OlderAt(p, "resume", status, next[p], resumed[p])
    BY <1>2, <2>2 DEF OlderAt
  <2>10. QED
    BY <1>1, <1>2, <1>3, <1>5, <2>3, <2>4, <2>6, <2>7, <2>8, <2>9, MoveKeeps
<1>8. QED
  BY <1>6, <1>7 DEF WriteArmed

LEMMA RewriteKeeps ==
    ASSUME DeepInvariant, NEW p \in Processes, p \in {"start", "event", "reconcile"}, Rewrite(p), Noted,
           calls' = calls
    PROVE  DeepInvariant'
<1>1. /\ Shared /\ Functions /\ stored \in Known(pauses) /\ pauses \in 0 .. MaxPauses /\ pauses \in Nat
      /\ pc[p] = "rewrite" /\ CaredFor /\ PageHeld /\ Older /\ DetachedIsGone
      /\ Fit(p, pc[p], snap[p], next[p], resumed[p], purpose[p])
      /\ resumed[p] \in BOOLEAN /\ purpose[p] \in Purposes
  BY InvariantParts DEF Rewrite
<1>2. /\ alive /\ ~Carer(p) /\ ~resumed[p] /\ snap[p] \in Known(pauses) /\ pc[p] # "watch"
      /\ UNCHANGED <<page, debugger, events, pauses, alive, alarm, unreported>>
      /\ next[p] \in Known(pauses) /\ next[p] # NoStatus /\ pc[p] \notin Releasing \cup {"write-armed"}
  BY <1>1 DEF Rewrite, browserVars, Carer, Releasing, Fit, Storing
<1>3. Shared' /\ (overwritten => overwritten')
  <2>1. unreported' \in BOOLEAN
    BY <1>1, <1>2 DEF Shared
  <2>2. Stores(p, next[p]) \/ Rejected
    BY DEF Rewrite
  <2>3. QED
    BY <1>1, <2>1, <2>2, WriteTypes DEF Rewrite
<1>4. Excused => Excused'
  BY <1>2, <1>3 DEF Excused
<1>5. page = "paused" => debugger' = "extension" /\ (p = "start" => PauseOf(snap[p]) < pauses)
  BY <1>1, <1>2 DEF PageHeld, Older, OlderAt
<1>6. ~Attaching \/ p # "start"
  BY <1>1 DEF Attaching
<1>7. CASE Stores(p, next[p])
  <2>1. stored' = next[p] /\ (stored # next[p] => Excused')
    BY <1>7 DEF Stores, Excused
  <2>2. PICK step, status, write, ran, why :
          /\ Moved(p, step, status, write, ran, why) /\ Fit(p, step, status, write, ran, why)
          /\ ran \in BOOLEAN /\ why \in Purposes /\ ~ran /\ write \in {NoStatus, next[p]}
          /\ step = "idle" \/ (p = "reconcile" /\ step = "decide")
    <3>0. IF p = "reconcile"
          THEN Goto(p, "decide") /\ snap' = [snap EXCEPT ![p] = next[p]]
                  /\ UNCHANGED <<next, resumed, purpose>>
          ELSE Done(p)
      <4>1. broken' # TRUE
        BY <1>7 DEF Stores
      <4>2. QED
        BY <4>1 DEF Rewrite, Rejected
    <3>1. CASE p = "reconcile"
      <4>1. Moved(p, "decide", next[p], next[p], resumed[p], purpose[p])
        BY <1>1, <3>0, <3>1, MoveSame DEF Goto, Moved
      <4>2. Fit(p, "decide", next[p], next[p], resumed[p], purpose[p])
        BY <1>1, <1>2, <3>1 DEF Fit, Steps, Storing, FromRead, Publishing, Releasing
      <4>3. QED
        BY <1>1, <1>2, <3>1, <4>1, <4>2
    <3>2. CASE Done(p)
      BY <3>2, EndFits, MoveDone
    <3>3. QED
      BY <3>0, <3>1, <3>2
  <2>3. OthersKept(p) /\ pc'[p] = step /\ next'[p] = write
    BY <1>1, <1>2, <2>2, MoveEffect DEF Became
  <2>4. DetachedIsGone'
    <3>1. Says(next'[p]) => Says(next[p])
      BY <2>2, <2>3 DEF Says
    <3>2. Attaching => Attaching'
      BY <1>6, <2>3 DEF Attaching, OthersKept, Processes
    <3>3. QED
      BY <1>1, <1>2, <1>4, <2>1, <2>3, <3>1, <3>2, WriteGone
  <2>5. CaredFor'
    BY <1>1, <1>2, <1>4, <2>1, <2>3, WriteCares
  <2>6. page = "paused" => OlderAt(p, step, status, write, ran)
    BY <2>2 DEF OlderAt
  <2>7. step \notin Ending /\ step \notin Publishing
    BY <2>2 DEF Ending, Publishing
  <2>8. stored' \in Known(pauses) /\ stored' # NoStatus
    BY <1>2, <2>1
  <2>9. page = "paused" => debugger' = "extension"
    BY <1>5
  <2>10. QED
    BY <1>2, <1>3, <2>2, <2>4, <2>5, <2>6, <2>7, <2>8, <2>9, MoveKeeps
<1>8. CASE Rejected
  <2>1. UNCHANGED <<stored, overwritten>>
    BY <1>8 DEF Rejected
  <2>2. CASE Done(p)
    BY <1>1, <1>2, <1>3, <2>1, <2>2, QuietEnd
  <2>3. CASE p = "start" /\ Release(p, "arm", FailedBase)
    <3>1. PICK status : status = FailedBase
      OBVIOUS
    <3>2. status \in Known(pauses) /\ status # NoStatus /\ (page = "paused" => PauseOf(status) < pauses)
      BY <1>1, <1>2, <1>5, <2>3, <3>1, FreshKnown DEF FailedBase, PageHeld
    <3>3. Moved(p, "resume", status, next[p], resumed[p], "arm")
      BY <1>1, <2>3, <3>1, MoveReleases
    <3>4. Fit(p, "resume", status, next[p], resumed[p], "arm") /\ "arm" \in Purposes
      BY <1>1, <2>3, <3>2 DEF Fit, Steps, Storing, FromRead, Publishing, Releasing, Purposes
    <3>5. page = "paused" => OlderAt(p, "resume", status, next[p], resumed[p])
      BY <1>2, <3>2 DEF OlderAt
    <3>6. QED
      BY <1>1, <1>2, <1>3, <2>1, <2>3, <3>3, <3>4, <3>5, QuietMove
  <2>4. QED
    BY <1>2, <1>8, <2>2, <2>3 DEF Rewrite, Stores, Rejected
<1>9. QED
  BY <1>7, <1>8 DEF Rewrite

LEMMA WriteKeptKeeps ==
    ASSUME DeepInvariant, WriteKept, Noted, "keep" \in Calls, calls' = calls
    PROVE  DeepInvariant'
<1> DEFINE p == "keep"
<1>1. /\ Shared /\ Functions /\ stored \in Known(pauses) /\ pauses \in 0 .. MaxPauses /\ pauses \in Nat
      /\ p \in Processes /\ pc[p] = "write-kept" /\ CaredFor /\ PageHeld /\ DetachedIsGone
      /\ Fit(p, pc[p], snap[p], next[p], resumed[p], purpose[p])
      /\ resumed[p] \in BOOLEAN /\ purpose[p] \in Purposes
  BY InvariantParts DEF Processes, WriteKept
<1>2. /\ alive /\ ~Carer(p) /\ ~resumed[p]
      /\ UNCHANGED <<page, debugger, events, pauses, alive, alarm, unreported>>
      /\ next[p] \in Known(pauses) /\ next[p] # NoStatus /\ snap[p] # NoStatus
      /\ snap[p].pause.id = next[p].pause.id /\ snap[p].page = next[p].page
  BY <1>1 DEF WriteKept, browserVars, Carer, Releasing, Fit, Storing, FromRead
<1>3. Shared' /\ (overwritten => overwritten')
  <2>1. unreported' \in BOOLEAN
    BY <1>1, <1>2 DEF Shared
  <2>2. Stores(p, snap[p]) \/ Rejected
    BY DEF WriteKept
  <2>3. QED
    BY <1>1, <2>1, <2>2, WriteTypes DEF WriteKept
<1>4. Excused => Excused'
  BY <1>2, <1>3 DEF Excused
<1>5. page = "paused" => debugger' = "extension"
  BY <1>1, <1>2 DEF PageHeld
<1>6. CASE Stores(p, snap[p]) /\ Goto(p, "watch-kept") /\ UNCHANGED localVars
  <2>1. stored' = next[p] /\ (stored # snap[p] => Excused')
    BY <1>6 DEF Stores, Excused
  <2>2. Moved(p, "watch-kept", snap[p], next[p], resumed[p], purpose[p])
    BY <1>1, <1>6, MoveGoes
  <2>3. Fit(p, "watch-kept", snap[p], next[p], resumed[p], purpose[p])
    BY <1>1 DEF Fit, Steps, Storing, FromRead, Publishing, Releasing
  <2>4. OthersKept(p) /\ next'[p] = next[p]
    BY <1>1, <1>2, <2>2, <2>3, MoveEffect DEF Became
  <2>5. DetachedIsGone'
    <3>1. Attaching => Attaching'
      BY <2>4 DEF Attaching, OthersKept, Processes
    <3>2. QED
      BY <1>1, <1>2, <1>4, <2>1, <2>4, <3>1, WriteGone
  <2>6. CaredFor'
    BY <1>1, <1>2, <1>4, <2>1, <2>4, WriteCares DEF PauseOf
  <2>7. OlderAt(p, "watch-kept", snap[p], next[p], resumed[p])
    BY <1>2 DEF OlderAt
  <2>8. QED
    BY <1>1, <1>2, <1>3, <1>5, <2>1, <2>2, <2>3, <2>5, <2>6, <2>7, MoveKeeps
<1>7. CASE Rejected /\ Done(p)
  <2>1. UNCHANGED <<stored, overwritten>>
    BY <1>7 DEF Rejected
  <2>2. QED
    BY <1>1, <1>2, <1>3, <1>7, <2>1, QuietEnd
<1>8. QED
  BY <1>6, <1>7 DEF WriteKept

LEMMA WriteEnrichedKeeps ==
    ASSUME DeepInvariant, WriteEnriched, Noted, calls' = calls
    PROVE  DeepInvariant'
<1> DEFINE p == "event"
<1>1. /\ Shared /\ Functions /\ stored \in Known(pauses) /\ pauses \in 0 .. MaxPauses /\ pauses \in Nat
      /\ p \in Processes /\ pc[p] = "write-enriched" /\ CaredFor /\ PageHeld /\ DetachedIsGone
      /\ Fit(p, pc[p], snap[p], next[p], resumed[p], purpose[p])
      /\ resumed[p] \in BOOLEAN /\ purpose[p] \in Purposes
  BY InvariantParts, EventIsAProcess DEF WriteEnriched
<1>2. /\ alive /\ ~Carer(p) /\ ~resumed[p] /\ pc[p] # "watch"
      /\ UNCHANGED <<page, debugger, events, pauses, alive, alarm, unreported>>
      /\ next[p] \in Known(pauses) /\ next[p] # NoStatus /\ snap[p] # NoStatus
      /\ snap[p].pause.id = next[p].pause.id /\ snap[p].page = next[p].page
  BY <1>1 DEF WriteEnriched, browserVars, Carer, Releasing, Fit, Storing, FromRead
<1>3. Shared' /\ (overwritten => overwritten')
  <2>1. unreported' \in BOOLEAN
    BY <1>1, <1>2 DEF Shared
  <2>2. Stores(p, snap[p]) \/ Rejected
    BY DEF WriteEnriched
  <2>3. QED
    BY <1>1, <2>1, <2>2, WriteTypes DEF WriteEnriched
<1>4. Excused => Excused'
  BY <1>2, <1>3 DEF Excused
<1>5. page = "paused" => debugger' = "extension"
  BY <1>1, <1>2 DEF PageHeld
<1>6. CASE Stores(p, snap[p]) /\ Done(p)
  <2>1. stored' = next[p] /\ (stored # snap[p] => Excused')
    BY <1>6 DEF Stores, Excused
  <2>2. Moved(p, "idle", NoStatus, NoStatus, FALSE, "resume")
    BY <1>6, MoveDone
  <2>3. OthersKept(p) /\ next'[p] = NoStatus
    BY <1>1, <1>6, EndEffect DEF Became
  <2>4. DetachedIsGone'
    <3>1. Attaching => Attaching'
      BY <2>3 DEF Attaching, OthersKept, Processes
    <3>2. QED
      BY <1>1, <1>2, <1>4, <2>1, <2>3, <3>1, EndFits, WriteGone
  <2>5. CaredFor'
    BY <1>1, <1>2, <1>4, <2>1, <2>3, WriteCares DEF PauseOf
  <2>6. page = "paused" => OlderAt(p, "idle", NoStatus, NoStatus, FALSE)
    BY <1>1, EndFits DEF PageHeld
  <2>7. "idle" \notin Ending \cup Publishing
    BY DEF Ending, Publishing
  <2>8. QED
    BY <1>1, <1>2, <1>3, <1>5, <2>1, <2>2, <2>4, <2>5, <2>6, <2>7, EndFits, MoveKeeps
<1>7. CASE Rejected /\ Release(p, "pause", FailedPause)
  <2>1. UNCHANGED <<stored, overwritten>>
    BY <1>7 DEF Rejected
  <2>2. Moved(p, "resume", next[p], next[p], resumed[p], "pause")
    BY <1>1, <1>7, MoveReleases DEF FailedPause
  <2>3. Fit(p, "resume", next[p], next[p], resumed[p], "pause") /\ "pause" \in Purposes
    BY <1>1, <1>2 DEF Fit, Steps, Storing, FromRead, Publishing, Releasing, Purposes
  <2>4. OlderAt(p, "resume", next[p], next[p], resumed[p])
    BY <1>2 DEF OlderAt
  <2>5. "resume" \notin Ending \cup Publishing
    BY DEF Ending, Publishing
  <2>6. QED
    BY <1>1, <1>2, <1>3, <2>1, <2>2, <2>3, <2>4, <2>5, QuietMove
<1>8. QED
  BY <1>6, <1>7 DEF WriteEnriched

LEMMA WritePauseKeeps ==
    ASSUME DeepInvariant, WritePause, Noted, calls' = calls
    PROVE  DeepInvariant'
<1> DEFINE p == "event"
<1>1. /\ Shared /\ Functions /\ stored \in Known(pauses) /\ pauses \in 0 .. MaxPauses /\ pauses \in Nat
      /\ p \in Processes /\ pc[p] = "write-pause" /\ PageHeld /\ DetachedIsGone /\ EventsFollow
      /\ Fit(p, pc[p], snap[p], next[p], resumed[p], purpose[p])
      /\ resumed[p] \in BOOLEAN /\ purpose[p] \in Purposes
  BY InvariantParts, EventIsAProcess DEF WritePause
<1>2. /\ alive /\ ~resumed[p]
      /\ UNCHANGED <<page, debugger, events, pauses, alive, alarm, unreported>>
      /\ next[p] \in Known(pauses) /\ next[p] # NoStatus
  BY <1>1 DEF WritePause, browserVars, Fit, Storing
<1>3. Shared' /\ (overwritten => overwritten')
  <2>1. unreported' \in BOOLEAN
    BY <1>1, <1>2 DEF Shared
  <2>2. Stores(p, snap[p]) \/ Rejected
    BY DEF WritePause
  <2>3. QED
    BY <1>1, <2>1, <2>2, WriteTypes DEF WritePause
<1>4. (Excused => Excused') /\ (Unread => Unread')
  BY <1>2, <1>3 DEF Excused, Unread, Latest
<1>5. page = "paused" => debugger' = "extension"
  BY <1>1, <1>2 DEF PageHeld
<1>6. page = "paused" => Unread \/ next[p].pause.id = pauses
  BY <1>1 DEF EventsFollow, Publishing
<1>7. CASE Stores(p, snap[p]) /\ Goto(p, "watch") /\ UNCHANGED localVars
  <2>1. stored' = next[p] /\ stored' \in Known(pauses) /\ stored' # NoStatus
    BY <1>2, <1>7 DEF Stores
  <2>2. Moved(p, "watch", snap[p], next[p], resumed[p], purpose[p])
    BY <1>1, <1>7, MoveGoes
  <2>3. Fit(p, "watch", snap[p], next[p], resumed[p], purpose[p])
    BY <1>1 DEF Fit, Steps, Storing, FromRead, Publishing, Releasing
  <2>4. OthersKept(p) /\ next'[p] = next[p] /\ pc'[p] = "watch"
    BY <1>1, <1>2, <2>2, <2>3, MoveEffect DEF Became
  <2>5. DetachedIsGone'
    <3>1. Attaching => Attaching'
      BY <2>4 DEF Attaching, OthersKept, Processes
    <3>2. QED
      BY <1>1, <1>2, <1>4, <2>1, <2>4, <3>1, WriteGone
  <2>6. CaredFor'
    <3>1. Watched'
      BY <2>4 DEF Watched
    <3>2. page = "paused" => Unread' \/ PauseOf(stored') = pauses
      BY <1>4, <1>6, <2>1 DEF PauseOf
    <3>3. QED
      BY <1>2, <3>1, <3>2 DEF CaredFor
  <2>7. OlderAt(p, "watch", snap[p], next[p], resumed[p])
    BY <1>2 DEF OlderAt
  <2>8. "watch" \notin Ending
    BY DEF Ending
  <2>9. QED
    BY <1>1, <1>2, <1>3, <1>5, <1>6, <2>1, <2>2, <2>3, <2>5, <2>6, <2>7, <2>8, MoveKeeps
<1>8. CASE Rejected /\ Release(p, "pause", FailedPause)
  <2>1. stored' = stored
    BY <1>8 DEF Rejected
  <2>2. Moved(p, "resume", next[p], next[p], resumed[p], "pause")
    BY <1>1, <1>8, MoveReleases DEF FailedPause
  <2>3. Fit(p, "resume", next[p], next[p], resumed[p], "pause") /\ "pause" \in Purposes
    BY <1>1, <1>2 DEF Fit, Steps, Storing, FromRead, Publishing, Releasing, Purposes
  <2>4. OthersKept(p) /\ next'[p] = next[p] /\ snap'[p] = next[p] /\ pc'[p] = "resume"
    BY <1>1, <1>2, <2>2, <2>3, MoveEffect DEF Became
  <2>5. DetachedIsGone'
    <3>1. Attaching => Attaching'
      BY <2>4 DEF Attaching, OthersKept, Processes
    <3>2. QED
      BY <1>1, <1>2, <1>4, <2>1, <2>4, <3>1, WriteGone
  <2>6. CaredFor'
    <3>1. page = "paused" => Unread' \/ PauseOf(snap'[p]) = pauses
      BY <1>2, <1>4, <1>6, <2>4 DEF PauseOf
    <3>2. page = "paused" => Unread' \/ InCharge(p)'
      BY <1>2, <2>4, <3>1 DEF InCharge, Releasing
    <3>3. QED
      BY <1>1, <1>2, <3>2 DEF CaredFor
  <2>7. OlderAt(p, "resume", next[p], next[p], resumed[p])
    BY <1>2 DEF OlderAt
  <2>8. "resume" \notin Ending /\ "resume" \notin Publishing
    BY DEF Ending, Publishing
  <2>9. QED
    BY <1>1, <1>2, <1>3, <1>5, <2>1, <2>2, <2>3, <2>5, <2>6, <2>7, <2>8, MoveKeeps
<1>9. QED
  BY <1>7, <1>8 DEF WritePause

LEMMA WriteExternalKeeps ==
    ASSUME DeepInvariant, WriteExternal, Noted, calls' = calls
    PROVE  DeepInvariant'
<1> DEFINE p == "event"
<1>1. /\ Shared /\ Functions /\ stored \in Known(pauses) /\ pauses \in 0 .. MaxPauses /\ pauses \in Nat
      /\ p \in Processes /\ pc[p] = "write-external" /\ PageHeld /\ DetachedIsGone /\ EventsFollow
      /\ Fit(p, pc[p], snap[p], next[p], resumed[p], purpose[p])
      /\ resumed[p] \in BOOLEAN /\ purpose[p] \in Purposes
  BY InvariantParts, EventIsAProcess DEF WriteExternal
<1>2. /\ alive /\ ~Carer(p) /\ ~resumed[p] /\ pc[p] # "watch"
      /\ UNCHANGED <<page, debugger, events, pauses, alive, alarm, unreported>>
      /\ next[p] \in Known(pauses) /\ next[p] # NoStatus
  BY <1>1 DEF WriteExternal, browserVars, Carer, Releasing, Fit, Storing
<1>3. Shared' /\ (overwritten => overwritten')
  <2>1. unreported' \in BOOLEAN
    BY <1>1, <1>2 DEF Shared
  <2>2. Stores(p, snap[p]) \/ Rejected
    BY DEF WriteExternal
  <2>3. QED
    BY <1>1, <2>1, <2>2, WriteTypes DEF WriteExternal
<1>4. (Excused => Excused') /\ (Unread => Unread')
  BY <1>2, <1>3 DEF Excused, Unread, Latest
<1>5. page = "paused" => debugger' = "extension" /\ Unread
  BY <1>1, <1>2 DEF PageHeld, EventsFollow, Ending
<1>6. CASE Stores(p, snap[p]) /\ Goto(p, "read") /\ UNCHANGED localVars
  <2>1. stored' = next[p] /\ stored' \in Known(pauses) /\ stored' # NoStatus
    BY <1>2, <1>6 DEF Stores
  <2>2. Moved(p, "read", snap[p], next[p], resumed[p], purpose[p])
    BY <1>1, <1>6, MoveGoes
  <2>3. Fit(p, "read", snap[p], next[p], resumed[p], purpose[p])
    BY <1>1 DEF Fit, Steps, Storing, FromRead, Publishing, Releasing
  <2>4. OthersKept(p) /\ next'[p] = next[p]
    BY <1>1, <1>2, <2>2, <2>3, MoveEffect DEF Became
  <2>5. DetachedIsGone'
    <3>1. Attaching => Attaching'
      BY <2>4 DEF Attaching, OthersKept, Processes
    <3>2. QED
      BY <1>1, <1>2, <1>4, <2>1, <2>4, <3>1, WriteGone
  <2>6. CaredFor'
    BY <1>2, <1>4, <1>5 DEF CaredFor
  <2>7. OlderAt(p, "read", snap[p], next[p], resumed[p])
    BY <1>2 DEF OlderAt
  <2>8. "read" \notin Ending /\ "read" \notin Publishing
    BY DEF Ending, Publishing
  <2>9. QED
    BY <1>1, <1>2, <1>3, <1>5, <2>1, <2>2, <2>3, <2>5, <2>6, <2>7, <2>8, MoveKeeps
<1>7. CASE Rejected /\ Done(p)
  <2>1. UNCHANGED <<stored, overwritten>>
    BY <1>7 DEF Rejected
  <2>2. QED
    BY <1>1, <1>2, <1>3, <1>7, <2>1, QuietEnd
<1>8. QED
  BY <1>6, <1>7 DEF WriteExternal

LEMMA WriteExpelledKeeps ==
    ASSUME DeepInvariant, WriteExpelled, Noted, calls' = calls
    PROVE  DeepInvariant'
<1> DEFINE p == "event"
<1>1. /\ Shared /\ Functions /\ stored \in Known(pauses) /\ pauses \in 0 .. MaxPauses /\ pauses \in Nat
      /\ p \in Processes /\ pc[p] = "write-expelled" /\ PageHeld /\ DetachedIsGone /\ EventsFollow
      /\ Fit(p, pc[p], snap[p], next[p], resumed[p], purpose[p])
      /\ resumed[p] \in BOOLEAN /\ purpose[p] \in Purposes
  BY InvariantParts, EventIsAProcess DEF WriteExpelled
<1>2. /\ alive /\ ~Carer(p) /\ pc[p] # "watch" /\ Done(p)
      /\ UNCHANGED <<page, debugger, events, pauses, alive, alarm, unreported>>
      /\ next[p] \in Known(pauses) /\ next[p] # NoStatus
  BY <1>1 DEF WriteExpelled, browserVars, Carer, Releasing, Fit, Storing
<1>3. Shared' /\ (overwritten => overwritten')
  <2>1. unreported' \in BOOLEAN
    BY <1>1, <1>2 DEF Shared
  <2>2. Stores(p, snap[p]) \/ Rejected
    BY DEF WriteExpelled
  <2>3. QED
    BY <1>1, <2>1, <2>2, WriteTypes DEF WriteExpelled
<1>4. (Excused => Excused') /\ (Unread => Unread')
  BY <1>2, <1>3 DEF Excused, Unread, Latest
<1>5. page = "paused" => debugger' = "extension" /\ Unread
  BY <1>1, <1>2 DEF PageHeld, EventsFollow, Ending
<1>6. CASE Stores(p, snap[p])
  <2>1. stored' = next[p] /\ stored' \in Known(pauses) /\ stored' # NoStatus
    BY <1>2, <1>6 DEF Stores
  <2>2. Moved(p, "idle", NoStatus, NoStatus, FALSE, "resume")
    BY <1>2, MoveDone
  <2>3. OthersKept(p) /\ next'[p] = NoStatus
    BY <1>1, <1>2, EndEffect DEF Became
  <2>4. DetachedIsGone'
    <3>1. Attaching => Attaching'
      BY <2>3 DEF Attaching, OthersKept, Processes
    <3>2. QED
      BY <1>1, <1>2, <1>4, <2>1, <2>3, <3>1, EndFits, WriteGone
  <2>5. CaredFor'
    BY <1>2, <1>4, <1>5 DEF CaredFor
  <2>6. page = "paused" => OlderAt(p, "idle", NoStatus, NoStatus, FALSE)
    BY <1>1, EndFits DEF PageHeld
  <2>7. "idle" \notin Ending /\ "idle" \notin Publishing
    BY DEF Ending, Publishing
  <2>8. QED
    BY <1>1, <1>2, <1>3, <1>5, <2>1, <2>2, <2>4, <2>5, <2>6, <2>7, EndFits, MoveKeeps
<1>7. CASE Rejected
  <2>1. UNCHANGED <<stored, overwritten>>
    BY <1>7 DEF Rejected
  <2>2. QED
    BY <1>1, <1>2, <1>3, <2>1, QuietEnd
<1>8. QED
  BY <1>6, <1>7 DEF WriteExpelled

-----------------------------------------------------------------------------
(* The steps of a release *)

LEMMA ToldIsAnEvent ==
    ASSUME NEW kind \in {"resumed", "expelled", "worker"}
    PROVE  Told(kind) \in Events /\ Told(kind).kind = kind /\ Told(kind).stop = 0
BY DEF Told, Events

\* A step after which the page runs.
LEMMA RunKeeps ==
    ASSUME DeepInvariant, Noted, NEW p \in Processes,
           NEW step, NEW status, NEW write, NEW ran \in BOOLEAN, NEW why \in Purposes,
           Moved(p, step, status, write, ran, why), Fit(p, step, status, write, ran, why),
           Shared', UNCHANGED <<stored, pauses>>, alive', page' # "paused",
           Numbered', DetachedIsGone'
    PROVE  DeepInvariant'
<1>1. /\ Shared /\ Functions /\ stored \in Known(pauses) /\ pauses \in Nat /\ Local
  BY InvariantParts
<1>2. Functions' /\ OthersKept(p) /\ Became(p, step, status, write, ran, why)
  BY <1>1, MoveEffect
<1>3. Fit(p, step, status, write, ran, why)'
  BY DEF Fit
<1>4. Holds(p)'
  BY <1>2, <1>3 DEF Holds, Became
<1>5. Local'
  BY <1>1, <1>2, <1>4, LocalFollows
<1>6. stored' \in Known(pauses') /\ pauses' \in Nat /\ DeadRests' /\ StartsAlone'
  BY <1>1, StartsAloneFollows DEF DeadRests
<1>7. QED
  BY <1>2, <1>5, <1>6, RunningPage, Assemble

\* While a process goes on with a release, it stays in charge of the stop.
LEMMA ReleaseCares ==
    ASSUME CaredFor, NEW p \in Processes, OthersKept(p), pc[p] \in Releasing, pc'[p] \in Releasing,
           snap'[p] = snap[p], UNCHANGED <<page, events, pauses, stored>>, Excused' = Excused,
           Watched => Watched'
    PROVE  CaredFor'
<1>1. pc["event"] \in {"orphan", "write-pause"} => pc'["event"] = pc["event"] /\ next'["event"] = next["event"]
  BY EventIsAProcess DEF OthersKept, Releasing
<1>2. \A q \in Processes : InCharge(q) => InCharge(q)'
  BY DEF InCharge, OthersKept, PauseOf
<1>3. Unread' = Unread
  BY DEF Unread, Latest
<1>4. PauseOf(stored') = PauseOf(stored)
  BY DEF PauseOf
<1>5. QED
  BY <1>1, <1>2, <1>3, <1>4 DEF CaredFor

LEMMA GoneIsEnough == ASSUME Gone' PROVE DetachedIsGone'
BY DEF DetachedIsGone, ExpelledIsGone, NextIsTrue, StoredIsTrue

LEMMA ResumeKeeps ==
    ASSUME DeepInvariant, NEW p \in Processes, Resume(p), Noted, calls' = calls
    PROVE  DeepInvariant'
<1>1. /\ Shared /\ Functions /\ stored \in Known(pauses) /\ pauses \in 0 .. MaxPauses /\ pauses \in Nat
      /\ pc[p] = "resume" /\ DetachedIsGone /\ CaredFor /\ PageHeld /\ Older /\ Numbered
      /\ Fit(p, pc[p], snap[p], next[p], resumed[p], purpose[p])
      /\ resumed[p] \in BOOLEAN /\ purpose[p] \in Purposes
  BY InvariantParts DEF Resume
<1>2. /\ alive /\ ~resumed[p] /\ snap[p] \in Known(pauses) /\ snap[p] # NoStatus
      /\ UNCHANGED <<debugger, stored, pauses, alive, overwritten, unreported, snap, next, purpose>>
      /\ alarm' = 0
      /\ pc' = [pc EXCEPT ![p] = "disarm"]
  BY <1>1 DEF Resume, Fit, FromRead, Releasing, Goto
<1>3. spent' \in 0 .. MaxFaults /\ alarm' \in 0 .. MaxTime
  BY <1>1, <1>2, SpendTypes, DeepCaptureConstants DEF Resume
<1>4. Excused' = Excused
  BY <1>2 DEF Excused
<1>5. ASSUME NEW ran \in BOOLEAN, resumed' = [resumed EXCEPT ![p] = ran]
      PROVE  /\ Moved(p, "disarm", snap[p], next[p], ran, purpose[p])
             /\ Fit(p, "disarm", snap[p], next[p], ran, purpose[p])
             /\ OthersKept(p) /\ pc'[p] = "disarm"
             /\ Attaching => Attaching'
  <2>1. Moved(p, "disarm", snap[p], next[p], ran, purpose[p])
    BY <1>1, <1>2, <1>5, MoveSame DEF Moved
  <2>2. Fit(p, "disarm", snap[p], next[p], ran, purpose[p])
    BY <1>1 DEF Fit, Steps, Storing, FromRead, Publishing, Releasing
  <2>3. OthersKept(p) /\ pc'[p] = "disarm"
    BY <1>1, <1>2, <2>1, <2>2, MoveEffect DEF Became
  <2>4. Attaching => Attaching'
    BY <2>3 DEF Attaching, OthersKept, Processes
  <2>5. QED
    BY <2>1, <2>2, <2>3, <2>4
<1>6. CASE page' = "running" /\ events' = Append(events, Told("resumed")) /\ resumed' = [resumed EXCEPT ![p] = TRUE]
  <2>1. PICK told : told = Told("resumed")
    OBVIOUS
  <2>2. told \in Events /\ told.kind = "resumed" /\ told.stop =< pauses'
    BY <1>1, <1>2, <2>1, ToldIsAnEvent
  <2>3. Gone' = Gone /\ events \in Seq(Events) /\ events' = Append(events, told)
    BY <1>1, <1>2, <1>6, <2>1 DEF Gone, Shared
  <2>4. Numbered' /\ events' \in Seq(Events) /\ (ExpelledIsGone => ExpelledIsGone')
    BY <1>1, <1>2, <2>2, <2>3, MoreEvents
  <2>5. Shared'
    BY <1>1, <1>3, <1>6, <2>4, NotedType DEF Resume, Shared
  <2>6. /\ Moved(p, "disarm", snap[p], next[p], TRUE, purpose[p])
        /\ Fit(p, "disarm", snap[p], next[p], TRUE, purpose[p])
        /\ OthersKept(p) /\ (Attaching => Attaching')
    BY <1>5, <1>6
  <2>7. DetachedIsGone'
    BY <1>1, <1>2, <1>4, <2>3, <2>4, <2>6, GoneFollows
  <2>8. QED
    BY <1>1, <1>2, <1>6, <2>4, <2>5, <2>6, <2>7, RunKeeps
<1>7. ASSUME NEW ran \in BOOLEAN, resumed' = [resumed EXCEPT ![p] = ran], UNCHANGED <<page, events>>,
             ran => ~WasPaused(snap[p])
      PROVE  DeepInvariant'
  <2>1. Shared'
    BY <1>1, <1>3, <1>7, NotedType DEF Resume, Shared
  <2>2. /\ Moved(p, "disarm", snap[p], next[p], ran, purpose[p])
        /\ Fit(p, "disarm", snap[p], next[p], ran, purpose[p])
        /\ OthersKept(p) /\ pc'[p] = "disarm" /\ (Attaching => Attaching')
    BY <1>5, <1>7
  <2>3. Gone' = Gone /\ (ExpelledIsGone => ExpelledIsGone')
    BY <1>2, <1>7 DEF Gone, ExpelledIsGone
  <2>4. DetachedIsGone'
    BY <1>1, <1>2, <1>4, <2>2, <2>3, GoneFollows
  <2>5. CaredFor'
    <3>3. Watched'
      BY <2>2 DEF Watched, WillTell
    <3>4. pc[p] \in Releasing /\ pc'[p] \in Releasing
      BY <1>1, <2>2 DEF Releasing
    <3>5. QED
      BY <1>1, <1>2, <1>4, <1>7, <2>2, <3>3, <3>4, ReleaseCares
  <2>6. page = "paused" => OlderAt(p, "disarm", snap[p], next[p], ran)
    <3>1. SUFFICES ASSUME page = "paused" PROVE OlderAt(p, "disarm", snap[p], next[p], ran)
      OBVIOUS
    <3>2. ran => PauseOf(snap[p]) = 0
      BY <1>1, <1>2, <1>7, KnownParts DEF WasPaused, NoPause
    <3>3. OlderAt(p, pc[p], snap[p], next[p], resumed[p]) /\ pauses # 0
      BY <1>1, <3>1 DEF Older, PageHeld
    <3>4. QED
      BY <1>1, <3>2, <3>3 DEF OlderAt
  <2>7. "disarm" \notin Ending /\ "disarm" \notin Publishing /\ (page = "paused" => debugger' = "extension")
    BY <1>1, <1>2 DEF Ending, Publishing, PageHeld
  <2>8. QED
    BY <1>1, <1>2, <1>7, <2>1, <2>2, <2>4, <2>5, <2>6, <2>7, MoveKeeps
<1>8. UNCHANGED resumed => resumed' = [resumed EXCEPT ![p] = FALSE]
  <2>1. [resumed EXCEPT ![p] = FALSE] = resumed
    BY <1>1, <1>2, MoveSame
  <2>2. QED
    BY <2>1
<1>9. QED
  BY <1>6, <1>7, <1>8 DEF Resume

LEMMA DisarmedKeeps ==
    ASSUME DeepInvariant, NEW p \in Processes, Disarmed(p), Noted, calls' = calls
    PROVE  DeepInvariant'
<1>1. /\ Shared /\ Functions /\ pauses \in Nat /\ pc[p] = "disarm" /\ DetachedIsGone /\ Numbered
      /\ Fit(p, pc[p], snap[p], next[p], resumed[p], purpose[p])
      /\ resumed[p] \in BOOLEAN /\ purpose[p] \in Purposes
  BY InvariantParts DEF Disarmed
<1>2. /\ alive /\ page' # "paused" /\ Goto(p, "detach") /\ UNCHANGED localVars
      /\ UNCHANGED <<debugger, events, stored, pauses, alive, overwritten, unreported>>
  BY DEF Disarmed, browserVars
<1>3. Shared'
  BY <1>1, NotedType DEF Disarmed, Shared, browserVars, memoryVars
<1>4. Moved(p, "detach", snap[p], next[p], resumed[p], purpose[p])
  BY <1>1, <1>2, MoveGoes
<1>5. Fit(p, "detach", snap[p], next[p], resumed[p], purpose[p])
  BY <1>1 DEF Fit, Steps, Storing, FromRead, Publishing, Releasing
<1>6. OthersKept(p) /\ pc'[p] = "detach" /\ next'[p] = next[p]
  BY <1>1, <1>2, <1>4, <1>5, MoveEffect DEF Became
<1>7. /\ Excused' = Excused /\ Gone' = Gone /\ (ExpelledIsGone => ExpelledIsGone')
      /\ Attaching => Attaching'
  BY <1>2, <1>6 DEF Excused, Gone, ExpelledIsGone, Attaching, Releasing, OthersKept, Processes
<1>8. DetachedIsGone'
  BY <1>1, <1>2, <1>6, <1>7, GoneFollows
<1>9. Numbered'
  BY <1>1, <1>2 DEF Numbered
<1>10. QED
  BY <1>1, <1>2, <1>3, <1>4, <1>5, <1>8, <1>9, RunKeeps

\* A step after which nothing is told of the page any more.
LEMMA UntoldKeeps ==
    ASSUME DeepInvariant, Noted, NEW p \in Processes,
           NEW status, NEW write, NEW ran \in BOOLEAN, NEW why \in Purposes,
           Moved(p, "write", status, write, ran, why), Fit(p, "write", status, write, ran, why),
           Shared', UNCHANGED <<page, debugger, events, stored, pauses>>, alive', unreported',
           page = "paused" /\ ran => PauseOf(status) < pauses,
           page = "paused" /\ p = "start" => PauseOf(status) < pauses
    PROVE  DeepInvariant'
<1>1. /\ Shared /\ Functions /\ stored \in Known(pauses) /\ pauses \in Nat
      /\ Local /\ PageHeld /\ Numbered /\ InOrder /\ EventsFollow /\ Older
  BY InvariantParts
<1>2. Functions' /\ OthersKept(p) /\ Became(p, "write", status, write, ran, why)
  BY <1>1, MoveEffect
<1>3. Fit(p, "write", status, write, ran, why)'
  BY DEF Fit
<1>4. Holds(p)'
  BY <1>2, <1>3 DEF Holds, Became
<1>5. Local'
  BY <1>1, <1>2, <1>4, LocalFollows
<1>6. Numbered' /\ InOrder' /\ (Unread => Unread')
  BY <1>1, SameEvents
<1>7. Older'
  <2>1. page' = "paused" => OlderAt(p, pc[p], snap[p], next[p], resumed[p])'
    BY <1>2 DEF Became, OlderAt, PauseOf
  <2>2. QED
    BY <1>1, <1>2, <2>1, OlderFollows
<1>8. EventsFollow'
  <2>1. CASE p = "event"
    BY <1>2, <2>1 DEF EventsFollow, Became, Ending, Publishing
  <2>2. CASE p # "event"
    BY <1>1, <1>2, <1>6, <2>2, EventsFollowOther
  <2>3. QED
    BY <2>1, <2>2
<1>9. stored' \in Known(pauses') /\ pauses' \in Nat /\ DeadRests' /\ PageHeld' /\ StartsAlone'
  BY <1>1, StartsAloneFollows DEF DeadRests, PageHeld
<1>10. CaredFor' /\ DetachedIsGone'
  BY ExcusedIsEnough DEF Excused
<1>11. QED
  BY <1>2, <1>5, <1>6, <1>7, <1>8, <1>9, <1>10, Assemble

LEMMA DetachKeeps ==
    ASSUME DeepInvariant, NEW p \in Processes, Detach(p), Noted, calls' = calls
    PROVE  DeepInvariant'
<1>1. /\ Shared /\ Functions /\ stored \in Known(pauses) /\ pauses \in 0 .. MaxPauses /\ pauses \in Nat
      /\ pc[p] = "detach" /\ DetachedIsGone /\ CaredFor /\ PageHeld /\ Older /\ Numbered
      /\ Fit(p, pc[p], snap[p], next[p], resumed[p], purpose[p])
      /\ resumed[p] \in BOOLEAN /\ purpose[p] \in Purposes
  BY InvariantParts DEF Detach
<1>2. /\ alive /\ snap[p] \in Known(pauses) /\ snap[p] # NoStatus /\ Detached(p)
      /\ UNCHANGED <<stored, pauses, alive, overwritten, snap, resumed, purpose>>
      /\ unreported' \in BOOLEAN /\ (unreported => unreported')
      /\ pc' = [pc EXCEPT ![p] = "write"]
  BY <1>1 DEF Detach, Detached, Shared, Fit, FromRead, Releasing, Goto
<1>3. spent' \in 0 .. MaxFaults
  BY <1>1, <1>2, SpendTypes DEF Detached
<1>4. ASSUME NEW running \in BOOLEAN, NEW detached \in BOOLEAN, NEW write,
             write = Released(purpose[p], snap[p], running, detached), next' = [next EXCEPT ![p] = write]
      PROVE  /\ Moved(p, "write", snap[p], write, resumed[p], purpose[p])
             /\ Fit(p, "write", snap[p], write, resumed[p], purpose[p])
             /\ OthersKept(p) /\ pc'[p] = "write" /\ next'[p] = write
             /\ Attaching => Attaching'
  <2>1. Moved(p, "write", snap[p], write, resumed[p], purpose[p])
    BY <1>1, <1>2, <1>4, MoveSame DEF Moved
  <2>2. write \in Known(pauses) /\ write # NoStatus /\ write.debugger \in {"detached", "still-attached"}
    <3>1. /\ pauses \in 0 .. MaxPauses /\ purpose[p] \in Purposes
          /\ snap[p] \in Known(pauses) /\ snap[p] # NoStatus
      BY <1>1, <1>2
    <3>2. QED
      BY <1>4, <3>1, ReleasedKnown
  <2>3. Fit(p, "write", snap[p], write, resumed[p], purpose[p])
    BY <1>1, <2>2 DEF Fit, Steps, Storing, FromRead, Publishing, Releasing
  <2>4. OthersKept(p) /\ pc'[p] = "write" /\ next'[p] = write
    BY <1>1, <1>2, <2>1, <2>3, MoveEffect DEF Became
  <2>5. Attaching => Attaching'
    BY <2>4 DEF Attaching, OthersKept, Processes
  <2>6. QED
    BY <2>1, <2>3, <2>4, <2>5
<1>5. CASE /\ Gone' /\ page' # "paused" /\ page' \in {"running", "paused"} /\ intentional' \in BOOLEAN
           /\ debugger' \in {"nobody", "extension", "other"}
           /\ events' = events \/ events' = Append(events, Told("expelled"))
           /\ next' = [next EXCEPT ![p] = Released(purpose[p], snap[p], TRUE, TRUE)]
  <2>1. PICK told : told = Told("expelled")
    OBVIOUS
  <2>2. told \in Events /\ told.stop =< pauses' /\ events \in Seq(Events)
    BY <1>1, <1>2, <2>1, ToldIsAnEvent DEF Shared
  <2>3. Numbered' /\ events' \in Seq(Events)
    <3>1. CASE events' = events
      BY <1>1, <1>2, <2>2, <3>1 DEF Numbered
    <3>2. CASE events' = Append(events, told)
      BY <1>1, <1>2, <2>2, <3>2, MoreEvents
    <3>3. QED
      BY <1>5, <2>1, <3>1, <3>2
  <2>4. Shared'
    <3>1. UNCHANGED <<now, alarm, alive, broken, overwritten, pauses>>
      BY DEF Detach
    <3>2. unreported' \in BOOLEAN
      BY <1>2
    <3>3. resuming' \in BOOLEAN
      BY <1>2 DEF Detached
    <3>4. QED
      BY <1>1, <1>3, <1>5, <2>3, <3>1, <3>2, <3>3, NotedType DEF Shared
  <2>5. PICK write : write = Released(purpose[p], snap[p], TRUE, TRUE)
    OBVIOUS
  <2>6. /\ Moved(p, "write", snap[p], write, resumed[p], purpose[p])
        /\ Fit(p, "write", snap[p], write, resumed[p], purpose[p])
    BY <1>4, <1>5, <2>5
  <2>7. DetachedIsGone'
    BY <1>5, GoneIsEnough
  <2>8. QED
    BY <1>1, <1>2, <1>5, <2>3, <2>4, <2>6, <2>7, RunKeeps
<1>6. CASE /\ UNCHANGED <<debugger, page, events, unreported>> /\ intentional' = FALSE
           /\ debugger = "extension"
           /\ next' = [next EXCEPT ![p] = Released(purpose[p], snap[p], resumed[p], FALSE)]
  <2>1. PICK write : write = Released(purpose[p], snap[p], resumed[p], FALSE)
    OBVIOUS
  <2>2. /\ Moved(p, "write", snap[p], write, resumed[p], purpose[p])
        /\ Fit(p, "write", snap[p], write, resumed[p], purpose[p])
        /\ OthersKept(p) /\ pc'[p] = "write" /\ next'[p] = write /\ (Attaching => Attaching')
    BY <1>1, <1>4, <1>6, <2>1
  <2>3. /\ write.debugger = "still-attached"
        /\ ~resumed[p] => /\ write.page = "possibly-paused"
                          /\ purpose[p] # "arm" => write.pause = snap[p].pause
    BY <2>1 DEF Released
  <2>4. Shared'
    <3>1. UNCHANGED <<now, alarm, alive, broken, overwritten, pauses>>
      BY DEF Detach
    <3>2. unreported' \in BOOLEAN
      BY <1>2
    <3>3. resuming' \in BOOLEAN
      BY <1>2 DEF Detached
    <3>4. QED
      BY <1>1, <1>3, <1>6, <3>1, <3>2, <3>3, NotedType DEF Shared
  <2>5. Excused' = Excused /\ Gone' = Gone /\ (ExpelledIsGone => ExpelledIsGone')
    BY <1>2, <1>6 DEF Excused, Gone, ExpelledIsGone
  <2>6. DetachedIsGone'
    BY <1>1, <1>2, <2>2, <2>3, <2>5, GoneFollows DEF Says
  <2>7. CaredFor'
    <3>1. Watched'
      BY <2>2, <2>3 DEF Watched, WillTell
    <3>2. pc[p] \in Releasing /\ pc'[p] \in Releasing
      BY <1>1, <2>2 DEF Releasing
    <3>3. QED
      BY <1>1, <1>2, <1>6, <2>2, <2>5, <3>1, <3>2, ReleaseCares
  <2>8. page = "paused" => OlderAt(p, "write", snap[p], write, resumed[p])
    <3>1. SUFFICES ASSUME page = "paused" PROVE OlderAt(p, "write", snap[p], write, resumed[p])
      OBVIOUS
    <3>2. OlderAt(p, pc[p], snap[p], next[p], resumed[p]) /\ PauseOf(snap[p]) \in Nat
      BY <1>1, <1>2, <3>1, KnownParts DEF Older
    <3>3. p = "start" <=> purpose[p] = "arm"
      BY <1>1 DEF Fit, Releasing
    <3>4. QED
      BY <1>1, <2>3, <3>2, <3>3 DEF OlderAt
  <2>9. "write" \notin Ending /\ "write" \notin Publishing /\ (page = "paused" => debugger' = "extension")
    BY <1>6 DEF Ending, Publishing
  <2>10. QED
    BY <1>1, <1>2, <1>6, <2>2, <2>4, <2>6, <2>7, <2>8, <2>9, MoveKeeps
<1>7. CASE /\ UNCHANGED <<debugger, page, events>> /\ intentional' = FALSE /\ debugger = "extension"
           /\ next' = [next EXCEPT ![p] = Released(purpose[p], snap[p], TRUE, TRUE)]
           /\ unreported' = TRUE
  <2>1. PICK write : write = Released(purpose[p], snap[p], TRUE, TRUE)
    OBVIOUS
  <2>2. /\ Moved(p, "write", snap[p], write, resumed[p], purpose[p])
        /\ Fit(p, "write", snap[p], write, resumed[p], purpose[p])
    BY <1>4, <1>7, <2>1
  <2>3. Shared'
    <3>1. UNCHANGED <<now, alarm, alive, broken, overwritten, pauses>>
      BY DEF Detach
    <3>2. resuming' \in BOOLEAN
      BY <1>2 DEF Detached
    <3>3. QED
      BY <1>1, <1>3, <1>7, <3>1, <3>2, NotedType DEF Shared
  <2>4. page = "paused" => (resumed[p] => PauseOf(snap[p]) < pauses)
    BY <1>1 DEF Older, OlderAt
  <2>5. page = "paused" /\ p = "start" => PauseOf(snap[p]) < pauses
    BY <1>1 DEF Older, OlderAt
  <2>6. QED
    BY <1>1, <1>2, <1>7, <2>2, <2>3, <2>4, <2>5, UntoldKeeps
<1>8. QED
  <2>1. debugger # "extension" => page # "paused"
    BY <1>1 DEF PageHeld
  <2>2. page \in {"running", "paused"} /\ debugger \in {"nobody", "extension", "other"}
    BY <1>1 DEF Shared
  <2>3. QED
    BY <1>2, <1>5, <1>6, <1>7, <2>1, <2>2 DEF Detached, Gone

LEMMA WriteReleasedKeeps ==
    ASSUME DeepInvariant, NEW p \in Processes, WriteReleased(p), Noted, calls' = calls
    PROVE  DeepInvariant'
<1>1. /\ Shared /\ Functions /\ stored \in Known(pauses) /\ pauses \in 0 .. MaxPauses /\ pauses \in Nat
      /\ pc[p] = "write" /\ PageHeld /\ DetachedIsGone /\ CaredFor /\ Older
      /\ Fit(p, pc[p], snap[p], next[p], resumed[p], purpose[p])
  BY InvariantParts DEF WriteReleased
<1>2. /\ alive /\ Done(p)
      /\ UNCHANGED <<page, debugger, events, pauses, alive, alarm>>
      /\ next[p] \in Known(pauses) /\ next[p] # NoStatus
      /\ next[p].debugger \in {"detached", "still-attached"}
  BY <1>1 DEF WriteReleased, browserVars, Fit, Storing
<1>3. \/ Stores(p, snap[p]) /\ UNCHANGED unreported
      \/ Rejected /\ unreported' = (unreported \/ next[p].debugger = "still-attached")
  BY DEF WriteReleased
<1>4. Shared' /\ (overwritten => overwritten')
  <2>1. unreported' \in BOOLEAN
    BY <1>1, <1>3 DEF Shared
  <2>2. Stores(p, snap[p]) \/ Rejected
    BY <1>3
  <2>3. QED
    BY <1>1, <2>1, <2>2, WriteTypes DEF WriteReleased
<1>5. (Excused => Excused') /\ (Unread => Unread')
  <2>1. unreported => unreported'
    BY <1>3
  <2>2. Excused => Excused'
    BY <1>4, <2>1 DEF Excused
  <2>3. Unread => Unread'
    BY <1>2 DEF Unread, Latest
  <2>4. QED
    BY <2>2, <2>3
<1>6. /\ stored' \in {stored, next[p]}
      /\ stored' \in Known(pauses)
      /\ stored' = stored \/ stored' # NoStatus
      /\ ~Excused' => \/ stored' = next[p] /\ stored = snap[p]
                      \/ stored' = stored /\ next[p].debugger = "detached"
  BY <1>1, <1>2, <1>3 DEF Stores, Rejected, Excused
<1>7. OthersKept(p) /\ next'[p] = NoStatus
  BY <1>1, <1>2, EndEffect DEF Became
<1>8. DetachedIsGone'
  <2>1. Attaching /\ ~Attaching' => raced' \/ Excused' \/ Gone' \/ ~Says(stored')
    <3>1. SUFFICES ASSUME ~raced', ~Excused', Says(stored') PROVE Attaching => Attaching' \/ Gone'
      OBVIOUS
    <3>2. CASE p = "start"
      <4>1. NextIsTrue
        BY <1>1, <1>5, <3>1, StartsAloneFollows DEF DetachedIsGone
      <4>2. Says(next[p])
        BY <1>2, <1>6, <3>1 DEF Says
      <4>3. QED
        BY <1>2, <4>1, <4>2 DEF NextIsTrue, Gone
    <3>3. CASE p # "start"
      BY <1>7, <3>3 DEF Attaching, OthersKept, Processes
    <3>4. QED
      BY <3>2, <3>3
  <2>2. ~Says(next'[p])
    BY <1>7 DEF Says
  <2>3. QED
    BY <1>1, <1>2, <1>5, <1>6, <1>7, <2>1, <2>2, WriteGone
<1>9. CaredFor'
  <2>1. SUFFICES ASSUME page = "paused", ~Excused', ~Unread
                 PROVE  \/ pc'["event"] = "orphan"
                        \/ pc'["event"] = "write-pause" /\ PauseOf(next'["event"]) = pauses
                        \/ \E q \in Processes : InCharge(q)'
                        \/ PauseOf(stored') = pauses /\ Watched'
    BY <1>2, <1>5 DEF CaredFor, PauseOf
  <2>2. pc["event"] \in {"orphan", "write-pause"} => pc'["event"] = pc["event"] /\ next'["event"] = next["event"]
    BY <1>1, <1>7, EventIsAProcess DEF OthersKept
  <2>3. \A q \in Processes \ {p} : InCharge(q) => InCharge(q)'
    BY <1>2, <1>7 DEF InCharge, OthersKept, PauseOf
  <2>4. ASSUME PauseOf(snap[p]) = pauses PROVE PauseOf(stored') = pauses /\ Watched'
    <3>1. OlderAt(p, pc[p], snap[p], next[p], resumed[p])
      BY <1>1, <2>1 DEF Older
    <3>2. ~unreported
      BY <1>3, <2>1 DEF Excused
    <3>3. /\ next[p].debugger = "still-attached" /\ next[p].page = "possibly-paused"
          /\ next[p].pause = snap[p].pause
      BY <1>1, <2>4, <3>1, <3>2 DEF OlderAt
    <3>4. stored' = next[p] /\ snap[p] # NoStatus
      BY <1>1, <1>6, <2>1, <3>3 DEF Fit, FromRead, Releasing
    <3>5. QED
      BY <1>2, <2>4, <3>3, <3>4 DEF Watched, PauseOf
  <2>5. ASSUME PauseOf(stored) = pauses, Watched PROVE PauseOf(stored') = pauses /\ Watched'
    <3>1. CASE stored = snap[p]
      BY <2>4, <2>5, <3>1
    <3>2. CASE stored' = stored /\ next[p].debugger = "detached"
      <4>1. \A q \in Processes : WillTell(q) => WillTell(q)'
        BY <1>1, <1>7, <3>2 DEF WillTell, OthersKept
      <4>2. pc["event"] = "watch" => pc'["event"] = "watch"
        BY <1>1, <1>7, EventIsAProcess DEF OthersKept
      <4>3. Watched'
        BY <1>2, <2>5, <3>2, <4>1, <4>2 DEF Watched
      <4>4. QED
        BY <2>5, <3>2, <4>3
    <3>3. QED
      BY <1>6, <2>1, <3>1, <3>2
  <2>6. ~Excused
    BY <1>5, <2>1
  <2>7. InCharge(p) => PauseOf(snap[p]) = pauses
    BY DEF InCharge
  <2>8. (\E q \in Processes : InCharge(q)) => InCharge(p) \/ \E q \in Processes : InCharge(q)'
    BY <2>3
  <2>9. QED
    BY <1>1, <2>1, <2>2, <2>4, <2>5, <2>6, <2>7, <2>8 DEF CaredFor
<1>10. QED
  <2>1. Moved(p, "idle", NoStatus, NoStatus, FALSE, "resume")
    BY <1>2, MoveDone
  <2>2. page = "paused" => debugger' = "extension" /\ OlderAt(p, "idle", NoStatus, NoStatus, FALSE)
    BY <1>1, <1>2, EndFits DEF PageHeld
  <2>3. "idle" \notin Ending /\ "idle" \notin Publishing
    BY DEF Ending, Publishing
  <2>4. (unreported => unreported') /\ alive' /\ UNCHANGED <<page, events, pauses>>
    <3>1. unreported => unreported'
      BY <1>3
    <3>2. QED
      BY <1>2, <3>1
  <2>5. Shared' /\ (stored' = stored \/ (stored' \in Known(pauses) /\ stored' # NoStatus))
    BY <1>4, <1>6
  <2>6. Fit(p, "idle", NoStatus, NoStatus, FALSE, "resume") /\ "resume" \in Purposes
    BY EndFits
  <2>7. QED
    BY <1>8, <1>9, <2>1, <2>2, <2>3, <2>4, <2>5, <2>6, MoveKeeps

-----------------------------------------------------------------------------
(* The steps that handle an event *)

LEMMA OrphanKeeps ==
    ASSUME DeepInvariant, Orphan, Noted, calls' = calls, page' # "paused"
    PROVE  DeepInvariant'
<1> DEFINE p == "event"
<1>1. /\ Shared /\ Functions /\ stored \in Known(pauses) /\ pauses \in 0 .. MaxPauses /\ pauses \in Nat
      /\ p \in Processes /\ pc[p] = "orphan" /\ DetachedIsGone /\ PageHeld /\ Numbered
  BY InvariantParts, EventIsAProcess DEF Orphan
<1>2. /\ alive /\ Done(p)
      /\ UNCHANGED <<stored, pauses, alive, overwritten, unreported>>
      /\ \/ /\ debugger' = debugger /\ intentional' = intentional /\ page' = "running"
            /\ events' = Append(events, Told("resumed"))
         \/ /\ debugger' = (IF debugger = "extension" THEN "nobody" ELSE debugger)
            /\ page' = (IF debugger = "extension" THEN "running" ELSE page)
            /\ intentional' = (debugger = "extension") /\ events' = events
         \/ UNCHANGED <<debugger, page, events>> /\ intentional' = FALSE
  BY <1>1 DEF Orphan, PageForgotten, Shared
<1>3. spent' \in 0 .. MaxFaults
  BY <1>1, SpendTypes DEF Orphan, PageForgotten
<1>4. /\ page' # "paused" /\ page' \in {"running", "paused"} /\ (Gone => Gone')
      /\ debugger' \in {"nobody", "extension", "other"}
  BY <1>1, <1>2 DEF Shared, PageHeld, Gone
<1>5. Numbered' /\ events' \in Seq(Events) /\ (ExpelledIsGone => ExpelledIsGone')
  <2>1. CASE events' = events
    BY <1>1, <1>2, <1>4, <2>1 DEF Numbered, Shared, ExpelledIsGone
  <2>2. CASE events' = Append(events, Told("resumed"))
    <3>1. PICK told : told = Told("resumed")
      OBVIOUS
    <3>2. told \in Events /\ told.kind = "resumed" /\ told.stop =< pauses'
      BY <1>1, <1>2, <3>1, ToldIsAnEvent
    <3>3. events \in Seq(Events) /\ events' = Append(events, told)
      BY <1>1, <2>2, <3>1 DEF Shared
    <3>4. QED
      BY <1>1, <1>2, <1>4, <3>2, <3>3, MoreEvents
  <2>3. QED
    BY <1>2, <2>1, <2>2
<1>6. Shared'
  <2>1. intentional' \in BOOLEAN
    BY <1>1, <1>2 DEF Shared
  <2>2. QED
    BY <1>1, <1>2, <1>3, <1>4, <1>5, <2>1, NotedType DEF Orphan, Shared
<1>7. OthersKept(p) /\ next'[p] = NoStatus
  BY <1>1, <1>2, EndEffect DEF Became
<1>8. DetachedIsGone'
  <2>1. Excused' = Excused /\ (Attaching => Attaching') /\ ~Says(next'[p])
    BY <1>2, <1>7 DEF Excused, Attaching, OthersKept, Processes, Says
  <2>2. QED
    BY <1>1, <1>2, <1>4, <1>5, <1>7, <2>1, GoneFollows
<1>9. Moved(p, "idle", NoStatus, NoStatus, FALSE, "resume")
  BY <1>2, MoveDone
<1>10. QED
  BY <1>1, <1>2, <1>4, <1>5, <1>6, <1>8, <1>9, EndFits, RunKeeps

LEMMA OrphanForgottenKeeps ==
    ASSUME DeepInvariant, Orphan, Noted, calls' = calls, page' = "paused"
    PROVE  DeepInvariant'
<1>1. Shared /\ PageHeld
  BY InvariantParts
<1>2. /\ alive /\ Done("event") /\ PageForgotten /\ intentional' = FALSE
      /\ UNCHANGED <<now, page, debugger, events, stored, alarm, pauses, alive, broken, resuming,
                     overwritten>>
  BY <1>1 DEF Orphan, PageHeld
<1>3. unreported' \in BOOLEAN /\ spent' \in 0 .. MaxFaults /\ intentional' \in BOOLEAN
  BY <1>1, <1>2, SpendTypes DEF PageForgotten
<1>4. Shared'
  BY <1>1, <1>2, <1>3, NotedType DEF Shared
<1>5. QED
  BY <1>2, <1>4, ForgetKeeps, EventIsAProcess DEF PageForgotten

LEMMA PopKeeps ==
    ASSUME DeepInvariant, Noted, pc["event"] = "idle", events # <<>>, events' = Tail(events),
           NEW step, NEW status, NEW write, NEW why \in Purposes,
           Moved("event", step, status, write, FALSE, why), Fit("event", step, status, write, FALSE, why),
           Shared', UNCHANGED <<page, debugger, stored, pauses, alive, overwritten>>, alive,
           unreported => unreported', step # "write",
           page = "paused" =>
                /\ step \in Ending => Unread'
                /\ step \in Publishing => Unread' \/ write.pause.id = pauses,
           CaredFor',
           (~raced /\ ~Excused /\ Says(write)) =>
                Says(next["event"]) \/ Gone \/ (Says(stored) /\ step # "idle")
    PROVE  DeepInvariant'
<1> DEFINE p == "event"
<1>1. /\ Shared /\ Functions /\ stored \in Known(pauses) /\ pauses \in Nat /\ pauses \in 0 .. MaxPauses
      /\ Local /\ PageHeld /\ Numbered /\ InOrder /\ Older /\ DetachedIsGone
      /\ p \in Processes /\ events \in Seq(Events)
  BY InvariantParts, EventIsAProcess DEF Shared
<1>2. Functions' /\ OthersKept(p) /\ Became(p, step, status, write, FALSE, why)
  BY <1>1, MoveEffect
<1>3. Fit(p, step, status, write, FALSE, why)'
  BY DEF Fit
<1>4. Holds(p)'
  BY <1>2, <1>3 DEF Holds, Became
<1>5. Local'
  BY <1>1, <1>2, <1>4, LocalFollows
<1>6. Numbered' /\ InOrder' /\ (ExpelledIsGone => ExpelledIsGone')
  BY <1>1, FewerEvents
<1>7. Older'
  <2>1. page' = "paused" => OlderAt(p, pc[p], snap[p], next[p], resumed[p])'
    BY <1>2 DEF Became, OlderAt
  <2>2. QED
    BY <1>1, <1>2, <2>1, OlderFollows
<1>8. EventsFollow'
  BY <1>2 DEF EventsFollow, Became
<1>9. DetachedIsGone'
  <2>1. (Excused => Excused') /\ Gone' = Gone /\ (Attaching => Attaching')
    BY <1>2 DEF Excused, Gone, Attaching, OthersKept, Processes
  <2>2. next'[p] = write /\ pc'[p] = step
    BY <1>2 DEF Became
  <2>3. QED
    BY <1>1, <1>2, <1>6, <2>1, <2>2, GoneFollows
<1>10. stored' \in Known(pauses') /\ pauses' \in Nat /\ DeadRests' /\ PageHeld' /\ StartsAlone'
  BY <1>1, StartsAloneFollows DEF DeadRests, PageHeld
<1>11. QED
  BY <1>2, <1>5, <1>6, <1>7, <1>8, <1>9, <1>10, Assemble

\* What is known when an event is taken.
LEMMA PopParts ==
    ASSUME DeepInvariant, NEW kind, Handles(kind), UNCHANGED <<page, pauses>>
    PROVE  /\ Shared /\ Functions /\ stored \in Known(pauses) /\ pauses \in Nat /\ pauses \in 0 .. MaxPauses
           /\ "event" \in Processes /\ pc["event"] = "idle" /\ alive
           /\ events # <<>> /\ events' = Tail(events) /\ events' \in Seq(Events)
           /\ Head(events) \in Events /\ Head(events).kind = kind /\ Head(events).stop =< pauses
           /\ Fit("event", "idle", snap["event"], next["event"], FALSE, purpose["event"])
           /\ resumed["event"] = FALSE /\ purpose["event"] \in Purposes
           /\ CaredFor /\ DetachedIsGone
           /\ Head(events) # Latest => (Unread => Unread')
           /\ (page = "paused" /\ Head(events) # Latest /\ kind # "worker") => Unread'
           /\ kind # "paused" => Head(events) # Latest
<1>1. /\ Shared /\ Functions /\ stored \in Known(pauses) /\ pauses \in Nat /\ pauses \in 0 .. MaxPauses
      /\ "event" \in Processes /\ pc["event"] = "idle" /\ alive
      /\ events # <<>> /\ events' = Tail(events) /\ Head(events).kind = kind
      /\ Fit("event", pc["event"], snap["event"], next["event"], resumed["event"], purpose["event"])
      /\ resumed["event"] \in BOOLEAN /\ purpose["event"] \in Purposes
      /\ CaredFor /\ DetachedIsGone /\ Numbered /\ InOrder /\ events \in Seq(Events)
  BY InvariantParts, EventIsAProcess DEF Handles, Shared
<1>2. /\ events' \in Seq(Events)
      /\ Head(events) \in Events /\ Head(events).stop =< pauses
      /\ Head(events) # Latest => (Unread => Unread')
      /\ (page = "paused" /\ Head(events) # Latest /\ kind # "worker") => Unread'
  BY <1>1, FewerEvents
<1>3. resumed["event"] = FALSE
  BY <1>1 DEF Fit
<1>4. kind # "paused" => Head(events) # Latest
  BY <1>1 DEF Latest
<1>5. QED
  BY <1>1, <1>2, <1>3, <1>4

LEMMA PausedKeeps ==
    ASSUME DeepInvariant, Paused, Noted, calls' = calls
    PROVE  DeepInvariant'
<1> DEFINE p == "event"
<1>1. /\ Handles("paused")
      /\ UNCHANGED <<page, debugger, stored, pauses, alive, overwritten, unreported>>
  BY DEF Paused, browserVars
<1>2. /\ Shared /\ Functions /\ stored \in Known(pauses) /\ pauses \in Nat /\ pauses \in 0 .. MaxPauses
      /\ p \in Processes /\ pc[p] = "idle" /\ alive
      /\ events # <<>> /\ events' = Tail(events) /\ events' \in Seq(Events)
      /\ Head(events) \in Events /\ Head(events).kind = "paused" /\ Head(events).stop =< pauses
      /\ Fit(p, "idle", snap[p], next[p], FALSE, purpose[p])
      /\ resumed[p] = FALSE /\ purpose[p] \in Purposes
      /\ (page = "paused" /\ Head(events) # Latest) => Unread'
  BY <1>1, PopParts
<1>3. Shared'
  BY <1>2, NotedType DEF Paused, Shared, browserVars, memoryVars
<1>4. Head(events).stop \in 1 .. pauses /\ (Head(events) = Latest => Head(events).stop = pauses)
  BY <1>2 DEF Events, Latest
<1>5. CASE stored = NoStatus /\ Goto(p, "orphan") /\ UNCHANGED localVars
  <2>1. Moved(p, "orphan", snap[p], next[p], FALSE, purpose[p])
    BY <1>2, <1>5, MoveGoes
  <2>2. Fit(p, "orphan", snap[p], next[p], FALSE, purpose[p])
    BY <1>2 DEF Fit, Steps, Storing, FromRead, Publishing, Releasing
  <2>3. pc'[p] = "orphan"
    BY <1>1, <1>2, <2>1, <2>2, MoveEffect DEF Became
  <2>4. CaredFor'
    BY <2>3 DEF CaredFor
  <2>5. "orphan" \notin Ending /\ "orphan" \notin Publishing
    BY DEF Ending, Publishing
  <2>6. QED
    BY <1>1, <1>2, <1>3, <2>1, <2>2, <2>4, <2>5, PopKeeps
<1>6. ASSUME stored # NoStatus, Read(p, "write-pause"), UNCHANGED <<resumed, purpose>>, NEW write,
             write = [stored EXCEPT !.state = "paused",
                                    !.pause = [id |-> Head(events).stop, deadline |-> Deadline]],
             next' = [next EXCEPT ![p] = write]
      PROVE  DeepInvariant'
  <2>1. Deadline \in 1 .. MaxTime /\ Repaused(write, stored, Head(events).stop, Deadline)
    BY <1>2, <1>6, DeadlineIsTime DEF Repaused
  <2>2. /\ write \in Known(pauses) /\ write # NoStatus /\ write.pause.id = Head(events).stop
        /\ PauseOf(write) = Head(events).stop /\ write.debugger = stored.debugger
    BY <1>2, <1>4, <1>6, <2>1, PausedUntil
  <2>3. Moved(p, "write-pause", stored, write, FALSE, purpose[p])
    BY <1>2, <1>6, MoveReads
  <2>4. Fit(p, "write-pause", stored, write, FALSE, purpose[p])
    BY <1>2, <1>4, <2>2 DEF Fit, Steps, Storing, FromRead, Publishing, Releasing
  <2>5. pc'[p] = "write-pause" /\ next'[p] = write
    BY <1>2, <1>6 DEF Read, Goto, Functions
  <2>6. page = "paused" => Unread' \/ write.pause.id = pauses
    BY <1>2, <1>4, <2>2
  <2>7. CaredFor'
    BY <1>1, <2>2, <2>5, <2>6 DEF CaredFor
  <2>8. Says(write) => Says(stored)
    BY <1>6, <2>2 DEF Says
  <2>9. "write-pause" \notin Ending
    BY DEF Ending
  <2>10. QED
    BY <1>1, <1>2, <1>3, <2>3, <2>4, <2>6, <2>7, <2>8, <2>9, PopKeeps
<1>7. QED
  BY <1>5, <1>6 DEF Paused

LEMMA ResumedKeeps ==
    ASSUME DeepInvariant, Resumed, Noted, calls' = calls
    PROVE  DeepInvariant'
<1> DEFINE p == "event"
<1>1. /\ Handles("resumed")
      /\ UNCHANGED <<page, debugger, stored, pauses, alive, overwritten, unreported>>
  BY DEF Resumed, browserVars
<1>2. /\ Shared /\ Functions /\ p \in Processes /\ pc[p] = "idle" /\ alive /\ pauses \in Nat
      /\ events # <<>> /\ events' = Tail(events) /\ events' \in Seq(Events)
      /\ Fit(p, "idle", snap[p], next[p], FALSE, purpose[p])
      /\ resumed[p] = FALSE /\ purpose[p] \in Purposes
      /\ page = "paused" => Unread'
  BY <1>1, PopParts
<1>3. Shared'
  <2>1. alarm' \in 0 .. MaxTime
    BY <1>2, DeepCaptureConstants DEF Resumed, Shared
  <2>2. QED
    BY <1>2, <2>1, NotedType DEF Resumed, Shared, browserVars, memoryVars
<1>4. CaredFor'
  BY <1>1, <1>2 DEF CaredFor
<1>5. ASSUME NEW step \in {"idle", "settle"}, Moved(p, step, snap[p], next[p], FALSE, purpose[p])
      PROVE  DeepInvariant'
  <2>1. Fit(p, step, snap[p], next[p], FALSE, purpose[p])
    BY <1>2, <1>5 DEF Fit, Steps, Storing, FromRead, Publishing, Releasing
  <2>2. step \notin Publishing /\ step # "write"
    BY <1>5 DEF Publishing
  <2>3. QED
    BY <1>1, <1>2, <1>3, <1>4, <1>5, <2>1, <2>2, PopKeeps
<1>6. CASE UNCHANGED <<pc, localVars>>
  BY <1>2, <1>5, <1>6, MoveStays
<1>7. CASE Goto(p, "settle") /\ UNCHANGED localVars
  BY <1>2, <1>5, <1>7, MoveGoes
<1>8. QED
  BY <1>6, <1>7 DEF Resumed

LEMMA ExpelledKeeps ==
    ASSUME DeepInvariant, Expelled, Noted, calls' = calls
    PROVE  DeepInvariant'
<1> DEFINE p == "event"
<1>1. /\ Handles("expelled")
      /\ UNCHANGED <<page, debugger, stored, pauses, alive, overwritten, unreported>>
  BY DEF Expelled, browserVars
<1>2. /\ Shared /\ Functions /\ p \in Processes /\ pc[p] = "idle" /\ alive /\ pauses \in Nat
      /\ events # <<>> /\ events' = Tail(events) /\ events' \in Seq(Events)
      /\ Fit(p, "idle", snap[p], next[p], FALSE, purpose[p])
      /\ resumed[p] = FALSE /\ purpose[p] \in Purposes
      /\ page = "paused" => Unread'
      /\ stored \in Known(pauses) /\ pauses \in 0 .. MaxPauses /\ DetachedIsGone
  BY <1>1, PopParts
<1>3. Shared'
  <2>1. alarm' \in 0 .. MaxTime
    BY <1>2, DeepCaptureConstants DEF Expelled, Shared
  <2>2. QED
    BY <1>2, <2>1, NotedType DEF Expelled, Shared, browserVars
<1>4. CaredFor'
  BY <1>1, <1>2 DEF CaredFor
<1>5. CASE UNCHANGED <<pc, localVars>>
  <2>1. Moved(p, "idle", snap[p], next[p], FALSE, purpose[p])
    BY <1>2, <1>5, MoveStays
  <2>2. "idle" \notin Publishing /\ "idle" \notin Ending
    BY DEF Publishing, Ending
  <2>3. QED
    BY <1>1, <1>2, <1>3, <1>4, <2>1, <2>2, PopKeeps
<1>6. ASSUME Read(p, "write-expelled"), NEW state \in {"detached", "error"},
             next' = [next EXCEPT ![p] = Ended(state)], UNCHANGED <<resumed, purpose>>
      PROVE  DeepInvariant'
  <2>1. PICK write : write = Ended(state)
    OBVIOUS
  <2>2. write \in Known(pauses) /\ write # NoStatus
    BY <1>2, <2>1, EndedKnown
  <2>3. Moved(p, "write-expelled", stored, write, FALSE, purpose[p])
    BY <1>2, <1>6, <2>1, MoveReads
  <2>4. Fit(p, "write-expelled", stored, write, FALSE, purpose[p])
    BY <1>2, <2>2 DEF Fit, Steps, Storing, FromRead, Publishing, Releasing
  <2>5. "write-expelled" \notin Publishing
    BY DEF Publishing
  <2>6. ~raced /\ ~Excused => Gone
    <3>1. Head(events) = events[1] /\ 1 \in DOMAIN events /\ Head(events).kind = "expelled"
      BY <1>1, <1>2, EmptySeq DEF Handles, Shared
    <3>2. ExpelledIsGone => Gone
      BY <3>1 DEF ExpelledIsGone
    <3>3. QED
      BY <1>2, <3>2 DEF DetachedIsGone
  <2>7. QED
    BY <1>1, <1>2, <1>3, <1>4, <2>3, <2>4, <2>5, <2>6, PopKeeps
<1>7. QED
  BY <1>5, <1>6 DEF Expelled

LEMMA WorkerEventKeeps ==
    ASSUME DeepInvariant, WorkerEvent, Noted, calls' = calls
    PROVE  DeepInvariant'
<1> DEFINE p == "event"
<1>1. /\ Handles("worker")
      /\ UNCHANGED <<page, debugger, stored, pauses, alive, alarm, overwritten, unreported>>
      /\ Goto(p, "reread") /\ UNCHANGED localVars
  BY DEF WorkerEvent, browserVars
<1>2. /\ Shared /\ Functions /\ p \in Processes /\ pc[p] = "idle" /\ alive /\ pauses \in Nat
      /\ events # <<>> /\ events' = Tail(events) /\ events' \in Seq(Events)
      /\ Fit(p, "idle", snap[p], next[p], FALSE, purpose[p])
      /\ resumed[p] = FALSE /\ purpose[p] \in Purposes /\ CaredFor
      /\ Unread => Unread'
  BY <1>1, PopParts
<1>3. Shared'
  BY <1>2, NotedType DEF WorkerEvent, Shared, browserVars, memoryVars
<1>4. Moved(p, "reread", snap[p], next[p], FALSE, purpose[p])
  BY <1>1, <1>2, MoveGoes
<1>5. Fit(p, "reread", snap[p], next[p], FALSE, purpose[p])
  BY <1>2 DEF Fit, Steps, Storing, FromRead, Publishing, Releasing
<1>6. OthersKept(p)
  BY <1>1, <1>2, <1>4, <1>5, MoveEffect
<1>7. CaredFor'
  <2>1. ~Carer(p) /\ Excused' = Excused
    BY <1>1, <1>2 DEF Carer, Releasing, Excused
  <2>2. QED
    BY <1>1, <1>2, <1>6, <2>1, CaredForFollows
<1>8. "reread" \notin Publishing /\ "reread" \notin Ending
  BY DEF Publishing, Ending
<1>9. QED
  BY <1>1, <1>2, <1>3, <1>4, <1>5, <1>7, <1>8, PopKeeps

LEMMA EventLostKeeps ==
    ASSUME DeepInvariant, EventLost, Noted, calls' = calls
    PROVE  DeepInvariant'
<1> DEFINE p == "event"
<1>1. PICK kind : kind = Head(events).kind
  OBVIOUS
<1>2. /\ Handles(kind) /\ Spend
      /\ UNCHANGED <<now, page, debugger, stored, pauses, alive, alarm, broken, overwritten>>
      /\ UNCHANGED <<pc, localVars>>
      /\ unreported' = (unreported \/ kind = "paused")
      /\ (intentional' = FALSE /\ resuming' = FALSE) \/ UNCHANGED <<intentional, resuming>>
  BY <1>1 DEF EventLost, Handles, browserVars
<1>3. /\ Shared /\ Functions /\ p \in Processes /\ pc[p] = "idle" /\ alive /\ pauses \in Nat
      /\ events # <<>> /\ events' = Tail(events) /\ events' \in Seq(Events)
      /\ Fit(p, "idle", snap[p], next[p], FALSE, purpose[p])
      /\ resumed[p] = FALSE /\ purpose[p] \in Purposes /\ CaredFor
      /\ kind # "paused" => (Unread => Unread')
  BY <1>2, PopParts
<1>4. Shared'
  <2>1. unreported' \in BOOLEAN /\ intentional' \in BOOLEAN /\ resuming' \in BOOLEAN
    BY <1>2, <1>3 DEF Shared
  <2>2. spent' \in 0 .. MaxFaults
    BY <1>2, <1>3, SpendTypes
  <2>3. QED
    BY <1>2, <1>3, <2>1, <2>2, NotedType DEF Shared
<1>5. Moved(p, "idle", snap[p], next[p], FALSE, purpose[p])
  BY <1>2, <1>3, MoveStays
<1>6. OthersKept(p)
  BY <1>2, <1>3, <1>5, MoveEffect
<1>7. CaredFor'
  <2>1. CASE kind = "paused"
    BY <1>2, <2>1, ExcusedIsEnough DEF Excused
  <2>2. CASE kind # "paused"
    <3>1. ~Carer(p) /\ (Excused => Excused')
      BY <1>2, <1>3 DEF Carer, Releasing, Excused
    <3>2. QED
      BY <1>2, <1>3, <1>6, <2>2, <3>1, CaredForFollows
  <2>3. QED
    BY <2>1, <2>2
<1>8. "idle" \notin Publishing /\ "idle" \notin Ending
  BY DEF Publishing, Ending
<1>9. QED
  BY <1>2, <1>3, <1>4, <1>5, <1>7, <1>8, PopKeeps

-----------------------------------------------------------------------------
(* The life of the worker *)

LEMMA KillKeeps ==
    ASSUME DeepInvariant, Kill, Noted, calls' = calls
    PROVE  DeepInvariant'
<1>1. /\ Shared /\ Functions /\ stored \in Known(pauses) /\ pauses \in Nat /\ pauses \in 0 .. MaxPauses
      /\ PageHeld /\ DetachedIsGone /\ StartsAlone
  BY InvariantParts
<1>2. /\ alive' = FALSE /\ events' = <<>>
      /\ UNCHANGED <<now, debugger, page, stored, alarm, overwritten, pauses>>
      /\ broken' = FALSE /\ intentional' = FALSE /\ resuming' = FALSE
  BY DEF Kill, browserVars
<1>3. unreported' = (unreported \/ (page = "paused" /\ (PauseOf(stored) # pauses \/ alarm = 0)))
  BY DEF Kill
<1>4. /\ pc' = [p \in Processes |-> "idle"]
      /\ snap' = [p \in Processes |-> NoStatus] /\ next' = [p \in Processes |-> NoStatus]
      /\ resumed' = [p \in Processes |-> FALSE] /\ purpose' = [p \in Processes |-> "resume"]
  BY DEF Kill
<1>5. Functions'
  BY <1>4 DEF Functions, AllSteps, Purposes
<1>6. Shared'
  <2>1. spent' \in 0 .. MaxFaults
    BY <1>1, SpendTypes DEF Kill
  <2>2. unreported' \in BOOLEAN
    BY <1>3
  <2>3. events' \in Seq(Events)
    BY <1>2, EmptySeq
  <2>4. alive' \in BOOLEAN /\ broken' \in BOOLEAN /\ intentional' \in BOOLEAN /\ resuming' \in BOOLEAN
    BY <1>2
  <2>5. QED
    BY <1>1, <1>2, <2>1, <2>2, <2>3, <2>4, NotedType DEF Shared
<1>7. \A p \in Processes : /\ pc'[p] = "idle" /\ snap'[p] = NoStatus /\ next'[p] = NoStatus
                           /\ resumed'[p] = FALSE /\ purpose'[p] = "resume"
  BY <1>4
<1>8. Local'
  <2>1. SUFFICES ASSUME NEW p \in Processes PROVE Holds(p)'
    BY DEF Local
  <2>2. Fit(p, "idle", NoStatus, NoStatus, FALSE, "resume")'
    BY DEF Fit, Steps, Storing, FromRead, Publishing, Releasing, Known
  <2>3. QED
    BY <1>7, <2>2 DEF Holds
<1>9. DeadRests' /\ PageHeld' /\ StartsAlone'
  BY <1>1, <1>2, <1>7, StartsAloneFollows DEF DeadRests, PageHeld
<1>10. Numbered' /\ InOrder' /\ EventsFollow'
  <2>1. DOMAIN events' = {}
    BY <1>2
  <2>2. pc'["event"] = "idle"
    BY <1>7, EventIsAProcess
  <2>3. QED
    BY <2>1, <2>2 DEF Numbered, InOrder, EventsFollow, Ending, Publishing
<1>11. Older'
  <2>1. SUFFICES ASSUME page' = "paused", NEW p \in Processes
                 PROVE  OlderAt(p, pc[p], snap[p], next[p], resumed[p])'
    BY DEF Older
  <2>2. QED
    BY <1>7, <2>1 DEF OlderAt
<1>12. CaredFor'
  <2>1. SUFFICES ASSUME page' = "paused", ~Excused' PROVE PauseOf(stored)' = pauses' /\ Watched'
    BY DEF CaredFor
  <2>2. ~unreported'
    BY <2>1 DEF Excused
  <2>3. PauseOf(stored) = pauses /\ alarm # 0
    BY <1>2, <1>3, <2>1, <2>2
  <2>4. QED
    BY <1>2, <2>3 DEF Watched, PauseOf
<1>13. DetachedIsGone'
  <2>1. SUFFICES ASSUME ~raced', ~Excused' PROVE ExpelledIsGone' /\ NextIsTrue' /\ StoredIsTrue'
    BY DEF DetachedIsGone
  <2>2. ~Starting /\ ~raced
    BY <1>2, <2>1 DEF Noted
  <2>3. ~Excused
    BY <1>2, <1>3, <2>1 DEF Excused
  <2>4. Says(stored) => Gone
    BY <1>1, <2>2, <2>3 DEF DetachedIsGone, StoredIsTrue, Attaching, Starting
  <2>5. ExpelledIsGone'
    BY <1>2 DEF ExpelledIsGone
  <2>6. NextIsTrue'
    BY <1>7 DEF NextIsTrue, Says
  <2>7. StoredIsTrue'
    BY <1>2, <2>4 DEF StoredIsTrue, Says, Gone
  <2>8. QED
    BY <2>5, <2>6, <2>7
<1>14. QED
  BY <1>1, <1>2, <1>5, <1>6, <1>8, <1>9, <1>10, <1>11, <1>12, <1>13, Assemble

LEMMA RestartKeeps ==
    ASSUME DeepInvariant, Restart \/ RestartFails, Noted, calls' = calls
    PROVE  DeepInvariant'
<1> DEFINE p == "reconcile"
<1>1. /\ Shared /\ Functions /\ stored \in Known(pauses) /\ pauses \in Nat /\ pauses \in 0 .. MaxPauses
      /\ PageHeld /\ DetachedIsGone /\ CaredFor /\ Numbered /\ DeadRests
      /\ p \in Processes /\ Fit(p, pc[p], snap[p], next[p], resumed[p], purpose[p])
      /\ resumed[p] \in BOOLEAN /\ purpose[p] \in Purposes
  BY InvariantParts, EventIsAProcess
<1>2. /\ alive' = TRUE /\ pc[p] = "idle" /\ ~resumed[p]
      /\ UNCHANGED <<page, debugger, events, stored, overwritten, unreported, pauses>>
  <2>1. pc[p] = "idle"
    BY <1>1 DEF Restart, RestartFails, DeadRests
  <2>2. QED
    BY <1>1, <2>1 DEF Restart, RestartFails, browserVars, Fit
<1>3. Shared'
  <2>1. alarm' \in 0 .. MaxTime
    BY <1>1, DeepCaptureConstants DEF Restart, RestartFails, Shared
  <2>2. QED
    BY <1>1, <2>1, SpendTypes, NotedType DEF Restart, RestartFails, Shared, browserVars, memoryVars
<1>4. Excused' = Excused /\ (Unread => Unread') /\ ~Carer(p)
  BY <1>2 DEF Excused, Unread, Latest, Carer, Releasing
<1>5. ASSUME NEW step \in {"idle", "observe", "decide"}, NEW status \in {snap[p], stored},
             step # "idle" => stored # NoStatus /\ status = stored,
             Moved(p, step, status, next[p], resumed[p], purpose[p]), alarm' = alarm
      PROVE  DeepInvariant'
  <2>1. Fit(p, step, status, next[p], resumed[p], purpose[p])
    BY <1>1, <1>2, <1>5 DEF Fit, Steps, Storing, FromRead, Publishing, Releasing
  <2>2. OthersKept(p) /\ next'[p] = next[p]
    BY <1>1, <1>2, <1>5, <2>1, MoveEffect DEF Became
  <2>3. DetachedIsGone'
    BY <1>1, <1>2, <1>4, <2>2, QuietGone
  <2>4. CaredFor'
    BY <1>1, <1>2, <1>4, <1>5, <2>2, CaredForFollows
  <2>5. OlderAt(p, step, status, next[p], resumed[p]) /\ (page = "paused" => debugger' = "extension")
    BY <1>1, <1>2, <1>5 DEF OlderAt, PageHeld
  <2>6. QED
    BY <1>1, <1>2, <1>3, <1>5, <2>1, <2>3, <2>4, <2>5, MoveKeeps
<1>6. CASE UNCHANGED <<pc, alarm, localVars>>
  <2>1. Moved(p, "idle", snap[p], next[p], resumed[p], purpose[p])
    BY <1>1, <1>2, <1>6, MoveStays
  <2>2. QED
    BY <1>5, <1>6, <2>1
<1>7. CASE /\ debugger = "nobody" /\ stored # NoStatus
           /\ Read(p, "write") /\ next' = [next EXCEPT ![p] = Ended("detached")]
           /\ UNCHANGED <<resumed, purpose>>
  <2>1. PICK write : write = Ended("detached")
    OBVIOUS
  <2>2. write \in Known(pauses) /\ write # NoStatus /\ write.debugger = "detached"
    BY <1>1, <2>1, EndedKnown DEF Ended
  <2>3. Moved(p, "write", stored, write, resumed[p], purpose[p])
    BY <1>1, <1>7, <2>1, MoveReads
  <2>4. Fit(p, "write", stored, write, resumed[p], purpose[p])
    BY <1>1, <1>2, <1>7, <2>2 DEF Fit, Steps, Storing, FromRead, Publishing, Releasing
  <2>5. Gone' /\ page' # "paused" /\ Numbered'
    BY <1>1, <1>2, <1>7 DEF Gone, PageHeld, Numbered
  <2>6. DetachedIsGone'
    BY <2>5, GoneIsEnough
  <2>7. QED
    BY <1>1, <1>2, <1>3, <2>3, <2>4, <2>5, <2>6, RunKeeps
<1>8. CASE /\ stored # NoStatus /\ UNCHANGED <<alarm, next, resumed, purpose>>
           /\ Read(p, "observe") \/ Read(p, "decide")
  <2>1. next' = [next EXCEPT ![p] = next[p]]
    BY <1>1, <1>8, MoveSame
  <2>2. ASSUME NEW step \in {"observe", "decide"}, Read(p, step) PROVE DeepInvariant'
    <3>1. Moved(p, step, stored, next[p], resumed[p], purpose[p])
      BY <1>1, <1>8, <2>1, <2>2, MoveReads
    <3>2. QED
      BY <1>5, <1>8, <2>2, <3>1
  <2>3. QED
    BY <1>8, <2>2
<1>9. QED
  BY <1>6, <1>7, <1>8 DEF Restart, RestartFails

-----------------------------------------------------------------------------
(* The browser *)

LEMMA LocalStays ==
    ASSUME Local, Functions, UNCHANGED <<pc, localVars, stored>>,
           pauses \in Nat, pauses' \in Nat, pauses =< pauses'
    PROVE  Local' /\ Functions'
<1>1. /\ pc' = pc /\ snap' = snap /\ next' = next /\ resumed' = resumed /\ purpose' = purpose
  BY DEF localVars
<1>2. Known(pauses) \subseteq Known(pauses')
  BY KnownGrows
<1>3. ASSUME NEW q \in Processes PROVE Holds(q)'
  <2>1. Fit(q, pc[q], snap[q], next[q], resumed[q], purpose[q])
    BY DEF Local, Holds
  <2>2. Fit(q, pc[q], snap[q], next[q], resumed[q], purpose[q])'
    BY <1>1, <1>2, <2>1 DEF Fit
  <2>3. QED
    BY <2>2 DEF Holds
<1>4. QED
  BY <1>1, <1>3 DEF Local, Functions

LEMMA GoneStays ==
    ASSUME DetachedIsGone, Noted, UNCHANGED <<pc, localVars, stored, overwritten, unreported>>,
           Gone => Gone', ExpelledIsGone => ExpelledIsGone'
    PROVE  DetachedIsGone'
<1>1. next' = next /\ pc' = pc /\ stored' = stored /\ Excused' = Excused
  BY DEF localVars, Excused
<1>2. raced => raced'
  BY DEF Noted
<1>3. (NextIsTrue => NextIsTrue') /\ (StoredIsTrue => StoredIsTrue')
  BY <1>1 DEF NextIsTrue, StoredIsTrue, Says, Attaching
<1>4. QED
  BY <1>1, <1>2, <1>3 DEF DetachedIsGone

\* The page is let go.
LEMMA BrowserRuns ==
    ASSUME DeepInvariant, Noted, UNCHANGED <<pc, localVars, stored, alive, pauses, overwritten, unreported>>,
           Shared', page' # "paused", Numbered', Gone => Gone', ExpelledIsGone => ExpelledIsGone'
    PROVE  DeepInvariant'
<1>1. /\ Functions /\ stored \in Known(pauses) /\ pauses \in Nat /\ Local /\ DeadRests /\ DetachedIsGone
  BY InvariantParts
<1>2. Local' /\ Functions'
  BY <1>1, LocalStays
<1>3. stored' \in Known(pauses') /\ pauses' \in Nat /\ DeadRests' /\ StartsAlone'
  BY <1>1, StartsAloneFollows DEF DeadRests
<1>4. DetachedIsGone'
  BY <1>1, GoneStays
<1>5. QED
  BY <1>2, <1>3, <1>4, RunningPage, Assemble

\* The page stays as it is.
LEMMA NothingMoves ==
    ASSUME DeepInvariant, Noted,
           UNCHANGED <<pc, localVars, stored, alive, page, debugger, pauses, alarm, overwritten,
                      unreported>>,
           Shared', Numbered', InOrder', Unread => Unread', ExpelledIsGone => ExpelledIsGone'
    PROVE  DeepInvariant'
<1>1. /\ Functions /\ stored \in Known(pauses) /\ pauses \in Nat /\ Local /\ DeadRests /\ DetachedIsGone
      /\ PageHeld /\ EventsFollow /\ Older /\ CaredFor
  BY InvariantParts
<1>2. Local' /\ Functions'
  BY <1>1, LocalStays
<1>3. stored' \in Known(pauses') /\ pauses' \in Nat /\ DeadRests' /\ StartsAlone' /\ PageHeld'
  BY <1>1, StartsAloneFollows DEF DeadRests, PageHeld
<1>4. Gone => Gone'
  BY DEF Gone
<1>5. DetachedIsGone'
  BY <1>1, <1>4, GoneStays
<1>6. next' = next /\ snap' = snap /\ resumed' = resumed /\ Excused' = Excused
  BY DEF localVars, Excused
<1>7. EventsFollow' /\ Older'
  BY <1>1, <1>6 DEF EventsFollow, Older, OlderAt, PauseOf
<1>8. CaredFor'
  <2>1. Watched => Watched'
    BY <1>6 DEF Watched, WillTell
  <2>2. \A q \in Processes : InCharge(q) => InCharge(q)'
    BY <1>6 DEF InCharge, PauseOf
  <2>3. QED
    BY <1>1, <1>6, <2>1, <2>2 DEF CaredFor, PauseOf
<1>9. QED
  BY <1>2, <1>3, <1>5, <1>7, <1>8, Assemble

LEMMA PageStopsKeeps ==
    ASSUME DeepInvariant, PageStops, Noted, calls' = calls
    PROVE  DeepInvariant'
<1>1. /\ Shared /\ Functions /\ stored \in Known(pauses) /\ pauses \in Nat /\ pauses \in 0 .. MaxPauses
      /\ Local /\ DeadRests /\ DetachedIsGone /\ Numbered
      /\ \A p \in Processes : Fit(p, pc[p], snap[p], next[p], resumed[p], purpose[p])
  BY InvariantParts
<1>2. /\ debugger = "extension" /\ debugger' = debugger /\ page' = "paused"
      /\ pauses' = pauses + 1 /\ pauses < MaxPauses
      /\ UNCHANGED <<pc, localVars, stored, alive, overwritten, unreported>>
  BY DEF PageStops
<1>3. PICK told : told = [kind |-> "paused", stop |-> pauses']
  OBVIOUS
<1>4. pauses' \in 0 .. MaxPauses /\ pauses' \in Nat /\ pauses =< pauses' /\ pauses' \in 1 .. MaxPauses
  BY <1>1, <1>2, DeepCaptureConstants
<1>5. told \in Events /\ told.kind = "paused" /\ told.stop = pauses' /\ told.stop =< pauses'
  BY <1>3, <1>4 DEF Events
<1>6. told = Latest' /\ events' = Append(events, told) /\ events \in Seq(Events)
  BY <1>1, <1>3 DEF PageStops, Latest, Shared
<1>7. Gone => Gone'
  BY <1>2 DEF Gone
<1>8. Numbered' /\ events' \in Seq(Events) /\ Unread' /\ InOrder' /\ (ExpelledIsGone => ExpelledIsGone')
  BY <1>1, <1>4, <1>5, <1>6, <1>7, MoreEvents
<1>9. Shared'
  BY <1>1, <1>2, <1>4, <1>8, NotedType DEF PageStops, Shared, memoryVars
<1>10. Local' /\ Functions' /\ stored' \in Known(pauses')
  BY <1>1, <1>2, <1>4, LocalStays, KnownGrows
<1>11. DetachedIsGone'
  BY <1>1, <1>2, <1>7, <1>8, GoneStays
<1>12. DeadRests' /\ StartsAlone' /\ PageHeld' /\ EventsFollow' /\ CaredFor'
  BY <1>1, <1>2, <1>4, <1>8, StartsAloneFollows DEF DeadRests, PageHeld, EventsFollow, CaredFor
<1>13. Older'
  <2>1. SUFFICES ASSUME NEW p \in Processes PROVE OlderAt(p, pc[p], snap[p], next[p], resumed[p])'
    BY DEF Older
  <2>2. PauseOf(snap[p]) \in Nat /\ PauseOf(snap[p]) < pauses'
    BY <1>1, <1>2, <1>4, KnownParts DEF Fit
  <2>3. snap' = snap
    BY <1>2 DEF localVars
  <2>4. PauseOf(snap'[p]) < pauses' /\ PauseOf(snap'[p]) # pauses'
    BY <1>4, <2>2, <2>3
  <2>5. QED
    BY <2>4 DEF OlderAt, PauseOf
<1>14. QED
  BY <1>4, <1>8, <1>9, <1>10, <1>11, <1>12, <1>13, Assemble

LEMMA BrowserKeeps ==
    ASSUME DeepInvariant, Browser, Noted, calls' = calls
    PROVE  DeepInvariant'
<1>1. /\ Shared /\ Functions /\ pauses \in Nat /\ pauses \in 0 .. MaxPauses
      /\ PageHeld /\ Numbered /\ InOrder /\ events \in Seq(Events)
  BY InvariantParts DEF Shared
<1>2. CASE PageStops
  BY <1>2, PageStopsKeeps
<1>3. CASE PageResumes \/ SessionEnds
  <2>1. PICK told \in {Told("resumed"), Told("expelled")} :
          events' = Append(events, told) /\ (told.kind = "expelled" => debugger' # "extension")
    BY <1>3, ToldIsAnEvent DEF PageResumes, SessionEnds
  <2>2. told \in Events /\ told.stop =< pauses
    BY <1>1, <2>1, ToldIsAnEvent
  <2>3. /\ page' = "running" /\ debugger' \in {debugger, "nobody", "other"}
        /\ UNCHANGED <<pc, localVars, stored, alive, pauses, overwritten, unreported>>
    BY <1>3 DEF PageResumes, SessionEnds
  <2>4. (Gone => Gone') /\ (told.kind = "expelled" => Gone')
    BY <2>1, <2>3 DEF Gone
  <2>5. Numbered' /\ events' \in Seq(Events) /\ (ExpelledIsGone => ExpelledIsGone')
    BY <1>1, <2>1, <2>2, <2>3, <2>4, MoreEvents
  <2>6. Shared'
    <3>1. spent' \in 0 .. MaxFaults
      BY <1>1, <1>3, SpendTypes DEF PageResumes, SessionEnds
    <3>2. UNCHANGED <<now, alarm, broken, intentional, resuming>>
      BY <1>3 DEF PageResumes, SessionEnds, memoryVars
    <3>3. QED
      BY <1>1, <2>3, <2>5, <3>1, <3>2, NotedType DEF Shared
  <2>7. QED
    BY <2>3, <2>4, <2>5, <2>6, BrowserRuns
<1>4. CASE OtherLeaves
  <2>1. Gone' /\ page' # "paused" /\ Numbered' /\ ExpelledIsGone'
    BY <1>1, <1>4 DEF OtherLeaves, Gone, PageHeld, Numbered, ExpelledIsGone
  <2>2. Shared'
    BY <1>1, <1>4, NotedType DEF OtherLeaves, Shared, memoryVars
  <2>3. QED
    BY <1>4, <2>1, <2>2, BrowserRuns DEF OtherLeaves
<1>5. CASE WorkerChanges
  <2>1. PICK told : told = Told("worker")
    OBVIOUS
  <2>2. told \in Events /\ told.kind = "worker" /\ told.stop =< pauses'
    BY <1>1, <1>5, <2>1, ToldIsAnEvent DEF WorkerChanges
  <2>3. /\ events' = Append(events, told) /\ pauses' = pauses /\ page' = page /\ debugger' = debugger
        /\ UNCHANGED <<pc, localVars, stored, alive, alarm, overwritten, unreported>>
    BY <1>5, <2>1 DEF WorkerChanges, browserVars
  <2>4. Gone => Gone'
    BY <2>3 DEF Gone
  <2>5. /\ Numbered' /\ events' \in Seq(Events) /\ InOrder' /\ (Unread => Unread')
        /\ ExpelledIsGone => ExpelledIsGone'
    BY <1>1, <2>2, <2>3, <2>4, MoreEvents
  <2>6. Shared'
    <3>1. spent' \in 0 .. MaxFaults
      BY <1>1, <1>5, SpendTypes DEF WorkerChanges
    <3>2. QED
      BY <1>1, <1>5, <2>5, <3>1, NotedType DEF WorkerChanges, Shared, memoryVars, browserVars
  <2>7. QED
    BY <2>3, <2>5, <2>6, NothingMoves
<1>6. CASE IntentForgotten \/ Tick
  <2>1. UNCHANGED <<pc, localVars, stored, alive, page, debugger, events, pauses, alarm, overwritten, unreported>>
    BY <1>6 DEF IntentForgotten, Tick, browserVars
  <2>2. Shared'
    <3>1. now' \in 0 .. MaxTime
      BY <1>1, <1>6, DeepCaptureConstants DEF IntentForgotten, Tick, browserVars, Shared
    <3>2. intentional' \in BOOLEAN /\ UNCHANGED <<broken, resuming, spent>>
      BY <1>1, <1>6 DEF IntentForgotten, Tick, memoryVars, Shared
    <3>3. QED
      BY <1>1, <2>1, <3>1, <3>2, NotedType DEF Shared
  <2>3. Numbered' /\ InOrder' /\ (Unread => Unread') /\ (ExpelledIsGone => ExpelledIsGone')
    BY <1>1, <2>1, SameEvents DEF ExpelledIsGone, Gone
  <2>4. QED
    BY <2>1, <2>2, <2>3, NothingMoves
<1>7. QED
  BY <1>2, <1>3, <1>4, <1>5, <1>6 DEF Browser

-----------------------------------------------------------------------------
(* The invariant and what follows from it *)

LEMMA InitInvariant == Init => DeepInvariant
<1> SUFFICES ASSUME Init PROVE DeepInvariant
  OBVIOUS
<1>1. /\ MaxTime \in Nat \ {0} /\ MaxPauses \in Nat /\ MaxCalls \in Nat /\ MaxFaults \in Nat
      /\ pauses = 0 /\ pauses \in 0 .. MaxPauses /\ 0 \in 0 .. MaxTime
  BY DeepCaptureConstants DEF Init
<1>2. stored \in Known(pauses) /\ ~Says(stored) /\ debugger \in {"nobody", "extension"}
  <2>1. CASE stored = NoStatus
    BY <2>1 DEF Init, Known, Says
  <2>2. CASE stored = [Fresh EXCEPT !.state = "armed"]
    BY <1>1, <2>2, FreshKnown DEF Init
  <2>3. QED
    BY <2>1, <2>2 DEF Init
<1>3. stored \in Statuses \cup {NoStatus}
  BY <1>1, <1>2, KnownParts
<1>4. /\ page = "running" /\ events = <<>> /\ alive = TRUE /\ ~raced
      /\ pc = [p \in Processes |-> "idle"] /\ snap = [p \in Processes |-> NoStatus]
      /\ next = [p \in Processes |-> NoStatus] /\ resumed = [p \in Processes |-> FALSE]
      /\ purpose = [p \in Processes |-> "resume"]
  BY DEF Init
<1>5. Functions
  BY <1>4 DEF Functions, AllSteps, Purposes
<1>6. Shared
  <2>1. events \in Seq(Events)
    BY <1>4, EmptySeq
  <2>2. calls = 0 /\ spent = 0 /\ now = 0 /\ alarm = 0
    BY DEF Init
  <2>3. /\ alive \in BOOLEAN /\ broken \in BOOLEAN /\ intentional \in BOOLEAN /\ resuming \in BOOLEAN
        /\ overwritten \in BOOLEAN /\ unreported \in BOOLEAN /\ raced \in BOOLEAN
    BY DEF Init
  <2>4. QED
    BY <1>1, <1>2, <1>4, <2>1, <2>2, <2>3 DEF Shared
<1>7. TypeOK
  BY <1>3, <1>5, <1>6, TypeParts
<1>8. \A p \in Processes : /\ pc[p] = "idle" /\ snap[p] = NoStatus /\ next[p] = NoStatus
                           /\ resumed[p] = FALSE /\ purpose[p] = "resume"
  BY <1>4
<1>9. Local
  BY <1>8, EndFits DEF Local, Holds
<1>10. DeadRests /\ PageHeld /\ InOrder /\ EventsFollow /\ Older /\ CaredFor
  BY <1>4 DEF DeadRests, PageHeld, InOrder, EventsFollow, Older, CaredFor
<1>11. DOMAIN events = {}
  BY <1>4
<1>12. Numbered /\ ExpelledIsGone
  BY <1>11 DEF Numbered, ExpelledIsGone
<1>13. StartsAlone
  BY <1>8 DEF StartsAlone, Racing, Starting, Processes
<1>14. DetachedIsGone
  BY <1>2, <1>8, <1>12 DEF DetachedIsGone, NextIsTrue, StoredIsTrue, Says
<1>15. QED
  BY <1>2, <1>7, <1>9, <1>10, <1>12, <1>13, <1>14 DEF DeepInvariant

LEMMA StepKeeps == DeepInvariant /\ Next => DeepInvariant'
<1> SUFFICES ASSUME DeepInvariant, Step, Noted PROVE DeepInvariant'
  BY DEF Next
<1>1. calls \in 0 .. MaxCalls /\ MaxCalls \in Nat
  BY InvariantParts, DeepCaptureConstants DEF Shared
<1>2. CASE CallBegins
  <2>1. calls' \in 0 .. MaxCalls /\ spent' = spent
    BY <1>1, <1>2 DEF CallBegins
  <2>2. QED
    BY <1>2, <2>1, StartReadKeeps, KeepReadKeeps, CalledKeeps DEF CallBegins
<1>3. CASE calls' = calls /\ CallStep
  BY <1>3, ArmKeeps, WriteArmedKeeps, ObserveKeeps, RereadKeeps, RewriteKeeps, WriteKeptKeeps,
     WatchKeptKeeps DEF CallStep, Processes
<1>4. CASE calls' = calls /\ EventStep
  <2>1. CASE Paused \/ Orphan \/ WritePause \/ Watch \/ Enrich \/ EnrichFails \/ WriteEnriched
    BY <1>4, <2>1, PausedKeeps, OrphanKeeps, OrphanForgottenKeeps, WritePauseKeeps, WatchKeeps,
       EnrichKeeps, EnrichFailsKeeps, WriteEnrichedKeeps
  <2>2. CASE EventLost \/ Resumed \/ Settle \/ SettleFails \/ WriteExternal \/ Expelled
               \/ WriteExpelled \/ WorkerEvent
    BY <1>4, <2>2, EventLostKeeps, ResumedKeeps, SettleKeeps, SettleFailsKeeps, WriteExternalKeeps,
       ExpelledKeeps, WriteExpelledKeeps, WorkerEventKeeps
  <2>3. CASE Reread("event") \/ Rewrite("event")
    BY <1>4, <2>3, RereadKeeps, RewriteKeeps, EventIsAProcess
  <2>4. QED
    BY <1>4, <2>1, <2>2, <2>3 DEF EventStep
<1>5. CASE calls' = calls /\ ReconcileStep
  BY <1>5, ObserveKeeps, RereadKeeps, RewriteKeeps, DecideKeeps, EventIsAProcess DEF ReconcileStep
<1>6. CASE calls' = calls /\ \E p \in Processes : ReleaseStep(p)
  <2>1. SUFFICES ASSUME NEW p \in Processes, ReleaseStep(p), calls' = calls PROVE DeepInvariant'
    BY <1>6
  <2>2. CASE Reads(p)
    BY <2>1, <2>2, ReadsKeeps, ReadsFailKeeps DEF Reads
  <2>3. QED
    BY <2>1, <2>2, ResumeKeeps, DisarmedKeeps, DetachKeeps, WriteReleasedKeeps DEF ReleaseStep
<1>7. CASE calls' = calls /\ (AlarmFires \/ AlarmLost \/ Kill \/ Restart \/ RestartFails \/ Browser)
  BY <1>7, AlarmFiresKeeps, AlarmLostKeeps, KillKeeps, RestartKeeps, BrowserKeeps
<1>8. QED
  BY <1>2, <1>3, <1>4, <1>5, <1>6, <1>7 DEF Step

LEMMA StutterKeeps == DeepInvariant /\ UNCHANGED vars => DeepInvariant'
<1> SUFFICES ASSUME DeepInvariant, UNCHANGED vars PROVE DeepInvariant'
  OBVIOUS
<1>1. /\ UNCHANGED <<now, debugger, page, events, stored, alarm, alive, broken, intentional, resuming>>
      /\ UNCHANGED <<pc, snap, next, resumed, purpose, overwritten, unreported, raced, pauses, calls, spent>>
  BY DEF vars, browserVars, memoryVars, localVars
<1>2. TypeOK'
  BY <1>1 DEF DeepInvariant, TypeOK
<1>3. Local' /\ DeadRests' /\ PageHeld' /\ stored' \in Known(pauses')
  BY <1>1 DEF DeepInvariant, Local, Holds, Fit, DeadRests, PageHeld
<1>4. Numbered' /\ InOrder' /\ EventsFollow'
  BY <1>1 DEF DeepInvariant, Numbered, InOrder, EventsFollow, Unread, Latest
<1>5. Older'
  BY <1>1 DEF DeepInvariant, Older, OlderAt
<1>6. CaredFor'
  BY <1>1 DEF DeepInvariant, CaredFor, Excused, Unread, Latest, InCharge, Watched, WillTell
<1>7. StartsAlone'
  BY <1>1 DEF DeepInvariant, StartsAlone, Racing, Starting
<1>8. DetachedIsGone'
  BY <1>1 DEF DeepInvariant, DetachedIsGone, Excused, ExpelledIsGone, NextIsTrue, StoredIsTrue, Gone,
              Attaching, Says
<1>9. QED
  BY <1>2, <1>3, <1>4, <1>5, <1>6, <1>7, <1>8 DEF DeepInvariant

LEMMA Invariance == Spec => []DeepInvariant
<1>1. DeepInvariant /\ [Next]_vars => DeepInvariant'
  BY StepKeeps, StutterKeeps
<1>2. QED
  BY <1>1, InitInvariant, PTL DEF Spec

LEMMA WatchedWhenQuiet == DeepInvariant => StoppedPageIsWatched
<1> SUFFICES ASSUME DeepInvariant, Quiet, page = "paused", ~Excused
             PROVE  /\ stored # NoStatus
                    /\ \/ stored.state = "paused" /\ alarm # 0
                       \/ stored.page = "possibly-paused"
  BY DEF StoppedPageIsWatched
<1>1. stored \in Known(pauses) /\ pauses \in Nat /\ pauses # 0 /\ CaredFor
  BY InvariantParts DEF PageHeld
<1>2. events = <<>> /\ DOMAIN events = {} /\ \A p \in Processes : pc[p] = "idle"
  BY DEF Quiet
<1>3. ~Unread /\ pc["event"] = "idle" /\ \A p \in Processes : ~InCharge(p) /\ ~WillTell(p)
  BY <1>2, EventIsAProcess DEF Unread, InCharge, WillTell, Releasing
<1>4. PauseOf(stored) = pauses /\ Watched
  BY <1>1, <1>3 DEF CaredFor
<1>5. stored # NoStatus /\ stored.pause.id # 0 /\ Sane(stored, pauses)
  BY <1>1, <1>4, KnownParts DEF PauseOf
<1>6. alarm # 0 \/ stored.page = "possibly-paused"
  BY <1>3, <1>4 DEF Watched
<1>7. QED
  BY <1>5, <1>6 DEF Sane

LEMMA TrueWhenQuiet == DeepInvariant => StatusSound
<1> SUFFICES ASSUME DeepInvariant PROVE TypeOK /\ StatusIsTrue
  BY DEF StatusSound
<1>1. TypeOK
  BY DEF DeepInvariant
<1>2. SUFFICES ASSUME Quiet, ~Excused, ~raced, stored # NoStatus
               PROVE  /\ stored.page = "running" /\ stored.state # "paused" => page = "running"
                      /\ stored.debugger = "detached" => debugger # "extension"
  BY <1>1 DEF StatusIsTrue
<1>3. stored.page = "running" /\ stored.state # "paused" => page = "running"
  BY <1>1, <1>2, WatchedWhenQuiet DEF StoppedPageIsWatched, TypeOK
<1>4. stored.debugger = "detached" => debugger # "extension"
  <2>1. ~Attaching
    BY <1>2 DEF Quiet, Attaching, Processes
  <2>2. StoredIsTrue
    BY <1>2 DEF DeepInvariant, DetachedIsGone
  <2>3. QED
    BY <1>2, <2>1, <2>2 DEF StoredIsTrue, Says, Gone
<1>5. QED
  BY <1>3, <1>4

\* Whenever nothing is under way, a page that is stopped is published as stopped and
\* watched by an alarm, or reported as possibly stopped: whatever runs, events, failing
\* commands and terminations came before, a pause of the debugger is never lost out of
\* sight, unless a status was written over one that its writer had not read, or one of
\* the failures came that the history unreported names.
THEOREM StoppedPagesAreWatched == Spec => []StoppedPageIsWatched
BY Invariance, WatchedWhenQuiet, PTL

\* The state is well formed; and whenever nothing is under way, a page that is reported
\* to run does run and a session that is reported detached does not debug the tab, except
\* where a start ran beside something else, or for the same two exceptions.
THEOREM StatusIsSound == Spec => []StatusSound
BY Invariance, TrueWhenQuiet, PTL
=============================================================================
