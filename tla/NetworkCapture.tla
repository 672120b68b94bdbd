---------------------------- MODULE NetworkCapture ----------------------------
(***************************************************************************)
(* The network capture (features/network-capture/service.ts): per tab a    *)
(* session that records the requests of one document, follows it to        *)
(* documents of the same origin, keeps to budgets of entries and bytes,    *)
(* and is written behind to storage.session.                               *)
(*                                                                         *)
(* A record is the number of its request, its size and the origin that it  *)
(* came from; a document is its number in the tab and its origin. The      *)
(* owners are local: GrantLifecycle has the captures of grants. A          *)
(* revision is kept as what is compared: newer than the snapshot last      *)
(* taken, or not. Bounds: MaxNcOperations, MaxNcEvents.                    *)
(***************************************************************************)
EXTENDS Integers, Sequences, FiniteSetsExt

CONSTANTS
    Tabs,
    NoSession,
    MaxEntries,     \* maxEntries of a session
    MaxBytes,       \* NETWORK_CAPTURE_SESSION_MAX_BYTES
    MaxAllEntries,  \* NETWORK_CAPTURE_GLOBAL_MAX_ENTRIES
    MaxAllBytes,    \* NETWORK_CAPTURE_GLOBAL_MAX_BYTES
    MaxSessions,    \* NETWORK_CAPTURE_MAX_SESSIONS
    MaxDeferred,    \* MAX_DEFERRED_CAPTURE_EVENTS
    MaxNcOperations,    \* requests, their events and the calls in all
    MaxNcEvents     \* navigations, failing storage calls and terminations in all

ASSUME NetworkCaptureConstants ==
    /\ IsFiniteSet(Tabs)
    /\ {MaxEntries, MaxBytes, MaxAllEntries, MaxAllBytes, MaxSessions} \subseteq Nat \ {0}
    /\ {MaxDeferred, MaxNcOperations, MaxNcEvents} \subseteq Nat

VARIABLES
    ncDocument,     \* the document that a tab shows
    ncCommits,      \* the navigations not yet handled, each with the session that its
                    \* handler has read
    ncSession,      \* captureSessions
    ncCount, ncBytes,   \* totalRecordCount and totalRetainedBytes
    ncStart,        \* the document that a start in progress was answered with
    ncDeferred,     \* deferredCaptureEvents
    ncStored,       \* the snapshot in storage.session
    ncWrite,        \* the snapshot that is being written
    ncTimer, ncWriting,     \* persistTimer and persistInFlight
    ncMutated,      \* mutationRevision is newer than the snapshot last taken
    ncLife,         \* the worker: "off", "restoring" or "on"
    ncRaced,        \* history: the tabs that navigated while a start was answered
    ncOperations, ncEvents

ncVars == <<ncDocument, ncCommits, ncSession, ncCount, ncBytes, ncStart, ncDeferred, ncStored,
            ncWrite, ncTimer, ncWriting, ncMutated, ncLife, ncRaced, ncOperations,
            ncEvents>>

Origins == {"own", "foreign"}
Documents == [number : 1 .. MaxNcEvents + 1, origin : Origins]
Requests == [id : 1 .. MaxNcOperations, size : 1 .. 2, origin : Origins]

StoredSessions == [id : 1 .. MaxNcOperations, document : Documents, records : Seq(Requests)]
CaptureSessions ==
    [id : 1 .. MaxNcOperations, document : Documents, records : Seq(Requests), bytes : Nat,
     persistence : {"pending", "persisted", "degraded"}, newer : BOOLEAN]

ASSUME NetworkCaptureNone == NoSession \notin CaptureSessions \cup StoredSessions \cup Documents

NcTypeOK ==
    /\ ncDocument \in [Tabs -> Documents]
    /\ ncCommits \in Seq([tab : Tabs, document : Documents, session : 0 .. MaxNcOperations])
    /\ ncSession \in [Tabs -> CaptureSessions \cup {NoSession}]
    /\ ncStored \in [Tabs -> StoredSessions \cup {NoSession}]
    /\ ncWrite \in [Tabs -> StoredSessions \cup {NoSession}]
    /\ ncStart \in [Tabs -> Documents \cup {NoSession}]
    /\ ncDeferred \in Seq([tab : Tabs, document : Documents, id : 1 .. MaxNcOperations])
    /\ Len(ncDeferred) <= MaxDeferred
    /\ ncCount \in Nat /\ ncBytes \in Nat
    /\ {ncTimer, ncWriting, ncMutated} \subseteq BOOLEAN
    /\ ncLife \in {"off", "restoring", "replaying", "on"} /\ ncRaced \subseteq Tabs
    /\ ncOperations \in 0 .. MaxNcOperations
    /\ ncEvents \in 0 .. MaxNcEvents

Nothing == [tab \in Tabs |-> NoSession]

NcInit ==
    /\ ncDocument = [tab \in Tabs |-> [number |-> 1, origin |-> "own"]]
    /\ ncCommits = <<>> /\ ncSession = Nothing /\ ncCount = 0 /\ ncBytes = 0
    /\ ncStart = Nothing /\ ncDeferred = <<>> /\ ncStored = Nothing /\ ncWrite = Nothing
    /\ ncTimer = FALSE /\ ncWriting = FALSE /\ ncMutated = FALSE
    /\ ncLife = "on" /\ ncRaced = {}
    /\ ncOperations = 0 /\ ncEvents = 0

-----------------------------------------------------------------------------
(* Sums and budgets *)

Capturing(sessions) == {tab \in Tabs : sessions[tab] # NoSession}

TotalOf(weight, set) == FoldFunctionOnSet(+, 0, weight, set)

SizeOf(records) == TotalOf([i \in DOMAIN records |-> records[i].size], DOMAIN records)

Entries(session) == IF session = NoSession THEN 0 ELSE Len(session.records)
Bytes(session) == IF session = NoSession THEN 0 ELSE session.bytes

EntriesIn(sessions, tabs) == TotalOf([tab \in Tabs |-> Entries(sessions[tab])], tabs)
BytesIn(sessions, tabs) == TotalOf([tab \in Tabs |-> Bytes(sessions[tab])], tabs)

\* removeRecordAt, n times: records are removed oldest first.
Rest(session, n) == SubSeq(session.records, n + 1, Len(session.records))
Shortened(session, n) ==
    [session EXCEPT !.records = Rest(session, n),
                    !.bytes = @ - (SizeOf(session.records) - SizeOf(Rest(session, n)))]

LeastThat(Fits(_), bound) ==
    CHOOSE n \in 0 .. bound : Fits(n) /\ \A less \in 0 .. n - 1 : ~Fits(less)

\* enforceBudgets: what a session removes for its own budgets, and with the records of all
\* sessions that are as old as a given one.
Excess(session) ==
    LET Fits(n) == /\ Len(session.records) - n <= MaxEntries
                   /\ session.bytes - (SizeOf(session.records) - SizeOf(Rest(session, n))) <= MaxBytes
    IN  LeastThat(Fits, Len(session.records))
UpTo(session, id) == Cardinality({i \in DOMAIN session.records : session.records[i].id <= id})

Trimmed(sessions, id) ==
    [tab \in Tabs |-> IF sessions[tab] = NoSession THEN NoSession
                      ELSE Shortened(sessions[tab], Max({Excess(sessions[tab]), UpTo(sessions[tab], id)}))]

WithinBudgets(sessions) ==
    LET Fits(id) == /\ EntriesIn(Trimmed(sessions, id), Tabs) <= MaxAllEntries
                    /\ BytesIn(Trimmed(sessions, id), Tabs) <= MaxAllBytes
    IN  Trimmed(sessions, LeastThat(Fits, MaxNcOperations))

-----------------------------------------------------------------------------
(* Write-behind *)

\* schedulePersist
Scheduled == ncTimer' = (ncTimer \/ ~ncWriting)

\* markDirty: these sessions differ from what is stored.
MarkDirty(sessions, changed) ==
    /\ ncSession' = [tab \in Tabs |->
         IF tab \notin changed \cap Capturing(sessions) THEN sessions[tab]
         ELSE [sessions[tab] EXCEPT !.newer = TRUE,
                                    !.persistence = IF @ = "degraded" THEN @ ELSE "pending"]]
    /\ ncMutated' = TRUE
    /\ Scheduled

\* deleteSession
SessionsDeleted(sessions, tabs) ==
    /\ ncCount' = ncCount - EntriesIn(sessions, tabs)
    /\ ncBytes' = ncBytes - BytesIn(sessions, tabs)
    /\ MarkDirty([tab \in Tabs |-> IF tab \in tabs THEN NoSession ELSE sessions[tab]], {})

Operation == ncOperations < MaxNcOperations /\ ncOperations' = ncOperations + 1
NcEvent == ncEvents < MaxNcEvents /\ ncEvents' = ncEvents + 1

\* The timer takes a snapshot and begins to write it.
PersistFires ==
    /\ ncTimer /\ ncLife = "on"
    /\ ncTimer' = FALSE /\ ncWriting' = TRUE /\ ncMutated' = FALSE
    /\ ncWrite' = [tab \in Tabs |-> IF ncSession[tab] = NoSession THEN NoSession
                                    ELSE [id |-> ncSession[tab].id,
                                          document |-> ncSession[tab].document,
                                          records |-> ncSession[tab].records]]
    /\ ncSession' = [tab \in Tabs |-> IF ncSession[tab] = NoSession THEN NoSession
                                      ELSE [ncSession[tab] EXCEPT !.newer = FALSE]]
    /\ UNCHANGED <<ncDocument, ncCommits, ncCount, ncBytes, ncStart, ncDeferred, ncStored, ncLife,
                   ncRaced, ncOperations, ncEvents>>

\* A write that landed is credited to the sessions that are not newer.
Credited(session) == IF session.newer THEN session ELSE [session EXCEPT !.persistence = "persisted"]

Written ==
    /\ ncWriting
    /\ ncWriting' = FALSE /\ ncTimer' = ncMutated /\ ncWrite' = Nothing
    /\ \/ /\ ncStored' = ncWrite
          /\ ncSession' = [tab \in Tabs |-> IF ncSession[tab] = NoSession THEN NoSession
                                            ELSE Credited(ncSession[tab])]
          /\ UNCHANGED ncEvents
       \/ /\ NcEvent
          /\ ncSession' = [tab \in Tabs |-> IF ncSession[tab] = NoSession THEN NoSession
                                            ELSE [ncSession[tab] EXCEPT !.persistence = "degraded"]]
          /\ UNCHANGED ncStored
    /\ UNCHANGED <<ncDocument, ncCommits, ncCount, ncBytes, ncStart, ncDeferred, ncMutated, ncLife,
                   ncRaced, ncOperations>>

-----------------------------------------------------------------------------
(* Requests *)

\* matchingSession: only the requests of the document that the session is bound to.
Matches(tab, document) ==
    ncSession[tab] # NoSession /\ ncSession[tab].document = document

\* commit: the budgets are enforced on all sessions.
Commits(tab, session) ==
    LET before == [ncSession EXCEPT ![tab] = session]
        after == WithinBudgets(before)
    IN  /\ MarkDirty(after, {tab} \cup {t \in Capturing(after) : after[t] # before[t]})
        /\ ncCount' = ncCount + (Len(session.records) - Len(ncSession[tab].records))
                      - (EntriesIn(before, Tabs) - EntriesIn(ncSession', Tabs))
        /\ ncBytes' = ncBytes + (session.bytes - ncSession[tab].bytes)
                      - (BytesIn(before, Tabs) - BytesIn(ncSession', Tabs))

\* onBeforeRequest of a new request.
Recorded(tab, document, id) ==
    Commits(tab, [ncSession[tab] EXCEPT
                    !.records = Append(@, [id |-> id, size |-> 1, origin |-> document.origin]),
                    !.bytes = @ + 1])

Defer(request) ==
    IF Len(ncDeferred) >= MaxDeferred THEN ncDeferred ELSE Append(ncDeferred, request)

\* dispatchCaptureEvent: a document of the tab, maybe one that is being left, makes a
\* request; while the sessions are being restored it is deferred.
Request(tab) ==
    /\ ncLife \in {"restoring", "on"} /\ Operation
    /\ \E document \in {ncDocument[tab]} \cup {ncCommits[i].document : i \in DOMAIN ncCommits} :
         IF ncLife = "restoring"
         THEN /\ ncDeferred' = Defer([tab |-> tab, document |-> document, id |-> ncOperations'])
              /\ UNCHANGED <<ncSession, ncCount, ncBytes, ncMutated, ncTimer>>
         ELSE /\ Matches(tab, document)
              /\ Recorded(tab, document, ncOperations')
              /\ UNCHANGED ncDeferred
    /\ UNCHANGED <<ncDocument, ncCommits, ncStart, ncStored, ncWrite, ncWriting, ncLife, ncRaced,
                   ncEvents>>

\* MUTANT of Grown: only the total grows with the record.
GrownOutside(session, i) == [session EXCEPT !.records[i].size = 2]

\* refreshRecordAccounting of a record that has grown
Grown(session, i) ==
    [session EXCEPT !.records[i].size = 2, !.bytes = @ + (2 - session.records[i].size)]

\* The later events of a request (onBeforeSendHeaders to onErrorOccurred) find its
\* record and change it.
Update(tab) ==
    /\ ncLife = "on" /\ Operation /\ ncSession[tab] # NoSession
    /\ \E i \in DOMAIN ncSession[tab].records :
         /\ ncSession[tab].records[i].size = 1
         /\ Commits(tab, Grown(ncSession[tab], i))
    /\ UNCHANGED <<ncDocument, ncCommits, ncStart, ncDeferred, ncStored, ncWrite, ncWriting, ncLife,
                   ncRaced, ncEvents>>

-----------------------------------------------------------------------------
(* Sessions *)

\* startNetworkCapture: captureBoundary asks the browser for the document.
StartCapture(tab) ==
    /\ ncLife = "on" /\ ncOperations < MaxNcOperations
    /\ ncStart[tab] = NoSession
    /\ ncDocument[tab].origin = "own"
    /\ ncStart' = [ncStart EXCEPT ![tab] = ncDocument[tab]]
    /\ UNCHANGED <<ncDocument, ncCommits, ncSession, ncCount, ncBytes, ncDeferred, ncStored, ncWrite,
                   ncTimer, ncWriting, ncMutated, ncLife, ncRaced, ncOperations, ncEvents>>

\* The session of the tab, and the oldest one when there are too many, make room.
Evicted(tab) ==
    LET others == Capturing(ncSession) \ {tab}
        oldest == CHOOSE t \in others : \A u \in others : ncSession[t].id <= ncSession[u].id
    IN  (Capturing(ncSession) \cap {tab})
            \cup (IF Cardinality(others) >= MaxSessions THEN {oldest} ELSE {})

Started(tab) ==
    /\ ncLife = "on" /\ ncStart[tab] # NoSession /\ Operation
    /\ ncStart' = [ncStart EXCEPT ![tab] = NoSession]
    /\ ncCount' = ncCount - EntriesIn(ncSession, Evicted(tab))
    /\ ncBytes' = ncBytes - BytesIn(ncSession, Evicted(tab))
    /\ MarkDirty([t \in Tabs |->
                    IF t = tab THEN [id |-> ncOperations', document |-> ncStart[tab], records |-> <<>>,
                                     bytes |-> 0, persistence |-> "pending", newer |-> TRUE]
                    ELSE IF t \in Evicted(tab) THEN NoSession ELSE ncSession[t]],
                 {tab})
    /\ UNCHANGED <<ncDocument, ncCommits, ncDeferred, ncStored, ncWrite, ncWriting, ncLife, ncRaced,
                   ncEvents>>

\* clearNetworkRequests and stopNetworkCapture of the document that the session is
\* bound to.
ClearCapture(tab) ==
    /\ ncLife = "on" /\ Operation /\ ncSession[tab] # NoSession /\ ncSession[tab].records # <<>>
    /\ ncCount' = ncCount - EntriesIn(ncSession, {tab})
    /\ ncBytes' = ncBytes - BytesIn(ncSession, {tab})
    /\ MarkDirty([ncSession EXCEPT ![tab].records = <<>>, ![tab].bytes = 0], {tab})
    /\ UNCHANGED <<ncDocument, ncCommits, ncStart, ncDeferred, ncStored, ncWrite, ncWriting, ncLife,
                   ncRaced, ncEvents>>

StopCapture(tab) ==
    /\ ncLife = "on" /\ Operation /\ ncSession[tab] # NoSession
    /\ SessionsDeleted(ncSession, {tab})
    /\ UNCHANGED <<ncDocument, ncCommits, ncStart, ncDeferred, ncStored, ncWrite, ncWriting, ncLife,
                   ncRaced, ncEvents>>

SessionId(sessions, tab) == IF sessions[tab] = NoSession THEN 0 ELSE sessions[tab].id

\* The tab shows another document; onCommitted reads the session and asks for the tab.
\* It starts a worker that was terminated.
Navigate(tab) ==
    /\ ncLife # "replaying" /\ NcEvent
    /\ \E origin \in Origins :
         ncDocument' = [ncDocument EXCEPT ![tab] = [number |-> @.number + 1, origin |-> origin]]
    /\ ncCommits' = Append(ncCommits, [tab |-> tab, document |-> ncDocument'[tab],
                                       session |-> SessionId(ncSession, tab)])
    /\ ncRaced' = IF ncStart[tab] # NoSession THEN ncRaced \cup {tab} ELSE ncRaced
    /\ ncLife' = IF ncLife = "off" THEN "restoring" ELSE ncLife
    /\ UNCHANGED <<ncSession, ncCount, ncBytes, ncStart, ncDeferred, ncStored, ncWrite, ncTimer,
                   ncWriting, ncMutated, ncOperations>>

\* A session follows its tab within its origin, and ends outside.
Follows(tab, document) ==
    IF document.origin = "own"
    THEN /\ MarkDirty([ncSession EXCEPT ![tab].document = document], {tab})
         /\ UNCHANGED <<ncCount, ncBytes>>
    ELSE SessionsDeleted(ncSession, {tab})

\* rebindCaptureAfterNavigation, when the browser has answered: the session that was
\* read is still the tab's.
Rebind ==
    /\ ncLife = "on" /\ ncCommits # <<>>
    /\ ncCommits' = Tail(ncCommits)
    /\ LET commit == Head(ncCommits)
           tab == commit.tab IN
       IF \/ commit.session = 0 \/ SessionId(ncSession, tab) # commit.session
          \/ ncSession[tab].document = commit.document
       THEN UNCHANGED <<ncSession, ncCount, ncBytes, ncMutated, ncTimer>>
       ELSE Follows(tab, commit.document)
    /\ UNCHANGED <<ncDocument, ncStart, ncDeferred, ncStored, ncWrite, ncWriting, ncLife, ncRaced,
                   ncOperations, ncEvents>>

-----------------------------------------------------------------------------
(* The worker *)

KillCapture ==
    /\ ncLife = "on" /\ NcEvent
    /\ ncLife' = "off"
    /\ ncStored' \in {ncStored} \cup IF ncWriting THEN {ncWrite} ELSE {}
    /\ ncSession' = Nothing /\ ncCount' = 0 /\ ncBytes' = 0
    /\ ncStart' = Nothing /\ ncDeferred' = <<>> /\ ncWrite' = Nothing /\ ncCommits' = <<>>
    /\ ncTimer' = FALSE /\ ncWriting' = FALSE /\ ncMutated' = FALSE
    \* A navigation whose event was delivered and not handled is not told again.
    /\ ncRaced' = ncRaced \cup {commit.tab : commit \in {ncCommits[i] : i \in DOMAIN ncCommits}}
                          \cup {tab \in Capturing(ncStored') :
                                   ncStored'[tab].document # ncDocument[tab]}
    /\ UNCHANGED <<ncDocument, ncOperations>>

\* An event starts it again.
RestartCapture ==
    /\ ncLife = "off"
    /\ ncLife' = "restoring"
    /\ UNCHANGED <<ncDocument, ncCommits, ncSession, ncCount, ncBytes, ncStart, ncDeferred, ncStored,
                   ncWrite, ncTimer, ncWriting, ncMutated, ncRaced, ncOperations, ncEvents>>

\* restoreSessions. What is stored keeps to the budgets, so that nothing is removed from it.
Restored(stored) ==
    [tab \in Tabs |-> IF stored[tab] = NoSession THEN NoSession
                      ELSE [id |-> stored[tab].id, document |-> stored[tab].document,
                            records |-> stored[tab].records, bytes |-> SizeOf(stored[tab].records),
                            persistence |-> "persisted", newer |-> FALSE]]

RestoreSessions ==
    /\ ncLife = "restoring"
    /\ \/ ncSession' = Restored(ncStored) /\ UNCHANGED ncEvents
       \/ NcEvent /\ ncSession' = Nothing
    /\ ncCount' = EntriesIn(ncSession', Tabs)
    /\ ncBytes' = BytesIn(ncSession', Tabs)
    /\ ncLife' = "replaying"
    /\ UNCHANGED <<ncDocument, ncCommits, ncStart, ncDeferred, ncStored, ncWrite, ncTimer, ncWriting,
                   ncMutated, ncRaced, ncOperations>>

\* Then the deferred requests are replayed at one go, and the navigations that waited
\* read their sessions.
Replay ==
    /\ ncLife = "replaying"
    /\ \/ /\ ncDeferred # <<>>
          /\ ncDeferred' = Tail(ncDeferred)
          /\ LET request == Head(ncDeferred) IN
             IF Matches(request.tab, request.document)
             THEN Recorded(request.tab, request.document, request.id)
             ELSE UNCHANGED <<ncSession, ncCount, ncBytes, ncMutated, ncTimer>>
          /\ UNCHANGED <<ncCommits, ncLife>>
       \/ /\ ncDeferred = <<>>
          /\ ncLife' = "on"
          /\ ncCommits' = [i \in DOMAIN ncCommits |->
                             [ncCommits[i] EXCEPT !.session = SessionId(ncSession, ncCommits[i].tab)]]
          /\ UNCHANGED <<ncDeferred, ncSession, ncCount, ncBytes, ncMutated, ncTimer>>
    /\ UNCHANGED <<ncDocument, ncStart, ncStored, ncWrite, ncWriting, ncRaced, ncOperations,
                   ncEvents>>

NcWorks == PersistFires \/ Written \/ RestoreSessions \/ Replay

NcSteps ==
    \/ NcWorks \/ Rebind \/ KillCapture \/ RestartCapture
    \/ \E tab \in Tabs :
         \/ Request(tab) \/ Update(tab) \/ StartCapture(tab) \/ Started(tab)
         \/ ClearCapture(tab) \/ StopCapture(tab) \/ Navigate(tab)

NcSpec == NcInit /\ [][NcSteps]_ncVars

-----------------------------------------------------------------------------
(* Properties *)

\* A session that is reported persisted is stored as it is, also when it, or another
\* one, changed while a snapshot was being written or a write failed.
CaptureIsStored ==
    \A tab \in Capturing(ncSession) :
        ncSession[tab].persistence = "persisted" =>
            /\ ncStored[tab] # NoSession
            /\ ncStored[tab].document = ncSession[tab].document
            /\ ncStored[tab].records = ncSession[tab].records

\* The running totals are those of the records that are kept, and keep to the budgets,
\* however records grow, are evicted, cleared or deleted with their session; so do the
\* sessions, also those that a restarted worker restores.
CaptureAccounted ==
    /\ ncCount = EntriesIn(ncSession, Tabs) /\ ncCount <= MaxAllEntries
    /\ ncBytes = BytesIn(ncSession, Tabs) /\ ncBytes <= MaxAllBytes
    /\ Cardinality(Capturing(ncSession)) <= MaxSessions
    /\ \A tab \in Capturing(ncSession) :
         /\ ncSession[tab].bytes = SizeOf(ncSession[tab].records)
         /\ ncSession[tab].bytes <= MaxBytes /\ Len(ncSession[tab].records) <= MaxEntries

\* No request of a document of another origin is recorded, whenever navigations are
\* handled and whatever requests are under way.
OnlyOwnRequests ==
    \A tab \in Capturing(ncSession) :
        \A i \in DOMAIN ncSession[tab].records : ncSession[tab].records[i].origin = "own"

\* Once the navigations are handled, a session is bound to the document that the tab
\* shows, unless the tab navigated while a start was being answered, or the worker died
\* with the navigation.
FollowsDocument ==
    (ncLife = "on" /\ ncCommits = <<>>) =>
        \A tab \in Capturing(ncSession) \ ncRaced : ncSession[tab].document = ncDocument[tab]

\* Again and again what changed is stored or reported degraded.
CaptureCaughtUp == \A tab \in Capturing(ncSession) : ncSession[tab].persistence # "pending"

\* A session records the requests of its document and no other, within its budgets, and
\* is stored when it is reported so.
CaptureSound ==
    NcTypeOK /\ CaptureIsStored /\ CaptureAccounted /\ OnlyOwnRequests /\ FollowsDocument
=============================================================================
