--------------------------- MODULE IsolationProofs ---------------------------
(***************************************************************************)
(* Proofs that two tabs hold separate identities                           *)
(* (features/authorization-testing/isolation.ts, auth-fingerprint.ts,      *)
(* platform/browser/isolation.ts).                                         *)
(*                                                                         *)
(* Two tabs in different cookie stores are isolated ("strong"). Two tabs   *)
(* of one store and origin are at best "conditional": both pages are read, *)
(* and the login of each must be in its own sessionStorage and nowhere     *)
(* that both share. The proofs made are kept in a table, the newest        *)
(* MaxProofs of them, as many as fit in MaxProofBytes, which is written    *)
(* whole to session storage.                                               *)
(*                                                                         *)
(* The pages change between the two readings: users log in and out.        *)
(* A login leaves material in the storage that the tabs share ("cookie",   *)
(* "local") or in the tab's own sessionStorage. The two pages look at one  *)
(* origin or at two, which does not change, nor does the login in a tab's  *)
(* own storage. Whether a page can be read, what it says of its login and  *)
(* whether two snapshots differ are choices.                               *)
(* Session storage answers in the order it is asked; a write that fails is *)
(* swallowed, and one that a termination cuts off is one that fails.       *)
(* Bounds: IpCalls, each one proof, MaxProofs (32), MaxProofBytes (64 KiB),*)
(* MaxIpEvents logins, expiries, faults and terminations in all.           *)
(***************************************************************************)
EXTENDS Integers, Sequences, Functions

CONSTANTS
    IpCalls,
    EarlierProofs,              \* the table that an earlier worker has stored
    MaxProofs, MaxProofBytes,   \* MAX_PROOFS, MAX_PROOF_STORAGE_BYTES
    MaxIpEvents

Sides == {"left", "right"}
SharedPlaces == {"cookie", "local"}

\* A proof is named for the call that made it; large proofs are those with many reasons.
ProofsOf == [by : IpCalls, level : {"none", "conditional", "strong"}, bytes : 1 .. 2,
             shared : SUBSET SharedPlaces]

Bytes(table) ==
    LET sum[n \in 0 .. Len(table)] == IF n = 0 THEN 0 ELSE sum[n - 1] + table[n].bytes
    IN  sum[Len(table)]

\* One proof always fits.
ASSUME IsolationProofsConstants ==
    /\ MaxProofs \in Nat \ {0} /\ MaxProofBytes \in Nat \ {0, 1} /\ MaxIpEvents \in Nat

ASSUME EarlierProofsFit ==
    /\ EarlierProofs \in Seq(ProofsOf)
    /\ \A p \in Range(EarlierProofs) : p.level = "conditional" => p.shared = {}
    /\ Len(EarlierProofs) <= MaxProofs /\ Bytes(EarlierProofs) <= MaxProofBytes

VARIABLES
    ipStores,       \* how the cookie stores of the tabs compare, if the browser tells them
    ipSameOrigin,
    ipShared,       \* where the tabs share login material, when they have one store and origin
    ipSession,      \* the tabs with a login in their own sessionStorage
    ipCall,
    ipProofs,       \* proofs: the table, the oldest first
    ipStored,       \* browser.storage.session
    ipLoaded,       \* proofsLoaded
    ipExpired,      \* the proofs that are past their expiry
    ipEvents,
    ipDisturbed     \* history: proofs not stored, as storage failed or a load was under way

ipWorld == <<ipStores, ipSameOrigin, ipShared, ipSession>>
ipVars == <<ipWorld, ipCall, ipProofs, ipStored, ipLoaded, ipExpired, ipEvents, ipDisturbed>>

NoReading == [read |-> FALSE, shared |-> {}, session |-> FALSE]
NoIpCall ==
    [step |-> "none", level |-> "none", loading |-> <<>>, expired |-> {},
     page |-> [s \in Sides |-> NoReading],
     shared |-> {}]     \* history: what the tabs shared when the second page had been read

IpTypeOK ==
    /\ ipStores \in {"same", "different", "unknown"} /\ ipSameOrigin \in BOOLEAN
    /\ ipShared \subseteq SharedPlaces /\ ipSession \subseteq Sides
    /\ \A c \in IpCalls :
         /\ ipCall[c].step \in {"none", "loading", "inspect", "pages", "register", "over"}
         /\ ipCall[c].level \in {"none", "conditional", "strong"}
         /\ Range(ipCall[c].loading) \subseteq ProofsOf
         /\ ipCall[c].expired \subseteq IpCalls /\ ipCall[c].shared \subseteq SharedPlaces
         /\ ipCall[c].page \in [Sides -> [read : BOOLEAN, shared : SUBSET SharedPlaces,
                                          session : BOOLEAN]]
    /\ Range(ipProofs) \subseteq ProofsOf /\ Range(ipStored) \subseteq ProofsOf
    /\ ipLoaded \in BOOLEAN /\ ipExpired \subseteq IpCalls
    /\ ipEvents \in 0 .. MaxIpEvents /\ ipDisturbed \in BOOLEAN

IpInit ==
    /\ ipStores \in {"same", "different", "unknown"} /\ ipSameOrigin \in BOOLEAN
    /\ ipShared = {} /\ ipSession \in {Sides, {"left"}}
    /\ ipCall = [c \in IpCalls |->
         IF \E p \in Range(EarlierProofs) : p.by = c THEN [NoIpCall EXCEPT !.step = "over"] ELSE NoIpCall]
    /\ ipStored = EarlierProofs
    /\ ipProofs = <<>> /\ ipLoaded = FALSE
    /\ ipExpired = {} /\ ipEvents = 0 /\ ipDisturbed = FALSE

IpEvent == ipEvents < MaxIpEvents /\ ipEvents' = ipEvents + 1
IpEnds(c) == ipCall' = [ipCall EXCEPT ![c] = [NoIpCall EXCEPT !.step = "over"]]

-----------------------------------------------------------------------------
(* The table: purgeProofs, loadProofs, saveProofs *)

Newest(table, n) == IF Len(table) > n THEN SubSeq(table, Len(table) - n + 1, Len(table)) ELSE table

\* A table without some of its proofs, and the others in their order.
Without(table, dropped) ==
    LET kept[n \in 0 .. Len(table)] ==
            IF n = 0 THEN <<>>
            ELSE IF table[n] \in dropped THEN kept[n - 1] ELSE Append(kept[n - 1], table[n])
    IN  kept[Len(table)]

Purged(table, expired, reserve) ==
    Newest(Without(table, {p \in Range(table) : p.by \in expired}), MaxProofs - reserve)

\* The newest proofs that fit.
Retained(table) ==
    LET fits == {n \in 0 .. Len(table) : Bytes(Newest(table, n)) <= MaxProofBytes}
    IN  Newest(table, CHOOSE n \in fits : \A m \in fits : m <= n)

\* A map: a proof that is there already keeps its place.
Added(table, proofs) == table \o Without(proofs, Range(table))

-----------------------------------------------------------------------------
(* createBrowserIsolationProof *)

\* The first call of a worker loads the table; the others go on without it meanwhile.
RequestProof(c) ==
    /\ ipCall[c].step = "none"
    /\ ipLoaded' = TRUE
    /\ ipCall' = [ipCall EXCEPT ![c].step = IF ipLoaded THEN "inspect" ELSE "loading",
                                ![c].loading = IF ipLoaded THEN <<>> ELSE ipStored]
    /\ UNCHANGED <<ipWorld, ipProofs, ipStored, ipExpired, ipEvents, ipDisturbed>>

\* A table that cannot be read counts as empty.
LoadsProofs(c) ==
    /\ ipCall[c].step = "loading"
    /\ ipCall' = [ipCall EXCEPT ![c].step = "inspect", ![c].loading = <<>>]
    /\ \/ /\ ipProofs' = Purged(Added(ipProofs, ipCall[c].loading), ipExpired, 0)
          /\ ipDisturbed' = (ipDisturbed \/ ipProofs # <<>>)
          /\ UNCHANGED ipEvents
       \/ /\ IpEvent /\ ipDisturbed' = TRUE /\ UNCHANGED ipProofs
    /\ UNCHANGED <<ipWorld, ipStored, ipLoaded, ipExpired>>

\* isolationContextForTab: the browser may not tell the cookie store of a tab.
ToldStores == {ipStores, "unknown"}

\* buildIsolationProof, on what inspectBrowserIsolation found. A tab may be closed.
BuildsProof(c) ==
    /\ ipCall[c].step = "inspect"
    /\ \/ \E relation \in ToldStores :
            /\ ipCall' = [ipCall EXCEPT ![c].expired = ipExpired,
                 ![c].level = IF relation = "different" THEN "strong" ELSE "none",
                 ![c].step = IF relation = "same" /\ ipSameOrigin THEN "pages" ELSE "register"]
            /\ \/ relation = ipStores /\ UNCHANGED ipEvents
               \/ relation # ipStores /\ IpEvent
       \/ IpEvent /\ IpEnds(c)
    /\ UNCHANGED <<ipWorld, ipProofs, ipStored, ipLoaded, ipExpired, ipDisturbed>>

\* MUTANT of ProvesConditionally: only the first tab is looked at.
ProvesByTheLeft(left, right) ==
    /\ left.shared = {}
    /\ left.session /\ right.session

\* applyTabLocalAuthenticationEvidence: a login in each tab, in its own storage alone.
ProvesConditionally(left, right) ==
    /\ left.shared = {} /\ right.shared = {}
    /\ left.session /\ right.session

\* Where the login material of a page is.
ReadingOf(s) == [read |-> TRUE, shared |-> ipShared, session |-> s \in ipSession]

\* capturePageContext of one tab; the second one decides. The snapshots must differ: they hold
\* all cookies, so those of one account may. A page that cannot be read completely, or that
\* says that it is logged out, proves nothing.
ReadsPage(c, s) ==
    /\ ipCall[c].step = "pages" /\ ~ipCall[c].page[s].read
    /\ LET page == [ipCall[c].page EXCEPT ![s] = ReadingOf(s)]
       IN  IF \A t \in Sides : page[t].read
           THEN \E level \in {"none", "conditional"} :
                    /\ level = "conditional" => ProvesConditionally(page["left"], page["right"])
                    /\ ipCall' = [ipCall EXCEPT ![c].page = NoIpCall.page, ![c].shared = ipShared,
                                        ![c].step = "register", ![c].level = level]
           ELSE \/ ipCall' = [ipCall EXCEPT ![c].page = page]
                \/ ipCall' = [ipCall EXCEPT ![c].step = "register"]
    /\ UNCHANGED <<ipWorld, ipProofs, ipStored, ipLoaded, ipExpired, ipEvents, ipDisturbed>>

\* The proof enters the table, and the table is stored: in one go, before anything else runs.
RegistersProof(c) ==
    /\ ipCall[c].step = "register"
    /\ \E bytes \in 1 .. 2 :
         ipProofs' = Retained(Append(Purged(ipProofs, ipCall[c].expired, 1),
              [by |-> c, level |-> ipCall[c].level, bytes |-> bytes, shared |-> ipCall[c].shared]))
    /\ \/ ipStored' = ipProofs' /\ UNCHANGED <<ipEvents, ipDisturbed>>
       \/ IpEvent /\ ipDisturbed' = TRUE /\ UNCHANGED ipStored
    /\ IpEnds(c)
    /\ UNCHANGED <<ipWorld, ipLoaded, ipExpired>>

-----------------------------------------------------------------------------

\* A login or logout, in a place that the tabs share. It matters to tabs of one store and
\* origin.
LoginChanges ==
    /\ IpEvent /\ ipStores = "same" /\ ipSameOrigin
    /\ \E place \in SharedPlaces :
         ipShared' = IF place \in ipShared THEN ipShared \ {place} ELSE ipShared \cup {place}
    /\ UNCHANGED <<ipStores, ipSameOrigin, ipSession, ipCall, ipProofs, ipStored, ipLoaded,
                   ipExpired, ipDisturbed>>

ProofExpires(c) ==
    /\ IpEvent /\ c \notin ipExpired
    /\ \E p \in Range(ipStored) \cup Range(ipProofs) : p.by = c
    /\ ipExpired' = ipExpired \cup {c}
    /\ UNCHANGED <<ipWorld, ipCall, ipProofs, ipStored, ipLoaded, ipDisturbed>>

IpTerminated ==
    /\ IpEvent
    /\ ipLoaded
    /\ ipCall' = [c \in IpCalls |-> IF ipCall[c].step = "none" THEN NoIpCall ELSE [NoIpCall EXCEPT !.step = "over"]]
    /\ ipProofs' = <<>> /\ ipLoaded' = FALSE
    /\ UNCHANGED <<ipWorld, ipStored, ipExpired, ipDisturbed>>

IpWorks ==
    \E c \in IpCalls :
        \/ LoadsProofs(c) \/ BuildsProof(c) \/ RegistersProof(c)
        \/ \E s \in Sides : ReadsPage(c, s)

IpSteps ==
    \/ IpWorks
    \/ \E c \in IpCalls : RequestProof(c) \/ ProofExpires(c)
    \/ LoginChanges \/ IpTerminated

IpSpec == IpInit /\ [][IpSteps]_ipVars

-----------------------------------------------------------------------------
(* Properties *)

\* A conditional proof says that the logins of the two tabs are apart: when the second page
\* had been read, there was no login in the storage that the tabs share.
ConditionalIsApart ==
    \A p \in Range(ipProofs) \cup Range(ipStored) : p.level = "conditional" => p.shared = {}

\* The table and what is stored of it stay within their limits.
TableBounded == Len(ipProofs) <= MaxProofs /\ Bytes(ipStored) <= MaxProofBytes

\* The table survives a termination: what is in it is in storage, unless storage failed or
\* a proof was made while the table was being loaded.
ProofsStored == ipDisturbed \/ Range(ipProofs) \subseteq Range(ipStored)

\* The table of proofs is bounded and stored, and its conditional proofs are of separate logins.
ProofsSound == IpTypeOK /\ ConditionalIsApart /\ TableBounded /\ ProofsStored

IpOver == \A c \in IpCalls : ipCall[c].step \in {"none", "over"}
=============================================================================
