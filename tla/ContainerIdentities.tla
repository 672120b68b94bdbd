------------------------- MODULE ContainerIdentities -------------------------
(***************************************************************************)
(* Test identities in Firefox containers                                   *)
(* (features/authorization-testing/firefox-container.ts, isolation.ts).    *)
(*                                                                         *)
(* The extension may only clear containers that it made, so it keeps their *)
(* ids in local storage. Each operation reads that list, talks to the      *)
(* browser, and writes the list that it read back with its own change: a   *)
(* write takes with it what another operation wrote in between. Calls come *)
(* from the popup and from the engine, and several may be under way.       *)
(*                                                                         *)
(* A browser call that fails and a storage write that fails are choices,   *)
(* as long as MaxCiFaults. The user removes containers and closes tabs.    *)
(* Names and colours are left out; one tab stands for the tabs of a        *)
(* container.                                                              *)
(* Bounds: CiCalls, Containers (as many as calls make), MaxManaged (16), MaxLooks (20 looks),      *)
(* MaxCiFaults, one termination.                                           *)
(***************************************************************************)
EXTENDS Naturals, FiniteSets

CONSTANTS
    CiCalls,        \* the calls of the interface and of the engine
    Containers,     \* the containers that the browser may have, numbered as it makes them
    Foreign,        \* those that the user has made before
    MaxManaged,     \* MAX_MANAGED_CONTAINERS
    MaxLooks,       \* how often the new page is looked at for its cookie store
    MaxCiFaults

ASSUME ContainerIdentitiesConstants ==
    /\ Containers \subseteq Nat /\ IsFiniteSet(Containers) /\ Foreign \subseteq Containers
    /\ MaxManaged \in Nat \ {0}
    /\ MaxLooks \in Nat \ {0} /\ MaxCiFaults \in Nat

VARIABLES
    ciExisting,     \* contextualIdentities of the browser
    ciTabs,         \* the containers that have a tab
    ciManaged,      \* the list in local storage
    ciCall,
    ciMade,         \* history: the containers that the extension has made
    ciLost,         \* history: those whose entry a fault, a termination or another write took
    ciFaults,
    ciKilled

ciVars == <<ciExisting, ciTabs, ciManaged, ciCall, ciMade, ciLost, ciFaults, ciKilled>>

NoCiCall == [kind |-> "none", step |-> "none", container |-> {}, read |-> {}, found |-> {}, looks |-> 0]

CiTypeOK ==
    /\ ciExisting \subseteq Containers /\ ciTabs \subseteq Containers
    /\ ciManaged \subseteq Containers \ Foreign
    /\ ciMade \subseteq Containers \ Foreign /\ ciLost \subseteq ciMade
    /\ \A c \in CiCalls : ciCall[c] \in
         [kind : {"none", "open", "remove", "list"},
          step : {"none", "create", "store", "tab", "look", "undo", "rollback", "clear", "close",
                  "drop", "forget", "read", "query", "retain", "over"},
          container : {S \in SUBSET Containers : Cardinality(S) <= 1},
          read : SUBSET (Containers \ Foreign), found : SUBSET Containers, looks : 0 .. MaxLooks]
    /\ ciFaults \in 0 .. MaxCiFaults /\ ciKilled \in BOOLEAN

\* The browser's next number after those of the user and those that the extension has made.
Unmade(made) == Containers \ (Foreign \cup made)
NextContainer(made) == CHOOSE x \in Unmade(made) : \A y \in Unmade(made) : x <= y

\* The list may hold an identity of an earlier run of the browser.
CiInit ==
    /\ ciManaged = {} \/ (Unmade({}) # {} /\ ciManaged = {NextContainer({})})
    /\ ciMade = ciManaged
    /\ ciExisting = Foreign \cup ciManaged /\ ciTabs = Foreign \cup ciManaged
    /\ ciCall = [c \in CiCalls |-> NoCiCall]
    /\ ciLost = {} /\ ciFaults = 0 /\ ciKilled = FALSE

CiFault == ciFaults < MaxCiFaults /\ ciFaults' = ciFaults + 1
NoCiFault == UNCHANGED <<ciFaults, ciKilled>>

At(c, step) == ciCall[c].step = step
Goes(c, step) == ciCall' = [ciCall EXCEPT ![c].step = step]
Ends(c) == ciCall' = [ciCall EXCEPT ![c] = [NoCiCall EXCEPT !.kind = ciCall[c].kind, !.step = "over"]]
IdentityOf(c) == ciCall[c].container

\* The browser or the storage fails, and the call with it.
CiFails(c) ==
    /\ CiFault /\ Ends(c)
    /\ UNCHANGED <<ciExisting, ciTabs, ciManaged, ciMade, ciKilled>>

\* writeManagedContainers: what the call read, with its own change. The entries that
\* another call has written since are gone.
WriteManaged(c, containers) ==
    /\ ciManaged' = containers
    /\ ciLost' = ciLost \cup ((ciManaged \ containers) \ IdentityOf(c))

-----------------------------------------------------------------------------
(* A new identity: createFirefoxContainerIdentity, openFirefoxContainerIdentity *)

OpenIdentity(c) ==
    /\ ciCall[c].kind = "none"
    /\ Cardinality(ciManaged) < MaxManaged
    /\ ciCall' = [ciCall EXCEPT ![c].kind = "open", ![c].step = "create", ![c].read = ciManaged]
    /\ NoCiFault /\ UNCHANGED <<ciExisting, ciTabs, ciManaged, ciMade, ciLost>>

MakesContainer(c) ==
    /\ At(c, "create")
    /\ \/ /\ Unmade(ciMade) # {}
          /\ ciMade' = ciMade \cup {NextContainer(ciMade)}
          /\ ciExisting' = ciExisting \cup {NextContainer(ciMade)}
          /\ ciCall' = [ciCall EXCEPT ![c].step = "store", ![c].container = {NextContainer(ciMade)}]
          /\ NoCiFault /\ UNCHANGED <<ciTabs, ciManaged, ciLost>>
       \/ CiFails(c) /\ UNCHANGED ciLost

\* A list that is not written leaves a container that nobody may clear.
StoresEntry(c) ==
    /\ At(c, "store")
    /\ \/ /\ WriteManaged(c, ciCall[c].read \cup IdentityOf(c)) /\ Goes(c, "tab")
          /\ NoCiFault /\ UNCHANGED <<ciExisting, ciTabs, ciMade>>
       \/ CiFails(c) /\ ciLost' = ciLost \cup IdentityOf(c)

\* The tab may come without an id. When there is no tab the container is undone.
OpensTab(c) ==
    /\ At(c, "tab")
    /\ \/ /\ IdentityOf(c) \subseteq ciExisting
          /\ ciTabs' = ciTabs \cup IdentityOf(c)
          /\ \E step \in {"look", "clear"} : Goes(c, step)
          /\ NoCiFault
       \/ /\ \/ CiFault
             \/ ~(IdentityOf(c) \subseteq ciExisting) /\ UNCHANGED ciFaults
          /\ Goes(c, "undo") /\ UNCHANGED <<ciTabs, ciKilled>>
    /\ UNCHANGED <<ciExisting, ciManaged, ciMade, ciLost>>

\* The browser's refusal is swallowed.
UndoesContainer(c) ==
    /\ At(c, "undo")
    /\ Goes(c, "rollback")
    /\ \/ ciExisting' = ciExisting \ IdentityOf(c) /\ UNCHANGED <<ciLost, ciFaults>>
       \/ CiFault /\ ciLost' = ciLost \cup IdentityOf(c) /\ UNCHANGED ciExisting
    /\ UNCHANGED <<ciTabs, ciManaged, ciMade, ciKilled>>

RollsBack(c) ==
    /\ At(c, "rollback")
    /\ \/ /\ WriteManaged(c, ciCall[c].read \ IdentityOf(c)) /\ Ends(c)
          /\ NoCiFault /\ UNCHANGED <<ciExisting, ciTabs, ciMade>>
       \/ CiFails(c) /\ UNCHANGED ciLost

\* The page is looked at until it shows the container's cookie store. A tab that is closed,
\* or not at its address yet, ends the call; after the last look the container is cleared.
LooksAtPage(c) ==
    /\ At(c, "look")
    /\ \/ Ends(c)
       \/ /\ IdentityOf(c) \subseteq ciTabs
          /\ ciCall' = [ciCall EXCEPT ![c].looks = @ + 1,
                                      ![c].step = IF ciCall[c].looks + 1 < MaxLooks THEN "look" ELSE "clear"]
    /\ NoCiFault /\ UNCHANGED <<ciExisting, ciTabs, ciManaged, ciMade, ciLost>>

-----------------------------------------------------------------------------
(* An identity is cleared: removeFirefoxContainerIdentity *)

\* On request, or for an opening that did not come to its end. Only what is in the list.
ClearIdentity(c) ==
    /\ \/ \E x \in Containers :
            /\ ciCall[c].kind = "none" /\ x \in ciManaged
            /\ ciCall' = [ciCall EXCEPT ![c].kind = "remove", ![c].step = "close",
                                        ![c].container = {x}, ![c].read = ciManaged]
       \/ /\ At(c, "clear")
          /\ IF IdentityOf(c) \subseteq ciManaged
             THEN ciCall' = [ciCall EXCEPT ![c].step = "close", ![c].read = ciManaged]
             ELSE Ends(c)
    /\ NoCiFault /\ UNCHANGED <<ciExisting, ciTabs, ciManaged, ciMade, ciLost>>

ClosesTabs(c) ==
    /\ At(c, "close")
    /\ \/ /\ ciTabs' = ciTabs \ IdentityOf(c) /\ Goes(c, "drop")
          /\ NoCiFault /\ UNCHANGED <<ciExisting, ciManaged, ciMade>>
       \/ CiFails(c)
    /\ UNCHANGED ciLost

\* MUTANT of DropsContainer: the browser's refusal is swallowed, and the entry goes anyway.
DropsOrForgets(c) ==
    /\ At(c, "drop")
    /\ Goes(c, "forget")
    /\ \/ ciExisting' = ciExisting \ IdentityOf(c) /\ UNCHANGED ciFaults
       \/ CiFault /\ UNCHANGED ciExisting
    /\ UNCHANGED <<ciTabs, ciManaged, ciMade, ciLost, ciKilled>>

\* The browser has no such container when the user has removed it.
DropsContainer(c) ==
    /\ At(c, "drop")
    /\ \/ /\ IdentityOf(c) \subseteq ciExisting
          /\ ciExisting' = ciExisting \ IdentityOf(c) /\ Goes(c, "forget")
          /\ NoCiFault /\ UNCHANGED <<ciTabs, ciManaged, ciMade>>
       \/ /\ ~(IdentityOf(c) \subseteq ciExisting)
          /\ Ends(c) /\ NoCiFault /\ UNCHANGED <<ciExisting, ciTabs, ciManaged, ciMade>>
       \/ CiFails(c)
    /\ UNCHANGED ciLost

ForgetsEntry(c) ==
    /\ At(c, "forget")
    /\ \/ /\ WriteManaged(c, ciCall[c].read \ IdentityOf(c)) /\ Ends(c)
          /\ NoCiFault /\ UNCHANGED <<ciExisting, ciTabs, ciMade>>
       \/ CiFails(c) /\ UNCHANGED ciLost

-----------------------------------------------------------------------------
(* The identities are listed: listManagedFirefoxContainerIdentities *)

\* The browser and the storage are asked at the same time and answer in any order.
ListIdentities(c) ==
    /\ \/ /\ ciCall[c].kind = "none" \/ At(c, "query")
          /\ ciCall' = [ciCall EXCEPT ![c].kind = "list", ![c].found = ciExisting,
                                      ![c].step = IF At(c, "query") THEN "retain" ELSE "read"]
       \/ /\ ciCall[c].kind = "none" \/ At(c, "read")
          /\ ciCall' = [ciCall EXCEPT ![c].kind = "list", ![c].read = ciManaged,
                                      ![c].step = IF At(c, "read") THEN "retain" ELSE "query"]
    /\ NoCiFault /\ UNCHANGED <<ciExisting, ciTabs, ciManaged, ciMade, ciLost>>

\* The entries of containers that the browser did not name are dropped.
RetainsEntries(c) ==
    /\ At(c, "retain")
    /\ \/ /\ ciCall[c].read \subseteq ciCall[c].found
          /\ Ends(c) /\ NoCiFault /\ UNCHANGED <<ciExisting, ciTabs, ciManaged, ciMade, ciLost>>
       \/ /\ ~(ciCall[c].read \subseteq ciCall[c].found)
          /\ \/ /\ WriteManaged(c, ciCall[c].read \cap ciCall[c].found) /\ Ends(c)
                /\ NoCiFault /\ UNCHANGED <<ciExisting, ciTabs, ciMade>>
             \/ CiFails(c) /\ UNCHANGED ciLost

-----------------------------------------------------------------------------

UserRemovesContainer(x) ==
    /\ x \in ciMade \cap ciExisting
    /\ ciExisting' = ciExisting \ {x} /\ ciTabs' = ciTabs \ {x}
    /\ NoCiFault /\ UNCHANGED <<ciManaged, ciCall, ciMade, ciLost>>

UserClosesTab(x) ==
    /\ x \in ciTabs \cap ciMade
    /\ ciTabs' = ciTabs \ {x}
    /\ NoCiFault /\ UNCHANGED <<ciExisting, ciManaged, ciCall, ciMade, ciLost>>

\* The background page ends; what its calls have begun stays as it is.
CiTerminated ==
    /\ ~ciKilled /\ ciKilled' = TRUE
    /\ \E c \in CiCalls : ciCall[c].step \notin {"none", "over"}
    /\ ciLost' = ciLost \cup UNION {IdentityOf(c) : c \in {d \in CiCalls : At(d, "store")}}
    /\ ciCall' = [c \in CiCalls |-> IF At(c, "none") THEN ciCall[c]
                                     ELSE [NoCiCall EXCEPT !.kind = ciCall[c].kind, !.step = "over"]]
    /\ UNCHANGED <<ciExisting, ciTabs, ciManaged, ciMade, ciFaults>>

CiWorks ==
    \E c \in CiCalls :
        \/ MakesContainer(c) \/ StoresEntry(c) \/ OpensTab(c) \/ UndoesContainer(c) \/ RollsBack(c)
        \/ LooksAtPage(c)
        \/ At(c, "clear") /\ ClearIdentity(c)
        \/ ClosesTabs(c) \/ DropsContainer(c) \/ ForgetsEntry(c)
        \/ ciCall[c].step \in {"read", "query"} /\ ListIdentities(c)
        \/ RetainsEntries(c)

CiSteps ==
    \/ CiWorks
    \/ \E c \in CiCalls : OpenIdentity(c) \/ ClearIdentity(c) \/ ListIdentities(c)
    \/ \E x \in Containers : UserRemovesContainer(x) \/ UserClosesTab(x)
    \/ CiTerminated

CiSpec == CiInit /\ [][CiSteps]_ciVars

-----------------------------------------------------------------------------
(* Properties *)

\* The containers of the user, and their tabs, are never touched.
ForeignKept == Foreign \subseteq ciExisting /\ Foreign \subseteq ciTabs

\* A container that the extension has made can be cleared again: as long as it exists it is
\* in the list, unless its entry is about to be written, or was lost: to a write of another
\* call that read the list before, to a failed call of the browser or the storage, or to a
\* termination.
IdentitiesClearable ==
    ciExisting \cap ciMade \subseteq
        ciManaged \cup ciLost \cup UNION {IdentityOf(c) : c \in {d \in CiCalls : At(d, "store")}}

\* The list stays within its limit, whatever calls add to it at the same time.
ListBounded == Cardinality(ciManaged) <= MaxManaged

\* The containers of the user are kept; those of the extension are few, and can be cleared.
ContainersSound == CiTypeOK /\ ForeignKept /\ IdentitiesClearable /\ ListBounded

CiOver == \A c \in CiCalls : ciCall[c].step \in {"none", "over"}
=============================================================================
