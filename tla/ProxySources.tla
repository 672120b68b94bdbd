----------------------------- MODULE ProxySources -----------------------------
(***************************************************************************)
(* Rule sources of the automatic proxy (features/proxy/service.ts and      *)
(* repository.ts): a source is downloaded, its rules stored as a revision  *)
(* in the rule database, the settings updated in the mutation queue of the *)
(* state store, and the rules compiled and set as the browser's PAC script.*)
(*                                                                         *)
(* One source is modelled, by its URL and revision; the rules by hand, the *)
(* profiles and the routing are left out, and an edit of them is an edit   *)
(* that keeps the source. A revision is the content it was made of.        *)
(* Database transactions run in the order of their creation, and the       *)
(* clean-up after an update is created before any later one.               *)
(* Bounds: MaxPxOperations, MaxPxFaults, MaxPxKills.                       *)
(***************************************************************************)
EXTENDS Naturals

CONSTANTS
    Contents,       \* what may be downloaded: records of a URL and a version
    NoRules,        \* no revision, and the PAC script without source rules
    NoSource, Direct,
    MaxPxOperations,\* what the user and the alarm begin
    MaxPxFaults, MaxPxKills

Urls == {content.url : content \in Contents}

ASSUME ProxySourcesConstants ==
    /\ Contents # {} /\ NoRules \notin Contents /\ Direct \notin Contents \cup {NoRules}
    /\ {MaxPxOperations, MaxPxFaults, MaxPxKills} \subseteq Nat

VARIABLES
    pxStored,       \* the settings: source, activeProxyId, proxyRuntime.dirty
    pxDatabase,     \* the revisions of the source in the rule database
    pxArtifacts,    \* the compiled artifact of each revision, Direct for none
    pxBrowser,      \* the proxy setting of the browser
    pxUpdate,       \* the updateState that waits for the browser or the database
    pxRefresh,      \* the refresh in sourceRefreshes
    pxFollow,       \* who applies the rules when the refresh is over
    pxImport,       \* the content whose import waits for its update
    pxPreview,      \* the revision that a preview, outside the queue, is to compile
    pxEdited,       \* history: settings were edited and not applied
    pxCauses,       \* history: what the properties make an exception of
    pxOperations, pxFaults, pxKills

pxWork == <<pxUpdate, pxRefresh, pxFollow, pxImport, pxPreview>>
pxHistory == <<pxEdited, pxCauses>>
pxBounds == <<pxOperations, pxFaults, pxKills>>
pxVars == <<pxStored, pxDatabase, pxArtifacts, pxBrowser, pxWork, pxHistory, pxBounds>>

Revisions == Contents \cup {NoRules}
Sources == [url : Urls, revision : Revisions, status : {"idle", "updating", "ready", "error"}]
ProxySettings == [source : Sources \cup {NoSource}, mode : {"auto", "direct"}, dirty : BOOLEAN]
Updates ==
    [by : {"refresh", "remove", "apply", "failed", "switch", "import"},
     step : {"compile", "set", "store"}, next : ProxySettings, rules : Revisions \cup {Direct}]
Refreshes ==
    [step : {"mark", "fetch", "put", "commit", "same", "update", "unchanged", "fail"}, url : Urls,
     revision : Revisions, content : Revisions, applies : BOOLEAN]

ASSUME ProxySourcesNone == NoSource \notin Sources \cup Updates \cup Refreshes

PxTypeOK ==
    /\ pxStored \in ProxySettings
    /\ pxStored.source # NoSource /\ pxStored.source.status = "ready" => pxStored.source.revision # NoRules
    /\ pxDatabase \subseteq Contents
    /\ pxArtifacts \in [Revisions -> Revisions \cup {Direct}]
    /\ pxBrowser \in Revisions \cup {Direct}
    /\ pxUpdate \in {NoSource} \cup Updates
    /\ pxRefresh \in {NoSource} \cup Refreshes
    /\ pxFollow \in {"none", "alarm", "joined", "alarm due", "joined due"}
    /\ pxImport \in Contents \cup {NoRules} /\ pxPreview \in Contents \cup {NoRules}
    /\ pxEdited \in BOOLEAN /\ pxCauses \subseteq {"half", "pruned", "crossed", "returned", "uncaught", "killed"}
    /\ pxOperations \in 0 .. MaxPxOperations /\ pxFaults \in 0 .. MaxPxFaults
    /\ pxKills \in 0 .. MaxPxKills

\* At the start a source has been downloaded, and its rules are applied.
PxInit ==
    LET first == CHOOSE content \in Contents : TRUE
    IN  /\ pxStored = [source |-> [url |-> first.url, revision |-> first, status |-> "ready"],
                       mode |-> "auto", dirty |-> FALSE]
        /\ pxDatabase = {first} /\ pxBrowser = first
        /\ pxArtifacts = [revision \in Revisions |-> IF revision = first THEN first ELSE Direct]
    /\ pxUpdate = NoSource /\ pxRefresh = NoSource /\ pxFollow = "none"
    /\ pxImport = NoRules /\ pxPreview = NoRules
    /\ pxEdited = FALSE /\ pxCauses = {}
    /\ pxOperations = 0 /\ pxFaults = 0 /\ pxKills = 0

Began == pxOperations < MaxPxOperations /\ pxOperations' = pxOperations + 1
            /\ UNCHANGED <<pxFaults, pxKills>>
Faulted == pxFaults < MaxPxFaults /\ pxFaults' = pxFaults + 1
            /\ UNCHANGED <<pxOperations, pxKills>>

\* The revision that the settings compile.
Compiled(settings) == IF settings.source = NoSource THEN NoRules ELSE settings.source.revision

RefreshAt(step) == pxRefresh # NoSource /\ pxRefresh.step = step

-----------------------------------------------------------------------------
(* Updates, one at a time: mutationQueue *)

\* pruneSourceRevisions, or deleteSource: what the database keeps after an update.
KeptRevisions(settings) == {Compiled(settings)} \cap pxDatabase

\* Who is about to read or to name a revision that the clean-up deletes.
InUse == {pxImport, pxPreview} \cup
            (IF RefreshAt("commit") THEN {pxRefresh.content} ELSE {})

CleansUp(settings, causes) ==
    /\ pxDatabase' = KeptRevisions(settings)
    /\ pxCauses' = pxCauses \cup causes
                        \cup (IF (pxDatabase \ pxDatabase') \cap InUse # {} THEN {"pruned"} ELSE {})

\* An update that changes the settings only.
StoresNow(settings) == pxUpdate = NoSource /\ pxStored' = settings

\* An update that sets the browser first, from the settings that it will store.
Applying(by, settings) ==
    /\ pxUpdate = NoSource
    /\ pxUpdate' = [by |-> by, step |-> "compile", rules |-> NoRules,
                    next |-> [settings EXCEPT !.mode = "auto", !.dirty = FALSE]]

SettingDirect(by, settings) ==
    /\ pxUpdate = NoSource
    /\ pxUpdate' = [by |-> by, step |-> "set", rules |-> Direct, next |-> [settings EXCEPT !.mode = "direct"]]

\* compiledArtifact: the cached artifact, or one of the rules that the database has;
\* a revision that it does not have reads as no rules.
ArtifactOf(revision) ==
    IF pxArtifacts[revision] # Direct THEN pxArtifacts[revision]
    ELSE IF revision \in pxDatabase THEN revision ELSE NoRules

CompileUpdate ==
    /\ pxUpdate # NoSource /\ pxUpdate.step = "compile"
    /\ LET revision == Compiled(pxUpdate.next)
       IN  /\ pxArtifacts' = [pxArtifacts EXCEPT ![revision] = ArtifactOf(revision)]
           /\ pxUpdate' = [pxUpdate EXCEPT !.step = "set", !.rules = ArtifactOf(revision)]
    /\ UNCHANGED <<pxStored, pxDatabase, pxBrowser, pxRefresh, pxFollow, pxImport, pxPreview, pxHistory,
                   pxBounds>>

SetBrowser ==
    /\ pxUpdate # NoSource /\ pxUpdate.step = "set"
    /\ pxUpdate' = [pxUpdate EXCEPT !.step = "store"]
    /\ pxBrowser' = pxUpdate.rules
    /\ UNCHANGED <<pxStored, pxDatabase, pxArtifacts, pxRefresh, pxFollow, pxImport, pxPreview, pxHistory,
                   pxBounds>>

\* A refresh that fails goes on to store the error; the update of an unchanged source
\* is returned without await, so its failure passes the catch by.
RefreshFails ==
    IF pxRefresh.step = "unchanged" THEN pxRefresh' = NoSource
    ELSE pxRefresh' = [pxRefresh EXCEPT !.step = "fail"]

EndsRejected ==
    /\ pxUpdate' = NoSource
    /\ IF pxUpdate.by = "refresh"
       THEN RefreshFails /\ pxFollow' = IF pxRefresh.step = "unchanged" THEN "none" ELSE pxFollow
       ELSE UNCHANGED <<pxRefresh, pxFollow>>
    /\ pxImport' = IF pxUpdate.by = "import" THEN NoRules ELSE pxImport

\* The browser is controlled by another extension: before it is set, or found after.
\* applyProxyRules stores that as an error.
SetFails ==
    /\ pxUpdate # NoSource /\ pxUpdate.step = "set" /\ Faulted
    /\ pxBrowser' \in {pxBrowser, pxUpdate.rules}
    /\ IF pxUpdate.by = "apply"
       THEN /\ pxUpdate' = [pxUpdate EXCEPT !.by = "failed", !.step = "store",
                                            !.next = [pxStored EXCEPT !.dirty = TRUE]]
            /\ UNCHANGED <<pxRefresh, pxFollow, pxImport>>
       ELSE EndsRejected
    /\ pxCauses' = pxCauses \cup (IF pxBrowser' # pxBrowser THEN {"half"} ELSE {})
                        \cup (IF pxUpdate.by = "refresh" /\ RefreshAt("unchanged") THEN {"uncaught"} ELSE {})
    /\ UNCHANGED <<pxStored, pxDatabase, pxArtifacts, pxPreview, pxEdited>>

\* The refresh is over: whoever joined it, or the alarm when the revision changed,
\* goes on to apply the rules.
RefreshDone(settings) ==
    /\ pxRefresh' = NoSource
    /\ pxFollow' = CASE pxFollow = "joined" /\ settings.mode = "auto" /\ settings.dirty -> "joined due"
                     [] pxFollow = "alarm" /\ Compiled(settings) # pxRefresh.revision -> "alarm due"
                     [] OTHER -> "none"

StoreUpdate ==
    /\ pxUpdate # NoSource /\ pxUpdate.step = "store"
    /\ pxUpdate' = NoSource
    /\ pxStored' = pxUpdate.next
    /\ pxEdited' = (pxUpdate.by \in {"failed", "import"} \/ (pxEdited /\ pxUpdate.by = "switch"))
    /\ CASE pxUpdate.by = "import" -> CleansUp(pxUpdate.next, IF pxRefresh # NoSource THEN {"crossed"} ELSE {})
         [] pxUpdate.by = "remove" \/ RefreshAt("update") -> CleansUp(pxUpdate.next, {})
         [] OTHER -> UNCHANGED <<pxDatabase, pxCauses>>
    /\ IF pxUpdate.by = "refresh" THEN RefreshDone(pxUpdate.next) ELSE UNCHANGED <<pxRefresh, pxFollow>>
    /\ pxImport' = IF pxUpdate.by = "import" THEN NoRules ELSE pxImport
    /\ UNCHANGED <<pxArtifacts, pxBrowser, pxPreview, pxBounds>>

\* The settings are in one of the two stores that are written at once: the write may be
\* rejected on account of the other.
StoreFails ==
    /\ pxUpdate # NoSource /\ pxUpdate.step = "store" /\ Faulted
    /\ EndsRejected /\ pxStored' \in {pxStored, pxUpdate.next}
    /\ pxCauses' = pxCauses \cup {"half"}
                        \cup (IF pxUpdate.by = "refresh" /\ RefreshAt("unchanged") THEN {"uncaught"} ELSE {})
    /\ UNCHANGED <<pxDatabase, pxArtifacts, pxBrowser, pxPreview, pxEdited>>

-----------------------------------------------------------------------------
(* Operations of the user *)

\* A source that is added after a removal has an id of its own: the refresh of the removed
\* one finds it gone, and nothing that is stored of the removed one is read again.
AnotherSource ==
    /\ pxRefresh' = NoSource /\ pxPreview' = NoRules
    /\ pxFollow' = IF pxRefresh = NoSource THEN pxFollow ELSE "none"
    /\ pxDatabase' = pxDatabase \cap {pxImport}
    /\ pxArtifacts' = [revision \in Revisions |-> IF revision = NoRules THEN pxArtifacts[NoRules] ELSE Direct]

\* saveProxyRuleSource: another URL begins without a revision.
SaveSource ==
    /\ Began
    /\ IF pxStored.source = NoSource THEN AnotherSource
       ELSE UNCHANGED <<pxRefresh, pxPreview, pxFollow, pxDatabase, pxArtifacts>>
    /\ \E url \in Urls :
         LET source == pxStored.source
             saved == IF source # NoSource /\ source.url = url THEN source
                      ELSE [url |-> url, revision |-> NoRules, status |-> "idle"]
         IN  StoresNow([pxStored EXCEPT !.source = saved, !.dirty = TRUE])
    /\ pxEdited' = TRUE
    /\ UNCHANGED <<pxBrowser, pxUpdate, pxImport, pxCauses>>

\* removeProxyRuleSource
RemoveSource ==
    /\ pxStored.source # NoSource /\ Began
    /\ LET removed == [pxStored EXCEPT !.source = NoSource, !.dirty = TRUE]
       IN  IF pxStored.mode = "auto"
           THEN Applying("remove", removed) /\ UNCHANGED <<pxStored, pxDatabase, pxHistory>>
           ELSE StoresNow(removed) /\ CleansUp(removed, {}) /\ pxEdited' = TRUE /\ UNCHANGED pxUpdate
    /\ UNCHANGED <<pxArtifacts, pxBrowser, pxRefresh, pxFollow, pxImport, pxPreview>>

\* applyProxyRules, and switchProxy to another profile.
ApplyRules ==
    /\ Began /\ Applying("apply", pxStored)
    /\ UNCHANGED <<pxStored, pxDatabase, pxArtifacts, pxBrowser, pxRefresh, pxFollow, pxImport, pxPreview,
                   pxHistory>>

SwitchProxy ==
    /\ pxStored.mode = "auto" /\ Began /\ SettingDirect("switch", pxStored)
    /\ UNCHANGED <<pxStored, pxDatabase, pxArtifacts, pxBrowser, pxRefresh, pxFollow, pxImport, pxPreview,
                   pxHistory>>

\* importProxyConfiguration: the revision is put first, then the settings are replaced.
ImportBegins ==
    /\ pxImport = NoRules /\ Began
    /\ \E content \in Contents : pxImport' = content /\ pxDatabase' = pxDatabase \cup {content}
    /\ UNCHANGED <<pxStored, pxArtifacts, pxBrowser, pxUpdate, pxRefresh, pxFollow, pxPreview, pxHistory>>

ImportStores ==
    /\ pxImport # NoRules
    /\ SettingDirect("import", [pxStored EXCEPT !.dirty = TRUE, !.source =
          [url |-> pxImport.url, revision |-> pxImport, status |-> "ready"]])
    /\ UNCHANGED <<pxStored, pxDatabase, pxArtifacts, pxBrowser, pxRefresh, pxFollow, pxImport, pxPreview,
                   pxHistory, pxBounds>>

\* compileCurrentProxyRules reads the settings, and then the rules.
PreviewBegins ==
    /\ Compiled(pxStored) # NoRules /\ pxPreview = NoRules /\ Began
    /\ pxPreview' = Compiled(pxStored)
    /\ UNCHANGED <<pxStored, pxDatabase, pxArtifacts, pxBrowser, pxUpdate, pxRefresh, pxFollow, pxImport,
                   pxHistory>>

PreviewCompiles ==
    /\ pxPreview # NoRules /\ pxPreview' = NoRules
    /\ pxArtifacts' = [pxArtifacts EXCEPT ![pxPreview] = ArtifactOf(pxPreview)]
    /\ UNCHANGED <<pxStored, pxDatabase, pxBrowser, pxUpdate, pxRefresh, pxFollow, pxImport, pxHistory,
                   pxBounds>>

-----------------------------------------------------------------------------
(* refreshProxyRuleSource *)

\* A refresh of the same source is shared; one of another URL is awaited.
Joins == pxRefresh # NoSource

\* By the user, who wants the rules applied, or by the alarm, which applies them itself.
Refresh ==
    /\ pxStored.source # NoSource /\ Began
    /\ \E caller \in {"user", "alarm"} :
         IF Joins
         THEN /\ pxRefresh.url = pxStored.source.url /\ pxFollow = "none"
              /\ pxFollow' = IF caller = "user" THEN "joined" ELSE "alarm"
              /\ UNCHANGED pxRefresh
         ELSE /\ pxFollow = "none"
              /\ pxFollow' = IF caller = "user" THEN "none" ELSE "alarm"
              /\ pxRefresh' = [step |-> "mark", url |-> pxStored.source.url,
                               revision |-> pxStored.source.revision, content |-> NoRules,
                               applies |-> caller = "user"]
    /\ UNCHANGED <<pxStored, pxDatabase, pxArtifacts, pxBrowser, pxUpdate, pxImport, pxPreview, pxHistory>>

\* 'updating' is stored for whatever the source is by now.
Marked ==
    IF pxStored.source = NoSource THEN pxStored ELSE [pxStored EXCEPT !.source.status = "updating"]

MarkUpdating ==
    /\ RefreshAt("mark")
    /\ pxRefresh' = [pxRefresh EXCEPT !.step = "fetch"]
    /\ StoresNow(Marked)
    /\ pxCauses' = IF pxStored.source # NoSource /\ pxStored.source.url # pxRefresh.url
                   THEN pxCauses \cup {"crossed"} ELSE pxCauses
    /\ UNCHANGED <<pxDatabase, pxArtifacts, pxBrowser, pxUpdate, pxFollow, pxImport, pxPreview, pxEdited,
                   pxBounds>>

\* The server answers with a content, with 304 to one who has a revision, or fails.
Fetched ==
    /\ RefreshAt("fetch")
    /\ \/ \E content \in Contents :
            /\ content.url = pxRefresh.url
            /\ pxRefresh' = [pxRefresh EXCEPT !.step = "put", !.content = content]
            /\ UNCHANGED pxBounds
       \/ /\ pxRefresh.revision # NoRules
          /\ pxRefresh' = [pxRefresh EXCEPT !.step = "same"]
          /\ UNCHANGED pxBounds
       \/ Faulted /\ pxRefresh' = [pxRefresh EXCEPT !.step = "fail"]
    /\ UNCHANGED <<pxStored, pxDatabase, pxArtifacts, pxBrowser, pxUpdate, pxFollow, pxImport, pxPreview,
                   pxHistory>>

\* putSourceRevision
PutRevision ==
    /\ RefreshAt("put")
    /\ pxRefresh' = [pxRefresh EXCEPT !.step = "commit"]
    /\ pxDatabase' = pxDatabase \cup {pxRefresh.content}
    /\ UNCHANGED <<pxStored, pxArtifacts, pxBrowser, pxUpdate, pxFollow, pxImport, pxPreview, pxHistory,
                   pxBounds>>

\* MUTANT of StillWanted: only a source that was removed is given up.
StillThere == pxStored.source # NoSource

\* The source is still the one that was downloaded.
StillWanted == pxStored.source # NoSource /\ pxStored.source.url = pxRefresh.url

\* The alarm takes a download for no change when it is of the revision that the source
\* had before, even if the source has lost that revision meanwhile.
Returned ==
    IF pxFollow = "alarm" /\ pxRefresh.content = pxRefresh.revision /\ Compiled(pxStored) # pxRefresh.content
    THEN {"returned"} ELSE {}

\* The content becomes the source's revision; it is applied if the caller wants it.
Updated == [pxStored EXCEPT !.source.revision = pxRefresh.content, !.source.status = "ready", !.dirty = TRUE]

CommitRefresh ==
    /\ RefreshAt("commit") /\ pxUpdate = NoSource
    /\ IF ~StillWanted
       THEN RefreshFails /\ UNCHANGED <<pxStored, pxDatabase, pxUpdate, pxFollow, pxHistory>>
       ELSE IF pxRefresh.applies /\ pxStored.mode = "auto"
       THEN /\ Applying("refresh", Updated) /\ pxRefresh' = [pxRefresh EXCEPT !.step = "update"]
            /\ UNCHANGED <<pxStored, pxDatabase, pxFollow, pxHistory>>
       ELSE /\ StoresNow(Updated) /\ CleansUp(Updated, Returned) /\ RefreshDone(Updated)
            /\ UNCHANGED <<pxUpdate, pxEdited>>
    /\ UNCHANGED <<pxArtifacts, pxBrowser, pxImport, pxPreview, pxBounds>>

UnchangedStatus(source) == IF source.revision = NoRules THEN "idle" ELSE "ready"

Checked == [pxStored EXCEPT !.source.status = UnchangedStatus(pxStored.source)]

\* 304: the source is ready as it is, and the rules are applied if they are dirty.
SameRevision ==
    /\ RefreshAt("same") /\ pxUpdate = NoSource
    /\ IF ~StillWanted
       THEN pxRefresh' = NoSource /\ pxFollow' = "none" /\ UNCHANGED <<pxStored, pxUpdate>>
       ELSE IF pxRefresh.applies /\ pxStored.mode = "auto" /\ pxStored.dirty
       THEN /\ Applying("refresh", Checked) /\ pxRefresh' = [pxRefresh EXCEPT !.step = "unchanged"]
            /\ UNCHANGED <<pxStored, pxFollow>>
       ELSE StoresNow(Checked) /\ RefreshDone(Checked) /\ UNCHANGED pxUpdate
    /\ UNCHANGED <<pxDatabase, pxArtifacts, pxBrowser, pxImport, pxPreview, pxHistory, pxBounds>>

Recorded == IF StillWanted THEN [pxStored EXCEPT !.source.status = "error"] ELSE pxStored

RecordFailure ==
    /\ RefreshAt("fail")
    /\ StoresNow(Recorded)
    /\ pxRefresh' = NoSource /\ pxFollow' = "none"
    /\ UNCHANGED <<pxDatabase, pxArtifacts, pxBrowser, pxUpdate, pxImport, pxPreview, pxHistory, pxBounds>>

\* The download is not put, or its update is rejected: the failure is to be recorded.
CommitFails ==
    /\ RefreshAt("put") \/ (RefreshAt("commit") /\ pxUpdate = NoSource)
    /\ Faulted /\ RefreshFails
    /\ \/ UNCHANGED <<pxStored, pxCauses>>
       \/ /\ RefreshAt("commit") /\ StillWanted /\ ~(pxRefresh.applies /\ pxStored.mode = "auto")
          /\ StoresNow(Updated) /\ pxCauses' = pxCauses \cup {"half"}
    /\ UNCHANGED <<pxDatabase, pxArtifacts, pxBrowser, pxUpdate, pxFollow, pxImport, pxPreview, pxEdited>>

\* The write that marks the source, that finds it unchanged or that records a failure is
\* rejected: no catch is around it, and the refresh is over.
MarkFails ==
    /\ \/ RefreshAt("mark") /\ pxStored' \in {pxStored, Marked}
       \/ RefreshAt("same") /\ StillWanted /\ pxStored' \in {pxStored, Checked}
       \/ RefreshAt("fail") /\ pxStored' \in {pxStored, Recorded}
    /\ pxUpdate = NoSource /\ Faulted
    /\ pxRefresh' = NoSource /\ pxFollow' = "none" /\ pxCauses' = pxCauses \cup {"uncaught"}
    /\ UNCHANGED <<pxDatabase, pxArtifacts, pxBrowser, pxUpdate, pxImport, pxPreview, pxEdited>>

\* The alarm asks for the mode again; one who joined does not.
FollowUp ==
    /\ pxFollow \in {"joined due", "alarm due"} /\ pxFollow' = "none"
    /\ IF pxFollow = "alarm due" /\ pxStored.mode # "auto" THEN UNCHANGED pxUpdate
       ELSE Applying("apply", pxStored)
    /\ UNCHANGED <<pxStored, pxDatabase, pxArtifacts, pxBrowser, pxRefresh, pxImport, pxPreview, pxHistory,
                   pxBounds>>

\* The settings are not read: what the refresh stored is not applied.
FollowUpFails ==
    /\ pxFollow \in {"joined due", "alarm due"} /\ pxFollow' = "none"
    /\ Faulted /\ pxCauses' = pxCauses \cup {"half"}
    /\ UNCHANGED <<pxStored, pxDatabase, pxArtifacts, pxBrowser, pxUpdate, pxRefresh, pxImport, pxPreview, pxEdited>>

-----------------------------------------------------------------------------
\* The worker is terminated: the settings, the database and the browser stay.
PxKill ==
    /\ pxKills < MaxPxKills /\ pxKills' = pxKills + 1
    /\ pxUpdate' = NoSource /\ pxRefresh' = NoSource /\ pxFollow' = "none"
    /\ pxImport' = NoRules /\ pxPreview' = NoRules
    /\ pxCauses' = pxCauses \cup {"killed"}
    /\ UNCHANGED <<pxStored, pxDatabase, pxArtifacts, pxBrowser, pxEdited, pxOperations, pxFaults>>

PxWorks ==
    \/ CompileUpdate \/ SetBrowser \/ StoreUpdate \/ ImportStores \/ PreviewCompiles
    \/ MarkUpdating \/ Fetched \/ PutRevision \/ CommitRefresh \/ SameRevision \/ RecordFailure
    \/ FollowUp

PxSteps ==
    \/ PxWorks \/ SetFails \/ StoreFails \/ CommitFails \/ MarkFails \/ FollowUpFails \/ PxKill
    \/ SaveSource \/ RemoveSource \/ ApplyRules \/ SwitchProxy \/ ImportBegins \/ PreviewBegins \/ Refresh

PxSpec == PxInit /\ [][PxSteps]_pxVars

-----------------------------------------------------------------------------
(* Properties *)

\* A revision is of the source's own URL: a download that an edit overtook is never
\* stored as the rules of the edited source.
OwnRules ==
    pxStored.source # NoSource =>
        pxStored.source.revision = NoRules \/ pxStored.source.revision.url = pxStored.source.url

\* In the automatic mode the browser routes by the rules of the stored revision, and
\* keeps to them through refreshes of the alarm and of callers that share one, unless an
\* edit is still to be applied, an update failed after the browser was set, as it was
\* stored or before it could apply what a refresh had stored, the worker died, an import
\* replaced the source during a refresh, a clean-up deleted rules that another operation
\* was about to use, or the alarm downloaded what an edit had taken away.
AutoIsApplied ==
    (pxUpdate = NoSource /\ pxStored.mode = "auto" /\ pxCauses \cap {"half", "pruned", "crossed", "returned", "killed"} = {}) =>
        \/ pxBrowser = Compiled(pxStored)
        \/ pxStored.dirty /\ (pxEdited \/ pxFollow # "none")

\* The rules of the stored revision are in the database, with that last exception.
RevisionKept ==
    "pruned" \notin pxCauses => Compiled(pxStored) \in pxDatabase \cup {NoRules}

\* A source is shown as updating only while its refresh is under way, unless its URL was
\* edited as the refresh began, a write that marks it, finds it unchanged or records its
\* failure was rejected, applying an unchanged source failed, or the worker died.
UpdatingIsUnderWay ==
    (pxStored.source # NoSource /\ pxCauses \cap {"crossed", "uncaught", "killed"} = {}) =>
        (pxStored.source.status = "updating" => pxRefresh # NoSource /\ pxRefresh.step # "mark")

\* Again and again every operation on the sources has ended.
ProxyAtRest == pxUpdate = NoSource /\ pxRefresh = NoSource /\ pxFollow = "none" /\ pxImport = NoRules

\* A source has its own rules, the browser routes by them, and the status is true.
SourcesSound == PxTypeOK /\ OwnRules /\ AutoIsApplied /\ RevisionKept /\ UpdatingIsUnderWay
=============================================================================
