---------------------------- MODULE UserAgentRules ----------------------------
(***************************************************************************)
(* The User-Agent overrides (features/identity/user-agent-service.ts):     *)
(* custom profiles and their assignment to sites are settings in storage,  *)
(* and the browser's dynamic network rules must say the same. A mutation   *)
(* changes the rules first and the settings after them; when the settings  *)
(* cannot be stored, the rules are made again from what is stored.         *)
(*                                                                         *)
(* Mutations and the reconciliation of a started worker run one at a time  *)
(* (userAgentMutationQueue): uaStep is the await at which the running one  *)
(* stands. No other operation writes these settings, so the fingerprint    *)
(* that updateState compares is the one that was read. Built-in profiles   *)
(* differ from custom ones in that no operation changes them.              *)
(* Bounds: MaxUaOperations, MaxUaFaults, MaxUaKills.                       *)
(***************************************************************************)
EXTENDS Naturals, FiniteSets

CONSTANTS
    Profiles, Builtin,      \* profile ids; the built-in ones
    Hosts, Agents,          \* host names; User-Agent values
    None,
    MaxCustomProfiles,      \* MAX_CUSTOM_USER_AGENT_PROFILES
    MaxUaOperations, MaxUaFaults, MaxUaKills

ASSUME UserAgentConstants ==
    /\ Builtin \subseteq Profiles
    /\ Agents # {} /\ None \notin Profiles \cup Agents
    /\ MaxUaOperations \in Nat /\ MaxUaFaults \in Nat /\ MaxUaKills \in Nat

VARIABLES
    uaStored,       \* the settings in storage.local
    uaRules,        \* the dynamic rules: the User-Agent that a host is sent
    uaStep, uaNext, \* the running operation, and the settings it is to store
    uaReconcile,    \* the reconciliation of this worker has not run yet
    uaAlive,
    uaAdrift,       \* history: the last attempt to make the rules from what is
                    \* stored failed and was reported as failed
    uaOperations, uaFaults, uaKills

uaVars == <<uaStored, uaRules, uaStep, uaNext, uaReconcile, uaAlive, uaAdrift,
            uaOperations, uaFaults, uaKills>>

Settings == [agent : [Profiles -> Agents \cup {None}],
             assigned : [Hosts -> Profiles \cup {None}]]

UaTypeOK ==
    /\ uaStored \in Settings /\ uaNext \in Settings
    /\ uaRules \in [Hosts -> Agents \cup {None}]
    /\ uaStep \in {"idle", "apply", "commit", "restore"}
    /\ uaReconcile \in BOOLEAN /\ uaAlive \in BOOLEAN /\ uaAdrift \in BOOLEAN
    /\ uaOperations \in 0 .. MaxUaOperations
    /\ uaFaults \in 0 .. MaxUaFaults /\ uaKills \in 0 .. MaxUaKills

\* MUTANT of RulesOf: a host is sent the profile's id.
RulesOfIds(settings) == settings.assigned

\* buildUserAgentDnrRules: an assigned host is sent the profile's User-Agent.
RulesOf(settings) ==
    [host \in Hosts |-> IF settings.assigned[host] = None THEN None
                        ELSE settings.agent[settings.assigned[host]]]

UaInit ==
    /\ uaStored = [agent    |-> [p \in Profiles |->
                                   IF p \in Builtin THEN CHOOSE agent \in Agents : TRUE ELSE None],
                   assigned |-> [host \in Hosts |-> None]]
    /\ uaNext = uaStored
    /\ uaRules = RulesOf(uaStored)
    /\ uaStep = "idle" /\ uaReconcile = TRUE /\ uaAlive = TRUE /\ uaAdrift = FALSE
    /\ uaOperations = 0 /\ uaFaults = 0 /\ uaKills = 0

-----------------------------------------------------------------------------
(* What the operations make of the settings *)

Exists(settings, profile) == settings.agent[profile] # None

Custom(settings) == {p \in Profiles \ Builtin : Exists(settings, p)}

\* assertUserAgentState: an assignment names a profile that exists.
Consistent(settings) ==
    /\ Cardinality(Custom(settings)) <= MaxCustomProfiles
    /\ \A host \in Hosts :
         settings.assigned[host] # None => Exists(settings, settings.assigned[host])

\* saveUserAgentProfile
Saved(settings, profile, agent) == [settings EXCEPT !.agent[profile] = agent]

\* deleteUserAgentProfile: the assignments of the profile go with it.
Deleted(settings, profile) ==
    [agent    |-> [settings.agent EXCEPT ![profile] = None],
     assigned |-> [host \in Hosts |-> IF settings.assigned[host] = profile THEN None
                                      ELSE settings.assigned[host]]]

\* applyUserAgentToSite and resetUserAgentForSite
Assigned(settings, host, profile) == [settings EXCEPT !.assigned[host] = profile]

\* The settings that an operation may want to store.
Mutations(settings) ==
    {Saved(settings, p, agent) : p \in Profiles \ Builtin, agent \in Agents}
    \cup {Deleted(settings, p) : p \in Custom(settings)}
    \cup {Assigned(settings, host, p) :
            host \in Hosts, p \in {q \in Profiles : Exists(settings, q)} \cup {None}}

-----------------------------------------------------------------------------
UaFault == uaFaults < MaxUaFaults /\ uaFaults' = uaFaults + 1

\* mutateUserAgentState: what changes nothing ends here.
MutateUa ==
    /\ uaAlive /\ uaStep = "idle"
    /\ uaOperations < MaxUaOperations
    /\ uaOperations' = uaOperations + 1
    /\ \E next \in Mutations(uaStored) :
         /\ Consistent(next) /\ next # uaStored
         /\ uaNext' = next
    /\ uaStep' = "apply"
    /\ UNCHANGED <<uaStored, uaRules, uaReconcile, uaAlive, uaAdrift, uaFaults, uaKills>>

\* applyUserAgentAssignments replaces the rules at once or not at all.
Apply ==
    /\ uaAlive /\ uaStep = "apply"
    /\ \/ uaRules' = RulesOf(uaNext) /\ uaStep' = "commit" /\ UNCHANGED uaFaults
       \/ UaFault /\ uaStep' = "idle" /\ UNCHANGED uaRules
    /\ UNCHANGED <<uaStored, uaNext, uaReconcile, uaAlive, uaAdrift, uaOperations, uaKills>>

\* MUTANT of Commit: a failed commit leaves the new rules in place.
CommitNotRestored ==
    /\ uaAlive /\ uaStep = "commit"
    /\ \/ uaStored' = uaNext /\ UNCHANGED uaFaults
       \/ UaFault /\ UNCHANGED uaStored
    /\ uaStep' = "idle" /\ uaAdrift' = FALSE
    /\ UNCHANGED <<uaRules, uaNext, uaReconcile, uaAlive, uaOperations, uaKills>>

\* updateState: when it is rejected, the settings may have been stored all the
\* same, for it writes two storage areas.
Commit ==
    /\ uaAlive /\ uaStep = "commit"
    /\ \/ /\ uaStored' = uaNext
          /\ uaStep' = "idle"
          /\ uaAdrift' = FALSE
          /\ UNCHANGED uaFaults
       \/ /\ UaFault
          /\ uaStored' \in {uaStored, uaNext}
          /\ uaStep' = "restore"
          /\ UNCHANGED uaAdrift
    /\ UNCHANGED <<uaRules, uaNext, uaReconcile, uaAlive, uaOperations, uaKills>>

\* The rules are made from the stored settings.
FromStored ==
    \/ uaRules' = RulesOf(uaStored) /\ uaAdrift' = FALSE /\ UNCHANGED uaFaults
    \/ UaFault /\ uaAdrift' = TRUE /\ UNCHANGED uaRules

\* reconcileDnrWithAuthoritativeState
Restore ==
    /\ uaAlive /\ uaStep = "restore"
    /\ uaStep' = "idle"
    /\ FromStored
    /\ UNCHANGED <<uaStored, uaNext, uaReconcile, uaAlive, uaOperations, uaKills>>

\* reconcileUserAgentRuntime, which restoreBackgroundState calls; a message may
\* have queued a mutation before it.
Reconcile ==
    /\ uaAlive /\ uaStep = "idle" /\ uaReconcile
    /\ uaReconcile' = FALSE
    /\ FromStored
    /\ UNCHANGED <<uaStored, uaStep, uaNext, uaAlive, uaOperations, uaKills>>

\* The browser terminates the worker; rules and settings stay.
UaKill ==
    /\ uaAlive /\ uaKills < MaxUaKills
    /\ uaKills' = uaKills + 1
    /\ uaAlive' = FALSE
    /\ uaStep' = "idle"
    /\ uaNext' = uaStored
    /\ UNCHANGED <<uaStored, uaRules, uaReconcile, uaAdrift, uaOperations, uaFaults>>

UaRestart ==
    /\ ~uaAlive
    /\ uaAlive' = TRUE /\ uaReconcile' = TRUE
    /\ UNCHANGED <<uaStored, uaRules, uaStep, uaNext, uaAdrift, uaOperations, uaFaults, uaKills>>

UaWorks == Apply \/ Commit \/ Restore \/ Reconcile \/ UaRestart

UaSteps == MutateUa \/ UaWorks \/ UaKill

UaSpec == UaInit /\ [][UaSteps]_uaVars

UaFairness == WF_uaVars(UaWorks)

-----------------------------------------------------------------------------
(* Properties *)

\* Between the operations the network rules say what is stored, whichever step
\* failed, whatever was stored by a rejected write, and wherever the worker died,
\* unless making them from what is stored has failed too and was reported.
RulesFollowSettings ==
    (uaAlive /\ uaStep = "idle" /\ ~uaReconcile /\ ~uaAdrift) => uaRules = RulesOf(uaStored)

\* The rules are those of the settings, or the failure was reported: again and again so,
\* however the operations and the worker end.
RulesCaughtUp == uaRules = RulesOf(uaStored) \/ uaAdrift
=============================================================================
