----------------------------- MODULE ServiceProofs -----------------------------
(***************************************************************************)
(* Proofs about six parts of the extension that share no state.            *)
(*                                                                         *)
(* User-Agent rules: whatever fails and whenever the worker dies, the      *)
(* network rules that are not reported as adrift are those of the stored   *)
(* settings, for any number of profiles, hosts and faults.                 *)
(*                                                                         *)
(* Audit log: for any bounds of the log and any number of events, clears,  *)
(* failures and terminations, the events stay in order, none is forgotten  *)
(* and none that was cleared comes back (AuditKept). The invariant says    *)
(* what the memory is to the stored log: the same, or, after a clear or a  *)
(* failed restore, empty over stored events that nobody misses (AuBehind). *)
(* That gives the write, which replaces the stored log by the memory and   *)
(* the batch, and needs that what is stored is older than what is on its   *)
(* way (AuOrder). Orders are stated for all pairs (Sorted), because to     *)
(* conclude them from neighbours would take an induction.                  *)
(*                                                                         *)
(* Rule sources: for any contents, any number of operations, faults and    *)
(* terminations, the settings are those of the address in use, the applied *)
(* rules those of the stored revision, or a named cause says why not       *)
(* (SourcesSound). Most of the invariant is about the update under way:    *)
(* what it will store (Fits), that the database has every revision that    *)
(* somebody is about to read (PxHas) and that the browser routes by the    *)
(* stored revision or by that of the update about to be stored (PxRoutes). *)
(*                                                                         *)
(* Test identities: for any containers, calls, stored proofs and faults    *)
(* (IdentitiesSound). The tables of proofs are recursive functions of any  *)
(* length; where an induction over the length would be used, the proofs    *)
(* take the least length at which something fails (LeastNumber).           *)
(*                                                                         *)
(* Replays: for any replays, declared prerequisites and commands of the    *)
(* recorder (ReplaySound). The queue lets one replay run (PeOneAtATime),   *)
(* so the chain it finds and puts back has hooks of the recorder alone;    *)
(* at most one of its requests is under way (PeOneUnderWay), so what was   *)
(* sent is at most one ahead of what was answered (Counted). What the      *)
(* recorder put its hook over is not compared with the page of then: its   *)
(* wrapper is taken away where it is the outermost, and there it is over   *)
(* the hooks of now (PeHooks).                                             *)
(*                                                                         *)
(* Agent session: for any number of requests, handoffs, user's operations  *)
(* and terminations, an acknowledged pause admits no action (PauseHolds),  *)
(* the timeline is true (TimelineSound), and a handoff has one outcome     *)
(* (OutcomeFinal). A pause sets the state in one step and is acknowledged  *)
(* in a later one. PauseSet says what may happen between them: only a      *)
(* completion of a handoff can unblock the agent, and it is either still   *)
(* to come or has marked the pause as overtaken. After the acknowledgement *)
(* no completion is under way, because each one that starts lifts the      *)
(* pause (PauseKept), and what is stored blocks as well, so that a restart *)
(* does.                                                                   *)
(***************************************************************************)
EXTENDS UserAgentRules, AuditLog, ProxySources, TestIdentities, PageExecution, AgentSession,
        FiniteSetTheorems, SequenceTheorems, WellFoundedInduction, TLAPS

(***************************************************************************)
(* User-Agent rules                                                        *)
(***************************************************************************)

\* While an operation has changed the rules and not yet stored the settings, the
\* rules are those of the settings that it is about to store.
RulesAhead == uaStep = "commit" => uaRules = RulesOf(uaNext)

\* Before it has changed them they are still those of the stored settings.
RulesBehind ==
    (uaAlive /\ uaStep \in {"idle", "apply"} /\ ~uaReconcile /\ ~uaAdrift)
        => uaRules = RulesOf(uaStored)

\* The parts of the type invariant.
SettingsTyped == uaStored \in Settings /\ uaNext \in Settings /\ uaRules \in [Hosts -> Agents \cup {None}]
FlagsTyped ==
    /\ uaStep \in {"idle", "apply", "commit", "restore"}
    /\ uaReconcile \in BOOLEAN /\ uaAlive \in BOOLEAN /\ uaAdrift \in BOOLEAN
CountsTyped ==
    /\ uaOperations \in 0 .. MaxUaOperations
    /\ uaFaults \in 0 .. MaxUaFaults /\ uaKills \in 0 .. MaxUaKills

UaInv == UaTypeOK /\ RulesAhead /\ RulesBehind

-----------------------------------------------------------------------------
(* What the operations make of the settings *)

\* A host is sent the User-Agent of a profile, or none.
LEMMA RulesTyped ==
    ASSUME NEW settings \in Settings
    PROVE  RulesOf(settings) \in [Hosts -> Agents \cup {None}]
<1> SUFFICES ASSUME NEW host \in Hosts
             PROVE  (IF settings.assigned[host] = None THEN None
                     ELSE settings.agent[settings.assigned[host]]) \in Agents \cup {None}
    BY DEF RulesOf
<1>1. settings.assigned[host] \in Profiles \cup {None}
    BY DEF Settings
<1>2. \A p \in Profiles : settings.agent[p] \in Agents \cup {None}
    BY DEF Settings
<1> QED
    BY <1>1, <1>2

\* Every operation makes settings of settings.
LEMMA MutationsTyped ==
    ASSUME NEW settings \in Settings, NEW next \in Mutations(settings)
    PROVE  next \in Settings
<1>1. CASE \E p \in Profiles \ Builtin, agent \in Agents : next = Saved(settings, p, agent)
    BY <1>1 DEF Saved, Settings
<1>2. CASE \E p \in Custom(settings) : next = Deleted(settings, p)
    BY <1>2 DEF Deleted, Custom, Settings
<1>3. CASE \E host \in Hosts, p \in {q \in Profiles : Exists(settings, q)} \cup {None} :
             next = Assigned(settings, host, p)
    BY <1>3 DEF Assigned, Settings
<1> QED
    BY <1>1, <1>2, <1>3 DEF Mutations

\* The profiles at the start are the built-in ones, assigned to no host.
LEMMA InitTyped ==
    ASSUME UaInit
    PROVE  uaStored \in Settings
<1>1. (CHOOSE agent \in Agents : TRUE) \in Agents
    BY UserAgentConstants
<1> QED
    BY <1>1 DEF UaInit, Settings

-----------------------------------------------------------------------------
(* The inductive invariant *)

\* The type invariant, in parts that the provers can take.
LEMMA TypeParts == UaTypeOK <=> SettingsTyped /\ FlagsTyped /\ CountsTyped
BY DEF UaTypeOK, SettingsTyped, FlagsTyped, CountsTyped

LEMMA InitInvariant == UaInit => UaInv
<1> SUFFICES ASSUME UaInit PROVE UaInv
    OBVIOUS
<1>1. SettingsTyped
  <2>1. uaStored \in Settings
    BY InitTyped
  <2>2. RulesOf(uaStored) \in [Hosts -> Agents \cup {None}]
    BY <2>1, RulesTyped
  <2> QED
    BY <2>1, <2>2 DEF UaInit, SettingsTyped
<1>2. FlagsTyped
    BY DEF UaInit, FlagsTyped
<1>3. CountsTyped
    BY UserAgentConstants DEF UaInit, CountsTyped
<1>4. RulesAhead /\ RulesBehind
    BY DEF UaInit, RulesAhead, RulesBehind
<1> QED
    BY <1>1, <1>2, <1>3, <1>4, TypeParts DEF UaInv

LEMMA MutateInvariant == ASSUME UaInv, MutateUa PROVE UaInv'
<1>0. SettingsTyped /\ FlagsTyped /\ CountsTyped /\ RulesAhead /\ RulesBehind
    BY TypeParts DEF UaInv
<1>1. SettingsTyped'
  <2>1. PICK next \in Mutations(uaStored) : uaNext' = next
    BY DEF MutateUa
  <2>2. uaNext' \in Settings
    BY <1>0, <2>1, MutationsTyped DEF SettingsTyped
  <2> QED
    BY <1>0, <2>2 DEF MutateUa, SettingsTyped
<1>2. FlagsTyped'
    BY <1>0 DEF MutateUa, FlagsTyped
<1>3. CountsTyped'
    BY <1>0, UserAgentConstants DEF MutateUa, CountsTyped
<1>4. RulesAhead' /\ RulesBehind'
    BY <1>0 DEF MutateUa, RulesAhead, RulesBehind, RulesOf
<1> QED
    BY <1>1, <1>2, <1>3, <1>4, TypeParts DEF UaInv, UaTypeOK, SettingsTyped, FlagsTyped, CountsTyped

LEMMA ApplyInvariant == ASSUME UaInv, Apply PROVE UaInv'
<1>0. SettingsTyped /\ FlagsTyped /\ CountsTyped /\ RulesAhead /\ RulesBehind
    BY TypeParts DEF UaInv
<1>1. SettingsTyped'
  <2>1. RulesOf(uaNext) \in [Hosts -> Agents \cup {None}]
    BY <1>0, RulesTyped DEF SettingsTyped
  <2> QED
    BY <1>0, <2>1 DEF Apply, UaFault, SettingsTyped
<1>2. FlagsTyped'
    BY <1>0 DEF Apply, UaFault, FlagsTyped
<1>3. CountsTyped'
    BY <1>0, UserAgentConstants DEF Apply, UaFault, CountsTyped
<1>4. RulesAhead' /\ RulesBehind'
    BY <1>0 DEF Apply, UaFault, RulesAhead, RulesBehind, RulesOf
<1> QED
    BY <1>1, <1>2, <1>3, <1>4, TypeParts DEF UaInv, UaTypeOK, SettingsTyped, FlagsTyped, CountsTyped

LEMMA CommitInvariant == ASSUME UaInv, Commit PROVE UaInv'
<1>0. SettingsTyped /\ FlagsTyped /\ CountsTyped /\ RulesAhead /\ RulesBehind
    BY TypeParts DEF UaInv
<1>1. SettingsTyped'
    BY <1>0 DEF Commit, UaFault, SettingsTyped
<1>2. FlagsTyped'
    BY <1>0 DEF Commit, UaFault, FlagsTyped
<1>3. CountsTyped'
    BY <1>0, UserAgentConstants DEF Commit, UaFault, CountsTyped
<1>4. RulesAhead' /\ RulesBehind'
    BY <1>0 DEF Commit, UaFault, RulesAhead, RulesBehind, RulesOf
<1> QED
    BY <1>1, <1>2, <1>3, <1>4, TypeParts DEF UaInv, UaTypeOK, SettingsTyped, FlagsTyped, CountsTyped

LEMMA RestoreInvariant == ASSUME UaInv, Restore PROVE UaInv'
<1>0. SettingsTyped /\ FlagsTyped /\ CountsTyped /\ RulesAhead /\ RulesBehind
    BY TypeParts DEF UaInv
<1>1. SettingsTyped'
  <2>1. RulesOf(uaStored) \in [Hosts -> Agents \cup {None}]
    BY <1>0, RulesTyped DEF SettingsTyped
  <2> QED
    BY <1>0, <2>1 DEF Restore, FromStored, UaFault, SettingsTyped
<1>2. FlagsTyped'
    BY <1>0 DEF Restore, FromStored, UaFault, FlagsTyped
<1>3. CountsTyped'
    BY <1>0, UserAgentConstants DEF Restore, FromStored, UaFault, CountsTyped
<1>4. RulesAhead' /\ RulesBehind'
    BY <1>0 DEF Restore, FromStored, UaFault, RulesAhead, RulesBehind, RulesOf
<1> QED
    BY <1>1, <1>2, <1>3, <1>4, TypeParts DEF UaInv, UaTypeOK, SettingsTyped, FlagsTyped, CountsTyped

LEMMA ReconcileInvariant == ASSUME UaInv, Reconcile PROVE UaInv'
<1>0. SettingsTyped /\ FlagsTyped /\ CountsTyped /\ RulesAhead /\ RulesBehind
    BY TypeParts DEF UaInv
<1>1. SettingsTyped'
  <2>1. RulesOf(uaStored) \in [Hosts -> Agents \cup {None}]
    BY <1>0, RulesTyped DEF SettingsTyped
  <2> QED
    BY <1>0, <2>1 DEF Reconcile, FromStored, UaFault, SettingsTyped
<1>2. FlagsTyped'
    BY <1>0 DEF Reconcile, FromStored, UaFault, FlagsTyped
<1>3. CountsTyped'
    BY <1>0, UserAgentConstants DEF Reconcile, FromStored, UaFault, CountsTyped
<1>4. RulesAhead' /\ RulesBehind'
    BY <1>0 DEF Reconcile, FromStored, UaFault, RulesAhead, RulesBehind, RulesOf
<1> QED
    BY <1>1, <1>2, <1>3, <1>4, TypeParts DEF UaInv, UaTypeOK, SettingsTyped, FlagsTyped, CountsTyped

LEMMA KillInvariant == ASSUME UaInv, UaKill PROVE UaInv'
<1>0. SettingsTyped /\ FlagsTyped /\ CountsTyped /\ RulesAhead /\ RulesBehind
    BY TypeParts DEF UaInv
<1>1. SettingsTyped'
    BY <1>0 DEF UaKill, SettingsTyped
<1>2. FlagsTyped'
    BY <1>0 DEF UaKill, FlagsTyped
<1>3. CountsTyped'
    BY <1>0, UserAgentConstants DEF UaKill, CountsTyped
<1>4. RulesAhead' /\ RulesBehind'
    BY <1>0 DEF UaKill, RulesAhead, RulesBehind, RulesOf
<1> QED
    BY <1>1, <1>2, <1>3, <1>4, TypeParts DEF UaInv, UaTypeOK, SettingsTyped, FlagsTyped, CountsTyped

LEMMA RestartInvariant == ASSUME UaInv, UaRestart PROVE UaInv'
<1>0. SettingsTyped /\ FlagsTyped /\ CountsTyped /\ RulesAhead /\ RulesBehind
    BY TypeParts DEF UaInv
<1>1. SettingsTyped'
    BY <1>0 DEF UaRestart, SettingsTyped
<1>2. FlagsTyped'
    BY <1>0 DEF UaRestart, FlagsTyped
<1>3. CountsTyped'
    BY <1>0, UserAgentConstants DEF UaRestart, CountsTyped
<1>4. RulesAhead' /\ RulesBehind'
    BY <1>0 DEF UaRestart, RulesAhead, RulesBehind, RulesOf
<1> QED
    BY <1>1, <1>2, <1>3, <1>4, TypeParts DEF UaInv, UaTypeOK, SettingsTyped, FlagsTyped, CountsTyped

LEMMA StepInvariant == UaInv /\ [UaSteps]_uaVars => UaInv'
<1> SUFFICES ASSUME UaInv, [UaSteps]_uaVars PROVE UaInv'
    OBVIOUS
<1>1. CASE UNCHANGED uaVars
    BY <1>1 DEF UaInv, UaTypeOK, RulesAhead, RulesBehind, RulesOf, uaVars
<1>2. CASE UaSteps
    BY <1>2, MutateInvariant, ApplyInvariant, CommitInvariant, RestoreInvariant,
       ReconcileInvariant, KillInvariant, RestartInvariant DEF UaSteps, UaWorks
<1> QED
    BY <1>1, <1>2

-----------------------------------------------------------------------------
(* Theorems *)

LEMMA Invariance == UaSpec => []UaInv
BY InitInvariant, StepInvariant, PTL DEF UaSpec

\* Rules, settings and steps keep their types.
THEOREM UaTyped == UaSpec => []UaTypeOK
<1>1. UaInv => UaTypeOK
    BY DEF UaInv
<1> QED
    BY <1>1, Invariance, PTL

\* Between the operations the rules are those of the stored settings, unless the
\* attempt to make them so has failed and was reported: for any number of failing
\* steps and terminations, wherever they strike.
THEOREM RulesNeverDrift == UaSpec => []RulesFollowSettings
<1>1. UaInv => RulesFollowSettings
    BY DEF UaInv, RulesBehind, RulesFollowSettings
<1> QED
    BY <1>1, Invariance, PTL

(***************************************************************************)
(* Audit log                                                               *)
(***************************************************************************)

(* Sequences of numbers *)

Sorted(s) == \A i, j \in 1 .. Len(s) : i < j => s[i] < s[j]
Before(s, t) == \A d \in Ids(s), e \in Ids(t) : d < e

LEMMA SeqGrows ==
    ASSUME NEW a \in Nat, NEW b \in Nat, a <= b, NEW s \in Seq(1 .. a)
    PROVE  s \in Seq(1 .. b)
  OBVIOUS

LEMMA LastOfIs ==
    ASSUME NEW S, NEW s \in Seq(S), NEW most \in Nat \ {0}
    PROVE  /\ LastOf(s, most) \in Seq(S)
           /\ Len(LastOf(s, most)) = IF Len(s) <= most THEN Len(s) ELSE most
           /\ \A i \in 1 .. Len(LastOf(s, most)) :
                LastOf(s, most)[i] = s[i + (Len(s) - Len(LastOf(s, most)))]
<1> DEFINE first == IF Len(s) <= most THEN 1 ELSE Len(s) - most + 1
<1>1. Len(s) \in Nat /\ first \in 1 .. Len(s) + 1 /\ \A i \in first .. Len(s) : s[i] \in S
  OBVIOUS
<1>2. LastOf(s, most) = SubSeq(s, first, Len(s))
  BY DEF LastOf
<1>3. Len(s) - first + 1 = IF Len(s) <= most THEN Len(s) ELSE most
  BY <1>1
<1> HIDE DEF first
<1>4. /\ LastOf(s, most) \in Seq(S)
      /\ Len(LastOf(s, most)) = IF first <= Len(s) THEN Len(s) - first + 1 ELSE 0
      /\ \A i \in 1 .. Len(s) - first + 1 : LastOf(s, most)[i] = s[first + i - 1]
  BY <1>1, <1>2, SubSeqProperties
<1>5. Len(LastOf(s, most)) = Len(s) - first + 1
  BY <1>1, <1>4
<1>6. ASSUME NEW i \in 1 .. Len(LastOf(s, most))
      PROVE  LastOf(s, most)[i] = s[i + (Len(s) - Len(LastOf(s, most)))]
  <2>1. first + i - 1 = i + (Len(s) - Len(LastOf(s, most)))
    BY <1>1, <1>5
  <2>2. QED
    BY <1>4, <1>5, <2>1
<1>7. QED
  BY <1>3, <1>4, <1>5, <1>6

LEMMA CatIs ==
    ASSUME NEW S, NEW s \in Seq(S), NEW t \in Seq(S)
    PROVE  /\ s \o t \in Seq(S) /\ Len(s \o t) = Len(s) + Len(t)
           /\ \A i \in 1 .. Len(s) : (s \o t)[i] = s[i]
           /\ \A i \in 1 .. Len(t) : (s \o t)[Len(s) + i] = t[i]
           /\ \A i \in Len(s) + 1 .. Len(s) + Len(t) : (s \o t)[i] = t[i - Len(s)]
  OBVIOUS

LEMMA IdsOf ==
    ASSUME NEW S, NEW s \in Seq(S)
    PROVE  \A e : e \in Ids(s) <=> \E i \in 1 .. Len(s) : s[i] = e
<1>1. DOMAIN s = 1 .. Len(s)
  OBVIOUS
<1>2. QED
  BY <1>1 DEF Ids

LEMMA CatIds ==
    ASSUME NEW S, NEW s \in Seq(S), NEW t \in Seq(S)
    PROVE  \A e : e \in Ids(s \o t) <=> e \in Ids(s) \/ e \in Ids(t)
<1>1. Len(s) \in Nat /\ Len(t) \in Nat /\ s \o t \in Seq(S)
  BY CatIs
<1>2. \A e : /\ e \in Ids(s \o t) <=> \E i \in 1 .. Len(s \o t) : (s \o t)[i] = e
             /\ e \in Ids(s) <=> \E i \in 1 .. Len(s) : s[i] = e
             /\ e \in Ids(t) <=> \E i \in 1 .. Len(t) : t[i] = e
  BY <1>1, IdsOf
<1>3. ASSUME NEW i \in 1 .. Len(s \o t)
      PROVE  \/ \E j \in 1 .. Len(s) : s[j] = (s \o t)[i]
             \/ \E j \in 1 .. Len(t) : t[j] = (s \o t)[i]
  <2>1. CASE i <= Len(s)
    BY <1>1, <2>1, CatIs
  <2>2. CASE i > Len(s)
    <3>1. i - Len(s) \in 1 .. Len(t) /\ (s \o t)[i] = t[i - Len(s)]
      BY <1>1, <2>2, CatIs
    <3>2. QED
      BY <3>1
  <2>3. QED
    BY <1>1, <2>1, <2>2
<1>4. ASSUME NEW i \in 1 .. Len(s)
      PROVE  i \in 1 .. Len(s \o t) /\ (s \o t)[i] = s[i]
  BY <1>1, CatIs
<1>5. ASSUME NEW i \in 1 .. Len(t)
      PROVE  Len(s) + i \in 1 .. Len(s \o t) /\ (s \o t)[Len(s) + i] = t[i]
  BY <1>1, CatIs
<1>6. QED
  BY <1>2, <1>3, <1>4, <1>5

LEMMA CatSorted ==
    ASSUME NEW s \in Seq(Nat), NEW t \in Seq(Nat), Sorted(s), Sorted(t), Before(s, t)
    PROVE  Sorted(s \o t)
<1>1. SUFFICES ASSUME NEW i \in 1 .. Len(s \o t), NEW j \in 1 .. Len(s \o t), i < j
               PROVE  (s \o t)[i] < (s \o t)[j]
  BY DEF Sorted
<1>2. Len(s \o t) = Len(s) + Len(t) /\ Len(s) \in Nat /\ Len(t) \in Nat
  BY CatIs
<1>3. CASE j <= Len(s)
  <2>1. i \in 1 .. Len(s) /\ j \in 1 .. Len(s)
    BY <1>1, <1>2, <1>3
  <2>2. (s \o t)[i] = s[i] /\ (s \o t)[j] = s[j]
    BY <2>1, CatIs
  <2>3. QED
    BY <1>1, <2>1, <2>2 DEF Sorted
<1>4. CASE i > Len(s)
  <2>1. i - Len(s) \in 1 .. Len(t) /\ j - Len(s) \in 1 .. Len(t) /\ i - Len(s) < j - Len(s)
    BY <1>1, <1>2, <1>4
  <2>2. t[i - Len(s)] < t[j - Len(s)]
    BY <2>1 DEF Sorted
  <2>3. QED
    BY <1>1, <1>2, <1>4, <2>2, CatIs
<1>5. CASE i <= Len(s) /\ j > Len(s)
  <2>1. i \in 1 .. Len(s) /\ j - Len(s) \in 1 .. Len(t)
    BY <1>1, <1>2, <1>5
  <2>2. (s \o t)[i] = s[i] /\ (s \o t)[j] = t[j - Len(s)]
    BY <1>2, <1>5, <2>1, CatIs
  <2>3. s[i] \in Ids(s) /\ t[j - Len(s)] \in Ids(t)
    BY <2>1, IdsOf
  <2>4. QED
    BY <2>2, <2>3 DEF Before
<1>6. QED
  BY <1>1, <1>2, <1>3, <1>4, <1>5

LEMMA LastSorted ==
    ASSUME NEW s \in Seq(Nat), Sorted(s), NEW most \in Nat \ {0}
    PROVE  /\ Sorted(LastOf(s, most)) /\ \A e \in Ids(LastOf(s, most)) : e \in Ids(s)
           /\ \A e \in Ids(s) \ Ids(LastOf(s, most)), i \in 1 .. Len(LastOf(s, most)) : e < LastOf(s, most)[i]
           /\ \A e \in Ids(s) \ Ids(LastOf(s, most)) : Len(LastOf(s, most)) = most
<1> DEFINE l == LastOf(s, most)
           off == Len(s) - Len(l)
<1>1. l \in Seq(Nat) /\ Len(l) = (IF Len(s) <= most THEN Len(s) ELSE most)
      /\ \A i \in 1 .. Len(l) : l[i] = s[i + off]
  BY LastOfIs
<1>2. Len(s) \in Nat /\ Len(l) \in Nat /\ off \in Nat /\ off + Len(l) = Len(s)
  BY <1>1
<1> HIDE DEF l, off
<1>3. \A i \in 1 .. Len(l) : i + off \in 1 .. Len(s)
  BY <1>2
<1>4. Sorted(l)
  <2>1. SUFFICES ASSUME NEW i \in 1 .. Len(l), NEW j \in 1 .. Len(l), i < j
                 PROVE  l[i] < l[j]
    BY DEF Sorted
  <2>2. i + off \in 1 .. Len(s) /\ j + off \in 1 .. Len(s) /\ i + off < j + off
    BY <1>2, <1>3, <2>1
  <2>3. s[i + off] < s[j + off]
    BY <2>2 DEF Sorted
  <2>4. QED
    BY <1>1, <2>3
<1>5. \A e \in Ids(l) : e \in Ids(s)
  <2>1. SUFFICES ASSUME NEW e \in Ids(l)
                 PROVE  e \in Ids(s)
    OBVIOUS
  <2>2. PICK i \in 1 .. Len(l) : l[i] = e
    BY <1>1, IdsOf
  <2>3. s[i + off] = e /\ i + off \in 1 .. Len(s)
    BY <1>1, <1>3, <2>2
  <2>4. QED
    BY <2>3, IdsOf
<1>6. ASSUME NEW e \in Ids(s), e \notin Ids(l)
      PROVE  Len(l) = most /\ \A i \in 1 .. Len(l) : e < l[i]
  <2>1. PICK j \in 1 .. Len(s) : s[j] = e
    BY IdsOf
  <2>2. j <= off
    <3>1. SUFFICES ASSUME j > off
                   PROVE  FALSE
      BY <1>2
    <3>2. j - off \in 1 .. Len(l) /\ j - off + off = j
      BY <1>2, <3>1
    <3>4. l[j - off] = e
      BY <1>1, <2>1, <3>2
    <3>3. QED
      BY <1>1, <1>6, <3>2, <3>4, IdsOf
  <2>3. \A i \in 1 .. Len(l) : j < i + off
    BY <1>2, <2>2
  <2>4. \A i \in 1 .. Len(l) : e < l[i]
    BY <1>1, <1>3, <2>1, <2>3 DEF Sorted
  <2>5. Len(l) = most
    BY <1>1, <1>2, <2>2
  <2>6. QED
    BY <2>4, <2>5
<1>7. QED
  BY <1>4, <1>5, <1>6 DEF l

LEMMA SortedIncreases ==
    ASSUME NEW s \in Seq(Nat), Sorted(s)
    PROVE  Increasing(s)
  BY DEF Sorted, Increasing

LEMMA AppendIs ==
    ASSUME NEW S, NEW s \in Seq(S), NEW e \in S
    PROVE  Append(s, e) = s \o <<e>> /\ <<e>> \in Seq(S) /\ (\A d : d \in Ids(<<e>>) <=> d = e)
<1>1. Append(s, e) = s \o <<e>>
  BY AppendIsConcat
<1>2. <<e>> \in Seq(S) /\ Len(<<e>>) = 1 /\ <<e>>[1] = e
  OBVIOUS
<1>3. \A d : d \in Ids(<<e>>) <=> \E i \in 1 .. 1 : <<e>>[i] = d
  BY <1>2, IdsOf
<1>4. QED
  BY <1>1, <1>2, <1>3

\* What a flush takes and what it leaves.
LEMMA SplitIs ==
    ASSUME NEW S, NEW s \in Seq(S), s # <<>>, NEW most \in Nat \ {0}
    PROVE  LET taken == FirstOf(s, most)
               rest == SubSeq(s, Len(taken) + 1, Len(s))
           IN  /\ taken \in Seq(S) /\ rest \in Seq(S)
               /\ taken # <<>> /\ Len(taken) <= most /\ Len(taken) + Len(rest) = Len(s)
               /\ \A i \in 1 .. Len(taken) : taken[i] = s[i]
               /\ \A i \in 1 .. Len(rest) : rest[i] = s[Len(taken) + i]
<1> DEFINE n == IF Len(s) <= most THEN Len(s) ELSE most
           taken == FirstOf(s, most)
           rest == SubSeq(s, Len(taken) + 1, Len(s))
<1>1. Len(s) \in Nat /\ n \in 1 .. Len(s) /\ n <= most /\ \A i \in 1 .. Len(s) : s[i] \in S
  OBVIOUS
<1>2. taken = SubSeq(s, 1, n)
  BY DEF FirstOf
<1> HIDE DEF n
<1>3. taken \in Seq(S) /\ Len(taken) = n /\ \A i \in 1 .. n : taken[i] = s[i]
  <2>1. /\ SubSeq(s, 1, n) \in Seq(S)
        /\ Len(SubSeq(s, 1, n)) = IF 1 <= n THEN n - 1 + 1 ELSE 0
        /\ \A i \in 1 .. n - 1 + 1 : SubSeq(s, 1, n)[i] = s[1 + i - 1]
    BY <1>1, SubSeqProperties
  <2>2. QED
    BY <1>1, <1>2, <2>1
<1>4. rest = SubSeq(s, n + 1, Len(s))
  BY <1>3
<1>5. rest \in Seq(S) /\ Len(rest) = Len(s) - n /\ \A i \in 1 .. Len(rest) : rest[i] = s[n + i]
  <2>1. /\ SubSeq(s, n + 1, Len(s)) \in Seq(S)
        /\ Len(SubSeq(s, n + 1, Len(s))) = IF n + 1 <= Len(s) THEN Len(s) - (n + 1) + 1 ELSE 0
        /\ \A i \in 1 .. Len(s) - (n + 1) + 1 : SubSeq(s, n + 1, Len(s))[i] = s[n + 1 + i - 1]
    <3>1. n + 1 \in Int /\ Len(s) \in Int /\ \A i \in n + 1 .. Len(s) : s[i] \in S
      BY <1>1
    <3>2. QED
      BY <3>1, SubSeqProperties
  <2>2. Len(rest) = Len(s) - n
    BY <1>1, <1>4, <2>1
  <2>3. Len(s) - (n + 1) + 1 = Len(s) - n /\ \A i \in 1 .. Len(s) - n : n + 1 + i - 1 = n + i
    BY <1>1
  <2>4. \A i \in 1 .. Len(s) - n : rest[i] = s[n + i]
    BY <1>4, <2>1, <2>3
  <2>5. QED
    BY <1>4, <2>1, <2>2, <2>4
<1> HIDE DEF taken, rest
<1>6. taken # <<>>
  BY <1>1, <1>3
<1>7. QED
  BY <1>1, <1>3, <1>5, <1>6 DEF taken, rest

LEMMA SplitIds ==
    ASSUME NEW s \in Seq(Nat), NEW taken \in Seq(Nat), NEW rest \in Seq(Nat), Sorted(s),
           Len(taken) + Len(rest) = Len(s),
           \A i \in 1 .. Len(taken) : taken[i] = s[i],
           \A i \in 1 .. Len(rest) : rest[i] = s[Len(taken) + i]
    PROVE  /\ Sorted(taken) /\ Sorted(rest) /\ Before(taken, rest)
           /\ \A e : e \in Ids(s) <=> e \in Ids(taken) \/ e \in Ids(rest)
<1>1. Len(taken) \in Nat /\ Len(rest) \in Nat /\ Len(s) \in Nat
  OBVIOUS
<1>2. Sorted(taken)
  <2>1. \A i \in 1 .. Len(taken) : i \in 1 .. Len(s)
    BY <1>1
  <2>2. QED
    BY <2>1 DEF Sorted
<1>3. Sorted(rest)
  <2>1. \A i, j \in 1 .. Len(rest) : i < j =>
          /\ Len(taken) + i \in 1 .. Len(s) /\ Len(taken) + j \in 1 .. Len(s)
          /\ Len(taken) + i < Len(taken) + j
    <3>1. \A a, b, c \in Nat : a + b = c =>
            \A x, y \in 1 .. b : x < y => a + x \in 1 .. c /\ a + y \in 1 .. c /\ a + x < a + y
      OBVIOUS
    <3>2. QED
      BY <1>1, <3>1
  <2>2. QED
    BY <2>1 DEF Sorted
<1>4. Before(taken, rest)
  <2>1. SUFFICES ASSUME NEW d \in Ids(taken), NEW e \in Ids(rest)
                 PROVE  d < e
    BY DEF Before
  <2>2. PICK i \in 1 .. Len(taken) : taken[i] = d
    BY IdsOf
  <2>3. PICK j \in 1 .. Len(rest) : rest[j] = e
    BY IdsOf
  <2>4. i \in 1 .. Len(s) /\ Len(taken) + j \in 1 .. Len(s) /\ i < Len(taken) + j
    <3>1. \A a, b, c \in Nat : a + b = c =>
            \A x \in 1 .. a, y \in 1 .. b : x \in 1 .. c /\ a + y \in 1 .. c /\ x < a + y
      OBVIOUS
    <3>2. QED
      BY <1>1, <3>1
  <2>5. d = s[i] /\ e = s[Len(taken) + j]
    BY <2>2, <2>3
  <2>6. QED
    BY <2>4, <2>5 DEF Sorted
<1>5. s = taken \o rest
  <2>1. Len(taken \o rest) = Len(s) /\ taken \o rest \in Seq(Nat)
    BY CatIs
  <2>2. ASSUME NEW i \in 1 .. Len(s)
        PROVE  s[i] = (taken \o rest)[i]
    <3>1. CASE i <= Len(taken)
      BY <1>1, <3>1, CatIs
    <3>2. CASE i > Len(taken)
      <4>1. i - Len(taken) \in 1 .. Len(rest) /\ Len(taken) + (i - Len(taken)) = i
        BY <1>1, <3>2
      <4>2. (taken \o rest)[Len(taken) + (i - Len(taken))] = rest[i - Len(taken)]
        BY <4>1, CatIs
      <4>3. QED
        BY <4>1, <4>2
    <3>3. QED
      BY <1>1, <3>1, <3>2
  <2>3. QED
    BY <2>1, <2>2, SeqEqual
<1>6. QED
  BY <1>2, <1>3, <1>4, <1>5, CatIds

-----------------------------------------------------------------------------
(* The values *)

Seen == 1 .. auAppends

AuValues ==
    /\ auStored \in Seq(Seen) /\ Len(auStored) <= MaxEvents
    /\ auMemory \in Seq(Seen) /\ Len(auMemory) <= MaxEvents
    /\ auNext \in Seq(Seen) /\ Len(auNext) <= MaxEvents
    /\ auPending \in Seq(Seen) /\ Len(auPending) <= MaxPending
    /\ auBatch \in Seq(Seen) /\ Len(auBatch) <= MaxBatch
    /\ auQueue \in Seq({"flush", "clear"})
    /\ auDropped \subseteq Seen /\ auCleared \subseteq Seen /\ auKept \subseteq Seen /\ auLost \subseteq Events
    /\ auAppends \in Nat

AuCounts ==
    /\ auAppends \in 0 .. MaxAppends /\ auClears \in 0 .. MaxClears
    /\ auFaults \in 0 .. MaxAuditFaults /\ auKills \in 0 .. MaxAuditKills

AuFlags ==
    /\ auWriting \in BOOLEAN /\ auTimer \in BOOLEAN /\ auError \in BOOLEAN
    /\ auRestored \in BOOLEAN /\ auRaced \in BOOLEAN
    /\ auWriting => auQueue # <<>>

LEMMA IdsBounded ==
    ASSUME NEW a \in Nat, NEW s \in Seq(1 .. a)
    PROVE  Ids(s) \subseteq 1 .. a /\ s \in Seq(Nat)
<1>1. \A e \in Ids(s) : e \in 1 .. a
  BY IdsOf
<1>2. s \in Seq(Nat)
  OBVIOUS
<1>3. QED
  BY <1>1, <1>2

\* What is in the log, of any of its parts.
LEMMA LogIds ==
    ASSUME AuValues
    PROVE  /\ auAppends \in Nat
           /\ \A s \in {auStored, auMemory, auNext, auPending, auBatch} :
                s \in Seq(Nat) /\ Ids(s) \subseteq Seen
  BY IdsBounded, AuditConstants DEF AuValues, Seen

LEMMA Queues ==
    ASSUME NEW q \in Seq({"flush", "clear"})
    PROVE  /\ \A entry \in {"flush", "clear"} :
                /\ Append(q, entry) \in Seq({"flush", "clear"}) /\ Append(q, entry) # <<>>
                /\ Len(Append(q, entry)) = Len(q) + 1 /\ Append(q, entry)[Len(q) + 1] = entry
                /\ \A i \in 1 .. Len(q) : Append(q, entry)[i] = q[i]
           /\ Len(q) \in Nat /\ (q # <<>> <=> Len(q) # 0)
           /\ q # <<>> => /\ Head(q) = q[1] /\ Tail(q) \in Seq({"flush", "clear"})
                          /\ Len(Tail(q)) = Len(q) - 1 /\ \A i \in 1 .. Len(q) - 1 : Tail(q)[i] = q[i + 1]
  OBVIOUS

LEMMA BoundedIs ==
    ASSUME NEW a \in Nat, NEW s \in Seq(1 .. a), Bounded(s)
    PROVE  /\ auPending' \in Seq(1 .. a) /\ Len(auPending') <= MaxPending
           /\ auDropped' \subseteq auDropped \cup Ids(s)
           /\ Sorted(s) => /\ Sorted(auPending') /\ Ids(auPending') \subseteq Ids(s)
           /\ auDropped \subseteq auDropped'
           /\ \A e \in Ids(s) : e \in Ids(auPending') \/ e \in auDropped'
<1>1. auPending' = LastOf(s, MaxPending) /\ auDropped' = auDropped \cup (Ids(s) \ Ids(auPending'))
  BY DEF Bounded
<1>2. MaxPending \in Nat \ {0}
  BY AuditConstants
<1>3. LastOf(s, MaxPending) \in Seq(1 .. a) /\ Len(s) \in Nat
      /\ Len(LastOf(s, MaxPending)) = (IF Len(s) <= MaxPending THEN Len(s) ELSE MaxPending)
  BY <1>2, LastOfIs
<1>4. Sorted(s) => /\ Sorted(LastOf(s, MaxPending)) /\ \A e \in Ids(LastOf(s, MaxPending)) : e \in Ids(s)
  BY <1>2, IdsBounded, LastSorted
<1>5. QED
  BY <1>1, <1>2, <1>3, <1>4

\* What a step can do to each part.
CountEffects ==
    /\ auAppends' = auAppends \/ (auAppends < MaxAppends /\ auAppends' = auAppends + 1)
    /\ auClears' = auClears \/ (auClears < MaxClears /\ auClears' = auClears + 1)
    /\ auFaults' = auFaults \/ (auFaults < MaxAuditFaults /\ auFaults' = auFaults + 1)
    /\ auKills' = auKills \/ (auKills < MaxAuditKills /\ auKills' = auKills + 1)
StoreEffects ==
    /\ auStored' = auStored \/ auStored' = auNext \/ auStored' = <<>>
    /\ auMemory' = auMemory \/ auMemory' = auStored \/ auMemory' = auNext \/ auMemory' = <<>>
BatchEffects ==
    \/ auBatch' = auBatch /\ auNext' = auNext
    \/ auBatch' = <<>> /\ auNext' = <<>>
    \/ StartFlush /\ auPending # <<>>
QueueEffects ==
    \/ auQueue' = auQueue
    \/ auQueue' = <<>>
    \/ auQueue' = Append(auQueue, "flush")
    \/ auQueue' = Append(auQueue, "clear")
    \/ auQueue' = Tail(auQueue) /\ (auQueue # <<>> \/ auWriting)
PendingEffects ==
    \/ auPending' = auPending /\ auDropped' = auDropped
    \/ auPending' = <<>> /\ auDropped' = auDropped
    \/ AppendEvent
    \/ FlushFailed
    \/ StartFlush /\ auPending # <<>>
LostEffects ==
    \/ auLost' = auLost
    \/ auLost' = auLost \cup UpTo(auStored)
    \/ auLost' = auLost \cup ((Ids(auPending) \cup Ids(auBatch)) \ Ids(auStored'))

LEMMA Effects ==
    ASSUME [AuditSteps]_auVars
    PROVE  CountEffects /\ StoreEffects /\ BatchEffects /\ QueueEffects /\ PendingEffects /\ LostEffects
<1> USE DEF CountEffects, StoreEffects, BatchEffects, QueueEffects, PendingEffects, LostEffects
<1>1. CASE AppendEvent
  BY <1>1 DEF AppendEvent
<1>2. CASE AuditTimer
  BY <1>2 DEF AuditTimer
<1>3. CASE Clear
  BY <1>3 DEF Clear
<1>4. CASE RestoreEvents
  BY <1>4 DEF RestoreEvents, AuditFault
<1>5. CASE StartFlush
  BY <1>5 DEF StartFlush
<1>6. CASE FinishFlush
  <2>1. CASE Flushed
    BY <1>6, <2>1 DEF FinishFlush, Flushed
  <2>2. CASE FlushFailed
    BY <1>6, <2>2 DEF FinishFlush, FlushFailed, AuditFault
  <2>3. QED
    BY <1>6, <2>1, <2>2 DEF FinishFlush
<1>7. CASE RemoveEvents
  BY <1>7 DEF RemoveEvents, AuditFault
<1>8. CASE KillWorker
  BY <1>8 DEF KillWorker
<1>9. CASE UNCHANGED auVars
  BY <1>9 DEF auVars
<1>10. QED
  BY <1>1, <1>2, <1>3, <1>4, <1>5, <1>6, <1>7, <1>8, <1>9 DEF AuditSteps, AuditWorks

LEMMA NextAuditValues ==
    ASSUME AuCounts, AuValues, AuFlags, [AuditSteps]_auVars
    PROVE  AuCounts' /\ AuValues'
<1>0. CountEffects /\ StoreEffects /\ BatchEffects /\ QueueEffects /\ PendingEffects /\ LostEffects
  BY Effects
<1>1. auAppends \in Nat /\ auAppends' \in 0 .. MaxAppends /\ auAppends' \in Nat /\ auAppends <= auAppends'
  BY <1>0, AuditConstants DEF AuCounts, CountEffects
<1>2. AuCounts'
  BY <1>0, AuditConstants DEF AuCounts, CountEffects
<1>4. Seen \subseteq Seen' /\ Seen' \subseteq Events
  BY <1>1, AuditConstants DEF Seen, Events
<1>5. \A s \in Seq(Seen) : s \in Seq(Seen')
  BY <1>1, SeqGrows DEF Seen
<1>6. /\ \A s \in {auStored, auMemory, auNext, auPending, auBatch} : s \in Seq(Seen') /\ Ids(s) \subseteq Seen
      /\ <<>> \in Seq(Seen') /\ Len(<<>>) = 0
  <2>1. \A s \in {auStored, auMemory, auNext, auPending, auBatch} : s \in Seq(Seen)
    BY DEF AuValues
  <2>2. <<>> \in Seq(Seen') /\ Len(<<>>) = 0
    OBVIOUS
  <2>3. QED
    BY <1>5, <2>1, <2>2, LogIds
<1>7. auQueue' \in Seq({"flush", "clear"})
  <2>1. /\ auQueue \in Seq({"flush", "clear"}) /\ <<>> \in Seq({"flush", "clear"})
        /\ \A entry \in {"flush", "clear"} : Append(auQueue, entry) \in Seq({"flush", "clear"})
        /\ auQueue # <<>> => Tail(auQueue) \in Seq({"flush", "clear"})
    BY Queues DEF AuValues
  <2>2. QED
    BY <1>0, <2>1 DEF QueueEffects, AuFlags
<1>8. auKept' \subseteq Seen' /\ auCleared' \subseteq Seen'
  BY <1>4, <1>6 DEF AuValues, Seen, AuditSteps, AuditWorks, AppendEvent, AuditTimer, Clear,
     RestoreEvents,
     StartFlush, FinishFlush, RemoveEvents, KillWorker, auVars
<1>9. auLost' \subseteq Events
  <2>1. UpTo(auStored) \subseteq Events
    BY DEF UpTo
  <2>2. Ids(auPending) \subseteq Events /\ Ids(auBatch) \subseteq Events
    BY <1>4, <1>6
  <2>3. QED
    BY <1>0, <2>1, <2>2 DEF AuValues, LostEffects
<1>10. /\ Len(<<>>) <= MaxEvents /\ Len(<<>>) <= MaxPending /\ Len(<<>>) <= MaxBatch
       /\ Len(auStored) <= MaxEvents /\ Len(auMemory) <= MaxEvents /\ Len(auNext) <= MaxEvents
       /\ Len(auPending) <= MaxPending /\ Len(auBatch) <= MaxBatch
  BY <1>6, AuditConstants DEF AuValues
<1>11. /\ auStored' \in Seq(Seen') /\ Len(auStored') <= MaxEvents
       /\ auMemory' \in Seq(Seen') /\ Len(auMemory') <= MaxEvents
  BY <1>0, <1>6, <1>10 DEF StoreEffects
<1>12. ASSUME auPending # <<>>, StartFlush
       PROVE  /\ auBatch' \in Seq(Seen') /\ Len(auBatch') <= MaxBatch
              /\ auNext' \in Seq(Seen') /\ Len(auNext') <= MaxEvents
              /\ auPending' \in Seq(Seen') /\ Len(auPending') <= MaxPending
  <2>1. /\ auBatch' = FirstOf(auPending, MaxBatch)
        /\ auPending' = SubSeq(auPending, Len(auBatch') + 1, Len(auPending))
        /\ auNext' = LastOf(auMemory \o auBatch', MaxEvents)
    BY <1>12 DEF StartFlush
  <2>2. /\ auBatch' \in Seq(Seen') /\ auPending' \in Seq(Seen')
        /\ Len(auBatch') <= MaxBatch /\ Len(auBatch') + Len(auPending') = Len(auPending)
    <3>1. auPending \in Seq(Seen') /\ MaxBatch \in Nat \ {0}
      BY <1>6, AuditConstants
    <3>2. QED
      BY <1>12, <2>1, <3>1, SplitIs
  <2>3. Len(auPending') <= MaxPending
    <3>1. Len(auPending') \in Nat /\ Len(auBatch') \in Nat /\ Len(auPending) <= MaxPending
      BY <2>2 DEF AuValues
    <3>2. QED
      BY <2>2, <3>1, AuditConstants
  <2>4. auMemory \o auBatch' \in Seq(Seen')
    BY <1>6, <2>2, CatIs
  <2>5. MaxEvents \in Nat \ {0} /\ Len(auMemory \o auBatch') \in Nat
    BY <2>4, AuditConstants
  <2>6. auNext' \in Seq(Seen') /\ Len(auNext') <= MaxEvents
    <3>1. /\ LastOf(auMemory \o auBatch', MaxEvents) \in Seq(Seen')
          /\ Len(LastOf(auMemory \o auBatch', MaxEvents)) =
               IF Len(auMemory \o auBatch') <= MaxEvents THEN Len(auMemory \o auBatch') ELSE MaxEvents
      BY <2>4, <2>5, LastOfIs
    <3>2. QED
      BY <2>1, <2>5, <3>1
  <2>7. QED
    BY <2>2, <2>3, <2>6
<1>13. auBatch' \in Seq(Seen') /\ Len(auBatch') <= MaxBatch
  BY <1>0, <1>6, <1>10, <1>12 DEF BatchEffects
<1>14. auNext' \in Seq(Seen') /\ Len(auNext') <= MaxEvents
  BY <1>0, <1>6, <1>10, <1>12 DEF BatchEffects
<1>15. auPending' \in Seq(Seen') /\ Len(auPending') <= MaxPending /\ auDropped' \subseteq Seen'
  <2>1. ASSUME NEW s \in Seq(Seen'), Bounded(s)
        PROVE  auPending' \in Seq(Seen') /\ Len(auPending') <= MaxPending /\ auDropped' \subseteq Seen'
    <3>1. /\ auPending' \in Seq(Seen') /\ Len(auPending') <= MaxPending
          /\ auDropped' \subseteq auDropped \cup Ids(s)
      BY <1>1, <2>1, BoundedIs DEF Seen
    <3>2. Ids(s) \subseteq Seen'
      BY <1>1, <2>1, IdsBounded DEF Seen
    <3>3. QED
      BY <1>4, <3>1, <3>2 DEF AuValues
  <2>2. CASE AppendEvent
    <3>1. auAppends' \in Seen' /\ Bounded(Append(auPending, auAppends'))
      BY <1>1, <2>2 DEF AppendEvent, Seen
    <3>2. Append(auPending, auAppends') \in Seq(Seen')
      BY <1>6, <3>1
    <3>3. QED
      BY <2>1, <3>1, <3>2
  <2>3. CASE FlushFailed
    <3>1. auBatch \o auPending \in Seq(Seen') /\ Bounded(auBatch \o auPending)
      BY <1>6, <2>3, CatIs DEF FlushFailed
    <3>2. QED
      BY <2>1, <3>1
  <2>4. CASE StartFlush /\ auPending # <<>>
    BY <1>4, <1>12, <2>4 DEF StartFlush, AuValues
  <2>5. CASE (auPending' = auPending \/ auPending' = <<>>) /\ auDropped' = auDropped
    <3>1. auPending' \in Seq(Seen') /\ Len(auPending') <= MaxPending
      BY <1>6, <1>10, <2>5
    <3>2. QED
      BY <1>4, <2>5, <3>1 DEF AuValues
  <2>6. QED
    BY <1>0, <2>2, <2>3, <2>4, <2>5 DEF PendingEffects
<1>16. QED
  BY <1>1, <1>2, <1>7, <1>8, <1>9, <1>10, <1>11, <1>13, <1>14, <1>15 DEF AuValues

LEMMA NextAuditFlags ==
    ASSUME AuValues, AuFlags, [AuditSteps]_auVars
    PROVE  AuFlags'
<1>1. /\ auWriting' \in BOOLEAN /\ auTimer' \in BOOLEAN /\ auError' \in BOOLEAN
      /\ auRestored' \in BOOLEAN /\ auRaced' \in BOOLEAN
  BY Zenon DEF AuFlags, AuditSteps, AuditWorks, AppendEvent, AuditTimer, Clear, RestoreEvents,
     StartFlush, FinishFlush, RemoveEvents, KillWorker, auVars, Flushed, FlushFailed
<1>2. auWriting' => auQueue' # <<>>
  <2>1. \A entry \in {"flush", "clear"} : Append(auQueue, entry) # <<>>
    BY Queues DEF AuValues
  <2>2. QED
    BY <2>1 DEF AuFlags, AuditSteps, AuditWorks, AppendEvent, AuditTimer, Clear, RestoreEvents,
       StartFlush, FinishFlush, RemoveEvents, KillWorker, auVars, Flushed, FlushFailed
<1>3. QED
  BY <1>1, <1>2 DEF AuFlags

-----------------------------------------------------------------------------
(* The log *)

Removing == auQueue # <<>> /\ Head(auQueue) = "clear"

\* As long as no clear joined other operations, it is the first of the queue; a write is
\* that of the batch behind the memory, and a removal finds the memory empty.
AuPhases ==
    /\ \A i \in 1 .. Len(auQueue) : auQueue[i] = "clear" => i = 1
    /\ auWriting => /\ Head(auQueue) = "flush" /\ auRestored /\ auBatch # <<>>
                    /\ auNext = LastOf(auMemory \o auBatch, MaxEvents)
    /\ ~auWriting => auBatch = <<>> /\ auNext = <<>>
    /\ ~auRestored => auMemory = <<>>
    /\ Removing => auMemory = <<>> /\ auKept = {} /\ auRestored

\* What is stored or in memory is older than what is on its way.
AuOrder ==
    /\ Sorted(auMemory) /\ Sorted(auStored) /\ Sorted(auBatch) /\ Sorted(auPending)
    /\ Before(auMemory, auBatch) /\ Before(auMemory, auPending)
    /\ Before(auStored, auBatch) /\ Before(auStored, auPending)
    /\ Before(auBatch, auPending)

\* The memory is what is stored, or nobody misses what is stored.
AuBehind ==
    auRestored =>
        \/ auMemory = auStored
        \/ \A e \in Seen : e \in UpTo(auStored) => e \in auCleared \cup auLost

Outgrown(e) == Len(auStored) = MaxEvents /\ e < auStored[1]

AuKnown ==
    \A e \in Seen :
        \/ e \in Ids(auStored) \cup Ids(auBatch) \cup Ids(auPending)
        \/ e \in auDropped \cup auCleared \cup auLost
        \/ Outgrown(e)

Emptied == auCleared \ auKept

AuGone ==
    /\ \A e \in Emptied : e \notin Ids(auMemory) /\ e \notin Ids(auPending) /\ e \notin Ids(auBatch)
    /\ ~Removing => \A e \in Emptied : e \notin Ids(auStored)

AuLog == AuPhases /\ AuOrder /\ AuBehind /\ AuKnown /\ AuGone

LEMMA EmptyLog ==
    /\ \A e : e \notin Ids(<<>>)
    /\ Sorted(<<>>) /\ \A s : Before(s, <<>>) /\ Before(<<>>, s)
    /\ <<>> \in Seq(Nat)
  BY DEF Ids, Sorted, Before

LEMMA UpToIs ==
    ASSUME NEW s \in Seq(Nat)
    PROVE  \A e : e \in UpTo(s) <=> e \in Events /\ \E d \in Ids(s) : e <= d
  BY DEF UpTo, Ids

LEMMA FirstIs ==
    ASSUME NEW s \in Seq(Nat), Len(s) # 0, Sorted(s)
    PROVE  s[1] \in Ids(s) /\ s[1] \in Nat /\ \A e \in Ids(s) : s[1] <= e
<1>1. 1 \in 1 .. Len(s)
  OBVIOUS
<1>2. s[1] \in Ids(s)
  BY <1>1, IdsOf
<1>3. \A e \in Ids(s) : s[1] <= e
  <2>1. SUFFICES ASSUME NEW e \in Ids(s)
                 PROVE  s[1] <= e
    OBVIOUS
  <2>2. PICK i \in 1 .. Len(s) : s[i] = e
    BY IdsOf
  <2>3. i = 1 \/ 1 < i
    OBVIOUS
  <2>4. QED
    BY <1>1, <2>2, <2>3 DEF Sorted
<1>4. QED
  BY <1>1, <1>2, <1>3

\* What a write that lands makes of the log.
LEMMA WriteIs ==
    ASSUME AuCounts, AuValues, AuLog, auWriting
    PROVE  /\ Sorted(auNext) /\ Before(auNext, auPending)
           /\ \A e \in Ids(auNext) : e \in Ids(auMemory) \/ e \in Ids(auBatch)
           /\ \A e \in Seen :
                e \in Ids(auStored) \/ e \in Ids(auBatch) \/ Outgrown(e) =>
                  \/ e \in Ids(auNext) \/ e \in auCleared \/ e \in auLost
                  \/ Len(auNext) = MaxEvents /\ e < auNext[1]
<1> DEFINE whole == auMemory \o auBatch
<1>1. /\ auMemory \in Seq(Nat) /\ auBatch \in Seq(Nat) /\ auStored \in Seq(Nat)
      /\ whole \in Seq(Nat) /\ Sorted(whole)
      /\ Len(whole) = Len(auMemory) + Len(auBatch)
      /\ \A e : e \in Ids(whole) <=> e \in Ids(auMemory) \/ e \in Ids(auBatch)
  <2>1. auMemory \in Seq(Nat) /\ auBatch \in Seq(Nat) /\ auStored \in Seq(Nat)
    BY LogIds
  <2>2. QED
    BY <2>1, CatIs, CatIds, CatSorted DEF AuLog, AuOrder
<1>2. auNext = LastOf(whole, MaxEvents) /\ auBatch # <<>> /\ auRestored /\ MaxEvents \in Nat \ {0}
  BY AuditConstants DEF AuLog, AuPhases
<1> HIDE DEF whole
<1>3. /\ auNext \in Seq(Nat)
      /\ Len(auNext) = IF Len(whole) <= MaxEvents THEN Len(whole) ELSE MaxEvents
  BY <1>1, <1>2, LastOfIs
<1>4. /\ Sorted(auNext) /\ \A e \in Ids(auNext) : e \in Ids(whole)
      /\ \A e \in Ids(whole) \ Ids(auNext), i \in 1 .. Len(auNext) : e < auNext[i]
      /\ \A e \in Ids(whole) \ Ids(auNext) : Len(auNext) = MaxEvents
  BY <1>1, <1>2, LastSorted
<1>5. Before(auNext, auPending)
  BY <1>1, <1>4 DEF AuLog, AuOrder, Before
<1>6. ASSUME NEW e \in Ids(whole)
      PROVE  e \in Ids(auNext) \/ (Len(auNext) = MaxEvents /\ e < auNext[1])
  <2>1. CASE e \notin Ids(auNext)
    <3>1. Len(auNext) = MaxEvents /\ 1 \in 1 .. Len(auNext)
      BY <1>2, <1>4, <2>1
    <3>2. QED
      BY <1>4, <2>1, <3>1
  <2>2. QED
    BY <2>1
<1>7. ASSUME NEW e \in Seen, Outgrown(e), auMemory = auStored
      PROVE  Len(auNext) = MaxEvents /\ e < auNext[1]
  <2>1. Len(auMemory) = MaxEvents /\ e < auMemory[1]
    BY <1>7 DEF Outgrown
  <2>2. Len(auMemory) \in Nat /\ Len(auBatch) \in Nat
    BY <1>1
  <2>3. Len(auNext) = MaxEvents /\ Len(auNext) # 0
    BY <1>1, <1>2, <1>3, <2>1, <2>2
  <2>4. /\ auNext[1] \in Ids(whole) /\ auNext[1] \in Nat
    BY <1>3, <1>4, <2>3, FirstIs
  <2>5. auMemory[1] \in Ids(auMemory) /\ auMemory[1] \in Nat /\ \A d \in Ids(auMemory) : auMemory[1] <= d
    BY <1>1, <1>2, <2>1, FirstIs DEF AuLog, AuOrder
  <2>6. \A d \in Ids(whole) : auMemory[1] <= d
    <3>1. \A d \in Ids(auBatch) : auMemory[1] < d /\ d \in Nat
      <4>1. \A d \in Ids(auBatch) : d \in Nat
        BY LogIds DEF Seen
      <4>2. QED
        BY <2>5, <4>1 DEF AuLog, AuOrder, Before
    <3>2. QED
      BY <1>1, <2>5, <3>1
  <2>7. e \in Nat
    BY DEF Seen, AuValues
  <2>8. QED
    BY <2>1, <2>3, <2>4, <2>5, <2>6, <2>7
<1>8. ASSUME NEW e \in Seen, e \in Ids(auStored) \/ Outgrown(e), auMemory # auStored
      PROVE  e \in auCleared \cup auLost
  <2>1. \A x \in Seen : x \in UpTo(auStored) => x \in auCleared \cup auLost
    BY <1>2, <1>8 DEF AuLog, AuBehind
  <2>2. e \in Nat /\ e \in Events
    BY AuditConstants DEF Seen, Events, AuValues, AuCounts
  <2>3. PICK d \in Ids(auStored) : e <= d
    <3>1. CASE e \in Ids(auStored)
      BY <2>2, <3>1
    <3>2. CASE Outgrown(e)
      <4>1. Len(auStored) # 0 /\ e < auStored[1]
        BY <1>2, <3>2 DEF Outgrown
      <4>2. auStored[1] \in Ids(auStored) /\ auStored[1] \in Nat
        BY <1>1, <4>1, FirstIs DEF AuLog, AuOrder
      <4>3. QED
        BY <2>2, <4>1, <4>2
    <3>3. QED
      BY <1>8, <3>1, <3>2
  <2>4. QED
    BY <1>1, <2>1, <2>2, <2>3, UpToIs
<1>9. ASSUME NEW e \in Seen, e \in Ids(auStored) \/ e \in Ids(auBatch) \/ Outgrown(e)
      PROVE  \/ e \in Ids(auNext) \/ e \in auCleared \/ e \in auLost
             \/ Len(auNext) = MaxEvents /\ e < auNext[1]
  <2>1. CASE e \in Ids(auBatch)
    BY <1>1, <1>6, <2>1
  <2>2. CASE auMemory = auStored /\ e \in Ids(auStored)
    BY <1>1, <1>6, <2>2
  <2>3. CASE auMemory = auStored /\ Outgrown(e)
    BY <1>7, <2>3
  <2>4. CASE auMemory # auStored /\ e \notin Ids(auBatch)
    BY <1>8, <1>9, <2>4
  <2>5. QED
    BY <1>9, <2>1, <2>2, <2>3, <2>4
<1>10. QED
  BY <1>1, <1>4, <1>5, <1>9

LEMMA AppendKeepsLog ==
    ASSUME AuCounts, AuValues, AuLog, AppendEvent
    PROVE  AuLog'
<1> DEFINE long == Append(auPending, auAppends')
<1>1. /\ auAppends' = auAppends + 1 /\ auAppends \in Nat /\ Bounded(long)
      /\ UNCHANGED <<auStored, auMemory, auRestored, auBatch, auNext, auQueue, auWriting, auCleared, auKept, auLost>>
  BY DEF AppendEvent, AuValues
<1>2. /\ auPending \in Seq(Nat) /\ long \in Seq(Nat) /\ long \in Seq(1 .. auAppends')
      /\ Sorted(long) /\ \A e : e \in Ids(long) <=> e \in Ids(auPending) \/ e = auAppends'
  <2>1. auPending \in Seq(Nat) /\ auPending \in Seq(1 .. auAppends') /\ \A e \in Ids(auPending) : e < auAppends'
    BY <1>1, LogIds, SeqGrows DEF AuValues, Seen
  <2>2. /\ long = auPending \o <<auAppends'>> /\ <<auAppends'>> \in Seq(Nat)
        /\ \A d : d \in Ids(<<auAppends'>>) <=> d = auAppends'
    BY <1>1, <2>1, AppendIs
  <2>3. Sorted(<<auAppends'>>)
    BY DEF Sorted
  <2>4. Before(auPending, <<auAppends'>>)
    BY <2>1, <2>2 DEF Before
  <2>5. long \in Seq(1 .. auAppends')
    BY <1>1, <2>1
  <2>6. QED
    BY <1>1, <2>1, <2>2, <2>3, <2>4, <2>5, CatIs, CatIds, CatSorted DEF AuLog, AuOrder
<1> HIDE DEF long
<1>3. /\ Sorted(auPending') /\ \A e \in Ids(auPending') : e \in Ids(auPending) \/ e = auAppends'
      /\ auDropped \subseteq auDropped'
      /\ \A e \in Ids(auPending) : e \in Ids(auPending') \/ e \in auDropped'
      /\ auAppends' \in Ids(auPending') \/ auAppends' \in auDropped'
  <2>1. auAppends' \in Nat
    BY <1>1
  <2>2. /\ Sorted(auPending') /\ Ids(auPending') \subseteq Ids(long)
        /\ auDropped \subseteq auDropped'
        /\ \A e \in Ids(long) : e \in Ids(auPending') \/ e \in auDropped'
    BY <1>1, <1>2, <2>1, BoundedIs
  <2>3. QED
    BY <1>2, <2>2
<1>4. \A s \in {auStored, auMemory, auBatch} : \A e \in Ids(s) : e < auAppends'
  BY <1>1, LogIds DEF Seen
<1>5. \A e \in Seen' : e \in Seen \/ e = auAppends'
  BY <1>1 DEF Seen
<1>6. AuPhases'
  BY <1>1 DEF AuLog, AuPhases, Removing
<1>7. AuOrder'
  BY <1>1, <1>3, <1>4 DEF AuLog, AuOrder, Before
<1>8. AuBehind'
  <2>1. auAppends' \notin UpTo(auStored)
    BY <1>1, <1>4, LogIds, UpToIs DEF Seen
  <2>2. QED
    BY <1>1, <1>5, <2>1 DEF AuLog, AuBehind
<1>9. AuKnown'
  BY <1>1, <1>3, <1>5 DEF AuLog, AuKnown, Outgrown
<1>10. AuGone'
  <2>1. auAppends' \notin auCleared
    BY <1>1 DEF AuValues, Seen
  <2>2. QED
    BY <1>1, <1>3, <2>1 DEF AuLog, AuGone, Emptied, Removing
<1>11. QED
  BY <1>6, <1>7, <1>8, <1>9, <1>10 DEF AuLog

LEMMA TimerKeepsLog ==
    ASSUME AuValues, AuLog, AuditTimer
    PROVE  AuLog'
<1>1. /\ auQueue' = Append(auQueue, "flush")
      /\ UNCHANGED <<auStored, auMemory, auRestored, auPending, auBatch, auNext, auWriting,
                     auDropped, auCleared, auKept, auLost, auAppends>>
  BY DEF AuditTimer
<1>2. Removing' <=> Removing
  <2>1. /\ auQueue' # <<>> /\ auQueue' \in Seq({"flush", "clear"})
        /\ Len(auQueue') = Len(auQueue) + 1 /\ Len(auQueue) \in Nat /\ (auQueue # <<>> <=> Len(auQueue) # 0)
        /\ auQueue'[Len(auQueue) + 1] = "flush" /\ \A i \in 1 .. Len(auQueue) : auQueue'[i] = auQueue[i]
    BY <1>1, Queues DEF AuValues
  <2>2. Head(auQueue') = auQueue'[1] /\ (auQueue # <<>> => Head(auQueue) = auQueue[1])
    BY <2>1, Queues DEF AuValues
  <2>3. CASE auQueue = <<>>
    BY <2>1, <2>2, <2>3 DEF Removing
  <2>4. CASE auQueue # <<>>
    BY <2>1, <2>2, <2>4 DEF Removing
  <2>5. QED
    BY <2>3, <2>4
<1>3. AuPhases'
  <2>1. \A i \in 1 .. Len(auQueue') : auQueue'[i] = "clear" => i = 1
    BY <1>1, Queues DEF AuLog, AuPhases, AuValues
  <2>2. auWriting => Head(auQueue') = "flush"
    BY <1>1, Queues DEF AuLog, AuPhases, AuValues
  <2>3. QED
    BY <1>1, <1>2, <2>1, <2>2 DEF AuLog, AuPhases
<1>4. QED
  BY <1>1, <1>2, <1>3 DEF AuLog, AuOrder, AuBehind, AuKnown, AuGone, Outgrown, Emptied, Seen

LEMMA RestoreKeepsLog ==
    ASSUME AuCounts, AuValues, AuLog, RestoreEvents
    PROVE  AuLog'
<1>1. /\ ~auRestored /\ auRestored'
      /\ UNCHANGED <<auStored, auPending, auBatch, auNext, auQueue, auWriting,
                     auDropped, auCleared, auKept, auAppends>>
      /\ \/ auMemory' = auStored /\ auLost' = auLost
         \/ auMemory' = auMemory /\ auLost' = auLost \cup UpTo(auStored)
  BY DEF RestoreEvents
<1>2. ~auWriting /\ auMemory = <<>> /\ ~Removing
  BY <1>1 DEF AuLog, AuPhases
<1>3. AuPhases'
  BY <1>1, <1>2 DEF AuLog, AuPhases, Removing
<1>4. AuOrder'
  BY <1>1 DEF AuLog, AuOrder
<1>5. AuBehind'
  BY <1>1 DEF AuBehind, UpTo
<1>6. AuKnown'
  BY <1>1 DEF AuLog, AuKnown, Outgrown, Seen
<1>7. AuGone'
  BY <1>1, <1>2 DEF AuLog, AuGone, Emptied, Removing
<1>8. QED
  BY <1>3, <1>4, <1>5, <1>6, <1>7 DEF AuLog

LEMMA StartKeepsLog ==
    ASSUME AuCounts, AuValues, AuLog, StartFlush
    PROVE  AuLog'
<1>1. /\ auRestored /\ ~auWriting /\ auQueue # <<>> /\ Head(auQueue) = "flush" /\ auBatch = <<>>
      /\ UNCHANGED <<auStored, auMemory, auRestored, auDropped, auCleared, auKept, auLost, auAppends>>
  BY DEF StartFlush, AuLog, AuPhases
<1>2. ~Removing
  BY <1>1 DEF Removing
<1>3. CASE auPending = <<>>
  <2>1. auQueue' = Tail(auQueue) /\ UNCHANGED <<auWriting, auBatch, auNext, auPending>>
    BY <1>3 DEF StartFlush
  <2>2. \A i \in 1 .. Len(auQueue') : auQueue'[i] # "clear"
    BY <1>1, <2>1, Queues DEF AuLog, AuPhases, AuValues
  <2>3. ~Removing'
    BY <2>1, <2>2, Queues, <1>1 DEF Removing, AuValues
  <2>4. AuPhases'
    BY <1>1, <2>1, <2>2, <2>3 DEF AuLog, AuPhases
  <2>5. QED
    BY <1>1, <1>2, <2>1, <2>3, <2>4 DEF AuLog, AuOrder, AuBehind, AuKnown, AuGone, Outgrown, Emptied,
       Seen
<1>4. CASE auPending # <<>>
  <2>1. /\ auWriting' /\ UNCHANGED auQueue
        /\ auBatch' = FirstOf(auPending, MaxBatch)
        /\ auPending' = SubSeq(auPending, Len(auBatch') + 1, Len(auPending))
        /\ auNext' = LastOf(auMemory \o auBatch', MaxEvents)
    BY <1>4 DEF StartFlush
  <2>2. auPending \in Seq(Nat) /\ MaxBatch \in Nat \ {0}
    BY LogIds, AuditConstants
  <2>3. /\ auBatch' \in Seq(Nat) /\ auPending' \in Seq(Nat) /\ auBatch' # <<>>
        /\ Len(auBatch') + Len(auPending') = Len(auPending)
        /\ \A i \in 1 .. Len(auBatch') : auBatch'[i] = auPending[i]
        /\ \A i \in 1 .. Len(auPending') : auPending'[i] = auPending[Len(auBatch') + i]
    BY <1>4, <2>1, <2>2, SplitIs
  <2>4. /\ Sorted(auBatch') /\ Sorted(auPending') /\ Before(auBatch', auPending')
        /\ \A e : e \in Ids(auPending) <=> e \in Ids(auBatch') \/ e \in Ids(auPending')
    BY <2>2, <2>3, SplitIds DEF AuLog, AuOrder
  <2>5. AuPhases'
    BY <1>1, <1>2, <2>1, <2>3 DEF AuLog, AuPhases, Removing
  <2>6. AuOrder'
    BY <1>1, <2>4 DEF AuLog, AuOrder, Before
  <2>7. AuBehind'
    BY <1>1 DEF AuLog, AuBehind, Seen
  <2>8. AuKnown'
    BY <1>1, <2>4, EmptyLog DEF AuLog, AuKnown, Outgrown, Seen
  <2>9. AuGone'
    BY <1>1, <2>1, <2>4 DEF AuLog, AuGone, Emptied, Removing
  <2>10. QED
    BY <2>5, <2>6, <2>7, <2>8, <2>9 DEF AuLog
<1>5. QED
  BY <1>3, <1>4

\* The first operation of the queue is over.
LEMMA QueueAdvances ==
    ASSUME AuValues, AuLog, auQueue # <<>>, auQueue' = Tail(auQueue)
    PROVE  (\A i \in 1 .. Len(auQueue') : auQueue'[i] # "clear") /\ ~Removing'
<1>1. /\ Len(auQueue) \in Nat /\ auQueue' \in Seq({"flush", "clear"})
      /\ Len(auQueue') = Len(auQueue) - 1 /\ \A i \in 1 .. Len(auQueue) - 1 : auQueue'[i] = auQueue[i + 1]
  BY Queues DEF AuValues
<1>2. \A i \in 1 .. Len(auQueue') : auQueue'[i] # "clear"
  <2>1. \A i \in 1 .. Len(auQueue') : i + 1 \in 1 .. Len(auQueue) /\ i + 1 # 1
    BY <1>1
  <2>2. QED
    BY <1>1, <2>1 DEF AuLog, AuPhases
<1>3. auQueue' # <<>> => Head(auQueue') = auQueue'[1] /\ 1 \in 1 .. Len(auQueue')
  BY <1>1, Queues
<1>4. QED
  BY <1>2, <1>3 DEF Removing

LEMMA FinishKeepsLog ==
    ASSUME AuCounts, AuValues, AuFlags, AuLog, FinishFlush
    PROVE  AuLog'
<1>1. /\ auWriting /\ ~auWriting' /\ auQueue' = Tail(auQueue) /\ auBatch' = <<>> /\ auNext' = <<>>
      /\ UNCHANGED <<auRestored, auCleared, auKept, auLost, auAppends>>
      /\ Head(auQueue) = "flush" /\ auRestored /\ auQueue # <<>>
  BY DEF FinishFlush, AuLog, AuPhases, AuFlags
<1>2. (\A i \in 1 .. Len(auQueue') : auQueue'[i] # "clear") /\ ~Removing'
  BY <1>1, QueueAdvances
<1>3. ~Removing
  BY <1>1 DEF Removing
<1>4. AuPhases'
  BY <1>1, <1>2 DEF AuLog, AuPhases
<1>5. CASE Flushed
  <2>1. auStored' = auNext /\ auMemory' = auNext /\ UNCHANGED <<auPending, auDropped>>
    BY <1>5 DEF Flushed
  <2>2. /\ Sorted(auNext) /\ Before(auNext, auPending)
        /\ \A e \in Ids(auNext) : e \in Ids(auMemory) \/ e \in Ids(auBatch)
        /\ \A e \in Seen :
             e \in Ids(auStored) \/ e \in Ids(auBatch) \/ Outgrown(e) =>
               \/ e \in Ids(auNext) \/ e \in auCleared \/ e \in auLost
               \/ Len(auNext) = MaxEvents /\ e < auNext[1]
    BY <1>1, WriteIs
  <2>3. AuOrder'
    BY <1>1, <2>1, <2>2, EmptyLog DEF AuLog, AuOrder
  <2>4. AuBehind'
    BY <2>1 DEF AuBehind
  <2>5. AuKnown'
    BY <1>1, <2>1, <2>2 DEF AuLog, AuKnown, Outgrown, Seen
  <2>6. AuGone'
    BY <1>1, <1>2, <2>1, <2>2, EmptyLog DEF AuLog, AuGone, Emptied
  <2>7. QED
    BY <1>4, <2>3, <2>4, <2>5, <2>6 DEF AuLog
<1>6. CASE FlushFailed
  <2>1. Bounded(auBatch \o auPending) /\ UNCHANGED <<auStored, auMemory>>
    BY <1>6 DEF FlushFailed
  <2>2. /\ auBatch \o auPending \in Seq(1 .. auAppends) /\ auAppends \in Nat /\ Sorted(auBatch \o auPending)
        /\ \A e : e \in Ids(auBatch \o auPending) <=> e \in Ids(auBatch) \/ e \in Ids(auPending)
    <3>1. auBatch \in Seq(Nat) /\ auPending \in Seq(Nat)
      BY LogIds
    <3>2. QED
      BY <3>1, CatIs, CatIds, CatSorted DEF AuLog, AuOrder, AuValues, Seen
  <2>3. /\ Sorted(auPending') /\ Ids(auPending') \subseteq Ids(auBatch \o auPending)
        /\ auDropped \subseteq auDropped'
        /\ \A e \in Ids(auBatch \o auPending) : e \in Ids(auPending') \/ e \in auDropped'
    BY <2>1, <2>2, BoundedIs
  <2>4. /\ \A e \in Ids(auPending') : e \in Ids(auBatch) \/ e \in Ids(auPending)
        /\ \A e : e \in Ids(auBatch) \/ e \in Ids(auPending) => e \in Ids(auPending') \/ e \in auDropped'
    BY <2>2, <2>3
  <2>5. AuOrder'
    BY <1>1, <2>1, <2>3, <2>4, EmptyLog DEF AuLog, AuOrder, Before
  <2>6. AuBehind'
    BY <1>1, <2>1 DEF AuLog, AuBehind, Seen
  <2>7. AuKnown'
    BY <1>1, <2>1, <2>3, <2>4 DEF AuLog, AuKnown, Outgrown, Seen
  <2>8. AuGone'
    BY <1>1, <1>2, <1>3, <2>1, <2>4, EmptyLog DEF AuLog, AuGone, Emptied
  <2>9. QED
    BY <1>4, <2>5, <2>6, <2>7, <2>8 DEF AuLog
<1>7. QED
  BY <1>5, <1>6 DEF FinishFlush

LEMMA ClearKeepsLog ==
    ASSUME AuCounts, AuValues, AuFlags, AuLog, Clear, ~auRaced'
    PROVE  AuLog'
<1>1. /\ auRestored /\ auQueue = <<>> /\ auQueue' = Append(auQueue, "clear")
      /\ auPending' = <<>> /\ auMemory' = <<>>
      /\ auCleared' = Seen /\ auKept' = {}
      /\ UNCHANGED <<auStored, auRestored, auBatch, auNext, auWriting, auDropped, auLost, auAppends>>
  BY DEF Clear, Seen
<1>2. ~auWriting /\ auBatch = <<>> /\ auNext = <<>>
  BY <1>1 DEF AuFlags, AuLog, AuPhases
<1>3. auQueue' # <<>> /\ Len(auQueue') = 1 /\ Head(auQueue') = "clear" /\ auQueue'[1] = "clear"
  BY <1>1
<1>4. AuPhases'
  BY <1>1, <1>2, <1>3 DEF AuPhases
<1>5. AuOrder'
  BY <1>1, <1>2, EmptyLog DEF AuLog, AuOrder
<1>6. AuBehind' /\ AuKnown'
  BY <1>1 DEF AuBehind, AuKnown, Seen
<1>7. AuGone'
  BY <1>1, <1>2, <1>3, EmptyLog DEF AuGone, Removing
<1>8. QED
  BY <1>4, <1>5, <1>6, <1>7 DEF AuLog

LEMMA RemoveKeepsLog ==
    ASSUME AuCounts, AuValues, AuFlags, AuLog, RemoveEvents
    PROVE  AuLog'
<1>1. /\ ~auWriting /\ auQueue # <<>> /\ auQueue' = Tail(auQueue)
      /\ auMemory = <<>> /\ auKept = {} /\ auRestored
      /\ UNCHANGED <<auCleared, auMemory, auRestored, auPending, auBatch, auNext, auWriting, auDropped,
                     auLost, auAppends>>
      /\ \/ auStored' = <<>> /\ auKept' = auKept
         \/ auKept' = Ids(auStored) /\ auStored' = auStored
  BY DEF RemoveEvents, AuLog, AuPhases, Removing
<1>2. (\A i \in 1 .. Len(auQueue') : auQueue'[i] # "clear") /\ ~Removing'
  BY <1>1, QueueAdvances
<1>3. AuPhases'
  BY <1>1, <1>2 DEF AuLog, AuPhases
<1>4. AuOrder'
  BY <1>1, EmptyLog DEF AuLog, AuOrder
<1>5. \A e \in Seen : e \in Ids(auStored) \/ Outgrown(e) => e \in auCleared \cup auLost \/ auStored = <<>>
  <2>1. SUFFICES ASSUME NEW e \in Seen, e \in Ids(auStored) \/ Outgrown(e), auStored # <<>>
                 PROVE  e \in auCleared \cup auLost
    OBVIOUS
  <2>2. \A x \in Seen : x \in UpTo(auStored) => x \in auCleared \cup auLost
    BY <1>1, <2>1 DEF AuLog, AuBehind
  <2>3. auStored \in Seq(Nat) /\ Len(auStored) # 0 /\ e \in Nat /\ e \in Events
    BY <2>1, LogIds, AuditConstants DEF Seen, Events, AuCounts
  <2>4. auStored[1] \in Ids(auStored) /\ auStored[1] \in Nat
    BY <2>3, FirstIs DEF AuLog, AuOrder
  <2>5. \E d \in Ids(auStored) : e <= d
    BY <2>1, <2>3, <2>4 DEF Outgrown
  <2>6. QED
    BY <2>2, <2>3, <2>5, UpToIs
<1>6. CASE auStored' = <<>> /\ auKept' = auKept
  <2>1. AuBehind'
    BY <1>1, <1>6 DEF AuBehind
  <2>2. AuKnown'
    <3>1. auStored = <<>> => \A e : e \notin Ids(auStored) /\ ~Outgrown(e)
      BY EmptyLog, AuditConstants DEF Outgrown
    <3>2. \A e \in Seen : e \in Ids(auStored) \/ Outgrown(e) => e \in auCleared \cup auLost
      BY <1>5, <3>1
    <3>3. QED
      BY <1>1, <1>6, <3>2 DEF AuLog, AuKnown, Seen
  <2>3. AuGone'
    BY <1>1, <1>6, EmptyLog DEF AuLog, AuGone, Emptied
  <2>4. QED
    BY <1>3, <1>4, <2>1, <2>2, <2>3 DEF AuLog
<1>7. CASE auKept' = Ids(auStored) /\ auStored' = auStored
  <2>1. AuBehind'
    BY <1>1, <1>7 DEF AuLog, AuBehind, Seen
  <2>2. AuKnown'
    BY <1>1, <1>7 DEF AuLog, AuKnown, Outgrown, Seen
  <2>3. AuGone'
    BY <1>1, <1>7 DEF AuLog, AuGone, Emptied
  <2>4. QED
    BY <1>3, <1>4, <2>1, <2>2, <2>3 DEF AuLog
<1>8. QED
  BY <1>1, <1>6, <1>7

LEMMA KillKeepsLog ==
    ASSUME AuCounts, AuValues, AuFlags, AuLog, KillWorker
    PROVE  AuLog'
<1>1. /\ auMemory' = <<>> /\ ~auRestored' /\ auPending' = <<>>
      /\ auBatch' = <<>> /\ auNext' = <<>> /\ auQueue' = <<>> /\ ~auWriting'
      /\ auLost' = auLost \cup ((Ids(auPending) \cup Ids(auBatch)) \ Ids(auStored'))
      /\ auKept' = Ids(auStored')
      /\ UNCHANGED <<auDropped, auCleared, auAppends>>
      /\ auStored' = auStored \/ (auWriting /\ auStored' = auNext)
  BY DEF KillWorker
<1>2. AuPhases'
  BY <1>1 DEF AuPhases, Removing
<1>3. Sorted(auStored')
  BY <1>1, WriteIs DEF AuLog, AuOrder
<1>4. AuOrder'
  BY <1>1, <1>3, EmptyLog DEF AuOrder
<1>5. AuBehind'
  BY <1>1 DEF AuBehind
<1>6. AuKnown'
  <2>1. CASE auStored' = auStored
    BY <1>1, <2>1 DEF AuLog, AuKnown, Outgrown, Seen
  <2>2. CASE auWriting /\ auStored' = auNext
    <3>1. \A e \in Seen :
            e \in Ids(auStored) \/ e \in Ids(auBatch) \/ Outgrown(e) =>
              \/ e \in Ids(auNext) \/ e \in auCleared \/ e \in auLost
              \/ Len(auNext) = MaxEvents /\ e < auNext[1]
      BY <2>2, WriteIs
    <3>2. QED
      BY <1>1, <2>2, <3>1 DEF AuLog, AuKnown, Outgrown, Seen
  <2>3. QED
    BY <1>1, <2>1, <2>2
<1>7. AuGone'
  BY <1>1, EmptyLog DEF AuGone, Emptied
<1>8. QED
  BY <1>2, <1>4, <1>5, <1>6, <1>7 DEF AuLog

-----------------------------------------------------------------------------
AuditInv == AuCounts /\ AuValues /\ AuFlags /\ (~auRaced => AuLog)

LEMMA AuditStarts ==
    ASSUME AuditInit
    PROVE  AuditInv
<1>1. AuCounts /\ AuFlags
  <2>1. AuCounts
    BY AuditConstants DEF AuditInit, AuCounts
  <2>2. AuFlags
    BY Zenon DEF AuditInit, AuFlags
  <2>3. QED
    BY <2>1, <2>2
<1>2. AuValues
  BY AuditConstants DEF AuditInit, AuValues, Seen
<1>3. AuPhases /\ AuOrder /\ AuBehind
  BY EmptyLog DEF AuditInit, AuPhases, AuOrder, AuBehind, Removing
<1>4. AuKnown /\ AuGone
  BY EmptyLog DEF AuditInit, AuKnown, AuGone, Emptied, Seen
<1>5. QED
  BY <1>1, <1>2, <1>3, <1>4 DEF AuditInv, AuLog

LEMMA AuditStep ==
    ASSUME AuditInv, [AuditSteps]_auVars
    PROVE  AuditInv'
<1>1. AuCounts' /\ AuValues' /\ AuFlags'
  BY NextAuditValues, NextAuditFlags DEF AuditInv
<1>2. ASSUME ~auRaced'
      PROVE  AuLog'
  <2>1. ~auRaced
    BY <1>2 DEF AuditSteps, AuditWorks, AppendEvent, AuditTimer, Clear, RestoreEvents, StartFlush,
       FinishFlush, RemoveEvents, KillWorker, auVars
  <2>2. AuCounts /\ AuValues /\ AuFlags /\ AuLog
    BY <2>1 DEF AuditInv
  <2>3. CASE UNCHANGED auVars
    BY <2>2, <2>3 DEF auVars, AuLog, AuPhases, AuOrder, AuBehind, AuKnown, AuGone, Emptied, Outgrown,
       Seen, Removing
  <2>4. QED
    BY <1>2, <2>2, <2>3, AppendKeepsLog, TimerKeepsLog, RestoreKeepsLog, StartKeepsLog, FinishKeepsLog,
       ClearKeepsLog, RemoveKeepsLog, KillKeepsLog DEF AuditSteps, AuditWorks
<1>3. QED
  BY <1>1, <1>2 DEF AuditInv

LEMMA AuditHolds ==
    ASSUME AuditInv
    PROVE  AuditKept
<1>1. AuditTypeOK
  <2>1. Seen \subseteq Events /\ \A s : s \in Seq(Seen) => s \in Seq(Events)
    <3>1. auAppends \in Nat /\ MaxAppends \in Nat /\ auAppends <= MaxAppends
      BY AuditConstants DEF AuditInv, AuCounts
    <3>2. QED
      BY <3>1, SeqGrows DEF Seen, Events
  <2>2. {auWriting, auTimer, auError, auRestored, auRaced} \subseteq BOOLEAN
    BY DEF AuditInv, AuFlags
  <2>3. auWriting => auQueue # <<>>
    BY DEF AuditInv, AuFlags
  <2>4. auDropped \cup auCleared \cup auKept \cup auLost \subseteq Events
    BY <2>1 DEF AuditInv, AuValues
  <2>5. QED
    BY <2>1, <2>2, <2>3, <2>4 DEF AuditInv, AuValues, AuCounts, AuditTypeOK
<1>2. EventsInOrder
  <2>1. SUFFICES ASSUME ~auRaced
                 PROVE  Increasing(auMemory \o auBatch \o auPending) /\ Increasing(auStored)
    BY DEF EventsInOrder
  <2>2. /\ auMemory \in Seq(Nat) /\ auBatch \in Seq(Nat) /\ auPending \in Seq(Nat) /\ auStored \in Seq(Nat)
        /\ AuOrder
    BY <2>1, LogIds DEF AuditInv, AuLog
  <2>3. /\ auMemory \o auBatch \in Seq(Nat) /\ Sorted(auMemory \o auBatch)
        /\ Before(auMemory \o auBatch, auPending)
    <3>1. \A e : e \in Ids(auMemory \o auBatch) <=> e \in Ids(auMemory) \/ e \in Ids(auBatch)
      BY <2>2, CatIds
    <3>2. QED
      BY <2>2, <3>1, CatIs, CatSorted DEF AuOrder, Before
  <2>4. /\ auMemory \o auBatch \o auPending \in Seq(Nat)
        /\ Sorted(auMemory \o auBatch \o auPending)
    BY <2>2, <2>3, CatIs, CatSorted DEF AuOrder
  <2>5. QED
    BY <2>2, <2>4, SortedIncreases DEF AuOrder
<1>3. NoEventForgotten
  BY DEF NoEventForgotten, AuditInv, AuLog, AuKnown, Outgrown, Seen
<1>4. ClearedStaysCleared
  <2>1. SUFFICES ASSUME ~auRaced
                 PROVE  /\ Emptied \cap (Ids(auMemory) \cup Ids(auPending)) = {}
                        /\ auQueue = <<>> => Emptied \cap Ids(auStored) = {}
    BY DEF ClearedStaysCleared, Emptied
  <2>2. AuGone
    BY <2>1 DEF AuditInv, AuLog
  <2>3. auQueue = <<>> => ~Removing
    BY DEF Removing
  <2>4. QED
    BY <2>2, <2>3 DEF AuGone
<1>5. QED
  BY <1>1, <1>2, <1>3, <1>4 DEF AuditKept

\* For any number of events, clears, failing calls and terminations, and any bounds of the
\* log: events stay in order, none is forgotten and none that was cleared comes back.
THEOREM LogIsKept == AuditSpec => []AuditKept
<1>1. AuditInit => AuditInv
  BY AuditStarts
<1>2. AuditInv /\ [AuditSteps]_auVars => AuditInv'
  BY AuditStep
<1>3. AuditInv => AuditKept
  BY AuditHolds
<1>4. QED
  BY <1>1, <1>2, <1>3, PTL DEF AuditSpec

(***************************************************************************)
(* ProxySources                                                            *)
(***************************************************************************)

\* Settings with a source that has its own rules, or none, and is ready only with rules.
Own(settings) ==
    settings.source # NoSource =>
        /\ settings.source.revision = NoRules \/ settings.source.revision.url = settings.source.url
        /\ settings.source.status = "ready" => settings.source.revision # NoRules

Due == {"joined due", "alarm due"}

\* What is downloaded is of the URL; an alarm waits for what it began; who is due waits no
\* more.
PxDownloads ==
    pxRefresh # NoSource =>
        /\ pxRefresh.step \in {"put", "commit", "update"} =>
              pxRefresh.content \in Contents /\ pxRefresh.content.url = pxRefresh.url
        /\ pxRefresh.applies = FALSE => pxFollow = "alarm"
        /\ pxFollow \notin Due

\* What an update stores, over the settings of its beginning.
Fits(update, settings) ==
    /\ Own(update.next)
    /\ update.by \in {"refresh", "remove", "apply"} => update.next.mode = "auto" /\ update.next.dirty = FALSE
    /\ update.by \in {"switch", "import"} => update.next.mode = "direct" /\ update.step # "compile"
    /\ update.by = "failed" => update.step = "store" /\ update.next.dirty = TRUE
    /\ update.by \in {"apply", "failed", "switch"} => update.next.source = settings.source
    /\ update.by = "remove" => update.next.source = NoSource
    /\ update.by = "import" => update.next.source # NoSource /\ update.next.source.status = "ready"
    /\ update.by = "refresh" => update.next.source # NoSource /\ update.next.source.status # "updating"

PxUpdates ==
    /\ pxUpdate # NoSource => Fits(pxUpdate, pxStored)
    /\ (pxUpdate # NoSource /\ pxUpdate.by = "refresh") <=>
          (pxRefresh # NoSource /\ pxRefresh.step \in {"update", "unchanged"})

\* The database has the revisions that are about to be read or named.
PxHas ==
    /\ Compiled(pxStored) \in pxDatabase \cup {NoRules}
    /\ pxUpdate # NoSource => Compiled(pxUpdate.next) \in pxDatabase \cup {NoRules}
    /\ pxImport \in pxDatabase \cup {NoRules} /\ pxPreview \in pxDatabase \cup {NoRules}
    /\ pxRefresh # NoSource /\ pxRefresh.step = "commit" => pxRefresh.content \in pxDatabase
    /\ \A revision \in Revisions : pxArtifacts[revision] \in {Direct, revision}

\* The browser routes by the stored revision, or by that of the update that is to be stored.
PxRoutes ==
    /\ (pxStored.mode = "auto" /\ (pxUpdate # NoSource => pxUpdate.step # "store" /\ pxUpdate.by # "apply")) =>
          \/ pxBrowser = Compiled(pxStored)
          \/ pxStored.dirty = TRUE /\ (pxEdited = TRUE \/ pxFollow \in Due)
    /\ (pxUpdate # NoSource /\ pxUpdate.by \in {"refresh", "remove", "apply"}) =>
          /\ pxUpdate.step = "set" => pxUpdate.rules = Compiled(pxUpdate.next)
          /\ pxUpdate.step = "store" => pxBrowser = Compiled(pxUpdate.next)

PxMarks ==
    (pxStored.source # NoSource /\ pxStored.source.status = "updating") =>
        pxRefresh # NoSource /\ pxRefresh.step # "mark" /\ pxRefresh.url = pxStored.source.url

\* The causes that each of them makes an exception of.
Pruned == "pruned" \in pxCauses
Astray ==
    \/ "half" \in pxCauses \/ "pruned" \in pxCauses \/ "crossed" \in pxCauses
    \/ "returned" \in pxCauses \/ "killed" \in pxCauses
Unmarked == "crossed" \in pxCauses \/ "uncaught" \in pxCauses \/ "killed" \in pxCauses

PxValues ==
    /\ pxStored \in ProxySettings
    /\ pxDatabase \subseteq Contents
    /\ pxArtifacts \in [Revisions -> Revisions \cup {Direct}]
    /\ pxBrowser \in Revisions \cup {Direct}
    /\ pxUpdate \in {NoSource} \cup Updates
    /\ pxRefresh \in {NoSource} \cup Refreshes
    /\ pxFollow \in {"none", "alarm", "joined", "alarm due", "joined due"}
    /\ pxImport \in Revisions /\ pxPreview \in Revisions
PxFlags ==
    pxEdited \in BOOLEAN /\ pxCauses \subseteq {"half", "pruned", "crossed", "returned", "uncaught", "killed"}
PxCounts ==
    /\ pxOperations \in 0 .. MaxPxOperations /\ pxFaults \in 0 .. MaxPxFaults
    /\ pxKills \in 0 .. MaxPxKills

PxOrder ==
    /\ Own(pxStored) /\ PxDownloads /\ PxUpdates
    /\ (~Pruned => PxHas) /\ (~Astray => PxRoutes) /\ (~Unmarked => PxMarks)

PxInv == PxValues /\ PxFlags /\ PxCounts /\ PxOrder

-----------------------------------------------------------------------------
(* Bounds and records *)

LEMMA PxCountsKept == ASSUME PxCounts, [PxSteps]_pxVars PROVE PxCounts'
<1> USE ProxySourcesConstants DEF PxCounts, Began, Faulted, pxVars, pxBounds
<1>1. CASE UNCHANGED pxBounds
  BY <1>1
<1>2. CASE Began
  BY <1>2
<1>3. CASE Faulted
  BY <1>3
<1>4. CASE PxKill
  BY <1>4 DEF PxKill
<1>5. UNCHANGED pxBounds \/ Began \/ Faulted \/ PxKill
  BY DEF PxSteps, PxWorks, CompileUpdate, SetBrowser, StoreUpdate, ImportStores, PreviewCompiles,
     MarkUpdating,
     Fetched, PutRevision, CommitRefresh, SameRevision, RecordFailure, FollowUp, SetFails, StoreFails,
     CommitFails, MarkFails, FollowUpFails,
     SaveSource, RemoveSource, ApplyRules, SwitchProxy, ImportBegins, PreviewBegins, Refresh
<1>6. QED
  BY <1>1, <1>2, <1>3, <1>4, <1>5

\* The records and what changes in them.
LEMMA SettingsParts ==
    ASSUME NEW settings \in ProxySettings
    PROVE  /\ settings.source \in Sources \cup {NoSource} /\ settings.mode \in {"auto", "direct"}
           /\ settings.dirty \in BOOLEAN /\ Compiled(settings) \in Revisions
           /\ settings.source # NoSource =>
                /\ settings.source.url \in Urls /\ settings.source.revision \in Revisions
                /\ settings.source.status \in {"idle", "updating", "ready", "error"}
BY DEF ProxySettings, Sources, Compiled, Revisions

LEMMA StatusSet ==
    ASSUME NEW settings \in ProxySettings, settings.source # NoSource,
           NEW status \in {"idle", "updating", "ready", "error"}, NEW changed,
           changed = [settings EXCEPT !.source.status = status]
    PROVE  /\ changed \in ProxySettings /\ changed.mode = settings.mode /\ changed.dirty = settings.dirty
           /\ changed.source \in Sources /\ changed.source # NoSource
           /\ changed.source.url = settings.source.url
           /\ changed.source.revision = settings.source.revision /\ changed.source.status = status
BY ProxySourcesNone DEF ProxySettings, Sources

LEMMA UpdateParts ==
    ASSUME NEW update \in Updates
    PROVE  /\ update.by \in {"refresh", "remove", "apply", "failed", "switch", "import"}
           /\ update.step \in {"compile", "set", "store"} /\ update.next \in ProxySettings
           /\ update.rules \in Revisions \cup {Direct} /\ update # NoSource
BY ProxySourcesNone DEF Updates

LEMMA RefreshParts ==
    ASSUME NEW refresh \in Refreshes
    PROVE  /\ refresh.step \in {"mark", "fetch", "put", "commit", "same", "update", "unchanged", "fail"}
           /\ refresh.url \in Urls /\ refresh.revision \in Revisions /\ refresh.content \in Revisions
           /\ refresh.applies \in BOOLEAN /\ refresh # NoSource
BY ProxySourcesNone DEF Refreshes

-----------------------------------------------------------------------------
(* Updates that begin *)

\* An update that begins takes over from the settings that it will store.
UpdateBegins(by, source) ==
    /\ pxUpdate = NoSource /\ pxUpdate' \in Updates /\ pxUpdate' # NoSource
    /\ pxUpdate'.by = by /\ pxUpdate'.next.source = source
    /\ IF by \in {"switch", "import"}
       THEN pxUpdate'.step = "set" /\ pxUpdate'.next.mode = "direct"
       ELSE pxUpdate'.step = "compile" /\ pxUpdate'.next.mode = "auto" /\ pxUpdate'.next.dirty = FALSE

LEMMA ApplyingBegins ==
    ASSUME NEW settings \in ProxySettings, NEW by \in {"refresh", "remove", "apply"}, Applying(by, settings)
    PROVE  UpdateBegins(by, settings.source)
<1> DEFINE next == [settings EXCEPT !.mode = "auto", !.dirty = FALSE]
<1>1. next \in ProxySettings /\ next.source = settings.source /\ next.mode = "auto" /\ next.dirty = FALSE
  BY DEF ProxySettings
<1>2. pxUpdate = NoSource /\ pxUpdate' = [by |-> by, step |-> "compile", rules |-> NoRules, next |-> next]
  BY DEF Applying
<1>3. NoRules \in Revisions \cup {Direct}
  BY DEF Revisions
<1> HIDE DEF next
<1>4. /\ pxUpdate' \in Updates /\ pxUpdate' # NoSource
      /\ pxUpdate'.by = by /\ pxUpdate'.step = "compile" /\ pxUpdate'.next = next
  BY <1>1, <1>2, <1>3, ProxySourcesNone DEF Updates
<1>5. QED
  BY <1>1, <1>2, <1>4 DEF UpdateBegins

LEMMA DirectBegins ==
    ASSUME NEW settings \in ProxySettings, NEW by \in {"switch", "import"}, SettingDirect(by, settings)
    PROVE  UpdateBegins(by, settings.source)
<1> DEFINE next == [settings EXCEPT !.mode = "direct"]
<1>1. next \in ProxySettings /\ next.source = settings.source /\ next.mode = "direct"
  BY DEF ProxySettings
<1>2. pxUpdate = NoSource /\ pxUpdate' = [by |-> by, step |-> "set", rules |-> Direct, next |-> next]
  BY DEF SettingDirect
<1> HIDE DEF next
<1>3. /\ pxUpdate' \in Updates /\ pxUpdate' # NoSource
      /\ pxUpdate'.by = by /\ pxUpdate'.step = "set" /\ pxUpdate'.next = next
  BY <1>1, <1>2, ProxySourcesNone DEF Updates
<1>4. QED
  BY <1>1, <1>2, <1>3 DEF UpdateBegins

\* It keeps the order when its source fits; a download goes on with it, or is not concerned.
LEMMA BeginsKeeps ==
    ASSUME PxValues, PxOrder,
           NEW by \in {"refresh", "remove", "apply", "switch", "import"}, NEW source, UpdateBegins(by, source),
           UNCHANGED <<pxStored, pxDatabase, pxArtifacts, pxBrowser, pxImport, pxPreview, pxHistory>>,
           by = "refresh" => /\ pxRefresh' \in Refreshes /\ pxRefresh # NoSource
                             /\ pxRefresh'.step \in {"update", "unchanged"} /\ pxRefresh.step # "mark"
                             /\ pxRefresh'.url = pxRefresh.url /\ pxRefresh'.content = pxRefresh.content
                             /\ pxRefresh'.applies = pxRefresh.applies
                             /\ pxRefresh.step # "commit" => pxRefresh'.step = "unchanged"
                             /\ source # NoSource /\ source.status # "updating",
           by # "refresh" => pxRefresh' = pxRefresh,
           pxFollow' \in {"none", "alarm", "joined", "alarm due", "joined due"},
           pxFollow' # pxFollow => by = "apply" /\ pxFollow \in Due,
           by \in {"apply", "switch"} => source = pxStored.source,
           by = "remove" => source = NoSource,
           by = "import" => source # NoSource /\ source.status = "ready",
           Own(pxUpdate'.next),
           ~Pruned => Compiled(pxUpdate'.next) \in pxDatabase \cup {NoRules}
    PROVE  PxValues' /\ PxOrder'
<1> USE DEF PxOrder, UpdateBegins, pxHistory
<1>1. PxValues'
  BY RefreshParts DEF PxValues
<1>2. Own(pxStored)'
  BY DEF Own
<1>3. PxDownloads'
  BY RefreshParts, ProxySourcesNone DEF PxDownloads, PxValues, Due
<1>4. PxUpdates'
  BY RefreshParts, ProxySourcesNone DEF PxUpdates, Fits
<1>5. (~Pruned => PxHas)'
  BY RefreshParts DEF PxHas, Pruned, Compiled
<1>6. (~Astray => PxRoutes)'
  BY DEF PxRoutes, Astray, Due, Compiled
<1>7. (~Unmarked => PxMarks)'
  BY RefreshParts DEF PxMarks, Unmarked
<1>8. QED
  BY <1>1, <1>2, <1>3, <1>4, <1>5, <1>6, <1>7

LEMMA ApplyRulesKeeps == ASSUME PxValues, PxOrder, ApplyRules PROVE PxValues' /\ PxOrder'
<1>1. pxStored \in ProxySettings /\ pxFollow \in {"none", "alarm", "joined", "alarm due", "joined due"}
  BY DEF PxValues
<1>2. UpdateBegins("apply", pxStored.source)
  BY <1>1, ApplyingBegins DEF ApplyRules
<1>3. Own(pxUpdate'.next) /\ (~Pruned => Compiled(pxUpdate'.next) \in pxDatabase \cup {NoRules})
  BY <1>2 DEF UpdateBegins, PxOrder, Own, PxHas, Compiled
<1>4. /\ UNCHANGED <<pxStored, pxDatabase, pxArtifacts, pxBrowser, pxImport, pxPreview, pxHistory>>
      /\ pxRefresh' = pxRefresh /\ pxFollow' = pxFollow
  BY DEF ApplyRules
<1>5. QED
  BY <1>1, <1>2, <1>3, <1>4, BeginsKeeps

LEMMA SwitchProxyKeeps == ASSUME PxValues, PxOrder, SwitchProxy PROVE PxValues' /\ PxOrder'
<1>1. pxStored \in ProxySettings /\ pxFollow \in {"none", "alarm", "joined", "alarm due", "joined due"}
  BY DEF PxValues
<1>2. UpdateBegins("switch", pxStored.source)
  BY <1>1, DirectBegins DEF SwitchProxy
<1>3. Own(pxUpdate'.next) /\ (~Pruned => Compiled(pxUpdate'.next) \in pxDatabase \cup {NoRules})
  BY <1>2 DEF UpdateBegins, PxOrder, Own, PxHas, Compiled
<1>4. /\ UNCHANGED <<pxStored, pxDatabase, pxArtifacts, pxBrowser, pxImport, pxPreview, pxHistory>>
      /\ pxRefresh' = pxRefresh /\ pxFollow' = pxFollow
  BY DEF SwitchProxy
<1>5. QED
  BY <1>1, <1>2, <1>3, <1>4, BeginsKeeps

LEMMA ImportStoresKeeps == ASSUME PxValues, PxOrder, ImportStores PROVE PxValues' /\ PxOrder'
<1> DEFINE source == [url |-> pxImport.url, revision |-> pxImport, status |-> "ready"]
           settings == [pxStored EXCEPT !.dirty = TRUE, !.source = source]
<1>1. /\ pxStored \in ProxySettings /\ pxFollow \in {"none", "alarm", "joined", "alarm due", "joined due"}
      /\ pxImport \in Contents
  BY DEF PxValues, ImportStores, Revisions
<1>2. pxImport.url \in Urls
  BY <1>1 DEF Urls
<1>3. source \in Sources /\ source.revision = pxImport /\ source.url = pxImport.url /\ source.status = "ready"
  BY <1>1, <1>2 DEF Sources, Revisions
<1>4. source # NoSource
  BY <1>3, ProxySourcesNone
<1> HIDE DEF source
<1>5. settings \in ProxySettings /\ settings.source = source
  BY <1>1, <1>3 DEF ProxySettings
<1>6. SettingDirect("import", settings)
  BY DEF ImportStores, source
<1> HIDE DEF settings
<1>7. UpdateBegins("import", source)
  BY <1>5, <1>6, DirectBegins
<1>8. Own(pxUpdate'.next) /\ (~Pruned => Compiled(pxUpdate'.next) \in pxDatabase \cup {NoRules})
  BY <1>1, <1>3, <1>4, <1>7, ProxySourcesConstants DEF UpdateBegins, PxOrder, Own, PxHas, Compiled
<1>9. /\ UNCHANGED <<pxStored, pxDatabase, pxArtifacts, pxBrowser, pxImport, pxPreview, pxHistory>>
      /\ pxRefresh' = pxRefresh /\ pxFollow' = pxFollow
  BY DEF ImportStores
<1>10. QED
  BY <1>1, <1>3, <1>4, <1>7, <1>8, <1>9, BeginsKeeps

\* The alarm that finds another mode leaves it.
LEMMA FollowUpKeeps == ASSUME PxValues, PxOrder, FollowUp PROVE PxValues' /\ PxOrder'
<1>1. pxStored \in ProxySettings /\ pxFollow \in Due /\ pxFollow' = "none"
  BY DEF PxValues, FollowUp, Due
<1>2. /\ UNCHANGED <<pxStored, pxDatabase, pxArtifacts, pxBrowser, pxImport, pxPreview, pxHistory>>
      /\ pxRefresh' = pxRefresh
  BY DEF FollowUp
<1>3. CASE Applying("apply", pxStored)
  <2>1. UpdateBegins("apply", pxStored.source)
    BY <1>1, <1>3, ApplyingBegins
  <2>2. Own(pxUpdate'.next) /\ (~Pruned => Compiled(pxUpdate'.next) \in pxDatabase \cup {NoRules})
    BY <2>1 DEF UpdateBegins, PxOrder, Own, PxHas, Compiled
  <2>3. QED
    BY <1>1, <1>2, <2>1, <2>2, BeginsKeeps
<1>4. CASE pxStored.mode # "auto" /\ UNCHANGED pxUpdate
  <2> USE <1>1, <1>2, <1>4 DEF PxOrder, pxHistory
  <2>1. PxValues'
    BY DEF PxValues
  <2>2. Own(pxStored)' /\ PxUpdates'
    BY DEF Own, PxUpdates, Fits
  <2>3. PxDownloads'
    BY DEF PxDownloads, Due
  <2>4. (~Pruned => PxHas)' /\ (~Unmarked => PxMarks)'
    BY DEF PxHas, Pruned, Compiled, PxMarks, Unmarked
  <2>5. (~Astray => PxRoutes)'
    BY DEF PxRoutes, Astray, Due, Compiled
  <2>6. QED
    BY <2>1, <2>2, <2>3, <2>4, <2>5
<1>5. QED
  BY <1>3, <1>4 DEF FollowUp

-----------------------------------------------------------------------------
(* Updates under way *)

LEMMA ArtifactIs ==
    ASSUME PxValues, NEW revision \in Revisions
    PROVE  /\ ArtifactOf(revision) \in Revisions
           /\ ~Pruned /\ PxHas /\ revision \in pxDatabase \cup {NoRules} => ArtifactOf(revision) = revision
<1>1. pxArtifacts[revision] \in Revisions \cup {Direct} /\ NoRules \in Revisions
  BY DEF PxValues, Revisions
<1>2. PxHas => pxArtifacts[revision] \in {Direct, revision}
  BY DEF PxHas
<1>3. pxDatabase \subseteq Revisions /\ NoRules \notin pxDatabase
  BY ProxySourcesConstants DEF PxValues, Revisions
<1>4. QED
  BY <1>1, <1>2, <1>3 DEF ArtifactOf

LEMMA CompileUpdateKeeps == ASSUME PxValues, PxOrder, CompileUpdate PROVE PxValues' /\ PxOrder'
<1> DEFINE revision == Compiled(pxUpdate.next)
<1>1. pxUpdate \in Updates /\ pxUpdate.step = "compile" /\ pxUpdate # NoSource
  BY DEF PxValues, CompileUpdate
<1>2. pxUpdate.next \in ProxySettings
  BY <1>1, UpdateParts
<1>3. revision \in Revisions
  BY <1>2, SettingsParts
<1>4. pxArtifacts' = [pxArtifacts EXCEPT ![revision] = ArtifactOf(revision)]
  BY DEF CompileUpdate
<1>5. pxUpdate' = [pxUpdate EXCEPT !.step = "set", !.rules = ArtifactOf(revision)]
  BY DEF CompileUpdate
<1>6. UNCHANGED <<pxStored, pxDatabase, pxBrowser, pxRefresh, pxFollow, pxImport, pxPreview, pxHistory>>
  BY DEF CompileUpdate
<1> HIDE DEF revision
<1>7. ArtifactOf(revision) \in Revisions
  BY <1>3, ArtifactIs
<1>8. /\ pxUpdate' \in Updates /\ pxUpdate' # NoSource /\ pxUpdate'.by = pxUpdate.by
      /\ pxUpdate'.step = "set" /\ pxUpdate'.next = pxUpdate.next /\ pxUpdate'.rules = ArtifactOf(revision)
  BY <1>1, <1>5, <1>7, ProxySourcesNone DEF Updates
<1>9. ~Pruned => revision \in pxDatabase \cup {NoRules} /\ ArtifactOf(revision) = revision
  BY <1>1, <1>3, ArtifactIs DEF PxOrder, PxHas, revision
<1> USE <1>6, <1>8 DEF PxOrder, pxHistory
<1>10. PxValues'
  BY <1>3, <1>4, <1>7 DEF PxValues
<1>11. Own(pxStored)' /\ PxDownloads'
  BY DEF Own, PxDownloads
<1>12. PxUpdates'
  BY <1>1 DEF PxUpdates, Fits, Own
<1>13. (~Pruned => PxHas)'
  BY <1>1, <1>3, <1>4, <1>9 DEF PxHas, Pruned, Compiled, PxValues
<1>14. (~Astray => PxRoutes)'
  BY <1>1, <1>9 DEF PxRoutes, Astray, Pruned, Due, Compiled, revision
<1>15. (~Unmarked => PxMarks)'
  BY DEF PxMarks, Unmarked
<1>16. QED
  BY <1>10, <1>11, <1>12, <1>13, <1>14, <1>15

LEMMA SetBrowserKeeps == ASSUME PxValues, PxOrder, SetBrowser PROVE PxValues' /\ PxOrder'
<1>1. pxUpdate \in Updates /\ pxUpdate.step = "set" /\ pxUpdate # NoSource /\ pxUpdate.rules \in Revisions \cup {Direct}
  BY UpdateParts DEF PxValues, SetBrowser
<1>2. pxUpdate' = [pxUpdate EXCEPT !.step = "store"] /\ pxBrowser' = pxUpdate.rules
  BY DEF SetBrowser
<1>3. UNCHANGED <<pxStored, pxDatabase, pxArtifacts, pxRefresh, pxFollow, pxImport, pxPreview, pxHistory>>
  BY DEF SetBrowser
<1>4. /\ pxUpdate' \in Updates /\ pxUpdate' # NoSource /\ pxUpdate'.by = pxUpdate.by
      /\ pxUpdate'.step = "store" /\ pxUpdate'.next = pxUpdate.next /\ pxUpdate'.rules = pxUpdate.rules
  BY <1>1, <1>2, ProxySourcesNone DEF Updates
<1> USE <1>3, <1>4 DEF PxOrder, pxHistory
<1>5. PxValues'
  BY <1>1, <1>2 DEF PxValues
<1>6. Own(pxStored)' /\ PxDownloads'
  BY DEF Own, PxDownloads
<1>7. PxUpdates'
  BY <1>1 DEF PxUpdates, Fits, Own
<1>8. (~Pruned => PxHas)'
  BY <1>1 DEF PxHas, Pruned, Compiled
<1>9. (~Astray => PxRoutes)'
  BY <1>1, <1>2 DEF PxRoutes, Astray, Due, Compiled
<1>10. (~Unmarked => PxMarks)'
  BY DEF PxMarks, Unmarked
<1>11. QED
  BY <1>5, <1>6, <1>7, <1>8, <1>9, <1>10

-----------------------------------------------------------------------------
(* Updates that fail *)

\* A refresh whose update fails goes on to record that, or is over.
GoesOnFailing ==
    /\ pxRefresh' \in Refreshes /\ pxRefresh' # NoSource
    /\ pxRefresh'.step = "fail" /\ pxRefresh'.url = pxRefresh.url
    /\ pxRefresh'.content = pxRefresh.content /\ pxRefresh'.applies = pxRefresh.applies
RefreshAfter ==
    \/ pxUpdate.by # "refresh" /\ pxRefresh' = pxRefresh /\ pxFollow' = pxFollow
    \/ /\ pxUpdate.by = "refresh" /\ pxRefresh.step = "unchanged"
       /\ pxRefresh' = NoSource /\ pxFollow' = "none"
    \/ pxUpdate.by = "refresh" /\ GoesOnFailing /\ pxFollow' = pxFollow

LEMMA EndsEffect ==
    ASSUME PxValues, PxOrder, pxUpdate # NoSource, EndsRejected
    PROVE  pxUpdate' = NoSource /\ pxImport' \in {pxImport, NoRules} /\ RefreshAfter
<1>1. pxUpdate' = NoSource /\ pxImport' \in {pxImport, NoRules}
  BY DEF EndsRejected
<1>2. CASE pxUpdate.by # "refresh"
  BY <1>1, <1>2 DEF EndsRejected, RefreshAfter
<1>3. CASE pxUpdate.by = "refresh"
  <2>1. pxRefresh \in Refreshes
    BY <1>3 DEF PxOrder, PxUpdates, PxValues
  <2>2. CASE pxRefresh.step = "unchanged"
    BY <1>1, <1>3, <2>2 DEF EndsRejected, RefreshFails, RefreshAfter
  <2>3. CASE pxRefresh.step # "unchanged"
    <3>1. pxRefresh' = [pxRefresh EXCEPT !.step = "fail"]
      BY <1>3, <2>3 DEF EndsRejected, RefreshFails
    <3>2. pxFollow' = pxFollow
      BY <1>3, <2>3 DEF EndsRejected
    <3>3. GoesOnFailing
      BY <2>1, <3>1, ProxySourcesNone DEF Refreshes, GoesOnFailing
    <3>4. QED
      BY <1>1, <1>3, <3>2, <3>3 DEF RefreshAfter
  <2>4. QED
    BY <2>2, <2>3
<1>4. QED
  BY <1>2, <1>3

LEMMA EndsKeeps ==
    ASSUME PxValues, PxOrder, pxUpdate # NoSource, EndsRejected,
           UNCHANGED <<pxStored, pxDatabase, pxArtifacts, pxPreview, pxEdited>>,
           pxBrowser' \in Revisions \cup {Direct},
           ~Pruned' => ~Pruned,
           ~Astray' => /\ ~Astray /\ pxBrowser' = pxBrowser
                       /\ pxUpdate.step # "store" /\ pxUpdate.by # "apply",
           ~Unmarked' => ~Unmarked /\ (pxUpdate.by = "refresh" => pxRefresh.step # "unchanged")
    PROVE  PxValues' /\ PxOrder'
<1>1. pxUpdate' = NoSource /\ pxImport' \in {pxImport, NoRules} /\ RefreshAfter
  BY EndsEffect
<1>2. NoRules \in Revisions
  BY DEF Revisions
<1> USE <1>1 DEF PxOrder, RefreshAfter, GoesOnFailing
<1>3. PxValues'
  BY <1>2 DEF PxValues
<1>4. Own(pxStored)'
  BY DEF Own
<1>5. PxDownloads'
  BY DEF PxDownloads, PxUpdates, Due
<1>6. PxUpdates'
  BY DEF PxUpdates
<1>7. (~Pruned => PxHas)'
  BY DEF PxHas, Compiled
<1>8. (~Astray => PxRoutes)'
  <2>1. SUFFICES ASSUME ~Astray' PROVE PxRoutes'
    OBVIOUS
  <2>2. PxRoutes /\ pxBrowser' = pxBrowser /\ pxUpdate.step # "store" /\ pxUpdate.by # "apply"
    BY <2>1
  <2>3. pxFollow' = pxFollow \/ pxFollow \notin Due
    BY DEF PxDownloads, PxUpdates
  <2>4. QED
    BY <2>2, <2>3 DEF PxRoutes, Compiled
<1>9. (~Unmarked => PxMarks)'
  <2>1. SUFFICES ASSUME ~Unmarked' PROVE PxMarks'
    OBVIOUS
  <2>2. PxMarks /\ (pxUpdate.by = "refresh" => pxRefresh.step # "unchanged")
    BY <2>1
  <2>3. QED
    BY <2>2 DEF PxMarks
<1>10. QED
  BY <1>3, <1>4, <1>5, <1>6, <1>7, <1>8, <1>9

LEMMA StoreFailsKeeps == ASSUME PxValues, PxOrder, StoreFails PROVE PxValues' /\ PxOrder'
<1>1. pxUpdate # NoSource /\ EndsRejected /\ pxUpdate \in Updates /\ pxUpdate.next \in ProxySettings
  BY UpdateParts DEF StoreFails, PxValues
<1>2. /\ UNCHANGED <<pxDatabase, pxArtifacts, pxBrowser, pxPreview, pxEdited>>
      /\ pxBrowser' \in Revisions \cup {Direct} /\ pxStored' \in {pxStored, pxUpdate.next}
  BY DEF StoreFails, PxValues
<1>3. /\ pxCauses \subseteq pxCauses' /\ "half" \in pxCauses'
      /\ pxUpdate.by = "refresh" /\ pxRefresh.step = "unchanged" => "uncaught" \in pxCauses'
  BY DEF StoreFails, RefreshAt, PxOrder, PxUpdates
<1>4. (~Pruned' => ~Pruned) /\ Astray'
  BY <1>3 DEF Pruned, Astray
<1>5. ~Unmarked' => ~Unmarked /\ (pxUpdate.by = "refresh" => pxRefresh.step # "unchanged")
  BY <1>3 DEF Unmarked
<1>6. CASE pxStored' = pxStored
  BY <1>1, <1>2, <1>4, <1>5, <1>6, EndsKeeps
<1>7. CASE pxStored' = pxUpdate.next
  <2>1. pxUpdate' = NoSource /\ pxImport' \in {pxImport, NoRules} /\ RefreshAfter
    BY <1>1, EndsEffect
  <2>2. NoRules \in Revisions /\ Fits(pxUpdate, pxStored)
    BY <1>1 DEF Revisions, PxOrder, PxUpdates
  <2> USE <1>1, <1>2, <1>7, <2>1, <2>2 DEF PxOrder, RefreshAfter, GoesOnFailing
  <2>3. PxValues'
    BY DEF PxValues
  <2>4. Own(pxStored)'
    BY DEF Own, Fits
  <2>5. PxDownloads' /\ PxUpdates'
    BY DEF PxDownloads, PxUpdates, Due
  <2>6. (~Pruned => PxHas)'
    BY <1>4 DEF PxHas, Compiled
  <2>7. (~Unmarked => PxMarks)'
    <3>1. SUFFICES ASSUME ~Unmarked' PROVE PxMarks'
      OBVIOUS
    <3>2. PxMarks /\ (pxUpdate.by = "refresh" => pxRefresh.step # "unchanged")
      BY <1>5, <3>1
    <3>3. CASE pxUpdate.by \in {"apply", "failed", "switch"}
      BY <3>2, <3>3 DEF PxMarks, Fits
    <3>4. CASE pxUpdate.by \in {"remove", "import", "refresh"}
      BY <3>4 DEF PxMarks, Fits
    <3>5. QED
      BY <3>3, <3>4, UpdateParts
  <2>8. QED
    BY <1>4, <2>3, <2>4, <2>5, <2>6, <2>7
<1>8. QED
  BY <1>2, <1>6, <1>7

LEMMA SetFailsKeeps == ASSUME PxValues, PxFlags, PxOrder, SetFails PROVE PxValues' /\ PxOrder'
<1>1. pxUpdate \in Updates /\ pxUpdate.step = "set" /\ pxUpdate # NoSource /\ pxUpdate.rules \in Revisions \cup {Direct}
  BY UpdateParts DEF PxValues, SetFails
<1>2. /\ UNCHANGED <<pxStored, pxDatabase, pxArtifacts, pxPreview, pxEdited>>
      /\ pxBrowser' \in Revisions \cup {Direct}
  BY <1>1 DEF SetFails, PxValues
<1>3. /\ pxCauses \subseteq pxCauses' /\ (pxBrowser' # pxBrowser => "half" \in pxCauses')
      /\ pxUpdate.by = "refresh" /\ pxRefresh.step = "unchanged" => "uncaught" \in pxCauses'
  BY DEF SetFails, RefreshAt, PxOrder, PxUpdates
<1>4. (~Pruned' => ~Pruned) /\ (~Astray' => ~Astray /\ pxBrowser' = pxBrowser)
  BY <1>3 DEF Pruned, Astray
<1>5. ~Unmarked' => ~Unmarked /\ (pxUpdate.by = "refresh" => pxRefresh.step # "unchanged")
  BY <1>3 DEF Unmarked
<1>6. CASE pxUpdate.by # "apply"
  <2>1. EndsRejected
    BY <1>6 DEF SetFails
  <2>2. QED
    BY <1>1, <1>2, <1>4, <1>5, <1>6, <2>1, EndsKeeps
<1>7. CASE pxUpdate.by = "apply"
  <2> DEFINE next == [pxStored EXCEPT !.dirty = TRUE]
  <2>1. next \in ProxySettings /\ next.source = pxStored.source /\ next.dirty = TRUE
    BY DEF ProxySettings, PxValues
  <2>2. pxUpdate' = [pxUpdate EXCEPT !.by = "failed", !.step = "store", !.next = next]
    BY <1>7 DEF SetFails
  <2>3. UNCHANGED <<pxRefresh, pxFollow, pxImport>>
    BY <1>7 DEF SetFails
  <2> HIDE DEF next
  <2>4. /\ pxUpdate' \in Updates /\ pxUpdate' # NoSource /\ pxUpdate'.by = "failed"
        /\ pxUpdate'.step = "store" /\ pxUpdate'.next = next
    BY <1>1, <2>1, <2>2, ProxySourcesNone DEF Updates
  <2> USE <1>2, <1>4, <1>5, <1>7, <2>1, <2>3, <2>4 DEF PxOrder
  <2>5. PxValues'
    BY DEF PxValues
  <2>6. Own(pxStored)' /\ PxDownloads'
    BY DEF Own, PxDownloads
  <2>7. PxUpdates'
    BY <1>1 DEF PxUpdates, Fits, Own
  <2>8. (~Pruned => PxHas)'
    BY DEF PxHas, Compiled
  <2>9. (~Astray => PxRoutes)'
    BY DEF PxRoutes
  <2>10. (~Unmarked => PxMarks)'
    BY DEF PxMarks
  <2>11. QED
    BY <2>5, <2>6, <2>7, <2>8, <2>9, <2>10
<1>8. QED
  BY <1>6, <1>7

-----------------------------------------------------------------------------
(* Updates that are stored *)

\* The clean-up leaves what the settings compile; whoever loses something is a cause.
LEMMA CleanUpEffect ==
    ASSUME PxValues, NEW settings, NEW causes, CleansUp(settings, causes)
    PROVE  /\ pxDatabase' \subseteq pxDatabase /\ pxCauses \cup causes \subseteq pxCauses'
           /\ Compiled(settings) \in pxDatabase => Compiled(settings) \in pxDatabase'
           /\ "pruned" \notin pxCauses' =>
                /\ "pruned" \notin pxCauses
                /\ pxImport \in pxDatabase => pxImport \in pxDatabase'
                /\ pxPreview \in pxDatabase => pxPreview \in pxDatabase'
                /\ RefreshAt("commit") /\ pxRefresh.content \in pxDatabase => pxRefresh.content \in pxDatabase'
BY DEF CleansUp, KeptRevisions, InUse

LEMMA DoneEffect ==
    ASSUME PxValues, NEW settings, RefreshDone(settings)
    PROVE  /\ pxRefresh' = NoSource /\ pxFollow' \in {"none", "joined due", "alarm due"}
           /\ (pxFollow = "joined" /\ settings.mode = "auto" /\ settings.dirty = TRUE) => pxFollow' \in Due
           /\ (pxFollow = "alarm" /\ Compiled(settings) # pxRefresh.revision) => pxFollow' \in Due
BY DEF RefreshDone, Due

LEMMA StoreUpdateKeeps == ASSUME PxValues, PxFlags, PxOrder, StoreUpdate PROVE PxValues' /\ PxOrder'
<1>1. pxUpdate \in Updates /\ pxUpdate.step = "store" /\ pxUpdate # NoSource
  BY DEF PxValues, StoreUpdate
<1>2. pxUpdate.next \in ProxySettings
  BY <1>1, UpdateParts
<1>3. /\ pxUpdate' = NoSource /\ pxStored' = pxUpdate.next /\ pxImport' \in {pxImport, NoRules}
      /\ UNCHANGED <<pxArtifacts, pxBrowser, pxPreview>>
  BY DEF StoreUpdate
<1>4. pxUpdate.by = "failed" => pxEdited' = TRUE
  BY DEF StoreUpdate
<1>5. \/ \E causes : CleansUp(pxUpdate.next, causes)
      \/ pxUpdate.by # "import" /\ UNCHANGED <<pxDatabase, pxCauses>>
  BY DEF StoreUpdate
<1>6. /\ pxDatabase' \subseteq pxDatabase /\ pxCauses \subseteq pxCauses'
      /\ Compiled(pxUpdate.next) \in pxDatabase => Compiled(pxUpdate.next) \in pxDatabase'
      /\ "pruned" \notin pxCauses' =>
           /\ "pruned" \notin pxCauses
           /\ pxImport \in pxDatabase => pxImport \in pxDatabase'
           /\ pxPreview \in pxDatabase => pxPreview \in pxDatabase'
           /\ RefreshAt("commit") /\ pxRefresh.content \in pxDatabase => pxRefresh.content \in pxDatabase'
  BY <1>5, CleanUpEffect
<1>7. pxUpdate.by = "import" => pxRefresh = NoSource \/ "crossed" \in pxCauses'
  <2>1. SUFFICES ASSUME pxUpdate.by = "import", pxRefresh # NoSource PROVE "crossed" \in pxCauses'
    OBVIOUS
  <2>2. ~RefreshAt("update")
    BY <1>1, <2>1 DEF RefreshAt, PxOrder, PxUpdates
  <2>3. QED
    BY <2>1, <2>2 DEF StoreUpdate, CleansUp
<1>8. \/ /\ pxUpdate.by = "refresh" /\ pxRefresh' = NoSource
         /\ pxFollow' \in {"none", "joined due", "alarm due"}
      \/ pxUpdate.by # "refresh" /\ pxRefresh' = pxRefresh /\ pxFollow' = pxFollow
  BY DoneEffect DEF StoreUpdate
<1>9. Fits(pxUpdate, pxStored)
  BY <1>1 DEF PxOrder, PxUpdates
<1> USE <1>3, <1>8 DEF PxOrder
<1>10. PxValues'
  BY <1>2, <1>6 DEF PxValues, Revisions
<1>11. Own(pxStored)'
  BY <1>9 DEF Own, Fits
<1>12. PxDownloads'
  BY DEF PxDownloads
<1>13. PxUpdates'
  BY DEF PxUpdates
<1>14. (~Pruned => PxHas)'
  <2>1. SUFFICES ASSUME ~Pruned' PROVE PxHas'
    OBVIOUS
  <2>2. PxHas
    BY <1>6, <2>1 DEF Pruned
  <2>3. QED
    BY <1>1, <1>6, <2>1, <2>2 DEF PxHas, Pruned, RefreshAt, Compiled
<1>15. (~Astray => PxRoutes)'
  <2>1. SUFFICES ASSUME ~Astray' PROVE PxRoutes'
    OBVIOUS
  <2>2. PxRoutes
    BY <1>6, <2>1 DEF Astray
  <2>3. pxUpdate.by \in {"refresh", "remove", "apply"} => pxBrowser = Compiled(pxUpdate.next)
    BY <1>1, <2>2 DEF PxRoutes
  <2>4. pxUpdate.next.mode = "auto" => pxUpdate.by \in {"refresh", "remove", "apply", "failed"}
    BY <1>1, <1>9, UpdateParts DEF Fits
  <2>5. QED
    BY <1>4, <1>9, <2>3, <2>4 DEF PxRoutes, Fits, Compiled
<1>16. (~Unmarked => PxMarks)'
  <2>1. SUFFICES ASSUME ~Unmarked', pxStored'.source # NoSource, pxStored'.source.status = "updating"
                 PROVE  PxMarks'
    BY DEF PxMarks
  <2>2. PxMarks /\ (pxUpdate.by = "import" => pxRefresh = NoSource)
    BY <1>6, <1>7, <2>1 DEF Unmarked
  <2>3. pxUpdate.by \in {"apply", "failed", "switch"}
    BY <1>1, <1>9, <2>1, UpdateParts DEF Fits
  <2>4. pxStored'.source = pxStored.source /\ pxRefresh' = pxRefresh
    BY <1>9, <2>3 DEF Fits
  <2>5. QED
    BY <2>1, <2>2, <2>4 DEF PxMarks
<1>17. QED
  BY <1>10, <1>11, <1>12, <1>13, <1>14, <1>15, <1>16

-----------------------------------------------------------------------------
(* Settings that are stored at once *)

LEMMA SaveSourceKeeps == ASSUME PxValues, PxFlags, PxOrder, SaveSource PROVE PxValues' /\ PxOrder'
<1>1. PICK url \in Urls :
        LET source == pxStored.source
            saved == IF source # NoSource /\ source.url = url THEN source
                     ELSE [url |-> url, revision |-> NoRules, status |-> "idle"]
        IN  StoresNow([pxStored EXCEPT !.source = saved, !.dirty = TRUE])
  BY DEF SaveSource
<1> DEFINE saved == IF pxStored.source # NoSource /\ pxStored.source.url = url THEN pxStored.source
                    ELSE [url |-> url, revision |-> NoRules, status |-> "idle"]
<1>2. pxUpdate = NoSource /\ pxStored' = [pxStored EXCEPT !.source = saved, !.dirty = TRUE]
  BY <1>1 DEF StoresNow
<1>3. pxStored \in ProxySettings
  BY DEF PxValues
<1>4. saved \in Sources
  BY <1>3, SettingsParts DEF Sources, Revisions
<1>5. /\ saved # NoSource /\ Own(pxStored)
      /\ \/ pxStored.source # NoSource /\ saved = pxStored.source
         \/ saved.revision = NoRules /\ saved.status = "idle"
  BY <1>4, ProxySourcesNone DEF PxOrder
<1> HIDE DEF saved
<1>6. /\ pxStored' \in ProxySettings /\ pxStored'.source = saved
      /\ pxStored'.mode = pxStored.mode /\ pxStored'.dirty = TRUE
  BY <1>2, <1>3, <1>4 DEF ProxySettings
<1>7. pxEdited' = TRUE /\ UNCHANGED <<pxBrowser, pxUpdate, pxImport, pxCauses>>
  BY DEF SaveSource
<1>8. \/ UNCHANGED <<pxRefresh, pxPreview, pxFollow, pxDatabase, pxArtifacts>>
      \/ pxStored.source = NoSource /\ AnotherSource
  BY DEF SaveSource
<1> USE <1>2, <1>6, <1>7 DEF PxOrder
<1>9. PxValues'
  BY <1>8 DEF PxValues, AnotherSource, Revisions
<1>10. Own(pxStored)'
  BY <1>5, ProxySourcesConstants DEF Own
<1>11. PxDownloads'
  BY <1>8 DEF PxDownloads, AnotherSource
<1>12. PxUpdates'
  BY <1>8 DEF PxUpdates, AnotherSource
<1>13. (~Pruned => PxHas)'
  <2>1. CASE UNCHANGED <<pxRefresh, pxPreview, pxFollow, pxDatabase, pxArtifacts>>
    BY <1>5, <2>1 DEF PxHas, Pruned, Compiled
  <2>2. CASE pxStored.source = NoSource /\ AnotherSource
    <3>1. saved.revision = NoRules
      BY <1>5, <2>2
    <3>2. NoRules \in Revisions
      BY DEF Revisions
    <3>3. QED
      BY <1>5, <2>2, <3>1, <3>2 DEF PxHas, Pruned, Compiled, AnotherSource
  <2>3. QED
    BY <1>8, <2>1, <2>2
<1>14. (~Astray => PxRoutes)'
  BY DEF PxRoutes, Astray
<1>15. (~Unmarked => PxMarks)'
  BY <1>5, <1>8 DEF PxMarks, Unmarked, AnotherSource
<1>16. QED
  BY <1>9, <1>10, <1>11, <1>12, <1>13, <1>14, <1>15

LEMMA RemoveSourceKeeps == ASSUME PxValues, PxFlags, PxOrder, RemoveSource PROVE PxValues' /\ PxOrder'
<1> DEFINE removed == [pxStored EXCEPT !.source = NoSource, !.dirty = TRUE]
<1>1. /\ removed \in ProxySettings /\ removed.source = NoSource
      /\ removed.mode = pxStored.mode /\ removed.dirty = TRUE
  BY DEF ProxySettings, PxValues
<1>2. UNCHANGED <<pxArtifacts, pxBrowser, pxRefresh, pxFollow, pxImport, pxPreview>>
  BY DEF RemoveSource
<1>3. CASE pxStored.mode = "auto"
  <2>1. Applying("remove", removed) /\ UNCHANGED <<pxStored, pxDatabase, pxHistory>>
    BY <1>3 DEF RemoveSource
  <2> HIDE DEF removed
  <2>2. UpdateBegins("remove", NoSource)
    BY <1>1, <2>1, ApplyingBegins
  <2>3. Own(pxUpdate'.next) /\ Compiled(pxUpdate'.next) = NoRules
    BY <2>2 DEF UpdateBegins, Own, Compiled
  <2>4. pxFollow' = pxFollow /\ pxFollow \in {"none", "alarm", "joined", "alarm due", "joined due"}
    BY <1>2 DEF PxValues
  <2>5. QED
    BY <1>2, <2>1, <2>2, <2>3, <2>4, BeginsKeeps
<1>4. CASE pxStored.mode # "auto"
  <2>1. /\ pxUpdate = NoSource /\ pxStored' = removed /\ CleansUp(removed, {})
        /\ pxEdited' = TRUE /\ UNCHANGED pxUpdate
    BY <1>4 DEF RemoveSource, StoresNow
  <2> HIDE DEF removed
  <2>2. /\ pxDatabase' \subseteq pxDatabase /\ pxCauses \subseteq pxCauses'
        /\ "pruned" \notin pxCauses' =>
             /\ "pruned" \notin pxCauses
             /\ pxImport \in pxDatabase => pxImport \in pxDatabase'
             /\ pxPreview \in pxDatabase => pxPreview \in pxDatabase'
             /\ RefreshAt("commit") /\ pxRefresh.content \in pxDatabase => pxRefresh.content \in pxDatabase'
    BY <2>1, CleanUpEffect
  <2> USE <1>1, <1>2, <1>4, <2>1 DEF PxOrder
  <2>3. PxValues'
    BY <2>2 DEF PxValues
  <2>4. Own(pxStored)' /\ PxDownloads' /\ PxUpdates'
    BY DEF Own, PxDownloads, PxUpdates
  <2>5. (~Pruned => PxHas)'
    BY <2>2 DEF PxHas, Pruned, Compiled, RefreshAt
  <2>6. (~Astray => PxRoutes)' /\ (~Unmarked => PxMarks)'
    BY DEF PxRoutes, PxMarks
  <2>7. QED
    BY <2>3, <2>4, <2>5, <2>6
<1>5. QED
  BY <1>3, <1>4

-----------------------------------------------------------------------------
(* The refresh *)

\* A refresh changes no more of the settings than the status of the source.
Restated ==
    /\ pxStored' \in ProxySettings /\ pxStored'.mode = pxStored.mode /\ pxStored'.dirty = pxStored.dirty
    /\ pxStored.source = NoSource => pxStored'.source = NoSource
    /\ pxStored.source # NoSource =>
         /\ pxStored'.source \in Sources /\ pxStored'.source # NoSource
         /\ pxStored'.source.url = pxStored.source.url
         /\ pxStored'.source.revision = pxStored.source.revision
         /\ pxStored'.source.status = "ready" => pxStored.source.revision # NoRules

LEMMA RestatedKeeps ==
    ASSUME PxValues, PxOrder, Restated, pxRefresh # NoSource, pxUpdate = NoSource,
           UNCHANGED <<pxUpdate, pxDatabase, pxArtifacts, pxBrowser, pxImport, pxPreview, pxEdited>>,
           ~Pruned' => ~Pruned, ~Astray' => ~Astray,
           pxFollow' \in {"none", "alarm", "joined", "alarm due", "joined due"},
           \/ pxRefresh' = NoSource
           \/ /\ pxRefresh' \in Refreshes /\ pxRefresh' # NoSource /\ pxRefresh'.step \in {"fetch", "fail"}
              /\ pxRefresh'.applies = pxRefresh.applies /\ pxFollow' = pxFollow
    PROVE  PxValues' /\ Own(pxStored)' /\ PxDownloads' /\ PxUpdates' /\ (~Pruned => PxHas)' /\ (~Astray => PxRoutes)'
<1> USE DEF PxOrder, Restated
<1>1. PxValues'
  BY DEF PxValues
<1>2. Own(pxStored)'
  BY DEF Own
<1>3. PxDownloads'
  BY DEF PxDownloads
<1>4. PxUpdates'
  BY DEF PxUpdates
<1>5. Compiled(pxStored)' = Compiled(pxStored)
  BY DEF Compiled
<1>6. (~Pruned => PxHas)'
  BY <1>5 DEF PxHas
<1>7. (~Astray => PxRoutes)'
  BY <1>5 DEF PxRoutes, PxDownloads
<1>8. QED
  BY <1>1, <1>2, <1>3, <1>4, <1>6, <1>7

LEMMA MarkUpdatingKeeps == ASSUME PxValues, PxFlags, PxOrder, MarkUpdating PROVE PxValues' /\ PxOrder'
<1>1. /\ pxStored \in ProxySettings /\ pxUpdate = NoSource
      /\ pxRefresh \in Refreshes /\ pxRefresh # NoSource /\ pxRefresh.step = "mark"
      /\ UNCHANGED <<pxUpdate, pxDatabase, pxArtifacts, pxBrowser, pxImport, pxPreview, pxEdited, pxFollow>>
      /\ pxFollow' \in {"none", "alarm", "joined", "alarm due", "joined due"}
  BY DEF PxValues, MarkUpdating, RefreshAt, StoresNow
<1>2. pxRefresh' = [pxRefresh EXCEPT !.step = "fetch"]
  BY DEF MarkUpdating
<1>3. /\ pxRefresh' \in Refreshes /\ pxRefresh' # NoSource /\ pxRefresh'.step = "fetch"
      /\ pxRefresh'.url = pxRefresh.url /\ pxRefresh'.applies = pxRefresh.applies
  BY <1>1, <1>2, ProxySourcesNone DEF Refreshes
<1>4. /\ pxCauses \subseteq pxCauses'
      /\ "crossed" \in pxCauses' \/ pxStored.source = NoSource \/ pxStored.source.url = pxRefresh.url
  BY DEF MarkUpdating
<1>5. Restated
  <2>1. CASE pxStored.source = NoSource
    BY <1>1, <2>1 DEF MarkUpdating, StoresNow, Restated, Marked
  <2>2. CASE pxStored.source # NoSource
    <3>1. pxStored' = [pxStored EXCEPT !.source.status = "updating"]
      BY <2>2 DEF MarkUpdating, StoresNow, Marked
    <3>2. /\ pxStored' \in ProxySettings /\ pxStored'.mode = pxStored.mode /\ pxStored'.dirty = pxStored.dirty
          /\ pxStored'.source \in Sources /\ pxStored'.source # NoSource
          /\ pxStored'.source.url = pxStored.source.url
          /\ pxStored'.source.revision = pxStored.source.revision /\ pxStored'.source.status = "updating"
      BY <1>1, <2>2, <3>1, ProxySourcesNone DEF ProxySettings, Sources
    <3>3. QED
      BY <2>2, <3>2 DEF Restated
  <2>3. QED
    BY <2>1, <2>2
<1>6. (~Pruned' => ~Pruned) /\ (~Astray' => ~Astray)
  BY <1>4 DEF Pruned, Astray
<1>7. (~Unmarked => PxMarks)'
  BY <1>1, <1>3, <1>4, <1>5 DEF PxMarks, Unmarked, Restated
<1>8. QED
  BY <1>1, <1>3, <1>5, <1>6, <1>7, RestatedKeeps DEF PxOrder

LEMMA RecordFailureKeeps == ASSUME PxValues, PxFlags, PxOrder, RecordFailure PROVE PxValues' /\ PxOrder'
<1>1. /\ pxStored \in ProxySettings /\ pxUpdate = NoSource
      /\ pxRefresh \in Refreshes /\ pxRefresh # NoSource /\ pxRefresh.step = "fail"
      /\ UNCHANGED <<pxUpdate, pxDatabase, pxArtifacts, pxBrowser, pxImport, pxPreview, pxEdited, pxCauses>>
      /\ pxFollow' = "none" /\ pxRefresh' = NoSource
  BY DEF PxValues, RecordFailure, RefreshAt, StoresNow, pxHistory
<1>2. Restated /\ (StillWanted => pxStored'.source.status = "error") /\ (~StillWanted => pxStored' = pxStored)
  <2>1. CASE ~StillWanted
    <3>1. pxStored' = pxStored
      BY <2>1 DEF RecordFailure, StoresNow, Recorded
    <3>2. QED
      BY <1>1, <2>1, <3>1, SettingsParts DEF Restated, PxOrder, Own
  <2>2. CASE StillWanted
    <3>1. pxStored.source # NoSource
      BY <2>2 DEF StillWanted
    <3>2. pxStored' = [pxStored EXCEPT !.source.status = "error"]
      BY <2>2 DEF RecordFailure, StoresNow, Recorded
    <3>3. QED
      BY <1>1, <2>2, <3>1, <3>2, StatusSet DEF Restated
  <2>3. QED
    BY <2>1, <2>2
<1>3. (~Pruned' => ~Pruned) /\ (~Astray' => ~Astray)
  BY <1>1 DEF Pruned, Astray
<1>4. (~Unmarked => PxMarks)'
  BY <1>1, <1>2 DEF PxMarks, Unmarked, StillWanted, PxOrder
<1>5. QED
  BY <1>1, <1>2, <1>3, <1>4, RestatedKeeps DEF PxOrder

LEMMA SameRevisionKeeps == ASSUME PxValues, PxFlags, PxOrder, SameRevision PROVE PxValues' /\ PxOrder'
<1>1. /\ pxStored \in ProxySettings /\ pxUpdate = NoSource
      /\ pxRefresh \in Refreshes /\ pxRefresh # NoSource /\ pxRefresh.step = "same"
      /\ UNCHANGED <<pxDatabase, pxArtifacts, pxBrowser, pxImport, pxPreview, pxHistory>>
      /\ pxFollow \in {"none", "alarm", "joined", "alarm due", "joined due"}
  BY DEF PxValues, SameRevision, RefreshAt
<1>2. (~Pruned' => ~Pruned) /\ (~Astray' => ~Astray) /\ (~Unmarked' => ~Unmarked)
  BY <1>1 DEF Pruned, Astray, Unmarked, pxHistory
<1>3. CASE ~StillWanted
  <2>1. pxRefresh' = NoSource /\ pxFollow' = "none" /\ UNCHANGED <<pxStored, pxUpdate>>
    BY <1>3 DEF SameRevision
  <2>2. Restated
    BY <1>1, <2>1, SettingsParts DEF Restated, PxOrder, Own
  <2>3. (~Unmarked => PxMarks)'
    BY <1>1, <1>2, <1>3, <2>1 DEF PxMarks, StillWanted, PxOrder
  <2>4. QED
    BY <1>1, <1>2, <2>1, <2>2, <2>3, RestatedKeeps DEF PxOrder, pxHistory
<1>4. CASE StillWanted
  <2> DEFINE checked == Checked
  <2>1. pxStored.source # NoSource
    BY <1>4 DEF StillWanted
  <2>2. UnchangedStatus(pxStored.source) \in {"idle", "ready"}
    BY DEF UnchangedStatus
  <2>3. /\ checked \in ProxySettings /\ checked.mode = pxStored.mode /\ checked.dirty = pxStored.dirty
        /\ checked.source \in Sources /\ checked.source # NoSource
        /\ checked.source.url = pxStored.source.url
        /\ checked.source.revision = pxStored.source.revision
        /\ checked.source.status = UnchangedStatus(pxStored.source)
    <3> USE DEF Checked
    <3>1. UnchangedStatus(pxStored.source) \in {"idle", "updating", "ready", "error"}
      BY <2>2
    <3> HIDE DEF UnchangedStatus
    <3>2. QED
      BY <1>1, <2>1, <3>1, ProxySourcesNone DEF ProxySettings, Sources
  <2>4. \/ /\ Applying("refresh", checked) /\ pxRefresh' = [pxRefresh EXCEPT !.step = "unchanged"]
           /\ UNCHANGED <<pxStored, pxFollow>>
        \/ StoresNow(checked) /\ RefreshDone(checked) /\ UNCHANGED pxUpdate
    BY <1>4 DEF SameRevision
  <2> HIDE DEF checked
  <2>5. checked.source.status = "ready" => checked.source.revision # NoRules
    BY <2>3 DEF UnchangedStatus
  <2>6. CASE /\ Applying("refresh", checked) /\ pxRefresh' = [pxRefresh EXCEPT !.step = "unchanged"]
             /\ UNCHANGED <<pxStored, pxFollow>>
    <3>1. UpdateBegins("refresh", checked.source)
      BY <2>3, <2>6, ApplyingBegins
    <3>2. Own(pxUpdate'.next) /\ (~Pruned => Compiled(pxUpdate'.next) \in pxDatabase \cup {NoRules})
      BY <2>1, <2>3, <2>5, <3>1 DEF UpdateBegins, PxOrder, Own, PxHas, Compiled
    <3>3. /\ pxRefresh' \in Refreshes /\ pxRefresh'.step = "unchanged" /\ pxRefresh'.url = pxRefresh.url
          /\ pxRefresh'.content = pxRefresh.content /\ pxRefresh'.applies = pxRefresh.applies
      BY <1>1, <2>6 DEF Refreshes
    <3>4. checked.source.status # "updating"
      BY <2>2, <2>3
    <3>5. QED
      BY <1>1, <2>3, <2>6, <3>1, <3>2, <3>3, <3>4, BeginsKeeps
  <2>7. CASE StoresNow(checked) /\ RefreshDone(checked) /\ UNCHANGED pxUpdate
    <3>1. pxStored' = checked /\ pxRefresh' = NoSource /\ pxFollow' \in {"none", "joined due", "alarm due"}
      BY <2>7, DoneEffect DEF StoresNow
    <3>2. Restated
      BY <2>1, <2>3, <2>5, <3>1 DEF Restated
    <3>3. PxMarks'
      BY <2>2, <2>3, <3>1 DEF PxMarks
    <3>4. QED
      BY <1>1, <1>2, <2>7, <3>1, <3>2, <3>3, RestatedKeeps DEF PxOrder, pxHistory
  <2>8. QED
    BY <2>4, <2>6, <2>7
<1>5. QED
  BY <1>3, <1>4

LEMMA CommitRefreshKeeps == ASSUME PxValues, PxFlags, PxOrder, CommitRefresh PROVE PxValues' /\ PxOrder'
<1>1. /\ pxStored \in ProxySettings /\ pxUpdate = NoSource
      /\ pxRefresh \in Refreshes /\ pxRefresh # NoSource /\ pxRefresh.step = "commit"
      /\ UNCHANGED <<pxArtifacts, pxBrowser, pxImport, pxPreview>>
      /\ pxFollow \in {"none", "alarm", "joined", "alarm due", "joined due"}
  BY DEF PxValues, CommitRefresh, RefreshAt
<1>2. CASE ~StillWanted
  <2>1. /\ UNCHANGED <<pxStored, pxDatabase, pxUpdate, pxFollow, pxHistory>>
        /\ pxRefresh' = [pxRefresh EXCEPT !.step = "fail"]
    BY <1>1, <1>2 DEF CommitRefresh, RefreshFails
  <2>2. /\ pxRefresh' \in Refreshes /\ pxRefresh' # NoSource /\ pxRefresh'.step = "fail"
        /\ pxRefresh'.applies = pxRefresh.applies /\ pxRefresh'.url = pxRefresh.url
    BY <1>1, <2>1, ProxySourcesNone DEF Refreshes
  <2>3. Restated
    BY <1>1, <2>1, SettingsParts DEF Restated, PxOrder, Own
  <2>4. (~Pruned' => ~Pruned) /\ (~Astray' => ~Astray) /\ (~Unmarked' => ~Unmarked)
    BY <2>1 DEF Pruned, Astray, Unmarked, pxHistory
  <2>5. (~Unmarked => PxMarks)'
    BY <2>1, <2>2, <2>4 DEF PxMarks, PxOrder
  <2>6. QED
    BY <1>1, <2>1, <2>2, <2>3, <2>4, <2>5, RestatedKeeps DEF PxOrder, pxHistory
<1>3. CASE StillWanted
  <2> DEFINE updated == Updated
  <2>1. pxStored.source # NoSource /\ pxStored.source.url = pxRefresh.url
    BY <1>3 DEF StillWanted
  <2>2. pxRefresh.content \in Contents /\ pxRefresh.content.url = pxRefresh.url
    BY <1>1 DEF PxOrder, PxDownloads
  <2>3. /\ updated \in ProxySettings /\ updated.mode = pxStored.mode /\ updated.dirty = TRUE
        /\ updated.source \in Sources /\ updated.source # NoSource
        /\ updated.source.url = pxStored.source.url
        /\ updated.source.revision = pxRefresh.content /\ updated.source.status = "ready"
    BY <1>1, <2>1, <2>2, ProxySourcesNone DEF Updated, ProxySettings, Sources, Revisions
  <2>4. \/ /\ Applying("refresh", updated) /\ pxRefresh' = [pxRefresh EXCEPT !.step = "update"]
           /\ UNCHANGED <<pxStored, pxDatabase, pxFollow, pxHistory>>
        \/ /\ StoresNow(updated) /\ CleansUp(updated, Returned) /\ RefreshDone(updated)
           /\ UNCHANGED <<pxUpdate, pxEdited>> /\ (pxStored.mode = "auto" => pxRefresh.applies = FALSE)
    BY <1>1, <1>3, RefreshParts DEF CommitRefresh
  <2> HIDE DEF updated
  <2>5. CASE /\ Applying("refresh", updated) /\ pxRefresh' = [pxRefresh EXCEPT !.step = "update"]
             /\ UNCHANGED <<pxStored, pxDatabase, pxFollow, pxHistory>>
    <3>1. UpdateBegins("refresh", updated.source)
      BY <2>3, <2>5, ApplyingBegins
    <3>2. Own(pxUpdate'.next) /\ (~Pruned => Compiled(pxUpdate'.next) \in pxDatabase \cup {NoRules})
      BY <1>1, <2>1, <2>2, <2>3, <3>1, ProxySourcesConstants DEF UpdateBegins, PxOrder, Own, PxHas,
         Compiled
    <3>3. /\ pxRefresh' \in Refreshes /\ pxRefresh'.step = "update" /\ pxRefresh'.url = pxRefresh.url
          /\ pxRefresh'.content = pxRefresh.content /\ pxRefresh'.applies = pxRefresh.applies
      BY <1>1, <2>5 DEF Refreshes
    <3>4. QED
      BY <1>1, <2>3, <2>5, <3>1, <3>2, <3>3, BeginsKeeps
  <2>6. CASE /\ StoresNow(updated) /\ CleansUp(updated, Returned) /\ RefreshDone(updated)
             /\ UNCHANGED <<pxUpdate, pxEdited>> /\ (pxStored.mode = "auto" => pxRefresh.applies = FALSE)
    <3>1. /\ pxStored' = updated /\ pxRefresh' = NoSource /\ pxFollow' \in {"none", "joined due", "alarm due"}
          /\ (pxFollow = "alarm" /\ Compiled(updated) # pxRefresh.revision) => pxFollow' \in Due
      BY <2>6, DoneEffect DEF StoresNow
    <3>2. /\ pxDatabase' \subseteq pxDatabase /\ pxCauses \cup Returned \subseteq pxCauses'
          /\ Compiled(updated) \in pxDatabase => Compiled(updated) \in pxDatabase'
          /\ "pruned" \notin pxCauses' =>
               /\ "pruned" \notin pxCauses
               /\ pxImport \in pxDatabase => pxImport \in pxDatabase'
               /\ pxPreview \in pxDatabase => pxPreview \in pxDatabase'
      BY <2>6, CleanUpEffect
    <3>3. Compiled(updated) = pxRefresh.content
      BY <2>3 DEF Compiled
    <3> USE <1>1, <2>6, <3>1 DEF PxOrder
    <3>4. PxValues'
      BY <2>3, <3>2 DEF PxValues
    <3>5. Own(pxStored)' /\ PxDownloads' /\ PxUpdates'
      BY <2>1, <2>2, <2>3, ProxySourcesConstants DEF Own, PxDownloads, PxUpdates
    <3>6. (~Pruned => PxHas)'
      BY <3>2, <3>3 DEF PxHas, Pruned
    <3>7. (~Astray => PxRoutes)'
      <4>1. SUFFICES ASSUME ~Astray', pxStored.mode = "auto", pxFollow' \notin Due PROVE pxBrowser' = Compiled(updated) \/ pxEdited' = TRUE
        BY <2>3 DEF PxRoutes
      <4>2. PxRoutes /\ "returned" \notin pxCauses'
        BY <3>2, <4>1 DEF Astray
      <4>3. pxFollow = "alarm" /\ pxFollow \notin Due
        BY <4>1 DEF PxDownloads
      <4>4. pxRefresh.content = pxRefresh.revision
        BY <3>1, <3>3, <4>1, <4>3
      <4>5. Compiled(pxStored) = pxRefresh.content
        BY <3>2, <4>2, <4>3, <4>4 DEF Returned
      <4>6. QED
        BY <3>3, <4>1, <4>2, <4>3, <4>5 DEF PxRoutes
    <3>8. PxMarks'
      BY <2>3 DEF PxMarks
    <3>9. QED
      BY <3>4, <3>5, <3>6, <3>7, <3>8
  <2>7. QED
    BY <2>4, <2>5, <2>6
<1>4. QED
  BY <1>2, <1>3

\* The writes of the refresh that are rejected, whether they stand or not.
LEMMA CommitFailsKeeps == ASSUME PxValues, PxFlags, PxOrder, CommitFails PROVE PxValues' /\ PxOrder'
<1>1. /\ pxStored \in ProxySettings
      /\ pxRefresh \in Refreshes /\ pxRefresh # NoSource /\ pxRefresh.step \in {"put", "commit"}
      /\ UNCHANGED <<pxDatabase, pxArtifacts, pxBrowser, pxUpdate, pxFollow, pxImport, pxPreview, pxEdited>>
      /\ pxRefresh' = [pxRefresh EXCEPT !.step = "fail"] /\ pxCauses \subseteq pxCauses'
  BY DEF PxValues, CommitFails, RefreshAt, RefreshFails
<1>2. /\ pxRefresh' \in Refreshes /\ pxRefresh' # NoSource /\ pxRefresh'.step = "fail"
      /\ pxRefresh'.applies = pxRefresh.applies /\ pxRefresh'.url = pxRefresh.url
  BY <1>1, ProxySourcesNone DEF Refreshes
<1>3. (~Pruned' => ~Pruned) /\ (~Unmarked' => ~Unmarked) /\ (~Astray' => ~Astray)
  BY <1>1 DEF Pruned, Astray, Unmarked
<1> USE <1>2, <1>3 DEF PxOrder
<1>4. PxDownloads'
  BY <1>1 DEF PxDownloads
<1>5. CASE UNCHANGED <<pxStored, pxCauses>>
  <2> USE <1>1, <1>5
  <2>1. PxValues'
    BY DEF PxValues
  <2>2. Own(pxStored)' /\ PxUpdates'
    BY DEF Own, PxUpdates, Fits
  <2>3. (~Pruned => PxHas)'
    BY DEF PxHas, Compiled
  <2>4. (~Astray => PxRoutes)'
    BY DEF PxRoutes, Compiled
  <2>5. (~Unmarked => PxMarks)'
    BY DEF PxMarks
  <2>6. QED
    BY <1>4, <2>1, <2>2, <2>3, <2>4, <2>5
<1>6. CASE /\ RefreshAt("commit") /\ StillWanted /\ StoresNow(Updated)
           /\ pxCauses' = pxCauses \cup {"half"}
  <2>1. /\ pxRefresh.step = "commit" /\ pxStored' = Updated /\ pxUpdate = NoSource /\ Astray'
        /\ pxStored.source # NoSource /\ pxStored.source.url = pxRefresh.url
    BY <1>6 DEF RefreshAt, StillWanted, StoresNow, Astray
  <2>2. pxRefresh.content \in Contents /\ pxRefresh.content.url = pxRefresh.url
    BY <1>1, <2>1 DEF PxDownloads
  <2>3. /\ Updated \in ProxySettings
        /\ Updated.source \in Sources /\ Updated.source # NoSource
        /\ Updated.source.url = pxStored.source.url
        /\ Updated.source.revision = pxRefresh.content /\ Updated.source.status = "ready"
    BY <1>1, <2>1, <2>2, ProxySourcesNone DEF Updated, ProxySettings, Sources, Revisions
  <2>4. Compiled(Updated) = pxRefresh.content /\ pxRefresh.content # NoRules
    BY <2>2, <2>3, ProxySourcesConstants DEF Compiled
  <2> USE <1>1, <2>1, <2>2, <2>3
  <2>5. PxValues'
    BY DEF PxValues
  <2>6. Own(pxStored)' /\ PxUpdates'
    BY <2>4 DEF Own, PxUpdates
  <2>7. (~Pruned => PxHas)'
    BY <2>4 DEF PxHas
  <2>8. PxMarks'
    BY DEF PxMarks
  <2>9. QED
    BY <1>4, <2>5, <2>6, <2>7, <2>8
<1>7. QED
  BY <1>5, <1>6 DEF CommitFails

LEMMA MarkFailsKeeps == ASSUME PxValues, PxFlags, PxOrder, MarkFails PROVE PxValues' /\ PxOrder'
<1>1. /\ pxStored \in ProxySettings /\ pxUpdate = NoSource
      /\ pxRefresh # NoSource /\ pxRefresh' = NoSource /\ pxFollow' = "none"
      /\ UNCHANGED <<pxUpdate, pxDatabase, pxArtifacts, pxBrowser, pxImport, pxPreview, pxEdited>>
      /\ pxCauses' = pxCauses \cup {"uncaught"}
  BY DEF PxValues, MarkFails, RefreshAt
<1>2. \/ pxStored' = pxStored
      \/ /\ pxStored.source # NoSource
         /\ \E status \in {"idle", "updating", "ready", "error"} :
               /\ pxStored' = [pxStored EXCEPT !.source.status = status]
               /\ status = "ready" => pxStored.source.revision # NoRules
  <2>1. CASE pxStored' = Marked
    BY <2>1 DEF Marked
  <2>2. CASE StillWanted /\ pxStored' = Checked
    BY <2>2 DEF Checked, StillWanted, UnchangedStatus
  <2>3. CASE pxStored' = Recorded
    BY <2>3 DEF Recorded, StillWanted
  <2>4. QED
    BY <2>1, <2>2, <2>3 DEF MarkFails
<1>3. Restated
  <2>1. CASE pxStored' = pxStored
    BY <1>1, <2>1, SettingsParts DEF Restated, PxOrder, Own
  <2>2. CASE pxStored' # pxStored
    <3>1. PICK status \in {"idle", "updating", "ready", "error"} :
            /\ pxStored' = [pxStored EXCEPT !.source.status = status]
            /\ status = "ready" => pxStored.source.revision # NoRules
      BY <1>2, <2>2
    <3>2. pxStored.source # NoSource
      BY <1>2, <2>2
    <3>3. QED
      BY <1>1, <3>1, <3>2, StatusSet DEF Restated
  <2>3. QED
    BY <2>1, <2>2
<1>4. (~Pruned' => ~Pruned) /\ (~Astray' => ~Astray) /\ Unmarked'
  BY <1>1 DEF Pruned, Astray, Unmarked
<1>5. QED
  BY <1>1, <1>3, <1>4, RestatedKeeps DEF PxOrder

LEMMA FollowUpFailsKeeps == ASSUME PxValues, PxFlags, PxOrder, FollowUpFails PROVE PxValues' /\ PxOrder'
<1>1. /\ UNCHANGED <<pxStored, pxDatabase, pxArtifacts, pxBrowser, pxUpdate, pxRefresh, pxImport, pxPreview, pxEdited>>
      /\ pxFollow \in Due /\ pxFollow' = "none" /\ pxCauses' = pxCauses \cup {"half"}
  BY DEF FollowUpFails, Due
<1>2. (~Pruned' => ~Pruned) /\ Astray' /\ (~Unmarked' => ~Unmarked)
  BY <1>1 DEF Pruned, Astray, Unmarked
<1> USE <1>1, <1>2 DEF PxOrder
<1>3. PxValues'
  BY DEF PxValues
<1>4. Own(pxStored)' /\ PxDownloads' /\ PxUpdates'
  BY DEF Own, PxDownloads, PxUpdates, Fits
<1>5. (~Pruned => PxHas)' /\ (~Unmarked => PxMarks)'
  BY DEF PxHas, Compiled, PxMarks
<1>6. QED
  BY <1>3, <1>4, <1>5

\* The steps of the refresh outside the queue.
LEMMA FetchedKeeps == ASSUME PxValues, PxFlags, PxOrder, Fetched PROVE PxValues' /\ PxOrder'
<1>1. /\ pxRefresh \in Refreshes /\ pxRefresh # NoSource /\ pxRefresh.step = "fetch"
      /\ UNCHANGED <<pxStored, pxDatabase, pxArtifacts, pxBrowser, pxUpdate, pxFollow, pxImport, pxPreview, pxHistory>>
  BY DEF PxValues, Fetched, RefreshAt
<1>2. /\ pxRefresh' \in Refreshes /\ pxRefresh' # NoSource /\ pxRefresh'.step \in {"put", "same", "fail"}
      /\ pxRefresh'.url = pxRefresh.url /\ pxRefresh'.applies = pxRefresh.applies
      /\ pxRefresh'.step = "put" => pxRefresh'.content \in Contents /\ pxRefresh'.content.url = pxRefresh.url
  <2>1. CASE \E content \in Contents :
               content.url = pxRefresh.url /\ pxRefresh' = [pxRefresh EXCEPT !.step = "put", !.content = content]
    <3>1. PICK content \in Contents :
            content.url = pxRefresh.url /\ pxRefresh' = [pxRefresh EXCEPT !.step = "put", !.content = content]
      BY <2>1
    <3>2. QED
      BY <1>1, <3>1, ProxySourcesNone DEF Refreshes, Revisions
  <2>2. CASE pxRefresh' = [pxRefresh EXCEPT !.step = "same"]
    BY <1>1, <2>2, ProxySourcesNone DEF Refreshes
  <2>3. CASE pxRefresh' = [pxRefresh EXCEPT !.step = "fail"]
    BY <1>1, <2>3, ProxySourcesNone DEF Refreshes
  <2>4. QED
    BY <2>1, <2>2, <2>3 DEF Fetched
<1> USE <1>1, <1>2 DEF PxOrder, pxHistory
<1>3. PxValues'
  BY DEF PxValues
<1>4. Own(pxStored)' /\ PxUpdates'
  BY DEF Own, PxUpdates, Fits
<1>5. PxDownloads'
  BY DEF PxDownloads
<1>6. (~Pruned => PxHas)'
  BY DEF PxHas, Pruned, Compiled
<1>7. (~Astray => PxRoutes)'
  BY DEF PxRoutes, Astray, Compiled
<1>8. (~Unmarked => PxMarks)'
  BY DEF PxMarks, Unmarked
<1>9. QED
  BY <1>3, <1>4, <1>5, <1>6, <1>7, <1>8

LEMMA PutRevisionKeeps == ASSUME PxValues, PxFlags, PxOrder, PutRevision PROVE PxValues' /\ PxOrder'
<1>1. /\ pxRefresh \in Refreshes /\ pxRefresh # NoSource /\ pxRefresh.step = "put"
      /\ UNCHANGED <<pxStored, pxArtifacts, pxBrowser, pxUpdate, pxFollow, pxImport, pxPreview, pxHistory>>
      /\ pxDatabase' = pxDatabase \cup {pxRefresh.content} /\ pxRefresh.content \in Contents
      /\ pxRefresh' = [pxRefresh EXCEPT !.step = "commit"]
  BY DEF PxValues, PutRevision, RefreshAt, PxOrder, PxDownloads
<1>2. /\ pxRefresh' \in Refreshes /\ pxRefresh' # NoSource /\ pxRefresh'.step = "commit"
      /\ pxRefresh'.url = pxRefresh.url /\ pxRefresh'.applies = pxRefresh.applies
      /\ pxRefresh'.content = pxRefresh.content
  BY <1>1, ProxySourcesNone DEF Refreshes
<1>3. pxDatabase \subseteq pxDatabase' /\ pxRefresh.content \in pxDatabase' /\ pxDatabase' \subseteq Contents
  BY <1>1 DEF PxValues
<1>4. /\ pxRefresh.step = "put" /\ pxRefresh # NoSource
      /\ pxRefresh.content \in Contents /\ pxRefresh.content.url = pxRefresh.url
      /\ UNCHANGED <<pxStored, pxArtifacts, pxBrowser, pxUpdate, pxFollow, pxImport, pxPreview, pxHistory>>
  BY <1>1 DEF PxOrder, PxDownloads
<1> USE <1>2, <1>3, <1>4 DEF PxOrder, pxHistory
<1>5. PxValues'
  BY DEF PxValues
<1>6. Own(pxStored)' /\ PxUpdates'
  BY DEF Own, PxUpdates, Fits
<1>7. PxDownloads'
  BY DEF PxDownloads
<1>8. (~Pruned => PxHas)'
  BY DEF PxHas, Pruned, Compiled
<1>9. (~Astray => PxRoutes)'
  BY DEF PxRoutes, Astray, Compiled
<1>10. (~Unmarked => PxMarks)'
  BY DEF PxMarks, Unmarked
<1>11. QED
  BY <1>5, <1>6, <1>7, <1>8, <1>9, <1>10

LEMMA RefreshKeeps == ASSUME PxValues, PxFlags, PxOrder, Refresh PROVE PxValues' /\ PxOrder'
<1>1. /\ pxStored \in ProxySettings /\ pxStored.source # NoSource /\ pxFollow = "none"
      /\ UNCHANGED <<pxStored, pxDatabase, pxArtifacts, pxBrowser, pxUpdate, pxImport, pxPreview, pxHistory>>
  BY DEF PxValues, Refresh
<1>2. \/ /\ pxRefresh # NoSource /\ pxFollow' \in {"joined", "alarm"} /\ pxRefresh' = pxRefresh
      \/ /\ pxRefresh = NoSource /\ pxFollow' \in {"none", "alarm"}
         /\ pxRefresh' \in Refreshes /\ pxRefresh' # NoSource /\ pxRefresh'.step = "mark"
         /\ pxRefresh'.applies = FALSE => pxFollow' = "alarm"
  <2>1. PICK caller \in {"user", "alarm"} :
         IF Joins
         THEN /\ pxFollow' = IF caller = "user" THEN "joined" ELSE "alarm"
              /\ pxRefresh' = pxRefresh
         ELSE /\ pxFollow' = IF caller = "user" THEN "none" ELSE "alarm"
              /\ pxRefresh' = [step |-> "mark", url |-> pxStored.source.url,
                               revision |-> pxStored.source.revision, content |-> NoRules,
                               applies |-> caller = "user"]
    BY DEF Refresh
  <2>2. CASE Joins
    BY <2>1, <2>2 DEF Joins
  <2>3. CASE ~Joins
    <3>1. pxStored.source.url \in Urls /\ pxStored.source.revision \in Revisions /\ NoRules \in Revisions
      BY <1>1, SettingsParts DEF Revisions
    <3> DEFINE wanted == caller = "user"
    <3>2. /\ pxRefresh' = [step |-> "mark", url |-> pxStored.source.url, revision |-> pxStored.source.revision,
                          content |-> NoRules, applies |-> wanted]
          /\ wanted \in BOOLEAN /\ (wanted = FALSE => caller # "user")
      BY <2>1, <2>3
    <3> HIDE DEF wanted
    <3>3. /\ pxRefresh' \in Refreshes /\ pxRefresh' # NoSource /\ pxRefresh'.step = "mark"
          /\ pxRefresh'.applies = wanted
      BY <3>1, <3>2, ProxySourcesNone DEF Refreshes
    <3>4. pxRefresh = NoSource /\ pxFollow' = (IF caller = "user" THEN "none" ELSE "alarm")
      BY <2>1, <2>3 DEF Joins
    <3>5. QED
      BY <3>2, <3>3, <3>4
  <2>4. QED
    BY <2>2, <2>3
<1> USE <1>1, <1>2 DEF PxOrder, pxHistory
<1>3. PxValues'
  BY DEF PxValues
<1>4. Own(pxStored)'
  BY DEF Own
<1>5. PxUpdates'
  BY DEF PxUpdates, Fits, Own
<1>6. PxDownloads'
  BY DEF PxDownloads, Due
<1>7. (~Pruned => PxHas)'
  BY DEF PxHas, Pruned, Compiled
<1>8. (~Astray => PxRoutes)'
  BY DEF PxRoutes, Astray, Compiled, Due
<1>9. (~Unmarked => PxMarks)'
  BY DEF PxMarks, Unmarked
<1>10. QED
  BY <1>3, <1>4, <1>5, <1>6, <1>7, <1>8, <1>9

-----------------------------------------------------------------------------
(* Imports, previews and the end of the worker *)

LEMMA ImportBeginsKeeps == ASSUME PxValues, PxFlags, PxOrder, ImportBegins PROVE PxValues' /\ PxOrder'
<1>1. PICK content \in Contents : pxImport' = content /\ pxDatabase' = pxDatabase \cup {content}
  BY DEF ImportBegins
<1>2. UNCHANGED <<pxStored, pxArtifacts, pxBrowser, pxUpdate, pxRefresh, pxFollow, pxPreview, pxHistory>>
  BY DEF ImportBegins
<1>3. /\ pxImport' \in Contents /\ pxImport' \in pxDatabase' /\ pxDatabase \subseteq pxDatabase'
      /\ pxDatabase' \subseteq Contents
  BY <1>1 DEF PxValues
<1> USE <1>2, <1>3 DEF PxOrder, pxHistory
<1>4. PxValues'
  BY DEF PxValues, Revisions
<1>5. Own(pxStored)' /\ PxUpdates' /\ PxDownloads'
  BY DEF Own, PxUpdates, Fits, PxDownloads
<1>6. (~Pruned => PxHas)'
  BY DEF PxHas, Pruned, Compiled
<1>7. (~Astray => PxRoutes)' /\ (~Unmarked => PxMarks)'
  BY DEF PxRoutes, Astray, Compiled, PxMarks, Unmarked
<1>8. QED
  BY <1>4, <1>5, <1>6, <1>7

LEMMA PreviewKeeps == ASSUME PxValues, PxFlags, PxOrder, PreviewBegins \/ PreviewCompiles PROVE PxValues' /\ PxOrder'
<1>1. /\ UNCHANGED <<pxStored, pxDatabase, pxBrowser, pxUpdate, pxRefresh, pxFollow, pxImport, pxHistory>>
      /\ pxStored \in ProxySettings /\ NoRules \in Revisions
  BY DEF PreviewBegins, PreviewCompiles, PxValues, Revisions
<1>2. Compiled(pxStored) \in Revisions
  BY <1>1, SettingsParts
<1>3. \/ pxPreview' = Compiled(pxStored) /\ pxArtifacts' = pxArtifacts
      \/ pxPreview' = NoRules /\ pxArtifacts' = [pxArtifacts EXCEPT ![pxPreview] = ArtifactOf(pxPreview)]
  BY DEF PreviewBegins, PreviewCompiles
<1>4. pxPreview \in Revisions
  BY DEF PxValues
<1>5. /\ ArtifactOf(pxPreview) \in Revisions
      /\ ~Pruned => ArtifactOf(pxPreview) = pxPreview
  BY <1>4, ArtifactIs DEF PxOrder, PxHas
<1> USE <1>1 DEF PxOrder, pxHistory
<1>6. PxValues'
  BY <1>2, <1>3, <1>4, <1>5 DEF PxValues
<1>7. Own(pxStored)' /\ PxUpdates' /\ PxDownloads'
  BY DEF Own, PxUpdates, Fits, PxDownloads
<1>8. (~Pruned => PxHas)'
  <2>1. \A revision \in Revisions : ~Pruned => pxArtifacts'[revision] \in {Direct, revision}
    BY <1>3, <1>4, <1>5 DEF PxHas, PxValues
  <2>2. QED
    BY <1>3, <2>1 DEF PxHas, Pruned, Compiled
<1>9. (~Astray => PxRoutes)' /\ (~Unmarked => PxMarks)'
  BY DEF PxRoutes, Astray, Compiled, PxMarks, Unmarked
<1>10. QED
  BY <1>6, <1>7, <1>8, <1>9

LEMMA PxKillKeeps == ASSUME PxValues, PxFlags, PxOrder, PxKill PROVE PxValues' /\ PxOrder'
<1>1. /\ UNCHANGED <<pxStored, pxDatabase, pxArtifacts, pxBrowser>>
      /\ pxUpdate' = NoSource /\ pxRefresh' = NoSource /\ pxFollow' = "none"
      /\ pxImport' = NoRules /\ pxPreview' = NoRules /\ pxCauses' = pxCauses \cup {"killed"}
  BY DEF PxKill
<1>2. (~Pruned' => ~Pruned) /\ Astray' /\ Unmarked'
  BY <1>1 DEF Pruned, Astray, Unmarked
<1> USE <1>1, <1>2 DEF PxOrder
<1>3. PxValues'
  BY DEF PxValues, Revisions
<1>4. Own(pxStored)'
  BY DEF Own
<1>5. PxUpdates' /\ PxDownloads'
  BY DEF PxUpdates, PxDownloads
<1>6. (~Pruned => PxHas)'
  BY DEF PxHas, Compiled
<1>7. QED
  BY <1>3, <1>4, <1>5, <1>6

-----------------------------------------------------------------------------
(* The theorem *)

LEMMA PxFlagsKept == ASSUME PxFlags, [PxSteps]_pxVars PROVE PxFlags'
<1> USE DEF PxFlags, pxVars, pxHistory
<1>1. pxCauses' \subseteq {"half", "pruned", "crossed", "returned", "uncaught", "killed"}
  <2>1. CASE pxCauses' = pxCauses
    BY <2>1
  <2>2. CASE SetFails \/ StoreFails \/ PxKill \/ CommitFails \/ MarkFails \/ FollowUpFails
    BY <2>2 DEF SetFails, StoreFails, PxKill, CommitFails, MarkFails, FollowUpFails
  <2>3. CASE MarkUpdating
    BY <2>3 DEF MarkUpdating
  <2>4. ASSUME NEW settings, NEW causes, CleansUp(settings, causes), causes \subseteq {"crossed", "returned"}
        PROVE  pxCauses' \subseteq {"half", "pruned", "crossed", "returned", "uncaught", "killed"}
    BY <2>4 DEF CleansUp
  <2>5. CASE CommitRefresh
    <3>1. Returned \subseteq {"crossed", "returned"}
      BY DEF Returned
    <3>2. pxCauses' = pxCauses \/ \E settings : CleansUp(settings, Returned)
      BY <2>5 DEF CommitRefresh
    <3>3. QED
      BY <2>1, <2>4, <3>1, <3>2
  <2>6. CASE StoreUpdate
    <3>1. \/ pxCauses' = pxCauses
          \/ CleansUp(pxUpdate.next, {})
          \/ CleansUp(pxUpdate.next, IF pxRefresh # NoSource THEN {"crossed"} ELSE {})
      BY <2>6 DEF StoreUpdate
    <3>2. QED
      BY <2>1, <3>1 DEF CleansUp
  <2>7. CASE RemoveSource
    <3>1. pxCauses' = pxCauses \/ \E settings : CleansUp(settings, {})
      BY <2>7 DEF RemoveSource
    <3>2. QED
      BY <2>1, <2>4, <3>1
  <2>8. pxCauses' = pxCauses \/ SetFails \/ StoreFails \/ PxKill \/ CommitFails \/ MarkFails \/ FollowUpFails \/ MarkUpdating \/ StoreUpdate
          \/ CommitRefresh \/ RemoveSource
    BY DEF PxSteps, PxWorks, CompileUpdate, SetBrowser, ImportStores, PreviewCompiles,
       Fetched, PutRevision, SameRevision, RecordFailure, FollowUp,
       SaveSource, ApplyRules, SwitchProxy, ImportBegins, PreviewBegins, Refresh
  <2>9. QED
    BY <2>1, <2>2, <2>3, <2>5, <2>6, <2>7, <2>8
<1>2. pxEdited' \in BOOLEAN
  BY DEF PxSteps, PxWorks, CompileUpdate, SetBrowser, StoreUpdate, ImportStores, PreviewCompiles,
     MarkUpdating,
     Fetched, PutRevision, CommitRefresh, SameRevision, RecordFailure, FollowUp, SetFails, StoreFails, PxKill,
     CommitFails, MarkFails, FollowUpFails,
     SaveSource, RemoveSource, ApplyRules, SwitchProxy, ImportBegins, PreviewBegins, Refresh
<1>3. QED
  BY <1>1, <1>2

LEMMA PxStarts == PxInit => PxInv
<1> SUFFICES ASSUME PxInit PROVE PxInv
  OBVIOUS
<1> DEFINE first == CHOOSE content \in Contents : TRUE
<1>1. first \in Contents
  BY ProxySourcesConstants
<1>2. first.url \in Urls
  BY <1>1 DEF Urls
<1>3. /\ pxStored = [source |-> [url |-> first.url, revision |-> first, status |-> "ready"],
                     mode |-> "auto", dirty |-> FALSE]
      /\ pxDatabase = {first} /\ pxBrowser = first
      /\ pxArtifacts = [revision \in Revisions |-> IF revision = first THEN first ELSE Direct]
      /\ pxUpdate = NoSource /\ pxRefresh = NoSource /\ pxFollow = "none"
      /\ pxImport = NoRules /\ pxPreview = NoRules
  BY DEF PxInit
<1> HIDE DEF first
<1>4. /\ pxStored \in ProxySettings /\ pxStored.source.url = first.url /\ pxStored.source.revision = first
      /\ pxStored.source.status = "ready" /\ pxStored.source \in Sources
  BY <1>1, <1>2, <1>3 DEF ProxySettings, Sources, Revisions
<1>5. pxStored.source # NoSource /\ first # NoRules
  BY <1>1, <1>4, ProxySourcesNone, ProxySourcesConstants
<1>6. PxValues
  BY <1>1, <1>3, <1>4 DEF PxValues, Revisions
<1>7. PxFlags
  BY DEF PxInit, PxFlags
<1>8. PxCounts
  BY ProxySourcesConstants DEF PxInit, PxCounts
<1>9. Own(pxStored) /\ PxDownloads /\ PxUpdates /\ PxMarks
  BY <1>3, <1>4, <1>5 DEF Own, PxDownloads, PxUpdates, PxMarks
<1>10. PxHas /\ PxRoutes
  BY <1>3, <1>4, <1>5 DEF PxHas, PxRoutes, Compiled
<1>11. QED
  BY <1>6, <1>7, <1>8, <1>9, <1>10 DEF PxInv, PxOrder

LEMMA PxStep == PxInv /\ [PxSteps]_pxVars => PxInv'
<1> SUFFICES ASSUME PxInv, [PxSteps]_pxVars PROVE PxInv'
  OBVIOUS
<1>1. PxFlags' /\ PxCounts'
  BY PxFlagsKept, PxCountsKept DEF PxInv
<1>2. PxValues' /\ PxOrder'
  <2>1. CASE UNCHANGED pxVars
    <3> USE <2>1 DEF pxVars, pxWork, pxHistory, PxInv, PxOrder
    <3>1. PxValues'
      BY DEF PxValues
    <3>2. Own(pxStored)' /\ PxDownloads' /\ PxUpdates'
      BY DEF Own, PxDownloads, PxUpdates, Fits
    <3>3. (~Pruned => PxHas)'
      BY DEF Pruned, PxHas, Compiled
    <3>4. (~Astray => PxRoutes)' /\ (~Unmarked => PxMarks)'
      BY DEF Astray, PxRoutes, Compiled, Unmarked, PxMarks
    <3>5. QED
      BY <3>1, <3>2, <3>3, <3>4
  <2>2. CASE PxWorks
    BY <2>2, CompileUpdateKeeps, SetBrowserKeeps, StoreUpdateKeeps, ImportStoresKeeps, PreviewKeeps,
       MarkUpdatingKeeps, FetchedKeeps, PutRevisionKeeps, CommitRefreshKeeps, SameRevisionKeeps,
       RecordFailureKeeps, FollowUpKeeps DEF PxWorks, PxInv
  <2>3. CASE SetFails \/ StoreFails \/ PxKill \/ CommitFails \/ MarkFails \/ FollowUpFails
    BY <2>3, SetFailsKeeps, StoreFailsKeeps, PxKillKeeps, CommitFailsKeeps, MarkFailsKeeps,
       FollowUpFailsKeeps DEF PxInv
  <2>4. CASE SaveSource \/ RemoveSource \/ ApplyRules \/ SwitchProxy \/ ImportBegins \/ PreviewBegins \/ Refresh
    BY <2>4, SaveSourceKeeps, RemoveSourceKeeps, ApplyRulesKeeps, SwitchProxyKeeps, ImportBeginsKeeps,
       PreviewKeeps, RefreshKeeps DEF PxInv
  <2>5. QED
    BY <2>1, <2>2, <2>3, <2>4 DEF PxSteps
<1>3. QED
  BY <1>1, <1>2 DEF PxInv

\* Through downloads, edits, imports and failures that interleave in any number, a source
\* has its own rules, the browser routes by the stored revision, that revision is in the
\* database, and a source shows as updating only while it is.
THEOREM SourcesAreKept == PxSpec => []SourcesSound
<1>1. PxInv => SourcesSound
  <2> SUFFICES ASSUME PxInv PROVE SourcesSound
    OBVIOUS
  <2> USE DEF PxInv, PxOrder
  <2>1. PxTypeOK
    BY DEF PxTypeOK, PxValues, PxFlags, PxCounts, Own, Revisions
  <2>2. OwnRules
    BY DEF OwnRules, Own
  <2>3. AutoIsApplied
    BY DEF AutoIsApplied, PxRoutes, Astray, Due, PxFlags
  <2>4. RevisionKept
    BY DEF RevisionKept, PxHas, Pruned
  <2>5. UpdatingIsUnderWay
    BY DEF UpdatingIsUnderWay, PxMarks, Unmarked
  <2>6. QED
    BY <2>1, <2>2, <2>3, <2>4, <2>5 DEF SourcesSound
<1>2. QED
  BY <1>1, PxStarts, PxStep, PTL DEF PxSpec

(***************************************************************************)
(* Containers and proofs of test identities                                *)
(***************************************************************************)

(* Numbers *)

Less == {pair \in Nat \X Nat : pair[1] < pair[2]}

LEMMA LessWellFounded == IsWellFoundedOn(Less, Nat)
  BY NatLessThanWellFounded, Zenon DEF OpToRel, Less

\* What is used in place of an induction: of the numbers for which something fails, one is the least.
LEMMA LeastNumber ==
    ASSUME NEW numbers \in SUBSET Nat, numbers # {}
    PROVE  \E x \in numbers : \A y \in numbers : x <= y
<1>1. PICK x \in numbers : \A y \in numbers : <<y, x>> \notin Less
  BY LessWellFounded, WFMin
<1>2. ASSUME NEW y \in numbers PROVE x <= y
  <2>1. <<y, x>> \in Nat \X Nat /\ <<y, x>> \notin Less /\ x \in Nat /\ y \in Nat
    BY <1>1
  <2>2. ~(y < x)
    BY <2>1 DEF Less
  <2>3. QED
    BY <2>1, <2>2
<1>3. QED
  BY <1>2

LEMMA GreatestNumber ==
    ASSUME NEW n \in Nat, NEW numbers \in SUBSET (0 .. n), numbers # {}
    PROVE  \E x \in numbers : \A y \in numbers : y <= x
<1> DEFINE distances == {n - x : x \in numbers}
<1>1. distances \in SUBSET Nat /\ distances # {}
  <2>1. \A x \in numbers : n - x \in Nat
    OBVIOUS
  <2>2. PICK x \in numbers : TRUE
    OBVIOUS
  <2>3. n - x \in distances
    OBVIOUS
  <2>4. QED
    BY <2>1, <2>3
<1>2. PICK d \in distances : \A e \in distances : d <= e
  BY <1>1, LeastNumber
<1>3. PICK x \in numbers : d = n - x
  BY <1>2
<1>4. \A y \in numbers : n - x <= n - y
  BY <1>2, <1>3
<1>5. QED
  BY <1>4

-----------------------------------------------------------------------------
(* Containers *)

LEMMA UnmadeLeast ==
    ASSUME NEW made, Unmade(made) # {}
    PROVE  NextContainer(made) \in Containers \ (Foreign \cup made)
<1>1. Unmade(made) \in SUBSET Nat
  BY ContainerIdentitiesConstants DEF Unmade
<1>2. \E x \in Unmade(made) : \A y \in Unmade(made) : x <= y
  BY <1>1, LeastNumber
<1>3. NextContainer(made) \in Unmade(made)
  BY <1>2 DEF NextContainer
<1>4. QED
  BY <1>3 DEF Unmade

CiStages == {"none", "create", "store", "tab", "look", "undo", "rollback", "clear", "close",
             "drop", "forget", "read", "query", "retain", "over"}
CiRecord(made) ==
    [kind : {"none", "open", "remove", "list"}, step : CiStages,
     container : {containers \in SUBSET made : Cardinality(containers) <= 1},
     read : SUBSET made, found : SUBSET Containers, looks : 0 .. MaxLooks]

CiWorld ==
    /\ ciMade \subseteq Containers \ Foreign /\ ciLost \subseteq ciMade /\ ciManaged \subseteq ciMade
    /\ Foreign \subseteq ciExisting /\ ciExisting \subseteq Foreign \cup ciMade
    /\ Foreign \subseteq ciTabs /\ ciTabs \subseteq Foreign \cup ciMade
    /\ Cardinality(ciManaged) <= MaxManaged
    /\ ciFaults \in 0 .. MaxCiFaults /\ ciKilled \in BOOLEAN

\* What a call has read, and then writes, is within the limit; also with a container that it
\* makes.
WritesFit(call) ==
    /\ Cardinality(call.read) <= MaxManaged
    /\ call.step \in {"create", "store"} => Cardinality(call.read) < MaxManaged

\* When a call takes an entry from the list the container is gone, or known as lost.
GoneFirst(call, existing, lost) ==
    call.step \in {"rollback", "forget"} => call.container \cap existing \subseteq lost

CallShape(call) ==
    /\ call.kind = "none" => call = NoCiCall
    /\ call.step \in {"read", "query", "retain"} => call.container = {}
    /\ call.step \in {"create", "store", "tab"} => call.looks = 0
    /\ call.step = "look" => call.looks < MaxLooks

\* IdentitiesClearable, of each container.
Clearable ==
    \A x \in ciExisting \cap ciMade :
        \/ x \in ciManaged \cup ciLost
        \/ \E c \in CiCalls : ciCall[c].step = "store" /\ x \in ciCall[c].container

CiInv ==
    /\ CiWorld /\ Clearable
    /\ ciCall \in [CiCalls -> CiRecord(ciMade)]
    /\ \A c \in CiCalls :
         /\ WritesFit(ciCall[c]) /\ CallShape(ciCall[c])
         /\ GoneFirst(ciCall[c], ciExisting, ciLost)

\* A call goes on: what it leaves is enough for the invariant, whatever the others do.
LEMMA CallGoes ==
    ASSUME CiInv, NEW c \in CiCalls, NEW call \in CiRecord(ciMade'),
           ciCall' = [ciCall EXCEPT ![c] = call],
           CiWorld', ciMade \subseteq ciMade', ciLost \subseteq ciLost',
           WritesFit(call), CallShape(call), GoneFirst(call, ciExisting', ciLost'),
           \A x \in ciExisting' \ ciExisting : x \notin ciMade /\ call.step = "store" /\ x \in call.container,
           ciManaged \cap ciExisting' \subseteq ciManaged' \cup ciLost',
           ciCall[c].step = "store" => call.step = "store" \/ ciCall[c].container \subseteq ciManaged' \cup ciLost',
           call.step = "store" => ciCall[c].step # "store"
    PROVE  CiInv'
<1>1. /\ ciCall \in [CiCalls -> CiRecord(ciMade)]
      /\ \A d \in CiCalls : WritesFit(ciCall[d]) /\ CallShape(ciCall[d])
                            /\ GoneFirst(ciCall[d], ciExisting, ciLost)
      /\ CiWorld /\ Clearable
  BY DEF CiInv
<1>2. ciCall'[c] = call /\ \A d \in CiCalls \ {c} : ciCall'[d] = ciCall[d]
  BY <1>1
<1>3. CiRecord(ciMade) \subseteq CiRecord(ciMade')
  BY DEF CiRecord
<1>4. ciCall' \in [CiCalls -> CiRecord(ciMade')]
  BY <1>1, <1>3
<1>5. ASSUME NEW d \in CiCalls
      PROVE  WritesFit(ciCall'[d]) /\ CallShape(ciCall'[d]) /\ GoneFirst(ciCall'[d], ciExisting', ciLost')
  <2>1. CASE d = c
    BY <2>1, <1>2
  <2>2. CASE d # c
    <3>1. ciCall'[d] = ciCall[d] /\ ciCall[d].container \subseteq ciMade
      BY <2>2, <1>1, <1>2 DEF CiRecord
    <3>2. GoneFirst(ciCall[d], ciExisting', ciLost')
      BY <1>1, <3>1 DEF GoneFirst
    <3>3. QED
      BY <1>1, <3>1, <3>2
  <2>3. QED
    BY <2>1, <2>2
<1>6. Clearable'
  <2> SUFFICES ASSUME NEW x \in ciExisting', x \in ciMade'
               PROVE  \/ x \in ciManaged' \cup ciLost'
                      \/ \E d \in CiCalls : ciCall'[d].step = "store" /\ x \in ciCall'[d].container
    BY DEF Clearable
  <2>1. CASE x \notin ciExisting
    BY <2>1, <1>2
  <2>2. CASE x \in ciExisting
    <3>1. x \in ciMade
      BY <2>2, <1>1 DEF CiWorld
    <3>2. CASE x \in ciManaged \cup ciLost
      BY <3>2
    <3>3. ASSUME NEW d \in CiCalls, ciCall[d].step = "store", x \in ciCall[d].container
          PROVE  \/ x \in ciManaged' \cup ciLost'
                 \/ ciCall'[d].step = "store" /\ x \in ciCall'[d].container
      BY <3>3, <1>2
    <3>4. QED
      BY <2>2, <3>1, <3>2, <3>3, <1>1 DEF Clearable
  <2>3. QED
    BY <2>1, <2>2
<1>7. QED
  BY <1>4, <1>5, <1>6 DEF CiInv

\* Nothing is made, and nothing leaves the list.
LEMMA WorldGoes ==
    ASSUME CiInv, UNCHANGED <<ciMade, ciCall, ciManaged, ciLost, ciFaults, ciKilled>>,
           NEW x \in ciMade,
           ciExisting' = ciExisting \/ ciExisting' = ciExisting \ {x},
           ciTabs' = ciTabs \ {x}
    PROVE  CiInv'
<1>1. x \notin Foreign
  BY DEF CiInv, CiWorld
<1>2. CiWorld'
  BY <1>1 DEF CiInv, CiWorld
<1>3. Clearable'
  BY DEF CiInv, Clearable
<1>4. ASSUME NEW d \in CiCalls PROVE GoneFirst(ciCall[d], ciExisting', ciLost)
  BY DEF CiInv, GoneFirst
<1>5. QED
  BY <1>2, <1>3, <1>4 DEF CiInv

LEMMA NoContainers == Cardinality({}) = 0 /\ {} \in {containers \in SUBSET {} : Cardinality(containers) <= 1}
  BY FS_EmptySet

LEMMA CallOver ==
    ASSUME CiInv, NEW made, NEW existing, NEW lost, NEW which \in {"open", "remove", "list"}, NEW call,
           call = [NoCiCall EXCEPT !.kind = which, !.step = "over"]
    PROVE  call \in CiRecord(made) /\ call.step = "over" /\ WritesFit(call) /\ CallShape(call)
           /\ GoneFirst(call, existing, lost)
<1>1. call = [kind |-> which, step |-> "over", container |-> {}, read |-> {}, found |-> {}, looks |-> 0]
  BY DEF NoCiCall
<1>2. call \in CiRecord(made)
  BY <1>1, NoContainers, ContainerIdentitiesConstants DEF CiRecord, CiStages
<1>3. WritesFit(call)
  <2> DEFINE over == [kind |-> which, step |-> "over", container |-> {}, read |-> {}, found |-> {}, looks |-> 0]
  <2>0. over.read = {} /\ over.step = "over"
    OBVIOUS
  <2>1. call.read = {} /\ call.step = "over"
    BY <1>1, <2>0, Zenon
  <2>2. Cardinality(call.read) = 0
    BY <2>1, NoContainers
  <2>3. QED
    BY <2>1, <2>2, ContainerIdentitiesConstants DEF WritesFit
<1>4. QED
  BY <1>1, <1>2, <1>3 DEF CallShape, GoneFirst

\* A call that is under way, as one record.
LEMMA CallUnderWay ==
    ASSUME CiInv, NEW c \in CiCalls, ciCall[c].step # "none"
    PROVE  ciCall[c] \in CiRecord(ciMade) /\ ciCall[c].kind \in {"open", "remove", "list"}
<1>1. ciCall[c] \in CiRecord(ciMade) /\ CallShape(ciCall[c])
  BY DEF CiInv
<1>2. ciCall[c].kind # "none"
  BY <1>1 DEF CallShape, NoCiCall
<1>3. QED
  BY <1>1, <1>2 DEF CiRecord

LEMMA CallEnds ==
    ASSUME CiInv, NEW c \in CiCalls, ciCall[c].step # "none", Ends(c), CiWorld',
           UNCHANGED ciMade, ciExisting' \subseteq ciExisting, ciLost \subseteq ciLost',
           ciManaged \cap ciExisting' \subseteq ciManaged' \cup ciLost',
           ciCall[c].step = "store" => ciCall[c].container \subseteq ciManaged' \cup ciLost'
    PROVE  CiInv'
<1>1. PICK call : call = [NoCiCall EXCEPT !.kind = ciCall[c].kind, !.step = "over"]
  OBVIOUS
<1>2. ciCall' = [ciCall EXCEPT ![c] = call]
  BY <1>1, Zenon DEF Ends
<1>3. /\ call \in CiRecord(ciMade') /\ call.step = "over" /\ WritesFit(call) /\ CallShape(call)
      /\ GoneFirst(call, ciExisting', ciLost')
  BY <1>1, CallUnderWay, CallOver
<1>4. QED
  BY <1>2, <1>3, CallGoes

\* The browser or the storage fails, and nobody else's entry is touched.
LEMMA CallFails ==
    ASSUME CiInv, NEW c \in CiCalls, ciCall[c].step # "none", CiFails(c),
           ciLost \subseteq ciLost', ciLost' \subseteq ciMade,
           ciCall[c].step = "store" => ciCall[c].container \subseteq ciManaged \cup ciLost'
    PROVE  CiInv'
<1>1. Ends(c) /\ ciFaults' \in 0 .. MaxCiFaults
      /\ UNCHANGED <<ciExisting, ciTabs, ciManaged, ciMade, ciKilled>>
  BY ContainerIdentitiesConstants DEF CiFails, CiFault, CiInv, CiWorld
<1>2. CiWorld'
  BY <1>1 DEF CiInv, CiWorld
<1>3. QED
  BY <1>1, <1>2, CallEnds

\* What a call is once it has gone on to another stage.
LEMMA CallSteps ==
    ASSUME CiInv, NEW c \in CiCalls, NEW step \in CiStages, NEW call,
           call = [ciCall[c] EXCEPT !.step = step]
    PROVE  /\ call \in CiRecord(ciMade) /\ call.step = step /\ call.container = ciCall[c].container
           /\ call.read = ciCall[c].read /\ call.kind = ciCall[c].kind /\ call.looks = ciCall[c].looks
           /\ WritesFit(call) \/ step \in {"create", "store"}
<1>1. ciCall[c] \in CiRecord(ciMade) /\ WritesFit(ciCall[c])
  BY DEF CiInv
<1>2. call \in CiRecord(ciMade)
  BY <1>1 DEF CiRecord
<1>3. /\ call.step = step /\ call.container = ciCall[c].container
      /\ call.read = ciCall[c].read /\ call.kind = ciCall[c].kind /\ call.looks = ciCall[c].looks
  BY <1>1 DEF CiRecord
<1>4. QED
  BY <1>1, <1>2, <1>3 DEF WritesFit

LEMMA SmallerList ==
    ASSUME CiInv, NEW list \in SUBSET ciMade, Cardinality(list) <= MaxManaged,
           NEW smaller, smaller \subseteq list
    PROVE  Cardinality(smaller) <= MaxManaged
<1>1. IsFiniteSet(list)
  BY FS_Subset, ContainerIdentitiesConstants DEF CiInv, CiWorld
<1>2. Cardinality(smaller) <= Cardinality(list) /\ Cardinality(smaller) \in Nat /\ Cardinality(list) \in Nat
  BY <1>1, FS_Subset, FS_CardinalityType
<1>3. QED
  BY <1>2, ContainerIdentitiesConstants

-----------------------------------------------------------------------------
(* A container is opened *)

LEMMA OpenIdentityKeeps == ASSUME CiInv, NEW c \in CiCalls, OpenIdentity(c) PROVE CiInv'
<1>1. ciCall[c] = NoCiCall /\ Cardinality(ciManaged) < MaxManaged
  BY DEF OpenIdentity, CiInv, CallShape
<1>2. PICK call : call = [ciCall[c] EXCEPT !.kind = "open", !.step = "create", !.read = ciManaged]
  OBVIOUS
<1>3. ciCall' = [ciCall EXCEPT ![c] = call]
  BY <1>2 DEF OpenIdentity, CiInv
<1>4. call = [kind |-> "open", step |-> "create", container |-> {}, read |-> ciManaged, found |-> {}, looks |-> 0]
  <2>1. call = [NoCiCall EXCEPT !.kind = "open", !.step = "create", !.read = ciManaged]
    BY <1>1, <1>2, Zenon
  <2>2. QED
    BY <2>1 DEF NoCiCall
<1>5. UNCHANGED <<ciExisting, ciTabs, ciManaged, ciMade, ciLost, ciFaults, ciKilled>> /\ CiWorld'
  BY DEF OpenIdentity, NoCiFault, CiInv, CiWorld
<1>6. call \in CiRecord(ciMade')
  BY <1>4, <1>5, NoContainers, ContainerIdentitiesConstants DEF CiRecord, CiStages, CiInv, CiWorld
<1>7. Cardinality(ciManaged) <= MaxManaged
  BY DEF CiInv, CiWorld
<1>8. WritesFit(call) /\ CallShape(call) /\ GoneFirst(call, ciExisting', ciLost') /\ call.step = "create"
  BY <1>1, <1>4, <1>7 DEF WritesFit, CallShape, GoneFirst
<1>9. ciCall[c].step = "none" /\ ciExisting' \ ciExisting = {}
  BY <1>1, <1>5 DEF NoCiCall
<1>10. QED
  BY <1>3, <1>5, <1>6, <1>8, <1>9, CallGoes

LEMMA MakesContainerKeeps == ASSUME CiInv, NEW c \in CiCalls, MakesContainer(c) PROVE CiInv'
<1>1. ciCall[c].step = "create"
  BY DEF MakesContainer, At
<1>2. CASE CiFails(c) /\ UNCHANGED ciLost
  BY <1>1, <1>2, CallFails DEF CiInv, CiWorld
<1>3. CASE ~(CiFails(c) /\ UNCHANGED ciLost)
  <2>1. PICK x : x = NextContainer(ciMade)
    OBVIOUS
  <2>2. /\ x \in Containers \ (Foreign \cup ciMade)
        /\ ciMade' = ciMade \cup {x} /\ ciExisting' = ciExisting \cup {x}
        /\ UNCHANGED <<ciTabs, ciManaged, ciLost, ciFaults, ciKilled>>
    BY <1>3, <2>1, UnmadeLeast DEF MakesContainer, NoCiFault
  <2>3. PICK call : call = [ciCall[c] EXCEPT !.step = "store", !.container = {x}]
    OBVIOUS
  <2>4. ciCall' = [ciCall EXCEPT ![c] = call]
    BY <1>3, <2>1, <2>3 DEF MakesContainer, CiInv
  <2>5. ciCall[c] \in CiRecord(ciMade) /\ WritesFit(ciCall[c]) /\ CallShape(ciCall[c])
    BY DEF CiInv
  <2>6. Cardinality({x}) = 1
    BY FS_Singleton
  <2>7. /\ call \in CiRecord(ciMade') /\ call.step = "store" /\ call.container = {x}
        /\ call.read = ciCall[c].read /\ call.looks = ciCall[c].looks /\ call.kind = ciCall[c].kind
    <3>1. {x} \in SUBSET ciMade' /\ Cardinality({x}) <= 1 /\ SUBSET ciMade \subseteq SUBSET ciMade'
      BY <2>2, <2>6
    <3>2. QED
      BY <2>3, <2>5, <3>1 DEF CiRecord, CiStages
  <2>8. WritesFit(call) /\ CallShape(call) /\ GoneFirst(call, ciExisting', ciLost')
    BY <1>1, <2>5, <2>7, CallUnderWay DEF WritesFit, CallShape, GoneFirst
  <2>9. CiWorld'
    BY <2>2 DEF CiInv, CiWorld
  <2>10. \A y \in ciExisting' \ ciExisting : y \notin ciMade /\ y \in call.container
    BY <2>2, <2>7
  <2>11. QED
    BY <1>1, <2>2, <2>4, <2>7, <2>8, <2>9, <2>10, CallGoes
<1>4. QED
  BY <1>2, <1>3

LEMMA StoresEntryKeeps == ASSUME CiInv, NEW c \in CiCalls, StoresEntry(c) PROVE CiInv'
<1>1. ciCall[c].step = "store"
  BY DEF StoresEntry, At
<1>2. ciCall[c] \in CiRecord(ciMade) /\ WritesFit(ciCall[c]) /\ CallShape(ciCall[c])
  BY DEF CiInv
<1>3. CASE CiFails(c) /\ ciLost' = ciLost \cup IdentityOf(c)
  <2>1. ciCall[c].container \subseteq ciMade /\ ciLost \subseteq ciMade
    BY <1>2 DEF CiRecord, CiInv, CiWorld
  <2>2. QED
    BY <1>1, <1>3, <2>1, CallFails DEF IdentityOf
<1>4. CASE ~(CiFails(c) /\ ciLost' = ciLost \cup IdentityOf(c))
  <2>1. /\ ciManaged' = ciCall[c].read \cup ciCall[c].container
        /\ ciLost' = ciLost \cup ((ciManaged \ ciManaged') \ ciCall[c].container)
        /\ UNCHANGED <<ciExisting, ciTabs, ciMade, ciFaults, ciKilled>>
        /\ Goes(c, "tab")
    BY <1>4 DEF StoresEntry, WriteManaged, IdentityOf, NoCiFault
  <2>2. PICK call : call = [ciCall[c] EXCEPT !.step = "tab"]
    OBVIOUS
  <2>3. ciCall' = [ciCall EXCEPT ![c] = call]
    BY <2>1, <2>2 DEF Goes, CiInv
  <2>4. /\ call \in CiRecord(ciMade') /\ call.step = "tab" /\ call.looks = ciCall[c].looks
        /\ call.kind = ciCall[c].kind /\ WritesFit(call)
    BY <2>1, <2>2, CallSteps DEF CiStages
  <2>5. CallShape(call) /\ GoneFirst(call, ciExisting', ciLost')
    BY <1>1, <1>2, <2>4, CallUnderWay DEF CallShape, GoneFirst
  <2>6. Cardinality(ciManaged') <= MaxManaged
    <3>1. IsFiniteSet(ciCall[c].read) /\ IsFiniteSet(ciCall[c].container)
      BY <1>2, FS_Subset, ContainerIdentitiesConstants DEF CiRecord, CiInv, CiWorld
    <3>2. /\ Cardinality(ciCall[c].read) \in Nat /\ Cardinality(ciCall[c].container) \in Nat
          /\ Cardinality(ciCall[c].read) < MaxManaged /\ Cardinality(ciCall[c].container) <= 1
      BY <1>1, <1>2, <3>1, FS_CardinalityType DEF WritesFit, CiRecord
    <3>3. /\ IsFiniteSet(ciManaged') /\ Cardinality(ciManaged') \in Nat
          /\ Cardinality(ciCall[c].read \cap ciCall[c].container) \in Nat
          /\ Cardinality(ciManaged') = Cardinality(ciCall[c].read) + Cardinality(ciCall[c].container)
                 - Cardinality(ciCall[c].read \cap ciCall[c].container)
      BY <2>1, <3>1, FS_Union, FS_Intersection, FS_CardinalityType
    <3>4. QED
      BY <3>2, <3>3, ContainerIdentitiesConstants
  <2>7. CiWorld' /\ ciLost \subseteq ciLost'
    BY <1>2, <2>1, <2>6 DEF CiInv, CiWorld, CiRecord
  <2>8. QED
    BY <2>1, <2>3, <2>4, <2>5, <2>7, CallGoes
<1>5. QED
  BY <1>3, <1>4

LEMMA OpensTabKeeps == ASSUME CiInv, NEW c \in CiCalls, OpensTab(c) PROVE CiInv'
<1>1. ciCall[c].step = "tab" /\ UNCHANGED <<ciExisting, ciManaged, ciMade, ciLost>>
  BY DEF OpensTab, At
<1>2. ciCall[c] \in CiRecord(ciMade) /\ CallShape(ciCall[c])
  BY DEF CiInv
<1>3. CiWorld' /\ \E step \in {"look", "clear", "undo"} : Goes(c, step)
  <2>1. ciCall[c].container \subseteq ciMade
    BY <1>2 DEF CiRecord
  <2>2. ciFaults' \in 0 .. MaxCiFaults
    BY ContainerIdentitiesConstants DEF OpensTab, NoCiFault, CiFault, CiInv, CiWorld
  <2>3. ciTabs' = ciTabs \cup ciCall[c].container \/ ciTabs' = ciTabs
    BY DEF OpensTab, IdentityOf
  <2>4. ciKilled' = ciKilled
    BY DEF OpensTab, NoCiFault
  <2>5. CiWorld'
    BY <1>1, <2>1, <2>2, <2>3, <2>4 DEF CiInv, CiWorld
  <2>6. QED
    BY <2>5 DEF OpensTab
<1>4. PICK step \in {"look", "clear", "undo"} : Goes(c, step)
  BY <1>3
<1>5. PICK call : call = [ciCall[c] EXCEPT !.step = step]
  OBVIOUS
<1>6. ciCall' = [ciCall EXCEPT ![c] = call]
  BY <1>4, <1>5 DEF Goes, CiInv
<1>7. /\ call \in CiRecord(ciMade') /\ call.step = step /\ call.looks = ciCall[c].looks
      /\ call.kind = ciCall[c].kind /\ WritesFit(call)
  BY <1>1, <1>5, CallSteps DEF CiStages
<1>8. CallShape(call) /\ GoneFirst(call, ciExisting', ciLost')
  BY <1>1, <1>2, <1>7, CallUnderWay, ContainerIdentitiesConstants DEF CallShape, GoneFirst
<1>9. QED
  BY <1>1, <1>3, <1>6, <1>7, <1>8, CallGoes

LEMMA UndoesContainerKeeps == ASSUME CiInv, NEW c \in CiCalls, UndoesContainer(c) PROVE CiInv'
<1>1. ciCall[c].step = "undo" /\ UNCHANGED <<ciTabs, ciManaged, ciMade, ciKilled>> /\ Goes(c, "rollback")
  BY DEF UndoesContainer, At
<1>2. ciCall[c] \in CiRecord(ciMade) /\ ciCall[c].container \subseteq ciMade
  BY DEF CiInv, CiRecord
<1>3. \/ ciExisting' = ciExisting \ ciCall[c].container /\ ciLost' = ciLost
      \/ ciExisting' = ciExisting /\ ciLost' = ciLost \cup ciCall[c].container
  BY DEF UndoesContainer, IdentityOf
<1>4. ciFaults' \in 0 .. MaxCiFaults
  BY ContainerIdentitiesConstants DEF UndoesContainer, CiFault, CiInv, CiWorld
<1>5. CiWorld' /\ ciExisting' \subseteq ciExisting /\ ciLost \subseteq ciLost'
  BY <1>1, <1>2, <1>3, <1>4 DEF CiInv, CiWorld
<1>6. PICK call : call = [ciCall[c] EXCEPT !.step = "rollback"]
  OBVIOUS
<1>7. ciCall' = [ciCall EXCEPT ![c] = call]
  BY <1>1, <1>6 DEF Goes, CiInv
<1>8. /\ call \in CiRecord(ciMade') /\ call.step = "rollback" /\ call.container = ciCall[c].container
      /\ call.kind = ciCall[c].kind /\ WritesFit(call)
  BY <1>1, <1>6, CallSteps DEF CiStages
<1>9. CallShape(call) /\ GoneFirst(call, ciExisting', ciLost')
  BY <1>1, <1>3, <1>8, CallUnderWay DEF CallShape, GoneFirst
<1>10. QED
  BY <1>1, <1>5, <1>7, <1>8, <1>9, CallGoes

\* The entry is taken away by what the call has read.
LEMMA WritesLess ==
    ASSUME CiInv, NEW c \in CiCalls, ciCall[c].step \in {"rollback", "forget", "retain"},
           NEW list, list \subseteq ciCall[c].read, WriteManaged(c, list), Ends(c), NoCiFault,
           UNCHANGED <<ciExisting, ciTabs, ciMade>>
    PROVE  CiInv'
<1>1. /\ ciCall[c] \in CiRecord(ciMade) /\ WritesFit(ciCall[c])
      /\ CallShape(ciCall[c]) /\ GoneFirst(ciCall[c], ciExisting, ciLost)
  BY DEF CiInv
<1>2. ciManaged' = list /\ ciLost' = ciLost \cup ((ciManaged \ list) \ ciCall[c].container)
  BY DEF WriteManaged, IdentityOf
<1>3. ciCall[c].read \in SUBSET ciMade /\ Cardinality(ciCall[c].read) <= MaxManaged
  BY <1>1 DEF CiRecord, WritesFit
<1>4. Cardinality(list) <= MaxManaged
  BY <1>3, SmallerList
<1>5. CiWorld'
  BY <1>2, <1>3, <1>4 DEF CiInv, CiWorld, NoCiFault
<1>6. ciManaged \cap ciExisting' \subseteq ciManaged' \cup ciLost'
  BY <1>1, <1>2 DEF GoneFirst, CallShape
<1>7. QED
  BY <1>2, <1>5, <1>6, CallEnds

LEMMA RollsBackKeeps == ASSUME CiInv, NEW c \in CiCalls, RollsBack(c) PROVE CiInv'
<1>1. ciCall[c].step = "rollback"
  BY DEF RollsBack, At
<1>2. CASE CiFails(c) /\ UNCHANGED ciLost
  BY <1>1, <1>2, CallFails DEF CiInv, CiWorld
<1>3. CASE ~(CiFails(c) /\ UNCHANGED ciLost)
  BY <1>1, <1>3, WritesLess DEF RollsBack
<1>4. QED
  BY <1>2, <1>3

LEMMA LooksAtPageKeeps == ASSUME CiInv, NEW c \in CiCalls, LooksAtPage(c) PROVE CiInv'
<1>1. /\ ciCall[c].step = "look"
      /\ UNCHANGED <<ciExisting, ciTabs, ciManaged, ciMade, ciLost, ciFaults, ciKilled>>
  BY DEF LooksAtPage, At, NoCiFault
<1>2. ciCall[c] \in CiRecord(ciMade) /\ CallShape(ciCall[c]) /\ WritesFit(ciCall[c])
  BY DEF CiInv
<1>3. CiWorld'
  BY <1>1 DEF CiInv, CiWorld
<1>4. CASE Ends(c)
  BY <1>1, <1>3, <1>4, CallEnds
<1>5. CASE ~Ends(c)
  <2>1. PICK step : step = IF ciCall[c].looks + 1 < MaxLooks THEN "look" ELSE "clear"
    OBVIOUS
  <2>2. PICK call : call = [ciCall[c] EXCEPT !.looks = @ + 1, !.step = step]
    OBVIOUS
  <2>3. ciCall' = [ciCall EXCEPT ![c] = call]
    BY <1>5, <2>1, <2>2 DEF LooksAtPage, CiInv
  <2>4. ciCall[c].looks \in 0 .. MaxLooks /\ ciCall[c].looks < MaxLooks
    BY <1>1, <1>2 DEF CallShape, CiRecord
  <2>5. ciCall[c].looks + 1 \in 0 .. MaxLooks /\ step \in {"look", "clear"}
        /\ (step = "look" => ciCall[c].looks + 1 < MaxLooks)
    BY <2>1, <2>4, ContainerIdentitiesConstants
  <2>6. /\ call \in CiRecord(ciMade) /\ call.step = step /\ call.looks = ciCall[c].looks + 1
        /\ call.read = ciCall[c].read /\ call.kind = ciCall[c].kind
    BY <1>2, <2>2, <2>5 DEF CiRecord, CiStages
  <2>7. WritesFit(call) /\ CallShape(call) /\ GoneFirst(call, ciExisting', ciLost')
    BY <1>1, <1>2, <2>5, <2>6, CallUnderWay DEF WritesFit, CallShape, GoneFirst
  <2>8. QED
    BY <1>1, <1>3, <2>3, <2>5, <2>6, <2>7, CallGoes
<1>6. QED
  BY <1>4, <1>5

-----------------------------------------------------------------------------
(* A container is cleared, and the containers are listed *)

LEMMA ClearIdentityKeeps == ASSUME CiInv, NEW c \in CiCalls, ClearIdentity(c) PROVE CiInv'
<1>1. UNCHANGED <<ciExisting, ciTabs, ciManaged, ciMade, ciLost, ciFaults, ciKilled>> /\ CiWorld'
  BY DEF ClearIdentity, NoCiFault, CiInv, CiWorld
<1>2. ciCall[c] \in CiRecord(ciMade) /\ CallShape(ciCall[c]) /\ WritesFit(ciCall[c])
  BY DEF CiInv
<1>3. Cardinality(ciManaged) <= MaxManaged /\ ciManaged \subseteq ciMade /\ ciMade' = ciMade
  BY <1>1 DEF CiInv, CiWorld
<1>4. ASSUME NEW x \in Containers, ciCall[c].kind = "none", x \in ciManaged,
             ciCall' = [ciCall EXCEPT ![c].kind = "remove", ![c].step = "close",
                                      ![c].container = {x}, ![c].read = ciManaged]
      PROVE  CiInv'
  <2>1. PICK call : call = [ciCall[c] EXCEPT !.kind = "remove", !.step = "close",
                                             !.container = {x}, !.read = ciManaged]
    OBVIOUS
  <2>2. ciCall' = [ciCall EXCEPT ![c] = call]
    BY <1>4, <2>1 DEF CiInv
  <2>3. {x} \in SUBSET ciMade /\ Cardinality({x}) <= 1
    BY <1>3, <1>4, FS_Singleton
  <2>4. call \in CiRecord(ciMade) /\ call.step = "close" /\ call.kind = "remove" /\ call.read = ciManaged
    BY <1>2, <1>3, <2>1, <2>3 DEF CiRecord, CiStages
  <2>5. ciCall[c].step = "none"
    BY <1>2, <1>4 DEF CallShape, NoCiCall
  <2>6. WritesFit(call) /\ CallShape(call) /\ GoneFirst(call, ciExisting', ciLost')
    BY <1>3, <2>4 DEF WritesFit, CallShape, GoneFirst
  <2>7. QED
    BY <1>1, <2>2, <2>4, <2>5, <2>6, CallGoes
<1>5. CASE At(c, "clear") /\ Ends(c)
  BY <1>1, <1>5, CallEnds DEF At
<1>6. CASE At(c, "clear") /\ ciCall' = [ciCall EXCEPT ![c].step = "close", ![c].read = ciManaged]
  <2>1. PICK call : call = [ciCall[c] EXCEPT !.step = "close", !.read = ciManaged]
    OBVIOUS
  <2>2. ciCall' = [ciCall EXCEPT ![c] = call]
    BY <1>6, <2>1 DEF CiInv
  <2>3. /\ call \in CiRecord(ciMade) /\ call.step = "close" /\ call.kind = ciCall[c].kind
        /\ call.read = ciManaged
    BY <1>2, <1>3, <2>1 DEF CiRecord, CiStages
  <2>4. ciCall[c].step = "clear"
    BY <1>6 DEF At
  <2>5. WritesFit(call) /\ CallShape(call) /\ GoneFirst(call, ciExisting', ciLost')
    BY <1>3, <2>3, <2>4, CallUnderWay DEF WritesFit, CallShape, GoneFirst
  <2>6. QED
    BY <1>1, <2>2, <2>3, <2>4, <2>5, CallGoes
<1>7. QED
  BY <1>4, <1>5, <1>6 DEF ClearIdentity

LEMMA ClosesTabsKeeps == ASSUME CiInv, NEW c \in CiCalls, ClosesTabs(c) PROVE CiInv'
<1>1. ciCall[c].step = "close" /\ ciLost' = ciLost
  BY DEF ClosesTabs, At
<1>2. CASE CiFails(c)
  BY <1>1, <1>2, CallFails DEF CiInv, CiWorld
<1>3. CASE ~CiFails(c)
  <2>1. /\ ciTabs' = ciTabs \ ciCall[c].container /\ Goes(c, "drop")
        /\ UNCHANGED <<ciExisting, ciManaged, ciMade, ciFaults, ciKilled>>
    BY <1>3 DEF ClosesTabs, IdentityOf, NoCiFault
  <2>2. ciCall[c].container \subseteq ciMade
    BY DEF CiInv, CiRecord
  <2>3. CiWorld'
    BY <1>1, <2>1, <2>2 DEF CiInv, CiWorld
  <2>4. PICK call : call = [ciCall[c] EXCEPT !.step = "drop"]
    OBVIOUS
  <2>5. ciCall' = [ciCall EXCEPT ![c] = call]
    BY <2>1, <2>4 DEF Goes, CiInv
  <2>6. call \in CiRecord(ciMade') /\ call.step = "drop" /\ call.kind = ciCall[c].kind /\ WritesFit(call)
    BY <2>1, <2>4, CallSteps DEF CiStages
  <2>7. CallShape(call) /\ GoneFirst(call, ciExisting', ciLost')
    BY <1>1, <2>6, CallUnderWay DEF CallShape, GoneFirst
  <2>8. QED
    BY <1>1, <2>1, <2>3, <2>5, <2>6, <2>7, CallGoes
<1>4. QED
  BY <1>2, <1>3

LEMMA DropsContainerKeeps == ASSUME CiInv, NEW c \in CiCalls, DropsContainer(c) PROVE CiInv'
<1>1. ciCall[c].step = "drop" /\ ciLost' = ciLost
  BY DEF DropsContainer, At
<1>2. CASE CiFails(c)
  BY <1>1, <1>2, CallFails DEF CiInv, CiWorld
<1>3. CASE Ends(c) /\ NoCiFault /\ UNCHANGED <<ciExisting, ciTabs, ciManaged, ciMade>>
  <2>1. CiWorld'
    BY <1>1, <1>3 DEF CiInv, CiWorld, NoCiFault
  <2>2. QED
    BY <1>1, <1>3, <2>1, CallEnds
<1>4. CASE ciExisting' = ciExisting \ IdentityOf(c) /\ Goes(c, "forget")
           /\ NoCiFault /\ UNCHANGED <<ciTabs, ciManaged, ciMade>>
  <2>1. ciCall[c].container \subseteq ciMade
    BY DEF CiInv, CiRecord
  <2>2. CiWorld' /\ ciExisting' = ciExisting \ ciCall[c].container
    BY <1>1, <1>4, <2>1 DEF CiInv, CiWorld, IdentityOf, NoCiFault
  <2>3. PICK call : call = [ciCall[c] EXCEPT !.step = "forget"]
    OBVIOUS
  <2>4. ciCall' = [ciCall EXCEPT ![c] = call]
    BY <1>4, <2>3 DEF Goes, CiInv
  <2>5. /\ call \in CiRecord(ciMade') /\ call.step = "forget" /\ call.kind = ciCall[c].kind
        /\ call.container = ciCall[c].container /\ WritesFit(call)
    BY <1>4, <2>3, CallSteps DEF CiStages
  <2>6. CallShape(call) /\ GoneFirst(call, ciExisting', ciLost')
    BY <1>1, <2>2, <2>5, CallUnderWay DEF CallShape, GoneFirst
  <2>7. QED
    BY <1>1, <1>4, <2>2, <2>4, <2>5, <2>6, CallGoes
<1>5. QED
  BY <1>2, <1>3, <1>4 DEF DropsContainer

LEMMA ForgetsEntryKeeps == ASSUME CiInv, NEW c \in CiCalls, ForgetsEntry(c) PROVE CiInv'
<1>1. ciCall[c].step = "forget"
  BY DEF ForgetsEntry, At
<1>2. CASE CiFails(c) /\ UNCHANGED ciLost
  BY <1>1, <1>2, CallFails DEF CiInv, CiWorld
<1>3. CASE ~(CiFails(c) /\ UNCHANGED ciLost)
  BY <1>1, <1>3, WritesLess DEF ForgetsEntry
<1>4. QED
  BY <1>2, <1>3

\* A list is answered by the browser or by the storage.
LEMMA ListGoes ==
    ASSUME CiInv, NEW c \in CiCalls, ciCall[c] = NoCiCall \/ ciCall[c].step \in {"read", "query"},
           UNCHANGED <<ciExisting, ciTabs, ciManaged, ciMade, ciLost, ciFaults, ciKilled>>,
           NEW step \in {"read", "query", "retain"},
           NEW read, read = ciManaged \/ read = ciCall[c].read,
           NEW found, found = ciExisting \/ found = ciCall[c].found,
           ciCall' = [ciCall EXCEPT ![c] = [ciCall[c] EXCEPT !.kind = "list", !.step = step,
                                                             !.read = read, !.found = found]]
    PROVE  CiInv'
<1>1. ciCall[c] \in CiRecord(ciMade) /\ CallShape(ciCall[c]) /\ WritesFit(ciCall[c])
  BY DEF CiInv
<1>2. /\ Cardinality(ciManaged) <= MaxManaged /\ ciManaged \subseteq ciMade /\ ciMade' = ciMade
      /\ ciExisting \subseteq Containers /\ CiWorld'
  BY ContainerIdentitiesConstants DEF CiInv, CiWorld
<1>3. ciCall[c].container = {} /\ ciCall[c].step # "store"
  BY <1>1 DEF CallShape, NoCiCall
<1>4. PICK call : call = [ciCall[c] EXCEPT !.kind = "list", !.step = step, !.read = read, !.found = found]
  OBVIOUS
<1>5. /\ call \in CiRecord(ciMade) /\ call.step = step /\ call.kind = "list" /\ call.read = read
      /\ call.container = {}
  BY <1>1, <1>2, <1>3, <1>4 DEF CiRecord, CiStages
<1>6. Cardinality(read) <= MaxManaged
  BY <1>1, <1>2 DEF WritesFit
<1>7. WritesFit(call) /\ CallShape(call) /\ GoneFirst(call, ciExisting', ciLost')
  BY <1>5, <1>6 DEF WritesFit, CallShape, GoneFirst
<1>8. ciCall' = [ciCall EXCEPT ![c] = call]
  BY <1>4
<1>9. QED
  BY <1>2, <1>3, <1>5, <1>7, <1>8, CallGoes

LEMMA ListIdentitiesKeeps == ASSUME CiInv, NEW c \in CiCalls, ListIdentities(c) PROVE CiInv'
<1>1. UNCHANGED <<ciExisting, ciTabs, ciManaged, ciMade, ciLost, ciFaults, ciKilled>>
  BY DEF ListIdentities, NoCiFault
<1>2. ciCall[c] \in CiRecord(ciMade) /\ (ciCall[c] = NoCiCall \/ ciCall[c].step \in {"read", "query"})
  BY DEF ListIdentities, At, CiInv, CallShape
<1>3. CASE ciCall' = [ciCall EXCEPT ![c].kind = "list", ![c].found = ciExisting,
                                    ![c].step = IF At(c, "query") THEN "retain" ELSE "read"]
  <2>1. PICK step \in {"read", "retain"} : step = IF At(c, "query") THEN "retain" ELSE "read"
    OBVIOUS
  <2>2. ciCall' = [ciCall EXCEPT ![c] = [ciCall[c] EXCEPT !.kind = "list", !.step = step,
                                              !.read = ciCall[c].read, !.found = ciExisting]]
    BY <1>2, <1>3, <2>1 DEF CiInv, CiRecord
  <2>3. QED
    BY <1>1, <1>2, <2>2, ListGoes
<1>4. CASE ciCall' = [ciCall EXCEPT ![c].kind = "list", ![c].read = ciManaged,
                                    ![c].step = IF At(c, "read") THEN "retain" ELSE "query"]
  <2>1. PICK step \in {"query", "retain"} : step = IF At(c, "read") THEN "retain" ELSE "query"
    OBVIOUS
  <2>2. ciCall' = [ciCall EXCEPT ![c] = [ciCall[c] EXCEPT !.kind = "list", !.step = step,
                                              !.read = ciManaged, !.found = ciCall[c].found]]
    BY <1>2, <1>4, <2>1 DEF CiInv, CiRecord
  <2>3. QED
    BY <1>1, <1>2, <2>2, ListGoes
<1>5. QED
  BY <1>3, <1>4 DEF ListIdentities

LEMMA RetainsEntriesKeeps == ASSUME CiInv, NEW c \in CiCalls, RetainsEntries(c) PROVE CiInv'
<1>1. ciCall[c].step = "retain"
  BY DEF RetainsEntries, At
<1>2. CASE CiFails(c) /\ UNCHANGED ciLost
  BY <1>1, <1>2, CallFails DEF CiInv, CiWorld
<1>3. CASE Ends(c) /\ NoCiFault /\ UNCHANGED <<ciExisting, ciTabs, ciManaged, ciMade, ciLost>>
  <2>1. CiWorld'
    BY <1>3 DEF CiInv, CiWorld, NoCiFault
  <2>2. QED
    BY <1>1, <1>3, <2>1, CallEnds
<1>4. CASE /\ WriteManaged(c, ciCall[c].read \cap ciCall[c].found) /\ Ends(c)
           /\ NoCiFault /\ UNCHANGED <<ciExisting, ciTabs, ciMade>>
  BY <1>1, <1>4, WritesLess
<1>5. QED
  BY <1>2, <1>3, <1>4 DEF RetainsEntries

-----------------------------------------------------------------------------

LEMMA CiTerminatedKeeps == ASSUME CiInv, CiTerminated PROVE CiInv'
<1>1. /\ UNCHANGED <<ciExisting, ciTabs, ciManaged, ciMade, ciFaults>> /\ ciKilled' = TRUE
      /\ ciCall' = [c \in CiCalls |-> IF ciCall[c].step = "none" THEN ciCall[c]
                                      ELSE [NoCiCall EXCEPT !.kind = ciCall[c].kind, !.step = "over"]]
  BY DEF CiTerminated, At
<1>2. ciLost' = ciLost \cup UNION {ciCall[c].container : c \in {d \in CiCalls : ciCall[d].step = "store"}}
  BY DEF CiTerminated, At, IdentityOf
<1>3. \A c \in CiCalls : ciCall[c].container \subseteq ciMade
  BY DEF CiInv, CiRecord
<1>4. CiWorld' /\ ciLost \subseteq ciLost'
  BY <1>1, <1>2, <1>3 DEF CiInv, CiWorld
<1>5. Clearable'
  BY <1>1, <1>2 DEF CiInv, Clearable
<1>6. ASSUME NEW c \in CiCalls
      PROVE  /\ ciCall'[c] \in CiRecord(ciMade) /\ WritesFit(ciCall'[c]) /\ CallShape(ciCall'[c])
             /\ GoneFirst(ciCall'[c], ciExisting', ciLost')
  <2>1. CASE ciCall[c].step = "none"
    <3>1. ciCall'[c] = ciCall[c]
      BY <1>1, <2>1
    <3>2. QED
      BY <1>1, <1>4, <2>1, <3>1 DEF CiInv, GoneFirst
  <2>2. CASE ciCall[c].step # "none"
    <3>1. ciCall'[c] = [NoCiCall EXCEPT !.kind = ciCall[c].kind, !.step = "over"]
      BY <1>1, <2>2
    <3>2. QED
      BY <2>2, <3>1, CallUnderWay, CallOver
  <2>3. QED
    BY <2>1, <2>2
<1>7. ciCall' \in [CiCalls -> CiRecord(ciMade')]
  BY <1>1, <1>6
<1>8. QED
  BY <1>4, <1>5, <1>6, <1>7 DEF CiInv

LEMMA CiStarts == CiInit => CiInv
<1> SUFFICES ASSUME CiInit PROVE CiInv
  OBVIOUS
<1>1. ciManaged \subseteq Containers \ Foreign /\ Cardinality(ciManaged) <= MaxManaged
  <2>1. CASE ciManaged = {}
    BY <2>1, FS_EmptySet, ContainerIdentitiesConstants
  <2>2. CASE Unmade({}) # {} /\ ciManaged = {NextContainer({})}
    <3>1. NextContainer({}) \in Containers \ Foreign
      BY <2>2, UnmadeLeast
    <3>2. Cardinality(ciManaged) = 1
      BY <2>2, FS_Singleton
    <3>3. QED
      BY <2>2, <3>1, <3>2, ContainerIdentitiesConstants
  <2>3. QED
    BY <2>1, <2>2 DEF CiInit
<1>2. CiWorld
  <2>1. /\ ciMade = ciManaged /\ ciLost = {} /\ ciFaults = 0 /\ ciKilled = FALSE
        /\ ciExisting = Foreign \cup ciManaged /\ ciTabs = Foreign \cup ciManaged
    BY DEF CiInit
  <2>2. 0 \in 0 .. MaxCiFaults
    BY ContainerIdentitiesConstants
  <2>3. QED
    BY <1>1, <2>1, <2>2 DEF CiWorld
<1>3. Clearable
  BY DEF CiInit, Clearable
<1>4. NoCiCall \in CiRecord(ciMade)
  BY FS_EmptySet, ContainerIdentitiesConstants DEF NoCiCall, CiRecord, CiStages
<1>5. WritesFit(NoCiCall) /\ CallShape(NoCiCall) /\ GoneFirst(NoCiCall, ciExisting, ciLost)
  <2>1. NoCiCall.read = {} /\ NoCiCall.step = "none" /\ NoCiCall.kind = "none"
    BY DEF NoCiCall
  <2>2. Cardinality(NoCiCall.read) = 0
    BY <2>1, FS_EmptySet
  <2>3. QED
    BY <2>1, <2>2, ContainerIdentitiesConstants DEF WritesFit, CallShape, GoneFirst
<1>6. QED
  BY <1>2, <1>3, <1>4, <1>5 DEF CiInv, CiInit

LEMMA CiGoes == CiInv /\ [CiSteps]_ciVars => CiInv'
<1> SUFFICES ASSUME CiInv, [CiSteps]_ciVars PROVE CiInv'
  OBVIOUS
<1>1. CASE CiWorks
  BY <1>1, MakesContainerKeeps, StoresEntryKeeps, OpensTabKeeps, UndoesContainerKeeps, RollsBackKeeps,
     LooksAtPageKeeps, ClearIdentityKeeps, ClosesTabsKeeps, DropsContainerKeeps, ForgetsEntryKeeps,
     ListIdentitiesKeeps, RetainsEntriesKeeps DEF CiWorks
<1>2. ASSUME NEW c \in CiCalls, OpenIdentity(c) \/ ClearIdentity(c) \/ ListIdentities(c) PROVE CiInv'
  BY <1>2, OpenIdentityKeeps, ClearIdentityKeeps, ListIdentitiesKeeps
<1>3. ASSUME NEW x \in Containers, UserRemovesContainer(x) \/ UserClosesTab(x) PROVE CiInv'
  BY <1>3, WorldGoes DEF UserRemovesContainer, UserClosesTab, NoCiFault
<1>4. CASE CiTerminated
  BY <1>4, CiTerminatedKeeps
<1>5. CASE UNCHANGED ciVars
  BY <1>5 DEF ciVars, CiInv, CiWorld, Clearable
<1>6. QED
  BY <1>1, <1>2, <1>3, <1>4, <1>5 DEF CiSteps

LEMMA CiHolds == CiInv => ContainersSound
<1> SUFFICES ASSUME CiInv PROVE ContainersSound
  OBVIOUS
<1>1. CiTypeOK
  <2>1. ASSUME NEW c \in CiCalls
        PROVE  ciCall[c] \in
                 [kind : {"none", "open", "remove", "list"},
                  step : {"none", "create", "store", "tab", "look", "undo", "rollback", "clear", "close",
                          "drop", "forget", "read", "query", "retain", "over"},
                  container : {S \in SUBSET Containers : Cardinality(S) <= 1},
                  read : SUBSET (Containers \ Foreign), found : SUBSET Containers, looks : 0 .. MaxLooks]
    BY DEF CiInv, CiWorld, CiRecord, CiStages
  <2>2. QED
    BY <2>1, ContainerIdentitiesConstants DEF CiTypeOK, CiInv, CiWorld
<1>2. IdentitiesClearable
  BY DEF CiInv, Clearable, IdentitiesClearable, IdentityOf, At
<1>3. QED
  BY <1>1, <1>2 DEF ContainersSound, ForeignKept, ListBounded, CiInv, CiWorld

-----------------------------------------------------------------------------
(* The table of proofs *)

\* Bytes of a table, as the function that it applies at its end.
SumsOf(table, sums) ==
    sums = [n \in 0 .. Len(table) |-> IF n = 0 THEN 0 ELSE sums[n - 1] + table[n].bytes]

LEMMA BytesOf ==
    ASSUME NEW table, NEW some, SumsOf(table, some)
    PROVE  \E sums : SumsOf(table, sums) /\ Bytes(table) = sums[Len(table)]
<1> DEFINE sums == CHOOSE f : f = [n \in 0 .. Len(table) |-> IF n = 0 THEN 0 ELSE f[n - 1] + table[n].bytes]
<1>1. Bytes(table) = sums[Len(table)]
  BY Zenon DEF Bytes
<1>2. SumsOf(table, sums)
  BY Zenon DEF SumsOf
<1>3. QED
  BY <1>1, <1>2, Zenon

LEMMA BytesOfNone == Bytes(<<>>) = 0
<1> DEFINE none == [n \in 0 .. 0 |-> 0]
<1>1. SumsOf(<<>>, none)
  BY DEF SumsOf
<1>2. PICK sums : SumsOf(<<>>, sums) /\ Bytes(<<>>) = sums[0]
  <2> HIDE DEF none
  <2>1. Len(<<>>) = 0
    OBVIOUS
  <2>2. QED
    BY <1>1, <2>1, BytesOf
<1>3. QED
  BY <1>2 DEF SumsOf

LEMMA BytesOfOne == ASSUME NEW p, p.bytes \in Nat PROVE Bytes(<<p>>) = p.bytes
<1> DEFINE one == [n \in 0 .. 1 |-> IF n = 0 THEN 0 ELSE p.bytes]
<1>1. SumsOf(<<p>>, one)
  BY DEF SumsOf
<1>2. PICK sums : SumsOf(<<p>>, sums) /\ Bytes(<<p>>) = sums[1]
  <2> HIDE DEF one
  <2>1. Len(<<p>>) = 1
    OBVIOUS
  <2>2. QED
    BY <1>1, <2>1, BytesOf
<1>3. sums[0] = 0 /\ sums[1] = sums[0] + p.bytes
  BY <1>2 DEF SumsOf
<1>4. QED
  BY <1>2, <1>3

\* Without, likewise: what is kept of the first m proofs.
KeptOf(table, dropped, m, kept) ==
    kept = [n \in 0 .. m |->
              IF n = 0 THEN <<>>
              ELSE IF table[n] \in dropped THEN kept[n - 1] ELSE Append(kept[n - 1], table[n])]

LEMMA KeptExists ==
    ASSUME NEW table, NEW dropped, NEW m \in Nat
    PROVE  \E kept : KeptOf(table, dropped, m, kept)
<1> DEFINE failing == {n \in Nat : ~\E kept : KeptOf(table, dropped, n, kept)}
<1> SUFFICES ASSUME failing # {} PROVE FALSE
  OBVIOUS
<1>1. PICK k \in failing : \A n \in failing : k <= n
  BY LeastNumber
<1>2. CASE k = 0
  <2>1. KeptOf(table, dropped, 0, [n \in 0 .. 0 |-> <<>>])
    BY DEF KeptOf
  <2>2. QED
    BY <1>1, <1>2, <2>1
<1>3. CASE k # 0
  <2>1. k - 1 \in Nat /\ k - 1 \notin failing /\ k \in Nat
    BY <1>1, <1>3
  <2>2. PICK kept : KeptOf(table, dropped, k - 1, kept)
    BY <2>1
  <2> DEFINE next == IF table[k] \in dropped THEN kept[k - 1] ELSE Append(kept[k - 1], table[k])
             more == [n \in 0 .. k |-> IF n = k THEN next ELSE kept[n]]
  <2>3. \A n \in 0 .. k - 1 :
            kept[n] = IF n = 0 THEN <<>>
                      ELSE IF table[n] \in dropped THEN kept[n - 1] ELSE Append(kept[n - 1], table[n])
    BY <2>2 DEF KeptOf
  <2>4. KeptOf(table, dropped, k, more)
    BY <2>1, <2>3, <1>3 DEF KeptOf
  <2>5. QED
    BY <1>1, <2>4
<1>4. QED
  BY <1>2, <1>3

\* s has only elements of the table.
Among(s, table) == \A i \in 1 .. Len(s) : \E j \in 1 .. Len(table) : s[i] = table[j]

LEMMA WithoutOf ==
    ASSUME NEW P, NEW table \in Seq(P), NEW dropped
    PROVE  Without(table, dropped) \in Seq(P) /\ Among(Without(table, dropped), table)
<1> DEFINE last == Len(table)
           kept == CHOOSE f : f = [n \in 0 .. Len(table) |->
                      IF n = 0 THEN <<>>
                      ELSE IF table[n] \in dropped THEN f[n - 1] ELSE Append(f[n - 1], table[n])]
<1>1. Without(table, dropped) = kept[Len(table)]
  BY Zenon DEF Without
<1>2. last \in Nat
  OBVIOUS
<1>3. KeptOf(table, dropped, Len(table), kept)
  <2>1. \E f : KeptOf(table, dropped, Len(table), f)
    BY <1>2, KeptExists
  <2>2. QED
    BY <2>1, Zenon DEF KeptOf
<1> HIDE DEF kept
<1> DEFINE failing == {n \in 0 .. last : ~(kept[n] \in Seq(P) /\ Among(kept[n], table))}
<1>4. failing = {}
  <2> SUFFICES ASSUME failing # {} PROVE FALSE
    OBVIOUS
  <2>0. failing \in SUBSET Nat
    BY <1>2
  <2>1. PICK k \in failing : \A n \in failing : k <= n
    BY <2>0, LeastNumber
  <2>2. k \in 0 .. last /\ kept[k] = IF k = 0 THEN <<>>
                    ELSE IF table[k] \in dropped THEN kept[k - 1] ELSE Append(kept[k - 1], table[k])
    BY <1>3, <2>1 DEF KeptOf
  <2>3. CASE k = 0
    <3>1. kept[k] = <<>> /\ <<>> \in Seq(P) /\ Among(<<>>, table)
      BY <2>2, <2>3 DEF Among
    <3>2. QED
      BY <2>1, <3>1
  <2>4. CASE k # 0
    <3>1. k - 1 \in 0 .. last /\ k - 1 \notin failing /\ k \in 1 .. last
      BY <2>1, <2>2, <2>4
    <3>2. PICK before : before = kept[k - 1]
      OBVIOUS
    <3>3. before \in Seq(P) /\ Among(before, table) /\ table[k] \in P
      BY <3>1, <3>2
    <3>4. Append(before, table[k]) \in Seq(P) /\ Among(Append(before, table[k]), table)
      BY <3>1, <3>3 DEF Among
    <3>5. kept[k] \in Seq(P) /\ Among(kept[k], table)
      BY <2>2, <2>4, <3>2, <3>3, <3>4
    <3>6. QED
      BY <2>1, <3>5
  <2>5. QED
    BY <2>3, <2>4
<1>5. QED
  BY <1>1, <1>2, <1>4

LEMMA NewestOf ==
    ASSUME NEW P, NEW table \in Seq(P), NEW n \in Nat
    PROVE  /\ Newest(table, n) \in Seq(P) /\ Among(Newest(table, n), table)
           /\ Len(Newest(table, n)) = IF Len(table) > n THEN n ELSE Len(table)
<1>1. CASE Len(table) > n
  <2>1. PICK from : from = Len(table) - n + 1
    OBVIOUS
  <2>2. Newest(table, n) = SubSeq(table, from, Len(table)) /\ from \in 1 .. Len(table) + 1
    BY <1>1, <2>1 DEF Newest
  <2>3. /\ SubSeq(table, from, Len(table)) \in Seq(P)
        /\ Len(SubSeq(table, from, Len(table))) = Len(table) - from + 1
        /\ \A i \in 1 .. Len(table) - from + 1 :
              SubSeq(table, from, Len(table))[i] = table[from + i - 1]
    BY <2>1, <2>2
  <2>4. \A i \in 1 .. Len(table) - from + 1 : from + i - 1 \in 1 .. Len(table)
    BY <2>2
  <2>5. QED
    BY <1>1, <2>1, <2>2, <2>3, <2>4 DEF Among
<1>2. CASE ~(Len(table) > n)
  BY <1>2 DEF Newest, Among
<1>3. QED
  BY <1>1, <1>2

\* The last proof is kept, and what is kept fits.
LEMMA AtLeastOne == \A n \in Nat : n >= 1 => n > 1 \/ n = 1
OBVIOUS

LEMMA RetainedOf ==
    ASSUME NEW table \in Seq(ProofsOf), table # <<>>
    PROVE  /\ Retained(table) \in Seq(ProofsOf) /\ Among(Retained(table), table)
           /\ Retained(table) # <<>> /\ Len(Retained(table)) <= Len(table)
           /\ Bytes(Retained(table)) <= MaxProofBytes
<1> DEFINE fits == {n \in 0 .. Len(table) : Bytes(Newest(table, n)) <= MaxProofBytes}
           most == CHOOSE n \in fits : \A m \in fits : m <= n
<1>1. Len(table) \in Nat /\ Len(table) >= 1
  OBVIOUS
<1>2. 1 \in fits
  <2>1. PICK p : p = table[Len(table)]
    OBVIOUS
  <2>2. p \in ProofsOf
    BY <1>1, <2>1
  <2>3. p.bytes \in 1 .. 2
    BY <2>2 DEF ProofsOf
  <2>4. Newest(table, 1) = <<p>>
    <3>1. CASE Len(table) > 1
      <4>1. Newest(table, 1) = SubSeq(table, Len(table), Len(table))
        BY <1>1, <3>1 DEF Newest
      <4>2. SubSeq(table, Len(table), Len(table)) = [i \in 1 .. 1 |-> table[Len(table) + i - 1]]
        BY <1>1
      <4>3. QED
        BY <1>1, <2>1, <4>1, <4>2
    <3>2. CASE Len(table) = 1
      BY <2>1, <3>2 DEF Newest
    <3>3. Len(table) > 1 \/ Len(table) = 1
      BY <1>1, AtLeastOne
    <3>4. QED
      BY <3>1, <3>2, <3>3, Zenon
  <2>5. Bytes(Newest(table, 1)) <= MaxProofBytes
    BY <2>3, <2>4, BytesOfOne, IsolationProofsConstants
  <2>6. QED
    BY <1>1, <2>5
<1>3. \E n \in fits : \A m \in fits : m <= n
  BY <1>1, <1>2, GreatestNumber
<1>4. most \in fits /\ 1 <= most
  BY <1>2, <1>3
<1>5. Retained(table) = Newest(table, most)
  BY Zenon DEF Retained
<1>6. most \in 0 .. Len(table) /\ Bytes(Newest(table, most)) <= MaxProofBytes
  BY <1>4
<1> HIDE DEF most
<1>7. /\ Newest(table, most) \in Seq(ProofsOf) /\ Among(Newest(table, most), table)
      /\ Len(Newest(table, most)) = most
  BY <1>1, <1>6, NewestOf
<1>8. QED
  BY <1>1, <1>4, <1>5, <1>6, <1>7

-----------------------------------------------------------------------------
(* The calls that make proofs *)

IpReadings == [Sides -> [read : BOOLEAN, shared : SUBSET SharedPlaces, session : BOOLEAN]]
IpRecord == [step : {"none", "loading", "inspect", "pages", "register", "over"},
             level : {"none", "conditional", "strong"}, loading : Seq(ProofsOf), expired : SUBSET IpCalls,
             page : IpReadings, shared : SUBSET SharedPlaces]

\* The conditional proofs of a table are of separate logins.
Apart(table) == \A i \in 1 .. Len(table) : table[i].level = "conditional" => table[i].shared = {}

IpWorld ==
    /\ ipStores \in {"same", "different", "unknown"} /\ ipSameOrigin \in BOOLEAN
    /\ ipShared \subseteq SharedPlaces /\ ipSession \subseteq Sides
    /\ ipLoaded \in BOOLEAN /\ ipExpired \subseteq IpCalls
    /\ ipEvents \in 0 .. MaxIpEvents /\ ipDisturbed \in BOOLEAN

IpTables ==
    /\ ipProofs \in Seq(ProofsOf) /\ Apart(ipProofs) /\ Len(ipProofs) <= MaxProofs
    /\ ipStored \in Seq(ProofsOf) /\ Apart(ipStored) /\ Bytes(ipStored) <= MaxProofBytes
    /\ ipDisturbed \/ Among(ipProofs, ipStored)

IpCallsMade ==
    /\ ipCall \in [IpCalls -> IpRecord]
    /\ \A c \in IpCalls :
         /\ ipCall[c].level = "conditional" => ipCall[c].shared = {}
         /\ Apart(ipCall[c].loading)

\* One call at a time loads the table; as long as there is none, it loads what is stored.
LoadsStored ==
    \A c \in IpCalls : ipCall[c].step = "loading" =>
        /\ ipLoaded
        /\ ipProofs = <<>> => ipCall[c].loading = ipStored
        /\ \A d \in IpCalls : ipCall[d].step = "loading" => d = c

IpInv == IpWorld /\ IpTables /\ IpCallsMade /\ LoadsStored

LEMMA AmongApart == ASSUME NEW s, NEW table, Among(s, table), Apart(table) PROVE Apart(s)
  BY DEF Among, Apart

LEMMA AmongWithin == ASSUME NEW s, NEW t, NEW table, Among(s, t), Among(t, table) PROVE Among(s, table)
  BY DEF Among

LEMMA PurgedOf ==
    ASSUME NEW table \in Seq(ProofsOf), NEW expired, NEW reserve \in 0 .. 1
    PROVE  /\ Purged(table, expired, reserve) \in Seq(ProofsOf) /\ Among(Purged(table, expired, reserve), table)
           /\ Len(Purged(table, expired, reserve)) <= MaxProofs - reserve
<1>1. PICK rest : rest = Without(table, {p \in Range(table) : p.by \in expired})
  OBVIOUS
<1>2. rest \in Seq(ProofsOf) /\ Among(rest, table)
  BY <1>1, WithoutOf
<1>3. MaxProofs - reserve \in Nat
  BY IsolationProofsConstants
<1>4. Purged(table, expired, reserve) = Newest(rest, MaxProofs - reserve)
  BY <1>1, Zenon DEF Purged
<1>5. /\ Newest(rest, MaxProofs - reserve) \in Seq(ProofsOf) /\ Among(Newest(rest, MaxProofs - reserve), rest)
      /\ Len(Newest(rest, MaxProofs - reserve)) <= MaxProofs - reserve
  <2>1. PICK n \in Nat : n = MaxProofs - reserve
    BY <1>3
  <2>2. /\ Newest(rest, n) \in Seq(ProofsOf) /\ Among(Newest(rest, n), rest)
        /\ Len(Newest(rest, n)) = IF Len(rest) > n THEN n ELSE Len(rest)
    BY <1>2, NewestOf
  <2>3. Len(rest) \in Nat
    BY <1>2
  <2>4. QED
    BY <2>1, <2>2, <2>3
<1>6. QED
  BY <1>2, <1>4, <1>5, AmongWithin

LEMMA AddedOf ==
    ASSUME NEW table \in Seq(ProofsOf), NEW loaded \in Seq(ProofsOf), Apart(table), Apart(loaded)
    PROVE  /\ Added(table, loaded) \in Seq(ProofsOf) /\ Apart(Added(table, loaded))
           /\ table = <<>> => Among(Added(table, loaded), loaded)
<1>1. PICK new : new = Without(loaded, Range(table))
  OBVIOUS
<1>2. new \in Seq(ProofsOf) /\ Among(new, loaded)
  BY <1>1, WithoutOf
<1>3. Apart(new)
  BY <1>2, AmongApart
<1>4. Added(table, loaded) = table \o new
  BY <1>1, Zenon DEF Added
<1>5. table \o new \in Seq(ProofsOf) /\ Apart(table \o new)
  BY <1>2, <1>3 DEF Apart
<1>6. table = <<>> => table \o new = new
  BY <1>2
<1>7. QED
  BY <1>2, <1>4, <1>5, <1>6

LEMMA IpCallGoes ==
    ASSUME IpCallsMade, NEW c \in IpCalls, NEW call \in IpRecord, call.level = "conditional" => call.shared = {},
           Apart(call.loading), ipCall' = [ipCall EXCEPT ![c] = call]
    PROVE  /\ IpCallsMade' /\ ipCall'[c] = call
           /\ \A d \in IpCalls \ {c} : ipCall'[d] = ipCall[d]
<1>1. ipCall \in [IpCalls -> IpRecord]
  BY DEF IpCallsMade
<1>2. /\ ipCall'[c] = call /\ \A d \in IpCalls \ {c} : ipCall'[d] = ipCall[d]
      /\ ipCall' \in [IpCalls -> IpRecord]
  BY <1>1
<1>3. QED
  BY <1>2 DEF IpCallsMade

LEMMA NoIpCallShape == NoIpCall \in IpRecord /\ NoIpCall.level = "none" /\ Apart(NoIpCall.loading) /\ NoIpCall.step = "none"
<1>1. [s \in Sides |-> NoReading] \in IpReadings
  BY DEF IpReadings, NoReading
<1>2. NoIpCall \in IpRecord
  BY <1>1 DEF NoIpCall, IpRecord
<1>3. QED
  BY <1>2 DEF NoIpCall, Apart

LEMMA IpCallOver ==
    ASSUME IpCallsMade, NEW c \in IpCalls, IpEnds(c)
    PROVE  /\ IpCallsMade' /\ ipCall'[c].step = "over"
           /\ \A d \in IpCalls \ {c} : ipCall'[d] = ipCall[d]
<1>1. PICK call : call = [NoIpCall EXCEPT !.step = "over"]
  OBVIOUS
<1>2. call \in IpRecord /\ call.level = "none" /\ Apart(call.loading) /\ call.step = "over"
  BY <1>1, NoIpCallShape DEF IpRecord
<1>3. ipCall' = [ipCall EXCEPT ![c] = call]
  BY <1>1, Zenon DEF IpEnds
<1>4. QED
  BY <1>2, <1>3, IpCallGoes

\* A call that does not load goes on to something else than loading, and the tables stay.
LEMMA LoadsGoOn ==
    ASSUME LoadsStored, NEW c \in IpCalls, ipCall'[c].step # "loading",
           \A d \in IpCalls \ {c} : ipCall'[d] = ipCall[d],
           UNCHANGED ipLoaded, ipProofs' = <<>> => ipProofs = <<>> /\ ipStored' = ipStored
    PROVE  LoadsStored'
  BY DEF LoadsStored

LEMMA RequestProofKeeps == ASSUME IpInv, NEW c \in IpCalls, RequestProof(c) PROVE IpInv'
<1>1. /\ UNCHANGED <<ipWorld, ipProofs, ipStored, ipExpired, ipEvents, ipDisturbed>> /\ ipLoaded' = TRUE
      /\ IpWorld' /\ IpTables'
  BY DEF RequestProof, IpInv, IpWorld, IpTables, ipWorld
<1>2. ipCall[c] \in IpRecord /\ (ipCall[c].level = "conditional" => ipCall[c].shared = {}) /\ ipCall[c].step = "none"
  BY DEF RequestProof, IpInv, IpCallsMade
<1>3. PICK step \in {"inspect", "loading"} : step = IF ipLoaded THEN "inspect" ELSE "loading"
  OBVIOUS
<1>4. PICK loading : loading = IF ipLoaded THEN <<>> ELSE ipStored
  OBVIOUS
<1>5. loading \in Seq(ProofsOf) /\ Apart(loading)
  BY <1>4 DEF Apart, IpInv, IpTables
<1>6. PICK call : call = [ipCall[c] EXCEPT !.step = step, !.loading = loading]
  OBVIOUS
<1>7. ipCall' = [ipCall EXCEPT ![c] = call]
  BY <1>3, <1>4, <1>6 DEF RequestProof, IpInv, IpCallsMade
<1>8. /\ call \in IpRecord /\ call.step = step /\ call.loading = loading
      /\ call.level = ipCall[c].level /\ call.shared = ipCall[c].shared
  BY <1>2, <1>5, <1>6 DEF IpRecord
<1>9. IpCallsMade' /\ ipCall'[c] = call /\ \A d \in IpCalls \ {c} : ipCall'[d] = ipCall[d]
  BY <1>2, <1>5, <1>7, <1>8, IpCallGoes DEF IpInv
<1>10. CASE ipLoaded
  BY <1>1, <1>3, <1>8, <1>9, <1>10, LoadsGoOn DEF IpInv
<1>11. CASE ~ipLoaded
  <2>1. \A d \in IpCalls : ipCall[d].step # "loading"
    BY <1>11 DEF IpInv, LoadsStored
  <2>2. ipCall'[c].loading = ipStored' /\ \A d \in IpCalls : ipCall'[d].step = "loading" => d = c
    BY <1>1, <1>4, <1>8, <1>9, <1>11, <2>1
  <2>3. LoadsStored'
    BY <1>1, <2>2 DEF LoadsStored
  <2>4. QED
    BY <1>1, <1>9, <2>3 DEF IpInv
<1>12. QED
  BY <1>1, <1>9, <1>10, <1>11 DEF IpInv

LEMMA LoadsProofsKeeps == ASSUME IpInv, NEW c \in IpCalls, LoadsProofs(c) PROVE IpInv'
<1>1. ipCall[c] \in IpRecord /\ (ipCall[c].level = "conditional" => ipCall[c].shared = {})
      /\ ipCall[c].step = "loading" /\ Apart(ipCall[c].loading)
  BY DEF LoadsProofs, IpInv, IpCallsMade
<1>2. PICK call, none : call = [ipCall[c] EXCEPT !.step = "inspect", !.loading = none] /\ none = <<>>
  OBVIOUS
<1>3. none \in Seq(ProofsOf) /\ Apart(none)
  BY <1>2 DEF Apart
<1>4. /\ call \in IpRecord /\ call.step = "inspect" /\ Apart(call.loading)
      /\ call.level = ipCall[c].level /\ call.shared = ipCall[c].shared
  BY <1>1, <1>2, <1>3 DEF IpRecord
<1>5. ipCall' = [ipCall EXCEPT ![c] = call]
  BY <1>2 DEF LoadsProofs, IpInv, IpCallsMade
<1>6. IpCallsMade' /\ ipCall'[c] = call /\ \A d \in IpCalls \ {c} : ipCall'[d] = ipCall[d]
  BY <1>1, <1>4, <1>5, IpCallGoes DEF IpInv
<1>7. LoadsStored'
  BY <1>1, <1>4, <1>6 DEF IpInv, LoadsStored, LoadsProofs
<1>8. UNCHANGED <<ipWorld, ipStored, ipLoaded, ipExpired>>
  BY DEF LoadsProofs
<1>9. CASE /\ ipProofs' = Purged(Added(ipProofs, ipCall[c].loading), ipExpired, 0)
           /\ ipDisturbed' = (ipDisturbed \/ ipProofs # <<>>)
           /\ UNCHANGED ipEvents
  <2>1. PICK table : table = Added(ipProofs, ipCall[c].loading)
    OBVIOUS
  <2>2. ipCall[c].loading \in Seq(ProofsOf) /\ ipProofs \in Seq(ProofsOf) /\ Apart(ipProofs)
    BY <1>1 DEF IpRecord, IpInv, IpTables
  <2>3. /\ table \in Seq(ProofsOf) /\ Apart(table)
        /\ ipProofs = <<>> => Among(table, ipCall[c].loading)
    BY <1>1, <2>1, <2>2, AddedOf
  <2>4. /\ ipProofs' \in Seq(ProofsOf) /\ Among(ipProofs', table) /\ Len(ipProofs') <= MaxProofs - 0
    BY <1>9, <2>1, <2>3, PurgedOf
  <2>5. Apart(ipProofs') /\ Len(ipProofs') <= MaxProofs
    BY <2>3, <2>4, AmongApart, IsolationProofsConstants
  <2>6. ipDisturbed' \/ Among(ipProofs', ipStored')
    <3>1. CASE ipProofs # <<>>
      BY <1>9, <3>1
    <3>2. CASE ipProofs = <<>>
      <4>1. ipCall[c].loading = ipStored
        BY <1>1, <3>2 DEF IpInv, LoadsStored
      <4>2. QED
        BY <1>8, <2>3, <2>4, <3>2, <4>1, AmongWithin
    <3>3. QED
      BY <3>1, <3>2
  <2>7. IpTables'
    BY <1>8, <2>4, <2>5, <2>6 DEF IpInv, IpTables
  <2>8. IpWorld'
    BY <1>8, <1>9 DEF IpInv, IpWorld, ipWorld
  <2>9. QED
    BY <1>6, <1>7, <2>7, <2>8 DEF IpInv
<1>10. CASE IpEvent /\ ipDisturbed' = TRUE /\ UNCHANGED ipProofs
  <2>1. IpWorld' /\ IpTables'
    BY <1>8, <1>10, IsolationProofsConstants DEF IpInv, IpWorld, ipWorld, IpTables, IpEvent
  <2>2. QED
    BY <1>6, <1>7, <2>1 DEF IpInv
<1>11. QED
  BY <1>9, <1>10 DEF LoadsProofs

LEMMA BuildsProofKeeps == ASSUME IpInv, NEW c \in IpCalls, BuildsProof(c) PROVE IpInv'
<1>1. UNCHANGED <<ipWorld, ipProofs, ipStored, ipLoaded, ipExpired, ipDisturbed>> /\ ipEvents' \in 0 .. MaxIpEvents
  <2>1. IpEvent \/ UNCHANGED ipEvents
    BY DEF BuildsProof
  <2>2. ipEvents' \in 0 .. MaxIpEvents
    BY <2>1, IsolationProofsConstants DEF IpEvent, IpInv, IpWorld
  <2>3. QED
    BY <2>2 DEF BuildsProof
<1>2. IpWorld' /\ IpTables'
  BY <1>1 DEF IpInv, IpWorld, ipWorld, IpTables
<1>3. CASE IpEnds(c)
  <2>1. IpCallsMade' /\ ipCall'[c].step = "over" /\ \A d \in IpCalls \ {c} : ipCall'[d] = ipCall[d]
    BY <1>3, IpCallOver DEF IpInv
  <2>2. LoadsStored'
    BY <1>1, <2>1, LoadsGoOn DEF IpInv
  <2>3. QED
    BY <1>2, <2>1, <2>2 DEF IpInv
<1>4. ASSUME NEW relation \in ToldStores,
             ipCall' = [ipCall EXCEPT ![c].expired = ipExpired,
                 ![c].level = IF relation = "different" THEN "strong" ELSE "none",
                 ![c].step = IF relation = "same" /\ ipSameOrigin THEN "pages" ELSE "register"]
      PROVE  IpInv'
  <2>1. PICK level \in {"strong", "none"} : level = IF relation = "different" THEN "strong" ELSE "none"
    OBVIOUS
  <2>2. PICK step \in {"pages", "register"} :
            step = IF relation = "same" /\ ipSameOrigin THEN "pages" ELSE "register"
    OBVIOUS
  <2>3. PICK call : call = [ipCall[c] EXCEPT !.expired = ipExpired, !.level = level, !.step = step]
    OBVIOUS
  <2>4. ipCall' = [ipCall EXCEPT ![c] = call]
    BY <1>4, <2>1, <2>2, <2>3 DEF IpInv, IpCallsMade
  <2>5. ipCall[c] \in IpRecord /\ Apart(ipCall[c].loading) /\ ipExpired \subseteq IpCalls
    BY DEF IpInv, IpCallsMade, IpWorld
  <2>6. call \in IpRecord /\ call.level = level /\ call.step = step /\ call.loading = ipCall[c].loading
    BY <2>3, <2>5 DEF IpRecord
  <2>7. IpCallsMade' /\ ipCall'[c] = call /\ \A d \in IpCalls \ {c} : ipCall'[d] = ipCall[d]
    BY <2>1, <2>4, <2>5, <2>6, IpCallGoes DEF IpInv
  <2>8. LoadsStored'
    BY <1>1, <2>2, <2>6, <2>7, LoadsGoOn DEF IpInv
  <2>9. QED
    BY <1>2, <2>7, <2>8 DEF IpInv
<1>5. QED
  BY <1>3, <1>4 DEF BuildsProof

LEMMA ReadsPageKeeps == ASSUME IpInv, NEW c \in IpCalls, NEW s \in Sides, ReadsPage(c, s) PROVE IpInv'
<1>1. UNCHANGED <<ipWorld, ipProofs, ipStored, ipLoaded, ipExpired, ipEvents, ipDisturbed>>
  BY DEF ReadsPage
<1>2. IpWorld' /\ IpTables'
  BY <1>1 DEF IpInv, IpWorld, ipWorld, IpTables
<1>3. /\ ipCall[c] \in IpRecord /\ Apart(ipCall[c].loading)
      /\ ipCall[c].level = "conditional" => ipCall[c].shared = {}
      /\ ipCall[c].step = "pages" /\ ipShared \subseteq SharedPlaces
  BY DEF ReadsPage, IpInv, IpCallsMade, IpWorld
<1>4. PICK page : page = [ipCall[c].page EXCEPT ![s] = ReadingOf(s)]
  OBVIOUS
<1>5. page \in IpReadings /\ page[s].shared = ipShared
  <2>1. ipCall[c].page \in IpReadings
    BY <1>3 DEF IpRecord
  <2>2. /\ ReadingOf(s) \in [read : BOOLEAN, shared : SUBSET SharedPlaces, session : BOOLEAN]
        /\ ReadingOf(s).shared = ipShared
    BY <1>3 DEF ReadingOf
  <2>3. QED
    BY <1>4, <2>1, <2>2 DEF IpReadings
\* What is enough of the call's next record.
<1>6. ASSUME NEW call \in IpRecord, call.level = "conditional" => call.shared = {},
             call.loading = ipCall[c].loading, call.step # "loading",
             ipCall' = [ipCall EXCEPT ![c] = call]
      PROVE  IpInv'
  <2>1. IpCallsMade' /\ ipCall'[c] = call /\ \A d \in IpCalls \ {c} : ipCall'[d] = ipCall[d]
    BY <1>3, <1>6, IpCallGoes DEF IpInv
  <2>2. LoadsStored'
    BY <1>1, <1>6, <2>1, LoadsGoOn DEF IpInv
  <2>3. QED
    BY <1>2, <2>1, <2>2 DEF IpInv
<1>7. ASSUME NEW level \in {"none", "conditional"},
             level = "conditional" => ProvesConditionally(page["left"], page["right"]),
             ipCall' = [ipCall EXCEPT ![c].page = NoIpCall.page, ![c].shared = ipShared,
                                      ![c].step = "register", ![c].level = level]
      PROVE  IpInv'
  <2>1. PICK none : none = NoIpCall.page
    OBVIOUS
  <2>2. none \in IpReadings
    BY <2>1, NoIpCallShape DEF IpRecord
  <2>3. PICK call : call = [ipCall[c] EXCEPT !.page = none, !.shared = ipShared, !.step = "register", !.level = level]
    OBVIOUS
  <2>4. /\ call \in IpRecord /\ call.level = level /\ call.shared = ipShared
        /\ call.loading = ipCall[c].loading /\ call.step = "register"
    BY <1>3, <2>2, <2>3 DEF IpRecord
  <2>5. level = "conditional" => ipShared = {}
    BY <1>5, <1>7 DEF ProvesConditionally, Sides
  <2>6. ipCall' = [ipCall EXCEPT ![c] = call]
    BY <1>7, <2>1, <2>3 DEF IpInv, IpCallsMade
  <2>7. QED
    BY <1>6, <2>4, <2>5, <2>6
<1>8. CASE ipCall' = [ipCall EXCEPT ![c].page = page]
  <2>1. PICK call : call = [ipCall[c] EXCEPT !.page = page]
    OBVIOUS
  <2>2. /\ call \in IpRecord /\ call.level = ipCall[c].level /\ call.shared = ipCall[c].shared
        /\ call.loading = ipCall[c].loading /\ call.step = ipCall[c].step
    BY <1>3, <1>5, <2>1 DEF IpRecord
  <2>3. ipCall' = [ipCall EXCEPT ![c] = call]
    BY <1>8, <2>1 DEF IpInv, IpCallsMade
  <2>4. QED
    BY <1>3, <1>6, <2>2, <2>3
<1>9. CASE ipCall' = [ipCall EXCEPT ![c].step = "register"]
  <2>1. PICK call : call = [ipCall[c] EXCEPT !.step = "register"]
    OBVIOUS
  <2>2. /\ call \in IpRecord /\ call.level = ipCall[c].level /\ call.shared = ipCall[c].shared
        /\ call.loading = ipCall[c].loading /\ call.step = "register"
    BY <1>3, <2>1 DEF IpRecord
  <2>3. ipCall' = [ipCall EXCEPT ![c] = call]
    BY <1>9, <2>1 DEF IpInv, IpCallsMade
  <2>4. QED
    BY <1>3, <1>6, <2>2, <2>3
<1>10. QED
  BY <1>4, <1>7, <1>8, <1>9, Zenon DEF ReadsPage

LEMMA RegistersProofKeeps == ASSUME IpInv, NEW c \in IpCalls, RegistersProof(c) PROVE IpInv'
<1>1. IpEnds(c) /\ UNCHANGED <<ipWorld, ipLoaded, ipExpired>>
  BY DEF RegistersProof
<1>2. /\ ipCall[c].level \in {"none", "conditional", "strong"} /\ ipCall[c].shared \subseteq SharedPlaces
      /\ ipCall[c].level = "conditional" => ipCall[c].shared = {}
      /\ ipProofs \in Seq(ProofsOf) /\ Apart(ipProofs)
  BY DEF IpInv, IpCallsMade, IpRecord, IpTables
<1>3. PICK bytes \in 1 .. 2 :
         ipProofs' = Retained(Append(Purged(ipProofs, ipCall[c].expired, 1),
              [by |-> c, level |-> ipCall[c].level, bytes |-> bytes, shared |-> ipCall[c].shared]))
  BY DEF RegistersProof
<1>4. PICK proof : proof = [by |-> c, level |-> ipCall[c].level, bytes |-> bytes, shared |-> ipCall[c].shared]
  OBVIOUS
<1>5. proof \in ProofsOf /\ (proof.level = "conditional" => proof.shared = {})
  BY <1>2, <1>4 DEF ProofsOf
<1>6. PICK purged : purged = Purged(ipProofs, ipCall[c].expired, 1)
  OBVIOUS
<1>7. purged \in Seq(ProofsOf) /\ Among(purged, ipProofs) /\ Len(purged) <= MaxProofs - 1
  BY <1>2, <1>6, PurgedOf
<1>8. Apart(purged)
  BY <1>2, <1>7, AmongApart
<1>9. PICK table : table = Append(purged, proof)
  OBVIOUS
<1>10. /\ table \in Seq(ProofsOf) /\ table # <<>> /\ Len(table) <= MaxProofs /\ Apart(table)
  BY <1>5, <1>7, <1>8, <1>9, IsolationProofsConstants DEF Apart
<1>11. /\ ipProofs' \in Seq(ProofsOf) /\ Among(ipProofs', table) /\ ipProofs' # <<>>
       /\ Len(ipProofs') <= Len(table) /\ Bytes(ipProofs') <= MaxProofBytes
  BY <1>3, <1>4, <1>6, <1>9, <1>10, RetainedOf
<1>12. Apart(ipProofs') /\ Len(ipProofs') <= MaxProofs
  BY <1>10, <1>11, AmongApart, IsolationProofsConstants
<1>13. ASSUME ipStored' = ipProofs', UNCHANGED <<ipEvents, ipDisturbed>>
       PROVE  IpWorld' /\ IpTables'
  <2>1. IpWorld'
    BY <1>1, <1>13 DEF IpInv, IpWorld, ipWorld
  <2>2. Among(ipProofs', ipStored')
    BY <1>13 DEF Among
  <2>3. IpTables'
    BY <1>11, <1>12, <1>13, <2>2 DEF IpTables
  <2>4. QED
    BY <2>1, <2>3
<1>14. IpWorld' /\ IpTables'
  <2>1. CASE ipStored' = ipProofs' /\ UNCHANGED <<ipEvents, ipDisturbed>>
    BY <1>13, <2>1
  <2>2. CASE IpEvent /\ ipDisturbed' = TRUE /\ UNCHANGED ipStored
    BY <1>1, <1>11, <1>12, <2>2, IsolationProofsConstants DEF IpInv, IpWorld, ipWorld, IpTables, IpEvent
  <2>3. QED
    BY <2>1, <2>2 DEF RegistersProof
<1>15. IpCallsMade' /\ ipCall'[c].step = "over" /\ \A d \in IpCalls \ {c} : ipCall'[d] = ipCall[d]
  BY <1>1, IpCallOver DEF IpInv
<1>16. LoadsStored'
  BY <1>1, <1>11, <1>15, LoadsGoOn DEF IpInv
<1>17. QED
  BY <1>14, <1>15, <1>16 DEF IpInv

LEMMA IpTerminatedKeeps == ASSUME IpInv, IpTerminated PROVE IpInv'
<1>1. /\ UNCHANGED <<ipWorld, ipStored, ipExpired, ipDisturbed>> /\ ipProofs' = <<>> /\ ipLoaded' = FALSE
      /\ ipEvents' \in 0 .. MaxIpEvents
      /\ ipCall' = [c \in IpCalls |-> IF ipCall[c].step = "none" THEN NoIpCall ELSE [NoIpCall EXCEPT !.step = "over"]]
  BY IsolationProofsConstants DEF IpTerminated, IpEvent, IpInv, IpWorld
<1>2. IpWorld'
  BY <1>1 DEF IpInv, IpWorld, ipWorld
<1>3. IpTables'
  BY <1>1, IsolationProofsConstants DEF IpInv, IpTables, Apart, Among
<1>4. PICK over : over = [NoIpCall EXCEPT !.step = "over"]
  OBVIOUS
<1>5. over \in IpRecord /\ over.level = "none" /\ Apart(over.loading) /\ over.step = "over"
  BY <1>4, NoIpCallShape DEF IpRecord
<1>6. \A c \in IpCalls : ipCall'[c] = NoIpCall \/ ipCall'[c] = over
  BY <1>1, <1>4
<1>7. ipCall' \in [IpCalls -> IpRecord]
  BY <1>1, <1>4, <1>5, NoIpCallShape
<1>8. IpCallsMade' /\ LoadsStored'
  BY <1>5, <1>6, <1>7, NoIpCallShape DEF IpCallsMade, LoadsStored
<1>9. QED
  BY <1>2, <1>3, <1>8 DEF IpInv

LEMMA IpStarts == IpInit => IpInv
<1> SUFFICES ASSUME IpInit PROVE IpInv
  OBVIOUS
<1>1. IpWorld
  <2>1. ipSession \subseteq Sides
    BY DEF IpInit, Sides
  <2>2. 0 \in 0 .. MaxIpEvents
    BY IsolationProofsConstants
  <2>3. QED
    BY <2>1, <2>2 DEF IpInit, IpWorld
<1>2. Apart(EarlierProofs)
  BY EarlierProofsFit DEF Apart, Range
<1>3. IpTables
  BY <1>2, EarlierProofsFit, IsolationProofsConstants DEF IpInit, IpTables, Apart, Among
<1>4. PICK over : over = [NoIpCall EXCEPT !.step = "over"]
  OBVIOUS
<1>5. over \in IpRecord /\ over.level = "none" /\ Apart(over.loading) /\ over.step = "over"
  BY <1>4, NoIpCallShape DEF IpRecord
<1>6. \A c \in IpCalls : ipCall[c] = NoIpCall \/ ipCall[c] = over
  BY <1>4 DEF IpInit
<1>7. ipCall \in [IpCalls -> IpRecord]
  BY <1>4, <1>5, NoIpCallShape DEF IpInit
<1>8. IpCallsMade /\ LoadsStored
  BY <1>5, <1>6, <1>7, NoIpCallShape DEF IpCallsMade, LoadsStored
<1>9. QED
  BY <1>1, <1>3, <1>8 DEF IpInv

LEMMA IpGoes == IpInv /\ [IpSteps]_ipVars => IpInv'
<1> SUFFICES ASSUME IpInv, [IpSteps]_ipVars PROVE IpInv'
  OBVIOUS
<1>1. CASE IpWorks
  BY <1>1, LoadsProofsKeeps, BuildsProofKeeps, RegistersProofKeeps, ReadsPageKeeps DEF IpWorks
<1>2. ASSUME NEW c \in IpCalls, RequestProof(c) PROVE IpInv'
  BY <1>2, RequestProofKeeps
<1>3. ASSUME UNCHANGED <<ipCall, ipProofs, ipStored, ipLoaded, ipDisturbed>>, IpWorld' PROVE IpInv'
  BY <1>3 DEF IpInv, IpTables, IpCallsMade, LoadsStored
<1>4. ASSUME NEW c \in IpCalls, ProofExpires(c) PROVE IpInv'
  BY <1>3, <1>4, IsolationProofsConstants DEF ProofExpires, IpEvent, IpInv, IpWorld, ipWorld
<1>5. CASE LoginChanges
  BY <1>3, <1>5, IsolationProofsConstants DEF LoginChanges, IpEvent, IpInv, IpWorld
<1>6. CASE IpTerminated
  BY <1>6, IpTerminatedKeeps
<1>7. CASE UNCHANGED ipVars
  BY <1>3, <1>7 DEF ipVars, ipWorld, IpInv, IpWorld
<1>8. QED
  BY <1>1, <1>2, <1>4, <1>5, <1>6, <1>7 DEF IpSteps

LEMMA IpHolds == IpInv => ProofsSound
<1> SUFFICES ASSUME IpInv PROVE ProofsSound
  OBVIOUS
<1>1. ASSUME NEW table \in Seq(ProofsOf)
      PROVE  Range(table) \subseteq ProofsOf /\ \A p \in Range(table) : \E i \in 1 .. Len(table) : p = table[i]
  BY DEF Range
<1>2. ipProofs \in Seq(ProofsOf) /\ ipStored \in Seq(ProofsOf)
  BY DEF IpInv, IpTables
<1>3. IpTypeOK
  <2>1. ASSUME NEW c \in IpCalls
        PROVE  /\ ipCall[c].step \in {"none", "loading", "inspect", "pages", "register", "over"}
               /\ ipCall[c].level \in {"none", "conditional", "strong"}
               /\ Range(ipCall[c].loading) \subseteq ProofsOf
               /\ ipCall[c].expired \subseteq IpCalls /\ ipCall[c].shared \subseteq SharedPlaces
               /\ ipCall[c].page \in [Sides -> [read : BOOLEAN, shared : SUBSET SharedPlaces,
                                                session : BOOLEAN]]
    <3>1. ipCall[c] \in IpRecord
      BY DEF IpInv, IpCallsMade
    <3>2. QED
      BY <3>1, <1>1 DEF IpRecord, IpReadings
  <2>2. QED
    BY <1>1, <1>2, <2>1 DEF IpTypeOK, IpInv, IpWorld
<1>4. ConditionalIsApart
  BY <1>1, <1>2 DEF ConditionalIsApart, IpInv, IpTables, Apart
<1>5. ProofsStored
  <2>1. ipDisturbed \/ Among(ipProofs, ipStored)
    BY DEF IpInv, IpTables
  <2>2. Among(ipProofs, ipStored) => Range(ipProofs) \subseteq Range(ipStored)
    BY <1>2 DEF Among, Range
  <2>3. QED
    BY <2>1, <2>2 DEF ProofsStored
<1>6. QED
  BY <1>3, <1>4, <1>5 DEF ProofsSound, TableBounded, IpInv, IpTables

\* For any number of calls, containers, faults and proofs: the containers and tabs of the user are
\* never touched, every container of the extension that exists can be cleared, or its entry was
\* lost to a failure or another write; and a conditional proof is of tabs that shared no login,
\* the table of proofs within its limits and, unless disturbed, in storage.
THEOREM IdentitiesAreSound == IdentitiesSpec => []IdentitiesSound
<1>1. CiSpec => []CiInv
  BY CiStarts, CiGoes, PTL DEF CiSpec
<1>2. IpSpec => []IpInv
  BY IpStarts, IpGoes, PTL DEF IpSpec
<1>3. CiInv /\ IpInv => IdentitiesSound
  BY CiHolds, IpHolds DEF IdentitiesSound
<1>4. QED
  BY <1>1, <1>2, <1>3, PTL DEF IdentitiesSpec

(***************************************************************************)
(* Replays of page functions                                               *)
(***************************************************************************)

Ongoing(c) == peCall[c].stage \in {"queued", "running", "settling"}

\* The queue has the replays that wait or run; only its first one may run.
PeOneAtATime ==
    \A c \in Invocations :
        /\ Ongoing(c) <=> c \in ToSet(peQueue)
        /\ Runs(c) => peQueue[1] = c

\* The hook of a replay is in the page while it runs. It was put over hooks of the
\* recorder alone; what the recorder's was put over it knows.
PeHooks ==
    /\ \A c \in Invocations : Runs(c) <=> c \in ToSet(peFetch)
    /\ \A c \in Invocations : Runs(c) => peCall[c].before \in Seq({RecorderHook})
    /\ peRecorder.active => peRecorder.wrapped = Append(peRecorder.before, RecorderHook)

\* At most one request of a transaction is under way, and its hook knows of it.
PeOneUnderWay ==
    /\ \A r \in DOMAIN peRequests : r.stage = "sent" => peCall[r.hook].inFlight /\ peRequests[r] = 1
    /\ \A r, q \in DOMAIN peRequests : r.stage = "sent" /\ q.stage = "sent" /\ r.hook = q.hook => r = q

\* How far a replay is.
Counted(call) ==
    /\ call.sent \in {call.index, call.index + 1} /\ call.sent <= Prerequisites
    /\ call.inFlight => call.sent = call.index + 1
    /\ call.stage # "over" /\ ~call.inFlight /\ ~call.failed => call.sent = call.index
    /\ call.captured # NoInvocation => call.index = Prerequisites
    /\ call.stage = "none" => call.kind = "none"
    /\ call.stage = "settling" => call.captured # NoInvocation /\ call.kind = "transaction"
    /\ call.stage # "over" => call.answer = "none"
    /\ call.stage # "over" /\ call.extra = "seen" /\ call.kind # "plain" => call.failed
    /\ call.answer = "value" => call.extra # "seen"
    /\ call.answer = "value" /\ call.kind = "transaction" => call.captured # NoInvocation

PeCounts == \A c \in Invocations : Counted(peCall[c])

RecorderChain == IF peRecorder.active THEN <<RecorderHook>> ELSE <<>>
RecorderTimer == IF peRecorder.active THEN "own" ELSE "off"

\* No command of the recorder came during a replay.
PeUndisturbed ==
    ~peCrossed =>
        /\ peRecorder.active => peRecorder.before = <<>> /\ peRecorder.wrapped = <<RecorderHook>>
        /\ peRecorder.timer = RecorderTimer
        /\ ~SomethingRuns => peFetch = RecorderChain /\ peRecorder.crypto = peRecorder.active
        /\ \A c \in Invocations : Runs(c) =>
             /\ peCall[c].before = RecorderChain /\ peCall[c].recording = peRecorder.active
             /\ peRecorder.crypto = (peRecorder.active \/ peCall[c].kind = "transaction")

PageInvariant ==
    PeTypeOK /\ PeOneAtATime /\ PeHooks /\ PeOneUnderWay /\ PeCounts /\ PeUndisturbed

-----------------------------------------------------------------------------
\* What the queue and the chains of hooks hold after a step.
LEMMA PeAppended ==
    ASSUME NEW A, NEW s \in Seq(A), NEW e \in A
    PROVE  /\ Append(s, e) \in Seq(A)
           /\ ToSet(Append(s, e)) = ToSet(s) \cup {e}
<1>1. Append(s, e) \in Seq(A) /\ DOMAIN Append(s, e) = 1 .. Len(s) + 1 /\ DOMAIN s = 1 .. Len(s) /\ Len(s) \in Nat
  OBVIOUS
<1>2. \A i \in 1 .. Len(s) : Append(s, e)[i] = s[i]
  OBVIOUS
<1>3. Append(s, e)[Len(s) + 1] = e
  OBVIOUS
<1>4. ToSet(Append(s, e)) \subseteq ToSet(s) \cup {e}
  <2>1. SUFFICES ASSUME NEW i \in DOMAIN Append(s, e) PROVE Append(s, e)[i] \in ToSet(s) \cup {e}
    BY DEF ToSet
  <2>2. CASE i = Len(s) + 1
    BY <2>2, <1>3
  <2>3. CASE i # Len(s) + 1
    <3>1. i \in 1 .. Len(s)
      BY <2>3, <1>1
    <3> QED
      BY <3>1, <1>1, <1>2 DEF ToSet
  <2> QED
    BY <2>2, <2>3
<1>5. ToSet(s) \subseteq ToSet(Append(s, e))
  <2>1. SUFFICES ASSUME NEW i \in DOMAIN s PROVE s[i] \in ToSet(Append(s, e))
    BY DEF ToSet
  <2>2. i \in DOMAIN Append(s, e) /\ Append(s, e)[i] = s[i]
    BY <1>1, <1>2
  <2> QED
    BY <2>2 DEF ToSet
<1>6. e \in ToSet(Append(s, e))
  <2>1. Len(s) + 1 \in DOMAIN Append(s, e)
    BY <1>1
  <2> QED
    BY <2>1, <1>3 DEF ToSet
<1> QED
  BY <1>1, <1>4, <1>5, <1>6

LEMMA PeStaysInjective ==
    ASSUME NEW A, NEW s \in Seq(A), NEW e \in A, IsInjective(s), e \notin ToSet(s)
    PROVE  IsInjective(Append(s, e))
<1>1. DOMAIN Append(s, e) = 1 .. Len(s) + 1 /\ DOMAIN s = 1 .. Len(s) /\ Len(s) \in Nat
  OBVIOUS
<1>2. \A i \in 1 .. Len(s) : Append(s, e)[i] = s[i] /\ s[i] # e
  BY <1>1 DEF ToSet
<1>3. Append(s, e)[Len(s) + 1] = e
  OBVIOUS
<1>4. \A i, j \in 1 .. Len(s) : s[i] = s[j] => i = j
  BY <1>1 DEF IsInjective
<1>5. SUFFICES ASSUME NEW i \in 1 .. Len(s) + 1, NEW j \in 1 .. Len(s) + 1,
                      Append(s, e)[i] = Append(s, e)[j]
               PROVE  i = j
  BY <1>1 DEF IsInjective
<1>6. CASE i \in 1 .. Len(s) /\ j \in 1 .. Len(s)
  BY <1>2, <1>4, <1>5, <1>6
<1>7. CASE i \notin 1 .. Len(s) \/ j \notin 1 .. Len(s)
  <2>1. i \in 1 .. Len(s) \/ i = Len(s) + 1
    BY <1>1
  <2>2. j \in 1 .. Len(s) \/ j = Len(s) + 1
    BY <1>1
  <2> QED
    BY <1>2, <1>3, <1>5, <1>7, <2>1, <2>2
<1> QED
  BY <1>6, <1>7

LEMMA PeTail ==
    ASSUME NEW A, NEW s \in Seq(A), IsInjective(s), s # <<>>
    PROVE  /\ Tail(s) \in Seq(A) /\ IsInjective(Tail(s))
           /\ s[1] \in A
           /\ ToSet(Tail(s)) = ToSet(s) \ {s[1]}
<1>1. /\ Tail(s) \in Seq(A) /\ Len(s) \in Nat /\ Len(s) >= 1 /\ s[1] \in A
      /\ DOMAIN s = 1 .. Len(s) /\ DOMAIN Tail(s) = 1 .. Len(s) - 1
  OBVIOUS
<1>2. \A i \in 1 .. Len(s) - 1 : Tail(s)[i] = s[i + 1]
  OBVIOUS
<1>3. \A i, j \in 1 .. Len(s) : s[i] = s[j] => i = j
  BY <1>1 DEF IsInjective
<1>4. IsInjective(Tail(s))
  <2>1. SUFFICES ASSUME NEW i \in 1 .. Len(s) - 1, NEW j \in 1 .. Len(s) - 1, Tail(s)[i] = Tail(s)[j]
                 PROVE  i = j
    BY <1>1 DEF IsInjective
  <2>2. i + 1 \in 1 .. Len(s) /\ j + 1 \in 1 .. Len(s) /\ s[i + 1] = s[j + 1]
    BY <2>1, <1>1, <1>2
  <2>3. i + 1 = j + 1
    BY <2>2, <1>3
  <2> QED
    BY <2>3
<1>5. ToSet(Tail(s)) \subseteq ToSet(s) \ {s[1]}
  <2>1. SUFFICES ASSUME NEW i \in 1 .. Len(s) - 1 PROVE Tail(s)[i] \in ToSet(s) \ {s[1]}
    BY <1>1 DEF ToSet
  <2>2. i + 1 \in 1 .. Len(s) /\ 1 \in 1 .. Len(s) /\ i + 1 # 1 /\ Tail(s)[i] = s[i + 1]
    BY <2>1, <1>1, <1>2
  <2>3. s[i + 1] # s[1]
    BY <2>2, <1>3
  <2> QED
    BY <2>2, <2>3, <1>1 DEF ToSet
<1>6. ToSet(s) \ {s[1]} \subseteq ToSet(Tail(s))
  <2>1. SUFFICES ASSUME NEW i \in 1 .. Len(s), s[i] # s[1] PROVE s[i] \in ToSet(Tail(s))
    BY <1>1 DEF ToSet
  <2>2. PICK j \in 1 .. Len(s) - 1 : i = j + 1
    <3>1. i - 1 \in 1 .. Len(s) - 1 /\ i = (i - 1) + 1
      BY <2>1, <1>1
    <3> QED
      BY <3>1
  <2>3. Tail(s)[j] = s[i] /\ j \in DOMAIN Tail(s)
    BY <2>2, <1>2, <1>1
  <2> QED
    BY <2>3 DEF ToSet
<1> QED
  BY <1>1, <1>4, <1>5, <1>6

\* A step changes one replay.
LEMMA PeOneChanged ==
    ASSUME PeTypeOK, NEW c \in Invocations, NEW new \in PageReplays, peCall' = [peCall EXCEPT ![c] = new]
    PROVE  /\ peCall' \in [Invocations -> PageReplays]
           /\ peCall'[c] = new
           /\ \A d \in Invocations \ {c} : peCall'[d] = peCall[d]
BY DEF PeTypeOK

\* At most one replay runs, and it is the first of the queue.
LEMMA PeOnlyOneRuns ==
    ASSUME PageInvariant, NEW c \in Invocations, Runs(c)
    PROVE  /\ peQueue # <<>> /\ peQueue[1] = c
           /\ \A d \in Invocations \ {c} : ~Runs(d)
<1>1. Ongoing(c) /\ c \in ToSet(peQueue)
  BY DEF PageInvariant, PeOneAtATime, Ongoing, Runs
<1>2. peQueue # <<>>
  BY <1>1 DEF ToSet, PageInvariant, PeTypeOK
<1> QED
  BY <1>2 DEF PageInvariant, PeOneAtATime

(* A replay ends *)

LEMMA PeReplayEnds ==
    ASSUME PageInvariant, NEW c \in Invocations, Runs(c),
           NEW answer \in {"value", "error"},
           answer = "value" => /\ peCall[c].extra # "seen"
                               /\ peCall[c].kind = "transaction" => peCall[c].captured # NoInvocation,
           ReplayEnds(c, answer), UNCHANGED <<peEvents, peCrossed>>
    PROVE  PageInvariant'
<1>1. peCall[c] \in PageReplays /\ peRecorder \in PageRecorders /\ peCall[c].before \in Seq({RecorderHook})
  BY DEF PageInvariant, PeTypeOK, PeHooks
<1>2. PICK new : new = [peCall[c] EXCEPT !.stage = "over", !.answer = answer, !.failed = FALSE,
                          !.consumed = FALSE, !.inFlight = FALSE, !.before = <<>>, !.recording = FALSE]
  OBVIOUS
<1>3. /\ new.stage = "over" /\ new.answer = answer /\ new.inFlight = FALSE
      /\ new.sent = peCall[c].sent /\ new.index = peCall[c].index /\ new.extra = peCall[c].extra
      /\ new.kind = peCall[c].kind /\ new.captured = peCall[c].captured
  BY <1>1, <1>2 DEF PageReplays
<1>4. new \in PageReplays
  <2>1. <<>> \in Chains
    BY DEF Chains
  <2> QED
    BY <1>1, <1>2, <2>1 DEF PageReplays
<1>5. peCall' = [peCall EXCEPT ![c] = new]
  BY <1>2 DEF ReplayEnds, PageInvariant, PeTypeOK
<1>6. /\ peCall' \in [Invocations -> PageReplays] /\ peCall'[c] = new
      /\ \A d \in Invocations \ {c} : peCall'[d] = peCall[d]
  BY <1>4, <1>5, PeOneChanged DEF PageInvariant
<1>7. /\ peQueue \in Seq(Invocations) /\ IsInjective(peQueue) /\ peQueue # <<>> /\ peQueue[1] = c
      /\ \A d \in Invocations \ {c} : ~Runs(d)
  BY PeOnlyOneRuns DEF PageInvariant, PeTypeOK
<1>8. /\ peQueue' \in Seq(Invocations) /\ IsInjective(peQueue')
      /\ ToSet(peQueue') = ToSet(peQueue) \ {c}
  BY <1>7, PeTail DEF ReplayEnds
<1>9. \A d \in Invocations : ~Runs(d)'
  <2>1. ~Runs(c)'
    BY <1>3, <1>6 DEF Runs
  <2>2. \A d \in Invocations \ {c} : ~Runs(d)'
    BY <1>6, <1>7 DEF Runs
  <2> QED
    BY <2>1, <2>2
<1>10. peFetch' = peCall[c].before /\ peFetch' \in Seq({RecorderHook})
  BY <1>1 DEF ReplayEnds
<1>11. \A d \in Invocations : d \notin ToSet(peFetch')
  BY <1>10, PageExecutionConstants DEF ToSet
<1>12. /\ peRecorder' \in PageRecorders
       /\ peRecorder'.active = peRecorder.active /\ peRecorder'.before = peRecorder.before
       /\ peRecorder'.wrapped = peRecorder.wrapped
       /\ peRecorder'.crypto = (peRecorder.crypto /\ (peCall[c].kind = "transaction" => peCall[c].recording))
       /\ peRecorder'.timer = IF peRecorder.timer = "tracked" THEN "off" ELSE peRecorder.timer
  <2>1. peCall[c].recording \in BOOLEAN
    BY <1>1 DEF PageReplays
  <2> QED
    BY <1>1, <2>1 DEF ReplayEnds, PageRecorders
<1>13. PeTypeOK'
  <2>1. peFetch' \in Chains
    BY <1>10 DEF Chains
  <2>2. IsABag(peRequests') /\ BagToSet(peRequests') = {}
    BY DEF ReplayEnds, EmptyBag, SetToBag, IsABag, BagToSet
  <2> QED
    BY <1>6, <1>8, <1>12, <2>1, <2>2 DEF PageInvariant, PeTypeOK
<1>14. PeOneAtATime'
  <2>1. ~Ongoing(c)' /\ \A d \in Invocations \ {c} : Ongoing(d)' <=> Ongoing(d)
    BY <1>3, <1>6 DEF Ongoing
  <2> QED
    BY <2>1, <1>8, <1>9 DEF PageInvariant, PeOneAtATime
<1>15. PeHooks'
  BY <1>9, <1>11, <1>12 DEF PageInvariant, PeHooks
<1>16. PeOneUnderWay'
  BY DEF ReplayEnds, EmptyBag, SetToBag, PeOneUnderWay
<1>17. PeCounts'
  <2>1. Counted(peCall[c])
    BY DEF PageInvariant, PeCounts
  <2>2. Counted(new)
    BY <1>1, <1>3, <2>1 DEF Counted, PageReplays
  <2> QED
    BY <1>6, <2>2 DEF PageInvariant, PeCounts
<1>18. PeUndisturbed'
  <2>1. SUFFICES ASSUME ~peCrossed
                 PROVE  /\ peRecorder'.active => peRecorder'.before = <<>> /\ peRecorder'.wrapped = <<RecorderHook>>
                        /\ peRecorder'.timer = RecorderTimer'
                        /\ peFetch' = RecorderChain' /\ peRecorder'.crypto = peRecorder'.active
    BY <1>9 DEF PeUndisturbed
  <2>2. /\ peRecorder.active => peRecorder.before = <<>> /\ peRecorder.wrapped = <<RecorderHook>>
        /\ peRecorder.timer = RecorderTimer
        /\ peCall[c].before = RecorderChain /\ peCall[c].recording = peRecorder.active
        /\ peRecorder.crypto = (peRecorder.active \/ peCall[c].kind = "transaction")
    BY <2>1 DEF PageInvariant, PeUndisturbed
  <2>3. peRecorder'.timer = RecorderTimer'
    BY <1>12, <2>2 DEF RecorderTimer
  <2>4. peFetch' = RecorderChain'
    BY <1>10, <1>12, <2>2 DEF RecorderChain
  <2>5. peRecorder'.crypto = peRecorder'.active
    <3>1. peRecorder.active \in BOOLEAN
      BY <1>1 DEF PageRecorders
    <3>2. CASE peRecorder.active = TRUE
      BY <3>2, <1>12, <2>2
    <3>3. CASE peRecorder.active = FALSE
      BY <3>3, <1>12, <2>2
    <3> QED
      BY <3>1, <3>2, <3>3
  <2>6. peRecorder'.active => peRecorder'.before = <<>> /\ peRecorder'.wrapped = <<RecorderHook>>
    BY <1>12, <2>2
  <2> QED
    BY <2>3, <2>4, <2>5, <2>6
<1> QED
  BY <1>13, <1>14, <1>15, <1>16, <1>17, <1>18 DEF PageInvariant

LEMMA PeThrows == ASSUME PageInvariant, NEW c \in Invocations, Throws(c) PROVE PageInvariant'
<1>1. Runs(c) /\ ReplayEnds(c, "error") /\ UNCHANGED <<peEvents, peCrossed>>
  BY DEF Throws
<1> QED
  BY <1>1, PeReplayEnds

LEMMA PeSettles == ASSUME PageInvariant, NEW c \in Invocations, Settles(c) PROVE PageInvariant'
<1>1. Runs(c) /\ UNCHANGED <<peEvents, peCrossed>> /\ peCall[c].stage = "settling"
  BY DEF Settles, Runs
<1>2. PICK answer \in {"value", "error"} :
        (peCall[c].failed => answer = "error") /\ ReplayEnds(c, answer)
  BY DEF Settles
<1>3. Counted(peCall[c]) /\ peCall[c] \in PageReplays
  BY DEF PageInvariant, PeCounts, PeTypeOK
<1>4. answer = "value" => peCall[c].extra # "seen" /\ peCall[c].captured # NoInvocation
  BY <1>1, <1>2, <1>3 DEF Counted, PageReplays
<1> QED
  BY <1>1, <1>2, <1>4, PeReplayEnds

LEMMA PePlainReturns == ASSUME PageInvariant, NEW c \in Invocations, PlainReturns(c) PROVE PageInvariant'
<1>1. Runs(c) /\ UNCHANGED <<peEvents, peCrossed>> /\ peCall[c].kind = "plain"
  BY DEF PlainReturns, Runs
<1>2. PICK answer \in {"value", "error"} :
        (peCall[c].extra = "seen" => answer = "error") /\ ReplayEnds(c, answer)
  BY DEF PlainReturns
<1>3. answer = "value" => peCall[c].extra # "seen"
  BY <1>2
<1> QED
  BY <1>1, <1>2, <1>3, PeReplayEnds

-----------------------------------------------------------------------------
(* Steps that change one replay, and neither the queue nor any hook *)

LEMMA PeKept ==
    ASSUME PageInvariant, NEW c \in Invocations, NEW new \in PageReplays,
           peCall' = [peCall EXCEPT ![c] = new],
           Runs(c), new.stage \in {"running", "settling"},
           new.kind = peCall[c].kind, new.before = peCall[c].before, new.recording = peCall[c].recording,
           Counted(new),
           UNCHANGED <<peQueue, peFetch, peRecorder, peCrossed>>,
           peEvents' \in 0 .. MaxPeEvents,
           IsABag(peRequests'), BagToSet(peRequests') \subseteq PageRequests,
           \A r \in BagToSet(peRequests') : Runs(r.hook),
           PeOneUnderWay'
    PROVE  PageInvariant'
<1>1. /\ peCall' \in [Invocations -> PageReplays] /\ peCall'[c] = new
      /\ \A d \in Invocations \ {c} : peCall'[d] = peCall[d]
  BY PeOneChanged DEF PageInvariant
<1>2. \A d \in Invocations : Runs(d)' <=> Runs(d)
  <2>1. Runs(c)'
    BY <1>1 DEF Runs
  <2> QED
    BY <1>1, <2>1 DEF Runs
<1>3. \A d \in Invocations : Ongoing(d)' <=> Ongoing(d)
  <2>1. Ongoing(c) /\ Ongoing(c)'
    BY <1>1 DEF Runs, Ongoing
  <2> QED
    BY <1>1, <2>1 DEF Ongoing
<1>4. \A d \in Invocations : /\ peCall'[d].before = peCall[d].before /\ peCall'[d].kind = peCall[d].kind
                              /\ peCall'[d].recording = peCall[d].recording
  BY <1>1
<1>5. PeTypeOK'
  <2>1. \A r \in BagToSet(peRequests') : r.hook \in Invocations
    BY DEF PageRequests
  <2>2. \A r \in BagToSet(peRequests') : Runs(r.hook)'
    BY <2>1, <1>2
  <2> QED
    BY <1>1, <2>2 DEF PageInvariant, PeTypeOK
<1>6. PeOneAtATime'
  BY <1>2, <1>3 DEF PageInvariant, PeOneAtATime
<1>7. PeHooks'
  BY <1>2, <1>4 DEF PageInvariant, PeHooks
<1>8. PeCounts'
  BY <1>1 DEF PageInvariant, PeCounts
<1>9. PeUndisturbed'
  <2>1. SomethingRuns' <=> SomethingRuns
    BY <1>2 DEF SomethingRuns
  <2>2. RecorderChain' = RecorderChain /\ RecorderTimer' = RecorderTimer
    BY DEF RecorderChain, RecorderTimer
  <2> QED
    BY <1>2, <1>4, <2>1, <2>2 DEF PageInvariant, PeUndisturbed
<1> QED
  BY <1>5, <1>6, <1>7, <1>8, <1>9 DEF PageInvariant

LEMMA PeSettling ==
    ASSUME PageInvariant, NEW c \in Invocations, Wakes(c), ~peCall[c].failed,
           peCall[c].captured # NoInvocation
    PROVE  PageInvariant'
<1>1. peCall[c] \in PageReplays /\ Counted(peCall[c])
  BY DEF PageInvariant, PeTypeOK, PeCounts
<1>2. PICK new : new = [peCall[c] EXCEPT !.stage = "settling"]
  OBVIOUS
<1>3. /\ peCall' = [peCall EXCEPT ![c] = new] /\ UNCHANGED <<peFetch, peRecorder, peQueue, peRequests>>
      /\ UNCHANGED <<peEvents, peCrossed>>
      /\ peCall[c].kind = "transaction" /\ peCall[c].stage = "running"
  BY <1>2 DEF Wakes, PageInvariant, PeTypeOK
<1>4. /\ new \in PageReplays /\ new.stage = "settling" /\ new.kind = peCall[c].kind
      /\ new.before = peCall[c].before /\ new.recording = peCall[c].recording
      /\ new.sent = peCall[c].sent /\ new.index = peCall[c].index /\ new.extra = peCall[c].extra
      /\ new.captured = peCall[c].captured /\ new.inFlight = peCall[c].inFlight
      /\ new.failed = peCall[c].failed /\ new.answer = peCall[c].answer
  BY <1>1, <1>2 DEF PageReplays
<1>5. Counted(new)
  BY <1>1, <1>3, <1>4 DEF Counted
<1>6. PeOneUnderWay'
  <2>1. \A d \in Invocations : peCall'[d].inFlight = peCall[d].inFlight
    BY <1>3, <1>4, PeOneChanged DEF PageInvariant
  <2>2. \A r \in DOMAIN peRequests : r.hook \in Invocations
    BY DEF PageInvariant, PeTypeOK, BagToSet, PageRequests
  <2> QED
    BY <1>3, <2>1, <2>2 DEF PageInvariant, PeOneUnderWay
<1>7. Runs(c) /\ peEvents' \in 0 .. MaxPeEvents /\ IsABag(peRequests') /\ BagToSet(peRequests') \subseteq PageRequests
  BY <1>3 DEF PageInvariant, PeTypeOK, Runs
<1>8. \A r \in BagToSet(peRequests') : Runs(r.hook)
  BY <1>3 DEF PageInvariant, PeTypeOK
<1> QED
  BY <1>3, <1>4, <1>5, <1>6, <1>7, <1>8, PeKept

LEMMA PeWakes == ASSUME PageInvariant, NEW c \in Invocations, Wakes(c) PROVE PageInvariant'
<1>1. CASE peCall[c].failed \/ peCall[c].captured = NoInvocation
  <2>1. Runs(c) /\ ReplayEnds(c, "error") /\ UNCHANGED <<peEvents, peCrossed>>
    BY <1>1 DEF Wakes, Runs
  <2> QED
    BY <2>1, PeReplayEnds
<1>2. CASE ~(peCall[c].failed \/ peCall[c].captured = NoInvocation)
  BY <1>2, PeSettling
<1> QED
  BY <1>1, <1>2

LEMMA PeConverts == ASSUME PageInvariant, NEW c \in Invocations, Converts(c) PROVE PageInvariant'
<1>1. peCall[c] \in PageReplays /\ Counted(peCall[c])
  BY DEF PageInvariant, PeTypeOK, PeCounts
<1>2. PICK new : new = [peCall[c] EXCEPT !.consumed = TRUE]
  OBVIOUS
<1>3. /\ peCall' = [peCall EXCEPT ![c] = new] /\ Runs(c)
      /\ UNCHANGED <<peQueue, peFetch, peRecorder, peRequests, peEvents, peCrossed>>
  BY <1>2 DEF Converts, PageInvariant, PeTypeOK
<1>4. /\ new \in PageReplays /\ new.stage = peCall[c].stage /\ new.kind = peCall[c].kind
      /\ new.before = peCall[c].before /\ new.recording = peCall[c].recording
      /\ new.sent = peCall[c].sent /\ new.index = peCall[c].index /\ new.extra = peCall[c].extra
      /\ new.captured = peCall[c].captured /\ new.inFlight = peCall[c].inFlight
      /\ new.failed = peCall[c].failed /\ new.answer = peCall[c].answer
  BY <1>1, <1>2 DEF PageReplays
<1>5. Counted(new) /\ new.stage \in {"running", "settling"}
  BY <1>1, <1>3, <1>4 DEF Counted, Runs
<1>6. PeOneUnderWay'
  <2>1. \A d \in Invocations : peCall'[d].inFlight = peCall[d].inFlight
    BY <1>3, <1>4, PeOneChanged DEF PageInvariant
  <2>2. \A r \in DOMAIN peRequests : r.hook \in Invocations
    BY DEF PageInvariant, PeTypeOK, BagToSet, PageRequests
  <2> QED
    BY <1>3, <2>1, <2>2 DEF PageInvariant, PeOneUnderWay
<1>7. peEvents' \in 0 .. MaxPeEvents /\ IsABag(peRequests') /\ BagToSet(peRequests') \subseteq PageRequests
  BY <1>3 DEF PageInvariant, PeTypeOK
<1>8. \A r \in BagToSet(peRequests') : Runs(r.hook)
  BY <1>3 DEF PageInvariant, PeTypeOK
<1> QED
  BY <1>3, <1>4, <1>5, <1>6, <1>7, <1>8, PeKept

-----------------------------------------------------------------------------
(* Requests *)

\* A bag with one more request, and with one less.
MoreBy(B, r) == B (+) SetToBag({r})
LessBy(B, r) == B (-) SetToBag({r})

HasMore(more, B, r) ==
    /\ IsABag(more) /\ DOMAIN more = DOMAIN B \cup {r}
    /\ \A q \in DOMAIN B : q # r => more[q] = B[q]
    /\ r \notin DOMAIN B => more[r] = 1

LEMMA PeBagMore ==
    ASSUME NEW B, IsABag(B), NEW r
    PROVE  HasMore(MoreBy(B, r), B, r)
<1> PICK more : more = MoreBy(B, r)
  OBVIOUS
<1>1. SetToBag({r}) = [e \in {r} |-> 1]
  BY DEF SetToBag
<1>2. more = [e \in DOMAIN B \cup {r} |->
                (IF e \in DOMAIN B THEN B[e] ELSE 0) + (IF e \in {r} THEN SetToBag({r})[e] ELSE 0)]
  BY <1>1, Zenon DEF (+), MoreBy
<1>3. \A e \in DOMAIN B : B[e] \in Nat /\ B[e] > 0
  BY DEF IsABag
<1>4. SetToBag({r})[r] = 1
  BY <1>1
<1>5. DOMAIN more = DOMAIN B \cup {r} /\ \A e \in DOMAIN B \ {r} : more[e] = B[e] + 0
  BY <1>2, Zenon
<1>6. more[r] = (IF r \in DOMAIN B THEN B[r] ELSE 0) + 1
  BY <1>2, <1>4
<1>7. more = [e \in DOMAIN more |-> more[e]]
  BY <1>2
<1>8. \A e \in DOMAIN B \ {r} : more[e] = B[e]
  <2>1. \A e \in DOMAIN B \ {r} : B[e] + 0 = B[e]
    BY <1>3
  <2> QED
    BY <1>5, <2>1, Zenon
<1>9. \A e \in DOMAIN more : more[e] \in Nat /\ more[e] > 0
  BY <1>3, <1>5, <1>6, <1>8
<1>10. IsABag(more)
  BY <1>7, <1>9 DEF IsABag
<1>11. r \notin DOMAIN B => more[r] = 1
  BY <1>6
<1> QED
  BY <1>5, <1>8, <1>10, <1>11 DEF HasMore

LEMMA PeBagLess ==
    ASSUME NEW B, IsABag(B), NEW r \in DOMAIN B, NEW less, less = LessBy(B, r)
    PROVE  /\ IsABag(less) /\ DOMAIN less \subseteq DOMAIN B
           /\ \A q \in DOMAIN less : q # r => less[q] = B[q]
           /\ B[r] = 1 => r \notin DOMAIN less
<1> DEFINE minus == [e \in DOMAIN B |-> IF e \in DOMAIN SetToBag({r}) THEN B[e] - SetToBag({r})[e] ELSE B[e]]
<1>1. SetToBag({r}) = [e \in {r} |-> 1]
  BY DEF SetToBag
<1>2. less = [e \in {d \in DOMAIN minus : minus[d] > 0} |-> minus[e]]
  BY Zenon DEF (-), LessBy
<1>3. \A e \in DOMAIN B : B[e] \in Nat /\ B[e] > 0
  BY DEF IsABag
<1>4. DOMAIN minus = DOMAIN B /\ minus[r] = B[r] - 1 /\ \A e \in DOMAIN B \ {r} : minus[e] = B[e]
  BY <1>1
<1> HIDE DEF minus
<1>5. DOMAIN less = {d \in DOMAIN B : minus[d] > 0} /\ \A e \in DOMAIN less : less[e] = minus[e]
  BY <1>2, <1>4
<1>6. \A e \in DOMAIN less : less[e] \in Nat /\ less[e] > 0
  BY <1>3, <1>4, <1>5
<1>7. less = [e \in DOMAIN less |-> less[e]]
  BY <1>2, <1>5
<1>8. IsABag(less)
  BY <1>6, <1>7 DEF IsABag
<1>9. \A q \in DOMAIN less : q # r => less[q] = B[q]
  BY <1>4, <1>5
<1>10. B[r] = 1 => r \notin DOMAIN less
  BY <1>4, <1>5
<1>11. DOMAIN less \subseteq DOMAIN B
  BY <1>5
<1> QED
  BY <1>8, <1>9, <1>10, <1>11

\* The outermost hook of a replay is that of the one that runs.
LEMMA PeHookRuns ==
    ASSUME PageInvariant, NEW hook \in HookOf(peFetch)
    PROVE  hook \in Invocations /\ Runs(hook)
<1>1. PICK j \in DOMAIN peFetch : /\ hook = peFetch[j]
                                  /\ \A k \in j .. Len(peFetch) : peFetch[k] = RecorderHook <=> k > j
  BY DEF HookOf
<1>2. peFetch \in Seq(Invocations \cup {RecorderHook}) /\ j \in j .. Len(peFetch) /\ ~(j > j)
  BY DEF PageInvariant, PeTypeOK, Chains
<1>3. hook # RecorderHook /\ hook \in Invocations \cup {RecorderHook}
  BY <1>1, <1>2
<1>4. hook \in ToSet(peFetch)
  BY <1>1 DEF ToSet
<1> QED
  BY <1>3, <1>4 DEF PageInvariant, PeHooks

LEMMA PeSends == ASSUME PageInvariant, NEW c \in Invocations, Sends(c) PROVE PageInvariant'
<1>1. /\ UNCHANGED <<peQueue, peFetch, peRecorder, peCrossed>>
      /\ peEvents' \in 0 .. MaxPeEvents
  BY PageExecutionConstants DEF Sends, PageEvent, PageInvariant, PeTypeOK
<1>2. PICK hook \in HookOf(peFetch), sort \in {"prerequisite", "target", "other"} :
         IF peCall[hook].kind = "plain"
         THEN peCall' = [peCall EXCEPT ![hook].extra = "seen"] /\ UNCHANGED peRequests
         ELSE /\ peRequests' = peRequests (+) SetToBag({[by |-> c, hook |-> hook, kind |-> sort,
                                                        stage |-> "reading"]})
              /\ UNCHANGED peCall
  BY DEF Sends
<1>3. hook \in Invocations /\ Runs(hook)
  BY PeHookRuns
<1>4. peCall[hook] \in PageReplays /\ Counted(peCall[hook])
  BY <1>3 DEF PageInvariant, PeTypeOK, PeCounts
<1>5. /\ IsABag(peRequests) /\ DOMAIN peRequests \subseteq PageRequests
      /\ \A r \in DOMAIN peRequests : r.hook \in Invocations /\ Runs(r.hook)
  BY DEF PageInvariant, PeTypeOK, BagToSet, PageRequests
<1>6. CASE peCall[hook].kind = "plain"
  <2>1. PICK new : new = [peCall[hook] EXCEPT !.extra = "seen"]
    OBVIOUS
  <2>2. peCall' = [peCall EXCEPT ![hook] = new] /\ UNCHANGED peRequests
    BY <1>2, <1>3, <1>6, <2>1 DEF PageInvariant, PeTypeOK
  <2>3. /\ new \in PageReplays /\ new.stage = peCall[hook].stage /\ new.kind = peCall[hook].kind
        /\ new.before = peCall[hook].before /\ new.recording = peCall[hook].recording
        /\ new.sent = peCall[hook].sent /\ new.index = peCall[hook].index
        /\ new.captured = peCall[hook].captured /\ new.inFlight = peCall[hook].inFlight
        /\ new.failed = peCall[hook].failed /\ new.answer = peCall[hook].answer
    BY <1>4, <2>1 DEF PageReplays
  <2>4. new.stage \in {"running", "settling"}
    BY <1>3, <2>3 DEF Runs
  <2>5. Counted(new)
    BY <1>4, <1>6, <2>3, <2>4 DEF Counted
  <2>6. PeOneUnderWay'
    <3>1. \A d \in Invocations : peCall'[d].inFlight = peCall[d].inFlight
      BY <1>3, <2>2, <2>3, PeOneChanged DEF PageInvariant
    <3> QED
      BY <2>2, <3>1, <1>5 DEF PageInvariant, PeOneUnderWay
  <2> QED
    BY <1>1, <1>3, <1>5, <2>2, <2>3, <2>4, <2>5, <2>6, PeKept DEF BagToSet
<1>7. CASE peCall[hook].kind # "plain"
  <2>1. PICK r : r = [by |-> c, hook |-> hook, kind |-> sort, stage |-> "reading"]
    OBVIOUS
  <2>2. r \in PageRequests /\ r.hook = hook /\ r.stage = "reading"
    BY <1>3, <2>1 DEF PageRequests
  <2>3. peRequests' = MoreBy(peRequests, r) /\ UNCHANGED peCall
    BY <1>2, <1>7, <2>1, Zenon DEF MoreBy
  <2>4. /\ IsABag(peRequests') /\ DOMAIN peRequests' = DOMAIN peRequests \cup {r}
        /\ \A q \in DOMAIN peRequests : q # r => peRequests'[q] = peRequests[q]
    <3>1. PICK more : more = peRequests'
      OBVIOUS
    <3>2. more = MoreBy(peRequests, r) /\ IsABag(peRequests)
      BY <1>5, <2>3, <3>1
    <3>3. HasMore(more, peRequests, r)
      BY <3>2, PeBagMore
    <3> QED
      BY <3>1, <3>3, Zenon DEF HasMore
  <2>5. PeOneUnderWay'
    <3>1. \A q \in DOMAIN peRequests' : q.stage = "sent" => q \in DOMAIN peRequests /\ q # r
      BY <2>2, <2>4
    <3> QED
      BY <2>3, <2>4, <3>1 DEF PageInvariant, PeOneUnderWay
  <2>6. peCall' = [peCall EXCEPT ![hook] = peCall[hook]]
    BY <2>3 DEF PageInvariant, PeTypeOK
  <2>7. BagToSet(peRequests') \subseteq PageRequests /\ \A q \in BagToSet(peRequests') : Runs(q.hook)
    BY <1>3, <1>5, <2>2, <2>4 DEF BagToSet
  <2>8. peCall[hook].stage \in {"running", "settling"}
    BY <1>3 DEF Runs
  <2> QED
    BY <1>1, <1>3, <1>4, <2>4, <2>5, <2>6, <2>7, <2>8, PeKept
<1> QED
  BY <1>6, <1>7

\* A request is over.
LEMMA PeLeft ==
    ASSUME PageInvariant, NEW r \in BagToSet(peRequests), Left(r)
    PROVE  /\ r \in PageRequests /\ r.hook \in Invocations /\ Runs(r.hook)
           /\ IsABag(peRequests') /\ BagToSet(peRequests') \subseteq PageRequests
           /\ \A q \in BagToSet(peRequests') : Runs(q.hook)
           /\ DOMAIN peRequests' \subseteq DOMAIN peRequests
           /\ r.stage = "sent" => r \notin DOMAIN peRequests'
           /\ \A q \in DOMAIN peRequests' : q.stage = "sent" => peRequests'[q] = 1
<1>1. /\ IsABag(peRequests) /\ r \in DOMAIN peRequests /\ DOMAIN peRequests \subseteq PageRequests
      /\ \A q \in DOMAIN peRequests : q.hook \in Invocations /\ Runs(q.hook)
      /\ \A q \in DOMAIN peRequests : q.stage = "sent" => peRequests[q] = 1
  BY DEF PageInvariant, PeTypeOK, BagToSet, PageRequests, PeOneUnderWay
<1>2. /\ IsABag(peRequests') /\ DOMAIN peRequests' \subseteq DOMAIN peRequests
      /\ \A q \in DOMAIN peRequests' : q # r => peRequests'[q] = peRequests[q]
      /\ peRequests[r] = 1 => r \notin DOMAIN peRequests'
  <2>1. peRequests' = LessBy(peRequests, r)
    BY Zenon DEF Left, LessBy
  <2> QED
    BY <1>1, <2>1, PeBagLess
<1> QED
  BY <1>1, <1>2 DEF BagToSet

\* What remains to show where one request is over and one replay is changed.
LEMMA PeLeftKept ==
    ASSUME PageInvariant, NEW r \in BagToSet(peRequests), Left(r), NEW new \in PageReplays,
           peCall' = [peCall EXCEPT ![r.hook] = new],
           new.stage = peCall[r.hook].stage, new.kind = peCall[r.hook].kind,
           new.before = peCall[r.hook].before, new.recording = peCall[r.hook].recording,
           Counted(new),
           new.inFlight \/ ~peCall[r.hook].inFlight \/ r.stage = "sent",
           UNCHANGED <<peQueue, peFetch, peRecorder, peEvents, peCrossed>>
    PROVE  PageInvariant'
<1>1. /\ r \in PageRequests /\ r.hook \in Invocations /\ Runs(r.hook)
      /\ IsABag(peRequests') /\ BagToSet(peRequests') \subseteq PageRequests
      /\ \A q \in BagToSet(peRequests') : Runs(q.hook)
      /\ DOMAIN peRequests' \subseteq DOMAIN peRequests
      /\ r.stage = "sent" => r \notin DOMAIN peRequests'
      /\ \A q \in DOMAIN peRequests' : q.stage = "sent" => peRequests'[q] = 1
  BY PeLeft
<1>2. peCall'[r.hook] = new /\ \A d \in Invocations \ {r.hook} : peCall'[d] = peCall[d]
  BY <1>1, PeOneChanged DEF PageInvariant
<1>3. PeOneUnderWay'
  <2>1. ASSUME NEW q \in DOMAIN peRequests', q.stage = "sent" PROVE peCall'[q.hook].inFlight
    <3>1. q \in DOMAIN peRequests /\ q.hook \in Invocations /\ peCall[q.hook].inFlight
      BY <1>1, <2>1 DEF PageInvariant, PeOneUnderWay, BagToSet, PageRequests
    <3>2. CASE q.hook # r.hook
      BY <1>2, <3>1, <3>2
    <3>3. CASE q.hook = r.hook /\ r.stage = "sent"
      <4>1. q = r
        BY <2>1, <3>1, <3>3 DEF PageInvariant, PeOneUnderWay, BagToSet
      <4> QED
        BY <1>1, <3>3, <4>1
    <3>4. CASE q.hook = r.hook /\ r.stage # "sent"
      BY <1>2, <3>1, <3>4
    <3> QED
      BY <3>2, <3>3, <3>4
  <2>2. \A q, p \in DOMAIN peRequests' : q.stage = "sent" /\ p.stage = "sent" /\ q.hook = p.hook => q = p
    BY <1>1 DEF PageInvariant, PeOneUnderWay
  <2> QED
    BY <1>1, <2>1, <2>2 DEF PeOneUnderWay
<1>4. new.stage \in {"running", "settling"} /\ peEvents' \in 0 .. MaxPeEvents
  BY <1>1 DEF Runs, PageInvariant, PeTypeOK
<1> QED
  BY <1>1, <1>3, <1>4, PeKept

\* fail(), and what it may end with it.
LEMMA PeFails ==
    ASSUME PageInvariant, NEW r \in BagToSet(peRequests), Left(r),
           NEW still \in BOOLEAN, NEW extra \in {"none", "swallowed", "seen"},
           still => peCall[r.hook].inFlight,
           still \/ ~peCall[r.hook].inFlight \/ r.stage = "sent",
           peCall' = [peCall EXCEPT ![r.hook] =
                        [peCall[r.hook] EXCEPT !.failed = TRUE, !.inFlight = still, !.extra = extra]],
           UNCHANGED <<peQueue, peFetch, peRecorder, peEvents, peCrossed>>
    PROVE  PageInvariant'
<1>1. r.hook \in Invocations /\ Runs(r.hook)
  BY PeLeft
<1>2. PICK call : call = peCall[r.hook]
  OBVIOUS
<1>3. call \in PageReplays /\ Counted(call) /\ call.stage \in {"running", "settling"}
  BY <1>1, <1>2 DEF PageInvariant, PeTypeOK, PeCounts, Runs
<1>4. PICK new : new = [call EXCEPT !.failed = TRUE, !.inFlight = still, !.extra = extra]
  OBVIOUS
<1>5. /\ new.kind = call.kind /\ new.before = call.before /\ new.recording = call.recording
      /\ new.stage = call.stage /\ new.answer = call.answer
      /\ new.sent = call.sent /\ new.index = call.index /\ new.captured = call.captured
      /\ new.failed = TRUE /\ new.inFlight = still
      /\ new \in PageReplays
  BY <1>3, <1>4 DEF PageReplays
<1>6. Counted(new)
  BY <1>2, <1>3, <1>5 DEF Counted
<1>7. peCall' = [peCall EXCEPT ![r.hook] = new]
  BY <1>2, <1>4
<1>8. new.inFlight \/ ~peCall[r.hook].inFlight \/ r.stage = "sent"
  BY <1>5
<1> QED
  BY <1>2, <1>5, <1>6, <1>7, <1>8, PeLeftKept

LEMMA PeAnswered ==
    ASSUME PageInvariant, NEW r \in BagToSet(peRequests), Answered(r)
    PROVE  PageInvariant'
<1>1. /\ r.hook \in Invocations /\ Runs(r.hook) /\ Left(r) /\ r.stage = "sent"
      /\ UNCHANGED <<peQueue, peFetch, peRecorder, peEvents, peCrossed>>
  BY PeLeft DEF Answered
<1>2. PICK call : call = peCall[r.hook]
  OBVIOUS
<1>3. call \in PageReplays /\ Counted(call) /\ call.stage \in {"running", "settling"}
  BY <1>1, <1>2 DEF PageInvariant, PeTypeOK, PeCounts, Runs
<1>4. call.inFlight
  BY <1>1, <1>2 DEF PageInvariant, PeOneUnderWay, BagToSet
<1>5. peCall \in [Invocations -> PageReplays]
  BY DEF PageInvariant, PeTypeOK
<1>6. CASE /\ ~peCall[r.hook].failed
           /\ peCall' = [peCall EXCEPT ![r.hook].index = @ + 1, ![r.hook].inFlight = FALSE]
  <2>1. PICK new : new = [call EXCEPT !.index = @ + 1, !.inFlight = FALSE]
    OBVIOUS
  <2>2. peCall' = [peCall EXCEPT ![r.hook] = new]
    BY <1>1, <1>2, <1>5, <1>6, <2>1
  <2>3. call.sent = call.index + 1 /\ call.sent <= Prerequisites
    BY <1>3, <1>4 DEF Counted
  <2>4. call.index + 1 \in 0 .. Prerequisites /\ call.captured = NoInvocation
    BY <1>3, <2>3, PageExecutionConstants DEF PageReplays, Counted
  <2>5. /\ new.kind = call.kind /\ new.before = call.before /\ new.recording = call.recording
        /\ new.stage = call.stage /\ new.answer = call.answer /\ new.extra = call.extra
        /\ new.sent = call.sent /\ new.index = call.index + 1 /\ new.captured = call.captured
        /\ new.failed = call.failed /\ new.inFlight = FALSE
        /\ new \in PageReplays
    BY <1>3, <2>1, <2>4 DEF PageReplays
  <2>6. Counted(new)
    BY <1>2, <1>3, <2>3, <2>4, <2>5 DEF Counted, PageReplays
  <2> QED
    BY <1>1, <1>2, <2>2, <2>5, <2>6, PeLeftKept
<1>7. CASE peCall' = [Failed(r.hook) EXCEPT ![r.hook].inFlight = FALSE]
  <2>1. peCall' = [peCall EXCEPT ![r.hook] =
                     [peCall[r.hook] EXCEPT !.failed = TRUE, !.inFlight = FALSE, !.extra = call.extra]]
    <3>1. [peCall[r.hook] EXCEPT !.failed = TRUE, !.inFlight = FALSE, !.extra = call.extra]
            = [peCall[r.hook] EXCEPT !.failed = TRUE, !.inFlight = FALSE]
      BY <1>2, <1>3 DEF PageReplays
    <3> QED
      BY <1>1, <1>5, <1>7, <3>1 DEF Failed
  <2>2. call.extra \in {"none", "swallowed", "seen"}
    BY <1>3 DEF PageReplays
  <2> QED
    BY <1>1, <2>1, <2>2, PeFails
<1> QED
  BY <1>6, <1>7 DEF Answered

LEMMA PeTakeTarget ==
    ASSUME PageInvariant, NEW r \in BagToSet(peRequests), TakeTarget(r)
    PROVE  PageInvariant'
<1>1. /\ r \in PageRequests /\ r.hook \in Invocations /\ Runs(r.hook) /\ Left(r)
      /\ peCall[r.hook].index = Prerequisites
      /\ UNCHANGED <<peQueue, peFetch, peRecorder, peEvents, peCrossed>>
  BY PeLeft DEF TakeTarget
<1>2. PICK call : call = peCall[r.hook]
  OBVIOUS
<1>3. call \in PageReplays /\ Counted(call) /\ call.stage \in {"running", "settling"}
  BY <1>1, <1>2 DEF PageInvariant, PeTypeOK, PeCounts, Runs
<1>4. peCall \in [Invocations -> PageReplays]
  BY DEF PageInvariant, PeTypeOK
<1>5. CASE MayCapture(r) /\ peCall' = [peCall EXCEPT ![r.hook].captured = r.by]
  <2>1. call.captured = NoInvocation /\ ~call.failed /\ ~call.inFlight
    BY <1>2, <1>5 DEF MayCapture
  <2>2. PICK new : new = [call EXCEPT !.captured = r.by]
    OBVIOUS
  <2>3. peCall' = [peCall EXCEPT ![r.hook] = new]
    BY <1>1, <1>2, <1>4, <1>5, <2>2
  <2>4. r.by \in Invocations /\ r.by # NoInvocation
    BY <1>1, PageExecutionConstants DEF PageRequests
  <2>5. /\ new.kind = call.kind /\ new.before = call.before /\ new.recording = call.recording
        /\ new.stage = call.stage /\ new.answer = call.answer /\ new.extra = call.extra
        /\ new.sent = call.sent /\ new.index = call.index /\ new.captured = r.by
        /\ new.failed = call.failed /\ new.inFlight = call.inFlight
        /\ new \in PageReplays
    BY <1>3, <2>1, <2>2, <2>4 DEF PageReplays
  <2>6. Counted(new)
    BY <1>1, <1>2, <1>3, <2>1, <2>4, <2>5 DEF Counted
  <2>7. new.inFlight \/ ~peCall[r.hook].inFlight
    BY <1>2, <2>1
  <2> QED
    BY <1>1, <1>2, <2>3, <2>5, <2>6, <2>7, PeLeftKept
<1>6. CASE peCall' = [Failed(r.hook) EXCEPT ![r.hook].extra = "seen"]
  <2>1. peCall' = [peCall EXCEPT ![r.hook] =
                     [peCall[r.hook] EXCEPT !.failed = TRUE, !.inFlight = call.inFlight, !.extra = "seen"]]
    <3>1. [peCall[r.hook] EXCEPT !.failed = TRUE, !.inFlight = call.inFlight, !.extra = "seen"]
            = [peCall[r.hook] EXCEPT !.failed = TRUE, !.extra = "seen"]
      BY <1>2, <1>3 DEF PageReplays
    <3>2. peCall' = [peCall EXCEPT ![r.hook] = [peCall[r.hook] EXCEPT !.failed = TRUE, !.extra = "seen"]]
      BY <1>1, <1>4, <1>6 DEF Failed
    <3> QED
      BY <3>1, <3>2
  <2>2. call.inFlight \in BOOLEAN /\ (call.inFlight \/ ~peCall[r.hook].inFlight)
    BY <1>2, <1>3 DEF PageReplays
  <2> QED
    BY <1>1, <1>2, <2>1, <2>2, PeFails
<1> QED
  BY <1>5, <1>6 DEF TakeTarget

\* A request that is refused without a failure leaves its transaction where it was.
LEMMA PeSwallows ==
    ASSUME PageInvariant, NEW r \in BagToSet(peRequests), Swallows(r)
    PROVE  PageInvariant'
<1>1. /\ r.hook \in Invocations /\ Runs(r.hook) /\ Left(r)
      /\ UNCHANGED <<peQueue, peFetch, peRecorder, peEvents, peCrossed>>
  BY PeLeft DEF Swallows
<1>2. PICK call : call = peCall[r.hook]
  OBVIOUS
<1>3. call \in PageReplays /\ Counted(call) /\ call.stage \in {"running", "settling"}
  BY <1>1, <1>2 DEF PageInvariant, PeTypeOK, PeCounts, Runs
<1>4. PICK extra \in {"none", "swallowed", "seen"} :
        extra = IF call.extra = "seen" THEN "seen" ELSE "swallowed"
  OBVIOUS
<1>5. PICK new : new = [call EXCEPT !.extra = extra]
  OBVIOUS
<1>6. peCall' = [peCall EXCEPT ![r.hook] = new]
  BY <1>1, <1>2, <1>4, <1>5 DEF Swallows, PageInvariant, PeTypeOK
<1>7. /\ new.kind = call.kind /\ new.before = call.before /\ new.recording = call.recording
      /\ new.stage = call.stage /\ new.answer = call.answer /\ new.extra = extra
      /\ new.sent = call.sent /\ new.index = call.index /\ new.captured = call.captured
      /\ new.failed = call.failed /\ new.inFlight = call.inFlight
      /\ new \in PageReplays
  BY <1>3, <1>5 DEF PageReplays
<1>8. Counted(new)
  BY <1>3, <1>4, <1>7 DEF Counted
<1>9. new.inFlight \/ ~peCall[r.hook].inFlight
  BY <1>2, <1>3, <1>7 DEF PageReplays
<1> QED
  BY <1>1, <1>2, <1>6, <1>7, <1>8, <1>9, PeLeftKept

LEMMA PeTakePrerequisite ==
    ASSUME PageInvariant, NEW r \in BagToSet(peRequests), TakePrerequisite(r)
    PROVE  PageInvariant'
<1>1. /\ r \in PageRequests /\ r.hook \in Invocations /\ Runs(r.hook) /\ r \in DOMAIN peRequests
      /\ IsABag(peRequests) /\ DOMAIN peRequests \subseteq PageRequests
      /\ \A q \in DOMAIN peRequests : q.hook \in Invocations /\ Runs(q.hook)
      /\ peCall[r.hook].index < Prerequisites /\ r.stage = "reading"
      /\ UNCHANGED <<peQueue, peFetch, peRecorder, peEvents, peCrossed>>
  BY DEF TakePrerequisite, PageInvariant, PeTypeOK, BagToSet, PageRequests
<1>2. PICK call : call = peCall[r.hook]
  OBVIOUS
<1>3. call \in PageReplays /\ Counted(call) /\ call.stage \in {"running", "settling"}
  BY <1>1, <1>2 DEF PageInvariant, PeTypeOK, PeCounts, Runs
<1>4. peCall \in [Invocations -> PageReplays]
  BY DEF PageInvariant, PeTypeOK
<1>5. CASE /\ Declared(r) /\ ~peCall[r.hook].failed
           /\ peCall' = [peCall EXCEPT ![r.hook].inFlight = TRUE, ![r.hook].sent = @ + 1]
           /\ peRequests' = peRequests (-) SetToBag({r}) (+) SetToBag({[r EXCEPT !.stage = "sent"]})
  <2>1. ~call.inFlight /\ ~call.failed
    BY <1>2, <1>5 DEF Declared
  <2>2. call.sent = call.index /\ call.index + 1 <= Prerequisites /\ call.captured = NoInvocation
    BY <1>1, <1>2, <1>3, <2>1, PageExecutionConstants DEF Counted, PageReplays
  <2>3. PICK new : new = [call EXCEPT !.inFlight = TRUE, !.sent = call.sent + 1]
    OBVIOUS
  <2>4. peCall' = [peCall EXCEPT ![r.hook] = new]
    BY <1>1, <1>2, <1>4, <1>5, <2>3
  <2>5. /\ new.kind = call.kind /\ new.before = call.before /\ new.recording = call.recording
        /\ new.stage = call.stage /\ new.answer = call.answer /\ new.extra = call.extra
        /\ new.sent = call.sent + 1 /\ new.index = call.index /\ new.captured = call.captured
        /\ new.failed = call.failed /\ new.inFlight = TRUE
        /\ new \in PageReplays
    <3>1. PICK n \in Nat : n = call.sent + 1
      BY <1>3 DEF PageReplays
    <3> QED
      BY <1>3, <2>3, <3>1 DEF PageReplays
  <2>6. Counted(new)
    BY <1>2, <1>3, <2>2, <2>5 DEF Counted, PageReplays
  <2>7. PICK q : q = [r EXCEPT !.stage = "sent"]
    OBVIOUS
  <2>8. q \in PageRequests /\ q.hook = r.hook /\ q.stage = "sent"
    BY <1>1, <2>7 DEF PageRequests
  <2>9. PICK less : less = LessBy(peRequests, r)
    OBVIOUS
  <2>10. /\ IsABag(less) /\ DOMAIN less \subseteq DOMAIN peRequests
         /\ \A p \in DOMAIN less : p # r => less[p] = peRequests[p]
    BY <1>1, <2>9, PeBagLess
  <2>11. peRequests' = MoreBy(less, q)
    BY <1>5, <2>7, <2>9, Zenon DEF MoreBy, LessBy
  <2>12. q \notin DOMAIN less
    BY <1>2, <2>1, <2>8, <2>10 DEF PageInvariant, PeOneUnderWay
  <2>13. /\ IsABag(peRequests') /\ DOMAIN peRequests' = DOMAIN less \cup {q}
         /\ \A p \in DOMAIN less : p # q => peRequests'[p] = less[p]
         /\ peRequests'[q] = 1
    <3>1. PICK more : more = peRequests'
      OBVIOUS
    <3>2. more = MoreBy(less, q) /\ IsABag(less)
      BY <2>10, <2>11, <3>1
    <3>3. HasMore(more, less, q)
      BY <3>2, PeBagMore
    <3> QED
      BY <2>12, <3>1, <3>3, Zenon DEF HasMore
  <2>14. ASSUME NEW p \in DOMAIN less, p.stage = "sent"
         PROVE  p.hook \in Invocations /\ p.hook # r.hook /\ peRequests'[p] = 1 /\ peCall[p.hook].inFlight
    <3>1. p \in DOMAIN peRequests /\ p # r /\ peRequests'[p] = peRequests[p]
      BY <1>1, <2>10, <2>12, <2>13, <2>14
    <3> QED
      BY <1>1, <1>2, <2>1, <2>14, <3>1 DEF PageInvariant, PeOneUnderWay
  <2>15. peCall'[r.hook] = new /\ \A d \in Invocations \ {r.hook} : peCall'[d] = peCall[d]
    BY <1>1, <2>4, <2>5, PeOneChanged DEF PageInvariant
  <2>16. PeOneUnderWay'
    <3>1. ASSUME NEW p \in DOMAIN peRequests', p.stage = "sent"
          PROVE  peCall'[p.hook].inFlight /\ peRequests'[p] = 1
      <4>1. CASE p = q
        BY <4>1, <2>5, <2>8, <2>13, <2>15
      <4>2. CASE p # q
        BY <4>2, <3>1, <2>13, <2>14, <2>15
      <4> QED
        BY <4>1, <4>2
    <3>2. ASSUME NEW p \in DOMAIN peRequests', NEW o \in DOMAIN peRequests',
                 p.stage = "sent", o.stage = "sent", p.hook = o.hook
          PROVE  p = o
      <4>1. CASE p = q \/ o = q
        BY <4>1, <3>2, <2>8, <2>13, <2>14
      <4>2. CASE p # q /\ o # q
        BY <4>2, <3>2, <2>10, <2>13 DEF PageInvariant, PeOneUnderWay
      <4> QED
        BY <4>1, <4>2
    <3> QED
      BY <3>1, <3>2 DEF PeOneUnderWay
  <2>17. BagToSet(peRequests') \subseteq PageRequests /\ \A p \in BagToSet(peRequests') : Runs(p.hook)
    BY <1>1, <2>8, <2>10, <2>13 DEF BagToSet
  <2>18. peEvents' \in 0 .. MaxPeEvents
    BY <1>1 DEF PageInvariant, PeTypeOK
  <2> QED
    BY <1>1, <1>2, <1>3, <2>4, <2>5, <2>6, <2>13, <2>16, <2>17, <2>18, PeKept
<1>6. CASE peCall' = Failed(r.hook) /\ Left(r)
  <2>1. peCall' = [peCall EXCEPT ![r.hook] =
              [peCall[r.hook] EXCEPT !.failed = TRUE, !.inFlight = call.inFlight, !.extra = call.extra]]
    <3>1. [peCall[r.hook] EXCEPT !.failed = TRUE, !.inFlight = call.inFlight, !.extra = call.extra]
            = [peCall[r.hook] EXCEPT !.failed = TRUE]
      BY <1>2, <1>3 DEF PageReplays
    <3> QED
      BY <1>1, <1>4, <1>6, <3>1 DEF Failed
  <2>2. call.extra \in {"none", "swallowed", "seen"} /\ call.inFlight \in BOOLEAN
    BY <1>3 DEF PageReplays
  <2>3. call.inFlight \/ ~peCall[r.hook].inFlight
    BY <1>2
  <2> QED
    BY <1>1, <1>2, <1>6, <2>1, <2>2, <2>3, PeFails
<1> QED
  BY <1>5, <1>6 DEF TakePrerequisite

-----------------------------------------------------------------------------
(* A replay waits, and begins *)

LEMMA PeInvoke == ASSUME PageInvariant, NEW c \in Invocations, Invoke(c) PROVE PageInvariant'
<1>1. /\ peCall[c] \in PageReplays /\ Counted(peCall[c]) /\ peCall[c].stage = "none"
      /\ peQueue' = Append(peQueue, c) /\ peQueue \in Seq(Invocations) /\ IsInjective(peQueue)
      /\ UNCHANGED <<peFetch, peRecorder, peRequests, peEvents, peCrossed>>
  BY DEF Invoke, PageInvariant, PeTypeOK, PeCounts
<1>2. PICK asked \in {"transaction", "plain"} :
        peCall' = [peCall EXCEPT ![c].kind = asked, ![c].stage = "queued"]
  BY DEF Invoke
<1>3. PICK new : new = [peCall[c] EXCEPT !.kind = asked, !.stage = "queued"]
  OBVIOUS
<1>4. peCall' = [peCall EXCEPT ![c] = new]
  BY <1>2, <1>3 DEF PageInvariant, PeTypeOK
<1>5. /\ new \in PageReplays /\ new.stage = "queued" /\ new.answer = peCall[c].answer
      /\ new.sent = peCall[c].sent /\ new.index = peCall[c].index /\ new.extra = peCall[c].extra
      /\ new.captured = peCall[c].captured /\ new.inFlight = peCall[c].inFlight
      /\ new.failed = peCall[c].failed
  BY <1>1, <1>3 DEF PageReplays
<1>6. Counted(new)
  <2>2. new.kind # "plain" => (new.extra = "seen" => new.failed)
    BY <1>1, <1>5 DEF Counted
  <2> QED
    BY <1>1, <1>5, <2>2 DEF Counted
<1>7. /\ peCall' \in [Invocations -> PageReplays] /\ peCall'[c] = new
      /\ \A d \in Invocations \ {c} : peCall'[d] = peCall[d]
  BY <1>4, <1>5, PeOneChanged DEF PageInvariant
<1>8. ~Runs(c) /\ \A d \in Invocations : Runs(d)' <=> Runs(d)
  <2>1. ~Runs(c) /\ ~Runs(c)'
    BY <1>1, <1>5, <1>7 DEF Runs
  <2> QED
    BY <2>1, <1>7 DEF Runs
<1>9. c \notin ToSet(peQueue)
  BY <1>1 DEF PageInvariant, PeOneAtATime, Ongoing
<1>10. /\ peQueue' \in Seq(Invocations) /\ ToSet(peQueue') = ToSet(peQueue) \cup {c}
       /\ IsInjective(peQueue')
  BY <1>1, <1>9, PeAppended, PeStaysInjective
<1>11. PeTypeOK'
  <2>1. \A r \in BagToSet(peRequests) : r.hook \in Invocations /\ Runs(r.hook)
    BY DEF PageInvariant, PeTypeOK, PageRequests
  <2>2. \A r \in BagToSet(peRequests') : Runs(r.hook)'
    BY <1>1, <1>8, <2>1
  <2> QED
    BY <1>1, <1>7, <1>10, <2>2 DEF PageInvariant, PeTypeOK
<1>12. PeOneAtATime'
  <2>1. Ongoing(c)' /\ \A d \in Invocations \ {c} : Ongoing(d)' <=> Ongoing(d)
    BY <1>5, <1>7 DEF Ongoing
  <2>2. ASSUME NEW d \in Invocations, Runs(d) PROVE peQueue'[1] = d
    <3>1. peQueue # <<>> /\ peQueue[1] = d
      BY <2>2, PeOnlyOneRuns
    <3> QED
      BY <1>1, <3>1
  <2> QED
    BY <1>8, <1>10, <2>1, <2>2 DEF PageInvariant, PeOneAtATime
<1>13. PeHooks'
  BY <1>1, <1>7, <1>8 DEF PageInvariant, PeHooks
<1>14. PeOneUnderWay'
  <2>1. \A d \in Invocations : peCall'[d].inFlight = peCall[d].inFlight
    BY <1>5, <1>7
  <2>2. \A r \in DOMAIN peRequests : r.hook \in Invocations
    BY DEF PageInvariant, PeTypeOK, BagToSet, PageRequests
  <2> QED
    BY <1>1, <2>1, <2>2 DEF PageInvariant, PeOneUnderWay
<1>15. PeCounts'
  BY <1>6, <1>7 DEF PageInvariant, PeCounts
<1>16. PeUndisturbed'
  <2>1. SomethingRuns' <=> SomethingRuns
    BY <1>8 DEF SomethingRuns
  <2>2. RecorderChain' = RecorderChain /\ RecorderTimer' = RecorderTimer
    BY <1>1 DEF RecorderChain, RecorderTimer
  <2>3. \A d \in Invocations : Runs(d) => peCall'[d] = peCall[d]
    BY <1>7, <1>8
  <2> QED
    BY <1>1, <1>8, <2>1, <2>2, <2>3 DEF PageInvariant, PeUndisturbed
<1> QED
  BY <1>11, <1>12, <1>13, <1>14, <1>15, <1>16 DEF PageInvariant

LEMMA PeBeginReplay == ASSUME PageInvariant, NEW c \in Invocations, BeginReplay(c) PROVE PageInvariant'
<1>1. /\ peCall[c] \in PageReplays /\ Counted(peCall[c]) /\ peCall[c].stage = "queued"
      /\ peRecorder \in PageRecorders /\ peFetch \in Chains
      /\ Head(peQueue) = c /\ peQueue \in Seq(Invocations)
      /\ peFetch' = Append(peFetch, c)
      /\ UNCHANGED <<peQueue, peRequests, peEvents, peCrossed>>
  BY DEF BeginReplay, PageInvariant, PeTypeOK, PeCounts
<1>2. peQueue[1] = c
  <2>1. c \in ToSet(peQueue)
    BY <1>1 DEF PageInvariant, PeOneAtATime, Ongoing
  <2>2. peQueue # <<>>
    BY <2>1 DEF ToSet
  <2> QED
    BY <1>1, <2>2
<1>3. \A d \in Invocations : ~Runs(d)
  <2>1. ~Runs(c)
    BY <1>1 DEF Runs
  <2> QED
    BY <1>2, <2>1 DEF PageInvariant, PeOneAtATime
<1>4. PICK new : new = [peCall[c] EXCEPT !.stage = "running", !.before = peFetch, !.recording = peRecorder.active]
  OBVIOUS
<1>5. peCall' = [peCall EXCEPT ![c] = new]
  BY <1>4 DEF BeginReplay, PageInvariant, PeTypeOK
<1>6. /\ new \in PageReplays /\ new.stage = "running" /\ new.answer = peCall[c].answer
      /\ new.sent = peCall[c].sent /\ new.index = peCall[c].index /\ new.extra = peCall[c].extra
      /\ new.captured = peCall[c].captured /\ new.inFlight = peCall[c].inFlight
      /\ new.failed = peCall[c].failed /\ new.kind = peCall[c].kind
      /\ new.before = peFetch /\ new.recording = peRecorder.active
  <2>1. peRecorder.active \in BOOLEAN
    BY <1>1 DEF PageRecorders
  <2> QED
    BY <1>1, <1>4, <2>1 DEF PageReplays
<1>7. Counted(new)
  BY <1>1, <1>6 DEF Counted
<1>8. /\ peCall' \in [Invocations -> PageReplays] /\ peCall'[c] = new
      /\ \A d \in Invocations \ {c} : peCall'[d] = peCall[d]
  BY <1>5, <1>6, PeOneChanged DEF PageInvariant
<1>9. Runs(c)' /\ \A d \in Invocations \ {c} : ~Runs(d)'
  BY <1>3, <1>6, <1>8 DEF Runs
<1>10. /\ peRecorder' \in PageRecorders
       /\ peRecorder'.active = peRecorder.active /\ peRecorder'.before = peRecorder.before
       /\ peRecorder'.wrapped = peRecorder.wrapped /\ peRecorder'.timer = peRecorder.timer
       /\ peRecorder'.crypto = (peRecorder.crypto \/ peCall[c].kind = "transaction")
  BY <1>1 DEF BeginReplay, PageRecorders
<1>11. /\ peFetch' \in Chains /\ ToSet(peFetch') = ToSet(peFetch) \cup {c}
  BY <1>1, PeAppended DEF Chains
<1>12. \A d \in Invocations : d \notin ToSet(peFetch)
  BY <1>3 DEF PageInvariant, PeHooks
<1>13. peFetch \in Seq({RecorderHook})
  <2>1. \A i \in DOMAIN peFetch : peFetch[i] \in {RecorderHook}
    BY <1>1, <1>12 DEF Chains, ToSet
  <2>2. peFetch \in [1 .. Len(peFetch) -> {RecorderHook}] /\ Len(peFetch) \in Nat
    BY <1>1, <2>1 DEF Chains
  <2> QED
    BY <2>2
<1>14. PeTypeOK'
  <2>1. \A r \in BagToSet(peRequests) : r.hook \in Invocations /\ Runs(r.hook)
    BY DEF PageInvariant, PeTypeOK, PageRequests
  <2>2. \A r \in BagToSet(peRequests') : Runs(r.hook)'
    BY <1>1, <1>3, <2>1
  <2> QED
    BY <1>1, <1>8, <1>10, <1>11, <2>2 DEF PageInvariant, PeTypeOK
<1>15. PeOneAtATime'
  <2>1. Ongoing(c)' /\ Ongoing(c) /\ \A d \in Invocations \ {c} : Ongoing(d)' <=> Ongoing(d)
    BY <1>1, <1>6, <1>8 DEF Ongoing
  <2> QED
    BY <1>1, <1>2, <1>9, <2>1 DEF PageInvariant, PeOneAtATime
<1>16. PeHooks'
  <2>1. \A d \in Invocations : Runs(d)' <=> d \in ToSet(peFetch')
    BY <1>9, <1>11, <1>12
  <2>2. \A d \in Invocations : Runs(d)' => peCall'[d].before \in Seq({RecorderHook})
    BY <1>6, <1>8, <1>9, <1>13
  <2> QED
    BY <1>10, <2>1, <2>2 DEF PageInvariant, PeHooks
<1>17. PeOneUnderWay'
  <2>1. \A d \in Invocations : peCall'[d].inFlight = peCall[d].inFlight
    BY <1>6, <1>8
  <2>2. \A r \in DOMAIN peRequests : r.hook \in Invocations
    BY DEF PageInvariant, PeTypeOK, BagToSet, PageRequests
  <2> QED
    BY <1>1, <2>1, <2>2 DEF PageInvariant, PeOneUnderWay
<1>18. PeCounts'
  BY <1>7, <1>8 DEF PageInvariant, PeCounts
<1>19. PeUndisturbed'
  <2>1. SomethingRuns' /\ ~SomethingRuns
    BY <1>3, <1>9 DEF SomethingRuns
  <2>2. RecorderChain' = RecorderChain /\ RecorderTimer' = RecorderTimer
    BY <1>10 DEF RecorderChain, RecorderTimer
  <2>3. SUFFICES ASSUME ~peCrossed
                 PROVE  /\ peRecorder'.active => peRecorder'.before = <<>> /\ peRecorder'.wrapped = <<RecorderHook>>
                        /\ peRecorder'.timer = RecorderTimer
                        /\ new.before = RecorderChain /\ new.recording = peRecorder'.active
                        /\ peRecorder'.crypto = (peRecorder'.active \/ new.kind = "transaction")
    BY <1>1, <1>8, <1>9, <2>1, <2>2 DEF PeUndisturbed
  <2>4. /\ peRecorder.active => peRecorder.before = <<>> /\ peRecorder.wrapped = <<RecorderHook>>
        /\ peRecorder.timer = RecorderTimer
        /\ peFetch = RecorderChain /\ peRecorder.crypto = peRecorder.active
    BY <2>1, <2>3 DEF PageInvariant, PeUndisturbed
  <2> QED
    BY <1>6, <1>10, <2>4
<1> QED
  BY <1>14, <1>15, <1>16, <1>17, <1>18, <1>19 DEF PageInvariant

-----------------------------------------------------------------------------
(* The recorder *)

\* Without the recorder's hook the page still has those of replays.
LEMMA PeUnwrapped ==
    ASSUME PageInvariant
    PROVE  /\ Unwrapped \in Chains
           /\ \A d \in Invocations : d \in ToSet(Unwrapped) <=> Runs(d)
           /\ ~peCrossed /\ ~SomethingRuns => Unwrapped = <<>>
<1>1. /\ peRecorder.before \in Chains /\ peRecorder.wrapped \in Chains /\ peFetch \in Chains
      /\ \A d \in Invocations : d \in ToSet(peFetch) <=> Runs(d)
      /\ peRecorder.active => peRecorder.wrapped = Append(peRecorder.before, RecorderHook)
  BY DEF PageInvariant, PeTypeOK, PeHooks, PageRecorders
<1>2. CASE peRecorder.active /\ peFetch = peRecorder.wrapped
  <2>1. Unwrapped = peRecorder.before
    BY <1>2 DEF Unwrapped
  <2>2. ToSet(peFetch) = ToSet(peRecorder.before) \cup {RecorderHook}
    <3>1. /\ peRecorder.before \in Seq(Invocations \cup {RecorderHook})
          /\ RecorderHook \in Invocations \cup {RecorderHook}
      BY <1>1 DEF Chains
    <3>2. ToSet(Append(peRecorder.before, RecorderHook)) = ToSet(peRecorder.before) \cup {RecorderHook}
      BY <3>1, PeAppended
    <3> QED
      BY <1>1, <1>2, <3>2
  <2>3. \A d \in Invocations : d \in ToSet(peRecorder.before) <=> d \in ToSet(peFetch)
    BY <2>2, PageExecutionConstants
  <2>4. ~peCrossed => peRecorder.before = <<>>
    BY <1>2 DEF PageInvariant, PeUndisturbed
  <2> QED
    BY <1>1, <2>1, <2>3, <2>4
<1>3. CASE ~(peRecorder.active /\ peFetch = peRecorder.wrapped)
  <2>1. Unwrapped = peFetch
    BY <1>3 DEF Unwrapped
  <2>2. ~peCrossed /\ ~SomethingRuns => peFetch = <<>>
    <3>1. SUFFICES ASSUME ~peCrossed, ~SomethingRuns PROVE peFetch = <<>>
      OBVIOUS
    <3>2. peFetch = RecorderChain /\ (peRecorder.active => peRecorder.wrapped = <<RecorderHook>>)
      BY <3>1 DEF PageInvariant, PeUndisturbed
    <3> QED
      BY <1>3, <3>2 DEF RecorderChain
  <2> QED
    BY <1>1, <2>1, <2>2
<1> QED
  BY <1>2, <1>3

\* What remains to show where the recorder is commanded.
LEMMA PeCommand ==
    ASSUME PageInvariant, UNCHANGED <<peCall, peQueue, peRequests>>, Command,
           peRecorder' \in PageRecorders, peFetch' \in Chains,
           \A d \in Invocations : d \in ToSet(peFetch') <=> Runs(d),
           peRecorder'.active => peRecorder'.wrapped = Append(peRecorder'.before, RecorderHook),
           ~peCrossed /\ ~SomethingRuns =>
               /\ peRecorder'.active => peRecorder'.before = <<>> /\ peRecorder'.wrapped = <<RecorderHook>>
               /\ peRecorder'.timer = RecorderTimer'
               /\ peFetch' = RecorderChain' /\ peRecorder'.crypto = peRecorder'.active
    PROVE  PageInvariant'
<1>1. peEvents' \in 0 .. MaxPeEvents /\ peCrossed' = (peCrossed \/ SomethingRuns) /\ peCrossed' \in BOOLEAN
  BY PageExecutionConstants DEF Command, PageEvent, PageInvariant, PeTypeOK
<1>2. \A d : (Runs(d)' <=> Runs(d)) /\ (Ongoing(d)' <=> Ongoing(d))
  BY DEF Runs, Ongoing
<1>3. PeTypeOK'
  BY <1>1, <1>2 DEF PageInvariant, PeTypeOK
<1>4. PeOneAtATime'
  BY <1>2 DEF PageInvariant, PeOneAtATime
<1>5. PeHooks'
  BY <1>2 DEF PageInvariant, PeHooks
<1>6. PeOneUnderWay'
  BY DEF PageInvariant, PeOneUnderWay
<1>7. PeCounts'
  BY DEF PageInvariant, PeCounts
<1>8. PeUndisturbed'
  <2>1. SomethingRuns' <=> SomethingRuns
    BY <1>2 DEF SomethingRuns
  <2>2. SUFFICES ASSUME ~peCrossed, ~SomethingRuns
                 PROVE  /\ peRecorder'.active => peRecorder'.before = <<>> /\ peRecorder'.wrapped = <<RecorderHook>>
                        /\ peRecorder'.timer = RecorderTimer'
                        /\ peFetch' = RecorderChain' /\ peRecorder'.crypto = peRecorder'.active
                        /\ \A d \in Invocations : ~Runs(d)'
    BY <1>1, <2>1 DEF PeUndisturbed
  <2> QED
    BY <1>2, <2>2 DEF SomethingRuns
<1> QED
  BY <1>3, <1>4, <1>5, <1>6, <1>7, <1>8 DEF PageInvariant

LEMMA PeStartRecorder == ASSUME PageInvariant, StartRecorder PROVE PageInvariant'
<1>1. PICK chain : chain = Unwrapped
  OBVIOUS
<1>2. /\ chain \in Chains /\ \A d \in Invocations : d \in ToSet(chain) <=> Runs(d)
      /\ ~peCrossed /\ ~SomethingRuns => chain = <<>>
  BY <1>1, PeUnwrapped
<1>3. PICK timer \in {"own", "tracked"} : timer = IF SomethingRuns THEN "tracked" ELSE "own"
  OBVIOUS
<1>4. /\ Command /\ UNCHANGED <<peCall, peQueue, peRequests>> /\ peFetch' = Append(chain, RecorderHook)
      /\ peRecorder' = [active |-> TRUE, before |-> chain, wrapped |-> Append(chain, RecorderHook),
                        crypto |-> TRUE, timer |-> timer]
  BY <1>1, <1>3 DEF StartRecorder
<1>5. peFetch' \in Chains /\ ToSet(peFetch') = ToSet(chain) \cup {RecorderHook}
  BY <1>2, <1>4, PeAppended DEF Chains
<1>6. \A d \in Invocations : d \in ToSet(peFetch') <=> Runs(d)
  BY <1>2, <1>5, PageExecutionConstants
<1>7. /\ peRecorder' \in PageRecorders /\ peRecorder'.active = TRUE /\ peRecorder'.before = chain
      /\ peRecorder'.wrapped = peFetch' /\ peRecorder'.crypto = TRUE /\ peRecorder'.timer = timer
  BY <1>2, <1>4, <1>5 DEF PageRecorders
<1>8. ASSUME ~peCrossed, ~SomethingRuns
      PROVE  /\ peRecorder'.before = <<>> /\ peRecorder'.wrapped = <<RecorderHook>>
             /\ peRecorder'.timer = RecorderTimer'
             /\ peFetch' = RecorderChain' /\ peRecorder'.crypto = peRecorder'.active
  <2>1. chain = <<>> /\ timer = "own"
    BY <1>2, <1>3, <1>8
  <2>2. peFetch' = <<RecorderHook>>
    BY <1>4, <2>1
  <2> QED
    BY <1>7, <2>1, <2>2 DEF RecorderTimer, RecorderChain
<1>9. peRecorder'.wrapped = Append(peRecorder'.before, RecorderHook)
  BY <1>4, <1>7
<1> QED
  BY <1>4, <1>5, <1>6, <1>7, <1>8, <1>9, PeCommand

LEMMA PeStopRecorder == ASSUME PageInvariant, StopRecorder PROVE PageInvariant'
<1>1. PICK chain : chain = Unwrapped
  OBVIOUS
<1>2. /\ chain \in Chains /\ \A d \in Invocations : d \in ToSet(chain) <=> Runs(d)
      /\ ~peCrossed /\ ~SomethingRuns => chain = <<>>
  BY <1>1, PeUnwrapped
<1>3. /\ Command /\ UNCHANGED <<peCall, peQueue, peRequests>> /\ peFetch' = chain
      /\ peRecorder' = [active |-> FALSE, before |-> <<>>, wrapped |-> <<>>, crypto |-> FALSE, timer |-> "off"]
  BY <1>1 DEF StopRecorder
<1>4. /\ peRecorder' \in PageRecorders /\ peRecorder'.active = FALSE
      /\ peRecorder'.crypto = FALSE /\ peRecorder'.timer = "off"
  <2>1. <<>> \in Chains
    BY DEF Chains
  <2> QED
    BY <1>3, <2>1 DEF PageRecorders
<1>5. RecorderTimer' = "off" /\ RecorderChain' = <<>>
  BY <1>4 DEF RecorderTimer, RecorderChain
<1> QED
  BY <1>2, <1>3, <1>4, <1>5, PeCommand

-----------------------------------------------------------------------------
LEMMA PageStarts == ASSUME PeInit PROVE PageInvariant
<1>1. NotBegun \in PageReplays
  BY PageExecutionConstants DEF NotBegun, PageReplays, Chains
<1>2. peCall \in [Invocations -> PageReplays] /\ \A c \in Invocations : peCall[c] = NotBegun
  BY <1>1 DEF PeInit
<1>3. NotBegun.stage = "none" /\ Counted(NotBegun)
  BY PageExecutionConstants DEF NotBegun, Counted
<1>4. \A c \in Invocations : ~Runs(c) /\ ~Ongoing(c)
  BY <1>2, <1>3 DEF Runs, Ongoing
<1>5. peRecorder \in PageRecorders
  BY DEF PeInit, PageRecorders, Chains
<1>6. ToSet(peQueue) = {} /\ ToSet(peFetch) = {} /\ IsInjective(peQueue)
  BY DEF PeInit, ToSet, IsInjective
<1>7. IsABag(peRequests) /\ BagToSet(peRequests) = {} /\ DOMAIN peRequests = {}
  BY DEF PeInit, EmptyBag, SetToBag, IsABag, BagToSet
<1>8. PeTypeOK
  <2>1. peQueue \in Seq(Invocations) /\ peFetch \in Chains /\ peCrossed \in BOOLEAN
    <3>1. <<>> \in Seq(Invocations) /\ <<>> \in Chains
      BY DEF Chains
    <3>2. peQueue = <<>> /\ peFetch = <<>> /\ peCrossed = FALSE
      BY DEF PeInit
    <3> QED
      BY <3>1, <3>2
  <2>2. peEvents \in 0 .. MaxPeEvents
    BY PageExecutionConstants DEF PeInit
  <2> QED
    BY <1>2, <1>5, <1>6, <1>7, <2>1, <2>2 DEF PeTypeOK
<1>9. PeOneAtATime /\ PeHooks /\ PeOneUnderWay /\ PeCounts
  BY <1>2, <1>3, <1>4, <1>6, <1>7 DEF PeInit, PeOneAtATime, PeHooks, PeOneUnderWay, PeCounts
<1>10. PeUndisturbed
  BY <1>4 DEF PeInit, PeUndisturbed, RecorderChain, RecorderTimer
<1> QED
  BY <1>8, <1>9, <1>10 DEF PageInvariant

LEMMA PageStep == ASSUME PageInvariant, [PageSteps]_peVars PROVE PageInvariant'
<1>1. CASE UNCHANGED peVars
  <2>1. \A c : (Runs(c)' <=> Runs(c)) /\ (Ongoing(c)' <=> Ongoing(c))
    BY <1>1 DEF Runs, Ongoing, peVars
  <2>2. SomethingRuns' <=> SomethingRuns
    BY <2>1 DEF SomethingRuns
  <2> QED
    BY <1>1, <2>1, <2>2 DEF peVars, PageInvariant, PeTypeOK, PeOneAtATime, PeHooks, PeOneUnderWay,
       PeCounts,
        PeUndisturbed, RecorderChain, RecorderTimer
<1>2. CASE PageWorks
  BY <1>2, PeBeginReplay, PeWakes, PeSettles, PePlainReturns, PeTakePrerequisite, PeAnswered,
     PeTakeTarget, PeSwallows
     DEF PageWorks
<1>3. CASE StartRecorder \/ StopRecorder
  BY <1>3, PeStartRecorder, PeStopRecorder
<1>4. CASE \E c \in Invocations : Invoke(c) \/ Throws(c) \/ Converts(c) \/ Sends(c)
  BY <1>4, PeInvoke, PeThrows, PeConverts, PeSends
<1> QED
  BY <1>1, <1>2, <1>3, <1>4 DEF PageSteps

LEMMA PageInvariantSound == ASSUME PageInvariant PROVE ReplaySound
<1>1. PeTypeOK /\ ReplayIsHooked
  BY DEF PageInvariant, PeHooks, ReplayIsHooked
<1>2. PrerequisitesInOrder /\ ResultStandsAlone
  <2>1. \A c \in Invocations : /\ Counted(peCall[c]) /\ peCall[c].index \in 0 .. Prerequisites
                              /\ peCall[c].sent \in Nat /\ peCall[c].extra \in {"none", "swallowed", "seen"}
    BY DEF PageInvariant, PeCounts, PeTypeOK, PageReplays
  <2> QED
    BY <2>1, PageExecutionConstants DEF Counted, PrerequisitesInOrder, ResultStandsAlone
<1>3. RecorderIsHooked
  BY DEF PageInvariant, PeUndisturbed, RecorderIsHooked, RecorderChain, RecorderTimer
<1> QED
  BY <1>1, <1>2, <1>3 DEF ReplaySound

\* Replays in a page are hooked while they run, send their prerequisites in order and once,
\* answer with what stands alone, and leave the page as they found it.
THEOREM ReplaysAreSound == PageSpec => []ReplaySound
<1>1. PeInit => PageInvariant
  BY PageStarts
<1>2. PageInvariant /\ [PageSteps]_peVars => PageInvariant'
  BY PageStep
<1>3. PageInvariant => ReplaySound
  BY PageInvariantSound
<1> QED
  BY <1>1, <1>2, <1>3, PTL DEF PageSpec

(***************************************************************************)
(* Agent session                                                           *)
(***************************************************************************)
Blocks(state) == state \in {"paused", "waiting_for_human"}

\* A pause that holds is in the runtime and in storage, and nothing under way lifts it.
PauseKept ==
    held = "yes" =>
        /\ Blocks(runtime.state) /\ Blocks(disk.state)
        /\ \A r \in Requests : op[r] # "completed"
        /\ ui.op \notin {"resume", "complete"}

\* A pause that is applied and not acknowledged blocks the agent, or a completion
\* crosses it.
PauseSet ==
    (ui.op = "pause" /\ ui.stage = "applied") =>
        \/ held = "overtaken"
        \/ Blocks(runtime.state)
        \/ \E r \in Requests : op[r] = "completed"

\* An action runs for a request that was admitted. Storage may be one flush behind.
TimelineKept ==
    \A r \in Requests :
        /\ runtime.actions[r] = "running" => req[r] \in {"open", "past"}
        /\ disk.actions[r] = "running" => req[r] \in {"open", "closed", "past"}

\* The operation of a request starts when it is admitted.
OperationAfter ==
    \A r \in Requests : req[r] \in {"new", "entering"} => op[r] = "none"

\* The parts of the type invariant. An operation that is under way is one.
RuntimeTyped == runtime \in Runtime /\ disk \in Runtime
RequestsTyped ==
    /\ kind \in [Requests -> {"act", "ask", "resolve"}]
    /\ req \in [Requests -> {"new", "entering", "open", "closed", "past"}]
    /\ op \in [Requests -> {"none", "run", "stored", "completed", "cancelled", "applied", "over"}]
    /\ known \in [Requests -> 0 .. MaxHandoffs]
    /\ inFlight \subseteq Requests /\ aborted \subseteq Requests
UserTyped ==
    /\ handoff \in [id : 0 .. MaxHandoffs,
                    state : {"idle", "waiting_for_user", "completed", "cancelled"}]
    /\ ui \in [op : UiOps \cup {"none"},
               stage : {"none", "access", "stopping", "apply", "applied"},
               known : 0 .. MaxHandoffs]
    /\ ui.op = "none" => ui.stage = "none"
    /\ held \in {"no", "overtaken", "yes", "crossed"}
    /\ uis \in 0 .. MaxUi /\ kills \in 0 .. MaxKills

Typed == RuntimeTyped /\ RequestsTyped /\ UserTyped

SessionInv == Typed /\ PauseKept /\ PauseSet /\ TimelineKept /\ OperationAfter

-----------------------------------------------------------------------------
(* What the pieces of the runtime do to it *)

LEMMA SetStateEffect ==
    ASSUME Typed, NEW s \in RuntimeStates, SetState(s)
    PROVE  /\ runtime' \in Runtime
           /\ runtime'.state = s
           /\ runtime'.actions = runtime.actions
  BY DEF Typed, RuntimeTyped, SetState, Runtime

\* No action starts, and the one that ends does not run.
LEMMA FinishEffect ==
    ASSUME Typed, NEW r \in Requests, Finish(r)
    PROVE  /\ runtime' \in Runtime
           /\ runtime'.state = runtime.state
           /\ \A x \in Requests : runtime'.actions[x] = "running" =>
                  runtime.actions[x] = "running" /\ x # r
<1>1. runtime \in Runtime
  BY DEF Typed, RuntimeTyped
<1>2. PICK ended : ended = [runtime.actions EXCEPT ![r] = IF @ = "running" THEN "ended" ELSE @]
  OBVIOUS
<1>3. /\ runtime' = [runtime EXCEPT !.actions = ended]
      /\ ended \in [Requests -> ActionStates]
      /\ \A x \in Requests : ended[x] = "running" => runtime.actions[x] = "running" /\ x # r
  BY <1>1, <1>2 DEF Finish, Runtime, ActionStates
<1>4. QED
  BY <1>1, <1>3 DEF Runtime

\* An answer ends the operation, and with its request at most its action.
LEMMA AnswerEffect ==
    ASSUME Typed, NEW r \in Requests, Answer(r)
    PROVE  /\ runtime' \in Runtime
           /\ runtime'.state = runtime.state
           /\ op' = [op EXCEPT ![r] = "over"]
           /\ req' \in [Requests -> {"new", "entering", "open", "closed", "past"}]
           /\ inFlight' \subseteq Requests
           /\ \A x \in Requests : /\ runtime'.actions[x] = "running" =>
                                       runtime.actions[x] = "running" /\ req'[x] = req[x]
                                  /\ req'[x] # req[x] => req[x] = "open" /\ req'[x] = "closed"
<1>1. CASE req[r] = "open" /\ r \notin aborted
  <2>1. Close(r) /\ Finish(r) /\ op' = [op EXCEPT ![r] = "over"]
    BY <1>1 DEF Answer
  <2>2. /\ req' = [req EXCEPT ![r] = "closed"]
        /\ inFlight' = inFlight \ {r}
    BY <2>1 DEF Close
  <2>3. req' \in [Requests -> {"new", "entering", "open", "closed", "past"}]
    BY <2>2 DEF Typed, RequestsTyped
  <2>4. QED
    BY <1>1, <2>1, <2>2, <2>3, FinishEffect DEF Typed, RequestsTyped
<1>2. CASE ~(req[r] = "open" /\ r \notin aborted)
  BY <1>2 DEF Answer, Typed, RuntimeTyped, RequestsTyped
<1>3. QED
  BY <1>1, <1>2

LEMMA ApplyEffect ==
    ASSUME Typed, UiApply
    PROVE  /\ runtime' \in Runtime
           /\ ui.op \in {"pause", "cancel"} => runtime'.state = "paused"
           /\ ui.op = "clear" => runtime'.state = runtime.state
           /\ \A r \in Requests : runtime'.actions[r] = "running" => runtime.actions[r] = "running"
<1>1. ui.op \in {"pause", "resume", "complete", "cancel", "clear"}
  BY SessionConstants DEF Typed, UserTyped, UiApply
<1>2. CASE ui.op = "clear"
  <2>1. runtime' = [runtime EXCEPT !.actions = [r \in Requests |-> "none"]]
    BY <1>2 DEF UiApply
  <2>2. QED
    BY <1>2, <2>1 DEF Typed, RuntimeTyped, Runtime, ActionStates
<1>3. CASE ui.op # "clear"
  <2>1. CASE ui.op \in {"pause", "cancel"}
    <3>1. SetState("paused")
      BY <2>1 DEF UiApply, StateAfter, OutcomeOf
    <3>2. QED
      BY <1>3, <3>1, SetStateEffect DEF RuntimeStates
  <2>2. CASE ui.op \in {"resume", "complete"}
    <3>1. SetState("running")
      BY <2>2 DEF UiApply, StateAfter, OutcomeOf
    <3>2. QED
      BY <1>3, <2>2, <3>1, SetStateEffect DEF RuntimeStates
  <2>3. QED
    BY <1>1, <1>3, <2>1, <2>2
<1>4. QED
  BY <1>2, <1>3

-----------------------------------------------------------------------------
(* The inductive invariant *)

LEMMA SessionInitInvariant == Init => SessionInv
<1> SUFFICES ASSUME Init PROVE SessionInv
  OBVIOUS
<1> USE SessionConstants DEF Init, EmptyRuntime, NoUi
<1>1. RuntimeTyped
  BY DEF RuntimeTyped, Runtime, RuntimeStates, ActionStates
<1>2. RequestsTyped
  <2>1. kind \in [Requests -> {"act", "ask", "resolve"}]
    OBVIOUS
  <2>2. 0 \in 0 .. MaxHandoffs
    OBVIOUS
  <2>3. QED
    BY <2>1, <2>2 DEF RequestsTyped
<1>3. UserTyped
  BY DEF UserTyped
<1>4. PauseKept /\ PauseSet /\ TimelineKept /\ OperationAfter
  BY DEF PauseKept, PauseSet, TimelineKept, OperationAfter
<1>5. QED
  BY <1>1, <1>2, <1>3, <1>4 DEF SessionInv, Typed

LEMMA NextRuntimeTyped ==
    ASSUME SessionInv, [Next]_vars
    PROVE  RuntimeTyped'
<1> USE DEF RuntimeTyped
<1>0. Typed /\ runtime \in Runtime /\ disk \in Runtime
  BY DEF SessionInv, Typed
<1>1. CASE Flush \/ Kill
  BY <1>0, <1>1 DEF Flush, Kill
<1>2. ASSUME NEW r \in Requests, Begin(r)
      PROVE  RuntimeTyped'
  BY <1>0, <1>2 DEF Begin, Runtime, RuntimeStates, ActionStates
<1>3. ASSUME NEW r \in Requests, Cancelled(r)
      PROVE  RuntimeTyped'
  BY <1>0, <1>3, FinishEffect DEF Cancelled
<1>4. ASSUME NEW r \in Requests,
             Work(r) \/ AskRefused(r) \/ EngineResolveRefused(r) \/ OperationStored(r)
      PROVE  RuntimeTyped'
  BY <1>0, <1>4, AnswerEffect DEF Work, AskRefused, EngineResolveRefused, OperationStored
<1>5. ASSUME NEW r \in Requests, AskApply(r) \/ EngineApply(r)
      PROVE  RuntimeTyped'
  <2>1. UNCHANGED disk /\ \E s \in RuntimeStates : SetState(s)
    BY <1>5 DEF AskApply, EngineApply, StateAfter, RuntimeStates
  <2>2. QED
    BY <1>0, <2>1, SetStateEffect
<1>6. CASE UiApply
  BY <1>0, <1>6, ApplyEffect DEF UiApply
<1>7. CASE UiAck
  BY <1>0, <1>7 DEF UiAck
<1>8. ASSUME UNCHANGED <<runtime, disk>>
      PROVE  RuntimeTyped'
  BY <1>0, <1>8
<1>9. QED
  BY <1>1, <1>2, <1>3, <1>4, <1>5, <1>6, <1>7, <1>8
     DEF Next, Disconnect, Receive, Cancel, Deny, BeginUnseen, Ask, EngineResolve, UiStart,
         PauseCancels, PauseStopped, UiReady, UiResolves, UiResolveRefused, vars

LEMMA NextRequestsTyped ==
    ASSUME SessionInv, [Next]_vars
    PROVE  RequestsTyped'
<1> USE DEF RequestsTyped, requestVars
<1>0. Typed /\ RequestsTyped
  BY DEF SessionInv, Typed
<1>1. CASE Disconnect \/ PauseCancels
  BY <1>0, <1>1 DEF Disconnect, PauseCancels, Abort
<1>2. CASE Kill
  BY <1>0, <1>2 DEF Kill
<1>3. ASSUME NEW r \in Requests, Receive(r)
      PROVE  RequestsTyped'
  <2>1. handoff.id \in 0 .. MaxHandoffs /\ 0 \in 0 .. MaxHandoffs
    BY <1>0, SessionConstants DEF Typed, UserTyped
  <2>2. QED
    BY <1>0, <1>3, <2>1 DEF Receive
<1>4. ASSUME NEW r \in Requests,
             Cancel(r) \/ Deny(r) \/ Begin(r) \/ BeginUnseen(r) \/ Cancelled(r)
      PROVE  RequestsTyped'
  BY <1>0, <1>4 DEF Cancel, Deny, Begin, BeginUnseen, Cancelled, Close
<1>5. ASSUME NEW r \in Requests,
             Work(r) \/ AskRefused(r) \/ EngineResolveRefused(r) \/ OperationStored(r)
      PROVE  RequestsTyped'
  <2>1. Answer(r) /\ UNCHANGED <<kind, known, aborted>>
    BY <1>5 DEF Work, AskRefused, EngineResolveRefused, OperationStored
  <2>2. QED
    BY <1>0, <2>1, AnswerEffect
<1>6. ASSUME NEW r \in Requests, Ask(r) \/ AskApply(r) \/ EngineResolve(r) \/ EngineApply(r)
      PROVE  RequestsTyped'
  BY <1>0, <1>6 DEF Ask, AskApply, EngineResolve, EngineApply
<1>7. ASSUME UNCHANGED requestVars
      PROVE  RequestsTyped'
  BY <1>0, <1>7
<1>8. QED
  BY <1>1, <1>2, <1>3, <1>4, <1>5, <1>6, <1>7
     DEF Next, Flush, UiStart, PauseStopped, UiReady, UiResolves, UiResolveRefused, UiApply, UiAck, vars

LEMMA NextUserTyped ==
    ASSUME SessionInv, [Next]_vars
    PROVE  UserTyped'
<1> USE DEF UserTyped, boundVars
<1>0. Typed /\ UserTyped
  BY DEF SessionInv, Typed
<1>1. ASSUME NEW r \in Requests, Ask(r)
      PROVE  UserTyped'
  BY <1>0, <1>1, SessionConstants DEF Ask
<1>2. ASSUME NEW r \in Requests, EngineResolve(r)
      PROVE  UserTyped'
  BY <1>0, <1>2 DEF EngineResolve, Resolves
<1>3. ASSUME NEW r \in Requests, EngineApply(r)
      PROVE  UserTyped'
  BY <1>0, <1>3 DEF EngineApply
<1>4. ASSUME NEW o \in UiOps, UiStart(o)
      PROVE  UserTyped'
  <2>1. o # "none" /\ uis' \in 0 .. MaxUi /\ 0 \in 0 .. MaxHandoffs
    BY <1>0, <1>4, SessionConstants DEF UiStart
  <2>2. QED
    BY <1>0, <1>4, <2>1 DEF UiStart
<1>5. CASE PauseCancels \/ PauseStopped \/ UiReady \/ UiResolves \/ UiApply
  <2>1. ui.op # "none"
    BY <1>0, <1>5 DEF PauseCancels, PauseStopped, UiReady, UiResolves, UiApply
  <2>2. /\ \E s \in {"stopping", "apply", "applied"} : ui' = [ui EXCEPT !.stage = s]
        /\ handoff' = handoff \/ \E outcome \in {"completed", "cancelled"} : Resolves(ui.known, outcome)
        /\ UNCHANGED <<held, uis, kills>>
    BY <1>5 DEF PauseCancels, PauseStopped, UiReady, UiResolves, UiApply, UiGoto, OutcomeOf
  <2>3. QED
    BY <1>0, <2>1, <2>2 DEF Resolves
<1>6. CASE UiResolveRefused \/ UiAck
  BY <1>0, <1>6, SessionConstants DEF UiResolveRefused, UiAck, NoUi, HoldIfPause
<1>7. CASE Kill
  BY <1>0, <1>7, SessionConstants DEF Kill, NoUi
<1>8. ASSUME UNCHANGED <<handoff, ui, held, uis, kills>>
      PROVE  UserTyped'
  BY <1>0, <1>8
<1>9. QED
  BY <1>1, <1>2, <1>3, <1>4, <1>5, <1>6, <1>7, <1>8
     DEF Next, Flush, Disconnect, Receive, Cancel, Deny, Begin, BeginUnseen, Cancelled, Work,
         AskRefused, AskApply, EngineResolveRefused, OperationStored, vars

\* No step lifts a pause that holds, and what is stored meanwhile blocks as well.
LEMMA NextPauseKept ==
    ASSUME SessionInv, [Next]_vars
    PROVE  PauseKept'
<1> USE DEF PauseKept, boundVars, requestVars
<1>0. Typed /\ PauseKept
  BY DEF SessionInv
<1>1. CASE Flush
  BY <1>0, <1>1 DEF Flush
<1>2. CASE Kill
  BY <1>0, <1>2 DEF Kill, NoUi
<1>3. ASSUME NEW r \in Requests, Begin(r)
      PROVE  PauseKept'
  <2>1. held # "yes" /\ held' = held
    BY <1>0, <1>3 DEF Begin, Blocked, Blocks
  <2>2. QED
    BY <2>1
<1>4. ASSUME NEW r \in Requests, BeginUnseen(r) \/ Ask(r)
      PROVE  PauseKept'
  BY <1>0, <1>4 DEF BeginUnseen, Ask, Typed, RequestsTyped
<1>5. ASSUME NEW r \in Requests, Cancelled(r)
      PROVE  PauseKept'
  BY <1>0, <1>5, FinishEffect DEF Cancelled
<1>6. ASSUME NEW r \in Requests,
             Work(r) \/ AskRefused(r) \/ EngineResolveRefused(r) \/ OperationStored(r)
      PROVE  PauseKept'
  <2>1. Answer(r) /\ UNCHANGED <<ui, held>> /\ disk' \in {disk, runtime}
    BY <1>6 DEF Work, AskRefused, EngineResolveRefused, OperationStored
  <2>2. QED
    BY <1>0, <2>1, AnswerEffect DEF Typed, RequestsTyped
<1>7. ASSUME NEW r \in Requests, AskApply(r)
      PROVE  PauseKept'
  <2>1. runtime'.state = "waiting_for_human"
    BY <1>0, <1>7, SetStateEffect DEF AskApply, RuntimeStates
  <2>2. QED
    BY <1>0, <1>7, <2>1 DEF AskApply, Blocks, Typed, RequestsTyped
<1>8. ASSUME NEW r \in Requests, EngineResolve(r)
      PROVE  PauseKept'
  BY <1>0, <1>8 DEF EngineResolve, Typed, RequestsTyped
<1>9. ASSUME NEW r \in Requests, EngineApply(r)
      PROVE  PauseKept'
  <2>1. CASE op[r] = "completed"
    BY <1>0, <1>9, <2>1 DEF EngineApply
  <2>2. CASE op[r] = "cancelled"
    <3>1. SetState("paused")
      BY <1>9, <2>2 DEF EngineApply, StateAfter
    <3>2. runtime'.state = "paused"
      BY <1>0, <3>1, SetStateEffect DEF RuntimeStates
    <3>3. QED
      BY <1>0, <1>9, <2>2, <3>2 DEF EngineApply, Blocks, Typed, RequestsTyped
  <2>3. QED
    BY <1>9, <2>1, <2>2 DEF EngineApply
<1>10. ASSUME NEW o \in UiOps, UiStart(o)
       PROVE  PauseKept'
  BY <1>0, <1>10 DEF UiStart
<1>11. CASE PauseCancels \/ PauseStopped \/ UiReady \/ UiResolves
  BY <1>0, <1>11 DEF PauseCancels, PauseStopped, UiReady, UiResolves, UiGoto, Typed, UserTyped
<1>12. CASE UiApply
  <2>1. SUFFICES ASSUME held = "yes"
                 PROVE  PauseKept'
    BY <1>12 DEF UiApply
  <2>2. ui.op \in {"pause", "cancel", "clear"}
    BY <1>0, <1>12, <2>1, SessionConstants DEF UiApply, Typed, UserTyped
  <2>3. Blocks(runtime'.state)
    BY <1>0, <1>12, <2>1, <2>2, ApplyEffect DEF Blocks
  <2>4. QED
    BY <1>0, <1>12, <2>1, <2>3 DEF UiApply, UiGoto, Typed, UserTyped
<1>13. CASE UiResolveRefused
  BY <1>0, <1>13 DEF UiResolveRefused, NoUi
<1>14. CASE UiAck
  <2>1. /\ disk' = runtime /\ ui' = NoUi /\ HoldIfPause
        /\ ui.stage = "applied" /\ UNCHANGED <<runtime, op>>
    BY <1>14 DEF UiAck
  <2>2. CASE ui.op # "pause"
    BY <1>0, <2>1, <2>2 DEF HoldIfPause, NoUi
  <2>3. CASE ui.op = "pause"
    <3>1. SUFFICES ASSUME held' = "yes"
                   PROVE  PauseKept'
      OBVIOUS
    <3>2. held # "overtaken" /\ \A r \in Requests : op[r] # "completed"
      BY <2>1, <2>3, <3>1 DEF HoldIfPause
    <3>3. Blocks(runtime.state)
      BY <2>1, <2>3, <3>2 DEF SessionInv, PauseSet
    <3>4. QED
      BY <2>1, <3>2, <3>3 DEF NoUi
  <2>4. QED
    BY <2>2, <2>3
<1>15. ASSUME UNCHANGED <<runtime, disk, op, ui, held>>
       PROVE  PauseKept'
  BY <1>0, <1>15
<1>16. QED
  BY <1>1, <1>2, <1>3, <1>4, <1>5, <1>6, <1>7, <1>8, <1>9, <1>10, <1>11, <1>12, <1>13, <1>14, <1>15
     DEF Next, Disconnect, Receive, Cancel, Deny, vars

\* Between the two steps of a pause only a completion unblocks the agent.
LEMMA NextPauseSet ==
    ASSUME SessionInv, [Next]_vars
    PROVE  PauseSet'
<1> USE DEF PauseSet, boundVars, requestVars
<1>0. Typed /\ PauseSet
  BY DEF SessionInv
<1>1. CASE Kill \/ UiAck \/ UiResolveRefused
  BY <1>1 DEF Kill, UiAck, UiResolveRefused, NoUi
<1>2. ASSUME NEW r \in Requests, Begin(r)
      PROVE  PauseSet'
  <2>1. ~Blocks(runtime.state) /\ req[r] = "entering" /\ UNCHANGED <<ui, held>>
    BY <1>2 DEF Begin, Blocked, Blocks
  <2>2. op' = [op EXCEPT ![r] = "run"] /\ op[r] = "none"
    BY <1>2, <2>1 DEF Begin, SessionInv, OperationAfter
  <2>3. \A x \in Requests : op[x] = "completed" => op'[x] = "completed"
    BY <1>0, <2>2 DEF Typed, RequestsTyped
  <2>4. QED
    BY <1>0, <2>1, <2>3
<1>3. ASSUME NEW r \in Requests, BeginUnseen(r) \/ Ask(r)
      PROVE  PauseSet'
  <2>1. op[r] \in {"none", "run"} /\ UNCHANGED <<runtime, ui, held>>
    BY <1>3 DEF BeginUnseen, Ask, SessionInv, OperationAfter
  <2>2. \A x \in Requests : op[x] = "completed" => op'[x] = "completed"
    BY <1>0, <1>3, <2>1 DEF BeginUnseen, Ask, Typed, RequestsTyped
  <2>3. QED
    BY <1>0, <2>1, <2>2
<1>4. ASSUME NEW r \in Requests, Cancelled(r)
      PROVE  PauseSet'
  BY <1>0, <1>4, FinishEffect DEF Cancelled
<1>5. ASSUME NEW r \in Requests,
             Work(r) \/ AskRefused(r) \/ EngineResolveRefused(r) \/ OperationStored(r)
      PROVE  PauseSet'
  <2>1. Answer(r) /\ UNCHANGED <<ui, held>> /\ op[r] # "completed"
    BY <1>5 DEF Work, AskRefused, EngineResolveRefused, OperationStored
  <2>2. \A x \in Requests : op[x] = "completed" => op'[x] = "completed"
    BY <1>0, <2>1, AnswerEffect DEF Typed, RequestsTyped
  <2>3. QED
    BY <1>0, <2>1, <2>2, AnswerEffect
<1>6. ASSUME NEW r \in Requests, AskApply(r)
      PROVE  PauseSet'
  <2>1. runtime'.state = "waiting_for_human"
    BY <1>0, <1>6, SetStateEffect DEF AskApply, RuntimeStates
  <2>2. QED
    BY <2>1 DEF Blocks
<1>7. ASSUME NEW r \in Requests, EngineResolve(r)
      PROVE  PauseSet'
  <2>1. PICK outcome \in {"completed", "cancelled"} : op' = [op EXCEPT ![r] = outcome]
    BY <1>7 DEF EngineResolve
  <2>2. op[r] = "run" /\ UNCHANGED <<runtime, ui>>
    BY <1>7 DEF EngineResolve
  <2>3. \A x \in Requests : op[x] = "completed" => op'[x] = "completed"
    BY <1>0, <2>1, <2>2 DEF Typed, RequestsTyped
  <2>4. held' = held \/ op'[r] = "completed"
    BY <1>0, <1>7 DEF EngineResolve, Typed, RequestsTyped
  <2>5. QED
    BY <1>0, <2>2, <2>3, <2>4
<1>8. ASSUME NEW r \in Requests, EngineApply(r)
      PROVE  PauseSet'
  <2>1. CASE op[r] = "completed"
    BY <1>8, <2>1 DEF EngineApply
  <2>2. CASE op[r] = "cancelled"
    <3>1. SetState("paused")
      BY <1>8, <2>2 DEF EngineApply, StateAfter
    <3>2. runtime'.state = "paused"
      BY <1>0, <3>1, SetStateEffect DEF RuntimeStates
    <3>3. QED
      BY <3>2 DEF Blocks
  <2>3. QED
    BY <1>8, <2>1, <2>2 DEF EngineApply
<1>9. ASSUME NEW o \in UiOps, UiStart(o)
      PROVE  PauseSet'
  BY <1>9 DEF UiStart
<1>10. CASE PauseCancels \/ PauseStopped \/ UiReady \/ UiResolves
  BY <1>0, <1>10 DEF PauseCancels, PauseStopped, UiReady, UiResolves, UiGoto, Typed, UserTyped
<1>11. CASE UiApply
  <2>1. ui' = [ui EXCEPT !.stage = "applied"]
    BY <1>11 DEF UiApply, UiGoto
  <2>2. ui'.op = ui.op
    BY <1>0, <2>1 DEF Typed, UserTyped
  <2>3. ui.op = "pause" => Blocks(runtime'.state)
    BY <1>0, <1>11, ApplyEffect DEF Blocks
  <2>4. QED
    BY <2>2, <2>3
<1>12. ASSUME UNCHANGED <<runtime, op, ui, held>>
       PROVE  PauseSet'
  BY <1>0, <1>12
<1>13. QED
  BY <1>1, <1>2, <1>3, <1>4, <1>5, <1>6, <1>7, <1>8, <1>9, <1>10, <1>11, <1>12
     DEF Next, Flush, Disconnect, Receive, Cancel, Deny, vars

LEMMA NextOperationAfter ==
    ASSUME SessionInv, [Next]_vars
    PROVE  OperationAfter'
<1> USE DEF OperationAfter, requestVars
<1>0. Typed /\ OperationAfter
  BY DEF SessionInv
<1>1. CASE Kill
  BY <1>0, <1>1 DEF Kill
<1>2. ASSUME NEW r \in Requests, Receive(r) \/ Deny(r) \/ Cancelled(r)
      PROVE  OperationAfter'
  BY <1>0, <1>2 DEF Receive, Deny, Cancelled, Close, Typed, RequestsTyped
<1>3. ASSUME NEW r \in Requests, Begin(r) \/ BeginUnseen(r)
      PROVE  OperationAfter'
  BY <1>0, <1>3 DEF Begin, BeginUnseen, Typed, RequestsTyped
<1>4. ASSUME NEW r \in Requests,
             Work(r) \/ AskRefused(r) \/ EngineResolveRefused(r) \/ OperationStored(r)
      PROVE  OperationAfter'
  <2>1. Answer(r) /\ op[r] # "none"
    BY <1>4 DEF Work, AskRefused, EngineResolveRefused, OperationStored
  <2>2. QED
    BY <1>0, <2>1, AnswerEffect DEF Typed, RequestsTyped
<1>5. ASSUME NEW r \in Requests, Ask(r) \/ AskApply(r) \/ EngineResolve(r) \/ EngineApply(r)
      PROVE  OperationAfter'
  <2>1. /\ op[r] # "none" /\ UNCHANGED req
        /\ \E s \in {"stored", "applied", "completed", "cancelled"} : op' = [op EXCEPT ![r] = s]
    BY <1>5 DEF Ask, AskApply, EngineResolve, EngineApply
  <2>2. QED
    BY <1>0, <2>1 DEF Typed, RequestsTyped
<1>6. ASSUME UNCHANGED <<req, op>>
      PROVE  OperationAfter'
  BY <1>0, <1>6
<1>7. QED
  BY <1>1, <1>2, <1>3, <1>4, <1>5, <1>6
     DEF Next, Flush, Disconnect, Cancel, UiStart, PauseCancels, PauseStopped, UiReady,
         UiResolves, UiResolveRefused, UiApply, UiAck, vars

\* A request closes with the end of its action, and an action starts with its request.
LEMMA NextTimelineKept ==
    ASSUME SessionInv, [Next]_vars
    PROVE  TimelineKept'
<1> USE DEF TimelineKept, requestVars
<1>0. Typed /\ TimelineKept
  BY DEF SessionInv
<1>1. CASE Flush \/ UiAck
  BY <1>0, <1>1 DEF Flush, UiAck
<1>2. CASE Kill
  BY <1>0, <1>2 DEF Kill
<1>3. ASSUME NEW r \in Requests, Receive(r) \/ Deny(r)
      PROVE  TimelineKept'
  BY <1>0, <1>3 DEF Receive, Deny, Close, Typed, RequestsTyped
<1>4. ASSUME NEW r \in Requests, Begin(r)
      PROVE  TimelineKept'
  <2>1. /\ runtime'.actions = [runtime.actions EXCEPT ![r] = "running"]
        /\ req' = [req EXCEPT ![r] = "open"]
        /\ UNCHANGED disk
    BY <1>4 DEF Begin
  <2>2. QED
    BY <1>0, <2>1 DEF Typed, RuntimeTyped, RequestsTyped, Runtime
<1>5. ASSUME NEW r \in Requests, BeginUnseen(r)
      PROVE  TimelineKept'
  BY <1>0, <1>5 DEF BeginUnseen, Typed, RequestsTyped
<1>6. ASSUME NEW r \in Requests, Cancelled(r)
      PROVE  TimelineKept'
  BY <1>0, <1>6, FinishEffect DEF Cancelled, Close, Typed, RequestsTyped
<1>7. ASSUME NEW r \in Requests,
             Work(r) \/ AskRefused(r) \/ EngineResolveRefused(r) \/ OperationStored(r)
      PROVE  TimelineKept'
  <2>1. Answer(r) /\ disk' \in {disk, runtime}
    BY <1>7 DEF Work, AskRefused, EngineResolveRefused, OperationStored
  <2>2. QED
    BY <1>0, <2>1, AnswerEffect DEF Typed, RequestsTyped
<1>8. ASSUME NEW r \in Requests, AskApply(r) \/ EngineApply(r)
      PROVE  TimelineKept'
  <2>1. UNCHANGED <<disk, req>> /\ \E s \in RuntimeStates : SetState(s)
    BY <1>8 DEF AskApply, EngineApply, StateAfter, RuntimeStates
  <2>2. QED
    BY <1>0, <2>1, SetStateEffect
<1>9. CASE UiApply
  BY <1>0, <1>9, ApplyEffect DEF UiApply
<1>10. ASSUME UNCHANGED <<runtime, disk, req>>
       PROVE  TimelineKept'
  BY <1>0, <1>10
<1>11. QED
  BY <1>1, <1>2, <1>3, <1>4, <1>5, <1>6, <1>7, <1>8, <1>9, <1>10
     DEF Next, Disconnect, Cancel, Ask, EngineResolve, UiStart, PauseCancels, PauseStopped,
         UiReady, UiResolves, UiResolveRefused, vars

LEMMA SessionInvariance == Spec => []SessionInv
<1>1. SessionInv /\ [Next]_vars => SessionInv'
  BY NextRuntimeTyped, NextRequestsTyped, NextUserTyped, NextPauseKept, NextPauseSet,
     NextOperationAfter, NextTimelineKept DEF SessionInv, Typed
<1>2. QED
  BY <1>1, SessionInitInvariant, PTL DEF Spec

-----------------------------------------------------------------------------
(* Theorems *)

\* An acknowledged pause holds until the user lifts it: through requests, cancellations,
\* lost connections, later handoffs and restarts of the worker.
THEOREM PauseIsKept == Spec => []PauseHolds
<1>1. SessionInv => PauseHolds
  BY DEF SessionInv, PauseKept, PauseHolds, Blocked, Blocks
<1>2. QED
  BY <1>1, SessionInvariance, PTL

\* Every variable has its type, and an action that is shown as running has a request that
\* will end it, unless its worker died.
THEOREM TimelineIsTrue == Spec => []TimelineSound
<1>1. SessionInv => TimelineSound
  <2> SUFFICES ASSUME SessionInv PROVE TimelineSound
    OBVIOUS
  <2>1. TypeOK
    BY DEF SessionInv, Typed, RuntimeTyped, RequestsTyped, UserTyped, TypeOK
  <2>2. TimelineTrue
    BY DEF SessionInv, TimelineKept, TimelineTrue
  <2>3. QED
    BY <2>1, <2>2 DEF TimelineSound
<1>2. QED
  BY <1>1, SessionInvariance, PTL

\* Neither the user nor the engine's operator replaces the outcome of a handoff.
THEOREM HandoffHasOneOutcome == Spec => OutcomeFinal
<1>1. SessionInv /\ [Next]_vars =>
        [handoff.state \in {"completed", "cancelled"}
           => handoff' = handoff \/ handoff'.id > handoff.id]_vars
  <2> SUFFICES ASSUME SessionInv, Next, handoff.state \in {"completed", "cancelled"}
               PROVE  handoff' = handoff \/ handoff'.id > handoff.id
    OBVIOUS
  <2>1. handoff.id \in Nat
    BY SessionConstants DEF SessionInv, Typed, UserTyped
  <2>2. \A r \in Requests : Ask(r) => handoff'.id > handoff.id
    BY <2>1 DEF Ask
  <2>3. \A r \in Requests : ~EngineResolve(r)
    BY DEF EngineResolve, Resolves, Waiting
  <2>4. ~UiResolves
    BY DEF UiResolves, Resolves, Waiting
  <2>5. QED
    BY <2>2, <2>3, <2>4
       DEF Next, Flush, Disconnect, Kill, Receive, Cancel, Deny, Begin, BeginUnseen, Cancelled,
           Work, AskRefused, AskApply, EngineResolveRefused, EngineApply, OperationStored, UiStart,
           PauseCancels, PauseStopped, UiReady, UiResolveRefused, UiApply, UiAck
<1>2. QED
  BY <1>1, SessionInvariance, PTL DEF Spec, OutcomeFinal
=============================================================================
