------------------------------ MODULE MCServices ------------------------------
(***************************************************************************)
(* Services of the extension that share no state, checked by one run: the  *)
(* initial state chooses the service that the behaviour exercises, and the *)
(* others stay as they are at the start.                                   *)
(***************************************************************************)
EXTENDS AgentRuntime, UserAgentRules, AuditLog, BridgePairing, ProxySources, TestIdentities

CONSTANTS c1, c2, c3, k3

ThreeCalls == {c1, c2, c3}
TwoImmediate == {c1, c2}
OneUnchanging == {c2}
ThreeContents ==
    {[url |-> "a", version |-> 1], [url |-> "a", version |-> 2], [url |-> "b", version |-> 1]}

OneEarlierProof == <<[by |-> k3, level |-> "strong", bytes |-> 1, shared |-> {}]>>

VARIABLE service

all == <<service, vars, uaVars, auVars, bpVars, pxVars, ciVars, ipVars>>

ServicesInit ==
    /\ service \in {"runtime", "user agent", "audit", "pairing", "proxy", "containers", "proofs"}
    /\ Init /\ UaInit /\ AuditInit /\ PairingInit /\ PxInit
    /\ CiInit /\ (service # "containers" => ciManaged = {})
    /\ IpInit /\ (service # "proofs" => ipStores = "same" /\ ipSameOrigin /\ ipSession = Sides)

Exercises(name) == service = name /\ UNCHANGED service

RuntimeOnly ==
    Exercises("runtime") /\ UNCHANGED <<uaVars, auVars, bpVars, pxVars, ciVars, ipVars>>
UserAgentOnly ==
    Exercises("user agent") /\ UNCHANGED <<vars, auVars, bpVars, pxVars, ciVars, ipVars>>
AuditOnly ==
    Exercises("audit") /\ UNCHANGED <<vars, uaVars, bpVars, pxVars, ciVars, ipVars>>
PairingOnly ==
    Exercises("pairing") /\ UNCHANGED <<vars, uaVars, auVars, pxVars, ciVars, ipVars>>
ProxyOnly ==
    Exercises("proxy") /\ UNCHANGED <<vars, uaVars, auVars, bpVars, ciVars, ipVars>>
ContainersOnly ==
    Exercises("containers") /\ UNCHANGED <<vars, uaVars, auVars, bpVars, pxVars, ipVars>>
ProofsOnly ==
    Exercises("proofs") /\ UNCHANGED <<vars, uaVars, auVars, bpVars, pxVars, ciVars>>

ServicesNext ==
    \/ RuntimeOnly /\ Next
    \/ UserAgentOnly /\ UaSteps
    \/ AuditOnly /\ AuditSteps
    \/ PairingOnly /\ PairingSteps
    \/ ProxyOnly /\ PxSteps
    \/ ContainersOnly /\ CiSteps
    \/ ProofsOnly /\ IpSteps

\* What goes on without a caller or the user.
ServicesWork ==
    \/ RuntimeOnly /\ RuntimeWorks
    \/ UserAgentOnly /\ UaWorks
    \/ AuditOnly /\ (AuditWorks \/ AuditTimer)
    \/ PairingOnly /\ PairingWorks
    \/ ProxyOnly /\ PxWorks
    \/ ContainersOnly /\ CiWorks
    \/ ProofsOnly /\ IpWorks

ServicesSpec == ServicesInit /\ [][ServicesNext]_all /\ WF_all(ServicesWork)

\* Every service comes to rest: the work that a call, an event or a failure left is done,
\* given up or reported as failed, whatever interleaves with it.
ServicesRest ==
    []<>(/\ StoredOrDegraded /\ CallsReturned
         /\ RulesCaughtUp /\ EventsWritten /\ PairingOver /\ ProxyAtRest /\ CiOver /\ IpOver)
=============================================================================
