------------------------------ MODULE MCSessions ------------------------------
(***************************************************************************)
(* The session of the engine's agent, the recovery of a transform profile  *)
(* that the agent or the user drives, and the proxy's rule source. They    *)
(* share no state: the initial state chooses the one that the behaviour    *)
(* exercises.                                                              *)
(***************************************************************************)
EXTENDS MCAgentSession, TransformRecovery, ProxySources

ThreeContents ==
    {[url |-> "a", version |-> 1], [url |-> "a", version |-> 2], [url |-> "b", version |-> 1]}

VARIABLE exercised

\* Where the session stands does not matter to the others: it has one initial state.
SessionsInit ==
    /\ exercised \in {"session", "recovery", "sources"} /\ Init /\ TrInit /\ PxInit
    /\ exercised # "session" => \A r \in Requests : kind[r] = "act"

SessionsNext ==
    \/ exercised = "session" /\ Next /\ UNCHANGED <<exercised, trVars, pxVars>>
    \/ exercised = "recovery" /\ TrSteps /\ UNCHANGED <<exercised, vars, pxVars>>
    \/ exercised = "sources" /\ PxSteps /\ UNCHANGED <<exercised, vars, trVars>>

SessionsSpec == SessionsInit /\ [][SessionsNext]_<<exercised, vars, trVars, pxVars>>

\* A recovery is not followed further when a replay's result went to another binding than
\* the one replayed, or a binding was stored after the navigation away from it.
RecoveryFollowed == ~trMixed /\ ~trLate
=============================================================================
