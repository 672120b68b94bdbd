-------------------------- MODULE MCGrantLifecycle --------------------------
(***************************************************************************)
(* Instances of GrantLifecycle for TLC.                                    *)
(***************************************************************************)
EXTENDS GrantLifecycle, TLC

\* Grant ids are interchangeable.
GrantSymmetry == Permutations(GrantIds)

SomeCapture ==
    \E t \in Tabs : capture[t] # NoCapture \/ starting[t] # NoGrant \/ persisted[t] # NoCapture

\* Captures are followed while nothing fails and no handoff waits.
CapturesUndisturbed == SomeCapture => faults = 0 /\ kills = 0 /\ handoff = NoHandoff

\* A handoff is followed over one failure or termination, and over none while an update
\* has read the grant.
HandoffsUndisturbed ==
    handoff # NoHandoff =>
        ~unreconciled /\ faults + kills <= (IF refreshing = NoGrant THEN 1 ELSE 0)
=============================================================================
