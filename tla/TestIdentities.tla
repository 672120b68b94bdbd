---------------------------- MODULE TestIdentities ----------------------------
(***************************************************************************)
(* The identities of an authorization test: the containers that hold them, *)
(* and the proofs that two tabs have separate ones. They share no state.   *)
(***************************************************************************)
EXTENDS ContainerIdentities, IsolationProofs

IdentitiesSpec == CiSpec /\ IpSpec

\* The identities for authorization tests: containers that are the extension's own and can be
\* cleared, and proofs of what was found apart.
IdentitiesSound == ContainersSound /\ ProofsSound
=============================================================================
