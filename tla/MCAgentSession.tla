--------------------------- MODULE MCAgentSession ---------------------------
EXTENDS AgentSession, TLC

SessionSymmetry == Permutations(Requests)
=============================================================================
