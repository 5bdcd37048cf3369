-------------------------- MODULE MCAgentLifecycle --------------------------
(* Small instances of AgentLifecycle for TLC.                              *)
EXTENDS AgentLifecycle, TLC

MCSymmetry == Permutations(Shells) \cup Permutations(Agents)
=============================================================================
