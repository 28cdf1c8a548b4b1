----------------------------- MODULE MCAgentLink -----------------------------
(* Instances of AgentLink for TLC. *)
EXTENDS AgentLink

Interchangeable == Permutations(Msgs) \cup Permutations(Conns) \cup Permutations(Procs)
=============================================================================
