--------------------------- MODULE MCAgentServer ---------------------------
(***************************************************************************)
(* AgentServer for TLC: connections are interchangeable, which the         *)
(* invariant run exploits (the liveness runs may not).                     *)
(***************************************************************************)
EXTENDS AgentServer, TLC

ConnSymmetry == Permutations(Conns)
=============================================================================
