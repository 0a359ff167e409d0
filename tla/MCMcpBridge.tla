---------------------------- MODULE MCMcpBridge ----------------------------
(***************************************************************************)
(* McpBridge for TLC: interchangeable handlers and ids.                    *)
(***************************************************************************)
EXTENDS McpBridge, TLC

Symmetry == Permutations(Handlers) \cup Permutations(Ids)
=============================================================================
