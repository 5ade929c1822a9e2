----------------------------- MODULE MCMcpRegistry -----------------------------
(* Small instances of the MCP registry.                                     *)
EXTENDS McpRegistry, TLC

Symmetry == Permutations(Ops)
================================================================================
