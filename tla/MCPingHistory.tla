---------------------------- MODULE MCPingHistory ---------------------------
(* PingHistory for TLC: the two requests are interchangeable. *)
EXTENDS PingHistory, TLC

Symmetry == Permutations(Requests)
=============================================================================
