----------------------------- MODULE MCFindPeer -----------------------------
(* Peer p is at distance p - 1 of the target, which is peer 1. *)
EXTENDS FindPeer

CONSTANT N

MCPeers == 1..N
MCDist == [p \in 1..N |-> p - 1]
=============================================================================
