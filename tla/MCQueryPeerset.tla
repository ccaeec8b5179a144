--------------------------- MODULE MCQueryPeerset ---------------------------
(* Three peers; two of the questions query.go asks: the peers to
   query next and the closest peers that may be in the result. *)
EXTENDS QueryPeerset

MCPeers == 1..3
MCDist == [p \in 1..3 |-> 4 - p]
MCAsked == {[n |-> 1, states |-> {"heard"}],
            [n |-> 2, states |-> {"heard", "waiting", "queried"}]}
=============================================================================
