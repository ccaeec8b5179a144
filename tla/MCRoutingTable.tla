--------------------------- MODULE MCRoutingTable ---------------------------
(* Both peers belong to the bucket of length 3, which has one place: they
   compete for it.  The lengths before it are gaps, and after a gap at length 0
   a round ends with length 2. *)
EXTENDS RoutingTable

MCCpl == [p \in Peers |-> 3]
=============================================================================
