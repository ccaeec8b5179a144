--------------------------- MODULE MCStreamHandler ---------------------------
(* Values with sequence numbers. *)
EXTENDS StreamHandler

CONSTANT MaxSeq

MCValues == 1..MaxSeq
MCRank == [v \in MCValues |-> v]
=============================================================================
