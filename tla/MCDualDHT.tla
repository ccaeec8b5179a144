----------------------------- MODULE MCDualDHT -----------------------------
(* DualDHT with one entry from the local store and from the responses of each peer *)
EXTENDS DualDHT

MCMaxEntries == [w \in Workers |-> 1]
=============================================================================
