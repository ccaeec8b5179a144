------------------------------ MODULE MCFullRT ------------------------------
(* FullRT with three peers of which two are bootstrap peers *)
EXTENDS FullRT

MCBootstrap == <<1, 2>>
(* Peer 3 is known to 1 only; 2 may name itself. *)
MCNames == (1 :> {{2, 3}}) @@ (2 :> {{1, 2}}) @@ (3 :> {{1}})
=============================================================================
