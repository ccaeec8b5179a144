------------------------------ MODULE Keyspace ------------------------------
(***************************************************************************)
(* The peers a lookup is about and their XOR distances to its key.  The    *)
(* lookup engine and the query peerset have them in common.                *)
(***************************************************************************)
EXTENDS Integers, FiniteSets

CONSTANTS
  Peers,      \* the remote peers
  Self,       \* q.dht.self
  Dist        \* Dist[p]: XOR distance of p to the key

ASSUME PeersAssumption == IsFiniteSet(Peers) /\ Self \notin Peers
ASSUME DistAssumption ==
  /\ Dist \in [Peers -> Nat]
  /\ \A p, q \in Peers : Dist[p] = Dist[q] => p = q

(* How many members of S are nearer to the key than p *)
Nearer(S, p) == Cardinality({q \in S : Dist[q] < Dist[p]})

(* The n members of S closest to the key, all of S when it has fewer *)
Closest(S, n) == {p \in S : Nearer(S, p) < n}
=============================================================================
