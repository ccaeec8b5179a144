------------------------------ MODULE PeerTable ------------------------------
(***************************************************************************)
(* The routing table of go-libp2p-kbucket as the DHT uses it: buckets of   *)
(* peers by common prefix length, and peers that a newcomer may replace.   *)
(***************************************************************************)
EXTENDS Integers, FiniteSets, FiniteSetsExt

CONSTANTS
  Peers,
  Cpl,         \* Cpl[p]: common prefix length of p and this peer
  BucketSize

ASSUME TableAssumption ==
  IsFiniteSet(Peers) /\ Cpl \in [Peers -> Nat] /\ BucketSize \in Nat \ {0}

VARIABLES
  rt,           \* peers in the table
  replaceable,  \* those that may be replaced
  recent        \* those with a successful query within the grace period

tableVars == <<rt, replaceable, recent>>

Bucket(c) == {p \in rt : Cpl[p] = c}

(* len(GetTrackedCplsForRefresh()): up to the longest prefix in the table. *)
NumTrackedCpls == 1 + Max({0} \cup {Cpl[p] : p \in rt})

RemovePeer(p) ==
  /\ rt' = rt \ {p}
  /\ replaceable' = replaceable \ {p}
  /\ recent' = recent \ {p}

HasRoom(p) == Cardinality(Bucket(Cpl[p])) < BucketSize

(* What may have to go for p: nothing, or a replaceable peer of its bucket. *)
Victims(p) == IF HasRoom(p) THEN {{}} ELSE {{q} : q \in Bucket(Cpl[p]) \cap replaceable}

(* TryAddPeer of a peer that just answered: a new one, marked as given; one
   that is there already; or one that is refused, for want of room, by the
   diversity filter or for its latency. *)
TryAddPeer(p, mark) ==
  \/ /\ p \notin rt
     /\ \E out \in Victims(p) :
          /\ rt' = (rt \ out) \cup {p}
          /\ replaceable' = (replaceable \ out) \cup (IF mark THEN {p} ELSE {})
          /\ recent' = (recent \ out) \cup {p}
  \/ /\ p \in rt
     /\ recent' = recent \cup {p}
     /\ UNCHANGED <<rt, replaceable>>
  \/ /\ p \notin rt
     /\ UNCHANGED tableVars

MarkAllPeersIrreplaceable ==
  /\ replaceable' = {}
  /\ UNCHANGED <<rt, recent>>
=============================================================================
