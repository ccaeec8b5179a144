---------------------------- MODULE QueryPeerset ----------------------------
(***************************************************************************)
(* qpeerset.QueryPeerset: a slice of peers that is sorted lazily, when the *)
(* closest peers are asked for and a peer was added since the last sort.   *)
(* GetClosestInStates, NumHeard and NumWaiting are GetClosestNInStates     *)
(* with the length of the slice for n.                                     *)
(***************************************************************************)
EXTENDS Keyspace, Sequences, Functions

CONSTANTS
  Referrers,  \* who may name a peer: Self or another peer
  Asked       \* how many peers, in which states, a lookup asks for

VARIABLES
  all,        \* the slice: id, state and referredBy of each known peer
  sorted,     \* the flag that all is in order
  result      \* the last GetClosestNInStates: what was asked for and the answer

peersetVars == <<all, sorted, result>>

States == {"heard", "waiting", "queried", "unreachable"}

Entry == [id : Peers, state : States, referredBy : Referrers]

ASSUME AskedAssumption == Asked \subseteq [n : Nat, states : SUBSET States]

(* Index of p in the slice s, 0 when it is not there (-1 in the code). *)
find(s, p) ==
  IF \E i \in DOMAIN s : s[i].id = p
  THEN CHOOSE i \in DOMAIN s : /\ s[i].id = p
                               /\ \A j \in 1..(i-1) : s[j].id # p
  ELSE 0

NewQueryPeerset ==
  /\ all = << >>
  /\ sorted = FALSE
  /\ result = [n |-> 0, states |-> {}, ids |-> << >>]

(* Fault: adding a peer leaves the order flag set. *)
TryAddKeepsSorted(p, referredBy) ==
  /\ all' = IF find(all, p) > 0 THEN all
            ELSE Append(all, [id |-> p, state |-> "heard", referredBy |-> referredBy])
  /\ UNCHANGED <<sorted, result>>

(* A known peer is left as it is, and the order flag too. *)
TryAdd(p, referredBy) ==
  IF find(all, p) > 0
  THEN UNCHANGED peersetVars
  ELSE /\ all' = Append(all, [id |-> p, state |-> "heard", referredBy |-> referredBy])
       /\ sorted' = FALSE
       /\ UNCHANGED result

(* SetState of an unknown peer panics: callers set states of known peers. *)
SetState(p, s) ==
  /\ find(all, p) > 0
  /\ all' = [all EXCEPT ![find(all, p)].state = s]
  /\ UNCHANGED <<sorted, result>>

Less(a, b) == Dist[a.id] < Dist[b.id]

(* What sort.Sort leaves: some rearrangement of s in which no entry is less
   than an earlier one. *)
Sorts(s) ==
  {t \in {[i \in DOMAIN s |-> s[f[i]]] : f \in Bijection(DOMAIN s, DOMAIN s)} :
     \A i, j \in DOMAIN s : i < j => ~Less(t[j], t[i])}

sort ==
  /\ all' \in IF sorted THEN {all} ELSE Sorts(all)
  /\ sorted' = TRUE

(* How many indices of I come before i *)
Before(I, i) == Cardinality({j \in I : j < i})

(* The peers at the indices I of the slice s, in the order of the slice *)
Ids(s, I) == [k \in 1..Cardinality(I) |-> s[CHOOSE i \in I : Before(I, i) = k - 1].id]

(* Fault: the slice is cut before the states are looked at. *)
GetClosestCutFirst(n, states) ==
  /\ sort
  /\ LET hits == {i \in DOMAIN all' : i <= n /\ all'[i].state \in states}
     IN  result' = [n |-> n, states |-> states, ids |-> Ids(all', hits)]

(* Sort in place, keep the entries in the given states, cut after n. *)
GetClosestNInStates(n, states) ==
  /\ sort
  /\ LET hits  == {i \in DOMAIN all' : all'[i].state \in states}
         first == {i \in hits : Before(hits, i) < n}
     IN  result' = [n |-> n, states |-> states, ids |-> Ids(all', first)]

PeersetNext ==
  \/ \E p \in Peers, r \in Referrers : TryAdd(p, r)
  \/ \E p \in Peers, s \in States : SetState(p, s)
  \/ \E q \in Asked : GetClosestNInStates(q.n, q.states)

PeersetSpec == NewQueryPeerset /\ [][PeersetNext]_peersetVars

-----------------------------------------------------------------------------
(* Properties *)

(* The slice holds entries and the result peers. *)
PeersetTypeOK ==
  /\ all \in Seq(Entry)
  /\ sorted \in BOOLEAN
  /\ result.ids \in Seq(Peers)

(* When the flag is set the slice really is in order of distance, without a
   peer twice: skipping the sort is sound. *)
SortedIsSorted ==
  sorted => \A i, j \in DOMAIN all : i < j => Dist[all[i].id] < Dist[all[j].id]

(* Types, and the order that the flag promises. *)
PeersetInv == PeersetTypeOK /\ SortedIsSorted

(* The slice implements the map: each peer once, states and the first
   referrer kept through re-sorting, and every answer the nearest n peers in
   the asked states in order. *)
state == [p \in Peers |-> IF find(all, p) = 0 THEN "absent" ELSE all[find(all, p)].state]
referrer == [p \in Peers |-> IF find(all, p) = 0 THEN Self ELSE all[find(all, p)].referredBy]

Abstract == INSTANCE AbstractPeerset WITH answer <- result

ImplementsMap == Abstract!Spec
=============================================================================
