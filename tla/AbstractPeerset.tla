--------------------------- MODULE AbstractPeerset ---------------------------
(***************************************************************************)
(* What a QueryPeerset promises to a lookup: a map from peers to states    *)
(* and referrers, and the closest peers in given states, nearest first.    *)
(***************************************************************************)
EXTENDS Keyspace, Sequences

CONSTANTS Referrers, Asked

VARIABLES
  state,     \* state[p]: "absent" or the state of p
  referrer,  \* referrer[p]: who named p first; Self when absent
  answer     \* the last GetClosestNInStates: what was asked for and the answer

vars == <<state, referrer, answer>>

States == {"heard", "waiting", "queried", "unreachable"}

(* ids lists n members of S nearest first, or all when there are fewer: a
   member that is left out is further away than every member listed. *)
NearestFirst(ids, S, n) ==
  /\ ids \in Seq(S) /\ Len(ids) <= n
  /\ \A i, j \in DOMAIN ids : i < j => Dist[ids[i]] < Dist[ids[j]]
  /\ \A p \in S : \/ \E i \in DOMAIN ids : ids[i] = p
                  \/ Len(ids) = n /\ \A i \in DOMAIN ids : Dist[ids[i]] < Dist[p]

Init ==
  /\ state = [p \in Peers |-> "absent"]
  /\ referrer = [p \in Peers |-> Self]
  /\ answer = [n |-> 0, states |-> {}, ids |-> << >>]

Add(p, r) ==
  /\ state[p] = "absent"
  /\ state' = [state EXCEPT ![p] = "heard"]
  /\ referrer' = [referrer EXCEPT ![p] = r]
  /\ UNCHANGED answer

Set(p, st) ==
  /\ state[p] # "absent"
  /\ state' = [state EXCEPT ![p] = st]
  /\ UNCHANGED <<referrer, answer>>

Ask(n, sts) ==
  /\ answer' = [n |-> n, states |-> sts, ids |-> answer'.ids]
  /\ NearestFirst(answer'.ids, {p \in Peers : state[p] \in sts}, n)
  /\ UNCHANGED <<state, referrer>>

Next ==
  \/ \E p \in Peers : \/ \E r \in Referrers : Add(p, r)
                      \/ \E st \in States : Set(p, st)
  \/ \E q \in Asked : Ask(q.n, q.states)

Spec == Init /\ [][Next]_vars
=============================================================================
