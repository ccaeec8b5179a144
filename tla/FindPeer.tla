------------------------------ MODULE FindPeer ------------------------------
(***************************************************************************)
(* FindPeer of routing.go: a lookup of the peer Target, which is found if  *)
(* the result says it was contacted.  (It is also found when the host is   *)
(* connected to it, which is also the stop function, see Lookup.)          *)
(***************************************************************************)
EXTENDS Lookup

CONSTANT Target

ASSUME TargetAssumption == Target \in Accepted /\ Dist[Target] = 0

(* The loop over lookupRes.peers and lookupRes.state. *)
dialedPeerDuringQuery ==
  Target \in res.peers /\ ps[Target] \in {"queried", "unreachable", "waiting"}

(* FindPeer reports a target that was contacted and did not fail, even when
   the lookup ended before its answer was looked at.  A target that did fail
   is not reported unless the host is connected to it: res.peers never holds
   an unreachable peer, so that the case PeerUnreachable does not occur. *)
ContactedTargetFound ==
  pc = "returned" /\ worker[Target] # "none" /\ ps[Target] # "unreachable"
    => dialedPeerDuringQuery
=============================================================================
