----------------------------- MODULE RoutingTable -----------------------------
(***************************************************************************)
(* How the DHT keeps its routing table: rtPeerLoop, the only goroutine     *)
(* that adds peers; lookups and lookup checks, which send it the peers     *)
(* that answered and remove those that did not; the events that a peer     *)
(* speaks the protocol or no longer does; the refresh manager, which       *)
(* pings peers and waits for rtPeerLoop after each round; and Close.       *)
(*                                                                         *)
(* fixLowPeers, woken by its ticker or when the table changes, calls       *)
(* peerFound for connected peers and RefreshNoWait: both can happen at any *)
(* time here, so that its loop needs no state of its own.                  *)
(***************************************************************************)
EXTENDS RtRefreshManager

CONSTANT Stopping  \* peers that may stop speaking the protocol

ASSUME StoppingAssumption == Stopping \subseteq Peers

VARIABLES
  rtLoop,           \* rtPeerLoop: "select", "add" or "exited"
  received,         \* the peer that rtPeerLoop is about to add, if any
  isBootstrapping,
  bootstrapCount,   \* saturates at 2: only the step to 2 matters
  timer,            \* the freeze timer runs
  adding,           \* peers that goroutines in validPeerFound have to send
  stopped,          \* peers that have stopped speaking the protocol for good
  close             \* "no", "waiting" or "returned"

loopVars == <<rtLoop, received, isBootstrapping, bootstrapCount, timer>>
dhtVars == <<loopVars, adding, stopped, close>>
vars == <<tableVars, refreshVars, dhtVars, ctxDone>>

Init ==
  /\ rt = {} /\ replaceable = {} /\ recent = {}
  /\ InitRefresh
  /\ rtLoop = "select" /\ received = {}
  /\ isBootstrapping = FALSE /\ bootstrapCount = 0 /\ timer = FALSE
  /\ adding = {} /\ stopped = {}
  /\ close = "no" /\ ctxDone = FALSE

-----------------------------------------------------------------------------
(* rtPeerLoop *)

FreezeTimer ==
  /\ rtLoop = "select"
  /\ timer
  /\ timer' = FALSE
  /\ MarkAllPeersIrreplaceable
  /\ UNCHANGED <<refreshVars, rtLoop, received, isBootstrapping, bootstrapCount,
                 adding, stopped, close, ctxDone>>

(* Fault: the refreshes counted for an earlier bootstrap count for the new one. *)
ReceivePeerCounting(p) ==
  /\ rtLoop = "select" /\ rtLoop' = "add"
  /\ p \in adding
  /\ adding' = adding \ {p} /\ received' = {p}
  /\ IF rt = {}
     THEN isBootstrapping' = TRUE /\ timer' = FALSE
     ELSE UNCHANGED <<isBootstrapping, timer>>
  /\ UNCHANGED <<tableVars, refreshVars, bootstrapCount, stopped, close, ctxDone>>

(* A peer is received; one that finds the table empty starts a bootstrap. *)
ReceivePeer(p) ==
  /\ rtLoop = "select" /\ rtLoop' = "add"
  /\ p \in adding
  /\ adding' = adding \ {p} /\ received' = {p}
  /\ IF rt = {}
     THEN isBootstrapping' = TRUE /\ bootstrapCount' = 0 /\ timer' = FALSE
     ELSE UNCHANGED <<isBootstrapping, bootstrapCount, timer>>
  /\ UNCHANGED <<tableVars, refreshVars, stopped, close, ctxDone>>

(* It is added, to a table that others may have changed meanwhile. *)
AddPeer(p) ==
  /\ rtLoop = "add" /\ rtLoop' = "select"
  /\ p \in received
  /\ received' = {}
  /\ TryAddPeer(p, isBootstrapping)
  /\ UNCHANGED <<refreshVars, isBootstrapping, bootstrapCount, timer,
                 adding, stopped, close, ctxDone>>

(* The refresh manager's signal, which ends a bootstrap.  The refresh that is
   asked for then may come too early or not, like any RefreshNoWait. *)
RefreshFinished ==
  /\ rtLoop = "select"
  /\ SendRefreshDone
  /\ bootstrapCount' = Min({bootstrapCount + 1, 2})
  /\ timer' = (timer \/ bootstrapCount = 1)
  /\ isBootstrapping' = FALSE
  /\ UNCHANGED <<tableVars, refresh, roundVars, rtLoop, received, adding, stopped, close,
                 ctxDone>>

RtLoopExits ==
  /\ rtLoop = "select"
  /\ ctxDone
  /\ rtLoop' = "exited"
  /\ UNCHANGED <<tableVars, refreshVars, received, isBootstrapping, bootstrapCount, timer,
                 adding, stopped, close, ctxDone>>

-----------------------------------------------------------------------------
(* Peers that answer and peers that do not *)

(* A query of a lookup, or a lookup check, succeeded, and its goroutine is
   about to send the peer.  Several goroutines that send the same peer count
   as one. *)
validPeerFound(p) ==
  /\ ~ctxDone
  /\ p \notin stopped
  /\ adding' = adding \cup {p}
  /\ UNCHANGED <<tableVars, refreshVars, loopVars, stopped, close, ctxDone>>

AddCancelled(p) ==
  /\ p \in adding
  /\ ctxDone
  /\ adding' = adding \ {p}
  /\ UNCHANGED <<tableVars, refreshVars, loopVars, stopped, close, ctxDone>>

(* Whether the peer would be useful and passes validRTPeer is looked at before
   the check is started; by the time it succeeds neither need hold. *)
peerFound(p) == validPeerFound(p)

(* A query of a lookup fails, or an event says that the peer does not speak
   the protocol or is not accepted by the filter.  Peers that answer are not
   spared: the filter may reject them, and a query may fail by another
   caller's context. *)
peerStoppedDHT(p) ==
  /\ RemovePeer(p)
  /\ UNCHANGED <<refreshVars, dhtVars, ctxDone>>

(* An event of the network starts a check of the peer, which may succeed, or
   removes it; so does a query of a lookup. *)
handlePeerChangeEvent(p) == peerFound(p) \/ peerStoppedDHT(p)

StopsDHT(p) ==
  /\ p \in Stopping
  /\ stopped' = stopped \cup {p}
  /\ UNCHANGED <<tableVars, refreshVars, loopVars, adding, close, ctxDone>>

(* The grace period after a successful query passes. *)
Age(p) ==
  /\ p \in recent
  /\ recent' = recent \ {p}
  /\ UNCHANGED <<rt, replaceable, refreshVars, dhtVars, ctxDone>>

(* Peers that have stopped do not answer pings. *)
Ping(p) ==
  /\ \/ p \notin stopped /\ PingOk(p)
     \/ PingFails(p)
  /\ UNCHANGED dhtVars

-----------------------------------------------------------------------------
(* Close *)

Close ==
  /\ close = "no"
  /\ close' = "waiting"
  /\ ctxDone' = TRUE
  /\ UNCHANGED <<tableVars, refreshVars, loopVars, adding, stopped>>

(* wg.Wait, and the Close of the refresh manager. *)
CloseReturns ==
  /\ close = "waiting"
  /\ rtLoop = "exited" /\ loop = "exited"
  /\ \A c \in Callers : refresh[c] # "asking"
  /\ close' = "returned"
  /\ UNCHANGED <<tableVars, refreshVars, loopVars, adding, stopped, ctxDone>>

-----------------------------------------------------------------------------
RefreshManager == RefreshLoop /\ UNCHANGED dhtVars

RefreshCall(c) == (Refresh(c) \/ RefreshCancelled(c)) /\ UNCHANGED dhtVars

rtPeerLoop ==
  FreezeTimer \/ RefreshFinished \/ RtLoopExits \/ \E p \in Peers : ReceivePeer(p) \/ AddPeer(p)

Next ==
  \/ RefreshManager \/ rtPeerLoop \/ Close \/ CloseReturns
  \/ \E c \in Callers : RefreshCall(c)
  \/ \E p \in Peers : \/ handlePeerChangeEvent(p) \/ AddCancelled(p)
                      \/ StopsDHT(p) \/ Age(p) \/ Ping(p)

(* Goroutines run; a select chooses at random among its ready cases and so
   overlooks none for ever; pings end, at the latest with their timeout; and
   grace periods pass. *)
Fairness ==
  /\ WF_vars(RefreshManager) /\ SF_vars(LoopExits /\ UNCHANGED dhtVars)
  /\ SF_vars(RefreshFinished) /\ SF_vars(RtLoopExits) /\ WF_vars(CloseReturns)
  /\ WF_vars(\E p \in Peers : AddPeer(p))
  /\ \A c \in Callers : /\ SF_vars(Trigger(c) /\ UNCHANGED dhtVars)
                        /\ WF_vars(RefreshCancelled(c) /\ UNCHANGED dhtVars)
  /\ WF_vars(\E p \in Peers : Ping(p)) /\ \A p \in Peers : WF_vars(Age(p))

Spec == Init /\ [][Next]_vars /\ Fairness

-----------------------------------------------------------------------------
(* Properties *)

(* The variables keep their types. *)
TypeOK ==
  /\ rt \subseteq Peers /\ replaceable \subseteq rt /\ recent \subseteq rt
  /\ pinging \subseteq Peers /\ adding \subseteq Peers /\ received \subseteq Peers
  /\ stopped \subseteq Peers
  /\ refresh \in [Callers -> {"idle", "asking", "batched", "answered"}]
  /\ loop \in {"select", "batch", "ping", "self", "cpl", "signal", "reply", "exited"}
  /\ rtLoop \in {"select", "add", "exited"}
  /\ close \in {"no", "waiting", "returned"}
  /\ {forced, skipped, isBootstrapping, timer, ctxDone} \subseteq BOOLEAN
  /\ refreshCpls \in Nat /\ cpl \in Nat /\ gap \in Nat \cup {NoGap}
  /\ bootstrapCount \in 0..2

(* Callers are batched only while a round is on.  When a round is about to
   answer a forcing caller, whoever else it serves, it has looked at every
   prefix length of the table and skipped none as not due; only lengths beyond
   twice the first one without peers are cut off. *)
BatchServed ==
  /\ loop \in {"select", "exited"} => \A c \in Callers : refresh[c] # "batched"
  /\ \A c \in Forcing : refresh[c] = "batched" /\ loop \in {"signal", "reply"} =>
       /\ ~skipped
       /\ \A l \in cpl..(refreshCpls - 1) : gap # NoGap /\ l > 2 * (gap + 1)

(* No bucket ever holds more peers than it may. *)
BucketsBounded == \A p \in rt : Cardinality(Bucket(Cpl[p])) <= BucketSize

(* Types, what a round owes its callers, and the size of the buckets. *)
Inv == TypeOK /\ BatchServed /\ BucketsBounded

(* Peers that joined during a bootstrap may be replaced until the freeze, and
   the freeze is never lost: while there are such peers the second refresh that
   starts the timer is still to come or the timer runs, although the table may
   have emptied and filled again, and lost peers between the look at its size
   and the addition. *)
FreezeAhead == replaceable # {} => bootstrapCount < 2 \/ timer

(* "The returned channel will block until the refresh finishes, then yield the
   error and close" (dht_bootstrap.go): every refresh that was asked for is
   answered, also when the DHT is closed meanwhile; and Close returns. *)
RefreshAnswered ==
  /\ \A c \in Callers : refresh[c] = "asking" ~> refresh[c] = "answered"
  /\ ctxDone ~> close = "returned"

(* A peer that has stopped speaking the protocol is out of the table for good
   at some point, although a check or a lookup that it still answered may
   bring it back after an event or a failed query removed it. *)
StoppedLeave ==
  \A p \in Stopping : <>[](p \in stopped => p \notin rt \/ ctxDone)
=============================================================================
