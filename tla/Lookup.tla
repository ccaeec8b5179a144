------------------------------- MODULE Lookup -------------------------------
(***************************************************************************)
(* One iterative Kademlia lookup: runLookupWithFollowup, runQuery and the  *)
(* query engine of query.go.                                               *)
(*                                                                         *)
(* The goroutine that calls query.run is the only one that touches the     *)
(* QueryPeerset (ps) and the routing of updates.  It starts at most Alpha  *)
(* queryPeer goroutines (worker), which report on the channel ch of        *)
(* capacity Alpha.  When the lookup has ended, run waits for every         *)
(* queryPeer goroutine (the WaitGroup) although nobody reads ch any more.  *)
(* runLookupWithFollowup then queries the peers of the result that were    *)
(* not queried yet (follow).                                               *)
(*                                                                         *)
(* The QueryPeerset is the function from peers to states it represents;    *)
(* module QueryPeerset shows that the slice in qpeerset.go implements it.  *)
(***************************************************************************)
EXTENDS Keyspace, Sequences

CONSTANTS
  Alpha,      \* concurrency of the lookup, and capacity of ch
  Beta,       \* number of closest peers that must be queried to complete
  K,          \* bucket size: size of the seed set and of the result
  Accepted,   \* peers that pass queryPeerFilter or are the target itself
  Faulty      \* peers whose dial or RPC may fail although no context is cancelled

ASSUME ParamAssumption ==
  /\ Alpha \in Nat \ {0}
  /\ Beta \in Nat \ {0}
  /\ K \in Nat \ {0}
  /\ Accepted \subseteq Peers
  /\ Faulty \subseteq Peers

VARIABLES
  pc,         \* where the goroutine of runLookupWithFollowup is
  ps,         \* ps[p]: state of p in q.queryPeers
  ch,         \* updates sent and not yet received
  worker,     \* worker[p]: where the queryPeer goroutine of p is
  report,     \* report[p]: what the queryPeer goroutine of p is about to send
  reason,     \* why the lookup terminated; "none" iff q.terminated is false
  res,        \* lookupWithFollowupResult
  follow,     \* follow[p]: where the follow-up query of p is
  rt,         \* peers of the routing table
  stop,       \* what stopFn returns now
  cancelled   \* the caller's context is cancelled

vars == <<pc, ps, ch, worker, report, reason, res, follow, rt, stop, cancelled>>

-----------------------------------------------------------------------------
(* Types *)

PeerState == {"absent", "heard", "waiting", "queried", "unreachable"}

Update == [cause : Peers \cup {Self}, heard : SUBSET Peers,
           queried : SUBSET Peers, unreachable : SUBSET Peers]

Result == [peers : SUBSET Peers, closest : SUBSET Peers, completed : BOOLEAN]

Active == {"dialing", "querying", "sending"}

(* The update of the queryPeer goroutine of p: a response naming the peers
   heard, or a failure. *)
Answer(p, heard) ==
  [cause |-> p, heard |-> heard, queried |-> {p}, unreachable |-> {}]
Failure(p) ==
  [cause |-> p, heard |-> {}, queried |-> {}, unreachable |-> {p}]
Seed(seeds) ==
  [cause |-> Self, heard |-> seeds, queried |-> {}, unreachable |-> {}]

-----------------------------------------------------------------------------
(* The query peerset, seen as a function *)

InStates(s, states) == {p \in Peers : s[p] \in states}

ClosestInStates(s, n, states) == Closest(InStates(s, states), n)

NumHeard(s) == Cardinality(InStates(s, {"heard"}))

NumWaiting(s) == Cardinality(InStates(s, {"waiting"}))

Reachable == {"heard", "waiting", "queried"}

Known == {"heard", "waiting", "queried", "unreachable"}

isLookupTermination(s) ==
  \A p \in ClosestInStates(s, Beta, Reachable) : s[p] = "queried"

isStarvationTermination(s) == NumHeard(s) = 0 /\ NumWaiting(s) = 0

-----------------------------------------------------------------------------
(* Contexts.  pathCtx is derived from the caller's context and cancelled by
   terminate. *)

PathCancelled == cancelled \/ reason # "none"

-----------------------------------------------------------------------------
Init ==
  /\ pc = "start"
  /\ ps = [p \in Peers |-> "absent"]
  /\ ch = << >>
  /\ worker = [p \in Peers |-> "none"]
  /\ report = [p \in Peers |-> Failure(p)]
  /\ reason = "none"
  /\ res = [peers |-> {}, closest |-> {}, completed |-> FALSE]
  /\ follow = [p \in Peers |-> "none"]
  /\ rt \in SUBSET Peers
  /\ stop = FALSE
  /\ cancelled = FALSE

(* runQuery up to the loop of run: seed with the K nearest peers of the
   routing table, or fail when it is empty. *)
Start ==
  /\ pc = "start"
  /\ LET seeds == Closest(rt, K) IN
       IF seeds = {}
       THEN pc' = "failed" /\ UNCHANGED ch
       ELSE pc' = "run" /\ ch' = <<Seed(seeds)>>
  /\ UNCHANGED <<ps, worker, report, reason, res, follow, rt, stop, cancelled>>

-----------------------------------------------------------------------------
(* The loop of run *)

(* TryAdd for each peer heard of: one that is already in the set keeps its
   state. *)
AddHeard(s, heard) ==
  [p \in Peers |-> IF p \in heard /\ s[p] = "absent" THEN "heard" ELSE s[p]]

(* Fault: failed peers stay waiting. *)
updateStateIgnoresFailures(s, u) ==
  [p \in Peers |-> IF p \in u.queried THEN "queried" ELSE AddHeard(s, u.heard)[p]]

updateState(s, u) ==
  [p \in Peers |->
     IF p \in u.queried THEN "queried"
     ELSE IF p \in u.unreachable THEN "unreachable"
     ELSE AddHeard(s, u.heard)[p]]

(* updateState panics on a transition out of any other state than waiting. *)
UpdatePanics(s, u) ==
  \E p \in u.queried \cup u.unreachable : s[p] # "waiting"

(* isReadyToTerminate: the reason to stop, in the order of the tests. *)
isReadyToTerminate(s) ==
  IF stop THEN "stopped"
  ELSE IF isStarvationTermination(s) THEN "starvation"
  ELSE IF isLookupTermination(s) THEN "completed"
  ELSE "none"

(* Fault: one query too many. *)
maxNumQueriesOneMore(s) == Alpha + 1 - NumWaiting(s)

maxNumQueriesToSpawn(s) == Alpha - NumWaiting(s)

(* spawnQuery for every peer of Q: waiting, and a goroutine that dials. *)
spawnQuery(s, Q) ==
  /\ ps' = [p \in Peers |-> IF p \in Q THEN "waiting" ELSE s[p]]
  /\ worker' = [p \in Peers |-> IF p \in Q THEN "dialing" ELSE worker[p]]

(* The part of the loop body after the select.  r is the reason given by the
   select, "none" when an update was received.  A negative bound makes
   ClosestInStates slice out of range. *)
LoopTail(s, r) ==
  LET why == IF r # "none" THEN r ELSE isReadyToTerminate(s) IN
    /\ reason' = why
    /\ \/ /\ why # "none"
          /\ pc' = "wait"
          /\ ps' = s
          /\ UNCHANGED worker
       \/ /\ why = "none"
          /\ spawnQuery(s, ClosestInStates(s, maxNumQueriesToSpawn(s), {"heard"}))
          /\ pc' = IF maxNumQueriesToSpawn(s) < 0 THEN "panic" ELSE pc

Receive ==
  /\ pc = "run"
  /\ ch # << >>
  /\ ch' = Tail(ch)
  /\ IF UpdatePanics(ps, Head(ch))
     THEN pc' = "panic" /\ UNCHANGED <<ps, worker, reason>>
     ELSE LoopTail(updateState(ps, Head(ch)), "none")
  /\ UNCHANGED <<report, res, follow, rt, stop, cancelled>>

PathDone ==
  /\ pc = "run"
  /\ cancelled
  /\ LoopTail(ps, "cancelled")
  /\ UNCHANGED <<ch, report, res, follow, rt, stop, cancelled>>

-----------------------------------------------------------------------------
(* queryPeer, one goroutine per peer *)

DialOk(p) ==
  /\ worker[p] = "dialing"
  /\ worker' = [worker EXCEPT ![p] = "querying"]
  /\ UNCHANGED <<pc, ps, ch, report, reason, res, follow, rt, stop, cancelled>>

(* Fault: a dial cut short by a cancellation evicts the peer. *)
DialFailEvicts(p) ==
  /\ worker[p] = "dialing"
  /\ p \in Faulty \/ PathCancelled
  /\ rt' = rt \ {p}
  /\ worker' = [worker EXCEPT ![p] = "sending"]
  /\ report' = [report EXCEPT ![p] = Failure(p)]
  /\ UNCHANGED <<pc, ps, ch, reason, res, follow, stop, cancelled>>

(* A failed dial evicts the peer unless the path context is done. *)
DialFail(p) ==
  /\ worker[p] = "dialing"
  /\ p \in Faulty \/ PathCancelled
  /\ rt' = IF PathCancelled THEN rt ELSE rt \ {p}
  /\ worker' = [worker EXCEPT ![p] = "sending"]
  /\ report' = [report EXCEPT ![p] = Failure(p)]
  /\ UNCHANGED <<pc, ps, ch, reason, res, follow, stop, cancelled>>

(* The RPC runs under the caller's context, not under the path context. *)
QueryFail(p) ==
  /\ worker[p] = "querying"
  /\ p \in Faulty \/ cancelled
  /\ rt' = IF cancelled THEN rt ELSE rt \ {p}
  /\ worker' = [worker EXCEPT ![p] = "sending"]
  /\ report' = [report EXCEPT ![p] = Failure(p)]
  /\ UNCHANGED <<pc, ps, ch, reason, res, follow, stop, cancelled>>

(* A response names any peers.  The IP diversity filter may drop any of them,
   self and the peers the query filter rejects are dropped.  The routing
   table may take p, in place of a replaceable peer at most, or not. *)
QueryOk(p) ==
  /\ worker[p] = "querying"
  /\ \E newPeers \in SUBSET (Peers \cup {Self}) :
       report' = [report EXCEPT ![p] = Answer(p, (newPeers \ {Self}) \cap Accepted)]
  /\ \/ UNCHANGED rt
     \/ \E out \in {{}} \cup {{q} : q \in rt} : p \notin rt /\ rt' = (rt \ out) \cup {p}
  /\ worker' = [worker EXCEPT ![p] = "sending"]
  /\ UNCHANGED <<pc, ps, ch, reason, res, follow, stop, cancelled>>

(* ch <- update blocks while the channel is full. *)
Send(p) ==
  /\ worker[p] = "sending"
  /\ Len(ch) < Alpha
  /\ ch' = Append(ch, report[p])
  /\ worker' = [worker EXCEPT ![p] = "exited"]
  /\ report' = [report EXCEPT ![p] = Failure(p)]
  /\ UNCHANGED <<pc, ps, reason, res, follow, rt, stop, cancelled>>

-----------------------------------------------------------------------------
(* After run: the result and the follow-up queries *)

(* Fault: peers that are still waited for are left out. *)
constructLookupResultNoWaiting(s) ==
  [peers |-> ClosestInStates(s, K, {"heard", "queried"}),
   closest |-> ClosestInStates(s, K, Known),
   completed |-> isLookupTermination(s) \/ isStarvationTermination(s)]

constructLookupResult(s) ==
  [peers |-> ClosestInStates(s, K, Reachable),
   closest |-> ClosestInStates(s, K, Known),
   completed |-> isLookupTermination(s) \/ isStarvationTermination(s)]

(* The peers of a result that were heard of or are still waited for. *)
queryPeers(r) == {p \in r.peers : ps[p] \in {"heard", "waiting"}}

(* Fault: the result is returned without waiting for the goroutines. *)
FinishRunEarly ==
  /\ pc = "wait"
  /\ res' = constructLookupResult(ps)
  /\ pc' = "returned"
  /\ UNCHANGED <<ps, ch, worker, report, reason, follow, rt, stop, cancelled>>

(* waitGroup.Wait returns, the result is built, and the follow-up queries are
   started unless there are none or the lookup was stopped from outside. *)
FinishRun ==
  /\ pc = "wait"
  /\ \A p \in Peers : worker[p] \notin Active
  /\ LET r == constructLookupResult(ps)
         Q == queryPeers(r) IN
       \/ /\ Q = {}
          /\ res' = r /\ pc' = "returned" /\ UNCHANGED follow
       \/ /\ Q # {} /\ (cancelled \/ stop)
          /\ res' = [r EXCEPT !.completed = FALSE]
          /\ pc' = "returned" /\ UNCHANGED follow
       \/ /\ Q # {} /\ ~cancelled /\ ~stop
          /\ res' = r /\ pc' = "followup"
          /\ follow' = [p \in Peers |-> IF p \in Q THEN "running" ELSE "none"]
  /\ UNCHANGED <<ps, ch, worker, report, reason, rt, stop, cancelled>>

(* queryFn of a follow-up returns, its result is ignored; doneCh has room for
   every follow-up. *)
FollowUpDone(p) ==
  /\ follow[p] = "running"
  /\ follow' = [follow EXCEPT ![p] = "sent"]
  /\ UNCHANGED <<pc, ps, ch, worker, report, reason, res, rt, stop, cancelled>>

(* Follow-ups whose token is still to be taken from doneCh. *)
Outstanding(f) == {p \in Peers : f[p] \in {"running", "sent"}}

(* processFollowUp, case <-doneCh. *)
FollowUpReceive(p) ==
  /\ pc = "followup"
  /\ follow[p] = "sent"
  /\ follow' = [follow EXCEPT ![p] = "received"]
  /\ LET last == Outstanding(follow') = {} IN
       /\ res' = IF stop /\ ~last THEN [res EXCEPT !.completed = FALSE] ELSE res
       /\ pc' = IF last THEN "returned" ELSE IF stop THEN "drain" ELSE pc
  /\ UNCHANGED <<ps, ch, worker, report, reason, rt, stop, cancelled>>

(* processFollowUp, case <-ctx.Done(). *)
FollowUpCancelled ==
  /\ pc = "followup"
  /\ cancelled
  /\ res' = [res EXCEPT !.completed = FALSE]
  /\ pc' = "drain"
  /\ UNCHANGED <<ps, ch, worker, report, reason, follow, rt, stop, cancelled>>

(* The loop after processFollowUp takes the tokens that are left. *)
Drain(p) ==
  /\ pc = "drain"
  /\ follow[p] = "sent"
  /\ follow' = [follow EXCEPT ![p] = "received"]
  /\ pc' = IF Outstanding(follow') = {} THEN "returned" ELSE pc
  /\ UNCHANGED <<ps, ch, worker, report, reason, res, rt, stop, cancelled>>

-----------------------------------------------------------------------------
(* The caller *)

Final == {"returned", "failed", "panic"}

CancelContext ==
  /\ pc \notin Final
  /\ ~cancelled
  /\ cancelled' = TRUE
  /\ UNCHANGED <<pc, ps, ch, worker, report, reason, res, follow, rt, stop>>

(* stopFn need not be sticky (FindPeer asks whether it is connected now). *)
StopChanges ==
  /\ pc \notin Final
  /\ stop' = ~stop
  /\ UNCHANGED <<pc, ps, ch, worker, report, reason, res, follow, rt, cancelled>>

-----------------------------------------------------------------------------
QueryPeer(p) == DialOk(p) \/ DialFail(p) \/ QueryFail(p) \/ QueryOk(p) \/ Send(p)

Run == Start \/ Receive \/ PathDone \/ FinishRun \/ FollowUpCancelled

FollowUp(p) == FollowUpReceive(p) \/ Drain(p)

Next ==
  \/ Run
  \/ \E p \in Peers : QueryPeer(p) \/ FollowUpDone(p) \/ FollowUp(p)
  \/ CancelContext
  \/ StopChanges

(* Dials and RPCs return: the host bounds a dial and the message sender a
   read with a timeout.  Goroutines that can run are scheduled.  Nothing is
   assumed of the caller. *)
Fairness ==
  /\ WF_vars(Run)
  /\ \A p \in Peers : /\ WF_vars(QueryPeer(p))
                      /\ WF_vars(FollowUpDone(p))
                      /\ WF_vars(FollowUp(p))

Spec == Init /\ [][Next]_vars /\ Fairness

-----------------------------------------------------------------------------
(* Properties *)

(* The variables keep their types. *)
TypeOK ==
  /\ pc \in {"start", "run", "wait", "followup", "drain"} \cup Final
  /\ ps \in [Peers -> PeerState]
  /\ ch \in Seq(Update)
  /\ worker \in [Peers -> {"none", "exited"} \cup Active]
  /\ report \in [Peers -> Update]
  /\ reason \in {"none", "stopped", "starvation", "completed", "cancelled"}
  /\ res \in Result
  /\ follow \in [Peers -> {"none", "running", "sent", "received"}]
  /\ rt \in SUBSET Peers
  /\ stop \in BOOLEAN
  /\ cancelled \in BOOLEAN

(* updateState never panics and the number of queries to spawn is never
   negative (query.go, updateState and run). *)
NoPanic == pc # "panic"

(* A queryPeer goroutine never waits for room in ch, not even once run has
   terminated and nobody receives any more: otherwise waitGroup.Wait would
   never return. *)
ReportNeverBlocks ==
  \A p \in Peers : worker[p] = "sending" => Len(ch) < Alpha

(* The peerset s, the goroutines w and the queue c fit together. *)
WorkersWait(s, w) ==
  \A p \in Peers :
    /\ w[p] \in Active => s[p] = "waiting"
    /\ w[p] = "none" <=> s[p] \in {"absent", "heard"}

WaitersServed(s, w, c) ==
  \A p \in Peers :
    s[p] = "waiting" => w[p] \in Active \/ \E i \in 1..Len(c) : c[i].cause = p

UpdatesAwaited(s, w, c) ==
  \A i \in 1..Len(c) :
    /\ c[i].cause # Self => s[c[i].cause] = "waiting" /\ w[c[i].cause] = "exited"
    /\ c[i].cause = Self => \A p \in Peers : s[p] = "absent"
    /\ \A j \in 1..Len(c) : c[i].cause = c[j].cause => i = j

Accounted(s, w, c) ==
  /\ WorkersWait(s, w)
  /\ WaitersServed(s, w, c)
  /\ UpdatesAwaited(s, w, c)
  /\ NumWaiting(s) <= Alpha

(* A peer is waiting exactly while its queryPeer goroutine is in flight or its
   update is queued, never both; at most Alpha peers are; the seed update is
   alone in ch.  This is what makes room in ch for every report. *)
WaitingAccounted == Accounted(ps, worker, ch)

(* The query engine keeps its accounts: the types, no panic in updateState or in
   the slice of peers to spawn (NoPanic), each waiting peer in flight or queued
   (WaitingAccounted), and room in ch for every goroutine that still reports
   (ReportNeverBlocks). *)
QueriesAccounted == TypeOK /\ NoPanic /\ WaitingAccounted /\ ReportNeverBlocks

(* A lookup that has not terminated has an update to process or a query in
   flight: the select of run cannot wait for ever. *)
LookupNotStuck ==
  pc = "run" => ch # << >> \/ \E p \in Peers : worker[p] \in Active

(* When runLookupWithFollowup returns no query it started is still running
   ("wait for all queries to complete before returning"). *)
QuiescentOnReturn ==
  pc = "returned" =>
    \A p \in Peers : worker[p] \notin Active /\ follow[p] # "running"

(* A completed result has been queried in full: every one of the top K peers
   answered during the lookup or was asked again by a follow-up that ended
   ("This ensures that all of the top K results have been queried"). *)
CompletedIsQueried ==
  pc = "returned" /\ res.completed =>
    \A p \in res.peers : ps[p] = "queried" \/ follow[p] = "received"

(* What the caller of runLookupWithFollowup gets: no query is left behind, and a
   completed result was queried in full, however the follow-up was cut short. *)
ReturnSound == QuiescentOnReturn /\ CompletedIsQueried

(* A peer that does not fail leaves the routing table by no lookup, unless it makes
   room for one that answered, however its dials and RPCs are cut short by
   cancellation or by termination. *)
EvictOnlyFaulty == [][(rt \ Faulty) \subseteq rt' \/ rt' \ rt # {}]_vars

(* No peer is contacted twice by run: a peer moves only forward from heard
   over waiting to queried or unreachable, and a queryPeer goroutine is
   started only for a peer that never had one. *)
ContactedOnce ==
  [][\A p \in Peers :
       /\ ps'[p] # ps[p] =>
            <<ps[p], ps'[p]>> \in ({"absent"} \X {"heard", "waiting"})
                               \cup {<<"heard", "waiting">>}
                               \cup ({"waiting"} \X {"queried", "unreachable"})
       /\ worker'[p] = "dialing" => worker[p] \in {"none", "dialing"}]_vars

(* The lookup as its caller sees it *)
stage ==
  IF pc \in {"start", "run", "wait"} THEN "running"
  ELSE IF pc = "followup" THEN "followup"
  ELSE IF pc = "drain" THEN "stopping" ELSE "returned"

asking == {p \in Peers : worker[p] \in {"dialing", "querying"} \/ follow[p] = "running"}

asked == {p \in Peers : worker[p] # "none"}

Outside == INSTANCE AbstractLookup

(* Peerset, goroutines, channel and follow-ups together are a lookup of the kind
   that the searches for values and providers rely on: at most Alpha query
   functions at a time, none started after stopFn, none left when it returns. *)
ImplementsOutside == Outside!Spec

(* Every lookup returns, whatever fails and whenever the caller cancels or
   stopFn changes its mind. *)
LookupReturns == <>(pc \in Final)

=============================================================================
