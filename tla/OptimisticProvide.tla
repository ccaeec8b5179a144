-------------------------- MODULE OptimisticProvide --------------------------
(***************************************************************************)
(* optimisticProvide of lookup_optim.go: while a lookup for the key is     *)
(* still running its stop function already stores provider records with    *)
(* peers that are close enough; the rest is stored when it has ended.  The *)
(* call returns when returnThreshold of the RPCs are over; for each of the *)
(* others it takes a lease in a pool that all calls share, held by a       *)
(* goroutine that waits for one more RPC, or waits for an RPC itself.      *)
(*                                                                         *)
(* The lookup is seen from outside, as in module ValueSearch.  Which peers *)
(* are close enough, and whether all of them together are, is a matter of  *)
(* network size estimates: here any peers are, so that peers are only      *)
(* counted.  The context shows only in what it ends: a lookup may end and  *)
(* an RPC may fail at any time.                                            *)
(***************************************************************************)
EXTENDS Integers, FiniteSets, FiniteSetsExt

CONSTANTS
  Calls,      \* concurrent calls of optimisticProvide
  NumPeers,   \* bound: peers that a lookup meets
  K,          \* bucketSize
  Thresholds, \* values of returnThreshold to check: 3/4 of bucketSize, rounded up
  PoolSize    \* capacity of optProvJobsPool

ASSUME ProvideAssumption ==
  /\ IsFiniteSet(Calls) /\ NumPeers \in Nat /\ K \in Nat \ {0}
  /\ Thresholds \subseteq 1..K /\ PoolSize \in Nat

VARIABLES
  at,         \* at[v]: where call v is
  running,    \* running[v]: goroutines of putProviderRecord in their RPC,
  sending,    \* that have to send to doneChan,
  over,       \* and that have
  failure,    \* failure[v]: peers in state failure in peerStates
  doneChan,   \* doneChan[v]: tokens in the channel
  closed,     \* calls whose doneChan is closed
  putProvDone,\* putProvDone[v]: tokens that were taken out and counted
  remaining,  \* remaining[v]: iterations left in the second loop of waitForRPCs
  waiting,    \* waiting[v]: goroutines of consumeDoneChan that wait for a token,
  releasing,  \* and that have taken it and still hold their lease
  jobsPool,   \* leases in optProvJobsPool
  threshold   \* the initial returnThreshold of every call; constant

rpcVars == <<running, sending, over, failure>>
waitVars == <<closed, putProvDone, remaining>>
consumerVars == <<waiting, releasing>>
provideVars == <<at, rpcVars, doneChan, waitVars, consumerVars, jobsPool, threshold>>

Advance(v, l) == at' = [at EXCEPT ![v] = l]
Add(f, v, n) == [f EXCEPT ![v] = @ + n]

(* The peers in peerStates. *)
rpcCount(v) == running[v] + sending[v] + over[v]

(* Fault: the threshold is not lowered to the number of RPCs. *)
returnThresholdFixed(v) == threshold

returnThreshold(v) == Min({threshold, rpcCount(v)})

Zero == [v \in Calls |-> 0]

Init ==
  /\ at = [v \in Calls |-> "lookup"]
  /\ running = Zero /\ sending = Zero /\ over = Zero /\ failure = Zero
  /\ doneChan = Zero /\ closed = {}
  /\ putProvDone = Zero /\ remaining = Zero
  /\ waiting = Zero /\ releasing = Zero
  /\ jobsPool = 0
  /\ threshold \in Thresholds

(* go putProviderRecord(p) for some of up to K peers, unless they are in
   peerStates. *)
Schedule(v) ==
  /\ \E n \in 0..Min({K, NumPeers - rpcCount(v)}) : running' = Add(running, v, n)
  /\ UNCHANGED <<sending, over, failure>>

(* stopFn: schedule the close ones of the K closest peers; the lookup has to
   stop when K records are stored or on their way, and may have to when the
   peers are close on average. *)
stopFn(v) ==
  /\ at[v] = "lookup"
  /\ Schedule(v)
  /\ \/ Advance(v, "store")
     \/ /\ running'[v] + sending[v] + over[v] - failure[v] < K
        /\ UNCHANGED at
  /\ UNCHANGED <<doneChan, waitVars, consumerVars, jobsPool>>

(* The lookup ends by itself, or fails because the routing table is empty. *)
LookupEnds(v) ==
  /\ at[v] = "lookup"
  /\ \/ Advance(v, "store")
     \/ rpcCount(v) = 0 /\ Advance(v, "failed")
  /\ UNCHANGED <<rpcVars, doneChan, waitVars, consumerVars, jobsPool>>

(* The peers of the result that were not contacted yet.  The result is empty
   when no peer was reachable. *)
Store(v) ==
  /\ at[v] = "store"
  /\ Schedule(v)
  /\ Advance(v, "wait")
  /\ UNCHANGED <<doneChan, waitVars, consumerVars, jobsPool>>

-----------------------------------------------------------------------------
(* putProviderRecord *)

RPCOver(v) ==
  /\ running[v] > 0
  /\ running' = Add(running, v, -1)
  /\ sending' = Add(sending, v, 1)
  /\ \/ UNCHANGED failure
     \/ failure' = Add(failure, v, 1)
  /\ UNCHANGED <<at, over, doneChan, waitVars, consumerVars, jobsPool>>

(* doneChan <- struct{}{} blocks while the buffer is full. *)
SendDone(v) ==
  /\ sending[v] > 0
  /\ doneChan[v] < threshold
  /\ doneChan' = Add(doneChan, v, 1)
  /\ sending' = Add(sending, v, -1)
  /\ over' = Add(over, v, 1)
  /\ UNCHANGED <<at, running, failure, waitVars, consumerVars, jobsPool>>

-----------------------------------------------------------------------------
(* waitForRPCs *)

TakeToken(v) ==
  /\ doneChan[v] > 0
  /\ doneChan' = Add(doneChan, v, -1)

(* Fault: the channel is closed at the threshold. *)
CountEarly(v) ==
  /\ putProvDone' = Add(putProvDone, v, 1)
  /\ closed' = IF putProvDone'[v] > returnThreshold(v) THEN closed \cup {v} ELSE closed

(* The token is counted; the last one closes the channel. *)
Count(v) ==
  /\ putProvDone' = Add(putProvDone, v, 1)
  /\ closed' = IF putProvDone'[v] = rpcCount(v) THEN closed \cup {v} ELSE closed

(* The first loop, which ends at the threshold and closes nothing. *)
Wait(v) ==
  /\ at[v] = "wait"
  /\ TakeToken(v)
  /\ putProvDone' = Add(putProvDone, v, 1)
  /\ IF putProvDone'[v] = returnThreshold(v)
     THEN /\ Advance(v, "lease")
          /\ remaining' = [remaining EXCEPT ![v] = rpcCount(v) - putProvDone'[v]]
     ELSE UNCHANGED <<at, remaining>>
  /\ UNCHANGED <<rpcVars, closed, consumerVars, jobsPool>>

(* Fault: a goroutine is started for every RPC left, lease or not. *)
LeaseUnbounded(v) ==
  /\ at[v] = "lease"
  /\ remaining[v] > 0
  /\ jobsPool' = Min({jobsPool + 1, PoolSize})
  /\ waiting' = Add(waiting, v, 1)
  /\ remaining' = Add(remaining, v, -1)
  /\ UNCHANGED <<at, rpcVars, doneChan, closed, putProvDone, releasing>>

(* The second loop: a lease, or a token. *)
Lease(v) ==
  /\ at[v] = "lease"
  /\ remaining[v] > 0
  /\ jobsPool < PoolSize
  /\ jobsPool' = jobsPool + 1
  /\ waiting' = Add(waiting, v, 1)
  /\ remaining' = Add(remaining, v, -1)
  /\ UNCHANGED <<at, rpcVars, doneChan, closed, putProvDone, releasing>>

TakeDone(v) ==
  /\ at[v] = "lease"
  /\ remaining[v] > 0
  /\ TakeToken(v)
  /\ Count(v)
  /\ remaining' = Add(remaining, v, -1)
  /\ UNCHANGED <<at, rpcVars, consumerVars, jobsPool>>

Return(v) ==
  /\ at[v] = "lease"
  /\ remaining[v] = 0
  /\ Advance(v, "returned")
  /\ UNCHANGED <<rpcVars, doneChan, waitVars, consumerVars, jobsPool>>

-----------------------------------------------------------------------------
(* consumeDoneChan *)

Consume(v) ==
  /\ waiting[v] > 0
  /\ TakeToken(v)
  /\ waiting' = Add(waiting, v, -1)
  /\ releasing' = Add(releasing, v, 1)
  /\ UNCHANGED <<at, rpcVars, waitVars, jobsPool>>

(* The lease is given back and the token counted.  Neither can block, since
   the goroutine's own lease is in the pool. *)
Release(v) ==
  /\ releasing[v] > 0
  /\ jobsPool' = jobsPool - 1
  /\ releasing' = Add(releasing, v, -1)
  /\ Count(v)
  /\ UNCHANGED <<at, rpcVars, doneChan, remaining, waiting>>

-----------------------------------------------------------------------------
Call(v) == LookupEnds(v) \/ Store(v) \/ Wait(v) \/ Lease(v) \/ TakeDone(v) \/ Return(v)

putProviderRecord(v) == RPCOver(v) \/ SendDone(v)

consumeDoneChan(v) == Consume(v) \/ Release(v)

ProvideNext ==
  /\ \E v \in Calls : stopFn(v) \/ Call(v) \/ putProviderRecord(v) \/ consumeDoneChan(v)
  /\ UNCHANGED threshold

(* RPCs end, at the latest with the timeout of putCtx; lookups return; and
   goroutines that can run are scheduled.  A waiting receiver of a channel is
   served in turn: runtime channels queue their receivers. *)
ProvideFairness ==
  \A v \in Calls :
    /\ WF_provideVars(Call(v) /\ UNCHANGED threshold)
    /\ WF_provideVars(putProviderRecord(v) /\ UNCHANGED threshold)
    /\ SF_provideVars(consumeDoneChan(v) /\ UNCHANGED threshold)

ProvideSpec == Init /\ [][ProvideNext]_provideVars /\ ProvideFairness

-----------------------------------------------------------------------------
(* Properties *)

(* The sum of f[v] over all calls, as the number of pairs of a call and a number
   up to its value *)
Sum(f) == Cardinality({x \in Calls \X (1..NumPeers) : x[2] <= f[x[1]]})

(* The variables keep their types. *)
ProvideTypeOK ==
  /\ at \in [Calls -> {"lookup", "store", "wait", "lease", "returned", "failed"}]
  /\ \A f \in {running, sending, over, failure, putProvDone, remaining, waiting, releasing} :
       f \in [Calls -> 0..NumPeers]
  /\ doneChan \in [Calls -> 0..threshold]
  /\ closed \subseteq Calls
  /\ jobsPool \in 0..PoolSize
  /\ threshold \in Thresholds

(* Tokens are conserved: each finished RPC of a call is in the channel, or
   taken out and counted or about to be; and the leases in the pool belong to
   the goroutines that have yet to return them. *)
TokensConserved ==
  /\ jobsPool = Sum(waiting) + Sum(releasing)
  /\ \A v \in Calls : over[v] = doneChan[v] + putProvDone[v] + releasing[v]

(* doneChan is closed only when every RPC has sent its token and every
   receiver has one, so that nobody panics sending on a closed channel, the
   channel is closed once, and no receiver takes the close for a token. *)
ClosedAfterSends ==
  \A v \in closed : running[v] + sending[v] + waiting[v] + remaining[v] = 0

(* What makes the bookkeeping of waitForRPCs and consumeDoneChan sound: types,
   tokens and leases are conserved, and the channel is closed last. *)
ProvideInv == ProvideTypeOK /\ TokensConserved /\ ClosedAfterSends

(* The comment on waitForRPCs, "prevent unbound asynchronicity": the RPCs that
   calls leave behind when they return are never more than the pool has
   places. *)
BoundedAsynchrony ==
  Sum([v \in Calls |-> IF at[v] = "returned" THEN running[v] + sending[v] ELSE 0]) <= PoolSize

(* A call returns only when the threshold of RPCs, or all of them, are over. *)
ReturnsAfterThreshold ==
  \A v \in Calls : at[v] = "returned" => over[v] >= returnThreshold(v)

(* What a caller of Provide can rely on when it returns: enough RPCs are over, and
   few go on. *)
ReturnsSound == BoundedAsynchrony /\ ReturnsAfterThreshold

(* A call that has issued an RPC returns although the pool may be full of
   other calls' leases, and all leases are given back. *)
ProvideReturns ==
  /\ \A v \in Calls : at[v] = "wait" /\ rpcCount(v) > 0 ~> at[v] = "returned"
  /\ []<>(jobsPool = 0)

(* The comment in waitForRPCs: "Wait until returnThreshold ADD_PROVIDER RPCs
   have returned".  When no RPC was issued there is nothing to wait for. *)
WaitEnds == \A v \in Calls : at[v] = "wait" ~> at[v] # "wait"
=============================================================================
