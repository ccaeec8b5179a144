---------------------------- MODULE ProviderProofs ----------------------------
(***************************************************************************)
(* Provider records, where they are kept and where they are announced.     *)
(*                                                                         *)
(* The garbage collection spares live records, and the cache hides no live *)
(* provider, for any providers, clients and errors.  Calls of              *)
(* optimisticProvide that share a pool leave no more RPCs behind than it   *)
(* has places, and nobody sends on a closed channel, for any number of     *)
(* calls and peers and any threshold.                                      *)
(***************************************************************************)
EXTENDS ProviderManager, OptimisticProvide, FiniteSetTheorems, TLAPS

-----------------------------------------------------------------------------
(* The provider manager *)

(* The initial states satisfy the invariant. *)
LEMMA InvInit == NewProviderManager => Inv
  BY DEF NewProviderManager, Inv, TypeOK, GCSound, CacheComplete

(* What a load leaves in the datastore: records go only if expired. *)
LEMMA LoadKeepsLive ==
  ASSUME TypeOK, NEW bad \in SUBSET Provs, loadProviderSet(bad)
  PROVE  /\ dstore' \in [Provs -> {"absent", "live", "expired"}]
         /\ Live' = Live
         /\ cache' = Live \ bad
  BY DEF TypeOK, loadProviderSet, Live, Expired

(* Bad entries are providers, and there are none without read errors. *)
LEMMA FailingSets ==
  \A b \in BOOLEAN : /\ Failing(b) \subseteq SUBSET Provs
                     /\ ~b => Failing(b) = {{}}
  BY DEF Failing

(* Every step keeps the invariant. *)
LEMMA InvStep == Inv /\ [Next]_vars => Inv'
<1> SUFFICES ASSUME Inv, [Next]_vars PROVE Inv'
  OBVIOUS
<1>0. ReadErrors \in BOOLEAN /\ WriteErrors \in BOOLEAN
  BY DEF ReadErrors, WriteErrors
<1> USE DEF Inv, TypeOK, GCSound, CacheComplete, ReadErrors, Goto, gcVars, clientVars
<1>1. ASSUME NEW c \in Clients, AddProvider(c) \/ GetProviders(c) \/ CallCancelled(c) \/ Respond(c)
      PROVE Inv'
  <2>1. UNCHANGED <<dstore, cache, gcVars, run, errors>>
    BY <1>1 DEF AddProvider, GetProviders, CallCancelled, Respond
  <2>2. pc' \in [Clients -> {"idle", "add", "get", "resp"}] /\ resp' \in [Clients -> SUBSET Provs]
    BY <1>1 DEF AddProvider, GetProviders, CallCancelled, Respond
  <2> QED
    BY <2>1, <2>2 DEF Live
<1>2. ASSUME NEW c \in Clients, NEW p \in Provs, addProv(c, p) PROVE Inv'
  BY <1>2 DEF addProv, Live
<1>3. ASSUME NEW c \in Clients, getProvidersForKey(c) PROVE Inv'
  <2>1. CASE UNCHANGED <<dstore, cache>>
    BY <1>3, <2>1 DEF getProvidersForKey, Live
  <2>2. ASSUME NEW bad \in Failing(ReadErrors), loadProviderSet(bad),
               resp' = [resp EXCEPT ![c] = Live \ bad]
        PROVE Inv'
    <3>1. bad \in SUBSET Provs /\ (~ReadErrors => bad = {})
      BY <1>0, <2>2, FailingSets
    <3>2. /\ dstore' \in [Provs -> {"absent", "live", "expired"}]
          /\ Live' = Live
          /\ cache' = Live \ bad
      BY <2>2, <3>1, LoadKeepsLive
    <3>3. \A q \in Provs : dstore'[q] = "live" => dstore[q] = "live"
      BY <3>2 DEF Live
    <3> QED
      BY <1>3, <2>2, <3>1, <3>2, <3>3 DEF getProvidersForKey, Live
  <2> QED
    BY <1>3, <2>1, <2>2 DEF getProvidersForKey
<1>4. CASE StartGC
  <2>1. CASE UNCHANGED <<gcRunning, gcQuery, gcOld, gcSkip>>
    BY <1>4, <2>1 DEF StartGC, Live
  <2>2. CASE gcRunning' = TRUE /\ gcQuery' = Live \cup Expired /\ gcOld' = Expired /\ gcSkip' = {}
    <3>1. \A p \in Expired : dstore[p] # "live"
      BY DEF Expired
    <3>2. Live \in SUBSET Provs /\ Expired \in SUBSET Provs
      BY DEF Live, Expired
    <3>3. /\ dstore' = dstore /\ gcTimer' = FALSE /\ cache' = {} /\ run' = run
          /\ pc' = pc /\ resp' = resp /\ errors' = errors
      BY <1>4 DEF StartGC
    <3> QED
      BY <2>2, <3>1, <3>2, <3>3
  <2> QED
    BY <1>4, <2>1, <2>2 DEF StartGC
<1>5. ASSUME NEW p \in Provs, GCResult(p) PROVE Inv'
  BY <1>5 DEF GCResult, Live
<1>6. CASE EndGC
  BY <1>6 DEF EndGC, Live
<1>7. CASE Close
  BY <1>7 DEF Close, Live
<1>11. CASE Stop
  BY <1>11 DEF Stop, Live
<1>8. ASSUME NEW p \in Provs, Expire(p) PROVE Inv'
  BY <1>8 DEF Expire, Live
<1>9. CASE Evict
  BY <1>9 DEF Evict, Live
<1>10. CASE UNCHANGED vars
  BY <1>10 DEF vars, Live
<1> QED
  BY <1>1, <1>2, <1>3, <1>4, <1>5, <1>6, <1>7, <1>11, <1>8, <1>9, <1>10 DEF Next, Serve, GC

(* The goroutine of run keeps its types, GC rounds are sound and the cache
   hides no live provider, in every reachable state. *)
THEOREM Invariance == Spec => []Inv
  BY InvInit, InvStep, PTL DEF Spec

(* A live record is never deleted: not by a load, and not by a GC round that
   works through a snapshot taken before the record was renewed. *)
THEOREM LiveSurvives == Spec => LiveNeverCollected
<1> DEFINE Spared == \A p \in Provs : dstore[p] = "live" => dstore'[p] # "absent"
<1>1. Inv /\ [Next]_vars => [Spared]_vars
  <2> SUFFICES ASSUME Inv, Next, NEW q \in Provs, dstore[q] = "live", dstore'[q] = "absent"
               PROVE FALSE
    BY DEF vars
  <2> USE DEF Inv, TypeOK, GCSound
  <2>1. ASSUME NEW c \in Clients, NEW p \in Provs, addProv(c, p) PROVE FALSE
    BY <2>1 DEF addProv
  <2>2. ASSUME NEW c \in Clients, getProvidersForKey(c) PROVE FALSE
    BY <2>2 DEF getProvidersForKey, loadProviderSet, Expired
  <2>3. ASSUME NEW p \in Provs, GCResult(p) PROVE FALSE
    BY <2>3 DEF GCResult
  <2>4. ASSUME NEW p \in Provs, Expire(p) PROVE FALSE
    BY <2>4 DEF Expire
  <2>5. CASE dstore' = dstore
    BY <2>5
  <2> QED
    BY <2>1, <2>2, <2>3, <2>4, <2>5
    DEF Next, Serve, GC, AddProvider, GetProviders, CallCancelled, Respond, StartGC, EndGC,
        Close, Stop, Evict
<1>2. LiveNeverCollected <=> [][Spared]_vars
  BY DEF LiveNeverCollected
<1> QED
  BY <1>1, <1>2, Invariance, PTL DEF Spec

-----------------------------------------------------------------------------
(* Optimistic provide *)

(* The types without their bounds, which follow from Counted *)
CountTypes ==
  /\ at \in [Calls -> {"lookup", "store", "wait", "lease", "returned", "failed"}]
  /\ running \in [Calls -> Nat] /\ sending \in [Calls -> Nat] /\ over \in [Calls -> Nat]
  /\ failure \in [Calls -> Nat] /\ putProvDone \in [Calls -> Nat] /\ remaining \in [Calls -> Nat]
  /\ waiting \in [Calls -> Nat] /\ releasing \in [Calls -> Nat]
  /\ doneChan \in [Calls -> Nat] /\ (\A v \in Calls : doneChan[v] <= threshold)
  /\ closed \subseteq Calls
  /\ jobsPool \in 0..PoolSize
  /\ threshold \in Thresholds

(* The tokens of call v: before the second loop nobody else takes them, and
   from then on every RPC has one place: it is counted, or one iteration, one
   waiting or one releasing goroutine is left for it. *)
Counted(v) ==
  /\ rpcCount(v) <= NumPeers /\ failure[v] <= sending[v] + over[v]
  /\ over[v] = doneChan[v] + putProvDone[v] + releasing[v]
  /\ at[v] \in {"lookup", "store", "failed", "wait"} =>
       remaining[v] = 0 /\ waiting[v] = 0 /\ releasing[v] = 0
  /\ at[v] \in {"lookup", "store", "failed"} => putProvDone[v] = 0
  /\ at[v] = "wait" => rpcCount(v) = 0 \/ putProvDone[v] < returnThreshold(v)
  /\ at[v] \in {"lease", "returned"} =>
       /\ rpcCount(v) = putProvDone[v] + remaining[v] + waiting[v] + releasing[v]
       /\ putProvDone[v] >= returnThreshold(v)
  /\ at[v] = "returned" => remaining[v] = 0
  /\ v \in closed => at[v] \in {"lease", "returned"} /\ putProvDone[v] = rpcCount(v)

(* The leases in the pool are those of the goroutines. *)
LeasesHeld == jobsPool = Sum(waiting) + Sum(releasing)

ProvideIInv == CountTypes /\ (\A v \in Calls : Counted(v)) /\ LeasesHeld

(* What is known of the constants *)
LEMMA Bounds ==
  ASSUME CountTypes
  PROVE  threshold \in Nat /\ threshold >= 1 /\ NumPeers \in Nat /\ PoolSize \in Nat /\ jobsPool \in Nat
         /\ K \in Nat
  BY ProvideAssumption DEF CountTypes

(* The lesser of two numbers *)
LEMMA LesserOf ==
  ASSUME NEW a \in Nat, NEW b \in Nat
  PROVE  Min({a, b}) \in {a, b} /\ Min({a, b}) <= a /\ Min({a, b}) <= b
<1>1. \E x \in {a, b} : \A y \in {a, b} : x <= y
  OBVIOUS
<1> QED
  BY <1>1 DEF Min

(* The numbers of a call *)
LEMMA Numbers ==
  ASSUME CountTypes, NEW v \in Calls
  PROVE  /\ running[v] \in Nat /\ sending[v] \in Nat /\ over[v] \in Nat /\ failure[v] \in Nat
         /\ putProvDone[v] \in Nat /\ remaining[v] \in Nat /\ waiting[v] \in Nat /\ releasing[v] \in Nat
         /\ doneChan[v] \in Nat /\ doneChan[v] <= threshold
         /\ rpcCount(v) \in Nat
         /\ returnThreshold(v) \in Nat /\ returnThreshold(v) <= rpcCount(v)
         /\ rpcCount(v) = 0 \/ returnThreshold(v) > 0
<1>1. /\ running[v] \in Nat /\ sending[v] \in Nat /\ over[v] \in Nat /\ failure[v] \in Nat
      /\ putProvDone[v] \in Nat /\ remaining[v] \in Nat /\ waiting[v] \in Nat /\ releasing[v] \in Nat
      /\ doneChan[v] \in Nat /\ doneChan[v] <= threshold
  BY DEF CountTypes
<1>2. rpcCount(v) \in Nat
  BY <1>1 DEF rpcCount
<1>3. threshold \in Nat /\ threshold >= 1
  BY Bounds
<1>4. returnThreshold(v) \in {threshold, rpcCount(v)} /\ returnThreshold(v) <= rpcCount(v)
  BY <1>2, <1>3, LesserOf DEF returnThreshold
<1> QED
  BY <1>1, <1>2, <1>3, <1>4

(* Counting up or down *)
LEMMA Added ==
  ASSUME NEW f \in [Calls -> Nat], NEW v \in Calls, NEW n \in Int, f[v] + n \in Nat
  PROVE  /\ Add(f, v, n) \in [Calls -> Nat] /\ Add(f, v, n)[v] = f[v] + n
         /\ \A u \in Calls : u # v => Add(f, v, n)[u] = f[u]
  BY DEF Add

(* There are finitely many pairs of a call and a number. *)
LEMMA PlacesFinite == IsFiniteSet(Calls \X (1..NumPeers))
<1>1. 1 \in Int /\ NumPeers \in Int
  BY ProvideAssumption
<1>2. IsFiniteSet(Calls) /\ IsFiniteSet(1..NumPeers)
  BY <1>1, ProvideAssumption, FS_Interval
<1> QED
  BY <1>2, FS_Product

(* A sum is a number. *)
LEMMA SumType ==
  ASSUME NEW f
  PROVE  Sum(f) \in Nat
<1>1. IsFiniteSet(Calls \X (1..NumPeers))
  BY PlacesFinite
<1>2. {x \in Calls \X (1..NumPeers) : x[2] <= f[x[1]]} \in SUBSET (Calls \X (1..NumPeers))
  OBVIOUS
<1> QED
  BY <1>1, <1>2, FS_Subset, FS_CardinalityType DEF Sum

(* One more in one place is one more in the sum. *)
LEMMA SumGrows ==
  ASSUME NEW f \in [Calls -> Nat], NEW g \in [Calls -> Nat], NEW v \in Calls,
         g[v] = f[v] + 1, g[v] <= NumPeers, \A u \in Calls : u # v => g[u] = f[u]
  PROVE  Sum(g) = Sum(f) + 1
<1> DEFINE All == Calls \X (1..NumPeers)
           F == {x \in All : x[2] <= f[x[1]]}
           G == {x \in All : x[2] <= g[x[1]]}
           e == <<v, g[v]>>
<1>1. IsFiniteSet(All)
  BY PlacesFinite
<1>2. IsFiniteSet(F)
  <2>1. F \in SUBSET All
    OBVIOUS
  <2> QED
    BY <1>1, <2>1, FS_Subset
<1>3. f[v] \in Nat /\ g[v] \in Nat /\ NumPeers \in Nat
  BY ProvideAssumption
<1>4. e \in All /\ e \notin F /\ e \in G
  BY <1>3
<1>5. ASSUME NEW x \in All PROVE x \in G <=> x \in F \/ x = e
  <2>1. x[1] \in Calls /\ x[2] \in 1..NumPeers /\ x = <<x[1], x[2]>>
    BY <1>5
  <2>2. CASE x[1] = v
    <3>1. x[2] <= g[v] <=> x[2] <= f[v] \/ x[2] = g[v]
      BY <1>3, <2>1
    <3> QED
      BY <2>1, <2>2, <3>1
  <2>3. CASE x[1] # v
    BY <2>1, <2>3
  <2> QED
    BY <2>2, <2>3
<1>6. G = F \cup {e}
  <2> HIDE DEF e
  <2> QED
    BY <1>4, <1>5
<1>7. Cardinality(G) = Cardinality(F) + 1
  <2> HIDE DEF F, G, e
  <2> QED
    BY <1>2, <1>4, <1>6, FS_AddElement
<1> QED
  BY <1>7 DEF Sum

(* What is nowhere more has no greater sum. *)
LEMMA SumMonotone ==
  ASSUME NEW f \in [Calls -> Nat], NEW g \in [Calls -> Nat], \A u \in Calls : f[u] <= g[u]
  PROVE  Sum(f) <= Sum(g)
<1> DEFINE All == Calls \X (1..NumPeers)
           F == {x \in All : x[2] <= f[x[1]]}
           G == {x \in All : x[2] <= g[x[1]]}
<1>1. IsFiniteSet(All)
  BY PlacesFinite
<1>2. IsFiniteSet(G)
  <2>1. G \in SUBSET All
    OBVIOUS
  <2> QED
    BY <1>1, <2>1, FS_Subset
<1>3. F \in SUBSET G
  <2>1. ASSUME NEW x \in F PROVE x \in G
    <3>1. x[1] \in Calls /\ x[2] \in 1..NumPeers /\ x[2] <= f[x[1]]
      BY <2>1
    <3>2. f[x[1]] \in Nat /\ g[x[1]] \in Nat /\ f[x[1]] <= g[x[1]] /\ NumPeers \in Nat
      BY <3>1, ProvideAssumption
    <3>3. x[2] <= g[x[1]]
      BY <3>1, <3>2
    <3> QED
      BY <2>1, <3>3
  <2> QED
    BY <2>1
<1>4. Cardinality(F) <= Cardinality(G)
  <2> HIDE DEF F, G
  <2> QED
    BY <1>2, <1>3, FS_Subset
<1> QED
  BY <1>4 DEF Sum

(* At the beginning nothing is on its way. *)
LEMMA ProvideInit == Init => ProvideIInv
<1> SUFFICES ASSUME Init PROVE ProvideIInv
  OBVIOUS
<1>1. CountTypes
  BY ProvideAssumption DEF Init, CountTypes, Zero
<1>2. ASSUME NEW v \in Calls PROVE Counted(v)
  <2>1. NumPeers \in Nat
    BY ProvideAssumption
  <2>2. /\ at[v] = "lookup" /\ v \notin closed
        /\ running[v] = 0 /\ sending[v] = 0 /\ over[v] = 0 /\ failure[v] = 0 /\ doneChan[v] = 0
        /\ putProvDone[v] = 0 /\ remaining[v] = 0 /\ waiting[v] = 0 /\ releasing[v] = 0
    BY DEF Init, Zero
  <2> QED
    BY <2>1, <2>2 DEF Counted, rpcCount
<1>3. LeasesHeld
  <2>1. {x \in Calls \X (1..NumPeers) : x[2] <= Zero[x[1]]} = {}
    BY ProvideAssumption DEF Zero
  <2>2. Sum(Zero) = 0
    BY <2>1, FS_EmptySet DEF Sum
  <2> QED
    BY <2>2 DEF Init, LeasesHeld
<1> QED
  BY <1>1, <1>2, <1>3 DEF ProvideIInv

(* Only the numbers of call v change. *)
OnlyCall(v) ==
  /\ threshold' = threshold
  /\ \A u \in Calls : u # v =>
       /\ at'[u] = at[u] /\ running'[u] = running[u] /\ sending'[u] = sending[u] /\ over'[u] = over[u]
       /\ failure'[u] = failure[u] /\ doneChan'[u] = doneChan[u] /\ putProvDone'[u] = putProvDone[u]
       /\ remaining'[u] = remaining[u] /\ waiting'[u] = waiting[u] /\ releasing'[u] = releasing[u]
       /\ (u \in closed' <=> u \in closed)

(* A step of one call keeps the others counted. *)
LEMMA OthersCounted ==
  ASSUME NEW v \in Calls, \A u \in Calls : Counted(u), OnlyCall(v), Counted(v)'
  PROVE  \A u \in Calls : Counted(u)'
<1> SUFFICES ASSUME NEW u \in Calls, u # v PROVE Counted(u)'
  OBVIOUS
<1>1. Counted(u)
  OBVIOUS
<1>2. rpcCount(u)' = rpcCount(u)
  BY DEF OnlyCall, rpcCount
<1>3. returnThreshold(u)' = returnThreshold(u)
  BY <1>2 DEF OnlyCall, returnThreshold
<1> QED
  BY <1>1, <1>2, <1>3 DEF Counted, OnlyCall

(* As long as call v has yet to wait, its lookup adds RPCs, at most up to the
   bound on the peers. *)
LEMMA ScheduleStep ==
  ASSUME ProvideIInv, NEW v \in Calls, stopFn(v) \/ LookupEnds(v) \/ Store(v), UNCHANGED threshold
  PROVE  ProvideIInv'
<1>t. CountTypes /\ Counted(v) /\ LeasesHeld /\ \A u \in Calls : Counted(u)
  BY DEF ProvideIInv
<1>1. /\ at[v] \in {"lookup", "store"}
      /\ UNCHANGED <<sending, over, failure, doneChan, closed, putProvDone, remaining, waiting, releasing, jobsPool>>
  BY DEF stopFn, LookupEnds, Store, Schedule, rpcVars, waitVars, consumerVars
<1>2. PICK l \in {"lookup", "store", "wait", "failed"} : at' = [at EXCEPT ![v] = l]
  <2>1. at = [at EXCEPT ![v] = at[v]]
    BY <1>t DEF CountTypes
  <2> QED
    BY <1>1, <2>1 DEF stopFn, LookupEnds, Store, Advance
<1>n. /\ running[v] \in Nat /\ sending[v] \in Nat /\ over[v] \in Nat /\ failure[v] \in Nat
      /\ putProvDone[v] \in Nat /\ doneChan[v] \in Nat /\ rpcCount(v) \in Nat
      /\ NumPeers \in Nat /\ K \in Nat
  BY <1>t, Numbers, Bounds
<1>3. PICK n \in Nat : running' = Add(running, v, n) /\ rpcCount(v) + n <= NumPeers
  <2>1. CASE LookupEnds(v)
    <3>1. running' = Add(running, v, 0)
      BY <1>t, <2>1 DEF LookupEnds, rpcVars, Add, CountTypes
    <3> QED
      BY <1>t, <1>n, <3>1 DEF Counted
  <2>2. CASE Schedule(v)
    <3>1. NumPeers - rpcCount(v) \in Nat
      BY <1>t, <1>n DEF Counted
    <3>2. Min({K, NumPeers - rpcCount(v)}) \in Nat /\ Min({K, NumPeers - rpcCount(v)}) <= NumPeers - rpcCount(v)
      BY <1>n, <3>1, LesserOf
    <3>3. PICK n \in 0..Min({K, NumPeers - rpcCount(v)}) : running' = Add(running, v, n)
      BY <2>2 DEF Schedule
    <3>4. n \in Nat /\ rpcCount(v) + n <= NumPeers
      BY <1>n, <3>2, <3>3
    <3> QED
      BY <3>3, <3>4
  <2> QED
    BY <2>1, <2>2 DEF stopFn, Store
<1>4. /\ running' \in [Calls -> Nat] /\ running'[v] = running[v] + n
      /\ \A u \in Calls : u # v => running'[u] = running[u]
  <2>1. n \in Int /\ running[v] + n \in Nat /\ running \in [Calls -> Nat]
    BY <1>t, <1>n DEF CountTypes
  <2> QED
    BY <1>3, <2>1, Added
<1>5. /\ at' \in [Calls -> {"lookup", "store", "wait", "lease", "returned", "failed"}] /\ at'[v] = l
      /\ \A u \in Calls : u # v => at'[u] = at[u]
  BY <1>t, <1>2 DEF CountTypes
<1>6. CountTypes'
  BY <1>t, <1>1, <1>4, <1>5 DEF CountTypes
<1>7. /\ rpcCount(v)' = rpcCount(v) + n
      /\ rpcCount(v)' = 0 \/ returnThreshold(v)' > 0
  <2>1. rpcCount(v)' = rpcCount(v) + n
    BY <1>1, <1>n, <1>4 DEF rpcCount
  <2>2. /\ rpcCount(v)' \in Nat /\ threshold \in Nat /\ threshold >= 1
    BY <1>t, <1>n, <2>1, Bounds
  <2>3. Min({threshold, rpcCount(v)'}) \in {threshold, rpcCount(v)'}
    BY <2>2, LesserOf
  <2> QED
    BY <2>1, <2>2, <2>3 DEF returnThreshold
<1>8. Counted(v)'
  BY <1>t, <1>1, <1>n, <1>3, <1>5, <1>7 DEF Counted
<1>9. OnlyCall(v)
  BY <1>1, <1>4, <1>5 DEF OnlyCall
<1>10. \A u \in Calls : Counted(u)'
  BY <1>t, <1>8, <1>9, OthersCounted
<1>11. LeasesHeld'
  BY <1>t, <1>1 DEF LeasesHeld
<1> QED
  BY <1>6, <1>10, <1>11 DEF ProvideIInv

(* From the wait on the RPCs of call v are given, and with them its threshold. *)
LEMMA SameCount ==
  ASSUME NEW v \in Calls, running'[v] + sending'[v] + over'[v] = rpcCount(v), UNCHANGED threshold
  PROVE  rpcCount(v)' = rpcCount(v) /\ returnThreshold(v)' = returnThreshold(v)
<1>1. rpcCount(v)' = rpcCount(v)
  BY DEF rpcCount
<1> QED
  BY <1>1 DEF returnThreshold

(* An RPC ends, and its token goes into the channel. *)
LEMMA RpcOverStep ==
  ASSUME ProvideIInv, NEW v \in Calls, putProviderRecord(v), UNCHANGED threshold
  PROVE  ProvideIInv'
<1>t. CountTypes /\ Counted(v) /\ LeasesHeld /\ \A u \in Calls : Counted(u)
  BY DEF ProvideIInv
<1>n. /\ running[v] \in Nat /\ sending[v] \in Nat /\ over[v] \in Nat /\ failure[v] \in Nat
      /\ putProvDone[v] \in Nat /\ doneChan[v] \in Nat /\ releasing[v] \in Nat /\ rpcCount(v) \in Nat
  BY <1>t, Numbers
<1>f. /\ running \in [Calls -> Nat] /\ sending \in [Calls -> Nat] /\ over \in [Calls -> Nat]
      /\ failure \in [Calls -> Nat] /\ doneChan \in [Calls -> Nat]
      /\ \A u \in Calls : doneChan[u] <= threshold
  BY <1>t DEF CountTypes
<1>1. UNCHANGED <<at, closed, putProvDone, remaining, waiting, releasing, jobsPool>>
  BY DEF putProviderRecord, RPCOver, SendDone, waitVars, consumerVars
<1>2. /\ running' \in [Calls -> Nat] /\ sending' \in [Calls -> Nat] /\ over' \in [Calls -> Nat]
      /\ failure' \in [Calls -> Nat] /\ doneChan' \in [Calls -> Nat]
      /\ \A u \in Calls : doneChan'[u] <= threshold
      /\ running'[v] + sending'[v] + over'[v] = rpcCount(v)
      /\ failure'[v] <= sending'[v] + over'[v]
      /\ over'[v] = doneChan'[v] + putProvDone[v] + releasing[v]
      /\ \A u \in Calls : u # v =>
           /\ running'[u] = running[u] /\ sending'[u] = sending[u] /\ over'[u] = over[u]
           /\ failure'[u] = failure[u] /\ doneChan'[u] = doneChan[u]
  <2>1. CASE RPCOver(v)
    <3>1. running[v] > 0 /\ UNCHANGED <<over, doneChan>>
      BY <2>1 DEF RPCOver
    <3>2. /\ running' \in [Calls -> Nat] /\ running'[v] = running[v] - 1
          /\ \A u \in Calls : u # v => running'[u] = running[u]
      <4>1. running[v] + (-1) \in Nat /\ -1 \in Int /\ running[v] + (-1) = running[v] - 1
        BY <1>n, <3>1
      <4> QED
        BY <1>f, <2>1, <4>1, Added DEF RPCOver
    <3>3. /\ sending' \in [Calls -> Nat] /\ sending'[v] = sending[v] + 1
          /\ \A u \in Calls : u # v => sending'[u] = sending[u]
      <4>1. sending[v] + 1 \in Nat /\ 1 \in Int
        BY <1>n
      <4> QED
        BY <1>f, <2>1, <4>1, Added DEF RPCOver
    <3>4. /\ failure' \in [Calls -> Nat] /\ (failure'[v] = failure[v] \/ failure'[v] = failure[v] + 1)
          /\ \A u \in Calls : u # v => failure'[u] = failure[u]
      <4>1. failure[v] + 1 \in Nat /\ 1 \in Int
        BY <1>n
      <4>2. CASE failure' = failure
        BY <1>f, <4>2
      <4>3. CASE failure' = Add(failure, v, 1)
        BY <1>f, <4>1, <4>3, Added
      <4> QED
        BY <2>1, <4>2, <4>3 DEF RPCOver
    <3>5. /\ running'[v] + sending'[v] + over'[v] = rpcCount(v)
          /\ failure'[v] <= sending'[v] + over'[v]
          /\ over'[v] = doneChan'[v] + putProvDone[v] + releasing[v]
      BY <1>t, <1>n, <3>1, <3>2, <3>3, <3>4 DEF Counted, rpcCount
    <3> QED
      BY <1>f, <3>1, <3>2, <3>3, <3>4, <3>5
  <2>2. CASE SendDone(v)
    <3>1. sending[v] > 0 /\ doneChan[v] < threshold /\ UNCHANGED <<running, failure>>
      BY <2>2 DEF SendDone
    <3>2. /\ sending' \in [Calls -> Nat] /\ sending'[v] = sending[v] - 1
          /\ \A u \in Calls : u # v => sending'[u] = sending[u]
      <4>1. sending[v] + (-1) \in Nat /\ -1 \in Int /\ sending[v] + (-1) = sending[v] - 1
        BY <1>n, <3>1
      <4> QED
        BY <1>f, <2>2, <4>1, Added DEF SendDone
    <3>3. /\ over' \in [Calls -> Nat] /\ over'[v] = over[v] + 1
          /\ \A u \in Calls : u # v => over'[u] = over[u]
      <4>1. over[v] + 1 \in Nat /\ 1 \in Int
        BY <1>n
      <4> QED
        BY <1>f, <2>2, <4>1, Added DEF SendDone
    <3>4. /\ doneChan' \in [Calls -> Nat] /\ doneChan'[v] = doneChan[v] + 1
          /\ \A u \in Calls : u # v => doneChan'[u] = doneChan[u]
      <4>1. doneChan[v] + 1 \in Nat /\ 1 \in Int
        BY <1>n
      <4> QED
        BY <1>f, <2>2, <4>1, Added DEF SendDone
    <3>5. /\ running'[v] + sending'[v] + over'[v] = rpcCount(v)
          /\ failure'[v] <= sending'[v] + over'[v]
          /\ over'[v] = doneChan'[v] + putProvDone[v] + releasing[v]
      BY <1>t, <1>n, <3>1, <3>2, <3>3, <3>4 DEF Counted, rpcCount
    <3>6. \A u \in Calls : doneChan'[u] <= threshold
      <4>1. doneChan'[v] <= threshold
        BY <1>t, <1>n, <3>1, <3>4, Bounds
      <4> QED
        BY <1>f, <3>4, <4>1
    <3> QED
      BY <1>f, <3>1, <3>2, <3>3, <3>4, <3>5, <3>6
  <2> QED
    BY <2>1, <2>2 DEF putProviderRecord
<1>3. CountTypes'
  BY <1>t, <1>1, <1>2 DEF CountTypes
<1>4. rpcCount(v)' = rpcCount(v) /\ returnThreshold(v)' = returnThreshold(v)
  BY <1>2, SameCount
<1>5. Counted(v)'
  BY <1>t, <1>1, <1>2, <1>4 DEF Counted
<1>6. OnlyCall(v)
  BY <1>1, <1>2 DEF OnlyCall
<1>7. \A u \in Calls : Counted(u)'
  BY <1>t, <1>5, <1>6, OthersCounted
<1>8. LeasesHeld'
  BY <1>t, <1>1 DEF LeasesHeld
<1> QED
  BY <1>3, <1>7, <1>8 DEF ProvideIInv

(* A token is taken out. *)
LEMMA TokenTaken ==
  ASSUME CountTypes, NEW v \in Calls, TakeToken(v)
  PROVE  /\ doneChan' \in [Calls -> Nat] /\ doneChan[v] > 0 /\ doneChan'[v] = doneChan[v] - 1
         /\ \A u \in Calls : doneChan'[u] <= threshold
         /\ \A u \in Calls : u # v => doneChan'[u] = doneChan[u]
<1>1. /\ doneChan \in [Calls -> Nat] /\ doneChan[v] \in Nat /\ doneChan[v] > 0 /\ threshold \in Nat
      /\ \A u \in Calls : doneChan[u] <= threshold
  BY Bounds DEF CountTypes, TakeToken
<1>2. doneChan[v] + (-1) \in Nat /\ -1 \in Int /\ doneChan[v] + (-1) = doneChan[v] - 1
  BY <1>1
<1>3. /\ doneChan' \in [Calls -> Nat] /\ doneChan'[v] = doneChan[v] - 1
      /\ \A u \in Calls : u # v => doneChan'[u] = doneChan[u]
  BY <1>1, <1>2, Added DEF TakeToken
<1>4. doneChan'[v] <= threshold
  BY <1>1, <1>3
<1> QED
  BY <1>1, <1>3, <1>4

(* A token more is counted. *)
LEMMA CountedUp ==
  ASSUME CountTypes, NEW v \in Calls, putProvDone' = Add(putProvDone, v, 1)
  PROVE  /\ putProvDone' \in [Calls -> Nat] /\ putProvDone'[v] = putProvDone[v] + 1
         /\ \A u \in Calls : u # v => putProvDone'[u] = putProvDone[u]
<1>1. putProvDone \in [Calls -> Nat] /\ putProvDone[v] + 1 \in Nat /\ 1 \in Int
  BY DEF CountTypes
<1> QED
  BY <1>1, Added

(* The first loop: the call goes on exactly when its threshold is counted. *)
LEMMA WaitStep ==
  ASSUME ProvideIInv, NEW v \in Calls, Wait(v), UNCHANGED threshold
  PROVE  ProvideIInv'
<1>t. CountTypes /\ Counted(v) /\ LeasesHeld /\ \A u \in Calls : Counted(u)
  BY DEF ProvideIInv
<1>1. /\ at[v] = "wait" /\ TakeToken(v) /\ putProvDone' = Add(putProvDone, v, 1)
      /\ UNCHANGED <<running, sending, over, failure, closed, waiting, releasing, jobsPool>>
  BY DEF Wait, rpcVars, consumerVars
<1>n. /\ over[v] \in Nat /\ doneChan[v] \in Nat /\ putProvDone[v] \in Nat /\ rpcCount(v) \in Nat
      /\ running[v] \in Nat /\ sending[v] \in Nat
      /\ returnThreshold(v) \in Nat /\ returnThreshold(v) <= rpcCount(v)
  BY <1>t, Numbers
<1>2. /\ doneChan' \in [Calls -> Nat] /\ doneChan[v] > 0 /\ doneChan'[v] = doneChan[v] - 1
      /\ \A u \in Calls : doneChan'[u] <= threshold
      /\ \A u \in Calls : u # v => doneChan'[u] = doneChan[u]
  BY <1>t, <1>1, TokenTaken
<1>3. /\ putProvDone' \in [Calls -> Nat] /\ putProvDone'[v] = putProvDone[v] + 1
      /\ \A u \in Calls : u # v => putProvDone'[u] = putProvDone[u]
  BY <1>t, <1>1, CountedUp
<1>4. rpcCount(v)' = rpcCount(v) /\ returnThreshold(v)' = returnThreshold(v)
  BY <1>1, SameCount DEF rpcCount
<1>5. rpcCount(v) > 0 /\ putProvDone[v] < returnThreshold(v)
  <2>1. rpcCount(v) > 0
    BY <1>t, <1>1, <1>n, <1>2 DEF Counted, rpcCount
  <2> QED
    BY <1>t, <1>1, <1>n, <2>1 DEF Counted
<1>6. /\ at' \in [Calls -> {"lookup", "store", "wait", "lease", "returned", "failed"}]
      /\ remaining' \in [Calls -> Nat]
      /\ \A u \in Calls : u # v => at'[u] = at[u] /\ remaining'[u] = remaining[u]
      /\ \/ /\ putProvDone'[v] = returnThreshold(v) /\ at'[v] = "lease"
            /\ remaining'[v] = rpcCount(v) - putProvDone'[v]
         \/ putProvDone'[v] # returnThreshold(v) /\ at'[v] = "wait" /\ remaining'[v] = 0
  <2>1. /\ at \in [Calls -> {"lookup", "store", "wait", "lease", "returned", "failed"}]
        /\ remaining \in [Calls -> Nat] /\ remaining[v] = 0
    BY <1>t, <1>1 DEF CountTypes, Counted
  <2>2. CASE putProvDone'[v] = returnThreshold(v)
    <3>1. /\ at' = [at EXCEPT ![v] = "lease"]
          /\ remaining' = [remaining EXCEPT ![v] = rpcCount(v) - putProvDone'[v]]
      BY <2>2 DEF Wait, Advance
    <3>2. rpcCount(v) - putProvDone'[v] \in Nat
      BY <1>n, <2>2
    <3> QED
      BY <2>1, <2>2, <3>1, <3>2
  <2>3. CASE putProvDone'[v] # returnThreshold(v)
    BY <1>1, <2>1, <2>3 DEF Wait
  <2> QED
    BY <2>2, <2>3
<1>7. CountTypes'
  BY <1>t, <1>1, <1>2, <1>3, <1>6 DEF CountTypes
<1>8. Counted(v)'
  <2>1. /\ failure[v] <= sending[v] + over[v] /\ rpcCount(v) <= NumPeers
        /\ over[v] = doneChan[v] + putProvDone[v] + releasing[v]
        /\ waiting[v] = 0 /\ releasing[v] = 0 /\ v \notin closed
    BY <1>t, <1>1 DEF Counted
  <2>2. over[v] = doneChan'[v] + putProvDone'[v] + releasing[v]
    BY <1>n, <1>2, <1>3, <2>1
  <2>3. CASE at'[v] = "lease"
    <3>1. /\ rpcCount(v) = putProvDone'[v] + remaining'[v] + waiting[v] + releasing[v]
          /\ putProvDone'[v] >= returnThreshold(v)
      BY <1>n, <1>3, <1>6, <2>1, <2>3
    <3> QED
      BY <1>1, <1>4, <2>1, <2>2, <2>3, <3>1 DEF Counted
  <2>4. CASE at'[v] = "wait"
    <3>1. putProvDone'[v] < returnThreshold(v) /\ remaining'[v] = 0
      BY <1>n, <1>3, <1>5, <1>6, <2>4
    <3> QED
      BY <1>1, <1>4, <2>1, <2>2, <2>4, <3>1 DEF Counted
  <2> QED
    BY <1>6, <2>3, <2>4
<1>9. OnlyCall(v)
  BY <1>1, <1>2, <1>3, <1>6 DEF OnlyCall
<1>10. \A u \in Calls : Counted(u)'
  BY <1>t, <1>8, <1>9, OthersCounted
<1>11. LeasesHeld'
  BY <1>t, <1>1 DEF LeasesHeld
<1> QED
  BY <1>7, <1>10, <1>11 DEF ProvideIInv

(* Counting a token may close the channel, when it is that of the last RPC. *)
LEMMA CountFacts ==
  ASSUME CountTypes, NEW v \in Calls, Count(v)
  PROVE  /\ putProvDone' \in [Calls -> Nat] /\ putProvDone'[v] = putProvDone[v] + 1
         /\ \A u \in Calls : u # v => putProvDone'[u] = putProvDone[u]
         /\ closed' \subseteq Calls /\ \A u \in Calls : u # v => (u \in closed' <=> u \in closed)
         /\ v \in closed' => v \in closed \/ putProvDone'[v] = rpcCount(v)
<1>1. /\ putProvDone' \in [Calls -> Nat] /\ putProvDone'[v] = putProvDone[v] + 1
      /\ \A u \in Calls : u # v => putProvDone'[u] = putProvDone[u]
  BY CountedUp DEF Count
<1> QED
  BY <1>1 DEF Count, CountTypes

(* The second loop: an iteration takes a lease or a token, and the last one
   is followed by the return. *)
LEMMA SecondLoopStep ==
  ASSUME ProvideIInv, NEW v \in Calls, Lease(v) \/ TakeDone(v) \/ Return(v), UNCHANGED threshold
  PROVE  ProvideIInv'
<1>t. CountTypes /\ Counted(v) /\ LeasesHeld /\ \A u \in Calls : Counted(u)
  BY DEF ProvideIInv
<1>1. at[v] = "lease" /\ UNCHANGED <<running, sending, over, failure, releasing>>
  BY DEF Lease, TakeDone, Return, rpcVars, consumerVars
<1>n. /\ over[v] \in Nat /\ doneChan[v] \in Nat /\ putProvDone[v] \in Nat /\ rpcCount(v) \in Nat
      /\ remaining[v] \in Nat /\ waiting[v] \in Nat /\ releasing[v] \in Nat
      /\ returnThreshold(v) \in Nat /\ NumPeers \in Nat /\ jobsPool \in Nat /\ PoolSize \in Nat
  BY <1>t, Numbers, Bounds
<1>2. rpcCount(v)' = rpcCount(v) /\ returnThreshold(v)' = returnThreshold(v)
  BY <1>1, SameCount DEF rpcCount
<1>3. /\ failure[v] <= sending[v] + over[v] /\ rpcCount(v) <= NumPeers
      /\ over[v] = doneChan[v] + putProvDone[v] + releasing[v]
      /\ rpcCount(v) = putProvDone[v] + remaining[v] + waiting[v] + releasing[v]
      /\ putProvDone[v] >= returnThreshold(v)
      /\ v \in closed => putProvDone[v] = rpcCount(v)
  BY <1>t, <1>1 DEF Counted
<1>4. CASE Lease(v) \/ TakeDone(v)
  <2>1. remaining[v] > 0 /\ remaining' = Add(remaining, v, -1) /\ at' = at
    BY <1>4 DEF Lease, TakeDone
  <2>2. /\ remaining' \in [Calls -> Nat] /\ remaining'[v] = remaining[v] - 1
        /\ \A u \in Calls : u # v => remaining'[u] = remaining[u]
    <3>1. remaining[v] + (-1) \in Nat /\ -1 \in Int /\ remaining[v] + (-1) = remaining[v] - 1
      BY <1>n, <2>1
    <3>2. remaining \in [Calls -> Nat]
      BY <1>t DEF CountTypes
    <3> QED
      BY <2>1, <3>1, <3>2, Added
  <2>c. v \notin closed
    BY <1>n, <1>3, <2>1
  <2>3. CASE Lease(v)
    <3>1. /\ jobsPool < PoolSize /\ jobsPool' = jobsPool + 1 /\ waiting' = Add(waiting, v, 1)
          /\ UNCHANGED <<doneChan, closed, putProvDone>>
      BY <2>3 DEF Lease
    <3>2. waiting \in [Calls -> Nat]
      BY <1>t DEF CountTypes
    <3>3. /\ waiting' \in [Calls -> Nat] /\ waiting'[v] = waiting[v] + 1
          /\ \A u \in Calls : u # v => waiting'[u] = waiting[u]
      <4>1. waiting[v] + 1 \in Nat /\ 1 \in Int
        BY <1>n
      <4> QED
        BY <3>1, <3>2, <4>1, Added
    <3>4. jobsPool' \in 0..PoolSize
      BY <1>n, <3>1
    <3>5. CountTypes'
      BY <1>t, <1>1, <2>1, <2>2, <3>1, <3>3, <3>4 DEF CountTypes
    <3>6. rpcCount(v) = putProvDone[v] + remaining'[v] + waiting'[v] + releasing[v]
      BY <1>n, <1>3, <2>1, <2>2, <3>3
    <3>7. Counted(v)'
      BY <1>1, <1>2, <1>3, <2>1, <2>c, <3>1, <3>6 DEF Counted
    <3>8. OnlyCall(v)
      BY <1>1, <2>1, <2>2, <3>1, <3>3 DEF OnlyCall
    <3>9. \A u \in Calls : Counted(u)'
      BY <1>t, <3>7, <3>8, OthersCounted
    <3>10. LeasesHeld'
      <4>1. waiting'[v] <= NumPeers
        BY <1>n, <1>3, <2>1, <3>3
      <4>2. Sum(waiting') = Sum(waiting) + 1
        BY <3>2, <3>3, <4>1, SumGrows
      <4>3. Sum(waiting) \in Nat /\ Sum(releasing) \in Nat
        BY SumType
      <4>4. jobsPool' = Sum(waiting') + Sum(releasing)
        BY <1>t, <3>1, <4>2, <4>3 DEF LeasesHeld
      <4> QED
        BY <1>1, <4>4 DEF LeasesHeld, Sum
    <3> QED
      BY <3>5, <3>9, <3>10 DEF ProvideIInv
  <2>4. CASE TakeDone(v)
    <3>1. TakeToken(v) /\ Count(v) /\ UNCHANGED <<waiting, jobsPool>>
      BY <2>4 DEF TakeDone, consumerVars
    <3>2. /\ doneChan' \in [Calls -> Nat] /\ doneChan[v] > 0 /\ doneChan'[v] = doneChan[v] - 1
          /\ \A u \in Calls : doneChan'[u] <= threshold
          /\ \A u \in Calls : u # v => doneChan'[u] = doneChan[u]
      BY <1>t, <3>1, TokenTaken
    <3>3. /\ putProvDone' \in [Calls -> Nat] /\ putProvDone'[v] = putProvDone[v] + 1
          /\ \A u \in Calls : u # v => putProvDone'[u] = putProvDone[u]
          /\ closed' \subseteq Calls /\ \A u \in Calls : u # v => (u \in closed' <=> u \in closed)
          /\ v \in closed' => v \in closed \/ putProvDone'[v] = rpcCount(v)
      BY <1>t, <3>1, CountFacts
    <3>4. CountTypes'
      BY <1>t, <1>1, <2>1, <2>2, <3>1, <3>2, <3>3 DEF CountTypes
    <3>5. /\ rpcCount(v) = putProvDone'[v] + remaining'[v] + waiting[v] + releasing[v]
          /\ over[v] = doneChan'[v] + putProvDone'[v] + releasing[v]
          /\ putProvDone'[v] >= returnThreshold(v)
      BY <1>n, <1>3, <2>1, <2>2, <3>2, <3>3
    <3>6. Counted(v)'
      BY <1>1, <1>2, <1>3, <2>1, <2>c, <3>1, <3>3, <3>5 DEF Counted
    <3>7. OnlyCall(v)
      BY <1>1, <2>1, <2>2, <3>1, <3>2, <3>3 DEF OnlyCall
    <3>8. \A u \in Calls : Counted(u)'
      BY <1>t, <3>6, <3>7, OthersCounted
    <3>9. LeasesHeld'
      BY <1>t, <1>1, <3>1 DEF LeasesHeld
    <3> QED
      BY <3>4, <3>8, <3>9 DEF ProvideIInv
  <2> QED
    BY <1>4, <2>3, <2>4
<1>5. CASE Return(v)
  <2>1. /\ remaining[v] = 0 /\ at' = [at EXCEPT ![v] = "returned"]
        /\ UNCHANGED <<doneChan, closed, putProvDone, remaining, waiting, jobsPool>>
    BY <1>5 DEF Return, Advance, waitVars, consumerVars
  <2>2. /\ at' \in [Calls -> {"lookup", "store", "wait", "lease", "returned", "failed"}]
        /\ at'[v] = "returned" /\ \A u \in Calls : u # v => at'[u] = at[u]
    BY <1>t, <2>1 DEF CountTypes
  <2>3. CountTypes'
    BY <1>t, <1>1, <2>1, <2>2 DEF CountTypes
  <2>4. Counted(v)'
    BY <1>1, <1>2, <1>3, <2>1, <2>2 DEF Counted
  <2>5. OnlyCall(v)
    BY <1>1, <2>1, <2>2 DEF OnlyCall
  <2>6. \A u \in Calls : Counted(u)'
    BY <1>t, <2>4, <2>5, OthersCounted
  <2>7. LeasesHeld'
    BY <1>t, <1>1, <2>1 DEF LeasesHeld
  <2> QED
    BY <2>3, <2>6, <2>7 DEF ProvideIInv
<1> QED
  BY <1>4, <1>5

(* A goroutine that was left behind takes a token, then gives its lease back
   and counts the token. *)
LEMMA ConsumerStep ==
  ASSUME ProvideIInv, NEW v \in Calls, consumeDoneChan(v), UNCHANGED threshold
  PROVE  ProvideIInv'
<1>t. CountTypes /\ Counted(v) /\ LeasesHeld /\ \A u \in Calls : Counted(u)
  BY DEF ProvideIInv
<1>1. UNCHANGED <<at, running, sending, over, failure, remaining>>
  BY DEF consumeDoneChan, Consume, Release, rpcVars, waitVars
<1>n. /\ over[v] \in Nat /\ doneChan[v] \in Nat /\ putProvDone[v] \in Nat /\ rpcCount(v) \in Nat
      /\ remaining[v] \in Nat /\ waiting[v] \in Nat /\ releasing[v] \in Nat
      /\ returnThreshold(v) \in Nat /\ NumPeers \in Nat /\ jobsPool \in Nat /\ PoolSize \in Nat
  BY <1>t, Numbers, Bounds
<1>f. waiting \in [Calls -> Nat] /\ releasing \in [Calls -> Nat] /\ jobsPool \in 0..PoolSize
  BY <1>t DEF CountTypes
<1>2. rpcCount(v)' = rpcCount(v) /\ returnThreshold(v)' = returnThreshold(v)
  BY <1>1, SameCount DEF rpcCount
<1>s. Sum(waiting) \in Nat /\ Sum(releasing) \in Nat /\ jobsPool = Sum(waiting) + Sum(releasing)
  BY <1>t, SumType DEF LeasesHeld
<1>3. CASE Consume(v)
  <2>1. /\ waiting[v] > 0 /\ TakeToken(v) /\ waiting' = Add(waiting, v, -1)
        /\ releasing' = Add(releasing, v, 1) /\ UNCHANGED <<closed, putProvDone, jobsPool>>
    BY <1>3 DEF Consume, waitVars
  <2>2. /\ at[v] \in {"lease", "returned"} /\ failure[v] <= sending[v] + over[v] /\ rpcCount(v) <= NumPeers
        /\ over[v] = doneChan[v] + putProvDone[v] + releasing[v]
        /\ rpcCount(v) = putProvDone[v] + remaining[v] + waiting[v] + releasing[v]
        /\ putProvDone[v] >= returnThreshold(v) /\ (at[v] = "returned" => remaining[v] = 0)
        /\ v \in closed => putProvDone[v] = rpcCount(v)
    <3>1. at[v] \in {"lease", "returned"}
      BY <1>t, <1>n, <2>1 DEF Counted, CountTypes
    <3> QED
      BY <1>t, <3>1 DEF Counted
  <2>3. /\ doneChan' \in [Calls -> Nat] /\ doneChan[v] > 0 /\ doneChan'[v] = doneChan[v] - 1
        /\ \A u \in Calls : doneChan'[u] <= threshold
        /\ \A u \in Calls : u # v => doneChan'[u] = doneChan[u]
    BY <1>t, <2>1, TokenTaken
  <2>4. /\ waiting' \in [Calls -> Nat] /\ waiting'[v] = waiting[v] - 1
        /\ \A u \in Calls : u # v => waiting'[u] = waiting[u]
    <3>1. waiting[v] + (-1) \in Nat /\ -1 \in Int /\ waiting[v] + (-1) = waiting[v] - 1
      BY <1>n, <2>1
    <3> QED
      BY <1>f, <2>1, <3>1, Added
  <2>5. /\ releasing' \in [Calls -> Nat] /\ releasing'[v] = releasing[v] + 1
        /\ \A u \in Calls : u # v => releasing'[u] = releasing[u]
    <3>1. releasing[v] + 1 \in Nat /\ 1 \in Int
      BY <1>n
    <3> QED
      BY <1>f, <2>1, <3>1, Added
  <2>6. CountTypes'
    BY <1>t, <1>1, <2>1, <2>3, <2>4, <2>5 DEF CountTypes
  <2>7. /\ over[v] = doneChan'[v] + putProvDone[v] + releasing'[v]
        /\ rpcCount(v) = putProvDone[v] + remaining[v] + waiting'[v] + releasing'[v]
    BY <1>n, <2>1, <2>2, <2>3, <2>4, <2>5
  <2>8. Counted(v)'
    BY <1>1, <1>2, <2>1, <2>2, <2>7 DEF Counted
  <2>9. OnlyCall(v)
    BY <1>1, <2>1, <2>3, <2>4, <2>5 DEF OnlyCall
  <2>10. \A u \in Calls : Counted(u)'
    BY <1>t, <2>8, <2>9, OthersCounted
  <2>11. LeasesHeld'
    <3>1. waiting[v] <= NumPeers /\ waiting[v] = waiting'[v] + 1 /\ releasing'[v] <= NumPeers
      BY <1>n, <2>1, <2>2, <2>4, <2>5
    <3>2. Sum(waiting) = Sum(waiting') + 1
      BY <1>f, <2>4, <3>1, SumGrows
    <3>3. Sum(releasing') = Sum(releasing) + 1
      BY <1>f, <2>5, <3>1, SumGrows
    <3>4. Sum(waiting') \in Nat
      BY SumType
    <3>5. jobsPool' = Sum(waiting') + Sum(releasing')
      BY <1>s, <2>1, <3>2, <3>3, <3>4
    <3> QED
      BY <3>5 DEF LeasesHeld, Sum
  <2> QED
    BY <2>6, <2>10, <2>11 DEF ProvideIInv
<1>4. CASE Release(v)
  <2>1. /\ releasing[v] > 0 /\ jobsPool' = jobsPool - 1 /\ releasing' = Add(releasing, v, -1)
        /\ Count(v) /\ UNCHANGED <<doneChan, waiting>>
    BY <1>4 DEF Release
  <2>2. /\ at[v] \in {"lease", "returned"} /\ failure[v] <= sending[v] + over[v] /\ rpcCount(v) <= NumPeers
        /\ over[v] = doneChan[v] + putProvDone[v] + releasing[v]
        /\ rpcCount(v) = putProvDone[v] + remaining[v] + waiting[v] + releasing[v]
        /\ putProvDone[v] >= returnThreshold(v) /\ (at[v] = "returned" => remaining[v] = 0)
        /\ v \in closed => putProvDone[v] = rpcCount(v)
    <3>1. at[v] \in {"lease", "returned"}
      BY <1>t, <1>n, <2>1 DEF Counted, CountTypes
    <3> QED
      BY <1>t, <3>1 DEF Counted
  <2>3. /\ putProvDone' \in [Calls -> Nat] /\ putProvDone'[v] = putProvDone[v] + 1
        /\ \A u \in Calls : u # v => putProvDone'[u] = putProvDone[u]
        /\ closed' \subseteq Calls /\ \A u \in Calls : u # v => (u \in closed' <=> u \in closed)
        /\ v \in closed' => v \in closed \/ putProvDone'[v] = rpcCount(v)
    BY <1>t, <2>1, CountFacts
  <2>c. v \notin closed
    BY <1>n, <2>1, <2>2
  <2>4. /\ releasing' \in [Calls -> Nat] /\ releasing'[v] = releasing[v] - 1
        /\ \A u \in Calls : u # v => releasing'[u] = releasing[u]
    <3>1. releasing[v] + (-1) \in Nat /\ -1 \in Int /\ releasing[v] + (-1) = releasing[v] - 1
      BY <1>n, <2>1
    <3> QED
      BY <1>f, <2>1, <3>1, Added
  <2>5. Sum(releasing) = Sum(releasing') + 1 /\ Sum(releasing') \in Nat
    <3>1. releasing[v] <= NumPeers /\ releasing[v] = releasing'[v] + 1
      BY <1>n, <2>1, <2>2, <2>4
    <3> QED
      BY <1>f, <2>4, <3>1, SumGrows, SumType
  <2>6. jobsPool' \in 0..PoolSize /\ jobsPool' = Sum(waiting) + Sum(releasing')
    BY <1>n, <1>f, <1>s, <2>1, <2>5
  <2>7. CountTypes'
    BY <1>t, <1>1, <2>1, <2>3, <2>4, <2>6 DEF CountTypes
  <2>8. /\ over[v] = doneChan[v] + putProvDone'[v] + releasing'[v]
        /\ rpcCount(v) = putProvDone'[v] + remaining[v] + waiting[v] + releasing'[v]
        /\ putProvDone'[v] >= returnThreshold(v)
    BY <1>n, <2>1, <2>2, <2>3, <2>4
  <2>9. Counted(v)'
    BY <1>1, <1>2, <2>1, <2>2, <2>c, <2>3, <2>8 DEF Counted
  <2>10. OnlyCall(v)
    BY <1>1, <2>1, <2>3, <2>4 DEF OnlyCall
  <2>11. \A u \in Calls : Counted(u)'
    BY <1>t, <2>9, <2>10, OthersCounted
  <2>12. LeasesHeld'
    BY <2>1, <2>6 DEF LeasesHeld, Sum
  <2> QED
    BY <2>7, <2>11, <2>12 DEF ProvideIInv
<1> QED
  BY <1>3, <1>4 DEF consumeDoneChan

(* Tokens and leases are accounted for through every step. *)
THEOREM ProvideInvariance == ProvideSpec => []ProvideIInv
<1>1. ProvideIInv /\ [ProvideNext]_provideVars => ProvideIInv'
  <2> SUFFICES ASSUME ProvideIInv, [ProvideNext]_provideVars PROVE ProvideIInv'
    OBVIOUS
  <2>1. ASSUME NEW v \in Calls, stopFn(v) \/ Call(v) \/ putProviderRecord(v) \/ consumeDoneChan(v),
               UNCHANGED threshold
        PROVE  ProvideIInv'
    BY <2>1, ScheduleStep, RpcOverStep, WaitStep, SecondLoopStep, ConsumerStep DEF Call
  <2>2. CASE UNCHANGED provideVars
    BY <2>2 DEF provideVars, rpcVars, waitVars, consumerVars, ProvideIInv, CountTypes, Counted,
                rpcCount, returnThreshold, LeasesHeld
  <2> QED
    BY <2>1, <2>2 DEF ProvideNext
<1> QED
  BY <1>1, ProvideInit, PTL DEF ProvideSpec

(* The bookkeeping of waitForRPCs and consumeDoneChan is sound for any number
   of calls: no token and no lease is lost, and doneChan is closed only after
   the last send and with no receiver left. *)
THEOREM TokensAndLeases == ProvideSpec => []ProvideInv
<1>1. ASSUME ProvideIInv PROVE ProvideInv
  <2>t. CountTypes /\ LeasesHeld /\ \A v \in Calls : Counted(v)
    BY <1>1 DEF ProvideIInv
  <2>1. ASSUME NEW v \in Calls
        PROVE  /\ running[v] \in 0..NumPeers /\ sending[v] \in 0..NumPeers /\ over[v] \in 0..NumPeers
               /\ failure[v] \in 0..NumPeers /\ putProvDone[v] \in 0..NumPeers
               /\ remaining[v] \in 0..NumPeers /\ waiting[v] \in 0..NumPeers /\ releasing[v] \in 0..NumPeers
               /\ doneChan[v] \in 0..threshold
               /\ over[v] = doneChan[v] + putProvDone[v] + releasing[v]
               /\ v \in closed => running[v] + sending[v] + waiting[v] + remaining[v] = 0
    <3>1. /\ running[v] \in Nat /\ sending[v] \in Nat /\ over[v] \in Nat /\ failure[v] \in Nat
          /\ putProvDone[v] \in Nat /\ remaining[v] \in Nat /\ waiting[v] \in Nat /\ releasing[v] \in Nat
          /\ doneChan[v] \in Nat /\ doneChan[v] <= threshold /\ NumPeers \in Nat /\ threshold \in Nat
      BY <2>t, Numbers, Bounds
    <3>2. /\ running[v] + sending[v] + over[v] <= NumPeers /\ failure[v] <= sending[v] + over[v]
          /\ over[v] = doneChan[v] + putProvDone[v] + releasing[v]
      BY <2>t DEF Counted, rpcCount
    <3>3. \/ remaining[v] = 0 /\ waiting[v] = 0 /\ v \notin closed
          \/ /\ running[v] + sending[v] + over[v] = putProvDone[v] + remaining[v] + waiting[v] + releasing[v]
             /\ v \in closed => putProvDone[v] = running[v] + sending[v] + over[v]
      BY <2>t DEF Counted, rpcCount, CountTypes
    <3>4. /\ running[v] <= NumPeers /\ sending[v] <= NumPeers /\ over[v] <= NumPeers
          /\ failure[v] <= NumPeers /\ putProvDone[v] <= NumPeers /\ releasing[v] <= NumPeers
      BY <3>1, <3>2
    <3>5. remaining[v] <= NumPeers /\ waiting[v] <= NumPeers
      BY <3>1, <3>2, <3>3
    <3>6. ASSUME v \in closed
          PROVE  running[v] + sending[v] + waiting[v] + remaining[v] = 0
      <4>1. /\ running[v] + sending[v] + over[v] = putProvDone[v] + remaining[v] + waiting[v] + releasing[v]
            /\ putProvDone[v] = running[v] + sending[v] + over[v]
        BY <3>3, <3>6
      <4>o. over[v] >= putProvDone[v]
        BY <3>1, <3>2
      <4>2. running[v] = 0 /\ sending[v] = 0
        <5> DEFINE r == running[v]
                   s == sending[v]
                   o == over[v]
                   p == putProvDone[v]
        <5>1. r \in Nat /\ s \in Nat /\ o \in Nat /\ p \in Nat /\ o >= p /\ p = r + s + o
          BY <3>1, <4>o, <4>1
        <5> HIDE DEF r, s, o, p
        <5>2. r = 0 /\ s = 0
          BY <5>1
        <5> QED
          BY <5>2 DEF r, s
      <4>3. remaining[v] = 0 /\ waiting[v] = 0
        BY <3>1, <4>1
      <4> QED
        BY <4>2, <4>3
    <3> QED
      BY <3>1, <3>2, <3>4, <3>5, <3>6
  <2>2. ProvideTypeOK
    BY <2>t, <2>1 DEF ProvideTypeOK, CountTypes
  <2>3. TokensConserved
    BY <2>t, <2>1 DEF TokensConserved, LeasesHeld
  <2>4. ClosedAfterSends
    BY <2>t, <2>1 DEF ClosedAfterSends, CountTypes
  <2> QED
    BY <2>2, <2>3, <2>4 DEF ProvideInv
<1> QED
  BY <1>1, ProvideInvariance, PTL

(* A call of Provide returns only when its threshold of RPCs is over, and all
   calls together leave at most as many RPCs behind as the pool has places. *)
THEOREM ProvideReturnsSound == ProvideSpec => []ReturnsSound
<1>1. ASSUME ProvideIInv PROVE ReturnsSound
  <2>t. CountTypes /\ LeasesHeld /\ \A v \in Calls : Counted(v)
    BY <1>1 DEF ProvideIInv
  <2> DEFINE f == [v \in Calls |-> IF at[v] = "returned" THEN running[v] + sending[v] ELSE 0]
  <2>1. ASSUME NEW v \in Calls
        PROVE  /\ f[v] \in Nat /\ f[v] <= waiting[v]
               /\ at[v] = "returned" => over[v] >= returnThreshold(v)
    <3>1. /\ running[v] \in Nat /\ sending[v] \in Nat /\ over[v] \in Nat
          /\ putProvDone[v] \in Nat /\ remaining[v] \in Nat /\ waiting[v] \in Nat /\ releasing[v] \in Nat
          /\ doneChan[v] \in Nat /\ returnThreshold(v) \in Nat
      BY <2>t, Numbers
    <3>2. at[v] = "returned" =>
            /\ running[v] + sending[v] + over[v] = putProvDone[v] + remaining[v] + waiting[v] + releasing[v]
            /\ over[v] = doneChan[v] + putProvDone[v] + releasing[v]
            /\ remaining[v] = 0 /\ putProvDone[v] >= returnThreshold(v)
      BY <2>t DEF Counted, rpcCount
    <3> QED
      BY <3>1, <3>2
  <2>2. ReturnsAfterThreshold
    BY <2>1 DEF ReturnsAfterThreshold
  <2>3. BoundedAsynchrony
    <3>1. f \in [Calls -> Nat] /\ waiting \in [Calls -> Nat] /\ \A v \in Calls : f[v] <= waiting[v]
      BY <2>t, <2>1 DEF CountTypes
    <3> HIDE DEF f
    <3>2. Sum(f) <= Sum(waiting)
      BY <3>1, SumMonotone
    <3>3. Sum(f) \in Nat /\ Sum(waiting) \in Nat /\ Sum(releasing) \in Nat
      BY SumType
    <3>4. jobsPool = Sum(waiting) + Sum(releasing) /\ jobsPool \in 0..PoolSize /\ PoolSize \in Nat
      BY <2>t, Bounds DEF LeasesHeld, CountTypes
    <3>5. Sum(f) <= PoolSize
      BY <3>2, <3>3, <3>4
    <3> QED
      BY <3>5 DEF BoundedAsynchrony, f
  <2> QED
    BY <2>2, <2>3 DEF ReturnsSound
<1> QED
  BY <1>1, ProvideInvariance, PTL
=============================================================================
