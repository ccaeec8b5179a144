------------------------- MODULE RoutingTableProofs -------------------------
(***************************************************************************)
(* What a round of the refresh manager owes its callers, that no bucket    *)
(* overflows, and that the freeze which ends a bootstrap is never lost,    *)
(* for any peers, buckets and callers.                                     *)
(***************************************************************************)
EXTENDS RoutingTable, FiniteSetTheorems, TLAPS

(* The types and the size of the buckets *)

(* A finite set of numbers that is not empty has a maximum: a member with as
   few larger ones as possible has none. *)
LEMMA MaxExists ==
  ASSUME NEW S \in SUBSET Nat, IsFiniteSet(S), S # {}
  PROVE  Max(S) \in S
<1> DEFINE Above(x) == {y \in S : y > x}
           T == {Above(x) : x \in S}
<1>1. IsWellFoundedOn(StrictSubsetOrdering(S), SUBSET S)
  BY FS_StrictSubsetOrderingWellFounded, FS_FiniteSubsetsOfFinite
<1>2. T \subseteq SUBSET S /\ T # {}
  OBVIOUS
<1>3. PICK U \in T : \A V \in T : <<V, U>> \notin StrictSubsetOrdering(S)
  <2> HIDE DEF T
  <2> QED BY <1>1, <1>2, WFMin
<1>4. PICK x \in S : U = Above(x)
  BY <1>3
<1>5. ASSUME NEW y \in S, y > x PROVE FALSE
  <2>1. Above(y) \in T /\ Above(y) \in SUBSET S /\ Above(x) \in SUBSET S
    OBVIOUS
  <2>2. Above(y) \subseteq Above(x) /\ y \in Above(x) /\ y \notin Above(y)
    <3>1. x \in Nat /\ y \in Nat /\ \A z \in S : z \in Nat
      OBVIOUS
    <3>2. \A z \in S : z > y => z > x
      BY <1>5, <3>1
    <3>3. ~(y > y)
      BY <3>1
    <3>4. Above(y) \subseteq Above(x)
      BY <3>2
    <3>5. y \in Above(x)
      BY <1>5
    <3>6. y \notin Above(y)
      BY <3>3
    <3> QED
      BY <3>4, <3>5, <3>6
  <2>3. <<Above(y), Above(x)>> \in StrictSubsetOrdering(S)
    <3> HIDE DEF Above
    <3> QED BY <2>1, <2>2 DEF StrictSubsetOrdering
  <2> QED
    BY <1>3, <1>4, <2>1, <2>3
<1>6. \A y \in S : x >= y
  BY <1>5
<1> QED
  BY <1>6 DEF Max

(* The table tracks a number of prefix lengths, one at least. *)
LEMMA TrackedCpls ==
  ASSUME rt \subseteq Peers
  PROVE  NumTrackedCpls \in Nat \ {0}
<1> DEFINE S == {Cpl[p] : p \in rt}
<1>1. IsFiniteSet(rt)
  BY TableAssumption, FS_Subset
<1>2. IsFiniteSet(S)
  <2> DEFINE f == [p \in rt |-> Cpl[p]]
  <2>1. f \in Surjection(rt, S)
    BY DEF Surjection
  <2> HIDE DEF f, S
  <2> QED BY <1>1, <2>1, FS_Surjection
<1>3. IsFiniteSet({0} \cup S)
  BY <1>2, FS_Singleton, FS_Union
<1>4. {0} \cup S \in SUBSET Nat /\ {0} \cup S # {}
  BY TableAssumption
<1>5. Max({0} \cup S) \in Nat
  <2> HIDE DEF S
  <2> QED BY <1>3, <1>4, MaxExists
<1> QED
  BY <1>5 DEF NumTrackedCpls

(* The smaller of two numbers is one of them. *)
LEMMA MinOfTwo ==
  ASSUME NEW a \in Nat, NEW b \in Nat
  PROVE  Min({a, b}) \in {a, b} /\ Min({a, b}) <= a /\ Min({a, b}) <= b
<1>1. \E x \in {a, b} : \A y \in {a, b} : x <= y
  OBVIOUS
<1> QED
  BY <1>1 DEF Min

(* A newcomer fits into its bucket: there was room, or a peer had to go. *)
LEMMA AddFits ==
  ASSUME rt \subseteq Peers, BucketsBounded, NEW p \in Peers, p \notin rt, NEW out \in Victims(p),
         rt' = (rt \ out) \cup {p}
  PROVE  BucketsBounded'
<1> SUFFICES ASSUME NEW q \in rt' PROVE Cardinality(Bucket(Cpl[q])') <= BucketSize
  BY TableAssumption DEF BucketsBounded, Bucket
<1> DEFINE B == Bucket(Cpl[q])
           C == Bucket(Cpl[q])'
<1>1. IsFiniteSet(B) /\ Cardinality(B) \in Nat /\ BucketSize \in Nat
  BY TableAssumption, FS_Subset, FS_CardinalityType DEF Bucket
<1>2. CASE Cpl[q] # Cpl[p]
  <2>1. C \subseteq B /\ q \in rt
    BY <1>2 DEF Bucket
  <2>2. Cardinality(C) <= Cardinality(B) /\ Cardinality(C) \in Nat
    BY <1>1, <2>1, FS_Subset, FS_CardinalityType
  <2>3. Cardinality(B) <= BucketSize
    BY <2>1 DEF BucketsBounded
  <2> QED
    BY <1>1, <2>2, <2>3
<1>3. CASE Cpl[q] = Cpl[p] /\ HasRoom(p)
  <2>1. C = B \cup {p} /\ p \notin B
    BY <1>3 DEF Bucket, Victims
  <2>2. Cardinality(C) = Cardinality(B) + 1
    BY <1>1, <2>1, FS_AddElement
  <2>3. Cardinality(B) < BucketSize
    BY <1>3 DEF HasRoom
  <2> QED
    BY <1>1, <2>2, <2>3
<1>4. CASE Cpl[q] = Cpl[p] /\ ~HasRoom(p)
  <2>1. PICK v \in B : out = {v}
    BY <1>4 DEF Victims
  <2>2. C = (B \ {v}) \cup {p} /\ p \notin B \ {v} /\ v \in rt /\ Cpl[v] = Cpl[q]
    BY <1>4, <2>1 DEF Bucket
  <2>3. IsFiniteSet(B \ {v}) /\ Cardinality(B \ {v}) = Cardinality(B) - 1
    BY <1>1, <2>1, FS_RemoveElement
  <2>4. Cardinality(C) = Cardinality(B \ {v}) + 1
    BY <2>2, <2>3, FS_AddElement
  <2>5. Cardinality(B) <= BucketSize
    BY <2>2 DEF BucketsBounded
  <2> QED
    BY <1>1, <2>3, <2>4, <2>5
<1> QED
  BY <1>2, <1>3, <1>4

(* A table that has only lost peers keeps its bounds. *)
LEMMA LossFits ==
  ASSUME rt \subseteq Peers, BucketsBounded, rt' \subseteq rt
  PROVE  BucketsBounded'
<1> SUFFICES ASSUME NEW q \in rt' PROVE Cardinality(Bucket(Cpl[q])') <= BucketSize
  BY TableAssumption DEF BucketsBounded, Bucket
<1>1. Bucket(Cpl[q])' \subseteq Bucket(Cpl[q]) /\ q \in rt
  BY DEF Bucket
<1>2. IsFiniteSet(Bucket(Cpl[q])) /\ Cardinality(Bucket(Cpl[q])) \in Nat /\ BucketSize \in Nat
  BY TableAssumption, FS_Subset, FS_CardinalityType DEF Bucket
<1>3. /\ Cardinality(Bucket(Cpl[q])') <= Cardinality(Bucket(Cpl[q]))
      /\ Cardinality(Bucket(Cpl[q])') \in Nat
  BY <1>1, <1>2, FS_Subset, FS_CardinalityType
<1>4. Cardinality(Bucket(Cpl[q])) <= BucketSize
  BY <1>1 DEF BucketsBounded
<1> QED
  BY <1>2, <1>3, <1>4

(* Types that only the table's own goroutines and the rounds change. *)
TableType == rt \subseteq Peers /\ replaceable \subseteq rt /\ recent \subseteq rt

RoundType ==
  /\ pinging \subseteq Peers
  /\ loop \in {"select", "batch", "ping", "self", "cpl", "signal", "reply", "exited"}
  /\ forced \in BOOLEAN /\ skipped \in BOOLEAN
  /\ refreshCpls \in Nat /\ cpl \in Nat /\ gap \in Nat \cup {NoGap}
  /\ loop = "cpl" => refreshCpls # 0

LoopType ==
  /\ adding \subseteq Peers /\ received \subseteq Peers /\ stopped \subseteq Peers
  /\ rtLoop \in {"select", "add", "exited"} /\ close \in {"no", "waiting", "returned"}
  /\ isBootstrapping \in BOOLEAN /\ timer \in BOOLEAN /\ ctxDone \in BOOLEAN
  /\ bootstrapCount \in 0..2

TableInv == TableType /\ RoundType /\ LoopType /\ BucketsBounded

(* They hold at the start. *)
LEMMA TableInit == Init => TableInv
<1> SUFFICES ASSUME Init PROVE TableInv
  OBVIOUS
<1>1. TableType /\ BucketsBounded
  BY DEF Init, TableType, BucketsBounded
<1>2. RoundType
  BY DEF Init, InitRefresh, RoundType
<1>3. LoopType
  <2>1. 0 \in 0..2
    OBVIOUS
  <2> QED
    BY <2>1, Zenon DEF Init, LoopType
<1> QED
  BY <1>1, <1>2, <1>3 DEF TableInv

(* A step of the refresh manager's loop keeps the types of a round. *)
LEMMA RoundLoop == TableInv /\ RefreshLoop => RoundType' /\ UNCHANGED <<tableVars, ctxDone>>
<1> DEFINE G == RoundType' /\ UNCHANGED <<tableVars, ctxDone>>
<1> SUFFICES ASSUME TableInv, RefreshLoop PROVE G
  OBVIOUS
<1>t. RoundType /\ TableType
  BY DEF TableInv
<1> HIDE DEF G
<1> USE <1>t DEF G, RoundType, TableType, roundVars, cplVars, tableVars
<1>1. ASSUME NEW c \in Callers, Trigger(c) PROVE G
  BY <1>1 DEF Trigger
<1>2. CASE Tick
  BY <1>2 DEF Tick
<1>3. CASE LoopExits
  BY <1>3 DEF LoopExits
<1>4. CASE StartPings
  BY <1>4 DEF StartPings
<1>5. CASE PingsDone
  BY <1>5 DEF PingsDone
<1>6. CASE queryForSelf
  BY <1>6, TrackedCpls DEF queryForSelf
<1>7. CASE refreshCpl
  <2>1. CASE Bucket(cpl) = {} /\ refreshAfterGap(cpl)
    <3>1. lastCpl(cpl) \in Nat
      <4>1. lastCpl(cpl) \in {2 * (cpl + 1), refreshCpls - 1}
        BY <1>7, MinOfTwo DEF refreshCpl, lastCpl
      <4> QED
        BY <1>7, <4>1 DEF refreshCpl
    <3>2. skipped' \in BOOLEAN
      BY <2>1 DEF refreshAfterGap, rfnc
    <3> QED
      BY <1>7, <2>1, <3>1, <3>2 DEF refreshCpl, refreshAfterGap
  <2>2. CASE /\ \E failed \in BOOLEAN : (failed \/ Bucket(cpl) # {}) /\ rfnc(failed)
             /\ cpl' = cpl + 1
             /\ loop' = IF cpl + 1 = refreshCpls THEN "signal" ELSE "cpl"
             /\ UNCHANGED gap
    <3>1. skipped' \in BOOLEAN
      BY <2>2 DEF rfnc
    <3> QED
      BY <1>7, <2>2, <3>1 DEF refreshCpl
  <2> QED
    BY <1>7, <2>1, <2>2 DEF refreshCpl
<1>9. CASE SignalCancelled
  BY <1>9 DEF SignalCancelled
<1>10. CASE Reply
  BY <1>10 DEF Reply
<1> QED
  BY <1>1, <1>2, <1>3, <1>4, <1>5, <1>6, <1>7, <1>9, <1>10 DEF RefreshLoop

(* A newcomer keeps the types of the table, and the buckets in bounds. *)
LEMMA AddTyped ==
  ASSUME TableType, BucketsBounded, NEW p \in Peers, NEW mark \in BOOLEAN, TryAddPeer(p, mark)
  PROVE  TableType' /\ BucketsBounded'
<1> USE DEF TableType
<1>1. CASE p \notin rt /\ \E out \in Victims(p) :
             /\ rt' = (rt \ out) \cup {p}
             /\ replaceable' = (replaceable \ out) \cup (IF mark THEN {p} ELSE {})
             /\ recent' = (recent \ out) \cup {p}
  <2>1. TableType'
    BY <1>1
  <2>2. BucketsBounded'
    BY <1>1, AddFits
  <2> QED
    BY <2>1, <2>2
<1>2. CASE rt' = rt /\ replaceable' = replaceable /\ recent' \subseteq rt
  BY <1>2, LossFits
<1> QED
  BY <1>1, <1>2 DEF TryAddPeer, tableVars

(* Every step keeps the types and the bounds. *)
LEMMA TableStep == TableInv /\ [Next]_vars => TableInv'
<1> SUFFICES ASSUME TableInv, [Next]_vars PROVE TableInv'
  OBVIOUS
<1>t. TableType /\ RoundType /\ LoopType /\ BucketsBounded
  BY DEF TableInv
<1>b. rt' \subseteq rt => BucketsBounded'
  BY <1>t, LossFits DEF TableType
<1>1. CASE RefreshManager
  <2>1. RoundType' /\ UNCHANGED <<tableVars, ctxDone, dhtVars>>
    BY <1>1, RoundLoop DEF RefreshManager
  <2> QED
    BY <1>t, <1>b, <2>1 DEF TableInv, TableType, LoopType, tableVars, dhtVars, loopVars
<1> USE DEF TableInv, TableType, RoundType, LoopType, tableVars, refreshVars, roundVars, cplVars,
            loopVars, dhtVars
<1>2. CASE FreezeTimer
  BY <1>t, <1>b, <1>2 DEF FreezeTimer, MarkAllPeersIrreplaceable
<1>3. CASE RefreshFinished
  <2>1. bootstrapCount' \in 0..2
    <3>1. bootstrapCount \in 0..2 /\ bootstrapCount' = Min({bootstrapCount + 1, 2})
      BY <1>t, <1>3 DEF RefreshFinished
    <3> QED
      BY <3>1, MinOfTwo
  <2> QED
    BY <1>t, <1>b, <1>3, <2>1 DEF RefreshFinished, SendRefreshDone
<1>4. CASE RtLoopExits
  BY <1>t, <1>b, <1>4 DEF RtLoopExits
<1>5. ASSUME NEW p \in Peers, ReceivePeer(p) PROVE TableInv'
  <2>1. isBootstrapping' \in BOOLEAN /\ timer' \in BOOLEAN /\ bootstrapCount' \in 0..2
    <3>1. CASE rt = {}
      <4>1. isBootstrapping' = TRUE /\ bootstrapCount' = 0 /\ timer' = FALSE
        BY <1>5, <3>1, Zenon DEF ReceivePeer
      <4>2. 0 \in 0..2
        OBVIOUS
      <4> QED
        BY <4>1, <4>2, Zenon
    <3>2. CASE rt # {}
      BY <1>t, <1>5, <3>2 DEF ReceivePeer
    <3> QED
      BY <3>1, <3>2
  <2>2. LoopType'
    BY <1>t, <1>5, <2>1 DEF ReceivePeer
  <2> QED
    BY <1>t, <1>b, <1>5, <2>2 DEF ReceivePeer
<1>13. ASSUME NEW p \in Peers, AddPeer(p) PROVE TableInv'
  <2>1. isBootstrapping \in BOOLEAN /\ TryAddPeer(p, isBootstrapping)
    BY <1>t, <1>13 DEF AddPeer
  <2>2. TableType' /\ BucketsBounded'
    BY <1>t, <2>1, AddTyped
  <2>3. LoopType' /\ RoundType'
    BY <1>t, <1>13 DEF AddPeer
  <2> QED
    BY <2>2, <2>3
<1>6. CASE Close
  BY <1>t, <1>b, <1>6 DEF Close
<1>7. CASE CloseReturns
  BY <1>t, <1>b, <1>7 DEF CloseReturns
<1>8. ASSUME NEW c \in Callers, RefreshCall(c) PROVE TableInv'
  BY <1>t, <1>b, <1>8 DEF RefreshCall, Refresh, RefreshCancelled
<1>9. ASSUME NEW p \in Peers, handlePeerChangeEvent(p) PROVE TableInv'
  BY <1>t, <1>b, <1>9 DEF handlePeerChangeEvent, peerFound, validPeerFound, peerStoppedDHT, RemovePeer
<1>10. ASSUME NEW p \in Peers, AddCancelled(p) \/ StopsDHT(p) \/ Age(p) PROVE TableInv'
  BY <1>t, <1>b, <1>10 DEF AddCancelled, StopsDHT, Age
<1>11. ASSUME NEW p \in Peers, Ping(p) PROVE TableInv'
  BY <1>t, <1>b, <1>11 DEF Ping, PingOk, PingFails, RemovePeer
<1>12. CASE UNCHANGED vars
  BY <1>t, <1>b, <1>12 DEF vars
<1> QED
  BY <1>1, <1>2, <1>3, <1>4, <1>5, <1>6, <1>7, <1>8, <1>9, <1>10, <1>11, <1>12, <1>13
  DEF Next, rtPeerLoop

(* The types of the table hold always. *)
LEMMA Typed == Spec => []TableInv
  BY TableInit, TableStep, PTL DEF Spec

-----------------------------------------------------------------------------
(* What a round owes its callers *)

(* Nothing is skipped before the prefix lengths are looked at, and a forcing
   caller of the batch makes the round forced, which then skips nothing as not
   due.  The lengths a round has not got to are none when it tells the DHT, and
   those that the gap rule cuts off when it does not. *)
Fresh == loop \in {"select", "batch", "ping", "self", "exited"} => ~skipped
ForcedStays == \A c \in Forcing : refresh[c] = "batched" => forced
ForcedSkipsNone == forced => ~skipped

CutOff == \A l \in cpl..(refreshCpls - 1) : gap # NoGap /\ l > 2 * (gap + 1)

LengthsDone ==
  /\ loop = "signal" => cpl = refreshCpls
  /\ loop = "reply" => CutOff

BatchInv ==
  /\ refresh \in [Callers -> {"idle", "asking", "batched", "answered"}]
  /\ loop \in {"select", "exited"} => \A c \in Callers : refresh[c] # "batched"
  /\ Fresh /\ ForcedStays /\ ForcedSkipsNone /\ LengthsDone

(* Nothing is cut off when the last length is the next one to look at. *)
LEMMA NoneCutOff == ASSUME refreshCpls \in Nat, cpl = refreshCpls PROVE CutOff
  BY DEF CutOff

(* The invariant says what a forcing caller is owed. *)
LEMMA BatchImplies == TableInv /\ BatchInv => BatchServed
<1> SUFFICES ASSUME TableInv, BatchInv PROVE BatchServed
  OBVIOUS
<1>1. ASSUME NEW c \in Forcing, refresh[c] = "batched", loop \in {"signal", "reply"}
      PROVE  ~skipped /\ CutOff
  BY <1>1, NoneCutOff
  DEF TableInv, RoundType, BatchInv, ForcedStays, ForcedSkipsNone, LengthsDone
<1> QED
  BY <1>1 DEF BatchInv, BatchServed, CutOff

(* It holds at the start, when nobody has called. *)
LEMMA BatchInit == Init => BatchInv
  BY RefreshAssumption
  DEF Init, InitRefresh, BatchInv, Fresh, ForcedStays, ForcedSkipsNone, LengthsDone

(* After a gap at c a round has got to all lengths up to twice c + 1. *)
LEMMA GapCutsOff ==
  ASSUME NEW c \in Nat, refreshCpls \in Nat \ {0}, UNCHANGED refreshCpls, refreshAfterGap(c)
  PROVE  CutOff'
<1>1. /\ lastCpl(c) \in {2 * (c + 1), refreshCpls - 1}
      /\ lastCpl(c) <= refreshCpls - 1
  BY MinOfTwo DEF lastCpl
<1>2. lastCpl(c) \in Nat /\ cpl' = lastCpl(c) + 1
  BY <1>1 DEF refreshAfterGap
<1>3. CASE lastCpl(c) < refreshCpls - 1
  <2>1. gap' = c /\ c # NoGap /\ cpl' = 2 * (c + 1) + 1
    BY <1>1, <1>2, <1>3 DEF refreshAfterGap, NoGap
  <2> QED
    BY <2>1 DEF CutOff
<1>4. CASE lastCpl(c) = refreshCpls - 1
  <2>1. cpl' = refreshCpls'
    BY <1>2, <1>4
  <2> QED
    BY <2>1 DEF CutOff
<1> QED
  BY <1>1, <1>2, <1>3, <1>4

(* A step of the loop of the refresh manager keeps the invariant. *)
LEMMA BatchLoop == TableInv /\ BatchInv /\ RefreshLoop => BatchInv'
<1> SUFFICES ASSUME TableInv, BatchInv, RefreshLoop PROVE BatchInv'
  OBVIOUS
<1>t. RoundType
  BY DEF TableInv
<1> USE RefreshAssumption
    DEF BatchInv, Fresh, ForcedStays, ForcedSkipsNone, LengthsDone, roundVars, cplVars
<1>1. ASSUME NEW c \in Callers, Trigger(c) PROVE BatchInv'
  BY <1>1 DEF Trigger
<1>2. CASE Tick
  BY <1>2 DEF Tick
<1>3. CASE LoopExits
  BY <1>3 DEF LoopExits
<1>4. CASE StartPings
  BY <1>4 DEF StartPings
<1>5. CASE PingsDone
  BY <1>5 DEF PingsDone
<1>6. CASE queryForSelf
  BY <1>6 DEF queryForSelf
<1>7. CASE refreshCpl
  <2>1. forced' => ~skipped'
    BY <1>7 DEF refreshCpl, refreshAfterGap, rfnc
  <2>2. LengthsDone'
    <3>1. CASE Bucket(cpl) = {} /\ refreshAfterGap(cpl)
      <4>1. CutOff'
        BY <1>7, <1>t, <3>1, GapCutsOff DEF refreshCpl, RoundType
      <4> QED
        BY <3>1, <4>1 DEF refreshAfterGap
    <3>2. CASE /\ cpl' = cpl + 1
               /\ loop' = IF cpl + 1 = refreshCpls THEN "signal" ELSE "cpl"
      BY <1>7, <3>2 DEF refreshCpl
    <3> QED
      BY <1>7, <3>1, <3>2 DEF refreshCpl
  <2>3. loop' \in {"cpl", "signal", "reply"}
    BY <1>7 DEF refreshCpl, refreshAfterGap
  <2> QED
    BY <1>7, <2>1, <2>2, <2>3 DEF refreshCpl
<1>8. CASE SignalCancelled
  <2>1. CutOff'
    BY <1>8, <1>t DEF SignalCancelled, RoundType, CutOff
  <2> QED
    BY <1>8, <2>1 DEF SignalCancelled
<1>9. CASE Reply
  BY <1>9 DEF Reply
<1> QED
  BY <1>1, <1>2, <1>3, <1>4, <1>5, <1>6, <1>7, <1>8, <1>9 DEF RefreshLoop

(* The steps of the others keep it. *)
LEMMA BatchStep == TableInv /\ BatchInv /\ [Next]_vars => BatchInv'
<1> SUFFICES ASSUME TableInv, BatchInv, [Next]_vars PROVE BatchInv'
  OBVIOUS
<1>t. RoundType
  BY DEF TableInv
<1>1. CASE RefreshManager
  BY <1>1, BatchLoop DEF RefreshManager
<1> USE RefreshAssumption
    DEF BatchInv, Fresh, ForcedStays, ForcedSkipsNone, LengthsDone, roundVars, cplVars, refreshVars
<1>5. CASE UNCHANGED refreshVars
  BY <1>5 DEF CutOff
<1>2. CASE RefreshFinished
  <2>1. CutOff'
    BY <1>2, <1>t DEF RefreshFinished, SendRefreshDone, RoundType, CutOff
  <2> QED
    BY <1>2, <2>1 DEF RefreshFinished, SendRefreshDone
<1>3. ASSUME NEW c \in Callers, RefreshCall(c) PROVE BatchInv'
  BY <1>3 DEF RefreshCall, Refresh, RefreshCancelled, CutOff
<1>4. ASSUME NEW p \in Peers, Ping(p) PROVE BatchInv'
  BY <1>4 DEF Ping, PingOk, PingFails, CutOff
<1>6. FreezeTimer \/ RtLoopExits \/ (\E p \in Peers : ReceivePeer(p) \/ AddPeer(p))
        => UNCHANGED refreshVars
  BY DEF FreezeTimer, RtLoopExits, ReceivePeer, AddPeer
<1>7. Close \/ CloseReturns => UNCHANGED refreshVars
  BY DEF Close, CloseReturns
<1>8. ASSUME NEW p \in Peers, handlePeerChangeEvent(p) \/ AddCancelled(p) \/ StopsDHT(p) \/ Age(p)
      PROVE  UNCHANGED refreshVars
  BY <1>8 DEF handlePeerChangeEvent, peerFound, validPeerFound, peerStoppedDHT, AddCancelled,
              StopsDHT, Age
<1>9. UNCHANGED vars => UNCHANGED refreshVars
  BY DEF vars
<1> QED
  BY <1>1, <1>2, <1>3, <1>4, <1>5, <1>6, <1>7, <1>8, <1>9 DEF Next, rtPeerLoop

(* Batching of requests in loop loses neither a caller nor the flag of one: a
   caller is in a batch only while a round is on, and the round of a forcing
   caller leaves out no length as not due.  The gap rule of doRefresh applies to
   a forced round as well: lengths beyond twice the first one without peers are
   left out, and no others. *)
THEOREM BatchIsServed == Spec => []BatchServed
  BY BatchInit, BatchStep, BatchImplies, Typed, PTL DEF Spec

(* The parts make up the invariant of the run. *)
LEMMA TypeParts == BatchInv /\ TableInv => Inv
  BY BatchImplies DEF BatchInv, TableInv, TableType, RoundType, LoopType, Inv, TypeOK

(* The table, the rounds and rtPeerLoop stay consistent: no bucket overflows,
   whatever is added, evicted or replaced, and no round forgets its callers. *)
THEOREM TableConsistent == Spec => []Inv
  BY BatchInit, BatchStep, Typed, TypeParts, PTL DEF Spec

-----------------------------------------------------------------------------
(* The freeze *)

(* Peers are added as replaceable only while no refresh counts: the one that
   would count ends the bootstrap. *)
Uncounted == isBootstrapping => bootstrapCount = 0

FreezeInv == Uncounted /\ FreezeAhead

(* A newcomer is the only one that may become replaceable, during a bootstrap. *)
LEMMA AddMarks ==
  ASSUME NEW p \in Peers, NEW mark \in BOOLEAN, TryAddPeer(p, mark), ~mark
  PROVE  replaceable' \subseteq replaceable
  BY DEF TryAddPeer, tableVars

(* Steps that leave the bootstrap alone, and make no peer replaceable, keep it. *)
LEMMA FreezeKept ==
  ASSUME FreezeInv, UNCHANGED <<isBootstrapping, bootstrapCount, timer>>,
         replaceable' \subseteq replaceable
  PROVE  FreezeInv'
  BY DEF FreezeInv, Uncounted, FreezeAhead

(* Every step keeps it. *)
LEMMA FreezeStep == TableInv /\ FreezeInv /\ [Next]_vars => FreezeInv'
<1> SUFFICES ASSUME TableInv, FreezeInv, [Next]_vars PROVE FreezeInv'
  OBVIOUS
<1> DEFINE Boot == <<isBootstrapping, bootstrapCount, timer>>
           Kept == UNCHANGED Boot /\ replaceable' \subseteq replaceable
<1>t. bootstrapCount \in 0..2 /\ isBootstrapping \in BOOLEAN
  BY DEF TableInv, LoopType
<1>k. Kept => FreezeInv'
  BY FreezeKept
<1>1. CASE FreezeTimer
  BY <1>1 DEF FreezeTimer, MarkAllPeersIrreplaceable, FreezeInv, Uncounted, FreezeAhead
<1>2. ASSUME NEW p \in Peers, ReceivePeer(p) PROVE FreezeInv'
  <2>1. CASE rt = {}
    BY <1>2, <2>1 DEF ReceivePeer, FreezeInv, Uncounted, FreezeAhead
  <2>2. CASE rt # {}
    BY <1>2, <1>k, <2>2 DEF ReceivePeer, tableVars
  <2> QED
    BY <2>1, <2>2
<1>3. ASSUME NEW p \in Peers, AddPeer(p) PROVE FreezeInv'
  <2>1. CASE isBootstrapping
    BY <1>3, <2>1 DEF AddPeer, FreezeInv, Uncounted, FreezeAhead
  <2>2. CASE ~isBootstrapping
    BY <1>3, <1>t, <1>k, <2>2, AddMarks DEF AddPeer
  <2> QED
    BY <2>1, <2>2
<1>4. CASE RefreshFinished
  <2>0. bootstrapCount + 1 \in Nat /\ bootstrapCount' = Min({bootstrapCount + 1, 2})
    BY <1>4, <1>t DEF RefreshFinished
  <2>1. bootstrapCount' \in {bootstrapCount + 1, 2} /\ bootstrapCount' <= bootstrapCount + 1
    BY <2>0, MinOfTwo
  <2>2. bootstrapCount' < 2 \/ bootstrapCount = 1 \/ bootstrapCount = 2
    BY <1>t, <2>1
  <2>3. UNCHANGED replaceable /\ isBootstrapping' = FALSE
    BY <1>4 DEF RefreshFinished, tableVars
  <2>4. timer \/ bootstrapCount = 1 => timer'
    BY <1>4, Zenon DEF RefreshFinished
  <2>5. bootstrapCount = 2 => replaceable = {} \/ timer
    BY DEF FreezeInv, FreezeAhead
  <2> HIDE DEF Kept, Boot
  <2> QED
    BY <2>2, <2>3, <2>4, <2>5, Zenon DEF FreezeInv, Uncounted, FreezeAhead
<1>5. ASSUME NEW p \in Peers, handlePeerChangeEvent(p) \/ Ping(p) PROVE Kept
  BY <1>5 DEF handlePeerChangeEvent, peerFound, validPeerFound, peerStoppedDHT, Ping, PingOk,
              PingFails, RemovePeer, tableVars, dhtVars, loopVars
<1>6. RefreshManager => UNCHANGED <<replaceable, Boot>>
  BY DEF RefreshManager, RefreshLoop, Trigger, Tick, LoopExits, StartPings, PingsDone,
         queryForSelf, refreshCpl, SignalCancelled, Reply, tableVars, dhtVars, loopVars
<1>7. RtLoopExits \/ Close \/ CloseReturns => UNCHANGED <<replaceable, Boot>>
  BY DEF RtLoopExits, Close, CloseReturns, tableVars, loopVars
<1>8. ASSUME NEW c \in Callers, RefreshCall(c) PROVE UNCHANGED <<replaceable, Boot>>
  BY <1>8 DEF RefreshCall, Refresh, RefreshCancelled, tableVars, dhtVars, loopVars
<1>9. ASSUME NEW p \in Peers, AddCancelled(p) \/ StopsDHT(p) \/ Age(p)
      PROVE  UNCHANGED <<replaceable, Boot>>
  BY <1>9 DEF AddCancelled, StopsDHT, Age, tableVars, dhtVars, loopVars
<1>10. UNCHANGED vars => UNCHANGED <<replaceable, Boot>>
  BY DEF vars, tableVars, dhtVars, loopVars
<1>11. UNCHANGED <<replaceable, Boot>> => Kept
  OBVIOUS
<1> HIDE DEF Kept
<1> QED
  BY <1>k, <1>1, <1>2, <1>3, <1>4, <1>5, <1>6, <1>7, <1>8, <1>9, <1>10, <1>11 DEF Next, rtPeerLoop

(* rtPeerLoop never loses the freeze: while a newcomer could still replace peers
   of the table, the refreshes that start the timer are yet to be counted, or
   the timer runs, whatever empties and fills the table. *)
THEOREM FreezeIsAhead == Spec => []FreezeAhead
<1>1. Init => FreezeInv
  BY DEF Init, FreezeInv, Uncounted, FreezeAhead
<1>2. FreezeInv => FreezeAhead
  BY DEF FreezeInv
<1> QED
  BY <1>1, <1>2, FreezeStep, Typed, PTL DEF Spec
=============================================================================
