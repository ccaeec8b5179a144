----------------------------- MODULE LookupProofs -----------------------------
(***************************************************************************)
(* Proofs about Lookup, FindPeer and QueryPeerset, for every set of peers, *)
(* every distance function and every Alpha, Beta and K.                    *)
(***************************************************************************)
EXTENDS FindPeer, QueryPeerset, FiniteSetTheorems, FunctionTheorems, TLAPS

-----------------------------------------------------------------------------
(* The closest n members of a set *)

(* The members of a finite set of peers are counted by Cardinality. *)
LEMMA PeerSetFinite ==
  ASSUME NEW S \in SUBSET Peers
  PROVE  IsFiniteSet(S) /\ Cardinality(S) \in Nat
  BY PeersAssumption, FS_Subset, FS_CardinalityType

(* How many members of S the function d puts before x *)
RankIn(S, d, x) == Cardinality({y \in S : d[y] < d[x]})

(* A function that tells the members of a finite set apart ranks them from 0
   to one less than their number, and in its own order. *)
LEMMA Ranks ==
  ASSUME NEW S, IsFiniteSet(S), NEW d, \A x \in S : d[x] \in Nat,
         \A x, y \in S : d[x] = d[y] => x = y
  PROVE  /\ Cardinality(S) \in Nat
         /\ \A x \in S : RankIn(S, d, x) \in 0..(Cardinality(S) - 1)
         /\ \A x, y \in S : d[x] < d[y] <=> RankIn(S, d, x) < RankIn(S, d, y)
         /\ \A x, y \in S : RankIn(S, d, x) = RankIn(S, d, y) => x = y
         /\ \A i \in 0..(Cardinality(S) - 1) : \E x \in S : RankIn(S, d, x) = i
<1> DEFINE Below(x) == {y \in S : d[y] < d[x]}
           m == Cardinality(S)
           f == [x \in S |-> RankIn(S, d, x)]
<1>1. m \in Nat
  BY FS_CardinalityType
<1>2. ASSUME NEW x \in S
      PROVE  IsFiniteSet(Below(x)) /\ Cardinality(Below(x)) \in Nat /\ Cardinality(Below(x)) < m
  <2>1. Below(x) \in SUBSET S /\ x \notin Below(x)
    OBVIOUS
  <2>2. Cardinality(Below(x)) <= m /\ Cardinality(Below(x)) # m /\ IsFiniteSet(Below(x))
    BY <2>1, FS_Subset
  <2>3. Cardinality(Below(x)) \in Nat
    BY <2>2, FS_CardinalityType
  <2> QED BY <1>1, <2>2, <2>3
<1>r. \A x \in S : RankIn(S, d, x) = Cardinality(Below(x))
  BY DEF RankIn
<1> HIDE DEF m, Below
<1>3. \A x \in S : RankIn(S, d, x) \in 0..(m - 1)
  BY <1>1, <1>2, <1>r
<1>4. ASSUME NEW x \in S, NEW y \in S, d[x] < d[y]
      PROVE  RankIn(S, d, x) < RankIn(S, d, y)
  <2>1. Below(x) \in SUBSET Below(y) /\ x \in Below(y) /\ x \notin Below(x)
    BY <1>4 DEF Below
  <2>2. Cardinality(Below(x)) <= Cardinality(Below(y)) /\ Cardinality(Below(x)) # Cardinality(Below(y))
    BY <1>2, <2>1, FS_Subset
  <2> QED BY <1>2, <1>r, <2>2
<1>5. \A x, y \in S : d[x] < d[y] <=> RankIn(S, d, x) < RankIn(S, d, y)
  BY <1>3, <1>4
<1>6. \A x, y \in S : RankIn(S, d, x) = RankIn(S, d, y) => x = y
  <2> SUFFICES ASSUME NEW x \in S, NEW y \in S, RankIn(S, d, x) = RankIn(S, d, y) PROVE x = y
    OBVIOUS
  <2>1. ~(d[x] < d[y]) /\ ~(d[y] < d[x])
    BY <1>3, <1>4
  <2> QED BY <2>1
<1>7. f \in Injection(S, 0..(m - 1))
  <2>1. f \in [S -> 0..(m - 1)] /\ \A x, y \in S : f[x] = f[y] => x = y
    BY <1>3, <1>6
  <2> HIDE DEF f
  <2> QED BY <2>1, Fun_IsInj
<1>8. IsFiniteSet(0..(m - 1)) /\ Cardinality(0..(m - 1)) = m
  BY <1>1, FS_Interval
<1>9. f \in Surjection(S, 0..(m - 1))
  <2> HIDE DEF f
  <2> QED BY <1>7, <1>8, FS_Injection DEF m
<1>10. \A i \in 0..(m - 1) : \E x \in S : f[x] = i
  <2> HIDE DEF f
  <2> QED BY <1>9 DEF Surjection
<1> QED BY <1>1, <1>3, <1>5, <1>6, <1>10 DEF m

(* Peers are ranked by their distances. *)
LEMMA PeerRanks ==
  ASSUME NEW S \in SUBSET Peers
  PROVE  /\ Cardinality(S) \in Nat
         /\ \A p \in S : Nearer(S, p) \in 0..(Cardinality(S) - 1)
         /\ \A p, r \in S : Dist[p] < Dist[r] <=> Nearer(S, p) < Nearer(S, r)
         /\ \A p, r \in S : Nearer(S, p) = Nearer(S, r) => p = r
         /\ \A i \in 0..(Cardinality(S) - 1) : \E p \in S : Nearer(S, p) = i
<1>1. IsFiniteSet(S) /\ (\A p \in S : Dist[p] \in Nat) /\ \A p, r \in S : Dist[p] = Dist[r] => p = r
  BY PeerSetFinite, DistAssumption
<1>2. \A p \in S : Nearer(S, p) = RankIn(S, Dist, p)
  BY DEF Nearer, RankIn
<1> QED BY <1>1, <1>2, Ranks

(* ClosestInStates returns at most n peers. *)
LEMMA ClosestBound ==
  ASSUME NEW S \in SUBSET Peers, NEW n \in Nat
  PROVE  /\ Closest(S, n) \in SUBSET S
         /\ Cardinality(Closest(S, n)) <= n
<1> DEFINE C == Closest(S, n)
           f == [p \in C |-> Nearer(S, p)]
<1>1. C \in SUBSET S
  BY DEF Closest
<1>2. \A p \in C : Nearer(S, p) \in 0..(n-1)
  <2> SUFFICES ASSUME NEW p \in C PROVE Nearer(S, p) \in 0..(n-1)
    OBVIOUS
  <2>1. p \in S /\ Nearer(S, p) < n
    BY DEF Closest
  <2>2. Cardinality(S) \in Nat /\ Nearer(S, p) \in 0..(Cardinality(S) - 1)
    BY <2>1, PeerRanks
  <2> QED BY <2>1, <2>2
<1>3. \A p, r \in C : f[p] = f[r] => p = r
  BY <1>1, PeerRanks
<1>4. f \in Injection(C, 0..(n-1))
  <2>1. f \in [C -> 0..(n-1)]
    BY <1>2
  <2> HIDE DEF f
  <2> QED BY <2>1, <1>3, Fun_IsInj
<1>5. IsFiniteSet(0..(n-1)) /\ Cardinality(0..(n-1)) = n
  BY FS_Interval
<1>6. Cardinality(C) <= Cardinality(0..(n-1))
  <2> HIDE DEF f, C
  <2> QED BY <1>4, <1>5, FS_Injection
<1> QED BY <1>1, <1>5, <1>6

(* When there is a peer to choose and room for one, one is chosen. *)
LEMMA ClosestNonEmpty ==
  ASSUME NEW S \in SUBSET Peers, S # {}, NEW n \in Nat, n > 0
  PROVE  Closest(S, n) # {}
<1>1. Cardinality(S) \in Nat /\ Cardinality(S) > 0
  BY PeerSetFinite, FS_EmptySet
<1>2. PICK p \in S : Nearer(S, p) = 0
  BY <1>1, PeerRanks
<1> QED BY <1>2 DEF Closest

-----------------------------------------------------------------------------
(* Types *)

(* What a lookup hands on has its type. *)
LEMMA UpdateTypes ==
  /\ \A p \in Peers : Failure(p) \in Update
  /\ \A p \in Peers, h \in SUBSET Peers : Answer(p, h) \in Update
  /\ \A h \in SUBSET Peers : Seed(h) \in Update
  /\ \A s, S, n : Closest(S, n) \subseteq S /\ ClosestInStates(s, n, S) \subseteq Peers
  BY DEF Failure, Answer, Seed, Update, Closest, ClosestInStates, InStates

(* One round of the loop of run keeps the types. *)
LEMMA LoopTailType ==
  ASSUME TypeOK, NEW s \in [Peers -> PeerState],
         NEW r \in {"none", "cancelled"}, pc = "run", LoopTail(s, r)
  PROVE  /\ pc' \in {"run", "wait", "panic"}
         /\ ps' \in [Peers -> PeerState]
         /\ worker' \in [Peers -> {"none", "exited"} \cup Active]
         /\ reason' \in {"none", "stopped", "starvation", "completed", "cancelled"}
<1>1. reason' \in {"none", "stopped", "starvation", "completed", "cancelled"}
  BY DEF LoopTail, isReadyToTerminate
<1>2. CASE ps' = s /\ UNCHANGED worker /\ pc' = "wait"
  BY <1>1, <1>2 DEF TypeOK
<1>3. CASE /\ spawnQuery(s, ClosestInStates(s, maxNumQueriesToSpawn(s), {"heard"}))
           /\ pc' = IF maxNumQueriesToSpawn(s) < 0 THEN "panic" ELSE pc
  BY <1>1, <1>3 DEF spawnQuery, TypeOK, PeerState, Active
<1> QED BY <1>2, <1>3 DEF LoopTail

(* The initial states have their types. *)
LEMMA TypeInit == Init => TypeOK
<1> SUFFICES ASSUME Init PROVE TypeOK
  OBVIOUS
<1>1. report \in [Peers -> Update]
  BY UpdateTypes DEF Init
<1>2. res \in Result
  BY DEF Init, Result
<1>3. ch \in Seq(Update)
  BY DEF Init
<1>4. /\ ps \in [Peers -> PeerState]
      /\ worker \in [Peers -> {"none", "exited"} \cup Active]
      /\ follow \in [Peers -> {"none", "running", "sent", "received"}]
  BY DEF Init, PeerState
<1> QED BY <1>1, <1>2, <1>3, <1>4 DEF Init, TypeOK

(* Every step keeps the types. *)
LEMMA TypeStep == TypeOK /\ [Next]_vars => TypeOK'
<1> SUFFICES ASSUME TypeOK, [Next]_vars PROVE TypeOK'
  OBVIOUS
<1>1. CASE Start
  <2>1. Closest(rt, K) \in SUBSET Peers
    BY UpdateTypes DEF TypeOK
  <2>2. <<Seed(Closest(rt, K))>> \in Seq(Update)
    BY <2>1, UpdateTypes
  <2> QED BY <1>1, <2>2 DEF Start, TypeOK, Final
<1>2. CASE Receive
  <2>1. Head(ch) \in Update /\ Tail(ch) \in Seq(Update)
    BY <1>2 DEF Receive, TypeOK
  <2>2. updateState(ps, Head(ch)) \in [Peers -> PeerState]
    BY DEF updateState, AddHeard, TypeOK, PeerState
  <2>3. CASE UpdatePanics(ps, Head(ch))
    BY <1>2, <2>1, <2>3 DEF Receive, TypeOK, Final
  <2>4. CASE ~UpdatePanics(ps, Head(ch))
    <3>1. LoopTail(updateState(ps, Head(ch)), "none") /\ pc = "run"
      BY <1>2, <2>4 DEF Receive
    <3>2. /\ pc' \in {"run", "wait", "panic"}
          /\ ps' \in [Peers -> PeerState]
          /\ worker' \in [Peers -> {"none", "exited"} \cup Active]
          /\ reason' \in {"none", "stopped", "starvation", "completed", "cancelled"}
      BY <2>2, <3>1, LoopTailType
    <3> QED BY <1>2, <2>1, <3>2 DEF Receive, TypeOK, Final
  <2> QED BY <2>3, <2>4
<1>3. CASE PathDone
  <2>1. LoopTail(ps, "cancelled") /\ pc = "run"
    BY <1>3 DEF PathDone
  <2>2. /\ pc' \in {"run", "wait", "panic"}
        /\ ps' \in [Peers -> PeerState]
        /\ worker' \in [Peers -> {"none", "exited"} \cup Active]
        /\ reason' \in {"none", "stopped", "starvation", "completed", "cancelled"}
    BY <2>1, LoopTailType DEF TypeOK
  <2> QED BY <1>3, <2>2 DEF PathDone, TypeOK, Final
<1>4. CASE FinishRun
  <2>1. constructLookupResult(ps) \in Result
    BY UpdateTypes DEF constructLookupResult, Result, isLookupTermination, isStarvationTermination
  <2>2. [constructLookupResult(ps) EXCEPT !.completed = FALSE] \in Result
    BY <2>1 DEF Result
  <2> HIDE DEF constructLookupResult
  <2> QED BY <1>4, <2>1, <2>2 DEF FinishRun, TypeOK, Final
<1>5. CASE FollowUpCancelled
  BY <1>5 DEF FollowUpCancelled, TypeOK, Result
<1>6. ASSUME NEW p \in Peers, QueryPeer(p) PROVE TypeOK'
  <2>1. CASE DialOk(p)
    BY <2>1 DEF DialOk, TypeOK, Active
  <2>2. CASE DialFail(p)
    BY <2>2, UpdateTypes DEF DialFail, TypeOK, Active
  <2>3. CASE QueryFail(p)
    BY <2>3, UpdateTypes DEF QueryFail, TypeOK, Active
  <2>4. CASE QueryOk(p)
    <3>1. PICK newPeers \in SUBSET (Peers \cup {Self}) :
            report' = [report EXCEPT ![p] = Answer(p, (newPeers \ {Self}) \cap Accepted)]
      BY <2>4 DEF QueryOk
    <3>2. Answer(p, (newPeers \ {Self}) \cap Accepted) \in Update
      BY UpdateTypes, ParamAssumption
    <3> HIDE DEF Answer
    <3> QED BY <2>4, <3>1, <3>2 DEF QueryOk, TypeOK, Active
  <2>5. CASE Send(p)
    <3>1. report[p] \in Update
      BY DEF TypeOK
    <3>2. Append(ch, report[p]) \in Seq(Update)
      BY <3>1 DEF TypeOK
    <3> QED BY <2>5, <3>2, UpdateTypes DEF Send, TypeOK, Active
  <2> QED BY <1>6, <2>1, <2>2, <2>3, <2>4, <2>5 DEF QueryPeer
<1>7. ASSUME NEW p \in Peers, FollowUpDone(p) \/ FollowUp(p) PROVE TypeOK'
  <2>1. CASE FollowUpDone(p)
    BY <2>1 DEF FollowUpDone, TypeOK
  <2>2. CASE FollowUpReceive(p)
    BY <2>2 DEF FollowUpReceive, TypeOK, Result, Final
  <2>3. CASE Drain(p)
    BY <2>3 DEF Drain, TypeOK, Final
  <2> QED BY <1>7, <2>1, <2>2, <2>3 DEF FollowUp
<1>8. CASE CancelContext \/ StopChanges
  BY <1>8 DEF CancelContext, StopChanges, TypeOK
<1>9. CASE UNCHANGED vars
  BY <1>9 DEF vars, TypeOK
<1> QED BY <1>1, <1>2, <1>3, <1>4, <1>5, <1>6, <1>7, <1>8, <1>9 DEF Next, Run

(* The type invariant: whatever the routing table, the responses and the
   caller do, the variables keep their types. *)
THEOREM TypeCorrect == Spec => []TypeOK
  BY TypeInit, TypeStep, PTL DEF Spec

-----------------------------------------------------------------------------
(* The inductive invariant *)

(* An update is about the peer that caused it, the seed update about none. *)
AboutCause(u) ==
  u.queried \cup u.unreachable = IF u.cause = Self THEN {} ELSE {u.cause}

UpdateShape ==
  /\ \A p \in Peers : report[p].cause = p /\ AboutCause(report[p])
  /\ \A i \in 1..Len(ch) : AboutCause(ch[i])

(* Before the loop nothing is known; in the loop something is to come. *)
LoopShape ==
  /\ pc \in {"start", "failed"} => ch = << >> /\ \A p \in Peers : ps[p] = "absent"
  /\ pc = "run" => ch # << >> \/ \E p \in Peers : ps[p] = "waiting"

IInv == TypeOK /\ WaitingAccounted /\ UpdateShape /\ LoopShape /\ NoPanic

(* Starting the closest heard peers, as many as the bound leaves room for,
   keeps the accounts and the bound. *)
LEMMA SpawnAccounted ==
  ASSUME NEW s \in [Peers -> PeerState],
         NEW w \in [Peers -> {"none", "exited"} \cup Active],
         NEW c \in Seq(Update), Accounted(s, w, c),
         \A i \in 1..Len(c) : c[i].cause # Self,
         NEW Q, Q = ClosestInStates(s, maxNumQueriesToSpawn(s), {"heard"})
  PROVE  /\ maxNumQueriesToSpawn(s) \in Nat
         /\ Accounted([p \in Peers |-> IF p \in Q THEN "waiting" ELSE s[p]],
                      [p \in Peers |-> IF p \in Q THEN "dialing" ELSE w[p]], c)
<1> DEFINE s2 == [p \in Peers |-> IF p \in Q THEN "waiting" ELSE s[p]]
           w2 == [p \in Peers |-> IF p \in Q THEN "dialing" ELSE w[p]]
           W == InStates(s, {"waiting"})
           H == InStates(s, {"heard"})
           n == maxNumQueriesToSpawn(s)
<1>1. W \in SUBSET Peers /\ H \in SUBSET Peers
  BY DEF InStates
<1>2. n \in Nat
  <2>1. Cardinality(W) \in Nat
    BY <1>1, PeerSetFinite
  <2> QED BY <2>1, ParamAssumption DEF Accounted, NumWaiting, maxNumQueriesToSpawn
<1>3. Q \in SUBSET H /\ Cardinality(Q) <= n
  BY <1>1, <1>2, ClosestBound DEF ClosestInStates
<1>4. \A p \in Q : s[p] = "heard" /\ w[p] = "none"
  BY <1>3 DEF InStates, Accounted, WorkersWait
<1>5. WorkersWait(s2, w2)
  BY <1>4 DEF Accounted, WorkersWait, Active
<1>6. WaitersServed(s2, w2, c)
  BY <1>4 DEF Accounted, WaitersServed, Active
<1>7. UpdatesAwaited(s2, w2, c)
  <2> SUFFICES ASSUME NEW i \in 1..Len(c)
               PROVE  /\ s2[c[i].cause] = "waiting" /\ w2[c[i].cause] = "exited"
                      /\ \A j \in 1..Len(c) : c[i].cause = c[j].cause => i = j
    BY DEF UpdatesAwaited
  <2>1. c[i].cause \in Peers
    <3>1. c[i] \in Update
      OBVIOUS
    <3> QED BY <3>1 DEF Update
  <2>2. s[c[i].cause] = "waiting" /\ w[c[i].cause] = "exited"
    BY DEF Accounted, UpdatesAwaited
  <2>3. \A j \in 1..Len(c) : c[i].cause = c[j].cause => i = j
    BY DEF Accounted, UpdatesAwaited
  <2> QED BY <2>1, <2>2, <2>3, <1>4
<1>8. NumWaiting(s2) <= Alpha
  <2>1. InStates(s2, {"waiting"}) = W \cup Q
    BY <1>1, <1>3 DEF InStates
  <2>2. Q \in SUBSET Peers
    BY <1>1, <1>3
  <2>3. Cardinality(W \cup Q) = Cardinality(W) + Cardinality(Q) - Cardinality(W \cap Q)
    BY <1>1, <2>2, PeerSetFinite, FS_Union
  <2>4. /\ Cardinality(W) \in Nat /\ Cardinality(Q) \in Nat
        /\ Cardinality(W \cap Q) \in Nat
    <3>1. W \cap Q \in SUBSET Peers
      BY <1>1
    <3> QED BY <1>1, <2>2, <3>1, PeerSetFinite
  <2>5. n = Alpha - Cardinality(W)
    BY DEF maxNumQueriesToSpawn, NumWaiting
  <2>6. NumWaiting(s2) = Cardinality(W \cup Q)
    BY <2>1 DEF NumWaiting
  <2> HIDE DEF s2, W, n
  <2> QED BY <2>3, <2>4, <2>5, <2>6, <1>3, ParamAssumption
<1> QED BY <1>2, <1>5, <1>6, <1>7, <1>8 DEF Accounted

(* Taking an update off the queue: updateState does not panic, and the
   accounts are kept. *)
LEMMA UpdateAccounted ==
  ASSUME NEW s \in [Peers -> PeerState],
         NEW w \in [Peers -> {"none", "exited"} \cup Active],
         NEW c \in Seq(Update), Accounted(s, w, c), c # << >>,
         AboutCause(Head(c))
  PROVE  /\ ~UpdatePanics(s, Head(c))
         /\ Accounted(updateState(s, Head(c)), w, Tail(c))
         /\ \A i \in 1..Len(Tail(c)) : Tail(c)[i].cause # Self
<1> DEFINE u == Head(c)
           t == Tail(c)
           s2 == updateState(s, u)
<1>1. /\ u = c[1] /\ 1 \in 1..Len(c) /\ u \in Update
      /\ t \in Seq(Update) /\ Len(t) = Len(c) - 1
      /\ \A i \in 1..Len(t) : t[i] = c[i+1] /\ i+1 \in 1..Len(c)
  OBVIOUS
<1> HIDE DEF u, t, s2
<1>2. \A i \in 1..Len(t) : t[i].cause # u.cause
  BY <1>1 DEF Accounted, UpdatesAwaited
<1>3. CASE u.cause = Self
  <2>1. \A p \in Peers : s[p] = "absent" /\ w[p] = "none"
    BY <1>1, <1>3 DEF Accounted, UpdatesAwaited, WorkersWait
  <2>2. u.queried = {} /\ u.unreachable = {}
    BY <1>3 DEF AboutCause, u
  <2>3. \A p \in Peers : s2[p] \in {"absent", "heard"}
    BY <2>1, <2>2 DEF updateState, AddHeard, s2
  <2>4. Len(t) = 0
    <3> SUFFICES ASSUME NEW i \in 1..Len(t) PROVE FALSE
      BY <1>1
    <3>1. t[i].cause # Self /\ t[i] \in Update
      BY <1>1, <1>2, <1>3
    <3>2. t[i].cause \in Peers
      BY <3>1 DEF Update
    <3>3. s[t[i].cause] = "waiting"
      BY <1>1, <3>1 DEF Accounted, UpdatesAwaited
    <3> QED BY <2>1, <3>2, <3>3
  <2>5. InStates(s2, {"waiting"}) = {}
    BY <2>3 DEF InStates
  <2>6. NumWaiting(s2) <= Alpha
    <3>1. NumWaiting(s2) = 0
      BY <2>5, FS_EmptySet DEF NumWaiting
    <3> QED BY <3>1, ParamAssumption
  <2>7. WorkersWait(s2, w) /\ WaitersServed(s2, w, t) /\ UpdatesAwaited(s2, w, t)
    BY <2>1, <2>3, <2>4 DEF WorkersWait, WaitersServed, UpdatesAwaited, Active
  <2>8. ~UpdatePanics(s, u)
    BY <2>2 DEF UpdatePanics
  <2>9. \A i \in 1..Len(t) : t[i].cause # Self
    BY <1>2, <1>3
  <2> QED BY <2>6, <2>7, <2>8, <2>9 DEF Accounted, u, t, s2
<1>4. CASE u.cause # Self
  <2> DEFINE p == u.cause
  <2>1. p \in Peers /\ s[p] = "waiting" /\ w[p] = "exited"
    BY <1>1, <1>4 DEF Accounted, UpdatesAwaited, Update
  <2>2. u.queried \cup u.unreachable = {p}
    BY <1>4 DEF AboutCause, u
  <2>3. s2[p] \in {"queried", "unreachable"}
    BY <2>1, <2>2 DEF updateState, s2
  <2>4. \A q \in Peers : q # p =>
          s2[q] = s[q] \/ (s[q] = "absent" /\ s2[q] = "heard")
    BY <2>2 DEF updateState, AddHeard, s2
  <2>5. \A i \in 1..Len(t) : t[i].cause # Self
    BY <1>1, <2>1 DEF Accounted, UpdatesAwaited
  <2>6. WorkersWait(s2, w)
    BY <2>1, <2>3, <2>4 DEF Accounted, WorkersWait, Active
  <2>7. WaitersServed(s2, w, t)
    <3> SUFFICES ASSUME NEW q \in Peers, s2[q] = "waiting", w[q] \notin Active
                 PROVE  \E i \in 1..Len(t) : t[i].cause = q
      BY DEF WaitersServed
    <3>1. q # p /\ s[q] = "waiting"
      BY <2>3, <2>4
    <3>2. PICK j \in 1..Len(c) : c[j].cause = q
      BY <3>1 DEF Accounted, WaitersServed
    <3>3. j # 1 /\ j - 1 \in 1..Len(t)
      BY <1>1, <3>1, <3>2
    <3>4. t[j-1] = c[j]
      BY <1>1, <3>3
    <3> QED BY <3>2, <3>3, <3>4
  <2>8. UpdatesAwaited(s2, w, t)
    <3> SUFFICES ASSUME NEW i \in 1..Len(t)
                 PROVE  /\ s2[t[i].cause] = "waiting" /\ w[t[i].cause] = "exited"
                        /\ \A j \in 1..Len(t) : t[i].cause = t[j].cause => i = j
      BY <2>5 DEF UpdatesAwaited
    <3>0. t[i] \in Update
      BY <1>1
    <3>1. t[i].cause \in Peers /\ t[i].cause # p
      BY <3>0, <1>2, <2>5 DEF Update
    <3>2. s[t[i].cause] = "waiting" /\ w[t[i].cause] = "exited"
      BY <1>1, <2>5 DEF Accounted, UpdatesAwaited
    <3>3. s2[t[i].cause] = "waiting"
      BY <3>1, <3>2, <2>4
    <3>4. \A j \in 1..Len(t) : t[i].cause = t[j].cause => i+1 = j+1
      BY <1>1 DEF Accounted, UpdatesAwaited
    <3> QED BY <3>2, <3>3, <3>4
  <2>9. NumWaiting(s2) <= Alpha
    <3>1. InStates(s2, {"waiting"}) \in SUBSET InStates(s, {"waiting"})
      BY <2>3, <2>4 DEF InStates
    <3>2. InStates(s, {"waiting"}) \in SUBSET Peers
      BY DEF InStates
    <3>3. NumWaiting(s2) <= NumWaiting(s) /\ NumWaiting(s2) \in Nat /\ NumWaiting(s) \in Nat
      BY <3>1, <3>2, PeerSetFinite, FS_Subset DEF NumWaiting
    <3> QED BY <3>3, ParamAssumption DEF Accounted
  <2>10. ~UpdatePanics(s, u)
    BY <2>1, <2>2 DEF UpdatePanics
  <2> QED BY <2>5, <2>6, <2>7, <2>8, <2>9, <2>10 DEF Accounted, u, t, s2
<1> QED BY <1>3, <1>4

(* One round of the loop from an accounted state: no panic, the accounts are
   kept, and a lookup that goes on has a peer it waits for. *)
LEMMA LoopTailAccounted ==
  ASSUME TypeOK, pc = "run",
         NEW s \in [Peers -> PeerState], NEW c \in Seq(Update),
         Accounted(s, worker, c), LoopTail(s, "none"),
         \A i \in 1..Len(c) : c[i].cause # Self
  PROVE  /\ Accounted(ps', worker', c)
         /\ pc' \in {"run", "wait"}
         /\ pc' = "run" => \E p \in Peers : ps'[p] = "waiting"
<1> DEFINE n == maxNumQueriesToSpawn(s)
           Q == ClosestInStates(s, n, {"heard"})
<1>1. worker \in [Peers -> {"none", "exited"} \cup Active]
  BY DEF TypeOK
<1>2. CASE ps' = s /\ UNCHANGED worker /\ pc' = "wait"
  BY <1>2
<1>3. CASE isReadyToTerminate(s) = "none" /\ spawnQuery(s, Q)
           /\ pc' = IF n < 0 THEN "panic" ELSE pc
  <2>1. /\ n \in Nat
        /\ Accounted([p \in Peers |-> IF p \in Q THEN "waiting" ELSE s[p]],
                     [p \in Peers |-> IF p \in Q THEN "dialing" ELSE worker[p]], c)
    <3> HIDE DEF Accounted
    <3> QED BY <1>1, SpawnAccounted
  <2>2. Accounted(ps', worker', c)
    BY <1>3, <2>1 DEF spawnQuery
  <2>3. pc' = "run"
    BY <1>3, <2>1
  <2>4. \E p \in Peers : ps'[p] = "waiting"
    <3> DEFINE W == InStates(s, {"waiting"})
               H == InStates(s, {"heard"})
    <3>1. W \in SUBSET Peers /\ H \in SUBSET Peers
      BY DEF InStates
    <3>2. ~(NumHeard(s) = 0 /\ NumWaiting(s) = 0)
      BY <1>3 DEF isReadyToTerminate, isStarvationTermination
    <3>3. CASE W # {}
      <4>1. PICK p \in W : TRUE
        BY <3>3
      <4>2. ps'[p] = "waiting" /\ p \in Peers
        BY <1>3 DEF spawnQuery, InStates
      <4> QED BY <4>2
    <3>4. CASE W = {}
      <4>1. NumWaiting(s) = 0
        BY <3>4, FS_EmptySet DEF NumWaiting
      <4>2. H # {}
        BY <3>2, <4>1, FS_EmptySet DEF NumHeard
      <4>3. n = Alpha
        BY <4>1, ParamAssumption DEF maxNumQueriesToSpawn
      <4>4. Closest(H, n) # {}
        <5> HIDE DEF n, H
        <5> QED BY <3>1, <4>2, <4>3, ClosestNonEmpty, ParamAssumption
      <4>5. PICK p \in Q : TRUE
        BY <4>4 DEF ClosestInStates
      <4>6. p \in Peers
        BY <3>1 DEF ClosestInStates, Closest
      <4>7. ps'[p] = "waiting"
        BY <1>3, <4>5, <4>6 DEF spawnQuery
      <4> QED BY <4>6, <4>7
    <3> QED BY <3>3, <3>4
  <2> QED BY <2>2, <2>3, <2>4
<1> QED BY <1>2, <1>3 DEF LoopTail

(* A report goes from its goroutine to the queue. *)
LEMMA SendAccounted ==
  ASSUME IInv, NEW p \in Peers, Send(p)
  PROVE  WaitingAccounted' /\ UpdateShape'
<1> DEFINE u == report[p]
           w2 == [worker EXCEPT ![p] = "exited"]
           c2 == Append(ch, u)
<1>1. /\ ch \in Seq(Update) /\ u \in Update /\ u.cause = p /\ AboutCause(u)
      /\ ch' = c2 /\ worker' = w2 /\ ps' = ps
      /\ worker[p] = "sending" /\ ps[p] = "waiting"
      /\ worker \in [Peers -> {"none", "exited"} \cup Active]
  BY DEF IInv, TypeOK, Send, UpdateShape, WaitingAccounted, Accounted, WorkersWait, Active
<1>2. /\ Len(c2) = Len(ch) + 1 /\ c2[Len(ch) + 1] = u
      /\ \A i \in 1..Len(ch) : c2[i] = ch[i]
      /\ \A i \in 1..Len(c2) : i \in 1..Len(ch) \/ i = Len(ch) + 1
      /\ \A i \in 1..Len(ch) : i \in 1..Len(c2)
      /\ Len(ch) + 1 \in 1..Len(c2)
  BY <1>1
<1>3. Accounted(ps, worker, ch)
  BY DEF IInv, WaitingAccounted
<1> HIDE DEF c2, u
<1>4. \A i \in 1..Len(ch) : ch[i].cause # Self /\ ch[i].cause # p
  BY <1>1, <1>3 DEF Accounted, UpdatesAwaited
<1>5. WorkersWait(ps, w2)
  BY <1>1, <1>3 DEF Accounted, WorkersWait, Active
<1>6. WaitersServed(ps, w2, c2)
  <2> SUFFICES ASSUME NEW q \in Peers, ps[q] = "waiting", w2[q] \notin Active
               PROVE  \E i \in 1..Len(c2) : c2[i].cause = q
    BY DEF WaitersServed
  <2>1. CASE q = p
    BY <2>1, <1>1, <1>2
  <2>2. CASE q # p
    <3>1. PICK i \in 1..Len(ch) : ch[i].cause = q
      BY <1>1, <1>3, <2>2 DEF Accounted, WaitersServed
    <3> QED BY <3>1, <1>2
  <2> QED BY <2>1, <2>2
<1>7. UpdatesAwaited(ps, w2, c2)
  <2> SUFFICES ASSUME NEW i \in 1..Len(c2)
               PROVE  /\ c2[i].cause # Self
                      /\ ps[c2[i].cause] = "waiting" /\ w2[c2[i].cause] = "exited"
                      /\ \A j \in 1..Len(c2) : c2[i].cause = c2[j].cause => i = j
    BY DEF UpdatesAwaited
  <2>1. CASE i = Len(ch) + 1
    <3>1. c2[i].cause = p /\ p # Self
      BY <2>1, <1>1, <1>2, PeersAssumption
    <3>2. \A j \in 1..Len(c2) : c2[j].cause = p => j = i
      BY <2>1, <1>2, <1>4
    <3> QED BY <3>1, <3>2, <1>1
  <2>2. CASE i \in 1..Len(ch)
    <3>1. c2[i] = ch[i] /\ ch[i].cause # Self /\ ch[i].cause # p
      BY <2>2, <1>2, <1>4
    <3>2. ps[ch[i].cause] = "waiting" /\ worker[ch[i].cause] = "exited"
      BY <2>2, <3>1, <1>3 DEF Accounted, UpdatesAwaited
    <3>3. \A j \in 1..Len(ch) : ch[i].cause = ch[j].cause => i = j
      BY <2>2, <1>3 DEF Accounted, UpdatesAwaited
    <3>4. w2[ch[i].cause] = "exited"
      BY <3>1, <3>2
    <3>5. \A j \in 1..Len(c2) : c2[i].cause = c2[j].cause => i = j
      BY <3>1, <3>3, <1>1, <1>2
    <3> QED BY <3>1, <3>2, <3>4, <3>5
  <2> QED BY <2>1, <2>2, <1>2
<1>8. WaitingAccounted'
  BY <1>1, <1>3, <1>5, <1>6, <1>7 DEF WaitingAccounted, Accounted
<1>9. UpdateShape'
  <2>1. \A i \in 1..Len(c2) : AboutCause(c2[i])
    BY <1>1, <1>2 DEF IInv, UpdateShape
  <2>2. Failure(p).cause = p /\ AboutCause(Failure(p))
    BY PeersAssumption DEF Failure, AboutCause
  <2>3. report' = [report EXCEPT ![p] = Failure(p)] /\ report \in [Peers -> Update]
    BY DEF Send, IInv, TypeOK
  <2>4. \A q \in Peers : report'[q].cause = q /\ AboutCause(report'[q])
    BY <2>2, <2>3 DEF IInv, UpdateShape
  <2> QED BY <2>1, <2>4, <1>1 DEF UpdateShape
<1> QED BY <1>8, <1>9

(* A goroutine that goes on to its next step stays accounted for. *)
LEMMA WorkerStepAccounted ==
  ASSUME IInv, NEW p \in Peers, worker[p] \in Active,
         NEW a \in Active, worker' = [worker EXCEPT ![p] = a],
         UNCHANGED <<pc, ps, ch>>
  PROVE  WaitingAccounted' /\ LoopShape' /\ NoPanic'
<1>1. Accounted(ps, worker, ch) /\ worker \in [Peers -> {"none", "exited"} \cup Active]
  BY DEF IInv, WaitingAccounted, TypeOK
<1>2. WorkersWait(ps, worker')
  BY <1>1 DEF Accounted, WorkersWait, Active
<1>3. WaitersServed(ps, worker', ch)
  BY <1>1 DEF Accounted, WaitersServed
<1>4. UpdatesAwaited(ps, worker', ch)
  <2>1. \A i \in 1..Len(ch) : ch[i].cause # Self => ch[i].cause # p
    BY <1>1 DEF Accounted, UpdatesAwaited, Active
  <2>2. \A i \in 1..Len(ch) : ch[i].cause # Self => ch[i].cause \in Peers
    <3> SUFFICES ASSUME NEW i \in 1..Len(ch), ch[i].cause # Self
                 PROVE  ch[i].cause \in Peers
      OBVIOUS
    <3>1. ch[i] \in Update
      BY DEF IInv, TypeOK
    <3> QED BY <3>1 DEF Update
  <2> QED BY <1>1, <2>1, <2>2 DEF Accounted, UpdatesAwaited
<1>5. WaitingAccounted'
  BY <1>1, <1>2, <1>3, <1>4 DEF WaitingAccounted, Accounted
<1>6. LoopShape' /\ NoPanic'
  BY DEF IInv, LoopShape, NoPanic
<1> QED BY <1>5, <1>6

(* A goroutine prepares a report about its own peer. *)
LEMMA ReportShape ==
  ASSUME IInv, NEW p \in Peers, NEW h, NEW u \in {Failure(p), Answer(p, h)},
         report' = [report EXCEPT ![p] = u], UNCHANGED ch
  PROVE  UpdateShape'
<1>1. u.cause = p /\ AboutCause(u)
  BY PeersAssumption DEF Failure, Answer, AboutCause
<1> HIDE DEF Failure, Answer
<1>2. report \in [Peers -> Update]
  BY DEF IInv, TypeOK
<1> QED BY <1>1, <1>2 DEF IInv, UpdateShape

(* A step that leaves the lookup and its goroutines alone. *)
LEMMA OutsideLoop ==
  ASSUME IInv, UNCHANGED <<ps, ch, worker, report>>,
         pc' = pc \/ pc' \in {"wait", "followup", "drain", "returned"}
  PROVE  WaitingAccounted' /\ UpdateShape' /\ LoopShape' /\ NoPanic'
  BY DEF IInv, WaitingAccounted, UpdateShape, LoopShape, NoPanic

(* The accounts of the query engine hold in every reachable state. *)
THEOREM Invariance == Spec => []IInv
<1>1. Init => IInv
  <2> SUFFICES ASSUME Init, TypeOK PROVE IInv
    BY TypeInit
  <2>1. WaitingAccounted
    <3>1. \A p \in Peers : ps[p] = "absent" /\ worker[p] = "none"
      BY DEF Init
    <3>2. Len(ch) = 0
      BY DEF Init
    <3>3. InStates(ps, {"waiting"}) = {}
      BY <3>1 DEF InStates
    <3>4. NumWaiting(ps) = 0
      BY <3>3, FS_EmptySet DEF NumWaiting
    <3>5. NumWaiting(ps) <= Alpha
      BY <3>4, ParamAssumption
    <3> QED BY <3>1, <3>2, <3>5
            DEF WaitingAccounted, Accounted, WorkersWait, WaitersServed, UpdatesAwaited, Active
  <2>2. UpdateShape
    <3>1. \A p \in Peers : Failure(p).cause = p /\ AboutCause(Failure(p))
      BY PeersAssumption DEF Failure, AboutCause
    <3> QED BY <3>1 DEF Init, UpdateShape
  <2> QED BY <2>1, <2>2 DEF IInv, Init, LoopShape, NoPanic
<1>2. IInv /\ [Next]_vars => IInv'
  <2> SUFFICES ASSUME IInv, [Next]_vars
               PROVE  WaitingAccounted' /\ UpdateShape' /\ LoopShape' /\ NoPanic'
    BY TypeStep DEF IInv
  <2>0. TypeOK
    BY DEF IInv
  <2>1. CASE Start
    <3>1. CASE pc' = "failed" /\ UNCHANGED ch
      BY <2>1, <3>1 DEF Start, IInv, WaitingAccounted, UpdateShape, LoopShape, NoPanic
    <3>2. CASE pc' = "run" /\ ch' = <<Seed(Closest(rt, K))>>
      <4>1. /\ Len(ch') = 1 /\ ch'[1].cause = Self /\ AboutCause(ch'[1])
            /\ \A j \in 1..Len(ch') : j = 1
        BY <3>2 DEF Seed, AboutCause
      <4>2. \A p \in Peers : ps[p] = "absent"
        BY <2>1 DEF Start, IInv, LoopShape
      <4>3. UNCHANGED <<ps, worker, report>>
        BY <2>1 DEF Start
      <4>4. UpdatesAwaited(ps, worker, ch')
        BY <4>1, <4>2 DEF UpdatesAwaited
      <4>5. WaitersServed(ps, worker, ch')
        BY <4>2 DEF WaitersServed
      <4>6. WaitingAccounted'
        BY <4>3, <4>4, <4>5 DEF IInv, WaitingAccounted, Accounted
      <4>7. UpdateShape'
        BY <4>1, <4>3 DEF IInv, UpdateShape
      <4> QED BY <3>2, <4>6, <4>7 DEF LoopShape, NoPanic
    <3> QED BY <2>1, <3>1, <3>2 DEF Start
  <2>2. CASE Receive
    <3> DEFINE s == updateState(ps, Head(ch))
               t == Tail(ch)
    <3>1. /\ ps \in [Peers -> PeerState]
          /\ worker \in [Peers -> {"none", "exited"} \cup Active]
          /\ ch \in Seq(Update) /\ ch # << >> /\ pc = "run"
          /\ ch' = t /\ UNCHANGED report
      BY <2>2, <2>0 DEF Receive, TypeOK
    <3>2. AboutCause(Head(ch))
      <4>1. Head(ch) = ch[1] /\ 1 \in 1..Len(ch)
        BY <3>1
      <4> QED BY <4>1 DEF IInv, UpdateShape
    <3>3. /\ ~UpdatePanics(ps, Head(ch))
          /\ Accounted(s, worker, t)
          /\ \A i \in 1..Len(t) : t[i].cause # Self
      <4>1. Accounted(ps, worker, ch)
        BY DEF IInv, WaitingAccounted
      <4> HIDE DEF Accounted
      <4> QED BY <3>1, <3>2, <4>1, UpdateAccounted
    <3>4. LoopTail(s, "none")
      BY <2>2, <3>3 DEF Receive
    <3>5. s \in [Peers -> PeerState] /\ t \in Seq(Update)
      BY <3>1 DEF updateState, AddHeard, PeerState
    <3>6. /\ Accounted(ps', worker', t)
          /\ pc' \in {"run", "wait"}
          /\ pc' = "run" => \E p \in Peers : ps'[p] = "waiting"
      <4> HIDE DEF s, t
      <4> QED BY <2>0, <3>1, <3>3, <3>4, <3>5, LoopTailAccounted
    <3>7. WaitingAccounted'
      BY <3>1, <3>6 DEF WaitingAccounted
    <3>8. UpdateShape'
      <4>1. \A i \in 1..Len(t) : t[i] = ch[i+1] /\ i+1 \in 1..Len(ch)
        BY <3>1
      <4> QED BY <3>1, <4>1 DEF IInv, UpdateShape
    <3> QED BY <3>6, <3>7, <3>8 DEF LoopShape, NoPanic
  <2>3. CASE PathDone
    <3>1. UNCHANGED <<ps, ch, worker, report>> /\ pc' = "wait"
      BY <2>3 DEF PathDone, LoopTail
    <3> QED BY <3>1, OutsideLoop
  <2>4. CASE FinishRun
    BY <2>4, OutsideLoop DEF FinishRun
  <2>5. CASE FollowUpCancelled
    BY <2>5, OutsideLoop DEF FollowUpCancelled
  <2>6. ASSUME NEW p \in Peers, QueryPeer(p)
        PROVE  WaitingAccounted' /\ UpdateShape' /\ LoopShape' /\ NoPanic'
    <3>1. CASE DialOk(p)
      <4>1. WaitingAccounted' /\ LoopShape' /\ NoPanic'
        BY <3>1, WorkerStepAccounted DEF DialOk, Active
      <4>2. UpdateShape'
        BY <3>1 DEF DialOk, IInv, UpdateShape
      <4> QED BY <4>1, <4>2
    <3>2. CASE DialFail(p) \/ QueryFail(p)
      <4>1. WaitingAccounted' /\ LoopShape' /\ NoPanic'
        BY <3>2, WorkerStepAccounted DEF DialFail, QueryFail, Active
      <4>2. UpdateShape'
        BY <3>2, ReportShape DEF DialFail, QueryFail
      <4> QED BY <4>1, <4>2
    <3>3. CASE QueryOk(p)
      <4>1. WaitingAccounted' /\ LoopShape' /\ NoPanic'
        BY <3>3, WorkerStepAccounted DEF QueryOk, Active
      <4>2. UpdateShape'
        BY <3>3, ReportShape DEF QueryOk
      <4> QED BY <4>1, <4>2
    <3>4. CASE Send(p)
      <4>1. WaitingAccounted' /\ UpdateShape'
        BY <3>4, SendAccounted
      <4>2. UNCHANGED <<pc, ps>> /\ ch' = Append(ch, report[p]) /\ ch \in Seq(Update)
        BY <3>4, <2>0 DEF Send, TypeOK
      <4>3. ch' # << >>
        BY <4>2
      <4>4. pc \notin {"start", "failed"}
        BY <3>4 DEF IInv, LoopShape, WaitingAccounted, Accounted, WorkersWait, Send
      <4>5. LoopShape' /\ NoPanic'
        BY <4>2, <4>3, <4>4 DEF IInv, LoopShape, NoPanic
      <4> QED BY <4>1, <4>5
    <3> QED BY <2>6, <3>1, <3>2, <3>3, <3>4 DEF QueryPeer
  <2>7. ASSUME NEW p \in Peers, FollowUpDone(p) \/ FollowUp(p)
        PROVE  WaitingAccounted' /\ UpdateShape' /\ LoopShape' /\ NoPanic'
    BY <2>7, OutsideLoop DEF FollowUpDone, FollowUp, FollowUpReceive, Drain
  <2>8. CASE CancelContext \/ StopChanges
    BY <2>8, OutsideLoop DEF CancelContext, StopChanges
  <2>9. CASE UNCHANGED vars
    BY <2>9, OutsideLoop DEF vars
  <2> QED BY <2>1, <2>2, <2>3, <2>4, <2>5, <2>6, <2>7, <2>8, <2>9 DEF Next, Run
<1> QED BY <1>1, <1>2, PTL DEF Spec

-----------------------------------------------------------------------------
(* What the accounts give *)

(* No lookup panics: every update concerns a waiting peer, and the number of
   queries to spawn is never negative. *)
THEOREM NeverPanics == Spec => []NoPanic
<1>1. IInv => NoPanic
  BY DEF IInv
<1> QED BY <1>1, Invariance, PTL

(* Every waiting peer is in flight or queued, and there are at most Alpha. *)
THEOREM WaitingIsAccounted == Spec => []WaitingAccounted
<1>1. IInv => WaitingAccounted
  BY DEF IInv
<1> QED BY <1>1, Invariance, PTL

(* The goroutines of a lookup never block on the channel, also when run no
   longer receives: the queued updates are from waiting peers other than the
   sender, and at most Alpha peers wait. *)
THEOREM ReportsNeverBlock == Spec => []ReportNeverBlocks
<1>1. IInv => ReportNeverBlocks
  <2> SUFFICES ASSUME IInv, NEW p \in Peers, worker[p] = "sending"
               PROVE  Len(ch) < Alpha
    BY DEF ReportNeverBlocks
  <2> DEFINE W == InStates(ps, {"waiting"})
             f == [i \in 1..Len(ch) |-> ch[i].cause]
  <2>1. ch \in Seq(Update) /\ Accounted(ps, worker, ch)
    BY DEF IInv, TypeOK, WaitingAccounted
  <2>2. W \in SUBSET Peers /\ p \in W
    BY <2>1 DEF InStates, Accounted, WorkersWait, Active
  <2>3. \A i \in 1..Len(ch) : f[i] \in W \ {p}
    <3> SUFFICES ASSUME NEW i \in 1..Len(ch) PROVE ch[i].cause \in W \ {p}
      OBVIOUS
    <3>1. ch[i] \in Update
      BY <2>1
    <3>2. ch[i].cause # Self
      BY <2>1, <2>2 DEF Accounted, UpdatesAwaited, InStates
    <3>3. ps[ch[i].cause] = "waiting" /\ worker[ch[i].cause] = "exited"
      BY <2>1, <3>2 DEF Accounted, UpdatesAwaited
    <3>4. ch[i].cause \in Peers
      BY <3>1, <3>2 DEF Update
    <3> QED BY <3>3, <3>4 DEF InStates
  <2>4. \A i, j \in 1..Len(ch) : f[i] = f[j] => i = j
    BY <2>1 DEF Accounted, UpdatesAwaited
  <2>5. f \in Injection(1..Len(ch), W \ {p})
    <3>1. f \in [1..Len(ch) -> W \ {p}]
      BY <2>3
    <3> HIDE DEF f, W
    <3> QED BY <2>4, <3>1, Fun_IsInj
  <2>6. IsFiniteSet(W) /\ Cardinality(W) \in Nat
    BY <2>2, PeerSetFinite
  <2>7. IsFiniteSet(W \ {p}) /\ Cardinality(W \ {p}) = Cardinality(W) - 1
    BY <2>2, <2>6, FS_RemoveElement
  <2>8. Cardinality(1..Len(ch)) <= Cardinality(W \ {p})
    <3> HIDE DEF f, W
    <3> QED BY <2>5, <2>7, FS_Injection
  <2>9. Len(ch) \in Nat /\ Cardinality(1..Len(ch)) = Len(ch)
    <3>1. Len(ch) \in Nat
      BY <2>1
    <3>2. \A n \in Nat : Cardinality(1..n) = n
      BY FS_Interval
    <3> QED BY <3>1, <3>2
  <2>10. Cardinality(W) <= Alpha
    BY <2>1 DEF Accounted, NumWaiting
  <2> HIDE DEF W
  <2> QED BY <2>6, <2>7, <2>8, <2>9, <2>10, ParamAssumption
<1> QED BY <1>1, Invariance, PTL

(* All of the above: the query engine keeps its accounts, for any number of peers
   and any alpha, beta and k. *)
THEOREM EngineSafe == Spec => []QueriesAccounted
  BY TypeCorrect, NeverPanics, WaitingIsAccounted, ReportsNeverBlock, PTL DEF QueriesAccounted

(* The select of run never waits for something that cannot come. *)
THEOREM NeverStuck == Spec => []LookupNotStuck
<1>1. IInv => LookupNotStuck
  <2> SUFFICES ASSUME IInv, pc = "run", ch = << >>
               PROVE  \E p \in Peers : worker[p] \in Active
    BY DEF LookupNotStuck
  <2>1. PICK p \in Peers : ps[p] = "waiting"
    BY DEF IInv, LoopShape
  <2>2. Len(ch) = 0
    OBVIOUS
  <2> QED BY <2>1, <2>2 DEF IInv, WaitingAccounted, Accounted, WaitersServed
<1> QED BY <1>1, Invariance, PTL

(* A peer that does not fail is never evicted for failing: a dial
   that fails by cancellation or termination sees its context cancelled. *)
THEOREM EvictsOnlyFaulty == Spec => EvictOnlyFaulty
<1>1. TypeOK /\ [Next]_vars => [(rt \ Faulty) \subseteq rt' \/ rt' \ rt # {}]_vars
  <2> SUFFICES ASSUME Next PROVE (rt \ Faulty) \subseteq rt' \/ rt' \ rt # {}
    OBVIOUS
  <2>1. CASE \E p \in Peers : DialFail(p) \/ QueryFail(p)
    BY <2>1 DEF DialFail, QueryFail
  <2>2. CASE \E p \in Peers : QueryOk(p)
    BY <2>2 DEF QueryOk
  <2>3. CASE UNCHANGED rt
    BY <2>3
  <2> QED BY <2>1, <2>2, <2>3
          DEF Next, Run, QueryPeer, FollowUp, Start, Receive, PathDone, FinishRun,
              FollowUpCancelled, DialOk, Send, FollowUpDone, FollowUpReceive, Drain,
              CancelContext, StopChanges
<1> QED BY <1>1, TypeCorrect, PTL DEF Spec, EvictOnlyFaulty

(* run contacts a peer at most once. *)
THEOREM ContactsOnce == Spec => ContactedOnce
<1> DEFINE Step(p) ==
      /\ ps'[p] # ps[p] =>
           <<ps[p], ps'[p]>> \in ({"absent"} \X {"heard", "waiting"})
                              \cup {<<"heard", "waiting">>}
                              \cup ({"waiting"} \X {"queried", "unreachable"})
      /\ worker'[p] = "dialing" => worker[p] \in {"none", "dialing"}
<1>1. IInv /\ [Next]_vars => [\A p \in Peers : Step(p)]_vars
  <2> SUFFICES ASSUME IInv, Next, NEW p \in Peers PROVE Step(p)
    OBVIOUS
  <2>0. ps \in [Peers -> PeerState] /\ worker \in [Peers -> {"none", "exited"} \cup Active]
    BY DEF IInv, TypeOK
  <2>1. CASE Receive
    <3> DEFINE s == updateState(ps, Head(ch))
               Q == ClosestInStates(s, maxNumQueriesToSpawn(s), {"heard"})
    <3>1. CASE UpdatePanics(ps, Head(ch))
      BY <2>1, <3>1 DEF Receive
    <3>2. CASE ~UpdatePanics(ps, Head(ch))
      <4>1. LoopTail(s, "none")
        BY <2>1, <3>2 DEF Receive
      <4>2. /\ s[p] # ps[p] => \/ ps[p] = "absent" /\ s[p] = "heard"
                               \/ ps[p] = "waiting" /\ s[p] \in {"queried", "unreachable"}
            /\ s[p] = "heard" => ps[p] \in {"absent", "heard"}
        BY <3>2 DEF updateState, AddHeard, UpdatePanics
      <4>3. Q \subseteq {q \in Peers : s[q] = "heard"}
        BY DEF ClosestInStates, Closest, InStates
      <4> HIDE DEF s, Q
      <4>4. CASE ps' = s /\ UNCHANGED worker
        BY <4>2, <4>4
      <4>5. CASE spawnQuery(s, Q)
        <5>1. CASE p \in Q
          <6>1. s[p] = "heard" /\ ps'[p] = "waiting"
            BY <5>1, <4>3, <4>5 DEF spawnQuery
          <6>2. ps[p] \in {"absent", "heard"}
            BY <6>1, <4>2
          <6>3. worker[p] = "none"
            BY <6>2 DEF IInv, WaitingAccounted, Accounted, WorkersWait
          <6> QED BY <6>1, <6>2, <6>3
        <5>2. CASE p \notin Q
          <6>1. ps'[p] = s[p] /\ worker'[p] = worker[p]
            BY <5>2, <4>5 DEF spawnQuery
          <6> QED BY <6>1, <4>2
        <5> QED BY <5>1, <5>2
      <4> QED BY <4>1, <4>4, <4>5 DEF LoopTail, Q
    <3> QED BY <3>1, <3>2
  <2>2. CASE PathDone
    BY <2>2 DEF PathDone, LoopTail
  <2>3. CASE \E q \in Peers : QueryPeer(q)
    BY <2>3, <2>0 DEF QueryPeer, DialOk, DialFail, QueryFail, QueryOk, Send
  <2>4. CASE UNCHANGED <<ps, worker>>
    BY <2>4
  <2> QED BY <2>1, <2>2, <2>3, <2>4
          DEF Next, Run, FollowUp, Start, FinishRun, FollowUpCancelled, FollowUpDone,
              FollowUpReceive, Drain, CancelContext, StopChanges
<1> QED BY <1>1, Invariance, PTL DEF Spec, ContactedOnce

-----------------------------------------------------------------------------
(* The follow-up *)

(* Once the result is built no queryPeer goroutine is left, follow-ups run
   only while runLookupWithFollowup waits for them, and every peer of the
   result that was not queried has one. *)
FInv ==
  /\ pc \in {"followup", "drain", "returned"} => \A p \in Peers : worker[p] \notin Active
  /\ pc \notin {"followup", "drain"} => Outstanding(follow) = {}
  /\ pc \in {"followup", "drain"} =>
       \A p \in res.peers : ps[p] = "queried" \/ follow[p] # "none"
  /\ CompletedIsQueried

(* FInv holds in every reachable state. *)
THEOREM FollowUpInvariance == Spec => []FInv
<1>1. Init => FInv
  BY DEF Init, FInv, Outstanding, CompletedIsQueried
<1>2. TypeOK /\ TypeOK' /\ FInv /\ [Next]_vars => FInv'
  <2> SUFFICES ASSUME TypeOK, TypeOK', FInv, [Next]_vars PROVE FInv'
    OBVIOUS
  <2>0. /\ worker \in [Peers -> {"none", "exited"} \cup Active]
        /\ follow \in [Peers -> {"none", "running", "sent", "received"}]
        /\ res \in Result /\ res.peers \subseteq Peers
    BY DEF TypeOK, Result
  <2>1. CASE Start
    BY <2>1 DEF Start, FInv, Outstanding, CompletedIsQueried
  <2>2. CASE Receive \/ PathDone
    <3>1. pc = "run" /\ pc' \in {"run", "wait", "panic"} /\ UNCHANGED <<res, follow>>
      BY <2>2 DEF Receive, PathDone, LoopTail
    <3> QED BY <3>1 DEF FInv, Outstanding, CompletedIsQueried
  <2>3. CASE FinishRun
    <3> DEFINE r == constructLookupResult(ps)
               Q == queryPeers(r)
    <3>1. /\ \A p \in Peers : worker[p] \notin Active
          /\ UNCHANGED <<ps, worker>> /\ Outstanding(follow) = {}
      BY <2>3 DEF FinishRun, FInv
    <3>2. /\ r.peers \subseteq Peers
          /\ \A p \in r.peers : ps[p] = "queried" \/ p \in Q
      BY DEF queryPeers, constructLookupResult, ClosestInStates, Closest, InStates, Reachable
    <3>3. [r EXCEPT !.completed = FALSE].completed = FALSE
      BY DEF constructLookupResult
    <3> HIDE DEF r, Q
    <3>4. CASE Q = {} /\ res' = r /\ pc' = "returned" /\ UNCHANGED follow
      BY <3>1, <3>2, <3>4 DEF FInv, Outstanding, CompletedIsQueried
    <3>5. CASE /\ res' = [r EXCEPT !.completed = FALSE]
               /\ pc' = "returned" /\ UNCHANGED follow
      <4>1. ~res'.completed
        BY <3>3, <3>5
      <4> QED BY <3>1, <3>5, <4>1 DEF FInv, Outstanding, CompletedIsQueried
    <3>6. CASE /\ res' = r /\ pc' = "followup"
               /\ follow' = [p \in Peers |-> IF p \in Q THEN "running" ELSE "none"]
      BY <3>1, <3>2, <3>6 DEF FInv, CompletedIsQueried
    <3> QED BY <2>3, <3>4, <3>5, <3>6 DEF FinishRun, r, Q
  <2>4. CASE FollowUpCancelled
    <3>1. res'.peers = res.peers
      BY <2>4, <2>0 DEF FollowUpCancelled, Result
    <3> QED BY <2>4, <3>1 DEF FollowUpCancelled, FInv, CompletedIsQueried
  <2>5. ASSUME NEW p \in Peers, QueryPeer(p) PROVE FInv'
    <3>1. worker[p] \in Active /\ UNCHANGED <<pc, ps, res, follow>>
      BY <2>5 DEF QueryPeer, DialOk, DialFail, QueryFail, QueryOk, Send, Active
    <3> QED BY <3>1 DEF FInv, Outstanding, CompletedIsQueried
  <2>6. ASSUME NEW p \in Peers, FollowUpDone(p) PROVE FInv'
    <3>1. pc \in {"followup", "drain"}
      BY <2>6 DEF FollowUpDone, FInv, Outstanding
    <3> QED BY <2>6, <2>0, <3>1 DEF FollowUpDone, FInv, CompletedIsQueried
  <2>7. ASSUME NEW p \in Peers, FollowUpReceive(p) \/ Drain(p) PROVE FInv'
    <3>1. /\ pc \in {"followup", "drain"} /\ UNCHANGED <<ps, worker>>
          /\ follow' = [follow EXCEPT ![p] = "received"]
          /\ pc' = "returned" => Outstanding(follow') = {}
          /\ pc' \in {"followup", "drain", "returned"}
      BY <2>7 DEF FollowUpReceive, Drain
    <3>2. res'.peers = res.peers
      BY <2>7, <2>0 DEF FollowUpReceive, Drain, Result
    <3>3. \A q \in res.peers : ps[q] = "queried" \/ follow'[q] # "none"
      BY <3>1, <2>0 DEF FInv
    <3>4. Outstanding(follow') = {} => \A q \in Peers : follow'[q] \in {"none", "received"}
      BY DEF Outstanding, TypeOK
    <3>5. CompletedIsQueried'
      BY <3>1, <3>2, <3>3, <3>4, <2>0 DEF CompletedIsQueried
    <3> QED BY <3>1, <3>2, <3>3, <3>5 DEF FInv
  <2>8. CASE CancelContext \/ StopChanges \/ UNCHANGED vars
    BY <2>8 DEF CancelContext, StopChanges, vars, FInv, Outstanding, CompletedIsQueried
  <2> QED BY <2>1, <2>2, <2>3, <2>4, <2>5, <2>6, <2>7, <2>8 DEF Next, Run, FollowUp
<1> QED BY <1>1, <1>2, TypeCorrect, PTL DEF Spec

(* runLookupWithFollowup leaves no query behind. *)
THEOREM ReturnsQuiescent == Spec => []QuiescentOnReturn
<1>1. FInv => QuiescentOnReturn
  BY DEF FInv, QuiescentOnReturn, Outstanding
<1> QED BY <1>1, FollowUpInvariance, PTL

(* A completed result was queried in full. *)
THEOREM CompletedWasQueried == Spec => []CompletedIsQueried
<1>1. FInv => CompletedIsQueried
  BY DEF FInv
<1> QED BY <1>1, FollowUpInvariance, PTL

(* Whatever cuts a lookup or its follow-up short, the result it returns is sound. *)
THEOREM ReturnsSound == Spec => []ReturnSound
  BY ReturnsQuiescent, CompletedWasQueried, PTL DEF ReturnSound

-----------------------------------------------------------------------------
(* The lookup as its caller sees it *)

OutsideStep == [Outside!Next]_<<stage, asking, asked, stop, cancelled>>

(* A step of run that applies an update starts nothing, or queries on peers not
   asked before and no more than Alpha at a time. *)
LEMMA LoopSeen ==
  ASSUME IInv, IInv', FInv, Receive \/ PathDone
  PROVE  OutsideStep
<1>t. /\ worker \in [Peers -> {"none", "exited"} \cup Active]
      /\ follow \in [Peers -> {"none", "running", "sent", "received"}]
  BY DEF IInv, TypeOK
<1>1. /\ pc = "run" /\ pc' \in {"run", "wait"} /\ UNCHANGED <<follow, stop, cancelled>>
  BY DEF Receive, PathDone, LoopTail, IInv, NoPanic
<1>2. stage = "running" /\ stage' = "running" /\ \A p \in Peers : follow[p] # "running"
  BY <1>1 DEF stage, FInv, Outstanding
<1>3. CASE UNCHANGED worker
  BY <1>1, <1>2, <1>3 DEF OutsideStep, asking, asked
<1>4. ASSUME NEW s, LoopTail(s, "none"), ~UNCHANGED worker, Receive, s = updateState(ps, Head(ch)),
             ~UpdatePanics(ps, Head(ch))
      PROVE  OutsideStep
  <2> DEFINE Q == ClosestInStates(s, maxNumQueriesToSpawn(s), {"heard"})
  <2>1. spawnQuery(s, Q) /\ ~stop
    BY <1>4 DEF LoopTail, isReadyToTerminate
  <2>2. Q \subseteq Peers /\ \A p \in Q : s[p] = "heard"
    BY DEF ClosestInStates, Closest, InStates
  <2>3. \A p \in Q : worker[p] = "none"
    <3> SUFFICES ASSUME NEW p \in Q PROVE worker[p] = "none"
      OBVIOUS
    <3>1. s[p] = "heard" => ps[p] \in {"absent", "heard"}
      BY <1>4, <2>2 DEF updateState, AddHeard, UpdatePanics
    <3> QED BY <2>2, <3>1 DEF IInv, WaitingAccounted, Accounted, WorkersWait
  <2> HIDE DEF Q
  <2>4. /\ asking' = asking \cup Q /\ asked' = asked \cup Q /\ Q \cap asked = {}
    BY <1>1, <1>t, <2>1, <2>2, <2>3 DEF spawnQuery, asking, asked
  <2>5. Cardinality(asking') <= Alpha
    <3> DEFINE W == InStates(ps', {"waiting"})
    <3>1. asking' \subseteq W
      <4> SUFFICES ASSUME NEW p \in Peers, worker'[p] \in {"dialing", "querying"}
                   PROVE  ps'[p] = "waiting"
        BY <1>1, <1>2 DEF asking, InStates
      <4> QED BY DEF IInv, WaitingAccounted, Accounted, WorkersWait, Active
    <3>2. W \in SUBSET Peers /\ asking' \in SUBSET Peers
      BY DEF InStates, asking
    <3>3. IsFiniteSet(W) /\ Cardinality(W) \in Nat /\ Cardinality(asking') \in Nat
      BY <3>2, PeerSetFinite
    <3>4. Cardinality(W) <= Alpha
      BY DEF IInv, WaitingAccounted, Accounted, NumWaiting
    <3>5. Cardinality(asking') <= Cardinality(W)
      BY <3>1, <3>3, FS_Subset
    <3> HIDE DEF W
    <3> QED BY <3>3, <3>4, <3>5, ParamAssumption
  <2>6. Outside!Ask(Q)
    <3>1. UNCHANGED <<stage, stop, cancelled>> /\ stage = "running" /\ ~stop
      BY <1>1, <1>2, <2>1
    <3>2. Outside!Cardinality(asking') <= Alpha
      BY <2>5 DEF Outside!Cardinality, Cardinality, Outside!IsFiniteSet, IsFiniteSet
    <3> QED BY <2>4, <3>1, <3>2 DEF Outside!Ask
  <2> QED BY <2>2, <2>6 DEF OutsideStep, Outside!Next
<1>5. UNCHANGED worker \/ (Receive /\ ~UpdatePanics(ps, Head(ch)) /\ LoopTail(updateState(ps, Head(ch)), "none"))
  BY DEF Receive, PathDone, LoopTail
<1> QED BY <1>3, <1>4, <1>5

(* The end of run is the return of the lookup, or the start of its follow-up. *)
LEMMA FinishSeen ==
  ASSUME IInv, FInv, FinishRun
  PROVE  OutsideStep
<1> DEFINE r == constructLookupResult(ps)
           Q == queryPeers(r)
<1>1. /\ pc = "wait" /\ \A p \in Peers : worker[p] \notin Active /\ follow[p] # "running"
      /\ UNCHANGED <<worker, stop, cancelled>>
  BY DEF FinishRun, FInv, Outstanding
<1>2. stage = "running" /\ asking = {} /\ asked' = asked
  BY <1>1 DEF stage, asking, asked, Active
<1>3. Q \subseteq Peers
  BY DEF queryPeers, constructLookupResult, ClosestInStates, Closest, InStates
<1>4. CASE pc' = "returned" /\ UNCHANGED follow
  <2>1. stage' = "returned" /\ asking' = asking
    BY <1>1, <1>4 DEF stage, asking
  <2> QED BY <1>1, <1>2, <2>1 DEF OutsideStep, Outside!Next, Outside!Return
<1>5. CASE /\ ~cancelled /\ ~stop /\ pc' = "followup"
           /\ follow' = [p \in Peers |-> IF p \in Q THEN "running" ELSE "none"]
  <2> HIDE DEF Q
  <2>1. stage' = "followup"
    BY <1>5 DEF stage
  <2>2. asking' = Q
    BY <1>1, <1>3, <1>5 DEF asking, Active
  <2> QED BY <1>1, <1>2, <1>3, <1>5, <2>1, <2>2 DEF OutsideStep, Outside!Next, Outside!FollowUp
<1> QED BY <1>4, <1>5 DEF FinishRun

(* Every step of a lookup is a step or a stutter of what its caller sees. *)
LEMMA StepSeen ==
  ASSUME IInv, IInv', FInv, FInv', [Next]_vars
  PROVE  OutsideStep
<1>t. /\ worker \in [Peers -> {"none", "exited"} \cup Active]
      /\ follow \in [Peers -> {"none", "running", "sent", "received"}]
  BY DEF IInv, TypeOK
<1> USE DEF OutsideStep
<1>1. CASE Start
  <2>1. UNCHANGED <<asking, asked, stop, cancelled>> /\ stage = "running" /\ stage' \in {"running", "returned"}
    BY <1>1 DEF Start, asking, asked, stage
  <2>2. asking = {}
    <3>1. ASSUME NEW p \in Peers, worker[p] \in Active PROVE FALSE
      BY <1>1, <3>1 DEF Start, IInv, LoopShape, WaitingAccounted, Accounted, WorkersWait
    <3> QED BY <1>1, <3>1 DEF asking, FInv, Outstanding, Active, Start
  <2> QED BY <2>1, <2>2 DEF Outside!Next, Outside!Return
<1>2. ASSUME NEW p \in Peers, DialOk(p) \/ Send(p) PROVE OutsideStep
  BY <1>2, <1>t DEF DialOk, Send, stage, asking, asked
<1>3. ASSUME NEW p \in Peers, DialFail(p) \/ QueryFail(p) \/ QueryOk(p) PROVE OutsideStep
  <2>1. /\ worker[p] \in {"dialing", "querying"} /\ worker' = [worker EXCEPT ![p] = "sending"]
        /\ UNCHANGED <<pc, follow, stop, cancelled>>
    BY <1>3 DEF DialFail, QueryFail, QueryOk
  <2>2. follow[p] # "running"
    BY <2>1 DEF FInv, Outstanding, Active
  <2>3. p \in asking /\ asking' = asking \ {p} /\ UNCHANGED <<stage, asked>>
    BY <1>t, <2>1, <2>2 DEF asking, asked, stage
  <2> QED BY <2>1, <2>3 DEF Outside!Next, Outside!Answered
<1>4. ASSUME NEW p \in Peers, FollowUpDone(p) PROVE OutsideStep
  <2>1. /\ follow[p] = "running" /\ follow' = [follow EXCEPT ![p] = "sent"]
        /\ UNCHANGED <<pc, worker, stop, cancelled>>
    BY <1>4 DEF FollowUpDone
  <2>2. worker[p] \notin Active
    BY <2>1 DEF FInv, Outstanding
  <2>3. p \in asking /\ asking' = asking \ {p} /\ UNCHANGED <<stage, asked>>
    BY <1>t, <2>1, <2>2 DEF asking, asked, stage, Active
  <2> QED BY <2>1, <2>3 DEF Outside!Next, Outside!Answered
<1>5. ASSUME NEW p \in Peers, FollowUpReceive(p) \/ Drain(p) PROVE OutsideStep
  <2>1. /\ follow[p] = "sent" /\ follow' = [follow EXCEPT ![p] = "received"]
        /\ pc \in {"followup", "drain"} /\ UNCHANGED <<worker, stop, cancelled>>
        /\ \/ pc' = pc
           \/ pc' = "returned" /\ Outstanding(follow') = {}
           \/ pc = "followup" /\ pc' = "drain" /\ stop
    BY <1>5 DEF FollowUpReceive, Drain
  <2>2. UNCHANGED <<asking, asked>>
    BY <1>t, <2>1 DEF asking, asked
  <2>3. CASE pc' = pc
    BY <2>1, <2>2, <2>3 DEF stage
  <2>4. CASE pc' = "returned" /\ Outstanding(follow') = {}
    <3>1. asking' = {}
      BY <2>1, <2>4 DEF asking, Outstanding, FInv, Active
    <3> QED BY <2>1, <2>2, <2>4, <3>1 DEF stage, Outside!Next, Outside!Return
  <2>5. CASE pc = "followup" /\ pc' = "drain" /\ stop
    BY <2>1, <2>2, <2>5 DEF stage, Outside!Next, Outside!CutShort
  <2> QED BY <2>1, <2>3, <2>4, <2>5
<1>6. CASE FollowUpCancelled
  <2>1. /\ stage = "followup" /\ stage' = "stopping" /\ cancelled
        /\ UNCHANGED <<asking, asked, stop, cancelled>>
    BY <1>6 DEF FollowUpCancelled, stage, asking, asked
  <2> QED BY <2>1 DEF Outside!Next, Outside!CutShort
<1>7. CASE CancelContext \/ StopChanges \/ UNCHANGED vars
  <2>1. UNCHANGED <<stage, asking, asked>>
    BY <1>7 DEF CancelContext, StopChanges, vars, stage, asking, asked
  <2> QED BY <1>7, <2>1 DEF CancelContext, StopChanges, vars, Outside!Next, Outside!Cancel, Outside!StopChanges
<1> QED BY <1>1, <1>2, <1>3, <1>4, <1>5, <1>6, <1>7, LoopSeen, FinishSeen
        DEF Next, Run, QueryPeer, FollowUp

(* To its caller runLookupWithFollowup is an AbstractLookup, whatever peers
   answer and whenever contexts end: what modules ValueSearch and FindProviders
   assume of a lookup is what the query engine does. *)
THEOREM LookupFromOutside == Spec => ImplementsOutside
<1>1. Init => Outside!Init
  BY DEF Init, Outside!Init, stage, asking, asked
<1>2. IInv /\ IInv' /\ FInv /\ FInv' /\ [Next]_vars => [Outside!Next]_<<stage, asking, asked, stop, cancelled>>
  BY StepSeen DEF OutsideStep
<1> QED BY <1>1, <1>2, Invariance, FollowUpInvariance, PTL
        DEF Spec, ImplementsOutside, Outside!Spec, Outside!vars

-----------------------------------------------------------------------------
(* FindPeer *)

(* Once run is over, the peers of the result are the closest ones of the
   peerset, which nothing changes any more. *)
ResultOfPeerset ==
  pc \in {"followup", "drain", "returned"} =>
    res.peers = ClosestInStates(ps, K, Reachable)

(* The result stays that of the peerset. *)
THEOREM ResultStays == Spec => []ResultOfPeerset
<1>1. Init => ResultOfPeerset
  BY DEF Init, ResultOfPeerset
<1>2. TypeOK /\ ResultOfPeerset /\ [Next]_vars => ResultOfPeerset'
  <2> SUFFICES ASSUME TypeOK, ResultOfPeerset, [Next]_vars PROVE ResultOfPeerset'
    OBVIOUS
  <2>0. res \in Result
    BY DEF TypeOK
  <2> USE DEF ResultOfPeerset
  <2>1. CASE Start
    BY <2>1 DEF Start
  <2>2. CASE Receive \/ PathDone
    <3>1. pc' \notin {"followup", "drain", "returned"}
      BY <2>2 DEF Receive, PathDone, LoopTail
    <3> QED
      BY <3>1
  <2>3. CASE FinishRun
    <3> DEFINE r == constructLookupResult(ps)
    <3>1. r \in [peers : {r.peers}, closest : {r.closest}, completed : BOOLEAN]
      BY DEF constructLookupResult, isLookupTermination, isStarvationTermination
    <3>2. r.peers = ClosestInStates(ps, K, Reachable)
      BY DEF constructLookupResult
    <3> HIDE DEF r
    <3>3. [r EXCEPT !.completed = FALSE].peers = r.peers
      BY <3>1
    <3>4. UNCHANGED ps /\ (res' = r \/ res' = [r EXCEPT !.completed = FALSE])
      BY <2>3 DEF FinishRun, r
    <3>5. res'.peers = r.peers
      BY <3>3, <3>4
    <3> QED
      BY <3>2, <3>4, <3>5 DEF ClosestInStates, InStates
  <2>4. ASSUME NEW p \in Peers, FollowUpReceive(p) PROVE ResultOfPeerset'
    <3>1. [res EXCEPT !.completed = FALSE].peers = res.peers
      BY <2>0 DEF Result
    <3> QED
      BY <2>4, <3>1 DEF FollowUpReceive
  <2>5. CASE FollowUpCancelled
    <3>1. [res EXCEPT !.completed = FALSE].peers = res.peers
      BY <2>0 DEF Result
    <3> QED
      BY <2>5, <3>1 DEF FollowUpCancelled
  <2>6. ASSUME NEW p \in Peers, Drain(p) PROVE ResultOfPeerset'
    BY <2>6 DEF Drain
  <2>7. ASSUME NEW p \in Peers, QueryPeer(p) \/ FollowUpDone(p) PROVE ResultOfPeerset'
    BY <2>7 DEF QueryPeer, DialOk, DialFail, QueryFail, QueryOk, Send, FollowUpDone
  <2>8. CASE CancelContext \/ StopChanges \/ UNCHANGED vars
    BY <2>8 DEF CancelContext, StopChanges, vars
  <2> QED
    BY <2>1, <2>2, <2>3, <2>4, <2>5, <2>6, <2>7, <2>8 DEF Next, Run, FollowUp
<1> QED BY <1>1, <1>2, TypeCorrect, PTL DEF Spec

(* FindPeer reports its target whenever the lookup contacted it without a
   failure, even if its answer is still queued when the lookup ends: at
   distance zero it is always among the K closest. *)
THEOREM TargetFound == Spec => []ContactedTargetFound
<1>1. IInv /\ ResultOfPeerset => ContactedTargetFound
  <2> SUFFICES ASSUME IInv, ResultOfPeerset, pc = "returned", worker[Target] # "none",
                      ps[Target] # "unreachable"
               PROVE  dialedPeerDuringQuery
    BY DEF ContactedTargetFound
  <2> DEFINE S == InStates(ps, Reachable)
  <2>1. Target \in Peers /\ Dist[Target] = 0
    BY TargetAssumption, ParamAssumption
  <2>2. ps[Target] \in {"waiting", "queried"}
    BY <2>1 DEF IInv, TypeOK, PeerState, WaitingAccounted, Accounted, WorkersWait
  <2>3. Target \in S
    BY <2>1, <2>2 DEF InStates, Reachable
  <2>4. {q \in S : Dist[q] < Dist[Target]} = {}
    BY <2>1, DistAssumption DEF InStates
  <2>5. Nearer(S, Target) < K
    BY <2>4, FS_EmptySet, ParamAssumption DEF Nearer
  <2>6. Target \in res.peers
    BY <2>3, <2>5 DEF ResultOfPeerset, ClosestInStates, Closest
  <2> QED
    BY <2>2, <2>6 DEF dialedPeerDuringQuery
<1> QED BY <1>1, Invariance, ResultStays, PTL

-----------------------------------------------------------------------------
(* The query peerset: what the lookup takes for a function from peers to
   states is a slice that is sorted when needed. *)

(* The slice has no peer twice. *)
Distinct(s) == \A i, j \in DOMAIN s : s[i].id = s[j].id => i = j

(* Nearer peers come first. *)
Ascending(s) == \A i, j \in DOMAIN s : i < j => Dist[s[i].id] < Dist[s[j].id]

(* PeersetInv is not inductive: that the sorted slice is strictly ascending
   rests on its having no peer twice. *)
PeersetIInv == PeersetTypeOK /\ Distinct(all) /\ (sorted => Ascending(all))

(* find returns the one place of a peer, or 0. *)
LEMMA Found ==
  ASSUME NEW s \in Seq(Entry), Distinct(s), NEW p
  PROVE  /\ \A i \in DOMAIN s : s[i].id = p => find(s, p) = i
         /\ (\A i \in DOMAIN s : s[i].id # p) <=> find(s, p) = 0
         /\ find(s, p) \in 0..Len(s) /\ DOMAIN s = 1..Len(s) /\ Len(s) \in Nat
         /\ find(s, p) > 0 => s[find(s, p)].id = p
<1>1. DOMAIN s = 1..Len(s) /\ Len(s) \in Nat
  OBVIOUS
<1>2. ASSUME NEW i \in DOMAIN s, s[i].id = p PROVE find(s, p) = i
  <2>1. \A j \in 1..(i - 1) : s[j].id # p
    BY <1>1, <1>2 DEF Distinct
  <2> QED BY <1>2, <2>1 DEF find, Distinct
<1>3. ASSUME \A i \in DOMAIN s : s[i].id # p PROVE find(s, p) = 0
  BY <1>3 DEF find
<1> QED BY <1>1, <1>2, <1>3

(* What the entries of a slice are *)
LEMMA SliceTyped ==
  ASSUME NEW s \in Seq(Entry)
  PROVE  /\ DOMAIN s = 1..Len(s) /\ Len(s) \in Nat
         /\ \A j \in DOMAIN s : s[j] \in Entry /\ s[j].id \in Peers /\ Dist[s[j].id] \in Nat
<1>1. DOMAIN s = 1..Len(s) /\ Len(s) \in Nat /\ \A j \in DOMAIN s : s[j] \in Entry
  OBVIOUS
<1>2. \A e \in Entry : e.id \in Peers
  BY DEF Entry
<1> QED BY <1>1, <1>2, DistAssumption

(* Sorting keeps the entries, and puts them in order. *)
LEMMA Sorting ==
  ASSUME NEW s \in Seq(Entry), Distinct(s), NEW t \in Sorts(s)
  PROVE  /\ t \in Seq(Entry) /\ DOMAIN t = DOMAIN s /\ Distinct(t) /\ Ascending(t)
         /\ \A i \in DOMAIN s : \E j \in DOMAIN t : t[j] = s[i]
         /\ \A j \in DOMAIN t : \E i \in DOMAIN s : t[j] = s[i]
<1> DEFINE D == DOMAIN s
<1>1. PICK f \in Bijection(D, D) : t = [i \in D |-> s[f[i]]]
  BY DEF Sorts
<1>2. /\ f \in [D -> D] /\ (\A i, j \in D : f[i] = f[j] => i = j)
      /\ \A i \in D : \E j \in D : f[j] = i
  BY DEF Bijection, Injection, Surjection, IsInjective
<1>3. D = 1..Len(s) /\ Len(s) \in Nat /\ \A i \in D : s[i] \in Entry
  OBVIOUS
<1>4. t \in Seq(Entry) /\ DOMAIN t = D
  BY <1>1, <1>2, <1>3
<1>5. Distinct(t)
  BY <1>1, <1>2, <1>4 DEF Distinct
<1>6. /\ \A i \in D : \E j \in D : t[j] = s[i]
      /\ \A j \in D : \E i \in D : t[j] = s[i]
  BY <1>1, <1>2
<1>7. ASSUME NEW i \in D, NEW j \in D, i < j PROVE Dist[t[i].id] < Dist[t[j].id]
  <2>1. ~(Dist[t[j].id] < Dist[t[i].id])
    BY <1>4, <1>7 DEF Sorts, Less
  <2>2. t[i].id \in Peers /\ t[j].id \in Peers /\ t[i].id # t[j].id
    <3>1. t[i] \in Entry /\ t[j] \in Entry
      BY <1>4, <1>7
    <3>2. i # j
      BY <1>3, <1>7
    <3> QED BY <1>4, <1>5, <3>1, <3>2 DEF Entry, Distinct
  <2> QED BY <2>1, <2>2, DistAssumption
<1> QED BY <1>4, <1>5, <1>6, <1>7 DEF Ascending

(* A slice with the same entries represents the same map. *)
LEMMA SameMap ==
  ASSUME NEW s \in Seq(Entry), Distinct(s), NEW t \in Seq(Entry), Distinct(t), NEW p,
         \A i \in DOMAIN s : \E j \in DOMAIN t : t[j] = s[i],
         \A j \in DOMAIN t : \E i \in DOMAIN s : t[j] = s[i]
  PROVE  /\ find(t, p) = 0 <=> find(s, p) = 0
         /\ find(s, p) # 0 => t[find(t, p)] = s[find(s, p)]
<1>1. CASE \A i \in DOMAIN s : s[i].id # p
  <2>1. \A j \in DOMAIN t : t[j].id # p
    BY <1>1
  <2> QED BY <1>1, <2>1, Found
<1>2. CASE \E i \in DOMAIN s : s[i].id = p
  <2>1. PICK i \in DOMAIN s : s[i].id = p
    BY <1>2
  <2>2. PICK j \in DOMAIN t : t[j] = s[i]
    OBVIOUS
  <2>3. find(s, p) = i /\ find(t, p) = j
    BY <2>1, <2>2, Found
  <2>4. i # 0 /\ j # 0
    BY Found
  <2> QED BY <2>2, <2>3, <2>4
<1> QED BY <1>1, <1>2

(* Two finite sets of which one is the image of the other, member by member,
   have the same size. *)
LEMMA SameSize ==
  ASSUME NEW S, IsFiniteSet(S), NEW g, \A x, y \in S : g[x] = g[y] => x = y
  PROVE  /\ IsFiniteSet({g[x] : x \in S})
         /\ Cardinality({g[x] : x \in S}) = Cardinality(S)
<1> DEFINE T == {g[x] : x \in S}
           f == [x \in S |-> g[x]]
<1>1. f \in Injection(S, T)
  <2>1. f \in [S -> T] /\ \A x, y \in S : f[x] = f[y] => x = y
    OBVIOUS
  <2> HIDE DEF f, T
  <2> QED BY <2>1, Fun_IsInj
<1>2. f \in Surjection(S, T)
  BY DEF Surjection
<1> HIDE DEF f, T
<1>3. IsFiniteSet(T) /\ Cardinality(T) = Cardinality(S)
  BY <1>1, <1>2, FS_Surjection
<1> QED BY <1>3 DEF T

(* The state of p in the map that the slice s represents *)
StateIn(s, p) == IF find(s, p) = 0 THEN "absent" ELSE s[find(s, p)].state

(* The peers of s in the given states, their places in the slice, and the
   first n of those *)
Members(s, states) == {p \in Peers : StateIn(s, p) \in states}
Hits(s, states) == {i \in DOMAIN s : s[i].state \in states}
First(s, n, states) == {i \in Hits(s, states) : Before(Hits(s, states), i) < n}

(* Peers of a sorted slice, chosen by their places: as many are nearer as come
   before. *)
LEMMA NearerIsBefore ==
  ASSUME NEW s \in Seq(Entry), Distinct(s), Ascending(s), NEW I \in SUBSET DOMAIN s, NEW i \in I
  PROVE  Nearer({s[j].id : j \in I}, s[i].id) = Before(I, i)
<1> DEFINE J == {j \in I : j < i}
           g == [j \in DOMAIN s |-> s[j].id]
<1>1. DOMAIN s = 1..Len(s) /\ Len(s) \in Nat /\ \A j \in DOMAIN s : s[j].id \in Peers /\ Dist[s[j].id] \in Nat
  BY SliceTyped
<1>2. \A j \in I : Dist[s[j].id] < Dist[s[i].id] <=> j < i
  <2> SUFFICES ASSUME NEW j \in I PROVE Dist[s[j].id] < Dist[s[i].id] <=> j < i
    OBVIOUS
  <2>1. i \in DOMAIN s /\ j \in DOMAIN s
    OBVIOUS
  <2>2. j < i => Dist[s[j].id] < Dist[s[i].id]
    BY <2>1 DEF Ascending
  <2>3. i < j => Dist[s[i].id] < Dist[s[j].id]
    BY <2>1 DEF Ascending
  <2> QED BY <1>1, <2>1, <2>2, <2>3
<1>3. {q \in {s[j].id : j \in I} : Dist[q] < Dist[s[i].id]} = {g[j] : j \in J}
  BY <1>2
<1>4. IsFiniteSet(J) /\ \A j, k \in J : g[j] = g[k] => j = k
  <2>1. IsFiniteSet(1..Len(s)) /\ J \in SUBSET 1..Len(s)
    BY <1>1, FS_Interval
  <2>2. \A j, k \in J : g[j] = g[k] => j = k
    BY DEF Distinct
  <2> HIDE DEF J, g
  <2> QED BY <2>1, <2>2, FS_Subset
<1>5. Cardinality({g[j] : j \in J}) = Cardinality(J)
  <2> HIDE DEF J, g
  <2> QED BY <1>4, SameSize
<1> QED BY <1>3, <1>5 DEF Nearer, Before

(* The peers at the places I of a sorted slice: all of them once, in order. *)
LEMMA IdsInOrder ==
  ASSUME NEW s \in Seq(Entry), Distinct(s), Ascending(s), NEW I \in SUBSET DOMAIN s
  PROVE  /\ Cardinality(I) \in Nat /\ Cardinality({s[i].id : i \in I}) = Cardinality(I)
         /\ Ids(s, I) \in [1..Cardinality(I) -> {s[i].id : i \in I}]
         /\ \A j, k \in 1..Cardinality(I) : j < k => Dist[Ids(s, I)[j]] < Dist[Ids(s, I)[k]]
         /\ \A i \in I : \E k \in 1..Cardinality(I) : Ids(s, I)[k] = s[i].id
<1> DEFINE g == [j \in I |-> s[j].id]
           id == [j \in I |-> j]
           m == Cardinality(I)
           At(k) == CHOOSE i \in I : Before(I, i) = k - 1
           w == Ids(s, I)
<1>1. DOMAIN s = 1..Len(s) /\ Len(s) \in Nat /\ \A j \in DOMAIN s : s[j].id \in Peers
  BY SliceTyped
<1>2. IsFiniteSet(I) /\ \A j, k \in I : g[j] = g[k] => j = k
  <2>1. IsFiniteSet(1..Len(s))
    BY <1>1, FS_Interval
  <2> QED BY <1>1, <2>1, FS_Subset DEF Distinct
<1>3. Cardinality({s[i].id : i \in I}) = m
  <2>1. {s[i].id : i \in I} = {g[i] : i \in I}
    OBVIOUS
  <2> HIDE DEF g
  <2>2. Cardinality({g[i] : i \in I}) = Cardinality(I)
    BY <1>2, SameSize
  <2> QED BY <2>1, <2>2
<1>4. /\ Cardinality(I) \in Nat
      /\ \A i \in I : Before(I, i) \in 0..(Cardinality(I) - 1)
      /\ \A i, j \in I : i < j <=> Before(I, i) < Before(I, j)
      /\ \A i, j \in I : Before(I, i) = Before(I, j) => i = j
      /\ \A k \in 0..(Cardinality(I) - 1) : \E i \in I : Before(I, i) = k
  <2>1. \A i \in I : id[i] = i /\ i \in Nat
    BY <1>1
  <2>2. \A i \in I : RankIn(I, id, i) = Before(I, i)
    BY <2>1 DEF RankIn, Before
  <2> HIDE DEF id
  <2>3. (\A i \in I : id[i] \in Nat) /\ \A i, j \in I : id[i] = id[j] => i = j
    BY <2>1
  <2>4. /\ Cardinality(I) \in Nat
        /\ \A i \in I : RankIn(I, id, i) \in 0..(Cardinality(I) - 1)
        /\ \A i, j \in I : id[i] < id[j] <=> RankIn(I, id, i) < RankIn(I, id, j)
        /\ \A i, j \in I : RankIn(I, id, i) = RankIn(I, id, j) => i = j
        /\ \A k \in 0..(Cardinality(I) - 1) : \E i \in I : RankIn(I, id, i) = k
    BY <1>2, <2>3, Ranks
  <2> QED BY <2>1, <2>2, <2>4
<1>5. w = [k \in 1..m |-> s[At(k)].id]
  BY DEF Ids
<1>6. ASSUME NEW k \in 1..m PROVE At(k) \in I /\ Before(I, At(k)) = k - 1
  <2>1. k - 1 \in 0..(Cardinality(I) - 1)
    BY <1>4
  <2>2. \E i \in I : Before(I, i) = k - 1
    BY <1>4, <2>1
  <2> QED BY <2>2
<1> HIDE DEF m, At, w
<1>7. w \in [1..m -> {s[i].id : i \in I}]
  BY <1>5, <1>6
<1>8. ASSUME NEW j \in 1..m, NEW k \in 1..m, j < k PROVE Dist[w[j]] < Dist[w[k]]
  <2>1. /\ At(j) \in I /\ Before(I, At(j)) = j - 1
        /\ At(k) \in I /\ Before(I, At(k)) = k - 1
    BY <1>6
  <2>2. Before(I, At(j)) < Before(I, At(k))
    BY <1>8, <2>1
  <2>3. At(j) < At(k)
    BY <1>4, <2>1, <2>2
  <2>4. At(j) \in DOMAIN s /\ At(k) \in DOMAIN s
    BY <2>1
  <2> QED BY <1>5, <2>3, <2>4 DEF Ascending
<1>9. ASSUME NEW i \in I PROVE \E k \in 1..m : w[k] = s[i].id
  <2> DEFINE k == Before(I, i) + 1
  <2>1. k \in 1..m /\ Before(I, i) = k - 1
    BY <1>4 DEF m
  <2> HIDE DEF k
  <2>2. At(k) = i
    BY <1>4, <1>6, <2>1
  <2> QED BY <1>5, <2>1, <2>2
<1> QED BY <1>3, <1>4, <1>7, <1>8, <1>9 DEF m, w

(* What is left out by Closest is further away than what it takes, of which
   there is then as much as was asked for. *)
LEMMA ClosestMaximal ==
  ASSUME NEW S \in SUBSET Peers, NEW n \in Nat, NEW p \in S, p \notin Closest(S, n)
  PROVE  /\ Cardinality(Closest(S, n)) = n
         /\ \A q \in Closest(S, n) : Dist[q] < Dist[p]
<1> DEFINE C == Closest(S, n)
           f == [q \in C |-> Nearer(S, q)]
<1>1. /\ Cardinality(S) \in Nat
      /\ \A q \in S : Nearer(S, q) \in 0..(Cardinality(S) - 1)
  BY PeerRanks
<1>2. Nearer(S, p) >= n
  BY <1>1 DEF Closest
<1>3. ASSUME NEW q \in C PROVE q \in S /\ Nearer(S, q) \in 0..(n - 1)
  <2>1. q \in S /\ Nearer(S, q) < n
    BY DEF Closest
  <2> QED BY <1>1, <2>1
<1>4. ASSUME NEW q \in C PROVE Dist[q] < Dist[p]
  <2>1. Nearer(S, q) < Nearer(S, p)
    BY <1>1, <1>2, <1>3
  <2> QED BY <1>3, <2>1, PeerRanks
<1>5. ASSUME NEW i \in 0..(n - 1) PROVE \E q \in C : Nearer(S, q) = i
  <2>1. i \in 0..(Cardinality(S) - 1)
    BY <1>1, <1>2
  <2>2. PICK q \in S : Nearer(S, q) = i
    BY <2>1, PeerRanks
  <2> QED BY <2>2 DEF Closest
<1>6. f \in Surjection(C, 0..(n - 1))
  BY <1>3, <1>5 DEF Surjection
<1>7. IsFiniteSet(C) /\ Cardinality(C) \in Nat
  <2>1. C \in SUBSET Peers
    BY <1>3
  <2> QED BY <2>1, PeerSetFinite
<1>8. Cardinality(0..(n - 1)) = n
  BY FS_Interval
<1>9. Cardinality(0..(n - 1)) <= Cardinality(C)
  <2> HIDE DEF f, C
  <2> QED BY <1>6, <1>7, FS_Surjection
<1>10. Cardinality(C) <= n
  BY ClosestBound
<1> QED BY <1>4, <1>7, <1>8, <1>9, <1>10

(* GetClosestNInStates on a sorted slice returns what the map promises: the n
   nearest of the peers in the given states, nearest first, which are those
   that the lookup engine reckons with. *)
LEMMA AnswerIsNearest ==
  ASSUME NEW s \in Seq(Entry), Distinct(s), Ascending(s), NEW n \in Nat, NEW states \in SUBSET States, NEW w, w = Ids(s, First(s, n, states))
  PROVE  /\ Abstract!NearestFirst(w, Members(s, states), n)
         /\ w \in Seq(Peers)
         /\ {w[k] : k \in DOMAIN w} = Closest(Members(s, states), n)
<1> DEFINE S == Members(s, states)
           hits == Hits(s, states)
           first == First(s, n, states)
           C == Closest(S, n)
           m == Cardinality(first)
<1>0. /\ S = {p \in Peers : StateIn(s, p) \in states}
      /\ hits = {i \in DOMAIN s : s[i].state \in states}
      /\ first = {i \in hits : Before(hits, i) < n}
  BY DEF Members, Hits, First
<1> HIDE DEF S, hits, first
<1>1. DOMAIN s = 1..Len(s) /\ Len(s) \in Nat /\ \A j \in DOMAIN s : s[j] \in Entry /\ s[j].id \in Peers
  BY SliceTyped
<1>2. S = {s[i].id : i \in hits}
  <2>1. ASSUME NEW i \in hits PROVE s[i].id \in S
    <3>1. find(s, s[i].id) = i /\ i # 0
      BY <1>0, <1>1, Found
    <3> QED BY <1>0, <1>1, <3>1 DEF StateIn
  <2>2. ASSUME NEW p \in S PROVE \E i \in hits : p = s[i].id
    <3>1. find(s, p) # 0
      BY <1>0 DEF StateIn, States
    <3>2. find(s, p) \in DOMAIN s /\ s[find(s, p)].id = p
      BY <1>1, <3>1, Found
    <3>3. find(s, p) \in hits
      BY <1>0, <3>1, <3>2 DEF StateIn
    <3> QED BY <3>2, <3>3
  <2> QED BY <2>1, <2>2
<1>3. ASSUME NEW i \in hits PROVE Nearer(S, s[i].id) = Before(hits, i)
  <2>1. hits \in SUBSET DOMAIN s
    BY <1>0
  <2> QED BY <1>2, <1>3, <2>1, NearerIsBefore
<1>4. C = {s[i].id : i \in first}
  <2>1. ASSUME NEW p \in C PROVE \E i \in first : p = s[i].id
    <3>1. p \in S /\ Nearer(S, p) < n
      BY DEF Closest
    <3>2. PICK i \in hits : p = s[i].id
      BY <1>2, <3>1
    <3> QED BY <1>0, <1>3, <3>1, <3>2
  <2>2. ASSUME NEW i \in first PROVE s[i].id \in C
    <3>1. i \in hits /\ Before(hits, i) < n
      BY <1>0
    <3> QED BY <1>2, <1>3, <3>1 DEF Closest
  <2> HIDE DEF C
  <2> QED BY <2>1, <2>2
<1>5. first \in SUBSET DOMAIN s /\ S \in SUBSET Peers /\ C \in SUBSET S
  BY <1>0 DEF Closest
<1>6. /\ m \in Nat /\ Cardinality({s[i].id : i \in first}) = m
      /\ w \in [1..m -> {s[i].id : i \in first}]
      /\ \A j, k \in 1..m : j < k => Dist[w[j]] < Dist[w[k]]
      /\ \A i \in first : \E k \in 1..m : w[k] = s[i].id
  BY <1>5, IdsInOrder DEF first
<1> HIDE DEF C, m
<1>7. m \in Nat /\ w \in [1..m -> C] /\ Cardinality(C) = m /\ \A p \in C : \E k \in 1..m : w[k] = p
  <2>1. \A p \in C : \E i \in first : p = s[i].id
    BY <1>4
  <2>2. ASSUME NEW p \in C PROVE \E k \in 1..m : w[k] = p
    <3>1. PICK i \in first : p = s[i].id
      BY <2>1, <2>2
    <3>2. PICK k \in 1..m : w[k] = s[i].id
      BY <1>6
    <3> QED BY <3>1, <3>2
  <2>3. Cardinality(C) = m /\ w \in [1..m -> C]
    BY <1>4, <1>6
  <2> QED BY <1>6, <2>2, <2>3
<1>8. DOMAIN w = 1..m /\ w \in Seq(C) /\ Len(w) = m
  BY <1>7
<1>9. w \in Seq(S) /\ w \in Seq(Peers)
  <2>1. w \in [1..m -> S] /\ w \in [1..m -> Peers]
    BY <1>5, <1>7
  <2> QED BY <1>7, <2>1
<1>10. m <= n
  BY <1>5, <1>7, ClosestBound DEF C
<1>11. ASSUME NEW p \in S
       PROVE  \/ \E i \in DOMAIN w : w[i] = p
              \/ Len(w) = n /\ \A i \in DOMAIN w : Dist[w[i]] < Dist[p]
  <2>1. CASE p \in C
    BY <1>7, <1>8, <2>1
  <2>2. CASE p \notin C
    <3>1. Cardinality(C) = n /\ \A q \in C : Dist[q] < Dist[p]
      BY <1>5, <2>2, ClosestMaximal DEF C
    <3> QED BY <1>7, <1>8, <3>1
  <2> QED BY <2>1, <2>2
<1>12. Abstract!NearestFirst(w, S, n)
  BY <1>6, <1>8, <1>9, <1>10, <1>11 DEF Abstract!NearestFirst
<1>13. {w[k] : k \in DOMAIN w} = C
  BY <1>7, <1>8
<1> QED BY <1>9, <1>12, <1>13 DEF S, C

(* The state and the referrer of a peer in the map, by its entry *)
LEMMA MapOf ==
  ASSUME NEW p \in Peers
  PROVE  /\ state[p] = StateIn(all, p)
         /\ referrer[p] = IF find(all, p) = 0 THEN Self ELSE all[find(all, p)].referredBy
         /\ DOMAIN state = Peers /\ DOMAIN referrer = Peers
  BY DEF state, referrer, StateIn

(* A new peer is heard of, from the peer that named it. *)
LEMMA TryAddStep ==
  ASSUME PeersetIInv, NEW p \in Peers, NEW r \in Referrers, TryAdd(p, r)
  PROVE  PeersetIInv' /\ (Abstract!Add(p, r) \/ UNCHANGED <<state, referrer, result>>)
<1>t. all \in Seq(Entry) /\ Distinct(all) /\ sorted \in BOOLEAN /\ result.ids \in Seq(Peers)
  BY DEF PeersetIInv, PeersetTypeOK
<1>1. CASE find(all, p) > 0
  <2>1. UNCHANGED peersetVars
    BY <1>1 DEF TryAdd
  <2>2. PeersetIInv'
    BY <2>1 DEF peersetVars, PeersetIInv, PeersetTypeOK, Distinct, Ascending
  <2>3. UNCHANGED <<state, referrer, result>>
    BY <2>1 DEF peersetVars, state, referrer
  <2> QED BY <2>2, <2>3
<1>2. CASE ~(find(all, p) > 0)
  <2> DEFINE e == [id |-> p, state |-> "heard", referredBy |-> r]
  <2>1. all' = Append(all, e) /\ sorted' = FALSE /\ result' = result
    BY <1>2 DEF TryAdd
  <2>2. e \in Entry /\ e.id = p /\ e.state = "heard" /\ e.referredBy = r
    BY DEF Entry, States
  <2> HIDE DEF e
  <2>3. /\ all' \in Seq(Entry) /\ Len(all') = Len(all) + 1
        /\ DOMAIN all = 1..Len(all) /\ DOMAIN all' = 1..(Len(all) + 1) /\ Len(all) \in Nat
        /\ all'[Len(all) + 1] = e /\ \A i \in DOMAIN all : all'[i] = all[i]
    BY <1>t, <2>1, <2>2
  <2>4. find(all, p) = 0 /\ \A i \in DOMAIN all : all[i].id # p
    BY <1>t, <1>2, Found
  <2>5. Distinct(all')
    <3> SUFFICES ASSUME NEW i \in DOMAIN all', NEW j \in DOMAIN all', all'[i].id = all'[j].id PROVE i = j
      BY DEF Distinct
    <3>1. CASE i \in DOMAIN all /\ j \in DOMAIN all
      BY <1>t, <2>3, <3>1 DEF Distinct
    <3>2. CASE i = Len(all) + 1 \/ j = Len(all) + 1
      BY <2>2, <2>3, <2>4, <3>2
    <3> QED BY <2>3, <3>1, <3>2
  <2>6. PeersetIInv'
    BY <1>t, <2>1, <2>3, <2>5 DEF PeersetIInv, PeersetTypeOK
  <2>7. find(all', p) = Len(all) + 1
    BY <2>2, <2>3, <2>5, Found
  <2>8. ASSUME NEW q \in Peers, q # p
        PROVE  /\ find(all', q) = find(all, q)
               /\ find(all, q) # 0 => all'[find(all, q)] = all[find(all, q)]
    <3>1. CASE \A i \in DOMAIN all : all[i].id # q
      <4>1. \A i \in DOMAIN all' : all'[i].id # q
        BY <2>2, <2>3, <2>8, <3>1
      <4> QED BY <1>t, <2>3, <2>5, <3>1, <4>1, Found
    <3>2. CASE \E i \in DOMAIN all : all[i].id = q
      <4>1. PICK i \in DOMAIN all : all[i].id = q
        BY <3>2
      <4>2. find(all, q) = i
        BY <1>t, <4>1, Found
      <4>3. i \in DOMAIN all' /\ all'[i] = all[i]
        BY <2>3
      <4>4. find(all', q) = i
        BY <2>3, <2>5, <4>1, <4>3, Found
      <4> QED BY <4>2, <4>3, <4>4
    <3> QED BY <3>1, <3>2
  <2>9. state[p] = "absent" /\ state' = [state EXCEPT ![p] = "heard"]
    <3>1. state[p] = "absent"
      BY <2>4 DEF state
    <3>2. state' = [q \in Peers |-> IF find(all', q) = 0 THEN "absent" ELSE all'[find(all', q)].state]
      BY DEF state
    <3>3. \A q \in Peers : state'[q] = IF q = p THEN "heard" ELSE state[q]
      BY <2>2, <2>3, <2>7, <2>8, <3>2 DEF state
    <3> QED BY <3>1, <3>2, <3>3 DEF state
  <2>10. referrer' = [referrer EXCEPT ![p] = r]
    <3>1. referrer' = [q \in Peers |-> IF find(all', q) = 0 THEN Self ELSE all'[find(all', q)].referredBy]
      BY DEF referrer
    <3>2. \A q \in Peers : referrer'[q] = IF q = p THEN r ELSE referrer[q]
      BY <2>2, <2>3, <2>7, <2>8, <3>1 DEF referrer
    <3> QED BY <3>1, <3>2 DEF referrer
  <2> QED BY <2>1, <2>6, <2>9, <2>10 DEF Abstract!Add
<1> QED BY <1>1, <1>2

(* The state of a known peer is set, and nothing else. *)
LEMMA SetStateStep ==
  ASSUME PeersetIInv, NEW p \in Peers, NEW st \in States, SetState(p, st)
  PROVE  PeersetIInv' /\ Abstract!Set(p, st)
<1>t. all \in Seq(Entry) /\ Distinct(all) /\ sorted \in BOOLEAN /\ result.ids \in Seq(Peers)
      /\ (sorted => Ascending(all))
  BY DEF PeersetIInv, PeersetTypeOK
<1> DEFINE f == find(all, p)
<1>1. f > 0 /\ all' = [all EXCEPT ![f].state = st] /\ sorted' = sorted /\ result' = result
  BY DEF SetState
<1>2. f \in DOMAIN all /\ all[f].id = p /\ DOMAIN all = 1..Len(all) /\ Len(all) \in Nat
  BY <1>t, <1>1, Found
<1>h. \A i \in DOMAIN all : all[i] \in Entry
  BY <1>t
<1> HIDE DEF f
<1>3. /\ all' \in Seq(Entry) /\ DOMAIN all' = DOMAIN all
      /\ \A i \in DOMAIN all :
           /\ all'[i].id = all[i].id /\ all'[i].referredBy = all[i].referredBy
           /\ all'[i].state = IF i = f THEN st ELSE all[i].state
  <2>1. all' = [i \in DOMAIN all |-> IF i = f THEN [all[f] EXCEPT !.state = st] ELSE all[i]]
    BY <1>1, <1>2, <1>t
  <2>2. ASSUME NEW e \in Entry
        PROVE  /\ [e EXCEPT !.state = st] \in Entry /\ [e EXCEPT !.state = st].id = e.id
               /\ [e EXCEPT !.state = st].referredBy = e.referredBy /\ [e EXCEPT !.state = st].state = st
    BY DEF Entry
  <2>3. \A i \in DOMAIN all : all'[i] = IF i = f THEN [all[f] EXCEPT !.state = st] ELSE all[i]
    BY <2>1
  <2>4. all' \in [1..Len(all) -> Entry]
    BY <1>2, <1>h, <2>1, <2>2
  <2>5. all' \in Seq(Entry) /\ DOMAIN all' = DOMAIN all
    BY <1>2, <2>4
  <2>6. ASSUME NEW i \in DOMAIN all
        PROVE  /\ all'[i].id = all[i].id /\ all'[i].referredBy = all[i].referredBy
               /\ all'[i].state = IF i = f THEN st ELSE all[i].state
    <3>1. CASE i = f
      <4>1. all'[i] = [all[f] EXCEPT !.state = st] /\ all[f] \in Entry
        BY <1>h, <2>3, <3>1
      <4> QED BY <2>2, <3>1, <4>1
    <3>2. CASE i # f
      BY <2>3, <3>2
    <3> QED BY <3>1, <3>2
  <2> QED BY <2>5, <2>6
<1>4. Distinct(all') /\ (sorted' => Ascending(all'))
  BY <1>t, <1>1, <1>3 DEF Distinct, Ascending
<1>5. PeersetIInv'
  BY <1>t, <1>1, <1>3, <1>4 DEF PeersetIInv, PeersetTypeOK
<1>6. \A q : find(all', q) = find(all, q)
  <2> SUFFICES ASSUME NEW q PROVE find(all', q) = find(all, q)
    OBVIOUS
  <2>1. CASE \A i \in DOMAIN all : all[i].id # q
    <3>1. \A i \in DOMAIN all' : all'[i].id # q
      BY <1>3, <2>1
    <3> QED BY <1>t, <1>3, <1>4, <2>1, <3>1, Found
  <2>2. CASE \E i \in DOMAIN all : all[i].id = q
    <3>1. PICK i \in DOMAIN all : all[i].id = q
      BY <2>2
    <3>2. i \in DOMAIN all' /\ all'[i].id = q
      BY <1>3, <3>1
    <3> QED BY <1>t, <1>3, <1>4, <3>1, <3>2, Found
  <2> QED BY <2>1, <2>2
<1>7. \A q \in Peers : q # p => find(all, q) # f
  BY <1>t, <1>1, <1>2, Found
<1>8. find(all, p) = f /\ \A q : find(all, q) # 0 => find(all, q) \in DOMAIN all
  BY <1>t, <1>2, Found DEF f
<1>9. state[p] # "absent" /\ state' = [state EXCEPT ![p] = st]
  <2>1. state[p] # "absent"
    <3>1. state[p] = all[f].state /\ all[f] \in Entry
      BY <1>1, <1>2, <1>h, <1>8 DEF state
    <3> QED BY <3>1 DEF Entry, States
  <2>2. state' = [q \in Peers |-> IF find(all', q) = 0 THEN "absent" ELSE all'[find(all', q)].state]
    BY DEF state
  <2>3. ASSUME NEW q \in Peers PROVE state'[q] = IF q = p THEN st ELSE state[q]
    <3>1. CASE q = p
      <4>0. find(all', p) = f /\ f # 0
        BY <1>2, <1>6, <1>8
      <4>1. state'[q] = all'[f].state
        BY <2>2, <3>1, <4>0
      <4> QED BY <1>2, <1>3, <3>1, <4>1
    <3>2. CASE q # p /\ find(all, q) = 0
      BY <1>6, <2>2, <3>2 DEF state
    <3>3. CASE q # p /\ find(all, q) # 0
      <4>1. state'[q] = all'[find(all, q)].state /\ state[q] = all[find(all, q)].state
        BY <1>6, <2>2, <3>3 DEF state
      <4> QED BY <1>3, <1>7, <1>8, <3>3, <4>1
    <3> QED BY <3>1, <3>2, <3>3
  <2>4. DOMAIN state = Peers /\ DOMAIN state' = Peers /\ state = [q \in Peers |-> state[q]]
        /\ state' = [q \in Peers |-> state'[q]]
    BY DEF state
  <2>5. [state EXCEPT ![p] = st] = [q \in Peers |-> IF q = p THEN st ELSE state[q]]
    BY <2>4
  <2> QED BY <2>1, <2>3, <2>4, <2>5
<1>10. referrer' = referrer
  <2>1. \A q \in Peers : find(all, q) # 0 => all'[find(all, q)].referredBy = all[find(all, q)].referredBy
    BY <1>3, <1>8
  <2> QED BY <1>6, <2>1 DEF referrer
<1> QED BY <1>1, <1>5, <1>9, <1>10 DEF Abstract!Set

(* The slice after sort *)
LEMMA SortStep ==
  ASSUME PeersetIInv, sort
  PROVE  /\ all' \in Seq(Entry) /\ Distinct(all') /\ Ascending(all') /\ sorted' = TRUE
         /\ \A p : StateIn(all', p) = StateIn(all, p)
         /\ state' = state /\ referrer' = referrer
<1>t. all \in Seq(Entry) /\ Distinct(all) /\ sorted \in BOOLEAN /\ (sorted => Ascending(all))
  BY DEF PeersetIInv, PeersetTypeOK
<1>1. /\ all' \in Seq(Entry) /\ Distinct(all') /\ Ascending(all') /\ sorted' = TRUE
      /\ \A i \in DOMAIN all : \E j \in DOMAIN all' : all'[j] = all[i]
      /\ \A j \in DOMAIN all' : \E i \in DOMAIN all : all'[j] = all[i]
  <2>1. CASE sorted
    BY <1>t, <2>1 DEF sort
  <2>2. CASE ~sorted
    <3>1. all' \in Sorts(all) /\ sorted' = TRUE
      BY <2>2 DEF sort
    <3> QED BY <1>t, <3>1, Sorting
  <2> QED BY <1>t, <2>1, <2>2
<1>2. ASSUME NEW p
      PROVE  /\ find(all', p) = 0 <=> find(all, p) = 0
             /\ find(all, p) # 0 => all'[find(all', p)] = all[find(all, p)]
  BY <1>t, <1>1, SameMap
<1>3. \A p : StateIn(all', p) = StateIn(all, p)
  BY <1>2 DEF StateIn
<1>4. state' = state
  BY <1>2 DEF state
<1>5. referrer' = referrer
  BY <1>2 DEF referrer
<1> QED BY <1>1, <1>3, <1>4, <1>5

(* The answer is what the map promises, and the map stays. *)
LEMMA AskStep ==
  ASSUME PeersetIInv, NEW q \in Asked, GetClosestNInStates(q.n, q.states)
  PROVE  /\ PeersetIInv' /\ Abstract!Ask(q.n, q.states)
         /\ {result'.ids[k] : k \in DOMAIN result'.ids} = ClosestInStates(state, q.n, q.states)
<1> DEFINE S == Members(all', q.states)
           w == Ids(all', First(all', q.n, q.states))
<1>1. q.n \in Nat /\ q.states \in SUBSET States
  BY AskedAssumption
<1>2. sort /\ result' = [n |-> q.n, states |-> q.states, ids |-> w]
  BY DEF GetClosestNInStates, First, Hits
<1>3. /\ all' \in Seq(Entry) /\ Distinct(all') /\ Ascending(all') /\ sorted' = TRUE
      /\ \A p : StateIn(all', p) = StateIn(all, p)
      /\ state' = state /\ referrer' = referrer
  BY <1>2, SortStep
<1>4. result'.ids = w /\ result' = [n |-> q.n, states |-> q.states, ids |-> result'.ids]
  BY <1>2
<1>5. /\ Abstract!NearestFirst(w, S, q.n) /\ w \in Seq(Peers)
      /\ {w[k] : k \in DOMAIN w} = Closest(S, q.n)
  BY <1>1, <1>3, AnswerIsNearest
<1>6. S = {p \in Peers : state[p] \in q.states}
  BY <1>3, MapOf DEF Members
<1> HIDE DEF w, S
<1>7. PeersetIInv'
  BY <1>3, <1>4, <1>5 DEF PeersetIInv, PeersetTypeOK
<1>8. Abstract!Ask(q.n, q.states)
  BY <1>3, <1>4, <1>5, <1>6 DEF Abstract!Ask
<1>9. Closest(S, q.n) = ClosestInStates(state, q.n, q.states)
  BY <1>6 DEF ClosestInStates, InStates
<1> QED BY <1>4, <1>5, <1>7, <1>8, <1>9

(* A new peerset is the empty map. *)
LEMMA PeersetInit == NewQueryPeerset => PeersetIInv /\ Abstract!Init
<1> SUFFICES ASSUME NewQueryPeerset PROVE PeersetIInv /\ Abstract!Init
  OBVIOUS
<1>1. all = << >> /\ sorted = FALSE /\ result = [n |-> 0, states |-> {}, ids |-> << >>]
  BY DEF NewQueryPeerset
<1>2. PeersetIInv
  <2>1. all \in Seq(Entry) /\ DOMAIN all = {} /\ result.ids = << >> /\ << >> \in Seq(Peers)
    BY <1>1
  <2> QED BY <1>1, <2>1 DEF PeersetIInv, PeersetTypeOK, Distinct
<1>3. \A p \in Peers : find(all, p) = 0
  BY <1>1 DEF find
<1>4. state = [p \in Peers |-> "absent"] /\ referrer = [p \in Peers |-> Self]
  BY <1>3 DEF state, referrer
<1> QED BY <1>1, <1>2, <1>4 DEF Abstract!Init

(* Every step keeps the slice in order and is a step of the map. *)
LEMMA PeersetStep ==
  ASSUME PeersetIInv, [PeersetNext]_peersetVars
  PROVE  PeersetIInv' /\ [Abstract!Next]_<<state, referrer, result>>
<1>1. CASE UNCHANGED peersetVars
  <2>1. PeersetIInv'
    BY <1>1 DEF peersetVars, PeersetIInv, PeersetTypeOK, Distinct, Ascending
  <2>2. UNCHANGED <<state, referrer, result>>
    BY <1>1 DEF peersetVars, state, referrer
  <2> QED BY <2>1, <2>2
<1>2. ASSUME NEW p \in Peers, NEW r \in Referrers, TryAdd(p, r)
      PROVE  PeersetIInv' /\ [Abstract!Next]_<<state, referrer, result>>
  BY <1>2, TryAddStep DEF Abstract!Next
<1>3. ASSUME NEW p \in Peers, NEW st \in States, SetState(p, st)
      PROVE  PeersetIInv' /\ [Abstract!Next]_<<state, referrer, result>>
  BY <1>3, SetStateStep DEF Abstract!Next, Abstract!States, States
<1>4. ASSUME NEW q \in Asked, GetClosestNInStates(q.n, q.states)
      PROVE  PeersetIInv' /\ [Abstract!Next]_<<state, referrer, result>>
  BY <1>4, AskStep DEF Abstract!Next
<1> QED BY <1>1, <1>2, <1>3, <1>4 DEF PeersetNext

(* The slice has no peer twice, and is in order whenever the flag says so. *)
THEOREM PeersetInvariance == PeersetSpec => []PeersetIInv
<1>1. PeersetIInv /\ [PeersetNext]_peersetVars => PeersetIInv'
  BY PeersetStep
<1> QED BY <1>1, PeersetInit, PTL DEF PeersetSpec

(* Skipping the sort when the flag is set is sound, for any peers, states and
   questions. *)
THEOREM FlagIsSound == PeersetSpec => []PeersetInv
<1>1. PeersetIInv => PeersetInv
  BY DEF PeersetIInv, PeersetInv, SortedIsSorted, Ascending
<1> QED BY <1>1, PeersetInvariance, PTL

(* The lazily sorted slice implements the map from peers to states that the
   lookup engine works with: a peer is never added twice, states and first
   referrers survive every sort, and each answer has the n nearest peers in the
   states asked for, nearest first. *)
THEOREM SliceImplementsMap == PeersetSpec => ImplementsMap
<1>1. PeersetIInv /\ [PeersetNext]_peersetVars => [Abstract!Next]_<<state, referrer, result>>
  BY PeersetStep
<1>2. NewQueryPeerset => Abstract!Init
  BY PeersetInit
<1> QED BY <1>1, <1>2, PeersetInvariance, PTL DEF PeersetSpec, ImplementsMap, Abstract!Spec, Abstract!vars

(* The peers of an answer are those that ClosestInStates of the lookup engine
   takes from the map: the two models of the peerset agree. *)
THEOREM AnswersAreClosest ==
  PeersetSpec => [][\A q \in Asked : GetClosestNInStates(q.n, q.states) =>
                      {result'.ids[k] : k \in DOMAIN result'.ids}
                        = ClosestInStates(state, q.n, q.states)]_peersetVars
<1>1. PeersetIInv /\ [PeersetNext]_peersetVars =>
        [\A q \in Asked : GetClosestNInStates(q.n, q.states) =>
           {result'.ids[k] : k \in DOMAIN result'.ids}
             = ClosestInStates(state, q.n, q.states)]_peersetVars
  BY AskStep
<1> QED BY <1>1, PeersetInvariance, PTL DEF PeersetSpec
=============================================================================
