---------------------------- MODULE FullRTProofs ----------------------------
(***************************************************************************)
(* The full client keeps its promises for any peers, answers, keys and     *)
(* workers.  Its operations: no goroutine sends on a closed channel or     *)
(* reports twice, an answer that counts as a success has reached the       *)
(* reader, and a bulk send loses no key and repeats none.  Its table: a    *)
(* crawl loses no job and no peer, and a reader misses no peer between the *)
(* swaps of the tables.                                                    *)
(***************************************************************************)
EXTENDS FullRTOperations, FullRT, SequenceTheorems, FiniteSetTheorems, FunctionTheorems,
        TLAPS

Messages == [from : Targets \cup {Self}, item : Items]

(* What is needed of the types beyond the invariants of the modules *)
SearchTypes ==
  /\ limit \in Nat /\ cancelled \in BOOLEAN
  /\ given \in [Targets -> Answers] /\ pos \in [Targets -> Nat]
  /\ received \in Seq(Messages)
  /\ buffer = << >> \/ \E m \in Messages : buffer = <<m>>
  /\ IsFiniteSet(ps)

(* execOnMany has started no function yet. *)
NotStarted ==
  exec = "off" =>
    /\ \A p \in Targets : fn[p] = "off" /\ given[p] = << >> /\ pos[p] = 0
    /\ errCh = {} /\ numDone = 0

(* A function has a result when it is over. *)
ResultWhenDone == \A p \in Targets : fn[p] = "done" <=> result[p] # "none"

(* The order of the routine and of execOnMany, which without sloppyExit
   returns only after all functions. *)
CallOrder ==
  /\ call = "start" => exec = "off" /\ ps = {} /\ received = << >> /\ buffer = << >>
  /\ call = "over" => exec # "loop"
  /\ op = "none" => call = "over" /\ exec = "off"
  /\ exec # "off" => \A p \in Targets : fn[p] # "off"
  /\ exec = "returned" /\ ~sloppyExit => \A p \in Targets : fn[p] = "done"
  /\ op \in {"put", "none"} => \A p \in Targets : given[p] = << >>

(* Where a function is in the answer it works on. *)
Positions ==
  \A p \in Targets :
    /\ fn[p] \in {"take", "send", "check"} => pos[p] < Len(given[p])
    /\ fn[p] = "rpc" => pos[p] = 0 /\ given[p] = << >>
    /\ result[p] = "ok" => pos[p] = Len(given[p]) \/ (op = "findProviders" /\ Enough)
    /\ pos[p] <= Len(given[p])

(* A provider has one owner: the user, or one function that is sending it. *)
Sending(p) == fn[p] = "send"
Owned ==
  op = "findProviders" =>
    /\ buffer = << >>
    /\ Cardinality(Got) = Len(received)
    /\ Got \subseteq ps
    /\ findAll \/ Cardinality(ps) <= limit
    /\ \A p \in Targets : Sending(p) => Item(p) \in ps \ Got
    /\ \A p, q \in Targets : Sending(p) /\ Sending(q) /\ p # q => Item(p) # Item(q)

(* A provider that was added is with the user or being sent, or the function
   that added it was cut off. *)
AddedSent ==
  op = "findProviders" /\ (call = "exec" \/ exec # "off") =>
    \A x \in ps : x \in Got \/ CutOff(x) \/ \E p \in Targets : Sending(p) /\ Item(p) = x

(* What a function did with an item it has dealt with. *)
InBuffer == {m.item : m \in ToSet(buffer)}
Handled(x) == IF op = "findProviders" THEN x \in ps \/ Enough ELSE x \in Got \cup InBuffer
DealtWith(p) == 1..(IF fn[p] = "check" THEN pos[p] + 1 ELSE pos[p])
ItemsHandled == \A p \in Targets : \A i \in DealtWith(p) : Handled(given[p][i])

(* The reader stops only at the close of a drained channel. *)
Drained == reader = "done" => op \in {"put", "none"} \/ (call = "over" /\ buffer = << >>)

(* What concerns the items on their way to the reader *)
ItemInv == Positions /\ Owned /\ AddedSent /\ ItemsHandled

SearchIInv ==
  /\ SearchTypeOK /\ ReportsAccounted /\ SearchTypes /\ NotStarted /\ ResultWhenDone
  /\ CallOrder /\ ItemInv /\ Drained

-----------------------------------------------------------------------------
(* Bulk sends *)

Message == [peer : Servers, keys : (SUBSET Keys) \ {{}}]
BulkTypes ==
  /\ ctxDone \in BOOLEAN
  /\ keysPerPeer \subseteq Message
  /\ workCh = << >> \/ \E m \in Message : workCh = <<m>>
  /\ bulkWorker \in [BulkWorkers -> [at : {"idle", "dial", "keys", "request", "exited"},
                                     work : Message \cup {Work(0, {})}]]
  /\ \A w \in BulkWorkers :
       bulkWorker[w].work = Work(0, {}) <=> bulkWorker[w].at \in {"idle", "exited"}
  /\ tried \subseteq Servers \X Keys

(* The pairs a worker works on *)
Hand(w) == Pairs(bulkWorker[w].work)

(* The messages that wait in the channel *)
Waiting == {workCh[i] : i \in DOMAIN workCh}

(* The pairs for which something is still to be done *)
Pending ==
  UNION ({Pairs(m) : m \in keysPerPeer \cup Waiting} \cup {Hand(w) : w \in BulkWorkers})

(* A pair is in one place only. *)
OnePlace ==
  /\ \A pr \in Pending : pr \notin tried /\ pr \notin skipped
  /\ \A m, n \in keysPerPeer : m # n => Pairs(m) \cap Pairs(n) = {}
  /\ \A m \in keysPerPeer, n \in Waiting : Pairs(m) \cap Pairs(n) = {}
  /\ \A m \in keysPerPeer \cup Waiting, w \in BulkWorkers : Pairs(m) \cap Hand(w) = {}
  /\ \A v, w \in BulkWorkers : v # w => Hand(v) \cap Hand(w) = {}

(* Pairs come from the groups so far, and without cancellation none is lost. *)
Accounted ==
  /\ Pending \cup tried \cup skipped \subseteq assigned
  /\ \A pr \in assigned : pr[2] \in 1..sendsSoFar
  /\ ~ctxDone => assigned \subseteq Pending \cup tried \cup skipped

SuccessTried == \A k \in Keys : successes[k] <= Cardinality({pair \in tried : pair[2] = k})

(* The order of the main goroutine and the workers *)
BulkOrder ==
  /\ bulk # "send" => keysPerPeer = {}
  /\ bulk \in {"wait", "ok", "failed"} /\ ~ctxDone => sendsSoFar = NumKeys
  /\ bulk \in {"ok", "failed"} => \A w \in BulkWorkers : bulkWorker[w].at = "exited"
  /\ \A w \in BulkWorkers :
       bulkWorker[w].at = "exited" => workCh = << >> /\ bulk \in {"wait", "ok", "failed"}

BulkIInv == BulkTypeOK /\ BulkTypes /\ OnePlace /\ Accounted /\ SuccessTried /\ BulkOrder

IInv == SearchIInv /\ BulkIInv

-----------------------------------------------------------------------------
(* Lemmas about numbers and messages *)

(* A set of numbers that is not empty has a least element. *)
LEMMA MinExists ==
  ASSUME NEW S \in SUBSET Nat, S # {}
  PROVE  Min(S) \in S
<1>1. PICK x \in S : \A y \in S : <<y, x>> \notin OpToRel(<, Nat)
  BY NatLessThanWellFounded, WFMin
<1>2. \A y \in S : x <= y
  <2>1. \A y \in S : ~(y < x)
    BY <1>1 DEF OpToRel
  <2> QED
    BY <2>1
<1> QED
  BY <1>2 DEF Min

(* The lesser and the greater of two numbers *)
LEMMA OfTwo ==
  ASSUME NEW a \in Nat, NEW b \in Nat
  PROVE  /\ Min({a, b}) \in {a, b} /\ Min({a, b}) <= a /\ Min({a, b}) <= b
         /\ Max({a, b}) \in {a, b}
<1>1. \E x \in {a, b} : \A y \in {a, b} : x <= y
  OBVIOUS
<1>2. \E x \in {a, b} : \A y \in {a, b} : x >= y
  OBVIOUS
<1> QED
  BY <1>1, <1>2 DEF Min, Max

(* What is pending, place by place *)
LEMMA PendingIn ==
  \A pr : pr \in Pending <=> \/ \E m \in keysPerPeer : pr \in Pairs(m)
                             \/ \E m \in Waiting : pr \in Pairs(m)
                             \/ \E w \in BulkWorkers : pr \in Hand(w)
  BY DEF Pending

(* A worker at work has a message with a key. *)
LEMMA WorkerMessage ==
  ASSUME BulkTypes, NEW w \in BulkWorkers, bulkWorker[w].at \in {"dial", "keys", "request"}
  PROVE  /\ bulkWorker[w].work \in Message
         /\ PeerOf(w) \in Servers /\ KeysOf(w) \in SUBSET Keys /\ NextKey(w) \in KeysOf(w)
         /\ NextKey(w) \in Keys
         /\ <<PeerOf(w), NextKey(w)>> \in Hand(w) /\ <<PeerOf(w), NextKey(w)>> \in Servers \X Keys
<1>1. bulkWorker[w].work \in Message
  BY DEF BulkTypes
<1>2. PeerOf(w) \in Servers /\ KeysOf(w) \in SUBSET Keys /\ KeysOf(w) # {}
  BY <1>1 DEF Message, PeerOf, KeysOf
<1>3. KeysOf(w) \in SUBSET Nat
  BY <1>2, BulkAssumption DEF Keys
<1>4. NextKey(w) \in KeysOf(w)
  BY <1>2, <1>3, MinExists DEF NextKey
<1>5. <<PeerOf(w), NextKey(w)>> \in Hand(w)
  BY <1>4 DEF Hand, Pairs, PeerOf, KeysOf
<1> QED
  BY <1>1, <1>2, <1>4, <1>5

(* One key leaves the hand of a worker. *)
LEMMA KeyLeaves ==
  ASSUME BulkTypes, NEW w \in BulkWorkers, bulkWorker[w].at \in {"keys", "request"}, KeyDone(w)
  PROVE  /\ bulkWorker' \in [BulkWorkers -> [at : {"idle", "dial", "keys", "request", "exited"},
                                            work : Message \cup {Work(0, {})}]]
         /\ \A v \in BulkWorkers :
              bulkWorker'[v].work = Work(0, {}) <=> bulkWorker'[v].at \in {"idle", "exited"}
         /\ \A v \in BulkWorkers : v # w => bulkWorker'[v] = bulkWorker[v]
         /\ bulkWorker'[w].at # "exited"
         /\ Hand(w)' = Hand(w) \ {<<PeerOf(w), NextKey(w)>>}
<1> DEFINE k == NextKey(w)
           W == IF KeysOf(w) = {k} THEN BulkIdle
                ELSE [at |-> "keys", work |-> Work(PeerOf(w), KeysOf(w) \ {k})]
<1>1. /\ PeerOf(w) \in Servers /\ KeysOf(w) \in SUBSET Keys /\ k \in KeysOf(w)
      /\ Hand(w) = {<<PeerOf(w), j>> : j \in KeysOf(w)}
  BY WorkerMessage DEF Hand, Pairs, PeerOf, KeysOf
<1>2. bulkWorker' = [bulkWorker EXCEPT ![w] = W]
  BY DEF KeyDone
<1>3. /\ W \in [at : {"idle", "dial", "keys", "request", "exited"}, work : Message \cup {Work(0, {})}]
      /\ W.work = Work(0, {}) <=> W.at \in {"idle", "exited"}
      /\ W.at # "exited"
      /\ W.work.peer = PeerOf(w) \/ W.work.keys = {}
      /\ W.work.keys = KeysOf(w) \ {k}
  <2>1. CASE KeysOf(w) = {k}
    BY <2>1 DEF BulkIdle, Work
  <2>2. CASE KeysOf(w) # {k}
    <3>1. Work(PeerOf(w), KeysOf(w) \ {k}) \in Message /\ Work(PeerOf(w), KeysOf(w) \ {k}) # Work(0, {})
      BY <1>1, <2>2 DEF Message, Work
    <3> QED
      BY <2>2, <3>1 DEF Work
  <2> QED
    BY <2>1, <2>2
<1> HIDE DEF W, k
<1>4. bulkWorker \in [BulkWorkers -> [at : {"idle", "dial", "keys", "request", "exited"},
                                     work : Message \cup {Work(0, {})}]]
  BY DEF BulkTypes
<1>5. bulkWorker'[w] = W /\ \A v \in BulkWorkers : v # w => bulkWorker'[v] = bulkWorker[v]
  BY <1>2, <1>4
<1>6. Hand(w)' = Hand(w) \ {<<PeerOf(w), k>>}
  <2>1. Hand(w)' = {<<W.work.peer, j>> : j \in W.work.keys}
    BY <1>5 DEF Hand, Pairs
  <2> QED
    BY <1>1, <1>3, <2>1
<1> QED
  BY <1>2, <1>3, <1>4, <1>5, <1>6 DEF BulkTypes, k

-----------------------------------------------------------------------------
(* The steps of a bulk send *)

(* The requests for a key are finitely many; one more is counted. *)
LEMMA TriesCount ==
  ASSUME BulkTypes, NEW k, NEW T \in SUBSET (Servers \X Keys), tried \subseteq T
  PROVE  LET Old == {pair \in tried : pair[2] = k}
             New == {pair \in T : pair[2] = k}
         IN  /\ Cardinality(Old) \in Nat /\ Cardinality(New) \in Nat
             /\ Cardinality(Old) <= Cardinality(New)
             /\ \A x \in T : x \notin tried /\ x[2] = k => Cardinality(Old) + 1 <= Cardinality(New)
<1> DEFINE Old == {pair \in tried : pair[2] = k}
           New == {pair \in T : pair[2] = k}
<1>1. IsFiniteSet(Servers \X Keys)
  <2>1. IsFiniteSet(Keys)
    BY BulkAssumption, FS_Interval DEF Keys
  <2> QED
    BY <2>1, BulkAssumption, FS_Product
<1>2. IsFiniteSet(New) /\ Cardinality(New) \in Nat
  <2>1. New \in SUBSET (Servers \X Keys)
    OBVIOUS
  <2> QED
    BY <1>1, <2>1, FS_Subset, FS_CardinalityType
<1>3. Old \in SUBSET New
  OBVIOUS
<1>4. IsFiniteSet(Old) /\ Cardinality(Old) \in Nat /\ Cardinality(Old) <= Cardinality(New)
  BY <1>2, <1>3, FS_Subset, FS_CardinalityType
<1>5. ASSUME NEW x \in T, x \notin tried, x[2] = k PROVE Cardinality(Old) + 1 <= Cardinality(New)
  <2>1. Old \cup {x} \in SUBSET New /\ x \notin Old
    BY <1>5
  <2>2. Cardinality(Old \cup {x}) = Cardinality(Old) + 1
    BY <1>4, <2>1, FS_AddElement
  <2>3. Cardinality(Old \cup {x}) <= Cardinality(New)
    BY <1>2, <2>1, FS_Subset
  <2> QED
    BY <2>2, <2>3
<1> QED
  BY <1>2, <1>4, <1>5

(* A worker w finishes something, or nothing: what leaves its hand goes to
   tried or skipped, unless the context is done. *)
LEMMA HandStep ==
  ASSUME BulkIInv, NEW w \in BulkWorkers, bulkWorker[w].at # "exited",
         UNCHANGED <<bulk, ctxDone, chunkSize, sendsSoFar, keysPerPeer, workCh, assigned>>,
         bulkWorker' \in [BulkWorkers -> [at : {"idle", "dial", "keys", "request", "exited"},
                                         work : Message \cup {Work(0, {})}]],
         \A v \in BulkWorkers :
           bulkWorker'[v].work = Work(0, {}) <=> bulkWorker'[v].at \in {"idle", "exited"},
         \A v \in BulkWorkers : v # w => bulkWorker'[v] = bulkWorker[v],
         bulkWorker'[w].at = "exited" => workCh = << >> /\ bulk = "wait",
         Hand(w)' \subseteq Hand(w),
         tried \subseteq tried', tried' \subseteq tried \cup (Hand(w) \ Hand(w)'),
         skipped \subseteq skipped', skipped' \subseteq skipped \cup (Hand(w) \ Hand(w)'),
         ~ctxDone => Hand(w) \subseteq Hand(w)' \cup tried' \cup skipped',
         tried' \subseteq Servers \X Keys,
         successes' \in [Keys -> Nat], SuccessTried'
  PROVE  BulkIInv'
<1>t. BulkTypeOK /\ BulkTypes /\ OnePlace /\ Accounted /\ BulkOrder
  BY DEF BulkIInv
<1>1. \A v \in BulkWorkers : v # w => Hand(v)' = Hand(v)
  BY DEF Hand
<1>2. \A v \in BulkWorkers : Hand(v)' \subseteq Hand(v)
  BY <1>1
<1>3. Waiting' = Waiting
  BY DEF Waiting
<1>4. \A pr : pr \in Pending <=> \/ \E m \in keysPerPeer : pr \in Pairs(m)
                                 \/ \E m \in Waiting : pr \in Pairs(m)
                                 \/ \E v \in BulkWorkers : pr \in Hand(v)
  BY PendingIn
<1>5. \A pr : pr \in Pending' <=> \/ \E m \in keysPerPeer : pr \in Pairs(m)
                                  \/ \E m \in Waiting : pr \in Pairs(m)
                                  \/ \E v \in BulkWorkers : pr \in Hand(v)'
  BY <1>3 DEF Pending
<1>6. BulkTypeOK'
  BY <1>t DEF BulkTypeOK
<1>7. BulkTypes'
  BY <1>t DEF BulkTypes
<1>8. OnePlace'
  <2>1. ASSUME NEW pr \in Pending' PROVE pr \notin tried' /\ pr \notin skipped'
    <3>1. pr \in Pending
      BY <1>2, <1>4, <1>5, <2>1
    <3>2. pr \notin tried /\ pr \notin skipped
      BY <1>t, <3>1 DEF OnePlace
    <3>3. pr \notin Hand(w) \ Hand(w)'
      <4>1. CASE \E m \in keysPerPeer \cup Waiting : pr \in Pairs(m)
        BY <1>t, <4>1 DEF OnePlace
      <4>2. CASE \E v \in BulkWorkers : v # w /\ pr \in Hand(v)'
        BY <1>t, <1>1, <4>2 DEF OnePlace
      <4>3. CASE pr \in Hand(w)'
        BY <4>3
      <4> QED
        BY <1>5, <2>1, <4>1, <4>2, <4>3
    <3> QED
      BY <3>2, <3>3
  <2>2. ASSUME NEW m \in keysPerPeer \cup Waiting, NEW v \in BulkWorkers PROVE Pairs(m) \cap Hand(v)' = {}
    <3>1. Pairs(m) \cap Hand(v) = {}
      BY <1>t DEF OnePlace
    <3> QED
      BY <1>2, <3>1
  <2>3. ASSUME NEW u \in BulkWorkers, NEW v \in BulkWorkers, u # v PROVE Hand(u)' \cap Hand(v)' = {}
    <3>1. Hand(u) \cap Hand(v) = {}
      BY <1>t, <2>3 DEF OnePlace
    <3> QED
      BY <1>2, <3>1
  <2>4. /\ \A m, n \in keysPerPeer : m # n => Pairs(m) \cap Pairs(n) = {}
        /\ \A m \in keysPerPeer, n \in Waiting : Pairs(m) \cap Pairs(n) = {}
    BY <1>t DEF OnePlace
  <2>5. /\ \A pr \in Pending' : pr \notin tried' /\ pr \notin skipped'
        /\ \A m \in keysPerPeer \cup Waiting, v \in BulkWorkers : Pairs(m) \cap Hand(v)' = {}
        /\ \A u, v \in BulkWorkers : u # v => Hand(u)' \cap Hand(v)' = {}
    BY <2>1, <2>2, <2>3
  <2> QED
    BY <1>3, <2>4, <2>5 DEF OnePlace, Pairs
<1>9. Accounted'
  <2>1. Pending' \cup tried' \cup skipped' \subseteq Pending \cup tried \cup skipped
    BY <1>2, <1>4, <1>5
  <2>2. ~ctxDone => Pending \cup tried \cup skipped \subseteq Pending' \cup tried' \cup skipped'
    BY <1>1, <1>4, <1>5
  <2> QED
    BY <1>t, <2>1, <2>2 DEF Accounted
<1>10. BulkOrder'
  BY <1>t DEF BulkOrder
<1> QED
  BY <1>6, <1>7, <1>8, <1>9, <1>10 DEF BulkIInv

(* The steps of a worker *)
LEMMA BulkWorkerStep ==
  ASSUME BulkIInv, NEW w \in BulkWorkers, BulkWork(w)
  PROVE  BulkIInv'
<1>t. BulkTypeOK /\ BulkTypes /\ OnePlace /\ Accounted /\ SuccessTried /\ BulkOrder
  BY DEF BulkIInv
<1>s. successes \in [Keys -> Nat] /\ tried \subseteq Servers \X Keys
  BY <1>t DEF BulkTypeOK, BulkTypes
<1>b. /\ bulkWorker \in [BulkWorkers -> [at : {"idle", "dial", "keys", "request", "exited"},
                                        work : Message \cup {Work(0, {})}]]
      /\ \A v \in BulkWorkers :
           bulkWorker[v].work = Work(0, {}) <=> bulkWorker[v].at \in {"idle", "exited"}
  BY <1>t DEF BulkTypes
<1>h. BulkIdle = [at |-> "idle", work |-> Work(0, {})] /\ Pairs(Work(0, {})) = {}
  BY DEF BulkIdle, Pairs, Work
<1> DEFINE x == <<PeerOf(w), NextKey(w)>>
<1>u. ASSUME UNCHANGED <<tried, successes>> PROVE SuccessTried'
  BY <1>t, <1>u DEF SuccessTried
<1>1. CASE TakeWork(w)
  <2>1. /\ bulkWorker[w].at = "idle" /\ workCh # << >> /\ workCh' = << >>
        /\ bulkWorker' = [bulkWorker EXCEPT ![w] = [at |-> "dial", work |-> Head(workCh)]]
        /\ UNCHANGED <<bulk, ctxDone, chunkSize, sendsSoFar, keysPerPeer, successes, assigned, tried, skipped>>
    BY <1>1 DEF TakeWork, history
  <2>2. PICK m \in Message : workCh = <<m>>
    BY <1>t, <2>1 DEF BulkTypes
  <2>3. Head(workCh) = m /\ Waiting = {m} /\ Waiting' = {}
    BY <2>1, <2>2 DEF Waiting
  <2>4. bulkWorker'[w] = [at |-> "dial", work |-> m] /\ \A v \in BulkWorkers : v # w => bulkWorker'[v] = bulkWorker[v]
    BY <1>b, <2>1, <2>3
  <2>5. Hand(w) = {} /\ Hand(w)' = Pairs(m) /\ \A v \in BulkWorkers : v # w => Hand(v)' = Hand(v)
    BY <1>b, <1>h, <2>1, <2>4 DEF Hand
  <2>6. Pending' = Pending
    <3>1. \A pr : pr \in Pending <=> \/ \E n \in keysPerPeer : pr \in Pairs(n)
                                     \/ \E n \in Waiting : pr \in Pairs(n)
                                     \/ \E v \in BulkWorkers : pr \in Hand(v)
      BY PendingIn
    <3>2. \A pr : pr \in Pending' <=> \/ \E n \in keysPerPeer : pr \in Pairs(n)
                                      \/ \E v \in BulkWorkers : pr \in Hand(v)'
      BY <2>1, <2>3 DEF Pending
    <3>3. \A pr : pr \in Pending' <=> pr \in Pending
      BY <2>3, <2>5, <3>1, <3>2
    <3> QED
      BY <3>3
  <2>7. BulkTypeOK'
    BY <1>t, <1>b, <2>1, <2>4 DEF BulkTypeOK
  <2>8. BulkTypes'
    <3>1. m # Work(0, {})
      BY DEF Message, Work
    <3>2. bulkWorker' \in [BulkWorkers -> [at : {"idle", "dial", "keys", "request", "exited"},
                                          work : Message \cup {Work(0, {})}]]
      BY <1>b, <2>1, <2>3
    <3> QED
      BY <1>t, <1>b, <2>1, <2>4, <3>1, <3>2 DEF BulkTypes
  <2>9. OnePlace'
    <3>1. /\ \A n \in keysPerPeer, v \in BulkWorkers : Pairs(n) \cap Hand(v)' = {}
          /\ \A u, v \in BulkWorkers : u # v => Hand(u)' \cap Hand(v)' = {}
      BY <1>t, <2>3, <2>5 DEF OnePlace
    <3>2. \A n \in keysPerPeer \cup Waiting' : n \in keysPerPeer
      BY <2>3
    <3>3. /\ \A pr \in Pending : pr \notin tried /\ pr \notin skipped
          /\ \A n, o \in keysPerPeer : n # o => Pairs(n) \cap Pairs(o) = {}
      BY <1>t DEF OnePlace
    <3> QED
      BY <2>1, <2>3, <2>6, <3>1, <3>2, <3>3 DEF OnePlace, Pairs
  <2>10. Accounted'
    BY <1>t, <2>1, <2>6 DEF Accounted
  <2>11. BulkOrder'
    BY <1>t, <2>1, <2>4 DEF BulkOrder
  <2> QED
    BY <1>u, <2>1, <2>7, <2>8, <2>9, <2>10, <2>11 DEF BulkIInv
<1>2. CASE DialFails(w)
  <2>1. /\ bulkWorker[w].at = "dial" /\ bulkWorker' = [bulkWorker EXCEPT ![w] = BulkIdle]
        /\ skipped' = skipped \cup Hand(w)
        /\ UNCHANGED <<bulk, ctxDone, chunkSize, sendsSoFar, keysPerPeer, workCh, successes, assigned, tried>>
    BY <1>2 DEF DialFails, Hand
  <2>2. bulkWorker'[w] = BulkIdle /\ \A v \in BulkWorkers : v # w => bulkWorker'[v] = bulkWorker[v]
    BY <1>b, <2>1
  <2>3. Hand(w)' = {}
    BY <1>h, <2>2 DEF Hand
  <2>4. bulkWorker' \in [BulkWorkers -> [at : {"idle", "dial", "keys", "request", "exited"},
                                        work : Message \cup {Work(0, {})}]]
    BY <1>b, <1>h, <2>1
  <2> QED
    BY <1>u, <1>s, <1>b, <1>h, <2>1, <2>2, <2>3, <2>4, HandStep
<1>3. CASE Connected(w) \/ SendKey(w) \/ BulkWorkerExits(w)
  <2>1. PICK l \in {"keys", "request", "exited"} :
          /\ bulkWorker' = [bulkWorker EXCEPT ![w].at = l]
          /\ bulkWorker[w].at # "exited" /\ (l = "exited" <=> bulkWorker[w].at = "idle")
          /\ l = "exited" => workCh = << >> /\ bulk = "wait"
    BY <1>3 DEF Connected, SendKey, BulkWorkerExits
  <2>2. UNCHANGED <<bulk, ctxDone, chunkSize, sendsSoFar, keysPerPeer, workCh, successes, assigned, tried, skipped>>
    BY <1>3 DEF Connected, SendKey, BulkWorkerExits, history
  <2>3. /\ bulkWorker'[w].at = l /\ bulkWorker'[w].work = bulkWorker[w].work
        /\ \A v \in BulkWorkers : v # w => bulkWorker'[v] = bulkWorker[v]
    BY <1>b, <2>1
  <2>4. Hand(w)' = Hand(w)
    BY <2>3 DEF Hand
  <2>5. bulkWorker' \in [BulkWorkers -> [at : {"idle", "dial", "keys", "request", "exited"},
                                        work : Message \cup {Work(0, {})}]]
    BY <1>b, <2>1
  <2>6. \A v \in BulkWorkers :
           bulkWorker'[v].work = Work(0, {}) <=> bulkWorker'[v].at \in {"idle", "exited"}
    BY <1>b, <2>1, <2>3
  <2> QED
    BY <1>u, <1>s, <2>1, <2>2, <2>3, <2>4, <2>5, <2>6, HandStep
<1>4. CASE SkipKey(w)
  <2>1. /\ bulkWorker[w].at = "keys" /\ KeyDone(w) /\ skipped' = skipped \cup {x}
        /\ UNCHANGED <<bulk, ctxDone, chunkSize, sendsSoFar, keysPerPeer, workCh, successes, assigned, tried>>
    BY <1>4 DEF SkipKey
  <2>2. x \in Hand(w) /\ Hand(w)' = Hand(w) \ {x}
    BY <1>t, <2>1, KeyLeaves, WorkerMessage
  <2> QED
    BY <1>t, <1>u, <1>s, <2>1, <2>2, KeyLeaves, HandStep
<1>5. CASE KeyStored(w)
  <2>1. /\ bulkWorker[w].at = "request" /\ KeyDone(w) /\ tried' = tried \cup {x}
        /\ successes' = [successes EXCEPT ![NextKey(w)] = @ + 1]
        /\ UNCHANGED <<bulk, ctxDone, chunkSize, sendsSoFar, keysPerPeer, workCh, assigned, skipped>>
    BY <1>5 DEF KeyStored
  <2>2. x \in Hand(w) /\ Hand(w)' = Hand(w) \ {x} /\ NextKey(w) \in Keys /\ x \in Servers \X Keys
    BY <1>t, <2>1, KeyLeaves, WorkerMessage
  <2>3. x \notin tried
    BY <1>t, <2>2, PendingIn DEF OnePlace
  <2>4. SuccessTried'
    <3> SUFFICES ASSUME NEW k \in Keys
                 PROVE  successes'[k] <= Cardinality({pair \in tried' : pair[2] = k})
      BY DEF SuccessTried
    <3>1. successes[k] \in Nat /\ successes[k] <= Cardinality({pair \in tried : pair[2] = k})
      BY <1>t, <1>s DEF SuccessTried
    <3>2. tried' \in SUBSET (Servers \X Keys) /\ tried \subseteq tried' /\ x \in tried'
      BY <1>s, <2>1, <2>2
    <3>3. /\ Cardinality({pair \in tried : pair[2] = k}) \in Nat
          /\ Cardinality({pair \in tried' : pair[2] = k}) \in Nat
          /\ Cardinality({pair \in tried : pair[2] = k}) <= Cardinality({pair \in tried' : pair[2] = k})
          /\ x[2] = k => Cardinality({pair \in tried : pair[2] = k}) + 1
                           <= Cardinality({pair \in tried' : pair[2] = k})
      BY <1>t, <2>3, <3>2, TriesCount
    <3>4. successes'[k] = IF k = NextKey(w) THEN successes[k] + 1 ELSE successes[k]
      BY <1>s, <2>1, <2>2
    <3> QED
      BY <3>1, <3>3, <3>4
  <2>5. successes' \in [Keys -> Nat] /\ tried' \subseteq Servers \X Keys
    BY <1>s, <2>1, <2>2
  <2> QED
    BY <1>t, <2>1, <2>2, <2>4, <2>5, KeyLeaves, HandStep
<1>6. CASE KeyFails(w)
  <2>1. /\ bulkWorker[w].at = "request" /\ tried' = tried \cup {x}
        /\ UNCHANGED <<bulk, ctxDone, chunkSize, sendsSoFar, keysPerPeer, workCh, successes, assigned, skipped>>
        /\ IF ctxDone THEN bulkWorker' = [bulkWorker EXCEPT ![w] = BulkIdle] ELSE KeyDone(w)
    BY <1>6 DEF KeyFails
  <2>2. x \in Hand(w) /\ x \in Servers \X Keys
    BY <1>t, <2>1, WorkerMessage
  <2>3. tried' \in SUBSET (Servers \X Keys) /\ tried \subseteq tried'
    BY <1>s, <2>1, <2>2
  <2>4. SuccessTried'
    <3> SUFFICES ASSUME NEW k \in Keys
                 PROVE  successes'[k] <= Cardinality({pair \in tried' : pair[2] = k})
      BY DEF SuccessTried
    <3>1. successes[k] \in Nat /\ successes[k] <= Cardinality({pair \in tried : pair[2] = k})
      BY <1>t, <1>s DEF SuccessTried
    <3>2. /\ Cardinality({pair \in tried : pair[2] = k}) \in Nat
          /\ Cardinality({pair \in tried' : pair[2] = k}) \in Nat
          /\ Cardinality({pair \in tried : pair[2] = k}) <= Cardinality({pair \in tried' : pair[2] = k})
      BY <1>t, <2>3, TriesCount
    <3> QED
      BY <2>1, <3>1, <3>2
  <2>5. CASE ctxDone
    <3>1. bulkWorker'[w] = BulkIdle /\ \A v \in BulkWorkers : v # w => bulkWorker'[v] = bulkWorker[v]
      BY <1>b, <2>1, <2>5
    <3>2. Hand(w)' = {}
      BY <1>h, <3>1 DEF Hand
    <3>3. bulkWorker' \in [BulkWorkers -> [at : {"idle", "dial", "keys", "request", "exited"},
                                          work : Message \cup {Work(0, {})}]]
      BY <1>b, <1>h, <2>1, <2>5
    <3>4. \A v \in BulkWorkers :
            bulkWorker'[v].work = Work(0, {}) <=> bulkWorker'[v].at \in {"idle", "exited"}
      BY <1>b, <1>h, <3>1
    <3>5. bulkWorker'[w].at # "exited" /\ tried' \subseteq tried \cup (Hand(w) \ Hand(w)')
      BY <1>h, <2>1, <2>2, <3>1, <3>2
    <3> QED
      BY <1>s, <2>1, <2>3, <2>4, <2>5, <3>1, <3>2, <3>3, <3>4, <3>5, HandStep
  <2>6. CASE ~ctxDone
    <3>1. KeyDone(w)
      BY <2>1, <2>6
    <3>2. /\ bulkWorker' \in [BulkWorkers -> [at : {"idle", "dial", "keys", "request", "exited"},
                                             work : Message \cup {Work(0, {})}]]
          /\ \A v \in BulkWorkers :
               bulkWorker'[v].work = Work(0, {}) <=> bulkWorker'[v].at \in {"idle", "exited"}
          /\ \A v \in BulkWorkers : v # w => bulkWorker'[v] = bulkWorker[v]
          /\ bulkWorker'[w].at # "exited"
          /\ Hand(w)' = Hand(w) \ {x}
      BY <1>t, <2>1, <3>1, KeyLeaves
    <3> QED
      BY <1>s, <2>1, <2>2, <2>3, <2>4, <3>2, HandStep
  <2> QED
    BY <2>5, <2>6
<1> QED
  BY <1>1, <1>2, <1>3, <1>4, <1>5, <1>6 DEF BulkWork

(* A step that moves no message. *)
LEMMA PlacesRest ==
  ASSUME BulkIInv, ctxDone => ctxDone',
         UNCHANGED <<keysPerPeer, workCh, bulkWorker, sendsSoFar, successes, assigned, tried, skipped>>
  PROVE  OnePlace' /\ Accounted' /\ SuccessTried'
<1>t. OnePlace /\ Accounted /\ SuccessTried
  BY DEF BulkIInv
<1>1. Waiting' = Waiting /\ \A w \in BulkWorkers : Hand(w)' = Hand(w)
  BY DEF Waiting, Hand
<1>2. Pending' = Pending
  BY <1>1 DEF Pending
<1>3. OnePlace'
  BY <1>t, <1>1, <1>2 DEF OnePlace
<1> QED
  BY <1>t, <1>2, <1>3 DEF Accounted, SuccessTried

(* The next group has keys that no group before it had. *)
LEMMA GroupIsNew ==
  ASSUME BulkTypeOK
  PROVE  /\ Group \subseteq Keys /\ Cardinality(Group) \in Nat
         /\ sendsSoFar + Cardinality(Group) \in 0..NumKeys
         /\ \A k \in Group : k \notin 1..sendsSoFar /\ k \in 1..(sendsSoFar + Cardinality(Group))
<1> DEFINE hi == Min({sendsSoFar + chunkSize, NumKeys})
<1>1. sendsSoFar \in 0..NumKeys /\ chunkSize \in Nat /\ NumKeys \in Nat /\ sendsSoFar + chunkSize \in Nat
  BY BulkAssumption DEF BulkTypeOK
<1>2. hi \in {sendsSoFar + chunkSize, NumKeys} /\ hi <= NumKeys /\ hi \in Nat
  BY <1>1, OfTwo
<1> HIDE DEF hi
<1>3. hi >= sendsSoFar
  BY <1>1, <1>2
<1>4. Group = (sendsSoFar + 1)..hi
  BY DEF Group, hi
<1>5. Cardinality(Group) = hi - sendsSoFar
  <2>1. sendsSoFar + 1 \in Int /\ hi \in Int
    BY <1>1, <1>2
  <2>2. Cardinality((sendsSoFar + 1)..hi) = IF sendsSoFar + 1 > hi THEN 0 ELSE hi - (sendsSoFar + 1) + 1
    BY <2>1, FS_Interval
  <2> QED
    BY <1>1, <1>2, <1>3, <1>4, <2>2
<1> QED
  BY <1>1, <1>2, <1>3, <1>4, <1>5 DEF Keys

(* A group is collected: a message for each peer near to one of its keys. *)
LEMMA GroupStep ==
  ASSUME BulkIInv, NextGroup
  PROVE  BulkIInv'
<1>t. BulkTypeOK /\ BulkTypes /\ OnePlace /\ Accounted /\ SuccessTried /\ BulkOrder
  BY DEF BulkIInv
<1>1. /\ bulk = "groups" /\ bulk' = "send" /\ sendsSoFar' = sendsSoFar + Cardinality(Group)
      /\ UNCHANGED <<ctxDone, chunkSize, workCh, bulkWorker, successes, tried, skipped>>
  BY DEF NextGroup
<1>2. PICK closest \in [Group -> {s \in SUBSET Servers : Cardinality(s) <= bucketSize}] :
        /\ keysPerPeer' = {Work(p, {k \in Group : p \in closest[k]}) : p \in UNION {closest[k] : k \in Group}}
        /\ assigned' = assigned \cup {pair \in Servers \X Group : pair[1] \in closest[pair[2]]}
  BY DEF NextGroup
<1> DEFINE new == {pair \in Servers \X Group : pair[1] \in closest[pair[2]]}
<1>3. /\ Group \subseteq Keys /\ sendsSoFar' \in 0..NumKeys /\ sendsSoFar \in 0..NumKeys
      /\ \A k \in Group : k \notin 1..sendsSoFar /\ k \in 1..sendsSoFar'
  BY <1>t, <1>1, GroupIsNew DEF BulkTypeOK
<1>4. \A k \in Group : closest[k] \subseteq Servers
  BY <1>2
<1>5. ASSUME NEW m \in keysPerPeer'
      PROVE  /\ m \in Message /\ Pairs(m) \subseteq new
             /\ \A pr \in Pairs(m) : pr[1] = m.peer
             /\ m = Work(m.peer, {k \in Group : m.peer \in closest[k]})
  <2>1. PICK p \in UNION {closest[k] : k \in Group} : m = Work(p, {k \in Group : p \in closest[k]})
    BY <1>2, <1>5
  <2>2. p \in Servers /\ {k \in Group : p \in closest[k]} # {}
    BY <1>4
  <2>3. m.peer = p /\ m.keys = {k \in Group : p \in closest[k]}
    BY <2>1 DEF Work
  <2>4. m \in Message
    BY <1>3, <2>1, <2>2 DEF Message, Work
  <2>5. Pairs(m) \subseteq new /\ \A pr \in Pairs(m) : pr[1] = m.peer
    BY <2>2, <2>3 DEF Pairs
  <2> QED
    BY <2>1, <2>3, <2>4, <2>5
<1>6. ASSUME NEW pr \in new PROVE \E m \in keysPerPeer' : pr \in Pairs(m)
  <2>1. PICK p \in Servers, k \in Group : pr = <<p, k>> /\ p \in closest[k]
    <3>1. pr[1] \in Servers /\ pr[2] \in Group /\ pr = <<pr[1], pr[2]>> /\ pr[1] \in closest[pr[2]]
      OBVIOUS
    <3> QED
      BY <3>1
  <2> DEFINE m == Work(p, {j \in Group : p \in closest[j]})
  <2>2. m \in keysPerPeer'
    BY <1>2, <2>1
  <2>3. pr \in Pairs(m)
    BY <2>1 DEF Pairs, Work
  <2> QED
    BY <2>2, <2>3
<1>7. keysPerPeer = {}
  BY <1>t, <1>1 DEF BulkOrder
<1>8. new \cap assigned = {}
  <2>1. \A pr \in new : pr[2] \in Group
    OBVIOUS
  <2> QED
    BY <1>t, <1>3, <2>1 DEF Accounted
<1>9. assigned' = assigned \cup new
  BY <1>2
<1> HIDE DEF new
<1>10. Waiting' = Waiting /\ \A w \in BulkWorkers : Hand(w)' = Hand(w)
  BY <1>1 DEF Waiting, Hand
<1>11. Pending' = Pending \cup new
  <2>1. \A pr : pr \in Pending <=> \/ \E m \in Waiting : pr \in Pairs(m)
                                   \/ \E w \in BulkWorkers : pr \in Hand(w)
    BY <1>7, PendingIn
  <2>2. \A pr : pr \in Pending' <=> \/ \E m \in keysPerPeer' : pr \in Pairs(m)
                                    \/ \E m \in Waiting : pr \in Pairs(m)
                                    \/ \E w \in BulkWorkers : pr \in Hand(w)
    BY <1>10 DEF Pending
  <2>3. \A pr : pr \in Pending' <=> pr \in Pending \/ pr \in new
    BY <1>5, <1>6, <2>1, <2>2
  <2> QED
    BY <2>3
<1>12. Pending \cup tried \cup skipped \subseteq assigned
  BY <1>t DEF Accounted
<1>13. BulkTypeOK'
  BY <1>t, <1>1, <1>3 DEF BulkTypeOK
<1>14. BulkTypes'
  <2>1. keysPerPeer' \subseteq Message
    BY <1>5
  <2> QED
    BY <1>t, <1>1, <2>1 DEF BulkTypes
<1>15. OnePlace'
  <2>1. \A pr \in Pending' : pr \notin tried' /\ pr \notin skipped'
    BY <1>t, <1>1, <1>8, <1>11, <1>12 DEF OnePlace
  <2>2. ASSUME NEW m \in keysPerPeer', NEW n \in keysPerPeer', m # n PROVE Pairs(m) \cap Pairs(n) = {}
    <3>1. m.peer # n.peer
      BY <1>5, <2>2
    <3> QED
      BY <1>5, <3>1
  <2>3. \A n \in Waiting : Pairs(n) \subseteq assigned
    BY <1>12, PendingIn
  <2>4. \A w \in BulkWorkers : Hand(w) \subseteq assigned
    BY <1>12, PendingIn
  <2>5. ASSUME NEW m \in keysPerPeer', NEW n \in Waiting' PROVE Pairs(m) \cap Pairs(n) = {}
    BY <1>5, <1>8, <1>10, <2>3
  <2>6. ASSUME NEW m \in keysPerPeer' \cup Waiting', NEW w \in BulkWorkers PROVE Pairs(m) \cap Hand(w)' = {}
    <3>1. CASE m \in keysPerPeer'
      <4>1. Pairs(m) \subseteq new /\ Hand(w)' = Hand(w) /\ Hand(w) \subseteq assigned
        BY <1>5, <1>10, <2>4, <3>1
      <4> QED
        BY <1>8, <4>1
    <3>2. CASE m \in Waiting
      BY <1>t, <1>10, <3>2 DEF OnePlace
    <3> QED
      BY <1>10, <3>1, <3>2
  <2>7. \A v, w \in BulkWorkers : v # w => Hand(v)' \cap Hand(w)' = {}
    BY <1>t, <1>10 DEF OnePlace
  <2> QED
    BY <2>1, <2>2, <2>5, <2>6, <2>7 DEF OnePlace
<1>16. Accounted'
  <2>1. \A pr \in new : pr[2] \in Group
    BY DEF new
  <2>2. \A pr \in assigned' : pr[2] \in 1..sendsSoFar'
    <3>1. \A k \in 1..sendsSoFar : k \in 1..sendsSoFar'
      <4>1. sendsSoFar <= sendsSoFar'
        BY <1>t, <1>1, <1>3, GroupIsNew
      <4> QED
        BY <1>3, <4>1
    <3> QED
      BY <1>t, <1>3, <1>9, <2>1, <3>1 DEF Accounted
  <2>3. ~ctxDone => assigned \subseteq Pending \cup tried \cup skipped
    BY <1>t DEF Accounted
  <2> QED
    BY <1>1, <1>9, <1>11, <1>12, <2>2, <2>3 DEF Accounted
<1>17. SuccessTried'
  BY <1>t, <1>1 DEF SuccessTried
<1>18. BulkOrder'
  BY <1>t, <1>1 DEF BulkOrder
<1> QED
  BY <1>13, <1>14, <1>15, <1>16, <1>17, <1>18 DEF BulkIInv

(* The other steps of the main goroutine, and the end of the context *)
LEMMA MainStep ==
  ASSUME BulkIInv,
         ChooseChunkSize \/ SendWork \/ GroupDone \/ CloseWork \/ BulkReturns \/ BulkCtxEnds
  PROVE  BulkIInv'
<1>t. BulkTypeOK /\ BulkTypes /\ OnePlace /\ Accounted /\ SuccessTried /\ BulkOrder
  BY DEF BulkIInv
<1>1. CASE ChooseChunkSize
  <2>1. /\ bulk = "start" /\ bulk' \in {"panic", "groups"}
        /\ UNCHANGED <<ctxDone, sendsSoFar, keysPerPeer, workCh, bulkWorker, successes, assigned, tried, skipped>>
        /\ chunkSize' = chunkSize \/ \E n \in TableSizes \ {0} :
             chunkSize' = Max({1, (NumKeys * bucketSize * 2) \div n})
    BY <1>1 DEF ChooseChunkSize, history
  <2>2. chunkSize' \in Nat
    <3>1. NumKeys * bucketSize * 2 \in Nat
      BY BulkAssumption
    <3>2. ASSUME NEW c \in Nat, NEW n \in Nat \ {0} PROVE Max({1, c \div n}) \in Nat
      <4>1. c \div n \in Nat
        OBVIOUS
      <4> QED
        BY <4>1, OfTwo
    <3> QED
      BY <1>t, <2>1, <3>1, <3>2, BulkAssumption DEF BulkTypeOK
  <2>3. BulkTypeOK' /\ BulkTypes' /\ BulkOrder'
    BY <1>t, <2>1, <2>2 DEF BulkTypeOK, BulkTypes, BulkOrder
  <2> QED
    BY <2>1, <2>3, PlacesRest DEF BulkIInv
<1>2. CASE SendWork
  <2>1. /\ bulk = "send" /\ workCh = << >>
        /\ UNCHANGED <<bulk, ctxDone, chunkSize, sendsSoFar, bulkWorker, successes, assigned, tried, skipped>>
    BY <1>2 DEF SendWork, history
  <2>2. PICK m \in keysPerPeer : workCh' = <<m>> /\ keysPerPeer' = keysPerPeer \ {m}
    BY <1>2 DEF SendWork
  <2>3. Waiting = {} /\ Waiting' = {m}
    BY <2>1, <2>2 DEF Waiting
  <2>4. \A w \in BulkWorkers : Hand(w)' = Hand(w)
    BY <2>1 DEF Hand
  <2>5. Pending' = Pending
    <3>1. \A pr : pr \in Pending <=> \/ \E n \in keysPerPeer : pr \in Pairs(n)
                                     \/ \E w \in BulkWorkers : pr \in Hand(w)
      BY <2>3, PendingIn
    <3>2. \A pr : pr \in Pending' <=> \/ \E n \in keysPerPeer' : pr \in Pairs(n)
                                      \/ pr \in Pairs(m)
                                      \/ \E w \in BulkWorkers : pr \in Hand(w)
      BY <2>3, <2>4 DEF Pending
    <3>3. \A pr : pr \in Pending' <=> pr \in Pending
      BY <2>2, <3>1, <3>2
    <3> QED
      BY <3>3
  <2>6. OnePlace'
    <3>1. /\ \A pr \in Pending : pr \notin tried /\ pr \notin skipped
          /\ \A n, o \in keysPerPeer : n # o => Pairs(n) \cap Pairs(o) = {}
          /\ \A n \in keysPerPeer, w \in BulkWorkers : Pairs(n) \cap Hand(w) = {}
          /\ \A v, w \in BulkWorkers : v # w => Hand(v) \cap Hand(w) = {}
      BY <1>t DEF OnePlace
    <3>2. \A n \in keysPerPeer' \cup Waiting' : n \in keysPerPeer
      BY <2>2, <2>3
    <3>3. \A n \in keysPerPeer', o \in Waiting' : n # o
      BY <2>2, <2>3
    <3>4. \A n, o \in keysPerPeer' : n # o => Pairs(n) \cap Pairs(o) = {}
      BY <3>1, <3>2
    <3>5. \A n \in keysPerPeer', o \in Waiting' : Pairs(n) \cap Pairs(o) = {}
      BY <3>1, <3>2, <3>3
    <3>6. \A n \in keysPerPeer' \cup Waiting', w \in BulkWorkers : Pairs(n) \cap Hand(w)' = {}
      BY <2>4, <3>1, <3>2
    <3> QED
      BY <2>1, <2>4, <2>5, <3>1, <3>4, <3>5, <3>6 DEF OnePlace
  <2>7. BulkTypes'
    BY <1>t, <2>1, <2>2 DEF BulkTypes
  <2>8. BulkTypeOK' /\ BulkOrder'
    BY <1>t, <2>1 DEF BulkTypeOK, BulkOrder
  <2>9. Accounted' /\ SuccessTried'
    BY <1>t, <2>1, <2>5 DEF Accounted, SuccessTried
  <2> QED
    BY <2>6, <2>7, <2>8, <2>9 DEF BulkIInv
<1>3. CASE GroupDone
  <2>1. /\ bulk = "send" /\ bulk' = "groups" /\ keysPerPeer' = {} /\ (keysPerPeer = {} \/ ctxDone)
        /\ UNCHANGED <<ctxDone, chunkSize, sendsSoFar, workCh, bulkWorker, successes, assigned, tried, skipped>>
    BY <1>3 DEF GroupDone, history
  <2>2. BulkTypeOK' /\ BulkTypes' /\ BulkOrder'
    BY <1>t, <2>1 DEF BulkTypeOK, BulkTypes, BulkOrder
  <2>3. CASE keysPerPeer = {}
    BY <2>1, <2>2, <2>3, PlacesRest DEF BulkIInv
  <2>4. CASE ctxDone
    <3>1. Waiting' = Waiting /\ \A w \in BulkWorkers : Hand(w)' = Hand(w)
      BY <2>1 DEF Waiting, Hand
    <3>2. Pending' \subseteq Pending
      BY <2>1, <3>1 DEF Pending
    <3>3. OnePlace'
      <4>1. \A pr \in Pending' : pr \notin tried' /\ pr \notin skipped'
        BY <1>t, <2>1, <3>2 DEF OnePlace
      <4>2. \A m \in Waiting, w \in BulkWorkers : Pairs(m) \cap Hand(w) = {}
        BY <1>t DEF OnePlace
      <4>3. \A v, w \in BulkWorkers : v # w => Hand(v) \cap Hand(w) = {}
        BY <1>t DEF OnePlace
      <4> QED
        BY <2>1, <3>1, <4>1, <4>2, <4>3 DEF OnePlace
    <3>4. Accounted' /\ SuccessTried'
      BY <1>t, <2>1, <2>4, <3>2 DEF Accounted, SuccessTried
    <3> QED
      BY <2>2, <3>3, <3>4 DEF BulkIInv
  <2> QED
    BY <2>1, <2>3, <2>4
<1>4. CASE CloseWork \/ BulkReturns \/ BulkCtxEnds
  <2>1. /\ ctxDone => ctxDone'
        /\ UNCHANGED <<keysPerPeer, chunkSize, workCh, bulkWorker, sendsSoFar, successes, assigned, tried, skipped>>
    BY <1>4 DEF CloseWork, BulkReturns, BulkCtxEnds, history
  <2>2. BulkTypeOK'
    BY <1>t, <1>4, <2>1 DEF BulkTypeOK, CloseWork, BulkReturns, BulkCtxEnds
  <2>3. BulkTypes'
    BY <1>t, <1>4, <2>1 DEF BulkTypes, CloseWork, BulkReturns, BulkCtxEnds
  <2>4. BulkOrder'
    BY <1>t, <1>4, <2>1 DEF BulkOrder, CloseWork, BulkReturns, BulkCtxEnds
  <2> QED
    BY <2>1, <2>2, <2>3, <2>4, PlacesRest DEF BulkIInv
<1> QED
  BY <1>1, <1>2, <1>3, <1>4

(* Every step of a bulk send keeps its invariant. *)
LEMMA BulkStep ==
  ASSUME BulkIInv, BulkNext \/ UNCHANGED bulkVars
  PROVE  BulkIInv'
<1>1. CASE UNCHANGED bulkVars
  <2>1. UNCHANGED <<bulk, ctxDone, chunkSize, sendsSoFar, keysPerPeer, workCh, bulkWorker, successes,
                    assigned, tried, skipped>>
    BY <1>1 DEF bulkVars
  <2>2. BulkTypeOK' /\ BulkTypes' /\ BulkOrder'
    BY <2>1 DEF BulkIInv, BulkTypeOK, BulkTypes, BulkOrder
  <2> QED
    BY <2>1, <2>2, PlacesRest DEF BulkIInv
<1> QED
  BY <1>1, BulkWorkerStep, GroupStep, MainStep DEF BulkNext, BulkMain

-----------------------------------------------------------------------------
(* Lemmas about answers, messages and the reports of the functions *)

(* An answer is a sequence of items. *)
LEMMA AnswerType ==
  ASSUME NEW a \in Answers
  PROVE  /\ Len(a) \in Nat /\ DOMAIN a = 1..Len(a)
         /\ \A i \in 1..Len(a) : a[i] \in Items
         /\ IsInjective(a) => \A i, j \in 1..Len(a) : a[i] = a[j] => i = j
<1>1. a \in Seq(ToSet(a))
  BY SearchAssumption
<1>2. Len(a) \in Nat /\ DOMAIN a = 1..Len(a)
  BY <1>1
<1>3. ToSet(a) \subseteq Items
  BY DEF Items
<1>4. \A i \in 1..Len(a) : a[i] \in ToSet(a)
  BY <1>2 DEF ToSet
<1> QED
  BY <1>1, <1>2, <1>3, <1>4 DEF IsInjective

(* The item a function works on *)
LEMMA ItemType ==
  ASSUME SearchTypes, NEW p \in Targets, pos[p] < Len(given[p])
  PROVE  /\ given[p] \in Answers /\ pos[p] \in Nat /\ Len(given[p]) \in Nat
         /\ pos[p] + 1 \in 1..Len(given[p]) /\ Item(p) \in Items
<1>1. given[p] \in Answers /\ pos[p] \in Nat
  BY DEF SearchTypes
<1>2. Len(given[p]) \in Nat
  BY <1>1, AnswerType
<1>3. pos[p] + 1 \in 1..Len(given[p])
  BY <1>1, <1>2
<1> QED
  BY <1>1, <1>2, <1>3, AnswerType DEF Item

(* A message more *)
LEMMA Extended ==
  ASSUME NEW S, NEW q \in Seq(S), NEW e \in S, NEW t, t = Append(q, e)
  PROVE  /\ t \in Seq(S) /\ Len(q) \in Nat /\ Len(t) = Len(q) + 1
         /\ \A x : (\E i \in DOMAIN t : t[i] = x) <=> (\E i \in DOMAIN q : q[i] = x) \/ x = e
<1>1. t \in Seq(S) /\ Len(q) \in Nat /\ Len(t) = Len(q) + 1
  OBVIOUS
<1>2. DOMAIN q = 1..Len(q) /\ DOMAIN t = 1..(Len(q) + 1)
  BY <1>1
<1>3. (\A i \in 1..Len(q) : t[i] = q[i]) /\ t[Len(q) + 1] = e
  OBVIOUS
<1>4. DOMAIN t = DOMAIN q \cup {Len(q) + 1}
  BY <1>1, <1>2
<1> QED
  BY <1>1, <1>2, <1>3, <1>4

(* Appending is concatenation with one message. *)
LEMMA ConcatOne ==
  ASSUME NEW S, NEW q \in Seq(S), NEW e \in S
  PROVE  q \o <<e>> = Append(q, e)
  OBVIOUS

(* A channel with room for one *)
LEMMA ShortBuffer ==
  ASSUME NEW b, NEW S, b = << >> \/ \E m \in S : b = <<m>>
  PROVE  Len(b) <= 1
<1>1. CASE b = << >>
  BY <1>1
<1>2. ASSUME NEW m, b = <<m>> PROVE Len(b) <= 1
  BY <1>2
<1> QED
  BY <1>1, <1>2

(* What the user got consists of items. *)
LEMMA GotItems ==
  ASSUME received \in Seq(Messages)
  PROVE  Got \subseteq Items
<1>1. \A i \in DOMAIN received : received[i] \in Messages
  OBVIOUS
<1> QED
  BY <1>1 DEF Got, ToSet, Messages

(* A message that is received adds its item. *)
LEMMA GotGrows ==
  ASSUME received \in Seq(Messages), NEW m \in Messages, received' = Append(received, m)
  PROVE  /\ received' \in Seq(Messages) /\ Len(received) \in Nat /\ Len(received') = Len(received) + 1
         /\ Got' = Got \cup {m.item}
<1>1. /\ received' \in Seq(Messages) /\ Len(received) \in Nat /\ Len(received') = Len(received) + 1
      /\ \A x : (\E i \in DOMAIN received' : received'[i] = x) <=>
                (\E i \in DOMAIN received : received[i] = x) \/ x = m
  BY Extended
<1> QED
  BY <1>1 DEF Got, ToSet

(* A function returns: its report goes into errCh, and it had none there. *)
LEMMA ReportStep ==
  ASSUME SearchTypeOK, ReportsAccounted, ResultWhenDone, NEW p \in Targets, fn[p] # "done",
         exec # "off", NEW res \in {"ok", "err"}, FnReturns(p, res), UNCHANGED <<exec, countVars>>
  PROVE  /\ ReportsAccounted' /\ ResultWhenDone'
         /\ result' \in [Targets -> {"none", "ok", "err"}] /\ errCh' \subseteq Targets
         /\ fn' \in [Targets -> {"off", "rpc", "take", "send", "check", "done"}]
         /\ fn'[p] = "done" /\ result'[p] = res
         /\ \A q \in Targets : q # p => fn'[q] = fn[q] /\ result'[q] = result[q]
<1>t. /\ result \in [Targets -> {"none", "ok", "err"}] /\ errCh \subseteq Targets
      /\ fn \in [Targets -> {"off", "rpc", "take", "send", "check", "done"}] /\ numDone \in Int
  BY DEF SearchTypeOK, ExecTypeOK
<1>1. /\ fn' = [fn EXCEPT ![p] = "done"] /\ result' = [result EXCEPT ![p] = res]
      /\ errCh' = errCh \cup {p} /\ numDone' = numDone
  BY DEF FnReturns, countVars
<1>2. Returned' = Returned \cup {p} /\ p \notin Returned
  BY <1>t, <1>1 DEF Returned
<1>3. IsFiniteSet(Returned) /\ IsFiniteSet(errCh) /\ errCh \subseteq Returned
  <2>1. Returned \in SUBSET Targets
    BY DEF Returned
  <2> QED
    BY <1>t, <2>1, ExecAssumption, FS_Subset DEF ReportsAccounted
<1>4. Cardinality(Returned') = Cardinality(Returned) + 1 /\ Cardinality(errCh') = Cardinality(errCh) + 1
  BY <1>1, <1>2, <1>3, FS_AddElement
<1>5. Cardinality(Returned) \in Nat /\ Cardinality(errCh) \in Nat
  BY <1>3, FS_CardinalityType
<1>6. ReportsAccounted'
  BY <1>1, <1>2, <1>3, <1>4, <1>5 DEF ReportsAccounted
<1> QED
  BY <1>t, <1>1, <1>6 DEF ResultWhenDone

(* A step that moves no item: at most execOnMany starts its functions. *)
LEMMA ItemsRest ==
  ASSUME ItemInv, UNCHANGED <<op, limit, given, pos, ps, received, buffer, result>>,
         \A p \in Targets : \/ fn'[p] = fn[p]
                            \/ fn[p] = "off" /\ fn'[p] = "rpc" /\ pos[p] = 0 /\ given[p] = << >>,
         call' = "exec" \/ exec' # "off" => call = "exec" \/ exec # "off"
  PROVE  ItemInv'
<1>t. Positions /\ Owned /\ AddedSent /\ ItemsHandled
  BY DEF ItemInv
<1>1. /\ UNCHANGED <<Got, InBuffer, Enough, findAll>>
      /\ \A p \in Targets : Item(p)' = Item(p) /\ (Sending(p)' <=> Sending(p)) /\ DealtWith(p)' = DealtWith(p)
  BY DEF Got, InBuffer, Enough, findAll, Item, Sending, DealtWith
<1>2. \A x : CutOff(x)' <=> CutOff(x)
  BY <1>1 DEF CutOff, Item
<1>3. Positions'
  BY <1>t, <1>1 DEF Positions
<1>4. Owned'
  BY <1>t, <1>1 DEF Owned
<1>5. AddedSent'
  BY <1>t, <1>1, <1>2 DEF AddedSent, CutOff, Item
<1>6. ItemsHandled'
  BY <1>t, <1>1 DEF ItemsHandled, Handled
<1> QED
  BY <1>3, <1>4, <1>5, <1>6 DEF ItemInv

-----------------------------------------------------------------------------
(* The steps of execOnMany *)

(* A report is received, time passes or the loop is over. *)
LEMMA ExecStep ==
  ASSUME SearchIInv, Exec
  PROVE  SearchIInv'
<1>t. /\ SearchTypeOK /\ ReportsAccounted /\ SearchTypes /\ NotStarted /\ ResultWhenDone
      /\ CallOrder /\ ItemInv /\ Drained
  BY DEF SearchIInv
<1>e. /\ exec \in {"off", "loop", "returned"} /\ result \in [Targets -> {"none", "ok", "err"}]
      /\ errCh \subseteq Targets /\ numDone \in 0..Cardinality(Targets) /\ numSuccess \in 0..numDone
      /\ ticker \in -1..numSuccess /\ putctxDone \in BOOLEAN
  BY <1>t DEF SearchTypeOK, ExecTypeOK
<1>s. UNCHANGED <<op, limit, cancelled, call, given, pos, ps, buffer, received, reader>>
  BY DEF Exec
<1>c. Cardinality(Targets) \in Nat
  BY ExecAssumption, FS_CardinalityType
<1>r. /\ IsFiniteSet(Returned) /\ IsFiniteSet(errCh) /\ errCh \subseteq Returned
      /\ Cardinality(Returned) \in Nat /\ Cardinality(errCh) \in Nat
      /\ Cardinality(Returned) <= Cardinality(Targets)
  <2>1. Returned \in SUBSET Targets
    BY DEF Returned
  <2>2. IsFiniteSet(Returned) /\ IsFiniteSet(errCh) /\ Cardinality(Returned) <= Cardinality(Targets)
    BY <1>e, <2>1, ExecAssumption, FS_Subset
  <2> QED
    BY <1>t, <2>2, FS_CardinalityType DEF ReportsAccounted
<1>1. exec = "loop" /\ UNCHANGED <<fn, result>>
  BY DEF Exec, ReceiveErr, Tick, CtxEnds, ExecReturns
<1>2. /\ exec' \in {"loop", "returned"}
      /\ exec' = "returned" /\ ~sloppyExit => numDone = Cardinality(Targets)
      /\ putctxDone' \in BOOLEAN
  <2>1. CASE ReceiveErr(sloppyExit)
    BY <1>e, <1>1, <2>1 DEF ReceiveErr, GoodEnough
  <2>2. CASE Tick(sloppyExit)
    BY <1>e, <1>1, <2>2 DEF Tick, GoodEnough
  <2>3. CASE CtxEnds \/ ExecReturns
    BY <1>e, <1>1, <2>3 DEF CtxEnds, ExecReturns
  <2> QED
    BY <2>1, <2>2, <2>3 DEF Exec
<1>3. /\ errCh' \subseteq errCh /\ numDone' \in 0..Cardinality(Targets)
      /\ numSuccess' \in 0..numDone' /\ ticker' \in -1..numSuccess'
      /\ numDone' = Cardinality(Returned) - Cardinality(errCh')
  <2>0. numDone = Cardinality(Returned) - Cardinality(errCh)
    BY <1>t, <1>1 DEF ReportsAccounted
  <2>1. CASE ReceiveErr(sloppyExit)
    <3>1. PICK p \in errCh :
            /\ errCh' = errCh \ {p} /\ numDone' = numDone + 1
            /\ numSuccess' \in {numSuccess, numSuccess + 1} /\ ticker' \in {ticker, numSuccess'}
      BY <2>1 DEF ReceiveErr
    <3>2. Cardinality(errCh') = Cardinality(errCh) - 1 /\ Cardinality(errCh') \in Nat
      BY <1>r, <3>1, FS_RemoveElement, FS_CardinalityType
    <3>3. numDone' = Cardinality(Returned) - Cardinality(errCh') /\ numDone' \in 0..Cardinality(Targets)
      BY <1>e, <1>c, <1>r, <2>0, <3>1, <3>2
    <3>4. numSuccess' \in 0..numDone' /\ ticker' \in -1..numSuccess'
      BY <1>e, <1>c, <3>1, <3>3
    <3> QED
      BY <3>1, <3>3, <3>4
  <2>2. CASE Tick(sloppyExit)
    <3>1. UNCHANGED <<errCh, numDone, numSuccess>> /\ ticker' \in {ticker, numSuccess}
      BY <2>2 DEF Tick
    <3> QED
      BY <1>e, <1>c, <2>0, <3>1
  <2>3. CASE CtxEnds \/ ExecReturns
    <3>1. UNCHANGED <<errCh, numDone, numSuccess, ticker>>
      BY <2>3 DEF CtxEnds, ExecReturns, countVars
    <3> QED
      BY <1>e, <2>0, <3>1
  <2> QED
    BY <2>1, <2>2, <2>3 DEF Exec
<1>4. SearchTypeOK'
  <2>1. ExecTypeOK'
    BY <1>e, <1>1, <1>2, <1>3 DEF ExecTypeOK
  <2> QED
    BY <1>t, <1>s, <1>1, <2>1 DEF SearchTypeOK, Got
<1>5. ReportsAccounted' /\ ResultWhenDone' /\ NotStarted'
  BY <1>t, <1>r, <1>1, <1>2, <1>3 DEF ReportsAccounted, ResultWhenDone, NotStarted, Returned
<1>6. numDone = Cardinality(Targets) => \A p \in Targets : fn[p] = "done"
  <2> SUFFICES ASSUME numDone = Cardinality(Targets) PROVE Returned = Targets
    BY DEF Returned
  <2>1. Cardinality(Returned) >= Cardinality(Targets)
    BY <1>t, <1>c, <1>r, <1>1 DEF ReportsAccounted
  <2>2. Returned \in SUBSET Targets
    BY DEF Returned
  <2> QED
    BY <1>c, <1>r, <2>1, <2>2, ExecAssumption, FS_Subset
<1>7. CallOrder'
  BY <1>t, <1>s, <1>1, <1>2, <1>6 DEF CallOrder, sloppyExit
<1>8. SearchTypes' /\ Drained'
  BY <1>t, <1>s DEF SearchTypes, Drained
<1>9. ItemInv'
  BY <1>t, <1>s, <1>1, ItemsRest
<1> QED
  BY <1>4, <1>5, <1>7, <1>8, <1>9 DEF SearchIInv

(* All functions are started. *)
LEMMA StartStep ==
  ASSUME SearchIInv, CallExec
  PROVE  SearchIInv'
<1>t. /\ SearchTypeOK /\ ReportsAccounted /\ SearchTypes /\ NotStarted /\ ResultWhenDone
      /\ CallOrder /\ ItemInv /\ Drained
  BY DEF SearchIInv
<1>1. /\ call = "exec" /\ exec = "off" /\ exec' = (IF Targets = {} THEN "returned" ELSE "loop")
      /\ fn' = [p \in Targets |-> "rpc"] /\ putctxDone' = cancelled
      /\ UNCHANGED <<result, errCh, numDone, numSuccess, ticker,
                     op, limit, cancelled, call, given, pos, ps, buffer, received, reader>>
  BY DEF CallExec, StartExec, countVars
<1>2. /\ \A p \in Targets : fn[p] = "off" /\ given[p] = << >> /\ pos[p] = 0
      /\ errCh = {} /\ numDone = 0
  BY <1>t, <1>1 DEF NotStarted
<1>3. \A p \in Targets : fn'[p] = "rpc"
  BY <1>1
<1>4. SearchTypeOK'
  <2>1. ExecTypeOK'
    BY <1>t, <1>1 DEF SearchTypeOK, ExecTypeOK, SearchTypes
  <2> QED
    BY <1>t, <1>1, <2>1 DEF SearchTypeOK, Got
<1>5. ReportsAccounted'
  <2>1. Returned' = {}
    BY <1>3 DEF Returned
  <2> QED
    BY <1>1, <1>2, <2>1, FS_EmptySet DEF ReportsAccounted
<1>6. ResultWhenDone' /\ NotStarted' /\ CallOrder'
  BY <1>t, <1>1, <1>2, <1>3 DEF ResultWhenDone, NotStarted, CallOrder, sloppyExit
<1>7. SearchTypes' /\ Drained'
  BY <1>t, <1>1 DEF SearchTypes, Drained
<1>8. ItemInv'
  BY <1>t, <1>1, <1>2, <1>3, ItemsRest
<1> QED
  BY <1>4, <1>5, <1>6, <1>7, <1>8 DEF SearchIInv

-----------------------------------------------------------------------------
(* The reader, the context and the end of the routine *)

(* Steps that move no item and leave execOnMany alone *)
LEMMA RestStep ==
  ASSUME SearchIInv, StoreFails \/ CloseChannel \/ Cancel \/ ReaderCancelled \/ ReaderDone \/ UNCHANGED allSearchVars
  PROVE  SearchIInv'
<1>t. /\ SearchTypeOK /\ ReportsAccounted /\ SearchTypes /\ NotStarted /\ ResultWhenDone
      /\ CallOrder /\ ItemInv /\ Drained
  BY DEF SearchIInv
<1>1. /\ UNCHANGED <<exec, fn, result, errCh, numDone, numSuccess, ticker>>
      /\ UNCHANGED <<op, limit, given, pos, ps, buffer, received>>
      /\ call' \in {call, "over"} /\ (call' # call => exec # "loop")
      /\ cancelled' \in {cancelled, TRUE}
      /\ reader' = reader \/ reader' = "left" \/ (reader' = "done" /\ call' = "over" /\ buffer = << >>)
  <2>1. CASE StoreFails
    BY <1>t, <2>1 DEF StoreFails, execVars, CallOrder
  <2>2. CASE CloseChannel
    BY <2>2 DEF CloseChannel, execVars
  <2>3. CASE Cancel
    BY <2>3 DEF Cancel, countVars
  <2>4. CASE ReaderCancelled \/ ReaderDone \/ UNCHANGED allSearchVars
    BY <2>4 DEF ReaderCancelled, ReaderDone, allSearchVars, execVars, searchVars
  <2> QED
    BY <2>1, <2>2, <2>3, <2>4
<1>p. putctxDone' \in BOOLEAN
  <2>1. putctxDone' = putctxDone \/ putctxDone' = (putctxDone \/ exec = "loop")
    BY DEF StoreFails, CloseChannel, Cancel, ReaderCancelled, ReaderDone, allSearchVars, execVars
  <2>2. putctxDone \in BOOLEAN
    BY <1>t DEF SearchTypeOK, ExecTypeOK
  <2> QED
    BY <2>1, <2>2
<1>2. SearchTypeOK'
  <2>1. ExecTypeOK'
    BY <1>t, <1>1, <1>p DEF SearchTypeOK, ExecTypeOK
  <2> QED
    BY <1>t, <1>1, <2>1 DEF SearchTypeOK, Got
<1>3. ReportsAccounted' /\ ResultWhenDone' /\ NotStarted' /\ SearchTypes'
  BY <1>t, <1>1 DEF ReportsAccounted, ResultWhenDone, NotStarted, SearchTypes, Returned
<1>4. CallOrder'
  BY <1>t, <1>1 DEF CallOrder, sloppyExit
<1>5. Drained'
  BY <1>t, <1>1 DEF Drained
<1>6. ItemInv'
  <2>1. call' = "exec" => call = "exec"
    BY <1>1
  <2> QED
    BY <1>t, <1>1, <2>1, ItemsRest
<1> QED
  BY <1>2, <1>3, <1>4, <1>5, <1>6 DEF SearchIInv

(* The reader takes the item out of the buffer. *)
LEMMA ReceiveStep ==
  ASSUME SearchIInv, Receive
  PROVE  SearchIInv'
<1>t. /\ SearchTypeOK /\ ReportsAccounted /\ SearchTypes /\ NotStarted /\ ResultWhenDone
      /\ CallOrder /\ Positions /\ Owned /\ AddedSent /\ ItemsHandled /\ Drained
  BY DEF SearchIInv, ItemInv
<1>1. /\ reader = "reading" /\ buffer # << >> /\ received' = received \o buffer /\ buffer' = << >>
      /\ reader' \in {"left", "reading"}
      /\ UNCHANGED <<execVars, op, limit, cancelled, call, given, pos, ps>>
  BY DEF Receive
<1>v. UNCHANGED <<exec, fn, result, errCh, numDone, numSuccess, ticker, putctxDone>>
  BY <1>1 DEF execVars
<1>2. PICK m \in Messages : buffer = <<m>>
  BY <1>t, <1>1 DEF SearchTypes
<1>3. received' \in Seq(Messages) /\ Got' = Got \cup {m.item}
  <2>1. received \in Seq(Messages) /\ received' = Append(received, m)
    BY <1>t, <1>1, <1>2, ConcatOne DEF SearchTypes
  <2> QED
    BY <2>1, GotGrows
<1>4. InBuffer = {m.item} /\ InBuffer' = {}
  BY <1>1, <1>2 DEF InBuffer, ToSet
<1>5. op # "findProviders"
  BY <1>t, <1>1 DEF Owned
<1>6. SearchTypeOK' /\ SearchTypes'
  <2>1. Got' \subseteq Items
    BY <1>t, <1>3 DEF SearchTypeOK, Messages
  <2>2. Len(buffer') = 0
    BY <1>1
  <2> QED
    BY <1>t, <1>1, <1>v, <1>3, <2>1, <2>2 DEF SearchTypeOK, ExecTypeOK, SearchTypes
<1>7. ReportsAccounted' /\ ResultWhenDone' /\ NotStarted'
  BY <1>t, <1>1, <1>v DEF ReportsAccounted, ResultWhenDone, NotStarted, Returned
<1>8. CallOrder'
  BY <1>t, <1>1, <1>v DEF CallOrder, sloppyExit
<1>9. Positions'
  BY <1>t, <1>1, <1>v DEF Positions, Enough, findAll
<1>10. ItemsHandled'
  <2>1. \A p \in Targets : DealtWith(p)' = DealtWith(p)
    BY <1>1, <1>v DEF DealtWith
  <2> QED
    BY <1>t, <1>1, <1>3, <1>4, <1>5, <2>1 DEF ItemsHandled, Handled
<1>11. Owned' /\ AddedSent' /\ Drained'
  BY <1>1, <1>5 DEF Owned, AddedSent, Drained
<1> QED
  BY <1>6, <1>7, <1>8, <1>9, <1>10, <1>11 DEF SearchIInv, ItemInv

-----------------------------------------------------------------------------
(* The local store *)

(* The first n items of an answer are n different ones. *)
LEMMA FirstItems ==
  ASSUME NEW a \in Answers, IsInjective(a), NEW n \in 0..Len(a)
  PROVE  LET P == {a[i] : i \in 1..n} IN
           IsFiniteSet(P) /\ Cardinality(P) = n /\ P \subseteq Items
<1> DEFINE P == {a[i] : i \in 1..n}
           f == [i \in 1..n |-> a[i]]
<1>1. /\ Len(a) \in Nat /\ \A i \in 1..Len(a) : a[i] \in Items
      /\ \A i, j \in 1..Len(a) : a[i] = a[j] => i = j
  BY AnswerType
<1>2. n \in Nat /\ \A i \in 1..n : i \in 1..Len(a)
  BY <1>1
<1>3. f \in Bijection(1..n, P)
  <2>1. f \in [1..n -> P] /\ IsInjective(f)
    BY <1>1, <1>2 DEF IsInjective
  <2>2. \A x \in P : \E i \in 1..n : f[i] = x
    OBVIOUS
  <2> QED
    BY <2>1, <2>2 DEF Bijection, Injection, Surjection
<1>4. IsFiniteSet(1..n) /\ Cardinality(1..n) = n
  <2>1. IsFiniteSet(1..n) /\ Cardinality(1..n) = IF 1 > n THEN 0 ELSE n - 1 + 1
    BY <1>2, FS_Interval
  <2> QED
    BY <1>2, <2>1
<1>5. IsFiniteSet(P) /\ Cardinality(P) = n
  <2>1. ExistsBijection(1..n, P)
    BY <1>3 DEF ExistsBijection
  <2> QED
    BY <1>4, <2>1, FS_Bijection
<1> QED
  BY <1>1, <1>2, <1>5

(* What an operation may be answered *)
LEMMA AnswersType ==
  ASSUME op \in {"findProviders", "searchValue", "findPeer", "put"}, NEW a \in AnswersOf(op)
  PROVE  a \in Answers /\ (op = "put" => a = << >>) /\ (op # "findProviders" => Len(a) <= 1)
  BY SearchAssumption DEF AnswersOf

(* Local providers are sent, or a local value waits for its reader. *)
LEMMA LocalStep ==
  ASSUME SearchIInv, Local
  PROVE  SearchIInv'
<1>t. /\ SearchTypeOK /\ ReportsAccounted /\ SearchTypes /\ NotStarted /\ ResultWhenDone
      /\ CallOrder /\ Positions /\ Owned /\ AddedSent /\ ItemsHandled /\ Drained
  BY DEF SearchIInv, ItemInv
<1>1. /\ call = "start" /\ UNCHANGED <<execVars, op, limit, cancelled, given, pos, reader>>
  BY DEF Local
<1>v. UNCHANGED <<exec, fn, result, errCh, numDone, numSuccess, ticker, putctxDone>>
  BY <1>1 DEF execVars
<1>2. exec = "off" /\ ps = {} /\ received = << >> /\ buffer = << >>
  BY <1>t, <1>1 DEF CallOrder
<1>3. \A p \in Targets : fn[p] = "off" /\ given[p] = << >> /\ pos[p] = 0 /\ result[p] = "none"
  BY <1>t, <1>2 DEF NotStarted, ResultWhenDone
<1>4. op \in {"findProviders", "searchValue", "findPeer", "put"} /\ limit \in Nat
  BY <1>t, <1>1 DEF SearchTypeOK, CallOrder, SearchTypes
<1>5. PICK local \in {a \in AnswersOf(op) : IsInjective(a)} :
        LET n == IF findAll \/ Len(local) < limit THEN Len(local) ELSE limit IN
        IF op = "findProviders"
        THEN \E sent \in 0..n :
               /\ sent < n => cancelled
               /\ received' = [i \in 1..sent |-> Msg(Self, local[i])]
               /\ ps' = {local[i] : i \in 1..n} \ {local[i] : i \in (sent + 2)..n}
               /\ call' = IF sent < n \/ (~findAll /\ n = limit) THEN "over" ELSE "exec"
               /\ UNCHANGED buffer
        ELSE /\ \/ /\ op = "searchValue" /\ local # << >>
                   /\ buffer' = <<Msg(Self, local[1])>>
                \/ /\ op = "searchValue" => local = << >> \/ cancelled
                   /\ buffer' = << >>
             /\ call' = "exec"
             /\ UNCHANGED <<received, ps>>
  BY DEF Local
<1>6. /\ local \in Answers /\ Len(local) \in Nat /\ IsInjective(local)
      /\ \A i \in 1..Len(local) : local[i] \in Items
      /\ \A i, j \in 1..Len(local) : local[i] = local[j] => i = j
  BY <1>4, AnswersType, AnswerType
<1>7. call' \in {"exec", "over"}
  BY <1>5
<1>8. ReportsAccounted' /\ NotStarted' /\ ResultWhenDone' /\ CallOrder'
  BY <1>t, <1>1, <1>v, <1>2, <1>4, <1>7
  DEF ReportsAccounted, NotStarted, ResultWhenDone, CallOrder, Returned, sloppyExit
<1>9. Positions'
  BY <1>t, <1>1, <1>v, <1>3 DEF Positions
<1>10. ItemsHandled'
  <2>1. \A p \in Targets : DealtWith(p)' = {}
    BY <1>1, <1>v, <1>3 DEF DealtWith
  <2> QED
    BY <2>1 DEF ItemsHandled
<1>11. ExecTypeOK' /\ fn' = fn
  BY <1>t, <1>v DEF SearchTypeOK, ExecTypeOK
<1>12. CASE op = "findProviders"
  <2> DEFINE n == IF findAll \/ Len(local) < limit THEN Len(local) ELSE limit
  <2>1. PICK sent \in 0..n :
          /\ received' = [i \in 1..sent |-> Msg(Self, local[i])]
          /\ ps' = {local[i] : i \in 1..n} \ {local[i] : i \in (sent + 2)..n}
          /\ call' = IF sent < n \/ (~findAll /\ n = limit) THEN "over" ELSE "exec"
          /\ buffer' = buffer
    BY <1>5, <1>12
  <2>2. n \in 0..Len(local) /\ (findAll \/ n <= limit)
    BY <1>4, <1>6 DEF findAll
  <2> HIDE DEF n
  <2>3. sent \in 0..Len(local) /\ sent \in Nat /\ n \in Nat
    BY <1>6, <2>2
  <2> DEFINE P == {local[i] : i \in 1..n}
             G == {local[i] : i \in 1..sent}
  <2>4. /\ IsFiniteSet(P) /\ Cardinality(P) = n /\ P \subseteq Items
        /\ IsFiniteSet(G) /\ Cardinality(G) = sent /\ G \subseteq Items
    BY <1>6, <2>2, <2>3, FirstItems
  <2>5. \A i \in 1..sent : Msg(Self, local[i]) \in Messages
    BY <1>6, <2>3 DEF Msg, Messages
  <2>6. received' \in Seq(Messages) /\ Len(received') = sent /\ DOMAIN received' = 1..sent
    BY <2>1, <2>3, <2>5
  <2>7. Got' = G
    <3>1. \A i \in 1..sent : received'[i].item = local[i]
      BY <2>1 DEF Msg
    <3> QED
      BY <2>6, <3>1 DEF Got, ToSet
  <2>8. ps' \in SUBSET P /\ G \subseteq ps'
    <3>1. \A i \in 1..sent : i \in 1..n /\ i \in 1..Len(local)
      BY <1>6, <2>2, <2>3
    <3>2. \A i \in (sent + 2)..n : i \in 1..Len(local) /\ i \notin 1..sent
      BY <1>6, <2>2, <2>3
    <3> QED
      BY <1>6, <2>1, <3>1, <3>2
  <2>9. IsFiniteSet(ps') /\ Cardinality(ps') <= n /\ Cardinality(ps') \in Nat
    BY <2>4, <2>8, FS_Subset, FS_CardinalityType
  <2>10. Owned'
    <3>1. findAll' \/ Cardinality(ps') <= limit
      BY <1>1, <1>4, <2>2, <2>3, <2>9 DEF findAll
    <3> QED
      BY <1>1, <1>v, <1>2, <1>3, <2>1, <2>4, <2>6, <2>7, <2>8, <3>1 DEF Owned, Sending
  <2>11. AddedSent'
    <3>1. call' = "exec" => sent = n
      BY <2>1, <2>3
    <3>2. sent = n => ps' \subseteq G
      BY <2>8
    <3> QED
      BY <1>v, <1>2, <2>7, <3>1, <3>2 DEF AddedSent
  <2>12. SearchTypes'
    BY <1>t, <1>1, <1>2, <2>1, <2>6, <2>9 DEF SearchTypes
  <2>13. SearchTypeOK'
    <3>1. Len(buffer') = 0
      BY <1>2, <2>1
    <3> QED
      BY <1>t, <1>1, <1>7, <1>11, <2>4, <2>7, <2>8, <3>1 DEF SearchTypeOK
  <2>14. Drained'
    BY <1>t, <1>1, <1>12 DEF Drained
  <2> QED
    BY <1>8, <1>9, <1>10, <2>10, <2>11, <2>12, <2>13, <2>14 DEF SearchIInv, ItemInv
<1>13. CASE op # "findProviders"
  <2>1. /\ UNCHANGED <<received, ps>>
        /\ buffer' = << >> \/ (local # << >> /\ buffer' = <<Msg(Self, local[1])>>)
    BY <1>5, <1>13
  <2>2. buffer' = << >> \/ \E m \in Messages : buffer' = <<m>>
    <3>1. local # << >> => 1 \in 1..Len(local)
      <4>1. local \in Seq(ToSet(local))
        BY <1>6, SearchAssumption
      <4> QED
        BY <4>1
    <3>2. local # << >> => Msg(Self, local[1]) \in Messages
      BY <1>6, <3>1 DEF Msg, Messages
    <3> QED
      BY <2>1, <3>2
  <2>3. SearchTypes'
    BY <1>t, <1>1, <2>1, <2>2 DEF SearchTypes
  <2>4. SearchTypeOK'
    <3>1. Len(buffer') <= 1
      BY <2>2, ShortBuffer
    <3> QED
      BY <1>t, <1>1, <1>7, <1>11, <2>1, <3>1 DEF SearchTypeOK, Got
  <2>5. Owned' /\ AddedSent'
    BY <1>1, <1>13 DEF Owned, AddedSent
  <2>6. Drained'
    BY <1>t, <1>1 DEF Drained
  <2> QED
    BY <1>8, <1>9, <1>10, <2>3, <2>4, <2>5, <2>6 DEF SearchIInv, ItemInv
<1> QED
  BY <1>12, <1>13

-----------------------------------------------------------------------------
(* The functions *)

(* What a step of the function for p does to execOnMany. *)
LEMMA OneFunction ==
  ASSUME SearchIInv, NEW p \in Targets, fn[p] \notin {"off", "done"},
         UNCHANGED <<exec, countVars, op, limit, cancelled, call, reader>>, putctxDone' \in BOOLEAN,
         \/ FnReturns(p, "ok") \/ FnReturns(p, "err")
         \/ \E l \in {"take", "send", "check"} : fn' = [fn EXCEPT ![p] = l] /\ UNCHANGED <<result, errCh>>,
         op = "put" => \A q \in Targets : given'[q] = << >>
  PROVE  /\ ExecTypeOK' /\ fn' \in [Targets -> {"off", "rpc", "take", "send", "check", "done"}]
         /\ ReportsAccounted' /\ ResultWhenDone' /\ NotStarted' /\ CallOrder'
         /\ exec # "off" /\ op \in {"findProviders", "searchValue", "findPeer", "put"}
         /\ call # "start" /\ (call = "over" => op = "put") /\ (reader = "done" => op = "put")
         /\ result[p] = "none"
         /\ \A q \in Targets : q # p => fn'[q] = fn[q] /\ result'[q] = result[q]
<1>t. /\ SearchTypeOK /\ ReportsAccounted /\ SearchTypes /\ NotStarted /\ ResultWhenDone
      /\ CallOrder /\ Drained
  BY DEF SearchIInv
<1>e. /\ exec \in {"off", "loop", "returned"} /\ result \in [Targets -> {"none", "ok", "err"}]
      /\ errCh \subseteq Targets /\ fn \in [Targets -> {"off", "rpc", "take", "send", "check", "done"}]
      /\ op \in {"findProviders", "searchValue", "findPeer", "put", "none"}
  BY <1>t DEF SearchTypeOK, ExecTypeOK
<1>1. exec # "off" /\ op # "none" /\ call # "start"
  BY <1>t, <1>e DEF NotStarted, CallOrder
<1>2. exec = "returned" => op = "put"
  BY <1>t, <1>e DEF CallOrder, sloppyExit
<1>3. (call = "over" => op = "put") /\ (reader = "done" => op = "put")
  BY <1>t, <1>e, <1>1, <1>2 DEF CallOrder, Drained
<1>4. result[p] = "none"
  BY <1>t, <1>e DEF ResultWhenDone
<1>5. /\ result' \in [Targets -> {"none", "ok", "err"}] /\ errCh' \subseteq Targets
      /\ fn' \in [Targets -> {"off", "rpc", "take", "send", "check", "done"}]
      /\ fn'[p] # "off"
      /\ \A q \in Targets : q # p => fn'[q] = fn[q] /\ result'[q] = result[q]
      /\ ReportsAccounted' /\ ResultWhenDone'
  <2>1. ASSUME NEW res \in {"ok", "err"}, FnReturns(p, res)
        PROVE  /\ result' \in [Targets -> {"none", "ok", "err"}] /\ errCh' \subseteq Targets
               /\ fn' \in [Targets -> {"off", "rpc", "take", "send", "check", "done"}]
               /\ fn'[p] # "off"
               /\ \A q \in Targets : q # p => fn'[q] = fn[q] /\ result'[q] = result[q]
               /\ ReportsAccounted' /\ ResultWhenDone'
    BY <1>t, <1>1, <2>1, ReportStep
  <2>2. ASSUME NEW l \in {"take", "send", "check"}, fn' = [fn EXCEPT ![p] = l], UNCHANGED <<result, errCh>>
        PROVE  /\ fn' \in [Targets -> {"off", "rpc", "take", "send", "check", "done"}]
               /\ fn'[p] # "off"
               /\ \A q \in Targets : q # p => fn'[q] = fn[q] /\ result'[q] = result[q]
               /\ ReportsAccounted' /\ ResultWhenDone'
    <3>1. fn' \in [Targets -> {"off", "rpc", "take", "send", "check", "done"}] /\ fn'[p] = l
      BY <1>e, <2>2
    <3>2. Returned' = Returned
      BY <1>e, <2>2 DEF Returned
    <3> QED
      BY <1>t, <1>e, <2>2, <3>1, <3>2 DEF ReportsAccounted, ResultWhenDone, countVars
  <2> QED
    BY <1>e, <2>1, <2>2
<1>6. ExecTypeOK'
  BY <1>t, <1>5 DEF SearchTypeOK, ExecTypeOK, countVars
<1>7. NotStarted'
  BY <1>1 DEF NotStarted
<1>8. CallOrder'
  BY <1>t, <1>1, <1>2, <1>5 DEF CallOrder, sloppyExit
<1> QED
  BY <1>e, <1>1, <1>3, <1>4, <1>5, <1>6, <1>7, <1>8

(* The answer to the request of a function, or its failure *)
LEMMA RpcStep ==
  ASSUME SearchIInv, NEW p \in Targets, RpcFails(p) \/ RpcAnswers(p)
  PROVE  SearchIInv'
<1>t. /\ SearchTypeOK /\ ReportsAccounted /\ SearchTypes /\ NotStarted /\ ResultWhenDone
      /\ CallOrder /\ Positions /\ Owned /\ AddedSent /\ ItemsHandled /\ Drained
  BY DEF SearchIInv, ItemInv
<1>1. /\ fn[p] = "rpc"
      /\ UNCHANGED <<exec, countVars, putctxDone, op, limit, cancelled, call, pos, ps, buffer, received, reader>>
  BY DEF RpcFails, RpcAnswers, searchVars
<1>2. pos[p] = 0 /\ given[p] = << >> /\ given \in [Targets -> Answers] /\ putctxDone \in BOOLEAN
  BY <1>t, <1>1 DEF Positions, SearchTypes, SearchTypeOK, ExecTypeOK
<1>o. op \in {"findProviders", "searchValue", "findPeer", "put"}
  BY <1>t, <1>1 DEF CallOrder, NotStarted, SearchTypeOK
<1>3. PICK a \in Answers :
        /\ given' = [given EXCEPT ![p] = a] /\ (op = "put" => a = << >>)
        /\ \/ FnReturns(p, "err") /\ a = << >>
           \/ FnReturns(p, "ok") /\ a = << >>
           \/ a # << >> /\ fn' = [fn EXCEPT ![p] = "take"] /\ UNCHANGED <<result, errCh>>
  <2>1. CASE RpcFails(p)
    <3>1. FnReturns(p, "err") /\ given' = given
      BY <2>1 DEF RpcFails, searchVars
    <3>2. given' = [given EXCEPT ![p] = << >>] /\ << >> \in Answers
      BY <1>2, <3>1, SearchAssumption
    <3> QED
      BY <3>1, <3>2
  <2>2. CASE RpcAnswers(p)
    BY <1>o, <2>2, AnswersType DEF RpcAnswers
  <2> QED
    BY <2>1, <2>2
<1>4. /\ given' \in [Targets -> Answers] /\ given'[p] = a
      /\ \A q \in Targets : q # p => given'[q] = given[q]
  BY <1>2, <1>3
<1>5. op = "put" => \A q \in Targets : given'[q] = << >>
  BY <1>t, <1>3, <1>4 DEF CallOrder
<1>6. /\ ExecTypeOK' /\ fn' \in [Targets -> {"off", "rpc", "take", "send", "check", "done"}]
      /\ ReportsAccounted' /\ ResultWhenDone' /\ NotStarted' /\ CallOrder'
      /\ exec # "off" /\ result[p] = "none"
      /\ \A q \in Targets : q # p => fn'[q] = fn[q] /\ result'[q] = result[q]
  BY <1>1, <1>2, <1>3, <1>5, OneFunction
<1>7. \/ fn'[p] = "take" /\ result'[p] = "none" /\ a # << >>
      \/ fn'[p] = "done" /\ a = << >>
  <2>1. fn \in [Targets -> {"off", "rpc", "take", "send", "check", "done"}]
    BY <1>t DEF SearchTypeOK
  <2> QED
    BY <1>3, <1>6, <2>1 DEF FnReturns
<1>8. Len(a) \in Nat /\ (a # << >> => Len(a) > 0) /\ (a = << >> => Len(a) = 0)
  <2>1. a \in Seq(ToSet(a))
    BY SearchAssumption
  <2> QED
    BY <2>1
<1>9. /\ UNCHANGED <<Got, InBuffer, Enough, findAll>>
      /\ \A q \in Targets : /\ Sending(q)' <=> Sending(q)
                            /\ DealtWith(q)' = DealtWith(q)
                            /\ q # p => Item(q)' = Item(q)
  BY <1>1, <1>2, <1>4, <1>6, <1>7 DEF Got, InBuffer, Enough, findAll, Sending, DealtWith, Item
<1>s. ~Sending(p)
  BY <1>1 DEF Sending
<1>10. Positions'
  BY <1>t, <1>1, <1>2, <1>4, <1>6, <1>7, <1>8, <1>9 DEF Positions
<1>11. Owned'
  <2>1. \A q \in Targets : Sending(q)' => Sending(q) /\ q # p /\ Item(q)' = Item(q)
    BY <1>9, <1>s
  <2> QED
    BY <1>t, <1>1, <1>9, <2>1 DEF Owned
<1>12. AddedSent'
  <2>1. ASSUME NEW x, CutOff(x) PROVE CutOff(x)'
    <3>1. PICK q \in Targets : result[q] = "err" /\ pos[q] < Len(given[q]) /\ Item(q) = x
      BY <2>1 DEF CutOff
    <3>2. q # p
      BY <1>6, <3>1
    <3> QED
      BY <1>1, <1>4, <1>6, <1>9, <3>1, <3>2 DEF CutOff
  <2> SUFFICES ASSUME op = "findProviders", NEW x \in ps
               PROVE  x \in Got \/ CutOff(x)' \/ \E q \in Targets : Sending(q)' /\ Item(q)' = x
    BY <1>1, <1>9 DEF AddedSent
  <2>2. x \in Got \/ CutOff(x) \/ \E q \in Targets : Sending(q) /\ Item(q) = x
    BY <1>t, <1>6 DEF AddedSent
  <2> QED
    BY <1>9, <1>s, <2>1, <2>2
<1>13. ItemsHandled'
  <2>1. ASSUME NEW q \in Targets, NEW i \in DealtWith(q)' PROVE Handled(given[q][i])'
    <3>1. q # p
      BY <1>1, <1>2, <1>9 DEF DealtWith
    <3>2. Handled(given[q][i])
      BY <1>t, <1>9, <2>1 DEF ItemsHandled
    <3> QED
      BY <1>1, <1>4, <1>9, <3>1, <3>2 DEF Handled
  <2> QED
    BY <2>1 DEF ItemsHandled
<1>14. SearchTypes' /\ Drained'
  BY <1>t, <1>1, <1>4 DEF SearchTypes, Drained
<1>15. SearchTypeOK'
  BY <1>t, <1>1, <1>6, <1>9 DEF SearchTypeOK
<1> QED
  BY <1>6, <1>10, <1>11, <1>12, <1>13, <1>14, <1>15 DEF SearchIInv, ItemInv

(* What was cut off stays cut off, since only a function without a result
   moves on. *)
LEMMA CutOffStays ==
  ASSUME NEW p \in Targets, result[p] = "none", UNCHANGED given,
         \A q \in Targets : q # p => result'[q] = result[q] /\ pos'[q] = pos[q],
         NEW x, CutOff(x)
  PROVE  CutOff(x)'
<1>1. PICK q \in Targets : result[q] = "err" /\ pos[q] < Len(given[q]) /\ Item(q) = x
  BY DEF CutOff
<1>2. q # p
  BY <1>1
<1> QED
  BY <1>1, <1>2 DEF CutOff, Item

(* The next item is added and to be sent, or passed over. *)
LEMMA TakeStep ==
  ASSUME SearchIInv, NEW p \in Targets, Take(p)
  PROVE  SearchIInv'
<1>t. /\ SearchTypeOK /\ ReportsAccounted /\ SearchTypes /\ NotStarted /\ ResultWhenDone
      /\ CallOrder /\ Positions /\ Owned /\ AddedSent /\ ItemsHandled /\ Drained
  BY DEF SearchIInv, ItemInv
<1> DEFINE x == Item(p)
<1>1. /\ fn[p] = "take"
      /\ UNCHANGED <<exec, result, errCh, countVars, putctxDone,
                     op, limit, cancelled, call, given, pos, buffer, received, reader>>
      /\ \/ op = "findProviders" /\ psTryAdd(x) /\ ps' = ps \cup {x} /\ fn' = [fn EXCEPT ![p] = "send"]
         \/ op = "findProviders" /\ ~psTryAdd(x) /\ ps' = ps /\ fn' = [fn EXCEPT ![p] = "check"]
         \/ op # "findProviders" /\ ps' = ps /\ fn' = [fn EXCEPT ![p] = "send"]
  BY DEF Take
<1>2. /\ fn \in [Targets -> {"off", "rpc", "take", "send", "check", "done"}] /\ putctxDone \in BOOLEAN
      /\ limit \in Nat /\ IsFiniteSet(ps) /\ Cardinality(ps) \in Nat /\ pos[p] < Len(given[p])
  BY <1>t, <1>1, FS_CardinalityType DEF SearchTypeOK, ExecTypeOK, SearchTypes, Positions
<1>3. x \in Items /\ pos[p] \in Nat
  BY <1>t, <1>2, ItemType
<1>4. /\ ExecTypeOK' /\ fn' \in [Targets -> {"off", "rpc", "take", "send", "check", "done"}]
      /\ ReportsAccounted' /\ ResultWhenDone' /\ NotStarted' /\ CallOrder'
      /\ exec # "off" /\ result[p] = "none"
      /\ \A q \in Targets : q # p => fn'[q] = fn[q] /\ result'[q] = result[q]
  <2>1. op = "put" => \A q \in Targets : given'[q] = << >>
    BY <1>t, <1>1 DEF CallOrder
  <2>2. \E l \in {"take", "send", "check"} : fn' = [fn EXCEPT ![p] = l] /\ UNCHANGED <<result, errCh>>
    BY <1>1
  <2> QED
    BY <1>1, <1>2, <2>1, <2>2, OneFunction
<1> HIDE DEF x
<1>5. /\ UNCHANGED <<Got, InBuffer, findAll>>
      /\ \A q \in Targets : Item(q)' = Item(q)
      /\ \A q \in Targets : q # p => (Sending(q)' <=> Sending(q)) /\ DealtWith(q)' = DealtWith(q)
      /\ \A y : CutOff(y)' <=> CutOff(y)
  BY <1>1, <1>4 DEF Got, InBuffer, findAll, Item, Sending, DealtWith, CutOff
<1>6. /\ IsFiniteSet(ps') /\ Cardinality(ps') \in Nat /\ ps \subseteq ps' /\ ps' \subseteq ps \cup {x}
      /\ Enough => Enough'
  <2>1. CASE ps' = ps
    BY <1>1, <1>2, <2>1 DEF Enough, findAll
  <2>2. CASE ps' = ps \cup {x}
    <3>1. /\ IsFiniteSet(ps')
          /\ Cardinality(ps') = Cardinality(ps) \/ Cardinality(ps') = Cardinality(ps) + 1
      BY <1>2, <2>2, FS_AddElement
    <3>2. Cardinality(ps') \in Nat /\ Cardinality(ps) <= Cardinality(ps')
      BY <1>2, <3>1
    <3> QED
      BY <1>1, <1>2, <2>2, <3>1, <3>2 DEF Enough, findAll
  <2> QED
    BY <1>1, <2>1, <2>2
<1>7. ~Sending(p) /\ fn'[p] \in {"send", "check"}
  BY <1>1, <1>2 DEF Sending
<1>8. Positions'
  BY <1>t, <1>1, <1>2, <1>4, <1>6, <1>7 DEF Positions
<1>9. Owned' /\ AddedSent'
  <2>1. CASE op # "findProviders"
    BY <1>1, <2>1 DEF Owned, AddedSent
  <2>2. CASE op = "findProviders" /\ ~psTryAdd(x)
    <3>1. ps' = ps /\ ~Sending(p)'
      BY <1>1, <1>2, <2>2 DEF Sending
    <3>2. \A q \in Targets : Sending(q)' <=> Sending(q)
      BY <1>5, <1>7, <3>1
    <3>3. Owned'
      BY <1>t, <1>1, <1>5, <3>1, <3>2 DEF Owned
    <3>4. AddedSent'
      BY <1>t, <1>1, <1>4, <1>5, <3>1, <3>2 DEF AddedSent, CutOff, Item
    <3> QED
      BY <3>3, <3>4
  <2>3. CASE op = "findProviders" /\ psTryAdd(x)
    <3>1. ps' = ps \cup {x} /\ Sending(p)' /\ x \notin ps /\ (findAll \/ Cardinality(ps) < limit)
      BY <1>1, <1>2, <2>3 DEF Sending, psTryAdd
    <3>2. Cardinality(ps') = Cardinality(ps) + 1
      BY <1>2, <3>1, FS_AddElement
    <3>3. findAll' \/ Cardinality(ps') <= limit'
      BY <1>1, <1>2, <1>5, <3>1, <3>2
    <3>4. Item(p)' = x /\ \A q \in Targets : q # p /\ Sending(q)' => Item(q)' \in ps \ Got
      BY <1>t, <1>5, <2>3 DEF Owned, x
    <3>5. Owned'
      <4>1. /\ buffer' = << >> /\ Cardinality(Got') = Len(received') /\ Got' \subseteq ps /\ Got' = Got
            /\ \A q, r \in Targets : Sending(q) /\ Sending(r) /\ q # r => Item(q) # Item(r)
        BY <1>t, <1>1, <1>5, <2>3 DEF Owned
      <4>2. \A q \in Targets : Sending(q)' => Item(q)' \in ps' \ Got'
        BY <3>1, <3>4, <4>1
      <4>3. ASSUME NEW q \in Targets, NEW r \in Targets, Sending(q)', Sending(r)', q # r
            PROVE  Item(q)' # Item(r)'
        <5>1. CASE q # p /\ r # p
          BY <1>5, <4>1, <4>3, <5>1
        <5>2. CASE q = p \/ r = p
          BY <3>1, <3>4, <4>3, <5>2
        <5> QED
          BY <5>1, <5>2
      <4> QED
        BY <1>6, <3>3, <4>1, <4>2, <4>3 DEF Owned
    <3>6. AddedSent'
      <4> SUFFICES ASSUME NEW y \in ps'
                   PROVE  y \in Got' \/ CutOff(y)' \/ \E q \in Targets : Sending(q)' /\ Item(q)' = y
        BY DEF AddedSent
      <4>1. CASE y = x
        BY <3>1, <3>4, <4>1
      <4>2. CASE y \in ps
        <5>1. y \in Got \/ CutOff(y) \/ \E q \in Targets : Sending(q) /\ Item(q) = y
          BY <1>t, <1>4, <2>3, <4>2 DEF AddedSent
        <5> QED
          BY <1>5, <1>7, <5>1
      <4> QED
        BY <3>1, <4>1, <4>2
    <3> QED
      BY <3>5, <3>6
  <2> QED
    BY <2>1, <2>2, <2>3
<1>10. ItemsHandled'
  <2>1. ASSUME NEW y, Handled(y) PROVE IF op = "findProviders" THEN y \in ps' \/ Enough' ELSE y \in Got \cup InBuffer
    BY <1>6, <2>1 DEF Handled
  <2>2. ASSUME NEW q \in Targets, NEW i \in DealtWith(q)' PROVE Handled(given[q][i])'
    <3>1. CASE i \in DealtWith(q)
      <4>1. Handled(given[q][i])
        BY <1>t, <3>1 DEF ItemsHandled
      <4> QED
        BY <1>1, <1>5, <2>1, <4>1 DEF Handled
    <3>2. CASE i \notin DealtWith(q)
      <4>q. q = p
        BY <1>5, <2>2, <3>2
      <4>d. DealtWith(p) = 1..pos[p] /\ DealtWith(p)' = 1..(IF fn'[p] = "check" THEN pos[p] + 1 ELSE pos[p])
        BY <1>1 DEF DealtWith
      <4>1. q = p /\ fn'[p] = "check" /\ i = pos[p] + 1
        BY <1>3, <2>2, <3>2, <4>q, <4>d
      <4>2. given[q][i] = x /\ op = "findProviders" /\ ~psTryAdd(x) /\ ps' = ps
        BY <1>1, <1>2, <4>1 DEF Item, x
      <4>3. x \in ps \/ Enough
        BY <1>2, <4>2 DEF psTryAdd, Enough
      <4> QED
        BY <1>1, <1>6, <4>2, <4>3 DEF Handled
    <3> QED
      BY <3>1, <3>2
  <2> QED
    BY <2>2 DEF ItemsHandled
<1>11. SearchTypes' /\ Drained'
  BY <1>t, <1>1, <1>6 DEF SearchTypes, Drained
<1>12. SearchTypeOK'
  BY <1>t, <1>1, <1>3, <1>4, <1>5, <1>6 DEF SearchTypeOK
<1> QED
  BY <1>4, <1>8, <1>9, <1>10, <1>11, <1>12 DEF SearchIInv, ItemInv

(* The item goes to the user, or into the buffer. *)
LEMMA SendStep ==
  ASSUME SearchIInv, NEW p \in Targets, Send(p)
  PROVE  SearchIInv'
<1>t. /\ SearchTypeOK /\ ReportsAccounted /\ SearchTypes /\ NotStarted /\ ResultWhenDone
      /\ CallOrder /\ Positions /\ Owned /\ AddedSent /\ ItemsHandled /\ Drained
  BY DEF SearchIInv, ItemInv
<1> DEFINE x == Item(p)
           m == Msg(p, x)
<1>1. /\ fn[p] = "send" /\ fn' = [fn EXCEPT ![p] = "check"]
      /\ UNCHANGED <<exec, result, errCh, countVars, putctxDone,
                     op, limit, cancelled, call, given, pos, ps, reader>>
      /\ \/ op = "findProviders" /\ received' = Append(received, m) /\ buffer' = buffer
         \/ op # "findProviders" /\ buffer = << >> /\ buffer' = <<m>> /\ received' = received
  BY DEF Send
<1>2. /\ fn \in [Targets -> {"off", "rpc", "take", "send", "check", "done"}] /\ putctxDone \in BOOLEAN
      /\ IsFiniteSet(ps) /\ pos[p] < Len(given[p]) /\ received \in Seq(Messages)
  BY <1>t, <1>1 DEF SearchTypeOK, ExecTypeOK, SearchTypes, Positions
<1>3. x \in Items /\ pos[p] \in Nat
  BY <1>t, <1>2, ItemType
<1>4. m \in Messages /\ m.item = x
  BY <1>3 DEF Msg, Messages
<1>5. /\ ExecTypeOK' /\ fn' \in [Targets -> {"off", "rpc", "take", "send", "check", "done"}]
      /\ ReportsAccounted' /\ ResultWhenDone' /\ NotStarted' /\ CallOrder'
      /\ exec # "off" /\ (reader = "done" => op = "put")
      /\ \A q \in Targets : q # p => fn'[q] = fn[q]
  <2>1. op = "put" => \A q \in Targets : given'[q] = << >>
    BY <1>t, <1>1 DEF CallOrder
  <2>2. \E l \in {"take", "send", "check"} : fn' = [fn EXCEPT ![p] = l] /\ UNCHANGED <<result, errCh>>
    BY <1>1
  <2> QED
    BY <1>1, <1>2, <2>1, <2>2, OneFunction
<1>x. given[p][pos[p] + 1] = x
  BY DEF Item, x
<1>y. Item(p)' = x /\ fn'[p] = "check"
  BY <1>1, <1>2 DEF Item, x
<1> HIDE DEF x, m
<1>6. /\ UNCHANGED <<findAll, Enough>>
      /\ \A q \in Targets : Item(q)' = Item(q)
      /\ \A q \in Targets : q # p => (Sending(q)' <=> Sending(q)) /\ DealtWith(q)' = DealtWith(q)
      /\ \A y : CutOff(y)' <=> CutOff(y)
      /\ ~Sending(p)' /\ Sending(p)
  BY <1>1, <1>5, <1>y DEF findAll, Enough, Item, Sending, DealtWith, CutOff
<1>7. \A q \in Targets : \A i \in DealtWith(q)' : i \in DealtWith(q) \/ (q = p /\ i = pos[p] + 1)
  BY <1>1, <1>3, <1>6, <1>y DEF DealtWith
<1>8. Positions'
  BY <1>t, <1>1, <1>2, <1>5, <1>6, <1>y DEF Positions
<1>9. CASE op = "findProviders"
  <2>1. /\ received' \in Seq(Messages) /\ Len(received) \in Nat /\ Len(received') = Len(received) + 1
        /\ Got' = Got \cup {x} /\ buffer' = buffer
    BY <1>1, <1>2, <1>4, <1>9, GotGrows
  <2>2. /\ buffer = << >> /\ Cardinality(Got) = Len(received) /\ Got \subseteq ps
        /\ findAll \/ Cardinality(ps) <= limit
        /\ x \in ps \ Got
        /\ \A q \in Targets : Sending(q) => Item(q) \in ps \ Got
        /\ \A q \in Targets : Sending(q) /\ q # p => Item(q) # x
        /\ \A q, r \in Targets : Sending(q) /\ Sending(r) /\ q # r => Item(q) # Item(r)
    <3>1. /\ buffer = << >> /\ Cardinality(Got) = Len(received) /\ Got \subseteq ps
          /\ findAll \/ Cardinality(ps) <= limit
          /\ \A q \in Targets : Sending(q) => Item(q) \in ps \ Got
          /\ \A q, r \in Targets : Sending(q) /\ Sending(r) /\ q # r => Item(q) # Item(r)
      BY <1>t, <1>9 DEF Owned
    <3> QED
      BY <1>6, <3>1 DEF x
  <2>3. Cardinality(Got') = Len(received')
    <3>1. IsFiniteSet(Got)
      BY <1>2, <2>2, FS_Subset
    <3> QED
      BY <2>1, <2>2, <3>1, FS_AddElement
  <2>4. Owned'
    <3>1. \A q \in Targets : Sending(q)' => Sending(q) /\ q # p /\ Item(q)' = Item(q)
      BY <1>6
    <3>2. \A q \in Targets : Sending(q)' => Item(q)' \in ps \ Got'
      BY <2>1, <2>2, <3>1
    <3>3. \A q, r \in Targets : Sending(q)' /\ Sending(r)' /\ q # r => Item(q)' # Item(r)'
      BY <2>2, <3>1
    <3>4. Got' \subseteq ps' /\ (findAll' \/ Cardinality(ps') <= limit')
      BY <1>1, <1>6, <2>1, <2>2
    <3> QED
      BY <1>1, <2>1, <2>2, <2>3, <3>2, <3>3, <3>4 DEF Owned
  <2>5. AddedSent'
    <3> SUFFICES ASSUME NEW y \in ps
                 PROVE  y \in Got' \/ CutOff(y)' \/ \E q \in Targets : Sending(q)' /\ Item(q)' = y
      BY <1>1 DEF AddedSent
    <3>1. y \in Got \/ CutOff(y) \/ \E q \in Targets : Sending(q) /\ Item(q) = y
      BY <1>t, <1>5, <1>9 DEF AddedSent
    <3>2. CASE \E q \in Targets : Sending(q) /\ Item(q) = y
      <4>1. PICK q \in Targets : Sending(q) /\ Item(q) = y
        BY <3>2
      <4>2. CASE q = p
        BY <2>1, <4>1, <4>2 DEF x
      <4>3. CASE q # p
        BY <1>6, <4>1, <4>3
      <4> QED
        BY <4>2, <4>3
    <3> QED
      BY <1>6, <2>1, <3>1, <3>2
  <2>6. ItemsHandled'
    <3>1. ASSUME NEW q \in Targets, NEW i \in DealtWith(q)' PROVE given[q][i] \in ps \/ Enough
      <4>1. CASE i \in DealtWith(q)
        BY <1>t, <1>9, <4>1 DEF ItemsHandled, Handled
      <4>2. CASE q = p /\ i = pos[p] + 1
        BY <1>x, <2>2, <4>2
      <4> QED
        BY <1>7, <3>1, <4>1, <4>2
    <3> QED
      BY <1>1, <1>6, <1>9, <3>1 DEF ItemsHandled, Handled
  <2>7. SearchTypes' /\ Drained'
    BY <1>t, <1>1, <2>1 DEF SearchTypes, Drained
  <2>8. SearchTypeOK'
    BY <1>t, <1>1, <1>3, <1>5, <2>1 DEF SearchTypeOK
  <2> QED
    BY <1>5, <1>8, <2>4, <2>5, <2>6, <2>7, <2>8 DEF SearchIInv, ItemInv
<1>10. CASE op # "findProviders"
  <2>1. buffer = << >> /\ buffer' = <<m>> /\ received' = received
    BY <1>1, <1>10
  <2>2. Got' = Got /\ InBuffer = {} /\ InBuffer' = {x}
    BY <1>4, <2>1 DEF Got, InBuffer, ToSet
  <2>3. Owned' /\ AddedSent'
    BY <1>1, <1>10 DEF Owned, AddedSent
  <2>4. ItemsHandled'
    <3>1. ASSUME NEW q \in Targets, NEW i \in DealtWith(q)' PROVE given[q][i] \in Got \cup {x}
      <4>1. CASE i \in DealtWith(q)
        BY <1>t, <1>10, <2>2, <4>1 DEF ItemsHandled, Handled
      <4>2. CASE q = p /\ i = pos[p] + 1
        BY <1>x, <4>2
      <4> QED
        BY <1>7, <3>1, <4>1, <4>2
    <3> QED
      BY <1>1, <1>10, <2>2, <3>1 DEF ItemsHandled, Handled
  <2>5. SearchTypes'
    BY <1>t, <1>1, <1>4, <2>1 DEF SearchTypes
  <2>6. Drained'
    BY <1>1, <1>5 DEF Drained
  <2>7. SearchTypeOK'
    <3>1. Len(buffer') <= 1
      BY <1>4, <2>1, ShortBuffer
    <3> QED
      BY <1>t, <1>1, <1>5, <2>2, <3>1 DEF SearchTypeOK
  <2> QED
    BY <1>5, <1>8, <2>3, <2>4, <2>5, <2>6, <2>7 DEF SearchIInv, ItemInv
<1> QED
  BY <1>9, <1>10

(* The send is given up: its item is cut off. *)
LEMMA AbortStep ==
  ASSUME SearchIInv, NEW p \in Targets, SendAborted(p)
  PROVE  SearchIInv'
<1>t. /\ SearchTypeOK /\ ReportsAccounted /\ SearchTypes /\ NotStarted /\ ResultWhenDone
      /\ CallOrder /\ Positions /\ Owned /\ AddedSent /\ ItemsHandled /\ Drained
  BY DEF SearchIInv, ItemInv
<1>1. fn[p] = "send" /\ FnReturns(p, "err") /\ UNCHANGED <<exec, countVars, putctxDone>>
  BY DEF SendAborted
<1>v. UNCHANGED <<op, limit, cancelled, call, given, pos, ps, buffer, received, reader>>
  BY DEF SendAborted, searchVars
<1>2. /\ fn \in [Targets -> {"off", "rpc", "take", "send", "check", "done"}] /\ putctxDone \in BOOLEAN
      /\ result \in [Targets -> {"none", "ok", "err"}] /\ pos[p] < Len(given[p])
  BY <1>t, <1>1 DEF SearchTypeOK, ExecTypeOK, Positions
<1>3. /\ ExecTypeOK' /\ fn' \in [Targets -> {"off", "rpc", "take", "send", "check", "done"}]
      /\ ReportsAccounted' /\ ResultWhenDone' /\ NotStarted' /\ CallOrder'
      /\ exec # "off" /\ result[p] = "none"
      /\ \A q \in Targets : q # p => fn'[q] = fn[q] /\ result'[q] = result[q]
  <2>1. op = "put" => \A q \in Targets : given'[q] = << >>
    BY <1>t, <1>v DEF CallOrder
  <2> QED
    BY <1>1, <1>v, <1>2, <2>1, OneFunction
<1>4. fn'[p] = "done" /\ result'[p] = "err"
  BY <1>1, <1>2 DEF FnReturns
<1>5. /\ UNCHANGED <<Got, InBuffer, findAll, Enough>>
      /\ \A q \in Targets : Item(q)' = Item(q) /\ DealtWith(q)' = DealtWith(q)
      /\ \A q \in Targets : q # p => (Sending(q)' <=> Sending(q))
      /\ ~Sending(p)' /\ Sending(p)
  BY <1>1, <1>v, <1>3, <1>4 DEF Got, InBuffer, findAll, Enough, Item, Sending, DealtWith
<1>6. Positions'
  BY <1>t, <1>v, <1>2, <1>3, <1>4, <1>5 DEF Positions
<1>7. Owned'
  <2>1. \A q \in Targets : Sending(q)' => Sending(q) /\ Item(q)' = Item(q)
    BY <1>5
  <2> QED
    BY <1>t, <1>v, <1>5, <2>1 DEF Owned
<1>8. AddedSent'
  <2> SUFFICES ASSUME op = "findProviders", NEW x \in ps
               PROVE  x \in Got \/ CutOff(x)' \/ \E q \in Targets : Sending(q)' /\ Item(q)' = x
    BY <1>v, <1>5 DEF AddedSent
  <2>1. x \in Got \/ CutOff(x) \/ \E q \in Targets : Sending(q) /\ Item(q) = x
    BY <1>t, <1>3 DEF AddedSent
  <2>2. CASE CutOff(x)
    BY <1>v, <1>3, <2>2, CutOffStays
  <2>3. CASE Item(p) = x
    BY <1>v, <1>2, <1>4, <1>5, <2>3 DEF CutOff
  <2>4. CASE \E q \in Targets : q # p /\ Sending(q) /\ Item(q) = x
    BY <1>5, <2>4
  <2> QED
    BY <2>1, <2>2, <2>3, <2>4
<1>9. ItemsHandled'
  BY <1>t, <1>v, <1>5 DEF ItemsHandled, Handled
<1>10. SearchTypes' /\ Drained'
  BY <1>t, <1>v DEF SearchTypes, Drained
<1>11. SearchTypeOK'
  BY <1>t, <1>v, <1>3, <1>5 DEF SearchTypeOK
<1> QED
  BY <1>3, <1>6, <1>7, <1>8, <1>9, <1>10, <1>11 DEF SearchIInv, ItemInv

(* The function is done with an item and returns, or goes on to the next. *)
LEMMA CheckStep ==
  ASSUME SearchIInv, NEW p \in Targets, Check(p)
  PROVE  SearchIInv'
<1>t. /\ SearchTypeOK /\ ReportsAccounted /\ SearchTypes /\ NotStarted /\ ResultWhenDone
      /\ CallOrder /\ Positions /\ Owned /\ AddedSent /\ ItemsHandled /\ Drained
  BY DEF SearchIInv, ItemInv
<1> DEFINE enough == op = "findProviders" /\ Enough
           last == pos[p] + 1 = Len(given[p])
<1>1. /\ fn[p] = "check" /\ pos' = [pos EXCEPT ![p] = @ + 1]
      /\ UNCHANGED <<exec, countVars, op, limit, cancelled, call, given, ps, buffer, received, reader>>
      /\ putctxDone' = (putctxDone \/ enough)
      /\ \/ (enough \/ last) /\ FnReturns(p, "ok")
         \/ ~(enough \/ last) /\ fn' = [fn EXCEPT ![p] = "take"] /\ UNCHANGED <<result, errCh>>
  BY DEF Check
<1>2. /\ fn \in [Targets -> {"off", "rpc", "take", "send", "check", "done"}] /\ putctxDone \in BOOLEAN
      /\ result \in [Targets -> {"none", "ok", "err"}]
      /\ pos \in [Targets -> Nat] /\ given \in [Targets -> Answers] /\ pos[p] < Len(given[p])
  BY <1>t, <1>1 DEF SearchTypeOK, ExecTypeOK, SearchTypes, Positions
<1>l. Len(given[p]) \in Nat /\ pos[p] \in Nat
  BY <1>2, AnswerType
<1>b. putctxDone' \in BOOLEAN
  BY <1>1
<1>3. /\ ExecTypeOK' /\ fn' \in [Targets -> {"off", "rpc", "take", "send", "check", "done"}]
      /\ ReportsAccounted' /\ ResultWhenDone' /\ NotStarted' /\ CallOrder'
      /\ exec # "off" /\ result[p] = "none"
      /\ \A q \in Targets : q # p => fn'[q] = fn[q] /\ result'[q] = result[q]
  <2>1. op = "put" => \A q \in Targets : given'[q] = << >>
    BY <1>t, <1>1 DEF CallOrder
  <2>2. \/ FnReturns(p, "ok") \/ FnReturns(p, "err")
        \/ \E l \in {"take", "send", "check"} : fn' = [fn EXCEPT ![p] = l] /\ UNCHANGED <<result, errCh>>
    BY <1>1
  <2> HIDE DEF enough, last
  <2> QED
    BY <1>1, <1>b, <2>1, <2>2, OneFunction
<1>4. \/ (enough \/ last) /\ fn'[p] = "done" /\ result'[p] = "ok"
      \/ ~last /\ fn'[p] = "take" /\ result'[p] = "none"
  BY <1>1, <1>2, <1>3 DEF FnReturns
<1>5. /\ pos' \in [Targets -> Nat] /\ pos'[p] = pos[p] + 1
      /\ \A q \in Targets : q # p => pos'[q] = pos[q]
  BY <1>1, <1>2
<1>6. /\ UNCHANGED <<Got, InBuffer, findAll, Enough>>
      /\ \A q \in Targets : q # p => Item(q)' = Item(q)
      /\ \A q \in Targets : Sending(q)' <=> Sending(q)
      /\ \A q \in Targets : DealtWith(q)' = DealtWith(q)
      /\ ~Sending(p)
  <2>1. UNCHANGED <<Got, InBuffer, findAll, Enough>>
    BY <1>1 DEF Got, InBuffer, findAll, Enough
  <2>2. fn'[p] \in {"done", "take"}
    BY <1>4
  <2> QED
    BY <1>1, <1>3, <1>5, <2>1, <2>2 DEF Item, Sending, DealtWith
<1>7. Positions'
  <2>1. ASSUME NEW q \in Targets, q # p
        PROVE  /\ fn'[q] \in {"take", "send", "check"} => pos'[q] < Len(given'[q])
               /\ fn'[q] = "rpc" => pos'[q] = 0 /\ given'[q] = << >>
               /\ result'[q] = "ok" => pos'[q] = Len(given'[q]) \/ (op' = "findProviders" /\ Enough')
               /\ pos'[q] <= Len(given'[q])
    BY <1>t, <1>1, <1>3, <1>5, <1>6, <2>1 DEF Positions
  <2>2. /\ fn'[p] \in {"take", "send", "check"} => pos'[p] < Len(given'[p])
        /\ fn'[p] # "rpc"
        /\ result'[p] = "ok" => pos'[p] = Len(given'[p]) \/ (op' = "findProviders" /\ Enough')
        /\ pos'[p] <= Len(given'[p])
    BY <1>1, <1>2, <1>l, <1>4, <1>5, <1>6
  <2> QED
    BY <2>1, <2>2 DEF Positions
<1> HIDE DEF enough, last
<1>8. Owned'
  <2>1. \A q \in Targets : Sending(q)' => Sending(q) /\ Item(q)' = Item(q)
    BY <1>6
  <2> QED
    BY <1>t, <1>1, <1>6, <2>1 DEF Owned
<1>9. AddedSent'
  <2> SUFFICES ASSUME op = "findProviders", NEW x \in ps
               PROVE  x \in Got \/ CutOff(x)' \/ \E q \in Targets : Sending(q)' /\ Item(q)' = x
    BY <1>1, <1>6 DEF AddedSent
  <2>1. x \in Got \/ CutOff(x) \/ \E q \in Targets : Sending(q) /\ Item(q) = x
    BY <1>t, <1>3 DEF AddedSent
  <2>2. CASE CutOff(x)
    BY <1>1, <1>3, <1>5, <2>2, CutOffStays
  <2>3. CASE \E q \in Targets : Sending(q) /\ Item(q) = x
    BY <1>6, <2>3
  <2> QED
    BY <2>1, <2>2, <2>3
<1>10. ItemsHandled'
  BY <1>t, <1>1, <1>6 DEF ItemsHandled, Handled
<1>11. SearchTypes' /\ Drained'
  BY <1>t, <1>1, <1>5 DEF SearchTypes, Drained
<1>12. SearchTypeOK'
  BY <1>t, <1>1, <1>3, <1>6 DEF SearchTypeOK
<1> QED
  BY <1>3, <1>7, <1>8, <1>9, <1>10, <1>11, <1>12 DEF SearchIInv, ItemInv

(* Every step of a search keeps its invariant. *)
LEMMA SearchStep ==
  ASSUME SearchIInv, SearchNext \/ UNCHANGED allSearchVars
  PROVE  SearchIInv'
<1>1. CASE Routine
  BY <1>1, LocalStep, RestStep, StartStep DEF Routine
<1>2. CASE Exec
  BY <1>2, ExecStep
<1>3. CASE Cancel \/ ReaderCancelled \/ UNCHANGED allSearchVars
  BY <1>3, RestStep
<1>4. CASE Reader
  BY <1>4, ReceiveStep, RestStep DEF Reader
<1>5. ASSUME NEW p \in Targets, Fn(p) PROVE SearchIInv'
  BY <1>5, RpcStep, TakeStep, SendStep, AbortStep, CheckStep DEF Fn
<1> QED
  BY <1>1, <1>2, <1>3, <1>4, <1>5 DEF SearchNext

-----------------------------------------------------------------------------
(* The operations *)

(* A call starts with nothing asked, sent or received. *)
LEMMA InitHolds ==
  ASSUME Init
  PROVE  IInv
<1>1. PICK o \in {"findProviders", "searchValue", "findPeer", "put", "none"},
           b \in {"off", "start"} : InitSearch(o) /\ InitBulk(b)
  BY DEF Init
<1>2. SearchIInv
  <2>1. /\ exec = "off" /\ fn = [p \in Targets |-> "off"] /\ result = [p \in Targets |-> "none"]
        /\ errCh = {} /\ numDone = 0 /\ numSuccess = 0 /\ ticker = -1 /\ putctxDone = FALSE
    BY <1>1 DEF InitSearch, InitExec
  <2>2. /\ op = o /\ cancelled = FALSE /\ call = (IF o = "none" THEN "over" ELSE "start")
        /\ given = [p \in Targets |-> << >>] /\ pos = [p \in Targets |-> 0]
        /\ ps = {} /\ buffer = << >> /\ received = << >>
        /\ reader = (IF o \in {"put", "none"} THEN "done" ELSE "reading")
    BY <1>1 DEF InitSearch
  <2>3. limit \in Nat
    <3>1. limit \in CASE o = "findProviders" -> Counts [] o = "searchValue" -> Quorums [] OTHER -> {0}
      BY <1>1 DEF InitSearch
    <3>2. CASE o = "findProviders"
      BY <3>1, <3>2, SearchAssumption
    <3>3. CASE o = "searchValue"
      BY <3>1, <3>3, SearchAssumption
    <3>4. CASE o \notin {"findProviders", "searchValue"}
      BY <3>1, <3>4
    <3> QED
      BY <3>2, <3>3, <3>4
  <2>4. Cardinality({}) = 0 /\ IsFiniteSet({})
    BY FS_EmptySet
  <2>5. Got = {} /\ Len(received) = 0 /\ Len(buffer) = 0 /\ received \in Seq(Messages)
    BY <2>2 DEF Got, ToSet
  <2>6. ExecTypeOK
    <3>1. Cardinality(Targets) \in Nat
      BY ExecAssumption, FS_CardinalityType
    <3>2. numDone \in 0..Cardinality(Targets) /\ numSuccess \in 0..numDone /\ ticker \in -1..numSuccess
      BY <2>1, <3>1
    <3>3. result \in [Targets -> {"none", "ok", "err"}]
      BY <2>1
    <3> QED
      BY <2>1, <3>2, <3>3 DEF ExecTypeOK
  <2>7. SearchTypeOK
    BY <2>1, <2>2, <2>5, <2>6 DEF SearchTypeOK
  <2>8. ReportsAccounted /\ NotStarted /\ ResultWhenDone
    BY <2>1, <2>2 DEF ReportsAccounted, NotStarted, ResultWhenDone
  <2>9. SearchTypes
    BY <2>2, <2>3, <2>4, <2>5, SearchAssumption DEF SearchTypes
  <2>10. CallOrder /\ Drained
    BY <2>1, <2>2 DEF CallOrder, Drained
  <2>11. Positions
    <3>1. \A p \in Targets : pos[p] = 0 /\ Len(given[p]) = 0 /\ fn[p] = "off" /\ result[p] = "none"
      BY <2>1, <2>2
    <3> QED
      BY <3>1 DEF Positions
  <2>12. Owned
    <3>1. \A p \in Targets : ~Sending(p)
      BY <2>1 DEF Sending
    <3>2. findAll \/ Cardinality(ps) <= limit
      BY <2>2, <2>3, <2>4
    <3> QED
      BY <2>2, <2>4, <2>5, <3>1, <3>2 DEF Owned
  <2>13. AddedSent
    BY <2>2 DEF AddedSent
  <2>14. ItemsHandled
    <3>1. \A p \in Targets : DealtWith(p) = {}
      BY <2>1, <2>2 DEF DealtWith
    <3> QED
      BY <3>1 DEF ItemsHandled
  <2> QED
    BY <2>7, <2>8, <2>9, <2>10, <2>11, <2>12, <2>13, <2>14 DEF SearchIInv, ItemInv
<1>3. BulkIInv
  <2>1. /\ bulk \in {"off", "start"} /\ ctxDone = FALSE /\ chunkSize = 0 /\ sendsSoFar = 0
        /\ keysPerPeer = {} /\ workCh = << >> /\ bulkWorker = [w \in BulkWorkers |-> BulkIdle]
        /\ successes = [k \in Keys |-> 0] /\ assigned = {} /\ tried = {} /\ skipped = {}
    BY <1>1 DEF InitBulk
  <2>2. BulkTypeOK
    BY <2>1, BulkAssumption DEF BulkTypeOK, BulkIdle
  <2>3. BulkTypes
    BY <2>1 DEF BulkTypes, BulkIdle
  <2>4. Waiting = {} /\ \A w \in BulkWorkers : Hand(w) = {}
    BY <2>1 DEF Waiting, Hand, Pairs, BulkIdle, Work
  <2>5. Pending = {}
    BY <2>1, <2>4, PendingIn
  <2>6. OnePlace /\ Accounted
    BY <2>1, <2>4, <2>5 DEF OnePlace, Accounted
  <2>7. SuccessTried
    <3>1. \A k : {pair \in tried : pair[2] = k} = {}
      BY <2>1
    <3>2. Cardinality({}) = 0
      BY FS_EmptySet
    <3> QED
      BY <2>1, <3>1, <3>2 DEF SuccessTried
  <2>8. BulkOrder
    BY <2>1 DEF BulkOrder, BulkIdle
  <2> QED
    BY <2>2, <2>3, <2>6, <2>7, <2>8 DEF BulkIInv
<1> QED
  BY <1>2, <1>3 DEF IInv

(* The invariant holds for every call: each step belongs to a search or to a
   bulk send, and leaves the other alone. *)
THEOREM OperationsInvariance == Spec => []IInv
<1>1. Init => IInv
  BY InitHolds
<1>2. IInv /\ [Next]_vars => IInv'
  <2> SUFFICES ASSUME IInv, [Next]_vars PROVE IInv'
    OBVIOUS
  <2>1. SearchNext \/ UNCHANGED allSearchVars
    BY DEF Next, vars
  <2>2. BulkNext \/ UNCHANGED bulkVars
    BY DEF Next, vars
  <2>3. SearchIInv /\ BulkIInv
    BY DEF IInv
  <2>4. SearchIInv'
    BY <2>1, <2>3, SearchStep
  <2>5. BulkIInv'
    BY <2>2, <2>3, BulkStep
  <2> QED
    BY <2>4, <2>5 DEF IInv
<1> QED
  BY <1>1, <1>2, PTL DEF Spec

(* When the channel is closed no function is left to send on it, and what
   the user of FindProviders received are distinct providers, at most count. *)
LEMMA SearchIsSafe ==
  ASSUME SearchIInv
  PROVE  SearchSafe
<1>t. /\ SearchTypeOK /\ ReportsAccounted /\ SearchTypes /\ NotStarted /\ CallOrder /\ Owned
  BY DEF SearchIInv, ItemInv
<1>1. NoSendOnClosed
  <2> SUFFICES ASSUME call = "over", ~sloppyExit PROVE Running = {}
    BY DEF NoSendOnClosed
  <2>1. exec \in {"off", "returned"}
    BY <1>t DEF CallOrder, SearchTypeOK, ExecTypeOK
  <2>2. \A p \in Targets : fn[p] \in {"off", "done"}
    BY <1>t, <2>1 DEF CallOrder, NotStarted
  <2> QED
    BY <2>2 DEF Running
<1>2. AtMostCount
  <2> SUFFICES ASSUME op = "findProviders"
               PROVE  Cardinality(Got) = Len(received) /\ (findAll \/ Len(received) <= limit)
    BY DEF AtMostCount
  <2>1. Cardinality(Got) = Len(received) /\ Got \subseteq ps /\ (findAll \/ Cardinality(ps) <= limit)
    BY <1>t DEF Owned
  <2>2. IsFiniteSet(ps) /\ limit \in Nat
    BY <1>t DEF SearchTypes
  <2>3. Cardinality(ps) \in Nat /\ Cardinality(Got) \in Nat /\ Cardinality(Got) <= Cardinality(ps)
    BY <2>1, <2>2, FS_Subset, FS_CardinalityType
  <2> QED
    BY <2>1, <2>2, <2>3
<1> QED
  BY <1>t, <1>1, <1>2 DEF SearchSafe

(* A pair in one place only is sent once. *)
LEMMA BulkIsSafe ==
  ASSUME BulkIInv
  PROVE  BulkTypeOK /\ SentOnce
<1>t. BulkTypeOK /\ OnePlace /\ SuccessTried
  BY DEF BulkIInv
<1> DEFINE pending == [m \in keysPerPeer |-> Pairs(m)]
           inHand == [w \in BulkWorkers |-> Pairs(bulkWorker[w].work)]
<1>1. \A m \in keysPerPeer : pending[m] = Pairs(m)
  OBVIOUS
<1>2. \A w \in BulkWorkers : inHand[w] = Hand(w)
  BY DEF Hand
<1> HIDE DEF pending, inHand
<1>3. \A m \in keysPerPeer : pending[m] \cap (tried \cup skipped) = {}
  BY <1>t, <1>1, PendingIn DEF OnePlace
<1>4. \A w \in BulkWorkers : inHand[w] \cap (tried \cup skipped) = {}
  BY <1>t, <1>2, PendingIn DEF OnePlace
<1>5. \A v, w \in BulkWorkers : v # w => inHand[v] \cap inHand[w] = {}
  BY <1>t, <1>2 DEF OnePlace
<1>6. \A k \in Keys : successes[k] <= Cardinality({pair \in tried : pair[2] = k})
  BY <1>t DEF SuccessTried
<1> QED
  BY <1>t, <1>3, <1>4, <1>5, <1>6 DEF SentOnce, pending, inHand

(* No goroutine of an operation sends on a closed channel, every goroutine of
   execOnMany reports exactly once, the user of FindProviders gets at most
   count providers and none twice, and a bulk send gives no peer a key twice. *)
THEOREM OperationsSafe == Spec => []Inv
<1>1. IInv => Inv
  BY SearchIsSafe, BulkIsSafe DEF IInv, Inv
<1> QED
  BY <1>1, OperationsInvariance, PTL

(* Whatever ended the query, success, count, timeout or cancellation, each
   item of an answer that counts as a success has reached the reader, unless
   the user has enough providers or the function that added it was cut off. *)
THEOREM AnswersDelivered == Spec => []SuccessDelivered
<1>1. ASSUME SearchIInv PROVE SuccessDelivered
  <2>t. /\ SearchTypeOK /\ SearchTypes /\ NotStarted /\ ResultWhenDone
        /\ CallOrder /\ Positions /\ AddedSent /\ ItemsHandled /\ Drained
    BY <1>1 DEF SearchIInv, ItemInv
  <2> SUFFICES ASSUME reader = "done", NEW p \in Targets, result[p] = "ok", NEW x \in ToSet(given[p])
               PROVE  x \in Got \/ (op = "findProviders" /\ x \in Items /\ (Enough \/ CutOff(x)))
    BY DEF SuccessDelivered
  <2>1. fn[p] = "done" /\ exec # "off"
    BY <2>t DEF ResultWhenDone, NotStarted
  <2>2. /\ given[p] \in Answers /\ given[p] \in Seq(ToSet(given[p])) /\ Len(given[p]) \in Nat
        /\ \A i \in 1..Len(given[p]) : given[p][i] \in Items
    <3>1. given[p] \in Answers
      BY <2>t DEF SearchTypes
    <3> QED
      BY <3>1, AnswerType, SearchAssumption
  <2>3. PICK i \in 1..Len(given[p]) : x = given[p][i]
    BY <2>2 DEF ToSet
  <2>4. op \notin {"put", "none"}
    BY <2>t, <2>3 DEF CallOrder
  <2>5. call = "over" /\ buffer = << >> /\ exec = "returned"
    BY <2>t, <2>1, <2>4 DEF Drained, CallOrder, SearchTypeOK, ExecTypeOK
  <2>6. \A q \in Targets : ~Sending(q)
    BY <2>t, <2>4, <2>5 DEF CallOrder, sloppyExit, Sending
  <2>7. CASE op = "findProviders" /\ Enough
    BY <2>2, <2>3, <2>7
  <2>8. CASE ~(op = "findProviders" /\ Enough)
    <3>1. i \in DealtWith(p)
      BY <2>t, <2>1, <2>3, <2>8 DEF Positions, DealtWith
    <3>2. Handled(x)
      BY <2>t, <2>3, <3>1 DEF ItemsHandled
    <3>3. CASE op = "findProviders"
      <4>1. x \in ps
        BY <2>8, <3>2, <3>3 DEF Handled
      <4>2. x \in Got \/ CutOff(x)
        BY <2>t, <2>1, <2>6, <3>3, <4>1 DEF AddedSent
      <4> QED
        BY <2>2, <2>3, <3>3, <4>2
    <3>4. CASE op # "findProviders"
      <4>1. InBuffer = {}
        BY <2>5 DEF InBuffer, ToSet
      <4> QED
        BY <3>2, <3>4, <4>1 DEF Handled
    <3> QED
      BY <3>3, <3>4
  <2> QED
    BY <2>7, <2>8
<1> QED
  BY <1>1, OperationsInvariance, PTL DEF IInv

(* A bulk send that was not cancelled returns, successful or not, only when
   each key was tried at, or skipped for, each of the peers closest to it. *)
THEOREM BulkLosesNothing == Spec => []BulkComplete
<1>1. ASSUME BulkIInv PROVE BulkComplete
  <2>t. BulkTypes /\ Accounted /\ BulkOrder
    BY <1>1 DEF BulkIInv
  <2> SUFFICES ASSUME bulk \in {"ok", "failed"}, ~ctxDone
               PROVE  assigned = tried \cup skipped /\ sendsSoFar = NumKeys
    BY DEF BulkComplete
  <2>1. keysPerPeer = {} /\ sendsSoFar = NumKeys /\ \A w \in BulkWorkers : bulkWorker[w].at = "exited"
    BY <2>t DEF BulkOrder
  <2>2. workCh = << >>
    BY <2>t, <2>1, BulkAssumption DEF BulkOrder
  <2>3. \A w \in BulkWorkers : Hand(w) = {}
    <3>1. \A w \in BulkWorkers : bulkWorker[w].work = Work(0, {})
      BY <2>t, <2>1 DEF BulkTypes
    <3> QED
      BY <3>1 DEF Hand, Pairs, Work
  <2>4. Waiting = {}
    BY <2>2 DEF Waiting
  <2>5. Pending = {}
    BY <2>1, <2>3, <2>4, PendingIn
  <2> QED
    BY <2>t, <2>1, <2>5 DEF Accounted
<1> QED
  BY <1>1, OperationsInvariance, PTL DEF IInv

-----------------------------------------------------------------------------
(* The crawl and the swap of the tables (modules Crawler and FullRT) *)

Is(x, p) == IF x = p THEN 1 ELSE 0

Occurrences(s, p) == Cardinality({i \in DOMAIN s : s[i] = p})

WorkersAt(p) == {w \in Busy : worker[w].peer = p}

(* The channels hold one item at most. *)
InJobs(p) == IF jobs # << >> /\ Head(jobs) = p THEN 1 ELSE 0
InResults(p) == IF results # << >> /\ Head(results).peer = p THEN 1 ELSE 0

(* How often p is on its way: still to dial, in one of the channels or with
   a worker *)
OnTheWay(p) ==
  Occurrences(toDial, p) + InJobs(p) + Cardinality(WorkersAt(p)) + InResults(p)

(* A peer is on its way, or was, as often as it may be dialed. *)
DialsBounded == \A p \in Peers : handled[p] + OnTheWay(p) <= 1 + Listed(p)

(* The peers that were seen are on their way or were handled. *)
SeenIsDialed == peersSeen = {p \in Peers : handled[p] + OnTheWay(p) > 0}

(* A peer with an answer was handled; one that waits for its first dial has
   an entry of addresses. *)
Addressed ==
  /\ \A p \in peersQueried : handled[p] > 0
  /\ \A p \in ToSet(toDial) \cup ToSet(jobs) : handled[p] = 0 => p \in addrs

(* Run has nothing left to do once it has closed jobs. *)
Closed == crawl # "loop" => toDial = << >> /\ outstanding = 0

WorkersTyped == \A w \in Busy : worker[w].peer \in Peers

CrawlIInv ==
  /\ CrawlerTypeOK /\ JobsAccounted /\ WorkersTyped /\ Closed
  /\ DialsBounded /\ SeenIsDialed /\ Addressed

(* Run is active while runCrawler waits for it, and how far the swap of the tables has
   come *)
Tables ==
  /\ loop = "crawl" <=> crawl # "off"
  /\ ~Swapping \/ loop = "swapPeerAddrs" => rt = keyToPeerMap /\ rt = peerAddrs
  /\ loop = "swapKeyToPeerMap" => rt = keyToPeerMap /\ peerAddrs = foundPeers
  /\ loop = "swapRt" => keyToPeerMap = foundPeers /\ peerAddrs = foundPeers

FullRTIInv == FullRTTypeOK /\ CrawlIInv /\ Tables

-----------------------------------------------------------------------------
(* Lemmas about how often a peer is in a sequence *)

(* Moving a set of indices does not change its size. *)
LEMMA Shifted ==
  ASSUME NEW I \in SUBSET Nat, IsFiniteSet(I), NEW n \in Nat
  PROVE  /\ IsFiniteSet({i + n : i \in I})
         /\ Cardinality({i + n : i \in I}) = Cardinality(I)
<1> DEFINE J == {i + n : i \in I}
           f == [i \in I |-> i + n]
<1>1. f \in [I -> J] /\ \A j \in J : \E i \in I : f[i] = j
  OBVIOUS
<1>2. \A i, j \in I : f[i] = f[j] => i = j
  OBVIOUS
<1> HIDE DEF f
<1>3. f \in Bijection(I, J)
  BY <1>1, <1>2, Fun_IsBij
<1> QED
  BY <1>3, FS_Bijection DEF ExistsBijection

(* A peer is in a sequence if it occurs there at least once. *)
LEMMA OccurrencesType ==
  ASSUME NEW S, NEW s \in Seq(S), NEW p
  PROVE  /\ {i \in DOMAIN s : s[i] = p} \in SUBSET Nat
         /\ IsFiniteSet({i \in DOMAIN s : s[i] = p})
         /\ Occurrences(s, p) \in Nat
         /\ Occurrences(s, p) > 0 <=> p \in ToSet(s)
<1> DEFINE I == {i \in DOMAIN s : s[i] = p}
<1>1. DOMAIN s = 1..Len(s) /\ Len(s) \in Nat
  OBVIOUS
<1>2. IsFiniteSet(1..Len(s))
  BY <1>1, FS_Interval
<1>3. I \in SUBSET (1..Len(s))
  BY <1>1
<1>4. IsFiniteSet(I)
  BY <1>2, <1>3, FS_Subset
<1>5. Cardinality(I) \in Nat
  BY <1>4, FS_CardinalityType
<1>6. Cardinality(I) = 0 <=> I = {}
  BY <1>4, FS_EmptySet
<1>7. I # {} <=> p \in ToSet(s)
  BY DEF ToSet
<1> QED
  BY <1>1, <1>3, <1>4, <1>5, <1>6, <1>7 DEF Occurrences

(* Occurrences add up. *)
LEMMA OccurrencesConcat ==
  ASSUME NEW S, NEW s \in Seq(S), NEW t \in Seq(S), NEW p
  PROVE  Occurrences(s \o t, p) = Occurrences(s, p) + Occurrences(t, p)
<1> DEFINE n == Len(s)
           I == {i \in DOMAIN s : s[i] = p}
           J == {i \in DOMAIN t : t[i] = p}
           M == {i + n : i \in J}
           U == {i \in DOMAIN (s \o t) : (s \o t)[i] = p}
<1>1. n \in Nat /\ Len(t) \in Nat /\ DOMAIN s = 1..n /\ DOMAIN t = 1..Len(t)
      /\ DOMAIN (s \o t) = 1..(n + Len(t))
  OBVIOUS
<1>2. \A i \in 1..(n + Len(t)) : (s \o t)[i] = IF i <= n THEN s[i] ELSE t[i - n]
  OBVIOUS
<1>3. U = I \cup M
  <2>1. ASSUME NEW i \in U PROVE i \in I \cup M
    <3>1. CASE i <= n
      BY <1>1, <1>2, <3>1
    <3>2. CASE i > n
      <4>1. i - n \in J /\ i = (i - n) + n
        BY <1>1, <1>2, <3>2
      <4> QED
        BY <4>1
    <3> QED
      BY <1>1, <3>1, <3>2
  <2>2. ASSUME NEW i \in I PROVE i \in U
    BY <1>1, <1>2
  <2>3. ASSUME NEW j \in J PROVE j + n \in U
    BY <1>1, <1>2
  <2> QED
    BY <2>1, <2>2, <2>3
<1>4. I \cap M = {}
  BY <1>1
<1>5. IsFiniteSet(I) /\ IsFiniteSet(J) /\ J \in SUBSET Nat /\ Cardinality(I) \in Nat
      /\ Cardinality(J) \in Nat
  BY OccurrencesType DEF Occurrences
<1>6. IsFiniteSet(M) /\ Cardinality(M) = Cardinality(J)
  BY <1>1, <1>5, Shifted
<1>7. Cardinality(I \cup M) = Cardinality(I) + Cardinality(M) - Cardinality(I \cap M)
  BY <1>5, <1>6, FS_Union
<1>8. Cardinality(I \cap M) = 0
  BY <1>4, FS_EmptySet
<1>9. Occurrences(s \o t, p) = Cardinality(U) /\ Occurrences(s, p) = Cardinality(I)
      /\ Occurrences(t, p) = Cardinality(J)
  BY DEF Occurrences
<1> HIDE DEF I, J, M, U
<1> QED
  BY <1>3, <1>5, <1>6, <1>7, <1>8, <1>9

(* The empty sequence, and one of a single element *)
LEMMA OccurrencesSmall ==
  ASSUME NEW p, NEW x
  PROVE  Occurrences(<< >>, p) = 0 /\ Occurrences(<<x>>, p) = Is(x, p)
<1>1. {i \in DOMAIN << >> : (<< >>)[i] = p} = {}
  OBVIOUS
<1>2. CASE x = p
  <2>1. {i \in DOMAIN <<x>> : (<<x>>)[i] = p} = {1}
    BY <1>2
  <2> QED
    BY <1>1, <1>2, <2>1, FS_EmptySet, FS_Singleton DEF Occurrences, Is
<1>3. CASE x # p
  <2>1. {i \in DOMAIN <<x>> : (<<x>>)[i] = p} = {}
    BY <1>3
  <2> QED
    BY <1>1, <1>3, <2>1, FS_EmptySet DEF Occurrences, Is
<1> QED
  BY <1>2, <1>3

(* Taking the first element away *)
LEMMA OccurrencesTail ==
  ASSUME NEW S, NEW s \in Seq(S), s # << >>, NEW p
  PROVE  Occurrences(s, p) = Occurrences(Tail(s), p) + Is(Head(s), p)
<1>1. Head(s) \in S /\ Tail(s) \in Seq(S) /\ s = <<Head(s)>> \o Tail(s)
  OBVIOUS
<1>2. <<Head(s)>> \in Seq(S)
  BY <1>1
<1>3. Occurrences(<<Head(s)>> \o Tail(s), p) = Occurrences(<<Head(s)>>, p) + Occurrences(Tail(s), p)
  BY <1>1, <1>2, OccurrencesConcat
<1>4. Occurrences(Tail(s), p) \in Nat
  BY <1>1, OccurrencesType
<1>5. Occurrences(<<Head(s)>>, p) = Is(Head(s), p) /\ Is(Head(s), p) \in Nat
  BY OccurrencesSmall DEF Is
<1>6. Occurrences(s, p) = Occurrences(<<Head(s)>> \o Tail(s), p)
  BY <1>1, Zenon
<1> QED
  BY <1>3, <1>4, <1>5, <1>6

(* In an order of a set each of its elements is once. *)
LEMMA OrderOnce ==
  ASSUME NEW S, IsFiniteSet(S), NEW s \in SetToSeqs(S)
  PROVE  /\ s \in Seq(S) /\ ToSet(s) = S
         /\ \A p : Occurrences(s, p) = IF p \in S THEN 1 ELSE 0
<1> DEFINE D == 1..Cardinality(S)
<1>1. Cardinality(S) \in Nat
  BY FS_CardinalityType
<1>2. s \in [D -> S] /\ \A i, j \in D : i # j => s[i] # s[j]
  BY DEF SetToSeqs
<1>3. s \in Seq(S) /\ DOMAIN s = D
  BY <1>1, <1>2
<1>4. Cardinality(D) = Cardinality(S)
  BY <1>1, FS_Interval
<1>5. s \in Injection(D, S)
  BY <1>2, Fun_IsInj
<1>6. s \in Surjection(D, S)
  BY <1>4, <1>5, FS_Injection
<1>7. \A x \in S : \E i \in D : s[i] = x
  BY <1>6 DEF Surjection
<1>8. ASSUME NEW p PROVE Occurrences(s, p) = IF p \in S THEN 1 ELSE 0
  <2>1. CASE p \in S
    <3>1. PICK i \in D : s[i] = p
      BY <1>7, <2>1
    <3>2. {j \in DOMAIN s : s[j] = p} = {i}
      BY <1>2, <1>3, <3>1
    <3> QED
      BY <2>1, <3>2, FS_Singleton DEF Occurrences, Is
  <2>2. CASE p \notin S
    <3>1. {j \in DOMAIN s : s[j] = p} = {}
      BY <1>2, <1>3, <2>2
    <3> QED
      BY <2>2, <3>1, FS_EmptySet DEF Occurrences, Is
  <2> QED
    BY <2>1, <2>2
<1>9. ToSet(s) = S
  BY <1>2, <1>3, <1>7 DEF ToSet
<1> QED
  BY <1>3, <1>8, <1>9

-----------------------------------------------------------------------------
(* The steps of a crawl *)

(* A channel with room for one item *)
LEMMA Channel ==
  ASSUME NEW S, NEW s \in Seq(S), Len(s) <= 1, NEW x
  PROVE  /\ s # << >> => /\ Len(s) = 1 /\ Tail(s) = << >> /\ Head(s) \in S
                         /\ ToSet(s) = {Head(s)}
         /\ Len(s) < 1 => s = << >> /\ Append(s, x) = <<x>>
         /\ Len(s) = 0 <=> s = << >>
<1>1. Len(s) \in Nat /\ DOMAIN s = 1..Len(s)
  OBVIOUS
<1>2. ASSUME s # << >>
      PROVE  Len(s) = 1 /\ Tail(s) = << >> /\ Head(s) \in S /\ ToSet(s) = {Head(s)}
  <2>1. Len(s) = 1 /\ Head(s) = s[1] /\ Head(s) \in S
    BY <1>1, <1>2
  <2>2. Tail(s) \in Seq(S) /\ Len(Tail(s)) = 0
    BY <1>2, <2>1
  <2>3. ToSet(s) = {Head(s)}
    BY <1>1, <2>1 DEF ToSet
  <2> QED
    BY <2>1, <2>2, <2>3, EmptySeq
<1>3. ASSUME Len(s) < 1 PROVE s = << >> /\ Append(s, x) = <<x>>
  <2>1. s = << >>
    BY <1>1, <1>3, EmptySeq
  <2> QED
    BY <2>1
<1> QED
  BY <1>1, <1>2, <1>3, EmptySeq

(* An empty channel, and a full one *)
LEMMA EmptyChannel ==
  /\ Len(<< >>) = 0 /\ ToSet(<< >>) = {}
  /\ \A x : Len(<<x>>) = 1 /\ <<x>> # << >> /\ Head(<<x>>) = x /\ ToSet(<<x>>) = {x}
BY DEF ToSet

(* The counts are natural numbers. *)
LEMMA Counted ==
  ASSUME CrawlerTypeOK
  PROVE  /\ IsFiniteSet(Busy) /\ Cardinality(Busy) \in Nat
         /\ Cardinality(Busy) = 0 <=> Busy = {}
         /\ \A p : /\ IsFiniteSet(WorkersAt(p)) /\ Cardinality(WorkersAt(p)) \in Nat
                   /\ Occurrences(toDial, p) \in Nat /\ OnTheWay(p) \in Nat
<1>1. Busy \in SUBSET Workers /\ IsFiniteSet(Workers)
  BY CrawlerAssumption DEF Busy
<1>2. IsFiniteSet(Busy) /\ Cardinality(Busy) \in Nat /\ (Cardinality(Busy) = 0 <=> Busy = {})
  BY <1>1, FS_Subset, FS_CardinalityType, FS_EmptySet
<1>3. ASSUME NEW p
      PROVE  /\ IsFiniteSet(WorkersAt(p)) /\ Cardinality(WorkersAt(p)) \in Nat
             /\ Occurrences(toDial, p) \in Nat /\ OnTheWay(p) \in Nat
  <2>1. WorkersAt(p) \in SUBSET Busy
    BY DEF WorkersAt
  <2>2. IsFiniteSet(WorkersAt(p)) /\ Cardinality(WorkersAt(p)) \in Nat
    BY <1>2, <2>1, FS_Subset, FS_CardinalityType
  <2>3. Occurrences(toDial, p) \in Nat
    BY OccurrencesType DEF CrawlerTypeOK
  <2>4. /\ InJobs(p) \in Nat
        /\ InResults(p) \in Nat
    BY DEF InJobs, InResults
  <2> QED
    BY <2>2, <2>3, <2>4 DEF OnTheWay
<1> QED
  BY <1>2, <1>3

(* A worker becomes busy, ceases to be, or changes only what it knows. *)
LEMMA BusyJoins ==
  ASSUME CrawlerTypeOK, NEW w \in Workers, w \notin Busy, w \in Busy',
         \A v \in Workers \ {w} : worker'[v] = worker[v]
  PROVE  /\ Busy' = Busy \cup {w}
         /\ Cardinality(Busy)' = Cardinality(Busy) + 1
         /\ \A p : Cardinality(WorkersAt(p))' = Cardinality(WorkersAt(p)) + Is(worker'[w].peer, p)
<1>1. Busy' = Busy \cup {w} /\ \A v \in Busy : v # w /\ worker'[v] = worker[v]
  BY DEF Busy, CrawlerTypeOK
<1>2. ASSUME NEW p
      PROVE  Cardinality(WorkersAt(p))' = Cardinality(WorkersAt(p)) + Is(worker'[w].peer, p)
  <2>1. CASE worker'[w].peer = p
    <3>1. WorkersAt(p)' = WorkersAt(p) \cup {w} /\ w \notin WorkersAt(p)
      BY <1>1, <2>1 DEF WorkersAt
    <3> QED
      BY <2>1, <3>1, Counted, FS_AddElement DEF Is
  <2>2. CASE worker'[w].peer # p
    <3>1. WorkersAt(p)' = WorkersAt(p)
      BY <1>1, <2>2 DEF WorkersAt
    <3> QED
      BY <2>2, <3>1, Counted DEF Is
  <2> QED
    BY <2>1, <2>2
<1> QED
  BY <1>1, <1>2, Counted, FS_AddElement

LEMMA BusyLeaves ==
  ASSUME CrawlerTypeOK, NEW w \in Workers, w \in Busy, NEW r,
         r.at \notin {"query", "send"}, worker' = [worker EXCEPT ![w] = r]
  PROVE  /\ Busy' = Busy \ {w}
         /\ Cardinality(Busy)' = Cardinality(Busy) - 1
         /\ \A p : Cardinality(WorkersAt(p)) = Cardinality(WorkersAt(p))' + Is(worker[w].peer, p)
         /\ \A p : Cardinality(WorkersAt(p))' \in Nat
<1>1. Busy' = Busy \ {w} /\ \A v \in Busy \ {w} : worker'[v] = worker[v]
  BY DEF Busy, CrawlerTypeOK
<1>2. ASSUME NEW p
      PROVE  /\ Cardinality(WorkersAt(p)) = Cardinality(WorkersAt(p))' + Is(worker[w].peer, p)
             /\ Cardinality(WorkersAt(p))' \in Nat
  <2>0. IsFiniteSet(WorkersAt(p)) /\ Cardinality(WorkersAt(p)) \in Nat
    BY Counted
  <2>1. CASE worker[w].peer = p
    <3>1. WorkersAt(p)' = WorkersAt(p) \ {w} /\ w \in WorkersAt(p)
      BY <1>1, <2>1 DEF WorkersAt
    <3>2. IsFiniteSet(WorkersAt(p) \ {w}) /\ Cardinality(WorkersAt(p) \ {w}) = Cardinality(WorkersAt(p)) - 1
      BY <2>0, <3>1, FS_RemoveElement
    <3>3. Cardinality(WorkersAt(p) \ {w}) \in Nat
      BY <3>2, FS_CardinalityType
    <3> QED
      BY <2>0, <2>1, <3>1, <3>2, <3>3 DEF Is
  <2>2. CASE worker[w].peer # p
    <3>1. WorkersAt(p)' = WorkersAt(p)
      BY <1>1, <2>2 DEF WorkersAt
    <3> QED
      BY <2>0, <2>2, <3>1 DEF Is
  <2> QED
    BY <2>1, <2>2
<1> QED
  BY <1>1, <1>2, Counted, FS_RemoveElement

LEMMA BusyStays ==
  ASSUME CrawlerTypeOK, NEW w \in Workers, NEW r, worker' = [worker EXCEPT ![w] = r],
         IF w \in Busy THEN r.at \in {"query", "send"} /\ r.peer = worker[w].peer
                       ELSE r.at \notin {"query", "send"}
  PROVE  Busy' = Busy /\ \A p : WorkersAt(p)' = WorkersAt(p)
<1>1. worker'[w] = r /\ \A v \in Workers \ {w} : worker'[v] = worker[v]
  BY DEF CrawlerTypeOK
<1>2. Busy' = Busy
  BY <1>1 DEF Busy
<1>3. ASSUME NEW p PROVE WorkersAt(p)' = WorkersAt(p)
  <2>1. Busy \subseteq Workers
    BY DEF Busy
  <2> QED
    BY <1>1, <1>2, <2>1 DEF WorkersAt
<1> QED
  BY <1>2, <1>3

(* A step that leaves each peer on its way as often as before keeps the counts. *)
LEMMA Moves ==
  ASSUME CrawlIInv, UNCHANGED <<handled, peersSeen>>,
         \A p \in Peers : OnTheWay(p)' = OnTheWay(p)
  PROVE  DialsBounded' /\ SeenIsDialed'
<1>1. DialsBounded'
  BY DEF CrawlIInv, DialsBounded, Listed
<1>2. SeenIsDialed'
  BY DEF CrawlIInv, SeenIsDialed
<1> QED
  BY <1>1, <1>2

(* A job goes from its channel to a worker. *)
LEMMA TakeJobStep ==
  ASSUME CrawlIInv, NEW w \in Workers, TakeJob(w)
  PROVE  CrawlIInv'
<1> DEFINE h == Head(jobs)
           r == [at |-> "query", peer |-> h, data |-> {}]
<1>1. CrawlerTypeOK /\ JobsAccounted /\ WorkersTyped /\ Closed /\ Addressed
  BY DEF CrawlIInv
<1>2. /\ worker[w].at = "idle" /\ jobs # << >> /\ worker' = [worker EXCEPT ![w] = r]
      /\ jobs' = Tail(jobs)
      /\ UNCHANGED <<crawl, toDial, peersSeen, peersQueried, addrs, outstanding, results, handled>>
  BY DEF TakeJob
<1>3. Len(jobs) = 1 /\ jobs' = << >> /\ h \in Peers
  BY <1>1, <1>2, Channel DEF CrawlerTypeOK, JobsAccounted
<1>4. w \notin Busy
  BY <1>2 DEF Busy
<1>5. /\ Busy' = Busy \cup {w} /\ Cardinality(Busy)' = Cardinality(Busy) + 1
      /\ \A p : Cardinality(WorkersAt(p))' = Cardinality(WorkersAt(p)) + Is(h, p)
  <2>1. worker'[w] = r /\ \A v \in Workers \ {w} : worker'[v] = worker[v]
    BY <1>1, <1>2 DEF CrawlerTypeOK
  <2>2. w \in Busy' /\ worker'[w].peer = h
    BY <2>1 DEF Busy
  <2>3. /\ Busy' = Busy \cup {w} /\ Cardinality(Busy)' = Cardinality(Busy) + 1
        /\ \A p : Cardinality(WorkersAt(p))' = Cardinality(WorkersAt(p)) + Is(worker'[w].peer, p)
    BY <1>1, <1>4, <2>1, <2>2, BusyJoins
  <2> QED
    BY <2>2, <2>3
<1>6. CrawlerTypeOK'
  BY <1>1, <1>2, <1>3 DEF CrawlerTypeOK
<1>7. JobsAccounted'
  <2>1. Len(jobs') = 0 /\ Len(jobs) = 1
    BY <1>3, EmptyChannel
  <2>2. Len(results) \in Nat /\ Cardinality(Busy) \in Nat
    BY <1>1, Counted DEF CrawlerTypeOK
  <2>3. outstanding' = outstanding /\ results' = results
    BY <1>2
  <2>4. Cardinality(Busy)' = Cardinality(Busy) + 1
    BY <1>5
  <2>5. outstanding = Len(jobs) + Cardinality(Busy) + Len(results) /\ Len(results) <= 1
    BY <1>1 DEF JobsAccounted
  <2>6. outstanding' = Len(jobs') + Cardinality(Busy)' + Len(results')
    BY <2>1, <2>2, <2>3, <2>4, <2>5
  <2> QED
    BY <2>1, <2>3, <2>5, <2>6 DEF JobsAccounted
<1>8. WorkersTyped'
  <2>1. worker'[w].peer = h /\ \A v \in Busy : v # w /\ worker'[v] = worker[v]
    BY <1>1, <1>2, <1>4 DEF CrawlerTypeOK, Busy
  <2> QED
    BY <1>1, <1>3, <1>5, <2>1 DEF WorkersTyped
<1>9. Closed' /\ Addressed'
  BY <1>1, <1>2, <1>3, EmptyChannel DEF Closed, Addressed
<1>10. ASSUME NEW p \in Peers PROVE OnTheWay(p)' = OnTheWay(p)
  <2>1. InJobs(p) = Is(h, p) /\ Is(h, p) \in Nat
        /\ InJobs(p)' = 0
        /\ InResults(p) \in Nat
    BY <1>2, <1>3 DEF Is, InJobs, InResults
  <2>2. Cardinality(WorkersAt(p)) \in Nat /\ Occurrences(toDial, p) \in Nat
    BY <1>1, Counted
  <2>3. Occurrences(toDial, p)' = Occurrences(toDial, p)
        /\ InResults(p)' = InResults(p)
    BY <1>2 DEF InResults
  <2> QED
    BY <1>5, <2>1, <2>2, <2>3 DEF OnTheWay
<1> QED
  BY <1>2, <1>6, <1>7, <1>8, <1>9, <1>10, Moves DEF CrawlIInv

(* A worker has its answer, or ends. *)
LEMMA QueryPeerStep ==
  ASSUME CrawlIInv, NEW w \in Workers, queryPeer(w) \/ WorkerExits(w)
  PROVE  CrawlIInv'
<1>1. CrawlerTypeOK /\ JobsAccounted /\ WorkersTyped /\ Closed /\ Addressed
  BY DEF CrawlIInv
<1>2. UNCHANGED <<crawl, toDial, peersSeen, peersQueried, addrs, outstanding, jobs, results, handled>>
  BY DEF queryPeer, WorkerExits
<1>3. \E r : /\ worker' = [worker EXCEPT ![w] = r]
             /\ r \in [at : {"idle", "query", "send", "exited"}, peer : Peers \cup {NoPeer}, data : SUBSET Peers]
             /\ IF w \in Busy THEN r.at \in {"query", "send"} /\ r.peer = worker[w].peer
                              ELSE r.at \notin {"query", "send"}
  <2>1. CASE queryPeer(w)
    <3>1. PICK data \in Names[worker[w].peer] \cup {{}} :
            worker' = [worker EXCEPT ![w].at = "send", ![w].data = data]
      BY <2>1 DEF queryPeer
    <3>2. worker[w].at = "query" /\ w \in Busy
      BY <2>1 DEF queryPeer, Busy
    <3>3. worker[w].peer \in Peers
      BY <1>1, <3>2 DEF WorkersTyped
    <3>4. data \in SUBSET Peers
      BY <3>1, <3>3, CrawlerAssumption
    <3> DEFINE r == [worker[w] EXCEPT !.at = "send", !.data = data]
    <3>5. worker' = [worker EXCEPT ![w] = r]
      BY <3>1
    <3>6. /\ r \in [at : {"idle", "query", "send", "exited"}, peer : Peers \cup {NoPeer}, data : SUBSET Peers]
          /\ r.at = "send" /\ r.peer = worker[w].peer
      BY <1>1, <3>4 DEF CrawlerTypeOK
    <3> HIDE DEF r
    <3> QED
      BY <3>2, <3>5, <3>6
  <2>2. CASE WorkerExits(w)
    <3>1. worker' = [worker EXCEPT ![w] = Exited] /\ w \notin Busy
      BY <2>2 DEF WorkerExits, Busy
    <3>2. /\ Exited \in [at : {"idle", "query", "send", "exited"}, peer : Peers \cup {NoPeer}, data : SUBSET Peers]
          /\ Exited.at \notin {"query", "send"}
      BY DEF Exited, Idle
    <3> HIDE DEF Exited
    <3> QED
      BY <3>1, <3>2
  <2> QED
    BY <2>1, <2>2
<1>4. PICK r : /\ worker' = [worker EXCEPT ![w] = r]
               /\ r \in [at : {"idle", "query", "send", "exited"}, peer : Peers \cup {NoPeer}, data : SUBSET Peers]
               /\ IF w \in Busy THEN r.at \in {"query", "send"} /\ r.peer = worker[w].peer
                                ELSE r.at \notin {"query", "send"}
  BY <1>3
<1>5. Busy' = Busy /\ \A p : WorkersAt(p)' = WorkersAt(p)
  BY <1>1, <1>4, BusyStays
<1>6. CrawlerTypeOK'
  BY <1>1, <1>2, <1>4 DEF CrawlerTypeOK
<1>7. JobsAccounted' /\ Closed' /\ Addressed'
  BY <1>1, <1>2, <1>5 DEF JobsAccounted, Closed, Addressed
<1>8. WorkersTyped'
  <2>1. \A v \in Busy : worker'[v].peer = worker[v].peer
    BY <1>1, <1>4 DEF CrawlerTypeOK, Busy
  <2> QED
    BY <1>1, <1>5, <2>1 DEF WorkersTyped
<1>9. \A p \in Peers : OnTheWay(p)' = OnTheWay(p)
  BY <1>2, <1>5 DEF OnTheWay, InJobs, InResults
<1> QED
  BY <1>2, <1>6, <1>7, <1>8, <1>9, Moves DEF CrawlIInv

(* A result goes from its worker to the channel. *)
LEMMA SendResultStep ==
  ASSUME CrawlIInv, NEW w \in Workers, SendResult(w)
  PROVE  CrawlIInv'
<1> DEFINE res == Answer(worker[w].peer, worker[w].data)
<1>1. CrawlerTypeOK /\ JobsAccounted /\ WorkersTyped /\ Closed /\ Addressed
  BY DEF CrawlIInv
<1>2. /\ worker[w].at = "send" /\ Len(results) < 1 /\ worker' = [worker EXCEPT ![w] = Idle]
      /\ results' = Append(results, res)
      /\ UNCHANGED <<crawl, toDial, peersSeen, peersQueried, addrs, outstanding, jobs, handled>>
  BY DEF SendResult, Room
<1>3. w \in Busy
  BY <1>2 DEF Busy
<1>4. res \in [peer : Peers, data : SUBSET Peers] /\ res.peer = worker[w].peer
  BY <1>1, <1>3 DEF Answer, WorkersTyped, CrawlerTypeOK
<1>5. Idle \in [at : {"idle", "query", "send", "exited"}, peer : Peers \cup {NoPeer}, data : SUBSET Peers]
      /\ Idle.at \notin {"query", "send"}
  BY DEF Idle
<1> HIDE DEF res
<1>6. results = << >> /\ results' = <<res>> /\ Len(results) = 0 /\ Len(results') = 1
      /\ results' # << >> /\ Head(results') = res
  <2>1. results \in Seq([peer : Peers, data : SUBSET Peers]) /\ Len(results) <= 1
    BY <1>1 DEF CrawlerTypeOK, JobsAccounted
  <2>2. results = << >> /\ results' = <<res>>
    BY <1>2, <2>1, Channel
  <2> QED
    BY <2>2, EmptyChannel
<1>7. /\ Busy' = Busy \ {w} /\ Cardinality(Busy)' = Cardinality(Busy) - 1
      /\ \A p : Cardinality(WorkersAt(p)) = Cardinality(WorkersAt(p))' + Is(res.peer, p)
      /\ \A p : Cardinality(WorkersAt(p))' \in Nat
  <2>1. \A p : Is(res.peer, p) = Is(worker[w].peer, p)
    BY <1>4 DEF Is
  <2> DEFINE r == Idle
  <2>2. worker' = [worker EXCEPT ![w] = r] /\ r.at \notin {"query", "send"}
    BY <1>2, <1>5
  <2> HIDE DEF r
  <2>3. /\ Busy' = Busy \ {w} /\ Cardinality(Busy)' = Cardinality(Busy) - 1
        /\ \A p : Cardinality(WorkersAt(p)) = Cardinality(WorkersAt(p))' + Is(worker[w].peer, p)
        /\ \A p : Cardinality(WorkersAt(p))' \in Nat
    BY <1>1, <1>3, <2>2, BusyLeaves
  <2> QED
    BY <2>1, <2>3
<1>8. CrawlerTypeOK'
  BY <1>1, <1>2, <1>4, <1>5, <1>6 DEF CrawlerTypeOK
<1>9. JobsAccounted'
  BY <1>1, <1>2, <1>6, <1>7, Counted DEF JobsAccounted, CrawlerTypeOK
<1>10. WorkersTyped'
  BY <1>1, <1>2, <1>7 DEF WorkersTyped, CrawlerTypeOK, Busy
<1>11. Closed' /\ Addressed'
  BY <1>1, <1>2 DEF Closed, Addressed
<1>12. ASSUME NEW p \in Peers PROVE OnTheWay(p)' = OnTheWay(p)
  <2>1. InResults(p) = 0
        /\ InResults(p)' = Is(res.peer, p)
        /\ Is(res.peer, p) \in Nat /\ InJobs(p) \in Nat
    BY <1>6 DEF Is, InJobs, InResults
  <2>2. Occurrences(toDial, p) \in Nat
    BY <1>1, Counted
  <2>3. Occurrences(toDial, p)' = Occurrences(toDial, p)
        /\ InJobs(p)' = InJobs(p)
    BY <1>2 DEF InJobs
  <2> QED
    BY <1>7, <2>1, <2>2, <2>3 DEF OnTheWay
<1> QED
  BY <1>2, <1>8, <1>9, <1>10, <1>11, <1>12, Moves DEF CrawlIInv

(* A peer to dial goes to the channel of jobs. *)
LEMMA SendJobStep ==
  ASSUME CrawlIInv, SendJob
  PROVE  CrawlIInv'
<1> DEFINE h == Head(toDial)
<1>1. CrawlerTypeOK /\ JobsAccounted /\ WorkersTyped /\ Closed /\ Addressed
  BY DEF CrawlIInv
<1>2. /\ crawl = "loop" /\ toDial # << >> /\ Len(jobs) < 1
      /\ jobs' = Append(jobs, h) /\ toDial' = Tail(toDial) /\ outstanding' = outstanding + 1
      /\ UNCHANGED <<crawl, peersSeen, peersQueried, addrs, results, worker, handled>>
  BY DEF SendJob, Room
<1>3. h \in Peers /\ toDial' \in Seq(Peers) /\ ToSet(toDial') \subseteq ToSet(toDial) /\ h \in ToSet(toDial)
  <2>1. toDial \in Seq(Peers) /\ toDial # << >>
    BY <1>1, <1>2 DEF CrawlerTypeOK
  <2>2. h \in Peers /\ toDial' \in Seq(Peers)
    BY <1>2, <2>1
  <2>3. DOMAIN toDial = 1..Len(toDial) /\ DOMAIN toDial' = 1..Len(toDial')
        /\ Len(toDial) \in Nat /\ Len(toDial') = Len(toDial) - 1 /\ h = toDial[1] /\ Len(toDial) > 0
        /\ \A i \in 1..Len(toDial') : toDial'[i] = toDial[i + 1]
    BY <1>2, <2>1
  <2>4. h \in ToSet(toDial)
    BY <2>3 DEF ToSet
  <2>5. ASSUME NEW i \in DOMAIN toDial' PROVE toDial'[i] \in ToSet(toDial)
    <3>1. i + 1 \in DOMAIN toDial /\ toDial'[i] = toDial[i + 1]
      BY <2>3
    <3> QED
      BY <3>1 DEF ToSet
  <2> QED
    BY <2>2, <2>4, <2>5 DEF ToSet
<1>4. jobs = << >> /\ jobs' = <<h>> /\ Len(jobs) = 0 /\ Len(jobs') = 1
      /\ ToSet(jobs') = {h} /\ jobs' # << >> /\ Head(jobs') = h
  <2>1. jobs = << >> /\ jobs' = <<h>>
    BY <1>1, <1>2, Channel DEF CrawlerTypeOK, JobsAccounted
  <2> QED
    BY <2>1, EmptyChannel
<1>5. Busy' = Busy /\ \A p : WorkersAt(p)' = WorkersAt(p)
  BY <1>2 DEF Busy, WorkersAt
<1>6. CrawlerTypeOK'
  BY <1>1, <1>2, <1>3, <1>4 DEF CrawlerTypeOK
<1>7. JobsAccounted'
  <2>1. Len(results) \in Nat /\ Cardinality(Busy) \in Nat /\ Cardinality(Busy)' = Cardinality(Busy)
    BY <1>1, <1>5, Counted DEF CrawlerTypeOK
  <2>2. outstanding = Len(jobs) + Cardinality(Busy) + Len(results) /\ Len(results) <= 1
    BY <1>1 DEF JobsAccounted
  <2>3. outstanding' = Len(jobs') + Cardinality(Busy)' + Len(results')
    BY <1>2, <1>4, <2>1, <2>2
  <2> QED
    BY <1>2, <1>4, <2>2, <2>3 DEF JobsAccounted
<1>8. WorkersTyped' /\ Closed'
  BY <1>1, <1>2, <1>5 DEF WorkersTyped, Closed
<1>9. Addressed'
  BY <1>1, <1>2, <1>3, <1>4 DEF Addressed
<1>10. ASSUME NEW p \in Peers PROVE OnTheWay(p)' = OnTheWay(p)
  <2>1. InJobs(p) = 0 /\ InJobs(p)' = Is(h, p) /\ Is(h, p) \in Nat
        /\ InResults(p) \in Nat /\ InResults(p)' = InResults(p)
    BY <1>2, <1>4 DEF Is, InJobs, InResults
  <2>2. Occurrences(toDial, p) = Occurrences(toDial', p) + Is(h, p) /\ Occurrences(toDial', p) \in Nat
    BY <1>1, <1>2, <1>3, OccurrencesTail, OccurrencesType DEF CrawlerTypeOK
  <2>3. Occurrences(toDial, p)' = Occurrences(toDial', p)
    OBVIOUS
  <2>4. Cardinality(WorkersAt(p)) \in Nat
    BY <1>1, Counted
  <2> QED
    BY <1>5, <2>1, <2>2, <2>3, <2>4 DEF OnTheWay
<1> QED
  BY <1>2, <1>6, <1>7, <1>8, <1>9, <1>10, Moves DEF CrawlIInv

(* Run closes jobs, or returns. *)
LEMMA CloseStep ==
  ASSUME CrawlIInv, CloseJobs \/ RunReturns
  PROVE  CrawlIInv'
<1>1. UNCHANGED <<toDial, peersSeen, peersQueried, addrs, outstanding, jobs, results, worker, handled>>
  BY DEF CloseJobs, RunReturns, crawlVars
<1>2. crawl' \in {"wait", "off"} /\ toDial = << >> /\ outstanding = 0
  BY DEF CloseJobs, RunReturns, CrawlIInv, Closed
<1>3. Busy' = Busy /\ \A p : WorkersAt(p)' = WorkersAt(p)
  BY <1>1 DEF Busy, WorkersAt
<1>4. CrawlerTypeOK' /\ JobsAccounted' /\ WorkersTyped' /\ Closed' /\ Addressed'
  BY <1>1, <1>2, <1>3 DEF CrawlIInv, CrawlerTypeOK, JobsAccounted, WorkersTyped, Closed, Addressed
<1>5. \A p \in Peers : OnTheWay(p)' = OnTheWay(p)
  BY <1>1, <1>3 DEF OnTheWay, InJobs, InResults
<1> QED
  BY <1>1, <1>4, <1>5, Moves DEF CrawlIInv

(* A result is handled: its peer has been on its way, the new ones among the
   peers it names had not, and each of these is on its way once. *)
LEMMA ReceiveResultStep ==
  ASSUME CrawlIInv, ReceiveResult
  PROVE  CrawlIInv'
<1> DEFINE res == Head(results)
           New == res.data \ peersSeen
<1>1. CrawlerTypeOK /\ JobsAccounted /\ WorkersTyped /\ Closed /\ Addressed /\ DialsBounded /\ SeenIsDialed
  BY DEF CrawlIInv
<1>2. /\ crawl = "loop" /\ results # << >> /\ results' = Tail(results)
      /\ outstanding' = outstanding - 1 /\ handled' = [handled EXCEPT ![res.peer] = @ + 1]
      /\ UNCHANGED <<crawl, jobs, worker>>
  BY DEF ReceiveResult, MayReceive
<1>3. Len(results) = 1 /\ results' = << >> /\ res \in [peer : Peers, data : SUBSET Peers]
  BY <1>1, <1>2, Channel DEF CrawlerTypeOK, JobsAccounted
<1>4. res.peer \in Peers /\ res.data \in SUBSET Peers /\ New \in SUBSET Peers /\ IsFiniteSet(New)
  BY <1>3, FS_Subset, CrawlerAssumption
<1>5. /\ toDial' \in Seq(Peers)
      /\ \A p : Occurrences(toDial', p) = Occurrences(toDial, p) + IF p \in New THEN 1 ELSE 0
      /\ peersSeen' = peersSeen \cup New
      /\ peersQueried' \subseteq peersQueried \cup {res.peer}
      /\ addrs' \subseteq Peers
      /\ \A p \in Peers \ {res.peer} : p \in addrs \/ p \in New \ peersQueried => p \in addrs'
  <2>0. toDial \in Seq(Peers) /\ addrs \subseteq Peers
    BY <1>1 DEF CrawlerTypeOK
  <2>1. CASE res.data = {}
    <3>1. UNCHANGED <<toDial, peersSeen, peersQueried, addrs>> /\ New = {}
      BY <2>1 DEF ReceiveResult
    <3>2. \A p : Occurrences(toDial, p) \in Nat
      BY <2>0, OccurrencesType
    <3> QED
      BY <2>0, <3>1, <3>2
  <2>2. CASE res.data # {}
    <3>1. /\ \E order \in SetToSeqs(New) : toDial' = toDial \o order
          /\ peersSeen' = peersSeen \cup res.data
          /\ peersQueried' = peersQueried \cup {res.peer}
          /\ addrs' = (addrs \ {res.peer}) \cup (res.data \ peersQueried)
      BY <2>2 DEF ReceiveResult, NewPeers
    <3> HIDE DEF New
    <3>2. PICK order \in SetToSeqs(New) : toDial' = toDial \o order
      BY <3>1
    <3>3. order \in Seq(New) /\ \A p : Occurrences(order, p) = IF p \in New THEN 1 ELSE 0
      BY <1>4, <3>2, OrderOnce
    <3>4. order \in Seq(Peers)
      BY <1>4, <3>3
    <3>5. toDial' \in Seq(Peers)
      BY <2>0, <3>2, <3>4
    <3>6. ASSUME NEW p
          PROVE  Occurrences(toDial', p) = Occurrences(toDial, p) + IF p \in New THEN 1 ELSE 0
      BY <2>0, <3>2, <3>3, <3>4, OccurrencesConcat
    <3>7. /\ peersSeen' = peersSeen \cup New
          /\ addrs' \subseteq Peers
          /\ \A p \in Peers \ {res.peer} : p \in addrs \/ p \in New \ peersQueried => p \in addrs'
      BY <1>4, <2>0, <3>1 DEF New
    <3> QED
      BY <3>1, <3>5, <3>6, <3>7
  <2> QED
    BY <2>1, <2>2
<1> HIDE DEF New, res
<1>6. Busy' = Busy /\ \A p : WorkersAt(p)' = WorkersAt(p)
  BY <1>2 DEF Busy, WorkersAt
<1>7. JobsAccounted' /\ outstanding' \in Nat
  <2>1. Len(results') = 0
    BY <1>3, EmptyChannel
  <2>2. Cardinality(Busy) \in Nat /\ Cardinality(Busy)' = Cardinality(Busy) /\ Len(jobs) \in Nat
    BY <1>1, <1>6, Counted DEF CrawlerTypeOK
  <2>3. outstanding = Len(jobs) + Cardinality(Busy) + Len(results) /\ Len(jobs) <= 1
    BY <1>1 DEF JobsAccounted
  <2>4. outstanding' = outstanding - 1 /\ jobs' = jobs /\ Len(results) = 1
    BY <1>2, <1>3
  <2>5. outstanding' = Len(jobs') + Cardinality(Busy)' + Len(results') /\ outstanding' \in Nat
    BY <2>1, <2>2, <2>3, <2>4
  <2> QED
    BY <2>1, <2>3, <2>4, <2>5 DEF JobsAccounted
<1>8. CrawlerTypeOK'
  <2>1. results' \in Seq([peer : Peers, data : SUBSET Peers])
    BY <1>3
  <2> QED
    BY <1>1, <1>2, <1>4, <1>5, <1>7, <2>1 DEF CrawlerTypeOK
<1>9. WorkersTyped' /\ Closed'
  BY <1>1, <1>2, <1>6 DEF WorkersTyped, Closed
<1>10. ASSUME NEW p \in Peers
       PROVE  /\ handled'[p] = handled[p] + Is(res.peer, p) /\ handled[p] \in Nat /\ OnTheWay(p) \in Nat
              /\ handled'[p] + OnTheWay(p)' = handled[p] + OnTheWay(p) + IF p \in New THEN 1 ELSE 0
              /\ handled'[p] + OnTheWay(p)' \in Nat
  <2>1. handled'[p] = handled[p] + Is(res.peer, p) /\ handled[p] \in Nat /\ Is(res.peer, p) \in Nat
    BY <1>1, <1>2, <1>4 DEF CrawlerTypeOK, Is
  <2>2. InResults(p)' = 0 /\ InResults(p) = Is(res.peer, p) /\ InJobs(p)' = InJobs(p) /\ InJobs(p) \in Nat
    BY <1>2, <1>3 DEF InResults, InJobs, Is, res
  <2>3. Cardinality(WorkersAt(p)) \in Nat /\ Occurrences(toDial, p) \in Nat /\ OnTheWay(p) \in Nat
    BY <1>1, Counted
  <2>4. OnTheWay(p)' = Occurrences(toDial', p) + InJobs(p) + Cardinality(WorkersAt(p))
    BY <1>5, <1>6, <2>2, <2>3 DEF OnTheWay
  <2>5. OnTheWay(p) = Occurrences(toDial, p) + InJobs(p) + Cardinality(WorkersAt(p)) + Is(res.peer, p)
    BY <2>2 DEF OnTheWay
  <2>6. Occurrences(toDial', p) = Occurrences(toDial, p) + (IF p \in New THEN 1 ELSE 0)
    BY <1>5
  <2> DEFINE h == handled[p]
             i == Is(res.peer, p)
             d == Occurrences(toDial, p)
             j == InJobs(p)
             c == Cardinality(WorkersAt(p))
             new == IF p \in New THEN 1 ELSE 0
  <2>7. h \in Nat /\ i \in Nat /\ d \in Nat /\ j \in Nat /\ c \in Nat /\ new \in Nat
    BY <2>1, <2>2, <2>3
  <2>8. handled'[p] = h + i /\ OnTheWay(p)' = (d + new) + j + c /\ OnTheWay(p) = d + j + c + i
    BY <2>1, <2>4, <2>5, <2>6
  <2> HIDE DEF h, i, d, j, c, new
  <2>9. /\ (h + i) + ((d + new) + j + c) = h + (d + j + c + i) + new
        /\ (h + i) + ((d + new) + j + c) \in Nat
    BY <2>7
  <2>10. /\ handled'[p] + OnTheWay(p)' = h + OnTheWay(p) + new
         /\ handled'[p] + OnTheWay(p)' \in Nat
    BY <2>8, <2>9
  <2> QED
    BY <2>1, <2>3, <2>10 DEF h, new
<1>11. DialsBounded'
  <2>1. ASSUME NEW p \in Peers PROVE handled'[p] + OnTheWay(p)' <= 1 + Listed(p)
    <3>1. Listed(p) \in Nat
      BY OccurrencesType, FullRTAssumption DEF Listed, Occurrences
    <3>2. CASE p \in New
      <4>1. ~ (handled[p] + OnTheWay(p) > 0)
        BY <1>1, <3>2 DEF SeenIsDialed, New
      <4> QED
        BY <1>10, <3>1, <3>2, <4>1
    <3>3. CASE p \notin New
      BY <1>1, <1>10, <3>1, <3>3 DEF DialsBounded
    <3> QED
      BY <3>2, <3>3
  <2> QED
    BY <2>1 DEF DialsBounded, Listed
<1>12. SeenIsDialed'
  <2>1. \A p \in Peers : p \in peersSeen' <=> handled'[p] + OnTheWay(p)' > 0
    BY <1>1, <1>5, <1>10 DEF SeenIsDialed
  <2>2. peersSeen' \subseteq Peers
    BY <1>8 DEF CrawlerTypeOK
  <2> QED
    BY <2>1, <2>2 DEF SeenIsDialed
<1>13. Addressed'
  <2>1. ASSUME NEW p \in peersQueried' PROVE handled'[p] > 0
    <3>1. CASE p = res.peer
      BY <1>4, <1>10, <3>1 DEF Is
    <3>2. CASE p # res.peer
      <4>1. p \in peersQueried /\ p \in Peers
        BY <1>1, <1>5, <3>2 DEF CrawlerTypeOK
      <4> QED
        BY <1>1, <1>10, <4>1 DEF Addressed, Is
    <3> QED
      BY <3>1, <3>2
  <2>2. ASSUME NEW p \in ToSet(toDial)' \cup ToSet(jobs)', handled'[p] = 0
        PROVE  p \in addrs'
    <3>1. p \in Peers
      <4>1. toDial' \in Seq(Peers) /\ jobs' \in Seq(Peers)
        BY <1>8 DEF CrawlerTypeOK
      <4> QED
        BY <4>1 DEF ToSet
    <3>2. p # res.peer /\ handled[p] = 0
      BY <1>10, <2>2, <3>1 DEF Is
    <3>3. p \in ToSet(toDial) \cup ToSet(jobs) \/ p \in New
      <4>1. CASE p \in ToSet(toDial')
        <5>1. Occurrences(toDial', p) > 0
          BY <1>5, <4>1, OccurrencesType
        <5>2. p \in New \/ Occurrences(toDial, p) > 0
          BY <1>1, <1>5, <5>1, Counted
        <5> QED
          BY <1>1, <5>2, OccurrencesType DEF CrawlerTypeOK
      <4> QED
        BY <1>2, <2>2, <4>1
    <3>4. p \notin peersQueried
      BY <1>1, <3>2 DEF Addressed
    <3> QED
      BY <1>1, <1>5, <3>1, <3>2, <3>3, <3>4 DEF Addressed
  <2> QED
    BY <2>1, <2>2 DEF Addressed
<1> QED
  BY <1>7, <1>8, <1>9, <1>11, <1>12, <1>13 DEF CrawlIInv

(* A run that starts with peers that are listed no more often than they may *)
LEMMA StartRunStep ==
  ASSUME NEW start \in Seq(Peers), StartRun(start),
         \A p \in Peers : Occurrences(start, p) <= 1 + Listed(p)
  PROVE  CrawlIInv'
<1>1. /\ crawl' = "loop" /\ toDial' = start /\ peersSeen' = ToSet(start) /\ addrs' = ToSet(start)
      /\ peersQueried' = {} /\ outstanding' = 0 /\ jobs' = << >> /\ results' = << >>
      /\ worker' = [w \in Workers |-> Idle] /\ handled' = [p \in Peers |-> 0]
  BY DEF StartRun
<1>2. ToSet(start) \subseteq Peers
  BY DEF ToSet
<1>3. Busy' = {} /\ \A p : WorkersAt(p)' = {}
  BY <1>1 DEF Busy, WorkersAt, Idle
<1>4. CrawlerTypeOK'
  BY <1>1, <1>2 DEF CrawlerTypeOK, Idle
<1>5. JobsAccounted'
  <2>1. Cardinality(Busy)' = 0 /\ Len(jobs') = 0 /\ Len(results') = 0
    BY <1>1, <1>3, FS_EmptySet, EmptyChannel
  <2> QED
    BY <1>1, <2>1 DEF JobsAccounted
<1>6. WorkersTyped' /\ Closed' /\ Addressed'
  BY <1>1, <1>3, EmptyChannel DEF WorkersTyped, Closed, Addressed
<1>7. ASSUME NEW p \in Peers
      PROVE  handled'[p] + OnTheWay(p)' = Occurrences(start, p)
             /\ (Occurrences(start, p) > 0 <=> p \in ToSet(start))
  <2>1. InJobs(p)' = 0 /\ InResults(p)' = 0 /\ handled'[p] = 0
    BY <1>1 DEF InJobs, InResults
  <2>2. Cardinality(WorkersAt(p))' = 0
    BY <1>3, FS_EmptySet
  <2>3. Occurrences(toDial, p)' = Occurrences(start, p) /\ Occurrences(start, p) \in Nat
    BY <1>1, OccurrencesType
  <2>4. OnTheWay(p)' = Occurrences(toDial, p)' + InJobs(p)' + Cardinality(WorkersAt(p))' + InResults(p)'
    BY DEF OnTheWay
  <2>5. handled'[p] + OnTheWay(p)' = Occurrences(start, p)
    BY <2>1, <2>2, <2>3, <2>4
  <2> QED
    BY <2>5, OccurrencesType
<1>8. DialsBounded'
  BY <1>7 DEF DialsBounded, Listed
<1>9. SeenIsDialed'
  BY <1>1, <1>2, <1>7 DEF SeenIsDialed
<1> QED
  BY <1>4, <1>5, <1>6, <1>8, <1>9 DEF CrawlIInv

(* A crawl starts with each peer found before, once, and the bootstrap peers. *)
LEMMA StartCrawlStep ==
  ASSUME FullRTIInv, StartCrawl
  PROVE  CrawlIInv'
<1>1. PICK known \in SUBSET foundPeers : \E order \in SetToSeqs(known) :
             StartRun(order \o bootstrapPeers)
  BY DEF StartCrawl
<1>2. PICK order \in SetToSeqs(known) : StartRun(order \o bootstrapPeers)
  BY <1>1
<1>3. known \in SUBSET Peers
  BY <1>1 DEF FullRTIInv, FullRTTypeOK
<1>4. IsFiniteSet(known)
  BY <1>3, FS_Subset, CrawlerAssumption
<1>5. order \in Seq(known) /\ \A p : Occurrences(order, p) = IF p \in known THEN 1 ELSE 0
  BY <1>2, <1>4, OrderOnce
<1>6. order \in Seq(Peers) /\ bootstrapPeers \in Seq(Peers) /\ order \o bootstrapPeers \in Seq(Peers)
  <2>1. order \in Seq(Peers)
    BY <1>3, <1>5
  <2>2. bootstrapPeers \in Seq(Peers)
    BY FullRTAssumption
  <2> QED
    BY <2>1, <2>2
<1>7. ASSUME NEW p \in Peers PROVE Occurrences(order \o bootstrapPeers, p) <= 1 + Listed(p)
  <2>1. Occurrences(order \o bootstrapPeers, p) = Occurrences(order, p) + Occurrences(bootstrapPeers, p)
    BY <1>6, OccurrencesConcat
  <2>2. Occurrences(bootstrapPeers, p) \in Nat /\ Listed(p) = Occurrences(bootstrapPeers, p)
    BY <1>6, OccurrencesType DEF Listed, Occurrences
  <2> QED
    BY <1>5, <2>1, <2>2
<1> QED
  BY <1>2, <1>6, <1>7, StartRunStep

(* A step that does not touch the crawl *)
LEMMA CrawlUnchanged ==
  ASSUME CrawlIInv, UNCHANGED crawlerVars
  PROVE  CrawlIInv'
<1>1. UNCHANGED <<crawl, toDial, peersSeen, peersQueried, addrs, outstanding, jobs, results, worker, handled>>
  BY DEF crawlerVars, crawlVars
<1>2. Busy' = Busy /\ \A p : WorkersAt(p)' = WorkersAt(p)
  BY <1>1 DEF Busy, WorkersAt
<1>3. CrawlerTypeOK' /\ JobsAccounted' /\ WorkersTyped' /\ Closed' /\ Addressed'
  BY <1>1, <1>2 DEF CrawlIInv, CrawlerTypeOK, JobsAccounted, WorkersTyped, Closed, Addressed
<1>4. \A p \in Peers : OnTheWay(p)' = OnTheWay(p)
  BY <1>1, <1>2 DEF OnTheWay, InJobs, InResults
<1> QED
  BY <1>1, <1>3, <1>4, Moves DEF CrawlIInv

-----------------------------------------------------------------------------
(* The client *)

(* The client starts with empty tables and no crawl. *)
LEMMA FullRTInitially ==
  FullRTInit => FullRTIInv
<1> SUFFICES ASSUME FullRTInit PROVE FullRTIInv
  OBVIOUS
<1>1. /\ crawl = "off" /\ toDial = << >> /\ peersSeen = {} /\ peersQueried = {} /\ addrs = {}
      /\ outstanding = 0 /\ jobs = << >> /\ results = << >>
      /\ worker = [w \in Workers |-> Exited] /\ handled = [p \in Peers |-> 0]
  BY DEF FullRTInit, InitCrawler
<1>2. Busy = {} /\ \A p : WorkersAt(p) = {}
  BY <1>1 DEF Busy, WorkersAt, Exited, Idle
<1>3. CrawlerTypeOK
  <2>1. Exited \in [at : {"idle", "query", "send", "exited"}, peer : Peers \cup {NoPeer}, data : SUBSET Peers]
    BY DEF Exited, Idle
  <2> QED
    BY <1>1, <2>1 DEF CrawlerTypeOK
<1>4. FullRTTypeOK /\ Tables
  BY <1>1, <1>3 DEF FullRTInit, FullRTTypeOK, Tables, Swapping
<1>5. JobsAccounted
  BY <1>1, <1>2, FS_EmptySet, EmptyChannel DEF JobsAccounted
<1>6. WorkersTyped /\ Closed /\ Addressed
  BY <1>1, <1>2, EmptyChannel DEF WorkersTyped, Closed, Addressed
<1>7. ASSUME NEW p \in Peers PROVE handled[p] + OnTheWay(p) = 0 /\ Listed(p) \in Nat
  <2>1. InJobs(p) = 0 /\ InResults(p) = 0 /\ handled[p] = 0 /\ Occurrences(toDial, p) = 0
    BY <1>1, OccurrencesSmall DEF InJobs, InResults
  <2>2. Cardinality(WorkersAt(p)) = 0
    BY <1>2, FS_EmptySet
  <2>3. Listed(p) \in Nat
    BY OccurrencesType, FullRTAssumption DEF Listed, Occurrences
  <2> QED
    BY <2>1, <2>2, <2>3 DEF OnTheWay
<1>8. DialsBounded /\ SeenIsDialed
  BY <1>1, <1>7 DEF DialsBounded, SeenIsDialed
<1> QED
  BY <1>3, <1>4, <1>5, <1>6, <1>8 DEF FullRTIInv, CrawlIInv

(* Every step of the client keeps the invariant. *)
LEMMA FullRTStep ==
  ASSUME FullRTIInv, [FullRTNext]_fullRTVars
  PROVE  FullRTIInv'
<1>1. CrawlIInv'
  <2>1. ASSUME StartCrawl PROVE CrawlIInv'
    BY <2>1, StartCrawlStep
  <2>2. ASSUME NEW w \in Workers, CrawlWork(w) PROVE CrawlIInv'
    BY <2>2, TakeJobStep, QueryPeerStep, SendResultStep DEF CrawlWork, FullRTIInv
  <2>3. ASSUME UNCHANGED crawlerVars PROVE CrawlIInv'
    BY <2>3, CrawlUnchanged DEF FullRTIInv
  <2>4. ASSUME Run PROVE CrawlIInv'
    BY <2>4, SendJobStep, CloseStep, ReceiveResultStep DEF Run, CrawlStep, CrawlResult, CrawlDone, FullRTIInv
  <2>5. ASSUME Swap PROVE CrawlIInv'
    BY <2>3, <2>5 DEF Swap, SwapPeerAddrs, SwapKeyToPeerMap, SwapRt
  <2> QED
    BY <2>1, <2>2, <2>3, <2>4, <2>5
    DEF FullRTNext, Ticked, CrawlerExits, WorkerStep, Close, CloseReturns, Triggered, TriggerRefresh,
        TriggerGivesUp, fullRTVars
<1>2. FullRTTypeOK' /\ Tables'
  <2>0. FullRTTypeOK /\ CrawlIInv /\ Tables /\ CrawlerTypeOK'
    BY <1>1 DEF FullRTIInv, CrawlIInv
  <2>1. ASSUME StartCrawl, caller' \in [Callers -> {"idle", "waiting"}], closing' = closing
        PROVE  FullRTTypeOK' /\ Tables'
    BY <2>0, <2>1 DEF StartCrawl, StartRun, FullRTTypeOK, Tables, tables, Swapping
  <2>2. ASSUME Run PROVE FullRTTypeOK' /\ Tables'
    <3>1. CASE CrawlStep
      BY <2>0, <3>1 DEF CrawlStep, SendJob, CloseJobs, FullRTTypeOK, Tables, tables, clientVars, Swapping
    <3>2. CASE CrawlResult
      <4>1. crawl = "loop" /\ crawl' = "loop" /\ UNCHANGED <<loop, tables, clientVars>>
        BY <3>2 DEF CrawlResult, ReceiveResult, MayReceive
      <4>2. foundPeers' \subseteq Peers
        <5>1. results # << >> /\ results \in Seq([peer : Peers, data : SUBSET Peers])
          BY <2>0, <3>2 DEF CrawlResult, ReceiveResult, MayReceive, FullRTTypeOK, CrawlerTypeOK
        <5>2. Head(results) \in [peer : Peers, data : SUBSET Peers]
          BY <2>0, <5>1, Channel DEF CrawlIInv, JobsAccounted
        <5>3. Head(results).peer \in Peers
          BY <5>2
        <5> QED
          BY <2>0, <3>2, <5>3 DEF CrawlResult, HandleResult, FullRTTypeOK
      <4> QED
        BY <2>0, <4>1, <4>2 DEF FullRTTypeOK, Tables, tables, clientVars, Swapping
    <3>3. CASE CrawlDone
      BY <2>0, <3>3 DEF CrawlDone, RunReturns, FullRTTypeOK, Tables, tables, clientVars, Swapping
    <3> QED
      BY <2>2, <3>1, <3>2, <3>3 DEF Run
  <2>3. ASSUME Swap PROVE FullRTTypeOK' /\ Tables'
    BY <2>0, <2>3 DEF Swap, SwapPeerAddrs, SwapKeyToPeerMap, SwapRt, FullRTTypeOK, Tables, tables,
       clientVars, crawlerVars, Swapping
  <2>4. ASSUME NEW w \in Workers, WorkerStep(w) PROVE FullRTTypeOK' /\ Tables'
    BY <2>0, <2>4 DEF WorkerStep, CrawlWork, TakeJob, queryPeer, SendResult, WorkerExits, FullRTTypeOK,
       Tables, tables, clientVars, Swapping
  <2>5. ASSUME UNCHANGED <<crawlerVars, loop, foundPeers, tables>>,
               caller' \in [Callers -> {"idle", "waiting"}], closing' \in {"open", "closing", "closed"}
        PROVE  FullRTTypeOK' /\ Tables'
    BY <2>0, <2>5 DEF FullRTTypeOK, Tables, tables, crawlerVars, Swapping
  <2>6. ASSUME CrawlerExits PROVE FullRTTypeOK' /\ Tables'
    BY <2>0, <2>6 DEF CrawlerExits, FullRTTypeOK, Tables, tables, clientVars, crawlerVars, Swapping
  <2>7. ASSUME UNCHANGED fullRTVars PROVE FullRTTypeOK' /\ Tables'
    BY <2>0, <2>5, <2>7 DEF fullRTVars, clientVars, FullRTTypeOK
  <2>8. ASSUME Ticked PROVE FullRTTypeOK' /\ Tables'
    BY <2>0, <2>1, <2>8 DEF Ticked, clientVars, FullRTTypeOK
  <2>9. ASSUME NEW c \in Callers, Triggered(c) \/ TriggerRefresh(c) \/ TriggerGivesUp(c)
        PROVE  FullRTTypeOK' /\ Tables'
    <3>1. caller' \in [Callers -> {"idle", "waiting"}] /\ closing' = closing
      BY <2>0, <2>9 DEF Triggered, TriggerRefresh, TriggerGivesUp, FullRTTypeOK
    <3> QED
      BY <2>0, <2>1, <2>5, <2>9, <3>1 DEF Triggered, TriggerRefresh, TriggerGivesUp, FullRTTypeOK
  <2>10. ASSUME Close \/ CloseReturns PROVE FullRTTypeOK' /\ Tables'
    BY <2>0, <2>5, <2>10 DEF Close, CloseReturns, FullRTTypeOK
  <2> QED
    BY <2>2, <2>3, <2>4, <2>6, <2>7, <2>8, <2>9, <2>10 DEF FullRTNext
<1> QED
  BY <1>1, <1>2 DEF FullRTIInv

(* Once Run has closed jobs nothing is on its way: no worker is left that
   would wait to send. *)
LEMMA CrawlDrained ==
  ASSUME CrawlIInv, crawl # "loop"
  PROVE  /\ toDial = << >> /\ jobs = << >> /\ results = << >> /\ Busy = {}
         /\ \A p \in Peers : OnTheWay(p) = 0
<1>1. CrawlerTypeOK /\ toDial = << >> /\ outstanding = 0
  BY DEF CrawlIInv, Closed
<1>2. Len(jobs) \in Nat /\ Len(results) \in Nat /\ Cardinality(Busy) \in Nat
  BY <1>1, Counted DEF CrawlerTypeOK
<1>3. Len(jobs) + Cardinality(Busy) + Len(results) = 0
  BY <1>1 DEF CrawlIInv, JobsAccounted
<1>4. Len(jobs) = 0 /\ Len(results) = 0 /\ Cardinality(Busy) = 0
  BY <1>2, <1>3
<1>5. jobs = << >> /\ results = << >> /\ Busy = {}
  BY <1>1, <1>4, Counted, EmptySeq DEF CrawlerTypeOK
<1>6. ASSUME NEW p \in Peers PROVE OnTheWay(p) = 0
  <2>1. WorkersAt(p) = {}
    BY <1>5 DEF WorkersAt
  <2>2. Cardinality(WorkersAt(p)) = 0
    BY <2>1, FS_EmptySet
  <2>3. InJobs(p) = 0 /\ InResults(p) = 0 /\ Occurrences(toDial, p) = 0
    BY <1>1, <1>5, OccurrencesSmall DEF InJobs, InResults
  <2> QED
    BY <2>2, <2>3 DEF OnTheWay
<1> QED
  BY <1>1, <1>5, <1>6

(* The invariant implies what the run checks. *)
LEMMA CrawlIsComplete ==
  FullRTIInv => FullRTInv
<1> SUFFICES ASSUME FullRTIInv PROVE FullRTInv
  OBVIOUS
<1>1. CrawlIInv /\ Tables /\ CrawlerTypeOK
  BY DEF FullRTIInv, CrawlIInv
<1>2. ASSUME NEW p \in Peers PROVE handled[p] \in Nat /\ OnTheWay(p) \in Nat /\ Listed(p) \in Nat
  <2>1. handled[p] \in Nat
    BY <1>1 DEF CrawlerTypeOK
  <2>2. Listed(p) \in Nat
    BY OccurrencesType, FullRTAssumption DEF Listed, Occurrences
  <2> QED
    BY <1>1, <2>1, <2>2, Counted
<1>3. \A p \in Peers : handled[p] <= 1 + Listed(p)
  BY <1>1, <1>2 DEF CrawlIInv, DialsBounded
<1>4. ASSUME Swapping PROVE peersSeen = {p \in Peers : handled[p] > 0}
  <2>1. crawl # "loop"
    BY <1>1, <1>4 DEF Tables, Swapping
  <2>2. \A p \in Peers : OnTheWay(p) = 0
    BY <1>1, <2>1, CrawlDrained
  <2> QED
    BY <1>1, <1>2, <2>2 DEF CrawlIInv, SeenIsDialed
<1> QED
  BY <1>1, <1>3, <1>4 DEF FullRTIInv, FullRTInv, CrawlIInv, CrawlComplete, Addressed

(* What is near in two sets is near in their intersection. *)
LEMMA NearestInBoth ==
  ASSUME NEW A \in SUBSET Peers, NEW B \in SUBSET Peers
  PROVE  Nearest(K, A) \cap Nearest(K, B) \subseteq Nearest(K, A \cap B)
<1> SUFFICES ASSUME NEW p \in Nearest(K, A) \cap Nearest(K, B)
             PROVE  p \in Nearest(K, A \cap B)
  OBVIOUS
<1> DEFINE below == {q \in A : q < p}
           both == {q \in A \cap B : q < p}
<1>1. p \in A \cap B /\ Cardinality(below) < K
  BY DEF Nearest
<1>2. IsFiniteSet(A) /\ below \in SUBSET A /\ both \in SUBSET below
  BY FS_Subset, CrawlerAssumption
<1>3. IsFiniteSet(below)
  BY <1>2, FS_Subset
<1>4. IsFiniteSet(both) /\ Cardinality(both) <= Cardinality(below)
  BY <1>2, <1>3, FS_Subset
<1>5. Cardinality(both) \in Nat /\ Cardinality(below) \in Nat /\ K \in Nat
  BY <1>3, <1>4, FS_CardinalityType, FullRTAssumption
<1>6. Cardinality(both) < K
  BY <1>1, <1>4, <1>5
<1> QED
  BY <1>1, <1>6 DEF Nearest

(* Only while rt is the last table to swap does it differ from keyToPeerMap. *)
LEMMA ReadsAreSteady ==
  FullRTIInv => ReadsSteady
<1> SUFFICES ASSUME FullRTIInv PROVE ReadsSteady
  OBVIOUS
<1>1. FullRTTypeOK /\ Tables
  BY DEF FullRTIInv
<1>2. ASSUME Swapping
      PROVE  Nearest(K, rt) \cap Nearest(K, foundPeers) \subseteq GetClosestPeers
  <2>1. CASE rt = keyToPeerMap
    <3>1. rt \cap keyToPeerMap = rt
      BY <2>1
    <3> QED
      BY <3>1 DEF GetClosestPeers
  <2>2. CASE keyToPeerMap = foundPeers
    <3>1. rt \in SUBSET Peers /\ foundPeers \in SUBSET Peers
      BY <1>1 DEF FullRTTypeOK
    <3> QED
      BY <2>2, <3>1, NearestInBoth DEF GetClosestPeers
  <2> QED
    BY <1>1, <1>2, <2>1, <2>2 DEF Tables, Swapping
<1>3. ~Swapping => rt = keyToPeerMap /\ rt = peerAddrs
  BY <1>1 DEF Tables
<1> QED
  BY <1>2, <1>3 DEF ReadsSteady

(* The inductive invariant of runCrawler and the crawls it starts: types,
   where every job is, how often each peer is on its way, and how far the
   swap of the tables has come. *)
THEOREM FullRTInvariance ==
  FullRTSpec => []FullRTIInv
<1>1. FullRTInit => FullRTIInv
  BY FullRTInitially
<1>2. FullRTIInv /\ [FullRTNext]_fullRTVars => FullRTIInv'
  BY FullRTStep
<1> QED
  BY <1>1, <1>2, PTL DEF FullRTSpec

(* A crawl loses no job and no peer: what Run counts as outstanding is in a
   channel or with a worker, no peer is dialed more often than it is known
   and listed, and when runCrawler swaps the tables every peer that was seen
   was handled. *)
THEOREM CrawlsComplete ==
  FullRTSpec => []FullRTInv
BY FullRTInvariance, CrawlIsComplete, PTL

(* GetClosestPeers finds, also between the swaps that take one lock after the
   other, every peer that is among the bucketSize nearest of the old table
   and of the new one, and with no swap under way the tables agree. *)
THEOREM ReadersMissNothing ==
  FullRTSpec => []ReadsSteady
BY FullRTInvariance, ReadsAreSteady, PTL
=============================================================================
