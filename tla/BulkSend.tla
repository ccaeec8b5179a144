------------------------------ MODULE BulkSend ------------------------------
(***************************************************************************)
(* bulkMessageSend of fullrt/dht.go, which ProvideMany and PutMany use: it *)
(* sends many keys, sorted and in groups, to the peers closest to each.    *)
(* For a group it collects the keys of each peer, and hands one message    *)
(* per peer to the workers through a channel with room for one.  A worker  *)
(* connects to the peer and sends it the keys one after the other.  A key  *)
(* that has successes enough is skipped by those that come late.           *)
(***************************************************************************)
EXTENDS Integers, Sequences, FiniteSets, FiniteSetsExt

CONSTANTS
  NumKeys,       \* the keys are 1..NumKeys, in their order
  Servers,       \* the peers of the table that are near to some key
  TableSizes,    \* the numbers of peers the table may have
  bucketSize,
  BulkWorkers,   \* bulkSendParallelism many
  SuccessesEnough   \* numSuccessfulToWaitFor

ASSUME BulkAssumption ==
  /\ NumKeys \in Nat \ {0} /\ bucketSize \in Nat \ {0} /\ SuccessesEnough \in Nat
  /\ TableSizes \subseteq Nat
  /\ IsFiniteSet(Servers) /\ IsFiniteSet(BulkWorkers) /\ BulkWorkers # {}

Keys == 1..NumKeys

VARIABLES
  bulk,         \* "off", "start", "groups", "send", "wait", "ok", "failed" or "panic"
  ctxDone,      \* the context of the caller
  chunkSize,
  sendsSoFar,   \* how many keys the groups so far had
  keysPerPeer,  \* the messages of this group that are still to be sent
  workCh,
  bulkWorker,   \* bulkWorker[w]: where w is, its peer and the keys left for it
  successes,    \* successes[k]: of the report of k
  assigned,     \* pairs of a peer and a key of all groups so far (history)
  tried,        \* pairs that were sent, with or without success (history)
  skipped       \* pairs that were not: no connection, or the key has enough (history)

bulkVars == <<bulk, ctxDone, chunkSize, sendsSoFar, keysPerPeer, workCh, bulkWorker,
              successes, assigned, tried, skipped>>
history == <<assigned, tried, skipped>>

Work(p, keys) == [peer |-> p, keys |-> keys]
BulkIdle == [at |-> "idle", work |-> Work(0, {})]

InitBulk(start) ==
  /\ bulk = start /\ ctxDone = FALSE
  /\ chunkSize = 0 /\ sendsSoFar = 0
  /\ keysPerPeer = {} /\ workCh = << >>
  /\ bulkWorker = [w \in BulkWorkers |-> BulkIdle]
  /\ successes = [k \in Keys |-> 0]
  /\ assigned = {} /\ tried = {} /\ skipped = {}

-----------------------------------------------------------------------------
(* divideByChunkSize: the next group of the sorted keys *)
Group == (sendsSoFar + 1)..Min({sendsSoFar + chunkSize, NumKeys})

(* The size of the table decides on the size of the groups; the division by
   an empty table panics. *)
ChooseChunkSize ==
  /\ bulk = "start"
  /\ \E numPeers \in TableSizes :
       IF numPeers = 0
       THEN bulk' = "panic" /\ UNCHANGED chunkSize
       ELSE /\ chunkSize' = Max({1, (NumKeys * bucketSize * 2) \div numPeers})
            /\ bulk' = "groups"
  /\ UNCHANGED <<ctxDone, sendsSoFar, keysPerPeer, workCh, bulkWorker, successes, history>>

(* The next group: the peers closest to each of its keys, from a table that
   may be replaced at any time. *)
NextGroup ==
  /\ bulk = "groups" /\ sendsSoFar < NumKeys /\ ~ctxDone
  /\ \E closest \in [Group -> {s \in SUBSET Servers : Cardinality(s) <= bucketSize}] :
       LET keysOf(p) == {k \in Group : p \in closest[k]} IN
         /\ keysPerPeer' = {Work(p, keysOf(p)) : p \in UNION {closest[k] : k \in Group}}
         /\ assigned' = assigned \cup {pair \in Servers \X Group : pair[1] \in closest[pair[2]]}
  /\ sendsSoFar' = sendsSoFar + Cardinality(Group)
  /\ bulk' = "send"
  /\ UNCHANGED <<ctxDone, chunkSize, workCh, bulkWorker, successes, tried, skipped>>

(* The messages of a group go out in any order. *)
SendWork ==
  /\ bulk = "send" /\ keysPerPeer # {}
  /\ workCh = << >>
  /\ \E m \in keysPerPeer : workCh' = <<m>> /\ keysPerPeer' = keysPerPeer \ {m}
  /\ UNCHANGED <<bulk, ctxDone, chunkSize, sendsSoFar, bulkWorker, successes, history>>

(* The group is sent, or the context ended. *)
GroupDone ==
  /\ bulk = "send"
  /\ keysPerPeer = {} \/ ctxDone
  /\ bulk' = "groups"
  /\ keysPerPeer' = {}
  /\ UNCHANGED <<ctxDone, chunkSize, sendsSoFar, workCh, bulkWorker, successes, history>>

(* close(workCh) *)
CloseWork ==
  /\ bulk = "groups"
  /\ sendsSoFar = NumKeys \/ ctxDone
  /\ bulk' = "wait"
  /\ UNCHANGED <<ctxDone, chunkSize, sendsSoFar, keysPerPeer, workCh, bulkWorker, successes, history>>

(* Fault: the reports are read without waiting for the workers. *)
BulkReturnsEarly ==
  /\ bulk = "wait"
  /\ bulk' = IF \E k \in Keys : successes[k] > 0 THEN "ok" ELSE "failed"
  /\ UNCHANGED <<ctxDone, chunkSize, sendsSoFar, keysPerPeer, workCh, bulkWorker, successes, history>>

(* wg.Wait, then the sum of the reports *)
BulkReturns ==
  /\ bulk = "wait"
  /\ \A w \in BulkWorkers : bulkWorker[w].at = "exited"
  /\ bulk' = IF \E k \in Keys : successes[k] > 0 THEN "ok" ELSE "failed"
  /\ UNCHANGED <<ctxDone, chunkSize, sendsSoFar, keysPerPeer, workCh, bulkWorker, successes, history>>

BulkCtxEnds ==
  /\ ~ctxDone /\ bulk \in {"start", "groups", "send", "wait"}
  /\ ctxDone' = TRUE
  /\ UNCHANGED <<bulk, chunkSize, sendsSoFar, keysPerPeer, workCh, bulkWorker, successes, history>>

-----------------------------------------------------------------------------
(* Workers *)

PeerOf(w) == bulkWorker[w].work.peer
KeysOf(w) == bulkWorker[w].work.keys
NextKey(w) == Min(KeysOf(w))
Pairs(m) == {<<m.peer, k>> : k \in m.keys}

TakeWork(w) ==
  /\ bulkWorker[w].at = "idle" /\ workCh # << >>
  /\ bulkWorker' = [bulkWorker EXCEPT ![w] = [at |-> "dial", work |-> Head(workCh)]]
  /\ workCh' = << >>
  /\ UNCHANGED <<bulk, ctxDone, chunkSize, sendsSoFar, keysPerPeer, successes, history>>

(* No connection: all keys of the message are skipped for this peer. *)
DialFails(w) ==
  /\ bulkWorker[w].at = "dial"
  /\ bulkWorker' = [bulkWorker EXCEPT ![w] = BulkIdle]
  /\ skipped' = skipped \cup Pairs(bulkWorker[w].work)
  /\ UNCHANGED <<bulk, ctxDone, chunkSize, sendsSoFar, keysPerPeer, workCh, successes, assigned, tried>>

Connected(w) ==
  /\ bulkWorker[w].at = "dial"
  /\ bulkWorker' = [bulkWorker EXCEPT ![w].at = "keys"]
  /\ UNCHANGED <<bulk, ctxDone, chunkSize, sendsSoFar, keysPerPeer, workCh, successes, history>>

(* One key is over; after the last the worker is free. *)
KeyDone(w) ==
  bulkWorker' = [bulkWorker EXCEPT
    ![w] = IF KeysOf(w) = {NextKey(w)} THEN BulkIdle
           ELSE [at |-> "keys", work |-> Work(PeerOf(w), KeysOf(w) \ {NextKey(w)})]]

(* The key has enough successes, the last of them some time ago. *)
SkipKey(w) ==
  /\ bulkWorker[w].at = "keys"
  /\ successes[NextKey(w)] >= SuccessesEnough
  /\ KeyDone(w)
  /\ skipped' = skipped \cup {<<PeerOf(w), NextKey(w)>>}
  /\ UNCHANGED <<bulk, ctxDone, chunkSize, sendsSoFar, keysPerPeer, workCh, successes, assigned, tried>>

(* The report of the key is looked at before the request goes out. *)
SendKey(w) ==
  /\ bulkWorker[w].at = "keys"
  /\ bulkWorker' = [bulkWorker EXCEPT ![w].at = "request"]
  /\ UNCHANGED <<bulk, ctxDone, chunkSize, sendsSoFar, keysPerPeer, workCh, successes, history>>

KeyStored(w) ==
  /\ bulkWorker[w].at = "request"
  /\ successes' = [successes EXCEPT ![NextKey(w)] = @ + 1]
  /\ KeyDone(w)
  /\ tried' = tried \cup {<<PeerOf(w), NextKey(w)>>}
  /\ UNCHANGED <<bulk, ctxDone, chunkSize, sendsSoFar, keysPerPeer, workCh, assigned, skipped>>

(* A failure; with the context done the keys that are left are given up. *)
KeyFails(w) ==
  /\ bulkWorker[w].at = "request"
  /\ IF ctxDone THEN bulkWorker' = [bulkWorker EXCEPT ![w] = BulkIdle] ELSE KeyDone(w)
  /\ tried' = tried \cup {<<PeerOf(w), NextKey(w)>>}
  /\ UNCHANGED <<bulk, ctxDone, chunkSize, sendsSoFar, keysPerPeer, workCh, successes, assigned, skipped>>

BulkWorkerExits(w) ==
  /\ bulkWorker[w].at = "idle" /\ workCh = << >> /\ bulk = "wait"
  /\ bulkWorker' = [bulkWorker EXCEPT ![w].at = "exited"]
  /\ UNCHANGED <<bulk, ctxDone, chunkSize, sendsSoFar, keysPerPeer, workCh, successes, history>>

BulkWork(w) ==
  TakeWork(w) \/ DialFails(w) \/ Connected(w) \/ SkipKey(w) \/ SendKey(w)
    \/ KeyStored(w) \/ KeyFails(w) \/ BulkWorkerExits(w)

BulkMain == ChooseChunkSize \/ NextGroup \/ SendWork \/ GroupDone \/ CloseWork \/ BulkReturns

BulkNext == BulkMain \/ BulkCtxEnds \/ \E w \in BulkWorkers : BulkWork(w)

-----------------------------------------------------------------------------
(* Properties *)

BulkTypeOK ==
  /\ bulk \in {"off", "start", "groups", "send", "wait", "ok", "failed", "panic"}
  /\ sendsSoFar \in 0..NumKeys /\ chunkSize \in Nat
  /\ successes \in [Keys -> Nat]
  /\ \A w \in BulkWorkers : bulkWorker[w].at \in {"idle", "dial", "keys", "request", "exited"}

(* No peer gets a key twice: groups share no key, and no pair that was dealt
   with is waiting or with a worker, nor is a pair with two of them. *)
SentOnce ==
  LET pending == [m \in keysPerPeer |-> Pairs(m)]
      inHand == [w \in BulkWorkers |-> Pairs(bulkWorker[w].work)]
  IN
    /\ \A m \in keysPerPeer : pending[m] \cap (tried \cup skipped) = {}
    /\ \A w \in BulkWorkers : inHand[w] \cap (tried \cup skipped) = {}
    /\ \A v, w \in BulkWorkers : v # w => inHand[v] \cap inHand[w] = {}
    /\ \A k \in Keys : successes[k] <= Cardinality({pair \in tried : pair[2] = k})

(* A bulk send that was not cancelled is over only when each key was tried
   at, or skipped for, each of the peers that were closest to it. *)
BulkComplete ==
  bulk \in {"ok", "failed"} /\ ~ctxDone => assigned = tried \cup skipped /\ sendsSoFar = NumKeys

BulkOver == bulk \in {"off", "ok", "failed", "panic"}
=============================================================================
