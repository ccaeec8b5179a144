------------------------------- MODULE FullRT -------------------------------
(***************************************************************************)
(* fullrt/dht.go: the client that keeps a table of the whole network.      *)
(* runCrawler crawls again and again: at its start, when its ticker fires  *)
(* and when TriggerRefresh asks for it.  After each crawl it replaces the  *)
(* three tables, each under a lock of its own.  GetClosestPeers reads them *)
(* under all three locks; it changes nothing that is kept here and is      *)
(* stated as an operator: its result in any state.                         *)
(*                                                                         *)
(* A peer is named by its rank in distance from the key that is asked for. *)
(* ipDiversityFilterLimit is 0: NewFullRT never sets the field.            *)
(***************************************************************************)
EXTENDS Crawler

CONSTANTS
  bootstrapPeers,   \* a sequence
  K,                \* bucketSize
  Callers           \* of TriggerRefresh

ASSUME FullRTAssumption ==
  /\ Peers \subseteq Nat
  /\ bootstrapPeers \in Seq(Peers)
  /\ K \in Nat \ {0}
  /\ IsFiniteSet(Callers)

VARIABLES
  loop,            \* runCrawler: "select", "crawl", three points of the swap, "returned"
  foundPeers,
  peerAddrs,       \* the three tables, as the sets of peers they hold
  keyToPeerMap,
  rt,
  caller,          \* caller[c]: in TriggerRefresh "waiting", otherwise "idle"
  closing          \* Close: "open", "closing" (the context is done) or "closed"

tables == <<peerAddrs, keyToPeerMap, rt>>
clientVars == <<caller, closing>>
fullRTVars == <<crawlerVars, loop, foundPeers, tables, clientVars>>

FullRTInit ==
  /\ InitCrawler
  /\ loop = "select"
  /\ foundPeers = {}
  /\ peerAddrs = {} /\ keyToPeerMap = {} /\ rt = {}
  /\ caller = [c \in Callers |-> "idle"]
  /\ closing = "open"

-----------------------------------------------------------------------------
(* The loop of runCrawler *)

(* The crawl starts with the peers found by the last one, as far as the peer
   store still has addresses of them, and the bootstrap peers. *)
StartCrawl ==
  /\ loop = "select"
  /\ \E known \in SUBSET foundPeers : \E order \in SetToSeqs(known) :
       StartRun(order \o bootstrapPeers)
  /\ foundPeers' = {}
  /\ loop' = "crawl"
  /\ UNCHANGED tables

(* case <-initialTrigger, and case <-t.C: the ticker may have fired at any
   time. *)
Ticked ==
  /\ StartCrawl
  /\ UNCHANGED clientVars

(* case <-dht.triggerRefresh: the channel has no buffer, and the call
   returns with the start of the crawl. *)
Triggered(c) ==
  /\ caller[c] = "waiting"
  /\ caller' = [caller EXCEPT ![c] = "idle"]
  /\ StartCrawl
  /\ UNCHANGED closing

CrawlerExits ==
  /\ loop = "select"
  /\ closing # "open"
  /\ loop' = "returned"
  /\ UNCHANGED <<crawlerVars, foundPeers, tables, clientVars>>

(* Steps of Run that call no handler *)
CrawlStep ==
  /\ SendJob \/ CloseJobs
  /\ UNCHANGED <<loop, foundPeers, tables, clientVars>>

WorkerStep(w) ==
  /\ CrawlWork(w)
  /\ UNCHANGED <<loop, foundPeers, tables, clientVars>>

(* handleSuccess adds a peer that PublicRoutingTableFilter keeps, which
   depends on its connections; handleFail only logs. *)
HandleResult(res, keep) ==
  foundPeers' = IF res.data # {} /\ keep THEN foundPeers \cup {res.peer} ELSE foundPeers

CrawlResult ==
  /\ ReceiveResult
  /\ \E keep \in BOOLEAN : HandleResult(Head(results), keep)
  /\ UNCHANGED <<loop, tables, clientVars>>

CrawlDone ==
  /\ RunReturns
  /\ loop' = "swapPeerAddrs"
  /\ UNCHANGED <<foundPeers, tables, clientVars>>

(* Fault: the key map is emptied, to be filled anew in the next step. *)
SwapPeerAddrsEmptying ==
  /\ loop = "swapPeerAddrs"
  /\ peerAddrs' = foundPeers
  /\ keyToPeerMap' = {}
  /\ loop' = "swapKeyToPeerMap"
  /\ UNCHANGED <<crawlerVars, foundPeers, rt, clientVars>>

SwapPeerAddrs ==
  /\ loop = "swapPeerAddrs"
  /\ peerAddrs' = foundPeers
  /\ loop' = "swapKeyToPeerMap"
  /\ UNCHANGED <<crawlerVars, foundPeers, keyToPeerMap, rt, clientVars>>

SwapKeyToPeerMap ==
  /\ loop = "swapKeyToPeerMap"
  /\ keyToPeerMap' = foundPeers
  /\ loop' = "swapRt"
  /\ UNCHANGED <<crawlerVars, foundPeers, peerAddrs, rt, clientVars>>

SwapRt ==
  /\ loop = "swapRt"
  /\ rt' = foundPeers
  /\ loop' = "select"
  /\ UNCHANGED <<crawlerVars, foundPeers, peerAddrs, keyToPeerMap, clientVars>>

-----------------------------------------------------------------------------
(* The user *)

TriggerRefresh(c) ==
  /\ caller[c] = "idle"
  /\ caller' = [caller EXCEPT ![c] = "waiting"]
  /\ UNCHANGED <<crawlerVars, loop, foundPeers, tables, closing>>

(* The call returns an error when the client is closed, or when its own
   context ends. *)
TriggerGivesUp(c) ==
  /\ caller[c] = "waiting"
  /\ caller' = [caller EXCEPT ![c] = "idle"]
  /\ UNCHANGED <<crawlerVars, loop, foundPeers, tables, closing>>

TriggerRefused(c) == closing # "open" /\ TriggerGivesUp(c)

Close ==
  /\ closing = "open"
  /\ closing' = "closing"
  /\ UNCHANGED <<crawlerVars, loop, foundPeers, tables, caller>>

(* wg.Wait: the subscriber, the other goroutine, ends with the context. *)
CloseReturns ==
  /\ closing = "closing" /\ loop = "returned"
  /\ closing' = "closed"
  /\ UNCHANGED <<crawlerVars, loop, foundPeers, tables, caller>>

-----------------------------------------------------------------------------
Run == CrawlStep \/ CrawlResult \/ CrawlDone

Swap == SwapPeerAddrs \/ SwapKeyToPeerMap \/ SwapRt

FullRTNext ==
  \/ Ticked \/ CrawlerExits \/ Run \/ Swap
  \/ \E w \in Workers : WorkerStep(w)
  \/ Close \/ CloseReturns
  \/ \E c \in Callers : Triggered(c) \/ TriggerRefresh(c) \/ TriggerGivesUp(c)

(* A query ends by its timeout.  The select of runCrawler chooses at random
   among its ready cases and so passes over none of them for ever. *)
FullRTFairness ==
  /\ WF_fullRTVars(Run) /\ WF_fullRTVars(Swap) /\ WF_fullRTVars(CloseReturns)
  /\ \A w \in Workers : WF_fullRTVars(WorkerStep(w))
  /\ SF_fullRTVars(CrawlerExits)
  /\ \A c \in Callers : SF_fullRTVars(Triggered(c)) /\ WF_fullRTVars(TriggerRefused(c))

FullRTSpec == FullRTInit /\ [][FullRTNext]_fullRTVars /\ FullRTFairness

-----------------------------------------------------------------------------
(* Reading the tables *)

(* The n nearest of a set of peers *)
Nearest(n, s) == {p \in s : Cardinality({q \in s : q < p}) < n}

(* GetClosestPeers walks through the keys of rt from the nearest on, leaves
   out those that keyToPeerMap does not have, and stops at bucketSize peers. *)
GetClosestPeers == Nearest(K, rt \cap keyToPeerMap)

-----------------------------------------------------------------------------
(* Properties *)

FullRTTypeOK ==
  /\ CrawlerTypeOK
  /\ loop \in {"select", "crawl", "swapPeerAddrs", "swapKeyToPeerMap", "swapRt", "returned"}
  /\ foundPeers \subseteq Peers /\ peerAddrs \subseteq Peers
  /\ keyToPeerMap \subseteq Peers /\ rt \subseteq Peers
  /\ caller \in [Callers -> {"idle", "waiting"}]
  /\ closing \in {"open", "closing", "closed"}

Swapping == loop \in {"swapPeerAddrs", "swapKeyToPeerMap", "swapRt"}

Listed(p) == Cardinality({i \in DOMAIN bootstrapPeers : bootstrapPeers[i] = p})

(* Run returns only after every peer it came to know was dialed and its
   result handled, and it dials a peer once for being known and once more for
   each time it is listed as a bootstrap peer too.  A peer that waits for its
   first dial has an entry of addresses. *)
CrawlComplete ==
  /\ \A p \in Peers : handled[p] <= 1 + Listed(p)
  /\ \A p \in ToSet(toDial) \cup ToSet(jobs) : handled[p] = 0 => p \in addrs
  /\ Swapping => peersSeen = {p \in Peers : handled[p] > 0}

(* The bookkeeping of a crawl, and what it has done when it is over. *)
FullRTInv == FullRTTypeOK /\ JobsAccounted /\ CrawlComplete

(* A reader of the tables, even between the swaps, misses no peer that is
   among the K nearest both before and after: runCrawler takes the
   three locks one at a time, so a reader may find keys of the old table that
   the new map does not have.  With no swap under way the tables agree. *)
ReadsSteady ==
  /\ Swapping => Nearest(K, rt) \cap Nearest(K, foundPeers)
                   \subseteq GetClosestPeers
  /\ ~Swapping => rt = keyToPeerMap /\ rt = peerAddrs

(* Every crawl ends, with its tables in place; a call of TriggerRefresh is
   answered by the start of a crawl, an error or its own end; Close returns. *)
CrawlsEnd ==
  /\ loop = "crawl" ~> loop = "select"
  /\ \A c \in Callers : caller[c] = "waiting" ~> caller[c] = "idle"
  /\ closing = "closing" ~> closing = "closed"
=============================================================================
