------------------------------- MODULE Crawler -------------------------------
(***************************************************************************)
(* crawler/crawler.go: one crawl.  Run starts workers that take peers from *)
(* jobs, query them and send what they learn to results; its own loop      *)
(* hands out the peers still to dial, collects results and adds the peers  *)
(* it had not seen.  Both channels have room for one item.  When nothing   *)
(* is left to dial and nothing outstanding, Run closes jobs and waits for  *)
(* the workers.                                                            *)
(*                                                                         *)
(* An answer is the set of peers it names.  A query that fails, be it by   *)
(* its timeout or because the context is done, and one that names nobody   *)
(* are the same to Run.  Module FullRT starts crawls and gives the         *)
(* handlers that Run calls.                                                *)
(***************************************************************************)
EXTENDS Integers, Sequences, FiniteSets, SequencesExt

CONSTANTS
  Peers,     \* peers of the network
  Workers,   \* the workers: parallelism many
  Names,     \* Names[p]: the sets of peers that p may name in its answers
  NoPeer

ASSUME CrawlerAssumption ==
  /\ IsFiniteSet(Peers) /\ NoPeer \notin Peers
  /\ IsFiniteSet(Workers) /\ Workers # {}
  /\ Names \in [Peers -> SUBSET SUBSET Peers]

VARIABLES
  crawl,        \* Run: "off", "loop" or "wait" for the workers
  toDial,
  peersSeen,
  peersQueried,
  addrs,        \* peers with an entry in peerAddrs
  outstanding,
  jobs,
  results,      \* of records [peer, data]
  worker,       \* worker[w]: what w is doing, for which peer and with what answer
  handled       \* handled[p]: how often a handler was called for p in this crawl

crawlVars == <<toDial, peersSeen, peersQueried, addrs, outstanding, jobs, results, worker, handled>>
crawlerVars == <<crawl, crawlVars>>

Room(channel) == Len(channel) < 1
Idle == [at |-> "idle", peer |-> NoPeer, data |-> {}]
Exited == [Idle EXCEPT !.at = "exited"]
Answer(p, data) == [peer |-> p, data |-> data]

InitCrawler ==
  /\ crawl = "off"
  /\ toDial = << >> /\ peersSeen = {} /\ peersQueried = {} /\ addrs = {}
  /\ outstanding = 0 /\ jobs = << >> /\ results = << >>
  /\ worker = [w \in Workers |-> Exited]
  /\ handled = [p \in Peers |-> 0]

(* Run begins with the starting peers that have addresses; a peer that is
   listed twice is dialed twice. *)
StartRun(starting) ==
  /\ crawl = "off"
  /\ crawl' = "loop"
  /\ toDial' = starting
  /\ peersSeen' = ToSet(starting)
  /\ addrs' = ToSet(starting)
  /\ peersQueried' = {}
  /\ outstanding' = 0 /\ jobs' = << >> /\ results' = << >>
  /\ worker' = [w \in Workers |-> Idle]
  /\ handled' = [p \in Peers |-> 0]

-----------------------------------------------------------------------------
(* Workers *)

(* A worker takes a job, and the addresses that are known of the peer. *)
TakeJob(w) ==
  /\ worker[w].at = "idle"
  /\ jobs # << >>
  /\ worker' = [worker EXCEPT ![w] = [at |-> "query", peer |-> Head(jobs), data |-> {}]]
  /\ jobs' = Tail(jobs)
  /\ UNCHANGED <<crawl, toDial, peersSeen, peersQueried, addrs, outstanding, results, handled>>

(* Connect and ask for the peers of each prefix length; a failure
   on the way discards what was learnt. *)
queryPeer(w) ==
  /\ worker[w].at = "query"
  /\ \E data \in Names[worker[w].peer] \cup {{}} :
       worker' = [worker EXCEPT ![w].at = "send", ![w].data = data]
  /\ UNCHANGED <<crawl, toDial, peersSeen, peersQueried, addrs, outstanding, jobs, results, handled>>

SendResult(w) ==
  /\ worker[w].at = "send"
  /\ Room(results)
  /\ results' = Append(results, Answer(worker[w].peer, worker[w].data))
  /\ worker' = [worker EXCEPT ![w] = Idle]
  /\ UNCHANGED <<crawl, toDial, peersSeen, peersQueried, addrs, outstanding, jobs, handled>>

(* The range over jobs ends once it is closed and empty. *)
WorkerExits(w) ==
  /\ worker[w].at = "idle"
  /\ crawl = "wait" /\ jobs = << >>
  /\ worker' = [worker EXCEPT ![w] = Exited]
  /\ UNCHANGED <<crawl, toDial, peersSeen, peersQueried, addrs, outstanding, jobs, results, handled>>

-----------------------------------------------------------------------------
(* The loop of Run *)

SendJob ==
  /\ crawl = "loop"
  /\ toDial # << >>
  /\ Room(jobs)
  /\ jobs' = Append(jobs, Head(toDial))
  /\ toDial' = Tail(toDial)
  /\ outstanding' = outstanding + 1
  /\ UNCHANGED <<crawl, peersSeen, peersQueried, addrs, results, worker, handled>>

(* Fault: a peer counts as new until it was queried. *)
NewPeersUnqueried(data) == data \ peersQueried

NewPeers(data) == data \ peersSeen

(* Fault: a peer to dial is sent first, outside the select. *)
MayReceiveDialed == crawl = "loop" /\ results # << >> /\ toDial = << >>

(* The select sends the next job or receives a result. *)
MayReceive == crawl = "loop" /\ results # << >>

(* A result: the new ones of its peers are to be dialed, in any order, and
   the entries of peers that were not yet queried are added.  The handler is
   called with the result. *)
ReceiveResult ==
  /\ MayReceive
  /\ LET res == Head(results) IN
       /\ handled' = [handled EXCEPT ![res.peer] = @ + 1]
       /\ IF res.data = {}
          THEN UNCHANGED <<toDial, peersSeen, peersQueried, addrs>>
          ELSE /\ \E order \in SetToSeqs(NewPeers(res.data)) : toDial' = toDial \o order
               /\ peersSeen' = peersSeen \cup res.data
               /\ peersQueried' = peersQueried \cup {res.peer}
               /\ addrs' = (addrs \ {res.peer}) \cup (res.data \ peersQueried)
  /\ results' = Tail(results)
  /\ outstanding' = outstanding - 1
  /\ UNCHANGED <<crawl, jobs, worker>>

(* Nothing to dial and nothing outstanding: jobs is closed. *)
CloseJobs ==
  /\ crawl = "loop"
  /\ toDial = << >> /\ outstanding = 0
  /\ crawl' = "wait"
  /\ UNCHANGED crawlVars

CrawlWork(w) == TakeJob(w) \/ queryPeer(w) \/ SendResult(w) \/ WorkerExits(w)

RunReturns ==
  /\ crawl = "wait"
  /\ \A w \in Workers : worker[w].at = "exited"
  /\ crawl' = "off"
  /\ UNCHANGED crawlVars

-----------------------------------------------------------------------------
(* Properties *)

CrawlerTypeOK ==
  /\ crawl \in {"off", "loop", "wait"}
  /\ toDial \in Seq(Peers) /\ jobs \in Seq(Peers)
  /\ peersSeen \subseteq Peers /\ peersQueried \subseteq Peers /\ addrs \subseteq Peers
  /\ outstanding \in Nat
  /\ results \in Seq([peer : Peers, data : SUBSET Peers])
  /\ worker \in [Workers -> [at : {"idle", "query", "send", "exited"},
                             peer : Peers \cup {NoPeer}, data : SUBSET Peers]]
  /\ handled \in [Peers -> Nat]

Busy == {w \in Workers : worker[w].at \in {"query", "send"}}

(* Every job handed out is in a channel or with a worker until its result is
   handled: the loop neither ends too early, with a worker left that waits to
   send, nor waits for a result that does not come. *)
JobsAccounted ==
  /\ outstanding = Len(jobs) + Cardinality(Busy) + Len(results)
  /\ Len(jobs) <= 1 /\ Len(results) <= 1

=============================================================================
